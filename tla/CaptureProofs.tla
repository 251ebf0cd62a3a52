----------------------------- MODULE CaptureProofs -----------------------------
(***************************************************************************)
(* Proofs that what is captured is complete: the market tape (MarketTape), *)
(* the wide lane (WideLane), the evidence file of a source                 *)
(* (SourceEvidence) and the fills of a wallet (WalletShadow), for any      *)
(* trades, partitions, wallets and bounds, whatever is lost, repeated,     *)
(* cancelled or fails.                                                     *)
(***************************************************************************)
EXTENDS MarketTape, WideLane, WalletShadow, SourceEvidence, FiniteSetTheorems, SequenceTheorems, WellFoundedInduction, TLAPS

-----------------------------------------------------------------------------
(* The inductive invariant. *)

Market == Len(traded)
MarketTrades == 1 .. Market
LatestKey == IF keys = <<>> THEN 0 ELSE keys[Len(keys)]
NextUp == Market - Len(wire) + 1  \* the first trade of the wire

TapeRow == [row : Nat, at : Nat]
Buffers == [Partitions -> Seq(TapeRow)]
Files == [Partitions -> Seq(Nat)]
Places == {"reading", "putting", "lost", "closing", "joining", "closed"}

TapeShape ==
    /\ traded \in Seq(Partitions)
    /\ wire \in Seq(Nat) /\ keys \in Seq(Nat) /\ queue \in Seq(Nat) /\ accepted \in Seq(Nat)
    /\ reader \in [at : Places, row : Nat]
    /\ buffers \in Buffers /\ files \in Files
    /\ writer \in {"running", "done", "dead"}
    /\ deadline \in Nat /\ now \in Nat

(* The wire holds the last trades of the market, without a gap. *)
WireFits ==
    reader.at \in {"reading", "putting"} =>
        /\ Len(wire) <= Market
        /\ \A i \in DOMAIN wire : wire[i] = Market - Len(wire) + i

(* The keys of the deduper ascend, so the oldest is MaxKeys behind the next. *)
Spaced(s) == \A i, j \in DOMAIN s : i <= j => s[i] + (j - i) <= s[j]
KeysFit ==
    /\ Len(keys) <= MaxKeys
    /\ ToSet(keys) \subseteq MarketTrades
    /\ Spaced(keys)

(* What a subscription may bring again, and is not new, is still known. *)
Remembers ==
    /\ reader.at \in {"reading", "putting"} =>
          \A u \in MarketTrades :
              /\ NextUp <= u /\ u <= LatestKey => u \in ToSet(keys)
              /\ Market - Resent < u /\ u < NextUp => u \in ToSet(keys)
    /\ reader.at = "lost" => \A u \in MarketTrades : Market - Resent < u /\ u <= LatestKey => u \in ToSet(keys)

Accepts ==
    /\ Ascending(accepted)
    /\ ToSet(accepted) \subseteq MarketTrades
    /\ reader.at \in {"reading", "lost"} => \A t \in ToSet(accepted) : t <= LatestKey
    /\ reader.at = "putting" =>
          reader.row \in MarketTrades /\ reader.row = LatestKey /\ \A t \in ToSet(accepted) : t < reader.row

(* The queue holds the latest accepted rows in order, and at its end the stop. *)
Left == ToSet(accepted) \ ToSet(queue)
QueueFits ==
    /\ Len(queue) <= QueueSize
    /\ \A i \in DOMAIN queue : queue[i] = Stop => i = Len(queue) /\ reader.at \in {"joining", "closed"}
    /\ \A i, j \in DOMAIN queue : i < j => queue[j] = Stop \/ queue[i] < queue[j]
    /\ \A u \in ToSet(queue) : u = Stop \/ u \in ToSet(accepted)
    /\ \A t \in Left, u \in ToSet(queue) : u = Stop \/ t < u
    /\ writer = "done" => queue = <<>> /\ reader.at \in {"joining", "closed"}

(* What left the queue is in the files and the buffers. *)
Flushed ==
    /\ \A p \in Partitions : Ascending(Written(p)) /\ ToSet(Written(p)) = {t \in Left : traded[t] = p}
    /\ writer = "done" => \A p \in Partitions : buffers[p] = <<>>

BuffersFit ==
    /\ \A p \in Partitions : Len(buffers[p]) <= FlushRows
    /\ writer = "running" =>
          /\ \A p \in Partitions : Len(buffers[p]) < FlushRows
          /\ Buffered(buffers) < MaxBuffered
          /\ now <= deadline /\ deadline <= now + FlushTicks
          /\ \A p \in Partitions : \A i \in DOMAIN buffers[p] : deadline <= buffers[p][i].at + FlushTicks

TapeInv == TapeShape /\ WireFits /\ KeysFit /\ Remembers /\ Accepts /\ QueueFits /\ Flushed /\ BuffersFit

-----------------------------------------------------------------------------
(* Lemmas about sequences. *)

LEMMA AppendFacts ==
    ASSUME NEW S, NEW s \in Seq(S), NEW x \in S
    PROVE  /\ Append(s, x) \in Seq(S) /\ Len(Append(s, x)) = Len(s) + 1 /\ Len(s) \in Nat
           /\ DOMAIN s = 1 .. Len(s) /\ DOMAIN Append(s, x) = 1 .. (Len(s) + 1)
           /\ \A i \in 1 .. Len(s) : Append(s, x)[i] = s[i]
           /\ Append(s, x)[Len(s) + 1] = x
           /\ ToSet(Append(s, x)) = ToSet(s) \cup {x}
<1>1. /\ Append(s, x) \in Seq(S) /\ Len(Append(s, x)) = Len(s) + 1 /\ Len(s) \in Nat
      /\ DOMAIN s = 1 .. Len(s) /\ DOMAIN Append(s, x) = 1 .. (Len(s) + 1)
      /\ \A i \in 1 .. Len(s) : Append(s, x)[i] = s[i]
      /\ Append(s, x)[Len(s) + 1] = x
    OBVIOUS
<1>2. ToSet(Append(s, x)) \subseteq ToSet(s) \cup {x}
    BY <1>1 DEF ToSet
<1>3. ToSet(s) \cup {x} \subseteq ToSet(Append(s, x))
    BY <1>1 DEF ToSet
<1> QED BY <1>1, <1>2, <1>3

LEMMA TailFacts ==
    ASSUME NEW S, NEW s \in Seq(S), s # <<>>
    PROVE  /\ Tail(s) \in Seq(S) /\ Len(s) \in Nat \ {0} /\ Len(Tail(s)) = Len(s) - 1
           /\ DOMAIN s = 1 .. Len(s) /\ DOMAIN Tail(s) = 1 .. (Len(s) - 1)
           /\ \A i \in 1 .. (Len(s) - 1) : Tail(s)[i] = s[i + 1]
           /\ Head(s) = s[1] /\ Head(s) \in S
           /\ ToSet(s) = {Head(s)} \cup ToSet(Tail(s))
<1>1. /\ Tail(s) \in Seq(S) /\ Len(s) \in Nat \ {0} /\ Len(Tail(s)) = Len(s) - 1
      /\ DOMAIN s = 1 .. Len(s) /\ DOMAIN Tail(s) = 1 .. (Len(s) - 1)
      /\ \A i \in 1 .. (Len(s) - 1) : Tail(s)[i] = s[i + 1]
      /\ Head(s) = s[1] /\ Head(s) \in S
    BY HeadTailProperties, EmptySeq, LenProperties
<1>2. {Head(s)} \cup ToSet(Tail(s)) \subseteq ToSet(s)
    BY <1>1 DEF ToSet
<1>3. ToSet(s) \subseteq {Head(s)} \cup ToSet(Tail(s))
    <2> SUFFICES ASSUME NEW i \in 1 .. Len(s), i # 1 PROVE s[i] \in ToSet(Tail(s))
        BY <1>1 DEF ToSet
    <2>1. i - 1 \in 1 .. (Len(s) - 1) /\ (i - 1) + 1 = i
        BY <1>1
    <2> QED BY <1>1, <2>1 DEF ToSet
<1> QED BY <1>1, <1>2, <1>3

LEMMA AscendingAppend ==
    ASSUME NEW s \in Seq(Nat), NEW x \in Nat, Ascending(s), \A t \in ToSet(s) : t < x
    PROVE  Ascending(Append(s, x))
<1>1. \A i \in 1 .. Len(s) : s[i] \in Nat /\ s[i] < x
    BY LenProperties DEF ToSet
<1>2. ASSUME NEW i \in 1 .. (Len(s) + 1), NEW j \in 1 .. (Len(s) + 1), i < j
      PROVE  Append(s, x)[i] < Append(s, x)[j]
    <2>1. i \in 1 .. Len(s) /\ (j \in 1 .. Len(s) \/ j = Len(s) + 1)
        BY <1>2, AppendFacts
    <2>2. CASE j \in 1 .. Len(s)
        BY <2>1, <2>2, <1>2, AppendFacts DEF Ascending
    <2>3. CASE j = Len(s) + 1
        BY <2>1, <2>3, <1>1, AppendFacts
    <2> QED BY <2>1, <2>2, <2>3
<1> QED BY <1>2, AppendFacts DEF Ascending

(* The last ones of a sequence, and how many come before them. *)
Cut(s, n) == IF Len(s) > n THEN Len(s) - n ELSE 0
EndsIn(s, r, d) ==
    /\ d \in 0 .. Len(s) /\ Len(r) = Len(s) - d /\ DOMAIN r = 1 .. (Len(s) - d)
    /\ \A i \in 1 .. (Len(s) - d) : r[i] = s[i + d]

LEMMA EndsParts ==
    ASSUME NEW s, NEW r, NEW d, EndsIn(s, r, d)
    PROVE  /\ Len(r) = Len(s) - d /\ DOMAIN r = 1 .. (Len(s) - d)
           /\ \A i \in 1 .. (Len(s) - d) : r[i] = s[i + d]
BY DEF EndsIn

LEMMA LastOnesFacts ==
    ASSUME NEW S, NEW s \in Seq(S), NEW n \in Nat
    PROVE  LastOnes(s, n) \in Seq(S) /\ EndsIn(s, LastOnes(s, n), Cut(s, n))
<1>1. Len(s) \in Nat /\ DOMAIN s = 1 .. Len(s)
    BY LenProperties
<1>2. CASE Len(s) > n
    <2> DEFINE m == Len(s) - n + 1
               r == SubSeq(s, m, Len(s))
    <2>1. m \in Int /\ Len(s) \in Int /\ m >= 1 /\ Len(s) - m + 1 = n /\ LastOnes(s, n) = r
        BY <1>1, <1>2 DEF LastOnes
    <2>2. \A i \in m .. Len(s) : s[i] \in S
        BY <1>1, <2>1, ElementOfSeq
    <2>3. /\ r \in Seq(S) /\ Len(r) = (IF m <= Len(s) THEN Len(s) - m + 1 ELSE 0)
          /\ \A i \in 1 .. (Len(s) - m + 1) : r[i] = s[m + i - 1]
        <3> HIDE DEF m
        <3> QED BY <2>1, <2>2, SubSeqProperties
    <2>4. Len(r) = n
        <3>1. n = (IF m <= Len(s) THEN Len(s) - m + 1 ELSE 0)
            BY <1>1, <1>2
        <3> HIDE DEF r, m
        <3> QED BY <2>3, <3>1
    <2>5. ASSUME NEW i \in 1 .. n PROVE r[i] = s[i + (Len(s) - n)]
        <3>1. m + i - 1 = i + (Len(s) - n) /\ i \in 1 .. (Len(s) - m + 1)
            BY <1>1, <2>1
        <3> HIDE DEF r, m
        <3> QED BY <2>3, <3>1
    <2>6. DOMAIN r = 1 .. n
        BY <2>3, <2>4, LenProperties
    <2>7. Len(s) - n \in 0 .. Len(s) /\ Len(s) - (Len(s) - n) = n
        BY <1>1, <1>2
    <2> HIDE DEF r, m
    <2>8. EndsIn(s, r, Len(s) - n)
        BY <2>4, <2>5, <2>6, <2>7 DEF EndsIn
    <2> QED BY <1>2, <2>1, <2>3, <2>8 DEF Cut
<1>3. CASE ~ Len(s) > n
    <2>1. LastOnes(s, n) = s /\ Cut(s, n) = 0
        BY <1>3 DEF LastOnes, Cut
    <2>2. 0 \in 0 .. Len(s) /\ Len(s) - 0 = Len(s) /\ \A i \in 1 .. Len(s) : i + 0 = i
        BY <1>1
    <2>3. EndsIn(s, s, 0)
        BY <1>1, <2>2 DEF EndsIn
    <2> QED BY <2>1, <2>3
<1> QED BY <1>2, <1>3

LEMMA LeastNumber ==
    ASSUME NEW S, S \subseteq Nat, S # {}
    PROVE  \E m \in S : \A n \in S : m <= n
<1> DEFINE T == {1 .. m : m \in S}
           R == StrictSubsetOrdering(Nat)
<1>1. T \subseteq FiniteSubsetsOf(Nat)
    <2>1. ASSUME NEW m \in S PROVE 1 .. m \in FiniteSubsetsOf(Nat)
        <3>1. m \in Int /\ IsFiniteSet(1 .. m)
            BY FS_Interval
        <3> QED BY <3>1 DEF FiniteSubsetsOf
    <2> QED BY <2>1
<1>2. T # {}
    OBVIOUS
<1>3. IsWellFoundedOn(R, FiniteSubsetsOf(Nat))
    BY FS_StrictSubsetOrderingWellFounded
<1>4. PICK x \in T : \A y \in T : ~ (<<y, x>> \in R)
    <2> HIDE DEF T, R
    <2> QED BY <1>1, <1>2, <1>3, WFMin
<1>5. PICK m \in S : x = 1 .. m
    BY <1>4
<1>6. ASSUME NEW n \in S PROVE m <= n
    <2> SUFFICES ASSUME n < m PROVE FALSE
        OBVIOUS
    <2>1. 1 .. n \subseteq 1 .. m /\ m \in 1 .. m /\ m \notin 1 .. n
        OBVIOUS
    <2>2. 1 .. n \subseteq Nat /\ 1 .. m \subseteq Nat
        OBVIOUS
    <2>3. <<1 .. n, 1 .. m>> \in R
        BY <2>1, <2>2 DEF StrictSubsetOrdering
    <2> QED BY <1>4, <1>5, <2>3
<1> QED BY <1>6

-----------------------------------------------------------------------------
(* Lemmas about the buffers. *)

LEMMA RowsOfFacts ==
    ASSUME NEW s \in Seq(TapeRow)
    PROVE  /\ RowsOf(s) \in Seq(Nat) /\ Len(RowsOf(s)) = Len(s) /\ DOMAIN RowsOf(s) = 1 .. Len(s)
           /\ \A i \in 1 .. Len(s) : RowsOf(s)[i] = s[i].row
<1>1. Len(s) \in Nat /\ DOMAIN s = 1 .. Len(s) /\ \A i \in 1 .. Len(s) : s[i] \in TapeRow
    BY LenProperties, ElementOfSeq
<1>2. RowsOf(s) = [i \in 1 .. Len(s) |-> s[i].row]
    BY <1>1 DEF RowsOf
<1>3. RowsOf(s) \in [1 .. Len(s) -> Nat]
    BY <1>1, <1>2 DEF TapeRow
<1> QED BY <1>1, <1>2, <1>3

LEMMA RowsOfEmpty == RowsOf(<<>>) = <<>>
<1>1. <<>> \in Seq(TapeRow) /\ Len(<<>>) = 0
    BY EmptySeq
<1>2. RowsOf(<<>>) \in Seq(Nat) /\ Len(RowsOf(<<>>)) = 0
    BY <1>1, RowsOfFacts
<1> QED BY <1>2, EmptySeq

(* A row appended to a buffer is appended to what is written of the partition. *)
LEMMA RowsOfAppend ==
    ASSUME NEW f \in Seq(Nat), NEW s \in Seq(TapeRow), NEW r \in TapeRow
    PROVE  f \o RowsOf(Append(s, r)) = Append(f \o RowsOf(s), r.row)
<1>1. /\ Append(s, r) \in Seq(TapeRow) /\ Len(Append(s, r)) = Len(s) + 1 /\ Len(s) \in Nat
      /\ \A i \in 1 .. Len(s) : Append(s, r)[i] = s[i]
      /\ Append(s, r)[Len(s) + 1] = r
    BY AppendFacts
<1>2. r.row \in Nat
    BY DEF TapeRow
<1> DEFINE a == RowsOf(s)
           b == RowsOf(Append(s, r))
<1>3. /\ a \in Seq(Nat) /\ Len(a) = Len(s) /\ \A i \in 1 .. Len(s) : a[i] = s[i].row
      /\ b \in Seq(Nat) /\ Len(b) = Len(s) + 1 /\ \A i \in 1 .. (Len(s) + 1) : b[i] = Append(s, r)[i].row
    BY <1>1, RowsOfFacts
<1>4. (\A i \in 1 .. Len(s) : b[i] = a[i]) /\ b[Len(s) + 1] = r.row
    <2> HIDE DEF a, b
    <2>1. Len(s) + 1 \in 1 .. (Len(s) + 1) /\ \A i \in 1 .. Len(s) : i \in 1 .. (Len(s) + 1)
        BY <1>1
    <2> QED BY <1>1, <1>3, <2>1
<1> HIDE DEF a, b
<1>5. Append(a, r.row) \in Seq(Nat) /\ Len(Append(a, r.row)) = Len(s) + 1
      /\ (\A i \in 1 .. Len(s) : Append(a, r.row)[i] = a[i]) /\ Append(a, r.row)[Len(s) + 1] = r.row
    BY <1>2, <1>3, AppendFacts
<1>6. b = Append(a, r.row)
    <2>1. \A i \in 1 .. Len(b) : b[i] = Append(a, r.row)[i]
        BY <1>1, <1>3, <1>4, <1>5
    <2> QED BY <1>3, <1>5, <2>1, SeqEqual
<1>7. f \o Append(a, r.row) = Append(f \o a, r.row)
    BY <1>2, <1>3
<1> QED BY <1>6, <1>7 DEF a, b

LEMMA EmptiedFacts ==
    ASSUME NEW b \in Buffers, NEW ps
    PROVE  /\ Emptied(b, ps) \in Buffers
           /\ \A p \in Partitions : Emptied(b, ps)[p] = IF p \in ps THEN <<>> ELSE b[p]
BY EmptySeq DEF Emptied, Buffers

LEMMA EmptiedTwice ==
    ASSUME NEW b \in Buffers, NEW ps, NEW qs
    PROVE  Emptied(b, ps \cup qs) = Emptied(Emptied(b, ps), qs)
BY DEF Emptied

LEMMA BufferedNumber ==
    ASSUME NEW b \in Buffers
    PROVE  Buffered(b) \in Nat
<1> DEFINE all == Partitions \X (1 .. FlushRows)
           held == {row \in all : row[2] \in DOMAIN b[row[1]]}
<1>1. IsFiniteSet(all)
    <2>1. IsFiniteSet(Partitions) /\ FlushRows \in Int
        BY TapeAssumption
    <2>2. IsFiniteSet(1 .. FlushRows)
        BY <2>1, FS_Interval
    <2> QED BY <2>1, <2>2, FS_Product
<1>2. held \subseteq all
    OBVIOUS
<1>3. Buffered(b) = Cardinality(held)
    BY DEF Buffered
<1> HIDE DEF all, held
<1> QED BY <1>1, <1>2, <1>3, FS_Subset, FS_CardinalityType

LEMMA NothingBuffered ==
    ASSUME NEW b \in Buffers
    PROVE  Buffered(Emptied(b, Partitions)) = 0
<1> DEFINE e == Emptied(b, Partitions)
<1>1. \A p \in Partitions : DOMAIN e[p] = {}
    <2>1. \A p \in Partitions : e[p] = <<>>
        BY DEF Emptied
    <2> QED BY <2>1
<1> HIDE DEF e
<1>2. {row \in Partitions \X (1 .. FlushRows) : row[2] \in DOMAIN e[row[1]]} = {}
    BY <1>1
<1>3. Buffered(e) = 0
    BY <1>2, FS_EmptySet DEF Buffered
<1> QED BY <1>3 DEF e

(* Relief leaves at most three quarters of the bound. *)
LEMMA ReliefFacts ==
    ASSUME NEW b \in Buffers
    PROVE  Relief(b) \subseteq Partitions /\ 4 * Buffered(Emptied(b, Relief(b))) <= 3 * MaxBuffered
<1> DEFINE enough(chosen) == 4 * Buffered(Emptied(b, chosen)) <= 3 * MaxBuffered
           largest(chosen) == \A p \in chosen, q \in Partitions \ chosen : Len(b[p]) >= Len(b[q])
           possible == {chosen \in SUBSET Partitions : enough(chosen) /\ largest(chosen)}
           sizes == {Cardinality(chosen) : chosen \in possible}
<1>1. Partitions \in possible
    BY NothingBuffered, TapeAssumption
<1>2. \A chosen \in possible : chosen \subseteq Partitions /\ enough(chosen)
    OBVIOUS
<1>3. Relief(b) = CHOOSE chosen \in possible : \A other \in possible : Cardinality(chosen) <= Cardinality(other)
    BY DEF Relief
<1> HIDE DEF possible
<1>4. \A chosen \in possible : Cardinality(chosen) \in Nat
    BY <1>2, TapeAssumption, FS_Subset, FS_CardinalityType
<1>5. PICK m \in sizes : \A n \in sizes : m <= n
    <2>1. sizes \subseteq Nat /\ sizes # {}
        BY <1>1, <1>4
    <2> HIDE DEF sizes
    <2> QED BY <2>1, LeastNumber
<1>6. PICK least \in possible : Cardinality(least) = m
    BY <1>5
<1>7. \A other \in possible : Cardinality(least) <= Cardinality(other)
    BY <1>5, <1>6
<1>8. Relief(b) \in possible
    BY <1>3, <1>6, <1>7
<1> QED BY <1>2, <1>8

(* What a flush leaves of the buffers goes to the files, whatever it fails at. *)
Filed(b, ps) == [p \in Partitions |-> IF p \in ps THEN files[p] \o RowsOf(b[p]) ELSE files[p]]

LEMMA FlushFacts ==
    ASSUME NEW b, NEW first, NEW chosen, NEW after, Flush(b, first, chosen, after)
    PROVE  \E ps : /\ buffers' = Emptied(b, ps) /\ files' = Filed(b, ps)
                   /\ writer' = "dead" \/ (writer' = after /\ ps = first \cup chosen)
BY DEF Flush, Write, Dropped, Filed

LEMMA FiledFacts ==
    ASSUME TapeShape, NEW b \in Buffers, NEW ps
    PROVE  /\ Filed(b, ps) \in Files
           /\ \A p \in Partitions : Filed(b, ps)[p] \o RowsOf(Emptied(b, ps)[p]) = files[p] \o RowsOf(b[p])
<1>1. \A p \in Partitions : files[p] \in Seq(Nat) /\ b[p] \in Seq(TapeRow)
    BY DEF TapeShape, Files, Buffers
<1>2. \A p \in Partitions : RowsOf(b[p]) \in Seq(Nat) /\ files[p] \o RowsOf(b[p]) \in Seq(Nat)
    BY <1>1, RowsOfFacts, ConcatProperties
<1>3. Filed(b, ps) \in Files
    BY <1>1, <1>2 DEF Filed, Files
<1>4. ASSUME NEW p \in Partitions
      PROVE  Filed(b, ps)[p] \o RowsOf(Emptied(b, ps)[p]) = files[p] \o RowsOf(b[p])
    <2>1. CASE p \in ps
        <3>1. Filed(b, ps)[p] = files[p] \o RowsOf(b[p]) /\ Emptied(b, ps)[p] = <<>>
            BY <2>1 DEF Filed, Emptied
        <3> QED BY <3>1, <1>2, RowsOfEmpty, ConcatEmptySeq
    <2>2. CASE p \notin ps
        BY <2>2 DEF Filed, Emptied
    <2> QED BY <2>1, <2>2
<1> QED BY <1>3, <1>4

-----------------------------------------------------------------------------
(* The collector. *)

(* Of an ascending list that keeps the last m, what goes lies m behind what comes. *)
LEMMA KeptFacts ==
    ASSUME NEW s \in Seq(Nat), NEW m \in Nat \ {0}, Len(s) <= m, Spaced(s), NEW t \in Nat, s # <<>> => s[Len(s)] < t
    PROVE  LET r == LastOnes(Append(s, t), m) IN
           /\ r \in Seq(Nat) /\ Len(r) <= m /\ ToSet(r) \subseteq ToSet(s) \cup {t} /\ Spaced(r)
           /\ r # <<>> /\ r[Len(r)] = t /\ t \in ToSet(r)
           /\ \A u \in ToSet(s) : u \in ToSet(r) \/ u + m <= t
<1> DEFINE n == Len(s)
           a == Append(s, t)
           r == LastOnes(a, m)
<1>1. /\ s \in Seq(Nat) /\ n \in Nat /\ t \in Nat /\ m \in Nat \ {0} /\ n <= m
      /\ DOMAIN s = 1 .. n
    BY LenProperties
<1>2. /\ a \in Seq(Nat) /\ Len(a) = n + 1 /\ DOMAIN a = 1 .. (n + 1)
      /\ (\A i \in 1 .. n : a[i] = s[i]) /\ a[n + 1] = t
      /\ ToSet(a) = ToSet(s) \cup {t}
    BY <1>1, AppendFacts
<1>3. /\ \A i \in 1 .. n : s[i] \in Nat
      /\ \A i, j \in 1 .. n : i <= j => s[i] + (j - i) <= s[j]
    BY <1>1, ElementOfSeq DEF Spaced
<1>4. \A i \in 1 .. n : s[i] + (n - i) < t
    <2> SUFFICES ASSUME NEW i \in 1 .. n PROVE s[i] + (n - i) < t
        OBVIOUS
    <2>1. n \in 1 .. n /\ i <= n
        BY <1>1
    <2>2. s # <<>>
        BY <1>1, <2>1, EmptySeq
    <2>4. s[i] + (n - i) <= s[n] /\ s[n] < t
        BY <1>3, <2>1, <2>2
    <2> QED BY <1>1, <1>3, <2>1, <2>4
<1>5. \A i \in 1 .. (n + 1) : a[i] \in Nat
    BY <1>1, <1>2, <1>3
<1>6. ASSUME NEW i \in 1 .. (n + 1), NEW j \in 1 .. (n + 1), i <= j
      PROVE  a[i] + (j - i) <= a[j]
    <2>1. CASE j \in 1 .. n
        <3>1. i \in 1 .. n
            BY <1>1, <1>6, <2>1
        <3> QED BY <1>2, <1>3, <1>6, <2>1, <3>1
    <2>2. CASE j = n + 1 /\ i \in 1 .. n
        <3>1. a[i] = s[i] /\ a[j] = t /\ s[i] + (n - i) < t /\ s[i] \in Nat
            BY <1>2, <1>3, <1>4, <2>2
        <3> QED BY <1>1, <2>2, <3>1
    <2>3. CASE j = n + 1 /\ i = n + 1
        BY <1>1, <1>5, <2>3
    <2> QED BY <1>1, <1>6, <2>1, <2>2, <2>3
<1> HIDE DEF n, a
<1> DEFINE d == Cut(a, m)
<1>l. r \in Seq(Nat) /\ EndsIn(a, r, d)
    <2>1. a \in Seq(Nat) /\ m \in Nat
        BY <1>1, <1>2
    <2> QED BY <2>1, LastOnesFacts
<1> HIDE DEF r
<1>k. r \in Seq(Nat) /\ EndsIn(a, r, d)
    BY <1>l DEF r
<1>8. d \in {0, 1} /\ (d = 1 => n = m) /\ n + 1 - d \in Nat /\ n + 1 - d >= 1 /\ n + 1 - d <= m
    BY <1>1, <1>2 DEF Cut
<1> HIDE DEF d
<1>7. /\ r \in Seq(Nat) /\ Len(r) = n + 1 - d /\ DOMAIN r = 1 .. (n + 1 - d)
      /\ \A i \in 1 .. (n + 1 - d) : r[i] = a[i + d]
    <2>1. Len(a) - d = n + 1 - d
        BY <1>1, <1>2, <1>8
    <2>2. Len(r) = Len(a) - d /\ DOMAIN r = 1 .. (Len(a) - d) /\ \A i \in 1 .. (Len(a) - d) : r[i] = a[i + d]
        BY <1>k, EndsParts
    <2> QED BY <2>1, <2>2, <1>k
<1>9. r # <<>> /\ Len(r) \in DOMAIN r /\ r[Len(r)] = t
    <2>1. Len(r) \in 1 .. (n + 1 - d) /\ Len(r) + d = n + 1
        BY <1>1, <1>7, <1>8
    <2>2. r[Len(r)] = a[n + 1]
        BY <1>7, <2>1
    <2>3. r # <<>>
        BY <1>7, <2>1, EmptySeq
    <2> QED BY <1>2, <1>7, <2>1, <2>2, <2>3
<1>10. ToSet(r) \subseteq ToSet(s) \cup {t}
    <2>1. ASSUME NEW i \in 1 .. (n + 1 - d) PROVE r[i] \in ToSet(a)
        <3>1. i + d \in 1 .. (n + 1) /\ r[i] = a[i + d]
            BY <1>1, <1>2, <1>7, <1>8
        <3> QED BY <1>2, <3>1 DEF ToSet
    <2>2. ToSet(r) \subseteq ToSet(a)
        BY <1>2, <1>7, <2>1 DEF ToSet
    <2> QED BY <1>2, <2>2
<1>11. Spaced(r)
    <2> SUFFICES ASSUME NEW i \in 1 .. (n + 1 - d), NEW j \in 1 .. (n + 1 - d), i <= j
                 PROVE  r[i] + (j - i) <= r[j]
        BY <1>2, <1>7 DEF Spaced
    <2>1. i + d \in 1 .. (n + 1) /\ j + d \in 1 .. (n + 1) /\ i + d <= j + d /\ (j + d) - (i + d) = j - i
        BY <1>1, <1>8
    <2>2. r[i] = a[i + d] /\ r[j] = a[j + d]
        BY <1>2, <1>7
    <2>3. a[i + d] + ((j + d) - (i + d)) <= a[j + d]
        BY <1>6, <2>1
    <2> QED BY <2>1, <2>2, <2>3
<1>12. ASSUME NEW u \in ToSet(s)
       PROVE  u \in ToSet(r) \/ u + m <= t
    <2>1. PICK k \in 1 .. n : u = s[k]
        BY <1>1 DEF ToSet
    <2>2. k \in 1 .. (n + 1) /\ u = a[k]
        BY <1>1, <1>2, <2>1
    <2>3. CASE k > d
        <3>1. k - d \in 1 .. (n + 1 - d) /\ (k - d) + d = k
            BY <1>1, <1>8, <2>2, <2>3
        <3>2. r[k - d] = u
            BY <1>2, <1>7, <2>2, <3>1
        <3> QED BY <1>2, <1>7, <3>1, <3>2 DEF ToSet
    <2>4. CASE ~ k > d
        <3>1. d = 1 /\ k = 1 /\ n = m
            BY <1>8, <2>2, <2>4
        <3>2. n + 1 \in 1 .. (n + 1) /\ k <= n + 1 /\ (n + 1) - k = m
            BY <1>1, <3>1
        <3>3. a[k] + ((n + 1) - k) <= a[n + 1]
            BY <1>6, <2>2, <3>2
        <3> QED BY <1>2, <2>2, <3>2, <3>3
    <2> QED BY <1>8, <2>3, <2>4
<1>14. t \in ToSet(r)
    BY <1>9 DEF ToSet
<1> QED BY <1>7, <1>8, <1>9, <1>10, <1>11, <1>12, <1>14 DEF r, a

(* What the deduper forgets for a new trade is MaxKeys behind it. *)
LEMMA RememberedFacts ==
    ASSUME TapeShape, KeysFit, NEW t \in MarketTrades, LatestKey < t
    PROVE  /\ Remembered(t) \in Seq(Nat) /\ Len(Remembered(t)) <= MaxKeys
           /\ ToSet(Remembered(t)) \subseteq MarketTrades /\ Spaced(Remembered(t))
           /\ Remembered(t) # <<>> /\ Remembered(t)[Len(Remembered(t))] = t
           /\ t \in ToSet(Remembered(t))
           /\ \A u \in ToSet(keys) : u \in ToSet(Remembered(t)) \/ u + MaxKeys <= t
<1>1. /\ keys \in Seq(Nat) /\ MaxKeys \in Nat \ {0} /\ Len(keys) <= MaxKeys /\ Spaced(keys)
      /\ t \in Nat /\ (keys # <<>> => keys[Len(keys)] < t) /\ ToSet(keys) \subseteq MarketTrades
    BY TapeAssumption, LenProperties DEF TapeShape, KeysFit, MarketTrades, Market, LatestKey
<1> QED BY <1>1, KeptFacts DEF Remembered

(* The ranges of the parts of the state. *)
LEMMA Ranges ==
    ASSUME TapeShape, KeysFit
    PROVE  /\ Market \in Nat /\ Resent \in Nat /\ MaxKeys \in Nat /\ Resent <= MaxKeys
           /\ Len(wire) \in Nat /\ LatestKey \in 0 .. Market /\ MarketTrades \subseteq Nat
           /\ DOMAIN traded = 1 .. Market /\ DOMAIN wire = 1 .. Len(wire) /\ DOMAIN queue = 1 .. Len(queue)
           /\ Len(queue) \in Nat /\ DOMAIN accepted = 1 .. Len(accepted) /\ Len(accepted) \in Nat
<1>1. /\ Market \in Nat /\ Resent \in Nat /\ MaxKeys \in Nat /\ Resent <= MaxKeys
      /\ Len(wire) \in Nat /\ MarketTrades \subseteq Nat
      /\ DOMAIN traded = 1 .. Market /\ DOMAIN wire = 1 .. Len(wire) /\ DOMAIN queue = 1 .. Len(queue)
      /\ Len(queue) \in Nat /\ DOMAIN accepted = 1 .. Len(accepted) /\ Len(accepted) \in Nat
    BY TapeAssumption, LenProperties DEF TapeShape, Market, MarketTrades
<1>2. LatestKey \in 0 .. Market
    <2>1. CASE keys = <<>>
        BY <1>1, <2>1 DEF LatestKey
    <2>2. CASE keys # <<>>
        <3>1. Len(keys) \in 1 .. Len(keys) /\ DOMAIN keys = 1 .. Len(keys)
            BY <2>2, EmptySeq, LenProperties DEF TapeShape
        <3>2. keys[Len(keys)] \in ToSet(keys)
            BY <3>1 DEF ToSet
        <3> QED BY <1>1, <2>2, <3>2 DEF LatestKey, KeysFit, MarketTrades
    <2> QED BY <2>1, <2>2
<1> QED BY <1>1, <1>2

LEMMA TradeKeeps == ASSUME TapeInv, NEW p \in Partitions, Trade(p) PROVE TapeInv'
<1>a. TapeShape /\ WireFits /\ KeysFit /\ Remembers /\ Accepts /\ QueueFits /\ Flushed /\ BuffersFit
    BY DEF TapeInv
<1>b. /\ Market \in Nat /\ Resent \in Nat /\ Len(wire) \in Nat /\ LatestKey \in 0 .. Market
      /\ DOMAIN wire = 1 .. Len(wire)
    BY <1>a, Ranges
<1>c. /\ traded' = Append(traded, p) /\ traded \in Seq(Partitions)
      /\ wire' = IF reader.at \in {"reading", "putting"} THEN Append(wire, Market + 1) ELSE wire
      /\ UNCHANGED <<reader, keys, queue, buffers, files, writer, deadline, now, accepted>>
    BY <1>a DEF Trade, TapeShape, Market
<1>1. /\ traded' \in Seq(Partitions) /\ Market' = Market + 1
      /\ \A t \in MarketTrades : traded'[t] = traded[t]
    BY <1>c, AppendFacts DEF Market, MarketTrades
<1>2. MarketTrades' = MarketTrades \cup {Market + 1} /\ LatestKey' = LatestKey
    BY <1>b, <1>c, <1>1 DEF MarketTrades, LatestKey
<1>3. /\ wire' \in Seq(Nat)
      /\ reader.at \in {"reading", "putting"} =>
             /\ Len(wire') = Len(wire) + 1 /\ DOMAIN wire' = 1 .. (Len(wire) + 1)
             /\ \A i \in 1 .. Len(wire) : wire'[i] = wire[i]
             /\ wire'[Len(wire) + 1] = Market + 1
    <2>1. wire \in Seq(Nat) /\ Market + 1 \in Nat
        BY <1>a, <1>b DEF TapeShape
    <2> QED BY <1>c, <2>1, AppendFacts
<1>4. TapeShape'
    BY <1>a, <1>c, <1>1, <1>3 DEF TapeShape
<1>5. WireFits'
    <2> SUFFICES ASSUME reader.at \in {"reading", "putting"}
                 PROVE  /\ Len(wire') <= Market'
                        /\ \A i \in DOMAIN wire' : wire'[i] = Market' - Len(wire') + i
        BY <1>c DEF WireFits
    <2>1. Len(wire) <= Market /\ \A i \in 1 .. Len(wire) : wire[i] = Market - Len(wire) + i
        BY <1>a, <1>b DEF WireFits
    <2>2. Len(wire') = Len(wire) + 1 /\ Len(wire') <= Market'
        BY <1>b, <1>1, <1>3, <2>1
    <2>3. ASSUME NEW i \in 1 .. (Len(wire) + 1) PROVE wire'[i] = Market' - Len(wire') + i
        <3>1. CASE i \in 1 .. Len(wire)
            <4>1. wire'[i] = Market - Len(wire) + i
                BY <1>3, <2>1, <3>1
            <4> QED BY <1>b, <1>1, <2>2, <4>1
        <3>2. CASE i = Len(wire) + 1
            <4>1. wire'[i] = Market + 1
                BY <1>3, <3>2
            <4> QED BY <1>b, <1>1, <2>2, <3>2, <4>1
        <3> QED BY <1>b, <3>1, <3>2
    <2> QED BY <1>3, <2>2, <2>3
<1>6. KeysFit'
    BY <1>a, <1>c, <1>2 DEF KeysFit
<1>7. Remembers'
    <2>1. ASSUME reader.at \in {"reading", "putting"}, NEW u \in MarketTrades'
          PROVE  /\ NextUp' <= u /\ u <= LatestKey => u \in ToSet(keys)
                 /\ Market' - Resent < u /\ u < NextUp' => u \in ToSet(keys)
        <3>1. NextUp' = NextUp /\ NextUp \in 1 .. (Market + 1)
            <4>1. Len(wire) <= Market /\ Len(wire') = Len(wire) + 1
                BY <1>a, <1>3, <2>1 DEF WireFits
            <4> QED BY <1>b, <1>1, <4>1 DEF NextUp
        <3>2. CASE u \in MarketTrades
            <4>1. /\ NextUp <= u /\ u <= LatestKey => u \in ToSet(keys)
                  /\ Market - Resent < u /\ u < NextUp => u \in ToSet(keys)
                BY <1>a, <2>1, <3>2 DEF Remembers
            <4>2. u \in Nat
                BY <3>2 DEF MarketTrades
            <4> QED BY <1>b, <1>1, <3>1, <4>1, <4>2
        <3>3. CASE u = Market + 1
            BY <1>b, <1>1, <3>1, <3>3
        <3> QED BY <1>2, <2>1, <3>2, <3>3
    <2>2. ASSUME reader.at = "lost", NEW u \in MarketTrades', Market' - Resent < u, u <= LatestKey
          PROVE  u \in ToSet(keys)
        <3>1. u \in MarketTrades
            BY <1>b, <1>2, <2>2
        <3>2. u \in Nat /\ Market - Resent < u
            BY <1>b, <1>1, <2>2, <3>1 DEF MarketTrades
        <3> QED BY <1>a, <2>2, <3>1, <3>2 DEF Remembers
    <2> QED BY <1>c, <1>2, <2>1, <2>2 DEF Remembers
<1>8. Accepts'
    BY <1>a, <1>c, <1>2 DEF Accepts
<1>9. QueueFits'
    BY <1>a, <1>c DEF QueueFits, Left
<1>10. Flushed'
    <2>1. \A q \in Partitions : {t \in Left : traded'[t] = q} = {t \in Left : traded[t] = q}
        BY <1>a, <1>1 DEF Accepts, Left
    <2> QED BY <1>a, <1>c, <2>1 DEF Flushed, Left, Written
<1>11. BuffersFit'
    BY <1>a, <1>c DEF BuffersFit
<1> QED BY <1>4, <1>5, <1>6, <1>7, <1>8, <1>9, <1>10, <1>11 DEF TapeInv

(* Steps of the collector leave the writer's part alone. *)
LEMMA WriterPartStays ==
    ASSUME TapeInv, UNCHANGED <<traded, queue, buffers, files, writer, deadline, now, accepted>>,
           reader.at \in {"joining", "closed"} => reader'.at \in {"joining", "closed"}
    PROVE  QueueFits' /\ Flushed' /\ BuffersFit'
<1>1. QueueFits' 
    BY DEF TapeInv, QueueFits, Left
<1>2. Flushed'
    BY DEF TapeInv, Flushed, Left, Written
<1>3. BuffersFit'
    BY DEF TapeInv, BuffersFit
<1> QED BY <1>1, <1>2, <1>3

LEMMA ReceiveKeeps == ASSUME TapeInv, Receive PROVE TapeInv'
<1>a. TapeShape /\ WireFits /\ KeysFit /\ Remembers /\ Accepts
    BY DEF TapeInv
<1>b. /\ Market \in Nat /\ Resent \in Nat /\ MaxKeys \in Nat /\ Resent <= MaxKeys
      /\ LatestKey \in 0 .. Market /\ MarketTrades \subseteq Nat
    BY <1>a, Ranges
<1> DEFINE t == Head(wire)
<1>c. /\ reader.at = "reading" /\ wire # <<>> /\ wire' = Tail(wire)
      /\ UNCHANGED <<traded, queue, buffers, files, writer, deadline, now, accepted>>
      /\ \/ t \in ToSet(keys) /\ UNCHANGED <<keys, reader>>
         \/ /\ t \notin ToSet(keys) /\ keys' = Remembered(t)
            /\ reader' = IF writer = "running" THEN [at |-> "putting", row |-> t] ELSE [at |-> "closing", row |-> Stop]
    BY DEF Receive, Seen
<1>1. /\ wire' \in Seq(Nat) /\ Len(wire) \in Nat \ {0} /\ Len(wire') = Len(wire) - 1 /\ t \in Nat
      /\ DOMAIN wire = 1 .. Len(wire) /\ DOMAIN wire' = 1 .. (Len(wire) - 1)
      /\ \A i \in 1 .. (Len(wire) - 1) : wire'[i] = wire[i + 1]
      /\ t = wire[1]
    BY <1>a, <1>c, TailFacts DEF TapeShape
<1>2. Len(wire) <= Market /\ \A i \in 1 .. Len(wire) : wire[i] = Market - Len(wire) + i
    BY <1>a, <1>c, <1>1 DEF WireFits
<1>3. t = NextUp /\ t \in MarketTrades /\ NextUp \in Nat
    <2>1. 1 \in 1 .. Len(wire)
        BY <1>1
    <2>2. t = Market - Len(wire) + 1
        BY <1>1, <1>2, <2>1
    <2> QED BY <1>b, <1>1, <1>2, <2>2 DEF NextUp, MarketTrades
<1>4. Market' = Market /\ MarketTrades' = MarketTrades /\ NextUp' = t + 1
    <2>1. Market' = Market
        BY <1>c DEF Market
    <2> QED BY <1>b, <1>1, <1>3, <2>1 DEF NextUp, MarketTrades
<1>5. WireFits'
    <2>1. Len(wire') <= Market
        BY <1>b, <1>1, <1>2
    <2>2. ASSUME NEW i \in 1 .. (Len(wire) - 1) PROVE wire'[i] = Market - Len(wire') + i
        <3>1. i + 1 \in 1 .. Len(wire)
            BY <1>1
        <3>2. wire'[i] = Market - Len(wire) + (i + 1)
            BY <1>1, <1>2, <3>1
        <3> QED BY <1>b, <1>1, <3>2
    <2> QED BY <1>1, <1>4, <2>1, <2>2 DEF WireFits
<1>6. QueueFits' /\ Flushed' /\ BuffersFit'
    BY <1>c, WriterPartStays
<1>7. CASE t \in ToSet(keys) /\ UNCHANGED <<keys, reader>>
    <2>1. TapeShape'
        BY <1>a, <1>c, <1>1, <1>7 DEF TapeShape
    <2>2. KeysFit' /\ LatestKey' = LatestKey
        BY <1>a, <1>4, <1>7 DEF KeysFit, LatestKey
    <2>3. Remembers'
        <3> SUFFICES ASSUME NEW u \in MarketTrades
                     PROVE  /\ t + 1 <= u /\ u <= LatestKey => u \in ToSet(keys)
                            /\ Market - Resent < u /\ u < t + 1 => u \in ToSet(keys)
            BY <1>c, <1>4, <1>7, <2>2 DEF Remembers
        <3>1. /\ t <= u /\ u <= LatestKey => u \in ToSet(keys)
              /\ Market - Resent < u /\ u < t => u \in ToSet(keys)
            BY <1>a, <1>c, <1>3 DEF Remembers
        <3>2. u \in Nat
            BY <1>b
        <3> QED BY <1>1, <1>7, <3>1, <3>2
    <2>4. Accepts'
        BY <1>a, <1>c, <1>4, <1>7, <2>2 DEF Accepts
    <2> QED BY <1>5, <1>6, <2>1, <2>2, <2>3, <2>4 DEF TapeInv
<1>8. CASE /\ t \notin ToSet(keys) /\ keys' = Remembered(t)
           /\ reader' = IF writer = "running" THEN [at |-> "putting", row |-> t] ELSE [at |-> "closing", row |-> Stop]
    <2>1. LatestKey < t
        BY <1>a, <1>b, <1>c, <1>3, <1>8 DEF Remembers
    <2> HIDE DEF t
    <2>2. /\ keys' \in Seq(Nat) /\ Len(keys') <= MaxKeys /\ ToSet(keys') \subseteq MarketTrades /\ Spaced(keys')
          /\ keys' # <<>> /\ keys'[Len(keys')] = t /\ t \in ToSet(keys')
          /\ \A u \in ToSet(keys) : u \in ToSet(keys') \/ u + MaxKeys <= t
        BY <1>a, <1>3, <1>8, <2>1, RememberedFacts
    <2>3. reader' \in [at : Places, row : Nat] /\ reader'.at \in {"putting", "closing"}
          /\ (reader'.at = "putting" => reader'.row = t)
        BY <1>1, <1>8 DEF Places, Stop
    <2>4. TapeShape'
        BY <1>a, <1>c, <1>1, <2>2, <2>3 DEF TapeShape
    <2>5. KeysFit' /\ LatestKey' = t
        BY <1>4, <2>2 DEF KeysFit, LatestKey
    <2>6. Remembers'
        <3> SUFFICES ASSUME NEW u \in MarketTrades
                     PROVE  /\ t + 1 <= u /\ u <= t => u \in ToSet(keys')
                            /\ Market - Resent < u /\ u < t + 1 => u \in ToSet(keys')
            BY <1>4, <2>3, <2>5 DEF Remembers
        <3>1. u \in Nat
            BY <1>b
        <3>2. ~ (t + 1 <= u /\ u <= t)
            BY <1>1, <3>1
        <3>3. ASSUME Market - Resent < u, u < t PROVE u \in ToSet(keys')
            <4>1. u \in ToSet(keys)
                BY <1>a, <1>c, <1>3, <3>3 DEF Remembers
            <4>2. ~ (u + MaxKeys <= t)
                <5>1. t <= Market
                    BY <1>3, <1>b DEF MarketTrades
                <5> QED BY <1>b, <1>1, <3>1, <3>3, <5>1
            <4> QED BY <2>2, <4>1, <4>2
        <3>4. u < t + 1 => u < t \/ u = t
            BY <1>1, <3>1
        <3> QED BY <2>2, <3>2, <3>3, <3>4
    <2>7. Accepts'
        <3>1. \A s \in ToSet(accepted) : s < t
            <4>1. \A s \in ToSet(accepted) : s \in Nat /\ s <= LatestKey
                BY <1>a, <1>b, <1>c DEF Accepts
            <4> QED BY <1>b, <1>1, <2>1, <4>1
        <3> QED BY <1>a, <1>c, <1>3, <1>4, <2>3, <2>5, <3>1 DEF Accepts
    <2> QED BY <1>5, <1>6, <2>4, <2>5, <2>6, <2>7 DEF TapeInv
<1> QED BY <1>c, <1>7, <1>8

LEMMA PutRowKeeps == ASSUME TapeInv, PutRow PROVE TapeInv'
<1>a. TapeShape /\ WireFits /\ KeysFit /\ Remembers /\ Accepts /\ QueueFits /\ Flushed /\ BuffersFit
    BY DEF TapeInv
<1> DEFINE row == reader.row
<1>c. /\ reader.at = "putting" /\ Len(queue) < QueueSize
      /\ queue' = Append(queue, row) /\ accepted' = Append(accepted, row)
      /\ reader' = [at |-> "reading", row |-> Stop]
      /\ UNCHANGED <<traded, wire, keys, buffers, files, writer, deadline, now>>
    BY DEF PutRow
<1>1. row \in MarketTrades /\ row \in Nat /\ row # Stop /\ row = LatestKey /\ \A t \in ToSet(accepted) : t < row
    BY <1>a, <1>c DEF Accepts, MarketTrades, Stop
<1>2. /\ queue' \in Seq(Nat) /\ Len(queue') = Len(queue) + 1 /\ Len(queue) \in Nat
      /\ DOMAIN queue = 1 .. Len(queue) /\ DOMAIN queue' = 1 .. (Len(queue) + 1)
      /\ (\A i \in 1 .. Len(queue) : queue'[i] = queue[i]) /\ queue'[Len(queue) + 1] = row
      /\ ToSet(queue') = ToSet(queue) \cup {row}
    BY <1>a, <1>c, <1>1, AppendFacts DEF TapeShape
<1>3. accepted' \in Seq(Nat) /\ ToSet(accepted') = ToSet(accepted) \cup {row}
    <2>1. accepted \in Seq(Nat) /\ row \in Nat /\ accepted' = Append(accepted, row)
        BY <1>a, <1>c, <1>1 DEF TapeShape
    <2> HIDE DEF row
    <2> QED BY <2>1, AppendFacts
<1>4. reader'.at = "reading" /\ reader' \in [at : Places, row : Nat]
    BY <1>c DEF Places, Stop
<1>5. Market' = Market /\ MarketTrades' = MarketTrades /\ LatestKey' = LatestKey /\ NextUp' = NextUp
    BY <1>c DEF Market, MarketTrades, LatestKey, NextUp
<1>6. TapeShape'
    BY <1>a, <1>c, <1>2, <1>3, <1>4 DEF TapeShape
<1>7. WireFits' /\ KeysFit' /\ Remembers'
    BY <1>a, <1>c, <1>4, <1>5 DEF WireFits, KeysFit, Remembers
<1> HIDE DEF row
<1>8. Accepts'
    <2>1. Ascending(accepted')
        BY <1>a, <1>c, <1>1, AscendingAppend DEF Accepts, TapeShape
    <2>2. \A t \in ToSet(accepted') : t <= LatestKey
        BY <1>a, <1>1, <1>3 DEF Accepts, MarketTrades
    <2> QED BY <1>a, <1>1, <1>3, <1>4, <1>5, <2>1, <2>2 DEF Accepts
<1>9. Left' = Left
    BY <1>1, <1>2, <1>3 DEF Left
<1>10. QueueFits'
    <2>1. \A i \in 1 .. Len(queue) : queue[i] # Stop
        BY <1>a, <1>c, <1>2 DEF QueueFits
    <2>2. Len(queue') <= QueueSize
        BY <1>c, <1>2, TapeAssumption
    <2>3. \A i \in DOMAIN queue' : queue'[i] # Stop
        BY <1>1, <1>2, <2>1
    <2>4. \A u \in ToSet(queue) : u \in ToSet(accepted) /\ u < row
        BY <1>a, <1>1, <1>2, <2>1 DEF QueueFits, ToSet
    <2>5. ASSUME NEW i \in DOMAIN queue', NEW j \in DOMAIN queue', i < j
          PROVE  queue'[i] < queue'[j]
        <3>1. i \in 1 .. Len(queue) /\ (j \in 1 .. Len(queue) \/ j = Len(queue) + 1)
            BY <1>2, <2>5
        <3>2. CASE j \in 1 .. Len(queue)
            BY <1>a, <1>2, <2>1, <2>5, <3>1, <3>2 DEF QueueFits
        <3>3. CASE j = Len(queue) + 1
            BY <1>2, <2>4, <3>1, <3>3 DEF ToSet
        <3> QED BY <3>1, <3>2, <3>3
    <2>6. \A t \in Left, u \in ToSet(queue') : u = Stop \/ t < u
        BY <1>a, <1>1, <1>2 DEF QueueFits, Left
    <2>7. writer # "done"
        BY <1>a, <1>c DEF QueueFits
    <2> QED BY <1>c, <1>2, <1>3, <1>9, <2>2, <2>3, <2>4, <2>5, <2>6, <2>7 DEF QueueFits
<1>11. Flushed'
    BY <1>a, <1>c, <1>9 DEF Flushed, Written
<1>12. BuffersFit'
    BY <1>a, <1>c DEF BuffersFit
<1> QED BY <1>6, <1>7, <1>8, <1>10, <1>11, <1>12 DEF TapeInv

LEMMA ConnectionLostKeeps == ASSUME TapeInv, ConnectionLost PROVE TapeInv'
<1>a. TapeShape /\ WireFits /\ KeysFit /\ Remembers /\ Accepts
    BY DEF TapeInv
<1>b. Market \in Nat /\ Len(wire) \in Nat /\ MarketTrades \subseteq Nat
    BY <1>a, Ranges
<1>c. /\ reader.at = "reading" /\ reader'.at \in {"lost", "closing"} /\ wire' = <<>>
      /\ reader' \in [at : Places, row : Nat]
      /\ UNCHANGED <<traded, keys, queue, buffers, files, writer, deadline, now, accepted>>
    BY DEF ConnectionLost, Places, Stop
<1>1. Market' = Market /\ MarketTrades' = MarketTrades /\ LatestKey' = LatestKey
    BY <1>c DEF Market, MarketTrades, LatestKey
<1>2. TapeShape'
    BY <1>a, <1>c, EmptySeq DEF TapeShape
<1>3. WireFits' /\ KeysFit'
    BY <1>a, <1>c, <1>1 DEF WireFits, KeysFit
<1>4. Remembers'
    <2> SUFFICES ASSUME NEW u \in MarketTrades, Market - Resent < u, u <= LatestKey PROVE u \in ToSet(keys)
        BY <1>c, <1>1 DEF Remembers
    <2>1. NextUp <= u \/ u < NextUp
        BY <1>b DEF NextUp
    <2> QED BY <1>a, <1>c, <2>1 DEF Remembers
<1>5. Accepts'
    BY <1>a, <1>c, <1>1 DEF Accepts
<1>6. QueueFits' /\ Flushed' /\ BuffersFit'
    BY <1>c, WriterPartStays
<1> QED BY <1>2, <1>3, <1>4, <1>5, <1>6 DEF TapeInv

(* What a subscription brings again starts where the deduper still knows. *)
LEMMA ReconnectKeeps == ASSUME TapeInv, Reconnect PROVE TapeInv'
<1>a. TapeShape /\ WireFits /\ KeysFit /\ Remembers /\ Accepts
    BY DEF TapeInv
<1>b. Market \in Nat /\ Resent \in Nat /\ MarketTrades \subseteq Nat /\ DOMAIN traded = 1 .. Market
    BY <1>a, Ranges
<1> DEFINE all == [i \in DOMAIN traded |-> i]
<1>c. /\ reader.at = "lost" /\ reader' = [at |-> "reading", row |-> Stop]
      /\ wire' = LastOnes(all, Resent)
      /\ UNCHANGED <<traded, keys, queue, buffers, files, writer, deadline, now, accepted>>
    BY DEF Reconnect
<1>d. reader'.at = "reading" /\ reader' \in [at : Places, row : Nat]
    BY <1>c DEF Places, Stop
<1>1. Market' = Market /\ MarketTrades' = MarketTrades /\ LatestKey' = LatestKey
    BY <1>c DEF Market, MarketTrades, LatestKey
<1>2. all \in Seq(Nat) /\ Len(all) = Market /\ \A i \in 1 .. Market : all[i] = i
    <2>1. all \in [1 .. Market -> Nat]
        BY <1>b
    <2> QED BY <1>b, <2>1
<1> HIDE DEF all
<1> DEFINE d == Cut(all, Resent)
<1>l. wire' \in Seq(Nat) /\ EndsIn(all, wire', d)
    BY <1>b, <1>c, <1>2, LastOnesFacts
<1>e. d = IF Market > Resent THEN Market - Resent ELSE 0
    BY <1>2 DEF Cut
<1> HIDE DEF d
<1>3. /\ d \in 0 .. Market
      /\ wire' \in Seq(Nat) /\ Len(wire') = Market - d /\ DOMAIN wire' = 1 .. (Market - d)
      /\ \A i \in 1 .. (Market - d) : wire'[i] = all[i + d]
    BY <1>2, <1>l DEF EndsIn
<1>4. TapeShape'
    BY <1>a, <1>c, <1>d, <1>3 DEF TapeShape
<1>5. WireFits'
    <2>1. ASSUME NEW i \in 1 .. (Market - d) PROVE wire'[i] = Market - Len(wire') + i
        <3>1. i + d \in 1 .. Market
            BY <1>b, <1>3
        <3> QED BY <1>b, <1>2, <1>3, <3>1
    <2> QED BY <1>b, <1>1, <1>3, <2>1 DEF WireFits
<1>6. KeysFit'
    BY <1>a, <1>c, <1>1 DEF KeysFit
<1>7. Remembers'
    <2>1. NextUp' = d + 1
        BY <1>b, <1>1, <1>3 DEF NextUp
    <2> SUFFICES ASSUME NEW u \in MarketTrades
                 PROVE  /\ d + 1 <= u /\ u <= LatestKey => u \in ToSet(keys)
                        /\ Market - Resent < u /\ u < d + 1 => u \in ToSet(keys)
        BY <1>c, <1>d, <1>1, <2>1 DEF Remembers
    <2>2. u \in Nat /\ u >= 1
        BY <1>b DEF MarketTrades
    <2>3. d + 1 <= u => Market - Resent < u
        BY <1>b, <1>e, <2>2
    <2>4. ~ (Market - Resent < u /\ u < d + 1)
        BY <1>b, <1>e, <2>2
    <2> QED BY <1>a, <1>c, <2>3, <2>4 DEF Remembers
<1>8. Accepts'
    BY <1>a, <1>c, <1>d, <1>1 DEF Accepts
<1>9. QueueFits' /\ Flushed' /\ BuffersFit'
    BY <1>c, <1>d, WriterPartStays
<1> QED BY <1>4, <1>5, <1>6, <1>7, <1>8, <1>9 DEF TapeInv

(* Once the collector closes, what it read no longer matters. *)
LEMMA ReaderPartEnds ==
    ASSUME TapeInv, UNCHANGED <<traded, keys, accepted>>, reader'.at \in {"closing", "joining", "closed"}
    PROVE  WireFits' /\ KeysFit' /\ Remembers' /\ Accepts'
<1>1. MarketTrades' = MarketTrades
    BY DEF MarketTrades, Market
<1> QED BY <1>1 DEF TapeInv, WireFits, KeysFit, Remembers, Accepts

LEMMA CancelKeeps == ASSUME TapeInv, Cancel PROVE TapeInv'
<1>c. /\ reader.at \in {"reading", "putting", "lost"} /\ reader'.at = "closing"
      /\ reader' \in [at : Places, row : Nat] /\ wire' = <<>>
      /\ UNCHANGED <<traded, keys, queue, buffers, files, writer, deadline, now, accepted>>
    BY DEF Cancel, Places, Stop
<1>1. TapeShape'
    BY <1>c, EmptySeq DEF TapeInv, TapeShape
<1>2. WireFits' /\ KeysFit' /\ Remembers' /\ Accepts'
    BY <1>c, ReaderPartEnds
<1>3. QueueFits' /\ Flushed' /\ BuffersFit'
    BY <1>c, WriterPartStays
<1> QED BY <1>1, <1>2, <1>3 DEF TapeInv

LEMMA CloseQueuesKeeps == ASSUME TapeInv, CloseQueues PROVE TapeInv'
<1>a. TapeShape /\ Accepts /\ QueueFits /\ Flushed /\ BuffersFit
    BY DEF TapeInv
<1>c. /\ reader.at = "closing" /\ Len(queue) < QueueSize /\ queue' = Append(queue, Stop)
      /\ reader'.at = "joining" /\ reader' \in [at : Places, row : Nat]
      /\ UNCHANGED <<traded, wire, keys, buffers, files, writer, deadline, now, accepted>>
    BY <1>a DEF CloseQueues, TapeShape, Places
<1>1. /\ queue' \in Seq(Nat) /\ Len(queue') = Len(queue) + 1 /\ Len(queue) \in Nat
      /\ DOMAIN queue = 1 .. Len(queue) /\ DOMAIN queue' = 1 .. (Len(queue) + 1)
      /\ (\A i \in 1 .. Len(queue) : queue'[i] = queue[i]) /\ queue'[Len(queue) + 1] = Stop
      /\ ToSet(queue') = ToSet(queue) \cup {Stop}
    <2>1. Stop \in Nat /\ queue \in Seq(Nat)
        BY <1>a DEF Stop, TapeShape
    <2> QED BY <1>c, <2>1, AppendFacts
<1>2. TapeShape'
    BY <1>a, <1>c, <1>1 DEF TapeShape
<1>3. WireFits' /\ KeysFit' /\ Remembers' /\ Accepts'
    BY <1>c, ReaderPartEnds
<1>4. Left' = Left
    BY <1>a, <1>c, <1>1 DEF Left, Accepts, MarketTrades, Stop
<1>5. QueueFits'
    <2>1. \A i \in 1 .. Len(queue) : queue[i] # Stop
        BY <1>a, <1>c, <1>1 DEF QueueFits
    <2>2. Len(queue') <= QueueSize
        BY <1>c, <1>1, TapeAssumption
    <2>3. \A i \in DOMAIN queue' : queue'[i] = Stop => i = Len(queue')
        BY <1>1, <2>1
    <2>4. ASSUME NEW i \in DOMAIN queue', NEW j \in DOMAIN queue', i < j
          PROVE  queue'[j] = Stop \/ queue'[i] < queue'[j]
        <3>1. i \in 1 .. Len(queue) /\ (j \in 1 .. Len(queue) \/ j = Len(queue) + 1)
            BY <1>1, <2>4
        <3>2. CASE j \in 1 .. Len(queue)
            BY <1>a, <1>1, <2>4, <3>1, <3>2 DEF QueueFits
        <3> QED BY <1>1, <3>1, <3>2
    <2>5. writer # "done"
        BY <1>a, <1>c DEF QueueFits
    <2>6. \A u \in ToSet(queue') : u = Stop \/ u \in ToSet(queue)
        BY <1>1
    <2>7. /\ \A u \in ToSet(queue') : u = Stop \/ u \in ToSet(accepted)
          /\ \A t \in Left, u \in ToSet(queue') : u = Stop \/ t < u
        BY <1>a, <2>6 DEF QueueFits
    <2> QED BY <1>c, <1>4, <2>2, <2>3, <2>4, <2>5, <2>7 DEF QueueFits
<1>6. Flushed'
    BY <1>a, <1>c, <1>4 DEF Flushed, Written
<1>7. BuffersFit'
    BY <1>a, <1>c DEF BuffersFit
<1> QED BY <1>2, <1>3, <1>5, <1>6, <1>7 DEF TapeInv

LEMMA JoinedKeeps == ASSUME TapeInv, Joined PROVE TapeInv'
<1>c. /\ reader.at = "joining" /\ reader'.at = "closed" /\ reader' \in [at : Places, row : Nat]
      /\ UNCHANGED <<traded, wire, keys, queue, buffers, files, writer, deadline, now, accepted>>
    BY DEF Joined, TapeInv, TapeShape, Places
<1>1. TapeShape'
    BY <1>c DEF TapeInv, TapeShape
<1>2. WireFits' /\ KeysFit' /\ Remembers' /\ Accepts'
    BY <1>c, ReaderPartEnds
<1>3. QueueFits' /\ Flushed' /\ BuffersFit'
    BY <1>c, WriterPartStays
<1> QED BY <1>1, <1>2, <1>3 DEF TapeInv

-----------------------------------------------------------------------------
(* The writer. *)

(* Steps of the writer leave the collector's part alone. *)
LEMMA CollectorPartStays ==
    ASSUME TapeInv, UNCHANGED <<traded, wire, reader, keys, accepted>>
    PROVE  WireFits' /\ KeysFit' /\ Remembers' /\ Accepts'
<1>1. Market' = Market /\ MarketTrades' = MarketTrades /\ LatestKey' = LatestKey /\ NextUp' = NextUp
    BY DEF Market, MarketTrades, LatestKey, NextUp
<1> QED BY <1>1 DEF TapeInv, WireFits, KeysFit, Remembers, Accepts

LEMMA FlushWrites ==
    ASSUME TapeShape, NEW b \in Buffers, NEW ps, buffers' = Emptied(b, ps), files' = Filed(b, ps)
    PROVE  /\ buffers' \in Buffers /\ files' \in Files
           /\ \A p \in Partitions : Written(p)' = files[p] \o RowsOf(b[p])
           /\ \A p \in Partitions : buffers'[p] = IF p \in ps THEN <<>> ELSE b[p]
<1>1. /\ Filed(b, ps) \in Files /\ Emptied(b, ps) \in Buffers
      /\ \A p \in Partitions : Filed(b, ps)[p] \o RowsOf(Emptied(b, ps)[p]) = files[p] \o RowsOf(b[p])
      /\ \A p \in Partitions : Emptied(b, ps)[p] = IF p \in ps THEN <<>> ELSE b[p]
    <2>1. Emptied(b, ps) \in Buffers /\ \A p \in Partitions : Emptied(b, ps)[p] = IF p \in ps THEN <<>> ELSE b[p]
        BY EmptiedFacts
    <2>2. /\ Filed(b, ps) \in Files
          /\ \A p \in Partitions : Filed(b, ps)[p] \o RowsOf(Emptied(b, ps)[p]) = files[p] \o RowsOf(b[p])
        BY FiledFacts
    <2> QED BY <2>1, <2>2
<1>2. \A p \in Partitions : Written(p)' = Filed(b, ps)[p] \o RowsOf(Emptied(b, ps)[p])
    BY DEF Written
<1> QED BY <1>1, <1>2

(* A row taken from the queue is the next of what left it. *)
LEMMA RowTaken ==
    ASSUME TapeInv, queue # <<>>, Head(queue) # Stop, queue' = Tail(queue),
           UNCHANGED <<reader, accepted>>, writer' # "done"
    PROVE  /\ queue' \in Seq(Nat) /\ QueueFits' /\ Left' = Left \cup {Head(queue)}
           /\ Head(queue) \in ToSet(accepted) /\ \A t \in Left : t < Head(queue)
<1>a. TapeShape /\ Accepts /\ QueueFits
    BY DEF TapeInv
<1> DEFINE row == Head(queue)
<1>1. /\ queue' \in Seq(Nat) /\ Len(queue) \in Nat \ {0} /\ Len(queue') = Len(queue) - 1
      /\ DOMAIN queue = 1 .. Len(queue) /\ DOMAIN queue' = 1 .. (Len(queue) - 1)
      /\ \A i \in 1 .. (Len(queue) - 1) : queue'[i] = queue[i + 1]
      /\ row = queue[1] /\ row \in Nat /\ ToSet(queue) = {row} \cup ToSet(queue')
    BY <1>a, TailFacts DEF TapeShape
<1>2. row \in ToSet(queue) /\ row # Stop
    BY <1>1
<1> HIDE DEF row
<1>3. row \in ToSet(accepted) /\ \A t \in Left : t < row
    BY <1>a, <1>2 DEF QueueFits
<1>4. row \notin ToSet(queue')
    <2> SUFFICES ASSUME NEW i \in 1 .. (Len(queue) - 1), queue[i + 1] = row PROVE FALSE
        BY <1>1 DEF ToSet
    <2>1. 1 \in DOMAIN queue /\ i + 1 \in DOMAIN queue /\ 1 < i + 1
        BY <1>1
    <2>2. queue[1] < queue[i + 1]
        BY <1>a, <1>2, <2>1 DEF QueueFits
    <2> QED BY <1>1, <2>2
<1>5. Left' = Left \cup {row}
    BY <1>1, <1>3, <1>4 DEF Left
<1>6. \A u \in ToSet(queue') : u = Stop \/ row < u
    <2> SUFFICES ASSUME NEW i \in 1 .. (Len(queue) - 1) PROVE queue[i + 1] = Stop \/ row < queue[i + 1]
        BY <1>1 DEF ToSet
    <2>1. 1 \in DOMAIN queue /\ i + 1 \in DOMAIN queue /\ 1 < i + 1
        BY <1>1
    <2> QED BY <1>a, <1>1, <2>1 DEF QueueFits
<1>7. QueueFits'
    <2>1. Len(queue') <= QueueSize
        BY <1>a, <1>1, TapeAssumption DEF QueueFits
    <2>2. \A i \in DOMAIN queue' : i + 1 \in DOMAIN queue /\ queue'[i] = queue[i + 1]
        BY <1>1
    <2>3. \A i \in DOMAIN queue' : queue'[i] = Stop => i = Len(queue') /\ reader.at \in {"joining", "closed"}
        <3>1. \A i \in DOMAIN queue' : queue'[i] = Stop => i + 1 = Len(queue) /\ reader.at \in {"joining", "closed"}
            BY <1>a, <2>2 DEF QueueFits
        <3> QED BY <1>1, <3>1
    <2>4. \A i, j \in DOMAIN queue' : i < j => queue'[j] = Stop \/ queue'[i] < queue'[j]
        <3>1. \A i, j \in DOMAIN queue' : i < j => i + 1 < j + 1
            BY <1>1
        <3> QED BY <1>a, <2>2, <3>1 DEF QueueFits
    <2>5. \A u \in ToSet(queue') : u = Stop \/ u \in ToSet(accepted)
        BY <1>a, <1>1 DEF QueueFits
    <2>6. \A t \in Left', u \in ToSet(queue') : u = Stop \/ t < u
        BY <1>a, <1>1, <1>5, <1>6 DEF QueueFits
    <2> QED BY <2>1, <2>3, <2>4, <2>5, <2>6 DEF QueueFits
<1> QED BY <1>1, <1>3, <1>5, <1>7 DEF row

LEMMA WriterTakesKeeps == ASSUME TapeInv, WriterTakes PROVE TapeInv'
<1>a. TapeShape /\ Accepts /\ QueueFits /\ Flushed /\ BuffersFit
    BY DEF TapeInv
<1> DEFINE row == Head(queue)
           p == traded[row]
           r == [row |-> row, at |-> now]
           b == [buffers EXCEPT ![p] = Append(@, r)]
           full == IF Len(b[p]) >= FlushRows THEN {p} ELSE {}
           chosen == IF Buffered(Emptied(b, full)) >= MaxBuffered THEN Relief(Emptied(b, full)) ELSE {}
<1>c. /\ writer = "running" /\ queue # <<>> /\ row # Stop /\ now < deadline
      /\ Flush(b, full, chosen, "running")
      /\ queue' = Tail(queue) /\ deadline' = deadline
      /\ UNCHANGED <<traded, wire, reader, keys, now, accepted>>
    BY DEF WriterTakes, Kept
<1>1. PICK ps : /\ buffers' = Emptied(b, ps) /\ files' = Filed(b, ps)
                /\ writer' = "dead" \/ (writer' = "running" /\ ps = full \cup chosen)
    <2> HIDE DEF b, full, chosen
    <2> QED BY <1>c, FlushFacts
<1>2. /\ queue' \in Seq(Nat) /\ QueueFits' /\ Left' = Left \cup {row}
      /\ row \in ToSet(accepted) /\ \A t \in Left : t < row
    BY <1>c, <1>1, RowTaken
<1>3. row \in MarketTrades /\ row \in Nat /\ p \in Partitions
    <2>1. row \in MarketTrades /\ DOMAIN traded = MarketTrades
        BY <1>a, <1>2, LenProperties DEF Accepts, TapeShape, MarketTrades, Market
    <2> QED BY <1>a, <2>1, ElementOfSeq DEF TapeShape, MarketTrades, Market
<1>4. r \in TapeRow /\ r.row = row /\ r.at = now
    BY <1>a, <1>3 DEF TapeRow, TapeShape
<1> HIDE DEF row, p, r
<1>5. \A q \in Partitions : buffers[q] \in Seq(TapeRow) /\ files[q] \in Seq(Nat)
    BY <1>a DEF TapeShape, Buffers, Files
<1>6. /\ Append(buffers[p], r) \in Seq(TapeRow) /\ Len(Append(buffers[p], r)) = Len(buffers[p]) + 1
      /\ Len(buffers[p]) \in Nat /\ DOMAIN buffers[p] = 1 .. Len(buffers[p])
      /\ DOMAIN Append(buffers[p], r) = 1 .. (Len(buffers[p]) + 1)
      /\ \A i \in 1 .. Len(buffers[p]) : Append(buffers[p], r)[i] = buffers[p][i]
      /\ Append(buffers[p], r)[Len(buffers[p]) + 1] = r
    BY <1>3, <1>4, <1>5, AppendFacts
<1>7. /\ b \in Buffers /\ b[p] = Append(buffers[p], r)
      /\ \A q \in Partitions \ {p} : b[q] = buffers[q]
    <2>1. buffers \in [Partitions -> Seq(TapeRow)]
        BY <1>a DEF TapeShape, Buffers
    <2> QED BY <1>3, <1>6, <2>1 DEF Buffers
<1> HIDE DEF b
<1>8. /\ buffers' \in Buffers /\ files' \in Files
      /\ \A q \in Partitions : Written(q)' = files[q] \o RowsOf(b[q])
      /\ \A q \in Partitions : buffers'[q] = IF q \in ps THEN <<>> ELSE b[q]
    BY <1>a, <1>1, <1>7, FlushWrites
<1>9. TapeShape'
    BY <1>a, <1>c, <1>1, <1>2, <1>8 DEF TapeShape
<1>10. WireFits' /\ KeysFit' /\ Remembers' /\ Accepts'
    BY <1>c, CollectorPartStays
<1>11. Flushed'
    <2>1. ASSUME NEW q \in Partitions
          PROVE  /\ Ascending(Written(q)')
                 /\ ToSet(Written(q)') = {t \in Left' : traded[t] = q}
        <3>1. Ascending(Written(q)) /\ ToSet(Written(q)) = {t \in Left : traded[t] = q}
            BY <1>a DEF Flushed
        <3>2. CASE q = p
            <4>1. Written(q)' = Append(Written(q), row)
                BY <1>3, <1>4, <1>5, <1>7, <1>8, <3>2, RowsOfAppend DEF Written
            <4>2. Written(q) \in Seq(Nat)
                BY <1>5, RowsOfFacts, ConcatProperties DEF Written
            <4> DEFINE w == Written(q)
            <4>3. \A t \in ToSet(w) : t < row
                BY <1>2, <3>1
            <4>4. Ascending(w) /\ w \in Seq(Nat) /\ ToSet(w) = {t \in Left : traded[t] = q}
                BY <3>1, <4>2
            <4> HIDE DEF w
            <4>5. Ascending(Append(w, row)) /\ ToSet(Append(w, row)) = ToSet(w) \cup {row}
                BY <1>3, <4>3, <4>4, AscendingAppend, AppendFacts
            <4>6. {t \in Left' : traded[t] = q} = {t \in Left : traded[t] = q} \cup {row}
                BY <1>2, <3>2 DEF p
            <4>7. Written(q)' = Append(w, row)
                BY <4>1 DEF w
            <4> QED BY <4>4, <4>5, <4>6, <4>7
        <3>3. CASE q # p
            <4>1. Written(q)' = Written(q)
                BY <1>7, <1>8, <3>3 DEF Written
            <4>2. {t \in Left' : traded[t] = q} = {t \in Left : traded[t] = q}
                BY <1>2, <3>3 DEF p
            <4> QED BY <3>1, <4>1, <4>2
        <3> QED BY <3>2, <3>3
    <2> QED BY <1>c, <1>1, <2>1 DEF Flushed
<1>12. BuffersFit'
    <2>1. /\ FlushRows \in Nat \ {0} /\ MaxBuffered \in Nat \ {0} /\ FlushTicks \in Nat
          /\ now \in Nat /\ deadline \in Nat
        BY <1>a, TapeAssumption DEF TapeShape
    <2>2. \A q \in Partitions : Len(buffers[q]) < FlushRows
        BY <1>a, <1>c DEF BuffersFit
    <2>3. \A q \in Partitions : Len(b[q]) <= FlushRows /\ (q # p => Len(b[q]) < FlushRows)
        BY <1>3, <1>6, <1>7, <2>1, <2>2
    <2>4. Len(<<>>) = 0
        BY EmptySeq
    <2>5. \A q \in Partitions : Len(buffers'[q]) <= FlushRows
        BY <1>8, <2>1, <2>3, <2>4
    <2>6. ASSUME writer' = "running"
          PROVE  /\ \A q \in Partitions : Len(buffers'[q]) < FlushRows
                 /\ Buffered(buffers') < MaxBuffered
        <3>1. ps = full \cup chosen
            BY <1>1, <2>6
        <3>2. \A q \in Partitions : Len(buffers'[q]) < FlushRows
            <4>1. p \notin ps => Len(b[p]) < FlushRows
                BY <1>3, <1>6, <1>7, <2>1, <3>1
            <4> QED BY <1>8, <2>1, <2>3, <2>4, <3>1, <4>1
        <3> DEFINE e == Emptied(b, full)
        <3>3. e \in Buffers
            BY <1>7, EmptiedFacts
        <3> HIDE DEF full
        <3>4. CASE Buffered(e) >= MaxBuffered
            <4>1. buffers' = Emptied(e, Relief(e))
                BY <1>1, <1>7, <3>1, <3>4, EmptiedTwice
            <4> HIDE DEF e
            <4>2. 4 * Buffered(buffers') <= 3 * MaxBuffered
                BY <3>3, <4>1, ReliefFacts
            <4>3. Buffered(buffers') \in Nat
                BY <3>3, <4>1, EmptiedFacts, BufferedNumber
            <4> QED BY <2>1, <3>2, <4>2, <4>3
        <3>5. CASE ~ Buffered(e) >= MaxBuffered
            <4>1. buffers' = e
                BY <1>1, <3>1, <3>5
            <4> HIDE DEF e
            <4>2. Buffered(e) \in Nat
                BY <3>3, BufferedNumber
            <4> QED BY <2>1, <3>2, <3>5, <4>1, <4>2
        <3> QED BY <3>4, <3>5
    <2>7. now <= deadline /\ deadline <= now + FlushTicks
        BY <1>a, <1>c DEF BuffersFit
    <2>8. ASSUME NEW q \in Partitions, NEW i \in DOMAIN buffers'[q]
          PROVE  deadline <= buffers'[q][i].at + FlushTicks
        <3>1. buffers'[q] = b[q] /\ i \in DOMAIN b[q]
            BY <1>8, <2>8
        <3>2. CASE q = p /\ i = Len(buffers[p]) + 1
            <4>1. b[q][i] = r
                BY <1>6, <1>7, <3>2
            <4> QED BY <1>4, <2>7, <3>1, <4>1
        <3>3. CASE q # p \/ i # Len(buffers[p]) + 1
            <4>1. i \in DOMAIN buffers[q] /\ b[q][i] = buffers[q][i]
                BY <1>6, <1>7, <3>1, <3>3
            <4> QED BY <1>a, <1>c, <3>1, <4>1 DEF BuffersFit
        <3> QED BY <3>2, <3>3
    <2> QED BY <1>c, <2>5, <2>6, <2>7, <2>8 DEF BuffersFit
<1> QED BY <1>2, <1>9, <1>10, <1>11, <1>12 DEF TapeInv

(* A flush of everything. *)
LEMMA EverythingFlushed ==
    ASSUME TapeInv, NEW after, Flush(buffers, {}, Partitions, after)
    PROVE  /\ buffers' \in Buffers /\ files' \in Files
           /\ \A p \in Partitions : Written(p)' = Written(p)
           /\ \A p \in Partitions : buffers'[p] = <<>> \/ buffers'[p] = buffers[p]
           /\ \/ writer' = "dead"
              \/ writer' = after /\ Buffered(buffers') = 0 /\ \A p \in Partitions : buffers'[p] = <<>>
<1>a. TapeShape /\ buffers \in Buffers
    BY DEF TapeInv, TapeShape
<1>1. PICK ps : /\ buffers' = Emptied(buffers, ps) /\ files' = Filed(buffers, ps)
                /\ writer' = "dead" \/ (writer' = after /\ ps = {} \cup Partitions)
    BY FlushFacts
<1>2. /\ buffers' \in Buffers /\ files' \in Files
      /\ \A p \in Partitions : Written(p)' = files[p] \o RowsOf(buffers[p])
      /\ \A p \in Partitions : buffers'[p] = IF p \in ps THEN <<>> ELSE buffers[p]
    BY <1>a, <1>1, FlushWrites
<1>3. ps = {} \cup Partitions => Buffered(buffers') = 0
    BY <1>a, <1>1, NothingBuffered
<1> QED BY <1>1, <1>2, <1>3 DEF Written

LEMMA DeadlineKeeps == ASSUME TapeInv, Deadline PROVE TapeInv'
<1>a. TapeShape /\ QueueFits /\ Flushed /\ BuffersFit
    BY DEF TapeInv
<1>c. /\ writer = "running" /\ deadline' = now + FlushTicks
      /\ UNCHANGED <<traded, wire, reader, keys, queue, now, accepted>>
      /\ Flush(buffers, {}, Partitions, "running")
    BY DEF Deadline
<1>1. /\ buffers' \in Buffers /\ files' \in Files
      /\ \A p \in Partitions : Written(p)' = Written(p)
      /\ \A p \in Partitions : buffers'[p] = <<>> \/ buffers'[p] = buffers[p]
      /\ \/ writer' = "dead"
         \/ writer' = "running" /\ Buffered(buffers') = 0 /\ \A p \in Partitions : buffers'[p] = <<>>
    BY <1>c, EverythingFlushed
<1>2. /\ FlushTicks \in Nat /\ FlushRows \in Nat \ {0} /\ MaxBuffered \in Nat \ {0} /\ now \in Nat
    BY <1>a, TapeAssumption DEF TapeShape
<1>3. TapeShape'
    BY <1>a, <1>c, <1>1, <1>2 DEF TapeShape
<1>4. WireFits' /\ KeysFit' /\ Remembers' /\ Accepts'
    BY <1>c, CollectorPartStays
<1>5. QueueFits' /\ Left' = Left
    BY <1>a, <1>c, <1>1 DEF QueueFits, Left
<1>6. Flushed'
    BY <1>a, <1>c, <1>1, <1>5 DEF Flushed
<1>7. BuffersFit'
    <2>1. Len(<<>>) = 0 /\ DOMAIN <<>> = {}
        BY EmptySeq
    <2>2. \A p \in Partitions : Len(buffers'[p]) <= FlushRows
        BY <1>a, <1>1, <1>2, <2>1 DEF BuffersFit
    <2>3. now <= now + FlushTicks
        BY <1>2
    <2>4. CASE writer' = "dead"
        BY <2>2, <2>4 DEF BuffersFit
    <2>5. CASE writer' # "dead"
        <3>1. \A p \in Partitions : buffers'[p] = <<>>
            BY <1>1, <2>5
        <3>2. Buffered(buffers') = 0
            BY <1>1, <2>5
        <3>3. Buffered(buffers') < MaxBuffered
            BY <1>2, <3>2
        <3>4. \A p \in Partitions : Len(buffers'[p]) < FlushRows
            BY <1>2, <2>1, <3>1
        <3>5. \A p \in Partitions : \A i \in DOMAIN buffers'[p] : deadline' <= buffers'[p][i].at + FlushTicks
            BY <2>1, <3>1
        <3>6. now' <= deadline' /\ deadline' <= now' + FlushTicks
            BY <1>2, <1>c
        <3> QED BY <2>2, <3>3, <3>4, <3>5, <3>6 DEF BuffersFit
    <2> QED BY <2>4, <2>5
<1> QED BY <1>3, <1>4, <1>5, <1>6, <1>7 DEF TapeInv

LEMMA WriterStopsKeeps == ASSUME TapeInv, WriterStops PROVE TapeInv'
<1>a. TapeShape /\ Accepts /\ QueueFits /\ Flushed /\ BuffersFit
    BY DEF TapeInv
<1>c. /\ queue # <<>> /\ Head(queue) = Stop /\ queue' = Tail(queue)
      /\ UNCHANGED <<traded, wire, reader, keys, deadline, now, accepted>>
      /\ Flush(buffers, {}, Partitions, "done")
    BY DEF WriterStops, WriterEnds
<1>1. /\ buffers' \in Buffers /\ files' \in Files
      /\ \A p \in Partitions : Written(p)' = Written(p)
      /\ \A p \in Partitions : buffers'[p] = <<>> \/ buffers'[p] = buffers[p]
      /\ \/ writer' = "dead"
         \/ writer' = "done" /\ \A p \in Partitions : buffers'[p] = <<>>
    BY <1>c, EverythingFlushed
<1>2. /\ queue' \in Seq(Nat) /\ Len(queue) \in Nat \ {0} /\ Len(queue') = Len(queue) - 1
      /\ DOMAIN queue = 1 .. Len(queue) /\ queue[1] = Stop /\ ToSet(queue) = {Stop} \cup ToSet(queue')
    BY <1>a, <1>c, TailFacts DEF TapeShape
<1>3. Len(queue) = 1 /\ reader.at \in {"joining", "closed"}
    BY <1>a, <1>2 DEF QueueFits
<1>4. queue' = <<>> /\ DOMAIN queue' = {} /\ ToSet(queue') = {} /\ Len(queue') = 0
    <2>1. queue' = <<>>
        BY <1>2, <1>3, EmptySeq
    <2> QED BY <1>2, <1>3, <2>1 DEF ToSet
<1>5. TapeShape'
    BY <1>a, <1>c, <1>1, <1>2 DEF TapeShape
<1>6. WireFits' /\ KeysFit' /\ Remembers' /\ Accepts'
    BY <1>c, CollectorPartStays
<1>7. Left' = Left
    BY <1>a, <1>c, <1>2, <1>4 DEF Left, Accepts, MarketTrades, Stop
<1>8. QueueFits'
    BY <1>c, <1>3, <1>4, TapeAssumption DEF QueueFits
<1>9. Flushed'
    BY <1>a, <1>c, <1>1, <1>7 DEF Flushed
<1>10. BuffersFit'
    <2>1. \A p \in Partitions : Len(buffers'[p]) <= FlushRows
        BY <1>a, <1>1, TapeAssumption, EmptySeq DEF BuffersFit
    <2>2. writer' # "running"
        BY <1>1
    <2> QED BY <2>1, <2>2 DEF BuffersFit
<1> QED BY <1>5, <1>6, <1>8, <1>9, <1>10 DEF TapeInv

LEMMA TickKeeps == ASSUME TapeInv, Tick PROVE TapeInv'
<1>a. TapeShape /\ QueueFits /\ Flushed /\ BuffersFit
    BY DEF TapeInv
<1>c. /\ now' = now + 1 /\ (writer = "running" => now < deadline)
      /\ UNCHANGED <<traded, wire, reader, keys, queue, buffers, files, writer, deadline, accepted>>
    BY DEF Tick
<1>1. now \in Nat /\ deadline \in Nat /\ FlushTicks \in Nat
    BY <1>a, TapeAssumption DEF TapeShape
<1>2. TapeShape'
    BY <1>a, <1>c, <1>1 DEF TapeShape
<1>3. WireFits' /\ KeysFit' /\ Remembers' /\ Accepts'
    BY <1>c, CollectorPartStays
<1>4. QueueFits' /\ Flushed'
    BY <1>a, <1>c DEF QueueFits, Flushed, Left, Written
<1>5. BuffersFit'
    <2>1. writer = "running" => now' <= deadline /\ deadline <= now' + FlushTicks
        BY <1>a, <1>c, <1>1 DEF BuffersFit
    <2> QED BY <1>a, <1>c, <2>1 DEF BuffersFit
<1> QED BY <1>2, <1>3, <1>4, <1>5 DEF TapeInv

-----------------------------------------------------------------------------
(* A capture that starts. *)

Begins ==
    /\ reader = [at |-> "lost", row |-> Stop] /\ wire = <<>> /\ keys = <<>>
    /\ queue = <<>> /\ accepted = <<>>
    /\ buffers = [p \in Partitions |-> <<>>] /\ files = [p \in Partitions |-> <<>>]
    /\ writer = "running" /\ deadline = now + FlushTicks
    /\ traded \in Seq(Partitions) /\ now \in Nat

LEMMA BeginFits == Begins => TapeInv
<1> SUFFICES ASSUME Begins PROVE TapeInv
    OBVIOUS
<1>1. /\ FlushTicks \in Nat /\ FlushRows \in Nat \ {0} /\ MaxBuffered \in Nat \ {0} /\ QueueSize \in Nat
      /\ MaxKeys \in Nat
    BY TapeAssumption
<1>2. Len(<<>>) = 0 /\ DOMAIN <<>> = {} /\ \A S : <<>> \in Seq(S)
    BY EmptySeq
<1>3. \A s : s = <<>> => ToSet(s) = {}
    BY <1>2 DEF ToSet
<1>4. reader.at = "lost" /\ reader \in [at : Places, row : Nat]
    BY DEF Begins, Places, Stop
<1>5. Market \in Nat /\ LatestKey = 0 /\ MarketTrades \subseteq Nat \ {0}
    BY LenProperties DEF Begins, LatestKey, Market, MarketTrades
<1>6. buffers \in Buffers /\ files \in Files
    BY <1>2 DEF Begins, Buffers, Files
<1>7. TapeShape
    BY <1>1, <1>2, <1>4, <1>6 DEF Begins, TapeShape
<1>8. WireFits /\ KeysFit /\ Accepts
    BY <1>1, <1>2, <1>3, <1>4 DEF Begins, WireFits, KeysFit, Accepts, Spaced, Ascending
<1>9. Remembers
    BY <1>4, <1>5 DEF Remembers
<1>10. QueueFits
    BY <1>1, <1>2, <1>3 DEF Begins, QueueFits
<1>11. Flushed
    <2>1. Left = {}
        BY <1>3 DEF Begins, Left
    <2>2. \A p \in Partitions : Written(p) = <<>>
        BY RowsOfEmpty, ConcatEmptySeq, EmptySeq DEF Begins, Written
    <2>3. \A p \in Partitions : Ascending(Written(p)) /\ ToSet(Written(p)) = {}
        BY <1>2, <1>3, <2>2 DEF Ascending
    <2> QED BY <2>1, <2>3 DEF Begins, Flushed
<1>12. BuffersFit
    <2>1. \A p \in Partitions : buffers[p] = <<>>
        BY DEF Begins
    <2>2. buffers = Emptied(buffers, Partitions)
        BY DEF Begins, Emptied
    <2>3. Buffered(buffers) = 0
        BY <1>6, <2>2, NothingBuffered
    <2>4. Buffered(buffers) < MaxBuffered
        BY <1>1, <2>3
    <2>5. now <= deadline /\ deadline <= now + FlushTicks
        BY <1>1 DEF Begins
    <2> QED BY <1>1, <1>2, <2>1, <2>4, <2>5 DEF BuffersFit
<1> QED BY <1>7, <1>8, <1>9, <1>10, <1>11, <1>12 DEF TapeInv

LEMMA InitFits == MarketInit => TapeInv
<1> SUFFICES ASSUME MarketInit PROVE TapeInv
    OBVIOUS
<1>1. FlushTicks = 0 + FlushTicks
    BY TapeAssumption
<1>2. Begins
    BY <1>1, EmptySeq DEF MarketInit, Begins
<1> QED BY <1>2, BeginFits

LEMMA RestartKeeps == TapeInv /\ Restart => TapeInv'
<1>1. TapeInv /\ Restart => Begins'
    BY DEF Restart, Begins, TapeInv, TapeShape
<1> QED BY <1>1, BeginFits, PTL

LEMMA StepKeeps == TapeInv /\ [MarketNext]_mtVars => TapeInv'
<1> SUFFICES ASSUME TapeInv, [MarketNext]_mtVars PROVE TapeInv'
    OBVIOUS
<1>1. CASE \E p \in Partitions : Trade(p)
    BY <1>1, TradeKeeps
<1>2. CASE Receive \/ PutRow \/ ConnectionLost \/ Reconnect \/ Cancel \/ CloseStep
    BY <1>2, ReceiveKeeps, PutRowKeeps, ConnectionLostKeeps, ReconnectKeeps, CancelKeeps, CloseQueuesKeeps,
       JoinedKeeps DEF CloseStep
<1>3. CASE WriterStep
    BY <1>3, WriterTakesKeeps, DeadlineKeeps, WriterStopsKeeps DEF WriterStep
<1>4. CASE Tick \/ Restart
    BY <1>4, TickKeeps, RestartKeeps
<1>5. CASE UNCHANGED mtVars
    <2>1. UNCHANGED <<traded, wire, reader, keys, queue, buffers, files, writer, deadline, now, accepted>>
        BY <1>5 DEF mtVars
    <2>2. TapeShape'
        BY <2>1 DEF TapeInv, TapeShape
    <2> QED BY <2>1, <2>2, CollectorPartStays, WriterPartStays DEF TapeInv
<1> QED BY <1>1, <1>2, <1>3, <1>4, <1>5 DEF MarketNext

LEMMA Complete == TapeInv => TapeIsComplete
<1> SUFFICES ASSUME TapeInv PROVE TapeIsComplete
    OBVIOUS
<1>a. TapeShape /\ KeysFit /\ Accepts /\ QueueFits /\ Flushed /\ BuffersFit
    BY DEF TapeInv
<1>1. MarketTypeOK
    BY <1>a DEF MarketTypeOK, TapeShape, Places, QueueFits, KeysFit, BuffersFit
<1>2. RowsOnceInOrder
    <2>1. \A t \in ToSet(accepted) : t # Stop
        BY <1>a DEF Accepts, MarketTrades, Stop
    <2>2. ASSUME NEW p \in Partitions
          PROVE  /\ Ascending(Written(p)) /\ ToSet(Written(p)) = Rows(accepted, p) \ Rows(queue, p)
                 /\ Rows(queue, p) \subseteq Rows(accepted, p)
        BY <1>a, <2>1 DEF Flushed, Left, Rows, QueueFits
    <2>3. ASSUME NEW i \in DOMAIN queue, NEW j \in DOMAIN queue, i < j PROVE queue[i] # Stop
        <3>1. DOMAIN queue = 1 .. Len(queue) /\ Len(queue) \in Nat
            BY <1>a, Ranges
        <3>2. i # Len(queue)
            BY <2>3, <3>1
        <3> QED BY <1>a, <3>2 DEF QueueFits
    <2> QED BY <1>a, <2>2, <2>3 DEF RowsOnceInOrder, QueueFits, Left
<1>3. TradeOnce
    BY <1>a DEF TradeOnce, Accepts
<1>4. StoppedIsWritten
    <2> SUFFICES ASSUME writer = "done", NEW p \in Partitions
                 PROVE  Ascending(files[p]) /\ ToSet(files[p]) = Rows(accepted, p)
        BY DEF StoppedIsWritten
    <2>1. queue = <<>> /\ buffers[p] = <<>>
        BY <1>a DEF QueueFits, Flushed
    <2>2. files[p] \in Seq(Nat)
        BY <1>a DEF TapeShape, Files
    <2>3. Written(p) = files[p]
        BY <2>1, <2>2, RowsOfEmpty, ConcatEmptySeq DEF Written
    <2>4. ToSet(queue) = {}
        BY <2>1, EmptySeq DEF ToSet
    <2>5. \A t \in ToSet(accepted) : t # Stop
        BY <1>a DEF Accepts, MarketTrades, Stop
    <2> QED BY <1>a, <2>3, <2>4, <2>5 DEF Flushed, Left, Rows
<1>5. BufferBounded
    BY <1>a DEF BufferBounded, BuffersFit
<1>6. NoRowLate
    <2> SUFFICES ASSUME writer = "running", NEW p \in Partitions, NEW i \in DOMAIN buffers[p]
                 PROVE  now <= buffers[p][i].at + FlushTicks
        BY DEF NoRowLate
    <2>1. now \in Nat /\ deadline \in Nat /\ FlushTicks \in Nat
        BY <1>a, TapeAssumption DEF TapeShape
    <2>2. buffers[p][i].at \in Nat
        <3>1. buffers[p] \in Seq(TapeRow)
            BY <1>a DEF TapeShape, Buffers
        <3>2. i \in 1 .. Len(buffers[p])
            BY <3>1, LenProperties
        <3>3. buffers[p][i] \in TapeRow
            BY <3>1, <3>2, ElementOfSeq
        <3> QED BY <3>3 DEF TapeRow
    <2>3. now <= deadline /\ deadline <= buffers[p][i].at + FlushTicks
        BY <1>a DEF BuffersFit
    <2> QED BY <2>1, <2>2, <2>3
<1> QED BY <1>1, <1>2, <1>3, <1>4, <1>5, <1>6 DEF TapeIsComplete

(***************************************************************************)
(* MarketTapeWriter and AsyncMarketTapeSink write every row the collector  *)
(* accepted once, in the order of the market and within the deadline, in   *)
(* bounded memory; the deduper of the collector lets no trade through      *)
(* twice, and a capture that was stopped has everything in its files.      *)
(***************************************************************************)
THEOREM TapeIsCompleteHolds == MarketSpec => []TapeIsComplete
<1>1. MarketSpec => []TapeInv
    BY InitFits, StepKeeps, PTL DEF MarketSpec
<1> QED BY <1>1, Complete, PTL

-----------------------------------------------------------------------------
(* What grows by one step from its first element reaches its last. *)
LEMMA CountUp ==
    ASSUME NEW S, NEW m \in Nat, NEW n \in Nat, m \in S, \A t \in m .. n : (t \in S /\ t < n) => t + 1 \in S
    PROVE  \A t \in m .. n : t \in S
<1> SUFFICES ASSUME NEW u \in m .. n, u \notin S PROVE FALSE
    OBVIOUS
<1> DEFINE out == {t \in m .. n : t \notin S}
<1>1. PICK least \in out : \A t \in out : least <= t
    <2>1. out \subseteq Nat /\ out # {}
        OBVIOUS
    <2> HIDE DEF out
    <2> QED BY <2>1, LeastNumber
<1>2. least \in m .. n /\ least # m /\ least - 1 \in m .. n /\ least - 1 < n /\ (least - 1) + 1 = least
    BY <1>1
<1>3. least - 1 \in S
    BY <1>1, <1>2
<1> QED BY <1>1, <1>2, <1>3

LEMMA GreatestNumber ==
    ASSUME NEW n \in Nat, NEW S, S \subseteq 1 .. n, S # {}
    PROVE  \E m \in S : \A k \in S : m >= k
<1> DEFINE from == {n - k : k \in S}
<1>1. PICK least \in from : \A j \in from : least <= j
    <2>1. \A k \in S : n - k \in Nat
        OBVIOUS
    <2>2. from \subseteq Nat /\ from # {}
        BY <2>1
    <2> HIDE DEF from
    <2> QED BY <2>2, LeastNumber
<1>2. PICK m \in S : least = n - m
    BY <1>1
<1>3. ASSUME NEW k \in S PROVE m >= k
    <2>1. n - k \in from /\ k \in Nat /\ m \in Nat
        OBVIOUS
    <2>2. n - m <= n - k
        BY <1>1, <1>2, <2>1
    <2> QED BY <2>1, <2>2
<1> QED BY <1>3

-----------------------------------------------------------------------------
(* The inductive invariant. *)

WideTrades == [at : 1 .. MaxTicks, before : Int, after : Int]
Line == [trade : Nat, whole : BOOLEAN]
LaneShape ==
    /\ trades \in Seq(WideTrades) /\ arriving \in Seq(Nat) /\ lines \in Seq(Line)
    /\ official \in Seq([trade : Nat, kind : {"fill", "miss"}])
    /\ enricher \in [at : {"idle", "draining", "asking"}, offset : Nat, tries : Nat, born : Nat]
    /\ link \in {"up", "down"} /\ began \in Nat /\ saved \in Nat

(* Each trade begins where the one before it ended, and not earlier. *)
Chained ==
    /\ \A k \in DOMAIN trades : trades[k].before = (IF k = 1 THEN 0 ELSE trades[k - 1].after)
    /\ \A j, k \in DOMAIN trades : j <= k => trades[j].at <= trades[k].at

(* Who writes a line knows its trade, or began after it. *)
LinesFit ==
    /\ \A i \in DOMAIN arriving : arriving[i] \in DOMAIN trades
    /\ known \subseteq DOMAIN trades /\ began \in 1 .. Len(trades) + 1
    /\ \A i \in DOMAIN lines : lines[i].trade \in DOMAIN trades /\ Passed(lines[i].trade)
    /\ \A i, j \in DOMAIN lines : lines[i].trade = lines[j].trade => i = j

(* A row is of a line that was read, or that an enricher before this one read. *)
RowsFit ==
    /\ \A r \in DOMAIN official : \E i \in DOMAIN lines :
          (i <= enricher.offset \/ i <= enricher.born) /\ official[r].trade = lines[i].trade
    /\ enricher.at = "asking" => enricher.born < Next1 /\ Next1 <= Len(lines)
    /\ enricher.tries < Retries
    /\ saved <= enricher.offset /\ enricher.offset <= Len(lines) /\ enricher.born <= Len(lines)
LaneInv == LaneShape /\ Chained /\ LinesFit /\ RowsFit /\ EnrichedOnce /\ EveryLineHandled

LEMMA LaneRanges ==
    ASSUME LaneShape
    PROVE  /\ Len(trades) \in Nat /\ DOMAIN trades = 1 .. Len(trades)
           /\ Len(lines) \in Nat /\ DOMAIN lines = 1 .. Len(lines)
           /\ Len(arriving) \in Nat /\ DOMAIN arriving = 1 .. Len(arriving)
           /\ Len(official) \in Nat /\ DOMAIN official = 1 .. Len(official)
           /\ \A k \in DOMAIN trades : /\ trades[k] \in WideTrades /\ trades[k].at \in 1 .. MaxTicks
                                       /\ trades[k].before \in Int /\ trades[k].after \in Int
           /\ \A i \in DOMAIN lines : lines[i] \in Line /\ lines[i].trade \in Nat
           /\ enricher.offset \in Nat /\ enricher.born \in Nat /\ enricher.tries \in Nat /\ Next1 \in Nat
           /\ Next1 = enricher.offset + 1 /\ MaxTicks \in Nat /\ Retries \in Nat \ {0}
<1>1. /\ Len(trades) \in Nat /\ DOMAIN trades = 1 .. Len(trades)
      /\ Len(lines) \in Nat /\ DOMAIN lines = 1 .. Len(lines)
      /\ Len(arriving) \in Nat /\ DOMAIN arriving = 1 .. Len(arriving)
      /\ Len(official) \in Nat /\ DOMAIN official = 1 .. Len(official)
    BY LenProperties DEF LaneShape
<1>2. \A k \in DOMAIN trades : trades[k] \in WideTrades
    BY <1>1, ElementOfSeq DEF LaneShape
<1>3. \A i \in DOMAIN lines : lines[i] \in Line
    BY <1>1, ElementOfSeq DEF LaneShape
<1>4. enricher.offset \in Nat /\ enricher.born \in Nat /\ enricher.tries \in Nat
    BY DEF LaneShape
<1>5. \A k \in DOMAIN trades : trades[k].at \in 1 .. MaxTicks /\ trades[k].before \in Int /\ trades[k].after \in Int
    BY <1>2 DEF WideTrades
<1>6. \A i \in DOMAIN lines : lines[i].trade \in Nat
    BY <1>3 DEF Line
<1>7. Next1 \in Nat /\ Next1 = enricher.offset + 1 /\ MaxTicks \in Nat /\ Retries \in Nat \ {0}
    BY <1>4, WideAssumption DEF Next1
<1> QED BY <1>1, <1>2, <1>3, <1>4, <1>5, <1>6, <1>7

LEMMA LaneInit == WideInit => LaneInv
<1> SUFFICES ASSUME WideInit PROVE LaneInv
    OBVIOUS
<1>1. /\ trades = <<>> /\ arriving = <<>> /\ lines = <<>> /\ official = <<>> /\ Len(lines) = 0 /\ Len(trades) = 0
      /\ DOMAIN trades = {} /\ DOMAIN arriving = {} /\ DOMAIN lines = {} /\ DOMAIN official = {}
    BY EmptySeq DEF WideInit
<1>2. /\ enricher.at = "idle" /\ enricher.offset = 0 /\ enricher.born = 0 /\ enricher.tries = 0 /\ saved = 0
      /\ enricher \in [at : {"idle", "draining", "asking"}, offset : Nat, tries : Nat, born : Nat]
      /\ link = "down" /\ began = 1 /\ known = {}
    BY DEF WideInit
<1>3. LaneShape
    BY <1>1, <1>2, EmptySeq DEF LaneShape
<1>4. Chained /\ LinesFit /\ EnrichedOnce
    BY <1>1, <1>2 DEF Chained, LinesFit, EnrichedOnce
<1>5. RowsFit /\ EveryLineHandled
    BY <1>1, <1>2, WideAssumption DEF RowsFit, EveryLineHandled
<1> QED BY <1>3, <1>4, <1>5 DEF LaneInv

(* Steps of the collector leave the enricher's part alone, and the other way. *)
LEMMA EnricherPartStays ==
    ASSUME LaneInv, UNCHANGED <<lines, enricher, saved, official, stale>>
    PROVE  RowsFit' /\ EnrichedOnce' /\ EveryLineHandled'
BY DEF LaneInv, RowsFit, EnrichedOnce, EveryLineHandled, Next1

LEMMA CaptureStepStays ==
    ASSUME LaneInv, UNCHANGED <<trades, arriving, link, began, known, lines>>
    PROVE  Chained' /\ LinesFit'
BY DEF LaneInv, Chained, LinesFit, Passed, Known

LEMMA WideTradeKeeps ==
    ASSUME LaneInv, NEW q \in -MaxHolding .. MaxHolding, NEW at \in {Now, Now + 1} \cap 1 .. MaxTicks, WideTrade(q, at)
    PROVE  LaneInv'
<1>a. LaneShape /\ Chained /\ LinesFit /\ UNCHANGED <<link, began, known, lines, enricher, saved, official, stale>>
    BY DEF LaneInv, WideTrade
<1> DEFINE n == Len(trades)
           new == [at |-> at, before |-> Held, after |-> q]
<1>1. n \in Nat /\ DOMAIN trades = 1 .. n /\ \A k \in 1 .. n : trades[k].at \in 1 .. MaxTicks /\ trades[k].after \in Int
    BY <1>a, LaneRanges
<1>2. n > 0 <=> trades # <<>>
    BY <1>a, EmptySeq, LenProperties DEF LaneShape
<1>3. Held = IF n = 0 THEN 0 ELSE trades[n].after
    BY <1>1, <1>2 DEF Held
<1>4. new \in WideTrades
    <2>1. q \in Int
        BY WideAssumption
    <2>2. Held \in Int
        BY <1>1, <1>3
    <2> QED BY <2>1, <2>2 DEF WideTrades
<1>5. /\ trades' = Append(trades, new) /\ trades' \in Seq(WideTrades) /\ Len(trades') = n + 1 /\ DOMAIN trades' = 1 .. (n + 1)
      /\ \A k \in 1 .. n : trades'[k] = trades[k]
      /\ trades'[n + 1] = new
    <2>1. trades' = Append(trades, new)
        BY DEF WideTrade
    <2> HIDE DEF new
    <2> QED BY <1>a, <1>1, <1>4, <2>1, AppendProperties, LenProperties DEF LaneShape
<1>6. \A k \in 1 .. n : trades[k].at <= at
    <2>1. CASE n = 0
        BY <2>1
    <2>2. CASE n # 0
        <3>1. Now = trades[n].at /\ n \in 1 .. n
            BY <1>1, <1>2, <2>2 DEF Now
        <3>2. \A k \in 1 .. n : trades[k].at <= trades[n].at
            BY <1>a, <1>1, <3>1 DEF Chained
        <3>3. at \in Int /\ trades[n].at <= at
            BY <1>1, <3>1, WideAssumption
        <3> QED BY <1>1, <3>1, <3>2, <3>3
    <2> QED BY <2>1, <2>2
<1>7. trades'[n + 1].before = Held /\ trades'[n + 1].at = at
    BY <1>5
<1> HIDE DEF new
<1>8. Chained'
    <2>1. ASSUME NEW k \in 1 .. (n + 1) PROVE trades'[k].before = (IF k = 1 THEN 0 ELSE trades'[k - 1].after)
        <3>1. CASE k \in 1 .. n
            <4>1. k # 1 => k - 1 \in 1 .. n
                BY <1>1, <3>1
            <4>2. trades[k].before = (IF k = 1 THEN 0 ELSE trades[k - 1].after)
                BY <1>a, <1>1, <3>1 DEF Chained
            <4> QED BY <1>5, <3>1, <4>1, <4>2
        <3>2. CASE k = n + 1
            <4>1. n # 0 => k # 1 /\ k - 1 = n /\ n \in 1 .. n
                BY <1>1, <3>2
            <4>2. trades'[k].before = IF n = 0 THEN 0 ELSE trades[n].after
                BY <1>3, <1>7, <3>2
            <4>3. n = 0 => k = 1
                BY <3>2
            <4>4. n # 0 => trades'[k - 1].after = trades[n].after
                BY <1>5, <4>1
            <4> QED BY <4>1, <4>2, <4>3, <4>4
        <3> QED BY <1>1, <3>1, <3>2
    <2>2. ASSUME NEW j \in 1 .. (n + 1), NEW k \in 1 .. (n + 1), j <= k PROVE trades'[j].at <= trades'[k].at
        <3>1. CASE k \in 1 .. n
            <4>1. j \in 1 .. n
                BY <1>1, <2>2, <3>1
            <4> QED BY <1>a, <1>1, <1>5, <2>2, <3>1, <4>1 DEF Chained
        <3>2. CASE k = n + 1 /\ j \in 1 .. n
            BY <1>5, <1>6, <1>7, <3>2
        <3>3. CASE k = n + 1 /\ j = n + 1
            <4>1. at \in Int
                BY WideAssumption
            <4> QED BY <1>7, <3>3, <4>1
        <3> QED BY <1>1, <3>1, <3>2, <3>3
    <2> QED BY <1>5, <2>1, <2>2 DEF Chained
<1>9. arriving' \in Seq(Nat) /\ \A i \in DOMAIN arriving' : arriving'[i] \in DOMAIN trades'
    <2>1. CASE arriving' = arriving
        BY <1>a, <1>1, <1>5, <2>1 DEF LaneShape, LinesFit
    <2>2. CASE arriving' = Append(arriving, n + 1)
        <3>1. /\ arriving' \in Seq(Nat) /\ Len(arriving') = Len(arriving) + 1 /\ arriving'[Len(arriving) + 1] = n + 1
              /\ \A i \in 1 .. Len(arriving) : arriving'[i] = arriving[i]
            BY <1>a, <1>1, <2>2, AppendProperties, LenProperties DEF LaneShape
        <3>2. DOMAIN arriving' = 1 .. (Len(arriving) + 1) /\ Len(arriving) \in Nat /\ DOMAIN arriving = 1 .. Len(arriving)
            BY <1>a, <3>1, LenProperties, LaneRanges
        <3> QED BY <1>a, <1>1, <1>5, <3>1, <3>2 DEF LinesFit
    <2> QED BY <2>1, <2>2 DEF WideTrade
<1>10. LaneShape'
    BY <1>a, <1>5, <1>9 DEF LaneShape
<1>11. LinesFit'
    <2>1. DOMAIN trades \subseteq DOMAIN trades'
        BY <1>1, <1>5
    <2> QED BY <1>a, <1>1, <1>5, <1>9, <2>1 DEF LinesFit, Passed, Known
<1> QED BY <1>a, <1>8, <1>10, <1>11, EnricherPartStays DEF LaneInv

LEMMA LinkKeeps ==
    ASSUME LaneInv, WideLost \/ WideReconnect \/ CollectorRestarts \/ Ignore
    PROVE  LaneInv'
<1>a. LaneShape /\ Chained /\ LinesFit /\ UNCHANGED <<trades, lines, enricher, saved, official, stale>>
    BY DEF LaneInv, WideLost, WideReconnect, CollectorRestarts, Ignore
<1>1. Len(trades) \in Nat /\ DOMAIN trades = 1 .. Len(trades)
    BY <1>a, LaneRanges
<1>2. /\ arriving' \in Seq(Nat) /\ \A i \in DOMAIN arriving' : arriving'[i] \in DOMAIN trades
      /\ link' \in {"up", "down"}
    <2>1. CASE arriving' = <<>> /\ link' = "down"
        BY <2>1, EmptySeq
    <2>2. CASE WideReconnect
        <3> DEFINE n == Min2(RecentWide, Len(trades))
        <3>1. n \in Nat /\ n <= Len(trades)
            BY <1>1, WideAssumption DEF Min2
        <3> HIDE DEF n
        <3>2. arriving' = [i \in 1 .. n |-> Len(trades) - n + i] /\ link' = "up"
            BY <2>2 DEF WideReconnect, n
        <3>3. \A i \in 1 .. n : Len(trades) - n + i \in 1 .. Len(trades)
            BY <1>1, <3>1
        <3> QED BY <1>1, <3>1, <3>2, <3>3, IsASeq
    <2>3. CASE Ignore
        <3>1. arriving' = Tail(arriving) /\ arriving # <<>> /\ link' = link
            BY <2>3 DEF Ignore
        <3>2. arriving' \in Seq(Nat) /\ Len(arriving') = Len(arriving) - 1 /\ \A i \in 1 .. Len(arriving') : arriving'[i] = arriving[i + 1]
            BY <1>a, <3>1, HeadTailProperties DEF LaneShape
        <3>3. DOMAIN arriving' = 1 .. Len(arriving') /\ Len(arriving) \in Nat /\ DOMAIN arriving = 1 .. Len(arriving)
            BY <1>a, <3>2, LenProperties, LaneRanges
        <3> QED BY <1>a, <3>1, <3>2, <3>3 DEF LinesFit, LaneShape
    <2> QED BY <2>1, <2>2, <2>3 DEF WideLost, CollectorRestarts
<1>3. CASE CollectorRestarts
    <2>1. known' = {} /\ began' = Len(trades) + 1
        BY <1>3 DEF CollectorRestarts
    <2>2. LaneShape' /\ Chained'
        BY <1>a, <1>1, <1>2, <2>1 DEF LaneShape, Chained
    <2>3. LinesFit'
        BY <1>a, <1>1, <1>2, <2>1 DEF LinesFit, Passed, Known
    <2> QED BY <1>a, <2>2, <2>3, EnricherPartStays DEF LaneInv
<1>4. CASE UNCHANGED <<began, known>>
    <2>1. LaneShape' /\ Chained' /\ LinesFit'
        BY <1>a, <1>2, <1>4 DEF LaneShape, Chained, LinesFit, Passed, Known
    <2> QED BY <1>a, <2>1, EnricherPartStays DEF LaneInv
<1> QED BY <1>3, <1>4 DEF WideLost, WideReconnect, Ignore


LEMMA RecordTradeKeeps == ASSUME LaneInv, RecordTrade PROVE LaneInv'
<1>a. /\ LaneShape /\ Chained /\ LinesFit /\ RowsFit /\ EnrichedOnce /\ EveryLineHandled
      /\ UNCHANGED <<trades, link, began, enricher, saved, official, stale>> /\ arriving # <<>>
      /\ ~Passed(Head(arriving)) /\ arriving' = Tail(arriving) /\ known' = known \cup {Head(arriving)}
    BY DEF LaneInv, RecordTrade
<1> DEFINE n == Len(lines)
           new == [trade |-> Head(arriving), whole |-> FALSE]
<1>1. n \in Nat /\ DOMAIN lines = 1 .. n
    BY <1>a, LaneRanges
<1>2. /\ arriving' \in Seq(Nat) /\ Len(arriving') = Len(arriving) - 1 /\ Head(arriving) = arriving[1]
      /\ \A i \in 1 .. Len(arriving') : arriving'[i] = arriving[i + 1]
    BY <1>a, HeadTailProperties DEF LaneShape
<1>3. DOMAIN arriving' = 1 .. Len(arriving') /\ Len(arriving) \in Nat /\ DOMAIN arriving = 1 .. Len(arriving) /\ 1 \in DOMAIN arriving
    BY <1>a, <1>2, LenProperties, LaneRanges, EmptySeq DEF LaneShape
<1>4. Head(arriving) \in DOMAIN trades /\ \A i \in DOMAIN arriving' : arriving'[i] \in DOMAIN trades
    BY <1>a, <1>2, <1>3 DEF LinesFit
<1>5. new \in Line
    BY <1>4, <1>a, LaneRanges DEF Line
<1>6. /\ lines' \in Seq(Line) /\ Len(lines') = n + 1 /\ DOMAIN lines' = 1 .. (n + 1)
      /\ \A i \in 1 .. n : lines'[i] = lines[i]
      /\ lines'[n + 1] = new
    <2>1. lines' = Append(lines, new)
        BY DEF RecordTrade
    <2> HIDE DEF new
    <2> QED BY <1>a, <1>1, <1>5, <2>1, AppendProperties, LenProperties DEF LaneShape
<1>7. lines'[n + 1].trade = Head(arriving)
    BY <1>6
<1> HIDE DEF new
<1>8. LaneShape' /\ Chained'
    BY <1>a, <1>2, <1>6 DEF LaneShape, Chained
<1>9. LinesFit'
    <2>1. \A i \in 1 .. n : lines'[i].trade \in DOMAIN trades /\ (lines'[i].trade < began \/ lines'[i].trade \in known)
        BY <1>a, <1>1, <1>6 DEF LinesFit, Passed, Known
    <2>2. ~ Head(arriving) < began /\ Head(arriving) \notin known
        BY <1>a DEF Passed, Known
    <2>3. ASSUME NEW i \in 1 .. (n + 1)
          PROVE  lines'[i].trade \in DOMAIN trades /\ (lines'[i].trade < began \/ lines'[i].trade \in known')
        <3>1. i \in 1 .. n \/ i = n + 1
            BY <1>1
        <3> QED BY <1>a, <1>4, <1>7, <2>1, <3>1
    <2>4. ASSUME NEW i \in 1 .. (n + 1), NEW j \in 1 .. (n + 1), lines'[i].trade = lines'[j].trade PROVE i = j
        <3>1. (i \in 1 .. n \/ i = n + 1) /\ (j \in 1 .. n \/ j = n + 1)
            BY <1>1
        <3>2. CASE i \in 1 .. n /\ j \in 1 .. n
            BY <1>a, <1>1, <1>6, <2>4, <3>2 DEF LinesFit
        <3>3. CASE i \in 1 .. n /\ j = n + 1
            BY <1>7, <2>1, <2>2, <2>4, <3>3
        <3>4. CASE i = n + 1 /\ j \in 1 .. n
            BY <1>7, <2>1, <2>2, <2>4, <3>4
        <3> QED BY <3>1, <3>2, <3>3, <3>4
    <2> QED BY <1>a, <1>4, <1>6, <2>3, <2>4 DEF LinesFit, Passed, Known
<1>10. RowsFit'
    <2>1. DOMAIN lines \subseteq DOMAIN lines' /\ \A i \in DOMAIN lines : lines'[i] = lines[i]
        BY <1>1, <1>6
    <2>2. \A r \in DOMAIN official : \E i \in DOMAIN lines' :
              (i <= enricher.offset \/ i <= enricher.born) /\ official[r].trade = lines'[i].trade
        BY <1>a, <2>1 DEF RowsFit
    <2>3. Next1' = Next1 /\ Next1 \in Nat /\ enricher.offset \in Nat /\ enricher.born \in Nat
        BY <1>a, LaneRanges DEF Next1
    <2> QED BY <1>a, <1>1, <1>6, <2>2, <2>3 DEF RowsFit
<1>11. EnrichedOnce'
    BY <1>a DEF EnrichedOnce
<1>12. EveryLineHandled'
    <2>1. \A i \in enricher.born + 1 .. enricher.offset : lines'[i] = lines[i]
        <3>1. enricher.born \in Nat /\ enricher.offset \in Nat /\ enricher.offset <= n
            BY <1>a, LaneRanges DEF RowsFit
        <3> QED BY <1>1, <1>6, <3>1
    <2> QED BY <1>a, <2>1 DEF EveryLineHandled
<1> QED BY <1>8, <1>9, <1>10, <1>11, <1>12 DEF LaneInv

LEMMA LineIsWholeKeeps == ASSUME LaneInv, LineIsWhole PROVE LaneInv'
<1>a. /\ LaneShape /\ Chained /\ LinesFit /\ RowsFit /\ EnrichedOnce /\ EveryLineHandled
      /\ UNCHANGED <<trades, arriving, link, began, known, enricher, saved, official, stale>>
      /\ lines' = [i \in DOMAIN lines |-> [lines[i] EXCEPT !.whole = TRUE]]
    BY DEF LaneInv, LineIsWhole
<1>1. Len(lines) \in Nat /\ DOMAIN lines = 1 .. Len(lines) /\ \A i \in DOMAIN lines : lines[i] \in Line
    BY <1>a, LaneRanges
<1>2. DOMAIN lines' = DOMAIN lines
    BY <1>a
<1>3. \A i \in DOMAIN lines : lines'[i] \in Line /\ lines'[i].trade = lines[i].trade
    BY <1>a, <1>1 DEF Line
<1>4. lines' \in Seq(Line) /\ Len(lines') = Len(lines)
    <2>1. lines' = [i \in 1 .. Len(lines) |-> lines'[i]]
        BY <1>a, <1>1
    <2> QED BY <1>1, <1>2, <1>3, <2>1, IsASeq, LenProperties
<1>5. LaneShape' /\ Chained'
    BY <1>a, <1>4 DEF LaneShape, Chained
<1>6. LinesFit'
    BY <1>a, <1>2, <1>3 DEF LinesFit, Passed, Known
<1>7. RowsFit' /\ EnrichedOnce'
    BY <1>a, <1>2, <1>3, <1>4 DEF RowsFit, EnrichedOnce, Next1
<1>8. EveryLineHandled'
    <2>1. \A i \in enricher.born + 1 .. enricher.offset : i \in DOMAIN lines
        BY <1>a, <1>1, LaneRanges DEF RowsFit
    <2> QED BY <1>a, <1>3, <2>1 DEF EveryLineHandled
<1> QED BY <1>5, <1>6, <1>7, <1>8 DEF LaneInv

(* The enricher moves on, without a row. *)
LEMMA EnricherMoves ==
    ASSUME LaneInv, UNCHANGED <<trades, arriving, link, began, known, lines, official>>,
           enricher' \in [at : {"idle", "draining", "asking"}, offset : Nat, tries : Nat, born : Nat],
           saved' \in Nat, saved' <= enricher'.offset, enricher'.offset <= Len(lines), enricher'.born <= Len(lines),
           enricher'.tries < Retries, enricher'.at = "asking" => enricher'.born < Next1' /\ Next1' <= Len(lines),
           enricher.offset <= enricher'.offset \/ enricher'.born = Len(lines), enricher.born <= enricher'.born,
           EveryLineHandled'
    PROVE  LaneInv'
<1>a. /\ LaneShape /\ Chained /\ LinesFit /\ RowsFit /\ EnrichedOnce
      /\ UNCHANGED <<trades, arriving, link, began, known, lines, official>>
    BY DEF LaneInv
<1>1. LaneShape'
    BY <1>a DEF LaneShape
<1>2. ASSUME NEW r \in DOMAIN official
      PROVE  \E i \in DOMAIN lines : (i <= enricher'.offset \/ i <= enricher'.born) /\ official[r].trade = lines[i].trade
    <2>1. PICK i \in DOMAIN lines : (i <= enricher.offset \/ i <= enricher.born) /\ official[r].trade = lines[i].trade
        BY <1>a DEF RowsFit
    <2>2. /\ i \in 1 .. Len(lines) /\ enricher.offset \in Nat /\ enricher.born \in Nat /\ Len(lines) \in Nat
          /\ enricher'.offset \in Nat /\ enricher'.born \in Nat
        BY <1>a, LaneRanges
    <2>3. i <= enricher'.offset \/ i <= enricher'.born
        BY <2>1, <2>2
    <2> QED BY <2>1, <2>3
<1>3. RowsFit'
    BY <1>a, <1>2 DEF RowsFit
<1>4. EnrichedOnce'
    BY <1>a DEF EnrichedOnce
<1> QED BY <1>a, <1>1, <1>3, <1>4, CaptureStepStays DEF LaneInv

LEMMA PassesKeep == ASSUME LaneInv, PassLine \/ PassStale \/ Enrich \/ DrainEnds \/ EnricherRestarts PROVE LaneInv'
<1>a. /\ LaneShape /\ LinesFit /\ RowsFit /\ EveryLineHandled
      /\ UNCHANGED <<trades, arriving, link, began, known, lines, official>>
    BY DEF LaneInv, PassLine, PassStale, Enrich, DrainEnds, EnricherRestarts
<1>b. /\ enricher \in [at : {"idle", "draining", "asking"}, offset : Nat, tries : Nat, born : Nat] /\ saved \in Nat
      /\ saved <= enricher.offset /\ enricher.offset <= Len(lines) /\ enricher.born <= Len(lines) /\ enricher.tries < Retries
      /\ Len(lines) \in Nat /\ Next1 = enricher.offset + 1 /\ Retries \in Nat \ {0}
      /\ enricher.offset \in Nat /\ enricher.born \in Nat
    BY <1>a, LaneRanges DEF LaneShape, RowsFit
<1>o. PICK o \in Nat : o = enricher.offset + 1
    BY <1>b
<1>1. CASE PassLine
    <2>1. /\ enricher' = [enricher EXCEPT !.at = "draining", !.offset = o] /\ saved' = saved /\ stale' = stale
          /\ Next1 <= Len(lines) /\ lines[Next1].whole /\ (Next1 <= enricher.born \/ ~lines[Next1].whole)
        BY <1>1, <1>o DEF PassLine, Readable, Prestart
    <2>2. /\ enricher' \in [at : {"idle", "draining", "asking"}, offset : Nat, tries : Nat, born : Nat]
          /\ enricher'.at = "draining" /\ enricher'.offset = o /\ enricher'.born = enricher.born /\ enricher'.tries = enricher.tries
        BY <1>b, <2>1
    <2>3. EveryLineHandled'
        <3>1. \A i \in enricher.born + 1 .. o : FALSE
            BY <1>b, <1>o, <2>1
        <3> QED BY <2>2, <3>1 DEF EveryLineHandled
    <2> QED BY <1>a, <1>b, <1>o, <2>1, <2>2, <2>3, EnricherMoves
<1>2. CASE PassStale
    <2>1. /\ enricher' = [enricher EXCEPT !.at = "draining", !.offset = o] /\ saved' = saved
          /\ stale' = stale \cup {Next1} /\ Next1 <= Len(lines)
        BY <1>2, <1>o DEF PassStale, Readable
    <2>2. /\ enricher' \in [at : {"idle", "draining", "asking"}, offset : Nat, tries : Nat, born : Nat]
          /\ enricher'.at = "draining" /\ enricher'.offset = o /\ enricher'.born = enricher.born /\ enricher'.tries = enricher.tries
        BY <1>b, <2>1
    <2>3. EveryLineHandled'
        <3>1. \A i \in enricher.born + 1 .. o : i \in enricher.born + 1 .. enricher.offset \/ i = Next1
            BY <1>b, <1>o
        <3> QED BY <1>a, <2>1, <2>2, <3>1 DEF EveryLineHandled
    <2> QED BY <1>a, <1>b, <1>o, <2>1, <2>2, <2>3, EnricherMoves
<1>3. CASE Enrich
    <2>1. /\ enricher' = [enricher EXCEPT !.at = "asking", !.tries = 0] /\ saved' = saved /\ stale' = stale
          /\ Next1 <= Len(lines) /\ ~ Next1 <= enricher.born
        BY <1>3 DEF Enrich, Readable, Prestart
    <2>2. /\ enricher' \in [at : {"idle", "draining", "asking"}, offset : Nat, tries : Nat, born : Nat]
          /\ enricher'.at = "asking" /\ enricher'.offset = enricher.offset /\ enricher'.born = enricher.born /\ enricher'.tries = 0
        BY <1>b, <2>1
    <2>3. EveryLineHandled'
        BY <1>a, <2>1, <2>2 DEF EveryLineHandled
    <2>4. Next1' = Next1
        BY <2>2 DEF Next1
    <2> QED BY <1>a, <1>b, <2>1, <2>2, <2>3, <2>4, EnricherMoves
<1>4. CASE DrainEnds
    <2>1. /\ enricher' = [enricher EXCEPT !.at = "idle"] /\ saved' = enricher.offset /\ stale' = stale
        BY <1>4 DEF DrainEnds
    <2>2. /\ enricher' \in [at : {"idle", "draining", "asking"}, offset : Nat, tries : Nat, born : Nat]
          /\ enricher'.at = "idle" /\ enricher'.offset = enricher.offset /\ enricher'.born = enricher.born /\ enricher'.tries = enricher.tries
        BY <1>b, <2>1
    <2>3. EveryLineHandled'
        BY <1>a, <2>1, <2>2 DEF EveryLineHandled
    <2> QED BY <1>a, <1>b, <2>1, <2>2, <2>3, EnricherMoves
<1>5. CASE EnricherRestarts
    <2>1. /\ enricher' = [at |-> "idle", offset |-> saved, tries |-> 0, born |-> Len(lines)] /\ saved' = saved
        BY <1>5 DEF EnricherRestarts, Checkpoint
    <2>2. /\ enricher' \in [at : {"idle", "draining", "asking"}, offset : Nat, tries : Nat, born : Nat]
          /\ enricher'.at = "idle" /\ enricher'.offset = saved /\ enricher'.born = Len(lines) /\ enricher'.tries = 0
        BY <1>b, <2>1
    <2>3. EveryLineHandled'
        <3>1. \A i \in Len(lines) + 1 .. saved : FALSE
            BY <1>b
        <3> QED BY <2>2, <3>1 DEF EveryLineHandled
    <2> QED BY <1>a, <1>b, <2>1, <2>2, <2>3, EnricherMoves
<1> QED BY <1>1, <1>2, <1>3, <1>4, <1>5

(* A row is of a line that has none. *)
LEMMA RowWrittenKeeps ==
    ASSUME LaneInv, enricher.at = "asking", NEW kind \in {"fill", "miss"}, RowWritten(kind),
           UNCHANGED <<trades, arriving, link, began, known, lines, saved, stale>>
    PROVE  LaneInv'
<1>a. /\ LaneShape /\ Chained /\ LinesFit /\ RowsFit /\ EnrichedOnce /\ EveryLineHandled
      /\ UNCHANGED <<trades, arriving, link, began, known, lines, saved, stale>>
    BY DEF LaneInv
<1>b. /\ enricher \in [at : {"idle", "draining", "asking"}, offset : Nat, tries : Nat, born : Nat]
      /\ enricher.offset \in Nat /\ enricher.born \in Nat /\ Len(lines) \in Nat /\ DOMAIN lines = 1 .. Len(lines)
      /\ Next1 = enricher.offset + 1 /\ Next1 \in Nat /\ Next1 <= Len(lines) /\ enricher.born < Next1 /\ saved \in Nat
      /\ saved <= enricher.offset /\ Retries \in Nat \ {0}
      /\ Len(official) \in Nat /\ DOMAIN official = 1 .. Len(official)
    BY <1>a, LaneRanges DEF LaneShape, RowsFit
<1>c. Next1 \in DOMAIN lines /\ lines[Next1].trade \in Nat
    BY <1>a, <1>b, LaneRanges
<1> DEFINE n == Len(official)
           new == [trade |-> lines[Next1].trade, kind |-> kind]
<1>1. new \in [trade : Nat, kind : {"fill", "miss"}]
    BY <1>c
<1>2. /\ official' \in Seq([trade : Nat, kind : {"fill", "miss"}]) /\ DOMAIN official' = 1 .. (n + 1)
      /\ \A r \in 1 .. n : official'[r] = official[r]
      /\ official'[n + 1] = new
    <2>1. official' = Append(official, new)
        BY DEF RowWritten
    <2> HIDE DEF new
    <2> QED BY <1>a, <1>b, <1>1, <2>1, AppendProperties, LenProperties DEF LaneShape
<1>3. official'[n + 1].trade = lines[Next1].trade
    BY <1>2
<1> HIDE DEF new
<1>4. enricher' = [enricher EXCEPT !.at = "draining", !.offset = Next1, !.tries = 0]
    BY <1>b DEF RowWritten
<1>5. /\ enricher' \in [at : {"idle", "draining", "asking"}, offset : Nat, tries : Nat, born : Nat]
      /\ enricher'.at = "draining" /\ enricher'.offset = Next1 /\ enricher'.born = enricher.born /\ enricher'.tries = 0
    BY <1>b, <1>4
<1>6. LaneShape'
    BY <1>a, <1>2, <1>5 DEF LaneShape
<1>7. \A r \in 1 .. n : official[r].trade # lines[Next1].trade
    <2> SUFFICES ASSUME NEW r \in 1 .. n, official[r].trade = lines[Next1].trade PROVE FALSE
        OBVIOUS
    <2>1. PICK i \in DOMAIN lines : (i <= enricher.offset \/ i <= enricher.born) /\ official[r].trade = lines[i].trade
        BY <1>a, <1>b DEF RowsFit
    <2>2. i # Next1
        BY <1>b, <2>1
    <2> QED BY <1>a, <1>c, <2>1, <2>2 DEF LinesFit
<1>8. EnrichedOnce'
    <2>1. ASSUME NEW i \in 1 .. (n + 1), NEW j \in 1 .. (n + 1), official'[i].trade = official'[j].trade PROVE i = j
        <3>1. (i \in 1 .. n \/ i = n + 1) /\ (j \in 1 .. n \/ j = n + 1)
            BY <1>b
        <3>2. CASE i \in 1 .. n /\ j \in 1 .. n
            BY <1>a, <1>b, <1>2, <2>1, <3>2 DEF EnrichedOnce
        <3>3. CASE i \in 1 .. n /\ j = n + 1
            BY <1>2, <1>3, <1>7, <2>1, <3>3
        <3>4. CASE i = n + 1 /\ j \in 1 .. n
            BY <1>2, <1>3, <1>7, <2>1, <3>4
        <3> QED BY <3>1, <3>2, <3>3, <3>4
    <2> QED BY <1>2, <2>1 DEF EnrichedOnce
<1>9. RowsFit'
    <2>1. ASSUME NEW r \in 1 .. (n + 1)
          PROVE  \E i \in DOMAIN lines : (i <= Next1 \/ i <= enricher.born) /\ official'[r].trade = lines[i].trade
        <3>1. CASE r = n + 1
            BY <1>b, <1>c, <1>3, <3>1
        <3>2. CASE r \in 1 .. n
            <4>1. PICK i \in DOMAIN lines : (i <= enricher.offset \/ i <= enricher.born) /\ official[r].trade = lines[i].trade
                BY <1>a, <1>b, <3>2 DEF RowsFit
            <4>2. i <= Next1 \/ i <= enricher.born
                BY <1>b, <4>1
            <4> QED BY <1>2, <3>2, <4>1, <4>2
        <3> QED BY <1>b, <3>1, <3>2
    <2>2. saved <= Next1 /\ enricher.born <= Len(lines) /\ 0 < Retries
        BY <1>b
    <2>3. enricher'.tries < Retries' /\ saved' <= enricher'.offset /\ enricher'.offset <= Len(lines') /\ enricher'.born <= Len(lines')
        BY <1>a, <1>b, <1>5, <2>2
    <2>4. \A r \in DOMAIN official' : \E i \in DOMAIN lines' :
              (i <= enricher'.offset \/ i <= enricher'.born) /\ official'[r].trade = lines'[i].trade
        BY <1>a, <1>2, <1>5, <2>1
    <2>5. enricher'.at # "asking"
        BY <1>5
    <2> QED BY <2>3, <2>4, <2>5 DEF RowsFit
<1>10. EveryLineHandled'
    <2>1. ASSUME NEW i \in enricher.born + 1 .. Next1
          PROVE  i \in stale \/ \E r \in DOMAIN official' : official'[r].trade = lines[i].trade
        <3>1. CASE i = Next1
            <4>1. n + 1 \in DOMAIN official'
                BY <1>b, <1>2
            <4> QED BY <1>3, <3>1, <4>1
        <3>2. CASE i # Next1
            <4>1. i \in enricher.born + 1 .. enricher.offset
                BY <1>b, <3>2
            <4>2. i \in stale \/ \E r \in 1 .. n : official[r].trade = lines[i].trade
                BY <1>a, <1>b, <4>1 DEF EveryLineHandled
            <4>3. \A r \in 1 .. n : r \in DOMAIN official'
                BY <1>b, <1>2
            <4> QED BY <1>2, <4>2, <4>3
        <3> QED BY <3>1, <3>2
    <2> QED BY <1>a, <1>5, <2>1 DEF EveryLineHandled
<1> QED BY <1>a, <1>6, <1>8, <1>9, <1>10, CaptureStepStays DEF LaneInv

LEMMA AnswersKeep == ASSUME LaneInv, AskFound \/ AskFails PROVE LaneInv'
<1>a. /\ LaneShape /\ RowsFit /\ EveryLineHandled /\ enricher.at = "asking"
      /\ UNCHANGED <<trades, arriving, link, began, known, lines, saved, stale>>
    BY DEF LaneInv, AskFound, AskFails
<1>1. CASE RowWritten("fill") \/ RowWritten("miss")
    BY <1>a, <1>1, RowWrittenKeeps
<1>2. CASE AskFails /\ Tried < Retries
    <2>1. enricher' = [enricher EXCEPT !.tries = (enricher.tries + 1) % Retries] /\ official' = official /\ enricher.tries + 1 < Retries
        BY <1>2 DEF AskFails, Tried
    <2>b. /\ enricher \in [at : {"idle", "draining", "asking"}, offset : Nat, tries : Nat, born : Nat] /\ saved \in Nat
          /\ saved <= enricher.offset /\ enricher.offset <= Len(lines) /\ enricher.born <= Len(lines)
          /\ enricher.born < Next1 /\ Next1 <= Len(lines)
          /\ enricher.tries \in Nat /\ Retries \in Nat \ {0} /\ enricher.offset \in Nat /\ enricher.born \in Nat
        BY <1>a, LaneRanges DEF LaneShape, RowsFit
    <2>2. (enricher.tries + 1) % Retries \in Nat /\ (enricher.tries + 1) % Retries < Retries
        BY <2>b
    <2>3. /\ enricher' \in [at : {"idle", "draining", "asking"}, offset : Nat, tries : Nat, born : Nat]
          /\ enricher'.at = "asking" /\ enricher'.offset = enricher.offset /\ enricher'.born = enricher.born /\ enricher'.tries < Retries
        BY <1>a, <2>1, <2>2, <2>b
    <2>4. EveryLineHandled' /\ Next1' = Next1
        BY <1>a, <2>1, <2>3 DEF EveryLineHandled, Next1
    <2> QED BY <1>a, <2>1, <2>3, <2>4, <2>b, EnricherMoves
<1> QED BY <1>1, <1>2 DEF AskFound, AskFails

LEMMA LaneStep == LaneInv /\ [WideNext]_wlVars => LaneInv'
<1> SUFFICES ASSUME LaneInv, [WideNext]_wlVars PROVE LaneInv'
    OBVIOUS
<1>1. CASE UNCHANGED wlVars
    <2>1. UNCHANGED <<trades, arriving, link, began, known, lines, enricher, saved, official, stale>>
        BY <1>1 DEF wlVars
    <2> QED BY <2>1, EnricherPartStays, CaptureStepStays DEF LaneInv, LaneShape
<1>2. CASE WideNext
    BY <1>2, WideTradeKeeps, LinkKeeps, RecordTradeKeeps, LineIsWholeKeeps, PassesKeep, AnswersKeep DEF WideNext, EnricherStep
<1> QED BY <1>1, <1>2

-----------------------------------------------------------------------------
(* The walk over the milliseconds that pairs signals into episodes. *)

Episode == [open : Nat, found : SUBSET (Nat \X Nat)]
Start == [open |-> 0, found |-> {}]
Walk[t \in 0 .. MaxTicks] == IF t = 0 THEN Start ELSE InOrder(Walk[t - 1], t)
WalksTo(f, n) == f = [t \in 0 .. n |-> IF t = 0 THEN Start ELSE InOrder(f[t - 1], t)]

LEMMA WalkExists == ASSUME NEW n \in Nat PROVE \E f : WalksTo(f, n)
<1> DEFINE walked == {m \in Nat : \E f : WalksTo(f, m)}
<1>1. 0 \in walked
    <2> DEFINE f == [t \in 0 .. 0 |-> Start]
    <2>1. f = [t \in 0 .. 0 |-> IF t = 0 THEN Start ELSE InOrder(f[t - 1], t)]
        OBVIOUS
    <2> HIDE DEF f
    <2> QED BY <2>1 DEF WalksTo
<1>2. ASSUME NEW m \in 0 .. n, m \in walked, m < n PROVE m + 1 \in walked
    <2>1. PICK f : f = [t \in 0 .. m |-> IF t = 0 THEN Start ELSE InOrder(f[t - 1], t)]
        BY <1>2 DEF WalksTo
    <2> DEFINE g == [t \in 0 .. (m + 1) |-> IF t = 0 THEN Start ELSE InOrder(f[t - 1], t)]
    <2>2. \A t \in 0 .. m : g[t] = f[t]
        BY <2>1
    <2>3. \A t \in 0 .. (m + 1) : t # 0 => t - 1 \in 0 .. m
        OBVIOUS
    <2>4. g = [t \in 0 .. (m + 1) |-> IF t = 0 THEN Start ELSE InOrder(g[t - 1], t)]
        BY <2>2, <2>3
    <2> HIDE DEF g
    <2> QED BY <2>4 DEF WalksTo
<1> HIDE DEF walked
<1>3. n \in walked
    BY <1>1, <1>2, CountUp
<1> QED BY <1>3 DEF walked

LEMMA WalkSteps ==
    ASSUME LaneShape
    PROVE  /\ Walk[0] = Start /\ \A t \in 1 .. MaxTicks : Walk[t] = InOrder(Walk[t - 1], t)
           /\ Episodes = Walk[MaxTicks]
<1>1. MaxTicks \in Nat
    BY WideAssumption
<1>2. \E f : f = [t \in 0 .. MaxTicks |-> IF t = 0 THEN Start ELSE InOrder(f[t - 1], t)]
    BY <1>1, WalkExists DEF WalksTo
<1>3. Walk = [t \in 0 .. MaxTicks |-> IF t = 0 THEN Start ELSE InOrder(Walk[t - 1], t)]
    BY <1>2 DEF Walk
<1>4. Episodes = Walk[MaxTicks]
    BY DEF Episodes, Walk, Start
<1>5. 0 \in 0 .. MaxTicks /\ \A t \in 1 .. MaxTicks : t \in 0 .. MaxTicks /\ t # 0
    BY <1>1
<1> QED BY <1>3, <1>4, <1>5

(* What is told to close, and to open, in a millisecond. *)
Closing(o, t) == {k \in DOMAIN trades : trades[k].at = t /\ Told(k) /\ Closes(k) /\ SideHeld(o, k)}
Opening(t) == {k \in DOMAIN trades : trades[k].at = t /\ Told(k) /\ Opens(k)}

(* What a millisecond makes of the open one o and the episodes found. *)
Stepped(s, t, o, r) ==
    /\ r \in Episode
    /\ Opening(t) # {} => r.open \in Opening(t)
    /\ Opening(t) = {} => r.open = (IF Closing(o, t) # {} THEN 0 ELSE o)
    /\ Closing(o, t) # {} => \E c \in Closing(o, t) : (\A j \in Closing(o, t) : c <= j) /\ r.found = s.found \cup {<<o, c>>}
    /\ Closing(o, t) = {} => r.found = s.found

LEMMA StepOfWalk ==
    ASSUME LaneShape, NEW s \in Episode, NEW t
    PROVE  Stepped(s, t, s.open, InOrder(s, t))
<1>a. Len(trades) \in Nat /\ DOMAIN trades = 1 .. Len(trades)
    BY LaneRanges
<1> DEFINE closing == Closing(s.open, t)
           opening == Opening(t)
<1>1. closing # {} => Least(closing) \in closing /\ Least(closing) \in Nat /\ \A j \in closing : Least(closing) <= j
    <2>1. closing \subseteq Nat
        BY <1>a DEF Closing
    <2> HIDE DEF closing
    <2> QED BY <2>1, LeastNumber DEF Least
<1>2. opening # {} => Most(opening) \in opening /\ Most(opening) \in Nat
    <2>1. opening \subseteq 1 .. Len(trades)
        BY <1>a DEF Opening
    <2>2. \A k \in opening : k \in Nat
        BY <1>a, <2>1
    <2> HIDE DEF opening
    <2>3. opening # {} => \E m \in opening : \A k \in opening : m >= k
        BY <1>a, <2>1, GreatestNumber
    <2> QED BY <2>2, <2>3 DEF Most
<1> DEFINE c == CloseSignals(s, t)
<1>3. c = IF closing = {} THEN s ELSE [open |-> 0, found |-> s.found \cup {<<s.open, Least(closing)>>}]
    BY DEF CloseSignals, Closing
<1>4. InOrder(s, t) = IF opening = {} THEN c ELSE [c EXCEPT !.open = Most(opening)]
    BY DEF InOrder, OpenSignals, Opening
<1> HIDE DEF c, closing, opening
<1>5. s.open \in Nat /\ s.found \in SUBSET (Nat \X Nat)
    BY DEF Episode
<1>6. /\ c \in Episode
      /\ c.open = (IF closing # {} THEN 0 ELSE s.open)
      /\ c.found = (IF closing # {} THEN s.found \cup {<<s.open, Least(closing)>>} ELSE s.found)
    <2>1. CASE closing = {}
        BY <1>3, <2>1
    <2>2. CASE closing # {}
        <3>1. <<s.open, Least(closing)>> \in Nat \X Nat
            BY <1>1, <1>5, <2>2
        <3>2. c = [open |-> 0, found |-> s.found \cup {<<s.open, Least(closing)>>}]
            BY <1>3, <2>2
        <3> QED BY <1>5, <2>2, <3>1, <3>2 DEF Episode
    <2> QED BY <2>1, <2>2
<1>7. /\ InOrder(s, t) \in Episode
      /\ InOrder(s, t).open = (IF opening # {} THEN Most(opening) ELSE c.open)
      /\ InOrder(s, t).found = c.found
    BY <1>2, <1>4, <1>6 DEF Episode
<1>8. closing # {} => \E k \in closing : (\A j \in closing : k <= j) /\ InOrder(s, t).found = s.found \cup {<<s.open, k>>}
    BY <1>1, <1>6, <1>7
<1> QED BY <1>2, <1>6, <1>7, <1>8 DEF closing, opening, Stepped

LEMMA WalkTyped == ASSUME LaneShape PROVE \A t \in 0 .. MaxTicks : Walk[t] \in Episode
<1> DEFINE typed == {t \in 0 .. MaxTicks : Walk[t] \in Episode}
<1>1. MaxTicks \in Nat /\ 0 \in typed
    BY WideAssumption, WalkSteps DEF Episode, Start
<1>2. ASSUME NEW t \in 0 .. MaxTicks, t \in typed, t < MaxTicks PROVE t + 1 \in typed
    <2>1. t + 1 \in 1 .. MaxTicks /\ (t + 1) - 1 = t /\ t + 1 \in 0 .. MaxTicks
        BY <1>1, <1>2
    <2>2. Walk[t + 1] = InOrder(Walk[t], t + 1)
        BY <2>1, WalkSteps
    <2>3. Walk[t] \in Episode
        BY <1>2
    <2>4. Stepped(Walk[t], t + 1, Walk[t].open, Walk[t + 1])
        BY <2>2, <2>3, StepOfWalk
    <2> QED BY <2>1, <2>4 DEF Stepped
<1> HIDE DEF typed
<1>3. \A t \in 0 .. MaxTicks : t \in typed
    BY <1>1, <1>2, CountUp
<1> QED BY <1>3 DEF typed

(* One step of the walk, in terms of the one before it. *)
LEMMA NextOfWalk ==
    ASSUME LaneShape, NEW t \in 0 .. MaxTicks, t < MaxTicks
    PROVE  t + 1 \in 1 .. MaxTicks /\ Walk[t].open \in Nat /\ Stepped(Walk[t], t + 1, Walk[t].open, Walk[t + 1])
<1>1. MaxTicks \in Nat /\ t + 1 \in 1 .. MaxTicks /\ (t + 1) - 1 = t
    BY WideAssumption
<1>2. Walk[t + 1] = InOrder(Walk[t], t + 1) /\ Walk[t] \in Episode
    BY <1>1, WalkSteps, WalkTyped
<1>3. Walk[t].open \in Nat
    BY <1>2 DEF Episode
<1>4. Stepped(Walk[t], t + 1, Walk[t].open, Walk[t + 1])
    BY <1>2, StepOfWalk
<1> QED BY <1>1, <1>3, <1>4

(* The open that is remembered was told, and no signal told since then ends it. *)
Quiet(a, from, until) ==
    \A k \in DOMAIN trades : (Told(k) /\ from < trades[k].at /\ trades[k].at < until) => ~Opens(k) /\ ~(Closes(k) /\ SideHeld(a, k))
OpenFits(t) ==
    LET o == Walk[t].open IN
    o # 0 => /\ o \in DOMAIN trades /\ Told(o) /\ Opens(o) /\ trades[o].at <= t /\ Quiet(o, trades[o].at, t + 1)
FoundFits(t) ==
    \A a, b \in Nat : <<a, b>> \in Walk[t].found =>
        /\ a \in DOMAIN trades /\ b \in DOMAIN trades /\ Told(a) /\ Told(b) /\ Opens(a) /\ Closes(b) /\ SideHeld(a, b)
        /\ trades[a].at < trades[b].at /\ Quiet(a, trades[a].at, trades[b].at)

LEMMA OpensFit == ASSUME LaneShape PROVE \A t \in 0 .. MaxTicks : OpenFits(t)
<1> DEFINE fit == {t \in 0 .. MaxTicks : OpenFits(t)}
<1>1. MaxTicks \in Nat /\ 0 \in fit
    <2>1. Walk[0].open = 0
        BY WalkSteps DEF Start
    <2> QED BY <2>1, WideAssumption DEF OpenFits
<1>2. ASSUME NEW t \in 0 .. MaxTicks, t \in fit, t < MaxTicks PROVE t + 1 \in fit
    <2> DEFINE o == Walk[t].open
               n == Walk[t + 1].open
    <2>1. /\ t + 1 \in 1 .. MaxTicks /\ t + 1 \in 0 .. MaxTicks /\ t \in Nat
          /\ Opening(t + 1) = {} => n = (IF Closing(o, t + 1) # {} THEN 0 ELSE o)
          /\ Opening(t + 1) # {} => n \in Opening(t + 1)
        BY <1>1, <1>2, NextOfWalk DEF Stepped
    <2>2. o # 0 => /\ o \in DOMAIN trades /\ Told(o) /\ Opens(o) /\ trades[o].at <= t /\ Quiet(o, trades[o].at, t + 1)
        BY <1>2 DEF OpenFits
    <2>3. \A k \in DOMAIN trades : trades[k].at \in Nat
        BY LaneRanges
    <2> HIDE DEF o, n
    <2>4. n # 0 => /\ n \in DOMAIN trades /\ Told(n) /\ Opens(n) /\ trades[n].at <= t + 1 /\ Quiet(n, trades[n].at, (t + 1) + 1)
        <3>1. CASE Opening(t + 1) # {}
            <4>1. n \in DOMAIN trades /\ trades[n].at = t + 1 /\ Told(n) /\ Opens(n)
                BY <2>1, <3>1 DEF Opening
            <4>2. Quiet(n, t + 1, (t + 1) + 1)
                BY <2>1, <2>3 DEF Quiet
            <4> QED BY <2>1, <4>1, <4>2
        <3>2. CASE Opening(t + 1) = {} /\ Closing(o, t + 1) # {}
            BY <2>1, <3>2
        <3>3. CASE Opening(t + 1) = {} /\ Closing(o, t + 1) = {}
            <4> SUFFICES ASSUME o # 0
                         PROVE  o \in DOMAIN trades /\ Told(o) /\ Opens(o) /\ trades[o].at <= t + 1 /\ Quiet(o, trades[o].at, (t + 1) + 1)
                BY <2>1, <3>3
            <4>1. ASSUME NEW k \in DOMAIN trades, Told(k), trades[o].at < trades[k].at, trades[k].at < (t + 1) + 1
                  PROVE  ~Opens(k) /\ ~(Closes(k) /\ SideHeld(o, k))
                <5>1. CASE trades[k].at = t + 1
                    BY <3>3, <4>1, <5>1 DEF Opening, Closing
                <5>2. CASE trades[k].at # t + 1
                    <6>1. trades[k].at < t + 1
                        BY <2>1, <2>3, <4>1, <5>2
                    <6> QED BY <2>2, <4>1, <6>1 DEF Quiet
                <5> QED BY <5>1, <5>2
            <4>2. trades[o].at <= t + 1
                BY <2>1, <2>2, <2>3
            <4> QED BY <2>2, <4>1, <4>2 DEF Quiet
        <3> QED BY <3>1, <3>2, <3>3
    <2> QED BY <2>1, <2>4 DEF OpenFits, n
<1> HIDE DEF fit
<1>3. \A t \in 0 .. MaxTicks : t \in fit
    BY <1>1, <1>2, CountUp
<1> QED BY <1>3 DEF fit

LEMMA FoundsFit == ASSUME LaneShape PROVE \A t \in 0 .. MaxTicks : FoundFits(t)
<1> DEFINE fit == {t \in 0 .. MaxTicks : FoundFits(t)}
<1>1. MaxTicks \in Nat /\ 0 \in fit
    <2>1. Walk[0].found = {}
        BY WalkSteps DEF Start
    <2> QED BY <2>1, WideAssumption DEF FoundFits
<1>2. ASSUME NEW t \in 0 .. MaxTicks, t \in fit, t < MaxTicks PROVE t + 1 \in fit
    <2> DEFINE o == Walk[t].open
    <2>0. PICK b : /\ Closing(o, t + 1) # {} => b \in Closing(o, t + 1) /\ Walk[t + 1].found = Walk[t].found \cup {<<o, b>>}
                   /\ Closing(o, t + 1) = {} => Walk[t + 1].found = Walk[t].found
        <3>0. Stepped(Walk[t], t + 1, o, Walk[t + 1])
            BY <1>2, NextOfWalk
        <3> HIDE DEF o
        <3>1. CASE Closing(o, t + 1) # {}
            BY <3>0, <3>1 DEF Stepped
        <3>2. CASE Closing(o, t + 1) = {}
            BY <3>0, <3>2 DEF Stepped
        <3> QED BY <3>1, <3>2
    <2>1. t + 1 \in 1 .. MaxTicks /\ t + 1 \in 0 .. MaxTicks /\ t \in Nat
        BY <1>1, <1>2
    <2>2. o # 0 => /\ o \in DOMAIN trades /\ Told(o) /\ Opens(o) /\ trades[o].at <= t /\ Quiet(o, trades[o].at, t + 1)
        BY OpensFit, <1>2 DEF OpenFits
    <2>3. \A k \in DOMAIN trades : trades[k].at \in Nat
        BY LaneRanges
    <2> HIDE DEF o
    <2>4. Closing(o, t + 1) # {} =>
            /\ o \in DOMAIN trades /\ b \in DOMAIN trades /\ Told(o) /\ Told(b) /\ Opens(o) /\ Closes(b) /\ SideHeld(o, b)
            /\ trades[o].at < trades[b].at /\ Quiet(o, trades[o].at, trades[b].at)
        <3> SUFFICES ASSUME Closing(o, t + 1) # {}
                     PROVE  /\ o \in DOMAIN trades /\ b \in DOMAIN trades /\ Told(o) /\ Told(b) /\ Opens(o) /\ Closes(b) /\ SideHeld(o, b)
                            /\ trades[o].at < trades[b].at /\ Quiet(o, trades[o].at, trades[b].at)
            OBVIOUS
        <3>1. b \in DOMAIN trades /\ trades[b].at = t + 1 /\ Told(b) /\ Closes(b) /\ SideHeld(o, b)
            BY <2>0 DEF Closing
        <3>2. o # 0
            BY <3>1 DEF SideHeld
        <3>3. trades[o].at < trades[b].at
            BY <2>1, <2>2, <2>3, <3>1, <3>2
        <3> QED BY <2>2, <3>1, <3>2, <3>3
    <2>5. ASSUME NEW c \in Nat, NEW d \in Nat, <<c, d>> \in Walk[t + 1].found
          PROVE  /\ c \in DOMAIN trades /\ d \in DOMAIN trades /\ Told(c) /\ Told(d) /\ Opens(c) /\ Closes(d) /\ SideHeld(c, d)
                 /\ trades[c].at < trades[d].at /\ Quiet(c, trades[c].at, trades[d].at)
        <3>1. CASE <<c, d>> \in Walk[t].found
            BY <1>2, <3>1 DEF FoundFits
        <3>2. CASE c = o /\ d = b /\ Closing(o, t + 1) # {}
            BY <2>4, <3>2
        <3> QED BY <2>0, <2>5, <3>1, <3>2
    <2> QED BY <2>1, <2>5 DEF FoundFits
<1> HIDE DEF fit
<1>3. \A t \in 0 .. MaxTicks : t \in fit
    BY <1>1, <1>2, CountUp
<1> QED BY <1>3 DEF fit

LEMMA FoundKept ==
    ASSUME LaneShape, NEW a, NEW b, NEW t \in 0 .. MaxTicks, <<a, b>> \in Walk[t].found
    PROVE  <<a, b>> \in Walk[MaxTicks].found
<1> DEFINE kept == {u \in 0 .. MaxTicks : <<a, b>> \in Walk[u].found}
<1>1. MaxTicks \in Nat /\ t \in Nat /\ t \in kept
    BY WideAssumption
<1>2. ASSUME NEW u \in t .. MaxTicks, u \in kept, u < MaxTicks PROVE u + 1 \in kept
    <2>1. u \in 0 .. MaxTicks /\ u + 1 \in 0 .. MaxTicks
        BY <1>1, <1>2
    <2>2. Stepped(Walk[u], u + 1, Walk[u].open, Walk[u + 1])
        BY <1>2, <2>1, NextOfWalk
    <2>3. Walk[u].found \subseteq Walk[u + 1].found
        BY <2>2 DEF Stepped
    <2> QED BY <1>2, <2>1, <2>3
<1> HIDE DEF kept
<1>3. MaxTicks \in kept
    <2>1. \A u \in t .. MaxTicks : u \in kept
        BY <1>1, <1>2, CountUp
    <2> QED BY <1>1, <2>1
<1> QED BY <1>3 DEF kept

(* A signal changes the side of the position, and nothing else does. *)
LEMMA Signs ==
    ASSUME LaneShape, NEW k \in DOMAIN trades
    PROVE  /\ Closes(k) <=> trades[k].before # 0 /\ Side(trades[k].before) # Side(trades[k].after)
           /\ Opens(k) <=> trades[k].after # 0 /\ (Side(trades[k].before) # Side(trades[k].after))
           /\ (trades[k].before = 0 <=> Side(trades[k].before) = 0) /\ (trades[k].after = 0 <=> Side(trades[k].after) = 0)
<1>1. trades[k].before \in Int /\ trades[k].after \in Int
    BY LaneRanges
<1>2. \A p, q \in Int : (p * q <= 0) <=> (p = 0 \/ q = 0 \/ Side(p) # Side(q))
    <2> SUFFICES ASSUME NEW p \in Int, NEW q \in Int PROVE (p * q <= 0) <=> (p = 0 \/ q = 0 \/ Side(p) # Side(q))
        OBVIOUS
    <2> QED BY DEF Side
<1>3. \A p \in Int : p = 0 <=> Side(p) = 0
    BY DEF Side
<1>4. \A p, q \in Int : (p = 0 /\ q # 0) \/ (p # 0 /\ q = 0) => Side(p) # Side(q)
    BY DEF Side
<1> QED BY <1>1, <1>2, <1>3, <1>4 DEF Closes, Opens

(* Until something closes, the position stays on the side it was opened on. *)
LEMMA SideStays ==
    ASSUME LaneShape, Chained, NEW a \in DOMAIN trades, NEW b \in DOMAIN trades, a <= b, trades[a].after # 0,
           \A k \in a + 1 .. b : ~Closes(k)
    PROVE  \A k \in a .. b : Side(trades[k].after) = Side(trades[a].after)
<1> DEFINE side == Side(trades[a].after)
           held == {k \in a .. b : Side(trades[k].after) = side}
<1>a. Len(trades) \in Nat /\ DOMAIN trades = 1 .. Len(trades)
    BY LaneRanges
<1>1. a \in Nat /\ b \in Nat /\ a \in held /\ a .. b \subseteq DOMAIN trades /\ side # 0
    BY <1>a, Signs
<1> HIDE DEF side
<1>2. ASSUME NEW k \in a .. b, k \in held, k < b PROVE k + 1 \in held
    <2>1. k + 1 \in a + 1 .. b /\ k + 1 \in a .. b /\ k + 1 # 1 /\ (k + 1) - 1 = k /\ k + 1 \in DOMAIN trades
        BY <1>a, <1>1, <1>2
    <2>2. trades[k + 1].before = trades[k].after
        BY <2>1 DEF Chained
    <2>3. ~Closes(k + 1) /\ Side(trades[k].after) = side
        BY <1>2, <2>1
    <2>4. trades[k + 1].before # 0
        BY <1>1, <2>1, <2>2, <2>3, Signs
    <2> QED BY <2>1, <2>2, <2>3, <2>4, Signs
<1> HIDE DEF held
<1>3. \A k \in a .. b : k \in held
    BY <1>1, <1>2, CountUp
<1> QED BY <1>3 DEF held, side

(* Trades between two that are alone in their milliseconds lie between those. *)
LEMMA BetweenInTime ==
    ASSUME LaneShape, Chained, NEW a \in DOMAIN trades, NEW b \in DOMAIN trades, Alone(a), Alone(b), NEW k \in DOMAIN trades
    PROVE  /\ (a < k /\ k < b) <=> (trades[a].at < trades[k].at /\ trades[k].at < trades[b].at)
           /\ a < b <=> trades[a].at < trades[b].at
<1>1. /\ \A j \in DOMAIN trades : trades[j].at \in Nat
      /\ a \in Nat /\ b \in Nat /\ k \in Nat
    BY LaneRanges
<1>2. \A i, j \in DOMAIN trades : i <= j => trades[i].at <= trades[j].at
    BY DEF Chained
<1>3. /\ a # k => trades[a].at # trades[k].at
      /\ b # k => trades[b].at # trades[k].at
      /\ a # b => trades[a].at # trades[b].at
    BY DEF Alone
<1> QED BY <1>1, <1>2, <1>3

(* A position whose fills were all told is found. *)
LEMMA LivesAreFound ==
    ASSUME LaneShape, Chained, NEW a, NEW b, <<a, b>> \in Lives, \A k \in a .. b : Told(k), Alone(a), Alone(b)
    PROVE  <<a, b>> \in Episodes.found
<1>a. /\ Len(trades) \in Nat /\ DOMAIN trades = 1 .. Len(trades) /\ MaxTicks \in Nat
      /\ \A k \in DOMAIN trades : trades[k].at \in 1 .. MaxTicks
    BY LaneRanges
<1>1. /\ a \in DOMAIN trades /\ b \in DOMAIN trades /\ a < b /\ Opens(a) /\ Closes(b)
      /\ \A k \in a + 1 .. b - 1 : ~Closes(k)
    BY DEF Lives
<1> DEFINE from == trades[a].at
           until == trades[b].at
<1>2. from < until /\ from \in 1 .. MaxTicks /\ until \in 1 .. MaxTicks
    BY <1>a, <1>1, BetweenInTime
<1>3. \A k \in a .. b - 1 : Side(trades[k].after) = Side(trades[a].after)
    <2>1. b - 1 \in DOMAIN trades /\ a <= b - 1
        BY <1>a, <1>1
    <2>2. trades[a].after # 0
        BY <1>1, Signs
    <2> DEFINE c == b - 1
    <2>3. c \in DOMAIN trades /\ a <= c /\ \A k \in a + 1 .. c : ~Closes(k)
        BY <1>1, <2>1
    <2> HIDE DEF c
    <2>4. \A k \in a .. c : Side(trades[k].after) = Side(trades[a].after)
        BY <1>1, <2>2, <2>3, SideStays
    <2> QED BY <2>4 DEF c
<1>4. ASSUME NEW k \in DOMAIN trades, a < k, k < b PROVE ~Opens(k) /\ ~Closes(k)
    <2>1. k - 1 \in a .. b - 1 /\ k \in a .. b - 1 /\ k # 1 /\ k \in a + 1 .. b - 1
        BY <1>a, <1>1, <1>4
    <2>2. trades[k].before = trades[k - 1].after
        BY <2>1 DEF Chained
    <2>3. Side(trades[k].before) = Side(trades[k].after)
        BY <1>3, <2>1, <2>2
    <2> QED BY <1>1, <2>1, <2>3, Signs
<1>5. SideHeld(a, b) /\ a # 0
    <2>1. b - 1 \in a .. b - 1 /\ b # 1 /\ a # 0
        BY <1>a, <1>1
    <2>2. trades[b].before = trades[b - 1].after
        BY <1>1, <2>1 DEF Chained
    <2> QED BY <1>3, <2>1, <2>2 DEF SideHeld
<1>6. Told(a) /\ Told(b)
    BY <1>a, <1>1
<1>7. Walk[from].open = a
    <2>1. from - 1 \in 0 .. MaxTicks /\ from - 1 < MaxTicks /\ (from - 1) + 1 = from
        BY <1>a, <1>2
    <2> HIDE DEF from
    <2>2. Stepped(Walk[from - 1], from, Walk[from - 1].open, Walk[from])
        BY <2>1, NextOfWalk
    <2>3. Opening(from) = {a}
        BY <1>1, <1>6 DEF Opening, Alone, from
    <2> QED BY <2>2, <2>3 DEF Stepped
<1> DEFINE remembered == {t \in from .. (until - 1) : Walk[t].open = a}
<1>8. ASSUME NEW t \in from .. (until - 1), t \in remembered, t < until - 1 PROVE t + 1 \in remembered
    <2>1. t \in 0 .. MaxTicks /\ t < MaxTicks /\ t + 1 \in from .. (until - 1) /\ from < t + 1 /\ t + 1 < until
        BY <1>a, <1>2, <1>8
    <2>2. Stepped(Walk[t], t + 1, a, Walk[t + 1])
        BY <1>8, <2>1, NextOfWalk
    <2>3. \A k \in DOMAIN trades : trades[k].at = t + 1 => a < k /\ k < b
        BY <1>1, <2>1, BetweenInTime
    <2>4. Opening(t + 1) = {} /\ Closing(a, t + 1) = {}
        BY <1>4, <2>3 DEF Opening, Closing
    <2> QED BY <2>1, <2>2, <2>4 DEF Stepped
<1>9. Walk[until - 1].open = a
    <2>1. from \in Nat /\ until - 1 \in Nat /\ until - 1 \in from .. (until - 1) /\ from \in remembered
        BY <1>2, <1>7
    <2> DEFINE last == until - 1
    <2>2. from \in Nat /\ last \in Nat /\ from \in remembered /\ last \in from .. last
          /\ \A t \in from .. last : (t \in remembered /\ t < last) => t + 1 \in remembered
        BY <1>8, <2>1
    <2> HIDE DEF last, from, remembered
    <2>3. last \in remembered
        BY <2>2, CountUp
    <2> QED BY <2>3 DEF remembered, last
<1>10. <<a, b>> \in Walk[until].found
    <2>1. until - 1 \in 0 .. MaxTicks /\ until - 1 < MaxTicks /\ (until - 1) + 1 = until
        BY <1>a, <1>2
    <2> HIDE DEF until
    <2>2. Stepped(Walk[until - 1], until, a, Walk[until])
        BY <1>9, <2>1, NextOfWalk
    <2>3. Closing(a, until) = {b}
        BY <1>1, <1>5, <1>6 DEF Closing, Alone, until
    <2> QED BY <2>2, <2>3 DEF Stepped
<1>11. until \in 0 .. MaxTicks
    BY <1>2
<1> QED BY <1>10, <1>11, FoundKept, WalkSteps

(* An episode that is no position is one of two that have an untold end or begin. *)
LEMMA FoundsAreLives ==
    ASSUME LaneShape, Chained, NEW a, NEW b, <<a, b>> \in Episodes.found, <<a, b>> \notin Lives, Alone(a), Alone(b)
    PROVE  \E k, m \in a .. b : k # m /\ ~Told(k) /\ ~Told(m)
<1>a. Len(trades) \in Nat /\ DOMAIN trades = 1 .. Len(trades) /\ MaxTicks \in Nat
    BY LaneRanges
<1>1. /\ a \in DOMAIN trades /\ b \in DOMAIN trades /\ Told(a) /\ Told(b) /\ Opens(a) /\ Closes(b) /\ SideHeld(a, b)
      /\ trades[a].at < trades[b].at /\ Quiet(a, trades[a].at, trades[b].at)
    <2>1. MaxTicks \in 0 .. MaxTicks
        BY <1>a
    <2>2. Walk[MaxTicks] \in Episode /\ FoundFits(MaxTicks) /\ <<a, b>> \in Walk[MaxTicks].found
        BY <2>1, WalkTyped, FoundsFit, WalkSteps
    <2>3. a \in Nat /\ b \in Nat
        BY <2>2 DEF Episode
    <2> QED BY <2>2, <2>3 DEF FoundFits
<1>2. a < b
    BY <1>1, BetweenInTime
<1>3. \A k \in DOMAIN trades : (a < k /\ k < b /\ Told(k)) => ~Opens(k) /\ ~(Closes(k) /\ SideHeld(a, k))
    BY <1>1, BetweenInTime DEF Quiet
<1> DEFINE side == Side(trades[a].after)
           ends == {k \in a + 1 .. b - 1 : Closes(k)}
<1>4. PICK k \in ends : \A j \in ends : k <= j
    <2>1. ends # {}
        BY <1>1, <1>2 DEF Lives
    <2>2. ends \subseteq Nat
        BY <1>a, <1>1
    <2> HIDE DEF ends
    <2> QED BY <2>1, <2>2, LeastNumber
<1>5. /\ k \in DOMAIN trades /\ a < k /\ k < b /\ Closes(k) /\ k - 1 \in DOMAIN trades /\ a <= k - 1 /\ k # 1
      /\ \A j \in a + 1 .. k - 1 : ~Closes(j)
    BY <1>a, <1>1, <1>4
<1>6. Side(trades[k].before) = side /\ Side(trades[k].after) # side /\ side # 0 /\ trades[a].after # 0
    <2>1. trades[a].after # 0 /\ side # 0
        BY <1>1, Signs
    <2> DEFINE c == k - 1
    <2>2. c \in DOMAIN trades /\ a <= c /\ \A j \in a + 1 .. c : ~Closes(j)
        BY <1>5
    <2>3. c \in a .. c
        BY <1>a, <1>1, <2>2
    <2> HIDE DEF c
    <2>4. Side(trades[c].after) = side
        BY <1>1, <2>1, <2>2, <2>3, SideStays
    <2>5. trades[k].before = trades[k - 1].after
        BY <1>5 DEF Chained
    <2> QED BY <1>5, <2>1, <2>4, <2>5, Signs DEF c
<1>7. ~Told(k)
    <2>1. SideHeld(a, k)
        BY <1>a, <1>1, <1>6 DEF SideHeld
    <2> QED BY <1>3, <1>5, <2>1
<1> DEFINE again == {m \in k + 1 .. b - 1 : Side(trades[m].after) = side}
<1>8. PICK m \in again : \A j \in again : m <= j
    <2>1. b - 1 \in again
        <3>1. b # 1 /\ b - 1 \in k .. b - 1
            BY <1>a, <1>1, <1>5
        <3>2. trades[b].before = trades[b - 1].after
            BY <1>1, <3>1 DEF Chained
        <3>3. Side(trades[b - 1].after) = side
            BY <1>1, <3>2 DEF SideHeld
        <3>4. b - 1 # k
            BY <1>6, <3>3
        <3> QED BY <1>a, <1>1, <3>1, <3>3, <3>4
    <2>2. again \subseteq Nat
        BY <1>a, <1>5
    <2> HIDE DEF again
    <2> QED BY <2>1, <2>2, LeastNumber
<1>9. m \in DOMAIN trades /\ m - 1 \in DOMAIN trades /\ a < m /\ m < b /\ m # 1 /\ m # k /\ m - 1 \in k .. b - 1
    BY <1>a, <1>1, <1>5, <1>8
<1>10. Opens(m)
    <2>1. Side(trades[m - 1].after) # side
        <3>1. CASE m - 1 = k
            BY <1>6, <3>1
        <3>2. CASE m - 1 # k
            <4>1. m - 1 \in k + 1 .. b - 1 /\ ~ m <= m - 1
                BY <1>a, <1>5, <1>9, <3>2
            <4> QED BY <1>8, <4>1
        <3> QED BY <3>1, <3>2
    <2>2. trades[m].before = trades[m - 1].after
        BY <1>9 DEF Chained
    <2>3. Side(trades[m].after) = side
        BY <1>8
    <2>4. trades[m].after # 0
        BY <1>6, <1>9, <2>3, Signs
    <2> QED BY <1>9, <2>1, <2>2, <2>3, <2>4, Signs
<1>11. ~Told(m)
    BY <1>3, <1>9, <1>10
<1>12. k \in a .. b /\ m \in a .. b
    BY <1>a, <1>1, <1>5, <1>9
<1> QED BY <1>7, <1>9, <1>11, <1>12

LEMMA EpisodesReal == ASSUME LaneShape, Chained PROVE EpisodesAreReal
<1>a. Len(trades) \in Nat /\ DOMAIN trades = 1 .. Len(trades)
    BY LaneRanges
<1>1. ASSUME NEW life \in Lives, Missing(life) = 0, Alone(life[1]), Alone(life[2]) PROVE life \in Episodes.found
    <2>1. life = <<life[1], life[2]>> /\ life[1] \in DOMAIN trades /\ life[2] \in DOMAIN trades
        BY DEF Lives
    <2> DEFINE untold == {k \in life[1] .. life[2] : ~Told(k)}
    <2>2. IsFiniteSet(untold)
        <3>1. life[1] \in Int /\ life[2] \in Int
            BY <1>a, <2>1
        <3>2. IsFiniteSet(life[1] .. life[2]) /\ untold \subseteq life[1] .. life[2]
            BY <3>1, FS_Interval
        <3> QED BY <3>2, FS_Subset
    <2>3. Cardinality(untold) = 0
        BY <1>1 DEF Missing
    <2>4. untold = {}
        BY <2>2, <2>3, FS_EmptySet
    <2>5. \A k \in life[1] .. life[2] : Told(k)
        BY <2>4
    <2> QED BY <1>1, <2>1, <2>5, LivesAreFound
<1>2. ASSUME NEW life \in Episodes.found, life \notin Lives, Alone(life[1]), Alone(life[2]) PROVE Missing(life) >= 2
    <2>1. life = <<life[1], life[2]>> /\ life[1] \in Nat /\ life[2] \in Nat
        <3>1. MaxTicks \in 0 .. MaxTicks
            BY WideAssumption
        <3>2. Episodes \in Episode
            BY <3>1, WalkTyped, WalkSteps
        <3>3. life \in Nat \X Nat
            BY <3>2 DEF Episode
        <3> QED BY <3>3
    <2>2. PICK k \in life[1] .. life[2], m \in life[1] .. life[2] : k # m /\ ~Told(k) /\ ~Told(m)
        BY <1>2, <2>1, FoundsAreLives
    <2> DEFINE untold == {j \in life[1] .. life[2] : ~Told(j)}
    <2>3. IsFiniteSet(untold)
        <3>1. IsFiniteSet(life[1] .. life[2]) /\ untold \subseteq life[1] .. life[2]
            BY <2>1, FS_Interval
        <3> QED BY <3>1, FS_Subset
    <2>4. {k, m} \subseteq untold
        BY <2>2
    <2> HIDE DEF untold
    <2>5. Cardinality({k, m}) = 2 /\ Cardinality({k, m}) <= Cardinality(untold)
        <3>1. IsFiniteSet({k}) /\ Cardinality({k}) = 1 /\ m \notin {k}
            BY <2>2, FS_Singleton
        <3>2. Cardinality({k} \cup {m}) = Cardinality({k}) + 1
            BY <3>1, FS_AddElement
        <3>3. {k} \cup {m} = {k, m}
            OBVIOUS
        <3>4. Cardinality({k, m}) <= Cardinality(untold)
            BY <2>3, <2>4, FS_Subset
        <3>5. Cardinality({k, m}) = 2
            BY <3>1, <3>2, <3>3
        <3> QED BY <3>4, <3>5
    <2>6. Cardinality(untold) \in Nat
        BY <2>3, FS_CardinalityType
    <2> QED BY <2>5, <2>6 DEF Missing, untold
<1> QED BY <1>1, <1>2 DEF EpisodesAreReal

(***************************************************************************)
(* The wide lane: its enricher neither passes a line that was received     *)
(* since it began nor writes two rows for a trade, though it and the       *)
(* collector may end between any two steps; and the episodes the scorer    *)
(* pairs are positions that somebody held, unless two fills are missing or *)
(* fall into one millisecond.                                              *)
(***************************************************************************)
THEOREM LaneIsCompleteHolds == WideSpec => []LaneIsComplete
<1>1. LaneInv => LaneIsComplete
    <2> SUFFICES ASSUME LaneInv PROVE LaneIsComplete
        OBVIOUS
    <2>1. WideTypeOK
        BY DEF LaneInv, LaneShape, LinesFit, RowsFit, WideTypeOK
    <2> QED BY <2>1, EpisodesReal DEF LaneInv, LaneIsComplete
<1> QED BY <1>1, LaneInit, LaneStep, PTL DEF WideSpec

-----------------------------------------------------------------------------
(* The file of a source. *)

EvidenceRow == [ok : BOOLEAN, who : Whose, trade : Trades]
EvidenceInv ==
    /\ rows \in Seq(EvidenceRow) /\ Len(rows) <= MaxRows
    /\ loaded.at \in {"no", "read", "refused"} /\ loaded.signals \subseteq DOMAIN rows
    /\ loaded.at = "read" => loaded.signals # {}
    /\ loaded.at # "read" => loaded.signals = {}
    /\ Independent /\ NothingForeign

LEMMA RowFacts ==
    ASSUME rows \in Seq(EvidenceRow), NEW i \in DOMAIN rows
    PROVE  /\ i \in Nat /\ rows[i].ok \in BOOLEAN /\ rows[i].trade \in Trades
           /\ rows[i].trade.coin = "coin" /\ rows[i].trade.from \in Nat /\ rows[i].trade.until \in Nat
           /\ Lasts(rows[i].trade) \in Nat /\ Lasts(rows[i].trade) <= MaxTick
<1>1. i \in 1 .. Len(rows) /\ rows[i] \in EvidenceRow
    BY LenProperties, ElementOfSeq
<1>2. rows[i].trade \in Trades /\ rows[i].ok \in BOOLEAN
    BY <1>1 DEF EvidenceRow
<1>3. /\ rows[i].trade.coin = "coin" /\ rows[i].trade.from \in 1 .. MaxTick
      /\ rows[i].trade.until \in 1 .. MaxTick /\ rows[i].trade.from <= rows[i].trade.until
    BY <1>2 DEF Trades
<1>4. MaxTick \in Nat
    BY EvidenceAssumption
<1> QED BY <1>1, <1>2, <1>3, <1>4 DEF Lasts

(* To be related is mutual. *)
LEMMA RelatedBothWays ==
    ASSUME rows \in Seq(EvidenceRow), NEW i \in DOMAIN rows, NEW j \in DOMAIN rows, Related(i, j)
    PROVE  Related(j, i)
<1>1. /\ rows[i].trade.from \in Nat /\ rows[i].trade.until \in Nat
      /\ rows[j].trade.from \in Nat /\ rows[j].trade.until \in Nat
    BY RowFacts
<1>2. /\ Later(rows[i].trade.from, rows[j].trade.from) = Later(rows[j].trade.from, rows[i].trade.from)
      /\ Sooner(rows[i].trade.until, rows[j].trade.until) = Sooner(rows[j].trade.until, rows[i].trade.until)
    BY <1>1 DEF Later, Sooner
<1>3. /\ Gap(rows[i].trade.from, rows[j].trade.from) = Gap(rows[j].trade.from, rows[i].trade.from)
      /\ Gap(rows[i].trade.until, rows[j].trade.until) = Gap(rows[j].trade.until, rows[i].trade.until)
    BY <1>1 DEF Gap
<1>4. IntervalsOverlap(rows[i].trade, rows[j].trade) => IntervalsOverlap(rows[j].trade, rows[i].trade)
    BY <1>2 DEF IntervalsOverlap
<1>5. NearEquivalent(rows[i].trade, rows[j].trade) => NearEquivalent(rows[j].trade, rows[i].trade)
    BY <1>3 DEF NearEquivalent
<1> QED BY <1>4, <1>5 DEF Related

(* A component is what each of its rows reaches. *)
LEMMA ComponentFacts ==
    ASSUME rows \in Seq(EvidenceRow), NEW i \in FirstOfKind
    PROVE  /\ i \in Component(i) /\ Component(i) \subseteq FirstOfKind /\ Closed(Component(i))
           /\ \A j \in Component(i) : Component(j) = Component(i)
<1>0. FirstOfKind \subseteq DOMAIN rows
    BY DEF FirstOfKind
<1>1. i \in Component(i) /\ Component(i) \subseteq FirstOfKind
    BY DEF Component
<1>2. ASSUME NEW j \in FirstOfKind PROVE Closed(Component(j))
    BY DEF Closed, Component
<1>3. ASSUME NEW j \in FirstOfKind, NEW k \in Component(j) PROVE Component(k) \subseteq Component(j)
    <2>1. Component(j) \in SUBSET FirstOfKind /\ k \in Component(j) /\ Closed(Component(j))
        BY <1>2, <1>3 DEF Component
    <2> QED BY <2>1 DEF Component
<1>4. ASSUME NEW j \in Component(i) PROVE i \in Component(j)
    <2> SUFFICES ASSUME i \notin Component(j) PROVE FALSE
        OBVIOUS
    <2> DEFINE apart == Component(i) \ Component(j)
    <2>1. j \in FirstOfKind /\ j \in Component(j)
        BY <1>1, <1>4 DEF Component
    <2>2. apart \in SUBSET FirstOfKind /\ i \in apart /\ j \notin apart
        BY <1>1, <2>1
    <2>3. Closed(apart)
        <3> SUFFICES ASSUME NEW k \in apart, NEW m \in FirstOfKind, Related(m, k) PROVE m \in apart
            BY DEF Closed
        <3>1. m \in Component(i)
            BY <1>2 DEF Closed
        <3>2. k \in FirstOfKind /\ Related(k, m)
            BY <1>0, <1>1, RelatedBothWays
        <3>3. m \in Component(j) => k \in Component(j)
            BY <1>2, <2>1, <3>2 DEF Closed
        <3> QED BY <3>1, <3>3
    <2>4. j \in apart
        BY <1>4, <2>2, <2>3 DEF Component
    <2> QED BY <2>2, <2>4
<1>5. ASSUME NEW j \in Component(i) PROVE Component(j) = Component(i)
    BY <1>1, <1>3, <1>4
<1> QED BY <1>1, <1>2, <1>5

(* Of some rows, one comes before every other. *)
LEMMA SomeRowIsFirst ==
    ASSUME rows \in Seq(EvidenceRow), NEW some \in SUBSET DOMAIN rows, some # {}
    PROVE  \E i \in some : \A j \in some \ {i} : Before(i, j)
<1> DEFINE short(i) == MaxTick - Lasts(rows[i].trade)
           start(i) == rows[i].trade.from
<1>1. \A i \in some : i \in Nat /\ short(i) \in Nat /\ start(i) \in Nat /\ Lasts(rows[i].trade) \in Nat /\ MaxTick \in Nat
    BY RowFacts, EvidenceAssumption
<1>2. PICK l \in {short(i) : i \in some} : \A n \in {short(i) : i \in some} : l <= n
    <2>1. {short(i) : i \in some} \in SUBSET Nat /\ {short(i) : i \in some} # {}
        BY <1>1
    <2> HIDE DEF short
    <2> QED BY <2>1, LeastNumber
<1> DEFINE longest == {i \in some : short(i) = l}
<1>3. PICK s \in {start(i) : i \in longest} : \A n \in {start(i) : i \in longest} : s <= n
    <2>1. {start(i) : i \in longest} \in SUBSET Nat /\ {start(i) : i \in longest} # {}
        BY <1>1, <1>2
    <2> HIDE DEF longest, start
    <2> QED BY <2>1, LeastNumber
<1> DEFINE earliest == {i \in longest : start(i) = s}
<1>4. PICK i \in earliest : \A n \in earliest : i <= n
    <2>1. earliest \in SUBSET Nat /\ earliest # {}
        BY <1>1, <1>3
    <2> HIDE DEF earliest
    <2> QED BY <2>1, LeastNumber
<1>5. ASSUME NEW j \in some, j # i PROVE Before(i, j)
    <2>1. i \in some /\ short(i) = l /\ start(i) = s
        BY <1>4
    <2>2. short(i) <= short(j)
        BY <1>2, <2>1
    <2>3. short(j) = l => start(i) <= start(j)
        BY <1>3, <2>1
    <2>4. short(j) = l /\ start(j) = s => i <= j
        BY <1>4
    <2>5. /\ i \in Nat /\ j \in Nat /\ Lasts(rows[i].trade) \in Nat /\ Lasts(rows[j].trade) \in Nat /\ MaxTick \in Nat
          /\ rows[i].trade.from \in Nat /\ rows[j].trade.from \in Nat
        BY <1>1, <2>1
    <2> HIDE DEF earliest, longest
    <2> QED BY <1>5, <2>1, <2>2, <2>3, <2>4, <2>5 DEF Before
<1> QED BY <1>4, <1>5

LEMMA RepresentativeFacts ==
    ASSUME rows \in Seq(EvidenceRow), NEW i \in FirstOfKind
    PROVE  /\ Representative(Component(i)) \in Component(i)
           /\ \A j \in Component(i) \ {Representative(Component(i))} : Before(Representative(Component(i)), j)
<1>1. Component(i) \in SUBSET DOMAIN rows /\ Component(i) # {}
    BY ComponentFacts DEF FirstOfKind
<1> DEFINE component == Component(i)
<1> HIDE DEF component
<1>2. \E r \in component : \A j \in component \ {r} : Before(r, j)
    BY <1>1, SomeRowIsFirst DEF component
<1>3. /\ Representative(component) \in component
      /\ \A j \in component \ {Representative(component)} : Before(Representative(component), j)
    BY <1>2 DEF Representative
<1> QED BY <1>3 DEF component

(* Two representatives are not related. *)
LEMMA RepresentativesApart ==
    ASSUME rows \in Seq(EvidenceRow), NEW i \in Representatives, NEW j \in Representatives, i # j
    PROVE  ~Related(i, j)
<1>1. PICK a \in FirstOfKind : i = Representative(Component(a))
    BY DEF Representatives
<1>2. PICK b \in FirstOfKind : j = Representative(Component(b))
    BY DEF Representatives
<1>3. i \in Component(a) /\ j \in Component(b) /\ i \in FirstOfKind /\ j \in FirstOfKind
    BY <1>1, <1>2, RepresentativeFacts, ComponentFacts
<1>4. Component(i) = Component(a) /\ Component(j) = Component(b) /\ j \in Component(j) /\ Closed(Component(j))
    BY <1>3, ComponentFacts
<1>5. ASSUME Related(i, j) PROVE FALSE
    <2>1. i \in Component(j)
        BY <1>3, <1>4, <1>5 DEF Closed
    <2>2. Component(i) = Component(j)
        BY <1>3, <2>1, ComponentFacts
    <2> QED BY <1>1, <1>2, <1>4, <2>2
<1> QED BY <1>5

LEMMA UnrelatedAreIndependent ==
    ASSUME rows \in Seq(EvidenceRow), NEW i \in DOMAIN rows, NEW j \in DOMAIN rows, ~Related(i, j)
    PROVE  /\ ~\E t \in 1 .. MaxTick : Spans(rows[i].trade, t) /\ Spans(rows[j].trade, t)
           /\ \/ rows[i].trade.side # rows[j].trade.side \/ rows[i].trade.px # rows[j].trade.px
              \/ Gap(rows[i].trade.from, rows[j].trade.from) > Tolerance
              \/ Gap(rows[i].trade.until, rows[j].trade.until) > Tolerance
<1>1. /\ rows[i].trade.from \in Nat /\ rows[i].trade.until \in Nat /\ rows[i].trade.coin = "coin"
      /\ rows[j].trade.from \in Nat /\ rows[j].trade.until \in Nat /\ rows[j].trade.coin = "coin"
    BY RowFacts
<1>2. ~IntervalsOverlap(rows[i].trade, rows[j].trade) /\ ~NearEquivalent(rows[i].trade, rows[j].trade)
    BY <1>1 DEF Related
<1>3. ASSUME NEW t \in 1 .. MaxTick, Spans(rows[i].trade, t), Spans(rows[j].trade, t) PROVE FALSE
    <2>1. t \in Nat
        BY EvidenceAssumption
    <2>2. Later(rows[i].trade.from, rows[j].trade.from) <= t /\ t < Sooner(rows[i].trade.until, rows[j].trade.until)
        BY <1>1, <1>3, <2>1 DEF Spans, Later, Sooner
    <2>3. Later(rows[i].trade.from, rows[j].trade.from) \in Nat /\ Sooner(rows[i].trade.until, rows[j].trade.until) \in Nat
        BY <1>1 DEF Later, Sooner
    <2> QED BY <1>2, <2>1, <2>2, <2>3 DEF IntervalsOverlap
<1>4. Gap(rows[i].trade.from, rows[j].trade.from) \in Nat /\ Gap(rows[i].trade.until, rows[j].trade.until) \in Nat
    <2>1. \A m, n \in Nat : Gap(m, n) \in Nat
        BY DEF Gap
    <2> QED BY <1>1, <2>1
<1>5. Tolerance \in Nat
    BY EvidenceAssumption
<1> QED BY <1>2, <1>3, <1>4, <1>5 DEF NearEquivalent

(* Each row has its first of the kind, and that is represented. *)
LEMMA EachIsRepresented ==
    ASSUME rows \in Seq(EvidenceRow), \A k \in DOMAIN rows : rows[k].ok, NEW i \in DOMAIN rows
    PROVE  \E s \in Representatives : Lasts(rows[i].trade) <= Lasts(rows[s].trade)
<1> DEFINE alike == {j \in DOMAIN rows : rows[j].trade = rows[i].trade}
<1>1. PICK k \in alike : \A j \in alike : k <= j
    <2>1. alike \in SUBSET Nat /\ alike # {}
        BY RowFacts
    <2> HIDE DEF alike
    <2> QED BY <2>1, LeastNumber
<1>2. k \in FirstOfKind
    <2>1. DOMAIN rows = 1 .. Len(rows) /\ Len(rows) \in Nat
        BY LenProperties
    <2>2. ASSUME NEW j \in 1 .. (k - 1), rows[j].trade = rows[k].trade PROVE FALSE
        <3>1. j \in DOMAIN rows /\ ~ k <= j
            BY <2>1, <1>1
        <3> QED BY <1>1, <2>2, <3>1
    <2> QED BY <2>2, <1>1 DEF FirstOfKind
<1> DEFINE s == Representative(Component(k))
<1>3. s \in Component(k) /\ \A j \in Component(k) \ {s} : Before(s, j)
    BY <1>2, RepresentativeFacts
<1>4. s \in Representatives /\ k \in Component(k) /\ s \in DOMAIN rows
    BY <1>2, <1>3, ComponentFacts DEF Representatives, FirstOfKind
<1> HIDE DEF s
<1>5. Lasts(rows[k].trade) \in Nat /\ Lasts(rows[s].trade) \in Nat
    BY <1>1, <1>4, RowFacts
<1>6. s = k \/ Before(s, k)
    BY <1>3, <1>4
<1>7. Lasts(rows[k].trade) <= Lasts(rows[s].trade)
    BY <1>5, <1>6 DEF Before
<1> QED BY <1>1, <1>4, <1>7

-----------------------------------------------------------------------------

LEMMA EvidenceInit == EvidenceFileInit => EvidenceInv
BY EmptySeq, EvidenceAssumption DEF EvidenceFileInit, EvidenceInv, Independent, NothingForeign

LEMMA WritesKeep ==
    ASSUME EvidenceInv, NEW row \in EvidenceRow, loaded.at = "no", Len(rows) < MaxRows,
           rows' = Append(rows, row), UNCHANGED loaded
    PROVE  EvidenceInv'
<1>1. rows' \in Seq(EvidenceRow) /\ Len(rows') = Len(rows) + 1 /\ Len(rows) \in Nat /\ MaxRows \in Nat
    BY AppendProperties, LenProperties, EvidenceAssumption DEF EvidenceInv
<1>2. loaded'.at = "no" /\ loaded'.signals = {}
    BY DEF EvidenceInv
<1> QED BY <1>1, <1>2 DEF EvidenceInv, Independent, NothingForeign

LEMMA LoadKeeps == ASSUME EvidenceInv, Load PROVE EvidenceInv'
<1>a. rows \in Seq(EvidenceRow) /\ rows' = rows /\ rows # <<>> /\ Len(rows) <= MaxRows
    BY DEF EvidenceInv, Load
<1>1. CASE (\E i \in DOMAIN rows : ~rows[i].ok) \/ ~OneIdentity
    <2>1. loaded' = [at |-> "refused", signals |-> {}]
        BY <1>1 DEF Load
    <2>2. loaded'.at = "refused" /\ loaded'.signals = {}
        BY <2>1
    <2> QED BY <1>a, <2>2 DEF EvidenceInv, Independent, NothingForeign
<1>2. CASE ~((\E i \in DOMAIN rows : ~rows[i].ok) \/ ~OneIdentity)
    <2>1. loaded' = [at |-> "read", signals |-> Representatives]
        BY <1>2 DEF Load
    <2>2. loaded'.at = "read" /\ loaded'.signals = Representatives
        BY <2>1
    <2>3. \A i \in DOMAIN rows : rows[i].ok /\ rows[i].who = Mine
        BY <1>2 DEF OneIdentity, Tells
    <2>4. Representatives \subseteq DOMAIN rows
        BY <1>a, RepresentativeFacts, ComponentFacts DEF Representatives, FirstOfKind
    <2>5. Representatives # {}
        <3>1. 1 \in DOMAIN rows
            BY <1>a, LenProperties, EmptySeq
        <3> QED BY <1>a, <2>3, <3>1, EachIsRepresented
    <2>6. Independent'
        <3> SUFFICES ASSUME NEW i \in Representatives, NEW j \in Representatives, i # j
                     PROVE  /\ ~\E t \in 1 .. MaxTick : Spans(rows[i].trade, t) /\ Spans(rows[j].trade, t)
                            /\ \/ rows[i].trade.side # rows[j].trade.side \/ rows[i].trade.px # rows[j].trade.px
                               \/ Gap(rows[i].trade.from, rows[j].trade.from) > Tolerance
                               \/ Gap(rows[i].trade.until, rows[j].trade.until) > Tolerance
            BY <1>a, <2>2 DEF Independent
        <3> QED BY <1>a, <2>4, RepresentativesApart, UnrelatedAreIndependent
    <2>7. NothingForeign'
        <3>1. \A i \in DOMAIN rows : \E s \in Representatives : Lasts(rows[i].trade) <= Lasts(rows[s].trade)
            BY <1>a, <2>3, EachIsRepresented
        <3> QED BY <1>a, <2>2, <2>3, <3>1 DEF NothingForeign
    <2> QED BY <1>a, <2>2, <2>4, <2>5, <2>6, <2>7 DEF EvidenceInv
<1> QED BY <1>1, <1>2

LEMMA EvidenceStep == EvidenceInv /\ [EvidenceFileNext]_seVars => EvidenceInv'
<1> SUFFICES ASSUME EvidenceInv, [EvidenceFileNext]_seVars PROVE EvidenceInv'
    OBVIOUS
<1>1. ASSUME NEW r \in Trades, NEW who \in Whose, WriteTrade(r, who) PROVE EvidenceInv'
    <2>1. [ok |-> TRUE, who |-> who, trade |-> r] \in EvidenceRow
        BY DEF EvidenceRow
    <2> QED BY <1>1, <2>1, WritesKeep DEF WriteTrade
<1>2. ASSUME NEW r \in Trades, WriteMalformed(r) PROVE EvidenceInv'
    <2>1. [ok |-> FALSE, who |-> Mine, trade |-> r] \in EvidenceRow
        BY DEF EvidenceRow, Whose
    <2> QED BY <1>2, <2>1, WritesKeep DEF WriteMalformed
<1>3. CASE Load
    BY <1>3, LoadKeeps
<1>4. CASE UNCHANGED seVars
    BY <1>4 DEF seVars, EvidenceInv, Independent, NothingForeign
<1> QED BY <1>1, <1>2, <1>3, <1>4 DEF EvidenceFileNext

(***************************************************************************)
(* The loader of evidence files collapses what repeats or overlaps until   *)
(* two signals cannot be one position, keeps of what it collapses the      *)
(* longest, and reads a file only if every row is of the one source: for   *)
(* any file, prices and tolerance.                                         *)
(***************************************************************************)
THEOREM EvidenceIsOwnHolds == EvidenceFileSpec => []EvidenceIsOwn
<1>1. EvidenceInv => EvidenceIsOwn
    BY DEF EvidenceInv, EvidenceIsOwn, EvidenceFileTypeOK
<1> QED BY <1>1, EvidenceInit, EvidenceStep, PTL DEF EvidenceFileSpec

-----------------------------------------------------------------------------
(* The fills of a wallet. *)

FillRow == [before : Int, after : Int]
Listed == [stage : {"off", "validation", "approved"}, coin : {"unknown", "known"}]
Arrival == [fill : Nat, snapshot : BOOLEAN]
LogRow == [fill : Nat, snapshot : BOOLEAN, mine : BOOLEAN]
Total == Len(fills)
Top == IF seen = <<>> THEN 0 ELSE seen[Len(seen)]
Logged == {log[i].fill : i \in DOMAIN log}
Recorded == unwritten \cup Logged
Incoming == {inbox[i].fill : i \in DOMAIN inbox}

(* Within the limit, whoever is subscribed or wanted. *)
RegistryFits ==
    /\ registry \in [Wallets -> Listed] /\ Cardinality(Active(registry)) <= MaxActive
    /\ DOMAIN subscribed \subseteq Wallets /\ Cardinality(DOMAIN subscribed) <= MaxActive
    /\ DOMAIN sync.desired \subseteq Wallets /\ Cardinality(DOMAIN sync.desired) <= MaxActive
    /\ conn \in {"down", "opening", "up"}
    /\ conn = "down" => subscribed = <<>> /\ inbox = <<>> /\ sync.at # "walking"

FillsChained ==
    /\ fills \in Seq(FillRow)
    /\ \A k \in 1 .. Total : fills[k].before = IF k = 1 THEN 0 ELSE fills[k - 1].after
    /\ started \in 1 .. Total + 1 /\ joined \in 0 .. Total

RecordFits ==
    /\ log \in Seq(LogRow) /\ Recorded \subseteq 1 .. Total /\ RecordedOnce

SeenFits ==
    /\ seen \in Seq(Nat) /\ Len(seen) <= MaxNoted /\ Spaced(seen)
    /\ ToSet(seen) \subseteq started .. Total /\ ToSet(seen) \subseteq Recorded
    /\ \A k \in Recorded : k >= started => k \in ToSet(seen) \/ k + MaxNoted <= Top

(* A fill arrives before what a snapshot later could not bring. *)
ArrivalsFit ==
    /\ inbox \in Seq(Arrival) /\ Incoming \subseteq 1 .. Total
    /\ \A i \in DOMAIN inbox : /\ Top < inbox[i].fill + SnapshotSize
                               /\ \A j \in 1 .. i - 1 : inbox[j].fill < inbox[i].fill + SnapshotSize

(* What is due: not before the last snapshot, or on its way. *)
NoneOvertaken ==
    \A j \in DOMAIN inbox, k \in started .. Total :
        (k < inbox[j].fill /\ (k > joined - SnapshotSize \/ \E i \in DOMAIN inbox : i > j /\ inbox[i].fill = k))
            => k \in Recorded \/ \E h \in 1 .. j - 1 : inbox[h].fill = k
BelowTop ==
    \A k \in started .. Total : (k <= Top /\ (k > joined - SnapshotSize \/ k \in Incoming)) => k \in Recorded
AllCome ==
    Followed \in DOMAIN subscribed =>
        \A k \in started .. Total : k > joined - SnapshotSize => k \in Recorded \/ k \in Incoming

ShadowInv ==
    /\ RegistryFits /\ FillsChained /\ RecordFits /\ SeenFits /\ ArrivalsFit
    /\ NoneOvertaken /\ BelowTop /\ AllCome

LEMMA ShadowRanges ==
    ASSUME FillsChained, RecordFits, SeenFits, ArrivalsFit
    PROVE  /\ Total \in Nat /\ DOMAIN fills = 1 .. Total /\ started \in 1 .. Total + 1 /\ joined \in 0 .. Total
           /\ SnapshotSize \in Nat /\ MaxNoted \in Nat \ {0} /\ SnapshotSize <= MaxNoted
           /\ Len(inbox) \in Nat /\ DOMAIN inbox = 1 .. Len(inbox)
           /\ \A i \in DOMAIN inbox : inbox[i].fill \in 1 .. Total /\ inbox[i].fill \in Incoming
           /\ Len(log) \in Nat /\ DOMAIN log = 1 .. Len(log)
           /\ Top \in 0 .. Total /\ \A k \in ToSet(seen) : k <= Top
           /\ Recorded \subseteq 1 .. Total
<1>1. /\ Total \in Nat /\ DOMAIN fills = 1 .. Total /\ started \in 1 .. Total + 1 /\ joined \in 0 .. Total
      /\ SnapshotSize \in Nat /\ MaxNoted \in Nat \ {0} /\ SnapshotSize <= MaxNoted
    BY ShadowAssumption, LenProperties DEF FillsChained, Total
<1>2. Len(inbox) \in Nat /\ DOMAIN inbox = 1 .. Len(inbox)
    BY LenProperties DEF ArrivalsFit
<1>3. \A i \in DOMAIN inbox : inbox[i].fill \in 1 .. Total /\ inbox[i].fill \in Incoming
    BY DEF ArrivalsFit, Incoming
<1>4. Len(log) \in Nat /\ DOMAIN log = 1 .. Len(log)
    BY LenProperties DEF RecordFits
<1>5. Top \in 0 .. Total /\ \A k \in ToSet(seen) : k <= Top
    <2>1. seen \in Seq(Nat) /\ Len(seen) \in Nat /\ DOMAIN seen = 1 .. Len(seen) /\ Spaced(seen) /\ ToSet(seen) \subseteq started .. Total
        BY LenProperties DEF SeenFits
    <2>2. CASE seen = <<>>
        <3>1. ToSet(seen) = {} /\ Top = 0
            BY <2>2, EmptySeq, LenProperties DEF ToSet, Top
        <3> QED BY <1>1, <3>1
    <2>3. CASE seen # <<>>
        <3>1. Len(seen) \in DOMAIN seen
            BY <2>1, <2>3, EmptySeq
        <3>2. Top = seen[Len(seen)] /\ Top \in ToSet(seen)
            BY <2>3, <3>1 DEF Top, ToSet
        <3>3. \A i \in DOMAIN seen : seen[i] \in ToSet(seen) /\ seen[i] + (Len(seen) - i) <= seen[Len(seen)]
            BY <2>1, <3>1 DEF Spaced, ToSet
        <3>4. \A i \in DOMAIN seen : seen[i] \in Nat /\ i \in Nat /\ i <= Len(seen)
            BY <1>1, <2>1, <3>3
        <3>5. ASSUME NEW k \in ToSet(seen) PROVE k <= Top
            <4>1. PICK i \in DOMAIN seen : k = seen[i]
                BY DEF ToSet
            <4>2. seen[i] \in Nat /\ i \in Nat /\ i <= Len(seen) /\ seen[i] + (Len(seen) - i) <= Top /\ Top \in Nat
                BY <2>1, <3>1, <3>2, <3>3, <3>4
            <4> QED BY <2>1, <4>1, <4>2
        <3> QED BY <1>1, <2>1, <3>2, <3>5
    <2> QED BY <2>2, <2>3
<1>6. Recorded \subseteq 1 .. Total
    BY DEF RecordFits
<1> QED BY <1>1, <1>2, <1>3, <1>4, <1>5, <1>6

LEMMA InitShadow == ShadowInit => ShadowInv
<1> SUFFICES ASSUME ShadowInit PROVE ShadowInv
    OBVIOUS
<1>a. /\ fills = <<>> /\ registry = [w \in Wallets |-> [stage |-> IF w = Followed THEN "validation" ELSE "off", coin |-> "unknown"]]
      /\ conn = "down" /\ sync = NoWalk /\ subscribed = <<>> /\ inbox = <<>>
      /\ started = 1 /\ seen = <<>> /\ log = <<>> /\ joined = 0 /\ unwritten = {}
    BY DEF ShadowInit
<1>b. DOMAIN <<>> = {} /\ Len(<<>>) = 0 /\ \A T : <<>> \in Seq(T)
    BY EmptySeq, LenProperties
<1>c. MaxActive \in Nat \ {0} /\ Followed \in Wallets /\ MaxNoted \in Nat /\ SnapshotSize \in Nat
    BY ShadowAssumption
<1>d. Total = 0 /\ Top = 0 /\ Logged = {} /\ Recorded = {} /\ Incoming = {} /\ ToSet(seen) = {}
    BY <1>a, <1>b DEF Total, Top, Logged, Recorded, Incoming, ToSet
<1>1. RegistryFits
    <2>1. Cardinality({}) = 0 /\ Cardinality({Followed}) = 1
        BY FS_EmptySet, FS_Singleton
    <2>2. registry \in [Wallets -> Listed]
        BY <1>a DEF Listed
    <2>3. Active(registry) = {Followed}
        BY <1>a, <1>c DEF Active
    <2>4. DOMAIN subscribed = {} /\ DOMAIN sync.desired = {} /\ sync.at = "idle"
        BY <1>a, <1>b DEF NoWalk
    <2>5. Cardinality(Active(registry)) <= MaxActive /\ Cardinality(DOMAIN subscribed) <= MaxActive
          /\ Cardinality(DOMAIN sync.desired) <= MaxActive
        BY <1>c, <2>1, <2>3, <2>4
    <2>6. DOMAIN subscribed \subseteq Wallets /\ DOMAIN sync.desired \subseteq Wallets
        BY <2>4
    <2>7. conn \in {"down", "opening", "up"} /\ subscribed = <<>> /\ inbox = <<>> /\ sync.at # "walking"
        BY <1>a, <2>4
    <2> QED BY <2>2, <2>5, <2>6, <2>7 DEF RegistryFits
<1>2. FillsChained
    BY <1>a, <1>b, <1>d DEF FillsChained
<1>3. RecordFits
    BY <1>a, <1>b, <1>d DEF RecordFits, RecordedOnce
<1>4. SeenFits
    BY <1>a, <1>b, <1>c, <1>d DEF SeenFits, Spaced
<1>5. ArrivalsFit /\ NoneOvertaken /\ BelowTop /\ AllCome
    BY <1>a, <1>b, <1>d DEF ArrivalsFit, NoneOvertaken, BelowTop, AllCome
<1> QED BY <1>1, <1>2, <1>3, <1>4, <1>5 DEF ShadowInv

(* What a change of the registry or of the subscriptions leaves alone. *)
LEMMA FillsStay ==
    ASSUME ShadowInv, UNCHANGED <<fills, inbox, started, seen, log, joined, unwritten>>,
           Followed \in DOMAIN subscribed' => Followed \in DOMAIN subscribed
    PROVE  FillsChained' /\ RecordFits' /\ SeenFits' /\ ArrivalsFit' /\ NoneOvertaken' /\ BelowTop' /\ AllCome'
<1>1. UNCHANGED <<Total, Top, Logged, Recorded, Incoming>>
    BY DEF Total, Top, Logged, Recorded, Incoming
<1>2. FillsChained' /\ RecordFits' /\ SeenFits'
    BY <1>1 DEF ShadowInv, FillsChained, RecordFits, RecordedOnce, SeenFits
<1>3. ArrivalsFit'
    BY <1>1 DEF ShadowInv, ArrivalsFit
<1>4. NoneOvertaken'
    BY <1>1 DEF ShadowInv, NoneOvertaken
<1>5. BelowTop'
    BY <1>1 DEF ShadowInv, BelowTop
<1>6. AllCome'
    BY <1>1 DEF ShadowInv, AllCome
<1> QED BY <1>2, <1>3, <1>4, <1>5, <1>6

(* A connection that goes takes all that is on its way with it. *)
LEMMA DisconnectedFits ==
    ASSUME RegistryFits, Disconnected, registry' \in [Wallets -> Listed], Cardinality(Active(registry')) <= MaxActive,
           FillsChained', SeenFits'
    PROVE  RegistryFits' /\ ArrivalsFit' /\ NoneOvertaken' /\ AllCome'
<1>1. conn' = "down" /\ sync' = NoWalk /\ subscribed' = <<>> /\ inbox' = <<>>
    BY DEF Disconnected
<1>2. DOMAIN <<>> = {} /\ Cardinality({}) = 0 /\ \A T : <<>> \in Seq(T)
    BY EmptySeq, LenProperties, FS_EmptySet
<1>3. DOMAIN subscribed' = {} /\ DOMAIN inbox' = {} /\ DOMAIN sync'.desired = {} /\ sync'.at = "idle" /\ Incoming' = {}
    BY <1>1, <1>2 DEF NoWalk, Incoming
<1>4. MaxActive \in Nat
    BY ShadowAssumption
<1>5. RegistryFits'
    BY <1>1, <1>2, <1>3, <1>4 DEF RegistryFits
<1>6. ArrivalsFit' /\ NoneOvertaken' /\ AllCome'
    BY <1>1, <1>2, <1>3 DEF ArrivalsFit, NoneOvertaken, AllCome
<1> QED BY <1>5, <1>6

-----------------------------------------------------------------------------
(* The steps. *)

LEMMA UpdateFits ==
    ASSUME ShadowInv, NEW w \in Wallets, NEW stage \in {"off", "validation", "approved"}, Update(w, stage)
    PROVE  ShadowInv'
<1>1. /\ UNCHANGED <<fills, conn, sync, subscribed, inbox, started, seen, log, joined, unwritten>>
      /\ registry' = [registry EXCEPT ![w].stage = stage] /\ Cardinality(Active(registry')) <= MaxActive
    BY DEF Update
<1>2. registry' \in [Wallets -> Listed]
    BY <1>1 DEF ShadowInv, RegistryFits, Listed
<1>3. RegistryFits'
    BY <1>1, <1>2 DEF ShadowInv, RegistryFits
<1> QED BY <1>1, <1>3, FillsStay DEF ShadowInv

LEMMA ConnectFits == ASSUME ShadowInv, Connect PROVE ShadowInv'
<1>1. UNCHANGED <<fills, registry, sync, subscribed, inbox, started, seen, log, joined, unwritten>> /\ conn' = "opening"
    BY DEF Connect
<1>2. RegistryFits'
    BY <1>1 DEF ShadowInv, RegistryFits, Active
<1> QED BY <1>1, <1>2, FillsStay DEF ShadowInv

LEMMA SyncReadsFits == ASSUME ShadowInv, SyncReads PROVE ShadowInv'
<1>1. /\ UNCHANGED <<fills, registry, conn, subscribed, inbox, started, seen, log, joined, unwritten>>
      /\ conn \in {"opening", "up"}
      /\ sync' = [at |-> "walking", desired |-> Restrict(registry, Active(registry))]
    BY DEF SyncReads
<1>2. DOMAIN sync'.desired = Active(registry) /\ Active(registry) \subseteq Wallets
    BY <1>1 DEF Restrict, Active
<1>3. RegistryFits'
    BY <1>1, <1>2 DEF ShadowInv, RegistryFits, Active
<1> QED BY <1>1, <1>3, FillsStay DEF ShadowInv

LEMMA UnsubscribeFits == ASSUME ShadowInv, NEW w \in Wallets, Unsubscribe(w) PROVE ShadowInv'
<1>1. /\ UNCHANGED <<fills, registry, conn, sync, inbox, started, seen, log, joined, unwritten>>
      /\ sync.at = "walking" /\ subscribed' = Restrict(subscribed, DOMAIN subscribed \ {w})
    BY DEF Unsubscribe
<1>2. DOMAIN subscribed' = DOMAIN subscribed \ {w}
    BY <1>1 DEF Restrict
<1>3. Cardinality(DOMAIN subscribed') <= MaxActive
    <2>1. IsFiniteSet(DOMAIN subscribed) /\ DOMAIN subscribed' \subseteq DOMAIN subscribed
        BY <1>2, ShadowAssumption, FS_Subset DEF ShadowInv, RegistryFits
    <2>2. Cardinality(DOMAIN subscribed') <= Cardinality(DOMAIN subscribed)
        BY <2>1, FS_Subset
    <2>3. Cardinality(DOMAIN subscribed') \in Nat /\ Cardinality(DOMAIN subscribed) \in Nat /\ MaxActive \in Nat
        BY <2>1, FS_Subset, FS_CardinalityType, ShadowAssumption
    <2>4. Cardinality(DOMAIN subscribed) <= MaxActive
        BY DEF ShadowInv, RegistryFits
    <2> QED BY <2>2, <2>3, <2>4
<1>4. RegistryFits'
    <2>1. Active(registry') = Active(registry) /\ DOMAIN subscribed' \subseteq Wallets /\ conn # "down"
        BY <1>1, <1>2 DEF ShadowInv, RegistryFits, Active
    <2> QED BY <1>1, <1>3, <2>1 DEF ShadowInv, RegistryFits
<1> QED BY <1>1, <1>2, <1>4, FillsStay DEF ShadowInv

LEMMA SyncEndsFits == ASSUME ShadowInv, SyncEnds PROVE ShadowInv'
<1>1. /\ UNCHANGED <<fills, registry, inbox, started, seen, log, joined, unwritten>>
      /\ DOMAIN sync.desired = DOMAIN subscribed /\ subscribed' = sync.desired /\ sync' = NoWalk /\ conn' = "up"
    BY DEF SyncEnds, Leaving, Joining
<1>2. DOMAIN sync'.desired = {} /\ Cardinality({}) = 0
    BY <1>1, EmptySeq, LenProperties, FS_EmptySet DEF NoWalk
<1>3. RegistryFits'
    <2>1. Active(registry') = Active(registry) /\ DOMAIN subscribed' = DOMAIN subscribed
        BY <1>1 DEF Active
    <2>2. Cardinality(DOMAIN sync'.desired) <= MaxActive
        BY <1>2, ShadowAssumption
    <2> QED BY <1>1, <1>2, <2>1, <2>2 DEF ShadowInv, RegistryFits
<1> QED BY <1>1, <1>3, FillsStay DEF ShadowInv

LEMMA LostFits == ASSUME ShadowInv, FillsLost PROVE ShadowInv'
<1>1. Disconnected /\ UNCHANGED <<fills, registry, started, seen, log, joined, unwritten>>
    BY DEF FillsLost
<1>2. UNCHANGED <<Total, Top, Logged, Recorded>> /\ Incoming' \subseteq Incoming
    <2>1. inbox' = <<>> /\ DOMAIN <<>> = {}
        BY <1>1, EmptySeq, LenProperties DEF Disconnected
    <2> QED BY <1>1, <2>1 DEF Total, Top, Logged, Recorded, Incoming
<1>3. FillsChained' /\ RecordFits' /\ SeenFits'
    BY <1>1, <1>2 DEF ShadowInv, FillsChained, RecordFits, RecordedOnce, SeenFits
<1>4. BelowTop'
    BY <1>1, <1>2 DEF ShadowInv, BelowTop
<1>5. registry' \in [Wallets -> Listed] /\ Cardinality(Active(registry')) <= MaxActive
    BY <1>1 DEF ShadowInv, RegistryFits, Active
<1>6. RegistryFits' /\ ArrivalsFit' /\ NoneOvertaken' /\ AllCome'
    BY <1>1, <1>3, <1>5, DisconnectedFits DEF ShadowInv
<1> QED BY <1>3, <1>4, <1>6 DEF ShadowInv

LEMMA RestartFits == ASSUME ShadowInv, ShadowRestart PROVE ShadowInv'
<1>1. Disconnected /\ UNCHANGED <<fills, registry, log, joined, unwritten>> /\ started' = Len(fills) + 1 /\ seen' = <<>>
    BY DEF ShadowRestart
<1>2. DOMAIN <<>> = {} /\ Len(<<>>) = 0 /\ <<>> \in Seq(Nat)
    BY EmptySeq, LenProperties
<1>3. UNCHANGED <<Total, Logged, Recorded>> /\ Total \in Nat /\ Top' = 0 /\ ToSet(seen') = {} /\ started' = Total + 1
    BY <1>1, <1>2, ShadowRanges DEF Total, Top, Logged, Recorded, ToSet, ShadowInv
<1>4. FillsChained' /\ RecordFits'
    BY <1>1, <1>3 DEF ShadowInv, FillsChained, RecordFits, RecordedOnce
<1>5. SeenFits'
    <2>1. \A k \in Recorded' : ~ k >= started'
        BY <1>3 DEF ShadowInv, RecordFits
    <2>2. Len(seen') <= MaxNoted /\ Spaced(seen')
        BY <1>1, <1>2, ShadowAssumption DEF Spaced
    <2> QED BY <1>1, <1>2, <1>3, <2>1, <2>2 DEF SeenFits
<1>6. BelowTop'
    BY <1>3 DEF BelowTop
<1>7. registry' \in [Wallets -> Listed] /\ Cardinality(Active(registry')) <= MaxActive
    BY <1>1 DEF ShadowInv, RegistryFits, Active
<1>8. RegistryFits' /\ ArrivalsFit' /\ NoneOvertaken' /\ AllCome'
    BY <1>1, <1>4, <1>5, <1>7, DisconnectedFits DEF ShadowInv
<1> QED BY <1>4, <1>5, <1>6, <1>8 DEF ShadowInv

LEMMA TradeToFits == ASSUME ShadowInv, NEW q \in -MaxPosition .. MaxPosition, TradeTo(q) PROVE ShadowInv'
<1> DEFINE n == Total
           row == [before |-> Holding, after |-> q]
           come == [fill |-> n + 1, snapshot |-> FALSE]
           m == Len(inbox)
<1>a. /\ UNCHANGED <<registry, conn, sync, subscribed, started, seen, log, joined, unwritten>>
      /\ fills' = Append(fills, row)
      /\ inbox' = IF Followed \in DOMAIN subscribed THEN Append(inbox, come) ELSE inbox
    BY DEF TradeTo, Total
<1>b. UNCHANGED <<started, joined, subscribed>>
    BY <1>a
<1>r. /\ n \in Nat /\ DOMAIN fills = 1 .. n /\ started \in 1 .. n + 1 /\ joined \in 0 .. n
      /\ SnapshotSize \in Nat /\ m \in Nat /\ DOMAIN inbox = 1 .. m
      /\ \A i \in DOMAIN inbox : inbox[i].fill \in 1 .. n /\ inbox[i].fill \in Incoming
      /\ Top \in 0 .. n /\ Recorded \subseteq 1 .. n
    BY ShadowRanges DEF ShadowInv
<1>1. row \in FillRow
    <2>1. Holding \in Int
        <3>1. CASE fills = <<>>
            BY <3>1 DEF Holding
        <3>2. CASE fills # <<>>
            <4>1. fills \in Seq(FillRow) /\ Len(fills) \in 1 .. Len(fills)
                BY <1>r, <3>2, EmptySeq DEF ShadowInv, FillsChained
            <4>2. fills[Len(fills)] \in FillRow
                BY <4>1, ElementOfSeq
            <4> QED BY <3>2, <4>2 DEF Holding, FillRow
        <3> QED BY <3>1, <3>2
    <2>2. q \in Int
        BY ShadowAssumption
    <2> QED BY <2>1, <2>2 DEF FillRow
<1>2. /\ fills' \in Seq(FillRow) /\ Total' = n + 1 /\ fills'[n + 1] = row
      /\ \A k \in 1 .. n : fills'[k] = fills[k]
    BY <1>a, <1>1, AppendFacts DEF ShadowInv, FillsChained, Total
<1>3. UNCHANGED <<Top, Logged, Recorded>>
    BY <1>a DEF Top, Logged, Recorded
<1>4. FillsChained'
    <2>1. ASSUME NEW k \in 1 .. n + 1 PROVE fills'[k].before = IF k = 1 THEN 0 ELSE fills'[k - 1].after
        <3>1. CASE k \in 1 .. n
            <4>1. k # 1 => k - 1 \in 1 .. n
                BY <1>r, <3>1
            <4> QED BY <1>2, <3>1, <4>1 DEF ShadowInv, FillsChained
        <3>2. CASE k = n + 1 /\ n = 0
            <4>1. fills = <<>>
                BY <1>r, <3>2, EmptySeq DEF ShadowInv, FillsChained, Total
            <4> QED BY <1>2, <3>2, <4>1 DEF Holding
        <3>3. CASE k = n + 1 /\ n # 0
            <4>1. fills # <<>> /\ n \in 1 .. n /\ (n + 1) - 1 = n /\ n + 1 # 1
                BY <1>r, <3>3, EmptySeq DEF Total
            <4> QED BY <1>2, <3>3, <4>1 DEF Holding, Total
        <3> QED BY <1>r, <3>1, <3>2, <3>3
    <2>2. started' \in 1 .. Total' + 1 /\ joined' \in 0 .. Total'
        BY <1>a, <1>r, <1>2
    <2> QED BY <1>2, <2>1, <2>2 DEF FillsChained
<1>5. RecordFits' /\ SeenFits'
    <2>1. 1 .. n \subseteq 1 .. n + 1 /\ started .. n \subseteq started .. n + 1
        BY <1>r
    <2>2. RecordFits'
        BY <1>a, <1>2, <1>3, <2>1 DEF ShadowInv, RecordFits, RecordedOnce
    <2>3. SeenFits'
        BY <1>a, <1>2, <1>3, <2>1 DEF ShadowInv, SeenFits
    <2> QED BY <2>2, <2>3
<1>6. RegistryFits'
    <2>1. conn' = "down" => inbox' = <<>>
        <3>1. DOMAIN <<>> = {}
            BY EmptySeq, LenProperties
        <3> QED BY <1>a, <3>1 DEF ShadowInv, RegistryFits
    <2>2. Active(registry') = Active(registry)
        BY <1>a DEF Active
    <2> QED BY <1>a, <2>1, <2>2 DEF ShadowInv, RegistryFits
<1>7. CASE Followed \notin DOMAIN subscribed
    <2>1. inbox' = inbox /\ Incoming' = Incoming
        BY <1>a, <1>7 DEF Incoming
    <2>2. 1 .. n \subseteq 1 .. n + 1
        BY <1>r
    <2>3. ArrivalsFit'
        BY <1>a, <1>2, <1>3, <2>1, <2>2 DEF ShadowInv, ArrivalsFit
    <2>4. \A k \in started .. n + 1 : k \in started .. n \/ k = n + 1
        BY <1>r
    <2>5. NoneOvertaken'
        <3> SUFFICES ASSUME NEW j \in DOMAIN inbox, NEW k \in started .. n + 1, k < inbox[j].fill,
                            k > joined - SnapshotSize \/ \E i \in DOMAIN inbox : i > j /\ inbox[i].fill = k
                     PROVE  k \in Recorded \/ \E h \in 1 .. j - 1 : inbox[h].fill = k
            BY <1>a, <1>2, <1>3, <2>1 DEF NoneOvertaken
        <3>1. k \in started .. n
            BY <1>r, <2>4
        <3> QED BY <3>1 DEF ShadowInv, NoneOvertaken
    <2>6. BelowTop'
        <3> SUFFICES ASSUME NEW k \in started .. n + 1, k <= Top, k > joined - SnapshotSize \/ k \in Incoming
                     PROVE  k \in Recorded
            BY <1>a, <1>2, <1>3, <2>1 DEF BelowTop
        <3>1. k \in started .. n
            BY <1>r, <2>4
        <3> QED BY <3>1 DEF ShadowInv, BelowTop
    <2>7. AllCome'
        BY <1>a, <1>7 DEF AllCome
    <2> QED BY <1>4, <1>5, <1>6, <2>3, <2>5, <2>6, <2>7 DEF ShadowInv
<1>8. CASE Followed \in DOMAIN subscribed
    <2>1. come \in Arrival
        BY <1>r DEF Arrival
    <2>2. /\ inbox' \in Seq(Arrival) /\ DOMAIN inbox' = 1 .. m + 1
          /\ \A i \in 1 .. m : inbox'[i] = inbox[i]
          /\ inbox'[m + 1] = come
        BY <1>a, <1>8, <2>1, AppendFacts DEF ShadowInv, ArrivalsFit
    <2>3. \A i \in 1 .. m : inbox'[i].fill = inbox[i].fill /\ inbox[i].fill \in 1 .. n
        BY <1>r, <2>2
    <2>4. inbox'[m + 1].fill = n + 1
        BY <2>2
    <2>5. Incoming' = Incoming \cup {n + 1}
        <3>1. \A i \in 1 .. m + 1 : i \in 1 .. m \/ i = m + 1
            BY <1>r
        <3>2. 1 .. m \subseteq 1 .. m + 1 /\ m + 1 \in 1 .. m + 1
            BY <1>r
        <3> QED BY <1>r, <2>2, <2>3, <2>4, <3>1, <3>2 DEF Incoming
    <2>6. ArrivalsFit'
        <3>1. Incoming' \subseteq 1 .. Total'
            BY <1>r, <1>2, <2>5 DEF ShadowInv, ArrivalsFit
        <3>2. ASSUME NEW i \in 1 .. m + 1
              PROVE  Top < inbox'[i].fill + SnapshotSize /\ \A j \in 1 .. i - 1 : inbox'[j].fill < inbox'[i].fill + SnapshotSize
            <4>1. CASE i \in 1 .. m
                <5>1. \A j \in 1 .. i - 1 : j \in 1 .. m
                    BY <1>r, <4>1
                <5> QED BY <1>r, <2>3, <4>1, <5>1 DEF ShadowInv, ArrivalsFit
            <4>2. CASE i = m + 1
                <5>1. ASSUME NEW j \in 1 .. i - 1 PROVE inbox'[j].fill < inbox'[i].fill + SnapshotSize
                    <6>1. j \in 1 .. m
                        BY <1>r, <4>2
                    <6>2. inbox'[j].fill \in 1 .. n /\ inbox'[i].fill = n + 1
                        BY <2>3, <2>4, <4>2, <6>1
                    <6> QED BY <1>r, <6>2
                <5>2. inbox'[i].fill = n + 1
                    BY <2>4, <4>2
                <5> QED BY <1>r, <5>1, <5>2
            <4> QED BY <1>r, <4>1, <4>2
        <3> QED BY <1>3, <2>2, <3>1, <3>2 DEF ArrivalsFit
    <2>7. NoneOvertaken'
        <3> SUFFICES ASSUME NEW j \in 1 .. m + 1, NEW k \in started .. n + 1, k < inbox'[j].fill,
                            k > joined - SnapshotSize \/ \E i \in 1 .. m + 1 : i > j /\ inbox'[i].fill = k
                     PROVE  k \in Recorded \/ \E h \in 1 .. j - 1 : inbox'[h].fill = k
            BY <1>b, <1>2, <1>3, <2>2 DEF NoneOvertaken
        <3>1. CASE j \in 1 .. m
            <4>1. inbox'[j].fill = inbox[j].fill /\ inbox[j].fill \in 1 .. n /\ k \in started .. n
                BY <1>r, <2>3, <3>1
            <4>2. k > joined - SnapshotSize \/ \E i \in DOMAIN inbox : i > j /\ inbox[i].fill = k
                <5>1. ASSUME NEW i \in 1 .. m + 1, i > j, inbox'[i].fill = k PROVE i \in 1 .. m /\ inbox[i].fill = k
                    <6>1. i # m + 1
                        BY <1>r, <2>4, <4>1, <5>1
                    <6>2. i \in 1 .. m
                        BY <1>r, <6>1
                    <6> QED BY <2>3, <5>1, <6>2
                <5> QED BY <1>r, <5>1
            <4>3. k \in Recorded \/ \E h \in 1 .. j - 1 : inbox[h].fill = k
                BY <1>r, <3>1, <4>1, <4>2 DEF ShadowInv, NoneOvertaken
            <4>4. \A h \in 1 .. j - 1 : h \in 1 .. m
                BY <1>r, <3>1
            <4> QED BY <2>3, <4>3, <4>4
        <3>2. CASE j = m + 1
            <4>1. k \in started .. n /\ j - 1 = m
                BY <1>r, <2>4, <3>2
            <4>2. k > joined - SnapshotSize
                BY <1>r, <3>2
            <4>3. k \in Recorded \/ k \in Incoming
                BY <1>8, <4>1, <4>2 DEF ShadowInv, AllCome
            <4>4. k \in Incoming => \E h \in 1 .. m : inbox'[h].fill = k
                BY <1>r, <2>3 DEF Incoming
            <4> QED BY <4>1, <4>3, <4>4
        <3> QED BY <1>r, <3>1, <3>2
    <2>8. BelowTop'
        <3> SUFFICES ASSUME NEW k \in started .. n + 1, k <= Top, k > joined - SnapshotSize \/ k \in Incoming \cup {n + 1}
                     PROVE  k \in Recorded
            BY <1>b, <1>2, <1>3, <2>5 DEF BelowTop
        <3>1. k \in started .. n /\ k # n + 1
            BY <1>r
        <3> QED BY <3>1 DEF ShadowInv, BelowTop
    <2>9. AllCome'
        <3> SUFFICES ASSUME NEW k \in started .. n + 1, k > joined - SnapshotSize
                     PROVE  k \in Recorded \/ k \in Incoming \cup {n + 1}
            BY <1>b, <1>2, <1>3, <2>5 DEF AllCome
        <3>1. k \in started .. n \/ k = n + 1
            BY <1>r
        <3> QED BY <1>8, <3>1 DEF ShadowInv, AllCome
    <2> QED BY <1>4, <1>5, <1>6, <2>6, <2>7, <2>8, <2>9 DEF ShadowInv
<1> QED BY <1>7, <1>8

LEMMA SubscribedFits == ASSUME ShadowInv, NEW w \in Wallets, Subscribe(w) PROVE RegistryFits'
<1>1. /\ UNCHANGED <<registry, conn, sync>> /\ sync.at = "walking" /\ Leaving = {} /\ w \in Joining
      /\ DOMAIN subscribed' = DOMAIN subscribed \cup {w}
    BY DEF Subscribe, NoneLeaves
<1>2. DOMAIN subscribed' \subseteq DOMAIN sync.desired /\ DOMAIN sync.desired \subseteq Wallets
    BY <1>1 DEF Leaving, Joining, ShadowInv, RegistryFits
<1>3. Cardinality(DOMAIN subscribed') <= MaxActive
    <2>1. IsFiniteSet(DOMAIN sync.desired) /\ IsFiniteSet(DOMAIN subscribed')
        BY <1>2, ShadowAssumption, FS_Subset
    <2>2. Cardinality(DOMAIN subscribed') <= Cardinality(DOMAIN sync.desired)
        BY <1>2, <2>1, FS_Subset
    <2>3. Cardinality(DOMAIN subscribed') \in Nat /\ Cardinality(DOMAIN sync.desired) \in Nat /\ MaxActive \in Nat
        BY <2>1, FS_CardinalityType, ShadowAssumption
    <2>4. Cardinality(DOMAIN sync.desired) <= MaxActive
        BY DEF ShadowInv, RegistryFits
    <2> QED BY <2>2, <2>3, <2>4
<1>4. conn # "down" /\ Active(registry') = Active(registry)
    BY <1>1 DEF ShadowInv, RegistryFits, Active
<1> QED BY <1>1, <1>2, <1>3, <1>4 DEF ShadowInv, RegistryFits

(* What a snapshot brings, behind what is on its way. *)
LEMMA SnapshotFacts ==
    ASSUME ShadowInv, NEW w \in Wallets, Subscribe(w), w = Followed
    PROVE  \E m \in 0 .. Total :
            /\ m <= SnapshotSize /\ (m = Total \/ m = SnapshotSize)
            /\ inbox' \in Seq(Arrival) /\ DOMAIN inbox' = 1 .. Len(inbox) + m
            /\ \A i \in 1 .. Len(inbox) : inbox'[i] = inbox[i]
            /\ \A i \in 1 .. m : inbox'[Len(inbox) + i].fill = Total - m + i
<1> DEFINE m == IF Len(fills) < SnapshotSize THEN Len(fills) ELSE SnapshotSize
           snap == [i \in 1 .. m |-> [fill |-> Len(fills) + i - m, snapshot |-> TRUE]]
<1>1. inbox' = inbox \o snap
    BY DEF Subscribe
<1>2. /\ Total \in Nat /\ Len(inbox) \in Nat /\ DOMAIN inbox = 1 .. Len(inbox) /\ SnapshotSize \in Nat
      /\ inbox \in Seq(Arrival) /\ Total = Len(fills)
    BY ShadowRanges DEF ShadowInv, ArrivalsFit, Total
<1>3. m \in 0 .. Total /\ m <= SnapshotSize /\ (m = Total \/ m = SnapshotSize)
    BY <1>2
<1> HIDE DEF m
<1>4. \A i \in 1 .. m : Len(fills) + i - m \in Nat /\ Len(fills) + i - m = Total - m + i
    BY <1>2, <1>3
<1>5. snap \in [1 .. m -> Arrival]
    BY <1>4 DEF Arrival
<1>6. snap \in Seq(Arrival) /\ Len(snap) = m
    <2>1. snap \in Seq(Arrival)
        <3>1. m \in Nat
            BY <1>2, <1>3
        <3> QED BY <1>5, <3>1, SeqDef
    <2>2. DOMAIN snap = 1 .. m /\ m \in Nat
        BY <1>2, <1>3
    <2> HIDE DEF snap
    <2>3. Len(snap) \in Nat /\ DOMAIN snap = 1 .. Len(snap)
        BY <2>1, LenProperties
    <2> QED BY <2>1, <2>2, <2>3
<1>7. \A i \in 1 .. m : snap[i].fill = Total - m + i
    BY <1>4
<1> HIDE DEF snap
<1>8. /\ inbox' \in Seq(Arrival) /\ Len(inbox') = Len(inbox) + m
      /\ \A i \in 1 .. Len(inbox) + m : inbox'[i] = IF i <= Len(inbox) THEN inbox[i] ELSE snap[i - Len(inbox)]
    BY <1>1, <1>2, <1>6, ConcatProperties
<1>9. DOMAIN inbox' = 1 .. Len(inbox) + m
    BY <1>8, LenProperties
<1>10. \A i \in 1 .. Len(inbox) : i \in 1 .. Len(inbox) + m /\ i <= Len(inbox)
    BY <1>2, <1>3
<1>11. \A i \in 1 .. m : Len(inbox) + i \in 1 .. Len(inbox) + m /\ ~ Len(inbox) + i <= Len(inbox) /\ (Len(inbox) + i) - Len(inbox) = i
    BY <1>2, <1>3
<1>12. \A i \in 1 .. m : inbox'[Len(inbox) + i].fill = Total - m + i
    BY <1>7, <1>8, <1>11
<1> QED BY <1>3, <1>8, <1>9, <1>10, <1>12

LEMMA SubscribeFits == ASSUME ShadowInv, NEW w \in Wallets, Subscribe(w) PROVE ShadowInv'
<1>a. /\ UNCHANGED <<fills, registry, conn, sync, started, seen, log, unwritten>>
      /\ DOMAIN subscribed' = DOMAIN subscribed \cup {w}
      /\ w = Followed => joined' = Total
      /\ w # Followed => UNCHANGED <<joined, inbox>>
    BY DEF Subscribe, Total
<1>1. RegistryFits'
    BY SubscribedFits
<1>2. CASE w # Followed
    <2>1. Followed \in DOMAIN subscribed' => Followed \in DOMAIN subscribed
        BY <1>a, <1>2
    <2>2. UNCHANGED <<fills, inbox, started, seen, log, joined, unwritten>>
        BY <1>a, <1>2
    <2> QED BY <1>1, <2>1, <2>2, FillsStay DEF ShadowInv
<1>3. CASE w = Followed
    <2> DEFINE n == Total
               l == Len(inbox)
               S == SnapshotSize
    <2>r. /\ n \in Nat /\ started \in 1 .. n + 1 /\ joined \in 0 .. n
          /\ S \in Nat /\ l \in Nat /\ DOMAIN inbox = 1 .. l
          /\ \A i \in DOMAIN inbox : inbox[i].fill \in 1 .. n /\ inbox[i].fill \in Incoming
          /\ Top \in 0 .. n /\ Recorded \subseteq 1 .. n
        BY ShadowRanges DEF ShadowInv
    <2>1. PICK m \in 0 .. n :
            /\ m <= S /\ (m = n \/ m = S)
            /\ inbox' \in Seq(Arrival) /\ DOMAIN inbox' = 1 .. l + m
            /\ \A i \in 1 .. l : inbox'[i] = inbox[i]
            /\ \A i \in 1 .. m : inbox'[l + i].fill = n - m + i
        BY <1>3, SnapshotFacts
    <2>2. UNCHANGED <<fills, started, seen, log, unwritten>> /\ joined' = n
        BY <1>a, <1>3
    <2>3. UNCHANGED <<Total, Top, Logged, Recorded>>
        BY <2>2 DEF Total, Top, Logged, Recorded
    <2>4. FillsChained' /\ RecordFits' /\ SeenFits'
        <3>1. joined' \in 0 .. Total'
            BY <2>2, <2>3, <2>r
        <3>2. FillsChained'
            BY <2>2, <2>3, <3>1 DEF ShadowInv, FillsChained
        <3>3. RecordFits' /\ SeenFits'
            BY <2>2, <2>3 DEF ShadowInv, RecordFits, RecordedOnce, SeenFits
        <3> QED BY <3>2, <3>3
    <2>5. /\ \A i \in 1 .. l : inbox'[i].fill = inbox[i].fill /\ inbox[i].fill \in 1 .. n
          /\ \A i \in l + 1 .. l + m : inbox'[i].fill = n - m + (i - l) /\ i - l \in 1 .. m
        <3>1. \A i \in l + 1 .. l + m : i - l \in 1 .. m /\ l + (i - l) = i
            BY <2>r, <2>1
        <3> QED BY <2>r, <2>1, <3>1
    <2>6. \A i \in 1 .. l + m : i \in 1 .. l \/ i \in l + 1 .. l + m
        BY <2>r, <2>1
    <2>7. \A k \in 1 .. n : k > n - S => k - (n - m) \in 1 .. m /\ l + (k - (n - m)) \in l + 1 .. l + m
        BY <2>r, <2>1
    <2>8. ASSUME NEW k \in 1 .. n, k > n - S PROVE inbox'[l + (k - (n - m))].fill = k
        <3> DEFINE h == l + (k - (n - m))
        <3>1. h \in l + 1 .. l + m
            BY <2>7, <2>8
        <3>2. n - m + (h - l) = k
            BY <2>r, <2>1
        <3> HIDE DEF h
        <3>3. inbox'[h].fill = k
            BY <2>5, <3>1, <3>2
        <3> QED BY <3>3 DEF h
    <2>9. Incoming' = Incoming \cup {k \in 1 .. n : k > n - S}
        <3>1. \A i \in l + 1 .. l + m : inbox'[i].fill \in 1 .. n /\ inbox'[i].fill > n - S
            BY <2>r, <2>1, <2>5
        <3>2. \A i \in 1 .. l + m : inbox'[i].fill \in Incoming \cup {k \in 1 .. n : k > n - S}
            BY <2>r, <2>5, <2>6, <3>1
        <3>3. \A k \in Incoming : \E i \in 1 .. l + m : inbox'[i].fill = k
            <4>1. 1 .. l \subseteq 1 .. l + m
                BY <2>r, <2>1
            <4>2. \A k \in Incoming : \E i \in 1 .. l : inbox[i].fill = k
                BY <2>r DEF Incoming
            <4> QED BY <2>5, <4>1, <4>2
        <3>4. l + 1 .. l + m \subseteq 1 .. l + m
            BY <2>r, <2>1
        <3>5. Incoming' = {inbox'[i].fill : i \in 1 .. l + m}
            BY <2>1 DEF Incoming
        <3>6. \A k \in 1 .. n : k > n - S => \E i \in 1 .. l + m : inbox'[i].fill = k
            BY <2>7, <2>8, <3>4
        <3> HIDE DEF n, l, S
        <3> QED BY <3>2, <3>3, <3>5, <3>6
    <2>10. ArrivalsFit'
        <3>1. Incoming' \subseteq 1 .. Total'
            BY <2>3, <2>9 DEF ShadowInv, ArrivalsFit
        <3>2. ASSUME NEW i \in 1 .. l + m
              PROVE  Top < inbox'[i].fill + S /\ \A j \in 1 .. i - 1 : inbox'[j].fill < inbox'[i].fill + S
            <4>1. CASE i \in 1 .. l
                <5>1. \A j \in 1 .. i - 1 : j \in 1 .. l
                    BY <2>r, <4>1
                <5> QED BY <2>r, <2>5, <4>1, <5>1 DEF ShadowInv, ArrivalsFit
            <4>2. CASE i \in l + 1 .. l + m
                <5>1. inbox'[i].fill + S > n
                    BY <2>r, <2>1, <2>5, <4>2
                <5>2. ASSUME NEW j \in 1 .. i - 1 PROVE inbox'[j].fill <= n /\ inbox'[j].fill \in Nat
                    <6>1. j \in 1 .. l + m
                        BY <2>r, <2>1, <4>2
                    <6>2. j \in 1 .. l \/ j \in l + 1 .. l + m
                        BY <2>6, <6>1
                    <6> HIDE DEF n, l, S
                    <6>3. CASE j \in 1 .. l
                        BY <2>r, <2>5, <6>3
                    <6>4. CASE j \in l + 1 .. l + m
                        <7>1. inbox'[j].fill = n - m + (j - l) /\ j - l \in 1 .. m /\ m \in 0 .. n
                            BY <2>5, <6>4
                        <7> QED BY <2>r, <7>1
                    <6> QED BY <6>2, <6>3, <6>4
                <5>3. inbox'[i].fill \in Nat
                    <6>1. inbox'[i].fill = n - m + (i - l)
                        BY <2>5, <4>2
                    <6>3. m \in 0 .. n
                        BY <2>1
                    <6> HIDE DEF n, l, S
                    <6>2. n - m + (i - l) \in Nat
                        BY <2>r, <4>2, <6>3
                    <6> QED BY <6>1, <6>2
                <5> HIDE DEF n, l, S
                <5>4. Top < inbox'[i].fill + S
                    BY <2>r, <5>1, <5>3
                <5>5. ASSUME NEW j \in 1 .. i - 1 PROVE inbox'[j].fill < inbox'[i].fill + S
                    <6>1. inbox'[j].fill <= n /\ inbox'[j].fill \in Nat
                        BY <5>2
                    <6> QED BY <2>r, <5>1, <5>3, <6>1
                <5> QED BY <5>4, <5>5
            <4> QED BY <2>6, <4>1, <4>2
        <3> QED BY <2>1, <2>3, <3>1, <3>2 DEF ArrivalsFit
    <2>11. NoneOvertaken'
        <3> SUFFICES ASSUME NEW j \in 1 .. l + m, NEW k \in started .. n, k < inbox'[j].fill,
                            k > n - S \/ \E i \in 1 .. l + m : i > j /\ inbox'[i].fill = k
                     PROVE  k \in Recorded \/ \E h \in 1 .. j - 1 : inbox'[h].fill = k
            BY <2>1, <2>2, <2>3 DEF NoneOvertaken
        <3>1. CASE j \in 1 .. l
            <4>1. k < inbox[j].fill
                BY <2>5, <3>1
            <4>2. k > joined - S \/ \E i \in 1 .. l : i > j /\ inbox[i].fill = k
                <5>1. k > n - S => k > joined - S
                    BY <2>r
                <5>2. ASSUME NEW i \in 1 .. l + m, i > j, inbox'[i].fill = k
                      PROVE  k > n - S \/ (i \in 1 .. l /\ inbox[i].fill = k)
                    BY <2>r, <2>1, <2>5, <2>6, <5>2
                <5> QED BY <5>1, <5>2
            <4>3. k \in Recorded \/ \E h \in 1 .. j - 1 : inbox[h].fill = k
                BY <2>r, <3>1, <4>1, <4>2 DEF ShadowInv, NoneOvertaken
            <4>4. \A h \in 1 .. j - 1 : h \in 1 .. l
                BY <2>r, <3>1
            <4> QED BY <2>5, <4>3, <4>4
        <3>2. CASE j \in l + 1 .. l + m
            <4>1. k > n - S
                <5> SUFFICES ASSUME NEW i \in 1 .. l + m, i > j, inbox'[i].fill = k PROVE FALSE
                    OBVIOUS
                <5>1. i \in l + 1 .. l + m
                    BY <2>r, <2>1, <3>2
                <5>2. inbox'[i].fill = n - m + (i - l) /\ inbox'[j].fill = n - m + (j - l)
                    BY <2>5, <3>2, <5>1
                <5>3. n - m + (i - l) < n - m + (j - l)
                    BY <5>2
                <5> QED BY <2>r, <2>1, <3>2, <5>1, <5>3
            <4>2. k \in 1 .. n
                BY <2>r
            <4> DEFINE h == l + (k - (n - m))
            <4>3. h \in l + 1 .. l + m /\ inbox'[h].fill = k
                BY <2>7, <2>8, <4>1, <4>2
            <4>4. h < j
                BY <2>r, <2>1, <2>5, <3>2, <4>2
            <4>5. h \in 1 .. j - 1
                BY <2>r, <2>1, <3>2, <4>3, <4>4
            <4> QED BY <4>3, <4>5
        <3> QED BY <2>6, <3>1, <3>2
    <2>12. BelowTop'
        <3> SUFFICES ASSUME NEW k \in started .. n, k <= Top, k > n - S \/ k \in Incoming
                     PROVE  k \in Recorded
            BY <2>2, <2>3, <2>9 DEF BelowTop
        <3>1. k > n - S => k > joined - S
            BY <2>r
        <3> QED BY <3>1 DEF ShadowInv, BelowTop
    <2>13. AllCome'
        <3> SUFFICES ASSUME NEW k \in started .. n, k > n - S PROVE k \in Incoming'
            BY <2>2, <2>3 DEF AllCome
        <3>1. k \in 1 .. n
            BY <2>r
        <3> QED BY <2>9, <3>1
    <2> QED BY <1>1, <2>4, <2>10, <2>11, <2>12, <2>13 DEF ShadowInv
<1> QED BY <1>2, <1>3

(* The first of the arrivals, with those behind it. *)
LEMMA FirstArrival ==
    ASSUME ShadowInv, inbox # <<>>
    PROVE  /\ Len(inbox) \in Nat \ {0} /\ Tail(inbox) \in Seq(Arrival) /\ DOMAIN Tail(inbox) = 1 .. Len(inbox) - 1
           /\ \A i \in 1 .. Len(inbox) - 1 : Tail(inbox)[i] = inbox[i + 1]
           /\ Head(inbox) = inbox[1] /\ Head(inbox) \in Arrival /\ Head(inbox).fill \in 1 .. Total
           /\ {Tail(inbox)[i].fill : i \in DOMAIN Tail(inbox)} \subseteq Incoming
<1>1. inbox \in Seq(Arrival)
    BY DEF ShadowInv, ArrivalsFit
<1>2. /\ Len(inbox) \in Nat \ {0} /\ Tail(inbox) \in Seq(Arrival) /\ DOMAIN Tail(inbox) = 1 .. Len(inbox) - 1
      /\ DOMAIN inbox = 1 .. Len(inbox)
      /\ \A i \in 1 .. Len(inbox) - 1 : Tail(inbox)[i] = inbox[i + 1]
      /\ Head(inbox) = inbox[1] /\ Head(inbox) \in Arrival
    BY <1>1, TailFacts
<1>3. Head(inbox).fill \in 1 .. Total
    <2>1. 1 \in DOMAIN inbox
        BY <1>2
    <2> QED BY <1>2, <2>1, ShadowRanges DEF ShadowInv
<1>4. \A i \in 1 .. Len(inbox) - 1 : i + 1 \in DOMAIN inbox /\ Tail(inbox)[i].fill = inbox[i + 1].fill
    BY <1>2
<1>5. {Tail(inbox)[i].fill : i \in DOMAIN Tail(inbox)} \subseteq Incoming
    BY <1>2, <1>4 DEF Incoming
<1> QED BY <1>2, <1>3, <1>5

(* Those behind the first are not overtaken once the first is done with. *)
LEMMA BehindTheFirst ==
    ASSUME ShadowInv, inbox # <<>>, UNCHANGED <<fills, started, joined>>,
           DOMAIN inbox' = 1 .. Len(inbox) - 1, \A i \in 1 .. Len(inbox) - 1 : inbox'[i] = inbox[i + 1],
           Recorded \subseteq Recorded', Head(inbox).fill >= started => Head(inbox).fill \in Recorded'
    PROVE  NoneOvertaken'
<1> DEFINE l == Len(inbox)
           f(i) == inbox[i].fill
<1>1. /\ l \in Nat \ {0} /\ DOMAIN inbox' = 1 .. l - 1 /\ Head(inbox) = inbox[1] /\ DOMAIN inbox = 1 .. l
      /\ \A i \in 1 .. l - 1 : inbox'[i].fill = f(i + 1)
      /\ Total' = Total /\ Total \in Nat /\ started \in 1 .. Total + 1
    BY FirstArrival, ShadowRanges DEF ShadowInv, Total
<1> SUFFICES ASSUME NEW j \in 1 .. l - 1, NEW k \in started .. Total, k < inbox'[j].fill,
                    k > joined - SnapshotSize \/ \E i \in 1 .. l - 1 : i > j /\ inbox'[i].fill = k
             PROVE  k \in Recorded' \/ \E h \in 1 .. j - 1 : inbox'[h].fill = k
    <2>1. started' = started /\ joined' = joined /\ DOMAIN inbox' = 1 .. l - 1 /\ Total' = Total
        BY <1>1
    <2>2. NoneOvertaken' = \A j \in 1 .. l - 1, k \in started .. Total :
            (k < inbox'[j].fill /\ (k > joined - SnapshotSize \/ \E i \in 1 .. l - 1 : i > j /\ inbox'[i].fill = k))
                => k \in Recorded' \/ \E h \in 1 .. j - 1 : inbox'[h].fill = k
        BY <2>1 DEF NoneOvertaken
    <2> QED BY <2>2
<1>2. j + 1 \in 1 .. l /\ (j + 1) - 1 = j /\ k < f(j + 1)
    BY <1>1
<1>3. k > joined - SnapshotSize \/ \E i \in DOMAIN inbox : i > j + 1 /\ f(i) = k
    <2> SUFFICES ASSUME NEW i \in 1 .. l - 1, i > j, inbox'[i].fill = k PROVE \E u \in DOMAIN inbox : u > j + 1 /\ f(u) = k
        OBVIOUS
    <2>1. i + 1 \in DOMAIN inbox /\ i + 1 > j + 1 /\ f(i + 1) = k
        BY <1>1
    <2> QED BY <2>1
<1>4. k \in Recorded \/ \E h \in 1 .. j : f(h) = k
    BY <1>1, <1>2, <1>3 DEF ShadowInv, NoneOvertaken
<1>5. ASSUME NEW h \in 1 .. j, f(h) = k PROVE k \in Recorded' \/ \E u \in 1 .. j - 1 : inbox'[u].fill = k
    <2>1. CASE h = 1
        <3>1. Head(inbox).fill = k /\ k >= started
            BY <1>1, <1>5, <2>1
        <3> QED BY <3>1
    <2>2. CASE h # 1
        <3>1. h - 1 \in 1 .. j - 1 /\ h - 1 \in 1 .. l - 1 /\ (h - 1) + 1 = h
            BY <1>1, <2>2
        <3>2. inbox'[h - 1].fill = k
            BY <1>1, <1>5, <3>1
        <3> QED BY <3>1, <3>2
    <2> QED BY <2>1, <2>2
<1> QED BY <1>4, <1>5

LEMMA SkipFits == ASSUME ShadowInv, Skip PROVE ShadowInv'
<1>a. /\ UNCHANGED <<fills, registry, conn, sync, subscribed, started, seen, log, joined, unwritten>>
      /\ inbox # <<>> /\ inbox' = Tail(inbox) /\ conn = "up"
      /\ Head(inbox).fill < started \/ Head(inbox).fill \in ToSet(seen)
    BY DEF Skip, TooOld
<1> DEFINE l == Len(inbox)
           first == Head(inbox).fill
<1>b. /\ l \in Nat \ {0} /\ Tail(inbox) \in Seq(Arrival) /\ DOMAIN Tail(inbox) = 1 .. l - 1
      /\ \A i \in 1 .. l - 1 : Tail(inbox)[i] = inbox[i + 1]
      /\ first = inbox[1].fill /\ first \in 1 .. Total
      /\ DOMAIN inbox = 1 .. l /\ started \in 1 .. Total + 1 /\ Total \in Nat
    BY <1>a, FirstArrival, ShadowRanges DEF ShadowInv
<1>1. UNCHANGED <<Total, Top, Logged, Recorded>>
    BY <1>a DEF Total, Top, Logged, Recorded
<1>2. Incoming' \subseteq Incoming
    BY <1>a, FirstArrival DEF Incoming
<1>3. first >= started => first \in Recorded
    BY <1>a, <1>b DEF ShadowInv, SeenFits
<1>4. RegistryFits'
    <2>1. Active(registry') = Active(registry) /\ conn' # "down"
        BY <1>a DEF Active
    <2> QED BY <1>a, <2>1 DEF ShadowInv, RegistryFits
<1>5. FillsChained' /\ RecordFits' /\ SeenFits'
    BY <1>a, <1>1 DEF ShadowInv, FillsChained, RecordFits, RecordedOnce, SeenFits
<1>6. ArrivalsFit'
    <2>1. Incoming' \subseteq 1 .. Total'
        BY <1>1, <1>2 DEF ShadowInv, ArrivalsFit
    <2>2. ASSUME NEW i \in 1 .. l - 1
          PROVE  /\ Top < inbox'[i].fill + SnapshotSize
                 /\ \A j \in 1 .. i - 1 : inbox'[j].fill < inbox'[i].fill + SnapshotSize
        <3>1. i + 1 \in DOMAIN inbox /\ inbox'[i] = inbox[i + 1]
            BY <1>a, <1>b
        <3>2. \A j \in 1 .. i - 1 : j \in 1 .. l - 1 /\ j + 1 \in 1 .. (i + 1) - 1
            BY <1>b
        <3>3. \A j \in 1 .. i - 1 : inbox'[j] = inbox[j + 1] /\ j + 1 \in 1 .. (i + 1) - 1
            BY <1>a, <1>b, <3>2
        <3> QED BY <3>1, <3>3 DEF ShadowInv, ArrivalsFit
    <2> QED BY <1>1, <1>a, <1>b, <2>1, <2>2 DEF ArrivalsFit
<1>7. NoneOvertaken'
    <2>1. DOMAIN inbox' = 1 .. l - 1 /\ \A i \in 1 .. l - 1 : inbox'[i] = inbox[i + 1]
        BY <1>a, <1>b
    <2> QED BY <1>a, <1>1, <1>3, <2>1, BehindTheFirst
<1>8. BelowTop'
    BY <1>a, <1>1, <1>2 DEF ShadowInv, BelowTop
<1>9. AllCome'
    <2>1. Incoming \subseteq Incoming' \cup {first}
        <3>1. \A i \in 1 .. l : i = 1 \/ (i - 1 \in 1 .. l - 1 /\ (i - 1) + 1 = i)
            BY <1>b
        <3>2. \A i \in 1 .. l : inbox[i].fill \in Incoming' \cup {first}
            BY <1>a, <1>b, <3>1 DEF Incoming
        <3> QED BY <1>b, <3>2 DEF Incoming
    <2> SUFFICES ASSUME Followed \in DOMAIN subscribed, NEW k \in started .. Total, k > joined - SnapshotSize
                 PROVE  k \in Recorded \/ k \in Incoming'
        BY <1>a, <1>1 DEF AllCome
    <2>2. k \in Recorded \/ k \in Incoming
        BY DEF ShadowInv, AllCome
    <2>3. k >= started
        BY <1>b
    <2> QED BY <1>3, <2>1, <2>2, <2>3
<1> QED BY <1>4, <1>5, <1>6, <1>7, <1>8, <1>9 DEF ShadowInv

(* What comes first and is not known was never recorded, and is the latest. *)
LEMMA FirstIsNew ==
    ASSUME ShadowInv, inbox # <<>>, ~TooOld(Head(inbox).fill), Head(inbox).fill \notin ToSet(seen)
    PROVE  Head(inbox).fill \in started .. Total /\ Top < Head(inbox).fill /\ Head(inbox).fill \notin Recorded
<1> DEFINE k == Head(inbox).fill
<1>1. /\ k \in 1 .. Total /\ 1 \in DOMAIN inbox /\ k = inbox[1].fill
      /\ Total \in Nat /\ started \in 1 .. Total + 1 /\ SnapshotSize \in Nat /\ MaxNoted \in Nat /\ SnapshotSize <= MaxNoted
      /\ Top \in 0 .. Total
    BY FirstArrival, ShadowRanges DEF ShadowInv
<1>2. k >= started
    BY <1>1 DEF TooOld
<1>3. Top < k + SnapshotSize /\ k \in Incoming
    BY <1>1, ShadowRanges DEF ShadowInv, ArrivalsFit
<1>4. k \notin ToSet(seen) /\ k \in started .. Total
    BY <1>1, <1>2
<1> HIDE DEF k
<1>5. k \notin Recorded
    <2> SUFFICES ASSUME k \in Recorded PROVE FALSE
        OBVIOUS
    <2>1. k + MaxNoted <= Top
        BY <1>2, <1>4 DEF ShadowInv, SeenFits
    <2> QED BY <1>1, <1>3, <2>1
<1>6. Top < k
    <2> SUFFICES ASSUME k <= Top PROVE FALSE
        BY <1>1, <1>4
    <2> QED BY <1>3, <1>4, <1>5 DEF ShadowInv, BelowTop
<1> QED BY <1>4, <1>5, <1>6 DEF k

(* What a fill that is recorded makes of what is known and of what is recorded. *)
LEMMA RecordedFits ==
    ASSUME ShadowInv, NEW written \in BOOLEAN, RecordFill(written)
    PROVE  LET k == Head(inbox).fill IN
           /\ k \in started .. Total /\ Recorded' = Recorded \cup {k} /\ Top' = k
           /\ FillsChained' /\ RecordFits' /\ SeenFits'
<1> DEFINE k == Head(inbox).fill
<1>a. /\ inbox # <<>> /\ ~TooOld(k) /\ k \notin ToSet(seen) /\ seen' = Noted(k)
      /\ written => /\ log' = Append(log, [fill |-> k, snapshot |-> Head(inbox).snapshot, mine |-> Followed \in DOMAIN subscribed])
                    /\ UNCHANGED unwritten
      /\ ~written => unwritten' = unwritten \cup {k} /\ UNCHANGED log
      /\ UNCHANGED <<fills, started, joined>>
    BY DEF RecordFill
<1>1. k \in started .. Total /\ Top < k /\ k \notin Recorded
    BY <1>a, FirstIsNew
<1>2. /\ Total \in Nat /\ started \in 1 .. Total + 1 /\ MaxNoted \in Nat \ {0} /\ Top \in 0 .. Total /\ k \in Nat
      /\ Len(log) \in Nat /\ DOMAIN log = 1 .. Len(log) /\ log \in Seq(LogRow) /\ Head(inbox) \in Arrival /\ Total' = Total
    BY <1>a, <1>1, ShadowRanges, FirstArrival DEF ShadowInv, RecordFits, Total
<1> DEFINE row == [fill |-> k, snapshot |-> Head(inbox).snapshot, mine |-> Followed \in DOMAIN subscribed]
<1>3. row \in LogRow /\ row.fill = k
    BY <1>2 DEF LogRow, Arrival
<1>t. seen' = Noted(k) /\ UNCHANGED <<fills, started, joined>>
    BY <1>a
<1> HIDE DEF k
<1>4. log' \in Seq(LogRow) /\ RecordedOnce' /\ Recorded' = Recorded \cup {k}
    <2>1. CASE ~written
        <3>1. log' = log /\ unwritten' = unwritten \cup {k}
            BY <1>a, <2>1
        <3>2. Logged' = Logged
            BY <3>1 DEF Logged
        <3> QED BY <1>2, <3>1, <3>2 DEF Recorded, ShadowInv, RecordFits, RecordedOnce
    <2>2. CASE written
        <3> DEFINE l == Len(log)
        <3>1. log' = Append(log, row) /\ unwritten' = unwritten
            BY <1>a, <2>2
        <3> HIDE DEF row
        <3>2. /\ log' \in Seq(LogRow) /\ DOMAIN log' = 1 .. l + 1
              /\ \A i \in 1 .. l : log'[i] = log[i]
              /\ log'[l + 1] = row
            BY <1>2, <1>3, <3>1, AppendFacts
        <3>3. \A i \in 1 .. l : log'[i].fill = log[i].fill /\ log[i].fill \in Logged /\ log[i].fill # k
            <4>1. \A i \in 1 .. l : log[i].fill \in Logged
                BY <1>2 DEF Logged
            <4> QED BY <1>1, <3>2, <4>1 DEF Recorded
        <3>4. log'[l + 1].fill = k /\ \A i \in 1 .. l + 1 : i \in 1 .. l \/ i = l + 1
            BY <1>2, <1>3, <3>2
        <3>5. Logged' = Logged \cup {k}
            <4>1. 1 .. l \subseteq 1 .. l + 1 /\ l + 1 \in 1 .. l + 1
                BY <1>2
            <4>2. Logged' = {log'[i].fill : i \in 1 .. l + 1}
                BY <3>2 DEF Logged
            <4>3. Logged = {log[i].fill : i \in 1 .. l}
                BY <1>2 DEF Logged
            <4> HIDE DEF l
            <4> QED BY <3>3, <3>4, <4>1, <4>2, <4>3
        <3>6. RecordedOnce'
            <4> SUFFICES ASSUME NEW i \in 1 .. l + 1, NEW j \in 1 .. l + 1, log'[i].fill = log'[j].fill PROVE i = j
                BY <3>2 DEF RecordedOnce
            <4>1. CASE i \in 1 .. l /\ j \in 1 .. l
                BY <1>2, <3>3, <4>1 DEF ShadowInv, RecordFits, RecordedOnce
            <4>2. CASE i \in 1 .. l /\ j = l + 1
                BY <3>3, <3>4, <4>2
            <4>3. CASE i = l + 1 /\ j \in 1 .. l
                BY <3>3, <3>4, <4>3
            <4> QED BY <3>4, <4>1, <4>2, <4>3
        <3> QED BY <3>1, <3>2, <3>5, <3>6 DEF Recorded
    <2> QED BY <2>1, <2>2
<1>5. /\ seen' \in Seq(Nat) /\ Len(seen') <= MaxNoted /\ ToSet(seen') \subseteq ToSet(seen) \cup {k} /\ Spaced(seen')
      /\ Top' = k /\ k \in ToSet(seen')
      /\ \A u \in ToSet(seen) : u \in ToSet(seen') \/ u + MaxNoted <= k
    <2>1. seen \in Seq(Nat) /\ Len(seen) <= MaxNoted /\ Spaced(seen) /\ (seen # <<>> => seen[Len(seen)] < k)
        BY <1>1 DEF ShadowInv, SeenFits, Top
    <2> DEFINE r == LastOnes(Append(seen, k), MaxNoted)
    <2>2. /\ r \in Seq(Nat) /\ Len(r) <= MaxNoted /\ ToSet(r) \subseteq ToSet(seen) \cup {k} /\ Spaced(r)
          /\ r # <<>> /\ r[Len(r)] = k /\ k \in ToSet(r)
          /\ \A u \in ToSet(seen) : u \in ToSet(r) \/ u + MaxNoted <= k
        BY <1>2, <2>1, KeptFacts
    <2>3. seen' = r
        BY <1>t DEF Noted, Newest, LastOnes
    <2> HIDE DEF r
    <2> QED BY <2>2, <2>3 DEF Top
<1>6. SeenFits'
    <2>1. ToSet(seen') \subseteq started .. Total /\ ToSet(seen') \subseteq Recorded'
        BY <1>1, <1>4, <1>5 DEF ShadowInv, SeenFits
    <2>2. ASSUME NEW u \in Recorded', u >= started PROVE u \in ToSet(seen') \/ u + MaxNoted <= k
        <3>1. CASE u = k
            BY <1>5, <3>1
        <3>2. CASE u \in ToSet(seen)
            BY <1>5, <3>2
        <3>3. CASE u \in Recorded /\ u \notin ToSet(seen)
            <4>1. u + MaxNoted <= Top /\ u \in 1 .. Total
                BY <2>2, <3>3 DEF ShadowInv, SeenFits, RecordFits
            <4> QED BY <1>1, <1>2, <4>1
        <3> QED BY <1>4, <2>2, <3>1, <3>2, <3>3
    <2>3. started' = started /\ Total' = Total
        BY <1>2, <1>t
    <2> QED BY <1>5, <2>1, <2>2, <2>3 DEF SeenFits
<1>7. FillsChained'
    BY <1>2, <1>t DEF ShadowInv, FillsChained
<1>8. RecordFits'
    <2>1. Recorded' \subseteq 1 .. Total'
        BY <1>1, <1>2, <1>4 DEF ShadowInv, RecordFits
    <2> QED BY <1>4, <2>1 DEF RecordFits
<1> QED BY <1>1, <1>4, <1>5, <1>6, <1>7, <1>8 DEF k

LEMMA RecordFillFits == ASSUME ShadowInv, NEW written \in BOOLEAN, RecordFill(written) PROVE ShadowInv'
<1> DEFINE k == Head(inbox).fill
           l == Len(inbox)
<1>a. /\ inbox # <<>> /\ conn = "up" /\ UNCHANGED <<fills, started, joined>>
      /\ written => inbox' = Tail(inbox) /\ UNCHANGED <<conn, sync, subscribed>>
      /\ ~written => Disconnected
      /\ registry' = registry \/ registry' = Learned
    BY DEF RecordFill
<1>1. /\ k \in started .. Total /\ Recorded' = Recorded \cup {k} /\ Top' = k
      /\ FillsChained' /\ RecordFits' /\ SeenFits'
    BY RecordedFits
<1>b. /\ l \in Nat \ {0} /\ Tail(inbox) \in Seq(Arrival) /\ DOMAIN Tail(inbox) = 1 .. l - 1
      /\ \A i \in 1 .. l - 1 : Tail(inbox)[i] = inbox[i + 1]
      /\ k = inbox[1].fill /\ k \in 1 .. Total
      /\ DOMAIN inbox = 1 .. l /\ started \in 1 .. Total + 1 /\ Total \in Nat /\ Total' = Total
    BY <1>a, FirstArrival, ShadowRanges DEF ShadowInv, Total
<1>2. registry' \in [Wallets -> Listed] /\ Active(registry') = Active(registry)
    <2>1. registry \in [Wallets -> Listed]
        BY DEF ShadowInv, RegistryFits
    <2>2. CASE registry' = registry
        BY <2>1, <2>2 DEF Active
    <2>3. CASE registry' = [registry EXCEPT ![Followed].coin = "known"]
        <3>1. /\ registry' \in [Wallets -> Listed]
              /\ \A w \in Wallets : registry'[w].stage = registry[w].stage
            BY <2>1, <2>3, ShadowAssumption DEF Listed
        <3> QED BY <3>1 DEF Active
    <2> QED BY <1>a, <2>2, <2>3 DEF Learned
<1>c. Cardinality(Active(registry')) <= MaxActive
    BY <1>2 DEF ShadowInv, RegistryFits
<1>3. Incoming' \subseteq Incoming
    <2>1. CASE written
        BY <1>a, <2>1, FirstArrival DEF Incoming
    <2>2. CASE ~written
        <3>1. DOMAIN <<>> = {} /\ inbox' = <<>>
            BY <1>a, <2>2, EmptySeq, LenProperties DEF Disconnected
        <3> QED BY <3>1 DEF Incoming
    <2> QED BY <2>1, <2>2
<1>4. BelowTop'
    <2> SUFFICES ASSUME NEW u \in started .. Total, u <= k, u > joined - SnapshotSize \/ u \in Incoming, u # k
                 PROVE  u \in Recorded
        <3>1. started' = started /\ joined' = joined /\ Total' = Total
            BY <1>a, <1>b
        <3> HIDE DEF k
        <3> QED BY <1>1, <1>3, <3>1 DEF BelowTop
    <2>1. u < inbox[1].fill
        BY <1>b
    <2>2. u > joined - SnapshotSize \/ \E i \in DOMAIN inbox : i > 1 /\ inbox[i].fill = u
        <3> SUFFICES ASSUME u \in Incoming PROVE \E i \in DOMAIN inbox : i > 1 /\ inbox[i].fill = u
            OBVIOUS
        <3>1. PICK i \in 1 .. l : inbox[i].fill = u
            BY <1>b DEF Incoming
        <3>2. i # 1
            BY <1>b, <3>1
        <3> QED BY <1>b, <3>1, <3>2
    <2>3. 1 \in DOMAIN inbox /\ ~\E h \in 1 .. 1 - 1 : TRUE
        BY <1>b
    <2> QED BY <2>1, <2>2, <2>3 DEF ShadowInv, NoneOvertaken
<1>5. CASE ~written
    <2>1. RegistryFits' /\ ArrivalsFit' /\ NoneOvertaken' /\ AllCome'
        BY <1>a, <1>c, <1>1, <1>2, <1>5, DisconnectedFits DEF ShadowInv
    <2> QED BY <1>1, <1>4, <2>1 DEF ShadowInv
<1>6. CASE written
    <2>a. inbox' = Tail(inbox) /\ UNCHANGED <<conn, sync, subscribed>>
        BY <1>a, <1>6
    <2>1. RegistryFits'
        BY <1>a, <1>c, <1>2, <2>a DEF ShadowInv, RegistryFits
    <2>2. DOMAIN inbox' = 1 .. l - 1 /\ \A i \in 1 .. l - 1 : inbox'[i] = inbox[i + 1]
        BY <1>b, <2>a
    <2>3. ArrivalsFit'
        <3>1. Incoming' \subseteq 1 .. Total'
            BY <1>b, <1>3 DEF ShadowInv, ArrivalsFit
        <3>2. ASSUME NEW i \in 1 .. l - 1
              PROVE  /\ k < inbox'[i].fill + SnapshotSize
                     /\ \A j \in 1 .. i - 1 : inbox'[j].fill < inbox'[i].fill + SnapshotSize
            <4>1. i + 1 \in DOMAIN inbox /\ inbox'[i] = inbox[i + 1] /\ 1 \in 1 .. (i + 1) - 1
                BY <1>b, <2>2
            <4>2. \A j \in 1 .. i - 1 : j \in 1 .. l - 1 /\ j + 1 \in 1 .. (i + 1) - 1
                BY <1>b
            <4>3. \A j \in 1 .. i - 1 : inbox'[j] = inbox[j + 1] /\ j + 1 \in 1 .. (i + 1) - 1
                BY <2>2, <4>2
            <4> HIDE DEF k, l
            <4> QED BY <1>b, <4>1, <4>3 DEF ShadowInv, ArrivalsFit
        <3>3. inbox' \in Seq(Arrival)
            BY <1>b, <2>a
        <3> HIDE DEF k, l
        <3> QED BY <1>1, <2>2, <3>1, <3>2, <3>3 DEF ArrivalsFit
    <2>4. NoneOvertaken'
        BY <1>1, <1>a, <2>2, BehindTheFirst
    <2>5. AllCome'
        <3>1. Incoming \subseteq Incoming' \cup {k}
            <4>1. \A i \in 1 .. l : i = 1 \/ (i - 1 \in 1 .. l - 1 /\ (i - 1) + 1 = i)
                BY <1>b
            <4>2. ASSUME NEW i \in 1 .. l PROVE inbox[i].fill \in Incoming' \cup {k}
                <5>1. CASE i = 1
                    BY <1>b, <5>1
                <5>2. CASE i # 1
                    <6>1. i - 1 \in DOMAIN inbox' /\ inbox'[i - 1] = inbox[i]
                        BY <2>2, <4>1, <5>2
                    <6> QED BY <6>1 DEF Incoming
                <5> QED BY <5>1, <5>2
            <4> QED BY <1>b, <4>2 DEF Incoming
        <3>2. started' = started /\ joined' = joined /\ Total' = Total /\ subscribed' = subscribed
            BY <1>a, <1>b, <2>a
        <3> HIDE DEF k
        <3> QED BY <1>1, <3>1, <3>2 DEF AllCome, ShadowInv
    <2> QED BY <1>1, <1>4, <2>1, <2>3, <2>4, <2>5 DEF ShadowInv
<1> QED BY <1>5, <1>6

LEMMA ShadowStep == ShadowInv /\ [ShadowNext]_wsVars => ShadowInv'
<1> SUFFICES ASSUME ShadowInv, [ShadowNext]_wsVars PROVE ShadowInv'
    OBVIOUS
<1>1. ASSUME NEW q \in -MaxPosition .. MaxPosition, TradeTo(q) PROVE ShadowInv'
    BY <1>1, TradeToFits
<1>2. ASSUME NEW w \in Wallets, NEW stage \in {"off", "validation", "approved"}, Update(w, stage) PROVE ShadowInv'
    BY <1>2, UpdateFits
<1>3. CASE SyncStep
    <2>1. ASSUME NEW w \in Wallets, Unsubscribe(w) PROVE ShadowInv'
        BY <2>1, UnsubscribeFits
    <2>2. ASSUME NEW w \in Wallets, Subscribe(w) PROVE ShadowInv'
        BY <2>2, SubscribeFits
    <2> QED BY <1>3, <2>1, <2>2, SyncReadsFits, SyncEndsFits DEF SyncStep
<1>4. ASSUME NEW written \in BOOLEAN, RecordFill(written) PROVE ShadowInv'
    BY <1>4, RecordFillFits
<1>5. CASE UNCHANGED wsVars
    <2>1. /\ UNCHANGED <<fills, inbox, started, seen, log, joined, unwritten>>
          /\ UNCHANGED <<registry, conn, sync, subscribed>>
        BY <1>5 DEF wsVars
    <2>2. RegistryFits'
        BY <2>1 DEF ShadowInv, RegistryFits, Active
    <2> QED BY <2>1, <2>2, FillsStay DEF ShadowInv
<1> QED BY <1>1, <1>2, <1>3, <1>4, <1>5, ConnectFits, LostFits, RestartFits, SkipFits DEF ShadowNext

-----------------------------------------------------------------------------
(* What the invariant says of the wallet that is followed. *)

LEMMA AllDrained == ShadowInv => ShadowTypeOK /\ DrainedIsCaptured /\ SubscriptionsWithinLimit /\ RecordedOnce
<1> SUFFICES ASSUME ShadowInv PROVE ShadowTypeOK /\ DrainedIsCaptured /\ SubscriptionsWithinLimit /\ RecordedOnce
    OBVIOUS
<1>1. /\ Total \in Nat /\ DOMAIN fills = 1 .. Total /\ started \in 1 .. Total + 1 /\ Recorded \subseteq 1 .. Total
    BY ShadowRanges DEF ShadowInv
<1>2. ShadowTypeOK
    <2>1. \A i \in DOMAIN log : log[i].fill \in DOMAIN fills
        BY <1>1 DEF Recorded, Logged
    <2>2. started \in 1 .. Len(fills) + 1 /\ Len(seen) <= MaxNoted
        BY <1>1 DEF ShadowInv, SeenFits, Total
    <2> QED BY <2>1, <2>2 DEF ShadowTypeOK, ShadowInv, RegistryFits
<1>3. DrainedIsCaptured
    <2> SUFFICES ASSUME Followed \in DOMAIN subscribed, inbox = <<>>, NEW k \in 1 .. Total, k >= started, k > joined - SnapshotSize
                 PROVE  k \in unwritten \/ \E i \in DOMAIN log : log[i].fill = k
        BY <1>1 DEF DrainedIsCaptured
    <2>1. Incoming = {}
        BY EmptySeq, LenProperties DEF Incoming
    <2>2. k \in started .. Total
        BY <1>1
    <2>3. k \in Recorded
        BY <2>1, <2>2 DEF ShadowInv, AllCome
    <2> QED BY <2>3 DEF Recorded, Logged
<1> QED BY <1>2, <1>3 DEF ShadowInv, RegistryFits, RecordFits, SubscriptionsWithinLimit

LEMMA OperatorChooses ==
    ShadowInv /\ [ShadowNext]_wsVars => (seen' # seen => \A w \in Wallets : registry'[w].stage = registry[w].stage)
<1> SUFFICES ASSUME ShadowInv, [ShadowNext]_wsVars, seen' # seen, NEW w \in Wallets PROVE registry'[w].stage = registry[w].stage
    OBVIOUS
<1>1. ShadowRestart \/ \E written \in BOOLEAN : RecordFill(written)
    BY DEF ShadowNext, SyncStep, wsVars, TradeTo, Update, Connect, FillsLost, SyncReads, Unsubscribe, Subscribe, SyncEnds, Skip
<1>2. CASE ShadowRestart
    BY <1>2 DEF ShadowRestart
<1>3. ASSUME NEW written \in BOOLEAN, RecordFill(written) PROVE registry'[w].stage = registry[w].stage
    <2>1. registry \in [Wallets -> Listed]
        BY DEF ShadowInv, RegistryFits
    <2>2. registry' = registry \/ registry' = [registry EXCEPT ![Followed].coin = "known"]
        BY <1>3 DEF RecordFill, Learned
    <2> QED BY <2>1, <2>2, ShadowAssumption DEF Listed
<1> QED BY <1>1, <1>2, <1>3

-----------------------------------------------------------------------------
(* The walk over the fills that pairs those written live into episodes. *)

Trail[k \in 0 .. Total] == IF k = 0 THEN Start ELSE Paired(Trail[k - 1], k)
TrailTo(f, n) == f = [k \in 0 .. n |-> IF k = 0 THEN Start ELSE Paired(f[k - 1], k)]

LEMMA TrailExists == ASSUME NEW n \in Nat PROVE \E f : TrailTo(f, n)
<1> DEFINE walked == {m \in Nat : \E f : TrailTo(f, m)}
<1>1. 0 \in walked
    <2> DEFINE f == [k \in 0 .. 0 |-> Start]
    <2>1. f = [k \in 0 .. 0 |-> IF k = 0 THEN Start ELSE Paired(f[k - 1], k)]
        OBVIOUS
    <2> HIDE DEF f
    <2> QED BY <2>1 DEF TrailTo
<1>2. ASSUME NEW m \in 0 .. n, m \in walked, m < n PROVE m + 1 \in walked
    <2>1. PICK f : f = [k \in 0 .. m |-> IF k = 0 THEN Start ELSE Paired(f[k - 1], k)]
        BY <1>2 DEF TrailTo
    <2> DEFINE g == [k \in 0 .. (m + 1) |-> IF k = 0 THEN Start ELSE Paired(f[k - 1], k)]
    <2>2. \A k \in 0 .. m : g[k] = f[k]
        BY <2>1
    <2>3. \A k \in 0 .. (m + 1) : k # 0 => k - 1 \in 0 .. m
        OBVIOUS
    <2>4. g = [k \in 0 .. (m + 1) |-> IF k = 0 THEN Start ELSE Paired(g[k - 1], k)]
        BY <2>2, <2>3
    <2> HIDE DEF g
    <2> QED BY <2>4 DEF TrailTo
<1> HIDE DEF walked
<1>3. n \in walked
    BY <1>1, <1>2, CountUp
<1> QED BY <1>3 DEF walked

(* What a fill makes of the open one and of the episodes found. *)
PairStep(s, k, r) ==
    /\ r \in Episode
    /\ ~WrittenLive(k) \/ (fills[k].before # 0 /\ ~Ends(k)) => r = s
    /\ WrittenLive(k) /\ fills[k].before = 0 => r.open = k /\ r.found = s.found
    /\ WrittenLive(k) /\ Ends(k) =>
        /\ r.open = (IF fills[k].after = 0 THEN 0 ELSE k)
        /\ r.found = IF s.open # 0 /\ SameSide(s.open, PositionSide(fills[k].before)) THEN s.found \cup {<<s.open, k>>} ELSE s.found

LEMMA FillFacts ==
    ASSUME FillsChained
    PROVE  /\ Total \in Nat /\ DOMAIN fills = 1 .. Total
           /\ \A k \in 1 .. Total : fills[k].before \in Int /\ fills[k].after \in Int
           /\ \A k \in 1 .. Total : k # 1 => fills[k].before = fills[k - 1].after
<1>1. Total \in Nat /\ DOMAIN fills = 1 .. Total /\ \A k \in 1 .. Total : fills[k] \in FillRow
    BY LenProperties, ElementOfSeq DEF FillsChained, Total
<1> QED BY <1>1 DEF FillsChained, FillRow

(* A fill that ends something changes the side of the position. *)
LEMMA SidesOfFills ==
    ASSUME FillsChained, NEW k \in 1 .. Total
    PROVE  /\ Ends(k) <=> fills[k].before # 0 /\ PositionSide(fills[k].before) # PositionSide(fills[k].after)
           /\ fills[k].before * fills[k].after <= 0 <=> (fills[k].before = 0 \/ Ends(k))
           /\ (fills[k].before = 0 <=> PositionSide(fills[k].before) = 0) /\ (fills[k].after = 0 <=> PositionSide(fills[k].after) = 0)
<1>1. fills[k].before \in Int /\ fills[k].after \in Int
    BY FillFacts
<1>2. ASSUME NEW p \in Int, NEW q \in Int
      PROVE  /\ (p # 0 /\ p * q <= 0) <=> (p # 0 /\ PositionSide(p) # PositionSide(q))
             /\ p * q <= 0 <=> (p = 0 \/ (p # 0 /\ p * q <= 0))
             /\ p = 0 <=> PositionSide(p) = 0
    <2>1. (p # 0 /\ p * q <= 0) <=> (p # 0 /\ PositionSide(p) # PositionSide(q))
        BY DEF PositionSide
    <2>2. p = 0 => p * q <= 0
        OBVIOUS
    <2>3. p = 0 <=> PositionSide(p) = 0
        BY DEF PositionSide
    <2> QED BY <2>1, <2>2, <2>3
<1> QED BY <1>1, <1>2 DEF Ends

LEMMA StepOfTrail ==
    ASSUME FillsChained, NEW s \in Episode, NEW k \in 1 .. Total
    PROVE  PairStep(s, k, Paired(s, k))
<1> DEFINE f == fills[k]
           r == Paired(s, k)
<1>1. /\ f.before \in Int /\ f.after \in Int /\ k \in Nat
      /\ s.open \in Nat /\ s.found \in SUBSET (Nat \X Nat) /\ s = [open |-> s.open, found |-> s.found]
    BY FillFacts DEF Episode
<1>2. f.before * f.after \in Int
    BY <1>1
<1>3. CASE ~WrittenLive(k) \/ (f.before # 0 /\ ~Ends(k))
    <2>1. r = s
        BY <1>1, <1>2, <1>3 DEF Paired, Ends
    <2>2. ~(WrittenLive(k) /\ f.before = 0) /\ ~(WrittenLive(k) /\ Ends(k))
        BY <1>3 DEF Ends
    <2> QED BY <2>1, <2>2 DEF PairStep
<1>4. CASE WrittenLive(k) /\ f.before = 0
    <2>1. r = [s EXCEPT !.open = k]
        BY <1>4 DEF Paired
    <2>2. r \in Episode /\ r.open = k /\ r.found = s.found
        BY <1>1, <2>1 DEF Episode
    <2> QED BY <1>4, <2>2 DEF PairStep, Ends
<1>5. CASE WrittenLive(k) /\ Ends(k)
    <2> DEFINE same == s.open # 0 /\ SameSide(s.open, PositionSide(f.before))
               found == IF same THEN s.found \cup {<<s.open, k>>} ELSE s.found
    <2>1. f.before # 0 /\ ~(f.before * f.after > 0)
        BY <1>2, <1>5 DEF Ends
    <2>2. r = [open |-> IF f.after = 0 THEN 0 ELSE k, found |-> found]
        BY <1>5, <2>1 DEF Paired
    <2>3. found \in SUBSET (Nat \X Nat)
        BY <1>1
    <2> HIDE DEF found
    <2>4. r \in Episode /\ r.open = (IF f.after = 0 THEN 0 ELSE k) /\ r.found = found
        BY <1>1, <2>2, <2>3 DEF Episode
    <2> QED BY <1>5, <2>1, <2>4 DEF PairStep, found
<1> QED BY <1>3, <1>4, <1>5

LEMMA TrailSteps ==
    ASSUME FillsChained
    PROVE  /\ Trail[0] = Start /\ \A k \in 1 .. Total : Trail[k] = Paired(Trail[k - 1], k)
           /\ Prospective = Trail[Total].found
<1>1. Total \in Nat
    BY FillFacts
<1>2. \E f : f = [k \in 0 .. Total |-> IF k = 0 THEN Start ELSE Paired(f[k - 1], k)]
    BY <1>1, TrailExists DEF TrailTo
<1>3. Trail = [k \in 0 .. Total |-> IF k = 0 THEN Start ELSE Paired(Trail[k - 1], k)]
    BY <1>2 DEF Trail
<1>4. Prospective = Trail[Total].found
    BY DEF Prospective, Trail, Start, Total
<1>5. 0 \in 0 .. Total /\ \A k \in 1 .. Total : k \in 0 .. Total /\ k # 0
    BY <1>1
<1> QED BY <1>3, <1>4, <1>5

LEMMA TrailTyped == ASSUME FillsChained PROVE \A k \in 0 .. Total : Trail[k] \in Episode
<1> DEFINE typed == {k \in 0 .. Total : Trail[k] \in Episode}
<1>1. Total \in Nat /\ 0 \in typed
    BY FillFacts, TrailSteps DEF Episode, Start
<1>2. ASSUME NEW k \in 0 .. Total, k \in typed, k < Total PROVE k + 1 \in typed
    <2>1. k + 1 \in 1 .. Total /\ (k + 1) - 1 = k /\ k + 1 \in 0 .. Total
        BY <1>1, <1>2
    <2>2. Trail[k + 1] = Paired(Trail[k], k + 1) /\ Trail[k] \in Episode
        BY <1>2, <2>1, TrailSteps
    <2>3. PairStep(Trail[k], k + 1, Trail[k + 1])
        BY <2>1, <2>2, StepOfTrail
    <2> QED BY <2>1, <2>3 DEF PairStep
<1> HIDE DEF typed
<1>3. \A k \in 0 .. Total : k \in typed
    BY <1>1, <1>2, CountUp
<1> QED BY <1>3 DEF typed

LEMMA NextOfTrail ==
    ASSUME FillsChained, NEW k \in 1 .. Total
    PROVE  k - 1 \in 0 .. Total /\ Trail[k - 1].open \in Nat /\ PairStep(Trail[k - 1], k, Trail[k])
<1>1. k - 1 \in 0 .. Total
    BY FillFacts
<1>2. Trail[k] = Paired(Trail[k - 1], k) /\ Trail[k - 1] \in Episode
    BY <1>1, TrailSteps, TrailTyped
<1>3. Trail[k - 1].open \in Nat
    BY <1>2 DEF Episode
<1>4. PairStep(Trail[k - 1], k, Trail[k])
    BY <1>2, StepOfTrail
<1> QED BY <1>1, <1>3, <1>4

(* The open that is remembered was live, and nothing live since then ends it. *)
Starts(o) == o \in 1 .. Total /\ WrittenLive(o) /\ fills[o].before * fills[o].after <= 0
Silent(a, b) == \A j \in 1 .. Total : (a < j /\ j < b /\ WrittenLive(j)) => fills[j].before # 0 /\ ~Ends(j)
OpenMeans(k) ==
    LET o == Trail[k].open IN
    o # 0 => Starts(o) /\ o <= k /\ Silent(o, k + 1)
FoundMeans(k) ==
    \A a, b \in Nat : <<a, b>> \in Trail[k].found =>
        /\ Starts(a) /\ b \in 1 .. Total /\ a < b /\ WrittenLive(b) /\ Ends(b)
        /\ SameSide(a, PositionSide(fills[b].before)) /\ Silent(a, b)

LEMMA OpensMean == ASSUME FillsChained PROVE \A k \in 0 .. Total : OpenMeans(k)
<1> DEFINE meant == {k \in 0 .. Total : OpenMeans(k)}
<1>1. Total \in Nat /\ 0 \in meant
    <2>1. Trail[0].open = 0
        BY TrailSteps DEF Start
    <2> QED BY <2>1, FillFacts DEF OpenMeans
<1>2. ASSUME NEW k \in 0 .. Total, k \in meant, k < Total PROVE k + 1 \in meant
    <2> DEFINE o == Trail[k].open
               n == Trail[k + 1].open
    <2>1. k + 1 \in 1 .. Total /\ k + 1 \in 0 .. Total /\ k \in Nat /\ (k + 1) - 1 = k
        BY <1>1, <1>2
    <2>2. PairStep(Trail[k], k + 1, Trail[k + 1])
        <3>1. PairStep(Trail[(k + 1) - 1], k + 1, Trail[k + 1])
            BY <2>1, NextOfTrail
        <3> QED BY <2>1, <3>1
    <2>3. o # 0 => Starts(o) /\ o <= k /\ Silent(o, k + 1)
        BY <1>2 DEF OpenMeans
    <2>4. CASE ~WrittenLive(k + 1) \/ (fills[k + 1].before # 0 /\ ~Ends(k + 1))
        <3>1. n = o
            BY <2>2, <2>4 DEF PairStep
        <3>2. o # 0 => Silent(o, (k + 1) + 1)
            <4> SUFFICES ASSUME o # 0, NEW j \in 1 .. Total, o < j, j < (k + 1) + 1, WrittenLive(j)
                         PROVE  fills[j].before # 0 /\ ~Ends(j)
                BY DEF Silent
            <4>1. CASE j = k + 1
                BY <2>4, <4>1
            <4>2. CASE j # k + 1
                <5>1. j < k + 1
                    BY <1>1, <2>1, <4>2
                <5> QED BY <2>3, <5>1 DEF Silent
            <4> QED BY <4>1, <4>2
        <3>3. o # 0 => o <= k + 1
            BY <1>1, <2>1, <2>3 DEF Starts
        <3> QED BY <2>1, <2>3, <3>1, <3>2, <3>3 DEF OpenMeans
    <2>5. CASE WrittenLive(k + 1) /\ (fills[k + 1].before = 0 \/ Ends(k + 1))
        <3>1. n # 0 => n = k + 1
            BY <2>2, <2>5 DEF PairStep
        <3>2. Starts(k + 1)
            BY <2>1, <2>5, SidesOfFills DEF Starts
        <3>3. Silent(k + 1, (k + 1) + 1) /\ k + 1 <= k + 1
            <4>1. \A j \in 1 .. Total : ~(k + 1 < j /\ j < (k + 1) + 1)
                BY <2>1
            <4> QED BY <2>1, <4>1 DEF Silent
        <3> QED BY <2>1, <3>1, <3>2, <3>3 DEF OpenMeans
    <2> QED BY <2>4, <2>5
<1> HIDE DEF meant
<1>3. \A k \in 0 .. Total : k \in meant
    BY <1>1, <1>2, CountUp
<1> QED BY <1>3 DEF meant

LEMMA FoundsMean == ASSUME FillsChained PROVE \A k \in 0 .. Total : FoundMeans(k)
<1> DEFINE meant == {k \in 0 .. Total : FoundMeans(k)}
<1>1. Total \in Nat /\ 0 \in meant
    <2>1. Trail[0].found = {}
        BY TrailSteps DEF Start
    <2> QED BY <2>1, FillFacts DEF FoundMeans
<1>2. ASSUME NEW k \in 0 .. Total, k \in meant, k < Total PROVE k + 1 \in meant
    <2> DEFINE o == Trail[k].open
               e == k + 1
    <2>1. e \in 1 .. Total /\ e \in 0 .. Total /\ k \in Nat /\ e - 1 = k
        BY <1>1, <1>2
    <2>2. PairStep(Trail[k], e, Trail[e])
        <3>1. PairStep(Trail[e - 1], e, Trail[e])
            BY <2>1, NextOfTrail
        <3> QED BY <2>1, <3>1
    <2>3. o # 0 => Starts(o) /\ o <= k /\ Silent(o, e)
        BY OpensMean DEF OpenMeans
    <2>4. FoundMeans(k)
        BY <1>2
    <2> SUFFICES ASSUME NEW a \in Nat, NEW b \in Nat, <<a, b>> \in Trail[e].found, <<a, b>> \notin Trail[k].found
                 PROVE  /\ Starts(a) /\ b \in 1 .. Total /\ a < b /\ WrittenLive(b) /\ Ends(b)
                        /\ SameSide(a, PositionSide(fills[b].before)) /\ Silent(a, b)
        BY <2>1, <2>4 DEF FoundMeans
    <2>5. /\ WrittenLive(e) /\ Ends(e) /\ o # 0 /\ SameSide(o, PositionSide(fills[e].before))
          /\ Trail[e].found = Trail[k].found \cup {<<o, e>>}
        BY <2>2 DEF PairStep
    <2>6. a = o /\ b = e
        BY <2>5
    <2>7. o < e
        BY <2>1, <2>3, <2>5 DEF Starts
    <2> HIDE DEF o, e
    <2> QED BY <2>1, <2>3, <2>5, <2>6, <2>7
<1> HIDE DEF meant
<1>3. \A k \in 0 .. Total : k \in meant
    BY <1>1, <1>2, CountUp
<1> QED BY <1>3 DEF meant

LEMMA FoundStays ==
    ASSUME FillsChained, NEW a, NEW b, NEW k \in 0 .. Total, <<a, b>> \in Trail[k].found
    PROVE  <<a, b>> \in Trail[Total].found
<1> DEFINE kept == {u \in 0 .. Total : <<a, b>> \in Trail[u].found}
<1>1. Total \in Nat /\ k \in Nat /\ k \in kept
    BY FillFacts
<1>2. ASSUME NEW u \in k .. Total, u \in kept, u < Total PROVE u + 1 \in kept
    <2>1. u \in 0 .. Total /\ u + 1 \in 1 .. Total /\ u + 1 \in 0 .. Total /\ (u + 1) - 1 = u
        BY <1>1, <1>2
    <2>2. PairStep(Trail[(u + 1) - 1], u + 1, Trail[u + 1])
        BY <2>1, NextOfTrail
    <2>3. PairStep(Trail[u], u + 1, Trail[u + 1])
        BY <2>1, <2>2
    <2>4. Trail[u].found \subseteq Trail[u + 1].found
        BY <2>3 DEF PairStep
    <2> QED BY <1>2, <2>1, <2>4
<1> HIDE DEF kept
<1>3. Total \in kept
    <2>1. \A u \in k .. Total : u \in kept
        BY <1>1, <1>2, CountUp
    <2> QED BY <1>1, <2>1
<1> QED BY <1>3 DEF kept

(* Until something ends, the position stays on the side it was opened on. *)
LEMMA PositionStays ==
    ASSUME FillsChained, NEW a \in 1 .. Total, NEW b \in 1 .. Total, a <= b, fills[a].after # 0,
           \A k \in a + 1 .. b : ~Ends(k)
    PROVE  \A k \in a .. b : PositionSide(fills[k].after) = PositionSide(fills[a].after)
<1> DEFINE side == PositionSide(fills[a].after)
           held == {k \in a .. b : PositionSide(fills[k].after) = side}
<1>1. a \in Nat /\ b \in Nat /\ a \in held /\ a .. b \subseteq 1 .. Total /\ side # 0
    BY FillFacts, SidesOfFills
<1> HIDE DEF side
<1>2. ASSUME NEW k \in a .. b, k \in held, k < b PROVE k + 1 \in held
    <2>1. k + 1 \in a + 1 .. b /\ k + 1 \in a .. b /\ k + 1 # 1 /\ (k + 1) - 1 = k /\ k + 1 \in 1 .. Total /\ k \in 1 .. Total
        BY <1>1, <1>2
    <2>2. fills[k + 1].before = fills[k].after
        BY <2>1, FillFacts
    <2>3. ~Ends(k + 1) /\ PositionSide(fills[k].after) = side
        BY <1>2, <2>1
    <2>4. fills[k + 1].before # 0
        BY <1>1, <2>1, <2>2, <2>3, SidesOfFills
    <2> QED BY <2>1, <2>2, <2>3, <2>4, SidesOfFills
<1> HIDE DEF held
<1>3. \A k \in a .. b : k \in held
    BY <1>1, <1>2, CountUp
<1> QED BY <1>3 DEF held, side

(* A position whose fills were all written live is an episode. *)
LEMMA PositionsFound ==
    ASSUME FillsChained, NEW a, NEW b, <<a, b>> \in Positions, \A k \in a .. b : WrittenLive(k)
    PROVE  <<a, b>> \in Prospective
<1>a. /\ Total \in Nat /\ DOMAIN fills = 1 .. Total
      /\ \A k \in 1 .. Total : k # 1 => fills[k].before = fills[k - 1].after
    BY FillFacts
<1>1. /\ a \in 1 .. Total /\ b \in 1 .. Total /\ a < b /\ Ends(b) /\ \A k \in a + 1 .. b - 1 : ~Ends(k)
      /\ fills[a].before * fills[a].after <= 0 /\ fills[a].after # 0
    BY <1>a DEF Positions
<1>2. WrittenLive(a) /\ WrittenLive(b) /\ a # 0
    BY <1>a, <1>1
<1> DEFINE side == PositionSide(fills[a].after)
<1>3. b - 1 \in 1 .. Total /\ a <= b - 1 /\ \A k \in a .. b - 1 : PositionSide(fills[k].after) = side
    <2> DEFINE c == b - 1
    <2>1. c \in 1 .. Total /\ a <= c /\ \A k \in a + 1 .. c : ~Ends(k)
        BY <1>a, <1>1
    <2> HIDE DEF c
    <2>2. \A k \in a .. c : PositionSide(fills[k].after) = PositionSide(fills[a].after)
        BY <1>1, <2>1, PositionStays
    <2> QED BY <2>1, <2>2 DEF c
<1>4. side # 0
    BY <1>1, SidesOfFills
<1> HIDE DEF side
<1>5. Trail[a].open = a
    <2>1. fills[a].before = 0 \/ Ends(a)
        BY <1>1, SidesOfFills
    <2>2. PairStep(Trail[a - 1], a, Trail[a])
        BY <1>1, NextOfTrail
    <2> QED BY <1>1, <1>2, <2>1, <2>2 DEF PairStep
<1> DEFINE remembered == {k \in a .. (b - 1) : Trail[k].open = a}
<1>6. ASSUME NEW k \in a .. (b - 1), k \in remembered, k < b - 1 PROVE k + 1 \in remembered
    <2>1. k \in 1 .. Total /\ k + 1 \in 1 .. Total /\ k + 1 \in a .. (b - 1) /\ k + 1 # 1 /\ (k + 1) - 1 = k /\ k + 1 \in a + 1 .. b - 1
        BY <1>a, <1>1, <1>6
    <2>2. fills[k + 1].before = fills[k].after
        BY <1>a, <2>1
    <2>3. PositionSide(fills[k].after) = side
        BY <1>3
    <2>4. fills[k + 1].before # 0 /\ ~Ends(k + 1)
        BY <1>1, <1>4, <2>1, <2>2, <2>3, SidesOfFills
    <2>5. PairStep(Trail[(k + 1) - 1], k + 1, Trail[k + 1])
        BY <2>1, NextOfTrail
    <2>6. Trail[k + 1] = Trail[k]
        BY <2>1, <2>4, <2>5 DEF PairStep
    <2> QED BY <1>6, <2>1, <2>6
<1>7. Trail[b - 1].open = a
    <2> DEFINE last == b - 1
    <2>1. a \in Nat /\ last \in Nat /\ a \in remembered /\ last \in a .. last
          /\ \A k \in a .. last : (k \in remembered /\ k < last) => k + 1 \in remembered
        BY <1>a, <1>1, <1>3, <1>5, <1>6
    <2> HIDE DEF last, remembered
    <2>2. last \in remembered
        BY <2>1, CountUp
    <2> QED BY <2>2 DEF remembered, last
<1>8. <<a, b>> \in Trail[b].found
    <2>1. PairStep(Trail[b - 1], b, Trail[b])
        BY <1>1, NextOfTrail
    <2>2. b # 1 /\ b - 1 \in a .. b - 1
        BY <1>a, <1>1
    <2>3. fills[b].before = fills[b - 1].after
        BY <1>a, <1>1, <2>2
    <2>4. SameSide(a, PositionSide(fills[b].before))
        BY <1>3, <2>2, <2>3 DEF SameSide, side
    <2> QED BY <1>1, <1>2, <1>7, <2>1, <2>4 DEF PairStep
<1>9. b \in 0 .. Total
    BY <1>a, <1>1
<1> QED BY <1>8, <1>9, FoundStays, TrailSteps

(* An episode that is no position spans a close and an open that were not written live. *)
LEMMA FoundsArePositions ==
    ASSUME FillsChained, NEW a \in Nat, NEW b \in Nat, <<a, b>> \in Prospective, <<a, b>> \notin Positions
    PROVE  \E k, m \in a .. b : k # m /\ ~WrittenLive(k) /\ ~WrittenLive(m)
<1>a. /\ Total \in Nat /\ DOMAIN fills = 1 .. Total
      /\ \A k \in 1 .. Total : k # 1 => fills[k].before = fills[k - 1].after
    BY FillFacts
<1>1. /\ a \in 1 .. Total /\ b \in 1 .. Total /\ a < b /\ Ends(b) /\ fills[a].before * fills[a].after <= 0
      /\ PositionSide(fills[a].after) = PositionSide(fills[b].before)
      /\ \A j \in 1 .. Total : (a < j /\ j < b /\ WrittenLive(j)) => fills[j].before # 0 /\ ~Ends(j)
    <2>1. Total \in 0 .. Total /\ <<a, b>> \in Trail[Total].found
        BY <1>a, TrailSteps
    <2> QED BY <2>1, FoundsMean DEF FoundMeans, Starts, Silent, SameSide
<1> DEFINE side == PositionSide(fills[a].after)
           ends == {k \in a + 1 .. b - 1 : Ends(k)}
<1>2. side # 0 /\ fills[a].after # 0
    BY <1>1, SidesOfFills DEF Ends
<1>3. PICK k \in ends : \A j \in ends : k <= j
    <2>1. ends # {}
        BY <1>a, <1>1, <1>2 DEF Positions
    <2>2. ends \subseteq Nat
        BY <1>a, <1>1
    <2> HIDE DEF ends
    <2> QED BY <2>1, <2>2, LeastNumber
<1>4. /\ k \in 1 .. Total /\ a < k /\ k < b /\ Ends(k) /\ k - 1 \in 1 .. Total /\ a <= k - 1 /\ k # 1
      /\ \A j \in a + 1 .. k - 1 : ~Ends(j)
    BY <1>a, <1>1, <1>3
<1>5. PositionSide(fills[k].after) # side
    <2> DEFINE c == k - 1
    <2>1. c \in 1 .. Total /\ a <= c /\ c \in a .. c /\ \A j \in a + 1 .. c : ~Ends(j)
        BY <1>a, <1>1, <1>4
    <2> HIDE DEF c
    <2>2. PositionSide(fills[c].after) = side
        BY <1>1, <1>2, <2>1, PositionStays
    <2>3. fills[k].before = fills[k - 1].after
        BY <1>a, <1>4
    <2> QED BY <1>4, <2>2, <2>3, SidesOfFills DEF c
<1>6. ~WrittenLive(k)
    BY <1>1, <1>4
<1> DEFINE again == {m \in k + 1 .. b - 1 : PositionSide(fills[m].after) = side}
<1>7. PICK m \in again : \A j \in again : m <= j
    <2>1. b - 1 \in again
        <3>1. b # 1 /\ b - 1 \in k .. b - 1
            BY <1>a, <1>1, <1>4
        <3>2. fills[b].before = fills[b - 1].after
            BY <1>a, <1>1, <3>1
        <3>3. PositionSide(fills[b - 1].after) = side
            BY <1>1, <3>2
        <3>4. b - 1 # k
            BY <1>5, <3>3
        <3> QED BY <1>a, <1>1, <1>4, <3>3, <3>4
    <2>2. again \subseteq Nat
        BY <1>a, <1>4
    <2> HIDE DEF again
    <2> QED BY <2>1, <2>2, LeastNumber
<1>8. m \in 1 .. Total /\ m - 1 \in k .. b - 1 /\ a < m /\ m < b /\ m # 1 /\ m # k
    BY <1>a, <1>1, <1>4, <1>7
<1>9. fills[m].before = 0 \/ Ends(m)
    <2>1. PositionSide(fills[m - 1].after) # side
        <3>1. CASE m - 1 = k
            BY <1>5, <3>1
        <3>2. CASE m - 1 # k
            <4>1. m - 1 \in k + 1 .. b - 1 /\ ~ m <= m - 1
                BY <1>a, <1>4, <1>8, <3>2
            <4> QED BY <1>7, <4>1
        <3> QED BY <3>1, <3>2
    <2>2. fills[m].before = fills[m - 1].after
        BY <1>a, <1>8
    <2>3. PositionSide(fills[m].after) = side
        BY <1>7
    <2> QED BY <1>8, <2>1, <2>2, <2>3, SidesOfFills
<1>10. ~WrittenLive(m)
    BY <1>1, <1>8, <1>9
<1>11. k \in a .. b /\ m \in a .. b
    BY <1>a, <1>1, <1>4, <1>8
<1> QED BY <1>6, <1>8, <1>10, <1>11

LEMMA ProspectiveReal == ASSUME FillsChained PROVE ProspectiveAreReal
<1>a. Total \in Nat /\ DOMAIN fills = 1 .. Total
    BY FillFacts
<1>1. ASSUME NEW life \in Positions, Unseen(life) = 0 PROVE life \in Prospective
    <2>1. life = <<life[1], life[2]>> /\ life[1] \in Nat /\ life[2] \in Nat
        BY <1>a DEF Positions
    <2> DEFINE unseen == {k \in life[1] .. life[2] : ~WrittenLive(k)}
    <2>2. IsFiniteSet(unseen)
        <3>1. IsFiniteSet(life[1] .. life[2]) /\ unseen \subseteq life[1] .. life[2]
            BY <2>1, FS_Interval
        <3> QED BY <3>1, FS_Subset
    <2>3. Cardinality(unseen) = 0
        BY <1>1 DEF Unseen
    <2>4. unseen = {}
        BY <2>2, <2>3, FS_EmptySet
    <2>5. \A k \in life[1] .. life[2] : WrittenLive(k)
        BY <2>4
    <2> QED BY <1>1, <2>1, <2>5, PositionsFound
<1>2. ASSUME NEW life \in Prospective, life \notin Positions PROVE Unseen(life) >= 2
    <2>1. life = <<life[1], life[2]>> /\ life[1] \in Nat /\ life[2] \in Nat
        <3>1. Total \in 0 .. Total
            BY <1>a
        <3>2. Trail[Total] \in Episode /\ Prospective = Trail[Total].found
            BY <3>1, TrailTyped, TrailSteps
        <3>3. life \in Nat \X Nat
            BY <3>2 DEF Episode
        <3> QED BY <3>3
    <2>2. PICK k \in life[1] .. life[2], m \in life[1] .. life[2] : k # m /\ ~WrittenLive(k) /\ ~WrittenLive(m)
        BY <1>2, <2>1, FoundsArePositions
    <2> DEFINE unseen == {j \in life[1] .. life[2] : ~WrittenLive(j)}
    <2>3. IsFiniteSet(unseen)
        <3>1. IsFiniteSet(life[1] .. life[2]) /\ unseen \subseteq life[1] .. life[2]
            BY <2>1, FS_Interval
        <3> QED BY <3>1, FS_Subset
    <2>4. {k, m} \subseteq unseen
        BY <2>2
    <2> HIDE DEF unseen
    <2>5. Cardinality({k, m}) = 2 /\ Cardinality({k, m}) <= Cardinality(unseen)
        <3>1. IsFiniteSet({k}) /\ Cardinality({k}) = 1 /\ m \notin {k}
            BY <2>2, FS_Singleton
        <3>2. Cardinality({k} \cup {m}) = Cardinality({k}) + 1
            BY <3>1, FS_AddElement
        <3>3. {k} \cup {m} = {k, m}
            OBVIOUS
        <3>4. Cardinality({k, m}) <= Cardinality(unseen)
            BY <2>3, <2>4, FS_Subset
        <3>5. Cardinality({k, m}) = 2
            BY <3>1, <3>2, <3>3
        <3> QED BY <3>4, <3>5
    <2>6. Cardinality(unseen) \in Nat
        BY <2>3, FS_CardinalityType
    <2> QED BY <2>5, <2>6 DEF Unseen, unseen
<1> QED BY <1>1, <1>2 DEF ProspectiveAreReal

(***************************************************************************)
(* The wallet collector: however the connection fails, the process starts  *)
(* again or the operator edits the registry, a fill has one row and none   *)
(* is missing that the snapshots could still bring; the exchange counts no *)
(* more users than it allows; what the collector writes back brings no     *)
(* wallet back; and an episode is a position the wallet had, unless two of *)
(* its fills were not written live.                                        *)
(***************************************************************************)
THEOREM FollowedIsRecordedHolds == ShadowSpec => FollowedIsRecorded
<1>1. ShadowInv => ShadowTypeOK /\ DrainedIsCaptured /\ SubscriptionsWithinLimit /\ RecordedOnce
    BY AllDrained
<1>2. ShadowInv => ProspectiveAreReal
    BY ProspectiveReal DEF ShadowInv
<1>3. ShadowInv /\ [ShadowNext]_wsVars =>
          (seen' # seen => \A w \in Wallets : registry'[w].stage = registry[w].stage) \/ UNCHANGED wsVars
    BY OperatorChooses
<1> QED BY <1>1, <1>2, <1>3, InitShadow, ShadowStep, PTL DEF ShadowSpec, FollowedIsRecorded, OnlyTheOperatorChooses
=============================================================================
