------------------------- MODULE RequestBudgetProofs -------------------------
(***************************************************************************)
(* That the request budget keeps its promises for any rates, bounds and    *)
(* waits: the invariants of RequestBudget as theorems.                     *)
(***************************************************************************)
EXTENDS RequestBudget, SequenceTheorems, TLAPS

Ordered(q) ==
    \A c \in Class : \A i, j \in DOMAIN q[c] : i < j => q[c][i] >= q[c][j]

(* The requests of a class wait in the order of their arrival. *)
OldestFirst == Ordered(queue)

(* The pump wakes before any request has waited too long. *)
WokenInTime ==
    /\ wakeIn <= MaxWait
    /\ \A c \in Class : \A i \in DOMAIN queue[c] : queue[c][i] + wakeIn <= MaxWait

(* Who waits has a pump, and a pump that is off sleeps no more. *)
Pumped ==
    /\ queue # Nobody => pump = "asleep"
    /\ pump = "off" => wakeIn = 0

IInv ==
    /\ BudgetTypeOK
    /\ ReserveHeldForFeed
    /\ CeilingHolds
    /\ FeedCooldownNeverLonger
    /\ NobodyWaitsInCooldown
    /\ OldestFirst
    /\ WokenInTime
    /\ Pumped
    /\ FeedPacedByOneToken

-----------------------------------------------------------------------------
(* Arithmetic. *)

LEMMA DivToken ==
    ASSUME NEW t \in Nat
    PROVE  /\ t \div Token \in Nat
           /\ (t \div Token) * Token <= t
BY UnitsAssumption

(* Fewer whole tokens than t holds cost no more than t. *)
LEMMA TokensFit ==
    ASSUME NEW t \in Nat, NEW n \in Nat, n <= t \div Token
    PROVE  n * Token \in Nat /\ n * Token <= t
<1>1. t \div Token \in Nat /\ (t \div Token) * Token <= t
  BY DivToken
<1>2. n * Token <= (t \div Token) * Token
  BY <1>1, UnitsAssumption
<1> QED
  BY <1>1, <1>2, UnitsAssumption

LEMMA CeilDivType ==
    ASSUME NEW a \in Nat, NEW b \in Nat \ {0}
    PROVE  /\ CeilDiv(a, b) \in Nat
           /\ a > 0 => CeilDiv(a, b) >= 1
BY DEF CeilDiv

(* A smaller deficit at a higher rate is refilled sooner. *)
LEMMA CeilDivMonotonic ==
    ASSUME NEW a \in Nat, NEW b \in Nat \ {0}, NEW d \in Nat, NEW e \in Nat \ {0},
           a <= d, e <= b
    PROVE  CeilDiv(a, b) <= CeilDiv(d, e)
<1>1. CeilDiv(a, b) \in Nat /\ CeilDiv(d, e) \in Nat
  BY CeilDivType
<1>2. CeilDiv(d, e) * e >= d
  BY DEF CeilDiv
<1>3. CeilDiv(d, e) * b >= CeilDiv(d, e) * e
  BY <1>1
<1>4. CeilDiv(a, b) * b <= a + b - 1
  BY DEF CeilDiv
<1>5. CeilDiv(a, b) * b < (CeilDiv(d, e) + 1) * b
  BY <1>1, <1>2, <1>3, <1>4
<1> QED
  BY <1>1, <1>5

LEMMA CeilDivAtMost ==
    ASSUME NEW a \in Nat, NEW b \in Nat \ {0}
    PROVE  CeilDiv(a, b) <= a
<1>1. CeilDiv(a, b) <= CeilDiv(a, 1)
  BY CeilDivMonotonic
<1>2. CeilDiv(a, 1) = a
  BY DEF CeilDiv
<1> QED
  BY <1>1, <1>2

-----------------------------------------------------------------------------
(* The queues. *)

Queues == [Class -> Seq(Nat)]

LEMMA DropIsSuffix ==
    ASSUME NEW q \in Seq(Nat), NEW n \in 0 .. Len(q)
    PROVE  /\ Drop(q, n) \in Seq(Nat)
           /\ Len(Drop(q, n)) = Len(q) - n
           /\ \A i \in DOMAIN Drop(q, n) : i + n \in DOMAIN q /\ Drop(q, n)[i] = q[i + n]
<1>1. \A i \in n + 1 .. Len(q) : q[i] \in Nat
  BY ElementOfSeq
<1>2. /\ Drop(q, n) \in Seq(Nat)
      /\ Len(Drop(q, n)) = IF n + 1 <= Len(q) THEN Len(q) - (n + 1) + 1 ELSE 0
      /\ \A i \in 1 .. Len(q) - (n + 1) + 1 : Drop(q, n)[i] = q[(n + 1) + i - 1]
  BY <1>1, SubSeqProperties, LenProperties DEF Drop
<1>3. Len(Drop(q, n)) = Len(q) - n
  BY <1>2, LenProperties
<1>4. DOMAIN Drop(q, n) = 1 .. Len(q) - n
  BY <1>2, <1>3, LenProperties
<1>5. ASSUME NEW i \in DOMAIN Drop(q, n)
      PROVE  i + n \in DOMAIN q /\ Drop(q, n)[i] = q[i + n]
  <2>1. i \in 1 .. Len(q) - n /\ i + n \in 1 .. Len(q)
    BY <1>4, LenProperties
  <2>2. (n + 1) + i - 1 = i + n /\ i \in 1 .. Len(q) - (n + 1) + 1
    BY <2>1
  <2>3. Drop(q, n)[i] = q[(n + 1) + i - 1]
    BY <1>2, <2>2
  <2>4. DOMAIN q = 1 .. Len(q)
    BY LenProperties
  <2> QED
    BY <2>1, <2>2, <2>3, <2>4
<1> QED
  BY <1>2, <1>3, <1>5

(* r keeps the order and the waits of q: every class has a suffix of its queue. *)
Suffixes(r, q) ==
    \A c \in Class : \E n \in 0 .. Len(q[c]) : r[c] = Drop(q[c], n)

(* What serve() grants is paid for, reconciliation leaves the reserve, and a
   class in a cooldown is left without waiting requests. *)
LEMMA ServedIsPaid ==
    ASSUME NEW q \in Queues, NEW t \in Nat, NEW cd \in [Class -> Nat]
    PROVE  LET served == Served(q, t, cd)
           IN  /\ served.feed \in Nat
               /\ served.direct \in Nat
               /\ served.feed + served.direct <= t
               /\ served.direct > 0 => t - served.feed - served.direct >= Reserve
               /\ served.queue = [c \in Class |-> served.queue[c]]
               /\ Suffixes(served.queue, q)
               /\ \A c \in Class : cd[c] > 0 => served.queue[c] = <<>>
<1> DEFINE feed == IF cd["FEED"] > 0 THEN 0 ELSE Lesser(Len(q["FEED"]), t \div Token)
           feedLeft == IF cd["FEED"] > 0 THEN <<>> ELSE Drop(q["FEED"], feed)
           left == t - feed * Token
           direct == IF cd["DIRECT_WATCH"] > 0 \/ feedLeft # <<>> THEN 0
                     ELSE Lesser(Len(q["DIRECT_WATCH"]), UsableByDirect(left) \div Token)
           directLeft == IF cd["DIRECT_WATCH"] > 0 THEN <<>>
                         ELSE Drop(q["DIRECT_WATCH"], direct)
<1>1. /\ q["FEED"] \in Seq(Nat) /\ Len(q["FEED"]) \in Nat
      /\ q["DIRECT_WATCH"] \in Seq(Nat) /\ Len(q["DIRECT_WATCH"]) \in Nat
      /\ cd["FEED"] \in Nat /\ cd["DIRECT_WATCH"] \in Nat
  BY LenProperties DEF Queues, Class
<1>2. /\ feed \in 0 .. Len(q["FEED"])
      /\ feed <= t \div Token
  <2>1. t \div Token \in Nat
    BY DivToken
  <2>2. CASE cd["FEED"] > 0
    BY <1>1, <2>1, <2>2
  <2>3. CASE ~(cd["FEED"] > 0)
    <3>1. feed = Lesser(Len(q["FEED"]), t \div Token)
      BY <2>3
    <3> HIDE DEF feed
    <3> QED
      BY <1>1, <2>1, <3>1 DEF Lesser
  <2> QED
    BY <2>2, <2>3
<1>3. /\ feed * Token \in Nat
      /\ left \in Nat
  <2>1. feed \in Nat
    BY <1>2
  <2> HIDE DEF feed
  <2>2. feed * Token \in Nat /\ feed * Token <= t
    BY <1>2, <2>1, TokensFit
  <2> QED
    BY <2>2
<1>4. /\ UsableByDirect(left) \in Nat
      /\ UsableByDirect(left) > 0 => UsableByDirect(left) = left - Reserve
      /\ UsableByDirect(left) <= left
  <2> HIDE DEF left
  <2> QED
    BY <1>3, UnitsAssumption DEF UsableByDirect, Minus
<1>5. /\ direct \in 0 .. Len(q["DIRECT_WATCH"])
      /\ direct <= UsableByDirect(left) \div Token
  <2> HIDE DEF left, feedLeft
  <2>1. UsableByDirect(left) \div Token \in Nat
    BY <1>4, DivToken
  <2> QED
    BY <1>1, <2>1 DEF Lesser
<1>6. /\ direct * Token \in Nat
      /\ direct * Token <= UsableByDirect(left)
  <2>1. direct \in Nat
    BY <1>5
  <2> HIDE DEF direct, left
  <2> QED
    BY <1>4, <1>5, <2>1, TokensFit
<1>7. /\ direct * Token <= left
      /\ direct * Token > 0 => left - direct * Token >= Reserve
  <2> HIDE DEF direct, left
  <2> QED
    BY <1>3, <1>4, <1>6, UnitsAssumption
<1>8. Served(q, t, cd) = [queue |-> [FEED |-> feedLeft, DIRECT_WATCH |-> directLeft],
                          feed |-> feed * Token, direct |-> direct * Token]
  BY DEF Served
<1>9. Drop(q["FEED"], Len(q["FEED"])) = <<>>
  BY <1>1, SubSeqEmpty DEF Drop
<1>10. Drop(q["DIRECT_WATCH"], Len(q["DIRECT_WATCH"])) = <<>>
  BY <1>1, SubSeqEmpty DEF Drop
<1>11. \E n \in 0 .. Len(q["FEED"]) : feedLeft = Drop(q["FEED"], n)
  <2>1. CASE cd["FEED"] > 0
    BY <1>1, <1>9, <2>1
  <2>2. CASE ~(cd["FEED"] > 0)
    <3> HIDE DEF feed
    <3> QED
      BY <1>2, <2>2
  <2> QED
    BY <2>1, <2>2
<1>12. \E n \in 0 .. Len(q["DIRECT_WATCH"]) : directLeft = Drop(q["DIRECT_WATCH"], n)
  <2>1. CASE cd["DIRECT_WATCH"] > 0
    BY <1>1, <1>10, <2>1
  <2>2. CASE ~(cd["DIRECT_WATCH"] > 0)
    <3> HIDE DEF direct
    <3> QED
      BY <1>5, <2>2
  <2> QED
    BY <2>1, <2>2
<1>13. cd["FEED"] > 0 => feedLeft = <<>>
  OBVIOUS
<1>14. cd["DIRECT_WATCH"] > 0 => directLeft = <<>>
  OBVIOUS
<1>15. t - feed * Token - direct * Token = left - direct * Token
  OBVIOUS
<1> HIDE DEF feed, feedLeft, left, direct, directLeft
<1>16. /\ Served(q, t, cd).feed = feed * Token
       /\ Served(q, t, cd).direct = direct * Token
       /\ Served(q, t, cd).queue = [FEED |-> feedLeft, DIRECT_WATCH |-> directLeft]
  BY <1>8
<1>17. /\ Served(q, t, cd).queue["FEED"] = feedLeft
       /\ Served(q, t, cd).queue["DIRECT_WATCH"] = directLeft
       /\ Served(q, t, cd).queue = [c \in Class |-> Served(q, t, cd).queue[c]]
  BY <1>16 DEF Class
<1>18. Suffixes(Served(q, t, cd).queue, q)
  BY <1>11, <1>12, <1>17 DEF Suffixes, Class
<1>19. \A c \in Class : cd[c] > 0 => Served(q, t, cd).queue[c] = <<>>
  BY <1>13, <1>14, <1>17 DEF Class
<1>20. feed * Token + direct * Token <= t
  BY <1>3, <1>6, <1>7 DEF left
<1> QED
  BY <1>3, <1>6, <1>7, <1>15, <1>16, <1>17, <1>18, <1>19, <1>20

(* A suffix of ordered queues is ordered, and nobody in it is new. *)
LEMMA SuffixesKeepOrder ==
    ASSUME NEW q \in Queues, NEW r, Ordered(q), Suffixes(r, q), r = [c \in Class |-> r[c]]
    PROVE  /\ r \in Queues
           /\ Ordered(r)
           /\ \A c \in Class : \A i \in DOMAIN r[c] : \E j \in DOMAIN q[c] : r[c][i] = q[c][j]
           /\ \A c \in Class : q[c] = <<>> => r[c] = <<>>
<1>1. ASSUME NEW c \in Class
      PROVE  /\ r[c] \in Seq(Nat)
             /\ \A i, j \in DOMAIN r[c] : i < j => r[c][i] >= r[c][j]
             /\ \A i \in DOMAIN r[c] : \E j \in DOMAIN q[c] : r[c][i] = q[c][j]
             /\ q[c] = <<>> => r[c] = <<>>
  <2>1. q[c] \in Seq(Nat)
    BY DEF Queues
  <2>2. PICK n \in 0 .. Len(q[c]) : r[c] = Drop(q[c], n)
    BY DEF Suffixes
  <2>3. /\ r[c] \in Seq(Nat)
        /\ Len(r[c]) = Len(q[c]) - n
        /\ \A i \in DOMAIN r[c] : i + n \in DOMAIN q[c] /\ r[c][i] = q[c][i + n]
    BY <2>1, <2>2, DropIsSuffix
  <2>4. DOMAIN r[c] = 1 .. Len(r[c]) /\ Len(r[c]) \in Nat /\ Len(q[c]) \in Nat
    BY <2>1, <2>3, LenProperties
  <2>5. ASSUME NEW i \in DOMAIN r[c], NEW j \in DOMAIN r[c], i < j
        PROVE  r[c][i] >= r[c][j]
    <3>1. i + n < j + n /\ i + n \in DOMAIN q[c] /\ j + n \in DOMAIN q[c]
      BY <2>3, <2>4, <2>5
    <3> QED
      BY <2>3, <2>5, <3>1 DEF Ordered
  <2>6. q[c] = <<>> => r[c] = <<>>
    <3> SUFFICES ASSUME q[c] = <<>> PROVE r[c] = <<>>
      OBVIOUS
    <3>1. Len(q[c]) = 0
      OBVIOUS
    <3>2. Len(r[c]) = 0
      BY <2>3, <2>4, <3>1
    <3> QED
      BY <2>3, <3>2, EmptySeq
  <2> QED
    BY <2>3, <2>5, <2>6
<1>2. r \in Queues
  BY <1>1 DEF Queues
<1> QED
  BY <1>1, <1>2 DEF Ordered

(* Whatever the waits, the pump's sleep is no longer than the refill of one
   token when a feed request waits. *)
LEMMA NextWakePaced ==
    ASSUME NEW q \in Queues, NEW t \in Nat, NEW r \in MinRate .. MaxRate
    PROVE  /\ NextWake(q, t, r) \in Nat
           /\ q["FEED"] # <<>> => NextWake(q, t, r) <= CeilDiv(Token, MinRate)
<1> DEFINE ceil == CeilDiv(Deficit(q, t), r)
           feed == UntilExpiry(q, "FEED")
           direct == UntilExpiry(q, "DIRECT_WATCH")
<1>1. r \in Nat \ {0} /\ MinRate \in Nat \ {0} /\ MinRate <= r
  BY RatesAssumption
<1>2. Deficit(q, t) \in Nat
  BY UnitsAssumption DEF Deficit, Minus
<1>3. ceil \in Nat
  BY <1>1, <1>2, CeilDivType
<1>4. ASSUME NEW c \in Class
      PROVE  UntilExpiry(q, c) \in Nat
  <2>1. q[c] # <<>> => Head(q[c]) \in Nat
    BY HeadTailProperties DEF Queues
  <2> QED
    BY <2>1, WaitAssumption DEF UntilExpiry, Minus
<1>5. feed \in Nat /\ direct \in Nat
  BY <1>4 DEF Class
<1>6. q["FEED"] # <<>> => ceil <= CeilDiv(Token, MinRate)
  <2> SUFFICES ASSUME q["FEED"] # <<>> PROVE ceil <= CeilDiv(Token, MinRate)
    OBVIOUS
  <2>1. Deficit(q, t) <= Token
    BY UnitsAssumption DEF Deficit, Minus
  <2> QED
    BY <1>1, <1>2, <2>1, CeilDivMonotonic, UnitsAssumption
<1>7. CeilDiv(Token, MinRate) \in Nat /\ CeilDiv(Token, MinRate) >= 1
  BY <1>1, CeilDivType, UnitsAssumption
<1>8. NextWake(q, t, r) = Greater(1, Lesser(ceil, Lesser(feed, direct)))
  BY DEF NextWake
<1> HIDE DEF ceil, feed, direct
<1> QED
  BY <1>3, <1>5, <1>6, <1>7, <1>8 DEF Greater, Lesser

(* The pump sleeps for no longer than anybody may still wait. *)
LEMMA NextWakeInTime ==
    ASSUME NEW q \in Queues, NEW t \in Nat, NEW r \in MinRate .. MaxRate, Ordered(q),
           \A c \in Class : \A i \in DOMAIN q[c] : q[c][i] < MaxWait
    PROVE  /\ NextWake(q, t, r) <= MaxWait
           /\ \A c \in Class : \A i \in DOMAIN q[c] : q[c][i] + NextWake(q, t, r) <= MaxWait
<1> DEFINE wake == NextWake(q, t, r)
           ceil == CeilDiv(Deficit(q, t), r)
           feed == UntilExpiry(q, "FEED")
           direct == UntilExpiry(q, "DIRECT_WATCH")
<1>1. r \in Nat \ {0} /\ MinRate \in Nat \ {0} /\ MinRate <= r
  BY RatesAssumption
<1>2. Deficit(q, t) \in Nat
  BY UnitsAssumption DEF Deficit, Minus
<1>3. ceil \in Nat
  BY <1>1, <1>2, CeilDivType
<1>4. ASSUME NEW c \in Class
      PROVE  /\ UntilExpiry(q, c) \in 1 .. MaxWait
             /\ \A i \in DOMAIN q[c] : q[c][i] + UntilExpiry(q, c) <= MaxWait
  <2>1. q[c] \in Seq(Nat)
    BY DEF Queues
  <2>2. CASE q[c] = <<>>
    BY <2>2, WaitAssumption DEF UntilExpiry
  <2>3. CASE q[c] # <<>>
    <3>1. /\ DOMAIN q[c] = 1 .. Len(q[c]) /\ Len(q[c]) \in Nat
          /\ Len(q[c]) # 0
      BY <2>1, <2>3, LenProperties, EmptySeq
    <3>2. 1 \in DOMAIN q[c] /\ Head(q[c]) = q[c][1]
      BY <3>1
    <3>3. Head(q[c]) \in Nat /\ Head(q[c]) < MaxWait
      BY <2>1, <3>1, <3>2, ElementOfSeq
    <3>4. UntilExpiry(q, c) = MaxWait - Head(q[c])
      BY <2>3, <3>3, WaitAssumption DEF UntilExpiry, Minus
    <3>5. \A i \in DOMAIN q[c] : q[c][i] \in Nat /\ q[c][i] <= Head(q[c])
      <4> TAKE i \in DOMAIN q[c]
      <4>1. q[c][i] \in Nat
        BY <2>1, <3>1, ElementOfSeq
      <4>2. i = 1 \/ 1 < i
        BY <3>1
      <4> QED
        BY <3>2, <3>3, <4>1, <4>2 DEF Ordered
    <3> QED
      BY <3>3, <3>4, <3>5, WaitAssumption
  <2> QED
    BY <2>2, <2>3
<1>5. feed \in 1 .. MaxWait /\ direct \in 1 .. MaxWait
  BY <1>4 DEF Class
<1>6. wake = Greater(1, Lesser(ceil, Lesser(feed, direct)))
  BY DEF NextWake
<1> HIDE DEF wake, ceil, feed, direct
<1>7. wake \in Nat /\ wake <= MaxWait /\ wake <= feed /\ wake <= direct
  BY <1>3, <1>5, <1>6, WaitAssumption DEF Greater, Lesser
<1>8. ASSUME NEW c \in Class, NEW i \in DOMAIN q[c]
       PROVE  q[c][i] + wake <= MaxWait
  <2>1. q[c][i] \in Nat
    BY LenProperties, ElementOfSeq DEF Queues
  <2>2. wake <= UntilExpiry(q, c) /\ UntilExpiry(q, c) \in Nat
    BY <1>5, <1>7 DEF Class, feed, direct
  <2> QED
    BY <1>4, <1>7, <2>1, <2>2, WaitAssumption
<1> QED
  BY <1>7, <1>8 DEF wake

-----------------------------------------------------------------------------
(* What the parts of an action preserve. *)

LEMMA AdvanceKeepsRate ==
    ASSUME BudgetTypeOK
    PROVE  /\ AdvancedRate \in MinRate .. MaxRate
           /\ AdvancedRate >= rate
           /\ AdvancedPenalty \in 0 .. MaxCooldown
           /\ Advance => rate' = AdvancedRate /\ quiet' \in 0 .. RecoveryInterval
                         /\ penalty' = AdvancedPenalty
BY RatesAssumption, CooldownsAssumption
   DEF BudgetTypeOK, AdvancedRate, AdvancedPenalty, Advance, Recovers, Lesser

LEMMA TakeKeepsBucket ==
    ASSUME BudgetTypeOK, ReserveHeldForFeed, CeilingHolds,
           NEW served, served.feed \in Nat, served.direct \in Nat,
           served.feed + served.direct <= tokens,
           served.direct > 0 => tokens - served.feed - served.direct >= Reserve,
           Take(served)
    PROVE  /\ tokens' \in 0 .. Burst
           /\ owed' \in 0 .. Reserve
           /\ footprint' \in Nat
           /\ tokens' + owed' >= Reserve
           /\ tokens' + footprint' <= Burst
<1> DEFINE feed == served.feed
           direct == served.direct
<1>1. /\ tokens' = tokens - feed - direct
      /\ owed' = Lesser(Reserve, owed + feed)
      /\ footprint' = footprint + feed + direct
  BY DEF Take
<1>2. /\ tokens \in 0 .. Burst /\ owed \in 0 .. Reserve /\ footprint \in Nat
      /\ tokens + owed >= Reserve /\ tokens + footprint <= Burst
  BY DEF BudgetTypeOK, ReserveHeldForFeed, CeilingHolds
<1>3. feed \in Nat /\ direct \in Nat /\ feed + direct <= tokens
      /\ (direct > 0 => tokens - feed - direct >= Reserve)
  OBVIOUS
<1> HIDE DEF feed, direct
<1> QED
  BY <1>1, <1>2, <1>3, UnitsAssumption DEF Lesser

(* The waiting requests and the pump: the part of IInv that is about them. *)
Waiting == NobodyWaitsInCooldown /\ OldestFirst /\ WokenInTime /\ Pumped /\ FeedPacedByOneToken

(* The same of queues q, a pump p and its sleep w. *)
WaitingAs(q, cd, p, w) ==
    /\ q \in Queues
    /\ w \in Nat /\ w <= MaxWait
    /\ p \in {"off", "asleep"}
    /\ \A c \in Class : cd[c] > 0 => q[c] = <<>>
    /\ Ordered(q)
    /\ \A c \in Class : \A i \in DOMAIN q[c] : q[c][i] + w <= MaxWait
    /\ q # Nobody => p = "asleep"
    /\ p = "off" => w = 0
    /\ q["FEED"] # <<>> => w <= CeilDiv(Token, MinRate)

LEMMA WaitingNow ==
    ASSUME BudgetTypeOK
    PROVE  Waiting <=> WaitingAs(queue, cooldown, pump, wakeIn)
<1>1. queue \in Queues /\ wakeIn \in Nat /\ pump \in {"off", "asleep"}
  BY DEF BudgetTypeOK, Queues
<1>2. queue["FEED"] # <<>> => queue # Nobody
  BY DEF Nobody
<1> QED
  BY <1>1, <1>2 DEF Waiting, WaitingAs, NobodyWaitsInCooldown, OldestFirst, WokenInTime,
     Pumped, FeedPacedByOneToken

LEMMA WaitingNext ==
    ASSUME BudgetTypeOK', WaitingAs(queue', cooldown', pump', wakeIn')
    PROVE  Waiting'
<1>1. queue'["FEED"] # <<>> => queue' # Nobody
  BY DEF Nobody
<1> QED
  BY <1>1 DEF Waiting, WaitingAs, NobodyWaitsInCooldown, OldestFirst, WokenInTime,
     Pumped, FeedPacedByOneToken

LEMMA NobodyIsEmpty ==
    ASSUME NEW q \in Queues
    PROVE  q = Nobody <=> \A c \in Class : q[c] = <<>>
BY DEF Queues, Nobody, Class

LEMMA InitIInv == BudgetInit => IInv
<1> SUFFICES ASSUME BudgetInit PROVE IInv
  OBVIOUS
<1>1. Nobody \in Queues /\ \A c \in Class : Nobody[c] = <<>>
  <2>1. Nobody = [c \in Class |-> <<>>]
    BY DEF Nobody, Class
  <2>2. <<>> \in Seq(Nat)
    OBVIOUS
  <2> QED
    BY <2>1, <2>2 DEF Queues
<1>2. BudgetTypeOK
  BY <1>1, UnitsAssumption, RatesAssumption, CooldownsAssumption DEF BudgetInit, BudgetTypeOK, Queues
<1>3. WaitingAs(queue, cooldown, pump, wakeIn)
  BY <1>1, WaitAssumption DEF BudgetInit, WaitingAs, Ordered, Class
<1>4. ReserveHeldForFeed /\ CeilingHolds /\ FeedCooldownNeverLonger
  BY UnitsAssumption DEF BudgetInit, ReserveHeldForFeed, CeilingHolds, FeedCooldownNeverLonger, Class
<1> QED
  BY <1>2, <1>3, <1>4, WaitingNow DEF IInv, Waiting

-----------------------------------------------------------------------------
(* One lemma for each action. *)

LEMMA TickStep == IInv /\ BudgetTick => IInv'
<1> SUFFICES ASSUME IInv, BudgetTick PROVE IInv'
  OBVIOUS
<1> USE DEF IInv
<1>1. /\ tokens' \in 0 .. Burst /\ owed' \in 0 .. Reserve /\ footprint' \in Nat
      /\ tokens' + owed' >= Reserve /\ tokens' + footprint' <= Burst
  <2>1. /\ tokens' = Lesser(Burst, tokens + rate)
        /\ owed' = Minus(owed, rate)
        /\ footprint' = Minus(footprint, MaxRate)
    BY DEF BudgetTick, Refilled
  <2>2. /\ tokens \in 0 .. Burst /\ owed \in 0 .. Reserve /\ footprint \in Nat
        /\ rate \in Nat /\ rate <= MaxRate /\ MaxRate \in Nat
    BY RatesAssumption DEF BudgetTypeOK
  <2>3. tokens + owed >= Reserve /\ tokens + footprint <= Burst
    BY DEF ReserveHeldForFeed, CeilingHolds
  <2> QED
    BY <2>1, <2>2, <2>3, UnitsAssumption DEF Lesser, Minus
<1>2. queue \in Queues /\ cooldown \in [Class -> 0 .. MaxRetryAfter] /\ wakeIn \in Nat
  BY DEF BudgetTypeOK, Queues
<1>3. ASSUME NEW c \in Class
      PROVE  /\ queue'[c] \in Seq(Nat)
             /\ DOMAIN queue'[c] = DOMAIN queue[c]
             /\ \A i \in DOMAIN queue[c] : queue[c][i] \in Nat /\ queue'[c][i] = queue[c][i] + 1
             /\ (queue'[c] = <<>> <=> queue[c] = <<>>)
  <2>1. queue'[c] = [i \in DOMAIN queue[c] |-> queue[c][i] + 1]
    BY DEF BudgetTick
  <2>2. queue[c] \in Seq(Nat)
    BY <1>2 DEF Queues
  <2>3. DOMAIN queue[c] = 1 .. Len(queue[c]) /\ Len(queue[c]) \in Nat
    BY <2>2, LenProperties
  <2>4. \A i \in DOMAIN queue[c] : queue[c][i] \in Nat
    BY <2>2, <2>3, ElementOfSeq
  <2>5. queue'[c] \in Seq(Nat)
    BY <2>1, <2>3, <2>4, IsASeq
  <2>6. Len(queue'[c]) = Len(queue[c])
    BY <2>1, <2>3, <2>5, LenProperties
  <2>7. queue'[c] = <<>> <=> queue[c] = <<>>
    BY <2>2, <2>5, <2>6, EmptySeq
  <2> QED
    BY <2>1, <2>4, <2>5, <2>7
<1>4. /\ cooldown' \in [Class -> 0 .. MaxRetryAfter]
      /\ \A c \in Class : cooldown'[c] = Minus(cooldown[c], 1)
  BY <1>2, CooldownsAssumption DEF BudgetTick, Minus
<1>5. queue' \in Queues
  <2>1. queue' = [c \in Class |-> queue'[c]]
    BY DEF BudgetTick
  <2> QED
    BY <1>3, <2>1 DEF Queues
<1>6. BudgetTypeOK'
  <2>1. /\ quiet' \in 0 .. RecoveryInterval /\ since429' \in 0 .. Decay
        /\ rate' = rate /\ penalty' = penalty /\ pump' = pump
    BY RatesAssumption, CooldownsAssumption DEF BudgetTypeOK, BudgetTick, Lesser
  <2>2. wakeIn' \in Nat
    BY <1>2 DEF BudgetTick, Minus
  <2> QED
    BY <1>1, <1>4, <1>5, <2>1, <2>2 DEF BudgetTypeOK, Queues
<1>7. FeedCooldownNeverLonger'
  <2>1. /\ "FEED" \in Class /\ "DIRECT_WATCH" \in Class
        /\ cooldown["FEED"] \in Nat /\ cooldown["DIRECT_WATCH"] \in Nat
    BY <1>2, CooldownsAssumption DEF Class
  <2> QED
    BY <1>4, <2>1 DEF FeedCooldownNeverLonger, Minus
<1>8. queue' = Nobody <=> queue = Nobody
  BY <1>2, <1>3, <1>5, NobodyIsEmpty
<1>9. WaitingAs(queue, cooldown, pump, wakeIn)
  BY WaitingNow DEF Waiting
<1>10. wakeIn' = Minus(wakeIn, 1) /\ pump' = pump /\ (pump = "asleep" => wakeIn > 0)
  BY DEF BudgetTick
<1>11. \A c \in Class : cooldown'[c] > 0 => queue'[c] = <<>>
  <2> TAKE c \in Class
  <2>1. cooldown[c] \in Nat
    BY <1>2, CooldownsAssumption
  <2> QED
    BY <1>3, <1>4, <1>9, <2>1 DEF WaitingAs, Minus
<1>12. Ordered(queue')
  BY <1>3, <1>9 DEF WaitingAs, Ordered
<1>13. \A c \in Class : \A i \in DOMAIN queue'[c] : queue'[c][i] + wakeIn' <= MaxWait
  <2> TAKE c \in Class
  <2> TAKE i \in DOMAIN queue'[c]
  <2>1. queue[c] # <<>>
    BY <1>2, <1>3, LenProperties DEF Queues
  <2>2. queue # Nobody
    BY <1>2, <2>1, NobodyIsEmpty
  <2>3. pump = "asleep" /\ wakeIn > 0
    BY <1>9, <1>10, <2>2 DEF WaitingAs
  <2>4. queue[c][i] + wakeIn <= MaxWait /\ queue[c][i] \in Nat /\ queue'[c][i] = queue[c][i] + 1
    BY <1>3, <1>9 DEF WaitingAs
  <2> QED
    BY <1>2, <1>10, <2>3, <2>4, WaitAssumption DEF Minus
<1>14. /\ wakeIn' <= MaxWait /\ wakeIn' <= wakeIn
       /\ (pump' = "off" => wakeIn' = 0)
  BY <1>2, <1>9, <1>10, WaitAssumption DEF Minus, WaitingAs
<1>15. queue'["FEED"] # <<>> => wakeIn' <= CeilDiv(Token, MinRate)
  <2>1. CeilDiv(Token, MinRate) \in Nat
    BY CeilDivType, UnitsAssumption, RatesAssumption
  <2>2. queue'["FEED"] # <<>> => wakeIn <= CeilDiv(Token, MinRate)
    BY <1>3, <1>9 DEF WaitingAs, Class
  <2>3. wakeIn' \in Nat /\ wakeIn \in Nat /\ wakeIn' <= wakeIn
    BY <1>2, <1>6, <1>14 DEF BudgetTypeOK
  <2>4. wakeIn <= CeilDiv(Token, MinRate) => wakeIn' <= CeilDiv(Token, MinRate)
    BY <2>1, <2>3
  <2> QED
    BY <2>2, <2>4
<1>16. WaitingAs(queue', cooldown', pump', wakeIn')
  BY <1>5, <1>6, <1>8, <1>9, <1>10, <1>11, <1>12, <1>13, <1>14, <1>15 DEF WaitingAs, BudgetTypeOK
<1>17. Waiting'
  BY <1>6, <1>16, WaitingNext
<1> QED
  BY <1>1, <1>6, <1>7, <1>17 DEF Waiting, ReserveHeldForFeed, CeilingHolds

LEMMA PumpStopsStep == IInv /\ PumpStops => IInv'
<1> SUFFICES ASSUME IInv, PumpStops PROVE IInv'
  OBVIOUS
<1>1. /\ BudgetTypeOK' /\ ReserveHeldForFeed' /\ CeilingHolds' /\ FeedCooldownNeverLonger'
      /\ OldestFirst' /\ NobodyWaitsInCooldown'
  BY DEF IInv, PumpStops, BudgetTypeOK, ReserveHeldForFeed, CeilingHolds, FeedCooldownNeverLonger,
     OldestFirst, Ordered, NobodyWaitsInCooldown, limits
<1>2. queue' = Nobody /\ wakeIn' = 0 /\ wakeIn = 0 /\ queue' = queue
  BY DEF PumpStops
<1> QED
  BY <1>1, <1>2 DEF IInv, WokenInTime, Pumped, FeedPacedByOneToken, Nobody

LEMMA ChargeUnbudgetedStep == IInv /\ ChargeUnbudgeted => IInv'
<1> SUFFICES ASSUME IInv, ChargeUnbudgeted PROVE IInv'
  OBVIOUS
<1>1. /\ rate' \in MinRate .. MaxRate /\ quiet' \in 0 .. RecoveryInterval
      /\ penalty' \in 0 .. MaxCooldown
  BY AdvanceKeepsRate DEF IInv, ChargeUnbudgeted
<1>2. /\ tokens' \in 0 .. Burst /\ owed' \in 0 .. Reserve /\ footprint' = footprint
      /\ tokens' + owed' >= Reserve /\ tokens' + footprint' <= Burst
  BY UnitsAssumption DEF IInv, BudgetTypeOK, ChargeUnbudgeted, ReserveHeldForFeed, CeilingHolds,
     Minus, Lesser
<1>3. UNCHANGED <<since429, cooldown, queue, pump, wakeIn>>
  BY DEF ChargeUnbudgeted
<1>4. BudgetTypeOK' /\ ReserveHeldForFeed' /\ CeilingHolds'
  BY <1>1, <1>2, <1>3 DEF IInv, BudgetTypeOK, ReserveHeldForFeed, CeilingHolds
<1> QED
  BY <1>3, <1>4 DEF IInv, FeedCooldownNeverLonger, NobodyWaitsInCooldown, OldestFirst, Ordered,
     WokenInTime, Pumped, FeedPacedByOneToken

LEMMA Note429Step ==
    ASSUME IInv, NEW c \in Class, NEW retryAfter \in RetryAfters, Note429(c, retryAfter)
    PROVE  IInv'
<1> DEFINE full == Greater(Lesser(MaxRetryAfter, retryAfter), Escalated)
<1>1. full \in 1 .. MaxRetryAfter /\ Escalated \in 1 .. MaxCooldown
  <2>1. AdvancedPenalty \in 0 .. MaxCooldown
    BY AdvanceKeepsRate DEF IInv
  <2>2. Escalated \in 1 .. MaxCooldown
    BY <2>1, CooldownsAssumption DEF Escalated, Lesser
  <2> HIDE DEF full
  <2>3. full = Greater(Lesser(MaxRetryAfter, retryAfter), Escalated)
    BY DEF full
  <2> QED
    BY <2>2, <2>3, CooldownsAssumption DEF Greater, Lesser
<1>2. ASSUME NEW d \in Class
      PROVE  CooldownFor(c, d, full) \in 1 .. MaxRetryAfter /\ CooldownFor(c, d, full) <= full
  <2> HIDE DEF full
  <2>1. full \in Nat /\ ShareDivisor \in Nat \ {0}
    BY <1>1, CooldownsAssumption
  <2>2. CeilDiv(full, ShareDivisor) \in Nat /\ CeilDiv(full, ShareDivisor) >= 1
        /\ CeilDiv(full, ShareDivisor) <= full
    BY <1>1, <2>1, CeilDivType, CeilDivAtMost
  <2> QED
    BY <1>1, <2>1, <2>2, CooldownsAssumption DEF CooldownFor
<1>3. CooldownFor(c, "DIRECT_WATCH", full) = full
  BY DEF CooldownFor
<1> HIDE DEF full
<1>4. \A d \in Class : cooldown'[d] = Greater(cooldown[d], CooldownFor(c, d, full))
  BY DEF Note429, full
<1>5. cooldown \in [Class -> 0 .. MaxRetryAfter]
  BY DEF IInv, BudgetTypeOK
<1>6. \A d \in Class : cooldown'[d] \in 1 .. MaxRetryAfter
  <2> TAKE d \in Class
  <2>1. cooldown[d] \in 0 .. MaxRetryAfter
    BY <1>5
  <2> QED
    BY <1>2, <1>4, <2>1, CooldownsAssumption DEF Greater
<1>7. cooldown' \in [Class -> 0 .. MaxRetryAfter]
  <2>1. cooldown' = [d \in Class |-> cooldown'[d]]
    BY DEF Note429
  <2> QED
    BY <1>6, <2>1, CooldownsAssumption
<1>8. FeedCooldownNeverLonger'
  <2>1. /\ "FEED" \in Class /\ "DIRECT_WATCH" \in Class
        /\ cooldown["FEED"] \in Nat /\ cooldown["DIRECT_WATCH"] \in Nat
        /\ cooldown["FEED"] <= cooldown["DIRECT_WATCH"]
    BY <1>5, CooldownsAssumption DEF Class, IInv, FeedCooldownNeverLonger
  <2>2. CooldownFor(c, "FEED", full) \in Nat /\ full \in Nat /\ CooldownFor(c, "FEED", full) <= full
    BY <1>1, <1>2, <2>1, CooldownsAssumption
  <2>3. /\ cooldown'["FEED"] = Greater(cooldown["FEED"], CooldownFor(c, "FEED", full))
        /\ cooldown'["DIRECT_WATCH"] = Greater(cooldown["DIRECT_WATCH"], full)
    BY <1>3, <1>4, <2>1
  <2>4. cooldown'["FEED"] <= cooldown'["DIRECT_WATCH"]
    BY <2>1, <2>2, <2>3 DEF Greater
  <2> QED
    BY <2>4 DEF FeedCooldownNeverLonger
<1>9. queue' \in Queues /\ (\A d \in Class : queue'[d] = <<>>)
  <2> DEFINE r == Served(queue, 0, cooldown').queue
  <2>1. queue \in Queues /\ cooldown' \in [Class -> Nat] /\ 0 \in Nat
    BY <1>7, CooldownsAssumption DEF IInv, BudgetTypeOK, Queues
  <2>2. /\ r = [d \in Class |-> r[d]]
        /\ \A d \in Class : cooldown'[d] > 0 => r[d] = <<>>
    BY <2>1, ServedIsPaid
  <2>3. queue' = r
    BY DEF Note429, Rejected
  <2> HIDE DEF r
  <2>4. \A d \in Class : r[d] = <<>>
    BY <1>6, <2>2
  <2>5. <<>> \in Seq(Nat)
    OBVIOUS
  <2> QED
    BY <2>2, <2>3, <2>4, <2>5 DEF Queues
<1>10. queue' = Nobody
  BY <1>9, NobodyIsEmpty
<1>11. /\ tokens' = 0 /\ owed' = Reserve /\ footprint' = footprint
       /\ quiet' = 0 /\ since429' = 0 /\ penalty' = Escalated /\ rate' = Reduced
       /\ pump' = pump /\ wakeIn' = wakeIn
  BY DEF Note429
<1>12. Reduced \in MinRate .. MaxRate
  <2>1. AdvancedRate \in MinRate .. MaxRate
    BY AdvanceKeepsRate DEF IInv
  <2>2. AdvancedRate \div 2 \in Nat /\ AdvancedRate \div 2 <= AdvancedRate
    BY <2>1, RatesAssumption
  <2> QED
    BY <2>1, <2>2, RatesAssumption DEF Reduced, Greater
<1>13. BudgetTypeOK'
  BY <1>1, <1>7, <1>9, <1>11, <1>12, UnitsAssumption, RatesAssumption, CooldownsAssumption
     DEF IInv, BudgetTypeOK, Queues
<1>14. ReserveHeldForFeed' /\ CeilingHolds'
  BY <1>11, UnitsAssumption DEF IInv, BudgetTypeOK, ReserveHeldForFeed, CeilingHolds
<1>15. WaitingAs(queue', cooldown', pump', wakeIn')
  <2>1. \A d \in Class : DOMAIN queue'[d] = {}
    BY <1>9
  <2>2. queue'["FEED"] = <<>>
    BY <1>9 DEF Class
  <2>3. wakeIn \in Nat /\ wakeIn <= MaxWait /\ pump \in {"off", "asleep"} /\ (pump = "off" => wakeIn = 0)
    BY DEF IInv, BudgetTypeOK, WokenInTime, Pumped
  <2> QED
    BY <1>9, <1>10, <1>11, <2>1, <2>2, <2>3 DEF WaitingAs, Ordered
<1> QED
  BY <1>8, <1>13, <1>14, <1>15, WaitingNext DEF IInv, Waiting

LEMMA AcquireStep ==
    ASSUME IInv, NEW c \in Class, Acquire(c)
    PROVE  IInv'
<1> DEFINE q == [queue EXCEPT ![c] = Append(@, 0)]
           served == Served(q, tokens, cooldown)
           r == served.queue
           wake == NextWake(r, tokens', rate')
<1>1. queue \in Queues /\ cooldown \in [Class -> Nat] /\ tokens \in Nat
  BY CooldownsAssumption DEF IInv, BudgetTypeOK, Queues
<1>2. WaitingAs(queue, cooldown, pump, wakeIn)
  BY WaitingNow DEF IInv, Waiting
<1>3. /\ q[c] \in Seq(Nat)
      /\ DOMAIN q[c] = 1 .. Len(queue[c]) + 1 /\ DOMAIN queue[c] = 1 .. Len(queue[c])
      /\ Len(queue[c]) \in Nat
      /\ q[c][Len(queue[c]) + 1] = 0
      /\ \A i \in DOMAIN queue[c] : q[c][i] = queue[c][i]
  <2>1. queue[c] \in Seq(Nat) /\ q[c] = Append(queue[c], 0)
    BY <1>1 DEF Queues
  <2>2. DOMAIN queue[c] = 1 .. Len(queue[c]) /\ Len(queue[c]) \in Nat
    BY <2>1, LenProperties
  <2> QED
    BY <2>1, <2>2, AppendProperties, LenProperties
<1>4. \A d \in Class : d # c => q[d] = queue[d]
  BY <1>1 DEF Queues
<1>5. q \in Queues
  BY <1>1, <1>3, <1>4 DEF Queues
<1> HIDE DEF q
<1>6. Ordered(q)
  <2> SUFFICES ASSUME NEW d \in Class, NEW i \in DOMAIN q[d], NEW j \in DOMAIN q[d], i < j
               PROVE  q[d][i] >= q[d][j]
    BY DEF Ordered
  <2>1. CASE d # c
    BY <1>2, <1>4, <2>1 DEF WaitingAs, Ordered
  <2>2. CASE d = c
    <3>1. i \in DOMAIN queue[c] /\ q[c][i] = queue[c][i]
      BY <1>3, <2>2
    <3>2. queue[c][i] \in Nat
      BY <1>1, <1>3, <3>1, ElementOfSeq DEF Queues
    <3>3. CASE j = Len(queue[c]) + 1
      BY <1>3, <2>2, <3>1, <3>2, <3>3
    <3>4. CASE j \in DOMAIN queue[c]
      <4>1. q[c][j] = queue[c][j]
        BY <1>3, <3>4
      <4>2. queue[c][i] >= queue[c][j]
        BY <1>2, <3>1, <3>4 DEF WaitingAs, Ordered
      <4> QED
        BY <2>2, <3>1, <4>1, <4>2
    <3>5. j = Len(queue[c]) + 1 \/ j \in DOMAIN queue[c]
      <4>1. j \in 1 .. Len(queue[c]) + 1
        BY <1>3, <2>2
      <4> QED
        BY <1>3, <4>1
    <3> QED
      BY <3>3, <3>4, <3>5
  <2> QED
    BY <2>1, <2>2
<1>7. \A d \in Class : \A i \in DOMAIN q[d] : q[d][i] + wakeIn <= MaxWait
  <2> SUFFICES ASSUME NEW d \in Class, NEW i \in DOMAIN q[d]
               PROVE  q[d][i] + wakeIn <= MaxWait
    OBVIOUS
  <2>1. CASE d # c
    BY <1>2, <1>4, <2>1 DEF WaitingAs
  <2>2. CASE d = c /\ i \in DOMAIN queue[c]
    BY <1>2, <1>3, <2>2 DEF WaitingAs
  <2>3. CASE d = c /\ i = Len(queue[c]) + 1
    <3>1. q[d][i] = 0 /\ wakeIn \in Nat /\ wakeIn <= MaxWait
      BY <1>2, <1>3, <2>3 DEF WaitingAs
    <3> QED
      BY <3>1, WaitAssumption
  <2> QED
    BY <1>3, <2>1, <2>2, <2>3
<1>8. pump = "off" => \A d \in Class : \A i \in DOMAIN q[d] : q[d][i] < MaxWait
  <2> SUFFICES ASSUME pump = "off", NEW d \in Class, NEW i \in DOMAIN q[d]
               PROVE  q[d][i] < MaxWait
    OBVIOUS
  <2>1. queue = Nobody
    BY <1>2 DEF WaitingAs
  <2>2. queue[d] = <<>> /\ queue[c] = <<>>
    BY <1>1, <2>1, NobodyIsEmpty
  <2>3. Len(queue[c]) = 0
    BY <2>2
  <2>4. d = c
    BY <1>4, <2>2
  <2>5. i = Len(queue[c]) + 1
    BY <1>3, <2>3, <2>4
  <2> QED
    BY <1>3, <2>4, <2>5, WaitAssumption
<1>9. /\ served.feed \in Nat /\ served.direct \in Nat
      /\ served.feed + served.direct <= tokens
      /\ served.direct > 0 => tokens - served.feed - served.direct >= Reserve
      /\ r = [d \in Class |-> r[d]]
      /\ Suffixes(r, q)
      /\ \A d \in Class : cooldown[d] > 0 => r[d] = <<>>
  BY <1>1, <1>5, ServedIsPaid
<1>10. /\ Take(served) /\ queue' = r /\ Advance
       /\ since429' = since429 /\ cooldown' = cooldown
       /\ \/ r = Nobody /\ pump' = pump /\ wakeIn' = wakeIn
          \/ /\ r # Nobody /\ pump' = "asleep"
             /\ wakeIn' = IF pump = "off" THEN wake ELSE WakeEarly(wake)
  BY DEF Acquire, q
<1> HIDE DEF served
<1>11. /\ tokens' \in 0 .. Burst /\ owed' \in 0 .. Reserve /\ footprint' \in Nat
       /\ tokens' + owed' >= Reserve /\ tokens' + footprint' <= Burst
  BY <1>9, <1>10, TakeKeepsBucket DEF IInv
<1>12. /\ rate' \in MinRate .. MaxRate /\ quiet' \in 0 .. RecoveryInterval
       /\ penalty' \in 0 .. MaxCooldown
  BY <1>10, AdvanceKeepsRate DEF IInv
<1> HIDE DEF r
<1>13. /\ r \in Queues /\ Ordered(r)
       /\ \A d \in Class : \A i \in DOMAIN r[d] : \E j \in DOMAIN q[d] : r[d][i] = q[d][j]
  BY <1>5, <1>6, <1>9, SuffixesKeepOrder
<1>14. \A d \in Class : \A i \in DOMAIN r[d] : r[d][i] \in Nat
  BY <1>13, LenProperties, ElementOfSeq DEF Queues
<1>15. /\ wake \in Nat
       /\ r["FEED"] # <<>> => wake <= CeilDiv(Token, MinRate)
  BY <1>11, <1>12, <1>13, NextWakePaced, UnitsAssumption
<1>16. pump = "off" => /\ wake <= MaxWait
                      /\ \A d \in Class : \A i \in DOMAIN r[d] : r[d][i] + wake <= MaxWait
  <2> SUFFICES ASSUME pump = "off"
               PROVE  /\ wake <= MaxWait
                      /\ \A d \in Class : \A i \in DOMAIN r[d] : r[d][i] + wake <= MaxWait
    OBVIOUS
  <2>1. \A d \in Class : \A i \in DOMAIN r[d] : r[d][i] < MaxWait
    BY <1>8, <1>13
  <2> QED
    BY <1>11, <1>12, <1>13, <2>1, NextWakeInTime, UnitsAssumption
<1> HIDE DEF wake
<1>17. WaitingAs(r, cooldown, pump', wakeIn')
  <2>1. /\ wakeIn \in Nat /\ wakeIn <= MaxWait /\ pump \in {"off", "asleep"}
        /\ (pump = "off" => wakeIn = 0)
    BY <1>2 DEF WaitingAs
  <2>2. CASE r = Nobody /\ pump' = pump /\ wakeIn' = wakeIn
    <3>1. \A d \in Class : DOMAIN r[d] = {}
      BY <1>13, <2>2, NobodyIsEmpty
    <3>2. r["FEED"] = <<>>
      BY <2>2 DEF Nobody
    <3> QED
      BY <1>9, <1>13, <2>1, <2>2, <3>1, <3>2 DEF WaitingAs
  <2>3. CASE r # Nobody /\ pump' = "asleep" /\ pump = "off" /\ wakeIn' = wake
    BY <1>9, <1>13, <1>15, <1>16, <2>3 DEF WaitingAs
  <2>4. CASE r # Nobody /\ pump' = "asleep" /\ wakeIn' = WakeEarly(wake)
    <3>1. wakeIn' \in Nat /\ wakeIn' <= wakeIn /\ wakeIn' <= wake /\ wakeIn' <= MaxWait
      BY <1>15, <2>1, <2>4, WaitAssumption DEF WakeEarly
    <3>2. \A d \in Class : \A i \in DOMAIN r[d] : r[d][i] + wakeIn' <= MaxWait
      <4> TAKE d \in Class
      <4> TAKE i \in DOMAIN r[d]
      <4>1. r[d][i] \in Nat /\ r[d][i] + wakeIn <= MaxWait
        BY <1>7, <1>13, <1>14
      <4> QED
        BY <2>1, <3>1, <4>1, WaitAssumption
    <3>3. r["FEED"] # <<>> => wakeIn' <= CeilDiv(Token, MinRate)
      <4>1. CeilDiv(Token, MinRate) \in Nat
        BY CeilDivType, UnitsAssumption, RatesAssumption
      <4> QED
        BY <1>15, <3>1, <4>1
    <3> QED
      BY <1>9, <1>13, <2>4, <3>1, <3>2, <3>3 DEF WaitingAs
  <2>5. pump = "off" \/ pump = "asleep"
    BY <2>1
  <2> QED
    BY <1>10, <2>2, <2>3, <2>4, <2>5
<1>18. BudgetTypeOK'
  BY <1>10, <1>11, <1>12, <1>13, <1>17 DEF IInv, BudgetTypeOK, Queues, WaitingAs
<1>19. Waiting'
  BY <1>10, <1>17, <1>18, WaitingNext
<1> QED
  BY <1>10, <1>11, <1>18, <1>19 DEF IInv, Waiting, ReserveHeldForFeed, CeilingHolds,
     FeedCooldownNeverLonger

LEMMA PumpServesStep == IInv /\ PumpServes => IInv'
<1> SUFFICES ASSUME IInv, PumpServes PROVE IInv'
  OBVIOUS
<1> DEFINE served == Served(queue, tokens, cooldown)
           r == served.queue
<1>1. queue \in Queues /\ cooldown \in [Class -> Nat] /\ tokens \in Nat
  BY CooldownsAssumption DEF IInv, BudgetTypeOK, Queues
<1>2. Ordered(queue)
  BY DEF IInv, OldestFirst
<1>3. /\ served.feed \in Nat /\ served.direct \in Nat
      /\ served.feed + served.direct <= tokens
      /\ served.direct > 0 => tokens - served.feed - served.direct >= Reserve
      /\ r = [d \in Class |-> r[d]]
      /\ Suffixes(r, queue)
      /\ \A d \in Class : cooldown[d] > 0 => r[d] = <<>>
  BY <1>1, ServedIsPaid
<1>4. PICK n \in [Class -> 0 .. MaxQueue] : Expire(r, n, queue')
  BY DEF PumpServes
<1>5. /\ Take(served) /\ Advance
      /\ since429' = since429 /\ cooldown' = cooldown
      /\ \/ queue' = Nobody /\ pump' = "off" /\ wakeIn' = 0
         \/ /\ queue' # Nobody /\ pump' = "asleep"
            /\ wakeIn' = NextWake(queue', tokens', rate')
  BY DEF PumpServes
<1> HIDE DEF served
<1>6. /\ tokens' \in 0 .. Burst /\ owed' \in 0 .. Reserve /\ footprint' \in Nat
      /\ tokens' + owed' >= Reserve /\ tokens' + footprint' <= Burst
  BY <1>3, <1>5, TakeKeepsBucket DEF IInv
<1>7. /\ rate' \in MinRate .. MaxRate /\ quiet' \in 0 .. RecoveryInterval
      /\ penalty' \in 0 .. MaxCooldown
  BY <1>5, AdvanceKeepsRate DEF IInv
<1> HIDE DEF r
<1>8. r \in Queues /\ Ordered(r)
  BY <1>1, <1>2, <1>3, SuffixesKeepOrder
<1>9. /\ Suffixes(queue', r)
      /\ queue' = [d \in Class |-> queue'[d]]
  <2>1. ASSUME NEW d \in Class
        PROVE  n[d] \in 0 .. Len(r[d]) /\ queue'[d] = Drop(r[d], n[d])
    <3>1. n[d] \in Nat
      BY WaitAssumption
    <3>2. n[d] <= Len(r[d]) /\ queue'[d] = Drop(r[d], n[d])
      BY <1>4 DEF Expire
    <3>3. Len(r[d]) \in Nat
      BY <1>8, LenProperties DEF Queues
    <3> QED
      BY <3>1, <3>2, <3>3
  <2>2. queue' = [d \in Class |-> queue'[d]]
    BY <1>4 DEF Expire
  <2> QED
    BY <2>1, <2>2 DEF Suffixes
<1>10. /\ queue' \in Queues /\ Ordered(queue')
       /\ \A d \in Class : r[d] = <<>> => queue'[d] = <<>>
  BY <1>8, <1>9, SuffixesKeepOrder
<1>11. ASSUME NEW d \in Class, NEW i \in DOMAIN queue'[d]
       PROVE  queue'[d][i] \in Nat /\ queue'[d][i] < MaxWait
  <2>1. /\ n[d] \in Nat /\ n[d] <= Len(r[d]) /\ queue'[d] = Drop(r[d], n[d])
        /\ \A j \in DOMAIN r[d] : r[d][j] >= MaxWait <=> j <= n[d]
    BY <1>4, WaitAssumption DEF Expire
  <2>2. r[d] \in Seq(Nat) /\ Len(r[d]) \in Nat /\ queue'[d] \in Seq(Nat)
    BY <1>8, <1>10, LenProperties DEF Queues
  <2>3. i + n[d] \in DOMAIN r[d] /\ queue'[d][i] = r[d][i + n[d]]
    <3>1. n[d] \in 0 .. Len(r[d])
      BY <2>1, <2>2
    <3>2. \A j \in DOMAIN Drop(r[d], n[d]) :
            j + n[d] \in DOMAIN r[d] /\ Drop(r[d], n[d])[j] = r[d][j + n[d]]
      BY <2>2, <3>1, DropIsSuffix
    <3> QED
      BY <2>1, <3>2
  <2>4. i \in Nat /\ i >= 1 /\ queue'[d][i] \in Nat
    BY <2>2, LenProperties, ElementOfSeq
  <2>5. ~(r[d][i + n[d]] >= MaxWait)
    BY <2>1, <2>3, <2>4
  <2> QED
    BY <2>3, <2>4, <2>5, WaitAssumption
<1>12. WaitingAs(queue', cooldown, pump', wakeIn')
  <2>1. CASE queue' = Nobody /\ pump' = "off" /\ wakeIn' = 0
    <3>1. \A d \in Class : queue'[d] = <<>> /\ DOMAIN queue'[d] = {}
      BY <1>10, <2>1, NobodyIsEmpty
    <3>2. queue'["FEED"] = <<>>
      BY <3>1 DEF Class
    <3> QED
      BY <1>10, <2>1, <3>1, <3>2, WaitAssumption DEF WaitingAs
  <2>2. CASE /\ queue' # Nobody /\ pump' = "asleep"
             /\ wakeIn' = NextWake(queue', tokens', rate')
    <3>1. \A d \in Class : \A i \in DOMAIN queue'[d] : queue'[d][i] < MaxWait
      BY <1>11
    <3>2. tokens' \in Nat
      BY <1>6, UnitsAssumption
    <3>3. /\ wakeIn' <= MaxWait
          /\ \A d \in Class : \A i \in DOMAIN queue'[d] : queue'[d][i] + wakeIn' <= MaxWait
      BY <1>7, <1>10, <2>2, <3>1, <3>2, NextWakeInTime
    <3>4. /\ wakeIn' \in Nat
          /\ queue'["FEED"] # <<>> => wakeIn' <= CeilDiv(Token, MinRate)
      BY <1>7, <1>10, <2>2, <3>2, NextWakePaced
    <3>5. \A d \in Class : cooldown[d] > 0 => queue'[d] = <<>>
      BY <1>3, <1>10
    <3> QED
      BY <1>10, <2>2, <3>3, <3>4, <3>5 DEF WaitingAs
  <2> QED
    BY <1>5, <2>1, <2>2
<1>13. BudgetTypeOK'
  BY <1>5, <1>6, <1>7, <1>10, <1>12 DEF IInv, BudgetTypeOK, Queues, WaitingAs
<1>14. Waiting'
  BY <1>5, <1>12, <1>13, WaitingNext
<1> QED
  BY <1>5, <1>6, <1>13, <1>14 DEF IInv, Waiting, ReserveHeldForFeed, CeilingHolds,
     FeedCooldownNeverLonger

-----------------------------------------------------------------------------
(* The theorems. *)

(* The invariant is inductive, for any rates, bounds and waits. *)
THEOREM Invariance == BudgetSpec => []IInv
<1>1. IInv /\ [BudgetNext]_budgetVars => IInv'
  <2> SUFFICES ASSUME IInv, [BudgetNext]_budgetVars PROVE IInv'
    OBVIOUS
  <2>1. CASE BudgetTick
    BY <2>1, TickStep
  <2>2. ASSUME NEW c \in Class, Acquire(c) PROVE IInv'
    BY <2>2, AcquireStep
  <2>3. CASE PumpStops
    BY <2>3, PumpStopsStep
  <2>4. CASE PumpServes
    BY <2>4, PumpServesStep
  <2>5. CASE ChargeUnbudgeted
    BY <2>5, ChargeUnbudgetedStep
  <2>6. ASSUME NEW c \in Class, NEW retryAfter \in RetryAfters, Note429(c, retryAfter)
        PROVE  IInv'
    BY <2>6, Note429Step
  <2>7. CASE UNCHANGED budgetVars
    BY <2>7 DEF budgetVars, IInv, BudgetTypeOK, ReserveHeldForFeed, CeilingHolds, FeedCooldownNeverLonger,
       NobodyWaitsInCooldown, OldestFirst, Ordered, WokenInTime, Pumped, FeedPacedByOneToken
  <2> QED
    BY <2>1, <2>2, <2>3, <2>4, <2>5, <2>6, <2>7 DEF BudgetNext
<1> QED
  BY InitIInv, <1>1, PTL DEF BudgetSpec

(* Type correctness: the bucket stays within its burst, the rate between its
   floor and its ceiling, a cooldown within maxRetryAfterCooldownMs. *)
THEOREM TypeCorrect == BudgetSpec => []BudgetTypeOK
<1>1. IInv => BudgetTypeOK
  BY DEF IInv
<1> QED
  BY Invariance, <1>1, PTL

(* No direct-watch request ever takes a token of the feed's reserve. *)
THEOREM ReserveHeldForFeedHolds == BudgetSpec => []ReserveHeldForFeed
<1>1. IInv => ReserveHeldForFeed
  BY DEF IInv
<1> QED
  BY Invariance, <1>1, PTL

(* The granted requests stay within one burst and the configured ceiling. *)
THEOREM CeilingHoldsAlways == BudgetSpec => []CeilingHolds
<1>1. IInv => CeilingHolds
  BY DEF IInv
<1> QED
  BY Invariance, <1>1, PTL

(* The feed's cooldown is never the longer one. *)
THEOREM FeedCooldownNeverLongerHolds == BudgetSpec => []FeedCooldownNeverLonger
<1>1. IInv => FeedCooldownNeverLonger
  BY DEF IInv
<1> QED
  BY Invariance, <1>1, PTL

(* A class in a cooldown has no waiting requests. *)
THEOREM NobodyWaitsInCooldownHolds == BudgetSpec => []NobodyWaitsInCooldown
<1>1. IInv => NobodyWaitsInCooldown
  BY DEF IInv
<1> QED
  BY Invariance, <1>1, PTL

(* No request waits longer than maxAcquireWaitMs. *)
THEOREM WaitBoundedHolds == BudgetSpec => []WaitBounded
<1>1. IInv => WaitBounded
  <2> SUFFICES ASSUME IInv, NEW c \in Class, NEW i \in DOMAIN queue[c]
               PROVE  queue[c][i] <= MaxWait
    BY DEF WaitBounded
  <2>1. queue[c] \in Seq(Nat) /\ wakeIn \in Nat /\ queue[c][i] + wakeIn <= MaxWait
    BY DEF IInv, BudgetTypeOK, WokenInTime
  <2>2. queue[c][i] \in Nat
    BY <2>1, LenProperties, ElementOfSeq
  <2> QED
    BY <2>1, <2>2, WaitAssumption
<1> QED
  BY Invariance, <1>1, PTL

(* A waiting feed request is paced by the refill of one token. *)
THEOREM FeedPacedByOneTokenHolds == BudgetSpec => []FeedPacedByOneToken
<1>1. IInv => FeedPacedByOneToken
  BY DEF IInv
<1> QED
  BY Invariance, <1>1, PTL

(* The conjunction that the runs check.                                    *)
THEOREM BudgetSafeHolds == BudgetSpec => []BudgetSafe
<1>1. (/\ BudgetTypeOK /\ ReserveHeldForFeed /\ CeilingHolds /\ FeedCooldownNeverLonger
       /\ NobodyWaitsInCooldown /\ WaitBounded /\ FeedPacedByOneToken) => BudgetSafe
  BY DEF BudgetSafe
<1> QED
  BY <1>1, TypeCorrect, ReserveHeldForFeedHolds, CeilingHoldsAlways, FeedCooldownNeverLongerHolds,
     NobodyWaitsInCooldownHolds, WaitBoundedHolds, FeedPacedByOneTokenHolds, PTL
=============================================================================
