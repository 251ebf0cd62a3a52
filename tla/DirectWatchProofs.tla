-------------------------- MODULE DirectWatchProofs --------------------------
(***************************************************************************)
(* Proofs about DirectWatch: its type invariant, IntervalsOrdered,         *)
(* OwnedCloseStillReadable, WatermarkPassesHandledOnly, RetiresSafely and  *)
(* BaselineNotCopied.                                                      *)
(*                                                                         *)
(* IInv is the inductive invariant.  Its parts are kept true in the order  *)
(* in which they need each other: Base (the records, the scan and the      *)
(* source), the CLOSED rows that a scan read (RowsAreOldest), then what    *)
(* the properties rest on: OwnedCloseStillReadable itself, CaptureCovers   *)
(* for the watermark and DrainProven for retirement.  On it rests          *)
(* Swallowed, for what a baseline swallowed.  An operator on the record    *)
(* has a lemma named ...Sound, an action one named ...Facts.               *)
(***************************************************************************)
EXTENDS DirectWatch, FiniteSetTheorems, SequenceTheorems, TLAPS

(* No admission is open, or the last one is. *)
NoneOpen(intervals) == intervals = <<>> \/ intervals[Len(intervals)].until # 0

Past(intervals, n) == \A i \in DOMAIN intervals : intervals[i].from <= n /\ intervals[i].until <= n

(* Only a portfolio that is watched, or in grace, has an open admission. *)
Admissions(t, n) ==
    /\ OrderedIntervals(t.intervals)
    /\ Past(t.intervals, n)
    /\ NoneOpen(t.intervals) \/ (t.openInit /\ t.lifecycle \in {"ACTIVE", "MISSING_GRACE"})

(* What the stages of enrolment mean, as in TypeOK. *)
Staged(t) ==
    /\ t.openInit => t.closedInit /\ t.intervals # <<>>
    /\ t.lifecycle \in {"NONE", "ENROLLING"} => ~ t.openInit
    /\ t.lifecycle = "ACTIVE" => t.openInit

(* No watermark, and no moment that was noted, is ahead of the clock. *)
Clocked(t, n) ==
    /\ t.baselineAt <= n /\ t.through <= n /\ t.closedThrough <= n /\ t.retiredAt <= n
    /\ t.lifecycle # "NONE" => t.baselineAt >= 1
    /\ t.lifecycle \in {"RETIRING", "TOMBSTONE"} => t.baselineAt <= t.retiredAt
    /\ t.lifecycle = "TOMBSTONE" => t.retiredAt < n

TargetSound(t, n) == Staged(t) /\ Admissions(t, n) /\ Clocked(t, n)

(* The parts of a scan that are in progress, and since when. *)
ScanShape ==
    /\ scan.stage = "idle" => scan = Idle
    /\ scan.stage # "idle" => 1 <= scan.at /\ scan.at <= now
    /\ scan.stage # "idle" => \A i \in DOMAIN target.intervals : target.intervals[i].until <= scan.at
    /\ scan.open = "due" => scan.stage = "hydrate" /\ target.closedInit /\ scan.captured = {}
    /\ scan.closed # "off" => scan.stage = "hydrate"
    /\ scan.closed = "read" => target.closedInit
    /\ scan.captured # {} => target.lifecycle \in {"ACTIVE", "MISSING_GRACE", "RETIRING"}
    /\ scan.left \subseteq scan.captured
    /\ scan.stage = "flush" => scan.captured # {}
    /\ scan.highWater <= now

(* The source opens a trade before it increases or closes it. *)
SourceOrder ==
    \A t \in Trades :
        /\ Has(Raising(t)) => Has(Opening(t)) /\ happened[Opening(t)] < happened[Raising(t)]
        /\ Has(Closing(t)) => Has(Opening(t))

(* A handled close leaves no exposure, and there is no exposure that was not observed. *)
Exposure ==
    /\ managed \cap handledClose = {}
    /\ managed \subseteq observed
    /\ target.closedIds \subseteq ClosedRows

(* The CLOSED rows read are the oldest of those there are now. *)
RowsAreOldest ==
    /\ scan.rows \subseteq ClosedRows
    /\ scan.complete => \A r \in scan.rows, t \in ClosedRows \ scan.rows :
                           happened[Closing(r)] <= happened[Closing(t)]

(* What lies between the watermark and the one to be committed is captured. *)
CaptureCovers ==
    \A t \in OpenRows \ handledClose :
        LET Between(e) == target.through < happened[e] /\ happened[e] < scan.highWater IN
        scan.captured # {} =>
            /\ Between(Opening(t)) =>
                  \/ Opening(t) \in scan.captured \/ SeenDirect(Opening(t))
                  \/ target.lifecycle = "RETIRING" /\ t \in observed
            /\ Between(Raising(t)) =>
                  \/ Raising(t) \in scan.captured \/ SeenDirect(Raising(t))
                  \/ happened[Opening(t)] > target.through
                  \/ target.lifecycle = "RETIRING"

(* A proof that OPEN is empty stays one. *)
DrainProven ==
    target.lifecycle = "RETIRING" =>
        /\ target.openProofs > 0 => target.retiredAt < now /\ PreDemotion = {}
        /\ scan.captured # {} =>
              \A t \in OpenRows : happened[Opening(t)] \in scan.created \/ happened[Opening(t)] >= scan.at

IInv ==
    /\ TypeOK /\ TargetSound(target, now) /\ ScanShape /\ SourceOrder
    /\ Exposure /\ RowsAreOldest /\ OwnedCloseStillReadable
    /\ CaptureCovers /\ DrainProven

-----------------------------------------------------------------------------
LEMMA LeastElement ==
  ASSUME NEW S, S \subseteq Nat, S # {}
  PROVE \E m \in S : \A n \in S : m <= n
<1>. DEFINE T == {1 .. m : m \in S}
            R == StrictSubsetOrdering(Nat)
<1>1. T \subseteq FiniteSubsetsOf(Nat)
  <2>1. ASSUME NEW m \in S PROVE 1 .. m \in FiniteSubsetsOf(Nat)
    <3>1. m \in Int
      OBVIOUS
    <3>2. IsFiniteSet(1 .. m)
      BY <3>1, FS_Interval
    <3>. QED BY <3>2 DEF FiniteSubsetsOf
  <2>. QED BY <2>1
<1>2. T # {}
  OBVIOUS
<1>3. IsWellFoundedOn(R, FiniteSubsetsOf(Nat))
  BY FS_StrictSubsetOrderingWellFounded
<1>4. PICK x \in T : \A y \in T : ~ (<<y, x>> \in R)
  <2>. HIDE DEF T, R
  <2>. QED BY <1>1, <1>2, <1>3, WFMin
<1>5. PICK m \in S : x = 1 .. m
  BY <1>4
<1>6. ASSUME NEW n \in S PROVE m <= n
  <2>. SUFFICES ASSUME n < m PROVE FALSE
    OBVIOUS
  <2>1. 1 .. n \subseteq 1 .. m /\ m \in 1 .. m /\ m \notin 1 .. n
    OBVIOUS
  <2>2. 1 .. n \subseteq Nat /\ 1 .. m \subseteq Nat
    OBVIOUS
  <2>3. <<1 .. n, 1 .. m>> \in R
    BY <2>1, <2>2 DEF StrictSubsetOrdering
  <2>. QED BY <1>4, <1>5, <2>3
<1>. QED BY <1>6

LEMMA GreatestElement ==
  ASSUME NEW S, NEW b \in Nat, S \subseteq 0 .. b, S # {}
  PROVE \E m \in S : \A n \in S : n <= m
<1>. DEFINE T == {b - n : n \in S}
<1>1. T \subseteq Nat
  <2>1. ASSUME NEW n \in S PROVE b - n \in Nat
    <3>1. n \in 0 .. b
      OBVIOUS
    <3>. QED BY <3>1
  <2>. QED BY <2>1
<1>2. T # {}
  OBVIOUS
<1>3. \E m \in T : \A n \in T : m <= n
  <2>. HIDE DEF T
  <2>. QED BY <1>1, <1>2, LeastElement
<1>4. PICK k \in S : \A n \in S : b - k <= b - n
  BY <1>3
<1>5. ASSUME NEW n \in S PROVE n <= k
  <2>1. n \in 0 .. b /\ k \in 0 .. b /\ b - k <= b - n
    BY <1>4
  <2>. QED BY <2>1
<1>. QED BY <1>5

(* Latest is a greatest element. *)
LEMMA LatestIsGreatest ==
  ASSUME NEW b \in Nat, NEW moments \in SUBSET (0 .. b), NEW floor \in 0 .. b
  PROVE /\ Latest(moments, floor) \in moments \cup {floor}
        /\ Latest(moments, floor) \in 0 .. b
        /\ floor <= Latest(moments, floor)
        /\ \A m \in moments : m <= Latest(moments, floor)
<1>. DEFINE all == moments \cup {floor}
<1>1. all \subseteq 0 .. b /\ all # {}
  OBVIOUS
<1>2. \E m \in all : \A n \in all : n <= m
  <2>. HIDE DEF all
  <2>. QED BY <1>1, GreatestElement
<1>3. Latest(moments, floor) \in all /\ \A n \in all : n <= Latest(moments, floor)
  BY <1>2 DEF Latest
<1>. QED BY <1>1, <1>3

LEMMA LaterFacts ==
  ASSUME NEW m \in Nat, NEW n \in Nat
  PROVE Later(m, n) \in Nat /\ m <= Later(m, n) /\ n <= Later(m, n) /\ Later(m, n) \in {m, n}
BY DEF Later

LEMMA CloseAdmissionFacts ==
  ASSUME NEW iv \in Seq(Interval), NEW n \in Nat \ {0}, OrderedIntervals(iv), Past(iv, n)
  PROVE LET cl == CloseAdmission(iv, n) IN
        /\ cl \in Seq(Interval) /\ OrderedIntervals(cl) /\ Past(cl, n) /\ NoneOpen(cl)
        /\ cl = <<>> <=> iv = <<>>
<1>. DEFINE l == Len(iv)
            cl == CloseAdmission(iv, n)
<1>1. CASE ~ (iv # <<>> /\ iv[l].until = 0)
  BY <1>1 DEF CloseAdmission, NoneOpen
<1>2. CASE iv # <<>> /\ iv[l].until = 0
  <2>1. l \in Nat /\ l >= 1 /\ DOMAIN iv = 1 .. l /\ l \in DOMAIN iv
    BY <1>2, LenProperties
  <2>2. iv[l] \in Interval
    BY <2>1, ElementOfSeq
  <2>. DEFINE last == [from |-> iv[l].from, until |-> n]
  <2>3. last \in Interval
    BY <2>2 DEF Interval
  <2>4. cl = [iv EXCEPT ![l] = last]
    BY <1>2, Zenon DEF CloseAdmission
  <2>5. cl \in Seq(Interval) /\ Len(cl) = l /\ \A i \in 1 .. l : cl[i] = IF i = l THEN last ELSE iv[i]
    <3>. HIDE DEF last, cl
    <3>. QED BY <2>1, <2>3, <2>4, ExceptSeq
  <2>6. DOMAIN cl = 1 .. l
    BY <2>5, LenProperties
  <2>7. \A i \in 1 .. l : iv[i] \in Interval
    BY <2>1, ElementOfSeq
  <2>8. last.from = iv[l].from /\ last.until = n
    OBVIOUS
  <2>. HIDE DEF last, cl, l
  <2>9. OrderedIntervals(cl)
    <3>. SUFFICES ASSUME NEW i \in 1 .. l
                  PROVE /\ cl[i].from > 0
                        /\ cl[i].until = 0 => i = l
                        /\ cl[i].until # 0 => cl[i].from <= cl[i].until
                        /\ i > 1 => cl[i - 1].until <= cl[i].from
      BY <2>5, <2>6 DEF OrderedIntervals
    <3>1. /\ iv[i].from > 0
          /\ iv[i].until # 0 => iv[i].from <= iv[i].until
          /\ i # l => iv[i].until # 0
          /\ iv[i].from <= n
      BY <2>1 DEF OrderedIntervals, Past
    <3>2. i > 1 => /\ i - 1 \in 1 .. l /\ i - 1 # l
                   /\ iv[i - 1].until <= iv[i].from
      BY <2>1 DEF OrderedIntervals
    <3>. QED BY <2>1, <2>5, <2>8, <3>1, <3>2
  <2>10. Past(cl, n)
    BY <2>1, <2>5, <2>6, <2>7, <2>8 DEF Past, Interval
  <2>11. NoneOpen(cl) /\ cl # <<>>
    BY <2>1, <2>5, <2>6, <2>8 DEF NoneOpen
  <2>. QED BY <1>2, <2>5, <2>9, <2>10, <2>11 DEF cl
<1>. QED BY <1>1, <1>2

-----------------------------------------------------------------------------
(* The watermarks of u are not behind those of t. *)
Keeps(t, u) ==
    /\ u.through >= t.through
    /\ t.closedInit =>
          /\ u.closedInit
          /\ \/ u.closedThrough > t.closedThrough
             \/ u.closedThrough = t.closedThrough /\ t.closedIds \subseteq u.closedIds

(* Nothing that a poll of CLOSED goes by differs. *)
SameCursor(t, u) ==
    /\ u.baselineAt = t.baselineAt /\ u.through = t.through
    /\ u.closedInit = t.closedInit /\ u.closedThrough = t.closedThrough
    /\ u.closedIds = t.closedIds

LEMMA TargetFields ==
  ASSUME NEW t \in Target
  PROVE /\ t.lifecycle \in Resident \cup {"NONE", "TOMBSTONE"}
        /\ t.baselineAt \in Nat /\ t.intervals \in Seq(Interval)
        /\ t.openInit \in BOOLEAN /\ t.through \in Nat
        /\ t.closedInit \in BOOLEAN /\ t.closedThrough \in Nat
        /\ t.closedIds \in SUBSET Trades
        /\ t.firstNegativeAt \in Nat /\ t.lastNegativeAt \in Nat /\ t.negatives \in Nat
        /\ t.retiredAt \in Nat /\ t.openProofs \in Nat /\ t.closedProofs \in Nat
BY DEF Target

LEMMA NoTargetSound ==
  ASSUME NEW n \in Nat \ {0}
  PROVE NoTarget \in Target /\ TargetSound(NoTarget, n)
<1>1. NoTarget \in Target
  BY DEF NoTarget, Target
<1>2. Staged(NoTarget) /\ Clocked(NoTarget, n)
  BY DEF NoTarget, Staged, Clocked
<1>3. NoTarget.intervals = <<>>
  BY DEF NoTarget
<1>4. Admissions(NoTarget, n)
  BY <1>3 DEF Admissions, OrderedIntervals, Past, NoneOpen
<1>. QED BY <1>1, <1>2, <1>4 DEF TargetSound

LEMMA EnrolSound ==
  ASSUME NEW t \in Target, NEW n \in Nat \ {0}, TargetSound(t, n),
         t.lifecycle \in {"NONE", "TOMBSTONE"}
  PROVE LET u == Enrol(t, n) IN
        /\ u \in Target /\ TargetSound(u, n)
        /\ u.lifecycle = "ENROLLING"
        /\ t.lifecycle = "TOMBSTONE" => Keeps(t, u)
        /\ t.lifecycle = "NONE" => u.baselineAt = n
        /\ u.closedIds \subseteq t.closedIds
<1>. DEFINE u == Enrol(t, n)
            ct == IF t.lifecycle = "TOMBSTONE" THEN Later(n, t.closedThrough) ELSE 0
            ids == IF t.lifecycle = "TOMBSTONE" /\ ct = t.closedThrough THEN t.closedIds ELSE {}
            th == Later(n, t.through)
            b == IF t.lifecycle = "TOMBSTONE" THEN t.baselineAt ELSE n
<1>1. /\ ct \in Nat /\ ids \in SUBSET Trades /\ th \in Nat /\ b \in Nat
      /\ b >= 1 /\ b <= n /\ th <= n /\ ct <= n /\ th >= t.through
      /\ t.lifecycle = "TOMBSTONE" =>
            ct > t.closedThrough \/ (ct = t.closedThrough /\ ids = t.closedIds)
      /\ t.lifecycle = "NONE" => b = n
      /\ ids \subseteq t.closedIds
  <2>1. /\ t.baselineAt \in Nat /\ t.through \in Nat /\ t.closedThrough \in Nat
        /\ t.closedIds \in SUBSET Trades
        /\ t.through <= n /\ t.closedThrough <= n /\ t.baselineAt <= n
        /\ t.lifecycle # "NONE" => t.baselineAt >= 1
    BY TargetFields DEF TargetSound, Clocked
  <2>2. CASE t.lifecycle = "TOMBSTONE"
    BY <2>1, <2>2 DEF Later
  <2>3. CASE t.lifecycle = "NONE"
    BY <2>1, <2>3 DEF Later
  <2>. QED BY <2>2, <2>3
<1>2. u = [NoTarget EXCEPT !.lifecycle = "ENROLLING", !.baselineAt = b,
                           !.intervals = t.intervals, !.through = th,
                           !.closedInit = t.closedInit, !.closedThrough = ct, !.closedIds = ids]
  BY DEF Enrol
<1>3. t.intervals \in Seq(Interval) /\ t.closedInit \in BOOLEAN
  BY TargetFields
<1>. HIDE DEF ct, ids, th, b
<1>4. u = [lifecycle |-> "ENROLLING", baselineAt |-> b, intervals |-> t.intervals,
           openInit |-> FALSE, through |-> th,
           closedInit |-> t.closedInit, closedThrough |-> ct, closedIds |-> ids,
           firstNegativeAt |-> 0, lastNegativeAt |-> 0, negatives |-> 0,
           retiredAt |-> 0, openProofs |-> 0, closedProofs |-> 0]
  BY <1>2, Zenon DEF NoTarget
<1>5. u \in Target
  <2>1. CASE t.closedInit = TRUE
    BY <1>1, <1>4, <1>3, <2>1 DEF Target, Resident
  <2>2. CASE t.closedInit = FALSE
    BY <1>1, <1>4, <1>3, <2>2 DEF Target, Resident
  <2>. QED BY <1>3, <2>1, <2>2
<1>6. /\ u.lifecycle = "ENROLLING" /\ u.baselineAt = b /\ u.intervals = t.intervals
      /\ u.through = th /\ u.closedThrough = ct /\ u.closedIds = ids /\ u.retiredAt = 0
  BY <1>4
<1>7. u.openInit = FALSE /\ u.closedInit = t.closedInit
  <2>1. u.openInit = FALSE
    BY <1>4
  <2>2. u.closedInit = t.closedInit
    BY <1>4
  <2>. QED BY <2>1, <2>2
<1>. HIDE DEF u
<1>8. Staged(u) /\ Clocked(u, n)
  BY <1>1, <1>6, <1>7 DEF Staged, Clocked
<1>9. Admissions(u, n)
  BY <1>6 DEF TargetSound, Admissions
<1>10. t.lifecycle = "TOMBSTONE" => Keeps(t, u)
  BY <1>1, <1>6, <1>7 DEF Keeps
<1>. QED BY <1>1, <1>5, <1>6, <1>8, <1>9, <1>10 DEF TargetSound, u

LEMMA EnrolAgainSound ==
  ASSUME NEW t \in Target, NEW n \in Nat \ {0}, TargetSound(t, n),
         t.lifecycle \in {"MISSING_GRACE", "RETIRING"}
  PROVE LET u == Requalify(t, n) IN
        /\ u \in Target /\ TargetSound(u, n)
        /\ u.lifecycle = "ENROLLING" /\ SameCursor(t, u)
<1>. DEFINE iv == CloseAdmission(t.intervals, n)
            u == EnrolAgain(t, iv)
<1>1. t.intervals \in Seq(Interval) /\ OrderedIntervals(t.intervals) /\ Past(t.intervals, n)
  BY TargetFields DEF TargetSound, Admissions
<1>2. iv \in Seq(Interval) /\ OrderedIntervals(iv) /\ Past(iv, n) /\ NoneOpen(iv)
  BY <1>1, CloseAdmissionFacts
<1>. HIDE DEF iv
<1>3. u \in Target
  BY <1>2 DEF EnrolAgain, Target, Resident
<1>4. /\ u.lifecycle = "ENROLLING" /\ u.intervals = iv /\ u.retiredAt = 0
      /\ u.baselineAt = t.baselineAt /\ u.through = t.through
      /\ u.closedThrough = t.closedThrough /\ u.closedIds = t.closedIds
  BY DEF EnrolAgain, Target
<1>5. u.openInit = FALSE /\ u.closedInit = t.closedInit
  <2>1. u.openInit = FALSE
    BY DEF EnrolAgain, Target
  <2>2. u.closedInit = t.closedInit
    BY DEF EnrolAgain, Target
  <2>. QED BY <2>1, <2>2
<1>. HIDE DEF u
<1>6. TargetSound(u, n) /\ SameCursor(t, u)
  BY <1>2, <1>4, <1>5 DEF TargetSound, Staged, Clocked, Admissions, SameCursor
<1>. QED BY <1>3, <1>4, <1>6 DEF Requalify, u, iv

LEMMA NegativeSound ==
  ASSUME NEW t \in Target, NEW n \in Nat \ {0}, TargetSound(t, n), NEW seenAt \in Nat,
         t.lifecycle \in Resident \ {"RETIRING"}
  PROVE LET u == Negative(t, n, seenAt) IN
        /\ u \in Target /\ TargetSound(u, n) /\ SameCursor(t, u)
        /\ \/ u.lifecycle = "RETIRING" /\ u.openProofs = 0
           \/ u.lifecycle = "MISSING_GRACE"
<1>. DEFINE first == IF t.firstNegativeAt = 0 THEN seenAt ELSE t.firstNegativeAt
            c == CountUpTo(NegativeMinObservations, t.negatives)
            counted == [t EXCEPT !.firstNegativeAt = first, !.lastNegativeAt = seenAt,
                                 !.negatives = c]
            iv == CloseAdmission(t.intervals, n)
            retiring == [counted EXCEPT !.lifecycle = "RETIRING", !.retiredAt = n,
                            !.intervals = iv, !.openProofs = 0, !.closedProofs = 0]
            grace == [counted EXCEPT !.lifecycle = "MISSING_GRACE"]
            u == Negative(t, n, seenAt)
<1>1. t.intervals \in Seq(Interval) /\ OrderedIntervals(t.intervals) /\ Past(t.intervals, n)
  BY TargetFields DEF TargetSound, Admissions
<1>2. /\ iv \in Seq(Interval) /\ OrderedIntervals(iv) /\ Past(iv, n) /\ NoneOpen(iv)
      /\ iv = <<>> <=> t.intervals = <<>>
  BY <1>1, CloseAdmissionFacts
<1>3. first \in Nat /\ c \in Nat
  BY TargetFields, GraceAssumption DEF CountUpTo
<1>4. u = retiring \/ u = grace
  BY Zenon DEF Negative
<1>. HIDE DEF iv, first, c, u
<1>5. counted \in Target
  BY <1>3 DEF Target
<1>6. /\ counted.lifecycle = t.lifecycle /\ counted.baselineAt = t.baselineAt
      /\ counted.intervals = t.intervals /\ counted.through = t.through
      /\ counted.closedThrough = t.closedThrough /\ counted.closedIds = t.closedIds
      /\ counted.retiredAt = t.retiredAt
  BY DEF Target
<1>7. counted.openInit = t.openInit /\ counted.closedInit = t.closedInit
  <2>1. counted.openInit = t.openInit
    BY DEF Target
  <2>2. counted.closedInit = t.closedInit
    BY DEF Target
  <2>. QED BY <2>1, <2>2
<1>. HIDE DEF counted
<1>8. retiring \in Target /\ grace \in Target
  BY <1>2, <1>5 DEF Target, Resident
<1>9. /\ retiring.lifecycle = "RETIRING" /\ retiring.baselineAt = t.baselineAt
      /\ retiring.intervals = iv /\ retiring.through = t.through
      /\ retiring.closedThrough = t.closedThrough /\ retiring.closedIds = t.closedIds
      /\ retiring.retiredAt = n /\ retiring.openProofs = 0
  BY <1>5, <1>6 DEF Target
<1>10. retiring.openInit = t.openInit /\ retiring.closedInit = t.closedInit
  <2>1. retiring.openInit = t.openInit
    BY <1>5, <1>7 DEF Target
  <2>2. retiring.closedInit = t.closedInit
    BY <1>5, <1>7 DEF Target
  <2>. QED BY <2>1, <2>2
<1>11. /\ grace.lifecycle = "MISSING_GRACE" /\ grace.baselineAt = t.baselineAt
       /\ grace.intervals = t.intervals /\ grace.through = t.through
       /\ grace.closedThrough = t.closedThrough /\ grace.closedIds = t.closedIds
       /\ grace.retiredAt = t.retiredAt
  BY <1>5, <1>6 DEF Target
<1>12. grace.openInit = t.openInit /\ grace.closedInit = t.closedInit
  <2>1. grace.openInit = t.openInit
    BY <1>5, <1>7 DEF Target
  <2>2. grace.closedInit = t.closedInit
    BY <1>5, <1>7 DEF Target
  <2>. QED BY <2>1, <2>2
<1>. HIDE DEF retiring, grace
<1>13. CASE u = retiring
  <2>1. Staged(u) /\ Clocked(u, n) /\ SameCursor(t, u)
    BY <1>2, <1>9, <1>10, <1>13, TargetFields DEF TargetSound, Staged, Clocked, SameCursor, Resident
  <2>2. Admissions(u, n)
    BY <1>2, <1>9, <1>13 DEF Admissions
  <2>. QED BY <1>8, <1>9, <1>13, <2>1, <2>2 DEF TargetSound, u
<1>14. CASE u = grace
  <2>1. Staged(u) /\ Clocked(u, n) /\ SameCursor(t, u)
    BY <1>11, <1>12, <1>14, TargetFields DEF TargetSound, Staged, Clocked, SameCursor, Resident
  <2>2. Admissions(u, n)
    BY <1>11, <1>12, <1>14 DEF TargetSound, Admissions
  <2>. QED BY <1>8, <1>11, <1>14, <2>1, <2>2 DEF TargetSound, u
<1>. QED BY <1>4, <1>13, <1>14

LEMMA BurySound ==
  ASSUME NEW t \in Target, NEW n \in Nat \ {0}, TargetSound(t, n), NEW owned,
         Drained(t, n, owned)
  PROVE LET u == Bury(t) IN
        /\ u \in Target /\ TargetSound(u, n) /\ SameCursor(t, u)
        /\ u.lifecycle = "TOMBSTONE"
        /\ t.lifecycle = "RETIRING" /\ t.openProofs > 0 /\ ~ owned
<1>. DEFINE u == Bury(t)
<1>1. /\ t.lifecycle = "RETIRING" /\ t.openProofs > 0 /\ ~ owned /\ t.closedInit
      /\ t.retiredAt < n
  BY TargetFields, GraceAssumption DEF Drained, Quiet, RetireAfter
<1>2. u \in Target
  BY DEF Bury, Target
<1>3. /\ u.lifecycle = "TOMBSTONE" /\ u.baselineAt = t.baselineAt
      /\ u.intervals = t.intervals /\ u.through = t.through
      /\ u.closedThrough = t.closedThrough /\ u.closedIds = t.closedIds
      /\ u.retiredAt = t.retiredAt
  BY DEF Bury, Target
<1>4. u.openInit = t.openInit /\ u.closedInit = t.closedInit
  <2>1. u.openInit = t.openInit
    BY DEF Bury, Target
  <2>2. u.closedInit = t.closedInit
    BY DEF Bury, Target
  <2>. QED BY <2>1, <2>2
<1>. HIDE DEF u
<1>5. TargetSound(u, n) /\ SameCursor(t, u)
  BY <1>1, <1>3, <1>4 DEF TargetSound, Staged, Clocked, Admissions, SameCursor
<1>. QED BY <1>1, <1>2, <1>3, <1>5 DEF u

LEMMA KeepsSame ==
  ASSUME NEW t \in Target, NEW u, SameCursor(t, u)
  PROVE Keeps(t, u)
BY TargetFields DEF SameCursor, Keeps

LEMMA SyncedSound ==
  ASSUME NEW t \in Target, NEW n \in Nat \ {0}, TargetSound(t, n),
         NEW verdict, NEW seenAt \in Nat, NEW owned
  PROVE LET u == Synced(t, n, verdict, seenAt, owned) IN
        /\ u \in Target /\ TargetSound(u, n)
        /\ t.lifecycle \in Resident => SameCursor(t, u)
        /\ t.lifecycle \in Resident /\ owned => u.lifecycle \in Resident
        /\ t.lifecycle # "NONE" => Keeps(t, u)
        /\ t.lifecycle = "NONE" => u = t \/ u.baselineAt = n
        /\ u.lifecycle = "TOMBSTONE" /\ t.lifecycle = "RETIRING" => t.openProofs > 0
        /\ u.lifecycle = "RETIRING" /\ u.openProofs > 0 => u = t
        /\ u.closedIds \subseteq t.closedIds
<1>. DEFINE judged == CASE verdict = "elite" -> Qualified(t, n)
                        [] verdict = "demoted" -> Demoted(t, n, seenAt)
                        [] OTHER -> t
            u == Synced(t, n, verdict, seenAt, owned)
<1>1. u = IF Drained(judged, n, owned) THEN Bury(judged) ELSE judged
  BY Zenon DEF Synced
<1>2. \/ judged = t
      \/ judged = Enrol(t, n) /\ t.lifecycle \in {"NONE", "TOMBSTONE"}
      \/ judged = Requalify(t, n) /\ t.lifecycle \in {"MISSING_GRACE", "RETIRING"}
      \/ judged = Negative(t, n, seenAt) /\ t.lifecycle \in Resident \ {"RETIRING"}
  <2>1. CASE verdict = "elite"
    <3>1. judged = Qualified(t, n)
      BY <2>1
    <3>. HIDE DEF judged
    <3>. QED BY <3>1 DEF Qualified
  <2>2. CASE verdict = "demoted"
    <3>1. judged = Demoted(t, n, seenAt)
      BY <2>2
    <3>. HIDE DEF judged
    <3>. QED BY <3>1 DEF Demoted
  <2>3. CASE verdict \notin {"elite", "demoted"}
    BY <2>3
  <2>. QED BY <2>1, <2>2, <2>3
<1>. HIDE DEF judged, u
<1>3. /\ judged \in Target /\ TargetSound(judged, n)
      /\ t.lifecycle \in Resident => SameCursor(t, judged)
      /\ t.lifecycle \in Resident => judged.lifecycle \in Resident
      /\ t.lifecycle # "NONE" => Keeps(t, judged)
      /\ t.lifecycle = "NONE" => judged = t \/ (judged.baselineAt = n /\ judged.lifecycle = "ENROLLING")
      /\ t.lifecycle = "TOMBSTONE" => judged.lifecycle # "RETIRING"
      /\ judged.lifecycle = "TOMBSTONE" => t.lifecycle = "TOMBSTONE"
      /\ judged.lifecycle = "RETIRING" /\ judged.openProofs > 0 => judged = t
      /\ judged.closedIds \subseteq t.closedIds
  <2>1. CASE judged = t
    BY <2>1, KeepsSame DEF SameCursor
  <2>2. CASE judged = Enrol(t, n) /\ t.lifecycle \in {"NONE", "TOMBSTONE"}
    BY <2>2, EnrolSound DEF Resident
  <2>3. CASE judged = Requalify(t, n) /\ t.lifecycle \in {"MISSING_GRACE", "RETIRING"}
    BY <2>3, EnrolAgainSound, KeepsSame DEF Resident, SameCursor
  <2>4. CASE judged = Negative(t, n, seenAt) /\ t.lifecycle \in Resident \ {"RETIRING"}
    <3>1. /\ judged \in Target /\ TargetSound(judged, n) /\ SameCursor(t, judged)
          /\ \/ judged.lifecycle = "RETIRING" /\ judged.openProofs = 0
             \/ judged.lifecycle = "MISSING_GRACE"
      BY <2>4, NegativeSound
    <3>2. Keeps(t, judged)
      BY <3>1, KeepsSame
    <3>. QED BY <2>4, <3>1, <3>2 DEF Resident, SameCursor
  <2>. QED BY <1>2, <2>1, <2>2, <2>3, <2>4
<1>4. CASE ~ Drained(judged, n, owned)
  BY <1>1, <1>3, <1>4 DEF u, Resident
<1>5. CASE Drained(judged, n, owned)
  <2>1. u = Bury(judged)
    BY <1>1, <1>5
  <2>2. /\ u \in Target /\ TargetSound(u, n) /\ SameCursor(judged, u)
        /\ u.lifecycle = "TOMBSTONE"
        /\ judged.lifecycle = "RETIRING" /\ judged.openProofs > 0 /\ ~ owned
    BY <1>3, <1>5, <2>1, BurySound
  <2>3. judged = t /\ t.lifecycle = "RETIRING"
    BY <1>3, <2>2
  <2>. QED BY <2>2, <2>3, KeepsSame DEF u, SameCursor
<1>. QED BY <1>4, <1>5

-----------------------------------------------------------------------------
(* The commits of a hydration. *)

LEMMA ActiveFromSound ==
  ASSUME NEW t \in Target, NEW n \in Nat \ {0}, TargetSound(t, n),
         t.lifecycle = "ENROLLING", t.closedInit,
         NEW admitted \in 1 .. n, NEW through \in 0 .. n,
         \A i \in DOMAIN t.intervals : t.intervals[i].until <= admitted
  PROVE LET u == ActiveFrom(t, admitted, through) IN
        /\ u \in Target /\ TargetSound(u, n) /\ Keeps(t, u)
        /\ u.lifecycle = "ACTIVE"
        /\ u.baselineAt = t.baselineAt /\ u.closedInit
        /\ u.closedThrough = t.closedThrough /\ u.closedIds = t.closedIds
<1>. DEFINE iv == t.intervals
            new == [from |-> admitted, until |-> 0]
            more == Append(iv, new)
            th == Later(t.through, through)
            u == ActiveFrom(t, admitted, through)
<1>1. /\ iv \in Seq(Interval) /\ OrderedIntervals(iv) /\ Past(iv, n) /\ NoneOpen(iv)
      /\ t.closedInit = TRUE
  BY TargetFields DEF TargetSound, Admissions
<1>2. new \in Interval /\ new.from = admitted /\ new.until = 0
  BY DEF Interval
<1>3. /\ more \in Seq(Interval) /\ Len(more) = Len(iv) + 1
      /\ \A i \in 1 .. Len(iv) : more[i] = iv[i]
      /\ more[Len(iv) + 1] = new
  <2>. HIDE DEF iv, new
  <2>. QED BY <1>1, <1>2, AppendProperties
<1>4. DOMAIN iv = 1 .. Len(iv) /\ Len(iv) \in Nat /\ DOMAIN more = 1 .. Len(iv) + 1
  <2>. HIDE DEF iv, more
  <2>. QED BY <1>1, <1>3, LenProperties
<1>5. \A i \in 1 .. Len(iv) : iv[i] \in Interval
  BY <1>1, <1>4, ElementOfSeq
<1>6. th \in Nat /\ th <= n /\ th >= t.through
  BY TargetFields DEF Later, TargetSound, Clocked
<1>7. u = [t EXCEPT !.lifecycle = "ACTIVE", !.openInit = TRUE, !.through = th, !.intervals = more]
  BY Zenon DEF ActiveFrom
<1>8. \A i \in DOMAIN iv : iv[i].until <= admitted
  OBVIOUS
<1>. HIDE DEF new, more, th, iv
<1>9. OrderedIntervals(more)
  <2>. SUFFICES ASSUME NEW i \in 1 .. Len(iv) + 1
                PROVE /\ more[i].from > 0
                      /\ more[i].until = 0 => i = Len(more)
                      /\ more[i].until # 0 => more[i].from <= more[i].until
                      /\ i > 1 => more[i - 1].until <= more[i].from
    BY <1>4 DEF OrderedIntervals
  <2>1. CASE i = Len(iv) + 1
    <3>1. i > 1 => i - 1 \in 1 .. Len(iv)
      BY <1>4
    <3>2. i > 1 => more[i - 1].until <= admitted
      BY <1>3, <1>4, <1>8, <3>1
    <3>. QED BY <1>2, <1>3, <2>1, <3>2
  <2>2. CASE i \in 1 .. Len(iv)
    <3>1. /\ iv[i].from > 0
          /\ iv[i].until = 0 => i = Len(iv)
          /\ iv[i].until # 0 => iv[i].from <= iv[i].until
          /\ i > 1 => iv[i - 1].until <= iv[i].from
      BY <1>1, <1>4, <2>2 DEF OrderedIntervals
    <3>2. iv[i].until # 0
      <4>1. iv # <<>>
        BY <1>4, <2>2
      <4>. QED BY <1>1, <3>1, <4>1 DEF NoneOpen
    <3>3. i > 1 => i - 1 \in 1 .. Len(iv)
      BY <1>4, <2>2
    <3>. QED BY <1>3, <2>2, <3>1, <3>2, <3>3
  <2>. QED BY <1>4, <2>1, <2>2
<1>10. Past(more, n)
  BY <1>1, <1>2, <1>3, <1>4 DEF Past
<1>11. u \in Target
  BY <1>3, <1>6, <1>7 DEF Target, Resident
<1>12. /\ u.lifecycle = "ACTIVE" /\ u.baselineAt = t.baselineAt /\ u.intervals = more
       /\ u.through = th /\ u.closedThrough = t.closedThrough /\ u.closedIds = t.closedIds
       /\ u.retiredAt = t.retiredAt
  BY <1>7 DEF Target
<1>13. u.openInit = TRUE /\ u.closedInit = t.closedInit
  <2>1. u.openInit = TRUE
    BY <1>7 DEF Target
  <2>2. u.closedInit = t.closedInit
    BY <1>7 DEF Target
  <2>. QED BY <2>1, <2>2
<1>14. more # <<>>
  BY <1>3, <1>4
<1>. HIDE DEF u
<1>15. TargetSound(u, n)
  BY <1>1, <1>6, <1>9, <1>10, <1>12, <1>13, <1>14 DEF TargetSound, Staged, Clocked, Admissions
<1>16. Keeps(t, u)
  BY <1>6, <1>12, <1>13, TargetFields DEF Keeps
<1>. QED BY <1>11, <1>12, <1>13, <1>15, <1>16 DEF u

(* Only the OPEN watermark moves. *)
LEMMA OpenCommittedSound ==
  ASSUME NEW t \in Target, NEW n \in Nat \ {0}, TargetSound(t, n), NEW highWater \in 0 .. n
  PROVE LET u == OpenCommitted(t, highWater) IN
        /\ u \in Target /\ TargetSound(u, n) /\ Keeps(t, u)
        /\ u.lifecycle = t.lifecycle /\ u.baselineAt = t.baselineAt
        /\ u.intervals = t.intervals /\ u.retiredAt = t.retiredAt
        /\ u.openProofs = t.openProofs
        /\ u.through = Later(t.through, highWater)
        /\ u.openInit = t.openInit /\ u.closedInit = t.closedInit
        /\ u.closedThrough = t.closedThrough /\ u.closedIds = t.closedIds
<1>. DEFINE th == Later(t.through, highWater)
            u == OpenCommitted(t, highWater)
<1>1. th \in Nat /\ th <= n /\ th >= t.through
  BY TargetFields DEF Later, TargetSound, Clocked
<1>2. u = [t EXCEPT !.through = th]
  BY Zenon DEF OpenCommitted
<1>3. /\ u.lifecycle = t.lifecycle /\ u.baselineAt = t.baselineAt
      /\ u.intervals = t.intervals /\ u.through = th /\ u.retiredAt = t.retiredAt
      /\ u.openProofs = t.openProofs
      /\ u.closedThrough = t.closedThrough /\ u.closedIds = t.closedIds
  BY <1>2 DEF Target
<1>4. u.openInit = t.openInit /\ u.closedInit = t.closedInit
  <2>1. u.openInit = t.openInit
    BY <1>2 DEF Target
  <2>2. u.closedInit = t.closedInit
    BY <1>2 DEF Target
  <2>. QED BY <2>1, <2>2
<1>. HIDE DEF th
<1>5. u \in Target
  BY <1>1, <1>2 DEF Target
<1>. HIDE DEF u
<1>6. TargetSound(u, n)
  BY <1>1, <1>3, <1>4 DEF TargetSound, Staged, Clocked, Admissions
<1>7. Keeps(t, u)
  BY <1>1, <1>3, <1>4, TargetFields DEF Keeps
<1>. QED BY <1>3, <1>4, <1>5, <1>6, <1>7 DEF th, u

(* Only the count of the proofs differs. *)
LEMMA RetirementPolledSound ==
  ASSUME NEW t \in Target, NEW n \in Nat \ {0}, TargetSound(t, n), NEW created, NEW polledAt \in Nat
  PROVE LET u == RetirementPolled(t, created, polledAt) IN
        /\ u \in Target /\ TargetSound(u, n) /\ SameCursor(t, u)
        /\ u.lifecycle = t.lifecycle /\ u.intervals = t.intervals
        /\ u.retiredAt = t.retiredAt /\ u.openInit = t.openInit
        /\ u.openProofs > 0 => polledAt >= RetireAfter(t) /\ ~ OpenedWhileSelected(t, created)
<1>. DEFINE p == IF polledAt >= RetireAfter(t) /\ ~ OpenedWhileSelected(t, created)
                 THEN CountUpTo(2, t.openProofs) ELSE 0
            u == RetirementPolled(t, created, polledAt)
<1>1. p \in Nat /\ (p > 0 => polledAt >= RetireAfter(t) /\ ~ OpenedWhileSelected(t, created))
  BY TargetFields DEF CountUpTo
<1>2. u = [t EXCEPT !.openProofs = p]
  BY Zenon DEF RetirementPolled
<1>. HIDE DEF p
<1>3. /\ u.lifecycle = t.lifecycle /\ u.baselineAt = t.baselineAt
      /\ u.intervals = t.intervals /\ u.through = t.through /\ u.retiredAt = t.retiredAt
      /\ u.openProofs = p
      /\ u.closedThrough = t.closedThrough /\ u.closedIds = t.closedIds
  BY <1>2 DEF Target
<1>4. u.openInit = t.openInit /\ u.closedInit = t.closedInit
  <2>1. u.openInit = t.openInit
    BY <1>2 DEF Target
  <2>2. u.closedInit = t.closedInit
    BY <1>2 DEF Target
  <2>. QED BY <2>1, <2>2
<1>5. u \in Target
  BY <1>1, <1>2 DEF Target
<1>. HIDE DEF u
<1>6. TargetSound(u, n) /\ SameCursor(t, u)
  BY <1>1, <1>3, <1>4 DEF TargetSound, Staged, Clocked, Admissions, SameCursor
<1>. QED BY <1>1, <1>3, <1>4, <1>5, <1>6 DEF u

(* Before the first CLOSED poll of a retiring target its cursor is set. *)
LEMMA DrainStartedSound ==
  ASSUME NEW t \in Target, NEW n \in Nat \ {0}, TargetSound(t, n)
  PROVE LET u == DrainStarted(t) IN
        /\ u \in Target /\ TargetSound(u, n) /\ Keeps(t, u)
        /\ u.closedInit
        /\ t.closedInit => u = t
        /\ u.closedIds = t.closedIds \/ u.closedIds = {}
        /\ u.lifecycle = t.lifecycle /\ u.intervals = t.intervals
        /\ u.baselineAt = t.baselineAt /\ u.through = t.through
        /\ u.retiredAt = t.retiredAt /\ u.openInit = t.openInit
        /\ u.openProofs = t.openProofs
<1>. DEFINE u == DrainStarted(t)
<1>1. CASE t.closedInit
  <2>1. u = t
    BY <1>1 DEF DrainStarted
  <2>. QED BY <1>1, <2>1, TargetFields DEF Keeps
<1>2. CASE ~ t.closedInit
  <2>1. u = [t EXCEPT !.closedInit = TRUE, !.closedThrough = t.baselineAt, !.closedIds = {}]
    BY <1>2 DEF DrainStarted
  <2>2. /\ u.lifecycle = t.lifecycle /\ u.baselineAt = t.baselineAt
        /\ u.intervals = t.intervals /\ u.through = t.through /\ u.retiredAt = t.retiredAt
        /\ u.openProofs = t.openProofs
        /\ u.closedThrough = t.baselineAt /\ u.closedIds = {}
    BY <2>1 DEF Target
  <2>3. u.openInit = t.openInit
    BY <2>1 DEF Target
  <2>4. u.closedInit = TRUE
    BY <2>1 DEF Target
  <2>5. u \in Target
    <3>1. t.baselineAt \in Nat
      BY TargetFields
    <3>. QED BY <2>1, <3>1 DEF Target
  <2>. HIDE DEF u
  <2>6. TargetSound(u, n)
    BY <2>2, <2>3, <2>4 DEF TargetSound, Staged, Clocked, Admissions
  <2>7. Keeps(t, u)
    BY <1>2, <2>2, TargetFields DEF Keeps
  <2>. QED BY <1>2, <2>2, <2>3, <2>4, <2>5, <2>6, <2>7 DEF u
<1>. QED BY <1>1, <1>2

(* A poll of CLOSED moves the cursor to its newest row, if that is newer. *)
LEMMA ClosedCommittedSound ==
  ASSUME NEW t \in Target, NEW n \in Nat \ {0}, TargetSound(t, n), NEW polledAt \in Nat,
         NEW closes, DOMAIN closes \subseteq Trades, \A r \in DOMAIN closes : closes[r] \in 0 .. n
  PROVE LET u == ClosedCommitted(t, closes, polledAt)
            newest == Latest(Moments(closes), t.closedThrough) IN
        /\ u \in Target /\ TargetSound(u, n) /\ Keeps(t, u)
        /\ u.lifecycle = t.lifecycle /\ u.intervals = t.intervals
        /\ u.baselineAt = t.baselineAt /\ u.through = t.through
        /\ u.retiredAt = t.retiredAt /\ (u.openInit <=> t.openInit)
        /\ u.openProofs = t.openProofs
        /\ u.closedInit
        /\ u.closedThrough = newest /\ newest \in 0 .. n
        /\ newest \in Moments(closes) \/ newest = t.closedThrough
        /\ newest >= t.closedThrough
        /\ \A r \in DOMAIN closes : closes[r] <= newest
        /\ u.closedIds = (IF newest = t.closedThrough THEN t.closedIds ELSE {})
                             \cup {r \in DOMAIN closes : closes[r] = newest}
<1>. DEFINE newest == Latest(Moments(closes), t.closedThrough)
            ids == (IF newest = t.closedThrough THEN t.closedIds ELSE {})
                       \cup {r \in DOMAIN closes : closes[r] = newest}
            cp == IF t.lifecycle = "RETIRING" /\ polledAt >= RetireAfter(t)
                  THEN CountUpTo(2, t.closedProofs) ELSE t.closedProofs
            u == ClosedCommitted(t, closes, polledAt)
<1>1. Moments(closes) \in SUBSET (0 .. n) /\ t.closedThrough \in 0 .. n
  BY TargetFields DEF Moments, TargetSound, Clocked
<1>2. /\ newest \in Moments(closes) \cup {t.closedThrough} /\ newest \in 0 .. n
      /\ t.closedThrough <= newest
      /\ \A m \in Moments(closes) : m <= newest
  BY <1>1, LatestIsGreatest
<1>3. \A r \in DOMAIN closes : closes[r] \in Moments(closes)
  BY DEF Moments
<1>4. u = [t EXCEPT !.closedInit = TRUE, !.closedThrough = newest, !.closedIds = ids,
                    !.closedProofs = cp]
  BY Zenon DEF ClosedCommitted, ClosedTo
<1>5. ids \in SUBSET Trades /\ cp \in Nat
  BY TargetFields DEF CountUpTo
<1>6. newest = t.closedThrough => t.closedIds \subseteq ids
  OBVIOUS
<1>. HIDE DEF newest, ids, cp
<1>7. /\ u.lifecycle = t.lifecycle /\ u.baselineAt = t.baselineAt
      /\ u.intervals = t.intervals /\ u.through = t.through /\ u.retiredAt = t.retiredAt
      /\ u.openProofs = t.openProofs
      /\ u.closedThrough = newest /\ u.closedIds = ids
  BY <1>4 DEF Target
<1>8. u.openInit = t.openInit
  BY <1>4 DEF Target
<1>9. u.closedInit = TRUE
  BY <1>4 DEF Target
<1>10. u \in Target
  <2>1. newest \in Nat
    BY <1>2
  <2>. QED BY <1>4, <1>5, <2>1 DEF Target
<1>. HIDE DEF u
<1>11. TargetSound(u, n)
  BY <1>2, <1>7, <1>8, <1>9 DEF TargetSound, Staged, Clocked, Admissions
<1>12. Keeps(t, u)
  BY <1>2, <1>6, <1>7, <1>9, TargetFields DEF Keeps
<1>. QED BY <1>2, <1>3, <1>7, <1>8, <1>9, <1>10, <1>11, <1>12 DEF u, newest, ids

LEMMA MigratedSound ==
  ASSUME NEW t \in Target, NEW n \in Nat \ {0}, TargetSound(t, n)
  PROVE LET u == Migrated(t) IN
        /\ u \in Target /\ TargetSound(u, n) /\ SameCursor(t, u)
        /\ t.lifecycle \in Resident => u.lifecycle \in Resident
        /\ u.lifecycle \in {t.lifecycle, "ENROLLING"}
        /\ u.lifecycle = "RETIRING" => u = t
        /\ u.lifecycle = "TOMBSTONE" => u = t
<1>. DEFINE u == Migrated(t)
<1>1. CASE ~ (t.lifecycle \in Resident /\ ~ (t.openInit /\ t.closedInit))
  <2>1. u = t
    BY <1>1 DEF Migrated
  <2>. QED BY <2>1 DEF SameCursor
<1>2. CASE t.lifecycle \in Resident /\ ~ (t.openInit /\ t.closedInit)
  <2>1. u = [t EXCEPT !.lifecycle = "ENROLLING", !.openInit = FALSE]
    BY <1>2 DEF Migrated
  <2>2. ~ t.openInit
    BY <1>2, TargetFields DEF TargetSound, Staged
  <2>3. /\ u.lifecycle = "ENROLLING" /\ u.baselineAt = t.baselineAt
        /\ u.intervals = t.intervals /\ u.through = t.through /\ u.retiredAt = t.retiredAt
        /\ u.closedThrough = t.closedThrough /\ u.closedIds = t.closedIds
    BY <2>1 DEF Target
  <2>4. u.openInit = FALSE
    BY <2>1 DEF Target
  <2>5. u.closedInit = t.closedInit
    BY <2>1 DEF Target
  <2>6. u \in Target
    BY <2>1 DEF Target, Resident
  <2>. HIDE DEF u
  <2>7. TargetSound(u, n) /\ SameCursor(t, u)
    BY <1>2, <2>2, <2>3, <2>4, <2>5 DEF TargetSound, Staged, Clocked, Admissions, SameCursor, Resident
  <2>. QED BY <2>3, <2>6, <2>7 DEF u, Resident
<1>. QED BY <1>1, <1>2

-----------------------------------------------------------------------------
(* The records of a scan. *)

LEMMA ScanFields ==
  ASSUME NEW s \in Scan
  PROVE /\ s.stage \in {"idle", "hydrate", "flush"} /\ s.at \in Nat /\ s.failed \in BOOLEAN
        /\ s.open \in {"off", "due"} /\ s.closed \in {"off", "due", "read"}
        /\ s.rows \in SUBSET Trades /\ s.closes \in SUBSET Trades /\ s.complete \in BOOLEAN
        /\ s.captured \in SUBSET Entries /\ s.left \in SUBSET Entries
        /\ s.created \in SUBSET Nat /\ s.highWater \in Nat
BY DEF Scan

LEMMA IdleFields ==
  /\ Idle \in Scan /\ Idle.stage = "idle" /\ Idle.at = 0 /\ ~ Idle.failed
  /\ Idle.open = "off" /\ Idle.closed = "off" /\ Idle.rows = {} /\ Idle.closes = {}
  /\ ~ Idle.complete /\ Idle.captured = {} /\ Idle.left = {} /\ Idle.created = {}
  /\ Idle.highWater = 0
<1>1. Idle \in Scan
  BY DEF Idle, Scan
<1>2. ~ Idle.failed
  BY DEF Idle
<1>3. ~ Idle.complete
  BY DEF Idle
<1>. QED BY <1>1, <1>2, <1>3 DEF Idle

(* The two scans that share all but the part of OPEN, or of CLOSED. *)
SameClosed(s, u) ==
    /\ u.stage = s.stage /\ u.at = s.at
    /\ u.closed = s.closed /\ u.rows = s.rows /\ u.closes = s.closes
    /\ u.complete = s.complete

SameOpen(s, u) ==
    /\ u.stage = s.stage /\ u.at = s.at
    /\ u.open = s.open /\ u.captured = s.captured /\ u.left = s.left
    /\ u.created = s.created /\ u.highWater = s.highWater

LEMMA CaptureFacts ==
  ASSUME scan \in Scan, NEW entries \in SUBSET Entries, NEW created \in SUBSET Nat,
         NEW highWater \in Nat, Capture(entries, created, highWater)
  PROVE /\ scan' \in Scan /\ SameClosed(scan, scan') /\ scan'.open = "off"
        /\ \/ /\ scan'.captured = scan.captured /\ scan'.left = scan.left
              /\ scan'.created = scan.created /\ scan'.highWater = scan.highWater
           \/ /\ scan'.captured = entries /\ scan'.left = entries
              /\ scan'.created = created /\ scan'.highWater = highWater
              /\ entries # {}
<1>1. CASE scan' = [scan EXCEPT !.open = "off"]
  <2>1. scan' \in Scan
    BY <1>1 DEF Scan
  <2>2. /\ scan'.open = "off" /\ scan'.stage = scan.stage /\ scan'.at = scan.at
        /\ scan'.closed = scan.closed /\ scan'.rows = scan.rows /\ scan'.closes = scan.closes
        /\ scan'.captured = scan.captured /\ scan'.left = scan.left
        /\ scan'.created = scan.created /\ scan'.highWater = scan.highWater
    BY <1>1 DEF Scan
  <2>3. scan'.complete = scan.complete
    BY <1>1 DEF Scan
  <2>. QED BY <2>1, <2>2, <2>3 DEF SameClosed
<1>2. CASE /\ entries # {}
           /\ scan' = [scan EXCEPT !.open = "off", !.captured = entries, !.left = entries,
                                   !.created = created, !.highWater = highWater]
  <2>1. scan' \in Scan
    BY <1>2 DEF Scan
  <2>2. /\ scan'.open = "off" /\ scan'.stage = scan.stage /\ scan'.at = scan.at
        /\ scan'.closed = scan.closed /\ scan'.rows = scan.rows /\ scan'.closes = scan.closes
        /\ scan'.captured = entries /\ scan'.left = entries
        /\ scan'.created = created /\ scan'.highWater = highWater
    BY <1>2 DEF Scan
  <2>3. scan'.complete = scan.complete
    BY <1>2 DEF Scan
  <2>. QED BY <1>2, <2>1, <2>2, <2>3 DEF SameClosed
<1>. QED BY <1>1, <1>2, Zenon DEF Capture

LEMMA FailedFacts ==
  ASSUME scan \in Scan
  PROVE /\ Failed \in Scan /\ SameClosed(scan, Failed) /\ Failed.open = scan.open
        /\ Failed.captured = {} /\ Failed.left = {} /\ Failed.created = {}
        /\ Failed.highWater = 0
<1>. DEFINE u == Failed
<1>1. u \in Scan
  BY DEF Failed, Scan
<1>2. /\ u.open = scan.open /\ u.stage = scan.stage /\ u.at = scan.at
      /\ u.closed = scan.closed /\ u.rows = scan.rows /\ u.closes = scan.closes
      /\ u.captured = {} /\ u.left = {} /\ u.created = {} /\ u.highWater = 0
  BY DEF Failed, Scan
<1>3. u.complete = scan.complete
  BY DEF Failed, Scan
<1>. QED BY <1>1, <1>2, <1>3 DEF SameClosed

(* The scan that BeginScan starts. *)
Begun(at, stale, open, closed) ==
    [Idle EXCEPT !.stage = "hydrate", !.at = at, !.failed = stale,
                 !.open = open, !.closed = closed]

LEMMA BegunFacts ==
  ASSUME NEW at \in Nat, NEW stale \in BOOLEAN,
         NEW open \in {"off", "due"}, NEW closed \in {"off", "due"}
  PROVE LET s == Begun(at, stale, open, closed) IN
        /\ s \in Scan /\ s.stage = "hydrate" /\ s.at = at
        /\ s.open = open /\ s.closed = closed
        /\ s.rows = {} /\ s.closes = {} /\ ~ s.complete
        /\ s.captured = {} /\ s.left = {} /\ s.created = {} /\ s.highWater = 0
<1>. DEFINE s == Begun(at, stale, open, closed)
<1>0. s = [Idle EXCEPT !.stage = "hydrate", !.at = at, !.failed = stale,
                       !.open = open, !.closed = closed]
  BY DEF Begun
<1>. HIDE DEF s
<1>1. s = [stage |-> "hydrate", at |-> at, failed |-> stale, open |-> open, closed |-> closed,
           rows |-> {}, closes |-> {}, complete |-> FALSE,
           captured |-> {}, left |-> {}, created |-> {}, highWater |-> 0]
  BY <1>0, Zenon DEF Idle
<1>2. s \in Scan
  <2>1. CASE stale = TRUE
    BY <1>1, <2>1 DEF Scan
  <2>2. CASE stale = FALSE
    BY <1>1, <2>2 DEF Scan
  <2>. QED BY <2>1, <2>2
<1>3. ~ s.complete
  BY <1>1
<1>4. /\ s.stage = "hydrate" /\ s.at = at /\ s.open = open /\ s.closed = closed
      /\ s.rows = {} /\ s.closes = {}
      /\ s.captured = {} /\ s.left = {} /\ s.created = {} /\ s.highWater = 0
  BY <1>1
<1>. QED BY <1>2, <1>3, <1>4 DEF s

LEMMA EventFacts ==
  ASSUME NEW t \in Trades
  PROVE /\ Opening(t) \in Events /\ Raising(t) \in Events /\ Closing(t) \in Events
        /\ Opening(t) \in Entries /\ Raising(t) \in Entries
        /\ Opening(t)[1] = t /\ Raising(t)[1] = t /\ Closing(t)[1] = t
        /\ Opening(t)[2] = "open" /\ Raising(t)[2] = "increase" /\ Closing(t)[2] = "close"
        /\ Opening(t) # Raising(t) /\ Opening(t) # Closing(t) /\ Raising(t) # Closing(t)
BY DEF Opening, Raising, Closing, Events, Entries

LEMMA EventForms ==
  /\ \A e \in Events : /\ e[1] \in Trades
                       /\ e \in {Opening(e[1]), Raising(e[1]), Closing(e[1])}
  /\ \A e \in Entries : e \in Events /\ e[1] \in Trades /\ e \in {Opening(e[1]), Raising(e[1])}
BY DEF Opening, Raising, Closing, Events, Entries

-----------------------------------------------------------------------------
(* What a step may do to the executor. *)

LEMMA TypeFacts ==
  ASSUME TypeOK
  PROVE /\ now \in Nat \ {0} /\ candidate.at \in Nat
        /\ \A e \in Events : happened[e] \in 0 .. now
        /\ target \in Target /\ scan \in Scan
        /\ OpenRows \subseteq Trades /\ ClosedRows \subseteq Trades
<1>1. now \in Nat \ {0}
  BY WatchAssumption DEF TypeOK
<1>2. candidate.at \in Nat
  BY <1>1 DEF TypeOK
<1>. QED BY <1>1, <1>2 DEF TypeOK, OpenRows, ClosedRows

LEMMA ExecuteFacts ==
  ASSUME TypeOK, Exposure, NEW e \in Entries, NEW captured \in BOOLEAN, Execute(e, captured)
  PROVE /\ known' \in {known, [known EXCEPT ![e] = "event"]}
        /\ known' \in [Entries -> {"no", "direct", "event"}]
        /\ \A f \in Entries : SeenDirect(f) => SeenDirect(f)'
        /\ observed \subseteq observed' /\ observed' \subseteq Trades
        /\ managed \subseteq managed' /\ managed' \subseteq observed'
        /\ managed' \cap handledClose = {}
        /\ watched' \subseteq managed'
        /\ watched \subseteq watched'
        /\ \A t \in watched' \ watched : Watching /\ t \in OpenRows
        /\ handledClose' = handledClose /\ swallowed' = swallowed
<1>1. e[1] \in Trades
  BY EventForms
<1>2. /\ handledClose' = handledClose /\ swallowed' = swallowed
      /\ known' \in {known, [known EXCEPT ![e] = "event"]}
  BY DEF Execute, Settle
<1>3. known' \in [Entries -> {"no", "direct", "event"}]
  BY <1>2 DEF TypeOK
<1>4. \A f \in Entries : SeenDirect(f) => SeenDirect(f)'
  BY <1>2 DEF TypeOK, SeenDirect
<1>5. \/ observed' = observed /\ managed' = managed /\ watched' = watched
      \/ /\ e[1] \notin handledClose /\ observed' = observed \cup {e[1]}
         /\ Enter(e[1]) \/ (managed' = managed /\ watched' = watched)
  BY DEF Execute
<1>6. /\ observed \subseteq observed' /\ observed' \subseteq Trades
      /\ managed \subseteq managed' /\ managed' \subseteq observed'
      /\ managed' \cap handledClose = {}
      /\ watched' \subseteq managed' /\ watched \subseteq watched'
      /\ \A t \in watched' \ watched : Watching /\ t \in OpenRows
  BY <1>1, <1>5 DEF Enter, TypeOK, Exposure
<1>. QED BY <1>2, <1>3, <1>4, <1>6

LEMMA ExecuteCloseFacts ==
  ASSUME TypeOK, Exposure, NEW t \in Trades, ExecuteClose(t)
  PROVE /\ known' = known /\ observed' = observed /\ swallowed' = swallowed
        /\ managed' \subseteq managed
        /\ handledClose \subseteq handledClose' /\ handledClose' \subseteq Trades
        /\ managed' \cap handledClose' = {}
        /\ watched' \subseteq watched /\ watched' \subseteq managed'
BY DEF ExecuteClose, EndExposure, TypeOK, Exposure

-----------------------------------------------------------------------------
(* What every step keeps true of the records. *)

Base == TypeOK /\ TargetSound(target, now) /\ ScanShape /\ SourceOrder /\ Exposure

(* A step that leaves the clock and the source alone. *)
LEMMA BaseFrom ==
  ASSUME Base, UNCHANGED <<now, candidate, source>>,
         target' \in Target, TargetSound(target', now), scan' \in Scan, ScanShape',
         known' \in [Entries -> {"no", "direct", "event"}],
         observed' \subseteq Trades, handledClose' \subseteq Trades, swallowed' \subseteq Trades,
         managed' \subseteq observed', managed' \cap handledClose' = {},
         watched' \subseteq managed',
         target'.closedIds \subseteq ClosedRows
  PROVE Base'
<1>1. TypeOK'
  <2>1. Staged(target')
    BY DEF TargetSound
  <2>. QED BY <2>1 DEF Base, TypeOK, Staged, source
<1>2. TargetSound(target, now)'
  BY DEF TargetSound, Staged, Admissions, Clocked, Past
<1>3. SourceOrder'
  BY DEF Base, SourceOrder, Has, source
<1>4. ClosedRows' = ClosedRows
  BY DEF ClosedRows, Has, source
<1>5. Exposure'
  BY <1>4 DEF Exposure
<1>. QED BY <1>1, <1>2, <1>3, <1>5 DEF Base

LEMMA BaseInit == Init => Base
<1>. SUFFICES ASSUME Init PROVE Base
  OBVIOUS
<1>1. NoTarget \in Target /\ TargetSound(NoTarget, 1)
  BY NoTargetSound
<1>2. TypeOK
  <2>1. /\ now \in 1 .. MaxTime
        /\ candidate \in [at : 1 .. now, elite : BOOLEAN]
        /\ happened \in [Events -> 0 .. now]
        /\ known \in [Entries -> {"no", "direct", "event"}]
    BY WatchAssumption DEF Init
  <2>. QED BY <1>1, <2>1, IdleFields DEF Init, TypeOK, TargetSound, Staged
<1>3. ScanShape
  BY IdleFields DEF Init, ScanShape
<1>4. SourceOrder
  BY EventFacts DEF Init, SourceOrder, Has
<1>5. Exposure
  BY DEF Init, Exposure, NoTarget
<1>. QED BY <1>1, <1>2, <1>3, <1>4, <1>5 DEF Base, Init

LEMMA BaseTick ==
  ASSUME Base, Tick
  PROVE Base'
<1>. USE DEF Base, Tick, source, executor, history
<1>1. now \in Nat \ {0} /\ now < MaxTime /\ now' = now + 1 /\ MaxTime \in Nat
  BY TypeFacts, WatchAssumption
<1>2. TypeOK'
  <2>1. candidate' \in [at : 1 .. now', elite : BOOLEAN]
    BY <1>1 DEF TypeOK
  <2>2. happened' \in [Events -> 0 .. now']
    BY <1>1 DEF TypeOK
  <2>. QED BY <1>1, <2>1, <2>2 DEF TypeOK
<1>3. TargetSound(target, now)'
  <2>1. Clocked(target, now)'
    BY <1>1, TargetFields, TypeFacts DEF TargetSound, Clocked
  <2>2. \A i \in DOMAIN target.intervals : target.intervals[i] \in Interval
    <3>1. target.intervals \in Seq(Interval)
      BY TargetFields, TypeFacts
    <3>. QED BY <3>1, ElementOfSeq, LenProperties
  <2>3. Past(target.intervals, now)'
    BY <1>1, <2>2 DEF TargetSound, Admissions, Past, Interval
  <2>. QED BY <2>1, <2>3 DEF TargetSound, Staged, Admissions
<1>4. ScanShape'
  BY <1>1, ScanFields, TypeFacts DEF ScanShape
<1>. QED BY <1>2, <1>3, <1>4 DEF SourceOrder, Exposure, Has, ClosedRows

LEMMA HappenFacts ==
  ASSUME TypeOK, SourceOrder, NEW e \in Events, Happen(e)
  PROVE /\ happened' \in [Events -> 0 .. now]
        /\ happened' = [happened EXCEPT ![e] = now]
        /\ happened'[e] = now
        /\ \A f \in Events : f # e => happened'[f] = happened[f]
        /\ SourceOrder'
        /\ ClosedRows \subseteq ClosedRows'
        /\ \A t \in ClosedRows' \ ClosedRows : e = Closing(t)
        /\ \A t \in OpenRows' \ OpenRows : e = Opening(t)
        /\ UNCHANGED <<now, candidate, target, scan, executor, history>>
<1>1. now \in Nat \ {0} /\ happened \in [Events -> 0 .. now]
  BY TypeFacts DEF TypeOK
<1>2. /\ ~ Has(e) /\ happened' = [happened EXCEPT ![e] = now]
      /\ UNCHANGED <<now, candidate, target, scan, executor, history>>
      /\ e[2] = "open" \/ e[1] \in OpenRows
      /\ e[2] = "increase" => happened[Opening(e[1])] < now
  BY DEF Happen
<1>3. happened' \in [Events -> 0 .. now]
  BY <1>1, <1>2
<1>4. happened'[e] = now /\ \A f \in Events : f # e => happened'[f] = happened[f]
  BY <1>1, <1>2
<1>5. \A f \in Events : f # e => (Has(f)' <=> Has(f))
  BY <1>4 DEF Has
<1>6. Has(e)'
  BY <1>1, <1>4 DEF Has
<1>7. SourceOrder'
  <2>. SUFFICES ASSUME NEW t \in Trades
                PROVE /\ Has(Raising(t))' =>
                            Has(Opening(t))' /\ happened'[Opening(t)] < happened'[Raising(t)]
                      /\ Has(Closing(t))' => Has(Opening(t))'
    BY DEF SourceOrder, Has
  <2>1. /\ Has(Raising(t)) => Has(Opening(t)) /\ happened[Opening(t)] < happened[Raising(t)]
        /\ Has(Closing(t)) => Has(Opening(t))
    BY DEF SourceOrder
  <2>2. CASE e = Opening(t)
    BY <1>2, <1>4, <1>5, <1>6, <2>1, <2>2, EventFacts
  <2>3. CASE e = Raising(t)
    <3>1. t \in OpenRows
      BY <1>2, <2>3, EventFacts
    <3>. QED BY <1>2, <1>4, <1>5, <1>6, <2>1, <2>3, <3>1, EventFacts DEF OpenRows
  <2>4. CASE e = Closing(t)
    <3>1. t \in OpenRows
      BY <1>2, <2>4, EventFacts
    <3>. QED BY <1>2, <1>4, <1>5, <1>6, <2>1, <2>4, <3>1, EventFacts DEF OpenRows
  <2>5. CASE e \notin {Opening(t), Raising(t), Closing(t)}
    BY <1>4, <1>5, <2>1, <2>5, EventFacts
  <2>. QED BY <2>2, <2>3, <2>4, <2>5
<1>8. ClosedRows \subseteq ClosedRows' /\ \A t \in ClosedRows' \ ClosedRows : e = Closing(t)
  BY <1>5, <1>6, EventFacts DEF ClosedRows
<1>9. \A t \in OpenRows' \ OpenRows : e = Opening(t)
  BY <1>5, <1>6, EventFacts DEF OpenRows
<1>. QED BY <1>2, <1>3, <1>4, <1>7, <1>8, <1>9

LEMMA BaseHappen ==
  ASSUME Base, NEW e \in Events, Happen(e)
  PROVE Base'
<1>1. /\ happened' \in [Events -> 0 .. now] /\ SourceOrder' /\ ClosedRows \subseteq ClosedRows'
      /\ UNCHANGED <<now, candidate, target, scan, executor, history>>
  BY HappenFacts DEF Base
<1>2. elite' \subseteq Entries
  BY DEF Base, TypeOK, Happen
<1>3. TypeOK'
  BY <1>1, <1>2 DEF Base, TypeOK, executor, history
<1>4. TargetSound(target, now)' /\ ScanShape'
  BY <1>1 DEF Base, TargetSound, Staged, Admissions, Clocked, Past, ScanShape
<1>5. Exposure'
  BY <1>1 DEF Base, Exposure, executor
<1>. QED BY <1>1, <1>3, <1>4, <1>5 DEF Base

LEMMA BaseFeedEntry ==
  ASSUME Base, NEW e \in Entries, FeedEntry(e)
  PROVE Base'
<1>1. UNCHANGED <<now, candidate, source, target, scan>> /\ Execute(e, FALSE)
  BY DEF FeedEntry
<1>2. TypeOK /\ Exposure
  BY DEF Base
<1>3. /\ known' \in [Entries -> {"no", "direct", "event"}] /\ observed' \subseteq Trades
      /\ managed' \subseteq observed' /\ managed' \cap handledClose = {}
      /\ watched' \subseteq managed' /\ handledClose' = handledClose /\ swallowed' = swallowed
  BY <1>1, <1>2, ExecuteFacts
<1>. QED BY <1>1, <1>2, <1>3, BaseFrom, TypeFacts DEF Base, ScanShape, Exposure, TypeOK

LEMMA BaseFeedClose ==
  ASSUME Base, NEW t \in Trades, FeedClose(t)
  PROVE Base'
<1>1. UNCHANGED <<now, candidate, source, target, scan>> /\ ExecuteClose(t)
  BY DEF FeedClose
<1>2. TypeOK /\ Exposure
  BY DEF Base
<1>3. /\ known' = known /\ observed' = observed /\ swallowed' = swallowed
      /\ managed' \subseteq managed /\ handledClose' \subseteq Trades
      /\ managed' \cap handledClose' = {} /\ watched' \subseteq managed'
  BY <1>1, <1>2, ExecuteCloseFacts
<1>. QED BY <1>1, <1>2, <1>3, BaseFrom, TypeFacts DEF Base, ScanShape, Exposure, TypeOK

LEMMA ExecuteClosedFacts ==
  ASSUME TypeOK, NEW t \in Trades, ExecuteClosed(t)
  PROVE /\ scan' \in Scan /\ SameOpen(scan, scan')
        /\ scan'.closed = "read" /\ scan'.rows = scan.rows /\ scan'.complete = scan.complete
        /\ scan'.closes = scan.closes \ {t}
        /\ ExecuteClose(t) /\ UNCHANGED <<now, candidate, source, target>>
<1>1. scan' = [scan EXCEPT !.closes = scan.closes \ {t}] /\ scan.closed = "read"
  BY DEF ExecuteClosed
<1>2. scan' \in Scan
  BY <1>1, TypeFacts DEF Scan
<1>3. scan'.complete = scan.complete
  BY <1>1, TypeFacts DEF Scan
<1>4. SameOpen(scan, scan')
  BY <1>1, TypeFacts DEF Scan, SameOpen
<1>5. scan'.closed = "read" /\ scan'.rows = scan.rows /\ scan'.closes = scan.closes \ {t}
  BY <1>1, TypeFacts DEF Scan
<1>. QED BY <1>2, <1>3, <1>4, <1>5 DEF ExecuteClosed

LEMMA BaseExecuteClosed ==
  ASSUME Base, NEW t \in Trades, ExecuteClosed(t)
  PROVE Base'
<1>1. TypeOK /\ Exposure /\ ScanShape /\ scan.closed = "read"
  BY DEF Base, ExecuteClosed
<1>2. /\ scan' \in Scan /\ SameOpen(scan, scan') /\ scan'.closed = "read"
      /\ ExecuteClose(t) /\ UNCHANGED <<now, candidate, source, target>>
  BY <1>1, ExecuteClosedFacts
<1>3. /\ known' = known /\ observed' = observed /\ swallowed' = swallowed
      /\ managed' \subseteq managed /\ handledClose' \subseteq Trades
      /\ managed' \cap handledClose' = {} /\ watched' \subseteq managed'
  BY <1>1, <1>2, ExecuteCloseFacts
<1>4. ScanShape'
  BY <1>1, <1>2 DEF ScanShape, SameOpen
<1>. QED BY <1>1, <1>2, <1>3, <1>4, BaseFrom, TypeFacts DEF Base, Exposure, TypeOK

LEMMA FlushFacts ==
  ASSUME TypeOK, Exposure, NEW e \in Entries, Flush(e)
  PROVE /\ scan' \in Scan /\ SameClosed(scan, scan') /\ scan'.open = scan.open
        /\ scan'.captured = scan.captured /\ scan'.left = scan.left \ {e}
        /\ scan'.created = scan.created /\ scan'.highWater = scan.highWater
        /\ scan.stage = "flush" /\ e \in scan.left
        /\ UNCHANGED <<now, candidate, source, target>>
        /\ known' \in [Entries -> {"no", "direct", "event"}]
        /\ \A f \in Entries : SeenDirect(f) => SeenDirect(f)'
        /\ observed \subseteq observed' /\ observed' \subseteq Trades
        /\ managed \subseteq managed' /\ managed' \subseteq observed'
        /\ managed' \cap handledClose = {}
        /\ watched' \subseteq managed' /\ watched \subseteq watched'
        /\ \A t \in watched' \ watched : Watching /\ t \in OpenRows
        /\ handledClose' = handledClose /\ swallowed' = swallowed
<1>1. scan' = [scan EXCEPT !.left = scan.left \ {e}]
  BY DEF Flush
<1>2. scan' \in Scan
  BY <1>1, TypeFacts DEF Scan
<1>3. scan'.complete = scan.complete
  BY <1>1, TypeFacts DEF Scan
<1>4. SameClosed(scan, scan')
  BY <1>1, <1>3, TypeFacts DEF Scan, SameClosed
<1>5. /\ scan'.open = scan.open /\ scan'.captured = scan.captured /\ scan'.left = scan.left \ {e}
      /\ scan'.created = scan.created /\ scan'.highWater = scan.highWater
  BY <1>1, TypeFacts DEF Scan
<1>6. CASE UNCHANGED <<executor, history>>
  BY <1>2, <1>4, <1>5, <1>6 DEF Flush, executor, history, SeenDirect, TypeOK, Exposure
<1>7. CASE Execute(e, TRUE)
  BY <1>2, <1>4, <1>5, <1>7, ExecuteFacts DEF Flush
<1>. QED BY <1>6, <1>7 DEF Flush

LEMMA BaseFlush ==
  ASSUME Base, NEW e \in Entries, Flush(e)
  PROVE Base'
<1>1. TypeOK /\ Exposure /\ ScanShape
  BY DEF Base
<1>2. /\ scan' \in Scan /\ SameClosed(scan, scan') /\ scan'.open = scan.open
      /\ scan'.captured = scan.captured /\ scan'.left = scan.left \ {e}
      /\ scan'.highWater = scan.highWater /\ scan.stage = "flush"
      /\ UNCHANGED <<now, candidate, source, target>>
      /\ known' \in [Entries -> {"no", "direct", "event"}]
      /\ observed' \subseteq Trades /\ managed' \subseteq observed'
      /\ managed' \cap handledClose = {} /\ watched' \subseteq managed'
      /\ handledClose' = handledClose /\ swallowed' = swallowed
  BY <1>1, FlushFacts
<1>3. ScanShape'
  BY <1>1, <1>2 DEF ScanShape, SameClosed
<1>. QED BY <1>1, <1>2, <1>3, BaseFrom, TypeFacts DEF Base, Exposure, TypeOK

(* A step of a scan that changes records only. *)
LEMMA BaseRecords ==
  ASSUME Base, UNCHANGED <<now, candidate, source, observed, managed, handledClose, watched>>,
         known' \in [Entries -> {"no", "direct", "event"}], swallowed' \subseteq Trades,
         target' \in Target, TargetSound(target', now), scan' \in Scan, ScanShape',
         target'.closedIds \subseteq ClosedRows
  PROVE Base'
BY BaseFrom DEF Base, TypeOK, Exposure

LEMMA BeginScanFacts ==
  ASSUME TypeOK, TargetSound(target, now), NEW stale \in BOOLEAN, NEW verdict \in Verdicts,
         NEW dropped \in BOOLEAN, NEW open \in {"off", "due"}, NEW closed \in {"off", "due"},
         BeginScan(stale, verdict, dropped, open, closed)
  PROVE /\ target' \in Target /\ TargetSound(target', now)
        /\ target.lifecycle \in Resident => SameCursor(target, target')
        /\ target.lifecycle \in Resident /\ Owned => target'.lifecycle \in Resident
        /\ target.lifecycle # "NONE" /\ target'.baselineAt = target.baselineAt =>
              Keeps(target, target')
        /\ target'.closedIds \subseteq target.closedIds
        /\ target.lifecycle = "RETIRING" /\ target'.lifecycle = "TOMBSTONE" => target.openProofs > 0
        /\ target'.lifecycle = "RETIRING" /\ target'.openProofs > 0 => target' = target
        /\ scan' \in Scan /\ scan.stage = "idle" /\ scan'.stage = "hydrate" /\ scan'.at = now
        /\ scan'.open = open /\ scan'.closed = closed
        /\ open = "due" => target'.closedInit
        /\ scan'.rows = {} /\ scan'.closes = {} /\ ~ scan'.complete
        /\ scan'.captured = {} /\ scan'.left = {} /\ scan'.created = {} /\ scan'.highWater = 0
        /\ swallowed' \in {{}, swallowed}
        /\ UNCHANGED <<now, candidate, source, executor, watched>>
<1>. DEFINE kept == IF dropped /\ target.lifecycle = "TOMBSTONE" THEN NoTarget ELSE target
            synced == Synced(kept, now, verdict, candidate.at, Owned)
<1>1. /\ target' = IF stale THEN target ELSE synced
      /\ open = "due" => target'.closedInit
      /\ scan.stage = "idle"
      /\ scan' = [Idle EXCEPT !.stage = "hydrate", !.at = now, !.failed = stale,
                              !.open = open, !.closed = closed]
      /\ swallowed' \in {{}, swallowed}
      /\ UNCHANGED <<now, candidate, source, executor, watched>>
  BY DEF BeginScan
<1>2. now \in Nat \ {0} /\ target \in Target /\ candidate.at \in Nat
  BY TypeFacts
<1>3. kept \in Target /\ TargetSound(kept, now)
  BY <1>2, NoTargetSound
<1>4. \/ kept = target
      \/ kept = NoTarget /\ target.lifecycle = "TOMBSTONE"
  OBVIOUS
<1>. HIDE DEF kept
<1>5. /\ synced \in Target /\ TargetSound(synced, now)
      /\ kept.lifecycle \in Resident => SameCursor(kept, synced)
      /\ kept.lifecycle \in Resident /\ Owned => synced.lifecycle \in Resident
      /\ kept.lifecycle # "NONE" => Keeps(kept, synced)
      /\ kept.lifecycle = "NONE" => synced = kept \/ synced.baselineAt = now
      /\ synced.lifecycle = "TOMBSTONE" /\ kept.lifecycle = "RETIRING" => kept.openProofs > 0
      /\ synced.lifecycle = "RETIRING" /\ synced.openProofs > 0 => synced = kept
      /\ synced.closedIds \subseteq kept.closedIds
  BY <1>2, <1>3, SyncedSound
<1>6. /\ scan' \in Scan /\ scan'.stage = "hydrate" /\ scan'.at = now
      /\ scan'.open = open /\ scan'.closed = closed
      /\ scan'.rows = {} /\ scan'.closes = {} /\ ~ scan'.complete
      /\ scan'.captured = {} /\ scan'.left = {} /\ scan'.created = {} /\ scan'.highWater = 0
  <2>1. scan' = Begun(now, stale, open, closed)
    BY <1>1 DEF Begun
  <2>. QED BY <1>2, <2>1, BegunFacts
<1>. HIDE DEF synced
<1>7. CASE target' = target
  BY <1>1, <1>2, <1>6, <1>7, KeepsSame, TargetFields DEF SameCursor
<1>8. CASE target' = synced /\ kept = target
  BY <1>1, <1>5, <1>6, <1>8
<1>9. CASE target' = synced /\ kept = NoTarget /\ target.lifecycle = "TOMBSTONE"
  <2>1. /\ NoTarget.lifecycle = "NONE" /\ NoTarget.baselineAt = 0 /\ NoTarget.closedIds = {}
    BY DEF NoTarget
  <2>2. /\ target.baselineAt >= 1 /\ target.baselineAt <= target.retiredAt
        /\ target.retiredAt < now
    BY <1>9 DEF TargetSound, Clocked
  <2>3. target'.baselineAt # target.baselineAt
    BY <1>2, <1>5, <1>9, <2>1, <2>2, TargetFields
  <2>. QED BY <1>1, <1>5, <1>6, <1>9, <2>1, <2>3 DEF Resident
<1>. QED BY <1>1, <1>4, <1>7, <1>8, <1>9

LEMMA BaseBegin ==
  ASSUME Base, Begin
  PROVE Base'
<1>1. PICK stale \in BOOLEAN, verdict \in Verdicts, dropped \in BOOLEAN,
           open \in {"off", "due"}, closed \in {"off", "due"} :
              BeginScan(stale, verdict, dropped, open, closed)
  BY DEF Begin
<1>2. TypeOK /\ TargetSound(target, now) /\ ScanShape /\ Exposure /\ now \in Nat \ {0}
  BY TypeFacts DEF Base
<1>3. /\ target' \in Target /\ TargetSound(target', now)
      /\ target'.closedIds \subseteq target.closedIds
      /\ scan' \in Scan /\ scan'.stage = "hydrate" /\ scan'.at = now
      /\ scan'.open = open /\ scan'.closed = closed
      /\ open = "due" => target'.closedInit
      /\ ~ scan'.complete
      /\ scan'.captured = {} /\ scan'.left = {} /\ scan'.highWater = 0
      /\ swallowed' \in {{}, swallowed}
      /\ UNCHANGED <<now, candidate, source, executor, watched>>
  BY <1>1, <1>2, BeginScanFacts
<1>4. ScanShape'
  BY <1>2, <1>3 DEF ScanShape, TargetSound, Admissions, Past
<1>5. UNCHANGED <<known, observed, managed, handledClose, watched>>
  BY <1>3 DEF executor
<1>6. target'.closedIds \subseteq ClosedRows
  BY <1>2, <1>3 DEF Exposure
<1>7. known' \in [Entries -> {"no", "direct", "event"}] /\ swallowed' \subseteq Trades
  BY <1>2, <1>3, <1>5 DEF TypeOK
<1>. QED BY <1>3, <1>4, <1>5, <1>6, <1>7, BaseRecords

LEMMA TimesTyped ==
  ASSUME Base
  PROVE /\ \A entries \in SUBSET Entries : TimesOf(entries) \in SUBSET (0 .. now)
        /\ \A t \in Trades : UpdatedAt(t) \in 0 .. now
        /\ Created \in SUBSET Nat
        /\ target.through \in 0 .. now
<1>1. \A e \in Events : happened[e] \in 0 .. now
  BY TypeFacts DEF Base
<1>2. target.through \in 0 .. now
  BY TypeFacts, TargetFields DEF Base, TargetSound, Clocked
<1>3. OpenRows \subseteq Trades
  BY TypeFacts DEF Base
<1>4. Created \in SUBSET Nat
  BY <1>1, <1>3, EventFacts DEF Created
<1>. QED BY <1>1, <1>2, <1>4, EventFacts, EventForms DEF TimesOf, UpdatedAt

LEMMA HydrateBaselineFacts ==
  ASSUME Base, HydrateBaseline
  PROVE /\ target' \in Target /\ TargetSound(target', now) /\ Keeps(target, target')
        /\ target.lifecycle = "ENROLLING" /\ target'.lifecycle = "ACTIVE"
        /\ target'.baselineAt = target.baselineAt /\ target.closedInit /\ target'.closedInit
        /\ target'.closedThrough = target.closedThrough
        /\ target'.closedIds = target.closedIds
        /\ scan' \in Scan /\ SameClosed(scan, scan') /\ scan'.open = "off"
        /\ scan.captured = {} /\ scan'.captured = {} /\ scan'.left = scan.left
        /\ scan'.highWater = scan.highWater
        /\ swallowed' \subseteq Trades
        /\ UNCHANGED <<now, candidate, source, executor, watched>>
<1>1. /\ scan.stage = "hydrate" /\ scan.open = "due" /\ target.lifecycle = "ENROLLING"
      /\ target' = ActiveFrom(target, scan.at, Latest({UpdatedAt(t) : t \in OpenRows}, scan.at))
      /\ swallowed' \subseteq OpenRows
      /\ Capture({}, {}, 0)
      /\ UNCHANGED <<now, candidate, source, executor, watched>>
  BY DEF HydrateBaseline, OpenBaselined
<1>2. /\ now \in Nat \ {0} /\ target \in Target /\ scan \in Scan /\ OpenRows \subseteq Trades
  BY TypeFacts DEF Base
<1>3. /\ target.closedInit /\ scan.captured = {} /\ scan.at \in 1 .. now
      /\ \A i \in DOMAIN target.intervals : target.intervals[i].until <= scan.at
  BY <1>1, <1>2, ScanFields DEF Base, ScanShape
<1>4. {UpdatedAt(t) : t \in OpenRows} \in SUBSET (0 .. now)
  BY <1>2, TimesTyped
<1>. DEFINE through == Latest({UpdatedAt(t) : t \in OpenRows}, scan.at)
<1>5. through \in 0 .. now
  <2>1. scan.at \in 0 .. now /\ now \in Nat
    BY <1>2, <1>3
  <2>. QED BY <1>4, <2>1, LatestIsGreatest
<1>6. target' = ActiveFrom(target, scan.at, through)
  BY <1>1
<1>. HIDE DEF through
<1>7. /\ target' \in Target /\ TargetSound(target', now) /\ Keeps(target, target')
      /\ target'.lifecycle = "ACTIVE"
      /\ target'.baselineAt = target.baselineAt /\ target.closedInit /\ target'.closedInit
      /\ target'.closedThrough = target.closedThrough /\ target'.closedIds = target.closedIds
  BY <1>1, <1>2, <1>3, <1>5, <1>6, ActiveFromSound DEF Base
<1>8. /\ scan' \in Scan /\ SameClosed(scan, scan') /\ scan'.open = "off"
      /\ scan'.captured = scan.captured /\ scan'.left = scan.left
      /\ scan'.highWater = scan.highWater
  <2>1. {} \in SUBSET Entries /\ {} \in SUBSET Nat /\ 0 \in Nat
    OBVIOUS
  <2>. QED BY <1>1, <1>2, <2>1, CaptureFacts
<1>. QED BY <1>1, <1>2, <1>3, <1>7, <1>8

LEMMA BaseHydrateBaseline ==
  ASSUME Base, HydrateBaseline
  PROVE Base'
<1>1. /\ target' \in Target /\ TargetSound(target', now)
      /\ target.lifecycle = "ENROLLING" /\ target'.lifecycle = "ACTIVE"
      /\ target'.closedInit
      /\ target'.closedIds = target.closedIds
      /\ scan' \in Scan /\ SameClosed(scan, scan') /\ scan'.open = "off"
      /\ scan.captured = {} /\ scan'.captured = {} /\ scan'.left = scan.left
      /\ scan'.highWater = scan.highWater
      /\ swallowed' \subseteq Trades
      /\ UNCHANGED <<now, candidate, source, executor, watched>>
  BY HydrateBaselineFacts
<1>2. /\ ScanShape /\ scan.stage = "hydrate" /\ scan.open = "due"
      /\ target' = OpenBaselined(target, {UpdatedAt(t) : t \in OpenRows}, scan.at)
      /\ target \in Target /\ scan \in Scan
  BY TypeFacts DEF Base, HydrateBaseline
<1>3. target'.intervals = Append(target.intervals, [from |-> scan.at, until |-> 0])
  BY <1>2 DEF OpenBaselined, ActiveFrom, Target
<1>4. \A i \in DOMAIN target'.intervals : target'.intervals[i].until <= scan.at
  <2>. DEFINE iv == target.intervals
              new == [from |-> scan.at, until |-> 0]
  <2>1. iv \in Seq(Interval) /\ new \in Interval /\ new.until = 0 /\ scan.at \in Nat
    BY <1>2, TargetFields, ScanFields DEF Interval
  <2>2. target'.intervals = Append(iv, new)
    BY <1>3
  <2>3. \A i \in DOMAIN iv : iv[i].until <= scan.at
    BY <1>2 DEF ScanShape
  <2>. HIDE DEF iv, new
  <2>4. /\ Append(iv, new) \in Seq(Interval) /\ Len(Append(iv, new)) = Len(iv) + 1
        /\ \A i \in 1 .. Len(iv) : Append(iv, new)[i] = iv[i]
        /\ Append(iv, new)[Len(iv) + 1] = new
    BY <2>1, AppendProperties
  <2>5. DOMAIN iv = 1 .. Len(iv) /\ Len(iv) \in Nat /\ DOMAIN Append(iv, new) = 1 .. Len(iv) + 1
    BY <2>1, <2>4, LenProperties
  <2>. QED BY <2>1, <2>2, <2>3, <2>4, <2>5
<1>5. ScanShape'
  BY <1>1, <1>2, <1>4 DEF ScanShape, SameClosed
<1>6. UNCHANGED <<known, observed, managed, handledClose, watched>>
  BY <1>1 DEF executor
<1>7. target'.closedIds \subseteq ClosedRows /\ known' \in [Entries -> {"no", "direct", "event"}]
  BY <1>1, <1>6 DEF Base, Exposure, TypeOK
<1>. QED BY <1>1, <1>5, <1>6, <1>7, BaseRecords

LEMMA HydrateOpenFacts ==
  ASSUME Base, HydrateOpen
  PROVE LET signals == OpenSignals(target.through)
            highWater == Latest(TimesOf(signals), target.through) IN
        /\ target' = target /\ target.lifecycle \in {"ACTIVE", "MISSING_GRACE"}
        /\ highWater \in 0 .. now
        /\ scan' \in Scan /\ SameClosed(scan, scan') /\ scan'.open = "off"
        /\ scan.captured = {}
        /\ \/ /\ scan'.captured = {} /\ scan'.left = scan.left
              /\ scan'.created = scan.created /\ scan'.highWater = scan.highWater
           \/ /\ scan'.captured = signals /\ scan'.left = signals
              /\ scan'.created = {} /\ scan'.highWater = highWater
        /\ UNCHANGED <<now, candidate, source, executor, history>>
<1>. DEFINE signals == OpenSignals(target.through)
            highWater == Latest(TimesOf(signals), target.through)
<1>1. /\ scan.stage = "hydrate" /\ scan.open = "due"
      /\ target.lifecycle \in {"ACTIVE", "MISSING_GRACE"}
      /\ Capture(signals, {}, highWater)
      /\ UNCHANGED <<now, candidate, source, target, executor, history>>
  BY DEF HydrateOpen
<1>2. /\ now \in Nat \ {0} /\ scan \in Scan /\ OpenRows \subseteq Trades /\ scan.captured = {}
  BY <1>1, TypeFacts DEF Base, ScanShape
<1>3. signals \in SUBSET Entries
  BY <1>2, EventFacts DEF OpenSignals
<1>4. highWater \in 0 .. now /\ highWater \in Nat
  <2>1. TimesOf(signals) \in SUBSET (0 .. now) /\ target.through \in 0 .. now /\ now \in Nat
    BY <1>2, <1>3, TimesTyped
  <2>. HIDE DEF signals
  <2>2. highWater \in 0 .. now
    BY <2>1, LatestIsGreatest
  <2>. QED BY <2>2
<1>. HIDE DEF signals, highWater
<1>5. /\ scan' \in Scan /\ SameClosed(scan, scan') /\ scan'.open = "off"
      /\ \/ /\ scan'.captured = scan.captured /\ scan'.left = scan.left
            /\ scan'.created = scan.created /\ scan'.highWater = scan.highWater
         \/ /\ scan'.captured = signals /\ scan'.left = signals
            /\ scan'.created = {} /\ scan'.highWater = highWater
  <2>1. {} \in SUBSET Nat
    OBVIOUS
  <2>. QED BY <1>1, <1>2, <1>3, <1>4, <2>1, CaptureFacts
<1>. QED BY <1>1, <1>2, <1>4, <1>5 DEF signals, highWater

LEMMA BaseHydrateOpen ==
  ASSUME Base, HydrateOpen
  PROVE Base'
<1>1. /\ target' = target /\ target.lifecycle \in {"ACTIVE", "MISSING_GRACE"}
      /\ scan' \in Scan /\ SameClosed(scan, scan') /\ scan'.open = "off"
      /\ scan.captured = {}
      /\ \/ scan'.captured = {} /\ scan'.left = scan.left
         \/ scan'.left = scan'.captured
      /\ scan'.highWater <= now
      /\ UNCHANGED <<now, candidate, source, executor, history>>
  <2>1. scan.highWater <= now
    BY DEF Base, ScanShape
  <2>. QED BY <2>1, HydrateOpenFacts
<1>2. /\ ScanShape /\ TypeOK /\ Exposure /\ TargetSound(target, now) /\ target \in Target
      /\ scan.stage = "hydrate"
  BY TypeFacts DEF Base, HydrateOpen
<1>3. scan.left = {}
  BY <1>1, <1>2 DEF ScanShape
<1>4. ScanShape'
  BY <1>1, <1>2, <1>3 DEF ScanShape, SameClosed
<1>5. /\ UNCHANGED <<known, observed, managed, handledClose, watched>>
      /\ known' \in [Entries -> {"no", "direct", "event"}] /\ swallowed' \subseteq Trades
  BY <1>1, <1>2 DEF executor, history, TypeOK
<1>. QED BY <1>1, <1>2, <1>4, <1>5, BaseRecords DEF Exposure

(* Nothing but the OPEN watermark and the proofs of retirement differ. *)
SameRecord(t, u) ==
    /\ u.lifecycle = t.lifecycle /\ u.baselineAt = t.baselineAt /\ u.intervals = t.intervals
    /\ u.retiredAt = t.retiredAt
    /\ t.closedInit <=> u.closedInit
    /\ u.closedThrough = t.closedThrough /\ u.closedIds = t.closedIds

LEMMA PolledSound ==
  ASSUME NEW t \in Target, NEW n \in Nat \ {0}, TargetSound(t, n), NEW highWater \in 0 .. n,
         NEW created, NEW at \in Nat
  PROVE LET u == RetirementPolled(OpenCommitted(t, highWater), created, at) IN
        /\ u \in Target /\ TargetSound(u, n) /\ Keeps(t, u) /\ SameRecord(t, u)
        /\ u.through = Later(t.through, highWater)
        /\ u.openProofs > 0 => at >= RetireAfter(t) /\ ~ OpenedWhileSelected(t, created)
<1>. DEFINE c == OpenCommitted(t, highWater)
            u == RetirementPolled(c, created, at)
<1>1. /\ c \in Target /\ TargetSound(c, n) /\ Keeps(t, c)
      /\ c.lifecycle = t.lifecycle /\ c.baselineAt = t.baselineAt
      /\ c.intervals = t.intervals /\ c.retiredAt = t.retiredAt
      /\ c.through = Later(t.through, highWater)
      /\ t.closedInit <=> c.closedInit
      /\ c.closedThrough = t.closedThrough /\ c.closedIds = t.closedIds
  BY OpenCommittedSound
<1>. HIDE DEF c
<1>2. /\ u \in Target /\ TargetSound(u, n) /\ SameCursor(c, u)
      /\ u.lifecycle = c.lifecycle /\ u.intervals = c.intervals
      /\ u.retiredAt = c.retiredAt
      /\ u.openProofs > 0 => at >= RetireAfter(c) /\ ~ OpenedWhileSelected(c, created)
  BY <1>1, RetirementPolledSound
<1>3. RetireAfter(c) = RetireAfter(t) /\ (OpenedWhileSelected(c, created) <=> OpenedWhileSelected(t, created))
  BY <1>1 DEF RetireAfter, OpenedWhileSelected
<1>. HIDE DEF u
<1>4. SameRecord(t, u) /\ u.through = Later(t.through, highWater)
  BY <1>1, <1>2 DEF SameCursor, SameRecord
<1>5. Keeps(t, u)
  BY <1>1, <1>2, TargetFields DEF SameCursor, Keeps
<1>. QED BY <1>2, <1>3, <1>4, <1>5 DEF u, c

LEMMA RetiringTyped ==
  ASSUME TypeOK
  PROVE /\ RetiringExecuted \in SUBSET Entries /\ RetiringIgnored \in SUBSET Entries
        /\ \A ignored \in SUBSET RetiringIgnored :
              LET marked == [e \in Entries |-> IF e \in ignored THEN "direct" ELSE known[e]] IN
              /\ marked \in [Entries -> {"no", "direct", "event"}]
              /\ \A e \in Entries : known[e] # "no" => marked[e] # "no"
              /\ \A e \in ignored : marked[e] # "no"
<1>1. OpenRows \subseteq Trades
  BY TypeFacts
<1>2. PreDemotion \subseteq Trades
  BY <1>1 DEF PreDemotion
<1>3. RetiringExecuted \in SUBSET Entries
  BY <1>2, EventFacts DEF RetiringExecuted
<1>4. RetiringIgnored \in SUBSET Entries
  BY <1>1, <1>2, EventFacts DEF RetiringIgnored
<1>. QED BY <1>3, <1>4 DEF TypeOK

LEMMA HydrateRetiringFacts ==
  ASSUME Base, HydrateRetiring
  PROVE LET highWater == Latest(TimesOf(RetiringExecuted \cup RetiringIgnored), target.through) IN
        /\ target' \in Target /\ TargetSound(target', now) /\ Keeps(target, target')
        /\ SameRecord(target, target') /\ target.lifecycle = "RETIRING"
        /\ highWater \in 0 .. now
        /\ \/ target' = target
           \/ /\ target'.through = Later(target.through, highWater)
              /\ RetiringExecuted = {}
              /\ target'.openProofs > 0 =>
                    scan.at >= RetireAfter(target) /\ ~ OpenedWhileSelected(target, Created)
        /\ scan' \in Scan /\ SameClosed(scan, scan') /\ scan'.open = "off"
        /\ scan.stage = "hydrate" /\ scan.captured = {}
        /\ \/ /\ scan'.captured = {} /\ scan'.left = scan.left
              /\ scan'.created = scan.created /\ scan'.highWater = scan.highWater
           \/ /\ scan'.captured = RetiringExecuted /\ scan'.left = RetiringExecuted
              /\ scan'.created = Created /\ scan'.highWater = highWater
              /\ target' = target
        /\ known' \in [Entries -> {"no", "direct", "event"}]
        /\ \A e \in Entries : SeenDirect(e) => SeenDirect(e)'
        /\ \A e \in RetiringIgnored : SeenDirect(e)'
        /\ UNCHANGED <<now, candidate, source, observed, managed, handledClose, history>>
<1>. DEFINE highWater == Latest(TimesOf(RetiringExecuted \cup RetiringIgnored), target.through)
<1>1. /\ scan.stage = "hydrate" /\ scan.open = "due" /\ target.lifecycle = "RETIRING"
      /\ known' = [e \in Entries |-> IF e \in RetiringIgnored THEN "direct" ELSE known[e]]
      /\ Capture(RetiringExecuted, Created, highWater)
      /\ target' = IF RetiringExecuted = {}
                   THEN RetirementPolled(OpenCommitted(target, highWater), Created, scan.at)
                   ELSE target
      /\ UNCHANGED <<now, candidate, source, observed, managed, handledClose, history>>
  BY DEF HydrateRetiring
<1>2. /\ now \in Nat \ {0} /\ scan \in Scan /\ target \in Target /\ TypeOK
      /\ TargetSound(target, now) /\ scan.at \in Nat
      /\ scan.captured = {}
  BY <1>1, TypeFacts, ScanFields DEF Base, ScanShape
<1>3. RetiringExecuted \in SUBSET Entries /\ RetiringIgnored \in SUBSET Entries
  BY <1>2, RetiringTyped
<1>4. highWater \in 0 .. now /\ highWater \in Nat
  <2>1. /\ TimesOf(RetiringExecuted \cup RetiringIgnored) \in SUBSET (0 .. now)
        /\ target.through \in 0 .. now /\ now \in Nat
    BY <1>2, <1>3, TimesTyped
  <2>2. highWater \in 0 .. now
    BY <2>1, LatestIsGreatest
  <2>. QED BY <2>2
<1>. HIDE DEF highWater
<1>5. /\ known' \in [Entries -> {"no", "direct", "event"}]
      /\ \A e \in Entries : SeenDirect(e) => SeenDirect(e)'
      /\ \A e \in RetiringIgnored : SeenDirect(e)'
  BY <1>1, <1>2, <1>3, RetiringTyped DEF SeenDirect
<1>6. Created \in SUBSET Nat
  BY TimesTyped
<1>7. /\ scan' \in Scan /\ SameClosed(scan, scan') /\ scan'.open = "off"
      /\ \/ /\ scan'.captured = scan.captured /\ scan'.left = scan.left
            /\ scan'.created = scan.created /\ scan'.highWater = scan.highWater
         \/ /\ scan'.captured = RetiringExecuted /\ scan'.left = RetiringExecuted
            /\ scan'.created = Created /\ scan'.highWater = highWater
            /\ RetiringExecuted # {}
  BY <1>1, <1>2, <1>3, <1>4, <1>6, CaptureFacts
<1>8. /\ target' \in Target /\ TargetSound(target', now) /\ Keeps(target, target')
      /\ SameRecord(target, target')
      /\ \/ target' = target
         \/ /\ target'.through = Later(target.through, highWater)
            /\ RetiringExecuted = {}
            /\ target'.openProofs > 0 =>
                  scan.at >= RetireAfter(target) /\ ~ OpenedWhileSelected(target, Created)
  <2>1. CASE RetiringExecuted # {}
    <3>1. target' = target
      BY <1>1, <2>1
    <3>. QED BY <1>2, <3>1, TargetFields DEF Keeps, SameRecord
  <2>2. CASE RetiringExecuted = {}
    <3>1. target' = RetirementPolled(OpenCommitted(target, highWater), Created, scan.at)
      BY <1>1, <2>2
    <3>. QED BY <1>2, <1>4, <2>2, <3>1, PolledSound
  <2>. QED BY <2>1, <2>2
<1>9. RetiringExecuted # {} => target' = target
  BY <1>1
<1>. QED BY <1>1, <1>2, <1>4, <1>5, <1>7, <1>8, <1>9 DEF highWater

LEMMA BaseHydrateRetiring ==
  ASSUME Base, HydrateRetiring
  PROVE Base'
<1>1. /\ target' \in Target /\ TargetSound(target', now) /\ SameRecord(target, target')
      /\ target.lifecycle = "RETIRING"
      /\ scan' \in Scan /\ SameClosed(scan, scan') /\ scan'.open = "off"
      /\ scan.stage = "hydrate" /\ scan.captured = {}
      /\ \/ scan'.captured = {} /\ scan'.left = scan.left
         \/ scan'.left = scan'.captured
      /\ scan'.highWater <= now
      /\ known' \in [Entries -> {"no", "direct", "event"}]
      /\ UNCHANGED <<now, candidate, source, observed, managed, handledClose, history>>
  <2>1. scan.highWater <= now
    BY DEF Base, ScanShape
  <2>. QED BY <2>1, HydrateRetiringFacts
<1>2. ScanShape /\ TypeOK /\ Exposure
  BY DEF Base
<1>3. scan.left = {}
  BY <1>1, <1>2 DEF ScanShape
<1>4. ScanShape'
  BY <1>1, <1>2, <1>3 DEF ScanShape, SameClosed, SameRecord
<1>5. swallowed' \subseteq Trades /\ target'.closedIds \subseteq ClosedRows /\ watched' = watched
  BY <1>1, <1>2 DEF history, TypeOK, Exposure, SameRecord
<1>. QED BY <1>1, <1>4, <1>5, BaseRecords

LEMMA FailOpenFacts ==
  ASSUME Base, FailOpen
  PROVE /\ scan' \in Scan /\ SameClosed(scan, scan') /\ scan'.open = "off"
        /\ scan.stage = "hydrate"
        /\ scan'.captured = {} /\ scan'.left = {} /\ scan'.highWater = 0
        /\ known' \in [Entries -> {"no", "direct", "event"}]
        /\ \A e \in Entries : SeenDirect(e) => SeenDirect(e)'
        /\ UNCHANGED <<now, candidate, source, target, observed, managed, handledClose, history>>
<1>1. /\ scan.stage = "hydrate" /\ scan' = [Failed EXCEPT !.open = "off"]
      /\ UNCHANGED <<now, candidate, source, target, observed, managed, handledClose, history>>
  BY DEF FailOpen
<1>2. TypeOK /\ scan \in Scan
  BY TypeFacts DEF Base
<1>3. /\ Failed \in Scan /\ SameClosed(scan, Failed)
      /\ Failed.captured = {} /\ Failed.left = {} /\ Failed.highWater = 0
  BY <1>2, FailedFacts
<1>4. scan' \in Scan
  BY <1>1, <1>3 DEF Scan
<1>5. /\ scan'.open = "off" /\ scan'.stage = Failed.stage /\ scan'.at = Failed.at
      /\ scan'.closed = Failed.closed /\ scan'.rows = Failed.rows /\ scan'.closes = Failed.closes
      /\ scan'.captured = Failed.captured /\ scan'.left = Failed.left
      /\ scan'.highWater = Failed.highWater
  BY <1>1, <1>3 DEF Scan
<1>6. scan'.complete = Failed.complete
  BY <1>1, <1>3 DEF Scan
<1>7. \/ known' = known
      \/ \E ignored \in SUBSET RetiringIgnored :
            known' = [e \in Entries |-> IF e \in ignored THEN "direct" ELSE known[e]]
  BY DEF FailOpen
<1>8. /\ known' \in [Entries -> {"no", "direct", "event"}]
      /\ \A e \in Entries : SeenDirect(e) => SeenDirect(e)'
  BY <1>2, <1>7, RetiringTyped DEF SeenDirect, TypeOK
<1>. QED BY <1>1, <1>3, <1>4, <1>5, <1>6, <1>8 DEF SameClosed

LEMMA BaseFailOpen ==
  ASSUME Base, FailOpen
  PROVE Base'
<1>1. /\ scan' \in Scan /\ SameClosed(scan, scan') /\ scan'.open = "off"
      /\ scan.stage = "hydrate"
      /\ scan'.captured = {} /\ scan'.left = {} /\ scan'.highWater = 0
      /\ known' \in [Entries -> {"no", "direct", "event"}]
      /\ UNCHANGED <<now, candidate, source, target, observed, managed, handledClose, history>>
  BY FailOpenFacts
<1>2. /\ ScanShape /\ TypeOK /\ Exposure /\ TargetSound(target, now) /\ target \in Target
      /\ now \in Nat
  BY TypeFacts DEF Base
<1>3. ScanShape'
  BY <1>1, <1>2 DEF ScanShape, SameClosed
<1>4. swallowed' \subseteq Trades /\ target'.closedIds \subseteq ClosedRows /\ watched' = watched
  BY <1>1, <1>2 DEF history, TypeOK, Exposure
<1>. QED BY <1>1, <1>2, <1>3, <1>4, BaseRecords

LEMMA BaselineClosedFacts ==
  ASSUME Base, BaselineClosed
  PROVE /\ target' \in Target /\ TargetSound(target', now) /\ Keeps(target, target')
        /\ ~ target.closedInit /\ target.lifecycle # "RETIRING"
        /\ target'.lifecycle = target.lifecycle /\ target'.baselineAt = target.baselineAt
        /\ target'.intervals = target.intervals /\ target'.through = target.through
        /\ target'.closedInit
        /\ target'.closedIds \subseteq ClosedRows
        /\ scan' \in Scan /\ SameOpen(scan, scan') /\ scan'.closed = "off"
        /\ scan.stage = "hydrate" /\ scan'.rows = scan.rows
        /\ scan'.complete <=> scan.complete
        /\ UNCHANGED <<now, candidate, source, executor, history>>
<1>. DEFINE newest == Latest({happened[Closing(t)] : t \in ClosedRows}, 0)
            rows == {t \in ClosedRows : happened[Closing(t)] = newest}
            closes == [t \in rows |-> newest]
<1>1. /\ scan.stage = "hydrate" /\ ~ target.closedInit /\ target.lifecycle # "RETIRING"
      /\ target' = ClosedCommitted(target, closes, scan.at)
      /\ scan' = [scan EXCEPT !.closed = "off"]
      /\ UNCHANGED <<now, candidate, source, executor, history>>
  BY DEF BaselineClosed
<1>2. /\ now \in Nat \ {0} /\ target \in Target /\ scan \in Scan /\ ClosedRows \subseteq Trades
      /\ TargetSound(target, now) /\ scan.at \in Nat
      /\ target.closedIds \subseteq ClosedRows
  BY TypeFacts, ScanFields DEF Base, Exposure
<1>3. newest \in 0 .. now
  <2>1. {happened[Closing(t)] : t \in ClosedRows} \in SUBSET (0 .. now)
    BY <1>2, TypeFacts, EventFacts DEF Base
  <2>2. now \in Nat /\ 0 \in 0 .. now
    BY <1>2
  <2>. QED BY <2>1, <2>2, LatestIsGreatest
<1>4. /\ rows \subseteq ClosedRows /\ DOMAIN closes = rows /\ DOMAIN closes \subseteq Trades
      /\ \A r \in DOMAIN closes : closes[r] \in 0 .. now
  BY <1>2, <1>3
<1>. HIDE DEF newest, rows, closes
<1>5. /\ target' \in Target /\ TargetSound(target', now) /\ Keeps(target, target')
      /\ target'.lifecycle = target.lifecycle /\ target'.baselineAt = target.baselineAt
      /\ target'.intervals = target.intervals /\ target'.through = target.through
      /\ target'.closedInit
  BY <1>1, <1>2, <1>4, ClosedCommittedSound
<1>6. target'.closedIds \subseteq ClosedRows
  <2>. DEFINE top == Latest(Moments(closes), target.closedThrough)
  <2>1. target'.closedIds = (IF top = target.closedThrough THEN target.closedIds ELSE {})
                                \cup {r \in rows : closes[r] = top}
    BY <1>1, <1>2, <1>4, ClosedCommittedSound
  <2>. QED BY <1>2, <1>4, <2>1
<1>7. scan' \in Scan
  BY <1>1, <1>2 DEF Scan
<1>8. SameOpen(scan, scan') /\ scan'.closed = "off" /\ scan'.rows = scan.rows
  BY <1>1, <1>2 DEF Scan, SameOpen
<1>9. scan'.complete <=> scan.complete
  BY <1>1, <1>2 DEF Scan
<1>. QED BY <1>1, <1>5, <1>6, <1>7, <1>8, <1>9

LEMMA BaseBaselineClosed ==
  ASSUME Base, BaselineClosed
  PROVE Base'
<1>1. /\ target' \in Target /\ TargetSound(target', now)
      /\ target'.lifecycle = target.lifecycle /\ target'.intervals = target.intervals
      /\ target'.closedInit
      /\ target'.closedIds \subseteq ClosedRows
      /\ scan' \in Scan /\ SameOpen(scan, scan') /\ scan'.closed = "off"
      /\ scan.stage = "hydrate"
      /\ UNCHANGED <<now, candidate, source, executor, history>>
  BY BaselineClosedFacts
<1>2. ScanShape /\ TypeOK
  BY DEF Base
<1>3. ScanShape'
  BY <1>1, <1>2 DEF ScanShape, SameOpen
<1>4. /\ UNCHANGED <<known, observed, managed, handledClose, watched>>
      /\ known' \in [Entries -> {"no", "direct", "event"}] /\ swallowed' \subseteq Trades
  BY <1>1, <1>2 DEF executor, history, TypeOK
<1>. QED BY <1>1, <1>3, <1>4, BaseRecords

LEMMA ReadClosedFacts ==
  ASSUME Base, NEW rows \in SUBSET ClosedRows, NEW unready \in SUBSET ClosedRows,
         ReadClosed(rows, unready)
  PROVE /\ target' = DrainStarted(target)
        /\ target' \in Target /\ TargetSound(target', now) /\ Keeps(target, target')
        /\ target'.closedInit /\ (target.closedInit => target' = target)
        /\ target'.closedIds = target.closedIds \/ target'.closedIds = {}
        /\ target'.lifecycle = target.lifecycle /\ target'.intervals = target.intervals
        /\ target'.baselineAt = target.baselineAt /\ target'.through = target.through
        /\ target'.retiredAt = target.retiredAt /\ target'.openProofs = target.openProofs
        /\ scan' \in Scan /\ SameOpen(scan, scan') /\ scan'.closed = "read"
        /\ scan.stage = "hydrate"
        /\ scan'.rows \in {{}, rows}
        /\ scan'.complete => scan'.rows = ClosedRows
        /\ UNCHANGED <<now, candidate, source, executor, history>>
<1>. DEFINE watermark == DrainStarted(target)
            fresh == {t \in rows : FreshClose(watermark, t, happened[Closing(t)])}
            complete == rows = ClosedRows /\ unready = {}
            read == IF complete THEN rows ELSE {}
<1>1. /\ scan.stage = "hydrate"
      /\ target' = DrainStarted(target)
      /\ scan' = [scan EXCEPT !.closed = "read", !.closes = fresh \ unready,
                              !.complete = complete, !.rows = read]
      /\ UNCHANGED <<now, candidate, source, executor, history>>
  BY DEF ReadClosed
<1>2. /\ now \in Nat \ {0} /\ target \in Target /\ scan \in Scan /\ ClosedRows \subseteq Trades
      /\ TargetSound(target, now)
  BY TypeFacts DEF Base
<1>3. /\ fresh \ unready \in SUBSET Trades /\ complete \in BOOLEAN /\ read \in SUBSET Trades
      /\ read \in {{}, rows} /\ (complete => read = ClosedRows)
  BY <1>2
<1>4. /\ target' \in Target /\ TargetSound(target', now) /\ Keeps(target, target')
      /\ target'.closedInit /\ (target.closedInit => target' = target)
      /\ target'.closedIds = target.closedIds \/ target'.closedIds = {}
      /\ target'.lifecycle = target.lifecycle /\ target'.intervals = target.intervals
      /\ target'.baselineAt = target.baselineAt /\ target'.through = target.through
      /\ target'.retiredAt = target.retiredAt /\ target'.openProofs = target.openProofs
  BY <1>1, <1>2, DrainStartedSound
<1>. HIDE DEF fresh, complete, read
<1>5. scan' \in Scan
  BY <1>1, <1>2, <1>3 DEF Scan
<1>6. SameOpen(scan, scan') /\ scan'.closed = "read" /\ scan'.rows = read
  BY <1>1, <1>2 DEF Scan, SameOpen
<1>7. scan'.complete = complete
  BY <1>1, <1>2 DEF Scan
<1>. QED BY <1>1, <1>3, <1>4, <1>5, <1>6, <1>7

LEMMA BaseReadClosed ==
  ASSUME Base, NEW rows \in SUBSET ClosedRows, NEW unready \in SUBSET ClosedRows,
         ReadClosed(rows, unready)
  PROVE Base'
<1>1. /\ target' \in Target /\ TargetSound(target', now)
      /\ target'.closedInit
      /\ target'.closedIds = target.closedIds \/ target'.closedIds = {}
      /\ target'.lifecycle = target.lifecycle /\ target'.intervals = target.intervals
      /\ scan' \in Scan /\ SameOpen(scan, scan') /\ scan'.closed = "read"
      /\ scan.stage = "hydrate"
      /\ UNCHANGED <<now, candidate, source, executor, history>>
  BY ReadClosedFacts
<1>2. ScanShape /\ TypeOK /\ Exposure
  BY DEF Base
<1>3. ScanShape'
  BY <1>1, <1>2 DEF ScanShape, SameOpen
<1>4. /\ UNCHANGED <<known, observed, managed, handledClose, watched>>
      /\ known' \in [Entries -> {"no", "direct", "event"}] /\ swallowed' \subseteq Trades
      /\ target'.closedIds \subseteq ClosedRows
  BY <1>1, <1>2 DEF executor, history, TypeOK, Exposure
<1>. QED BY <1>1, <1>3, <1>4, BaseRecords

LEMMA FailClosedFacts ==
  ASSUME Base, FailClosed
  PROVE /\ target' \in Target /\ TargetSound(target', now) /\ Keeps(target, target')
        /\ target.closedInit => target' = target
        /\ target'.closedIds = target.closedIds \/ target'.closedIds = {}
        /\ target'.lifecycle = target.lifecycle /\ target'.intervals = target.intervals
        /\ target'.baselineAt = target.baselineAt /\ target'.through = target.through
        /\ target'.retiredAt = target.retiredAt /\ target'.openProofs = target.openProofs
        /\ scan' \in Scan /\ scan'.stage = "hydrate" /\ scan'.at = scan.at
        /\ scan.stage = "hydrate"
        /\ scan'.open = scan.open /\ scan'.closed = "off" /\ scan'.rows = scan.rows
        /\ scan'.complete <=> scan.complete
        /\ scan'.captured = {} /\ scan'.left = {} /\ scan'.highWater = 0
        /\ UNCHANGED <<now, candidate, source, executor, history>>
<1>1. /\ scan.stage = "hydrate" /\ scan' = [Failed EXCEPT !.closed = "off"]
      /\ target' = target \/ target' = DrainStarted(target)
      /\ UNCHANGED <<now, candidate, source, executor, history>>
  BY DEF FailClosed
<1>2. TypeOK /\ scan \in Scan /\ target \in Target /\ TargetSound(target, now) /\ now \in Nat \ {0}
  BY TypeFacts DEF Base
<1>3. /\ Failed \in Scan /\ SameClosed(scan, Failed) /\ Failed.open = scan.open
      /\ Failed.captured = {} /\ Failed.left = {} /\ Failed.highWater = 0
  BY <1>2, FailedFacts
<1>4. scan' \in Scan
  BY <1>1, <1>3 DEF Scan
<1>5. /\ scan'.closed = "off" /\ scan'.stage = Failed.stage /\ scan'.at = Failed.at
      /\ scan'.open = Failed.open /\ scan'.rows = Failed.rows
      /\ scan'.captured = Failed.captured /\ scan'.left = Failed.left
      /\ scan'.highWater = Failed.highWater
  BY <1>1, <1>3 DEF Scan
<1>6. scan'.complete <=> Failed.complete
  BY <1>1, <1>3 DEF Scan
<1>7. /\ target' \in Target /\ TargetSound(target', now) /\ Keeps(target, target')
      /\ target.closedInit => target' = target
      /\ target'.closedIds = target.closedIds \/ target'.closedIds = {}
      /\ target'.lifecycle = target.lifecycle /\ target'.intervals = target.intervals
      /\ target'.baselineAt = target.baselineAt /\ target'.through = target.through
      /\ target'.retiredAt = target.retiredAt /\ target'.openProofs = target.openProofs
  <2>1. CASE target' = target
    BY <1>2, <2>1, TargetFields DEF Keeps
  <2>2. CASE target' = DrainStarted(target)
    BY <1>2, <2>2, DrainStartedSound
  <2>. QED BY <1>1, <2>1, <2>2
<1>. QED BY <1>1, <1>3, <1>4, <1>5, <1>6, <1>7 DEF SameClosed

LEMMA BaseFailClosed ==
  ASSUME Base, FailClosed
  PROVE Base'
<1>1. /\ target' \in Target /\ TargetSound(target', now) /\ Keeps(target, target')
      /\ target'.closedIds = target.closedIds \/ target'.closedIds = {}
      /\ target'.lifecycle = target.lifecycle /\ target'.intervals = target.intervals
      /\ scan' \in Scan /\ scan'.stage = "hydrate" /\ scan'.at = scan.at
      /\ scan.stage = "hydrate"
      /\ scan'.open = scan.open /\ scan'.closed = "off"
      /\ scan'.captured = {} /\ scan'.left = {} /\ scan'.highWater = 0
      /\ UNCHANGED <<now, candidate, source, executor, history>>
  BY FailClosedFacts
<1>2. ScanShape /\ TypeOK /\ Exposure /\ now \in Nat
  BY TypeFacts DEF Base
<1>3. ScanShape'
  BY <1>1, <1>2 DEF ScanShape, Keeps
<1>4. /\ UNCHANGED <<known, observed, managed, handledClose, watched>>
      /\ known' \in [Entries -> {"no", "direct", "event"}] /\ swallowed' \subseteq Trades
      /\ target'.closedIds \subseteq ClosedRows
  BY <1>1, <1>2 DEF executor, history, TypeOK, Exposure
<1>. QED BY <1>1, <1>3, <1>4, BaseRecords

LEMMA CommitClosedFacts ==
  ASSUME Base, scan.rows \subseteq ClosedRows, CommitClosed
  PROVE LET newest == Latest({happened[Closing(t)] : t \in scan.rows}, target.closedThrough) IN
        /\ target' \in Target /\ TargetSound(target', now) /\ Keeps(target, target')
        /\ \/ target' = target
           \/ /\ ClosedHandled /\ target'.closedThrough = newest
              /\ newest \in {happened[Closing(t)] : t \in scan.rows} \cup {target.closedThrough}
              /\ newest \in 0 .. now /\ newest >= target.closedThrough
              /\ target'.closedIds = (IF newest = target.closedThrough THEN target.closedIds ELSE {})
                                         \cup {t \in scan.rows : happened[Closing(t)] = newest}
        /\ target.closedInit /\ target'.closedInit
        /\ target'.closedIds \subseteq ClosedRows
        /\ target'.lifecycle = target.lifecycle /\ target'.intervals = target.intervals
        /\ target'.baselineAt = target.baselineAt /\ target'.through = target.through
        /\ target'.retiredAt = target.retiredAt /\ target'.openProofs = target.openProofs
        /\ scan' \in Scan /\ scan'.stage = "hydrate" /\ scan'.at = scan.at
        /\ scan.stage = "hydrate"
        /\ scan'.open = scan.open /\ scan'.closed = "off" /\ scan'.rows = {}
        /\ ~ scan'.complete
        /\ \/ /\ scan'.captured = scan.captured /\ scan'.left = scan.left
              /\ scan'.highWater = scan.highWater /\ scan'.created = scan.created
           \/ scan'.captured = {} /\ scan'.left = {} /\ scan'.highWater = 0
        /\ UNCHANGED <<now, candidate, source, executor, history>>
<1>. DEFINE newest == Latest({happened[Closing(t)] : t \in scan.rows}, target.closedThrough)
            closes == [t \in scan.rows |-> happened[Closing(t)]]
<1>1. /\ \/ /\ ClosedHandled /\ target' = ClosedCommitted(target, closes, scan.at)
            /\ scan' = [scan EXCEPT !.closed = "off", !.rows = {}, !.complete = FALSE]
         \/ /\ target' = target
            /\ scan' = [Failed EXCEPT !.closed = "off", !.rows = {}, !.complete = FALSE]
      /\ UNCHANGED <<now, candidate, source, executor, history>>
      /\ scan.closed = "read"
  BY DEF CommitClosed
<1>2. /\ now \in Nat \ {0} /\ target \in Target /\ scan \in Scan /\ scan.rows \in SUBSET Trades
      /\ TargetSound(target, now) /\ scan.at \in Nat
      /\ target.closedIds \subseteq ClosedRows
      /\ target.closedInit /\ scan.stage = "hydrate"
  BY <1>1, TypeFacts, ScanFields DEF Base, Exposure, ScanShape
<1>3. CASE /\ target' = target
           /\ scan' = [Failed EXCEPT !.closed = "off", !.rows = {}, !.complete = FALSE]
  <2>1. /\ Failed \in Scan /\ SameClosed(scan, Failed) /\ Failed.open = scan.open
        /\ Failed.captured = {} /\ Failed.left = {} /\ Failed.highWater = 0
    BY <1>2, FailedFacts
  <2>2. scan' \in Scan
    BY <1>3, <2>1 DEF Scan
  <2>3. /\ scan'.closed = "off" /\ scan'.rows = {} /\ scan'.stage = Failed.stage
        /\ scan'.at = Failed.at /\ scan'.open = Failed.open
        /\ scan'.captured = Failed.captured /\ scan'.left = Failed.left
        /\ scan'.highWater = Failed.highWater
    BY <1>3, <2>1 DEF Scan
  <2>4. ~ scan'.complete
    BY <1>3, <2>1 DEF Scan
  <2>5. Keeps(target, target')
    BY <1>2, <1>3, TargetFields DEF Keeps
  <2>. QED BY <1>1, <1>2, <1>3, <2>1, <2>2, <2>3, <2>4, <2>5 DEF SameClosed
<1>4. CASE /\ ClosedHandled /\ target' = ClosedCommitted(target, closes, scan.at)
           /\ scan' = [scan EXCEPT !.closed = "off", !.rows = {}, !.complete = FALSE]
  <2>1. /\ DOMAIN closes = scan.rows /\ DOMAIN closes \subseteq Trades
        /\ \A r \in DOMAIN closes : closes[r] \in 0 .. now
    BY <1>2, TypeFacts, EventFacts DEF Base
  <2>2. Moments(closes) = {happened[Closing(t)] : t \in scan.rows}
    BY DEF Moments
  <2>3. \A t \in scan.rows : closes[t] = happened[Closing(t)]
    OBVIOUS
  <2>. HIDE DEF closes
  <2>. DEFINE top == Latest(Moments(closes), target.closedThrough)
  <2>13. /\ target \in Target /\ now \in Nat \ {0} /\ TargetSound(target, now)
         /\ scan.at \in Nat /\ scan.rows \in SUBSET Trades
    BY <1>2
  <2>14. target' = ClosedCommitted(target, closes, scan.at)
    BY <1>4
  <2>4. /\ target' \in Target /\ TargetSound(target', now) /\ Keeps(target, target')
        /\ target'.lifecycle = target.lifecycle /\ target'.intervals = target.intervals
        /\ target'.baselineAt = target.baselineAt /\ target'.through = target.through
        /\ target'.retiredAt = target.retiredAt /\ target'.openProofs = target.openProofs
        /\ target'.closedInit
    <3>. HIDE DEF newest, top
    <3>. QED BY <2>1, <2>13, <2>14, ClosedCommittedSound
  <2>11. /\ target'.closedThrough = top /\ top \in 0 .. now
         /\ top \in Moments(closes) \/ top = target.closedThrough
         /\ top >= target.closedThrough
    <3>. HIDE DEF newest
    <3>. QED BY <2>1, <2>13, <2>14, ClosedCommittedSound
  <2>12. target'.closedIds = (IF top = target.closedThrough THEN target.closedIds ELSE {})
                                 \cup {r \in scan.rows : closes[r] = top}
    <3>. HIDE DEF newest
    <3>. QED BY <2>1, <2>13, <2>14, ClosedCommittedSound
  <2>5. top = newest
    BY <2>2
  <2>. HIDE DEF top, newest
  <2>6. /\ target'.closedIds = (IF newest = target.closedThrough THEN target.closedIds ELSE {})
                                   \cup {t \in scan.rows : happened[Closing(t)] = newest}
        /\ newest \in {happened[Closing(t)] : t \in scan.rows} \cup {target.closedThrough}
    BY <2>2, <2>3, <2>5, <2>11, <2>12
  <2>7. target'.closedIds \subseteq ClosedRows
    BY <1>2, <2>6
  <2>8. scan' \in Scan
    BY <1>2, <1>4 DEF Scan
  <2>9. /\ scan'.closed = "off" /\ scan'.rows = {} /\ scan'.stage = scan.stage
        /\ scan'.at = scan.at /\ scan'.open = scan.open
        /\ scan'.captured = scan.captured /\ scan'.left = scan.left
        /\ scan'.highWater = scan.highWater /\ scan'.created = scan.created
    BY <1>2, <1>4 DEF Scan
  <2>10. ~ scan'.complete
    BY <1>2, <1>4 DEF Scan
  <2>. QED BY <1>1, <1>2, <1>4, <2>4, <2>5, <2>6, <2>7, <2>8, <2>9, <2>10, <2>11 DEF newest
<1>. QED BY <1>1, <1>3, <1>4

LEMMA BaseCommitClosed ==
  ASSUME Base, scan.rows \subseteq ClosedRows, CommitClosed
  PROVE Base'
<1>1. /\ target' \in Target /\ TargetSound(target', now)
      /\ target'.closedInit
      /\ target'.closedIds \subseteq ClosedRows
      /\ target'.lifecycle = target.lifecycle /\ target'.intervals = target.intervals
      /\ scan' \in Scan /\ scan'.stage = "hydrate" /\ scan'.at = scan.at
      /\ scan.stage = "hydrate"
      /\ scan'.open = scan.open /\ scan'.closed = "off"
      /\ \/ /\ scan'.captured = scan.captured /\ scan'.left = scan.left
            /\ scan'.highWater = scan.highWater
         \/ scan'.captured = {} /\ scan'.left = {} /\ scan'.highWater = 0
      /\ UNCHANGED <<now, candidate, source, executor, history>>
  BY CommitClosedFacts
<1>2. ScanShape /\ TypeOK /\ now \in Nat
  BY TypeFacts DEF Base
<1>3. ScanShape'
  BY <1>1, <1>2 DEF ScanShape
<1>4. /\ UNCHANGED <<known, observed, managed, handledClose, watched>>
      /\ known' \in [Entries -> {"no", "direct", "event"}] /\ swallowed' \subseteq Trades
  BY <1>1, <1>2 DEF executor, history, TypeOK
<1>. QED BY <1>1, <1>3, <1>4, BaseRecords

LEMMA EndHydrationFacts ==
  ASSUME TypeOK, EndHydration
  PROVE /\ \/ scan' = Idle
           \/ /\ scan' \in Scan /\ scan'.stage = "flush" /\ scan'.at = scan.at
              /\ scan.captured # {}
              /\ scan.stage = "hydrate"
              /\ scan'.open = "off" /\ scan'.closed = "off"
              /\ scan'.rows = scan.rows /\ (scan'.complete <=> scan.complete)
              /\ scan'.captured = scan.captured /\ scan'.left = scan.left
              /\ scan'.created = scan.created /\ scan'.highWater = scan.highWater
        /\ UNCHANGED <<now, candidate, source, target, executor, history>>
<1>1. /\ scan.stage = "hydrate" /\ scan.open = "off" /\ scan.closed = "off"
      /\ UNCHANGED <<now, candidate, source, target, executor, history>>
      /\ \/ scan' = Idle
         \/ scan.captured # {} /\ scan' = [scan EXCEPT !.stage = "flush"]
      /\ scan \in Scan
  BY TypeFacts DEF EndHydration
<1>2. CASE scan.captured # {} /\ scan' = [scan EXCEPT !.stage = "flush"]
  <2>1. scan' \in Scan
    BY <1>1, <1>2 DEF Scan
  <2>2. /\ scan'.stage = "flush" /\ scan'.at = scan.at
        /\ scan'.open = scan.open /\ scan'.closed = scan.closed /\ scan'.rows = scan.rows
        /\ scan'.captured = scan.captured /\ scan'.left = scan.left
        /\ scan'.created = scan.created /\ scan'.highWater = scan.highWater
    BY <1>1, <1>2 DEF Scan
  <2>3. scan'.complete <=> scan.complete
    BY <1>1, <1>2 DEF Scan
  <2>. QED BY <1>1, <2>1, <2>2, <2>3
<1>. QED BY <1>1, <1>2

(* An idle scan fits every target. *)
LEMMA IdleShape ==
  ASSUME scan' = Idle, now' \in Nat
  PROVE scan' \in Scan /\ ScanShape'
BY IdleFields DEF ScanShape

LEMMA BaseEndHydration ==
  ASSUME Base, EndHydration
  PROVE Base'
<1>1. /\ TypeOK /\ ScanShape /\ TargetSound(target, now) /\ Exposure
      /\ now \in Nat /\ target \in Target
  BY TypeFacts DEF Base
<1>2. UNCHANGED <<now, candidate, source, target, executor, history>>
  BY DEF EndHydration
<1>3. scan' \in Scan /\ ScanShape'
  <2>1. CASE scan' = Idle
    BY <1>1, <1>2, <2>1, IdleShape
  <2>2. CASE scan' # Idle
    BY <1>1, <1>2, <2>2, EndHydrationFacts DEF ScanShape
  <2>. QED BY <2>1, <2>2
<1>4. /\ UNCHANGED <<known, observed, managed, handledClose, watched>>
      /\ known' \in [Entries -> {"no", "direct", "event"}] /\ swallowed' \subseteq Trades
  BY <1>1, <1>2 DEF executor, history, TypeOK
<1>. QED BY <1>1, <1>2, <1>3, <1>4, BaseRecords DEF Exposure

LEMMA CommitFlushFacts ==
  ASSUME Base, CommitFlush
  PROVE /\ target' \in Target /\ TargetSound(target', now) /\ Keeps(target, target')
        /\ SameRecord(target, target')
        /\ \/ target' = target
           \/ /\ AllTerminal /\ target'.through = Later(target.through, scan.highWater)
              /\ target'.lifecycle = "RETIRING" /\ target'.openProofs > 0 =>
                    scan.at >= RetireAfter(target) /\ ~ OpenedWhileSelected(target, scan.created)
        /\ scan.stage = "flush" /\ scan.left = {} /\ scan' = Idle
        /\ UNCHANGED <<now, candidate, source, executor, history>>
<1>1. /\ scan.stage = "flush" /\ scan.left = {} /\ scan' = Idle
      /\ target' = IF AllTerminal THEN FlushedTarget ELSE target
      /\ UNCHANGED <<now, candidate, source, executor, history>>
  BY DEF CommitFlush
<1>2. /\ target \in Target /\ TargetSound(target, now) /\ now \in Nat \ {0}
      /\ scan.highWater \in 0 .. now /\ scan.at \in Nat
  BY TypeFacts, ScanFields DEF Base, ScanShape
<1>3. CASE target' = target
  BY <1>1, <1>2, <1>3, TargetFields DEF Keeps, SameRecord
<1>4. CASE AllTerminal /\ target' = FlushedTarget
  <2>. DEFINE committed == OpenCommitted(target, scan.highWater)
  <2>1. /\ committed \in Target /\ TargetSound(committed, now) /\ Keeps(target, committed)
        /\ committed.lifecycle = target.lifecycle /\ committed.baselineAt = target.baselineAt
        /\ committed.intervals = target.intervals /\ committed.retiredAt = target.retiredAt
        /\ committed.through = Later(target.through, scan.highWater)
        /\ target.closedInit <=> committed.closedInit
        /\ committed.closedThrough = target.closedThrough
        /\ committed.closedIds = target.closedIds
    BY <1>2, OpenCommittedSound
  <2>2. CASE target.lifecycle = "RETIRING"
    <3>1. target' = RetirementPolled(OpenCommitted(target, scan.highWater), scan.created, scan.at)
      BY <1>4, <2>2 DEF FlushedTarget
    <3>. QED BY <1>1, <1>2, <1>4, <3>1, PolledSound
  <2>3. CASE target.lifecycle # "RETIRING"
    <3>1. target' = committed
      BY <1>4, <2>3 DEF FlushedTarget
    <3>. HIDE DEF committed
    <3>. QED BY <1>1, <1>4, <2>1, <2>3, <3>1 DEF SameRecord
  <2>. QED BY <2>2, <2>3
<1>. QED BY <1>1, <1>3, <1>4

LEMMA BaseCommitFlush ==
  ASSUME Base, CommitFlush
  PROVE Base'
<1>1. /\ target' \in Target /\ TargetSound(target', now) /\ SameRecord(target, target')
      /\ scan' = Idle
      /\ UNCHANGED <<now, candidate, source, executor, history>>
  BY CommitFlushFacts
<1>2. TypeOK /\ Exposure /\ now \in Nat
  BY TypeFacts DEF Base
<1>3. scan' \in Scan /\ ScanShape'
  BY <1>1, <1>2, IdleShape
<1>4. /\ UNCHANGED <<known, observed, managed, handledClose, watched>>
      /\ known' \in [Entries -> {"no", "direct", "event"}] /\ swallowed' \subseteq Trades
      /\ target'.closedIds \subseteq ClosedRows
  BY <1>1, <1>2 DEF executor, history, TypeOK, Exposure, SameRecord
<1>. QED BY <1>1, <1>3, <1>4, BaseRecords

LEMMA CrashFacts ==
  ASSUME Base, Crash
  PROVE /\ target' \in Target /\ TargetSound(target', now) /\ SameCursor(target, target')
        /\ target.lifecycle \in Resident => target'.lifecycle \in Resident
        /\ target'.lifecycle \in {target.lifecycle, "ENROLLING"}
        /\ target'.lifecycle \in {"RETIRING", "TOMBSTONE"} => target' = target
        /\ scan' = Idle
        /\ UNCHANGED <<now, candidate, source, executor, history>>
<1>1. target \in Target /\ TargetSound(target, now) /\ now \in Nat \ {0}
  BY TypeFacts DEF Base
<1>2. CASE target' = target
  BY <1>1, <1>2 DEF Crash, SameCursor
<1>3. CASE target' = Migrated(target)
  BY <1>1, <1>3, MigratedSound DEF Crash
<1>. QED BY <1>2, <1>3 DEF Crash

LEMMA BaseCrash ==
  ASSUME Base, Crash
  PROVE Base'
<1>1. /\ target' \in Target /\ TargetSound(target', now) /\ SameCursor(target, target')
      /\ scan' = Idle
      /\ UNCHANGED <<now, candidate, source, executor, history>>
  BY CrashFacts
<1>2. TypeOK /\ Exposure /\ now \in Nat
  BY TypeFacts DEF Base
<1>3. scan' \in Scan /\ ScanShape'
  BY <1>1, <1>2, IdleShape
<1>4. /\ UNCHANGED <<known, observed, managed, handledClose, watched>>
      /\ known' \in [Entries -> {"no", "direct", "event"}] /\ swallowed' \subseteq Trades
      /\ target'.closedIds \subseteq ClosedRows
  BY <1>1, <1>2 DEF executor, history, TypeOK, Exposure, SameCursor
<1>. QED BY <1>1, <1>3, <1>4, BaseRecords

-----------------------------------------------------------------------------
(* The CLOSED rows read by a scan. *)

Sound == Base /\ RowsAreOldest

LEMMA SameRows ==
  ASSUME RowsAreOldest, happened' = happened, scan'.rows = scan.rows,
         scan'.complete <=> scan.complete
  PROVE RowsAreOldest'
BY DEF RowsAreOldest, ClosedRows, Has

LEMMA NoRows ==
  ASSUME scan'.rows = {}
  PROVE RowsAreOldest'
BY DEF RowsAreOldest

LEMMA RowsHappen ==
  ASSUME Base, RowsAreOldest, NEW e \in Events, Happen(e)
  PROVE RowsAreOldest'
<1>1. /\ happened'[e] = now /\ \A f \in Events : f # e => happened'[f] = happened[f]
      /\ ClosedRows \subseteq ClosedRows' /\ \A t \in ClosedRows' \ ClosedRows : e = Closing(t)
      /\ scan' = scan
  BY HappenFacts DEF Base
<1>2. /\ \A f \in Events : happened[f] \in 0 .. now
      /\ ClosedRows \subseteq Trades /\ now \in Nat
  BY TypeFacts DEF Base
<1>3. ClosedRows' \subseteq Trades
  BY DEF ClosedRows
<1>4. \A t \in ClosedRows : happened'[Closing(t)] = happened[Closing(t)]
  BY <1>1, <1>2, EventFacts DEF ClosedRows, Has, Happen
<1>5. \A t \in ClosedRows' \ ClosedRows : happened'[Closing(t)] = now
  BY <1>1
<1>6. ASSUME scan.complete, NEW r \in scan.rows, NEW t \in ClosedRows' \ scan.rows
      PROVE happened'[Closing(r)] <= happened'[Closing(t)]
  <2>1. r \in ClosedRows /\ happened'[Closing(r)] \in 0 .. now
    BY <1>2, <1>4, EventFacts DEF RowsAreOldest
  <2>2. CASE t \in ClosedRows
    BY <1>4, <1>6, <2>1, <2>2 DEF RowsAreOldest
  <2>3. CASE t \notin ClosedRows
    BY <1>2, <1>5, <2>1, <2>3
  <2>. QED BY <2>2, <2>3
<1>. QED BY <1>1, <1>6 DEF RowsAreOldest

LEMMA SoundInit == Init => Sound
<1>1. Init => RowsAreOldest
  BY IdleFields DEF Init, RowsAreOldest
<1>. QED BY <1>1, BaseInit DEF Sound

(* One case for each disjunct of Next. *)
LEMMA SoundNext ==
  ASSUME Sound, [Next]_vars
  PROVE Sound'
<1>. USE DEF Sound
<1>1. TypeOK
  BY DEF Base
<1>2. CASE Tick
  BY <1>2, BaseTick, SameRows DEF Tick, source
<1>3. ASSUME NEW e \in Events, Happen(e) PROVE Sound'
  BY <1>3, BaseHappen, RowsHappen
<1>4. ASSUME NEW e \in Entries, FeedEntry(e) PROVE Sound'
  BY <1>4, BaseFeedEntry, SameRows DEF FeedEntry, source
<1>5. ASSUME NEW t \in Trades, FeedClose(t) PROVE Sound'
  BY <1>5, BaseFeedClose, SameRows DEF FeedClose, source
<1>6. CASE Begin
  <2>1. PICK stale \in BOOLEAN, verdict \in Verdicts, dropped \in BOOLEAN,
             open \in {"off", "due"}, closed \in {"off", "due"} :
                BeginScan(stale, verdict, dropped, open, closed)
    BY <1>6 DEF Begin
  <2>2. scan'.rows = {}
    BY <1>1, <2>1, BeginScanFacts DEF Base
  <2>. QED BY <1>6, <2>2, BaseBegin, NoRows
<1>7. CASE HydrateBaseline
  BY <1>7, BaseHydrateBaseline, HydrateBaselineFacts, SameRows DEF SameClosed, source
<1>8. CASE HydrateOpen
  <2>1. SameClosed(scan, scan') /\ UNCHANGED source
    BY <1>8, HydrateOpenFacts
  <2>. QED BY <1>8, <2>1, BaseHydrateOpen, SameRows DEF SameClosed, source
<1>9. CASE HydrateRetiring
  <2>1. SameClosed(scan, scan') /\ UNCHANGED source
    BY <1>9, HydrateRetiringFacts
  <2>. QED BY <1>9, <2>1, BaseHydrateRetiring, SameRows DEF SameClosed, source
<1>10. CASE FailOpen
  BY <1>10, BaseFailOpen, FailOpenFacts, SameRows DEF SameClosed, source
<1>11. CASE BaselineClosed
  BY <1>11, BaseBaselineClosed, BaselineClosedFacts, SameRows DEF source
<1>12. ASSUME NEW rows \in SUBSET ClosedRows, NEW unready \in SUBSET ClosedRows,
              ReadClosed(rows, unready)
       PROVE Sound'
  <2>1. /\ scan'.rows \in {{}, rows} /\ (scan'.complete => scan'.rows = ClosedRows)
        /\ UNCHANGED source
    BY <1>12, ReadClosedFacts
  <2>2. ClosedRows' = ClosedRows
    BY <2>1 DEF ClosedRows, Has, source
  <2>3. RowsAreOldest'
    BY <2>1, <2>2 DEF RowsAreOldest
  <2>. QED BY <1>12, <2>3, BaseReadClosed
<1>13. CASE FailClosed
  BY <1>13, BaseFailClosed, FailClosedFacts, SameRows DEF source
<1>14. CASE CommitClosed
  <2>1. scan.rows \subseteq ClosedRows
    BY DEF RowsAreOldest
  <2>2. scan'.rows = {}
    BY <1>14, <2>1, CommitClosedFacts
  <2>. QED BY <1>14, <2>1, <2>2, BaseCommitClosed, NoRows
<1>15. ASSUME NEW t \in Trades, ExecuteClosed(t) PROVE Sound'
  BY <1>1, <1>15, BaseExecuteClosed, ExecuteClosedFacts, SameRows DEF source
<1>16. CASE EndHydration
  <2>1. CASE scan' = Idle
    BY <1>16, <2>1, BaseEndHydration, NoRows, IdleFields
  <2>2. CASE scan' # Idle
    BY <1>1, <1>16, <2>2, BaseEndHydration, EndHydrationFacts, SameRows DEF source
  <2>. QED BY <2>1, <2>2
<1>17. ASSUME NEW e \in Entries, Flush(e) PROVE Sound'
  <2>1. SameClosed(scan, scan') /\ UNCHANGED source
    BY <1>17, FlushFacts DEF Base
  <2>. QED BY <1>17, <2>1, BaseFlush, SameRows DEF SameClosed, source
<1>18. CASE CommitFlush
  BY <1>18, BaseCommitFlush, CommitFlushFacts, NoRows, IdleFields
<1>19. CASE Crash
  BY <1>19, BaseCrash, CrashFacts, NoRows, IdleFields
<1>20. CASE UNCHANGED vars
  <2>1. Base'
    <3>1. TypeOK' /\ TargetSound(target, now)' /\ ScanShape'
      BY <1>20 DEF vars, source, executor, history, Base, TypeOK, TargetSound, Staged, Admissions,
                   Past, Clocked, ScanShape
    <3>2. SourceOrder' /\ Exposure'
      BY <1>20 DEF vars, source, executor, history, Base, SourceOrder, Exposure, Has, ClosedRows
    <3>. QED BY <3>1, <3>2 DEF Base
  <2>. QED BY <1>20, <2>1, SameRows DEF vars, source
<1>. QED BY <1>2, <1>3, <1>4, <1>5, <1>6, <1>7, <1>8, <1>9, <1>10, <1>11, <1>12, <1>13, <1>14,
            <1>15, <1>16, <1>17, <1>18, <1>19, <1>20 DEF Next, Hydrate

-----------------------------------------------------------------------------
(* Owned closes. *)

LEMMA ReadableSame ==
  ASSUME OwnedCloseStillReadable, happened' = happened,
         watched' \cap managed' \subseteq watched \cap managed,
         watched' \cap managed' # {} => target'.lifecycle \in Resident,
         target'.closedInit <=> target.closedInit,
         target'.closedThrough = target.closedThrough, target'.closedIds = target.closedIds
  PROVE OwnedCloseStillReadable'
BY DEF OwnedCloseStillReadable, Watching, FreshClose, Has

(* What is entered by a step whose records stand still is not closed yet. *)
LEMMA ReadableEntered ==
  ASSUME OwnedCloseStillReadable, UNCHANGED <<target, source>>,
         managed' \cap watched \subseteq managed,
         \A t \in watched' \ watched : Watching /\ t \in OpenRows
  PROVE OwnedCloseStillReadable'
BY DEF OwnedCloseStillReadable, Watching, FreshClose, Has, OpenRows, source

LEMMA ReadableHappen ==
  ASSUME Sound, OwnedCloseStillReadable, NEW e \in Events, Happen(e)
  PROVE OwnedCloseStillReadable'
<1>1. /\ happened'[e] = now /\ \A f \in Events : f # e => happened'[f] = happened[f]
      /\ UNCHANGED <<target, executor, history>>
      /\ ~ Has(e)
  BY HappenFacts DEF Sound, Base, Happen
<1>2. /\ now \in Nat /\ target.closedThrough \in Nat /\ target.closedThrough <= now
      /\ target.closedIds \subseteq ClosedRows
      /\ watched \subseteq Trades
  BY TypeFacts, TargetFields DEF Sound, Base, TargetSound, Clocked, Exposure, TypeOK
<1>. SUFFICES ASSUME NEW t \in watched \cap managed, Has(Closing(t))'
              PROVE FreshClose(target, t, happened'[Closing(t)])
  BY <1>1 DEF OwnedCloseStillReadable, Watching, FreshClose, executor, history, Has
<1>3. CASE e = Closing(t)
  <2>1. t \notin target.closedIds
    BY <1>1, <1>2, <1>3 DEF ClosedRows
  <2>. QED BY <1>1, <1>2, <1>3, <2>1 DEF FreshClose
<1>4. CASE e # Closing(t)
  BY <1>1, <1>2, <1>4, EventFacts DEF OwnedCloseStillReadable, Has
<1>. QED BY <1>3, <1>4

LEMMA ReadableCommit ==
  ASSUME Sound, OwnedCloseStillReadable, CommitClosed
  PROVE OwnedCloseStillReadable'
<1>. DEFINE newest == Latest({happened[Closing(t)] : t \in scan.rows}, target.closedThrough)
<1>1. /\ target' = target \/
           /\ ClosedHandled /\ target'.closedThrough = newest
           /\ newest \in {happened[Closing(t)] : t \in scan.rows} \cup {target.closedThrough}
           /\ newest \in 0 .. now /\ newest >= target.closedThrough
           /\ target'.closedIds = (IF newest = target.closedThrough THEN target.closedIds ELSE {})
                                      \cup {t \in scan.rows : happened[Closing(t)] = newest}
      /\ target.closedInit /\ target'.closedInit
      /\ target'.lifecycle = target.lifecycle
      /\ UNCHANGED <<source, executor, history>>
  BY CommitClosedFacts DEF Sound, RowsAreOldest
<1>. HIDE DEF newest
<1>2. CASE target' = target
  BY <1>1, <1>2, ReadableSame DEF OwnedCloseStillReadable, Watching, source, executor, history
<1>3. CASE target' # target
  <2>1. /\ scan.rows \subseteq ClosedRows /\ scan.complete
        /\ \A r \in scan.rows, t \in ClosedRows \ scan.rows :
              happened[Closing(r)] <= happened[Closing(t)]
        /\ \A t \in scan.rows : FreshClose(target, t, happened[Closing(t)]) => t \in handledClose
    BY <1>1, <1>3 DEF Sound, RowsAreOldest, ClosedHandled
  <2>2. target.closedThrough \in Nat /\ ClosedRows \subseteq Trades /\ watched \subseteq Trades
    BY TypeFacts, TargetFields DEF Sound, Base, TypeOK
  <2>3. ASSUME NEW t \in watched \cap managed, Has(Closing(t))
        PROVE FreshClose(target', t, happened[Closing(t)])
    <3>1. FreshClose(target, t, happened[Closing(t)])
      BY <2>3 DEF OwnedCloseStillReadable
    <3>2. t \notin scan.rows /\ t \in ClosedRows
      BY <2>1, <2>2, <2>3, <3>1 DEF Sound, Base, Exposure, ClosedRows
    <3>3. happened[Closing(t)] \in Nat
      BY <2>2, <3>2, TypeFacts, EventFacts DEF Sound, Base
    <3>4. CASE newest = target.closedThrough
      BY <1>1, <1>3, <3>1, <3>2, <3>4 DEF FreshClose
    <3>5. CASE newest # target.closedThrough
      <4>1. PICK r \in scan.rows : newest = happened[Closing(r)]
        BY <1>1, <1>3, <3>5
      <4>2. newest <= happened[Closing(t)]
        BY <2>1, <3>2, <4>1
      <4>3. t \notin target'.closedIds
        BY <1>1, <1>3, <3>2, <3>5
      <4>. QED BY <1>1, <1>3, <3>3, <4>2, <4>3 DEF FreshClose
    <3>. QED BY <3>4, <3>5
  <2>. QED BY <1>1, <2>3 DEF OwnedCloseStillReadable, Watching, source, executor, history, Has
<1>. QED BY <1>2, <1>3

LEMMA ReadableNext ==
  ASSUME Sound, OwnedCloseStillReadable, [Next]_vars
  PROVE OwnedCloseStillReadable'
<1>1. Base /\ TypeOK /\ Exposure /\ TargetSound(target, now) /\ watched \subseteq managed
  BY DEF Sound, Base, TypeOK
<1>2. watched \cap managed # {} => target.lifecycle \in Resident /\ target.closedInit /\ Owned
  BY DEF OwnedCloseStillReadable, Watching, Owned
<1>3. CASE Tick
  BY <1>2, <1>3, ReadableSame DEF Tick, source, executor, history
<1>4. ASSUME NEW e \in Events, Happen(e) PROVE OwnedCloseStillReadable'
  BY <1>4, ReadableHappen
<1>5. ASSUME NEW e \in Entries, FeedEntry(e) PROVE OwnedCloseStillReadable'
  <2>1. /\ watched \subseteq managed
        /\ \A t \in watched' \ watched : Watching /\ t \in OpenRows
    BY <1>1, <1>5, ExecuteFacts DEF FeedEntry
  <2>. QED BY <1>5, <2>1, ReadableEntered DEF FeedEntry
<1>6. ASSUME NEW t \in Trades, FeedClose(t) PROVE OwnedCloseStillReadable'
  <2>1. watched' \subseteq watched /\ managed' \subseteq managed
    BY <1>1, <1>6, ExecuteCloseFacts DEF FeedClose
  <2>. QED BY <1>2, <1>6, <2>1, ReadableSame DEF FeedClose, source
<1>7. CASE Begin
  <2>1. PICK stale \in BOOLEAN, verdict \in Verdicts, dropped \in BOOLEAN,
             open \in {"off", "due"}, closed \in {"off", "due"} :
                BeginScan(stale, verdict, dropped, open, closed)
    BY <1>7 DEF Begin
  <2>2. /\ target.lifecycle \in Resident => SameCursor(target, target')
        /\ target.lifecycle \in Resident /\ Owned => target'.lifecycle \in Resident
        /\ UNCHANGED <<source, executor, watched>>
    BY <1>1, <2>1, BeginScanFacts
  <2>3. CASE watched \cap managed = {}
    BY <2>2, <2>3 DEF OwnedCloseStillReadable, executor
  <2>4. CASE watched \cap managed # {}
    BY <1>2, <2>2, <2>4, ReadableSame DEF SameCursor, source, executor
  <2>. QED BY <2>3, <2>4
<1>8. CASE HydrateBaseline
  BY <1>1, <1>2, <1>8, HydrateBaselineFacts, ReadableSame DEF source, executor, Resident
<1>9. CASE HydrateOpen
  <2>1. target' = target /\ UNCHANGED <<source, executor, history>>
    BY <1>9 DEF HydrateOpen
  <2>. QED BY <1>2, <2>1, ReadableSame DEF source, executor, history
<1>10. CASE HydrateRetiring
  <2>1. SameRecord(target, target') /\ UNCHANGED <<source, managed, history>>
    BY <1>1, <1>10, HydrateRetiringFacts
  <2>. QED BY <1>2, <2>1, ReadableSame DEF SameRecord, source, history
<1>11. CASE FailOpen
  BY <1>2, <1>11, ReadableSame DEF FailOpen, source, history
<1>12. CASE BaselineClosed
  <2>1. ~ target.closedInit /\ UNCHANGED <<executor, history>>
    BY <1>12 DEF BaselineClosed
  <2>. QED BY <1>2, <2>1 DEF OwnedCloseStillReadable, executor, history
<1>13. ASSUME NEW rows \in SUBSET ClosedRows, NEW unready \in SUBSET ClosedRows,
              ReadClosed(rows, unready)
       PROVE OwnedCloseStillReadable'
  <2>1. (target.closedInit => target' = target) /\ UNCHANGED <<source, executor, history>>
    BY <1>1, <1>13, ReadClosedFacts
  <2>2. CASE target.closedInit
    BY <1>2, <2>1, <2>2, ReadableSame DEF source, executor, history
  <2>3. CASE ~ target.closedInit
    BY <1>2, <2>1, <2>3 DEF OwnedCloseStillReadable, executor, history
  <2>. QED BY <2>2, <2>3
<1>14. CASE FailClosed
  <2>1. (target.closedInit => target' = target) /\ UNCHANGED <<source, executor, history>>
    BY <1>1, <1>14, FailClosedFacts
  <2>2. CASE target.closedInit
    BY <1>2, <2>1, <2>2, ReadableSame DEF source, executor, history
  <2>3. CASE ~ target.closedInit
    BY <1>2, <2>1, <2>3 DEF OwnedCloseStillReadable, executor, history
  <2>. QED BY <2>2, <2>3
<1>15. CASE CommitClosed
  BY <1>15, ReadableCommit
<1>16. ASSUME NEW t \in Trades, ExecuteClosed(t) PROVE OwnedCloseStillReadable'
  <2>1. /\ watched' \subseteq watched /\ managed' \subseteq managed
        /\ UNCHANGED <<source, target>>
    BY <1>1, <1>16, ExecuteCloseFacts DEF ExecuteClosed
  <2>. QED BY <1>2, <2>1, ReadableSame DEF source
<1>17. CASE EndHydration
  BY <1>2, <1>17, ReadableSame DEF EndHydration, source, executor, history
<1>18. ASSUME NEW e \in Entries, Flush(e) PROVE OwnedCloseStillReadable'
  <2>1. \A t \in watched' \ watched : Watching /\ t \in OpenRows
    BY <1>1, <1>18, FlushFacts
  <2>. QED BY <1>1, <1>18, <2>1, ReadableEntered DEF Flush
<1>19. CASE CommitFlush
  <2>1. SameRecord(target, target') /\ UNCHANGED <<source, executor, history>>
    BY <1>1, <1>19, CommitFlushFacts
  <2>. QED BY <1>2, <2>1, ReadableSame DEF SameRecord, source, executor, history
<1>20. CASE Crash
  <2>1. /\ SameCursor(target, target') /\ UNCHANGED <<source, executor, history>>
        /\ target.lifecycle \in Resident => target'.lifecycle \in Resident
    BY <1>1, <1>20, CrashFacts
  <2>. QED BY <1>2, <2>1, ReadableSame DEF SameCursor, source, executor, history
<1>21. CASE UNCHANGED vars
  BY <1>2, <1>21, ReadableSame DEF vars, source, executor, history
<1>. QED BY <1>3, <1>4, <1>5, <1>6, <1>7, <1>8, <1>9, <1>10, <1>11, <1>12, <1>13, <1>14,
            <1>15, <1>16, <1>17, <1>18, <1>19, <1>20, <1>21 DEF Next, Hydrate

-----------------------------------------------------------------------------
(* What a commit of OPEN passes. *)

(* Signals only become seen, trades only become observed, closes only handled. *)
Grows ==
    /\ \A e \in Entries : SeenDirect(e) => SeenDirect(e)'
    /\ observed \subseteq observed' /\ handledClose \subseteq handledClose'

LEMMA GrowsSame ==
  ASSUME UNCHANGED executor
  PROVE Grows
BY DEF Grows, SeenDirect, executor

(* A step that leaves what was captured, or drops it. *)
LEMMA CoversSame ==
  ASSUME Base, CaptureCovers, Grows, happened' = happened,
         \/ scan'.captured = {}
         \/ /\ scan'.captured = scan.captured /\ scan'.highWater = scan.highWater
            /\ target'.through = target.through /\ target'.lifecycle = target.lifecycle
  PROVE CaptureCovers'
<1>1. OpenRows' = OpenRows /\ OpenRows \subseteq Trades
  BY TypeFacts DEF OpenRows, Has, Base
<1>2. CASE scan'.captured = {}
  BY <1>2 DEF CaptureCovers
<1>3. CASE /\ scan'.captured = scan.captured /\ scan'.highWater = scan.highWater
           /\ target'.through = target.through /\ target'.lifecycle = target.lifecycle
  <2>. SUFFICES ASSUME NEW t \in OpenRows \ handledClose', scan.captured # {},
                       NEW e \in {Opening(t), Raising(t)},
                       target.through < happened[e], happened[e] < scan.highWater
                PROVE \/ e \in scan.captured \/ SeenDirect(e)'
                      \/ target.lifecycle = "RETIRING" /\ (e = Opening(t) => t \in observed')
                      \/ e = Raising(t) /\ happened[Opening(t)] > target.through
    BY <1>1, <1>3, EventFacts DEF CaptureCovers
  <2>1. t \in OpenRows \ handledClose /\ Opening(t) \in Entries /\ Raising(t) \in Entries
    BY <1>1, EventFacts DEF Grows
  <2>2. CASE e = Opening(t)
    BY <2>1, <2>2 DEF CaptureCovers, Grows
  <2>3. CASE e = Raising(t)
    BY <1>1, <2>1, <2>3, EventFacts DEF CaptureCovers, Grows
  <2>. QED BY <2>2, <2>3
<1>. QED BY <1>2, <1>3

LEMMA CoversHappen ==
  ASSUME Base, CaptureCovers, NEW e \in Events, Happen(e)
  PROVE CaptureCovers'
<1>1. /\ happened'[e] = now /\ \A f \in Events : f # e => happened'[f] = happened[f]
      /\ UNCHANGED <<target, scan, executor>>
      /\ \A t \in OpenRows' \ OpenRows : e = Opening(t)
  BY HappenFacts DEF Base
<1>2. now \in Nat /\ scan.highWater <= now /\ scan.highWater \in Nat
  BY TypeFacts, ScanFields DEF Base, ScanShape
<1>3. /\ \A f \in Entries : SeenDirect(f)' <=> SeenDirect(f)
      /\ observed' = observed /\ handledClose' = handledClose
  BY <1>1 DEF SeenDirect, executor
<1>0. OpenRows' \subseteq Trades
  BY DEF OpenRows
<1>. SUFFICES ASSUME NEW t \in OpenRows' \ handledClose, scan.captured # {},
                     NEW f \in {Opening(t), Raising(t)},
                     target.through < happened'[f], happened'[f] < scan.highWater
              PROVE \/ f \in scan.captured \/ SeenDirect(f)'
                    \/ target.lifecycle = "RETIRING" /\ (f = Opening(t) => t \in observed)
                    \/ f = Raising(t) /\ happened'[Opening(t)] > target.through
  <2>. SUFFICES ASSUME NEW t \in OpenRows' \ handledClose, scan.captured # {}
                PROVE /\ target.through < happened'[Opening(t)]
                         /\ happened'[Opening(t)] < scan.highWater =>
                            \/ Opening(t) \in scan.captured \/ SeenDirect(Opening(t))'
                            \/ target.lifecycle = "RETIRING" /\ t \in observed
                      /\ target.through < happened'[Raising(t)]
                         /\ happened'[Raising(t)] < scan.highWater =>
                            \/ Raising(t) \in scan.captured \/ SeenDirect(Raising(t))'
                            \/ happened'[Opening(t)] > target.through
                            \/ target.lifecycle = "RETIRING"
    BY <1>1, <1>3 DEF CaptureCovers
  <2>1. Opening(t) # Raising(t)
    BY <1>0, EventFacts
  <2>. QED BY <2>1
<1>4. t \in Trades
  BY DEF OpenRows
<1>5. f # e /\ happened'[f] = happened[f]
  BY <1>1, <1>2, <1>4, EventFacts
<1>6. CASE t \in OpenRows
  <2>1. e # Opening(t)
    BY <1>6 DEF Happen, OpenRows
  <2>2. happened'[Opening(t)] = happened[Opening(t)]
    BY <1>1, <1>4, <2>1, EventFacts
  <2>3. CASE f = Opening(t)
    BY <1>3, <1>4, <1>5, <1>6, <2>3, EventFacts DEF CaptureCovers
  <2>4. CASE f = Raising(t)
    BY <1>3, <1>4, <1>5, <1>6, <2>2, <2>4, EventFacts DEF CaptureCovers
  <2>. QED BY <2>3, <2>4
<1>7. CASE t \notin OpenRows
  <2>1. e = Opening(t)
    BY <1>1, <1>7
  <2>2. f = Raising(t)
    BY <1>5, <2>1
  <2>3. happened[Raising(t)] # 0
    BY <1>5, <2>2, TypeFacts, TargetFields DEF Base
  <2>4. Has(Opening(t))
    BY <1>4, <2>3 DEF Base, SourceOrder, Has
  <2>. QED BY <2>1, <2>4 DEF Happen
<1>. QED BY <1>6, <1>7

LEMMA CoversOpen ==
  ASSUME Base, HydrateOpen
  PROVE CaptureCovers'
<1>. DEFINE signals == OpenSignals(target.through)
<1>1. /\ target' = target
      /\ scan'.captured = {} \/ scan'.captured = signals
      /\ UNCHANGED <<source, executor>>
  BY HydrateOpenFacts
<1>2. /\ target.through \in Nat /\ OpenRows \subseteq Trades
      /\ \A e \in Events : happened[e] \in Nat
  BY TypeFacts, TargetFields DEF Base
<1>3. OpenRows' = OpenRows /\ happened' = happened
  BY <1>1 DEF OpenRows, Has, source
<1>4. ASSUME NEW t \in OpenRows, target.through < happened[Opening(t)]
      PROVE Opening(t) \in signals
  BY <1>4 DEF OpenSignals
<1>5. ASSUME NEW t \in OpenRows, target.through < happened[Raising(t)],
             ~ (happened[Opening(t)] > target.through)
      PROVE Raising(t) \in signals
  BY <1>2, <1>5, EventFacts DEF OpenSignals, Has
<1>. HIDE DEF signals
<1>. QED BY <1>1, <1>3, <1>4, <1>5 DEF CaptureCovers

LEMMA CoversRetiring ==
  ASSUME Base, HydrateRetiring
  PROVE CaptureCovers'
<1>1. /\ target.lifecycle = "RETIRING" /\ SameRecord(target, target')
      /\ scan'.captured = {} \/ scan'.captured = RetiringExecuted
      /\ \A e \in Entries : SeenDirect(e) => SeenDirect(e)'
      /\ \A e \in RetiringIgnored : SeenDirect(e)'
      /\ UNCHANGED <<source, observed, managed, handledClose>>
  BY HydrateRetiringFacts
<1>2. OpenRows' = OpenRows /\ happened' = happened /\ OpenRows \subseteq Trades
  BY <1>1, TypeFacts DEF OpenRows, Has, source, Base
<1>3. ASSUME NEW t \in OpenRows \ handledClose
      PROVE Opening(t) \in RetiringExecuted \/ SeenDirect(Opening(t))' \/ t \in observed
  <2>1. Opening(t) \in Entries
    BY <1>2, EventFacts
  <2>2. CASE SeenDirect(Opening(t))
    BY <1>1, <2>1, <2>2
  <2>3. CASE ~ SeenDirect(Opening(t)) /\ t \notin PreDemotion
    BY <1>1, <2>3 DEF RetiringIgnored
  <2>4. CASE ~ SeenDirect(Opening(t)) /\ t \in PreDemotion
    BY <2>4 DEF RetiringExecuted, Base, Exposure
  <2>. QED BY <2>2, <2>3, <2>4
<1>4. target'.lifecycle = "RETIRING"
  BY <1>1 DEF SameRecord
<1>5. ASSUME NEW t \in OpenRows' \ handledClose', scan'.captured # {}
      PROVE \/ Opening(t) \in scan'.captured \/ SeenDirect(Opening(t))'
            \/ target'.lifecycle = "RETIRING" /\ t \in observed'
  BY <1>1, <1>2, <1>3, <1>4, <1>5
<1>. SUFFICES ASSUME NEW t \in OpenRows' \ handledClose', scan'.captured # {},
                     NEW e \in {Opening(t), Raising(t)}
              PROVE \/ e \in scan'.captured \/ SeenDirect(e)'
                    \/ target'.lifecycle = "RETIRING" /\ (e = Opening(t) => t \in observed')
  BY <1>4, EventFacts, <1>2 DEF CaptureCovers
<1>6. CASE e = Opening(t)
  BY <1>5, <1>6
<1>7. CASE e = Raising(t)
  BY <1>2, <1>4, <1>7, EventFacts
<1>. QED BY <1>6, <1>7

LEMMA CoversNext ==
  ASSUME Sound, CaptureCovers, [Next]_vars
  PROVE CaptureCovers'
<1>1. Base /\ TypeOK /\ Exposure /\ TargetSound(target, now)
  BY DEF Sound, Base
<1>2. CASE Tick
  BY <1>1, <1>2, CoversSame, GrowsSame DEF Tick, source
<1>3. ASSUME NEW e \in Events, Happen(e) PROVE CaptureCovers'
  BY <1>1, <1>3, CoversHappen
<1>4. ASSUME NEW e \in Entries, FeedEntry(e) PROVE CaptureCovers'
  <2>1. Grows
    BY <1>1, <1>4, ExecuteFacts DEF FeedEntry, Grows
  <2>. QED BY <1>1, <1>4, <2>1, CoversSame DEF FeedEntry, source
<1>5. ASSUME NEW t \in Trades, FeedClose(t) PROVE CaptureCovers'
  <2>1. Grows
    BY <1>1, <1>5, ExecuteCloseFacts DEF FeedClose, Grows, SeenDirect
  <2>. QED BY <1>1, <1>5, <2>1, CoversSame DEF FeedClose, source
<1>6. CASE Begin
  <2>1. PICK stale \in BOOLEAN, verdict \in Verdicts, dropped \in BOOLEAN,
             open \in {"off", "due"}, closed \in {"off", "due"} :
                BeginScan(stale, verdict, dropped, open, closed)
    BY <1>6 DEF Begin
  <2>2. scan'.captured = {} /\ UNCHANGED <<source, executor>>
    BY <1>1, <2>1, BeginScanFacts
  <2>. QED BY <1>1, <2>2, CoversSame, GrowsSame DEF source
<1>7. CASE HydrateBaseline
  BY <1>1, <1>7, HydrateBaselineFacts, CoversSame, GrowsSame DEF source
<1>8. CASE HydrateOpen
  BY <1>1, <1>8, CoversOpen
<1>9. CASE HydrateRetiring
  BY <1>1, <1>9, CoversRetiring
<1>10. CASE FailOpen
  <2>1. /\ scan'.captured = {} /\ \A e \in Entries : SeenDirect(e) => SeenDirect(e)'
        /\ UNCHANGED <<source, observed, handledClose>>
    BY <1>1, <1>10, FailOpenFacts
  <2>. QED BY <1>1, <2>1, CoversSame DEF source, Grows
<1>11. CASE BaselineClosed
  <2>1. /\ target'.through = target.through /\ target'.lifecycle = target.lifecycle
        /\ SameOpen(scan, scan') /\ UNCHANGED <<source, executor>>
    BY <1>1, <1>11, BaselineClosedFacts
  <2>. QED BY <1>1, <2>1, CoversSame, GrowsSame DEF source, SameOpen
<1>12. ASSUME NEW rows \in SUBSET ClosedRows, NEW unready \in SUBSET ClosedRows,
              ReadClosed(rows, unready)
       PROVE CaptureCovers'
  <2>1. /\ target'.through = target.through /\ target'.lifecycle = target.lifecycle
        /\ SameOpen(scan, scan') /\ UNCHANGED <<source, executor>>
    BY <1>1, <1>12, ReadClosedFacts
  <2>. QED BY <1>1, <2>1, CoversSame, GrowsSame DEF source, SameOpen
<1>13. CASE FailClosed
  <2>1. scan'.captured = {} /\ UNCHANGED <<source, executor>>
    BY <1>1, <1>13, FailClosedFacts
  <2>. QED BY <1>1, <2>1, CoversSame, GrowsSame DEF source
<1>14. CASE CommitClosed
  <2>1. /\ target'.through = target.through /\ target'.lifecycle = target.lifecycle
        /\ \/ scan'.captured = scan.captured /\ scan'.highWater = scan.highWater
           \/ scan'.captured = {}
        /\ UNCHANGED <<source, executor>>
    BY <1>14, CommitClosedFacts DEF Sound, RowsAreOldest
  <2>. QED BY <1>1, <2>1, CoversSame, GrowsSame DEF source
<1>15. ASSUME NEW t \in Trades, ExecuteClosed(t) PROVE CaptureCovers'
  <2>1. /\ SameOpen(scan, scan') /\ ExecuteClose(t) /\ UNCHANGED <<source, target>>
    BY <1>1, <1>15, ExecuteClosedFacts
  <2>2. Grows
    BY <1>1, <2>1, ExecuteCloseFacts DEF Grows, SeenDirect
  <2>. QED BY <1>1, <2>1, <2>2, CoversSame DEF source, SameOpen
<1>16. CASE EndHydration
  <2>1. /\ \/ scan' = Idle
           \/ scan'.captured = scan.captured /\ scan'.highWater = scan.highWater
        /\ UNCHANGED <<source, target, executor>>
    BY <1>1, <1>16, EndHydrationFacts
  <2>. QED BY <1>1, <2>1, CoversSame, GrowsSame, IdleFields DEF source
<1>17. ASSUME NEW e \in Entries, Flush(e) PROVE CaptureCovers'
  <2>1. /\ scan'.captured = scan.captured /\ scan'.highWater = scan.highWater
        /\ UNCHANGED <<source, target>> /\ Grows
    BY <1>1, <1>17, FlushFacts DEF Grows
  <2>. QED BY <1>1, <2>1, CoversSame DEF source
<1>18. CASE CommitFlush
  BY <1>1, <1>18, CommitFlushFacts, CoversSame, GrowsSame, IdleFields DEF source
<1>19. CASE Crash
  BY <1>1, <1>19, CrashFacts, CoversSame, GrowsSame, IdleFields DEF source
<1>20. CASE UNCHANGED vars
  BY <1>1, <1>20, CoversSame, GrowsSame DEF vars, source
<1>. QED BY <1>2, <1>3, <1>4, <1>5, <1>6, <1>7, <1>8, <1>9, <1>10, <1>11, <1>12, <1>13, <1>14,
            <1>15, <1>16, <1>17, <1>18, <1>19, <1>20 DEF Next, Hydrate

-----------------------------------------------------------------------------
(* The end of a retirement. *)

LEMMA DrainSame ==
  ASSUME Base, DrainProven, OpenRows' \subseteq OpenRows,
         \A t \in OpenRows' : happened'[Opening(t)] = happened[Opening(t)],
         target'.lifecycle = "RETIRING" =>
            /\ target.lifecycle = "RETIRING" /\ now' >= now /\ now' \in Nat
            /\ target'.baselineAt = target.baselineAt /\ target'.retiredAt = target.retiredAt
            /\ target'.openProofs = target.openProofs,
         \/ scan'.captured = {}
         \/ /\ scan'.captured = scan.captured /\ scan'.created = scan.created
            /\ scan'.at = scan.at
  PROVE DrainProven'
<1>. SUFFICES ASSUME target'.lifecycle = "RETIRING"
              PROVE /\ target'.openProofs > 0 => target'.retiredAt < now' /\ PreDemotion' = {}
                    /\ scan'.captured # {} =>
                          \A t \in OpenRows' : \/ happened'[Opening(t)] \in scan'.created
                                               \/ happened'[Opening(t)] >= scan'.at
  BY DEF DrainProven
<1>1. target.openProofs > 0 => target.retiredAt < now' /\ PreDemotion = {}
  BY TypeFacts, TargetFields DEF DrainProven, Base
<1>2. PreDemotion' \subseteq PreDemotion
  BY DEF PreDemotion, CreatedBetween
<1>. QED BY <1>1, <1>2 DEF DrainProven

LEMMA DrainHappen ==
  ASSUME Base, DrainProven, NEW e \in Events, Happen(e)
  PROVE DrainProven'
<1>1. /\ happened'[e] = now /\ \A f \in Events : f # e => happened'[f] = happened[f]
      /\ UNCHANGED <<now, target, scan>>
      /\ \A t \in OpenRows' \ OpenRows : e = Opening(t)
  BY HappenFacts DEF Base
<1>2. /\ now \in Nat /\ target.retiredAt \in Nat
      /\ scan.captured # {} => scan.at <= now
  <2>1. scan.captured # {} => scan.stage # "idle"
    BY IdleFields DEF Base, ScanShape
  <2>. QED BY <2>1, TypeFacts, TargetFields DEF Base, ScanShape
<1>3. \A t \in OpenRows' : t \in Trades
  BY DEF OpenRows
<1>4. \A t \in OpenRows' : \/ t \in OpenRows /\ happened'[Opening(t)] = happened[Opening(t)]
                           \/ happened'[Opening(t)] = now
  BY <1>1, <1>3, EventFacts
<1>5. ASSUME target.lifecycle = "RETIRING", target.openProofs > 0
      PROVE PreDemotion' = {}
  <2>1. target.retiredAt < now /\ PreDemotion = {}
    BY <1>5 DEF DrainProven
  <2>. QED BY <1>1, <1>2, <1>4, <2>1 DEF PreDemotion, CreatedBetween
<1>6. ASSUME target.lifecycle = "RETIRING", scan.captured # {}, NEW t \in OpenRows'
      PROVE happened'[Opening(t)] \in scan.created \/ happened'[Opening(t)] >= scan.at
  BY <1>2, <1>4, <1>6 DEF DrainProven
<1>. QED BY <1>1, <1>5, <1>6 DEF DrainProven

(* Both kinds of a poll of a retiring target look at what was open at its start. *)
LEMMA DrainPolled ==
  ASSUME Base, target.retiredAt < now,
         target'.baselineAt = target.baselineAt, target'.retiredAt = target.retiredAt,
         OpenRows' = OpenRows, happened' = happened, now' = now,
         NEW created, ~ OpenedWhileSelected(target, created),
         \A t \in PreDemotion : happened[Opening(t)] \in created
  PROVE target'.retiredAt < now' /\ PreDemotion' = {}
<1>1. PreDemotion' = PreDemotion
  BY DEF PreDemotion, CreatedBetween
<1>2. PreDemotion = {}
  BY DEF PreDemotion, CreatedBetween, OpenedWhileSelected
<1>. QED BY <1>1, <1>2

LEMMA RetireAfterNow ==
  ASSUME Base, scan.stage # "idle", scan.at >= RetireAfter(target)
  PROVE target.retiredAt < scan.at /\ target.retiredAt < now
<1>1. scan.at \in Nat /\ now \in Nat /\ scan.at <= now
  BY TypeFacts, ScanFields DEF Base, ScanShape
<1>. QED BY <1>1, GraceAssumption, TypeFacts, TargetFields DEF RetireAfter, Base

LEMMA DrainRetiring ==
  ASSUME Base, DrainProven, HydrateRetiring
  PROVE DrainProven'
<1>1. /\ SameRecord(target, target') /\ target.lifecycle = "RETIRING"
      /\ \/ target' = target
         \/ target'.openProofs > 0 =>
               scan.at >= RetireAfter(target) /\ ~ OpenedWhileSelected(target, Created)
      /\ scan.stage = "hydrate" /\ scan.captured = {}
      /\ scan'.captured = {} \/ scan'.created = Created
      /\ UNCHANGED <<now, source>>
  BY HydrateRetiringFacts
<1>2. OpenRows' = OpenRows /\ happened' = happened
  BY <1>1 DEF OpenRows, Has, source
<1>3. \A t \in OpenRows : happened[Opening(t)] \in Created
  BY DEF Created
<1>4. ASSUME target'.openProofs > 0
      PROVE target'.retiredAt < now' /\ PreDemotion' = {}
  <2>1. CASE target' = target
    BY <1>1, <1>2, <1>4, <2>1 DEF DrainProven, PreDemotion, CreatedBetween
  <2>2. CASE scan.at >= RetireAfter(target) /\ ~ OpenedWhileSelected(target, Created)
    <3>1. target.retiredAt < now
      BY <1>1, <2>2, RetireAfterNow
    <3>2. \A t \in PreDemotion : happened[Opening(t)] \in Created
      BY <1>3 DEF PreDemotion
    <3>. QED BY <1>1, <1>2, <2>2, <3>1, <3>2, DrainPolled DEF SameRecord
  <2>. QED BY <1>1, <1>4, <2>1, <2>2
<1>. QED BY <1>1, <1>2, <1>3, <1>4 DEF DrainProven

LEMMA DrainFlush ==
  ASSUME Base, DrainProven, CommitFlush
  PROVE DrainProven'
<1>1. /\ SameRecord(target, target')
      /\ \/ target' = target
         \/ target'.lifecycle = "RETIRING" /\ target'.openProofs > 0 =>
               scan.at >= RetireAfter(target) /\ ~ OpenedWhileSelected(target, scan.created)
      /\ scan.stage = "flush" /\ scan' = Idle
      /\ UNCHANGED <<now, source>>
  BY CommitFlushFacts
<1>2. OpenRows' = OpenRows /\ happened' = happened /\ OpenRows \subseteq Trades
  BY <1>1, TypeFacts DEF OpenRows, Has, source, Base
<1>3. scan'.captured = {} /\ scan.captured # {}
  BY <1>1, IdleFields DEF Base, ScanShape
<1>4. ASSUME target'.lifecycle = "RETIRING", target'.openProofs > 0
      PROVE target'.retiredAt < now' /\ PreDemotion' = {}
  <2>1. CASE target' = target
    BY <1>1, <1>2, <1>4, <2>1 DEF DrainProven, PreDemotion, CreatedBetween
  <2>2. CASE scan.at >= RetireAfter(target) /\ ~ OpenedWhileSelected(target, scan.created)
    <3>1. target.retiredAt < now /\ target.retiredAt < scan.at
      BY <1>1, <2>2, RetireAfterNow
    <3>2. /\ target.retiredAt \in Nat /\ scan.at \in Nat
          /\ \A t \in OpenRows : happened[Opening(t)] \in Nat
      BY <1>2, TypeFacts, TargetFields, ScanFields, EventFacts DEF Base
    <3>3. \A t \in PreDemotion : happened[Opening(t)] \in scan.created
      BY <1>1, <1>3, <1>4, <3>1, <3>2 DEF DrainProven, PreDemotion, CreatedBetween, SameRecord
    <3>. QED BY <1>1, <1>2, <2>2, <3>1, <3>3, DrainPolled DEF SameRecord
  <2>. QED BY <1>1, <1>4, <2>1, <2>2
<1>. QED BY <1>3, <1>4 DEF DrainProven

LEMMA DrainNext ==
  ASSUME Sound, DrainProven, [Next]_vars
  PROVE DrainProven'
<1>1. Base /\ TypeOK /\ Exposure /\ TargetSound(target, now) /\ now \in Nat
  BY TypeFacts DEF Sound, Base
<1>2. happened' = happened =>
         OpenRows' = OpenRows /\ \A t \in OpenRows' : happened'[Opening(t)] = happened[Opening(t)]
  BY DEF OpenRows, Has
<1>3. CASE Tick
  BY <1>1, <1>2, <1>3, DrainSame DEF Tick, source
<1>4. ASSUME NEW e \in Events, Happen(e) PROVE DrainProven'
  BY <1>1, <1>4, DrainHappen
<1>5. ASSUME NEW e \in Entries, FeedEntry(e) PROVE DrainProven'
  BY <1>1, <1>2, <1>5, DrainSame DEF FeedEntry, source
<1>6. ASSUME NEW t \in Trades, FeedClose(t) PROVE DrainProven'
  BY <1>1, <1>2, <1>6, DrainSame DEF FeedClose, source
<1>7. CASE Begin
  <2>1. PICK stale \in BOOLEAN, verdict \in Verdicts, dropped \in BOOLEAN,
             open \in {"off", "due"}, closed \in {"off", "due"} :
                BeginScan(stale, verdict, dropped, open, closed)
    BY <1>7 DEF Begin
  <2>2. /\ target'.lifecycle = "RETIRING" /\ target'.openProofs > 0 => target' = target
        /\ scan'.captured = {} /\ UNCHANGED <<now, source>>
    BY <1>1, <2>1, BeginScanFacts
  <2>. QED BY <1>2, <2>2 DEF DrainProven, PreDemotion, CreatedBetween, source
<1>8. CASE HydrateBaseline
  <2>1. target'.lifecycle = "ACTIVE"
    BY <1>1, <1>8, HydrateBaselineFacts
  <2>. QED BY <2>1 DEF DrainProven
<1>9. CASE HydrateOpen
  BY <1>9 DEF DrainProven, HydrateOpen
<1>10. CASE HydrateRetiring
  BY <1>1, <1>10, DrainRetiring
<1>11. CASE FailOpen
  <2>1. scan'.captured = {} /\ UNCHANGED <<now, source, target>>
    BY <1>1, <1>11, FailOpenFacts
  <2>. QED BY <1>1, <1>2, <2>1, DrainSame DEF source
<1>12. CASE BaselineClosed
  <2>1. target'.lifecycle # "RETIRING"
    BY <1>1, <1>12, BaselineClosedFacts
  <2>. QED BY <2>1 DEF DrainProven
<1>13. ASSUME NEW rows \in SUBSET ClosedRows, NEW unready \in SUBSET ClosedRows,
              ReadClosed(rows, unready)
       PROVE DrainProven'
  <2>1. /\ target'.lifecycle = target.lifecycle /\ target'.baselineAt = target.baselineAt
        /\ target'.retiredAt = target.retiredAt /\ target'.openProofs = target.openProofs
        /\ SameOpen(scan, scan') /\ UNCHANGED <<now, source>>
    BY <1>1, <1>13, ReadClosedFacts
  <2>. QED BY <1>1, <1>2, <2>1, DrainSame DEF source, SameOpen
<1>14. CASE FailClosed
  <2>1. /\ target'.lifecycle = target.lifecycle /\ target'.baselineAt = target.baselineAt
        /\ target'.retiredAt = target.retiredAt /\ target'.openProofs = target.openProofs
        /\ scan'.captured = {} /\ UNCHANGED <<now, source>>
    BY <1>1, <1>14, FailClosedFacts
  <2>. QED BY <1>1, <1>2, <2>1, DrainSame DEF source
<1>15. CASE CommitClosed
  <2>1. /\ target'.lifecycle = target.lifecycle /\ target'.baselineAt = target.baselineAt
        /\ target'.retiredAt = target.retiredAt /\ target'.openProofs = target.openProofs
        /\ \/ /\ scan'.captured = scan.captured /\ scan'.created = scan.created
              /\ scan'.at = scan.at
           \/ scan'.captured = {}
        /\ UNCHANGED <<now, source>>
    BY <1>15, CommitClosedFacts DEF Sound, RowsAreOldest
  <2>. QED BY <1>1, <1>2, <2>1, DrainSame DEF source
<1>16. ASSUME NEW t \in Trades, ExecuteClosed(t) PROVE DrainProven'
  <2>1. SameOpen(scan, scan') /\ UNCHANGED <<now, source, target>>
    BY <1>1, <1>16, ExecuteClosedFacts
  <2>. QED BY <1>1, <1>2, <2>1, DrainSame DEF source, SameOpen
<1>17. CASE EndHydration
  <2>1. /\ \/ scan' = Idle
           \/ /\ scan'.captured = scan.captured /\ scan'.created = scan.created
              /\ scan'.at = scan.at
        /\ UNCHANGED <<now, source, target>>
    BY <1>1, <1>17, EndHydrationFacts
  <2>. QED BY <1>1, <1>2, <2>1, DrainSame, IdleFields DEF source
<1>18. ASSUME NEW e \in Entries, Flush(e) PROVE DrainProven'
  <2>1. /\ scan'.captured = scan.captured /\ scan'.created = scan.created
        /\ SameClosed(scan, scan') /\ UNCHANGED <<now, source, target>>
    BY <1>1, <1>18, FlushFacts
  <2>. QED BY <1>1, <1>2, <2>1, DrainSame DEF source, SameClosed
<1>19. CASE CommitFlush
  BY <1>1, <1>19, DrainFlush
<1>20. CASE Crash
  <2>1. /\ target'.lifecycle \in {"RETIRING", "TOMBSTONE"} => target' = target
        /\ scan'.captured = {} /\ UNCHANGED <<now, source>>
    BY <1>1, <1>20, CrashFacts, IdleFields
  <2>. QED BY <1>1, <1>2, <2>1, DrainSame DEF source
<1>21. CASE UNCHANGED vars
  BY <1>1, <1>2, <1>21, DrainSame DEF vars, source
<1>. QED BY <1>3, <1>4, <1>5, <1>6, <1>7, <1>8, <1>9, <1>10, <1>11, <1>12, <1>13, <1>14,
            <1>15, <1>16, <1>17, <1>18, <1>19, <1>20, <1>21 DEF Next, Hydrate

-----------------------------------------------------------------------------
(* Together. *)

LEMMA Initially == Init => IInv
<1>. SUFFICES ASSUME Init PROVE IInv
  OBVIOUS
<1>1. Sound
  BY SoundInit
<1>2. OwnedCloseStillReadable
  BY DEF Init, OwnedCloseStillReadable
<1>3. scan.captured = {}
  BY IdleFields DEF Init
<1>4. CaptureCovers
  BY <1>3 DEF CaptureCovers
<1>5. target.lifecycle # "RETIRING"
  BY DEF Init, NoTarget
<1>6. DrainProven
  BY <1>5 DEF DrainProven
<1>. QED BY <1>1, <1>2, <1>4, <1>6 DEF IInv, Sound, Base

LEMMA Inductive == IInv /\ [Next]_vars => IInv'
<1>. SUFFICES ASSUME IInv, [Next]_vars PROVE IInv'
  OBVIOUS
<1>1. Sound
  BY DEF IInv, Sound, Base
<1>2. Sound'
  BY <1>1, SoundNext
<1>3. OwnedCloseStillReadable'
  BY <1>1, ReadableNext DEF IInv
<1>4. CaptureCovers'
  BY <1>1, CoversNext DEF IInv
<1>5. DrainProven'
  BY <1>1, DrainNext DEF IInv
<1>. QED BY <1>2, <1>3, <1>4, <1>5 DEF IInv, Sound, Base

LEMMA Invariance == Spec => []IInv
BY Initially, Inductive, PTL DEF Spec

(* What a step may do to the record. *)
LEMMA RecordNext ==
  ASSUME IInv, [Next]_vars
  PROVE /\ target.lifecycle # "NONE" /\ target'.baselineAt = target.baselineAt =>
              Keeps(target, target')
        /\ target.lifecycle = "RETIRING" /\ target'.lifecycle = "TOMBSTONE" => target.openProofs > 0
        /\ target.lifecycle \in {"ACTIVE", "MISSING_GRACE", "RETIRING"} =>
              \/ target'.through = target.through
              \/ HydrateRetiring
              \/ CommitFlush
<1>1. Base /\ TypeOK /\ TargetSound(target, now) /\ target \in Target
      /\ scan.rows \subseteq ClosedRows
  BY TypeFacts DEF IInv, Base, RowsAreOldest
<1>2. CASE target' = target
  BY <1>1, <1>2, KeepsSame DEF SameCursor
<1>3. CASE Begin
  <2>1. PICK stale \in BOOLEAN, verdict \in Verdicts, dropped \in BOOLEAN,
             open \in {"off", "due"}, closed \in {"off", "due"} :
                BeginScan(stale, verdict, dropped, open, closed)
    BY <1>3 DEF Begin
  <2>2. /\ target.lifecycle \in Resident => SameCursor(target, target')
        /\ target.lifecycle # "NONE" /\ target'.baselineAt = target.baselineAt =>
              Keeps(target, target')
        /\ target.lifecycle = "RETIRING" /\ target'.lifecycle = "TOMBSTONE" => target.openProofs > 0
    BY <1>1, <2>1, BeginScanFacts
  <2>. QED BY <2>2 DEF SameCursor, Resident
<1>4. CASE HydrateBaseline
  <2>1. Keeps(target, target') /\ target.lifecycle = "ENROLLING"
    BY <1>1, <1>4, HydrateBaselineFacts
  <2>. QED BY <2>1
<1>5. CASE HydrateRetiring
  <2>1. Keeps(target, target') /\ SameRecord(target, target') /\ target.lifecycle = "RETIRING"
    BY <1>1, <1>5, HydrateRetiringFacts
  <2>. QED BY <1>5, <2>1 DEF SameRecord
<1>6. CASE BaselineClosed
  <2>1. /\ Keeps(target, target') /\ target.lifecycle # "RETIRING"
        /\ target'.through = target.through
    BY <1>1, <1>6, BaselineClosedFacts
  <2>. QED BY <2>1
<1>7. ASSUME NEW rows \in SUBSET ClosedRows, NEW unready \in SUBSET ClosedRows,
             ReadClosed(rows, unready)
      PROVE /\ Keeps(target, target') /\ target'.lifecycle = target.lifecycle
            /\ target'.through = target.through
  BY <1>1, <1>7, ReadClosedFacts
<1>8. CASE FailClosed
  <2>1. /\ Keeps(target, target') /\ target'.lifecycle = target.lifecycle
        /\ target'.through = target.through
    BY <1>1, <1>8, FailClosedFacts
  <2>. QED BY <2>1
<1>9. CASE CommitClosed
  <2>1. /\ Keeps(target, target') /\ target'.lifecycle = target.lifecycle
        /\ target'.through = target.through
    BY <1>1, <1>9, CommitClosedFacts
  <2>. QED BY <2>1
<1>10. CASE CommitFlush
  <2>1. Keeps(target, target') /\ SameRecord(target, target')
    BY <1>1, <1>10, CommitFlushFacts
  <2>. QED BY <1>10, <2>1 DEF SameRecord
<1>11. CASE Crash
  <2>1. /\ SameCursor(target, target')
        /\ target'.lifecycle \in {"RETIRING", "TOMBSTONE"} => target' = target
    BY <1>1, <1>11, CrashFacts
  <2>2. Keeps(target, target')
    BY <1>1, <2>1, KeepsSame
  <2>. QED BY <2>1, <2>2 DEF SameCursor
<1>12. \/ target' = target
       \/ Begin \/ HydrateBaseline \/ HydrateRetiring \/ BaselineClosed \/ FailClosed
       \/ CommitClosed \/ CommitFlush \/ Crash
       \/ \E rows \in SUBSET ClosedRows, unready \in SUBSET ClosedRows : ReadClosed(rows, unready)
  BY DEF Next, Hydrate, vars, Tick, Happen, FeedEntry, FeedClose, HydrateOpen, FailOpen,
         ExecuteClosed, EndHydration, Flush
<1>. QED BY <1>2, <1>3, <1>4, <1>5, <1>6, <1>7, <1>8, <1>9, <1>10, <1>11, <1>12

(* What a poll of a retiring portfolio passes without capturing it. *)
LEMMA RetiringPasses ==
  ASSUME Base, HydrateRetiring, RetiringExecuted = {}, NEW t \in OpenRows \ handledClose
  PROVE SeenDirect(Opening(t))' \/ t \in observed
<1>1. /\ \A e \in Entries : SeenDirect(e) => SeenDirect(e)'
      /\ \A e \in RetiringIgnored : SeenDirect(e)'
  BY HydrateRetiringFacts
<1>2. Opening(t) \in Entries
  BY TypeFacts, EventFacts DEF Base
<1>3. CASE SeenDirect(Opening(t))
  BY <1>1, <1>2, <1>3
<1>4. CASE ~ SeenDirect(Opening(t)) /\ t \notin PreDemotion
  BY <1>1, <1>4 DEF RetiringIgnored
<1>5. CASE ~ SeenDirect(Opening(t)) /\ t \in PreDemotion
  BY <1>5 DEF RetiringExecuted, Base, Exposure
<1>. QED BY <1>3, <1>4, <1>5

(* ... and what the commit of a scan passes. *)
LEMMA FlushPasses ==
  ASSUME IInv, CommitFlush, target' # target,
         NEW t \in OpenRows \ handledClose, NEW e \in {Opening(t), Raising(t)},
         target.through < happened[e], happened[e] < target'.through
  PROVE \/ SeenDirect(e)'
        \/ target.lifecycle = "RETIRING" /\ (e = Opening(t) => t \in observed)
        \/ e = Raising(t) /\ happened[Opening(t)] > target.through
<1>1. Base /\ target \in Target /\ scan \in Scan /\ \A f \in Events : happened[f] \in Nat
  BY TypeFacts DEF IInv, Base
<1>2. t \in Trades /\ Opening(t) # Raising(t) /\ e \in Events
  BY EventFacts DEF OpenRows
<1>3. /\ AllTerminal /\ target'.through = Later(target.through, scan.highWater)
      /\ scan.stage = "flush" /\ UNCHANGED executor
  BY <1>1, CommitFlushFacts
<1>4. scan.captured # {}
  BY <1>1, <1>3 DEF Base, ScanShape
<1>5. happened[e] < scan.highWater
  BY <1>1, <1>2, <1>3, TargetFields, ScanFields DEF Later
<1>6. \/ e \in scan.captured \/ SeenDirect(e)
      \/ target.lifecycle = "RETIRING" /\ (e = Opening(t) => t \in observed)
      \/ e = Raising(t) /\ happened[Opening(t)] > target.through
  <2>1. CASE e = Opening(t)
    BY <1>2, <1>4, <1>5, <2>1 DEF IInv, CaptureCovers
  <2>2. CASE e = Raising(t)
    BY <1>2, <1>4, <1>5, <2>2 DEF IInv, CaptureCovers
  <2>. QED BY <2>1, <2>2
<1>7. e \in scan.captured \/ SeenDirect(e) => SeenDirect(e)'
  BY <1>3 DEF AllTerminal, SeenDirect, executor
<1>. QED BY <1>6, <1>7

-----------------------------------------------------------------------------
(***************************************************************************)
(* The records have their types, and the stages of enrolment mean what the *)
(* executor reads into them: nothing is admitted before the CLOSED         *)
(* watermark is established.                                               *)
(***************************************************************************)
THEOREM TypeCorrect == Spec => []TypeOK
BY Invariance, PTL DEF IInv

(***************************************************************************)
(* Whatever sequence of enrolments, demotions, graces and crashes a        *)
(* portfolio goes through, load accepts its admission history.             *)
(***************************************************************************)
THEOREM IntervalsOrderedHolds == Spec => []IntervalsOrdered
<1>1. IInv => IntervalsOrdered
  BY DEF IInv, TargetSound, Admissions, IntervalsOrdered
<1>. QED BY <1>1, Invariance, PTL

(***************************************************************************)
(* While exposure that was entered under watch is owned, the portfolio is  *)
(* resident and the row of its close is not behind the CLOSED watermark,   *)
(* however many rows share its instant and however polls fail.             *)
(***************************************************************************)
THEOREM OwnedCloseStillReadableHolds == Spec => []OwnedCloseStillReadable
BY Invariance, PTL DEF IInv

(***************************************************************************)
(* An OPEN watermark passes only entries that are handled by the time it   *)
(* moves, through scans that are overtaken by the source, by the feed, by  *)
(* a demotion or by a crash.                                               *)
(***************************************************************************)
THEOREM WatermarkPassesHandledOnlyHolds == Spec => WatermarkPassesHandledOnly
<1>. DEFINE Passed(e) == target.through < happened[e] /\ happened[e] < target'.through
            Handled(t) ==
                target.lifecycle \in {"ACTIVE", "MISSING_GRACE", "RETIRING"} /\ t \notin handledClose =>
                   /\ Passed(Opening(t)) =>
                          \/ SeenDirect(Opening(t))'
                          \/ target.lifecycle = "RETIRING" /\ t \in observed
                   /\ Passed(Raising(t)) =>
                          \/ SeenDirect(Raising(t))'
                          \/ happened[Opening(t)] > target.through
                          \/ target.lifecycle = "RETIRING"
<1>1. IInv /\ [Next]_vars => [\A t \in OpenRows : Handled(t)]_vars
  <2>. SUFFICES ASSUME IInv, [Next]_vars, NEW t \in OpenRows,
                       target.lifecycle \in {"ACTIVE", "MISSING_GRACE", "RETIRING"},
                       t \notin handledClose, NEW e \in {Opening(t), Raising(t)}, Passed(e)
                PROVE  \/ SeenDirect(e)'
                       \/ target.lifecycle = "RETIRING" /\ (e = Opening(t) => t \in observed)
                       \/ e = Raising(t) /\ happened[Opening(t)] > target.through
    <3>1. ASSUME NEW t \in OpenRows PROVE Opening(t) # Raising(t)
      BY EventFacts DEF OpenRows
    <3>. QED BY <3>1
  <2>1. Base /\ target \in Target /\ \A f \in Events : happened[f] \in Nat
    BY TypeFacts DEF IInv, Base
  <2>2. target.through \in Nat /\ e \in Events /\ t \in Trades
    BY <2>1, TargetFields, EventFacts DEF OpenRows
  <2>3. target'.through # target.through
    BY <2>1, <2>2
  <2>4. CASE HydrateRetiring
    <3>1. target.lifecycle = "RETIRING" /\ (target' = target \/ RetiringExecuted = {})
      BY <2>1, <2>4, HydrateRetiringFacts
    <3>2. SeenDirect(Opening(t))' \/ t \in observed
      BY <2>1, <2>3, <2>4, <3>1, RetiringPasses
    <3>. QED BY <3>1, <3>2
  <2>5. CASE CommitFlush
    BY <2>3, <2>5, FlushPasses
  <2>. QED BY <2>3, <2>4, <2>5, RecordNext
<1>. QED BY <1>1, Invariance, PTL DEF Spec, WatermarkPassesHandledOnly

(***************************************************************************)
(* Neither watermark of a portfolio moves back while its record is the     *)
(* same one, and it is forgotten only when no trade that was opened during *)
(* its selection is open any more: what a demotion must not lose.          *)
(***************************************************************************)
THEOREM RetiresSafelyHolds == Spec => RetiresSafely
<1>1. IInv /\ [Next]_vars =>
        [ target.lifecycle # "NONE" /\ target'.baselineAt = target.baselineAt =>
            /\ target'.through >= target.through
            /\ target.closedInit =>
                  /\ target'.closedInit
                  /\ \/ target'.closedThrough > target.closedThrough
                     \/ /\ target'.closedThrough = target.closedThrough
                        /\ target.closedIds \subseteq target'.closedIds ]_vars
  BY RecordNext DEF Keeps
<1>2. IInv /\ [Next]_vars =>
        [target.lifecycle = "RETIRING" /\ target'.lifecycle = "TOMBSTONE" => PreDemotion = {}]_vars
  BY RecordNext DEF IInv, DrainProven
<1>. QED BY <1>1, <1>2, Invariance, PTL DEF Spec, RetiresSafely, WatermarksNeverRetreat,
                                            ForgottenWhenDrained

-----------------------------------------------------------------------------
(***************************************************************************)
(* What a baseline swallowed is not captured again: it is behind the OPEN  *)
(* watermark while the portfolio is watched, and an enrolment begins with  *)
(* nothing swallowed.  Only the drain of a retiring one captures it.       *)
(***************************************************************************)
Swallowed ==
    /\ \A t \in swallowed : Has(Opening(t))
    /\ target.lifecycle \in {"ACTIVE", "MISSING_GRACE"} =>
          \A t \in swallowed : happened[Opening(t)] <= target.through
    /\ target.lifecycle \in Resident /\ ~ target.openInit => swallowed = {}
    /\ \A t \in swallowed : Opening(t) \in scan.left => target.lifecycle = "RETIRING"

(* A verdict that leaves the portfolio watched leaves its OPEN baseline. *)
LEMMA SyncedKeeps ==
  ASSUME NEW t \in Target, NEW n \in Nat \ {0}, TargetSound(t, n),
         NEW verdict, NEW seenAt \in Nat, NEW owned
  PROVE LET u == Synced(t, n, verdict, seenAt, owned) IN
        u.lifecycle \in Resident \ {"ENROLLING"} =>
           /\ t.lifecycle \in Resident
           /\ u.through = t.through /\ u.openInit = t.openInit
           /\ u.lifecycle # "RETIRING" => t.lifecycle # "RETIRING"
<1>. DEFINE judged == CASE verdict = "elite" -> Qualified(t, n)
                        [] verdict = "demoted" -> Demoted(t, n, seenAt)
                        [] OTHER -> t
            Kept(v) == /\ v \in Target
                       /\ v.lifecycle \in Resident \ {"ENROLLING"} =>
                             /\ t.lifecycle \in Resident
                             /\ v.through = t.through /\ v.openInit = t.openInit
                             /\ v.lifecycle # "RETIRING" => t.lifecycle # "RETIRING"
<1>1. Kept(t)
  OBVIOUS
<1>2. Kept(Qualified(t, n))
  <2>1. CASE t.lifecycle \in {"NONE", "TOMBSTONE"}
    <3>1. /\ Qualified(t, n) = Enrol(t, n)
          /\ Enrol(t, n).lifecycle = "ENROLLING" /\ Enrol(t, n) \in Target
      BY <2>1, EnrolSound DEF Qualified
    <3>. QED BY <3>1
  <2>2. CASE t.lifecycle \in {"MISSING_GRACE", "RETIRING"}
    <3>1. /\ Qualified(t, n) = Requalify(t, n)
          /\ Requalify(t, n).lifecycle = "ENROLLING" /\ Requalify(t, n) \in Target
      BY <2>2, EnrolAgainSound DEF Qualified
    <3>. QED BY <3>1
  <2>3. CASE t.lifecycle \notin {"NONE", "TOMBSTONE", "MISSING_GRACE", "RETIRING"}
    <3>1. Qualified(t, n) = t
      BY <2>3 DEF Qualified
    <3>. QED BY <1>1, <3>1
  <2>. QED BY <2>1, <2>2, <2>3
<1>3. Kept(Demoted(t, n, seenAt))
  <2>1. CASE t.lifecycle \in Resident \ {"RETIRING"} /\ seenAt # t.lastNegativeAt
    <3>1. Demoted(t, n, seenAt) = Negative(t, n, seenAt)
      BY <2>1 DEF Demoted
    <3>2. Negative(t, n, seenAt).through = t.through
      BY DEF Negative, Target
    <3>3. Negative(t, n, seenAt).openInit = t.openInit
      BY DEF Negative, Target
    <3>4. Negative(t, n, seenAt) \in Target
      BY <2>1, NegativeSound
    <3>. HIDE DEF Kept
    <3>5. Kept(Negative(t, n, seenAt))
      BY <2>1, <3>2, <3>3, <3>4 DEF Kept
    <3>. QED BY <3>1, <3>5
  <2>2. CASE ~ (t.lifecycle \in Resident \ {"RETIRING"} /\ seenAt # t.lastNegativeAt)
    <3>1. Demoted(t, n, seenAt) = t
      BY <2>2 DEF Demoted
    <3>. QED BY <1>1, <3>1
  <2>. QED BY <2>1, <2>2
<1>4. Kept(judged)
  <2>. HIDE DEF Kept
  <2>. QED BY <1>1, <1>2, <1>3
<1>5. Synced(t, n, verdict, seenAt, owned) = IF Drained(judged, n, owned) THEN Bury(judged) ELSE judged
  BY Zenon DEF Synced
<1>. HIDE DEF judged
<1>6. Bury(judged).lifecycle = "TOMBSTONE"
  BY <1>4 DEF Bury, Target
<1>. QED BY <1>4, <1>5, <1>6 DEF Resident

(* The commits of a scan leave the OPEN baseline. *)
LEMMA BaselineKept ==
  ASSUME Base,
         \/ HydrateRetiring \/ BaselineClosed \/ FailClosed \/ CommitClosed \/ CommitFlush
         \/ \E rows \in SUBSET ClosedRows, unready \in SUBSET ClosedRows : ReadClosed(rows, unready)
  PROVE target'.openInit = target.openInit
<1>1. target \in Target
  BY TypeFacts DEF Base
<1>2. ASSUME NEW highWater, NEW created, NEW at
      PROVE RetirementPolled(OpenCommitted(target, highWater), created, at).openInit = target.openInit
  <2>1. OpenCommitted(target, highWater).openInit = target.openInit
    BY <1>1 DEF OpenCommitted, Target
  <2>2. /\ "openInit" \in DOMAIN OpenCommitted(target, highWater)
    BY <1>1 DEF OpenCommitted, Target
  <2>. QED BY <2>1, <2>2 DEF RetirementPolled
<1>3. ASSUME NEW highWater PROVE OpenCommitted(target, highWater).openInit = target.openInit
  BY <1>1 DEF OpenCommitted, Target
<1>4. DrainStarted(target).openInit = target.openInit
  BY <1>1 DEF DrainStarted, Target
<1>5. ASSUME NEW closes, NEW at PROVE ClosedCommitted(target, closes, at).openInit = target.openInit
  BY <1>1 DEF ClosedCommitted, ClosedTo, Target
<1>6. CASE HydrateRetiring
  BY <1>2, <1>6 DEF HydrateRetiring
<1>7. CASE BaselineClosed
  BY <1>5, <1>7 DEF BaselineClosed
<1>8. CASE FailClosed
  BY <1>4, <1>8 DEF FailClosed
<1>9. CASE CommitClosed
  BY <1>5, <1>9 DEF CommitClosed
<1>10. CASE CommitFlush
  BY <1>2, <1>3, <1>10 DEF CommitFlush, FlushedTarget
<1>11. CASE \E rows \in SUBSET ClosedRows, unready \in SUBSET ClosedRows : ReadClosed(rows, unready)
  BY <1>4, <1>11 DEF ReadClosed
<1>. QED BY <1>6, <1>7, <1>8, <1>9, <1>10, <1>11

(* A step that leaves the source and the OPEN baseline, and captures nothing new. *)
LEMMA SwallowedSame ==
  ASSUME TypeOK, Swallowed, UNCHANGED <<happened, swallowed>>,
         target'.lifecycle = target.lifecycle, target'.openInit = target.openInit,
         target' \in Target, target'.through >= target.through, scan'.left \subseteq scan.left
  PROVE Swallowed'
<1>1. target.through \in Nat /\ target'.through \in Nat /\ \A t \in swallowed : happened[Opening(t)] \in Nat
  BY TypeFacts, TargetFields, EventFacts DEF TypeOK
<1>2. \A t \in swallowed' : Has(Opening(t))'
  BY DEF Swallowed, Has
<1>3. target'.lifecycle \in {"ACTIVE", "MISSING_GRACE"} =>
          \A t \in swallowed' : happened'[Opening(t)] <= target'.through
  BY <1>1 DEF Swallowed
<1>4. target'.lifecycle \in Resident /\ ~ target'.openInit => swallowed' = {}
  BY DEF Swallowed
<1>5. \A t \in swallowed' : Opening(t) \in scan'.left => target'.lifecycle = "RETIRING"
  BY DEF Swallowed
<1>. QED BY <1>2, <1>3, <1>4, <1>5 DEF Swallowed

(* What a baseline reads is behind the watermark that it sets. *)
LEMMA SwallowedBaseline ==
  ASSUME Base, Swallowed, HydrateBaseline
  PROVE Swallowed'
<1>1. /\ target.lifecycle = "ENROLLING" /\ scan.open = "due"
      /\ target' = ActiveFrom(target, scan.at, Latest({UpdatedAt(t) : t \in OpenRows}, scan.at))
      /\ swallowed' \subseteq OpenRows
  BY DEF HydrateBaseline, OpenBaselined
<1>2. /\ now \in Nat \ {0} /\ target \in Target /\ scan \in Scan /\ OpenRows \subseteq Trades
      /\ \A e \in Events : happened[e] \in 0 .. now
  BY TypeFacts DEF Base
<1>3. /\ target' \in Target /\ target'.lifecycle = "ACTIVE" /\ TargetSound(target', now)
      /\ scan'.left = scan.left /\ scan.captured = {} /\ UNCHANGED source
  BY HydrateBaselineFacts
<1>4. scan.left = {}
  BY <1>3 DEF Base, ScanShape
<1>. DEFINE updates == {UpdatedAt(t) : t \in OpenRows}
            latest == Latest(updates, scan.at)
<1>5. scan.at \in 0 .. now
  BY <1>1, <1>2, ScanFields DEF Base, ScanShape
<1>6. latest \in Nat /\ \A m \in updates : m <= latest
  <2>1. updates \in SUBSET (0 .. now)
    BY <1>2, TimesTyped
  <2>. HIDE DEF updates
  <2>. QED BY <1>2, <1>5, <2>1, LatestIsGreatest
<1>7. \A t \in OpenRows : happened[Opening(t)] <= UpdatedAt(t) /\ UpdatedAt(t) \in updates
  <2>. SUFFICES ASSUME NEW t \in OpenRows
                PROVE  happened[Opening(t)] <= UpdatedAt(t)
    OBVIOUS
  <2>1. /\ t \in Trades /\ happened[Opening(t)] \in Nat /\ happened[Raising(t)] \in Nat
        /\ Has(Raising(t)) => happened[Opening(t)] < happened[Raising(t)]
    BY <1>2, EventFacts DEF Base, SourceOrder
  <2>. QED BY <2>1 DEF UpdatedAt
<1>8. target' = ActiveFrom(target, scan.at, latest)
  BY <1>1
<1>. HIDE DEF updates, latest
<1>9. target'.through = Later(target.through, latest) /\ target.through \in Nat
  BY <1>2, <1>8, TargetFields DEF ActiveFrom, Target
<1>10. target'.openInit = TRUE
  BY <1>2, <1>8 DEF ActiveFrom, Target
<1>11. \A t \in OpenRows : Has(Opening(t))' /\ happened'[Opening(t)] <= target'.through
  <2>. SUFFICES ASSUME NEW t \in OpenRows
                PROVE  Has(Opening(t))' /\ happened'[Opening(t)] <= target'.through
    OBVIOUS
  <2>1. Has(Opening(t)) /\ happened' = happened
    BY <1>3 DEF OpenRows, source
  <2>2. UpdatedAt(t) \in Nat /\ happened[Opening(t)] \in Nat /\ UpdatedAt(t) <= latest
    BY <1>2, <1>6, <1>7, TimesTyped, EventFacts
  <2>3. happened[Opening(t)] <= target'.through
    BY <1>6, <1>7, <1>9, <2>2 DEF Later
  <2>. QED BY <2>1, <2>3 DEF Has
<1>12. \A t \in swallowed' : Has(Opening(t))' /\ happened'[Opening(t)] <= target'.through
  BY <1>1, <1>11
<1>13. target'.openInit /\ scan'.left = {}
  BY <1>3, <1>4, <1>10
<1>14. target'.lifecycle \in {"ACTIVE", "MISSING_GRACE"} =>
          \A t \in swallowed' : happened'[Opening(t)] <= target'.through
  BY <1>12
<1>15. target'.lifecycle \in Resident /\ ~ target'.openInit => swallowed' = {}
  BY <1>13
<1>16. \A t \in swallowed' : Opening(t) \in scan'.left => target'.lifecycle = "RETIRING"
  BY <1>13
<1>. QED BY <1>12, <1>14, <1>15, <1>16 DEF Swallowed

LEMMA SwallowedBegin ==
  ASSUME Base, Swallowed, Begin
  PROVE Swallowed'
<1>1. PICK stale \in BOOLEAN, verdict \in Verdicts, dropped \in BOOLEAN,
           open \in {"off", "due"}, closed \in {"off", "due"} :
              BeginScan(stale, verdict, dropped, open, closed)
  BY DEF Begin
<1>2. /\ TypeOK /\ target \in Target /\ TargetSound(target, now) /\ now \in Nat \ {0}
      /\ candidate.at \in Nat
  BY TypeFacts DEF Base
<1>3. scan'.left = {} /\ UNCHANGED source
  BY <1>1, <1>2, BeginScanFacts
<1>. DEFINE kept == IF dropped /\ target.lifecycle = "TOMBSTONE" THEN NoTarget ELSE target
<1>4. /\ target' = IF stale THEN target ELSE Synced(kept, now, verdict, candidate.at, Owned)
      /\ swallowed' = IF target'.lifecycle = "ENROLLING" THEN {} ELSE swallowed
  BY <1>1 DEF BeginScan
<1>5. kept \in Target /\ TargetSound(kept, now)
  BY <1>2, NoTargetSound
<1>6. target'.lifecycle \in Resident \ {"ENROLLING"} =>
         /\ target.lifecycle \in Resident
         /\ target'.through = target.through /\ target'.openInit = target.openInit
         /\ target'.lifecycle # "RETIRING" => target.lifecycle # "RETIRING"
  <2>1. CASE stale
    BY <1>4, <2>1
  <2>2. CASE ~ stale
    <3>1. target' = Synced(kept, now, verdict, candidate.at, Owned)
      BY <1>4, <2>2
    <3>2. kept.lifecycle \in Resident => kept = target
      BY DEF Resident, NoTarget
    <3>. HIDE DEF kept
    <3>. QED BY <1>2, <1>5, <3>1, <3>2, SyncedKeeps
  <2>. QED BY <2>1, <2>2
<1>7. \A t \in swallowed' : Has(Opening(t))'
  BY <1>3, <1>4 DEF Swallowed, Has, source
<1>8. target'.lifecycle \in {"ACTIVE", "MISSING_GRACE"} =>
         \A t \in swallowed' : happened'[Opening(t)] <= target'.through
  <2>. SUFFICES ASSUME target'.lifecycle \in {"ACTIVE", "MISSING_GRACE"}, NEW t \in swallowed'
                PROVE  happened'[Opening(t)] <= target'.through
    OBVIOUS
  <2>1. /\ target.lifecycle \in Resident \ {"RETIRING"} /\ target'.through = target.through
        /\ t \in swallowed /\ happened' = happened
    BY <1>3, <1>4, <1>6 DEF Resident, source
  <2>2. target.lifecycle # "ENROLLING"
    BY <1>2, <2>1 DEF Swallowed, Resident, TargetSound, Staged
  <2>. QED BY <2>1, <2>2 DEF Swallowed, Resident
<1>9. target'.lifecycle \in Resident /\ ~ target'.openInit => swallowed' = {}
  BY <1>4, <1>6 DEF Swallowed
<1>. QED BY <1>3, <1>7, <1>8, <1>9 DEF Swallowed

LEMMA SwallowedHappen ==
  ASSUME Base, Swallowed, NEW e \in Events, Happen(e)
  PROVE Swallowed'
<1>1. /\ \A f \in Events : f # e => happened'[f] = happened[f]
      /\ UNCHANGED <<target, scan, history>>
  BY HappenFacts DEF Base
<1>2. ~ Has(e)
  BY DEF Happen
<1>3. \A t \in swallowed : Opening(t) \in Events /\ Opening(t) # e
  <2>. SUFFICES ASSUME NEW t \in swallowed PROVE Opening(t) \in Events /\ Opening(t) # e
    OBVIOUS
  <2>1. Has(Opening(t))
    BY DEF Swallowed
  <2>2. t \in Trades
    BY DEF Base, TypeOK
  <2>3. Opening(t) # e
    BY <1>2, <2>1 DEF Has
  <2>. QED BY <2>2, <2>3, EventFacts
<1>4. \A t \in swallowed : happened'[Opening(t)] = happened[Opening(t)]
  BY <1>1, <1>3
<1>5. /\ target' = target /\ scan' = scan /\ swallowed' = swallowed
  BY <1>1 DEF history
<1>6. \A t \in swallowed' : Has(Opening(t))'
  BY <1>4, <1>5 DEF Swallowed, Has
<1>7. target'.lifecycle \in {"ACTIVE", "MISSING_GRACE"} =>
         \A t \in swallowed' : happened'[Opening(t)] <= target'.through
  BY <1>4, <1>5 DEF Swallowed
<1>8. target'.lifecycle \in Resident /\ ~ target'.openInit => swallowed' = {}
  BY <1>5 DEF Swallowed
<1>9. \A t \in swallowed' : Opening(t) \in scan'.left => target'.lifecycle = "RETIRING"
  BY <1>5 DEF Swallowed
<1>. QED BY <1>6, <1>7, <1>8, <1>9 DEF Swallowed

(* A hydration of a watched portfolio captures only what is past the watermark. *)
LEMMA SwallowedOpen ==
  ASSUME Base, Swallowed, HydrateOpen
  PROVE Swallowed'
<1>1. /\ target' = target /\ target.lifecycle \in {"ACTIVE", "MISSING_GRACE"}
      /\ scan.captured = {}
      /\ scan'.left = scan.left \/ scan'.left = OpenSignals(target.through)
      /\ UNCHANGED <<source, history>>
  BY HydrateOpenFacts
<1>2. scan.left = {}
  BY <1>1 DEF Base, ScanShape
<1>3. \A t \in swallowed : Opening(t) \notin OpenSignals(target.through)
  <2>. SUFFICES ASSUME NEW t \in swallowed, Opening(t) \in OpenSignals(target.through)
                PROVE  FALSE
    OBVIOUS
  <2>1. t \in Trades /\ target.through \in Nat /\ happened[Opening(t)] \in Nat
    BY TypeFacts, TargetFields, EventFacts DEF Base, TypeOK
  <2>2. \A u \in Trades : Opening(u) = Opening(t) => u = t
    BY <2>1, EventFacts
  <2>3. \A u \in OpenRows : u \in Trades /\ Raising(u) # Opening(t)
    BY <2>1, EventFacts DEF OpenRows
  <2>4. happened[Opening(t)] > target.through
    BY <2>2, <2>3 DEF OpenSignals
  <2>5. happened[Opening(t)] <= target.through
    BY <1>1 DEF Swallowed
  <2>. QED BY <2>1, <2>4, <2>5
<1>. QED BY <1>1, <1>2, <1>3 DEF Swallowed, Has, source, history

LEMMA SwallowedCrash ==
  ASSUME Base, Swallowed, Crash
  PROVE Swallowed'
<1>1. TypeOK /\ target \in Target /\ Staged(target)
  BY TypeFacts DEF Base, TargetSound
<1>2. target' \in Target /\ SameCursor(target, target') /\ scan' = Idle /\ UNCHANGED <<source, history>>
  BY CrashFacts
<1>3. CASE target' = target
  BY <1>1, <1>2, <1>3, SwallowedSame, IdleFields, TargetFields DEF source, history
<1>4. CASE target' # target
  <2>1. target' = Migrated(target)
    BY <1>4 DEF Crash
  <2>2. target.lifecycle \in Resident /\ ~ target.openInit
    BY <1>1, <1>4, <2>1 DEF Migrated, Staged
  <2>3. target' = [target EXCEPT !.lifecycle = "ENROLLING", !.openInit = FALSE]
    BY <1>4, <2>1 DEF Migrated
  <2>4. target'.lifecycle = "ENROLLING"
    BY <1>1, <2>3 DEF Target
  <2>5. swallowed' = {}
    BY <1>2, <2>2 DEF Swallowed, history
  <2>. QED BY <2>4, <2>5 DEF Swallowed
<1>. QED BY <1>3, <1>4

LEMMA SwallowedNext ==
  ASSUME Base, scan.rows \subseteq ClosedRows, Swallowed, [Next]_vars
  PROVE Swallowed'
<1>1. /\ TypeOK /\ Exposure /\ target \in Target /\ TargetSound(target, now)
      /\ scan \in Scan /\ target.through \in Nat
  BY TypeFacts, TargetFields DEF Base
<1>2. CASE Tick
  BY <1>1, <1>2, SwallowedSame DEF Tick, source, history
<1>3. ASSUME NEW e \in Events, Happen(e) PROVE Swallowed'
  BY <1>3, SwallowedHappen
<1>4. ASSUME NEW e \in Entries, FeedEntry(e) PROVE Swallowed'
  <2>1. UNCHANGED <<source, target, scan>> /\ swallowed' = swallowed
    BY <1>1, <1>4, ExecuteFacts DEF FeedEntry
  <2>. QED BY <1>1, <2>1, SwallowedSame DEF source
<1>5. ASSUME NEW t \in Trades, FeedClose(t) PROVE Swallowed'
  <2>1. UNCHANGED <<source, target, scan>> /\ swallowed' = swallowed
    BY <1>1, <1>5, ExecuteCloseFacts DEF FeedClose
  <2>. QED BY <1>1, <2>1, SwallowedSame DEF source
<1>6. CASE Begin
  BY <1>6, SwallowedBegin
<1>7. CASE HydrateBaseline
  BY <1>7, SwallowedBaseline
<1>8. CASE HydrateOpen
  BY <1>8, SwallowedOpen
<1>9. CASE HydrateRetiring
  <2>1. /\ target' \in Target /\ Keeps(target, target') /\ SameRecord(target, target')
        /\ target.lifecycle = "RETIRING" /\ UNCHANGED <<source, history>>
    BY <1>9, HydrateRetiringFacts
  <2>2. target'.openInit = target.openInit /\ target'.lifecycle = "RETIRING"
    BY <1>9, <2>1, BaselineKept DEF SameRecord
  <2>3. \A t \in swallowed' : Has(Opening(t))'
    BY <2>1 DEF Swallowed, Has, source, history
  <2>4. target'.lifecycle \in Resident /\ ~ target'.openInit => swallowed' = {}
    BY <2>1, <2>2 DEF Swallowed, Resident, history
  <2>. QED BY <2>2, <2>3, <2>4 DEF Swallowed
<1>10. CASE FailOpen
  <2>1. scan'.left = {} /\ UNCHANGED <<source, target, history>>
    BY <1>10, FailOpenFacts
  <2>. QED BY <1>1, <2>1, SwallowedSame DEF source, history
<1>11. CASE BaselineClosed
  <2>1. /\ target' \in Target /\ target'.through = target.through
        /\ target'.lifecycle = target.lifecycle
        /\ scan'.left = scan.left /\ UNCHANGED <<source, history>>
    BY <1>11, BaselineClosedFacts DEF SameOpen
  <2>2. target'.openInit = target.openInit
    BY <1>11, BaselineKept
  <2>. QED BY <1>1, <2>1, <2>2, SwallowedSame DEF source, history
<1>12. ASSUME NEW rows \in SUBSET ClosedRows, NEW unready \in SUBSET ClosedRows,
              ReadClosed(rows, unready)
       PROVE Swallowed'
  <2>1. /\ target' \in Target /\ target'.through = target.through
        /\ target'.lifecycle = target.lifecycle
        /\ scan'.left = scan.left /\ UNCHANGED <<source, history>>
    BY <1>12, ReadClosedFacts DEF SameOpen
  <2>2. target'.openInit = target.openInit
    BY <1>12, BaselineKept
  <2>. QED BY <1>1, <2>1, <2>2, SwallowedSame DEF source, history
<1>13. CASE FailClosed
  <2>1. /\ target' \in Target /\ target'.through = target.through
        /\ target'.lifecycle = target.lifecycle
        /\ scan'.left = {} /\ UNCHANGED <<source, history>>
    BY <1>13, FailClosedFacts
  <2>2. target'.openInit = target.openInit
    BY <1>13, BaselineKept
  <2>. QED BY <1>1, <2>1, <2>2, SwallowedSame DEF source, history
<1>14. CASE CommitClosed
  <2>1. /\ target' \in Target /\ target'.through = target.through
        /\ target'.lifecycle = target.lifecycle
        /\ scan'.left \subseteq scan.left /\ UNCHANGED <<source, history>>
    BY <1>14, CommitClosedFacts
  <2>2. target'.openInit = target.openInit
    BY <1>14, BaselineKept
  <2>. QED BY <1>1, <2>1, <2>2, SwallowedSame DEF source, history
<1>15. ASSUME NEW t \in Trades, ExecuteClosed(t) PROVE Swallowed'
  <2>1. scan'.left = scan.left /\ ExecuteClose(t) /\ UNCHANGED <<source, target>>
    BY <1>1, <1>15, ExecuteClosedFacts DEF SameOpen
  <2>2. swallowed' = swallowed
    BY <2>1 DEF ExecuteClose
  <2>. QED BY <1>1, <2>1, <2>2, SwallowedSame DEF source
<1>16. CASE EndHydration
  <2>1. scan'.left \subseteq scan.left /\ UNCHANGED <<source, target, history>>
    BY <1>1, <1>16, EndHydrationFacts, IdleFields
  <2>. QED BY <1>1, <2>1, SwallowedSame DEF source, history
<1>17. ASSUME NEW e \in Entries, Flush(e) PROVE Swallowed'
  <2>1. scan'.left \subseteq scan.left /\ UNCHANGED <<source, target>> /\ swallowed' = swallowed
    BY <1>1, <1>17, FlushFacts
  <2>. QED BY <1>1, <2>1, SwallowedSame DEF source
<1>18. CASE CommitFlush
  <2>1. /\ target' \in Target /\ Keeps(target, target') /\ SameRecord(target, target')
        /\ scan' = Idle /\ UNCHANGED <<source, history>>
    BY <1>18, CommitFlushFacts
  <2>2. target'.openInit = target.openInit
    BY <1>18, BaselineKept
  <2>. QED BY <1>1, <2>1, <2>2, SwallowedSame, IdleFields DEF source, history, Keeps, SameRecord
<1>19. CASE Crash
  BY <1>19, SwallowedCrash
<1>20. CASE UNCHANGED vars
  BY <1>1, <1>20, SwallowedSame DEF vars, source, history
<1>. QED BY <1>2, <1>3, <1>4, <1>5, <1>6, <1>7, <1>8, <1>9, <1>10, <1>11, <1>12, <1>13, <1>14,
            <1>15, <1>16, <1>17, <1>18, <1>19, <1>20 DEF Next, Hydrate

LEMMA SwallowedHolds == Spec => []Swallowed
<1>1. Init => Swallowed
  BY DEF Init, Swallowed
<1>2. IInv /\ Swallowed /\ [Next]_vars => Swallowed'
  BY SwallowedNext DEF IInv, Base, RowsAreOldest
<1>. QED BY <1>1, <1>2, Invariance, PTL DEF Spec

(* A step other than a flush that drops a captured signal leaves the exposure. *)
LEMMA LeftNext ==
  ASSUME Base, scan.rows \subseteq ClosedRows, [Next]_vars,
         ~ \E e \in Entries : Flush(e)
  PROVE managed' = managed \/ scan.left \subseteq scan'.left
<1>1. TypeOK
  BY DEF Base
<1>2. CASE Tick \/ Begin \/ EndHydration \/ CommitFlush \/ Crash \/ UNCHANGED vars
  <2>1. CASE Begin
    BY <2>1 DEF Begin, BeginScan, executor
  <2>2. CASE Tick \/ EndHydration
    BY <2>2 DEF Tick, EndHydration, executor
  <2>3. CASE CommitFlush \/ Crash
    BY <2>3 DEF CommitFlush, Crash, executor
  <2>4. CASE UNCHANGED vars
    BY <2>4 DEF vars, executor
  <2>. QED BY <1>2, <2>1, <2>2, <2>3, <2>4
<1>3. ASSUME NEW e \in Events, Happen(e) PROVE managed' = managed
  BY <1>3 DEF Happen, executor
<1>4. ASSUME NEW e \in Entries, FeedEntry(e) PROVE scan' = scan
  BY <1>4 DEF FeedEntry
<1>5. ASSUME NEW t \in Trades, FeedClose(t) PROVE scan' = scan
  BY <1>5 DEF FeedClose
<1>6. CASE HydrateBaseline \/ HydrateOpen \/ HydrateRetiring \/ FailOpen
  BY <1>6 DEF HydrateBaseline, HydrateOpen, HydrateRetiring, FailOpen, executor
<1>7. CASE BaselineClosed \/ FailClosed \/ CommitClosed
  BY <1>7 DEF BaselineClosed, FailClosed, CommitClosed, executor
<1>8. ASSUME NEW rows \in SUBSET ClosedRows, NEW unready \in SUBSET ClosedRows,
             ReadClosed(rows, unready)
      PROVE managed' = managed
  BY <1>8 DEF ReadClosed, executor
<1>9. ASSUME NEW t \in Trades, ExecuteClosed(t) PROVE scan'.left = scan.left
  BY <1>1, <1>9, ExecuteClosedFacts DEF SameOpen
<1>. QED BY <1>2, <1>3, <1>4, <1>5, <1>6, <1>7, <1>8, <1>9 DEF Next, Hydrate

-----------------------------------------------------------------------------
(***************************************************************************)
(* While a portfolio is watched no open of its baseline is copied.  Its    *)
(* retirement may capture one, and copies it only if it came before that   *)
(* open was too old.                                                       *)
(***************************************************************************)
THEOREM BaselineNotCopiedHolds == Spec => BaselineNotCopied
<1>. DEFINE History(t) == Opening(t) \in scan.left \ scan'.left =>
                \/ managed' = managed
                \/ /\ target.lifecycle = "RETIRING"
                   /\ target.retiredAt <= happened[Opening(t)] + MaxSignalAge
<1>1. IInv /\ Swallowed /\ [Next]_vars => [\A t \in swallowed : History(t)]_vars
  <2>. SUFFICES ASSUME IInv, Swallowed, [Next]_vars, NEW t \in swallowed,
                       Opening(t) \in scan.left \ scan'.left, managed' # managed
                PROVE  /\ target.lifecycle = "RETIRING"
                       /\ target.retiredAt <= happened[Opening(t)] + MaxSignalAge
    OBVIOUS
  <2>1. Base /\ TypeOK /\ Exposure /\ scan.rows \subseteq ClosedRows
    BY DEF IInv, Base, RowsAreOldest
  <2>2. PICK e \in Entries : Flush(e)
    BY <2>1, LeftNext
  <2>3. e = Opening(t)
    BY <2>1, <2>2, FlushFacts
  <2>4. now <= happened[e] + MaxSignalAge
    <3>1. UNCHANGED executor \/ Execute(e, TRUE)
      BY <2>2 DEF Flush
    <3>2. Execute(e, TRUE)
      BY <3>1 DEF executor
    <3>3. ~ now > happened[e] + MaxSignalAge
      BY <3>2 DEF Execute
    <3>4. now \in Nat /\ happened[e] \in Nat
      BY <2>1, TypeFacts, EventForms
    <3>. QED BY <3>3, <3>4, WatchAssumption
  <2>5. target.lifecycle = "RETIRING"
    BY DEF Swallowed
  <2>6. target.retiredAt <= now /\ target.retiredAt \in Nat /\ now \in Nat /\ happened[e] \in Nat
    BY <2>1, TypeFacts, TargetFields, EventForms DEF Base, TargetSound, Clocked
  <2>. QED BY <2>3, <2>4, <2>5, <2>6, WatchAssumption
<1>. QED BY <1>1, Invariance, SwallowedHolds, PTL DEF Spec, BaselineNotCopied
=============================================================================
