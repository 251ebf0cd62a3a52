----------------------------- MODULE EliteTargets -----------------------------
(***************************************************************************)
(* What EliteDirectWatchState keeps of one portfolio, and how each of its  *)
(* methods changes it.  Every operator takes the stored record and gives   *)
(* the one that replaces it; DirectWatch says when they are called.        *)
(*                                                                         *)
(* Moments are milliseconds in the code and natural numbers here; 0 stands *)
(* for null.  Left out: owner, score and selector fields, the resident cap *)
(* and quality displacement (scanEliteDirectWatch passes an unlimited      *)
(* cap), and the poll times, which only decide when a poll is due.         *)
(***************************************************************************)
EXTENDS Naturals, Sequences

CONSTANTS
    Trades,                  \* sourceBaseId
    NegativeMinObservations, \* cfg.directWatchNegativeMinObservations
    NegativeGrace,           \* cfg.directWatchNegativeGraceMs
    RetirementGrace          \* retirementGraceMs of syncTargets: two minutes

ASSUME GraceAssumption ==
    /\ NegativeMinObservations \in Nat \ {0}
    /\ NegativeGrace \in Nat
    /\ RetirementGrace \in Nat \ {0}

Resident == {"ENROLLING", "ACTIVE", "MISSING_GRACE", "RETIRING"}

(* An admission: from admittedAtMs, until admittedUntilMs. *)
Interval == [from : Nat, until : Nat]

(* openInit: openHistoryInitialized, which is when admittedAtMs is not null. *)
Target == [lifecycle : Resident \cup {"NONE", "TOMBSTONE"},
           baselineAt : Nat, intervals : Seq(Interval),
           openInit : BOOLEAN, through : Nat,
           closedInit : BOOLEAN, closedThrough : Nat, closedIds : SUBSET Trades,
           firstNegativeAt : Nat, lastNegativeAt : Nat, negatives : Nat,
           retiredAt : Nat, openProofs : Nat, closedProofs : Nat]

NoTarget == [lifecycle |-> "NONE", baselineAt |-> 0, intervals |-> <<>>,
             openInit |-> FALSE, through |-> 0,
             closedInit |-> FALSE, closedThrough |-> 0, closedIds |-> {},
             firstNegativeAt |-> 0, lastNegativeAt |-> 0, negatives |-> 0,
             retiredAt |-> 0, openProofs |-> 0, closedProofs |-> 0]

Later(m, n) == IF m > n THEN m ELSE n

(* The latest of a set of moments, or floor. *)
Latest(moments, floor) ==
    CHOOSE m \in moments \cup {floor} : \A n \in moments \cup {floor} : n <= m

(* Counters are compared with a threshold: they are kept up to it. *)
CountUpTo(limit, n) == IF n < limit THEN n + 1 ELSE limit

RetireAfter(t) == t.retiredAt + RetirementGrace

-----------------------------------------------------------------------------
(* syncTargets *)

CloseAdmission(intervals, n) ==
    IF intervals # <<>> /\ intervals[Len(intervals)].until = 0
    THEN [intervals EXCEPT ![Len(intervals)] = [from |-> @.from, until |-> n]]
    ELSE intervals

(* A qualified portfolio that is not resident starts, or resumes its tombstone. *)
Enrol(t, n) ==
    LET known == t.lifecycle = "TOMBSTONE"
        closedThrough == IF known THEN Later(n, t.closedThrough) ELSE 0 IN
    [NoTarget EXCEPT
        !.lifecycle = "ENROLLING",
        !.baselineAt = IF known THEN t.baselineAt ELSE n,
        !.intervals = t.intervals,
        !.through = Later(n, t.through),
        !.closedInit = t.closedInit,
        !.closedThrough = closedThrough,
        !.closedIds = IF known /\ closedThrough = t.closedThrough THEN t.closedIds ELSE {}]

(* A resident that qualifies again must establish its OPEN baseline again. *)
EnrolAgain(t, intervals) ==
    [t EXCEPT
        !.lifecycle = "ENROLLING", !.openInit = FALSE, !.intervals = intervals,
        !.firstNegativeAt = 0, !.lastNegativeAt = 0, !.negatives = 0,
        !.retiredAt = 0, !.openProofs = 0, !.closedProofs = 0]

(* Mutant: the admission stays open. *)
RequalifyAdmitted(t, n) == EnrolAgain(t, t.intervals)

Requalify(t, n) == EnrolAgain(t, CloseAdmission(t.intervals, n))

Qualified(t, n) ==
    CASE t.lifecycle \in {"NONE", "TOMBSTONE"} -> Enrol(t, n)
      [] t.lifecycle \in {"MISSING_GRACE", "RETIRING"} -> Requalify(t, n)
      [] OTHER -> t

(* An explicit non-elite row, observed at seenAt, that was not counted yet. *)
Negative(t, n, seenAt) ==
    LET first == IF t.firstNegativeAt = 0 THEN seenAt ELSE t.firstNegativeAt
        counted == [t EXCEPT
            !.firstNegativeAt = first, !.lastNegativeAt = seenAt,
            !.negatives = CountUpTo(NegativeMinObservations, @)] IN
    IF counted.negatives >= NegativeMinObservations /\ seenAt >= first + NegativeGrace
    THEN [counted EXCEPT
            !.lifecycle = "RETIRING", !.retiredAt = n,
            !.intervals = CloseAdmission(t.intervals, n),
            !.openProofs = 0, !.closedProofs = 0]
    ELSE [counted EXCEPT !.lifecycle = "MISSING_GRACE"]

Demoted(t, n, seenAt) ==
    IF t.lifecycle \in Resident \ {"RETIRING"} /\ seenAt # t.lastNegativeAt
    THEN Negative(t, n, seenAt)
    ELSE t

(* Both endpoints were seen empty twice after the grace. *)
Quiet(t, n) ==
    /\ t.lifecycle = "RETIRING"
    /\ t.openProofs >= 2
    /\ t.closedProofs >= 2
    /\ n >= RetireAfter(t)
    /\ t.closedInit

(* Mutant: exposure does not keep its portfolio resident. *)
DrainedOwned(t, n, owned) == Quiet(t, n)

(* Retirement is complete: the target may be forgotten but for its watermarks. *)
Drained(t, n, owned) == Quiet(t, n) /\ ~ owned

Bury(t) ==
    [t EXCEPT !.lifecycle = "TOMBSTONE", !.firstNegativeAt = 0, !.lastNegativeAt = 0,
              !.negatives = 0, !.openProofs = 0, !.closedProofs = 0]

(* verdict: the fresh row of the portfolio is elite, is not, or is absent. *)
Synced(t, n, verdict, seenAt, owned) ==
    LET judged == CASE verdict = "elite" -> Qualified(t, n)
                    [] verdict = "demoted" -> Demoted(t, n, seenAt)
                    [] OTHER -> t IN
    IF Drained(judged, n, owned) THEN Bury(judged) ELSE judged

-----------------------------------------------------------------------------
(* The commits of a hydration. *)

ActiveFrom(t, admitted, through) ==
    [t EXCEPT !.lifecycle = "ACTIVE", !.openInit = TRUE,
              !.through = Later(@, through),
              !.intervals = Append(@, [from |-> admitted, until |-> 0])]

(* Mutant: rows newer than the start of the scan are not part of the baseline. *)
OpenBaselinedAtStart(t, updates, polledAt) == ActiveFrom(t, polledAt, polledAt)

(* commitOpenBaseline: what is visible now is history and is never copied. *)
OpenBaselined(t, updates, polledAt) == ActiveFrom(t, polledAt, Latest(updates, polledAt))

(* commitHydration *)
OpenCommitted(t, highWater) == [t EXCEPT !.through = Later(@, highWater)]

(* created: when the visible trades were opened. *)
OpenedWhileSelected(t, created) == \E m \in created : t.baselineAt <= m /\ m <= t.retiredAt

(* Mutant: a poll before the end of the grace counts as well. *)
RetirementPolledEarly(t, created, polledAt) ==
    [t EXCEPT !.openProofs = IF OpenedWhileSelected(t, created) THEN 0 ELSE CountUpTo(2, @)]

(* commitRetirementOpenPoll: an empty poll after the grace is a proof. *)
RetirementPolled(t, created, polledAt) ==
    [t EXCEPT !.openProofs =
        IF polledAt >= RetireAfter(t) /\ ~ OpenedWhileSelected(t, created)
        THEN CountUpTo(2, @) ELSE 0]

(* initializeRetirementDrain *)
DrainStarted(t) ==
    IF t.closedInit THEN t
    ELSE [t EXCEPT !.closedInit = TRUE, !.closedThrough = t.baselineAt, !.closedIds = {}]

ClosedTo(t, newest, closes, polledAt) ==
    [t EXCEPT
        !.closedInit = TRUE,
        !.closedThrough = newest,
        !.closedIds = (IF newest = t.closedThrough THEN t.closedIds ELSE {})
                          \cup {r \in DOMAIN closes : closes[r] = newest},
        !.closedProofs = IF t.lifecycle = "RETIRING" /\ polledAt >= RetireAfter(t)
                         THEN CountUpTo(2, @) ELSE @]

Moments(closes) == {closes[r] : r \in DOMAIN closes}

(* Mutant: the watermark is the newest row of the last poll. *)
ClosedCommittedAnew(t, closes, polledAt) ==
    ClosedTo(t, Latest(Moments(closes), 0), closes, polledAt)

(* commitClosedHydration: closes gives the moment of each CLOSED row. *)
ClosedCommitted(t, closes, polledAt) ==
    ClosedTo(t, Latest(Moments(closes), t.closedThrough), closes, polledAt)

-----------------------------------------------------------------------------
(* Mutant: the CLOSED watermark is established again as well. *)
MigratedWholly(t) ==
    IF t.lifecycle \in Resident /\ ~ (t.openInit /\ t.closedInit)
    THEN [t EXCEPT !.lifecycle = "ENROLLING", !.openInit = FALSE, !.closedInit = FALSE]
    ELSE t

(* load: a snapshot row that is not fully initialized starts to enrol again. *)
Migrated(t) ==
    IF t.lifecycle \in Resident /\ ~ (t.openInit /\ t.closedInit)
    THEN [t EXCEPT !.lifecycle = "ENROLLING", !.openInit = FALSE]
    ELSE t

(***************************************************************************)
(* The moments at which the published index admits signals of the          *)
(* portfolio (writeAdmissionIndex): its admissions, if it has a row.       *)
(***************************************************************************)
AdmitsAt(t, moment) ==
    /\ t.lifecycle \in {"ACTIVE", "MISSING_GRACE", "RETIRING", "TOMBSTONE"}
    /\ t.openInit /\ t.closedInit
    /\ \E i \in DOMAIN t.intervals :
          /\ t.intervals[i].from <= moment
          /\ t.intervals[i].until = 0 \/ moment < t.intervals[i].until

(***************************************************************************)
(* A CLOSED row that hydration would still hand to the executor            *)
(* (classifyClosedHydrationRows).                                          *)
(***************************************************************************)
FreshClose(t, r, moment) ==
    \/ moment > t.closedThrough
    \/ moment = t.closedThrough /\ r \notin t.closedIds

(* What normalizedAdmissionIntervals requires when the state is loaded. *)
OrderedIntervals(intervals) ==
    \A i \in DOMAIN intervals :
        /\ intervals[i].from > 0
        /\ intervals[i].until = 0 => i = Len(intervals)
        /\ intervals[i].until # 0 => intervals[i].from <= intervals[i].until
        /\ i > 1 => intervals[i - 1].until <= intervals[i].from
=============================================================================
