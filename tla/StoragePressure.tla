--------------------------- MODULE StoragePressure ---------------------------
(***************************************************************************)
(* The hourly storage decision, the guard that obeys it and the exit gate: *)
(* scripts/storage_controller.py, hyperliquid_storage_guard.sh and         *)
(* storage_exit_gate_report.py.                                            *)
(*                                                                         *)
(* Two datasets lie on one mount, the database that is never stopped and   *)
(* the tape whose writer may be; sizes are in units of the mount.  The     *)
(* controller may fail to run, and its policy or a governed path may be    *)
(* unreadable.                                                             *)
(***************************************************************************)
EXTENDS Integers, FiniteSets, Sequences

CONSTANTS
    LastHour,         \* bound on the clock
    Capacity, StopUsed, ResumeUsed, WarnUsed,   \* of the mount
    TapeBudget, TapeGrowth,     \* byte_budget, growth_budget_bytes_per_hour of the tape
    HistoryWindow,    \* history_window_hours
    MinForecast,      \* minimum_forecast_hours
    UnaccountedBudget,
    MaxDecisionAge,   \* HLCOPY_STORAGE_DECISION_MAX_AGE_SECONDS
    PostObservations, \* 24, the observations the exit gate wants
    BoundUsed,        \* the 75 percent of the exit gate
    Burst             \* what the capture may write in an hour

ASSUME PressureAssumption ==
    /\ WarnUsed < ResumeUsed /\ ResumeUsed < StopUsed /\ StopUsed < Capacity
    /\ {Capacity, StopUsed, ResumeUsed, WarnUsed, TapeBudget, TapeGrowth, HistoryWindow, MinForecast,
        UnaccountedBudget, MaxDecisionAge, PostObservations, BoundUsed} \subseteq Nat
    /\ {LastHour, Burst} \subseteq Nat \ {0}

VARIABLES
    clock,       \* the hour
    size,        \* [db, tape, other]: bytes on the mount
    capturing,   \* whether the capture runs
    readable,    \* whether the policy and the governed paths can be read
    history,     \* the observations: [at, failed, pressure, action, size, within]
    done,        \* what happened this hour: a subset of {"decide", "guard"}
    completedAt, \* when the postgres compaction completed
    exitReady    \* the verdict of the exit gate

spVars == <<clock, size, capturing, readable, history, done, completedAt, exitReady>>

Used == size.db + size.tape + size.other
Latest == history[Len(history)]

-----------------------------------------------------------------------------
(* _median_rate: over all pairs of at least three samples, [at, bytes].  A *)
(* rate is counted in parts of a byte, so that it and the mean of two are  *)
(* whole; a negative median is none.                                       *)
ByteParts == 240
Pairs(samples) == {p \in samples \X samples : p[1].at < p[2].at}
PairRate(p) == ((p[2].bytes - p[1].bytes) * (ByteParts \div 2)) \div (p[2].at - p[1].at)
RateAtRank(pairs, k) ==
    CHOOSE r \in {PairRate(p) : p \in pairs} :
        /\ Cardinality({p \in pairs : PairRate(p) < r}) < k
        /\ Cardinality({p \in pairs : PairRate(p) <= r}) >= k
Rated(samples) == Cardinality(samples) >= 3
MedianRate(samples) ==
    LET pairs == Pairs(samples)
        n == Cardinality(pairs)
        sum == RateAtRank(pairs, (n + 1) \div 2) + RateAtRank(pairs, n \div 2 + 1)
    IN IF sum < 0 THEN 0 ELSE sum

(* decide: the observations of the window, and the present one.            *)
Windowed == {i \in DOMAIN history : clock - history[i].at \in 1 .. HistoryWindow}
Samples(dataset) ==
    {[at |-> history[i].at, bytes |-> history[i].size[dataset]] :
        i \in {j \in Windowed : ~history[j].failed}}
    \cup {[at |-> clock, bytes |-> size[dataset]]}
Rate(dataset) == IF Rated(Samples(dataset)) THEN MedianRate(Samples(dataset)) ELSE 0
Forecast ==
    LET rate == Rate("db") + Rate("tape")
    IN rate = 0 \/ (Capacity - Used) * ByteParts >= MinForecast * rate
Within ==
    /\ size.tape <= TapeBudget /\ Rate("tape") <= TapeGrowth * ByteParts
    /\ size.other <= UnaccountedBudget /\ Forecast
PressureNow == Used >= StopUsed \/ ~Within
Pressure == PressureNow \/ (history # <<>> /\ Latest.pressure /\ Used > ResumeUsed)

(* Without a previous observation only the explicit baseline is decided.   *)
CannotDecide(baseline) ==
    \/ ~readable
    \/ history = <<>> /\ ~baseline
    \/ history # <<>> /\ clock - Latest.at > HistoryWindow
Stops(pressure, baseline) == pressure \/ CannotDecide(baseline)

(* The manager keeps a bounded history.                                    *)
Bounded(observations) ==
    IF Len(observations) > HistoryWindow THEN Tail(observations) ELSE observations
Decide(baseline) ==
    /\ "decide" \notin done
    /\ LET stops == Stops(Pressure, baseline) IN
        history' = Bounded(Append(history,
            [at |-> clock, failed |-> CannotDecide(baseline), pressure |-> stops,
             action |-> IF stops THEN "STOP" ELSE IF Used >= WarnUsed THEN "WARN" ELSE "ALLOW",
             size |-> size, within |-> Within /\ Used < BoundUsed]))
    /\ done' = done \cup {"decide"}
    /\ UNCHANGED <<clock, size, capturing, readable, completedAt, exitReady>>

-----------------------------------------------------------------------------
(* The guard stops on pressure and on a decision that is missing or stale; *)
(* only the manager resumes, and only on a later ALLOW.                    *)
DecisionAny == history # <<>>
DecisionFresh == history # <<>> /\ clock - Latest.at <= MaxDecisionAge
Guard ==
    /\ "guard" \notin done
    /\ capturing' = (capturing /\ DecisionFresh /\ Latest.action # "STOP")
    /\ done' = done \cup {"guard"}
    /\ UNCHANGED <<clock, size, readable, history, completedAt, exitReady>>
ResumeCapture ==
    /\ ~capturing /\ DecisionFresh /\ Latest.action = "ALLOW"
    /\ capturing' = TRUE
    /\ UNCHANGED <<clock, size, readable, history, done, completedAt, exitReady>>

(* The timer of the guard fires each hour, that of the controller may not. *)
HourEnds ==
    /\ clock < LastHour /\ "guard" \in done
    /\ clock' = clock + 1 /\ done' = {}
    /\ \E grown \in IF capturing THEN {0, 1, Burst} ELSE {0} :
        size' = [size EXCEPT !.tape = @ + grown]
    /\ readable' \in BOOLEAN
    /\ UNCHANGED <<capturing, history, completedAt, exitReady>>

(* The compaction of the database completes while the writers are stopped. *)
Reclaim ==
    /\ completedAt = 0 /\ ~capturing /\ size.db > 1
    /\ completedAt' = clock
    /\ size' = [size EXCEPT !.db = 1]
    /\ UNCHANGED <<clock, capturing, readable, history, done, exitReady>>

-----------------------------------------------------------------------------
(* storage_exit_gate_report.py evaluate.                                   *)

Post == {i \in DOMAIN history : completedAt > 0 /\ history[i].at > completedAt}
Spans == \E i, j \in Post : history[j].at - history[i].at >= PostObservations - 1
Checks ==
    /\ Cardinality(Post) >= PostObservations /\ Spans
    /\ \A i \in Post : history[i].action = "ALLOW" /\ ~history[i].failed /\ history[i].within
Evaluate ==
    /\ exitReady' = Checks
    /\ UNCHANGED <<clock, size, capturing, readable, history, done, completedAt>>

PressureInit ==
    /\ clock = 1
    /\ size \in [db : {1, 2}, tape : {1}, other : {0, 1}] /\ Used < Capacity
    /\ capturing \in BOOLEAN /\ readable \in BOOLEAN
    /\ history = <<>> /\ done = {} /\ completedAt = 0 /\ exitReady = FALSE

PressureNext ==
    \/ \E baseline \in BOOLEAN : Decide(baseline)
    \/ Guard \/ ResumeCapture \/ HourEnds \/ Reclaim \/ Evaluate
PressureSpec == PressureInit /\ [][PressureNext]_spVars

-----------------------------------------------------------------------------
(* Properties.                                                             *)

(* Type invariant; no observation says that writers may go on although it  *)
(* could not be made.                                                      *)
PressureTypeOK ==
    /\ clock \in 1 .. LastHour /\ done \subseteq {"decide", "guard"}
    /\ \A i \in DOMAIN history :
        /\ history[i].at \in 1 .. clock
        /\ history[i].failed => history[i].action = "STOP"

(* Whenever the controller stops running, whatever it cannot read and      *)
(* however the capture bursts, the margin between the stop threshold and   *)
(* the capacity covers what is written until the guard acts.               *)
NeverFull == Used < Capacity

(* What the capture may write from the last decision that let it run until *)
(* the guard stops it: as long as that decision is fresh, and one hour.    *)
MarginCovers == StopUsed + (MaxDecisionAge + 1) * Burst <= Capacity

(* The disk does not fill, whatever of capture, controller and guard fails. *)
PressureHandled == PressureTypeOK /\ NeverFull

(* The exit gate is documented to stay open when a sample of the history   *)
(* is stale: its verdict rests on an observation of the last hours.        *)
ReadyOnFreshHistory ==
    [][exitReady' /\ ~exitReady => DecisionFresh]_spVars

=============================================================================
