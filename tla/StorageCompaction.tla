-------------------------- MODULE StorageCompaction --------------------------
(***************************************************************************)
(* scripts/postgres_storage_compact_v1.py: the reviewed compaction of the  *)
(* two largest relations, beside the collectors that go on writing through *)
(* src/hlcopy/db/postgres.py.                                              *)
(*                                                                         *)
(* raw_api_responses holds observations, whose bodies are moved to a store *)
(* that is addressed by their hash; leaderboard_snapshots is thinned to    *)
(* the latest snapshot of each bin up to a reviewed cutoff.  Every psql    *)
(* call is a session of its own, so that a collector, or a crash, can come *)
(* between any two of them.  A snapshot is one row; a body stands for the  *)
(* JSON, and the empty body is what a blanked observation holds.           *)
(***************************************************************************)
EXTENDS Integers, FiniteSets, FiniteSetsExt

CONSTANTS
    MaxHour,        \* bound on the clock
    BinHours,       \* HISTORICAL_BIN_HOURS
    SnapshotGap,    \* snapshot_min_interval_minutes
    MaxPlanAge,     \* MAX_PLAN_AGE_HOURS
    MaxNewRows,     \* MAX_RAW_API_POST_PLAN_ROWS and MAX_POST_CUTOFF_ROWS
    OldRows,        \* the sets of observations the table may hold at first
    MaxScKills      \* bound on kills of a collector or of the compaction

ASSUME CompactionAssumption ==
    /\ {SnapshotGap, MaxPlanAge, MaxNewRows, MaxScKills} \subseteq Nat
    /\ {MaxHour, BinHours} \subseteq Nat \ {0}

VARIABLES
    hour,       \* the clock
    obs,        \* raw_api_responses: [t, hash, body, truth], truth is the body that was received
    payloads,   \* raw_api_payloads: hash -> body
    snaps,      \* leaderboard_snapshots: times
    collector,  \* the leaderboard collector: [at, t]
    plan,       \* the reviewed manifest
    compact,    \* the running apply: [at, keep]
    scKills     \* kills so far

scVars == <<hour, obs, payloads, snaps, collector, plan, compact, scKills>>

Empty == "{}"       \* the body '{}'; its hash is EMPTY_PAYLOAD_SHA256
Board == "board"    \* the body of a leaderboard, and its hash
Unstored == "none"
NoPlan == [ready |-> FALSE, at |-> 0, cutoff |-> 0, source |-> 0, keep |-> 0, rows |-> 0]
CompactIdle == [at |-> "idle", keep |-> 0]
CollectorOff == [at |-> "off", t |-> 0]

(* An observation holds the body that was received.  If a hash stands for  *)
(* two bodies the table holds both, so that a plan can see the conflict.   *)
Bodies == {Empty, Board, "other"}
Observation == [t : Nat, hash : {Empty, Board}, body : Bodies, truth : Bodies]
ASSUME OldRowsAssumption ==
    \A rows \in OldRows :
        /\ rows \subseteq Observation
        /\ \A o \in rows : o.truth = o.body /\ (o.hash = Empty <=> o.body = Empty)
        /\ (\E o \in rows : o.body = "other") => \E o \in rows : o.body = Board

-----------------------------------------------------------------------------
(* The conditions that the plan and the phases check.                      *)

BinOf(t) == t \div BinHours
Through(cutoff) == {t \in snaps : t <= cutoff}
KeepTimes(cutoff) ==
    {t \in Through(cutoff) : \A u \in Through(cutoff) : BinOf(u) = BinOf(t) => u <= t}
Traced(t) == \E o \in obs : o.t = t /\ o.hash = Board
UntracedAny(ts) == FALSE
Untraced(ts) == \E t \in ts : ~Traced(t)

SourceConflict ==
    \E o, p \in obs : o.hash = p.hash /\ Empty \notin {o.body, p.body} /\ o.body # p.body
PayloadConflict ==
    \E o \in obs : o.body # Empty /\ payloads[o.hash] \notin {Unstored, o.body}
NoConflictAtAll == FALSE
HashConflict == SourceConflict \/ PayloadConflict
BlankOrphan ==
    \E o \in obs : o.body = Empty /\ o.hash # Empty /\ payloads[o.hash] = Unstored

-----------------------------------------------------------------------------
(* The collectors.                                                         *)

ScKill == scKills < MaxScKills /\ scKills' = scKills + 1

(* store_raw: the body first, then the observation; two transactions.  The *)
(* leaderboard of the same time follows.                                   *)
StorePayload ==
    /\ collector.at = "off" /\ hour > 0
    /\ payloads' = [payloads EXCEPT ![Board] = IF @ = Unstored THEN Board ELSE @]
    /\ collector' = [at |-> "observation", t |-> hour]
    /\ UNCHANGED <<hour, obs, snaps, plan, compact, scKills>>
StoreObservation ==
    /\ collector.at = "observation"
    /\ obs' = obs \cup {[t |-> collector.t, hash |-> Board, body |-> Empty, truth |-> Board]}
    /\ collector' = [collector EXCEPT !.at = "snapshot"]
    /\ UNCHANGED <<hour, payloads, snaps, plan, compact, scKills>>

(* upsert_leaderboard: one transaction, at its minimum interval.           *)
GapPassed(t) == \A u \in snaps : t - u >= SnapshotGap
UpsertLeaderboard ==
    /\ collector.at = "snapshot"
    /\ snaps' = IF GapPassed(collector.t) THEN snaps \cup {collector.t} ELSE snaps
    /\ collector' = CollectorOff
    /\ UNCHANGED <<hour, obs, payloads, plan, compact, scKills>>
KillCollector ==
    /\ collector.at # "off" /\ ScKill
    /\ collector' = CollectorOff
    /\ UNCHANGED <<hour, obs, payloads, snaps, plan, compact>>

-----------------------------------------------------------------------------
(* build_plan: it mutates nothing, and fails when a body or the provenance *)
(* of a snapshot could not be restored.  Of the bytes that are estimated   *)
(* only the outcome is kept: an apply may find too little headroom.        *)

PlanRefused(cutoff) ==
    \/ Cardinality(KeepTimes(cutoff)) = Cardinality(Through(cutoff))
    \/ Untraced(Through(cutoff))
    \/ HashConflict \/ BlankOrphan
BuildPlan ==
    /\ snaps # {} /\ compact.at = "idle"
    /\ LET cutoff == Max(snaps) IN
        /\ ~PlanRefused(cutoff)
        /\ plan' = [ready |-> TRUE, at |-> hour, cutoff |-> cutoff,
                    source |-> Cardinality(Through(cutoff)),
                    keep |-> Cardinality(KeepTimes(cutoff)), rows |-> Cardinality(obs)]
    /\ UNCHANGED <<hour, obs, payloads, snaps, collector, compact, scKills>>

-----------------------------------------------------------------------------
(* apply_plan.                                                             *)

Fails == compact' = CompactIdle

(* _validate_plan: a reviewed manifest of the last hours.                  *)
PlanFresh == plan.ready /\ hour - plan.at <= MaxPlanAge

(* The preflight: a fresh manifest and no other session.                   *)
Preflight ==
    /\ compact.at = "idle" /\ PlanFresh /\ collector.at = "off"
    /\ compact' = [CompactIdle EXCEPT !.at = "normalize"]
    /\ UNCHANGED <<hour, obs, payloads, snaps, collector, plan, scKills>>

(* _normalize_raw_api_payloads, one transaction under an exclusive lock.   *)
(* The first body of a hash is stored, an empty body under its own hash.   *)
Stored(h) ==
    LET bodies == {o.body : o \in {p \in obs : p.hash = h /\ p.body # Empty}} IN
    IF payloads[h] # Unstored THEN payloads[h]
    ELSE IF bodies # {} THEN CHOOSE b \in bodies : TRUE
    ELSE IF h = Empty /\ \E o \in obs : o.hash = Empty THEN Empty
    ELSE Unstored
Normalize ==
    /\ compact.at = "normalize"
    /\ IF \/ Cardinality(obs) - plan.rows \notin 0 .. MaxNewRows
          \/ HashConflict
          \/ \E o \in obs : Stored(o.hash) = Unstored
       THEN Fails /\ UNCHANGED <<obs, payloads>>
       ELSE /\ payloads' = [h \in DOMAIN payloads |-> Stored(h)]
            /\ obs' = {[o EXCEPT !.body = Empty] : o \in obs}
            /\ compact' = [compact EXCEPT !.at = "normalized"]
    /\ UNCHANGED <<hour, snaps, collector, plan, scKills>>

(* The sessions are counted again before the second phase.                 *)
SecondPreflight ==
    /\ compact.at = "normalized"
    /\ compact' = IF collector.at # "off" THEN CompactIdle
                  ELSE [compact EXCEPT !.at = "leaderboard"]
    /\ UNCHANGED <<hour, obs, payloads, snaps, collector, plan, scKills>>

(* _compact_leaderboard: its checks come before the lock.                  *)
CheckLeaderboard ==
    /\ compact.at = "leaderboard"
    /\ LET new == {t \in snaps : t > plan.cutoff} IN
        IF \/ Cardinality(Through(plan.cutoff)) # plan.source
           \/ Cardinality(new) > MaxNewRows
           \/ Untraced(Through(plan.cutoff) \ KeepTimes(plan.cutoff)) \/ Untraced(new)
        THEN Fails
        ELSE compact' = [at |-> "rebuild", keep |-> plan.keep + Cardinality(new)]
    /\ UNCHANGED <<hour, obs, payloads, snaps, collector, plan, scKills>>

(* The rebuild and the swap, one transaction; a row that came after the    *)
(* checks makes the count differ.                                          *)
Rebuilt == KeepTimes(plan.cutoff) \cup {t \in snaps : t > plan.cutoff}
Rebuild ==
    /\ compact.at = "rebuild"
    /\ Fails
    /\ snaps' = IF Cardinality(Rebuilt) # compact.keep \/ Max(Rebuilt) # Max(snaps)
                THEN snaps ELSE Rebuilt
    /\ UNCHANGED <<hour, obs, payloads, collector, plan, scKills>>

(* Too little headroom, a lost session or a kill ends the run where it is. *)
KillCompaction ==
    /\ compact.at # "idle" /\ ScKill
    /\ Fails
    /\ UNCHANGED <<hour, obs, payloads, snaps, collector, plan>>

HourPasses ==
    /\ hour < MaxHour
    /\ hour' = hour + 1
    /\ UNCHANGED <<obs, payloads, snaps, collector, plan, compact, scKills>>

(* At first some observations still hold their bodies, some snapshots may  *)
(* have lost their observation, and a hash may stand for two bodies.       *)
CompactionInit ==
    /\ hour = 1
    /\ obs \in OldRows
    /\ payloads \in [{Empty, Board} -> {Unstored}]
    /\ snaps \in {{0}, {0, 1}}
    /\ collector = CollectorOff /\ plan = NoPlan /\ compact = CompactIdle /\ scKills = 0

Collect == StorePayload \/ StoreObservation \/ UpsertLeaderboard \/ KillCollector
CompactionNext ==
    \/ Collect \/ BuildPlan \/ HourPasses
    \/ Preflight \/ Normalize \/ SecondPreflight \/ CheckLeaderboard \/ Rebuild \/ KillCompaction

CompactionSpec == CompactionInit /\ [][CompactionNext]_scVars

-----------------------------------------------------------------------------
(* Properties.                                                             *)

(* The body of an observation, as a reader of the full view finds it.      *)
Restored(o) ==
    IF o.body # Empty THEN o.body ELSE IF o.hash = Empty THEN Empty ELSE payloads[o.hash]

(* Type invariant.                                                         *)
CompactionTypeOK ==
    /\ snaps \subseteq 0 .. MaxHour
    /\ plan.ready => plan.keep \in 1 .. plan.source - 1
    /\ compact.at \in {"idle", "normalize", "normalized", "leaderboard", "rebuild"}
    /\ \A o \in obs : o.body \in {Empty, o.truth} \cup {"other"}

(* Whatever phase was reached, interrupted or repeated, every observation  *)
(* ever stored still gives the body that was received.                     *)
BodiesRestorable == \A o \in obs : Restored(o) = o.truth

(* A snapshot is thinned out only if a later one of its bin is kept, it    *)
(* was through the reviewed cutoff, and its raw leaderboard is on record.  *)
(* The newest one, the cadence of the collectors, is thus never lost.      *)
ThinnedNotLost ==
    [][\A t \in snaps \ snaps' :
        /\ t <= plan.cutoff /\ Traced(t)
        /\ \E u \in snaps' : u > t /\ BinOf(u) = BinOf(t)]_scVars

(* Compaction gives back space and loses nothing: bodies can be restored,  *)
(* and a thinned snapshot leaves a later one of its bin.                   *)
CompactionLosesNothing == []CompactionTypeOK /\ []BodiesRestorable /\ ThinnedNotLost

=============================================================================
