---------------------------- MODULE ShadowReset ----------------------------
(***************************************************************************)
(* scripts/reset_lane3_shadow_epoch.py: the measurement epoch of the       *)
(* shadow executor is reset.  The simulated exposure and every file that   *)
(* was derived from it go, the dedupe marks and the source files stay, and *)
(* a tombstone tells what was done.  The reset may be killed between any   *)
(* two files and run again; the executor runs only while no reset does.    *)
(***************************************************************************)
EXTENDS Integers, FiniteSets

CONSTANTS
    Derived,      \* DELETE_FILES and the archives
    Signals,      \* what the executor may see
    MaxEpochs, MaxRsKills

ASSUME ResetAssumption == MaxEpochs \in Nat \ {0} /\ MaxRsKills \in Nat

VARIABLES
    state,      \* state.json: [seen, managed]
    written,    \* the state that replaces it, before os.replace
    derived,    \* derived file -> the epoch whose exposure it measures, 0 when absent
    truth,      \* the source file: every signal that was ever seen
    epoch,      \* the measurement epoch
    reset,      \* the running reset: [at, truth, removed]
    stones,     \* the tombstones: [epoch, removed]
    rsKills

rsVars == <<state, written, derived, truth, epoch, reset, stones, rsKills>>

ResetIdle == [at |-> "idle", truth |-> {}, removed |-> 0]
Nothing == [seen |-> {}, managed |-> {}]

(* The executor sees a signal once, simulates it, and measures.            *)
See ==
    /\ reset.at = "idle"
    /\ \E s \in Signals \ state.seen :
        /\ state' = [seen |-> state.seen \cup {s}, managed |-> state.managed \cup {<<s, epoch>>}]
        /\ truth' = truth \cup {<<s, epoch>>}
    /\ \E f \in Derived : derived' = [derived EXCEPT ![f] = epoch]
    /\ UNCHANGED <<written, epoch, reset, stones, rsKills>>

-----------------------------------------------------------------------------
(* reset_state_root.                                                       *)

(* assert_shadow_only_env and _validated_state come before any change; an  *)
(* environment that allows real trading or a malformed state ends it.      *)
StartReset ==
    /\ reset.at = "idle" /\ epoch < MaxEpochs /\ truth # {}
    /\ reset' = [at |-> "write", truth |-> truth, removed |-> Cardinality(state.managed)]
    /\ UNCHANGED <<state, written, derived, truth, epoch, stones, rsKills>>

(* _atomic_json_write.                                                     *)
ForgetSeen == Nothing
Cleared == [state EXCEPT !.managed = {}]
WriteState ==
    /\ reset.at = "write"
    /\ written' = Cleared
    /\ reset' = [reset EXCEPT !.at = "replace"]
    /\ UNCHANGED <<state, derived, truth, epoch, stones, rsKills>>
ReplaceState ==
    /\ reset.at = "replace"
    /\ state' = written
    /\ reset' = [reset EXCEPT !.at = "delete"]
    /\ UNCHANGED <<written, derived, truth, epoch, stones, rsKills>>
LeftNone == {}
Left == {f \in Derived : derived[f] # 0}
DeleteFile ==
    /\ reset.at = "delete" /\ Left # {}
    /\ \E f \in Left : derived' = [derived EXCEPT ![f] = 0]
    /\ UNCHANGED <<state, written, truth, epoch, reset, stones, rsKills>>

(* _append_tombstone, once the source files are found as they were.        *)
Bury ==
    /\ reset.at = "delete" /\ Left = {} /\ truth = reset.truth
    /\ stones' = stones \cup {[epoch |-> epoch, removed |-> reset.removed]}
    /\ epoch' = epoch + 1
    /\ reset' = ResetIdle
    /\ UNCHANGED <<state, written, derived, truth, rsKills>>
KillReset ==
    /\ reset.at # "idle" /\ rsKills < MaxRsKills
    /\ rsKills' = rsKills + 1
    /\ reset' = ResetIdle
    /\ UNCHANGED <<state, written, derived, truth, epoch, stones>>

ResetInit ==
    /\ state = Nothing /\ written = Nothing /\ derived = [f \in Derived |-> 0]
    /\ truth = {} /\ epoch = 1 /\ reset = ResetIdle /\ stones = {} /\ rsKills = 0

ResetNext ==
    See \/ StartReset \/ WriteState \/ ReplaceState \/ DeleteFile \/ Bury \/ KillReset

ResetSpec == ResetInit /\ [][ResetNext]_rsVars

-----------------------------------------------------------------------------
(* Properties.                                                             *)

(* Type invariant; from the replacement on no exposure is on disk.         *)
ResetTypeOK ==
    /\ state.seen \subseteq Signals /\ epoch \in 1 .. MaxEpochs
    /\ \A f \in Derived : derived[f] \in 0 .. epoch
    /\ reset.at = "delete" => state.managed = {}

(* However the reset is cut short and repeated, a signal of an old epoch   *)
(* stays seen, so that none is entered a second time.                      *)
SeenOutlivesReset == {t[1] : t \in truth} \subseteq state.seen

(* Once an epoch has its tombstone nothing that it measured is left: no    *)
(* exposure and no derived file reaches into the next one.                 *)
CleanEpoch ==
    \A s \in stones :
        /\ \A m \in state.managed : m[2] # s.epoch
        /\ \A f \in Derived : derived[f] # s.epoch

(* A reset, cut short and repeated, forgets no signal of an old epoch and  *)
(* leaves nothing the old epoch measured in the new one.                   *)
EpochsApart == ResetTypeOK /\ SeenOutlivesReset /\ CleanEpoch

=============================================================================
