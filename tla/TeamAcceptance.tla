--------------------------- MODULE TeamAcceptance ---------------------------
(***************************************************************************)
(* The acceptance of a merged issue: scripts/ai_team_orchestrator.py from  *)
(* handle_ci's record of the merge to the closing of the issue.            *)
(*                                                                         *)
(* The completion contract of an issue names requirements; each has phases *)
(* that are run in order, one ledger row at a time.  A phase runner (not   *)
(* in this repository) deposits an envelope; the manager verifies it, and  *)
(* every query for what is proven verifies the recorded evidence again.    *)
(* A failed phase is repaired by another change, whose chain of build,     *)
(* review and merge (module TeamTasks) is one row here.                    *)
(*                                                                         *)
(* Left out: files and hashes of the artifacts (an envelope is valid for   *)
(* the commit and the day it names) and the storage plan of issue 90.      *)
(***************************************************************************)
EXTENDS Integers, FiniteSets, Sequences, SequencesExt

CONSTANTS
    Contracts,   \* completion contracts: sequences of requirements, <<>> closes on merge
    Rollouts,    \* whether the issue is named in completion_reconciliation
    MaxAge,      \* ACCEPTANCE_MAX_AGE, in days
    MaxDays,     \* bound on the days that pass
    MaxRows,     \* bound on the rows of the ledger
    MaxCuts      \* bound on the cycles that are killed

(* COMPLETION_REQUIREMENTS.                                                *)
PhasesOf == [RUNTIME_PROOF            |-> <<"PRODUCTION_VALIDATION">>,
             DEPLOYMENT_RUNTIME_PROOF |-> <<"DEPLOY", "PRODUCTION_VALIDATION">>,
             MEASUREMENT_PROOF        |-> <<"MEASUREMENT">>,
             PROSPECTIVE_EVIDENCE     |-> <<"POST_MERGE_EVIDENCE", "EVIDENCE_AUDIT",
                                            "FINAL_VERDICT">>,
             STORAGE_PROOF            |-> <<"PRODUCTION_AUDIT", "IMMUTABLE_PLAN",
                                            "DESTRUCTIVE_REVIEW", "AUTHORIZED_APPLY",
                                            "MEASUREMENT", "STABILITY_VALIDATION">>]
Phases == UNION {Range(PhasesOf[r]) : r \in DOMAIN PhasesOf}

ASSUME ContractsAssumption == Contracts \subseteq Seq(DOMAIN PhasesOf)
ASSUME AcceptBoundsAssumption ==
    /\ {MaxAge, MaxDays, MaxRows, MaxCuts} \subseteq Nat /\ MaxRows # 0
    /\ Rollouts \subseteq BOOLEAN

VARIABLES
    acRows,    \* the rows of the issue, by order of creation
    evidence,  \* acceptance_evidence
    contract,  \* the completion contract the issue declares
    rollout,   \* the configuration names the issue
    merges,    \* the merges so far; a merge is its commit
    acOpen,    \* the issue is open
    acDay,     \* the day
    acPc,      \* what the running cycle still has to do, and for which row
    acCuts     \* how many cycles were killed

acVars == <<acRows, evidence, contract, rollout, merges, acOpen, acDay, acPc, acCuts>>

NoEnvelope == [sha |-> 0, ok |-> "none", day |-> 0]
AcIds == 1 .. Len(acRows)
AcRow(type, req, sha) ==
    [type |-> type, req |-> req, status |-> "PENDING", sha |-> sha, life |-> type,
     envelope |-> NoEnvelope]
AcIdle == [at |-> "idle", row |-> 0]
Goto(at, r) == acPc' = [at |-> at, row |-> r]
AcActive(r) == acRows[r].status \in {"PENDING", "RETRY"}

-----------------------------------------------------------------------------
(* What the recorded evidence proves.                                      *)

(* phase_task: the newest row whose lifecycle phase this is.               *)
PhaseRows(ph) == {r \in AcIds : acRows[r].life = ph}
PhaseTask(ph) == CHOOSE r \in PhaseRows(ph) : \A q \in PhaseRows(ph) : q <= r

(* _row_is_verified: the predicate is recomputed for the commit of the     *)
(* newest row of the phase, and a record grows stale.                      *)
VerifiedAtAnyAge(e) ==
    /\ e.ok = "yes" /\ PhaseRows(e.phase) # {}
    /\ e.sha = acRows[PhaseTask(e.phase)].sha
Verified(e) ==
    /\ e.ok = "yes" /\ PhaseRows(e.phase) # {}
    /\ e.sha = acRows[PhaseTask(e.phase)].sha
    /\ acDay - e.day <= MaxAge

PhaseIsProven(req, ph) == \E e \in evidence : e.req = req /\ e.phase = ph /\ Verified(e)
ProvenRequirements ==
    {req \in DOMAIN PhasesOf : \A ph \in Range(PhasesOf[req]) : PhaseIsProven(req, ph)}
AcceptanceIsProven == Range(contract) \subseteq ProvenRequirements

(* enqueue_acceptance: the first phase, in the order of the contract, that *)
(* is on its way or not proven, if there is one.                           *)
ContractSteps == UNION {{[nth |-> i, req |-> contract[i], step |-> j,
                          phase |-> PhasesOf[contract[i]][j]] : j \in DOMAIN PhasesOf[contract[i]]}
                        : i \in DOMAIN contract}
Unmet(s) ==
    /\ s.req \notin ProvenRequirements
    /\ \/ PhaseRows(s.phase) = {} \/ AcActive(PhaseTask(s.phase))
       \/ ~PhaseIsProven(s.req, s.phase)
Before(s, q) == s.nth < q.nth \/ (s.nth = q.nth /\ s.step <= q.step)
NextSteps ==
    LET unmet == {s \in ContractSteps : Unmet(s)}
    IN  {s \in unmet : \A q \in unmet : Before(s, q)}

(* The row is created unless the phase is on its way already.              *)
EnqueueNext(sha) ==
    /\ Len(acRows) < MaxRows
    /\ \E s \in NextSteps :
        acRows' = IF PhaseRows(s.phase) # {} /\ AcActive(PhaseTask(s.phase)) THEN acRows
                  ELSE Append(acRows, AcRow(s.phase, s.req, sha))

(* latest_merged_sha: the newest merge that was recorded as a success.     *)
MergedRows == {r \in AcIds : /\ acRows[r].status = "DONE"
                             /\ acRows[r].type \in {"BUILD", "REPAIR"}
                             /\ acRows[r].life \in {"MERGED", "PROVEN", "DONE"}}
LatestMerged == acRows[CHOOSE r \in MergedRows : \A q \in MergedRows : q <= r].sha

-----------------------------------------------------------------------------
(* handle_ci after the merge.                                              *)

RecordMerged ==
    /\ acPc = AcIdle
    /\ \E r \in AcIds :
        /\ AcActive(r) /\ acRows[r].type \in {"BUILD", "REPAIR"}
        /\ acRows' = [acRows EXCEPT ![r].status = "DONE", ![r].life = "MERGED",
                                    ![r].sha = merges + 1]
        /\ Goto("merged", r)
    /\ merges' = merges + 1
    /\ UNCHANGED <<evidence, contract, rollout, acOpen, acDay, acCuts>>

(* A contract without requirements closes on merge; one without an unmet   *)
(* phase stops the row.                                                    *)
ContinueMerged ==
    /\ acPc.at = "merged"
    /\ LET r == acPc.row
       IN  IF contract = <<>>
           THEN /\ acRows' = [acRows EXCEPT ![r].life = "PROVEN"]
                /\ Goto("finalize", r)
           ELSE /\ acPc' = AcIdle
                /\ IF NextSteps = {}
                   THEN acRows' = [acRows EXCEPT ![r].status = "STALE"]
                   ELSE EnqueueNext(acRows[r].sha)
    /\ UNCHANGED <<evidence, contract, rollout, merges, acOpen, acDay, acCuts>>

-----------------------------------------------------------------------------
(* The phase runner, and complete_acceptance_phase.                        *)

(* External: a runner deposits what it measured for some merged commit.    *)
Deposit ==
    /\ \E r \in AcIds, sha \in 1 .. merges, ok \in {"yes", "no"} :
        /\ AcActive(r) /\ acRows[r].type \in Phases /\ acRows[r].envelope = NoEnvelope
        /\ acRows' = [acRows EXCEPT ![r].envelope = [sha |-> sha, ok |-> ok, day |-> acDay]]
    /\ UNCHANGED <<evidence, contract, rollout, merges, acOpen, acDay, acPc, acCuts>>

(* Without an envelope the phase is asked again, for as long as it takes.  *)
AwaitEvidence ==
    /\ acPc = AcIdle
    /\ \E r \in AcIds :
        /\ AcActive(r) /\ acRows[r].type \in Phases /\ acRows[r].envelope = NoEnvelope
        /\ acRows' = [acRows EXCEPT ![r].status = "RETRY"]
    /\ UNCHANGED <<evidence, contract, rollout, merges, acOpen, acDay, acPc, acCuts>>

(* _verify_artifact, and the gate of the apply phase.                      *)
ReviewUnasked(r) == TRUE
ReviewBehind(r) ==
    acRows[r].type = "AUTHORIZED_APPLY" => PhaseIsProven(acRows[r].req, "DESTRUCTIVE_REVIEW")
Accepts(r) ==
    /\ acRows[r].envelope.sha = acRows[r].sha
    /\ acDay - acRows[r].envelope.day <= MaxAge
    /\ ReviewBehind(r)

RecordEvidence ==
    /\ acPc = AcIdle
    /\ \E r \in AcIds :
        /\ AcActive(r) /\ acRows[r].type \in Phases /\ acRows[r].envelope # NoEnvelope
        /\ LET e == acRows[r].envelope
           IN  IF Accepts(r)
               THEN /\ evidence' = evidence \cup
                        {[req |-> acRows[r].req, phase |-> acRows[r].type, sha |-> e.sha,
                          ok |-> e.ok, day |-> e.day]}
                    /\ Goto(IF e.ok = "yes" THEN "passed" ELSE "failed", r)
                    /\ UNCHANGED acRows
               ELSE /\ acRows' = [acRows EXCEPT ![r].status = "STALE"]
                    /\ UNCHANGED <<evidence, acPc>>
    /\ UNCHANGED <<contract, rollout, merges, acOpen, acDay, acCuts>>

(* The row leaves its phase before its repair exists.                      *)
FailPhase ==
    /\ acPc.at = "failed"
    /\ acRows' = [acRows EXCEPT ![acPc.row].status = "DONE", ![acPc.row].life = "REPAIR"]
    /\ Goto("repair", acPc.row)
    /\ UNCHANGED <<evidence, contract, rollout, merges, acOpen, acDay, acCuts>>

EnqueueRepair ==
    /\ acPc.at = "repair" /\ Len(acRows) < MaxRows
    /\ acRows' = Append(acRows, AcRow("REPAIR", "none", acRows[acPc.row].sha))
    /\ acPc' = AcIdle
    /\ UNCHANGED <<evidence, contract, rollout, merges, acOpen, acDay, acCuts>>

PassPhase ==
    /\ acPc.at = "passed"
    /\ acRows' = [acRows EXCEPT ![acPc.row].status = "DONE"]
    /\ Goto("next", acPc.row)
    /\ UNCHANGED <<evidence, contract, rollout, merges, acOpen, acDay, acCuts>>

ContinuePhase ==
    /\ acPc.at = "next"
    /\ LET r == acPc.row
       IN  IF NextSteps = {}
           THEN /\ acRows' = [acRows EXCEPT ![r].life = "PROVEN"]
                /\ Goto("finalize", r)
           ELSE EnqueueNext(acRows[r].sha) /\ acPc' = AcIdle
    /\ UNCHANGED <<evidence, contract, rollout, merges, acOpen, acDay, acCuts>>

(* finalize_proven_issue verifies once more.  The row that is finalized    *)
(* left its phase just now, so that phase has only older rows, if any.     *)
MayFinalize == AcceptanceIsProven
Finalize ==
    /\ acPc.at = "finalize"
    /\ acPc' = AcIdle
    /\ IF MayFinalize
       THEN /\ acRows' = [acRows EXCEPT ![acPc.row].status = "DONE", ![acPc.row].life = "DONE"]
            /\ acOpen' = FALSE
       ELSE /\ acRows' = [acRows EXCEPT ![acPc.row].status = "STALE"]
            /\ UNCHANGED acOpen
    /\ UNCHANGED <<evidence, contract, rollout, merges, acDay, acCuts>>

-----------------------------------------------------------------------------
(* The stages of a cycle that come back to the issue.                      *)

(* reconcile_recovery assigns a repair to a stopped row.                   *)
RecoverStopped ==
    /\ acPc = AcIdle /\ Len(acRows) < MaxRows
    /\ \E r \in AcIds :
        /\ acRows[r].status = "STALE"
        /\ acRows' = Append([acRows EXCEPT ![r].status = "RECOVERY_PENDING"],
                            AcRow("REPAIR", "none", acRows[r].sha))
    /\ UNCHANGED <<evidence, contract, rollout, merges, acOpen, acDay, acPc, acCuts>>

(* reconcile_completion_rollout, for an issue the configuration names.     *)
ReconcileRollout ==
    /\ acPc = AcIdle /\ rollout /\ acOpen
    /\ \A r \in AcIds : ~AcActive(r)
    /\ MergedRows # {} /\ EnqueueNext(LatestMerged)
    /\ UNCHANGED <<evidence, contract, rollout, merges, acOpen, acDay, acPc, acCuts>>

(* _reconcile_parent_finalizer: a finished child issue closes this one or  *)
(* continues its acceptance.                                               *)
FinalizeParent ==
    /\ acPc = AcIdle
    /\ IF AcceptanceIsProven
       THEN acOpen' = FALSE /\ UNCHANGED acRows
       ELSE MergedRows # {} /\ EnqueueNext(LatestMerged) /\ UNCHANGED acOpen
    /\ UNCHANGED <<evidence, contract, rollout, merges, acDay, acPc, acCuts>>

Cut ==
    /\ acPc # AcIdle /\ acCuts < MaxCuts
    /\ acPc' = AcIdle
    /\ acCuts' = acCuts + 1
    /\ UNCHANGED <<acRows, evidence, contract, rollout, merges, acOpen, acDay>>

NextDay ==
    /\ acDay < MaxDays
    /\ acDay' = acDay + 1
    /\ UNCHANGED <<acRows, evidence, contract, rollout, merges, acOpen, acPc, acCuts>>

AcceptInit ==
    /\ acRows = <<AcRow("BUILD", "none", 0)>>
    /\ evidence = {}
    /\ contract \in Contracts
    /\ rollout \in Rollouts
    /\ merges = 0 /\ acDay = 0 /\ acCuts = 0
    /\ acOpen = TRUE
    /\ acPc = AcIdle

AcceptNext ==
    \/ acOpen /\ (RecordMerged \/ AwaitEvidence \/ RecordEvidence)
    \/ ContinueMerged \/ FailPhase \/ EnqueueRepair \/ PassPhase \/ ContinuePhase \/ Finalize
    \/ acOpen /\ (RecoverStopped \/ ReconcileRollout \/ FinalizeParent)
    \/ Deposit \/ Cut \/ NextDay

AcceptSpec == AcceptInit /\ [][AcceptNext]_acVars

-----------------------------------------------------------------------------
(* Properties.                                                             *)

(* Type invariant.                                                         *)
AcceptTypeOK ==
    /\ Len(acRows) \in 1 .. MaxRows
    /\ \A r \in AcIds :
        /\ acRows[r].type \in Phases \cup {"BUILD", "REPAIR"}
        /\ acRows[r].status \in {"PENDING", "RETRY", "DONE", "STALE", "RECOVERY_PENDING"}
        /\ acRows[r].life \in Phases \cup {"BUILD", "REPAIR", "MERGED", "PROVEN", "DONE"}
        /\ acRows[r].sha \in 0 .. merges
    /\ \A e \in evidence : e.sha \in 1 .. merges /\ e.day \in 0 .. acDay
    /\ acPc.row \in 0 .. Len(acRows) /\ acDay \in 0 .. MaxDays

(* An issue is closed only on a merge, and with a passing record, not      *)
(* older than the freshness bound, for every phase of its contract.        *)
ClosedOnlyProven ==
    [][acOpen /\ ~acOpen' =>
        /\ merges > 0 \/ contract = <<>>
        /\ \A i \in DOMAIN contract : \A ph \in Range(PhasesOf[contract[i]]) :
            \E e \in evidence : /\ e.req = contract[i] /\ e.phase = ph /\ e.ok = "yes"
                                 /\ acDay - e.day <= MaxAge]_acVars

(* An apply passes only on the strength of a review of its plan that is    *)
(* still fresh when the apply is recorded, however long it was under way.  *)
ApplyOnFreshReview ==
    [][\A e \in evidence' \ evidence : e.phase = "AUTHORIZED_APPLY" =>
        \E v \in evidence : /\ v.phase = "DESTRUCTIVE_REVIEW" /\ v.ok = "yes"
                             /\ acDay - v.day <= MaxAge]_acVars

(* What was proven counts only while it is fresh: for the apply that rests *)
(* on a review of its plan, and for the issue that is closed on its phases. *)
ActsOnFreshProof == []AcceptTypeOK /\ ApplyOnFreshReview /\ ClosedOnlyProven

(* The documented end of a lifecycle: all-positive records transition      *)
(* through PROVEN to DONE.  A row that was marked PROVEN on the very day   *)
(* of its evidence is finalized.                                           *)
ProvenIsFinalized == acPc.at = "finalize" => MayFinalize

=============================================================================
