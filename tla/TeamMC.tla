--------------------------------- MODULE TeamMC ---------------------------------
(***************************************************************************)
(* The orchestrator's task cycle and its acceptance phase work on rows of  *)
(* their own: a behaviour is one of the one or of the other, named by      *)
(* focus, while the other stays where it begins.                           *)
(***************************************************************************)
EXTENDS TeamTasks, TeamAcceptance

VARIABLE focus

teamVars == <<taskVars, acVars, focus>>

EveryReviewList ==
    {<<"CODE_CHANGE">>, <<"POLICY_RECONCILIATION", "PR_METADATA">>, <<"REVIEW_RERUN">>,
     <<"PROTECTED_ACTION">>, <<"TERMINAL">>, <<"CODE_CHANGE", "TERMINAL">>}
EveryCheckList == {<<"CODE_CHANGE">>, <<"CI_RETRY">>}
EveryRoute == {"BUILD", "RESEARCH", "EXACT_SHA_REVIEW"}
FewContracts == {<<>>, <<"RUNTIME_PROOF">>, <<"DEPLOYMENT_RUNTIME_PROOF">>,
                 <<"STORAGE_PROOF">>}

First(s) == CHOOSE x \in s : TRUE

TaskStep == focus = "tasks" /\ TasksNext /\ UNCHANGED <<acVars, focus>>
AcceptanceStep == focus = "acceptance" /\ AcceptNext /\ UNCHANGED <<taskVars, focus>>

TeamInit ==
    /\ TasksInit /\ AcceptInit
    /\ focus \in {"tasks", "acceptance"}
    /\ focus = "tasks" => contract = First(Contracts) /\ rollout
    /\ focus = "acceptance" => tasks[1].type = "BUILD"
TeamNext == TaskStep \/ AcceptanceStep
TeamSpec == TeamInit /\ [][TeamNext]_teamVars
=============================================================================
