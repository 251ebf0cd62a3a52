------------------------------ MODULE TeamTasks ------------------------------
(***************************************************************************)
(* The autonomous team's task pipeline for one issue: the SQLite ledger    *)
(* and the cycle of scripts/ai_team_orchestrator.py.                       *)
(*                                                                         *)
(* A cycle is one process under a file lock.  It requeues what a killed    *)
(* cycle left RUNNING, turns stopped tasks into bounded recovery tasks,    *)
(* retires tasks of a closed issue, repairs handoffs, and then runs one    *)
(* due task: research, a Codex build or repair, a Claude review, or the    *)
(* wait for CI that ends in a merge.  Every ledger call commits, so a      *)
(* cycle may be killed (or end in an exception) between two of them; calls *)
(* of dispatch_remediations on the same blocker are one step, because a    *)
(* kill between them leaves what a kill before them leaves: no action.     *)
(* The head of a pull request moves and the issue is closed by others.     *)
(*                                                                         *)
(* Left out: prompts, sandboxes and run logs, labels and comments, the     *)
(* claim of issues, the completion contract and the acceptance phases      *)
(* (module TeamAcceptance), and                                            *)
(* clocks: whether a waiting task is due is a nondeterministic choice.     *)
(***************************************************************************)
EXTENDS Integers, FiniteSets, Sequences, SequencesExt

CONSTANTS
    Routes,       \* first tasks an issue may ask for
    ReviewLists,  \* blocker lists a failing review may report
    Rules,        \* rules a terminal blocker may name
    CheckLists,   \* blocker lists failing checks may give
    MaxAttempts,  \* max_attempts of the configuration
    MaxRecovery,  \* recovery.max_attempts of the configuration
    MaxTasks,     \* bound on the rows of the ledger
    MaxSha,       \* bound on the commits pushed to pull requests
    MaxPRs,       \* bound on the pull requests
    MaxKills,     \* bound on the cycles that are killed
    MaxRuns       \* bound on the runs of one row

BlockerClass == {"CODE_CHANGE", "PR_METADATA", "PROTECTED_ACTION", "CI_RETRY",
                 "REVIEW_RERUN", "POLICY_RECONCILIATION", "TERMINAL"}

ASSUME RoutesAssumption == Routes \subseteq {"BUILD", "RESEARCH", "EXACT_SHA_REVIEW"}
ASSUME RulesAssumption == Rules \subseteq {"rule", "quota", "window", "dependency"}
ASSUME ListsAssumption ==
    ReviewLists \cup CheckLists \subseteq UNION {[1 .. n -> BlockerClass] : n \in 1 .. 2}
ASSUME TaskBoundsAssumption ==
    /\ {MaxAttempts, MaxRecovery, MaxTasks} \subseteq Nat \ {0}
    /\ {MaxSha, MaxPRs, MaxKills, MaxRuns} \subseteq Nat

VARIABLES
    tasks,      \* the rows of the ledger, by order of creation
    rem,        \* the remediation rows: fingerprint -> status
    prs,        \* the pull requests on GitHub
    pushed,     \* how many commits were pushed
    reruns,     \* commits whose failed checks were requested again
    issueOpen,  \* the issue is open on GitHub
    cycle,      \* the running cycle: memory, lost when it is killed
    verdicts,   \* history: <<sha, verdict>> of the reviews that finished
    kills       \* how often a cycle was killed

taskVars == <<tasks, rem, prs, pushed, reruns, issueOpen, cycle, verdicts, kills>>
ledger == <<tasks, rem>>
github == <<prs, pushed, reruns, issueOpen>>

Active == {"PENDING", "RETRY", "WAITING_RATE_LIMIT", "WAITING_CI",
           "WAITING_EVIDENCE_WINDOW", "RUNNING"}
Status == Active \cup {"DONE", "BLOCKED", "STALE", "RECOVERY_PENDING",
                       "WAITING_DEPENDENCY", "QUARANTINED"}
Ids == 1 .. Len(tasks)
NoFingerprint == <<>>

(* create_task: a new row is PENDING and has no attempt behind it.         *)
NewTask(type, pr, sha, parent) ==
    [type |-> type, status |-> "PENDING", pr |-> pr, sha |-> sha, attempt |-> 0,
     error |-> "none", class |-> "none", fingerprint |-> NoFingerprint,
     blockers |-> <<>>, merged |-> FALSE, parent |-> parent, cuts |-> 0]

(* Ledger.child: a row of that type below a parent (and for that commit).  *)
HasWaitingChild(t, type) ==
    \E c \in Ids : /\ tasks[c].parent = t /\ tasks[c].type = type
                   /\ tasks[c].status = "PENDING"
HasChild(t, type) == \E c \in Ids : tasks[c].parent = t /\ tasks[c].type = type
HasReview(t, sha) ==
    \E c \in Ids : tasks[c].parent = t /\ tasks[c].type = "REVIEW" /\ tasks[c].sha = sha

(* The cycle's program counter, the row it works on, the blockers still to *)
(* dispatch, the rows its present stage still has to visit, and a commit.  *)
Idle == [pc |-> "idle", task |-> 0, todo |-> <<>>, left |-> {}, back |-> "idle", sha |-> 0]
At(pc, t) == [Idle EXCEPT !.pc = pc, !.task = t]

-----------------------------------------------------------------------------
(* Failure classes and the ways a task stops.                              *)

(* classify_recovery_failure: a persisted class wins over the text of the  *)
(* error.  The internal classes differ in nothing but their name.          *)
FailureClass(row, error) ==
    IF row.class # "none" THEN row.class
    ELSE CASE error = "auth"       -> "OWNER_AUTH_REQUIRED"
           [] error = "quota"      -> "PROVIDER/RATE_LIMIT_WAIT"
           [] error = "window"     -> "EVIDENCE_WINDOW_WAIT"
           [] error = "dependency" -> "DEPENDENCY_WAIT"
           [] OTHER                -> "INTERNAL"

(* recovery_fingerprint: the persisted one, else what identifies the stop. *)
Fingerprint(row, class) ==
    IF row.fingerprint # NoFingerprint THEN row.fingerprint
    ELSE <<class, row.pr, row.sha, row.type, row.error>>

(* block: only a missing owner authorization blocks; all else is STALE and *)
(* left to the recovery.                                                   *)
Blocked(t, error) ==
    LET class == FailureClass(tasks[t], error)
    IN  [tasks EXCEPT ![t].status = IF class = "OWNER_AUTH_REQUIRED" THEN "BLOCKED"
                                    ELSE "STALE",
                      ![t].error = error, ![t].class = class]

(* retry_or_block: a task is tried again until its attempts are spent.     *)
RetryOrBlock(t) ==
    IF tasks[t].attempt >= MaxAttempts THEN Blocked(t, "exhausted")
    ELSE [tasks EXCEPT ![t].status = "RETRY", ![t].error = "failed"]

(* A usage limit costs no attempt.                                         *)
RateLimited(t) ==
    [tasks EXCEPT ![t].status = "WAITING_RATE_LIMIT", ![t].error = "limit",
                  ![t].attempt = IF @ > 0 THEN @ - 1 ELSE 0]

Running(t) == [tasks EXCEPT ![t].status = "RUNNING", ![t].attempt = @ + 1]

-----------------------------------------------------------------------------
(* The stages of a cycle before it runs a task.                            *)

Stopped == {t \in Ids : tasks[t].status \in {"BLOCKED", "STALE", "QUARANTINED"}}

(* recover_interrupted: what a killed cycle left RUNNING is tried again.   *)
Requeued == [t \in Ids |->
    IF tasks[t].status = "RUNNING"
    THEN [tasks[t] EXCEPT !.status = "RETRY", !.cuts = @ + 1,
                          !.error = IF @ = "none" THEN "restarted" ELSE @]
    ELSE tasks[t]]

StartCycle ==
    /\ cycle.pc = "idle"
    /\ tasks' = Requeued
    /\ cycle' = [Idle EXCEPT !.pc = "recovery", !.left = Stopped]
    /\ UNCHANGED <<rem, github, verdicts, kills>>

(* recovery_attempts counts the rows below a parent with the fingerprint.  *)
RecoveryAttemptsIgnored(f) == 0
RecoveryAttempts(f) ==
    Cardinality({c \in Ids : tasks[c].fingerprint = f /\ tasks[c].parent # 0})

(* active_recovery: an attempt for this very row is still on its way.      *)
ActiveRecovery(t, f) ==
    \E c \in Ids : /\ tasks[c].parent = t /\ tasks[c].fingerprint = f
                   /\ tasks[c].status \in {"RECOVERY_PENDING", "PENDING", "RUNNING",
                                           "RETRY", "WAITING_CI"}

(* What reconcile_recovery does with a stopped row.                        *)
Verdict(t, class, f) ==
    IF tasks[t].status = "QUARANTINED" THEN "dead"
    ELSE CASE class = "OWNER_AUTH_REQUIRED"      -> "BLOCKED"
           [] class = "PROVIDER/RATE_LIMIT_WAIT" -> "WAITING_RATE_LIMIT"
           [] class = "EVIDENCE_WINDOW_WAIT"     -> "WAITING_EVIDENCE_WINDOW"
           [] class = "DEPENDENCY_WAIT"          -> "WAITING_DEPENDENCY"
           [] OTHER ->
                IF ActiveRecovery(t, f) THEN "RECOVERY_PENDING"
                ELSE IF RecoveryAttempts(f) + 1 > MaxRecovery THEN "QUARANTINED"
                ELSE "repair"

Parked(t, status, class, f) ==
    [tasks EXCEPT ![t].status = IF status = "BLOCKED" THEN @ ELSE status,
                  ![t].class = class, ![t].fingerprint = f]

(* reconcile_recovery, for one candidate.  The repair it assigns inherits  *)
(* class and fingerprint; the failed row is parked by a later commit.      *)
Recover ==
    /\ cycle.pc = "recovery"
    /\ \E t \in cycle.left :
        LET class == FailureClass(tasks[t], tasks[t].error)
            f == Fingerprint(tasks[t], class)
            what == Verdict(t, class, f)
        IN  CASE what = "dead" ->
                   /\ cycle' = [cycle EXCEPT !.left = @ \ {t}]
                   /\ UNCHANGED tasks
              [] what = "repair" ->
                   /\ Len(tasks) < MaxTasks
                   /\ tasks' = Append(tasks,
                        [NewTask("REPAIR", tasks[t].pr, tasks[t].sha, t) EXCEPT
                           !.class = class, !.fingerprint = f])
                   /\ cycle' = [cycle EXCEPT !.pc = "park", !.task = t]
              [] OTHER ->
                   /\ tasks' = Parked(t, what, class, f)
                   /\ cycle' = [cycle EXCEPT !.left = @ \ {t}]
    /\ UNCHANGED <<rem, github, verdicts, kills>>

Park ==
    /\ cycle.pc = "park"
    /\ LET t == cycle.task
           class == FailureClass(tasks[t], tasks[t].error)
       IN  tasks' = Parked(t, "RECOVERY_PENDING", class, Fingerprint(tasks[t], class))
    /\ cycle' = [cycle EXCEPT !.pc = "recovery", !.left = @ \ {cycle.task}]
    /\ UNCHANGED <<rem, github, verdicts, kills>>

(* reconcile_closed_issue_tasks: active rows of a closed issue, or of a    *)
(* pull request closed without merge, are retired.                         *)
Obsolete(t) ==
    /\ tasks[t].status \in Active
    /\ \/ ~issueOpen
       \/ tasks[t].pr # 0 /\ prs[tasks[t].pr].state = "closed"
Retired(t) == [tasks[t] EXCEPT !.status = "DONE", !.error = "obsolete", !.class = "none"]

(* handoff_candidates: finished work whose next task may be missing.  The  *)
(* superseded reviews it also lists were taken by the recovery before.     *)
HandoffCandidates ==
    {t \in Ids :
        \/ /\ tasks[t].status = "DONE" /\ tasks[t].type \in {"BUILD", "REPAIR"}
           /\ tasks[t].pr # 0 /\ tasks[t].sha # 0 /\ tasks[t].error = "none"
        \/ /\ tasks[t].status = "DONE" /\ tasks[t].type = "REVIEW"
           /\ tasks[t].error \in {"review FAIL", "CI failure"}}

RetireObsolete ==
    /\ cycle.pc = "recovery" /\ cycle.left = {}
    /\ tasks' = [t \in Ids |-> IF Obsolete(t) THEN Retired(t) ELSE tasks[t]]
    /\ cycle' = [Idle EXCEPT !.pc = "handoffs", !.left = HandoffCandidates]
    /\ UNCHANGED <<rem, github, verdicts, kills>>

(* normalize_blocker makes a blocker TERMINAL whose source is not the one  *)
(* that dispatches it, and the handoff names the review for every blocker. *)
Reclassified(t) ==
    IF tasks[t].error = "review FAIL" THEN tasks[t].blockers
    ELSE [i \in DOMAIN tasks[t].blockers |-> "TERMINAL"]

(* reconcile_handoffs, for one candidate.                                  *)
Handoff ==
    /\ cycle.pc = "handoffs"
    /\ \E t \in cycle.left :
        LET rest == [cycle EXCEPT !.left = @ \ {t}]
        IN  \/ /\ tasks[t].type # "REVIEW" /\ ~HasChild(t, "REVIEW")
               /\ cycle' = [rest EXCEPT !.pc = "enqueue", !.task = t, !.back = "handoffs"]
            \/ /\ tasks[t].type = "REVIEW" /\ ~HasChild(t, "REPAIR")
               /\ cycle' = [rest EXCEPT !.pc = "dispatch", !.task = t, !.back = "handoffs",
                                        !.todo = Reclassified(t)]
            \/ /\ HasChild(t, IF tasks[t].type = "REVIEW" THEN "REPAIR" ELSE "REVIEW")
               /\ cycle' = rest
    /\ UNCHANGED <<ledger, github, verdicts, kills>>

-----------------------------------------------------------------------------
(* Choosing and starting the due task.                                     *)

(* due: a wait for CI whose time has come, else the oldest PENDING row,    *)
(* else a row that waits for its retry.                                    *)
Due(t) ==
    \/ tasks[t].status = "WAITING_CI"
    \/ /\ tasks[t].status = "PENDING"
       /\ \A u \in 1 .. t - 1 : tasks[u].status # "PENDING"
    \/ /\ tasks[t].status \in {"RETRY", "WAITING_RATE_LIMIT", "WAITING_EVIDENCE_WINDOW"}
       /\ \A u \in Ids : tasks[u].status # "PENDING"

Handler(t) ==
    IF tasks[t].status = "WAITING_CI" THEN "ci"
    ELSE IF /\ tasks[t].status = "WAITING_RATE_LIMIT"
            /\ tasks[t].type \in {"REVIEW", "RESEARCH"} THEN "probe"
    ELSE IF tasks[t].type \in {"BUILD", "REPAIR"} THEN "codex"
    ELSE IF tasks[t].type = "REVIEW" THEN "review" ELSE "research"

(* A task of a closed issue is retired instead of run.                     *)
Pick ==
    /\ cycle.pc = "handoffs" /\ cycle.left = {}
    /\ \E t \in Ids :
        /\ Due(t)
        /\ IF issueOpen
           THEN cycle' = At(Handler(t), t) /\ UNCHANGED tasks
           ELSE cycle' = Idle /\ tasks' = [tasks EXCEPT ![t] = Retired(t)]
    /\ UNCHANGED <<rem, github, verdicts, kills>>

NothingDue ==
    /\ cycle.pc = "handoffs" /\ cycle.left = {}
    /\ \A t \in Ids : tasks[t].status # "PENDING"
    /\ cycle' = Idle
    /\ UNCHANGED <<ledger, github, verdicts, kills>>

Finish(rows) == tasks' = rows /\ cycle' = Idle

(* handle_codex and handle_review lose the owner's trust or the provider's *)
(* credentials before they start.                                          *)
PreflightFails ==
    /\ cycle.pc \in {"codex", "review"}
    /\ Finish(Blocked(cycle.task, "auth"))
    /\ UNCHANGED <<rem, github, verdicts, kills>>

(* handle_claude_probe: a probe never runs the task.                       *)
Probe ==
    /\ cycle.pc = "probe"
    /\ LET t == cycle.task
       IN  \/ Finish([tasks EXCEPT ![t].status = "PENDING", ![t].error = "none"])
           \/ Finish(tasks)
           \/ LET attempt == tasks[t].attempt + 1
              IN  /\ attempt <= MaxRuns
                  /\ Finish(IF attempt >= MaxAttempts
                            THEN [Blocked(t, "exhausted") EXCEPT ![t].attempt = attempt]
                            ELSE [tasks EXCEPT ![t].status = "RETRY", ![t].error = "failed",
                                               ![t].attempt = attempt])
    /\ UNCHANGED <<rem, github, verdicts, kills>>

-----------------------------------------------------------------------------
(* handle_codex.                                                           *)

StartCodex ==
    /\ cycle.pc = "codex" /\ tasks[cycle.task].attempt < MaxRuns
    /\ tasks' = Running(cycle.task)
    /\ cycle' = At("building", cycle.task)
    /\ UNCHANGED <<rem, github, verdicts, kills>>

(* Timeouts, exit codes and usage limits.                                  *)
CodexStops ==
    /\ cycle.pc = "building"
    /\ Finish(RetryOrBlock(cycle.task)) \/ Finish(RateLimited(cycle.task))
    /\ UNCHANGED <<rem, github, verdicts, kills>>

(* What follows the run fails: unsafe paths block, an empty diff of a      *)
(* repair goes to the recovery at once, anything else is tried again.      *)
PostprocessFails ==
    /\ cycle.pc = "building"
    /\ LET t == cycle.task
       IN  \/ Finish(RetryOrBlock(t)) /\ UNCHANGED rem
           \/ Finish(Blocked(t, "protected")) /\ UNCHANGED rem
           \/ /\ tasks[t].type = "REPAIR"
              /\ Finish([tasks EXCEPT ![t].status = "STALE", ![t].error = "no change",
                                      ![t].class = "INTERNAL"])
              /\ rem' = [f \in DOMAIN rem |->
                           IF f.class = "CODE_CHANGE" /\ f.parent = tasks[t].parent
                           THEN "TERMINAL" ELSE rem[f]]
    /\ UNCHANGED <<github, verdicts, kills>>

(* commit_and_push: the head of an open pull request moves.                *)
CodexPushes ==
    /\ cycle.pc = "building" /\ pushed < MaxSha
    /\ LET t == cycle.task
           pr == tasks[t].pr
       IN  /\ pushed' = pushed + 1
           /\ prs' = IF pr # 0 /\ prs[pr].state = "open"
                     THEN [prs EXCEPT ![pr].head = pushed + 1] ELSE prs
           /\ cycle' = [At("pushed", t) EXCEPT !.sha = pushed + 1]
    /\ UNCHANGED <<ledger, reruns, issueOpen, verdicts, kills>>

(* create_pr is refused when a pull request from the branch exists.        *)
CreatePr ==
    /\ cycle.pc = "pushed" /\ tasks[cycle.task].pr = 0
    /\ LET t == cycle.task
           taken == \E p \in DOMAIN prs : prs[p].by = t
       IN  \/ /\ taken
              /\ Finish(RetryOrBlock(t))
              /\ UNCHANGED prs
           \/ /\ ~taken /\ Len(prs) < MaxPRs
              /\ prs' = Append(prs, [head |-> cycle.sha, state |-> "open", at |-> 0, by |-> t])
              /\ cycle' = [cycle EXCEPT !.pc = "created", !.back = "created"]
              /\ UNCHANGED tasks
    /\ UNCHANGED <<rem, pushed, reruns, issueOpen, verdicts, kills>>

(* The row is DONE before its review exists: reconcile_handoffs mends it.  *)
FinishCodex ==
    /\ \/ cycle.pc = "created"
       \/ cycle.pc = "pushed" /\ tasks[cycle.task].pr # 0
    /\ LET t == cycle.task
       IN  tasks' = [tasks EXCEPT ![t].status = "DONE", ![t].error = "none",
                                  ![t].sha = cycle.sha,
                                  ![t].pr = IF @ = 0 THEN Len(prs) ELSE @]
    /\ cycle' = [cycle EXCEPT !.pc = "enqueue", !.back = "idle"]
    /\ UNCHANGED <<rem, github, verdicts, kills>>

Back == [cycle EXCEPT !.pc = cycle.back, !.task = 0, !.todo = <<>>, !.sha = 0]

(* enqueue_review: at most one review below a row.                         *)
EnqueueReview ==
    /\ cycle.pc = "enqueue"
    /\ LET t == cycle.task
       IN  /\ rem' = [f \in DOMAIN rem |->
                        IF /\ cycle.back = "idle" /\ f.class = "CODE_CHANGE"
                           /\ f.parent = tasks[t].parent
                        THEN "COMPLETED" ELSE rem[f]]
           /\ IF ~HasChild(t, "REVIEW")
              THEN /\ Len(tasks) < MaxTasks
                   /\ tasks' = Append(tasks, NewTask("REVIEW", tasks[t].pr, tasks[t].sha, t))
              ELSE UNCHANGED tasks
    /\ cycle' = Back
    /\ UNCHANGED <<github, verdicts, kills>>

(* handle_research: the result is committed before the build task exists.  *)
Research ==
    /\ cycle.pc = "research" /\ tasks[cycle.task].attempt < MaxRuns
    /\ tasks' = Running(cycle.task)
    /\ cycle' = At("researching", cycle.task)
    /\ UNCHANGED <<rem, github, verdicts, kills>>

ResearchEnds ==
    /\ cycle.pc = "researching"
    /\ LET t == cycle.task
       IN  \/ Finish(RetryOrBlock(t))
           \/ Finish(RateLimited(t))
           \/ /\ tasks' = [tasks EXCEPT ![t].status = "DONE", ![t].error = "none"]
              /\ cycle' = At("researched", t)
    /\ UNCHANGED <<rem, github, verdicts, kills>>

EnqueueBuild ==
    /\ cycle.pc = "researched" /\ Len(tasks) < MaxTasks
    /\ Finish(IF HasChild(cycle.task, "BUILD") THEN tasks
              ELSE Append(tasks, NewTask("BUILD", 0, 0, cycle.task)))
    /\ UNCHANGED <<rem, github, verdicts, kills>>

-----------------------------------------------------------------------------
(* handle_review.                                                          *)

(* An EXACT_SHA_REVIEW issue has a first row without a parent: its review  *)
(* does not follow the head.                                               *)
ExactSha == tasks[1].type = "REVIEW"
Superseded(t, error) == [tasks EXCEPT ![t].status = "STALE", ![t].error = error]
Replacing(t, sha) == IF ExactSha THEN Idle ELSE [At("replace", t) EXCEPT !.sha = sha]

StartReview ==
    /\ cycle.pc = "review" /\ tasks[cycle.task].attempt < MaxRuns
    /\ LET t == cycle.task
           pr == prs[tasks[t].pr]
       IN  CASE pr.state = "closed" -> Finish(Superseded(t, "PR closed"))
             [] pr.state # "closed" /\ pr.head # tasks[t].sha ->
                  /\ tasks' = Superseded(t, "PR moved")
                  /\ cycle' = Replacing(t, pr.head)
             [] OTHER ->
                  /\ tasks' = Running(t)
                  /\ cycle' = At("reviewing", t)
    /\ UNCHANGED <<rem, github, verdicts, kills>>

ReviewStops ==
    /\ cycle.pc = "reviewing"
    /\ LET t == cycle.task
       IN  Finish(RetryOrBlock(t)) \/ Finish(RateLimited(t))
    /\ UNCHANGED <<rem, github, verdicts, kills>>

(* The head is read again before a verdict counts.                         *)
ReviewEnds ==
    /\ cycle.pc = "reviewing"
    /\ LET t == cycle.task
           sha == tasks[t].sha
           head == prs[tasks[t].pr].head
       IN  IF head # sha
           THEN /\ tasks' = Superseded(t, "PR changed")
                /\ cycle' = Replacing(t, head)
                /\ UNCHANGED verdicts
           ELSE \/ /\ verdicts' = verdicts \cup {<<sha, "PASS">>}
                   /\ Finish([tasks EXCEPT ![t].status = "WAITING_CI", ![t].error = "none",
                                           ![t].blockers = <<>>])
                \/ \E list \in ReviewLists :
                   /\ verdicts' = verdicts \cup {<<sha, "FAIL">>}
                   /\ tasks' = [tasks EXCEPT ![t].status = "DONE", ![t].error = "review FAIL",
                                             ![t].blockers = list]
                   /\ cycle' = [At("dispatch", t) EXCEPT !.todo = list]
    /\ UNCHANGED <<rem, github, kills>>

(* enqueue_replacement_review: one review of the new head below the row.   *)
ReplaceReview ==
    /\ cycle.pc = "replace"
    /\ LET t == cycle.task
       IN  IF HasReview(t, cycle.sha) THEN UNCHANGED tasks
           ELSE /\ Len(tasks) < MaxTasks
                /\ tasks' = Append(tasks, NewTask("REVIEW", tasks[t].pr, cycle.sha, t))
    /\ cycle' = Back
    /\ UNCHANGED <<rem, github, verdicts, kills>>

-----------------------------------------------------------------------------
(* dispatch_remediations.                                                  *)

(* The fingerprint of a blocker: reviews name the review, checks the run.  *)
Source(t) == IF tasks[t].error = "CI failure" /\ cycle.back # "handoffs"
             THEN <<"CI", tasks[t].sha, tasks[t].sha \in reruns>> ELSE <<"REVIEW", t>>
Key(t, class) == [class |-> class, source |-> Source(t), parent |-> t]

(* observe_remediation: a blocker that has a row is an observation only.   *)
Observe ==
    /\ cycle.pc = "dispatch" /\ cycle.todo # <<>>
    /\ LET f == Key(cycle.task, Head(cycle.todo))
       IN  IF f \in DOMAIN rem
           THEN /\ cycle' = [cycle EXCEPT !.todo = Tail(@)]
                /\ UNCHANGED rem
           ELSE /\ rem' = [g \in DOMAIN rem \cup {f} |-> IF g = f THEN "OBSERVED" ELSE rem[g]]
                /\ cycle' = [cycle EXCEPT !.pc = "act"]
    /\ UNCHANGED <<tasks, github, verdicts, kills>>

Acted(status) ==
    /\ rem' = [rem EXCEPT ![Key(cycle.task, Head(cycle.todo))] = status]
    /\ cycle' = [cycle EXCEPT !.pc = "dispatch", !.todo = Tail(@)]

(* enqueue_repair: one repair below a review.                              *)
ActCodeChange ==
    /\ cycle.pc = "act" /\ Head(cycle.todo) = "CODE_CHANGE"
    /\ LET t == cycle.task
       IN  IF HasChild(t, "REPAIR") THEN UNCHANGED tasks
           ELSE /\ Len(tasks) < MaxTasks
                /\ tasks' = Append(tasks, NewTask("REPAIR", tasks[t].pr, 0, t))
    /\ Acted("ACTION_STARTED")
    /\ UNCHANGED <<github, verdicts, kills>>

(* Patching the pull request, or requesting a check again, sends the row   *)
(* back to the wait for CI, whatever the verdict of its review was.        *)
ActMetadata ==
    /\ cycle.pc = "act" /\ Head(cycle.todo) = "PR_METADATA"
    /\ \/ /\ tasks' = [tasks EXCEPT ![cycle.task].status = "WAITING_CI",
                                    ![cycle.task].error = "none"]
          /\ Acted("COMPLETED")
       \/ Acted("TERMINAL") /\ UNCHANGED tasks
    /\ UNCHANGED <<github, verdicts, kills>>

ActCheckRetry ==
    /\ cycle.pc = "act" /\ Head(cycle.todo) = "CI_RETRY"
    /\ reruns' = reruns \cup {tasks[cycle.task].sha}
    /\ tasks' = [tasks EXCEPT ![cycle.task].status = "WAITING_CI"]
    /\ Acted("COMPLETED")
    /\ UNCHANGED <<prs, pushed, issueOpen, verdicts, kills>>

ActReviewRerun ==
    /\ cycle.pc = "act" /\ Head(cycle.todo) = "REVIEW_RERUN"
    /\ LET t == cycle.task
       IN  IF HasReview(t, tasks[t].sha) THEN UNCHANGED tasks
           ELSE /\ Len(tasks) < MaxTasks
                /\ tasks' = Append(tasks, NewTask("REVIEW", tasks[t].pr, tasks[t].sha, t))
    /\ Acted("COMPLETED")
    /\ UNCHANGED <<github, verdicts, kills>>

ActPolicy ==
    /\ cycle.pc = "act" /\ Head(cycle.todo) = "POLICY_RECONCILIATION"
    /\ Acted("COMPLETED")
    /\ UNCHANGED <<tasks, github, verdicts, kills>>

(* A protected action without a valid authorization blocks the row.        *)
ActProtected ==
    /\ cycle.pc = "act" /\ Head(cycle.todo) = "PROTECTED_ACTION"
    /\ \/ Acted("COMPLETED") /\ UNCHANGED tasks
       \/ Acted("TERMINAL") /\ tasks' = Blocked(cycle.task, "auth")
    /\ UNCHANGED <<github, verdicts, kills>>

(* A terminal blocker stops the row under the name of its rule.            *)
ActTerminal ==
    /\ cycle.pc = "act" /\ Head(cycle.todo) = "TERMINAL"
    /\ \E rule \in IF tasks[cycle.task].error = "CI failure" THEN {"rule"} ELSE Rules :
         tasks' = Blocked(cycle.task, rule)
    /\ Acted("TERMINAL")
    /\ UNCHANGED <<github, verdicts, kills>>

(* While it mends a handoff an exception is logged, and the cycle goes on. *)
HandoffFails ==
    /\ cycle.pc = "act" /\ cycle.back = "handoffs"
    /\ cycle' = Back
    /\ UNCHANGED <<ledger, github, verdicts, kills>>

DispatchEnds ==
    /\ cycle.pc = "dispatch" /\ cycle.todo = <<>>
    /\ cycle' = Back
    /\ UNCHANGED <<ledger, github, verdicts, kills>>

-----------------------------------------------------------------------------
(* handle_ci.                                                              *)

WaitForChecks ==
    /\ cycle.pc = "ci"
    /\ LET t == cycle.task
           head == prs[tasks[t].pr].head
       IN  IF head # tasks[t].sha
           THEN /\ tasks' = Superseded(t, "PR moved after PASS")
                /\ cycle' = [At("replace", t) EXCEPT !.sha = head]
           ELSE \/ Finish([tasks EXCEPT ![t].error = "CI pending"])
                \/ \E list \in CheckLists :
                   /\ "CI_RETRY" \in Range(list) => tasks[t].sha \notin reruns
                   /\ tasks' = [tasks EXCEPT ![t].status = "DONE", ![t].error = "CI failure",
                                             ![t].blockers = list]
                   /\ cycle' = [At("dispatch", t) EXCEPT !.todo = list]
                \/ /\ cycle' = [At("merge", t) EXCEPT !.sha = tasks[t].sha]
                   /\ UNCHANGED tasks
    /\ UNCHANGED <<rem, github, verdicts, kills>>

(* The gates on protected files and on the task's class.                   *)
MergeWithheld ==
    /\ cycle.pc = "merge"
    /\ LET t == cycle.task
       IN  \/ \E error \in {"auth", "protected"} : Finish(Blocked(t, error))
           \/ /\ ExactSha
              /\ Finish([tasks EXCEPT ![t].status = "DONE", ![t].error = "withheld"])
    /\ UNCHANGED <<rem, github, verdicts, kills>>

(* GitHub merges an open pull request whose head is the commit that the    *)
(* call names, and answers 405 or 409 otherwise.                           *)
MergeAcceptedAtHead(pr) == prs[pr].state = "open"
MergeAccepted(pr) == prs[pr].state = "open" /\ prs[pr].head = cycle.sha
Merge ==
    /\ cycle.pc = "merge" /\ ~ExactSha
    /\ LET t == cycle.task
           pr == tasks[t].pr
       IN  IF MergeAccepted(pr)
           THEN \/ /\ prs' = [prs EXCEPT ![pr].state = "merged", ![pr].at = @ + prs[pr].head]
                   /\ cycle' = [cycle EXCEPT !.pc = "merged"]
                   /\ UNCHANGED tasks
                \/ /\ Finish([tasks EXCEPT ![t].error = "merge rejected"])
                   /\ UNCHANGED prs
           ELSE /\ IF prs[pr].state = "open"
                   THEN Finish(tasks)
                   ELSE Finish([tasks EXCEPT ![t].status = "STALE", ![t].class = "INTERNAL",
                                             ![t].error = "merge no longer applicable"])
                /\ UNCHANGED prs
    /\ UNCHANGED <<rem, pushed, reruns, issueOpen, verdicts, kills>>

(* Only this commit of the ledger tells the later phases of the merge.     *)
RecordMerge ==
    /\ cycle.pc = "merged"
    /\ Finish([tasks EXCEPT ![cycle.task].status = "DONE", ![cycle.task].error = "none",
                            ![cycle.task].merged = TRUE])
    /\ UNCHANGED <<rem, github, verdicts, kills>>

-----------------------------------------------------------------------------
(* The environment.                                                        *)

(* The process is killed, or an exception ends the cycle.                  *)
Kill ==
    /\ cycle.pc # "idle" /\ kills < MaxKills
    /\ kills' = kills + 1
    /\ cycle' = Idle
    /\ UNCHANGED <<ledger, github, verdicts>>

(* Others push to an open pull request, close it, or close the issue.      *)
OthersPush ==
    /\ pushed < MaxSha
    /\ \E p \in DOMAIN prs :
        /\ prs[p].state = "open"
        /\ prs' = [prs EXCEPT ![p].head = pushed + 1]
    /\ pushed' = pushed + 1
    /\ UNCHANGED <<ledger, reruns, issueOpen, cycle, verdicts, kills>>

OthersClose ==
    /\ \/ /\ \E p \in DOMAIN prs :
              prs[p].state = "open" /\ prs' = [prs EXCEPT ![p].state = "closed"]
          /\ UNCHANGED issueOpen
       \/ /\ issueOpen /\ issueOpen' = FALSE
          /\ UNCHANGED prs
    /\ UNCHANGED <<ledger, pushed, reruns, cycle, verdicts, kills>>

-----------------------------------------------------------------------------
(* claim_ready_issue creates the first row along the issue's route; the    *)
(* pull request of an exact-SHA review is there already.                   *)
TasksInit ==
    /\ \E route \in Routes :
         IF route = "EXACT_SHA_REVIEW"
         THEN /\ tasks = <<NewTask("REVIEW", 1, 1, 0)>>
              /\ prs = <<[head |-> 1, state |-> "open", at |-> 0, by |-> 0]>>
              /\ pushed = 1
         ELSE /\ tasks = <<NewTask(route, 0, 0, 0)>>
              /\ prs = <<>>
              /\ pushed = 0
    /\ rem = [f \in {} |-> "OBSERVED"]
    /\ reruns = {}
    /\ issueOpen = TRUE
    /\ cycle = Idle
    /\ verdicts = {}
    /\ kills = 0

CycleNext ==
    \/ StartCycle \/ Recover \/ Park \/ RetireObsolete \/ Handoff \/ Pick \/ NothingDue
    \/ PreflightFails \/ Probe
    \/ StartCodex \/ CodexStops \/ PostprocessFails \/ CodexPushes \/ CreatePr \/ FinishCodex \/ EnqueueReview
    \/ Research \/ ResearchEnds \/ EnqueueBuild
    \/ StartReview \/ ReviewStops \/ ReviewEnds \/ ReplaceReview
    \/ Observe \/ ActCodeChange \/ ActMetadata \/ ActCheckRetry \/ ActReviewRerun
    \/ ActPolicy \/ ActProtected \/ ActTerminal \/ DispatchEnds
    \/ HandoffFails
    \/ WaitForChecks \/ MergeWithheld \/ Merge \/ RecordMerge

TasksNext == CycleNext \/ Kill \/ OthersPush \/ OthersClose

TasksSpec == TasksInit /\ [][TasksNext]_taskVars

-----------------------------------------------------------------------------
(* Properties.                                                             *)

(* Type invariant.                                                         *)
TasksTypeOK ==
    /\ \A t \in Ids :
        /\ tasks[t].type \in {"BUILD", "REPAIR", "REVIEW", "RESEARCH"}
        /\ tasks[t].status \in Status
        /\ tasks[t].pr \in 0 .. Len(prs) /\ tasks[t].sha \in 0 .. pushed
        /\ tasks[t].parent \in 0 .. t - 1
    /\ Len(tasks) \in 1 .. MaxTasks
    /\ \A f \in DOMAIN rem :
        rem[f] \in {"OBSERVED", "ACTION_STARTED", "COMPLETED", "TERMINAL"}
    /\ \A p \in DOMAIN prs : /\ prs[p].state \in {"open", "closed", "merged"}
                             /\ prs[p].head \in 1 .. pushed
    /\ cycle.task \in 0 .. Len(tasks) /\ cycle.left \subseteq Ids
    /\ kills \in 0 .. MaxKills

(* Whoever pushes and whenever a cycle is killed, what is merged is a      *)
(* commit on which a review of exactly that commit gave its verdict.       *)
MergedShaWasReviewed ==
    \A p \in DOMAIN prs : prs[p].state = "merged" =>
        \E v \in {"PASS", "FAIL"} : <<prs[p].at, v>> \in verdicts

(* The documented gate: only a PASS for that very commit opens it.         *)
MergedShaPassed ==
    \A p \in DOMAIN prs : prs[p].state = "merged" => <<prs[p].at, "PASS">> \in verdicts

(* Handoffs are idempotent: however often they are repeated after a kill,  *)
(* a row gets one review per commit and one repair.  Only a review can get *)
(* two repairs, that of what it found and that of its own failure, which   *)
(* is known by the fingerprint.                                            *)
RecoversReview(c) ==
    tasks[c].fingerprint # NoFingerprint /\ tasks[c].fingerprint[4] = "REVIEW"
Siblings(t, u) ==
    /\ t # u /\ tasks[t].parent = tasks[u].parent /\ tasks[t].parent # 0
    /\ tasks[t].type = tasks[u].type
WorkApart(t, u) ==
    \/ tasks[t].type = "REVIEW" /\ tasks[t].sha # tasks[u].sha
    \/ tasks[t].type = "REPAIR" /\ (RecoversReview(t) <=> ~RecoversReview(u))
OneChildPerHandoff ==
    \A t, u \in Ids : Siblings(t, u) =>
        tasks[tasks[t].parent].type = "REVIEW" /\ WorkApart(t, u)

(* The recovery of one failure is bounded, across tasks and restarts: of   *)
(* the repairs that were assigned for a fingerprint there are never more   *)
(* than recovery.max_attempts.                                             *)
Assigned(f) ==
    {c \in Ids : /\ tasks[c].type = "REPAIR" /\ tasks[c].fingerprint = f
                 /\ tasks[c].parent # 0 /\ tasks[tasks[c].parent].fingerprint = f}
RecoveryBounded ==
    \A t \in Ids : tasks[t].fingerprint # NoFingerprint =>
        Cardinality(Assigned(tasks[t].fingerprint)) <= MaxRecovery

(* Usage limits and probes spend no attempt that was not run: the attempts *)
(* of a task stay within the budget but for the runs that were killed.     *)
ExternalWaits == {"PROVIDER/RATE_LIMIT_WAIT", "EVIDENCE_WINDOW_WAIT"}
AttemptsBounded ==
    \A t \in Ids :
        \/ tasks[t].fingerprint = NoFingerprint /\ tasks[t].class \notin ExternalWaits
        \/ tasks[t].fingerprint # NoFingerprint /\ tasks[t].fingerprint[1] \notin ExternalWaits
        => tasks[t].attempt <= MaxAttempts + tasks[t].cuts

(* Killed and repeated, the cycle pays for no work twice: handoffs are     *)
(* idempotent, and no row and no fingerprint costs more runs than its      *)
(* budget, but for attempts that a kill cut.                               *)
EffortBounded == TasksTypeOK /\ OneChildPerHandoff /\ RecoveryBounded /\ AttemptsBounded

(* reconcile_handoffs: no restart strands recoverable work.  When a cycle  *)
(* has looked at every handoff, an open issue has a row that is active, a  *)
(* row that waits for the owner or is given up, or its merge.              *)
NothingStranded ==
    (cycle.pc = "handoffs" /\ cycle.left = {} /\ issueOpen) =>
        \/ \E t \in Ids : tasks[t].status \in Active \cup {"BLOCKED", "QUARANTINED"}
        \/ \E t \in Ids : tasks[t].merged \/ tasks[t].error \in {"withheld", "obsolete"}
        \/ \E p \in DOMAIN prs : prs[p].state = "closed"

=============================================================================
