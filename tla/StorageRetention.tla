-------------------------- MODULE StorageRetention --------------------------
(***************************************************************************)
(* Deleting old partitions of the market tape: the audit classifies them,  *)
(* a dry run cuts the prefix that reaches the objective, an independent    *)
(* review is bound to the hashes of both, and the apply deletes what it    *)
(* finds unchanged.  scripts/storage_retention_audit.py,                   *)
(* storage_retention_apply.py, p0_90_storage_apply.py,                     *)
(* verify_trusted_opus_storage_review.py, and the two programs that hold   *)
(* the review: ai_team_orchestrator.py and p0_90_trusted_opus_review_now.  *)
(*                                                                         *)
(* A path is <<directory, day>>; several directories may hold one coin.    *)
(* The hash of a manifest is its number, as it holds the time it was       *)
(* generated.  A manifest expires minutes after it was written, so that at *)
(* most one midnight falls before that.                                    *)
(***************************************************************************)
EXTENDS Integers, FiniteSets, FiniteSetsExt

CONSTANTS
    Canonical,     \* directory -> canonical coin
    TapeAtFirst,   \* path -> [bytes, inode]
    FirstDay, LastDay,
    RecentDays,    \* recent_days_kept_full_fidelity
    DeleteBudget,  \* max_delete_candidate_gib
    Objective,     \* the bytes the apply has to free at first
    MaxAudits, MaxTouches, MaxSrKills

ASSUME RetentionAssumption ==
    /\ {FirstDay, LastDay, RecentDays, DeleteBudget, Objective, MaxAudits, MaxTouches, MaxSrKills}
            \subseteq Nat
    /\ FirstDay <= LastDay /\ RecentDays >= 3

VARIABLES
    today,
    parts,      \* the partitions: path -> [bytes, inode]
    freed,      \* the bytes freed, or written elsewhere (negative)
    funnel,     \* the funnel report: [robust, positive, complete]
    audit,      \* the manifest on disk
    prefix,     \* the dry run on disk: [no, rows]
    reviewTask, \* the destructive review
    deletion,   \* the running apply
    srBudget    \* touches and kills left

srVars == <<today, parts, freed, funnel, audit, prefix, reviewTask, deletion, srBudget>>

Coins == {Canonical[d] : d \in DOMAIN Canonical}
Coin(path) == Canonical[path[1]]
Day(path) == path[2]

NoAudit == [no |-> 0, fresh |-> FALSE, rows |-> {}, kept |-> {}, day |-> 0, known |-> {}]
NoPrefix == [no |-> 0, rows |-> {}]
NoReview == [at |-> "none", no |-> 0, rows |-> {}, kept |-> {}, exact |-> FALSE]
DeletionIdle == [at |-> "idle", exact |-> FALSE, todo |-> {}]

-----------------------------------------------------------------------------
(* storage_retention_audit.py.                                             *)

(* The preview of robust coins is capped; every coin with a positive       *)
(* screening is protected, so that the cap makes no hole.                  *)
ProtectedPreview == funnel.robust
Protected == funnel.robust \cup funnel.positive
EvidenceRefused ==
    \/ funnel.robust = {} \/ ~funnel.complete
    \/ funnel.robust \ funnel.positive # {}

(* Within the recent days nothing is a candidate.                          *)
Recent(path, day) == Day(path) >= day - RecentDays + 1
Candidates ==
    {p \in DOMAIN parts : ~Recent(p, today) /\ Coin(p) \notin Protected}
BytesOf(rows) == FoldSet(LAMBDA r, sum : r.bytes + sum, 0, rows)
Audit ==
    /\ audit.no < MaxAudits /\ deletion.at = "idle"
    /\ ~EvidenceRefused
    /\ LET rows == {[path |-> p, bytes |-> parts[p].bytes] : p \in Candidates} IN
        /\ BytesOf(rows) <= DeleteBudget
        /\ audit' = [no |-> audit.no + 1, fresh |-> TRUE, rows |-> rows, kept |-> Protected,
                     day |-> today, known |-> funnel.positive]
    /\ UNCHANGED <<today, parts, freed, funnel, prefix, reviewTask, deletion, srBudget>>

-----------------------------------------------------------------------------
(* validate_manifest: what a plan or an apply may choose from, the oldest  *)
(* day first, then the largest.  The identity is the one found now.        *)

Valid ==
    /\ audit.no > 0 /\ audit.fresh /\ audit.rows # {}
    /\ \A r \in audit.rows :
        r.path \in DOMAIN parts /\ Coin(r.path) \notin audit.kept /\ ~Recent(r.path, today)
Before(r, s) ==
    \/ Day(r.path) < Day(s.path)
    \/ Day(r.path) = Day(s.path) /\ r.bytes > s.bytes
    \/ Day(r.path) = Day(s.path) /\ r.bytes = s.bytes /\ r.path[1] < s.path[1]
Identified ==
    {[path |-> r.path, bytes |-> r.bytes, inode |-> parts[r.path].inode] : r \in audit.rows}
Leading(rows) == \A r \in rows, s \in Identified \ rows : Before(r, s)
Reached == freed >= Objective

(* A row is deleted only as it was planned; a change outside fails.        *)
ChangedInode(row) == parts[row.path].inode # row.inode
Changed(row) == parts[row.path] # [bytes |-> row.bytes, inode |-> row.inode]

(* The dry run of the bootstrap cuts the shortest prefix that reaches the  *)
(* objective; the device and the inode of its rows are recorded with it.   *)
DryRun ==
    /\ Valid /\ ~Reached /\ deletion.at = "idle"
    /\ \A row \in Identified : ~Changed(row)
    /\ \E last \in Identified :
        LET rows == {r \in Identified : r = last \/ Before(r, last)} IN
        /\ freed + BytesOf(rows) >= Objective
        /\ freed + BytesOf(rows \ {last}) < Objective
        /\ prefix' = [no |-> audit.no, rows |-> rows]
    /\ UNCHANGED <<today, parts, freed, funnel, audit, reviewTask, deletion, srBudget>>

-----------------------------------------------------------------------------
(* The review.  Its input is the bundle on disk, whose files must agree.   *)

BundleBound == prefix.no > 0 /\ prefix.no = audit.no
AskReview ==
    /\ reviewTask.at = "none" /\ BundleBound
    /\ reviewTask' = [at |-> "running", no |-> audit.no, rows |-> prefix.rows,
                      kept |-> audit.known, exact |-> FALSE]
    /\ UNCHANGED <<today, parts, freed, funnel, audit, prefix, deletion, srBudget>>

(* The reviewer fails, denies, or echoes markers, which may be those of    *)
(* another bundle.  The task is DONE before the verifier has read the run. *)
ReviewRuns ==
    /\ reviewTask.at = "running"
    /\ \E outcome \in {"none", "done"}, exact \in BOOLEAN :
        reviewTask' = IF outcome = "none" THEN NoReview
                      ELSE [reviewTask EXCEPT !.at = "done", !.exact = exact]
    /\ UNCHANGED <<today, parts, freed, funnel, audit, prefix, deletion, srBudget>>
ReviewedExactly == reviewTask.exact
VerifyReview ==
    /\ reviewTask.at = "done"
    /\ reviewTask' = IF ReviewedExactly THEN [reviewTask EXCEPT !.at = "accepted"]
                     ELSE [reviewTask EXCEPT !.at = "blocked"]
    /\ UNCHANGED <<today, parts, freed, funnel, audit, prefix, deletion, srBudget>>

(* The direct review closes its run with the status PASS, where the        *)
(* verifier wants DONE: it ends without an acceptance whatever was said.   *)
DirectReview ==
    /\ reviewTask.at = "none" /\ BundleBound /\ audit.fresh
    /\ \E end \in {"stale", "rejected"} : reviewTask' = [NoReview EXCEPT !.at = end]
    /\ UNCHANGED <<today, parts, freed, funnel, audit, prefix, deletion, srBudget>>

(* A review that came to nothing is asked for again.                       *)
ReviewAgain ==
    /\ reviewTask.at \in {"blocked", "stale", "rejected"}
    /\ reviewTask' = NoReview
    /\ UNCHANGED <<today, parts, freed, funnel, audit, prefix, deletion, srBudget>>

-----------------------------------------------------------------------------
(* The applies.  Both want the hashes that were reviewed.                  *)

Approved == reviewTask.at = "accepted" /\ reviewTask.no = audit.no

(* p0_90_storage_apply: the rows are the prefix, and each has the identity *)
(* that was reviewed.                                                      *)
ApplyExact ==
    /\ deletion.at = "idle" /\ Approved /\ Valid
    /\ prefix.no = reviewTask.no /\ prefix.rows = reviewTask.rows
    /\ prefix.rows \subseteq Identified /\ Leading(prefix.rows)
    /\ freed + BytesOf(prefix.rows) >= Objective
    /\ deletion' = [at |-> "run", exact |-> TRUE, todo |-> prefix.rows]
    /\ UNCHANGED <<today, parts, freed, funnel, audit, prefix, reviewTask, srBudget>>

(* storage_retention_apply: all candidates, until the target is reached.   *)
ApplyToTarget ==
    /\ deletion.at = "idle" /\ Approved /\ Valid
    /\ freed + BytesOf(Identified) >= Objective
    /\ deletion' = [at |-> "run", exact |-> FALSE, todo |-> Identified]
    /\ UNCHANGED <<today, parts, freed, funnel, audit, prefix, reviewTask, srBudget>>

Without(path) == [p \in DOMAIN parts \ {path} |-> parts[p]]
ApplyEnds == deletion' = DeletionIdle
DeleteNext ==
    /\ deletion.at = "run" /\ ~Reached
    /\ \E row \in deletion.todo :
        /\ \A other \in deletion.todo \ {row} : Before(row, other)
        /\ \/ /\ row.path \notin DOMAIN parts
              /\ deletion' = [deletion EXCEPT !.todo = @ \ {row}] /\ UNCHANGED <<parts, freed>>
           \/ /\ row.path \in DOMAIN parts /\ Changed(row)
              /\ ApplyEnds /\ UNCHANGED <<parts, freed>>
           \/ /\ row.path \in DOMAIN parts /\ ~Changed(row)
              /\ parts' = Without(row.path)
              /\ freed' = freed + row.bytes
              /\ deletion' = [deletion EXCEPT !.todo = @ \ {row}]
    /\ UNCHANGED <<today, funnel, audit, prefix, reviewTask, srBudget>>
DeletionDone ==
    /\ deletion.at = "run" /\ (Reached \/ deletion.todo = {})
    /\ ApplyEnds
    /\ UNCHANGED <<today, parts, freed, funnel, audit, prefix, reviewTask, srBudget>>
KillDeletion ==
    /\ deletion.at = "run" /\ srBudget.kills > 0
    /\ ApplyEnds
    /\ srBudget' = [srBudget EXCEPT !.kills = @ - 1]
    /\ UNCHANGED <<today, parts, freed, funnel, audit, prefix, reviewTask>>

-----------------------------------------------------------------------------
(* What goes on around it: another program rewrites a partition, in place  *)
(* or as a new directory, or removes it; the funnel publishes a report; a  *)
(* manifest expires; a day ends.                                           *)

Touch ==
    /\ srBudget.touches > 0
    /\ srBudget' = [srBudget EXCEPT !.touches = @ - 1]
    /\ \E p \in DOMAIN parts :
        \/ parts' = [parts EXCEPT ![p].bytes = @ + 1] /\ freed' = freed - 1
        \/ parts' = [parts EXCEPT ![p].inode = @ + 1] /\ freed' = freed
        \/ parts' = Without(p) /\ freed' = freed + parts[p].bytes
    /\ UNCHANGED <<today, funnel, audit, prefix, reviewTask, deletion>>
Reports == [robust : SUBSET Coins, positive : SUBSET Coins, complete : BOOLEAN]
FunnelReports ==
    /\ deletion.at = "idle" /\ srBudget.touches > 0
    /\ srBudget' = [srBudget EXCEPT !.touches = @ - 1]
    /\ funnel' \in Reports
    /\ UNCHANGED <<today, parts, freed, audit, prefix, reviewTask, deletion>>
Expire ==
    /\ audit.fresh
    /\ audit' = [audit EXCEPT !.fresh = FALSE]
    /\ UNCHANGED <<today, parts, freed, funnel, prefix, reviewTask, deletion, srBudget>>
Midnight ==
    /\ today < LastDay
    /\ today' = today + 1
    /\ audit' = [audit EXCEPT !.fresh = @ /\ audit.day = today]
    /\ UNCHANGED <<parts, freed, funnel, prefix, reviewTask, deletion, srBudget>>

RetentionInit ==
    /\ today = FirstDay /\ parts = TapeAtFirst /\ freed = 0
    /\ funnel \in {f \in Reports : f.complete /\ f.robust # {} /\ f.robust \subseteq f.positive}
    /\ audit = NoAudit /\ prefix = NoPrefix /\ reviewTask = NoReview /\ deletion = DeletionIdle
    /\ srBudget = [touches |-> MaxTouches, kills |-> MaxSrKills]

RetentionNext ==
    \/ Audit \/ DryRun
    \/ AskReview \/ ReviewRuns \/ VerifyReview \/ DirectReview \/ ReviewAgain
    \/ ApplyExact \/ ApplyToTarget \/ DeleteNext \/ DeletionDone \/ KillDeletion
    \/ Touch \/ FunnelReports \/ Expire \/ Midnight
RetentionSpec == RetentionInit /\ [][RetentionNext]_srVars

-----------------------------------------------------------------------------
(* Properties.                                                             *)

(* Type invariant; a plan and a review never hold more than a manifest.    *)
RetentionTypeOK ==
    /\ DOMAIN parts \subseteq DOMAIN TapeAtFirst
    /\ prefix.no <= audit.no /\ reviewTask.no <= audit.no
    /\ reviewTask.at \in {"none", "running", "done", "accepted", "blocked", "stale", "rejected"}
    /\ (audit.no = prefix.no /\ prefix.no > 0) =>
            {[path |-> r.path, bytes |-> r.bytes] : r \in prefix.rows} \subseteq audit.rows

Deleted == IF DeleteNext THEN DOMAIN parts \ DOMAIN parts' ELSE {}

(* Whatever was written, replaced or audited again since the review, an    *)
(* apply of the exact plan deletes the very directories that were approved.*)
OnlyTheReviewed ==
    [][\A p \in Deleted : deletion.exact =>
        [path |-> p, bytes |-> parts[p].bytes, inode |-> parts[p].inode] \in reviewTask.rows]_srVars

(* No apply, of the prefix or to the target, deletes the tape of a coin    *)
(* which the funnel knew to be profitable when the approved manifest was   *)
(* written, under whichever directory name it lies.                        *)
ProfitableKept ==
    [][\A p \in Deleted : Coin(p) \notin reviewTask.kept]_srVars

(* An apply takes what was approved as it was approved, and no tape of a   *)
(* coin the approval knew to be profitable.                                *)
DeletesOnlyTheReviewed == []RetentionTypeOK /\ OnlyTheReviewed /\ ProfitableKept

=============================================================================
