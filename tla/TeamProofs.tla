------------------------------ MODULE TeamProofs ------------------------------
(***************************************************************************)
(* What is proved of the autonomous team, for every value of the bounds.   *)
(*                                                                         *)
(* TeamTasks: one inductive invariant, TeamInv.  Next to the types of rows *)
(* and cycle it says what the row that a cycle works on still is when the  *)
(* stage that chose it is over (Works), that the verdict behind a wait for *)
(* CI is on record (RowOK), that attempts are spent on runs (Spent), and   *)
(* that a row to which the recovery assigned a repair is parked, or is     *)
(* about to be by the very cycle that assigned it (ParentsParked): that is *)
(* why a kill between the two commits does not assign a second one.        *)
(*                                                                         *)
(* TeamAcceptance: the types of rows, evidence and cycle (AcceptInv), and  *)
(* two facts about its steps.                                              *)
(*                                                                         *)
(* TeamSupervisor: the restarts of an incident are on record but for one   *)
(* per killed check and one that is about to be saved (SupInv).            *)
(*                                                                         *)
(* TeamProjection: what the bridge has still to project of an issue is the *)
(* oldest that the outbox holds of it, unless an event of it failed in     *)
(* this pass, and it removes what it announced (ProjectInv).               *)
(***************************************************************************)
EXTENDS TeamTasks, TeamAcceptance, TeamSupervisor, TeamProjection, FiniteSetTheorems, SequenceTheorems,
        WellFoundedInduction, TLAPS

-----------------------------------------------------------------------------
(* TeamTasks: what the rows, the pull requests and the cycle hold.         *)

Types == {"BUILD", "REPAIR", "REVIEW", "RESEARCH"}
Errors == {"none", "restarted", "failed", "exhausted", "limit", "auth", "protected", "no change",
           "rule", "quota", "window", "dependency", "obsolete", "withheld",
           "PR closed", "PR moved", "PR changed", "PR moved after PASS", "review FAIL",
           "CI pending", "CI failure", "merge rejected", "merge no longer applicable"}
Classes == {"none", "INTERNAL", "OWNER_AUTH_REQUIRED", "PROVIDER/RATE_LIMIT_WAIT",
            "EVIDENCE_WINDOW_WAIT", "DEPENDENCY_WAIT"}
Prints == {NoFingerprint} \cup ((Classes \ {"none"}) \X Nat \X Nat \X Types \X Errors)
Row == [type : Types, status : Status, pr : Nat, sha : Nat, attempt : Nat, error : Errors,
        class : Classes, fingerprint : Prints, blockers : Seq(BlockerClass), merged : BOOLEAN,
        parent : Nat, cuts : Nat]
Pull == [head : Nat, state : {"open", "closed", "merged"}, at : Nat, by : Nat]

Between == {"idle", "recovery", "handoffs"}
AtRow == {"park", "codex", "building", "pushed", "created", "enqueue", "review", "reviewing",
          "replace", "research", "researching", "researched", "probe", "ci", "dispatch", "act",
          "merge", "merged"}
Mending == {"enqueue", "dispatch", "act"}

RemediationShape ==
    \A f \in DOMAIN rem : rem[f] \in {"OBSERVED", "ACTION_STARTED", "COMPLETED", "TERMINAL"}
Shape ==
    /\ tasks \in Seq(Row) /\ Len(tasks) \in 1 .. MaxTasks
    /\ prs \in Seq(Pull)
    /\ pushed \in Nat /\ kills \in 0 .. MaxKills
CycleShape ==
    cycle \in [pc : Between \cup AtRow, task : Nat, todo : Seq(BlockerClass),
               left : SUBSET Nat, back : {"idle", "handoffs", "created"}, sha : Nat]

(* A review of the commit gave its verdict.                                *)
Judged(sha, known) == \E v \in {"PASS", "FAIL"} : <<sha, v>> \in known
Decided(r) == r.type = "REVIEW" /\ Judged(r.sha, verdicts)
Told == {"review FAIL", "CI failure"}

Pulls ==
    \A p \in DOMAIN prs :
        /\ prs[p].head \in 1 .. pushed
        /\ IF prs[p].state = "merged" THEN Judged(prs[p].at, verdicts) ELSE prs[p].at = 0

(* What an attempt was spent on counts, but for the waits that are not the *)
(* fault of the task.                                                      *)
Runnable == {"PENDING", "RETRY", "WAITING_RATE_LIMIT", "WAITING_EVIDENCE_WINDOW"}
External(r) ==
    IF r.fingerprint = NoFingerprint THEN r.class \in ExternalWaits
    ELSE r.fingerprint[1] \in ExternalWaits
Spent(r) ==
    /\ (External(r) /\ r.fingerprint # NoFingerprint) \/ r.attempt <= MaxAttempts + r.cuts
    /\ r.status \in Runnable => External(r) \/ r.attempt < MaxAttempts + r.cuts
    /\ r.status \in Runnable \cup {"RUNNING"} =>
            r.fingerprint # NoFingerprint \/ r.class \notin ExternalWaits
    /\ r.fingerprint # NoFingerprint =>
        \/ r.class \in {r.fingerprint[1], "INTERNAL"}
        \/ r.class = "none" /\ r.status = "DONE" /\ r.error = "obsolete"

(* A row, given how many pull requests and commits there are.              *)
RowOK(r, opened, commits, known) ==
    /\ r.pr \in 0 .. opened /\ r.sha \in 0 .. commits
    /\ r.type = "REVIEW" => r.pr # 0
    /\ r.status = "WAITING_CI" \/ r.error \in Told => r.type = "REVIEW" /\ Judged(r.sha, known)
    /\ r.type = "REVIEW" /\ r.fingerprint # NoFingerprint => r.fingerprint[4] = "REVIEW"
    /\ Spent(r)
Rows ==
    \A t \in Ids : /\ tasks[t].parent \in 0 .. t - 1
                   /\ RowOK(tasks[t], Len(prs), pushed, verdicts)

(* The row that a cycle works on.                                          *)
Halted == {"BLOCKED", "STALE", "QUARANTINED"}
Coded(r) == r.type \in {"BUILD", "REPAIR"}
Works(r) ==
    /\ cycle.pc \in {"codex", "building", "pushed", "created", "enqueue"} => Coded(r)
    /\ cycle.pc \in {"review", "reviewing", "replace"} => r.type = "REVIEW"
    /\ cycle.pc \in {"research", "researching", "researched"} => r.type = "RESEARCH"
    /\ cycle.pc \in {"codex", "review", "research"} => r.status \in Runnable
    /\ cycle.pc = "probe" => r.status = "WAITING_RATE_LIMIT"
    /\ cycle.pc \in {"building", "pushed", "created", "reviewing", "researching"} =>
            r.status = "RUNNING"
    /\ cycle.pc \in {"pushed", "created", "replace"} => cycle.sha \in 1 .. pushed
    /\ cycle.pc = "created" => prs # <<>>
    /\ cycle.pc \in {"enqueue", "researched"} => r.status = "DONE"
    /\ cycle.pc = "enqueue" => r.pr # 0
    /\ cycle.pc = "replace" => r.status = "STALE"
    /\ cycle.pc \in {"ci", "merge", "merged"} => r.status = "WAITING_CI"
    /\ cycle.pc \in {"merge", "merged"} => cycle.sha = r.sha
    /\ cycle.pc \in {"dispatch", "act"} =>
            /\ Decided(r)
            /\ r.status \in {"DONE", "STALE", "BLOCKED", "WAITING_CI"}
            /\ r.error # "obsolete"
    /\ cycle.pc = "act" => cycle.todo # <<>>
Candidate(r) ==
    /\ r.status = "DONE" /\ r.error # "obsolete"
    /\ (Coded(r) /\ r.pr # 0) \/ Decided(r)
Cycling ==
    /\ cycle.left \subseteq Ids
    /\ cycle.task \in 0 .. Len(tasks)
    /\ cycle.pc \in AtRow => cycle.task \in Ids /\ Works(tasks[cycle.task])
    /\ cycle.pc = "park" => cycle.task \in cycle.left
    /\ cycle.pc \in {"recovery", "park"} => \A t \in cycle.left : tasks[t].status \in Halted
    /\ cycle.pc \in Mending \cup {"handoffs"} => \A t \in cycle.left : Candidate(tasks[t])
    /\ cycle.pc \in Mending => cycle.task \notin cycle.left
    /\ cycle.pc \in Mending \cup {"replace"} => cycle.back \in {"idle", "handoffs"}
    /\ cycle.pc \in AtRow \ {"park"} =>
            cycle.left = {} \/ (cycle.pc \in Mending /\ cycle.back = "handoffs")

(* A repair that the recovery assigned.                                    *)
Recovers(c) ==
    /\ tasks[c].type = "REPAIR" /\ tasks[c].parent # 0
    /\ tasks[tasks[c].parent].type = "REVIEW" => RecoversReview(c)
Signed == \A c \in Ids : Recovers(c) => tasks[c].fingerprint # NoFingerprint

(* It is assigned to a row at most once, as the row is parked before the   *)
(* repair can have run.                                                    *)
Waits == {"OWNER_AUTH_REQUIRED", "PROVIDER/RATE_LIMIT_WAIT", "EVIDENCE_WINDOW_WAIT",
          "DEPENDENCY_WAIT"}
ClassOf(r) == FailureClass(r, r.error)
Recovering(t) ==
    \/ cycle.pc = "idle"
    \/ cycle.pc \in {"recovery", "park"} /\ t \in cycle.left
Assigning(r, s) ==
    /\ r.status \in {"STALE", "BLOCKED"} /\ s.status = "PENDING"
    /\ ClassOf(r) \notin Waits
    /\ s.fingerprint = Fingerprint(r, ClassOf(r))
ParentsParked ==
    \A c \in Ids : Recovers(c) =>
        \/ tasks[tasks[c].parent].status = "RECOVERY_PENDING"
        \/ Recovering(tasks[c].parent) /\ Assigning(tasks[tasks[c].parent], tasks[c])

Repairs(f) == {c \in Ids : Recovers(c) /\ tasks[c].fingerprint = f}
RepairsBounded == \A f \in Prints : Cardinality(Repairs(f)) <= MaxRecovery

TeamInv ==
    /\ Shape /\ RemediationShape /\ CycleShape /\ Pulls /\ Rows /\ Cycling
    /\ Signed /\ ParentsParked /\ OneChildPerHandoff /\ RepairsBounded

-----------------------------------------------------------------------------
(* Rows.                                                                   *)

LEMMA SomePrint ==
  ASSUME NEW a \in Classes \ {"none"}, NEW b \in Nat, NEW c \in Nat, NEW d \in Types, NEW e \in Errors
  PROVE /\ <<a, b, c, d, e>> \in Prints \ {NoFingerprint}
        /\ <<a, b, c, d, e>>[1] = a /\ <<a, b, c, d, e>>[4] = d
BY DEF Prints, NoFingerprint

LEMMA PrintFacts ==
  ASSUME NEW r \in Row, NEW k \in Classes \ {"none"}
  PROVE /\ Fingerprint(r, k) \in Prints \ {NoFingerprint}
        /\ r.fingerprint = NoFingerprint =>
            /\ Fingerprint(r, k)[1] = k /\ Fingerprint(r, k)[4] = r.type
        /\ r.fingerprint # NoFingerprint => Fingerprint(r, k) = r.fingerprint
<1>1. /\ r.pr \in Nat /\ r.sha \in Nat /\ r.type \in Types /\ r.error \in Errors
      /\ r.fingerprint \in Prints
  BY DEF Row
<1>. QED BY <1>1, SomePrint DEF Fingerprint

LEMMA ClassFacts ==
  ASSUME NEW r \in Row, NEW e \in Errors
  PROVE /\ FailureClass(r, e) \in Classes /\ FailureClass(r, e) # "none"
        /\ r.class # "none" => FailureClass(r, e) = r.class
        /\ r.class = "none" /\ e \notin {"quota", "window"} => FailureClass(r, e) \notin ExternalWaits
<1>1. r.class \in Classes
  BY DEF Row
<1>2. CASE r.class # "none"
  BY <1>1, <1>2 DEF FailureClass
<1>3. CASE r.class = "none"
  <2>1. FailureClass(r, e) =
            IF e = "auth" THEN "OWNER_AUTH_REQUIRED"
            ELSE IF e = "quota" THEN "PROVIDER/RATE_LIMIT_WAIT"
            ELSE IF e = "window" THEN "EVIDENCE_WINDOW_WAIT"
            ELSE IF e = "dependency" THEN "DEPENDENCY_WAIT"
            ELSE "INTERNAL"
    BY <1>3 DEF FailureClass
  <2>. QED BY <1>3, <2>1 DEF ExternalWaits, Classes
<1>. QED BY <1>2, <1>3

LEMMA Patched ==
  ASSUME tasks \in Seq(Row), NEW t \in Ids, NEW r \in Row, tasks' = [tasks EXCEPT ![t] = r]
  PROVE /\ tasks' \in Seq(Row) /\ Len(tasks') = Len(tasks) /\ tasks'[t] = r
        /\ \A u \in Ids : u # t => tasks'[u] = tasks[u]
BY DEF Ids

LEMMA Grown ==
  ASSUME tasks \in Seq(Row), NEW r \in Row, tasks' = Append(tasks, r)
  PROVE /\ tasks' \in Seq(Row) /\ Len(tasks') = Len(tasks) + 1
        /\ tasks'[Len(tasks) + 1] = r
        /\ \A u \in Ids : tasks'[u] = tasks[u]
BY DEF Ids

LEMMA NewTaskTyped ==
  ASSUME NEW type \in Types, NEW pr \in Nat, NEW sha \in Nat, NEW parent \in Nat
  PROVE NewTask(type, pr, sha, parent) \in Row
<1>1. NoFingerprint \in Prints
  BY DEF Prints
<1>2. "none" \in Errors /\ "none" \in Classes /\ "PENDING" \in Status
  BY DEF Errors, Classes, Status, Active
<1>. QED BY <1>1, <1>2 DEF NewTask, Row

(* A row that is revised keeps what it is and whom it belongs to, and gets *)
(* a fingerprint of its own once.                                          *)
Revised(r, s) ==
    /\ s.type = r.type /\ s.parent = r.parent
    /\ r.type = "REVIEW" => s.sha = r.sha
    /\ \/ s.fingerprint = r.fingerprint
       \/ /\ r.fingerprint = NoFingerprint
          /\ s.fingerprint # NoFingerprint /\ s.fingerprint[4] = r.type

LEMMA RowGrows ==
  ASSUME NEW r \in Row, NEW m \in Nat, NEW m2 \in Nat, NEW n \in Nat, NEW n2 \in Nat,
         m <= m2, n <= n2, NEW k, NEW k2, k \subseteq k2, RowOK(r, m, n, k)
  PROVE RowOK(r, m2, n2, k2)
BY DEF RowOK, Judged, Row

LEMMA Revision ==
  ASSUME TeamInv, tasks' \in Seq(Row), Len(tasks') = Len(tasks), prs' \in Seq(Pull),
         pushed' \in Nat, Len(prs) <= Len(prs'), pushed <= pushed', verdicts \subseteq verdicts',
         \A u \in Ids : \/ tasks'[u] = tasks[u]
                        \/ /\ Revised(tasks[u], tasks'[u])
                           /\ RowOK(tasks'[u], Len(prs'), pushed', verdicts')
  PROVE /\ Ids' = Ids
        /\ Rows' /\ Signed' /\ OneChildPerHandoff' /\ RepairsBounded'
        /\ \A c \in Ids : Recovers(c)' <=> Recovers(c)
<1>1. Ids' = Ids
  BY DEF Ids
<1>2. \A u \in Ids : tasks[u] \in Row /\ tasks'[u] \in Row
  BY <1>1 DEF TeamInv, Shape, Ids
<1>3. \A u \in Ids : Revised(tasks[u], tasks'[u])
  BY DEF Revised
<1>4. \A u \in Ids : u \in Nat /\ tasks[u].parent \in Nat
                     /\ (tasks[u].parent # 0 => tasks[u].parent \in Ids)
  BY DEF TeamInv, Rows, Ids
<1>5. Rows'
  <2>1. Len(prs) \in Nat /\ Len(prs') \in Nat /\ pushed \in Nat
    BY DEF TeamInv, Shape
  <2>2. ASSUME NEW u \in Ids PROVE RowOK(tasks'[u], Len(prs'), pushed', verdicts')
    <3>1. CASE tasks'[u] = tasks[u]
      <4>1. RowOK(tasks[u], Len(prs), pushed, verdicts)
        BY DEF TeamInv, Rows
      <4>. QED BY <1>2, <2>1, <3>1, <4>1, RowGrows
    <3>. QED BY <3>1
  <2>3. ASSUME NEW u \in Ids PROVE tasks'[u].parent \in 0 .. u - 1
    BY <1>3 DEF TeamInv, Rows, Revised
  <2>. QED BY <1>1, <2>2, <2>3 DEF Rows
<1>6. ASSUME NEW c \in Ids, tasks[c].type = "REPAIR"
      PROVE /\ RecoversReview(c)' <=> RecoversReview(c)
            /\ tasks[c].fingerprint # NoFingerprint =>
                    tasks'[c].fingerprint = tasks[c].fingerprint
  BY <1>3, <1>6 DEF Revised, RecoversReview
<1>7. ASSUME NEW c \in Ids PROVE Recovers(c)' <=> Recovers(c)
  <2>1. /\ tasks'[c].type = tasks[c].type /\ tasks'[c].parent = tasks[c].parent
        /\ tasks[c].parent # 0 => tasks'[tasks[c].parent].type = tasks[tasks[c].parent].type
    BY <1>3, <1>4 DEF Revised
  <2>. QED BY <1>6, <2>1 DEF Recovers
<1>8. ASSUME NEW c \in Ids, Recovers(c)
      PROVE tasks'[c].fingerprint = tasks[c].fingerprint
  BY <1>6, <1>8 DEF TeamInv, Signed, Recovers
<1>9. Signed'
  BY <1>1, <1>7, <1>8 DEF TeamInv, Signed
<1>10. RepairsBounded'
  <2>1. ASSUME NEW f \in Prints PROVE Repairs(f)' = Repairs(f)
    BY <1>1, <1>7, <1>8 DEF Repairs
  <2>. QED BY <2>1 DEF TeamInv, RepairsBounded
<1>11. OneChildPerHandoff'
  <2>. SUFFICES ASSUME NEW t \in Ids, NEW u \in Ids, Siblings(t, u)'
                PROVE tasks'[tasks'[t].parent].type = "REVIEW" /\ WorkApart(t, u)'
    BY <1>1 DEF OneChildPerHandoff
  <2>1. /\ tasks'[t].type = tasks[t].type /\ tasks'[t].parent = tasks[t].parent
        /\ tasks'[u].type = tasks[u].type /\ tasks'[u].parent = tasks[u].parent
        /\ tasks[t].type = "REVIEW" => tasks'[t].sha = tasks[t].sha
        /\ tasks[u].type = "REVIEW" => tasks'[u].sha = tasks[u].sha
    BY <1>3 DEF Revised
  <2>2. Siblings(t, u)
    BY <2>1 DEF Siblings
  <2>3. tasks[tasks[t].parent].type = "REVIEW" /\ WorkApart(t, u)
    BY <2>2 DEF TeamInv, OneChildPerHandoff
  <2>4. tasks'[tasks[t].parent].type = tasks[tasks[t].parent].type
    BY <1>3, <1>4, <2>2 DEF Revised, Siblings
  <2>5. WorkApart(t, u)'
    <3>1. CASE tasks[t].type = "REPAIR"
      <4>1. tasks[u].type = "REPAIR"
        BY <2>2, <3>1 DEF Siblings
      <4>. QED BY <1>6, <2>1, <2>3, <3>1, <4>1 DEF WorkApart
    <3>2. CASE tasks[t].type # "REPAIR"
      BY <2>1, <2>2, <2>3, <3>2 DEF WorkApart, Siblings
    <3>. QED BY <3>1, <3>2
  <2>. QED BY <2>1, <2>3, <2>4, <2>5
<1>. QED BY <1>1, <1>5, <1>7, <1>9, <1>10, <1>11

(* While no repair is being assigned, the rows that have one are parked.   *)
Settled == cycle.pc \notin {"idle", "recovery", "park"}

LEMMA Patch ==
  ASSUME TeamInv, Settled, NEW t \in Ids, NEW r \in Row, tasks' = [tasks EXCEPT ![t] = r],
         prs' = prs, pushed' = pushed, verdicts \subseteq verdicts',
         tasks[t].status # "RECOVERY_PENDING",
         Revised(tasks[t], r), RowOK(r, Len(prs), pushed, verdicts')
  PROVE /\ tasks' \in Seq(Row) /\ Len(tasks') = Len(tasks) /\ Ids' = Ids /\ tasks'[t] = r
        /\ \A u \in Ids : u # t => tasks'[u] = tasks[u]
        /\ Rows' /\ Signed' /\ ParentsParked' /\ OneChildPerHandoff' /\ RepairsBounded'
<1>1. tasks \in Seq(Row) /\ prs \in Seq(Pull) /\ pushed \in Nat
  BY DEF TeamInv, Shape
<1>2. /\ tasks' \in Seq(Row) /\ Len(tasks') = Len(tasks) /\ tasks'[t] = r
      /\ \A u \in Ids : u # t => tasks'[u] = tasks[u]
  BY <1>1, Patched
<1>3. \A u \in Ids : \/ tasks'[u] = tasks[u]
                     \/ /\ Revised(tasks[u], tasks'[u])
                        /\ RowOK(tasks'[u], Len(prs'), pushed', verdicts')
  BY <1>2
<1>4. Len(prs) <= Len(prs') /\ pushed <= pushed'
  BY <1>1
<1>5. /\ Ids' = Ids /\ Rows' /\ Signed' /\ OneChildPerHandoff' /\ RepairsBounded'
      /\ \A c \in Ids : Recovers(c)' <=> Recovers(c)
  BY <1>1, <1>2, <1>3, <1>4, Revision
<1>6. ParentsParked'
  <2>1. ASSUME NEW c \in Ids, Recovers(c)
        PROVE tasks'[tasks'[c].parent].status = "RECOVERY_PENDING"
    <3>1. tasks[c].parent \in Ids
      BY <2>1 DEF TeamInv, Rows, Recovers, Ids
    <3>2. tasks[tasks[c].parent].status = "RECOVERY_PENDING"
      BY <2>1 DEF TeamInv, ParentsParked, Recovering, Settled
    <3>3. tasks'[c].parent = tasks[c].parent
      BY <1>2 DEF Revised
    <3>. QED BY <1>2, <3>1, <3>2, <3>3
  <2>. QED BY <1>5, <2>1 DEF ParentsParked
<1>. QED BY <1>2, <1>5, <1>6

(* A new row below another: the handoffs of a cycle.                       *)
LEMMA Growth ==
  ASSUME TeamInv, Settled, NEW r \in Row, tasks' = Append(tasks, r), Len(tasks) < MaxTasks,
         prs' = prs, pushed' = pushed, verdicts' = verdicts,
         RowOK(r, Len(prs), pushed, verdicts), r.parent \in Ids, r.fingerprint = NoFingerprint,
         \/ r.type = "BUILD" /\ ~HasChild(r.parent, "BUILD")
         \/ r.type = "REVIEW" /\ ~HasChild(r.parent, "REVIEW")
         \/ /\ r.type = "REVIEW" /\ tasks[r.parent].type = "REVIEW"
            /\ ~HasReview(r.parent, r.sha)
         \/ /\ r.type = "REPAIR" /\ tasks[r.parent].type = "REVIEW"
            /\ ~HasChild(r.parent, "REPAIR")
  PROVE /\ tasks' \in Seq(Row) /\ Len(tasks') = Len(tasks) + 1 /\ Len(tasks') \in 1 .. MaxTasks
        /\ Ids' = Ids \cup {Len(tasks) + 1}
        /\ \A u \in Ids : tasks'[u] = tasks[u]
        /\ Rows' /\ Signed' /\ ParentsParked' /\ OneChildPerHandoff' /\ RepairsBounded'
<1>1. tasks \in Seq(Row) /\ Len(tasks) \in Nat /\ MaxTasks \in Nat
  BY TaskBoundsAssumption DEF TeamInv, Shape
<1>n. PICK n \in Nat : n = Len(tasks) + 1
  BY <1>1
<1>2. /\ tasks' \in Seq(Row) /\ Len(tasks') = n /\ tasks'[n] = r
      /\ \A u \in Ids : tasks'[u] = tasks[u]
  BY <1>1, <1>n, Grown
<1>3. /\ Ids' = Ids \cup {n} /\ n \notin Ids
      /\ \A u \in Ids : u \in Nat /\ u < n
      /\ Len(tasks') \in 1 .. MaxTasks
  BY <1>1, <1>2, <1>n DEF Ids
<1>4. \A u \in Ids : tasks[u].parent # 0 => tasks[u].parent \in Ids
  BY DEF TeamInv, Rows, Ids
<1>5. Rows'
  <2>1. ASSUME NEW u \in Ids
        PROVE tasks'[u].parent \in 0 .. u - 1 /\ RowOK(tasks'[u], Len(prs'), pushed', verdicts')
    BY <1>2 DEF TeamInv, Rows
  <2>2. r.parent \in 0 .. n - 1
    BY <1>1, <1>n DEF Ids
  <2>. QED BY <1>2, <1>3, <2>1, <2>2 DEF Rows
<1>6. /\ \A c \in Ids : Recovers(c)' <=> Recovers(c)
      /\ ~Recovers(n)'
  <2>1. ASSUME NEW c \in Ids PROVE Recovers(c)' <=> Recovers(c)
    BY <1>2, <1>4 DEF Recovers, RecoversReview
  <2>2. tasks'[n] = r /\ tasks'[r.parent] = tasks[r.parent]
    BY <1>2
  <2>3. ~Recovers(n)'
    BY <2>2 DEF Recovers, RecoversReview
  <2>. QED BY <2>1, <2>3
<1>7. Signed'
  BY <1>2, <1>3, <1>6 DEF TeamInv, Signed
<1>8. RepairsBounded'
  <2>1. ASSUME NEW f \in Prints PROVE Repairs(f)' = Repairs(f)
    BY <1>2, <1>3, <1>6 DEF Repairs
  <2>. QED BY <2>1 DEF TeamInv, RepairsBounded
<1>9. ParentsParked'
  <2>1. ASSUME NEW c \in Ids, Recovers(c)
        PROVE tasks'[tasks'[c].parent].status = "RECOVERY_PENDING"
    <3>1. tasks[c].parent \in Ids
      BY <1>4, <2>1 DEF Recovers
    <3>2. tasks[tasks[c].parent].status = "RECOVERY_PENDING"
      BY <2>1 DEF TeamInv, ParentsParked, Recovering, Settled
    <3>. QED BY <1>2, <3>1, <3>2
  <2>. QED BY <1>3, <1>6, <2>1 DEF ParentsParked
<1>10. OneChildPerHandoff'
  <2>1. ASSUME NEW u \in Ids, tasks[u].parent = r.parent, tasks[u].type = r.type
        PROVE r.type = "REVIEW" /\ tasks[r.parent].type = "REVIEW" /\ tasks[u].sha # r.sha
    BY <2>1 DEF HasChild, HasReview
  <2>. SUFFICES ASSUME NEW t \in Ids', NEW u \in Ids', Siblings(t, u)'
                PROVE tasks'[tasks'[t].parent].type = "REVIEW" /\ WorkApart(t, u)'
    BY DEF OneChildPerHandoff
  <2>2. CASE t \in Ids /\ u \in Ids
    <3>1. tasks'[t] = tasks[t] /\ tasks'[u] = tasks[u]
      BY <1>2, <2>2
    <3>2. Siblings(t, u)
      BY <3>1 DEF Siblings
    <3>3. tasks[tasks[t].parent].type = "REVIEW" /\ WorkApart(t, u)
      BY <2>2, <3>2 DEF TeamInv, OneChildPerHandoff
    <3>4. tasks'[tasks[t].parent] = tasks[tasks[t].parent]
      BY <1>2, <1>4, <2>2, <3>2 DEF Siblings
    <3>. QED BY <3>1, <3>3, <3>4 DEF WorkApart, RecoversReview
  <2>3. CASE t = n /\ u \in Ids
    <3>1. tasks'[t] = r /\ tasks'[u] = tasks[u] /\ tasks'[r.parent] = tasks[r.parent]
      BY <1>2, <2>3
    <3>. QED BY <2>1, <2>3, <3>1 DEF Siblings, WorkApart
  <2>4. CASE u = n /\ t \in Ids
    <3>1. tasks'[u] = r /\ tasks'[t] = tasks[t] /\ tasks'[r.parent] = tasks[r.parent]
      BY <1>2, <2>4
    <3>. QED BY <2>1, <2>4, <3>1 DEF Siblings, WorkApart
  <2>5. t # u
    BY DEF Siblings
  <2>. QED BY <1>3, <2>2, <2>3, <2>4, <2>5
<1>. QED BY <1>2, <1>3, <1>5, <1>7, <1>8, <1>9, <1>10, <1>n

-----------------------------------------------------------------------------
(* How a row ends a step of the cycle.                                     *)

Same(r, s) ==
    /\ s.type = r.type /\ s.pr = r.pr /\ s.sha = r.sha /\ s.parent = r.parent
    /\ s.fingerprint = r.fingerprint /\ s.cuts = r.cuts
Obsoleted(r) == r.status = "DONE" /\ r.error = "obsolete"

LEMMA SameRevised ==
  ASSUME NEW r, NEW s, Same(r, s) PROVE Revised(r, s)
BY DEF Same, Revised

(* A task that will not run on spends nothing.                             *)
LEMMA Halts ==
  ASSUME NEW r \in Row, NEW s \in Row, NEW m, NEW n, NEW k, RowOK(r, m, n, k), Same(r, s),
         ~Obsoleted(r), s.status \notin Runnable \cup {"RUNNING"},
         s.attempt <= r.attempt \/ (r.status \in Runnable /\ s.attempt = r.attempt + 1),
         s.class = r.class \/ s.class = "INTERNAL" \/ r.class = "none",
         s.status = "WAITING_CI" \/ s.error \in Told => r.type = "REVIEW" /\ Judged(r.sha, k)
  PROVE RowOK(s, m, n, k)
<1>1. /\ r.attempt \in Nat /\ s.attempt \in Nat /\ r.cuts \in Nat /\ s.cuts = r.cuts
      /\ s.fingerprint = r.fingerprint /\ r.fingerprint \in Prints
      /\ MaxAttempts \in Nat
  BY TaskBoundsAssumption DEF Row, Same
<1>2. r.fingerprint # NoFingerprint => r.fingerprint[1] # "none"
  BY <1>1 DEF Prints
<1>3. Spent(r)
  BY DEF RowOK
<1>4. CASE r.fingerprint = NoFingerprint
  <2>1. r.status \in Runnable => r.class \notin ExternalWaits
    BY <1>3, <1>4 DEF Spent
  <2>2. External(r) <=> r.class \in ExternalWaits
    BY <1>4 DEF External
  <2>3. r.attempt <= MaxAttempts + r.cuts
    BY <1>3, <1>4 DEF Spent
  <2>4. r.status \in Runnable => r.attempt < MaxAttempts + r.cuts
    BY <1>3, <2>1, <2>2 DEF Spent
  <2>5. s.attempt <= MaxAttempts + s.cuts
    BY <1>1, <2>3, <2>4
  <2>6. Spent(s)
    BY <1>1, <1>4, <2>5 DEF Spent
  <2>. QED BY <2>6 DEF RowOK, Same
<1>5. CASE r.fingerprint # NoFingerprint
  <2>1. External(s) <=> External(r)
    BY <1>1, <1>5 DEF External
  <2>2. s.class \in {s.fingerprint[1], "INTERNAL"}
    BY <1>1, <1>2, <1>3, <1>5 DEF Spent, Obsoleted
  <2>3. (External(s) /\ s.fingerprint # NoFingerprint) \/ s.attempt <= MaxAttempts + s.cuts
    BY <1>1, <1>3, <1>5, <2>1 DEF Spent
  <2>4. Spent(s)
    BY <2>2, <2>3 DEF Spent
  <2>. QED BY <2>4 DEF RowOK, Same
<1>. QED BY <1>4, <1>5

(* A task that is to run again has an attempt left.                        *)
LEMMA StaysDue ==
  ASSUME NEW r \in Row, NEW s \in Row, NEW m, NEW n, NEW k, RowOK(r, m, n, k), Same(r, s),
         r.status \in Runnable \cup {"RUNNING"}, s.status \in Runnable, s.class = r.class,
         \/ s.attempt < MaxAttempts
         \/ s.attempt < r.attempt
         \/ s.attempt = r.attempt /\ r.status \in Runnable,
         s.error \in Told => r.error \in Told
  PROVE RowOK(s, m, n, k)
<1>1. /\ r.attempt \in Nat /\ s.attempt \in Nat /\ r.cuts \in Nat /\ s.cuts = r.cuts
      /\ s.fingerprint = r.fingerprint /\ MaxAttempts \in Nat
  BY TaskBoundsAssumption DEF Row, Same
<1>2. External(s) <=> External(r)
  BY <1>1 DEF External
<1>3. /\ Spent(r) /\ s.status # "WAITING_CI" /\ s.status # "DONE" /\ r.status # "DONE"
  BY DEF RowOK, Runnable
<1>4. r.fingerprint # NoFingerprint \/ r.class \notin ExternalWaits
  BY <1>3 DEF Spent
<1>5. External(r) \/ r.attempt <= MaxAttempts + r.cuts
  BY <1>3 DEF Spent
<1>6. External(s) \/ s.attempt < MaxAttempts + s.cuts
  BY <1>1, <1>2, <1>3, <1>5 DEF Spent
<1>7. External(s) => s.fingerprint # NoFingerprint
  BY <1>1, <1>2, <1>4 DEF External
<1>8. s.fingerprint # NoFingerprint => s.class \in {s.fingerprint[1], "INTERNAL"}
  BY <1>1, <1>3 DEF Spent
<1>9. Spent(s)
  BY <1>1, <1>4, <1>6, <1>7, <1>8 DEF Spent
<1>. QED BY <1>3, <1>9 DEF RowOK, Same

LEMMA Runs ==
  ASSUME NEW r \in Row, NEW s \in Row, NEW m, NEW n, NEW k, RowOK(r, m, n, k), Same(r, s),
         r.status \in Runnable, s.status = "RUNNING", s.class = r.class,
         s.attempt = r.attempt + 1, s.error = r.error
  PROVE RowOK(s, m, n, k)
<1>1. /\ r.attempt \in Nat /\ s.attempt \in Nat /\ r.cuts \in Nat /\ s.cuts = r.cuts
      /\ s.fingerprint = r.fingerprint /\ MaxAttempts \in Nat
  BY TaskBoundsAssumption DEF Row, Same
<1>2. External(s) <=> External(r)
  BY <1>1 DEF External
<1>3. /\ Spent(r) /\ s.status # "WAITING_CI" /\ s.status # "DONE" /\ r.status # "DONE"
      /\ s.status \notin Runnable
  BY DEF RowOK, Runnable
<1>4. r.fingerprint # NoFingerprint \/ r.class \notin ExternalWaits
  BY <1>3 DEF Spent
<1>5. External(r) \/ r.attempt < MaxAttempts + r.cuts
  BY <1>3 DEF Spent
<1>6. External(s) \/ s.attempt <= MaxAttempts + s.cuts
  BY <1>1, <1>2, <1>5
<1>7. External(s) => s.fingerprint # NoFingerprint
  BY <1>1, <1>2, <1>4 DEF External
<1>8. s.fingerprint # NoFingerprint => s.class \in {s.fingerprint[1], "INTERNAL"}
  BY <1>1, <1>3 DEF Spent
<1>9. Spent(s)
  BY <1>1, <1>3, <1>4, <1>6, <1>7, <1>8 DEF Spent
<1>. QED BY <1>3, <1>9 DEF RowOK, Same

LEMMA AtARow ==
  ASSUME TeamInv, cycle.pc \in AtRow
  PROVE /\ cycle.task \in Ids /\ tasks[cycle.task] \in Row
        /\ RowOK(tasks[cycle.task], Len(prs), pushed, verdicts)
        /\ Works(tasks[cycle.task])
        /\ cycle.pc # "park" => Settled
BY DEF TeamInv, Shape, Rows, Cycling, Ids, AtRow, Settled

LEMMA ARow ==
  ASSUME TeamInv, NEW t \in Ids
  PROVE /\ tasks \in Seq(Row) /\ tasks[t] \in Row
        /\ RowOK(tasks[t], Len(prs), pushed, verdicts)
        /\ tasks[t].type \in Types /\ tasks[t].status \in Status /\ tasks[t].error \in Errors
        /\ tasks[t].attempt \in Nat /\ tasks[t].pr \in Nat /\ tasks[t].sha \in Nat
        /\ tasks[t].parent \in Nat /\ tasks[t].class \in Classes /\ tasks[t].cuts \in Nat
        /\ tasks[t].fingerprint \in Prints /\ tasks[t].blockers \in Seq(BlockerClass)
<1>1. tasks \in Seq(Row) /\ tasks[t] \in Row /\ RowOK(tasks[t], Len(prs), pushed, verdicts)
  BY DEF TeamInv, Shape, Rows, Ids
<1>. QED BY <1>1 DEF Row

LEMMA BlockedRow ==
  ASSUME TeamInv, NEW t \in Ids, ~Obsoleted(tasks[t]), NEW e \in Errors \ Told
  PROVE \E s \in Row :
            /\ Blocked(t, e) = [tasks EXCEPT ![t] = s] /\ Same(tasks[t], s)
            /\ RowOK(s, Len(prs), pushed, verdicts)
            /\ s.status \in {"BLOCKED", "STALE"} /\ s.error = e
            /\ s.type = tasks[t].type /\ s.sha = tasks[t].sha
<1>. DEFINE r == tasks[t]
            s == [r EXCEPT !.status = IF FailureClass(r, e) = "OWNER_AUTH_REQUIRED" THEN "BLOCKED"
                                      ELSE "STALE",
                           !.error = e, !.class = FailureClass(r, e)]
<1>1. r \in Row /\ RowOK(r, Len(prs), pushed, verdicts) /\ tasks \in Seq(Row)
  BY DEF TeamInv, Shape, Rows, Ids
<1>2. /\ FailureClass(r, e) \in Classes
      /\ r.class # "none" => FailureClass(r, e) = r.class
  BY <1>1, ClassFacts
<1>3. {"BLOCKED", "STALE"} \subseteq Status
  BY DEF Status
<1>4. s \in Row
  BY <1>1, <1>2, <1>3 DEF Row
<1>5. Blocked(t, e) = [tasks EXCEPT ![t] = s]
  BY <1>1 DEF Blocked
<1>6. /\ s.status \in {"BLOCKED", "STALE"} /\ s.error = e /\ s.attempt = r.attempt
      /\ (s.class = r.class \/ r.class = "none") /\ Same(r, s)
  BY <1>1, <1>2 DEF Same, Row
<1>. HIDE DEF s
<1>7. RowOK(s, Len(prs), pushed, verdicts)
  <2>1. s.status \notin Runnable \cup {"RUNNING"} /\ s.status # "WAITING_CI" /\ s.error \notin Told
    BY <1>6 DEF Runnable
  <2>2. s.attempt <= r.attempt
    BY <1>1, <1>6 DEF Row
  <2>. QED BY <1>1, <1>4, <1>6, <2>1, <2>2, Halts
<1>. QED BY <1>4, <1>5, <1>6, <1>7 DEF Same

LEMMA StoppedRow ==
  ASSUME TeamInv, NEW t \in Ids, tasks[t].status = "RUNNING"
  PROVE /\ \E s \in Row :
            /\ RetryOrBlock(t) = [tasks EXCEPT ![t] = s] /\ Same(tasks[t], s)
            /\ RowOK(s, Len(prs), pushed, verdicts)
        /\ \E s \in Row :
            /\ RateLimited(t) = [tasks EXCEPT ![t] = s] /\ Same(tasks[t], s)
            /\ RowOK(s, Len(prs), pushed, verdicts)
<1>. DEFINE r == tasks[t]
            a == [r EXCEPT !.status = "RETRY", !.error = "failed"]
            b == [r EXCEPT !.status = "WAITING_RATE_LIMIT", !.error = "limit",
                           !.attempt = IF @ > 0 THEN @ - 1 ELSE 0]
<1>1. r \in Row /\ RowOK(r, Len(prs), pushed, verdicts) /\ tasks \in Seq(Row)
      /\ r.status = "RUNNING" /\ r.attempt \in Nat /\ MaxAttempts \in Nat \ {0}
  BY TaskBoundsAssumption, ARow
<1>2. /\ {"RETRY", "WAITING_RATE_LIMIT"} \subseteq Status
      /\ {"failed", "limit"} \subseteq Errors /\ "exhausted" \in Errors \ Told
      /\ "RETRY" \in Runnable /\ "WAITING_RATE_LIMIT" \in Runnable
      /\ "failed" \notin Told /\ "limit" \notin Told
  BY DEF Status, Active, Errors, Told, Runnable
<1>3. a \in Row /\ b \in Row
  <2>1. a \in Row
    BY <1>1, <1>2 DEF Row
  <2>2. (IF r.attempt > 0 THEN r.attempt - 1 ELSE 0) \in Nat
    BY <1>1
  <2>3. b \in Row
    BY <1>1, <1>2, <2>2 DEF Row
  <2>. QED BY <2>1, <2>3
<1>4. /\ a.status = "RETRY" /\ a.error = "failed" /\ a.attempt = r.attempt /\ a.class = r.class
      /\ b.status = "WAITING_RATE_LIMIT" /\ b.error = "limit" /\ b.class = r.class
      /\ b.attempt = IF r.attempt > 0 THEN r.attempt - 1 ELSE 0
      /\ Same(r, a) /\ Same(r, b)
  BY <1>1 DEF Row, Same
<1>. HIDE DEF a, b
<1>5. ~(r.attempt >= MaxAttempts) => RowOK(a, Len(prs), pushed, verdicts)
  BY <1>1, <1>2, <1>3, <1>4, StaysDue
<1>6. RowOK(b, Len(prs), pushed, verdicts)
  <2>1. b.attempt < MaxAttempts \/ b.attempt < r.attempt
    BY <1>1, <1>4
  <2>. QED BY <1>1, <1>2, <1>3, <1>4, <2>1, StaysDue
<1>7. /\ RateLimited(t) = [tasks EXCEPT ![t] = b]
      /\ ~(r.attempt >= MaxAttempts) => RetryOrBlock(t) = [tasks EXCEPT ![t] = a]
  BY <1>1 DEF RateLimited, RetryOrBlock, a, b
<1>8. CASE r.attempt >= MaxAttempts
  <2>1. RetryOrBlock(t) = Blocked(t, "exhausted")
    BY <1>8 DEF RetryOrBlock
  <2>2. ~Obsoleted(r)
    BY <1>1 DEF Obsoleted
  <2>3. \E s \in Row :
            /\ Blocked(t, "exhausted") = [tasks EXCEPT ![t] = s] /\ Same(tasks[t], s)
            /\ RowOK(s, Len(prs), pushed, verdicts)
    BY <1>2, <2>2, BlockedRow
  <2>. QED BY <1>3, <1>4, <1>6, <1>7, <2>1, <2>3
<1>9. CASE ~(r.attempt >= MaxAttempts)
  BY <1>3, <1>4, <1>5, <1>6, <1>7, <1>9
<1>. QED BY <1>8, <1>9

LEMMA StartedRow ==
  ASSUME TeamInv, NEW t \in Ids, tasks[t].status \in Runnable
  PROVE \E s \in Row :
            /\ Running(t) = [tasks EXCEPT ![t] = s] /\ Same(tasks[t], s)
            /\ RowOK(s, Len(prs), pushed, verdicts) /\ s.status = "RUNNING"
<1>. DEFINE r == tasks[t]
            a == [r EXCEPT !.status = "RUNNING", !.attempt = @ + 1]
<1>1. r \in Row /\ RowOK(r, Len(prs), pushed, verdicts) /\ tasks \in Seq(Row)
  BY DEF TeamInv, Shape, Rows, Ids
<1>2. a \in Row
  <2>1. r.attempt + 1 \in Nat /\ "RUNNING" \in Status
    BY ARow DEF Status, Active
  <2>. QED BY <1>1, <2>1 DEF Row
<1>3. /\ a.status = "RUNNING" /\ a.error = r.error /\ a.attempt = r.attempt + 1
      /\ a.class = r.class /\ Same(r, a)
  BY <1>1 DEF Row, Same
<1>4. Running(t) = [tasks EXCEPT ![t] = a]
  BY <1>1 DEF Running
<1>. HIDE DEF a
<1>5. RowOK(a, Len(prs), pushed, verdicts)
  BY <1>1, <1>2, <1>3, Runs
<1>. QED BY <1>2, <1>3, <1>4, <1>5

(* A row that comes to a rest with an error of no further meaning.         *)
LEMMA RestingRow ==
  ASSUME TeamInv, NEW t \in Ids, ~Obsoleted(tasks[t]), NEW s \in Row, Same(tasks[t], s),
         s.attempt = tasks[t].attempt, s.class = tasks[t].class \/ s.class = "INTERNAL",
         s.status \in {"STALE", "DONE", "WAITING_CI"},
         s.status = "WAITING_CI" \/ s.error \in Told => Decided(tasks[t])
  PROVE RowOK(s, Len(prs), pushed, verdicts)
<1>1. tasks[t] \in Row /\ RowOK(tasks[t], Len(prs), pushed, verdicts)
  BY DEF TeamInv, Shape, Rows, Ids
<1>2. s.status \notin Runnable \cup {"RUNNING"} /\ s.attempt <= tasks[t].attempt
  BY <1>1 DEF Runnable, Row
<1>. QED BY <1>1, <1>2, Halts DEF Decided

LEMMA IdleCycles ==
  ASSUME TeamInv, Len(tasks') \in Nat, cycle' = Idle
  PROVE CycleShape' /\ Cycling'
<1>1. /\ cycle'.pc = "idle" /\ cycle'.left = {} /\ cycle'.task = 0 /\ cycle' = Idle
  BY DEF Idle
<1>2. CycleShape'
  BY <1>1 DEF CycleShape, Idle, Between, AtRow
<1>3. Cycling'
  BY <1>1 DEF Cycling, AtRow, Mending
<1>. QED BY <1>2, <1>3

LEMMA PullsKept ==
  ASSUME TeamInv, prs' = prs, pushed' = pushed, verdicts \subseteq verdicts'
  PROVE Pulls'
BY DEF TeamInv, Pulls, Judged

(* The end of a step that revises the row of the cycle.                    *)
LEMMA Finishes ==
  ASSUME TeamInv, Settled, NEW t \in Ids, tasks[t].status # "RECOVERY_PENDING",
         NEW s \in Row, Same(tasks[t], s), RowOK(s, Len(prs), pushed, verdicts'),
         tasks' = [tasks EXCEPT ![t] = s], prs' = prs, pushed' = pushed, kills' = kills,
         verdicts \subseteq verdicts', RemediationShape', (CycleShape' /\ Cycling') \/ cycle' = Idle
  PROVE TeamInv'
<1>1. /\ tasks' \in Seq(Row) /\ Len(tasks') = Len(tasks)
      /\ Rows' /\ Signed' /\ ParentsParked' /\ OneChildPerHandoff' /\ RepairsBounded'
  BY Patch, SameRevised
<1>2. Len(tasks) \in 1 .. MaxTasks /\ Len(tasks) \in Nat
  BY TaskBoundsAssumption DEF TeamInv, Shape
<1>3. Shape'
  BY <1>1, <1>2 DEF TeamInv, Shape
<1>4. CycleShape' /\ Cycling'
  BY <1>1, <1>2, IdleCycles
<1>. QED BY <1>1, <1>3, <1>4, PullsKept DEF TeamInv

-----------------------------------------------------------------------------
(* The steps that revise the row of the cycle.                             *)

Revises(t) ==
    \E s \in Row : /\ tasks' = [tasks EXCEPT ![t] = s]
                   /\ Same(tasks[t], s) /\ RowOK(s, Len(prs), pushed, verdicts)
AllElse == UNCHANGED <<rem, prs, pushed, verdicts, kills>>

LEMMA RowEnds ==
  ASSUME TeamInv, cycle.pc \in AtRow \ {"park"}, tasks[cycle.task].status # "RECOVERY_PENDING",
         Revises(cycle.task) \/ tasks' = tasks, AllElse,
         cycle' = Idle \/ (CycleShape' /\ Cycling')
  PROVE TeamInv'
<1>. DEFINE t == cycle.task
<1>1. /\ t \in Ids /\ tasks[t] \in Row /\ RowOK(tasks[t], Len(prs), pushed, verdicts) /\ Settled
      /\ tasks \in Seq(Row)
  BY AtARow DEF TeamInv, Shape
<1>2. PICK s \in Row : /\ tasks' = [tasks EXCEPT ![t] = s]
                       /\ Same(tasks[t], s) /\ RowOK(s, Len(prs), pushed, verdicts)
  <2>1. CASE tasks' = tasks
    <3>1. tasks' = [tasks EXCEPT ![t] = tasks[t]] /\ Same(tasks[t], tasks[t])
      BY <1>1, <2>1 DEF Same
    <3>. QED BY <1>1, <3>1
  <2>. QED BY <2>1 DEF Revises
<1>3. /\ rem' = rem /\ prs' = prs /\ pushed' = pushed /\ kills' = kills /\ verdicts' = verdicts
  BY DEF AllElse
<1>4. RemediationShape'
  BY <1>3 DEF TeamInv, RemediationShape
<1>. QED BY <1>1, <1>2, <1>3, <1>4, Finishes

LEMMA RowMoves ==
  ASSUME TeamInv, NEW pc \in AtRow \ (Mending \cup {"park", "replace"}),
         Len(tasks') = Len(tasks), cycle.task \in Ids,
         cycle' = At(pc, cycle.task), Works(tasks[cycle.task])'
  PROVE CycleShape' /\ Cycling'
<1>0. cycle.task \in Nat /\ Ids' = Ids
  BY DEF Ids
<1>1. cycle' = [pc |-> pc, task |-> cycle.task, todo |-> <<>>, left |-> {}, back |-> "idle",
                sha |-> 0]
  BY DEF At, Idle
<1>2. CycleShape'
  BY <1>0, <1>1 DEF CycleShape
<1>3. Cycling'
  BY <1>0, <1>1 DEF Cycling, Mending, Ids
<1>. QED BY <1>2, <1>3

LEMMA PreflightKeeps ==
  ASSUME TeamInv, PreflightFails
  PROVE TeamInv'
<1>1. /\ cycle.pc \in AtRow \ {"park"} /\ cycle' = Idle /\ AllElse
      /\ tasks' = Blocked(cycle.task, "auth")
  BY DEF PreflightFails, Finish, AtRow, AllElse, github
<1>2. cycle.task \in Ids /\ tasks[cycle.task].status \in Runnable
  BY <1>1, AtARow DEF PreflightFails, Works
<1>3. /\ ~Obsoleted(tasks[cycle.task]) /\ "auth" \in Errors \ Told
      /\ tasks[cycle.task].status # "RECOVERY_PENDING"
  BY <1>2 DEF Obsoleted, Runnable, Errors, Told
<1>4. Revises(cycle.task)
  BY <1>1, <1>2, <1>3, BlockedRow DEF Revises
<1>. QED BY <1>1, <1>3, <1>4, RowEnds

LEMMA StartCodexKeeps ==
  ASSUME TeamInv, StartCodex
  PROVE TeamInv'
<1>. DEFINE t == cycle.task
<1>1. /\ cycle.pc \in AtRow \ {"park"} /\ cycle' = At("building", t) /\ AllElse
      /\ tasks' = Running(t) /\ cycle.pc = "codex"
  BY DEF StartCodex, AtRow, AllElse, github
<1>2. t \in Ids /\ tasks[t].status \in Runnable /\ Coded(tasks[t])
  BY <1>1, AtARow DEF Works
<1>3. PICK s \in Row : /\ Running(t) = [tasks EXCEPT ![t] = s] /\ Same(tasks[t], s)
                       /\ RowOK(s, Len(prs), pushed, verdicts) /\ s.status = "RUNNING"
  BY <1>2, StartedRow
<1>4. tasks[t].status # "RECOVERY_PENDING" /\ Revises(t)
  BY <1>1, <1>2, <1>3 DEF Runnable, Revises
<1>5. Len(tasks') = Len(tasks) /\ tasks'[t] = s
  BY <1>1, <1>2, <1>3, Patched DEF TeamInv, Shape
<1>6. Works(tasks[cycle.task])'
  <2>1. /\ cycle'.pc = "building" /\ cycle'.task = t
        /\ tasks'[cycle'.task].status = "RUNNING" /\ Coded(tasks'[cycle'.task])
    BY <1>1, <1>2, <1>3, <1>5 DEF At, Idle, Same, Coded
  <2>. QED BY <2>1 DEF Works, Coded
<1>7. CycleShape' /\ Cycling'
  BY <1>1, <1>2, <1>5, <1>6, RowMoves DEF AtRow, Mending
<1>. QED BY <1>1, <1>4, <1>7, RowEnds

LEMMA StopKeeps ==
  ASSUME TeamInv, cycle.pc \in {"building", "pushed", "created", "reviewing", "researching"},
         Finish(RetryOrBlock(cycle.task)) \/ Finish(RateLimited(cycle.task)), AllElse
  PROVE TeamInv'
<1>1. cycle.pc \in AtRow \ {"park"} /\ cycle' = Idle
  BY DEF AtRow, Finish
<1>2. cycle.task \in Ids /\ tasks[cycle.task].status = "RUNNING"
  BY <1>1, AtARow DEF Works
<1>3. Revises(cycle.task)
  BY <1>2, StoppedRow DEF Revises, Finish
<1>. QED BY <1>1, <1>2, <1>3, RowEnds

LEMMA CodexStopsKeeps ==
  ASSUME TeamInv, CodexStops
  PROVE TeamInv'
BY StopKeeps DEF CodexStops, AllElse, github

LEMMA ReviewStopsKeeps ==
  ASSUME TeamInv, ReviewStops
  PROVE TeamInv'
BY StopKeeps DEF ReviewStops, AllElse, github

LEMMA PostprocessKeeps ==
  ASSUME TeamInv, PostprocessFails
  PROVE TeamInv'
<1>. DEFINE t == cycle.task
<1>1. /\ cycle.pc \in AtRow \ {"park"} /\ cycle' = Idle /\ cycle.pc = "building"
      /\ prs' = prs /\ pushed' = pushed /\ verdicts' = verdicts /\ kills' = kills
  BY DEF PostprocessFails, AtRow, Finish, github
<1>2. /\ t \in Ids /\ tasks[t].status = "RUNNING" /\ tasks[t] \in Row /\ Settled
      /\ tasks \in Seq(Row)
  BY <1>1, AtARow DEF Works, TeamInv, Shape
<1>3. /\ ~Obsoleted(tasks[t]) /\ "protected" \in Errors \ Told
      /\ tasks[t].status # "RECOVERY_PENDING"
  BY <1>2 DEF Obsoleted, Errors, Told
<1>4. CASE Finish(RetryOrBlock(t)) /\ rem' = rem
  BY <1>1, <1>4, StopKeeps DEF AllElse
<1>5. CASE Finish(Blocked(t, "protected")) /\ rem' = rem
  <2>1. Revises(t) /\ AllElse
    BY <1>1, <1>2, <1>3, <1>5, BlockedRow DEF Revises, Finish, AllElse
  <2>. QED BY <1>1, <1>3, <2>1, RowEnds
<1>6. CASE /\ tasks' = [tasks EXCEPT ![t].status = "STALE", ![t].error = "no change",
                                     ![t].class = "INTERNAL"]
           /\ rem' = [f \in DOMAIN rem |->
                        IF f.class = "CODE_CHANGE" /\ f.parent = tasks[t].parent
                        THEN "TERMINAL" ELSE rem[f]]
  <2>. DEFINE s == [tasks[t] EXCEPT !.status = "STALE", !.error = "no change",
                                    !.class = "INTERNAL"]
  <2>1. s \in Row
    <3>1. "STALE" \in Status /\ "no change" \in Errors /\ "INTERNAL" \in Classes
      BY DEF Status, Errors, Classes
    <3>. QED BY <1>2, <3>1 DEF Row
  <2>2. /\ s.status = "STALE" /\ s.error = "no change" /\ s.class = "INTERNAL"
        /\ s.attempt = tasks[t].attempt /\ Same(tasks[t], s)
    BY <1>2 DEF Row, Same
  <2>3. tasks' = [tasks EXCEPT ![t] = s]
    BY <1>2, <1>6
  <2>. HIDE DEF s
  <2>4. RowOK(s, Len(prs), pushed, verdicts)
    BY <1>2, <1>3, <2>1, <2>2, RestingRow DEF Told
  <2>5. RemediationShape'
    BY <1>6 DEF TeamInv, RemediationShape
  <2>. QED BY <1>1, <1>2, <1>3, <2>1, <2>2, <2>3, <2>4, <2>5, Finishes
<1>. QED BY <1>4, <1>5, <1>6 DEF PostprocessFails, Finish

LEMMA ResearchKeeps ==
  ASSUME TeamInv, Research
  PROVE TeamInv'
<1>. DEFINE t == cycle.task
<1>1. /\ cycle.pc \in AtRow \ {"park"} /\ cycle' = At("researching", t) /\ AllElse
      /\ tasks' = Running(t) /\ cycle.pc = "research"
  BY DEF Research, AtRow, AllElse, github
<1>2. t \in Ids /\ tasks[t].status \in Runnable /\ tasks[t].type = "RESEARCH"
  BY <1>1, AtARow DEF Works
<1>3. PICK s \in Row : /\ Running(t) = [tasks EXCEPT ![t] = s] /\ Same(tasks[t], s)
                       /\ RowOK(s, Len(prs), pushed, verdicts) /\ s.status = "RUNNING"
  BY <1>2, StartedRow
<1>4. tasks[t].status # "RECOVERY_PENDING" /\ Revises(t)
  BY <1>1, <1>2, <1>3 DEF Runnable, Revises
<1>5. Len(tasks') = Len(tasks) /\ tasks'[t] = s
  BY <1>1, <1>2, <1>3, Patched DEF TeamInv, Shape
<1>6. Works(tasks[cycle.task])'
  <2>1. /\ cycle'.pc = "researching" /\ cycle'.task = t
        /\ tasks'[cycle'.task].status = "RUNNING" /\ tasks'[cycle'.task].type = "RESEARCH"
    BY <1>1, <1>2, <1>3, <1>5 DEF At, Idle, Same
  <2>. QED BY <2>1 DEF Works
<1>7. CycleShape' /\ Cycling'
  BY <1>1, <1>2, <1>5, <1>6, RowMoves DEF AtRow, Mending
<1>. QED BY <1>1, <1>4, <1>7, RowEnds

(* A row that comes to its rest: DONE, STALE or waiting for its checks.    *)
LEMMA Rested ==
  ASSUME TeamInv, NEW t \in Ids, ~Obsoleted(tasks[t]),
         NEW status \in {"STALE", "DONE", "WAITING_CI"}, NEW error \in Errors,
         status = "WAITING_CI" \/ error \in Told => Decided(tasks[t]),
         tasks' = [tasks EXCEPT ![t].status = status, ![t].error = error]
  PROVE /\ Revises(t) /\ Len(tasks') = Len(tasks)
        /\ Same(tasks[t], tasks'[t]) /\ tasks'[t].status = status /\ tasks'[t].error = error
<1>. DEFINE s == [tasks[t] EXCEPT !.status = status, !.error = error]
<1>1. tasks[t] \in Row /\ tasks \in Seq(Row) /\ status \in Status
  BY ARow DEF Status, Active
<1>2. s \in Row
  BY <1>1 DEF Row
<1>3. /\ s.status = status /\ s.error = error /\ s.class = tasks[t].class
      /\ s.attempt = tasks[t].attempt /\ Same(tasks[t], s)
  BY <1>1 DEF Row, Same
<1>4. tasks' = [tasks EXCEPT ![t] = s]
  BY <1>1
<1>. HIDE DEF s
<1>5. RowOK(s, Len(prs), pushed, verdicts)
  BY <1>2, <1>3, RestingRow
<1>6. Len(tasks') = Len(tasks) /\ tasks'[t] = s
  BY <1>1, <1>2, <1>4, Patched
<1>. QED BY <1>2, <1>3, <1>4, <1>5, <1>6 DEF Revises

LEMMA Moves ==
  ASSUME TeamInv, NEW pc \in AtRow \ {"park"}, NEW todo \in Seq(BlockerClass), NEW sha \in Nat,
         Len(tasks') = Len(tasks), cycle.task \in Ids,
         cycle' = [pc |-> pc, task |-> cycle.task, todo |-> todo, left |-> {}, back |-> "idle",
                   sha |-> sha],
         Works(tasks[cycle.task])'
  PROVE CycleShape' /\ Cycling'
<1>1. cycle.task \in Nat /\ Ids' = Ids
  BY DEF Ids
<1>2. CycleShape'
  BY <1>1 DEF CycleShape
<1>3. Cycling'
  <2>1. pc # "park" /\ cycle.task \in 0 .. Len(tasks)
    BY DEF Ids
  <2>. QED BY <1>1, <2>1 DEF Cycling, Mending
<1>. QED BY <1>2, <1>3

LEMMA Lists ==
  ASSUME NEW list \in ReviewLists \cup CheckLists
  PROVE list \in Seq(BlockerClass)
<1>1. PICK n \in 1 .. 2 : list \in [1 .. n -> BlockerClass]
  BY ListsAssumption
<1>. QED BY <1>1

LEMMA ResearchEndsKeeps ==
  ASSUME TeamInv, ResearchEnds
  PROVE TeamInv'
<1>. DEFINE t == cycle.task
<1>1. cycle.pc \in AtRow \ {"park"} /\ AllElse /\ cycle.pc = "researching"
  BY DEF ResearchEnds, AtRow, AllElse, github
<1>2. /\ t \in Ids /\ tasks[t].status = "RUNNING" /\ tasks[t].type = "RESEARCH"
      /\ tasks \in Seq(Row)
  BY <1>1, AtARow DEF Works, TeamInv, Shape
<1>3. CASE Finish(RetryOrBlock(t)) \/ Finish(RateLimited(t))
  BY <1>1, <1>3, StopKeeps
<1>4. CASE /\ tasks' = [tasks EXCEPT ![t].status = "DONE", ![t].error = "none"]
           /\ cycle' = At("researched", t)
  <2>1. "none" \in Errors \ Told /\ ~Obsoleted(tasks[t])
    BY <1>2 DEF Errors, Told, Obsoleted
  <2>2. /\ Revises(t) /\ Len(tasks') = Len(tasks)
        /\ Same(tasks[t], tasks'[t]) /\ tasks'[t].status = "DONE"
    BY <1>2, <1>4, <2>1, Rested
  <2>3. Works(tasks[cycle.task])'
    <3>1. /\ cycle'.pc = "researched" /\ cycle'.task = t
          /\ tasks'[cycle'.task].status = "DONE" /\ tasks'[cycle'.task].type = "RESEARCH"
      BY <1>2, <1>4, <2>2 DEF At, Idle, Same
    <3>. QED BY <3>1 DEF Works
  <2>4. CycleShape' /\ Cycling'
    BY <1>2, <1>4, <2>2, <2>3, RowMoves DEF AtRow, Mending
  <2>. QED BY <1>1, <1>2, <2>2, <2>4, RowEnds
<1>. QED BY <1>3, <1>4 DEF ResearchEnds

LEMMA ProbeKeeps ==
  ASSUME TeamInv, Probe
  PROVE TeamInv'
<1>. DEFINE t == cycle.task
            r == tasks[t]
            attempt == r.attempt + 1
            class == FailureClass(r, "exhausted")
            a == [r EXCEPT !.status = "PENDING", !.error = "none"]
            b == [r EXCEPT !.status = "RETRY", !.error = "failed", !.attempt = attempt]
            c == [r EXCEPT !.status = IF class = "OWNER_AUTH_REQUIRED" THEN "BLOCKED" ELSE "STALE",
                           !.error = "exhausted", !.class = class, !.attempt = attempt]
<1>1. cycle.pc \in AtRow \ {"park"} /\ AllElse /\ cycle.pc = "probe" /\ cycle' = Idle
  BY DEF Probe, AtRow, AllElse, github, Finish
<1>2. /\ t \in Ids /\ r.status = "WAITING_RATE_LIMIT" /\ r \in Row
      /\ RowOK(r, Len(prs), pushed, verdicts) /\ tasks \in Seq(Row)
      /\ r.attempt \in Nat /\ MaxAttempts \in Nat \ {0}
  BY <1>1, AtARow, ARow, TaskBoundsAssumption DEF Works
<1>3. /\ ~Obsoleted(r) /\ r.status \in Runnable /\ r.status # "RECOVERY_PENDING"
      /\ {"PENDING", "RETRY"} \subseteq Runnable
      /\ {"none", "failed", "exhausted"} \subseteq Errors \ Told
      /\ {"PENDING", "RETRY", "BLOCKED", "STALE"} \subseteq Status
      /\ {"BLOCKED", "STALE"} \cap (Runnable \cup {"RUNNING"}) = {}
  BY <1>2 DEF Obsoleted, Runnable, Errors, Told, Status, Active
<1>4. /\ class \in Classes /\ (r.class # "none" => class = r.class)
  BY <1>2, <1>3, ClassFacts
<1>5. a \in Row /\ b \in Row /\ c \in Row
  <2>1. attempt \in Nat
    BY <1>2
  <2>. QED BY <1>2, <1>3, <1>4, <2>1 DEF Row
<1>6. /\ a.status = "PENDING" /\ a.error = "none" /\ a.attempt = r.attempt /\ a.class = r.class
      /\ b.status = "RETRY" /\ b.error = "failed" /\ b.attempt = attempt /\ b.class = r.class
      /\ c.status \in {"BLOCKED", "STALE"} /\ c.error = "exhausted" /\ c.attempt = attempt
      /\ c.class = class
      /\ Same(r, a) /\ Same(r, b) /\ Same(r, c)
  BY <1>2 DEF Row, Same
<1>7. /\ [tasks EXCEPT ![t].status = "PENDING", ![t].error = "none"] = [tasks EXCEPT ![t] = a]
      /\ [tasks EXCEPT ![t].status = "RETRY", ![t].error = "failed",
                       ![t].attempt = attempt] = [tasks EXCEPT ![t] = b]
      /\ [Blocked(t, "exhausted") EXCEPT ![t].attempt = attempt] = [tasks EXCEPT ![t] = c]
  BY <1>2 DEF Blocked
<1>8. \/ tasks' = tasks
      \/ tasks' = [tasks EXCEPT ![t] = a]
      \/ attempt >= MaxAttempts /\ tasks' = [tasks EXCEPT ![t] = c]
      \/ ~(attempt >= MaxAttempts) /\ tasks' = [tasks EXCEPT ![t] = b]
  BY <1>7 DEF Probe, Finish
<1>. HIDE DEF a, b, c, class
<1>9. RowOK(a, Len(prs), pushed, verdicts)
  BY <1>2, <1>3, <1>5, <1>6, StaysDue
<1>10. ~(attempt >= MaxAttempts) => RowOK(b, Len(prs), pushed, verdicts)
  BY <1>2, <1>3, <1>5, <1>6, StaysDue
<1>11. RowOK(c, Len(prs), pushed, verdicts)
  <2>1. c.class = r.class \/ r.class = "none"
    BY <1>4, <1>6
  <2>2. /\ c.status \notin Runnable \cup {"RUNNING"} /\ c.status # "WAITING_CI"
        /\ c.error \notin Told
    BY <1>3, <1>6
  <2>. QED BY <1>2, <1>3, <1>5, <1>6, <2>1, <2>2, Halts
<1>12. Revises(t) \/ tasks' = tasks
  BY <1>5, <1>6, <1>8, <1>9, <1>10, <1>11 DEF Revises
<1>. QED BY <1>1, <1>3, <1>12, RowEnds

LEMMA HeadOf ==
  ASSUME TeamInv, NEW t \in Ids, tasks[t].type = "REVIEW"
  PROVE tasks[t].pr \in DOMAIN prs /\ prs[tasks[t].pr].head \in 1 .. pushed
<1>1. RowOK(tasks[t], Len(prs), pushed, verdicts) /\ prs \in Seq(Pull) /\ tasks[t].pr \in Nat
  BY ARow DEF TeamInv, Shape
<1>2. tasks[t].pr \in 1 .. Len(prs)
  BY <1>1 DEF RowOK
<1>3. tasks[t].pr \in DOMAIN prs
  BY <1>1, <1>2
<1>. QED BY <1>3 DEF TeamInv, Pulls

LEMMA SupersededKeeps ==
  ASSUME TeamInv, cycle.pc \in AtRow \ {"park"}, NEW sha \in 1 .. pushed, NEW error \in Errors \ Told,
         tasks[cycle.task].type = "REVIEW", ~Obsoleted(tasks[cycle.task]),
         tasks[cycle.task].status # "RECOVERY_PENDING", AllElse,
         tasks' = Superseded(cycle.task, error),
         cycle' = Idle \/ cycle' = [At("replace", cycle.task) EXCEPT !.sha = sha]
  PROVE TeamInv'
<1>. DEFINE t == cycle.task
<1>1. t \in Ids /\ pushed' = pushed /\ sha \in Nat
  BY AtARow DEF AllElse, TeamInv, Shape
<1>2. tasks' = [tasks EXCEPT ![t].status = "STALE", ![t].error = error]
  BY DEF Superseded
<1>3. /\ Revises(t) /\ Len(tasks') = Len(tasks)
      /\ Same(tasks[t], tasks'[t]) /\ tasks'[t].status = "STALE"
  BY <1>1, <1>2, Rested
<1>4. CASE cycle' = [At("replace", t) EXCEPT !.sha = sha]
  <2>1. cycle' = [pc |-> "replace", task |-> t, todo |-> <<>>, left |-> {}, back |-> "idle",
                  sha |-> sha]
    BY <1>4 DEF At, Idle
  <2>2. Works(tasks[cycle.task])'
    <3>1. /\ cycle'.pc = "replace" /\ cycle'.task = t /\ cycle'.sha \in 1 .. pushed'
          /\ tasks'[cycle'.task].status = "STALE" /\ tasks'[cycle'.task].type = "REVIEW"
      BY <1>1, <1>3, <2>1 DEF Same
    <3>. QED BY <3>1 DEF Works
  <2>3. CycleShape' /\ Cycling'
    <3>1. "replace" \in AtRow \ {"park"} /\ <<>> \in Seq(BlockerClass)
      BY DEF AtRow
    <3>. QED BY <1>1, <1>3, <2>1, <2>2, <3>1, Moves
  <2>. QED BY <1>3, <2>3, RowEnds
<1>5. CASE cycle' = Idle
  BY <1>3, <1>5, RowEnds
<1>. QED BY <1>4, <1>5

LEMMA StartReviewKeeps ==
  ASSUME TeamInv, StartReview
  PROVE TeamInv'
<1>. DEFINE t == cycle.task
            pr == prs[tasks[t].pr]
<1>1. /\ cycle.pc \in AtRow \ {"park"} /\ AllElse /\ cycle.pc = "review"
      /\ \/ tasks' = Superseded(t, "PR closed") /\ cycle' = Idle
         \/ tasks' = Superseded(t, "PR moved") /\ cycle' = Replacing(t, pr.head)
         \/ tasks' = Running(t) /\ cycle' = At("reviewing", t)
  BY DEF StartReview, AtRow, AllElse, github, Finish
<1>2. /\ t \in Ids /\ tasks[t].status \in Runnable /\ tasks[t].type = "REVIEW"
  BY <1>1, AtARow DEF Works
<1>3. /\ pr.head \in 1 .. pushed /\ ~Obsoleted(tasks[t])
      /\ tasks[t].status # "RECOVERY_PENDING"
      /\ {"PR closed", "PR moved"} \subseteq Errors \ Told
  BY <1>2, HeadOf DEF Obsoleted, Runnable, Errors, Told
<1>4. CASE tasks' = Superseded(t, "PR closed") /\ cycle' = Idle
  BY <1>1, <1>2, <1>3, <1>4, SupersededKeeps
<1>5. CASE tasks' = Superseded(t, "PR moved") /\ cycle' = Replacing(t, pr.head)
  BY <1>1, <1>2, <1>3, <1>5, SupersededKeeps DEF Replacing
<1>6. CASE tasks' = Running(t) /\ cycle' = At("reviewing", t)
  <2>1. PICK s \in Row : /\ Running(t) = [tasks EXCEPT ![t] = s] /\ Same(tasks[t], s)
                         /\ RowOK(s, Len(prs), pushed, verdicts) /\ s.status = "RUNNING"
    BY <1>2, StartedRow
  <2>2. Revises(t)
    BY <1>6, <2>1 DEF Revises
  <2>3. Len(tasks') = Len(tasks) /\ tasks'[t] = s
    BY <1>2, <1>6, <2>1, Patched DEF TeamInv, Shape
  <2>4. Works(tasks[cycle.task])'
    <3>1. /\ cycle'.pc = "reviewing" /\ cycle'.task = t
          /\ tasks'[cycle'.task].status = "RUNNING" /\ tasks'[cycle'.task].type = "REVIEW"
      BY <1>2, <1>6, <2>1, <2>3 DEF At, Idle, Same
    <3>. QED BY <3>1 DEF Works
  <2>5. CycleShape' /\ Cycling'
    BY <1>2, <1>6, <2>3, <2>4, RowMoves DEF AtRow, Mending
  <2>. QED BY <1>1, <1>3, <2>2, <2>5, RowEnds
<1>. QED BY <1>1, <1>4, <1>5, <1>6

(* A review that has its verdict, or whose checks have failed, goes on to  *)
(* what its blockers ask for.                                              *)
LEMMA ToldMoves ==
  ASSUME TeamInv, NEW list \in Seq(BlockerClass), Len(tasks') = Len(tasks), cycle.task \in Ids,
         cycle' = [At("dispatch", cycle.task) EXCEPT !.todo = list],
         tasks'[cycle.task].status \in {"DONE", "WAITING_CI"},
         tasks'[cycle.task].error # "obsolete", Decided(tasks[cycle.task])'
  PROVE CycleShape' /\ Cycling'
<1>1. cycle' = [pc |-> "dispatch", task |-> cycle.task, todo |-> list, left |-> {},
                back |-> "idle", sha |-> 0]
  BY DEF At, Idle
<1>2. Works(tasks[cycle.task])'
  <2>1. cycle'.pc = "dispatch" /\ cycle'.task = cycle.task
    BY <1>1
  <2>. QED BY <2>1 DEF Works
<1>. QED BY <1>1, <1>2, Moves DEF AtRow

LEMMA ReviewEndsKeeps ==
  ASSUME TeamInv, ReviewEnds
  PROVE TeamInv'
<1>. DEFINE t == cycle.task
            r == tasks[t]
            head == prs[r.pr].head
<1>1. /\ cycle.pc \in AtRow \ {"park"} /\ cycle.pc = "reviewing"
      /\ rem' = rem /\ prs' = prs /\ pushed' = pushed /\ kills' = kills
  BY DEF ReviewEnds, AtRow, github
<1>2. /\ t \in Ids /\ r.status = "RUNNING" /\ r.type = "REVIEW" /\ Settled
      /\ r \in Row /\ RowOK(r, Len(prs), pushed, verdicts) /\ tasks \in Seq(Row)
      /\ r.sha \in Nat /\ r.attempt <= r.attempt
  BY <1>1, AtARow, ARow DEF Works, TeamInv, Shape
<1>3. /\ head \in 1 .. pushed /\ ~Obsoleted(r) /\ r.status # "RECOVERY_PENDING"
      /\ "PR changed" \in Errors \ Told /\ RemediationShape'
  BY <1>1, <1>2, HeadOf DEF Obsoleted, Errors, Told, TeamInv, RemediationShape
<1>4. ASSUME tasks' = Superseded(t, "PR changed"), cycle' = Replacing(t, head), verdicts' = verdicts
      PROVE TeamInv'
  <2>1. AllElse
    BY <1>1, <1>4 DEF AllElse
  <2>. QED BY <1>1, <1>2, <1>3, <1>4, <2>1, SupersededKeeps DEF Replacing
<1>5. ASSUME NEW v \in {"PASS", "FAIL"}, verdicts' = verdicts \cup {<<r.sha, v>>},
             NEW status \in {"WAITING_CI", "DONE"}, NEW error \in {"none", "review FAIL"},
             NEW list \in Seq(BlockerClass),
             tasks' = [tasks EXCEPT ![t].status = status, ![t].error = error, ![t].blockers = list],
             cycle' = Idle \/ cycle' = [At("dispatch", t) EXCEPT !.todo = list]
      PROVE TeamInv'
  <2>. DEFINE s == [r EXCEPT !.status = status, !.error = error, !.blockers = list]
  <2>1. s \in Row
    <3>1. status \in Status /\ error \in Errors
      BY DEF Status, Active, Errors
    <3>. QED BY <1>2, <3>1 DEF Row
  <2>2. /\ s.status = status /\ s.error = error /\ s.class = r.class /\ s.attempt = r.attempt
        /\ Same(r, s)
    BY <1>2 DEF Row, Same
  <2>3. tasks' = [tasks EXCEPT ![t] = s]
    BY <1>2, <1>5
  <2>. HIDE DEF s
  <2>4. verdicts \subseteq verdicts' /\ Judged(r.sha, verdicts')
    BY <1>5 DEF Judged
  <2>5. RowOK(s, Len(prs), pushed, verdicts')
    <3>1. RowOK(r, Len(prs), pushed, verdicts')
      BY <1>2, <2>4 DEF RowOK, Judged
    <3>2. s.status \notin Runnable \cup {"RUNNING"}
      BY <2>2 DEF Runnable
    <3>3. s.attempt <= r.attempt
      BY <1>2, <2>2, Zenon
    <3>. QED BY <1>2, <1>3, <2>1, <2>2, <2>4, <3>1, <3>2, <3>3, Halts
  <2>6. Len(tasks') = Len(tasks) /\ tasks'[t] = s
    BY <1>2, <2>1, <2>3, Patched
  <2>7. CASE cycle' = [At("dispatch", t) EXCEPT !.todo = list]
    <3>1. cycle'.task = t
      BY <2>7 DEF At, Idle
    <3>2. Decided(tasks[cycle.task])'
      BY <1>2, <2>2, <2>4, <2>6, <3>1 DEF Decided, Same
    <3>3. CycleShape' /\ Cycling'
      BY <1>2, <2>2, <2>6, <2>7, <3>1, <3>2, ToldMoves
    <3>. QED BY <1>1, <1>2, <1>3, <2>1, <2>2, <2>3, <2>4, <2>5, <3>3, Finishes
  <2>8. CASE cycle' = Idle
    BY <1>1, <1>2, <1>3, <2>1, <2>2, <2>3, <2>4, <2>5, <2>8, Finishes
  <2>. QED BY <1>5, <2>7, <2>8
<1>6. CASE head # r.sha
  BY <1>4, <1>6 DEF ReviewEnds
<1>7. CASE head = r.sha
  <2>1. CASE /\ verdicts' = verdicts \cup {<<r.sha, "PASS">>}
             /\ Finish([tasks EXCEPT ![t].status = "WAITING_CI", ![t].error = "none",
                                     ![t].blockers = <<>>])
    <3>1. <<>> \in Seq(BlockerClass) /\ cycle' = Idle
      BY <2>1 DEF Finish
    <3>2. tasks' = [tasks EXCEPT ![t].status = "WAITING_CI", ![t].error = "none",
                                 ![t].blockers = <<>>]
      BY <2>1 DEF Finish
    <3>. QED BY <1>5, <2>1, <3>1, <3>2
  <2>2. ASSUME NEW list \in ReviewLists,
               verdicts' = verdicts \cup {<<r.sha, "FAIL">>},
               tasks' = [tasks EXCEPT ![t].status = "DONE", ![t].error = "review FAIL",
                                      ![t].blockers = list],
               cycle' = [At("dispatch", t) EXCEPT !.todo = list]
        PROVE TeamInv'
    <3>1. list \in Seq(BlockerClass)
      BY Lists
    <3>. QED BY <1>5, <2>2, <3>1
  <2>. QED BY <1>7, <2>1, <2>2 DEF ReviewEnds
<1>. QED BY <1>6, <1>7

LEMMA WaitForChecksKeeps ==
  ASSUME TeamInv, WaitForChecks
  PROVE TeamInv'
<1>. DEFINE t == cycle.task
            r == tasks[t]
            head == prs[r.pr].head
<1>1. /\ cycle.pc \in AtRow \ {"park"} /\ cycle.pc = "ci" /\ AllElse
  BY DEF WaitForChecks, AtRow, github, AllElse
<1>2. /\ t \in Ids /\ r.status = "WAITING_CI" /\ Settled
      /\ r \in Row /\ RowOK(r, Len(prs), pushed, verdicts) /\ tasks \in Seq(Row)
      /\ r.sha \in Nat
  BY <1>1, AtARow, ARow DEF Works, TeamInv, Shape
<1>3. Decided(r) /\ r.type = "REVIEW" /\ verdicts' = verdicts
  BY <1>1, <1>2 DEF RowOK, Decided, AllElse
<1>4. /\ head \in 1 .. pushed /\ ~Obsoleted(r) /\ r.status # "RECOVERY_PENDING"
      /\ {"PR moved after PASS", "CI pending"} \subseteq Errors \ Told /\ "CI failure" \in Errors
  BY <1>2, <1>3, HeadOf DEF Obsoleted, Errors, Told
<1>5. CASE /\ tasks' = Superseded(t, "PR moved after PASS")
           /\ cycle' = [At("replace", t) EXCEPT !.sha = head]
  BY <1>1, <1>2, <1>3, <1>4, <1>5, SupersededKeeps
<1>6. CASE Finish([tasks EXCEPT ![t].error = "CI pending"])
  <2>1. [tasks EXCEPT ![t].error = "CI pending"] =
        [tasks EXCEPT ![t].status = "WAITING_CI", ![t].error = "CI pending"]
    BY <1>2 DEF Row
  <2>2. tasks' = [tasks EXCEPT ![t].status = "WAITING_CI", ![t].error = "CI pending"]
    BY <1>6, <2>1 DEF Finish
  <2>3. Revises(t)
    BY <1>2, <1>3, <1>4, <2>2, Rested
  <2>. QED BY <1>1, <1>4, <1>6, <2>3, RowEnds DEF Finish
<1>7. ASSUME NEW list \in CheckLists,
             tasks' = [tasks EXCEPT ![t].status = "DONE", ![t].error = "CI failure",
                                    ![t].blockers = list],
             cycle' = [At("dispatch", t) EXCEPT !.todo = list]
      PROVE TeamInv'
  <2>. DEFINE s == [r EXCEPT !.status = "DONE", !.error = "CI failure", !.blockers = list]
  <2>0. list \in Seq(BlockerClass)
    BY Lists
  <2>1. s \in Row
    <3>1. "DONE" \in Status
      BY DEF Status
    <3>. QED BY <1>2, <1>4, <2>0, <3>1 DEF Row
  <2>2. /\ s.status = "DONE" /\ s.error = "CI failure" /\ s.class = r.class
        /\ s.attempt = r.attempt /\ Same(r, s)
    BY <1>2 DEF Row, Same
  <2>3. tasks' = [tasks EXCEPT ![t] = s]
    BY <1>2, <1>7
  <2>. HIDE DEF s
  <2>4. RowOK(s, Len(prs), pushed, verdicts)
    BY <1>2, <1>3, <1>4, <2>1, <2>2, RestingRow
  <2>5. Len(tasks') = Len(tasks) /\ tasks'[t] = s
    BY <1>2, <2>1, <2>3, Patched
  <2>6. cycle'.task = t
    BY <1>7 DEF At, Idle
  <2>7. Decided(tasks[cycle.task])'
    BY <1>3, <2>2, <2>5, <2>6 DEF Decided, Same
  <2>8. CycleShape' /\ Cycling'
    BY <1>2, <1>7, <2>0, <2>2, <2>5, <2>6, <2>7, ToldMoves
  <2>9. Revises(t)
    BY <2>1, <2>2, <2>3, <2>4 DEF Revises
  <2>. QED BY <1>1, <1>4, <2>8, <2>9, RowEnds
<1>8. CASE cycle' = [At("merge", t) EXCEPT !.sha = r.sha] /\ tasks' = tasks
  <2>1. cycle' = [pc |-> "merge", task |-> t, todo |-> <<>>, left |-> {}, back |-> "idle",
                  sha |-> r.sha]
    BY <1>8 DEF At, Idle
  <2>2. Works(tasks[cycle.task])'
    <3>1. /\ cycle'.pc = "merge" /\ cycle'.task = t /\ cycle'.sha = tasks'[t].sha
          /\ tasks'[cycle'.task].status = "WAITING_CI"
      BY <1>2, <1>8, <2>1
    <3>. QED BY <3>1 DEF Works
  <2>3. CycleShape' /\ Cycling'
    <3>1. "merge" \in AtRow \ {"park"} /\ <<>> \in Seq(BlockerClass) /\ Len(tasks') = Len(tasks)
      BY <1>8 DEF AtRow
    <3>. QED BY <1>2, <2>1, <2>2, <3>1, Moves
  <2>. QED BY <1>1, <1>4, <1>8, <2>3, RowEnds
<1>9. CASE head # r.sha
  BY <1>5, <1>9 DEF WaitForChecks
<1>10. CASE head = r.sha
  BY <1>6, <1>7, <1>8, <1>10 DEF WaitForChecks
<1>. QED BY <1>9, <1>10

LEMMA MergeWithheldKeeps ==
  ASSUME TeamInv, MergeWithheld
  PROVE TeamInv'
<1>. DEFINE t == cycle.task
<1>1. /\ cycle.pc \in AtRow \ {"park"} /\ AllElse /\ cycle.pc = "merge" /\ cycle' = Idle
  BY DEF MergeWithheld, AtRow, AllElse, github, Finish
<1>2. /\ t \in Ids /\ tasks[t].status = "WAITING_CI"
  BY <1>1, AtARow DEF Works
<1>3. /\ ~Obsoleted(tasks[t]) /\ tasks[t].status # "RECOVERY_PENDING"
      /\ {"auth", "protected", "withheld"} \subseteq Errors \ Told
  BY <1>2 DEF Obsoleted, Errors, Told
<1>4. ASSUME NEW error \in {"auth", "protected"}, tasks' = Blocked(t, error)
      PROVE Revises(t)
  BY <1>2, <1>3, <1>4, BlockedRow DEF Revises
<1>5. ASSUME tasks' = [tasks EXCEPT ![t].status = "DONE", ![t].error = "withheld"]
      PROVE Revises(t)
  BY <1>2, <1>3, <1>5, Rested
<1>6. Revises(t)
  BY <1>4, <1>5 DEF MergeWithheld, Finish
<1>. QED BY <1>1, <1>3, <1>6, RowEnds

LEMMA RecordMergeKeeps ==
  ASSUME TeamInv, RecordMerge
  PROVE TeamInv'
<1>. DEFINE t == cycle.task
            r == tasks[t]
            s == [r EXCEPT !.status = "DONE", !.error = "none", !.merged = TRUE]
<1>1. /\ cycle.pc \in AtRow \ {"park"} /\ AllElse /\ cycle.pc = "merged" /\ cycle' = Idle
  BY DEF RecordMerge, AtRow, AllElse, github, Finish
<1>2. /\ t \in Ids /\ r.status = "WAITING_CI" /\ r \in Row /\ tasks \in Seq(Row)
  BY <1>1, AtARow DEF Works, TeamInv, Shape
<1>3. /\ ~Obsoleted(r) /\ r.status # "RECOVERY_PENDING"
      /\ "none" \in Errors \ Told /\ "DONE" \in Status
  BY <1>2 DEF Obsoleted, Errors, Told, Status
<1>4. s \in Row
  BY <1>2, <1>3 DEF Row
<1>5. /\ s.status = "DONE" /\ s.error = "none" /\ s.class = r.class
      /\ s.attempt = r.attempt /\ Same(r, s)
  BY <1>2 DEF Row, Same
<1>6. tasks' = [tasks EXCEPT ![t] = s]
  BY <1>2 DEF RecordMerge, Finish
<1>. HIDE DEF s
<1>7. RowOK(s, Len(prs), pushed, verdicts)
  BY <1>2, <1>3, <1>4, <1>5, RestingRow
<1>8. Revises(t)
  BY <1>4, <1>5, <1>6, <1>7 DEF Revises
<1>. QED BY <1>1, <1>3, <1>8, RowEnds

-----------------------------------------------------------------------------
(* The steps of GitHub, and of those who push to it.                       *)

LEMMA PullsMove ==
  ASSUME TeamInv, tasks' = tasks, rem' = rem, verdicts' = verdicts, kills' \in 0 .. MaxKills,
         prs' \in Seq(Pull), Len(prs) <= Len(prs'), pushed' \in Nat, pushed <= pushed', Pulls',
         CycleShape', Cycling',
         \/ cycle' = cycle
         \/ cycle'.pc = "idle"
         \/ Settled
  PROVE TeamInv'
<1>1. tasks' \in Seq(Row) /\ Len(tasks') = Len(tasks) /\ \A u \in Ids : tasks'[u] = tasks[u]
  BY DEF TeamInv, Shape
<1>2. /\ Ids' = Ids
      /\ Rows' /\ Signed' /\ OneChildPerHandoff' /\ RepairsBounded'
      /\ \A c \in Ids : Recovers(c)' <=> Recovers(c)
  BY <1>1, Revision
<1>3. Shape' /\ RemediationShape'
  BY DEF TeamInv, Shape, RemediationShape
<1>4. ParentsParked'
  <2>1. ASSUME NEW t, Recovering(t) PROVE Recovering(t)'
    BY <2>1 DEF Recovering, Settled
  <2>2. ASSUME NEW c \in Ids, Recovers(c)
        PROVE \/ tasks'[tasks'[c].parent].status = "RECOVERY_PENDING"
              \/ Recovering(tasks[c].parent)' /\ Assigning(tasks[tasks[c].parent], tasks[c])'
    <3>1. \/ tasks[tasks[c].parent].status = "RECOVERY_PENDING"
          \/ Recovering(tasks[c].parent) /\ Assigning(tasks[tasks[c].parent], tasks[c])
      BY <2>2 DEF TeamInv, ParentsParked
    <3>. QED BY <2>1, <3>1 DEF Assigning, Recovering
  <2>. QED BY <1>2, <2>2 DEF ParentsParked
<1>. QED BY <1>2, <1>3, <1>4 DEF TeamInv

LEMMA KillKeeps ==
  ASSUME TeamInv, Kill
  PROVE TeamInv'
<1>1. /\ tasks' = tasks /\ rem' = rem /\ prs' = prs /\ pushed' = pushed /\ verdicts' = verdicts
      /\ kills' = kills + 1 /\ kills < MaxKills /\ cycle' = Idle
  BY DEF Kill, ledger, github
<1>2. /\ kills' \in 0 .. MaxKills /\ prs' \in Seq(Pull) /\ Len(prs) <= Len(prs')
      /\ pushed' \in Nat /\ pushed <= pushed' /\ Len(tasks') \in Nat
  BY <1>1, TaskBoundsAssumption DEF TeamInv, Shape
<1>3. Pulls' /\ CycleShape' /\ Cycling' /\ cycle'.pc = "idle"
  BY <1>1, <1>2, PullsKept, IdleCycles DEF Idle
<1>. QED BY <1>1, <1>2, <1>3, PullsMove

LEMMA CycleStays ==
  ASSUME TeamInv, tasks' = tasks, cycle' = cycle, verdicts' = verdicts,
         pushed' \in Nat, pushed <= pushed', prs # <<>> => prs' # <<>>
  PROVE CycleShape' /\ Cycling'
<1>1. Ids' = Ids /\ pushed \in Nat /\ CycleShape /\ Cycling
  BY DEF Ids, TeamInv, Shape
<1>2. CycleShape'
  BY <1>1 DEF CycleShape
<1>3. \A t \in Ids : Works(tasks[t]) => Works(tasks[t])'
  BY <1>1 DEF Works, Decided
<1>4. \A t \in Ids : Candidate(tasks[t])' <=> Candidate(tasks[t])
  BY DEF Candidate, Decided
<1>5. Cycling'
  BY <1>1, <1>3, <1>4 DEF Cycling
<1>. QED BY <1>2, <1>5

(* One pull request that changes.                                          *)
LEMMA OnePull ==
  ASSUME TeamInv, NEW p \in DOMAIN prs, NEW q \in Pull, prs' = [prs EXCEPT ![p] = q],
         pushed' \in Nat, pushed <= pushed', verdicts' = verdicts, q.head \in 1 .. pushed',
         IF q.state = "merged" THEN Judged(q.at, verdicts) ELSE q.at = 0
  PROVE prs' \in Seq(Pull) /\ Len(prs') = Len(prs) /\ Pulls' /\ prs' # <<>>
<1>1. prs \in Seq(Pull) /\ pushed \in Nat
  BY DEF TeamInv, Shape
<1>2. /\ prs' \in Seq(Pull) /\ Len(prs') = Len(prs) /\ DOMAIN prs' = DOMAIN prs /\ prs'[p] = q
      /\ \A u \in DOMAIN prs : u # p => prs'[u] = prs[u]
  BY <1>1
<1>3. Pulls'
  <2>1. ASSUME NEW u \in DOMAIN prs
        PROVE /\ prs'[u].head \in 1 .. pushed'
              /\ IF prs'[u].state = "merged" THEN Judged(prs'[u].at, verdicts') ELSE prs'[u].at = 0
    <3>1. CASE u = p
      BY <1>2, <3>1
    <3>2. CASE u # p
      <4>1. /\ prs[u].head \in 1 .. pushed
            /\ IF prs[u].state = "merged" THEN Judged(prs[u].at, verdicts) ELSE prs[u].at = 0
        BY DEF TeamInv, Pulls
      <4>2. prs[u].head \in 1 .. pushed'
        BY <1>1, <4>1
      <4>. QED BY <1>2, <3>2, <4>1, <4>2
    <3>. QED BY <3>1, <3>2
  <2>. QED BY <1>2, <2>1 DEF Pulls
<1>. QED BY <1>1, <1>2, <1>3

LEMMA APull ==
  ASSUME TeamInv, NEW p \in DOMAIN prs
  PROVE /\ prs[p] \in Pull /\ prs[p].head \in 1 .. pushed /\ pushed \in Nat
        /\ IF prs[p].state = "merged" THEN Judged(prs[p].at, verdicts) ELSE prs[p].at = 0
<1>1. prs \in Seq(Pull) /\ pushed \in Nat
  BY DEF TeamInv, Shape
<1>2. prs[p] \in Pull
  BY <1>1
<1>. QED BY <1>1, <1>2 DEF TeamInv, Pulls

LEMMA OthersPushKeeps ==
  ASSUME TeamInv, OthersPush
  PROVE TeamInv'
<1>1. /\ tasks' = tasks /\ rem' = rem /\ verdicts' = verdicts /\ kills' = kills
      /\ cycle' = cycle /\ pushed' = pushed + 1
  BY DEF OthersPush, ledger
<1>2. PICK p \in DOMAIN prs : /\ prs[p].state = "open"
                              /\ prs' = [prs EXCEPT ![p].head = pushed + 1]
  BY DEF OthersPush
<1>. DEFINE q == [prs[p] EXCEPT !.head = pushed + 1]
<1>3. /\ prs[p] \in Pull /\ pushed \in Nat /\ prs[p].at = 0
      /\ kills \in 0 .. MaxKills /\ prs \in Seq(Pull)
  BY <1>2, APull DEF TeamInv, Shape
<1>4. pushed' \in Nat /\ pushed <= pushed' /\ pushed' \in 1 .. pushed'
  BY <1>1, <1>3
<1>5. q \in Pull
  BY <1>1, <1>3, <1>4 DEF Pull
<1>6. q.head = pushed' /\ q.state = "open" /\ q.at = 0 /\ prs' = [prs EXCEPT ![p] = q]
  BY <1>1, <1>2, <1>3 DEF Pull
<1>. HIDE DEF q
<1>7. prs' \in Seq(Pull) /\ Len(prs') = Len(prs) /\ Pulls' /\ prs' # <<>>
  BY <1>1, <1>4, <1>5, <1>6, OnePull
<1>8. CycleShape' /\ Cycling'
  BY <1>1, <1>4, <1>7, CycleStays
<1>9. Len(prs) <= Len(prs')
  BY <1>3, <1>7
<1>. QED BY <1>1, <1>3, <1>4, <1>7, <1>8, <1>9, PullsMove

LEMMA OthersCloseKeeps ==
  ASSUME TeamInv, OthersClose
  PROVE TeamInv'
<1>1. /\ tasks' = tasks /\ rem' = rem /\ verdicts' = verdicts /\ kills' = kills
      /\ cycle' = cycle /\ pushed' = pushed
  BY DEF OthersClose, ledger
<1>2. /\ kills \in 0 .. MaxKills /\ prs \in Seq(Pull) /\ pushed \in Nat /\ pushed <= pushed
  BY DEF TeamInv, Shape
<1>3. CASE prs' = prs
  <2>1. Len(prs) <= Len(prs') /\ Pulls' /\ CycleShape' /\ Cycling'
    BY <1>1, <1>2, <1>3, PullsKept, CycleStays
  <2>. QED BY <1>1, <1>2, <1>3, <2>1, PullsMove
<1>4. ASSUME NEW p \in DOMAIN prs, prs[p].state = "open",
             prs' = [prs EXCEPT ![p].state = "closed"]
      PROVE TeamInv'
  <2>. DEFINE q == [prs[p] EXCEPT !.state = "closed"]
  <2>1. prs[p] \in Pull /\ prs[p].at = 0 /\ prs[p].head \in 1 .. pushed
    BY <1>4, APull
  <2>2. q \in Pull
    BY <2>1 DEF Pull
  <2>3. q.head = prs[p].head /\ q.state = "closed" /\ q.at = 0 /\ prs' = [prs EXCEPT ![p] = q]
    BY <1>2, <1>4, <2>1 DEF Pull
  <2>. HIDE DEF q
  <2>4. prs' \in Seq(Pull) /\ Len(prs') = Len(prs) /\ Pulls' /\ prs' # <<>>
    BY <1>1, <1>2, <2>1, <2>2, <2>3, OnePull
  <2>5. CycleShape' /\ Cycling'
    BY <1>1, <1>2, <2>4, CycleStays
  <2>6. Len(prs) <= Len(prs')
    BY <1>2, <2>4
  <2>. QED BY <1>1, <1>2, <2>4, <2>5, <2>6, PullsMove
<1>. QED BY <1>3, <1>4 DEF OthersClose

LEMMA MovesOn ==
  ASSUME TeamInv, NEW pc \in AtRow \ {"park"}, NEW todo \in Seq(BlockerClass), NEW sha \in Nat,
         NEW back \in {"idle", "handoffs", "created"},
         back = "idle" \/ pc \notin Mending \cup {"replace"},
         Len(tasks') = Len(tasks), cycle.task \in Ids,
         cycle' = [pc |-> pc, task |-> cycle.task, todo |-> todo, left |-> {}, back |-> back,
                   sha |-> sha],
         Works(tasks[cycle.task])'
  PROVE CycleShape' /\ Cycling'
<1>1. cycle.task \in Nat /\ Ids' = Ids
  BY DEF Ids
<1>2. CycleShape'
  BY <1>1 DEF CycleShape
<1>3. Cycling'
  <2>1. pc # "park" /\ cycle.task \in 0 .. Len(tasks)
    BY DEF Ids
  <2>. QED BY <1>1, <2>1 DEF Cycling, Mending
<1>. QED BY <1>2, <1>3

LEMMA OnlyWorks ==
  ASSUME TeamInv, cycle.pc \in AtRow \ (Mending \cup {"park"})
  PROVE /\ cycle.left = {} /\ cycle.todo \in Seq(BlockerClass) /\ cycle.sha \in Nat
        /\ cycle.back \in {"idle", "handoffs", "created"}
        /\ cycle = [pc |-> cycle.pc, task |-> cycle.task, todo |-> cycle.todo, left |-> {},
                    back |-> cycle.back, sha |-> cycle.sha]
<1>1. CycleShape /\ cycle.left = {}
  BY DEF TeamInv, Cycling
<1>. QED BY <1>1 DEF CycleShape

LEMMA MergeKeeps ==
  ASSUME TeamInv, Merge
  PROVE TeamInv'
<1>. DEFINE t == cycle.task
            r == tasks[t]
            p == r.pr
<1>1. /\ cycle.pc \in AtRow \ {"park"} /\ cycle.pc = "merge"
      /\ rem' = rem /\ pushed' = pushed /\ verdicts' = verdicts /\ kills' = kills
  BY DEF Merge, AtRow
<1>2. /\ t \in Ids /\ r.status = "WAITING_CI" /\ r \in Row /\ tasks \in Seq(Row) /\ Settled
      /\ cycle.sha = r.sha /\ RowOK(r, Len(prs), pushed, verdicts)
      /\ kills \in 0 .. MaxKills /\ prs \in Seq(Pull) /\ pushed \in Nat /\ pushed <= pushed
  BY <1>1, AtARow DEF Works, TeamInv, Shape
<1>3. Decided(r) /\ r.type = "REVIEW" /\ Judged(r.sha, verdicts)
  BY <1>2 DEF RowOK, Decided
<1>4. /\ p \in DOMAIN prs /\ ~Obsoleted(r) /\ r.status # "RECOVERY_PENDING"
      /\ {"merge rejected", "merge no longer applicable"} \subseteq Errors \ Told
      /\ "INTERNAL" \in Classes /\ "STALE" \in Status
  BY <1>2, <1>3, HeadOf DEF Obsoleted, Errors, Told, Classes, Status
<1>5. CASE /\ MergeAccepted(p)
           /\ prs' = [prs EXCEPT ![p].state = "merged", ![p].at = @ + prs[p].head]
           /\ cycle' = [cycle EXCEPT !.pc = "merged"]
           /\ tasks' = tasks
  <2>. DEFINE q == [prs[p] EXCEPT !.state = "merged", !.at = prs[p].at + prs[p].head]
  <2>1. prs[p] \in Pull /\ prs[p].at = 0 /\ prs[p].head \in 1 .. pushed /\ prs[p].head = r.sha
    BY <1>2, <1>4, <1>5, APull DEF MergeAccepted
  <2>2. prs[p].at + prs[p].head = r.sha /\ r.sha \in Nat
    BY <2>1
  <2>3. q \in Pull
    BY <2>1, <2>2 DEF Pull
  <2>4. q.head = prs[p].head /\ q.state = "merged" /\ q.at = r.sha
    BY <2>1, <2>2 DEF Pull
  <2>5. prs' = [prs EXCEPT ![p] = q]
    BY <1>2, <1>4, <1>5
  <2>. HIDE DEF q
  <2>6. prs' \in Seq(Pull) /\ Len(prs') = Len(prs) /\ Pulls' /\ prs' # <<>>
    BY <1>1, <1>2, <1>3, <1>4, <2>1, <2>3, <2>4, <2>5, OnePull
  <2>7. CycleShape' /\ Cycling'
    <3>0. cycle.pc \in AtRow \ (Mending \cup {"park"})
      BY <1>1 DEF Mending
    <3>1. /\ cycle.todo \in Seq(BlockerClass) /\ cycle.sha \in Nat
          /\ cycle.back \in {"idle", "handoffs", "created"}
          /\ cycle' = [pc |-> "merged", task |-> t, todo |-> cycle.todo, left |-> {},
                       back |-> cycle.back, sha |-> cycle.sha]
      BY <1>5, <3>0, OnlyWorks
    <3>2. Works(tasks[cycle.task])'
      <4>1. /\ cycle'.pc = "merged" /\ cycle'.task = t /\ cycle'.sha = tasks'[t].sha
            /\ tasks'[t].status = "WAITING_CI"
        BY <1>2, <1>5, <3>1
      <4>. QED BY <4>1 DEF Works
    <3>3. Len(tasks') = Len(tasks) /\ "merged" \in AtRow \ {"park"}
          /\ "merged" \notin Mending \cup {"replace"}
      BY <1>5 DEF AtRow, Mending
    <3>. QED BY <1>2, <3>1, <3>2, <3>3, MovesOn
  <2>8. Len(prs) <= Len(prs')
    BY <1>2, <2>6
  <2>. QED BY <1>1, <1>2, <1>5, <2>6, <2>7, <2>8, PullsMove
<1>6. ASSUME prs' = prs, Revises(t) \/ tasks' = tasks, cycle' = Idle
      PROVE TeamInv'
  BY <1>1, <1>4, <1>6, RowEnds DEF AllElse
<1>7. CASE Finish([tasks EXCEPT ![t].error = "merge rejected"]) /\ prs' = prs
  <2>1. [tasks EXCEPT ![t].error = "merge rejected"] =
        [tasks EXCEPT ![t].status = "WAITING_CI", ![t].error = "merge rejected"]
    BY <1>2 DEF Row
  <2>2. tasks' = [tasks EXCEPT ![t].status = "WAITING_CI", ![t].error = "merge rejected"]
    BY <1>7, <2>1 DEF Finish
  <2>3. Revises(t)
    BY <1>2, <1>3, <1>4, <2>2, Rested
  <2>. QED BY <1>6, <1>7, <2>3 DEF Finish
<1>8. CASE Finish(tasks) /\ prs' = prs
  BY <1>6, <1>8 DEF Finish
<1>9. CASE /\ Finish([tasks EXCEPT ![t].status = "STALE", ![t].class = "INTERNAL",
                                   ![t].error = "merge no longer applicable"])
           /\ prs' = prs
  <2>. DEFINE s == [r EXCEPT !.status = "STALE", !.class = "INTERNAL",
                             !.error = "merge no longer applicable"]
  <2>1. s \in Row
    BY <1>2, <1>4 DEF Row
  <2>2. /\ s.status = "STALE" /\ s.error = "merge no longer applicable" /\ s.class = "INTERNAL"
        /\ s.attempt = r.attempt /\ Same(r, s)
    BY <1>2 DEF Row, Same
  <2>3. tasks' = [tasks EXCEPT ![t] = s]
    BY <1>2, <1>9 DEF Finish
  <2>. HIDE DEF s
  <2>4. RowOK(s, Len(prs), pushed, verdicts)
    BY <1>2, <1>4, <2>1, <2>2, RestingRow
  <2>5. Revises(t)
    BY <2>1, <2>2, <2>3, <2>4 DEF Revises
  <2>. QED BY <1>6, <1>9, <2>5 DEF Finish
<1>. QED BY <1>5, <1>7, <1>8, <1>9 DEF Merge

LEMMA CodexPushesKeeps ==
  ASSUME TeamInv, CodexPushes
  PROVE TeamInv'
<1>. DEFINE t == cycle.task
            p == tasks[t].pr
<1>1. /\ cycle.pc \in AtRow \ {"park"} /\ cycle.pc = "building"
      /\ rem' = rem /\ verdicts' = verdicts /\ kills' = kills /\ tasks' = tasks
      /\ pushed' = pushed + 1 /\ cycle' = [At("pushed", t) EXCEPT !.sha = pushed + 1]
  BY DEF CodexPushes, AtRow, ledger
<1>2. /\ t \in Ids /\ tasks[t].status = "RUNNING" /\ Coded(tasks[t]) /\ Settled
      /\ RowOK(tasks[t], Len(prs), pushed, verdicts) /\ p \in Nat
      /\ kills \in 0 .. MaxKills /\ prs \in Seq(Pull) /\ pushed \in Nat
  BY <1>1, AtARow, ARow DEF Works, TeamInv, Shape
<1>3. pushed' \in Nat /\ pushed <= pushed' /\ pushed' \in 1 .. pushed'
  BY <1>1, <1>2
<1>4. cycle' = [pc |-> "pushed", task |-> t, todo |-> <<>>, left |-> {}, back |-> "idle",
                sha |-> pushed']
  BY <1>1 DEF At, Idle
<1>5. Works(tasks[cycle.task])'
  <2>1. /\ cycle'.pc = "pushed" /\ cycle'.task = t /\ cycle'.sha \in 1 .. pushed'
        /\ tasks'[t].status = "RUNNING" /\ tasks'[t].type \in {"BUILD", "REPAIR"}
    BY <1>1, <1>2, <1>3, <1>4 DEF Coded
  <2>. QED BY <2>1 DEF Works, Coded
<1>6. CycleShape' /\ Cycling'
  <2>1. "pushed" \in AtRow \ {"park"} /\ <<>> \in Seq(BlockerClass) /\ Len(tasks') = Len(tasks)
    BY <1>1 DEF AtRow
  <2>. QED BY <1>2, <1>3, <1>4, <1>5, <2>1, Moves
<1>7. CASE p # 0 /\ prs[p].state = "open"
  <2>. DEFINE q == [prs[p] EXCEPT !.head = pushed + 1]
  <2>1. p \in DOMAIN prs
    <3>1. p \in 1 .. Len(prs)
      BY <1>2, <1>7 DEF RowOK
    <3>. QED BY <1>2, <3>1
  <2>2. prs[p] \in Pull /\ prs[p].at = 0
    BY <1>7, <2>1, APull
  <2>3. q \in Pull
    BY <1>1, <1>3, <2>2 DEF Pull
  <2>4. prs' = [prs EXCEPT ![p].head = pushed + 1]
    BY <1>7 DEF CodexPushes
  <2>5. q.head = pushed' /\ q.state = "open" /\ q.at = 0 /\ prs' = [prs EXCEPT ![p] = q]
    BY <1>1, <1>2, <1>7, <2>2, <2>4 DEF Pull
  <2>. HIDE DEF q
  <2>6. prs' \in Seq(Pull) /\ Len(prs') = Len(prs) /\ Pulls'
    BY <1>1, <1>3, <2>1, <2>3, <2>5, OnePull
  <2>7. Len(prs) <= Len(prs')
    BY <1>2, <2>6
  <2>. QED BY <1>1, <1>2, <1>3, <1>6, <2>6, <2>7, PullsMove
<1>8. CASE ~(p # 0 /\ prs[p].state = "open")
  <2>1. prs' = prs
    BY <1>8 DEF CodexPushes
  <2>2. Pulls'
    <3>1. \A u \in DOMAIN prs : prs[u].head \in 1 .. pushed'
      BY <1>2, <1>3, APull
    <3>. QED BY <1>1, <2>1, <3>1 DEF TeamInv, Pulls
  <2>3. Len(prs) <= Len(prs')
    BY <1>2, <2>1
  <2>. QED BY <1>1, <1>2, <1>3, <1>6, <2>1, <2>2, <2>3, PullsMove
<1>. QED BY <1>7, <1>8

LEMMA CreatePrKeeps ==
  ASSUME TeamInv, CreatePr
  PROVE TeamInv'
<1>. DEFINE t == cycle.task
            q == [head |-> cycle.sha, state |-> "open", at |-> 0, by |-> t]
<1>1. /\ cycle.pc \in AtRow \ {"park"} /\ cycle.pc = "pushed"
      /\ rem' = rem /\ verdicts' = verdicts /\ kills' = kills /\ pushed' = pushed
  BY DEF CreatePr, AtRow
<1>2. /\ t \in Ids /\ tasks[t].status = "RUNNING" /\ Coded(tasks[t]) /\ Settled
      /\ cycle.sha \in 1 .. pushed /\ t \in Nat
      /\ kills \in 0 .. MaxKills /\ prs \in Seq(Pull) /\ pushed \in Nat /\ pushed <= pushed
  BY <1>1, AtARow DEF Works, TeamInv, Shape, Ids
<1>3. CASE Finish(RetryOrBlock(t)) /\ prs' = prs
  BY <1>1, <1>3, StopKeeps DEF AllElse
<1>4. CASE /\ prs' = Append(prs, q)
           /\ cycle' = [cycle EXCEPT !.pc = "created", !.back = "created"]
           /\ tasks' = tasks
  <2>1. q \in Pull
    BY <1>2 DEF Pull
  <2>2. /\ prs' \in Seq(Pull) /\ Len(prs') = Len(prs) + 1
        /\ DOMAIN prs' = DOMAIN prs \cup {Len(prs) + 1}
        /\ prs'[Len(prs) + 1] = q /\ \A u \in DOMAIN prs : prs'[u] = prs[u]
    <3>. HIDE DEF q
    <3>. QED BY <1>2, <1>4, <2>1
  <2>3. Pulls'
    <3>1. \A u \in DOMAIN prs :
            /\ prs[u].head \in 1 .. pushed
            /\ IF prs[u].state = "merged" THEN Judged(prs[u].at, verdicts) ELSE prs[u].at = 0
      BY DEF TeamInv, Pulls
    <3>2. q.head \in 1 .. pushed /\ q.state = "open" /\ q.at = 0
      BY <1>2
    <3>. HIDE DEF q
    <3>. QED BY <1>1, <2>2, <3>1, <3>2 DEF Pulls
  <2>4. Len(prs) <= Len(prs') /\ prs' # <<>>
    <3>. HIDE DEF q
    <3>. QED BY <1>2, <2>2
  <2>5. CycleShape' /\ Cycling'
    <3>0. cycle.pc \in AtRow \ (Mending \cup {"park"})
      BY <1>1 DEF Mending
    <3>1. /\ cycle.todo \in Seq(BlockerClass) /\ cycle.sha \in Nat
          /\ cycle' = [pc |-> "created", task |-> t, todo |-> cycle.todo, left |-> {},
                       back |-> "created", sha |-> cycle.sha]
      BY <1>4, <3>0, OnlyWorks
    <3>2. Works(tasks[cycle.task])'
      <4>1. /\ cycle'.pc = "created" /\ cycle'.task = t /\ cycle'.sha \in 1 .. pushed'
            /\ tasks'[t].status = "RUNNING" /\ tasks'[t].type \in {"BUILD", "REPAIR"}
        BY <1>1, <1>2, <1>4, <3>1 DEF Coded
      <4>. QED BY <2>4, <4>1 DEF Works, Coded
    <3>3. Len(tasks') = Len(tasks) /\ "created" \in AtRow \ {"park"}
          /\ "created" \notin Mending \cup {"replace"}
      BY <1>4 DEF AtRow, Mending
    <3>. QED BY <1>2, <3>1, <3>2, <3>3, MovesOn
  <2>. QED BY <1>1, <1>2, <1>4, <2>2, <2>3, <2>4, <2>5, PullsMove
<1>. QED BY <1>3, <1>4 DEF CreatePr

LEMMA FinishCodexKeeps ==
  ASSUME TeamInv, FinishCodex
  PROVE TeamInv'
<1>. DEFINE t == cycle.task
            r == tasks[t]
            m == [r EXCEPT !.status = "DONE", !.error = "none"]
            p == IF r.pr = 0 THEN Len(prs) ELSE r.pr
            s == [r EXCEPT !.status = "DONE", !.error = "none", !.sha = cycle.sha, !.pr = p]
<1>1. /\ cycle.pc \in AtRow \ {"park"} /\ cycle.pc \in {"pushed", "created"} /\ AllElse
      /\ cycle.pc = "pushed" => r.pr # 0
      /\ cycle' = [cycle EXCEPT !.pc = "enqueue", !.back = "idle"]
  BY DEF FinishCodex, AtRow, AllElse, github
<1>2. /\ t \in Ids /\ r.status = "RUNNING" /\ Coded(r) /\ Settled /\ r \in Row
      /\ RowOK(r, Len(prs), pushed, verdicts) /\ tasks \in Seq(Row)
      /\ cycle.sha \in 1 .. pushed /\ r.pr \in Nat /\ prs \in Seq(Pull) /\ pushed \in Nat
      /\ cycle.pc = "created" => prs # <<>>
  BY <1>1, AtARow, ARow DEF Works, TeamInv, Shape
<1>3. /\ ~Obsoleted(r) /\ r.status # "RECOVERY_PENDING" /\ "DONE" \in Status
      /\ "none" \in Errors \ Told
  BY <1>2 DEF Obsoleted, Status, Errors, Told
<1>4. p \in 1 .. Len(prs)
  <2>1. r.pr \in 0 .. Len(prs)
    BY <1>2 DEF RowOK
  <2>2. r.pr = 0 => Len(prs) # 0 /\ Len(prs) \in Nat
    BY <1>1, <1>2
  <2>. QED BY <1>2, <2>1, <2>2
<1>5. m \in Row /\ s \in Row
  <2>1. p \in Nat /\ cycle.sha \in Nat
    BY <1>2, <1>4
  <2>. QED BY <1>2, <1>3, <2>1 DEF Row
<1>6. /\ m.status = "DONE" /\ m.error = "none" /\ m.class = r.class
      /\ m.attempt = r.attempt /\ Same(r, m)
      /\ s.status = "DONE" /\ s.error = "none" /\ s.class = m.class /\ s.attempt = m.attempt
      /\ s.fingerprint = m.fingerprint /\ s.cuts = m.cuts /\ s.type = r.type
      /\ s.parent = r.parent /\ s.fingerprint = r.fingerprint /\ s.pr = p /\ s.sha = cycle.sha
  BY <1>2 DEF Row, Same
<1>7. tasks' = [tasks EXCEPT ![t] = s]
  BY <1>2 DEF FinishCodex
<1>. HIDE DEF m, s, p
<1>8. RowOK(m, Len(prs), pushed, verdicts)
  BY <1>2, <1>3, <1>5, <1>6, RestingRow
<1>9. s.type # "REVIEW" /\ Coded(s)
  BY <1>2, <1>6 DEF Coded
<1>10. RowOK(s, Len(prs), pushed, verdicts)
  <2>1. Spent(m)
    BY <1>8 DEF RowOK
  <2>2. External(s) <=> External(m)
    BY <1>6 DEF External
  <2>3. Spent(s)
    BY <1>6, <2>1, <2>2 DEF Spent
  <2>4. s.pr \in 0 .. Len(prs) /\ s.sha \in 0 .. pushed
    BY <1>2, <1>4, <1>6
  <2>5. s.status # "WAITING_CI" /\ s.error \notin Told
    BY <1>3, <1>6
  <2>. QED BY <1>9, <2>3, <2>4, <2>5 DEF RowOK
<1>11. Revised(r, s)
  BY <1>6, <1>9 DEF Revised
<1>12. /\ rem' = rem /\ prs' = prs /\ pushed' = pushed /\ verdicts' = verdicts /\ kills' = kills
  BY <1>1 DEF AllElse
<1>13. /\ tasks' \in Seq(Row) /\ Len(tasks') = Len(tasks) /\ tasks'[t] = s
       /\ Rows' /\ Signed' /\ ParentsParked' /\ OneChildPerHandoff' /\ RepairsBounded'
  BY <1>2, <1>3, <1>5, <1>7, <1>10, <1>11, <1>12, Patch
<1>14. Shape' /\ RemediationShape' /\ Pulls'
  BY <1>12, <1>13, PullsKept DEF TeamInv, Shape, RemediationShape
<1>15. CycleShape' /\ Cycling'
  <2>0. cycle.pc \in AtRow \ (Mending \cup {"park"})
    BY <1>1 DEF Mending
  <2>1. /\ cycle.todo \in Seq(BlockerClass) /\ cycle.sha \in Nat
        /\ cycle' = [pc |-> "enqueue", task |-> t, todo |-> cycle.todo, left |-> {},
                     back |-> "idle", sha |-> cycle.sha]
    BY <1>1, <2>0, OnlyWorks
  <2>2. Works(tasks[cycle.task])'
    <3>1. s.pr # 0
      BY <1>2, <1>4, <1>6
    <3>2. /\ cycle'.pc = "enqueue" /\ cycle'.task = t /\ tasks'[t].status = "DONE"
          /\ tasks'[t].pr # 0 /\ tasks'[t].type \in {"BUILD", "REPAIR"}
      BY <1>6, <1>9, <1>13, <2>1, <3>1 DEF Coded
    <3>. QED BY <3>2 DEF Works, Coded
  <2>3. "enqueue" \in AtRow \ {"park"}
    BY DEF AtRow
  <2>. QED BY <1>2, <1>13, <2>1, <2>2, <2>3, MovesOn
<1>. QED BY <1>13, <1>14, <1>15 DEF TeamInv

-----------------------------------------------------------------------------
(* The steps that hand work on.                                            *)

Handing == cycle.pc \in Mending \cup {"replace", "researched"}
Unchanged(u) == tasks'[u] = tasks[u]

(* Nothing but a row is added, or nothing at all.                          *)
Adds == tasks' = tasks \/ \E r \in Row : tasks' = Append(tasks, r)

LEMMA AddsKeep ==
  ASSUME TeamInv, Adds
  PROVE /\ Len(tasks') \in Nat /\ Len(tasks) \in Nat /\ Len(tasks) <= Len(tasks')
        /\ Ids \subseteq Ids' /\ \A u \in Ids : tasks'[u] = tasks[u]
<1>1. tasks \in Seq(Row) /\ Len(tasks) \in Nat
  BY DEF TeamInv, Shape
<1>2. CASE tasks' = tasks
  BY <1>1, <1>2 DEF Ids
<1>3. ASSUME NEW r \in Row, tasks' = Append(tasks, r)
      PROVE /\ Len(tasks') = Len(tasks) + 1 /\ \A u \in Ids : tasks'[u] = tasks[u]
  BY <1>1, <1>3, Grown
<1>4. CASE \E r \in Row : tasks' = Append(tasks, r)
  BY <1>1, <1>3, <1>4 DEF Ids
<1>. QED BY <1>2, <1>4 DEF Adds

LEMMA Backs ==
  ASSUME TeamInv, cycle.pc \in Mending \cup {"replace"}, cycle' = Back,
         Len(tasks') \in Nat, Len(tasks) <= Len(tasks'), verdicts' = verdicts,
         \A u \in cycle.left : tasks'[u] = tasks[u]
  PROVE CycleShape' /\ Cycling'
<1>1. /\ CycleShape /\ Cycling /\ cycle.back \in {"idle", "handoffs"} /\ cycle.left \subseteq Ids
      /\ Len(tasks) \in Nat
  BY DEF TeamInv, Cycling, Shape
<1>2. cycle' = [pc |-> cycle.back, task |-> 0, todo |-> <<>>, left |-> cycle.left,
                back |-> cycle.back, sha |-> 0]
  BY <1>1 DEF Back, CycleShape
<1>3. CycleShape'
  BY <1>1, <1>2 DEF CycleShape, Between
<1>4. \A u \in cycle.left : Candidate(tasks[u])
  BY <1>1 DEF Cycling, AtRow, Mending
<1>5. \A u \in cycle.left : Candidate(tasks[u])'
  BY <1>4 DEF Candidate, Decided
<1>6. cycle.left \subseteq Ids'
  BY <1>1 DEF Ids
<1>7. Cycling'
  BY <1>1, <1>2, <1>5, <1>6 DEF Cycling, AtRow, Mending
<1>. QED BY <1>3, <1>7

LEMMA ActedMoves ==
  ASSUME TeamInv, cycle.pc = "act", cycle' = [cycle EXCEPT !.pc = "dispatch", !.todo = Tail(@)],
         Len(tasks') \in Nat, Len(tasks) <= Len(tasks'), verdicts' = verdicts,
         \A u \in Ids : u # cycle.task => tasks'[u] = tasks[u],
         LET r == tasks'[cycle.task]
         IN  /\ r.type = "REVIEW" /\ r.sha = tasks[cycle.task].sha
             /\ r.status \in {"DONE", "STALE", "BLOCKED", "WAITING_CI"} /\ r.error # "obsolete"
  PROVE CycleShape' /\ Cycling'
<1>1. /\ CycleShape /\ Cycling /\ cycle.back \in {"idle", "handoffs"} /\ cycle.left \subseteq Ids
      /\ Len(tasks) \in Nat /\ cycle.task \in Ids /\ cycle.task \notin cycle.left
      /\ cycle.todo \in Seq(BlockerClass) /\ cycle.todo # <<>> /\ Decided(tasks[cycle.task])
  BY DEF TeamInv, Cycling, Shape, CycleShape, AtRow, Mending, Works
<1>2. Tail(cycle.todo) \in Seq(BlockerClass)
  BY <1>1
<1>3. cycle' = [pc |-> "dispatch", task |-> cycle.task, todo |-> Tail(cycle.todo),
                left |-> cycle.left, back |-> cycle.back, sha |-> cycle.sha]
  BY <1>1 DEF CycleShape
<1>4. CycleShape'
  BY <1>1, <1>2, <1>3 DEF CycleShape, AtRow
<1>5. \A u \in cycle.left : Candidate(tasks[u])'
  BY <1>1 DEF Cycling, Mending, Candidate, Decided
<1>6. cycle.left \subseteq Ids' /\ cycle.task \in Ids' /\ cycle.task \in 0 .. Len(tasks')
  BY <1>1 DEF Ids
<1>7. Decided(tasks[cycle.task])'
  BY <1>1, <1>3 DEF Decided
<1>8. Works(tasks[cycle.task])'
  <2>1. cycle'.pc = "dispatch" /\ cycle'.task = cycle.task
    BY <1>3
  <2>. QED BY <1>7, <2>1 DEF Works
<1>9. /\ cycle'.pc = "dispatch" /\ cycle'.left = cycle.left /\ cycle'.task = cycle.task
      /\ cycle'.back = cycle.back
  BY <1>3
<1>10. cycle.left = {} \/ cycle.back = "handoffs"
  BY <1>1 DEF Cycling, AtRow
<1>11. Cycling'
  BY <1>1, <1>5, <1>6, <1>8, <1>9, <1>10 DEF Cycling, Mending
<1>. QED BY <1>4, <1>11

LEMMA NewRow ==
  ASSUME TeamInv, NEW type \in Types, NEW pr \in 0 .. Len(prs), NEW sha \in 0 .. pushed,
         NEW parent \in Nat, type = "REVIEW" => pr # 0
  PROVE LET r == NewTask(type, pr, sha, parent)
        IN  /\ r \in Row /\ RowOK(r, Len(prs), pushed, verdicts)
            /\ r.type = type /\ r.sha = sha /\ r.parent = parent /\ r.fingerprint = NoFingerprint
<1>. DEFINE r == NewTask(type, pr, sha, parent)
<1>1. pr \in Nat /\ sha \in Nat /\ MaxAttempts \in Nat \ {0}
  BY TaskBoundsAssumption DEF TeamInv, Shape
<1>2. r \in Row
  BY <1>1, NewTaskTyped
<1>3. /\ r.type = type /\ r.sha = sha /\ r.parent = parent /\ r.fingerprint = NoFingerprint
      /\ r.pr = pr /\ r.status = "PENDING" /\ r.attempt = 0 /\ r.class = "none"
      /\ r.error = "none" /\ r.cuts = 0
  BY DEF NewTask
<1>. HIDE DEF r
<1>4. ~External(r) /\ r.class \notin ExternalWaits
  BY <1>3 DEF External, ExternalWaits
<1>5. r.attempt < MaxAttempts + r.cuts /\ r.attempt <= MaxAttempts + r.cuts
  BY <1>1, <1>3
<1>6. Spent(r)
  BY <1>3, <1>4, <1>5 DEF Spent
<1>7. RowOK(r, Len(prs), pushed, verdicts)
  BY <1>3, <1>6 DEF RowOK, Told
<1>. QED BY <1>2, <1>3, <1>7 DEF r

LEMMA Grows ==
  ASSUME TeamInv, Settled, NEW r \in Row, tasks' = Append(tasks, r), Len(tasks) < MaxTasks,
         prs' = prs, pushed' = pushed, verdicts' = verdicts, kills' = kills,
         RowOK(r, Len(prs), pushed, verdicts), r.parent \in Ids, r.fingerprint = NoFingerprint,
         \/ r.type = "BUILD" /\ ~HasChild(r.parent, "BUILD")
         \/ r.type = "REVIEW" /\ ~HasChild(r.parent, "REVIEW")
         \/ /\ r.type = "REVIEW" /\ tasks[r.parent].type = "REVIEW"
            /\ ~HasReview(r.parent, r.sha)
         \/ /\ r.type = "REPAIR" /\ tasks[r.parent].type = "REVIEW"
            /\ ~HasChild(r.parent, "REPAIR"),
         RemediationShape', CycleShape', Cycling'
  PROVE TeamInv'
<1>1. /\ tasks' \in Seq(Row) /\ Len(tasks') \in 1 .. MaxTasks
      /\ Rows' /\ Signed' /\ ParentsParked' /\ OneChildPerHandoff' /\ RepairsBounded'
  BY Growth
<1>2. Shape' /\ Pulls'
  BY <1>1, PullsKept DEF TeamInv, Shape
<1>. QED BY <1>1, <1>2 DEF TeamInv

LEMMA Rests ==
  ASSUME TeamInv, Settled, tasks' = tasks, prs' = prs, pushed' = pushed, verdicts' = verdicts,
         kills' = kills, RemediationShape', CycleShape', Cycling'
  PROVE TeamInv'
<1>1. /\ prs \in Seq(Pull) /\ pushed \in Nat /\ kills \in 0 .. MaxKills
  BY DEF TeamInv, Shape
<1>2. /\ prs' \in Seq(Pull) /\ pushed' \in Nat /\ pushed <= pushed' /\ Len(prs) <= Len(prs') /\ Pulls'
      /\ tasks' \in Seq(Row) /\ Len(tasks') = Len(tasks) /\ \A u \in Ids : tasks'[u] = tasks[u]
  BY <1>1, PullsKept DEF TeamInv, Shape
<1>3. /\ Ids' = Ids
      /\ Rows' /\ Signed' /\ OneChildPerHandoff' /\ RepairsBounded'
      /\ \A c \in Ids : Recovers(c)' <=> Recovers(c)
  BY <1>2, Revision
<1>4. Shape'
  BY DEF TeamInv, Shape
<1>5. ParentsParked'
  <2>1. ASSUME NEW c \in Ids, Recovers(c)
        PROVE tasks'[tasks'[c].parent].status = "RECOVERY_PENDING"
    BY <2>1 DEF TeamInv, ParentsParked, Recovering, Settled
  <2>. QED BY <1>3, <2>1 DEF ParentsParked
<1>. QED BY <1>2, <1>3, <1>4, <1>5 DEF TeamInv

LEMMA EnqueueReviewKeeps ==
  ASSUME TeamInv, EnqueueReview
  PROVE TeamInv'
<1>. DEFINE t == cycle.task
            r == NewTask("REVIEW", tasks[t].pr, tasks[t].sha, t)
<1>1. /\ cycle.pc \in AtRow \ {"park"} /\ cycle.pc \in Mending \cup {"replace"}
      /\ cycle.pc = "enqueue" /\ cycle' = Back
      /\ prs' = prs /\ pushed' = pushed /\ verdicts' = verdicts /\ kills' = kills
  BY DEF EnqueueReview, AtRow, Mending, github
<1>2. /\ t \in Ids /\ t \in Nat /\ tasks[t].pr \in 0 .. Len(prs) /\ tasks[t].pr # 0
      /\ tasks[t].sha \in 0 .. pushed /\ Settled /\ cycle.left \subseteq Ids
  BY <1>1, AtARow DEF Works, RowOK, Ids, TeamInv, Cycling
<1>3. RemediationShape'
  BY DEF EnqueueReview, TeamInv, RemediationShape
<1>4. /\ r \in Row /\ RowOK(r, Len(prs), pushed, verdicts)
      /\ r.type = "REVIEW" /\ r.parent = t /\ r.fingerprint = NoFingerprint
  BY <1>2, NewRow DEF Types
<1>5. \/ tasks' = tasks
      \/ tasks' = Append(tasks, r) /\ Len(tasks) < MaxTasks /\ ~HasChild(t, "REVIEW")
  BY DEF EnqueueReview
<1>. HIDE DEF r
<1>6. Adds
  BY <1>4, <1>5 DEF Adds
<1>7. CycleShape' /\ Cycling'
  BY <1>1, <1>2, <1>6, AddsKeep, Backs
<1>8. CASE tasks' = tasks
  BY <1>1, <1>2, <1>3, <1>7, <1>8, Rests
<1>9. CASE tasks' = Append(tasks, r) /\ Len(tasks) < MaxTasks /\ ~HasChild(t, "REVIEW")
  BY <1>1, <1>2, <1>3, <1>4, <1>7, <1>9, Grows
<1>. QED BY <1>5, <1>8, <1>9

LEMMA EnqueueBuildKeeps ==
  ASSUME TeamInv, EnqueueBuild
  PROVE TeamInv'
<1>. DEFINE t == cycle.task
            r == NewTask("BUILD", 0, 0, t)
<1>1. /\ cycle.pc \in AtRow \ {"park"} /\ cycle.pc = "researched" /\ cycle' = Idle
      /\ rem' = rem /\ prs' = prs /\ pushed' = pushed /\ verdicts' = verdicts /\ kills' = kills
  BY DEF EnqueueBuild, AtRow, github, Finish
<1>2. /\ t \in Ids /\ t \in Nat /\ 0 \in 0 .. Len(prs) /\ 0 \in 0 .. pushed /\ Settled
  BY <1>1, AtARow DEF Ids, TeamInv, Shape
<1>3. RemediationShape'
  BY <1>1 DEF TeamInv, RemediationShape
<1>4. /\ r \in Row /\ RowOK(r, Len(prs), pushed, verdicts)
      /\ r.type = "BUILD" /\ r.parent = t /\ r.fingerprint = NoFingerprint
  BY <1>2, NewRow DEF Types
<1>5. \/ tasks' = tasks
      \/ tasks' = Append(tasks, r) /\ Len(tasks) < MaxTasks /\ ~HasChild(t, "BUILD")
  BY DEF EnqueueBuild, Finish
<1>. HIDE DEF r
<1>6. Adds
  BY <1>4, <1>5 DEF Adds
<1>7. CycleShape' /\ Cycling'
  BY <1>1, <1>6, AddsKeep, IdleCycles
<1>8. CASE tasks' = tasks
  BY <1>1, <1>2, <1>3, <1>7, <1>8, Rests
<1>9. CASE tasks' = Append(tasks, r) /\ Len(tasks) < MaxTasks /\ ~HasChild(t, "BUILD")
  BY <1>1, <1>2, <1>3, <1>4, <1>7, <1>9, Grows
<1>. QED BY <1>5, <1>8, <1>9

LEMMA ReplaceReviewKeeps ==
  ASSUME TeamInv, ReplaceReview
  PROVE TeamInv'
<1>. DEFINE t == cycle.task
            r == NewTask("REVIEW", tasks[t].pr, cycle.sha, t)
<1>1. /\ cycle.pc \in AtRow \ {"park"} /\ cycle.pc \in Mending \cup {"replace"}
      /\ cycle.pc = "replace" /\ cycle' = Back /\ rem' = rem
      /\ prs' = prs /\ pushed' = pushed /\ verdicts' = verdicts /\ kills' = kills
  BY DEF ReplaceReview, AtRow, github
<1>2. /\ t \in Ids /\ t \in Nat /\ tasks[t].type = "REVIEW"
      /\ RowOK(tasks[t], Len(prs), pushed, verdicts)
      /\ cycle.sha \in 1 .. pushed /\ Settled /\ cycle.left \subseteq Ids
  BY <1>1, AtARow DEF Works, Ids, TeamInv, Cycling
<1>3. RemediationShape'
  BY <1>1 DEF TeamInv, RemediationShape
<1>4. /\ r \in Row /\ RowOK(r, Len(prs), pushed, verdicts) /\ r.sha = cycle.sha
      /\ r.type = "REVIEW" /\ r.parent = t /\ r.fingerprint = NoFingerprint
  <2>1. tasks[t].pr \in 0 .. Len(prs) /\ tasks[t].pr # 0 /\ cycle.sha \in 0 .. pushed
    BY <1>2 DEF RowOK
  <2>. QED BY <1>2, <2>1, NewRow DEF Types
<1>5. \/ tasks' = tasks
      \/ tasks' = Append(tasks, r) /\ Len(tasks) < MaxTasks /\ ~HasReview(t, cycle.sha)
  BY DEF ReplaceReview
<1>. HIDE DEF r
<1>6. Adds
  BY <1>4, <1>5 DEF Adds
<1>7. CycleShape' /\ Cycling'
  BY <1>1, <1>2, <1>6, AddsKeep, Backs
<1>8. CASE tasks' = tasks
  BY <1>1, <1>2, <1>3, <1>7, <1>8, Rests
<1>9. CASE tasks' = Append(tasks, r) /\ Len(tasks) < MaxTasks /\ ~HasReview(t, cycle.sha)
  BY <1>1, <1>2, <1>3, <1>4, <1>7, <1>9, Grows
<1>. QED BY <1>5, <1>8, <1>9

(* A blocker that was acted on.                                            *)
LEMMA ActedKeeps ==
  ASSUME TeamInv, NEW status \in {"ACTION_STARTED", "COMPLETED", "TERMINAL"}, Acted(status),
         cycle.pc = "act"
  PROVE /\ cycle' = [cycle EXCEPT !.pc = "dispatch", !.todo = Tail(@)]
        /\ RemediationShape'
<1>1. cycle' = [cycle EXCEPT !.pc = "dispatch", !.todo = Tail(@)]
  BY DEF Acted
<1>2. \A f \in DOMAIN rem' : rem'[f] \in {rem[f], status} /\ f \in DOMAIN rem
  BY DEF Acted
<1>. QED BY <1>1, <1>2 DEF TeamInv, RemediationShape

LEMMA ActRow ==
  ASSUME TeamInv, cycle.pc = "act"
  PROVE /\ cycle.task \in Ids /\ cycle.task \in Nat /\ Settled /\ cycle.pc \in AtRow \ {"park"}
        /\ tasks[cycle.task] \in Row /\ RowOK(tasks[cycle.task], Len(prs), pushed, verdicts)
        /\ Decided(tasks[cycle.task]) /\ tasks[cycle.task].type = "REVIEW"
        /\ tasks[cycle.task].status \in {"DONE", "STALE", "BLOCKED", "WAITING_CI"}
        /\ tasks[cycle.task].status # "RECOVERY_PENDING"
        /\ tasks[cycle.task].error # "obsolete" /\ ~Obsoleted(tasks[cycle.task])
        /\ tasks \in Seq(Row)
<1>1. cycle.pc \in AtRow \ {"park"}
  BY DEF AtRow
<1>. QED BY <1>1, AtARow DEF Works, Decided, Obsoleted, Ids, TeamInv, Shape

LEMMA ActedAdds ==
  ASSUME TeamInv, NEW status \in {"ACTION_STARTED", "COMPLETED", "TERMINAL"}, Acted(status),
         cycle.pc = "act", Adds, verdicts' = verdicts
  PROVE CycleShape' /\ Cycling' /\ RemediationShape'
<1>1. /\ cycle' = [cycle EXCEPT !.pc = "dispatch", !.todo = Tail(@)] /\ RemediationShape'
  BY ActedKeeps
<1>2. /\ Len(tasks') \in Nat /\ Len(tasks) <= Len(tasks') /\ \A u \in Ids : tasks'[u] = tasks[u]
  BY AddsKeep
<1>3. /\ cycle.task \in Ids /\ tasks[cycle.task].type = "REVIEW"
      /\ tasks[cycle.task].status \in {"DONE", "STALE", "BLOCKED", "WAITING_CI"}
      /\ tasks[cycle.task].error # "obsolete"
  BY ActRow
<1>. QED BY <1>1, <1>2, <1>3, ActedMoves

LEMMA ActCodeChangeKeeps ==
  ASSUME TeamInv, ActCodeChange
  PROVE TeamInv'
<1>. DEFINE t == cycle.task
            r == NewTask("REPAIR", tasks[t].pr, 0, t)
<1>1. /\ cycle.pc = "act" /\ Acted("ACTION_STARTED")
      /\ prs' = prs /\ pushed' = pushed /\ verdicts' = verdicts /\ kills' = kills
  BY DEF ActCodeChange, github
<1>2. /\ t \in Ids /\ t \in Nat /\ tasks[t].type = "REVIEW" /\ Settled
      /\ tasks[t].pr \in 0 .. Len(prs) /\ 0 \in 0 .. pushed
  BY <1>1, ActRow DEF RowOK, TeamInv, Shape
<1>3. /\ r \in Row /\ RowOK(r, Len(prs), pushed, verdicts)
      /\ r.type = "REPAIR" /\ r.parent = t /\ r.fingerprint = NoFingerprint
  BY <1>2, NewRow DEF Types
<1>4. \/ tasks' = tasks
      \/ tasks' = Append(tasks, r) /\ Len(tasks) < MaxTasks /\ ~HasChild(t, "REPAIR")
  BY DEF ActCodeChange
<1>. HIDE DEF r
<1>5. Adds
  BY <1>3, <1>4 DEF Adds
<1>6. CycleShape' /\ Cycling' /\ RemediationShape'
  BY <1>1, <1>5, ActedAdds
<1>7. CASE tasks' = tasks
  BY <1>1, <1>2, <1>6, <1>7, Rests
<1>8. CASE tasks' = Append(tasks, r) /\ Len(tasks) < MaxTasks /\ ~HasChild(t, "REPAIR")
  BY <1>1, <1>2, <1>3, <1>6, <1>8, Grows
<1>. QED BY <1>4, <1>7, <1>8

LEMMA ActReviewRerunKeeps ==
  ASSUME TeamInv, ActReviewRerun
  PROVE TeamInv'
<1>. DEFINE t == cycle.task
            r == NewTask("REVIEW", tasks[t].pr, tasks[t].sha, t)
<1>1. /\ cycle.pc = "act" /\ Acted("COMPLETED")
      /\ prs' = prs /\ pushed' = pushed /\ verdicts' = verdicts /\ kills' = kills
  BY DEF ActReviewRerun, github
<1>2. /\ t \in Ids /\ t \in Nat /\ tasks[t].type = "REVIEW" /\ Settled
      /\ tasks[t].pr \in 0 .. Len(prs) /\ tasks[t].pr # 0 /\ tasks[t].sha \in 0 .. pushed
  BY <1>1, ActRow DEF RowOK
<1>3. /\ r \in Row /\ RowOK(r, Len(prs), pushed, verdicts) /\ r.sha = tasks[t].sha
      /\ r.type = "REVIEW" /\ r.parent = t /\ r.fingerprint = NoFingerprint
  BY <1>2, NewRow DEF Types
<1>4. \/ tasks' = tasks
      \/ tasks' = Append(tasks, r) /\ Len(tasks) < MaxTasks /\ ~HasReview(t, tasks[t].sha)
  BY DEF ActReviewRerun
<1>. HIDE DEF r
<1>5. Adds
  BY <1>3, <1>4 DEF Adds
<1>6. CycleShape' /\ Cycling' /\ RemediationShape'
  BY <1>1, <1>5, ActedAdds
<1>7. CASE tasks' = tasks
  BY <1>1, <1>2, <1>6, <1>7, Rests
<1>8. CASE tasks' = Append(tasks, r) /\ Len(tasks) < MaxTasks /\ ~HasReview(t, tasks[t].sha)
  BY <1>1, <1>2, <1>3, <1>6, <1>8, Grows
<1>. QED BY <1>4, <1>7, <1>8

LEMMA ActedPatch ==
  ASSUME TeamInv, NEW status \in {"ACTION_STARTED", "COMPLETED", "TERMINAL"}, Acted(status),
         cycle.pc = "act", NEW s \in Row, tasks' = [tasks EXCEPT ![cycle.task] = s],
         Same(tasks[cycle.task], s), RowOK(s, Len(prs), pushed, verdicts),
         s.status \in {"DONE", "STALE", "BLOCKED", "WAITING_CI"}, s.error # "obsolete",
         prs' = prs, pushed' = pushed, verdicts' = verdicts, kills' = kills
  PROVE TeamInv'
<1>. DEFINE t == cycle.task
<1>1. /\ cycle' = [cycle EXCEPT !.pc = "dispatch", !.todo = Tail(@)] /\ RemediationShape'
  BY ActedKeeps
<1>2. /\ t \in Ids /\ tasks[t].type = "REVIEW" /\ Settled /\ tasks \in Seq(Row)
      /\ tasks[t].status # "RECOVERY_PENDING"
  BY ActRow
<1>3. /\ Len(tasks') = Len(tasks) /\ tasks'[t] = s /\ \A u \in Ids : u # t => tasks'[u] = tasks[u]
      /\ Len(tasks) \in Nat
  BY <1>2, Patched DEF Ids
<1>4. Len(tasks') \in Nat /\ Len(tasks) <= Len(tasks')
  BY <1>3
<1>5. CycleShape' /\ Cycling'
  BY <1>1, <1>2, <1>3, <1>4, ActedMoves DEF Same
<1>. QED BY <1>1, <1>2, <1>5, Finishes

LEMMA ActedOnly ==
  ASSUME TeamInv, NEW status \in {"ACTION_STARTED", "COMPLETED", "TERMINAL"}, Acted(status),
         cycle.pc = "act", tasks' = tasks,
         prs' = prs, pushed' = pushed, verdicts' = verdicts, kills' = kills
  PROVE TeamInv'
<1>1. Settled
  BY ActRow
<1>2. CycleShape' /\ Cycling' /\ RemediationShape'
  BY ActedAdds DEF Adds
<1>. QED BY <1>1, <1>2, Rests

(* A row sent back to the wait for CI.                                     *)
LEMMA BackToChecks ==
  ASSUME TeamInv, cycle.pc = "act", Acted("COMPLETED"), NEW error \in Errors,
         error # "obsolete",
         tasks' = [tasks EXCEPT ![cycle.task].status = "WAITING_CI", ![cycle.task].error = error],
         prs' = prs, pushed' = pushed, verdicts' = verdicts, kills' = kills
  PROVE TeamInv'
<1>. DEFINE t == cycle.task
            s == [tasks[t] EXCEPT !.status = "WAITING_CI", !.error = error]
<1>1. /\ t \in Ids /\ tasks[t] \in Row /\ tasks \in Seq(Row) /\ Decided(tasks[t])
      /\ ~Obsoleted(tasks[t]) /\ "WAITING_CI" \in Status
  BY ActRow DEF Status, Active
<1>2. s \in Row
  BY <1>1 DEF Row
<1>3. /\ s.status = "WAITING_CI" /\ s.error = error /\ s.class = tasks[t].class
      /\ s.attempt = tasks[t].attempt /\ Same(tasks[t], s)
  BY <1>1 DEF Row, Same
<1>4. tasks' = [tasks EXCEPT ![t] = s]
  BY <1>1
<1>. HIDE DEF s
<1>5. RowOK(s, Len(prs), pushed, verdicts)
  BY <1>1, <1>2, <1>3, RestingRow
<1>. QED BY <1>2, <1>3, <1>4, <1>5, ActedPatch

LEMMA ActMetadataKeeps ==
  ASSUME TeamInv, ActMetadata
  PROVE TeamInv'
<1>1. /\ cycle.pc = "act" /\ prs' = prs /\ pushed' = pushed /\ verdicts' = verdicts
      /\ kills' = kills /\ "none" \in Errors
  BY DEF ActMetadata, github, Errors
<1>2. CASE /\ tasks' = [tasks EXCEPT ![cycle.task].status = "WAITING_CI",
                                     ![cycle.task].error = "none"]
           /\ Acted("COMPLETED")
  BY <1>1, <1>2, BackToChecks
<1>3. CASE Acted("TERMINAL") /\ tasks' = tasks
  BY <1>1, <1>3, ActedOnly
<1>. QED BY <1>2, <1>3 DEF ActMetadata

LEMMA ActCheckRetryKeeps ==
  ASSUME TeamInv, ActCheckRetry
  PROVE TeamInv'
<1>. DEFINE t == cycle.task
<1>1. /\ cycle.pc = "act" /\ prs' = prs /\ pushed' = pushed /\ verdicts' = verdicts
      /\ kills' = kills /\ Acted("COMPLETED")
      /\ tasks' = [tasks EXCEPT ![t].status = "WAITING_CI"]
  BY DEF ActCheckRetry
<1>2. PICK error \in Errors : error = tasks[t].error /\ error # "obsolete"
  BY <1>1, ActRow, ARow
<1>3. tasks \in Seq(Row) /\ t \in Ids /\ tasks[t] \in Row
  BY <1>1, ActRow
<1>4. tasks' = [tasks EXCEPT ![t].status = "WAITING_CI", ![t].error = error]
  BY <1>1, <1>2, <1>3 DEF Row
<1>. QED BY <1>1, <1>2, <1>4, BackToChecks

LEMMA ActPolicyKeeps ==
  ASSUME TeamInv, ActPolicy
  PROVE TeamInv'
BY ActedOnly DEF ActPolicy, github

LEMMA BlockedAct ==
  ASSUME TeamInv, cycle.pc = "act", Acted("TERMINAL"),
         NEW error \in {"auth", "rule", "quota", "window", "dependency"},
         tasks' = Blocked(cycle.task, error),
         prs' = prs, pushed' = pushed, verdicts' = verdicts, kills' = kills
  PROVE TeamInv'
<1>1. /\ cycle.task \in Ids /\ ~Obsoleted(tasks[cycle.task])
      /\ error \in Errors \ Told /\ error # "obsolete"
  BY ActRow DEF Errors, Told
<1>2. PICK s \in Row :
            /\ Blocked(cycle.task, error) = [tasks EXCEPT ![cycle.task] = s]
            /\ Same(tasks[cycle.task], s) /\ RowOK(s, Len(prs), pushed, verdicts)
            /\ s.status \in {"BLOCKED", "STALE"} /\ s.error = error
  BY <1>1, BlockedRow
<1>. QED BY <1>1, <1>2, ActedPatch

LEMMA ActProtectedKeeps ==
  ASSUME TeamInv, ActProtected
  PROVE TeamInv'
<1>1. /\ cycle.pc = "act" /\ prs' = prs /\ pushed' = pushed /\ verdicts' = verdicts
      /\ kills' = kills
  BY DEF ActProtected, github
<1>2. CASE Acted("COMPLETED") /\ tasks' = tasks
  BY <1>1, <1>2, ActedOnly
<1>3. CASE Acted("TERMINAL") /\ tasks' = Blocked(cycle.task, "auth")
  BY <1>1, <1>3, BlockedAct
<1>. QED BY <1>2, <1>3 DEF ActProtected

LEMMA ActTerminalKeeps ==
  ASSUME TeamInv, ActTerminal
  PROVE TeamInv'
<1>1. /\ cycle.pc = "act" /\ prs' = prs /\ pushed' = pushed /\ verdicts' = verdicts
      /\ kills' = kills /\ Acted("TERMINAL")
  BY DEF ActTerminal, github
<1>2. PICK rule \in {"rule", "quota", "window", "dependency"} : tasks' = Blocked(cycle.task, rule)
  BY RulesAssumption DEF ActTerminal
<1>. QED BY <1>1, <1>2, BlockedAct

-----------------------------------------------------------------------------
(* The steps of the cycle that leave the rows alone, and the due task.     *)

LEMMA BackOnly ==
  ASSUME TeamInv, cycle.pc \in Mending, cycle' = Back, tasks' = tasks, rem' = rem,
         prs' = prs, pushed' = pushed, verdicts' = verdicts, kills' = kills
  PROVE TeamInv'
<1>1. /\ Len(tasks) \in Nat /\ cycle.left \subseteq Ids /\ Settled /\ RemediationShape'
      /\ Len(tasks') \in Nat /\ Len(tasks) <= Len(tasks')
  BY DEF TeamInv, Shape, Cycling, Settled, Mending, RemediationShape
<1>2. CycleShape' /\ Cycling'
  BY <1>1, Backs
<1>. QED BY <1>1, <1>2, Rests

LEMMA HandoffFailsKeeps ==
  ASSUME TeamInv, HandoffFails
  PROVE TeamInv'
BY BackOnly DEF HandoffFails, ledger, github, Mending

LEMMA DispatchEndsKeeps ==
  ASSUME TeamInv, DispatchEnds
  PROVE TeamInv'
BY BackOnly DEF DispatchEnds, ledger, github, Mending

LEMMA NothingDueKeeps ==
  ASSUME TeamInv, NothingDue
  PROVE TeamInv'
<1>1. /\ tasks' = tasks /\ rem' = rem /\ prs' = prs /\ pushed' = pushed
      /\ verdicts' = verdicts /\ kills' = kills /\ cycle' = Idle /\ cycle.pc = "handoffs"
  BY DEF NothingDue, ledger, github
<1>2. Settled /\ RemediationShape' /\ Len(tasks') \in Nat
  BY <1>1 DEF TeamInv, Shape, Settled, RemediationShape
<1>3. CycleShape' /\ Cycling'
  BY <1>1, <1>2, IdleCycles
<1>. QED BY <1>1, <1>2, <1>3, Rests

LEMMA DispatchMoves ==
  ASSUME TeamInv, tasks' = tasks, verdicts' = verdicts, cycle.pc = "dispatch",
         cycle.todo # <<>>,
         \/ cycle' = [cycle EXCEPT !.todo = Tail(@)]
         \/ cycle' = [cycle EXCEPT !.pc = "act"]
  PROVE CycleShape' /\ Cycling'
<1>1. /\ CycleShape /\ Cycling /\ Ids' = Ids /\ cycle.todo \in Seq(BlockerClass)
      /\ Works(tasks[cycle.task])
  BY DEF TeamInv, Cycling, CycleShape, AtRow, Ids
<1>2. Tail(cycle.todo) \in Seq(BlockerClass)
  BY <1>1
<1>3. /\ cycle'.task = cycle.task /\ cycle'.left = cycle.left /\ cycle'.back = cycle.back
      /\ cycle'.pc \in {"dispatch", "act"} /\ (cycle'.pc = "act" => cycle'.todo # <<>>)
      /\ cycle' \in [pc : {"dispatch", "act"}, task : Nat, todo : Seq(BlockerClass),
                     left : SUBSET Nat, back : {"idle", "handoffs", "created"}, sha : Nat]
  BY <1>1, <1>2 DEF CycleShape
<1>4. CycleShape'
  BY <1>3 DEF CycleShape, AtRow
<1>5. Works(tasks[cycle.task])'
  BY <1>1, <1>3 DEF Works, Decided
<1>6. \A u \in Ids : Candidate(tasks[u])' <=> Candidate(tasks[u])
  BY DEF Candidate, Decided
<1>7. Cycling'
  BY <1>1, <1>3, <1>5, <1>6 DEF Cycling, Mending, AtRow
<1>. QED BY <1>4, <1>7

LEMMA ObserveKeeps ==
  ASSUME TeamInv, Observe
  PROVE TeamInv'
<1>. DEFINE f == Key(cycle.task, Head(cycle.todo))
<1>1. /\ tasks' = tasks /\ prs' = prs /\ pushed' = pushed
      /\ verdicts' = verdicts /\ kills' = kills /\ cycle.pc = "dispatch" /\ cycle.todo # <<>>
      /\ \/ cycle' = [cycle EXCEPT !.todo = Tail(@)] /\ rem' = rem
         \/ /\ rem' = [g \in DOMAIN rem \cup {f} |-> IF g = f THEN "OBSERVED" ELSE rem[g]]
            /\ cycle' = [cycle EXCEPT !.pc = "act"]
  BY DEF Observe, github
<1>2. CycleShape' /\ Cycling' /\ Settled
  BY <1>1, DispatchMoves DEF Settled
<1>3. RemediationShape'
  <2>. HIDE DEF f
  <2>. QED BY <1>1 DEF TeamInv, RemediationShape
<1>. QED BY <1>1, <1>2, <1>3, Rests

LEMMA HandoffKeeps ==
  ASSUME TeamInv, Handoff
  PROVE TeamInv'
<1>1. /\ tasks' = tasks /\ rem' = rem /\ prs' = prs /\ pushed' = pushed
      /\ verdicts' = verdicts /\ kills' = kills /\ cycle.pc = "handoffs"
  BY DEF Handoff, ledger, github
<1>2. PICK t \in cycle.left :
        \/ /\ tasks[t].type # "REVIEW"
           /\ cycle' = [[cycle EXCEPT !.left = @ \ {t}] EXCEPT
                            !.pc = "enqueue", !.task = t, !.back = "handoffs"]
        \/ /\ tasks[t].type = "REVIEW"
           /\ cycle' = [[cycle EXCEPT !.left = @ \ {t}] EXCEPT
                            !.pc = "dispatch", !.task = t, !.back = "handoffs",
                            !.todo = Reclassified(t)]
        \/ cycle' = [cycle EXCEPT !.left = @ \ {t}]
  BY DEF Handoff
<1>3. /\ CycleShape /\ Cycling /\ Ids' = Ids /\ t \in Ids /\ Candidate(tasks[t])
      /\ cycle.left \subseteq Ids /\ \A u \in cycle.left : Candidate(tasks[u])
      /\ t \in Nat /\ t \in 0 .. Len(tasks)
  BY <1>1 DEF TeamInv, Cycling, Ids
<1>4. Reclassified(t) \in Seq(BlockerClass)
  <2>1. tasks[t].blockers \in Seq(BlockerClass)
    BY <1>3, ARow
  <2>2. [i \in DOMAIN tasks[t].blockers |-> "TERMINAL"] \in Seq(BlockerClass)
    BY <2>1 DEF BlockerClass
  <2>. QED BY <2>1, <2>2 DEF Reclassified
<1>5. /\ cycle'.left = cycle.left \ {t} /\ cycle'.pc \in {"handoffs", "enqueue", "dispatch"}
      /\ cycle' \in [pc : {"handoffs", "enqueue", "dispatch"}, task : Nat, todo : Seq(BlockerClass),
                     left : SUBSET Nat, back : {"idle", "handoffs", "created"}, sha : Nat]
      /\ cycle'.pc # "handoffs" => cycle'.task = t /\ cycle'.back = "handoffs"
      /\ cycle'.pc = "enqueue" => tasks[t].type # "REVIEW"
      /\ cycle'.pc = "dispatch" => tasks[t].type = "REVIEW"
      /\ cycle'.pc = "handoffs" => cycle'.task = cycle.task
  BY <1>1, <1>2, <1>3, <1>4 DEF CycleShape
<1>6. CycleShape'
  BY <1>5 DEF CycleShape, Between, AtRow
<1>7. cycle'.pc # "handoffs" => Works(tasks[cycle.task])'
  <2>1. CASE cycle'.pc = "enqueue"
    <3>1. Coded(tasks[t]) /\ tasks[t].pr # 0 /\ tasks[t].status = "DONE"
      BY <1>3, <1>5, <2>1 DEF Candidate, Decided
    <3>2. /\ tasks'[cycle'.task].type \in {"BUILD", "REPAIR"} /\ tasks'[cycle'.task].pr # 0
          /\ tasks'[cycle'.task].status = "DONE"
      BY <1>1, <1>5, <2>1, <3>1 DEF Coded
    <3>. QED BY <2>1, <3>2 DEF Works, Coded
  <2>2. CASE cycle'.pc = "dispatch"
    <3>1. Decided(tasks[t]) /\ tasks[t].error # "obsolete" /\ tasks[t].status = "DONE"
      BY <1>3, <1>5, <2>2 DEF Candidate, Coded
    <3>2. /\ Decided(tasks[cycle.task])' /\ tasks'[cycle'.task].error # "obsolete"
          /\ tasks'[cycle'.task].status = "DONE"
      BY <1>1, <1>5, <2>2, <3>1 DEF Decided
    <3>. QED BY <2>2, <3>2 DEF Works
  <2>. QED BY <1>5, <2>1, <2>2
<1>8. \A u \in Ids : Candidate(tasks[u])' <=> Candidate(tasks[u])
  BY <1>1 DEF Candidate, Decided
<1>9. cycle'.task \in 0 .. Len(tasks') /\ (cycle'.pc # "handoffs" => cycle'.task \in Ids)
  BY <1>1, <1>3, <1>5 DEF Cycling
<1>10. Cycling'
  BY <1>3, <1>5, <1>7, <1>8, <1>9 DEF Cycling, Mending, AtRow
<1>11. Settled /\ RemediationShape'
  BY <1>1 DEF TeamInv, Settled, RemediationShape
<1>. QED BY <1>1, <1>6, <1>10, <1>11, Rests

LEMMA RetiredRow ==
  ASSUME TeamInv, NEW t \in Ids
  PROVE /\ Retired(t) \in Row /\ Same(tasks[t], Retired(t))
        /\ RowOK(Retired(t), Len(prs), pushed, verdicts)
<1>. DEFINE r == tasks[t]
<1>1. /\ r \in Row /\ RowOK(r, Len(prs), pushed, verdicts) /\ r.attempt \in Nat
  BY ARow
<1>2. PICK s : s = Retired(t)
  OBVIOUS
<1>3. s \in Row
  <2>1. "DONE" \in Status /\ "obsolete" \in Errors /\ "none" \in Classes
    BY DEF Status, Errors, Classes
  <2>. QED BY <1>1, <1>2, <2>1 DEF Retired, Row
<1>4. /\ s.status = "DONE" /\ s.error = "obsolete" /\ s.class = "none" /\ s.attempt = r.attempt
      /\ Same(r, s)
  BY <1>1, <1>2 DEF Retired, Row, Same
<1>5. s.fingerprint = r.fingerprint /\ s.cuts = r.cuts
  BY <1>4 DEF Same
<1>6. Spent(r)
  BY <1>1 DEF RowOK
<1>7. Spent(s)
  BY <1>4, <1>5, <1>6 DEF Spent, External, Runnable
<1>8. RowOK(s, Len(prs), pushed, verdicts)
  BY <1>1, <1>4, <1>7 DEF RowOK, Same, Told
<1>. QED BY <1>2, <1>3, <1>4, <1>8

LEMMA PickKeeps ==
  ASSUME TeamInv, Pick
  PROVE TeamInv'
<1>1. /\ rem' = rem /\ prs' = prs /\ pushed' = pushed
      /\ verdicts' = verdicts /\ kills' = kills /\ cycle.pc = "handoffs"
  BY DEF Pick, github
<1>2. PICK t \in Ids :
        /\ tasks[t].status \in {"WAITING_CI", "PENDING", "RETRY", "WAITING_RATE_LIMIT",
                                "WAITING_EVIDENCE_WINDOW"}
        /\ \/ cycle' = At(Handler(t), t) /\ tasks' = tasks
           \/ cycle' = Idle /\ tasks' = [tasks EXCEPT ![t] = Retired(t)]
  BY DEF Pick, Due
<1>3. /\ tasks[t].type \in Types /\ tasks[t].status # "RECOVERY_PENDING"
      /\ Settled /\ RemediationShape' /\ t \in Nat /\ t \in 0 .. Len(tasks)
  BY <1>1, <1>2, ARow DEF TeamInv, Settled, RemediationShape, Ids
<1>4. CASE cycle' = At(Handler(t), t) /\ tasks' = tasks
  <2>1. PICK pc : pc = Handler(t)
    OBVIOUS
  <2>2. \/ pc = "ci" /\ tasks[t].status = "WAITING_CI"
        \/ pc = "probe" /\ tasks[t].status = "WAITING_RATE_LIMIT"
        \/ pc = "codex" /\ Coded(tasks[t]) /\ tasks[t].status \in Runnable
        \/ pc = "review" /\ tasks[t].type = "REVIEW" /\ tasks[t].status \in Runnable
        \/ pc = "research" /\ tasks[t].type = "RESEARCH" /\ tasks[t].status \in Runnable
    <3>1. pc = IF tasks[t].status = "WAITING_CI" THEN "ci"
               ELSE IF /\ tasks[t].status = "WAITING_RATE_LIMIT"
                       /\ tasks[t].type \in {"REVIEW", "RESEARCH"} THEN "probe"
               ELSE IF tasks[t].type \in {"BUILD", "REPAIR"} THEN "codex"
               ELSE IF tasks[t].type = "REVIEW" THEN "review"
               ELSE "research"
      BY <2>1 DEF Handler
    <3>. QED BY <1>2, <1>3, <3>1 DEF Coded, Runnable, Types
  <2>3. cycle' = [pc |-> pc, task |-> t, todo |-> <<>>, left |-> {}, back |-> "idle", sha |-> 0]
    BY <1>4, <2>1 DEF At, Idle
  <2>4. CycleShape' /\ pc \in AtRow \ ({"park"} \cup Mending)
    BY <1>3, <2>2, <2>3 DEF CycleShape, AtRow, Mending
  <2>5. Works(tasks[cycle.task])'
    <3>1. cycle'.pc = pc /\ cycle'.task = t /\ tasks'[cycle'.task] = tasks[t]
      BY <1>4, <2>3
    <3>2. \/ pc = "ci" /\ tasks'[cycle'.task].status = "WAITING_CI"
          \/ pc = "probe" /\ tasks'[cycle'.task].status = "WAITING_RATE_LIMIT"
          \/ /\ pc = "codex" /\ tasks'[cycle'.task].status \in Runnable
             /\ tasks'[cycle'.task].type \in {"BUILD", "REPAIR"}
          \/ /\ pc = "review" /\ tasks'[cycle'.task].type = "REVIEW"
             /\ tasks'[cycle'.task].status \in Runnable
          \/ /\ pc = "research" /\ tasks'[cycle'.task].type = "RESEARCH"
             /\ tasks'[cycle'.task].status \in Runnable
      BY <2>2, <3>1 DEF Coded
    <3>. QED BY <3>1, <3>2 DEF Works, Coded
  <2>6. Cycling'
    <3>1. t \in Ids' /\ t \in 0 .. Len(tasks') /\ cycle'.pc = pc /\ cycle'.task = t /\ cycle'.left = {}
      BY <1>3, <1>4, <2>3 DEF Ids
    <3>2. cycle'.pc \notin Mending \cup {"replace", "park"}
      BY <2>2, <2>4, <3>1
    <3>. QED BY <2>5, <3>1, <3>2 DEF Cycling
  <2>. QED BY <1>1, <1>3, <1>4, <2>4, <2>6, Rests
<1>5. CASE cycle' = Idle /\ tasks' = [tasks EXCEPT ![t] = Retired(t)]
  BY <1>1, <1>3, <1>5, RetiredRow, Finishes
<1>. QED BY <1>2, <1>4, <1>5

-----------------------------------------------------------------------------
(* The sweeps over all rows.                                               *)

LEMMA Swept ==
  ASSUME TeamInv, tasks' \in Seq(Row), Len(tasks') = Len(tasks), rem' = rem, prs' = prs,
         pushed' = pushed, verdicts' = verdicts, kills' = kills, CycleShape', Cycling',
         \A u \in Ids : \/ tasks'[u] = tasks[u]
                        \/ /\ Revised(tasks[u], tasks'[u])
                           /\ RowOK(tasks'[u], Len(prs), pushed, verdicts)
                           /\ tasks[u].status \in Active,
         \A t \in Ids : Recovering(t) /\ tasks[t].status \in {"STALE", "BLOCKED"} => Recovering(t)',
         \A t \in Ids : tasks[t].status = "PENDING" /\ tasks'[t] # tasks[t] => cycle.left = {}
                            /\ cycle.pc = "recovery"
  PROVE TeamInv'
<1>1. Len(prs) <= Len(prs') /\ pushed <= pushed' /\ prs' \in Seq(Pull) /\ pushed' \in Nat
  BY DEF TeamInv, Shape
<1>2. /\ Ids' = Ids /\ Rows' /\ Signed' /\ OneChildPerHandoff' /\ RepairsBounded'
      /\ \A c \in Ids : Recovers(c)' <=> Recovers(c)
  BY <1>1, Revision
<1>3. Shape' /\ RemediationShape' /\ Pulls'
  BY PullsKept DEF TeamInv, Shape, RemediationShape
<1>4. ParentsParked'
  <2>1. \A u \in Ids : tasks[u].status \notin Active => tasks'[u] = tasks[u]
    OBVIOUS
  <2>2. ASSUME NEW c \in Ids, Recovers(c)
        PROVE \/ tasks'[tasks'[c].parent].status = "RECOVERY_PENDING"
              \/ (Recovering(tasks[c].parent) /\ Assigning(tasks[tasks[c].parent], tasks[c]))'
    <3>1. PICK p \in Ids : p = tasks[c].parent
      BY <2>2 DEF Recovers, TeamInv, Rows, Ids
    <3>2. tasks'[c].parent = p
      BY <3>1 DEF Revised
    <3>3. CASE tasks[p].status = "RECOVERY_PENDING"
      BY <2>1, <3>2, <3>3 DEF Active
    <3>4. CASE Recovering(p) /\ Assigning(tasks[p], tasks[c])
      <4>1. /\ tasks[p].status \in {"STALE", "BLOCKED"} /\ tasks[c].status = "PENDING"
            /\ p \in Ids /\ Recovering(p)
        BY <3>4 DEF Assigning
      <4>2. tasks'[p] = tasks[p]
        BY <2>1, <4>1 DEF Active
      <4>3. tasks'[c] = tasks[c]
        BY <4>1 DEF Recovering
      <4>4. Recovering(p)'
        BY <4>1
      <4>5. Recovering(tasks[c].parent)'
        BY <3>2, <4>4 DEF Recovering
      <4>6. Assigning(tasks[tasks[c].parent], tasks[c])'
        BY <3>1, <3>2, <3>4, <4>2, <4>3 DEF Assigning
      <4>. QED BY <4>5, <4>6
    <3>. QED BY <2>2, <3>1, <3>3, <3>4 DEF TeamInv, ParentsParked
  <2>. QED BY <1>2, <2>2 DEF ParentsParked
<1>. QED BY <1>2, <1>3, <1>4 DEF TeamInv

LEMMA StartCycleKeeps ==
  ASSUME TeamInv, StartCycle
  PROVE TeamInv'
<1>1. /\ rem' = rem /\ prs' = prs /\ pushed' = pushed
      /\ verdicts' = verdicts /\ kills' = kills /\ cycle.pc = "idle"
      /\ tasks' = Requeued
      /\ cycle' = [pc |-> "recovery", task |-> 0, todo |-> <<>>, left |-> Stopped,
                   back |-> "idle", sha |-> 0]
  BY DEF StartCycle, github, Idle
<1>2. tasks \in Seq(Row) /\ Len(tasks) \in Nat
  BY DEF TeamInv, Shape
<1>3. ASSUME NEW u \in Ids
      PROVE \/ Requeued[u] = tasks[u] /\ tasks[u].status # "RUNNING"
            \/ /\ Requeued[u] \in Row /\ Revised(tasks[u], Requeued[u])
               /\ RowOK(Requeued[u], Len(prs), pushed, verdicts)
               /\ tasks[u].status = "RUNNING"
  <2>. DEFINE r == tasks[u]
              s == [r EXCEPT !.status = "RETRY", !.cuts = @ + 1,
                             !.error = IF @ = "none" THEN "restarted" ELSE @]
  <2>1. /\ r \in Row /\ RowOK(r, Len(prs), pushed, verdicts) /\ r.attempt \in Nat
        /\ r.cuts \in Nat /\ r.error \in Errors /\ MaxAttempts \in Nat
    BY ARow, TaskBoundsAssumption
  <2>2. Requeued[u] = IF r.status = "RUNNING" THEN s ELSE r
    BY DEF Requeued
  <2>3. CASE r.status = "RUNNING"
    <3>1. s \in Row
      <4>1. r.cuts + 1 \in Nat
        BY <2>1
      <4>2. "RETRY" \in Status /\ "restarted" \in Errors
        BY DEF Status, Active, Errors
      <4>3. (IF r.error = "none" THEN "restarted" ELSE r.error) \in Errors
        BY <2>1, <4>2
      <4>. QED BY <2>1, <4>1, <4>2, <4>3 DEF Row
    <3>2. /\ s.status = "RETRY" /\ s.cuts = r.cuts + 1 /\ s.attempt = r.attempt
          /\ s.error = IF r.error = "none" THEN "restarted" ELSE r.error
          /\ s.type = r.type /\ s.pr = r.pr /\ s.sha = r.sha /\ s.parent = r.parent
          /\ s.fingerprint = r.fingerprint /\ s.class = r.class
      BY <2>1 DEF Row
    <3>. HIDE DEF s
    <3>3. Revised(r, s)
      BY <3>2 DEF Revised
    <3>4. Spent(r)
      BY <2>1 DEF RowOK
    <3>5. External(s) <=> External(r)
      BY <3>2 DEF External
    <3>6. r.fingerprint # NoFingerprint \/ r.class \notin ExternalWaits
      BY <2>3, <3>4 DEF Spent
    <3>7. External(r) => r.fingerprint # NoFingerprint
      BY <3>6 DEF External
    <3>8. External(s) \/ s.attempt < MaxAttempts + s.cuts
      BY <2>1, <3>2, <3>4, <3>5 DEF Spent
    <3>9. External(s) \/ s.attempt <= MaxAttempts + s.cuts
      BY <2>1, <3>2, <3>8
    <3>10. s.fingerprint # NoFingerprint => s.class \in {s.fingerprint[1], "INTERNAL"}
      BY <2>3, <3>2, <3>4 DEF Spent
    <3>11. Spent(s)
      BY <3>2, <3>5, <3>6, <3>7, <3>8, <3>9, <3>10 DEF Spent
    <3>12. s.status # "WAITING_CI" /\ (s.error \in Told => r.error \in Told)
      BY <3>2 DEF Told
    <3>13. RowOK(s, Len(prs), pushed, verdicts)
      BY <2>1, <3>2, <3>11, <3>12 DEF RowOK
    <3>. QED BY <2>2, <2>3, <3>1, <3>3, <3>13
  <2>4. CASE r.status # "RUNNING"
    BY <2>2, <2>4
  <2>. QED BY <2>3, <2>4
<1>4. \A u \in Ids : Requeued[u] \in Row
  BY <1>3, ARow
<1>5. tasks' \in Seq(Row) /\ Len(tasks') = Len(tasks) /\ \A u \in Ids : tasks'[u] = Requeued[u]
  <2>1. Requeued \in [Ids -> Row]
    BY <1>4 DEF Requeued
  <2>. QED BY <1>1, <1>2, <2>1 DEF Ids
<1>6. \A u \in Ids : \/ tasks'[u] = tasks[u]
                     \/ /\ Revised(tasks[u], tasks'[u])
                        /\ RowOK(tasks'[u], Len(prs), pushed, verdicts)
                        /\ tasks[u].status \in Active
  BY <1>3, <1>5 DEF Active
<1>7. \A u \in Ids : tasks[u].status # "RUNNING" => tasks'[u] = tasks[u]
  BY <1>3, <1>5
<1>8. Stopped \subseteq Ids /\ Ids' = Ids /\ \A u \in Stopped : tasks'[u].status \in Halted
  BY <1>5, <1>7 DEF Stopped, Ids, Halted
<1>9. CycleShape'
  <2>1. Stopped \in SUBSET Nat
    BY <1>8 DEF Ids
  <2>. QED BY <1>1, <2>1 DEF CycleShape, Between
<1>10. Cycling'
  <2>1. /\ cycle'.pc = "recovery" /\ cycle'.left = Stopped /\ cycle'.task = 0
        /\ 0 \in 0 .. Len(tasks')
    BY <1>1, <1>2, <1>5
  <2>. QED BY <1>8, <2>1 DEF Cycling, AtRow, Mending
<1>11. \A t \in Ids : Recovering(t) /\ tasks[t].status \in {"STALE", "BLOCKED"} => Recovering(t)'
  <2>1. cycle'.pc = "recovery" /\ cycle'.left = Stopped
    BY <1>1
  <2>. QED BY <2>1 DEF Recovering, Stopped
<1>. QED BY <1>1, <1>5, <1>6, <1>7, <1>9, <1>10, <1>11, Swept

LEMMA RetireObsoleteKeeps ==
  ASSUME TeamInv, RetireObsolete
  PROVE TeamInv'
<1>1. /\ rem' = rem /\ prs' = prs /\ pushed' = pushed
      /\ verdicts' = verdicts /\ kills' = kills /\ cycle.pc = "recovery" /\ cycle.left = {}
      /\ tasks' = [t \in Ids |-> IF Obsolete(t) THEN Retired(t) ELSE tasks[t]]
      /\ cycle' = [pc |-> "handoffs", task |-> 0, todo |-> <<>>, left |-> HandoffCandidates,
                   back |-> "idle", sha |-> 0]
  BY DEF RetireObsolete, github, Idle
<1>2. tasks \in Seq(Row) /\ Len(tasks) \in Nat
  BY DEF TeamInv, Shape
<1>3. ASSUME NEW u \in Ids
      PROVE \/ tasks'[u] = tasks[u] /\ tasks[u] \in Row
            \/ /\ tasks'[u] \in Row /\ Revised(tasks[u], tasks'[u])
               /\ RowOK(tasks'[u], Len(prs), pushed, verdicts)
               /\ tasks[u].status \in Active
  <2>1. /\ Retired(u) \in Row /\ Same(tasks[u], Retired(u)) /\ tasks[u] \in Row
        /\ RowOK(Retired(u), Len(prs), pushed, verdicts)
    BY RetiredRow, ARow
  <2>2. Revised(tasks[u], Retired(u))
    BY <2>1, SameRevised
  <2>3. Obsolete(u) => tasks[u].status \in Active
    BY DEF Obsolete
  <2>4. tasks'[u] = IF Obsolete(u) THEN Retired(u) ELSE tasks[u]
    BY <1>1
  <2>. QED BY <2>1, <2>2, <2>3, <2>4
<1>4. \A u \in Ids : tasks'[u] \in Row
  BY <1>3
<1>5. tasks' \in Seq(Row) /\ Len(tasks') = Len(tasks)
  <2>1. tasks' = [t \in Ids |-> tasks'[t]]
    BY <1>1
  <2>2. tasks' \in [Ids -> Row]
    BY <1>4, <2>1
  <2>. QED BY <1>2, <2>2 DEF Ids
<1>6. \A u \in Ids : tasks[u].status \notin Active => tasks'[u] = tasks[u]
  BY <1>3
<1>7. /\ HandoffCandidates \subseteq Ids /\ Ids' = Ids
      /\ \A u \in HandoffCandidates : Candidate(tasks[u])'
  <2>1. ASSUME NEW u \in HandoffCandidates
        PROVE u \in Ids /\ Candidate(tasks[u])'
    <3>1. u \in Ids /\ tasks[u].status = "DONE"
      BY DEF HandoffCandidates
    <3>2. \/ Coded(tasks[u]) /\ tasks[u].pr # 0 /\ tasks[u].error = "none"
          \/ tasks[u].type = "REVIEW" /\ tasks[u].error \in Told
      BY DEF HandoffCandidates, Coded, Told
    <3>3. RowOK(tasks[u], Len(prs), pushed, verdicts)
      BY <3>1, ARow
    <3>4. Candidate(tasks[u])
      BY <3>1, <3>2, <3>3 DEF Candidate, Decided, RowOK, Told
    <3>5. tasks'[u] = tasks[u]
      BY <1>6, <3>1 DEF Active
    <3>. QED BY <1>1, <3>1, <3>4, <3>5 DEF Candidate, Decided
  <2>2. Ids' = Ids
    BY <1>5 DEF Ids
  <2>. QED BY <2>1, <2>2
<1>8. CycleShape'
  <2>1. HandoffCandidates \in SUBSET Nat
    BY <1>7 DEF Ids
  <2>. QED BY <1>1, <2>1 DEF CycleShape, Between
<1>9. Cycling'
  <2>1. cycle'.pc = "handoffs" /\ cycle'.left = HandoffCandidates /\ cycle'.task = 0
    BY <1>1
  <2>2. 0 \in 0 .. Len(tasks')
    BY <1>2, <1>5
  <2>. QED BY <1>7, <2>1, <2>2 DEF Cycling, AtRow, Mending
<1>10. \A t \in Ids : ~Recovering(t)
  BY <1>1 DEF Recovering
<1>. QED BY <1>1, <1>3, <1>5, <1>8, <1>9, <1>10, Swept

-----------------------------------------------------------------------------
(* The recovery.                                                           *)

Parkings == {"BLOCKED", "WAITING_RATE_LIMIT", "WAITING_EVIDENCE_WINDOW", "WAITING_DEPENDENCY",
             "RECOVERY_PENDING", "QUARANTINED"}

LEMMA ParkedRow ==
  ASSUME TeamInv, NEW t \in Ids, tasks[t].status \in Halted, NEW status \in Parkings,
         status \in Runnable => ClassOf(tasks[t]) \in ExternalWaits,
         tasks' = Parked(t, status, ClassOf(tasks[t]), Fingerprint(tasks[t], ClassOf(tasks[t])))
  PROVE \E s \in Row :
            /\ tasks' = [tasks EXCEPT ![t] = s]
            /\ Revised(tasks[t], s) /\ RowOK(s, Len(prs), pushed, verdicts)
            /\ s.status = IF status = "BLOCKED" THEN tasks[t].status ELSE status
<1>1. PICK r \in Row : r = tasks[t]
  BY ARow
<1>2. PICK k \in Classes \ {"none"} : k = ClassOf(r) /\ (r.class # "none" => k = r.class)
  <2>1. r.error \in Errors
    BY <1>1, ARow
  <2>. QED BY <2>1, ClassFacts DEF ClassOf
<1>3. PICK f \in Prints \ {NoFingerprint} :
        /\ f = Fingerprint(r, k)
        /\ r.fingerprint = NoFingerprint => f[1] = k /\ f[4] = r.type
        /\ r.fingerprint # NoFingerprint => f = r.fingerprint
  BY PrintFacts
<1>. DEFINE s == [r EXCEPT !.status = IF status = "BLOCKED" THEN @ ELSE status,
                           !.class = k, !.fingerprint = f]
<1>4. /\ RowOK(r, Len(prs), pushed, verdicts) /\ tasks \in Seq(Row) /\ r.status \in Halted
      /\ r.status \in Status
  BY <1>1, ARow
<1>5. s \in Row
  <2>1. (IF status = "BLOCKED" THEN r.status ELSE status) \in Status
    BY <1>4 DEF Status, Active, Parkings
  <2>. QED BY <2>1 DEF Row
<1>6. tasks' = [tasks EXCEPT ![t] = s]
  BY <1>1, <1>2, <1>3, <1>4 DEF Parked
<1>7. /\ s.status = (IF status = "BLOCKED" THEN r.status ELSE status)
      /\ s.class = k /\ s.fingerprint = f /\ s.error = r.error /\ s.attempt = r.attempt
      /\ s.cuts = r.cuts /\ s.type = r.type /\ s.parent = r.parent /\ s.sha = r.sha /\ s.pr = r.pr
  BY DEF Row
<1>. HIDE DEF s
<1>8. Revised(r, s)
  BY <1>3, <1>7 DEF Revised
<1>9. Spent(r) /\ ~(r.class = "none" /\ r.status = "DONE")
  BY <1>4 DEF RowOK, Halted
<1>10. s.fingerprint # NoFingerprint /\ s.class \in {s.fingerprint[1], "INTERNAL"}
  <2>1. CASE r.fingerprint = NoFingerprint
    BY <1>3, <1>7, <2>1
  <2>2. CASE r.fingerprint # NoFingerprint
    <3>1. r.class \in {r.fingerprint[1], "INTERNAL"}
      BY <1>9, <2>2 DEF Spent
    <3>2. r.fingerprint[1] # "none"
      BY <2>2 DEF Row, Prints
    <3>. QED BY <1>2, <1>3, <1>7, <2>2, <3>1, <3>2
  <2>. QED BY <2>1, <2>2
<1>11. External(s) <=> s.fingerprint[1] \in ExternalWaits
  BY <1>10 DEF External
<1>12. s.attempt <= MaxAttempts + s.cuts \/ External(s)
  <2>1. CASE r.fingerprint = NoFingerprint
    BY <1>7, <1>9, <2>1 DEF Spent
  <2>2. CASE r.fingerprint # NoFingerprint
    <3>1. External(s) <=> External(r)
      BY <1>3, <1>7, <1>11, <2>2 DEF External
    <3>. QED BY <1>7, <1>9, <2>2, <3>1 DEF Spent
  <2>. QED BY <2>1, <2>2
<1>13. s.status \in Runnable => External(s)
  <2>1. r.status \notin Runnable /\ "INTERNAL" \notin ExternalWaits
    BY <1>4 DEF Runnable, Halted, ExternalWaits
  <2>2. s.status \in Runnable => k \in ExternalWaits
    BY <1>1, <1>2, <1>7, <2>1
  <2>. QED BY <1>7, <1>10, <1>11, <2>1, <2>2
<1>14. Spent(s)
  BY <1>10, <1>12, <1>13 DEF Spent
<1>15. s.status # "WAITING_CI"
  BY <1>4, <1>7 DEF Halted, Parkings
<1>16. RowOK(s, Len(prs), pushed, verdicts)
  <2>1. s.type = "REVIEW" /\ s.fingerprint # NoFingerprint => s.fingerprint[4] = "REVIEW"
    BY <1>3, <1>4, <1>7 DEF RowOK
  <2>. QED BY <1>4, <1>7, <1>14, <1>15, <2>1 DEF RowOK
<1>. QED BY <1>1, <1>2, <1>3, <1>5, <1>6, <1>7, <1>8, <1>16

LEMMA ParkingKeeps ==
  ASSUME TeamInv, cycle.pc \in {"recovery", "park"}, NEW t \in cycle.left, NEW status \in Parkings,
         status \in Runnable => ClassOf(tasks[t]) \in ExternalWaits,
         tasks' = Parked(t, status, ClassOf(tasks[t]), Fingerprint(tasks[t], ClassOf(tasks[t]))),
         rem' = rem, prs' = prs, pushed' = pushed, verdicts' = verdicts, kills' = kills,
         CycleShape', cycle'.pc = "recovery", cycle'.left = cycle.left \ {t},
         cycle'.task = cycle.task,
         \A c \in Ids : /\ Recovers(c) /\ tasks[c].parent = t
                        /\ Assigning(tasks[t], tasks[c])
                        => status = "RECOVERY_PENDING"
  PROVE TeamInv'
<1>1. /\ t \in Ids /\ tasks[t].status \in Halted /\ tasks \in Seq(Row) /\ Len(tasks) \in Nat
      /\ cycle.left \subseteq Ids /\ \A u \in cycle.left : tasks[u].status \in Halted
      /\ cycle.task \in 0 .. Len(tasks)
  BY DEF TeamInv, Cycling, Shape
<1>2. PICK s \in Row :
            /\ tasks' = [tasks EXCEPT ![t] = s]
            /\ Revised(tasks[t], s) /\ RowOK(s, Len(prs), pushed, verdicts)
            /\ s.status = IF status = "BLOCKED" THEN tasks[t].status ELSE status
  BY <1>1, ParkedRow
<1>3. /\ tasks' \in Seq(Row) /\ Len(tasks') = Len(tasks) /\ tasks'[t] = s
      /\ \A u \in Ids : u # t => tasks'[u] = tasks[u]
  BY <1>1, <1>2, Patched
<1>4. \A u \in Ids : \/ tasks'[u] = tasks[u]
                     \/ /\ Revised(tasks[u], tasks'[u])
                        /\ RowOK(tasks'[u], Len(prs'), pushed', verdicts')
  BY <1>2, <1>3
<1>5. Len(prs) <= Len(prs') /\ pushed <= pushed' /\ prs' \in Seq(Pull) /\ pushed' \in Nat
  BY DEF TeamInv, Shape
<1>6. /\ Ids' = Ids /\ Rows' /\ Signed' /\ OneChildPerHandoff' /\ RepairsBounded'
      /\ \A c \in Ids : Recovers(c)' <=> Recovers(c)
  BY <1>3, <1>4, <1>5, Revision
<1>7. Shape' /\ RemediationShape' /\ Pulls'
  BY <1>3, PullsKept DEF TeamInv, Shape, RemediationShape
<1>8. Cycling'
  <2>1. \A u \in cycle'.left : u \in Ids /\ tasks'[u].status \in Halted
    BY <1>1, <1>3
  <2>. QED BY <1>1, <1>3, <1>6, <2>1 DEF Cycling, AtRow, Mending
<1>9. ParentsParked'
  <2>1. ASSUME NEW c \in Ids, Recovers(c)
        PROVE \/ tasks'[tasks'[c].parent].status = "RECOVERY_PENDING"
              \/ (Recovering(tasks[c].parent) /\ Assigning(tasks[tasks[c].parent], tasks[c]))'
    <3>1. PICK p \in Ids : p = tasks[c].parent
      BY <2>1 DEF Recovers, TeamInv, Rows, Ids
    <3>2. tasks'[c].parent = p
      BY <1>2, <1>3, <3>1 DEF Revised
    <3>3. \/ tasks[p].status = "RECOVERY_PENDING"
          \/ Recovering(p) /\ Assigning(tasks[p], tasks[c])
      BY <2>1, <3>1 DEF TeamInv, ParentsParked
    <3>4. CASE tasks[p].status = "RECOVERY_PENDING"
      <4>1. p # t
        BY <1>1, <3>4 DEF Halted
      <4>. QED BY <1>3, <3>2, <3>4, <4>1
    <3>5. CASE Recovering(p) /\ Assigning(tasks[p], tasks[c])
      <4>1. CASE p = t
        <5>1. status = "RECOVERY_PENDING"
          BY <2>1, <3>1, <3>5, <4>1
        <5>. QED BY <1>2, <1>3, <3>2, <4>1, <5>1
      <4>2. CASE p # t
        <5>1. tasks[c].status = "PENDING"
          BY <3>5 DEF Assigning
        <5>2. c # t
          BY <1>1, <5>1 DEF Halted
        <5>3. tasks'[c] = tasks[c] /\ tasks'[p] = tasks[p]
          BY <1>3, <4>2, <5>2
        <5>4. Recovering(tasks[c].parent)'
          BY <3>2, <3>5, <4>2 DEF Recovering
        <5>5. Assigning(tasks[tasks[c].parent], tasks[c])'
          BY <3>1, <3>2, <3>5, <5>3 DEF Assigning
        <5>. QED BY <5>4, <5>5
      <4>. QED BY <4>1, <4>2
    <3>. QED BY <3>3, <3>4, <3>5
  <2>. QED BY <1>6, <2>1 DEF ParentsParked
<1>. QED BY <1>3, <1>6, <1>7, <1>8, <1>9 DEF TeamInv

LEMMA ParkKeeps ==
  ASSUME TeamInv, Park
  PROVE TeamInv'
<1>. DEFINE t == cycle.task
<1>1. /\ cycle.pc = "park" /\ t \in cycle.left /\ CycleShape
      /\ rem' = rem /\ prs' = prs /\ pushed' = pushed /\ verdicts' = verdicts /\ kills' = kills
      /\ cycle' = [cycle EXCEPT !.pc = "recovery", !.left = @ \ {t}]
      /\ tasks' = Parked(t, "RECOVERY_PENDING", ClassOf(tasks[t]),
                         Fingerprint(tasks[t], ClassOf(tasks[t])))
  BY DEF Park, github, TeamInv, Cycling, ClassOf
<1>2. /\ cycle'.pc = "recovery" /\ cycle'.left = cycle.left \ {t} /\ cycle'.task = cycle.task
      /\ CycleShape'
  BY <1>1 DEF CycleShape, Between
<1>3. "RECOVERY_PENDING" \in Parkings /\ "RECOVERY_PENDING" \notin Runnable
  BY DEF Parkings, Runnable
<1>. QED BY <1>1, <1>2, <1>3, ParkingKeeps

LEMMA DeadKeeps ==
  ASSUME TeamInv, cycle.pc = "recovery", NEW t \in cycle.left, tasks[t].status = "QUARANTINED",
         tasks' = tasks, cycle' = [cycle EXCEPT !.left = @ \ {t}],
         rem' = rem, prs' = prs, pushed' = pushed, verdicts' = verdicts, kills' = kills
  PROVE TeamInv'
<1>1. /\ tasks \in Seq(Row) /\ prs \in Seq(Pull) /\ pushed \in Nat /\ Len(prs) \in Nat
      /\ cycle.left \subseteq Ids /\ \A u \in cycle.left : tasks[u].status \in Halted
      /\ cycle.task \in 0 .. Len(tasks) /\ CycleShape
  BY DEF TeamInv, Cycling, Shape
<1>2. /\ cycle'.pc = "recovery" /\ cycle'.left = cycle.left \ {t} /\ cycle'.task = cycle.task
      /\ CycleShape'
  BY <1>1 DEF CycleShape
<1>3. /\ Ids' = Ids /\ Rows' /\ Signed' /\ OneChildPerHandoff' /\ RepairsBounded'
      /\ \A c \in Ids : Recovers(c)' <=> Recovers(c)
  <2>1. Len(tasks') = Len(tasks) /\ tasks' \in Seq(Row) /\ Len(prs) <= Len(prs')
        /\ pushed <= pushed' /\ prs' \in Seq(Pull) /\ pushed' \in Nat
        /\ \A u \in Ids : tasks'[u] = tasks[u]
    BY <1>1
  <2>. QED BY <2>1, Revision
<1>4. Shape' /\ RemediationShape' /\ Pulls'
  BY PullsKept DEF TeamInv, Shape, RemediationShape
<1>5. Cycling'
  BY <1>1, <1>2, <1>3 DEF Cycling, AtRow, Mending
<1>6. ParentsParked'
  <2>1. ASSUME NEW c \in Ids, Recovers(c)
        PROVE \/ tasks'[tasks'[c].parent].status = "RECOVERY_PENDING"
              \/ (Recovering(tasks[c].parent) /\ Assigning(tasks[tasks[c].parent], tasks[c]))'
    <3>1. PICK p \in Ids : p = tasks[c].parent
      BY <2>1 DEF Recovers, TeamInv, Rows, Ids
    <3>2. \/ tasks[p].status = "RECOVERY_PENDING"
          \/ Recovering(p) /\ Assigning(tasks[p], tasks[c])
      BY <2>1, <3>1 DEF TeamInv, ParentsParked
    <3>3. CASE Recovering(p) /\ Assigning(tasks[p], tasks[c])
      <4>1. p # t
        BY <3>3 DEF Assigning
      <4>2. Recovering(tasks[c].parent)'
        BY <1>2, <3>1, <3>3, <4>1 DEF Recovering
      <4>3. Assigning(tasks[tasks[c].parent], tasks[c])'
        BY <3>1, <3>3 DEF Assigning
      <4>. QED BY <4>2, <4>3
    <3>. QED BY <3>1, <3>2, <3>3
  <2>. QED BY <1>3, <2>1 DEF ParentsParked
<1>. QED BY <1>2, <1>3, <1>4, <1>5, <1>6 DEF TeamInv

(* What the recovery decides on a stopped row.                             *)
LEMMA Verdicts ==
  ASSUME NEW t, NEW k, NEW f, tasks[t].status # "QUARANTINED", NEW what, what = Verdict(t, k, f)
  PROVE /\ what \in Parkings \cup {"repair"}
        /\ what \in Runnable => k \in ExternalWaits
        /\ k \notin Waits /\ ActiveRecovery(t, f) => what = "RECOVERY_PENDING"
        /\ what = "repair" => /\ k \notin Waits /\ ~ActiveRecovery(t, f)
                              /\ ~(RecoveryAttempts(f) + 1 > MaxRecovery)
<1>1. CASE k \in Waits
  <2>1. what = IF k = "OWNER_AUTH_REQUIRED" THEN "BLOCKED"
               ELSE IF k = "PROVIDER/RATE_LIMIT_WAIT" THEN "WAITING_RATE_LIMIT"
               ELSE IF k = "EVIDENCE_WINDOW_WAIT" THEN "WAITING_EVIDENCE_WINDOW"
               ELSE "WAITING_DEPENDENCY"
    BY <1>1 DEF Verdict, Waits
  <2>. QED BY <1>1, <2>1 DEF Waits, Parkings, Runnable, ExternalWaits
<1>2. CASE k \notin Waits
  <2>1. what = IF ActiveRecovery(t, f) THEN "RECOVERY_PENDING"
               ELSE IF RecoveryAttempts(f) + 1 > MaxRecovery THEN "QUARANTINED" ELSE "repair"
    BY <1>2 DEF Verdict, Waits
  <2>. QED BY <1>2, <2>1 DEF Parkings, Runnable
<1>. QED BY <1>1, <1>2

(* The repair that the recovery assigns: the row it adds.                  *)
RepairFor(t, k, f) ==
    [NewTask("REPAIR", tasks[t].pr, tasks[t].sha, t) EXCEPT !.class = k, !.fingerprint = f]

LEMMA AssignedRow ==
  ASSUME TeamInv, NEW t \in Ids, tasks[t].status \in Halted,
         NEW k, k = ClassOf(tasks[t]), NEW f, f = Fingerprint(tasks[t], k),
         tasks' = Append(tasks, RepairFor(t, k, f))
  PROVE \E s \in Row :
          /\ tasks' = Append(tasks, s)
          /\ RowOK(s, Len(prs), pushed, verdicts)
          /\ s.type = "REPAIR" /\ s.parent = t /\ s.fingerprint = f /\ s.status = "PENDING"
          /\ f \in Prints /\ f # NoFingerprint
          /\ tasks[t].type = "REVIEW" => f[4] = "REVIEW"
<1>1. PICK r \in Row : r = tasks[t]
  BY ARow
<1>2. k \in Classes \ {"none"} /\ (r.class # "none" => k = r.class)
  <2>1. r.error \in Errors
    BY <1>1, ARow
  <2>. QED BY <1>1, <2>1, ClassFacts DEF ClassOf
<1>3. /\ f \in Prints \ {NoFingerprint}
      /\ r.fingerprint = NoFingerprint => f[1] = k /\ f[4] = r.type
      /\ r.fingerprint # NoFingerprint => f = r.fingerprint
  BY <1>1, <1>2, PrintFacts
<1>4. /\ RowOK(r, Len(prs), pushed, verdicts) /\ r.status \in Halted /\ t \in Nat
      /\ r.pr \in Nat /\ r.sha \in Nat
  <2>1. RowOK(tasks[t], Len(prs), pushed, verdicts) /\ tasks[t].pr \in Nat /\ tasks[t].sha \in Nat
    BY ARow
  <2>2. t \in Nat
    BY DEF Ids
  <2>. QED BY <1>1, <2>1, <2>2
<1>. DEFINE m == NewTask("REPAIR", r.pr, r.sha, t)
            s == [m EXCEPT !.class = k, !.fingerprint = f]
<1>5. m \in Row
  BY <1>4, NewTaskTyped DEF Types
<1>6. s \in Row /\ tasks' = Append(tasks, s)
  BY <1>1, <1>2, <1>3, <1>5 DEF Row, RepairFor
<1>7. /\ s.type = "REPAIR" /\ s.parent = t /\ s.pr = r.pr /\ s.sha = r.sha /\ s.attempt = 0
      /\ s.status = "PENDING" /\ s.error = "none" /\ s.class = k /\ s.fingerprint = f /\ s.cuts = 0
  BY DEF NewTask
<1>. HIDE DEF s
<1>8. k \in {f[1], "INTERNAL"}
  <2>1. CASE r.fingerprint = NoFingerprint
    BY <1>3, <2>1
  <2>2. CASE r.fingerprint # NoFingerprint
    <3>1. r.class \in {r.fingerprint[1], "INTERNAL"}
      BY <1>4, <2>2 DEF RowOK, Spent, Halted
    <3>2. r.fingerprint[1] # "none"
      BY <2>2 DEF Row, Prints
    <3>. QED BY <1>2, <1>3, <2>2, <3>1, <3>2
  <2>. QED BY <2>1, <2>2
<1>9. s.attempt < MaxAttempts + s.cuts /\ s.attempt <= MaxAttempts + s.cuts
  BY <1>7, TaskBoundsAssumption
<1>10. Spent(s)
  BY <1>3, <1>7, <1>8, <1>9 DEF Spent
<1>11. RowOK(s, Len(prs), pushed, verdicts)
  BY <1>4, <1>7, <1>10 DEF RowOK, Told
<1>12. r.type = "REVIEW" => f[4] = "REVIEW"
  BY <1>3, <1>4 DEF RowOK
<1>. QED BY <1>1, <1>3, <1>6, <1>7, <1>11, <1>12

LEMMA FinitelyMany ==
  ASSUME TeamInv
  PROVE IsFiniteSet(Ids)
BY FS_Interval DEF Ids, TeamInv, Shape

(* One more repair is within the budget that recovery_attempts leaves.     *)
LEMMA OneMoreRepair ==
  ASSUME TeamInv, NEW f, RecoveryAttempts(f) + 1 <= MaxRecovery, NEW n \in Nat
  PROVE Cardinality(Repairs(f) \cup {n}) <= MaxRecovery
<1>. DEFINE counted == {c \in Ids : tasks[c].fingerprint = f /\ tasks[c].parent # 0}
<1>1. IsFiniteSet(Ids)
  BY FinitelyMany
<1>2. counted \subseteq Ids /\ Repairs(f) \subseteq counted
  BY DEF Repairs, Recovers
<1>3. /\ IsFiniteSet(counted) /\ IsFiniteSet(Repairs(f))
      /\ Cardinality(Repairs(f)) <= Cardinality(counted)
  BY <1>1, <1>2, FS_Subset
<1>4. Cardinality(counted) = RecoveryAttempts(f)
  BY DEF RecoveryAttempts
<1>5. /\ Cardinality(Repairs(f)) \in Nat /\ Cardinality(counted) \in Nat
      /\ Cardinality(Repairs(f) \cup {n}) \in {Cardinality(Repairs(f)), Cardinality(Repairs(f)) + 1}
  BY <1>3, FS_CardinalityType, FS_AddElement
<1>6. MaxRecovery \in Nat
  BY TaskBoundsAssumption
<1>. HIDE DEF counted
<1>. QED BY <1>3, <1>4, <1>5, <1>6

LEMMA AssignKeeps ==
  ASSUME TeamInv, cycle.pc = "recovery", NEW t \in cycle.left, tasks[t].status # "QUARANTINED",
         NEW k, k = ClassOf(tasks[t]), NEW f, f = Fingerprint(tasks[t], k),
         k \notin Waits, ~ActiveRecovery(t, f), ~(RecoveryAttempts(f) + 1 > MaxRecovery),
         Len(tasks) < MaxTasks,
         tasks' = Append(tasks, RepairFor(t, k, f)),
         cycle' = [cycle EXCEPT !.pc = "park", !.task = t],
         rem' = rem, prs' = prs, pushed' = pushed, verdicts' = verdicts, kills' = kills
  PROVE TeamInv'
<1>1. /\ tasks \in Seq(Row) /\ Len(tasks) \in Nat /\ MaxTasks \in Nat
      /\ cycle.left \subseteq Ids /\ \A u \in cycle.left : tasks[u].status \in Halted
      /\ t \in Ids /\ CycleShape /\ t \in Nat /\ t # 0
  BY TaskBoundsAssumption DEF TeamInv, Cycling, Shape, Ids
<1>2. PICK s \in Row :
          /\ tasks' = Append(tasks, s)
          /\ RowOK(s, Len(prs), pushed, verdicts)
          /\ s.type = "REPAIR" /\ s.parent = t /\ s.fingerprint = f /\ s.status = "PENDING"
          /\ f \in Prints /\ f # NoFingerprint
          /\ tasks[t].type = "REVIEW" => f[4] = "REVIEW"
  BY <1>1, AssignedRow
<1>n. PICK n \in Nat : n = Len(tasks) + 1
  BY <1>1
<1>3. /\ tasks' \in Seq(Row) /\ Len(tasks') = n /\ tasks'[n] = s
      /\ \A u \in Ids : tasks'[u] = tasks[u]
  BY <1>1, <1>2, <1>n, Grown
<1>4. /\ Ids' = Ids \cup {n} /\ n \notin Ids
      /\ \A u \in Ids : u \in Nat /\ u < n
      /\ Len(tasks') \in 1 .. MaxTasks
  BY <1>1, <1>3, <1>n DEF Ids
<1>5. \A u \in Ids : tasks[u].parent # 0 => tasks[u].parent \in Ids
  BY DEF TeamInv, Rows, Ids
<1>6. /\ cycle'.pc = "park" /\ cycle'.left = cycle.left /\ cycle'.task = t
      /\ cycle' \in [pc : Between \cup AtRow, task : Nat, todo : Seq(BlockerClass),
                     left : SUBSET Nat, back : {"idle", "handoffs", "created"}, sha : Nat]
  BY <1>1 DEF CycleShape, AtRow
<1>7. Rows'
  <2>1. ASSUME NEW u \in Ids
        PROVE tasks'[u].parent \in 0 .. u - 1 /\ RowOK(tasks'[u], Len(prs'), pushed', verdicts')
    BY <1>3 DEF TeamInv, Rows
  <2>2. s.parent \in 0 .. n - 1
    BY <1>1, <1>2, <1>4, <1>n
  <2>. QED BY <1>2, <1>3, <1>4, <2>1, <2>2 DEF Rows
<1>8. /\ \A c \in Ids : Recovers(c)' <=> Recovers(c)
      /\ Recovers(n)' /\ (tasks[t].type = "REVIEW" => RecoversReview(n)')
  <2>1. ASSUME NEW c \in Ids PROVE Recovers(c)' <=> Recovers(c)
    <3>1. tasks'[c] = tasks[c]
      BY <1>3
    <3>2. tasks[c].parent # 0 => tasks'[tasks[c].parent] = tasks[tasks[c].parent]
      BY <1>3, <1>5
    <3>. QED BY <3>1, <3>2 DEF Recovers, RecoversReview
  <2>2. tasks'[n] = s /\ tasks'[t] = tasks[t]
    BY <1>1, <1>3
  <2>3. tasks[t].type = "REVIEW" => RecoversReview(n)'
    BY <1>2, <2>2 DEF RecoversReview
  <2>4. Recovers(n)'
    BY <1>1, <1>2, <2>2, <2>3 DEF Recovers
  <2>. QED BY <2>1, <2>3, <2>4
<1>9. Signed'
  BY <1>2, <1>3, <1>4, <1>8 DEF TeamInv, Signed
<1>10. RepairsBounded'
  <2>1. ASSUME NEW g \in Prints PROVE Repairs(g)' = IF g = f THEN Repairs(f) \cup {n} ELSE Repairs(g)
    <3>1. ASSUME NEW c \in Ids PROVE c \in Repairs(g)' <=> c \in Repairs(g)
      BY <1>3, <1>4, <1>8 DEF Repairs
    <3>2. n \in Repairs(g)' <=> g = f
      BY <1>2, <1>3, <1>4, <1>8 DEF Repairs
    <3>3. Repairs(g)' \subseteq Ids \cup {n} /\ Repairs(g) \subseteq Ids
      BY <1>4 DEF Repairs
    <3>4. CASE g = f
      <4>1. Repairs(g)' = Repairs(g) \cup {n}
        BY <3>1, <3>2, <3>3, <3>4
      <4>. QED BY <3>4, <4>1
    <3>5. CASE g # f
      <4>1. Repairs(g)' = Repairs(g)
        BY <3>1, <3>2, <3>3, <3>5
      <4>. QED BY <3>5, <4>1
    <3>. QED BY <3>4, <3>5
  <2>2. Cardinality(Repairs(f) \cup {n}) <= MaxRecovery
    <3>1. RecoveryAttempts(f) \in Nat
      <4>1. IsFiniteSet(Ids)
        BY FinitelyMany
      <4>2. IsFiniteSet({c \in Ids : tasks[c].fingerprint = f /\ tasks[c].parent # 0})
        BY <4>1, FS_Subset, Zenon
      <4>. QED BY <4>2, FS_CardinalityType DEF RecoveryAttempts
    <3>2. RecoveryAttempts(f) + 1 <= MaxRecovery
      BY <3>1, TaskBoundsAssumption
    <3>. QED BY <3>2, OneMoreRepair
  <2>. QED BY <2>1, <2>2 DEF TeamInv, RepairsBounded
<1>11. ParentsParked'
  <2>1. ASSUME NEW c \in Ids, Recovers(c)
        PROVE \/ tasks'[tasks'[c].parent].status = "RECOVERY_PENDING"
              \/ (Recovering(tasks[c].parent) /\ Assigning(tasks[tasks[c].parent], tasks[c]))'
    <3>1. PICK p \in Ids : p = tasks[c].parent
      BY <1>5, <2>1 DEF Recovers
    <3>2. tasks'[c] = tasks[c] /\ tasks'[p] = tasks[p]
      BY <1>3
    <3>3. \/ tasks[p].status = "RECOVERY_PENDING"
          \/ Recovering(p) /\ Assigning(tasks[p], tasks[c])
      BY <2>1, <3>1 DEF TeamInv, ParentsParked
    <3>4. CASE Recovering(p) /\ Assigning(tasks[p], tasks[c])
      <4>1. Recovering(tasks[c].parent)'
        BY <1>6, <3>1, <3>2, <3>4 DEF Recovering
      <4>2. Assigning(tasks[tasks[c].parent], tasks[c])'
        BY <3>1, <3>2, <3>4 DEF Assigning
      <4>. QED BY <4>1, <4>2
    <3>. QED BY <3>1, <3>2, <3>3, <3>4
  <2>2. (Recovering(tasks[n].parent) /\ Assigning(tasks[tasks[n].parent], tasks[n]))'
    <3>1. tasks'[n] = s /\ tasks'[t] = tasks[t] /\ s.parent = t
      BY <1>1, <1>2, <1>3
    <3>2. tasks[t].status \in {"STALE", "BLOCKED"}
      BY <1>1 DEF Halted
    <3>3. Recovering(tasks[n].parent)'
      BY <1>6, <3>1 DEF Recovering
    <3>4. Assigning(tasks[tasks[n].parent], tasks[n])'
      BY <1>2, <3>1, <3>2 DEF Assigning
    <3>. QED BY <3>3, <3>4
  <2>3. \A c \in Ids' : Recovers(c)' =>
            \/ tasks'[tasks'[c].parent].status = "RECOVERY_PENDING"
            \/ (Recovering(tasks[c].parent) /\ Assigning(tasks[tasks[c].parent], tasks[c]))'
    <3>1. \A c \in Ids : Recovers(c)' =>
            \/ tasks'[tasks'[c].parent].status = "RECOVERY_PENDING"
            \/ (Recovering(tasks[c].parent) /\ Assigning(tasks[tasks[c].parent], tasks[c]))'
      BY <1>8, <2>1
    <3>. QED BY <1>4, <2>2, <3>1
  <2>. QED BY <2>3 DEF ParentsParked
<1>12. OneChildPerHandoff'
  <2>1. ASSUME NEW u \in Ids, tasks[u].parent = t, tasks[u].type = "REPAIR"
        PROVE tasks[t].type = "REVIEW" /\ ~RecoversReview(u)
    <3>1. ~Recovers(u)
      <4>. SUFFICES ASSUME Recovers(u) PROVE FALSE
        OBVIOUS
      <4>1. Assigning(tasks[t], tasks[u])
        BY <1>1, <2>1 DEF TeamInv, ParentsParked, Halted
      <4>. QED BY <2>1, <4>1 DEF Assigning, ActiveRecovery
    <3>. QED BY <1>1, <2>1, <3>1 DEF Recovers
  <2>2. ASSUME NEW u \in Ids, tasks[u].parent = t, tasks[u].type = "REPAIR"
        PROVE /\ tasks[t].type = "REVIEW" /\ ~(RecoversReview(u)') /\ RecoversReview(n)'
    BY <1>3, <1>8, <2>1, <2>2 DEF RecoversReview
  <2>. SUFFICES ASSUME NEW a \in Ids', NEW b \in Ids', Siblings(a, b)'
                PROVE tasks'[tasks'[a].parent].type = "REVIEW" /\ WorkApart(a, b)'
    BY DEF OneChildPerHandoff
  <2>3. CASE a \in Ids /\ b \in Ids
    <3>1. tasks'[a] = tasks[a] /\ tasks'[b] = tasks[b]
      BY <1>3, <2>3
    <3>2. Siblings(a, b)
      BY <3>1 DEF Siblings
    <3>3. tasks[tasks[a].parent].type = "REVIEW" /\ WorkApart(a, b)
      BY <2>3, <3>2 DEF TeamInv, OneChildPerHandoff
    <3>4. tasks'[tasks[a].parent] = tasks[tasks[a].parent]
      BY <1>3, <1>5, <2>3, <3>2 DEF Siblings
    <3>. QED BY <3>1, <3>3, <3>4 DEF WorkApart, RecoversReview
  <2>4. CASE a = n /\ b \in Ids
    <3>1. tasks'[n] = s /\ tasks'[b] = tasks[b] /\ tasks'[t] = tasks[t]
      BY <1>1, <1>3, <2>4
    <3>2. tasks[b].parent = t /\ tasks[b].type = "REPAIR"
      BY <1>2, <2>4, <3>1 DEF Siblings
    <3>. QED BY <1>2, <2>2, <2>4, <3>1, <3>2 DEF WorkApart
  <2>5. CASE b = n /\ a \in Ids
    <3>1. tasks'[n] = s /\ tasks'[a] = tasks[a] /\ tasks'[t] = tasks[t]
      BY <1>1, <1>3, <2>5
    <3>2. tasks[a].parent = t /\ tasks[a].type = "REPAIR"
      BY <1>2, <2>5, <3>1 DEF Siblings
    <3>. QED BY <1>2, <2>2, <2>5, <3>1, <3>2 DEF WorkApart
  <2>6. a # b
    BY DEF Siblings
  <2>. QED BY <1>4, <2>3, <2>4, <2>5, <2>6
<1>13. Shape' /\ RemediationShape' /\ Pulls' /\ CycleShape'
  BY <1>3, <1>4, <1>6, PullsKept DEF TeamInv, Shape, RemediationShape, CycleShape
<1>14. Cycling'
  <2>1. /\ cycle'.left \subseteq Ids' /\ cycle'.task \in Ids' /\ cycle'.task \in cycle'.left
        /\ \A u \in cycle'.left : tasks'[u].status \in Halted
    BY <1>1, <1>3, <1>4, <1>6
  <2>2. cycle'.task \in 0 .. Len(tasks')
    BY <2>1 DEF Ids
  <2>3. Works(tasks[cycle.task])'
    BY <1>6 DEF Works
  <2>. QED BY <1>6, <2>1, <2>2, <2>3 DEF Cycling, AtRow, Mending
<1>. QED BY <1>7, <1>9, <1>10, <1>11, <1>12, <1>13, <1>14 DEF TeamInv

LEMMA RecoverKeeps ==
  ASSUME TeamInv, Recover
  PROVE TeamInv'
<1>1. /\ rem' = rem /\ prs' = prs /\ pushed' = pushed /\ verdicts' = verdicts /\ kills' = kills
      /\ cycle.pc = "recovery" /\ CycleShape
  BY DEF Recover, github, TeamInv
<1>2. PICK t \in cycle.left : LET class == ClassOf(tasks[t])
                                  f == Fingerprint(tasks[t], class)
                                  what == Verdict(t, class, f)
        IN  CASE what = "dead" ->
                   /\ cycle' = [cycle EXCEPT !.left = @ \ {t}]
                   /\ UNCHANGED tasks
              [] what = "repair" ->
                   /\ Len(tasks) < MaxTasks
                   /\ tasks' = Append(tasks,
                        [NewTask("REPAIR", tasks[t].pr, tasks[t].sha, t) EXCEPT
                           !.class = class, !.fingerprint = f])
                   /\ cycle' = [cycle EXCEPT !.pc = "park", !.task = t]
              [] OTHER ->
                   /\ tasks' = Parked(t, what, class, f)
                   /\ cycle' = [cycle EXCEPT !.left = @ \ {t}]
  BY DEF Recover, ClassOf
<1>. DEFINE k == ClassOf(tasks[t])
            f == Fingerprint(tasks[t], k)
            what == Verdict(t, k, f)
<1>3. CASE tasks[t].status = "QUARANTINED"
  <2>1. what = "dead"
    BY <1>3 DEF Verdict
  <2>2. cycle' = [cycle EXCEPT !.left = @ \ {t}] /\ tasks' = tasks
    BY <1>2, <2>1
  <2>. QED BY <1>1, <1>3, <2>2, DeadKeeps
<1>4. CASE tasks[t].status # "QUARANTINED"
  <2>1. /\ what \in Parkings \cup {"repair"}
        /\ what \in Runnable => k \in ExternalWaits
        /\ k \notin Waits /\ ActiveRecovery(t, f) => what = "RECOVERY_PENDING"
        /\ what = "repair" => /\ k \notin Waits /\ ~ActiveRecovery(t, f)
                              /\ ~(RecoveryAttempts(f) + 1 > MaxRecovery)
    BY <1>4, Verdicts
  <2>2. what # "dead"
    BY <2>1 DEF Parkings
  <2>3. CASE what = "repair"
    <3>1. /\ Len(tasks) < MaxTasks
          /\ tasks' = Append(tasks, RepairFor(t, k, f))
          /\ cycle' = [cycle EXCEPT !.pc = "park", !.task = t]
      BY <1>2, <2>3 DEF RepairFor
    <3>. HIDE DEF what, f, k
    <3>2. k = ClassOf(tasks[t]) /\ f = Fingerprint(tasks[t], k)
      BY DEF f, k
    <3>. QED BY <1>1, <1>4, <2>1, <2>3, <3>1, <3>2, AssignKeeps
  <2>4. CASE what # "repair"
    <3>1. tasks' = Parked(t, what, k, f) /\ cycle' = [cycle EXCEPT !.left = @ \ {t}]
      BY <1>2, <2>2, <2>4
    <3>2. /\ cycle'.pc = "recovery" /\ cycle'.left = cycle.left \ {t} /\ cycle'.task = cycle.task
          /\ CycleShape'
      BY <1>1, <3>1 DEF CycleShape
    <3>3. ASSUME NEW c \in Ids, tasks[c].parent = t, Assigning(tasks[t], tasks[c])
          PROVE what = "RECOVERY_PENDING"
      <4>1. k \notin Waits /\ tasks[c].fingerprint = f /\ tasks[c].status = "PENDING"
        BY <3>3 DEF Assigning
      <4>2. ActiveRecovery(t, f)
        BY <3>3, <4>1 DEF ActiveRecovery
      <4>. QED BY <2>1, <4>1, <4>2
    <3>4. what \in Parkings
      BY <2>1, <2>4
    <3>. HIDE DEF what
    <3>. QED BY <1>1, <2>1, <3>1, <3>2, <3>3, <3>4, ParkingKeeps
  <2>. QED BY <2>3, <2>4
<1>. QED BY <1>3, <1>4

-----------------------------------------------------------------------------
(* The invariant, and what follows from it.                                *)

LEMMA InitHolds ==
  ASSUME TasksInit
  PROVE TeamInv
<1>1. /\ rem = [f \in {} |-> "OBSERVED"] /\ verdicts = {} /\ kills = 0
      /\ cycle = [pc |-> "idle", task |-> 0, todo |-> <<>>, left |-> {}, back |-> "idle", sha |-> 0]
  BY DEF TasksInit, Idle
<1>2. PICK r \in Row :
        /\ tasks = <<r>> /\ r.parent = 0 /\ prs \in Seq(Pull) /\ pushed \in Nat
        /\ RowOK(r, Len(prs), pushed, verdicts)
        /\ Pulls
  <2>1. ASSUME NEW type \in Types, NEW pr \in 0 .. Len(prs), NEW sha \in 0 .. pushed,
               type = "REVIEW" => pr # 0, Len(prs) \in Nat, pushed \in Nat
        PROVE /\ NewTask(type, pr, sha, 0) \in Row
              /\ NewTask(type, pr, sha, 0).parent = 0
              /\ RowOK(NewTask(type, pr, sha, 0), Len(prs), pushed, verdicts)
    <3>. DEFINE r == NewTask(type, pr, sha, 0)
    <3>1. r \in Row
      BY <2>1, NewTaskTyped
    <3>2. /\ r.type = type /\ r.pr = pr /\ r.sha = sha /\ r.parent = 0 /\ r.attempt = 0
          /\ r.cuts = 0 /\ r.class = "none" /\ r.fingerprint = NoFingerprint
          /\ r.status = "PENDING" /\ r.error = "none"
      BY DEF NewTask
    <3>. HIDE DEF r
    <3>3. r.attempt < MaxAttempts + r.cuts /\ r.attempt <= MaxAttempts + r.cuts
      BY <3>2, TaskBoundsAssumption
    <3>4. Spent(r)
      BY <3>2, <3>3 DEF Spent, ExternalWaits
    <3>5. RowOK(r, Len(prs), pushed, verdicts)
      BY <2>1, <3>2, <3>4 DEF RowOK, Told
    <3>. QED BY <3>1, <3>2, <3>5 DEF r
  <2>2. PICK route \in Routes :
         IF route = "EXACT_SHA_REVIEW"
         THEN /\ tasks = <<NewTask("REVIEW", 1, 1, 0)>>
              /\ prs = <<[head |-> 1, state |-> "open", at |-> 0, by |-> 0]>>
              /\ pushed = 1
         ELSE /\ tasks = <<NewTask(route, 0, 0, 0)>>
              /\ prs = <<>>
              /\ pushed = 0
    BY DEF TasksInit
  <2>3. CASE route = "EXACT_SHA_REVIEW"
    <3>. DEFINE p == [head |-> 1, state |-> "open", at |-> 0, by |-> 0]
    <3>1. prs = <<p>> /\ pushed = 1 /\ tasks = <<NewTask("REVIEW", 1, 1, 0)>> /\ p \in Pull
      BY <2>2, <2>3 DEF Pull
    <3>2. prs \in Seq(Pull) /\ Len(prs) = 1 /\ DOMAIN prs = {1} /\ prs[1] = p
      BY <3>1
    <3>3. Pulls
      BY <3>1, <3>2 DEF Pulls
    <3>. QED BY <2>1, <3>1, <3>2, <3>3 DEF Types
  <2>4. CASE route # "EXACT_SHA_REVIEW"
    <3>1. prs = <<>> /\ pushed = 0 /\ tasks = <<NewTask(route, 0, 0, 0)>>
      BY <2>2, <2>4
    <3>2. route \in Types /\ route # "REVIEW"
      BY <2>4, RoutesAssumption DEF Types
    <3>3. prs \in Seq(Pull) /\ Len(prs) = 0 /\ DOMAIN prs = {}
      BY <3>1
    <3>4. Pulls
      BY <3>3 DEF Pulls
    <3>. QED BY <2>1, <3>1, <3>2, <3>3, <3>4
  <2>. QED BY <2>3, <2>4
<1>3. tasks \in Seq(Row) /\ Len(tasks) = 1 /\ Ids = {1} /\ tasks[1] = r
  BY <1>2 DEF Ids
<1>4. Shape /\ RemediationShape
  BY <1>1, <1>2, <1>3, TaskBoundsAssumption DEF Shape, RemediationShape
<1>5. CycleShape
  BY <1>1 DEF CycleShape, Between
<1>6. Rows
  BY <1>2, <1>3 DEF Rows
<1>7. Cycling
  BY <1>1, <1>3 DEF Cycling, AtRow, Mending
<1>8. \A c \in Ids : ~Recovers(c)
  BY <1>2, <1>3 DEF Recovers
<1>9. Signed /\ ParentsParked
  BY <1>8 DEF Signed, ParentsParked
<1>10. OneChildPerHandoff
  BY <1>3 DEF OneChildPerHandoff, Siblings
<1>11. RepairsBounded
  <2>1. \A f \in Prints : Repairs(f) = {}
    BY <1>8 DEF Repairs
  <2>. QED BY <2>1, FS_EmptySet, TaskBoundsAssumption DEF RepairsBounded
<1>. QED BY <1>2, <1>4, <1>5, <1>6, <1>7, <1>9, <1>10, <1>11 DEF TeamInv

LEMMA NextKeeps ==
  ASSUME TeamInv, TasksNext
  PROVE TeamInv'
<1>1. CASE StartCycle
  BY <1>1, StartCycleKeeps
<1>2. CASE Recover
  BY <1>2, RecoverKeeps
<1>3. CASE Park
  BY <1>3, ParkKeeps
<1>4. CASE RetireObsolete
  BY <1>4, RetireObsoleteKeeps
<1>5. CASE Handoff
  BY <1>5, HandoffKeeps
<1>6. CASE Pick
  BY <1>6, PickKeeps
<1>7. CASE NothingDue
  BY <1>7, NothingDueKeeps
<1>8. CASE PreflightFails
  BY <1>8, PreflightKeeps
<1>9. CASE Probe
  BY <1>9, ProbeKeeps
<1>10. CASE StartCodex
  BY <1>10, StartCodexKeeps
<1>11. CASE CodexStops
  BY <1>11, CodexStopsKeeps
<1>12. CASE PostprocessFails
  BY <1>12, PostprocessKeeps
<1>13. CASE CodexPushes
  BY <1>13, CodexPushesKeeps
<1>14. CASE CreatePr
  BY <1>14, CreatePrKeeps
<1>15. CASE FinishCodex
  BY <1>15, FinishCodexKeeps
<1>16. CASE EnqueueReview
  BY <1>16, EnqueueReviewKeeps
<1>17. CASE Research
  BY <1>17, ResearchKeeps
<1>18. CASE ResearchEnds
  BY <1>18, ResearchEndsKeeps
<1>19. CASE EnqueueBuild
  BY <1>19, EnqueueBuildKeeps
<1>20. CASE StartReview
  BY <1>20, StartReviewKeeps
<1>21. CASE ReviewStops
  BY <1>21, ReviewStopsKeeps
<1>22. CASE ReviewEnds
  BY <1>22, ReviewEndsKeeps
<1>23. CASE ReplaceReview
  BY <1>23, ReplaceReviewKeeps
<1>24. CASE Observe
  BY <1>24, ObserveKeeps
<1>25. CASE ActCodeChange
  BY <1>25, ActCodeChangeKeeps
<1>26. CASE ActMetadata
  BY <1>26, ActMetadataKeeps
<1>27. CASE ActCheckRetry
  BY <1>27, ActCheckRetryKeeps
<1>28. CASE ActReviewRerun
  BY <1>28, ActReviewRerunKeeps
<1>29. CASE ActPolicy
  BY <1>29, ActPolicyKeeps
<1>30. CASE ActProtected
  BY <1>30, ActProtectedKeeps
<1>31. CASE ActTerminal
  BY <1>31, ActTerminalKeeps
<1>32. CASE DispatchEnds
  BY <1>32, DispatchEndsKeeps
<1>33. CASE HandoffFails
  BY <1>33, HandoffFailsKeeps
<1>34. CASE WaitForChecks
  BY <1>34, WaitForChecksKeeps
<1>35. CASE MergeWithheld
  BY <1>35, MergeWithheldKeeps
<1>36. CASE Merge
  BY <1>36, MergeKeeps
<1>37. CASE RecordMerge
  BY <1>37, RecordMergeKeeps
<1>38. CASE Kill
  BY <1>38, KillKeeps
<1>39. CASE OthersPush
  BY <1>39, OthersPushKeeps
<1>40. CASE OthersClose
  BY <1>40, OthersCloseKeeps
<1>. QED BY <1>1, <1>2, <1>3, <1>4, <1>5, <1>6, <1>7, <1>8, <1>9, <1>10, <1>11, <1>12, <1>13,
       <1>14, <1>15, <1>16, <1>17, <1>18, <1>19, <1>20, <1>21, <1>22, <1>23, <1>24, <1>25,
       <1>26, <1>27, <1>28, <1>29, <1>30, <1>31, <1>32, <1>33, <1>34, <1>35, <1>36, <1>37,
       <1>38, <1>39, <1>40 DEF TasksNext, CycleNext

LEMMA StutterKeeps ==
  ASSUME TeamInv, UNCHANGED taskVars
  PROVE TeamInv'
<1>1. /\ tasks' = tasks /\ rem' = rem /\ prs' = prs /\ pushed' = pushed /\ cycle' = cycle
      /\ verdicts' = verdicts /\ kills' = kills
  BY DEF taskVars
<1>2. Shape' /\ RemediationShape' /\ CycleShape' /\ Pulls'
  BY <1>1 DEF TeamInv, Shape, RemediationShape, CycleShape, Pulls
<1>3. Rows' /\ Cycling' /\ Signed' /\ ParentsParked' /\ OneChildPerHandoff' /\ RepairsBounded'
  <2>1. Ids' = Ids
    BY <1>1 DEF Ids
  <2>2. /\ tasks' \in Seq(Row) /\ Len(tasks') = Len(tasks) /\ Len(prs) <= Len(prs')
        /\ pushed <= pushed' /\ prs' \in Seq(Pull) /\ pushed' \in Nat
        /\ \A u \in Ids : tasks'[u] = tasks[u]
    BY <1>1 DEF TeamInv, Shape
  <2>3. /\ Rows' /\ Signed' /\ OneChildPerHandoff' /\ RepairsBounded'
        /\ \A c \in Ids : Recovers(c)' <=> Recovers(c)
    BY <1>1, <2>2, Revision
  <2>4. Cycling'
    BY <1>1, <2>1 DEF TeamInv, Cycling, Works, Candidate, Decided
  <2>5. ParentsParked'
    BY <1>1, <2>1, <2>3 DEF TeamInv, ParentsParked, Recovering, Assigning
  <2>. QED BY <2>3, <2>4, <2>5
<1>. QED BY <1>2, <1>3 DEF TeamInv

LEMMA MergedFollows ==
  ASSUME TeamInv
  PROVE MergedShaWasReviewed
BY DEF TeamInv, Pulls, MergedShaWasReviewed, Judged

LEMMA EffortFollows ==
  ASSUME TeamInv
  PROVE EffortBounded
<1>1. TasksTypeOK
  <2>1. \A t \in Ids :
          /\ tasks[t].type \in {"BUILD", "REPAIR", "REVIEW", "RESEARCH"}
          /\ tasks[t].status \in Status
          /\ tasks[t].pr \in 0 .. Len(prs) /\ tasks[t].sha \in 0 .. pushed
          /\ tasks[t].parent \in 0 .. t - 1
    <3>1. \A t \in Ids : tasks[t] \in Row
      BY ARow
    <3>2. \A t \in Ids : tasks[t].type \in Types /\ tasks[t].status \in Status
      BY <3>1 DEF Row
    <3>. QED BY <3>2 DEF TeamInv, Rows, RowOK, Types
  <2>2. \A p \in DOMAIN prs : /\ prs[p].state \in {"open", "closed", "merged"}
                              /\ prs[p].head \in 1 .. pushed
    <3>1. \A p \in DOMAIN prs : prs[p] \in Pull
      BY DEF TeamInv, Shape
    <3>. QED BY <3>1 DEF TeamInv, Pulls, Pull
  <2>3. /\ Len(tasks) \in 1 .. MaxTasks /\ kills \in 0 .. MaxKills
        /\ cycle.task \in 0 .. Len(tasks) /\ cycle.left \subseteq Ids
        /\ RemediationShape
    BY DEF TeamInv, Shape, Cycling
  <2>. QED BY <2>1, <2>2, <2>3 DEF TasksTypeOK, RemediationShape
<1>2. RecoveryBounded
  <2>. SUFFICES ASSUME NEW t \in Ids, tasks[t].fingerprint # NoFingerprint
                PROVE Cardinality(Assigned(tasks[t].fingerprint)) <= MaxRecovery
    BY DEF RecoveryBounded
  <2>1. PICK f \in Prints : f = tasks[t].fingerprint
    BY ARow DEF Row
  <2>2. Assigned(f) \subseteq Repairs(f)
    <3>. SUFFICES ASSUME NEW c \in Assigned(f)
                  PROVE c \in Ids /\ Recovers(c) /\ tasks[c].fingerprint = f
      BY DEF Repairs
    <3>1. /\ c \in Ids /\ tasks[c].type = "REPAIR" /\ tasks[c].fingerprint = f
          /\ tasks[c].parent # 0 /\ tasks[tasks[c].parent].fingerprint = f
      BY DEF Assigned
    <3>2. PICK p \in Ids : p = tasks[c].parent
      BY <3>1 DEF TeamInv, Rows, Ids
    <3>3. tasks[p].type = "REVIEW" => f[4] = "REVIEW"
      <4>1. RowOK(tasks[p], Len(prs), pushed, verdicts)
        BY ARow
      <4>. QED BY <2>1, <3>1, <3>2, <4>1 DEF RowOK
    <3>. QED BY <2>1, <3>1, <3>2, <3>3 DEF Recovers, RecoversReview
  <2>3. IsFiniteSet(Repairs(f))
    <3>1. Repairs(f) \subseteq Ids
      BY DEF Repairs
    <3>. QED BY <3>1, FinitelyMany, FS_Subset
  <2>4. /\ Cardinality(Assigned(f)) <= Cardinality(Repairs(f))
        /\ Cardinality(Assigned(f)) \in Nat /\ Cardinality(Repairs(f)) \in Nat
    BY <2>2, <2>3, FS_Subset, FS_CardinalityType
  <2>5. Cardinality(Repairs(f)) <= MaxRecovery /\ MaxRecovery \in Nat
    BY TaskBoundsAssumption DEF TeamInv, RepairsBounded
  <2>. QED BY <2>1, <2>4, <2>5
<1>3. AttemptsBounded
  <2>1. \A t \in Ids : Spent(tasks[t])
    BY ARow DEF RowOK
  <2>. QED BY <2>1 DEF AttemptsBounded, Spent, External
<1>. QED BY <1>1, <1>2, <1>3 DEF EffortBounded, TeamInv

LEMMA TeamInvHolds ==
  TasksSpec => []TeamInv
<1>1. TasksInit => TeamInv
  BY InitHolds
<1>2. TeamInv /\ [TasksNext]_taskVars => TeamInv'
  BY NextKeeps, StutterKeeps
<1>. QED BY <1>1, <1>2, PTL DEF TasksSpec

(***************************************************************************)
(* Whatever others push, whenever a cycle is killed and whatever is        *)
(* dispatched again, the commit at which a pull request was merged has a   *)
(* review that gave its verdict on exactly that commit.                    *)
(***************************************************************************)
THEOREM MergedShaWasReviewedHolds ==
  TasksSpec => []MergedShaWasReviewed
<1>1. TeamInv => MergedShaWasReviewed
  BY MergedFollows
<1>. QED BY <1>1, TeamInvHolds, PTL

(***************************************************************************)
(* The rows are well formed, a row has one review per commit and one       *)
(* repair below it (a review also that of its own failure), a fingerprint  *)
(* costs no more repairs than recovery.max_attempts and a row no more runs *)
(* than max_attempts, but for what a kill cut.                             *)
(***************************************************************************)
THEOREM EffortBoundedHolds ==
  TasksSpec => []EffortBounded
<1>1. TeamInv => EffortBounded
  BY EffortFollows
<1>. QED BY <1>1, TeamInvHolds, PTL

-----------------------------------------------------------------------------
(* TeamAcceptance: the rows, the evidence and the running cycle.           *)

Lives == Phases \cup {"BUILD", "REPAIR", "MERGED", "PROVEN", "DONE"}
Envelope == [sha : Nat, ok : {"none", "yes", "no"}, day : Nat]
AcceptRow == [type : Phases \cup {"BUILD", "REPAIR"}, req : DOMAIN PhasesOf \cup {"none"},
              status : {"PENDING", "RETRY", "DONE", "STALE", "RECOVERY_PENDING"}, sha : Nat,
              life : Lives, envelope : Envelope]
Points == {"idle", "merged", "failed", "repair", "passed", "next", "finalize"}

(* A row, given how many merges and days there were.                       *)
AcRowOK(r, merged, day) ==
    /\ r.sha \in 0 .. merged
    /\ r.envelope # NoEnvelope => r.envelope.sha \in 1 .. merged /\ r.envelope.day \in 0 .. day
AcceptShape ==
    /\ acRows \in Seq(AcceptRow) /\ Len(acRows) \in 1 .. MaxRows
    /\ merges \in Nat /\ acDay \in 0 .. MaxDays /\ contract \in Contracts
    /\ acPc \in [at : Points, row : Nat]
AcceptInv ==
    /\ AcceptShape
    /\ \A r \in AcIds : AcRowOK(acRows[r], merges, acDay)
    /\ \A e \in evidence : e.sha \in 1 .. merges /\ e.day \in 0 .. acDay
    /\ acPc.row \in 0 .. Len(acRows)
    /\ acPc.at # "idle" => acPc.row \in AcIds

LEMMA PhaseTypes ==
  /\ \A r \in DOMAIN PhasesOf : Range(PhasesOf[r]) # {}
  /\ \A r \in DOMAIN PhasesOf : \A j \in DOMAIN PhasesOf[r] : PhasesOf[r][j] \in Phases
<1>1. ASSUME NEW r \in DOMAIN PhasesOf PROVE Range(PhasesOf[r]) # {}
  <2>1. 1 \in DOMAIN PhasesOf[r]
    BY DEF PhasesOf
  <2>. QED BY <2>1 DEF Range
<1>2. ASSUME NEW r \in DOMAIN PhasesOf, NEW j \in DOMAIN PhasesOf[r] PROVE PhasesOf[r][j] \in Phases
  BY DEF Phases, Range
<1>. QED BY <1>1, <1>2

LEMMA ARowOf ==
  ASSUME AcceptInv, NEW r \in AcIds
  PROVE acRows[r] \in AcceptRow /\ AcRowOK(acRows[r], merges, acDay) /\ acRows[r].sha \in 0 .. merges
BY DEF AcceptInv, AcceptShape, AcIds, AcRowOK

LEMMA NewAcRow ==
  ASSUME NEW type \in Phases \cup {"BUILD", "REPAIR"}, NEW req \in DOMAIN PhasesOf \cup {"none"},
         NEW merged \in Nat, NEW day, NEW sha \in 0 .. merged
  PROVE AcRow(type, req, sha) \in AcceptRow /\ AcRowOK(AcRow(type, req, sha), merged, day)
<1>1. NoEnvelope \in Envelope /\ sha \in Nat /\ type \in Lives
  BY DEF NoEnvelope, Envelope, Lives
<1>. QED BY <1>1 DEF AcRow, AcceptRow, AcRowOK

(* How the rows of a step are shaped.                                      *)
LEMMA AcGrown ==
  ASSUME AcceptInv, NEW s \in AcceptRow, AcRowOK(s, merges, acDay), Len(acRows) < MaxRows,
         acRows' = Append(acRows, s), merges' = merges, acDay' = acDay
  PROVE /\ acRows' \in Seq(AcceptRow) /\ Len(acRows') \in 1 .. MaxRows
        /\ Len(acRows) <= Len(acRows') /\ AcIds \subseteq AcIds'
        /\ \A r \in AcIds' : AcRowOK(acRows'[r], merges', acDay')
<1>1. acRows \in Seq(AcceptRow) /\ Len(acRows) \in Nat /\ MaxRows \in Nat
  BY AcceptBoundsAssumption DEF AcceptInv, AcceptShape
<1>2. /\ acRows' \in Seq(AcceptRow) /\ Len(acRows') = Len(acRows) + 1
      /\ acRows'[Len(acRows) + 1] = s
      /\ \A r \in 1 .. Len(acRows) : acRows'[r] = acRows[r]
  BY <1>1
<1>3. ASSUME NEW r \in AcIds' PROVE AcRowOK(acRows'[r], merges', acDay')
  <2>1. r \in AcIds \/ r = Len(acRows) + 1
    BY <1>1, <1>2 DEF AcIds
  <2>. QED BY <1>2, <2>1, ARowOf DEF AcIds
<1>. QED BY <1>1, <1>2, <1>3 DEF AcIds

LEMMA AcPatched ==
  ASSUME AcceptInv, NEW r \in AcIds, NEW s \in AcceptRow, acRows' = [acRows EXCEPT ![r] = s],
         merges' \in Nat, merges <= merges', acDay' = acDay, AcRowOK(s, merges', acDay)
  PROVE /\ acRows' \in Seq(AcceptRow) /\ Len(acRows') = Len(acRows) /\ AcIds' = AcIds
        /\ \A q \in AcIds' : AcRowOK(acRows'[q], merges', acDay')
<1>1. /\ acRows \in Seq(AcceptRow) /\ Len(acRows) \in Nat /\ merges \in Nat
      /\ acDay \in Nat
  BY AcceptBoundsAssumption DEF AcceptInv, AcceptShape
<1>2. /\ acRows' \in Seq(AcceptRow) /\ Len(acRows') = Len(acRows) /\ acRows'[r] = s
      /\ \A q \in AcIds : q # r => acRows'[q] = acRows[q]
  BY <1>1 DEF AcIds
<1>3. AcIds' = AcIds
  BY <1>2 DEF AcIds
<1>4. ASSUME NEW q \in AcIds PROVE AcRowOK(acRows'[q], merges', acDay')
  <2>1. AcRowOK(acRows[q], merges', acDay)
    BY <1>1, ARowOf DEF AcRowOK
  <2>. QED BY <1>2, <2>1
<1>. QED BY <1>2, <1>3, <1>4

(* A step that changes rows and point of the cycle only.                   *)
LEMMA AcMoves ==
  ASSUME AcceptInv, acRows' \in Seq(AcceptRow), Len(acRows') \in 1 .. MaxRows,
         \A r \in AcIds' : AcRowOK(acRows'[r], merges', acDay'),
         merges' \in Nat, merges <= merges', acDay' = acDay, contract' = contract,
         evidence' = evidence,
         acPc' \in [at : Points, row : Nat], acPc'.row \in 0 .. Len(acRows'),
         acPc'.at # "idle" => acPc'.row \in AcIds'
  PROVE AcceptInv'
<1>1. merges \in Nat
  BY DEF AcceptInv, AcceptShape
<1>2. \A e \in evidence' : e.sha \in 1 .. merges' /\ e.day \in 0 .. acDay'
  BY <1>1 DEF AcceptInv
<1>. QED BY <1>2 DEF AcceptInv, AcceptShape

(* The greatest of numbers that are bounded: the shortest of the intervals *)
(* up to the bound.                                                        *)
LEMMA GreatestElement ==
  ASSUME NEW S, NEW b \in Nat, S \subseteq 0 .. b, S # {}
  PROVE \E m \in S : \A n \in S : n <= m
<1>. DEFINE T == {m .. b : m \in S}
            R == StrictSubsetOrdering(Nat)
<1>1. T \subseteq FiniteSubsetsOf(Nat)
  <2>1. ASSUME NEW m \in S PROVE m .. b \in FiniteSubsetsOf(Nat)
    <3>1. m \in Int /\ b \in Int
      OBVIOUS
    <3>2. IsFiniteSet(m .. b)
      BY <3>1, FS_Interval
    <3>. QED BY <3>2 DEF FiniteSubsetsOf
  <2>. QED BY <2>1
<1>2. T # {}
  OBVIOUS
<1>3. IsWellFoundedOn(R, FiniteSubsetsOf(Nat))
  BY FS_StrictSubsetOrderingWellFounded
<1>4. PICK x \in T : \A y \in T : ~ (<<y, x>> \in R)
  <2>. HIDE DEF T, R
  <2>. QED BY <1>1, <1>2, <1>3, WFMin
<1>5. PICK m \in S : x = m .. b
  BY <1>4
<1>6. ASSUME NEW n \in S PROVE n <= m
  <2>. SUFFICES ASSUME m < n PROVE FALSE
    OBVIOUS
  <2>1. n .. b \subseteq m .. b /\ m \in m .. b /\ m \notin n .. b
    OBVIOUS
  <2>2. n .. b \subseteq Nat /\ m .. b \subseteq Nat
    OBVIOUS
  <2>3. <<n .. b, m .. b>> \in R
    BY <2>1, <2>2 DEF StrictSubsetOrdering
  <2>. QED BY <1>4, <1>5, <2>3
<1>. QED BY <1>6

LEMMA StepTypes ==
  ASSUME AcceptInv, NEW s \in ContractSteps
  PROVE s.req \in DOMAIN PhasesOf /\ s.phase \in Phases
<1>1. \A i \in DOMAIN contract : contract[i] \in DOMAIN PhasesOf
  BY ContractsAssumption DEF AcceptInv, AcceptShape
<1>2. PICK i \in DOMAIN contract : \E j \in DOMAIN PhasesOf[contract[i]] :
        s = [nth |-> i, req |-> contract[i], step |-> j, phase |-> PhasesOf[contract[i]][j]]
  BY DEF ContractSteps
<1>. QED BY <1>1, <1>2, PhaseTypes

LEMMA EnqueueGrows ==
  ASSUME AcceptInv, NEW sha \in 0 .. merges, EnqueueNext(sha), merges' = merges, acDay' = acDay
  PROVE /\ acRows' \in Seq(AcceptRow) /\ Len(acRows') \in 1 .. MaxRows
        /\ Len(acRows) <= Len(acRows') /\ AcIds \subseteq AcIds'
        /\ \A r \in AcIds' : AcRowOK(acRows'[r], merges', acDay')
<1>1. PICK s \in NextSteps :
        acRows' = IF PhaseRows(s.phase) # {} /\ AcActive(PhaseTask(s.phase)) THEN acRows
                  ELSE Append(acRows, AcRow(s.phase, s.req, sha))
  BY DEF EnqueueNext
<1>2. s.req \in DOMAIN PhasesOf /\ s.phase \in Phases
  BY StepTypes DEF NextSteps
<1>3. Len(acRows) < MaxRows
  BY DEF EnqueueNext
<1>4. /\ AcRow(s.phase, s.req, sha) \in AcceptRow
      /\ AcRowOK(AcRow(s.phase, s.req, sha), merges, acDay)
  BY <1>2, NewAcRow DEF AcceptInv, AcceptShape
<1>5. CASE acRows' = acRows
  <2>1. acRows \in Seq(AcceptRow) /\ Len(acRows) \in Nat
    BY DEF AcceptInv, AcceptShape
  <2>2. AcIds' = AcIds
    BY <1>5 DEF AcIds
  <2>. QED BY <1>5, <2>1, <2>2 DEF AcceptInv, AcceptShape
<1>6. CASE acRows' = Append(acRows, AcRow(s.phase, s.req, sha))
  <2>. HIDE DEF EnqueueNext
  <2>. QED BY <1>3, <1>4, <1>6, AcGrown
<1>. QED BY <1>1, <1>5, <1>6

(* A row whose status, or whose place in the lifecycle, or both change.    *)
Statuses == {"RETRY", "DONE", "STALE", "RECOVERY_PENDING"}

LEMMA Edited ==
  ASSUME AcceptInv, NEW r \in AcIds, NEW s \in AcceptRow, acRows' = [acRows EXCEPT ![r] = s],
         s.sha = acRows[r].sha, s.envelope = acRows[r].envelope,
         merges' = merges, acDay' = acDay
  PROVE /\ acRows' \in Seq(AcceptRow) /\ Len(acRows') = Len(acRows) /\ AcIds' = AcIds
        /\ Len(acRows') \in 1 .. MaxRows
        /\ \A q \in AcIds' : AcRowOK(acRows'[q], merges', acDay')
<1>1. /\ AcRowOK(acRows[r], merges, acDay) /\ merges \in Nat /\ Len(acRows) \in 1 .. MaxRows
  BY ARowOf DEF AcceptInv, AcceptShape
<1>2. merges' \in Nat /\ merges <= merges' /\ AcRowOK(s, merges', acDay)
  BY <1>1 DEF AcRowOK
<1>3. /\ acRows' \in Seq(AcceptRow) /\ Len(acRows') = Len(acRows) /\ AcIds' = AcIds
      /\ \A q \in AcIds' : AcRowOK(acRows'[q], merges', acDay')
  BY <1>2, AcPatched
<1>. QED BY <1>1, <1>3

LEMMA Restated ==
  ASSUME AcceptInv, NEW r \in AcIds, NEW status \in Statuses,
         acRows' = [acRows EXCEPT ![r].status = status], merges' = merges, acDay' = acDay
  PROVE /\ acRows' \in Seq(AcceptRow) /\ Len(acRows') = Len(acRows) /\ AcIds' = AcIds
        /\ Len(acRows') \in 1 .. MaxRows
        /\ \A q \in AcIds' : AcRowOK(acRows'[q], merges', acDay')
<1>. DEFINE s == [acRows[r] EXCEPT !.status = status]
<1>1. acRows[r] \in AcceptRow /\ acRows \in Seq(AcceptRow)
  BY ARowOf DEF AcceptInv, AcceptShape
<1>2. s \in AcceptRow /\ s.sha = acRows[r].sha /\ s.envelope = acRows[r].envelope
  BY <1>1 DEF AcceptRow, Statuses
<1>3. acRows' = [acRows EXCEPT ![r] = s]
  BY <1>1 DEF AcceptRow, AcIds
<1>. HIDE DEF s
<1>. QED BY <1>2, <1>3, Edited

LEMMA Relived ==
  ASSUME AcceptInv, NEW r \in AcIds, NEW life \in Lives,
         acRows' = [acRows EXCEPT ![r].life = life], merges' = merges, acDay' = acDay
  PROVE /\ acRows' \in Seq(AcceptRow) /\ Len(acRows') = Len(acRows) /\ AcIds' = AcIds
        /\ Len(acRows') \in 1 .. MaxRows
        /\ \A q \in AcIds' : AcRowOK(acRows'[q], merges', acDay')
<1>. DEFINE s == [acRows[r] EXCEPT !.life = life]
<1>1. acRows[r] \in AcceptRow /\ acRows \in Seq(AcceptRow)
  BY ARowOf DEF AcceptInv, AcceptShape
<1>2. s \in AcceptRow /\ s.sha = acRows[r].sha /\ s.envelope = acRows[r].envelope
  BY <1>1 DEF AcceptRow, Statuses
<1>3. acRows' = [acRows EXCEPT ![r] = s]
  BY <1>1 DEF AcceptRow, AcIds
<1>. HIDE DEF s
<1>. QED BY <1>2, <1>3, Edited

LEMMA Ended ==
  ASSUME AcceptInv, NEW r \in AcIds, NEW status \in Statuses, NEW life \in Lives,
         acRows' = [acRows EXCEPT ![r].status = status, ![r].life = life], merges' = merges, acDay' = acDay
  PROVE /\ acRows' \in Seq(AcceptRow) /\ Len(acRows') = Len(acRows) /\ AcIds' = AcIds
        /\ Len(acRows') \in 1 .. MaxRows
        /\ \A q \in AcIds' : AcRowOK(acRows'[q], merges', acDay')
<1>. DEFINE s == [acRows[r] EXCEPT !.status = status, !.life = life]
<1>1. acRows[r] \in AcceptRow /\ acRows \in Seq(AcceptRow)
  BY ARowOf DEF AcceptInv, AcceptShape
<1>2. s \in AcceptRow /\ s.sha = acRows[r].sha /\ s.envelope = acRows[r].envelope
  BY <1>1 DEF AcceptRow, Statuses
<1>3. acRows' = [acRows EXCEPT ![r] = s]
  BY <1>1 DEF AcceptRow, AcIds
<1>. HIDE DEF s
<1>. QED BY <1>2, <1>3, Edited

LEMMA AcIdleOK ==
  ASSUME AcceptInv, acPc' = AcIdle, Len(acRows') \in 1 .. MaxRows
  PROVE /\ acPc' \in [at : Points, row : Nat] /\ acPc'.row \in 0 .. Len(acRows') /\ acPc'.at = "idle"
BY AcceptBoundsAssumption DEF AcIdle, Points

LEMMA AcGoto ==
  ASSUME AcceptInv, NEW at \in Points, NEW r \in AcIds, Goto(at, r), Len(acRows) <= Len(acRows'),
         Len(acRows') \in 1 .. MaxRows
  PROVE /\ acPc' \in [at : Points, row : Nat] /\ acPc'.row \in 0 .. Len(acRows') /\ acPc'.row \in AcIds'
<1>1. acPc' = [at |-> at, row |-> r]
  BY DEF Goto
<1>2. r \in Nat /\ r \in 1 .. Len(acRows) /\ Len(acRows) \in Nat /\ Len(acRows') \in Nat
  BY AcceptBoundsAssumption DEF AcIds, AcceptInv, AcceptShape
<1>. QED BY <1>1, <1>2 DEF AcIds

LEMMA RecordMergedKeeps ==
  ASSUME AcceptInv, RecordMerged
  PROVE AcceptInv'
<1>1. PICK r \in AcIds :
        /\ acRows' = [acRows EXCEPT ![r].status = "DONE", ![r].life = "MERGED",
                                    ![r].sha = merges + 1]
        /\ Goto("merged", r)
  BY DEF RecordMerged
<1>2. /\ merges' = merges + 1 /\ acDay' = acDay /\ contract' = contract /\ evidence' = evidence
      /\ merges \in Nat /\ Len(acRows) \in 1 .. MaxRows /\ acRows \in Seq(AcceptRow)
  BY DEF RecordMerged, AcceptInv, AcceptShape
<1>. DEFINE row == acRows[r]
            s == [row EXCEPT !.status = "DONE", !.life = "MERGED", !.sha = merges + 1]
<1>3. row \in AcceptRow /\ AcRowOK(row, merges, acDay)
  BY ARowOf
<1>4. s \in AcceptRow /\ s.sha = merges + 1 /\ s.envelope = row.envelope
  <2>1. PICK n \in Nat : n = merges + 1
    BY <1>2
  <2>2. "MERGED" \in Lives
    BY DEF Lives
  <2>. QED BY <1>3, <2>1, <2>2 DEF AcceptRow
<1>5. AcRowOK(s, merges', acDay)
  BY <1>2, <1>3, <1>4 DEF AcRowOK
<1>6. acRows' = [acRows EXCEPT ![r] = s]
  BY <1>1, <1>2, <1>3 DEF AcceptRow, AcIds
<1>. HIDE DEF s
<1>7. /\ acRows' \in Seq(AcceptRow) /\ Len(acRows') = Len(acRows) /\ AcIds' = AcIds
      /\ \A q \in AcIds' : AcRowOK(acRows'[q], merges', acDay')
  <2>1. merges' \in Nat /\ merges <= merges'
    BY <1>2
  <2>. QED BY <1>2, <1>4, <1>5, <1>6, <2>1, AcPatched
<1>8. /\ acPc' \in [at : Points, row : Nat] /\ acPc'.row \in 0 .. Len(acRows') /\ acPc'.row \in AcIds'
  BY <1>1, <1>2, <1>7, AcGoto DEF Points
<1>. QED BY <1>2, <1>7, <1>8, AcMoves

LEMMA LatestMergedKnown ==
  ASSUME AcceptInv, MergedRows # {}
  PROVE LatestMerged \in 0 .. merges
<1>1. MergedRows \subseteq 0 .. Len(acRows) /\ Len(acRows) \in Nat /\ MergedRows \subseteq AcIds
  BY DEF MergedRows, AcIds, AcceptInv, AcceptShape
<1>2. \E m \in MergedRows : \A q \in MergedRows : q <= m
  <2>. HIDE DEF MergedRows
  <2>. QED BY <1>1, GreatestElement
<1>3. PICK m \in MergedRows : LatestMerged = acRows[m].sha
  BY <1>2 DEF LatestMerged
<1>. QED BY <1>1, <1>3, ARowOf

LEMMA ContinueMergedKeeps ==
  ASSUME AcceptInv, ContinueMerged
  PROVE AcceptInv'
<1>. DEFINE r == acPc.row
<1>1. /\ merges' = merges /\ acDay' = acDay /\ contract' = contract /\ evidence' = evidence
      /\ r \in AcIds /\ merges \in Nat /\ Len(acRows) \in 1 .. MaxRows /\ acRows \in Seq(AcceptRow)
  BY DEF ContinueMerged, AcceptInv, AcceptShape
<1>2. acRows[r].sha \in 0 .. merges /\ acRows[r] \in AcceptRow
  BY <1>1, ARowOf
<1>3. CASE contract = <<>>
  <2>1. acRows' = [acRows EXCEPT ![r].life = "PROVEN"] /\ Goto("finalize", r)
    BY <1>3 DEF ContinueMerged
  <2>2. /\ acRows' \in Seq(AcceptRow) /\ Len(acRows') = Len(acRows) /\ AcIds' = AcIds
        /\ \A q \in AcIds' : AcRowOK(acRows'[q], merges', acDay')
    BY <1>1, <2>1, Relived DEF Lives
  <2>3. /\ acPc' \in [at : Points, row : Nat] /\ acPc'.row \in 0 .. Len(acRows')
        /\ acPc'.row \in AcIds'
    BY <1>1, <2>1, <2>2, AcGoto DEF Points
  <2>. QED BY <1>1, <2>2, <2>3, AcMoves
<1>4. CASE contract # <<>>
  <2>1. acPc' = AcIdle
    BY <1>4 DEF ContinueMerged
  <2>2. CASE NextSteps = {}
    <3>1. acRows' = [acRows EXCEPT ![r].status = "STALE"]
      BY <1>4, <2>2 DEF ContinueMerged
    <3>2. /\ acRows' \in Seq(AcceptRow) /\ Len(acRows') \in 1 .. MaxRows
          /\ \A q \in AcIds' : AcRowOK(acRows'[q], merges', acDay')
      BY <1>1, <3>1, Restated DEF Statuses
    <3>. QED BY <1>1, <2>1, <3>2, AcIdleOK, AcMoves
  <2>3. CASE NextSteps # {}
    <3>1. EnqueueNext(acRows[r].sha)
      BY <1>4, <2>3 DEF ContinueMerged
    <3>2. /\ acRows' \in Seq(AcceptRow) /\ Len(acRows') \in 1 .. MaxRows
          /\ \A q \in AcIds' : AcRowOK(acRows'[q], merges', acDay')
      BY <1>1, <1>2, <3>1, EnqueueGrows
    <3>. QED BY <1>1, <2>1, <3>2, AcIdleOK, AcMoves
  <2>. QED BY <2>2, <2>3
<1>. QED BY <1>3, <1>4

LEMMA DepositKeeps ==
  ASSUME AcceptInv, Deposit
  PROVE AcceptInv'
<1>1. PICK r \in AcIds, sha \in 1 .. merges, ok \in {"yes", "no"} :
        acRows' = [acRows EXCEPT ![r].envelope = [sha |-> sha, ok |-> ok, day |-> acDay]]
  BY DEF Deposit
<1>2. /\ merges' = merges /\ acDay' = acDay /\ contract' = contract /\ evidence' = evidence
      /\ acPc' = acPc /\ merges \in Nat /\ Len(acRows) \in 1 .. MaxRows /\ acRows \in Seq(AcceptRow)
      /\ acDay \in Nat /\ sha \in Nat
  BY AcceptBoundsAssumption DEF Deposit, AcceptInv, AcceptShape
<1>. DEFINE row == acRows[r]
            e == [sha |-> sha, ok |-> ok, day |-> acDay]
            s == [row EXCEPT !.envelope = e]
<1>3. row \in AcceptRow /\ AcRowOK(row, merges, acDay)
  BY ARowOf
<1>4. e \in Envelope
  BY <1>2 DEF Envelope
<1>5. s \in AcceptRow /\ s.sha = row.sha /\ s.envelope = e /\ e.sha = sha /\ e.day = acDay
  BY <1>3, <1>4 DEF AcceptRow
<1>6. acRows' = [acRows EXCEPT ![r] = s]
  BY <1>1, <1>2, <1>3 DEF AcceptRow, AcIds
<1>. HIDE DEF s, e
<1>7. AcRowOK(s, merges', acDay)
  BY <1>2, <1>3, <1>5 DEF AcRowOK
<1>8. /\ acRows' \in Seq(AcceptRow) /\ Len(acRows') = Len(acRows) /\ AcIds' = AcIds
      /\ \A q \in AcIds' : AcRowOK(acRows'[q], merges', acDay')
  <2>1. merges' \in Nat /\ merges <= merges'
    BY <1>2
  <2>. QED BY <1>2, <1>5, <1>6, <1>7, <2>1, AcPatched
<1>. QED BY <1>2, <1>8 DEF AcceptInv, AcceptShape

LEMMA AwaitEvidenceKeeps ==
  ASSUME AcceptInv, AwaitEvidence
  PROVE AcceptInv'
<1>1. PICK r \in AcIds : acRows' = [acRows EXCEPT ![r].status = "RETRY"]
  BY DEF AwaitEvidence
<1>2. /\ merges' = merges /\ acDay' = acDay /\ contract' = contract /\ evidence' = evidence
      /\ acPc' = acPc
  BY DEF AwaitEvidence
<1>3. /\ acRows' \in Seq(AcceptRow) /\ Len(acRows') = Len(acRows) /\ AcIds' = AcIds
      /\ \A q \in AcIds' : AcRowOK(acRows'[q], merges', acDay')
  BY <1>1, <1>2, Restated DEF Statuses
<1>. QED BY <1>2, <1>3 DEF AcceptInv, AcceptShape

LEMMA RecordEvidenceKeeps ==
  ASSUME AcceptInv, RecordEvidence
  PROVE AcceptInv'
<1>1. PICK r \in AcIds :
        /\ acRows[r].envelope # NoEnvelope
        /\ LET e == acRows[r].envelope
           IN  IF Accepts(r)
               THEN /\ evidence' = evidence \cup
                        {[req |-> acRows[r].req, phase |-> acRows[r].type, sha |-> e.sha,
                          ok |-> e.ok, day |-> e.day]}
                    /\ Goto(IF e.ok = "yes" THEN "passed" ELSE "failed", r)
                    /\ UNCHANGED acRows
               ELSE /\ acRows' = [acRows EXCEPT ![r].status = "STALE"]
                    /\ UNCHANGED <<evidence, acPc>>
  BY DEF RecordEvidence
<1>2. merges' = merges /\ acDay' = acDay /\ contract' = contract
  BY DEF RecordEvidence
<1>3. acRows[r].envelope.sha \in 1 .. merges /\ acRows[r].envelope.day \in 0 .. acDay
  BY <1>1, ARowOf DEF AcRowOK
<1>4. CASE Accepts(r)
  <2>1. /\ acRows' = acRows /\ \A e \in evidence' : e.sha \in 1 .. merges /\ e.day \in 0 .. acDay
    BY <1>1, <1>3, <1>4 DEF AcceptInv
  <2>2. PICK at \in Points : at # "idle" /\ Goto(at, r)
    BY <1>1, <1>4 DEF Points
  <2>3. /\ acPc' \in [at : Points, row : Nat] /\ acPc'.row \in 0 .. Len(acRows')
        /\ acPc'.row \in AcIds'
    <3>1. Len(acRows) <= Len(acRows') /\ Len(acRows') \in 1 .. MaxRows
      BY <2>1 DEF AcceptInv, AcceptShape
    <3>. QED BY <2>2, <3>1, AcGoto
  <2>4. AcIds' = AcIds
    BY <2>1 DEF AcIds
  <2>. QED BY <1>2, <2>1, <2>3, <2>4 DEF AcceptInv, AcceptShape
<1>5. CASE ~Accepts(r)
  <2>1. acRows' = [acRows EXCEPT ![r].status = "STALE"] /\ evidence' = evidence /\ acPc' = acPc
    BY <1>1, <1>5
  <2>2. /\ acRows' \in Seq(AcceptRow) /\ Len(acRows') = Len(acRows) /\ AcIds' = AcIds
        /\ \A q \in AcIds' : AcRowOK(acRows'[q], merges', acDay')
    BY <1>2, <2>1, Restated DEF Statuses
  <2>. QED BY <1>2, <2>1, <2>2 DEF AcceptInv, AcceptShape
<1>. QED BY <1>4, <1>5

LEMMA FailPhaseKeeps ==
  ASSUME AcceptInv, FailPhase
  PROVE AcceptInv'
<1>. DEFINE r == acPc.row
<1>1. /\ merges' = merges /\ acDay' = acDay /\ contract' = contract /\ evidence' = evidence
      /\ r \in AcIds /\ merges \in Nat /\ Goto("repair", r) /\ Len(acRows) \in Nat
      /\ acRows' = [acRows EXCEPT ![r].status = "DONE", ![r].life = "REPAIR"]
  BY DEF FailPhase, AcceptInv, AcceptShape
<1>. HIDE DEF r
<1>2. /\ acRows' \in Seq(AcceptRow) /\ Len(acRows') = Len(acRows) /\ AcIds' = AcIds
      /\ Len(acRows') \in 1 .. MaxRows
      /\ \A q \in AcIds' : AcRowOK(acRows'[q], merges', acDay')
  BY <1>1, Ended DEF Statuses, Lives
<1>3. /\ acPc' \in [at : Points, row : Nat] /\ acPc'.row \in 0 .. Len(acRows')
      /\ acPc'.row \in AcIds'
  BY <1>1, <1>2, AcGoto DEF Points
<1>4. merges' \in Nat /\ merges <= merges'
  BY <1>1
<1>. QED BY <1>1, <1>2, <1>3, <1>4, AcMoves

LEMMA PassPhaseKeeps ==
  ASSUME AcceptInv, PassPhase
  PROVE AcceptInv'
<1>. DEFINE r == acPc.row
<1>1. /\ merges' = merges /\ acDay' = acDay /\ contract' = contract /\ evidence' = evidence
      /\ r \in AcIds /\ merges \in Nat /\ Goto("next", r) /\ Len(acRows) \in Nat
      /\ acRows' = [acRows EXCEPT ![r].status = "DONE"]
  BY DEF PassPhase, AcceptInv, AcceptShape
<1>. HIDE DEF r
<1>2. /\ acRows' \in Seq(AcceptRow) /\ Len(acRows') = Len(acRows) /\ AcIds' = AcIds
      /\ Len(acRows') \in 1 .. MaxRows
      /\ \A q \in AcIds' : AcRowOK(acRows'[q], merges', acDay')
  BY <1>1, Restated DEF Statuses
<1>3. /\ acPc' \in [at : Points, row : Nat] /\ acPc'.row \in 0 .. Len(acRows')
      /\ acPc'.row \in AcIds'
  BY <1>1, <1>2, AcGoto DEF Points
<1>. QED BY <1>1, <1>2, <1>3, AcMoves

LEMMA EnqueueRepairKeeps ==
  ASSUME AcceptInv, EnqueueRepair
  PROVE AcceptInv'
<1>1. /\ merges' = merges /\ acDay' = acDay /\ contract' = contract /\ evidence' = evidence
      /\ acPc.row \in AcIds /\ merges \in Nat /\ acPc' = AcIdle /\ Len(acRows) < MaxRows
  BY DEF EnqueueRepair, AcceptInv, AcceptShape
<1>2. PICK s \in AcceptRow : acRows' = Append(acRows, s) /\ AcRowOK(s, merges, acDay)
  <2>1. acRows[acPc.row].sha \in 0 .. merges
    BY <1>1, ARowOf
  <2>. QED BY <1>1, <2>1, NewAcRow DEF EnqueueRepair
<1>3. /\ acRows' \in Seq(AcceptRow) /\ Len(acRows') \in 1 .. MaxRows
      /\ \A q \in AcIds' : AcRowOK(acRows'[q], merges', acDay')
  BY <1>1, <1>2, AcGrown
<1>. QED BY <1>1, <1>3, AcIdleOK, AcMoves

LEMMA ContinuePhaseKeeps ==
  ASSUME AcceptInv, ContinuePhase
  PROVE AcceptInv'
<1>. DEFINE r == acPc.row
<1>1. /\ merges' = merges /\ acDay' = acDay /\ contract' = contract /\ evidence' = evidence
      /\ r \in AcIds /\ merges \in Nat /\ Len(acRows) \in Nat
  BY DEF ContinuePhase, AcceptInv, AcceptShape
<1>2. acRows[r].sha \in 0 .. merges
  BY <1>1, ARowOf
<1>3. CASE NextSteps = {}
  <2>1. acRows' = [acRows EXCEPT ![r].life = "PROVEN"] /\ Goto("finalize", r)
    BY <1>3 DEF ContinuePhase
  <2>. HIDE DEF r
  <2>2. /\ acRows' \in Seq(AcceptRow) /\ Len(acRows') = Len(acRows) /\ AcIds' = AcIds
        /\ Len(acRows') \in 1 .. MaxRows
        /\ \A q \in AcIds' : AcRowOK(acRows'[q], merges', acDay')
    BY <1>1, <2>1, Relived DEF Lives
  <2>3. /\ acPc' \in [at : Points, row : Nat] /\ acPc'.row \in 0 .. Len(acRows')
        /\ acPc'.row \in AcIds'
    BY <1>1, <2>1, <2>2, AcGoto DEF Points
  <2>. QED BY <1>1, <2>2, <2>3, AcMoves
<1>4. CASE NextSteps # {}
  <2>1. EnqueueNext(acRows[r].sha) /\ acPc' = AcIdle
    BY <1>4 DEF ContinuePhase
  <2>. HIDE DEF r
  <2>2. /\ acRows' \in Seq(AcceptRow) /\ Len(acRows') \in 1 .. MaxRows
        /\ \A q \in AcIds' : AcRowOK(acRows'[q], merges', acDay')
    BY <1>1, <1>2, <2>1, EnqueueGrows
  <2>. QED BY <1>1, <2>1, <2>2, AcIdleOK, AcMoves
<1>. QED BY <1>3, <1>4

LEMMA FinalizeKeeps ==
  ASSUME AcceptInv, Finalize
  PROVE AcceptInv'
<1>. DEFINE r == acPc.row
<1>1. /\ merges' = merges /\ acDay' = acDay /\ contract' = contract /\ evidence' = evidence
      /\ r \in AcIds /\ merges \in Nat /\ Len(acRows) \in Nat /\ acPc' = AcIdle
      /\ \/ acRows' = [acRows EXCEPT ![r].status = "DONE", ![r].life = "DONE"]
         \/ acRows' = [acRows EXCEPT ![r].status = "STALE"]
  BY DEF Finalize, AcceptInv, AcceptShape
<1>. HIDE DEF r
<1>2. /\ acRows' \in Seq(AcceptRow) /\ Len(acRows') \in 1 .. MaxRows
      /\ \A q \in AcIds' : AcRowOK(acRows'[q], merges', acDay')
  <2>1. CASE acRows' = [acRows EXCEPT ![r].status = "DONE", ![r].life = "DONE"]
    BY <1>1, <2>1, Ended DEF Statuses, Lives
  <2>2. CASE acRows' = [acRows EXCEPT ![r].status = "STALE"]
    BY <1>1, <2>2, Restated DEF Statuses
  <2>. QED BY <1>1, <2>1, <2>2
<1>. QED BY <1>1, <1>2, AcIdleOK, AcMoves

LEMMA RecoverStoppedKeeps ==
  ASSUME AcceptInv, RecoverStopped
  PROVE AcceptInv'
<1>1. PICK r \in AcIds :
        acRows' = Append([acRows EXCEPT ![r].status = "RECOVERY_PENDING"],
                         AcRow("REPAIR", "none", acRows[r].sha))
  BY DEF RecoverStopped
<1>2. /\ merges' = merges /\ acDay' = acDay /\ contract' = contract /\ evidence' = evidence
      /\ acPc' = acPc /\ merges \in Nat /\ Len(acRows) \in Nat /\ acRows \in Seq(AcceptRow)
      /\ Len(acRows) < MaxRows /\ MaxRows \in Nat
  BY AcceptBoundsAssumption DEF RecoverStopped, AcceptInv, AcceptShape
<1>. DEFINE s == [acRows[r] EXCEPT !.status = "RECOVERY_PENDING"]
            new == AcRow("REPAIR", "none", acRows[r].sha)
            mid == [acRows EXCEPT ![r].status = "RECOVERY_PENDING"]
<1>3. acRows[r] \in AcceptRow /\ AcRowOK(acRows[r], merges, acDay) /\ acRows[r].sha \in 0 .. merges
  BY ARowOf
<1>4. s \in AcceptRow /\ s.sha = acRows[r].sha /\ s.envelope = acRows[r].envelope
  BY <1>3 DEF AcceptRow
<1>5. AcRowOK(s, merges, acDay)
  BY <1>3, <1>4 DEF AcRowOK
<1>6. new \in AcceptRow /\ AcRowOK(new, merges, acDay)
  BY <1>2, <1>3, NewAcRow
<1>7. mid = [acRows EXCEPT ![r] = s]
  BY <1>2, <1>3 DEF AcceptRow, AcIds
<1>. HIDE DEF s, new
<1>8. /\ mid \in Seq(AcceptRow) /\ Len(mid) = Len(acRows) /\ mid[r] = s
      /\ \A q \in AcIds : q # r => mid[q] = acRows[q]
  BY <1>2, <1>4, <1>7 DEF AcIds
<1>9. \A q \in AcIds : AcRowOK(mid[q], merges, acDay)
  BY <1>5, <1>8, ARowOf
<1>10. acRows' = Append(mid, new)
  BY <1>1 DEF new
<1>. HIDE DEF mid
<1>11. /\ acRows' \in Seq(AcceptRow) /\ Len(acRows') = Len(acRows) + 1
       /\ acRows'[Len(acRows) + 1] = new
       /\ \A q \in AcIds : acRows'[q] = mid[q]
  BY <1>2, <1>6, <1>8, <1>10 DEF AcIds
<1>12. AcIds' = AcIds \cup {Len(acRows) + 1} /\ Len(acRows') \in 1 .. MaxRows
  BY <1>2, <1>11 DEF AcIds
<1>13. \A q \in AcIds' : AcRowOK(acRows'[q], merges', acDay')
  BY <1>2, <1>6, <1>9, <1>11, <1>12
<1>14. acPc.row \in 0 .. Len(acRows')
  BY <1>2, <1>11 DEF AcceptInv
<1>. QED BY <1>2, <1>11, <1>12, <1>13, <1>14 DEF AcceptInv, AcceptShape

LEMMA EnqueueLatestKeeps ==
  ASSUME AcceptInv, MergedRows # {}, EnqueueNext(LatestMerged), merges' = merges, acDay' = acDay,
         contract' = contract, evidence' = evidence, acPc' = acPc
  PROVE AcceptInv'
<1>1. PICK sha \in 0 .. merges : sha = LatestMerged
  BY LatestMergedKnown
<1>2. EnqueueNext(sha)
  BY <1>1
<1>3. /\ acRows' \in Seq(AcceptRow) /\ Len(acRows') \in 1 .. MaxRows
      /\ Len(acRows) <= Len(acRows') /\ AcIds \subseteq AcIds'
      /\ \A r \in AcIds' : AcRowOK(acRows'[r], merges', acDay')
  BY <1>2, EnqueueGrows
<1>4. /\ acPc.row \in 0 .. Len(acRows) /\ acPc.row \in 0 .. Len(acRows')
  BY <1>3, AcceptBoundsAssumption DEF AcceptInv, AcceptShape
<1>. QED BY <1>3, <1>4 DEF AcceptInv, AcceptShape

LEMMA ReconcileRolloutKeeps ==
  ASSUME AcceptInv, ReconcileRollout
  PROVE AcceptInv'
BY EnqueueLatestKeeps DEF ReconcileRollout

LEMMA FinalizeParentKeeps ==
  ASSUME AcceptInv, FinalizeParent
  PROVE AcceptInv'
<1>1. /\ merges' = merges /\ acDay' = acDay /\ contract' = contract /\ evidence' = evidence
      /\ acPc' = acPc
  BY DEF FinalizeParent
<1>2. CASE AcceptanceIsProven
  <2>1. acRows' = acRows
    BY <1>2 DEF FinalizeParent
  <2>. QED BY <1>1, <2>1 DEF AcceptInv, AcceptShape, AcIds
<1>3. CASE ~AcceptanceIsProven
  BY <1>1, <1>3, EnqueueLatestKeeps DEF FinalizeParent
<1>. QED BY <1>2, <1>3

LEMMA CutKeeps ==
  ASSUME AcceptInv, Cut
  PROVE AcceptInv'
<1>1. /\ merges' = merges /\ acDay' = acDay /\ contract' = contract /\ evidence' = evidence
      /\ acPc' = AcIdle /\ acRows' = acRows /\ AcIds' = AcIds
  BY DEF Cut, AcIds
<1>2. acPc' \in [at : Points, row : Nat] /\ acPc'.row = 0 /\ acPc'.at = "idle"
  BY <1>1 DEF AcIdle, Points
<1>3. 0 \in 0 .. Len(acRows)
  BY DEF AcceptInv, AcceptShape
<1>. QED BY <1>1, <1>2, <1>3 DEF AcceptInv, AcceptShape

LEMMA NextDayKeeps ==
  ASSUME AcceptInv, NextDay
  PROVE AcceptInv'
<1>1. /\ merges' = merges /\ acDay' = acDay + 1 /\ contract' = contract /\ evidence' = evidence
      /\ acPc' = acPc /\ acRows' = acRows /\ AcIds' = AcIds /\ acDay < MaxDays
  BY DEF NextDay, AcIds
<1>2. acDay \in 0 .. MaxDays /\ MaxDays \in Nat
  BY AcceptBoundsAssumption DEF AcceptInv, AcceptShape
<1>3. acDay' \in 0 .. MaxDays /\ 0 .. acDay \subseteq 0 .. acDay'
  BY <1>1, <1>2
<1>4. \A r \in AcIds : AcRowOK(acRows[r], merges, acDay')
  BY <1>3, ARowOf DEF AcRowOK
<1>5. \A e \in evidence : e.sha \in 1 .. merges /\ e.day \in 0 .. acDay'
  BY <1>3 DEF AcceptInv
<1>. QED BY <1>1, <1>3, <1>4, <1>5 DEF AcceptInv, AcceptShape

LEMMA AcceptBegins ==
  ASSUME AcceptInit
  PROVE AcceptInv
<1>1. /\ acRows = <<AcRow("BUILD", "none", 0)>> /\ evidence = {} /\ contract \in Contracts
      /\ merges = 0 /\ acDay = 0 /\ acPc = [at |-> "idle", row |-> 0]
  BY DEF AcceptInit, AcIdle
<1>2. PICK s \in AcceptRow : acRows = <<s>> /\ AcRowOK(s, merges, acDay)
  BY <1>1, NewAcRow
<1>3. acRows \in Seq(AcceptRow) /\ Len(acRows) = 1 /\ AcIds = {1} /\ acRows[1] = s
  BY <1>2 DEF AcIds
<1>4. MaxRows \in Nat /\ MaxRows # 0 /\ MaxDays \in Nat
  BY AcceptBoundsAssumption
<1>5. AcceptShape
  BY <1>1, <1>3, <1>4 DEF AcceptShape, Points
<1>. QED BY <1>1, <1>2, <1>3, <1>5 DEF AcceptInv

LEMMA AcceptInductive ==
  ASSUME AcceptInv, [AcceptNext]_acVars
  PROVE AcceptInv'
<1>1. CASE UNCHANGED acVars
  BY <1>1 DEF acVars, AcceptInv, AcceptShape, AcIds
<1>2. CASE AcceptNext
  BY <1>2, RecordMergedKeeps, AwaitEvidenceKeeps, RecordEvidenceKeeps, ContinueMergedKeeps,
     FailPhaseKeeps, EnqueueRepairKeeps, PassPhaseKeeps, ContinuePhaseKeeps, FinalizeKeeps,
     RecoverStoppedKeeps, ReconcileRolloutKeeps, FinalizeParentKeeps, DepositKeeps, CutKeeps,
     NextDayKeeps
     DEF AcceptNext
<1>. QED BY <1>1, <1>2

LEMMA ShapeFollows ==
  ASSUME AcceptInv
  PROVE AcceptTypeOK
<1>1. \A r \in AcIds : acRows[r] \in AcceptRow /\ acRows[r].sha \in 0 .. merges
  BY ARowOf
<1>2. \A r \in AcIds :
        /\ acRows[r].type \in Phases \cup {"BUILD", "REPAIR"}
        /\ acRows[r].status \in {"PENDING", "RETRY", "DONE", "STALE", "RECOVERY_PENDING"}
        /\ acRows[r].life \in Phases \cup {"BUILD", "REPAIR", "MERGED", "PROVEN", "DONE"}
  BY <1>1 DEF AcceptRow, Lives
<1>. QED BY <1>1, <1>2 DEF AcceptInv, AcceptShape, AcceptTypeOK

(* Whatever closes the issue has asked for its proof just now.             *)
LEMMA ClosesOnlyProven ==
  ASSUME AcceptInv, [AcceptNext]_acVars, acOpen, ~acOpen'
  PROVE /\ merges > 0 \/ contract = <<>>
        /\ \A i \in DOMAIN contract : \A ph \in Range(PhasesOf[contract[i]]) :
            \E e \in evidence : /\ e.req = contract[i] /\ e.phase = ph /\ e.ok = "yes"
                                 /\ acDay - e.day <= MaxAge
<1>1. AcceptanceIsProven
  <2>1. ~(UNCHANGED acOpen)
    OBVIOUS
  <2>. QED BY <2>1 DEF AcceptNext, acVars, RecordMerged, AwaitEvidence, RecordEvidence,
        ContinueMerged, FailPhase, EnqueueRepair, PassPhase, ContinuePhase, Finalize, MayFinalize,
        RecoverStopped, ReconcileRollout, FinalizeParent, Deposit, Cut, NextDay
<1>2. contract \in Seq(DOMAIN PhasesOf)
  BY ContractsAssumption DEF AcceptInv, AcceptShape
<1>3. ASSUME NEW i \in DOMAIN contract, NEW ph \in Range(PhasesOf[contract[i]])
      PROVE \E e \in evidence : /\ e.req = contract[i] /\ e.phase = ph /\ e.ok = "yes"
                                 /\ acDay - e.day <= MaxAge
  <2>1. contract[i] \in ProvenRequirements
    BY <1>1 DEF AcceptanceIsProven, Range
  <2>2. PhaseIsProven(contract[i], ph)
    BY <2>1 DEF ProvenRequirements
  <2>. QED BY <2>2 DEF PhaseIsProven, Verified
<1>4. merges > 0 \/ contract = <<>>
  <2>. SUFFICES ASSUME contract # <<>> PROVE merges > 0
    OBVIOUS
  <2>1. 1 \in DOMAIN contract /\ contract[1] \in DOMAIN PhasesOf
    BY <1>2
  <2>2. PICK ph \in Range(PhasesOf[contract[1]]) : TRUE
    BY <2>1, PhaseTypes
  <2>3. PICK e \in evidence : TRUE
    BY <1>3, <2>1, <2>2
  <2>4. e.sha \in 1 .. merges /\ merges \in Nat
    BY DEF AcceptInv, AcceptShape
  <2>. QED BY <2>4
<1>. QED BY <1>3, <1>4

LEMMA AppliesOnReview ==
  ASSUME AcceptInv, [AcceptNext]_acVars, NEW e \in evidence' \ evidence, e.phase = "AUTHORIZED_APPLY"
  PROVE \E v \in evidence : /\ v.phase = "DESTRUCTIVE_REVIEW" /\ v.ok = "yes"
                            /\ acDay - v.day <= MaxAge
<1>1. RecordEvidence
  <2>1. ~(UNCHANGED evidence)
    OBVIOUS
  <2>. QED BY <2>1 DEF AcceptNext, acVars, RecordMerged, AwaitEvidence,
        ContinueMerged, FailPhase, EnqueueRepair, PassPhase, ContinuePhase, Finalize,
        RecoverStopped, ReconcileRollout, FinalizeParent, Deposit, Cut, NextDay
<1>2. PICK r \in AcIds : Accepts(r) /\ e.phase = acRows[r].type
  BY <1>1 DEF RecordEvidence
<1>3. PhaseIsProven(acRows[r].req, "DESTRUCTIVE_REVIEW")
  BY <1>2 DEF Accepts, ReviewBehind
<1>. QED BY <1>3 DEF PhaseIsProven, Verified

(***************************************************************************)
(* The acceptance of a merged issue acts on fresh proof only, however long *)
(* its phases take and wherever a cycle is cut: an apply is recorded on a  *)
(* review of its plan that is still fresh, and the issue is closed on a    *)
(* fresh passing record for every phase of its contract.                   *)
(***************************************************************************)
THEOREM ActsOnFreshProofHolds ==
  AcceptSpec => ActsOnFreshProof
<1>1. AcceptInit => AcceptInv
  BY AcceptBegins
<1>2. AcceptInv /\ [AcceptNext]_acVars => AcceptInv'
  BY AcceptInductive
<1>3. AcceptInv => AcceptTypeOK
  BY ShapeFollows
<1>4. AcceptInv /\ [AcceptNext]_acVars =>
        [\A e \in evidence' \ evidence : e.phase = "AUTHORIZED_APPLY" =>
            \E v \in evidence : /\ v.phase = "DESTRUCTIVE_REVIEW" /\ v.ok = "yes"
                                 /\ acDay - v.day <= MaxAge]_acVars
  BY AppliesOnReview
<1>5. AcceptInv /\ [AcceptNext]_acVars =>
        [acOpen /\ ~acOpen' =>
            /\ merges > 0 \/ contract = <<>>
            /\ \A i \in DOMAIN contract : \A ph \in Range(PhasesOf[contract[i]]) :
                \E e \in evidence : /\ e.req = contract[i] /\ e.phase = ph /\ e.ok = "yes"
                                     /\ acDay - e.day <= MaxAge]_acVars
  BY ClosesOnlyProven
<1>. QED BY <1>1, <1>2, <1>3, <1>4, <1>5, PTL
         DEF AcceptSpec, ActsOnFreshProof, ApplyOnFreshReview, ClosedOnlyProven

-----------------------------------------------------------------------------
(* TeamSupervisor: the restarts that an incident costs.                    *)

FaultKinds == {"none", "ORCHESTRATOR_TIMER_DOWN", "ORCHESTRATOR_SERVICE_HUNG",
               "RUNTIME_STATUS_UNPARSEABLE", "RUNTIME_STATUS_STALE", "ACTIONABLE_NO_PROGRESS"}
Incident == [kind : FaultKinds, mat : 0 .. Materials, attempts : 0 .. MaxRecoveryAttempts,
             last : 0 .. Cooldown + 1, escalated : BOOLEAN]
Memory == [mat : 0 .. Materials, since : 0 .. NoProgressAfter + 1, incident : Incident]
SupShape ==
    /\ timerUp \in BOOLEAN
    /\ service \in [on : BOOLEAN, age : 0 .. HangAfter + 1, hung : BOOLEAN]
    /\ board \in [beat : -1 .. StaleAfter + 1, mat : 1 .. Materials, actionable : BOOLEAN]
    /\ saved \in Memory
    /\ suPc \in [at : {"idle", "fetch", "recover", "save"}, timer : BOOLEAN, on : BOOLEAN,
                 kind : FaultKinds, mem : Memory]
    /\ restarts \in [kind : FaultKinds, mat : 0 .. Materials, n : Nat]
    /\ supFaults \in 0 .. MaxSupFaults /\ supKills \in 0 .. MaxSupKills

(* The restarts of a fault are on record in the saved incident, if that is *)
(* still the incident of the fault, but for one restart per killed check   *)
(* and one that the running check has yet to save.                         *)
OnRecord == IF SameIncident(saved.incident, restarts.kind, restarts.mat)
            THEN saved.incident.attempts ELSE 0
Unsaved == IF suPc.at = "save" THEN 1 ELSE 0
Charged == restarts.n <= OnRecord + supKills + Unsaved

(* The running check holds the incident it answers, with the record of all *)
(* restarts but those of the killed checks.                                *)
Answering ==
    suPc.at \in {"recover", "save"} =>
        /\ SameIncident(suPc.mem.incident, restarts.kind, restarts.mat)
        /\ restarts.n <= suPc.mem.incident.attempts + supKills
        /\ suPc.at = "recover" => suPc.mem.incident.attempts < MaxRecoveryAttempts
SupInv == SupShape /\ Charged /\ Answering

LEMMA SupConstants ==
  /\ StaleAfter \in Nat /\ NoProgressAfter \in Nat /\ HangAfter \in Nat /\ Cooldown \in Nat
  /\ MaxSupFaults \in Nat /\ MaxSupKills \in Nat
  /\ MaxRecoveryAttempts \in Nat \ {0} /\ Materials \in Nat \ {0}
  BY SupervisorAssumption

LEMMA SupRecords ==
  /\ NoSuIncident \in Incident
  /\ SuIdle \in [at : {"idle", "fetch", "recover", "save"}, timer : BOOLEAN, on : BOOLEAN,
                 kind : FaultKinds, mem : Memory]
  /\ NoRestarts \in [kind : FaultKinds, mat : 0 .. Materials, n : Nat]
  /\ NoService \in [on : BOOLEAN, age : 0 .. HangAfter + 1, hung : BOOLEAN]
  /\ NewService \in [on : BOOLEAN, age : 0 .. HangAfter + 1, hung : BOOLEAN]
<1>1. NoSuIncident \in Incident
  BY SupConstants DEF NoSuIncident, Incident, FaultKinds
<1>2. [mat |-> 0, since |-> 0, incident |-> NoSuIncident] \in Memory
  BY <1>1, SupConstants DEF Memory
<1>3. SuIdle \in [at : {"idle", "fetch", "recover", "save"}, timer : BOOLEAN, on : BOOLEAN,
                  kind : FaultKinds, mem : Memory]
  BY <1>2 DEF SuIdle, FaultKinds
<1>. QED BY <1>1, <1>3, SupConstants DEF NoRestarts, NoService, NewService, FaultKinds

(* An age keeps to its range.                                              *)
LEMMA OlderBounded ==
  ASSUME NEW t \in Nat, NEW a \in 0 .. t + 1
  PROVE  Older(a, t) \in 0 .. t + 1
  BY DEF Older

LEMMA SupBegins ==
  SupInit => SupInv
<1>. SUFFICES ASSUME SupInit PROVE SupInv
  OBVIOUS
<1>1. SupShape
  BY SupRecords, SupConstants DEF SupInit, SupShape, Memory
<1>2. Charged /\ Answering
  BY SupConstants
     DEF SupInit, Charged, Answering, OnRecord, Unsaved, SuIdle, NoRestarts, NoSuIncident,
         SameIncident
<1>. QED BY <1>1, <1>2 DEF SupInv

(* What leaves the check, the restarts and the kills alone keeps the count.*)
LEMMA CountKept ==
  ASSUME SupInv, SupShape', UNCHANGED <<suPc, restarts, supKills>>,
         saved'.incident.kind = saved.incident.kind, saved'.incident.mat = saved.incident.mat,
         saved'.incident.attempts = saved.incident.attempts
  PROVE  SupInv'
<1>1. Charged'
  BY DEF SupInv, Charged, OnRecord, Unsaved, SameIncident
<1>2. Answering'
  BY DEF SupInv, Answering, SameIncident
<1>. QED BY <1>1, <1>2 DEF SupInv

LEMMA SurroundingsKeep ==
  SupInv /\ (TimerFires \/ CycleMirrors \/ CycleEnds \/ Fault) => SupInv'
<1>. SUFFICES ASSUME SupInv, TimerFires \/ CycleMirrors \/ CycleEnds \/ Fault PROVE SupInv'
  OBVIOUS
<1>1. CASE TimerFires
  <2>1. SupShape'
    BY <1>1, SupRecords DEF TimerFires, SupInv, SupShape
  <2>. QED BY <1>1, <2>1, CountKept DEF TimerFires
<1>2. CASE CycleMirrors
  <2>1. board' \in [beat : -1 .. StaleAfter + 1, mat : 1 .. Materials, actionable : BOOLEAN]
    BY <1>2, SupConstants DEF CycleMirrors, SupInv, SupShape
  <2>2. SupShape'
    BY <1>2, <2>1 DEF CycleMirrors, SupInv, SupShape
  <2>. QED BY <1>2, <2>2, CountKept DEF CycleMirrors
<1>3. CASE CycleEnds
  <2>1. SupShape'
    BY <1>3, SupRecords DEF CycleEnds, SupInv, SupShape
  <2>. QED BY <1>3, <2>1, CountKept DEF CycleEnds
<1>4. CASE Fault
  <2>1. service' \in [on : BOOLEAN, age : 0 .. HangAfter + 1, hung : BOOLEAN]
    BY <1>4 DEF Fault, SupInv, SupShape
  <2>2. board' \in [beat : -1 .. StaleAfter + 1, mat : 1 .. Materials, actionable : BOOLEAN]
    BY <1>4, SupConstants DEF Fault, SupInv, SupShape, Unreadable
  <2>3. timerUp' \in BOOLEAN
    BY <1>4 DEF Fault, SupInv, SupShape
  <2>4. supFaults' \in 0 .. MaxSupFaults
    <3>1. supFaults < MaxSupFaults /\ supFaults' = supFaults + 1
      BY <1>4 DEF Fault
    <3>. QED BY <3>1, SupConstants DEF SupInv, SupShape
  <2>5. SupShape'
    BY <1>4, <2>1, <2>2, <2>3, <2>4 DEF Fault, SupInv, SupShape
  <2>. QED BY <1>4, <2>5, CountKept DEF Fault
<1>. QED BY <1>1, <1>2, <1>3, <1>4

LEMMA TickKeeps ==
  SupInv /\ Tick => SupInv'
<1>. SUFFICES ASSUME SupInv, Tick PROVE SupInv'
  OBVIOUS
<1>1. service' \in [on : BOOLEAN, age : 0 .. HangAfter + 1, hung : BOOLEAN]
  <2>1. Older(service.age, HangAfter) \in 0 .. HangAfter + 1
    BY OlderBounded, SupConstants DEF SupInv, SupShape
  <2>. QED BY <2>1 DEF Tick, SupInv, SupShape
<1>2. board' \in [beat : -1 .. StaleAfter + 1, mat : 1 .. Materials, actionable : BOOLEAN]
  <2>1. board.beat # Unreadable => Older(board.beat, StaleAfter) \in 0 .. StaleAfter + 1
    <3>1. board.beat # Unreadable => board.beat \in 0 .. StaleAfter + 1
      BY SupConstants DEF SupInv, SupShape, Unreadable
    <3>. QED BY <3>1, OlderBounded, SupConstants
  <2>2. board.beat # Unreadable => Older(board.beat, StaleAfter) \in -1 .. StaleAfter + 1
    BY <2>1, SupConstants
  <2>. QED BY <2>2 DEF Tick, SupInv, SupShape
<1>3. /\ saved' \in Memory
      /\ saved'.incident.kind = saved.incident.kind /\ saved'.incident.mat = saved.incident.mat
      /\ saved'.incident.attempts = saved.incident.attempts
  <2>1. saved \in Memory /\ saved.incident \in Incident
    BY DEF SupInv, SupShape, Memory
  <2>2. Older(saved.since, NoProgressAfter) \in 0 .. NoProgressAfter + 1
    BY <2>1, OlderBounded, SupConstants DEF Memory
  <2>3. Older(saved.incident.last, Cooldown) \in 0 .. Cooldown + 1
    BY <2>1, OlderBounded, SupConstants DEF Incident
  <2>4. [saved.incident EXCEPT !.last = Older(@, Cooldown)] \in Incident
    BY <2>1, <2>3 DEF Incident
  <2>5. saved' = [saved EXCEPT !.since = Older(@, NoProgressAfter),
                      !.incident = [saved.incident EXCEPT !.last = Older(@, Cooldown)]]
    BY <2>1 DEF Tick, Memory
  <2>. QED BY <2>1, <2>2, <2>4, <2>5 DEF Memory, Incident
<1>4. SupShape'
  BY <1>1, <1>2, <1>3 DEF Tick, SupInv, SupShape
<1>. QED BY <1>3, <1>4, CountKept DEF Tick

(* A check that decides upon a fault.                                      *)
LEMMA DecideKeeps ==
  ASSUME SupInv, NEW kind \in FaultKinds, NEW mat \in 0 .. Materials, NEW mem \in Memory,
         NEW timer \in BOOLEAN, NEW on \in BOOLEAN, mem.incident = saved.incident,
         suPc.at \in {"idle", "fetch"}, Decide(kind, mat, mem, timer, on),
         UNCHANGED <<timerUp, service, board, supFaults, supKills>>
  PROVE  SupInv'
<1> DEFINE i == Opened(mem.incident, kind, mat)
           kept == [mem EXCEPT !.incident = i]
<1>1. mem.incident \in Incident /\ saved \in Memory /\ saved.incident \in Incident
  BY DEF Memory, SupInv, SupShape
<1>2. /\ i \in Incident /\ i.kind = kind /\ i.mat = mat
      /\ i.attempts = IF SameIncident(saved.incident, kind, mat) THEN saved.incident.attempts ELSE 0
  <2>1. CASE SameIncident(mem.incident, kind, mat)
    BY <1>1, <2>1 DEF Opened, SameIncident
  <2>2. CASE ~SameIncident(mem.incident, kind, mat)
    <3>1. i = [NoSuIncident EXCEPT !.kind = kind, !.mat = mat]
      BY <2>2 DEF Opened
    <3>2. i = [kind |-> kind, mat |-> mat, attempts |-> 0, last |-> Cooldown + 1,
               escalated |-> FALSE]
      BY <3>1 DEF NoSuIncident
    <3>. HIDE DEF i
    <3>. QED BY <2>2, <3>2, SupConstants DEF Incident, FaultKinds
  <2>. QED BY <2>1, <2>2
<1>. HIDE DEF i
<1>3. kept \in Memory /\ kept.incident = i
  BY <1>2 DEF Memory
<1>4. restarts' = IF SameIncident(restarts, kind, mat) THEN restarts
                  ELSE [kind |-> kind, mat |-> mat, n |-> 0]
  BY DEF Decide
<1>5. restarts' \in [kind : FaultKinds, mat : 0 .. Materials, n : Nat]
      /\ restarts'.kind = kind /\ restarts'.mat = mat
  BY <1>4 DEF SupInv, SupShape, SameIncident
<1>6. restarts'.n <= i.attempts + supKills
  <2>1. CASE SameIncident(restarts, kind, mat)
    <3>1. restarts.kind = kind /\ restarts.mat = mat /\ restarts' = restarts
      BY <2>1, <1>4 DEF SameIncident
    <3>2. restarts.n <= OnRecord + supKills
      BY DEF SupInv, SupShape, Charged, Unsaved, OnRecord, Memory, Incident
    <3>3. OnRecord = i.attempts
      BY <3>1, <1>2 DEF OnRecord
    <3>. QED BY <3>1, <3>2, <3>3
  <2>2. CASE ~SameIncident(restarts, kind, mat)
    BY <2>2, <1>4, <1>2 DEF SupInv, SupShape, Incident
  <2>. QED BY <2>1, <2>2
<1>7. CASE UnderBudget(mem.incident, kind, mat)
  <2>1. suPc' = [at |-> "recover", timer |-> timer, on |-> on, kind |-> kind, mem |-> kept]
        /\ saved' = saved
    BY <1>7 DEF Decide, i
  <2>2. SupShape'
    BY <2>1, <1>3, <1>5 DEF SupInv, SupShape
  <2>3. i.attempts < MaxRecoveryAttempts
    BY <1>7, <1>1, <1>2, SupConstants DEF UnderBudget, Incident
  <2>4. Answering'
    BY <2>1, <1>2, <1>3, <1>5, <1>6, <2>3 DEF Answering, SameIncident
  <2>5. Charged'
    BY <2>1, <1>2, <1>5, <1>6 DEF Charged, OnRecord, Unsaved, SameIncident, Incident, SupInv, SupShape
  <2>. QED BY <2>2, <2>4, <2>5 DEF SupInv
<1>8. CASE ~UnderBudget(mem.incident, kind, mat)
  <2>1. /\ suPc' = SuIdle
        /\ saved' = [kept EXCEPT !.incident.escalated = @ \/ i.attempts >= MaxRecoveryAttempts]
    BY <1>8 DEF Decide, i
  <2>2. saved' = [kept EXCEPT !.incident =
                     [i EXCEPT !.escalated = @ \/ i.attempts >= MaxRecoveryAttempts]]
    BY <2>1, <1>3
  <2>3. [i EXCEPT !.escalated = @ \/ i.attempts >= MaxRecoveryAttempts] \in Incident
    BY <1>2 DEF Incident
  <2>4. saved' \in Memory /\ saved'.incident.kind = kind /\ saved'.incident.mat = mat
        /\ saved'.incident.attempts = i.attempts
    BY <2>2, <2>3, <1>2, <1>3 DEF Memory, Incident
  <2>5. SupShape'
    BY <2>1, <2>4, <1>5, SupRecords DEF SupInv, SupShape
  <2>6. Answering'
    BY <2>1 DEF Answering, SuIdle
  <2>7. Charged'
    BY <2>1, <2>4, <1>5, <1>6, <1>2
       DEF Charged, OnRecord, Unsaved, SameIncident, SuIdle, Incident, SupInv, SupShape
  <2>. QED BY <2>5, <2>6, <2>7 DEF SupInv
<1>. QED BY <1>7, <1>8

LEMMA MaterialClockTyped ==
  ASSUME SupShape
  PROVE  MaterialClock \in Memory /\ MaterialClock.incident = saved.incident
<1>1. saved \in Memory /\ board.mat \in 0 .. Materials /\ 0 \in 0 .. NoProgressAfter + 1
  BY SupConstants DEF SupShape
<1>2. CASE saved.mat = board.mat
  BY <1>1, <1>2 DEF MaterialClock
<1>3. CASE saved.mat # board.mat
  <2>1. MaterialClock = [saved EXCEPT !.mat = board.mat, !.since = 0]
    BY <1>3 DEF MaterialClock
  <2>. QED BY <1>1, <2>1 DEF Memory
<1>. QED BY <1>2, <1>3

LEMMA RuntimeFaultTyped ==
  ASSUME SupShape
  PROVE  RuntimeFault \in FaultKinds
<1>1. board.beat \in Int /\ StaleAfter \in Nat
  BY SupConstants DEF SupShape
<1>. QED BY <1>1 DEF RuntimeFault, FaultKinds, Unreadable

LEMMA CheckHostKeeps ==
  SupInv /\ CheckHost => SupInv'
<1>. SUFFICES ASSUME SupInv, CheckHost PROVE SupInv'
  OBVIOUS
<1>1. saved \in Memory /\ 0 \in 0 .. Materials /\ service.on \in BOOLEAN
  BY SupConstants DEF SupInv, SupShape
<1>2. suPc.at = "idle" /\ UNCHANGED <<timerUp, service, board, supFaults, supKills>>
  BY DEF CheckHost
<1>3. CASE ~timerUp
  <2>1. Decide("ORCHESTRATOR_TIMER_DOWN", 0, saved, FALSE, service.on)
    BY <1>3 DEF CheckHost
  <2>. QED BY <2>1, <1>1, <1>2, DecideKeeps DEF FaultKinds
<1>4. CASE timerUp /\ service.on /\ service.age > HangAfter
  <2>1. Decide("ORCHESTRATOR_SERVICE_HUNG", 0, saved, TRUE, TRUE)
    BY <1>4 DEF CheckHost
  <2>. QED BY <2>1, <1>1, <1>2, DecideKeeps DEF FaultKinds
<1>5. CASE timerUp /\ ~(service.on /\ service.age > HangAfter)
  <2>1. suPc' = [SuIdle EXCEPT !.at = "fetch", !.on = service.on] /\ UNCHANGED <<saved, restarts>>
    BY <1>5 DEF CheckHost
  <2>2. suPc'.at = "fetch"
        /\ suPc' \in [at : {"idle", "fetch", "recover", "save"}, timer : BOOLEAN, on : BOOLEAN,
                      kind : FaultKinds, mem : Memory]
    BY <2>1, <1>1, SupRecords DEF SuIdle
  <2>3. SupShape'
    BY <2>1, <2>2, <1>2 DEF SupInv, SupShape
  <2>4. Charged' /\ Answering'
    BY <2>1, <2>2, <1>2 DEF SupInv, Charged, OnRecord, Unsaved, Answering, SameIncident
  <2>. QED BY <2>3, <2>4 DEF SupInv
<1>. QED BY <1>3, <1>4, <1>5

LEMMA CheckMirrorKeeps ==
  SupInv /\ CheckMirror => SupInv'
<1>. SUFFICES ASSUME SupInv, CheckMirror PROVE SupInv'
  OBVIOUS
<1>1. suPc.at = "fetch" /\ UNCHANGED <<timerUp, service, board, supFaults, supKills>>
  BY DEF CheckMirror
<1>2. CASE suPc' = SuIdle /\ UNCHANGED <<saved, restarts>>
  <2>1. SupShape'
    BY <1>1, <1>2, SupRecords DEF SupInv, SupShape
  <2>2. Charged' /\ Answering'
    BY <1>1, <1>2 DEF SupInv, Charged, OnRecord, Unsaved, Answering, SameIncident, SuIdle
  <2>. QED BY <2>1, <2>2 DEF SupInv
<1>3. CASE /\ saved' = [MaterialClock EXCEPT !.incident = NoSuIncident]
           /\ restarts' = NoRestarts /\ suPc' = SuIdle
  <2>1. saved' \in Memory /\ saved'.incident = NoSuIncident
    BY <1>3, MaterialClockTyped, SupRecords DEF SupInv, Memory
  <2>2. SupShape'
    BY <1>1, <1>3, <2>1, SupRecords DEF SupInv, SupShape
  <2>3. Charged' /\ Answering'
    BY <1>1, <1>3, <2>1
       DEF Charged, OnRecord, Unsaved, Answering, SameIncident, SuIdle, NoRestarts, NoSuIncident,
           SupInv, SupShape
  <2>. QED BY <2>2, <2>3 DEF SupInv
<1>4. CASE /\ RuntimeFault # "none"
           /\ Decide(RuntimeFault, IF board.beat = Unreadable THEN 0 ELSE board.mat,
                     IF RuntimeFault = "ACTIONABLE_NO_PROGRESS" THEN MaterialClock ELSE saved,
                     TRUE, suPc.on)
  <2> DEFINE mat == IF board.beat = Unreadable THEN 0 ELSE board.mat
             mem == IF RuntimeFault = "ACTIONABLE_NO_PROGRESS" THEN MaterialClock ELSE saved
  <2>1. mat \in 0 .. Materials
    BY SupConstants DEF SupInv, SupShape
  <2>2. mem \in Memory /\ mem.incident = saved.incident
    BY MaterialClockTyped DEF SupInv, SupShape
  <2>3. RuntimeFault \in FaultKinds /\ suPc.on \in BOOLEAN
    BY RuntimeFaultTyped DEF SupInv, SupShape
  <2>4. Decide(RuntimeFault, mat, mem, TRUE, suPc.on)
    BY <1>4
  <2>. HIDE DEF mat, mem
  <2>. QED BY <2>1, <2>2, <2>3, <2>4, <1>1, DecideKeeps
<1>. QED BY <1>2, <1>3, <1>4 DEF CheckMirror

(* An attempt is counted within the budget.                                *)
LEMMA OneMoreAttempt ==
  ASSUME NEW i \in Incident, i.attempts < MaxRecoveryAttempts
  PROVE  /\ Counted(i) \in Incident /\ Counted(i).attempts = i.attempts + 1
         /\ Counted(i).kind = i.kind /\ Counted(i).mat = i.mat
<1>1. i.attempts + 1 \in 0 .. MaxRecoveryAttempts /\ 0 \in 0 .. Cooldown + 1
  BY SupConstants DEF Incident
<1>. QED BY <1>1 DEF Incident, Counted

LEMMA RecoverHostKeeps ==
  SupInv /\ RecoverHost => SupInv'
<1>. SUFFICES ASSUME SupInv, RecoverHost PROVE SupInv'
  OBVIOUS
<1> DEFINE i == suPc.mem.incident
<1>1. suPc.at = "recover" /\ UNCHANGED <<board, saved, supFaults, supKills>>
  BY DEF RecoverHost
<1>2. i \in Incident /\ suPc.mem \in Memory /\ i.attempts < MaxRecoveryAttempts
      /\ SameIncident(i, restarts.kind, restarts.mat) /\ restarts.n <= i.attempts + supKills
  BY <1>1 DEF SupInv, SupShape, Answering, Memory
<1>3. timerUp' \in BOOLEAN /\ service' \in [on : BOOLEAN, age : 0 .. HangAfter + 1, hung : BOOLEAN]
  BY SupRecords DEF RecoverHost, SupInv, SupShape
<1>4. \/ Outcome(FALSE) /\ restarts' = restarts
      \/ Outcome(TRUE) /\ restarts' = restarts
      \/ Outcome(TRUE) /\ restarts' = [restarts EXCEPT !.n = @ + 1]
  BY DEF RecoverHost
<1>5. ASSUME NEW j \in Incident, suPc' = [suPc EXCEPT !.at = "save", !.mem.incident = j],
             SameIncident(j, restarts.kind, restarts.mat),
             NEW n \in Nat, restarts' = [restarts EXCEPT !.n = n],
             n <= j.attempts + supKills, n <= restarts.n + 1
      PROVE  SupInv'
  <2>1. suPc' = [suPc EXCEPT !.at = "save", !.mem = [suPc.mem EXCEPT !.incident = j]]
    BY <1>5 DEF SupInv, SupShape
  <2>2. [suPc.mem EXCEPT !.incident = j] \in Memory
    BY <1>2 DEF Memory
  <2>3. suPc'.at = "save" /\ suPc'.mem.incident = j
        /\ suPc' \in [at : {"idle", "fetch", "recover", "save"}, timer : BOOLEAN, on : BOOLEAN,
                      kind : FaultKinds, mem : Memory]
    BY <2>1, <2>2, <1>2 DEF SupInv, SupShape, Memory
  <2>4. restarts' \in [kind : FaultKinds, mat : 0 .. Materials, n : Nat]
        /\ restarts'.n = n /\ restarts'.kind = restarts.kind /\ restarts'.mat = restarts.mat
    BY <1>5 DEF SupInv, SupShape
  <2>5. SupShape'
    BY <1>1, <1>3, <2>3, <2>4 DEF SupInv, SupShape
  <2>6. Answering'
    BY <1>1, <1>5, <2>3, <2>4 DEF Answering, SameIncident
  <2>7. Charged'
    BY <1>1, <1>5, <2>3, <2>4
       DEF SupInv, SupShape, Charged, OnRecord, Unsaved, SameIncident, Memory, Incident
  <2>. QED BY <2>5, <2>6, <2>7 DEF SupInv
<1>6. restarts.n \in Nat /\ restarts = [restarts EXCEPT !.n = restarts.n]
  BY DEF SupInv, SupShape
<1>7. CASE Outcome(FALSE) /\ restarts' = restarts
  <2>1. suPc' = [suPc EXCEPT !.at = "save", !.mem.incident = i]
    BY <1>7 DEF Outcome
  <2>2. \A n \in Nat : restarts' = [restarts EXCEPT !.n = n] /\ n <= i.attempts + supKills
                         /\ n <= restarts.n + 1 => SupInv'
    BY <2>1, <1>2, <1>5
  <2>. QED BY <2>2, <1>2, <1>6, <1>7
<1>8. CASE Outcome(TRUE) /\ restarts' \in {restarts, [restarts EXCEPT !.n = @ + 1]}
  <2> DEFINE j == Counted(i)
  <2>1. suPc' = [suPc EXCEPT !.at = "save", !.mem.incident = j]
    BY <1>8 DEF Outcome
  <2>2. j \in Incident /\ j.attempts = i.attempts + 1 /\ j.kind = i.kind /\ j.mat = i.mat
    BY <1>2, OneMoreAttempt
  <2>3. SameIncident(j, restarts.kind, restarts.mat)
    BY <2>2, <1>2 DEF SameIncident
  <2>4. PICK n \in {restarts.n, restarts.n + 1} : restarts' = [restarts EXCEPT !.n = n]
    BY <1>6, <1>8
  <2>5. n \in Nat /\ n <= restarts.n + 1 /\ n <= j.attempts + supKills
    BY <1>2, <1>6, <2>2 DEF Incident, SupInv, SupShape
  <2>. HIDE DEF j
  <2>. QED BY <2>1, <2>2, <2>3, <2>4, <2>5, <1>5
<1>. QED BY <1>4, <1>7, <1>8

LEMMA SaveKeeps ==
  SupInv /\ Save => SupInv'
<1>. SUFFICES ASSUME SupInv, Save PROVE SupInv'
  OBVIOUS
<1>1. SupShape'
  BY SupRecords DEF Save, SupInv, SupShape
<1>2. Answering'
  BY DEF Save, Answering, SuIdle
<1>3. Charged'
  <2>1. /\ saved' = suPc.mem /\ suPc'.at = "idle" /\ restarts' = restarts /\ supKills' = supKills
        /\ SameIncident(suPc.mem.incident, restarts.kind, restarts.mat)
        /\ restarts.n <= suPc.mem.incident.attempts + supKills
    BY DEF Save, SupInv, Answering, SuIdle
  <2>2. OnRecord' = suPc.mem.incident.attempts /\ Unsaved' = 0
    BY <2>1 DEF OnRecord, Unsaved, SameIncident
  <2>3. suPc.mem.incident.attempts \in Nat /\ supKills \in Nat
    BY DEF SupInv, SupShape, Memory, Incident
  <2>. QED BY <2>1, <2>2, <2>3 DEF Charged
<1>. QED BY <1>1, <1>2, <1>3 DEF SupInv

(* A killed check takes at most one restart with it that no record has.    *)
LEMMA KillCheckKeeps ==
  SupInv /\ KillCheck => SupInv'
<1>. SUFFICES ASSUME SupInv, KillCheck PROVE SupInv'
  OBVIOUS
<1>1. SupShape'
  BY SupRecords, SupConstants DEF KillCheck, SupInv, SupShape
<1>2. Answering'
  BY DEF KillCheck, Answering, SuIdle
<1>3. Charged'
  BY DEF KillCheck, SupInv, SupShape, Charged, OnRecord, Unsaved, SameIncident, SuIdle, Memory,
         Incident
<1>. QED BY <1>1, <1>2, <1>3 DEF SupInv

LEMMA SupInductive ==
  SupInv /\ [SupNext]_suVars => SupInv'
<1>1. SupInv /\ SupNext => SupInv'
  BY SurroundingsKeep, TickKeeps, CheckHostKeeps, CheckMirrorKeeps, RecoverHostKeeps, SaveKeeps,
     KillCheckKeeps
     DEF SupNext, Supervise
<1>2. SupInv /\ UNCHANGED suVars => SupInv'
  BY DEF suVars, SupInv, SupShape, Charged, OnRecord, Unsaved, Answering, SameIncident
<1>. QED BY <1>1, <1>2

LEMMA BudgetFollows ==
  SupInv => RestartsBounded
<1>. SUFFICES ASSUME SupInv PROVE RestartsBounded
  OBVIOUS
<1>1. SupTypeOK
  BY DEF SupInv, SupShape, SupTypeOK, Memory, Incident
<1>2. RestartBudget
  <2>1. saved.incident.attempts \in 0 .. MaxRecoveryAttempts
        /\ suPc.mem.incident.attempts \in 0 .. MaxRecoveryAttempts
        /\ restarts.n \in Nat /\ supKills \in Nat /\ MaxRecoveryAttempts \in Nat
    BY SupConstants DEF SupInv, SupShape, Memory, Incident
  <2>2. CASE suPc.at = "save"
    BY <2>1, <2>2 DEF SupInv, Answering, RestartBudget
  <2>3. CASE suPc.at # "save"
    BY <2>1, <2>3 DEF SupInv, Charged, OnRecord, Unsaved, RestartBudget
  <2>. QED BY <2>2, <2>3
<1>. QED BY <1>1, <1>2 DEF RestartsBounded

(***************************************************************************)
(* However the checks of the supervisor are killed between a restart and   *)
(* its record, and whatever the host and the mirror do meanwhile, a fault  *)
(* that does not go away costs at most MAX_RECOVERY_ATTEMPTS restarts and  *)
(* one more for every killed check.                                        *)
(***************************************************************************)
THEOREM RestartsBoundedHolds ==
  SupSpec => []RestartsBounded
<1>1. SupInit => SupInv
  BY SupBegins
<1>2. SupInv /\ [SupNext]_suVars => SupInv'
  BY SupInductive
<1>3. SupInv => RestartsBounded
  BY BudgetFollows
<1>. QED BY <1>1, <1>2, <1>3, PTL DEF SupSpec

-----------------------------------------------------------------------------
(* TeamProjection: the outbox, the board and the pass of the bridge.       *)

ProjectEvent == [issue : PrIssues, step : 1 .. Completed]
RepairItem == [issue : PrIssues, step : {0}]
CardLists == {"none", "IN_PROGRESS", "REVIEW_CI", "DONE"}

OutboxFits ==
    /\ prStep \in [PrIssues -> 0 .. Completed]
    /\ prFaults \in Nat
    /\ outbox \in Seq(ProjectEvent)
    /\ \A n \in DOMAIN outbox : outbox[n].step <= prStep[outbox[n].issue]
    /\ \A m, n \in DOMAIN outbox : m < n /\ outbox[m].issue = outbox[n].issue => outbox[m].step < outbox[n].step

BoardFits ==
    /\ boardCards \in [PrIssues -> [list : CardLists, dups : 0 .. 1]]
    /\ DoneOnlyWhenCompleted

PassRecord ==
    [at : {"idle", "next", "rows", "repair", "upsert", "archive", "comment", "unlink"},
     todo : Seq(ProjectEvent), repair : Seq(RepairItem),
     used : 0 .. PassLimit, failed : SUBSET PrIssues, known : 0 .. 1]
PassFits ==
    /\ pass \in PassRecord
    /\ pass.at \in {"idle", "rows", "repair"} => pass.todo = <<>>
    /\ pass.at \in {"upsert", "archive", "comment", "unlink"} => pass.todo # <<>> \/ pass.repair # <<>>
    /\ pass.at = "archive" => boardCards[Current.issue].dups \in {0, 1} /\ pass.known <= boardCards[Current.issue].dups
    /\ Len(pass.todo) + Len(pass.repair) + pass.used <= PassLimit
    /\ \A n \in DOMAIN pass.todo : pass.todo[n].step <= prStep[pass.todo[n].issue]
    /\ \A n \in DOMAIN pass.repair : prStep[pass.repair[n].issue] > 0

(* What the pass has still to do of an issue that did not fail are the     *)
(* oldest of its events: an older one that is left comes before it.        *)
OldestFirst ==
    \A m \in DOMAIN pass.todo, n \in DOMAIN outbox :
        /\ outbox[n].issue = pass.todo[m].issue /\ outbox[n].step < pass.todo[m].step
        /\ pass.todo[m].issue \notin pass.failed
        => \E k \in DOMAIN pass.todo : k < m /\ pass.todo[k] = outbox[n]
Projecting ==
    /\ FromOutbox /\ pass.at \in {"upsert", "archive", "comment", "unlink"} => Current.issue \notin pass.failed
    /\ FromOutbox /\ pass.at = "unlink" /\ Notify(Current) => Current \in commented

ProjectInv == OutboxFits /\ BoardFits /\ PassFits /\ OldestFirst /\ Projecting

-----------------------------------------------------------------------------
LEMMA LifeSteps ==
    /\ Completed = 3
    /\ Life[1].event = "IN_PROGRESS" /\ Life[2].event = "REVIEW_CI" /\ Life[3].event = "DONE"
    /\ Life[1].row = "IN_PROGRESS" /\ Life[2].row = "IN_PROGRESS" /\ Life[3].row = "DONE"
BY DEF Completed, Life

LEMMA EventFits == \A e \in ProjectEvent : e.issue \in PrIssues /\ e.step \in Nat
<1>1. 1 .. Completed \subseteq Nat
    BY LifeSteps
<1> QED BY <1>1 DEF ProjectEvent

LEMMA ProjectInitHolds == ProjectInit => ProjectInv
<1> SUFFICES ASSUME ProjectInit PROVE ProjectInv
    OBVIOUS
<1> USE ProjectionAssumption, LifeSteps DEF ProjectInit
<1>1. OutboxFits
    BY DEF OutboxFits
<1>2. BoardFits
    BY DEF BoardFits, DoneOnlyWhenCompleted, CardLists
<1>3. PassFits /\ OldestFirst /\ Projecting
    BY DEF PassFits, PassRecord, OldestFirst, Projecting, BridgeIdle, FromOutbox
<1> QED BY <1>1, <1>2, <1>3 DEF ProjectInv

(* The item at hand, and what follows it.                                  *)
LEMMA CurrentFits ==
    ASSUME ProjectInv, pass.at \in {"upsert", "archive", "comment", "unlink"}
    PROVE  /\ Current.issue \in PrIssues /\ CurrentList \in CardLists
           /\ CurrentList = "DONE" => prStep[Current.issue] = Completed
           /\ FromOutbox => /\ Current \in ProjectEvent /\ Current = pass.todo[1]
                            /\ Tail(pass.todo) \in Seq(ProjectEvent) /\ Len(Tail(pass.todo)) = Len(pass.todo) - 1
                            /\ \A n \in DOMAIN Tail(pass.todo) : n + 1 \in DOMAIN pass.todo /\ Tail(pass.todo)[n] = pass.todo[n + 1]
           /\ ~FromOutbox => /\ pass.todo = <<>> /\ Tail(pass.repair) \in Seq(RepairItem)
                             /\ Len(Tail(pass.repair)) = Len(pass.repair) - 1
                             /\ \A n \in DOMAIN Tail(pass.repair) : n + 1 \in DOMAIN pass.repair /\ Tail(pass.repair)[n] = pass.repair[n + 1]
<1> USE LifeSteps
<1>a. PassFits /\ OutboxFits
    BY DEF ProjectInv
<1>1. CASE FromOutbox
    <2>1. pass.todo \in Seq(ProjectEvent) /\ pass.todo # <<>>
        BY <1>1, <1>a DEF PassFits, PassRecord, FromOutbox
    <2>2. Current = pass.todo[1] /\ Current \in ProjectEvent /\ 1 \in DOMAIN pass.todo
        BY <2>1, <1>1 DEF Current
    <2>3. CurrentList \in CardLists /\ (CurrentList = "DONE" => Current.step = 3)
        BY <2>2, <1>1 DEF CurrentList, EventList, CardLists, ProjectEvent
    <2>4. Current.step <= prStep[Current.issue] /\ prStep[Current.issue] \in 0 .. 3
        BY <2>2, <1>a DEF PassFits, PassRecord, OutboxFits, ProjectEvent
    <2> QED BY <1>1, <2>1, <2>2, <2>3, <2>4 DEF ProjectEvent
<1>2. CASE ~FromOutbox
    <2>1. pass.todo = <<>> /\ pass.repair # <<>> /\ pass.repair \in Seq(RepairItem)
        BY <1>2, <1>a DEF PassFits, PassRecord, FromOutbox
    <2>2. Current = pass.repair[1] /\ 1 \in DOMAIN pass.repair /\ Current \in RepairItem
        BY <2>1, <1>2 DEF Current
    <2>3. prStep[Current.issue] \in 1 .. 3
        BY <2>2, <1>a DEF PassFits, PassRecord, OutboxFits, RepairItem
    <2>4. CurrentList = RowList(Current.issue)
        BY <1>2 DEF CurrentList
    <2>5. CurrentList \in CardLists /\ (CurrentList = "DONE" => prStep[Current.issue] = 3)
        BY <2>3, <2>4 DEF RowList, CardLists
    <2> QED BY <1>2, <2>1, <2>2, <2>5 DEF RepairItem
<1> QED BY <1>1, <1>2

LEMMA AdvanceKeeps == ASSUME ProjectInv, NEW i \in PrIssues, Advance(i) PROVE ProjectInv'
<1> USE LifeSteps, ProjectionAssumption
<1>a. OutboxFits /\ BoardFits /\ PassFits /\ OldestFirst /\ Projecting
    BY DEF ProjectInv
<1> DEFINE new == [issue |-> i, step |-> prStep[i] + 1]
<1>1. /\ prStep[i] < Completed /\ prStep' = [prStep EXCEPT ![i] = prStep[i] + 1]
      /\ prStep' \in [PrIssues -> 0 .. Completed] /\ prFaults' \in Nat
      /\ UNCHANGED <<boardCards, pass, commented>>
    BY <1>a DEF Advance, OutboxFits, PrFault
<1>2. prStep'[i] = prStep[i] + 1 /\ (\A j \in PrIssues : prStep[j] <= prStep'[j]) /\ prStep[i] \in 0 .. 2
    BY <1>1, <1>a DEF OutboxFits
<1>b. \A e \in ProjectEvent : e.step <= prStep[e.issue] => e.step <= prStep'[e.issue]
    <2> SUFFICES ASSUME NEW e \in ProjectEvent, e.step <= prStep[e.issue] PROVE e.step <= prStep'[e.issue]
        OBVIOUS
    <2>1. e.issue \in PrIssues /\ e.step \in 1 .. 3
        BY DEF ProjectEvent
    <2>2. prStep[e.issue] \in 0 .. 3 /\ prStep'[e.issue] \in 0 .. 3
        BY <2>1, <1>1, <1>a DEF OutboxFits
    <2>3. prStep[e.issue] <= prStep'[e.issue]
        BY <2>1, <1>2
    <2> QED BY <2>1, <2>2, <2>3
<1>3. outbox' = outbox \/ outbox' = Append(outbox, new)
    BY DEF Advance
<1>4. new \in ProjectEvent
    BY <1>2 DEF ProjectEvent
<1>5. OutboxFits'
    <2>1. CASE outbox' = outbox
        <3>1. \A n \in DOMAIN outbox : outbox[n].step <= prStep'[outbox[n].issue]
            BY <1>b, <1>a DEF OutboxFits
        <3> QED BY <2>1, <3>1, <1>1, <1>a DEF OutboxFits
    <2>2. CASE outbox' = Append(outbox, new)
        <3>1. /\ outbox' \in Seq(ProjectEvent) /\ Len(outbox') = Len(outbox) + 1 /\ outbox'[Len(outbox) + 1] = new
              /\ \A n \in DOMAIN outbox : n \in DOMAIN outbox' /\ outbox'[n] = outbox[n]
            BY <2>2, <1>4, <1>a DEF OutboxFits
        <3>2. \A n \in DOMAIN outbox' : n \in DOMAIN outbox \/ n = Len(outbox) + 1
            BY <3>1, <1>a DEF OutboxFits
        <3>3. \A n \in DOMAIN outbox : outbox[n].step <= prStep[outbox[n].issue] /\ outbox[n] \in ProjectEvent
            BY <1>a DEF OutboxFits
        <3>4. \A n \in DOMAIN outbox' : outbox'[n].step <= prStep'[outbox'[n].issue]
            BY <3>1, <3>2, <3>3, <1>b, <1>2
        <3>5. ASSUME NEW m \in DOMAIN outbox', NEW n \in DOMAIN outbox', m < n, outbox'[m].issue = outbox'[n].issue
              PROVE  outbox'[m].step < outbox'[n].step
            <4>1. CASE n = Len(outbox) + 1
                <5>1. m \in DOMAIN outbox
                    BY <3>2, <3>5, <4>1
                <5> QED BY <5>1, <3>1, <3>3, <3>5, <4>1, <1>2 DEF ProjectEvent
            <4>2. CASE n \in DOMAIN outbox
                <5>1. m \in DOMAIN outbox
                    BY <3>2, <3>5, <4>2, <1>a DEF OutboxFits
                <5> QED BY <5>1, <4>2, <3>1, <3>5, <1>a DEF OutboxFits
            <4> QED BY <4>1, <4>2, <3>2
        <3> QED BY <3>1, <3>4, <3>5, <1>1 DEF OutboxFits
    <2> QED BY <1>3, <2>1, <2>2
<1>6. BoardFits'
    BY <1>1, <1>2, <1>a DEF BoardFits, DoneOnlyWhenCompleted, OutboxFits
<1>7. PassFits'
    <2>1. \A n \in DOMAIN pass.todo : pass.todo[n].step <= prStep'[pass.todo[n].issue]
        BY <1>b, <1>a DEF PassFits, PassRecord
    <2>2. \A n \in DOMAIN pass.repair : prStep'[pass.repair[n].issue] > 0
        BY <1>2, <1>1, <1>a DEF PassFits, PassRecord, OutboxFits, RepairItem
    <2> QED BY <2>1, <2>2, <1>1, <1>a DEF PassFits, PassRecord, Current, FromOutbox
<1>8. OldestFirst'
    <2>1. CASE outbox' = outbox
        BY <2>1, <1>1, <1>a DEF OldestFirst
    <2>2. CASE outbox' = Append(outbox, new)
        <3> SUFFICES ASSUME NEW m \in DOMAIN pass.todo, NEW n \in DOMAIN outbox',
                            outbox'[n].issue = pass.todo[m].issue, outbox'[n].step < pass.todo[m].step,
                            pass.todo[m].issue \notin pass.failed
                     PROVE  \E k \in DOMAIN pass.todo : k < m /\ pass.todo[k] = outbox'[n]
            BY <1>1 DEF OldestFirst
        <3>1. n = Len(outbox) + 1 => outbox'[n] = new
            BY <2>2, <1>4, <1>a DEF OutboxFits
        <3>2. pass.todo[m] \in ProjectEvent /\ pass.todo[m].step <= prStep[pass.todo[m].issue]
            BY <1>a DEF PassFits, PassRecord
        <3>3. n # Len(outbox) + 1
            BY <3>1, <3>2, <1>2 DEF ProjectEvent
        <3>4. n \in DOMAIN outbox /\ outbox'[n] = outbox[n]
            BY <3>3, <2>2, <1>a DEF OutboxFits
        <3> QED BY <3>4, <1>a DEF OldestFirst
    <2> QED BY <1>3, <2>1, <2>2
<1>9. Projecting'
    BY <1>1, <1>a DEF Projecting, FromOutbox, Current, Notify
<1> QED BY <1>5, <1>6, <1>7, <1>8, <1>9 DEF ProjectInv

LEMMA StartPassKeeps == ASSUME ProjectInv, StartPass PROVE ProjectInv'
<1> USE ProjectionAssumption
<1>a. OutboxFits /\ BoardFits /\ PassFits /\ OldestFirst /\ Projecting
    BY DEF ProjectInv
<1> DEFINE n == IF Len(outbox) < PassLimit THEN Len(outbox) ELSE PassLimit
           todo == FirstOf(outbox, PassLimit)
<1>1. /\ pass' = [at |-> "next", todo |-> todo, repair |-> <<>>, used |-> 0, failed |-> {}, known |-> 0]
      /\ UNCHANGED <<prStep, outbox, boardCards, commented, prFaults>>
    BY DEF StartPass, BridgeIdle
<1>2. outbox \in Seq(ProjectEvent) /\ n \in 0 .. Len(outbox) /\ n <= PassLimit /\ Len(outbox) \in Nat
    BY <1>a DEF OutboxFits
<1>3. todo \in Seq(ProjectEvent) /\ Len(todo) = n /\ \A k \in 1 .. n : todo[k] = outbox[k] /\ k \in DOMAIN outbox
    BY <1>2 DEF FirstOf
<1> HIDE DEF n, todo
<1>4. OutboxFits' /\ BoardFits'
    BY <1>1, <1>a DEF OutboxFits, BoardFits, DoneOnlyWhenCompleted
<1>5. PassFits'
    <2>1. \A k \in DOMAIN todo : todo[k].step <= prStep[todo[k].issue]
        BY <1>2, <1>3, <1>a DEF OutboxFits
    <2> QED BY <1>1, <1>2, <1>3, <2>1 DEF PassFits, PassRecord
<1>6. OldestFirst'
    <2> SUFFICES ASSUME NEW m \in 1 .. n, NEW k \in DOMAIN outbox,
                        outbox[k].issue = outbox[m].issue, outbox[k].step < outbox[m].step
                 PROVE  k < m /\ k \in 1 .. n
        BY <1>1, <1>2, <1>3 DEF OldestFirst
    <2>1. m \in DOMAIN outbox /\ outbox[m] \in ProjectEvent /\ outbox[k] \in ProjectEvent
        BY <1>2
    <2>2. ~(m < k) /\ m # k
        BY <2>1, <1>a DEF OutboxFits, ProjectEvent
    <2> QED BY <2>1, <2>2, <1>2
<1>7. Projecting'
    BY <1>1 DEF Projecting
<1> QED BY <1>4, <1>5, <1>6, <1>7 DEF ProjectInv

(* An item that is left behind, whatever became of it.                     *)
LEMMA ItemLeaves ==
    ASSUME ProjectInv, pass.todo # <<>>, NEW events, events = Tail(pass.todo)
    PROVE  /\ events \in Seq(ProjectEvent) /\ Len(events) = Len(pass.todo) - 1
           /\ Len(events) + Len(pass.repair) + pass.used + 1 <= PassLimit /\ pass.used + 1 \in 0 .. PassLimit
           /\ \A n \in DOMAIN events : n + 1 \in DOMAIN pass.todo /\ events[n] = pass.todo[n + 1]
           /\ \A n \in DOMAIN events : events[n].step <= prStep[events[n].issue]
<1> USE ProjectionAssumption
<1>1. /\ pass.todo \in Seq(ProjectEvent) /\ pass.repair \in Seq(RepairItem) /\ pass.used \in Nat
      /\ Len(pass.todo) + Len(pass.repair) + pass.used <= PassLimit
      /\ \A n \in DOMAIN pass.todo : pass.todo[n].step <= prStep[pass.todo[n].issue]
    BY DEF ProjectInv, PassFits, PassRecord
<1>2. events \in Seq(ProjectEvent) /\ Len(events) = Len(pass.todo) - 1 /\ Len(pass.todo) \in Nat /\ Len(pass.repair) \in Nat
    BY <1>1
<1>3. \A n \in DOMAIN events : n + 1 \in DOMAIN pass.todo /\ events[n] = pass.todo[n + 1]
    BY <1>1
<1>4. \A n \in DOMAIN events : events[n].step <= prStep[events[n].issue]
    BY <1>1, <1>3
<1>5. Len(events) + Len(pass.repair) + pass.used + 1 <= PassLimit /\ pass.used + 1 \in 0 .. PassLimit
    <2>1. \A a, b, c, d \in Nat : a = b - 1 /\ b + c + d <= PassLimit => a + c + d + 1 <= PassLimit /\ d + 1 \in 0 .. PassLimit
        OBVIOUS
    <2>2. Len(events) \in Nat /\ Len(pass.todo) \in Nat /\ Len(pass.repair) \in Nat /\ pass.used \in Nat
        BY <1>1, <1>2
    <2> QED BY <1>1, <1>2, <2>1, <2>2
<1> QED BY <1>2, <1>3, <1>4, <1>5

(* If its issue is a failed one, the others lose nothing by it.            *)
LEMMA FailedLeaves ==
    ASSUME ProjectInv, pass.todo # <<>>,
           UNCHANGED outbox, pass'.todo = Tail(pass.todo),
           pass'.failed = pass.failed \cup {pass.todo[1].issue}
    PROVE  OldestFirst'
<1> DEFINE events == Tail(pass.todo)
<1>1. \A n \in DOMAIN events : n + 1 \in DOMAIN pass.todo /\ events[n] = pass.todo[n + 1]
    BY ItemLeaves
<1>2. pass.todo \in Seq(ProjectEvent) /\ Len(events) = Len(pass.todo) - 1 /\ DOMAIN events = 1 .. Len(pass.todo) - 1
    BY DEF ProjectInv, PassFits, PassRecord
<1> SUFFICES ASSUME NEW m \in DOMAIN events, NEW n \in DOMAIN outbox,
                    outbox[n].issue = events[m].issue, outbox[n].step < events[m].step,
                    events[m].issue \notin pass.failed, events[m].issue # pass.todo[1].issue
             PROVE  \E k \in DOMAIN events : k < m /\ events[k] = outbox[n]
    BY DEF OldestFirst
<1>3. PICK k \in DOMAIN pass.todo : k < m + 1 /\ pass.todo[k] = outbox[n]
    BY <1>1 DEF ProjectInv, OldestFirst
<1>4. k # 1 /\ k \in 1 .. Len(pass.todo) /\ m \in Nat
    BY <1>2, <1>3
<1>5. k - 1 \in DOMAIN events /\ k - 1 < m /\ events[k - 1] = outbox[n]
    BY <1>1, <1>2, <1>3, <1>4
<1> QED BY <1>5

LEMMA NextItemKeeps == ASSUME ProjectInv, NextItem PROVE ProjectInv'
<1> USE ProjectionAssumption
<1>a. OutboxFits /\ BoardFits /\ PassFits /\ OldestFirst /\ Projecting
    BY DEF ProjectInv
<1>1. UNCHANGED <<prStep, outbox, boardCards, commented, prFaults>> /\ pass.at = "next"
    BY DEF NextItem
<1>2. OutboxFits' /\ BoardFits'
    BY <1>1, <1>a DEF OutboxFits, BoardFits, DoneOnlyWhenCompleted
<1>3. CASE SkipFailed
    <2>1. pass' = [pass EXCEPT !.todo = Tail(pass.todo), !.used = pass.used + 1] /\ pass.todo # <<>>
        BY <1>3 DEF NextItem, SkipFailed
    <2>2. /\ pass'.at = "next" /\ pass'.todo = Tail(pass.todo) /\ pass'.repair = pass.repair /\ pass'.used = pass.used + 1
          /\ pass'.failed = pass.failed /\ pass'.known = pass.known
        BY <2>1, <1>1, <1>a DEF PassFits, PassRecord
    <2> DEFINE events == Tail(pass.todo)
    <2>b. /\ events \in Seq(ProjectEvent) /\ Len(events) + Len(pass.repair) + (pass.used + 1) <= PassLimit
          /\ pass.used + 1 \in 0 .. PassLimit /\ \A n \in DOMAIN events : events[n].step <= prStep[events[n].issue]
        <3>1. Len(events) + Len(pass.repair) + pass.used + 1 = Len(events) + Len(pass.repair) + (pass.used + 1)
            BY <2>1, <1>a, ItemLeaves DEF PassFits, PassRecord
        <3> QED BY <2>1, <3>1, ItemLeaves
    <2> HIDE DEF events
    <2>3. PassFits'
        BY <2>b, <2>1, <2>2, <1>1, <1>a DEF PassFits, PassRecord, events
    <2>4. pass.failed \cup {pass.todo[1].issue} = pass.failed
        BY <1>3, <1>a DEF SkipFailed, PassFits, PassRecord
    <2>5. OldestFirst'
        BY <2>1, <2>2, <2>4, <1>1, FailedLeaves
    <2> QED BY <2>2, <2>3, <2>5, <1>2 DEF ProjectInv, Projecting
<1>4. CASE ~SkipFailed
    <2>1. pass' = [pass EXCEPT !.at = IF FromOutbox THEN "upsert" ELSE "rows"]
        BY <1>4 DEF NextItem
    <2>2. /\ pass'.at = (IF FromOutbox THEN "upsert" ELSE "rows") /\ pass'.todo = pass.todo /\ pass'.repair = pass.repair
          /\ pass'.used = pass.used /\ pass'.failed = pass.failed /\ pass'.known = pass.known
        BY <2>1, <1>a DEF PassFits, PassRecord
    <2>3. PassFits'
        BY <2>1, <2>2, <1>1, <1>a DEF PassFits, PassRecord, FromOutbox
    <2>4. OldestFirst'
        BY <2>2, <1>1, <1>a DEF OldestFirst
    <2>5. Projecting'
        BY <2>2, <1>1, <1>4 DEF Projecting, SkipFailed, FromOutbox, Current
    <2> QED BY <2>3, <2>4, <2>5, <1>2 DEF ProjectInv
<1> QED BY <1>3, <1>4

LEMMA ReadRowsKeeps == ASSUME ProjectInv, ReadRows PROVE ProjectInv'
<1> USE ProjectionAssumption
<1>a. OutboxFits /\ BoardFits /\ PassFits /\ OldestFirst /\ Projecting
    BY DEF ProjectInv
<1> DEFINE S == {i \in PrIssues : prStep[i] > 0}
<1>1. PICK order \in SetToSeqs(S) :
          pass' = [pass EXCEPT !.at = "repair", !.repair = [n \in DOMAIN FirstOf(order, RepairBudget) |-> [issue |-> order[n], step |-> 0]]]
    BY DEF ReadRows
<1>2. pass.at = "rows" /\ UNCHANGED <<prStep, outbox, boardCards, commented, prFaults>>
    BY DEF ReadRows
<1>3. IsFiniteSet(S) /\ Cardinality(S) \in Nat
    BY FS_Subset, FS_CardinalityType
<1>4. order \in Seq(S) /\ Len(order) \in Nat /\ DOMAIN order = 1 .. Len(order)
    <2>1. order \in [1 .. Cardinality(S) -> S]
        BY <1>1 DEF SetToSeqs
    <2> HIDE DEF S
    <2> QED BY <2>1, <1>3
<1>5. RepairBudget \in 0 .. PassLimit /\ pass.used + RepairBudget = PassLimit /\ pass.todo = <<>> /\ pass.used \in 0 .. PassLimit
    BY <1>2, <1>a DEF RepairBudget, PassFits, PassRecord
<1> DEFINE size == IF Len(order) < RepairBudget THEN Len(order) ELSE RepairBudget
<1>6. DOMAIN FirstOf(order, RepairBudget) = 1 .. size /\ size \in Nat /\ size <= RepairBudget /\ size <= Len(order)
    BY <1>4, <1>5 DEF FirstOf
<1> DEFINE rows == [n \in 1 .. size |-> [issue |-> order[n], step |-> 0]]
<1>7. rows \in Seq(RepairItem) /\ Len(rows) = size /\ \A n \in DOMAIN rows : prStep[rows[n].issue] > 0
    <2>1. \A n \in 1 .. size : order[n] \in PrIssues /\ prStep[order[n]] > 0
        BY <1>4, <1>6
    <2>2. \A n \in 1 .. size : [issue |-> order[n], step |-> 0] \in RepairItem
        BY <2>1 DEF RepairItem
    <2>3. rows \in [1 .. size -> RepairItem]
        BY <2>2
    <2>4. rows \in Seq(RepairItem) /\ Len(rows) = size /\ DOMAIN rows = 1 .. size
        BY <2>3, <1>6
    <2> QED BY <2>1, <2>4
<1> HIDE DEF rows, size
<1>8. /\ pass'.at = "repair" /\ pass'.todo = <<>> /\ pass'.repair = rows /\ pass'.used = pass.used
      /\ pass'.failed = pass.failed /\ pass'.known = pass.known
    BY <1>1, <1>5, <1>6, <1>a DEF PassFits, PassRecord, rows
<1>9. PassFits'
    <2>1. 0 + size + pass.used <= PassLimit
        BY <1>5, <1>6
    <2> QED BY <2>1, <1>1, <1>2, <1>5, <1>6, <1>7, <1>8, <1>a DEF PassFits, PassRecord, rows
<1>10. OutboxFits' /\ BoardFits'
    BY <1>2, <1>a DEF OutboxFits, BoardFits, DoneOnlyWhenCompleted
<1>11. OldestFirst' /\ Projecting'
    BY <1>8 DEF OldestFirst, Projecting
<1> QED BY <1>9, <1>10, <1>11 DEF ProjectInv

LEMMA NextRowKeeps == ASSUME ProjectInv, NextRow \/ KillBridge PROVE ProjectInv'
<1> USE ProjectionAssumption
<1>a. OutboxFits /\ BoardFits /\ PassFits /\ OldestFirst /\ Projecting
    BY DEF ProjectInv
<1>1. UNCHANGED <<prStep, outbox, boardCards, commented>> /\ prFaults' \in Nat
    BY <1>a DEF NextRow, KillBridge, OutboxFits, PrFault
<1>2. OutboxFits' /\ BoardFits'
    BY <1>1, <1>a DEF OutboxFits, BoardFits, DoneOnlyWhenCompleted
<1>3. CASE pass' = BridgeIdle
    <2>1. PassFits'
        BY <1>3 DEF PassFits, PassRecord, BridgeIdle
    <2>2. OldestFirst' /\ Projecting'
        BY <1>3 DEF OldestFirst, Projecting, BridgeIdle
    <2> QED BY <2>1, <2>2, <1>2 DEF ProjectInv
<1>4. CASE pass.at = "repair" /\ pass.repair # <<>> /\ pass' = [pass EXCEPT !.at = "upsert"]
    <2>1. /\ pass'.at = "upsert" /\ pass'.todo = <<>> /\ pass'.repair = pass.repair /\ pass'.used = pass.used
          /\ pass'.failed = pass.failed /\ pass'.known = pass.known
        BY <1>4, <1>a DEF PassFits, PassRecord
    <2>2. PassFits'
        BY <2>1, <1>1, <1>4, <1>a DEF PassFits, PassRecord
    <2>3. OldestFirst' /\ Projecting'
        BY <2>1 DEF OldestFirst, Projecting, FromOutbox
    <2> QED BY <2>2, <2>3, <1>2 DEF ProjectInv
<1> QED BY <1>3, <1>4 DEF NextRow, KillBridge

Moved(at, known, list, dups) ==
    /\ pass' = [pass EXCEPT !.at = at, !.known = known]
    /\ boardCards' = [boardCards EXCEPT ![Current.issue] = [list |-> list, dups |-> dups]]

(* Between the calls to Trello for one item the pass moves on, and only the *)
(* card of the item changes.                                               *)
LEMMA ItemMoves ==
    ASSUME ProjectInv, pass.at \in {"upsert", "archive", "comment", "unlink"},
           NEW at \in {"archive", "comment", "unlink"}, NEW known \in 0 .. 1,
           NEW list \in CardLists, NEW dups \in 0 .. 1, Moved(at, known, list, dups),
           UNCHANGED <<prStep, outbox>>, prFaults' \in Nat,
           list = "DONE" => prStep[Current.issue] = Completed,
           at = "archive" => known <= dups,
           commented \subseteq commented',
           FromOutbox /\ at = "unlink" /\ Notify(Current) => Current \in commented'
    PROVE  ProjectInv'
<1> USE ProjectionAssumption
<1>a. OutboxFits /\ BoardFits /\ PassFits /\ OldestFirst /\ Projecting
    BY DEF ProjectInv
<1>1. Current.issue \in PrIssues
    BY CurrentFits
<1>2. /\ pass'.at = at /\ pass'.todo = pass.todo /\ pass'.repair = pass.repair
      /\ pass'.used = pass.used /\ pass'.failed = pass.failed /\ pass'.known = known
    BY <1>a DEF PassFits, PassRecord, Moved
<1>3. FromOutbox' = FromOutbox /\ Current' = Current
    BY <1>2 DEF FromOutbox, Current
<1>4. OutboxFits'
    BY <1>a DEF OutboxFits
<1>5. BoardFits'
    <2>1. boardCards' \in [PrIssues -> [list : CardLists, dups : 0 .. 1]]
        BY <1>1, <1>a DEF Moved, BoardFits
    <2>2. \A i \in PrIssues : boardCards'[i].list = "DONE" => prStep[i] = Completed
        BY <1>1, <1>a DEF Moved, BoardFits, DoneOnlyWhenCompleted
    <2> QED BY <2>1, <2>2 DEF BoardFits, DoneOnlyWhenCompleted
<1>6. PassFits'
    <2>1. boardCards'[Current.issue].dups = dups
        BY <1>1, <1>a DEF Moved, BoardFits
    <2>2. at = "archive" => boardCards'[Current'.issue].dups \in {0, 1} /\ known <= boardCards'[Current'.issue].dups
        BY <2>1, <1>3
    <2>3. pass' \in PassRecord
        BY <1>a DEF PassFits, PassRecord, Moved
    <2>4. pass.todo # <<>> \/ pass.repair # <<>>
        BY <1>a DEF PassFits, PassRecord
    <2> QED BY <2>2, <2>3, <2>4, <1>2, <1>a DEF PassFits, PassRecord
<1>7. OldestFirst'
    BY <1>2, <1>a DEF OldestFirst
<1>8. Projecting'
    BY <1>2, <1>3, <1>a DEF Projecting, Notify
<1> QED BY <1>4, <1>5, <1>6, <1>7, <1>8 DEF ProjectInv

LEMMA CallKeeps == ASSUME ProjectInv, Upsert \/ UpsertReplyLost \/ Archive \/ Comment PROVE ProjectInv'
<1> USE ProjectionAssumption
<1>a. OutboxFits /\ BoardFits /\ PassFits
    BY DEF ProjectInv
<1> DEFINE card == boardCards[Current.issue]
<1>1. pass.at \in {"upsert", "archive", "comment", "unlink"}
    BY DEF Upsert, UpsertReplyLost, Archive, ArchiveDuplicates, Comment
<1>2. Current.issue \in PrIssues /\ CurrentList \in CardLists /\ (CurrentList = "DONE" => prStep[Current.issue] = Completed)
    BY <1>1, CurrentFits
<1>3. card \in [list : CardLists, dups : 0 .. 1] /\ (card.list = "DONE" => prStep[Current.issue] = Completed)
    BY <1>2, <1>a DEF BoardFits, DoneOnlyWhenCompleted
<1>b. card.list \in CardLists /\ card.dups \in 0 .. 1 /\ 0 \in 0 .. 1 /\ 1 \in 0 .. 1 /\ card = [list |-> card.list, dups |-> card.dups]
    BY <1>3
<1>4. UNCHANGED <<prStep, outbox>> /\ prFaults' \in Nat /\ commented \subseteq commented'
    BY <1>a DEF Upsert, UpsertReplyLost, Archive, Comment, PrFault, OutboxFits
<1>5. CASE Upsert
    <2>1. [card EXCEPT !.list = CurrentList] = [list |-> CurrentList, dups |-> card.dups]
        BY <1>3
    <2>2. boardCards' = [boardCards EXCEPT ![Current.issue] = [card EXCEPT !.list = CurrentList]]
          /\ pass' = [pass EXCEPT !.at = "archive", !.known = card.dups]
        BY <1>5 DEF Upsert
    <2>3. Moved("archive", card.dups, CurrentList, card.dups)
        BY <2>1, <2>2 DEF Moved
    <2> QED BY <2>3, <1>1, <1>2, <1>b, <1>4, ItemMoves
<1>6. CASE UpsertReplyLost
    <2>1. Moved("archive", 0, CurrentList, 1)
        BY <1>6 DEF UpsertReplyLost, Moved
    <2> QED BY <2>1, <1>1, <1>2, <1>b, <1>4, ItemMoves
<1>7. CASE Archive
    <2>1. pass.at = "archive"
        BY <1>7 DEF Archive, ArchiveDuplicates
    <2>2. pass.known \in 0 .. 1 /\ pass.known <= card.dups /\ card.dups - pass.known \in 0 .. 1
        BY <2>1, <1>3, <1>a DEF PassFits, PassRecord
    <2>3. [card EXCEPT !.dups = card.dups - pass.known] = [list |-> card.list, dups |-> card.dups - pass.known]
        BY <1>3
    <2>4. boardCards' = [boardCards EXCEPT ![Current.issue] = [card EXCEPT !.dups = card.dups - pass.known]]
          /\ pass' = [pass EXCEPT !.at = "comment", !.known = 0]
        BY <1>7 DEF Archive, ArchiveDuplicates
    <2>5. Moved("comment", 0, card.list, card.dups - pass.known)
        BY <2>3, <2>4 DEF Moved
    <2> QED BY <2>2, <2>5, <1>1, <1>3, <1>b, <1>4, ItemMoves
<1>8. CASE Comment
    <2>1. boardCards' = [boardCards EXCEPT ![Current.issue] = card]
          /\ pass' = [pass EXCEPT !.at = "unlink", !.known = pass.known] /\ pass.known \in 0 .. 1
        BY <1>8, <1>2, <1>a DEF Comment, BoardFits, PassFits, PassRecord
    <2>2. FromOutbox /\ Notify(Current) => Current \in commented'
        BY <1>8 DEF Comment
    <2>3. Moved("unlink", pass.known, card.list, card.dups)
        BY <2>1, <1>b DEF Moved
    <2> QED BY <2>1, <2>2, <2>3, <1>1, <1>3, <1>b, <1>4, ItemMoves
<1> QED BY <1>5, <1>6, <1>7, <1>8

(* An item that failed, or that is done, is left behind.                   *)
LEMMA LeavesKeeps ==
    ASSUME ProjectInv, pass.at \in {"upsert", "archive", "comment", "unlink"},
           UNCHANGED <<prStep, boardCards, commented, prFaults>>, OutboxFits', OldestFirst',
           NEW failed \in SUBSET PrIssues, NEW known \in 0 .. 1,
           pass' = [pass EXCEPT !.at = NextAt, !.known = known, !.failed = failed,
                                !.todo = IF FromOutbox THEN Tail(pass.todo) ELSE pass.todo,
                                !.used = IF FromOutbox THEN pass.used + 1 ELSE pass.used,
                                !.repair = IF FromOutbox THEN pass.repair ELSE Tail(pass.repair)]
    PROVE  ProjectInv'
<1> USE ProjectionAssumption
<1>a. BoardFits /\ PassFits
    BY DEF ProjectInv
<1>1. /\ pass'.at = NextAt /\ pass'.todo = (IF FromOutbox THEN Tail(pass.todo) ELSE pass.todo)
      /\ pass'.repair = (IF FromOutbox THEN pass.repair ELSE Tail(pass.repair)) /\ pass'.known = known
      /\ pass'.used = (IF FromOutbox THEN pass.used + 1 ELSE pass.used) /\ pass'.failed = failed
    BY <1>a DEF PassFits, PassRecord
<1>2. BoardFits'
    BY <1>a DEF BoardFits, DoneOnlyWhenCompleted
<1>3. Projecting'
    BY <1>1 DEF Projecting, NextAt
<1>4. CASE FromOutbox
    <2> DEFINE events == Tail(pass.todo)
    <2>b. /\ events \in Seq(ProjectEvent) /\ Len(events) + Len(pass.repair) + (pass.used + 1) <= PassLimit
          /\ pass.used + 1 \in 0 .. PassLimit /\ \A n \in DOMAIN events : events[n].step <= prStep[events[n].issue]
        <3>1. pass.todo # <<>>
            BY <1>4 DEF FromOutbox
        <3>2. Len(events) + Len(pass.repair) + pass.used + 1 = Len(events) + Len(pass.repair) + (pass.used + 1)
            BY <3>1, <1>a, ItemLeaves DEF PassFits, PassRecord
        <3> QED BY <3>1, <3>2, ItemLeaves
    <2> HIDE DEF events
    <2>1. /\ pass'.at = "next" /\ pass'.todo = events /\ pass'.repair = pass.repair
          /\ pass'.used = pass.used + 1 /\ pass'.known = known
        BY <1>1, <1>4 DEF NextAt, events
    <2>2. pass' = [at |-> "next", todo |-> events, repair |-> pass.repair, used |-> pass.used + 1, failed |-> failed, known |-> known]
        BY <1>4, <1>a DEF PassFits, PassRecord, events, NextAt
    <2>3. pass' \in PassRecord
        BY <2>2, <2>b, <1>a DEF PassFits, PassRecord
    <2>4. PassFits'
        BY <2>1, <2>3, <2>b, <1>a DEF PassFits, PassRecord
    <2> QED BY <2>4, <1>2, <1>3 DEF ProjectInv
<1>5. CASE ~FromOutbox
    <2> DEFINE items == Tail(pass.repair)
    <2>1. /\ pass.todo = <<>> /\ items \in Seq(RepairItem) /\ Len(items) = Len(pass.repair) - 1
          /\ \A n \in DOMAIN items : n + 1 \in DOMAIN pass.repair /\ items[n] = pass.repair[n + 1]
        BY <1>5, CurrentFits
    <2>2. \A n \in DOMAIN items : prStep[items[n].issue] > 0
        BY <2>1, <1>a DEF PassFits, PassRecord
    <2>3. Len(pass.repair) \in Nat /\ Len(items) \in Nat
        BY <2>1, <1>a DEF PassFits, PassRecord
    <2>4. 0 + Len(items) + pass.used <= PassLimit
        BY <2>1, <2>3, <1>a DEF PassFits, PassRecord
    <2> HIDE DEF items
    <2>5. /\ pass'.at = "repair" /\ pass'.todo = <<>> /\ pass'.repair = items
          /\ pass'.used = pass.used /\ pass'.known = known
        BY <2>1, <1>1, <1>5 DEF NextAt, items
    <2>6. pass' = [at |-> "repair", todo |-> pass.todo, repair |-> items, used |-> pass.used, failed |-> failed, known |-> known]
        BY <1>5, <1>a DEF PassFits, PassRecord, items, NextAt
    <2>7. pass' \in PassRecord
        BY <2>1, <2>6, <1>a DEF PassFits, PassRecord
    <2>8. Len(pass'.todo) + Len(pass'.repair) + pass'.used <= PassLimit /\ DOMAIN pass'.todo = {}
        <3>1. Len(<<>>) = 0 /\ DOMAIN <<>> = {}
            OBVIOUS
        <3> QED BY <3>1, <2>4, <2>5
    <2>9. \A n \in DOMAIN pass'.repair : prStep'[pass'.repair[n].issue] > 0
        BY <2>2, <2>5
    <2>10. PassFits'
        BY <2>5, <2>7, <2>8, <2>9 DEF PassFits, PassRecord
    <2> QED BY <2>10, <1>2, <1>3 DEF ProjectInv
<1> QED BY <1>4, <1>5

LEMMA FailKeeps == ASSUME ProjectInv, TrelloFails PROVE ProjectInv'
<1>a. OutboxFits /\ PassFits /\ OldestFirst
    BY DEF ProjectInv
<1>1. /\ pass.at \in {"upsert", "archive", "comment", "unlink"} /\ Fail
      /\ UNCHANGED <<prStep, outbox, boardCards, commented, prFaults>>
    BY DEF TrelloFails, UpsertFails, ArchiveFails, CommentFails
<1> DEFINE failed == IF FromOutbox THEN pass.failed \cup {Current.issue} ELSE pass.failed
<1>2. Current.issue \in PrIssues /\ (FromOutbox => Current = pass.todo[1]) /\ (~FromOutbox => pass.todo = <<>>)
    BY <1>1, CurrentFits
<1>3. failed \in SUBSET PrIssues
    BY <1>2, <1>a DEF PassFits, PassRecord
<1>4. pass' = [pass EXCEPT !.at = NextAt, !.known = 0, !.failed = failed,
                           !.todo = IF FromOutbox THEN Tail(pass.todo) ELSE pass.todo,
                           !.used = IF FromOutbox THEN pass.used + 1 ELSE pass.used,
                           !.repair = IF FromOutbox THEN pass.repair ELSE Tail(pass.repair)]
    BY <1>1, <1>a DEF Fail, PassFits, PassRecord
<1>5. pass'.failed = failed /\ pass'.todo = (IF FromOutbox THEN Tail(pass.todo) ELSE pass.todo)
    BY <1>4, <1>a DEF PassFits, PassRecord
<1>6. OldestFirst'
    <2>1. CASE FromOutbox
        BY <2>1, <1>1, <1>2, <1>5, FailedLeaves DEF FromOutbox
    <2>2. CASE ~FromOutbox
        BY <2>2, <1>2, <1>5 DEF OldestFirst
    <2> QED BY <2>1, <2>2
<1>7. OutboxFits'
    BY <1>1, <1>a DEF OutboxFits
<1> HIDE DEF failed
<1>8. 0 \in 0 .. 1
    OBVIOUS
<1> QED BY <1>1, <1>3, <1>4, <1>6, <1>7, <1>8, LeavesKeeps

Shortened(S, s, n, t) ==
    /\ t \in Seq(S) /\ Len(t) = Len(s) - 1
    /\ \A k \in DOMAIN t : /\ k \in DOMAIN s /\ k + 1 \in DOMAIN s
                          /\ t[k] = s[IF k < n THEN k ELSE k + 1]

LEMMA RemovedAt ==
    ASSUME NEW S, NEW s \in Seq(S), NEW n \in DOMAIN s
    PROVE  Shortened(S, s, n, RemoveAt(s, n))
<1> DEFINE t == RemoveAt(s, n)
<1> DEFINE left == SubSeq(s, 1, n - 1)
           right == SubSeq(s, n + 1, Len(s))
<1>1. n \in 1 .. Len(s) /\ Len(s) \in Nat
    OBVIOUS
<1>2. left \in Seq(S) /\ Len(left) = n - 1 /\ \A k \in 1 .. n - 1 : left[k] = s[k]
    BY <1>1
<1>3. right \in Seq(S) /\ Len(right) = Len(s) - n /\ \A k \in 1 .. Len(s) - n : right[k] = s[n + k]
    BY <1>1
<1>4. t = left \o right
    BY DEF RemoveAt
<1> HIDE DEF left, right, t
<1>5. t \in Seq(S) /\ Len(t) = Len(s) - 1
    BY <1>1, <1>2, <1>3, <1>4
<1>6. ASSUME NEW k \in DOMAIN t
      PROVE  /\ k \in DOMAIN s /\ k + 1 \in DOMAIN s
             /\ t[k] = s[IF k < n THEN k ELSE k + 1]
    <2>1. k \in 1 .. Len(s) - 1
        BY <1>5
    <2>2. CASE k < n
        <3>1. t[k] = left[k]
            BY <2>1, <2>2, <1>1, <1>2, <1>3, <1>4
        <3> QED BY <3>1, <2>1, <2>2, <1>1, <1>2
    <2>3. CASE ~(k < n)
        <3>1. t[k] = right[k - (n - 1)] /\ k - (n - 1) \in 1 .. Len(s) - n
            BY <2>1, <2>3, <1>1, <1>2, <1>3, <1>4
        <3>2. right[k - (n - 1)] = s[k + 1]
            BY <3>1, <2>1, <1>1, <1>3
        <3> QED BY <3>1, <3>2, <2>1, <2>3, <1>1
    <2>4. (k < n) \/ ~(k < n)
        OBVIOUS
    <2> QED BY <2>2, <2>3, <2>4
<1> QED BY <1>5, <1>6 DEF Shortened, t

LEMMA StaysAt ==
    ASSUME NEW S, NEW s \in Seq(S), NEW n \in DOMAIN s, NEW k \in DOMAIN s, k # n
    PROVE  \E j \in DOMAIN RemoveAt(s, n) : RemoveAt(s, n)[j] = s[k]
<1> DEFINE rest == RemoveAt(s, n)
<1>1. rest = RemoveAt(s, n)
    OBVIOUS
<1> HIDE DEF rest
<1>2. /\ rest \in Seq(S) /\ Len(rest) = Len(s) - 1
      /\ \A j \in DOMAIN rest : rest[j] = s[IF j < n THEN j ELSE j + 1]
    <2>1. Shortened(S, s, n, rest)
        BY <1>1, RemovedAt
    <2> QED BY <2>1 DEF Shortened
<1>3. n \in 1 .. Len(s) /\ k \in 1 .. Len(s) /\ Len(s) \in Nat /\ DOMAIN rest = 1 .. Len(s) - 1
    BY <1>2
<1>4. CASE k < n
    <2>1. k \in DOMAIN rest /\ rest[k] = s[k]
        BY <1>2, <1>3, <1>4
    <2> QED BY <2>1, <1>1
<1>5. CASE n < k
    <2>1. k - 1 \in DOMAIN rest /\ ~(k - 1 < n) /\ k - 1 + 1 = k
        BY <1>3, <1>5
    <2>2. rest[k - 1] = s[k]
        BY <1>2, <2>1
    <2> QED BY <2>1, <2>2, <1>1
<1> QED BY <1>3, <1>4, <1>5

LEMMA UnlinkKeeps == ASSUME ProjectInv, Unlink PROVE ProjectInv'
<1>a. OutboxFits /\ PassFits /\ OldestFirst
    BY DEF ProjectInv
<1>1. pass.at = "unlink" /\ UNCHANGED <<prStep, boardCards, commented, prFaults>>
    BY DEF Unlink
<1>2. pass' = [pass EXCEPT !.at = NextAt, !.known = pass.known, !.failed = pass.failed,
                           !.todo = IF FromOutbox THEN Tail(pass.todo) ELSE pass.todo,
                           !.used = IF FromOutbox THEN pass.used + 1 ELSE pass.used,
                           !.repair = IF FromOutbox THEN pass.repair ELSE Tail(pass.repair)]
    BY <1>a DEF Unlink, PassFits, PassRecord
<1>3. pass'.failed = pass.failed /\ pass'.todo = (IF FromOutbox THEN Tail(pass.todo) ELSE pass.todo)
    BY <1>2, <1>a DEF PassFits, PassRecord
<1>4. pass.failed \in SUBSET PrIssues /\ pass.known \in 0 .. 1
    BY <1>a DEF PassFits, PassRecord
<1>5. OutboxFits' /\ OldestFirst'
    <2>1. CASE ~FromOutbox
        <3>1. UNCHANGED outbox
            BY <2>1 DEF Unlink
        <3>2. pass'.todo = <<>>
            BY <2>1, <1>3, <1>1, CurrentFits
        <3> QED BY <3>1, <3>2, <1>1, <1>a DEF OutboxFits, OldestFirst
    <2>2. CASE FromOutbox
        <3>1. PICK n \in DOMAIN outbox : outbox[n] = Current /\ outbox' = RemoveAt(outbox, n)
            BY <2>2 DEF Unlink
        <3>2. outbox \in Seq(ProjectEvent)
            BY <1>a DEF OutboxFits
        <3>3. /\ outbox' \in Seq(ProjectEvent)
              /\ \A k \in DOMAIN outbox' : /\ k \in DOMAIN outbox /\ k + 1 \in DOMAIN outbox
                                           /\ outbox'[k] = outbox[IF k < n THEN k ELSE k + 1]
            <4> DEFINE rest == RemoveAt(outbox, n)
            <4>1. rest = RemoveAt(outbox, n)
                OBVIOUS
            <4> HIDE DEF rest
            <4>2. /\ rest \in Seq(ProjectEvent)
                  /\ \A k \in DOMAIN rest : /\ k \in DOMAIN outbox /\ k + 1 \in DOMAIN outbox
                                            /\ rest[k] = outbox[IF k < n THEN k ELSE k + 1]
                <5>1. Shortened(ProjectEvent, outbox, n, rest)
                    BY <4>1, <3>2, RemovedAt
                <5> QED BY <5>1 DEF Shortened
            <4>3. outbox' = rest
                BY <4>1, <3>1
            <4> QED BY <4>2, <4>3
        <3> DEFINE at(k) == IF k < n THEN k ELSE k + 1
        <3>4. \A k \in DOMAIN outbox' : at(k) \in DOMAIN outbox /\ at(k) # n /\ outbox'[k] = outbox[at(k)]
            <4>1. \A k \in DOMAIN outbox' : k \in Nat /\ n \in Nat
                BY <3>2, <3>3
            <4> QED BY <4>1, <3>3
        <3>5. \A j, k \in DOMAIN outbox' : j < k => at(j) < at(k)
            BY <3>2, <3>3
        <3> HIDE DEF at
        <3>6. OutboxFits'
            BY <3>3, <3>4, <3>5, <1>1, <1>a DEF OutboxFits
        <3>7. OldestFirst'
            <4> DEFINE events == Tail(pass.todo)
            <4>1. /\ \A m \in DOMAIN events : m + 1 \in DOMAIN pass.todo /\ events[m] = pass.todo[m + 1]
                  /\ Current = pass.todo[1] /\ pass.todo \in Seq(ProjectEvent) /\ Len(events) = Len(pass.todo) - 1
                  /\ DOMAIN events = 1 .. Len(pass.todo) - 1
                BY <2>2, <1>1, <1>a, CurrentFits DEF PassFits, PassRecord
            <4>2. pass'.todo = events
                BY <1>3, <2>2
            <4> HIDE DEF events
            <4> SUFFICES ASSUME NEW m \in DOMAIN events, NEW k \in DOMAIN outbox',
                                outbox'[k].issue = events[m].issue, outbox'[k].step < events[m].step,
                                events[m].issue \notin pass.failed
                         PROVE  \E q \in DOMAIN events : q < m /\ events[q] = outbox'[k]
                BY <1>3, <4>2 DEF OldestFirst
            <4>a. /\ m + 1 \in DOMAIN pass.todo /\ at(k) \in DOMAIN outbox /\ events[m] = pass.todo[m + 1]
                  /\ outbox'[k] = outbox[at(k)]
                BY <3>4, <4>1
            <4>3. PICK q \in DOMAIN pass.todo : q < m + 1 /\ pass.todo[q] = outbox[at(k)]
                BY <4>a, <1>a DEF OldestFirst
            <4>4. q # 1
                <5>1. outbox[at(k)] # Current
                    <6>1. at(k) \in DOMAIN outbox /\ n \in DOMAIN outbox /\ at(k) # n
                        BY <3>4
                    <6>2. at(k) < n \/ n < at(k)
                        BY <6>1, <3>2
                    <6>3. Current.step \in Nat
                        <7>1. outbox[n] \in ProjectEvent
                            BY <3>2
                        <7> QED BY <7>1, <3>1, EventFits
                    <6>4. Current.step = outbox[n].step /\ Current.issue = outbox[n].issue
                        BY <3>1
                    <6>5. \A a, b \in DOMAIN outbox : a < b /\ outbox[a].issue = outbox[b].issue => outbox[a].step < outbox[b].step
                        BY <1>a DEF OutboxFits
                    <6> QED BY <6>1, <6>2, <6>3, <6>4, <6>5
                <5> QED BY <5>1, <4>1, <4>3
            <4>5. q \in 1 .. Len(pass.todo) /\ m \in Nat
                BY <4>1, <4>3
            <4>6. q - 1 \in DOMAIN events /\ q - 1 < m /\ events[q - 1] = outbox'[k]
                BY <4>1, <4>3, <4>4, <4>5, <3>4
            <4> QED BY <4>6
        <3> QED BY <3>6, <3>7
    <2> QED BY <2>1, <2>2
<1>6. pass.at \in {"upsert", "archive", "comment", "unlink"}
    BY <1>1
<1> QED BY <1>1, <1>2, <1>4, <1>5, <1>6, LeavesKeeps

LEMMA ProjectNextKeeps == ASSUME ProjectInv, [ProjectNext]_prVars PROVE ProjectInv'
<1>1. CASE UNCHANGED prVars
    BY <1>1 DEF prVars, ProjectInv, OutboxFits, BoardFits, PassFits, OldestFirst, Projecting,
                DoneOnlyWhenCompleted, FromOutbox, Current, Notify
<1>2. CASE ProjectNext
    <2>1. CASE \E i \in PrIssues : Advance(i)
        BY <2>1, AdvanceKeeps
    <2>2. CASE Bridge
        BY <2>2, StartPassKeeps, NextItemKeeps, ReadRowsKeeps, NextRowKeeps, UnlinkKeeps DEF Bridge
    <2>3. CASE Upsert \/ UpsertReplyLost \/ Archive \/ Comment
        BY <2>3, CallKeeps
    <2>4. CASE TrelloFails
        BY <2>4, FailKeeps
    <2>5. CASE KillBridge
        BY <2>5, NextRowKeeps
    <2> QED BY <1>2, <2>1, <2>2, <2>3, <2>4, <2>5 DEF ProjectNext
<1> QED BY <1>1, <1>2

LEMMA ProjectTypes == ProjectInv => ProjectTypeOK
<1> SUFFICES ASSUME ProjectInv PROVE ProjectTypeOK
    OBVIOUS
<1> USE ProjectionAssumption
<1>1. OutboxFits /\ BoardFits /\ PassFits
    BY DEF ProjectInv
<1>2. \A i \in PrIssues : /\ prStep[i] \in 0 .. Completed
                          /\ boardCards[i].list \in CardLists /\ boardCards[i].dups \in 0 .. 1
    BY <1>1 DEF OutboxFits, BoardFits
<1>3. /\ pass.used \in 0 .. PassLimit /\ Len(pass.todo) \in Nat /\ Len(pass.repair) \in Nat
      /\ Len(pass.todo) + Len(pass.repair) + pass.used <= PassLimit
    BY <1>1 DEF PassFits, PassRecord
<1>4. \A a, b, c, d \in Nat : a + b + c <= d => b <= d - c
    OBVIOUS
<1>5. pass.used \in Nat /\ PassLimit \in Nat
    BY <1>3
<1>6. Len(pass.repair) <= PassLimit - pass.used
    BY <1>3, <1>4, <1>5
<1> QED BY <1>2, <1>3, <1>6 DEF ProjectTypeOK, CardLists

LEMMA ProjectOrders == ProjectInv => EventsInOrder
<1> SUFFICES ASSUME ProjectInv, pass.at = "archive", FromOutbox, NEW n \in DOMAIN outbox, outbox[n].issue = Current.issue
             PROVE  outbox[n].step >= Current.step
    BY DEF EventsInOrder
<1>1. OutboxFits /\ PassFits /\ OldestFirst /\ Projecting
    BY DEF ProjectInv
<1>2. Current = pass.todo[1] /\ Current \in ProjectEvent /\ Current.issue \notin pass.failed
    BY <1>1, CurrentFits DEF Projecting
<1>3. pass.todo \in Seq(ProjectEvent) /\ 1 \in DOMAIN pass.todo
    BY <1>1 DEF PassFits, PassRecord, FromOutbox
<1>4. ~\E k \in DOMAIN pass.todo : k < 1
    BY <1>3
<1>5. ~(outbox[n].step < Current.step)
    <2>1. /\ 1 \in DOMAIN pass.todo /\ pass.todo[1].issue = outbox[n].issue /\ pass.todo[1].issue \notin pass.failed
          /\ pass.todo[1].step = Current.step
        BY <1>2, <1>3
    <2> QED BY <2>1, <1>1, <1>4 DEF OldestFirst
<1>6. outbox[n].step \in Nat /\ Current.step \in Nat
    <2>1. outbox[n] \in ProjectEvent
        BY <1>1 DEF OutboxFits
    <2> QED BY <2>1, <1>2, EventFits
<1> QED BY <1>5, <1>6

(* Only the removal after the comment takes an event out of the outbox.    *)
LEMMA ProjectAnnounces ==
    ASSUME ProjectInv, [ProjectNext]_prVars, NEW n \in DOMAIN outbox, Notify(outbox[n]), outbox[n] \notin Range(outbox')
    PROVE  outbox[n] \in commented
<1>1. OutboxFits /\ Projecting
    BY DEF ProjectInv
<1>2. outbox \in Seq(ProjectEvent)
    BY <1>1 DEF OutboxFits
<1>3. outbox' # outbox
    BY DEF Range
<1>4. CASE \E i \in PrIssues : Advance(i)
    <2>1. PICK i \in PrIssues : outbox' = Append(outbox, [issue |-> i, step |-> prStep[i] + 1])
        BY <1>3, <1>4 DEF Advance
    <2>2. n \in DOMAIN outbox' /\ outbox'[n] = outbox[n]
        BY <2>1, <1>2
    <2> QED BY <2>2 DEF Range
<1>5. CASE Unlink
    <2>1. pass.at = "unlink" /\ FromOutbox
        BY <1>3, <1>5 DEF Unlink
    <2>2. PICK k \in DOMAIN outbox : outbox[k] = Current /\ outbox' = RemoveAt(outbox, k)
        BY <2>1, <1>5 DEF Unlink
    <2>3. n = k
        BY <2>2, <1>2, RemovedAt, StaysAt DEF Range
    <2> QED BY <2>1, <2>2, <2>3, <1>1 DEF Projecting
<1> QED BY <1>3, <1>4, <1>5 DEF ProjectNext, Bridge, TrelloFails, StartPass, NextItem, ReadRows, NextRow,
        Upsert, UpsertReplyLost, Archive, Comment, UpsertFails, ArchiveFails, CommentFails, KillBridge, prVars

(***************************************************************************)
(* Whatever the orchestrator or the bridge is killed in, and whichever of  *)
(* Trello's answers is lost or refused: events of an issue reach the board *)
(* in their order, no event file is removed before it was announced, and a *)
(* card is in the list of the finished issues only when the ledger has the *)
(* issue completed.                                                        *)
(***************************************************************************)
THEOREM BoardFollowsLedgerHolds == ProjectSpec => BoardFollowsLedger
<1>1. ProjectInit => ProjectInv
    BY ProjectInitHolds
<1>2. ProjectInv /\ [ProjectNext]_prVars => ProjectInv'
    BY ProjectNextKeeps
<1>3. ProjectInv => ProjectTypeOK /\ EventsInOrder /\ DoneOnlyWhenCompleted
    BY ProjectTypes, ProjectOrders DEF ProjectInv, BoardFits
<1>4. ProjectInv /\ [ProjectNext]_prVars =>
          [\A n \in DOMAIN outbox :
              Notify(outbox[n]) /\ outbox[n] \notin Range(outbox') => outbox[n] \in commented]_prVars
    BY ProjectAnnounces
<1> QED BY <1>1, <1>2, <1>3, <1>4, PTL DEF ProjectSpec, BoardFollowsLedger, AnnouncedBeforeForgotten

=============================================================================
