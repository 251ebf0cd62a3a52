--------------------------- MODULE IdentityPublication ---------------------------
(***************************************************************************)
(* From resolver evidence to watched wallets.  The identifier job resolves *)
(* the portfolios of the resolution queue, keeps their outcomes, and       *)
(* publishes identified_wallets.json; the durable publisher, which runs at *)
(* its end, republishes every attestation the resolver ever wrote.  The    *)
(* shadow sync reads the publication without the pipeline lock, whenever   *)
(* it is started, and manages wallets of the shadow registry beside an     *)
(* operator; the third-party sync does so with a research registry.        *)
(* Portfolios are numbered in the order the queue and the publication are  *)
(* sorted; an evidence file is its version.                                *)
(***************************************************************************)
EXTENDS Naturals, FiniteSets, Functions

CONSTANTS Portfolios, Wallets,
          Limit,         \* MAX_ACTIVE_HYPERLIQUID_USERS_PER_IP
          MaxPortfolios, \* --max-portfolios of one run
          MaxEvidence,   \* bound: versions of the evidence files together
          MaxBackoff,    \* the cap of the retry, in runs
          MaxTurns       \* bound: changes of the queue, operator steps and kills

ASSUME IdentityAssumption ==
    /\ Portfolios \subseteq Nat \ {0} /\ IsFiniteSet(Portfolios)
    /\ {"none", "UNRESOLVED", "ERROR"} \cap Wallets = {}
    /\ {Limit, MaxPortfolios, MaxEvidence, MaxBackoff} \subseteq Nat \ {0} /\ MaxTurns \in Nat

VARIABLES evidence, \* the version of each evidence file, 0 before the first
          ready,    \* the portfolios of resolution_queue.json
          items,    \* identifier_state.json
          reports,  \* the VERIFIED reports of wallet_identifications
          pub,      \* the rows of identified_wallets.json
          job,      \* the identifier: its phase, what it selected, the outcomes
          reg,      \* the shadow registry
          sync,     \* the shadow sync: its phase, rows, revocations and decision
          third,    \* the third-party research registry
          grown,    \* how many versions were written
          turns

ipVars == <<evidence, ready, items, reports, pub, job, reg, sync, third, grown, turns>>

Nothing == "none"
Operator == 0
Ids == Portfolios \cup {Operator}
Item(st, w, v, tries, wait) == [st |-> st, wallet |-> w, ev |-> v, tries |-> tries, wait |-> wait]
Entry(w, stage, on) == [wallet |-> w, stage |-> stage, on |-> on]
Absent == Entry(Nothing, "none", FALSE)
Row(p, w) == [p |-> p, wallet |-> w]
NoOutcomes == [p \in {} |-> Nothing]
IdleJob == [phase |-> "idle", todo |-> {}, out |-> NoOutcomes]
IdleSync == [phase |-> "idle", rows |-> {}, read |-> {}, valid |-> TRUE, op |-> "none"]

\* ---- the identifier job ----

\* _summary_payload: VERIFIED under the evidence that stands now.
Summary(its) ==
    {Row(p, its[p].wallet) : p \in {q \in ready : its[q].st = "VERIFIED" /\ its[q].ev = evidence[q]}}

AttemptedOnceFound(p) == items[p].ev = evidence[p] /\ items[p].st = "VERIFIED"
Attempted(p) ==
    /\ items[p].ev = evidence[p]
    /\ \/ items[p].st = "VERIFIED"
       \/ items[p].st = "UNRESOLVED" /\ items[p].wait > 0
Backoff(tries) == IF 2 ^ (tries - 1) \in 1 .. MaxBackoff THEN 2 ^ (tries - 1) ELSE MaxBackoff

\* run_once first empties the publication; another run is another hour.
JobStart ==
    /\ job.phase = "idle"
    /\ job' = [IdleJob EXCEPT !.phase = "parse"]
    /\ pub' = {}
    /\ items' = [p \in Portfolios |-> IF items[p].wait = 0 THEN items[p]
                                      ELSE [items[p] EXCEPT !.wait = @ - 1]]
    /\ UNCHANGED <<evidence, ready, reports, reg, sync, third, turns, grown>>

\* The first of what is pending, as many as one run takes: one set satisfies it.
Selected(todo, pending) ==
    /\ Cardinality(todo) <= MaxPortfolios
    /\ todo = pending \/ Cardinality(todo) = MaxPortfolios
    /\ \A p \in todo, q \in pending \ todo : p < q
\* What is already resolved is published again before the network is used.
JobSelect ==
    /\ job.phase = "parse"
    /\ LET pending == {p \in ready : ~Attempted(p)} IN
       \E todo \in SUBSET pending :
           Selected(todo, pending) /\ job' = [phase |-> "resolve", todo |-> todo, out |-> NoOutcomes]
    /\ pub' = Summary(items)
    /\ UNCHANGED <<evidence, ready, items, reports, reg, sync, third, turns, grown>>

\* One of the concurrent resolutions ends; a proof leaves its report behind.
Resolve(p, outcome) ==
    /\ job.phase = "resolve" /\ p \in job.todo \ DOMAIN job.out
    /\ job' = [job EXCEPT !.out = [q \in DOMAIN job.out \cup {p} |-> IF q = p THEN outcome ELSE job.out[q]]]
    /\ reports' = IF outcome \in Wallets THEN reports \cup {Row(p, outcome)} ELSE reports
    /\ UNCHANGED <<evidence, ready, items, pub, reg, sync, third, turns, grown>>

Outcome(p, outcome) ==
    LET same == items[p].st = "UNRESOLVED" /\ items[p].ev = evidence[p]
        tries == IF same THEN items[p].tries + 1 ELSE 1 IN
    CASE outcome = "ERROR" -> Item("ERROR", Nothing, evidence[p], 0, 0)
      [] outcome = "UNRESOLVED" ->
            Item("UNRESOLVED", Nothing, evidence[p], IF tries < MaxBackoff THEN tries ELSE MaxBackoff, Backoff(tries))
      [] OTHER -> Item("VERIFIED", outcome, evidence[p], 0, 0)

\* The outcomes are saved and published one by one, in the order of the queue.
JobApply(p) ==
    /\ job.phase = "resolve" /\ DOMAIN job.out = job.todo
    /\ p \in job.todo /\ \A q \in job.todo : p <= q
    /\ items' = [items EXCEPT ![p] = Outcome(p, job.out[p])]
    /\ pub' = Summary(items')
    /\ job' = [job EXCEPT !.todo = job.todo \ {p}, !.out = Restrict(job.out, job.todo \ {p})]
    /\ UNCHANGED <<evidence, ready, reports, reg, sync, third, turns, grown>>

\* publish_durable_verified_identities revokes the view it is about to replace.
JobEnds ==
    /\ job.phase = "resolve" /\ job.todo = {}
    /\ job' = [job EXCEPT !.phase = "durable"]
    /\ pub' = {}
    /\ UNCHANGED <<evidence, ready, items, reports, reg, sync, third, turns, grown>>

ProofsOf(p) == {r.wallet : r \in {q \in reports : q.p = p}}
QuarantinedAlone(p) == Cardinality(ProofsOf(p)) > 1
\* An identity with two proven wallets, and a wallet two current identities
\* prove, are quarantined.
Quarantined(p) ==
    \/ Cardinality(ProofsOf(p)) > 1
    \/ \E q \in ready \ {p} : Cardinality(ProofsOf(q)) = 1 /\ ProofsOf(q) = ProofsOf(p)
DurableNow == {r \in reports : r.p \in ready /\ items[r.p].wallet = r.wallet /\ ~Quarantined(r.p)}
Durable == {r \in reports : r.p \in ready /\ ~Quarantined(r.p)}
JobPublishes ==
    /\ job.phase = "durable"
    /\ pub' = Durable
    /\ job' = IdleJob
    /\ UNCHANGED <<evidence, ready, items, reports, reg, sync, third, turns, grown>>

\* A corrupt input, an exception or a kill: whatever was published stays.
JobFails ==
    /\ job.phase # "idle" /\ turns < MaxTurns /\ turns' = turns + 1
    /\ job' = IdleJob
    /\ UNCHANGED <<evidence, ready, items, reports, pub, reg, sync, third, grown>>

\* The collectors hold the same lock, so they run between two identifier runs.
EvidenceGrows(p) ==
    /\ job.phase = "idle" /\ grown < MaxEvidence /\ grown' = grown + 1
    /\ evidence' = [evidence EXCEPT ![p] = @ + 1]
    /\ ready' = ready \cup {p}
    /\ UNCHANGED <<items, reports, pub, job, reg, sync, third, turns>>
\* Aliases that unite trades may leave a portfolio below the threshold.
EvidenceShrinks(p) ==
    /\ job.phase = "idle" /\ p \in ready /\ turns < MaxTurns /\ turns' = turns + 1
    /\ ready' = ready \ {p}
    /\ UNCHANGED <<evidence, items, reports, pub, job, reg, sync, third, grown>>

\* ---- the registry ----

Active(r) == {i \in Ids : r[i].on /\ r[i].stage \in {"validation", "approved"}}
\* _assert_valid, on every add, update and load.
Valid(r) ==
    /\ Cardinality(Active(r)) <= Limit
    /\ \A i, j \in Ids : r[i].wallet = r[j].wallet /\ r[i].wallet # Nothing => i = j
OperatorAdds(w) ==
    /\ turns < MaxTurns /\ turns' = turns + 1
    /\ reg[Operator] = Absent
    /\ reg' = [reg EXCEPT ![Operator] = Entry(w, "validation", TRUE)]
    /\ Valid(reg')
    /\ UNCHANGED <<evidence, ready, items, reports, pub, job, sync, third, grown>>
\* An operator promotes what is enabled, not what a sync has revoked.
OperatorSets(i, stage) ==
    /\ turns < MaxTurns /\ turns' = turns + 1
    /\ reg[i].on /\ reg[i].stage # stage
    /\ reg' = [reg EXCEPT ![i].stage = stage]
    /\ Valid(reg')
    /\ UNCHANGED <<evidence, ready, items, reports, pub, job, sync, third, grown>>

\* ---- the shadow sync ----

Distinct(rows) == \A r, q \in rows : r.wallet = q.wallet => r = q

\* A publication with a wallet twice is invalid: everything managed is revoked.
SyncLoads ==
    /\ sync.phase = "idle"
    /\ sync' = [phase |-> "revoke", valid |-> Distinct(pub), op |-> "none", read |-> pub,
                rows |-> IF Distinct(pub) THEN pub ELSE {}]
    /\ UNCHANGED <<evidence, ready, items, reports, pub, job, reg, third, turns, grown>>

StaleNever(i) == FALSE
Stale(i) ==
    /\ i \in Portfolios /\ reg[i] # Absent /\ (reg[i].stage # "research" \/ reg[i].on)
    /\ \A r \in sync.rows : r.p # i
SyncRevokes(i) ==
    /\ sync.phase = "revoke" /\ Stale(i)
    /\ reg' = [reg EXCEPT ![i].stage = "research", ![i].on = FALSE]
    /\ UNCHANGED <<evidence, ready, items, reports, pub, job, sync, third, turns, grown>>
SyncRevoked ==
    /\ sync.phase = "revoke" /\ \A i \in Portfolios : ~Stale(i)
    /\ sync' = IF sync.valid THEN [sync EXCEPT !.phase = "rows"] ELSE IdleSync
    /\ UNCHANGED <<evidence, ready, items, reports, pub, job, reg, third, turns, grown>>

DecisionKeeping(row) ==
    LET mine == reg[row.p] IN
    IF mine = Absent THEN "add"
    ELSE IF mine.stage \in {"approved", "validation"} /\ mine.on THEN "external" ELSE "promote"
\* _activate_managed reads the registry, decides, and writes under the lock.
Decision(row) ==
    LET mine == reg[row.p]
        owner == {i \in Ids \ {row.p} : reg[i].wallet = row.wallet}
        full == Cardinality(Active(reg)) >= Limit IN
    IF mine # Absent /\ mine.wallet # row.wallet THEN "changed"
    ELSE IF \/ owner # {} \/ mine.stage = "approved"
            \/ mine # Absent /\ mine.stage = "validation" /\ mine.on THEN "external"
    ELSE IF full THEN IF mine = Absent THEN "addResearch" ELSE "wait"
    ELSE IF mine = Absent THEN "add" ELSE "promote"
FirstRow(row) == row \in sync.rows /\ \A r \in sync.rows : row.p <= r.p
SyncDecides(row) ==
    /\ sync.phase = "rows" /\ sync.op = "none" /\ FirstRow(row)
    /\ sync' = [sync EXCEPT !.op = Decision(row)]
    /\ UNCHANGED <<evidence, ready, items, reports, pub, job, reg, third, turns, grown>>

\* The registry validates again: over the limit the wallet waits, any other
\* refusal ends the sync.
With(i, e) == [reg EXCEPT ![i] = e]
SyncWrites(row) ==
    /\ sync.phase = "rows" /\ sync.op # "none" /\ FirstRow(row)
    /\ LET next == [sync EXCEPT !.op = "none", !.rows = sync.rows \ {row}]
           watched == With(row.p, Entry(reg[row.p].wallet, "validation", TRUE))
           added(stage) == With(row.p, Entry(row.wallet, stage, TRUE))
           waiting(e) == With(row.p, Entry(e, "research", TRUE))
           store(r, other) ==
               \/ Valid(r) /\ reg' = r /\ sync' = next
               \/ ~Valid(r) /\ Valid(other) /\ reg' = other /\ sync' = next
               \/ ~Valid(r) /\ ~Valid(other) /\ sync' = IdleSync /\ UNCHANGED reg IN
       CASE sync.op = "changed" ->
                reg' = [reg EXCEPT ![row.p].stage = "research", ![row.p].on = FALSE] /\ sync' = IdleSync
         [] sync.op = "external" -> sync' = next /\ UNCHANGED reg
         [] sync.op = "promote" -> store(watched, waiting(reg[row.p].wallet))
         [] sync.op = "wait" -> store(waiting(reg[row.p].wallet), waiting(reg[row.p].wallet))
         [] sync.op = "add" -> store(added("validation"), added("research"))
         [] sync.op = "addResearch" -> store(added("research"), added("research"))
    /\ UNCHANGED <<evidence, ready, items, reports, pub, job, third, turns, grown>>
SyncEnds ==
    /\ sync.phase = "rows" /\ sync.rows = {}
    /\ sync' = IdleSync
    /\ UNCHANGED <<evidence, ready, items, reports, pub, job, reg, third, turns, grown>>
SyncKilled ==
    /\ sync.phase # "idle" /\ turns < MaxTurns /\ turns' = turns + 1
    /\ sync' = IdleSync
    /\ UNCHANGED <<evidence, ready, items, reports, pub, job, reg, third, grown>>

\* ---- the third-party sync ----

Changed(p) == \E r \in pub : r.p = p /\ third[p].wallet \notin {Nothing, r.wallet}
Owned(p) == \E r \in pub : r.p = p /\ \E q \in Portfolios \ {p} : third[q].wallet = r.wallet
Stops(p) == Changed(p) \/ Owned(p)
\* A publication with an identity or a wallet twice is not loaded: the run raises.
Loads(rows) == Distinct(rows) /\ \A r, q \in rows : r.p = q.p => r = q
\* A changed or an owned wallet ends the run at its row, after the stale entries
\* were revoked.
ThirdSync ==
    /\ Loads(pub)
    /\ LET named == {r.p : r \in pub}
           stop == {p \in named : Stops(p)}
           done == {p \in named : \A q \in stop : p < q}
           first == {p \in stop : \A q \in stop : p <= q} IN
       third' = [p \in Portfolios |->
           IF third[p].wallet # Nothing /\ p \notin named THEN Entry(third[p].wallet, "research", FALSE)
           ELSE IF p \in first /\ Changed(p) THEN Entry(third[p].wallet, "research", FALSE)
           ELSE IF p \in done THEN Entry((CHOOSE r \in pub : r.p = p).wallet, "research", TRUE)
           ELSE third[p]]
    /\ UNCHANGED <<evidence, ready, items, reports, pub, job, reg, sync, turns, grown>>

\* ---- the system ----

IdentityInit ==
    /\ evidence = [p \in Portfolios |-> 0] /\ ready = {}
    /\ items = [p \in Portfolios |-> Item("none", Nothing, 0, 0, 0)]
    /\ reports = {} /\ pub = {} /\ job = IdleJob
    /\ reg = [i \in Ids |-> Absent] /\ sync = IdleSync
    /\ third = [p \in Portfolios |-> Absent] /\ grown = 0 /\ turns = 0

Outcomes == Wallets \cup {"UNRESOLVED", "ERROR"}
Job ==
    \/ JobSelect \/ JobEnds \/ JobPublishes
    \/ \E p \in job.todo : JobApply(p) \/ \E o \in Outcomes : Resolve(p, o)
Sync ==
    \/ SyncRevoked \/ SyncEnds
    \/ \E i \in Portfolios : SyncRevokes(i)
    \/ \E row \in sync.rows : SyncDecides(row) \/ SyncWrites(row)
IdentityNext ==
    \/ JobStart \/ Job \/ JobFails
    \/ SyncLoads \/ Sync \/ SyncKilled
    \/ ThirdSync
    \/ \E p \in Portfolios : EvidenceGrows(p) \/ EvidenceShrinks(p)
    \/ \E w \in Wallets : OperatorAdds(w)
    \/ \E i \in Ids, stage \in {"validation", "approved"} : OperatorSets(i, stage)

IdentitySpec ==
    /\ IdentityInit /\ [][IdentityNext]_ipVars
    /\ WF_ipVars(Job) /\ WF_ipVars(Sync) /\ WF_ipVars(JobStart)

-----------------------------------------------------------------------------

\* Type invariant.
IdentityTypeOK ==
    /\ evidence \in [Portfolios -> 0 .. MaxEvidence] /\ ready \subseteq Portfolios
    /\ \A p \in Portfolios : items[p] \in
           [st : {"none", "VERIFIED", "UNRESOLVED", "ERROR"}, wallet : Wallets \cup {Nothing},
            ev : 0 .. MaxEvidence, tries : 0 .. MaxBackoff, wait : 0 .. MaxBackoff]
    /\ \A r \in reports \cup pub : r.p \in Portfolios /\ r.wallet \in Wallets
    /\ \A i \in Ids : reg[i] \in [wallet : Wallets \cup {Nothing}, on : BOOLEAN,
                                 stage : {"none", "research", "validation", "approved"}]
    /\ job.phase \in {"idle", "parse", "resolve", "durable"}
    /\ DOMAIN job.out \subseteq job.todo /\ Cardinality(job.todo) <= MaxPortfolios

\* What the registry holds never exceeds the user slots of one address, though
\* the sync counts before the lock and an operator adds in between.
SlotsRespected == Cardinality(Active(reg)) <= Limit

\* When a run has ended, no wallet stands published for two identities, and an
\* identity whose proofs contradict each other is not published at all.
Unambiguous ==
    [][job.phase = "durable" /\ job'.phase = "idle" /\ pub' # pub =>
          /\ \A r, q \in pub' : r.wallet = q.wallet => r = q
          /\ \A r \in pub', q \in reports : r.p = q.p => r.wallet = q.wallet]_ipVars

\* A refresh that does not resolve an identity never unpublishes its proof.
ProofSurvivesRefresh ==
    [][job.phase = "durable" /\ job'.phase = "idle" /\ turns' = turns =>
          \A r \in reports : (/\ r.p \in ready /\ ProofsOf(r.p) = {r.wallet}
                              /\ \A q \in reports : q.wallet = r.wallet => q.p = r.p) => r \in pub']_ipVars

\* When a sync has ended, by itself or at a changed wallet, every managed wallet
\* still watched is one its publication names for that identity; rows behind a
\* changed wallet were not looked at.
WatchedIsPublished ==
    [][sync.phase = "rows" /\ sync'.phase = "idle" /\ turns' = turns =>
          \A p \in Portfolios \cap Active(reg') :
              \/ Row(p, reg'[p].wallet) \in sync.read
              \/ \E r \in sync.rows : r.p = p /\ ~FirstRow(r)]_ipVars

\* A sync that starts from an empty or an ambiguous publication leaves nothing
\* managed watched when it has revoked.
RevokedFirst ==
    [][sync.phase = "revoke" /\ sync'.phase # "revoke" /\ turns' = turns =>
          \A i \in Portfolios : i \in Active(reg) => \E r \in sync.rows : r.p = i]_ipVars

\* What is watched is published: a sync leaves nothing managed that its
\* publication does not name, and never more than the exchange allows.
WatchesThePublished == []SlotsRespected /\ WatchedIsPublished /\ RevokedFirst

\* No two entries of the research registry carry the same wallet, the revoked
\* ones included: the registry could not be loaded any more.
ResearchDistinct ==
    \A p, q \in Portfolios : p # q /\ third[p].wallet = third[q].wallet => third[p] = Absent

\* What is published is proven: no wallet stands for two identities, no
\* contradiction is published, and what was proven is not lost by a refresh.
PublishesTheProven ==
    []IdentityTypeOK /\ []ResearchDistinct /\ Unambiguous /\ ProofSurvivesRefresh

\* Every portfolio whose evidence stands is attempted with it: those that stay
\* unresolved back off, so a bounded run reaches the ones behind them (once
\* resolutions no longer fail, for a failure is retried at every run).
EveryoneAttempted ==
    (<>[][\A p \in DOMAIN job'.out : job'.out[p] # "ERROR"]_ipVars)
      => \A p \in Portfolios : []<>(p \in ready => items[p].ev = evidence[p])
=============================================================================
