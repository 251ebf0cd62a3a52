--------------------------- MODULE DiscoveryProofs ---------------------------
(***************************************************************************)
(* Proofs about what discovers traders, for any portfolios, wallets, posts *)
(* and bounds: IdentityPublication, the archive of InvoMiner, and the      *)
(* search of WalletProof.                                                  *)
(***************************************************************************)
EXTENDS IdentityPublication, InvoMiner, WalletProof, FiniteSetTheorems, SequenceTheorems,
        FunctionTheorems, WellFoundedInduction, TLAPS

-----------------------------------------------------------------------------
(* The inductive invariant, one conjunct for each component.  A row holds   *)
(* one wallet of each identity; a registry is valid whenever it is stored; *)
(* a sync past its revocations watches only what it read or has yet to do, *)
(* and the decision it took before the lock still fits the entry it will   *)
(* write, though an operator may have changed its stage meanwhile.         *)

Proven == [p : Portfolios, wallet : Wallets]
OneWalletEach(rows) == \A r, q \in rows : r.p = q.p => r = q

JobFits ==
    /\ job \in [phase : {"idle", "parse", "resolve", "durable"}, todo : SUBSET Portfolios,
                out : UNION {[S -> Outcomes] : S \in SUBSET Portfolios}]
    /\ DOMAIN job.out \subseteq job.todo /\ Cardinality(job.todo) <= MaxPortfolios

ItemRange ==
    [st : {"none", "VERIFIED", "UNRESOLVED", "ERROR"}, wallet : Wallets \cup {Nothing},
     ev : 0 .. MaxEvidence, tries : 0 .. MaxBackoff, wait : 0 .. MaxBackoff]
Stage == {"none", "research", "validation", "approved"}
RegEntry == [wallet : Wallets \cup {Nothing}, stage : Stage, on : BOOLEAN]

ItemsFit ==
    /\ grown \in 0 .. MaxEvidence /\ evidence \in [Portfolios -> 0 .. grown] /\ ready \subseteq Portfolios
    /\ items \in [Portfolios -> ItemRange]
    /\ \A p \in Portfolios : items[p].st = "VERIFIED" => items[p].wallet \in Wallets
RowsFit ==
    /\ reports \subseteq Proven /\ IsFiniteSet(reports)
    /\ pub \subseteq Proven /\ OneWalletEach(pub)

RegistryFits ==
    /\ reg \in [Ids -> RegEntry] /\ Valid(reg)
    /\ \A i \in Ids : reg[i].wallet = Nothing => reg[i] = Absent

SyncFits ==
    /\ sync.phase \in {"idle", "revoke", "rows"}
    /\ DOMAIN sync = {"phase", "rows", "read", "valid", "op"}
    /\ sync.read \subseteq Proven /\ sync.rows \subseteq sync.read /\ OneWalletEach(sync.rows)
    /\ sync.op \in {"none", "changed", "external", "promote", "wait", "add", "addResearch"}
    /\ sync.op # "none" => sync.phase = "rows"
    /\ sync.phase = "rows" => \A p \in Portfolios :
           reg[p].on => Row(p, reg[p].wallet) \in sync.read \/ \E r \in sync.rows : r.p = p
    /\ \A row \in sync.rows : FirstRow(row) /\ sync.op # "none" =>
           \/ sync.op = "changed" /\ reg[row.p].wallet # Nothing
           \/ sync.op \in {"promote", "wait", "external"} /\ reg[row.p].wallet = row.wallet
           \/ sync.op \in {"add", "addResearch", "external"} /\ reg[row.p] = Absent

ThirdFits ==
    /\ third \in [Portfolios -> RegEntry]
    /\ \A p \in Portfolios : third[p].wallet = Nothing => third[p] = Absent
    /\ ResearchDistinct

TurnsFit == turns \in 0 .. MaxTurns

IInv == TurnsFit /\ JobFits /\ ItemsFit /\ RowsFit /\ RegistryFits /\ SyncFits /\ ThirdFits

-----------------------------------------------------------------------------
LEMMA IdsFinite == IsFiniteSet(Ids) /\ Operator \notin Portfolios
BY IdentityAssumption, FS_AddElement DEF Ids, Operator

LEMMA InitHolds == IdentityInit => IInv
<1> SUFFICES ASSUME IdentityInit PROVE IInv
    OBVIOUS
<1> USE IdentityAssumption DEF IdentityInit
<1>1. JobFits
    <2>1. Cardinality({}) = 0 /\ 0 <= MaxPortfolios
        BY FS_EmptySet
    <2>2. NoOutcomes \in [{} -> Outcomes]
        BY DEF NoOutcomes
    <2> QED BY <2>1, <2>2 DEF JobFits, IdleJob, NoOutcomes
<1>2. ItemsFit
    BY DEF ItemsFit, ItemRange, Item, Nothing
<1>3. RowsFit
    BY FS_EmptySet DEF RowsFit, OneWalletEach
<1>4. RegistryFits
    <2>1. Active(reg) = {}
        BY DEF Active, Absent, Entry
    <2>2. \A i, j \in Ids : reg[i].wallet = reg[j].wallet /\ reg[i].wallet # Nothing => i = j
        BY DEF Absent, Entry
    <2>3. Valid(reg)
        BY <2>1, <2>2, FS_EmptySet DEF Valid
    <2> QED BY <2>3 DEF RegistryFits, RegEntry, Absent, Entry, Stage
<1>5. SyncFits
    BY DEF SyncFits, IdleSync, OneWalletEach
<1>6. ThirdFits
    BY DEF ThirdFits, ResearchDistinct, RegEntry, Absent, Entry, Stage
<1>7. TurnsFit
    BY DEF TurnsFit
<1> QED BY <1>1, <1>2, <1>3, <1>4, <1>5, <1>6, <1>7 DEF IInv

-----------------------------------------------------------------------------
(* The identifier.                                                         *)

LEMMA JobKept == IInv /\ [IdentityNext]_ipVars => JobFits'
<1> SUFFICES ASSUME IInv, [IdentityNext]_ipVars PROVE JobFits'
    OBVIOUS
<1> USE IdentityAssumption
<1>a. JobFits
    BY DEF IInv
<1>b. Cardinality({}) <= MaxPortfolios /\ NoOutcomes \in [{} -> Outcomes]
    BY <1>a, FS_EmptySet DEF IdleJob, NoOutcomes, JobFits
<1>1. CASE JobStart \/ JobPublishes \/ JobFails
    <2>1. PICK ph \in {"idle", "parse"} : job' = [phase |-> ph, todo |-> {}, out |-> NoOutcomes]
        BY <1>1 DEF JobStart, JobPublishes, JobFails, IdleJob
    <2>2. job'.todo = {} /\ job'.out = NoOutcomes /\ DOMAIN job'.out = {}
        BY <2>1 DEF NoOutcomes
    <2> QED BY <2>1, <2>2, <1>b DEF JobFits
<1>2. CASE JobSelect
    <2>1. PICK todo \in SUBSET {p \in ready : ~Attempted(p)} :
              Cardinality(todo) <= MaxPortfolios /\ job' = [phase |-> "resolve", todo |-> todo, out |-> NoOutcomes]
        BY <1>2 DEF JobSelect, Selected
    <2>2. todo \subseteq Portfolios
        BY DEF IInv, ItemsFit
    <2> QED BY <2>1, <2>2, <1>b DEF JobFits
<1>3. ASSUME NEW p \in job.todo, NEW o \in Outcomes, Resolve(p, o) PROVE JobFits'
    <2>1. job' = [job EXCEPT !.out = [q \in DOMAIN job.out \cup {p} |-> IF q = p THEN o ELSE job.out[q]]]
        BY <1>3 DEF Resolve
    <2>2. job.out \in [DOMAIN job.out -> Outcomes] /\ DOMAIN job.out \cup {p} \subseteq Portfolios
        BY <1>a DEF JobFits
    <2> DEFINE out == [q \in DOMAIN job.out \cup {p} |-> IF q = p THEN o ELSE job.out[q]]
    <2>3. out \in [DOMAIN job.out \cup {p} -> Outcomes]
        BY <2>2
    <2> QED BY <1>a, <2>1, <2>2, <2>3 DEF JobFits
<1>4. ASSUME NEW p \in job.todo, JobApply(p) PROVE JobFits'
    <2>1. /\ DOMAIN job.out = job.todo
          /\ job' = [job EXCEPT !.todo = job.todo \ {p}, !.out = Restrict(job.out, job.todo \ {p})]
        BY <1>4 DEF JobApply
    <2>2. Restrict(job.out, job.todo \ {p}) \in [job.todo \ {p} -> Outcomes]
        BY <2>1, <1>a DEF JobFits, Restrict
    <2>3. Cardinality(job.todo \ {p}) <= Cardinality(job.todo) /\ Cardinality(job.todo \ {p}) \in Nat /\ Cardinality(job.todo) \in Nat
        <3>1. IsFiniteSet(job.todo)
            BY <1>a, FS_Subset DEF JobFits
        <3> QED BY <3>1, FS_Subset, FS_CardinalityType
    <2>4. Cardinality(job.todo \ {p}) <= MaxPortfolios
        BY <2>3, <1>a DEF JobFits
    <2>5. /\ job' \in [phase : {"idle", "parse", "resolve", "durable"}, todo : SUBSET Portfolios,
                       out : UNION {[S -> Outcomes] : S \in SUBSET Portfolios}]
          /\ job'.todo = job.todo \ {p} /\ job'.out = Restrict(job.out, job.todo \ {p})
        BY <2>1, <2>2, <1>a DEF JobFits
    <2>6. DOMAIN job'.out = job.todo \ {p}
        BY <2>2, <2>5
    <2> QED BY <2>4, <2>5, <2>6 DEF JobFits
<1>5. CASE JobEnds
    BY <1>a, <1>5 DEF JobEnds, JobFits
<1>6. CASE UNCHANGED job
    BY <1>a, <1>6 DEF JobFits
<1>7. SyncLoads \/ Sync \/ SyncKilled \/ ThirdSync => UNCHANGED job
    BY DEF SyncLoads, Sync, SyncKilled, ThirdSync, SyncRevoked, SyncEnds, SyncRevokes, SyncDecides, SyncWrites
<1>8. (\E p \in Portfolios : EvidenceGrows(p) \/ EvidenceShrinks(p)) => UNCHANGED job
    BY DEF EvidenceGrows, EvidenceShrinks
<1>9. (\E w \in Wallets : OperatorAdds(w)) => UNCHANGED job
    BY DEF OperatorAdds
<1>10. (\E i \in Ids, level \in {"validation", "approved"} : OperatorSets(i, level)) => UNCHANGED job
    BY DEF OperatorSets
<1> QED BY <1>1, <1>2, <1>3, <1>4, <1>5, <1>6, <1>7, <1>8, <1>9, <1>10 DEF IdentityNext, Job, ipVars

LEMMA OutcomeFits ==
    ASSUME ItemsFit, NEW p \in Portfolios, NEW o \in Outcomes
    PROVE  /\ Outcome(p, o) \in ItemRange
           /\ Outcome(p, o).st = "VERIFIED" => Outcome(p, o).wallet \in Wallets
<1> USE IdentityAssumption
<1>1. evidence[p] \in 0 .. MaxEvidence /\ items[p].tries \in 0 .. MaxBackoff
    BY DEF ItemsFit, ItemRange
<1>2. \A n \in Nat : Backoff(n) \in 1 .. MaxBackoff
    BY DEF Backoff
<1> DEFINE tries == IF items[p].st = "UNRESOLVED" /\ items[p].ev = evidence[p] THEN items[p].tries + 1 ELSE 1
<1>3. tries \in 1 .. MaxBackoff + 1
    BY <1>1
<1>4. CASE o = "ERROR"
    BY <1>1, <1>4 DEF Outcome, Item, ItemRange, Nothing
<1>5. CASE o = "UNRESOLVED"
    <2>1. Outcome(p, o) =
              Item("UNRESOLVED", Nothing, evidence[p], IF tries < MaxBackoff THEN tries ELSE MaxBackoff, Backoff(tries))
        BY <1>5 DEF Outcome
    <2>2. Backoff(tries) \in 1 .. MaxBackoff
        BY <1>2, <1>3
    <2> HIDE DEF tries
    <2> QED BY <1>1, <1>3, <2>1, <2>2 DEF Item, ItemRange
<1>6. CASE o \in Wallets
    BY <1>1, <1>6 DEF Outcome, Item, ItemRange
<1> QED BY <1>4, <1>5, <1>6 DEF Outcomes

LEMMA ItemsKept == IInv /\ [IdentityNext]_ipVars => ItemsFit'
<1> SUFFICES ASSUME IInv, [IdentityNext]_ipVars PROVE ItemsFit'
    OBVIOUS
<1> USE IdentityAssumption
<1>a. ItemsFit /\ JobFits
    BY DEF IInv
<1>1. CASE JobStart
    <2>1. \A p \in Portfolios :
              (IF items[p].wait = 0 THEN items[p] ELSE [items[p] EXCEPT !.wait = items[p].wait - 1]) \in ItemRange
        <3> SUFFICES ASSUME NEW p \in Portfolios, items[p].wait # 0
                     PROVE  [items[p] EXCEPT !.wait = items[p].wait - 1] \in ItemRange
            BY <1>a DEF ItemsFit
        <3>1. items[p] \in ItemRange
            BY <1>a DEF ItemsFit
        <3>2. items[p].wait - 1 \in 0 .. MaxBackoff
            BY <3>1 DEF ItemRange
        <3> QED BY <3>1, <3>2 DEF ItemRange
    <2>2. items' = [p \in Portfolios |-> IF items[p].wait = 0 THEN items[p]
                                         ELSE [items[p] EXCEPT !.wait = items[p].wait - 1]]
          /\ UNCHANGED <<evidence, ready, grown>>
        BY <1>1 DEF JobStart
    <2>3. \A p \in Portfolios : items'[p].st = items[p].st /\ items'[p].wallet = items[p].wallet
        BY <2>2, <1>a DEF ItemsFit, ItemRange
    <2> QED BY <2>1, <2>2, <2>3, <1>a DEF ItemsFit
<1>2. ASSUME NEW p \in job.todo, JobApply(p) PROVE ItemsFit'
    <2>1. /\ items' = [items EXCEPT ![p] = Outcome(p, job.out[p])] /\ UNCHANGED <<evidence, ready, grown>>
          /\ DOMAIN job.out = job.todo
        BY <1>2 DEF JobApply
    <2>2. p \in Portfolios /\ job.out[p] \in Outcomes
        <3>1. PICK S \in SUBSET Portfolios : job.out \in [S -> Outcomes]
            BY <1>a DEF JobFits
        <3>2. p \in S
            BY <3>1, <2>1
        <3> QED BY <3>1, <3>2
    <2>3. Outcome(p, job.out[p]) \in ItemRange /\ (Outcome(p, job.out[p]).st = "VERIFIED" => Outcome(p, job.out[p]).wallet \in Wallets)
        BY <2>2, <1>a, OutcomeFits
    <2> QED BY <2>1, <2>2, <2>3, <1>a DEF ItemsFit
<1>3. ASSUME NEW p \in Portfolios, EvidenceGrows(p) PROVE ItemsFit'
    <2>1. /\ evidence' = [evidence EXCEPT ![p] = evidence[p] + 1] /\ ready' = ready \cup {p}
          /\ grown < MaxEvidence /\ grown' = grown + 1 /\ UNCHANGED items
        BY <1>3 DEF EvidenceGrows
    <2>2. grown' \in 0 .. MaxEvidence /\ evidence' \in [Portfolios -> 0 .. grown']
        BY <2>1, <1>a DEF ItemsFit
    <2> QED BY <2>1, <2>2, <1>a DEF ItemsFit
<1>4. ASSUME NEW p \in Portfolios, EvidenceShrinks(p) PROVE ItemsFit'
    BY <1>4, <1>a DEF EvidenceShrinks, ItemsFit
<1>5. CASE UNCHANGED <<evidence, ready, items, grown>>
    BY <1>5, <1>a DEF ItemsFit
<1>6. JobSelect \/ JobEnds \/ JobPublishes \/ JobFails \/ (\E p \in job.todo, o \in Outcomes : Resolve(p, o))
          => UNCHANGED <<evidence, ready, items, grown>>
    BY DEF JobSelect, JobEnds, JobPublishes, JobFails, Resolve
<1>7. SyncLoads \/ Sync \/ SyncKilled \/ ThirdSync => UNCHANGED <<evidence, ready, items, grown>>
    BY DEF SyncLoads, Sync, SyncKilled, ThirdSync, SyncRevoked, SyncEnds, SyncRevokes, SyncDecides, SyncWrites
<1>8. (\E w \in Wallets : OperatorAdds(w)) => UNCHANGED <<evidence, ready, items, grown>>
    BY DEF OperatorAdds
<1>9. (\E i \in Ids, level \in {"validation", "approved"} : OperatorSets(i, level))
          => UNCHANGED <<evidence, ready, items, grown>>
    BY DEF OperatorSets
<1> QED BY <1>1, <1>2, <1>3, <1>4, <1>5, <1>6, <1>7, <1>8, <1>9 DEF IdentityNext, Job, ipVars

(* What is published in between is a part of what was resolved; what the    *)
(* publisher writes, a part of the reports, and one row of each identity.  *)
LEMMA ProofsFinite ==
    ASSUME RowsFit, NEW p
    PROVE  IsFiniteSet(ProofsOf(p)) /\ Cardinality(ProofsOf(p)) \in Nat
<1>1. IsFiniteSet({q \in reports : q.p = p})
    BY FS_Subset DEF RowsFit
<1> DEFINE S == {q \in reports : q.p = p}
           f == [q \in S |-> q.wallet]
<1>2. f \in Surjection(S, ProofsOf(p))
    BY DEF Surjection, ProofsOf
<1>3. IsFiniteSet(ProofsOf(p))
    BY <1>1, <1>2, FS_Surjection
<1> QED BY <1>3, FS_CardinalityType

LEMMA ProofIsTheOnly ==
    ASSUME RowsFit, NEW r \in reports, ~(Cardinality(ProofsOf(r.p)) > 1)
    PROVE  ProofsOf(r.p) = {r.wallet} /\ Cardinality(ProofsOf(r.p)) = 1
<1>1. r.wallet \in ProofsOf(r.p)
    BY DEF ProofsOf
<1>2. IsFiniteSet(ProofsOf(r.p)) /\ Cardinality(ProofsOf(r.p)) \in Nat
    BY ProofsFinite
<1>3. Cardinality(ProofsOf(r.p)) # 0
    BY <1>1, <1>2, FS_EmptySet
<1>4. Cardinality(ProofsOf(r.p)) = 1
    BY <1>2, <1>3
<1>5. PICK x : ProofsOf(r.p) = {x}
    BY <1>2, <1>4, FS_Singleton
<1> QED BY <1>1, <1>4, <1>5

LEMMA DurableIsUnambiguous ==
    ASSUME RowsFit
    PROVE  /\ \A r, q \in Durable : r.wallet = q.wallet \/ r.p = q.p => r = q
           /\ \A r \in Durable, q \in reports : r.p = q.p => r.wallet = q.wallet
<1>1. ASSUME NEW r \in Durable
      PROVE  r \in reports /\ r \in Proven /\ r.p \in ready /\ ~Quarantined(r.p) /\ ProofsOf(r.p) = {r.wallet} /\ Cardinality(ProofsOf(r.p)) = 1
    <2>1. r \in reports /\ r.p \in ready /\ ~Quarantined(r.p)
        BY DEF Durable
    <2> QED BY <2>1, ProofIsTheOnly DEF Quarantined, RowsFit
<1>2. ASSUME NEW r \in Durable, NEW q \in reports, r.p = q.p PROVE r.wallet = q.wallet
    <2>1. q.wallet \in ProofsOf(r.p)
        BY <1>2 DEF ProofsOf
    <2> QED BY <2>1, <1>1
<1>3. ASSUME NEW r \in Durable, NEW q \in Durable, r.wallet = q.wallet \/ r.p = q.p PROVE r = q
    <2>1. CASE r.p = q.p
        BY <2>1, <1>1, <1>2 DEF Proven
    <2>2. CASE r.p # q.p /\ r.wallet = q.wallet
        BY <2>2, <1>1 DEF Quarantined
    <2> QED BY <2>1, <2>2, <1>3
<1> QED BY <1>2, <1>3

LEMMA SummaryFits ==
    ASSUME NEW its \in [Portfolios -> ItemRange], ready \subseteq Portfolios,
           \A p \in Portfolios : its[p].st = "VERIFIED" => its[p].wallet \in Wallets
    PROVE  Summary(its) \subseteq Proven /\ OneWalletEach(Summary(its))
BY DEF Summary, Row, Proven, OneWalletEach

LEMMA RowsKept == IInv /\ [IdentityNext]_ipVars => RowsFit'
<1> SUFFICES ASSUME IInv, [IdentityNext]_ipVars PROVE RowsFit'
    OBVIOUS
<1>a. RowsFit /\ ItemsFit /\ JobFits
    BY DEF IInv
<1>b. ItemsFit'
    BY ItemsKept
<1>1. CASE JobStart \/ JobEnds
    BY <1>1, <1>a DEF JobStart, JobEnds, RowsFit, OneWalletEach
<1>2. CASE JobSelect
    <2>1. Summary(items) \subseteq Proven /\ OneWalletEach(Summary(items))
        BY <1>a, SummaryFits DEF ItemsFit
    <2> QED BY <1>2, <2>1, <1>a DEF JobSelect, RowsFit
<1>3. ASSUME NEW p \in job.todo, NEW o \in Outcomes, Resolve(p, o) PROVE RowsFit'
    <2>1. p \in Portfolios /\ UNCHANGED pub
        BY <1>3, <1>a DEF JobFits, Resolve
    <2>2. reports' = reports \/ (o \in Wallets /\ reports' = reports \cup {Row(p, o)})
        BY <1>3 DEF Resolve
    <2>3. reports' \subseteq Proven
        BY <2>1, <2>2, <1>a DEF RowsFit, Row, Proven
    <2>4. IsFiniteSet(reports')
        BY <2>2, <1>a, FS_AddElement DEF RowsFit
    <2> QED BY <2>1, <2>3, <2>4, <1>a DEF RowsFit, OneWalletEach
<1>4. ASSUME NEW p \in job.todo, JobApply(p) PROVE RowsFit'
    <2>1. pub' = Summary(items') /\ UNCHANGED reports /\ UNCHANGED ready
        BY <1>4 DEF JobApply
    <2>2. Summary(items') \subseteq Proven /\ OneWalletEach(Summary(items'))
        BY <1>b, <2>1, SummaryFits DEF ItemsFit
    <2> QED BY <2>1, <2>2, <1>a DEF RowsFit, OneWalletEach
<1>5. CASE JobPublishes
    <2>1. pub' = Durable /\ UNCHANGED reports
        BY <1>5 DEF JobPublishes
    <2>2. Durable \subseteq reports /\ \A r, q \in Durable : r.p = q.p => r = q
        BY <1>a, DurableIsUnambiguous DEF Durable
    <2> QED BY <2>1, <2>2, <1>a DEF RowsFit, OneWalletEach
<1>6. CASE UNCHANGED <<reports, pub>>
    BY <1>6, <1>a DEF RowsFit, OneWalletEach
<1>7. JobFails \/ SyncLoads \/ Sync \/ SyncKilled \/ ThirdSync => UNCHANGED <<reports, pub>>
    BY DEF JobFails, SyncLoads, Sync, SyncKilled, ThirdSync, SyncRevoked, SyncEnds, SyncRevokes, SyncDecides, SyncWrites
<1>8. (\E p \in Portfolios : EvidenceGrows(p) \/ EvidenceShrinks(p)) => UNCHANGED <<reports, pub>>
    BY DEF EvidenceGrows, EvidenceShrinks
<1>9. (\E w \in Wallets : OperatorAdds(w)) => UNCHANGED <<reports, pub>>
    BY DEF OperatorAdds
<1>10. (\E i \in Ids, level \in {"validation", "approved"} : OperatorSets(i, level)) => UNCHANGED <<reports, pub>>
    BY DEF OperatorSets
<1> QED BY <1>1, <1>2, <1>3, <1>4, <1>5, <1>6, <1>7, <1>8, <1>9, <1>10 DEF IdentityNext, Job, ipVars

LEMMA TurnsKept == IInv /\ [IdentityNext]_ipVars => TurnsFit'
<1> SUFFICES ASSUME IInv, [IdentityNext]_ipVars PROVE TurnsFit'
    OBVIOUS
<1> USE IdentityAssumption
<1>a. turns \in 0 .. MaxTurns
    BY DEF IInv, TurnsFit
<1>1. turns' = turns \/ (turns < MaxTurns /\ turns' = turns + 1)
    <2>1. JobStart \/ JobSelect \/ JobEnds \/ JobPublishes \/ (\E p \in job.todo : JobApply(p) \/ \E o \in Outcomes : Resolve(p, o))
              => UNCHANGED turns
        BY DEF JobStart, JobSelect, JobEnds, JobPublishes, JobApply, Resolve
    <2>2. SyncLoads \/ Sync \/ ThirdSync => UNCHANGED turns
        BY DEF SyncLoads, Sync, ThirdSync, SyncRevoked, SyncEnds, SyncRevokes, SyncDecides, SyncWrites
    <2>3. JobFails \/ SyncKilled => turns < MaxTurns /\ turns' = turns + 1
        BY DEF JobFails, SyncKilled
    <2>4. (\E p \in Portfolios : EvidenceGrows(p) \/ EvidenceShrinks(p))
              => turns' = turns \/ (turns < MaxTurns /\ turns' = turns + 1)
        BY DEF EvidenceGrows, EvidenceShrinks
    <2>5. (\E w \in Wallets : OperatorAdds(w)) => turns < MaxTurns /\ turns' = turns + 1
        BY DEF OperatorAdds
    <2>6. (\E i \in Ids, level \in {"validation", "approved"} : OperatorSets(i, level))
              => turns < MaxTurns /\ turns' = turns + 1
        BY DEF OperatorSets
    <2> QED BY <2>1, <2>2, <2>3, <2>4, <2>5, <2>6 DEF IdentityNext, Job, ipVars
<1> QED BY <1>a, <1>1 DEF TurnsFit

-----------------------------------------------------------------------------
(* The registry and the shadow sync.                                       *)

(* An entry that is switched off leaves a valid registry valid.            *)
LEMMA RevokedIsValid ==
    ASSUME RegistryFits, NEW i \in Ids, reg[i].wallet # Nothing
    PROVE  LET next == [reg EXCEPT ![i].stage = "research", ![i].on = FALSE] IN
           /\ next \in [Ids -> RegEntry] /\ Valid(next)
           /\ \A k \in Ids : next[k].wallet = Nothing => next[k] = Absent
<1> DEFINE next == [reg EXCEPT ![i].stage = "research", ![i].on = FALSE]
<1>1. reg[i] \in RegEntry
    BY DEF RegistryFits
<1>2. next[i] = [wallet |-> reg[i].wallet, stage |-> "research", on |-> FALSE]
    BY <1>1 DEF RegistryFits, RegEntry
<1>3. \A k \in Ids \ {i} : next[k] = reg[k]
    BY DEF RegistryFits
<1>4. next \in [Ids -> RegEntry]
    BY <1>1, <1>2, <1>3 DEF RegistryFits, RegEntry, Stage
<1>5. \A k \in Ids : next[k].wallet = reg[k].wallet
    <2> SUFFICES ASSUME NEW k \in Ids PROVE next[k].wallet = reg[k].wallet
        OBVIOUS
    <2>1. CASE k = i
        BY <2>1, <1>2 DEF RegEntry
    <2>2. CASE k # i
        BY <2>2, <1>3
    <2> QED BY <2>1, <2>2
<1>6. Active(next) \subseteq Active(reg)
    <2> SUFFICES ASSUME NEW k \in Ids, next[k].on PROVE next[k] = reg[k]
        BY DEF Active
    <2>1. ~next[i].on
        BY <1>2
    <2> QED BY <2>1, <1>3
<1>7. IsFiniteSet(Active(reg))
    BY IdsFinite, FS_Subset DEF Active
<1>8. Cardinality(Active(next)) <= Cardinality(Active(reg)) /\ Cardinality(Active(next)) \in Nat /\ Cardinality(Active(reg)) \in Nat
    BY <1>6, <1>7, FS_Subset, FS_CardinalityType
<1>9. Valid(next)
    BY <1>5, <1>8, IdentityAssumption DEF Valid, RegistryFits
<1>10. \A k \in Ids : next[k].wallet = Nothing => next[k] = Absent
    BY <1>2, <1>3 DEF RegistryFits
<1> QED BY <1>4, <1>9, <1>10

(* What a step of the shadow sync writes for its row: nothing, the entry    *)
(* switched off, or an entry of the row's wallet in a valid registry.      *)
LEMMA WrittenIsValid ==
    ASSUME IInv, NEW row \in sync.rows, SyncWrites(row)
    PROVE  /\ row \in Proven /\ row.p \in Portfolios /\ row.p \in Ids
           /\ \/ sync.op = "changed" /\ sync' = IdleSync /\ reg[row.p].wallet # Nothing
                 /\ reg' = [reg EXCEPT ![row.p].stage = "research", ![row.p].on = FALSE]
              \/ /\ \A p \in Portfolios : p # row.p => reg'[p] = reg[p]
                 /\ RegistryFits'
                 /\ reg'[row.p].on => reg'[row.p].wallet = row.wallet
                 /\ sync' = IdleSync \/ sync' = [sync EXCEPT !.op = "none", !.rows = sync.rows \ {row}]
<1> USE IdentityAssumption
<1>a. RegistryFits /\ SyncFits /\ FirstRow(row)
    BY DEF IInv, SyncWrites
<1>1. row \in Proven /\ row.p \in Portfolios /\ row.p \in Ids /\ row.wallet \in Wallets /\ row.wallet # Nothing
    BY <1>a DEF SyncFits, Proven, Ids, Nothing
<1>2. sync.op # "none" /\ reg[row.p] \in RegEntry
    BY <1>1, <1>a DEF SyncWrites, RegistryFits
<1>3. \/ sync.op = "changed" /\ reg[row.p].wallet # Nothing
      \/ sync.op \in {"promote", "wait", "external"} /\ reg[row.p].wallet = row.wallet
      \/ sync.op \in {"add", "addResearch", "external"} /\ reg[row.p] = Absent
    BY <1>2, <1>a DEF SyncFits
<1> DEFINE next == [sync EXCEPT !.op = "none", !.rows = sync.rows \ {row}]
           new(level) == [reg EXCEPT ![row.p] = Entry(row.wallet, level, TRUE)]
<1>4. CASE sync.op = "changed"
    BY <1>1, <1>3, <1>4 DEF SyncWrites
<1>5. ASSUME NEW level \in {"research", "validation"}
      PROVE  /\ new(level) \in [Ids -> RegEntry] /\ new(level)[row.p] = Entry(row.wallet, level, TRUE)
             /\ \A k \in Ids \ {row.p} : new(level)[k] = reg[k]
             /\ \A k \in Ids : new(level)[k].wallet = Nothing => new(level)[k] = Absent
    <2>1. Entry(row.wallet, level, TRUE) \in RegEntry /\ Entry(row.wallet, level, TRUE).wallet = row.wallet
        BY <1>1 DEF Entry, RegEntry, Stage
    <2>2. new(level) \in [Ids -> RegEntry]
        BY <2>1, <1>a DEF RegistryFits
    <2>3. new(level)[row.p] = Entry(row.wallet, level, TRUE) /\ \A k \in Ids \ {row.p} : new(level)[k] = reg[k]
        BY <1>1, <1>a DEF RegistryFits
    <2> QED BY <2>1, <2>2, <2>3, <1>1, <1>a DEF RegistryFits
<1>6. CASE UNCHANGED reg /\ sync.op # "changed" /\ sync' \in {next, IdleSync}
    <2>1. RegistryFits'
        BY <1>6, <1>a DEF RegistryFits, Valid, Active
    <2>2. reg[row.p].on => reg[row.p].wallet = row.wallet
        BY <1>3, <1>6 DEF Absent, Entry
    <2> QED BY <2>1, <2>2, <1>1, <1>6
<1>7. ASSUME NEW level \in {"research", "validation"}, Valid(new(level)), reg' = new(level), sync' = next
      PROVE  /\ \A p \in Portfolios : p # row.p => reg'[p] = reg[p]
             /\ RegistryFits'
             /\ reg'[row.p].wallet = row.wallet
    <2>1. \A p \in Portfolios : p # row.p => reg'[p] = reg[p]
        BY <1>5, <1>7 DEF Ids
    <2> HIDE DEF new
    <2>2. Valid(reg)'
        BY <1>7 DEF Valid, Active
    <2>3. RegistryFits'
        BY <2>2, <1>5, <1>7 DEF RegistryFits
    <2> QED BY <2>1, <2>3, <1>5, <1>7 DEF Entry
<1>8. CASE sync.op \in {"promote", "wait"}
    <2>1. reg[row.p].wallet = row.wallet
        BY <1>3, <1>8 DEF Absent, Entry
    <2>2. \/ \E level \in {"research", "validation"} : Valid(new(level)) /\ reg' = new(level) /\ sync' = next
          \/ UNCHANGED reg /\ sync' = IdleSync
        BY <1>8, <2>1 DEF SyncWrites, With
    <2> QED BY <2>2, <1>1, <1>6, <1>7, <1>8
<1>9. CASE sync.op \in {"add", "addResearch"}
    <2>1. \/ \E level \in {"research", "validation"} : Valid(new(level)) /\ reg' = new(level) /\ sync' = next
          \/ UNCHANGED reg /\ sync' = IdleSync
        BY <1>9 DEF SyncWrites, With
    <2> QED BY <2>1, <1>1, <1>6, <1>7, <1>9
<1>10. CASE sync.op = "external"
    <2>1. UNCHANGED reg /\ sync' = next
        BY <1>10 DEF SyncWrites
    <2> QED BY <2>1, <1>1, <1>6, <1>10
<1> QED BY <1>2, <1>3, <1>4, <1>8, <1>9, <1>10

LEMMA RegistryKept == IInv /\ [IdentityNext]_ipVars => RegistryFits'
<1> SUFFICES ASSUME IInv, [IdentityNext]_ipVars PROVE RegistryFits'
    OBVIOUS
<1> USE IdentityAssumption
<1>a. RegistryFits /\ SyncFits
    BY DEF IInv
<1>1. ASSUME NEW i \in Portfolios, SyncRevokes(i) PROVE RegistryFits'
    <2>1. i \in Ids /\ reg[i].wallet # Nothing
        BY <1>1, <1>a DEF SyncRevokes, Stale, Ids, RegistryFits
    <2> DEFINE next == [reg EXCEPT ![i].stage = "research", ![i].on = FALSE]
    <2>2. reg' = next
        BY <1>1 DEF SyncRevokes
    <2>3. /\ next \in [Ids -> RegEntry] /\ Valid(next)
          /\ \A k \in Ids : next[k].wallet = Nothing => next[k] = Absent
        BY <2>1, <1>a, RevokedIsValid
    <2> HIDE DEF next
    <2> QED BY <2>2, <2>3 DEF RegistryFits, Valid, Active
<1>2. ASSUME NEW row \in sync.rows, SyncWrites(row) PROVE RegistryFits'
    <2>1. row.p \in Ids
        BY <1>2, WrittenIsValid
    <2>2. CASE reg[row.p].wallet # Nothing /\ reg' = [reg EXCEPT ![row.p].stage = "research", ![row.p].on = FALSE]
        <3> DEFINE next == [reg EXCEPT ![row.p].stage = "research", ![row.p].on = FALSE]
        <3>1. /\ next \in [Ids -> RegEntry] /\ Valid(next)
              /\ \A k \in Ids : next[k].wallet = Nothing => next[k] = Absent
            BY <2>1, <2>2, <1>a, RevokedIsValid
        <3>2. reg' = next
            BY <2>2
        <3> HIDE DEF next
        <3> QED BY <3>1, <3>2 DEF RegistryFits, Valid, Active
    <2> QED BY <1>2, <2>2, WrittenIsValid
<1>3. ASSUME NEW w \in Wallets, OperatorAdds(w) PROVE RegistryFits'
    <2>1. reg' = [reg EXCEPT ![Operator] = Entry(w, "validation", TRUE)] /\ Valid(reg')
        BY <1>3 DEF OperatorAdds
    <2>2. Operator \in Ids /\ Entry(w, "validation", TRUE) \in RegEntry /\ Entry(w, "validation", TRUE).wallet # Nothing
        BY DEF Ids, Entry, RegEntry, Stage, Nothing
    <2>3. reg' \in [Ids -> RegEntry] /\ \A i \in Ids : reg'[i].wallet = Nothing => reg'[i] = Absent
        BY <2>1, <2>2, <1>a DEF RegistryFits
    <2> QED BY <2>1, <2>3 DEF RegistryFits, Valid, Active
<1>4. ASSUME NEW i \in Ids, NEW level \in {"validation", "approved"}, OperatorSets(i, level) PROVE RegistryFits'
    <2>1. reg' = [reg EXCEPT ![i].stage = level] /\ Valid(reg') /\ reg[i].on
        BY <1>4 DEF OperatorSets
    <2>2. reg[i] \in RegEntry /\ reg[i].wallet # Nothing
        BY <2>1, <1>a DEF RegistryFits, Absent, Entry
    <2>3. reg'[i] = [wallet |-> reg[i].wallet, stage |-> level, on |-> reg[i].on] /\ \A k \in Ids \ {i} : reg'[k] = reg[k]
        BY <2>1, <2>2, <1>a DEF RegistryFits, RegEntry
    <2>4. reg'[i] \in RegEntry /\ reg'[i].wallet # Nothing
        BY <2>2, <2>3 DEF RegEntry, Stage
    <2>5. reg' \in [Ids -> RegEntry]
        BY <2>1, <2>3, <2>4, <1>a DEF RegistryFits
    <2>6. \A k \in Ids : reg'[k].wallet = Nothing => reg'[k] = Absent
        BY <2>3, <2>4, <1>a DEF RegistryFits
    <2> QED BY <2>1, <2>5, <2>6 DEF RegistryFits, Valid, Active
<1>5. CASE UNCHANGED reg
    BY <1>5, <1>a DEF RegistryFits, Valid, Active
<1>6. JobStart \/ Job \/ JobFails => UNCHANGED reg
    BY DEF JobStart, Job, JobFails, JobSelect, JobEnds, JobPublishes, JobApply, Resolve
<1>7. SyncLoads \/ SyncKilled \/ ThirdSync \/ SyncRevoked \/ SyncEnds \/ (\E row \in sync.rows : SyncDecides(row)) => UNCHANGED reg
    BY DEF SyncLoads, SyncKilled, ThirdSync, SyncRevoked, SyncEnds, SyncDecides
<1>8. (\E p \in Portfolios : EvidenceGrows(p) \/ EvidenceShrinks(p)) => UNCHANGED reg
    BY DEF EvidenceGrows, EvidenceShrinks
<1> QED BY <1>1, <1>2, <1>3, <1>4, <1>5, <1>6, <1>7, <1>8 DEF IdentityNext, Sync, ipVars

LEMMA SyncKept == IInv /\ [IdentityNext]_ipVars => SyncFits'
<1> SUFFICES ASSUME IInv, [IdentityNext]_ipVars PROVE SyncFits'
    OBVIOUS
<1> USE IdentityAssumption
<1>a. RegistryFits /\ SyncFits /\ RowsFit
    BY DEF IInv
<1>b. Portfolios \subseteq Ids
    BY DEF Ids
<1>1. CASE sync' = IdleSync
    BY <1>1 DEF SyncFits, IdleSync, OneWalletEach
<1>2. CASE SyncLoads
    <2>1. sync' = [phase |-> "revoke", valid |-> Distinct(pub), op |-> "none", read |-> pub,
                   rows |-> IF Distinct(pub) THEN pub ELSE {}]
        BY <1>2 DEF SyncLoads
    <2> QED BY <2>1, <1>a DEF SyncFits, RowsFit, OneWalletEach
<1>3. ASSUME NEW i \in Portfolios, SyncRevokes(i) PROVE SyncFits'
    <2>1. sync' = sync /\ sync.phase = "revoke"
        BY <1>3 DEF SyncRevokes
    <2>2. sync.op = "none"
        BY <2>1, <1>a DEF SyncFits
    <2> QED BY <2>1, <2>2, <1>a DEF SyncFits, OneWalletEach
<1>4. CASE SyncRevoked /\ sync' # IdleSync
    <2>1. sync' = [sync EXCEPT !.phase = "rows"] /\ reg' = reg /\ sync.phase = "revoke" /\ \A i \in Portfolios : ~Stale(i)
        BY <1>4 DEF SyncRevoked
    <2>2. sync.op = "none"
        BY <2>1, <1>a DEF SyncFits
    <2>3. sync'.phase = "rows" /\ sync'.rows = sync.rows /\ sync'.read = sync.read /\ sync'.op = "none"
          /\ DOMAIN sync' = DOMAIN sync
        BY <2>1, <2>2, <1>a DEF SyncFits
    <2>4. ASSUME NEW p \in Portfolios, reg[p].on PROVE \E r \in sync.rows : r.p = p
        BY <2>1, <2>4 DEF Stale, Absent, Entry
    <2> QED BY <2>1, <2>3, <2>4, <1>a DEF SyncFits, OneWalletEach
<1>5. ASSUME NEW row \in sync.rows, SyncDecides(row) PROVE SyncFits'
    <2>1. sync' = [sync EXCEPT !.op = Decision(row)] /\ reg' = reg /\ sync.phase = "rows" /\ FirstRow(row)
        BY <1>5 DEF SyncDecides
    <2>2. row \in Proven
        BY <1>a DEF SyncFits
    <2>3. reg[row.p] \in RegEntry /\ (reg[row.p].wallet = Nothing => reg[row.p] = Absent)
        BY <2>2, <1>a, <1>b DEF RegistryFits, Proven
    <2>4. Decision(row) \in {"changed", "external", "promote", "wait", "add", "addResearch"}
        BY DEF Decision
    <2>5. \/ Decision(row) = "changed" /\ reg[row.p].wallet # Nothing
          \/ Decision(row) \in {"promote", "wait", "external"} /\ reg[row.p].wallet = row.wallet
          \/ Decision(row) \in {"add", "addResearch", "external"} /\ reg[row.p] = Absent
        BY <2>3 DEF Decision
    <2>6. ASSUME NEW r \in sync.rows, FirstRow(r) PROVE r = row
        <3>1. r.p \in Nat /\ row.p \in Nat /\ r.p <= row.p /\ row.p <= r.p
            BY <2>1, <2>2, <2>6, <1>a DEF FirstRow, SyncFits, Proven
        <3>2. r.p = row.p
            BY <3>1
        <3> QED BY <3>2, <1>a DEF SyncFits, OneWalletEach
    <2>7. /\ sync'.phase = "rows" /\ sync'.rows = sync.rows /\ sync'.read = sync.read /\ sync'.op = Decision(row)
          /\ DOMAIN sync' = DOMAIN sync
        BY <2>1, <1>a DEF SyncFits
    <2>8. \A r \in sync.rows : FirstRow(r)' <=> FirstRow(r)
        BY <2>7 DEF FirstRow
    <2> QED BY <2>1, <2>4, <2>5, <2>6, <2>7, <2>8, <1>a DEF SyncFits, OneWalletEach
<1>6. ASSUME NEW row \in sync.rows, SyncWrites(row), sync' # IdleSync PROVE SyncFits'
    <2>1. /\ row \in Proven /\ \A p \in Portfolios : p # row.p => reg'[p] = reg[p]
          /\ reg'[row.p].on => reg'[row.p].wallet = row.wallet
          /\ sync' = [sync EXCEPT !.op = "none", !.rows = sync.rows \ {row}]
        BY <1>6, WrittenIsValid
    <2>2. sync.phase = "rows"
        BY <1>6 DEF SyncWrites
    <2>3. /\ sync'.phase = "rows" /\ sync'.rows = sync.rows \ {row} /\ sync'.read = sync.read /\ sync'.op = "none"
          /\ DOMAIN sync' = DOMAIN sync
        BY <2>1, <2>2, <1>a DEF SyncFits
    <2>4. ASSUME NEW p \in Portfolios, reg'[p].on
          PROVE  Row(p, reg'[p].wallet) \in sync.read \/ \E r \in sync.rows \ {row} : r.p = p
        <3>1. CASE p = row.p
            <4>1. Row(p, reg'[p].wallet) = row
                BY <2>1, <2>4, <3>1 DEF Row, Proven
            <4> QED BY <4>1, <1>a DEF SyncFits
        <3>2. CASE p # row.p
            BY <2>1, <2>2, <2>4, <3>2, <1>a DEF SyncFits
        <3> QED BY <3>1, <3>2
    <2> QED BY <2>3, <2>4, <1>a DEF SyncFits, OneWalletEach
<1>7. ASSUME NEW i \in Ids, NEW level \in {"validation", "approved"}, OperatorSets(i, level) PROVE SyncFits'
    <2>1. reg' = [reg EXCEPT ![i].stage = level] /\ reg[i].on /\ sync' = sync
        BY <1>7 DEF OperatorSets
    <2>2. reg[i] \in RegEntry
        BY <1>a DEF RegistryFits
    <2>3. reg'[i] = [wallet |-> reg[i].wallet, stage |-> level, on |-> reg[i].on] /\ \A k \in Ids \ {i} : reg'[k] = reg[k]
        BY <2>1, <2>2, <1>a DEF RegistryFits, RegEntry
    <2>4. \A k \in Ids : reg'[k].wallet = reg[k].wallet /\ reg'[k].on = reg[k].on /\ (reg[k] = Absent => reg'[k] = Absent)
        BY <2>1, <2>3 DEF Absent, Entry
    <2>5. \A r \in sync.rows : r.p \in Portfolios
        BY <1>a DEF SyncFits, Proven
    <2> QED BY <2>1, <2>4, <2>5, <1>a, <1>b DEF SyncFits, OneWalletEach, FirstRow
<1>8. ASSUME NEW w \in Wallets, OperatorAdds(w) PROVE SyncFits'
    <2>1. reg' = [reg EXCEPT ![Operator] = Entry(w, "validation", TRUE)] /\ sync' = sync
        BY <1>8 DEF OperatorAdds
    <2>2. \A k \in Portfolios : reg'[k] = reg[k]
        BY <2>1, IdsFinite, <1>a, <1>b DEF RegistryFits
    <2>3. \A r \in sync.rows : r.p \in Portfolios
        BY <1>a DEF SyncFits, Proven
    <2> QED BY <2>1, <2>2, <2>3, <1>a DEF SyncFits, OneWalletEach, FirstRow
<1>9. CASE UNCHANGED <<reg, sync>>
    BY <1>9, <1>a DEF SyncFits, OneWalletEach, FirstRow
<1>10. JobStart \/ Job \/ JobFails \/ ThirdSync => UNCHANGED <<reg, sync>>
    BY DEF JobStart, Job, JobFails, JobSelect, JobEnds, JobPublishes, JobApply, Resolve, ThirdSync
<1>11. SyncKilled \/ SyncEnds => sync' = IdleSync
    BY DEF SyncKilled, SyncEnds
<1>12. (\E p \in Portfolios : EvidenceGrows(p) \/ EvidenceShrinks(p)) => UNCHANGED <<reg, sync>>
    BY DEF EvidenceGrows, EvidenceShrinks
<1> QED BY <1>1, <1>2, <1>3, <1>4, <1>5, <1>6, <1>7, <1>8, <1>9, <1>10, <1>11, <1>12 DEF IdentityNext, Sync, ipVars

-----------------------------------------------------------------------------
(* The third-party registry: a row that is written has a wallet no other    *)
(* entry carries, and two rows that are written carry different wallets.   *)

LEMMA ThirdKept == IInv /\ [IdentityNext]_ipVars => ThirdFits'
<1> SUFFICES ASSUME IInv, [IdentityNext]_ipVars PROVE ThirdFits'
    OBVIOUS
<1> USE IdentityAssumption
<1>a. ThirdFits /\ RowsFit
    BY DEF IInv
<1>1. CASE ThirdSync
    <2> DEFINE named == {r.p : r \in pub}
               stop == {p \in named : Stops(p)}
               done == {p \in named : \A q \in stop : p < q}
               first == {p \in stop : \A q \in stop : p <= q}
               W(p) == (CHOOSE r \in pub : r.p = p).wallet
               new(p) == IF third[p].wallet # Nothing /\ p \notin named THEN Entry(third[p].wallet, "research", FALSE)
                         ELSE IF p \in first /\ Changed(p) THEN Entry(third[p].wallet, "research", FALSE)
                         ELSE IF p \in done THEN Entry(W(p), "research", TRUE)
                         ELSE third[p]
    <2>1. third' = [p \in Portfolios |-> new(p)] /\ Loads(pub)
        BY <1>1 DEF ThirdSync
    <2>2. ASSUME NEW p \in done
          PROVE  Row(p, W(p)) \in pub /\ W(p) \in Wallets /\ W(p) # Nothing
        <3>1. PICK r \in pub : r.p = p
            BY <2>2
        <3>2. (CHOOSE r2 \in pub : r2.p = p) = r
            BY <3>1, <2>1 DEF Loads
        <3>3. r = Row(p, W(p)) /\ r.wallet \in Wallets
            BY <3>1, <3>2, <1>a DEF RowsFit, Proven, Row
        <3> QED BY <3>1, <3>2, <3>3 DEF Nothing
    <2>3. ASSUME NEW p \in Portfolios, p \in done
          PROVE  \A q \in Portfolios \ {p} : third[q].wallet # W(p)
        <3>1. p \notin stop
            BY <2>3
        <3>2. ~Owned(p)
            BY <2>3, <3>1 DEF Stops
        <3> QED BY <2>2, <2>3, <3>2 DEF Owned, Row
    <2>4. ASSUME NEW p \in done, NEW q \in done, W(p) = W(q) PROVE p = q
        <3>1. Row(p, W(p)) = Row(q, W(q))
            BY <2>1, <2>2, <2>4 DEF Loads, Distinct, Row
        <3> QED BY <3>1 DEF Row
    <2>5. ASSUME NEW p \in Portfolios
          PROVE  \/ p \in done /\ new(p) = Entry(W(p), "research", TRUE)
                 \/ new(p).wallet = third[p].wallet /\ (third[p] = Absent => new(p) = Absent) /\ new(p) \in RegEntry
        <3>1. third[p] \in RegEntry
            BY <1>a DEF ThirdFits
        <3>2. Changed(p) => third[p].wallet # Nothing
            BY DEF Changed
        <3>3. third[p] = Absent => third[p].wallet = Nothing
            BY DEF Absent, Entry
        <3>4. Entry(third[p].wallet, "research", FALSE) \in RegEntry
            BY <3>1 DEF RegEntry, Entry, Stage
        <3>5. Entry(third[p].wallet, "research", FALSE).wallet = third[p].wallet
            BY DEF Entry
        <3> HIDE DEF named, stop, done, first, W
        <3> QED BY <3>1, <3>2, <3>3, <3>4, <3>5
    <2> HIDE DEF new, done, W
    <2>6. \A p \in Portfolios : third'[p] = new(p)
        BY <2>1
    <2>7. \A p \in done : Entry(W(p), "research", TRUE) \in RegEntry /\ Entry(W(p), "research", TRUE).wallet = W(p)
        BY <2>2 DEF Entry, RegEntry, Stage
    <2>8. third' \in [Portfolios -> RegEntry]
        BY <2>1, <2>5, <2>7
    <2>9. \A p \in Portfolios : third'[p].wallet = Nothing => third'[p] = Absent
        BY <2>2, <2>5, <2>6, <2>7, <1>a DEF ThirdFits
    <2>10. ASSUME NEW p \in Portfolios, NEW q \in Portfolios, p # q, new(p).wallet = new(q).wallet PROVE new(p) = Absent
        <3>1. CASE p \in done /\ new(p) = Entry(W(p), "research", TRUE)
            <4>1. new(p).wallet = W(p)
                BY <3>1, <2>7
            <4>2. q \notin done
                BY <4>1, <3>1, <2>3, <2>4, <2>5, <2>7, <2>10
            <4> QED BY <4>1, <4>2, <3>1, <2>3, <2>5, <2>10
        <3>2. CASE q \in done /\ new(q) = Entry(W(q), "research", TRUE)
            <4>1. new(q).wallet = W(q)
                BY <3>2, <2>7
            <4>2. p \notin done
                BY <4>1, <3>2, <2>3, <2>4, <2>5, <2>7, <2>10
            <4> QED BY <4>1, <4>2, <3>2, <2>3, <2>5, <2>10
        <3>3. CASE new(p).wallet = third[p].wallet /\ new(q).wallet = third[q].wallet /\ (third[p] = Absent => new(p) = Absent)
            BY <3>3, <2>10, <1>a DEF ThirdFits, ResearchDistinct
        <3> QED BY <3>1, <3>2, <3>3, <2>5
    <2> QED BY <2>6, <2>8, <2>9, <2>10 DEF ThirdFits, ResearchDistinct
<1>2. CASE UNCHANGED third
    BY <1>2, <1>a DEF ThirdFits, ResearchDistinct
<1>3. JobStart \/ Job \/ JobFails => UNCHANGED third
    BY DEF JobStart, Job, JobFails, JobSelect, JobEnds, JobPublishes, JobApply, Resolve
<1>4. SyncLoads \/ Sync \/ SyncKilled => UNCHANGED third
    BY DEF SyncLoads, Sync, SyncKilled, SyncRevoked, SyncEnds, SyncRevokes, SyncDecides, SyncWrites
<1>5. (\E p \in Portfolios : EvidenceGrows(p) \/ EvidenceShrinks(p)) => UNCHANGED third
    BY DEF EvidenceGrows, EvidenceShrinks
<1>6. (\E w \in Wallets : OperatorAdds(w)) => UNCHANGED third
    BY DEF OperatorAdds
<1>7. (\E i \in Ids, level \in {"validation", "approved"} : OperatorSets(i, level)) => UNCHANGED third
    BY DEF OperatorSets
<1> QED BY <1>1, <1>2, <1>3, <1>4, <1>5, <1>6, <1>7 DEF IdentityNext, ipVars

-----------------------------------------------------------------------------
LEMMA InvariantHolds == IdentitySpec => []IInv
<1>1. IdentityInit => IInv
    BY InitHolds
<1>2. IInv /\ [IdentityNext]_ipVars => IInv'
    BY TurnsKept, JobKept, ItemsKept, RowsKept, RegistryKept, SyncKept, ThirdKept DEF IInv
<1> QED BY <1>1, <1>2, PTL DEF IdentitySpec

LEMMA TypeFromInvariant == IInv => IdentityTypeOK
<1> SUFFICES ASSUME IInv PROVE IdentityTypeOK
    OBVIOUS
<1> USE IdentityAssumption DEF IInv
<1>1. evidence \in [Portfolios -> 0 .. MaxEvidence] /\ ready \subseteq Portfolios
    BY DEF ItemsFit
<1>2. \A p \in Portfolios : items[p] \in ItemRange
    BY DEF ItemsFit
<1>3. \A r \in reports \cup pub : r.p \in Portfolios /\ r.wallet \in Wallets
    BY DEF RowsFit, Proven
<1>4. \A i \in Ids : reg[i] \in [wallet : Wallets \cup {Nothing}, on : BOOLEAN,
                                stage : {"none", "research", "validation", "approved"}]
    BY DEF RegistryFits, RegEntry, Stage
<1>5. /\ job.phase \in {"idle", "parse", "resolve", "durable"}
      /\ DOMAIN job.out \subseteq job.todo /\ Cardinality(job.todo) <= MaxPortfolios
    BY DEF JobFits
<1> QED BY <1>1, <1>2, <1>3, <1>4, <1>5 DEF IdentityTypeOK, ItemRange

(* The only step that ends the publisher without a failure is its writing. *)
LEMMA PublisherEnds ==
    ASSUME IInv, [IdentityNext]_ipVars, job.phase = "durable", job'.phase = "idle"
    PROVE  JobPublishes \/ JobFails
<1>1. ~JobStart /\ ~JobSelect /\ ~JobEnds /\ \A p \in job.todo : ~JobApply(p) /\ \A o \in Outcomes : ~Resolve(p, o)
    BY DEF JobStart, JobSelect, JobEnds, JobApply, Resolve
<1>2. ~UNCHANGED job
    OBVIOUS
<1>3. SyncLoads \/ Sync \/ SyncKilled \/ ThirdSync => UNCHANGED job
    BY DEF SyncLoads, Sync, SyncKilled, ThirdSync, SyncRevoked, SyncEnds, SyncRevokes, SyncDecides, SyncWrites
<1>4. (\E p \in Portfolios : EvidenceGrows(p) \/ EvidenceShrinks(p)) => UNCHANGED job
    BY DEF EvidenceGrows, EvidenceShrinks
<1>5. (\E w \in Wallets : OperatorAdds(w)) => UNCHANGED job
    BY DEF OperatorAdds
<1>6. (\E i \in Ids, level \in {"validation", "approved"} : OperatorSets(i, level)) => UNCHANGED job
    BY DEF OperatorSets
<1> QED BY <1>1, <1>2, <1>3, <1>4, <1>5, <1>6 DEF IdentityNext, Job, ipVars

(* What the publisher writes is unambiguous, and holds every identity with  *)
(* one proven wallet that no other identity proved.                        *)
LEMMA PublisherStep ==
    ASSUME IInv, [IdentityNext]_ipVars, job.phase = "durable", job'.phase = "idle"
    PROVE  /\ pub' # pub =>
                 /\ \A r, q \in pub' : r.wallet = q.wallet => r = q
                 /\ \A r \in pub', q \in reports : r.p = q.p => r.wallet = q.wallet
           /\ turns' = turns =>
                 \A r \in reports : (/\ r.p \in ready /\ ProofsOf(r.p) = {r.wallet}
                                     /\ \A q \in reports : q.wallet = r.wallet => q.p = r.p) => r \in pub'
<1>1. CASE JobPublishes
    <2>1. pub' = Durable
        BY <1>1 DEF JobPublishes
    <2>2. ASSUME NEW r \in reports, r.p \in ready, ProofsOf(r.p) = {r.wallet},
                 \A q \in reports : q.wallet = r.wallet => q.p = r.p
          PROVE  r \in Durable
        <3>1. Cardinality(ProofsOf(r.p)) = 1
            BY <2>2, FS_Singleton
        <3>2. ASSUME NEW q \in ready \ {r.p} PROVE ProofsOf(q) # ProofsOf(r.p)
            BY <2>2 DEF ProofsOf
        <3> QED BY <2>2, <3>1, <3>2 DEF Durable, Quarantined
    <2> QED BY <2>1, <2>2, DurableIsUnambiguous DEF IInv
<1>2. CASE JobFails
    <2>1. pub' = pub /\ turns' = turns + 1 /\ turns \in Nat
        BY <1>2, IdentityAssumption DEF JobFails, IInv, TurnsFit
    <2> QED BY <2>1
<1> QED BY <1>1, <1>2, PublisherEnds

\* Whatever the jobs, the collectors, the operators and the failures interleave,
\* what publish_durable_verified_identities leaves published is proven: no wallet
\* stands for two identities, no identity whose reports contradict each other is
\* there, every uncontradicted proof of a ready identity is there, and the
\* third-party registry never carries one wallet twice.
THEOREM PublishesTheProvenHolds == IdentitySpec => PublishesTheProven
<1>1. IInv => IdentityTypeOK /\ ResearchDistinct
    BY TypeFromInvariant DEF IInv, ThirdFits
<1>2. IInv /\ [IdentityNext]_ipVars =>
        [job.phase = "durable" /\ job'.phase = "idle" /\ pub' # pub =>
          /\ \A r, q \in pub' : r.wallet = q.wallet => r = q
          /\ \A r \in pub', q \in reports : r.p = q.p => r.wallet = q.wallet]_ipVars
    BY PublisherStep
<1>3. IInv /\ [IdentityNext]_ipVars =>
        [job.phase = "durable" /\ job'.phase = "idle" /\ turns' = turns =>
          \A r \in reports : (/\ r.p \in ready /\ ProofsOf(r.p) = {r.wallet}
                              /\ \A q \in reports : q.wallet = r.wallet => q.p = r.p) => r \in pub']_ipVars
    BY PublisherStep
<1> QED BY <1>1, <1>2, <1>3, InvariantHolds, PTL
        DEF IdentitySpec, PublishesTheProven, Unambiguous, ProofSurvivesRefresh

-----------------------------------------------------------------------------
(* A sync that ends by itself or at a changed wallet: its last step writes  *)
(* a row, or finds none left.                                              *)
LEMMA SyncFinishes ==
    ASSUME IInv, [IdentityNext]_ipVars, sync.phase # "idle", sync'.phase # sync.phase, turns' = turns
    PROVE  SyncRevoked \/ SyncEnds \/ \E row \in sync.rows : SyncWrites(row)
<1>1. turns \in Nat
    BY IdentityAssumption DEF IInv, TurnsFit
<1>2. ~UNCHANGED sync
    OBVIOUS
<1>3. JobStart \/ Job \/ JobFails \/ ThirdSync => UNCHANGED sync
    BY DEF JobStart, Job, JobFails, JobSelect, JobEnds, JobPublishes, JobApply, Resolve, ThirdSync
<1>4. ~SyncLoads /\ ~SyncKilled /\ \A i \in Portfolios : ~SyncRevokes(i)
    BY <1>1, <1>2 DEF SyncLoads, SyncKilled, SyncRevokes
<1>5. ASSUME NEW row \in sync.rows, SyncDecides(row) PROVE FALSE
    <2>1. sync' = [sync EXCEPT !.op = Decision(row)]
        BY <1>5 DEF SyncDecides
    <2>2. sync'.phase = sync.phase
        BY <2>1 DEF IInv, SyncFits
    <2> QED BY <2>2
<1>6. (\E p \in Portfolios : EvidenceGrows(p) \/ EvidenceShrinks(p)) => UNCHANGED sync
    BY DEF EvidenceGrows, EvidenceShrinks
<1>7. (\E w \in Wallets : OperatorAdds(w)) => UNCHANGED sync
    BY DEF OperatorAdds
<1>8. (\E i \in Ids, level \in {"validation", "approved"} : OperatorSets(i, level)) => UNCHANGED sync
    BY DEF OperatorSets
<1> QED BY <1>2, <1>3, <1>4, <1>5, <1>6, <1>7, <1>8 DEF IdentityNext, Sync, ipVars

LEMMA SyncEndStep ==
    ASSUME IInv, [IdentityNext]_ipVars, sync.phase = "rows", sync'.phase = "idle", turns' = turns,
           NEW p \in Portfolios, reg'[p].on
    PROVE  Row(p, reg'[p].wallet) \in sync.read \/ \E r \in sync.rows : r.p = p /\ ~FirstRow(r)
<1>a. SyncFits /\ RegistryFits
    BY DEF IInv
<1>b. reg[p].on => Row(p, reg[p].wallet) \in sync.read \/ \E r \in sync.rows : r.p = p
    BY <1>a DEF SyncFits
<1>1. CASE SyncEnds
    BY <1>1, <1>b DEF SyncEnds
<1>2. ASSUME NEW row \in sync.rows, SyncWrites(row)
      PROVE  Row(p, reg'[p].wallet) \in sync.read \/ \E r \in sync.rows : r.p = p /\ ~FirstRow(r)
    <2>1. row \in Proven /\ row.p \in Portfolios /\ row.p \in Ids /\ row \in sync.read
        BY <1>2, <1>a, WrittenIsValid DEF SyncFits
    <2>2. CASE p = row.p
        <3>1. reg'[row.p].wallet = row.wallet
            <4>1. CASE reg' = [reg EXCEPT ![row.p].stage = "research", ![row.p].on = FALSE]
                <5>1. reg[row.p] \in RegEntry
                    BY <2>1, <1>a DEF RegistryFits
                <5>2. ~reg'[row.p].on
                    BY <4>1, <2>1, <5>1, <1>a DEF RegistryFits, RegEntry
                <5> QED BY <5>2, <2>2
            <4> QED BY <4>1, <1>2, <2>2, WrittenIsValid
        <3>2. Row(p, reg'[p].wallet) = row
            BY <3>1, <2>1, <2>2 DEF Row, Proven
        <3> QED BY <3>2, <2>1
    <2>3. CASE p # row.p
        <3>1. reg'[p] = reg[p]
            <4>1. CASE reg' = [reg EXCEPT ![row.p].stage = "research", ![row.p].on = FALSE]
                BY <4>1, <2>1, <2>3, <1>a DEF RegistryFits, Ids
            <4> QED BY <4>1, <1>2, <2>3, WrittenIsValid
        <3>2. FirstRow(row)
            BY <1>2 DEF SyncWrites
        <3>3. \A r \in sync.rows : r.p = p => ~FirstRow(r)
            <4> SUFFICES ASSUME NEW r \in sync.rows, r.p = p, FirstRow(r) PROVE FALSE
                OBVIOUS
            <4>1. p <= row.p /\ row.p <= p /\ p \in Nat /\ row.p \in Nat
                BY <2>1, <3>2, IdentityAssumption DEF FirstRow
            <4> QED BY <4>1, <2>3
        <3> QED BY <3>1, <3>3, <1>b
    <2> QED BY <2>2, <2>3
<1>3. ~SyncRevoked
    BY DEF SyncRevoked
<1> QED BY <1>1, <1>2, <1>3, SyncFinishes

LEMMA SyncRevokedStep ==
    ASSUME IInv, [IdentityNext]_ipVars, sync.phase = "revoke", sync'.phase # "revoke", turns' = turns,
           NEW i \in Portfolios, i \in Active(reg)
    PROVE  \E r \in sync.rows : r.p = i
<1>1. SyncRevoked
    BY SyncFinishes DEF SyncEnds, SyncWrites
<1>2. ~Stale(i) /\ reg[i].on
    BY <1>1 DEF SyncRevoked, Active
<1> QED BY <1>2 DEF Stale, Absent, Entry

\* Whatever an operator and the publication do while sync_identified_wallets runs
\* without their lock: the registry never watches more wallets than one address
\* may, nothing managed that the publication does not name survives the
\* revocations, and when the sync has ended every managed wallet still watched is
\* the one its publication names for that identity.
THEOREM WatchesThePublishedHolds == IdentitySpec => WatchesThePublished
<1>1. IInv => SlotsRespected
    BY DEF IInv, RegistryFits, Valid, SlotsRespected
<1>2. IInv /\ [IdentityNext]_ipVars =>
        [sync.phase = "rows" /\ sync'.phase = "idle" /\ turns' = turns =>
          \A p \in Portfolios \cap Active(reg') :
              \/ Row(p, reg'[p].wallet) \in sync.read
              \/ \E r \in sync.rows : r.p = p /\ ~FirstRow(r)]_ipVars
    BY SyncEndStep DEF Active
<1>3. IInv /\ [IdentityNext]_ipVars =>
        [sync.phase = "revoke" /\ sync'.phase # "revoke" /\ turns' = turns =>
          \A i \in Portfolios : i \in Active(reg) => \E r \in sync.rows : r.p = i]_ipVars
    BY SyncRevokedStep
<1> QED BY <1>1, <1>2, <1>3, InvariantHolds, PTL
        DEF IdentitySpec, WatchesThePublished, WatchedIsPublished, RevokedFirst

-----------------------------------------------------------------------------
(* InvoMiner.  One invariant of the stored state and of the running walk:  *)
(* below the frontier everything is archived or left to the backfill       *)
(* (WalkFits, Founded); what the recent walk answers for and has behind it *)
(* it holds or knew (Coming, Passed); what the backfill had before it is   *)
(* still before it or was taken (Passed); and all that was taken is        *)
(* archived before the state says so (Stored).                             *)

Posts == 1 .. head
MinerShape ==
    /\ head \in Nat \ {0} /\ archive \subseteq Posts
    /\ walk \in [seen : Seq(Posts), recent : Seq(Posts), cursor : 0 .. head, frontier : SUBSET Posts,
                 back : 0 .. head, done : BOOLEAN]
    /\ mine \in [phase : {"idle", "recent", "backfill", "store", "save"}, pages : Nat, resumed : BOOLEAN,
                 frontier : SUBSET Posts, cursor : 0 .. head, back : 0 .. head, done : BOOLEAN,
                 complete : BOOLEAN, got : Seq(Posts), old : Seq(Posts)]

(* What the backfill of a state, or of a run, has yet to pass.             *)
Owed(p, w) == ~w.done /\ (w.back = NoCursor \/ p < w.back)
(* Below its frontier a walk has nothing to do.                            *)
Sound(frontier) == \A f \in frontier : \A p \in 1 .. f : p \in archive \/ Owed(p, walk)
WalkFits ==
    /\ walk.recent = <<>> => walk = EmptyWalk
    /\ walk.cursor # NoCursor => walk.frontier # {}
    /\ Sound(walk.frontier)

Fresh == Elements(mine.got) \cup Elements(walk.recent)
(* What the recent walk of a run answers for.                              *)
InReach(p) == IF mine.resumed THEN p < walk.cursor ELSE \E q \in Fresh : p <= q
Founded ==
    mine.phase # "idle" =>
        /\ mine.resumed => /\ walk.cursor # NoCursor /\ mine.frontier # {}
                           /\ \A q \in Elements(mine.got) : q < walk.cursor
        /\ mine.frontier = {} /\ ~mine.resumed => walk.recent = <<>>
        /\ Sound(mine.frontier)
Coming ==
    mine.phase = "recent" =>
        /\ mine.back = walk.back /\ mine.done = walk.done /\ mine.old = <<>>
        /\ mine.resumed => mine.cursor <= walk.cursor
        /\ mine.cursor = NoCursor => ~mine.resumed /\ mine.got = <<>>
        /\ mine.cursor # NoCursor =>
              /\ \A p \in Nat : InReach(p) /\ mine.cursor <= p => p \in Elements(mine.got) \cup archive
              /\ walk.recent = <<>> => mine.got # <<>>
(* Bounds below which the backfill answers for a run.                      *)
Tops == Fresh \cup mine.frontier
Passed ==
    mine.phase \in {"backfill", "store", "save"} =>
        /\ ~mine.complete => mine.frontier # {} /\ mine.cursor # NoCursor
        /\ mine.complete => mine.cursor = NoCursor
        /\ walk.recent = <<>> => mine.got # <<>>
        /\ \A p \in Nat \ {0} : InReach(p) =>
              \/ p \in Elements(mine.got) \cup archive
              \/ ~mine.complete /\ p < mine.cursor
              \/ Owed(p, walk)
        /\ \A q \in Tops : \A p \in 1 .. q : Owed(p, walk) =>
              p \in Elements(mine.got) \cup Elements(mine.old) \cup archive \/ Owed(p, mine)
Stored == mine.phase = "save" => Elements(mine.got) \cup Elements(mine.old) \subseteq archive

MinerInv == MinerShape /\ ArchiveHasNoHole /\ WalkFits /\ Founded /\ Coming /\ Passed /\ Stored

-----------------------------------------------------------------------------
LEMMA ElementsFit ==
    ASSUME NEW S, NEW s \in Seq(S)
    PROVE  Elements(s) \subseteq S /\ (s # <<>> <=> Elements(s) # {})
<1>1. s \in [1 .. Len(s) -> S] /\ Len(s) \in Nat /\ DOMAIN s = 1 .. Len(s)
    OBVIOUS
<1>2. s # <<>> => 1 \in DOMAIN s
    BY <1>1
<1>3. s = <<>> => DOMAIN s = {}
    OBVIOUS
<1> QED BY <1>1, <1>2, <1>3 DEF Elements

LEMMA JoinedElements ==
    ASSUME NEW S, NEW a \in Seq(S), NEW b \in Seq(S)
    PROVE  a \o b \in Seq(S) /\ Elements(a \o b) = Elements(a) \cup Elements(b)
<1> DEFINE c == a \o b
<1>1. /\ c \in Seq(S) /\ Len(c) = Len(a) + Len(b) /\ Len(a) \in Nat /\ Len(b) \in Nat
      /\ DOMAIN a = 1 .. Len(a) /\ DOMAIN b = 1 .. Len(b) /\ DOMAIN c = 1 .. Len(a) + Len(b)
      /\ \A k \in 1 .. Len(a) + Len(b) : c[k] = IF k <= Len(a) THEN a[k] ELSE b[k - Len(a)]
    OBVIOUS
<1> HIDE DEF c
<1>2. Elements(c) \subseteq Elements(a) \cup Elements(b)
    <2> SUFFICES ASSUME NEW k \in DOMAIN c PROVE c[k] \in Elements(a) \cup Elements(b)
        BY DEF Elements
    <2>1. k <= Len(a) => k \in DOMAIN a /\ c[k] = a[k]
        BY <1>1
    <2>2. ~(k <= Len(a)) => k - Len(a) \in DOMAIN b /\ c[k] = b[k - Len(a)]
        BY <1>1
    <2> QED BY <2>1, <2>2 DEF Elements
<1>3. Elements(a) \subseteq Elements(c)
    <2> SUFFICES ASSUME NEW k \in DOMAIN a PROVE a[k] \in Elements(c)
        BY DEF Elements
    <2>1. k \in DOMAIN c /\ c[k] = a[k]
        BY <1>1
    <2> QED BY <2>1 DEF Elements
<1>4. Elements(b) \subseteq Elements(c)
    <2> SUFFICES ASSUME NEW k \in DOMAIN b PROVE b[k] \in Elements(c)
        BY DEF Elements
    <2>1. k + Len(a) \in DOMAIN c /\ c[k + Len(a)] = b[k]
        BY <1>1
    <2> QED BY <2>1 DEF Elements
<1> QED BY <1>1, <1>2, <1>3, <1>4 DEF c

(* The rank of the kept positions numbers them from one.                   *)
LEMMA RanksNumber ==
    ASSUME NEW ks, ks \subseteq Nat, IsFiniteSet(ks)
    PROVE  /\ \A k \in ks : Cardinality({j \in ks : j <= k}) \in 1 .. Cardinality(ks)
           /\ \A n \in 1 .. Cardinality(ks) : \E k \in ks : Cardinality({j \in ks : j <= k}) = n
           /\ \A k, l \in ks : Cardinality({j \in ks : j <= k}) = Cardinality({j \in ks : j <= l}) => k = l
<1> DEFINE upto(k) == {j \in ks : j <= k}
           rank == [k \in ks |-> Cardinality(upto(k))]
<1>1. Cardinality(ks) \in Nat
    BY FS_CardinalityType
<1>2. ASSUME NEW k \in ks PROVE IsFiniteSet(upto(k)) /\ Cardinality(upto(k)) \in 1 .. Cardinality(ks)
    <2>1. upto(k) \in SUBSET ks /\ k \in upto(k)
        OBVIOUS
    <2>2. IsFiniteSet(upto(k)) /\ Cardinality(upto(k)) <= Cardinality(ks)
        BY <2>1, FS_Subset
    <2>3. Cardinality(upto(k)) \in Nat /\ Cardinality(upto(k)) # 0
        BY <2>1, <2>2, FS_CardinalityType, FS_EmptySet
    <2> QED BY <2>2, <2>3, <1>1
<1>3. ASSUME NEW k \in ks, NEW l \in ks, k < l PROVE Cardinality(upto(k)) # Cardinality(upto(l))
    <2>1. upto(k) \in SUBSET upto(l) /\ l \in upto(l) /\ l \notin upto(k)
        <3>1. \A i, m, n \in Nat : m < n => (i <= m => i <= n) /\ n <= n /\ ~(n <= m)
            OBVIOUS
        <3>2. k \in Nat /\ l \in Nat /\ \A j \in ks : j \in Nat
            OBVIOUS
        <3> QED BY <3>1, <3>2, <1>3
    <2>2. IsFiniteSet(upto(l))
        BY <1>2
    <2> HIDE DEF upto
    <2> QED BY <2>1, <2>2, FS_Subset
<1>4. \A k, l \in ks : Cardinality(upto(k)) = Cardinality(upto(l)) => k = l
    BY <1>3
<1>5. rank \in [ks -> 1 .. Cardinality(ks)] /\ \A k \in ks : rank[k] = Cardinality(upto(k))
    BY <1>2
<1> HIDE DEF rank
<1>6. rank \in Injection(ks, 1 .. Cardinality(ks))
    <2>1. \A k, l \in ks : rank[k] = rank[l] => k = l
        BY <1>4, <1>5
    <2> HIDE DEF upto
    <2> QED BY <2>1, <1>5, Fun_IsInj
<1>7. IsFiniteSet(1 .. Cardinality(ks)) /\ Cardinality(1 .. Cardinality(ks)) = Cardinality(ks)
    BY <1>1, FS_Interval
<1>8. rank \in Surjection(ks, 1 .. Cardinality(ks))
    BY <1>6, <1>7, FS_Injection
<1>9. \A n \in 1 .. Cardinality(ks) : \E k \in ks : rank[k] = n
    BY <1>8, Fun_SurjectionProperties
<1> QED BY <1>2, <1>4, <1>5, <1>9

LEMMA PickedElements ==
    ASSUME NEW S, NEW s \in Seq(S), NEW T
    PROVE  Picked(s, T) \in Seq(S) /\ Elements(Picked(s, T)) = Elements(s) \cap T
<1> DEFINE ks == {k \in DOMAIN s : s[k] \in T}
           Rank(k) == Cardinality({j \in ks : j <= k})
           rank == [k \in ks |-> Rank(k)]
           At(n) == CHOOSE k \in ks : rank[k] = n
           kept == [n \in 1 .. Cardinality(ks) |-> s[At(n)]]
<1>1. kept = Picked(s, T)
    BY DEF Picked
<1>2. ks \subseteq Nat /\ IsFiniteSet(ks) /\ Cardinality(ks) \in Nat
    <2>1. ks \in SUBSET (1 .. Len(s)) /\ Len(s) \in Nat /\ IsFiniteSet(1 .. Len(s))
        BY FS_Interval
    <2>2. IsFiniteSet(ks)
        BY <2>1, FS_Subset
    <2> QED BY <2>1, <2>2, FS_CardinalityType
<1>3. /\ \A k \in ks : Rank(k) \in 1 .. Cardinality(ks)
      /\ \A n \in 1 .. Cardinality(ks) : \E k \in ks : Rank(k) = n
      /\ \A k, l \in ks : Rank(k) = Rank(l) => k = l
    <2> HIDE DEF ks
    <2> QED BY <1>2, RanksNumber
<1>4. \A k \in ks : s[k] \in S \cap T /\ k \in DOMAIN s
    OBVIOUS
<1>5. \A k \in DOMAIN s : s[k] \in T => k \in ks
    OBVIOUS
<1> HIDE DEF ks, Rank
<1>r. \A k \in ks : rank[k] = Rank(k)
    OBVIOUS
<1> HIDE DEF rank
<1>6. \A n \in 1 .. Cardinality(ks) : At(n) \in ks /\ Rank(At(n)) = n
    BY <1>3, <1>r
<1>7. \A k \in ks : At(Rank(k)) = k
    BY <1>3, <1>6
<1> HIDE DEF At
<1>8. kept \in Seq(S) /\ DOMAIN kept = 1 .. Cardinality(ks) /\ \A n \in 1 .. Cardinality(ks) : kept[n] = s[At(n)]
    <2>1. \A n \in 1 .. Cardinality(ks) : s[At(n)] \in S
        BY <1>4, <1>6
    <2>2. kept \in [1 .. Cardinality(ks) -> S]
        BY <2>1
    <2> QED BY <2>2, <1>2
<1> HIDE DEF kept
<1>9. Elements(kept) \subseteq Elements(s) \cap T
    BY <1>4, <1>6, <1>8 DEF Elements
<1>10. Elements(s) \cap T \subseteq Elements(kept)
    <2> SUFFICES ASSUME NEW k \in DOMAIN s, s[k] \in T PROVE s[k] \in Elements(kept)
        BY DEF Elements
    <2>1. k \in ks /\ Rank(k) \in DOMAIN kept /\ kept[Rank(k)] = s[k]
        BY <1>3, <1>5, <1>7, <1>8
    <2> QED BY <2>1 DEF Elements
<1> QED BY <1>1, <1>8, <1>9, <1>10

LEMMA WithoutElements ==
    ASSUME NEW S, NEW s \in Seq(S), NEW seen
    PROVE  Without(s, seen) \in Seq(S) /\ Elements(Without(s, seen)) = Elements(s) \ seen
BY PickedElements DEF Without

LEMMA CutElements ==
    ASSUME NEW S, NEW s \in Seq(S), NEW n \in Nat
    PROVE  /\ Cut(s, n) \in Seq(S) /\ Elements(Cut(s, n)) \subseteq Elements(s)
           /\ n # 0 /\ s # <<>> => Elements(Cut(s, n)) # {}
<1> DEFINE m == IF Len(s) < n THEN Len(s) ELSE n
           c == Cut(s, n)
<1>1. m \in 0 .. Len(s) /\ Len(s) \in Nat /\ (n # 0 /\ s # <<>> => m # 0)
    OBVIOUS
<1>2. c \in Seq(S) /\ Len(c) = m /\ \A k \in 1 .. m : c[k] = s[k]
    BY <1>1 DEF Cut
<1> HIDE DEF c, m
<1>3. DOMAIN c = 1 .. m /\ DOMAIN s = 1 .. Len(s)
    BY <1>2
<1>4. Elements(c) \subseteq Elements(s)
    BY <1>1, <1>2, <1>3 DEF Elements
<1>5. m # 0 => Elements(c) # {}
    <2>1. m # 0 => 1 \in DOMAIN c
        BY <1>1, <1>3
    <2> QED BY <2>1 DEF Elements
<1> QED BY <1>1, <1>2, <1>4, <1>5 DEF c

LEMMA HistoryFits ==
    ASSUME NEW S, NEW a \in Seq(S), NEW b \in Seq(S), NEW c \in Seq(S)
    PROVE  /\ History(a, b, c) \in Seq(S)
           /\ Elements(History(a, b, c)) \subseteq Elements(a) \cup Elements(b) \cup Elements(c)
           /\ History(a, b, c) = <<>> => a = <<>> /\ b = <<>>
<1> USE MinerAssumption
<1> DEFINE b1 == Without(b, Elements(a))
           c1 == Without(c, Elements(a) \cup Elements(b))
           ab == a \o b1
           all == ab \o c1
<1>1. b1 \in Seq(S) /\ Elements(b1) = Elements(b) \ Elements(a)
    BY WithoutElements
<1>2. c1 \in Seq(S) /\ Elements(c1) = Elements(c) \ (Elements(a) \cup Elements(b))
    BY WithoutElements
<1>3. History(a, b, c) = Cut(all, MaxSeen)
    BY DEF History
<1> HIDE DEF b1, c1
<1>4. ab \in Seq(S) /\ Elements(ab) = Elements(a) \cup Elements(b)
    BY <1>1, JoinedElements
<1> HIDE DEF ab
<1>5. all \in Seq(S) /\ Elements(all) = Elements(a) \cup Elements(b) \cup Elements(c)
    BY <1>2, <1>4, JoinedElements
<1> HIDE DEF all
<1>6. MaxSeen \in Nat /\ MaxSeen # 0
    OBVIOUS
<1>7. /\ Cut(all, MaxSeen) \in Seq(S) /\ Elements(Cut(all, MaxSeen)) \subseteq Elements(all)
      /\ all # <<>> => Elements(Cut(all, MaxSeen)) # {}
    BY <1>5, <1>6, CutElements
<1>8. Cut(all, MaxSeen) = <<>> => all = <<>>
    BY <1>7, ElementsFit
<1>9. all = <<>> => a = <<>> /\ b = <<>>
    <2>1. all = <<>> => Elements(all) = {}
        BY <1>5, ElementsFit
    <2>2. (Elements(a) = {} => a = <<>>) /\ (Elements(b) = {} => b = <<>>)
        BY ElementsFit
    <2> QED BY <2>1, <2>2, <1>5
<1> QED BY <1>3, <1>5, <1>7, <1>8, <1>9

(* A page is the interval of the posts below the cursor.                   *)
LEMMA PageFits ==
    ASSUME head \in Nat, NEW cursor \in 0 .. head, NEW top, top = (IF cursor = NoCursor THEN head ELSE cursor - 1)
    PROVE  /\ Page(cursor) \in Seq(Posts) /\ (Page(cursor) = <<>> <=> top = 0) /\ top \in 0 .. head
           /\ Page(cursor) # <<>> => /\ Page(cursor)[Len(Page(cursor))] \in 1 .. top
                                     /\ Elements(Page(cursor)) = Page(cursor)[Len(Page(cursor))] .. top
<1> USE MinerAssumption
<1> DEFINE n == IF top < PageSize THEN top ELSE PageSize
           page == [k \in 1 .. n |-> top + 1 - k]
<1>1. top \in 0 .. head
    BY DEF NoCursor
<1>2. n \in 0 .. top /\ (n = 0 <=> top = 0)
    <2>1. PageSize \in Nat /\ PageSize # 0
        OBVIOUS
    <2> QED BY <2>1, <1>1
<1>3. Page(cursor) = page
    BY DEF Page
<1> HIDE DEF n
<1>4. \A k \in 1 .. n : top + 1 - k \in Posts
    BY <1>1, <1>2 DEF Posts
<1>5. page \in Seq(Posts) /\ Len(page) = n /\ DOMAIN page = 1 .. n /\ \A k \in 1 .. n : page[k] = top + 1 - k
    BY <1>2, <1>4
<1> HIDE DEF page
<1>6. page = <<>> <=> n = 0
    BY <1>2, <1>5
<1>7. ASSUME n # 0 PROVE page[Len(page)] \in 1 .. top /\ Elements(page) = page[Len(page)] .. top
    <2>1. n \in 1 .. n /\ page[Len(page)] = top + 1 - n
        BY <1>2, <1>5, <1>7
    <2>2. Elements(page) \subseteq top + 1 - n .. top
        BY <1>1, <1>2, <1>5 DEF Elements
    <2>3. ASSUME NEW p \in top + 1 - n .. top PROVE p \in Elements(page)
        <3>1. top + 1 - p \in 1 .. n /\ top + 1 - (top + 1 - p) = p
            BY <1>1, <1>2, <2>3
        <3> QED BY <3>1, <1>5 DEF Elements
    <2>4. top + 1 - n \in 1 .. top
        BY <1>1, <1>2, <1>7
    <2> QED BY <2>1, <2>2, <2>3, <2>4
<1> QED BY <1>1, <1>2, <1>3, <1>5, <1>6, <1>7

-----------------------------------------------------------------------------
LEMMA MinerInitHolds == MinerInit => MinerInv
<1> SUFFICES ASSUME MinerInit PROVE MinerInv
    OBVIOUS
<1> USE MinerAssumption DEF MinerInit, IdleMine, EmptyWalk, NoCursor
<1>1. Elements(<<>>) = {}
    BY DEF Elements
<1>2. MinerShape
    BY DEF MinerShape, Posts
<1>3. ArchiveHasNoHole
    BY <1>1 DEF ArchiveHasNoHole, SeenIsArchived, NoPostPassedOver
<1>4. WalkFits /\ Founded /\ Coming /\ Passed /\ Stored
    BY DEF WalkFits, Sound, Founded, Coming, Passed, Stored
<1> QED BY <1>2, <1>3, <1>4 DEF MinerInv

(* Between runs nothing is claimed of a run.                               *)
LEMMA IdleKeeps ==
    ASSUME MinerInv, mine' = IdleMine \/ (UNCHANGED mine /\ mine.phase = "idle"), UNCHANGED <<head, archive>>,
           UNCHANGED walk \/ walk' = EmptyWalk
    PROVE  MinerInv'
<1> USE DEF IdleMine, EmptyWalk, NoCursor
<1>a. MinerShape /\ ArchiveHasNoHole /\ WalkFits
    BY DEF MinerInv
<1>1. Elements(<<>>) = {}
    BY DEF Elements
<1>2. MinerShape'
    <2>1. mine' \in [phase : {"idle", "recent", "backfill", "store", "save"}, pages : Nat, resumed : BOOLEAN,
                     frontier : SUBSET Posts, cursor : 0 .. head, back : 0 .. head, done : BOOLEAN,
                     complete : BOOLEAN, got : Seq(Posts), old : Seq(Posts)]
        <3>1. 0 \in 0 .. head /\ <<>> \in Seq(Posts) /\ {} \in SUBSET Posts
            BY <1>a DEF MinerShape
        <3>2. CASE mine' = IdleMine
            BY <3>1, <3>2
        <3>3. CASE UNCHANGED mine
            BY <3>3, <1>a DEF MinerShape
        <3> QED BY <3>2, <3>3
    <2>2. walk' \in [seen : Seq(Posts), recent : Seq(Posts), cursor : 0 .. head, frontier : SUBSET Posts,
                     back : 0 .. head, done : BOOLEAN]
        <3>1. 0 \in 0 .. head /\ <<>> \in Seq(Posts) /\ {} \in SUBSET Posts
            BY <1>a DEF MinerShape
        <3>2. walk \in [seen : Seq(Posts), recent : Seq(Posts), cursor : 0 .. head, frontier : SUBSET Posts,
                     back : 0 .. head, done : BOOLEAN]
            BY <1>a DEF MinerShape
        <3>3. CASE walk' = EmptyWalk
            BY <3>1, <3>3
        <3> QED BY <3>2, <3>3
    <2> QED BY <2>1, <2>2, <1>a DEF MinerShape, Posts
<1>3. ArchiveHasNoHole'
    BY <1>1, <1>a DEF ArchiveHasNoHole, SeenIsArchived, NoPostPassedOver
<1>4. WalkFits'
    BY <1>a DEF WalkFits, Sound, Owed
<1>b. mine'.phase = "idle"
    OBVIOUS
<1>5. Founded' /\ Coming' /\ Passed' /\ Stored'
    BY <1>b DEF Founded, Coming, Passed, Stored
<1> QED BY <1>2, <1>3, <1>4, <1>5 DEF MinerInv

LEMMA AppearsKeeps == ASSUME MinerInv, PostAppears PROVE MinerInv'
<1>1. UNCHANGED <<archive, walk, mine, mishaps>> /\ head' = head + 1
    BY DEF PostAppears
<1>2. MinerShape'
    <2>a. MinerShape
        BY DEF MinerInv
    <2>1. Posts \subseteq Posts' /\ 0 .. head \subseteq 0 .. head' /\ head' \in Nat \ {0}
        BY <1>1, <2>a DEF MinerShape, Posts
    <2>2. Seq(Posts) \subseteq Seq(Posts')
        BY <2>1
    <2> QED BY <1>1, <2>1, <2>2, <2>a DEF MinerShape
<1> QED BY <1>1, <1>2 DEF MinerInv, ArchiveHasNoHole, SeenIsArchived, NoPostPassedOver, WalkFits, Sound, Owed,
        Founded, InReach, Fresh, Coming, Tops, Passed, Stored

LEMMA StoreKeeps == ASSUME MinerInv, MinerStores PROVE MinerInv'
<1>a. MinerShape /\ ArchiveHasNoHole /\ WalkFits /\ Founded /\ Coming /\ Passed
    BY DEF MinerInv
<1>1. /\ UNCHANGED <<head, walk>> /\ mine.phase = "store" /\ mine' = [mine EXCEPT !.phase = "save"]
      /\ archive' = archive \cup Elements(mine.got) \cup Elements(mine.old)
    BY DEF MinerStores
<1>2. /\ mine'.phase = "save" /\ mine'.resumed = mine.resumed /\ mine'.frontier = mine.frontier
      /\ mine'.cursor = mine.cursor /\ mine'.back = mine.back /\ mine'.done = mine.done
      /\ mine'.complete = mine.complete /\ mine'.got = mine.got /\ mine'.old = mine.old
    BY <1>1, <1>a DEF MinerShape
<1>3. MinerShape'
    <2>1. Elements(mine.got) \subseteq Posts /\ Elements(mine.old) \subseteq Posts
        BY <1>a, ElementsFit DEF MinerShape
    <2> QED BY <2>1, <1>1, <1>a DEF MinerShape, Posts
<1>4. ArchiveHasNoHole'
    BY <1>1, <1>a DEF ArchiveHasNoHole, SeenIsArchived, NoPostPassedOver
<1>5. WalkFits' /\ Founded'
    BY <1>1, <1>2, <1>a DEF WalkFits, Founded, Sound, Owed
<1>6. Coming' /\ Stored'
    BY <1>1, <1>2 DEF Coming, Stored
<1>7. Passed'
    BY <1>1, <1>2, <1>a DEF Passed, InReach, Fresh, Tops, Owed
<1> QED BY <1>3, <1>4, <1>5, <1>6, <1>7 DEF MinerInv

LEMMA StartKeeps == ASSUME MinerInv, MinerStarts PROVE MinerInv'
<1> USE MinerAssumption
<1>a. MinerShape /\ ArchiveHasNoHole /\ WalkFits
    BY DEF MinerInv
<1> DEFINE resumed == walk.recent # <<>> /\ walk.cursor # NoCursor
           newest == Elements(Cut(walk.recent, FrontierLength))
           frontier == IF resumed /\ walk.frontier # {} THEN walk.frontier ELSE newest
           cursor == IF resumed THEN walk.cursor ELSE NoCursor
<1>1. UNCHANGED <<head, archive, walk>>
    BY DEF MinerStarts
<1>2. mine' = [phase |-> "recent", pages |-> 0, resumed |-> resumed, frontier |-> frontier, cursor |-> cursor,
               back |-> walk.back, done |-> walk.done, complete |-> FALSE, got |-> <<>>, old |-> <<>>]
    BY DEF MinerStarts, IdleMine
<1>3. FrontierLength \in Nat /\ FrontierLength # 0
    OBVIOUS
<1>4. /\ newest \subseteq Elements(walk.recent) /\ newest \subseteq Posts
      /\ walk.recent # <<>> => newest # {}
    <2>1. walk.recent \in Seq(Posts)
        BY <1>a DEF MinerShape
    <2>2. Elements(walk.recent) \subseteq Posts
        BY <2>1, ElementsFit
    <2>3. newest \subseteq Elements(walk.recent) /\ (walk.recent # <<>> => newest # {})
        BY <1>3, <2>1, CutElements
    <2> QED BY <2>2, <2>3
<1>5. resumed => walk.frontier # {}
    BY <1>a DEF WalkFits
<1> HIDE DEF newest
<1>6. MinerShape'
    <2>1. frontier \in SUBSET Posts /\ cursor \in 0 .. head /\ resumed \in BOOLEAN
        BY <1>4, <1>a DEF MinerShape, NoCursor
    <2> HIDE DEF frontier, cursor, resumed
    <2> QED BY <1>1, <1>2, <2>1, <1>a DEF MinerShape, Posts
<1>7. Founded'
    <2>1. Elements(mine'.got) = {}
        BY <1>2 DEF Elements
    <2>2. ASSUME ~resumed, NEW f \in newest, NEW p \in 1 .. f PROVE p \in archive \/ Owed(p, walk)
        <3>1. f \in Elements(walk.recent) /\ walk.cursor = NoCursor
            BY <2>2, <1>4, <1>a DEF WalkFits, EmptyWalk
        <3> QED BY <3>1, <2>2, <1>a DEF ArchiveHasNoHole, NoPostPassedOver, Owed
    <2>3. Sound(frontier)
        BY <2>2, <1>5, <1>a DEF Sound, WalkFits
    <2>5. mine'.resumed = resumed /\ mine'.frontier = frontier
        BY <1>2
    <2>4. \A f \in mine'.frontier : \A p \in 1 .. f : p \in archive' \/ Owed(p, walk)'
        BY <2>3, <2>5, <1>1 DEF Sound, Owed
    <2>6. frontier = {} /\ ~resumed => walk.recent = <<>>
        BY <1>4
    <2>7. resumed => walk.cursor # NoCursor /\ frontier # {}
        BY <1>5
    <2> HIDE DEF frontier, resumed
    <2> QED BY <2>1, <2>4, <2>5, <2>6, <2>7, <1>1 DEF Founded, Sound
<1>8. Coming'
    <2>1. ASSUME resumed, NEW p \in Nat, walk.cursor <= p, p < walk.cursor PROVE FALSE
        BY <2>1, <1>a DEF MinerShape
    <2>2. /\ mine'.resumed = resumed /\ mine'.back = walk.back /\ mine'.done = walk.done /\ mine'.old = <<>>
          /\ mine'.cursor = cursor /\ mine'.got = <<>>
        BY <1>2
    <2>3. cursor # NoCursor => resumed
        OBVIOUS
    <2>4. resumed => cursor = walk.cursor /\ cursor # NoCursor /\ cursor <= walk.cursor /\ walk.recent # <<>>
        BY <1>a DEF MinerShape
    <2> HIDE DEF resumed, cursor
    <2> QED BY <2>1, <2>2, <2>3, <2>4, <1>1 DEF Coming, InReach
<1>9. ArchiveHasNoHole' /\ WalkFits'
    BY <1>1, <1>a DEF ArchiveHasNoHole, SeenIsArchived, NoPostPassedOver, WalkFits, Sound, Owed
<1>10. Passed' /\ Stored'
    BY <1>2 DEF Passed, Stored
<1> QED BY <1>6, <1>7, <1>8, <1>9, <1>10 DEF MinerInv

LEMMA RecentKeeps == ASSUME MinerInv, RecentPage PROVE MinerInv'
<1> USE MinerAssumption
<1>a. MinerShape /\ ArchiveHasNoHole /\ WalkFits /\ Founded /\ Coming
    BY DEF MinerInv
<1> DEFINE page == Page(mine.cursor)
           met == page = <<>> \/ Elements(page) \cap mine.frontier # {}
           capped == mine.pages + 1 = RecentPages
           over == met \/ (capped /\ CapCompletes(mine))
           known == Elements(mine.got) \cup (IF walk.recent = <<>> THEN {} ELSE Elements(walk.seen))
           fresh == Without(page, known)
           top == IF mine.cursor = NoCursor THEN head ELSE mine.cursor - 1
           low == page[Len(page)]
           got == mine.got \o fresh
           phase == IF ~over /\ ~capped THEN "recent" ELSE IF mine.done THEN "store" ELSE "backfill"
           cursor == IF over THEN NoCursor ELSE low
           pages == IF over \/ capped THEN 0 ELSE mine.pages + 1
<1>1. /\ mine.phase = "recent" /\ UNCHANGED <<head, archive, walk>>
      /\ mine' = [mine EXCEPT !.got = got, !.pages = pages, !.cursor = cursor, !.complete = over, !.phase = phase]
    BY DEF RecentPage
<1>2. /\ page \in Seq(Posts) /\ (page = <<>> <=> top = 0) /\ top \in 0 .. head
      /\ page # <<>> => low \in 1 .. top /\ Elements(page) = low .. top
    <2>1. head \in Nat /\ mine.cursor \in 0 .. head
        BY <1>a DEF MinerShape
    <2>2. top = (IF mine.cursor = NoCursor THEN head ELSE mine.cursor - 1)
        OBVIOUS
    <2> HIDE DEF top
    <2> QED BY <2>1, <2>2, PageFits
<1> HIDE DEF page, low
<1>3. fresh \in Seq(Posts) /\ Elements(fresh) = Elements(page) \ known
    BY <1>2, WithoutElements
<1> HIDE DEF fresh
<1>4. got \in Seq(Posts) /\ Elements(got) = Elements(mine.got) \cup Elements(fresh)
    <2>1. mine.got \in Seq(Posts)
        BY <1>a DEF MinerShape
    <2> QED BY <2>1, <1>3, JoinedElements
<1> HIDE DEF got
<1>5. known \subseteq Elements(mine.got) \cup archive /\ (walk.recent = <<>> => known = Elements(mine.got))
    BY <1>a DEF ArchiveHasNoHole, SeenIsArchived
<1> HIDE DEF known
<1>6. Elements(mine.got) \subseteq Elements(got) /\ Elements(page) \subseteq Elements(got) \cup archive
    BY <1>3, <1>4, <1>5
<1>b. capped \in BOOLEAN /\ met \in BOOLEAN /\ over \in BOOLEAN /\ pages \in Nat
    BY <1>a DEF MinerShape, CapCompletes
<1>7. /\ mine'.phase = phase /\ mine'.resumed = mine.resumed /\ mine'.frontier = mine.frontier
      /\ mine'.cursor = cursor /\ mine'.back = walk.back /\ mine'.done = walk.done
      /\ mine'.complete = over /\ mine'.got = got /\ mine'.old = <<>>
    BY <1>1, <1>a DEF MinerShape, Coming
<1>8. cursor \in 0 .. head /\ (~over => page # <<>> /\ cursor = low /\ cursor # NoCursor)
    <2>1. over => cursor = 0 /\ 0 \in 0 .. head
        BY <1>a DEF NoCursor, MinerShape
    <2>2. ~over => page # <<>> /\ cursor = low
        OBVIOUS
    <2>3. page # <<>> => low \in 0 .. head /\ low # 0
        <3>1. head \in Nat
            BY <1>a DEF MinerShape
        <3>2. \A a, b \in Nat : \A c \in 1 .. a : a \in 0 .. b => c \in 0 .. b /\ c # 0
            OBVIOUS
        <3> HIDE DEF top
        <3> QED BY <3>1, <3>2, <1>2
    <2> QED BY <2>1, <2>2, <2>3 DEF NoCursor
<1>9. walk.recent = <<>> => got # <<>>
    <2> SUFFICES ASSUME walk.recent = <<>> PROVE Elements(got) # {}
        BY <1>4, ElementsFit
    <2>1. CASE mine.cursor = NoCursor
        <3>1. Elements(mine.got) = {} /\ page # <<>>
            BY <2>1, <1>1, <1>2, <1>a DEF Coming, MinerShape, Elements
        <3>2. top \in Elements(page)
            BY <3>1, <1>2
        <3> QED BY <3>1, <3>2, <1>3, <1>4, <1>5
    <2>2. CASE mine.cursor # NoCursor
        <3>1. mine.got # <<>> /\ mine.got \in Seq(Posts)
            BY <2>2, <1>1, <1>a DEF Coming, MinerShape
        <3> QED BY <3>1, <1>6, ElementsFit
    <2> QED BY <2>1, <2>2
<1>10. MinerShape'
    <2>1. mine' \in [phase : {"idle", "recent", "backfill", "store", "save"}, pages : Nat, resumed : BOOLEAN,
                     frontier : SUBSET Posts, cursor : 0 .. head, back : 0 .. head, done : BOOLEAN,
                     complete : BOOLEAN, got : Seq(Posts), old : Seq(Posts)]
        <3>1. phase \in {"idle", "recent", "backfill", "store", "save"}
            OBVIOUS
        <3> HIDE DEF phase, cursor, over, capped, met, pages
        <3> QED BY <3>1, <1>1, <1>4, <1>8, <1>b, <1>a DEF MinerShape
    <2> QED BY <2>1, <1>1, <1>a DEF MinerShape, Posts
<1>11. Founded'
    <2>1. ASSUME mine.resumed, NEW q \in Elements(got) PROVE q < walk.cursor
        <3>1. CASE q \in Elements(mine.got)
            BY <3>1, <2>1, <1>1, <1>a DEF Founded
        <3>2. CASE q \in Elements(page)
            <4>1. page # <<>>
                BY <3>2 DEF Elements
            <4>2. q \in low .. top /\ mine.cursor # NoCursor
                BY <4>1, <3>2, <2>1, <1>1, <1>2, <1>a DEF Coming
            <4>3. mine.cursor <= walk.cursor
                BY <2>1, <1>1, <1>a DEF Coming
            <4>4. top = mine.cursor - 1 /\ mine.cursor \in Nat /\ walk.cursor \in Nat
                BY <4>2, <1>a DEF MinerShape
            <4>5. low \in Nat
                BY <4>1, <1>2
            <4> QED BY <4>2, <4>3, <4>4, <4>5
        <3> QED BY <3>1, <3>2, <1>3, <1>4
    <2> HIDE DEF phase, cursor, over, capped, met, pages
    <2> QED BY <2>1, <1>1, <1>7, <1>a DEF Founded, Sound, Owed
<1>12. ASSUME NEW p \in Nat, InReach(p)' PROVE p \in Elements(got) \cup archive \/ p <= top
    <2>1. CASE mine.resumed
        <3>1. InReach(p) /\ mine.cursor # NoCursor
            BY <2>1, <1>1, <1>7, <1>12, <1>a DEF InReach, Coming
        <3>2. CASE mine.cursor <= p
            BY <3>1, <3>2, <1>1, <1>6, <1>a DEF Coming
        <3>3. CASE ~(mine.cursor <= p)
            BY <3>1, <3>3, <1>a DEF MinerShape
        <3> QED BY <3>2, <3>3
    <2>2. CASE ~mine.resumed
        <3>1. PICK q \in Elements(got) \cup Elements(walk.recent) : p <= q
            BY <2>2, <1>1, <1>7, <1>12 DEF InReach, Fresh
        <3>2. q \in Posts
            BY <1>4, <1>a, ElementsFit DEF MinerShape
        <3>3. CASE mine.cursor = NoCursor
            BY <3>1, <3>2, <3>3, <1>a DEF MinerShape, Posts
        <3>4. CASE mine.cursor # NoCursor /\ p < mine.cursor
            BY <3>4, <1>a DEF MinerShape
        <3>5. CASE mine.cursor # NoCursor /\ ~(p < mine.cursor)
            <4>1. CASE q \in Fresh
                <5>1. InReach(p)
                    BY <4>1, <3>1, <2>2 DEF InReach
                <5>2. mine.cursor <= p
                    BY <3>5, <1>a DEF MinerShape
                <5> QED BY <5>1, <5>2, <3>5, <1>1, <1>6, <1>a DEF Coming
            <4>2. CASE q \in Elements(page)
                <5>1. page # <<>>
                    BY <4>2 DEF Elements
                <5>2. q \in low .. top /\ low \in 1 .. top
                    BY <5>1, <4>2, <1>2
                <5> QED BY <5>2, <3>1, <1>2
            <4> QED BY <4>1, <4>2, <3>1, <1>3, <1>4 DEF Fresh
        <3> QED BY <3>3, <3>4, <3>5
    <2> QED BY <2>1, <2>2
<1>13. ASSUME page # <<>>, NEW p \in Nat, InReach(p)', low <= p PROVE p \in Elements(got) \cup archive
    <2>1. CASE p <= top
        <3>1. p \in Elements(page)
            BY <2>1, <1>2, <1>13
        <3> QED BY <3>1, <1>6
    <2> QED BY <2>1, <1>12, <1>13
<1>14. Coming'
    <2> SUFFICES ASSUME phase = "recent" PROVE Coming'
        BY <1>7 DEF Coming
    <2>1. ~over
        OBVIOUS
    <2>2. page # <<>> /\ mine'.cursor = low /\ low # NoCursor /\ low \in 1 .. top
        BY <2>1, <1>2, <1>7, <1>8
    <2>3. mine.resumed => low <= walk.cursor
        <3>1. mine.resumed => mine.cursor <= walk.cursor /\ mine.cursor # NoCursor
            BY <1>1, <1>a DEF Coming
        <3>2. mine.resumed => top = mine.cursor - 1 /\ mine.cursor \in Nat /\ walk.cursor \in Nat /\ low \in Nat
            BY <3>1, <2>2, <1>2, <1>a DEF MinerShape
        <3> QED BY <3>1, <3>2, <2>2
    <2>4. \A p \in Nat : InReach(p)' /\ low <= p => p \in Elements(got) \cup archive
        BY <2>2, <1>13
    <2> HIDE DEF phase, cursor, over, capped, met, pages
    <2> QED BY <2>2, <2>3, <2>4, <1>1, <1>7, <1>9 DEF Coming
<1>15. Passed'
    <2> SUFFICES ASSUME phase # "recent" PROVE Passed'
        BY <1>7 DEF Passed
    <2>1. ~over => mine.frontier # {} /\ cursor # NoCursor
        BY <1>1, <1>8, <1>a DEF CapCompletes, Founded
    <2>2. over => cursor = NoCursor
        OBVIOUS
    <2>3. ASSUME NEW p \in Nat \ {0}, InReach(p)'
          PROVE  p \in Elements(got) \cup archive \/ (~over /\ p < cursor) \/ Owed(p, walk)
        <3>1. CASE ~over
            <4>1. page # <<>> /\ cursor = low /\ low \in Nat
                BY <3>1, <1>2, <1>8
            <4> QED BY <4>1, <3>1, <2>3, <1>13
        <3>2. CASE page = <<>>
            <4>1. top = 0 /\ ~(p <= top)
                BY <3>2, <1>2
            <4> QED BY <4>1, <2>3, <1>12
        <3>3. CASE page # <<>> /\ Elements(page) \cap mine.frontier # {}
            <4>1. PICK f \in mine.frontier : f \in low .. top /\ low \in 1 .. top
                BY <3>3, <1>2
            <4>2. CASE low <= p
                BY <4>2, <3>3, <2>3, <1>13
            <4>3. CASE ~(low <= p)
                <5>1. p \in 1 .. f
                    BY <4>1, <4>3, <1>2
                <5> QED BY <5>1, <1>1, <1>a DEF Founded, Sound
            <4> QED BY <4>2, <4>3
        <3>4. CASE capped /\ CapCompletes(mine)
            <4>1. walk = EmptyWalk
                BY <3>4, <1>1, <1>a DEF CapCompletes, Founded, WalkFits
            <4> QED BY <4>1 DEF Owed, EmptyWalk
        <3> QED BY <3>1, <3>2, <3>3, <3>4
    <2>4. \A p : Owed(p, walk) => Owed(p, mine)'
        BY <1>7 DEF Owed
    <2> HIDE DEF phase, cursor, over, capped, met, pages
    <2> QED BY <2>1, <2>2, <2>3, <2>4, <1>1, <1>7, <1>9 DEF Passed, Owed
<1>16. ArchiveHasNoHole' /\ WalkFits'
    BY <1>1, <1>a DEF ArchiveHasNoHole, SeenIsArchived, NoPostPassedOver, WalkFits, Sound, Owed
<1>17. Stored'
    BY <1>7 DEF Stored
<1> QED BY <1>10, <1>11, <1>14, <1>15, <1>16, <1>17 DEF MinerInv

LEMMA BackfillKeeps == ASSUME MinerInv, BackfillPage PROVE MinerInv'
<1> USE MinerAssumption
<1>a. MinerShape /\ ArchiveHasNoHole /\ WalkFits /\ Founded /\ Passed
    BY DEF MinerInv
<1> DEFINE page == Page(mine.back)
           capped == mine.pages + 1 = BackfillPages
           known == Elements(walk.seen) \cup Elements(mine.got) \cup Elements(mine.old)
           fresh == Without(page, known)
           top == IF mine.back = NoCursor THEN head ELSE mine.back - 1
           low == page[Len(page)]
           old == mine.old \o fresh
           back == IF page = <<>> THEN mine.back ELSE low
           done == page = <<>>
           phase == IF page = <<>> \/ capped THEN "store" ELSE "backfill"
<1>1. /\ mine.phase = "backfill" /\ UNCHANGED <<head, archive, walk>>
      /\ mine' = [mine EXCEPT !.old = old, !.pages = mine.pages + 1, !.back = back, !.done = done, !.phase = phase]
    BY DEF BackfillPage
<1>2. /\ page \in Seq(Posts) /\ (page = <<>> <=> top = 0) /\ top \in 0 .. head
      /\ page # <<>> => low \in 1 .. top /\ Elements(page) = low .. top
    <2>1. head \in Nat /\ mine.back \in 0 .. head
        BY <1>a DEF MinerShape
    <2>2. top = (IF mine.back = NoCursor THEN head ELSE mine.back - 1)
        OBVIOUS
    <2> HIDE DEF top
    <2> QED BY <2>1, <2>2, PageFits
<1> HIDE DEF page, low
<1>3. fresh \in Seq(Posts) /\ Elements(fresh) = Elements(page) \ known
    BY <1>2, WithoutElements
<1> HIDE DEF fresh
<1>4. old \in Seq(Posts) /\ Elements(old) = Elements(mine.old) \cup Elements(fresh)
    <2>1. mine.old \in Seq(Posts)
        BY <1>a DEF MinerShape
    <2> QED BY <2>1, <1>3, JoinedElements
<1> HIDE DEF old
<1>5. known \subseteq Elements(mine.got) \cup Elements(mine.old) \cup archive
    BY <1>a DEF ArchiveHasNoHole, SeenIsArchived
<1> HIDE DEF known
<1>6. Elements(mine.old) \subseteq Elements(old) /\ Elements(page) \subseteq Elements(mine.got) \cup Elements(old) \cup archive
    BY <1>3, <1>4, <1>5
<1>7. /\ mine'.phase = phase /\ mine'.resumed = mine.resumed /\ mine'.frontier = mine.frontier
      /\ mine'.cursor = mine.cursor /\ mine'.back = back /\ mine'.done = done
      /\ mine'.complete = mine.complete /\ mine'.got = mine.got /\ mine'.old = old
    BY <1>1, <1>a DEF MinerShape
<1>8. back \in 0 .. head
    <2>1. head \in Nat /\ mine.back \in 0 .. head
        BY <1>a DEF MinerShape
    <2>2. \A a, b \in Nat : \A c \in 1 .. a : a \in 0 .. b => c \in 0 .. b
        OBVIOUS
    <2> HIDE DEF top
    <2> QED BY <2>1, <2>2, <1>2
<1>9. phase \in {"backfill", "store"} /\ done \in BOOLEAN /\ mine.pages + 1 \in Nat
    BY <1>a DEF MinerShape
<1>10. MinerShape'
    <2>1. mine' \in [phase : {"idle", "recent", "backfill", "store", "save"}, pages : Nat, resumed : BOOLEAN,
                     frontier : SUBSET Posts, cursor : 0 .. head, back : 0 .. head, done : BOOLEAN,
                     complete : BOOLEAN, got : Seq(Posts), old : Seq(Posts)]
        <3> HIDE DEF phase, done, back, capped
        <3> QED BY <1>1, <1>4, <1>8, <1>9, <1>a DEF MinerShape
    <2> QED BY <2>1, <1>1, <1>a DEF MinerShape, Posts
<1>11. Tops \subseteq Posts
    BY <1>a, ElementsFit DEF Tops, Fresh, MinerShape
<1>12. ASSUME NEW q \in Tops, NEW p \in 1 .. q, Owed(p, walk)
       PROVE  p \in Elements(mine.got) \cup Elements(old) \cup archive \/ (page # <<>> /\ p < low)
    <2>1. CASE p \in Elements(mine.got) \cup Elements(mine.old) \cup archive
        BY <2>1, <1>6
    <2>2. CASE Owed(p, mine)
        <3>1. p \in 1 .. top
            <4>1. q \in 1 .. head /\ head \in Nat /\ mine.back \in 0 .. head
                BY <1>11, <1>a DEF Posts, MinerShape
            <4> QED BY <4>1, <2>2 DEF Owed
        <3>2. page # <<>> /\ low \in 1 .. top /\ Elements(page) = low .. top
            BY <3>1, <1>2
        <3>3. p < low \/ p \in low .. top
            BY <3>1, <3>2, <1>2
        <3> QED BY <3>2, <3>3, <1>6
    <2>3. p \in Elements(mine.got) \cup Elements(mine.old) \cup archive \/ Owed(p, mine)
        BY <1>12, <1>1, <1>a DEF Passed
    <2> QED BY <2>1, <2>2, <2>3
<1>13. Passed'
    <2>1. ASSUME NEW q \in Tops, NEW p \in 1 .. q, Owed(p, walk)
          PROVE  p \in Elements(mine.got) \cup Elements(old) \cup archive \/ Owed(p, mine)'
        <3>1. page # <<>> /\ p < low => Owed(p, mine)'
            BY <1>7 DEF Owed
        <3> QED BY <3>1, <1>12, <2>1
    <2>2. Tops' = Tops /\ \A p : InReach(p)' <=> InReach(p)
        BY <1>1, <1>7 DEF Tops, Fresh, InReach
    <2>3. \A p : Owed(p, walk)' <=> Owed(p, walk)
        BY <1>1 DEF Owed
    <2> HIDE DEF phase, done, back, capped
    <2>4. /\ ~mine.complete => mine.frontier # {} /\ mine.cursor # NoCursor
          /\ mine.complete => mine.cursor = NoCursor
          /\ walk.recent = <<>> => mine.got # <<>>
          /\ \A p \in Nat \ {0} : InReach(p) =>
                \/ p \in Elements(mine.got) \cup archive
                \/ ~mine.complete /\ p < mine.cursor
                \/ Owed(p, walk)
        BY <1>1, <1>a DEF Passed
    <2> QED BY <2>1, <2>2, <2>3, <2>4, <1>1, <1>7 DEF Passed
<1>14. Founded'
    BY <1>1, <1>7, <1>a DEF Founded, Sound, Owed
<1>15. ArchiveHasNoHole' /\ WalkFits'
    BY <1>1, <1>a DEF ArchiveHasNoHole, SeenIsArchived, NoPostPassedOver, WalkFits, Sound, Owed
<1>16. Coming' /\ Stored'
    BY <1>7 DEF Coming, Stored
<1> QED BY <1>10, <1>13, <1>14, <1>15, <1>16 DEF MinerInv

LEMMA SaveKeeps == ASSUME MinerInv, MinerSaves PROVE MinerInv'
<1>a. MinerShape /\ ArchiveHasNoHole /\ WalkFits /\ Founded /\ Passed /\ Stored
    BY DEF MinerInv
<1>1. /\ mine.phase = "save" /\ UNCHANGED <<head, archive>> /\ mine' = IdleMine
      /\ walk' = [seen |-> History(Merged, mine.old, walk.seen), recent |-> Merged, cursor |-> mine.cursor,
                   frontier |-> Frontier, back |-> mine.back, done |-> mine.done]
    BY DEF MinerSaves, Saved
<1>2. /\ walk'.seen = History(Merged, mine.old, walk.seen) /\ walk'.recent = Merged /\ walk'.cursor = mine.cursor
      /\ walk'.frontier = Frontier /\ walk'.back = mine.back /\ walk'.done = mine.done
    BY <1>1
<1>3. /\ mine.got \in Seq(Posts) /\ mine.old \in Seq(Posts) /\ walk.recent \in Seq(Posts) /\ walk.seen \in Seq(Posts)
      /\ Frontier \in SUBSET Posts
    BY <1>a DEF MinerShape, Frontier
<1>4. FrontierSeq \in Seq(Posts) /\ Elements(FrontierSeq) \subseteq Elements(walk.recent)
    <2> DEFINE S == Frontier
    <2>1. Picked(walk.recent, S) \in Seq(Posts) /\ Elements(Picked(walk.recent, S)) \subseteq Elements(walk.recent)
        <3> HIDE DEF S
        <3> QED BY <1>3, PickedElements
    <2> QED BY <2>1 DEF FrontierSeq
<1>5. /\ Merged \in Seq(Posts) /\ Elements(Merged) \subseteq Fresh
      /\ Merged = <<>> => mine.got = <<>> /\ walk.recent = <<>>
    <2>1. CASE mine.resumed
        BY <2>1, <1>3, <1>4, HistoryFits DEF Merged, Fresh
    <2>2. CASE ~mine.resumed
        BY <2>2, <1>3, <1>4, HistoryFits DEF Merged, Fresh
    <2> QED BY <2>1, <2>2
<1>6. walk'.seen \in Seq(Posts) /\ Elements(walk'.seen) \subseteq Elements(Merged) \cup Elements(mine.old) \cup Elements(walk.seen)
    BY <1>2, <1>3, <1>5, HistoryFits
<1>7. Fresh \cup Elements(mine.old) \cup Elements(walk.seen) \subseteq archive
    BY <1>1, <1>a DEF Stored, Fresh, ArchiveHasNoHole, SeenIsArchived
<1>8. ASSUME NEW q \in Tops, NEW p \in 1 .. q, Owed(p, walk) PROVE p \in archive \/ Owed(p, walk)'
    <2>1. p \in Elements(mine.got) \cup Elements(mine.old) \cup archive \/ Owed(p, mine)
        BY <1>1, <1>8, <1>a DEF Passed
    <2>2. Owed(p, mine) => Owed(p, walk)'
        BY <1>2 DEF Owed
    <2> QED BY <2>1, <2>2, <1>7 DEF Fresh
<1>9. ASSUME NEW q \in Elements(Merged), NEW p \in 1 .. q
      PROVE  p \in archive \/ (mine.cursor # NoCursor /\ p < mine.cursor) \/ Owed(p, walk)'
    <2>1. q \in Fresh /\ q \in Tops /\ q \in Posts /\ p \in Nat \ {0} /\ p <= q
        <3>1. q \in Posts
            BY <1>5, ElementsFit
        <3>2. p \in Nat \ {0} /\ p <= q
            BY <3>1 DEF Posts
        <3> QED BY <3>1, <3>2, <1>5 DEF Tops
    <2>2. CASE InReach(p)
        <3>1. \/ p \in Elements(mine.got) \cup archive
              \/ ~mine.complete /\ p < mine.cursor
              \/ Owed(p, walk)
            BY <2>1, <2>2, <1>1, <1>a DEF Passed
        <3>2. ~mine.complete => mine.cursor # NoCursor
            BY <1>1, <1>a DEF Passed
        <3> QED BY <3>1, <3>2, <2>1, <1>7, <1>8 DEF Fresh
    <2>3. CASE ~InReach(p)
        <3>1. mine.resumed /\ ~(p < walk.cursor)
            BY <2>1, <2>3 DEF InReach
        <3>2. q \notin Elements(mine.got)
            <4>1. \A a, b, c \in Nat : a <= b /\ b < c => a < c
                OBVIOUS
            <4>2. q \in Nat /\ walk.cursor \in Nat
                BY <2>1, <1>a DEF Posts, MinerShape
            <4>3. q \in Elements(mine.got) => q < walk.cursor
                BY <3>1, <1>1, <1>a DEF Founded
            <4> QED BY <4>1, <4>2, <4>3, <3>1, <2>1
        <3>3. q \in Elements(walk.recent)
            BY <3>2, <2>1 DEF Fresh
        <3>4. p \in archive \/ Owed(p, walk)
            BY <3>1, <3>3, <1>a DEF ArchiveHasNoHole, NoPostPassedOver, Owed
        <3> QED BY <3>4, <2>1, <1>8
    <2> QED BY <2>2, <2>3
<1>10. MinerShape'
    <2>1. walk' \in [seen : Seq(Posts), recent : Seq(Posts), cursor : 0 .. head, frontier : SUBSET Posts,
                     back : 0 .. head, done : BOOLEAN]
        <3>1. mine.cursor \in 0 .. head /\ mine.back \in 0 .. head /\ mine.done \in BOOLEAN
            BY <1>a DEF MinerShape
        <3> QED BY <3>1, <1>1, <1>2, <1>3, <1>5, <1>6
    <2>2. mine' \in [phase : {"idle", "recent", "backfill", "store", "save"}, pages : Nat, resumed : BOOLEAN,
                     frontier : SUBSET Posts, cursor : 0 .. head, back : 0 .. head, done : BOOLEAN,
                     complete : BOOLEAN, got : Seq(Posts), old : Seq(Posts)]
        <3>1. 0 \in 0 .. head /\ <<>> \in Seq(Posts) /\ {} \in SUBSET Posts
            BY <1>a DEF MinerShape
        <3> QED BY <3>1, <1>1 DEF IdleMine, NoCursor
    <2> QED BY <2>1, <2>2, <1>1, <1>a DEF MinerShape, Posts
<1>11. ArchiveHasNoHole'
    <2>1. SeenIsArchived'
        BY <1>1, <1>2, <1>5, <1>6, <1>7 DEF SeenIsArchived
    <2>2. NoPostPassedOver'
        BY <1>1, <1>2, <1>9 DEF NoPostPassedOver, Owed
    <2> QED BY <2>1, <2>2 DEF ArchiveHasNoHole
<1>12. WalkFits'
    <2>1. Merged # <<>>
        BY <1>1, <1>5, <1>a DEF Passed
    <2>2. mine.cursor # NoCursor => Frontier # {}
        BY <1>1, <1>a DEF Passed, Frontier
    <2>3. \A f \in Frontier : f \in mine.frontier
        BY DEF Frontier
    <2>4. ASSUME NEW f \in Frontier, NEW p \in 1 .. f PROVE p \in archive \/ Owed(p, walk)'
        <3>1. p \in archive \/ Owed(p, walk)
            BY <2>3, <1>1, <1>a DEF Founded, Sound
        <3>2. f \in Tops
            BY <2>3 DEF Tops
        <3> QED BY <3>1, <3>2, <1>8
    <2> QED BY <2>1, <2>2, <2>4, <1>1, <1>2 DEF WalkFits, Sound
<1>13. Founded' /\ Coming' /\ Passed' /\ Stored'
    BY <1>1 DEF IdleMine, Founded, Coming, Passed, Stored
<1> QED BY <1>10, <1>11, <1>12, <1>13 DEF MinerInv

LEMMA MinerNextKeeps == ASSUME MinerInv, [MinerNext]_imVars PROVE MinerInv'
<1>1. CASE UNCHANGED imVars
    BY <1>1 DEF imVars, MinerInv, MinerShape, Posts, ArchiveHasNoHole, SeenIsArchived, NoPostPassedOver,
                WalkFits, Sound, Owed, Founded, InReach, Fresh, Coming, Tops, Passed, Stored
<1>2. CASE MinerFails \/ FeedSwitched
    BY <1>2, IdleKeeps DEF MinerFails, FeedSwitched
<1>3. CASE Miner
    BY <1>3, StartKeeps, RecentKeeps, BackfillKeeps, StoreKeeps, SaveKeeps DEF Miner
<1> QED BY <1>1, <1>2, <1>3, AppearsKeeps DEF MinerNext

(***************************************************************************)
(* Wherever a run of the miner fails or is killed, and however the feed    *)
(* grows or is switched meanwhile, what counts as seen is archived, and no *)
(* post below a captured one is neither archived nor on one of the ways    *)
(* down.                                                                   *)
(***************************************************************************)
THEOREM ArchiveHasNoHoleHolds == MinerSpec => []ArchiveHasNoHole
<1>1. MinerInit => MinerInv
    BY MinerInitHolds
<1>2. MinerInv /\ [MinerNext]_imVars => MinerInv'
    BY MinerNextKeeps
<1>3. MinerInv => ArchiveHasNoHole
    BY DEF MinerInv
<1> QED BY <1>1, <1>2, <1>3, PTL DEF MinerSpec

-----------------------------------------------------------------------------
(* The search for the wallet. *)

LEMMA LeastNumber ==
    ASSUME NEW S, S \subseteq Nat, S # {}
    PROVE  \E m \in S : \A n \in S : m <= n
<1> DEFINE T == {1 .. m : m \in S}
           R == StrictSubsetOrdering(Nat)
<1>1. T \subseteq FiniteSubsetsOf(Nat)
    <2>1. ASSUME NEW m \in S PROVE 1 .. m \in FiniteSubsetsOf(Nat)
        <3>1. m \in Int /\ IsFiniteSet(1 .. m)
            BY FS_Interval
        <3> QED BY <3>1 DEF FiniteSubsetsOf
    <2> QED BY <2>1
<1>2. T # {}
    OBVIOUS
<1>3. IsWellFoundedOn(R, FiniteSubsetsOf(Nat))
    BY FS_StrictSubsetOrderingWellFounded
<1>4. PICK x \in T : \A y \in T : ~ (<<y, x>> \in R)
    <2> HIDE DEF T, R
    <2> QED BY <1>1, <1>2, <1>3, WFMin
<1>5. PICK m \in S : x = 1 .. m
    BY <1>4
<1>6. ASSUME NEW n \in S PROVE m <= n
    <2> SUFFICES ASSUME n < m PROVE FALSE
        OBVIOUS
    <2>1. 1 .. n \subseteq 1 .. m /\ m \in 1 .. m /\ m \notin 1 .. n
        OBVIOUS
    <2>2. 1 .. n \subseteq Nat /\ 1 .. m \subseteq Nat
        OBVIOUS
    <2>3. <<1 .. n, 1 .. m>> \in R
        BY <2>1, <2>2 DEF StrictSubsetOrdering
    <2> QED BY <1>4, <1>5, <2>3
<1> QED BY <1>6

LEMMA CountUp ==
    ASSUME NEW S, NEW m \in Nat, NEW n \in Nat, m \in S, \A t \in m .. n : (t \in S /\ t < n) => t + 1 \in S
    PROVE  \A t \in m .. n : t \in S
<1> SUFFICES ASSUME NEW u \in m .. n, u \notin S PROVE FALSE
    OBVIOUS
<1> DEFINE out == {t \in m .. n : t \notin S}
<1>1. PICK least \in out : \A t \in out : least <= t
    <2>1. out \subseteq Nat /\ out # {}
        OBVIOUS
    <2> HIDE DEF out
    <2> QED BY <2>1, LeastNumber
<1>2. least \in m .. n /\ least # m /\ least - 1 \in m .. n /\ least - 1 < n /\ (least - 1) + 1 = least
    BY <1>1
<1>3. least - 1 \in S
    BY <1>1, <1>2
<1> QED BY <1>1, <1>2, <1>3

Ticks == DOMAIN market

(* What was counted of the market, and that nothing was lost if nothing was lost. *)
VotesFit ==
    \E seen \in SUBSET Executions, width \in {Rule.window, Rule.fallback} :
        votes = VotesIn(seen, width) /\ (losses = 0 => seen = Executions)
HeldFit ==
    \A w \in DOMAIN held : \E seen \in SUBSET Executions :
        held[w] = HeldOut(w, seen) /\ (losses = 0 => seen = Executions)
Judged ==
    /\ VotesFit /\ HeldFit /\ DOMAIN held = Shortlist
    /\ verdict = IF \E w \in DOMAIN held : Winner(w) THEN CHOOSE w \in DOMAIN held : Winner(w) ELSE Nobody

MarketFits ==
    /\ market \in Seq(SUBSET MarketWallets) /\ Len(market) <= MaxTime /\ told \subseteq 1 .. Len(market)
    /\ lane \in DOMAIN LaneRules /\ losses \in 0 .. MaxLost
    /\ stage \in {"trading", "discover", "verify", "failed", "decided"}
ProofInv ==
    /\ MarketFits
    /\ stage \in {"trading", "discover", "failed"} => votes = NoPairs /\ held = <<>>
    /\ stage # "decided" => verdict = Nobody
    /\ stage = "verify" => VotesFit /\ HeldFit /\ DOMAIN held \subseteq Shortlist
    /\ stage = "decided" =>
          Judged \/ (Cardinality(told) < Rule.signals /\ verdict = Nobody /\ votes = NoPairs /\ held = <<>>)

LEMMA SameMarket ==
    ASSUME UNCHANGED <<market, told, lane>>
    PROVE  /\ Executions' = Executions /\ Rule' = Rule
           /\ \A seen, width : VotesIn(seen, width)' = VotesIn(seen, width)
<1>1. Rule' = Rule
    BY DEF Rule
<1>2. Executions' = Executions
    BY DEF Executions
<1>3. \A r : AnchorsOf(r)' = AnchorsOf(r)
    BY DEF AnchorsOf
<1>4. \A w, seen : Closed(w, seen)' = Closed(w, seen)
    BY DEF Closed
<1>5. \A anchors, w, seen, width : Found(anchors, w, seen, width)' = Found(anchors, w, seen, width)
    BY <1>4 DEF Found
<1>6. \A seen, width : VotesIn(seen, width)' = VotesIn(seen, width)
    BY <1>1, <1>3, <1>5 DEF VotesIn
<1> QED BY <1>1, <1>2, <1>6

LEMMA SameVotes ==
    ASSUME UNCHANGED <<market, told, lane, votes>>
    PROVE  /\ Shortlist' = Shortlist /\ SelectedTrades(Rule)' = SelectedTrades(Rule)
           /\ \A w, seen : HeldOut(w, seen)' = HeldOut(w, seen)
<1>1. Rule' = Rule
    BY DEF Rule
<1>2. Shortlist' = Shortlist
    BY <1>1 DEF Shortlist
<1>3. SelectedTrades(Rule)' = SelectedTrades(Rule)
    BY <1>1 DEF SelectedTrades, AnchorsOf
<1>4. \A w, seen : Closed(w, seen)' = Closed(w, seen)
    BY DEF Closed
<1>5. \A s, t, w, matched : Votes(s, t, w, matched)' = Votes(s, t, w, matched)
    BY <1>1 DEF Votes
<1>6. ASSUME NEW w, NEW seen PROVE HeldOut(w, seen)' = HeldOut(w, seen)
    <2> DEFINE middle == Median2(Offsets(votes[w]))
               inClock(s) == {t \in Closed(w, seen) : Distance(2 * (t - s), middle) <= 2 * Rule.drift}
               matched == {p \in {<<s, Nearest(s, inClock(s), Rule.close)>> : s \in SelectedTrades(Rule)} : p[2] # 0}
    <2>1. middle' = middle
        OBVIOUS
    <2> HIDE DEF middle
    <2>2. \A s : inClock(s)' = inClock(s)
        BY <1>1, <1>4, <2>1
    <2> HIDE DEF inClock
    <2>3. matched' = matched
        BY <1>1, <1>3, <2>2
    <2>4. HeldOut(w, seen) = {p \in matched : Votes(p[1], p[2], w, matched)}
        BY DEF HeldOut, inClock, middle
    <2>5. HeldOut(w, seen)' = {p \in matched : Votes(p[1], p[2], w, matched)}'
        BY DEF HeldOut, inClock, middle
    <2> HIDE DEF matched
    <2> QED BY <1>5, <2>3, <2>4, <2>5
<1> QED BY <1>2, <1>3, <1>6

LEMMA RuleFacts == ASSUME MarketFits PROVE Rule \in LaneRule
    BY ProofAssumption DEF MarketFits, Rule

LEMMA MarketFacts ==
    ASSUME MarketFits
    PROVE  /\ Len(market) \in Nat /\ Ticks = 1 .. Len(market) /\ \A t \in Ticks : market[t] \subseteq MarketWallets
           /\ IsFiniteSet(Executions) /\ IsFiniteSet(told) /\ told \subseteq Ticks /\ IsFiniteSet(Ticks)
           /\ losses \in Nat /\ MaxLost \in Nat
<1>1. Len(market) \in Nat /\ Ticks = 1 .. Len(market) /\ \A t \in Ticks : market[t] \subseteq MarketWallets
    BY LenProperties, ElementOfSeq DEF MarketFits, Ticks
<1>2. IsFiniteSet(Ticks)
    BY <1>1, FS_Interval
<1>3. IsFiniteSet(MarketWallets \X Ticks)
    BY <1>2, ProofAssumption, FS_Product
<1>4. Executions \subseteq MarketWallets \X Ticks
    BY DEF Executions, Ticks
<1>5. IsFiniteSet(Executions)
    BY <1>3, <1>4, FS_Subset
<1>6. told \subseteq Ticks /\ IsFiniteSet(told)
    BY <1>1, <1>2, FS_Subset DEF MarketFits
<1> QED BY <1>1, <1>2, <1>5, <1>6, ProofAssumption DEF MarketFits

LEMMA LossFacts ==
    ASSUME MarketFits, NEW lost \in Losses
    PROVE  /\ lost \in SUBSET Executions /\ Cardinality(lost) \in Nat /\ losses + Cardinality(lost) \in 0 .. MaxLost
           /\ losses + Cardinality(lost) = 0 => losses = 0 /\ lost = {}
<1>1. PICK k \in 0 .. MaxLost - losses : lost \in SUBSET Executions /\ Cardinality(lost) = k
    BY DEF Losses, kSubset
<1>2. losses \in 0 .. MaxLost /\ MaxLost \in Nat
    BY ProofAssumption DEF MarketFits
<1>3. IsFiniteSet(lost)
    BY <1>1, MarketFacts, FS_Subset
<1>4. Cardinality(lost) = 0 => lost = {}
    BY <1>3, FS_EmptySet
<1> QED BY <1>1, <1>2, <1>4

LEMMA SearchInit == ProofInit => ProofInv
<1> SUFFICES ASSUME ProofInit PROVE ProofInv
    OBVIOUS
<1>1. market = <<>> /\ told = {} /\ losses = 0 /\ stage = "trading"
    BY DEF ProofInit
<1>2. market \in Seq(SUBSET MarketWallets) /\ Len(market) = 0
    BY <1>1
<1> QED BY <1>1, <1>2, ProofAssumption DEF ProofInit, ProofInv, MarketFits

LEMMA TickFits == ASSUME ProofInv, NEW closers \in SUBSET MarketWallets, NEW reported \in BOOLEAN, Tick(closers, reported) PROVE ProofInv'
<1>1. /\ stage = "trading" /\ Len(market) < MaxTime /\ market' = Append(market, closers)
      /\ told' = IF reported THEN told \cup {Len(market) + 1} ELSE told
      /\ UNCHANGED <<lane, stage, votes, held, losses, verdict>>
    BY DEF Tick
<1>2. market \in Seq(SUBSET MarketWallets) /\ Len(market) \in Nat /\ MaxTime \in Nat /\ told \subseteq 1 .. Len(market)
    BY MarketFacts, ProofAssumption DEF ProofInv, MarketFits
<1>3. market' \in Seq(SUBSET MarketWallets) /\ Len(market') = Len(market) + 1
    BY <1>1, <1>2, AppendProperties
<1>4. told' \subseteq 1 .. Len(market')
    <2> DEFINE n == Len(market)
    <2>1. told' \subseteq told \cup {n + 1} /\ n \in Nat /\ told \subseteq 1 .. n
        BY <1>1, <1>2
    <2> HIDE DEF n
    <2>2. told' \subseteq 1 .. (n + 1)
        BY <2>1
    <2> QED BY <1>3, <2>2 DEF n
<1>5. MarketFits'
    BY <1>1, <1>2, <1>3, <1>4 DEF ProofInv, MarketFits
<1> QED BY <1>1, <1>5 DEF ProofInv

LEMMA StartFits == ASSUME ProofInv, Start(lane) PROVE ProofInv'
<1>1. /\ UNCHANGED <<market, told, lane>> /\ verdict' = Nobody /\ votes' = NoPairs /\ held' = <<>> /\ losses' = 0
      /\ stage' = IF Cardinality(told) < LaneRules[lane].least THEN "failed"
                  ELSE IF Cardinality(told) < LaneRules[lane].signals THEN "decided" ELSE "discover"
    BY DEF Start
<1>2. MarketFits'
    BY <1>1, ProofAssumption DEF ProofInv, MarketFits
<1>3. stage' = "decided" => Cardinality(told') < Rule'.signals
    BY <1>1 DEF Rule
<1>4. stage' # "verify"
    BY <1>1
<1> QED BY <1>1, <1>2, <1>3, <1>4 DEF ProofInv

LEMMA DiscoverFits == ASSUME ProofInv, NEW lost \in Losses, Discover(lost) PROVE ProofInv'
<1> DEFINE seen == Executions \ lost
<1>1. /\ UNCHANGED <<market, told, lane, held, verdict>> /\ stage = "discover" /\ stage' = "verify"
      /\ losses' = losses + Cardinality(lost)
      /\ votes' = VotesIn(seen, Rule.fallback) \/ votes' = VotesIn(seen, Rule.window)
    BY DEF Discover
<1>2. held' = <<>> /\ verdict' = Nobody
    BY <1>1 DEF ProofInv
<1>3. MarketFits'
    BY <1>1, LossFacts DEF ProofInv, MarketFits
<1>4. VotesFit'
    <2>1. PICK width \in {Rule.window, Rule.fallback} : votes' = VotesIn(seen, width)
        BY <1>1
    <2>2. seen \in SUBSET Executions
        OBVIOUS
    <2>3. losses' = 0 => seen = Executions
        BY <1>1, LossFacts DEF ProofInv
    <2> HIDE DEF seen
    <2>4. Executions' = Executions /\ Rule' = Rule /\ \A s, v : VotesIn(s, v)' = VotesIn(s, v)
        BY <1>1, SameMarket
    <2>5. VotesFit' = (\E s \in SUBSET Executions, v \in {Rule.window, Rule.fallback} :
                          votes' = VotesIn(s, v) /\ (losses' = 0 => s = Executions))
        BY <2>4 DEF VotesFit
    <2> QED BY <2>1, <2>2, <2>3, <2>5
<1>5. HeldFit' /\ DOMAIN held' \subseteq Shortlist'
    <2>1. DOMAIN held' = {}
        BY <1>2
    <2>2. HeldFit'
        BY <2>1 DEF HeldFit
    <2> QED BY <2>1, <2>2
<1> QED BY <1>1, <1>2, <1>3, <1>4, <1>5 DEF ProofInv

LEMMA VerifyFits == ASSUME ProofInv, NEW w \in MarketWallets, NEW lost \in Losses, Verify(w, lost) PROVE ProofInv'
<1> DEFINE seen == Executions \ lost
<1>1. /\ UNCHANGED <<market, told, lane, stage, votes, verdict>> /\ stage = "verify" /\ w \in Shortlist
      /\ losses' = losses + Cardinality(lost)
      /\ held' = [v \in DOMAIN held \cup {w} |-> IF v = w THEN HeldOut(w, seen) ELSE held[v]]
    BY DEF Verify
<1>2. VotesFit /\ HeldFit /\ DOMAIN held \subseteq Shortlist /\ MarketFits /\ losses \in Nat
    BY <1>1, MarketFacts DEF ProofInv
<1>3. losses' = 0 => losses = 0 /\ lost = {}
    BY <1>1, <1>2, LossFacts
<1>4. MarketFits'
    BY <1>1, <1>2, LossFacts DEF MarketFits
<1>5. VotesFit'
    BY <1>1, <1>2, <1>3, SameMarket DEF VotesFit
<1>6. HeldFit'
    <2>1. Executions' = Executions
        BY <1>1, SameMarket
    <2>2. \A v, s : HeldOut(v, s)' = HeldOut(v, s)
        BY <1>1, SameVotes
    <2>5. HeldFit' = (\A v \in DOMAIN held' : \E s \in SUBSET Executions : held'[v] = HeldOut(v, s) /\ (losses' = 0 => s = Executions))
        BY <2>1, <2>2 DEF HeldFit
    <2> SUFFICES ASSUME NEW v \in DOMAIN held'
                 PROVE  \E s \in SUBSET Executions : held'[v] = HeldOut(v, s) /\ (losses' = 0 => s = Executions)
        BY <2>5
    <2>3. CASE v = w
        <3>1. held'[v] = HeldOut(v, seen) /\ seen \in SUBSET Executions /\ (losses' = 0 => seen = Executions)
            BY <1>1, <1>3, <2>3
        <3> HIDE DEF seen
        <3> QED BY <3>1
    <2>4. CASE v # w
        <3>1. v \in DOMAIN held /\ held'[v] = held[v]
            BY <1>1, <2>4
        <3>2. PICK s \in SUBSET Executions : held[v] = HeldOut(v, s) /\ (losses = 0 => s = Executions)
            BY <1>2, <3>1 DEF HeldFit
        <3> QED BY <1>3, <3>1, <3>2
    <2> QED BY <2>3, <2>4
<1>7. DOMAIN held' \subseteq Shortlist'
    <2>1. DOMAIN held' = DOMAIN held \cup {w}
        BY <1>1
    <2> QED BY <1>1, <1>2, <2>1, SameVotes
<1>8. verdict' = Nobody
    BY <1>1 DEF ProofInv
<1> QED BY <1>1, <1>4, <1>5, <1>6, <1>7, <1>8 DEF ProofInv

LEMMA SameEvidence ==
    ASSUME UNCHANGED <<market, told, lane, votes, held, losses>>
    PROVE  VotesFit' = VotesFit /\ HeldFit' = HeldFit
<1>1. VotesFit' = VotesFit
    BY SameMarket DEF VotesFit
<1>2. Executions' = Executions /\ \A w, s : HeldOut(w, s)' = HeldOut(w, s)
    BY SameMarket, SameVotes
<1>3. HeldFit' = HeldFit
    BY <1>2 DEF HeldFit
<1> QED BY <1>1, <1>3

LEMMA SameWinner ==
    ASSUME UNCHANGED <<market, told, lane, votes, held>>
    PROVE  \A w : Winner(w)' = Winner(w)
<1>1. Rule' = Rule /\ SelectedTrades(Rule)' = SelectedTrades(Rule)
    BY SameMarket, SameVotes
<1>2. \A w : ClearOf(w)' = ClearOf(w)
    BY <1>1 DEF ClearOf
<1> QED BY <1>1, <1>2 DEF Winner

LEMMA JudgeFits == ASSUME ProofInv, Judge PROVE ProofInv'
<1>1. /\ UNCHANGED <<market, told, lane, votes, held, losses>> /\ stage = "verify" /\ DOMAIN held = Shortlist
      /\ verdict' = IF \E w \in DOMAIN held : Winner(w) THEN CHOOSE w \in DOMAIN held : Winner(w) ELSE Nobody
      /\ stage' = "decided"
    BY DEF Judge
<1>2. VotesFit' /\ HeldFit' /\ DOMAIN held' = Shortlist'
    BY <1>1, SameEvidence, SameVotes DEF ProofInv
<1>3. verdict' = IF \E w \in DOMAIN held' : Winner(w)' THEN CHOOSE w \in DOMAIN held' : Winner(w)' ELSE Nobody
    <2>1. \A w : Winner(w)' = Winner(w)
        BY <1>1, SameWinner
    <2>2. (CHOOSE w \in DOMAIN held : Winner(w)) = (CHOOSE w \in DOMAIN held' : Winner(w)')
        BY <1>1, <2>1
    <2> QED BY <1>1, <2>1, <2>2
<1>4. MarketFits'
    BY <1>1 DEF ProofInv, MarketFits
<1> QED BY <1>1, <1>2, <1>3, <1>4 DEF ProofInv, Judged

LEMMA IdleFits == ASSUME ProofInv, UNCHANGED wpVars PROVE ProofInv'
<1>1. UNCHANGED <<market, told, lane, stage, votes, held, losses, verdict>>
    BY DEF wpVars
<1>2. VotesFit' = VotesFit /\ HeldFit' = HeldFit /\ Shortlist' = Shortlist /\ Rule' = Rule
    BY <1>1, SameEvidence, SameVotes, SameMarket
<1>3. Judged => Judged'
    <2>1. \A w : Winner(w)' = Winner(w)
        BY <1>1, SameWinner
    <2>2. (CHOOSE w \in DOMAIN held : Winner(w)) = (CHOOSE w \in DOMAIN held' : Winner(w)')
        BY <1>1, <2>1
    <2> QED BY <1>1, <1>2, <2>1, <2>2 DEF Judged
<1>4. MarketFits'
    BY <1>1 DEF ProofInv, MarketFits
<1> QED BY <1>1, <1>2, <1>3, <1>4 DEF ProofInv

LEMMA SearchStep == ProofInv /\ [ProofNext]_wpVars => ProofInv'
<1> SUFFICES ASSUME ProofInv, [ProofNext]_wpVars PROVE ProofInv'
    OBVIOUS
<1>1. CASE QueryFails
    <2>1. /\ UNCHANGED <<market, told, lane, losses, verdict>> /\ stage' = "failed" /\ votes' = NoPairs /\ held' = <<>>
          /\ stage \in {"discover", "verify"}
        BY <1>1 DEF QueryFails
    <2>2. verdict' = Nobody
        BY <2>1 DEF ProofInv
    <2>3. MarketFits'
        BY <2>1 DEF ProofInv, MarketFits
    <2> QED BY <2>1, <2>2, <2>3 DEF ProofInv, NoPairs
<1> QED BY <1>1, TickFits, StartFits, DiscoverFits, VerifyFits, JudgeFits, IdleFits DEF ProofNext

-----------------------------------------------------------------------------
(* What a verdict stands on. *)

LEMMA NearestIs ==
    ASSUME NEW s \in Nat, NEW S \in SUBSET Nat, NEW tolerance
    PROVE  LET near == {t \in S : CoinAt[t] = CoinAt[s] /\ Distance(t, s) <= tolerance}
               n == Nearest(s, S, tolerance) IN
           \/ near = {} /\ n = 0
           \/ /\ n \in near
              /\ \A u \in near : Distance(n, s) < Distance(u, s) \/ (Distance(n, s) = Distance(u, s) /\ n <= u)
<1> DEFINE near == {t \in S : CoinAt[t] = CoinAt[s] /\ Distance(t, s) <= tolerance}
           Best(t) == \A u \in near : Distance(t, s) < Distance(u, s) \/ (Distance(t, s) = Distance(u, s) /\ t <= u)
<1>1. near = {} => Nearest(s, S, tolerance) = 0
    BY DEF Nearest
<1>2. near # {} => Nearest(s, S, tolerance) = CHOOSE t \in near : Best(t)
    BY DEF Nearest
<1>3. near \subseteq Nat /\ \A t \in near : Distance(t, s) \in Nat
    <2>1. \A t \in Nat : Distance(t, s) \in Nat
        BY DEF Distance
    <2>2. near \subseteq Nat
        OBVIOUS
    <2> QED BY <2>1, <2>2
<1> HIDE DEF near
<1>4. ASSUME near # {} PROVE \E t \in near : Best(t)
    <2> DEFINE D == {Distance(t, s) : t \in near}
    <2>1. D \subseteq Nat /\ D # {}
        BY <1>3, <1>4
    <2>2. PICK d \in D : \A e \in D : d <= e
        BY <2>1, LeastNumber
    <2> DEFINE M == {t \in near : Distance(t, s) = d}
    <2>3. M \subseteq Nat /\ M # {}
        BY <1>3, <2>2
    <2>4. PICK t \in M : \A u \in M : t <= u
        BY <2>3, LeastNumber
    <2>5. t \in near /\ Distance(t, s) = d
        BY <2>4
    <2>6. ASSUME NEW u \in near PROVE Distance(t, s) < Distance(u, s) \/ (Distance(t, s) = Distance(u, s) /\ t <= u)
        <3>1. d <= Distance(u, s) /\ d \in Nat /\ Distance(u, s) \in Nat
            BY <1>3, <2>1, <2>2
        <3>2. Distance(u, s) = d => t <= u
            BY <2>4
        <3> QED BY <2>5, <3>1, <3>2
    <2> QED BY <2>5, <2>6
<1> QED BY <1>1, <1>2, <1>4 DEF near

LEMMA ClosedFacts ==
    ASSUME MarketFits, NEW w, NEW seen
    PROVE  /\ Closed(w, seen) \in SUBSET Ticks /\ Closed(w, seen) \in SUBSET Nat /\ 0 \notin Closed(w, seen)
           /\ \A t \in Closed(w, seen) : <<w, t>> \in seen
<1> QED BY MarketFacts DEF Closed, Ticks

LEMMA AnchorFacts ==
    ASSUME MarketFits, NEW r
    PROVE  /\ AnchorsOf(r) \subseteq told /\ SelectedTrades(r) \subseteq told /\ AnchorsOf(r) \cap SelectedTrades(r) = {}
           /\ IsFiniteSet(AnchorsOf(r)) /\ IsFiniteSet(SelectedTrades(r))
<1>1. \A eligible, n : SelectAnchors(eligible, n) \subseteq eligible
    BY DEF SelectAnchors, Newest
<1>2. AnchorsOf(r) \subseteq told
    BY <1>1 DEF AnchorsOf
<1>3. SelectedTrades(r) \subseteq told /\ AnchorsOf(r) \cap SelectedTrades(r) = {}
    BY DEF SelectedTrades, Newest
<1>4. IsFiniteSet(told)
    BY MarketFacts
<1> QED BY <1>2, <1>3, <1>4, FS_Subset

(* Pairs of a reported trade and an execution, at most one for each trade. *)
PairsOf(pairs, trades, executions) ==
    /\ pairs \subseteq trades \X executions
    /\ \A p, q \in pairs : p[1] = q[1] => p = q

LEMMA FoundFacts ==
    ASSUME MarketFits, NEW anchors \in SUBSET told, NEW w, NEW seen, NEW width
    PROVE  PairsOf(Found(anchors, w, seen, width), anchors, Closed(w, seen))
<1> DEFINE C == Closed(w, seen)
           N(s) == Nearest(s, C, width)
<1>1. C \in SUBSET Nat
    BY ClosedFacts
<1>2. \A s \in anchors : s \in Nat
    BY MarketFacts
<1> HIDE DEF C
<1>3. \A s \in anchors : N(s) = 0 \/ N(s) \in C
    BY <1>1, <1>2, NearestIs
<1>4. Found(anchors, w, seen, width) = {p \in {<<s, N(s)>> : s \in anchors} : p[2] # 0}
    BY DEF Found, C
<1> HIDE DEF N
<1> QED BY <1>3, <1>4 DEF PairsOf, C

LEMMA DedupedFacts ==
    ASSUME NEW S \in SUBSET Nat, NEW T \in SUBSET Nat, NEW pairs, PairsOf(pairs, S, T)
    PROVE  /\ PairsOf(Deduped(pairs), S, T)
           /\ \A p, q \in Deduped(pairs) : p[2] = q[2] => p = q
<1>1. Deduped(pairs) \subseteq pairs
    BY DEF Deduped
<1>2. ASSUME NEW p \in Deduped(pairs), NEW q \in Deduped(pairs), p[2] = q[2] PROVE p = q
    <2>1. p \in pairs /\ q \in pairs /\ p[1] \in Nat /\ q[1] \in Nat /\ p[2] \in Nat /\ q[2] \in Nat
        BY <1>1 DEF PairsOf
    <2>2. /\ Distance(p[1], p[2]) < Distance(q[1], q[2]) \/ (Distance(p[1], p[2]) = Distance(q[1], q[2]) /\ q[1] <= p[1])
          /\ Distance(q[1], q[2]) < Distance(p[1], p[2]) \/ (Distance(q[1], q[2]) = Distance(p[1], p[2]) /\ p[1] <= q[1])
        BY <1>2, <2>1 DEF Deduped
    <2>3. Distance(p[1], p[2]) \in Nat /\ Distance(q[1], q[2]) \in Nat
        BY <2>1 DEF Distance
    <2>4. p[1] = q[1]
        BY <2>1, <2>2, <2>3
    <2> QED BY <2>1, <2>4 DEF PairsOf
<1> QED BY <1>1, <1>2 DEF PairsOf

LEMMA VotesFacts ==
    ASSUME MarketFits, VotesFit, NEW w \in MarketWallets
    PROVE  /\ PairsOf(votes[w], AnchorsOf(Rule), Ticks) /\ IsFiniteSet(votes[w])
           /\ \A p \in votes[w] : <<w, p[2]>> \in Executions
           /\ Rule.dedupe => \A p, q \in votes[w] : p[2] = q[2] => p = q
<1>1. PICK seen \in SUBSET Executions, width \in {Rule.window, Rule.fallback} : votes = VotesIn(seen, width)
    BY DEF VotesFit
<1> DEFINE C == Closed(w, seen)
           A == AnchorsOf(Rule)
           F == Found(A, w, seen, width)
<1>2. votes[w] = IF Rule.dedupe THEN Deduped(F) ELSE F
    BY <1>1 DEF VotesIn
<1>3. C \in SUBSET Ticks /\ C \in SUBSET Nat /\ \A t \in C : <<w, t>> \in Executions
    BY <1>1, ClosedFacts
<1>4. A \in SUBSET told /\ A \in SUBSET Nat /\ IsFiniteSet(A)
    BY AnchorFacts, MarketFacts
<1>5. PairsOf(F, A, C)
    BY <1>4, FoundFacts
<1> HIDE DEF A, C, F
<1>6. PairsOf(votes[w], A, C) /\ (Rule.dedupe => \A p, q \in votes[w] : p[2] = q[2] => p = q)
    BY <1>2, <1>3, <1>4, <1>5, DedupedFacts
<1>7. IsFiniteSet(votes[w])
    <2>1. IsFiniteSet(A \X Ticks)
        BY <1>4, MarketFacts, FS_Product
    <2>2. votes[w] \subseteq A \X Ticks
        BY <1>3, <1>6 DEF PairsOf
    <2> QED BY <2>1, <2>2, FS_Subset
<1> QED BY <1>3, <1>6, <1>7 DEF PairsOf, A

LEMMA HeldFacts ==
    ASSUME MarketFits, HeldFit, NEW w \in DOMAIN held
    PROVE  /\ PairsOf(held[w], SelectedTrades(Rule), Ticks) /\ IsFiniteSet(held[w])
           /\ \A p \in held[w] : <<w, p[2]>> \in Executions
           /\ Rule.dedupe => /\ \A p, q \in held[w] : p[2] = q[2] => p = q
                             /\ \A p \in held[w], q \in votes[w] : p[2] # q[2]
<1>1. PICK seen \in SUBSET Executions : held[w] = HeldOut(w, seen)
    BY DEF HeldFit
<1> DEFINE C == Closed(w, seen)
           A == SelectedTrades(Rule)
           middle == Median2(Offsets(votes[w]))
           inClock(s) == {t \in C : Distance(2 * (t - s), middle) <= 2 * Rule.drift}
           N(s) == Nearest(s, inClock(s), Rule.close)
           matched == {p \in {<<s, N(s)>> : s \in A} : p[2] # 0}
<1>2. held[w] = {p \in matched : Votes(p[1], p[2], w, matched)}
    BY <1>1 DEF HeldOut
<1>3. C \in SUBSET Ticks /\ C \in SUBSET Nat /\ \A t \in C : <<w, t>> \in Executions
    BY <1>1, ClosedFacts
<1>4. A \in SUBSET told /\ A \in SUBSET Nat /\ IsFiniteSet(A)
    BY AnchorFacts, MarketFacts
<1>5. ASSUME NEW s \in A PROVE N(s) = 0 \/ N(s) \in C
    <2>1. inClock(s) \in SUBSET Nat /\ s \in Nat /\ inClock(s) \subseteq C
        BY <1>3, <1>4
    <2> HIDE DEF inClock
    <2>2. N(s) = 0 \/ N(s) \in inClock(s)
        BY <2>1, NearestIs
    <2> QED BY <2>1, <2>2
<1> HIDE DEF A, C, N
<1>6. PairsOf(matched, A, C)
    BY <1>5 DEF PairsOf
<1> HIDE DEF matched
<1>7. held[w] \subseteq matched /\ \A p \in held[w] : Votes(p[1], p[2], w, matched)
    BY <1>2
<1>8. ASSUME Rule.dedupe
      PROVE  /\ \A p, q \in held[w] : p[2] = q[2] => p = q
             /\ \A p \in held[w], q \in votes[w] : p[2] # q[2]
    <2>1. \A p \in held[w] : /\ p[2] \notin {q[2] : q \in votes[w]}
                             /\ \A q \in matched : q[2] = p[2] => q[1] <= p[1]
        BY <1>7, <1>8 DEF Votes
    <2>2. ASSUME NEW p \in held[w], NEW q \in held[w], p[2] = q[2] PROVE p = q
        <3>1. p[1] <= q[1] /\ q[1] <= p[1] /\ p[1] \in Nat /\ q[1] \in Nat /\ p \in matched /\ q \in matched
            BY <1>4, <1>6, <1>7, <2>1, <2>2 DEF PairsOf
        <3>2. p[1] = q[1]
            BY <3>1
        <3> QED BY <1>6, <3>1, <3>2 DEF PairsOf
    <2> QED BY <2>1, <2>2
<1>9. IsFiniteSet(held[w])
    <2>1. IsFiniteSet(A \X Ticks)
        BY <1>4, MarketFacts, FS_Product
    <2>2. held[w] \subseteq A \X Ticks
        BY <1>3, <1>6, <1>7 DEF PairsOf
    <2> QED BY <2>1, <2>2, FS_Subset
<1> QED BY <1>3, <1>6, <1>7, <1>8, <1>9 DEF PairsOf, A

(* As many pairs as first components, or as second ones, when none is met twice. *)
LEMMA OneToOne ==
    ASSUME NEW P, IsFiniteSet(P), NEW i \in {1, 2}, \A p, q \in P : p[i] = q[i] => p = q
    PROVE  IsFiniteSet({p[i] : p \in P}) /\ Cardinality({p[i] : p \in P}) = Cardinality(P)
<1> DEFINE T == {p[i] : p \in P}
           f == [p \in P |-> p[i]]
<1>1. f \in [P -> T] /\ \A t \in T : \E p \in P : f[p] = t
    OBVIOUS
<1>2. \A p, q \in P : f[p] = f[q] => p = q
    OBVIOUS
<1> HIDE DEF f, T
<1>4. f \in Surjection(P, T) /\ f \in Injection(P, T)
    BY <1>1, <1>2 DEF Surjection, Injection, IsInjective
<1>3. IsFiniteSet(T) /\ Cardinality(T) = Cardinality(P)
    BY <1>4, FS_Surjection
<1> QED BY <1>3 DEF T

LEMMA VerdictWins ==
    ASSUME ProofInv, verdict \in MarketWallets
    PROVE  MarketFits /\ Judged /\ stage = "decided" /\ verdict \in Shortlist /\ verdict \in DOMAIN held /\ Winner(verdict)
<1>1. Nobody \notin MarketWallets
    BY ProofAssumption
<1>2. stage = "decided" /\ Judged
    BY <1>1 DEF ProofInv
<1>3. PICK w \in DOMAIN held : Winner(w)
    BY <1>1, <1>2 DEF Judged
<1>4. verdict = CHOOSE v \in DOMAIN held : Winner(v)
    BY <1>2, <1>3 DEF Judged
<1>5. verdict \in DOMAIN held /\ Winner(verdict)
    BY <1>3, <1>4
<1> QED BY <1>2, <1>5 DEF Judged, ProofInv

LEMMA ShortlistFacts ==
    ASSUME NEW w \in Shortlist
    PROVE  /\ w \in MarketWallets /\ Cardinality(votes[w]) >= Rule.votes
           /\ ~Rule.unique => \A v \in MarketWallets \ {w} : Cardinality(votes[v]) < Cardinality(votes[w])
<1> QED BY DEF Shortlist

LEMMA CountsOnce == ProofInv => CountedOnce
<1> SUFFICES ASSUME ProofInv, verdict \in MarketWallets, Rule.dedupe
             PROVE  LET pairs == votes[verdict] \cup held[verdict] IN
                    /\ Cardinality({p[1] : p \in pairs}) >= Rule.votes + Rule.least_held
                    /\ Cardinality({p[2] : p \in pairs}) = Cardinality(pairs)
                    /\ Cardinality({p[1] : p \in pairs}) = Cardinality(pairs)
                    /\ \A p \in pairs : <<verdict, p[2]>> \in Executions
    BY DEF CountedOnce
<1> DEFINE V == votes[verdict]
           H == held[verdict]
           pairs == V \cup H
<1>1. MarketFits /\ VotesFit /\ HeldFit /\ verdict \in Shortlist /\ verdict \in DOMAIN held /\ Winner(verdict)
    BY VerdictWins DEF Judged
<1>2. /\ PairsOf(V, AnchorsOf(Rule), Ticks) /\ IsFiniteSet(V) /\ (\A p \in V : <<verdict, p[2]>> \in Executions)
      /\ \A p, q \in V : p[2] = q[2] => p = q
    BY <1>1, VotesFacts
<1>3. /\ PairsOf(H, SelectedTrades(Rule), Ticks) /\ IsFiniteSet(H) /\ (\A p \in H : <<verdict, p[2]>> \in Executions)
      /\ \A p, q \in H : p[2] = q[2] => p = q
      /\ \A p \in H, q \in V : p[2] # q[2]
    BY <1>1, HeldFacts
<1>4. Cardinality(V) >= Rule.votes /\ Cardinality(H) >= Rule.least_held
    BY <1>1, ShortlistFacts DEF Winner
<1>5. AnchorsOf(Rule) \cap SelectedTrades(Rule) = {}
    BY <1>1, AnchorFacts
<1> HIDE DEF V, H
<1>6. \A p \in V, q \in H : p[1] # q[1]
    BY <1>2, <1>3, <1>5 DEF PairsOf
<1>7. \A p, q \in pairs : p[1] = q[1] => p = q
    BY <1>2, <1>3, <1>6 DEF PairsOf
<1>8. \A p, q \in pairs : p[2] = q[2] => p = q
    BY <1>2, <1>3
<1>9. V \cap H = {}
    BY <1>6
<1>10. IsFiniteSet(pairs) /\ Cardinality(pairs) = Cardinality(V) + Cardinality(H) - Cardinality(V \cap H)
    BY <1>2, <1>3, FS_Union
<1>11. Cardinality(V) \in Nat /\ Cardinality(H) \in Nat /\ Cardinality(V \cap H) = 0
    BY <1>2, <1>3, <1>9, FS_CardinalityType, FS_EmptySet
<1>12. Rule.votes \in Nat /\ Rule.least_held \in Nat
    BY <1>1, RuleFacts DEF LaneRule
<1>13. \A p \in pairs : <<verdict, p[2]>> \in Executions
    BY <1>2, <1>3
<1> HIDE DEF pairs
<1>14. Cardinality(pairs) >= Rule.votes + Rule.least_held
    BY <1>4, <1>10, <1>11, <1>12
<1>15. Cardinality({p[1] : p \in pairs}) = Cardinality(pairs)
    BY <1>7, <1>10, OneToOne
<1>16. Cardinality({p[2] : p \in pairs}) = Cardinality(pairs)
    BY <1>8, <1>10, OneToOne
<1> QED BY <1>13, <1>14, <1>15, <1>16 DEF pairs, V, H

LEMMA TwinsAreUnresolved == ProofInv => TwinsUnresolved
<1> SUFFICES ASSUME ProofInv, verdict \in MarketWallets, losses = 0,
                    NEW w \in MarketWallets \ {verdict}, Closed(w, Executions) = Closed(verdict, Executions)
             PROVE  FALSE
    BY DEF TwinsUnresolved
<1>1. /\ MarketFits /\ VotesFit /\ HeldFit /\ DOMAIN held = Shortlist /\ verdict \in Shortlist
      /\ Winner(verdict)
    BY VerdictWins DEF Judged
<1>2. PICK width \in {Rule.window, Rule.fallback} : votes = VotesIn(Executions, width)
    BY <1>1 DEF VotesFit
<1>3. votes[w] = votes[verdict]
    <2>1. Found(AnchorsOf(Rule), w, Executions, width) = Found(AnchorsOf(Rule), verdict, Executions, width)
        BY DEF Found
    <2> QED BY <1>2, <2>1 DEF VotesIn
<1>4. Cardinality(votes[verdict]) \in Nat
    BY <1>1, VotesFacts, FS_CardinalityType
<1>5. Rule.unique
    BY <1>1, <1>3, <1>4, ShortlistFacts
<1>6. w \in Shortlist
    BY <1>1, <1>3, <1>5 DEF Shortlist
<1>7. held[w] = held[verdict]
    <2>1. held[w] = HeldOut(w, Executions) /\ held[verdict] = HeldOut(verdict, Executions)
        BY <1>1, <1>6 DEF HeldFit
    <2>2. \A s, t, matched : Votes(s, t, w, matched) = Votes(s, t, verdict, matched)
        BY <1>3 DEF Votes
    <2>3. HeldOut(w, Executions) = HeldOut(verdict, Executions)
        <3> DEFINE middle == Median2(Offsets(votes[verdict]))
                   inClock(s) == {t \in Closed(verdict, Executions) : Distance(2 * (t - s), middle) <= 2 * Rule.drift}
                   matched == {p \in {<<s, Nearest(s, inClock(s), Rule.close)>> : s \in SelectedTrades(Rule)} : p[2] # 0}
        <3>1. HeldOut(verdict, Executions) = {p \in matched : Votes(p[1], p[2], verdict, matched)}
            BY DEF HeldOut
        <3>2. HeldOut(w, Executions) = {p \in matched : Votes(p[1], p[2], w, matched)}
            BY <1>3 DEF HeldOut
        <3> HIDE DEF matched
        <3> QED BY <2>2, <3>1, <3>2
    <2> QED BY <2>1, <2>3
<1>8. Cardinality(held[verdict]) \in Nat
    BY <1>1, HeldFacts, FS_CardinalityType
<1>9. Rule.gap \in Nat \ {0}
    BY <1>1, RuleFacts DEF LaneRule
<1>10. Cardinality(held[verdict]) - Cardinality(held[w]) >= Rule.gap
    BY <1>1, <1>6 DEF Winner, ClearOf
<1> QED BY <1>7, <1>8, <1>9, <1>10

(* Of finitely many numbers one has exactly k smaller ones. *)
LEMMA RankOf ==
    ASSUME NEW A \in SUBSET Nat, IsFiniteSet(A), NEW k \in Nat, k < Cardinality(A)
    PROVE  \E t \in A : Cardinality({u \in A : u < t}) = k
<1> DEFINE below(t) == {u \in A : u < t}
           R == {n \in Nat : \E t \in A : Cardinality(below(t)) = n}
           last == Cardinality(A) - 1
<1>0. \A u, t \in A : u \in Nat /\ t \in Nat /\ (t <= u <=> ~ (u < t)) /\ (u < t \/ u = t \/ u > t) /\ ~ (t < t)
    OBVIOUS
<1>1. Cardinality(A) \in Nat /\ last \in Nat /\ k \in 0 .. last /\ A # {}
    BY FS_CardinalityType, FS_EmptySet
<1>2. \A t \in A : IsFiniteSet(below(t)) /\ Cardinality(below(t)) \in Nat
    BY FS_Subset, FS_CardinalityType
<1>3. 0 \in R
    <2>1. PICK t \in A : \A u \in A : t <= u
        BY <1>1, LeastNumber
    <2>2. below(t) = {}
        BY <1>0, <2>1
    <2>3. Cardinality(below(t)) = 0
        BY <2>2, FS_EmptySet
    <2> QED BY <2>3
<1>4. ASSUME NEW n \in 0 .. last, n \in R, n < last PROVE n + 1 \in R
    <2>1. PICK t \in A : Cardinality(below(t)) = n
        BY <1>4
    <2> DEFINE above == {u \in A : u > t}
    <2>2. above # {}
        <3> SUFFICES ASSUME above = {} PROVE FALSE
            OBVIOUS
        <3>1. A = below(t) \cup {t} /\ t \notin below(t)
            <4>1. \A u \in A : u < t \/ u = t
                BY <1>0
            <4>2. t \notin below(t) /\ \A u : u \in A <=> (u \in below(t) \/ u = t)
                BY <1>0, <4>1
            <4> HIDE DEF below
            <4> QED BY <4>2
        <3>2. Cardinality(A) = n + 1
            BY <1>2, <2>1, <3>1, FS_AddElement
        <3> QED BY <1>1, <1>4, <3>2
    <2>3. PICK next \in above : \A u \in above : next <= u
        <3> above \subseteq Nat
            OBVIOUS
        <3> HIDE DEF above
        <3> QED BY <2>2, LeastNumber
    <2>4. below(next) = below(t) \cup {t} /\ t \notin below(t)
        <3>1. next \in A /\ next > t /\ \A u \in A : u > t => ~ (u < next)
            BY <1>0, <2>3
        <3>2. \A u \in A : u < next <=> (u < t \/ u = t)
            BY <1>0, <3>1
        <3>3. t \notin below(t) /\ \A u : u \in below(next) <=> (u \in below(t) \/ u = t)
            BY <1>0, <3>2
        <3> HIDE DEF below
        <3> QED BY <3>3
    <2>5. Cardinality(below(next)) = n + 1
        BY <1>2, <2>1, <2>4, FS_AddElement
    <2>6. n + 1 \in Nat /\ next \in A
        BY <2>3
    <2> QED BY <2>5, <2>6
<1> HIDE DEF R, last
<1>5. \A n \in 0 .. last : n \in R
    BY <1>1, <1>3, <1>4, CountUp
<1>6. k \in R
    BY <1>1, <1>5
<1> QED BY <1>6 DEF R

(* When every execution is at the very time of its trade, no clock differs. *)
Exact(A) == {<<s, s>> : s \in A}
AtZero(A) == {<<s, 0>> : s \in A}

LEMMA NoSpread ==
    ASSUME NEW A \in SUBSET Nat, IsFiniteSet(A), A # {}
    PROVE  Median2(Offsets(Exact(A))) = 0 /\ Spread(Exact(A)) = 0
<1> DEFINE P == AtZero(A)
<1>1. IsFiniteSet(P) /\ Cardinality(P) = Cardinality(A)
    <2> DEFINE f == [s \in A |-> <<s, 0>>]
    <2>1. f \in [A -> P] /\ \A p \in P : \E s \in A : f[s] = p
        BY DEF AtZero
    <2>2. \A s, t \in A : f[s] = f[t] => s = t
        OBVIOUS
    <2> HIDE DEF f, P
    <2>3. f \in Surjection(A, P) /\ f \in Injection(A, P)
        BY <2>1, <2>2 DEF Surjection, Injection, IsInjective
    <2> QED BY <2>3, FS_Surjection
<1>2. ASSUME NEW k \in Nat, k < Cardinality(A) PROVE Kth(P, k)[2] = 0
    <2> DEFINE before(p) == {q \in P : q[2] < p[2] \/ (q[2] = p[2] /\ q[1] < p[1])}
    <2>1. PICK t \in A : Cardinality({u \in A : u < t}) = k
        BY <1>2, RankOf
    <2>2. <<t, 0>> \in P
        BY DEF AtZero
    <2>3. before(<<t, 0>>) = AtZero({u \in A : u < t})
        BY DEF AtZero
    <2>4. Cardinality(AtZero({u \in A : u < t})) = k
        <3> DEFINE B == {u \in A : u < t}
                   f == [s \in B |-> <<s, 0>>]
        <3>1. IsFiniteSet(B)
            BY FS_Subset
        <3>2. f \in [B -> AtZero(B)] /\ \A p \in AtZero(B) : \E s \in B : f[s] = p
            BY DEF AtZero
        <3>3. \A u, v \in B : f[u] = f[v] => u = v
            OBVIOUS
        <3> HIDE DEF f, B
        <3>4. f \in Surjection(B, AtZero(B)) /\ f \in Injection(B, AtZero(B))
            BY <3>2, <3>3 DEF Surjection, Injection, IsInjective
        <3>5. Cardinality(AtZero(B)) = Cardinality(B)
            BY <3>1, <3>4, FS_Surjection
        <3> QED BY <2>1, <3>5 DEF B
    <2>5. k = Cardinality(before(<<t, 0>>))
        BY <2>3, <2>4
    <2>6. Kth(P, k) = CHOOSE p \in P : k = Cardinality(before(p))
        BY DEF Kth
    <2>7. Kth(P, k) \in P
        <3> HIDE DEF before, P
        <3> QED BY <2>2, <2>5, <2>6
    <2> QED BY <2>7 DEF AtZero
<1>3. Median2(P) = 0
    <2> DEFINE n == Cardinality(P)
    <2>1. n \in Nat /\ n = Cardinality(A) /\ n # 0
        BY <1>1, FS_CardinalityType, FS_EmptySet
    <2>2. Median2(P) = Kth(P, (n - 1) \div 2)[2] + Kth(P, n \div 2)[2]
        BY DEF Median2
    <2> HIDE DEF n, P
    <2>3. (n - 1) \div 2 \in Nat /\ (n - 1) \div 2 < n /\ n \div 2 \in Nat /\ n \div 2 < n
        BY <2>1
    <2>4. Kth(P, (n - 1) \div 2)[2] = 0 /\ Kth(P, n \div 2)[2] = 0
        BY <1>2, <2>1, <2>3
    <2> QED BY <2>2, <2>4
<1>4. Offsets(Exact(A)) = P
    <2>1. \A s \in A : s - s = 0
        OBVIOUS
    <2>2. \A p \in Exact(A) : <<p[1], p[2] - p[1]>> = <<p[1], 0>> /\ p[1] \in A
        BY <2>1 DEF Exact
    <2>3. \A s \in A : <<s, s>> \in Exact(A) /\ <<s, s>>[1] = s
        BY DEF Exact
    <2>4. Offsets(Exact(A)) = {<<p[1], 0>> : p \in Exact(A)}
        BY <2>2 DEF Offsets
    <2>5. {<<p[1], 0>> : p \in Exact(A)} = {<<s, 0>> : s \in A}
        BY <2>2, <2>3
    <2> QED BY <2>4, <2>5 DEF AtZero
<1>5. {<<p[1], Distance(2 * (p[2] - p[1]), 0)>> : p \in Exact(A)} = P
    <2>1. \A s \in A : Distance(2 * (s - s), 0) = 0
        BY DEF Distance
    <2>2. \A p \in Exact(A) : <<p[1], Distance(2 * (p[2] - p[1]), 0)>> = <<p[1], 0>> /\ p[1] \in A
        BY <2>1 DEF Exact
    <2>3. \A s \in A : <<s, s>> \in Exact(A) /\ <<s, s>>[1] = s
        BY DEF Exact
    <2>4. {<<p[1], Distance(2 * (p[2] - p[1]), 0)>> : p \in Exact(A)} = {<<p[1], 0>> : p \in Exact(A)}
        BY <2>2
    <2>5. {<<p[1], 0>> : p \in Exact(A)} = {<<s, 0>> : s \in A}
        BY <2>2, <2>3
    <2> QED BY <2>4, <2>5 DEF AtZero
<1> QED BY <1>3, <1>4, <1>5 DEF Spread

LEMMA NearestOfItself ==
    ASSUME NEW s \in Nat \ {0}, NEW S \in SUBSET Nat, s \in S, NEW tolerance \in Nat
    PROVE  Nearest(s, S, tolerance) = s
<1> DEFINE near == {t \in S : CoinAt[t] = CoinAt[s] /\ Distance(t, s) <= tolerance}
           n == Nearest(s, S, tolerance)
<1>1. Distance(s, s) = 0 /\ \A t \in Nat : Distance(t, s) \in Nat /\ (Distance(t, s) = 0 => t = s)
    BY DEF Distance
<1>2. s \in near /\ near \subseteq Nat
    <2>1. Distance(s, s) <= tolerance
        BY <1>1
    <2> QED BY <2>1
<1>3. n \in near /\ \A u \in near : Distance(n, s) < Distance(u, s) \/ (Distance(n, s) = Distance(u, s) /\ n <= u)
    BY <1>2, NearestIs
<1> HIDE DEF near, n
<1>4. Distance(n, s) < Distance(s, s) \/ Distance(n, s) = Distance(s, s)
    BY <1>2, <1>3
<1>5. Distance(n, s) \in Nat /\ n \in Nat
    BY <1>1, <1>2, <1>3
<1>6. Distance(n, s) = 0
    BY <1>1, <1>4, <1>5
<1>7. n = s
    BY <1>1, <1>5, <1>6
<1> QED BY <1>7 DEF n

LEMMA ExactFacts ==
    ASSUME NEW A \in SUBSET Nat, IsFiniteSet(A)
    PROVE  /\ Cardinality(Exact(A)) = Cardinality(A) /\ Deduped(Exact(A)) = Exact(A)
           /\ \A p \in Exact(A) : p[1] = p[2] /\ p[1] \in A /\ p = <<p[1], p[1]>>
           /\ \A s \in A : <<s, s>> \in Exact(A)
<1>1. /\ \A p \in Exact(A) : p[1] = p[2] /\ p[1] \in A /\ p = <<p[1], p[1]>>
      /\ \A s \in A : <<s, s>> \in Exact(A)
    BY DEF Exact
<1>2. Cardinality(Exact(A)) = Cardinality(A)
    <2> DEFINE f == [s \in A |-> <<s, s>>]
    <2>1. f \in [A -> Exact(A)] /\ \A p \in Exact(A) : \E s \in A : f[s] = p
        BY DEF Exact
    <2>2. \A s, t \in A : f[s] = f[t] => s = t
        OBVIOUS
    <2> HIDE DEF f
    <2>3. f \in Surjection(A, Exact(A)) /\ f \in Injection(A, Exact(A))
        BY <2>1, <2>2 DEF Surjection, Injection, IsInjective
    <2> QED BY <2>3, FS_Surjection
<1>3. Deduped(Exact(A)) = Exact(A)
    <2>1. \A p, q \in Exact(A) : q[2] = p[2] => Distance(p[1], p[2]) = Distance(q[1], q[2]) /\ q[1] <= p[1]
        <3>1. \A s \in A : s <= s
            OBVIOUS
        <3> QED BY <1>1, <3>1
    <2> QED BY <2>1 DEF Deduped
<1> QED BY <1>1, <1>2, <1>3

LEMMA LoneTraderIsFound == ProofInv => LoneTraderFound
<1> SUFFICES ASSUME ProofInv, stage = "decided", losses = 0, Rule.dedupe, NEW w \in MarketWallets,
                    \A t \in DOMAIN market : market[t] = IF t \in told THEN {w} ELSE {},
                    Cardinality(told) >= Rule.signals,
                    Cardinality(AnchorsOf(Rule)) >= Rule.votes,
                    Cardinality(SelectedTrades(Rule)) >= Rule.least_held
             PROVE  verdict = w
    BY DEF LoneTraderFound
<1> DEFINE A == AnchorsOf(Rule)
           S == SelectedTrades(Rule)
<1>1. Rule \in LaneRule /\ Rule.signals \in Nat /\ Rule.votes \in Nat \ {0} /\ Rule.spread \in Nat
      /\ Rule.candidates \in Nat \ {0} /\ Rule.window \in Nat /\ Rule.fallback \in Nat /\ Rule.close \in Nat
      /\ Rule.drift \in Nat /\ Rule.percent \in 0 .. 100
    <2>1. MarketFits
        BY DEF ProofInv
    <2> QED BY <2>1, RuleFacts DEF LaneRule
<1>2. Cardinality(told) \in Nat
    BY MarketFacts, FS_CardinalityType DEF ProofInv
<1>3. MarketFits /\ Judged /\ VotesFit /\ HeldFit /\ DOMAIN held = Shortlist
    BY <1>1, <1>2 DEF ProofInv, Judged
<1>4. Closed(w, Executions) = told /\ \A v \in MarketWallets \ {w} : Closed(v, Executions) = {}
    <2>1. told \subseteq DOMAIN market
        BY <1>3, MarketFacts DEF Ticks
    <2>2. \A v \in MarketWallets, t \in DOMAIN market : <<v, t>> \in Executions <=> v \in market[t]
        BY DEF Executions
    <2> QED BY <2>1, <2>2 DEF Closed
<1>5. /\ A \in SUBSET told /\ S \in SUBSET told /\ A \cap S = {} /\ IsFiniteSet(A) /\ IsFiniteSet(S)
      /\ told \in SUBSET Nat /\ 0 \notin told
    BY <1>3, AnchorFacts, MarketFacts
<1>6. A \in SUBSET Nat /\ S \in SUBSET Nat /\ Cardinality(A) \in Nat /\ Cardinality(S) \in Nat /\ A # {}
    <2>1. Cardinality(A) \in Nat /\ Cardinality(S) \in Nat
        BY <1>5, FS_CardinalityType
    <2>2. Cardinality({}) = 0 /\ Cardinality(A) # 0
        BY <1>1, FS_EmptySet
    <2>3. A # {}
        BY <2>2
    <2> QED BY <1>5, <2>1, <2>3
<1>7. PICK width \in {Rule.window, Rule.fallback} : votes = VotesIn(Executions, width)
    BY <1>3 DEF VotesFit
<1>8. votes[w] = Exact(A)
    <2>1. \A s \in A : Nearest(s, told, width) = s
        BY <1>1, <1>5, NearestOfItself
    <2>2. Found(A, w, Executions, width) = {p \in {<<s, Nearest(s, told, width)>> : s \in A} : p[2] # 0}
        BY <1>4 DEF Found
    <2>3. {<<s, Nearest(s, told, width)>> : s \in A} = Exact(A)
        BY <2>1 DEF Exact
    <2>4. \A p \in Exact(A) : p[2] # 0
        BY <1>5, <1>6, ExactFacts
    <2>5. Found(A, w, Executions, width) = Exact(A)
        BY <2>2, <2>3, <2>4
    <2> QED BY <1>5, <1>6, <1>7, <2>5, ExactFacts DEF VotesIn
<1>9. \A v \in MarketWallets \ {w} : votes[v] = {}
    <2> SUFFICES ASSUME NEW v \in MarketWallets \ {w} PROVE votes[v] = {}
        OBVIOUS
    <2>1. \A s : Nearest(s, {}, width) = 0
        BY DEF Nearest
    <2>2. Found(A, v, Executions, width) = {}
        BY <1>4, <2>1 DEF Found
    <2>3. Deduped({}) = {}
        BY DEF Deduped
    <2> QED BY <1>7, <2>2, <2>3 DEF VotesIn
<1>10. Cardinality(votes[w]) = Cardinality(A) /\ \A v \in MarketWallets \ {w} : Cardinality(votes[v]) = 0
    <2>1. Cardinality(votes[w]) = Cardinality(A)
        BY <1>5, <1>6, <1>8, ExactFacts
    <2>2. \A v \in MarketWallets \ {w} : Cardinality(votes[v]) = 0
        BY <1>9, FS_EmptySet
    <2> HIDE DEF A
    <2> QED BY <2>1, <2>2
<1>11. Spread(votes[w]) = 0 /\ Median2(Offsets(votes[w])) = 0
    BY <1>5, <1>6, <1>8, NoSpread
<1>12. Shortlist = {w}
    <2> DEFINE enough == {v \in MarketWallets : Cardinality(votes[v]) >= Rule.votes /\ Spread(votes[v]) <= Rule.spread}
    <2>1. \A v \in MarketWallets \ {w} : ~ (Cardinality(votes[v]) >= Rule.votes)
        BY <1>1, <1>10
    <2>2. Cardinality(votes[w]) >= Rule.votes /\ Spread(votes[w]) <= Rule.spread
        BY <1>1, <1>10, <1>11
    <2>3. enough = {w}
        BY <2>1, <2>2
    <2>4. ~ (Cardinality({w}) > Rule.candidates)
        BY <1>1, FS_Singleton
    <2>5. \A v \in MarketWallets \ {w} : Cardinality(votes[v]) < Cardinality(votes[w])
        BY <1>1, <1>6, <1>10
    <2>6. Shortlist = IF ~Rule.unique THEN {x \in enough : \A v \in MarketWallets \ {x} : Cardinality(votes[v]) < Cardinality(votes[x])}
                      ELSE IF Cardinality(enough) > Rule.candidates THEN {} ELSE enough
        BY DEF Shortlist
    <2> HIDE DEF enough
    <2> QED BY <2>3, <2>4, <2>5, <2>6
<1>13. held[w] = Exact(S)
    <2> DEFINE inClock(s) == {t \in told : Distance(2 * (t - s), 0) <= 2 * Rule.drift}
               matched == {p \in {<<s, Nearest(s, inClock(s), Rule.close)>> : s \in S} : p[2] # 0}
    <2>1. held[w] = HeldOut(w, Executions)
        BY <1>3, <1>12 DEF HeldFit
    <2>2. HeldOut(w, Executions) = {p \in matched : Votes(p[1], p[2], w, matched)}
        BY <1>4, <1>11 DEF HeldOut
    <2>3. ASSUME NEW s \in S PROVE Nearest(s, inClock(s), Rule.close) = s
        <3>1. s - s = 0 /\ Distance(2 * (s - s), 0) = 0 /\ s \in Nat \ {0} /\ s \in told
            BY <1>5, <1>6 DEF Distance
        <3>2. s \in inClock(s)
            BY <1>1, <3>1
        <3>3. inClock(s) \in SUBSET Nat
            BY <1>5
        <3> HIDE DEF inClock
        <3> QED BY <1>1, <3>1, <3>2, <3>3, NearestOfItself
    <2> HIDE DEF inClock
    <2>4. {<<s, Nearest(s, inClock(s), Rule.close)>> : s \in S} = Exact(S)
        BY <2>3 DEF Exact
    <2>5. \A p \in Exact(S) : p[2] # 0
        BY <1>5, <1>6, ExactFacts
    <2>6. matched = Exact(S)
        BY <2>4, <2>5
    <2>7. ASSUME NEW p \in Exact(S) PROVE Votes(p[1], p[2], w, Exact(S))
        <3>1. p[2] \in S /\ p[1] = p[2] /\ \A q \in Exact(S) : q[1] = q[2]
            BY <1>5, <1>6, ExactFacts
        <3>2. \A q \in votes[w] : q[2] \in A
            BY <1>5, <1>6, <1>8, ExactFacts
        <3>3. p[2] \notin {q[2] : q \in votes[w]}
            BY <1>5, <3>1, <3>2
        <3>4. \A q \in Exact(S) : q[2] = p[2] => q[1] <= p[1]
            BY <1>6, <3>1
        <3> QED BY <3>3, <3>4 DEF Votes
    <2> HIDE DEF matched
    <2> QED BY <2>1, <2>2, <2>6, <2>7
<1>14. Winner(w)
    <2>1. Cardinality(held[w]) = Cardinality(S)
        BY <1>5, <1>6, <1>13, ExactFacts
    <2>2. \A n \in Nat, k \in 0 .. 100 : 100 * n >= k * n
        OBVIOUS
    <2>3. 100 * Cardinality(S) >= Rule.percent * Cardinality(S)
        BY <1>1, <1>6, <2>2
    <2>4. DOMAIN held = {w}
        BY <1>3, <1>12
    <2>5. ClearOf(w)
        BY <2>4 DEF ClearOf
    <2>6. Cardinality(S) <= Cardinality(S)
        BY <1>6
    <2> QED BY <2>1, <2>3, <2>4, <2>5, <2>6 DEF Winner
<1> QED BY <1>3, <1>12, <1>14 DEF Judged

LEMMA TypesFit == ProofInv => ProofTypeOK
<1> SUFFICES ASSUME ProofInv PROVE ProofTypeOK
    OBVIOUS
<1>1. MarketFits
    BY DEF ProofInv
<1>2. \A w \in MarketWallets : votes[w] \subseteq told \X DOMAIN market
    <2>1. CASE votes = NoPairs
        BY <2>1 DEF NoPairs
    <2>2. CASE VotesFit
        <3> SUFFICES ASSUME NEW w \in MarketWallets PROVE votes[w] \subseteq told \X DOMAIN market
            OBVIOUS
        <3>1. PairsOf(votes[w], AnchorsOf(Rule), Ticks) /\ AnchorsOf(Rule) \subseteq told
            BY <1>1, <2>2, VotesFacts, AnchorFacts
        <3> QED BY <3>1 DEF PairsOf, Ticks
    <2> QED BY <1>1, <2>1, <2>2 DEF ProofInv, MarketFits, Judged
<1>3. DOMAIN held \subseteq MarketWallets
    <2>1. Shortlist \subseteq MarketWallets
        BY ShortlistFacts
    <2>2. DOMAIN held \subseteq Shortlist \/ held = <<>>
        BY <1>1 DEF ProofInv, MarketFits, Judged
    <2>3. DOMAIN <<>> = {}
        OBVIOUS
    <2> QED BY <2>1, <2>2, <2>3
<1>4. verdict \in MarketWallets \cup {Nobody}
    <2>1. verdict \in DOMAIN held \/ verdict = Nobody
        BY DEF ProofInv, Judged
    <2> QED BY <1>3, <2>1
<1>5. Len(market) <= MaxTime /\ \A t \in DOMAIN market : market[t] \subseteq MarketWallets
    BY <1>1, MarketFacts DEF MarketFits, Ticks
<1>6. losses <= MaxLost /\ AnchorsOf(Rule) \cap SelectedTrades(Rule) = {}
    BY <1>1, AnchorFacts, MarketFacts DEF MarketFits
<1> QED BY <1>1, <1>2, <1>3, <1>4, <1>5, <1>6 DEF ProofTypeOK, MarketFits

THEOREM VerdictIsSoundHolds == ProofSpec => []VerdictIsSound
<1>1. ProofInv => VerdictIsSound
    BY TypesFit, CountsOnce, TwinsAreUnresolved, LoneTraderIsFound DEF VerdictIsSound
<1> QED BY <1>1, SearchInit, SearchStep, PTL DEF ProofSpec
=============================================================================
