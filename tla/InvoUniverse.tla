------------------------------- MODULE InvoUniverse -------------------------------
(***************************************************************************)
(* Two jobs that feed the resolution queue under the pipeline lock: the    *)
(* universe miner scans the surfaces of Invo, any of which may fail, and   *)
(* the direct-history job fetches the ended trades of the candidates it   *)
(* has not scanned for longest.  Both store evidence, write the evidence   *)
(* files and the queue, and rewrite the file of candidates; a kill may     *)
(* fall between any two of these writes.                                   *)
(***************************************************************************)
EXTENDS Naturals, Sequences, FiniteSets, Functions

CONSTANTS Candidates,   \* portfolios by rank: none is liquidated, verified, or below
                        \* MIN_RESOLUTION_TRADES ended positions, which are never selected
          Threshold,    \* MIN_RESOLUTION_TRADES, EVIDENCE_THRESHOLD
          MaxTrades,    \* bound: ended trades together
          ScanLimit,    \* --max-portfolios
          RefreshRuns,  \* --refresh-minutes, in runs
          MaxLost       \* bound: failed surfaces and requests, and kills

ASSUME UniverseAssumption ==
    /\ Candidates \subseteq Nat \ {0} /\ IsFiniteSet(Candidates)
    /\ {Threshold, MaxTrades, ScanLimit, RefreshRuns} \subseteq Nat \ {0} /\ MaxLost \in Nat

VARIABLES ended,   \* what Invo would answer: ended trades of a portfolio
          stored,   \* the evidence rows of the archive
          files,    \* rows of each evidence file
          queue,    \* resolution_queue.json: portfolio -> when it became ready
          universe, \* universe_candidates.json: portfolio -> tracking stage
          scanned,  \* direct_history_state.json: runs since the last scan
          step,     \* the running job
          lost

iuVars == <<ended, stored, files, queue, universe, scanned, step, lost>>

Never == RefreshRuns + 1
Unknown == "unknown"
NotQueued == 3
IdleStep == [job |-> "none", phase |-> "idle", found |-> {}, got |-> [p \in Candidates |-> {}],
             failed |-> {}, left |-> {}, kept |-> [p \in Candidates |-> NotQueued], tick |-> 0]
Go(phase) == [step EXCEPT !.phase = phase]

\* ---- a run reads ----

\* Every surface that answers shows some portfolios and some ended trades.
UniverseScans(found, got) ==
    /\ step.job = "none" /\ found # {}
    /\ \A p \in Candidates : got[p] \subseteq 1 .. ended[p] /\ (got[p] # {} => p \in found)
    /\ step' = [IdleStep EXCEPT !.job = "universe", !.phase = "store", !.found = found, !.got = got,
                                !.tick = 1 - step.tick]
    /\ UNCHANGED <<ended, stored, files, queue, universe, scanned, lost>>

Due(p) == scanned[p] >= RefreshRuns

\* select_candidates: those due, the never scanned before the others.
Before(p, q) ==
    \/ scanned[p] = Never /\ scanned[q] # Never
    \/ (scanned[p] = Never <=> scanned[q] = Never) /\ p < q
Chosen ==
    LET due == {p \in Candidates : universe[p] # Unknown /\ Due(p)} IN
    {p \in due : Cardinality({q \in due : Before(q, p)}) < ScanLimit}

Aged(p) == IF scanned[p] < RefreshRuns THEN scanned[p] + 1 ELSE scanned[p]
\* collect_direct_history for each: a portfolio whose request fails is skipped.
DirectFetches(failed) ==
    /\ step.job = "none" /\ \E p \in Candidates : universe[p] # Unknown
    /\ failed \subseteq Chosen /\ lost + Cardinality(failed) <= MaxLost
    /\ lost' = lost + Cardinality(failed)
    /\ step' = [IdleStep EXCEPT !.job = "direct", !.phase = "store", !.found = Chosen, !.failed = failed,
                   !.got = [p \in Candidates |-> IF p \in Chosen \ failed THEN 1 .. ended[p] ELSE {}],
                   !.tick = 1 - step.tick]
    /\ scanned' = [p \in Candidates |-> Aged(p)]
    /\ UNCHANGED <<ended, stored, files, queue, universe>>

\* ---- what both write ----

\* InvoRecordStore.upsert is one transaction.
StoreRows ==
    /\ step.phase = "store"
    /\ stored' = [p \in Candidates |-> stored[p] \cup step.got[p]]
    /\ step' = [step EXCEPT !.phase = "files", !.kept = queue,
                            !.left = {p \in Candidates : Cardinality(stored'[p]) >= Threshold}]
    /\ UNCHANGED <<ended, files, queue, universe, scanned, lost>>

\* _materialize_grouped writes one evidence file after another, then the queue.
WriteFile(p) ==
    /\ step.phase = "files" /\ p \in step.left
    /\ files' = [files EXCEPT ![p] = Cardinality(stored[p])]
    /\ step' = [step EXCEPT !.left = @ \ {p}]
    /\ UNCHANGED <<ended, stored, queue, universe, scanned, lost>>
ReadySince(p) == IF step.kept[p] # NotQueued THEN step.kept[p] ELSE step.tick
FilesWritten == step.left = {}
WriteQueue ==
    /\ step.phase = "files" /\ FilesWritten
    /\ queue' = [p \in Candidates |-> IF Cardinality(stored[p]) >= Threshold THEN ReadySince(p) ELSE NotQueued]
    /\ step' = Go("universe")
    /\ UNCHANGED <<ended, stored, files, universe, scanned, lost>>

StageOf(p) ==
    IF Cardinality(stored[p]) >= Threshold THEN "READY"
    ELSE IF stored[p] # {} THEN "ACCUMULATING" ELSE "DISCOVERED"
\* What an earlier run discovered is restored though no surface showed it.
CandidatesKept == step.found \cup {p \in Candidates : universe[p] # Unknown}
WriteUniverse ==
    /\ step.phase = "universe"
    /\ universe' = [p \in Candidates |->
           IF step.job = "universe" THEN IF p \in CandidatesKept THEN StageOf(p) ELSE Unknown
           ELSE IF universe[p] # Unknown /\ stored[p] # {} THEN StageOf(p) ELSE universe[p]]
    /\ step' = IF step.job = "direct" THEN Go("state") ELSE [IdleStep EXCEPT !.tick = step.tick]
    /\ UNCHANGED <<ended, stored, files, queue, scanned, lost>>

\* Only a portfolio that answered counts as scanned.
AnsweredAny == step.found
Answered == step.found \ step.failed
WriteScanned ==
    /\ step.phase = "state"
    /\ scanned' = [p \in Candidates |-> IF p \in Answered THEN 0 ELSE scanned[p]]
    /\ step' = [IdleStep EXCEPT !.tick = step.tick]
    /\ UNCHANGED <<ended, stored, files, queue, universe, lost>>

KillJob ==
    /\ step.job # "none" /\ lost < MaxLost /\ lost' = lost + 1
    /\ step' = [IdleStep EXCEPT !.tick = step.tick]
    /\ UNCHANGED <<ended, stored, files, queue, universe, scanned>>
TradeCloses(p) ==
    /\ FoldFunction(+, 0, ended) < MaxTrades /\ ended' = [ended EXCEPT ![p] = @ + 1]
    /\ UNCHANGED <<stored, files, queue, universe, scanned, step, lost>>

UniverseInit ==
    /\ ended = [p \in Candidates |-> 0] /\ stored = [p \in Candidates |-> {}]
    /\ files = [p \in Candidates |-> 0] /\ queue = [p \in Candidates |-> NotQueued]
    /\ universe = [p \in Candidates |-> Unknown] /\ scanned = [p \in Candidates |-> Never]
    /\ step = IdleStep /\ lost = 0
UniverseWrites == StoreRows \/ WriteQueue \/ WriteUniverse \/ WriteScanned \/ \E p \in Candidates : WriteFile(p)
DirectHistory == \E failed \in SUBSET Candidates : DirectFetches(failed)
UniverseScan == \E found \in SUBSET Candidates : \E got \in [Candidates -> SUBSET (1 .. MaxTrades)] : UniverseScans(found, got)
UniverseNext == UniverseScan \/ DirectHistory \/ UniverseWrites \/ KillJob \/ \E p \in Candidates : TradeCloses(p)
UniverseSpec ==
    /\ UniverseInit /\ [][UniverseNext]_iuVars
    /\ WF_iuVars(UniverseWrites) /\ SF_iuVars(DirectHistory)

-----------------------------------------------------------------------------

\* Type invariant.
UniverseTypeOK ==
    /\ \A p \in Candidates :
           /\ ended[p] \in 0 .. MaxTrades /\ stored[p] \subseteq 1 .. ended[p]
           /\ files[p] \in 0 .. MaxTrades /\ queue[p] \in {0, 1, NotQueued} /\ scanned[p] \in 0 .. Never
           /\ universe[p] \in {Unknown, "READY", "ACCUMULATING", "DISCOVERED"}
    /\ step.phase \in {"idle", "store", "files", "universe", "state"}

\* A portfolio in the queue has an evidence file with enough trades, whichever
\* write was the last before a kill: the identifier refuses the whole queue
\* when one file is missing.
QueuedHasEvidence == \A p \in Candidates : queue[p] # NotQueued => files[p] >= Threshold

\* A candidate once published stays published though the surfaces that showed
\* it fail, and a portfolio in the queue stays there with the time it became
\* ready.
CandidatesStay == [][\A p \in Candidates : universe[p] # Unknown => universe'[p] # Unknown]_iuVars
ReadyTimeKept == [][\A p \in Candidates : queue[p] # NotQueued => queue'[p] = queue[p]]_iuVars

\* What a scan saw is stored before the scan counts: a portfolio that is not
\* due holds every trade that was ended when it was scanned.
ScanCounts ==
    [][\A p \in Candidates : scanned'[p] = 0 /\ scanned[p] # 0 => step.got[p] \subseteq stored[p] /\ p \notin step.failed]_iuVars

\* What was found of a portfolio is kept: candidates, the evidence that put it
\* in the queue and since when, and what a scan saw before the scan counts.
FindingsAreKept ==
    []UniverseTypeOK /\ []QueuedHasEvidence /\ CandidatesStay /\ ReadyTimeKept /\ ScanCounts

\* Every candidate is scanned again and again, as long as the refresh interval
\* covers them all: the ones due first never keep the last one out.
EveryCandidateScanned ==
    Cardinality(Candidates) <= RefreshRuns * ScanLimit =>
        \A p \in Candidates : (universe[p] # Unknown) ~> (scanned[p] = 0)
=============================================================================
