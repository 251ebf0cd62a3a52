------------------------------ MODULE PeriodicMC ------------------------------
(***************************************************************************)
(* The programs that timers start and that share no state: the supervisor  *)
(* of the team, the projection onto its board, the feed miner, the scan of *)
(* the portfolio universe and the grouping of evidence.  A behaviour is    *)
(* one of one of them, named by focus, while the others stay where they    *)
(* begin.                                                                  *)
(***************************************************************************)
EXTENDS TeamSupervisor, TeamProjection, InvoMiner, InvoUniverse, EvidenceGroups

VARIABLE focus

periodicVars == <<suVars, prVars, imVars, iuVars, egVars, focus>>

On(f, A, others) == focus = f /\ A /\ UNCHANGED <<others, focus>>
InSupervisor(A) == On("supervisor", A, <<prVars, imVars, iuVars, egVars>>)
InProjection(A) == On("projection", A, <<suVars, imVars, iuVars, egVars>>)
InMiner(A) == On("miner", A, <<suVars, prVars, iuVars, egVars>>)
InUniverse(A) == On("universe", A, <<suVars, prVars, imVars, egVars>>)
InGroups(A) == On("groups", A, <<suVars, prVars, imVars, iuVars>>)

PeriodicInit ==
    /\ SupInit /\ ProjectInit /\ MinerInit /\ UniverseInit /\ GroupsInit
    /\ focus \in {"supervisor", "projection", "miner", "universe", "groups"}
    /\ focus # "miner" => head = 1
PeriodicNext ==
    \/ InSupervisor(SupNext) \/ InProjection(ProjectNext)
    \/ InMiner(MinerNext) \/ InUniverse(UniverseNext) \/ InGroups(GroupsNext)
PeriodicSpec ==
    /\ PeriodicInit /\ [][PeriodicNext]_periodicVars
    /\ WF_periodicVars(InSupervisor(Supervise)) /\ SF_periodicVars(InSupervisor(Tick))
    /\ WF_periodicVars(InProjection(Bridge \/ Upsert \/ UpsertReplyLost \/ Archive \/ Comment))
    /\ <>[][~TrelloFails]_prVars
    /\ WF_periodicVars(InMiner(Miner))
    /\ WF_periodicVars(InUniverse(UniverseWrites)) /\ SF_periodicVars(InUniverse(DirectHistory))

\* Where the feed miner runs, every post of the feed reaches the archive.
PostsArchived == focus = "miner" => EveryPostArchived
\* Where the projection runs, the board comes to show what the ledger says.
BoardShowsLedger == focus = "projection" => BoardSettles

\* What feeds the identifier is sound: findings are kept, and one trade of the
\* source is one piece of evidence, for which the row that closed last speaks.
EvidenceIsSound == FindingsAreKept /\ []TradesAreComponents /\ []TradeCountedOnce
\* What a timer starts again and again gets done: the host recovers or has
\* escalated, the board shows the ledger, and posts and portfolios are reached.
PeriodicProgress == HostRecovers /\ BoardShowsLedger /\ PostsArchived /\ EveryCandidateScanned
=============================================================================
