------------------------------- MODULE ResolverMC -------------------------------
(***************************************************************************)
(* The parts of the resolver that share no state: a behaviour is one of    *)
(* one of them, named by focus, while the others stay where they begin.    *)
(***************************************************************************)
EXTENDS LifecycleReplay, SqdTape, PositionReconstruct, SourceEvidence, CopyScore

VARIABLE focus

resolverVars == <<lrVars, sqVars, prVars, seVars, csVars, focus>>

On(f, A, others) == focus = f /\ A /\ UNCHANGED <<others, focus>>
notTape == <<lrVars, prVars, seVars, csVars>>

ReplayStep == On("replay", ReplayNext, <<sqVars, prVars, seVars, csVars>>)
TapeStep == On("tape", TapeNext, notTape)
ReconstructStep == On("reconstruct", ReconstructNext, <<lrVars, sqVars, seVars, csVars>>)
EvidenceStep == On("evidence", EvidenceFileNext, <<lrVars, sqVars, prVars, csVars>>)
ScoreStep == On("score", ScoreNext, <<lrVars, sqVars, prVars, seVars>>)

Level(p, s) == [price |-> p, size |-> s]
FewShapes == {
    [bids |-> <<Level(9, 2), Level(8, 2)>>, asks |-> <<Level(11, 2), Level(12, 2)>>],
    [bids |-> <<Level(13, 2), Level(9, 3)>>, asks |-> <<Level(15, 4)>>],
    [bids |-> <<Level(9, 4)>>, asks |-> <<>>]}
EarlyTimelyLate == {-2, 0, 1}

ResolverInit ==
    /\ ReplayInit /\ TapeInit /\ ReconstructInit /\ EvidenceFileInit /\ ScoreInit
    /\ focus \in {"replay", "tape", "reconstruct", "evidence", "score"}
    /\ focus # "tape" => times = [b \in 1 .. Blocks |-> b] /\ filled = {1} /\ head = Blocks
    /\ focus # "score" => episode = [direction |-> "LONG", entry |-> Event(1, 0), exit |-> Event(2, 0)]
ResolverNext == ReplayStep \/ TapeStep \/ ReconstructStep \/ EvidenceStep \/ ScoreStep
ResolverSpec ==
    /\ ResolverInit /\ [][ResolverNext]_resolverVars
    /\ WF_resolverVars(On("tape", QueryStep, notTape))
    /\ WF_resolverVars(On("tape", PeerStep, notTape))
=============================================================================
