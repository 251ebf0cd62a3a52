-------------------------------- MODULE JobsMC --------------------------------
(***************************************************************************)
(* Jobs that share no state: the five storage programs and the search for  *)
(* the wallet behind a portfolio.  A behaviour is one of one of them, named *)
(* by focus, while the others stay where they begin.                       *)
(***************************************************************************)
EXTENDS StorageCompaction, TapeLifecycle, StorageRetention, StoragePressure, ShadowReset,
        WalletProof, TLC

VARIABLE focus

storageVars == <<scVars, tlVars, srVars, spVars, rsVars>>
jobsVars == <<storageVars, wpVars, focus>>

-----------------------------------------------------------------------------
(* The values of the constants.                                            *)

Body(t, hash, body, received) ==
    [t |-> t, hash |-> hash, body |-> body, truth |-> received]
SomeRows ==
    {{Body(0, Board, Board, Board), Body(1, Board, Board, Board), Body(0, Empty, Empty, Empty)},
     {Body(0, Board, Board, Board), Body(0, Board, "other", "other"), Body(1, Board, Board, Board)},
     {Body(1, Board, Board, Board)}}
DirectoryCoins == [d \in {1, 2, 3} |-> IF d = 3 THEN "other" ELSE "btc"]
OldTape ==
    [p \in {<<1, 0>>, <<2, 0>>, <<3, 0>>, <<3, 1>>} |->
        [bytes |-> IF p = <<3, 1>> THEN 2 ELSE 1, inode |-> 1]]

WalletSymmetry == Permutations(MarketWallets)
TwoCoins == [t \in 1 .. 5 |-> IF t = 2 THEN 2 ELSE 1]
AnyLookback == 10
\* The thresholds of the three lanes keep their order but are small.
SizedLane ==
    [least |-> 3, signals |-> 3, anchors |-> 2, window |-> 1, fallback |-> 1, votes |-> 1, spread |-> 20,
     candidates |-> 2, unique |-> TRUE, dedupe |-> TRUE, verify |-> 3, full |-> FALSE, lookback |-> 3,
     close |-> 1, drift |-> 10, least_held |-> 1, percent |-> 20, gap |-> 1]
UnsizedLane ==
    [SizedLane EXCEPT !.signals = 4, !.votes = 2, !.spread = 2, !.verify = 2, !.full = TRUE,
                      !.lookback = AnyLookback, !.drift = 0, !.percent = 40]
ReverseLane ==
    [SizedLane EXCEPT !.window = 0, !.fallback = 1, !.unique = FALSE, !.dedupe = FALSE, !.verify = 2,
                      !.lookback = AnyLookback, !.drift = 1, !.percent = 60]
Lanes == [sized |-> SizedLane, unsized |-> UnsizedLane, reverse |-> ReverseLane]

-----------------------------------------------------------------------------
One(s) == CHOOSE x \in s : TRUE
On(f, A, others) == focus = f /\ A /\ UNCHANGED <<others, focus>>

Compaction == On("compaction", CompactionNext, <<tlVars, srVars, spVars, rsVars, wpVars>>)
Lifecycle == On("lifecycle", LifecycleNext, <<scVars, srVars, spVars, rsVars, wpVars>>)
Retention == On("retention", RetentionNext, <<scVars, tlVars, spVars, rsVars, wpVars>>)
PressureStep == On("pressure", PressureNext, <<scVars, tlVars, srVars, rsVars, wpVars>>)
ResetStep == On("reset", ResetNext, <<scVars, tlVars, srVars, spVars, wpVars>>)
WalletStep == On("wallet", ProofNext, storageVars)

JobsInit ==
    /\ CompactionInit /\ LifecycleInit /\ RetentionInit /\ PressureInit /\ ResetInit
    /\ ProofInit
    /\ focus \in {"compaction", "lifecycle", "retention", "pressure", "reset", "wallet"}
    /\ focus # "compaction" => obs = One(SomeRows) /\ snaps = {0}
    /\ focus # "retention" =>
        funnel = One({f \in Reports : f.complete /\ f.robust # {} /\ f.robust = f.positive})
    /\ focus # "pressure" => size.db = 1 /\ size.other = 0 /\ ~capturing /\ readable
JobsNext ==
    \/ Compaction \/ Lifecycle \/ Retention \/ PressureStep \/ ResetStep
    \/ WalletStep
JobsSpec == JobsInit /\ [][JobsNext]_jobsVars
=============================================================================
