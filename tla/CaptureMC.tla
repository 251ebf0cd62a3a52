------------------------------- MODULE CaptureMC -------------------------------
(***************************************************************************)
(* The capture programs that share no state: a behaviour is one of one of  *)
(* them, named by focus, while the others stay where they begin.           *)
(***************************************************************************)
EXTENDS MarketTape, WalletShadow, WideLane

VARIABLE focus

captureVars == <<mtVars, wsVars, wlVars, focus>>

On(f, A, others) == focus = f /\ A /\ UNCHANGED <<others, focus>>
notTape == <<wsVars, wlVars>>
notWallets == <<mtVars, wlVars>>
notWide == <<mtVars, wsVars>>

TapeStep == On("tape", MarketNext, notTape)
WalletStep == On("wallets", ShadowNext, notWallets)
WideStep == On("wide", WideNext, notWide)

CaptureInit == MarketInit /\ ShadowInit /\ WideInit /\ focus \in {"tape", "wallets", "wide"}
CaptureNext == TapeStep \/ WalletStep \/ WideStep
CaptureSpec ==
    /\ CaptureInit /\ [][CaptureNext]_captureVars
    /\ WF_captureVars(On("tape", WriterStep, notTape)) /\ WF_captureVars(On("tape", CloseStep, notTape))
    /\ WF_captureVars(On("wallets", Connect, notWallets)) /\ WF_captureVars(On("wallets", SyncStep, notWallets))
    /\ WF_captureVars(On("wide", EnricherStep, notWide)) /\ WF_captureVars(On("wide", LineIsWhole, notWide))

\* Where the wallet collector runs, its subscriptions come to follow the registry.
WalletsFollowed == focus = "wallets" => SubscriptionsFollow
\* Where the wide lane runs, the enricher gets to the end of what was written.
EveryLineReached == focus = "wide" => LinesCatchUp

\* Capture goes on: a cancelled one ends, subscriptions follow the registry, and
\* the enricher gets to the end of what was written.
CaptureProgress == CloseEnds /\ WalletsFollowed /\ EveryLineReached
=============================================================================
