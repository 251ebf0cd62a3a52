------------------------- MODULE DirectWatchBudgetMC -------------------------
(***************************************************************************)
(* Direct watching and the request budget it and the feed draw on.  The    *)
(* watch asks for requests whenever it likes, so the two are checked side  *)
(* by side: focus names the one that moves.                                *)
(***************************************************************************)
EXTENDS DirectWatch, RequestBudget

VARIABLE focus

watchVars == <<vars, budgetVars, focus>>

On(f, A, others) == focus = f /\ A /\ UNCHANGED <<others, focus>>
WatchStep == On("watch", Next, budgetVars)
BudgetStep == On("budget", BudgetNext, vars)

WatchInit ==
    /\ Init /\ BudgetInit /\ focus \in {"watch", "budget"}
    /\ focus # "watch" => candidate.elite
WatchNext == WatchStep \/ BudgetStep
WatchSpec == WatchInit /\ [][WatchNext]_watchVars
=============================================================================
