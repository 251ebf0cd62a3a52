------------------------------- MODULE ServiceMC -------------------------------
(***************************************************************************)
(* The parts of the notification executor that are checked on their own:   *)
(* the queue of a source and the life of a shadow position.  A behaviour   *)
(* is one of one of them, named by focus, while the other stays where it   *)
(* begins.                                                                 *)
(***************************************************************************)
EXTENDS SourceLifecycleQueue, ShadowLifecycle

CONSTANTS b1, feed, direct

Sig(b, action, moment, surface) ==
    [base |-> b, action |-> action, moment |-> moment, surface |-> surface]

(***************************************************************************)
(* One trade: increase and close are reported by both surfaces, the close  *)
(* at times of their own, as source-event-dedupe.ts allows; the open may   *)
(* come at any time, so after either close, too.                           *)
(***************************************************************************)
OneTrade ==
    {Sig(b1, "open", 1, feed),
     Sig(b1, "increase", 2, feed), Sig(b1, "increase", 2, direct),
     Sig(b1, "close", 3, feed), Sig(b1, "close", 4, direct)}

VARIABLE focus

serviceVars == <<queueVars, vars, focus>>

On(f, A, others) == focus = f /\ A /\ UNCHANGED <<others, focus>>

QueueStep == On("queue", QueueNext, vars)
ShadowStep == On("shadow", Next, queueVars)

\* A call can do one of these at a time, until it does it: fairness of them
\* together is that of each.
Turn(c) == Start(c) \/ Release(c) \/ Settle(c)

ServiceInit == QueueInit /\ Init /\ focus \in {"queue", "shadow"}
ServiceNext == QueueStep \/ ShadowStep
ServiceSpec ==
    /\ ServiceInit /\ [][ServiceNext]_serviceVars
    /\ \A c \in Call : WF_serviceVars(On("queue", Turn(c), vars))
    /\ \A b \in Source : /\ WF_serviceVars(On("shadow", Serve(b), queueVars))
                         /\ WF_serviceVars(On("shadow", RetryPending(b), queueVars))
                         /\ WF_serviceVars(On("shadow", RetryDue(b), queueVars))
                         /\ SF_serviceVars(On("shadow", \E s \in Signals : CloseResolves(b, s), queueVars))

\* Every call that came is served in its turn, and exposure whose close was seen
\* and could not be executed yet is closed in the end.
ServiceProgress == EveryCallRuns /\ UnresolvedIsClosed
=============================================================================
