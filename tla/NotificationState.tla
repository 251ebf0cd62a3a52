-------------------------- MODULE NotificationState --------------------------
(***************************************************************************)
(* The durable state of the notification executor (DiskState and its       *)
(* mutators in notification-state.ts) and the identities by which one      *)
(* source event is recognised across ingress surfaces                      *)
(* (source-event-dedupe.ts).  Every mutator of the class rewrites the      *)
(* whole file by rename before it returns, so memory and disk agree        *)
(* between any two mutator calls: one record stands for both, and a        *)
(* mutator is a function from the record before it to the record after.    *)
(***************************************************************************)
EXTENDS Naturals, Sequences

CONSTANTS
    Source,   \* sourceBaseId: one per trade of a followed trader
    Surface,  \* what produced a signal: a feed surface or direct watching
    Moment,   \* sourceTimeMs (for an increase: with the resulting source size)
    Signals,  \* the signals the surfaces may deliver
    MaxSize,  \* largest copy size (the risk cap), in units of the smallest fill
    MaxSeen,  \* bound of the persisted windows, 20000 in the service
    None

Actions == {"open", "increase", "close"}

(***************************************************************************)
(* The part of InvoSignal that the lifecycle tells apart.  moment = None   *)
(* stands for sourceTimeMs = null.  Two surfaces that report one source    *)
(* event produce signals that differ only in surface, and so in key.       *)
(***************************************************************************)
Signal == [base : Source, action : Actions, moment : Moment \cup {None}, surface : Surface]

ASSUME SignalsAssumption == Signals \subseteq Signal
ASSUME BoundsAssumption == MaxSize \in Nat \ {0} /\ MaxSeen \in Nat \ {0}
ASSUME NoneAssumption ==
    None \notin Source /\ None \notin Surface /\ None \notin Moment /\ None \notin Signals
ASSUME NoneIsNoPosition == None \notin [size : 1..MaxSize, pending : Signals \cup {None}]

-----------------------------------------------------------------------------
(* Dedupe keys. *)

SignalKey(s) == [kind |-> "signal", base |-> s.base, action |-> s.action,
                 moment |-> s.moment, surface |-> s.surface]

(* sourceEventKey: shared by all surfaces; null without a source time. *)
EventKey(s) == [kind |-> "event", base |-> s.base, action |-> s.action,
                moment |-> s.moment, surface |-> None]

(* closeLifecycleKey: one per source, whatever the close's time. *)
LifecycleKey(b) == [kind |-> "lifecycle", base |-> b, action |-> "close",
                    moment |-> None, surface |-> None]

DedupeKey == [kind : {"signal", "event", "lifecycle"}, base : Source, action : Actions,
              moment : Moment \cup {None}, surface : Surface \cup {None}]

-----------------------------------------------------------------------------
(***************************************************************************)
(* ManagedPosition: the copy of one source trade.  pending is              *)
(* pendingSourceClose: the close of the source that could not (or only in  *)
(* part) be executed and must be retried.                                  *)
(***************************************************************************)
Position == [size : 1..MaxSize, pending : Signals \cup {None}]

Disk == [seen         : Seq(DedupeKey),
         managed      : [Source -> Position \cup {None}],
         observedOpen : Seq(Source),
         handledClose : Seq(Source)]

EmptyDisk == [seen         |-> <<>>,
              managed      |-> [b \in Source |-> None],
              observedOpen |-> <<>>,
              handledClose |-> <<>>]

(***************************************************************************)
(* The bounded windows: a value already present is not moved; a new one is *)
(* pushed at the end and the oldest is shifted out beyond the bound.       *)
(***************************************************************************)
Members(window) == {window[i] : i \in DOMAIN window}
Holds(window, x) == x \in Members(window)

Push(window, x) ==
    IF Holds(window, x) THEN window
    ELSE IF Len(window) < MaxSeen THEN Append(window, x)
    ELSE Append(Tail(window), x)

MarkSeen(d, key) == [d EXCEPT !.seen = Push(@, key)]
MarkObservedOpen(d, b) == [d EXCEPT !.observedOpen = Push(@, b)]
MarkHandledClose(d, b) == [d EXCEPT !.handledClose = Push(@, b)]
SetManaged(d, b, position) == [d EXCEPT !.managed[b] = position]
ClearManaged(d, b) == SetManaged(d, b, None)

(***************************************************************************)
(* parseDiskState: a restart adds to the handled closes the sources whose  *)
(* lifecycle key is among the seen ones, and keeps the newest.  The code   *)
(* adds them in the order of seen; any order is allowed here.              *)
(***************************************************************************)
Recovered(d) ==
    {b \in Source : Holds(d.seen, LifecycleKey(b)) /\ ~ Holds(d.handledClose, b)}

Orders(bases, bound) ==
    {order \in UNION {[1..n -> bases] : n \in 0..bound} :
        /\ Members(order) = bases
        /\ \A i, j \in DOMAIN order : order[i] = order[j] => i = j}

Newest(window) ==
    IF Len(window) <= MaxSeen THEN window
    ELSE SubSeq(window, Len(window) - MaxSeen + 1, Len(window))

Loads(d) ==
    {[d EXCEPT !.handledClose = Newest(@ \o order)] : order \in Orders(Recovered(d), Len(d.seen))}

-----------------------------------------------------------------------------
(* closedLifecycleWasHandled, as signalWasSeen calls it. *)
ClosedLifecycleWasHandled(d, s) ==
    /\ s.action = "close"
    /\ \/ s.moment # None /\ Holds(d.seen, EventKey(s))
       \/ Holds(d.seen, LifecycleKey(s.base))

(* signalWasSeen. *)
SignalWasSeen(d, s) ==
    \/ Holds(d.seen, SignalKey(s))
    \/ s.moment # None /\ Holds(d.seen, EventKey(s))
    \/ ClosedLifecycleWasHandled(d, s)

=============================================================================
