--------------------------- MODULE ShadowLifecycle ---------------------------
(***************************************************************************)
(* The life of a paper copy of a source trade: executeUnlocked, shadowOpen *)
(* and shadowReup of service.ts, in shadow mode.                           *)
(*                                                                         *)
(* A signal may be delivered at any time, by any surface, any number of    *)
(* times.  Calls for one source are served one at a time in arrival order  *)
(* (proved of run() in ShadowLifecycleProofs): calls[b] is that            *)
(* queue and its head is the call being served.  A call runs without       *)
(* interruption up to its await on market data; op[b] is what it holds     *)
(* across the await.  The continuation after the await is one action.      *)
(*                                                                         *)
(* The continuation may write the state file several times.  The process   *)
(* may be killed between two of these writes, so every action that makes   *)
(* more than one write may also end in a torn crash after some of them.    *)
(*                                                                         *)
(* Left to other modules: funding evidence and the waits for it; the feed  *)
(* cursor.  Left out: prices, fees and logs; the age of a signal and the   *)
(* elite admission decide nondeterministically.  Keys written by releases  *)
(* before action-aware identities (legacySourceEventKey) do not occur.     *)
(***************************************************************************)
EXTENDS NotificationState

CONSTANTS
    MaxCalls,   \* bound on the waiting deliveries of one source
    MaxCrashes  \* bound on the crashes of a behaviour

ASSUME CallBoundsAssumption == MaxCalls \in Nat /\ MaxCrashes \in Nat

VARIABLES
    disk,     \* the durable state, equal to the memory of NotificationState
    calls,    \* per source: the calls of execute(), the served one first
    op,       \* per source: the await the served call is in, with what it captured
    cooling,  \* sources whose sourceCloseNextRetryAtMs is in the future
    crashes,  \* how often the process was killed
    lapsed,   \* history: sources of which a key or a half-done call was lost
    applied,  \* history: how often each source event changed a position
    entries   \* history: how often each source was entered

vars == <<disk, calls, op, cooling, crashes, lapsed, applied, entries>>

Idle == [stage |-> "none", held |-> None]
Ops == [stage : {"none", "open", "reup", "close"}, held : Position \cup {None}]

Events == {EventKey(s) : s \in Signals}

Init ==
    /\ disk = EmptyDisk
    /\ calls = [b \in Source |-> <<>>]
    /\ op = [b \in Source |-> Idle]
    /\ cooling = {}
    /\ crashes = 0
    /\ lapsed = {}
    /\ applied = [e \in Events |-> 0]
    /\ entries = [b \in Source |-> 0]

-----------------------------------------------------------------------------
(* Writing and returning. *)

(* The sources of which a window forgot something between d and e. *)
Forgotten(d, e) ==
    {b \in Source :
        \/ \E k \in Members(d.seen) : k.base = b /\ ~ Holds(e.seen, k)
        \/ Holds(d.handledClose, b) /\ ~ Holds(e.handledClose, b)}

(* The served call of b returns, leaving d on disk. *)
Return(b, d) ==
    /\ disk' = d
    /\ calls' = [calls EXCEPT ![b] = Tail(@)]
    /\ op' = [op EXCEPT ![b] = Idle]
    /\ lapsed' = lapsed \cup Forgotten(disk, d)
    /\ UNCHANGED crashes

(* The process is killed and restarted: memory is lost, d is loaded from disk. *)
Restart(d) ==
    /\ crashes < MaxCrashes
    /\ crashes' = crashes + 1
    /\ disk' \in Loads(d)
    /\ calls' = [b \in Source |-> <<>>]
    /\ op' = [b \in Source |-> Idle]

(***************************************************************************)
(* Writes made one after the other: the call of b returns after the last   *)
(* one, or is killed after an earlier one.  The source lapses unless what  *)
(* is loaded is what the last write would have left.                       *)
(***************************************************************************)
WriteAll(b, last, earlier) ==
    \/ Return(b, last)
    \/ \E d \in earlier \ {disk, last} :
          /\ Restart(d)
          /\ lapsed' = lapsed \cup Forgotten(disk, disk') \cup (IF disk' = last THEN {} ELSE {b})

(***************************************************************************)
(* The end of a call that is terminal for its signal s: markSeen(s.key) in *)
(* the branch that decided it, then the finally block of executeUnlocked.  *)
(* d is the state after the branch's own writes.                           *)
(***************************************************************************)
MarkKey(d, s) == MarkSeen(d, SignalKey(s))

(* Mutant: only the surface's own key is marked. *)
MarkEventBySurface(d, s) == MarkKey(d, s)

MarkEvent(d, s) ==
    IF s.moment = None THEN MarkKey(d, s) ELSE MarkSeen(MarkKey(d, s), EventKey(s))

MarkLifecycle(d, s) ==
    IF s.action = "close" THEN MarkSeen(MarkEvent(d, s), LifecycleKey(s.base))
    ELSE MarkEvent(d, s)

MarkTerminal(d, s) ==
    IF s.action = "close" THEN MarkHandledClose(MarkLifecycle(d, s), s.base)
    ELSE MarkLifecycle(d, s)

Terminate(b, s, d) ==
    WriteAll(b, MarkTerminal(d, s), {d, MarkKey(d, s), MarkEvent(d, s), MarkLifecycle(d, s)})

-----------------------------------------------------------------------------
(* Arrival of calls. *)

(***************************************************************************)
(* A surface delivers a signal: execute() queues behind earlier calls.     *)
(***************************************************************************)
Deliver(s) ==
    /\ Len(calls[s.base]) < MaxCalls
    /\ calls' = [calls EXCEPT ![s.base] = Append(@, s)]
    /\ UNCHANGED <<disk, op, cooling, crashes, lapsed, applied, entries>>

(* Mutant: pending closes are kept in memory only, so not retried after a restart. *)
RetryPendingOnce(b) ==
    LET position == disk.managed[b] IN
    /\ position # None
    /\ position.pending # None
    /\ crashes = 0
    /\ ~ Holds(calls[b], position.pending)
    /\ calls' = [calls EXCEPT ![b] = Append(@, position.pending)]
    /\ UNCHANGED <<disk, op, cooling, crashes, lapsed, applied, entries>>

(***************************************************************************)
(* Every wake begins by executing each pendingSourceClose again.           *)
(***************************************************************************)
RetryPending(b) ==
    LET position == disk.managed[b] IN
    /\ position # None
    /\ position.pending # None
    /\ ~ Holds(calls[b], position.pending)
    /\ calls' = [calls EXCEPT ![b] = Append(@, position.pending)]
    /\ UNCHANGED <<disk, op, cooling, crashes, lapsed, applied, entries>>

(* The clock passes sourceCloseNextRetryAtMs. *)
RetryDue(b) ==
    /\ b \in cooling
    /\ cooling' = cooling \ {b}
    /\ UNCHANGED <<disk, calls, op, crashes, lapsed, applied, entries>>

(* The process is killed while no continuation is running. *)
Crash ==
    /\ Restart(disk)
    /\ lapsed' = lapsed \cup Forgotten(disk, disk')
    /\ UNCHANGED <<cooling, applied, entries>>

-----------------------------------------------------------------------------
(* The synchronous part of executeUnlocked, up to the first await. *)

Begins(b, s) ==
    /\ calls[b] # <<>>
    /\ s = Head(calls[b])
    /\ op[b] = Idle

(***************************************************************************)
(* Already handled, perhaps through another surface: this surface's key is *)
(* persisted too, and a close also marks the source as closed.             *)
(***************************************************************************)
SkipSeen(b, s) ==
    /\ Begins(b, s)
    /\ SignalWasSeen(disk, s)
    /\ LET marked == MarkKey(disk, s) IN
       WriteAll(b, IF s.action = "close" THEN MarkHandledClose(marked, b) ELSE marked, {marked})
    /\ UNCHANGED <<cooling, applied, entries>>

IsEntry(b, s) ==
    /\ Begins(b, s)
    /\ ~ SignalWasSeen(disk, s)
    /\ s.action # "close"

(* lifecycle_already_closed *)
SkipClosedLifecycle(b, s) ==
    /\ IsEntry(b, s)
    /\ Holds(disk.handledClose, b)
    /\ Terminate(b, s, disk)
    /\ UNCHANGED <<cooling, applied, entries>>

(* Too old, an unusable source time, or a denial that is persisted. *)
RejectEntry(b, s) ==
    /\ IsEntry(b, s)
    /\ ~ Holds(disk.handledClose, b)
    /\ Terminate(b, s, disk)
    /\ UNCHANGED <<cooling, applied, entries>>

(* Mutant: handledCloseBaseIds is not consulted. *)
AdmissibleAnytime(b, s) ==
    /\ IsEntry(b, s)
    /\ s.moment # None

Admissible(b, s) ==
    /\ IsEntry(b, s)
    /\ ~ Holds(disk.handledClose, b)
    /\ s.moment # None

(* A retryable denial leaves the signal unseen. *)
DeferEntry(b, s) ==
    /\ Admissible(b, s)
    /\ Return(b, disk)
    /\ UNCHANGED <<cooling, applied, entries>>

(***************************************************************************)
(* Admitted, and decided without an await: an open of a source that is     *)
(* already managed, or an increase that does not fit the position (other   *)
(* side or coin, legacy evidence).                                         *)
(***************************************************************************)
SkipManaged(b, s) ==
    /\ Admissible(b, s)
    /\ disk.managed[b] # None
    /\ Terminate(b, s, MarkObservedOpen(disk, b))
    /\ UNCHANGED <<cooling, applied, entries>>

(* The served call of b goes into an await, having written d. *)
Await(b, stage, d) ==
    /\ disk' = d
    /\ op' = [op EXCEPT ![b] = [stage |-> stage, held |-> disk.managed[b]]]
    /\ UNCHANGED <<calls, cooling, crashes, lapsed, applied, entries>>

(* shadowOpen, also for an increase of a source that is not managed. *)
BeginOpen(b, s) ==
    /\ Admissible(b, s)
    /\ disk.managed[b] = None
    /\ Await(b, "open", MarkObservedOpen(disk, b))

BeginReup(b, s) ==
    /\ Admissible(b, s)
    /\ s.action = "increase"
    /\ disk.managed[b] # None
    /\ Await(b, "reup", MarkObservedOpen(disk, b))

IsClose(b, s) ==
    /\ Begins(b, s)
    /\ ~ SignalWasSeen(disk, s)
    /\ s.action = "close"

(* A close without exposure is evidence only, and terminal. *)
SkipUnownedClose(b, s) ==
    /\ IsClose(b, s)
    /\ disk.managed[b] = None
    /\ Terminate(b, s, disk)
    /\ UNCHANGED <<cooling, applied, entries>>

(* Not yet time to retry: nothing is recorded. *)
PostponeClose(b, s) ==
    /\ IsClose(b, s)
    /\ disk.managed[b] # None
    /\ b \in cooling
    /\ Return(b, disk)
    /\ UNCHANGED <<cooling, applied, entries>>

BeginClose(b, s) ==
    /\ IsClose(b, s)
    /\ disk.managed[b] # None
    /\ b \notin cooling
    /\ Await(b, "close", disk)

-----------------------------------------------------------------------------
(* The continuations after the await. *)

Continues(b, s, stage) ==
    /\ op[b].stage = stage
    /\ s = Head(calls[b])

(* execution_error: nothing is recorded, the signal stays unseen. *)
Throw(b, s) ==
    /\ \E stage \in {"open", "reup", "close"} : Continues(b, s, stage)
    /\ Return(b, disk)
    /\ UNCHANGED <<cooling, applied, entries>>

(* Unknown asset, leverage, missing or unusable book, exhausted risk budget. *)
EntrySkips(b, s) ==
    /\ \E stage \in {"open", "reup"} : Continues(b, s, stage)
    /\ Terminate(b, s, disk)
    /\ UNCHANGED <<cooling, applied, entries>>

(* The history counts stop at 2: more than once is all they tell. *)
Bump(n) == IF n < 2 THEN n + 1 ELSE n

CountApplied(s) == applied' = [applied EXCEPT ![EventKey(s)] = Bump(@)]

OpenFills(b, s) ==
    /\ Continues(b, s, "open")
    /\ \E size \in 1..MaxSize :
          Terminate(b, s, SetManaged(disk, b, [size |-> size, pending |-> None]))
    /\ CountApplied(s)
    /\ entries' = [entries EXCEPT ![b] = Bump(@)]
    /\ UNCHANGED cooling

(* Mutant: the re-up rebuilds the position and drops pendingSourceClose. *)
GrownAnew(position, add) == [size |-> position.size + add, pending |-> None]

(***************************************************************************)
(* The position written is the captured one with a larger size: what the   *)
(* fill adds is capped by what is left of the position's risk budget.      *)
(***************************************************************************)
Grown(position, add) == [position EXCEPT !.size = position.size + add]

ReupFills(b, s) ==
    /\ Continues(b, s, "reup")
    /\ \E add \in 1..(MaxSize - op[b].held.size) :
          Terminate(b, s, SetManaged(disk, b, Grown(op[b].held, add)))
    /\ CountApplied(s)
    /\ UNCHANGED <<cooling, entries>>

(* A close that leaves exposure: remembered on the position, retried later. *)
Unresolved(position, size, s) == [position EXCEPT !.size = size, !.pending = s]

LeaveUnresolved(b, s, size) ==
    /\ Return(b, SetManaged(disk, b, Unresolved(op[b].held, size, s)))
    /\ cooling' = cooling \cup {b}
    /\ UNCHANGED <<applied, entries>>

(* No book, or no executable depth. *)
CloseRejected(b, s) ==
    /\ Continues(b, s, "close")
    /\ LeaveUnresolved(b, s, op[b].held.size)

(* partial_depth *)
ClosePartial(b, s) ==
    /\ Continues(b, s, "close")
    /\ \E left \in 1..(op[b].held.size - 1) : LeaveUnresolved(b, s, left)

(* Filled, or what is left is dust that can never be executed. *)
CloseResolves(b, s) ==
    /\ Continues(b, s, "close")
    /\ Terminate(b, s, ClearManaged(disk, b))
    /\ cooling' = cooling \ {b}
    /\ UNCHANGED <<applied, entries>>

-----------------------------------------------------------------------------
Begin(b, s) ==
    \/ SkipSeen(b, s)
    \/ SkipClosedLifecycle(b, s)
    \/ RejectEntry(b, s)
    \/ DeferEntry(b, s)
    \/ SkipManaged(b, s)
    \/ BeginOpen(b, s)
    \/ BeginReup(b, s)
    \/ SkipUnownedClose(b, s)
    \/ PostponeClose(b, s)
    \/ BeginClose(b, s)

Continue(b, s) ==
    \/ Throw(b, s)
    \/ EntrySkips(b, s)
    \/ OpenFills(b, s)
    \/ ReupFills(b, s)
    \/ CloseRejected(b, s)
    \/ ClosePartial(b, s)
    \/ CloseResolves(b, s)

Next ==
    \/ \E s \in Signals : Deliver(s)
    \/ \E b \in Source : RetryPending(b)
    \/ \E b \in Source : RetryDue(b)
    \/ \E b \in Source, s \in Signals : Begin(b, s)
    \/ \E b \in Source, s \in Signals : Continue(b, s)
    \/ Crash

Spec == Init /\ [][Next]_vars

(***************************************************************************)
(* The event loop serves the calls that wait and every await returns (HTTP *)
(* requests have timeouts), the clock moves, and each wake retries pending *)
(* closes.  Over infinitely many attempts the market offers an executable  *)
(* book, so an attempt that is made for ever succeeds some time: strong    *)
(* fairness of CloseResolves is an assumption about the market.            *)
(***************************************************************************)
Serve(b) == \E s \in Signals : Begin(b, s) \/ Continue(b, s)

Fairness ==
    \A b \in Source :
        /\ WF_vars(Serve(b))
        /\ WF_vars(RetryPending(b))
        /\ WF_vars(RetryDue(b))
        /\ SF_vars(\E s \in Signals : CloseResolves(b, s))

FairSpec == Spec /\ Fairness

-----------------------------------------------------------------------------
(* Type invariant. *)
TypeOK ==
    /\ disk \in Disk
    /\ calls \in [Source -> Seq(Signals)]
    /\ op \in [Source -> Ops]
    /\ cooling \subseteq Source
    /\ crashes \in Nat
    /\ lapsed \subseteq Source
    /\ applied \in [Events -> Nat]
    /\ entries \in [Source -> Nat]

(***************************************************************************)
(* What an await captured is still what the state holds when it returns:   *)
(* the position a re-up or a close writes back after its awaits overwrites *)
(* nothing, and an open never overwrites a position.  managed is read      *)
(* before fetchAssetBook and getAccountEquity and spread into setManaged   *)
(* after them; only the queue of calls protects it.                        *)
(***************************************************************************)
CapturedIsCurrent ==
    \A b \in Source : op[b] # Idle => op[b].held = disk.managed[b]

(* Some close of b is recorded as handled. *)
CloseHandled(b) ==
    \/ Holds(disk.handledClose, b)
    \/ \E s \in Signals : s.base = b /\ s.action = "close" /\ SignalWasSeen(disk, s)

(***************************************************************************)
(* A close is recorded as handled only when no exposure is left, and from  *)
(* then on no delayed open or increase, whatever its surface, makes        *)
(* exposure again; unless a crash tore the call that handled it or a       *)
(* window forgot it.                                                       *)
(***************************************************************************)
ClosedStaysFlat ==
    \A b \in Source \ lapsed :
        CloseHandled(b) => disk.managed[b] = None /\ op[b].stage # "open"

(***************************************************************************)
(* One source event changes a position at most once, however many surfaces *)
(* deliver it and however often; and one source trade is entered at most   *)
(* once ("no duplicate entry").                                            *)
(***************************************************************************)
AppliedOnce ==
    \A e \in Events : e.base \notin lapsed => applied[e] <= 1

EnteredOnce ==
    \A b \in Source \ lapsed : entries[b] <= 1

(***************************************************************************)
(* A position whose source has closed stays marked for retry until it is   *)
(* closed: no later call, crash or restart drops pendingSourceClose while  *)
(* exposure is left.                                                       *)
(***************************************************************************)
IsUnresolved(position) == position # None /\ position.pending # None

UnresolvedUntilClosed ==
    [][\A b \in Source :
          IsUnresolved(disk.managed[b])
              => disk.managed'[b] = None \/ IsUnresolved(disk.managed'[b])]_vars

(***************************************************************************)
(* Unresolved exposure is closed in the end, across crashes, cooldowns and *)
(* calls of other surfaces that come between.                              *)
(***************************************************************************)
UnresolvedIsClosed ==
    \A b \in Source : IsUnresolved(disk.managed[b]) ~> disk.managed[b] = None

-----------------------------------------------------------------------------
(* The phase of the copy of b, as CopyLifecycle sees it. *)
PhaseOf(b) ==
    IF b \in lapsed THEN "lapsed"
    ELSE IF IsUnresolved(disk.managed[b]) THEN "unresolved"
    ELSE IF disk.managed[b] # None THEN "held"
    ELSE IF CloseHandled(b) THEN "closed"
    ELSE "none"

Copy == INSTANCE CopyLifecycle WITH phase <- [b \in Source |-> PhaseOf(b)]

(***************************************************************************)
(* The executor, with its surfaces, retries, crashes and bounded windows,  *)
(* implements the lifecycle of a copy that only moves forward.             *)
(***************************************************************************)
ImplementsCopyLifecycle == Copy!Spec

=============================================================================
