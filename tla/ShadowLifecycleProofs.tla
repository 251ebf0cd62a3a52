------------------------ MODULE ShadowLifecycleProofs ------------------------
(***************************************************************************)
(* Proofs about SourceLifecycleQueue, for any calls and sources, and about *)
(* ShadowLifecycle, which rests on it, for any sources, surfaces, signals  *)
(* and bounds.                                                             *)
(***************************************************************************)
EXTENDS SourceLifecycleQueue, ShadowLifecycle, TLAPS

-----------------------------------------------------------------------------
(* The queue of a source: mutual exclusion and arrival order, for any      *)
(* number of calls and sources.  Its inductive invariant.                  *)

Before(c, d) == source[c] = source[d] /\ ticket[c] < ticket[d]

ArrivalsNumbered ==
    /\ \A c \in Call : pc[c] # "idle" => source[c] \in Base /\ ticket[c] < arrivals
    /\ \A c, d \in Call :
          (pc[c] # "idle" /\ pc[d] # "idle" /\ ticket[c] = ticket[d]) => c = d

SettledAreReleased == \A c \in settled : pc[c] = "released"

(* The tail is the latest unfinished arrival of its source. *)
TailIsLatest ==
    \A b \in Base :
        /\ tails[b] # NoPromise =>
              /\ Unfinished(tails[b])
              /\ source[tails[b]] = b
              /\ \A d \in Call :
                    (Unfinished(d) /\ source[d] = b) => ticket[d] <= ticket[tails[b]]
        /\ tails[b] = NoPromise => \A d \in Call : source[d] = b => ~ Unfinished(d)

(* A waiting call's prior is its immediate predecessor among the unfinished. *)
PriorIsPredecessor ==
    \A c \in Call : pc[c] = "waiting" =>
        /\ prior[c] = NoPromise => \A d \in Call : Before(d, c) => ~ Unfinished(d)
        /\ prior[c] # NoPromise =>
              /\ pc[prior[c]] # "idle"
              /\ Before(prior[c], c)
              /\ \A d \in Call : (Before(d, c) /\ Unfinished(d)) => ticket[d] <= ticket[prior[c]]

(* Whoever has started has nobody unfinished before it. *)
StartedInOrder ==
    \A c, d \in Call :
        (pc[c] \in {"running", "released"} /\ Unfinished(d) /\ c # d /\ source[c] = source[d])
            => ticket[c] < ticket[d]

QueueInv ==
    /\ QueueTypeOK
    /\ ArrivalsNumbered
    /\ SettledAreReleased
    /\ TailIsLatest
    /\ PriorIsPredecessor
    /\ StartedInOrder

-----------------------------------------------------------------------------
LEMMA InitQueueInv == QueueInit => QueueInv
BY NoneIsFresh DEF QueueInit, QueueInv, QueueTypeOK, ArrivalsNumbered, SettledAreReleased, TailIsLatest,
   PriorIsPredecessor, StartedInOrder, Unfinished, Before

(* Reading the old tail and installing the new one keeps the chain. *)
LEMMA RunKeepsQueue ==
    ASSUME QueueInv, NEW c \in Call, NEW b \in Base, Run(c, b)
    PROVE  QueueInv'
<1> USE NoneIsFresh DEF QueueInv, Unfinished
<1>1. QueueTypeOK'
    BY DEF QueueTypeOK, Run
<1>2. ArrivalsNumbered'
    BY DEF QueueTypeOK, Run, ArrivalsNumbered
<1>3. SettledAreReleased'
    BY DEF QueueTypeOK, Run, SettledAreReleased
<1>4. TailIsLatest'
    BY DEF QueueTypeOK, Run, TailIsLatest, ArrivalsNumbered
<1>5. PriorIsPredecessor'
    BY DEF QueueTypeOK, Run, TailIsLatest, ArrivalsNumbered, PriorIsPredecessor, Before
<1>6. StartedInOrder'
    BY DEF QueueTypeOK, Run, ArrivalsNumbered, StartedInOrder
<1> QED BY <1>1, <1>2, <1>3, <1>4, <1>5, <1>6

(* A call starts only behind a settled chain, so nobody unfinished precedes it. *)
LEMMA StartKeepsQueue ==
    ASSUME QueueInv, NEW c \in Call, Start(c)
    PROVE  QueueInv'
<1> USE NoneIsFresh DEF QueueInv, Unfinished
<1>1. QueueTypeOK'
    BY DEF QueueTypeOK, Start
<1>2. ArrivalsNumbered' /\ SettledAreReleased'
    BY DEF QueueTypeOK, Start, ArrivalsNumbered, SettledAreReleased
<1>3. TailIsLatest'
    BY DEF QueueTypeOK, Start, TailIsLatest
<1>4. PriorIsPredecessor'
    BY DEF QueueTypeOK, Start, PriorIsPredecessor, Before
<1>5. \A d \in Call : (Unfinished(d) /\ c # d /\ source[c] = source[d]) => ticket[c] < ticket[d]
    BY DEF QueueTypeOK, Start, PriorSettled, ArrivalsNumbered, SettledAreReleased,
       PriorIsPredecessor, StartedInOrder, Before
<1>6. StartedInOrder'
    BY <1>5 DEF QueueTypeOK, Start, StartedInOrder
<1> QED BY <1>1, <1>2, <1>3, <1>4, <1>6

(* The tails entry is dropped only when no later call waits behind it. *)
LEMMA ReleaseKeepsQueue ==
    ASSUME QueueInv, NEW c \in Call, Release(c)
    PROVE  QueueInv'
<1> USE NoneIsFresh DEF QueueInv, Unfinished
<1>0. source[c] \in Base /\ source' = source /\ ticket' = ticket
    BY DEF Release, ArrivalsNumbered
<1>1. QueueTypeOK'
    BY <1>0 DEF QueueTypeOK, Release, TailsAfterRelease
<1>2. ArrivalsNumbered' /\ SettledAreReleased'
    BY DEF QueueTypeOK, Release, ArrivalsNumbered, SettledAreReleased
<1>3. TailIsLatest'
    <2>1. CASE tails[source[c]] = c
        BY <1>0, <2>1 DEF QueueTypeOK, Release, TailsAfterRelease, TailIsLatest, StartedInOrder
    <2>2. CASE tails[source[c]] # c
        BY <1>0, <2>2 DEF QueueTypeOK, Release, TailsAfterRelease, TailIsLatest
    <2> QED BY <2>1, <2>2
<1>4. PriorIsPredecessor'
    BY DEF QueueTypeOK, Release, PriorIsPredecessor, Before
<1>5. StartedInOrder'
    BY DEF QueueTypeOK, Release, StartedInOrder
<1> QED BY <1>1, <1>2, <1>3, <1>4, <1>5

LEMMA SettleKeepsQueue ==
    ASSUME QueueInv, NEW c \in Call, Settle(c)
    PROVE  QueueInv'
BY DEF QueueInv, QueueTypeOK, Settle, ArrivalsNumbered, SettledAreReleased, TailIsLatest,
   PriorIsPredecessor, StartedInOrder, Unfinished, Before

LEMMA StutterKeepsQueue == QueueInv /\ UNCHANGED queueVars => QueueInv'
BY DEF QueueInv, queueVars, QueueTypeOK, ArrivalsNumbered, SettledAreReleased, TailIsLatest,
   PriorIsPredecessor, StartedInOrder, Unfinished, Before

LEMMA QueueInvariance == QueueSpec => []QueueInv
<1>1. QueueInv /\ [QueueNext]_queueVars => QueueInv'
    BY RunKeepsQueue, StartKeepsQueue, ReleaseKeepsQueue, SettleKeepsQueue, StutterKeepsQueue DEF QueueNext
<1> QED BY InitQueueInv, <1>1, PTL DEF QueueSpec

-----------------------------------------------------------------------------
(* Every reachable state is well typed. *)
THEOREM QueueTypeCorrect == QueueSpec => []QueueTypeOK
BY QueueInvariance, PTL DEF QueueInv

(***************************************************************************)
(* SourceLifecycleQueue.run never lets two calls of one source work at the *)
(* same time, and serves them in the order they arrived.                   *)
(***************************************************************************)
THEOREM FifoMutualExclusionHolds == QueueSpec => []FifoMutualExclusion
<1>1. QueueInv => FifoMutualExclusion
    BY DEF QueueInv, StartedInOrder, FifoMutualExclusion
<1> QED BY QueueInvariance, <1>1, PTL

(***************************************************************************)
(* The tails map keeps an entry exactly while some call of the source is   *)
(* unfinished, so it neither leaks nor forgets a waiter.                   *)
(***************************************************************************)
THEOREM TailsNameUnfinishedCallsHolds == QueueSpec => []TailsNameUnfinishedCalls
<1>1. QueueInv => TailsNameUnfinishedCalls
    BY DEF QueueInv, TailIsLatest, TailsNameUnfinishedCalls
<1> QED BY QueueInvariance, <1>1, PTL

-----------------------------------------------------------------------------
(* Lemmas about the mutators of the durable state (NotificationState).     *)

(* What a push onto a bounded window keeps, adds and may forget. *)
LEMMA PushMembers ==
    ASSUME NEW T, NEW window \in Seq(T), NEW x \in T
    PROVE  /\ Push(window, x) \in Seq(T)
           /\ x \in Members(Push(window, x))
           /\ Members(Push(window, x)) \subseteq Members(window) \cup {x}
<1>1. CASE Holds(window, x)
    BY <1>1 DEF Push, Holds
<1>2. CASE ~ Holds(window, x) /\ Len(window) < MaxSeen
    <2>1. Push(window, x) = Append(window, x)
        BY <1>2 DEF Push
    <2>2. Append(window, x)[Len(window) + 1] = x /\ Len(window) + 1 \in DOMAIN Append(window, x)
        OBVIOUS
    <2> QED BY <2>1, <2>2 DEF Members
<1>3. CASE ~ Holds(window, x) /\ ~ Len(window) < MaxSeen
    <2>1. Push(window, x) = Append(Tail(window), x)
        BY <1>3 DEF Push
    <2>2. window # <<>> /\ Tail(window) \in Seq(T) /\ Len(Tail(window)) = Len(window) - 1
        BY <1>3, BoundsAssumption
    <2>3. Members(Tail(window)) \subseteq Members(window)
        BY <2>2 DEF Members
    <2>4. Append(Tail(window), x)[Len(window)] = x /\ Len(window) \in DOMAIN Append(Tail(window), x)
        BY <2>2
    <2>5. Members(Append(Tail(window), x)) \subseteq Members(Tail(window)) \cup {x}
        BY <2>2 DEF Members
    <2> QED BY <2>1, <2>2, <2>3, <2>4, <2>5 DEF Members
<1> QED BY <1>1, <1>2, <1>3

LEMMA KeyTypes ==
    ASSUME NEW s \in Signals
    PROVE  /\ s \in Signal
           /\ SignalKey(s) \in DedupeKey
           /\ EventKey(s) \in DedupeKey
           /\ LifecycleKey(s.base) \in DedupeKey
BY SignalsAssumption DEF Signal, SignalKey, EventKey, LifecycleKey, DedupeKey, Actions

(* The mutators keep the state well typed and change one field each. *)
LEMMA MarkSeenFacts ==
    ASSUME NEW d \in Disk, NEW k \in DedupeKey
    PROVE  /\ MarkSeen(d, k) \in Disk
           /\ MarkSeen(d, k).managed = d.managed
           /\ MarkSeen(d, k).handledClose = d.handledClose
           /\ k \in Members(MarkSeen(d, k).seen)
           /\ Members(MarkSeen(d, k).seen) \subseteq Members(d.seen) \cup {k}
<1>1. d.seen \in Seq(DedupeKey)
    BY DEF Disk
<1>2. /\ Push(d.seen, k) \in Seq(DedupeKey)
      /\ k \in Members(Push(d.seen, k))
      /\ Members(Push(d.seen, k)) \subseteq Members(d.seen) \cup {k}
    BY <1>1, PushMembers
<1>3. /\ MarkSeen(d, k) \in Disk
      /\ MarkSeen(d, k).seen = Push(d.seen, k)
      /\ MarkSeen(d, k).managed = d.managed
      /\ MarkSeen(d, k).handledClose = d.handledClose
    BY <1>2 DEF Disk, MarkSeen
<1> QED BY <1>2, <1>3

LEMMA MarkHandledCloseFacts ==
    ASSUME NEW d \in Disk, NEW b \in Source
    PROVE  /\ MarkHandledClose(d, b) \in Disk
           /\ MarkHandledClose(d, b).managed = d.managed
           /\ MarkHandledClose(d, b).seen = d.seen
           /\ b \in Members(MarkHandledClose(d, b).handledClose)
           /\ Members(MarkHandledClose(d, b).handledClose) \subseteq Members(d.handledClose) \cup {b}
<1>1. d.handledClose \in Seq(Source)
    BY DEF Disk
<1>2. /\ Push(d.handledClose, b) \in Seq(Source)
      /\ b \in Members(Push(d.handledClose, b))
      /\ Members(Push(d.handledClose, b)) \subseteq Members(d.handledClose) \cup {b}
    BY <1>1, PushMembers
<1>3. /\ MarkHandledClose(d, b) \in Disk
      /\ MarkHandledClose(d, b).handledClose = Push(d.handledClose, b)
      /\ MarkHandledClose(d, b).managed = d.managed
      /\ MarkHandledClose(d, b).seen = d.seen
    BY <1>2 DEF Disk, MarkHandledClose
<1> QED BY <1>2, <1>3

LEMMA MarkObservedOpenFacts ==
    ASSUME NEW d \in Disk, NEW b \in Source
    PROVE  /\ MarkObservedOpen(d, b) \in Disk
           /\ MarkObservedOpen(d, b).managed = d.managed
           /\ MarkObservedOpen(d, b).seen = d.seen
           /\ MarkObservedOpen(d, b).handledClose = d.handledClose
<1>1. Push(d.observedOpen, b) \in Seq(Source)
    BY PushMembers DEF Disk
<1> QED BY <1>1 DEF Disk, MarkObservedOpen

LEMMA SetManagedFacts ==
    ASSUME NEW d \in Disk, NEW b \in Source, NEW position \in Position \cup {None}
    PROVE  /\ SetManaged(d, b, position) \in Disk
           /\ SetManaged(d, b, position).managed = [d.managed EXCEPT ![b] = position]
           /\ SetManaged(d, b, position).seen = d.seen
           /\ SetManaged(d, b, position).handledClose = d.handledClose
BY DEF Disk, SetManaged

(* The newest elements of a window. *)
LEMMA NewestFacts ==
    ASSUME NEW T, NEW window \in Seq(T)
    PROVE  Newest(window) \in Seq(T) /\ Members(Newest(window)) \subseteq Members(window)
<1>1. CASE Len(window) <= MaxSeen
    BY <1>1 DEF Newest
<1>2. CASE ~ Len(window) <= MaxSeen
    <2> DEFINE first == Len(window) - MaxSeen + 1
    <2>1. MaxSeen \in Nat /\ first \in 1..Len(window)
        BY <1>2, BoundsAssumption
    <2>2. Newest(window) = SubSeq(window, first, Len(window))
        BY <1>2 DEF Newest
    <2>3. /\ SubSeq(window, first, Len(window)) \in Seq(T)
          /\ \A i \in DOMAIN SubSeq(window, first, Len(window)) :
                /\ SubSeq(window, first, Len(window))[i] = window[first + i - 1]
                /\ first + i - 1 \in DOMAIN window
        BY <2>1
    <2> QED BY <2>2, <2>3 DEF Members
<1> QED BY <1>1, <1>2

(* A restart changes only which closes are handled, and adds only those    *)
(* whose lifecycle key was seen.                                           *)
LEMMA LoadFacts ==
    ASSUME NEW d \in Disk, NEW e \in Loads(d)
    PROVE  /\ e \in Disk
           /\ e.managed = d.managed
           /\ e.seen = d.seen
           /\ \A b \in Members(e.handledClose) :
                 b \in Members(d.handledClose) \/ Holds(d.seen, LifecycleKey(b))
<1>1. PICK order \in Orders(Recovered(d), Len(d.seen)) :
          e = [d EXCEPT !.handledClose = Newest(@ \o order)]
    BY DEF Loads
<1>2. order \in Seq(Recovered(d)) /\ Members(order) = Recovered(d)
    <2>1. d.seen \in Seq(DedupeKey)
        BY DEF Disk
    <2> QED BY <1>1, <2>1 DEF Orders
<1>3. order \in Seq(Source) /\ d.handledClose \in Seq(Source)
    <2>1. Recovered(d) \subseteq Source
        BY DEF Recovered
    <2> QED BY <1>2, <2>1 DEF Disk
<1>4. Members(d.handledClose \o order) \subseteq Members(d.handledClose) \cup Members(order)
    BY <1>3 DEF Members
<1>5. /\ Newest(d.handledClose \o order) \in Seq(Source)
      /\ Members(Newest(d.handledClose \o order)) \subseteq Members(d.handledClose \o order)
    <2> DEFINE both == d.handledClose \o order
    <2>1. both \in Seq(Source)
        BY <1>3
    <2> HIDE DEF both
    <2>2. Newest(both) \in Seq(Source) /\ Members(Newest(both)) \subseteq Members(both)
        BY <2>1, NewestFacts
    <2> QED BY <2>2 DEF both
<1>6. /\ e \in Disk
      /\ e.managed = d.managed
      /\ e.seen = d.seen
      /\ e.handledClose = Newest(d.handledClose \o order)
    BY <1>1, <1>5 DEF Disk
<1> QED BY <1>2, <1>4, <1>5, <1>6 DEF Recovered

-----------------------------------------------------------------------------
(***************************************************************************)
(* The inductive invariant.  Shape holds of every source; Good only as     *)
(* long as nothing about the source was forgotten or torn.                 *)
(***************************************************************************)
Shape(b) ==
    /\ \A i \in DOMAIN calls[b] : calls[b][i].base = b
    /\ IsUnresolved(disk.managed[b]) => disk.managed[b].pending.base = b
    /\ op[b] # Idle =>
          /\ calls[b] # <<>>
          /\ op[b].held = disk.managed[b]
    /\ op[b].stage = "open" =>
          disk.managed[b] = None /\ Head(calls[b]).action # "close" /\ Head(calls[b]).moment # None
    /\ op[b].stage = "reup" =>
          disk.managed[b] # None /\ Head(calls[b]).action # "close" /\ Head(calls[b]).moment # None
    /\ op[b].stage = "close" =>
          disk.managed[b] # None /\ Head(calls[b]).action = "close"

CloseKeySeen(b) == \E k \in Members(disk.seen) : k.base = b /\ k.action = "close"

Good(b) ==
    /\ CloseKeySeen(b) => Holds(disk.handledClose, b)
    /\ Holds(disk.handledClose, b) => disk.managed[b] = None /\ op[b].stage # "open"
    /\ \A e \in Events : e.base = b =>
          applied[e] <= 1 /\ (applied[e] # 0 => e \in Members(disk.seen))
    /\ op[b].stage \in {"open", "reup"} => EventKey(Head(calls[b])) \notin Members(disk.seen)
    /\ entries[b] <= 1
    /\ entries[b] # 0 => disk.managed[b] # None \/ Holds(disk.handledClose, b)

IInv ==
    /\ TypeOK
    /\ \A b \in Source : Shape(b) /\ (b \notin lapsed => Good(b))

LEMMA InitIInv == Init => IInv
<1> SUFFICES ASSUME Init PROVE IInv
    OBVIOUS
<1>1. EmptyDisk \in Disk
    BY DEF EmptyDisk, Disk
<1>2. TypeOK
    BY <1>1 DEF Init, TypeOK, Idle, Ops
<1>3. ASSUME NEW b \in Source PROVE Shape(b) /\ Good(b)
    BY DEF Init, Shape, Good, EmptyDisk, Idle, IsUnresolved, CloseKeySeen, Members, Holds, Events
<1> QED BY <1>2, <1>3 DEF IInv

-----------------------------------------------------------------------------
(* What the call of one source leaves alone. *)

Touches(b, d, e) ==
    /\ \A c \in Source : c # b => e.managed[c] = d.managed[c]
    /\ \A k \in Members(e.seen) : k \in Members(d.seen) \/ k.base = b
    /\ \A c \in Members(e.handledClose) :
          c \in Members(d.handledClose) \/ c = b \/ Holds(d.seen, LifecycleKey(c))

HistoryOf(b) ==
    /\ entries' = [entries EXCEPT ![b] = entries'[b]]
    /\ \A e \in Events : e.base # b => applied'[e] = applied[e]

(* The other sources' calls go on, or a crash has ended them. *)
OthersGoOn(b) ==
    \/ /\ calls' = [calls EXCEPT ![b] = calls'[b]]
       /\ op' = [op EXCEPT ![b] = op'[b]]
    \/ /\ calls' = [c \in Source |-> <<>>]
       /\ op' = [c \in Source |-> Idle]

LEMMA LifecycleSeen ==
    ASSUME NEW b \in Source, Holds(disk.seen, LifecycleKey(b)) PROVE CloseKeySeen(b)
BY DEF CloseKeySeen, LifecycleKey, Holds

LEMMA Frame ==
    ASSUME IInv, TypeOK', NEW b \in Source, NEW c \in Source, c # b,
           Touches(b, disk, disk'), HistoryOf(b), OthersGoOn(b),
           lapsed \cup Forgotten(disk, disk') \subseteq lapsed'
    PROVE  Shape(c)' /\ (c \notin lapsed' => Good(c)')
<1>1. Shape(c) /\ (c \notin lapsed => Good(c)) /\ TypeOK
    BY DEF IInv
<1>2. disk'.managed[c] = disk.managed[c]
    BY DEF Touches
<1>3. \/ calls'[c] = calls[c] /\ op'[c] = op[c]
      \/ calls'[c] = <<>> /\ op'[c] = Idle
    BY <1>1 DEF OthersGoOn, TypeOK
<1>4. Shape(c)'
    BY <1>1, <1>2, <1>3 DEF Shape, Idle, IsUnresolved
<1>5. ASSUME c \notin lapsed' PROVE Good(c)'
    <2>1. Good(c) /\ c \notin Forgotten(disk, disk')
        BY <1>1, <1>5
    <2>2. /\ \A k \in Members(disk.seen) : k.base = c => k \in Members(disk'.seen)
          /\ Holds(disk.handledClose, c) <=> Holds(disk'.handledClose, c)
        <3>1. Holds(disk.seen, LifecycleKey(c)) => Holds(disk.handledClose, c)
            BY <2>1, LifecycleSeen DEF Good
        <3> QED BY <2>1, <3>1 DEF Forgotten, Holds, Touches
    <2>3. \A k \in Members(disk'.seen) : k.base = c => k \in Members(disk.seen)
        BY DEF Touches
    <2>4. entries'[c] = entries[c] /\ \A e \in Events : e.base = c => applied'[e] = applied[e]
        BY <1>1 DEF HistoryOf, TypeOK
    <2>5. (CloseKeySeen(c) => Holds(disk.handledClose, c))'
        BY <2>1, <2>2, <2>3 DEF Good, CloseKeySeen
    <2>6. (Holds(disk.handledClose, c) => disk.managed[c] = None /\ op[c].stage # "open")'
        BY <2>1, <2>2, <1>2, <1>3 DEF Good, Idle
    <2>7. (\A e \in Events : e.base = c =>
              applied[e] <= 1 /\ (applied[e] # 0 => e \in Members(disk.seen)))'
        BY <2>1, <2>2, <2>4 DEF Good
    <2>8. (op[c].stage \in {"open", "reup"} => EventKey(Head(calls[c])) \notin Members(disk.seen))'
        <3>1. SUFFICES ASSUME op'[c].stage \in {"open", "reup"}
                       PROVE  EventKey(Head(calls[c])) \notin Members(disk'.seen)
            BY <1>3 DEF Idle
        <3>2. op[c] = op'[c] /\ op[c] # Idle /\ EventKey(Head(calls[c])) \notin Members(disk.seen)
            BY <1>3, <2>1, <3>1 DEF Idle, Good
        <3>3. calls[c] # <<>> /\ calls[c] \in Seq(Signals) /\ 1 \in DOMAIN calls[c]
            BY <3>2, <1>1 DEF Shape, TypeOK
        <3>4. EventKey(Head(calls[c])).base = c
            BY <3>3, <1>1 DEF Shape, EventKey
        <3> QED BY <3>2, <3>4, <2>3
    <2>9. (entries[c] <= 1 /\ (entries[c] # 0 => disk.managed[c] # None \/ Holds(disk.handledClose, c)))'
        BY <2>1, <2>2, <2>4, <1>2 DEF Good
    <2> QED BY <2>5, <2>6, <2>7, <2>8, <2>9 DEF Good
<1> QED BY <1>4, <1>5

-----------------------------------------------------------------------------
(* What the marks of a terminal signal add. *)

MarkedBy(s, d, e) ==
    /\ e \in Disk
    /\ e.managed = d.managed
    /\ \A k \in Members(e.seen) :
          k \in Members(d.seen) \/ (k.base = s.base /\ (k.action = "close" => s.action = "close"))
    /\ \A c \in Members(e.handledClose) :
          \/ c \in Members(d.handledClose)
          \/ c = s.base /\ s.action = "close"
          \/ Holds(d.seen, LifecycleKey(c))

LEMMA MarkedBySeen ==
    ASSUME NEW s \in Signals, NEW d \in Disk, NEW e \in Disk, NEW k \in DedupeKey,
           MarkedBy(s, d, e), k.base = s.base, k.action = "close" => s.action = "close"
    PROVE  /\ MarkedBy(s, d, MarkSeen(e, k))
           /\ k \in Members(MarkSeen(e, k).seen)
<1> DEFINE f == MarkSeen(e, k)
<1>1. /\ f \in Disk
      /\ f.managed = e.managed
      /\ f.handledClose = e.handledClose
      /\ k \in Members(f.seen)
      /\ Members(f.seen) \subseteq Members(e.seen) \cup {k}
    BY MarkSeenFacts
<1> HIDE DEF f
<1>2. MarkedBy(s, d, f)
    BY <1>1 DEF MarkedBy
<1> QED BY <1>1, <1>2 DEF f

LEMMA MarkedByItself == ASSUME NEW s \in Signals, NEW d \in Disk PROVE MarkedBy(s, d, d)
BY DEF MarkedBy

LEMMA MarkKeyFacts ==
    ASSUME NEW s \in Signals, NEW d \in Disk
    PROVE  MarkedBy(s, d, MarkKey(d, s))
<1>1. SignalKey(s).base = s.base /\ SignalKey(s).action = s.action
    BY DEF SignalKey
<1>2. SignalKey(s) \in DedupeKey
    BY KeyTypes
<1> QED BY <1>1, <1>2, MarkedByItself, MarkedBySeen DEF MarkKey

LEMMA MarkEventFacts ==
    ASSUME NEW s \in Signals, NEW d \in Disk
    PROVE  /\ MarkedBy(s, d, MarkEvent(d, s))
           /\ s.moment # None => EventKey(s) \in Members(MarkEvent(d, s).seen)
<1>1. EventKey(s).base = s.base /\ EventKey(s).action = s.action
    BY DEF EventKey
<1>2. MarkedBy(s, d, MarkKey(d, s)) /\ MarkKey(d, s) \in Disk /\ EventKey(s) \in DedupeKey
    BY MarkKeyFacts, KeyTypes DEF MarkedBy
<1>3. CASE s.moment = None
    BY <1>2, <1>3 DEF MarkEvent
<1>4. CASE s.moment # None
    <2>1. MarkEvent(d, s) = MarkSeen(MarkKey(d, s), EventKey(s))
        BY <1>4 DEF MarkEvent
    <2> QED BY <1>1, <1>2, <2>1, MarkedBySeen
<1> QED BY <1>3, <1>4

LEMMA MarkLifecycleFacts ==
    ASSUME NEW s \in Signals, NEW d \in Disk
    PROVE  /\ MarkedBy(s, d, MarkLifecycle(d, s))
           /\ (s.action # "close" /\ s.moment # None) =>
                  EventKey(s) \in Members(MarkLifecycle(d, s).seen)
<1>1. LifecycleKey(s.base).base = s.base /\ LifecycleKey(s.base) \in DedupeKey
    BY KeyTypes DEF LifecycleKey
<1>2. MarkedBy(s, d, MarkEvent(d, s)) /\ MarkEvent(d, s) \in Disk
    BY MarkEventFacts DEF MarkedBy
<1>3. CASE s.action # "close"
    BY <1>3, MarkEventFacts DEF MarkLifecycle
<1>4. CASE s.action = "close"
    <2>1. MarkLifecycle(d, s) = MarkSeen(MarkEvent(d, s), LifecycleKey(s.base))
        BY <1>4 DEF MarkLifecycle
    <2>2. MarkedBy(s, d, MarkSeen(MarkEvent(d, s), LifecycleKey(s.base)))
        BY <1>1, <1>2, <1>4, MarkedBySeen
    <2> QED BY <1>4, <2>1, <2>2
<1> QED BY <1>3, <1>4

LEMMA MarkedByHandled ==
    ASSUME NEW s \in Signals, NEW d \in Disk, NEW e \in Disk, MarkedBy(s, d, e),
           s.action = "close"
    PROVE  /\ MarkedBy(s, d, MarkHandledClose(e, s.base))
           /\ s.base \in Members(MarkHandledClose(e, s.base).handledClose)
<1> DEFINE f == MarkHandledClose(e, s.base)
<1>1. s.base \in Source
    BY KeyTypes DEF Signal
<1>2. /\ f \in Disk
      /\ f.managed = e.managed
      /\ f.seen = e.seen
      /\ s.base \in Members(f.handledClose)
      /\ Members(f.handledClose) \subseteq Members(e.handledClose) \cup {s.base}
    BY <1>1, MarkHandledCloseFacts
<1> HIDE DEF f
<1>3. MarkedBy(s, d, f)
    BY <1>2 DEF MarkedBy
<1> QED BY <1>2, <1>3 DEF f

LEMMA MarkTerminalFacts ==
    ASSUME NEW s \in Signals, NEW d \in Disk
    PROVE  /\ MarkedBy(s, d, MarkTerminal(d, s))
           /\ s.action = "close" => s.base \in Members(MarkTerminal(d, s).handledClose)
           /\ (s.action # "close" /\ s.moment # None) =>
                  EventKey(s) \in Members(MarkTerminal(d, s).seen)
<1>1. MarkedBy(s, d, MarkLifecycle(d, s)) /\ MarkLifecycle(d, s) \in Disk
    BY MarkLifecycleFacts DEF MarkedBy
<1>2. CASE s.action # "close"
    BY <1>1, <1>2, MarkLifecycleFacts DEF MarkTerminal
<1>3. CASE s.action = "close"
    <2>1. MarkTerminal(d, s) = MarkHandledClose(MarkLifecycle(d, s), s.base)
        BY <1>3 DEF MarkTerminal
    <2> QED BY <1>1, <1>3, <2>1, MarkedByHandled
<1> QED BY <1>2, <1>3

-----------------------------------------------------------------------------
(* The two ways a sequence of writes ends. *)

Returned(b) ==
    /\ calls' = [calls EXCEPT ![b] = Tail(@)]
    /\ op' = [op EXCEPT ![b] = Idle]
    /\ crashes' = crashes
    /\ lapsed' = lapsed \cup Forgotten(disk, disk')

Killed ==
    /\ calls' = [c \in Source |-> <<>>]
    /\ op' = [c \in Source |-> Idle]
    /\ crashes' = crashes + 1

Torn(b) == Killed /\ lapsed' = lapsed \cup Forgotten(disk, disk') \cup {b}

(* Killed, but what is loaded is what the last write would have left. *)
Survived == Killed /\ lapsed' = lapsed \cup Forgotten(disk, disk')

LEMMA LoadMarked ==
    ASSUME NEW s \in Signals, NEW d \in Disk, NEW e \in Disk, MarkedBy(s, d, e), NEW f \in Loads(e)
    PROVE  MarkedBy(s, d, f)
<1>1. /\ f \in Disk
      /\ f.managed = e.managed
      /\ f.seen = e.seen
      /\ \A c \in Members(f.handledClose) :
            c \in Members(e.handledClose) \/ Holds(e.seen, LifecycleKey(c))
    BY LoadFacts
<1>2. \A c \in Source : Holds(e.seen, LifecycleKey(c)) =>
          Holds(d.seen, LifecycleKey(c)) \/ (c = s.base /\ s.action = "close")
    BY DEF MarkedBy, Holds, LifecycleKey
<1>3. Members(f.handledClose) \subseteq Source
    BY <1>1 DEF Disk, Members
<1> QED BY <1>1, <1>2, <1>3 DEF MarkedBy

LEMMA WriteAllFacts ==
    ASSUME NEW b \in Source, NEW s \in Signals, NEW d \in Disk, NEW last \in Disk, NEW earlier,
           MarkedBy(s, d, last), \A e \in earlier : MarkedBy(s, d, e), WriteAll(b, last, earlier)
    PROVE  /\ MarkedBy(s, d, disk')
           /\ \/ (Returned(b) \/ Survived) /\ disk' = last
              \/ Torn(b)
<1>1. CASE Return(b, last)
    BY <1>1 DEF Return, Returned
<1>2. ASSUME NEW e \in earlier, Restart(e),
             lapsed' = lapsed \cup Forgotten(disk, disk') \cup (IF disk' = last THEN {} ELSE {b})
      PROVE  MarkedBy(s, d, disk') /\ ((Survived /\ disk' = last) \/ Torn(b))
    <2>1. MarkedBy(s, d, disk') /\ Killed
        BY <1>2, LoadMarked DEF Restart, Killed, MarkedBy
    <2> QED BY <1>2, <2>1 DEF Survived, Torn
<1> QED BY <1>1, <1>2 DEF WriteAll

LEMMA TerminateFacts ==
    ASSUME NEW b \in Source, NEW s \in Signals, NEW d \in Disk, Terminate(b, s, d)
    PROVE  /\ MarkedBy(s, d, disk')
           /\ \/ (Returned(b) \/ Survived) /\ disk' = MarkTerminal(d, s)
              \/ Torn(b)
<1> DEFINE last == MarkTerminal(d, s)
           earlier == {d, MarkKey(d, s), MarkEvent(d, s), MarkLifecycle(d, s)}
<1>1. MarkedBy(s, d, last) /\ last \in Disk
    BY MarkTerminalFacts DEF MarkedBy
<1>2. \A e \in earlier : MarkedBy(s, d, e)
    BY MarkedByItself, MarkKeyFacts, MarkEventFacts, MarkLifecycleFacts
<1>3. WriteAll(b, last, earlier)
    BY DEF Terminate
<1> HIDE DEF last, earlier
<1>4. /\ MarkedBy(s, d, disk')
      /\ \/ (Returned(b) \/ Survived) /\ disk' = last
         \/ Torn(b)
    BY <1>1, <1>2, <1>3, WriteAllFacts
<1> QED BY <1>4 DEF last

-----------------------------------------------------------------------------
(* From what one source's call does to the invariant of all sources. *)

LEMMA Step ==
    ASSUME IInv, TypeOK', NEW b \in Source,
           Touches(b, disk, disk'), HistoryOf(b), OthersGoOn(b),
           lapsed \cup Forgotten(disk, disk') \subseteq lapsed',
           Shape(b)', b \notin lapsed' => Good(b)'
    PROVE  IInv'
BY Frame DEF IInv

(* The histories stay well typed when they change at most for b. *)
HistoryTypes ==
    /\ cooling' \subseteq Source
    /\ applied' \in [Events -> Nat]
    /\ entries' \in [Source -> Nat]

Unrecorded == UNCHANGED <<applied, entries>>

LEMMA UnrecordedFacts ==
    ASSUME TypeOK, Unrecorded, NEW b \in Source
    PROVE  HistoryOf(b) /\ applied' \in [Events -> Nat] /\ entries' \in [Source -> Nat]
BY DEF TypeOK, Unrecorded, HistoryOf

LEMMA EndFacts ==
    ASSUME IInv, NEW b \in Source, disk' \in Disk, calls[b] # <<>>, HistoryTypes,
           Returned(b) \/ Survived \/ Torn(b)
    PROVE  /\ TypeOK'
           /\ OthersGoOn(b)
           /\ lapsed \cup Forgotten(disk, disk') \subseteq lapsed'
           /\ op'[b] = Idle
           /\ \A i \in DOMAIN calls'[b] : calls'[b][i].base = b
           /\ Torn(b) => b \in lapsed'
<1>1. TypeOK /\ Shape(b)
    BY DEF IInv
<1>2. Forgotten(disk, disk') \subseteq Source
    BY DEF Forgotten
<1>3. Idle \in Ops
    BY DEF Idle, Ops
<1>4. calls[b] \in Seq(Signals)
    BY <1>1 DEF TypeOK
<1>5. /\ Tail(calls[b]) \in Seq(Signals)
      /\ \A i \in DOMAIN Tail(calls[b]) : Tail(calls[b])[i].base = b
    <2>1. /\ Tail(calls[b]) \in Seq(Signals)
          /\ \A i \in DOMAIN Tail(calls[b]) : i + 1 \in DOMAIN calls[b] /\ Tail(calls[b])[i] = calls[b][i + 1]
        BY <1>4
    <2> QED BY <2>1, <1>1 DEF Shape
<1>6. CASE Returned(b)
    <2>1. calls' \in [Source -> Seq(Signals)] /\ calls'[b] = Tail(calls[b])
        BY <1>1, <1>5, <1>6 DEF Returned, TypeOK
    <2>2. op' \in [Source -> Ops] /\ op'[b] = Idle
        BY <1>1, <1>3, <1>6 DEF Returned, TypeOK
    <2>3. TypeOK'
        BY <1>1, <1>2, <1>6, <2>1, <2>2 DEF Returned, TypeOK, HistoryTypes
    <2>4. OthersGoOn(b)
        BY <1>6, <2>1, <2>2 DEF Returned, OthersGoOn
    <2>5. Torn(b) => b \in lapsed'
        BY DEF Torn
    <2> QED BY <1>5, <1>6, <2>1, <2>2, <2>3, <2>4, <2>5 DEF Returned
<1>7. CASE Survived \/ Torn(b)
    <2>1. calls' \in [Source -> Seq(Signals)] /\ calls'[b] = <<>>
        <3>1. calls' = [c \in Source |-> <<>>]
            BY <1>7 DEF Survived, Torn, Killed
        <3>2. <<>> \in Seq(Signals)
            OBVIOUS
        <3> QED BY <3>1, <3>2
    <2>2. op' \in [Source -> Ops] /\ op'[b] = Idle
        BY <1>3, <1>7 DEF Survived, Torn, Killed
    <2>3. TypeOK'
        BY <1>1, <1>2, <1>7, <2>1, <2>2 DEF Survived, Torn, Killed, TypeOK, HistoryTypes
    <2>4. OthersGoOn(b)
        BY <1>7 DEF Survived, Torn, Killed, OthersGoOn
    <2> QED BY <1>7, <2>1, <2>2, <2>3, <2>4 DEF Survived, Torn
<1> QED BY <1>6, <1>7

(***************************************************************************)
(* The writes of a branch before its signal is marked: at most the         *)
(* position of b and the window of observed opens.                         *)
(***************************************************************************)
Branch(b, d) ==
    /\ d \in Disk
    /\ d.seen = disk.seen
    /\ d.handledClose = disk.handledClose
    /\ \A c \in Source : c # b => d.managed[c] = disk.managed[c]
    /\ IsUnresolved(d.managed[b]) => d.managed[b].pending.base = b

LEMMA BranchTouches ==
    ASSUME NEW b \in Source, NEW s \in Signals, s.base = b, NEW d, Branch(b, d),
           NEW e, MarkedBy(s, d, e)
    PROVE  Touches(b, disk, e)
BY DEF Branch, MarkedBy, Touches

LEMMA TerminatePreserves ==
    ASSUME IInv, NEW b \in Source, NEW s \in Signals, s.base = b, calls[b] # <<>>,
           NEW d, Branch(b, d), Terminate(b, s, d), HistoryTypes, HistoryOf(b),
           b \notin lapsed =>
             /\ s.action = "close" \/ Holds(disk.handledClose, b) => d.managed[b] = None
             /\ \A e \in Events : e.base = b =>
                   /\ applied'[e] <= 1
                   /\ applied'[e] # 0 =>
                        \/ e \in Members(disk.seen)
                        \/ e = EventKey(s) /\ s.moment # None /\ s.action # "close"
             /\ entries'[b] <= 1
             /\ entries'[b] # 0 =>
                   d.managed[b] # None \/ Holds(disk.handledClose, b) \/ s.action = "close"
    PROVE  IInv'
<1>1. d \in Disk
    BY DEF Branch
<1>2. /\ MarkedBy(s, d, disk')
      /\ \/ (Returned(b) \/ Survived) /\ disk' = MarkTerminal(d, s)
         \/ Torn(b)
    BY <1>1, TerminateFacts
<1>3. disk' \in Disk /\ disk'.managed = d.managed
    BY <1>2 DEF MarkedBy
<1>4. /\ TypeOK'
      /\ OthersGoOn(b)
      /\ lapsed \cup Forgotten(disk, disk') \subseteq lapsed'
      /\ op'[b] = Idle
      /\ \A i \in DOMAIN calls'[b] : calls'[b][i].base = b
      /\ Torn(b) => b \in lapsed'
    BY <1>2, <1>3, EndFacts
<1>5. Touches(b, disk, disk')
    BY <1>2, BranchTouches
<1>6. Shape(b)'
    BY <1>3, <1>4 DEF Shape, Branch, Idle
<1>7. ASSUME b \notin lapsed' PROVE Good(b)'
    <2>1. /\ b \notin lapsed /\ b \notin Forgotten(disk, disk')
          /\ disk' = MarkTerminal(d, s) /\ Good(b)
        BY <1>2, <1>4, <1>7 DEF IInv
    <2>2. /\ s.action = "close" => b \in Members(disk'.handledClose)
          /\ (s.action # "close" /\ s.moment # None) => EventKey(s) \in Members(disk'.seen)
        BY <1>1, <2>1, MarkTerminalFacts
    <2>3. /\ \A k \in Members(disk.seen) : k.base = b => k \in Members(disk'.seen)
          /\ Holds(disk.handledClose, b) => Holds(disk'.handledClose, b)
        BY <2>1 DEF Forgotten, Holds
    <2>4. /\ \A k \in Members(disk'.seen) :
                k \in Members(disk.seen) \/ (k.action = "close" => s.action = "close")
          /\ Holds(disk'.handledClose, b) => Holds(disk.handledClose, b) \/ s.action = "close"
        BY <1>2, <2>1, LifecycleSeen DEF MarkedBy, Branch, Holds, Good
    <2>5. (CloseKeySeen(b) => Holds(disk.handledClose, b))'
        BY <2>1, <2>2, <2>3, <2>4 DEF CloseKeySeen, Holds, Good
    <2>6. (Holds(disk.handledClose, b) => disk.managed[b] = None /\ op[b].stage # "open")'
        BY <1>3, <1>4, <2>1, <2>4 DEF Idle
    <2>7. (\A e \in Events : e.base = b =>
              applied[e] <= 1 /\ (applied[e] # 0 => e \in Members(disk.seen)))'
        BY <2>1, <2>2, <2>3
    <2>8. (op[b].stage \in {"open", "reup"} => EventKey(Head(calls[b])) \notin Members(disk.seen))'
        BY <1>4 DEF Idle
    <2>9. (entries[b] <= 1 /\ (entries[b] # 0 => disk.managed[b] # None \/ Holds(disk.handledClose, b)))'
        BY <1>3, <2>1, <2>2, <2>3 DEF Holds
    <2> QED BY <2>5, <2>6, <2>7, <2>8, <2>9 DEF Good
<1> QED BY <1>4, <1>5, <1>6, <1>7, Step

(* A call that returns without marking its signal. *)
LEMMA ReturnPreserves ==
    ASSUME IInv, NEW b \in Source, calls[b] # <<>>, NEW d, Branch(b, d), Return(b, d),
           cooling' \subseteq Source, Unrecorded,
           d.managed[b] = None <=> disk.managed[b] = None
    PROVE  IInv'
<1>1. disk' = d /\ Returned(b) /\ disk' \in Disk
    BY DEF Return, Returned, Branch
<1>2. HistoryTypes /\ HistoryOf(b)
    BY UnrecordedFacts DEF IInv, HistoryTypes
<1>3. /\ TypeOK'
      /\ OthersGoOn(b)
      /\ lapsed \cup Forgotten(disk, disk') \subseteq lapsed'
      /\ op'[b] = Idle
      /\ \A i \in DOMAIN calls'[b] : calls'[b][i].base = b
    BY <1>1, <1>2, EndFacts
<1>4. Touches(b, disk, disk')
    BY <1>1 DEF Branch, Touches
<1>5. Shape(b)'
    BY <1>1, <1>3 DEF Shape, Branch, Idle
<1>6. ASSUME b \notin lapsed' PROVE Good(b)'
    <2>1. Good(b)
        BY <1>3, <1>6 DEF IInv
    <2> QED BY <1>1, <1>3, <2>1 DEF Good, Branch, CloseKeySeen, Idle, Unrecorded, Holds
<1> QED BY <1>2, <1>3, <1>4, <1>5, <1>6, Step

(* A call that goes into an await. *)
LEMMA AwaitPreserves ==
    ASSUME IInv, NEW b \in Source, NEW stage \in {"open", "reup", "close"}, NEW d,
           Branch(b, d), d.managed = disk.managed, Await(b, stage, d), calls[b] # <<>>,
           stage = "open" <=> disk.managed[b] = None,
           stage = "close" <=> Head(calls[b]).action = "close",
           stage # "close" =>
             /\ Head(calls[b]).moment # None
             /\ ~ Holds(disk.seen, EventKey(Head(calls[b])))
             /\ ~ Holds(disk.handledClose, b)
    PROVE  IInv'
<1>1. TypeOK /\ Shape(b)
    BY DEF IInv
<1>2. /\ disk' = d /\ d \in Disk
      /\ calls' = calls /\ lapsed' = lapsed
      /\ cooling' = cooling /\ crashes' = crashes
      /\ applied' = applied /\ entries' = entries
    BY DEF Await, Branch
<1>3. disk.managed[b] \in Position \cup {None}
    BY <1>1 DEF TypeOK, Disk
<1>4. /\ op' \in [Source -> Ops]
      /\ op'[b] = [stage |-> stage, held |-> disk.managed[b]]
      /\ op' = [op EXCEPT ![b] = op'[b]]
    BY <1>1, <1>3 DEF Await, Ops, TypeOK
<1>5. TypeOK'
    BY <1>1, <1>2, <1>4 DEF TypeOK
<1>6. HistoryOf(b) /\ OthersGoOn(b)
    BY <1>1, <1>2, <1>4 DEF HistoryOf, OthersGoOn, TypeOK
<1>7. Touches(b, disk, disk') /\ Forgotten(disk, disk') = {}
    BY <1>2 DEF Touches, Branch, Forgotten, Holds
<1>8. Shape(b)'
    BY <1>1, <1>2, <1>4 DEF Shape, Branch
<1>9. ASSUME b \notin lapsed' PROVE Good(b)'
    <2>1. Good(b)
        BY <1>2, <1>9 DEF IInv
    <2> QED BY <1>2, <1>4, <2>1 DEF Good, Branch, CloseKeySeen, Holds
<1> QED BY <1>2, <1>5, <1>6, <1>7, <1>8, <1>9, Step

(* The branches of the code as instances of Branch. *)

LEMMA UnchangedBranch ==
    ASSUME IInv, NEW b \in Source
    PROVE  Branch(b, disk)
BY DEF IInv, Branch, TypeOK, Shape

LEMMA ObservedBranch ==
    ASSUME IInv, NEW b \in Source
    PROVE  /\ Branch(b, MarkObservedOpen(disk, b))
           /\ MarkObservedOpen(disk, b).managed = disk.managed
<1> DEFINE d == MarkObservedOpen(disk, b)
<1>1. /\ d \in Disk
      /\ d.managed = disk.managed
      /\ d.seen = disk.seen
      /\ d.handledClose = disk.handledClose
    BY MarkObservedOpenFacts DEF IInv, TypeOK
<1> HIDE DEF d
<1>2. Branch(b, d)
    BY <1>1 DEF IInv, Branch, Shape
<1> QED BY <1>1, <1>2 DEF d

LEMMA ManagedBranch ==
    ASSUME IInv, NEW b \in Source, NEW position \in Position \cup {None},
           IsUnresolved(position) => position.pending.base = b
    PROVE  /\ Branch(b, SetManaged(disk, b, position))
           /\ SetManaged(disk, b, position).managed[b] = position
<1> DEFINE d == SetManaged(disk, b, position)
<1>1. disk \in Disk /\ disk.managed \in [Source -> Position \cup {None}]
    BY DEF IInv, TypeOK, Disk
<1>2. /\ d \in Disk
      /\ d.managed = [disk.managed EXCEPT ![b] = position]
      /\ d.seen = disk.seen
      /\ d.handledClose = disk.handledClose
    BY <1>1, SetManagedFacts
<1> HIDE DEF d
<1>3. d.managed[b] = position /\ \A c \in Source : c # b => d.managed[c] = disk.managed[c]
    BY <1>1, <1>2
<1>4. Branch(b, d)
    BY <1>2, <1>3 DEF Branch
<1> QED BY <1>3, <1>4 DEF d

(* The signal that is served. *)
LEMMA Served ==
    ASSUME IInv, NEW b \in Source, NEW s \in Signals,
           \/ Begins(b, s)
           \/ \E stage \in {"open", "reup", "close"} : Continues(b, s, stage)
    PROVE  s.base = b /\ calls[b] # <<>> /\ s = Head(calls[b])
<1>1. calls[b] # <<>> /\ s = Head(calls[b])
    BY DEF Begins, Continues, IInv, Shape, Idle
<1>2. 1 \in DOMAIN calls[b] /\ Head(calls[b]) = calls[b][1]
    BY <1>1 DEF IInv, TypeOK
<1> QED BY <1>1, <1>2 DEF IInv, Shape

(* Calls that mark their signal without a change of position. *)
LEMMA SkipPreserves ==
    ASSUME IInv, NEW b \in Source, NEW s \in Signals, s.base = b, calls[b] # <<>>,
           NEW d, Branch(b, d), d.managed = disk.managed, Terminate(b, s, d),
           UNCHANGED <<cooling, applied, entries>>,
           s.action = "close" => disk.managed[b] = None
    PROVE  IInv'
<1>1. TypeOK /\ Unrecorded /\ (b \notin lapsed => Good(b))
    BY DEF Unrecorded, IInv
<1>2. HistoryTypes /\ HistoryOf(b)
    BY <1>1, UnrecordedFacts DEF HistoryTypes, TypeOK
<1> QED BY <1>1, <1>2, TerminatePreserves DEF Unrecorded, Good

LEMMA SkipSeenPreserves ==
    ASSUME IInv, NEW b \in Source, NEW s \in Signals, SkipSeen(b, s)
    PROVE  IInv'
<1> DEFINE marked == MarkKey(disk, s)
           last == IF s.action = "close" THEN MarkHandledClose(marked, b) ELSE marked
<1>1. s.base = b /\ calls[b] # <<>> /\ TypeOK /\ disk \in Disk
    BY Served DEF SkipSeen, IInv, TypeOK
<1>2. WriteAll(b, last, {marked}) /\ Unrecorded /\ cooling' = cooling /\ SignalWasSeen(disk, s)
    BY DEF SkipSeen, Unrecorded
<1>3. MarkedBy(s, disk, marked) /\ marked \in Disk
    BY <1>1, MarkKeyFacts DEF MarkedBy
<1> HIDE DEF marked
<1>4. /\ MarkedBy(s, disk, last)
      /\ s.action = "close" => b \in Members(last.handledClose)
    BY <1>1, <1>3, MarkedByHandled
<1> HIDE DEF last
<1>5. /\ MarkedBy(s, disk, disk')
      /\ \/ (Returned(b) \/ Survived) /\ disk' = last
         \/ Torn(b)
    BY <1>1, <1>2, <1>3, <1>4, WriteAllFacts DEF MarkedBy
<1>6. MarkedBy(s, disk, disk') /\ disk' \in Disk /\ disk'.managed = disk.managed
    BY <1>5 DEF MarkedBy
<1>7. HistoryTypes /\ HistoryOf(b)
    BY <1>1, <1>2, UnrecordedFacts DEF HistoryTypes, TypeOK
<1>8. /\ TypeOK'
      /\ OthersGoOn(b)
      /\ lapsed \cup Forgotten(disk, disk') \subseteq lapsed'
      /\ op'[b] = Idle
      /\ \A i \in DOMAIN calls'[b] : calls'[b][i].base = b
      /\ Torn(b) => b \in lapsed'
    BY <1>1, <1>5, <1>6, <1>7, EndFacts
<1>9. Touches(b, disk, disk')
    BY <1>1, <1>6, UnchangedBranch, BranchTouches
<1>10. Shape(b)'
    BY <1>6, <1>8 DEF Shape, IInv, Idle
<1>11. ASSUME b \notin lapsed' PROVE Good(b)'
    <2>1. disk' = last /\ Good(b) /\ b \notin Forgotten(disk, disk')
        BY <1>5, <1>8, <1>11 DEF IInv
    <2>2. /\ \A k \in Members(disk.seen) : k.base = b => k \in Members(disk'.seen)
          /\ Holds(disk.handledClose, b) => Holds(disk'.handledClose, b)
        BY <2>1 DEF Forgotten, Holds
    <2>3. s.action = "close" => Holds(disk.handledClose, b) /\ Holds(disk'.handledClose, b)
        <3>1. ASSUME s.action = "close" PROVE CloseKeySeen(b)
            BY <1>1, <1>2, <3>1 DEF SignalWasSeen, ClosedLifecycleWasHandled, SignalKey,
               EventKey, LifecycleKey, CloseKeySeen, Holds
        <3> QED BY <1>4, <2>1, <3>1 DEF Good, Holds
    <2>4. /\ \A k \in Members(disk'.seen) :
                k \in Members(disk.seen) \/ (k.action = "close" => s.action = "close")
          /\ Holds(disk'.handledClose, b) => Holds(disk.handledClose, b) \/ s.action = "close"
        BY <1>6, <2>1, LifecycleSeen DEF MarkedBy, Holds, Good
    <2>5. (CloseKeySeen(b) => Holds(disk.handledClose, b))'
        BY <2>1, <2>2, <2>3, <2>4 DEF CloseKeySeen, Good
    <2>6. (Holds(disk.handledClose, b) => disk.managed[b] = None /\ op[b].stage # "open")'
        BY <1>6, <1>8, <2>1, <2>3, <2>4 DEF Good, Idle
    <2>7. (\A e \in Events : e.base = b =>
              applied[e] <= 1 /\ (applied[e] # 0 => e \in Members(disk.seen)))'
        BY <1>2, <2>1, <2>2 DEF Good, Unrecorded
    <2>8. (op[b].stage \in {"open", "reup"} => EventKey(Head(calls[b])) \notin Members(disk.seen))'
        BY <1>8 DEF Idle
    <2>9. (entries[b] <= 1 /\ (entries[b] # 0 => disk.managed[b] # None \/ Holds(disk.handledClose, b)))'
        BY <1>2, <1>6, <2>1, <2>2 DEF Good, Unrecorded
    <2> QED BY <2>5, <2>6, <2>7, <2>8, <2>9 DEF Good
<1> QED BY <1>7, <1>8, <1>9, <1>10, <1>11, Step

LEMMA BeginPreserves ==
    ASSUME IInv, NEW b \in Source, NEW s \in Signals, Begin(b, s)
    PROVE  IInv'
<1>1. s.base = b /\ calls[b] # <<>> /\ s = Head(calls[b])
    BY Served DEF Begin, SkipSeen, SkipClosedLifecycle, RejectEntry, DeferEntry, SkipManaged,
       BeginOpen, BeginReup, SkipUnownedClose, PostponeClose, BeginClose, IsEntry, IsClose, Admissible
<1>2. Branch(b, disk) /\ TypeOK
    BY UnchangedBranch DEF IInv
<1>3. Branch(b, MarkObservedOpen(disk, b)) /\ MarkObservedOpen(disk, b).managed = disk.managed
    BY ObservedBranch
<1>4. CASE SkipSeen(b, s)
    BY <1>4, SkipSeenPreserves
<1>5. CASE SkipClosedLifecycle(b, s) \/ RejectEntry(b, s) \/ SkipUnownedClose(b, s)
    BY <1>1, <1>2, <1>5, SkipPreserves DEF SkipClosedLifecycle, RejectEntry, SkipUnownedClose, IsEntry
<1>6. CASE SkipManaged(b, s)
    BY <1>1, <1>3, <1>6, SkipPreserves DEF SkipManaged, Admissible, IsEntry
<1>7. CASE DeferEntry(b, s) \/ PostponeClose(b, s)
    <2>1. Return(b, disk) /\ Unrecorded /\ cooling' \subseteq Source
        BY <1>2, <1>7 DEF DeferEntry, PostponeClose, Unrecorded, TypeOK
    <2> QED BY <1>1, <1>2, <2>1, ReturnPreserves
<1>8. CASE BeginOpen(b, s) \/ BeginReup(b, s)
    <2>1. /\ s.action # "close" /\ s.moment # None
          /\ ~ Holds(disk.seen, EventKey(s)) /\ ~ Holds(disk.handledClose, b)
        BY <1>8 DEF BeginOpen, BeginReup, Admissible, IsEntry, SignalWasSeen
    <2>2. PICK stage \in {"open", "reup"} :
              /\ Await(b, stage, MarkObservedOpen(disk, b))
              /\ stage = "open" <=> disk.managed[b] = None
        BY <1>8 DEF BeginOpen, BeginReup
    <2> QED BY <1>1, <1>3, <2>1, <2>2, AwaitPreserves
<1>9. CASE BeginClose(b, s)
    <2>1. Await(b, "close", disk) /\ disk.managed[b] # None /\ s.action = "close"
        BY <1>9 DEF BeginClose, IsClose
    <2> QED BY <1>1, <1>2, <2>1, AwaitPreserves
<1> QED BY <1>4, <1>5, <1>6, <1>7, <1>8, <1>9 DEF Begin

(* A fill recorded for the served event of b. *)
LEMMA CountFacts ==
    ASSUME TypeOK, NEW b \in Source, NEW s \in Signals, s.base = b, CountApplied(s)
    PROVE  /\ applied' \in [Events -> Nat]
           /\ \A e \in Events : e # EventKey(s) => applied'[e] = applied[e]
           /\ applied'[EventKey(s)] = Bump(applied[EventKey(s)])
           /\ EventKey(s).base = b
<1>1. EventKey(s) \in Events /\ EventKey(s).base = b
    BY DEF Events, EventKey
<1>2. \A n \in Nat : Bump(n) \in Nat
    BY DEF Bump
<1> QED BY <1>1, <1>2 DEF TypeOK, CountApplied

LEMMA EntrySkipsPreserves ==
    ASSUME IInv, NEW b \in Source, NEW s \in Signals, EntrySkips(b, s)
    PROVE  IInv'
<1>1. s.base = b /\ calls[b] # <<>> /\ s = Head(calls[b])
    BY Served DEF EntrySkips
<1>2. s.action # "close"
    BY <1>1 DEF EntrySkips, Continues, IInv, Shape
<1> QED BY <1>1, <1>2, UnchangedBranch, SkipPreserves DEF EntrySkips

LEMMA OpenFillsPreserves ==
    ASSUME IInv, NEW b \in Source, NEW s \in Signals, OpenFills(b, s)
    PROVE  IInv'
<1>1. s.base = b /\ calls[b] # <<>> /\ s = Head(calls[b])
    BY Served DEF OpenFills
<1>2. /\ TypeOK /\ disk.managed[b] = None /\ s.action # "close" /\ s.moment # None
      /\ op[b].stage = "open"
    BY <1>1 DEF OpenFills, Continues, IInv, Shape
<1>3. PICK size \in 1..MaxSize :
          Terminate(b, s, SetManaged(disk, b, [size |-> size, pending |-> None]))
    BY DEF OpenFills
<1> DEFINE position == [size |-> size, pending |-> None]
           d == SetManaged(disk, b, position)
<1>4. position \in Position /\ ~ IsUnresolved(position) /\ position # None
    BY NoneIsNoPosition DEF Position, IsUnresolved
<1> HIDE DEF position
<1>5. Branch(b, d) /\ d.managed[b] = position /\ Terminate(b, s, d)
    BY <1>3, <1>4, ManagedBranch DEF position
<1> HIDE DEF d
<1>6. /\ applied' \in [Events -> Nat]
      /\ \A e \in Events : e # EventKey(s) => applied'[e] = applied[e]
      /\ applied'[EventKey(s)] = Bump(applied[EventKey(s)])
      /\ EventKey(s).base = b
      /\ EventKey(s) \in Events
    BY <1>1, <1>2, CountFacts DEF OpenFills, Events
<1>7. /\ entries' \in [Source -> Nat]
      /\ entries' = [entries EXCEPT ![b] = entries'[b]]
      /\ entries'[b] = Bump(entries[b])
    BY <1>2 DEF OpenFills, TypeOK, Bump
<1>8. HistoryTypes /\ HistoryOf(b)
    BY <1>2, <1>6, <1>7 DEF HistoryTypes, HistoryOf, OpenFills, TypeOK
<1>9. ASSUME b \notin lapsed
      PROVE  /\ ~ Holds(disk.handledClose, b)
             /\ \A e \in Events : e.base = b =>
                   /\ applied'[e] <= 1
                   /\ applied'[e] # 0 => e \in Members(disk.seen) \/ e = EventKey(s)
             /\ entries'[b] <= 1
    <2>1. Good(b) /\ EventKey(s) \notin Members(disk.seen)
        BY <1>1, <1>2, <1>9 DEF IInv, Good
    <2>2. ~ Holds(disk.handledClose, b) /\ entries[b] = 0
        BY <1>2, <2>1 DEF Good
    <2>3. applied[EventKey(s)] = 0
        BY <1>6, <2>1 DEF Good
    <2> QED BY <1>6, <1>7, <2>1, <2>2, <2>3 DEF Good, Bump
<1> QED BY <1>1, <1>2, <1>4, <1>5, <1>8, <1>9, TerminatePreserves

LEMMA ReupFillsPreserves ==
    ASSUME IInv, NEW b \in Source, NEW s \in Signals, ReupFills(b, s)
    PROVE  IInv'
<1>1. s.base = b /\ calls[b] # <<>> /\ s = Head(calls[b])
    BY Served DEF ReupFills
<1>2. /\ TypeOK /\ disk.managed[b] # None /\ s.action # "close" /\ s.moment # None
      /\ op[b].stage = "reup" /\ op[b].held = disk.managed[b]
    BY <1>1 DEF ReupFills, Continues, IInv, Shape, Idle
<1>3. PICK add \in 1..(MaxSize - op[b].held.size) :
          Terminate(b, s, SetManaged(disk, b, Grown(op[b].held, add)))
    BY DEF ReupFills
<1> DEFINE position == Grown(op[b].held, add)
           d == SetManaged(disk, b, position)
<1>4. /\ position \in Position /\ position # None
      /\ IsUnresolved(position) => position.pending.base = b
    <2>1. disk.managed[b] \in Position
        BY <1>2 DEF TypeOK, Disk
    <2>2. position \in Position /\ position.pending = disk.managed[b].pending
        BY <1>2, <2>1, BoundsAssumption DEF Position, Grown
    <2> QED BY <1>2, <2>2, NoneIsNoPosition DEF Position, IsUnresolved, IInv, Shape
<1> HIDE DEF position
<1>5. Branch(b, d) /\ d.managed[b] = position /\ Terminate(b, s, d)
    BY <1>3, <1>4, ManagedBranch DEF position
<1> HIDE DEF d
<1>6. /\ applied' \in [Events -> Nat]
      /\ \A e \in Events : e # EventKey(s) => applied'[e] = applied[e]
      /\ applied'[EventKey(s)] = Bump(applied[EventKey(s)])
      /\ EventKey(s).base = b
      /\ EventKey(s) \in Events
    BY <1>1, <1>2, CountFacts DEF ReupFills, Events
<1>7. HistoryTypes /\ HistoryOf(b) /\ entries' = entries
    BY <1>2, <1>6 DEF HistoryTypes, HistoryOf, ReupFills, TypeOK
<1>8. ASSUME b \notin lapsed
      PROVE  /\ ~ Holds(disk.handledClose, b)
             /\ \A e \in Events : e.base = b =>
                   /\ applied'[e] <= 1
                   /\ applied'[e] # 0 => e \in Members(disk.seen) \/ e = EventKey(s)
             /\ entries[b] <= 1
    <2>1. Good(b) /\ EventKey(s) \notin Members(disk.seen)
        BY <1>1, <1>2, <1>8 DEF IInv, Good
    <2>2. ~ Holds(disk.handledClose, b)
        BY <1>2, <2>1 DEF Good
    <2>3. applied[EventKey(s)] = 0
        BY <1>6, <2>1 DEF Good
    <2> QED BY <1>6, <2>1, <2>2, <2>3 DEF Good, Bump
<1> QED BY <1>1, <1>2, <1>4, <1>5, <1>7, <1>8, TerminatePreserves

LEMMA UnresolvedFacts ==
    ASSUME NEW held \in Position, NEW left \in 1..MaxSize, NEW s \in Signals
    PROVE  Unresolved(held, left, s) \in Position /\ Unresolved(held, left, s).pending = s
<1> DEFINE smaller == [held EXCEPT !.size = left]
<1>1. smaller \in Position
    BY DEF Position
<1> HIDE DEF smaller
<1>2. [smaller EXCEPT !.pending = s] \in Position /\ [smaller EXCEPT !.pending = s].pending = s
    BY <1>1 DEF Position
<1>3. Unresolved(held, left, s) = [smaller EXCEPT !.pending = s]
    BY Zenon DEF Unresolved, smaller
<1> QED BY <1>2, <1>3

LEMMA LeaveUnresolvedPreserves ==
    ASSUME IInv, NEW b \in Source, NEW s \in Signals, NEW size \in Nat, Continues(b, s, "close"),
           size \in 1..op[b].held.size, LeaveUnresolved(b, s, size)
    PROVE  IInv'
<1>1. s.base = b /\ calls[b] # <<>> /\ s = Head(calls[b])
    BY Served
<1>2. TypeOK /\ disk.managed[b] # None /\ op[b].held = disk.managed[b]
    BY DEF Continues, IInv, Shape, Idle
<1> DEFINE position == Unresolved(op[b].held, size, s)
           d == SetManaged(disk, b, position)
<1>3. position \in Position /\ position # None /\ position.pending = s
    <2>1. disk.managed[b] \in Position
        BY <1>2 DEF TypeOK, Disk
    <2>2. size \in 1..MaxSize
        BY <1>2, <2>1, BoundsAssumption DEF Position
    <2>3. position \in Position /\ position.pending = s
        BY <1>2, <2>1, <2>2, UnresolvedFacts
    <2> QED BY <2>3, NoneIsNoPosition DEF Position
<1> HIDE DEF position
<1>4. Branch(b, d) /\ d.managed[b] = position
    BY <1>1, <1>3, ManagedBranch
<1>5. Return(b, d) /\ cooling' \subseteq Source /\ Unrecorded
    BY <1>2 DEF LeaveUnresolved, Unrecorded, TypeOK, position
<1> HIDE DEF d
<1> QED BY <1>1, <1>2, <1>3, <1>4, <1>5, ReturnPreserves

LEMMA CloseResolvesPreserves ==
    ASSUME IInv, NEW b \in Source, NEW s \in Signals, CloseResolves(b, s)
    PROVE  IInv'
<1>1. s.base = b /\ calls[b] # <<>> /\ s = Head(calls[b])
    BY Served DEF CloseResolves
<1>2. TypeOK /\ s.action = "close" /\ (b \notin lapsed => Good(b))
    BY <1>1 DEF CloseResolves, Continues, IInv, Shape
<1> DEFINE d == SetManaged(disk, b, None)
<1>3. ~ IsUnresolved(None)
    BY DEF IsUnresolved
<1>4. Branch(b, d) /\ d.managed[b] = None
    BY <1>3, ManagedBranch
<1>5. Terminate(b, s, d) /\ Unrecorded /\ cooling' \subseteq Source
    BY <1>2 DEF CloseResolves, ClearManaged, Unrecorded, TypeOK
<1> HIDE DEF d
<1>6. HistoryTypes /\ HistoryOf(b)
    BY <1>2, <1>5, UnrecordedFacts DEF HistoryTypes
<1> QED BY <1>1, <1>2, <1>4, <1>5, <1>6, TerminatePreserves DEF Unrecorded, Good

LEMMA ContinuePreserves ==
    ASSUME IInv, NEW b \in Source, NEW s \in Signals, Continue(b, s)
    PROVE  IInv'
<1>1. CASE Throw(b, s)
    <2>1. s.base = b /\ calls[b] # <<>>
        BY <1>1, Served DEF Throw
    <2>2. Return(b, disk) /\ Unrecorded /\ cooling' \subseteq Source
        BY <1>1 DEF Throw, Unrecorded, IInv, TypeOK
    <2> QED BY <2>1, <2>2, UnchangedBranch, ReturnPreserves
<1>2. CASE EntrySkips(b, s)
    BY <1>2, EntrySkipsPreserves
<1>3. CASE OpenFills(b, s)
    BY <1>3, OpenFillsPreserves
<1>4. CASE ReupFills(b, s)
    BY <1>4, ReupFillsPreserves
<1>5. CASE CloseRejected(b, s) \/ ClosePartial(b, s)
    <2>1. Continues(b, s, "close") /\ op[b].held \in Position
        <3>1. Continues(b, s, "close")
            BY <1>5 DEF CloseRejected, ClosePartial
        <3>2. disk.managed[b] # None /\ op[b].held = disk.managed[b]
            BY <3>1 DEF Continues, IInv, Shape, Idle
        <3> QED BY <3>1, <3>2 DEF IInv, TypeOK, Disk
    <2>2. op[b].held.size \in Nat \ {0}
        BY <2>1, BoundsAssumption DEF Position
    <2>3. PICK size \in 1..op[b].held.size : LeaveUnresolved(b, s, size)
        BY <1>5, <2>2 DEF CloseRejected, ClosePartial
    <2> QED BY <2>1, <2>2, <2>3, LeaveUnresolvedPreserves
<1>6. CASE CloseResolves(b, s)
    BY <1>6, CloseResolvesPreserves
<1> QED BY <1>1, <1>2, <1>3, <1>4, <1>5, <1>6 DEF Continue

-----------------------------------------------------------------------------
(* Arrivals, the clock, and a crash between calls. *)

LEMMA ArrivalPreserves ==
    ASSUME IInv, NEW s \in Signals, NEW b \in Source, s.base = b,
           calls' = [calls EXCEPT ![b] = Append(@, s)],
           UNCHANGED <<disk, op, cooling, crashes, lapsed, applied, entries>>
    PROVE  IInv'
<1>1. TypeOK /\ Shape(b) /\ calls[b] \in Seq(Signals)
    BY DEF IInv, TypeOK
<1>2. /\ calls' \in [Source -> Seq(Signals)]
      /\ calls'[b] = Append(calls[b], s)
    BY <1>1 DEF TypeOK
<1>3. TypeOK'
    BY <1>1, <1>2 DEF TypeOK
<1>4. HistoryOf(b) /\ OthersGoOn(b) /\ Touches(b, disk, disk') /\ Forgotten(disk, disk') = {}
    BY <1>1, <1>2 DEF HistoryOf, OthersGoOn, Touches, Forgotten, Holds, TypeOK
<1>5. \A i \in DOMAIN calls'[b] : calls'[b][i].base = b
    BY <1>1, <1>2 DEF Shape
<1>6. calls[b] # <<>> => calls'[b] # <<>> /\ Head(calls'[b]) = Head(calls[b])
    BY <1>1, <1>2
<1>7. Shape(b)'
    BY <1>1, <1>5, <1>6 DEF Shape, Idle
<1>8. ASSUME b \notin lapsed' PROVE Good(b)'
    BY <1>1, <1>6, <1>8 DEF IInv, Good, Shape, Idle, CloseKeySeen
<1> QED BY <1>3, <1>4, <1>7, <1>8, Step

LEMMA CrashFacts ==
    ASSUME TypeOK, Crash
    PROVE  /\ Survived /\ UNCHANGED <<cooling, applied, entries>>
           /\ disk' \in Disk /\ disk'.managed = disk.managed /\ disk'.seen = disk.seen
           /\ \A b \in Members(disk'.handledClose) :
                 b \in Members(disk.handledClose) \/ Holds(disk.seen, LifecycleKey(b))
<1>1. disk \in Disk /\ disk' \in Loads(disk)
    BY DEF TypeOK, Crash, Restart
<1>2. Survived /\ UNCHANGED <<cooling, applied, entries>>
    BY DEF Crash, Restart, Killed, Survived
<1> QED BY <1>1, <1>2, LoadFacts

LEMMA CrashPreserves == ASSUME IInv, Crash PROVE IInv'
<1>1. /\ Survived /\ UNCHANGED <<cooling, applied, entries>>
      /\ disk' \in Disk /\ disk'.managed = disk.managed /\ disk'.seen = disk.seen
      /\ \A b \in Members(disk'.handledClose) :
            b \in Members(disk.handledClose) \/ Holds(disk.seen, LifecycleKey(b))
    BY CrashFacts DEF IInv
<1>2. TypeOK'
    BY <1>1 DEF IInv, TypeOK, Survived, Killed, Idle, Ops, Forgotten
<1>3. ASSUME NEW b \in Source PROVE Shape(b)' /\ (b \notin lapsed' => Good(b)')
    <2>1. calls'[b] = <<>> /\ op'[b] = Idle
        BY <1>1 DEF Survived, Killed
    <2>2. Shape(b)'
        BY <1>1, <2>1 DEF IInv, Shape, Idle
    <2>3. ASSUME b \notin lapsed' PROVE Good(b)'
        <3>1. Good(b) /\ b \notin Forgotten(disk, disk')
            BY <1>1, <2>3 DEF IInv, Survived
        <3>2. Holds(disk'.handledClose, b) <=> Holds(disk.handledClose, b)
            BY <1>1, <3>1, LifecycleSeen DEF Forgotten, Holds, Good
        <3> QED BY <1>1, <2>1, <3>1, <3>2 DEF Good, Idle, CloseKeySeen
    <2> QED BY <2>2, <2>3
<1> QED BY <1>2, <1>3 DEF IInv

LEMMA StillPreserves ==
    ASSUME IInv, cooling' \subseteq Source,
           UNCHANGED <<disk, calls, op, crashes, lapsed, applied, entries>>
    PROVE  IInv'
BY DEF IInv, TypeOK, Shape, Good, CloseKeySeen

LEMMA NextPreserves == IInv /\ [Next]_vars => IInv'
<1> SUFFICES ASSUME IInv, [Next]_vars PROVE IInv'
    OBVIOUS
<1>1. ASSUME NEW s \in Signals, Deliver(s) PROVE IInv'
    BY <1>1, KeyTypes, ArrivalPreserves DEF Deliver, Signal
<1>2. ASSUME NEW b \in Source, RetryPending(b) PROVE IInv'
    <2>1. disk.managed[b] \in Position \cup {None} /\ IsUnresolved(disk.managed[b])
        BY <1>2 DEF RetryPending, IsUnresolved, IInv, TypeOK, Disk
    <2>2. disk.managed[b].pending \in Signals /\ disk.managed[b].pending.base = b
        BY <2>1 DEF IsUnresolved, Position, IInv, Shape
    <2> QED BY <1>2, <2>2, ArrivalPreserves DEF RetryPending
<1>3. ASSUME NEW b \in Source, RetryDue(b) PROVE IInv'
    BY <1>3, StillPreserves DEF RetryDue, IInv, TypeOK
<1>4. ASSUME NEW b \in Source, NEW s \in Signals, Begin(b, s) PROVE IInv'
    BY <1>4, BeginPreserves
<1>5. ASSUME NEW b \in Source, NEW s \in Signals, Continue(b, s) PROVE IInv'
    BY <1>5, ContinuePreserves
<1>6. CASE Crash
    BY <1>6, CrashPreserves
<1>7. CASE UNCHANGED vars
    BY <1>7, StillPreserves DEF vars, IInv, TypeOK
<1> QED BY <1>1, <1>2, <1>3, <1>4, <1>5, <1>6, <1>7 DEF Next

-----------------------------------------------------------------------------
(* What the step of one source does to its copy. *)

MovesTo(b, position) ==
    /\ disk.managed[b] = None => ~ IsUnresolved(position)
    /\ IsUnresolved(disk.managed[b]) => position = None \/ IsUnresolved(position)

Effect(b) ==
    /\ Touches(b, disk, disk')
    /\ lapsed \cup Forgotten(disk, disk') \subseteq lapsed'
    /\ MovesTo(b, disk'.managed[b])
    /\ (disk.managed[b] # None /\ disk'.managed[b] = None /\ b \notin lapsed')
          => Holds(disk'.handledClose, b)

LEMMA TerminateEffect ==
    ASSUME NEW b \in Source, NEW s \in Signals, s.base = b,
           NEW d, Branch(b, d), Terminate(b, s, d), MovesTo(b, d.managed[b]),
           disk.managed[b] # None /\ d.managed[b] = None => s.action = "close"
    PROVE  Effect(b)
<1>1. /\ MarkedBy(s, d, disk')
      /\ \/ (Returned(b) \/ Survived) /\ disk' = MarkTerminal(d, s)
         \/ Torn(b)
    BY TerminateFacts DEF Branch
<1>2. Touches(b, disk, disk') /\ disk'.managed = d.managed
    BY <1>1, BranchTouches DEF MarkedBy
<1>3. lapsed \cup Forgotten(disk, disk') \subseteq lapsed' /\ (Torn(b) => b \in lapsed')
    BY <1>1 DEF Returned, Survived, Torn
<1>4. s.action = "close" => Torn(b) \/ Holds(disk'.handledClose, b)
    BY <1>1, MarkTerminalFacts DEF Branch, Holds
<1> QED BY <1>2, <1>3, <1>4 DEF Effect

LEMMA WrittenEffect ==
    ASSUME NEW b \in Source, NEW d, Branch(b, d), disk' = d, MovesTo(b, d.managed[b]),
           lapsed \cup Forgotten(disk, d) \subseteq lapsed',
           disk.managed[b] # None => d.managed[b] # None
    PROVE  Effect(b)
BY DEF Effect, Branch, Touches

LEMMA SameMove == ASSUME NEW b \in Source PROVE MovesTo(b, disk.managed[b])
BY DEF MovesTo, IsUnresolved

LEMMA SkipSeenEffect ==
    ASSUME IInv, NEW b \in Source, NEW s \in Signals, SkipSeen(b, s)
    PROVE  Effect(b)
<1> DEFINE marked == MarkKey(disk, s)
           last == IF s.action = "close" THEN MarkHandledClose(marked, b) ELSE marked
<1>1. s.base = b /\ disk \in Disk
    BY Served DEF SkipSeen, IInv, TypeOK
<1>2. WriteAll(b, last, {marked})
    BY DEF SkipSeen
<1>3. MarkedBy(s, disk, marked) /\ marked \in Disk
    BY <1>1, MarkKeyFacts DEF MarkedBy
<1> HIDE DEF marked
<1>4. MarkedBy(s, disk, last)
    BY <1>1, <1>3, MarkedByHandled
<1> HIDE DEF last
<1>5. MarkedBy(s, disk, disk') /\ lapsed \cup Forgotten(disk, disk') \subseteq lapsed'
    BY <1>1, <1>2, <1>3, <1>4, WriteAllFacts DEF MarkedBy, Returned, Survived, Torn
<1>6. Touches(b, disk, disk') /\ disk'.managed = disk.managed
    BY <1>1, <1>5, UnchangedBranch, BranchTouches DEF MarkedBy
<1> QED BY <1>5, <1>6, SameMove DEF Effect

LEMMA BeginEffect ==
    ASSUME IInv, NEW b \in Source, NEW s \in Signals, Begin(b, s)
    PROVE  Effect(b)
<1>1. s.base = b
    BY Served DEF Begin, SkipSeen, SkipClosedLifecycle, RejectEntry, DeferEntry, SkipManaged,
       BeginOpen, BeginReup, SkipUnownedClose, PostponeClose, BeginClose, IsEntry, IsClose, Admissible
<1>2. Branch(b, disk)
    BY UnchangedBranch
<1>3. Branch(b, MarkObservedOpen(disk, b)) /\ MarkObservedOpen(disk, b).managed = disk.managed
    BY ObservedBranch
<1>4. CASE SkipSeen(b, s)
    BY <1>4, SkipSeenEffect
<1>5. CASE SkipClosedLifecycle(b, s) \/ RejectEntry(b, s) \/ SkipUnownedClose(b, s)
    BY <1>1, <1>2, <1>5, SameMove, TerminateEffect
       DEF SkipClosedLifecycle, RejectEntry, SkipUnownedClose
<1>6. CASE SkipManaged(b, s)
    BY <1>1, <1>3, <1>6, SameMove, TerminateEffect DEF SkipManaged
<1>7. CASE DeferEntry(b, s) \/ PostponeClose(b, s)
    BY <1>2, <1>7, SameMove, WrittenEffect DEF DeferEntry, PostponeClose, Return
<1>8. CASE BeginOpen(b, s) \/ BeginReup(b, s)
    <2>1. disk' = MarkObservedOpen(disk, b) /\ lapsed' = lapsed
        BY <1>8 DEF BeginOpen, BeginReup, Await
    <2>2. Forgotten(disk, MarkObservedOpen(disk, b)) = {}
        BY <1>3 DEF Branch, Forgotten, Holds
    <2> QED BY <1>3, <2>1, <2>2, SameMove, WrittenEffect
<1>9. CASE BeginClose(b, s)
    <2>1. disk' = disk /\ lapsed' = lapsed
        BY <1>9 DEF BeginClose, Await
    <2>2. Forgotten(disk, disk) = {}
        BY DEF Forgotten, Holds
    <2> QED BY <1>2, <2>1, <2>2, SameMove, WrittenEffect
<1> QED BY <1>4, <1>5, <1>6, <1>7, <1>8, <1>9 DEF Begin

LEMMA ContinueEffect ==
    ASSUME IInv, NEW b \in Source, NEW s \in Signals, Continue(b, s)
    PROVE  Effect(b)
<1>1. s.base = b /\ s = Head(calls[b])
    BY Served DEF Continue, Throw, EntrySkips, OpenFills, ReupFills, CloseRejected, ClosePartial,
       CloseResolves
<1>2. Shape(b) /\ disk.managed[b] \in Position \cup {None}
    BY DEF IInv, TypeOK, Disk
<1>3. Branch(b, disk)
    BY UnchangedBranch
<1>4. CASE Throw(b, s)
    BY <1>3, <1>4, SameMove, WrittenEffect DEF Throw, Return
<1>5. CASE EntrySkips(b, s)
    BY <1>1, <1>3, <1>5, SameMove, TerminateEffect DEF EntrySkips
<1>6. CASE OpenFills(b, s)
    <2>1. disk.managed[b] = None
        BY <1>2, <1>6 DEF OpenFills, Continues, Shape
    <2>2. PICK size \in 1..MaxSize :
              Terminate(b, s, SetManaged(disk, b, [size |-> size, pending |-> None]))
        BY <1>6 DEF OpenFills
    <2> DEFINE position == [size |-> size, pending |-> None]
    <2>3. position \in Position /\ ~ IsUnresolved(position)
        BY DEF Position, IsUnresolved
    <2> HIDE DEF position
    <2>4. /\ Branch(b, SetManaged(disk, b, position))
          /\ SetManaged(disk, b, position).managed[b] = position
          /\ MovesTo(b, position)
        BY <2>1, <2>3, ManagedBranch DEF MovesTo, IsUnresolved
    <2> QED BY <1>1, <2>1, <2>2, <2>4, TerminateEffect DEF position
<1>7. CASE ReupFills(b, s)
    <2>1. disk.managed[b] \in Position /\ op[b].held = disk.managed[b]
        BY <1>2, <1>7 DEF ReupFills, Continues, Shape, Idle
    <2>2. PICK add \in 1..(MaxSize - op[b].held.size) :
              Terminate(b, s, SetManaged(disk, b, Grown(op[b].held, add)))
        BY <1>7 DEF ReupFills
    <2> DEFINE position == Grown(op[b].held, add)
    <2>3. position \in Position /\ position.pending = disk.managed[b].pending
        BY <2>1, BoundsAssumption DEF Position, Grown
    <2>4. position # None /\ disk.managed[b] # None
        BY <2>1, <2>3, NoneIsNoPosition DEF Position
    <2> HIDE DEF position
    <2>5. MovesTo(b, position) /\ (IsUnresolved(position) => position.pending.base = b)
        BY <1>2, <2>3, <2>4 DEF MovesTo, IsUnresolved, Shape
    <2>6. /\ Branch(b, SetManaged(disk, b, position))
          /\ SetManaged(disk, b, position).managed[b] = position
        BY <2>3, <2>5, ManagedBranch
    <2> QED BY <1>1, <2>2, <2>4, <2>5, <2>6, TerminateEffect DEF position
<1>8. CASE CloseRejected(b, s) \/ ClosePartial(b, s)
    <2>1. disk.managed[b] \in Position /\ op[b].held = disk.managed[b]
        BY <1>2, <1>8 DEF CloseRejected, ClosePartial, Continues, Shape, Idle
    <2>2. op[b].held.size \in 1..MaxSize
        BY <2>1 DEF Position
    <2>3. PICK size \in 1..op[b].held.size : LeaveUnresolved(b, s, size)
        BY <1>8, <2>2, BoundsAssumption DEF CloseRejected, ClosePartial
    <2>4. size \in 1..MaxSize
        BY <2>2, BoundsAssumption
    <2> DEFINE position == Unresolved(op[b].held, size, s)
    <2>5. position \in Position /\ position.pending = s
        BY <2>1, <2>4, UnresolvedFacts
    <2>6. position # None /\ disk.managed[b] # None
        BY <2>1, <2>5, NoneIsNoPosition DEF Position
    <2>7. Return(b, SetManaged(disk, b, position))
        BY <2>3 DEF LeaveUnresolved
    <2> HIDE DEF position
    <2>8. MovesTo(b, position) /\ (IsUnresolved(position) => position.pending.base = b)
        BY <1>1, <2>5, <2>6, NoneAssumption DEF MovesTo, IsUnresolved
    <2>9. /\ Branch(b, SetManaged(disk, b, position))
          /\ SetManaged(disk, b, position).managed[b] = position
        BY <2>5, <2>8, ManagedBranch
    <2> QED BY <2>6, <2>7, <2>8, <2>9, WrittenEffect DEF Return
<1>9. CASE CloseResolves(b, s)
    <2>1. s.action = "close"
        BY <1>1, <1>2, <1>9 DEF CloseResolves, Continues, Shape
    <2>2. ~ IsUnresolved(None) /\ MovesTo(b, None)
        BY DEF IsUnresolved, MovesTo
    <2>3. Branch(b, SetManaged(disk, b, None)) /\ SetManaged(disk, b, None).managed[b] = None
        BY <2>2, ManagedBranch
    <2> QED BY <1>1, <1>9, <2>1, <2>2, <2>3, TerminateEffect DEF CloseResolves, ClearManaged
<1> QED BY <1>4, <1>5, <1>6, <1>7, <1>8, <1>9 DEF Continue

(* A step of no source in particular leaves every copy as it is. *)
NoEffect ==
    /\ lapsed \cup Forgotten(disk, disk') \subseteq lapsed'
    /\ disk'.managed = disk.managed
    /\ \A c \in Members(disk'.handledClose) :
          c \in Members(disk.handledClose) \/ Holds(disk.seen, LifecycleKey(c))

LEMMA NextEffect ==
    ASSUME IInv, [Next]_vars
    PROVE  NoEffect \/ \E b \in Source : Effect(b)
<1>1. ASSUME NEW b \in Source, NEW s \in Signals, Begin(b, s) \/ Continue(b, s) PROVE Effect(b)
    BY <1>1, BeginEffect, ContinueEffect
<1>2. CASE \/ \E s \in Signals : Deliver(s)
           \/ \E b \in Source : RetryPending(b) \/ RetryDue(b)
           \/ UNCHANGED vars
    <2>1. disk' = disk /\ lapsed' = lapsed
        BY <1>2 DEF Deliver, RetryPending, RetryDue, vars
    <2> QED BY <2>1 DEF NoEffect, Forgotten, Holds
<1>3. CASE Crash
    BY <1>3, CrashFacts DEF IInv, NoEffect, Survived
<1> QED BY <1>1, <1>2, <1>3 DEF Next

-----------------------------------------------------------------------------
(* The theorems. *)

THEOREM Invariance == Spec => []IInv
BY InitIInv, NextPreserves, PTL DEF Spec

(***************************************************************************)
(* Every variable keeps its type, with windows and queues of any length.   *)
(***************************************************************************)
THEOREM TypeCorrect == Spec => []TypeOK
<1>1. IInv => TypeOK
    BY DEF IInv
<1> QED BY <1>1, Invariance, PTL

(***************************************************************************)
(* shadowReup and the close write back the position they read before their *)
(* awaits; nothing changed it meanwhile.                                   *)
(***************************************************************************)
THEOREM CapturedIsCurrentHolds == Spec => []CapturedIsCurrent
<1>1. IInv => CapturedIsCurrent
    BY DEF IInv, Shape, CapturedIsCurrent
<1> QED BY <1>1, Invariance, PTL

LEMMA CloseHandledMeans ==
    ASSUME NEW b \in Source, Good(b)
    PROVE  CloseHandled(b) <=> Holds(disk.handledClose, b)
<1>1. ASSUME NEW s \in Signals, s.base = b, s.action = "close", SignalWasSeen(disk, s)
      PROVE  CloseKeySeen(b)
    BY <1>1 DEF SignalWasSeen, ClosedLifecycleWasHandled, SignalKey, EventKey, LifecycleKey,
       CloseKeySeen, Holds
<1> QED BY <1>1 DEF CloseHandled, Good

(***************************************************************************)
(* A handled close leaves no exposure, and none is made again by a signal  *)
(* that arrives late (handledCloseBaseIds in executeUnlocked).             *)
(***************************************************************************)
THEOREM ClosedStaysFlatHolds == Spec => []ClosedStaysFlat
<1>1. IInv => ClosedStaysFlat
    BY CloseHandledMeans DEF IInv, Good, ClosedStaysFlat
<1> QED BY <1>1, Invariance, PTL

(* No source event changes a position twice (signalWasSeen). *)
THEOREM AppliedOnceHolds == Spec => []AppliedOnce
<1>1. \A e \in Events : e.base \in Source
    BY KeyTypes DEF Events, EventKey, Signal
<1>2. IInv => AppliedOnce
    BY <1>1 DEF IInv, Good, AppliedOnce
<1> QED BY <1>2, Invariance, PTL

(* No source trade is entered twice. *)
THEOREM EnteredOnceHolds == Spec => []EnteredOnce
<1>1. IInv => EnteredOnce
    BY DEF IInv, Good, EnteredOnce
<1> QED BY <1>1, Invariance, PTL

(***************************************************************************)
(* pendingSourceClose stays on a position until the position is closed.    *)
(***************************************************************************)
THEOREM UnresolvedUntilClosedHolds == Spec => UnresolvedUntilClosed
<1> DEFINE Kept == \A b \in Source :
                      IsUnresolved(disk.managed[b])
                          => disk.managed'[b] = None \/ IsUnresolved(disk.managed'[b])
<1>1. IInv /\ [Next]_vars => [Kept]_vars
    <2>1. ASSUME IInv, [Next]_vars, NEW b \in Source, Effect(b) PROVE Kept
        BY <2>1 DEF Effect, MovesTo, Touches
    <2>2. ASSUME NoEffect PROVE Kept
        BY <2>2 DEF NoEffect
    <2> QED BY <2>1, <2>2, NextEffect
<1>2. Spec => [][Kept]_vars
    BY <1>1, Invariance, PTL DEF Spec
<1> QED BY <1>2 DEF UnresolvedUntilClosed

-----------------------------------------------------------------------------
(* The copy of each source moves as CopyLifecycle allows. *)

Phases == [b \in Source |-> PhaseOf(b)]

(* The phase of a source of which nothing was lost. *)
PlainPhase(b) ==
    IF IsUnresolved(disk.managed[b]) THEN "unresolved"
    ELSE IF disk.managed[b] # None THEN "held"
    ELSE IF Holds(disk.handledClose, b) THEN "closed"
    ELSE "none"

PhasesPlain ==
    \A b \in Source \ lapsed :
        /\ PhaseOf(b) = PlainPhase(b)
        /\ Holds(disk.handledClose, b) => disk.managed[b] = None
        /\ Holds(disk.seen, LifecycleKey(b)) => Holds(disk.handledClose, b)

LEMMA PhasesArePlain == IInv => PhasesPlain
BY CloseHandledMeans, LifecycleSeen DEF IInv, PhasesPlain, PhaseOf, PlainPhase, Good

LEMMA PhasesStayPlain == IInv' => PhasesPlain'
BY PhasesArePlain, PTL

LEMMA PhaseFrame ==
    ASSUME PhasesPlain, PhasesPlain', NEW c \in Source, c \notin lapsed',
           lapsed \cup Forgotten(disk, disk') \subseteq lapsed',
           disk'.managed[c] = disk.managed[c],
           Holds(disk'.handledClose, c) =>
               Holds(disk.handledClose, c) \/ Holds(disk.seen, LifecycleKey(c))
    PROVE  PhaseOf(c)' = PhaseOf(c)
<1>1. c \notin lapsed /\ c \notin Forgotten(disk, disk')
    OBVIOUS
<1>2. Holds(disk'.handledClose, c) <=> Holds(disk.handledClose, c)
    BY <1>1 DEF PhasesPlain, Forgotten
<1>3. PlainPhase(c)' = PlainPhase(c)
    BY <1>2 DEF PlainPhase
<1> QED BY <1>1, <1>3 DEF PhasesPlain

LEMMA PhaseForward ==
    ASSUME PhasesPlain, PhasesPlain', NEW b \in Source, Effect(b), b \notin lapsed'
    PROVE  \/ PhaseOf(b)' = PhaseOf(b)
           \/ <<PhaseOf(b), PhaseOf(b)'>> \in Copy!Forward
<1>1. b \notin lapsed /\ b \notin Forgotten(disk, disk')
    BY DEF Effect
<1>2. Holds(disk.handledClose, b) => Holds(disk'.handledClose, b)
    BY <1>1 DEF Forgotten
<1>3. /\ PhaseOf(b) = PlainPhase(b)
      /\ PhaseOf(b)' = PlainPhase(b)'
      /\ Holds(disk.handledClose, b) => disk.managed[b] = None
      /\ Holds(disk'.handledClose, b) => disk'.managed[b] = None
    BY <1>1 DEF PhasesPlain
<1>4. /\ disk.managed[b] = None => ~ IsUnresolved(disk'.managed[b])
      /\ IsUnresolved(disk.managed[b]) => disk'.managed[b] = None \/ IsUnresolved(disk'.managed[b])
      /\ disk.managed[b] # None /\ disk'.managed[b] = None => Holds(disk'.handledClose, b)
    BY DEF Effect, MovesTo
<1>5. ~ IsUnresolved(None)
    BY DEF IsUnresolved
<1> QED BY <1>2, <1>3, <1>4, <1>5 DEF PlainPhase, Copy!Forward

LEMMA CopyInit == Init => Copy!Init
<1> SUFFICES ASSUME Init PROVE Phases = [b \in Source |-> "none"]
    BY DEF Copy!Init, Phases
<1>1. ASSUME NEW b \in Source PROVE PhaseOf(b) = "none"
    <2>1. lapsed = {} /\ disk.managed[b] = None /\ disk.handledClose = <<>> /\ disk.seen = <<>>
        BY DEF Init, EmptyDisk
    <2>2. ~ CloseHandled(b)
        BY <2>1 DEF CloseHandled, SignalWasSeen, ClosedLifecycleWasHandled, Holds, Members
    <2> QED BY <2>1, <2>2 DEF PhaseOf, IsUnresolved
<1> QED BY <1>1 DEF Phases

LEMMA CopyStep == IInv /\ IInv' /\ [Next]_vars => [Copy!Next]_Phases
<1> SUFFICES ASSUME IInv, IInv', [Next]_vars PROVE Copy!Next \/ Phases' = Phases
    OBVIOUS
<1>1. PhasesPlain /\ PhasesPlain' /\ lapsed' \in SUBSET Source
    BY PhasesArePlain, PhasesStayPlain DEF IInv, TypeOK
<1>2. CASE NoEffect
    <2>1. \A c \in Source : Phases'[c] = IF c \in lapsed' THEN "lapsed" ELSE Phases[c]
        BY <1>1, <1>2, PhaseFrame DEF NoEffect, Holds, Phases, PhaseOf
    <2>2. ASSUME NEW b \in Source PROVE Copy!Next
        <3>1. Phases' = [c \in Source |-> IF c \in lapsed' THEN "lapsed"
                                          ELSE IF c = b THEN Phases[b] ELSE Phases[c]]
            BY <2>1 DEF Phases
        <3>2. Phases[b] \in Copy!Phases
            BY DEF Phases, PhaseOf, Copy!Phases
        <3>3. Copy!Advance(b, Phases[b], lapsed')
            BY <3>1 DEF Copy!Advance, Phases
        <3> QED BY <1>1, <3>2, <3>3 DEF Copy!Next
    <2>3. CASE Source = {}
        BY <2>3 DEF Phases
    <2> QED BY <2>2, <2>3
<1>3. ASSUME NEW b \in Source, Effect(b) PROVE Copy!Next
    <2> DEFINE to == IF b \in lapsed' THEN Phases[b] ELSE Phases'[b]
    <2>1. \A c \in Source : Phases[c] \in Copy!Phases
        BY DEF Phases, PhaseOf, Copy!Phases
    <2>2. Phases'[b] \in Copy!Phases
        BY DEF Phases, PhaseOf, Copy!Phases
    <2>3. to = Phases[b] \/ <<Phases[b], to>> \in Copy!Forward
        BY <1>1, <1>3, PhaseForward DEF Phases
    <2>4. \A c \in Source : Phases'[c] = IF c \in lapsed' THEN "lapsed"
                                         ELSE IF c = b THEN to ELSE Phases[c]
        BY <1>1, <1>3, PhaseFrame DEF Effect, Touches, Holds, Phases, PhaseOf
    <2>5. Phases' = [c \in Source |-> IF c \in lapsed' THEN "lapsed"
                                      ELSE IF c = b THEN to ELSE Phases[c]]
        BY <2>4 DEF Phases
    <2>6. to \in Copy!Phases
        BY <2>1, <2>2
    <2> HIDE DEF to
    <2>7. Copy!Advance(b, to, lapsed')
        BY <2>3, <2>5 DEF Copy!Advance, Phases
    <2> QED BY <1>1, <2>6, <2>7 DEF Copy!Next
<1> QED BY <1>2, <1>3, NextEffect

(***************************************************************************)
(* The executor implements CopyLifecycle: through repeated deliveries on   *)
(* several surfaces, retries, crashes between any two writes and bounded   *)
(* windows, a copy only moves forward or is given up as lapsed.            *)
(***************************************************************************)
THEOREM ImplementsCopyLifecycleHolds == Spec => ImplementsCopyLifecycle
<1>1. IInv /\ IInv' /\ [Next]_vars => [Copy!Next]_[b \in Source |-> PhaseOf(b)]
    BY CopyStep DEF Phases
<1> QED BY CopyInit, Invariance, <1>1, PTL DEF Spec, ImplementsCopyLifecycle, Copy!Spec

=============================================================================
