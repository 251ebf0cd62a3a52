------------------------ MODULE SourceLifecycleQueue ------------------------
(***************************************************************************)
(* The per-source mutual exclusion of the notification executor:           *)
(* SourceLifecycleQueue.run of source-lifecycle.ts.  Every execute() call  *)
(* of the service, whether it comes from a feed surface, from direct       *)
(* watching or from the retry of an unresolved close, goes through run().  *)
(*                                                                         *)
(* The code keeps one promise per source, the tail of a chain.  A call     *)
(* remembers the tail it found (prior), installs a new tail that settles   *)
(* after prior and after its own release, waits for prior, works,          *)
(* releases, and forgets the chain if no later call has extended it.  This *)
(* is a queue lock in the style of CLH, one chain per source.              *)
(***************************************************************************)
EXTENDS Naturals, FiniteSets

CONSTANTS
    Call,    \* the invocations of run()
    Base,  \* sourceBaseId
    NoPromise     \* "no promise": the resolved promise a fresh chain starts from

ASSUME NoneIsFresh == NoPromise \notin Call /\ NoPromise \notin Base

VARIABLES
    pc,        \* where each invocation is
    source,    \* the source each invocation was made for
    prior,     \* the tail each invocation found
    tails,     \* the tails map: the last promise of each source's chain
    settled,   \* invocations whose tail promise has settled
    ticket,    \* history: the arrival number of each invocation
    arrivals   \* history: how many invocations have arrived

queueVars == <<pc, source, prior, tails, settled, ticket, arrivals>>

QueueInit ==
    /\ pc = [c \in Call |-> "idle"]
    /\ source = [c \in Call |-> NoPromise]
    /\ prior = [c \in Call |-> NoPromise]
    /\ tails = [b \in Base |-> NoPromise]
    /\ settled = {}
    /\ ticket = [c \in Call |-> 0]
    /\ arrivals = 0

(* Mutant: the new tail is installed before the prior one is read. *)
RunSetsBeforeGet(c, b) ==
    /\ pc[c] = "idle"
    /\ pc' = [pc EXCEPT ![c] = "waiting"]
    /\ source' = [source EXCEPT ![c] = b]
    /\ prior' = [prior EXCEPT ![c] = c]
    /\ tails' = [tails EXCEPT ![b] = c]
    /\ ticket' = [ticket EXCEPT ![c] = arrivals]
    /\ arrivals' = arrivals + 1
    /\ UNCHANGED settled

(***************************************************************************)
(* run(b, work) up to its first await: read the tail, install a new one.   *)
(***************************************************************************)
Run(c, b) ==
    /\ pc[c] = "idle"
    /\ pc' = [pc EXCEPT ![c] = "waiting"]
    /\ source' = [source EXCEPT ![c] = b]
    /\ prior' = [prior EXCEPT ![c] = tails[b]]
    /\ tails' = [tails EXCEPT ![b] = c]
    /\ ticket' = [ticket EXCEPT ![c] = arrivals]
    /\ arrivals' = arrivals + 1
    /\ UNCHANGED settled

PriorSettled(c) == prior[c] = NoPromise \/ prior[c] \in settled

(***************************************************************************)
(* "await prior" returns, work() begins.                                   *)
(***************************************************************************)
Start(c) ==
    /\ pc[c] = "waiting"
    /\ PriorSettled(c)
    /\ pc' = [pc EXCEPT ![c] = "running"]
    /\ UNCHANGED <<source, prior, tails, settled, ticket, arrivals>>

(* Mutants: always drop the entry, or never. *)
TailsAlwaysDropped(c) == [tails EXCEPT ![source[c]] = NoPromise]

(***************************************************************************)
(* The tails entry is dropped only while it is still this call's own tail. *)
(***************************************************************************)
TailsAfterRelease(c) ==
    IF tails[source[c]] = c THEN [tails EXCEPT ![source[c]] = NoPromise] ELSE tails

(***************************************************************************)
(* work() returned or threw; the finally block releases the turn.          *)
(***************************************************************************)
Release(c) ==
    /\ pc[c] = "running"
    /\ pc' = [pc EXCEPT ![c] = "released"]
    /\ tails' = TailsAfterRelease(c)
    /\ UNCHANGED <<source, prior, settled, ticket, arrivals>>

(***************************************************************************)
(* The microtask that settles this call's tail: its prior has settled and  *)
(* its turn is released.                                                   *)
(***************************************************************************)
Settle(c) ==
    /\ pc[c] = "released"
    /\ c \notin settled
    /\ PriorSettled(c)
    /\ settled' = settled \cup {c}
    /\ UNCHANGED <<pc, source, prior, tails, ticket, arrivals>>

QueueNext ==
    \/ \E c \in Call, b \in Base : Run(c, b)
    \/ \E c \in Call : Start(c)
    \/ \E c \in Call : Release(c)
    \/ \E c \in Call : Settle(c)

QueueSpec == QueueInit /\ [][QueueNext]_queueVars

(***************************************************************************)
(* Callbacks and microtasks are always run by the event loop, and work()   *)
(* ends: every await inside it is bounded by an HTTP timeout in shadow     *)
(* mode.  Nothing obliges a caller to arrive.                              *)
(***************************************************************************)
QueueFairness == \A c \in Call : WF_queueVars(Start(c)) /\ WF_queueVars(Release(c)) /\ WF_queueVars(Settle(c))

FairQueueSpec == QueueSpec /\ QueueFairness

-----------------------------------------------------------------------------
(* Type invariant. *)
QueueTypeOK ==
    /\ pc \in [Call -> {"idle", "waiting", "running", "released"}]
    /\ source \in [Call -> Base \cup {NoPromise}]
    /\ prior \in [Call -> Call \cup {NoPromise}]
    /\ tails \in [Base -> Call \cup {NoPromise}]
    /\ settled \subseteq Call
    /\ ticket \in [Call -> Nat]
    /\ arrivals \in Nat

Unfinished(c) == pc[c] \in {"waiting", "running"}

(***************************************************************************)
(* A call works only when it is the earliest unfinished arrival for its    *)
(* source.  So two calls for one source never overlap, and feed and direct *)
(* ingress of one source are served in the order they arrived ("Serializes *)
(* one source lifecycle across independent ingress paths").                *)
(***************************************************************************)
FifoMutualExclusion ==
    \A c, d \in Call :
        (pc[c] = "running" /\ Unfinished(d) /\ c # d /\ source[c] = source[d])
            => ticket[c] < ticket[d]

(***************************************************************************)
(* The tails map does not leak: a source with no unfinished call has no    *)
(* entry, and an entry always names a call that has not released.          *)
(***************************************************************************)
TailsNameUnfinishedCalls ==
    \A b \in Base :
        /\ tails[b] # NoPromise => Unfinished(tails[b])
        /\ tails[b] = NoPromise => ~ \E c \in Call : source[c] = b /\ Unfinished(c)

(***************************************************************************)
(* No call waits for ever behind calls that end: the chain never breaks    *)
(* and never waits in a circle.  (A call arrives once, so there comes a    *)
(* time when nobody waits.)                                                *)
(***************************************************************************)
EveryCallRuns == []<>(\A c \in Call : pc[c] # "waiting")

=============================================================================
