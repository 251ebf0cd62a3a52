------------------------------ MODULE FeedCursor ------------------------------
(***************************************************************************)
(* How one feed surface is read: fetchAndProcess of service.ts, with       *)
(* fetchFeedBackfill, planUnrecoverableGap and planSurfaceBaseline.        *)
(*                                                                         *)
(* The surface is a list of posts, the newest first; here post i is the    *)
(* i-th published one.  A read pages backward from the newest post to the  *)
(* saved cursor.  If the cursor is reached, every new signal is executed   *)
(* and the cursor moves to the newest post when all were handled.  If it   *)
(* is not reached within MaxPages pages, there is a gap: only closes of    *)
(* owned exposure are executed.  wake() lets one read run at a time, but   *)
(* every page and every execution is an await: posts are published and     *)
(* other surfaces execute signals in between.                              *)
(*                                                                         *)
(* Executing a signal is one step here; ShadowLifecycle has its steps, the *)
(* queue per source and the crashes inside it.  Left out: the bound of the *)
(* dedupe windows (in NotificationState), the suppression of a repeated    *)
(* poll, which only makes a read not happen, and evidence capture.         *)
(***************************************************************************)
EXTENDS Naturals, Sequences

CONSTANTS
    Source,    \* sourceBaseId
    Signals,   \* the signals that posts may carry
    None,      \* a post that carries no signal
    Limit,     \* posts per page (feedLimit)
    MaxPages,  \* pages per read (feedMaxPages)
    Live,      \* cfg.live
    MaxPosts,  \* bound on the published posts
    MaxCrashes \* bound on the crashes of a behaviour

Actions == {"open", "increase", "close"}

(* time is sourceTimeMs, or observedAtMs where the source gives none. *)
Signal == [base : Source, action : Actions, time : Nat]

ASSUME SignalsAssumption == Signals \subseteq Signal /\ None \notin Signals
ASSUME PagesAssumption == Limit \in Nat \ {0} /\ MaxPages \in Nat \ {0}
ASSUME BoundsAssumption == Live \in BOOLEAN /\ MaxPosts \in Nat /\ MaxCrashes \in Nat

VARIABLES
    feed,          \* the published posts: what each carries
    cursor,        \* feedCursors[surface]: a post, 0 for null
    baselined,     \* feedBaselines[surface] is present
    keys,          \* signals whose key of this surface is among the seen keys
    events,        \* signals whose sourceEventKey is among the seen keys
    closed,        \* sources whose closeLifecycleKey is among the seen keys
    handledClose,  \* handledCloseBaseIds
    managed,       \* sources with exposure
    pending,       \* closes remembered as pendingSourceClose
    fetch,         \* the read in progress: memory, lost in a crash
    floor,         \* history: the newest post when the surface was baselined
    crashes        \* how often the process was killed

executor == <<keys, events, closed, handledClose, managed, pending>>
vars == <<feed, cursor, baselined, keys, events, closed, handledClose, managed,
          pending, fetch, floor, crashes>>

Idle == [stage |-> "idle", saved |-> 0, newest |-> 0, low |-> 0, pages |-> 0,
         planned |-> {}, todo |-> {}]

Executing == {"gap", "baseline", "batch"}

(* fetched: the read reached its cursor, or had none; missed: it did not. *)
Stages == {"idle", "paging", "fetched", "missed"} \cup Executing

Fetch == [stage : Stages, saved : Nat, newest : Nat, low : Nat, pages : Nat,
          planned : SUBSET Signals, todo : SUBSET Signals]

Init ==
    /\ feed = <<>>
    /\ cursor = 0
    /\ baselined = FALSE
    /\ keys = {}
    /\ events = {}
    /\ closed = {}
    /\ handledClose = {}
    /\ managed = {}
    /\ pending = {}
    /\ fetch = Idle
    /\ floor = 0
    /\ crashes = 0

-----------------------------------------------------------------------------
(* The surface and the other ways in. *)

(* A post appears on the surface; a signal is posted at most once. *)
Publish(content) ==
    /\ Len(feed) < MaxPosts
    /\ content # None => \A i \in DOMAIN feed : feed[i] # content
    /\ feed' = Append(feed, content)
    /\ UNCHANGED <<cursor, baselined, executor, fetch, floor, crashes>>

IsClose(s) == s.action = "close"

(* signalWasSeen, for this surface's signal or for another's of the event. *)
WasSeen(s, here) ==
    \/ s \in events
    \/ here /\ s \in keys
    \/ IsClose(s) /\ s.base \in closed

(* The keys marked when a signal is terminal, and when it had been before. *)
MarkTerminal(s, here) ==
    /\ keys' = IF here THEN keys \cup {s} ELSE keys
    /\ events' = events \cup {s}
    /\ closed' = IF IsClose(s) THEN closed \cup {s.base} ELSE closed
    /\ handledClose' = IF IsClose(s) THEN handledClose \cup {s.base} ELSE handledClose

SkipSeen(s, here) ==
    /\ WasSeen(s, here)
    /\ keys' = IF here THEN keys \cup {s} ELSE keys
    /\ handledClose' = IF IsClose(s) THEN handledClose \cup {s.base} ELSE handledClose
    /\ UNCHANGED <<events, closed, managed, pending>>

(***************************************************************************)
(* execute(): the signal ends as handled, with or without a change of      *)
(* exposure, or stays unseen.                                              *)
(***************************************************************************)
ExecuteEntry(s, here) ==
    /\ ~ WasSeen(s, here) /\ ~ IsClose(s)
    /\ MarkTerminal(s, here)
    /\ \/ managed' = managed
       \/ s.base \notin handledClose /\ managed' = managed \cup {s.base}
    /\ UNCHANGED pending

ExecuteClose(s, here) ==
    /\ ~ WasSeen(s, here) /\ IsClose(s)
    /\ MarkTerminal(s, here)
    /\ managed' = managed \ {s.base}
    /\ pending' = {p \in pending : p.base # s.base}

(* No book, no depth, or depth for a part only. *)
LeaveUnresolved(s, here) ==
    /\ ~ WasSeen(s, here) /\ IsClose(s)
    /\ s.base \in managed
    /\ pending' = {p \in pending : p.base # s.base} \cup {s}
    /\ UNCHANGED <<keys, events, closed, handledClose, managed>>

(* A retryable denial of an entry, or an error: execute() swallows it. *)
LeaveUnseen(s, here) ==
    /\ ~ WasSeen(s, here)
    /\ IsClose(s) => s.base \in managed
    /\ UNCHANGED executor

Handle(s, here) ==
    SkipSeen(s, here) \/ ExecuteEntry(s, here) \/ ExecuteClose(s, here)

Execute(s, here) ==
    Handle(s, here) \/ LeaveUnresolved(s, here) \/ LeaveUnseen(s, here)

(***************************************************************************)
(* The event is executed from direct watching, from another surface, or,   *)
(* at the start of a read, as a pending close.                             *)
(***************************************************************************)
Elsewhere(s) ==
    /\ Execute(s, FALSE)
    /\ UNCHANGED <<feed, cursor, baselined, fetch, floor, crashes>>

-----------------------------------------------------------------------------
(* Reading pages. *)

BeginFetch ==
    /\ fetch.stage = "idle"
    /\ fetch' = [Idle EXCEPT !.stage = "paging", !.saved = cursor]
    /\ UNCHANGED <<feed, cursor, baselined, executor, floor, crashes>>

(* The newest post of the next page: the one before the last one read. *)
PageTop == IF fetch.pages = 0 THEN Len(feed) ELSE fetch.low - 1

PageBottom == IF PageTop > Limit THEN PageTop - Limit + 1 ELSE 1

OnPage(i) == PageBottom <= i /\ i <= PageTop

(* newestPostId is taken from the first page only. *)
NewestRead == IF fetch.pages = 0 THEN PageTop ELSE fetch.newest

(***************************************************************************)
(* One page arrives.  Without a saved cursor the first page is the last    *)
(* one; otherwise reading goes on until the cursor is on a page, the       *)
(* surface is exhausted, or MaxPages pages are read.                       *)
(***************************************************************************)
FetchPage ==
    /\ fetch.stage = "paging"
    /\ LET found == fetch.saved # 0 /\ OnPage(fetch.saved)
           reached == fetch.saved = 0 \/ found
           done == PageTop = 0 \/ fetch.pages + 1 >= MaxPages
       IN fetch' = [stage |-> IF reached THEN "fetched" ELSE IF done THEN "missed" ELSE "paging",
                    saved |-> fetch.saved,
                    newest |-> NewestRead,
                    low |-> IF found THEN fetch.saved + 1 ELSE PageBottom,
                    pages |-> fetch.pages + 1, planned |-> {}, todo |-> {}]
    /\ UNCHANGED <<feed, cursor, baselined, executor, floor, crashes>>

(* The request fails or is rate limited: fetchAndProcess throws. *)
FetchFails ==
    /\ fetch.stage = "paging"
    /\ fetch' = Idle
    /\ UNCHANGED <<feed, cursor, baselined, executor, floor, crashes>>

-----------------------------------------------------------------------------
(* What is done with the posts that were read. *)

Collected == {s \in Signals : \E i \in DOMAIN feed :
                 fetch.low <= i /\ i <= fetch.newest /\ feed[i] = s}

Proceed(stage, plan) ==
    fetch' = [fetch EXCEPT !.stage = stage, !.planned = plan, !.todo = plan]

(* planUnrecoverableGap: the unseen closes of owned exposure. *)
PlanGap ==
    /\ fetch.stage = "missed"
    /\ Proceed("gap", {s \in Collected : IsClose(s) /\ s \notin keys /\ s.base \in managed})
    /\ UNCHANGED <<feed, cursor, baselined, executor, floor, crashes>>

RecoverableCloses == {s \in Collected : IsClose(s) /\ s.base \in managed}

(***************************************************************************)
(* planSurfaceBaseline: what the first snapshot shows is history and only  *)
(* marked, except the closes of owned exposure.                            *)
(***************************************************************************)
PlanBaseline ==
    /\ fetch.stage = "fetched" /\ ~ baselined
    /\ keys' = keys \cup (Collected \ RecoverableCloses)
    /\ baselined' = TRUE
    /\ floor' = fetch.newest
    /\ Proceed("baseline", RecoverableCloses)
    /\ UNCHANGED <<feed, cursor, events, closed, handledClose, managed, pending, crashes>>

(* The signals of this surface that are not seen yet. *)
PlanBatch ==
    /\ fetch.stage = "fetched" /\ baselined
    /\ Proceed("batch", Collected \ keys)
    /\ UNCHANGED <<feed, cursor, baselined, executor, floor, crashes>>

Priority(action) == CASE action = "open" -> 0 [] action = "increase" -> 1 [] OTHER -> 2

Precedes(s, t) ==
    \/ s.time < t.time
    \/ s.time = t.time /\ Priority(s.action) < Priority(t.action)

(***************************************************************************)
(* runSignalBatchBySource: sources in parallel, the signals of one source  *)
(* in the order of their source times.                                     *)
(***************************************************************************)
Turn(s) ==
    /\ fetch.stage \in Executing
    /\ s \in fetch.todo
    /\ \A t \in fetch.todo : t.base = s.base => ~ Precedes(t, s)
    /\ fetch' = [fetch EXCEPT !.todo = @ \ {s}]
    /\ UNCHANGED <<feed, cursor, baselined, floor, crashes>>

ExecuteNext(s) == Turn(s) /\ Execute(s, TRUE)

EndRead(stage) ==
    /\ fetch.stage = stage
    /\ fetch.todo = {}
    /\ fetch' = Idle
    /\ UNCHANGED <<feed, executor, floor, crashes>>

(* setFeedCursor also marks the surface as baselined. *)
SetFeedCursor(i) == cursor' = i /\ baselined' = TRUE
KeepFeedCursor == UNCHANGED <<cursor, baselined>>

(* Mutant: a gap is never rebased, whatever the mode. *)
NeverRebaseGap == FALSE

CanProspectivelyRebaseGap == ~ Live /\ fetch.newest # 0

EndGap ==
    /\ EndRead("gap")
    /\ IF CanProspectivelyRebaseGap THEN SetFeedCursor(fetch.newest) ELSE KeepFeedCursor

(* closedLifecycleWasHandled, with handledCloseBaseIds. *)
ClosedLifecycleWasHandled(s) ==
    s \in events \/ s.base \in closed \/ s.base \in handledClose

EndBaseline ==
    /\ EndRead("baseline")
    /\ IF fetch.newest # 0 /\ \A s \in fetch.planned : ClosedLifecycleWasHandled(s)
       THEN SetFeedCursor(fetch.newest)
       ELSE KeepFeedCursor

(* Mutant: the cursor moves when some signal was handled. *)
AnyHandled == fetch.planned = {} \/ \E s \in fetch.planned : WasSeen(s, TRUE)

AllHandled == \A s \in fetch.planned : WasSeen(s, TRUE)

EndBatch ==
    /\ EndRead("batch")
    /\ IF fetch.newest # 0 /\ AllHandled THEN SetFeedCursor(fetch.newest) ELSE KeepFeedCursor

-----------------------------------------------------------------------------
(* The process is killed between two writes and restarted. *)

Restart ==
    /\ crashes < MaxCrashes
    /\ crashes' = crashes + 1
    /\ fetch' = Idle

(* Mutant: setFeedCursor does not save. *)
CrashForgetsCursor ==
    /\ Restart
    /\ cursor' = 0
    /\ UNCHANGED <<feed, baselined, executor, floor>>

Crash ==
    /\ Restart
    /\ UNCHANGED <<feed, cursor, baselined, executor, floor>>

(* A baseline marks its signals one by one and itself last. *)
CrashInBaseline ==
    /\ Restart
    /\ fetch.stage = "fetched" /\ ~ baselined
    /\ \E marked \in SUBSET (Collected \ RecoverableCloses) : keys' = keys \cup marked
    /\ UNCHANGED <<feed, cursor, baselined, events, closed, handledClose, managed,
                   pending, floor>>

-----------------------------------------------------------------------------
Next ==
    \/ \E content \in Signals \cup {None} : Publish(content)
    \/ \E s \in Signals : Elsewhere(s)
    \/ BeginFetch
    \/ FetchPage
    \/ FetchFails
    \/ PlanGap
    \/ PlanBaseline
    \/ PlanBatch
    \/ \E s \in Signals : ExecuteNext(s)
    \/ EndGap
    \/ EndBaseline
    \/ EndBatch
    \/ Crash
    \/ CrashInBaseline

Spec == Init /\ [][Next]_vars

(***************************************************************************)
(* The poll loop reads for ever and requests have timeouts.  A read that   *)
(* is made again and again gets all its pages some time, and an execution  *)
(* succeeds some time: an entry that is retried for long enough is stale,  *)
(* which is terminal, and a close finds a book (the market assumption of   *)
(* ShadowLifecycle).                                                       *)
(***************************************************************************)
Fairness ==
    /\ WF_vars(BeginFetch)
    /\ \A n \in 0..(MaxPages - 1) : SF_vars(fetch.pages = n /\ FetchPage)
    /\ WF_vars(PlanGap \/ PlanBaseline \/ PlanBatch)
    /\ WF_vars(\E s \in Signals : ExecuteNext(s))
    /\ \A s \in Signals : SF_vars(Turn(s) /\ Handle(s, TRUE))
    /\ WF_vars(EndGap \/ EndBaseline \/ EndBatch)

FairSpec == Spec /\ Fairness

-----------------------------------------------------------------------------
(* Type invariant. *)
TypeOK ==
    /\ feed \in Seq(Signals \cup {None})
    /\ cursor \in Nat
    /\ baselined \in BOOLEAN
    /\ keys \subseteq Signals /\ events \subseteq Signals /\ pending \subseteq Signals
    /\ closed \subseteq Source /\ handledClose \subseteq Source /\ managed \subseteq Source
    /\ fetch \in Fetch
    /\ floor \in Nat
    /\ crashes \in Nat

Passed(from, to) == {feed[i] : i \in {j \in DOMAIN feed : from < j /\ j <= to}} \ {None}

(***************************************************************************)
(* Outside a gap, the cursor of a surface moves over a signal only when    *)
(* that signal is handled: a signal that was published while pages were    *)
(* read, that failed or was deferred, or that was overtaken by another     *)
(* surface, is read again ("the durable cursor still pins every unread     *)
(* post", service.ts:1564).                                                *)
(***************************************************************************)
CursorPassesHandledOnly ==
    [][(fetch.stage = "batch" /\ cursor # 0)
          => \A s \in Passed(cursor, cursor') : WasSeen(s, TRUE)]_vars

(* The high-water cursor of a surface never moves back. *)
CursorNeverRetreats == [][cursor' >= cursor]_vars

(***************************************************************************)
(* The cursor of a surface never retreats, and passes only what was        *)
(* handled or will be retried, whatever gaps, pages and crashes come.      *)
(***************************************************************************)
CursorAdvances == CursorPassesHandledOnly /\ CursorNeverRetreats

(***************************************************************************)
(* In shadow mode no signal, failure, gap or crash pins the cursor for     *)
(* ever: it comes to pass every post that the surface has shown.           *)
(***************************************************************************)
CursorCatchesUp == []<>(cursor >= Len(feed))

(***************************************************************************)
(* "A missing historical cursor must never make a close already visible on *)
(* a fetched page disappear" (service.ts:1611): when the cursor passes the *)
(* owned closes of a gap, each is handled or will be retried.              *)
(***************************************************************************)
GapKeepsVisibleCloses ==
    [][(fetch.stage = "gap" /\ cursor' # cursor)
          => \A s \in fetch.planned :
                s.base \in managed => \E p \in pending : p.base = s.base]_vars

(***************************************************************************)
(* A retryable close at the baseline "cannot leave the surface in startup  *)
(* mode and swallow later fresh OPEN/ADD events" (DECISIONS.md:71): the    *)
(* cursor passes a signal posted after the baseline only when handled.     *)
(***************************************************************************)
FreshSignalsNotSwallowed ==
    [][fetch.stage = "batch"
          => \A s \in Passed(IF cursor = 0 THEN floor ELSE cursor, cursor') : WasSeen(s, TRUE)]_vars

=============================================================================
