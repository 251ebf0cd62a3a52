----------------------------- MODULE DirectWatch -----------------------------
(***************************************************************************)
(* How one elite portfolio is watched directly: scanEliteDirectWatch with  *)
(* hydrateDirectTarget, hydrateClosedHistory and                           *)
(* publishThenFlushCapturedSignals, on the records of EliteTargets.        *)
(*                                                                         *)
(* A scan judges the portfolio by the candidate state, then reads its OPEN *)
(* and its CLOSED investments concurrently.  Closes are executed while the *)
(* CLOSED rows are processed; opens and increases are captured, and        *)
(* executed only after every hydration of the scan succeeded.  A watermark *)
(* moves when everything before it was handled.  Meanwhile the source      *)
(* trades, the feed delivers the same events, and the process may be       *)
(* killed and restarted between any two steps.                             *)
(*                                                                         *)
(* Executing a signal is one step here; ShadowLifecycle has its steps.     *)
(* When a poll is due is a nondeterministic choice.  The state of the      *)
(* target is durable at every step.  Left out: other portfolios, which     *)
(* share nothing with this one but the scan; the page loop, of which only  *)
(* the outcome is kept; reporting.                                         *)
(***************************************************************************)
EXTENDS EliteTargets, FiniteSets

CONSTANTS
    Raisers,      \* the trades that the source may increase, once
    Closers,      \* the trades that the source may close
    FeedCopies,   \* the trades whose events the feed delivers, too
    MaxSignalAge, \* cfg.maxSignalAgeMs
    MaxTime       \* bound on the clock

ASSUME WatchAssumption ==
    /\ Raisers \subseteq Trades /\ Closers \subseteq Trades /\ FeedCopies \subseteq Trades
    /\ MaxSignalAge \in Nat /\ MaxTime \in Nat \ {0}

Opening(t) == <<t, "open">>
Raising(t) == <<t, "increase">>
Closing(t) == <<t, "close">>
Entries == Trades \X {"open", "increase"}
Events == Trades \X {"open", "increase", "close"}

VARIABLES
    now,          \* Date.now()
    candidate,    \* the candidate state file: its last observation, its verdict
    happened,     \* when each event of the source happened, 0 if it did not
    elite,        \* the entries that happened while the verdict was elite
    target,       \* the state of EliteDirectWatchState, in memory and on disk
    scan,         \* the scan in progress: memory, lost in a crash
    known,        \* per entry: not seen, or by the key of direct watch, or by the event key
    observed,     \* observedOpen
    managed,      \* trades with exposure
    handledClose, \* trades whose close was handled
    watched,      \* history: exposure entered while its CLOSED rows were watched
    swallowed     \* history: trades not seen before the OPEN baseline of this enrolment

source == <<happened, elite>>
executor == <<known, observed, managed, handledClose>>
history == <<watched, swallowed>>
vars == <<now, candidate, source, target, scan, executor, history>>

(***************************************************************************)
(* open, closed: the state of the two hydrations.  failed: nothing will be *)
(* copied by this scan, so what it captures is dropped.  rows: the CLOSED  *)
(* rows read, closes: those to execute, complete: their boundary was       *)
(* reached and every fresh row could become a signal.  captured: the       *)
(* signals of the OPEN rows, left: those not yet executed, created: the    *)
(* creation times of these rows, highWater: what their commit will set.    *)
(***************************************************************************)
Scan == [stage : {"idle", "hydrate", "flush"}, at : Nat, failed : BOOLEAN,
         open : {"off", "due"}, closed : {"off", "due", "read"},
         rows : SUBSET Trades, closes : SUBSET Trades, complete : BOOLEAN,
         captured : SUBSET Entries, left : SUBSET Entries,
         created : SUBSET Nat, highWater : Nat]

Idle == [stage |-> "idle", at |-> 0, failed |-> FALSE,
         open |-> "off", closed |-> "off", rows |-> {}, closes |-> {}, complete |-> FALSE,
         captured |-> {}, left |-> {}, created |-> {}, highWater |-> 0]

(***************************************************************************)
(* The types, with what the stages of enrolment mean: admission comes      *)
(* after the CLOSED watermark is established, and an enrolling portfolio   *)
(* is not admitted.                                                        *)
(***************************************************************************)
TypeOK ==
    /\ now \in 1 .. MaxTime
    /\ candidate \in [at : 1 .. now, elite : BOOLEAN]
    /\ happened \in [Events -> 0 .. now]
    /\ elite \subseteq Entries
    /\ target \in Target
    /\ scan \in Scan
    /\ known \in [Entries -> {"no", "direct", "event"}]
    /\ observed \subseteq Trades /\ managed \subseteq Trades /\ handledClose \subseteq Trades
    /\ watched \subseteq managed /\ swallowed \subseteq Trades
    /\ target.openInit => target.closedInit /\ target.intervals # <<>>
    /\ target.lifecycle \in {"NONE", "ENROLLING"} => ~ target.openInit
    /\ target.lifecycle = "ACTIVE" => target.openInit

Init ==
    /\ now = 1
    /\ candidate \in [at : {1}, elite : BOOLEAN]
    /\ happened = [e \in Events |-> 0]
    /\ elite = {}
    /\ target = NoTarget
    /\ scan = Idle
    /\ known = [e \in Entries |-> "no"]
    /\ observed = {} /\ managed = {} /\ handledClose = {}
    /\ watched = {} /\ swallowed = {}

-----------------------------------------------------------------------------
(* The source and the candidate selector. *)

Has(e) == happened[e] # 0
OpenRows == {t \in Trades : Has(Opening(t)) /\ ~ Has(Closing(t))}
ClosedRows == {t \in Trades : Has(Closing(t))}

(* updatedAt of an OPEN row. *)
UpdatedAt(t) == IF Has(Raising(t)) THEN happened[Raising(t)] ELSE happened[Opening(t)]

(* The source opens, increases or closes a trade. *)
Happen(e) ==
    /\ ~ Has(e)
    /\ e[2] = "open" \/ e[1] \in OpenRows
    /\ e[2] = "increase" => e[1] \in Raisers /\ happened[Opening(e[1])] < now
    /\ e[2] = "close" => e[1] \in Closers
    /\ happened' = [happened EXCEPT ![e] = now]
    /\ elite' = IF candidate.elite /\ e \in Entries THEN elite \cup {e} ELSE elite
    /\ UNCHANGED <<now, candidate, target, scan, executor, history>>

(* Time passes; the selector may publish a new observation. *)
Tick ==
    /\ now < MaxTime
    /\ now' = now + 1
    /\ candidate' \in {candidate} \cup [at : {now'}, elite : BOOLEAN]
    /\ UNCHANGED <<source, target, scan, executor, history>>

-----------------------------------------------------------------------------
(* The executor, as far as direct watch depends on it. *)

(* signalWasSeen of an entry, for its copy from direct watch and from the feed. *)
SeenDirect(e) == known[e] # "no"
SeenByFeed(e) == known[e] = "event"

(* An entry is handled for good: every surface will skip it. *)
Settle(e) == known' = [known EXCEPT ![e] = "event"]

Watching == target.lifecycle \in Resident /\ target.closedInit

(* The copy is filled. *)
Enter(t) ==
    /\ managed' = managed \cup {t}
    /\ watched' = IF Watching /\ t \in OpenRows /\ t \notin managed
                  THEN watched \cup {t} ELSE watched

(***************************************************************************)
(* executeUnlocked for an entry that was not seen.  captured: direct watch *)
(* made the signal, so its admission index is asked after the candidate    *)
(* state.  The last disjunct is every outcome that leaves the signal to be *)
(* tried again: an unavailable candidate or index, a failed await, or      *)
(* another surface that is executing the same event.                       *)
(***************************************************************************)
Execute(e, captured) ==
    LET t == e[1]
        expired == t \in handledClose \/ now > happened[e] + MaxSignalAge
        admitted == captured => AdmitsAt(target, happened[e]) IN
    /\ \/ /\ expired \/ e \notin elite \/ ~ admitted
          /\ Settle(e)
          /\ UNCHANGED <<observed, managed, watched>>
       \/ /\ ~ expired /\ e \in elite /\ admitted
          /\ observed' = observed \cup {t}
          /\ \/ Settle(e) /\ Enter(t)
             \/ Settle(e) /\ UNCHANGED <<managed, watched>>
             \/ UNCHANGED <<known, managed, watched>>
       \/ UNCHANGED <<known, observed, managed, watched>>
    /\ UNCHANGED <<handledClose, swallowed>>

(***************************************************************************)
(* executeUnlocked for a close: it ends the exposure, or is evidence of a  *)
(* trade that is not owned; or it was handled before, or must be retried.  *)
(***************************************************************************)
EndExposure(t) ==
    /\ t \notin handledClose
    /\ managed' = managed \ {t}
    /\ handledClose' = handledClose \cup {t}
    /\ watched' = watched \ {t}

ExecuteClose(t) ==
    /\ EndExposure(t) \/ UNCHANGED <<managed, handledClose, watched>>
    /\ UNCHANGED <<known, observed, swallowed>>

(* The feed delivers an entry. *)
FeedEntry(e) ==
    /\ e[1] \in FeedCopies /\ Has(e) /\ ~ SeenByFeed(e)
    /\ Execute(e, FALSE)
    /\ UNCHANGED <<now, candidate, source, target, scan>>

(* The feed delivers a close, or a remembered close is retried. *)
FeedClose(t) ==
    /\ t \in (FeedCopies \cap ClosedRows) \ handledClose
    /\ ExecuteClose(t)
    /\ UNCHANGED <<now, candidate, source, target, scan>>

-----------------------------------------------------------------------------
(* A scan. *)

Owned == managed # {}

(***************************************************************************)
(* The scan begins.  With a stale candidate state nothing is judged; a     *)
(* resident target is hydrated all the same, and nothing is copied.  A     *)
(* tombstone may have been dropped because too many newer ones are kept.   *)
(* OPEN is read only if the CLOSED cursor was initialized before.          *)
(***************************************************************************)
BeginScan(stale, verdict, dropped, open, closed) ==
    LET kept == IF dropped /\ target.lifecycle = "TOMBSTONE" THEN NoTarget ELSE target
        synced == IF stale THEN target ELSE Synced(kept, now, verdict, candidate.at, Owned) IN
    /\ scan.stage = "idle"
    /\ open = "due" => synced.lifecycle \in Resident /\ synced.closedInit
    /\ closed = "due" => synced.lifecycle \in Resident
    /\ synced.lifecycle \in Resident /\ ~ synced.closedInit => closed = "due"
    /\ target' = synced
    /\ swallowed' = IF synced.lifecycle = "ENROLLING" THEN {} ELSE swallowed
    /\ scan' = [Idle EXCEPT !.stage = "hydrate", !.at = now, !.failed = stale,
                            !.open = open, !.closed = closed]
    /\ UNCHANGED <<now, candidate, source, executor, watched>>

Verdicts == {IF candidate.elite THEN "elite" ELSE "demoted", "absent"}

Begin ==
    \E stale \in BOOLEAN, verdict \in Verdicts, dropped \in BOOLEAN,
       open \in {"off", "due"}, closed \in {"off", "due"} :
        BeginScan(stale, verdict, dropped, open, closed)

(***************************************************************************)
(* The signals of OPEN rows for a target that is not retiring: a row newer *)
(* than the watermark is an open, whatever happened to it since; an older  *)
(* one is an increase if its last update is newer.                         *)
(***************************************************************************)
OpenSignals(through) ==
    {Opening(t) : t \in {t \in OpenRows : happened[Opening(t)] > through}}
        \cup {Raising(t) : t \in {t \in OpenRows :
                 /\ happened[Opening(t)] <= through
                 /\ Has(Raising(t)) /\ happened[Raising(t)] > through}}

CreatedBetween(t, low, high) == low <= happened[Opening(t)] /\ happened[Opening(t)] <= high

(***************************************************************************)
(* retiringOpenDispositions: entries to execute, and entries whose direct  *)
(* key is marked without execution.                                        *)
(***************************************************************************)
PreDemotion == {t \in OpenRows : CreatedBetween(t, target.baselineAt, target.retiredAt)}

RaisedBeforeDemotion(t) ==
    /\ Has(Raising(t))
    /\ happened[Raising(t)] > target.through
    /\ happened[Raising(t)] <= target.retiredAt
    /\ ~ SeenDirect(Raising(t))

RetiringExecuted ==
    LET live == PreDemotion \ handledClose IN
    {Raising(t) : t \in {t \in live \cap managed : RaisedBeforeDemotion(t)}}
        \cup {Opening(t) : t \in {t \in live \ (managed \cup observed) : ~ SeenDirect(Opening(t))}}

RetiringIgnored ==
    LET live == PreDemotion \ handledClose IN
    {Opening(t) : t \in {t \in OpenRows \ PreDemotion : ~ SeenDirect(Opening(t))}}
        \cup {Raising(t) : t \in {t \in (live \cap observed) \ managed : RaisedBeforeDemotion(t)}}

Created == {happened[Opening(t)] : t \in OpenRows}
TimesOf(entries) == {happened[e] : e \in entries}

(* The captured signals of the OPEN rows wait for the end of the scan. *)
Capture(entries, created, highWater) ==
    scan' = IF scan.failed \/ entries = {} THEN [scan EXCEPT !.open = "off"]
            ELSE [scan EXCEPT !.open = "off", !.captured = entries, !.left = entries,
                              !.created = created, !.highWater = highWater]

(* The hydrations that fail make the scan fail. *)
Failed == [scan EXCEPT !.failed = TRUE, !.captured = {}, !.left = {},
                       !.created = {}, !.highWater = 0]

(* The whole OPEN endpoint was read for an enrolling target. *)
HydrateBaseline ==
    /\ scan.stage = "hydrate" /\ scan.open = "due"
    /\ target.lifecycle = "ENROLLING"
    /\ target' = OpenBaselined(target, {UpdatedAt(t) : t \in OpenRows}, scan.at)
    /\ swallowed' = {t \in OpenRows : ~ SeenDirect(Opening(t))}
    /\ Capture({}, {}, 0)
    /\ UNCHANGED <<now, candidate, source, executor, watched>>

(* ... for an active one, or one in grace. *)
HydrateOpen ==
    LET signals == OpenSignals(target.through) IN
    /\ scan.stage = "hydrate" /\ scan.open = "due"
    /\ target.lifecycle \in {"ACTIVE", "MISSING_GRACE"}
    /\ Capture(signals, {}, Latest(TimesOf(signals), target.through))
    /\ UNCHANGED <<now, candidate, source, target, executor, history>>

(* ... for a retiring one.  Without captured signals the poll is committed at once. *)
HydrateRetiring ==
    LET highWater == Latest(TimesOf(RetiringExecuted \cup RetiringIgnored), target.through) IN
    /\ scan.stage = "hydrate" /\ scan.open = "due"
    /\ target.lifecycle = "RETIRING"
    /\ known' = [e \in Entries |-> IF e \in RetiringIgnored THEN "direct" ELSE known[e]]
    /\ Capture(RetiringExecuted, Created, highWater)
    /\ target' = IF RetiringExecuted = {}
                 THEN RetirementPolled(OpenCommitted(target, highWater), Created, scan.at)
                 ELSE target
    /\ UNCHANGED <<now, candidate, source, observed, managed, handledClose, history>>

(* An OPEN or a CLOSED read fails, overflows or is out of order. *)
FailOpen ==
    /\ scan.stage = "hydrate" /\ scan.open = "due"
    /\ scan' = [Failed EXCEPT !.open = "off"]
    /\ \/ UNCHANGED known
       \/ /\ target.lifecycle = "RETIRING"
          /\ \E ignored \in SUBSET RetiringIgnored :
                known' = [e \in Entries |-> IF e \in ignored THEN "direct" ELSE known[e]]
    /\ UNCHANGED <<now, candidate, source, target, observed, managed, handledClose, history>>

(* The first CLOSED poll records the newest rows and executes none of them. *)
BaselineClosed ==
    LET newest == Latest({happened[Closing(t)] : t \in ClosedRows}, 0)
        rows == {t \in ClosedRows : happened[Closing(t)] = newest} IN
    /\ scan.stage = "hydrate" /\ scan.closed = "due"
    /\ ~ target.closedInit /\ target.lifecycle # "RETIRING"
    /\ target' = ClosedCommitted(target, [t \in rows |-> newest], scan.at)
    /\ scan' = [scan EXCEPT !.closed = "off"]
    /\ UNCHANGED <<now, candidate, source, executor, history>>

(***************************************************************************)
(* Later polls read back to the watermark.  Some fresh rows may be unready *)
(* (no closing price yet); if the boundary is not reached only the newest  *)
(* rows are read.  A target that retires before its first CLOSED poll      *)
(* starts at its baseline instant.                                         *)
(***************************************************************************)
ReadClosed(rows, unready) ==
    LET watermark == DrainStarted(target)
        fresh == {t \in rows : FreshClose(watermark, t, happened[Closing(t)])} IN
    /\ scan.stage = "hydrate" /\ scan.closed = "due"
    /\ target.closedInit \/ target.lifecycle = "RETIRING"
    /\ \A t \in rows, u \in ClosedRows \ rows : happened[Closing(t)] >= happened[Closing(u)]
    /\ unready \subseteq fresh
    /\ target' = watermark
    /\ LET complete == rows = ClosedRows /\ unready = {} IN
       scan' = [scan EXCEPT !.closed = "read", !.closes = fresh \ unready, !.complete = complete,
                            !.rows = IF complete THEN rows ELSE {}]
    /\ UNCHANGED <<now, candidate, source, executor, history>>

FailClosed ==
    /\ scan.stage = "hydrate" /\ scan.closed = "due"
    /\ scan' = [Failed EXCEPT !.closed = "off"]
    /\ target' \in {target} \cup {t \in {DrainStarted(target)} : t.lifecycle = "RETIRING"}
    /\ UNCHANGED <<now, candidate, source, executor, history>>

(* The closes are executed one after the other, the oldest first. *)
ExecuteClosed(t) ==
    /\ scan.closed = "read" /\ t \in scan.closes
    /\ \A u \in scan.closes : happened[Closing(t)] <= happened[Closing(u)]
    /\ ExecuteClose(t)
    /\ scan' = [scan EXCEPT !.closes = @ \ {t}]
    /\ UNCHANGED <<now, candidate, source, target>>

(* Mutant: closes that are to be retried are passed. *)
ClosedAttempted == scan.complete

(* Every fresh row must have become a handled close. *)
ClosedHandled ==
    /\ scan.complete
    /\ \A t \in scan.rows : FreshClose(target, t, happened[Closing(t)]) => t \in handledClose

CommitClosed ==
    /\ scan.closed = "read" /\ scan.closes = {}
    /\ IF ClosedHandled
       THEN /\ target' = ClosedCommitted(target, [t \in scan.rows |-> happened[Closing(t)]], scan.at)
            /\ scan' = [scan EXCEPT !.closed = "off", !.rows = {}, !.complete = FALSE]
       ELSE /\ scan' = [Failed EXCEPT !.closed = "off", !.rows = {}, !.complete = FALSE]
            /\ UNCHANGED target
    /\ UNCHANGED <<now, candidate, source, executor, history>>

(* Every hydration ended.  If one failed, or CLOSED is overdue, nothing is copied. *)
EndHydration ==
    /\ scan.stage = "hydrate" /\ scan.open = "off" /\ scan.closed = "off"
    /\ \/ scan' = Idle
       \/ /\ ~ scan.failed /\ scan.captured # {}
          /\ scan' = [scan EXCEPT !.stage = "flush"]
    /\ UNCHANGED <<now, candidate, source, target, executor, history>>

(* A captured signal is executed; a scan captures at most one of a trade. *)
Flush(e) ==
    /\ scan.stage = "flush" /\ e \in scan.left
    /\ scan' = [scan EXCEPT !.left = @ \ {e}]
    /\ \/ SeenDirect(e) /\ UNCHANGED <<executor, history>>
       \/ ~ SeenDirect(e) /\ Execute(e, TRUE)
    /\ UNCHANGED <<now, candidate, source, target>>

(* Mutant: a deferred signal does not hold the watermark. *)
AllTried == scan.left = {}

AllTerminal == \A e \in scan.captured : SeenDirect(e)

FlushedTarget ==
    LET committed == OpenCommitted(target, scan.highWater) IN
    IF target.lifecycle = "RETIRING"
    THEN RetirementPolled(committed, scan.created, scan.at) ELSE committed

CommitFlush ==
    /\ scan.stage = "flush" /\ scan.left = {}
    /\ target' = IF AllTerminal THEN FlushedTarget ELSE target
    /\ scan' = Idle
    /\ UNCHANGED <<now, candidate, source, executor, history>>

(* A restart finds the record in the snapshot, or in the journal as it was. *)
Crash ==
    /\ scan' = Idle
    /\ target' \in {target, Migrated(target)}
    /\ UNCHANGED <<now, candidate, source, executor, history>>
-----------------------------------------------------------------------------
Hydrate ==
    \/ HydrateBaseline \/ HydrateOpen \/ HydrateRetiring \/ FailOpen
    \/ BaselineClosed \/ FailClosed \/ CommitClosed
    \/ \E rows \in SUBSET ClosedRows, unready \in SUBSET ClosedRows : ReadClosed(rows, unready)
    \/ \E t \in Trades : ExecuteClosed(t)

Next ==
    \/ Tick
    \/ \E e \in Events : Happen(e)
    \/ \E e \in Entries : FeedEntry(e)
    \/ \E t \in Trades : FeedClose(t)
    \/ Begin \/ Hydrate \/ EndHydration
    \/ \E e \in Entries : Flush(e)
    \/ CommitFlush
    \/ Crash

Spec == Init /\ [][Next]_vars

ScanStep ==
    \/ Hydrate \/ EndHydration \/ CommitFlush
    \/ \E e \in Entries : Flush(e)

BeginClosed ==
    \E stale \in BOOLEAN, verdict \in Verdicts, open \in {"off", "due"} :
        BeginScan(stale, verdict, FALSE, open, "due")

CloseDelivered(t) == ExecuteClosed(t) /\ t \in handledClose'

(***************************************************************************)
(* A scan ends.  Polls of CLOSED become due again and again (a timer), a   *)
(* read does not always fail and lacks prices, and executing a close does  *)
(* not always have to be retried: no fault lasts for ever, nor does the    *)
(* process always crash before the same step.  Nothing is assumed of the   *)
(* feed, of the reads of OPEN, or of the selector.                         *)
(***************************************************************************)
Fairness ==
    /\ WF_vars(ScanStep)
    /\ SF_vars(BeginClosed)
    /\ SF_vars(ReadClosed(ClosedRows, {}))
    /\ \A t \in Trades : SF_vars(CloseDelivered(t))

FairSpec == Spec /\ Fairness

-----------------------------------------------------------------------------
(* Properties. *)

(***************************************************************************)
(* The admission history can always be loaded again: a history that is out *)
(* of order makes load fail closed, and the executor does not start.       *)
(***************************************************************************)
IntervalsOrdered == OrderedIntervals(target.intervals)

(***************************************************************************)
(* A close of exposure that was entered under watch is not passed over:    *)
(* the portfolio stays resident, and the row of the close is one that a    *)
(* CLOSED hydration still hands to the executor.                           *)
(***************************************************************************)
OwnedCloseStillReadable ==
    \A t \in watched \cap managed :
        /\ Watching
        /\ Has(Closing(t)) => FreshClose(target, t, happened[Closing(t)])

(***************************************************************************)
(* An OPEN watermark that hydration moves passes only entries that are     *)
(* handled by then, if only by being marked in the same step.  An increase *)
(* is also handled by copying the open of a row that includes it.  Of a    *)
(* retiring target, whose opens are found whatever the watermark is, it    *)
(* may pass increases, and opens another surface tried.                    *)
(***************************************************************************)
WatermarkPassesHandledOnly ==
    [][ \A t \in OpenRows :
          LET Passed(e) == target.through < happened[e] /\ happened[e] < target'.through IN
          target.lifecycle \in {"ACTIVE", "MISSING_GRACE", "RETIRING"} /\ t \notin handledClose =>
             /\ Passed(Opening(t)) =>
                    \/ SeenDirect(Opening(t))'
                    \/ target.lifecycle = "RETIRING" /\ t \in observed
             /\ Passed(Raising(t)) =>
                    \/ SeenDirect(Raising(t))'
                    \/ happened[Opening(t)] > target.through
                    \/ target.lifecycle = "RETIRING" ]_vars

(***************************************************************************)
(* A trade that was in an OPEN baseline is history: direct watch does not  *)
(* copy its open during the enrolment that swallowed it, unless the        *)
(* portfolio is retired before the open is too old to be copied.           *)
(***************************************************************************)
BaselineNotCopied ==
    [][\A t \in swallowed : Opening(t) \in scan.left \ scan'.left =>
          \/ managed' = managed
          \/ /\ target.lifecycle = "RETIRING"
             /\ target.retiredAt <= happened[Opening(t)] + MaxSignalAge]_vars

(***************************************************************************)
(* Watermarks survive grace, retirement, restarts, tombstones and new      *)
(* enrolments: neither moves back while the record, which keeps the        *)
(* instant of its first enrolment, is the same.                            *)
(***************************************************************************)
WatermarksNeverRetreat ==
    [][ target.lifecycle # "NONE" /\ target'.baselineAt = target.baselineAt =>
          /\ target'.through >= target.through
          /\ target.closedInit =>
                /\ target'.closedInit
                /\ \/ target'.closedThrough > target.closedThrough
                   \/ /\ target'.closedThrough = target.closedThrough
                      /\ target.closedIds \subseteq target'.closedIds ]_vars

(***************************************************************************)
(* A target is forgotten only when no trade opened during its selection is *)
(* open any more.                                                          *)
(***************************************************************************)
ForgottenWhenDrained ==
    [][target.lifecycle = "RETIRING" /\ target'.lifecycle = "TOMBSTONE" => PreDemotion = {}]_vars

(***************************************************************************)
(* A portfolio that is demoted loses nothing it still needs: its           *)
(* watermarks stand, and it is forgotten only when what was opened during  *)
(* its selection is closed.                                                *)
(***************************************************************************)
RetiresSafely == WatermarksNeverRetreat /\ ForgottenWhenDrained

(***************************************************************************)
(* Exposure that was entered under watch ends after its source closed,     *)
(* whatever becomes of the portfolio, even if the feed never says so.      *)
(***************************************************************************)
WatchedExposureUnwinds ==
    \A t \in Trades : (t \in watched /\ Has(Closing(t))) ~> (t \notin managed)

(***************************************************************************)
(* What direct watch may not admit is still the feed's to copy: denying a  *)
(* captured signal does not end the event for the feed                     *)
(* (elite-admission.ts:153-157).                                           *)
(***************************************************************************)
FeedStillAdmits ==
    [][ \A e \in scan.left \ scan'.left :
          /\ ~ SeenDirect(e) /\ e \in elite
          /\ e[1] \notin handledClose /\ now <= happened[e] + MaxSignalAge
          /\ ~ AdmitsAt(target, happened[e])
          => known'[e] # "event" ]_vars
=============================================================================
