--------------------------- MODULE FeedCursorProofs ---------------------------
(***************************************************************************)
(* Proofs about FeedCursor, for every surface, page size and bound: the    *)
(* type invariant, that the high-water cursor never moves back, and that   *)
(* outside a gap it moves over handled signals only.                       *)
(***************************************************************************)
EXTENDS FeedCursor, TLAPS

(***************************************************************************)
(* What the memory of a read says while the surface grows under it.        *)
(***************************************************************************)
ReadFromCursor == fetch.stage # "idle" => fetch.saved = cursor

PagesInFeed ==
    /\ cursor <= Len(feed)
    /\ fetch.newest <= Len(feed)
    /\ (fetch.stage # "idle" /\ fetch.pages # 0) => fetch.low >= 1 /\ cursor <= fetch.newest
    /\ (fetch.stage \notin {"idle", "paging"}) => fetch.pages # 0

ReachedMeansContiguous ==
    (fetch.saved # 0 /\ fetch.stage \in {"fetched", "baseline", "batch"})
        => fetch.low <= fetch.saved + 1

BatchCoversRead ==
    fetch.stage = "batch" => Collected \subseteq keys \cup fetch.planned

IInv == TypeOK /\ ReadFromCursor /\ PagesInFeed /\ ReachedMeansContiguous /\ BatchCoversRead

(* What the actions have in common. *)
LEMMA ExecuteFacts ==
    ASSUME TypeOK, NEW s \in Signals, NEW here \in BOOLEAN, Execute(s, here)
    PROVE  /\ keys \subseteq keys' /\ keys' \subseteq Signals
           /\ events' \subseteq Signals /\ pending' \subseteq Signals
           /\ closed' \subseteq Source /\ handledClose' \subseteq Source
           /\ managed' \subseteq Source
<1>1. s.base \in Source
  BY SignalsAssumption DEF Signal
<1>2. CASE SkipSeen(s, here)
  BY <1>1, <1>2 DEF SkipSeen, TypeOK
<1>3. CASE ExecuteEntry(s, here)
  BY <1>1, <1>3 DEF ExecuteEntry, MarkTerminal, TypeOK
<1>4. CASE ExecuteClose(s, here)
  BY <1>1, <1>4 DEF ExecuteClose, MarkTerminal, TypeOK
<1>5. CASE LeaveUnresolved(s, here)
  BY <1>1, <1>5 DEF LeaveUnresolved, TypeOK
<1>6. CASE LeaveUnseen(s, here)
  BY <1>6 DEF LeaveUnseen, executor, TypeOK
<1>. QED  BY <1>2, <1>3, <1>4, <1>5, <1>6 DEF Execute, Handle

LEMMA IdleType == Idle \in Fetch
BY DEF Idle, Fetch, Executing, Stages

(* A read that ends, or a process that is killed, keeps no memory of pages. *)
LEMMA IdleKeeps ==
    ASSUME fetch' = Idle, cursor' \in Nat, cursor' <= Len(feed'), Len(feed') \in Nat
    PROVE  ReadFromCursor' /\ PagesInFeed' /\ ReachedMeansContiguous' /\ BatchCoversRead'
BY DEF Idle, ReadFromCursor, PagesInFeed, ReachedMeansContiguous, BatchCoversRead

LEMMA PageFacts ==
    ASSUME TypeOK, PagesInFeed, fetch.stage = "paging"
    PROVE  /\ PageTop \in Nat /\ PageBottom \in Nat \ {0}
           /\ NewestRead \in Nat /\ NewestRead <= Len(feed)
           /\ cursor <= NewestRead
BY PagesAssumption DEF TypeOK, PagesInFeed, PageTop, PageBottom, NewestRead, Fetch

LEMMA CollectedKept ==
    ASSUME TypeOK, PagesInFeed, NEW content \in Signals \cup {None}, feed' = Append(feed, content),
           fetch' = fetch
    PROVE  Collected' \subseteq Collected
<1>. SUFFICES ASSUME NEW s \in Signals, NEW i \in DOMAIN feed',
                     fetch.low <= i, i <= fetch.newest, feed'[i] = s
              PROVE  s \in Collected
  BY DEF Collected
<1>1. Len(feed) \in Nat /\ DOMAIN feed = 1..Len(feed) /\ DOMAIN feed' = 1..(Len(feed) + 1)
  BY DEF TypeOK
<1>2. fetch.newest \in Nat /\ fetch.newest <= Len(feed)
  BY DEF TypeOK, Fetch, PagesInFeed
<1>3. i \in DOMAIN feed /\ feed[i] = s
  BY <1>1, <1>2 DEF TypeOK
<1>. QED  BY <1>3 DEF Collected

-----------------------------------------------------------------------------
LEMMA InitInvariant == Init => IInv
<1>. SUFFICES ASSUME Init PROVE IInv
  OBVIOUS
<1>0. <<>> \in Seq(Signals \cup {None})
  OBVIOUS
<1>1. TypeOK
  BY <1>0, IdleType DEF Init, TypeOK
<1>2. ReadFromCursor /\ ReachedMeansContiguous /\ BatchCoversRead
  BY DEF Init, Idle, ReadFromCursor, ReachedMeansContiguous, BatchCoversRead
<1>3. Len(feed) = 0
  BY DEF Init
<1>4. PagesInFeed
  BY <1>3 DEF Init, Idle, PagesInFeed
<1>. QED  BY <1>1, <1>2, <1>4 DEF IInv

LEMMA PublishKeeps ==
    ASSUME IInv, NEW content \in Signals \cup {None}, Publish(content)
    PROVE  IInv'
<1>. USE DEF IInv, Publish, executor
<1>1. Len(feed) \in Nat /\ Len(feed') = Len(feed) + 1 /\ feed' \in Seq(Signals \cup {None})
  BY DEF TypeOK
<1>2. TypeOK'
  BY <1>1 DEF TypeOK
<1>3. ReadFromCursor' /\ ReachedMeansContiguous'
  BY DEF ReadFromCursor, ReachedMeansContiguous
<1>4. PagesInFeed'
  BY <1>1 DEF PagesInFeed, TypeOK, Fetch
<1>5. BatchCoversRead'
  BY CollectedKept DEF BatchCoversRead
<1>. QED  BY <1>2, <1>3, <1>4, <1>5

LEMMA ElsewhereKeeps ==
    ASSUME IInv, NEW s \in Signals, Elsewhere(s)
    PROVE  IInv'
<1>1. Execute(s, FALSE) /\ UNCHANGED <<feed, cursor, baselined, fetch, floor, crashes>>
  BY DEF Elsewhere
<1>2. TypeOK' /\ keys \subseteq keys'
  BY <1>1, ExecuteFacts DEF IInv, TypeOK
<1>3. ReadFromCursor' /\ PagesInFeed' /\ ReachedMeansContiguous'
  BY <1>1 DEF IInv, ReadFromCursor, PagesInFeed, ReachedMeansContiguous
<1>4. BatchCoversRead'
  BY <1>1, <1>2 DEF IInv, BatchCoversRead, Collected
<1>. QED  BY <1>2, <1>3, <1>4 DEF IInv

LEMMA BeginFetchKeeps ==
    ASSUME IInv, BeginFetch
    PROVE  IInv'
<1>. USE DEF IInv, BeginFetch, executor, Idle
<1>1. TypeOK'
  BY DEF TypeOK, Fetch, Executing, Stages
<1>2. ReadFromCursor' /\ PagesInFeed' /\ ReachedMeansContiguous' /\ BatchCoversRead'
  BY DEF TypeOK, ReadFromCursor, PagesInFeed, ReachedMeansContiguous, BatchCoversRead
<1>. QED  BY <1>1, <1>2

LEMMA FetchPageKeeps ==
    ASSUME IInv, FetchPage
    PROVE  IInv'
<1>. DEFINE found == fetch.saved # 0 /\ OnPage(fetch.saved)
            reached == fetch.saved = 0 \/ found
            done == PageTop = 0 \/ fetch.pages + 1 >= MaxPages
<1>1. /\ fetch.stage = "paging"
      /\ fetch' = [stage |-> IF reached THEN "fetched" ELSE IF done THEN "missed" ELSE "paging",
                   saved |-> fetch.saved,
                   newest |-> NewestRead,
                   low |-> IF found THEN fetch.saved + 1 ELSE PageBottom,
                   pages |-> fetch.pages + 1, planned |-> {}, todo |-> {}]
      /\ UNCHANGED <<feed, cursor, baselined, keys, events, closed, handledClose, managed,
                     pending, floor, crashes>>
  BY DEF FetchPage, executor
<1>2. /\ PageTop \in Nat /\ PageBottom \in Nat \ {0}
      /\ NewestRead \in Nat /\ NewestRead <= Len(feed) /\ cursor <= NewestRead
  BY <1>1, PageFacts DEF IInv
<1>3. fetch \in Fetch
  BY DEF IInv, TypeOK
<1>11. (IF found THEN fetch.saved + 1 ELSE PageBottom) \in Nat
  BY <1>2, <1>3 DEF Fetch
<1>4. fetch' \in Fetch
  <2>. HIDE DEF found, reached, done
  <2>1. (IF reached THEN "fetched" ELSE IF done THEN "missed" ELSE "paging") \in Stages
    BY DEF Stages
  <2>2. fetch.pages + 1 \in Nat /\ fetch.saved \in Nat
    BY <1>3 DEF Fetch
  <2>. QED  BY <1>1, <1>2, <1>3, <1>11, <2>1, <2>2 DEF Fetch
<1>5. TypeOK'
  <2>. HIDE DEF found, reached, done
  <2>. QED  BY <1>1, <1>4 DEF IInv, TypeOK
<1>6. ReadFromCursor' /\ BatchCoversRead'
  BY <1>1, <1>3 DEF IInv, ReadFromCursor, BatchCoversRead, Fetch
<1>7. /\ fetch'.pages = fetch.pages + 1 /\ fetch'.newest = NewestRead
      /\ fetch'.low = IF found THEN fetch.saved + 1 ELSE PageBottom
      /\ fetch'.saved = fetch.saved
      /\ fetch'.stage = IF reached THEN "fetched" ELSE IF done THEN "missed" ELSE "paging"
  BY <1>1, <1>3 DEF Fetch
<1>8. fetch.pages \in Nat /\ fetch.saved \in Nat /\ Len(feed) \in Nat /\ cursor \in Nat
  BY <1>3 DEF IInv, TypeOK, Fetch
<1>9. PagesInFeed'
  BY <1>1, <1>2, <1>7, <1>8 DEF IInv, PagesInFeed
<1>10. ReachedMeansContiguous'
  <2>. SUFFICES ASSUME fetch'.saved # 0, fetch'.stage \in {"fetched", "baseline", "batch"}
                PROVE  fetch'.low <= fetch'.saved + 1
    BY DEF ReachedMeansContiguous
  <2>1. found
    BY <1>7
  <2>. QED  BY <2>1, <1>7, <1>8
<1>. QED  BY <1>5, <1>6, <1>9, <1>10 DEF IInv

(* Actions that end the read without moving the cursor. *)
LEMMA ReadLostKeeps ==
    ASSUME IInv, FetchFails \/ Crash \/ CrashInBaseline
    PROVE  IInv'
<1>1. fetch' = Idle /\ UNCHANGED <<feed, cursor>>
  BY DEF FetchFails, Crash, CrashInBaseline, Restart
<1>2. TypeOK'
  <2>1. CASE FetchFails
    BY <2>1, IdleType DEF IInv, TypeOK, FetchFails, executor
  <2>2. CASE Crash
    BY <2>2, IdleType DEF IInv, TypeOK, Crash, Restart, executor
  <2>3. CASE CrashInBaseline
    BY <2>3, IdleType DEF IInv, TypeOK, CrashInBaseline, Restart, Collected
  <2>. QED  BY <2>1, <2>2, <2>3
<1>3. Len(feed) \in Nat /\ cursor \in Nat /\ cursor <= Len(feed)
  BY DEF IInv, TypeOK, PagesInFeed
<1>. QED  BY <1>1, <1>2, <1>3, IdleKeeps DEF IInv

(* Actions that plan what to do with the posts read. *)
LEMMA PlanKeeps ==
    ASSUME IInv, PlanGap \/ PlanBaseline \/ PlanBatch
    PROVE  IInv'
<1>1. PICK stage \in Executing, plan \in SUBSET Signals :
         Proceed(stage, plan) /\ (stage # "gap" => fetch.stage = "fetched")
  BY DEF PlanGap, PlanBaseline, PlanBatch, Collected, RecoverableCloses, Executing, Stages
<1>2. fetch.stage \in {"fetched", "missed"} /\ fetch \in Fetch /\ UNCHANGED <<feed, cursor>>
  BY DEF PlanGap, PlanBaseline, PlanBatch, IInv, TypeOK
<1>3. fetch' = [fetch EXCEPT !.stage = stage, !.planned = plan, !.todo = plan]
  BY <1>1 DEF Proceed
<1>4. fetch' \in Fetch
  BY <1>2, <1>3 DEF Fetch, Stages
<1>5. TypeOK'
  <2>1. CASE PlanGap
    BY <1>4, <2>1 DEF IInv, TypeOK, PlanGap, executor
  <2>2. CASE PlanBaseline
    BY <1>2, <1>4, <2>2 DEF IInv, TypeOK, PlanBaseline, Collected, Fetch
  <2>3. CASE PlanBatch
    BY <1>4, <2>3 DEF IInv, TypeOK, PlanBatch, executor
  <2>. QED  BY <2>1, <2>2, <2>3
<1>6. /\ fetch'.saved = fetch.saved /\ fetch'.low = fetch.low /\ fetch'.newest = fetch.newest
      /\ fetch'.pages = fetch.pages /\ fetch'.stage = stage /\ fetch'.planned = plan
  BY <1>2, <1>3 DEF Fetch
<1>7. ReadFromCursor' /\ ReachedMeansContiguous' /\ PagesInFeed'
  BY <1>1, <1>2, <1>6 DEF IInv, ReadFromCursor, ReachedMeansContiguous, PagesInFeed, Executing, Stages
<1>8. Collected' = Collected
  BY <1>2, <1>6 DEF Collected
<1>9. BatchCoversRead'
  <2>1. CASE PlanBatch
    <3>1. fetch' = [fetch EXCEPT !.stage = "batch", !.planned = Collected \ keys,
                                 !.todo = Collected \ keys]
      BY <2>1 DEF PlanBatch, Proceed
    <3>2. fetch'.planned = Collected \ keys
      BY <1>2, <3>1 DEF Fetch
    <3>. QED  BY <1>8, <2>1, <3>2 DEF BatchCoversRead, PlanBatch, executor
  <2>2. CASE PlanGap
    <3>1. fetch'.stage = "gap"
      BY <1>2, <2>2 DEF PlanGap, Proceed, Fetch
    <3>. QED  BY <3>1 DEF BatchCoversRead
  <2>3. CASE PlanBaseline
    <3>1. fetch'.stage = "baseline"
      BY <1>2, <2>3 DEF PlanBaseline, Proceed, Fetch
    <3>. QED  BY <3>1 DEF BatchCoversRead
  <2>. QED  BY <2>1, <2>2, <2>3
<1>. QED  BY <1>5, <1>7, <1>9 DEF IInv

LEMMA ExecuteNextKeeps ==
    ASSUME IInv, NEW s \in Signals, ExecuteNext(s)
    PROVE  IInv'
<1>1. /\ fetch' = [fetch EXCEPT !.todo = @ \ {s}] /\ Execute(s, TRUE)
      /\ UNCHANGED <<feed, cursor, baselined, floor, crashes>>
  BY DEF ExecuteNext, Turn
<1>2. fetch \in Fetch
  BY DEF IInv, TypeOK
<1>3. /\ fetch' \in Fetch /\ fetch'.stage = fetch.stage /\ fetch'.planned = fetch.planned
      /\ fetch'.saved = fetch.saved /\ fetch'.low = fetch.low /\ fetch'.newest = fetch.newest
      /\ fetch'.pages = fetch.pages
  BY <1>1, <1>2 DEF Fetch
<1>4. TypeOK' /\ keys \subseteq keys'
  BY <1>1, <1>3, ExecuteFacts DEF IInv, TypeOK
<1>5. ReadFromCursor' /\ ReachedMeansContiguous' /\ PagesInFeed'
  BY <1>1, <1>3 DEF IInv, ReadFromCursor, ReachedMeansContiguous, PagesInFeed
<1>6. BatchCoversRead'
  BY <1>1, <1>3, <1>4 DEF IInv, BatchCoversRead, Collected
<1>. QED  BY <1>4, <1>5, <1>6 DEF IInv

(* Where the cursor moves, it moves to the newest post that was read. *)
LEMMA EndFacts ==
    ASSUME IInv, EndGap \/ EndBaseline \/ EndBatch
    PROVE  /\ fetch' = Idle /\ baselined' \in BOOLEAN
           /\ cursor' \in {cursor, fetch.newest}
           /\ cursor \in Nat /\ fetch.newest \in Nat /\ cursor <= fetch.newest
           /\ UNCHANGED <<feed, executor, floor, crashes>>
<1>1. fetch.stage \in Executing
  BY DEF EndGap, EndBaseline, EndBatch, EndRead, Executing, Stages
<1>2. cursor \in Nat /\ fetch.newest \in Nat /\ cursor <= fetch.newest
  BY <1>1 DEF IInv, TypeOK, PagesInFeed, Fetch, Executing, Stages
<1>3. /\ fetch' = Idle /\ UNCHANGED <<feed, executor, floor, crashes>>
      /\ SetFeedCursor(fetch.newest) \/ KeepFeedCursor
  BY DEF EndGap, EndBaseline, EndBatch, EndRead
<1>. QED  BY <1>2, <1>3 DEF SetFeedCursor, KeepFeedCursor, IInv, TypeOK

LEMMA EndKeeps ==
    ASSUME IInv, EndGap \/ EndBaseline \/ EndBatch
    PROVE  IInv'
<1>1. cursor' \in Nat /\ cursor' <= Len(feed') /\ Len(feed') \in Nat /\ fetch' = Idle
  BY EndFacts DEF IInv, TypeOK, PagesInFeed
<1>2. TypeOK'
  BY <1>1, EndFacts, IdleType DEF IInv, TypeOK, executor
<1>. QED  BY <1>1, <1>2, IdleKeeps DEF IInv

LEMMA NextInvariant == IInv /\ [Next]_vars => IInv'
<1>. SUFFICES ASSUME IInv, [Next]_vars PROVE IInv'
  OBVIOUS
<1>1. CASE UNCHANGED vars
  BY <1>1 DEF vars, IInv, TypeOK, ReadFromCursor, PagesInFeed, ReachedMeansContiguous,
      BatchCoversRead, Collected
<1>2. CASE Next
  BY <1>2, PublishKeeps, ElsewhereKeeps, BeginFetchKeeps, FetchPageKeeps, ReadLostKeeps,
      PlanKeeps, ExecuteNextKeeps, EndKeeps DEF Next
<1>. QED  BY <1>1, <1>2

THEOREM Invariance == Spec => []IInv
BY InitInvariant, NextInvariant, PTL DEF Spec

(* The type invariant, for every value of the constants. *)
THEOREM TypeCorrect == Spec => []TypeOK
<1>1. IInv => TypeOK
  BY DEF IInv
<1>. QED  BY <1>1, Invariance, PTL

-----------------------------------------------------------------------------
(* Only the end of a read moves the cursor. *)
LEMMA CursorMoves ==
    ASSUME IInv, [Next]_vars, cursor' # cursor
    PROVE  EndGap \/ EndBaseline \/ EndBatch
<1>1. Next
  BY DEF vars
<1>. QED
  BY <1>1 DEF Next, Publish, Elsewhere, BeginFetch, FetchPage, FetchFails, PlanGap,
      PlanBaseline, PlanBatch, ExecuteNext, Turn, Crash, CrashInBaseline

(***************************************************************************)
(* The high-water cursor of a surface never moves back: what newestPostId  *)
(* holds after the first page is at least the cursor the read began from,  *)
(* and no other read runs in between.                                      *)
(***************************************************************************)
THEOREM CursorNeverRetreatsHolds == Spec => CursorNeverRetreats
<1>1. IInv /\ [Next]_vars => [cursor' >= cursor]_vars
  <2>. SUFFICES ASSUME IInv, [Next]_vars PROVE cursor' >= cursor
    OBVIOUS
  <2>1. cursor \in Nat
    BY DEF IInv, TypeOK
  <2>2. CASE cursor' = cursor
    BY <2>1, <2>2
  <2>3. CASE cursor' # cursor
    BY <2>3, CursorMoves, EndFacts
  <2>. QED  BY <2>2, <2>3
<1>. QED  BY <1>1, Invariance, PTL DEF Spec, CursorNeverRetreats

(***************************************************************************)
(* Outside a gap the cursor moves over handled signals only: every post    *)
(* between the cursor and the newest one was read in this read, and is     *)
(* marked, or was planned and is seen now.                                 *)
(***************************************************************************)
THEOREM CursorPassesHandledOnlyHolds == Spec => CursorPassesHandledOnly
<1>. DEFINE Good == (fetch.stage = "batch" /\ cursor # 0)
                       => \A s \in Passed(cursor, cursor') : WasSeen(s, TRUE)
<1>1. IInv /\ [Next]_vars => [Good]_vars
  <2>. SUFFICES ASSUME IInv, [Next]_vars, fetch.stage = "batch", cursor # 0,
                       NEW s \in Passed(cursor, cursor')
                PROVE  WasSeen(s, TRUE)
    OBVIOUS
  <2>1. PICK i \in DOMAIN feed : cursor < i /\ i <= cursor' /\ feed[i] = s /\ s # None
    BY DEF Passed
  <2>2. cursor \in Nat /\ fetch \in Fetch /\ feed \in Seq(Signals \cup {None})
    BY DEF IInv, TypeOK
  <2>3. i \in Nat /\ s \in Signals
    BY <2>1, <2>2
  <2>4. cursor' # cursor
    BY <2>1, <2>2, <2>3
  <2>5. EndBatch /\ cursor' = fetch.newest
    BY <2>4, CursorMoves, EndFacts DEF EndGap, EndBaseline, EndRead
  <2>6. AllHandled
    BY <2>4, <2>5 DEF EndBatch, KeepFeedCursor
  <2>7. fetch.low \in Nat /\ fetch.low <= cursor + 1
    BY <2>2 DEF IInv, ReadFromCursor, ReachedMeansContiguous, BatchCoversRead, Fetch
  <2>8. s \in Collected
    BY <2>1, <2>2, <2>3, <2>5, <2>7 DEF Collected
  <2>9. s \in keys \cup fetch.planned
    BY <2>8 DEF IInv, BatchCoversRead
  <2>. QED  BY <2>6, <2>9 DEF AllHandled, WasSeen
<1>. QED  BY <1>1, Invariance, PTL DEF Spec, CursorPassesHandledOnly

(* Both together: the cursor only advances, over handled signals only.     *)
THEOREM CursorAdvancesHolds == Spec => CursorAdvances
BY CursorPassesHandledOnlyHolds, CursorNeverRetreatsHolds DEF CursorAdvances

=============================================================================
