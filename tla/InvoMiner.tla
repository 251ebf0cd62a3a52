-------------------------------- MODULE InvoMiner --------------------------------
(***************************************************************************)
(* The feed miner of the Invo archive.  A run walks the recent feed from   *)
(* its head until it meets what the last runs saw, keeping a cursor when   *)
(* the page cap stops it first; then it walks the history backwards from   *)
(* its own cursor; then it stores what it saw, and last it saves its       *)
(* state.  Posts are numbered in the order they appear, and a page of the  *)
(* feed is a few posts older than its cursor.                              *)
(***************************************************************************)
EXTENDS Naturals, Sequences, FiniteSets

CONSTANTS MaxMined,      \* bound: posts of the feed
          PageSize, RecentPages, BackfillPages,
          FrontierLength, \* max(100, 2 * page_size)
          MaxSeen,       \* MAX_SEEN_POST_IDS
          MaxMishaps     \* bound: failed requests, kills and feed switches

ASSUME MinerAssumption ==
    {MaxMined, PageSize, RecentPages, BackfillPages, FrontierLength, MaxSeen} \subseteq Nat \ {0}

VARIABLES head,    \* the newest post of the feed
          archive, \* the posts of archive.sqlite3
          walk,    \* state.json
          mine,    \* the run: its phase, pages, cursors and what it saw
          mishaps

imVars == <<head, archive, walk, mine, mishaps>>

NoCursor == 0
EmptyWalk == [seen |-> <<>>, recent |-> <<>>, cursor |-> NoCursor, frontier |-> {},
              back |-> NoCursor, done |-> FALSE]
IdleMine == [phase |-> "idle", pages |-> 0, resumed |-> FALSE, frontier |-> {}, cursor |-> NoCursor,
             back |-> NoCursor, done |-> FALSE, complete |-> FALSE, got |-> <<>>, old |-> <<>>]

Elements(s) == {s[k] : k \in DOMAIN s}
Cut(s, n) == SubSeq(s, 1, IF Len(s) < n THEN Len(s) ELSE n)
\* The elements of s that are in kept, in their order: each is placed by how many
\* of them come before it.
Picked(s, kept) ==
    LET ks == {k \in DOMAIN s : s[k] \in kept}
        rank == [k \in ks |-> Cardinality({j \in ks : j <= k})] IN
    [n \in 1 .. Cardinality(ks) |-> s[CHOOSE k \in ks : rank[k] = n]]
Without(s, seen) == Picked(s, Elements(s) \ seen)
\* _bounded_seen_history keeps the first mention of each post.
History(a, b, c) ==
    Cut(a \o Without(b, Elements(a)) \o Without(c, Elements(a) \cup Elements(b)), MaxSeen)

\* The feed answers with the posts behind the cursor, newest first.
Page(cursor) ==
    LET top == IF cursor = NoCursor THEN head ELSE cursor - 1
        n == IF top < PageSize THEN top ELSE PageSize IN
    [k \in 1 .. n |-> top + 1 - k]

\* run_once: a resumed catch-up keeps its frontier, a fresh scan takes the
\* newest posts the last scans saw.
MinerStarts ==
    /\ mine.phase = "idle"
    /\ LET resumed == walk.recent # <<>> /\ walk.cursor # NoCursor IN
       mine' = [IdleMine EXCEPT !.phase = "recent", !.resumed = resumed,
                   !.cursor = IF resumed THEN walk.cursor ELSE NoCursor,
                   !.frontier = IF resumed /\ walk.frontier # {} THEN walk.frontier
                                ELSE Elements(Cut(walk.recent, FrontierLength)),
                   !.back = walk.back, !.done = walk.done]
    /\ UNCHANGED <<head, archive, walk, mishaps>>

CappedCompletes(m) == TRUE
\* Without a frontier the first scan ends at the cap: the backfill owns the rest.
CapCompletes(m) == m.frontier = {} /\ ~m.resumed

\* One page of _collect_new_feed_events; what is known is not taken again, but
\* a state without recent history is rebuilt from the head.
RecentPage ==
    /\ mine.phase = "recent"
    /\ LET page == Page(mine.cursor)
           met == page = <<>> \/ Elements(page) \cap mine.frontier # {}
           capped == mine.pages + 1 = RecentPages
           over == met \/ (capped /\ CapCompletes(mine))
           known == Elements(mine.got) \cup (IF walk.recent = <<>> THEN {} ELSE Elements(walk.seen)) IN
       mine' = [mine EXCEPT !.got = @ \o Without(page, known),
                   !.pages = IF over \/ capped THEN 0 ELSE @ + 1,
                   !.cursor = IF over THEN NoCursor ELSE page[Len(page)],
                   !.complete = over,
                   !.phase = IF ~over /\ ~capped THEN "recent" ELSE IF mine.done THEN "store" ELSE "backfill"]
    /\ UNCHANGED <<head, archive, walk, mishaps>>

\* One page of _collect_backfill_feed_events.
BackfillPage ==
    /\ mine.phase = "backfill"
    /\ LET page == Page(mine.back)
           capped == mine.pages + 1 = BackfillPages IN
       mine' = [mine EXCEPT !.old = @ \o Without(page, Elements(walk.seen) \cup Elements(mine.got) \cup Elements(@)),
                   !.pages = @ + 1,
                   !.back = IF page = <<>> THEN @ ELSE page[Len(page)],
                   !.done = page = <<>>,
                   !.phase = IF page = <<>> \/ capped THEN "store" ELSE "backfill"]
    /\ UNCHANGED <<head, archive, walk, mishaps>>

MinerStoresRecentOnly ==
    /\ mine.phase = "store"
    /\ archive' = archive \cup Elements(mine.got)
    /\ mine' = [mine EXCEPT !.phase = "save"]
    /\ UNCHANGED <<head, walk, mishaps>>
MinerStores ==
    /\ mine.phase = "store"
    /\ archive' = archive \cup Elements(mine.got) \cup Elements(mine.old)
    /\ mine' = [mine EXCEPT !.phase = "save"]
    /\ UNCHANGED <<head, walk, mishaps>>
Frontier == IF mine.complete THEN {} ELSE mine.frontier
FrontierSeq == Picked(walk.recent, Frontier)
\* _merge_recent_history: a resumed walk must not displace the captured head.
Merged ==
    IF mine.resumed THEN History(walk.recent, mine.got, FrontierSeq)
    ELSE History(mine.got, walk.recent, FrontierSeq)

Saved(merged, back) ==
    [seen |-> History(merged, mine.old, walk.seen), recent |-> merged, cursor |-> mine.cursor,
     frontier |-> Frontier, back |-> back, done |-> mine.done]
MinerSaves ==
    /\ mine.phase = "save"
    /\ \E merged \in {Merged} : walk' = Saved(merged, mine.back)
    /\ mine' = IdleMine
    /\ UNCHANGED <<head, archive, mishaps>>

\* A failed request ends the run with nothing saved; so does a kill, which may
\* fall between the archive and the state.
MinerFails ==
    /\ mine.phase # "idle" /\ mishaps < MaxMishaps /\ mishaps' = mishaps + 1
    /\ mine' = IdleMine
    /\ UNCHANGED <<head, archive, walk>>

\* Cursors of one feed never continue another: a switch starts over.
FeedSwitched ==
    /\ mine.phase = "idle" /\ walk # EmptyWalk /\ mishaps < MaxMishaps /\ mishaps' = mishaps + 1
    /\ walk' = EmptyWalk
    /\ UNCHANGED <<head, archive, mine>>

PostAppears ==
    /\ head < MaxMined /\ head' = head + 1
    /\ UNCHANGED <<archive, walk, mine, mishaps>>

MinerInit ==
    /\ head \in 1 .. MaxMined /\ archive = {} /\ walk = EmptyWalk /\ mine = IdleMine /\ mishaps = 0
Miner == MinerStarts \/ RecentPage \/ BackfillPage \/ MinerStores \/ MinerSaves
MinerNext == Miner \/ MinerFails \/ FeedSwitched \/ PostAppears
MinerSpec == MinerInit /\ [][MinerNext]_imVars /\ WF_imVars(Miner)

-----------------------------------------------------------------------------

\* Type invariant.
MinerTypeOK ==
    /\ head \in 0 .. MaxMined /\ archive \subseteq 1 .. head
    /\ Elements(walk.seen) \subseteq 1 .. head /\ walk.frontier \subseteq 1 .. head
    /\ Len(walk.recent) <= MaxSeen /\ Len(walk.seen) <= MaxSeen /\ walk.cursor \in 0 .. head /\ walk.back \in 0 .. head
    /\ mine.phase \in {"idle", "recent", "backfill", "store", "save"}
    /\ mine.pages \in 0 .. (RecentPages + BackfillPages)

\* What the state counts as seen is in the archive, whatever was killed: a post
\* that is only in the state would never be fetched again.
SeenIsArchived == Elements(walk.seen) \cup Elements(walk.recent) \subseteq archive

\* No post below one that was captured is passed over: it is archived, or the
\* catch-up is on its way down to it, or the backfill is.
NoPostPassedOver ==
    \A q \in Elements(walk.recent) : \A p \in 1 .. q :
        \/ p \in archive
        \/ walk.cursor # NoCursor /\ p < walk.cursor
        \/ ~walk.done /\ (walk.back = NoCursor \/ p < walk.back)

\* The frontier of the feed hides no post: what is below it is archived or on
\* one of the two ways down, and what is marked as seen was archived first.
ArchiveHasNoHole == SeenIsArchived /\ NoPostPassedOver

\* Once nothing fails any more, every post of the feed reaches the archive: the
\* miner catches up with whatever the feed has come to.
EveryPostArchived == []<>(1 .. head \subseteq archive)
=============================================================================
