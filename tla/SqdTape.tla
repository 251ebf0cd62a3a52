---------------------------------- MODULE SqdTape ----------------------------------
(***************************************************************************)
(* The client of the public tape of fills.  A query for a window of time   *)
(* finds the coverage of the tape (once, under a lock), searches the       *)
(* blocks of the window by interpolating between the times of blocks it    *)
(* knows, reads a padded range of blocks page by page, and keeps the fills *)
(* of the window.  The head of the chain moves meanwhile, another coroutine*)
(* of the same client asks for the coverage too, and requests fail.        *)
(***************************************************************************)
EXTENDS Integers, FiniteSets, FiniteSetsExt

CONSTANTS Blocks,      \* the chain is as long as this at most
          Gaps,        \* the times between two blocks
          Rounds,      \* of the search: 10
          Within,      \* a block this near is taken: 250 ms
          Padding,     \* blocks read on each side of the window
          MinAround,   \* the least padding around a time
          Widths,      \* of a query between two times
          Window,      \* of a query around a time
          MaxPages,    \* the continuation limit
          Retries

VARIABLES times,  \* of the blocks
          filled, \* the block of the fill that is followed: fills are read independently
          head,
          bounds, \* the first and the last block of the cached coverage
          lock,   \* who holds _bounds_lock
          peer,   \* where the other coroutine is
          query

sqVars == <<times, filled, head, bounds, lock, peer, query>>

Unknown == <<>>
Away(a, b) == IF a < b THEN b - a ELSE a - b
Lesser(a, b) == IF a < b THEN a ELSE b
Greater(a, b) == IF a < b THEN b ELSE a

\* ---- the chain ----

HeadMoves == head < Blocks /\ head' = head + 1 /\ UNCHANGED <<times, filled, bounds, lock, peer, query>>

\* ---- the coverage, for the query and for the other coroutine ----

Unchecked == TRUE
Rechecked == bounds = Unknown

\* Whoever holds the lock looks again, and asks for the head if nobody has.
PeerAsks == peer = "idle" /\ peer' = (IF bounds = Unknown THEN "waits" ELSE "done")
            /\ UNCHANGED <<times, filled, head, bounds, lock, query>>
PeerLocks ==
    /\ peer = "waits" /\ lock = "free"
    /\ IF Rechecked THEN peer' = "asks" /\ lock' = "peer" ELSE peer' = "done" /\ UNCHANGED lock
    /\ UNCHANGED <<times, filled, head, bounds, query>>
PeerLearns ==
    /\ peer = "asks"
    /\ peer' = "done" /\ lock' = "free" /\ bounds' \in {<<1, head>>, bounds}
    /\ UNCHANGED <<times, filled, head, query>>

At(where) == query.at = where
Goes(where) == [query EXCEPT !.at = where, !.tries = 0]

\* A query of the fills of one wallet between two times, or of a market around one.
Ask(kind, lo, hi) ==
    /\ At("idle")
    /\ query' = [Goes(IF bounds = Unknown THEN "waits" ELSE "covered") EXCEPT !.kind = kind, !.lo = lo, !.hi = hi]
    /\ UNCHANGED <<times, filled, head, bounds, lock, peer>>
QueryLocks ==
    /\ At("waits") /\ lock = "free"
    /\ IF Rechecked THEN query' = Goes("asks") /\ lock' = "query" ELSE query' = Goes("covered") /\ UNCHANGED lock
    /\ UNCHANGED <<times, filled, head, bounds, peer>>
QueryLearns ==
    /\ At("asks") /\ lock' = "free" /\ bounds' = <<1, head>> /\ query' = Goes("covered")
    /\ UNCHANGED <<times, filled, head, peer>>

\* ---- the search of a block ----

AllBlocks == [low |-> bounds[1], high |-> bounds[2], round |-> 0]

\* The window is cut to the coverage; one that is outside has no fills.
Clamp ==
    LET first == times[bounds[1]]
        last == times[bounds[2]]
        lo == IF query.kind = "between" THEN Greater(query.lo, first) ELSE query.lo
        hi == IF query.kind = "between" THEN Lesser(query.hi, last) ELSE query.hi IN
    /\ At("covered")
    /\ query' = IF lo > hi \/ lo < first \/ lo > last THEN Goes("done")
                ELSE [Goes("seeks") EXCEPT !.lo = lo, !.hi = hi, !.sought = lo, !.search = AllBlocks]
    /\ UNCHANGED <<times, filled, head, bounds, lock, peer>>

Guess(s, t) ==
    LET span == Greater(1, times[s.high] - times[s.low])
        guess == s.low + ((s.high - s.low) * (t - times[s.low])) \div span IN
    Greater(s.low + 1, Lesser(s.high - 1, guess))
Nearer(s, t) == IF Away(times[s.low], t) <= Away(times[s.high], t) THEN s.low ELSE s.high

PadNothing == 0
PadBetween == Padding
AroundPadding ==
    LET blocks == Greater(1, bounds[2] - bounds[1])
        span == times[bounds[2]] - times[bounds[1]] IN
    Greater(MinAround, (Window * blocks + span - 1) \div span + Padding)

\* The block is known: the search of the other end, or the range to read.
SoughtAs(block, exact) ==
    LET low == IF query.sought = query.lo THEN block ELSE query.low
        pad == IF query.kind = "between" THEN PadBetween ELSE AroundPadding
        again == query.kind = "between" /\ query.sought = query.lo /\ query.hi # query.lo IN
    IF again THEN [Goes("seeks") EXCEPT !.low = block, !.exact = @ /\ exact, !.sought = query.hi, !.search = AllBlocks]
    ELSE [Goes("reads") EXCEPT !.low = low, !.exact = @ /\ exact, !.pages = 0,
                               !.from = Greater(bounds[1], low - pad), !.to = Lesser(bounds[2], block + pad)]

Seek ==
    LET s == query.search
        t == query.sought
        guess == Guess(s, t)
        small == s.high - s.low <= 2 IN
    /\ At("seeks")
    /\ query' =
         IF small \/ s.round = Rounds THEN SoughtAs(Nearer(s, t), small)
         ELSE IF Away(times[guess], t) <= Within THEN SoughtAs(guess, TRUE)
         ELSE [Goes("seeks") EXCEPT !.search = IF times[guess] < t
                                                THEN [s EXCEPT !.low = guess, !.round = @ + 1]
                                                ELSE [s EXCEPT !.high = guess, !.round = @ + 1]]
    /\ UNCHANGED <<times, filled, head, bounds, lock, peer>>

\* ---- the pages ----

InWindow(block) ==
    IF query.kind = "between" THEN query.lo <= times[block] /\ times[block] <= query.hi
    ELSE Away(times[block], query.lo) <= Window

After(last) == last + 1
\* A page ends where the tape pleases, and names the last block it looked at.
Page(last) ==
    /\ At("reads") /\ last \in query.from .. query.to
    /\ query' = [Goes(IF last >= query.to THEN "done" ELSE IF query.pages + 1 >= MaxPages THEN "failed" ELSE "reads")
                 EXCEPT !.got = @ \cup {b \in filled : query.from <= b /\ b <= last /\ InWindow(b)},
                        !.copies = @ + Cardinality({b \in filled : query.from <= b /\ b <= last /\ InWindow(b)}),
                        !.from = After(last), !.pages = @ + 1]
    /\ UNCHANGED <<times, filled, head, bounds, lock, peer>>

\* ---- failures ----

GivesUp == query.tries >= Retries
\* A timeout, or an answer that asks to come again: _request retries, then raises.
RequestFails ==
    /\ At("asks") \/ At("seeks") \/ At("reads")
    /\ query' = IF GivesUp THEN Goes("failed") ELSE [query EXCEPT !.tries = (@ + 1) % (Retries + 1)]
    /\ lock' = IF GivesUp /\ At("asks") THEN "free" ELSE lock
    /\ UNCHANGED <<times, filled, head, bounds, peer>>

\* ---- the client ----

NoQuery == [at |-> "idle", tries |-> 0, kind |-> "between", lo |-> 0, hi |-> 0, sought |-> 0,
            search |-> [low |-> 1, high |-> 1, round |-> 0], low |-> 1, exact |-> TRUE,
            from |-> 1, to |-> 1, pages |-> 0, got |-> {}, copies |-> 0]
Timelines == {f \in [1 .. Blocks -> 1 .. 1 + (Blocks - 1) * Max(Gaps)] :
                f[1] = 1 /\ \A b \in 2 .. Blocks : f[b] - f[b - 1] \in Gaps}
TapeInit ==
    /\ times \in Timelines /\ filled \in {{b} : b \in 1 .. Blocks} /\ head \in Blocks - 1 .. Blocks
    /\ bounds = Unknown /\ lock = "free" /\ peer = "idle" /\ query = NoQuery
QueryStep == QueryLocks \/ QueryLearns \/ Clamp \/ Seek \/ (\E last \in 1 .. Blocks : Page(last)) \/ RequestFails
PeerStep == PeerAsks \/ PeerLocks \/ PeerLearns
TapeNext ==
    \/ HeadMoves \/ PeerStep \/ QueryStep
    \/ \E lo \in 0 .. times[Blocks], width \in Widths : Ask("between", lo, lo + width)
    \/ \E t \in 1 .. times[Blocks] : Ask("around", t, t)
\* Every request of the client has a timeout, and a lock that is held is released.
TapeSpec == TapeInit /\ [][TapeNext]_sqVars /\ WF_sqVars(QueryStep) /\ WF_sqVars(PeerStep)

-----------------------------------------------------------------------------

\* Type invariant.
TapeTypeOK ==
    /\ head \in 1 .. Blocks /\ lock \in {"free", "peer", "query"}
    /\ bounds = Unknown \/ (bounds[1] = 1 /\ bounds[2] <= head)
    /\ (lock = "query") = At("asks") /\ (lock = "peer") = (peer = "asks")
    /\ query.tries <= Retries /\ query.pages <= MaxPages /\ query.got \subseteq filled
    /\ query.copies = Cardinality(query.got)

\* The coverage of a run is one: what a first query decided to be covered is not
\* judged by another head later, whoever asked first and however the head moved.
OneCoverage == [][bounds # Unknown => bounds' = bounds]_sqVars

Covering(block) == bounds # Unknown /\ block \in bounds[1] .. bounds[2]
\* A query between two times that ends has every fill of its window that the tape
\* covers, however the pages fell, unless the search ran out of rounds.
NothingMissed ==
    (At("done") /\ query.kind = "between" /\ query.exact) =>
        \A b \in filled : Covering(b) /\ query.lo <= times[b] /\ times[b] <= query.hi => b \in query.got

EvenPace == \A b, c \in 1 .. Blocks - 1 : times[b + 1] - times[b] = times[c + 1] - times[c]

\* So has a query around a time where the blocks come at an even pace: the padding
\* is counted in blocks of the average time.
NothingMissedAround ==
    (At("done") /\ query.kind = "around" /\ query.exact /\ EvenPace) =>
        \A b \in filled :
            (Covering(b) /\ query.lo <= times[bounds[2]] /\ Away(times[b], query.lo) <= Window) => b \in query.got

\* A query ends: with an answer, or with an error.
QueryEnds == (query.at \notin {"idle"}) ~> (query.at \in {"done", "failed"})

\* A query of the tape ends, and its answer is whole, between two times or
\* around one, as one coverage for all queries of the run judges it.
AnswersAreWhole ==
    []TapeTypeOK /\ []NothingMissed /\ []NothingMissedAround /\ OneCoverage /\ QueryEnds
=============================================================================
