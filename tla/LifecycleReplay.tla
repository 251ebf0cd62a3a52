------------------------------ MODULE LifecycleReplay ------------------------------
(***************************************************************************)
(* Whether a wallet held the position a trader reports.  The verification  *)
(* of the wallet resolver looks in the fills of the wallet for a fill that *)
(* opened from flat near the reported opening, replays every fill from     *)
(* there to the one that flattened the position, and compares times,       *)
(* average prices and, where the source tells one, the size.  Here the     *)
(* wallet trades as the exchange lets it, with a clock tick per fill, and  *)
(* the tape may have lost a fill on the way.                               *)
(***************************************************************************)
EXTENDS Integers, Sequences, FiniteSets, FiniteSetsExt

CONSTANTS MaxFills, MaxPosition, Prices,
          MaxLostFills,
          EntryTime, CloseTime, \* the time tolerances
          Drift                 \* SIZE_AGNOSTIC_CLOSE_OFFSET_DRIFT_MS

VARIABLES position, \* what the wallet holds: negative is short
          traded,   \* every fill of the wallet, in order
          lostFills \* the fills the tape does not return

lrVars == <<position, traded, lostFills>>

\* The names a fill has for a trader of a long position, and of a short one.
OpenName == [long |-> "open long", short |-> "open short"]
AddName == [long |-> "long > long", short |-> "short > short"]
ReduceName == [long |-> "close long", short |-> "close short"]
FlipName == [long |-> "long > short", short |-> "short > long"]
Opposite == [long |-> "short", short |-> "long"]
Side(p) == IF p < 0 THEN "short" ELSE "long"
Magnitude(p) == IF p < 0 THEN -p ELSE p

\* ---- the wallet trades ----

NameOf(p, q) ==
    IF p = 0 THEN OpenName[Side(q)]
    ELSE IF q # 0 /\ Side(p) # Side(q) THEN FlipName[Side(p)]
    ELSE IF Magnitude(q) > Magnitude(p) THEN OpenName[Side(p)] ELSE ReduceName[Side(p)]

TradeTo(q, px) ==
    /\ Len(traded) < MaxFills /\ q # position
    /\ traded' = Append(traded, [at |-> Len(traded) + 1, name |-> NameOf(position, q), start |-> Magnitude(position),
                                 size |-> Magnitude(q - position), px |-> px])
    /\ position' = q
    /\ UNCHANGED lostFills

\* fills_between_times did not reach the block of a fill.
LoseFill(k) ==
    /\ Cardinality(lostFills) < MaxLostFills /\ k \in DOMAIN traded \ lostFills
    /\ lostFills' = lostFills \cup {k}
    /\ UNCHANGED <<position, traded>>

ReplayInit == position = 0 /\ traded = <<>> /\ lostFills = {}
ReplayNext ==
    \/ \E q \in -MaxPosition .. MaxPosition, px \in Prices : TradeTo(q, px)
    \/ \E k \in DOMAIN traded : LoseFill(k)
ReplaySpec == ReplayInit /\ [][ReplayNext]_lrVars

\* ---- the replay ----

\* A reported trade; size 0 is a source that tells no size.
SignalsPossible ==
    {s \in [side : {"long"}, opened : 1 .. MaxFills, closed : 1 .. MaxFills,
            entry : Prices, exit : Prices, size : 0 .. MaxPosition] : s.opened <= s.closed}

Returned == SelectSeq(traded, LAMBDA f : f.at \notin lostFills)
Near(a, b, tolerance) == Magnitude(a - b) <= tolerance
\* The average of the fills is within half a price of the reported one.
PriceNear(notional, size, px) == 2 * Magnitude(notional - px * size) <= size

BoundariesNearest(s, fills) ==
    LET near == {k \in DOMAIN fills : fills[k].name = OpenName[s.side] /\ Near(fills[k].at, s.opened, EntryTime)} IN
    {k \in near : fills[k].start = 0 /\ \A l \in near : l <= k}
Boundaries(s, fills) ==
    {k \in DOMAIN fills : /\ fills[k].name = OpenName[s.side] /\ fills[k].start = 0
                          /\ Near(fills[k].at, s.opened, EntryTime) /\ fills[k].at <= s.closed + CloseTime}

ContinuesAlways(f, held) == TRUE
\* _start_position_matches
Continues(f, held) == f.start = held

Fresh == [held |-> 0, bought |-> 0, paid |-> 0, sold |-> 0, got |-> 0, end |-> "open", last |-> 0]
End(r, how) == [r EXCEPT !.end = how]
\* One fill of the loop; other names are skipped without a look.
Replayed(side, r, f, first) ==
    LET named == {OpenName[side], AddName[side], ReduceName[side],
                  OpenName[Opposite[side]], FlipName[side]} IN
    IF r.end # "open" \/ f.name \notin named THEN r ELSE
    CASE ~Continues(f, r.held) -> End(r, "discontinuous")
      [] f.name \in {OpenName[side], AddName[side]} /\ Continues(f, r.held) ->
            IF r.held = 0 /\ ~first THEN End(r, "reopened")
            ELSE [r EXCEPT !.held = @ + f.size, !.bought = @ + f.size, !.paid = @ + f.size * f.px]
      [] f.name \in {OpenName[Opposite[side]], FlipName[side]} /\ Continues(f, r.held) -> End(r, "flipped")
      [] f.name = ReduceName[side] /\ Continues(f, r.held) ->
            IF r.held <= 0 \/ f.size > r.held THEN End(r, "invalid")
            ELSE [r EXCEPT !.held = @ - f.size, !.sold = @ + f.size, !.got = @ + f.size * f.px, !.last = f.at,
                           !.end = IF r.held = f.size THEN "flat" ELSE "open"]

\* The fills from the boundary on, up to the end of the window of the closing.
ReplayFrom(side, fills, k, until) ==
    LET after[m \in (k - 1) .. Len(fills)] ==
            IF m < k THEN Fresh
            ELSE IF fills[m].at > until THEN after[m - 1]
            ELSE Replayed(side, after[m - 1], fills[m], m = k) IN
    after[Len(fills)]

Balanced(r) == r.bought = r.sold
Fits(s, r, boundary) ==
    /\ r.end = "flat" /\ Balanced(r)
    /\ Near(boundary.at, s.opened, EntryTime) /\ Near(r.last, s.closed, CloseTime)
    /\ PriceNear(r.paid, r.bought, s.entry) /\ PriceNear(r.got, r.sold, s.exit)
    /\ IF s.size = 0 THEN Near(r.last, s.closed, Drift) ELSE r.bought = s.size /\ r.sold = s.size

\* Of each boundary, what its replay comes to under each end of the window.
Replays ==
    LET fills == Returned IN
    [k \in DOMAIN fills |-> [closed \in 1 .. MaxFills |->
        IF fills[k].name = OpenName["long"] /\ fills[k].start = 0
        THEN ReplayFrom("long", fills, k, closed + CloseTime) ELSE Fresh]]

\* match_episode: the lifecycles that agree with a signal, boundary and final fill.
MatchedLifecycles(s, fills, replays) ==
    {<<fills[k].at, replays[k][s.closed].last>> :
        k \in {b \in Boundaries(s, fills) : Fits(s, replays[b][s.closed], fills[b])}}

-----------------------------------------------------------------------------

\* Type invariant.
ReplayTypeOK ==
    /\ position \in -MaxPosition .. MaxPosition /\ lostFills \subseteq DOMAIN traded
    /\ Len(Returned) + Cardinality(lostFills) = Len(traded)
    /\ \A k \in DOMAIN traded : traded[k].size \in 1 .. 2 * MaxPosition /\ traded[k].start \in 0 .. MaxPosition

\* Reference: what the wallet held before and after each fill it really made.
Sign(f, s) == IF f.name \in {OpenName[s], AddName[s], FlipName[Opposite[s]]} THEN 1 ELSE -1
IsLifecycle(i, j, s) ==
    /\ i < j
    /\ traded[i].start = 0 /\ traded[i].name = OpenName[s]
    /\ traded[j].name = ReduceName[s] /\ traded[j].size = traded[j].start
    /\ \A k \in (i + 1) .. j : traded[k].start # 0 /\ traded[k].name \in {OpenName[s], AddName[s], ReduceName[s]}
Moved(i, j, sign, side) == {k \in i .. j : Sign(traded[k], side) = sign}
Total(ks, F(_)) == MapThenSumSet(F, ks)
Lived(side) == {life \in (DOMAIN traded) \X (DOMAIN traded) : IsLifecycle(life[1], life[2], side)}
Reported(life, s) ==
    LET size(k) == traded[k].size
        value(k) == traded[k].size * traded[k].px
        ins == Moved(life[1], life[2], 1, s.side)
        outs == Moved(life[1], life[2], -1, s.side) IN
    /\ Near(life[1], s.opened, EntryTime) /\ Near(life[2], s.closed, CloseTime)
    /\ PriceNear(Total(ins, value), Total(ins, size), s.entry)
    /\ PriceNear(Total(outs, value), Total(outs, size), s.exit)
    /\ IF s.size = 0 THEN Near(life[2], s.closed, Drift) ELSE Total(ins, size) = s.size
Whole(life) == (life[1] .. life[2]) \cap lostFills = {}

\* A match is a position the wallet really held from flat to flat at those
\* times and prices, and no fill inside it was lost. Only the loss of a flip
\* goes unnoticed: the flip back is a name the replay skips.
MatchIsReal ==
    LET fills == Returned
        replays == Replays
        lived == Lived("long") IN
    (\A k \in lostFills : traded[k].name \notin {FlipName["long"], FlipName["short"]}) =>
      \A s \in SignalsPossible : \A m \in MatchedLifecycles(s, fills, replays) :
        m \in lived /\ Reported(m, s) /\ Whole(m)

\* A position the wallet held and the tape returned whole is found, whatever
\* else it traded before, between and after.
HeldIsFound ==
    LET fills == Returned
        replays == Replays
        whole == {life \in Lived("long") : Whole(life)} IN
    \A life \in whole : \A s \in SignalsPossible :
        Reported(life, s) => life \in MatchedLifecycles(s, fills, replays)

\* The replay finds exactly the positions the wallet held: no match is false,
\* and no position returned whole is missed.
ReplayIsExact == ReplayTypeOK /\ MatchIsReal /\ HeldIsFound
=============================================================================
