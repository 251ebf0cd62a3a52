---------------------------- MODULE PositionReconstruct ----------------------------
(***************************************************************************)
(* Positions rebuilt from the fills of a wallet.  Fills that share a       *)
(* millisecond come in no order that can be trusted: each is an edge from  *)
(* the position before it to the one after it, and the fills of a time are *)
(* put in the order of a trail through those positions.  The rebuilt       *)
(* wallet then opens, adds to, reduces, closes and flips its episodes.     *)
(* Here a wallet trades, the exchange returns the fills of a time in any   *)
(* order, and the history may begin in the middle of a position.           *)
(***************************************************************************)
EXTENDS Integers, Sequences, FiniteSets, Functions

CONSTANTS MaxTrades, MaxTimes, MaxHeld

VARIABLES truth, \* the fills in the order they were made: time, position before and after
          told   \* the order in which the exchange returns them, and where its history begins

prVars == <<truth, told>>

Held == IF truth = <<>> THEN 0 ELSE truth[Len(truth)].after
Now == IF truth = <<>> THEN 1 ELSE truth[Len(truth)].at

\* ---- the wallet and the exchange ----

Trade(q, at) ==
    /\ told = <<>> /\ Len(truth) < MaxTrades /\ q # Held
    /\ truth' = Append(truth, [at |-> at, before |-> Held, after |-> q])
    /\ UNCHANGED told

\* The fills from the first one on, by time, those of one time in any order.
Answers(first) ==
    {order \in Bijection(1 .. Len(truth) - first + 1, first .. Len(truth)) :
        \A i, j \in DOMAIN order : i < j => truth[order[i]].at <= truth[order[j]].at}
Tell(first) ==
    /\ told = <<>> /\ first \in DOMAIN truth
    \* An earlier fill of the same time is not cut off.
    /\ first > 1 => truth[first - 1].at < truth[first].at
    /\ told' \in {[i \in DOMAIN order |-> truth[order[i]]] : order \in Answers(first)}
    /\ UNCHANGED truth

ReconstructInit == truth = <<>> /\ told = <<>>
ReconstructNext ==
    \/ \E q \in -MaxHeld .. MaxHeld, at \in {Now, Now + 1} \cap 1 .. MaxTimes : Trade(q, at)
    \/ \E first \in 1 .. MaxTrades : Tell(first)
ReconstructSpec == ReconstructInit /\ [][ReconstructNext]_prVars

\* ---- _order_timestamp_group ----

\* Values no position has.
Broken == MaxHeld + 2
NotYet == MaxHeld + 1

Vertices(fills) == {fills[i].before : i \in DOMAIN fills} \cup {fills[i].after : i \in DOMAIN fills}
Degree(fills, v) ==
    Cardinality({i \in DOMAIN fills : fills[i].before = v}) - Cardinality({i \in DOMAIN fills : fills[i].after = v})
Heads(fills) == {v \in Vertices(fills) : Degree(fills, v) = 1}
Tails(fills) == {v \in Vertices(fills) : Degree(fills, v) = -1}

\* Where the trail begins, if nothing was rebuilt before: its one head, or,
\* for a closed circuit, the first fill the exchange returned.
FirstVertex(fills) ==
    IF \/ \E v \in Vertices(fills) : Degree(fills, v) \notin -1 .. 1
       \/ Cardinality(Heads(fills)) > 1 \/ Cardinality(Heads(fills)) # Cardinality(Tails(fills)) THEN Broken
    ELSE IF Heads(fills) = {} THEN fills[1].before ELSE CHOOSE v \in Heads(fills) : TRUE

\* Walk on along the earliest unused fill; at a dead end the fill that led there
\* goes to the front of the path.
Trail(fills, start) ==
    LET top(s) == IF s.stack = <<>> THEN start ELSE fills[s.stack[Len(s.stack)]].after
        free(s) == {i \in s.left : fills[i].before = top(s)}
        next(s) == CHOOSE i \in free(s) : \A j \in free(s) : i <= j
        walk[n \in 0 .. 2 * Len(fills)] ==
            IF n = 0 THEN [left |-> DOMAIN fills, stack |-> <<>>, path |-> <<>>]
            ELSE LET s == walk[n - 1] IN
                 IF free(s) # {} THEN [s EXCEPT !.left = @ \ {next(s)}, !.stack = Append(@, next(s))]
                 ELSE IF s.stack # <<>>
                      THEN [s EXCEPT !.path = <<s.stack[Len(s.stack)]>> \o @, !.stack = SubSeq(@, 1, Len(@) - 1)]
                      ELSE s IN
    [i \in DOMAIN walk[2 * Len(fills)].path |-> fills[walk[2 * Len(fills)].path[i]]]

Continuous(fills, start) ==
    \A i \in DOMAIN fills : fills[i].before = IF i = 1 THEN start ELSE fills[i - 1].after

OrderAsTold(fills, expected) == [ok |-> TRUE, fills |-> fills]
OrderTimestampGroup(fills, expected) ==
    IF Len(fills) = 1 THEN [ok |-> TRUE, fills |-> fills]
    ELSE LET start == IF expected = NotYet THEN FirstVertex(fills) ELSE expected IN
         IF start = Broken THEN [ok |-> FALSE, fills |-> <<>>]
         ELSE LET trail == Trail(fills, start) IN [ok |-> Len(trail) = Len(fills) /\ Continuous(trail, start), fills |-> trail]

\* ---- InstrumentState.apply ----

FlatState == [qty |-> 0, open |-> FALSE, since |-> 0, done |-> <<>>, ok |-> TRUE, first |-> TRUE]
\* An episode that was under way when the history begins has no opening time.
Bootstrap(s, f) == IF ~s.open /\ s.qty = 0 /\ f.before # 0 THEN [s EXCEPT !.qty = f.before, !.open = TRUE, !.since = 0] ELSE s
AgreesAlways(s, f) == TRUE
Agrees(s, f) == s.qty = f.before
Applied(state, f) ==
    LET s == Bootstrap(state, f)
        after == s.qty + f.after - f.before IN
    IF ~s.ok \/ ~Agrees(s, f) THEN [s EXCEPT !.ok = FALSE]
    ELSE IF s.qty = 0 THEN [s EXCEPT !.qty = after, !.open = TRUE, !.since = f.at]
    ELSE IF after = 0 \/ s.qty * after < 0
         THEN [s EXCEPT !.qty = after, !.done = Append(@, <<s.since, f.at>>),
                        !.open = after # 0, !.since = IF after # 0 THEN f.at ELSE 0]
         ELSE [s EXCEPT !.qty = after]

\* ---- reconstruct_positions ----

AtTime(fills, t) == SelectSeq(fills, LAMBDA f : f.at = t)
Group(state, fills) ==
    LET ordered == OrderTimestampGroup(fills, IF state.first THEN NotYet ELSE state.qty)
        applied[i \in 0 .. Len(ordered.fills)] ==
            IF i = 0 THEN [state EXCEPT !.first = FALSE] ELSE Applied(applied[i - 1], ordered.fills[i]) IN
    IF ~state.ok \/ ~ordered.ok THEN [state EXCEPT !.ok = FALSE] ELSE applied[Len(ordered.fills)]
Reconstructed(fills) ==
    LET upTo[t \in 0 .. MaxTimes] ==
            IF t = 0 THEN FlatState
            ELSE IF AtTime(fills, t) = <<>> THEN upTo[t - 1]
            ELSE Group(upTo[t - 1], AtTime(fills, t)) IN
    upTo[MaxTimes]

\* The market data analytics orders its fills the same way.
OrderByState(fills) ==
    LET upTo[t \in 0 .. MaxTimes] ==
            IF t = 0 THEN [ok |-> TRUE, fills |-> <<>>]
            ELSE LET s == upTo[t - 1]
                     group == AtTime(fills, t)
                     next == OrderTimestampGroup(group, IF s.fills = <<>> THEN NotYet ELSE s.fills[Len(s.fills)].after) IN
                 IF group = <<>> \/ ~s.ok THEN s ELSE [ok |-> next.ok, fills |-> s.fills \o next.fills] IN
    upTo[MaxTimes]

-----------------------------------------------------------------------------

\* Type invariant.
ReconstructTypeOK ==
    /\ Len(truth) <= MaxTrades
    /\ \A i \in DOMAIN truth : truth[i].before # truth[i].after /\ truth[i].before \in -MaxHeld .. MaxHeld
    /\ \A i \in 2 .. Len(truth) : truth[i].before = truth[i - 1].after /\ truth[i].at >= truth[i - 1].at
    /\ told # <<>> => Len(OrderByState(told).fills) <= Len(told)

\* The positions the wallet really had, from where the history begins.
Ended(i) == truth[i].before # 0 /\ (truth[i].after = 0 \/ truth[i].before * truth[i].after < 0)
Began(i) == truth[i].after # 0 /\ (truth[i].before = 0 \/ truth[i].before * truth[i].after < 0)
Begins == Len(truth) - Len(told) + 1
BeganAt(i) ==
    LET starts == {j \in Begins .. (i - 1) : Began(j)} IN
    IF starts = {} THEN 0 ELSE truth[CHOOSE j \in starts : \A k \in starts : k <= j].at
Lives == [i \in {j \in Begins .. Len(truth) : Ended(j)} |-> <<BeganAt(i), truth[i].at>>]
Count(pair, f) == Cardinality({i \in DOMAIN f : f[i] = pair})

\* The first fills of the history close a circuit: it may be entered anywhere.
Circuit == Heads(AtTime(told, told[1].at)) = {}

\* However the exchange orders the fills of a time, every position of the wallet
\* comes out with its own opening and closing time, and what is held is what it
\* holds, unless the first fills of the history form a closed circuit.
EpisodesAreTrue ==
    (told # <<>> /\ ~Circuit) =>
        LET s == Reconstructed(told) IN
        /\ s.ok /\ s.qty = truth[Len(truth)].after
        /\ \A pair \in Range(Lives) \cup Range(s.done) : Count(pair, Lives) = Count(pair, s.done)

\* A wrong turn into a circuit is never carried on silently: once the position
\* moved from one time to the next, the history is refused or ends where the
\* wallet is. (Circuit after circuit, the wallet may be believed elsewhere.)
NoSilentDrift ==
    (told # <<>> /\ \E t \in 1 .. MaxTimes : Heads(AtTime(told, t)) # {}) =>
        LET s == Reconstructed(told) IN s.ok => s.qty = truth[Len(truth)].after

\* What the analytics orders is every fill once, as one continuous history,
\* but for a circuit at its beginning: there a lone later fill is not checked.
OrderIsContinuous ==
    told # <<>> =>
        LET s == OrderByState(told) IN
        s.ok => /\ Len(s.fills) = Len(told)
                /\ \A i \in 2 .. Len(s.fills) : s.fills[i].before = s.fills[i - 1].after \/ Circuit

\* What is reconstructed is what the wallet held, in the order it happened, or
\* the history is refused: but for circuits at its beginning.
HistoryIsTrue == ReconstructTypeOK /\ EpisodesAreTrue /\ NoSilentDrift /\ OrderIsContinuous
=============================================================================
