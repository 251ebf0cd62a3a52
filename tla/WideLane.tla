---------------------------------- MODULE WideLane ----------------------------------
(***************************************************************************)
(* The wide research lane.  A collector watches the public trades of every *)
(* market and writes a line for each live trade of a tracked wallet; an    *)
(* enricher reads the lines as they grow, asks the exchange for the fill   *)
(* behind each and checkpoints how far it read; the scorer pairs the fills *)
(* it got into episodes.  Either process may end at any step and begin     *)
(* again.  One wallet and one market are followed.                         *)
(***************************************************************************)
EXTENDS Integers, Sequences, FiniteSets

CONSTANTS MaxWide, MaxTicks, MaxHolding,
          RecentWide,    \* trades a subscription brings again
          Retries,   \* length of retry_delays
          MaxMishaps

ASSUME WideAssumption ==
    /\ {MaxWide, MaxTicks, MaxHolding, RecentWide, MaxMishaps} \subseteq Nat /\ Retries \in Nat \ {0}

VARIABLES trades,   \* of the wallet: the millisecond, the position before and after
          arriving,     \* trades on their way to the collector
          link, began, known,
          lines,    \* of the file: the trade, and whether the line is whole
          enricher, \* at: idle, draining or asking; offset, tries, and how many lines are from before it began
          saved,    \* the checkpoint
          official, \* the rows written: the trade, and fill or miss
          stale,    \* history: the lines passed over because they had waited too long
          mishaps

wlVars == <<trades, arriving, link, began, known, lines, enricher, saved, official, stale, mishaps>>

Held == IF trades = <<>> THEN 0 ELSE trades[Len(trades)].after
Now == IF trades = <<>> THEN 1 ELSE trades[Len(trades)].at
Min2(a, b) == IF a < b THEN a ELSE b

\* ---- ProspectiveWideTradeCollector ----

WideTrade(q, at) ==
    /\ Len(trades) < MaxWide /\ q # Held
    /\ trades' = Append(trades, [at |-> at, before |-> Held, after |-> q])
    /\ arriving' = IF link = "up" THEN Append(arriving, Len(trades) + 1) ELSE arriving
    /\ UNCHANGED <<link, began, known, lines, enricher, saved, official, stale, mishaps>>

Mishap == mishaps < MaxMishaps /\ mishaps' = mishaps + 1
WideLost ==
    /\ link = "up" /\ Mishap
    /\ link' = "down" /\ arriving' = <<>>
    /\ UNCHANGED <<trades, began, known, lines, enricher, saved, official, stale>>
WideReconnect ==
    /\ link = "down" /\ link' = "up"
    /\ LET n == Min2(RecentWide, Len(trades)) IN arriving' = [i \in 1 .. n |-> Len(trades) - n + i]
    /\ UNCHANGED <<trades, began, known, lines, enricher, saved, official, stale, mishaps>>
CollectorRestarts ==
    /\ Mishap
    /\ link' = "down" /\ arriving' = <<>> /\ known' = {} /\ began' = Len(trades) + 1
    \* A line it was writing stays torn, and the next one is written behind it.
    /\ \A i \in DOMAIN lines : lines[i].whole
    /\ UNCHANGED <<trades, lines, enricher, saved, official, stale>>

Known(k) == k \in known
Passed(k) == k < began \/ Known(k)
\* A trade from before the process, one that comes late, one that is known.
Ignore ==
    /\ link = "up" /\ arriving # <<>>
    /\ arriving' = Tail(arriving)
    /\ UNCHANGED <<trades, link, began, known, lines, enricher, saved, official, stale, mishaps>>
RecordTrade ==
    /\ link = "up" /\ arriving # <<>> /\ ~Passed(Head(arriving))
    /\ \A i \in DOMAIN lines : lines[i].whole
    /\ arriving' = Tail(arriving) /\ known' = known \cup {Head(arriving)}
    /\ lines' = Append(lines, [trade |-> Head(arriving), whole |-> FALSE])
    /\ UNCHANGED <<trades, link, began, enricher, saved, official, stale, mishaps>>
LineIsWhole ==
    /\ \E i \in DOMAIN lines : ~lines[i].whole
    /\ lines' = [i \in DOMAIN lines |-> [lines[i] EXCEPT !.whole = TRUE]]
    /\ UNCHANGED <<trades, arriving, link, began, known, enricher, saved, official, stale, mishaps>>

\* ---- ProspectiveWideTradeOfficialEnricher ----

Next1 == enricher.offset + 1
AnyLine(i) == i <= Len(lines)
Readable(i) == i <= Len(lines) /\ lines[i].whole
Prestart(i) == i <= enricher.born

\* A line that is not JSON, as a torn one is, is passed.
PassLine ==
    /\ enricher.at \in {"idle", "draining"} /\ Readable(Next1)
    /\ Prestart(Next1) \/ ~lines[Next1].whole
    /\ enricher' = [enricher EXCEPT !.at = "draining", !.offset = @ + 1]
    /\ UNCHANGED <<trades, arriving, link, began, known, lines, saved, official, stale, mishaps>>
PassStale ==
    /\ enricher.at \in {"idle", "draining"} /\ Readable(Next1) /\ ~Prestart(Next1) /\ lines[Next1].whole
    /\ enricher' = [enricher EXCEPT !.at = "draining", !.offset = @ + 1]
    /\ stale' = stale \cup {Next1}
    /\ UNCHANGED <<trades, arriving, link, began, known, lines, saved, official, mishaps>>
Enrich ==
    /\ enricher.at \in {"idle", "draining"} /\ Readable(Next1) /\ ~Prestart(Next1) /\ lines[Next1].whole
    /\ enricher' = [enricher EXCEPT !.at = "asking", !.tries = 0]
    /\ UNCHANGED <<trades, arriving, link, began, known, lines, saved, official, stale, mishaps>>

RowWritten(kind) ==
    /\ official' = Append(official, [trade |-> lines[Next1].trade, kind |-> kind])
    /\ enricher' = [enricher EXCEPT !.at = "draining", !.offset = @ + 1, !.tries = 0]
AskFound ==
    /\ enricher.at = "asking" /\ RowWritten("fill")
    /\ UNCHANGED <<trades, arriving, link, began, known, lines, saved, stale, mishaps>>
Tried == enricher.tries + 1
\* No fill yet, or an error of the request.
AskFails ==
    /\ enricher.at = "asking"
    /\ IF Tried < Retries THEN enricher' = [enricher EXCEPT !.tries = (@ + 1) % Retries] /\ UNCHANGED official
       ELSE RowWritten("miss")
    /\ UNCHANGED <<trades, arriving, link, began, known, lines, saved, stale, mishaps>>
DrainEnds ==
    /\ enricher.at = "draining" /\ ~Readable(Next1)
    /\ saved' = enricher.offset
    /\ enricher' = [enricher EXCEPT !.at = "idle"]
    /\ UNCHANGED <<trades, arriving, link, began, known, lines, official, stale, mishaps>>
Checkpoint == saved
\* Whatever was received before it begins is not for it.
EnricherRestarts ==
    /\ Mishap
    /\ enricher' = [at |-> "idle", offset |-> Checkpoint, tries |-> 0, born |-> Len(lines)]
    /\ UNCHANGED <<trades, arriving, link, began, known, lines, saved, official, stale>>

WideInit ==
    /\ trades = <<>> /\ arriving = <<>> /\ link = "down" /\ began = 1 /\ known = {} /\ lines = <<>>
    /\ enricher = [at |-> "idle", offset |-> 0, tries |-> 0, born |-> 0]
    /\ saved = 0 /\ official = <<>> /\ stale = {} /\ mishaps = 0
EnricherStep == PassLine \/ PassStale \/ Enrich \/ AskFound \/ AskFails \/ DrainEnds
WideNext ==
    \/ \E q \in -MaxHolding .. MaxHolding, at \in {Now, Now + 1} \cap 1 .. MaxTicks : WideTrade(q, at)
    \/ WideLost \/ WideReconnect \/ CollectorRestarts \/ Ignore \/ RecordTrade \/ LineIsWhole
    \/ EnricherStep \/ EnricherRestarts
WideSpec == WideInit /\ [][WideNext]_wlVars /\ WF_wlVars(EnricherStep) /\ WF_wlVars(LineIsWhole)

\* ---- load_wide_signals, build_wide_episodes ----

Side(q) == IF q > 0 THEN 1 ELSE IF q < 0 THEN -1 ELSE 0
Closes(k) == trades[k].before # 0 /\ trades[k].before * trades[k].after <= 0
Opens(k) == trades[k].after # 0 /\ trades[k].before * trades[k].after <= 0
Told(k) == \E i \in DOMAIN official : official[i] = [trade |-> k, kind |-> "fill"]
Least(s) == CHOOSE k \in s : \A j \in s : k <= j
Most(s) == CHOOSE k \in s : \A j \in s : k >= j

SideHeld(open, k) == open # 0 /\ Side(trades[open].after) = Side(trades[k].before)
CloseSignals(s, t) ==
    LET at == {k \in DOMAIN trades : trades[k].at = t /\ Told(k) /\ Closes(k) /\ SideHeld(s.open, k)} IN
    IF at = {} THEN s ELSE [open |-> 0, found |-> s.found \cup {<<s.open, Least(at)>>}]
OpenSignals(s, t) ==
    LET at == {k \in DOMAIN trades : trades[k].at = t /\ Told(k) /\ Opens(k)} IN
    IF at = {} THEN s ELSE [s EXCEPT !.open = Most(at)]
\* The signals of one millisecond: what closes comes before what opens.
OpensFirst(s, t) == CloseSignals(OpenSignals(s, t), t)
InOrder(s, t) == OpenSignals(CloseSignals(s, t), t)
Episodes ==
    LET upTo[t \in 0 .. MaxTicks] == IF t = 0 THEN [open |-> 0, found |-> {}] ELSE InOrder(upTo[t - 1], t) IN
    upTo[MaxTicks]

-----------------------------------------------------------------------------

\* Type invariant.
WideTypeOK ==
    /\ link \in {"up", "down"} /\ began \in 1 .. Len(trades) + 1 /\ known \subseteq DOMAIN trades
    /\ enricher.at \in {"idle", "draining", "asking"} /\ enricher.tries < Retries
    /\ saved <= Len(lines) /\ enricher.offset <= Len(lines) /\ enricher.born <= Len(lines)
    /\ enricher.offset >= saved

\* A trade has one row, though either process may end between any two steps and
\* the enricher reads again what it had not checkpointed.
EnrichedOnce == \A i, j \in DOMAIN official : official[i].trade = official[j].trade => i = j

\* What the enricher has read past and had been received since it began has its
\* row or waited too long: no line is passed because it was read half written.
EveryLineHandled ==
    \A i \in enricher.born + 1 .. enricher.offset :
        i \in stale \/ \E r \in DOMAIN official : official[r].trade = lines[i].trade

\* The positions the wallet really had.
Lives ==
    {life \in (DOMAIN trades) \X (DOMAIN trades) :
        /\ life[1] < life[2] /\ Opens(life[1]) /\ Closes(life[2])
        /\ ~\E k \in life[1] + 1 .. life[2] - 1 : Closes(k)}
Missing(life) == Cardinality({k \in life[1] .. life[2] : ~Told(k)})
Alone(k) == \A j \in DOMAIN trades : trades[j].at = trades[k].at => j = k

\* A position that opens and closes in milliseconds of its own, all of its fills
\* found, is an episode; one fill that was not found makes no false episode.
EpisodesAreReal ==
    /\ \A life \in Lives : (Missing(life) = 0 /\ Alone(life[1]) /\ Alone(life[2])) => life \in Episodes.found
    /\ \A life \in Episodes.found : life \in Lives \/ Missing(life) >= 2 \/ ~Alone(life[1]) \/ ~Alone(life[2])

\* The wide lane neither passes a line nor counts one twice, and its episodes
\* are positions somebody held.
LaneIsComplete == WideTypeOK /\ EnrichedOnce /\ EveryLineHandled /\ EpisodesAreReal

\* The enricher gets to the end of what was written, whatever the requests say.
LinesCatchUp == <>[](enricher.at = "idle" /\ enricher.offset = Len(lines))
=============================================================================
