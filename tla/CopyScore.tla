------------------------------- MODULE CopyScore -------------------------------
(***************************************************************************)
(* What a copied round trip would have earned: the evaluator of the        *)
(* shadowed wallets (src/hlcopy/shadow/evaluator.py) and the scorer of the *)
(* wide lane (src/hlcopy/shadow/wide_score.py) price the same episode      *)
(* against the book tape, each time they are run, while the tape grows.    *)
(*                                                                         *)
(* Prices and sizes are whole numbers.  The quantity notional / mid is a   *)
(* fraction: sizes are counted in units of 1 / (bid + ask) of the entry    *)
(* book, so that the quantity is 2 * Notional of them, and a cost stands   *)
(* for the average price of that many units.                               *)
(***************************************************************************)
EXTENDS Integers, SequencesExt

CONSTANTS
    Shapes,        \* the books that the tape may hold: [bids, asks], best level first
    Directions,    \* "LONG" and "SHORT"
    Feeds,         \* how late a signal was received
    ExitTimes,     \* when the source closes; it opens at 1
    MaxBooks,      \* length of the tape
    MaxTime,       \* the last time of a book
    ClockMin,      \* how early a signal may seem to have been received
    ClockMax,      \* and how late
    PostReceipt,   \* decision, order and exchange latency of the scenario
    MaxForward,    \* how far after the arrival a book may be
    Notional,
    MaxSlippage,   \* in basis points of the mid
    FeeBps,
    Horizon        \* of a markout, after the entry of the source

ASSUME ScoreAssumption ==
    /\ {MaxBooks, MaxTime, ClockMin, PostReceipt, MaxForward, FeeBps, Horizon} \subseteq Nat
    /\ {Notional, MaxSlippage} \subseteq Nat \ {0}
    /\ Feeds \subseteq Int /\ ClockMax \in Int /\ ExitTimes \subseteq Nat \ {0}

VARIABLES
    episode,   \* the closed episode of a source: direction, entry and exit
    tape,      \* the book rows, in the order of the exchange
    verdict,   \* of the last run of the evaluator
    score      \* of the last run of the wide scorer

csVars == <<episode, tape, verdict, score>>

Nothing == [status |-> "none"]
Missed(reason) == [status |-> "MISSED", reason |-> reason]

\* ---- the tape ----

\* _load_coin: a row without bids or without asks is no book.
OneSided(row) == row.bids = <<>> \/ row.asks = <<>>
BooksOf(rows) == SelectSeq(rows, LAMBDA row : ~OneSided(row))
MidTwice(book) == book.bids[1].price + book.asks[1].price

\* first_at_or_after: the position of a book, or one past the last.
TooEarly(book, target) == book.ts < target
FirstAtOrAfter(books, target) ==
    LET n == Len(books)
        search[r \in (0 .. n) \X (0 .. n)] ==
            LET mid == (r[1] + r[2]) \div 2
            IN  IF r[1] >= r[2] THEN r[1]
                ELSE IF TooEarly(books[mid + 1], target) THEN search[<<mid + 1, r[2]>>]
                ELSE search[<<r[1], mid>>]
    IN  search[<<0, n>>] + 1

\* ---- when the order would have arrived ----

ClockPlausible(event) == -ClockMin <= event.feed /\ event.feed <= ClockMax
Arrival(event) == event.ts + (IF event.feed > 0 THEN event.feed ELSE 0) + PostReceipt

\* ---- what the book would have paid ----

EntrySide == IF episode.direction = "LONG" THEN "BUY" ELSE "SELL"
ExitSide == IF episode.direction = "LONG" THEN "SELL" ELSE "BUY"
Toward == IF episode.direction = "LONG" THEN 1 ELSE -1

Quantity == 2 * Notional
LevelsOf(book, side) == IF side = "BUY" THEN book.asks ELSE book.bids
BeyondCap(book, side, price) ==
    LET against == IF side = "BUY" THEN 2 * price - MidTwice(book) ELSE MidTwice(book) - 2 * price
    IN  against * 10000 > MaxSlippage * MidTwice(book)

(* estimate_marketable_fill: level after level until the quantity is      *)
(* filled, or a level lies beyond the cap.  "scale" is the number of units *)
(* of size one.                                                            *)
Walk(book, side, scale) ==
    FoldLeft(LAMBDA w, level :
                IF w.over \/ w.left = 0 \/ BeyondCap(book, side, level.price)
                THEN [w EXCEPT !.over = TRUE]
                ELSE LET take == IF w.left < level.size * scale THEN w.left ELSE level.size * scale
                     IN  [over |-> FALSE, left |-> w.left - take, cost |-> w.cost + take * level.price],
             [over |-> FALSE, left |-> Quantity, cost |-> 0], LevelsOf(book, side))
Filled(book, side, scale) == Walk(book, side, scale).left = 0
Cost(book, side, scale) == Walk(book, side, scale).cost

\* Net of both fees, as a fraction of the cost of the entry.
NetBps(entry, exit) == <<Toward * (exit - entry) * 10000 - FeeBps * (entry + exit), entry>>

\* ---- evaluate_episode ----

Evaluation ==
    LET books == BooksOf(tape)
        entry == FirstAtOrAfter(books, Arrival(episode.entry))
        exit == FirstAtOrAfter(books, Arrival(episode.exit))
        Forward(at, event) == books[at].ts - Arrival(event)
        scale == MidTwice(books[entry])
    IN  IF ~ClockPlausible(episode.entry) \/ ~ClockPlausible(episode.exit) THEN Missed("CLOCK")
        ELSE IF entry > Len(books) THEN Missed("ENTRY_BOOK_MISSING")
        ELSE IF exit > Len(books) THEN Missed("EXIT_BOOK_MISSING")
        ELSE IF Forward(entry, episode.entry) > MaxForward THEN Missed("ENTRY_BOOK_TOO_FAR_FORWARD")
        ELSE IF Forward(exit, episode.exit) > MaxForward THEN Missed("EXIT_BOOK_TOO_FAR_FORWARD")
        ELSE IF ~Filled(books[entry], EntrySide, scale) THEN Missed("ENTRY_DEPTH_OR_SLIPPAGE")
        ELSE IF ~Filled(books[exit], ExitSide, scale) THEN Missed("EXIT_DEPTH_OR_SLIPPAGE")
        ELSE [status |-> "EXECUTED", books |-> <<entry, exit>>,
              costs |-> <<Cost(books[entry], EntrySide, scale), Cost(books[exit], ExitSide, scale)>>,
              net |-> NetBps(Cost(books[entry], EntrySide, scale), Cost(books[exit], ExitSide, scale))]

\* ---- score_wide_episode ----

\* _book_for: the book, or 0.
BookFor(target) ==
    LET books == BooksOf(tape)
        at == FirstAtOrAfter(books, target)
    IN  IF at <= Len(books) /\ books[at].ts - target <= MaxForward THEN at ELSE 0

\* The exit is sized by the entry book, as in the evaluator.
ExitScaleOwn(entry, exit) == MidTwice(exit)
ExitScale(entry, exit) == MidTwice(entry)
RoundTrip(entryAt, exitAt) ==
    LET books == BooksOf(tape)
        scale == ExitScale(books[entryAt], books[exitAt])
        exit == books[exitAt]
    IN  IF exitAt = 0 \/ ~Filled(exit, ExitSide, scale) THEN Nothing
        ELSE [status |-> "net",
              net |-> NetBps(Cost(books[entryAt], EntrySide, MidTwice(books[entryAt])),
                             Cost(exit, ExitSide, scale))]

\* Mutant: before the horizon the latest book stands in.
MarkoutAtLatest(entryAt) ==
    LET due == BookFor(episode.entry.ts + Horizon)
    IN  RoundTrip(entryAt, IF due # 0 THEN due ELSE Len(BooksOf(tape)))
\* Before the horizon no book can lie behind it: the test of the clock adds nothing.
Markout(entryAt) == RoundTrip(entryAt, BookFor(episode.entry.ts + Horizon))

Unexecutable == [status |-> "UNEXECUTABLE", markout |-> Nothing, net |-> <<>>]
Scoring ==
    LET entryAt == BookFor(Arrival(episode.entry))
        closeAt == BookFor(Arrival(episode.exit))
        Scored(status) == [status |-> status, markout |-> Markout(entryAt), net |-> <<>>]
    IN  IF \/ ~ClockPlausible(episode.entry) \/ entryAt = 0
           \/ ~Filled(BooksOf(tape)[entryAt], EntrySide, MidTwice(BooksOf(tape)[entryAt]))
        THEN Unexecutable
        ELSE IF ~ClockPlausible(episode.exit) THEN Scored("CLOSE_CLOCK_INVALID")
        ELSE IF closeAt = 0 THEN Scored("CLOSE_BOOK_MISSING")
        ELSE IF RoundTrip(entryAt, closeAt) = Nothing THEN Scored("CLOSE_UNEXECUTABLE")
        ELSE [Scored("CLOSED") EXCEPT !.net = RoundTrip(entryAt, closeAt).net]

-----------------------------------------------------------------------------

Event(ts, feed) == [ts |-> ts, feed |-> feed]
ScoreInit ==
    /\ episode \in [direction : Directions, entry : {Event(1, f) : f \in Feeds},
                    exit : {Event(t, f) : t \in ExitTimes, f \in Feeds}]
    /\ tape = <<>> /\ verdict = Nothing /\ score = Nothing

LastTime == IF tape = <<>> THEN 0 ELSE tape[Len(tape)].ts
\* The tape holds a coin's books in the order of the exchange.
Publish(shape, ts) ==
    /\ Len(tape) < MaxBooks /\ ts >= LastTime
    /\ tape' = Append(tape, [ts |-> ts, bids |-> shape.bids, asks |-> shape.asks])
    /\ UNCHANGED <<episode, verdict, score>>

Evaluate == verdict' = Evaluation /\ UNCHANGED <<episode, tape, score>>
ScoreWide == score' = Scoring /\ UNCHANGED <<episode, tape, verdict>>

ScoreNext ==
    \/ \E shape \in Shapes, ts \in 1 .. MaxTime : Publish(shape, ts)
    \/ Evaluate
    \/ ScoreWide
ScoreSpec == ScoreInit /\ [][ScoreNext]_csVars

-----------------------------------------------------------------------------

\* Type invariant.
ScoreTypeOK ==
    /\ verdict.status \in {"none", "MISSED", "EXECUTED"}
    /\ score.status \in {"none", "UNEXECUTABLE", "CLOSE_CLOCK_INVALID", "CLOSE_BOOK_MISSING",
                         "CLOSE_UNEXECUTABLE", "CLOSED"}
    /\ verdict.status = "EXECUTED" => \A i \in 1 .. 2 : verdict.books[i] \in 1 .. Len(BooksOf(tape))
    /\ Len(tape) <= MaxBooks

Events == <<episode.entry, episode.exit>>
Sides == <<EntrySide, ExitSide>>

(* The evaluator prices each side at the first book that was published at   *)
(* or after the order arrived: never at one it could have seen before, and *)
(* at none that came too late.                                             *)
PricedOnArrival ==
    verdict.status = "EXECUTED" => \A i \in 1 .. 2 :
        LET books == BooksOf(tape)
            at == verdict.books[i]
            arrival == Arrival(Events[i])
        IN  /\ books[at].ts \in arrival .. arrival + MaxForward
            /\ \A b \in 1 .. at - 1 : books[b].ts < arrival

\* The price of the u-th unit of a side: that of the level where the depth reaches it.
DepthTo(levels, k, scale) == FoldLeft(LAMBDA d, level : d + level.size * scale, 0, SubSeq(levels, 1, k))
UnitPrice(levels, u, scale) ==
    levels[CHOOSE k \in 1 .. Len(levels) :
              DepthTo(levels, k - 1, scale) < u /\ u <= DepthTo(levels, k, scale)].price

(* An executed side paid for every unit the price at which the book offered *)
(* it, and no unit lies beyond the slippage cap.                           *)
FilledFromTheBook ==
    verdict.status = "EXECUTED" => \A i \in 1 .. 2 :
        LET books == BooksOf(tape)
            book == books[verdict.books[i]]
            scale == MidTwice(books[verdict.books[1]])
            Price(u) == UnitPrice(LevelsOf(book, Sides[i]), u, scale)
        IN  /\ verdict.costs[i] = FoldLeft(LAMBDA c, u : c + Price(u), 0, [u \in 1 .. Quantity |-> u])
            /\ \A u \in {1, Quantity} : 2 * Price(u) * 10000 \in
                (10000 - MaxSlippage) * MidTwice(book) .. (10000 + MaxSlippage) * MidTwice(book)

(* The two programs agree: run on the same tape, the one has an episode     *)
(* executed exactly when the other has it closed, and at the same net.     *)
ScorersAgree ==
    LET there == Evaluation
        here == Scoring
    IN  /\ (there.status = "EXECUTED") = (here.status = "CLOSED")
        /\ there.status = "EXECUTED" => there.net = here.net

(* A result that was reported as executed is not revised by a later run,    *)
(* when the tape has grown; nor is a markout that had a price.             *)
ExecutedIsFinal ==
    [][/\ verdict.status = "EXECUTED" => verdict' = verdict
       /\ score.status = "CLOSED" => score'.status = "CLOSED" /\ score'.net = score.net
       /\ (score.status # "none" /\ score.markout # Nothing) => score'.markout = score.markout]_csVars

(* A result stands: it is priced at books the order could have met, both   *)
(* programs give the same one, and no later run revises it.                *)
ScoresStand ==
    []ScoreTypeOK /\ []PricedOnArrival /\ []FilledFromTheBook /\ []ScorersAgree /\ ExecutedIsFinal
=============================================================================
