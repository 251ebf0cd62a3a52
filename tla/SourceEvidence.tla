------------------------------- MODULE SourceEvidence -------------------------------
(***************************************************************************)
(* The trades a source reports, read from its file.  Rows that repeat or   *)
(* overlap one another are collapsed to one, so that what is left can vote *)
(* as independent positions; a malformed row, a row without an identity or *)
(* a second identity refuses the whole file.                               *)
(***************************************************************************)
EXTENDS Integers, Sequences, FiniteSets

CONSTANTS MaxRows, MaxTick, RowPrices,
          Tolerance \* the widest times that can award a vote; prices agree or not

ASSUME EvidenceAssumption == {MaxRows, MaxTick, Tolerance} \subseteq Nat

VARIABLES rows,   \* of the file: a trade, or what is wrong with it
          loaded  \* "no", or what the loader made of the file

seVars == <<rows, loaded>>

Trades == {r \in [coin : {"coin"}, side : {"long", "short"}, from : 1 .. MaxTick, until : 1 .. MaxTick, px : RowPrices] :
             r.from <= r.until}
Mine == "mine"
Whose == {Mine, "theirs", "blank"}

\* ---- the file ----

\* A row with a trade, of whom it tells; a malformed row.
WriteTrade(r, who) ==
    /\ loaded.at = "no" /\ Len(rows) < MaxRows
    \* At most one row is odd.
    /\ who # Mine => \A i \in DOMAIN rows : rows[i].ok /\ rows[i].who = Mine
    /\ rows' = Append(rows, [ok |-> TRUE, who |-> who, trade |-> r])
    /\ UNCHANGED loaded
WriteMalformed(r) ==
    /\ loaded.at = "no" /\ Len(rows) < MaxRows
    /\ \A i \in DOMAIN rows : rows[i].ok /\ rows[i].who = Mine
    /\ rows' = Append(rows, [ok |-> FALSE, who |-> Mine, trade |-> r])
    /\ UNCHANGED loaded

\* ---- the loader ----

Lasts(r) == r.until - r.from
Gap(a, b) == IF a < b THEN b - a ELSE a - b
Later(a, b) == IF a < b THEN b ELSE a
Sooner(a, b) == IF a < b THEN a ELSE b

\* The first of the rows with the same trade.
FirstOfKind == {i \in DOMAIN rows : rows[i].ok /\ \A j \in 1 .. (i - 1) : rows[j].ok => rows[j].trade # rows[i].trade}

IntervalsOverlap(a, b) == Later(a.from, b.from) < Sooner(a.until, b.until)
NearEquivalent(a, b) ==
    /\ a.side = b.side /\ a.px = b.px
    /\ Gap(a.from, b.from) <= Tolerance /\ Gap(a.until, b.until) <= Tolerance
RelatedIfOverlapping(i, j) == IntervalsOverlap(rows[i].trade, rows[j].trade)
Related(i, j) ==
    /\ rows[i].trade.coin = rows[j].trade.coin
    /\ IntervalsOverlap(rows[i].trade, rows[j].trade) \/ NearEquivalent(rows[i].trade, rows[j].trade)

\* What a walk over related rows reaches: the rows that no set with row i can
\* leave out without leaving a related one outside.
Closed(reached) == \A k \in reached, j \in FirstOfKind : Related(j, k) => j \in reached
Component(i) == {j \in FirstOfKind : \A reached \in SUBSET FirstOfKind : (i \in reached /\ Closed(reached)) => j \in reached}
Before(i, j) ==
    \/ Lasts(rows[i].trade) > Lasts(rows[j].trade)
    \/ Lasts(rows[i].trade) = Lasts(rows[j].trade) /\ rows[i].trade.from < rows[j].trade.from
    \/ Lasts(rows[i].trade) = Lasts(rows[j].trade) /\ rows[i].trade.from = rows[j].trade.from /\ i < j
Representative(component) == CHOOSE i \in component : \A j \in component \ {i} : Before(i, j)
Representatives == {Representative(Component(i)) : i \in FirstOfKind}

TellsAny(i) == rows[i].who # "blank"
Tells(i) == TRUE
\* _bind_source_identity: one identity, told on every row, and the expected one.
OneIdentity == \A i \in DOMAIN rows : (rows[i].ok /\ Tells(i)) => rows[i].who = Mine

Load ==
    /\ loaded.at = "no" /\ rows # <<>>
    /\ loaded' = IF (\E i \in DOMAIN rows : ~rows[i].ok) \/ ~OneIdentity
                 THEN [at |-> "refused", signals |-> {}] ELSE [at |-> "read", signals |-> Representatives]
    /\ UNCHANGED rows

EvidenceFileInit == rows = <<>> /\ loaded = [at |-> "no", signals |-> {}]
EvidenceFileNext ==
    \/ \E r \in Trades, who \in Whose : WriteTrade(r, who)
    \/ \E r \in Trades : WriteMalformed(r)
    \/ Load
EvidenceFileSpec == EvidenceFileInit /\ [][EvidenceFileNext]_seVars

-----------------------------------------------------------------------------

\* Type invariant.
EvidenceFileTypeOK ==
    /\ Len(rows) <= MaxRows /\ loaded.at \in {"no", "read", "refused"} /\ loaded.signals \subseteq DOMAIN rows
    /\ loaded.at = "read" => loaded.signals # {}

\* Two signals that are read can be two positions: no tick lies in both, and no
\* executions of one wallet could match both within the tolerances.
Spans(r, t) == r.from <= t /\ t < r.until
Independent ==
    \A i, j \in loaded.signals : i # j =>
        LET a == rows[i].trade
            b == rows[j].trade IN
        /\ ~\E t \in 1 .. MaxTick : Spans(a, t) /\ Spans(b, t)
        /\ \/ a.side # b.side \/ a.px # b.px
           \/ Gap(a.from, b.from) > Tolerance \/ Gap(a.until, b.until) > Tolerance

\* Evidence that is read is all of the one source: no row was skipped, no row of
\* another or of nobody is in it, and each row is there or stands behind a longer one.
NothingForeign ==
    loaded.at = "read" =>
        \A i \in DOMAIN rows :
            /\ rows[i].ok /\ rows[i].who = Mine
            /\ \E s \in loaded.signals : Lasts(rows[i].trade) <= Lasts(rows[s].trade)

\* Evidence counts what the source did, each independent trade once.
EvidenceIsOwn == EvidenceFileTypeOK /\ Independent /\ NothingForeign

=============================================================================
