------------------------------ MODULE EvidenceGroups ------------------------------
(***************************************************************************)
(* How the rows of one portfolio become independent trades.  A post names  *)
(* a trade by a base id, a short id or both, and a direct investment by    *)
(* its id alone; _group_evidence unites the ids with a union-find whose    *)
(* root is the smallest id, and keeps of each trade the row that closed    *)
(* last.  Rows arrive one at a time, in the order of their record keys.    *)
(***************************************************************************)
EXTENDS Naturals, Sequences, FiniteSets

CONSTANTS BaseIds, ShortIds, \* disjoint, ordered as their strings
          MaxRows, MaxClose

VARIABLES rows,    \* the evidence rows seen so far
          parents, \* what find returns of each id
          last     \* the row kept under each root

egVars == <<rows, parents, last>>

TradeIds == BaseIds \cup ShortIds
NoRow == [trade |-> 0, alias |-> {}, close |-> 0]

\* closed_trade_evidence: the base id, or else the short one, is the trade id,
\* and a row without either is no evidence.
Evidence(base, short, close) ==
    [trade |-> CHOOSE id \in IF base # {} THEN base ELSE short : TRUE,
     alias |-> base \cup short, close |-> close]
AtMostOne(ids) == {{}} \cup {{x} : x \in ids}
RowsPossible ==
    {Evidence(id[1], id[2], c) : c \in 0 .. MaxClose,
        id \in (AtMostOne(BaseIds) \X AtMostOne(ShortIds)) \ {<<{}, {}>>}}

\* union: the smaller of the two roots becomes the root of both.
UniteUnderAnchor(par, a, b) == [id \in TradeIds |-> IF par[id] = par[b] THEN par[a] ELSE par[id]]
Unite(par, a, b) ==
    LET low == IF par[a] < par[b] THEN par[a] ELSE par[b] IN
    [id \in TradeIds |-> IF par[id] \in {par[a], par[b]} THEN low ELSE par[id]]

\* At most one alias differs from the trade id itself.
United(par, row) ==
    IF row.alias = {row.trade} THEN par
    ELSE Unite(par, row.trade, CHOOSE id \in row.alias : id # row.trade)

\* The second pass over all rows, under the roots of the first.
Replaces(a, b) == a.close >= b.close
Kept(seen, par) ==
    LET of(id) == {k \in DOMAIN seen : par[seen[k].trade] = id} IN
    [id \in TradeIds |->
        IF of(id) = {} THEN NoRow
        ELSE seen[CHOOSE k \in of(id) : \A m \in of(id) \ {k} :
                      IF m < k THEN Replaces(seen[k], seen[m]) ELSE ~Replaces(seen[m], seen[k])]]

AddRow(row) ==
    /\ Len(rows) < MaxRows
    /\ rows' = Append(rows, row)
    /\ parents' = United(parents, row)
    /\ last' = Kept(rows', parents')

GroupsInit == rows = <<>> /\ parents = [id \in TradeIds |-> id] /\ last = [id \in TradeIds |-> NoRow]
GroupsNext == \E row \in RowsPossible : AddRow(row)
GroupsSpec == GroupsInit /\ [][GroupsNext]_egVars

-----------------------------------------------------------------------------

\* Reference: two ids are one trade when no set of ids that every row respects
\* holds the one without the other.
Respected == {s \in SUBSET TradeIds : \A k \in DOMAIN rows : rows[k].alias \cap s # {} => rows[k].alias \subseteq s}

\* Ids are one trade exactly when the rows connect them, whatever the order the
\* rows came in, and the id of the trade is the smallest of them.
TradesAreComponents ==
    LET respected == Respected
        connected(a, b) == \A s \in respected : a \in s => b \in s IN
    \A a, b \in TradeIds : /\ (parents[a] = parents[b]) <=> connected(a, b)
                           /\ connected(a, b) => parents[a] <= b

\* Each trade is counted once and carries the row that closed last.
TradeCountedOnce ==
    /\ \A id \in TradeIds : last[id] # NoRow <=> \E k \in DOMAIN rows : parents[rows[k].trade] = id
    /\ \A k \in DOMAIN rows : last[parents[rows[k].trade]].close >= rows[k].close
=============================================================================
