-------------------------------- MODULE WalletProof --------------------------------
(***************************************************************************)
(* How a wallet is proven to be the one behind a source.  The wallets of   *)
(* the market close positions, the source reports the trades of one        *)
(* trader, and the resolver votes for wallets on a few anchor trades,      *)
(* verifies every wallet with enough votes on trades held out of the vote, *)
(* and names the winner.  Three lanes do so by different rules: reports    *)
(* that tell a size, reports that tell none, and the older one over a      *)
(* reverse index.                                                          *)
(*                                                                         *)
(* One tick is one time at which positions close.  A wallet closes at most *)
(* one position a tick, so a wallet and a tick name an execution, and a    *)
(* tick names a reported trade.                                            *)
(***************************************************************************)
EXTENDS Integers, Sequences, FiniteSets, FiniteSetsExt

CONSTANTS MarketWallets, MaxTime,
          CoinAt,        \* the coin traded at a tick, a number
          CoverageStart, CoverageEnd,
          LaneRules,     \* of each lane, its thresholds
          MaxLost        \* the executions an attempt may fail to see

\* What the constants of a lane are.
LaneRule ==
    [least : Nat, signals : Nat, anchors : Nat, window : Nat, fallback : Nat, votes : Nat \ {0}, spread : Nat,
     candidates : Nat \ {0}, unique : BOOLEAN, dedupe : BOOLEAN, verify : Nat, full : BOOLEAN, lookback : Nat,
     close : Nat, drift : Nat, least_held : Nat, percent : 0 .. 100, gap : Nat \ {0}]
Nobody == "unresolved"

ASSUME ProofAssumption ==
    /\ IsFiniteSet(MarketWallets) /\ Nobody \notin MarketWallets
    /\ MaxTime \in Nat /\ MaxLost \in Nat
    /\ \A l \in DOMAIN LaneRules : LaneRules[l] \in LaneRule

VARIABLES market,  \* the wallets that closed a position, by tick
          told,    \* the ticks of the reported trades
          lane,
          stage,
          votes,   \* of a wallet, pairs of an anchor and the execution that voted
          held,    \* of a verified finalist, pairs of a held-out trade and its position
          losses,  \* the executions the queries of the attempt did not return
          verdict

wpVars == <<market, told, lane, stage, votes, held, losses, verdict>>

NoPairs == [w \in MarketWallets |-> {}]
Rule == LaneRules[lane]

Distance(a, b) == IF a < b THEN b - a ELSE a - b
Newest(S, n) == {t \in S : Cardinality({u \in S : u > t}) < n}
Executions == {e \in MarketWallets \X DOMAIN market : e[1] \in market[e[2]]}
Closed(w, seen) == {t \in DOMAIN market : <<w, t>> \in seen}

\* ---- the market and the source ----

Tick(closers, reported) ==
    /\ stage = "trading" /\ Len(market) < MaxTime
    /\ market' = Append(market, closers)
    /\ told' = IF reported THEN told \cup {Len(market) + 1} ELSE told
    /\ UNCHANGED <<lane, stage, votes, held, losses, verdict>>

\* Which reports tell a size decides the lane; mixed reports and too few are refused.
Start(l) ==
    /\ stage \in {"trading", "failed"} /\ Len(market) = MaxTime
    /\ lane' = l
    /\ stage' = IF Cardinality(told) < LaneRules[l].least THEN "failed"
                ELSE IF Cardinality(told) < LaneRules[l].signals THEN "decided" ELSE "discover"
    /\ verdict' = Nobody /\ votes' = NoPairs /\ held' = <<>> /\ losses' = 0
    /\ UNCHANGED <<market, told>>

\* ---- the vote ----

Covered(s, margin) == s - margin >= CoverageStart /\ s + margin <= CoverageEnd

\* The newest trade of each coin, the rarest coin first, then the newest ones.
SelectAnchors(eligible, n) ==
    LET traded(c) == Cardinality({t \in eligible : CoinAt[t] = c})
        latest == {t \in eligible : \A u \in eligible : CoinAt[u] = CoinAt[t] => u <= t}
        before(t, u) == \/ traded(CoinAt[t]) < traded(CoinAt[u])
                        \/ traded(CoinAt[t]) = traded(CoinAt[u]) /\ CoinAt[t] < CoinAt[u]
        first == {t \in latest : Cardinality({u \in latest : before(u, t)}) < n} IN
    first \cup Newest(eligible \ first, n - Cardinality(first))

AnchorsOf(r) ==
    LET eligible == {s \in told : Covered(s, r.window)} IN
    IF Cardinality(eligible) < r.least THEN {} ELSE SelectAnchors(eligible, r.anchors)

\* The nearest of the executions, the earlier of two; 0 for none.
Nearest(s, executions, tolerance) ==
    LET near == {t \in executions : CoinAt[t] = CoinAt[s] /\ Distance(t, s) <= tolerance} IN
    IF near = {} THEN 0
    ELSE CHOOSE t \in near : \A u \in near : \/ Distance(t, s) < Distance(u, s)
                                             \/ Distance(t, s) = Distance(u, s) /\ t <= u

Found(anchors, w, seen, window) ==
    {p \in {<<s, Nearest(s, Closed(w, seen), window)>> : s \in anchors} : p[2] # 0}

\* _dedupe_reused_execution_matches: the better match keeps the execution, the later trade of equals.
Deduped(pairs) ==
    {p \in pairs : \A q \in pairs :
        q[2] = p[2] => \/ Distance(p[1], p[2]) < Distance(q[1], q[2])
                       \/ Distance(p[1], p[2]) = Distance(q[1], q[2]) /\ q[1] <= p[1]}

VotesIn(seen, window) ==
    LET anchors == AnchorsOf(Rule) IN
    [w \in MarketWallets |-> LET found == Found(anchors, w, seen, window) IN
                       IF Rule.dedupe THEN Deduped(found) ELSE found]

\* The reverse index is asked again with a wider window when the vote is too weak.
Discover(lost) ==
    LET seen == Executions \ lost
        narrow == VotesIn(seen, Rule.window) IN
    /\ stage = "discover"
    /\ votes' = IF \A w \in MarketWallets : Cardinality(narrow[w]) < Rule.votes THEN VotesIn(seen, Rule.fallback) ELSE narrow
    /\ stage' = "verify" /\ losses' = losses + Cardinality(lost)
    /\ UNCHANGED <<market, told, lane, held, verdict>>

\* ---- the proof on trades held out ----

Kth(pairs, k) == CHOOSE p \in pairs : k = Cardinality({q \in pairs :
                    q[2] < p[2] \/ (q[2] = p[2] /\ q[1] < p[1])})
\* Twice the median of the second components.
Median2(pairs) == LET n == Cardinality(pairs) IN Kth(pairs, (n - 1) \div 2)[2] + Kth(pairs, n \div 2)[2]
Offsets(pairs) == {<<p[1], p[2] - p[1]>> : p \in pairs}
Spread(pairs) ==
    LET middle == Median2(Offsets(pairs)) IN
    Median2({<<p[1], Distance(2 * (p[2] - p[1]), middle)>> : p \in pairs})

Shortlist ==
    LET enough == {w \in MarketWallets : Cardinality(votes[w]) >= Rule.votes /\ Spread(votes[w]) <= Rule.spread} IN
    IF ~Rule.unique THEN {w \in enough : \A v \in MarketWallets \ {w} : Cardinality(votes[v]) < Cardinality(votes[w])}
    ELSE IF Cardinality(enough) > Rule.candidates THEN {} ELSE enough

\* The newest trades held out, of the last hours where the lane says so.
SelectedTrades(r) ==
    LET covered == {s \in told : Covered(s, r.close)}
        anchors == AnchorsOf(r)
        chosen == Newest({s \in covered \ anchors : \A u \in covered : u - s <= r.lookback}, r.verify) IN
    IF r.full /\ Cardinality(chosen) < r.verify THEN {} ELSE chosen

AcceptsAny(s, t, w, matched) == TRUE
\* The execution did not vote, and no newer trade has its position.
Votes(s, t, w, matched) ==
    Rule.dedupe =>
        /\ t \notin {p[2] : p \in votes[w]}
        /\ \A p \in matched : p[2] = t => p[1] <= s

HeldOut(w, seen) ==
    LET middle == Median2(Offsets(votes[w]))
        inClock(s) == {t \in Closed(w, seen) : Distance(2 * (t - s), middle) <= 2 * Rule.drift}
        matched == {p \in {<<s, Nearest(s, inClock(s), Rule.close)>> : s \in SelectedTrades(Rule)} : p[2] # 0} IN
    {p \in matched : Votes(p[1], p[2], w, matched)}

Verify(w, lost) ==
    /\ stage = "verify" /\ w \in Shortlist \ DOMAIN held
    /\ losses' = losses + Cardinality(lost)
    /\ held' = [v \in DOMAIN held \cup {w} |-> IF v = w THEN HeldOut(w, Executions \ lost) ELSE held[v]]
    /\ UNCHANGED <<market, told, lane, stage, votes, verdict>>

\* A query that fails after its retries ends the attempt; a later one starts anew.
QueryFails ==
    /\ stage \in {"discover", "verify"}
    /\ stage' = "failed" /\ votes' = NoPairs /\ held' = <<>>
    /\ UNCHANGED <<market, told, lane, losses, verdict>>

\* ---- the verdict ----

ClearOfAny(w) == TRUE
\* select_historical_winner: far enough ahead of the runner-up.
ClearOf(w) == \A v \in DOMAIN held \ {w} : Cardinality(held[w]) - Cardinality(held[v]) >= Rule.gap
Winner(w) ==
    /\ Cardinality(held[w]) >= Rule.least_held
    /\ 100 * Cardinality(held[w]) >= Rule.percent * Cardinality(SelectedTrades(Rule))
    /\ \A v \in DOMAIN held : Cardinality(held[v]) <= Cardinality(held[w])
    /\ ClearOf(w)

Judge ==
    /\ stage = "verify" /\ DOMAIN held = Shortlist
    /\ verdict' = IF \E w \in DOMAIN held : Winner(w) THEN CHOOSE w \in DOMAIN held : Winner(w) ELSE Nobody
    /\ stage' = "decided"
    /\ UNCHANGED <<market, told, lane, votes, held, losses>>

\* The executions a query may miss; the tape ends short of them.
Losses == UNION {kSubset(k, Executions) : k \in 0 .. MaxLost - losses}

ProofInit ==
    /\ market = <<>> /\ told = {} /\ lane \in DOMAIN LaneRules /\ stage = "trading"
    /\ votes = NoPairs /\ held = <<>> /\ losses = 0 /\ verdict = Nobody
ProofNext ==
    \/ \E closers \in SUBSET MarketWallets, reported \in BOOLEAN : Tick(closers, reported)
    \/ Start(lane)
    \/ \E lost \in Losses : Discover(lost)
    \/ \E w \in MarketWallets, lost \in Losses : Verify(w, lost)
    \/ QueryFails \/ Judge
ProofSpec == ProofInit /\ [][ProofNext]_wpVars

-----------------------------------------------------------------------------

\* Type invariant.
ProofTypeOK ==
    /\ Len(market) <= MaxTime /\ \A t \in DOMAIN market : market[t] \subseteq MarketWallets
    /\ told \subseteq 1 .. Len(market) /\ lane \in DOMAIN LaneRules
    /\ stage \in {"trading", "discover", "verify", "failed", "decided"}
    /\ \A w \in MarketWallets : votes[w] \subseteq told \X DOMAIN market
    /\ DOMAIN held \subseteq MarketWallets /\ verdict \in MarketWallets \cup {Nobody}
    /\ losses <= MaxLost /\ (stage = "decided" => AnchorsOf(Rule) \cap SelectedTrades(Rule) = {})

\* A verified wallet stands on that many different positions of its own, each
\* near a different reported trade: nothing it did counts twice, neither in the
\* vote, nor in the proof, nor once in each. (The reverse index promises no such
\* thing.)
CountedOnce ==
    (verdict \in MarketWallets /\ Rule.dedupe) =>
        LET pairs == votes[verdict] \cup held[verdict] IN
        /\ Cardinality({p[1] : p \in pairs}) >= Rule.votes + Rule.least_held
        /\ Cardinality({p[2] : p \in pairs}) = Cardinality(pairs)
        /\ Cardinality({p[1] : p \in pairs}) = Cardinality(pairs)
        /\ \A p \in pairs : <<verdict, p[2]>> \in Executions

\* Two finalists that hold the same positions, as a trader and a wallet that
\* copies it at once do, are never told apart by chance: neither is named,
\* unless a query lost what one of them did.
TwinsUnresolved ==
    (verdict \in MarketWallets /\ losses = 0) =>
        \A w \in MarketWallets \ {verdict} : Closed(w, Executions) # Closed(verdict, Executions)

\* A trader who is alone in the market, reported on every position, and often
\* enough, is found by both lanes whatever the coins and the order.
LoneTraderFound ==
    (stage = "decided" /\ losses = 0 /\ Rule.dedupe) =>
        \A w \in MarketWallets :
            (/\ \A t \in DOMAIN market : market[t] = IF t \in told THEN {w} ELSE {}
             /\ Cardinality(told) >= Rule.signals
             /\ Cardinality(AnchorsOf(Rule)) >= Rule.votes
             /\ Cardinality(SelectedTrades(Rule)) >= Rule.least_held) => verdict = w

\* The wallet that is named is the trader's: it stands on positions of its own,
\* no other wallet fits as well, and a trader alone in the market is found.
VerdictIsSound == ProofTypeOK /\ CountedOnce /\ TwinsUnresolved /\ LoneTraderFound
=============================================================================
