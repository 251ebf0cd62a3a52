-------------------------------- MODULE WalletShadow --------------------------------
(***************************************************************************)
(* Shadow validation of wallets.  A collector subscribes to the fills of   *)
(* the wallets the registry says to watch and writes each fill once; a     *)
(* subscription brings a snapshot of the latest fills first, and while the *)
(* connection is up a watcher follows the registry, which an operator      *)
(* edits under the lock the collector learns coins under.  The evaluator   *)
(* pairs the fills that were written live into episodes to copy.  The      *)
(* fills of one wallet, in one coin, are followed.                         *)
(***************************************************************************)
EXTENDS Integers, Sequences, FiniteSets, Functions, SequencesExt

CONSTANTS Wallets, Followed, MaxPosition,
          MaxActive,    \* wallets of one address, per IP
          MaxFills, SnapshotSize, MaxNoted, MaxEdits, MaxTroubles

\* Nobody's snapshot is longer than what the deduper keeps (200,000 keys).
ASSUME ShadowAssumption ==
    /\ Followed \in Wallets /\ IsFiniteSet(Wallets)
    /\ {MaxPosition, MaxFills, SnapshotSize, MaxEdits, MaxTroubles} \subseteq Nat
    /\ {MaxActive, MaxNoted} \subseteq Nat \ {0}
    /\ SnapshotSize <= MaxNoted

VARIABLES fills,      \* of the wallet followed: the position before and after; the index is the time
          registry,   \* of each wallet: off, validation or approved, and whether it has the coin
          conn,       \* down, opening or up
          sync,       \* idle, or what a walk of _sync_subscriptions still has to do
          subscribed, \* the wallets, as the registry had them at the last walk
          inbox,      \* fills on their way
          started, seen, log,
          joined,     \* history: how many fills there were at the last subscription
          unwritten,  \* history: the fills marked as seen whose row was not written
          edits, troubles

wsVars == <<fills, registry, conn, sync, subscribed, inbox, started, seen, log, joined, unwritten, edits, troubles>>

Holding == IF fills = <<>> THEN 0 ELSE fills[Len(fills)].after
Active(reg) == {w \in Wallets : reg[w].stage # "off"}
NoWalk == [at |-> "idle", desired |-> <<>>]

\* ---- the wallet and the operator ----

TradeTo(q) ==
    /\ Len(fills) < MaxFills /\ q # Holding
    /\ fills' = Append(fills, [before |-> Holding, after |-> q])
    /\ inbox' = IF Followed \in DOMAIN subscribed THEN Append(inbox, [fill |-> Len(fills) + 1, snapshot |-> FALSE]) ELSE inbox
    /\ UNCHANGED <<registry, conn, sync, subscribed, started, seen, log, joined, unwritten, edits, troubles>>

\* WalletRegistry.update: refused beyond the limit, and for an approval without a coin.
Update(w, stage) ==
    /\ edits < MaxEdits /\ stage # registry[w].stage
    /\ stage = "approved" => registry[w].coin = "known"
    /\ LET reg == [registry EXCEPT ![w].stage = stage] IN
       Cardinality(Active(reg)) <= MaxActive /\ registry' = reg
    /\ edits' = edits + 1
    /\ UNCHANGED <<fills, conn, sync, subscribed, inbox, started, seen, log, joined, unwritten, troubles>>

\* ---- the connection ----

Connect ==
    /\ conn = "down" /\ conn' = "opening"
    /\ UNCHANGED <<fills, registry, sync, subscribed, inbox, started, seen, log, joined, unwritten, edits, troubles>>
Disconnected == conn' = "down" /\ sync' = NoWalk /\ subscribed' = <<>> /\ inbox' = <<>>
FillsLost ==
    /\ conn # "down" /\ troubles < MaxTroubles /\ troubles' = troubles + 1
    /\ Disconnected
    /\ UNCHANGED <<fills, registry, started, seen, log, joined, unwritten, edits>>
\* The process ends and is started again: it takes no fill from before.
ShadowRestart ==
    /\ troubles < MaxTroubles /\ troubles' = troubles + 1
    /\ Disconnected /\ started' = Len(fills) + 1 /\ seen' = <<>>
    /\ UNCHANGED <<fills, registry, log, joined, unwritten, edits>>

\* ---- _sync_subscriptions: once before the first message, then by the watcher ----

\* A walk that finds nothing new changes nothing.
RereadNever == conn = "opening"
Reread == conn = "opening" \/ DOMAIN subscribed # Active(registry) \/ \E w \in DOMAIN subscribed : subscribed[w] # registry[w]
SyncReads ==
    /\ conn \in {"opening", "up"} /\ sync = NoWalk /\ Reread
    /\ sync' = [at |-> "walking", desired |-> Restrict(registry, Active(registry))]
    /\ UNCHANGED <<fills, registry, conn, subscribed, inbox, started, seen, log, joined, unwritten, edits, troubles>>

Leaving == DOMAIN subscribed \ DOMAIN sync.desired
Joining == DOMAIN sync.desired \ DOMAIN subscribed
Unsubscribe(w) ==
    /\ sync.at = "walking" /\ w \in Leaving
    /\ subscribed' = Restrict(subscribed, DOMAIN subscribed \ {w})
    /\ UNCHANGED <<fills, registry, conn, sync, inbox, started, seen, log, joined, unwritten, edits, troubles>>
NoneLeaves == Leaving = {}
Subscribe(w) ==
    /\ sync.at = "walking" /\ w \in Joining /\ NoneLeaves
    /\ subscribed' = [v \in DOMAIN subscribed \cup {w} |-> IF v = w THEN sync.desired[w] ELSE subscribed[v]]
    /\ IF w = Followed
       THEN /\ joined' = Len(fills)
            /\ inbox' = inbox \o [i \in 1 .. (IF Len(fills) < SnapshotSize THEN Len(fills) ELSE SnapshotSize) |->
                                    [fill |-> Len(fills) + i - (IF Len(fills) < SnapshotSize THEN Len(fills) ELSE SnapshotSize),
                                     snapshot |-> TRUE]]
       ELSE UNCHANGED <<joined, inbox>>
    /\ UNCHANGED <<fills, registry, conn, sync, started, seen, log, unwritten, edits, troubles>>
SyncEnds ==
    /\ sync.at = "walking" /\ Leaving = {} /\ Joining = {}
    /\ subscribed' = sync.desired /\ sync' = NoWalk /\ conn' = "up"
    /\ UNCHANGED <<fills, registry, inbox, started, seen, log, joined, unwritten, edits, troubles>>

\* ---- _record_fill ----

TooOld(k) == k < started
Newest(s, n) == IF Len(s) > n THEN SubSeq(s, Len(s) - n + 1, Len(s)) ELSE s
NotedOneLess(k) == Newest(Append(seen, k), MaxNoted - 1)
Noted(k) == Newest(Append(seen, k), MaxNoted)

\* Mutant: add_coin writes back what the last walk read.
LearnedOfWalk == [registry EXCEPT ![Followed] = [stage |-> subscribed[Followed].stage, coin |-> "known"]]
\* add_coin reads the registry again under its lock: only the coin is new.
Learned == [registry EXCEPT ![Followed].coin = "known"]
Learns == Followed \in DOMAIN subscribed /\ subscribed[Followed].stage = "validation" /\ subscribed[Followed].coin # "known"

Skip ==
    /\ conn = "up" /\ inbox # <<>>
    /\ LET k == Head(inbox).fill IN TooOld(k) \/ k \in ToSet(seen)
    /\ inbox' = Tail(inbox)
    /\ UNCHANGED <<fills, registry, conn, sync, subscribed, started, seen, log, joined, unwritten, edits, troubles>>
\* The row is written, or the write fails and the collector connects again.
RecordFill(written) ==
    /\ conn = "up" /\ inbox # <<>>
    /\ LET k == Head(inbox).fill IN
       /\ ~TooOld(k) /\ k \notin ToSet(seen)
       /\ seen' = Noted(k)
       /\ IF written
          THEN /\ log' = Append(log, [fill |-> k, snapshot |-> Head(inbox).snapshot,
                                      mine |-> Followed \in DOMAIN subscribed])
               /\ inbox' = Tail(inbox)
               /\ UNCHANGED <<conn, sync, subscribed, unwritten, troubles>>
          ELSE /\ troubles < MaxTroubles /\ troubles' = troubles + 1
               /\ unwritten' = unwritten \cup {k} /\ Disconnected /\ UNCHANGED log
    /\ registry' = IF Learns THEN Learned ELSE registry
    /\ UNCHANGED <<fills, started, joined, edits>>

ShadowInit ==
    /\ fills = <<>> /\ registry = [w \in Wallets |-> [stage |-> IF w = Followed THEN "validation" ELSE "off", coin |-> "unknown"]]
    /\ conn = "down" /\ sync = NoWalk /\ subscribed = <<>> /\ inbox = <<>>
    /\ started = 1 /\ seen = <<>> /\ log = <<>>
    /\ joined = 0 /\ unwritten = {} /\ edits = 0 /\ troubles = 0
SyncStep == SyncReads \/ (\E w \in Wallets : Unsubscribe(w) \/ Subscribe(w)) \/ SyncEnds
ShadowNext ==
    \/ \E q \in -MaxPosition .. MaxPosition : TradeTo(q)
    \/ \E w \in Wallets, stage \in {"off", "validation", "approved"} : Update(w, stage)
    \/ Connect \/ FillsLost \/ ShadowRestart \/ SyncStep
    \/ Skip \/ \E written \in BOOLEAN : RecordFill(written)
ShadowSpec == ShadowInit /\ [][ShadowNext]_wsVars /\ WF_wsVars(Connect) /\ WF_wsVars(SyncStep)

\* ---- load_prospective_episodes ----

PositionSide(q) == IF q > 0 THEN 1 ELSE IF q < 0 THEN -1 ELSE 0
SameSide(entry, side) == PositionSide(fills[entry].after) = side
WrittenLive(k) == \E i \in DOMAIN log : log[i] = [fill |-> k, snapshot |-> FALSE, mine |-> TRUE]
Paired(s, k) ==
    LET f == fills[k] IN
    IF ~WrittenLive(k) THEN s
    ELSE IF f.before = 0 THEN [s EXCEPT !.open = k]
    ELSE IF f.before * f.after > 0 THEN s
    ELSE [open |-> IF f.after = 0 THEN 0 ELSE k,
          found |-> IF s.open # 0 /\ SameSide(s.open, PositionSide(f.before))
                    THEN s.found \cup {<<s.open, k>>} ELSE s.found]
Prospective ==
    LET at[k \in 0 .. Len(fills)] == IF k = 0 THEN [open |-> 0, found |-> {}] ELSE Paired(at[k - 1], k) IN
    at[Len(fills)].found

-----------------------------------------------------------------------------

\* Type invariant.
ShadowTypeOK ==
    /\ conn \in {"down", "opening", "up"} /\ started \in 1 .. Len(fills) + 1 /\ Len(seen) <= MaxNoted
    /\ DOMAIN subscribed \subseteq Wallets /\ (conn = "down" => subscribed = <<>> /\ inbox = <<>>)
    /\ \A i \in DOMAIN log : log[i].fill \in DOMAIN fills
    /\ Cardinality(Active(registry)) <= MaxActive

\* However often the collector reconnects or restarts, a fill has one row.
RecordedOnce == \A i, j \in DOMAIN log : log[i].fill = log[j].fill => i = j

\* Once a connection has worked off what came, every fill since the process
\* started has its row, back to where the snapshot began, but for those whose
\* write failed: they were marked as seen, and the next snapshot is no help.
DrainedIsCaptured ==
    (conn = "up" /\ sync = NoWalk /\ Followed \in DOMAIN subscribed /\ inbox = <<>>) =>
        \A k \in DOMAIN fills :
            (k >= started /\ k > joined - SnapshotSize) => k \in unwritten \/ \E i \in DOMAIN log : log[i].fill = k

\* The exchange never counts more users than it allows, also while a walk replaces one.
SubscriptionsWithinLimit == Cardinality(DOMAIN subscribed) <= MaxActive

\* Who is watched is for the operator to say: what the collector writes into the
\* registry brings back no wallet that was taken out meanwhile.
OnlyTheOperatorChooses ==
    [][seen' # seen => \A w \in Wallets : registry'[w].stage = registry[w].stage]_wsVars

\* The positions the wallet really had.
Ends(k) == fills[k].before # 0 /\ fills[k].before * fills[k].after <= 0
Positions ==
    {life \in (DOMAIN fills) \X (DOMAIN fills) :
        /\ life[1] < life[2] /\ Ends(life[2]) /\ ~\E k \in life[1] + 1 .. life[2] - 1 : Ends(k)
        /\ fills[life[1]].before * fills[life[1]].after <= 0 /\ fills[life[1]].after # 0}
Unseen(life) == Cardinality({k \in life[1] .. life[2] : ~WrittenLive(k)})

\* A position whose fills were all written live is an episode, and one lost fill
\* makes no false episode. (Two can: a close and the next open of the same side.)
ProspectiveAreReal ==
    /\ \A life \in Positions : Unseen(life) = 0 => life \in Prospective
    /\ \A life \in Prospective : life \notin Positions => Unseen(life) >= 2

\* What is recorded of a followed wallet is what it did: every fill once, none
\* missing that could be had, within the exchange's limit, and no wallet comes
\* back that the operator took out.
FollowedIsRecorded ==
    /\ []ShadowTypeOK /\ []RecordedOnce /\ []DrainedIsCaptured /\ []SubscriptionsWithinLimit
    /\ []ProspectiveAreReal
    /\ OnlyTheOperatorChooses

\* The subscriptions come to follow the registry.
SubscriptionsFollow == <>[](DOMAIN subscribed = Active(registry))
=============================================================================
