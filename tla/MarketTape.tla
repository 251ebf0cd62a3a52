--------------------------------- MODULE MarketTape ---------------------------------
(***************************************************************************)
(* The market tape: a collector reads a websocket, drops the trades that a *)
(* reconnect brings again and puts the rows into a bounded queue; a writer *)
(* task buffers them by partition and flushes a partition that is full,    *)
(* everything when a deadline passes, and the largest partitions when too  *)
(* many rows are buffered.  A flush may fail half way and end the writer.  *)
(* SIGTERM and a change of the universe cancel the collector, whose        *)
(* finally closes the sink.                                                *)
(***************************************************************************)
EXTENDS Integers, Sequences, FiniteSets, SequencesExt

CONSTANTS Partitions,
          MaxTrades,    \* the trades of the market
          Resent,       \* how many of them a subscription brings again
          MaxKeys,      \* of the trade deduper
          QueueSize, FlushRows, MaxBuffered, FlushTicks,
          MaxLost, MaxFailures, MaxTime

ASSUME TapeAssumption ==
    /\ {MaxTrades, Resent, MaxKeys, QueueSize, FlushRows, MaxBuffered, FlushTicks} \subseteq Nat \ {0}
    /\ {MaxLost, MaxFailures, MaxTime} \subseteq Nat
    /\ MaxBuffered >= FlushRows
    /\ Resent <= MaxKeys  \* a subscription brings a few trades, the deduper keeps 100,000
    /\ IsFiniteSet(Partitions)

VARIABLES traded,    \* the partition of every trade of the market
          wire,      \* the trades on their way to the collector
          reader,    \* the collector, at: reading, putting a row, lost, closing or closed
          keys,      \* of the deduper, oldest first
          queue, buffers, files,
          writer,    \* running, done or dead
          deadline, now,
          accepted,  \* history: the rows that went into the queue
          lost, failures

mtVars == <<traded, wire, reader, keys, queue, buffers, files, writer, deadline, now, accepted, lost, failures>>

Stop == 0
LastOnes(s, n) == IF Len(s) > n THEN SubSeq(s, Len(s) - n + 1, Len(s)) ELSE s
Rows(s, p) == {t \in ToSet(s) : t # Stop /\ traded[t] = p}
\* A partition is flushed when it holds FlushRows rows.
Buffered(b) == Cardinality({row \in Partitions \X (1 .. FlushRows) : row[2] \in DOMAIN b[row[1]]})

\* ---- HyperliquidMarketCollector ----

Trade(p) ==
    /\ Len(traded) < MaxTrades
    /\ traded' = Append(traded, p)
    /\ wire' = IF reader.at \in {"reading", "putting"} THEN Append(wire, Len(traded) + 1) ELSE wire
    /\ UNCHANGED <<reader, keys, queue, buffers, files, writer, deadline, now, accepted, lost, failures>>

Seen(t) == t \in ToSet(keys)
Remembered(t) == LastOnes(Append(keys, t), MaxKeys)

\* The sink's put raises for a writer that ended, and the collector closes.
Receive ==
    /\ reader.at = "reading" /\ wire # <<>>
    /\ wire' = Tail(wire)
    /\ LET t == Head(wire) IN
       IF Seen(t) THEN UNCHANGED <<keys, reader>>
       ELSE /\ keys' = Remembered(t)
            /\ reader' = IF writer = "running" THEN [at |-> "putting", row |-> t] ELSE [at |-> "closing", row |-> Stop]
    /\ UNCHANGED <<traded, queue, buffers, files, writer, deadline, now, accepted, lost, failures>>

PutRow ==
    /\ reader.at = "putting" /\ Len(queue) < QueueSize
    /\ queue' = Append(queue, reader.row)
    /\ accepted' = Append(accepted, reader.row)
    /\ reader' = [at |-> "reading", row |-> Stop]
    /\ UNCHANGED <<traded, wire, keys, buffers, files, writer, deadline, now, lost, failures>>

\* The stream ends: what was under way is gone, the rows of the queue are not.
ConnectionLost ==
    /\ reader.at = "reading" /\ lost < MaxLost
    /\ reader' = [at |-> IF writer = "running" THEN "lost" ELSE "closing", row |-> Stop]
    /\ wire' = <<>> /\ lost' = lost + 1
    /\ UNCHANGED <<traded, keys, queue, buffers, files, writer, deadline, now, accepted, failures>>
Reconnect ==
    /\ reader.at = "lost"
    /\ reader' = [at |-> "reading", row |-> Stop]
    /\ wire' = LastOnes([i \in DOMAIN traded |-> i], Resent)
    /\ UNCHANGED <<traded, keys, queue, buffers, files, writer, deadline, now, accepted, lost, failures>>

\* SIGTERM, or the supervisor cancels: the row that waits for room is dropped.
Cancel ==
    /\ reader.at \in {"reading", "putting", "lost"}
    /\ reader' = [at |-> "closing", row |-> Stop] /\ wire' = <<>>
    /\ UNCHANGED <<traded, keys, queue, buffers, files, writer, deadline, now, accepted, lost, failures>>

\* ---- AsyncMarketTapeSink ----

CloseQueues ==
    /\ reader.at = "closing" /\ Len(queue) < QueueSize
    /\ queue' = Append(queue, Stop)
    /\ reader' = [reader EXCEPT !.at = "joining"]
    /\ UNCHANGED <<traded, wire, keys, buffers, files, writer, deadline, now, accepted, lost, failures>>
Joined ==
    /\ reader.at = "joining" /\ writer # "running"
    /\ reader' = [reader EXCEPT !.at = "closed"]
    /\ UNCHANGED <<traded, wire, keys, queue, buffers, files, writer, deadline, now, accepted, lost, failures>>

\* MarketTapeWriter.flush: each partition leaves the buffer once its file is
\* renamed, so those written before the one that fails are not lost.
RowsOf(b) == [i \in DOMAIN b |-> b[i].row]
Emptied(b, ps) == [p \in Partitions |-> IF p \in ps THEN <<>> ELSE b[p]]
DroppedChosen(b, written, chosen) == Emptied(b, chosen)
Dropped(b, written, chosen) == Emptied(b, written)
Write(b, written) == files' = [p \in Partitions |-> IF p \in written THEN files[p] \o RowsOf(b[p]) ELSE files[p]]
Flush(b, first, chosen, after) ==
    \/ /\ buffers' = Emptied(b, first \cup chosen) /\ Write(b, first \cup chosen)
       /\ writer' = after
       /\ UNCHANGED failures
    \/ /\ \E p \in first \cup chosen : b[p] # <<>>
       /\ failures < MaxFailures /\ failures' = failures + 1
       /\ writer' = "dead"
       /\ \E written \in SUBSET (first \cup chosen) :
            /\ \E p \in (first \cup chosen) \ written : b[p] # <<>>
            /\ written # {} => first \subseteq written
            /\ buffers' = Dropped(b, written, first \cup chosen) /\ Write(b, written)

\* _relieve_memory_pressure: the largest partitions, until three quarters remain.
Relief(b) ==
    LET enough(chosen) == 4 * Buffered(Emptied(b, chosen)) <= 3 * MaxBuffered
        largest(chosen) == \A p \in chosen, q \in Partitions \ chosen : Len(b[p]) >= Len(b[q])
        possible == {chosen \in SUBSET Partitions : enough(chosen) /\ largest(chosen)} IN
    CHOOSE chosen \in possible : \A other \in possible : Cardinality(chosen) <= Cardinality(other)

\* Were the deadline put off by each row, a busy partition would keep a quiet one waiting.
PutOff == now + FlushTicks
Kept == deadline

WriterTakes ==
    /\ writer = "running" /\ queue # <<>> /\ Head(queue) # Stop /\ now < deadline
    /\ LET p == traded[Head(queue)]
           b == [buffers EXCEPT ![p] = Append(@, [row |-> Head(queue), at |-> now])]
           full == IF Len(b[p]) >= FlushRows THEN {p} ELSE {} IN
       Flush(b, full, IF Buffered(Emptied(b, full)) >= MaxBuffered THEN Relief(Emptied(b, full)) ELSE {}, "running")
    /\ queue' = Tail(queue) /\ deadline' = Kept
    /\ UNCHANGED <<traded, wire, reader, keys, now, accepted, lost>>
Deadline ==
    /\ writer = "running" /\ now >= deadline
    /\ Flush(buffers, {}, Partitions, "running")
    /\ deadline' = now + FlushTicks
    /\ UNCHANGED <<traded, wire, reader, keys, queue, now, accepted, lost>>
WriterGoesOn == Flush(buffers, {}, Partitions, "running")
WriterEnds == Flush(buffers, {}, Partitions, "done")
WriterStops ==
    /\ writer = "running" /\ queue # <<>> /\ Head(queue) = Stop /\ now < deadline
    /\ queue' = Tail(queue) /\ WriterEnds
    /\ UNCHANGED <<traded, wire, reader, keys, deadline, now, accepted, lost>>

\* The writer's timeout goes off before the clock goes on.
Tick ==
    /\ now < MaxTime /\ (writer = "running" => now < deadline)
    /\ now' = now + 1
    /\ UNCHANGED <<traded, wire, reader, keys, queue, buffers, files, writer, deadline, accepted, lost, failures>>

\* The supervisor starts a capture of the new universe, systemd one of the old:
\* a collector that remembers no trade; what was in memory is gone.
Restart ==
    /\ reader.at = "closed" /\ lost < MaxLost /\ lost' = lost + 1
    /\ reader' = [at |-> "lost", row |-> Stop] /\ wire' = <<>> /\ keys' = <<>>
    /\ queue' = <<>> /\ buffers' = [p \in Partitions |-> <<>>] /\ writer' = "running"
    /\ deadline' = now + FlushTicks
    /\ accepted' = <<>> /\ files' = [p \in Partitions |-> <<>>] \* those of this capture
    /\ UNCHANGED <<traded, now, failures>>

MarketInit ==
    /\ traded = <<>> /\ wire = <<>> /\ keys = <<>>
    /\ reader = [at |-> "lost", row |-> Stop]
    /\ queue = <<>> /\ buffers = [p \in Partitions |-> <<>>] /\ files = [p \in Partitions |-> <<>>]
    /\ writer = "running" /\ now = 0 /\ deadline = FlushTicks
    /\ accepted = <<>> /\ lost = 0 /\ failures = 0
WriterStep == WriterTakes \/ Deadline \/ WriterStops
CloseStep == CloseQueues \/ Joined
MarketNext ==
    \/ \E p \in Partitions : Trade(p)
    \/ Receive \/ PutRow \/ ConnectionLost \/ Reconnect \/ Cancel
    \/ CloseStep \/ WriterStep \/ Tick \/ Restart
MarketSpec == MarketInit /\ [][MarketNext]_mtVars /\ WF_mtVars(WriterStep) /\ WF_mtVars(CloseStep)

-----------------------------------------------------------------------------

\* Type invariant.
MarketTypeOK ==
    /\ reader.at \in {"reading", "putting", "lost", "closing", "joining", "closed"}
    /\ writer \in {"running", "done", "dead"} /\ Len(queue) <= QueueSize /\ Len(keys) <= MaxKeys
    /\ \A p \in Partitions : Len(buffers[p]) <= FlushRows
    /\ writer = "running" => now <= deadline

Ascending(s) == \A i, j \in DOMAIN s : i < j => s[i] < s[j]
Written(p) == files[p] \o RowsOf(buffers[p])

\* No accepted row is lost, repeated or reordered, whatever partition fails to be
\* written: those that left the queue are in the files and the buffer of their
\* partition, and those of the queue, the latest ones, come in order after them.
RowsOnceInOrder ==
    /\ \A p \in Partitions :
          /\ Ascending(Written(p)) /\ ToSet(Written(p)) = Rows(accepted, p) \ Rows(queue, p)
          /\ Rows(queue, p) \subseteq Rows(accepted, p)
    /\ \A i, j \in DOMAIN queue : i < j => queue[i] # Stop /\ (queue[j] = Stop \/ queue[i] < queue[j])
    /\ \A t \in ToSet(accepted) \ ToSet(queue), u \in ToSet(queue) : u = Stop \/ t < u

\* A capture that was stopped and whose writer did not fail has written every row.
StoppedIsWritten ==
    (reader.at = "closed" /\ writer = "done") =>
        \A p \in Partitions : Ascending(files[p]) /\ ToSet(files[p]) = Rows(accepted, p)

\* However many partitions are below their own threshold, memory is bounded.
BufferBounded == writer = "running" => Buffered(buffers) < MaxBuffered

\* A row of a quiet partition reaches its file within the deadline, however busy
\* the others are.
NoRowLate == writer = "running" => \A p \in Partitions : \A i \in DOMAIN buffers[p] : now <= buffers[p][i].at + FlushTicks

\* A reconnect brings trades again; one collector never puts a trade twice, nor
\* one behind a later one.
TradeOnce == Ascending(accepted)

\* The tape is what was accepted: every row once and in order, in time, within
\* bounded memory, and all of it in the files when a capture was stopped.
TapeIsComplete ==
    /\ MarketTypeOK
    /\ RowsOnceInOrder /\ TradeOnce /\ StoppedIsWritten
    /\ BufferBounded /\ NoRowLate

\* A cancelled capture ends, unless its writer died behind a full queue: then
\* nobody takes the rows and close waits for room for ever.
CloseEnds ==
    reader.at = "closing" ~> (reader.at = "closed" \/ (writer = "dead" /\ Len(queue) = QueueSize))
=============================================================================
