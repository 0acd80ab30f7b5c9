--------------------------- MODULE WalletPipeline ---------------------------
(***************************************************************************)
(* The way of a wallet's transactions in the scoring system: the ingester  *)
(* puts them into Kafka with the time of the moment, the writer collects   *)
(* them in memory and inserts them in batches, and the aggregator computes *)
(* the statistics of the transactions of a window of block times, which    *)
(* ends where the next one begins.  A message that the writer takes when   *)
(* its session has ended is marked without being handled.                  *)
(***************************************************************************)
EXTENDS Integers, Sequences, FiniteSets

CONSTANTS WTxs,            \* 1 .. the number of transactions, in Kafka's order
          BatchSize,       \* Writer.BatchSize
          Lookback,        \* Aggregator.LookbackDur
          MaxRows,         \* fetchTransactions: the rows at which a tick stops reading
          MaxRefresh,      \* computeForWallet: the rows beyond which a refresh stops
          MaxClock,
          WalletMaxFaults  \* failed inserts, rebalances and crashes

ASSUME WalletAssumption ==
  /\ IsFiniteSet(WTxs) /\ WTxs = 1 .. Cardinality(WTxs)
  /\ BatchSize \in Nat \ {0} /\ Lookback \in Nat /\ MaxClock \in Nat /\ WalletMaxFaults \in Nat
  /\ Lookback <= MaxClock /\ MaxRows \in Nat \ {0} /\ MaxRefresh \in Nat

VARIABLES
  clock,
  blockTime,    \* of every ingested transaction
  offset,       \* the transaction the writer consumes next
  buf,          \* batcher.buf
  writing,      \* the batches that the handler, the ticker and main are inserting
  writer,       \* "running", "stopping" once its context is cancelled, "flushed"
  txTable,      \* wallets.transactions: how often each is there
  lost,         \* history: dropped with a batch that failed
  cut,          \* history: marked after the session had ended, and never handled
  lastTickEnd,
  run,          \* the window of a tick, or a refresh, and the transactions it read and left
  statsRow,     \* wallet_stats: when they were computed and from what
  counted,      \* history: the transactions of the ticks that were stored
  beyond,       \* history: those that such a tick left, having read MaxRows
  missed,       \* history: stored, or passed over, after their window was read
  walletFaults

walletVars == <<clock, blockTime, offset, buf, writing, writer, txTable, lost, cut, lastTickEnd,
                run, statsRow, counted, beyond, missed, walletFaults>>

Idles == [kind |-> "none", to |-> 0, txs |-> {}, left |-> {}]
Slots == {"handler", "ticker", "main"}

WalletInit ==
  /\ clock = Lookback /\ blockTime = <<>> /\ offset = 1 /\ buf = {} /\ writer = "running"
  /\ writing = [s \in Slots |-> {}]
  /\ txTable = [t \in WTxs |-> 0] /\ lost = {} /\ cut = {}
  /\ lastTickEnd = 0 /\ run = Idles
  /\ statsRow = [at |-> 0, txs |-> {}] /\ counted = {} /\ beyond = {} /\ missed = {}
  /\ walletFaults = 0

batcher    == <<offset, buf, writing, writer, txTable, lost, cut>>
aggregator == <<lastTickEnd, run, statsRow, counted, beyond>>

WalletFault == walletFaults < WalletMaxFaults /\ walletFaults' = walletFaults + 1

Advance == /\ clock < MaxClock /\ clock' = clock + 1
           /\ UNCHANGED <<blockTime, batcher, aggregator, missed, walletFaults>>

\* The ingester: the block time is the time of the moment.
Ingest == /\ Len(blockTime) < Cardinality(WTxs)
          /\ blockTime' = Append(blockTime, clock)
          /\ UNCHANGED <<clock, batcher, aggregator, missed, walletFaults>>
-----------------------------------------------------------------------------
(***************************************************************************)
(* The writer.                                                             *)
(***************************************************************************)
\* The handler's add.  It inserts a full batch itself, and takes no other
\* message until that is done; the message is marked whatever came of it.
Add ==
  /\ writer = "running" /\ writing["handler"] = {}
  /\ offset <= Len(blockTime) /\ offset' = offset + 1
  /\ LET full == Cardinality(buf \union {offset}) >= BatchSize
     IN  /\ buf' = IF full THEN {} ELSE buf \union {offset}
         /\ writing' = IF full THEN [writing EXCEPT !["handler"] = buf \union {offset}] ELSE writing
  /\ UNCHANGED <<clock, blockTime, writer, txTable, lost, cut, aggregator, missed, walletFaults>>

\* ConsumeClaim may still take a message when the session has ended, at a rebalance
\* or because the writer stops: handleWithRetry returns at once and it is marked.
MarkAfterSession ==
  /\ writer \in {"running", "stopping"} /\ writing["handler"] = {}
  /\ offset <= Len(blockTime) /\ offset' = offset + 1
  /\ cut' = cut \union {offset}
  /\ IF writer = "running" THEN WalletFault ELSE UNCHANGED walletFaults
  /\ UNCHANGED <<clock, blockTime, buf, writing, writer, txTable, lost, aggregator, missed>>

\* flush, by the ticker, or by main when the consumer has ended.
Flush(s) ==
  /\ buf # {} /\ writing[s] = {}
  /\ writing' = [writing EXCEPT ![s] = buf]
  /\ buf' = {}
  /\ UNCHANGED <<clock, blockTime, offset, txTable, lost, cut, aggregator, missed, walletFaults>>

TickerFlush == writer \in {"running", "stopping"} /\ Flush("ticker") /\ UNCHANGED writer
MainFlush   == /\ writer = "stopping" /\ writing["handler"] = {}
               /\ Flush("main") /\ writer' = "flushed"

\* The end of the last window that was read.
ReadUpTo == IF run.kind = "tick" THEN run.to ELSE lastTickEnd

InsertBatch(txs) ==
  /\ txTable' = [t \in WTxs |-> IF t \in txs THEN txTable[t] + 1 ELSE txTable[t]]
  /\ missed' = missed \union {t \in txs : blockTime[t] < ReadUpTo}

\* write: a batch whose insert fails is only logged.  The ticker inserts with
\* the context of the process, which is cancelled when it stops.
Write(s) ==
  /\ writing[s] # {}
  /\ writing' = [writing EXCEPT ![s] = {}]
  /\ \/ /\ s = "ticker" => writer = "running"
        /\ InsertBatch(writing[s])
        /\ UNCHANGED <<lost, walletFaults>>
     \/ /\ s = "ticker" /\ writer # "running"
        /\ lost' = lost \union writing[s]
        /\ UNCHANGED <<txTable, missed, walletFaults>>
     \/ /\ WalletFault
        /\ lost' = lost \union writing[s]
        /\ UNCHANGED <<txTable, missed>>
  /\ UNCHANGED <<clock, blockTime, offset, buf, writer, cut, aggregator>>

\* The context of the process is cancelled; a handler that inserts goes on with its own.
StopWriter ==
  /\ writer = "running" /\ writer' = "stopping"
  /\ UNCHANGED <<clock, blockTime, offset, buf, writing, txTable, lost, cut, aggregator, missed,
                 walletFaults>>

\* A crash loses what is in memory; what was not committed comes again.
CrashWriter ==
  /\ WalletFault
  /\ \E back \in 1 .. offset : offset' = back
  /\ lost' = lost \union buf \union UNION {writing[s] : s \in Slots}
  /\ buf' = {} /\ writing' = [s \in Slots |-> {}] /\ writer' = "running"
  /\ UNCHANGED <<clock, blockTime, txTable, cut, aggregator, missed>>
-----------------------------------------------------------------------------
(***************************************************************************)
(* The aggregator.                                                         *)
(***************************************************************************)
InTable == {t \in WTxs : txTable[t] > 0}

\* The rows that GetByTimeRange pages through.
TimeRange(from, to) == {t \in InTable : from <= blockTime[t] /\ blockTime[t] < to}

\* The first half of tick: the window and its transactions, MaxRows at most.  Which
\* come first is up to their slots and signatures, which are not modelled.
ReadWindow ==
  /\ run = Idles
  /\ LET rows == TimeRange(lastTickEnd, clock)
     IN  \E txs \in SUBSET rows :
           /\ Cardinality(txs) = MaxRows \/ (txs = rows /\ Cardinality(rows) <= MaxRows)
           /\ run' = [kind |-> "tick", to |-> clock, txs |-> txs, left |-> rows \ txs]
  /\ UNCHANGED <<clock, blockTime, batcher, lastTickEnd, statsRow, counted, beyond, missed,
                 walletFaults>>

\* RefreshWallet reads the lookback, the last moment included, page by page until it
\* has more than MaxRefresh rows.
ReadRefresh ==
  /\ run = Idles
  /\ LET rows == TimeRange(clock - Lookback, clock + 1)
     IN  \E txs \in SUBSET rows :
           /\ Cardinality(txs) > MaxRefresh \/ txs = rows
           /\ run' = [kind |-> "refresh", to |-> clock, txs |-> txs, left |-> rows \ txs]
  /\ UNCHANGED <<clock, blockTime, batcher, lastTickEnd, statsRow, counted, beyond, missed,
                 walletFaults>>

\* UpsertStats: the row of the latest computation is the one that is seen.
UpsertStats == statsRow' = IF run.txs = {} \/ run.to < statsRow.at THEN statsRow
                           ELSE [at |-> run.to, txs |-> run.txs]

\* The second half: the window is done with when its statistics are stored.
FinishRun ==
  /\ run # Idles /\ run' = Idles
  /\ UpsertStats
  /\ IF run.kind = "tick"
       THEN /\ lastTickEnd' = run.to
            /\ counted' = counted \union run.txs
            /\ beyond' = beyond \union run.left
       ELSE UNCHANGED <<lastTickEnd, counted, beyond>>
  /\ UNCHANGED <<clock, blockTime, batcher, missed, walletFaults>>

\* Mutant: a failed tick is not taken again.
FailRunMovesOn ==
  /\ run # Idles /\ run' = Idles
  /\ WalletFault
  /\ lastTickEnd' = run.to
  /\ UNCHANGED <<clock, blockTime, batcher, statsRow, counted, beyond, missed>>

\* A query or the upsert failed: the next tick takes the window again.
FailRun ==
  /\ run # Idles /\ run' = Idles
  /\ WalletFault
  /\ UNCHANGED <<clock, blockTime, batcher, lastTickEnd, statsRow, counted, beyond, missed>>

\* A restarted aggregator begins one lookback ago, wherever it was.
RestartAggregator ==
  /\ WalletFault
  /\ run' = Idles
  /\ lastTickEnd' = clock - Lookback
  /\ missed' = missed \union {t \in InTable : blockTime[t] < lastTickEnd'}
  /\ UNCHANGED <<clock, blockTime, batcher, statsRow, counted, beyond>>

WalletNext ==
  \/ Advance \/ Ingest \/ Add \/ MarkAfterSession \/ TickerFlush \/ MainFlush \/ StopWriter \/ CrashWriter
  \/ \E s \in Slots : Write(s)
  \/ ReadWindow \/ ReadRefresh \/ FinishRun \/ FailRun \/ RestartAggregator

WalletSpec == WalletInit /\ [][WalletNext]_walletVars
-----------------------------------------------------------------------------
WalletTypeOK ==
  /\ clock \in 0 .. MaxClock /\ offset \in 1 .. Cardinality(WTxs) + 1
  /\ buf \subseteq WTxs /\ Cardinality(buf) < BatchSize
  /\ lastTickEnd \in 0 .. clock

InMemory == buf \union UNION {writing[s] : s \in Slots}
Once(t, txs) == IF t \in txs THEN 1 ELSE 0

\* Every consumed transaction has a fate: it is stored, on its way, lost with a batch,
\* or was marked unhandled.  Without a failed insert, a rebalance or a crash it has one
\* only, is stored once at most, and is lost or unhandled only when the writer stops.
ConsumedIsStored ==
  /\ \A t \in 1 .. offset - 1 : t \in InTable \union InMemory \union lost \union cut
  /\ walletFaults = 0 =>
       /\ lost \union cut # {} => writer # "running"
       /\ \A t \in WTxs :
            txTable[t] + Once(t, InMemory) + Once(t, lost) + Once(t, cut) = IF t < offset THEN 1 ELSE 0

\* A transaction that was in the table when its window was read is counted by
\* that tick: a failed tick repeats its window, and no two windows leave a gap.
\* Only a tick that read MaxRows leaves some, and no later one takes those up.
WindowsCover ==
  /\ \A t \in InTable : blockTime[t] < lastTickEnd => t \in counted \union beyond \union missed
  /\ beyond # {} => Cardinality(counted) >= MaxRows

\* What the run checks of the way of a transaction (writer, aggregator).
WalletPipelineSound == WalletTypeOK /\ ConsumedIsStored /\ WindowsCover
=============================================================================
