----------------------------- MODULE Orderflow -----------------------------
(***************************************************************************)
(* Swaps on their way through project 06: Kafka, the feature engine        *)
(* (cmd/feature-engine, internal/features), ClickHouse and Redis, and the  *)
(* predictor that reads the windows back (ml/predictor.py).                *)
(*                                                                         *)
(* A swap is its offset in the topic; PairOf gives its pair, "" for the     *)
(* swaps without one.  The engine handles one message at a time while two  *)
(* tickers, one of the aggregator and one of the swap buffer, run beside   *)
(* it; shutdown cancels all of them at once.  Redis does not fail here,    *)
(* ClickHouse does.  What the windows contain is module FlowFeatures.      *)
(***************************************************************************)
EXTENDS Integers, SequencesExt

CONSTANTS Offsets,         \* 1 .. n, the offsets of the topic
          PairOf,          \* [Offsets -> pairs]
          FlowBatch,       \* cfg.Engine.BatchSize
          SeqLen,          \* lstm_seq_len
          MaxTicks,        \* bound on the aggregator's ticks
          FlowMaxFaults    \* bound on failed writes and crashes

VARIABLES kafka,       \* the group's position and its committed offset; how often each message
                       \* was handled, and those marked without it
          handler,     \* the message being handled and how far it is
          engine,      \* phase, swapBuffer, batches being written, aggregator
          flowStore,   \* ClickHouse's tables and the cached window per pair
          flowFaults   \* writes failed, crashes

orderflowVars == <<kafka, handler, engine, flowStore, flowFaults>>

FlowPairs == {PairOf[o] : o \in Offsets}
Quiet == [offset |-> 0, at |-> "idle", batch |-> <<>>]
Fresh == [phase |-> "running", buffer |-> <<>>, ticking |-> <<>>,
          held |-> <<>>, windows |-> <<>>, tick |-> 0, flushed |-> FALSE, drained |-> FALSE]

FlowInit ==
    /\ kafka = [next |-> 1, marked |-> 0, committed |-> 0, read |-> [o \in Offsets |-> 0], passed |-> {}]
    /\ handler = Quiet
    /\ engine = Fresh
    /\ flowStore = [swaps |-> <<>>, windows |-> <<>>, latest |-> [p \in FlowPairs |-> 0],
                    predicted |-> [p \in FlowPairs |-> {}]]
    /\ flowFaults = 0

Alive == engine.phase \in {"running", "stopping"}

\* Engine.Push, first half: every aggregator holds the swap, if it has a pair.
Push ==
    /\ Alive /\ handler.at = "idle"
    /\ kafka.next \in Offsets
    /\ handler' = [Quiet EXCEPT !.offset = kafka.next, !.at = "held"]
    /\ kafka' = [kafka EXCEPT !.next = @ + 1, !.read[kafka.next] = @ + 1]
    /\ engine' = [engine EXCEPT !.held = IF PairOf[kafka.next] = "" THEN @ ELSE Append(@, kafka.next)]
    /\ UNCHANGED <<flowStore, flowFaults>>

\* A message claimed after the session's context ended, at a rebalance of the
\* group or because the engine stops, is not handled, but ConsumeClaim marks it
\* all the same.
MarkUnhandled ==
    /\ Alive /\ handler.at = "idle"
    /\ kafka.next \in Offsets
    /\ kafka' = [kafka EXCEPT !.next = @ + 1, !.marked = kafka.next, !.passed = @ \cup {kafka.next}]
    /\ UNCHANGED <<handler, engine, flowStore, flowFaults>>

\* Engine.Push, second half, under swapMu.
Buffer ==
    /\ Alive /\ handler.at = "held"
    /\ LET buffer == Append(engine.buffer, handler.offset)
           full == Len(buffer) >= FlowBatch
       IN /\ engine' = [engine EXCEPT !.buffer = IF full THEN <<>> ELSE buffer]
          /\ handler' = [handler EXCEPT !.at = "write", !.batch = IF full THEN buffer ELSE <<>>]
    /\ UNCHANGED <<kafka, flowStore, flowFaults>>

\* writeSwaps logs a failed insert; the handler returns nil either way.
Written(batch) ==
    \/ /\ flowStore' = [flowStore EXCEPT !.swaps = @ \o batch]
       /\ UNCHANGED flowFaults
    \/ /\ batch # <<>> /\ flowFaults < FlowMaxFaults
       /\ flowFaults' = flowFaults + 1
       /\ UNCHANGED flowStore

WriteFull ==
    /\ Alive /\ handler.at = "write"
    /\ Written(handler.batch)
    /\ kafka' = [kafka EXCEPT !.marked = handler.offset]
    /\ handler' = Quiet
    /\ UNCHANGED <<engine>>

\* Mutant: the buffer is written and kept.
FlushSwapsKept(last) ==
    /\ Alive /\ ~engine.flushed /\ engine.ticking = <<>>
    /\ IF last THEN engine.phase = "stopping" ELSE engine.buffer # <<>>
    /\ engine' = [engine EXCEPT !.ticking = engine.buffer, !.flushed = last]
    /\ UNCHANGED <<kafka, handler, flowStore, flowFaults>>

\* flushSwaps takes the buffer, on the ticker and a last time when the context
\* has ended (a ticker that is due then may still come first).
FlushSwaps(last) ==
    /\ Alive /\ ~engine.flushed /\ engine.ticking = <<>>
    /\ IF last THEN engine.phase = "stopping" ELSE engine.buffer # <<>>
    /\ engine' = [engine EXCEPT !.ticking = engine.buffer, !.buffer = <<>>, !.flushed = last]
    /\ UNCHANGED <<kafka, handler, flowStore, flowFaults>>

WriteTick ==
    /\ Alive /\ engine.ticking # <<>>
    /\ Written(engine.ticking)
    /\ engine' = [engine EXCEPT !.ticking = <<>>]
    /\ UNCHANGED <<kafka, handler>>

OfPair(swaps, p) == SelectSeq(swaps, LAMBDA o : PairOf[o] = p)

\* Aggregator.flush: a window per pair it holds, cached before they are
\* inserted.  After the context has ended the cache refuses, the insert (which
\* has a context of its own) does not.
FlushWindows(last) ==
    /\ Alive /\ ~engine.drained /\ engine.windows = <<>>
    /\ IF last THEN engine.phase = "stopping" ELSE engine.held # <<>> /\ engine.tick < MaxTicks
    /\ LET end == engine.tick + 1
           pairs == SetToSeq({PairOf[o] : o \in ToSet(engine.held)})
       IN /\ engine' = [engine EXCEPT !.held = <<>>, !.tick = end, !.drained = last,
                           !.windows = [i \in DOMAIN pairs |->
                               [pair |-> pairs[i], end |-> end, swaps |-> OfPair(engine.held, pairs[i])]]]
          /\ flowStore' = IF engine.phase = "running"
                          THEN [flowStore EXCEPT !.latest = [p \in FlowPairs |-> IF p \in ToSet(pairs) THEN end ELSE @[p]]]
                          ELSE flowStore
    /\ UNCHANGED <<kafka, handler, flowFaults>>

InsertWindows ==
    /\ Alive /\ engine.windows # <<>>
    /\ \/ /\ flowStore' = [flowStore EXCEPT !.windows = @ \o engine.windows]
          /\ UNCHANGED flowFaults
       \/ /\ flowFaults < FlowMaxFaults
          /\ flowFaults' = flowFaults + 1
          /\ UNCHANGED flowStore
    /\ engine' = [engine EXCEPT !.windows = <<>>]
    /\ UNCHANGED <<kafka, handler>>

StopEngine ==
    /\ engine.phase = "running"
    /\ engine' = [engine EXCEPT !.phase = "stopping"]
    /\ UNCHANGED <<kafka, handler, flowStore, flowFaults>>

\* main returns when Subscribe has returned and Engine.Run is done.
Stopped ==
    /\ engine.phase = "stopping" /\ engine.flushed /\ engine.drained
    /\ engine.ticking = <<>> /\ engine.windows = <<>>
    /\ handler.at = "idle"
    /\ engine' = [engine EXCEPT !.phase = "stopped"]
    /\ UNCHANGED <<kafka, handler, flowStore, flowFaults>>

\* A crash loses what is in memory; the next engine starts at the last commit,
\* which sarama makes every second for the offsets marked until then.
CrashEngine ==
    /\ Alive /\ flowFaults < FlowMaxFaults
    /\ flowFaults' = flowFaults + 1
    /\ engine' = [Fresh EXCEPT !.tick = engine.tick]
    /\ handler' = Quiet
    /\ \E c \in kafka.committed .. kafka.marked :
          kafka' = [kafka EXCEPT !.next = c + 1, !.marked = c, !.committed = c]
    /\ UNCHANGED <<flowStore>>

WindowsOf(p) == SelectSeq(flowStore.windows, LAMBDA w : w.pair = p)

\* run_batch predicts every pair with enough windows from its latest ones and
\* inserts the predictions; a failed insert loses them (run_daemon logs it).
RunBatch ==
    /\ flowStore' = [flowStore EXCEPT !.predicted = [p \in FlowPairs |->
           IF Len(WindowsOf(p)) >= SeqLen THEN @[p] \cup {Last(WindowsOf(p)).end} ELSE @[p]]]
    /\ flowStore' # flowStore
    /\ UNCHANGED <<kafka, handler, engine, flowFaults>>

FlowNext ==
    \/ Push \/ MarkUnhandled \/ Buffer \/ WriteFull \/ WriteTick \/ InsertWindows
    \/ (\E last \in BOOLEAN : FlushSwaps(last) \/ FlushWindows(last))
    \/ StopEngine \/ Stopped \/ CrashEngine
    \/ RunBatch

FlowSpec == FlowInit /\ [][FlowNext]_orderflowVars

(***************************************************************************)
(* Properties.                                                             *)
(***************************************************************************)
OrderflowTypeOK ==
    /\ kafka.committed \in 0 .. kafka.marked /\ kafka.marked < kafka.next
    /\ handler.at \in {"idle", "held", "write"}
    /\ engine.phase \in {"running", "stopping", "stopped"}
    /\ flowFaults \in 0 .. FlowMaxFaults

Occurrences(o, seq) == Len(SelectSeq(seq, LAMBDA x : x = o))
InWindows(o, ws) == FoldLeft(LAMBDA n, w : n + Occurrences(o, w.swaps), 0, ws)

SwapRows(o) == Occurrences(o, flowStore.swaps)
InFlight(o) ==
    Occurrences(o, engine.buffer) + Occurrences(o, engine.ticking) + Occurrences(o, handler.batch)
        + IF handler.at = "held" /\ handler.offset = o THEN 1 ELSE 0
Windowed(o) ==
    InWindows(o, flowStore.windows) + InWindows(o, engine.windows) + Occurrences(o, engine.held)

\* No swap is stored or counted in windows more often than it was handled, and
\* while nothing failed each one claimed was handled once or marked without, and
\* each one handled is in the table or on its way, once, and in one window, once:
\* Push and the two tickers hand the buffers over without sharing them (engine.go
\* Push and flushSwaps, aggregator.go flush, consumer.go ConsumeClaim).
SwapsCountedOnce ==
    \A o \in Offsets :
        /\ SwapRows(o) + InFlight(o) <= kafka.read[o]
        /\ Windowed(o) <= kafka.read[o]
        /\ flowFaults = 0 /\ engine.phase # "stopped" =>
              /\ kafka.read[o] = (IF o < kafka.next /\ o \notin kafka.passed THEN 1 ELSE 0)
              /\ SwapRows(o) + InFlight(o) = kafka.read[o]
              /\ PairOf[o] # "" => Windowed(o) = kafka.read[o]

\* The cache is never behind the stored windows of a running engine, and it is
\* ahead of them only while they are being inserted or after an insert failed.
LatestIsNewest ==
    \A p \in FlowPairs :
        LET stored == IF WindowsOf(p) = <<>> THEN 0 ELSE Last(WindowsOf(p)).end
        IN flowFaults = 0 /\ engine.phase = "running" =>
              /\ stored <= flowStore.latest[p]
              /\ engine.windows = <<>> => stored = flowStore.latest[p]

\* While the engine runs, no prediction is about a window newer than the one
\* /latest shows for its pair: the cache is set before the insert the predictor
\* waits for.
PredictionsGrounded ==
    \A p \in FlowPairs : \A e \in flowStore.predicted[p] :
        flowFaults = 0 /\ engine.phase = "running" => e <= flowStore.latest[p]

OrderflowSound == SwapsCountedOnce /\ LatestIsNewest /\ PredictionsGrounded
=============================================================================
