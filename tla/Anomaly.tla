------------------------------ MODULE Anomaly ------------------------------
(***************************************************************************)
(* Project 05: the simulator that makes transactions of one client         *)
(* (internal/simulator), the extractor that keeps the client's rolling     *)
(* features in Redis (cmd/feature-extractor, internal/redis/features.go),  *)
(* and the worker that scores batches of them (ml/worker.py).              *)
(*                                                                         *)
(* Time is counted in hours.  A client's transactions are one Kafka        *)
(* partition, handled in order by one extractor; its keys in Redis are its *)
(* own, and no hour without a transaction is long enough to let them       *)
(* expire.  Amounts are multiples of 6 and MaxTxs is at most 3, so that    *)
(* the running mean and the sum of squares of welfordUpdate are integers.  *)
(***************************************************************************)
EXTENDS Integers, FiniteSets, SequencesExt

CONSTANTS Short, Long,       \* WindowShort and WindowLong, in hours
          Jumps,             \* how far a suspicious client misdates
          BurstLength,       \* 10 or 20 transactions in the code
          Attempts,          \* of handleWithRetry, 3 in the code
          ScoreBatch,        \* cfg.batch_size of the worker
          MaxTxs, MaxHour,   \* bounds on the behaviour
          AnomalyMaxFaults   \* bound on errors of Redis, Kafka and ClickHouse and crashes

VARIABLES simulator, txs,
          extractor,    \* its position and commits; history: what it marked undone, and
                        \* whether it read anything again
          redis,        \* the client's keys; history: whose ZADD was ever applied
          featTopic,
          scorer,       \* the worker's position and commits; history: what it has read
          alerts, anomalyFaults

anomalyVars == <<simulator, txs, extractor, redis, featTopic, scorer, alerts, anomalyFaults>>

Average == 6
Huge == 60
NoStats == [count |-> 0, mean |-> 0, m2 |-> 0]
Rest == [at |-> "idle", tries |-> 0, stats |-> NoStats, feature |-> [id |-> 0]]

Started(profiles) ==
    /\ \E p \in profiles : simulator = [hour |-> 4, profile |-> p, burst |-> 0, next |-> 4]
    /\ txs = <<>> /\ featTopic = <<>>
    /\ extractor = [pos |-> 0, committed |-> 0, step |-> Rest, passed |-> {}, again |-> FALSE]
    /\ redis = [amounts |-> {}, parties |-> {}, last |-> 0, stats |-> NoStats, writes |-> 0, added |-> {}]
    /\ scorer = [pos |-> 0, committed |-> 0, buffer |-> <<>>, pending |-> <<>>, read |-> <<>>]
    /\ alerts = [emitted |-> <<>>, stored |-> <<>>]
    /\ anomalyFaults = 0

AnomalyInit == Started({"normal", "suspicious", "fraud"})

(***************************************************************************)
(* The simulator.                                                          *)
(***************************************************************************)
Bursting == simulator.burst > 0 \/ simulator.hour > simulator.next

\* assemble: what a client of each profile does, in a burst and outside one.
Assembled ==
    CASE simulator.profile = "fraud" /\ Bursting ->
            [amount : {Huge}, party : {"new"}, at : {simulator.hour}]
      [] simulator.profile = "suspicious" /\ Bursting ->
            [amount : {0}, party : {"known"}, at : {simulator.hour}]
      [] simulator.profile = "suspicious" /\ ~Bursting ->
            [amount : {Average}, party : {"known"}, at : {simulator.hour + j : j \in Jumps}]
      [] OTHER -> [amount : {Average, 2 * Average}, party : {"known"}, at : {simulator.hour}]

EmitOne ==
    /\ Len(txs) < MaxTxs
    /\ \E tx \in Assembled : txs' = Append(txs, tx)
    /\ simulator' = IF simulator.profile = "normal" \/ ~Bursting THEN simulator
                    ELSE IF simulator.burst > 0 THEN [simulator EXCEPT !.burst = @ - 1]
                    ELSE [simulator EXCEPT !.burst = BurstLength, !.next = simulator.hour + 1]
    /\ UNCHANGED <<extractor, redis, featTopic, scorer, alerts, anomalyFaults>>

HourPasses ==
    /\ simulator.hour < MaxHour
    /\ simulator' = [simulator EXCEPT !.hour = @ + 1]
    /\ UNCHANGED <<txs, extractor, redis, featTopic, scorer, alerts, anomalyFaults>>

(***************************************************************************)
(* The extractor.                                                          *)
(***************************************************************************)
SumOfAmounts(ids) == FoldLeft(LAMBDA sum, i : sum + txs[i].amount, 0, SetToSeq(ids))


welfordUpdate(s, x) ==
    LET n == s.count + 1
        mean == s.mean + (x - s.mean) \div n
    IN [count |-> n, mean |-> mean, m2 |-> s.m2 + (x - s.mean) * (x - mean)]

\* The sign of the z-score is all that is kept of it.
computeZScore(s, x) ==
    IF s.count < 2 \/ s.m2 <= 0 \/ x = s.mean THEN 0 ELSE IF x > s.mean THEN 1 ELSE -1

PartyOf(id) == IF txs[id].party = "new" THEN <<"new", id>> ELSE <<"known">>

\* The writes of the first MULTI: it adds the transaction and its counterparty, prunes
\* the amounts, never the counterparties, and sets the last time.
Added(id) ==
    redis' = [redis EXCEPT !.amounts = {i \in @ \cup {id} : txs[i].at > txs[id].at - Long},
                           !.parties = @ \cup {PartyOf(id)},
                           !.last = txs[id].at, !.added = @ \cup {id}]

\* ComputeFeatures up to its first Exec, which also reads what the MULTI left and the
\* last time and the statistics from before it.
Extract ==
    /\ extractor.step.at = "idle" /\ extractor.pos < Len(txs)
    /\ LET id == extractor.pos + 1
           tx == txs[id]
       IN /\ Added(id)
          /\ extractor' = [extractor EXCEPT !.step = [@ EXCEPT
                !.at = "computed", !.stats = welfordUpdate(redis.stats, tx.amount),
                !.feature = [id |-> id, amount |-> tx.amount,
                             frequency |-> Cardinality({i \in redis'.amounts : txs[i].at >= tx.at - Short}),
                             sum24h |-> SumOfAmounts(redis'.amounts),
                             unique |-> Cardinality(redis'.parties),
                             since |-> IF redis.last = 0 \/ redis.last > tx.at THEN 0 ELSE tx.at - redis.last,
                             z |-> computeZScore(redis.stats, tx.amount)]]]
    /\ UNCHANGED <<simulator, txs, featTopic, scorer, alerts, anomalyFaults>>

Wrote(stats) == redis' = [redis EXCEPT !.stats = stats, !.writes = @ + 1]

AnomalyFault == anomalyFaults < AnomalyMaxFaults /\ anomalyFaults' = anomalyFaults + 1

\* writeStats, and the handler's Send, which the broker may still refuse; the message
\* is then marked.
Publish05 ==
    /\ extractor.step.at = "computed"
    /\ Wrote(extractor.step.stats)
    /\ \/ featTopic' = Append(featTopic, extractor.step.feature) /\ UNCHANGED anomalyFaults
       \/ AnomalyFault /\ UNCHANGED featTopic
    /\ extractor' = [extractor EXCEPT !.pos = @ + 1, !.step = Rest]
    /\ UNCHANGED <<simulator, txs, scorer, alerts>>

\* The message is marked though nothing came of it.
MarkUndone == extractor' = [extractor EXCEPT !.pos = @ + 1, !.step = Rest, !.passed = @ \cup {extractor.pos + 1}]

\* An error of the first pipeline or of writeStats, which Redis may have applied all
\* the same: the attempt ends, and the last one leaves the message to the dead letters.
\* An outage that lasts over the attempts at a message is one fault.
AttemptFails ==
    /\ extractor.pos < Len(txs)
    /\ IF extractor.step.tries = 0 THEN AnomalyFault ELSE UNCHANGED anomalyFaults
    /\ \/ UNCHANGED redis
       \/ extractor.step.at = "idle" /\ Added(extractor.pos + 1)
       \/ extractor.step.at = "computed" /\ Wrote(extractor.step.stats)
    /\ LET tries == extractor.step.tries + 1
       IN IF tries < Attempts
            THEN extractor' = [extractor EXCEPT !.step = [Rest EXCEPT !.tries = tries]]
            ELSE MarkUndone
    /\ UNCHANGED <<simulator, txs, featTopic, scorer, alerts>>

\* When the session has ended, at a rebalance or because the extractor stops, a message
\* is not tried, or not again, and marked all the same.
SessionEnds ==
    /\ extractor.step.at = "idle" /\ extractor.pos < Len(txs)
    /\ MarkUndone
    /\ UNCHANGED <<simulator, txs, redis, featTopic, scorer, alerts, anomalyFaults>>

\* A crash resumes at an offset committed since the marks it covers.
CrashExtractor ==
    /\ AnomalyFault /\ extractor.pos > 0
    /\ \E c \in extractor.committed .. extractor.pos :
          extractor' = [extractor EXCEPT !.pos = c, !.committed = c, !.step = Rest, !.again = TRUE]
    /\ UNCHANGED <<simulator, txs, redis, featTopic, scorer, alerts>>

(***************************************************************************)
(* The worker.  The two models are external: a huge amount is what both of *)
(* them call an anomaly.                                                   *)
(***************************************************************************)
Anomalous(f) == f.amount >= Huge

Poll ==
    /\ scorer.pending = <<>> /\ scorer.pos < Len(featTopic)
    /\ Len(scorer.buffer) < ScoreBatch
    /\ LET f == featTopic[scorer.pos + 1]
       IN scorer' = [scorer EXCEPT !.pos = @ + 1, !.buffer = Append(@, f), !.read = Append(@, f)]
    /\ UNCHANGED <<simulator, txs, extractor, redis, featTopic, alerts, anomalyFaults>>

\* _process_batch and _emit, when the batch is full, its time is over or the
\* worker stops.
ProcessBatch ==
    /\ scorer.pending = <<>> /\ scorer.buffer # <<>>
    /\ LET found == SelectSeq(scorer.buffer, Anomalous)
       IN /\ scorer' = [scorer EXCEPT !.buffer = <<>>, !.pending = found]
          /\ alerts' = [alerts EXCEPT !.emitted = @ \o found]
    /\ UNCHANGED <<simulator, txs, extractor, redis, featTopic, anomalyFaults>>

\* _persist swallows a failed insert.
Persist ==
    /\ scorer.pending # <<>>
    /\ scorer' = [scorer EXCEPT !.pending = <<>>]
    /\ \/ alerts' = [alerts EXCEPT !.stored = @ \o scorer.pending] /\ UNCHANGED anomalyFaults
       \/ AnomalyFault /\ UNCHANGED alerts
    /\ UNCHANGED <<simulator, txs, extractor, redis, featTopic>>

\* What was polled is committed every few seconds, whatever is still in the buffer: the
\* next worker reads again from the last commit, or what comes from now on when there was
\* none (auto.offset.reset is latest).
CrashWorker ==
    /\ scorer.pos > 0 /\ AnomalyFault
    /\ \E c \in scorer.committed .. scorer.pos :
          scorer' = [scorer EXCEPT !.pos = IF c = 0 THEN Len(featTopic) ELSE c, !.committed = c,
                                   !.buffer = <<>>, !.pending = <<>>]
    /\ UNCHANGED <<simulator, txs, extractor, redis, featTopic, alerts>>

AnomalyNext ==
    \/ EmitOne \/ HourPasses \/ Extract \/ Publish05 \/ AttemptFails \/ SessionEnds
    \/ CrashExtractor
    \/ Poll \/ ProcessBatch \/ Persist \/ CrashWorker

AnomalySpec == AnomalyInit /\ [][AnomalyNext]_anomalyVars

(***************************************************************************)
(* Properties.                                                             *)
(***************************************************************************)
AnomalyTypeOK ==
    /\ extractor.committed <= extractor.pos /\ extractor.pos <= Len(txs)
    /\ redis.amounts \subseteq DOMAIN txs
    /\ scorer.committed <= scorer.pos /\ scorer.pos <= Len(featTopic)
    /\ anomalyFaults \in 0 .. AnomalyMaxFaults

InOrder(n) == \A i \in 2 .. n : txs[i - 1].at <= txs[i].at

\* A feature says what the client's transactions were: when they are dated in order and
\* none is read a second time, the one-hour frequency and the day's amounts are those of
\* the transactions added up to it, however often the extractor had to try (ZADD and
\* PFADD repeat harmlessly), and the counterparties are all of them since the start, not
\* the day's; without failures the time since the last one is the true one.  What is not
\* added was marked undone, by the dead letters or at the end of a session.
FeaturesTrue ==
    /\ 1 .. extractor.pos \subseteq redis.added \cup extractor.passed
    /\ \A k \in DOMAIN featTopic :
        LET f == featTopic[k]
            known == {i \in redis.added : i <= f.id}
            since(h) == {i \in known : txs[i].at >= txs[f.id].at - h}
            day == {i \in known : txs[i].at > txs[f.id].at - Long}
            former == known \ {f.id}
        IN InOrder(Len(txs)) /\ ~extractor.again =>
              /\ f.frequency = Cardinality(since(Short))
              /\ f.sum24h = SumOfAmounts(day)
              /\ f.unique = Cardinality({PartyOf(i) : i \in known})
              /\ anomalyFaults = 0 /\ former # {} => f.since = txs[f.id].at - txs[Max(former)].at

\* The running statistics are those of the amounts taken in: without failures
\* exactly the mean and the squares of those not marked undone, and never of more
\* writes than were made (welfordUpdate against its definition).
StatsTrue ==
    LET s == redis.stats
        done == 1 .. extractor.pos \ extractor.passed
        sum == SumOfAmounts(done)
        squares == FoldLeft(LAMBDA q, i : q + txs[i].amount * txs[i].amount, 0, SetToSeq(done))
    IN /\ s.count = redis.writes
       /\ anomalyFaults = 0 => /\ s.count * s.mean = sum
                               /\ s.count * s.m2 = s.count * squares - sum * sum

\* An alert is announced before it is stored, and no more often than its feature was
\* read, which a crash makes happen again; while nothing failed every feature was read
\* once, in order, and every anomalous one is announced or in the buffer.
AlertsFollowFeatures ==
    LET flagged == SelectSeq(scorer.read, Anomalous)
        Times(f, seq) == Len(SelectSeq(seq, LAMBDA g : g = f))
    IN /\ anomalyFaults = 0 =>
             /\ scorer.read = SubSeq(featTopic, 1, scorer.pos)
             /\ flagged = alerts.emitted \o SelectSeq(scorer.buffer, Anomalous)
             /\ alerts.emitted = alerts.stored \o scorer.pending
       /\ \A f \in ToSet(featTopic) : /\ Times(f, alerts.stored) <= Times(f, alerts.emitted)
                                      /\ Times(f, alerts.emitted) <= Times(f, flagged)

AnomalySound == FeaturesTrue /\ StatsTrue /\ AlertsFollowFeatures
=============================================================================
