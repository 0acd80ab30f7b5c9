--------------------------- MODULE WalletFeatures ---------------------------
(***************************************************************************)
(* The features of one wallet, computed twice: by the aggregator in Go for *)
(* the score it serves and by the extractor in Python for the models that  *)
(* are trained, and the heuristic labels the training starts from.  A real *)
(* number is a fraction <<numerator, denominator>>, or, where thresholds   *)
(* and weights meet, a number of thousandths.  Times are in hours, and a   *)
(* day has HoursPerDay of them.                                            *)
(***************************************************************************)
EXTENDS Integers, Sequences, FiniteSets, SequencesExt, FiniteSetsExt

CONSTANTS TxHistories,   \* the transactions of the wallet "w", any of them its own
          HourlyVolumes, \* sequences of amounts per hour
          HoursPerDay,   \* 24 in the code
          FeatureNow,    \* the hour the features are computed in
          SignalLevels   \* night and round-amount ratios, in thousandths

VARIABLE featCase        \* a wallet and what is computed of it

Wallet == "w"
Ratio(a, b) == <<a, IF b = 0 THEN 1 ELSE b>>
Same(p, q)  == p[1] * q[2] = q[1] * p[2]
SumOf(s)    == FoldLeft(LAMBDA a, b : a + b, 0, s)
Largest(S)  == CHOOSE x \in S : \A y \in S : y <= x
AtMost(x, n)  == IF x > n THEN n ELSE x
AtLeast(x, n) == IF x < n THEN n ELSE x

-----------------------------------------------------------------------------
(* aggregator/features.go. *)

Counterparty(t) == CASE t.from = Wallet -> t.to [] t.to = Wallet -> t.from [] OTHER -> ""

UniqueCounterparties(txs) == Cardinality({Counterparty(t) : t \in ToSet(txs)} \ {"", Wallet})

Paid(txs) == SelectSeq([n \in DOMAIN txs |-> txs[n].amount], LAMBDA a : a > 0)

AvgAmount(txs) == Ratio(SumOf(Paid(txs)), Len(Paid(txs)))

Middle(amounts) ==
  LET xs  == SortSeq(amounts, <)
      mid == Len(xs) \div 2
  IN  CASE xs = <<>> -> <<0, 1>> [] Len(xs) % 2 = 1 -> <<xs[mid + 1], 1>> [] OTHER -> <<xs[mid] + xs[mid + 1], 2>>
MedianAmount(txs) == Middle(Paid(txs))

Herfindahl(txs) ==
  LET real == SelectSeq(txs, LAMBDA t : Counterparty(t) \notin {"", Wallet} /\ t.amount > 0)
      With(cp) == SumOf([n \in DOMAIN real |-> IF Counterparty(real[n]) = cp THEN real[n].amount ELSE 0])
      total == SumOf([n \in DOMAIN real |-> real[n].amount])
  IN  Ratio(MapThenSumSet(LAMBDA cp : With(cp) * With(cp), {Counterparty(t) : t \in ToSet(real)}), total * total)

SmartContractRatio(txs) == Ratio(Len(SelectSeq(txs, LAMBDA t : t.contract)), Len(txs))

LastSeen(txs) == Largest({t.at : t \in ToSet(txs)})

VelocityPerHour(txs) == Ratio(Len(SelectSeq(txs, LAMBDA t : t.at >= FeatureNow - HoursPerDay)), HoursPerDay)

DormancyDays(txs) == Ratio(AtLeast(FeatureNow - LastSeen(txs), 0), HoursPerDay)

Thousandths(r) == (1000 * r[1]) \div r[2]

\* ScoreFromFeatures, in thousandths of a point.
ScoreFromFeatures(f) ==
  LET penalties == 30 * AtMost(Thousandths(f.herfindahl), 1000)
                   + 25 * AtMost(Thousandths(f.velocity) \div 10, 1000)
                   + 20 * Thousandths(f.contracts)
                   + 15 * AtMost(Thousandths(f.dormancy) \div 365, 1000)
                   + (IF f.count < 5 THEN 10000 ELSE 0)
      score == AtLeast(AtMost(100000 - penalties + AtMost(100 * f.counterparties, 10000), 100000), 0)
  IN  [score |-> score, category |-> CASE score < 25000 -> "scam" [] score < 55000 -> "suspicious"
                                       [] OTHER -> "legit"]

ComputeFeatures(txs) ==
  [count |-> Len(txs), counterparties |-> UniqueCounterparties(txs), avg |-> AvgAmount(txs),
   median |-> MedianAmount(txs), herfindahl |-> Herfindahl(txs), contracts |-> SmartContractRatio(txs),
   velocity |-> VelocityPerHour(txs), dormancy |-> DormancyDays(txs)]

-----------------------------------------------------------------------------
(* ml/features/extractor.py: a row for each side of a transaction. *)

Prepare(txs) ==
  LET Side(t, out) == [cp |-> IF out THEN t.to ELSE t.from, amount |-> t.amount, contract |-> t.contract, at |-> t.at]
      sent     == SelectSeq(txs, LAMBDA t : t.from = Wallet)
      received == SelectSeq(txs, LAMBDA t : t.to = Wallet)
  IN  [n \in DOMAIN sent |-> Side(sent[n], TRUE)] \o [n \in DOMAIN received |-> Side(received[n], FALSE)]

ExtractFeatures(txs) ==
  LET rows    == Prepare(txs)
      amounts == [n \in DOMAIN rows |-> rows[n].amount]
      named   == SelectSeq(rows, LAMBDA r : r.cp # "")
      Times(cp) == Len(SelectSeq(named, LAMBDA r : r.cp = cp))
      parties == {r.cp : r \in ToSet(named)}
  IN  [count |-> Len(rows), counterparties |-> Cardinality(parties),
       avg |-> Ratio(SumOf(amounts), Len(rows)), median |-> Middle(amounts),
       herfindahl |-> Ratio(MapThenSumSet(LAMBDA cp : Times(cp) * Times(cp), parties), Len(named) * Len(named)),
       contracts |-> Ratio(Len(SelectSeq(rows, LAMBDA r : r.contract)), Len(rows)),
       velocity |-> Ratio(Len(SelectSeq(rows, LAMBDA r : r.at >= FeatureNow - HoursPerDay)), HoursPerDay),
       dormancy |-> Ratio(AtLeast(FeatureNow - LastSeen(rows), 0), HoursPerDay)]

-----------------------------------------------------------------------------
(* ml/features/labeler.py, in thousandths. *)

\* _wash_trading_share: of what the wallet sends, the part of its three most frequent receivers.
WashTradingShare(txs) ==
  LET sent   == SelectSeq(txs, LAMBDA t : t.from = Wallet)
      Sent(cp) == Len(SelectSeq(sent, LAMBDA t : t.to = cp))
      top    == SortSeq([cp \in 1 .. Cardinality({t.to : t \in ToSet(sent)}) |->
                           Sent(SetToSeq({t.to : t \in ToSet(sent)})[cp])], >)
  IN  Thousandths(Ratio(SumOf(SubSeq(top, 1, AtMost(Len(top), 3))), Len(sent)))

\* _pump_dump_signal: how far the busiest hour stands out, if it is an inner one.
PumpDumpSignal(volumes) ==
  LET peak    == CHOOSE n \in DOMAIN volumes : /\ \A m \in DOMAIN volumes : volumes[m] <= volumes[n]
                                               /\ \A m \in 1 .. n - 1 : volumes[m] < volumes[n]
      Mean(s) == Ratio(SumOf(s), Len(s))
      before  == Mean(SubSeq(volumes, AtLeast(peak - 3, 1), peak - 1))
      after   == Mean(SubSeq(volumes, peak + 1, AtMost(peak + 3, Len(volumes))))
      spike   == Thousandths(<<volumes[peak] * before[2] - before[1], before[1]>>)
      drop    == Thousandths(<<volumes[peak] * after[2] - after[1], volumes[peak] * after[2]>>)
  IN  IF Len(volumes) < 3 \/ peak \in {1, Len(volumes)} \/ before[1] = 0 THEN 0
      ELSE ((AtMost(spike, 5000) \div 5) * drop) \div 1000

ScamScore(wash, pumpDump, young, freq) ==
  AtMost((400 * wash + 300 * pumpDump + (IF young THEN 150000 ELSE 0) + 150 * freq) \div 1000, 1000)

Over(x, from, width) == (1000 * AtLeast(x - from, 0)) \div width
SuspiciousScore(night, rounds, velocity, herf) ==
  AtMost((300 * Over(night, 400, 600) + 250 * Over(rounds, 600, 400)
          + 250 * AtMost(AtLeast(velocity - 3000, 0) \div 10, 1000) + 200 * Over(herf, 500, 500)) \div 1000, 1000)

\* label and _refine_labels.
LabelOf(scam, susp) ==
  LET legit == AtLeast(1000 - scam - susp, 0)
      most  == CASE legit >= susp /\ legit >= scam -> "legit" [] susp >= scam -> "suspicious" [] OTHER -> "scam"
  IN  [score |-> 100 * legit + 50 * susp + 10 * scam,
       label |-> CASE scam >= 500 -> "scam" [] susp >= 400 -> "suspicious" [] OTHER -> most]

-----------------------------------------------------------------------------
FeatInit == featCase \in [txs : TxHistories, volumes : HourlyVolumes, night : SignalLevels, rounds : SignalLevels,
                          done : {FALSE}, go : {<<>>}, py : {<<>>}, scam : {0}, susp : {0}, label : {<<>>}]

ComputeAll ==
  /\ ~featCase.done
  /\ LET go   == ComputeFeatures(featCase.txs)
         py   == ExtractFeatures(featCase.txs)
         age  == FeatureNow - CHOOSE a \in {t.at : t \in ToSet(featCase.txs)} :
                                \A t \in ToSet(featCase.txs) : a <= t.at
         rate == (1000 * HoursPerDay * py.count) \div AtLeast(age, HoursPerDay)
         scam == ScamScore(WashTradingShare(featCase.txs), PumpDumpSignal(featCase.volumes),
                           age <= 2 * HoursPerDay, AtMost(rate \div 200, 1000))
         susp == SuspiciousScore(featCase.night, featCase.rounds, Thousandths(py.velocity), Thousandths(py.herfindahl))
     IN  featCase' = [featCase EXCEPT !.done = TRUE, !.go = go, !.py = py, !.scam = scam, !.susp = susp,
                                      !.label = LabelOf(scam, susp)]

FeatNext == ComputeAll
FeatSpec == FeatInit /\ [][FeatNext]_featCase

-----------------------------------------------------------------------------
(* Properties. *)

\* The Go and the Python features of the same name are equal on the histories
\* without a transaction to oneself and without an amount of zero, which Go
\* leaves out and Python counts, once or twice (features.go, extractor.py); the
\* Herfindahl index is by amount in one and by number in the other, and equal
\* only if all amounts are.
FeaturesAgree ==
  featCase.done =>
    LET ts == ToSet(featCase.txs) IN
    (\A t \in ts : t.from # t.to /\ t.amount > 0) =>
      /\ featCase.go.count = featCase.py.count /\ featCase.go.counterparties = featCase.py.counterparties
      /\ \A f \in {"avg", "median", "contracts", "velocity", "dormancy"} : Same(featCase.go[f], featCase.py[f])
      /\ (\A t, u \in ts : t.amount = u.amount) => Same(featCase.go.herfindahl, featCase.py.herfindahl)

\* A Herfindahl index lies between one part in as many as there are
\* counterparties with an amount and one, and the median between the extremes.
IndexBounded ==
  featCase.done /\ featCase.go.herfindahl[1] > 0 =>
    /\ featCase.go.herfindahl[1] <= featCase.go.herfindahl[2]
    /\ featCase.go.herfindahl[1] * featCase.go.counterparties >= featCase.go.herfindahl[2]

\* As long as the two signals together stay below one, the target score of a
\* wallet that is labelled a scam is one the aggregator would call suspicious
\* or a scam (at most 55 points), and the signals stay within their bounds;
\* past one, two strong signals give up to 60 points (labeler.py:33-45).
LabelMatchesScore ==
  featCase.done =>
    /\ {featCase.scam, featCase.susp} \subseteq 0 .. 1000
    /\ PumpDumpSignal(featCase.volumes) \in 0 .. 1000
    /\ featCase.label.score <= (IF featCase.label.label = "scam"
                                THEN IF featCase.scam + featCase.susp <= 1000 THEN 55000 ELSE 60000 ELSE 100000)

FeaturesSound == FeaturesAgree /\ IndexBounded /\ LabelMatchesScore
=============================================================================
