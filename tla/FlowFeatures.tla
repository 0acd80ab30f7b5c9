--------------------------- MODULE FlowFeatures ---------------------------
(***************************************************************************)
(* The numbers project 06 computes from swaps: the feature window of a     *)
(* pair (internal/features/aggregator.go), with its volume-synchronised    *)
(* probability of informed trading, and the blend of the two predictors    *)
(* (ml/ensemble.py).  Amounts, prices and probabilities are integers;      *)
(* volumes are counted in twentieths, so that a bucket of computeVPIN has  *)
(* an integral size and no rounding is involved (the code's 1e-9 slack     *)
(* only absorbs the rounding of floats).                                   *)
(***************************************************************************)
EXTENDS Integers, SequencesExt

CONSTANTS FlowTrades, \* the sequences of swaps an aggregator holds at a flush
          ProbTables  \* the validation sets: sequences of [xgb, lstm, label]

VARIABLE flowCase

vpinBuckets == 20
AlphaSteps == 20          \* the grid 0.0, 0.05, ..., 1.0
Classes == 1 .. 3         \* up, down, flat

Volume(swaps) == FoldLeft(LAMBDA sum, s : sum + s.amount, 0, swaps)

Buys(swaps) == SelectSeq(swaps, LAMBDA s : s.buy)

Distance(a, b) == IF a > b THEN a - b ELSE b - a

\* sort.Slice by block time.  It sorts a dozen swaps or fewer by insertion, so
\* that swaps of one time keep the order they arrived in; among more it promises
\* nothing for them, and no property below is about them.
ByBlockTime(swaps) ==
    FoldLeft(LAMBDA sorted, s :
                SelectSeq(sorted, LAMBDA x : x.at <= s.at) \o <<s>>
                    \o SelectSeq(sorted, LAMBDA x : x.at > s.at),
             <<>>, swaps)

\* The inner loop of computeVPIN: pour the remaining volume of one swap into
\* the current bucket, closing it whenever it is full.
RECURSIVE Pour(_, _, _, _)
Pour(bucket, remaining, buy, size) ==
    IF remaining = 0 THEN bucket
    ELSE LET take == IF remaining > size - bucket.vol THEN size - bucket.vol ELSE remaining
             buys == bucket.buys + IF buy THEN take ELSE 0
             sells == bucket.sells + IF buy THEN 0 ELSE take
             full == bucket.vol + take = size
         IN Pour([acc |-> bucket.acc + IF full THEN Distance(buys, sells) ELSE 0,
                  vol |-> IF full THEN 0 ELSE bucket.vol + take,
                  buys |-> IF full THEN 0 ELSE buys,
                  sells |-> IF full THEN 0 ELSE sells],
                 remaining - take, buy, size)

\* The imbalance summed over the buckets; VPIN is this over 40 * Volume.
Imbalance(swaps) ==
    LET size == Volume(swaps)
        last == FoldLeft(LAMBDA b, s : Pour(b, vpinBuckets * s.amount, s.buy, size),
                         [acc |-> 0, vol |-> 0, buys |-> 0, sells |-> 0], swaps)
    IN IF size = 0 THEN 0 ELSE last.acc + Distance(last.buys, last.sells)

Window(arrived) ==
    LET swaps == ByBlockTime(arrived)
        prices == SelectSeq([i \in DOMAIN swaps |-> swaps[i].price], LAMBDA p : p > 0)
    IN [count |-> Len(swaps), volume |-> Volume(swaps),
        ofi |-> 2 * Volume(Buys(swaps)) - Volume(swaps),
        buyCount |-> Len(Buys(swaps)), imbalance |-> Imbalance(swaps),
        open |-> IF prices = <<>> THEN 0 ELSE Head(prices),
        close |-> IF prices = <<>> THEN 0 ELSE Last(prices),
        low |-> FoldLeft(LAMBDA m, p : IF p < m THEN p ELSE m, IF prices = <<>> THEN 0 ELSE Head(prices), prices),
        high |-> FoldLeft(LAMBDA m, p : IF p > m THEN p ELSE m, 0, prices)]

(***************************************************************************)
(* The ensemble: class probabilities in hundredths, weights in twentieths. *)
(***************************************************************************)
Blend(alpha, row) ==
    [c \in Classes |-> alpha * row.xgb[c] + (AlphaSteps - alpha) * row.lstm[c]]

\* numpy's argmax takes the first of equal entries.
ArgMax(probs) ==
    CHOOSE c \in Classes : /\ \A d \in Classes : probs[d] <= probs[c]
                           /\ \A d \in 1 .. c - 1 : probs[d] < probs[c]

Direction(alpha, row, minConfidence) ==
    LET blended == Blend(alpha, row)
        c == ArgMax(blended)
    IN IF blended[c] < AlphaSteps * minConfidence THEN 3 ELSE c

Accuracy(alpha, rows) ==
    Len(SelectSeq(rows, LAMBDA r : ArgMax(Blend(alpha, r)) = r.label))

FitAlpha(rows) ==
    CHOOSE a \in 0 .. AlphaSteps :
        /\ \A b \in 0 .. AlphaSteps : Accuracy(b, rows) <= Accuracy(a, rows)
        /\ \A b \in 0 .. a - 1 : Accuracy(b, rows) < Accuracy(a, rows)

FlowFeatureInit == flowCase = [kind |-> "none"]

FlushWindow(swaps) ==
    flowCase' = [kind |-> "window", swaps |-> swaps, window |-> Window(swaps)]

Train(rows) ==
    flowCase' = [kind |-> "ensemble", rows |-> rows, alpha |-> FitAlpha(rows)]

FlowFeatureNext ==
    /\ flowCase.kind = "none"
    /\ \/ \E swaps \in FlowTrades : FlushWindow(swaps)
       \/ \E rows \in ProbTables : Train(rows)

FlowFeatureSpec == FlowFeatureInit /\ [][FlowFeatureNext]_flowCase

(***************************************************************************)
(* Properties.                                                             *)
(***************************************************************************)
Halved(swaps, i) ==
    LET s == swaps[i]
    IN SubSeq(swaps, 1, i - 1) \o <<[s EXCEPT !.amount = 1], [s EXCEPT !.amount = s.amount - 1]>>
           \o SubSeq(swaps, i + 1, Len(swaps))

\* VPIN lies between |OFI| / 2V and 1/2 and does not depend on how a trader cuts
\* an order into consecutive swaps of one side: computeVPIN's buckets carry a
\* swap's remainder over without losing or duplicating volume.
ImbalanceSound ==
    flowCase.kind = "window" =>
        LET w == flowCase.window
            swaps == ByBlockTime(flowCase.swaps)
        IN /\ vpinBuckets * Distance(w.ofi, 0) <= w.imbalance
           /\ w.imbalance <= vpinBuckets * w.volume
           /\ \A i \in DOMAIN swaps :
                 swaps[i].amount > 1 => Imbalance(Halved(swaps, i)) = w.imbalance

\* The order swaps arrive in from Kafka does not show in the window when their
\* block times differ, and the price range contains open and close.
ArrivalOrderHidden ==
    flowCase.kind = "window" =>
        LET swaps == flowCase.swaps
            w == flowCase.window
        IN /\ (\A i, j \in DOMAIN swaps : i # j => swaps[i].at # swaps[j].at)
                => Window(Reverse(swaps)) = w
           /\ w.low <= w.open /\ w.open <= w.high /\ w.low <= w.close /\ w.close <= w.high

\* On its validation set the fitted blend is at least as accurate as either
\* model alone, and where both models agree the blend says the same or "flat".
BlendNoWorse ==
    flowCase.kind = "ensemble" =>
        LET rows == flowCase.rows
            a == flowCase.alpha
        IN /\ Accuracy(0, rows) <= Accuracy(a, rows)
           /\ Accuracy(AlphaSteps, rows) <= Accuracy(a, rows)
           /\ \A i \in DOMAIN rows :
                 ArgMax(rows[i].xgb) = ArgMax(rows[i].lstm)
                    => Direction(a, rows[i], 40) \in {ArgMax(rows[i].xgb), 3}

FlowFeaturesSound == ImbalanceSound /\ ArrivalOrderHidden /\ BlendNoWorse
=============================================================================
