------------------------- MODULE PortfolioMetrics -------------------------
(***************************************************************************)
(* The metrics of a portfolio in project 07 (internal/metrics/             *)
(* calculator.go), the advice of the fallback text (internal/llm/          *)
(* template.go) and the portfolios the mock generator makes                *)
(* (internal/mockdata/generator.go).                                       *)
(*                                                                         *)
(* A token is [mint, kind, value, pnl, cost, risk]; values are whole       *)
(* dollars.  Shares, the Herfindahl index and the risk score are fractions *)
(* of powers of the total value, compared by cross-multiplication.         *)
(***************************************************************************)
EXTENDS Integers, SequencesExt

CONSTANTS Prices,     \* values a holding can have, 0 among them
          MaxExtras   \* bound on the holdings a profile draws in a loop

VARIABLE metricsCase

Kinds == {"stable", "blue", "other", "scam"}
Profiles == {"whale", "active_trader", "hodler", "degen", "new_wallet"}
Categories(kind) == IF kind = "scam" THEN {"scam", "suspicious"} ELSE {"legit"}

\* The kinds of tokens of a profile's portfolio: those it always has and those
\* its loop or a draw may add.
Always(profile) ==
    CASE profile \in {"whale", "active_trader"} -> <<"stable", "blue">>
      [] profile = "hodler" -> <<"blue", "stable">>
      [] profile = "new_wallet" -> <<"stable">>
      [] OTHER -> <<>>

Extras(profile) ==
    CASE profile = "whale" -> {"other"}
      [] profile = "active_trader" -> {"other", "scam"}
      [] profile = "hodler" -> {"blue"}
      [] profile = "degen" -> {"other", "scam"}
      [] OTHER -> {"blue"}

makePortfolio(profile) ==
    {Always(profile) \o extra : extra \in UNION {[1 .. n -> Extras(profile)] : n \in 0 .. MaxExtras}}

\* derivedPnL: cost near the value, a gain or a loss.
Balances(kinds) ==
    {[i \in DOMAIN kinds |-> [mint |-> i, kind |-> kinds[i], value |-> v[i], risk |-> r[i],
                              cost |-> v[i], pnl |-> IF gain THEN v[i] \div 2 ELSE -v[i]]] :
        v \in [DOMAIN kinds -> Prices], gain \in BOOLEAN,
        r \in {f \in [DOMAIN kinds -> {"legit", "scam", "suspicious"}] :
                  \A i \in DOMAIN kinds : f[i] \in Categories(kinds[i])}}

(***************************************************************************)
(* CalculatePortfolio.                                                     *)
(***************************************************************************)
TotalOf(tokens, Measure(_)) == FoldLeft(LAMBDA sum, t : sum + Measure(t), 0, tokens)
Value(t) == t.value
ValueOf(tokens, Test(_)) == TotalOf(SelectSeq(tokens, Test), Value)

\* buildPositions sorts by value, largest first.
buildPositions(balances) ==
    FoldLeft(LAMBDA sorted, t :
                SelectSeq(sorted, LAMBDA x : x.value >= t.value) \o <<t>>
                    \o SelectSeq(sorted, LAMBDA x : x.value < t.value),
             <<>>, balances)

\* Sum of squared values: the Herfindahl index times the square of the total,
\* and 0 when fillShares leaves the shares 0.
Squares(tokens) == TotalOf(tokens, LAMBDA t : t.value * t.value)

Concentration(squares, total) ==
    CASE 100 * squares < 15 * total * total \/ total = 0 -> "low"
      [] 100 * squares < 40 * total * total -> "medium"
      [] OTHER -> "high"

diversification(tokens, total) ==
    [squares |-> Squares(tokens), count |-> Len(tokens),
     stable |-> ValueOf(tokens, LAMBDA t : t.kind = "stable"),
     blue |-> ValueOf(tokens, LAMBDA t : t.kind = "blue"),
     top |-> IF tokens = <<>> THEN 0 ELSE Head(tokens).value,
     level |-> Concentration(Squares(tokens), total)]

\* Ten times the score, times the square of the total.
Score(tokens, total) ==
    LET volatile == ValueOf(tokens, LAMBDA t : t.kind \in {"other", "scam"})
        scam == ValueOf(tokens, LAMBDA t : t.risk = "scam")
        suspicious == ValueOf(tokens, LAMBDA t : t.risk = "suspicious")
    IN 3 * Squares(tokens) + 3 * volatile * total + (4 * scam + 2 * suspicious) * total

Level(score, total) ==
    LET unit == total * total
    IN CASE total > 0 /\ score >= 7 * unit -> "critical"
         [] total > 0 /\ 10 * score >= 45 * unit -> "high"
         [] total > 0 /\ 10 * score >= 25 * unit -> "medium"
         [] OTHER -> "low"

aggregatePnL(tokens) ==
    [total |-> TotalOf(tokens, LAMBDA t : t.pnl), cost |-> TotalOf(tokens, LAMBDA t : t.cost)]

CalculatePortfolio(balances) ==
    LET tokens == buildPositions(balances)
        total == TotalOf(tokens, Value)
        score == Score(tokens, total)
    IN [tokens |-> tokens, total |-> total, pnl |-> aggregatePnL(balances),
        div |-> diversification(tokens, total), score |-> score, level |-> Level(score, total)]

\* The sentences of the fallback text.
recommendations(p) ==
    {IF p.level = "low" THEN "stable" ELSE p.level}
        \cup (IF p.div.level = "high" THEN {"spread"} ELSE {})
        \cup (IF 10 * p.div.stable < p.total \/ p.total = 0 THEN {"add stablecoins"} ELSE {})

MetricsInit == metricsCase = [profile |-> "none"]

\* GetTokenBalances returns no row for a wallet that holds nothing, and
\* CalculatePortfolio refuses it.
Calculate(profile) ==
    /\ metricsCase.profile = "none"
    /\ \E kinds \in makePortfolio(profile) : \E balances \in Balances(kinds) :
          /\ balances # <<>>
          /\ metricsCase' = [profile |-> profile, balances |-> balances,
                             portfolio |-> CalculatePortfolio(balances)]

MetricsNext == \E profile \in Profiles : Calculate(profile)

MetricsSpec == MetricsInit /\ [][MetricsNext]_metricsCase

(***************************************************************************)
(* Properties.                                                             *)
(***************************************************************************)
Rank == [low |-> 1, medium |-> 2, high |-> 3, critical |-> 4]

\* The score stays between 0 and 100 without the clamps, the Herfindahl index
\* between 1/n and 1, the first position has the largest share, and a token
\* found to be scam never makes a portfolio look safer (calculator.go risk).
RiskSound ==
    metricsCase.profile # "none" =>
        LET p == metricsCase.portfolio
            flagged(i) == [p.tokens EXCEPT ![i].risk = "scam"]
        IN /\ 0 <= p.score /\ p.score <= 10 * p.total * p.total
           /\ p.total * p.total <= p.div.count * p.div.squares
           /\ p.div.squares <= p.total * p.total
           /\ \A i \in DOMAIN p.tokens :
                 /\ p.tokens[i].value <= p.div.top
                 /\ Rank[p.level] <= Rank[Level(Score(flagged(i), p.total), p.total)]

\* The figures of a report do not depend on the order ClickHouse returns rows
\* in, and the advice agrees with the figures: a portfolio called stable has no
\* more than five eighths of its value in scam tokens.
AdviceSound ==
    metricsCase.profile # "none" =>
        LET p == metricsCase.portfolio
            q == CalculatePortfolio(Reverse(metricsCase.balances))
            scam == ValueOf(p.tokens, LAMBDA t : t.risk = "scam")
        IN /\ [p EXCEPT !.tokens = <<>>] = [q EXCEPT !.tokens = <<>>]
           /\ "stable" \in recommendations(p) => 8 * scam <= 5 * p.total

MetricsSound == RiskSound /\ AdviceSound
=============================================================================
