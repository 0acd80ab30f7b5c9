------------------------------- MODULE MCBonds --------------------------------
(* The platform on one small issue: two competing trades settled by         *)
(* concurrent handlers without the scheduled workers (MCBondTrading.cfg),   *)
(* and one trade with overlapping settlement handlers and coupon workers,   *)
(* a maturity job and every fault (MCBondSystem.cfg).                       *)
EXTENDS Bonds, TLC

CONSTANTS i1, i2

MCInvestors == {i1, i2}
MCTerms == { [seller |-> i1, buyer |-> i2, qty |-> 1, price |-> 1] }
MCSymmetry == Permutations(Handlers) \union Permutations(CouponWorkers)
=============================================================================
