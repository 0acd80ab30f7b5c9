----------------------------- MODULE BondPayouts ------------------------------
(***************************************************************************)
(* The two scheduled workers of 03-cfa-bonds: coupon.Service pays the next *)
(* coupon of an issue that has one due, maturity.Service returns the       *)
(* nominal, clears the positions and closes the issue.  Both read the      *)
(* holders before their SERIALIZABLE transaction begins.                   *)
(***************************************************************************)
EXTENDS BondLedger

CONSTANTS
  CouponWorkers,    \* processes that may be inside ProcessDueCoupons at once
  MaturityWorkers   \* processes that may be inside ProcessMaturities at once

VARIABLES
  couponRun,    \* control state of each coupon worker
  maturityRun,  \* control state of each maturity worker
  payment,      \* coupon_payments per coupon: payouts committed, amount per investor
  redemption    \* per investor: bonds redeemed at nominal, and bonds zeroed

payoutVars == <<couponRun, maturityRun, payment, redemption>>

NoHolders == [i \in Investors |-> 0]
CouponIdle == [pc |-> "idle", coupon |-> 0, holders |-> NoHolders]
MaturityIdle == [pc |-> "idle", holders |-> NoHolders]

CouponRuns == [pc: {"idle", "next", "holders", "tx"}, coupon: Coupons \union {0},
               holders: [Investors -> Nat]]
MaturityRuns == [pc: {"idle", "holders", "tx"}, holders: [Investors -> Nat]]

PayoutTypeOK ==
  /\ couponRun \in [CouponWorkers -> CouponRuns]
  /\ maturityRun \in [MaturityWorkers -> MaturityRuns]
  /\ payment \in [Coupons -> [runs: Nat, amount: [Investors -> Nat]]]
  /\ redemption \in [Investors -> [paidFor: Nat, zeroed: Nat]]

PayoutInit ==
  /\ couponRun = [w \in CouponWorkers |-> CouponIdle]
  /\ maturityRun = [w \in MaturityWorkers |-> MaturityIdle]
  /\ payment = [c \in Coupons |-> [runs |-> 0, amount |-> [i \in Investors |-> 0]]]
  /\ redemption = [i \in Investors |-> [paidFor |-> 0, zeroed |-> 0]]

-----------------------------------------------------------------------------
(* coupon.Service.ProcessDueCoupons and processIssue.                      *)

Scheduled == {c \in Coupons : coupon[c] = "scheduled"}

\* IssueRepo.GetActiveWithCouponsDue(asOf = today)
CouponDue == issue.status = "active" /\ \E c \in Scheduled : c <= today

FindDueCoupons(w) ==
  /\ couponRun[w].pc = "idle"
  /\ CouponDue
  /\ couponRun' = [couponRun EXCEPT ![w].pc = "next"]
  /\ UNCHANGED <<maturityRun, payment, redemption, ledgerVars>>

\* Mutant: GetNextDue without ORDER BY payment_date.
IsAnyDue(c) == c \in Scheduled

\* CouponRepo.GetNextDue: the earliest scheduled coupon, due or not.
IsNextDue(c) == c \in Scheduled /\ \A d \in Scheduled : c <= d

NextCoupon(w) ==
  /\ couponRun[w].pc = "next"
  /\ \E c \in Coupons :
       /\ IsNextDue(c)
       /\ couponRun' = [couponRun EXCEPT ![w] =
                           [pc |-> "holders", coupon |-> c, holders |-> @.holders]]
  /\ UNCHANGED <<maturityRun, payment, redemption, ledgerVars>>

ReadCouponHolders(w) ==
  /\ couponRun[w].pc = "holders"
  /\ couponRun' = [couponRun EXCEPT ![w] =
                      [pc |-> "tx", coupon |-> @.coupon, holders |-> position]]
  /\ UNCHANGED <<maturityRun, payment, redemption, ledgerVars>>

\* Mutant: MarkPaid without its status condition.
MarkPaidAlways(c) == coupon[c] # "none"

\* CouponRepo.MarkPaid affects a row only while the coupon is not final.
MarkPaidAllowed(c) == coupon[c] = "scheduled"

PayCoupon(w) ==
  LET c == couponRun[w].coupon
      held == couponRun[w].holders
      credit(i) == CouponPerUnit * held[i]
  IN /\ couponRun[w].pc = "tx"
     /\ MarkPaidAllowed(c)
     /\ balance' = [i \in Investors |-> balance[i] + credit(i)]
     /\ coupon' = [coupon EXCEPT ![c] = "paid"]
     /\ payment' = [payment EXCEPT ![c] = 
                     [runs |-> payment[c].runs + 1,
                      amount |-> [i \in Investors |-> payment[c].amount[i] + credit(i)]]]
     /\ cash' = [i \in Investors |-> [cash[i] EXCEPT !.coupons = @ + credit(i)]]
     /\ couponRun' = [couponRun EXCEPT ![w] = CouponIdle]
     /\ UNCHANGED <<issue, position, today, placing, maturityRun, redemption>>

\* No scheduled coupon left, MarkPaid found the coupon final, a statement or the
\* commit failed, or the worker died: nothing is written.
CouponAbort(w) ==
  /\ couponRun[w].pc # "idle"
  /\ couponRun' = [couponRun EXCEPT ![w] = CouponIdle]
  /\ UNCHANGED <<maturityRun, payment, redemption, ledgerVars>>

-----------------------------------------------------------------------------
(* maturity.Service.ProcessMaturities and redeemIssue.                     *)

\* IssueRepo.GetMaturingIssues(asOf = today)
Maturing == issue.status = "active" /\ MaturityDay <= today

FindMaturing(w) ==
  /\ maturityRun[w].pc = "idle"
  /\ Maturing
  /\ maturityRun' = [maturityRun EXCEPT ![w].pc = "holders"]
  /\ UNCHANGED <<couponRun, payment, redemption, ledgerVars>>

ReadMaturityHolders(w) ==
  /\ maturityRun[w].pc = "holders"
  /\ maturityRun' = [maturityRun EXCEPT ![w] = [pc |-> "tx", holders |-> position]]
  /\ UNCHANGED <<couponRun, payment, redemption, ledgerVars>>

\* The UPDATE of bond_issues is WHERE status = active; its row count is ignored.
ClosedIssue ==
  [issue EXCEPT !.status = IF @ = "active" THEN "matured" ELSE @]

Redeem(w) ==
  LET held == maturityRun[w].holders IN
  /\ maturityRun[w].pc = "tx"
  /\ balance' = [i \in Investors |-> balance[i] + Nominal * held[i]]
  /\ position' = NoHolders
  /\ issue' = ClosedIssue
  /\ redemption' = [i \in Investors |->
                      [paidFor |-> redemption[i].paidFor + held[i],
                       zeroed |-> redemption[i].zeroed + position[i]]]
  /\ maturityRun' = [maturityRun EXCEPT ![w] = MaturityIdle]
  /\ UNCHANGED <<coupon, today, placing, cash, couponRun, payment>>

\* Mutant: the credits go through the pool and survive the rollback.
RedeemAbortKeepsCredits(w) ==
  LET held == maturityRun[w].holders IN
  /\ maturityRun[w].pc = "tx"
  /\ balance' = [i \in Investors |-> balance[i] + Nominal * held[i]]
  /\ redemption' = [i \in Investors |-> [redemption[i] EXCEPT !.paidFor = @ + held[i]]]
  /\ maturityRun' = [maturityRun EXCEPT ![w] = MaturityIdle]
  /\ UNCHANGED <<issue, position, coupon, today, placing, cash, couponRun, payment>>

\* A statement or the commit failed, or the worker died: nothing is written.
RedeemAbort(w) ==
  /\ maturityRun[w].pc # "idle"
  /\ maturityRun' = [maturityRun EXCEPT ![w] = MaturityIdle]
  /\ UNCHANGED <<couponRun, payment, redemption, ledgerVars>>

PayoutNext ==
  \/ \E w \in CouponWorkers :
       FindDueCoupons(w) \/ NextCoupon(w) \/ ReadCouponHolders(w) \/ PayCoupon(w) \/ CouponAbort(w)
  \/ \E w \in MaturityWorkers :
       FindMaturing(w) \/ ReadMaturityHolders(w) \/ Redeem(w) \/ RedeemAbort(w)

-----------------------------------------------------------------------------
(* Properties of the payouts.                                              *)

Redeemed == SumFunction([i \in Investors |-> redemption[i].paidFor])
Retired == SumFunction([i \in Investors |-> redemption[i].zeroed])

\* Every bond ever placed is held by somebody or was taken away at redemption:
\* placements, trades and redemptions that interleave neither create nor lose
\* bonds (Transfer, Upsert, ZeroOutByIssue).
BondsConserved ==
  SumFunction(position) + Retired = issue.placed

\* All money on balances came from deposits, coupons and redemptions, and left
\* by placements only: a settlement moves money and creates none.
MoneyConserved ==
  SumFunction(balance) = Nominal * Redeemed +
    SumFunction([i \in Investors |-> cash[i].deposits + cash[i].coupons - cash[i].placements])

\* The two ledgers balance: bonds and money are conserved, whatever interleaves.
Conserved == BondsConserved /\ MoneyConserved

\* However many coupon workers overlap, a coupon is paid out by one transaction:
\* coupon_payments has no unique key, MarkPaid inside the transaction is what
\* makes the second payout roll back.
CouponPaidOnce ==
  \A c \in Coupons : payment[c].runs = IF coupon[c] = "paid" THEN 1 ELSE 0

\* Coupons are paid in the order of the schedule, also by overlapping workers
\* that chose their coupon before the other one's payout.
CouponsInOrder ==
  \A c, d \in Coupons : coupon[c] = "paid" /\ d < c => coupon[d] = "paid"

\* Strengthening: a worker past GetNextDue has a coupon.
RunsHaveCoupon ==
  \A w \in CouponWorkers : couponRun[w].pc \in {"holders", "tx"} =>
    couponRun[w].coupon \in Coupons

\* Strengthening: the schedule is inserted as a whole, with the issue.
ScheduleWhole ==
  /\ issue.status = "absent" => \A c \in Coupons : coupon[c] = "none"
  /\ \A c, d \in Coupons : coupon[c] = "none" => coupon[d] = "none"

\* Strengthening: all coupons before the one a worker chose are paid.
RunsInOrder ==
  \A w \in CouponWorkers : couponRun[w].pc \in {"holders", "tx"} =>
    \A d \in Coupons : d < couponRun[w].coupon => coupon[d] = "paid"

\* Strengthening: the holders a payout is about to credit hold no more bonds than
\* were placed: they were read at one moment, and placements only add up.
HoldersCovered ==
  /\ \A w \in CouponWorkers : couponRun[w].pc = "tx" =>
       SumFunction(couponRun[w].holders) <= issue.placed
  /\ \A w \in MaturityWorkers : maturityRun[w].pc = "tx" =>
       SumFunction(maturityRun[w].holders) <= issue.placed

\* Strengthening: a coupon without a committed payout has paid nobody.
UnpaidNobody ==
  \A c \in Coupons : payment[c].runs = 0 => \A i \in Investors : payment[c].amount[i] = 0

\* Strengthening: nothing was redeemed while the issue is not matured, nor, with one
\* maturity job, while that job is at work; its issue was active when it began.
NotYetRedeemed ==
  /\ issue.status # "matured" => \A i \in Investors : redemption[i].paidFor = 0
  /\ \A w \in MaturityWorkers : maturityRun[w].pc # "idle" =>
       /\ issue.status \in {"active", "matured"}
       /\ \A i \in Investors : redemption[i].paidFor = 0

\* A coupon never costs the issuer more than one coupon per bond placed, even
\* though its holders were read before the payout began.
CouponOutlayBounded ==
  \A c \in Coupons : SumFunction(payment[c].amount) <= CouponPerUnit * issue.placed

\* One maturity job, however often it fails and is run again, returns the nominal
\* of at most the bonds that were placed.
RedeemedOnce == Redeemed <= issue.placed

\* No payout is made twice: coupons and redemptions cost at most what the bonds
\* placed entitle to, through overlaps, failures and repetitions.
PayoutsBounded == CouponOutlayBounded /\ RedeemedOnce

\* When an issue matures its holders get the nominal back and the positions are
\* cleared (README): each holder is paid for exactly the bonds taken away.
RedeemedAtPar ==
  \A i \in Investors : redemption[i].paidFor = redemption[i].zeroed
=============================================================================
