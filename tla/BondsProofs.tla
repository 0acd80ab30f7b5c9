----------------------------- MODULE BondsProofs ------------------------------
(***************************************************************************)
(* Theorems about 03-cfa-bonds, for any number of investors, trades,       *)
(* handlers and workers: type correctness; coupons are paid once and in    *)
(* order, whatever fails, and no payout is made twice; bonds and money are *)
(* conserved; trades are settled exactly once, and the system implements   *)
(* the register of holders, as long as sessions do not expire under a      *)
(* working handler and no COMMIT acknowledgement is lost; no trade is      *)
(* dropped, as long as no session is cancelled under a working handler.    *)
(***************************************************************************)
EXTENDS Bonds, SumProofs, TLAPS

\* The type invariant is inductive together with these two facts: a handler at
\* work has a trade with terms, and a coupon worker at work has a coupon.
TypeInv == TypeOK /\ Published /\ HandlersBusy /\ RunsHaveCoupon

\* The product of two naturals is a natural, stated once for the provers.
LEMMA NatProduct == \A a, b \in Nat : a * b \in Nat
  BY SMT

\* Adding to one entry of a function keeps its range.
LEMMA AddAtInt ==
  ASSUME NEW S, NEW f \in [S -> Int], NEW i \in S, NEW d \in Int
  PROVE  [f EXCEPT ![i] = @ + d] \in [S -> Int]
  OBVIOUS

LEMMA AddAtNat ==
  ASSUME NEW S, NEW f \in [S -> Nat], NEW i \in S, NEW d \in Nat
  PROVE  [f EXCEPT ![i] = @ + d] \in [S -> Nat]
  OBVIOUS

-----------------------------------------------------------------------------
LEMMA LedgerTypeInv ==
  ASSUME TypeInv, LedgerNext, UNCHANGED <<settlementVars, payoutVars>>
  PROVE  TypeInv'
<1> USE LedgerAssumption DEF Statuses, Coupons
<1>0. SettlementTypeOK' /\ PayoutTypeOK' /\ Published' /\ HandlersBusy' /\ RunsHaveCoupon'
  BY DEF TypeInv, TypeOK, SettlementTypeOK, PayoutTypeOK, Published, HandlersBusy,
         RunsHaveCoupon, settlementVars, payoutVars
<1>1. LedgerTypeOK
  BY DEF TypeInv, TypeOK
<1>2. ASSUME NEW scheduled \in BOOLEAN, CreateIssue(scheduled) PROVE LedgerTypeOK'
  BY <1>1, <1>2 DEF LedgerTypeOK, CreateIssue
<1>3. ASSUME NEW next \in Statuses, UpdateIssueStatus(next) PROVE LedgerTypeOK'
  BY <1>1, <1>3 DEF LedgerTypeOK, UpdateIssueStatus
<1>4. ASSUME NEW i \in Investors, InvestorDeposit(i) PROVE LedgerTypeOK'
  <2> DepositAmount \in Int
    OBVIOUS
  <2>a. balance' = [balance EXCEPT ![i] = @ + DepositAmount]
    BY <1>4 DEF InvestorDeposit
  <2>1. balance' \in [Investors -> Int]
    BY <1>1, <2>a, AddAtInt DEF LedgerTypeOK
  <2>2. cash' \in [Investors -> [deposits: Nat, placements: Nat, coupons: Nat]]
    <3>1. cash[i] \in [deposits: Nat, placements: Nat, coupons: Nat]
      BY <1>1 DEF LedgerTypeOK
    <3>2. cash[i].deposits + DepositAmount \in Nat
      BY <3>1
    <3> QED
      BY <1>1, <1>4, <3>1, <3>2 DEF LedgerTypeOK, InvestorDeposit
  <2> QED
    BY <1>1, <1>4, <2>1, <2>2 DEF LedgerTypeOK, InvestorDeposit
<1>5. ASSUME NEW r \in Requests, NEW i \in Investors, NEW q \in PlaceQty, PlaceRead(r, i, q)
      PROVE  LedgerTypeOK'
  BY <1>1, <1>5 DEF LedgerTypeOK, PlaceRead, PlaceRequest
<1>6. ASSUME NEW r \in Requests, PlaceCommit(r) PROVE LedgerTypeOK'
  <2>1. placing[r] \in PlaceRequest
    BY <1>1, <1>6 DEF LedgerTypeOK, PlaceCommit
  <2>2. placing[r].investor \in Investors /\ placing[r].qty \in Nat
    BY <2>1 DEF PlaceRequest
  <2>3. PlacePrice * placing[r].qty \in Nat
    BY <2>2, NatProduct
  <2>4. issue' \in [status: Statuses, placed: 0..Total]
    <3>1. issue' = PlacedIssue(placing[r].qty) /\ FitsIssue(placing[r].qty)
      BY <1>6 DEF PlaceCommit
    <3>2. issue = [status |-> issue.status, placed |-> issue.placed]
          /\ issue.status \in Statuses /\ issue.placed \in Nat
      BY <1>1 DEF LedgerTypeOK
    <3>3. issue.placed + placing[r].qty \in 0..Total
      BY <2>2, <3>1, <3>2 DEF FitsIssue
    <3>4. issue'.placed = issue.placed + placing[r].qty
      BY <3>1, <3>2 DEF PlacedIssue
    <3>5. issue'.status \in Statuses
      BY <3>1, <3>2 DEF PlacedIssue
    <3>6. issue' = [status |-> issue'.status, placed |-> issue'.placed]
      BY <3>1, <3>2 DEF PlacedIssue
    <3> QED
      BY <3>3, <3>4, <3>5, <3>6
  <2> DEFINE cost == PlacePrice * placing[r].qty
  <2>5. balance' = [balance EXCEPT ![placing[r].investor] = @ - cost]
    BY <1>6 DEF PlaceCommit
  <2>6. cash' = [cash EXCEPT ![placing[r].investor].placements = @ + cost]
    BY <1>6 DEF PlaceCommit
  <2>7. cost \in Nat
    BY <2>3
  <2> HIDE DEF cost
  <2>8. balance' \in [Investors -> Int]
    BY <1>1, <2>2, <2>5, <2>7 DEF LedgerTypeOK
  <2>9. cash' \in [Investors -> [deposits: Nat, placements: Nat, coupons: Nat]]
    <3>1. cash[placing[r].investor] \in [deposits: Nat, placements: Nat, coupons: Nat]
      BY <1>1, <2>2 DEF LedgerTypeOK
    <3>2. cash[placing[r].investor].placements + cost \in Nat
      BY <2>7, <3>1
    <3> QED
      BY <1>1, <2>2, <2>6, <3>1, <3>2 DEF LedgerTypeOK
  <2>10. position' \in [Investors -> Nat]
    <3>1. position' = [position EXCEPT ![placing[r].investor] = @ + placing[r].qty]
      BY <1>6 DEF PlaceCommit
    <3> QED
      BY <1>1, <2>2, <3>1, AddAtNat DEF LedgerTypeOK
  <2> QED
    BY <1>1, <1>6, <2>4, <2>8, <2>9, <2>10 DEF LedgerTypeOK, PlaceCommit
<1>7. ASSUME NEW r \in Requests, PlaceAbort(r) PROVE LedgerTypeOK'
  BY <1>1, <1>7 DEF LedgerTypeOK, PlaceAbort
<1>8. ASSUME NextDay PROVE LedgerTypeOK'
  BY <1>1, <1>8 DEF LedgerTypeOK, NextDay
<1>9. LedgerTypeOK'
  BY <1>2, <1>3, <1>4, <1>5, <1>6, <1>7, <1>8 DEF LedgerNext
<1> QED
  BY <1>0, <1>9 DEF TypeInv, TypeOK

-----------------------------------------------------------------------------
\* A handler that only moves to another statement keeps its types and its trade.
LEMMA GotoTypes ==
  ASSUME TypeInv, NEW h \in Handlers, NEW pc \in PCs, Goto(h, pc),
         handler[h].pc # "idle", trade' = trade
  PROVE  /\ handler' \in [Handlers -> [pc: PCs, trade: Trades \union {NoTrade},
                                       attempt: 0..MaxRetry, total: Nat]]
         /\ HandlersBusy'
<1>1. handler \in [Handlers -> [pc: PCs, trade: Trades \union {NoTrade},
                                attempt: 0..MaxRetry, total: Nat]]
  BY DEF TypeInv, TypeOK, SettlementTypeOK
<1>2. HandlersBusy
  BY DEF TypeInv
<1>3. handler' = [handler EXCEPT ![h].pc = pc]
  BY DEF Goto
<1>4. \A g \in Handlers : handler'[g].trade = handler[g].trade
                          /\ (g # h => handler'[g] = handler[g])
  BY <1>1, <1>3
<1> QED
  BY <1>1, <1>2, <1>3, <1>4 DEF HandlersBusy

\* A ledger that is left alone keeps its types.
LEMMA LedgerUnchanged ==
  ASSUME LedgerTypeOK, UNCHANGED ledgerVars
  PROVE  LedgerTypeOK'
  BY DEF LedgerTypeOK, ledgerVars

\* The terms of a handler's trade.
LEMMA HandlerTerms ==
  ASSUME TypeInv, NEW h \in Handlers, handler[h].pc # "idle"
  PROVE  /\ handler[h].trade \in Trades
         /\ TermsOf(h) \in Terms
         /\ TermsOf(h).seller \in Investors /\ TermsOf(h).buyer \in Investors
         /\ TermsOf(h).qty \in Nat \ {0} /\ TermsOf(h).price \in Nat
         /\ TermsOf(h).seller # TermsOf(h).buyer
<1>1. handler[h].trade \in Trades /\ trade[handler[h].trade].status # "none"
  BY DEF TypeInv, HandlersBusy
<1>2. TermsOf(h) \in Terms
  BY <1>1 DEF TypeInv, Published, TermsOf
<1> QED
  BY <1>1, <1>2, SettlementAssumption DEF SettlementAssumption

LEMMA SettlementTypeInv ==
  ASSUME TypeInv, SettlementNext, UNCHANGED payoutVars
  PROVE  TypeInv'
<1>0. PayoutTypeOK' /\ RunsHaveCoupon'
  BY DEF TypeInv, TypeOK, PayoutTypeOK, RunsHaveCoupon, payoutVars
<1> DEFINE Goal == LedgerTypeOK /\ SettlementTypeOK /\ Published /\ HandlersBusy
<1>a. Goal
  BY DEF TypeInv, TypeOK
<1>1. ASSUME NEW t \in Trades, NEW x \in Terms, NEW published \in BOOLEAN,
             CreateTrade(t, x, published)
      PROVE  Goal'
  BY <1>1, <1>a, LedgerUnchanged DEF CreateTrade, SettlementTypeOK, Published, HandlersBusy
<1>2. ASSUME NEW t \in Trades, NEW h \in Handlers, Deliver(h, t) PROVE Goal'
  BY <1>2, <1>a, LedgerUnchanged, SettlementAssumption
     DEF Deliver, SettlementTypeOK, Published, HandlersBusy, PCs, SettlementAssumption
<1>3. ASSUME NEW t \in Trades, CommitOffset(t) PROVE Goal'
  BY <1>3, <1>a, LedgerUnchanged DEF CommitOffset, SettlementTypeOK, Published, HandlersBusy
<1>4. ASSUME NEW h \in Handlers, HandlerStep(h) PROVE Goal'
  <2>1. CASE LoadTrade(h)
    BY <2>1, <1>a, LedgerUnchanged, GotoTypes DEF LoadTrade, SettlementTypeOK, Published, PCs
  <2>2. CASE CheckIssue(h)
    BY <2>2, <1>a, LedgerUnchanged, GotoTypes DEF CheckIssue, SettlementTypeOK, Published, PCs
  <2>3. CASE CheckSeller(h)
    BY <2>3, <1>a, LedgerUnchanged, GotoTypes DEF CheckSeller, SettlementTypeOK, Published, PCs
  <2>4. ASSUME NEW a \in Accruals, CheckBuyer(h, a) PROVE Goal'
    <3>1. handler[h].pc # "idle" /\ UNCHANGED <<trade, msg, dlq, lost, settled, faults, ledgerVars>>
      BY <2>4 DEF CheckBuyer
    <3> DEFINE total == (TermsOf(h).price + a) * TermsOf(h).qty
    <3>2. a \in Nat
      BY SettlementAssumption DEF SettlementAssumption
    <3>3. TermsOf(h).price + a \in Nat /\ TermsOf(h).qty \in Nat
      BY <3>1, <3>2, HandlerTerms
    <3>4. total \in Nat
      BY <3>3, NatProduct
    <3>5. PICK pc \in PCs \ {"idle"} : handler' = [handler EXCEPT ![h].total = total, ![h].pc = pc]
      BY <2>4 DEF CheckBuyer, PCs
    <3> HIDE DEF total
    <3>6. SettlementTypeOK'
      BY <3>1, <3>4, <3>5, <1>a DEF SettlementTypeOK
    <3>7. HandlersBusy'
      BY <3>1, <3>5, <1>a DEF HandlersBusy, SettlementTypeOK
    <3> QED
      BY <3>1, <3>6, <3>7, <1>a, LedgerUnchanged DEF Published
  <2>5. CASE SettleCommit(h) \/ SettleCommitLostAck(h)
    <3>1. SettleTx(h) /\ handler[h].pc # "idle" /\ \E pc \in PCs \ {"idle"} : Goto(h, pc)
      BY <2>5 DEF SettleCommit, SettleCommitLostAck, SettleTx, PCs
    <3>2. PICK pc \in PCs \ {"idle"} : Goto(h, pc)
      BY <3>1
    <3> DEFINE t == handler[h].trade
               x == TermsOf(h)
    <3>3. /\ t \in Trades /\ x.seller \in Investors /\ x.buyer \in Investors
          /\ x.qty \in Nat /\ x.seller # x.buyer
      BY <3>1, HandlerTerms
    <3>4. /\ trade' = [trade EXCEPT ![t].status = "settled"]
          /\ settled' = [settled EXCEPT ![t] = @ + 1]
          /\ UNCHANGED <<msg, dlq, lost, faults, issue, coupon, today, placing, cash>>
      BY <3>1 DEF SettleTx
    <3>5. position' \in [Investors -> Nat]
      BY <3>1, <3>3, <1>a DEF SettleTx, TransferAllowed, Transfer, LedgerTypeOK
    <3>6. balance' \in [Investors -> Int]
      <4>1. handler[h].total \in Nat
        BY <1>a DEF SettlementTypeOK
      <4>2. balance' = [balance EXCEPT ![x.buyer] = @ - handler[h].total,
                                       ![x.seller] = @ + handler[h].total]
        BY <3>1 DEF SettleTx, PayTotal
      <4> QED
        BY <3>3, <4>1, <4>2, <1>a DEF LedgerTypeOK
    <3> HIDE DEF x
    <3>7. LedgerTypeOK'
      BY <3>4, <3>5, <3>6, <1>a DEF LedgerTypeOK
    <3>8. /\ trade' \in [Trades -> [status: {"none", "submitted", "settled", "failed"},
                                    terms: Terms \union {NoTerms}]]
          /\ settled' \in [Trades -> Nat]
      BY <3>3, <3>4, <1>a, SMTT(30) DEF SettlementTypeOK
    <3>9. \A u \in Trades : trade'[u].terms = trade[u].terms
                           /\ (trade'[u].status = "none" <=> trade[u].status = "none")
      BY <3>1, <3>3, <3>4, <1>a DEF SettlementTypeOK, HandlersBusy
    <3>10. Published'
      BY <3>4, <3>9, <1>a DEF Published
    <3>11. HandlersBusy' /\ SettlementTypeOK'
      <4>1. handler' = [handler EXCEPT ![h].pc = pc]
        BY <3>2 DEF Goto
      <4>2. SettlementTypeOK'
        BY <4>1, <3>4, <3>8, <1>a DEF SettlementTypeOK
      <4>3. \A g \in Handlers : handler'[g].trade = handler[g].trade
                          /\ (g # h => handler'[g] = handler[g])
        BY <4>1, <1>a DEF SettlementTypeOK
      <4> QED
        BY <4>2, <4>3, <3>1, <3>9, <1>a DEF HandlersBusy
    <3> QED
      BY <3>7, <3>10, <3>11
  <2>6. CASE SettleAbort(h)
    BY <2>6, <1>a, LedgerUnchanged, GotoTypes DEF SettleAbort, SettlementTypeOK, Published, PCs
  <2>7. ASSUME NEW written \in BOOLEAN, Fail(h, written) PROVE Goal'
    <3> DEFINE t == handler[h].trade
    <3>1. /\ handler[h].pc # "idle"
          /\ trade' = IF written THEN [trade EXCEPT ![t].status = "failed"] ELSE trade
          /\ handler' = [handler EXCEPT ![h] = Retried(h)]
          /\ UNCHANGED <<msg, settled, faults, ledgerVars>>
      BY <2>7 DEF Fail
    <3>2. t \in Trades /\ trade[t].status # "none"
      BY <3>1, <1>a DEF HandlersBusy
    <3>8. dlq' \subseteq Trades /\ lost' \subseteq Trades \X {"unsent", "cut"}
      BY <2>7, <3>2, <1>a DEF Fail, DeadLetter, SettlementTypeOK
    <3>3. /\ Retried(h) \in [pc: PCs, trade: Trades \union {NoTrade},
                             attempt: 0..MaxRetry, total: Nat]
          /\ Retried(h).trade = t
      <4>1. handler[h] \in [pc: PCs, trade: Trades \union {NoTrade},
                            attempt: 0..MaxRetry, total: Nat]
        BY <1>a DEF SettlementTypeOK
      <4>2. MaxRetry \in Nat
        BY SettlementAssumption DEF SettlementAssumption
      <4>3. CASE handler[h].attempt < MaxRetry
        <5>1. Retried(h) = [pc |-> "load", trade |-> handler[h].trade,
                            attempt |-> handler[h].attempt + 1, total |-> 0]
          BY <4>3 DEF Retried
        <5>2. handler[h].attempt + 1 \in 0..MaxRetry
          BY <4>1, <4>2, <4>3
        <5> QED
          BY <4>1, <5>1, <5>2 DEF PCs
      <4>4. CASE ~ (handler[h].attempt < MaxRetry)
        <5>1. Retried(h) = [handler[h] EXCEPT !.pc = "mark"]
          BY <4>4 DEF Retried
        <5> QED
          BY <4>1, <5>1 DEF PCs
      <4> QED
        BY <4>3, <4>4
    <3>4. SettlementTypeOK'
      <4>1. handler' \in [Handlers -> [pc: PCs, trade: Trades \union {NoTrade},
                                       attempt: 0..MaxRetry, total: Nat]]
        BY <3>1, <3>3, <1>a DEF SettlementTypeOK
      <4>2. trade' \in [Trades -> [status: {"none", "submitted", "settled", "failed"},
                                   terms: Terms \union {NoTerms}]]
        BY <3>1, <3>2, <1>a, SMTT(30) DEF SettlementTypeOK
      <4> QED
        BY <3>1, <3>8, <4>1, <4>2, <1>a DEF SettlementTypeOK
    <3>5. \A u \in Trades : trade'[u].terms = trade[u].terms
                           /\ (trade'[u].status = "none" <=> trade[u].status = "none")
      BY <3>1, <3>2, <1>a DEF SettlementTypeOK
    <3>6. Published'
      BY <3>1, <3>5, <1>a DEF Published
    <3>7. HandlersBusy'
      BY <3>1, <3>2, <3>3, <3>5, <1>a DEF HandlersBusy, SettlementTypeOK
    <3> QED
      BY <3>1, <3>4, <3>6, <3>7, <1>a, LedgerUnchanged
  <2>8. CASE Mark(h)
    <3> DEFINE t == handler[h].trade
    <3>1. /\ handler[h].pc # "idle"
          /\ msg' = IF msg[t] = [at |-> "session", owner |-> h]
                    THEN [msg EXCEPT ![t].at = "marked"] ELSE msg
          /\ handler' = [handler EXCEPT ![h] = Idle]
          /\ UNCHANGED <<trade, dlq, lost, settled, faults, ledgerVars>>
      BY <2>8, Zenon DEF Mark
    <3>2. t \in Trades /\ trade[t].status # "none"
      BY <3>1, <1>a DEF HandlersBusy
    <3>4. msg' \in [Trades -> [at: {"none", "topic", "session", "marked", "done"},
                              owner: Handlers \union {NoOwner}]]
      BY <3>1, <3>2, <1>a DEF SettlementTypeOK
    <3>5. handler' \in [Handlers -> [pc: PCs, trade: Trades \union {NoTrade},
                                    attempt: 0..MaxRetry, total: Nat]]
      BY <3>1, <1>a, SettlementAssumption
         DEF SettlementTypeOK, Idle, PCs, SettlementAssumption
    <3>6. SettlementTypeOK'
      BY <3>1, <3>4, <3>5, <1>a DEF SettlementTypeOK
    <3>7. \A u \in Trades : u # t => msg'[u] = msg[u]
      BY <3>1, <1>a DEF SettlementTypeOK
    <3>8. Published'
      BY <3>1, <3>2, <3>7, <1>a DEF Published
    <3>9. HandlersBusy'
      BY <3>1, <1>a DEF SettlementTypeOK, HandlersBusy, Idle
    <3> QED
      BY <3>1, <3>6, <3>8, <3>9, <1>a, LedgerUnchanged
  <2> QED
    BY <1>4, <2>1, <2>2, <2>3, <2>4, <2>5, <2>6, <2>7, <2>8 DEF HandlerStep
<1>5. ASSUME NEW h \in Handlers, Crash(h) PROVE Goal'
  BY <1>5, <1>a, LedgerUnchanged, SettlementAssumption
     DEF Crash, Fault, Redelivered, Idle, PCs, SettlementTypeOK, Published, HandlersBusy,
         SettlementAssumption
<1>6. ASSUME NEW h \in Handlers, Expire(h) PROVE Goal'
  BY <1>6, <1>a, LedgerUnchanged, SettlementAssumption
     DEF Expire, Fault, Redelivered, SettlementTypeOK, Published, HandlersBusy,
         SettlementAssumption
<1>7. ASSUME NEW h \in Handlers, Cancel(h) PROVE Goal'
  <2>1. /\ Goto(h, "mark") /\ handler[h].pc # "idle"
        /\ UNCHANGED <<trade, msg, settled, ledgerVars>>
        /\ faults' \in 0..MaxFaults
    BY <1>7, <1>a, SettlementAssumption DEF Cancel, Fault, SettlementTypeOK, SettlementAssumption
  <2>2. dlq' \subseteq Trades /\ lost' \subseteq Trades \X {"unsent", "cut"}
    <3>1. handler[h].trade \in Trades
      BY <2>1, <1>a DEF HandlersBusy
    <3> QED
      BY <1>7, <3>1, <1>a DEF Cancel, DeadLetter, SettlementTypeOK
  <2> QED
    BY <2>1, <2>2, <1>a, LedgerUnchanged, GotoTypes DEF PCs, SettlementTypeOK, Published
<1>8. Goal'
  BY <1>1, <1>2, <1>3, <1>4, <1>5, <1>6, <1>7 DEF SettlementNext
<1> QED
  BY <1>0, <1>8 DEF TypeInv, TypeOK

-----------------------------------------------------------------------------
\* Payouts: each amount is a product of naturals.
LEMMA PayoutTypeInv ==
  ASSUME TypeInv, PayoutNext, UNCHANGED settlementVars
  PROVE  TypeInv'
<1>0. SettlementTypeOK' /\ Published' /\ HandlersBusy'
  BY DEF TypeInv, TypeOK, SettlementTypeOK, Published, HandlersBusy, settlementVars
<1> DEFINE Goal == LedgerTypeOK /\ PayoutTypeOK /\ RunsHaveCoupon
<1>a. Goal
  BY DEF TypeInv, TypeOK
<1>1. ASSUME NEW w \in CouponWorkers, FindDueCoupons(w) PROVE Goal'
  BY <1>1, <1>a, LedgerUnchanged DEF FindDueCoupons, PayoutTypeOK, CouponRuns, MaturityRuns, RunsHaveCoupon
<1>2. ASSUME NEW w \in CouponWorkers, NextCoupon(w) PROVE Goal'
  <2>1. PICK c \in Coupons :
          couponRun' = [couponRun EXCEPT ![w] =
                          [pc |-> "holders", coupon |-> c, holders |-> @.holders]]
    BY <1>2 DEF NextCoupon
  <2>2. UNCHANGED <<maturityRun, payment, redemption, ledgerVars>>
    BY <1>2 DEF NextCoupon
  <2>3. PayoutTypeOK'
    BY <2>1, <2>2, <1>a DEF PayoutTypeOK, CouponRuns
  <2>4. RunsHaveCoupon'
    BY <2>1, <1>a DEF PayoutTypeOK, CouponRuns, RunsHaveCoupon
  <2> QED
    BY <2>2, <2>3, <2>4, <1>a, LedgerUnchanged
<1>3. ASSUME NEW w \in CouponWorkers, ReadCouponHolders(w) PROVE Goal'
  <2>1. /\ couponRun[w].pc = "holders"
        /\ couponRun' = [couponRun EXCEPT ![w] =
                          [pc |-> "tx", coupon |-> @.coupon, holders |-> position]]
        /\ UNCHANGED <<maturityRun, payment, redemption, ledgerVars>>
    BY <1>3 DEF ReadCouponHolders
  <2>2. position \in [Investors -> Nat]
    BY <1>a DEF LedgerTypeOK
  <2>3. PayoutTypeOK'
    BY <2>1, <2>2, <1>a DEF PayoutTypeOK, CouponRuns
  <2>4. RunsHaveCoupon'
    BY <2>1, <1>a DEF PayoutTypeOK, CouponRuns, RunsHaveCoupon
  <2> QED
    BY <2>1, <2>3, <2>4, <1>a, LedgerUnchanged
<1>4. ASSUME NEW w \in CouponWorkers, PayCoupon(w) PROVE Goal'
  <2> DEFINE c == couponRun[w].coupon
             credit(i) == CouponPerUnit * couponRun[w].holders[i]
  <2>1. /\ balance' = [i \in Investors |-> balance[i] + credit(i)]
        /\ coupon' = [coupon EXCEPT ![c] = "paid"]
        /\ payment' = [payment EXCEPT ![c] =
                        [runs |-> payment[c].runs + 1,
                         amount |-> [i \in Investors |-> payment[c].amount[i] + credit(i)]]]
        /\ cash' = [i \in Investors |-> [cash[i] EXCEPT !.coupons = @ + credit(i)]]
        /\ couponRun' = [couponRun EXCEPT ![w] = CouponIdle]
        /\ UNCHANGED <<issue, position, today, placing, maturityRun, redemption>>
    BY <1>4 DEF PayCoupon
  <2>2. c \in Coupons
    BY <1>4, <1>a DEF PayCoupon, RunsHaveCoupon
  <2>3. \A i \in Investors : credit(i) \in Nat
    <3>1. \A i \in Investors : couponRun[w].holders[i] \in Nat
      BY <1>4, <1>a DEF PayoutTypeOK, CouponRuns
    <3>2. CouponPerUnit \in Nat
      BY LedgerAssumption DEF LedgerAssumption
    <3> QED
      BY <3>1, <3>2, NatProduct
  <2> HIDE DEF credit
  <2>4. balance' \in [Investors -> Int]
    BY <2>1, <2>3, <1>a DEF LedgerTypeOK
  <2>5. cash' \in [Investors -> [deposits: Nat, placements: Nat, coupons: Nat]]
    <3>1. \A i \in Investors : /\ cash[i] \in [deposits: Nat, placements: Nat, coupons: Nat]
                              /\ cash[i].coupons + credit(i) \in Nat
      BY <2>3, <1>a DEF LedgerTypeOK
    <3> QED
      BY <2>1, <3>1
  <2>6. LedgerTypeOK'
    BY <2>1, <2>2, <2>4, <2>5, <1>a DEF LedgerTypeOK
  <2>7. payment' \in [Coupons -> [runs: Nat, amount: [Investors -> Nat]]]
    <3>1. payment \in [Coupons -> [runs: Nat, amount: [Investors -> Nat]]]
      BY <1>a DEF PayoutTypeOK
    <3>2. payment[c].runs + 1 \in Nat
      BY <2>2, <3>1
    <3>3. [i \in Investors |-> payment[c].amount[i] + credit(i)] \in [Investors -> Nat]
      BY <2>2, <2>3, <3>1
    <3> QED
      BY <2>1, <2>2, <3>1, <3>2, <3>3
  <2>8. couponRun' \in [CouponWorkers -> CouponRuns]
    BY <2>1, <1>a DEF PayoutTypeOK, CouponRuns, CouponIdle, NoHolders
  <2>9. RunsHaveCoupon'
    BY <2>1, <1>a DEF PayoutTypeOK, CouponRuns, RunsHaveCoupon, CouponIdle
  <2> QED
    BY <2>1, <2>6, <2>7, <2>8, <2>9, <1>a DEF PayoutTypeOK
<1>5. ASSUME NEW w \in CouponWorkers, CouponAbort(w) PROVE Goal'
  BY <1>5, <1>a, LedgerUnchanged
     DEF CouponAbort, PayoutTypeOK, CouponRuns, MaturityRuns, RunsHaveCoupon, CouponIdle, NoHolders
<1>6. ASSUME NEW w \in MaturityWorkers, FindMaturing(w) PROVE Goal'
  BY <1>6, <1>a, LedgerUnchanged, SMTT(30) DEF FindMaturing, PayoutTypeOK, CouponRuns, MaturityRuns, RunsHaveCoupon
<1>7. ASSUME NEW w \in MaturityWorkers, ReadMaturityHolders(w) PROVE Goal'
  <2>1. /\ maturityRun' = [maturityRun EXCEPT ![w] = [pc |-> "tx", holders |-> position]]
        /\ UNCHANGED <<couponRun, payment, redemption, ledgerVars>>
    BY <1>7 DEF ReadMaturityHolders
  <2>2. position \in [Investors -> Nat]
    BY <1>a DEF LedgerTypeOK
  <2>3. PayoutTypeOK'
    BY <2>1, <2>2, <1>a DEF PayoutTypeOK, MaturityRuns
  <2> QED
    BY <2>1, <2>3, <1>a, LedgerUnchanged DEF RunsHaveCoupon
<1>8. ASSUME NEW w \in MaturityWorkers, Redeem(w) PROVE Goal'
  <2> DEFINE held == maturityRun[w].holders
             nominal(i) == Nominal * held[i]
  <2>1. /\ balance' = [i \in Investors |-> balance[i] + nominal(i)]
        /\ position' = NoHolders
        /\ issue' = ClosedIssue
        /\ redemption' = [i \in Investors |->
                            [paidFor |-> redemption[i].paidFor + held[i],
                             zeroed |-> redemption[i].zeroed + position[i]]]
        /\ maturityRun' = [maturityRun EXCEPT ![w] = MaturityIdle]
        /\ UNCHANGED <<coupon, today, placing, cash, couponRun, payment>>
    BY <1>8 DEF Redeem
  <2>2. \A i \in Investors : held[i] \in Nat /\ nominal(i) \in Nat
    <3>1. \A i \in Investors : held[i] \in Nat
      BY <1>a DEF PayoutTypeOK, MaturityRuns
    <3>2. Nominal \in Nat
      BY LedgerAssumption DEF LedgerAssumption
    <3> QED
      BY <3>1, <3>2, NatProduct
  <2> HIDE DEF nominal
  <2>3. balance' \in [Investors -> Int]
    BY <2>1, <2>2, <1>a DEF LedgerTypeOK
  <2>4. issue' \in [status: Statuses, placed: 0..Total]
    BY <2>1, <1>a DEF LedgerTypeOK, ClosedIssue, Statuses
  <2>5. LedgerTypeOK'
    BY <2>1, <2>3, <2>4, <1>a DEF LedgerTypeOK, NoHolders
  <2>6. redemption' \in [Investors -> [paidFor: Nat, zeroed: Nat]]
    BY <2>1, <2>2, <1>a DEF PayoutTypeOK, LedgerTypeOK
  <2> QED
    BY <2>1, <2>5, <2>6, <1>a DEF PayoutTypeOK, CouponRuns, MaturityRuns, RunsHaveCoupon, MaturityIdle, NoHolders
<1>9. ASSUME NEW w \in MaturityWorkers, RedeemAbort(w) PROVE Goal'
  BY <1>9, <1>a, LedgerUnchanged
     DEF RedeemAbort, PayoutTypeOK, CouponRuns, MaturityRuns, RunsHaveCoupon, MaturityIdle, NoHolders
<1>10. Goal'
  BY <1>1, <1>2, <1>3, <1>4, <1>5, <1>6, <1>7, <1>8, <1>9 DEF PayoutNext
<1> QED
  BY <1>0, <1>10 DEF TypeInv, TypeOK

-----------------------------------------------------------------------------
LEMMA TypeInvInit == Init => TypeInv
<1> USE LedgerAssumption, SettlementAssumption DEF LedgerAssumption, SettlementAssumption
<1> SUFFICES ASSUME Init PROVE TypeInv
  OBVIOUS
<1>1. LedgerTypeOK
  BY DEF Init, LedgerInit, LedgerTypeOK, Statuses
<1>2. SettlementTypeOK /\ Published /\ HandlersBusy
  BY DEF Init, SettlementInit, SettlementTypeOK, Published, HandlersBusy, Idle, PCs
<1>3. PayoutTypeOK /\ RunsHaveCoupon
  BY DEF Init, PayoutInit, PayoutTypeOK, CouponRuns, MaturityRuns, RunsHaveCoupon, CouponIdle, MaturityIdle, NoHolders
<1> QED
  BY <1>1, <1>2, <1>3 DEF TypeInv, TypeOK

LEMMA TypeInvStutter ==
  ASSUME TypeInv, UNCHANGED vars
  PROVE  TypeInv'
  BY DEF TypeInv, TypeOK, LedgerTypeOK, SettlementTypeOK, PayoutTypeOK, Published,
         HandlersBusy, RunsHaveCoupon, vars, ledgerVars, settlementVars, payoutVars

LEMMA TypeInvNext == TypeInv /\ [Next]_vars => TypeInv'
  BY LedgerTypeInv, SettlementTypeInv, PayoutTypeInv, TypeInvStutter DEF Next

LEMMA TypeInvariance == Spec => []TypeInv
  BY TypeInvInit, TypeInvNext, PTL DEF Spec

\* Every row, message and worker keeps its type, however the API, the workers and
\* the faults interleave: in particular no position is ever negative and an issue
\* is never placed beyond its total quantity.
THEOREM TypeCorrect == Spec => []TypeOK
<1>1. TypeInv => TypeOK
  BY DEF TypeInv
<1> QED
  BY <1>1, TypeInvariance, PTL

-----------------------------------------------------------------------------
\* Coupons.  That a coupon is paid once and in order is inductive only together
\* with two facts: the schedule is inserted as a whole (no coupon can be added
\* behind a paid one), and all coupons before the one a worker chose are paid.
CouponInv == CouponPaidOnce /\ CouponsInOrder /\ ScheduleWhole /\ RunsInOrder

LEMMA CouponInvInit == Init => CouponInv
  BY DEF Init, LedgerInit, PayoutInit, CouponInv, CouponPaidOnce, CouponsInOrder,
         ScheduleWhole, RunsInOrder, CouponIdle

\* Steps that leave coupons, payments and coupon workers alone.
LEMMA CouponsUntouched ==
  ASSUME CouponInv, UNCHANGED <<coupon, payment, couponRun>>,
         issue'.status = "absent" => issue.status = "absent"
  PROVE  CouponInv'
  BY DEF CouponInv, CouponPaidOnce, CouponsInOrder, ScheduleWhole, RunsInOrder

LEMMA CouponInvLedger ==
  ASSUME TypeInv, CouponInv, LedgerNext, UNCHANGED payoutVars
  PROVE  CouponInv'
<1>1. UNCHANGED <<payment, couponRun>>
  BY DEF payoutVars
<1>2. issue \in [status: Statuses, placed: 0..Total] /\ coupon \in [Coupons -> {"none", "scheduled", "paid"}]
  BY DEF TypeInv, TypeOK, LedgerTypeOK
<1>3. ASSUME NEW scheduled \in BOOLEAN, CreateIssue(scheduled) PROVE CouponInv'
  <2>1. /\ issue.status = "absent" /\ issue'.status = "draft"
        /\ coupon' = coupon \/ coupon' = [c \in Coupons |-> "scheduled"]
    BY <1>2, <1>3 DEF CreateIssue
  <2>2. \A c \in Coupons : coupon[c] = "none"
    BY <2>1 DEF CouponInv, ScheduleWhole
  <2>3. CouponPaidOnce'
    BY <1>1, <2>1, <2>2 DEF CouponInv, CouponPaidOnce
  <2>4. CouponsInOrder' /\ ScheduleWhole'
    BY <2>1, <2>2 DEF CouponInv, CouponsInOrder, ScheduleWhole
  <2>5. RunsInOrder'
    BY <1>1, <2>2 DEF CouponInv, RunsInOrder
  <2> QED
    BY <2>3, <2>4, <2>5 DEF CouponInv
<1>4. ASSUME NEW next \in Statuses, UpdateIssueStatus(next) PROVE CouponInv'
  <2>1. issue'.status # "absent" /\ coupon' = coupon
    BY <1>2, <1>4 DEF UpdateIssueStatus, CanTransition
  <2> QED
    BY <1>1, <2>1, CouponsUntouched
<1>5. ASSUME NEW i \in Investors, InvestorDeposit(i) PROVE CouponInv'
  BY <1>1, <1>5, CouponsUntouched DEF InvestorDeposit
<1>6. ASSUME NEW r \in Requests, NEW i \in Investors, NEW q \in PlaceQty, PlaceRead(r, i, q)
      PROVE  CouponInv'
  BY <1>1, <1>6, CouponsUntouched DEF PlaceRead
<1>7. ASSUME NEW r \in Requests, PlaceCommit(r) PROVE CouponInv'
  <2>1. PICK q : issue' = PlacedIssue(q) /\ coupon' = coupon
    BY <1>7 DEF PlaceCommit
  <2>2. issue'.status = "absent" => issue.status = "absent"
    BY <1>2, <2>1 DEF PlacedIssue
  <2> QED
    BY <1>1, <2>1, <2>2, CouponsUntouched
<1>8. ASSUME NEW r \in Requests, PlaceAbort(r) PROVE CouponInv'
  BY <1>1, <1>8, CouponsUntouched DEF PlaceAbort
<1>9. CASE NextDay
  BY <1>1, <1>9, CouponsUntouched DEF NextDay
<1> QED
  BY <1>3, <1>4, <1>5, <1>6, <1>7, <1>8, <1>9 DEF LedgerNext

\* No step of the trades touches the issue or its coupons.
LEMMA SettlementKeepsIssue ==
  ASSUME SettlementNext
  PROVE  UNCHANGED <<issue, coupon, today, placing, cash>>
  BY DEF SettlementNext, CreateTrade, Deliver, CommitOffset, HandlerStep, LoadTrade, CheckIssue,
         CheckSeller, CheckBuyer, SettleCommit, SettleCommitLostAck, SettleTx, SettleAbort, Fail,
         Mark, Crash, Expire, Cancel, ledgerVars

LEMMA CouponInvPayout ==
  ASSUME TypeInv, CouponInv, PayoutNext
  PROVE  CouponInv'
<1>1. /\ couponRun \in [CouponWorkers -> CouponRuns]
      /\ payment \in [Coupons -> [runs: Nat, amount: [Investors -> Nat]]]
      /\ coupon \in [Coupons -> {"none", "scheduled", "paid"}]
      /\ issue \in [status: Statuses, placed: 0..Total]
  BY DEF TypeInv, TypeOK, LedgerTypeOK, PayoutTypeOK
<1>2. CouponPaidOnce /\ CouponsInOrder /\ ScheduleWhole /\ RunsInOrder
  BY DEF CouponInv
<1>3. ASSUME NEW w \in CouponWorkers, FindDueCoupons(w) \/ ReadCouponHolders(w) \/ CouponAbort(w)
      PROVE  CouponInv'
  <2>1. /\ UNCHANGED <<issue, coupon, payment>>
        /\ couponRun[w].pc = "next" => couponRun'[w].pc \notin {"holders", "tx"}
        /\ couponRun'[w].pc \in {"holders", "tx"} =>
             couponRun[w].pc \in {"holders", "tx"} /\ couponRun'[w].coupon = couponRun[w].coupon
        /\ \A v \in CouponWorkers : v # w => couponRun'[v] = couponRun[v]
    BY <1>1, <1>3
       DEF FindDueCoupons, ReadCouponHolders, CouponAbort, CouponIdle, CouponRuns, ledgerVars
  <2>2. RunsInOrder'
    BY <1>2, <2>1 DEF RunsInOrder
  <2> QED
    BY <1>2, <2>1, <2>2 DEF CouponInv, CouponPaidOnce, CouponsInOrder, ScheduleWhole
<1>4. ASSUME NEW w \in CouponWorkers, NextCoupon(w) PROVE CouponInv'
  <2>1. /\ UNCHANGED <<issue, coupon, payment>>
        /\ \E c \in Coupons : /\ IsNextDue(c)
                              /\ couponRun' = [couponRun EXCEPT ![w] =
                                   [pc |-> "holders", coupon |-> c, holders |-> @.holders]]
    BY <1>4 DEF NextCoupon, ledgerVars
  <2>2. PICK c \in Coupons : /\ IsNextDue(c)
                             /\ couponRun' = [couponRun EXCEPT ![w] =
                                   [pc |-> "holders", coupon |-> c, holders |-> @.holders]]
    BY <2>1
  <2>3. \A d \in Coupons : d < c => coupon[d] = "paid"
    <3>1. coupon[c] = "scheduled" /\ \A d \in Coupons : coupon[d] = "scheduled" => c <= d
      BY <2>2 DEF IsNextDue, Scheduled
    <3>2. \A d \in Coupons : coupon[d] # "none"
      BY <1>2, <3>1 DEF ScheduleWhole
    <3> QED
      BY <1>1, <3>1, <3>2 DEF Coupons
  <2>4. RunsInOrder'
    BY <1>1, <1>2, <2>1, <2>2, <2>3 DEF RunsInOrder
  <2> QED
    BY <1>2, <2>1, <2>4 DEF CouponInv, CouponPaidOnce, CouponsInOrder, ScheduleWhole
<1>5. ASSUME NEW w \in CouponWorkers, PayCoupon(w) PROVE CouponInv'
  <2> DEFINE c == couponRun[w].coupon
  <2>1. /\ couponRun[w].pc = "tx"
        /\ coupon[c] = "scheduled"
        /\ coupon' = [coupon EXCEPT ![c] = "paid"]
        /\ \E a : payment' = [payment EXCEPT ![c] = [runs |-> payment[c].runs + 1, amount |-> a]]
        /\ couponRun' = [couponRun EXCEPT ![w] = CouponIdle]
        /\ issue' = issue
    BY <1>5 DEF PayCoupon, MarkPaidAllowed
  <2>2. c \in Coupons
    BY <2>1 DEF TypeInv, RunsHaveCoupon
  <2>3. /\ coupon'[c] = "paid"
        /\ \A d \in Coupons : d # c => coupon'[d] = coupon[d] /\ payment'[d] = payment[d]
        /\ payment'[c].runs = payment[c].runs + 1
    BY <1>1, <2>1, <2>2
  <2>4. \A d \in Coupons : coupon[d] # "none"
    BY <1>2, <2>1, <2>2 DEF ScheduleWhole
  <2>5. CouponPaidOnce'
    BY <1>2, <2>1, <2>2, <2>3 DEF CouponPaidOnce
  <2>6. \A d \in Coupons : d < c => coupon[d] = "paid"
    BY <1>2, <2>1 DEF RunsInOrder
  <2>7. CouponsInOrder'
    BY <1>2, <2>3, <2>6 DEF CouponsInOrder
  <2>8. ScheduleWhole'
    BY <1>2, <2>1, <2>2, <2>3, <2>4 DEF ScheduleWhole
  <2>9. RunsInOrder'
    BY <1>1, <1>2, <2>1, <2>2, <2>3 DEF RunsInOrder, CouponIdle
  <2> QED
    BY <2>5, <2>7, <2>8, <2>9 DEF CouponInv
<1>6. ASSUME NEW w \in MaturityWorkers,
             FindMaturing(w) \/ ReadMaturityHolders(w) \/ RedeemAbort(w)
      PROVE  CouponInv'
  BY <1>6, CouponsUntouched DEF FindMaturing, ReadMaturityHolders, RedeemAbort, ledgerVars
<1>7. ASSUME NEW w \in MaturityWorkers, Redeem(w) PROVE CouponInv'
  <2>1. issue' = ClosedIssue /\ UNCHANGED <<coupon, couponRun, payment>>
    BY <1>7 DEF Redeem
  <2>2. issue'.status = "absent" => issue.status = "absent"
    BY <1>1, <2>1 DEF ClosedIssue
  <2> QED
    BY <2>1, <2>2, CouponsUntouched
<1> QED
  BY <1>3, <1>4, <1>5, <1>6, <1>7 DEF PayoutNext

LEMMA CouponInvNext == TypeInv /\ CouponInv /\ [Next]_vars => CouponInv'
<1> SUFFICES ASSUME TypeInv, CouponInv, [Next]_vars PROVE CouponInv'
  OBVIOUS
<1>1. CASE LedgerNext /\ UNCHANGED <<settlementVars, payoutVars>>
  BY <1>1, CouponInvLedger
<1>2. CASE SettlementNext /\ UNCHANGED payoutVars
  BY <1>2, SettlementKeepsIssue, CouponsUntouched DEF payoutVars
<1>3. CASE PayoutNext /\ UNCHANGED settlementVars
  BY <1>3, CouponInvPayout
<1>4. CASE UNCHANGED vars
  BY <1>4, CouponsUntouched DEF vars, ledgerVars, payoutVars
<1> QED
  BY <1>1, <1>2, <1>3, <1>4 DEF Next

\* However many coupon workers overlap and whatever fails, no coupon is ever paid
\* out twice, and a paid one has been paid out (MarkPaid in the payout's transaction).
THEOREM CouponsPaidOnce == Spec => []CouponPaidOnce
<1>1. CouponInv => CouponPaidOnce
  BY DEF CouponInv
<1> QED
  BY <1>1, CouponInvInit, CouponInvNext, TypeInvariance, PTL DEF Spec

\* Coupons are paid in the order of the schedule: GetNextDue takes the earliest, and
\* a worker that chose before another one's payout cannot overtake it.
THEOREM CouponsPaidInOrder == Spec => []CouponsInOrder
<1>1. CouponInv => CouponsInOrder
  BY DEF CouponInv
<1> QED
  BY <1>1, CouponInvInit, CouponInvNext, TypeInvariance, PTL DEF Spec

-----------------------------------------------------------------------------
\* Trades.  A trade is settled once because, while a message is being handled, no
\* other handler has it (SoleOwner), so nobody decides the trade between the status
\* check of ProcessTrade and the transaction (StillSubmitted).  Both facts need the
\* assumption that sessions outlive their handlers and that settle learns the fate
\* of its COMMIT; without it the property is false.
NoSplitSession == "expiry" \notin Faults /\ "lost_ack" \notin Faults

TradeInv == SettledExactlyOnce /\ SoleOwner /\ StillSubmitted

LEMMA TradeInvInit == Init => TradeInv
  BY DEF Init, SettlementInit, TradeInv, SettledExactlyOnce, SoleOwner, StillSubmitted, Idle

\* Steps of the other components.
LEMMA TradesUntouched ==
  ASSUME TradeInv, UNCHANGED settlementVars
  PROVE  TradeInv'
  BY DEF TradeInv, SettledExactlyOnce, SoleOwner, StillSubmitted, settlementVars

\* What SoleOwner says of the message a handler works on.
LEMMA Owner ==
  ASSUME TypeInv, TradeInv, NEW g \in Handlers, handler[g].pc # "idle"
  PROVE  /\ handler[g].trade \in Trades
         /\ msg[handler[g].trade].at = "session"
         /\ msg[handler[g].trade].owner = g
<1>1. msg[handler[g].trade] = [at |-> "session", owner |-> g]
  BY DEF TradeInv, SoleOwner
<1> QED
  BY <1>1 DEF TypeInv, HandlersBusy

\* A handler that moves on without deciding its trade.
LEMMA TradeInvMove ==
  ASSUME TypeInv, TradeInv, NEW h \in Handlers, handler[h].pc # "idle",
         UNCHANGED <<trade, msg, settled>>,
         handler' \in [Handlers -> [pc: PCs, trade: Trades \union {NoTrade},
                                   attempt: 0..MaxRetry, total: Nat]],
         \A g \in Handlers : g # h => handler'[g] = handler[g],
         handler'[h].trade = handler[h].trade,
         handler'[h].pc \in {"issue", "seller", "buyer", "tx", "fail"} =>
           trade[handler[h].trade].status = "submitted"
  PROVE  TradeInv'
  BY DEF TradeInv, SettledExactlyOnce, SoleOwner, StillSubmitted

\* A handler that decides its trade: nobody else works on it.
LEMMA TradeInvDecide ==
  ASSUME TypeInv, TradeInv, NEW h \in Handlers, NEW verdict \in {"settled", "failed"},
         handler[h].pc \in {"tx", "fail"},
         trade' = [trade EXCEPT ![handler[h].trade].status = verdict],
         settled' = IF verdict = "settled"
                    THEN [settled EXCEPT ![handler[h].trade] = @ + 1] ELSE settled,
         msg' = msg,
         \A g \in Handlers : g # h => handler'[g] = handler[g],
         handler'[h].trade = handler[h].trade,
         handler'[h].pc \in {"load", "mark"}
  PROVE  TradeInv'
<1> DEFINE t == handler[h].trade
<1>1. /\ handler \in [Handlers -> [pc: PCs, trade: Trades \union {NoTrade},
                                   attempt: 0..MaxRetry, total: Nat]]
      /\ trade \in [Trades -> [status: {"none", "submitted", "settled", "failed"},
                               terms: Terms \union {NoTerms}]]
      /\ settled \in [Trades -> Nat]
  BY DEF TypeInv, TypeOK, SettlementTypeOK
<1>2. SettledExactlyOnce /\ SoleOwner /\ StillSubmitted
  BY DEF TradeInv
<1>3. t \in Trades /\ trade[t].status = "submitted" /\ settled[t] = 0
  BY <1>2 DEF StillSubmitted, SettledExactlyOnce, TypeInv, HandlersBusy
<1>4. \A g \in Handlers : g # h /\ handler[g].pc # "idle" => handler[g].trade # t
  BY Owner
<1>5. /\ trade'[t].status = verdict
      /\ settled'[t] = IF verdict = "settled" THEN 1 ELSE 0
      /\ \A u \in Trades : u # t => trade'[u] = trade[u] /\ settled'[u] = settled[u]
  BY <1>1, <1>3
<1>6. SettledExactlyOnce'
  BY <1>2, <1>5 DEF SettledExactlyOnce
<1>7. SoleOwner'
  BY <1>2 DEF SoleOwner
<1>8. StillSubmitted'
  BY <1>2, <1>4, <1>5 DEF StillSubmitted, TypeInv, HandlersBusy
<1> QED
  BY <1>6, <1>7, <1>8 DEF TradeInv

LEMMA TradeInvNext ==
  ASSUME NoSplitSession, TypeInv, TradeInv, [Next]_vars
  PROVE  TradeInv'
<1>1. /\ handler \in [Handlers -> [pc: PCs, trade: Trades \union {NoTrade},
                                   attempt: 0..MaxRetry, total: Nat]]
      /\ trade \in [Trades -> [status: {"none", "submitted", "settled", "failed"},
                               terms: Terms \union {NoTerms}]]
      /\ msg \in [Trades -> [at: {"none", "topic", "session", "marked", "done"},
                             owner: Handlers \union {NoOwner}]]
      /\ settled \in [Trades -> Nat]
      /\ handler' \in [Handlers -> [pc: PCs, trade: Trades \union {NoTrade},
                                    attempt: 0..MaxRetry, total: Nat]]
  BY TypeInvNext DEF TypeInv, TypeOK, SettlementTypeOK
<1>2. SettledExactlyOnce /\ SoleOwner /\ StillSubmitted /\ HandlersBusy
  BY DEF TradeInv, TypeInv
<1>3. ASSUME NEW t \in Trades, NEW x \in Terms, NEW published \in BOOLEAN,
             CreateTrade(t, x, published)
      PROVE  TradeInv'
  <2>1. /\ trade[t].status = "none" /\ UNCHANGED <<handler, settled>>
        /\ trade'[t].status = "submitted"
        /\ \A u \in Trades : u # t => trade'[u] = trade[u] /\ msg'[u] = msg[u]
    BY <1>1, <1>3 DEF CreateTrade
  <2>2. \A h \in Handlers : handler[h].pc # "idle" => handler[h].trade \in Trades \ {t}
    BY <1>2, <2>1 DEF HandlersBusy
  <2>3. SettledExactlyOnce'
    BY <1>2, <2>1 DEF SettledExactlyOnce
  <2>4. SoleOwner' /\ StillSubmitted'
    BY <1>1, <1>2, <2>1, <2>2 DEF SoleOwner, StillSubmitted
  <2> QED
    BY <2>3, <2>4 DEF TradeInv
<1>4. ASSUME NEW t \in Trades, NEW h \in Handlers, Deliver(h, t) PROVE TradeInv'
  <2>1. /\ msg[t].at = "topic" /\ UNCHANGED <<trade, settled>>
        /\ msg' = [msg EXCEPT ![t] = [at |-> "session", owner |-> h]]
        /\ handler' = [handler EXCEPT ![h] =
                        [pc |-> "load", trade |-> t, attempt |-> 1, total |-> 0]]
    BY <1>4 DEF Deliver
  <2>2. \A g \in Handlers : handler[g].pc # "idle" => handler[g].trade # t
    BY <2>1, Owner
  <2>3. SoleOwner'
    BY <1>1, <1>2, <2>1, <2>2 DEF SoleOwner, HandlersBusy
  <2>4. StillSubmitted' /\ SettledExactlyOnce'
    BY <1>1, <1>2, <2>1 DEF StillSubmitted, SettledExactlyOnce
  <2> QED
    BY <2>3, <2>4 DEF TradeInv
<1>5. ASSUME NEW t \in Trades, CommitOffset(t) PROVE TradeInv'
  <2>1. /\ msg[t].at = "marked" /\ UNCHANGED <<trade, settled, handler>>
        /\ \A u \in Trades : u # t => msg'[u] = msg[u]
    BY <1>1, <1>5 DEF CommitOffset
  <2>2. \A g \in Handlers : handler[g].pc # "idle" => handler[g].trade # t
    BY <2>1, Owner
  <2> QED
    BY <1>2, <2>1, <2>2 DEF TradeInv, SoleOwner, StillSubmitted, SettledExactlyOnce, HandlersBusy
<1>6. ASSUME NEW h \in Handlers, HandlerStep(h) PROVE TradeInv'
  <2>1. CASE LoadTrade(h)
    BY <1>1, <1>2, <2>1, TradeInvMove DEF LoadTrade, Goto
  <2>2. CASE CheckIssue(h) \/ CheckSeller(h) \/ SettleAbort(h)
    <3>1. /\ handler[h].pc \in {"issue", "seller", "buyer", "tx"}
          /\ UNCHANGED <<trade, msg, settled>>
          /\ \E pc \in PCs : handler' = [handler EXCEPT ![h].pc = pc]
      BY <2>2 DEF CheckIssue, CheckSeller, SettleAbort, Goto, PCs
    <3>2. trade[handler[h].trade].status = "submitted"
      BY <1>2, <3>1 DEF StillSubmitted
    <3> QED
      BY <1>1, <3>1, <3>2, TradeInvMove
  <2>3. ASSUME NEW a \in Accruals, CheckBuyer(h, a) PROVE TradeInv'
    <3>1. /\ handler[h].pc = "buyer"
          /\ UNCHANGED <<trade, msg, settled>>
          /\ \E n, pc : handler' = [handler EXCEPT ![h].total = n, ![h].pc = pc]
      BY <2>3 DEF CheckBuyer
    <3>2. trade[handler[h].trade].status = "submitted"
      BY <1>2, <3>1 DEF StillSubmitted
    <3>3. /\ handler'[h].trade = handler[h].trade
          /\ \A g \in Handlers : g # h => handler'[g] = handler[g]
      BY <1>1, <3>1
    <3> QED
      BY <1>1, <3>1, <3>2, <3>3, TradeInvMove
  <2>4. CASE SettleCommit(h) \/ SettleCommitLostAck(h)
    <3>1. SettleTx(h) /\ Goto(h, "mark")
      BY <2>4 DEF SettleCommit, SettleCommitLostAck, NoSplitSession
    <3>2. /\ handler[h].pc = "tx"
          /\ trade' = [trade EXCEPT ![handler[h].trade].status = "settled"]
          /\ settled' = [settled EXCEPT ![handler[h].trade] = @ + 1]
          /\ msg' = msg
          /\ handler' = [handler EXCEPT ![h].pc = "mark"]
      BY <3>1 DEF SettleTx, Goto
    <3>3. /\ handler'[h].trade = handler[h].trade /\ handler'[h].pc = "mark"
          /\ \A g \in Handlers : g # h => handler'[g] = handler[g]
      BY <1>1, <3>2
    <3> QED
      BY <3>2, <3>3, TradeInvDecide
  <2>5. ASSUME NEW written \in BOOLEAN, Fail(h, written) PROVE TradeInv'
    <3>1. /\ handler[h].pc # "idle" /\ (written => handler[h].pc = "fail")
          /\ trade' = IF written THEN [trade EXCEPT ![handler[h].trade].status = "failed"]
                                 ELSE trade
          /\ handler' = [handler EXCEPT ![h] = Retried(h)]
          /\ UNCHANGED <<msg, settled>>
      BY <2>5 DEF Fail
    <3>2. /\ handler'[h].trade = handler[h].trade /\ handler'[h].pc \in {"load", "mark"}
          /\ \A g \in Handlers : g # h => handler'[g] = handler[g]
      BY <1>1, <3>1 DEF Retried
    <3>3. CASE written
      BY <3>1, <3>2, <3>3, TradeInvDecide
    <3>4. CASE ~written
      BY <1>1, <3>1, <3>2, <3>4, TradeInvMove
    <3> QED
      BY <3>3, <3>4
  <2>6. CASE Mark(h)
    <3> DEFINE t == handler[h].trade
    <3>1. /\ handler[h].pc # "idle" /\ UNCHANGED <<trade, settled>>
          /\ handler' = [handler EXCEPT ![h] = Idle]
          /\ msg' = msg \/ msg' = [msg EXCEPT ![t].at = "marked"]
      BY <2>6 DEF Mark
    <3>2. \A u \in Trades : u # t => msg'[u] = msg[u]
      BY <1>1, <3>1
    <3>3. \A g \in Handlers : g # h /\ handler[g].pc # "idle" => handler[g].trade # t
      BY <3>1, Owner
    <3>4. /\ handler'[h].pc = "idle"
          /\ \A g \in Handlers : g # h => handler'[g] = handler[g]
      BY <1>1, <3>1 DEF Idle
    <3>5. SoleOwner'
      BY <1>2, <3>2, <3>3, <3>4 DEF SoleOwner, HandlersBusy
    <3> QED
      BY <1>2, <3>1, <3>4, <3>5 DEF TradeInv, StillSubmitted, SettledExactlyOnce
  <2> QED
    BY <1>6, <2>1, <2>2, <2>3, <2>4, <2>5, <2>6 DEF HandlerStep
<1>7. ASSUME NEW h \in Handlers, Crash(h) PROVE TradeInv'
  <2>1. /\ UNCHANGED <<trade, settled>>
        /\ handler' = [handler EXCEPT ![h] = Idle]
        /\ msg' = Redelivered(h)
    BY <1>7 DEF Crash
  <2>2. /\ handler'[h].pc = "idle"
        /\ \A g \in Handlers : g # h => handler'[g] = handler[g]
    BY <1>1, <2>1 DEF Idle
  <2>3. \A t \in Trades : msg[t].owner # h => msg'[t] = msg[t]
    BY <2>1 DEF Redelivered
  <2>4. SoleOwner'
    BY <1>2, <2>2, <2>3 DEF SoleOwner, HandlersBusy
  <2> QED
    BY <1>2, <2>1, <2>2, <2>4 DEF TradeInv, StillSubmitted, SettledExactlyOnce
<1>8. ASSUME NEW h \in Handlers, Expire(h) PROVE FALSE
  BY <1>8 DEF Expire, Fault, NoSplitSession
<1>9. ASSUME NEW h \in Handlers, Cancel(h) PROVE TradeInv'
  BY <1>1, <1>9, TradeInvMove DEF Cancel, Goto
<1>10. CASE SettlementNext /\ UNCHANGED payoutVars
  BY <1>3, <1>4, <1>5, <1>6, <1>7, <1>8, <1>9, <1>10 DEF SettlementNext
<1>11. CASE UNCHANGED settlementVars
  BY <1>11, TradesUntouched
<1> QED
  BY <1>10, <1>11 DEF Next, vars

\* Every trade that is settled moved its bonds and its money exactly once, and a
\* trade that is not settled never moved any: retries, redeliveries, crashes between
\* COMMIT and the offset commit, cancelled sessions and failing statements included.
THEOREM TradesSettledOnce ==
  ASSUME NoSplitSession
  PROVE  Spec => []SettledExactlyOnce
<1>1. TradeInv => SettledExactlyOnce
  BY DEF TradeInv
<1>2. TypeInv /\ TradeInv /\ [Next]_vars => TradeInv'
  BY TradeInvNext
<1> QED
  BY <1>1, <1>2, TradeInvInit, TypeInvariance, PTL DEF Spec

-----------------------------------------------------------------------------
\* Refinement of the register of holders.

LEMMA RegisterInit == Init => Register!Init
<1> SUFFICES ASSUME Init PROVE Register!Init
  OBVIOUS
<1>1. trade = [t \in Trades |-> [status |-> "none", terms |-> NoTerms]]
  BY DEF Init, SettlementInit
<1>2. [t \in Trades |-> trade[t].status] = [t \in Trades |-> "none"]
  BY <1>1
<1>3. [t \in Trades |-> trade[t].terms] \in
        [Trades -> [seller: {"none"}, buyer: {"none"}, qty: {0}, price: {0}]]
  BY <1>1 DEF NoTerms
<1>4. position = [i \in Investors |-> 0] /\ issue.placed = 0
  BY DEF Init, LedgerInit
<1> QED
  BY <1>2, <1>3, <1>4 DEF Register!Init

\* Steps the register does not see.
LEMMA RegisterStutter ==
  ASSUME UNCHANGED <<trade, position>>, issue'.placed = issue.placed
  PROVE  UNCHANGED Register!registerVars
  BY DEF Register!registerVars

\* A trade that is decided is a step of the register.
LEMMA RegisterDecides ==
  ASSUME TypeInv, NEW t \in Trades, NEW verdict,
         trade' = [trade EXCEPT ![t].status = verdict]
  PROVE  /\ [u \in Trades |-> trade'[u].status] =
              [[u \in Trades |-> trade[u].status] EXCEPT ![t] = verdict]
         /\ [u \in Trades |-> trade'[u].terms] = [u \in Trades |-> trade[u].terms]
<1>1. trade \in [Trades -> [status: {"none", "submitted", "settled", "failed"},
                           terms: Terms \union {NoTerms}]]
  BY DEF TypeInv, TypeOK, SettlementTypeOK
<1>2. /\ trade'[t].status = verdict /\ trade'[t].terms = trade[t].terms
      /\ \A u \in Trades : u # t => trade'[u] = trade[u]
  BY <1>1
<1> DEFINE book == [u \in Trades |-> trade[u].status]
           book1 == [u \in Trades |-> trade'[u].status]
<1>3. book1 = [book EXCEPT ![t] = verdict]
  <2>1. \A u \in Trades : book1[u] = IF u = t THEN verdict ELSE book[u]
    BY <1>2
  <2> QED
    BY <2>1
<1>4. [u \in Trades |-> trade'[u].terms] = [u \in Trades |-> trade[u].terms]
  <2>1. \A u \in Trades : trade'[u].terms = trade[u].terms
    BY <1>2
  <2> QED
    BY <2>1
<1> QED
  BY <1>3, <1>4

LEMMA RegisterStep ==
  ASSUME NoSplitSession, TypeInv, TradeInv, [Next]_vars
  PROVE  [Register!Next]_(Register!registerVars)
<1>1. /\ issue \in [status: Statuses, placed: 0..Total]
      /\ position \in [Investors -> Nat]
      /\ placing \in [Requests -> PlaceRequest \union {NoRequest}]
      /\ trade \in [Trades -> [status: {"none", "submitted", "settled", "failed"},
                               terms: Terms \union {NoTerms}]]
  BY DEF TypeInv, TypeOK, LedgerTypeOK, SettlementTypeOK
<1>2. CASE LedgerNext /\ UNCHANGED <<settlementVars, payoutVars>>
  <2>0. trade' = trade
    BY <1>2 DEF settlementVars
  <2>1. ASSUME NEW r \in Requests, PlaceCommit(r) PROVE Register!Next
    <3> DEFINE p == placing[r]
    <3>1. p.investor \in Investors /\ p.qty \in Nat \ {0}
      BY <1>1, <2>1, LedgerAssumption DEF PlaceCommit, PlaceRequest, LedgerAssumption
    <3>2. /\ FitsIssue(p.qty) /\ issue' = PlacedIssue(p.qty)
          /\ position' = [position EXCEPT ![p.investor] = @ + p.qty]
      BY <2>1 DEF PlaceCommit
    <3>3. issue'.placed = issue.placed + p.qty /\ issue.placed + p.qty <= Total
      BY <1>1, <3>2 DEF PlacedIssue, FitsIssue
    <3>4. p.qty \in 1..Total
      BY <1>1, <3>1, <3>3, LedgerAssumption DEF LedgerAssumption
    <3>5. Register!Place(p.investor, p.qty)
      BY <2>0, <3>2, <3>3 DEF Register!Place
    <3> QED
      BY <3>1, <3>4, <3>5 DEF Register!Next
  <2>2. CASE ~ \E r \in Requests : PlaceCommit(r)
    <3>1. position' = position /\ issue'.placed = issue.placed
      BY <1>1, <1>2, <2>2
         DEF LedgerNext, CreateIssue, UpdateIssueStatus, InvestorDeposit, PlaceRead, PlaceAbort,
             NextDay
    <3> QED
      BY <2>0, <3>1, RegisterStutter
  <2> QED
    BY <2>1, <2>2
<1>3. CASE PayoutNext /\ UNCHANGED settlementVars
  <2>0. trade' = trade
    BY <1>3 DEF settlementVars
  <2>1. ASSUME NEW w \in MaturityWorkers, Redeem(w) PROVE Register!Next
    <3>1. position' = [i \in Investors |-> 0] /\ issue'.placed = issue.placed
      BY <1>1, <2>1 DEF Redeem, NoHolders, ClosedIssue
    <3>2. Register!Redeem
      BY <2>0, <3>1 DEF Register!Redeem
    <3> QED
      BY <3>2 DEF Register!Next
  <2>2. CASE ~ \E w \in MaturityWorkers : Redeem(w)
    <3>1. position' = position /\ issue' = issue
      BY <1>3, <2>2
         DEF PayoutNext, FindDueCoupons, NextCoupon, ReadCouponHolders, PayCoupon, CouponAbort,
             FindMaturing, ReadMaturityHolders, RedeemAbort, ledgerVars
    <3> QED
      BY <2>0, <3>1, RegisterStutter
  <2> QED
    BY <2>1, <2>2
<1>4. CASE SettlementNext /\ UNCHANGED payoutVars
  <2>0. issue' = issue
    BY <1>4, SettlementKeepsIssue
  <2>1. ASSUME NEW t \in Trades, NEW x \in Terms, NEW published \in BOOLEAN,
               CreateTrade(t, x, published)
        PROVE  Register!Next
    <3>1. /\ trade[t].status = "none" /\ position' = position
          /\ trade' = [trade EXCEPT ![t] = [status |-> "submitted", terms |-> x]]
      BY <2>1 DEF CreateTrade, ledgerVars
    <3>2. Register!Open(t, x)
      BY <1>1, <2>0, <3>1 DEF Register!Open
    <3> QED
      BY <3>2 DEF Register!Next
  <2>2. ASSUME NEW h \in Handlers, SettleCommit(h) \/ SettleCommitLostAck(h)
        PROVE  Register!Next
    <3>0. PICK t \in Trades : t = handler[h].trade
      BY <2>2 DEF SettleCommit, SettleCommitLostAck, SettleTx, TypeInv, HandlersBusy
    <3>1. /\ SettleTx(h) /\ handler[h].pc = "tx"
          /\ trade' = [trade EXCEPT ![t].status = "settled"]
      BY <2>2, <3>0 DEF SettleCommit, SettleCommitLostAck, SettleTx
    <3>2. trade[t].status = "submitted"
      BY <3>0, <3>1 DEF TradeInv, StillSubmitted
    <3>3. /\ position[trade[t].terms.seller] >= trade[t].terms.qty
          /\ position' = [position EXCEPT ![trade[t].terms.seller] = @ - trade[t].terms.qty,
                                          ![trade[t].terms.buyer] = @ + trade[t].terms.qty]
      BY <3>0, <3>1 DEF SettleTx, TransferAllowed, Transfer, TermsOf
    <3>4. Register!Settle(t)
      <4> DEFINE book == [u \in Trades |-> trade[u].status]
                 terms == [u \in Trades |-> trade[u].terms]
      <4>1. book[t] = "submitted" /\ terms[t] = trade[t].terms
        BY <3>2
      <4>2. book' = [book EXCEPT ![t] = "settled"] /\ terms' = terms
        BY <3>1, <3>2, RegisterDecides
      <4> HIDE DEF book, terms
      <4>3. /\ position[terms[t].seller] >= terms[t].qty
            /\ position' = [position EXCEPT ![terms[t].seller] = @ - terms[t].qty,
                                            ![terms[t].buyer] = @ + terms[t].qty]
        BY <3>3, <4>1
      <4> QED
        BY <2>0, <4>1, <4>2, <4>3 DEF Register!Settle, book, terms
    <3> QED
      BY <3>4 DEF Register!Next
  <2>3. ASSUME NEW h \in Handlers, NEW written \in BOOLEAN, Fail(h, written)
        PROVE  [Register!Next]_(Register!registerVars)
    <3>0. PICK t \in Trades : t = handler[h].trade
      BY <2>3 DEF Fail, TypeInv, HandlersBusy
    <3>1. /\ (written => handler[h].pc = "fail") /\ position' = position
          /\ trade' = IF written THEN [trade EXCEPT ![t].status = "failed"] ELSE trade
      BY <2>3, <3>0 DEF Fail, ledgerVars
    <3>2. written => trade[t].status = "submitted"
      BY <3>0, <3>1 DEF TradeInv, StillSubmitted
    <3>3. CASE written
      <4>1. Register!Reject(t)
        BY <2>0, <3>1, <3>2, <3>3, RegisterDecides DEF Register!Reject
      <4> QED
        BY <4>1 DEF Register!Next
    <3>4. CASE ~written
      <4>1. trade' = trade
        BY <3>1, <3>4, Zenon
      <4> QED
        BY <2>0, <3>1, <4>1, RegisterStutter
    <3> QED
      BY <3>3, <3>4
  <2>4. CASE \/ \E t \in Trades, h \in Handlers : Deliver(h, t)
             \/ \E t \in Trades : CommitOffset(t)
             \/ \E h \in Handlers :
                  \/ LoadTrade(h) \/ CheckIssue(h) \/ CheckSeller(h) \/ SettleAbort(h) \/ Mark(h)
                  \/ \E a \in Accruals : CheckBuyer(h, a)
                  \/ Crash(h) \/ Expire(h) \/ Cancel(h)
    <3>1. UNCHANGED <<trade, position, issue>>
      BY <2>4
         DEF Deliver, CommitOffset, LoadTrade, CheckIssue, CheckSeller, CheckBuyer, SettleAbort,
             Mark, Crash, Expire, Cancel, ledgerVars
    <3> QED
      BY <3>1, RegisterStutter
  <2> QED
    BY <1>4, <2>1, <2>2, <2>3, <2>4 DEF SettlementNext, HandlerStep
<1>5. CASE UNCHANGED vars
  BY <1>5, RegisterStutter DEF vars, ledgerVars, settlementVars
<1> QED
  BY <1>2, <1>3, <1>4, <1>5 DEF Next

\* The whole platform implements the register of holders: ownership of the bonds
\* changes only by placements, by redemption, and by trades at the very moment they
\* are decided, each of them once, and only if the seller holds what is sold.
THEOREM PlatformImplementsRegister ==
  ASSUME NoSplitSession
  PROVE  Spec => RegisterImplemented
<1>1. TypeInv /\ TradeInv /\ [Next]_vars => TradeInv'
  BY TradeInvNext
<1>2. TypeInv /\ TradeInv /\ [Next]_vars => [Register!Next]_(Register!registerVars)
  BY RegisterStep
<1> QED
  BY <1>1, <1>2, TradeInvInit, RegisterInit, TypeInvariance, PTL
     DEF Spec, RegisterImplemented, Register!Spec

\* An issue that matured or was cancelled stays so: the activation of a full issue
\* and the closing of a redeemed one test the status in their own UPDATE.
THEOREM ClosedIssuesStayClosed == Spec => ClosedForGood
<1>1. TypeInv /\ [Next]_vars =>
        [issue.status \in {"matured", "cancelled"} => issue'.status = issue.status]_issue
  <2> SUFFICES ASSUME TypeInv, [Next]_vars, issue.status \in {"matured", "cancelled"}
               PROVE  issue'.status = issue.status
    OBVIOUS
  <2>1. issue \in [status: Statuses, placed: 0..Total]
    BY DEF TypeInv, TypeOK, LedgerTypeOK
  <2>2. CASE LedgerNext
    BY <2>1, <2>2 DEF LedgerNext, CreateIssue, UpdateIssueStatus, CanTransition, InvestorDeposit,
       PlaceRead, PlaceCommit, PlacedIssue, PlaceAbort, NextDay
  <2>3. CASE SettlementNext
    BY <2>3, SettlementKeepsIssue
  <2>4. CASE PayoutNext
    BY <2>1, <2>4 DEF PayoutNext, FindDueCoupons, NextCoupon, ReadCouponHolders, PayCoupon,
       CouponAbort, FindMaturing, ReadMaturityHolders, Redeem, ClosedIssue, RedeemAbort, ledgerVars
  <2>5. CASE UNCHANGED vars
    BY <2>5 DEF vars, ledgerVars
  <2> QED
    BY <2>2, <2>3, <2>4, <2>5 DEF Next
<1> QED
  BY <1>1, TypeInvariance, PTL DEF Spec, ClosedForGood

-----------------------------------------------------------------------------
(* The two ledgers balance.                                                *)

\* Moving d from one entry to another leaves the sum as it is.
LEMMA SumMove ==
  ASSUME NEW S, IsFiniteSet(S), NEW f \in [S -> Int], NEW g \in [S -> Int],
         NEW a \in S, NEW b \in S, a # b, NEW d \in Int,
         g[a] = f[a] - d, g[b] = f[b] + d,
         \A x \in S \ {a, b} : g[x] = f[x]
  PROVE  SumFunction(g) = SumFunction(f)
<1> DEFINE m == [f EXCEPT ![a] = f[a] - d]
<1>1. m \in [S -> Int] /\ m[a] = f[a] - d /\ \A x \in S \ {a} : m[x] = f[x]
  OBVIOUS
<1>2. \A x \in S : x # b => g[x] = m[x]
  BY <1>1
<1> HIDE DEF m
<1>3. SumFunction(m) = SumFunction(f) - f[a] + m[a]
  BY <1>1, SumChange
<1>4. SumFunction(g) = SumFunction(m) - m[b] + g[b]
  BY <1>1, <1>2, SumChange
<1>5. SumFunction(f) \in Int /\ SumFunction(m) \in Int /\ f[a] \in Int /\ f[b] \in Int
  BY <1>1, SumType
<1>6. m[b] = f[b]
  BY <1>1
<1> QED
  BY <1>1, <1>3, <1>4, <1>5, <1>6

\* A larger number of units costs at least as much.
LEMMA ScaleMonotone ==
  ASSUME NEW c \in Nat, NEW a \in Int, NEW b \in Int, a <= b
  PROVE  c * a <= c * b
<1>1. c * (b - a) >= 0
  BY Z3
<1>2. c * (b - a) = c * b - c * a /\ c * b \in Int /\ c * a \in Int
  BY Z3
<1> QED
  BY <1>1, <1>2

\* What an investor's journal entries add up to, and the two sides of a redemption.
Net(c) == [i \in Investors |-> c[i].deposits + c[i].coupons - c[i].placements]
PaidFor(r) == [i \in Investors |-> r[i].paidFor]
Zeroed(r) == [i \in Investors |-> r[i].zeroed]

LEMMA NetType ==
  ASSUME NEW c \in [Investors -> [deposits: Nat, placements: Nat, coupons: Nat]]
  PROVE  Net(c) \in [Investors -> Int] /\ SumFunction(Net(c)) \in Int
<1>1. ASSUME NEW i \in Investors
      PROVE  c[i].deposits + c[i].coupons - c[i].placements \in Int
  <2>1. c[i] \in [deposits: Nat, placements: Nat, coupons: Nat]
    OBVIOUS
  <2> QED
    BY <2>1
<1> QED
  BY <1>1, SumType, LedgerAssumption DEF Net, LedgerAssumption

LEMMA RedemptionType ==
  ASSUME NEW r \in [Investors -> [paidFor: Nat, zeroed: Nat]]
  PROVE  /\ PaidFor(r) \in [Investors -> Int] /\ Zeroed(r) \in [Investors -> Int]
         /\ SumFunction(PaidFor(r)) \in Int /\ SumFunction(Zeroed(r)) \in Int
  BY SumType, LedgerAssumption DEF PaidFor, Zeroed, LedgerAssumption

LEMMA LedgerSums ==
  ASSUME TypeOK
  PROVE  /\ position \in [Investors -> Int] /\ balance \in [Investors -> Int]
         /\ SumFunction(position) \in Int /\ SumFunction(balance) \in Int
         /\ cash \in [Investors -> [deposits: Nat, placements: Nat, coupons: Nat]]
         /\ redemption \in [Investors -> [paidFor: Nat, zeroed: Nat]]
         /\ Redeemed = SumFunction(PaidFor(redemption)) /\ Redeemed \in Int
         /\ Retired = SumFunction(Zeroed(redemption)) /\ Retired \in Int
         /\ issue.placed \in Nat
<1>1. position \in [Investors -> Int] /\ balance \in [Investors -> Int]
      /\ issue.placed \in Nat
      /\ cash \in [Investors -> [deposits: Nat, placements: Nat, coupons: Nat]]
      /\ redemption \in [Investors -> [paidFor: Nat, zeroed: Nat]]
  BY LedgerAssumption DEF TypeOK, LedgerTypeOK, PayoutTypeOK, LedgerAssumption
<1>2. Redeemed = SumFunction(PaidFor(redemption)) /\ Retired = SumFunction(Zeroed(redemption))
  BY DEF Redeemed, Retired, PaidFor, Zeroed
<1> QED
  BY <1>1, <1>2, SumType, RedemptionType, LedgerAssumption DEF LedgerAssumption

\* The two equations, over the functions they sum.
LEMMA ConservedSums ==
  Conserved <=> /\ SumFunction(position) + Retired = issue.placed
                /\ SumFunction(balance) = Nominal * Redeemed + SumFunction(Net(cash))
  BY DEF Conserved, BondsConserved, MoneyConserved, Net

\* Steps the sums do not see.
LEMMA SumsUntouched ==
  ASSUME Conserved, UNCHANGED <<position, balance, cash, redemption>>, issue'.placed = issue.placed
  PROVE  Conserved'
  BY DEF Conserved, BondsConserved, MoneyConserved, Redeemed, Retired

LEMMA DepositConserves ==
  ASSUME TypeOK, TypeOK', Conserved, NEW i \in Investors, InvestorDeposit(i),
         UNCHANGED payoutVars
  PROVE  Conserved'
<1>1. /\ balance' = [balance EXCEPT ![i] = @ + DepositAmount]
      /\ cash' = [cash EXCEPT ![i].deposits = @ + DepositAmount]
      /\ UNCHANGED <<issue, position, redemption>>
  BY DEF InvestorDeposit, payoutVars
<1>2. DepositAmount \in Int /\ Nominal \in Int /\ IsFiniteSet(Investors)
  BY LedgerAssumption DEF LedgerAssumption
<1>3. balance' \in [Investors -> Int] /\ balance'[i] = balance[i] + DepositAmount
      /\ \A j \in Investors : j # i => balance'[j] = balance[j]
  BY <1>1, <1>2, LedgerSums
<1>4. /\ cash[i] \in [deposits: Nat, placements: Nat, coupons: Nat]
      /\ cash' \in [Investors -> [deposits: Nat, placements: Nat, coupons: Nat]]
      /\ cash'[i].deposits = cash[i].deposits + DepositAmount
      /\ cash'[i].coupons = cash[i].coupons /\ cash'[i].placements = cash[i].placements
      /\ \A j \in Investors : j # i => cash'[j] = cash[j]
  BY <1>1, LedgerSums DEF TypeOK, LedgerTypeOK
<1>5. Net(cash')[i] = Net(cash)[i] + DepositAmount
      /\ \A j \in Investors : j # i => Net(cash')[j] = Net(cash)[j]
  BY <1>2, <1>4 DEF Net
<1>6. SumFunction(balance') = SumFunction(balance) - balance[i] + balance'[i]
  <2>1. balance \in [Investors -> Int]
    BY LedgerSums
  <2> QED
    BY <1>2, <1>3, <2>1, SumChange
<1>7. /\ Net(cash) \in [Investors -> Int] /\ Net(cash') \in [Investors -> Int]
      /\ SumFunction(Net(cash)) \in Int /\ SumFunction(Net(cash')) \in Int
  BY <1>4, LedgerSums, NetType
<1>8. SumFunction(Net(cash')) = SumFunction(Net(cash)) - Net(cash)[i] + Net(cash')[i]
  BY <1>2, <1>5, <1>7, SumChange
<1>9. Redeemed' = Redeemed /\ Retired' = Retired
  BY <1>1 DEF Redeemed, Retired
<1>10. Nominal * Redeemed \in Int /\ balance[i] \in Int /\ Net(cash)[i] \in Int
  BY <1>2, <1>7, LedgerSums
<1>11. SumFunction(balance) = Nominal * Redeemed + SumFunction(Net(cash))
  BY ConservedSums
<1>12. SumFunction(balance') = Nominal * Redeemed + SumFunction(Net(cash'))
  BY <1>2, <1>3, <1>5, <1>6, <1>7, <1>8, <1>10, <1>11, LedgerSums
<1> QED
  BY <1>1, <1>9, <1>12 DEF Conserved, BondsConserved, MoneyConserved, Net

LEMMA PlaceConserves ==
  ASSUME TypeOK, TypeOK', Conserved, NEW r \in Requests, PlaceCommit(r), UNCHANGED payoutVars
  PROVE  Conserved'
<1> DEFINE i == placing[r].investor
           q == placing[r].qty
           cost == PlacePrice * q
<1>1. i \in Investors /\ q \in Nat \ {0}
  BY LedgerAssumption DEF TypeOK, LedgerTypeOK, PlaceCommit, PlaceRequest, LedgerAssumption
<1>2. /\ issue' = PlacedIssue(q)
      /\ balance' = [balance EXCEPT ![i] = @ - cost]
      /\ position' = [position EXCEPT ![i] = @ + q]
      /\ cash' = [cash EXCEPT ![i].placements = @ + cost]
      /\ redemption' = redemption
  BY DEF PlaceCommit, payoutVars
<1>3. cost \in Nat
  BY <1>1, NatProduct, LedgerAssumption DEF LedgerAssumption
<1> HIDE DEF i, q, cost
<1>4. IsFiniteSet(Investors) /\ Nominal \in Int
  BY LedgerAssumption DEF LedgerAssumption
<1>5. issue'.placed = issue.placed + q
  BY <1>2 DEF PlacedIssue, TypeOK, LedgerTypeOK
<1>6. /\ position \in [Investors -> Int] /\ position' \in [Investors -> Int]
      /\ position'[i] = position[i] + q
      /\ \A j \in Investors : j # i => position'[j] = position[j]
  BY <1>1, <1>2, LedgerSums
<1>7. SumFunction(position') = SumFunction(position) - position[i] + position'[i]
  BY <1>1, <1>4, <1>6, SumChange
<1>8. /\ balance \in [Investors -> Int] /\ balance' \in [Investors -> Int]
      /\ balance'[i] = balance[i] - cost
      /\ \A j \in Investors : j # i => balance'[j] = balance[j]
  BY <1>1, <1>2, <1>3, LedgerSums
<1>9. SumFunction(balance') = SumFunction(balance) - balance[i] + balance'[i]
  BY <1>1, <1>4, <1>8, SumChange
<1>10. /\ cash[i] \in [deposits: Nat, placements: Nat, coupons: Nat]
       /\ cash \in [Investors -> [deposits: Nat, placements: Nat, coupons: Nat]]
       /\ cash' \in [Investors -> [deposits: Nat, placements: Nat, coupons: Nat]]
       /\ cash'[i].placements = cash[i].placements + cost
       /\ cash'[i].coupons = cash[i].coupons /\ cash'[i].deposits = cash[i].deposits
       /\ \A j \in Investors : j # i => cash'[j] = cash[j]
  BY <1>1, <1>2 DEF TypeOK, LedgerTypeOK
<1>11. Net(cash')[i] = Net(cash)[i] - cost
       /\ \A j \in Investors : j # i => Net(cash')[j] = Net(cash)[j]
  BY <1>1, <1>3, <1>10 DEF Net
<1>12. /\ Net(cash) \in [Investors -> Int] /\ Net(cash') \in [Investors -> Int]
       /\ SumFunction(Net(cash)) \in Int /\ SumFunction(Net(cash')) \in Int
  BY <1>10, NetType
<1>13. SumFunction(Net(cash')) = SumFunction(Net(cash)) - Net(cash)[i] + Net(cash')[i]
  BY <1>1, <1>4, <1>11, <1>12, SumChange
<1>14. Redeemed' = Redeemed /\ Retired' = Retired
  BY <1>2 DEF Redeemed, Retired
<1>15. /\ Nominal * Redeemed \in Int /\ Retired \in Int
       /\ SumFunction(position) \in Int /\ SumFunction(balance) \in Int /\ issue.placed \in Int
       /\ position[i] \in Int /\ balance[i] \in Int /\ Net(cash)[i] \in Int
  BY <1>1, <1>4, <1>12, LedgerSums
<1>16. /\ SumFunction(position) + Retired = issue.placed
       /\ SumFunction(balance) = Nominal * Redeemed + SumFunction(Net(cash))
  BY ConservedSums
<1>17. SumFunction(position') + Retired' = issue'.placed
  BY <1>1, <1>5, <1>6, <1>7, <1>14, <1>15, <1>16
<1>18. SumFunction(balance') = Nominal * Redeemed' + SumFunction(Net(cash'))
  BY <1>3, <1>8, <1>9, <1>11, <1>12, <1>13, <1>14, <1>15, <1>16
<1> QED
  BY <1>17, <1>18 DEF Conserved, BondsConserved, MoneyConserved, Net

LEMMA SettleConserves ==
  ASSUME TypeInv, Conserved, NEW h \in Handlers, SettleTx(h), UNCHANGED payoutVars
  PROVE  Conserved'
<1> DEFINE a == TermsOf(h).seller
           b == TermsOf(h).buyer
           q == TermsOf(h).qty
           total == handler[h].total
<1>1. a \in Investors /\ b \in Investors /\ a # b /\ q \in Nat /\ total \in Nat
  BY HandlerTerms DEF SettleTx, TypeInv, TypeOK, SettlementTypeOK
<1>2. /\ position' = [position EXCEPT ![a] = @ - q, ![b] = @ + q]
      /\ balance' = [balance EXCEPT ![b] = @ - total, ![a] = @ + total]
      /\ UNCHANGED <<issue, cash, redemption>>
  BY DEF SettleTx, Transfer, PayTotal, payoutVars
<1> HIDE DEF a, b, q, total
<1>3. position \in [Investors -> Int] /\ balance \in [Investors -> Int]
  BY LedgerSums DEF TypeInv
<1>4. /\ position' \in [Investors -> Int]
      /\ position'[a] = position[a] - q /\ position'[b] = position[b] + q
      /\ \A j \in Investors \ {a, b} : position'[j] = position[j]
  BY <1>1, <1>2, <1>3
<1>5. /\ balance' \in [Investors -> Int]
      /\ balance'[b] = balance[b] - total /\ balance'[a] = balance[a] + total
      /\ \A j \in Investors \ {b, a} : balance'[j] = balance[j]
  BY <1>1, <1>2, <1>3
<1>6. IsFiniteSet(Investors) /\ q \in Int /\ total \in Int
  BY <1>1, LedgerAssumption DEF LedgerAssumption
<1>7. SumFunction(position') = SumFunction(position)
  BY <1>1, <1>3, <1>4, <1>6, SumMove
<1>8. SumFunction(balance') = SumFunction(balance)
  BY <1>1, <1>3, <1>5, <1>6, SumMove
<1>9. Redeemed' = Redeemed /\ Retired' = Retired
  BY <1>2 DEF Redeemed, Retired
<1> QED
  BY <1>2, <1>7, <1>8, <1>9 DEF Conserved, BondsConserved, MoneyConserved

LEMMA CouponConserves ==
  ASSUME TypeInv, TypeOK', Conserved, NEW w \in CouponWorkers, PayCoupon(w)
  PROVE  Conserved'
<1> DEFINE held == couponRun[w].holders
           credit == [i \in Investors |-> CouponPerUnit * held[i]]
<1>1. /\ balance' = [i \in Investors |-> balance[i] + credit[i]]
      /\ cash' = [i \in Investors |-> [cash[i] EXCEPT !.coupons = @ + credit[i]]]
      /\ UNCHANGED <<issue, position, redemption>>
  BY DEF PayCoupon
<1>2. credit \in [Investors -> Nat]
  <2>1. held \in [Investors -> Nat]
    BY DEF TypeInv, TypeOK, PayoutTypeOK, CouponRuns
  <2>2. \A i \in Investors : CouponPerUnit * held[i] \in Nat
    BY <2>1, NatProduct, LedgerAssumption DEF LedgerAssumption
  <2> QED
    BY <2>2
<1> HIDE DEF held, credit
<1>3. /\ IsFiniteSet(Investors) /\ credit \in [Investors -> Int] /\ Nominal \in Int
      /\ balance \in [Investors -> Int]
  BY <1>2, LedgerAssumption, LedgerSums DEF TypeInv, LedgerAssumption
<1>4. balance' \in [Investors -> Int] /\ \A i \in Investors : balance'[i] = balance[i] + credit[i]
  BY <1>1, <1>3
<1>5. SumFunction(balance') = SumFunction(balance) + SumFunction(credit)
  BY <1>3, <1>4, SumAdd
<1>6. /\ cash \in [Investors -> [deposits: Nat, placements: Nat, coupons: Nat]]
      /\ cash' \in [Investors -> [deposits: Nat, placements: Nat, coupons: Nat]]
  BY DEF TypeInv, TypeOK, LedgerTypeOK
<1>7. ASSUME NEW i \in Investors PROVE Net(cash')[i] = Net(cash)[i] + credit[i]
  <2>1. cash[i] \in [deposits: Nat, placements: Nat, coupons: Nat] /\ credit[i] \in Nat
    BY <1>2, <1>6
  <2>2. /\ cash'[i].deposits = cash[i].deposits /\ cash'[i].placements = cash[i].placements
        /\ cash'[i].coupons = cash[i].coupons + credit[i]
    BY <1>1, <1>6, <2>1
  <2> QED
    BY <2>1, <2>2 DEF Net
<1>8. /\ Net(cash) \in [Investors -> Int] /\ Net(cash') \in [Investors -> Int]
      /\ SumFunction(Net(cash)) \in Int
  BY <1>6, NetType
<1>9. SumFunction(Net(cash')) = SumFunction(Net(cash)) + SumFunction(credit)
  BY <1>3, <1>7, <1>8, SumAdd
<1>10. Redeemed' = Redeemed /\ Retired' = Retired
  BY <1>1 DEF Redeemed, Retired
<1>11. SumFunction(balance') = Nominal * Redeemed + SumFunction(Net(cash'))
  <2>1. SumFunction(balance) = Nominal * Redeemed + SumFunction(Net(cash))
    BY ConservedSums
  <2>2. Nominal * Redeemed \in Int /\ SumFunction(credit) \in Int
    BY <1>3, LedgerSums, SumType DEF TypeInv
  <2> QED
    BY <1>5, <1>8, <1>9, <2>1, <2>2
<1> QED
  BY <1>1, <1>10, <1>11 DEF Conserved, BondsConserved, MoneyConserved, Net

LEMMA RedeemConserves ==
  ASSUME TypeInv, TypeOK', Conserved, NEW w \in MaturityWorkers, Redeem(w)
  PROVE  Conserved'
<1> DEFINE held == maturityRun[w].holders
           credit == [i \in Investors |-> Nominal * held[i]]
<1>1. /\ balance' = [i \in Investors |-> balance[i] + credit[i]]
      /\ position' = [i \in Investors |-> 0]
      /\ redemption' = [i \in Investors |-> [paidFor |-> redemption[i].paidFor + held[i],
                                             zeroed |-> redemption[i].zeroed + position[i]]]
      /\ issue' = ClosedIssue /\ cash' = cash
  BY DEF Redeem, NoHolders
<1>2. held \in [Investors -> Nat]
  BY DEF TypeInv, TypeOK, PayoutTypeOK, MaturityRuns
<1>3. credit \in [Investors -> Int]
  BY <1>2, NatProduct, LedgerAssumption DEF LedgerAssumption
<1>4. \A i \in Investors : credit[i] = Nominal * held[i]
  OBVIOUS
<1> HIDE DEF held, credit
<1>5. /\ IsFiniteSet(Investors) /\ Nominal \in Int /\ held \in [Investors -> Int]
      /\ balance \in [Investors -> Int] /\ position \in [Investors -> Int]
  BY <1>2, LedgerAssumption, LedgerSums DEF TypeInv, LedgerAssumption
<1>6. SumFunction(balance') = SumFunction(balance) + SumFunction(credit)
  <2>1. balance' \in [Investors -> Int]
        /\ \A i \in Investors : balance'[i] = balance[i] + credit[i]
    BY <1>1, <1>3, <1>5
  <2> QED
    BY <1>3, <1>5, <2>1, SumAdd
<1>7. SumFunction(credit) = Nominal * SumFunction(held)
  BY <1>3, <1>4, <1>5, SumScale
<1>8. /\ redemption \in [Investors -> [paidFor: Nat, zeroed: Nat]]
      /\ redemption' \in [Investors -> [paidFor: Nat, zeroed: Nat]]
  BY DEF TypeInv, TypeOK, PayoutTypeOK
<1>9. /\ PaidFor(redemption) \in [Investors -> Int] /\ Zeroed(redemption) \in [Investors -> Int]
      /\ PaidFor(redemption') \in [Investors -> Int] /\ Zeroed(redemption') \in [Investors -> Int]
      /\ SumFunction(PaidFor(redemption)) \in Int /\ SumFunction(Zeroed(redemption)) \in Int
  BY <1>8, RedemptionType
<1>10. \A i \in Investors :
         /\ PaidFor(redemption')[i] = PaidFor(redemption)[i] + held[i]
         /\ Zeroed(redemption')[i] = Zeroed(redemption)[i] + position[i]
  BY <1>1 DEF PaidFor, Zeroed
<1>11. SumFunction(PaidFor(redemption')) = SumFunction(PaidFor(redemption)) + SumFunction(held)
  BY <1>5, <1>9, <1>10, SumAdd
<1>12. SumFunction(Zeroed(redemption')) = SumFunction(Zeroed(redemption)) + SumFunction(position)
  BY <1>5, <1>9, <1>10, SumAdd
<1>13. SumFunction(position') = 0
  BY <1>1, <1>5, SumZero
<1>14. issue'.placed = issue.placed
  BY <1>1 DEF ClosedIssue, TypeInv, TypeOK, LedgerTypeOK
<1>15. /\ Redeemed = SumFunction(PaidFor(redemption)) /\ Retired = SumFunction(Zeroed(redemption))
       /\ Redeemed' = SumFunction(PaidFor(redemption'))
       /\ Retired' = SumFunction(Zeroed(redemption'))
  BY DEF Redeemed, Retired, PaidFor, Zeroed
<1>16. /\ SumFunction(position) + Retired = issue.placed
       /\ SumFunction(balance) = Nominal * Redeemed + SumFunction(Net(cash))
  BY ConservedSums
<1>17. /\ SumFunction(position) \in Int /\ SumFunction(held) \in Int /\ issue.placed \in Int
       /\ SumFunction(balance) \in Int /\ SumFunction(Net(cash)) \in Int
  BY <1>5, LedgerSums, NetType, SumType DEF TypeInv
<1>18. SumFunction(position') + Retired' = issue'.placed
  BY <1>9, <1>12, <1>13, <1>14, <1>15, <1>16, <1>17
<1>19. Nominal * (Redeemed + SumFunction(held)) = Nominal * Redeemed + Nominal * SumFunction(held)
       /\ Nominal * Redeemed \in Int /\ Nominal * SumFunction(held) \in Int
  BY <1>5, <1>9, <1>15, <1>17
<1>20. SumFunction(balance') = Nominal * Redeemed' + SumFunction(Net(cash'))
  BY <1>1, <1>6, <1>7, <1>11, <1>15, <1>16, <1>17, <1>19
<1> QED
  BY <1>18, <1>20 DEF Conserved, BondsConserved, MoneyConserved, Net

LEMMA ConservedInit == Init => Conserved
<1> SUFFICES ASSUME Init PROVE Conserved
  OBVIOUS
<1> DEFINE zero == [i \in Investors |-> 0]
<1>1. /\ position = zero /\ balance = zero /\ issue.placed = 0
      /\ cash = [i \in Investors |-> [deposits |-> 0, placements |-> 0, coupons |-> 0]]
      /\ redemption = [i \in Investors |-> [paidFor |-> 0, zeroed |-> 0]]
  BY DEF Init, LedgerInit, PayoutInit
<1>2. Net(cash) = zero /\ [i \in Investors |-> redemption[i].paidFor] = zero
      /\ [i \in Investors |-> redemption[i].zeroed] = zero
  BY <1>1 DEF Net
<1>3. SumFunction(zero) = 0
  BY SumZero, LedgerAssumption DEF LedgerAssumption
<1>4. Redeemed = 0 /\ Retired = 0
  BY <1>2, <1>3 DEF Redeemed, Retired
<1> HIDE DEF zero
<1>5. Nominal * 0 = 0
  BY LedgerAssumption DEF LedgerAssumption
<1> QED
  BY <1>1, <1>2, <1>3, <1>4, <1>5, ConservedSums

LEMMA ConservedNext ==
  ASSUME TypeInv, TypeInv', Conserved, [Next]_vars
  PROVE  Conserved'
<1>1. issue \in [status: Statuses, placed: 0..Total]
  BY DEF TypeInv, TypeOK, LedgerTypeOK
<1>2. CASE LedgerNext /\ UNCHANGED <<settlementVars, payoutVars>>
  <2>1. ASSUME NEW i \in Investors, InvestorDeposit(i) PROVE Conserved'
    BY <1>2, <2>1, DepositConserves DEF TypeInv
  <2>2. ASSUME NEW r \in Requests, PlaceCommit(r) PROVE Conserved'
    BY <1>2, <2>2, PlaceConserves DEF TypeInv
  <2>3. CASE \/ \E scheduled \in BOOLEAN : CreateIssue(scheduled)
             \/ \E next \in Statuses : UpdateIssueStatus(next)
             \/ \E r \in Requests, i \in Investors, q \in PlaceQty : PlaceRead(r, i, q)
             \/ \E r \in Requests : PlaceAbort(r)
             \/ NextDay
    <3>1. UNCHANGED <<position, balance, cash, redemption>> /\ issue'.placed = issue.placed
      BY <1>1, <1>2, <2>3
         DEF CreateIssue, UpdateIssueStatus, PlaceRead, PlaceAbort, NextDay, payoutVars
    <3> QED
      BY <3>1, SumsUntouched
  <2> QED
    BY <1>2, <2>1, <2>2, <2>3 DEF LedgerNext
<1>3. CASE SettlementNext /\ UNCHANGED payoutVars
  <2>1. UNCHANGED <<issue, cash, redemption>>
    BY <1>3, SettlementKeepsIssue DEF payoutVars
  <2>2. ASSUME NEW h \in Handlers, SettleTx(h) PROVE Conserved'
    BY <1>3, <2>2, SettleConserves
  <2>3. CASE ~ \E h \in Handlers : SettleTx(h)
    <3>1. UNCHANGED <<position, balance>>
      BY <1>3, <2>3
         DEF SettlementNext, CreateTrade, Deliver, CommitOffset, HandlerStep, LoadTrade, CheckIssue,
             CheckSeller, CheckBuyer, SettleCommit, SettleCommitLostAck, SettleAbort, Fail, Mark,
             Crash, Expire, Cancel, ledgerVars
    <3> QED
      BY <2>1, <3>1, SumsUntouched
  <2> QED
    BY <2>2, <2>3
<1>4. CASE PayoutNext /\ UNCHANGED settlementVars
  <2>1. ASSUME NEW w \in CouponWorkers, PayCoupon(w) PROVE Conserved'
    BY <2>1, CouponConserves DEF TypeInv
  <2>2. ASSUME NEW w \in MaturityWorkers, Redeem(w) PROVE Conserved'
    BY <2>2, RedeemConserves DEF TypeInv
  <2>3. CASE /\ ~ \E w \in CouponWorkers : PayCoupon(w)
             /\ ~ \E w \in MaturityWorkers : Redeem(w)
    <3>1. UNCHANGED <<issue, position, balance, cash, redemption>>
      BY <1>4, <2>3
         DEF PayoutNext, FindDueCoupons, NextCoupon, ReadCouponHolders, CouponAbort,
             FindMaturing, ReadMaturityHolders, RedeemAbort, ledgerVars
    <3> QED
      BY <3>1, SumsUntouched
  <2> QED
    BY <2>1, <2>2, <2>3
<1>5. CASE UNCHANGED vars
  BY <1>5, SumsUntouched DEF vars, ledgerVars, payoutVars
<1> QED
  BY <1>2, <1>3, <1>4, <1>5 DEF Next

\* Bonds and money are conserved: however placements, trades, coupons and redemptions
\* interleave, fail and repeat, every bond placed is held or was taken at redemption,
\* and balances hold what deposits, coupons and redemptions brought less placements.
THEOREM LedgersBalance == Spec => []Conserved
<1>1. TypeInv /\ TypeInv' /\ Conserved /\ [Next]_vars => Conserved'
  BY ConservedNext
<1> QED
  BY <1>1, ConservedInit, TypeInvariance, PTL DEF Spec

-----------------------------------------------------------------------------
(* What coupons and redemption cost at most.                               *)

\* CronJob maturity-worker has concurrencyPolicy Forbid: one job at a time.
OneMaturityJob == \A v, w \in MaturityWorkers : v = w

OutlayInv == PayoutsBounded /\ HoldersCovered /\ UnpaidNobody /\ NotYetRedeemed

LEMMA OutlayInvInit == Init => OutlayInv
<1> SUFFICES ASSUME Init PROVE OutlayInv
  OBVIOUS
<1> DEFINE zero == [i \in Investors |-> 0]
<1>1. /\ issue = [status |-> "absent", placed |-> 0]
      /\ redemption = [i \in Investors |-> [paidFor |-> 0, zeroed |-> 0]]
      /\ couponRun = [w \in CouponWorkers |-> CouponIdle]
      /\ maturityRun = [w \in MaturityWorkers |-> MaturityIdle]
      /\ payment = [c \in Coupons |-> [runs |-> 0, amount |-> zero]]
  BY DEF Init, LedgerInit, PayoutInit
<1>2. HoldersCovered /\ UnpaidNobody /\ NotYetRedeemed
  BY <1>1 DEF HoldersCovered, UnpaidNobody, NotYetRedeemed, CouponIdle, MaturityIdle
<1>3. SumFunction(zero) = 0
  BY SumZero, LedgerAssumption DEF LedgerAssumption
<1>4. [i \in Investors |-> redemption[i].paidFor] = zero /\ \A c \in Coupons : payment[c].amount = zero
  BY <1>1
<1> HIDE DEF zero
<1>5. CouponPerUnit * 0 = 0
  BY LedgerAssumption DEF LedgerAssumption
<1>6. PayoutsBounded
  BY <1>1, <1>3, <1>4, <1>5 DEF PayoutsBounded, CouponOutlayBounded, RedeemedOnce, Redeemed
<1> QED
  BY <1>2, <1>6 DEF OutlayInv

\* An issue only ever grows, and from active it only goes to matured.
LEMMA IssueGrows ==
  ASSUME TypeInv, [Next]_vars
  PROVE  /\ issue.placed \in Nat /\ issue'.placed \in Nat /\ issue.placed <= issue'.placed
         /\ issue.status \in {"active", "matured"} => issue'.status \in {"active", "matured"}
         /\ issue.status = "matured" => issue'.status = "matured"
<1>1. issue \in [status: Statuses, placed: 0..Total] /\ Total \in Nat
  BY LedgerAssumption DEF TypeInv, TypeOK, LedgerTypeOK, LedgerAssumption
<1>2. CASE LedgerNext
  <2>1. ASSUME NEW r \in Requests, PlaceCommit(r)
        PROVE  /\ issue'.placed \in Nat /\ issue.placed <= issue'.placed
               /\ issue'.status = issue.status \/ issue.status = "placement"
    <3>1. placing[r].qty \in Nat /\ issue' = PlacedIssue(placing[r].qty)
      BY <2>1, LedgerAssumption
         DEF TypeInv, TypeOK, LedgerTypeOK, PlaceCommit, PlaceRequest, LedgerAssumption
    <3> QED
      BY <1>1, <3>1 DEF PlacedIssue
  <2>2. CASE ~ \E r \in Requests : PlaceCommit(r)
    BY <1>1, <1>2, <2>2 DEF LedgerNext, CreateIssue, UpdateIssueStatus, CanTransition,
       InvestorDeposit, PlaceRead, PlaceAbort, NextDay
  <2> QED
    BY <1>1, <2>1, <2>2
<1>3. CASE SettlementNext
  BY <1>1, <1>3, SettlementKeepsIssue
<1>4. CASE PayoutNext
  <2>1. issue' = issue \/ issue' = ClosedIssue
    BY <1>4 DEF PayoutNext, FindDueCoupons, NextCoupon, ReadCouponHolders, PayCoupon,
       CouponAbort, FindMaturing, ReadMaturityHolders, Redeem, RedeemAbort, ledgerVars
  <2> QED
    BY <1>1, <2>1 DEF ClosedIssue
<1>5. CASE UNCHANGED vars
  BY <1>1, <1>5 DEF vars, ledgerVars
<1> QED
  BY <1>2, <1>3, <1>4, <1>5 DEF Next

\* What is held at one moment was placed.
LEMMA HeldWasPlaced ==
  ASSUME TypeInv, Conserved
  PROVE  SumFunction(position) <= issue.placed
<1>1. Retired = SumFunction(Zeroed(redemption)) /\ Retired \in Int
  BY LedgerSums DEF TypeInv
<1>2. Retired >= 0
  <2> DEFINE zero == [i \in Investors |-> 0]
  <2>1. zero \in [Investors -> Int] /\ Zeroed(redemption) \in [Investors -> Int]
    BY RedemptionType DEF TypeInv, TypeOK, PayoutTypeOK
  <2>2. \A i \in Investors : zero[i] <= Zeroed(redemption)[i]
    BY DEF TypeInv, TypeOK, PayoutTypeOK, Zeroed
  <2>3. SumFunction(zero) = 0
    BY SumZero, LedgerAssumption DEF LedgerAssumption
  <2> HIDE DEF zero
  <2>4. SumFunction(zero) <= SumFunction(Zeroed(redemption))
    BY <2>1, <2>2, SumAtMost, LedgerAssumption DEF LedgerAssumption
  <2> QED
    BY <1>1, <2>3, <2>4
<1> QED
  BY <1>1, <1>2, ConservedSums, LedgerSums DEF TypeInv

\* The sums the bounds are about are integers.
LEMMA OutlayTypes ==
  ASSUME TypeInv
  PROVE  /\ \A c \in Coupons : SumFunction(payment[c].amount) \in Int
         /\ \A w \in CouponWorkers : couponRun[w].holders \in [Investors -> Int]
                                     /\ SumFunction(couponRun[w].holders) \in Int
         /\ \A w \in MaturityWorkers : maturityRun[w].holders \in [Investors -> Int]
                                       /\ SumFunction(maturityRun[w].holders) \in Int
         /\ CouponPerUnit \in Nat /\ IsFiniteSet(Investors)
<1>1. /\ \A c \in Coupons : payment[c].amount \in [Investors -> Int]
      /\ \A w \in CouponWorkers : couponRun[w].holders \in [Investors -> Int]
      /\ \A w \in MaturityWorkers : maturityRun[w].holders \in [Investors -> Int]
  BY DEF TypeInv, TypeOK, PayoutTypeOK, CouponRuns, MaturityRuns
<1> QED
  BY <1>1, SumType, LedgerAssumption DEF LedgerAssumption

\* Steps of the rest of the platform: payments and redemptions stay, the issue grows.
LEMMA OutlayUntouched ==
  ASSUME TypeInv, OutlayInv, [Next]_vars, UNCHANGED <<payment, redemption>>,
         HoldersCovered', NotYetRedeemed'
  PROVE  OutlayInv'
<1>1. UnpaidNobody'
  BY DEF OutlayInv, UnpaidNobody
<1>2. RedeemedOnce'
  <2>1. Redeemed' = Redeemed /\ Redeemed \in Int
    BY LedgerSums DEF TypeInv, Redeemed
  <2> QED
    BY <2>1, IssueGrows DEF OutlayInv, PayoutsBounded, RedeemedOnce
<1>3. CouponOutlayBounded'
  <2> SUFFICES ASSUME NEW c \in Coupons
               PROVE  SumFunction(payment[c].amount) <= CouponPerUnit * issue'.placed
    BY DEF CouponOutlayBounded
  <2>1. SumFunction(payment[c].amount) <= CouponPerUnit * issue.placed
    BY DEF OutlayInv, PayoutsBounded, CouponOutlayBounded
  <2>2. CouponPerUnit * issue.placed <= CouponPerUnit * issue'.placed
    BY IssueGrows, OutlayTypes, ScaleMonotone
  <2>3. CouponPerUnit * issue.placed \in Int /\ CouponPerUnit * issue'.placed \in Int
    BY IssueGrows, OutlayTypes
  <2> QED
    BY <2>1, <2>2, <2>3, OutlayTypes
<1> QED
  BY <1>1, <1>2, <1>3 DEF OutlayInv, PayoutsBounded

LEMMA HoldersStayCovered ==
  ASSUME TypeInv, OutlayInv, [Next]_vars, UNCHANGED <<couponRun, maturityRun>>
  PROVE  HoldersCovered'
<1>1. ASSUME NEW n \in Int, n <= issue.placed PROVE n <= issue'.placed
  BY <1>1, IssueGrows
<1> QED
  BY <1>1, OutlayTypes DEF OutlayInv, HoldersCovered

LEMMA OutlayInvCoupon ==
  ASSUME TypeInv, CouponInv, Conserved, OutlayInv, [Next]_vars, NEW w \in CouponWorkers,
         \/ FindDueCoupons(w) \/ NextCoupon(w) \/ ReadCouponHolders(w)
         \/ PayCoupon(w) \/ CouponAbort(w)
  PROVE  OutlayInv'
<1>1. /\ couponRun \in [CouponWorkers -> CouponRuns]
      /\ payment \in [Coupons -> [runs: Nat, amount: [Investors -> Nat]]]
      /\ position \in [Investors -> Nat]
  BY DEF TypeInv, TypeOK, PayoutTypeOK, LedgerTypeOK
<1>2. UNCHANGED <<issue, maturityRun, redemption>>
  BY DEF FindDueCoupons, NextCoupon, ReadCouponHolders, PayCoupon, CouponAbort, ledgerVars
<1>3. NotYetRedeemed'
  BY <1>2 DEF OutlayInv, NotYetRedeemed
<1>4. HoldersCovered'
  <2>1. \A v \in CouponWorkers : couponRun'[v].pc = "tx" =>
          couponRun'[v] = couponRun[v] \/ couponRun'[v].holders = position
    <3>1. CASE FindDueCoupons(w)
      BY <1>1, <3>1 DEF FindDueCoupons, CouponRuns
    <3>2. CASE NextCoupon(w)
      BY <1>1, <3>2 DEF NextCoupon, CouponRuns
    <3>3. CASE ReadCouponHolders(w)
      BY <1>1, <3>3 DEF ReadCouponHolders, CouponRuns
    <3>4. CASE PayCoupon(w) \/ CouponAbort(w)
      BY <1>1, <3>4 DEF PayCoupon, CouponAbort, CouponRuns, CouponIdle
    <3> QED
      BY <3>1, <3>2, <3>3, <3>4
  <2>2. \A v \in CouponWorkers : couponRun'[v].pc = "tx" =>
          SumFunction(couponRun'[v].holders) <= issue.placed
    BY <2>1, HeldWasPlaced DEF OutlayInv, HoldersCovered
  <2> QED
    BY <1>2, <2>2 DEF OutlayInv, HoldersCovered
<1>5. CASE ~ PayCoupon(w)
  <2>1. payment' = payment
    BY <1>5 DEF FindDueCoupons, NextCoupon, ReadCouponHolders, CouponAbort
  <2> QED
    BY <1>2, <1>3, <1>4, <2>1, OutlayUntouched
<1>6. CASE PayCoupon(w)
  <2> DEFINE c == couponRun[w].coupon
             held == couponRun[w].holders
             credit == [i \in Investors |-> CouponPerUnit * held[i]]
  <2>1. /\ c \in Coupons /\ coupon[c] = "scheduled"
        /\ couponRun[w].pc = "tx"
        /\ payment' = [payment EXCEPT ![c] =
                        [runs |-> payment[c].runs + 1,
                         amount |-> [i \in Investors |-> payment[c].amount[i] + credit[i]]]]
    BY <1>6 DEF PayCoupon, MarkPaidAllowed, TypeInv, RunsHaveCoupon
  <2>2. held \in [Investors -> Int] /\ SumFunction(held) \in Int /\ CouponPerUnit \in Nat
        /\ IsFiniteSet(Investors) /\ \A i \in Investors : held[i] \in Nat
    BY <1>1, OutlayTypes DEF CouponRuns
  <2>3. \A i \in Investors : CouponPerUnit * held[i] \in Nat
    BY <2>2, NatProduct
  <2>4. credit \in [Investors -> Int] /\ \A i \in Investors : credit[i] = CouponPerUnit * held[i]
                                                            /\ credit[i] \in Int
    BY <2>3
  <2> HIDE DEF credit
  <2>5. payment[c].runs = 0
    BY <2>1 DEF CouponInv, CouponPaidOnce
  <2>6. \A i \in Investors : payment[c].amount[i] + credit[i] = credit[i]
    BY <2>1, <2>4, <2>5 DEF OutlayInv, UnpaidNobody
  <2>7. /\ payment'[c].amount = credit /\ payment'[c].runs = 1
        /\ \A d \in Coupons : d # c => payment'[d] = payment[d]
    BY <1>1, <2>1, <2>4, <2>5, <2>6
  <2>8. SumFunction(credit) = CouponPerUnit * SumFunction(held)
    BY <2>2, <2>4, SumScale
  <2>9. SumFunction(held) <= issue.placed
    BY <2>1 DEF OutlayInv, HoldersCovered
  <2>10. CouponPerUnit * SumFunction(held) <= CouponPerUnit * issue.placed
    BY <2>2, <2>9, IssueGrows, ScaleMonotone
  <2>11. CouponOutlayBounded'
    BY <1>2, <2>7, <2>8, <2>10 DEF OutlayInv, PayoutsBounded, CouponOutlayBounded
  <2>12. UnpaidNobody'
    BY <2>7 DEF OutlayInv, UnpaidNobody
  <2>13. RedeemedOnce'
    BY <1>2 DEF OutlayInv, PayoutsBounded, RedeemedOnce, Redeemed
  <2> QED
    BY <1>3, <1>4, <2>11, <2>12, <2>13 DEF OutlayInv, PayoutsBounded
<1> QED
  BY <1>5, <1>6

LEMMA OutlayInvMaturity ==
  ASSUME OneMaturityJob, TypeInv, Conserved, OutlayInv, [Next]_vars, NEW w \in MaturityWorkers,
         FindMaturing(w) \/ ReadMaturityHolders(w) \/ Redeem(w) \/ RedeemAbort(w)
  PROVE  OutlayInv'
<1>1. /\ maturityRun \in [MaturityWorkers -> MaturityRuns]
      /\ issue \in [status: Statuses, placed: 0..Total]
      /\ position \in [Investors -> Nat]
  BY DEF TypeInv, TypeOK, PayoutTypeOK, LedgerTypeOK
<1>2. UNCHANGED <<couponRun, payment>>
  BY DEF FindMaturing, ReadMaturityHolders, Redeem, RedeemAbort, ledgerVars
<1>3. issue'.placed = issue.placed
  BY <1>1 DEF FindMaturing, ReadMaturityHolders, Redeem, RedeemAbort, ClosedIssue, ledgerVars
<1>4. HoldersCovered'
  <2>1. \A v \in MaturityWorkers : maturityRun'[v].pc = "tx" =>
          maturityRun'[v] = maturityRun[v] \/ maturityRun'[v].holders = position
    <3>1. CASE FindMaturing(w)
      BY <1>1, <3>1 DEF FindMaturing, MaturityRuns
    <3>2. CASE ReadMaturityHolders(w)
      BY <1>1, <3>2 DEF ReadMaturityHolders, MaturityRuns
    <3>3. CASE Redeem(w) \/ RedeemAbort(w)
      BY <1>1, <3>3 DEF Redeem, RedeemAbort, MaturityRuns, MaturityIdle
    <3> QED
      BY <3>1, <3>2, <3>3
  <2>2. \A v \in MaturityWorkers : maturityRun'[v].pc = "tx" =>
          SumFunction(maturityRun'[v].holders) <= issue'.placed
    BY <1>3, <2>1, HeldWasPlaced DEF OutlayInv, HoldersCovered
  <2> QED
    BY <1>2, <1>3, <2>2 DEF OutlayInv, HoldersCovered
<1>5. CASE ~ Redeem(w)
  <2>1. UNCHANGED <<redemption, issue>>
    BY <1>5 DEF FindMaturing, ReadMaturityHolders, RedeemAbort, ledgerVars
  <2>2. \A v \in MaturityWorkers : maturityRun'[v].pc # "idle" =>
          maturityRun[v].pc # "idle" \/ issue.status = "active"
    BY <1>1, <1>5 DEF FindMaturing, ReadMaturityHolders, RedeemAbort, Maturing, MaturityIdle
  <2>3. NotYetRedeemed'
    BY <2>1, <2>2 DEF OutlayInv, NotYetRedeemed
  <2> QED
    BY <1>2, <1>4, <2>1, <2>3, OutlayUntouched
<1>6. CASE Redeem(w)
  <2> DEFINE held == maturityRun[w].holders
  <2>1. /\ maturityRun[w].pc = "tx" /\ issue' = ClosedIssue
        /\ redemption' = [i \in Investors |->
                            [paidFor |-> redemption[i].paidFor + held[i],
                             zeroed |-> redemption[i].zeroed + position[i]]]
        /\ maturityRun' = [maturityRun EXCEPT ![w] = MaturityIdle]
    BY <1>6 DEF Redeem
  <2>2. held \in [Investors -> Nat]
    BY <1>1 DEF MaturityRuns
  <2>3. \A i \in Investors : redemption[i].paidFor = 0
    BY <2>1 DEF OutlayInv, NotYetRedeemed
  <2>4. PaidFor(redemption') = held
    <3>1. \A i \in Investors : redemption'[i].paidFor = held[i]
      BY <2>1, <2>2, <2>3
    <3> QED
      BY <2>2, <3>1 DEF PaidFor
  <2>5. SumFunction(held) <= issue.placed
    BY <2>1 DEF OutlayInv, HoldersCovered
  <2>6. RedeemedOnce'
    BY <1>3, <2>4, <2>5 DEF RedeemedOnce, Redeemed, PaidFor
  <2>7. issue'.status = "matured"
    BY <1>1, <2>1 DEF ClosedIssue, OutlayInv, NotYetRedeemed
  <2>8. \A v \in MaturityWorkers : maturityRun'[v].pc = "idle"
    BY <1>1, <2>1 DEF OneMaturityJob, MaturityIdle
  <2>9. NotYetRedeemed'
    BY <2>7, <2>8 DEF NotYetRedeemed
  <2>10. CouponOutlayBounded' /\ UnpaidNobody'
    BY <1>2, <1>3 DEF OutlayInv, PayoutsBounded, CouponOutlayBounded, UnpaidNobody
  <2> QED
    BY <1>4, <2>6, <2>9, <2>10 DEF OutlayInv, PayoutsBounded
<1> QED
  BY <1>5, <1>6

LEMMA OutlayInvNext ==
  ASSUME OneMaturityJob, TypeInv, CouponInv, Conserved, OutlayInv, [Next]_vars
  PROVE  OutlayInv'
<1>1. CASE PayoutNext
  BY <1>1, OutlayInvCoupon, OutlayInvMaturity DEF PayoutNext
<1>2. CASE UNCHANGED payoutVars
  <2>1. UNCHANGED <<couponRun, maturityRun, payment, redemption>>
    BY <1>2 DEF payoutVars
  <2>2. NotYetRedeemed'
    BY <2>1, IssueGrows DEF OutlayInv, NotYetRedeemed
  <2> QED
    BY <2>1, <2>2, HoldersStayCovered, OutlayUntouched
<1> QED
  BY <1>1, <1>2 DEF Next, vars

\* No payout is made twice: a coupon costs at most one coupon per bond placed, however
\* many coupon workers overlap, and redemption returns the nominal of at most the
\* bonds placed, as long as the scheduler runs one maturity job at a time.
THEOREM PayoutsStayBounded ==
  ASSUME OneMaturityJob
  PROVE  Spec => []PayoutsBounded
<1>1. OutlayInv => PayoutsBounded
  BY DEF OutlayInv
<1>2. TypeInv /\ CouponInv /\ Conserved /\ OutlayInv /\ [Next]_vars => OutlayInv'
  BY OutlayInvNext
<1>3. TypeInv /\ TypeInv' /\ Conserved /\ [Next]_vars => Conserved'
  BY ConservedNext
<1> QED
  BY <1>1, <1>2, <1>3, OutlayInvInit, ConservedInit, CouponInvInit, CouponInvNext,
     TypeInvariance, PTL DEF Spec

-----------------------------------------------------------------------------
(* No message is done before its trade is.                                 *)

\* Accounted, in the state a step leads to.
AccountedAfter(t) ==
  \/ trade'[t].status \in {"settled", "failed"} \/ t \in dlq'
  \/ \E why \in {"unsent", "cut"} : <<t, why>> \in lost'

\* A decided trade stays decided, a dead-lettered message stays dead-lettered, a lost
\* one lost.
LEMMA AccountedStays ==
  ASSUME TypeInv, SettlementNext, NEW t \in Trades, Accounted(t)
  PROVE  AccountedAfter(t)
<1>1. trade \in [Trades -> [status: {"none", "submitted", "settled", "failed"},
                           terms: Terms \union {NoTerms}]]
  BY DEF TypeInv, TypeOK, SettlementTypeOK
<1>2. dlq \subseteq dlq' /\ lost \subseteq lost'
  BY DEF SettlementNext, CreateTrade, Deliver, CommitOffset, HandlerStep, LoadTrade, CheckIssue,
     CheckSeller, CheckBuyer, SettleCommit, SettleCommitLostAck, SettleTx, SettleAbort, Fail, Mark,
     Crash, Expire, Cancel, DeadLetter
<1>3. trade[t].status \in {"settled", "failed"} => trade'[t].status \in {"settled", "failed"}
  <2>1. \/ trade' = trade
        \/ \E u \in Trades, x \in Terms :
             trade[u].status = "none"
             /\ trade' = [trade EXCEPT ![u] = [status |-> "submitted", terms |-> x]]
        \/ \E u, v : v \in {"settled", "failed"} /\ trade' = [trade EXCEPT ![u].status = v]
    BY DEF SettlementNext, CreateTrade, Deliver, CommitOffset, HandlerStep, LoadTrade, CheckIssue,
       CheckSeller, CheckBuyer, SettleCommit, SettleCommitLostAck, SettleTx, SettleAbort, Fail,
       Mark, Crash, Expire, Cancel
  <2> QED
    BY <1>1, <2>1
<1> QED
  BY <1>2, <1>3 DEF Accounted, Decided, AccountedAfter

\* A handler that reaches the mark has an answer for its trade.
LEMMA ReachesMarkAccounted ==
  ASSUME TypeInv, NEW h \in Handlers, HandlerStep(h), MarkedAccounted,
         handler'[h].pc = "mark"
  PROVE  handler'[h].trade = handler[h].trade /\ AccountedAfter(handler[h].trade)
<1>1. /\ trade \in [Trades -> [status: {"none", "submitted", "settled", "failed"},
                              terms: Terms \union {NoTerms}]]
      /\ handler \in [Handlers -> [pc: PCs, trade: Trades \union {NoTrade},
                                   attempt: 0..MaxRetry, total: Nat]]
  BY DEF TypeInv, TypeOK, SettlementTypeOK
<1>2. CASE LoadTrade(h)
  <2>1. /\ handler' = [handler EXCEPT ![h].pc =
                        IF trade[handler[h].trade].status = "submitted" THEN "issue" ELSE "mark"]
        /\ handler[h].pc = "load" /\ trade' = trade
    BY <1>2 DEF LoadTrade, Goto
  <2>2. handler[h].trade \in Trades /\ trade[handler[h].trade].status # "none"
    BY <2>1 DEF TypeInv, HandlersBusy
  <2>3. trade[handler[h].trade].status # "submitted"
    BY <1>1, <2>1
  <2> QED
    BY <1>1, <2>1, <2>2, <2>3 DEF AccountedAfter
<1>3. CASE SettleCommit(h)
  <2>1. /\ handler' = [handler EXCEPT ![h].pc = "mark"] /\ handler[h].pc = "tx"
        /\ trade' = [trade EXCEPT ![handler[h].trade].status = "settled"]
    BY <1>3 DEF SettleCommit, SettleTx, Goto
  <2>2. handler[h].trade \in Trades
    BY <2>1, HandlerTerms
  <2> QED
    BY <1>1, <2>1, <2>2 DEF AccountedAfter
<1>4. ASSUME NEW written \in BOOLEAN, Fail(h, written)
      PROVE  handler'[h].trade = handler[h].trade /\ AccountedAfter(handler[h].trade)
  <2>1. /\ handler' = [handler EXCEPT ![h] = Retried(h)]
        /\ IF handler[h].attempt < MaxRetry THEN UNCHANGED <<dlq, lost>>
           ELSE DeadLetter(handler[h].trade)
    BY <1>4 DEF Fail
  <2>2. ~ (handler[h].attempt < MaxRetry) /\ Retried(h) = [handler[h] EXCEPT !.pc = "mark"]
    BY <1>1, <2>1 DEF Retried
  <2>3. handler[h].trade \in dlq' \/ <<handler[h].trade, "unsent">> \in lost'
    BY <2>1, <2>2 DEF DeadLetter
  <2> QED
    BY <1>1, <2>1, <2>2, <2>3 DEF AccountedAfter
<1>5. CASE \/ CheckIssue(h) \/ CheckSeller(h) \/ SettleCommitLostAck(h) \/ SettleAbort(h)
           \/ \E a \in Accruals : CheckBuyer(h, a)
  BY <1>1, <1>5, ZenonT(30) DEF CheckIssue, CheckSeller, SettleCommitLostAck, SettleAbort, CheckBuyer, Goto
<1>6. CASE Mark(h)
  BY <1>1, <1>6 DEF Mark, Idle
<1> QED
  BY <1>2, <1>3, <1>4, <1>5, <1>6 DEF HandlerStep

LEMMA MarkedAccountedNext ==
  ASSUME TypeInv, MarkedAccounted, [Next]_vars
  PROVE  MarkedAccounted'
<1>1. /\ handler \in [Handlers -> [pc: PCs, trade: Trades \union {NoTrade},
                                   attempt: 0..MaxRetry, total: Nat]]
      /\ msg \in [Trades -> [at: {"none", "topic", "session", "marked", "done"},
                             owner: Handlers \union {NoOwner}]]
      /\ \A h \in Handlers : handler[h].pc # "idle" => handler[h].trade \in Trades
  BY DEF TypeInv, TypeOK, SettlementTypeOK, HandlersBusy
<1>2. CASE SettlementNext
  <2>1. \A t \in Trades : Accounted(t) => AccountedAfter(t)
    BY <1>2, AccountedStays
  <2>2. ASSUME NEW h \in Handlers, handler'[h].pc = "mark"
        PROVE  AccountedAfter(handler'[h].trade)
    <3>1. CASE handler'[h] = handler[h]
      BY <1>1, <2>1, <2>2, <3>1 DEF MarkedAccounted
    <3>2. CASE HandlerStep(h)
      BY <2>2, <3>2, ReachesMarkAccounted
    <3>4. CASE Cancel(h)
      <4>1. handler'[h].trade = handler[h].trade
        BY <1>1, <3>4 DEF Cancel, Goto
      <4>2. \/ handler[h].trade \in dlq'
            \/ \E why \in {"unsent", "cut"} : <<handler[h].trade, why>> \in lost'
        BY <3>4 DEF Cancel, DeadLetter
      <4> QED
        BY <4>1, <4>2 DEF AccountedAfter
    <3>3. CASE handler'[h] # handler[h] /\ ~ HandlerStep(h) /\ ~ Cancel(h)
      <4>1. handler'[h].pc # "mark"
        <5>1. ASSUME NEW g \in Handlers, HandlerStep(g), g # h PROVE handler'[h] = handler[h]
          BY <1>1, <5>1 DEF HandlerStep, LoadTrade, CheckIssue, CheckSeller, CheckBuyer,
             SettleCommit, SettleCommitLostAck, SettleAbort, Fail, Mark, Goto
        <5>2. ASSUME NEW g \in Handlers, NEW t \in Trades, Deliver(g, t)
              PROVE  handler'[h] = handler[h] \/ handler'[h].pc = "load"
          BY <1>1, <5>2 DEF Deliver
        <5>3. ASSUME NEW g \in Handlers, Crash(g) \/ Expire(g)
              PROVE  handler'[h] = handler[h] \/ handler'[h].pc = "idle"
          BY <1>1, <5>3 DEF Crash, Expire, Idle
        <5>4. ASSUME NEW g \in Handlers, Cancel(g), g # h PROVE handler'[h] = handler[h]
          BY <1>1, <5>4 DEF Cancel, Goto
        <5>5. CASE \/ \E t \in Trades, x \in Terms, p \in BOOLEAN : CreateTrade(t, x, p)
                   \/ \E t \in Trades : CommitOffset(t)
          BY <5>5, <3>3 DEF CreateTrade, CommitOffset
        <5> QED
          BY <1>2, <3>3, <5>1, <5>2, <5>3, <5>4, <5>5 DEF SettlementNext
      <4> QED
        BY <2>2, <4>1
    <3> QED
      BY <3>1, <3>2, <3>3, <3>4
  <2>3. ASSUME NEW t \in Trades, msg'[t].at \in {"marked", "done"}
        PROVE  AccountedAfter(t)
    <3>1. CASE msg[t].at \in {"marked", "done"}
      BY <2>1, <3>1 DEF MarkedAccounted
    <3>2. CASE \E h \in Handlers : handler[h].pc = "mark" /\ handler[h].trade = t
      BY <2>1, <3>2 DEF MarkedAccounted
    <3>3. msg[t].at \in {"marked", "done"}
          \/ \E h \in Handlers : handler[h].pc = "mark" /\ handler[h].trade = t
      <4>1. ASSUME NEW h \in Handlers, HandlerStep(h)
            PROVE  msg' = msg \/ (handler[h].pc = "mark" /\ \A u \in Trades : u # handler[h].trade => msg'[u] = msg[u])
        BY <1>1, <4>1 DEF HandlerStep, LoadTrade, CheckIssue, CheckSeller, CheckBuyer,
           SettleCommit, SettleCommitLostAck, SettleTx, SettleAbort, Fail, Mark
      <4>2. ASSUME NEW h \in Handlers, Crash(h) \/ Expire(h)
            PROVE  msg'[t] = msg[t] \/ msg'[t].at = "topic"
        BY <4>2 DEF Crash, Expire, Redelivered
      <4>3. ASSUME NEW h \in Handlers, NEW u \in Trades, Deliver(h, u)
            PROVE  msg'[t] = msg[t] \/ msg'[t].at = "session"
        BY <1>1, <4>3 DEF Deliver
      <4>4. ASSUME NEW u \in Trades, CommitOffset(u)
            PROVE  msg'[t] = msg[t] \/ msg[t].at = "marked"
        BY <1>1, <4>4 DEF CommitOffset
      <4>5. ASSUME NEW u \in Trades, NEW x \in Terms, NEW p \in BOOLEAN, CreateTrade(u, x, p)
            PROVE  msg'[t] = msg[t] \/ msg'[t].at = "topic"
        BY <1>1, <4>5 DEF CreateTrade
      <4>6. ASSUME NEW h \in Handlers, Cancel(h) PROVE msg' = msg
        BY <4>6 DEF Cancel
      <4> QED
        BY <1>2, <2>3, <4>1, <4>2, <4>3, <4>4, <4>5, <4>6 DEF SettlementNext
    <3> QED
      BY <3>1, <3>2, <3>3
  <2> QED
    BY <2>2, <2>3 DEF MarkedAccounted, Accounted, Decided, AccountedAfter
<1>3. CASE UNCHANGED settlementVars
  BY <1>3 DEF settlementVars, MarkedAccounted, Accounted, Decided
<1> QED
  BY <1>2, <1>3 DEF Next, vars

\* Whatever fails, a message leaves the topic for good only when its trade was settled
\* or failed, reached the dead letter topic, or was let go in one of the two places the
\* code has for it: a session cut off under its handler, and an unsent dead letter.
THEOREM TradesAccounted == Spec => []TradesAccountedFor
<1>1. Init => MarkedAccounted
  BY DEF Init, SettlementInit, MarkedAccounted, Idle
<1>2. MarkedAccounted => TradesAccountedFor
  BY DEF MarkedAccounted, TradesAccountedFor
<1>3. TypeInv /\ MarkedAccounted /\ [Next]_vars => MarkedAccounted'
  BY MarkedAccountedNext
<1> QED
  BY <1>1, <1>2, <1>3, TypeInvariance, PTL DEF Spec
=============================================================================
