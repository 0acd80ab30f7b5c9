---------------------------- MODULE BondSettlement ----------------------------
(***************************************************************************)
(* Secondary trades of 03-cfa-bonds: createTrade publishes trade.submitted *)
(* to Kafka, and the settlement workers' consumer handlers run             *)
(* Engine.ProcessTrade on each message, with retries and a dead letter     *)
(* queue.  Kafka delivers at least once: a crash before the offset is      *)
(* committed, or a session that expires, hands the message to a handler    *)
(* again.                                                                  *)
(***************************************************************************)
EXTENDS BondLedger

CONSTANTS
  Trades,     \* rows of the trades table a behaviour may create
  Handlers,   \* ConsumeClaim goroutines of the settlement workers
  MaxRetry,   \* ConsumerOptions.MaxRetry
  Terms,      \* seller, buyer, quantity and price a trade may have
  Accruals,   \* accrued interest per unit CalcAccruedInterest may return
  Faults,     \* what may go wrong besides failing transactions and lost publishes:
              \*   "crash"      a worker process dies
              \*   "expiry"     a session expires while its handler still runs
              \*   "cancel"     shutdown or rebalance cancels the session context
              \*   "lost_ack"   COMMIT takes effect but the worker sees an error
              \*   "db_error"   the statement of Engine.fail, or the read of the trade, fails
  MaxFaults   \* bound: crashes, expiries and cancellations of a behaviour

NoOwner == "no handler"

ASSUME SettlementAssumption ==
  /\ NoOwner \notin Handlers
  /\ MaxRetry \in Nat \ {0}
  /\ MaxFaults \in Nat
  /\ Terms \subseteq [seller: Investors, buyer: Investors, qty: Nat \ {0}, price: Nat \ {0}]
  /\ \A x \in Terms : x.seller # x.buyer
  /\ Accruals \subseteq Nat
  /\ Faults \subseteq {"crash", "expiry", "cancel", "lost_ack", "db_error"}

VARIABLES
  trade,      \* trades row: status and terms
  msg,        \* trade.submitted message: where it is, and which handler's session owns it
  handler,    \* control state of each handler
  dlq,        \* trades whose message reached the dead letter topic
  lost,       \* history: trades whose message is marked although nothing was recorded for them,
              \* and why: "unsent" dead letters, sessions "cut" off
  settled,    \* number of trade.settled events in event_log, per trade
  faults      \* crashes, expiries and cancellations so far

settlementVars == <<trade, msg, handler, dlq, lost, settled, faults>>

NoTerms == [seller |-> "none", buyer |-> "none", qty |-> 0, price |-> 0]
NoTrade == "no trade"
Idle == [pc |-> "idle", trade |-> NoTrade, attempt |-> 0, total |-> 0]

PCs == {"idle", "load", "issue", "seller", "buyer", "tx", "fail", "mark"}

SettlementTypeOK ==
  /\ trade \in [Trades -> [status: {"none", "submitted", "settled", "failed"},
                           terms: Terms \union {NoTerms}]]
  /\ msg \in [Trades -> [at: {"none", "topic", "session", "marked", "done"},
                         owner: Handlers \union {NoOwner}]]
  /\ handler \in [Handlers -> [pc: PCs, trade: Trades \union {NoTrade},
                               attempt: 0..MaxRetry, total: Nat]]
  /\ dlq \subseteq Trades
  /\ lost \subseteq Trades \X {"unsent", "cut"}
  /\ settled \in [Trades -> Nat]
  /\ faults \in 0..MaxFaults

SettlementInit ==
  /\ trade = [t \in Trades |-> [status |-> "none", terms |-> NoTerms]]
  /\ msg = [t \in Trades |-> [at |-> "none", owner |-> NoOwner]]
  /\ handler = [h \in Handlers |-> Idle]
  /\ dlq = {} /\ lost = {}
  /\ settled = [t \in Trades |-> 0]
  /\ faults = 0

-----------------------------------------------------------------------------
(* createTrade stores the trade and publishes asynchronously: the message  *)
(* may never reach the topic, and the client gets 201 all the same.        *)
CreateTrade(t, terms, published) ==
  /\ trade[t].status = "none"
  /\ trade' = [trade EXCEPT ![t] = [status |-> "submitted", terms |-> terms]]
  /\ msg' = IF published THEN [msg EXCEPT ![t].at = "topic"] ELSE msg
  /\ UNCHANGED <<handler, dlq, lost, settled, faults, ledgerVars>>

-----------------------------------------------------------------------------
(* The consumer: ConsumeClaim and groupHandler.process.                    *)

Goto(h, pc) == handler' = [handler EXCEPT ![h].pc = pc]

\* Mutant: the message is marked before it is processed.
DeliverMarked(h, t) ==
  /\ handler[h].pc = "idle"
  /\ msg[t].at = "topic"
  /\ msg' = [msg EXCEPT ![t] = [at |-> "marked", owner |-> h]]
  /\ handler' = [handler EXCEPT ![h] =
                   [pc |-> "load", trade |-> t, attempt |-> 1, total |-> 0]]
  /\ UNCHANGED <<trade, dlq, lost, settled, faults, ledgerVars>>

\* A claim hands the handler the next message of its partition.
Deliver(h, t) ==
  /\ handler[h].pc = "idle"
  /\ msg[t].at = "topic"
  /\ msg' = [msg EXCEPT ![t] = [at |-> "session", owner |-> h]]
  /\ handler' = [handler EXCEPT ![h] =
                   [pc |-> "load", trade |-> t, attempt |-> 1, total |-> 0]]
  /\ UNCHANGED <<trade, dlq, lost, settled, faults, ledgerVars>>

\* MarkMessage: only the session that owns the message moves its offset.
Mark(h) ==
  LET t == handler[h].trade IN
  /\ handler[h].pc = "mark"
  /\ msg' = IF msg[t] = [at |-> "session", owner |-> h]
            THEN [msg EXCEPT ![t].at = "marked"] ELSE msg
  /\ handler' = [handler EXCEPT ![h] = Idle]
  /\ UNCHANGED <<trade, dlq, lost, settled, faults, ledgerVars>>

\* The group commits marked offsets in the background.
CommitOffset(t) ==
  /\ msg[t].at = "marked"
  /\ msg' = [msg EXCEPT ![t] = [at |-> "done", owner |-> NoOwner]]
  /\ UNCHANGED <<trade, handler, dlq, lost, settled, faults, ledgerVars>>

-----------------------------------------------------------------------------
(* Engine.ProcessTrade and Engine.settle.  Each read is a statement of its *)
(* own, outside the transaction.                                           *)

\* Mutant: ProcessTrade does not skip a trade that was already decided.
LoadTradeAlways(h) ==
  /\ handler[h].pc = "load"
  /\ Goto(h, "issue")
  /\ UNCHANGED <<trade, msg, dlq, lost, settled, faults, ledgerVars>>

LoadTrade(h) ==
  /\ handler[h].pc = "load"
  /\ Goto(h, IF trade[handler[h].trade].status = "submitted" THEN "issue" ELSE "mark")
  /\ UNCHANGED <<trade, msg, dlq, lost, settled, faults, ledgerVars>>

TermsOf(h) == trade[handler[h].trade].terms

\* issue.Status must be active ...
CheckIssue(h) ==
  /\ handler[h].pc = "issue"
  /\ Goto(h, IF issue.status = "active" THEN "seller" ELSE "fail")
  /\ UNCHANGED <<trade, msg, dlq, lost, settled, faults, ledgerVars>>

\* ... the seller must hold the quantity ...
CheckSeller(h) ==
  /\ handler[h].pc = "seller"
  /\ Goto(h, IF position[TermsOf(h).seller] >= TermsOf(h).qty THEN "buyer" ELSE "fail")
  /\ UNCHANGED <<trade, msg, dlq, lost, settled, faults, ledgerVars>>

\* ... and the buyer the price plus the accrued interest of that moment.
CheckBuyer(h, accrued) ==
  LET total == (TermsOf(h).price + accrued) * TermsOf(h).qty IN
  /\ handler[h].pc = "buyer"
  /\ handler' = [handler EXCEPT ![h].total = total,
                                ![h].pc = IF balance[TermsOf(h).buyer] >= total
                                          THEN "tx" ELSE "fail"]
  /\ UNCHANGED <<trade, msg, dlq, lost, settled, faults, ledgerVars>>

\* Mutant: the transaction trusts the check made before it.
TransferUnchecked(x) == x \in Terms

\* PositionRepo.Transfer checks the seller again, this time in the transaction.
TransferAllowed(x) == position[x.seller] >= x.qty

\* Mutant: the seller keeps what was sold.
TransferCopy(x) ==
  position' = [position EXCEPT ![x.buyer] = @ + x.qty]

Transfer(x) ==
  position' = [position EXCEPT ![x.seller] = @ - x.qty, ![x.buyer] = @ + x.qty]

PayTotal(x, total) ==
  balance' = [balance EXCEPT ![x.buyer] = @ - total, ![x.seller] = @ + total]

\* The committed transaction: both legs, the status and the journal entry.
SettleTx(h) ==
  LET t == handler[h].trade
      x == TermsOf(h)
  IN /\ handler[h].pc = "tx"
     /\ TransferAllowed(x)
     /\ Transfer(x)
     /\ PayTotal(x, handler[h].total)
     /\ trade' = [trade EXCEPT ![t].status = "settled"]
     /\ settled' = [settled EXCEPT ![t] = @ + 1]
     /\ UNCHANGED <<msg, dlq, lost, faults, issue, coupon, today, placing, cash>>

SettleCommit(h) == SettleTx(h) /\ Goto(h, "mark")

\* COMMIT was durable but its acknowledgement was lost: settle returns an error.
SettleCommitLostAck(h) == "lost_ack" \in Faults /\ SettleTx(h) /\ Goto(h, "fail")

\* settle returns an error: a read fails, Transfer refuses, or the transaction
\* loses a serialization conflict.
SettleAbort(h) ==
  /\ handler[h].pc \in {"issue", "seller", "buyer", "tx"}
  /\ Goto(h, "fail")
  /\ UNCHANGED <<trade, msg, dlq, lost, settled, faults, ledgerVars>>

\* Mutant: a failed attempt is retried without counting it.
RetriedForever(h) == [handler[h] EXCEPT !.pc = "load", !.total = 0]

\* process: retry the handler until MaxRetry attempts failed, then dead-letter.
Retried(h) ==
  IF handler[h].attempt < MaxRetry
    THEN [pc |-> "load", trade |-> handler[h].trade,
          attempt |-> handler[h].attempt + 1, total |-> 0]
    ELSE [handler[h] EXCEPT !.pc = "mark"]

\* The dead letter is only queued: what the producer or the broker refuses is logged,
\* and the message is marked nevertheless.
DeadLetter(t) ==
  \/ dlq' = dlq \union {t} /\ UNCHANGED lost
  \/ lost' = lost \union {<<t, "unsent">>} /\ UNCHANGED dlq

\* Engine.fail overwrites whatever status the trade has, unless its statement fails
\* too.  An attempt that cannot even load the trade ends without it.
Fail(h, written) ==
  LET t == handler[h].trade IN
  /\ handler[h].pc = "fail" \/ (handler[h].pc = "load" /\ ~written)
  /\ written \/ "db_error" \in Faults
  /\ trade' = IF written THEN [trade EXCEPT ![t].status = "failed"] ELSE trade
  /\ handler' = [handler EXCEPT ![h] = Retried(h)]
  /\ IF handler[h].attempt < MaxRetry THEN UNCHANGED <<dlq, lost>> ELSE DeadLetter(t)
  /\ UNCHANGED <<msg, settled, faults, ledgerVars>>

-----------------------------------------------------------------------------
(* Faults.                                                                 *)

Fault(kind) == kind \in Faults /\ faults < MaxFaults /\ faults' = faults + 1

\* The messages of a handler's session return to the topic.
Redelivered(h) ==
  [t \in Trades |-> IF msg[t].owner = h THEN [at |-> "topic", owner |-> NoOwner] ELSE msg[t]]

\* The worker process dies; its open transaction, if any, rolls back.
Crash(h) ==
  /\ Fault("crash")
  /\ handler' = [handler EXCEPT ![h] = Idle]
  /\ msg' = Redelivered(h)
  /\ UNCHANGED <<trade, dlq, lost, settled, ledgerVars>>

\* The broker gives up on a session whose handler is still at work.
Expire(h) ==
  /\ Fault("expiry")
  /\ \E t \in Trades : msg[t].owner = h
  /\ msg' = Redelivered(h)
  /\ UNCHANGED <<trade, handler, dlq, lost, settled, ledgerVars>>

\* The session context is cancelled: every statement fails, process returns
\* without a retry, and ConsumeClaim marks the message nevertheless.  After the
\* last attempt deadLetter's select may still take the producer's branch.
Cancel(h) ==
  LET t == handler[h].trade IN
  /\ Fault("cancel")
  /\ handler[h].pc \notin {"idle", "mark"}
  /\ Goto(h, "mark")
  /\ \/ lost' = lost \union {<<t, "cut">>} /\ UNCHANGED dlq
     \/ handler[h].attempt = MaxRetry /\ DeadLetter(t)
  /\ UNCHANGED <<trade, msg, settled, ledgerVars>>

-----------------------------------------------------------------------------
HandlerStep(h) ==
  \/ LoadTrade(h) \/ CheckIssue(h) \/ CheckSeller(h)
  \/ \E a \in Accruals : CheckBuyer(h, a)
  \/ SettleCommit(h) \/ SettleCommitLostAck(h) \/ SettleAbort(h)
  \/ \E written \in BOOLEAN : Fail(h, written)
  \/ Mark(h)

SettlementNext ==
  \/ \E t \in Trades, x \in Terms, published \in BOOLEAN : CreateTrade(t, x, published)
  \/ \E t \in Trades, h \in Handlers : Deliver(h, t)
  \/ \E t \in Trades : CommitOffset(t)
  \/ \E h \in Handlers : HandlerStep(h)
  \/ \E h \in Handlers : Crash(h) \/ Expire(h) \/ Cancel(h)

-----------------------------------------------------------------------------
(* Properties of the trades.                                               *)

\* A trade is settled exactly when the journal holds one trade.settled event for
\* it: retries, redeliveries and crashes between COMMIT and the offset commit never
\* move the bonds and the money of a trade a second time, nor of a failed trade.
SettledExactlyOnce ==
  \A t \in Trades : settled[t] = IF trade[t].status = "settled" THEN 1 ELSE 0

\* Strengthening: a published trade exists, and an existing one has its terms.
Published ==
  \A t \in Trades :
    /\ msg[t].at # "none" \/ msg[t].owner # NoOwner => trade[t].status # "none"
    /\ trade[t].status # "none" => trade[t].terms \in Terms

\* Strengthening: a handler that is not idle works on a published trade.
HandlersBusy ==
  \A h \in Handlers : handler[h].pc # "idle" =>
    /\ handler[h].trade \in Trades
    /\ trade[handler[h].trade].status # "none"

\* Strengthening: while sessions do not expire, a message is with one handler.
SoleOwner ==
  \A h \in Handlers : handler[h].pc # "idle" =>
    msg[handler[h].trade] = [at |-> "session", owner |-> h]

\* Strengthening: past the status check, the trade is still undecided.
StillSubmitted ==
  \A h \in Handlers : handler[h].pc \in {"issue", "seller", "buyer", "tx", "fail"} =>
    trade[handler[h].trade].status = "submitted"

\* A message leaves the topic for good only when its trade was decided or the
\* message was dead-lettered (README: retry and dead letter queue).
NoTradeDropped ==
  \A t \in Trades : msg[t].at = "done" =>
    trade[t].status \in {"settled", "failed"} \/ t \in dlq

\* Only two things let go of an undecided trade whose message is in no dead letter
\* queue: a session that ended under its handler, and, after MaxRetry failed attempts,
\* a dead letter that was not sent.  No crash, retry, redelivery, expired session or
\* lost acknowledgement does.
Decided(t) == trade[t].status \in {"settled", "failed"}
Accounted(t) == Decided(t) \/ t \in dlq \/ \E why \in {"unsent", "cut"} : <<t, why>> \in lost
TradesAccountedFor == \A t \in Trades : msg[t].at = "done" => Accounted(t)

\* Strengthening: so is the trade of a handler about to mark, and of a marked message.
MarkedAccounted ==
  /\ \A h \in Handlers : handler[h].pc = "mark" => Accounted(handler[h].trade)
  /\ \A t \in Trades : msg[t].at \in {"marked", "done"} => Accounted(t)

\* The buyer's balance is checked, so a settlement never leaves the buyer in debt
\* (README: settlement checks the buyer's balance).
BuyerCanPay ==
  [][\A t \in Trades : settled'[t] > settled[t] => balance'[trade[t].terms.buyer] >= 0]_settlementVars

\* The trades and the positions implement the register of holders.
Register == INSTANCE BondRegister WITH
  book <- [t \in Trades |-> trade[t].status],
  terms <- [t \in Trades |-> trade[t].terms],
  holding <- position,
  issued <- issue.placed
RegisterImplemented == Register!Spec
=============================================================================
