-------------------------------- MODULE Bonds ---------------------------------
(***************************************************************************)
(* The whole of 03-cfa-bonds: the API handlers, the settlement workers and *)
(* the two scheduled workers on one ledger.                                *)
(***************************************************************************)
EXTENDS BondSettlement, BondPayouts

vars == <<ledgerVars, settlementVars, payoutVars>>

TypeOK == LedgerTypeOK /\ SettlementTypeOK /\ PayoutTypeOK

Init == LedgerInit /\ SettlementInit /\ PayoutInit

Next ==
  \/ LedgerNext /\ UNCHANGED <<settlementVars, payoutVars>>
  \/ SettlementNext /\ UNCHANGED payoutVars
  \/ PayoutNext /\ UNCHANGED settlementVars

Spec == Init /\ [][Next]_vars

\* A handler's goroutine keeps running, the group keeps delivering what is in the
\* topic, and the client commits marked offsets.  Faults are not fair, and neither
\* is any particular outcome of a step.
Fairness ==
  /\ \A h \in Handlers : WF_vars(HandlerStep(h) /\ UNCHANGED payoutVars)
  /\ WF_vars(\E t \in Trades, h \in Handlers : Deliver(h, t) /\ UNCHANGED payoutVars)
  /\ WF_vars(\E t \in Trades : CommitOffset(t) /\ UNCHANGED payoutVars)

FairSpec == Spec /\ Fairness

\* A trade whose message reached the topic is eventually settled, failed or
\* dead-lettered, unless its session was cut off or its dead letter not sent; and
\* in any case its offset is committed, so that the partition never stalls.
TradeHandled ==
  \A t \in Trades : msg[t].at = "topic" ~> msg[t].at = "done" /\ Accounted(t)
=============================================================================
