----------------------------- MODULE BondRegister -----------------------------
(***************************************************************************)
(* What 03-cfa-bonds promises about ownership: a trade is decided once,    *)
(* and the register of holders changes only by placements, by trades being *)
(* settled - each at the moment it is decided - and by redemption.         *)
(***************************************************************************)
EXTENDS Integers

CONSTANTS Investors, Trades, Terms, Total

VARIABLES book, terms, holding, issued

registerVars == <<book, terms, holding, issued>>

Init ==
  /\ book = [t \in Trades |-> "none"]
  /\ terms \in [Trades -> [seller: {"none"}, buyer: {"none"}, qty: {0}, price: {0}]]
  /\ holding = [i \in Investors |-> 0]
  /\ issued = 0

Open(t, x) ==
  /\ book[t] = "none"
  /\ book' = [book EXCEPT ![t] = "submitted"]
  /\ terms' = [terms EXCEPT ![t] = x]
  /\ UNCHANGED <<holding, issued>>

Settle(t) ==
  /\ book[t] = "submitted"
  /\ holding[terms[t].seller] >= terms[t].qty
  /\ book' = [book EXCEPT ![t] = "settled"]
  /\ holding' = [holding EXCEPT ![terms[t].seller] = @ - terms[t].qty,
                                ![terms[t].buyer] = @ + terms[t].qty]
  /\ UNCHANGED <<terms, issued>>

Reject(t) ==
  /\ book[t] = "submitted"
  /\ book' = [book EXCEPT ![t] = "failed"]
  /\ UNCHANGED <<terms, holding, issued>>

Place(i, q) ==
  /\ issued + q <= Total
  /\ issued' = issued + q
  /\ holding' = [holding EXCEPT ![i] = @ + q]
  /\ UNCHANGED <<book, terms>>

Redeem ==
  /\ holding' = [i \in Investors |-> 0]
  /\ UNCHANGED <<book, terms, issued>>

Next ==
  \/ \E t \in Trades, x \in Terms : Open(t, x)
  \/ \E t \in Trades : Settle(t) \/ Reject(t)
  \/ \E i \in Investors, q \in 1..Total : Place(i, q)
  \/ Redeem

Spec == Init /\ [][Next]_registerVars
=============================================================================
