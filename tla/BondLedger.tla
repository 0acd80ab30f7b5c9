------------------------------ MODULE BondLedger ------------------------------
(***************************************************************************)
(* The PostgreSQL ledger of 03-cfa-bonds for one bond issue, and the API   *)
(* handlers that write it directly: createIssue, updateIssueStatus,        *)
(* investorDeposit and placeIssue.  Issues share only investor balances,   *)
(* which deposits already move freely, so one issue is modelled.           *)
(*                                                                         *)
(* A SERIALIZABLE transaction is one step that commits all its writes, or  *)
(* an abort step that writes nothing.  What a handler reads before the     *)
(* transaction begins is a step of its own: it may be stale at commit.     *)
(***************************************************************************)
EXTENDS Integers, FiniteSets, Functions

CONSTANTS
  Investors,      \* rows of the investors table
  Requests,       \* API goroutines that may be inside placeIssue
  Total,          \* bond_issues.total_quantity
  NumCoupons,     \* length of the coupon schedule; coupon c falls due on day c
  MaturityDay,    \* bond_issues.maturity_date, in days of the model's clock
  Nominal,        \* bond_issues.nominal
  CouponPerUnit,  \* nominal * rate / frequency
  PlacePrice,     \* price of the primary placement
  PlaceQty,       \* quantities an investor asks for
  DepositAmount,  \* amount of one deposit
  MaxDeposits,    \* bound: deposits of one investor
  LastDay         \* bound: last day of the model's calendar

Coupons == 1..NumCoupons

ASSUME LedgerAssumption ==
  /\ IsFiniteSet(Investors)
  /\ Total \in Nat \ {0}
  /\ NumCoupons \in Nat \ {0} /\ MaturityDay \in Nat
  /\ Nominal \in Nat \ {0} /\ CouponPerUnit \in Nat
  /\ PlacePrice \in Nat \ {0}
  /\ PlaceQty \subseteq Nat \ {0}
  /\ DepositAmount \in Nat /\ MaxDeposits \in Nat /\ LastDay \in Nat

VARIABLES
  issue,      \* bond_issues row: status and placed_quantity
  position,   \* positions.quantity of each investor
  balance,    \* investors.balance
  coupon,     \* coupon_schedule.status; "none" before the row is inserted
  today,      \* the calendar day
  placing,    \* what each placeIssue call decided on before its transaction
  cash        \* the journal's cash entries per investor: deposits, placements, coupons

ledgerVars == <<issue, position, balance, coupon, today, placing, cash>>

Statuses == {"absent", "draft", "placement", "active", "matured", "cancelled"}
NoRequest == [investor |-> "none", qty |-> 0]
PlaceRequest == [investor: Investors, qty: PlaceQty]

\* Type invariant of the ledger.  The CHECK (quantity >= 0) of positions and the
\* guard of IncrementPlaced are part of it; a balance has no CHECK and may be negative.
LedgerTypeOK ==
  /\ issue \in [status: Statuses, placed: 0..Total]
  /\ position \in [Investors -> Nat]
  /\ balance \in [Investors -> Int]
  /\ coupon \in [Coupons -> {"none", "scheduled", "paid"}]
  /\ today \in Nat
  /\ placing \in [Requests -> PlaceRequest \union {NoRequest}]
  /\ cash \in [Investors -> [deposits: Nat, placements: Nat, coupons: Nat]]

LedgerInit ==
  /\ issue = [status |-> "absent", placed |-> 0]
  /\ position = [i \in Investors |-> 0]
  /\ balance = [i \in Investors |-> 0]
  /\ coupon = [c \in Coupons |-> "none"]
  /\ today = 0
  /\ placing = [r \in Requests |-> NoRequest]
  /\ cash = [i \in Investors |-> [deposits |-> 0, placements |-> 0, coupons |-> 0]]

-----------------------------------------------------------------------------
(* Issue lifecycle: createIssue and updateIssueStatus.                     *)

\* models.CanTransition
CanTransition(from, to) ==
  <<from, to>> \in { <<"draft", "placement">>, <<"draft", "cancelled">>,
                     <<"placement", "active">>, <<"placement", "cancelled">>,
                     <<"active", "matured">> }

\* createIssue inserts the issue and then, outside any transaction, its whole
\* coupon schedule; a failure in between leaves an issue without coupons.  The
\* caller learns the issue's id only when the handler returns.
CreateIssue(scheduled) ==
  /\ issue.status = "absent"
  /\ issue' = [issue EXCEPT !.status = "draft"]
  /\ coupon' = IF scheduled THEN [c \in Coupons |-> "scheduled"] ELSE coupon
  /\ UNCHANGED <<position, balance, today, placing, cash>>

\* updateIssueStatus reads the status, checks the transition and updates the row
\* WHERE status is still the one it read: a stale read changes nothing, so read
\* and update are one step.
UpdateIssueStatus(next) ==
  /\ CanTransition(issue.status, next)
  /\ issue' = [issue EXCEPT !.status = next]
  /\ UNCHANGED <<position, balance, coupon, today, placing, cash>>

-----------------------------------------------------------------------------
(* investorDeposit: one UPDATE balance = balance + amount.                 *)
InvestorDeposit(i) ==
  /\ cash[i].deposits < MaxDeposits * DepositAmount
  /\ balance' = [balance EXCEPT ![i] = @ + DepositAmount]
  /\ cash' = [cash EXCEPT ![i].deposits = @ + DepositAmount]
  /\ UNCHANGED <<issue, position, coupon, today, placing>>

-----------------------------------------------------------------------------
(* placeIssue: status and balance are checked before the transaction.      *)
PlaceRead(r, i, q) ==
  /\ placing[r] = NoRequest
  /\ issue.status = "placement"
  /\ balance[i] >= PlacePrice * q
  /\ placing' = [placing EXCEPT ![r] = [investor |-> i, qty |-> q]]
  /\ UNCHANGED <<issue, position, balance, coupon, today, cash>>

\* The guard of repo.IncrementPlaced's UPDATE.
FitsIssue(q) == issue.placed + q <= Total

\* Mutant: the activation forgets WHERE status = placement.
PlacedIssueAnyStatus(q) ==
  [issue EXCEPT !.placed = @ + q,
                !.status = IF issue.placed + q >= Total THEN "active" ELSE @]

\* The row after IncrementPlaced and the activation of a fully placed issue.
PlacedIssue(q) ==
  [issue EXCEPT !.placed = @ + q,
                !.status = IF issue.placed + q >= Total /\ @ = "placement"
                           THEN "active" ELSE @]

PlaceCommit(r) ==
  LET p == placing[r] IN
  /\ p # NoRequest
  /\ FitsIssue(p.qty)
  /\ issue' = PlacedIssue(p.qty)
  /\ balance' = [balance EXCEPT ![p.investor] = @ - PlacePrice * p.qty]
  /\ position' = [position EXCEPT ![p.investor] = @ + p.qty]
  /\ cash' = [cash EXCEPT ![p.investor].placements = @ + PlacePrice * p.qty]
  /\ placing' = [placing EXCEPT ![r] = NoRequest]
  /\ UNCHANGED <<coupon, today>>

\* The placement does not fit, loses a serialization conflict, or the API dies.
PlaceAbort(r) ==
  /\ placing[r] # NoRequest
  /\ placing' = [placing EXCEPT ![r] = NoRequest]
  /\ UNCHANGED <<issue, position, balance, coupon, today, cash>>

\* Days pass.
NextDay ==
  /\ today < LastDay
  /\ today' = today + 1
  /\ UNCHANGED <<issue, position, balance, coupon, placing, cash>>

LedgerNext ==
  \/ \E scheduled \in BOOLEAN : CreateIssue(scheduled)
  \/ \E next \in Statuses : UpdateIssueStatus(next)
  \/ \E i \in Investors : InvestorDeposit(i)
  \/ \E r \in Requests, i \in Investors, q \in PlaceQty : PlaceRead(r, i, q)
  \/ \E r \in Requests : PlaceCommit(r) \/ PlaceAbort(r)
  \/ NextDay

-----------------------------------------------------------------------------
(* Properties of the ledger under whatever writes it.                      *)

\* Closed issues stay closed: no handler or worker revives a matured or a
\* cancelled issue, whatever status it had read before its transaction.
ClosedForGood ==
  [][issue.status \in {"matured", "cancelled"} => issue'.status = issue.status]_issue
=============================================================================
