-------------------------- MODULE PriceTimePriority ---------------------------
(***************************************************************************)
(* What 08-matching-engine promises: resting orders are a set, an incoming *)
(* order trades with the best of them - by price, then by time - at the    *)
(* resting order's price, until it is filled or nothing crosses; what is   *)
(* left of a limit order rests, what is left of a market order is dropped. *)
(***************************************************************************)
EXTENDS Integers, Sequences

CONSTANTS Instruments, Prices, Quantities, OrderIds, NoOrder

VARIABLES
  resting,  \* resting orders: id, instrument, side, price and remaining quantity
  active,   \* the order being matched, or NoOrder
  used,     \* ids given out
  prints    \* every trade, oldest first

priorityVars == <<resting, active, used, prints>>

Init == resting = {} /\ active = NoOrder /\ used = {} /\ prints = << >>

\* A limit order reaches a price, a market order reaches every price.
Reaches(o, price) ==
  \/ o.type = "market"
  \/ o.side = "buy" /\ price <= o.price
  \/ o.side = "sell" /\ price >= o.price

Candidates(o) ==
  {r \in resting : r.inst = o.inst /\ r.side # o.side /\ Reaches(o, r.price)}

\* r has priority over q: a better price, or the same price and an earlier id.
Before(r, q) ==
  \/ IF r.side = "buy" THEN r.price > q.price ELSE r.price < q.price
  \/ r.price = q.price /\ r.id <= q.id

Arrive(o) ==
  /\ active = NoOrder
  /\ \A id \in used : id < o.id
  /\ active' = o
  /\ used' = used \union {o.id}
  /\ UNCHANGED <<resting, prints>>

\* The active order trades n with r, the first of its candidates.
Trade(r, n) ==
  /\ active # NoOrder
  /\ r \in Candidates(active) /\ \A q \in Candidates(active) : Before(r, q)
  /\ n > 0 /\ n <= active.remaining /\ n <= r.remaining
  /\ n = active.remaining \/ n = r.remaining
  /\ active' = [active EXCEPT !.remaining = @ - n]
  /\ resting' = IF n = r.remaining THEN resting \ {r}
                ELSE (resting \ {r}) \union {[r EXCEPT !.remaining = @ - n]}
  /\ prints' = Append(prints, [inst |-> r.inst, price |-> r.price, quantity |-> n,
                               buy |-> IF r.side = "buy" THEN r.id ELSE active.id,
                               sell |-> IF r.side = "buy" THEN active.id ELSE r.id])
  /\ UNCHANGED used

\* Nothing crosses any more: the order leaves, and a limit order rests.
Close ==
  /\ active # NoOrder
  /\ active.remaining = 0 \/ Candidates(active) = {}
  /\ active' = NoOrder
  /\ resting' = IF active.remaining > 0 /\ active.type = "limit"
                THEN resting \union {active} ELSE resting
  /\ UNCHANGED <<used, prints>>

Withdraw(r) ==
  /\ active = NoOrder
  /\ resting' = resting \ {r}
  /\ UNCHANGED <<active, used, prints>>

Next ==
  \/ \E id \in OrderIds, inst \in Instruments, side \in {"buy", "sell"}, q \in Quantities :
       \/ \E p \in Prices : Arrive([id |-> id, inst |-> inst, side |-> side, type |-> "limit",
                                    price |-> p, remaining |-> q])
       \/ Arrive([id |-> id, inst |-> inst, side |-> side, type |-> "market",
                  price |-> 0, remaining |-> q])
  \/ active # NoOrder /\ \E r \in Candidates(active), n \in 1..active.remaining : Trade(r, n)
  \/ Close
  \/ \E r \in resting : Withdraw(r)

Spec == Init /\ [][Next]_priorityVars
=============================================================================
