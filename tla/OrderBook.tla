------------------------------ MODULE OrderBook -------------------------------
(***************************************************************************)
(* The data structure of 08-matching-engine's OrderBook: the orders it     *)
(* owns by id, and for each side the price levels, each a FIFO queue of    *)
(* ids with a cached total quantity.  A book is a value; the operators are *)
(* the bodies of PriceLevel and OrderBook, to be used under the engine's   *)
(* lock.                                                                   *)
(***************************************************************************)
EXTENDS Integers, FiniteSets, SequencesExt

CONSTANTS
  Prices,      \* limit prices, in minimal units; a Price is a 64-bit integer
  Quantities   \* order quantities

ASSUME BookAssumption ==
  Prices \subseteq Int /\ IsFiniteSet(Prices) /\ Quantities \subseteq Nat \ {0}

Sides == {"buy", "sell"}
Types == {"limit", "market"}
Opposite(side) == IF side = "buy" THEN "sell" ELSE "buy"

\* The effective price of a market order.
NoPrice == 0

Order == [side: Sides, type: Types, price: Prices \union {NoPrice},
          quantity: Quantities, remaining: Nat]

Nothing == [x \in {} |-> x]
EmptyBook == [orders |-> Nothing, levels |-> [s \in Sides |-> Nothing]]

Put(f, k, v) == [x \in DOMAIN f \union {k} |-> IF x = k THEN v ELSE f[x]]
Drop(f, k) == Restrict(f, DOMAIN f \ {k})

-----------------------------------------------------------------------------
(* PriceLevel                                                              *)

NewLevel == [queue |-> << >>, total |-> 0]

Add(level, id, remaining) ==
  [queue |-> Append(level.queue, id), total |-> level.total + remaining]

\* remove: the first order with this id, if there is one.
RemoveOrder(level, id, remaining) ==
  LET found == {k \in DOMAIN level.queue : level.queue[k] = id} IN
  IF found = {} THEN level
  ELSE [queue |-> RemoveAt(level.queue, Min(found)), total |-> level.total - remaining]

\* reduce, and pop_front when the front order is filled.
Consume(level, exec, filled) ==
  [queue |-> IF filled THEN Tail(level.queue) ELSE level.queue,
   total |-> level.total - exec]

-----------------------------------------------------------------------------
(* The two maps of levels: std::greater for bids, std::less for asks.      *)

\* q does not come before p on this side.
AtLeastAsGood(side, p, q) == IF side = "buy" THEN p >= q ELSE p <= q

BestPrice(book, side) ==
  CHOOSE p \in DOMAIN book.levels[side] :
    \A q \in DOMAIN book.levels[side] : AtLeastAsGood(side, p, q)

\* Store a level, and erase it when its queue is empty.
SetLevel(levels, p, level) ==
  IF level.queue = << >> THEN Drop(levels, p) ELSE Put(levels, p, level)

\* try_emplace of rest_order: the level at p, created if absent.
LevelAt(levels, p) == IF p \in DOMAIN levels THEN levels[p] ELSE NewLevel

-----------------------------------------------------------------------------
(* OrderBook                                                               *)

\* A new order enters the map of owned orders before it is matched.
Enter(book, id, order) == [book EXCEPT !.orders = Put(@, id, order)]

\* Does a limit order of this side and price reach the opposite price p?
Crosses(side, price, p) == IF side = "buy" THEN p <= price ELSE p >= price

\* The loop condition of match_against for the order with this id.
CanMatch(book, id) ==
  LET o == book.orders[id]
      opposite == book.levels[Opposite(o.side)]
  IN /\ o.remaining > 0
     /\ DOMAIN opposite # {}
     /\ o.type = "limit" => Crosses(o.side, o.price, BestPrice(book, Opposite(o.side)))

\* Mutant: the newest order of the level is matched first.
CounterpartLast(book, id) ==
  LET s == Opposite(book.orders[id].side)
      queue == book.levels[s][BestPrice(book, s)].queue
  IN queue[Len(queue)]

\* The front of the best opposite level.
Counterpart(book, id) ==
  LET s == Opposite(book.orders[id].side) IN
  Head(book.levels[s][BestPrice(book, s)].queue)

\* Mutant: the resting order's remaining quantity is not looked at.
ExecQuantityUnbounded(book, id) == book.orders[id].remaining

ExecQuantity(book, id) ==
  LET mine == book.orders[id].remaining
      theirs == book.orders[Counterpart(book, id)].remaining
  IN IF mine <= theirs THEN mine ELSE theirs

\* One execution: both orders and the level shrink; a filled resting order is
\* popped and disowned, an emptied level erased.
Execute(book, id) ==
  LET resting == Counterpart(book, id)
      exec == ExecQuantity(book, id)
      filled == book.orders[resting].remaining = exec
      s == book.orders[resting].side
      p == BestPrice(book, s)
      reduced == [x \in DOMAIN book.orders |->
                    IF x \in {id, resting}
                      THEN [book.orders[x] EXCEPT !.remaining = @ - exec]
                      ELSE book.orders[x]]
  IN [orders |-> IF filled THEN Drop(reduced, resting) ELSE reduced,
      levels |-> [book.levels EXCEPT
                    ![s] = SetLevel(@, p, Consume(@[p], exec, filled))]]

\* rest_order: what is left of a limit order joins the end of its level's queue.
Rest(book, id) ==
  LET o == book.orders[id] IN
  [book EXCEPT !.levels[o.side] =
     Put(@, o.price, Add(LevelAt(@, o.price), id, o.remaining))]

\* Mutant: what is left of a market order is kept as well.
SettleOrderAlwaysRests(book, id) ==
  IF book.orders[id].remaining > 0 THEN Rest(book, id)
  ELSE [book EXCEPT !.orders = Drop(@, id)]

\* The end of add_order: a filled order and the rest of a market order are disowned.
SettleOrder(book, id) ==
  IF book.orders[id].remaining > 0 /\ book.orders[id].type = "limit" THEN Rest(book, id)
  ELSE [book EXCEPT !.orders = Drop(@, id)]

\* Mutant: a market order that is not filled is always reported as cancelled.
FinalStatusMarketCancelled(book, id, traded) ==
  IF book.orders[id].remaining = 0 THEN "filled"
  ELSE IF book.orders[id].type = "market" THEN "cancelled"
  ELSE IF traded THEN "partially_filled" ELSE "new"

\* The status add_order reports.
FinalStatus(book, id, traded) ==
  IF book.orders[id].remaining = 0 THEN "filled"
  ELSE IF traded THEN "partially_filled"
  ELSE IF book.orders[id].type = "market" THEN "cancelled"
  ELSE "new"

\* cancel_order of an order the book owns.
CancelOrder(book, id) ==
  LET o == book.orders[id]
      without(levels) == IF o.price \in DOMAIN levels
                         THEN SetLevel(levels, o.price, RemoveOrder(levels[o.price], id, o.remaining))
                         ELSE levels
  IN [orders |-> Drop(book.orders, id),
      levels |-> [book.levels EXCEPT ![o.side] = without(@)]]
=============================================================================
