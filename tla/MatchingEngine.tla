---------------------------- MODULE MatchingEngine ----------------------------
(***************************************************************************)
(* MatchingEngine of 08-matching-engine: one order book per instrument and *)
(* a bounded queue of recent trades, behind one reader-writer lock.        *)
(* submit_order holds the lock exclusively: its steps - entering the       *)
(* order, each execution, and settling what is left - are separate actions *)
(* here, and everything else waits until the submission is over.           *)
(***************************************************************************)
EXTENDS OrderBook

CONSTANTS
  Instruments,
  Capacity,    \* recent_trades_capacity, at least 1
  MaxOrders    \* bound: orders submitted in a behaviour

ASSUME EngineAssumption == Capacity \in Nat \ {0} /\ MaxOrders \in Nat

VARIABLES
  books,      \* books_: instrument -> book, created by the first order
  nextOrder,  \* g_order_counter
  submitting, \* the submission that holds the lock: instrument, order id, its trades
  recent,     \* recent_trades_
  trades,     \* every trade, oldest first; its index is the trade's id
  replies     \* order id -> what submit_order returned, and the quantity asked for

engineVars == <<books, nextOrder, submitting, recent, trades, replies>>

OrderIds == 1..MaxOrders
None == [inst |-> "none", id |-> 0, trades |-> << >>]
LockFree == submitting = None

Trade == [id: Nat, inst: Instruments, price: Prices, quantity: Nat \ {0},
          buy: OrderIds, sell: OrderIds]

LevelsTypeOK(levels) ==
  /\ DOMAIN levels \subseteq Prices
  /\ \A p \in DOMAIN levels : levels[p].queue \in Seq(OrderIds) /\ levels[p].total \in Int

TypeOK ==
  /\ DOMAIN books \subseteq Instruments
  /\ \A i \in DOMAIN books :
       /\ DOMAIN books[i].orders \subseteq OrderIds
       /\ \A id \in DOMAIN books[i].orders : books[i].orders[id] \in Order
       /\ \A s \in Sides : LevelsTypeOK(books[i].levels[s])
  /\ nextOrder \in 1..(MaxOrders + 1)
  /\ \/ LockFree
     \/ submitting.inst \in DOMAIN books /\ submitting.id \in DOMAIN books[submitting.inst].orders
  /\ recent \in Seq(Trade) /\ Len(recent) <= Capacity
  /\ trades \in Seq(Trade)
  /\ DOMAIN replies \subseteq OrderIds

Init ==
  /\ books = Nothing
  /\ nextOrder = 1
  /\ submitting = None
  /\ recent = << >>
  /\ trades = << >>
  /\ replies = Nothing

-----------------------------------------------------------------------------
(* submit_order                                                            *)

BookFor(inst) == IF inst \in DOMAIN books THEN books[inst] ELSE EmptyBook

\* Lock, book_for, next_order_id and try_emplace.
Submit(inst, type, side, price, quantity) ==
  /\ LockFree
  /\ nextOrder <= MaxOrders
  /\ books' = Put(books, inst, Enter(BookFor(inst), nextOrder,
                [side |-> side, type |-> type, price |-> price,
                 quantity |-> quantity, remaining |-> quantity]))
  /\ submitting' = [inst |-> inst, id |-> nextOrder, trades |-> << >>]
  /\ nextOrder' = nextOrder + 1
  /\ UNCHANGED <<recent, trades, replies>>

\* The trade of the next execution, at the price of the resting order.
NextTrade ==
  LET book == books[submitting.inst]
      o == book.orders[submitting.id]
      resting == Counterpart(book, submitting.id)
  IN [id |-> Len(trades) + 1, inst |-> submitting.inst,
      price |-> book.orders[resting].price,
      quantity |-> ExecQuantity(book, submitting.id),
      buy |-> IF o.side = "buy" THEN submitting.id ELSE resting,
      sell |-> IF o.side = "buy" THEN resting ELSE submitting.id]

\* One iteration of match_against.
Match ==
  /\ ~LockFree
  /\ CanMatch(books[submitting.inst], submitting.id)
  /\ books' = [books EXCEPT ![submitting.inst] = Execute(@, submitting.id)]
  /\ trades' = Append(trades, NextTrade)
  /\ submitting' = [submitting EXCEPT !.trades = Append(@, NextTrade)]
  /\ UNCHANGED <<nextOrder, recent, replies>>

\* push_back of each trade, pop_front beyond the capacity.
Remember(queue, new) ==
  LET all == queue \o new IN
  SubSeq(all, Max({1, Len(all) - Capacity + 1}), Len(all))

\* The end of add_order and of submit_order: rest or disown, report, unlock.
Finish ==
  LET book == books[submitting.inst]
      id == submitting.id
  IN /\ ~LockFree
     /\ ~CanMatch(book, id)
     /\ books' = [books EXCEPT ![submitting.inst] = SettleOrder(@, id)]
     /\ recent' = Remember(recent, submitting.trades)
     /\ replies' = Put(replies, id,
                       [status |-> FinalStatus(book, id, submitting.trades # << >>),
                        type |-> book.orders[id].type,
                        quantity |-> book.orders[id].quantity,
                        trades |-> submitting.trades])
     /\ submitting' = None
     /\ UNCHANGED <<nextOrder, trades>>

-----------------------------------------------------------------------------
(* cancel_order; an unknown order or instrument changes nothing.           *)
Cancel(inst, id) ==
  /\ LockFree
  /\ inst \in DOMAIN books /\ id \in DOMAIN books[inst].orders
  /\ books' = [books EXCEPT ![inst] = CancelOrder(@, id)]
  /\ UNCHANGED <<nextOrder, submitting, recent, trades, replies>>

Next ==
  \/ \E inst \in Instruments, side \in Sides, q \in Quantities :
       \/ \E p \in Prices : Submit(inst, "limit", side, p, q)
       \/ Submit(inst, "market", side, NoPrice, q)
  \/ Match
  \/ Finish
  \/ \E inst \in Instruments, id \in OrderIds : Cancel(inst, id)

Spec == Init /\ [][Next]_engineVars

-----------------------------------------------------------------------------
(* Queries, under the shared lock.                                         *)

\* The trades of ts that are in S, in their order.
Among(ts, S) ==
  LET kept[n \in 0..Len(ts)] ==
        IF n = 0 THEN << >>
        ELSE IF ts[n] \in S THEN Append(kept[n - 1], ts[n]) ELSE kept[n - 1]
  IN kept[Len(ts)]

TradesIn(inst) == {t \in Trade : t.inst = inst}

GetRecentTrades(inst, limit) ==
  LET ours == Among(Reverse(recent), TradesIn(inst)) IN
  SubSeq(ours, 1, Min({limit, Len(ours)}))

\* The order in which a map of levels is traversed: best price first.
BestFirst(side, prices) ==
  CHOOSE order \in [1..Cardinality(prices) -> prices] :
    \A j, k \in DOMAIN order :
      j < k => order[j] # order[k] /\ AtLeastAsGood(side, order[j], order[k])

\* The levels of one side, as snapshot(depth) reports them.
Snapshot(inst, side, depth) ==
  LET levels == BookFor(inst).levels[side]
      byPrice == BestFirst(side, DOMAIN levels)
  IN [k \in 1..Min({depth, Cardinality(DOMAIN levels)}) |->
        [price |-> byPrice[k], quantity |-> levels[byPrice[k]].total,
         count |-> Len(levels[byPrice[k]].queue)]]

-----------------------------------------------------------------------------
(* Properties.                                                             *)

\* The orders of a book that are in its queues: all it owns but the one in hand.
RestingIds(inst) == DOMAIN BookFor(inst).orders \ {submitting.id}

\* The queues hold pointers into the map of owned orders: every resting order is in
\* exactly one queue, that of its side and price, once; queues are in order of
\* arrival; no level is empty; what rests is a limit order with quantity left.
BookSound ==
  \A i \in DOMAIN books :
    LET book == books[i] IN
    /\ \A id \in RestingIds(i) :
         /\ book.orders[id].remaining > 0 /\ book.orders[id].type = "limit"
         /\ book.orders[id].price \in DOMAIN book.levels[book.orders[id].side]
         /\ id \in Range(book.levels[book.orders[id].side][book.orders[id].price].queue)
    /\ \A s \in Sides : \A p \in DOMAIN book.levels[s] :
         LET queue == book.levels[s][p].queue IN
         /\ queue # << >>
         /\ \A k \in DOMAIN queue :
              /\ queue[k] \in RestingIds(i)
              /\ book.orders[queue[k]].side = s /\ book.orders[queue[k]].price = p
         /\ \A j, k \in DOMAIN queue : j < k => queue[j] < queue[k]

\* Between submissions no bid reaches an ask: everything that could trade has.
NeverCrossed ==
  LockFree => \A i \in DOMAIN books :
    \A bid \in DOMAIN books[i].levels["buy"], ask \in DOMAIN books[i].levels["sell"] : bid < ask

\* The book a client is shown, whatever depth it asks for, is the sum of the live
\* orders at each price: executions and cancellations keep the cached totals right.
SnapshotTrue ==
  LockFree => \A i \in Instruments, s \in Sides, depth \in 1..Cardinality(Prices) :
    LET snap == Snapshot(i, s, depth)
        at(p) == {id \in RestingIds(i) : BookFor(i).orders[id].side = s
                                          /\ BookFor(i).orders[id].price = p}
    IN \A k \in DOMAIN snap :
         /\ snap[k].count = Cardinality(at(snap[k].price))
         /\ snap[k].quantity = SumFunction([id \in at(snap[k].price) |->
                                              BookFor(i).orders[id].remaining])
         /\ \A j \in 1..(k - 1) : snap[j].price # snap[k].price

\* The books hold together: what is owned and what is queued agree, and nothing
\* that could trade is left untraded.
BooksSound == TypeOK /\ BookSound /\ NeverCrossed

\* The trades that an order has a part in, and what trades amount to.
TradesBy(id) == {t \in Trade : id \in {t.buy, t.sell}}
Filled(ts) == SumFunction([k \in DOMAIN ts |-> ts[k].quantity])

\* The status a client reads is what its trades amount to, and its trades are all
\* the trades of the order so far.
ReplyTruthful ==
  [][\A id \in DOMAIN replies' \ DOMAIN replies :
       LET r == replies'[id]
           filled == Filled(r.trades)
       IN /\ r.trades = Among(trades', TradesBy(id))
          /\ r.status = IF filled = r.quantity THEN "filled"
                        ELSE IF filled > 0 THEN "partially_filled"
                        ELSE IF r.type = "market" THEN "cancelled" ELSE "new"]_engineVars

Executed(id) == Filled(Among(trades, TradesBy(id)))

\* No order executes for more than its quantity over all the submissions it meets,
\* and an order still in the book has exactly the unexecuted rest left.
NoOverfill ==
  /\ \A id \in DOMAIN replies : Executed(id) <= replies[id].quantity
  /\ \A i \in DOMAIN books : \A id \in DOMAIN books[i].orders :
       books[i].orders[id].quantity - books[i].orders[id].remaining = Executed(id)

\* TRADES reports an instrument's newest trades, newest first and without a gap,
\* whatever trades of other instruments share the bounded queue.
RecentTradesTrue ==
  LockFree => \A i \in Instruments, limit \in 1..(Capacity + 1) :
    LET shown == GetRecentTrades(i, limit)
        all == Reverse(Among(trades, TradesIn(i)))
    IN /\ IsPrefix(shown, all)
       /\ Len(trades) <= Capacity => Len(shown) = Min({limit, Len(all)})

\* The figures clients read are right: the executions of each order add up, and the
\* levels and the recent trades shown are those of the live orders and of all trades.
FiguresTrue == NoOverfill /\ RecentTradesTrue /\ SnapshotTrue

\* The engine implements price-time priority.
OrderView(inst, id) ==
  LET o == BookFor(inst).orders[id] IN
  [id |-> id, inst |-> inst, side |-> o.side, type |-> o.type, price |-> o.price,
   remaining |-> o.remaining]

RestingOrders == UNION {{OrderView(i, id) : id \in RestingIds(i)} : i \in Instruments}

ActiveOrder == IF LockFree THEN None ELSE OrderView(submitting.inst, submitting.id)

Priority == INSTANCE PriceTimePriority WITH
  NoOrder <- None,
  resting <- RestingOrders,
  active <- ActiveOrder,
  used <- 1..(nextOrder - 1),
  prints <- [k \in DOMAIN trades |-> [inst |-> trades[k].inst, price |-> trades[k].price,
               quantity |-> trades[k].quantity, buy |-> trades[k].buy, sell |-> trades[k].sell]]
PriceTimePriorityKept == Priority!Spec
=============================================================================
