---------------------------- MODULE MatchingProofs ----------------------------
(***************************************************************************)
(* Theorems about 08-matching-engine, for any instruments, prices,         *)
(* quantities and number of orders: the books are sound and never crossed, *)
(* the engine implements price-time priority, and what clients are told -  *)
(* fills, statuses, snapshots and recent trades - is right.                *)
(***************************************************************************)
EXTENDS MatchingEngine, SumProofs, SequenceTheorems, TLAPS

-----------------------------------------------------------------------------
(* Partial functions, and the operators that change them.                  *)

PFun(A, B) == UNION {[D -> B] : D \in SUBSET A}

LEMMA PFunDef ==
  ASSUME NEW A, NEW B, NEW f
  PROVE  f \in PFun(A, B) <=> f \in [DOMAIN f -> B] /\ DOMAIN f \subseteq A
  BY DEF PFun

LEMMA PutType == \A A, B : \A f \in PFun(A, B), k \in A, v \in B : Put(f, k, v) \in PFun(A, B)
<1> SUFFICES ASSUME NEW A, NEW B, NEW f \in PFun(A, B), NEW k \in A, NEW v \in B
             PROVE  Put(f, k, v) \in PFun(A, B)
  OBVIOUS
<1>1. f \in [DOMAIN f -> B] /\ DOMAIN f \subseteq A
  BY PFunDef
<1>2. Put(f, k, v) \in [DOMAIN f \union {k} -> B] /\ DOMAIN Put(f, k, v) = DOMAIN f \union {k}
  BY <1>1 DEF Put
<1> QED
  BY <1>1, <1>2, PFunDef

LEMMA PutDomain == \A f, k, v : DOMAIN Put(f, k, v) = DOMAIN f \union {k}
  BY DEF Put
LEMMA PutNew == \A f, k, v : Put(f, k, v)[k] = v
  BY DEF Put
LEMMA PutOld == \A f, k, v : \A x \in DOMAIN f : x # k => Put(f, k, v)[x] = f[x]
  BY DEF Put

LEMMA PutFacts ==
  ASSUME NEW A, NEW B, NEW f \in PFun(A, B), NEW k \in A, NEW v \in B, NEW g, g = Put(f, k, v)
  PROVE  /\ g \in PFun(A, B) /\ DOMAIN g = DOMAIN f \union {k} /\ g[k] = v
         /\ \A x \in DOMAIN f : x # k => g[x] = f[x]
<1>1. g \in PFun(A, B)
  BY PutType
<1>2. DOMAIN g = DOMAIN f \union {k}
  BY PutDomain
<1>3. g[k] = v
  BY PutNew
<1>4. \A x \in DOMAIN f : x # k => g[x] = f[x]
  BY PutOld
<1> QED
  BY <1>1, <1>2, <1>3, <1>4

LEMMA DropType == \A A, B : \A f \in PFun(A, B) : \A k : Drop(f, k) \in PFun(A, B)
<1> SUFFICES ASSUME NEW A, NEW B, NEW f \in PFun(A, B), NEW k PROVE Drop(f, k) \in PFun(A, B)
  OBVIOUS
<1>1. f \in [DOMAIN f -> B] /\ DOMAIN f \subseteq A
  BY PFunDef
<1>2. Drop(f, k) \in [DOMAIN f \ {k} -> B] /\ DOMAIN Drop(f, k) = DOMAIN f \ {k}
  BY <1>1 DEF Drop, Restrict
<1> QED
  BY <1>1, <1>2, PFunDef

LEMMA DropDomain == \A f, k : DOMAIN Drop(f, k) = DOMAIN f \ {k}
  BY DEF Drop, Restrict
LEMMA DropOld == \A f, k : \A x \in DOMAIN f : x # k => Drop(f, k)[x] = f[x]
  BY DEF Drop, Restrict

LEMMA DropFacts ==
  ASSUME NEW A, NEW B, NEW f \in PFun(A, B), NEW k, NEW g, g = Drop(f, k)
  PROVE  /\ g \in PFun(A, B) /\ DOMAIN g = DOMAIN f \ {k}
         /\ \A x \in DOMAIN f : x # k => g[x] = f[x]
<1>1. g \in PFun(A, B)
  BY DropType
<1>2. DOMAIN g = DOMAIN f \ {k}
  BY DropDomain
<1>3. \A x \in DOMAIN f : x # k => g[x] = f[x]
  BY DropOld
<1> QED
  BY <1>1, <1>2, <1>3

-----------------------------------------------------------------------------
(* The queue of a level.                                                   *)

Increasing(q) == \A j, k \in DOMAIN q : j < k => q[j] < q[k]

\* Taking the front order away.
LEMMA TailQueue ==
  ASSUME NEW S, NEW q \in Seq(S), q # << >>, S \subseteq Int, Increasing(q)
  PROVE  /\ Tail(q) \in Seq(S) /\ Increasing(Tail(q)) /\ Head(q) \in S
         /\ \A x : (\E k \in DOMAIN Tail(q) : Tail(q)[k] = x)
                     <=> x # Head(q) /\ \E k \in DOMAIN q : q[k] = x
         /\ 1 \in DOMAIN q /\ Head(q) = q[1]
<1>1. /\ Len(q) \in Nat \ {0} /\ DOMAIN q = 1..Len(q)
      /\ \A k \in 1..Len(q) : q[k] \in S
  BY LenProperties, EmptySeq, ElementOfSeq
<1>2. /\ Tail(q) \in Seq(S) /\ Len(Tail(q)) = Len(q) - 1 /\ Head(q) = q[1]
      /\ \A k \in 1..Len(Tail(q)) : Tail(q)[k] = q[k + 1]
      /\ DOMAIN Tail(q) = 1..Len(Tail(q))
  BY <1>1, HeadTailProperties, LenProperties
<1>3. Increasing(Tail(q))
  BY <1>1, <1>2 DEF Increasing
<1>4. ASSUME NEW x
      PROVE  (\E k \in DOMAIN Tail(q) : Tail(q)[k] = x)
               <=> x # Head(q) /\ \E k \in DOMAIN q : q[k] = x
  <2>1. ASSUME NEW k \in DOMAIN Tail(q), Tail(q)[k] = x
        PROVE  x # Head(q) /\ \E j \in DOMAIN q : q[j] = x
    <3>1. k + 1 \in DOMAIN q /\ 1 \in DOMAIN q /\ 1 < k + 1 /\ q[k + 1] = x
      BY <1>1, <1>2, <2>1
    <3>2. q[1] < q[k + 1] /\ q[1] \in Int
      BY <1>1, <3>1 DEF Increasing
    <3> QED
      BY <1>2, <3>1, <3>2
  <2>2. ASSUME x # Head(q), NEW j \in DOMAIN q, q[j] = x
        PROVE  \E k \in DOMAIN Tail(q) : Tail(q)[k] = x
    <3>1. j # 1
      BY <1>2, <2>2
    <3>2. j - 1 \in DOMAIN Tail(q)
      BY <1>1, <1>2, <3>1
    <3>3. Tail(q)[j - 1] = q[(j - 1) + 1]
      BY <1>2, <3>2
    <3>4. (j - 1) + 1 = j
      BY <1>1
    <3> QED
      BY <2>2, <3>2, <3>3, <3>4
  <2> QED
    BY <2>1, <2>2
<1> QED
  BY <1>1, <1>2, <1>3, <1>4

\* An order that arrives last joins the end.
Joined(q, e, S, new) ==
  /\ new \in Seq(S) /\ Increasing(new) /\ new # << >>
  /\ \A x : (\E k \in DOMAIN new : new[k] = x) <=> x = e \/ \E k \in DOMAIN q : q[k] = x

LEMMA AppendQueue ==
  ASSUME NEW S, NEW q \in Seq(S), S \subseteq Int, Increasing(q), NEW e \in S,
         \A k \in DOMAIN q : q[k] < e
  PROVE  Joined(q, e, S, Append(q, e))
<1>1. /\ Len(q) \in Nat /\ DOMAIN q = 1..Len(q)
      /\ Append(q, e) \in Seq(S) /\ Append(q, e) # << >>
      /\ Len(Append(q, e)) = Len(q) + 1
      /\ \A k \in 1..Len(q) : Append(q, e)[k] = q[k]
      /\ Append(q, e)[Len(q) + 1] = e
      /\ DOMAIN Append(q, e) = 1..(Len(q) + 1)
  BY LenProperties, AppendProperties
<1>2. ASSUME NEW j \in DOMAIN Append(q, e), NEW k \in DOMAIN Append(q, e), j < k
      PROVE  Append(q, e)[j] < Append(q, e)[k]
  <2>1. j \in DOMAIN q /\ Append(q, e)[j] = q[j]
    BY <1>1, <1>2
  <2>2. CASE k = Len(q) + 1
    BY <1>1, <2>1, <2>2
  <2>3. CASE k # Len(q) + 1
    BY <1>1, <1>2, <2>1, <2>3 DEF Increasing
  <2> QED
    BY <2>2, <2>3
<1>3. ASSUME NEW x
      PROVE  (\E k \in DOMAIN Append(q, e) : Append(q, e)[k] = x)
               <=> x = e \/ \E k \in DOMAIN q : q[k] = x
  BY <1>1
<1> QED
  BY <1>1, <1>2, <1>3 DEF Increasing, Joined

\* An order that is cancelled leaves the queue; the others keep their places.
Removed(q, n, S, new) ==
  /\ new \in Seq(S) /\ Increasing(new)
  /\ \A x : (\E k \in DOMAIN new : new[k] = x) <=> x # q[n] /\ \E k \in DOMAIN q : q[k] = x

LEMMA RemoveQueue ==
  ASSUME NEW S, NEW q \in Seq(S), S \subseteq Int, Increasing(q), NEW n \in DOMAIN q
  PROVE  Removed(q, n, S, RemoveAt(q, n))
<1> DEFINE a == SubSeq(q, 1, n - 1)
           b == SubSeq(q, n + 1, Len(q))
           r == RemoveAt(q, n)
<1>1. /\ Len(q) \in Nat /\ DOMAIN q = 1..Len(q) /\ n \in 1..Len(q)
      /\ \A k \in 1..Len(q) : q[k] \in S
  BY LenProperties, ElementOfSeq
<1>2. /\ a \in Seq(S) /\ Len(a) = n - 1 /\ \A k \in 1..(n - 1) : a[k] = q[k]
  BY <1>1, SubSeqProperties
<1>3. /\ b \in Seq(S) /\ Len(b) = Len(q) - n
      /\ \A k \in 1..(Len(q) - n) : b[k] = q[k + n]
  BY <1>1, SubSeqProperties
<1>4. r = a \o b
  BY DEF RemoveAt
<1> HIDE DEF a, b, r
<1>5. /\ r \in Seq(S) /\ Len(r) = Len(q) - 1
      /\ \A k \in 1..(Len(q) - 1) : r[k] = IF k < n THEN q[k] ELSE q[k + 1]
  <2>1. /\ r \in Seq(S) /\ Len(r) = Len(a) + Len(b)
        /\ \A k \in 1..(Len(a) + Len(b)) : r[k] = IF k <= Len(a) THEN a[k] ELSE b[k - Len(a)]
    BY <1>2, <1>3, <1>4, ConcatProperties
  <2>2. Len(a) + Len(b) = Len(q) - 1
    BY <1>1, <1>2, <1>3
  <2>3. ASSUME NEW k \in 1..(Len(q) - 1)
        PROVE  r[k] = IF k < n THEN q[k] ELSE q[k + 1]
    <3>1. CASE k < n
      BY <1>1, <1>2, <2>1, <2>2, <3>1
    <3>2. CASE ~ (k < n)
      <4>1. r[k] = b[k - (n - 1)]
        BY <1>1, <1>2, <2>1, <2>2, <3>2
      <4>2. k - (n - 1) \in 1..(Len(q) - n) /\ k - (n - 1) + n = k + 1
        BY <1>1, <3>2
      <4> QED
        BY <1>3, <3>2, <4>1, <4>2
    <3> QED
      BY <3>1, <3>2
  <2> QED
    BY <2>1, <2>2, <2>3
<1>6. DOMAIN r = 1..(Len(q) - 1)
  BY <1>5, LenProperties
<1>7. Increasing(r)
  <2> SUFFICES ASSUME NEW j \in DOMAIN r, NEW k \in DOMAIN r, j < k PROVE r[j] < r[k]
    BY DEF Increasing
  <2> DEFINE at(i) == IF i < n THEN i ELSE i + 1
  <2>1. r[j] = q[at(j)] /\ r[k] = q[at(k)]
    BY <1>5, <1>6
  <2>2. at(j) \in DOMAIN q /\ at(k) \in DOMAIN q /\ at(j) < at(k)
    BY <1>1, <1>6
  <2> QED
    BY <2>1, <2>2 DEF Increasing
<1>8. ASSUME NEW k \in DOMAIN r PROVE r[k] # q[n] /\ \E j \in DOMAIN q : q[j] = r[k]
  <2>1. CASE k < n
    <3>1. k \in DOMAIN q /\ r[k] = q[k]
      BY <1>1, <1>5, <1>6, <2>1
    <3>2. q[k] < q[n] /\ q[k] \in Int /\ q[n] \in Int
      BY <1>1, <2>1, <3>1 DEF Increasing
    <3> QED
      BY <3>1, <3>2
  <2>2. CASE ~ (k < n)
    <3>1. k + 1 \in DOMAIN q /\ n < k + 1 /\ r[k] = q[k + 1]
      BY <1>1, <1>5, <1>6, <2>2
    <3>2. q[n] < q[k + 1] /\ q[k + 1] \in Int /\ q[n] \in Int
      BY <1>1, <3>1 DEF Increasing
    <3> QED
      BY <3>1, <3>2
  <2> QED
    BY <2>1, <2>2
<1>9. ASSUME NEW j \in DOMAIN q, q[j] # q[n] PROVE \E k \in DOMAIN r : r[k] = q[j]
  <2>1. CASE j < n
    BY <1>1, <1>5, <1>6, <2>1
  <2>2. CASE ~ (j < n)
    <3>1. j - 1 \in 1..(Len(q) - 1) /\ ~ (j - 1 < n) /\ (j - 1) + 1 = j
      BY <1>1, <1>9, <2>2
    <3> QED
      BY <1>5, <1>6, <3>1
  <2> QED
    BY <2>1, <2>2
<1> QED
  BY <1>5, <1>7, <1>8, <1>9 DEF r, Removed

-----------------------------------------------------------------------------
(* The best price of a side.                                               *)

LEMMA FiniteBest ==
  ASSUME NEW S, IsFiniteSet(S), S \subseteq Int, S # {}, NEW side \in Sides
  PROVE  \E p \in S : \A q \in S : AtLeastAsGood(side, p, q)
<1> DEFINE Best(T) == \E p \in T : \A q \in T : AtLeastAsGood(side, p, q)
           G == {T \in SUBSET S : T # {} => Best(T)}
<1>1. ASSUME NEW T \in SUBSET S, \A U \in SUBSET T : U # T => U \in G
      PROVE  T \in G
  <2> SUFFICES ASSUME T # {} PROVE Best(T)
    BY DEF G
  <2>1. PICK x \in T : TRUE
    OBVIOUS
  <2>2. CASE T = {x}
    <3>1. x \in Int
      OBVIOUS
    <3> QED
      BY <2>2, <3>1 DEF AtLeastAsGood
  <2>3. CASE T # {x}
    <3>1. T \ {x} \in SUBSET T /\ T \ {x} # T /\ T \ {x} # {}
      BY <2>1, <2>3
    <3>2. T \ {x} \in G
      BY <1>1, <3>1
    <3>3. PICK p \in T \ {x} : \A q \in T \ {x} : AtLeastAsGood(side, p, q)
      BY <3>1, <3>2
    <3>4. p \in Int /\ x \in Int /\ T \subseteq Int
      BY <2>1
    <3>5. CASE AtLeastAsGood(side, p, x)
      BY <3>3, <3>5
    <3>6. CASE ~ AtLeastAsGood(side, p, x)
      BY <2>1, <3>3, <3>4, <3>6 DEF AtLeastAsGood
    <3> QED
      BY <3>5, <3>6
  <2> QED
    BY <2>2, <2>3
<1> HIDE DEF G
<1>2. \A T \in SUBSET S : T \in G
  BY <1>1, SubsetInduction
<1> QED
  BY <1>2 DEF G

-----------------------------------------------------------------------------
(* Books.                                                                  *)

Level == [queue: Seq(OrderIds), total: Int]
Book == [orders: PFun(OrderIds, Order), levels: [Sides -> PFun(Prices, Level)]]

Has(queue, x) == \E k \in DOMAIN queue : queue[k] = x

\* BookSound of one book whose order hand is being submitted.
RestingIn(book, hand) == DOMAIN book.orders \ {hand}
OrdersQueued(book, hand) ==
  \A id \in RestingIn(book, hand) :
    LET o == book.orders[id] IN
    /\ o.remaining > 0 /\ o.type = "limit"
    /\ o.price \in DOMAIN book.levels[o.side]
    /\ Has(book.levels[o.side][o.price].queue, id)
QueuesOwned(book, hand) ==
  \A s \in Sides : \A p \in DOMAIN book.levels[s] :
    LET queue == book.levels[s][p].queue IN
    /\ queue # << >> /\ Increasing(queue)
    /\ \A x : Has(queue, x) => /\ x \in RestingIn(book, hand)
                               /\ book.orders[x].side = s /\ book.orders[x].price = p
Sound(book, hand) == OrdersQueued(book, hand) /\ QueuesOwned(book, hand)

Uncrossed(book) ==
  \A bid \in DOMAIN book.levels["buy"], ask \in DOMAIN book.levels["sell"] : bid < ask

LEMMA BookParts ==
  ASSUME NEW book \in Book
  PROVE  /\ book.orders \in PFun(OrderIds, Order)
         /\ book.orders \in [DOMAIN book.orders -> Order] /\ DOMAIN book.orders \subseteq OrderIds
         /\ book.levels \in [Sides -> PFun(Prices, Level)]
         /\ \A s \in Sides : /\ book.levels[s] \in PFun(Prices, Level)
                             /\ DOMAIN book.levels[s] \subseteq Prices
                             /\ book.levels[s] \in [DOMAIN book.levels[s] -> Level]
         /\ book = [orders |-> book.orders, levels |-> book.levels]
  BY PFunDef DEF Book

LEMMA BestPriceBest ==
  ASSUME NEW book \in Book, NEW s \in Sides, DOMAIN book.levels[s] # {}
  PROVE  /\ BestPrice(book, s) \in DOMAIN book.levels[s]
         /\ BestPrice(book, s) \in Prices
         /\ \A q \in DOMAIN book.levels[s] : AtLeastAsGood(s, BestPrice(book, s), q)
<1> DEFINE S == DOMAIN book.levels[s]
<1>1. S \subseteq Prices /\ Prices \subseteq Int /\ IsFiniteSet(Prices)
  BY BookParts, BookAssumption DEF BookAssumption
<1>2. S \subseteq Int /\ IsFiniteSet(S)
  BY <1>1, FS_Subset
<1>3. \E p \in S : \A q \in S : AtLeastAsGood(s, p, q)
  BY <1>2, FiniteBest
<1> QED
  BY <1>1, <1>3 DEF BestPrice

\* Replacing a level, or erasing it when its queue is empty.
LevelSet(levels, p, level, new) ==
  /\ new \in PFun(Prices, Level)
  /\ \A x \in DOMAIN new : \/ x # p /\ x \in DOMAIN levels /\ new[x] = levels[x]
                           \/ x = p /\ level.queue # << >> /\ new[x] = level
  /\ \A x \in DOMAIN levels : x # p => x \in DOMAIN new
  /\ level.queue # << >> => p \in DOMAIN new

LEMMA SetLevelType ==
  ASSUME NEW levels \in PFun(Prices, Level), NEW p \in Prices, NEW level \in Level
  PROVE  LevelSet(levels, p, level, SetLevel(levels, p, level))
<1> DEFINE new == SetLevel(levels, p, level)
<1>1. CASE level.queue = << >>
  <2>1. new = Drop(levels, p)
    BY <1>1 DEF SetLevel
  <2> HIDE DEF new
  <2>2. /\ new \in PFun(Prices, Level) /\ DOMAIN new = DOMAIN levels \ {p}
        /\ \A x \in DOMAIN levels : x # p => new[x] = levels[x]
    BY <2>1, DropFacts
  <2>3. LevelSet(levels, p, level, new)
    BY <1>1, <2>2 DEF LevelSet
  <2> QED
    BY <2>3 DEF new
<1>2. CASE level.queue # << >>
  <2>1. new = Put(levels, p, level)
    BY <1>2 DEF SetLevel
  <2> HIDE DEF new
  <2>2. /\ new \in PFun(Prices, Level) /\ DOMAIN new = DOMAIN levels \union {p}
        /\ new[p] = level /\ \A x \in DOMAIN levels : x # p => new[x] = levels[x]
    BY <2>1, PutFacts
  <2>3. LevelSet(levels, p, level, new)
    BY <1>2, <2>2 DEF LevelSet
  <2> QED
    BY <2>3 DEF new
<1> QED
  BY <1>1, <1>2

LEMMA EmptyBookSound ==
  ASSUME NEW hand
  PROVE  EmptyBook \in Book /\ DOMAIN EmptyBook.orders = {} /\ Sound(EmptyBook, hand)
         /\ Uncrossed(EmptyBook)
<1>1. \A A, B : Nothing \in PFun(A, B) /\ DOMAIN Nothing = {}
  BY PFunDef DEF Nothing
<1>2. EmptyBook.orders = Nothing /\ EmptyBook.levels = [s \in Sides |-> Nothing]
  BY DEF EmptyBook
<1>3. EmptyBook \in Book
  BY <1>1 DEF EmptyBook, Book
<1> QED
  BY <1>1, <1>2, <1>3
     DEF Sound, OrdersQueued, QueuesOwned, RestingIn, Uncrossed, Sides

\* A new order is owned at once, and in hand.
Entered(book, id, o, new) ==
  /\ new \in Book /\ Sound(new, id) /\ Uncrossed(new)
  /\ DOMAIN new.orders = DOMAIN book.orders \union {id} /\ new.orders[id] = o
  /\ \A x \in DOMAIN book.orders : new.orders[x] = book.orders[x]

LEMMA EnterSound ==
  ASSUME NEW book \in Book, NEW hand, hand \notin DOMAIN book.orders, Sound(book, hand),
         Uncrossed(book), NEW id \in OrderIds, id \notin DOMAIN book.orders, NEW o \in Order
  PROVE  Entered(book, id, o, Enter(book, id, o))
<1> DEFINE new == Enter(book, id, o)
           mine == book.orders
           put == Put(mine, id, o)
<1>1. new = [orders |-> put, levels |-> book.levels] /\ mine = book.orders
  BY BookParts DEF Enter
<1>a. mine \in PFun(OrderIds, Order) /\ put = Put(mine, id, o)
  BY BookParts
<1> HIDE DEF mine, put
<1>b. /\ put \in PFun(OrderIds, Order)
      /\ DOMAIN put = DOMAIN mine \union {id}
      /\ put[id] = o
      /\ \A x \in DOMAIN mine : x # id => put[x] = mine[x]
<2>1. put \in PFun(OrderIds, Order)
  BY <1>a, PutType
<2>2. DOMAIN put = DOMAIN mine \union {id}
  BY <1>a, PutDomain
<2>3. put[id] = o
  BY <1>a, PutNew
<2>4. \A x \in DOMAIN mine : x # id => put[x] = mine[x]
  BY <1>a, PutOld
<2> QED BY <2>1, <2>2, <2>3, <2>4
<1>2. /\ put \in PFun(OrderIds, Order)
      /\ DOMAIN put = DOMAIN book.orders \union {id}
      /\ put[id] = o
      /\ \A x \in DOMAIN book.orders : put[x] = book.orders[x]
  BY <1>1, <1>b
<1>3. new \in Book
  BY <1>1, <1>2, BookParts DEF Book
<1> HIDE DEF new
<1>4. /\ new.levels = book.levels /\ DOMAIN new.orders = DOMAIN book.orders \union {id}
      /\ new.orders[id] = o /\ \A x \in DOMAIN book.orders : new.orders[x] = book.orders[x]
  BY <1>1, <1>2
<1>5. RestingIn(new, id) = RestingIn(book, hand) /\ RestingIn(new, id) \subseteq DOMAIN book.orders
  BY <1>4 DEF RestingIn
<1>6. OrdersQueued(new, id)
  BY <1>4, <1>5 DEF OrdersQueued, Sound
<1>7. QueuesOwned(new, id)
  BY <1>4, <1>5 DEF QueuesOwned, Sound
<1>8. Uncrossed(new)
  BY <1>4 DEF Uncrossed
<1>9. Sound(new, id)
  BY <1>6, <1>7 DEF Sound
<1>10. Entered(book, id, o, new)
  BY <1>3, <1>4, <1>8, <1>9 DEF Entered
<1> QED
  BY <1>10 DEF new

-----------------------------------------------------------------------------
(* Replacing one level of a book.                                          *)

\* new is book with the level at p of side s replaced, and with orders to suit: hand was
\* being submitted before, later is afterwards.
Requeued(book, hand, s, p, level, new, later) ==
  /\ level \in Level /\ Increasing(level.queue)
  /\ new.orders \in PFun(OrderIds, Order)
  /\ new.levels = [book.levels EXCEPT ![s] = SetLevel(@, p, level)]
  /\ new = [orders |-> new.orders, levels |-> new.levels]
  /\ \A x \in RestingIn(new, later) :
       /\ new.orders[x].remaining > 0 /\ new.orders[x].type = "limit"
       /\ \/ new.orders[x].side = s /\ new.orders[x].price = p /\ Has(level.queue, x)
          \/ /\ ~ (new.orders[x].side = s /\ new.orders[x].price = p)
             /\ x \in RestingIn(book, hand)
             /\ new.orders[x].side = book.orders[x].side
             /\ new.orders[x].price = book.orders[x].price
  /\ \A x : Has(level.queue, x) => /\ x \in RestingIn(new, later)
                                   /\ new.orders[x].side = s /\ new.orders[x].price = p
  /\ \A x \in RestingIn(book, hand) :
       ~ (book.orders[x].side = s /\ book.orders[x].price = p) =>
         /\ x \in RestingIn(new, later)
         /\ new.orders[x].side = book.orders[x].side
         /\ new.orders[x].price = book.orders[x].price

LEMMA RequeueSound ==
  ASSUME NEW book \in Book, NEW hand, Sound(book, hand), NEW s \in Sides, NEW p \in Prices,
         NEW level, NEW new, NEW later, Requeued(book, hand, s, p, level, new, later)
  PROVE  /\ new \in Book /\ Sound(new, later)
         /\ \A t \in Sides : DOMAIN new.levels[t] \subseteq
              IF t = s /\ level.queue # << >> THEN DOMAIN book.levels[t] \union {p}
              ELSE DOMAIN book.levels[t]
<1>1. level \in Level /\ Increasing(level.queue)
  BY DEF Requeued
<1>2. /\ LevelSet(book.levels[s], p, level, new.levels[s])
      /\ \A t \in Sides : t # s => new.levels[t] = book.levels[t]
      /\ new.levels \in [Sides -> PFun(Prices, Level)]
  <2> DEFINE mine == book.levels[s]
             all == book.levels
             ours == new.levels
  <2>1. mine \in PFun(Prices, Level) /\ all \in [Sides -> PFun(Prices, Level)] /\ mine = all[s]
    BY BookParts
  <2>2. ours = [all EXCEPT ![s] = SetLevel(mine, p, level)]
    BY DEF Requeued
  <2> HIDE DEF mine, all, ours
  <2>3. LevelSet(mine, p, level, SetLevel(mine, p, level))
    BY <1>1, <2>1, SetLevelType
  <2>4. SetLevel(mine, p, level) \in PFun(Prices, Level)
    BY <2>3 DEF LevelSet
  <2>5. /\ ours[s] = SetLevel(mine, p, level) /\ \A t \in Sides : t # s => ours[t] = all[t]
        /\ ours \in [Sides -> PFun(Prices, Level)]
    BY <2>1, <2>2, <2>4
  <2>6. /\ LevelSet(mine, p, level, ours[s]) /\ \A t \in Sides : t # s => ours[t] = all[t]
        /\ ours \in [Sides -> PFun(Prices, Level)]
    BY <2>3, <2>5
  <2> QED
    BY <2>6 DEF mine, all, ours
<1>3. /\ \A x \in DOMAIN new.levels[s] :
           \/ x # p /\ x \in DOMAIN book.levels[s] /\ new.levels[s][x] = book.levels[s][x]
           \/ x = p /\ level.queue # << >> /\ new.levels[s][x] = level
      /\ \A x \in DOMAIN book.levels[s] : x # p => x \in DOMAIN new.levels[s]
      /\ level.queue # << >> => p \in DOMAIN new.levels[s]
  BY <1>2 DEF LevelSet
<1>4. new \in Book
  BY <1>2 DEF Requeued, Book
<1>5. ASSUME NEW x \in RestingIn(new, later)
      PROVE  LET o == new.orders[x] IN
             /\ o.remaining > 0 /\ o.type = "limit"
             /\ o.price \in DOMAIN new.levels[o.side] /\ Has(new.levels[o.side][o.price].queue, x)
  <2> DEFINE t == new.orders[x].side
             q == new.orders[x].price
  <2>1. /\ new.orders[x].remaining > 0 /\ new.orders[x].type = "limit"
        /\ \/ t = s /\ q = p /\ Has(level.queue, x)
           \/ /\ ~ (t = s /\ q = p)
              /\ x \in RestingIn(book, hand) /\ t = book.orders[x].side /\ q = book.orders[x].price
    BY DEF Requeued
  <2> HIDE DEF t, q
  <2>2. q \in DOMAIN new.levels[t] /\ Has(new.levels[t][q].queue, x)
    <3>1. CASE t = s /\ q = p /\ Has(level.queue, x)
      <4>1. p \in DOMAIN new.levels[s]
        BY <1>3, <3>1 DEF Has
      <4>2. new.levels[s][p] = level
        BY <1>3, <4>1
      <4> QED
        BY <3>1, <4>1, <4>2
    <3>2. CASE /\ ~ (t = s /\ q = p)
               /\ x \in RestingIn(book, hand) /\ t = book.orders[x].side /\ q = book.orders[x].price
      <4>1. q \in DOMAIN book.levels[t] /\ Has(book.levels[t][q].queue, x)
        BY <3>2 DEF Sound, OrdersQueued
      <4>2. t \in Sides
        BY <3>2, BookParts DEF RestingIn, Order
      <4>3. CASE t = s
        <5>1. q \in DOMAIN new.levels[s]
          BY <1>3, <3>2, <4>1, <4>3
        <5>2. new.levels[s][q] = book.levels[s][q]
          BY <1>3, <3>2, <4>3, <5>1
        <5> QED
          BY <4>1, <4>3, <5>1, <5>2
      <4>4. CASE t # s
        BY <1>2, <4>1, <4>2, <4>4
      <4> QED
        BY <4>3, <4>4
    <3> QED
      BY <2>1, <3>1, <3>2
  <2> QED
    BY <2>1, <2>2 DEF t, q
<1>6. ASSUME NEW t \in Sides, NEW q \in DOMAIN new.levels[t]
      PROVE  LET queue == new.levels[t][q].queue IN
             /\ queue # << >> /\ Increasing(queue)
             /\ \A x : Has(queue, x) => /\ x \in RestingIn(new, later)
                                        /\ new.orders[x].side = t /\ new.orders[x].price = q
  <2>1. CASE t = s /\ q = p
    <3>1. level.queue # << >> /\ new.levels[t][q] = level
      BY <1>3, <1>6, <2>1
    <3>2. \A x : Has(level.queue, x) => /\ x \in RestingIn(new, later)
                                        /\ new.orders[x].side = t /\ new.orders[x].price = q
      BY <2>1 DEF Requeued
    <3> QED
      BY <1>1, <3>1, <3>2
  <2>2. CASE ~ (t = s /\ q = p)
    <3>1. q \in DOMAIN book.levels[t] /\ new.levels[t][q] = book.levels[t][q]
      BY <1>2, <1>3, <1>6, <2>2
    <3> DEFINE queue == book.levels[t][q].queue
    <3>2. /\ queue # << >> /\ Increasing(queue)
          /\ \A x : Has(queue, x) => /\ x \in RestingIn(book, hand)
                                     /\ book.orders[x].side = t /\ book.orders[x].price = q
      BY <3>1 DEF Sound, QueuesOwned
    <3> HIDE DEF queue
    <3>3. \A x \in RestingIn(book, hand) :
            ~ (book.orders[x].side = s /\ book.orders[x].price = p) =>
              /\ x \in RestingIn(new, later)
              /\ new.orders[x].side = book.orders[x].side
              /\ new.orders[x].price = book.orders[x].price
      BY DEF Requeued
    <3>4. \A x : Has(queue, x) => /\ x \in RestingIn(new, later)
                                  /\ new.orders[x].side = t /\ new.orders[x].price = q
      BY <2>2, <3>2, <3>3
    <3> QED
      BY <3>1, <3>2, <3>4 DEF queue
  <2> QED
    BY <2>1, <2>2
<1>7. Sound(new, later)
  BY <1>5, <1>6 DEF Sound, OrdersQueued, QueuesOwned
<1>8. \A t \in Sides : DOMAIN new.levels[t] \subseteq
              IF t = s /\ level.queue # << >> THEN DOMAIN book.levels[t] \union {p}
              ELSE DOMAIN book.levels[t]
  BY <1>2, <1>3
<1> QED
  BY <1>4, <1>7, <1>8

-----------------------------------------------------------------------------
(* One execution.                                                          *)

\* What the next execution is about: the front of the best opposite level.
Facing(book, id, o, s, p, queue, r, exec) ==
  /\ o \in Order /\ s \in Sides /\ s # o.side
  /\ p \in DOMAIN book.levels[s] /\ p \in Prices
  /\ \A q \in DOMAIN book.levels[s] : AtLeastAsGood(s, p, q)
  /\ o.type = "limit" => Crosses(o.side, o.price, p)
  /\ queue \in Seq(OrderIds) /\ queue # << >> /\ Increasing(queue) /\ r = Head(queue)
  /\ r \in RestingIn(book, id) /\ r \in DOMAIN book.orders /\ r # id
  /\ book.orders[r] \in Order /\ book.orders[r].remaining \in Nat \ {0}
  /\ book.orders[r].side = s /\ book.orders[r].price = p /\ book.orders[r].type = "limit"
  /\ o.remaining \in Nat \ {0}
  /\ exec \in Nat \ {0} /\ exec <= o.remaining /\ exec <= book.orders[r].remaining
  /\ exec = o.remaining \/ exec = book.orders[r].remaining

LEMMA MatchFacts ==
  ASSUME NEW book \in Book, NEW id \in DOMAIN book.orders, Sound(book, id), CanMatch(book, id),
         NEW o, o = book.orders[id],
         NEW s, s = Opposite(o.side),
         NEW p, p = BestPrice(book, s),
         NEW queue, queue = book.levels[s][p].queue,
         NEW r, r = Counterpart(book, id),
         NEW exec, exec = ExecQuantity(book, id)
  PROVE  Facing(book, id, o, s, p, queue, r, exec)
<1>1. o \in Order
  BY BookParts
<1>2. s \in Sides /\ s # o.side
  BY <1>1 DEF Opposite, Sides, Order
<1>3. /\ o.remaining > 0 /\ DOMAIN book.levels[s] # {}
      /\ o.type = "limit" => Crosses(o.side, o.price, p)
  BY DEF CanMatch
<1>4. /\ p \in DOMAIN book.levels[s] /\ p \in Prices
      /\ \A q \in DOMAIN book.levels[s] : AtLeastAsGood(s, p, q)
  BY <1>2, <1>3, BestPriceBest
<1>5. /\ queue # << >> /\ Increasing(queue)
      /\ \A x : Has(queue, x) => /\ x \in RestingIn(book, id)
                                 /\ book.orders[x].side = s /\ book.orders[x].price = p
  <2>1. LET mine == book.levels[s][p].queue IN
        /\ mine # << >> /\ Increasing(mine)
        /\ \A x : Has(mine, x) => /\ x \in RestingIn(book, id)
                                  /\ book.orders[x].side = s /\ book.orders[x].price = p
    BY <1>2, <1>4, ZenonT(30) DEF Sound, QueuesOwned
  <2> QED
    BY <2>1
<1>6. queue \in Seq(OrderIds)
  BY <1>2, <1>4, BookParts DEF Level
<1>7. r = Head(queue) /\ Has(queue, r)
  <2>1. r = Head(queue)
    BY DEF Counterpart
  <2>2. 1 \in DOMAIN queue /\ Head(queue) = queue[1]
    <3>1. OrderIds \subseteq Int
      BY DEF OrderIds
    <3> QED
      BY <1>5, <1>6, <3>1, TailQueue
  <2> QED
    BY <2>1, <2>2 DEF Has
<1>8. /\ r \in RestingIn(book, id) /\ r \in DOMAIN book.orders /\ r # id
      /\ book.orders[r].side = s /\ book.orders[r].price = p
  BY <1>5, <1>7 DEF RestingIn
<1>9. book.orders[r] \in Order /\ book.orders[r].remaining > 0 /\ book.orders[r].type = "limit"
  BY <1>8, BookParts DEF Sound, OrdersQueued
<1>10. o.remaining \in Nat \ {0} /\ book.orders[r].remaining \in Nat \ {0}
  BY <1>1, <1>3, <1>9 DEF Order
<1>11. exec = IF o.remaining <= book.orders[r].remaining
              THEN o.remaining ELSE book.orders[r].remaining
  BY DEF ExecQuantity
<1>12. /\ exec \in Nat \ {0} /\ exec <= o.remaining /\ exec <= book.orders[r].remaining
       /\ exec = o.remaining \/ exec = book.orders[r].remaining
  BY <1>10, <1>11
<1> QED
  BY <1>1, <1>2, <1>3, <1>4, <1>5, <1>6, <1>7, <1>8, <1>9, <1>10, <1>12 DEF Facing

\* The orders after an execution: two are reduced, a filled resting one is gone.
Reduced(orders, ids, exec) ==
  [x \in DOMAIN orders |->
     IF x \in ids THEN [orders[x] EXCEPT !.remaining = @ - exec] ELSE orders[x]]

LEMMA ReduceOrders ==
  ASSUME NEW orders \in PFun(OrderIds, Order), NEW ids, NEW exec \in Nat,
         \A x \in DOMAIN orders : x \in ids => exec <= orders[x].remaining
  PROVE  /\ Reduced(orders, ids, exec) \in PFun(OrderIds, Order)
         /\ DOMAIN Reduced(orders, ids, exec) = DOMAIN orders
         /\ \A x \in DOMAIN orders :
              LET new == Reduced(orders, ids, exec)[x] IN
              /\ new.side = orders[x].side /\ new.type = orders[x].type
              /\ new.price = orders[x].price /\ new.quantity = orders[x].quantity
              /\ new.remaining = IF x \in ids THEN orders[x].remaining - exec
                                 ELSE orders[x].remaining
              /\ x \notin ids => new = orders[x]
<1> DEFINE new == Reduced(orders, ids, exec)
<1>1. orders \in [DOMAIN orders -> Order] /\ DOMAIN orders \subseteq OrderIds
  BY PFunDef
<1>2. DOMAIN new = DOMAIN orders
  BY DEF Reduced
<1>3. ASSUME NEW x \in DOMAIN orders
      PROVE  /\ new[x] \in Order
             /\ new[x].side = orders[x].side /\ new[x].type = orders[x].type
             /\ new[x].price = orders[x].price /\ new[x].quantity = orders[x].quantity
             /\ new[x].remaining = IF x \in ids THEN orders[x].remaining - exec
                                   ELSE orders[x].remaining
             /\ x \notin ids => new[x] = orders[x]
  <2>1. orders[x] \in Order /\ orders[x].remaining \in Nat
    BY <1>1 DEF Order
  <2>2. CASE x \in ids
    <3>1. orders[x].remaining - exec \in Nat
      BY <2>1, <2>2
    <3>2. new[x] = [orders[x] EXCEPT !.remaining = @ - exec]
      BY <2>2 DEF Reduced
    <3> QED
      BY <2>1, <2>2, <3>1, <3>2 DEF Order
  <2>3. CASE x \notin ids
    BY <2>1, <2>3 DEF Reduced
  <2> QED
    BY <2>2, <2>3
<1>4. new \in [DOMAIN orders -> Order]
  BY <1>3 DEF Reduced
<1> HIDE DEF new
<1>5. new \in PFun(OrderIds, Order)
  BY <1>1, <1>2, <1>4, PFunDef
<1> QED
  BY <1>2, <1>3, <1>5 DEF new

\* What an execution leaves of the level at the best price.
LEMMA ConsumeLevel ==
  ASSUME NEW level \in Level, level.queue # << >>, Increasing(level.queue), NEW exec \in Nat,
         NEW filled \in BOOLEAN, NEW new, new = Consume(level, exec, filled)
  PROVE  /\ new \in Level /\ Increasing(new.queue)
         /\ \A x : Has(new.queue, x) <=> Has(level.queue, x) /\ (filled => x # Head(level.queue))
<1>1. level.queue \in Seq(OrderIds) /\ level.total \in Int /\ OrderIds \subseteq Int
  BY DEF Level, OrderIds
<1>2. /\ new.queue = IF filled THEN Tail(level.queue) ELSE level.queue
      /\ new.total = level.total - exec /\ new = [queue |-> new.queue, total |-> new.total]
  BY DEF Consume
<1>3. CASE filled
  <2>1. /\ Tail(level.queue) \in Seq(OrderIds) /\ Increasing(Tail(level.queue))
        /\ \A x : Has(Tail(level.queue), x) <=> x # Head(level.queue) /\ Has(level.queue, x)
    BY <1>1, TailQueue DEF Has
  <2>2. new.queue = Tail(level.queue)
    BY <1>2, <1>3
  <2>3. new.queue \in Seq(OrderIds) /\ new.total \in Int
    BY <1>1, <1>2, <2>1, <2>2
  <2>4. new \in Level
    BY <1>2, <2>3 DEF Level
  <2>5. Increasing(new.queue)
    BY <2>1, <2>2
  <2>6. \A x : Has(new.queue, x) <=> x # Head(level.queue) /\ Has(level.queue, x)
    BY <2>1, <2>2
  <2> QED
    BY <1>3, <2>4, <2>5, <2>6
<1>4. CASE ~ filled
  BY <1>1, <1>2, <1>4 DEF Level
<1> QED
  BY <1>3, <1>4

Executing(book, id, s, p, r, exec, new) ==
  LET filled == book.orders[r].remaining = exec
      level == Consume(book.levels[s][p], exec, filled)
  IN /\ new \in Book
     /\ DOMAIN new.orders = IF filled THEN DOMAIN book.orders \ {r} ELSE DOMAIN book.orders
     /\ \A x \in DOMAIN new.orders :
          /\ new.orders[x].side = book.orders[x].side
          /\ new.orders[x].type = book.orders[x].type
          /\ new.orders[x].price = book.orders[x].price
          /\ new.orders[x].quantity = book.orders[x].quantity
          /\ new.orders[x].remaining = IF x \in {id, r} THEN book.orders[x].remaining - exec
                                       ELSE book.orders[x].remaining
          /\ x \notin {id, r} => new.orders[x] = book.orders[x]
     /\ new.levels = [book.levels EXCEPT ![s] = SetLevel(@, p, level)]
     /\ level \in Level /\ Increasing(level.queue)
     /\ \A x : Has(level.queue, x)
                 <=> Has(book.levels[s][p].queue, x) /\ (filled => x # r)

LEMMA ExecuteFacts ==
  ASSUME NEW book \in Book, NEW id \in DOMAIN book.orders, Sound(book, id), CanMatch(book, id),
         NEW s, s = Opposite(book.orders[id].side),
         NEW p, p = BestPrice(book, s),
         NEW r, r = Counterpart(book, id),
         NEW exec, exec = ExecQuantity(book, id),
         NEW new, new = Execute(book, id)
  PROVE  Executing(book, id, s, p, r, exec, new)
<1> DEFINE filled == book.orders[r].remaining = exec
           old == book.levels[s][p]
           level == Consume(old, exec, filled)
           orders == book.orders
           reduced == Reduced(orders, {id, r}, exec)
<1>1. /\ s \in Sides /\ p \in DOMAIN book.levels[s] /\ p \in Prices
      /\ old.queue \in Seq(OrderIds) /\ old.queue # << >> /\ Increasing(old.queue)
      /\ r = Head(old.queue) /\ r \in DOMAIN book.orders /\ r # id
      /\ book.orders[r].remaining \in Nat \ {0} /\ book.orders[id].remaining \in Nat \ {0}
      /\ book.orders[r].side = s
      /\ exec \in Nat \ {0} /\ exec <= book.orders[id].remaining
      /\ exec <= book.orders[r].remaining
  <2>1. Facing(book, id, book.orders[id], s, p, old.queue, r, exec)
    BY MatchFacts
  <2> QED
    BY <2>1 DEF Facing
<1>2. old \in Level
  BY <1>1, BookParts
<1>3. /\ level \in Level /\ Increasing(level.queue)
      /\ \A x : Has(level.queue, x) <=> Has(old.queue, x) /\ (filled => x # r)
  <2> HIDE DEF old
  <2>1. filled \in BOOLEAN /\ exec \in Nat
    BY <1>1
  <2> HIDE DEF filled
  <2> QED
    BY <1>1, <1>2, <2>1, ConsumeLevel
<1>4. /\ reduced \in PFun(OrderIds, Order) /\ DOMAIN reduced = DOMAIN book.orders
      /\ \A x \in DOMAIN book.orders :
           /\ reduced[x].side = book.orders[x].side /\ reduced[x].type = book.orders[x].type
           /\ reduced[x].price = book.orders[x].price
           /\ reduced[x].quantity = book.orders[x].quantity
           /\ reduced[x].remaining = IF x \in {id, r} THEN book.orders[x].remaining - exec
                                     ELSE book.orders[x].remaining
           /\ x \notin {id, r} => reduced[x] = book.orders[x]
  <2>1. orders \in PFun(OrderIds, Order)
    BY BookParts
  <2>2. \A x \in DOMAIN orders : x \in {id, r} => exec <= orders[x].remaining
    BY <1>1
  <2> HIDE DEF orders
  <2>3. exec \in Nat
    BY <1>1
  <2>4. /\ reduced \in PFun(OrderIds, Order) /\ DOMAIN reduced = DOMAIN orders
        /\ \A x \in DOMAIN orders :
             /\ reduced[x].side = orders[x].side /\ reduced[x].type = orders[x].type
             /\ reduced[x].price = orders[x].price
             /\ reduced[x].quantity = orders[x].quantity
             /\ reduced[x].remaining = IF x \in {id, r} THEN orders[x].remaining - exec
                                       ELSE orders[x].remaining
             /\ x \notin {id, r} => reduced[x] = orders[x]
    BY <2>1, <2>2, <2>3, ReduceOrders
  <2> QED
    BY <2>4 DEF orders
<1>5. new = [orders |-> IF filled THEN Drop(reduced, r) ELSE reduced,
             levels |-> [book.levels EXCEPT ![s] = SetLevel(@, p, level)]]
  BY <1>1 DEF Execute, Reduced
<1> HIDE DEF filled, level, reduced, orders, old
<1>6. /\ new.orders = IF filled THEN Drop(reduced, r) ELSE reduced
      /\ new.levels = [book.levels EXCEPT ![s] = SetLevel(@, p, level)]
      /\ new = [orders |-> new.orders, levels |-> new.levels]
  BY <1>5
<1>7. /\ new.orders \in PFun(OrderIds, Order)
      /\ DOMAIN new.orders = IF filled THEN DOMAIN book.orders \ {r} ELSE DOMAIN book.orders
      /\ \A x \in DOMAIN new.orders : new.orders[x] = reduced[x]
  <2>1. CASE filled
    <3> DEFINE rest == Drop(reduced, r)
    <3>1. rest \in PFun(OrderIds, Order)
      BY <1>4, DropType
    <3>2. DOMAIN rest = DOMAIN reduced \ {r}
      BY DropDomain
    <3>3. \A x \in DOMAIN reduced : x # r => rest[x] = reduced[x]
      BY DropOld
    <3>4. new.orders = rest
      BY <1>6, <2>1
    <3> HIDE DEF rest
    <3> QED
      BY <1>4, <2>1, <3>1, <3>2, <3>3, <3>4
  <2>2. CASE ~ filled
    BY <1>4, <1>6, <2>2
  <2> QED
    BY <2>1, <2>2
<1>8. \A x \in DOMAIN new.orders :
        /\ new.orders[x].side = book.orders[x].side
        /\ new.orders[x].type = book.orders[x].type
        /\ new.orders[x].price = book.orders[x].price
        /\ new.orders[x].quantity = book.orders[x].quantity
        /\ new.orders[x].remaining = IF x \in {id, r} THEN book.orders[x].remaining - exec
                                     ELSE book.orders[x].remaining
        /\ x \notin {id, r} => new.orders[x] = book.orders[x]
  BY <1>4, <1>7
<1>9. new.levels \in [Sides -> PFun(Prices, Level)]
  <2>1. book.levels[s] \in PFun(Prices, Level) /\ book.levels \in [Sides -> PFun(Prices, Level)]
    BY <1>1, BookParts
  <2>2. LevelSet(book.levels[s], p, level, SetLevel(book.levels[s], p, level))
    BY <1>1, <1>3, <2>1, SetLevelType
  <2>3. SetLevel(book.levels[s], p, level) \in PFun(Prices, Level)
    BY <2>2 DEF LevelSet
  <2> QED
    BY <1>6, <2>1, <2>3
<1>10. new \in Book
  BY <1>6, <1>7, <1>9 DEF Book
<1> QED
  BY <1>3, <1>6, <1>7, <1>8, <1>10 DEF filled, level, old, Executing

ExecutedSoundly(book, id, new) ==
  /\ new \in Book /\ Sound(new, id)
  /\ id \in DOMAIN new.orders /\ DOMAIN new.orders \subseteq DOMAIN book.orders
  /\ new.orders[id].price = book.orders[id].price
  /\ new.orders[id].type = book.orders[id].type
  /\ Uncrossed(book) => Uncrossed(new)

LEMMA ExecuteSoundly ==
  ASSUME NEW book \in Book, NEW id \in DOMAIN book.orders, Sound(book, id), CanMatch(book, id),
         NEW s, s = Opposite(book.orders[id].side),
         NEW p, p = BestPrice(book, s),
         NEW r, r = Counterpart(book, id),
         NEW exec, exec = ExecQuantity(book, id),
         NEW new, new = Execute(book, id)
  PROVE  ExecutedSoundly(book, id, new)
<1> DEFINE filled == book.orders[r].remaining = exec
           old == book.levels[s][p]
           level == Consume(old, exec, filled)
<1>1. /\ s \in Sides /\ p \in DOMAIN book.levels[s] /\ p \in Prices
      /\ r \in RestingIn(book, id) /\ r \in DOMAIN book.orders /\ r # id
      /\ book.orders[r].remaining \in Nat \ {0}
      /\ book.orders[r].side = s /\ book.orders[r].price = p
      /\ exec \in Nat \ {0} /\ exec <= book.orders[r].remaining
  <2>1. Facing(book, id, book.orders[id], s, p, old.queue, r, exec)
    BY MatchFacts
  <2> QED
    BY <2>1 DEF Facing
<1>2. /\ new \in Book
      /\ DOMAIN new.orders = IF filled THEN DOMAIN book.orders \ {r} ELSE DOMAIN book.orders
      /\ \A x \in DOMAIN new.orders :
           /\ new.orders[x].side = book.orders[x].side
           /\ new.orders[x].type = book.orders[x].type
           /\ new.orders[x].price = book.orders[x].price
           /\ new.orders[x].quantity = book.orders[x].quantity
           /\ new.orders[x].remaining = IF x \in {id, r} THEN book.orders[x].remaining - exec
                                        ELSE book.orders[x].remaining
           /\ x \notin {id, r} => new.orders[x] = book.orders[x]
      /\ new.levels = [book.levels EXCEPT ![s] = SetLevel(@, p, level)]
      /\ level \in Level /\ Increasing(level.queue)
      /\ \A x : Has(level.queue, x) <=> Has(old.queue, x) /\ (filled => x # r)
  <2>1. Executing(book, id, s, p, r, exec, new)
    BY ExecuteFacts
  <2> QED
    BY <2>1 DEF Executing
<1> HIDE DEF level
<1>3. /\ old.queue # << >>
      /\ \A x : Has(old.queue, x) => /\ x \in RestingIn(book, id)
                                     /\ book.orders[x].side = s /\ book.orders[x].price = p
  BY <1>1 DEF Sound, QueuesOwned
<1> HIDE DEF old
<1>4. ASSUME NEW x \in RestingIn(new, id)
      PROVE  /\ new.orders[x].remaining > 0 /\ new.orders[x].type = "limit"
             /\ \/ new.orders[x].side = s /\ new.orders[x].price = p /\ Has(level.queue, x)
                \/ /\ ~ (new.orders[x].side = s /\ new.orders[x].price = p)
                   /\ x \in RestingIn(book, id)
                   /\ new.orders[x].side = book.orders[x].side
                   /\ new.orders[x].price = book.orders[x].price
  <2>1. /\ x \in DOMAIN new.orders /\ x # id /\ (filled => x # r) /\ x \in RestingIn(book, id)
    BY <1>2, <1>4 DEF RestingIn
  <2>2. /\ book.orders[x].remaining > 0 /\ book.orders[x].type = "limit"
        /\ book.orders[x].side = s /\ book.orders[x].price = p => Has(old.queue, x)
    BY <2>1 DEF Sound, OrdersQueued, old
  <2>3. new.orders[x].remaining > 0
    <3>1. CASE x = r
      <4>1. new.orders[x].remaining = book.orders[r].remaining - exec
        BY <1>2, <2>1, <3>1
      <4>2. book.orders[r].remaining # exec
        BY <2>1, <3>1
      <4>3. \A a, b \in Nat : b <= a /\ a # b => a - b > 0
        OBVIOUS
      <4>4. book.orders[r].remaining \in Nat /\ exec \in Nat /\ exec <= book.orders[r].remaining
        BY <1>1
      <4>5. book.orders[r].remaining - exec > 0
        BY <4>2, <4>3, <4>4
      <4> QED
        BY <4>1, <4>5
    <3>2. CASE x # r
      BY <1>2, <2>1, <2>2, <3>2
    <3> QED
      BY <3>1, <3>2
  <2> QED
    BY <1>2, <2>1, <2>2, <2>3
<1>5. ASSUME NEW x, Has(level.queue, x)
      PROVE  /\ x \in RestingIn(new, id)
             /\ new.orders[x].side = s /\ new.orders[x].price = p
  BY <1>2, <1>3, <1>5 DEF RestingIn
<1>6. ASSUME NEW x \in RestingIn(book, id),
             ~ (book.orders[x].side = s /\ book.orders[x].price = p)
      PROVE  /\ x \in RestingIn(new, id)
             /\ new.orders[x].side = book.orders[x].side
             /\ new.orders[x].price = book.orders[x].price
  BY <1>1, <1>2, <1>6 DEF RestingIn
<1>7. new.orders \in PFun(OrderIds, Order) /\ new = [orders |-> new.orders, levels |-> new.levels]
  BY <1>2, BookParts
<1>8. Requeued(book, id, s, p, level, new, id)
  BY <1>2, <1>4, <1>5, <1>6, <1>7 DEF Requeued
<1>9. /\ Sound(new, id)
      /\ \A t \in Sides : DOMAIN new.levels[t] \subseteq
           IF t = s /\ level.queue # << >> THEN DOMAIN book.levels[t] \union {p}
           ELSE DOMAIN book.levels[t]
  BY <1>1, <1>8, RequeueSound
<1>10. Uncrossed(book) => Uncrossed(new)
  BY <1>1, <1>9 DEF Uncrossed, Sides
<1> QED
  BY <1>1, <1>2, <1>9, <1>10 DEF ExecutedSoundly

LEMMA ExecuteSound ==
  ASSUME NEW book \in Book, NEW id \in DOMAIN book.orders, Sound(book, id), CanMatch(book, id)
  PROVE  ExecutedSoundly(book, id, Execute(book, id))
<1> DEFINE s == Opposite(book.orders[id].side)
           p == BestPrice(book, s)
           r == Counterpart(book, id)
           exec == ExecQuantity(book, id)
           new == Execute(book, id)
<1>1. /\ s = Opposite(book.orders[id].side) /\ p = BestPrice(book, s)
      /\ r = Counterpart(book, id) /\ exec = ExecQuantity(book, id) /\ new = Execute(book, id)
  OBVIOUS
<1> HIDE DEF s, p, r, exec, new
<1>2. ExecutedSoundly(book, id, new)
  BY <1>1, ExecuteSoundly
<1> QED
  BY <1>2 DEF new

-----------------------------------------------------------------------------
(* Settling the order in hand, and cancelling an order.                    *)

\* Disowning an order that is in no queue.
Disowned(book, id, none, new) ==
  /\ new \in Book /\ Sound(new, none) /\ (Uncrossed(book) => Uncrossed(new))
  /\ DOMAIN new.orders = DOMAIN book.orders \ {id}
  /\ \A x \in DOMAIN new.orders : new.orders[x] = book.orders[x]

LEMMA DisownSound ==
  ASSUME NEW book \in Book, NEW id, Sound(book, id), NEW none, none \notin OrderIds,
         NEW new, new = [book EXCEPT !.orders = Drop(@, id)]
  PROVE  Disowned(book, id, none, new)
<1> DEFINE mine == book.orders
           rest == Drop(mine, id)
<1>1. new = [orders |-> rest, levels |-> book.levels]
  BY BookParts
<1>2. mine \in PFun(OrderIds, Order) /\ DOMAIN mine \subseteq OrderIds
  BY BookParts
<1> HIDE DEF mine
<1>3. /\ rest \in PFun(OrderIds, Order) /\ DOMAIN rest = DOMAIN mine \ {id}
      /\ \A x \in DOMAIN mine : x # id => rest[x] = mine[x]
  <2>1. rest \in PFun(OrderIds, Order)
    BY <1>2, DropType
  <2>2. DOMAIN rest = DOMAIN mine \ {id}
    BY DropDomain
  <2>3. \A x \in DOMAIN mine : x # id => rest[x] = mine[x]
    BY DropOld
  <2> QED
    BY <2>1, <2>2, <2>3
<1> HIDE DEF rest
<1>4. /\ new.levels = book.levels /\ DOMAIN new.orders = DOMAIN book.orders \ {id}
      /\ \A x \in DOMAIN new.orders : new.orders[x] = book.orders[x]
      /\ new.orders \in PFun(OrderIds, Order)
  <2>1. new.levels = book.levels /\ new.orders = rest
    BY <1>1
  <2>2. \A x \in DOMAIN rest : rest[x] = mine[x]
    BY <1>3
  <2> QED
    BY <1>3, <2>1, <2>2 DEF mine
<1>5. new \in Book
  <2>1. book.levels \in [Sides -> PFun(Prices, Level)]
    BY BookParts
  <2> QED
    BY <1>1, <1>4, <2>1 DEF Book
<1>6. RestingIn(new, none) = RestingIn(book, id) /\ RestingIn(book, id) = DOMAIN new.orders
  BY <1>2, <1>4 DEF RestingIn, mine
<1>7. OrdersQueued(new, none)
  BY <1>4, <1>6 DEF OrdersQueued, Sound
<1>8. QueuesOwned(new, none)
  BY <1>4, <1>6 DEF QueuesOwned, Sound
<1>9. Uncrossed(book) => Uncrossed(new)
  BY <1>4 DEF Uncrossed
<1> QED
  BY <1>4, <1>5, <1>7, <1>8, <1>9 DEF Sound, Disowned

\* What is left of a limit order joins its level; it cannot trade, so the book stays uncrossed.
LEMMA RestSound ==
  ASSUME NEW book \in Book, NEW id \in DOMAIN book.orders, Sound(book, id), Uncrossed(book),
         ~ CanMatch(book, id), \A x \in RestingIn(book, id) : x < id,
         book.orders[id].remaining > 0, book.orders[id].type = "limit",
         book.orders[id].price \in Prices, NEW none, none \notin OrderIds,
         NEW new, new = Rest(book, id)
  PROVE  new \in Book /\ Sound(new, none) /\ Uncrossed(new) /\ new.orders = book.orders
<1> DEFINE s == book.orders[id].side
           p == book.orders[id].price
           left == book.orders[id].remaining
           levels == book.levels[s]
           old == LevelAt(levels, p)
           level == Add(old, id, left)
<1>1. /\ id \in OrderIds /\ book.orders[id] \in Order /\ s \in Sides /\ p \in Prices /\ left \in Nat
      /\ levels \in PFun(Prices, Level)
  BY BookParts DEF Order
<1>2. /\ old \in Level /\ Increasing(old.queue)
      /\ \A x : Has(old.queue, x) => /\ x \in RestingIn(book, id)
                                     /\ book.orders[x].side = s /\ book.orders[x].price = p
      /\ p \in DOMAIN levels => old = levels[p]
  <2>1. CASE p \in DOMAIN levels
    <3>1. old = levels[p] /\ levels[p] \in Level
      BY <1>1, <2>1, BookParts DEF LevelAt
    <3>2. /\ Increasing(levels[p].queue)
          /\ \A x : Has(levels[p].queue, x) => /\ x \in RestingIn(book, id)
                                               /\ book.orders[x].side = s /\ book.orders[x].price = p
      BY <1>1, <2>1 DEF Sound, QueuesOwned
    <3> HIDE DEF old, levels, s, p
    <3> QED
      BY <3>1, <3>2
  <2>2. CASE p \notin DOMAIN levels
    <3> HIDE DEF levels, s, p
    <3>1. old = [queue |-> << >>, total |-> 0]
      BY <2>2 DEF LevelAt, NewLevel
    <3>2. << >> \in Seq(OrderIds) /\ DOMAIN << >> = {}
      OBVIOUS
    <3> HIDE DEF old
    <3>3. old \in Level /\ old.queue = << >>
      BY <3>1, <3>2 DEF Level
    <3> QED
      BY <2>2, <3>2, <3>3 DEF Increasing, Has
  <2> QED
    BY <2>1, <2>2
<1> HIDE DEF old
<1>3. /\ level \in Level /\ Increasing(level.queue) /\ level.queue # << >>
      /\ \A x : Has(level.queue, x) <=> x = id \/ Has(old.queue, x)
  <2> DEFINE q == old.queue
  <2>1. q \in Seq(OrderIds) /\ old.total \in Int /\ OrderIds \subseteq Int
    BY <1>2 DEF Level, OrderIds
  <2>2. level = [queue |-> Append(q, id), total |-> old.total + left]
    BY DEF Add
  <2>3. \A k \in DOMAIN q : q[k] < id
    BY <1>2 DEF Has
  <2> HIDE DEF level, q, left
  <2>4. /\ Append(q, id) \in Seq(OrderIds) /\ Increasing(Append(q, id)) /\ Append(q, id) # << >>
        /\ \A x : Has(Append(q, id), x) <=> x = id \/ Has(q, x)
    <3>1. Increasing(q) /\ id \in OrderIds
      BY <1>1, <1>2 DEF q
    <3>2. Joined(q, id, OrderIds, Append(q, id))
      BY <2>1, <2>3, <3>1, AppendQueue
    <3> QED
      BY <3>2 DEF Joined, Has
  <2>5. old.total + left \in Int
    BY <1>1, <2>1
  <2>6. level.queue = Append(q, id) /\ level \in Level
    BY <2>2, <2>4, <2>5 DEF Level
  <2> QED
    BY <2>4, <2>6 DEF q
<1>4. /\ new.orders = book.orders /\ new = [orders |-> new.orders, levels |-> new.levels]
      /\ new.levels = [book.levels EXCEPT ![s] = SetLevel(@, p, level)]
  <2>1. new = [book EXCEPT !.levels[s] = Put(levels, p, level)]
    BY DEF Rest, old
  <2>2. SetLevel(levels, p, level) = Put(levels, p, level)
    BY <1>3 DEF SetLevel
  <2> HIDE DEF level, p
  <2>3. new = [orders |-> book.orders,
               levels |-> [book.levels EXCEPT ![s] = Put(levels, p, level)]]
    BY <2>1, BookParts
  <2> QED
    BY <2>2, <2>3
<1> HIDE DEF level
<1>5. RestingIn(new, none) = RestingIn(book, id) \union {id} /\ id \notin RestingIn(book, id)
  BY <1>1, <1>4, BookParts DEF RestingIn
<1>6. ASSUME NEW x \in RestingIn(new, none)
      PROVE  /\ new.orders[x].remaining > 0 /\ new.orders[x].type = "limit"
             /\ \/ new.orders[x].side = s /\ new.orders[x].price = p /\ Has(level.queue, x)
                \/ /\ ~ (new.orders[x].side = s /\ new.orders[x].price = p)
                   /\ x \in RestingIn(book, id)
                   /\ new.orders[x].side = book.orders[x].side
                   /\ new.orders[x].price = book.orders[x].price
  <2>1. CASE x = id
    BY <1>3, <1>4, <2>1
  <2>2. CASE x # id
    <3>1. x \in RestingIn(book, id)
      BY <1>5, <1>6, <2>2
    <3>2. /\ book.orders[x].remaining > 0 /\ book.orders[x].type = "limit"
          /\ book.orders[x].price \in DOMAIN book.levels[book.orders[x].side]
          /\ Has(book.levels[book.orders[x].side][book.orders[x].price].queue, x)
      BY <3>1 DEF Sound, OrdersQueued
    <3>3. CASE book.orders[x].side = s /\ book.orders[x].price = p
      <4>1. Has(old.queue, x)
        BY <1>2, <3>2, <3>3
      <4> QED
        BY <1>3, <1>4, <3>2, <3>3, <4>1
    <3>4. CASE ~ (book.orders[x].side = s /\ book.orders[x].price = p)
      BY <1>4, <3>1, <3>2, <3>4
    <3> QED
      BY <3>3, <3>4
  <2> QED
    BY <2>1, <2>2
<1>7. /\ \A x : Has(level.queue, x) => /\ x \in RestingIn(new, none)
                                       /\ new.orders[x].side = s /\ new.orders[x].price = p
      /\ \A x \in RestingIn(book, id) :
           ~ (book.orders[x].side = s /\ book.orders[x].price = p) =>
             /\ x \in RestingIn(new, none)
             /\ new.orders[x].side = book.orders[x].side
             /\ new.orders[x].price = book.orders[x].price
  BY <1>2, <1>3, <1>4, <1>5
<1>8. new.orders \in PFun(OrderIds, Order)
  BY <1>4, BookParts
<1> HIDE DEF s, p, levels, left
<1>9. Requeued(book, id, s, p, level, new, none)
  BY <1>3, <1>4, <1>6, <1>7, <1>8 DEF Requeued
<1>10. /\ new \in Book /\ Sound(new, none)
       /\ \A t \in Sides : DOMAIN new.levels[t] \subseteq
            IF t = s /\ level.queue # << >> THEN DOMAIN book.levels[t] \union {p}
            ELSE DOMAIN book.levels[t]
  BY <1>1, <1>9, RequeueSound
<1>11. Uncrossed(new)
  <2> DEFINE t == Opposite(s)
             best == BestPrice(book, t)
  <2>1. t \in Sides /\ t # s /\ DOMAIN book.levels[t] \subseteq Prices /\ Prices \subseteq Int
    BY <1>1, BookParts, BookAssumption DEF Opposite, Sides, BookAssumption
  <2>2. DOMAIN book.levels[t] # {} => /\ \A q \in DOMAIN book.levels[t] : AtLeastAsGood(t, best, q)
                                      /\ best \in Prices /\ ~ Crosses(s, p, best)
    BY <2>1, BestPriceBest DEF CanMatch, s, p
  <2> HIDE DEF best
  <2>3. ASSUME NEW q \in DOMAIN book.levels[t] PROVE IF s = "buy" THEN p < q ELSE q < p
    <3>1. q \in Int /\ p \in Int
      BY <1>1, <2>1
    <3>2. best \in Int /\ AtLeastAsGood(t, best, q) /\ ~ Crosses(s, p, best)
      BY <2>1, <2>2
    <3>3. (s = "buy" /\ t = "sell") \/ (s = "sell" /\ t = "buy")
      BY <1>1 DEF Opposite, Sides
    <3> HIDE DEF t
    <3> QED
      BY <3>1, <3>2, <3>3 DEF AtLeastAsGood, Crosses
  <2> QED
    BY <1>1, <1>10, <2>1, <2>3 DEF Uncrossed, Opposite, Sides
<1> QED
  BY <1>4, <1>10, <1>11

Settled(book, id, none, new) ==
  /\ new \in Book /\ Sound(new, none) /\ Uncrossed(new)
  /\ DOMAIN new.orders = IF book.orders[id].remaining > 0 /\ book.orders[id].type = "limit"
                         THEN DOMAIN book.orders ELSE DOMAIN book.orders \ {id}
  /\ \A x \in DOMAIN new.orders : new.orders[x] = book.orders[x]

LEMMA SettleSound ==
  ASSUME NEW book \in Book, NEW id \in DOMAIN book.orders, Sound(book, id), Uncrossed(book),
         ~ CanMatch(book, id), \A x \in RestingIn(book, id) : x < id,
         book.orders[id].type = "limit" => book.orders[id].price \in Prices,
         NEW none, none \notin OrderIds,
         NEW new, new = SettleOrder(book, id)
  PROVE  Settled(book, id, none, new)
<1>1. CASE book.orders[id].remaining > 0 /\ book.orders[id].type = "limit"
  <2>1. new = Rest(book, id)
    BY <1>1 DEF SettleOrder
  <2>2. new \in Book /\ Sound(new, none) /\ Uncrossed(new) /\ new.orders = book.orders
    BY <1>1, <2>1, RestSound
  <2> QED
    BY <1>1, <2>2 DEF Settled
<1>2. CASE ~ (book.orders[id].remaining > 0 /\ book.orders[id].type = "limit")
  <2>1. new = [book EXCEPT !.orders = Drop(@, id)]
    BY <1>2 DEF SettleOrder
  <2>2. /\ new \in Book /\ Sound(new, none) /\ (Uncrossed(book) => Uncrossed(new))
        /\ DOMAIN new.orders = DOMAIN book.orders \ {id}
        /\ \A x \in DOMAIN new.orders : new.orders[x] = book.orders[x]
    <3>1. Disowned(book, id, none, new)
      BY <2>1, DisownSound
    <3> QED
      BY <3>1 DEF Disowned
  <2> QED
    BY <1>2, <2>2 DEF Settled
<1> QED
  BY <1>1, <1>2

\* What remove of an order makes of its level.
LEMMA RemoveLevel ==
  ASSUME NEW old \in Level, NEW id \in OrderIds, Has(old.queue, id), Increasing(old.queue),
         NEW left \in Nat, NEW level, level = RemoveOrder(old, id, left)
  PROVE  /\ level \in Level /\ Increasing(level.queue) /\ level.total = old.total - left
         /\ \A x : Has(level.queue, x) <=> x # id /\ Has(old.queue, x)
<1> DEFINE q == old.queue
           found == {k \in DOMAIN q : q[k] = id}
<1>1. PICK n \in DOMAIN q : q[n] = id
  BY DEF Has
<1>2. /\ q \in Seq(OrderIds) /\ OrderIds \subseteq Int /\ Increasing(q) /\ DOMAIN q \subseteq Int
      /\ old.total \in Int
  <2>1. q \in Seq(OrderIds) /\ Increasing(q) /\ old.total \in Int
    BY DEF Level
  <2>2. OrderIds \subseteq Int
    BY DEF OrderIds
  <2> HIDE DEF q
  <2>3. Len(q) \in Nat /\ DOMAIN q = 1..Len(q)
    BY <2>1, LenProperties
  <2> QED
    BY <2>1, <2>2, <2>3
<1> HIDE DEF q
<1>3. \A k \in DOMAIN q : q[k] = id => k = n
  BY <1>1, <1>2 DEF Increasing
<1>4. found = {n} /\ Min({n}) = n
  <2>1. found = {n}
    BY <1>1, <1>3
  <2>2. n \in Int
    BY <1>1, <1>2
  <2> QED
    BY <2>1, <2>2 DEF Min
<1>5. level = [queue |-> RemoveAt(q, n), total |-> old.total - left]
  <2>1. level = IF found = {} THEN old
                ELSE [queue |-> RemoveAt(old.queue, Min(found)), total |-> old.total - left]
    BY DEF RemoveOrder, q
  <2> HIDE DEF found
  <2> QED
    BY <1>4, <2>1 DEF q
<1>6. Removed(q, n, OrderIds, RemoveAt(q, n))
  BY <1>1, <1>2, RemoveQueue
<1>7. old.total - left \in Int
  BY <1>2
<1>8. level.queue = RemoveAt(q, n) /\ level \in Level /\ level.total = old.total - left
  BY <1>5, <1>6, <1>7 DEF Level, Removed
<1> QED
  BY <1>1, <1>6, <1>8 DEF q, Removed, Has

\* A cancelled order leaves the book and its level's queue.
LEMMA CancelSound ==
  ASSUME NEW book \in Book, NEW none, none \notin OrderIds, Sound(book, none), Uncrossed(book),
         NEW id \in DOMAIN book.orders, NEW new, new = CancelOrder(book, id)
  PROVE  Disowned(book, id, none, new)
<1> DEFINE s == book.orders[id].side
           p == book.orders[id].price
           left == book.orders[id].remaining
           old == book.levels[s][p]
           level == RemoveOrder(old, id, left)
<1>1. /\ id \in OrderIds /\ book.orders[id] \in Order /\ s \in Sides /\ left \in Nat
      /\ id \in RestingIn(book, none) /\ id \notin RestingIn(new, none) /\ id # none
      /\ book.orders \in PFun(OrderIds, Order)
  <2>1. /\ id \in OrderIds /\ book.orders[id] \in Order /\ s \in Sides /\ left \in Nat
        /\ book.orders \in PFun(OrderIds, Order)
    BY BookParts DEF Order
  <2>2. id \in RestingIn(book, none)
    BY <2>1 DEF RestingIn
  <2>3. new.orders = Drop(book.orders, id)
    BY DEF CancelOrder
  <2>4. id \notin DOMAIN new.orders
    <3>1. DOMAIN Drop(book.orders, id) = DOMAIN book.orders \ {id}
      BY DropDomain
    <3> QED
      BY <2>3, <3>1
  <2> QED
    BY <2>1, <2>2, <2>4 DEF RestingIn
<1>2. /\ p \in DOMAIN book.levels[s] /\ p \in Prices /\ Has(old.queue, id)
      /\ old \in Level /\ Increasing(old.queue)
      /\ \A x : Has(old.queue, x) => /\ x \in RestingIn(book, none)
                                     /\ book.orders[x].side = s /\ book.orders[x].price = p
  <2>1. p \in DOMAIN book.levels[s] /\ Has(old.queue, id)
    BY <1>1 DEF Sound, OrdersQueued
  <2>2. p \in Prices /\ old \in Level
    <3> HIDE DEF s, p, old
    <3>1. book.levels[s] \in [DOMAIN book.levels[s] -> Level] /\ DOMAIN book.levels[s] \subseteq Prices
      BY <1>1, BookParts
    <3>2. book.levels[s][p] \in Level
      BY <2>1, <3>1
    <3> QED
      BY <2>1, <3>1, <3>2 DEF old
  <2>3. /\ Increasing(old.queue)
        /\ \A x : Has(old.queue, x) => /\ x \in RestingIn(book, none)
                                       /\ book.orders[x].side = s /\ book.orders[x].price = p
    BY <1>1, <2>1, ZenonT(30) DEF Sound, QueuesOwned
  <2> HIDE DEF old, s, p
  <2> QED
    BY <2>1, <2>2, <2>3
<1>3. /\ new.orders = Drop(book.orders, id) /\ new = [orders |-> new.orders, levels |-> new.levels]
      /\ new.levels = [book.levels EXCEPT ![s] = SetLevel(@, p, level)]
  BY <1>2 DEF CancelOrder
<1>4. /\ level \in Level /\ Increasing(level.queue)
      /\ \A x : Has(level.queue, x) <=> x # id /\ Has(old.queue, x)
  <2> HIDE DEF old, left
  <2> QED
    BY <1>1, <1>2, RemoveLevel
<1> HIDE DEF level, old, left
<1>5. /\ new.orders \in PFun(OrderIds, Order) /\ DOMAIN new.orders = DOMAIN book.orders \ {id}
      /\ \A x \in DOMAIN book.orders : x # id => new.orders[x] = book.orders[x]
  <2> DEFINE mine == book.orders
             rest == Drop(mine, id)
  <2>1. mine \in PFun(OrderIds, Order)
    BY <1>1
  <2> HIDE DEF mine
  <2>2. rest \in PFun(OrderIds, Order)
    BY <2>1, DropType
  <2>3. DOMAIN rest = DOMAIN mine \ {id}
    BY DropDomain
  <2>4. \A x \in DOMAIN mine : x # id => rest[x] = mine[x]
    BY DropOld
  <2>5. new.orders = rest
    BY <1>3 DEF mine
  <2> HIDE DEF rest
  <2> QED
    BY <2>2, <2>3, <2>4, <2>5 DEF mine
<1>6. RestingIn(new, none) = RestingIn(book, none) \ {id}
  BY <1>5 DEF RestingIn
<1>7. ASSUME NEW x \in RestingIn(new, none)
      PROVE  /\ new.orders[x].remaining > 0 /\ new.orders[x].type = "limit"
             /\ \/ new.orders[x].side = s /\ new.orders[x].price = p /\ Has(level.queue, x)
                \/ /\ ~ (new.orders[x].side = s /\ new.orders[x].price = p)
                   /\ x \in RestingIn(book, none)
                   /\ new.orders[x].side = book.orders[x].side
                   /\ new.orders[x].price = book.orders[x].price
  <2>1. x \in RestingIn(book, none) /\ x # id /\ x \in DOMAIN book.orders
    BY <1>6, <1>7 DEF RestingIn
  <2>2. /\ book.orders[x].remaining > 0 /\ book.orders[x].type = "limit"
        /\ book.orders[x].side = s /\ book.orders[x].price = p => Has(old.queue, x)
    BY <2>1 DEF Sound, OrdersQueued, old
  <2>3. new.orders[x] = book.orders[x]
    BY <1>5, <2>1
  <2> HIDE DEF s, p
  <2> QED
    BY <1>4, <2>1, <2>2, <2>3
<1>8. /\ \A x : Has(level.queue, x) => /\ x \in RestingIn(new, none)
                                       /\ new.orders[x].side = s /\ new.orders[x].price = p
      /\ \A x \in RestingIn(book, none) :
           ~ (book.orders[x].side = s /\ book.orders[x].price = p) =>
             /\ x \in RestingIn(new, none)
             /\ new.orders[x].side = book.orders[x].side
             /\ new.orders[x].price = book.orders[x].price
  <2>1. \A x \in RestingIn(new, none) : new.orders[x] = book.orders[x]
    BY <1>5, <1>6 DEF RestingIn
  <2> QED
    BY <1>2, <1>4, <1>6, <2>1
<1> HIDE DEF s, p
<1>9. Requeued(book, none, s, p, level, new, none)
  BY <1>3, <1>4, <1>5, <1>7, <1>8 DEF Requeued
<1>10. /\ new \in Book /\ Sound(new, none)
       /\ \A t \in Sides : DOMAIN new.levels[t] \subseteq
            IF t = s /\ level.queue # << >> THEN DOMAIN book.levels[t] \union {p}
            ELSE DOMAIN book.levels[t]
  BY <1>1, <1>2, <1>9, RequeueSound
<1>11. Uncrossed(new)
  <2>1. \A t \in Sides : DOMAIN new.levels[t] \subseteq DOMAIN book.levels[t]
    BY <1>2, <1>10
  <2> QED
    BY <2>1 DEF Uncrossed, Sides
<1> QED
  BY <1>5, <1>10, <1>11 DEF Disowned

-----------------------------------------------------------------------------
(* The inductive invariant.                                                *)

\* The submission that holds the lock: its order is owned by its book alone, and is the newest.
InHand(b, n, h) ==
  /\ h \in [inst: Instruments, id: OrderIds, trades: Seq(Trade)]
  /\ h.inst \in DOMAIN b /\ h.id \in DOMAIN b[h.inst].orders /\ n = h.id + 1
  /\ LET o == b[h.inst].orders[h.id] IN o.type = "limit" => o.price \in Prices
  /\ \A i \in DOMAIN b : i # h.inst => h.id \notin DOMAIN b[i].orders

BooksInv(b, n, h) ==
  /\ b \in PFun(Instruments, Book)
  /\ n \in 1..(MaxOrders + 1)
  /\ \A i \in DOMAIN b : /\ Sound(b[i], h.id) /\ Uncrossed(b[i])
                         /\ \A id \in DOMAIN b[i].orders : id < n
  /\ h = None \/ InHand(b, n, h)

RecordsInv(rec, all, answers) ==
  /\ rec \in Seq(Trade) /\ Len(rec) <= Capacity
  /\ all \in Seq(Trade)
  /\ DOMAIN answers \subseteq OrderIds

MatchInv == BooksInv(books, nextOrder, submitting) /\ RecordsInv(recent, trades, replies)

LEMMA NoneNotAnOrder == None.id \notin OrderIds /\ None.id = 0
  BY DEF None, OrderIds

LEMMA HandNotNone ==
  ASSUME NEW b, NEW n, NEW h, InHand(b, n, h)
  PROVE  h # None
<1>1. h.id \in OrderIds
  BY DEF InHand
<1> QED
  BY <1>1, NoneNotAnOrder

LEMMA InvImpliesSound == MatchInv => BooksSound
<1> SUFFICES ASSUME MatchInv PROVE BooksSound
  OBVIOUS
<1> DEFINE b == books
<1>1. /\ BooksInv(b, nextOrder, submitting) /\ RecordsInv(recent, trades, replies)
      /\ b \in [DOMAIN b -> Book] /\ DOMAIN b \subseteq Instruments
  BY PFunDef DEF MatchInv, BooksInv
<1>2. TypeOK
  <2>1. ASSUME NEW i \in DOMAIN b
        PROVE  /\ DOMAIN b[i].orders \subseteq OrderIds
               /\ \A id \in DOMAIN b[i].orders : b[i].orders[id] \in Order
               /\ \A s \in Sides : LevelsTypeOK(b[i].levels[s])
    <3>1. b[i] \in Book
      BY <1>1
    <3>2. \A s \in Sides : LevelsTypeOK(b[i].levels[s])
      BY <3>1, BookParts DEF LevelsTypeOK, Level
    <3> QED
      BY <3>1, <3>2, BookParts
  <2>2. \/ LockFree
        \/ submitting.inst \in DOMAIN b /\ submitting.id \in DOMAIN b[submitting.inst].orders
    BY <1>1 DEF BooksInv, InHand, LockFree
  <2> QED
    BY <1>1, <2>1, <2>2 DEF TypeOK, BooksInv, RecordsInv
<1>3. BookSound
  <2> SUFFICES ASSUME NEW i \in DOMAIN books
               PROVE  LET book == books[i] IN
                      /\ \A id \in RestingIds(i) :
                           /\ book.orders[id].remaining > 0 /\ book.orders[id].type = "limit"
                           /\ book.orders[id].price \in DOMAIN book.levels[book.orders[id].side]
                           /\ id \in Range(book.levels[book.orders[id].side][book.orders[id].price].queue)
                      /\ \A s \in Sides : \A p \in DOMAIN book.levels[s] :
                           LET queue == book.levels[s][p].queue IN
                           /\ queue # << >>
                           /\ \A k \in DOMAIN queue :
                                /\ queue[k] \in RestingIds(i)
                                /\ book.orders[queue[k]].side = s /\ book.orders[queue[k]].price = p
                           /\ \A j, k \in DOMAIN queue : j < k => queue[j] < queue[k]
    BY DEF BookSound
  <2> DEFINE book == books[i]
  <2>1. Sound(book, submitting.id) /\ RestingIds(i) = RestingIn(book, submitting.id)
    BY <1>1 DEF BooksInv, RestingIds, BookFor, RestingIn
  <2> HIDE DEF book
  <2>2. \A id \in RestingIds(i) :
          /\ book.orders[id].remaining > 0 /\ book.orders[id].type = "limit"
          /\ book.orders[id].price \in DOMAIN book.levels[book.orders[id].side]
          /\ id \in Range(book.levels[book.orders[id].side][book.orders[id].price].queue)
    BY <2>1 DEF Sound, OrdersQueued, Has, Range
  <2>3. \A s \in Sides : \A p \in DOMAIN book.levels[s] :
          LET queue == book.levels[s][p].queue IN
          /\ queue # << >>
          /\ \A k \in DOMAIN queue :
               /\ queue[k] \in RestingIds(i)
               /\ book.orders[queue[k]].side = s /\ book.orders[queue[k]].price = p
          /\ \A j, k \in DOMAIN queue : j < k => queue[j] < queue[k]
    BY <2>1 DEF Sound, QueuesOwned, Has, Increasing
  <2> QED
    BY <2>2, <2>3 DEF book
<1>4. NeverCrossed
  BY <1>1 DEF BooksInv, Uncrossed, NeverCrossed
<1> QED
  BY <1>2, <1>3, <1>4 DEF BooksSound

LEMMA InitInv == Init => MatchInv
<1> SUFFICES ASSUME Init PROVE MatchInv
  OBVIOUS
<1>1. books \in PFun(Instruments, Book) /\ DOMAIN books = {} /\ DOMAIN replies = {}
  BY PFunDef DEF Init, Nothing
<1>2. nextOrder \in 1..(MaxOrders + 1)
  BY EngineAssumption DEF Init, EngineAssumption
<1>3. << >> \in Seq(Trade) /\ Len(<< >>) = 0
  OBVIOUS
<1>4. recent \in Seq(Trade) /\ Len(recent) <= Capacity /\ trades \in Seq(Trade)
  BY <1>3, EngineAssumption DEF Init, EngineAssumption
<1> QED
  BY <1>1, <1>2, <1>4 DEF Init, MatchInv, BooksInv, RecordsInv

\* Another book takes the place of one in the map of books.
LEMMA ReplaceBook ==
  ASSUME NEW b \in PFun(Instruments, Book), NEW i \in DOMAIN b, NEW v \in Book,
         NEW c, c = [b EXCEPT ![i] = v]
  PROVE  /\ c \in PFun(Instruments, Book) /\ DOMAIN c = DOMAIN b /\ c[i] = v
         /\ \A j \in DOMAIN b : j # i => c[j] = b[j]
<1>1. b \in [DOMAIN b -> Book] /\ DOMAIN b \subseteq Instruments
  BY PFunDef
<1>2. c \in [DOMAIN b -> Book] /\ DOMAIN c = DOMAIN b
  BY <1>1
<1>3. c \in PFun(Instruments, Book)
  BY <1>1, <1>2, PFunDef
<1> QED
  BY <1>1, <1>2, <1>3

\* A step that replaces book i, by one that holds no new order.
LEMMA BooksStep ==
  ASSUME NEW b, NEW n, NEW h, BooksInv(b, n, h), NEW i \in DOMAIN b,
         NEW v \in Book, NEW k, NEW c, c = [b EXCEPT ![i] = v],
         Sound(v, k.id), Uncrossed(v), DOMAIN v.orders \subseteq DOMAIN b[i].orders,
         k.id = h.id \/ (k = None /\ \A j \in DOMAIN b : j # i => Sound(b[j], k.id)),
         k = None \/ InHand(c, n, k)
  PROVE  BooksInv(c, n, k)
<1>1. /\ b \in PFun(Instruments, Book) /\ n \in 1..(MaxOrders + 1)
      /\ \A j \in DOMAIN b : /\ Sound(b[j], h.id) /\ Uncrossed(b[j])
                             /\ \A id \in DOMAIN b[j].orders : id < n
  BY DEF BooksInv
<1>2. /\ c \in PFun(Instruments, Book) /\ DOMAIN c = DOMAIN b /\ c[i] = v
      /\ \A j \in DOMAIN b : j # i => c[j] = b[j]
  BY <1>1, ReplaceBook
<1>3. ASSUME NEW j \in DOMAIN c
      PROVE  /\ Sound(c[j], k.id) /\ Uncrossed(c[j])
             /\ \A id \in DOMAIN c[j].orders : id < n
  <2>1. CASE j = i
    BY <1>1, <1>2, <2>1
  <2>2. CASE j # i
    <3>1. c[j] = b[j] /\ j \in DOMAIN b
      BY <1>2, <1>3, <2>2
    <3>2. Sound(b[j], k.id)
      BY <1>1, <2>2, <3>1
    <3> QED
      BY <1>1, <3>1, <3>2
  <2> QED
    BY <2>1, <2>2
<1> QED
  BY <1>1, <1>2, <1>3 DEF BooksInv

\* Soundness of a book does not depend on an order in hand that it does not own.
LEMMA SoundElsewhere ==
  ASSUME NEW book, NEW h, NEW k, h \notin DOMAIN book.orders, k \notin DOMAIN book.orders,
         Sound(book, h)
  PROVE  Sound(book, k)
<1>1. RestingIn(book, h) = RestingIn(book, k)
  BY DEF RestingIn
<1> QED
  BY <1>1 DEF Sound, OrdersQueued, QueuesOwned

\* The next trade is well formed.
LEMMA NextTradeType ==
  ASSUME MatchInv, Match
  PROVE  NextTrade \in Trade
<1> DEFINE book == books[submitting.inst]
           id == submitting.id
           r == Counterpart(book, id)
<1>1. /\ book \in Book /\ id \in DOMAIN book.orders /\ Sound(book, id) /\ CanMatch(book, id)
      /\ submitting.inst \in Instruments /\ id \in OrderIds
  BY PFunDef DEF MatchInv, BooksInv, Match, LockFree, InHand
<1>2. Len(trades) + 1 \in Nat
  BY LenProperties DEF MatchInv, RecordsInv
<1> HIDE DEF book, id
<1>3. /\ r \in DOMAIN book.orders /\ book.orders[r].price \in Prices
      /\ ExecQuantity(book, id) \in Nat \ {0}
  <2> DEFINE s == Opposite(book.orders[id].side)
             p == BestPrice(book, s)
  <2>1. Facing(book, id, book.orders[id], s, p, book.levels[s][p].queue, r, ExecQuantity(book, id))
    BY <1>1, MatchFacts
  <2> QED
    BY <2>1 DEF Facing
<1>4. r \in OrderIds
  BY <1>1, <1>3, BookParts
<1>5. NextTrade = [id |-> Len(trades) + 1, inst |-> submitting.inst,
                   price |-> book.orders[r].price, quantity |-> ExecQuantity(book, id),
                   buy |-> IF book.orders[id].side = "buy" THEN id ELSE r,
                   sell |-> IF book.orders[id].side = "buy" THEN r ELSE id]
  BY DEF NextTrade, book, id
<1> HIDE DEF r
<1> QED
  BY <1>1, <1>2, <1>3, <1>4, <1>5 DEF Trade

LEMMA MatchKeepsInv == MatchInv /\ Match => MatchInv'
<1> SUFFICES ASSUME MatchInv, Match PROVE MatchInv'
  OBVIOUS
<1> DEFINE i == submitting.inst
           id == submitting.id
           b == books
           h == submitting
           k == submitting'
           v == Execute(b[i], id)
<1>1. /\ BooksInv(b, nextOrder, h) /\ InHand(b, nextOrder, h) /\ i \in DOMAIN b
      /\ b[i] \in Book /\ id \in DOMAIN b[i].orders
      /\ Sound(b[i], id) /\ Uncrossed(b[i]) /\ CanMatch(b[i], id)
  BY PFunDef DEF MatchInv, BooksInv, Match, LockFree, InHand
<1>2. books' = [b EXCEPT ![i] = v] /\ nextOrder' = nextOrder
  BY DEF Match
<1>3. /\ NextTrade \in Trade /\ trades' = Append(trades, NextTrade)
      /\ h \in [inst: Instruments, id: OrderIds, trades: Seq(Trade)]
      /\ k = [h EXCEPT !.trades = Append(@, NextTrade)]
  BY <1>1, NextTradeType DEF Match, InHand
<1>4. /\ k \in [inst: Instruments, id: OrderIds, trades: Seq(Trade)]
      /\ k.inst = i /\ k.id = id /\ k # None
  <2>1. Append(h.trades, NextTrade) \in Seq(Trade)
    BY <1>3, AppendProperties
  <2>2. id # None.id
    BY <1>3, NoneNotAnOrder
  <2>3. k.id = id
    BY <1>3
  <2>4. k # None
    BY <2>2, <2>3
  <2> QED
    BY <1>3, <2>1, <2>4
<1> HIDE DEF v
<1>5. /\ v \in Book /\ Sound(v, id) /\ Uncrossed(v)
      /\ id \in DOMAIN v.orders /\ DOMAIN v.orders \subseteq DOMAIN b[i].orders
      /\ v.orders[id].price = b[i].orders[id].price /\ v.orders[id].type = b[i].orders[id].type
  <2> DEFINE book == b[i]
  <2>1. book \in Book /\ id \in DOMAIN book.orders /\ Sound(book, id) /\ CanMatch(book, id)
    BY <1>1
  <2>2. v = Execute(book, id)
    BY DEF v
  <2> HIDE DEF book, id
  <2>3. ExecutedSoundly(book, id, v)
    BY <2>1, <2>2, ExecuteSound
  <2> QED
    BY <1>1, <2>3 DEF ExecutedSoundly, book
<1> HIDE DEF b, i, id, k
<1>6. DOMAIN books' = DOMAIN b /\ books'[i] = v /\ \A j \in DOMAIN b : j # i => books'[j] = b[j]
  BY <1>1, <1>2, <1>5, ReplaceBook DEF BooksInv
<1>7. InHand(books', nextOrder, k)
  BY <1>1, <1>4, <1>5, <1>6 DEF InHand, i, id
<1>8. BooksInv(books', nextOrder, k)
  <2>1. k.id = h.id
    BY <1>4 DEF id
  <2>2. Sound(v, k.id)
    BY <1>4, <1>5
  <2> HIDE DEF h
  <2> QED
    BY <1>1, <1>2, <1>5, <1>7, <2>1, <2>2, BooksStep
<1>9. trades' \in Seq(Trade)
  BY <1>3, AppendProperties DEF MatchInv, RecordsInv
<1> QED
  BY <1>2, <1>8, <1>9 DEF MatchInv, RecordsInv, Match, k

LEMMA BookForSound ==
  ASSUME MatchInv, LockFree, NEW i \in Instruments
  PROVE  /\ BookFor(i) \in Book /\ Sound(BookFor(i), None.id) /\ Uncrossed(BookFor(i))
         /\ \A id \in DOMAIN BookFor(i).orders : id < nextOrder
         /\ None.id \notin DOMAIN BookFor(i).orders
<1>1. CASE i \in DOMAIN books
  <2>1. BookFor(i) = books[i] /\ books[i] \in Book
    BY <1>1, PFunDef DEF BookFor, MatchInv, BooksInv
  <2>2. None.id \notin DOMAIN books[i].orders
    BY <2>1, BookParts, NoneNotAnOrder
  <2> QED
    BY <1>1, <2>1, <2>2 DEF MatchInv, BooksInv, LockFree
<1>2. CASE i \notin DOMAIN books
  <2>1. BookFor(i) = EmptyBook
    BY <1>2 DEF BookFor
  <2> QED
    BY <2>1, EmptyBookSound
<1> QED
  BY <1>1, <1>2

\* What the map of books is after an order has arrived.
BookOf(b, i) == IF i \in DOMAIN b THEN b[i] ELSE EmptyBook
Opened(b, i, n, o, c) ==
  /\ c \in PFun(Instruments, Book) /\ DOMAIN c = DOMAIN b \union {i}
  /\ Entered(BookOf(b, i), n, o, c[i])
  /\ \A id \in DOMAIN BookOf(b, i).orders : id < n
  /\ \A j \in DOMAIN b : j # i => c[j] = b[j]

LEMMA SubmitBooks ==
  ASSUME MatchInv, NEW inst \in Instruments, NEW side \in Sides, NEW q \in Quantities,
         NEW type \in Types, NEW price, type = "limit" => price \in Prices,
         price \in Prices \union {NoPrice}, Submit(inst, type, side, price, q)
  PROVE  LET o == [side |-> side, type |-> type, price |-> price, quantity |-> q, remaining |-> q]
         IN Opened(books, inst, nextOrder, o, books') /\ o \in Order
<1> DEFINE n == nextOrder
           b == books
           o == [side |-> side, type |-> type, price |-> price, quantity |-> q, remaining |-> q]
           mine == BookFor(inst)
           v == Enter(mine, n, o)
           c == books'
<1>1. /\ LockFree /\ n <= MaxOrders /\ c = Put(b, inst, v) /\ nextOrder' = n + 1
  BY DEF Submit
<1>2. /\ b \in PFun(Instruments, Book) /\ n \in 1..(MaxOrders + 1)
      /\ \A j \in DOMAIN b : /\ Sound(b[j], None.id) /\ Uncrossed(b[j]) /\ b[j] \in Book
                             /\ \A id \in DOMAIN b[j].orders : id < n
  BY <1>1, PFunDef DEF MatchInv, BooksInv, LockFree
<1>3. n \in OrderIds /\ n + 1 \in 1..(MaxOrders + 1) /\ MaxOrders \in Nat
  BY <1>1, <1>2, EngineAssumption DEF OrderIds, EngineAssumption
<1>4. o \in Order
  BY BookAssumption DEF Order, BookAssumption
<1>5. Entered(mine, n, o, v)
  <2>1. /\ mine \in Book /\ Sound(mine, None.id) /\ Uncrossed(mine)
        /\ \A id \in DOMAIN mine.orders : id < n
        /\ None.id \notin DOMAIN mine.orders
    BY <1>1, BookForSound
  <2>2. n \notin DOMAIN mine.orders
    <3>1. ~ (n < n)
      BY <1>3 DEF OrderIds
    <3> QED
      BY <2>1, <3>1
  <2> HIDE DEF mine, o, n
  <2> QED
    BY <1>3, <1>4, <2>1, <2>2, EnterSound
<1>6. \A id \in DOMAIN mine.orders : id < n
  BY <1>1, BookForSound
<1> HIDE DEF mine, o, v
<1>7. /\ v \in Book /\ Sound(v, n) /\ Uncrossed(v) /\ DOMAIN v.orders = DOMAIN mine.orders \union {n}
      /\ v.orders[n] = o
  BY <1>5 DEF Entered
<1>8. /\ c \in PFun(Instruments, Book) /\ DOMAIN c = DOMAIN b \union {inst} /\ c[inst] = v
      /\ \A j \in DOMAIN b : j # inst => c[j] = b[j]
  <2> HIDE DEF b, c
  <2>1. /\ b \in PFun(Instruments, Book) /\ c = Put(b, inst, v) /\ v \in Book
    BY <1>1, <1>2, <1>7
  <2>2. c \in PFun(Instruments, Book)
    BY <2>1, PutType
  <2>3. DOMAIN c = DOMAIN b \union {inst}
    BY <2>1, PutDomain
  <2>4. c[inst] = v
    BY <2>1, PutNew
  <2>5. \A j \in DOMAIN b : j # inst => c[j] = b[j]
    BY <2>1, PutOld
  <2> QED
    BY <2>2, <2>3, <2>4, <2>5
<1>9. mine = BookOf(b, inst)
  BY DEF mine, BookFor, BookOf
<1> QED
  BY <1>4, <1>5, <1>6, <1>8, <1>9 DEF Opened, o

LEMMA SubmitKeepsInv ==
  ASSUME MatchInv, NEW inst \in Instruments, NEW side \in Sides, NEW q \in Quantities,
         NEW type \in Types, NEW price, type = "limit" => price \in Prices,
         price \in Prices \union {NoPrice}, Submit(inst, type, side, price, q)
  PROVE  MatchInv'
<1> DEFINE n == nextOrder
           b == books
           o == [side |-> side, type |-> type, price |-> price, quantity |-> q, remaining |-> q]
           mine == BookOf(b, inst)
           k == submitting'
           c == books'
           v == c[inst]
<1>1. /\ LockFree /\ n <= MaxOrders /\ nextOrder' = n + 1
      /\ k = [inst |-> inst, id |-> n, trades |-> << >>]
      /\ UNCHANGED <<recent, trades, replies>>
  BY DEF Submit
<1>2. /\ b \in PFun(Instruments, Book) /\ n \in 1..(MaxOrders + 1)
      /\ \A j \in DOMAIN b : /\ Sound(b[j], None.id) /\ Uncrossed(b[j]) /\ b[j] \in Book
                             /\ \A id \in DOMAIN b[j].orders : id < n
  BY <1>1, PFunDef DEF MatchInv, BooksInv, LockFree
<1>3. n \in OrderIds /\ n + 1 \in 1..(MaxOrders + 1) /\ MaxOrders \in Nat
  BY <1>1, <1>2, EngineAssumption DEF OrderIds, EngineAssumption
<1>5. Opened(b, inst, n, o, c)
  BY SubmitBooks
<1> HIDE DEF mine, o, v
<1>6. \A id \in DOMAIN mine.orders : id < n
  BY <1>5 DEF Opened, mine
<1>7. /\ v \in Book /\ Sound(v, n) /\ Uncrossed(v) /\ DOMAIN v.orders = DOMAIN mine.orders \union {n}
      /\ v.orders[n] = o
  BY <1>5 DEF Opened, Entered, mine, v
<1>8. /\ c \in PFun(Instruments, Book) /\ DOMAIN c = DOMAIN b \union {inst} /\ c[inst] = v
      /\ \A j \in DOMAIN b : j # inst => c[j] = b[j]
  BY <1>5 DEF Opened, v
<1>9. k.id = n /\ k.inst = inst /\ k \in [inst: Instruments, id: OrderIds, trades: Seq(Trade)]
  <2>1. << >> \in Seq(Trade)
    OBVIOUS
  <2> QED
    BY <1>1, <1>3, <2>1
<1> HIDE DEF b, c, k
<1>10. ASSUME NEW j \in DOMAIN c
       PROVE  /\ Sound(c[j], k.id) /\ Uncrossed(c[j])
              /\ \A id \in DOMAIN c[j].orders : id < n + 1
              /\ j # inst => n \notin DOMAIN c[j].orders
  <2>0. n \in Int
    BY <1>3 DEF OrderIds
  <2>1. CASE j = inst
    <3>1. ASSUME NEW id \in DOMAIN v.orders PROVE id < n + 1
      <4>1. id \in Int
        BY <1>7, BookParts DEF OrderIds
      <4>2. id < n \/ id = n
        BY <1>6, <1>7
      <4> QED
        BY <2>0, <4>1, <4>2
    <3> QED
      BY <1>7, <1>8, <1>9, <2>1, <3>1
  <2>2. CASE j # inst
    <3>1. /\ j \in DOMAIN b /\ c[j] = b[j] /\ Sound(b[j], None.id) /\ Uncrossed(b[j])
          /\ b[j] \in Book /\ \A id \in DOMAIN b[j].orders : id < n
      BY <1>2, <1>8, <1>10, <2>2
    <3>2. n \notin DOMAIN b[j].orders
      <4>1. ~ (n < n)
        BY <2>0
      <4> QED
        BY <3>1, <4>1
    <3>3. None.id \notin DOMAIN b[j].orders
      BY <3>1, BookParts, NoneNotAnOrder
    <3>4. Sound(b[j], n)
      BY <3>1, <3>2, <3>3, SoundElsewhere
    <3>5. ASSUME NEW id \in DOMAIN b[j].orders PROVE id < n + 1
      <4>1. id \in Int /\ id < n
        BY <3>1, BookParts DEF OrderIds
      <4> QED
        BY <2>0, <4>1
    <3> QED
      BY <1>9, <2>2, <3>1, <3>2, <3>4, <3>5
  <2> QED
    BY <2>1, <2>2
<1>11. InHand(c, n + 1, k)
  <2>1. o.type = "limit" => o.price \in Prices
    BY DEF o
  <2> QED
    BY <1>7, <1>8, <1>9, <1>10, <2>1 DEF InHand
<1>12. BooksInv(c, n + 1, k)
  BY <1>3, <1>8, <1>10, <1>11 DEF BooksInv
<1> QED
  BY <1>1, <1>12 DEF MatchInv, RecordsInv, c, k

\* The bounded queue of recent trades.
LEMMA RememberType ==
  ASSUME NEW queue \in Seq(Trade), NEW more \in Seq(Trade)
  PROVE  Remember(queue, more) \in Seq(Trade) /\ Len(Remember(queue, more)) <= Capacity
<1> DEFINE all == queue \o more
           n == Len(all)
           m == Max({1, n - Capacity + 1})
<1>1. all \in Seq(Trade) /\ n \in Nat /\ \A x \in 1..n : all[x] \in Trade
  BY ConcatProperties, LenProperties, ElementOfSeq
<1> HIDE DEF all
<1>2. Capacity \in Nat \ {0}
  BY EngineAssumption DEF EngineAssumption
<1> HIDE DEF n
<1>3. m \in {1, n - Capacity + 1} /\ m >= 1 /\ m >= n - Capacity + 1
  <2>1. \E x \in {1, n - Capacity + 1} : \A y \in {1, n - Capacity + 1} : x >= y
    <3>1. n - Capacity + 1 \in Int
      BY <1>1, <1>2
    <3>2. CASE n - Capacity + 1 >= 1
      BY <3>1, <3>2
    <3>3. CASE ~ (n - Capacity + 1 >= 1)
      BY <3>1, <3>3
    <3> QED
      BY <3>2, <3>3
  <2> QED
    BY <2>1 DEF Max
<1> HIDE DEF m
<1>4. m \in Nat \ {0} /\ n - m + 1 <= Capacity /\ m <= n + 1
  BY <1>1, <1>2, <1>3
<1>5. /\ SubSeq(all, m, n) \in Seq(Trade)
      /\ Len(SubSeq(all, m, n)) = IF m <= n THEN n - m + 1 ELSE 0
  <2>1. m..n \subseteq 1..n
    BY <1>1, <1>4
  <2>2. \A x \in m..n : all[x] \in Trade
    BY <1>1, <2>1
  <2>3. m \in 1..(n + 1) /\ n \in (m - 1)..n
    BY <1>1, <1>4
  <2>4. /\ SubSeq(all, m, n) \in Seq(Trade)
        /\ Len(SubSeq(all, m, n)) = IF m <= n THEN n - m + 1 ELSE 0
    BY <1>1, <1>4, <2>3, SubSeqProperties DEF n
  <2> QED
    BY <2>4
<1>6. Remember(queue, more) = SubSeq(all, m, n)
  BY DEF Remember, all, n, m
<1> QED
  BY <1>2, <1>4, <1>5, <1>6

\* What the order in hand and its book are like.
LEMMA HandFacts ==
  ASSUME NEW b, NEW n, NEW h, BooksInv(b, n, h), InHand(b, n, h),
         NEW i, i = h.inst, NEW id, id = h.id, NEW mine, mine = b[i]
  PROVE  /\ b \in PFun(Instruments, Book) /\ i \in DOMAIN b
         /\ mine \in Book /\ id \in DOMAIN mine.orders /\ id \in OrderIds /\ n = id + 1
         /\ mine.orders[id].type = "limit" => mine.orders[id].price \in Prices
         /\ Sound(mine, id) /\ Uncrossed(mine)
         /\ \A x \in DOMAIN mine.orders : x < n
         /\ \A j \in DOMAIN b : b[j] \in Book /\ (j # i => id \notin DOMAIN b[j].orders)
<1>1. /\ i \in DOMAIN b /\ id \in DOMAIN mine.orders /\ id \in OrderIds /\ n = id + 1
      /\ mine.orders[id].type = "limit" => mine.orders[id].price \in Prices
      /\ \A j \in DOMAIN b : j # i => id \notin DOMAIN b[j].orders
  BY DEF InHand
<1>2. /\ Sound(mine, id) /\ Uncrossed(mine) /\ \A x \in DOMAIN mine.orders : x < n
      /\ b \in PFun(Instruments, Book)
  BY <1>1 DEF BooksInv
<1>3. \A j \in DOMAIN b : b[j] \in Book
  BY <1>2, PFunDef
<1> QED
  BY <1>1, <1>2, <1>3

LEMMA FinishKeepsInv == MatchInv /\ Finish => MatchInv'
<1> SUFFICES ASSUME MatchInv, Finish PROVE MatchInv'
  OBVIOUS
<1> DEFINE i == submitting.inst
           id == submitting.id
           b == books
           h == submitting
           n == nextOrder
           mine == b[i]
           v == SettleOrder(mine, id)
           none == None.id
<1>1. /\ BooksInv(b, n, h) /\ InHand(b, n, h) /\ i \in DOMAIN b
      /\ mine \in Book /\ id \in DOMAIN mine.orders /\ id \in OrderIds /\ n = id + 1
      /\ mine.orders[id].type = "limit" => mine.orders[id].price \in Prices
      /\ Sound(mine, id) /\ Uncrossed(mine) /\ ~ CanMatch(mine, id)
      /\ \A x \in DOMAIN mine.orders : x < n
      /\ \A j \in DOMAIN b : b[j] \in Book /\ (j # i => id \notin DOMAIN b[j].orders)
  <2>1. BooksInv(b, n, h) /\ InHand(b, n, h) /\ ~ CanMatch(mine, id)
    BY DEF MatchInv, BooksInv, Finish, LockFree
  <2>2. mine = b[i] /\ i = h.inst /\ id = h.id
    OBVIOUS
  <2> HIDE DEF b, n, h, i, id, mine
  <2> QED
    BY <2>1, <2>2, HandFacts
<1>2. /\ books' = [b EXCEPT ![i] = v] /\ nextOrder' = nextOrder /\ submitting' = None
      /\ trades' = trades
  BY DEF Finish
<1>3. \A x \in RestingIn(mine, id) : x < id
  <2>1. ASSUME NEW x \in DOMAIN mine.orders, x # id PROVE x < id
    <3>1. x \in Int /\ id \in Int
      BY <1>1, <2>1, BookParts DEF OrderIds
    <3>2. x < id + 1
      BY <1>1, <2>1
    <3> HIDE DEF id, mine
    <3> QED
      BY <2>1, <3>1, <3>2
  <2> QED
    BY <2>1 DEF RestingIn
<1>4. none \notin OrderIds /\ None = None
  BY NoneNotAnOrder
<1> HIDE DEF none, mine
<1>5. Settled(mine, id, none, v)
  <2>1. v = SettleOrder(mine, id)
    OBVIOUS
  <2> HIDE DEF v, id
  <2> QED
    BY <1>1, <1>3, <1>4, <2>1, SettleSound
<1> HIDE DEF v
<1>6. /\ v \in Book /\ Sound(v, none) /\ Uncrossed(v)
      /\ DOMAIN v.orders \subseteq DOMAIN mine.orders
  BY <1>1, <1>5 DEF Settled
<1>7. \A j \in DOMAIN b : j # i => Sound(b[j], none)
  <2>1. ASSUME NEW j \in DOMAIN b, j # i PROVE Sound(b[j], none)
    <3>1. Sound(b[j], id) /\ b[j] \in Book /\ id \notin DOMAIN b[j].orders
      BY <1>1, <2>1 DEF BooksInv
    <3>2. none \notin DOMAIN b[j].orders
      BY <1>4, <3>1, BookParts
    <3> QED
      BY <3>1, <3>2, SoundElsewhere
  <2> QED
    BY <2>1
<1> HIDE DEF b, i, id, h
<1>8. BooksInv(books', n, None)
  <2>1. /\ Sound(v, None.id) /\ DOMAIN v.orders \subseteq DOMAIN b[i].orders
        /\ \A j \in DOMAIN b : j # i => Sound(b[j], None.id)
    BY <1>6, <1>7 DEF none, mine
  <2> HIDE DEF n
  <2> QED
    BY <1>1, <1>2, <1>6, <2>1, BooksStep
<1>9. recent' \in Seq(Trade) /\ Len(recent') <= Capacity
  <2>1. recent \in Seq(Trade) /\ submitting.trades \in Seq(Trade)
    BY <1>1 DEF MatchInv, RecordsInv, InHand, h
  <2>2. recent' = Remember(recent, submitting.trades)
    BY DEF Finish
  <2> QED
    BY <2>1, <2>2, RememberType
<1>10. DOMAIN replies' \subseteq OrderIds
  <2>1. DOMAIN replies' = DOMAIN replies \union {id}
    BY PutDomain DEF Finish, id
  <2> QED
    BY <1>1, <2>1 DEF MatchInv, RecordsInv
<1> QED
  BY <1>2, <1>8, <1>9, <1>10 DEF MatchInv, RecordsInv

LEMMA CancelKeepsInv ==
  ASSUME MatchInv, NEW inst \in Instruments, NEW id \in OrderIds, Cancel(inst, id)
  PROVE  MatchInv'
<1> DEFINE b == books
           n == nextOrder
           mine == b[inst]
           v == CancelOrder(mine, id)
           none == None.id
<1>1. /\ BooksInv(b, n, None) /\ submitting = None /\ inst \in DOMAIN b
      /\ mine \in Book /\ id \in DOMAIN mine.orders
      /\ Sound(mine, none) /\ Uncrossed(mine)
      /\ \A j \in DOMAIN b : Sound(b[j], none)
  BY PFunDef DEF MatchInv, BooksInv, Cancel, LockFree
<1>2. /\ books' = [b EXCEPT ![inst] = v]
      /\ UNCHANGED <<nextOrder, submitting, recent, trades, replies>>
  BY DEF Cancel
<1>3. none \notin OrderIds
  BY NoneNotAnOrder
<1> HIDE DEF none, mine
<1>4. Disowned(mine, id, none, v)
  BY <1>1, <1>3, CancelSound
<1> HIDE DEF v
<1>5. /\ v \in Book /\ Sound(v, none) /\ Uncrossed(v)
      /\ DOMAIN v.orders \subseteq DOMAIN mine.orders
  BY <1>1, <1>4 DEF Disowned
<1> HIDE DEF b
<1>6. BooksInv(books', n, None)
  <2>1. /\ Sound(v, None.id) /\ DOMAIN v.orders \subseteq DOMAIN b[inst].orders
        /\ \A j \in DOMAIN b : j # inst => Sound(b[j], None.id)
    BY <1>1, <1>5 DEF none, mine
  <2> HIDE DEF n
  <2> QED
    BY <1>1, <1>2, <1>5, <2>1, BooksStep
<1> QED
  BY <1>1, <1>2, <1>6 DEF MatchInv, RecordsInv

LEMMA NextKeepsInv == MatchInv /\ [Next]_engineVars => MatchInv'
<1> SUFFICES ASSUME MatchInv, [Next]_engineVars PROVE MatchInv'
  OBVIOUS
<1>1. CASE \E inst \in Instruments, side \in Sides, q \in Quantities :
             \/ \E p \in Prices : Submit(inst, "limit", side, p, q)
             \/ Submit(inst, "market", side, NoPrice, q)
  <2>1. ASSUME NEW inst \in Instruments, NEW side \in Sides, NEW q \in Quantities, NEW p \in Prices,
               Submit(inst, "limit", side, p, q)
        PROVE  MatchInv'
    <3>1. "limit" \in Types
      BY DEF Types
    <3> QED
      BY <2>1, <3>1, SubmitKeepsInv
  <2>2. ASSUME NEW inst \in Instruments, NEW side \in Sides, NEW q \in Quantities,
               Submit(inst, "market", side, NoPrice, q)
        PROVE  MatchInv'
    <3>1. "market" \in Types /\ "market" # "limit"
      BY DEF Types
    <3> QED
      BY <2>2, <3>1, SubmitKeepsInv
  <2> QED
    BY <1>1, <2>1, <2>2
<1>2. CASE Match
  BY <1>2, MatchKeepsInv
<1>3. CASE Finish
  BY <1>3, FinishKeepsInv
<1>4. CASE \E inst \in Instruments, id \in OrderIds : Cancel(inst, id)
  BY <1>4, CancelKeepsInv
<1>5. CASE UNCHANGED engineVars
  BY <1>5 DEF engineVars, MatchInv
<1> QED
  BY <1>1, <1>2, <1>3, <1>4, <1>5 DEF Next

\* In every reachable state: what the books own and what their queues hold agree, order by
\* order, queues are in order of arrival, and no bid reaches an ask once a submission is over.
THEOREM BooksStaySound == Spec => []BooksSound
<1>1. Spec => []MatchInv
  BY InitInv, NextKeepsInv, PTL DEF Spec
<1> QED
  BY <1>1, InvImpliesSound, PTL

-----------------------------------------------------------------------------
(* The engine implements price-time priority.                              *)

View(o, i, id) ==
  [id |-> id, inst |-> i, side |-> o.side, type |-> o.type, price |-> o.price,
   remaining |-> o.remaining]
BookViews(book, i, hand) == {View(book.orders[id], i, id) : id \in RestingIn(book, hand)}
Views(b, hand) == UNION {BookViews(BookOf(b, i), i, hand) : i \in Instruments}
PrintOf(t) ==
  [inst |-> t.inst, price |-> t.price, quantity |-> t.quantity, buy |-> t.buy, sell |-> t.sell]
Prints(ts) == [k \in DOMAIN ts |-> PrintOf(ts[k])]

LEMMA Mapping ==
  /\ RestingOrders = Views(books, submitting.id)
  /\ ActiveOrder = IF LockFree THEN None
                   ELSE View(BookOf(books, submitting.inst).orders[submitting.id],
                             submitting.inst, submitting.id)
  BY DEF RestingOrders, RestingIds, RestingIn, OrderView, BookFor, Views, BookViews, BookOf, View,
         ActiveOrder

LEMMA MappingAfter ==
  /\ RestingOrders' = Views(books', submitting'.id)
  /\ ActiveOrder' = IF submitting' = None THEN None
                    ELSE View(BookOf(books', submitting'.inst).orders[submitting'.id],
                              submitting'.inst, submitting'.id)
  BY DEF RestingOrders, RestingIds, RestingIn, OrderView, BookFor, Views, BookViews, BookOf, View,
         ActiveOrder, LockFree

\* A step that changes the resting orders of instrument i: X leave and Y join.
OthersKept(b, h, c, k, i) ==
  \A j \in Instruments : j # i => BookViews(BookOf(c, j), j, k) = BookViews(BookOf(b, j), j, h)
Rearranged(b, h, c, k, i, X, Y) ==
  /\ OthersKept(b, h, c, k, i)
  /\ BookViews(BookOf(c, i), i, k) = (BookViews(BookOf(b, i), i, h) \ X) \union Y
  /\ \A x \in X : x.inst = i

LEMMA ViewsChange ==
  ASSUME NEW b, NEW h, NEW c, NEW k, NEW i \in Instruments, NEW X, NEW Y,
         Rearranged(b, h, c, k, i, X, Y)
  PROVE  Views(c, k) = (Views(b, h) \ X) \union Y
<1>0. /\ \A j \in Instruments : j # i => BookViews(BookOf(c, j), j, k) = BookViews(BookOf(b, j), j, h)
      /\ BookViews(BookOf(c, i), i, k) = (BookViews(BookOf(b, i), i, h) \ X) \union Y
      /\ \A x \in X : x.inst = i
  BY DEF Rearranged, OthersKept
<1>1. \A j \in Instruments : \A v \in BookViews(BookOf(b, j), j, h) : v.inst = j
  BY DEF BookViews, View
<1>2. ASSUME NEW v \in Views(c, k) PROVE v \in (Views(b, h) \ X) \union Y
  <2>1. PICK j \in Instruments : v \in BookViews(BookOf(c, j), j, k)
    BY <1>2 DEF Views
  <2>2. CASE j = i
    <3>1. v \in BookViews(BookOf(b, i), i, h) => v \in Views(b, h)
      BY DEF Views
    <3> QED
      BY <1>0, <2>1, <2>2, <3>1
  <2>3. CASE j # i
    <3>1. v \in BookViews(BookOf(b, j), j, h)
      BY <1>0, <2>1, <2>3
    <3>2. v \in Views(b, h)
      BY <3>1 DEF Views
    <3>3. v \notin X
      BY <1>0, <1>1, <2>3, <3>1
    <3> QED
      BY <3>2, <3>3
  <2> QED
    BY <2>2, <2>3
<1>3. ASSUME NEW v \in (Views(b, h) \ X) \union Y PROVE v \in Views(c, k)
  <2>1. CASE v \in Y
    <3>1. v \in BookViews(BookOf(c, i), i, k)
      BY <1>0, <2>1
    <3> QED
      BY <3>1 DEF Views
  <2>2. CASE v \in Views(b, h) \ X
    <3>1. PICK j \in Instruments : v \in BookViews(BookOf(b, j), j, h)
      BY <2>2 DEF Views
    <3>2. v \in BookViews(BookOf(c, j), j, k)
      BY <1>0, <2>2, <3>1
    <3> QED
      BY <3>2 DEF Views
  <2> QED
    BY <1>3, <2>1, <2>2
<1> QED
  BY <1>2, <1>3

LEMMA PrintsAppend ==
  ASSUME NEW ts \in Seq(Trade), NEW t \in Trade
  PROVE  Prints(Append(ts, t)) = Append(Prints(ts), PrintOf(t))
<1> DEFINE S == {PrintOf(x) : x \in Trade}
           all == Append(ts, t)
           n == Len(ts)
<1>1. /\ n \in Nat /\ DOMAIN ts = 1..n /\ DOMAIN all = 1..(n + 1)
      /\ \A k \in 1..n : all[k] = ts[k] /\ ts[k] \in Trade
      /\ all[n + 1] = t
  <2>1. all \in Seq(Trade) /\ Len(all) = n + 1
    BY AppendProperties
  <2> QED
    BY <2>1, AppendProperties, LenProperties, ElementOfSeq
<1>2. PrintOf(t) \in S /\ \A k \in 1..n : PrintOf(ts[k]) \in S
  BY <1>1
<1> HIDE DEF S, all, n
<1>3. Prints(ts) \in Seq(S) /\ Len(Prints(ts)) = n
  <2>1. Prints(ts) \in [1..n -> S]
    BY <1>1, <1>2 DEF Prints
  <2> QED
    BY <1>1, <2>1
<1>4. Prints(all) \in Seq(S) /\ Len(Prints(all)) = n + 1
  <2>1. \A k \in 1..(n + 1) : PrintOf(all[k]) \in S
    BY <1>1, <1>2
  <2>2. Prints(all) \in [1..(n + 1) -> S]
    BY <1>1, <2>1 DEF Prints
  <2> QED
    BY <1>1, <2>2
<1>5. /\ Append(Prints(ts), PrintOf(t)) \in Seq(S)
      /\ Len(Append(Prints(ts), PrintOf(t))) = n + 1
      /\ \A k \in 1..n : Append(Prints(ts), PrintOf(t))[k] = Prints(ts)[k]
      /\ Append(Prints(ts), PrintOf(t))[n + 1] = PrintOf(t)
  BY <1>2, <1>3, AppendProperties
<1>6. \A k \in 1..(n + 1) : Prints(all)[k] = Append(Prints(ts), PrintOf(t))[k]
  <2>1. ASSUME NEW k \in 1..n PROVE Prints(all)[k] = Append(Prints(ts), PrintOf(t))[k]
    BY <1>1, <1>5 DEF Prints
  <2>2. Prints(all)[n + 1] = Append(Prints(ts), PrintOf(t))[n + 1]
    BY <1>1, <1>5 DEF Prints
  <2>3. \A k \in 1..(n + 1) : k = n + 1 \/ k \in 1..n
    BY <1>1
  <2> QED
    BY <2>1, <2>2, <2>3
<1>7. Prints(all) = Append(Prints(ts), PrintOf(t))
  BY <1>4, <1>5, <1>6, SeqEqual
<1> QED
  BY <1>7 DEF all

LEMMA InitRefines == Init => Priority!Init
<1> SUFFICES ASSUME Init PROVE Priority!Init
  OBVIOUS
<1>1. DOMAIN books = {} /\ LockFree /\ nextOrder = 1 /\ trades = << >>
  BY DEF Init, Nothing, LockFree
<1>2. RestingOrders = {}
  <2>1. ASSUME NEW v \in RestingOrders PROVE FALSE
    <3>1. PICK i \in Instruments : v \in BookViews(BookOf(books, i), i, submitting.id)
      BY <2>1, Mapping DEF Views
    <3>2. BookOf(books, i) = EmptyBook
      BY <1>1 DEF BookOf
    <3>3. RestingIn(EmptyBook, submitting.id) = {}
      BY EmptyBookSound DEF RestingIn
    <3> QED
      BY <3>1, <3>2, <3>3 DEF BookViews
  <2> QED
    BY <2>1
<1>3. ActiveOrder = None
  BY <1>1 DEF ActiveOrder
<1>4. 1..(nextOrder - 1) = {}
  BY <1>1
<1>5. [k \in DOMAIN trades |-> [inst |-> trades[k].inst, price |-> trades[k].price,
         quantity |-> trades[k].quantity, buy |-> trades[k].buy, sell |-> trades[k].sell]] = << >>
  BY <1>1
<1> QED
  BY <1>2, <1>3, <1>4, <1>5 DEF Priority!Init

LEMMA SubmitRefines ==
  ASSUME MatchInv, NEW inst \in Instruments, NEW side \in Sides, NEW q \in Quantities,
         NEW type \in Types, NEW price, type = "limit" => price \in Prices,
         price \in Prices \union {NoPrice}, Submit(inst, type, side, price, q)
  PROVE  Priority!Arrive([id |-> nextOrder, inst |-> inst, side |-> side, type |-> type,
                          price |-> price, remaining |-> q])
<1> DEFINE n == nextOrder
           o == [side |-> side, type |-> type, price |-> price, quantity |-> q, remaining |-> q]
           b == books
           c == books'
<1>1. /\ LockFree /\ n \in OrderIds /\ n \in Int /\ nextOrder' = n + 1
      /\ submitting' = [inst |-> inst, id |-> n, trades |-> << >>] /\ trades' = trades
  BY EngineAssumption DEF Submit, MatchInv, BooksInv, OrderIds, EngineAssumption
<1>2. Opened(b, inst, n, o, c)
  BY SubmitBooks
<1> HIDE DEF o
<1>3. /\ DOMAIN c = DOMAIN b \union {inst} /\ Entered(BookOf(b, inst), n, o, c[inst])
      /\ \A id \in DOMAIN BookOf(b, inst).orders : id < n
      /\ \A j \in DOMAIN b : j # inst => c[j] = b[j]
  BY <1>2 DEF Opened
<1>4. ActiveOrder = None /\ \A id \in 1..(n - 1) : id < n
  BY <1>1 DEF ActiveOrder
<1>5. ActiveOrder' = [id |-> n, inst |-> inst, side |-> side, type |-> type,
                      price |-> price, remaining |-> q]
  <2>1. submitting' # None
    <3>1. submitting'.id = n /\ n # None.id
      BY <1>1, NoneNotAnOrder
    <3> QED
      BY <3>1
  <2>2. BookOf(c, inst) = c[inst] /\ c[inst].orders[n] = o
    BY <1>3 DEF BookOf, Entered
  <2>3. submitting'.inst = inst /\ submitting'.id = n
    BY <1>1
  <2>4. ActiveOrder' = View(o, inst, n)
    BY <2>1, <2>2, <2>3, MappingAfter
  <2> QED
    BY <2>4 DEF View, o
<1>6. RestingOrders' = RestingOrders
  <2>0. submitting.id = None.id /\ submitting'.id = n
    BY <1>1 DEF LockFree
  <2>1. \A j \in Instruments : j # inst => BookOf(c, j) = BookOf(b, j)
    BY <1>3 DEF BookOf
  <2>2. ASSUME NEW j \in Instruments
        PROVE  None.id \notin DOMAIN BookOf(b, j).orders /\ n \notin DOMAIN BookOf(b, j).orders
    <3>1. BookOf(b, j) = BookFor(j)
      BY DEF BookOf, BookFor
    <3>2. ~ (n < n)
      BY <1>1
    <3> HIDE DEF n
    <3> QED
      BY <1>1, <3>1, <3>2, BookForSound DEF n
  <2>3. ASSUME NEW j \in Instruments, j # inst
        PROVE  BookViews(BookOf(c, j), j, n) = BookViews(BookOf(b, j), j, None.id)
    <3>1. RestingIn(BookOf(b, j), n) = RestingIn(BookOf(b, j), None.id)
      BY <2>2 DEF RestingIn
    <3> QED
      BY <2>1, <2>3, <3>1 DEF BookViews
  <2>4. BookViews(BookOf(c, inst), inst, n) = BookViews(BookOf(b, inst), inst, None.id)
    <3> DEFINE old == BookOf(b, inst)
               new == BookOf(c, inst)
    <3>1. /\ DOMAIN new.orders = DOMAIN old.orders \union {n}
          /\ \A x \in DOMAIN old.orders : new.orders[x] = old.orders[x]
      BY <1>3 DEF Entered, BookOf
    <3>2. n \notin DOMAIN old.orders /\ None.id \notin DOMAIN old.orders
      BY <2>2
    <3> HIDE DEF old, new, n
    <3>3. /\ RestingIn(new, n) = RestingIn(old, None.id)
          /\ \A x \in RestingIn(new, n) : new.orders[x] = old.orders[x]
      BY <3>1, <3>2 DEF RestingIn
    <3>4. BookViews(new, inst, n) = BookViews(old, inst, None.id)
      BY <3>3 DEF BookViews
    <3> QED
      BY <3>4 DEF new, old
  <2>5. Views(c, n) = Views(b, None.id)
    <3> HIDE DEF b, c, n
    <3>1. BookViews(BookOf(c, inst), inst, n)
            = (BookViews(BookOf(b, inst), inst, None.id) \ {}) \union {}
      BY <2>4
    <3>2. Rearranged(b, None.id, c, n, inst, {}, {})
      BY <2>3, <3>1 DEF Rearranged, OthersKept
    <3>3. Views(c, n) = (Views(b, None.id) \ {}) \union {}
      BY <3>2, ViewsChange
    <3> QED
      BY <3>3
  <2> QED
    BY <2>0, <2>5, Mapping, MappingAfter
<1>7. 1..(nextOrder' - 1) = 1..(n - 1) \union {n}
  BY <1>1 DEF OrderIds
<1> QED
  BY <1>1, <1>4, <1>5, <1>6, <1>7 DEF Priority!Arrive

LEMMA ViewMember ==
  ASSUME NEW b, NEW h, NEW i \in Instruments, NEW v
  PROVE  v \in Views(b, h) /\ v.inst = i <=> v \in BookViews(BookOf(b, i), i, h)
<1>1. \A j \in Instruments : \A w \in BookViews(BookOf(b, j), j, h) : w.inst = j
  BY DEF BookViews, View
<1>2. ASSUME v \in Views(b, h), v.inst = i PROVE v \in BookViews(BookOf(b, i), i, h)
  BY <1>1, <1>2 DEF Views
<1>3. ASSUME v \in BookViews(BookOf(b, i), i, h) PROVE v \in Views(b, h) /\ v.inst = i
  BY <1>1, <1>3 DEF Views
<1> QED
  BY <1>2, <1>3

\* An order in hand has been entered: it is the active one.
LEMMA ActiveFacts ==
  ASSUME MatchInv, ~ LockFree,
         NEW i, i = submitting.inst, NEW id, id = submitting.id, NEW book, book = books[i]
  PROVE  /\ i \in Instruments /\ i \in DOMAIN books /\ BookOf(books, i) = book /\ book \in Book
         /\ id \in DOMAIN book.orders /\ id \in OrderIds /\ Sound(book, id) /\ Uncrossed(book)
         /\ book.orders[id] \in Order
         /\ ActiveOrder = View(book.orders[id], i, id) /\ ActiveOrder # None
         /\ \A j \in DOMAIN books : j # i => id \notin DOMAIN books[j].orders
         /\ \A x \in RestingIn(book, id) : x < id
         /\ book.orders[id].type = "limit" => book.orders[id].price \in Prices
<1>1. /\ i \in Instruments /\ i \in DOMAIN books /\ book \in Book /\ id \in DOMAIN book.orders
      /\ id \in OrderIds /\ Sound(book, id) /\ Uncrossed(book) /\ nextOrder = id + 1
      /\ \A j \in DOMAIN books : j # i => id \notin DOMAIN books[j].orders
      /\ \A x \in DOMAIN book.orders : x < nextOrder
      /\ book.orders[id].type = "limit" => book.orders[id].price \in Prices
  BY PFunDef DEF MatchInv, BooksInv, LockFree, InHand
<1>2. BookOf(books, i) = book /\ book.orders[id] \in Order
  BY <1>1, BookParts DEF BookOf
<1>3. ActiveOrder = View(book.orders[id], i, id)
  BY <1>2, Mapping
<1>4. ActiveOrder # None
  <2>1. View(book.orders[id], i, id).id = id
    BY DEF View
  <2> QED
    BY <1>1, <1>3, <2>1, NoneNotAnOrder
<1>5. \A x \in RestingIn(book, id) : x < id
  <2>1. ASSUME NEW x \in DOMAIN book.orders, x # id PROVE x < id
    <3>1. x \in Int /\ id \in Int
      BY <1>1, <2>1, BookParts DEF OrderIds
    <3>2. x < id + 1
      BY <1>1, <2>1
    <3> QED
      BY <2>1, <3>1, <3>2
  <2> QED
    BY <2>1 DEF RestingIn
<1> QED
  BY <1>1, <1>2, <1>3, <1>4, <1>5

\* The other instruments' resting orders, when the order in hand is another one or none.
LEMMA OthersKeepViews ==
  ASSUME NEW b, NEW c, NEW h, NEW k, NEW i, DOMAIN c = DOMAIN b,
         \A j \in DOMAIN b : j # i => c[j] = b[j],
         \A j \in DOMAIN b : j # i => h \notin DOMAIN b[j].orders /\ k \notin DOMAIN b[j].orders
  PROVE  OthersKept(b, h, c, k, i)
<1> SUFFICES ASSUME NEW j \in Instruments, j # i
             PROVE  BookViews(BookOf(c, j), j, k) = BookViews(BookOf(b, j), j, h)
  BY DEF OthersKept
<1>1. BookOf(c, j) = BookOf(b, j)
  BY DEF BookOf
<1>2. RestingIn(BookOf(b, j), k) = RestingIn(BookOf(b, j), h)
  BY EmptyBookSound DEF RestingIn, BookOf
<1> QED
  BY <1>1, <1>2 DEF BookViews

LEMMA FinishRefines == MatchInv /\ Finish => Priority!Close
<1> SUFFICES ASSUME MatchInv, Finish PROVE Priority!Close
  OBVIOUS
<1> DEFINE i == submitting.inst
           id == submitting.id
           b == books
           c == books'
           book == b[i]
           o == book.orders[id]
           none == None.id
           v == SettleOrder(book, id)
           rests == o.remaining > 0 /\ o.type = "limit"
<1>1. /\ i \in Instruments /\ i \in DOMAIN b /\ BookOf(b, i) = book /\ book \in Book
      /\ id \in DOMAIN book.orders /\ id \in OrderIds /\ Sound(book, id) /\ Uncrossed(book)
      /\ o \in Order /\ ActiveOrder = View(o, i, id) /\ ActiveOrder # None
      /\ \A j \in DOMAIN b : j # i => id \notin DOMAIN b[j].orders
      /\ \A x \in RestingIn(book, id) : x < id
      /\ o.type = "limit" => o.price \in Prices
  BY ActiveFacts DEF Finish
<1>2. /\ c = [b EXCEPT ![i] = v] /\ nextOrder' = nextOrder /\ submitting' = None
      /\ trades' = trades /\ ~ CanMatch(book, id)
  BY DEF Finish
<1>3. b \in PFun(Instruments, Book) /\ none \notin OrderIds
      /\ \A j \in DOMAIN b : b[j] \in Book
  BY PFunDef, NoneNotAnOrder DEF MatchInv, BooksInv
<1> HIDE DEF o, none
<1>4. Settled(book, id, none, v)
  <2> HIDE DEF book, id
  <2> QED
    BY <1>1, <1>2, <1>3, SettleSound DEF o
<1> HIDE DEF v
<1>5. /\ v \in Book
      /\ DOMAIN v.orders = IF rests THEN DOMAIN book.orders ELSE DOMAIN book.orders \ {id}
      /\ \A x \in DOMAIN v.orders : v.orders[x] = book.orders[x]
  BY <1>4 DEF Settled, o
<1>6. DOMAIN c = DOMAIN b /\ c[i] = v /\ \A j \in DOMAIN b : j # i => c[j] = b[j]
  <2> HIDE DEF b, c, i
  <2> QED
    BY <1>1, <1>2, <1>3, <1>5, ReplaceBook
<1>7. BookViews(BookOf(c, i), i, none)
        = BookViews(BookOf(b, i), i, id) \union (IF rests THEN {View(o, i, id)} ELSE {})
  <2>1. BookOf(c, i) = v /\ BookOf(b, i) = book
    BY <1>1, <1>6 DEF BookOf
  <2>2. none \notin DOMAIN book.orders /\ id \in DOMAIN book.orders
    BY <1>1, <1>3, BookParts
  <2>3. RestingIn(v, none) = IF rests THEN RestingIn(book, id) \union {id} ELSE RestingIn(book, id)
    BY <1>5, <2>2 DEF RestingIn
  <2>4. /\ \A x \in RestingIn(v, none) : v.orders[x] = book.orders[x]
        /\ o = book.orders[id]
    BY <1>5 DEF RestingIn, o
  <2> HIDE DEF rests, book, id, i
  <2> QED
    BY <2>1, <2>3, <2>4 DEF BookViews
<1>8. RestingOrders' = RestingOrders \union (IF rests THEN {View(o, i, id)} ELSE {})
  <2> DEFINE Y == IF rests THEN {View(o, i, id)} ELSE {}
  <2>0. submitting.id = id /\ submitting'.id = none
    BY <1>2 DEF none
  <2>1. \A j \in DOMAIN b : j # i => id \notin DOMAIN b[j].orders /\ none \notin DOMAIN b[j].orders
    BY <1>1, <1>3, BookParts
  <2>2. OthersKept(b, id, c, none, i)
    <3> HIDE DEF b, c, i, id
    <3> QED
      BY <1>6, <2>1, OthersKeepViews
  <2>3. BookViews(BookOf(c, i), i, none) = (BookViews(BookOf(b, i), i, id) \ {}) \union Y
    BY <1>7
  <2> HIDE DEF Y, b, c, i, id
  <2>4. Rearranged(b, id, c, none, i, {}, Y)
    BY <2>2, <2>3 DEF Rearranged
  <2>5. Views(c, none) = (Views(b, id) \ {}) \union Y
    BY <1>1, <2>4, ViewsChange
  <2> QED
    BY <2>0, <2>5, Mapping, MappingAfter DEF Y, b, c
<1>9. ActiveOrder.remaining = 0 \/ Priority!Candidates(ActiveOrder) = {}
  <2>1. SUFFICES ASSUME ActiveOrder.remaining # 0, NEW q \in Priority!Candidates(ActiveOrder)
                 PROVE  FALSE
    OBVIOUS
  <2>2. /\ q \in RestingOrders /\ q.inst = ActiveOrder.inst /\ q.side # ActiveOrder.side
        /\ Priority!Reaches(ActiveOrder, q.price)
    BY <2>1 DEF Priority!Candidates
  <2>3. /\ ActiveOrder.inst = i /\ ActiveOrder.side = o.side /\ ActiveOrder.type = o.type
        /\ ActiveOrder.price = o.price /\ ActiveOrder.remaining = o.remaining
    BY <1>1 DEF View
  <2>4. q \in BookViews(book, i, id)
    <3>1. q \in Views(b, id) /\ q.inst = i
      BY <2>2, <2>3, Mapping
    <3> HIDE DEF b, i, id
    <3> QED
      BY <1>1, <3>1, ViewMember
  <2>5. PICK x \in RestingIn(book, id) : q = View(book.orders[x], i, x)
    BY <2>4 DEF BookViews
  <2>6. /\ x \in DOMAIN book.orders /\ book.orders[x] \in Order
        /\ q.side = book.orders[x].side /\ q.price = book.orders[x].price
    BY <1>1, <2>5, BookParts DEF RestingIn, View
  <2> DEFINE s == Opposite(o.side)
             best == BestPrice(book, s)
  <2>8. q.side = s /\ s \in Sides /\ ((o.side = "buy" /\ s = "sell") \/ (o.side = "sell" /\ s = "buy"))
    BY <1>1, <2>2, <2>3, <2>6 DEF Opposite, Sides, Order
  <2>9. q.price \in DOMAIN book.levels[s]
    BY <1>1, <2>5, <2>6, <2>8 DEF Sound, OrdersQueued
  <2>10. /\ AtLeastAsGood(s, best, q.price) /\ best \in Int /\ q.price \in Int
    <3>1. best \in Prices /\ AtLeastAsGood(s, best, q.price)
      BY <1>1, <2>8, <2>9, BestPriceBest
    <3>2. q.price \in Prices /\ Prices \subseteq Int
      BY <1>1, <2>8, <2>9, BookParts, BookAssumption DEF BookAssumption
    <3> QED
      BY <3>1, <3>2
  <2>11. o.remaining > 0
    BY <1>1, <2>1, <2>3 DEF Order
  <2>12. o.type = "limit" /\ ~ Crosses(o.side, o.price, best)
    BY <1>2, <2>9, <2>11 DEF CanMatch, o
  <2>13. o.price \in Int
    BY <1>1, <2>12, BookAssumption DEF BookAssumption
  <2> HIDE DEF best, s
  <2> QED
    BY <2>2, <2>3, <2>8, <2>10, <2>12, <2>13 DEF Priority!Reaches, AtLeastAsGood, Crosses
<1>10. ActiveOrder' = None
  BY <1>2, MappingAfter
<1>11. /\ ActiveOrder.remaining = o.remaining /\ ActiveOrder.type = o.type
       /\ View(o, i, id) = ActiveOrder
  BY <1>1 DEF View
<1>12. RestingOrders' = IF ActiveOrder.remaining > 0 /\ ActiveOrder.type = "limit"
                        THEN RestingOrders \union {ActiveOrder} ELSE RestingOrders
  BY <1>8, <1>11
<1> QED
  BY <1>1, <1>2, <1>9, <1>10, <1>12 DEF Priority!Close

LEMMA CancelRefines ==
  ASSUME MatchInv, NEW inst \in Instruments, NEW id \in OrderIds, Cancel(inst, id)
  PROVE  \E r \in RestingOrders : Priority!Withdraw(r)
<1> DEFINE b == books
           c == books'
           book == b[inst]
           v == CancelOrder(book, id)
           none == None.id
           r == View(book.orders[id], inst, id)
<1>1. /\ LockFree /\ submitting' = submitting /\ nextOrder' = nextOrder /\ trades' = trades
      /\ inst \in DOMAIN b /\ BookOf(b, inst) = book /\ book \in Book
      /\ id \in DOMAIN book.orders /\ Sound(book, none) /\ Uncrossed(book)
      /\ b \in PFun(Instruments, Book) /\ none \notin OrderIds /\ \A j \in DOMAIN b : b[j] \in Book
      /\ c = [b EXCEPT ![inst] = v]
  BY PFunDef, NoneNotAnOrder DEF MatchInv, BooksInv, Cancel, LockFree, BookOf
<1> HIDE DEF none, book
<1>2. Disowned(book, id, none, v)
  BY <1>1, CancelSound
<1> HIDE DEF v
<1>3. /\ v \in Book /\ DOMAIN v.orders = DOMAIN book.orders \ {id}
      /\ \A x \in DOMAIN v.orders : v.orders[x] = book.orders[x]
  BY <1>2 DEF Disowned
<1> HIDE DEF b, c
<1>4. DOMAIN c = DOMAIN b /\ c[inst] = v /\ \A j \in DOMAIN b : j # inst => c[j] = b[j]
  BY <1>1, <1>3, ReplaceBook
<1>5. OthersKept(b, none, c, none, inst)
  <2>1. \A j \in DOMAIN b : j # inst => none \notin DOMAIN b[j].orders
    BY <1>1, BookParts
  <2> QED
    BY <1>4, <2>1, OthersKeepViews
<1>6. BookViews(BookOf(c, inst), inst, none) = (BookViews(BookOf(b, inst), inst, none) \ {r}) \union {}
  <2>1. BookOf(c, inst) = v /\ BookOf(b, inst) = book
    BY <1>1, <1>4 DEF BookOf
  <2>2. RestingIn(v, none) = RestingIn(book, none) \ {id}
    BY <1>3 DEF RestingIn
  <2>3. /\ \A x \in RestingIn(v, none) : v.orders[x] = book.orders[x]
        /\ \A x \in RestingIn(book, none) :
             View(book.orders[x], inst, x) = r <=> x = id
    BY <1>3 DEF RestingIn, View
  <2> HIDE DEF r
  <2> QED
    BY <2>1, <2>2, <2>3 DEF BookViews
<1>7. r.inst = inst /\ r \in BookViews(BookOf(b, inst), inst, none)
  <2>1. id \in RestingIn(book, none)
    BY <1>1 DEF RestingIn
  <2> QED
    BY <1>1, <2>1 DEF BookViews, View
<1> HIDE DEF r
<1>8. Views(c, none) = (Views(b, none) \ {r}) \union {}
  <2>1. Rearranged(b, none, c, none, inst, {r}, {})
    BY <1>5, <1>6, <1>7 DEF Rearranged
  <2> QED
    BY <2>1, ViewsChange
<1>9. r \in Views(b, none)
  BY <1>7, ViewMember
<1>10. submitting.id = none /\ submitting'.id = none
  BY <1>1 DEF LockFree, none
<1>11. r \in RestingOrders /\ RestingOrders' = RestingOrders \ {r}
  BY <1>8, <1>9, <1>10, Mapping, MappingAfter DEF b, c
<1>12. ActiveOrder = None /\ ActiveOrder' = None
  BY <1>1, Mapping, MappingAfter DEF LockFree
<1> QED
  BY <1>1, <1>11, <1>12 DEF Priority!Withdraw

LEMMA FrontLeast ==
  ASSUME NEW q \in Seq(OrderIds), q # << >>, Increasing(q), NEW x, Has(q, x)
  PROVE  Head(q) <= x
<1>1. PICK k \in DOMAIN q : q[k] = x
  BY DEF Has
<1>2. /\ DOMAIN q = 1..Len(q) /\ Len(q) \in Nat \ {0} /\ Head(q) = q[1]
      /\ \A j \in 1..Len(q) : q[j] \in OrderIds
  BY LenProperties, EmptySeq, ElementOfSeq, HeadTailProperties
<1>3. 1 \in DOMAIN q /\ (k = 1 \/ 1 < k) /\ q[1] \in Int /\ q[k] \in Int
  BY <1>1, <1>2 DEF OrderIds
<1> QED
  BY <1>1, <1>2, <1>3 DEF Increasing

\* The front of the best opposite level comes before every other candidate.
LEMMA FrontIsFirst ==
  ASSUME NEW book \in Book, NEW id \in DOMAIN book.orders, Sound(book, id), CanMatch(book, id),
         NEW o, o = book.orders[id],
         NEW s, s = Opposite(o.side),
         NEW p, p = BestPrice(book, s),
         NEW queue, queue = book.levels[s][p].queue,
         NEW r, r = Counterpart(book, id),
         NEW exec, exec = ExecQuantity(book, id), NEW i,
         NEW x \in RestingIn(book, id), book.orders[x].side = book.orders[r].side
  PROVE  Priority!Before(View(book.orders[r], i, r), View(book.orders[x], i, x))
<1> DEFINE px == book.orders[x].price
<1>1. /\ s \in Sides /\ p \in DOMAIN book.levels[s] /\ p \in Prices
      /\ \A q \in DOMAIN book.levels[s] : AtLeastAsGood(s, p, q)
      /\ queue \in Seq(OrderIds) /\ queue # << >> /\ Increasing(queue) /\ r = Head(queue)
      /\ r \in DOMAIN book.orders /\ book.orders[r].side = s /\ book.orders[r].price = p
  <2>1. Facing(book, id, o, s, p, queue, r, exec)
    BY MatchFacts
  <2> QED
    BY <2>1 DEF Facing
<1>2. /\ px \in DOMAIN book.levels[s] /\ Has(book.levels[s][px].queue, x)
  BY <1>1 DEF Sound, OrdersQueued
<1>3. p \in Int /\ px \in Int /\ AtLeastAsGood(s, p, px)
  <2>1. px \in Prices /\ Prices \subseteq Int
    BY <1>1, <1>2, BookParts, BookAssumption DEF BookAssumption
  <2> QED
    BY <1>1, <1>2, <2>1
<1>4. px = p => r <= x
  BY <1>1, <1>2, FrontLeast
<1> DEFINE vr == View(book.orders[r], i, r)
           vx == View(book.orders[x], i, x)
<1>5. vr.side = s /\ vr.price = p /\ vr.id = r /\ vx.price = px /\ vx.id = x
  BY <1>1 DEF View
<1> HIDE DEF px, vr, vx
<1>6. CASE s = "buy"
  <2>1. p >= px
    BY <1>3, <1>6 DEF AtLeastAsGood
  <2>2. p > px \/ p = px
    BY <1>3, <2>1
  <2>3. Priority!Before(vr, vx)
    BY <1>4, <1>5, <1>6, <2>2 DEF Priority!Before
  <2> QED
    BY <2>3 DEF vr, vx
<1>7. CASE s = "sell"
  <2>1. p <= px /\ s # "buy"
    BY <1>3, <1>7 DEF AtLeastAsGood
  <2>2. p < px \/ p = px
    BY <1>3, <2>1
  <2>3. Priority!Before(vr, vx)
    BY <1>4, <1>5, <2>1, <2>2 DEF Priority!Before
  <2> QED
    BY <2>3 DEF vr, vx
<1> QED
  BY <1>1, <1>6, <1>7 DEF Sides

LEMMA MatchRefines ==
  MatchInv /\ Match => \E rv \in Priority!Candidates(ActiveOrder), m \in 1..ActiveOrder.remaining :
                         Priority!Trade(rv, m)
<1> SUFFICES ASSUME MatchInv, Match
             PROVE  \E rv \in Priority!Candidates(ActiveOrder), m \in 1..ActiveOrder.remaining :
                      Priority!Trade(rv, m)
  OBVIOUS
<1> DEFINE i == submitting.inst
           id == submitting.id
           b == books
           c == books'
           book == b[i]
           o == book.orders[id]
           s == Opposite(o.side)
           p == BestPrice(book, s)
           old == book.levels[s][p]
           r == Counterpart(book, id)
           exec == ExecQuantity(book, id)
           new == Execute(book, id)
           ov == View(o, i, id)
           rv == View(book.orders[r], i, r)
<1>1. /\ i \in Instruments /\ i \in DOMAIN b /\ BookOf(b, i) = book /\ book \in Book
      /\ id \in DOMAIN book.orders /\ id \in OrderIds /\ Sound(book, id)
      /\ ActiveOrder = ov /\ ActiveOrder # None
      /\ \A j \in DOMAIN b : j # i => id \notin DOMAIN b[j].orders
  BY ActiveFacts DEF Match
<1>2. /\ CanMatch(book, id) /\ c = [b EXCEPT ![i] = new] /\ nextOrder' = nextOrder
      /\ trades' = Append(trades, NextTrade)
      /\ submitting' = [submitting EXCEPT !.trades = Append(@, NextTrade)]
      /\ b \in PFun(Instruments, Book) /\ NextTrade \in Trade /\ trades \in Seq(Trade)
  BY NextTradeType DEF Match, MatchInv, BooksInv, RecordsInv
<1>3. submitting'.inst = i /\ submitting'.id = id /\ submitting' # None
  <2>1. submitting \in [inst: Instruments, id: OrderIds, trades: Seq(Trade)]
    BY DEF MatchInv, BooksInv, Match, LockFree, InHand
  <2>2. submitting'.inst = i /\ submitting'.id = id
    BY <1>2, <2>1
  <2> QED
    BY <1>1, <2>2, NoneNotAnOrder
<1>4. Facing(book, id, o, s, p, old.queue, r, exec) /\ Executing(book, id, s, p, r, exec, new)
  <2> HIDE DEF book, id
  <2>1. Facing(book, id, o, s, p, old.queue, r, exec)
    BY <1>1, <1>2, MatchFacts
  <2>2. Executing(book, id, s, p, r, exec, new)
    BY <1>1, <1>2, ExecuteFacts
  <2> QED
    BY <2>1, <2>2
<1>a. o = book.orders[id] /\ book = b[i]
  OBVIOUS
<1> HIDE DEF b, c, i, id, book, o, s, p, old, r, exec, new
<1>5. /\ o \in Order /\ s \in Sides /\ s # o.side
      /\ o.type = "limit" => Crosses(o.side, o.price, p)
      /\ r \in RestingIn(book, id) /\ r \in DOMAIN book.orders /\ r # id
      /\ book.orders[r].side = s /\ book.orders[r].price = p
      /\ book.orders[r].remaining \in Nat \ {0} /\ o.remaining \in Nat \ {0}
      /\ exec \in Nat \ {0} /\ exec <= o.remaining /\ exec <= book.orders[r].remaining
      /\ exec = o.remaining \/ exec = book.orders[r].remaining
  BY <1>4 DEF Facing
<1>6. /\ new \in Book
      /\ DOMAIN new.orders = IF book.orders[r].remaining = exec THEN DOMAIN book.orders \ {r}
                             ELSE DOMAIN book.orders
      /\ \A x \in DOMAIN new.orders :
           /\ new.orders[x].side = book.orders[x].side
           /\ new.orders[x].type = book.orders[x].type
           /\ new.orders[x].price = book.orders[x].price
           /\ new.orders[x].quantity = book.orders[x].quantity
           /\ new.orders[x].remaining = IF x \in {id, r} THEN book.orders[x].remaining - exec
                                        ELSE book.orders[x].remaining
           /\ x \notin {id, r} => new.orders[x] = book.orders[x]
  BY <1>4 DEF Executing
<1>7. DOMAIN c = DOMAIN b /\ c[i] = new /\ \A j \in DOMAIN b : j # i => c[j] = b[j]
  BY <1>1, <1>2, <1>6, ReplaceBook
<1>8. /\ ov.id = id /\ ov.inst = i /\ ov.side = o.side /\ ov.type = o.type /\ ov.price = o.price
      /\ ov.remaining = o.remaining
      /\ rv.id = r /\ rv.inst = i /\ rv.side = s /\ rv.type = book.orders[r].type /\ rv.price = p
      /\ rv.remaining = book.orders[r].remaining
  BY <1>5 DEF View
<1>9. rv \in Priority!Candidates(ActiveOrder)
  <2>1. rv \in BookViews(BookOf(b, i), i, id)
    BY <1>1, <1>5 DEF BookViews
  <2>2. rv \in Views(b, id)
    BY <1>1, <2>1, ViewMember
  <2>3. rv \in RestingOrders
    BY <2>2, Mapping DEF b, id
  <2>4. Priority!Reaches(ov, p)
    <3>1. CASE o.type = "market"
      BY <1>8, <3>1 DEF Priority!Reaches
    <3>2. CASE o.type = "limit"
      BY <1>5, <1>8, <3>2 DEF Priority!Reaches, Crosses, Order, Sides
    <3> QED
      BY <1>5, <3>1, <3>2 DEF Order, Types
  <2> HIDE DEF rv, ov
  <2> QED
    BY <1>1, <1>5, <1>8, <2>3, <2>4 DEF Priority!Candidates
<1>10. \A q \in Priority!Candidates(ActiveOrder) : Priority!Before(rv, q)
  <2> SUFFICES ASSUME NEW q \in Priority!Candidates(ActiveOrder) PROVE Priority!Before(rv, q)
    OBVIOUS
  <2>1. q \in RestingOrders /\ q.inst = i /\ q.side # o.side
    BY <1>1, <1>8 DEF Priority!Candidates
  <2>2. q \in Views(b, id)
    BY <2>1, Mapping DEF b, id
  <2>3. q \in BookViews(BookOf(b, i), i, id)
    BY <1>1, <2>1, <2>2, ViewMember
  <2>4. PICK x \in RestingIn(book, id) : q = View(book.orders[x], i, x)
    BY <1>1, <2>3 DEF BookViews
  <2>5. book.orders[x].side = s
    <3>1. x \in DOMAIN book.orders /\ q.side = book.orders[x].side
      BY <2>4 DEF RestingIn, View
    <3>2. book.orders[x].side \in Sides
      BY <1>1, <3>1, BookParts DEF Order
    <3> QED
      BY <1>5, <2>1, <3>1, <3>2 DEF Sides, Order
  <2>6. book.orders[x].side = book.orders[r].side
    BY <1>5, <2>5
  <2>7. Priority!Before(View(book.orders[r], i, r), View(book.orders[x], i, x))
    <3>1. /\ o = book.orders[id] /\ s = Opposite(o.side) /\ p = BestPrice(book, s)
          /\ r = Counterpart(book, id) /\ exec = ExecQuantity(book, id)
      BY DEF o, s, p, r, exec
    <3> QED
      BY <1>1, <1>2, <2>6, <3>1, FrontIsFirst
  <2> QED
    BY <2>4, <2>7
<1>11. ActiveOrder' = [ActiveOrder EXCEPT !.remaining = @ - exec]
  <2>1. id \in DOMAIN new.orders
    BY <1>1, <1>5, <1>6
  <2>2. /\ new.orders[id].side = o.side /\ new.orders[id].type = o.type
        /\ new.orders[id].price = o.price /\ new.orders[id].remaining = o.remaining - exec
    BY <1>6, <1>a, <2>1
  <2>3. BookOf(c, i) = new
    BY <1>1, <1>7 DEF BookOf
  <2>4. ActiveOrder' = View(new.orders[id], i, id)
    BY <1>3, <2>3, MappingAfter DEF c
  <2> QED
    BY <1>1, <2>2, <2>4 DEF View
<1>12. RestingOrders' = IF exec = rv.remaining THEN RestingOrders \ {rv}
                        ELSE (RestingOrders \ {rv}) \union {[rv EXCEPT !.remaining = @ - exec]}
  <2> DEFINE left == [rv EXCEPT !.remaining = @ - exec]
             Y == IF exec = rv.remaining THEN {} ELSE {left}
  <2>1. OthersKept(b, id, c, id, i)
    BY <1>1, <1>7, OthersKeepViews
  <2>2. BookViews(BookOf(c, i), i, id) = (BookViews(BookOf(b, i), i, id) \ {rv}) \union Y
    <3>1. BookOf(c, i) = new /\ BookOf(b, i) = book
      BY <1>1, <1>7 DEF BookOf
    <3>2. RestingIn(new, id) = IF rv.remaining = exec THEN RestingIn(book, id) \ {r}
                               ELSE RestingIn(book, id)
      BY <1>6, <1>8 DEF RestingIn
    <3>3. \A x \in RestingIn(new, id) : x # r => View(new.orders[x], i, x) = View(book.orders[x], i, x)
      BY <1>6 DEF RestingIn
    <3>4. rv.remaining # exec => View(new.orders[r], i, r) = left
      <4> SUFFICES ASSUME rv.remaining # exec PROVE View(new.orders[r], i, r) = left
        OBVIOUS
      <4>1. r \in DOMAIN new.orders
        BY <1>5, <1>6, <1>8
      <4>2. /\ new.orders[r].side = book.orders[r].side /\ new.orders[r].type = book.orders[r].type
            /\ new.orders[r].price = book.orders[r].price
            /\ new.orders[r].remaining = book.orders[r].remaining - exec
        BY <1>6, <4>1
      <4> QED
        BY <4>2 DEF View
    <3>5. \A x \in RestingIn(book, id) : View(book.orders[x], i, x) = rv <=> x = r
      BY DEF View
    <3> HIDE DEF left, rv
    <3>6. CASE rv.remaining = exec
      <4>1. RestingIn(new, id) = RestingIn(book, id) \ {r} /\ Y = {}
        BY <3>2, <3>6
      <4> HIDE DEF Y
      <4> QED
        BY <3>1, <3>3, <3>5, <4>1 DEF BookViews
    <3>7. CASE rv.remaining # exec
      <4>1. /\ RestingIn(new, id) = RestingIn(book, id) /\ Y = {left}
            /\ View(new.orders[r], i, r) = left
        BY <3>2, <3>4, <3>7
      <4> HIDE DEF Y
      <4>2. BookViews(book, i, id) \ {rv} = {View(book.orders[x], i, x) : x \in RestingIn(book, id) \ {r}}
        BY <3>5 DEF BookViews
      <4>3. BookViews(new, i, id)
              = {View(book.orders[x], i, x) : x \in RestingIn(book, id) \ {r}} \union {left}
        BY <1>5, <3>3, <4>1 DEF BookViews
      <4> QED
        BY <3>1, <4>1, <4>2, <4>3
    <3> QED
      BY <3>6, <3>7
  <2> HIDE DEF Y
  <2>3. Views(c, id) = (Views(b, id) \ {rv}) \union Y
    <3>1. \A x \in {rv} : x.inst = i
      BY <1>8
    <3> DEFINE X == {rv}
    <3> HIDE DEF rv
    <3>2. Rearranged(b, id, c, id, i, X, Y)
      BY <2>1, <2>2, <3>1 DEF Rearranged
    <3> HIDE DEF X
    <3>3. Views(c, id) = (Views(b, id) \ X) \union Y
      BY <1>1, <3>2, ViewsChange
    <3> QED
      BY <3>3 DEF X
  <2>4. RestingOrders = Views(b, id) /\ RestingOrders' = Views(c, id)
    BY <1>3, Mapping, MappingAfter DEF b, c, id
  <2>5. CASE exec = rv.remaining
    <3>1. Y = {}
      BY <2>5 DEF Y
    <3> QED
      BY <2>3, <2>4, <2>5, <3>1
  <2>6. CASE exec # rv.remaining
    <3>1. Y = {left}
      BY <2>6 DEF Y
    <3> QED
      BY <2>3, <2>4, <2>6, <3>1
  <2> QED
    BY <2>5, <2>6
<1>13. Prints(trades') = Append(Prints(trades),
         [inst |-> rv.inst, price |-> rv.price, quantity |-> exec,
          buy |-> IF rv.side = "buy" THEN rv.id ELSE ActiveOrder.id,
          sell |-> IF rv.side = "buy" THEN ActiveOrder.id ELSE rv.id])
  <2>1. PrintOf(NextTrade) =
          [inst |-> i, price |-> book.orders[r].price, quantity |-> exec,
           buy |-> IF o.side = "buy" THEN id ELSE r, sell |-> IF o.side = "buy" THEN r ELSE id]
    BY DEF PrintOf, NextTrade, i, b, book, o, r, id, exec
  <2>2. Prints(trades') = Append(Prints(trades), PrintOf(NextTrade))
    BY <1>2, PrintsAppend
  <2>3. (o.side = "buy" /\ s = "sell") \/ (o.side = "sell" /\ s = "buy")
    BY <1>5 DEF Sides, Order
  <2>4. ActiveOrder.id = id
    BY <1>1, <1>8
  <2> HIDE DEF rv
  <2> QED
    BY <1>5, <1>8, <2>1, <2>2, <2>3, <2>4
<1>14. exec \in 1..ActiveOrder.remaining
  BY <1>1, <1>5, <1>8
<1> HIDE DEF rv, ov
<1>15. Priority!Trade(rv, exec)
  <2>1. exec > 0 /\ exec <= ActiveOrder.remaining /\ exec <= rv.remaining
    BY <1>1, <1>5, <1>8
  <2>2. exec = ActiveOrder.remaining \/ exec = rv.remaining
    BY <1>1, <1>5, <1>8
  <2>3. (1..(nextOrder - 1))' = 1..(nextOrder - 1)
    BY <1>2
  <2> QED
    BY <1>1, <1>9, <1>10, <1>11, <1>12, <1>13, <2>1, <2>2, <2>3
       DEF Priority!Trade, Prints, PrintOf
<1>16. \E m \in 1..ActiveOrder.remaining : Priority!Trade(rv, m)
  BY <1>14, <1>15 DEF Priority!Trade
<1> QED
  BY <1>9, <1>16 DEF Priority!Trade

\* Every step of the engine is one of price-time priority, or changes nothing it sees.
LEMMA NextRefines == MatchInv /\ [Next]_engineVars => [Priority!Next]_(Priority!priorityVars)
<1> SUFFICES ASSUME MatchInv, [Next]_engineVars PROVE [Priority!Next]_(Priority!priorityVars)
  OBVIOUS
<1>1. ASSUME NEW inst \in Instruments, NEW side \in Sides, NEW q \in Quantities, NEW p \in Prices,
             Submit(inst, "limit", side, p, q)
      PROVE  Priority!Next
  <2>1. Priority!Arrive([id |-> nextOrder, inst |-> inst, side |-> side, type |-> "limit",
                         price |-> p, remaining |-> q])
    <3>1. "limit" \in Types
      BY DEF Types
    <3> QED
      BY <1>1, <3>1, SubmitRefines
  <2>2. nextOrder \in OrderIds
    BY <1>1, EngineAssumption DEF Submit, MatchInv, BooksInv, OrderIds, EngineAssumption
  <2> QED
    BY <2>1, <2>2 DEF Priority!Next, Sides
<1>2. ASSUME NEW inst \in Instruments, NEW side \in Sides, NEW q \in Quantities,
             Submit(inst, "market", side, NoPrice, q)
      PROVE  Priority!Next
  <2>1. Priority!Arrive([id |-> nextOrder, inst |-> inst, side |-> side, type |-> "market",
                         price |-> 0, remaining |-> q])
    <3>1. "market" \in Types /\ "market" # "limit" /\ NoPrice = 0
      BY DEF Types, NoPrice
    <3>2. Priority!Arrive([id |-> nextOrder, inst |-> inst, side |-> side, type |-> "market",
                           price |-> NoPrice, remaining |-> q])
      BY <1>2, <3>1, SubmitRefines
    <3> QED
      BY <3>1, <3>2
  <2>2. nextOrder \in OrderIds
    BY <1>2, EngineAssumption DEF Submit, MatchInv, BooksInv, OrderIds, EngineAssumption
  <2> QED
    BY <2>1, <2>2 DEF Priority!Next, Sides
<1>3. CASE Match
  <2>1. ActiveOrder # None
    BY <1>3, ActiveFacts DEF Match
  <2> QED
    BY <1>3, <2>1, MatchRefines DEF Priority!Next
<1>4. CASE Finish
  BY <1>4, FinishRefines DEF Priority!Next
<1>5. ASSUME NEW inst \in Instruments, NEW id \in OrderIds, Cancel(inst, id)
      PROVE  Priority!Next
  BY <1>5, CancelRefines DEF Priority!Next
<1>6. CASE UNCHANGED engineVars
  <2>1. UNCHANGED <<RestingOrders, ActiveOrder>>
    BY <1>6, Mapping, MappingAfter DEF engineVars, LockFree
  <2> QED
    BY <1>6, <2>1 DEF Priority!priorityVars, engineVars
<1> QED
  BY <1>1, <1>2, <1>3, <1>4, <1>5, <1>6 DEF Next

\* The engine implements its promise: every execution of an incoming order is with the
\* resting order that comes first by price and then by time, at the resting order's price.
THEOREM PriceTimePriorityHolds == Spec => PriceTimePriorityKept
<1>1. Init => Priority!Init
  BY InitRefines
<1>2. Spec => []MatchInv
  BY InitInv, NextKeepsInv, PTL DEF Spec
<1> QED
  BY <1>1, <1>2, NextRefines, PTL DEF Spec, PriceTimePriorityKept, Priority!Spec

-----------------------------------------------------------------------------
(* The trades of a sequence that are in a set.                             *)

KeptStep(ts, S, f, n) ==
  IF n = 0 THEN << >> ELSE IF ts[n] \in S THEN Append(f[n - 1], ts[n]) ELSE f[n - 1]
Kept(ts, S) == CHOOSE f : f = [n \in 0..Len(ts) |-> KeptStep(ts, S, f, n)]

LEMMA AmongIsKept == \A ts, S : Among(ts, S) = Kept(ts, S)[Len(ts)]
  BY DEF Among, Kept, KeptStep

\* The recursion has a solution.
LEMMA KeptSolves ==
  ASSUME NEW ts, NEW S, Len(ts) \in Nat
  PROVE  \A n \in 0..Len(ts) : Kept(ts, S)[n] = KeptStep(ts, S, Kept(ts, S), n)
<1> DEFINE N == 0..Len(ts)
           Solves(f, m) == /\ f = [n \in N |-> f[n]]
                           /\ \A n \in N : n <= m => f[n] = KeptStep(ts, S, f, n)
           Lengths == {m \in Nat : \E f : Solves(f, m)}
<1>1. 0 \in Lengths
  <2>1. Solves([n \in N |-> << >>], 0)
    BY DEF KeptStep
  <2> QED
    BY <2>1
<1>2. \A m \in Nat : m \in Lengths => m + 1 \in Lengths
  <2> SUFFICES ASSUME NEW m \in Nat, m \in Lengths PROVE m + 1 \in Lengths
    OBVIOUS
  <2>0. PICK f : Solves(f, m)
    OBVIOUS
  <2> DEFINE g == [n \in N |-> IF n <= m THEN f[n] ELSE KeptStep(ts, S, f, n)]
  <2>1. ASSUME NEW n \in N, n <= m + 1 PROVE g[n] = KeptStep(ts, S, g, n)
    <3>1. g[n] = KeptStep(ts, S, f, n)
      BY <2>0
    <3>2. CASE n = 0
      BY <3>1, <3>2 DEF KeptStep
    <3>3. CASE n # 0
      <4>1. n - 1 \in N /\ n - 1 <= m
        BY <2>1, <3>3
      <4>2. g[n - 1] = f[n - 1]
        BY <4>1
      <4> QED
        BY <3>1, <3>3, <4>2 DEF KeptStep
    <3> QED
      BY <3>2, <3>3
  <2>2. Solves(g, m + 1)
    BY <2>1
  <2> HIDE DEF g, Solves
  <2> QED
    BY <2>2
<1>3. Len(ts) \in Lengths
  <2> HIDE DEF Lengths
  <2> QED
    BY <1>1, <1>2, NatSetInduction
<1>4. PICK f : Solves(f, Len(ts))
  BY <1>3
<1>5. f = [n \in N |-> KeptStep(ts, S, f, n)]
  <2>1. \A n \in N : f[n] = KeptStep(ts, S, f, n)
    BY <1>4
  <2> QED
    BY <1>4, <2>1
<1>6. Kept(ts, S) = [n \in N |-> KeptStep(ts, S, Kept(ts, S), n)]
  BY <1>5 DEF Kept
<1> QED
  BY <1>6

\* What is kept of a prefix does not depend on what follows it.
LEMMA KeptAgree ==
  ASSUME NEW ts, NEW us, NEW S, Len(ts) \in Nat, Len(us) \in Nat,
         NEW m \in Nat, m <= Len(ts), m <= Len(us), \A k \in 1..m : ts[k] = us[k]
  PROVE  Kept(ts, S)[m] = Kept(us, S)[m]
<1> DEFINE Same == {n \in Nat : n <= m => Kept(ts, S)[n] = Kept(us, S)[n]}
<1>1. /\ \A n \in 0..Len(ts) : Kept(ts, S)[n] = KeptStep(ts, S, Kept(ts, S), n)
      /\ \A n \in 0..Len(us) : Kept(us, S)[n] = KeptStep(us, S, Kept(us, S), n)
  BY KeptSolves
<1>2. 0 \in Same
  BY <1>1 DEF KeptStep
<1>3. \A n \in Nat : n \in Same => n + 1 \in Same
  <2> SUFFICES ASSUME NEW n \in Nat, n \in Same, n + 1 <= m
               PROVE  Kept(ts, S)[n + 1] = Kept(us, S)[n + 1]
    OBVIOUS
  <2>1. n + 1 \in 0..Len(ts) /\ n + 1 \in 0..Len(us) /\ n + 1 # 0 /\ (n + 1) - 1 = n
        /\ n + 1 \in 1..m
    OBVIOUS
  <2>2. ts[n + 1] = us[n + 1] /\ Kept(ts, S)[n] = Kept(us, S)[n]
    BY <2>1
  <2>3. /\ Kept(ts, S)[n + 1] = KeptStep(ts, S, Kept(ts, S), n + 1)
        /\ Kept(us, S)[n + 1] = KeptStep(us, S, Kept(us, S), n + 1)
    BY <1>1, <2>1
  <2> QED
    BY <2>1, <2>2, <2>3 DEF KeptStep
<1>4. m \in Same
  <2> HIDE DEF Same
  <2> QED
    BY <1>2, <1>3, NatSetInduction
<1> QED
  BY <1>4

LEMMA KeptType ==
  ASSUME NEW T, NEW ts \in Seq(T), NEW S
  PROVE  \A n \in 0..Len(ts) : Kept(ts, S)[n] \in Seq(T)
<1> DEFINE Typed == {n \in Nat : n <= Len(ts) => Kept(ts, S)[n] \in Seq(T)}
<1>0. Len(ts) \in Nat /\ \A k \in 1..Len(ts) : ts[k] \in T
  BY LenProperties, ElementOfSeq
<1>1. \A n \in 0..Len(ts) : Kept(ts, S)[n] = KeptStep(ts, S, Kept(ts, S), n)
  BY <1>0, KeptSolves
<1>2. 0 \in Typed
  <2>1. << >> \in Seq(T) /\ 0 \in 0..Len(ts)
    BY <1>0
  <2>2. Kept(ts, S)[0] = << >>
    BY <1>1, <2>1 DEF KeptStep
  <2> QED
    BY <2>1, <2>2
<1>3. \A n \in Nat : n \in Typed => n + 1 \in Typed
  <2> SUFFICES ASSUME NEW n \in Nat, n \in Typed, n + 1 <= Len(ts)
               PROVE  Kept(ts, S)[n + 1] \in Seq(T)
    OBVIOUS
  <2>1. n + 1 \in 0..Len(ts) /\ n + 1 \in 1..Len(ts) /\ n + 1 # 0 /\ (n + 1) - 1 = n
        /\ n <= Len(ts)
    BY <1>0
  <2>2. Kept(ts, S)[n] \in Seq(T) /\ ts[n + 1] \in T
    BY <1>0, <2>1
  <2>3. Append(Kept(ts, S)[n], ts[n + 1]) \in Seq(T)
    BY <2>2, AppendProperties
  <2>4. Kept(ts, S)[n + 1] = KeptStep(ts, S, Kept(ts, S), n + 1)
    BY <1>1, <2>1
  <2> QED
    BY <2>1, <2>2, <2>3, <2>4 DEF KeptStep
<1>4. Nat \subseteq Typed
  <2> HIDE DEF Typed
  <2> QED
    BY <1>2, <1>3, NatSetInduction
<1> QED
  BY <1>0, <1>4

LEMMA AmongType == \A T, S : \A ts \in Seq(T) : Among(ts, S) \in Seq(T)
<1> SUFFICES ASSUME NEW T, NEW S, NEW ts \in Seq(T) PROVE Among(ts, S) \in Seq(T)
  OBVIOUS
<1>1. Len(ts) \in 0..Len(ts)
  BY LenProperties
<1> QED
  BY <1>1, KeptType, AmongIsKept

LEMMA AmongEmpty == \A S : Among(<< >>, S) = << >>
<1> SUFFICES ASSUME NEW S PROVE Among(<< >>, S) = << >>
  OBVIOUS
<1> DEFINE e == << >>
<1>1. Len(e) = 0
  OBVIOUS
<1>2. Kept(e, S)[0] = KeptStep(e, S, Kept(e, S), 0)
  <2>1. Len(e) \in Nat /\ 0 \in 0..Len(e)
    BY <1>1
  <2> HIDE DEF e
  <2> QED
    BY <2>1, KeptSolves
<1> HIDE DEF e
<1>3. Among(e, S) = << >>
  BY <1>1, <1>2, AmongIsKept DEF KeptStep
<1> QED
  BY <1>3 DEF e

\* A trade more.
LEMMA AmongAppend ==
  ASSUME NEW T, NEW ts \in Seq(T), NEW t \in T, NEW S
  PROVE  Among(Append(ts, t), S) = IF t \in S THEN Append(Among(ts, S), t) ELSE Among(ts, S)
<1> DEFINE us == Append(ts, t)
           n == Len(ts)
<1>1. /\ us \in Seq(T) /\ Len(us) = n + 1 /\ n \in Nat /\ us[n + 1] = t
      /\ \A k \in 1..n : us[k] = ts[k]
  BY AppendProperties, LenProperties
<1> HIDE DEF us, n
<1>2. Kept(us, S)[n + 1] = KeptStep(us, S, Kept(us, S), n + 1)
  <2>1. Len(us) \in Nat /\ n + 1 \in 0..Len(us)
    BY <1>1
  <2> QED
    BY <2>1, KeptSolves
<1>3. Kept(us, S)[n] = Kept(ts, S)[n]
  <2>1. /\ Len(us) \in Nat /\ n <= Len(us) /\ Len(ts) \in Nat /\ n <= Len(ts)
        /\ \A k \in 1..n : us[k] = ts[k]
    BY <1>1 DEF n
  <2> QED
    BY <1>1, <2>1, KeptAgree
<1>4. Among(us, S) = Kept(us, S)[n + 1] /\ Among(ts, S) = Kept(ts, S)[n]
  BY <1>1, AmongIsKept DEF n
<1>5. n + 1 # 0 /\ (n + 1) - 1 = n
  BY <1>1
<1>6. Among(us, S) = IF t \in S THEN Append(Among(ts, S), t) ELSE Among(ts, S)
  BY <1>1, <1>2, <1>3, <1>4, <1>5 DEF KeptStep
<1> QED
  BY <1>6 DEF us

\* A queue that a trade is appended to.
LEMMA AppendOfConcat ==
  ASSUME NEW T, NEW s \in Seq(T), NEW t \in Seq(T), NEW e \in T
  PROVE  s \o Append(t, e) = Append(s \o t, e) /\ s \o t \in Seq(T)
<1>1. <<e>> \in Seq(T) /\ s \o t \in Seq(T)
  BY ConcatProperties
<1>2. Append(t, e) = t \o <<e>> /\ Append(s \o t, e) = (s \o t) \o <<e>>
  BY <1>1, AppendIsConcat
<1>3. (s \o t) \o <<e>> = s \o (t \o <<e>>)
  BY <1>1, ConcatAssociative
<1> QED
  BY <1>1, <1>2, <1>3

LEMMA AmongConcat ==
  ASSUME NEW T, NEW ts \in Seq(T), NEW us \in Seq(T), NEW S
  PROVE  Among(ts \o us, S) = Among(ts, S) \o Among(us, S)
<1> DEFINE G == {n \in Nat : \A vs \in Seq(T) :
                   Len(vs) = n => Among(ts \o vs, S) = Among(ts, S) \o Among(vs, S)}
<1>0. Among(ts, S) \in Seq(T)
  BY AmongType
<1>1. 0 \in G
  <2> SUFFICES ASSUME NEW vs \in Seq(T), Len(vs) = 0
               PROVE  Among(ts \o vs, S) = Among(ts, S) \o Among(vs, S)
    OBVIOUS
  <2>1. vs = << >>
    BY EmptySeq
  <2>2. ts \o vs = ts
    BY <2>1, ConcatEmptySeq
  <2>3. Among(vs, S) = << >>
    BY <2>1, AmongEmpty
  <2>4. Among(ts, S) \o << >> = Among(ts, S)
    BY <1>0, ConcatEmptySeq
  <2> QED
    BY <2>2, <2>3, <2>4
<1>2. \A n \in Nat : n \in G => n + 1 \in G
  <2> SUFFICES ASSUME NEW n \in Nat, n \in G PROVE n + 1 \in G
    OBVIOUS
  <2> SUFFICES ASSUME NEW vs \in Seq(T), Len(vs) = n + 1
               PROVE  Among(ts \o vs, S) = Among(ts, S) \o Among(vs, S)
    OBVIOUS
  <2>1. vs # << >>
    BY EmptySeq
  <2>2. PICK ws \in Seq(T), e \in T : vs = Append(ws, e)
    BY <2>1, SequenceEmptyOrAppend
  <2>3. Len(ws) = n
    BY <2>2, AppendProperties, LenProperties
  <2>4. Among(ts \o ws, S) = Among(ts, S) \o Among(ws, S)
    BY <2>3
  <2>5. ts \o vs = Append(ts \o ws, e) /\ ts \o ws \in Seq(T)
    BY <2>2, AppendOfConcat
  <2>6. Among(ts \o vs, S) = IF e \in S THEN Append(Among(ts \o ws, S), e) ELSE Among(ts \o ws, S)
    <3> DEFINE both == ts \o ws
    <3>1. both \in Seq(T) /\ ts \o vs = Append(both, e)
      BY <2>5
    <3> HIDE DEF both
    <3>2. Among(Append(both, e), S) = IF e \in S THEN Append(Among(both, S), e) ELSE Among(both, S)
      BY <3>1, AmongAppend
    <3> QED
      BY <3>1, <3>2 DEF both
  <2>7. Among(vs, S) = IF e \in S THEN Append(Among(ws, S), e) ELSE Among(ws, S)
    BY <2>2, AmongAppend
  <2>8. Among(ts, S) \o Append(Among(ws, S), e) = Append(Among(ts, S) \o Among(ws, S), e)
    BY <1>0, AmongType, AppendOfConcat
  <2> QED
    BY <2>4, <2>6, <2>7, <2>8
<1>3. Nat \subseteq G
  <2> HIDE DEF G
  <2> QED
    BY <1>1, <1>2, NatSetInduction
<1> QED
  BY <1>3, LenProperties

-----------------------------------------------------------------------------
(* Newest first.                                                           *)

LEMMA ReverseFacts ==
  ASSUME NEW T, NEW s \in Seq(T)
  PROVE  /\ Reverse(s) \in Seq(T) /\ Len(Reverse(s)) = Len(s)
         /\ \A k \in 1..Len(s) : Reverse(s)[k] = s[(Len(s) - k) + 1]
<1>1. /\ Len(s) \in Nat /\ \A k \in 1..Len(s) : s[k] \in T
  BY LenProperties, ElementOfSeq
<1> DEFINE n == Len(s)
           r == Reverse(s)
<1>2. r = [i \in 1..n |-> s[(n - i) + 1]]
  BY DEF Reverse
<1> HIDE DEF n, r
<1>3. \A i \in 1..n : (n - i) + 1 \in 1..n
  BY <1>1 DEF n
<1>4. r \in [1..n -> T]
  BY <1>1, <1>2, <1>3 DEF n
<1>5. r \in Seq(T)
  BY <1>1, <1>4, SeqDef DEF n
<1>6. Len(r) = n
  <2>1. DOMAIN r = 1..n /\ DOMAIN r = 1..Len(r) /\ Len(r) \in Nat
    BY <1>4, <1>5, LenProperties
  <2> QED
    BY <1>1, <2>1 DEF n
<1> QED
  BY <1>2, <1>5, <1>6 DEF n, r

LEMMA ReverseConcat ==
  ASSUME NEW T, NEW s \in Seq(T), NEW t \in Seq(T)
  PROVE  Reverse(s \o t) = Reverse(t) \o Reverse(s)
<1> DEFINE a == Len(s)
           b == Len(t)
           u == s \o t
           rs == Reverse(s)
           rt == Reverse(t)
           ru == Reverse(u)
           v == rt \o rs
<1>1. a \in Nat /\ b \in Nat /\ u \in Seq(T) /\ Len(u) = a + b
      /\ \A k \in 1..(a + b) : u[k] = IF k <= a THEN s[k] ELSE t[k - a]
  BY LenProperties, ConcatProperties
<1>2. /\ rs \in Seq(T) /\ Len(rs) = a /\ \A k \in 1..a : rs[k] = s[(a - k) + 1]
      /\ rt \in Seq(T) /\ Len(rt) = b /\ \A k \in 1..b : rt[k] = t[(b - k) + 1]
  BY ReverseFacts
<1> HIDE DEF u
<1>3. ru \in Seq(T) /\ Len(ru) = a + b /\ \A k \in 1..(a + b) : ru[k] = u[((a + b) - k) + 1]
  <2> DEFINE c == Len(u)
  <2>1. /\ ru \in Seq(T) /\ Len(ru) = c
        /\ \A k \in 1..c : ru[k] = u[(c - k) + 1]
    BY <1>1, ReverseFacts
  <2>2. c = a + b
    BY <1>1
  <2> HIDE DEF c, ru, a, b
  <2> QED
    BY <2>1, <2>2
<1> HIDE DEF rs, rt, ru
<1>4. /\ v \in Seq(T) /\ Len(v) = b + a
      /\ \A k \in 1..(b + a) : v[k] = IF k <= b THEN rt[k] ELSE rs[k - b]
  <2>1. rs \in Seq(T) /\ rt \in Seq(T) /\ Len(rs) = a /\ Len(rt) = b
    BY <1>2
  <2>2. /\ v \in Seq(T) /\ Len(v) = Len(rt) + Len(rs)
        /\ \A k \in 1..(Len(rt) + Len(rs)) :
             v[k] = IF k <= Len(rt) THEN rt[k] ELSE rs[k - Len(rt)]
    BY <2>1, ConcatProperties
  <2> HIDE DEF v, a, b
  <2> QED
    BY <2>1, <2>2
<1> HIDE DEF v, a, b
<1>5. ASSUME NEW k \in 1..(a + b) PROVE ru[k] = v[k]
  <2>1. ru[k] = u[((a + b) - k) + 1] /\ ((a + b) - k) + 1 \in 1..(a + b)
    BY <1>1, <1>3
  <2>2. CASE k <= b
    <3>1. /\ ~ (((a + b) - k) + 1 <= a) /\ (((a + b) - k) + 1) - a = (b - k) + 1 /\ k \in 1..b
          /\ k \in 1..(b + a)
      BY <1>1, <2>2
    <3>2. u[((a + b) - k) + 1] = t[(b - k) + 1]
      BY <1>1, <2>1, <3>1
    <3>3. v[k] = t[(b - k) + 1]
      BY <1>2, <1>4, <2>2, <3>1
    <3> QED
      BY <2>1, <3>2, <3>3
  <2>3. CASE ~ (k <= b)
    <3>1. /\ ((a + b) - k) + 1 <= a /\ k - b \in 1..a /\ k \in 1..(b + a)
          /\ (a - (k - b)) + 1 = ((a + b) - k) + 1
      BY <1>1, <2>3
    <3>2. u[((a + b) - k) + 1] = s[((a + b) - k) + 1]
      BY <1>1, <2>1, <3>1
    <3>3. v[k] = rs[k - b]
      BY <1>4, <2>3, <3>1
    <3>4. rs[k - b] = s[(a - (k - b)) + 1]
      BY <1>2, <3>1
    <3> QED
      BY <2>1, <3>1, <3>2, <3>3, <3>4
  <2> QED
    BY <2>2, <2>3
<1>6. Len(ru) = Len(v) /\ \A k \in 1..Len(ru) : ru[k] = v[k]
  <2>1. Len(ru) = a + b /\ Len(v) = a + b
    BY <1>1, <1>3, <1>4
  <2> QED
    BY <1>5, <2>1
<1>7. ru = v
  BY <1>3, <1>4, <1>6, SeqEqual
<1> QED
  BY <1>7 DEF ru, u, v, rs, rt

LEMMA ReverseShort ==
  /\ Reverse(<< >>) = << >>
  /\ \A e : Reverse(<<e>>) = <<e>>
<1>1. Reverse(<< >>) = << >>
  <2>1. << >> \in Seq({}) /\ Len(<< >>) = 0
    OBVIOUS
  <2>2. Reverse(<< >>) \in Seq({}) /\ Len(Reverse(<< >>)) = 0
    BY <2>1, ReverseFacts
  <2> QED
    BY <2>2, EmptySeq
<1>2. ASSUME NEW e PROVE Reverse(<<e>>) = <<e>>
  <2> DEFINE s == <<e>>
  <2>1. s \in Seq({e}) /\ Len(s) = 1 /\ s[1] = e
    OBVIOUS
  <2> HIDE DEF s
  <2>2. Reverse(s) \in Seq({e}) /\ Len(Reverse(s)) = 1 /\ \A k \in 1..1 : Reverse(s)[k] = s[(1 - k) + 1]
    BY <2>1, ReverseFacts
  <2>3. \A k \in 1..1 : Reverse(s)[k] = s[k]
    BY <2>2
  <2>4. Reverse(s) = s
    BY <2>1, <2>2, <2>3, SeqEqual
  <2> QED
    BY <2>4 DEF s
<1> QED
  BY <1>1, <1>2

LEMMA AmongOne ==
  ASSUME NEW e, NEW S
  PROVE  Among(<<e>>, S) = IF e \in S THEN <<e>> ELSE << >>
<1> DEFINE none == << >>
           T == {e}
<1>1. none \in Seq(T) /\ e \in T /\ <<e>> = Append(none, e)
  OBVIOUS
<1> HIDE DEF none, T
<1>2. Among(Append(none, e), S) = IF e \in S THEN Append(Among(none, S), e) ELSE Among(none, S)
  BY <1>1, AmongAppend
<1>3. Among(none, S) = none
  BY AmongEmpty DEF none
<1> QED
  BY <1>1, <1>2, <1>3 DEF none

LEMMA AmongReverse ==
  ASSUME NEW T, NEW us \in Seq(T), NEW S
  PROVE  Among(Reverse(us), S) = Reverse(Among(us, S))
<1> DEFINE G == {n \in Nat : \A vs \in Seq(T) :
                   Len(vs) = n => Among(Reverse(vs), S) = Reverse(Among(vs, S))}
<1>1. 0 \in G
  <2> SUFFICES ASSUME NEW vs \in Seq(T), Len(vs) = 0
               PROVE  Among(Reverse(vs), S) = Reverse(Among(vs, S))
    OBVIOUS
  <2>1. vs = << >>
    BY EmptySeq
  <2> QED
    BY <2>1, AmongEmpty, ReverseShort
<1>2. \A n \in Nat : n \in G => n + 1 \in G
  <2> SUFFICES ASSUME NEW n \in Nat, n \in G PROVE n + 1 \in G
    OBVIOUS
  <2> SUFFICES ASSUME NEW vs \in Seq(T), Len(vs) = n + 1
               PROVE  Among(Reverse(vs), S) = Reverse(Among(vs, S))
    OBVIOUS
  <2>1. vs # << >>
    BY EmptySeq
  <2>2. PICK ws \in Seq(T), e \in T : vs = Append(ws, e)
    BY <2>1, SequenceEmptyOrAppend
  <2> DEFINE one == <<e>>
  <2>3. Len(ws) = n /\ vs = ws \o one /\ one \in Seq(T)
    BY <2>2, AppendProperties, LenProperties, AppendIsConcat
  <2>4. Among(Reverse(ws), S) = Reverse(Among(ws, S))
    BY <2>3
  <2>5. Reverse(one) = one /\ Reverse(Among(one, S)) = Among(one, S)
    BY AmongOne, ReverseShort
  <2> HIDE DEF one
  <2>6. Reverse(vs) = one \o Reverse(ws) /\ Reverse(ws) \in Seq(T)
    BY <2>3, <2>5, ReverseConcat, ReverseFacts
  <2>7. Among(Reverse(vs), S) = Among(one, S) \o Reverse(Among(ws, S))
    <3> DEFINE back == Reverse(ws)
    <3>1. back \in Seq(T) /\ one \in Seq(T)
      BY <2>3, <2>6
    <3> HIDE DEF back, G
    <3>2. Among(one \o back, S) = Among(one, S) \o Among(back, S)
      BY <3>1, AmongConcat, SMTT(60)
    <3>3. Among(one \o Reverse(ws), S) = Among(one, S) \o Among(Reverse(ws), S)
      BY <3>2 DEF back
    <3> QED
      BY <2>4, <2>6, <3>3
  <2>8. Among(vs, S) = Among(ws, S) \o Among(one, S)
    BY <2>3, AmongConcat
  <2>9. Among(ws, S) \in Seq(T) /\ Among(one, S) \in Seq(T)
    BY <2>3, AmongType
  <2>10. Reverse(Among(vs, S)) = Reverse(Among(one, S)) \o Reverse(Among(ws, S))
    BY <2>8, <2>9, ReverseConcat
  <2> QED
    BY <2>5, <2>7, <2>10
<1>3. Nat \subseteq G
  <2> HIDE DEF G
  <2> QED
    BY <1>1, <1>2, NatSetInduction
<1> QED
  BY <1>3, LenProperties

-----------------------------------------------------------------------------
(* What trades amount to.                                                  *)

LEMMA FilledEmpty == Filled(<< >>) = 0
<1> DEFINE f == [k \in DOMAIN << >> |-> << >>[k].quantity]
<1>1. DOMAIN f = {}
  OBVIOUS
<1> HIDE DEF f
<1>2. SumFunction(f) = 0
  BY <1>1, SumEmpty DEF SumFunction
<1> QED
  BY <1>2 DEF f, Filled

LEMMA FilledAppend ==
  ASSUME NEW ts \in Seq(Trade), NEW t \in Trade
  PROVE  Filled(Append(ts, t)) = Filled(ts) + t.quantity /\ Filled(ts) \in Int
<1> DEFINE us == Append(ts, t)
           n == Len(ts)
           f == [k \in DOMAIN ts |-> ts[k].quantity]
           g == [k \in DOMAIN us |-> us[k].quantity]
<1>1. /\ us \in Seq(Trade) /\ Len(us) = n + 1 /\ n \in Nat /\ us[n + 1] = t
      /\ \A k \in 1..n : us[k] = ts[k]
      /\ DOMAIN ts = 1..n /\ DOMAIN us = 1..(n + 1)
      /\ \A k \in 1..n : ts[k] \in Trade
  BY AppendProperties, LenProperties, ElementOfSeq
<1> HIDE DEF us, n
<1>2. IsFiniteSet(1..n) /\ IsFiniteSet(1..(n + 1))
  BY <1>1, FS_Interval
<1>3. \A x \in Trade : x.quantity \in Int
  BY DEF Trade
<1>4. /\ f = [k \in 1..n |-> ts[k].quantity] /\ g = [k \in 1..(n + 1) |-> us[k].quantity]
      /\ \A k \in 1..n : f[k] = g[k] /\ f[k] \in Int
      /\ g[n + 1] = t.quantity /\ t.quantity \in Int
  BY <1>1, <1>3
<1>5. \A k \in 1..(n + 1) : g[k] \in Int
  <2>1. \A k \in 1..(n + 1) : k \in 1..n \/ k = n + 1
    BY <1>1
  <2> HIDE DEF f, g
  <2> QED
    BY <1>4, <2>1
<1>6. (1..(n + 1)) \ {n + 1} = 1..n /\ n + 1 \in 1..(n + 1)
  BY <1>1
<1>7. DOMAIN f = 1..n /\ DOMAIN g = 1..(n + 1)
  BY <1>4
<1>8. Filled(us) = SumFunction(g) /\ Filled(ts) = SumFunction(f)
  BY DEF Filled
<1> HIDE DEF f, g
<1>9. SumFunctionOnSet(g, 1..(n + 1)) = g[n + 1] + SumFunctionOnSet(g, (1..(n + 1)) \ {n + 1})
  BY <1>2, <1>5, <1>6, SumOnTake
<1>10. SumFunctionOnSet(g, 1..n) = SumFunctionOnSet(f, 1..n) /\ SumFunctionOnSet(f, 1..n) \in Int
  BY <1>2, <1>4, SumOnEqual, SumOnType
<1>11. /\ SumFunction(g) = SumFunctionOnSet(g, 1..(n + 1))
       /\ SumFunction(f) = SumFunctionOnSet(f, 1..n)
  BY <1>7 DEF SumFunction
<1>12. Filled(us) = t.quantity + Filled(ts) /\ Filled(ts) \in Int
  BY <1>4, <1>6, <1>8, <1>9, <1>10, <1>11
<1> QED
  BY <1>4, <1>12 DEF us

-----------------------------------------------------------------------------
(* What clients are shown.                                                 *)

\* The newest of two parts of a history: a prefix of it, newest first.
LEMMA NewestIsPrefix ==
  ASSUME NEW T, NEW x \in Seq(T), NEW y \in Seq(T), NEW m \in Nat, m <= Len(x)
  PROVE  IsPrefix(SubSeq(x, 1, m), x \o y) /\ Len(SubSeq(x, 1, m)) = m
<1> DEFINE shown == SubSeq(x, 1, m)
<1>1. /\ Len(x) \in Nat /\ Len(y) \in Nat /\ Len(x \o y) = Len(x) + Len(y)
      /\ \A k \in 1..Len(x) : x[k] \in T
  BY LenProperties, ConcatProperties, ElementOfSeq
<1>2. shown \in Seq(T) /\ Len(shown) = m
  <2>1. \A k \in 1..m : x[k] \in T
    BY <1>1
  <2>2. shown \in Seq(T) /\ Len(shown) = IF 1 <= m THEN m - 1 + 1 ELSE 0
    BY <2>1, SubSeqProperties
  <2> QED
    BY <2>2
<1>3. SubSeq(shown, 1, m) = SubSeq(x \o y, 1, m)
  <2>1. CASE m = 0
    BY <2>1, SubSeqEmpty
  <2>2. CASE m # 0
    <3>1. 1 \in 1..Len(x) /\ m \in 1..Len(x)
      BY <1>1, <2>2
    <3>2. SubSeq(x \o y, 1, m) = shown
      BY <3>1, SubSeqOfConcat1
    <3>3. SubSeq(shown, 1, Len(shown)) = shown
      BY <1>2, SubSeqFull
    <3> QED
      BY <1>2, <3>2, <3>3
  <2> QED
    BY <2>1, <2>2
<1> HIDE DEF shown
<1>4. IsPrefix(shown, x \o y)
  BY <1>1, <1>2, <1>3 DEF IsPrefix
<1> QED
  BY <1>2, <1>4 DEF shown

LEMMA LeastOfTwo ==
  ASSUME NEW a \in Nat, NEW b \in Nat
  PROVE  Min({a, b}) \in Nat /\ Min({a, b}) <= a /\ Min({a, b}) <= b
<1>1. \E x \in {a, b} : \A y \in {a, b} : x =< y
  <2>1. CASE a <= b
    BY <2>1
  <2>2. CASE ~ (a <= b)
    BY <2>2
  <2> QED
    BY <2>1, <2>2
<1>2. Min({a, b}) \in {a, b} /\ \A y \in {a, b} : Min({a, b}) =< y
  BY <1>1 DEF Min
<1> QED
  BY <1>2

\* The bounded queue of recent trades is the newest part of all trades, and all of
\* them until the first is evicted.
Newest(rec, pending, all) ==
  \E old \in Seq(Trade) : /\ all = (old \o rec) \o pending
                          /\ old # << >> => Len(rec) = Capacity

\* They are shown newest first, up to a limit.
First(s, limit) == SubSeq(s, 1, Min({limit, Len(s)}))
Shows(shown, whole, all, limit) ==
  /\ IsPrefix(shown, whole)
  /\ Len(all) <= Capacity => Len(shown) = Min({limit, Len(whole)})

LEMMA NewestShown ==
  ASSUME NEW rec \in Seq(Trade), NEW all \in Seq(Trade), NEW pending, pending = << >>,
         Newest(rec, pending, all), NEW S, NEW limit \in Nat
  PROVE  Shows(First(Among(Reverse(rec), S), limit), Reverse(Among(all, S)), all, limit)
<1> DEFINE ours == Among(Reverse(rec), S)
           shown == First(ours, limit)
           whole == Reverse(Among(all, S))
<1>1. PICK old \in Seq(Trade) : /\ all = (old \o rec) \o pending
                                /\ old # << >> => Len(rec) = Capacity
  BY DEF Newest
<1>2. all = old \o rec
  <2>1. old \o rec \in Seq(Trade)
    BY ConcatProperties
  <2> QED
    BY <1>1, <2>1, ConcatEmptySeq
<1> DEFINE x == Reverse(Among(rec, S))
           y == Reverse(Among(old, S))
<1>3. /\ Among(rec, S) \in Seq(Trade) /\ Among(old, S) \in Seq(Trade)
      /\ x \in Seq(Trade) /\ y \in Seq(Trade)
  <2>1. Among(rec, S) \in Seq(Trade) /\ Among(old, S) \in Seq(Trade)
    BY AmongType
  <2> QED
    BY <2>1, ReverseFacts
<1>4. ours = x
  BY AmongReverse
<1>5. whole = x \o y
  <2>1. Among(all, S) = Among(old, S) \o Among(rec, S)
    BY <1>2, AmongConcat
  <2> QED
    BY <1>3, <2>1, ReverseConcat
<1> HIDE DEF x, y, whole
<1> DEFINE m == Min({limit, Len(x)})
<1>6. m \in Nat /\ m <= Len(x)
  BY <1>3, LenProperties, LeastOfTwo
<1>7. shown = SubSeq(x, 1, m)
  BY <1>4 DEF First
<1> HIDE DEF ours, shown
<1>8. IsPrefix(shown, whole) /\ Len(shown) = m
  <2> HIDE DEF m
  <2> QED
    BY <1>3, <1>5, <1>6, <1>7, NewestIsPrefix
<1>9. ASSUME Len(all) <= Capacity PROVE whole = x
  <2>1. old = << >>
    <3>1. SUFFICES ASSUME old # << >> PROVE FALSE
      OBVIOUS
    <3>2. Len(old) \in Nat \ {0} /\ Len(rec) = Capacity
      BY <1>1, <3>1, EmptySeq
    <3>3. Len(all) = Len(old) + Len(rec)
      BY <1>2, ConcatProperties
    <3> QED
      BY <1>9, <3>2, <3>3, EngineAssumption DEF EngineAssumption
  <2>2. all = rec
    BY <1>2, <2>1, ConcatEmptySeq
  <2> QED
    BY <2>2 DEF x, whole
<1>10. Shows(shown, whole, all, limit)
  BY <1>8, <1>9 DEF Shows
<1> QED
  BY <1>10 DEF shown, ours, whole

LEMMA ConcatTrades ==
  \A a, b, c \in Seq(Trade) : (a \o b) \o c = a \o (b \o c) /\ a \o b \in Seq(Trade)
<1> SUFFICES ASSUME NEW a \in Seq(Trade), NEW b \in Seq(Trade), NEW c \in Seq(Trade)
             PROVE  (a \o b) \o c = a \o (b \o c) /\ a \o b \in Seq(Trade)
  OBVIOUS
<1>1. (a \o b) \o c = a \o (b \o c)
  BY ConcatAssociative
<1>2. a \o b \in Seq(Trade)
  BY ConcatProperties
<1> QED
  BY <1>1, <1>2

\* What eviction and a new batch of trades leave.
LEMMA RememberNewest ==
  ASSUME NEW rec \in Seq(Trade), NEW pending \in Seq(Trade), NEW all \in Seq(Trade),
         Len(rec) <= Capacity, Newest(rec, pending, all)
  PROVE  Newest(Remember(rec, pending), << >>, all)
<1> DEFINE both == rec \o pending
           n == Len(both)
           m == Max({1, n - Capacity + 1})
           gone == SubSeq(both, 1, m - 1)
           left == SubSeq(both, m, n)
<1>1. PICK old \in Seq(Trade) : /\ all = (old \o rec) \o pending
                                /\ old # << >> => Len(rec) = Capacity
  BY DEF Newest
<1>2. /\ both \in Seq(Trade) /\ n \in Nat /\ n = Len(rec) + Len(pending)
      /\ Len(rec) \in Nat /\ Len(pending) \in Nat /\ \A k \in 1..n : both[k] \in Trade
  BY LenProperties, ConcatProperties, ElementOfSeq
<1>3. Capacity \in Nat \ {0}
  BY EngineAssumption DEF EngineAssumption
<1>4. all = old \o both
  BY <1>1, ConcatTrades
<1>5. Remember(rec, pending) = left
  BY DEF Remember
<1> HIDE DEF both, n
<1>6. m = IF n - Capacity + 1 >= 1 THEN n - Capacity + 1 ELSE 1
  <2> DEFINE c == n - Capacity + 1
  <2>1. c \in Int
    BY <1>2, <1>3
  <2> HIDE DEF c
  <2>2. \E x \in {1, c} : \A y \in {1, c} : x >= y
    <3>1. CASE c >= 1
      BY <2>1, <3>1
    <3>2. CASE ~ (c >= 1)
      BY <2>1, <3>2
    <3> QED
      BY <3>1, <3>2
  <2>3. Max({1, c}) \in {1, c} /\ \A y \in {1, c} : Max({1, c}) >= y
    BY <2>2 DEF Max
  <2>4. Max({1, c}) = IF c >= 1 THEN c ELSE 1
    BY <2>1, <2>3
  <2> QED
    BY <2>4 DEF c
<1> HIDE DEF m
<1>7. m \in 1..(n + 1) /\ m - 1 \in Nat /\ m - 1 <= n /\ m \in Nat /\ n - m + 1 <= Capacity
      /\ (m > 1 => n - m + 1 = Capacity)
  BY <1>2, <1>3, <1>6
<1>8. /\ gone \in Seq(Trade) /\ Len(gone) = m - 1
      /\ left \in Seq(Trade) /\ Len(left) = IF m <= n THEN n - m + 1 ELSE 0
  <2>1. (\A k \in 1..(m - 1) : both[k] \in Trade) /\ (\A k \in m..n : both[k] \in Trade)
    BY <1>2, <1>7
  <2>2. gone \in Seq(Trade) /\ Len(gone) = IF 1 <= m - 1 THEN (m - 1) - 1 + 1 ELSE 0
    BY <1>7, <2>1, SubSeqProperties
  <2>3. left \in Seq(Trade) /\ Len(left) = IF m <= n THEN n - m + 1 ELSE 0
    BY <1>2, <1>7, <2>1, SubSeqProperties
  <2> QED
    BY <1>7, <2>2, <2>3
<1>9. both = gone \o left
  <2>1. SubSeq(both, 1, m - 1) \o SubSeq(both, (m - 1) + 1, n) = SubSeq(both, 1, n)
    <3>1. 1 \in 1..(Len(both) + 1) /\ m - 1 \in (1 - 1)..Len(both) /\ n \in (m - 1)..Len(both)
      BY <1>2, <1>7 DEF n
    <3> QED
      BY <1>2, <3>1, ConcatAdjacentSubSeq
  <2>2. SubSeq(both, 1, n) = both
    BY <1>2, SubSeqFull DEF n
  <2>3. (m - 1) + 1 = m
    BY <1>7
  <2> QED
    BY <2>1, <2>2, <2>3
<1> HIDE DEF gone, left
<1>10. all = (old \o gone) \o left /\ old \o gone \in Seq(Trade)
  <2>1. (old \o gone) \o left = old \o (gone \o left) /\ old \o gone \in Seq(Trade)
    BY <1>8, ConcatTrades
  <2> QED
    BY <1>4, <1>9, <2>1
<1>11. all = ((old \o gone) \o left) \o << >>
  <2>1. (old \o gone) \o left \in Seq(Trade)
    BY <1>8, <1>10, ConcatProperties
  <2> QED
    BY <1>10, <2>1, ConcatEmptySeq
<1>12. old \o gone # << >> => Len(left) = Capacity
  <2>1. CASE m > 1
    BY <1>2, <1>3, <1>7, <1>8, <2>1
  <2>2. CASE ~ (m > 1)
    <3>1. m = 1 /\ Len(gone) = 0
      BY <1>7, <1>8, <2>2
    <3>2. gone = << >>
      BY <1>8, <3>1, EmptySeq
    <3>3. old \o gone = old
      BY <3>2, ConcatEmptySeq
    <3>4. old # << >> => Len(left) = Capacity
      <4>1. Len(left) = n
        BY <1>2, <1>8, <3>1
      <4>2. n <= Capacity
        BY <1>2, <1>7, <3>1
      <4>3. old # << >> => n >= Capacity
        BY <1>1, <1>2, <1>3
      <4> QED
        BY <1>2, <1>3, <4>1, <4>2, <4>3
    <3> QED
      BY <3>3, <3>4
  <2> QED
    BY <2>1, <2>2
<1> QED
  BY <1>5, <1>10, <1>11, <1>12 DEF Newest

-----------------------------------------------------------------------------
(* The order in which levels are shown.                                    *)

Sorted(order, side, prices) ==
  /\ order \in [1..Cardinality(prices) -> prices]
  /\ \A j, k \in DOMAIN order :
       j < k => order[j] # order[k] /\ AtLeastAsGood(side, order[j], order[k])

LEMMA BestFirstSorted ==
  ASSUME NEW S, S \subseteq Int, IsFiniteSet(S), NEW side \in Sides
  PROVE  Sorted(BestFirst(side, S), side, S)
<1> DEFINE G == {T \in SUBSET S : \E f : Sorted(f, side, T)}
<1>1. ASSUME NEW T \in SUBSET S, \A U \in SUBSET T : U # T => U \in G
      PROVE  \E f : Sorted(f, side, T)
  <2>1. CASE T = {}
    <3>1. Cardinality(T) = 0 /\ 1..0 = {}
      BY <2>1, FS_EmptySet
    <3>2. Sorted([k \in 1..0 |-> k], side, T)
      BY <2>1, <3>1 DEF Sorted
    <3> QED
      BY <3>2
  <2>2. CASE T # {}
    <3>1. IsFiniteSet(T) /\ T \subseteq Int
      BY FS_Subset
    <3>2. PICK p \in T : \A q \in T : AtLeastAsGood(side, p, q)
      BY <2>2, <3>1, FiniteBest
    <3> DEFINE U == T \ {p}
               n == Cardinality(T)
    <3>3. Cardinality(U) = n - 1 /\ n \in Nat /\ n # 0 /\ IsFiniteSet(U)
      BY <2>2, <3>1, FS_RemoveElement, FS_CardinalityType, FS_EmptySet
    <3>4. PICK g : Sorted(g, side, U)
      <4>1. U \in SUBSET T /\ U # T
        OBVIOUS
      <4> HIDE DEF U
      <4> QED
        BY <1>1, <4>1
    <3> DEFINE f == [k \in 1..n |-> IF k = 1 THEN p ELSE g[k - 1]]
    <3>5. /\ g \in [1..(n - 1) -> U] /\ DOMAIN g = 1..(n - 1)
          /\ \A j, k \in 1..(n - 1) : j < k => g[j] # g[k] /\ AtLeastAsGood(side, g[j], g[k])
      BY <3>3, <3>4 DEF Sorted
    <3> HIDE DEF n
    <3>6. /\ f[1] = p /\ DOMAIN f = 1..n
          /\ \A k \in 1..n : k # 1 => k - 1 \in 1..(n - 1) /\ f[k] = g[k - 1] /\ f[k] \in U
      BY <3>3, <3>5
    <3>7. f \in [1..n -> T]
      BY <3>3, <3>6
    <3>8. ASSUME NEW j \in 1..n, NEW k \in 1..n, j < k
          PROVE  f[j] # f[k] /\ AtLeastAsGood(side, f[j], f[k])
      <4>0. k # 1
        BY <3>3, <3>8
      <4>1. CASE j = 1
        BY <3>2, <3>6, <3>8, <4>0, <4>1
      <4>2. CASE j # 1
        <5>1. j - 1 \in 1..(n - 1) /\ k - 1 \in 1..(n - 1) /\ j - 1 < k - 1
          BY <3>3, <3>6, <3>8, <4>0, <4>2
        <5> QED
          BY <3>5, <3>6, <4>0, <4>2, <5>1
      <4> QED
        BY <4>1, <4>2
    <3> HIDE DEF f
    <3>9. Sorted(f, side, T)
      BY <3>6, <3>7, <3>8 DEF Sorted, n
    <3> QED
      BY <3>9
  <2> QED
    BY <2>1, <2>2
<1>2. \A T \in SUBSET S : (\A U \in SUBSET T : U # T => U \in G) => T \in G
  BY <1>1
<1>3. S \in G
  <2> HIDE DEF G
  <2> QED
    BY <1>2, SubsetInduction
<1>4. \E f : Sorted(f, side, S)
  BY <1>3
<1>5. \E f \in [1..Cardinality(S) -> S] :
        \A j, k \in DOMAIN f : j < k => f[j] # f[k] /\ AtLeastAsGood(side, f[j], f[k])
  BY <1>4 DEF Sorted
<1> QED
  BY <1>5 DEF BestFirst, Sorted

-----------------------------------------------------------------------------
(* The cached totals.                                                      *)

\* The resting orders of a side and price, and what is left of a set of orders.
At(book, hand, s, p) ==
  {x \in RestingIn(book, hand) : book.orders[x].side = s /\ book.orders[x].price = p}
Owed(orders, ids) == SumFunction([x \in ids |-> orders[x].remaining])

Totals(book, hand) ==
  \A s \in Sides : \A p \in DOMAIN book.levels[s] :
    book.levels[s][p].total = Owed(book.orders, At(book, hand, s, p))

LEMMA AtFacts ==
  ASSUME NEW book \in Book, NEW hand, NEW s, NEW p, NEW ids, ids \subseteq At(book, hand, s, p)
  PROVE  /\ IsFiniteSet(ids) /\ ids \subseteq DOMAIN book.orders
         /\ \A x \in ids : book.orders[x].remaining \in Int
<1>1. /\ ids \subseteq DOMAIN book.orders /\ DOMAIN book.orders \subseteq OrderIds
      /\ \A x \in DOMAIN book.orders : book.orders[x] \in Order
  BY BookParts DEF At, RestingIn
<1>2. IsFiniteSet(OrderIds)
  <2>1. 1 \in Int /\ MaxOrders \in Int
    BY EngineAssumption DEF EngineAssumption
  <2> QED
    BY <2>1, FS_Interval DEF OrderIds
<1>3. IsFiniteSet(ids)
  BY <1>1, <1>2, FS_Subset
<1>4. \A x \in ids : book.orders[x].remaining \in Int
  BY <1>1 DEF Order
<1> QED
  BY <1>1, <1>3, <1>4

LEMMA OwedSame ==
  ASSUME NEW a, NEW b, NEW ids, \A x \in ids : a[x].remaining = b[x].remaining
  PROVE  Owed(a, ids) = Owed(b, ids)
<1>1. [x \in ids |-> a[x].remaining] = [x \in ids |-> b[x].remaining]
  OBVIOUS
<1> QED
  BY <1>1 DEF Owed

LEMMA OwedTake ==
  ASSUME NEW orders, NEW ids, IsFiniteSet(ids), \A x \in ids : orders[x].remaining \in Int,
         NEW id \in ids
  PROVE  /\ Owed(orders, ids) = orders[id].remaining + Owed(orders, ids \ {id})
         /\ Owed(orders, ids \ {id}) \in Int
<1> DEFINE f == [x \in ids |-> orders[x].remaining]
           rest == ids \ {id}
           g == [x \in rest |-> orders[x].remaining]
<1>1. /\ \A x \in ids : f[x] \in Int
      /\ \A x \in rest : f[x] = g[x] /\ g[x] \in Int
      /\ f[id] = orders[id].remaining /\ DOMAIN f = ids /\ DOMAIN g = rest
  OBVIOUS
<1>2. IsFiniteSet(rest)
  BY FS_Subset
<1>3. Owed(orders, ids) = SumFunctionOnSet(f, ids) /\ Owed(orders, rest) = SumFunctionOnSet(g, rest)
  BY <1>1 DEF Owed, SumFunction
<1> HIDE DEF f, g
<1>4. SumFunctionOnSet(f, ids) = f[id] + SumFunctionOnSet(f, rest)
  BY <1>1, SumOnTake
<1>5. SumFunctionOnSet(f, rest) = SumFunctionOnSet(g, rest) /\ SumFunctionOnSet(g, rest) \in Int
  BY <1>1, <1>2, SumOnEqual, SumOnType
<1> QED
  BY <1>1, <1>3, <1>4, <1>5

LEMMA OwedNothing == \A orders : Owed(orders, {}) = 0
<1> SUFFICES ASSUME NEW orders PROVE Owed(orders, {}) = 0
  OBVIOUS
<1> DEFINE f == [x \in {} |-> orders[x].remaining]
<1>1. DOMAIN f = {} /\ Owed(orders, {}) = SumFunction(f)
  BY DEF Owed
<1> HIDE DEF f
<1> QED
  BY <1>1, SumEmpty DEF SumFunction

\* One level changes, with the orders at its price; the others stay as they are.
LEMMA LevelMoved ==
  ASSUME NEW book \in Book, NEW hand, Totals(book, hand), NEW s \in Sides, NEW p \in Prices,
         NEW level \in Level, NEW new, NEW later,
         new.levels = [book.levels EXCEPT ![s] = SetLevel(@, p, level)],
         level.queue # << >> => level.total = Owed(new.orders, At(new, later, s, p)),
         \A t \in Sides : \A q \in Prices : ~ (t = s /\ q = p) =>
           Owed(new.orders, At(new, later, t, q)) = Owed(book.orders, At(book, hand, t, q))
  PROVE  Totals(new, later)
<1> DEFINE mine == book.levels[s]
<1>1. /\ mine \in PFun(Prices, Level) /\ book.levels \in [Sides -> PFun(Prices, Level)]
      /\ \A t \in Sides : DOMAIN book.levels[t] \subseteq Prices
  BY BookParts
<1>2. LevelSet(mine, p, level, SetLevel(mine, p, level))
  BY <1>1, SetLevelType
<1>3. /\ new.levels[s] = SetLevel(mine, p, level)
      /\ \A t \in Sides : t # s => new.levels[t] = book.levels[t]
  BY <1>1
<1>4. \A x \in DOMAIN new.levels[s] :
        \/ x # p /\ x \in DOMAIN book.levels[s] /\ new.levels[s][x] = book.levels[s][x]
        \/ x = p /\ level.queue # << >> /\ new.levels[s][x] = level
  BY <1>2, <1>3 DEF LevelSet
<1> HIDE DEF mine
<1>5. ASSUME NEW t \in Sides, NEW q \in DOMAIN new.levels[t]
      PROVE  new.levels[t][q].total = Owed(new.orders, At(new, later, t, q))
  <2>1. CASE t = s /\ q = p
    BY <1>4, <1>5, <2>1
  <2>2. CASE ~ (t = s /\ q = p)
    <3>1. q \in DOMAIN book.levels[t] /\ new.levels[t][q] = book.levels[t][q]
      BY <1>3, <1>4, <1>5, <2>2
    <3>2. q \in Prices
      BY <1>1, <3>1
    <3>3. book.levels[t][q].total = Owed(book.orders, At(book, hand, t, q))
      BY <3>1 DEF Totals
    <3> QED
      BY <2>2, <3>1, <3>2, <3>3
  <2> QED
    BY <2>1, <2>2
<1> QED
  BY <1>5 DEF Totals

\* A book whose levels and resting orders are those of another.
LEMMA LevelsKept ==
  ASSUME NEW book \in Book, NEW hand, Totals(book, hand), NEW new, NEW later,
         new.levels = book.levels, RestingIn(new, later) = RestingIn(book, hand),
         \A x \in RestingIn(book, hand) : new.orders[x] = book.orders[x]
  PROVE  Totals(new, later)
<1> SUFFICES ASSUME NEW s \in Sides, NEW p \in DOMAIN new.levels[s]
             PROVE  new.levels[s][p].total = Owed(new.orders, At(new, later, s, p))
  BY DEF Totals
<1> DEFINE ids == At(book, hand, s, p)
<1>1. At(new, later, s, p) = ids /\ \A x \in ids : new.orders[x].remaining = book.orders[x].remaining
  BY DEF At
<1> HIDE DEF ids
<1>2. Owed(new.orders, ids) = Owed(book.orders, ids)
  BY <1>1, OwedSame
<1>3. book.levels[s][p].total = Owed(book.orders, ids)
  BY DEF Totals, ids
<1> QED
  BY <1>1, <1>2, <1>3

\* Without an order in hand that it does not own, a book's resting orders are all it owns.
LEMMA TotalsElsewhere ==
  ASSUME NEW book \in Book, NEW h, NEW k, h \notin DOMAIN book.orders, k \notin DOMAIN book.orders,
         Totals(book, h)
  PROVE  Totals(book, k)
<1>1. RestingIn(book, k) = RestingIn(book, h)
  BY DEF RestingIn
<1> QED
  BY <1>1, LevelsKept

LEMMA EmptyBookTotals == \A hand : Totals(EmptyBook, hand)
<1>1. \A s \in Sides : DOMAIN EmptyBook.levels[s] = {}
  BY DEF EmptyBook, Nothing
<1> QED
  BY <1>1 DEF Totals

LEMMA EnterTotals ==
  ASSUME NEW book \in Book, NEW hand, hand \notin DOMAIN book.orders, Totals(book, hand),
         NEW id, id \notin DOMAIN book.orders, NEW o, NEW new, new = Enter(book, id, o),
         Entered(book, id, o, new)
  PROVE  Totals(new, id)
<1>1. new.levels = book.levels
  BY BookParts DEF Enter
<1>2. RestingIn(new, id) = RestingIn(book, hand)
  BY DEF Entered, RestingIn
<1>3. \A x \in RestingIn(book, hand) : new.orders[x] = book.orders[x]
  BY DEF Entered, RestingIn
<1> QED
  BY <1>1, <1>2, <1>3, LevelsKept

LEMMA ExecuteTotals ==
  ASSUME NEW book \in Book, NEW id \in DOMAIN book.orders, Sound(book, id), CanMatch(book, id),
         Totals(book, id),
         NEW s, s = Opposite(book.orders[id].side),
         NEW p, p = BestPrice(book, s),
         NEW r, r = Counterpart(book, id),
         NEW exec, exec = ExecQuantity(book, id),
         NEW new, new = Execute(book, id)
  PROVE  Totals(new, id)
<1> DEFINE filled == book.orders[r].remaining = exec
           old == book.levels[s][p]
           level == Consume(old, exec, filled)
           ids == At(book, id, s, p)
           rest == ids \ {r}
<1>1. /\ s \in Sides /\ p \in DOMAIN book.levels[s] /\ p \in Prices
      /\ r \in RestingIn(book, id) /\ r \in DOMAIN book.orders /\ r # id
      /\ book.orders[r].remaining \in Nat \ {0}
      /\ book.orders[r].side = s /\ book.orders[r].price = p
      /\ exec \in Nat \ {0} /\ exec <= book.orders[r].remaining
  <2>1. Facing(book, id, book.orders[id], s, p, old.queue, r, exec)
    BY MatchFacts
  <2> QED
    BY <2>1 DEF Facing
<1>2. /\ new \in Book
      /\ DOMAIN new.orders = IF filled THEN DOMAIN book.orders \ {r} ELSE DOMAIN book.orders
      /\ \A x \in DOMAIN new.orders :
           /\ new.orders[x].side = book.orders[x].side
           /\ new.orders[x].price = book.orders[x].price
           /\ new.orders[x].remaining = IF x \in {id, r} THEN book.orders[x].remaining - exec
                                        ELSE book.orders[x].remaining
      /\ new.levels = [book.levels EXCEPT ![s] = SetLevel(@, p, level)]
      /\ level \in Level
  <2>1. Executing(book, id, s, p, r, exec, new)
    BY ExecuteFacts
  <2> QED
    BY <2>1 DEF Executing
<1>3. level.total = old.total - exec
  BY DEF Consume
<1> HIDE DEF level
<1>4. old.total = Owed(book.orders, ids)
  BY <1>1 DEF Totals
<1> HIDE DEF old
<1>5. ASSUME NEW t \in Sides, NEW q \in Prices
      PROVE  At(new, id, t, q) = IF t = s /\ q = p /\ filled THEN rest ELSE At(book, id, t, q)
  <2> HIDE DEF filled
  <2>1. RestingIn(new, id) = IF filled THEN RestingIn(book, id) \ {r} ELSE RestingIn(book, id)
    BY <1>1, <1>2 DEF RestingIn
  <2>2. \A x \in RestingIn(new, id) : /\ new.orders[x].side = book.orders[x].side
                                      /\ new.orders[x].price = book.orders[x].price
    BY <1>2 DEF RestingIn
  <2> QED
    BY <1>1, <2>1, <2>2 DEF At
<1>6. r \in ids /\ IsFiniteSet(ids) /\ \A x \in ids : book.orders[x].remaining \in Int
  <2>1. r \in ids
    BY <1>1 DEF At
  <2>2. ids \subseteq At(book, id, s, p)
    OBVIOUS
  <2> HIDE DEF ids
  <2>3. IsFiniteSet(ids) /\ \A x \in ids : book.orders[x].remaining \in Int
    BY <2>2, AtFacts
  <2> QED
    BY <2>1, <2>3
<1>7. /\ Owed(book.orders, ids) = book.orders[r].remaining + Owed(book.orders, rest)
      /\ Owed(book.orders, rest) \in Int
  <2> HIDE DEF ids
  <2> QED
    BY <1>6, OwedTake
<1>8. Owed(new.orders, rest) = Owed(book.orders, rest)
  <2>1. \A x \in rest : x \in DOMAIN new.orders /\ x \notin {id, r}
    BY <1>2 DEF At, RestingIn
  <2>2. \A x \in rest : new.orders[x].remaining = book.orders[x].remaining
    BY <1>2, <2>1
  <2> HIDE DEF rest
  <2> QED
    BY <2>2, OwedSame
<1>9. level.total = Owed(new.orders, At(new, id, s, p))
  <2>1. CASE filled
    <3>1. At(new, id, s, p) = rest
      BY <1>1, <1>5, <2>1
    <3> QED
      BY <1>1, <1>3, <1>4, <1>7, <1>8, <2>1, <3>1
  <2>2. CASE ~ filled
    <3>1. At(new, id, s, p) = ids /\ r \in DOMAIN new.orders
      BY <1>1, <1>2, <1>5, <2>2
    <3>2. IsFiniteSet(ids) /\ \A x \in ids : new.orders[x].remaining \in Int
      BY <1>2, <3>1, AtFacts
    <3>3. Owed(new.orders, ids) = new.orders[r].remaining + Owed(new.orders, rest)
      <4> HIDE DEF ids
      <4> QED
        BY <1>6, <3>2, OwedTake
    <3>4. new.orders[r].remaining = book.orders[r].remaining - exec
      BY <1>2, <3>1
    <3> HIDE DEF ids, rest
    <3> QED
      BY <1>1, <1>3, <1>4, <1>7, <1>8, <3>1, <3>3, <3>4
  <2> QED
    BY <2>1, <2>2
<1>10. ASSUME NEW t \in Sides, NEW q \in Prices, ~ (t = s /\ q = p)
       PROVE  Owed(new.orders, At(new, id, t, q)) = Owed(book.orders, At(book, id, t, q))
  <2> DEFINE others == At(book, id, t, q)
  <2>1. At(new, id, t, q) = others
    BY <1>5, <1>10
  <2>2. \A x \in others : x \notin {id, r} /\ x \in DOMAIN new.orders
    BY <1>1, <1>2, <1>10 DEF At, RestingIn
  <2>3. \A x \in others : new.orders[x].remaining = book.orders[x].remaining
    BY <1>2, <2>2
  <2> HIDE DEF others
  <2>4. Owed(new.orders, others) = Owed(book.orders, others)
    BY <2>3, OwedSame
  <2> QED
    BY <2>1, <2>4 DEF others
<1> QED
  BY <1>1, <1>2, <1>9, <1>10, LevelMoved

LEMMA LevelAtTotal ==
  ASSUME NEW book \in Book, NEW id, NEW s \in Sides, NEW p \in Prices, Sound(book, id),
         Totals(book, id), NEW old, old = LevelAt(book.levels[s], p)
  PROVE  old \in Level /\ old.total = Owed(book.orders, At(book, id, s, p))
<1>1. CASE p \in DOMAIN book.levels[s]
  <2>1. old = book.levels[s][p] /\ old \in Level
    BY <1>1, BookParts DEF LevelAt
  <2>2. book.levels[s][p].total = Owed(book.orders, At(book, id, s, p))
    BY <1>1 DEF Totals
  <2> QED
    BY <2>1, <2>2
<1>2. CASE p \notin DOMAIN book.levels[s]
  <2>1. old = [queue |-> << >>, total |-> 0]
    BY <1>2 DEF LevelAt, NewLevel
  <2>2. old \in Level /\ old.total = 0
    <3>1. << >> \in Seq(OrderIds) /\ 0 \in Int
      OBVIOUS
    <3> QED
      BY <2>1, <3>1 DEF Level
  <2>3. At(book, id, s, p) = {}
    BY <1>2 DEF At, Sound, OrdersQueued
  <2> QED
    BY <2>2, <2>3, OwedNothing
<1> QED
  BY <1>1, <1>2

LEMMA RestTotals ==
  ASSUME NEW book \in Book, NEW id \in DOMAIN book.orders, Sound(book, id), Totals(book, id),
         book.orders[id].price \in Prices, NEW none, none \notin OrderIds,
         NEW new \in Book, new = Rest(book, id), new.orders = book.orders
  PROVE  Totals(new, none)
<1> DEFINE s == book.orders[id].side
           p == book.orders[id].price
           left == book.orders[id].remaining
           levels == book.levels[s]
           old == LevelAt(levels, p)
           level == Add(old, id, left)
           ids == At(new, none, s, p)
<1>1. /\ id \in OrderIds /\ s \in Sides /\ p \in Prices /\ left \in Nat
      /\ RestingIn(new, none) = RestingIn(book, id) \union {id} /\ id \notin RestingIn(book, id)
  <2>1. id \in OrderIds /\ s \in Sides /\ p \in Prices /\ left \in Nat
    BY BookParts DEF Order
  <2>2. RestingIn(new, none) = RestingIn(book, id) \union {id} /\ id \notin RestingIn(book, id)
    BY <2>1, BookParts DEF RestingIn
  <2> QED
    BY <2>1, <2>2
<1>2. old \in Level /\ old.total = Owed(book.orders, At(book, id, s, p))
  <2> HIDE DEF s, p
  <2> QED
    BY <1>1, LevelAtTotal
<1> HIDE DEF old
<1>3. /\ level.total = old.total + left /\ level.queue = Append(old.queue, id)
      /\ level \in Level /\ level.queue # << >>
  <2> DEFINE q == old.queue
             longer == Append(q, id)
             total == old.total + left
  <2>1. q \in Seq(OrderIds) /\ old.total \in Int
    BY <1>2 DEF Level
  <2> HIDE DEF q, left
  <2>2. longer \in Seq(OrderIds) /\ longer # << >>
    BY <1>1, <2>1, AppendProperties
  <2>3. total \in Int
    BY <1>1, <2>1
  <2>4. level = [queue |-> longer, total |-> total]
    BY DEF Add, q
  <2> HIDE DEF level, longer, total
  <2>5. level.queue = longer /\ level.total = total /\ level \in Level
    BY <2>2, <2>3, <2>4 DEF Level
  <2> QED
    BY <2>2, <2>5 DEF longer, total, q
<1>4. new.levels = [book.levels EXCEPT ![s] = SetLevel(@, p, level)]
  <2>1. new = [book EXCEPT !.levels[s] = Put(levels, p, level)]
    BY DEF Rest, old
  <2>2. SetLevel(levels, p, level) = Put(levels, p, level)
    BY <1>3 DEF SetLevel
  <2> HIDE DEF level, p
  <2>3. new = [orders |-> book.orders,
               levels |-> [book.levels EXCEPT ![s] = Put(levels, p, level)]]
    BY <2>1, BookParts
  <2> QED
    BY <2>2, <2>3
<1> HIDE DEF level, levels
<1>5. level.total = Owed(new.orders, ids)
  <2>1. id \in ids /\ ids \ {id} = At(book, id, s, p)
    BY <1>1 DEF At
  <2>2. ids \subseteq At(new, none, s, p)
    OBVIOUS
  <2> HIDE DEF ids
  <2>3. IsFiniteSet(ids) /\ \A x \in ids : new.orders[x].remaining \in Int
    BY <2>2, AtFacts
  <2>4. /\ Owed(new.orders, ids) = new.orders[id].remaining + Owed(new.orders, ids \ {id})
        /\ Owed(new.orders, ids \ {id}) \in Int
    BY <2>1, <2>3, OwedTake
  <2>5. Owed(new.orders, ids \ {id}) = old.total /\ new.orders[id].remaining = left
    BY <1>2, <2>1
  <2> HIDE DEF left
  <2> QED
    BY <1>1, <1>3, <2>4, <2>5
<1>6. ASSUME NEW t \in Sides, NEW q \in Prices, ~ (t = s /\ q = p)
      PROVE  Owed(new.orders, At(new, none, t, q)) = Owed(book.orders, At(book, id, t, q))
  <2>1. At(new, none, t, q) = At(book, id, t, q)
    BY <1>1, <1>6 DEF At
  <2> QED
    BY <2>1
<1> HIDE DEF s, p, left
<1> QED
  BY <1>1, <1>3, <1>4, <1>5, <1>6, LevelMoved DEF ids

LEMMA SettleTotals ==
  ASSUME NEW book \in Book, NEW id \in DOMAIN book.orders, Sound(book, id), Uncrossed(book),
         ~ CanMatch(book, id), \A x \in RestingIn(book, id) : x < id,
         book.orders[id].type = "limit" => book.orders[id].price \in Prices,
         NEW none, none \notin OrderIds, Totals(book, id),
         NEW new, new = SettleOrder(book, id)
  PROVE  Totals(new, none)
<1>1. CASE book.orders[id].remaining > 0 /\ book.orders[id].type = "limit"
  <2>1. new = Rest(book, id)
    BY <1>1 DEF SettleOrder
  <2>2. new \in Book /\ new.orders = book.orders
    BY <1>1, <2>1, RestSound
  <2> QED
    BY <1>1, <2>1, <2>2, RestTotals
<1>2. CASE ~ (book.orders[id].remaining > 0 /\ book.orders[id].type = "limit")
  <2>1. new = [book EXCEPT !.orders = Drop(@, id)]
    BY <1>2 DEF SettleOrder
  <2>2. new.levels = book.levels
    BY <2>1, BookParts
  <2>3. /\ DOMAIN new.orders = DOMAIN book.orders \ {id}
        /\ \A x \in DOMAIN new.orders : new.orders[x] = book.orders[x]
    <3>1. none \notin OrderIds /\ Disowned(book, id, none, new)
      BY <2>1, DisownSound
    <3> QED
      BY <3>1 DEF Disowned
  <2>4. RestingIn(new, none) = RestingIn(book, id)
    BY <2>3, BookParts DEF RestingIn
  <2>5. \A x \in RestingIn(book, id) : new.orders[x] = book.orders[x]
    BY <2>3 DEF RestingIn
  <2> QED
    BY <2>2, <2>4, <2>5, LevelsKept
<1> QED
  BY <1>1, <1>2

LEMMA CancelTotals ==
  ASSUME NEW book \in Book, NEW none, none \notin OrderIds, Sound(book, none), Totals(book, none),
         NEW id \in DOMAIN book.orders, NEW new, new = CancelOrder(book, id),
         Disowned(book, id, none, new)
  PROVE  Totals(new, none)
<1> DEFINE s == book.orders[id].side
           p == book.orders[id].price
           left == book.orders[id].remaining
           old == book.levels[s][p]
           level == RemoveOrder(old, id, left)
           ids == At(book, none, s, p)
<1>1. /\ id \in OrderIds /\ s \in Sides /\ left \in Nat
      /\ id \in RestingIn(book, none) /\ RestingIn(new, none) = RestingIn(book, none) \ {id}
      /\ \A x \in RestingIn(new, none) : new.orders[x] = book.orders[x]
  <2>1. id \in OrderIds /\ s \in Sides /\ left \in Nat
    BY BookParts DEF Order
  <2> QED
    BY <2>1 DEF Disowned, RestingIn
<1>2. /\ p \in DOMAIN book.levels[s] /\ p \in Prices /\ Has(old.queue, id) /\ old \in Level
  <2>1. p \in DOMAIN book.levels[s] /\ Has(old.queue, id)
    BY <1>1 DEF Sound, OrdersQueued
  <2> HIDE DEF s, p, old
  <2>2. book.levels[s] \in [DOMAIN book.levels[s] -> Level] /\ DOMAIN book.levels[s] \subseteq Prices
    BY <1>1, BookParts
  <2>3. book.levels[s][p] \in Level
    BY <2>1, <2>2
  <2> QED
    BY <2>1, <2>2, <2>3 DEF old
<1>3. new.levels = [book.levels EXCEPT ![s] = SetLevel(@, p, level)]
  BY <1>2 DEF CancelOrder
<1>4. level \in Level /\ level.total = old.total - left
  <2>1. Increasing(old.queue)
    BY <1>1, <1>2 DEF Sound, QueuesOwned
  <2> HIDE DEF old, left
  <2> QED
    BY <1>1, <1>2, <2>1, RemoveLevel
<1> HIDE DEF level
<1>5. old.total = left + Owed(book.orders, ids \ {id}) /\ Owed(book.orders, ids \ {id}) \in Int
  <2>1. id \in ids /\ ids \subseteq At(book, none, s, p) /\ old.total = Owed(book.orders, ids)
    BY <1>1, <1>2 DEF At, Totals
  <2> HIDE DEF ids, old, s, p
  <2>2. IsFiniteSet(ids) /\ \A x \in ids : book.orders[x].remaining \in Int
    BY <2>1, AtFacts
  <2>3. /\ Owed(book.orders, ids) = book.orders[id].remaining + Owed(book.orders, ids \ {id})
        /\ Owed(book.orders, ids \ {id}) \in Int
    BY <2>1, <2>2, OwedTake
  <2> QED
    BY <2>1, <2>3
<1>6. At(new, none, s, p) = ids \ {id}
  BY <1>1 DEF At
<1>7. Owed(new.orders, ids \ {id}) = Owed(book.orders, ids \ {id})
  <2> DEFINE rest == ids \ {id}
  <2>1. \A x \in rest : new.orders[x].remaining = book.orders[x].remaining
    BY <1>1 DEF At
  <2> HIDE DEF rest
  <2>2. Owed(new.orders, rest) = Owed(book.orders, rest)
    BY <2>1, OwedSame
  <2> QED
    BY <2>2 DEF rest
<1>8. level.total = Owed(new.orders, At(new, none, s, p))
  <2> HIDE DEF left, old, ids
  <2> QED
    BY <1>1, <1>4, <1>5, <1>6, <1>7
<1>9. ASSUME NEW t \in Sides, NEW q \in Prices, ~ (t = s /\ q = p)
      PROVE  Owed(new.orders, At(new, none, t, q)) = Owed(book.orders, At(book, none, t, q))
  <2> DEFINE others == At(book, none, t, q)
  <2>1. At(new, none, t, q) = others
    BY <1>1, <1>9 DEF At
  <2>2. \A x \in others : new.orders[x].remaining = book.orders[x].remaining
    BY <1>1, <1>9 DEF At
  <2> HIDE DEF others
  <2>3. Owed(new.orders, others) = Owed(book.orders, others)
    BY <2>2, OwedSame
  <2> QED
    BY <2>1, <2>3 DEF others
<1> HIDE DEF s, p, left, old, ids
<1> QED
  BY <1>1, <1>2, <1>3, <1>4, <1>8, <1>9, LevelMoved

\* The queue of a level holds the resting orders of its side and price, each once.
LEMMA QueueCounts ==
  ASSUME NEW book \in Book, NEW hand, Sound(book, hand), NEW s \in Sides,
         NEW p \in DOMAIN book.levels[s]
  PROVE  Len(book.levels[s][p].queue) = Cardinality(At(book, hand, s, p))
<1> DEFINE q == book.levels[s][p].queue
           ids == At(book, hand, s, p)
<1>1. q \in Seq(OrderIds) /\ Increasing(q)
  <2>1. q \in Seq(OrderIds)
    BY BookParts DEF Level
  <2>2. Increasing(q)
    BY DEF Sound, QueuesOwned
  <2> QED
    BY <2>1, <2>2
<1>2. \A x : Has(q, x) <=> x \in ids
  <2>1. \A x : Has(q, x) => x \in ids
    BY DEF Sound, QueuesOwned, At
  <2>2. \A x \in ids : Has(q, x)
    BY DEF Sound, OrdersQueued, At
  <2> QED
    BY <2>1, <2>2
<1> HIDE DEF q, ids
<1>3. Len(q) \in Nat /\ DOMAIN q = 1..Len(q) /\ \A k \in 1..Len(q) : q[k] \in Int
  <2>1. OrderIds \subseteq Int
    BY DEF OrderIds
  <2> QED
    BY <1>1, <2>1, LenProperties, ElementOfSeq
<1>4. q \in [1..Len(q) -> ids] /\ \A x \in ids : \E k \in 1..Len(q) : q[k] = x
  <2>1. q \in [1..Len(q) -> OrderIds]
    BY <1>1, LenProperties
  <2>2. \A k \in 1..Len(q) : q[k] \in ids
    BY <1>2, <1>3 DEF Has
  <2>3. \A x \in ids : \E k \in 1..Len(q) : q[k] = x
    BY <1>2, <1>3 DEF Has
  <2> QED
    BY <2>1, <2>2, <2>3
<1>5. \A j, k \in DOMAIN q : q[j] = q[k] => j = k
  BY <1>1, <1>3 DEF Increasing
<1>6. q \in Bijection(1..Len(q), ids)
  BY <1>3, <1>4, <1>5 DEF Bijection, Injection, Surjection, IsInjective
<1>7. ExistsBijection(1..Len(q), ids)
  BY <1>6 DEF ExistsBijection
<1>8. Cardinality(ids) = Len(q)
  BY <1>3, <1>7, FS_CountingElements
<1> QED
  BY <1>8 DEF q, ids

\* A snapshot of one side of a sound book whose totals are right.
LEMMA SnapshotShown ==
  ASSUME NEW book \in Book, NEW hand, Sound(book, hand), Totals(book, hand), NEW s \in Sides,
         NEW depth \in Nat, NEW i, book = BookFor(i), NEW snap, snap = Snapshot(i, s, depth),
         NEW k \in DOMAIN snap
  PROVE  /\ snap[k].count = Cardinality(At(book, hand, s, snap[k].price))
         /\ snap[k].quantity = Owed(book.orders, At(book, hand, s, snap[k].price))
         /\ \A j \in 1..(k - 1) : snap[j].price # snap[k].price
<1> DEFINE levels == book.levels[s]
           prices == DOMAIN levels
           order == BestFirst(s, prices)
           shown == Min({depth, Cardinality(prices)})
<1>1. prices \subseteq Int /\ IsFiniteSet(prices)
  <2>1. prices \subseteq Prices
    BY BookParts
  <2> HIDE DEF prices
  <2> QED
    BY <2>1, BookAssumption, FS_Subset DEF BookAssumption
<1>2. snap = [n \in 1..shown |-> [price |-> order[n], quantity |-> levels[order[n]].total,
                                  count |-> Len(levels[order[n]].queue)]]
  BY DEF Snapshot
<1>3. \A x \in prices : /\ Len(levels[x].queue) = Cardinality(At(book, hand, s, x))
                        /\ levels[x].total = Owed(book.orders, At(book, hand, s, x))
  BY QueueCounts DEF Totals
<1> HIDE DEF levels, prices
<1>4. /\ order \in [1..Cardinality(prices) -> prices]
      /\ \A j, m \in DOMAIN order : j < m => order[j] # order[m]
  BY <1>1, BestFirstSorted DEF Sorted
<1>5. Cardinality(prices) \in Nat /\ shown \in Nat /\ shown <= Cardinality(prices)
  BY <1>1, FS_CardinalityType, LeastOfTwo
<1> HIDE DEF order, shown
<1>6. k \in 1..shown /\ \A j \in 1..shown : j \in DOMAIN order /\ order[j] \in prices
  <2> DEFINE n == Cardinality(prices)
  <2>1. n \in Nat /\ shown <= n /\ order \in [1..n -> prices]
    BY <1>4, <1>5
  <2> HIDE DEF n
  <2> QED
    BY <1>2, <1>5, <2>1
<1>7. /\ snap[k].price = order[k] /\ snap[k].quantity = levels[order[k]].total
      /\ snap[k].count = Len(levels[order[k]].queue)
  BY <1>2, <1>6
<1>8. ASSUME NEW j \in 1..(k - 1) PROVE snap[j].price # snap[k].price
  <2>1. j \in 1..shown /\ j < k
    BY <1>5, <1>6
  <2>2. snap[j].price = order[j]
    BY <1>2, <2>1
  <2> QED
    BY <1>4, <1>6, <1>7, <2>1, <2>2
<1> QED
  BY <1>3, <1>6, <1>7, <1>8

\* The totals of all books.
TotalsOf(b, h) == \A i \in DOMAIN b : Totals(b[i], h.id)

LEMMA SnapshotsTrue == MatchInv /\ TotalsOf(books, submitting) => SnapshotTrue
<1> SUFFICES ASSUME MatchInv, TotalsOf(books, submitting), LockFree,
                    NEW i \in Instruments, NEW s \in Sides, NEW depth \in 1..Cardinality(Prices),
                    NEW k \in DOMAIN Snapshot(i, s, depth)
             PROVE  LET snap == Snapshot(i, s, depth)
                        ids == {id \in RestingIds(i) : BookFor(i).orders[id].side = s
                                  /\ BookFor(i).orders[id].price = snap[k].price}
                    IN /\ snap[k].count = Cardinality(ids)
                       /\ snap[k].quantity = SumFunction([id \in ids |->
                                                            BookFor(i).orders[id].remaining])
                       /\ \A j \in 1..(k - 1) : snap[j].price # snap[k].price
  BY Zenon DEF SnapshotTrue
<1> DEFINE snap == Snapshot(i, s, depth)
           ids == {id \in RestingIds(i) : BookFor(i).orders[id].side = s
                                          /\ BookFor(i).orders[id].price = snap[k].price}
<1> DEFINE book == BookFor(i)
           hand == submitting.id
<1>1. book \in Book /\ Sound(book, hand)
  BY BookForSound DEF LockFree
<1>2. Totals(book, hand)
  <2>1. CASE i \in DOMAIN books
    BY <2>1 DEF BookFor, TotalsOf
  <2>2. CASE i \notin DOMAIN books
    BY <2>2, EmptyBookTotals DEF BookFor
  <2> QED
    BY <2>1, <2>2
<1>3. At(book, hand, s, snap[k].price) = ids
  <2> HIDE DEF snap
  <2> QED
    BY DEF At, RestingIn, RestingIds
<1>4. Owed(book.orders, ids) = SumFunction([id \in ids |-> BookFor(i).orders[id].remaining])
  BY DEF Owed
<1>5. depth \in Nat /\ book = BookFor(i) /\ snap = Snapshot(i, s, depth) /\ k \in DOMAIN snap
  OBVIOUS
<1> HIDE DEF book, hand, snap, ids
<1>6. /\ snap[k].count = Cardinality(At(book, hand, s, snap[k].price))
      /\ snap[k].quantity = Owed(book.orders, At(book, hand, s, snap[k].price))
      /\ \A j \in 1..(k - 1) : snap[j].price # snap[k].price
  BY <1>1, <1>2, <1>5, SnapshotShown
<1>7. /\ snap[k].count = Cardinality(ids)
      /\ snap[k].quantity = SumFunction([id \in ids |-> BookFor(i).orders[id].remaining])
      /\ \A j \in 1..(k - 1) : snap[j].price # snap[k].price
  BY <1>3, <1>4, <1>6
<1> QED
  BY <1>7 DEF snap, ids

-----------------------------------------------------------------------------
(* The figures of all books, and the records of trades and replies.        *)

\* An order's trades among all trades.
Part(all, id) == Among(all, TradesBy(id))

LEMMA PartAppend ==
  ASSUME NEW all \in Seq(Trade), NEW t \in Trade, NEW x
  PROVE  /\ x \in {t.buy, t.sell} =>
              /\ Part(Append(all, t), x) = Append(Part(all, x), t)
              /\ Filled(Part(Append(all, t), x)) = Filled(Part(all, x)) + t.quantity
         /\ x \notin {t.buy, t.sell} => Part(Append(all, t), x) = Part(all, x)
<1>1. t \in TradesBy(x) <=> x \in {t.buy, t.sell}
  BY DEF TradesBy
<1>2. Part(all, x) \in Seq(Trade)
  BY AmongType DEF Part
<1>3. Part(Append(all, t), x) = IF t \in TradesBy(x) THEN Append(Part(all, x), t) ELSE Part(all, x)
  BY AmongAppend DEF Part
<1> DEFINE mine == Part(all, x)
<1> HIDE DEF mine
<1>4. Filled(Append(mine, t)) = Filled(mine) + t.quantity
  BY <1>2, FilledAppend DEF mine
<1> QED
  BY <1>1, <1>3, <1>4 DEF mine

\* What an order has executed is what is gone from its quantity.
Accounted(o, id, all, answers) ==
  /\ o.remaining <= o.quantity
  /\ o.quantity - o.remaining = Filled(Part(all, id))
  /\ id \in DOMAIN answers => answers[id].quantity = o.quantity

FillsOf(b, n, h, all, answers) ==
  /\ \A i \in DOMAIN b : \A id \in DOMAIN b[i].orders :
       /\ Accounted(b[i].orders[id], id, all, answers)
       /\ \A j \in DOMAIN b : j # i => id \notin DOMAIN b[j].orders
  /\ \A id \in DOMAIN answers :
       /\ Filled(Part(all, id)) <= answers[id].quantity
       /\ id < n /\ id # h.id
  /\ \A id \in OrderIds : id >= n => Part(all, id) = << >>

\* The order in hand knows all its trades.
HandOf(b, h, all) ==
  h # None =>
    LET o == b[h.inst].orders[h.id] IN
    /\ h.trades = Part(all, h.id)
    /\ h.trades = << >> <=> o.remaining = o.quantity

FiguresInv ==
  /\ MatchInv
  /\ TotalsOf(books, submitting)
  /\ FillsOf(books, nextOrder, submitting, trades, replies)
  /\ HandOf(books, submitting, trades)
  /\ Newest(recent, submitting.trades, trades)

LEMMA InitFigures == Init => FiguresInv
<1> SUFFICES ASSUME Init PROVE FiguresInv
  OBVIOUS
<1>1. /\ books = Nothing /\ nextOrder = 1 /\ submitting = None /\ recent = << >> /\ trades = << >>
      /\ replies = Nothing
  BY DEF Init
<1>2. DOMAIN Nothing = {}
  BY DEF Nothing
<1>3. MatchInv
  BY InitInv
<1>4. TotalsOf(books, submitting)
  BY <1>1, <1>2 DEF TotalsOf
<1>5. FillsOf(books, nextOrder, submitting, trades, replies)
  <2>1. \A id : Part(<< >>, id) = << >>
    BY AmongEmpty DEF Part
  <2> QED
    BY <1>1, <1>2, <2>1 DEF FillsOf
<1>6. HandOf(books, submitting, trades)
  BY <1>1 DEF HandOf
<1>7. Newest(recent, submitting.trades, trades)
  <2> DEFINE none == << >>
  <2>1. none \in Seq(Trade) /\ none = (none \o none) \o none /\ None.trades = none
    BY DEF None
  <2> QED
    BY <1>1, <2>1 DEF Newest
<1> QED
  BY <1>3, <1>4, <1>5, <1>6, <1>7 DEF FiguresInv

\* A new order: what changes in the books and the records.
Arrived(b, n, o, i, c, k) ==
  /\ DOMAIN c = DOMAIN b \union {i}
  /\ DOMAIN c[i].orders = DOMAIN BookOf(b, i).orders \union {n} /\ c[i].orders[n] = o
  /\ \A x \in DOMAIN BookOf(b, i).orders : c[i].orders[x] = BookOf(b, i).orders[x]
  /\ \A j \in DOMAIN b : j # i => c[j] = b[j]
  /\ \A j \in DOMAIN b : b[j] \in Book /\ \A x \in DOMAIN b[j].orders : x < n
  /\ c[i] = Enter(BookOf(b, i), n, o) /\ Entered(BookOf(b, i), n, o, c[i])
  /\ BookOf(b, i) \in Book /\ None.id \notin DOMAIN BookOf(b, i).orders
  /\ n \in OrderIds /\ n \in Int
  /\ \A x \in DOMAIN BookOf(b, i).orders : x < n
  /\ k = [inst |-> i, id |-> n, trades |-> << >>]
  /\ o \in Order /\ o.remaining = o.quantity

LEMMA SubmitFacts ==
  ASSUME MatchInv, NEW inst \in Instruments, NEW side \in Sides, NEW q \in Quantities,
         NEW type \in Types, NEW price, type = "limit" => price \in Prices,
         price \in Prices \union {NoPrice}, Submit(inst, type, side, price, q),
         NEW o, o = [side |-> side, type |-> type, price |-> price, quantity |-> q, remaining |-> q]
  PROVE  Arrived(books, nextOrder, o, inst, books', submitting')
<1> DEFINE n == nextOrder
           b == books
           c == books'
           mine == BookOf(b, inst)
<1>1. Opened(b, inst, n, o, c) /\ o \in Order
  BY SubmitBooks
<1>2. /\ LockFree /\ n <= MaxOrders /\ n \in 1..(MaxOrders + 1) /\ b \in PFun(Instruments, Book)
      /\ \A j \in DOMAIN b : b[j] \in Book /\ \A x \in DOMAIN b[j].orders : x < n
      /\ submitting' = [inst |-> inst, id |-> n, trades |-> << >>]
      /\ c = Put(b, inst, Enter(BookFor(inst), n, o))
  BY PFunDef DEF Submit, MatchInv, BooksInv
<1>3. n \in OrderIds /\ n \in Int
  BY <1>2, EngineAssumption DEF OrderIds, EngineAssumption
<1>4. mine = BookFor(inst)
  BY DEF BookFor, BookOf
<1>5. mine \in Book /\ None.id \notin DOMAIN mine.orders
  BY <1>2, <1>4, BookForSound
<1>6. o.remaining = o.quantity
  OBVIOUS
<1>7. c[inst] = Enter(mine, n, o)
  BY <1>2, <1>4, PutNew
<1> HIDE DEF n, b, c, mine
<1> QED
  BY <1>1, <1>2, <1>3, <1>5, <1>6, <1>7 DEF Opened, Entered, Arrived, mine, n, b, c

LEMMA ArriveTotals ==
  ASSUME NEW b, NEW n, NEW o, NEW i, NEW c, NEW k, Arrived(b, n, o, i, c, k), TotalsOf(b, None)
  PROVE  TotalsOf(c, k)
<1> SUFFICES ASSUME NEW j \in DOMAIN c PROVE Totals(c[j], k.id)
  BY DEF TotalsOf
<1>1. k.id = n
  BY DEF Arrived
<1>2. CASE j = i
  <2> DEFINE book == BookOf(b, i)
             new == c[i]
  <2>1. Totals(book, None.id)
    <3>1. CASE i \in DOMAIN b
      BY <3>1 DEF BookOf, TotalsOf
    <3>2. CASE i \notin DOMAIN b
      BY <3>2, EmptyBookTotals DEF BookOf
    <3> QED
      BY <3>1, <3>2
  <2>2. /\ new = Enter(book, n, o) /\ Entered(book, n, o, new) /\ book \in Book
        /\ None.id \notin DOMAIN book.orders /\ n \in Int /\ \A x \in DOMAIN book.orders : x < n
    BY DEF Arrived
  <2> HIDE DEF book, new
  <2>3. n \notin DOMAIN book.orders
    <3>1. ~ (n < n)
      BY <2>2
    <3> QED
      BY <2>2, <3>1
  <2>4. Totals(new, n)
    BY <2>1, <2>2, <2>3, EnterTotals
  <2> QED
    BY <1>1, <1>2, <2>4 DEF new
<1>3. CASE j # i
  <2>1. /\ j \in DOMAIN b /\ c[j] = b[j] /\ b[j] \in Book /\ Totals(b[j], None.id)
        /\ n \in Int /\ \A x \in DOMAIN b[j].orders : x < n
    BY <1>3 DEF Arrived, TotalsOf
  <2>2. n \notin DOMAIN b[j].orders
    <3>1. ~ (n < n)
      BY <2>1
    <3> QED
      BY <2>1, <3>1
  <2>3. None.id \notin DOMAIN b[j].orders
    BY <2>1, BookParts, NoneNotAnOrder
  <2> QED
    BY <1>1, <2>1, <2>2, <2>3, TotalsElsewhere
<1> QED
  BY <1>2, <1>3

LEMMA ArriveFills ==
  ASSUME NEW b, NEW n, NEW o, NEW i, NEW c, NEW k, Arrived(b, n, o, i, c, k),
         NEW all, NEW answers, DOMAIN answers \subseteq OrderIds, FillsOf(b, n, None, all, answers)
  PROVE  FillsOf(c, n + 1, k, all, answers)
<1>1. k.id = n /\ n \in Int /\ n \in OrderIds /\ OrderIds \subseteq Int
  BY DEF Arrived, OrderIds
<1>2. ASSUME NEW j \in DOMAIN c, NEW x \in DOMAIN c[j].orders
      PROVE  \/ j = i /\ x = n
             \/ x # n /\ j \in DOMAIN b /\ x \in DOMAIN b[j].orders /\ c[j].orders[x] = b[j].orders[x]
  <2>1. CASE j = i /\ x # n
    <3>1. x \in DOMAIN BookOf(b, i).orders /\ c[i].orders[x] = BookOf(b, i).orders[x]
      BY <1>2, <2>1 DEF Arrived
    <3>2. i \in DOMAIN b
      <4>1. DOMAIN EmptyBook.orders = {}
        BY EmptyBookSound
      <4> QED
        BY <3>1, <4>1 DEF BookOf
    <3> QED
      BY <2>1, <3>1, <3>2 DEF BookOf
  <2>2. CASE j # i
    <3>1. j \in DOMAIN b /\ c[j] = b[j] /\ \A y \in DOMAIN b[j].orders : y < n
      BY <1>2, <2>2 DEF Arrived
    <3>2. x < n
      BY <1>2, <3>1
    <3> QED
      BY <1>1, <1>2, <3>1, <3>2
  <2> QED
    BY <2>1, <2>2
<1>3. n \notin DOMAIN answers
  <2>1. ~ (n < n)
    BY <1>1
  <2> QED
    BY <2>1 DEF FillsOf
<1>4. Accounted(o, n, all, answers)
  <2>1. Filled(Part(all, n)) = 0
    <3>1. Part(all, n) = << >>
      BY <1>1 DEF FillsOf
    <3> QED
      BY <3>1, FilledEmpty
  <2>2. o.remaining = o.quantity /\ o.quantity \in Int
    BY BookAssumption DEF Arrived, Order, BookAssumption
  <2> QED
    BY <1>3, <2>1, <2>2 DEF Accounted
<1>5. ASSUME NEW j \in DOMAIN c, NEW x \in DOMAIN c[j].orders
      PROVE  /\ Accounted(c[j].orders[x], x, all, answers)
             /\ \A m \in DOMAIN c : m # j => x \notin DOMAIN c[m].orders
  <2>1. CASE j = i /\ x = n
    <3>1. c[j].orders[x] = o
      BY <2>1 DEF Arrived
    <3> QED
      BY <1>2, <1>4, <2>1, <3>1
  <2>2. CASE ~ (j = i /\ x = n)
    <3>1. x # n /\ j \in DOMAIN b /\ x \in DOMAIN b[j].orders /\ c[j].orders[x] = b[j].orders[x]
      BY <1>2, <1>5, <2>2
    <3>2. /\ Accounted(b[j].orders[x], x, all, answers)
          /\ \A m \in DOMAIN b : m # j => x \notin DOMAIN b[m].orders
      BY <3>1 DEF FillsOf
    <3> QED
      BY <1>2, <3>1, <3>2
  <2> QED
    BY <2>1, <2>2
<1>6. ASSUME NEW x \in DOMAIN answers
      PROVE  Filled(Part(all, x)) <= answers[x].quantity /\ x < n + 1 /\ x # k.id
  <2>1. Filled(Part(all, x)) <= answers[x].quantity /\ x < n /\ x \in Int
    BY <1>1 DEF FillsOf
  <2> QED
    BY <1>1, <2>1
<1>7. ASSUME NEW x \in OrderIds, x >= n + 1 PROVE Part(all, x) = << >>
  <2>1. x >= n
    BY <1>1, <1>7
  <2> QED
    BY <2>1 DEF FillsOf
<1> QED
  BY <1>5, <1>6, <1>7 DEF FillsOf

LEMMA SubmitFigures ==
  ASSUME FiguresInv, NEW inst \in Instruments, NEW side \in Sides, NEW q \in Quantities,
         NEW type \in Types, NEW price, type = "limit" => price \in Prices,
         price \in Prices \union {NoPrice}, Submit(inst, type, side, price, q)
  PROVE  FiguresInv'
<1> DEFINE o == [side |-> side, type |-> type, price |-> price, quantity |-> q, remaining |-> q]
           b == books
           n == nextOrder
           c == books'
           k == submitting'
<1>1. MatchInv /\ MatchInv'
  BY SubmitKeepsInv DEF FiguresInv
<1>2. Arrived(b, n, o, inst, c, k)
  BY <1>1, SubmitFacts
<1>3. /\ submitting = None /\ nextOrder' = n + 1
      /\ recent' = recent /\ trades' = trades /\ replies' = replies
  BY DEF Submit, LockFree
<1>4. TotalsOf(b, None) /\ FillsOf(b, n, None, trades, replies) /\ Newest(recent, None.trades, trades)
  BY <1>3 DEF FiguresInv
<1>5. DOMAIN replies \subseteq OrderIds
  BY <1>1 DEF MatchInv, RecordsInv
<1> HIDE DEF b, n, o, c, k
<1>6. TotalsOf(c, k)
  BY <1>2, <1>4, ArriveTotals
<1>7. FillsOf(c, n + 1, k, trades, replies)
  BY <1>2, <1>4, <1>5, ArriveFills
<1>8. HandOf(c, k, trades) /\ k.trades = None.trades
  <2>1. /\ k.inst = inst /\ k.id = n /\ k.trades = << >> /\ c[inst].orders[n] = o
        /\ o.remaining = o.quantity /\ n \in OrderIds /\ n \in Int
    BY <1>2 DEF Arrived
  <2>2. Part(trades, n) = << >>
    BY <1>4, <2>1 DEF FillsOf
  <2> QED
    BY <2>1, <2>2 DEF HandOf, None
<1> QED
  BY <1>1, <1>3, <1>4, <1>6, <1>7, <1>8 DEF FiguresInv, c, k, n

\* Book i loses orders at most; the other books stay, and do not own the order in hand.
Thinned(b, h, i, c) ==
  /\ i \in DOMAIN b /\ DOMAIN c = DOMAIN b
  /\ \A j \in DOMAIN b : j # i => /\ c[j] = b[j] /\ b[j] \in Book
                                  /\ h.id \notin DOMAIN b[j].orders
  /\ DOMAIN c[i].orders \subseteq DOMAIN b[i].orders
  /\ \A x \in DOMAIN c[i].orders : c[i].orders[x] = b[i].orders[x]
  /\ Totals(c[i], None.id)

LEMMA ThinTotals ==
  ASSUME NEW b, NEW h, NEW i, NEW c, Thinned(b, h, i, c), TotalsOf(b, h)
  PROVE  TotalsOf(c, None)
<1> SUFFICES ASSUME NEW j \in DOMAIN c PROVE Totals(c[j], None.id)
  BY DEF TotalsOf
<1>1. CASE j = i
  BY <1>1 DEF Thinned
<1>2. CASE j # i
  <2>1. c[j] = b[j] /\ b[j] \in Book /\ h.id \notin DOMAIN b[j].orders /\ Totals(b[j], h.id)
    BY <1>2 DEF Thinned, TotalsOf
  <2>2. None.id \notin DOMAIN b[j].orders
    BY <2>1, BookParts, NoneNotAnOrder
  <2> QED
    BY <2>1, <2>2, TotalsElsewhere
<1> QED
  BY <1>1, <1>2

LEMMA ThinFills ==
  ASSUME NEW b, NEW h, NEW i, NEW c, Thinned(b, h, i, c), NEW n, NEW all, NEW answers,
         DOMAIN answers \subseteq OrderIds, FillsOf(b, n, h, all, answers)
  PROVE  FillsOf(c, n, None, all, answers)
<1>1. \A j \in DOMAIN c : \A x \in DOMAIN c[j].orders :
        j \in DOMAIN b /\ x \in DOMAIN b[j].orders /\ c[j].orders[x] = b[j].orders[x]
  BY DEF Thinned
<1>2. DOMAIN c = DOMAIN b
  BY DEF Thinned
<1>3. \A j \in DOMAIN c : \A x \in DOMAIN c[j].orders :
        /\ Accounted(c[j].orders[x], x, all, answers)
        /\ \A m \in DOMAIN c : m # j => x \notin DOMAIN c[m].orders
  BY <1>1, <1>2 DEF FillsOf
<1>4. \A x \in DOMAIN answers : x # None.id
  BY NoneNotAnOrder
<1> QED
  BY <1>3, <1>4 DEF FillsOf

\* The reply is added.
LEMMA ReplyFills ==
  ASSUME NEW b, NEW n, NEW h, NEW all, NEW answers, FillsOf(b, n, h, all, answers), h # None,
         h.id \in OrderIds, h.inst \in DOMAIN b, h.id \in DOMAIN b[h.inst].orders, n = h.id + 1,
         b[h.inst].orders[h.id] \in Order,
         NEW r, r.quantity = b[h.inst].orders[h.id].quantity,
         DOMAIN answers \subseteq OrderIds
  PROVE  FillsOf(b, n, None, all, Put(answers, h.id, r))
<1> DEFINE id == h.id
           o == b[h.inst].orders[id]
           more == Put(answers, id, r)
<1>1. DOMAIN more = DOMAIN answers \union {id}
  BY PutDomain
<1>2. more[id] = r
  BY PutNew
<1>3. \A x \in DOMAIN answers : x # id => more[x] = answers[x]
  BY PutOld
<1>4. Accounted(o, id, all, answers) /\ \A j \in DOMAIN b : j # h.inst => id \notin DOMAIN b[j].orders
  BY DEF FillsOf
<1>5. o.quantity \in Nat /\ o.remaining \in Nat /\ r.quantity = o.quantity
  BY BookAssumption DEF Order, BookAssumption
<1>6. id \in OrderIds /\ id \in Int /\ n = id + 1 /\ id # None.id
  BY NoneNotAnOrder DEF OrderIds
<1> HIDE DEF id, more
<1>7. ASSUME NEW j \in DOMAIN b, NEW x \in DOMAIN b[j].orders
      PROVE  Accounted(b[j].orders[x], x, all, more)
  <2>1. Accounted(b[j].orders[x], x, all, answers)
    BY DEF FillsOf
  <2>2. CASE x = id
    <3>1. j = h.inst
      BY <1>4, <1>7, <2>2
    <3>2. b[j].orders[x] = o
      BY <2>2, <3>1
    <3> HIDE DEF o
    <3> QED
      BY <1>2, <1>5, <2>1, <2>2, <3>2 DEF Accounted
  <2>3. CASE x # id
    BY <1>1, <1>3, <2>1, <2>3 DEF Accounted
  <2> QED
    BY <2>2, <2>3
<1> HIDE DEF o
<1>8. ASSUME NEW x \in DOMAIN more
      PROVE  Filled(Part(all, x)) <= more[x].quantity /\ x < n /\ x # None.id
  <2>1. CASE x = id
    <3>1. o.quantity - o.remaining = Filled(Part(all, id))
      BY <1>4 DEF Accounted
    <3> QED
      BY <1>2, <1>5, <1>6, <2>1, <3>1
  <2>2. CASE x # id
    <3>1. x \in DOMAIN answers /\ more[x] = answers[x]
      BY <1>1, <1>3, <1>8, <2>2
    <3> QED
      BY <3>1, NoneNotAnOrder DEF FillsOf
  <2> QED
    BY <2>1, <2>2
<1>9. /\ \A j \in DOMAIN b : \A x \in DOMAIN b[j].orders :
           \A m \in DOMAIN b : m # j => x \notin DOMAIN b[m].orders
      /\ \A x \in OrderIds : x >= n => Part(all, x) = << >>
  BY DEF FillsOf
<1>10. FillsOf(b, n, None, all, more)
  BY <1>7, <1>8, <1>9 DEF FillsOf
<1> QED
  BY <1>10 DEF more, id

LEMMA CancelFigures ==
  ASSUME FiguresInv, NEW inst \in Instruments, NEW id \in OrderIds, Cancel(inst, id)
  PROVE  FiguresInv'
<1> DEFINE b == books
           c == books'
           mine == b[inst]
           v == CancelOrder(mine, id)
           none == None.id
<1>1. MatchInv /\ MatchInv'
  BY CancelKeepsInv DEF FiguresInv
<1>2. /\ b \in PFun(Instruments, Book) /\ submitting = None /\ inst \in DOMAIN b
      /\ mine \in Book /\ id \in DOMAIN mine.orders /\ Sound(mine, none) /\ Uncrossed(mine)
      /\ c = [b EXCEPT ![inst] = v]
      /\ UNCHANGED <<nextOrder, submitting, recent, trades, replies>>
      /\ \A j \in DOMAIN b : b[j] \in Book
      /\ DOMAIN replies \subseteq OrderIds
  BY <1>1, PFunDef DEF MatchInv, BooksInv, RecordsInv, Cancel, LockFree
<1>3. /\ TotalsOf(b, None) /\ FillsOf(b, nextOrder, None, trades, replies)
      /\ Newest(recent, None.trades, trades)
  BY <1>2 DEF FiguresInv
<1>4. none \notin OrderIds
  BY NoneNotAnOrder
<1>5. Totals(mine, none)
  BY <1>2, <1>3 DEF TotalsOf
<1> HIDE DEF none, mine
<1>6. Disowned(mine, id, none, v)
  BY <1>2, <1>4, CancelSound
<1>7. Totals(v, none)
  BY <1>2, <1>4, <1>5, <1>6, CancelTotals
<1> HIDE DEF v, b, c
<1>8. DOMAIN c = DOMAIN b /\ c[inst] = v /\ \A j \in DOMAIN b : j # inst => c[j] = b[j]
  BY <1>2, <1>6, ReplaceBook DEF Disowned
<1>9. Thinned(b, None, inst, c)
  <2>1. \A j \in DOMAIN b : None.id \notin DOMAIN b[j].orders
    BY <1>2, BookParts, NoneNotAnOrder
  <2> QED
    BY <1>2, <1>6, <1>7, <1>8, <2>1 DEF Thinned, Disowned, mine, none
<1>10. TotalsOf(c, None) /\ FillsOf(c, nextOrder, None, trades, replies)
  BY <1>2, <1>3, <1>9, ThinTotals, ThinFills
<1>11. HandOf(c, None, trades)
  BY DEF HandOf
<1> QED
  BY <1>1, <1>2, <1>3, <1>10, <1>11 DEF FiguresInv, c

LEMMA FinishFigures == FiguresInv /\ Finish => FiguresInv'
<1> SUFFICES ASSUME FiguresInv, Finish PROVE FiguresInv'
  OBVIOUS
<1> DEFINE b == books
           c == books'
           h == submitting
           i == h.inst
           id == h.id
           mine == b[i]
           v == SettleOrder(mine, id)
           none == None.id
           n == nextOrder
           r == [status |-> FinalStatus(mine, id, h.trades # << >>), type |-> mine.orders[id].type,
                 quantity |-> mine.orders[id].quantity, trades |-> h.trades]
<1>1. MatchInv /\ MatchInv'
  BY FinishKeepsInv DEF FiguresInv
<1>2. /\ i \in DOMAIN b /\ mine \in Book /\ id \in DOMAIN mine.orders /\ id \in OrderIds
      /\ Sound(mine, id) /\ Uncrossed(mine) /\ \A x \in RestingIn(mine, id) : x < id
      /\ mine.orders[id].type = "limit" => mine.orders[id].price \in Prices
      /\ mine.orders[id] \in Order
      /\ \A j \in DOMAIN b : j # i => id \notin DOMAIN b[j].orders
  BY <1>1, ActiveFacts DEF Finish
<1>3. /\ h # None /\ ~ CanMatch(mine, id) /\ c = [b EXCEPT ![i] = v]
      /\ recent' = Remember(recent, h.trades) /\ replies' = Put(replies, id, r)
      /\ submitting' = None /\ nextOrder' = n /\ trades' = trades
  BY DEF Finish, LockFree
<1>4. /\ b \in PFun(Instruments, Book) /\ \A j \in DOMAIN b : b[j] \in Book
      /\ n = id + 1 /\ h.trades \in Seq(Trade) /\ recent \in Seq(Trade) /\ trades \in Seq(Trade)
      /\ Len(recent) <= Capacity /\ DOMAIN replies \subseteq OrderIds
  <2>1. BooksInv(b, n, h) /\ InHand(b, n, h) /\ RecordsInv(recent, trades, replies)
    BY <1>1, <1>3 DEF MatchInv, BooksInv
  <2> HIDE DEF b, n, h, i, id
  <2>2. b \in PFun(Instruments, Book) /\ \A j \in DOMAIN b : b[j] \in Book
    BY <2>1, PFunDef DEF BooksInv
  <2>3. n = h.id + 1 /\ h.trades \in Seq(Trade)
    BY <2>1 DEF InHand
  <2> QED
    BY <2>1, <2>2, <2>3 DEF RecordsInv, id
<1>5. /\ TotalsOf(b, h) /\ FillsOf(b, n, h, trades, replies) /\ Newest(recent, h.trades, trades)
  BY DEF FiguresInv
<1>6. none \notin OrderIds /\ r.quantity = mine.orders[id].quantity
  BY NoneNotAnOrder
<1>7. Totals(mine, id)
  BY <1>2, <1>5 DEF TotalsOf
<1>a. mine = b[i] /\ id = h.id /\ i = h.inst /\ v = SettleOrder(mine, id)
  OBVIOUS
<1> HIDE DEF none, mine, r, b, c, h, i, id, n, v
<1>8. Settled(mine, id, none, v) /\ Totals(v, none)
  <2>1. Settled(mine, id, none, v)
    BY <1>2, <1>3, <1>6, <1>a, SettleSound
  <2>2. Totals(v, none)
    BY <1>2, <1>3, <1>6, <1>7, <1>a, SettleTotals
  <2> QED
    BY <2>1, <2>2
<1>9. DOMAIN c = DOMAIN b /\ c[i] = v /\ \A j \in DOMAIN b : j # i => c[j] = b[j]
  BY <1>2, <1>3, <1>4, <1>8, ReplaceBook DEF Settled
<1>10. Thinned(b, h, i, c)
  <2>1. /\ DOMAIN v.orders \subseteq DOMAIN mine.orders
        /\ \A x \in DOMAIN v.orders : v.orders[x] = mine.orders[x]
    BY <1>2, <1>8 DEF Settled
  <2> QED
    BY <1>2, <1>4, <1>8, <1>9, <1>a, <2>1 DEF Thinned, none
<1>11. FillsOf(b, n, None, trades, replies')
  BY <1>2, <1>3, <1>4, <1>5, <1>6, <1>a, ReplyFills
<1>12. TotalsOf(c, None)
  BY <1>5, <1>10, ThinTotals
<1>13. FillsOf(c, n, None, trades, replies')
  <2>1. Thinned(b, None, i, c)
    <3>1. \A j \in DOMAIN b : None.id \notin DOMAIN b[j].orders
      BY <1>4, BookParts, NoneNotAnOrder
    <3> QED
      BY <1>10, <3>1 DEF Thinned
  <2>2. DOMAIN replies' \subseteq OrderIds
    BY <1>1 DEF MatchInv, RecordsInv
  <2> QED
    BY <1>11, <2>1, <2>2, ThinFills
<1>14. HandOf(c, None, trades)
  BY DEF HandOf
<1>15. Newest(recent', None.trades, trades)
  <2>1. None.trades = << >>
    BY DEF None
  <2> QED
    BY <1>3, <1>4, <1>5, <2>1, RememberNewest
<1> QED
  BY <1>1, <1>3, <1>12, <1>13, <1>14, <1>15 DEF FiguresInv, c, n

\* One execution: what changes in the books and the records.
Matched(b, h, i, id, r, exec, t, c, k) ==
  /\ i \in DOMAIN b /\ DOMAIN c = DOMAIN b /\ (\A j \in DOMAIN b : j # i => c[j] = b[j])
  /\ h.inst = i /\ h.id = id /\ h.trades \in Seq(Trade)
  /\ k.inst = i /\ k.id = id /\ k.trades = Append(h.trades, t) /\ h # None
  /\ id \in DOMAIN b[i].orders /\ id \in DOMAIN c[i].orders /\ r \in DOMAIN b[i].orders /\ r # id
  /\ DOMAIN c[i].orders \subseteq DOMAIN b[i].orders
  /\ exec \in Nat \ {0}
  /\ \A x \in DOMAIN b[i].orders : x \in {id, r} => exec <= b[i].orders[x].remaining
  /\ \A j \in DOMAIN b : b[j] \in Book
  /\ \A x \in DOMAIN c[i].orders :
       /\ c[i].orders[x].quantity = b[i].orders[x].quantity
       /\ c[i].orders[x].remaining = IF x \in {id, r} THEN b[i].orders[x].remaining - exec
                                     ELSE b[i].orders[x].remaining
  /\ t \in Trade /\ t.quantity = exec /\ {t.buy, t.sell} = {id, r}

LEMMA ExecutingOrders ==
  ASSUME NEW book, NEW id, NEW s, NEW p, NEW r, NEW exec, NEW new,
         Executing(book, id, s, p, r, exec, new), id \in DOMAIN book.orders, r # id
  PROVE  /\ new \in Book /\ DOMAIN new.orders \subseteq DOMAIN book.orders /\ id \in DOMAIN new.orders
         /\ \A x \in DOMAIN new.orders :
              /\ new.orders[x].quantity = book.orders[x].quantity
              /\ new.orders[x].remaining = IF x \in {id, r} THEN book.orders[x].remaining - exec
                                           ELSE book.orders[x].remaining
  BY DEF Executing

LEMMA MatchedFacts ==
  ASSUME MatchInv, Match,
         NEW i, i = submitting.inst, NEW id, id = submitting.id, NEW book, book = books[i],
         NEW r, r = Counterpart(book, id), NEW exec, exec = ExecQuantity(book, id),
         NEW new, new = Execute(book, id)
  PROVE  /\ Matched(books, submitting, i, id, r, exec, NextTrade, books', submitting')
         /\ book \in Book /\ id \in DOMAIN book.orders /\ Sound(book, id) /\ CanMatch(book, id)
         /\ books'[i] = new
<1> DEFINE b == books
           c == books'
           h == submitting
           k == submitting'
           t == NextTrade
           s == Opposite(book.orders[id].side)
           p == BestPrice(book, s)
<1>1. /\ i \in DOMAIN b /\ book \in Book /\ id \in DOMAIN book.orders /\ id \in OrderIds
      /\ Sound(book, id)
  BY ActiveFacts DEF Match
<1>2. /\ h # None /\ CanMatch(book, id) /\ c = [b EXCEPT ![i] = new]
      /\ k = [h EXCEPT !.trades = Append(@, t)]
  BY DEF Match, LockFree
<1>3. /\ h \in [inst: Instruments, id: OrderIds, trades: Seq(Trade)]
      /\ b \in PFun(Instruments, Book) /\ \A j \in DOMAIN b : b[j] \in Book
      /\ t \in Trade
  BY <1>2, PFunDef, NextTradeType DEF MatchInv, BooksInv, InHand
<1>4. k.inst = i /\ k.id = id /\ k.trades = Append(h.trades, t) /\ h.trades \in Seq(Trade)
  BY <1>2, <1>3
<1>5. Executing(book, id, s, p, r, exec, new)
  BY <1>1, <1>2, ExecuteFacts
<1>6. Facing(book, id, book.orders[id], s, p, book.levels[s][p].queue, r, exec)
  BY <1>1, <1>2, MatchFacts
<1>7. t.quantity = exec /\ {t.buy, t.sell} = {id, r}
  <2>1. t = [id |-> Len(trades) + 1, inst |-> submitting.inst,
             price |-> book.orders[r].price, quantity |-> exec,
             buy |-> IF book.orders[id].side = "buy" THEN id ELSE r,
             sell |-> IF book.orders[id].side = "buy" THEN r ELSE id]
    BY DEF NextTrade
  <2> HIDE DEF t
  <2> QED
    BY <2>1
<1> HIDE DEF s, p, t
<1>8. /\ new \in Book /\ DOMAIN new.orders \subseteq DOMAIN book.orders /\ id \in DOMAIN new.orders
      /\ \A x \in DOMAIN new.orders :
           /\ new.orders[x].quantity = book.orders[x].quantity
           /\ new.orders[x].remaining = IF x \in {id, r} THEN book.orders[x].remaining - exec
                                        ELSE book.orders[x].remaining
  <2>1. r # id
    BY <1>6 DEF Facing
  <2> QED
    BY <1>1, <1>5, <2>1, ExecutingOrders
<1>9. /\ r \in DOMAIN book.orders /\ r # id /\ exec \in Nat \ {0}
      /\ exec <= book.orders[id].remaining /\ exec <= book.orders[r].remaining
  BY <1>6 DEF Facing
<1>10. DOMAIN c = DOMAIN b /\ c[i] = new /\ \A j \in DOMAIN b : j # i => c[j] = b[j]
  <2> HIDE DEF b, c
  <2> QED
    BY <1>1, <1>2, <1>3, <1>8, ReplaceBook
<1>11. Matched(b, h, i, id, r, exec, t, c, k)
  <2>1. b[i] = book /\ h.inst = i /\ h.id = id
    OBVIOUS
  <2> HIDE DEF b, c, h, k
  <2>2. \A x \in DOMAIN c[i].orders :
          /\ c[i].orders[x].quantity = b[i].orders[x].quantity
          /\ c[i].orders[x].remaining = IF x \in {id, r} THEN b[i].orders[x].remaining - exec
                                        ELSE b[i].orders[x].remaining
    BY <1>8, <1>10, <2>1
  <2>3. \A x \in DOMAIN b[i].orders : x \in {id, r} => exec <= b[i].orders[x].remaining
    BY <1>9, <2>1
  <2>4. id \in DOMAIN b[i].orders /\ id \in DOMAIN c[i].orders /\ r \in DOMAIN b[i].orders
        /\ DOMAIN c[i].orders \subseteq DOMAIN b[i].orders
    BY <1>1, <1>8, <1>9, <1>10, <2>1
  <2> QED
    BY <1>1, <1>2, <1>3, <1>4, <1>7, <1>9, <1>10, <2>1, <2>2, <2>3, <2>4 DEF Matched
<1> QED
  BY <1>1, <1>2, <1>10, <1>11 DEF t

LEMMA MatchedOrder ==
  ASSUME NEW b, NEW h, NEW i, NEW id, NEW r, NEW exec, NEW t, NEW c, NEW k,
         Matched(b, h, i, id, r, exec, t, c, k), NEW all \in Seq(Trade), NEW answers, NEW n,
         FillsOf(b, n, h, all, answers), NEW j \in DOMAIN c, NEW x \in DOMAIN c[j].orders
  PROVE  Accounted(c[j].orders[x], x, Append(all, t), answers)
<1>1. /\ j \in DOMAIN b /\ x \in DOMAIN b[j].orders
      /\ c[j].orders[x].quantity = b[j].orders[x].quantity
      /\ c[j].orders[x].remaining = IF j = i /\ x \in {id, r} THEN b[j].orders[x].remaining - exec
                                    ELSE b[j].orders[x].remaining
  BY DEF Matched
<1>2. /\ Accounted(b[j].orders[x], x, all, answers)
      /\ \A m \in DOMAIN b : m # j => x \notin DOMAIN b[m].orders
  BY <1>1 DEF FillsOf
<1>3. b[j].orders[x].quantity \in Nat /\ b[j].orders[x].remaining \in Nat /\ exec \in Nat
  <2>1. b[j].orders[x] \in Order
    BY <1>1, BookParts DEF Matched
  <2> QED
    BY <2>1, BookAssumption DEF Matched, Order, BookAssumption
<1>4. x \in {t.buy, t.sell} <=> j = i /\ x \in {id, r}
  BY <1>1, <1>2 DEF Matched
<1>5. /\ t \in Trade /\ t.quantity = exec
      /\ j = i /\ x \in {id, r} => exec <= b[j].orders[x].remaining
  BY <1>1 DEF Matched
<1>6. CASE j = i /\ x \in {id, r}
  <2>1. Filled(Part(Append(all, t), x)) = Filled(Part(all, x)) + exec
    BY <1>4, <1>5, <1>6, PartAppend
  <2>2. b[j].orders[x].quantity - b[j].orders[x].remaining = Filled(Part(all, x))
    BY <1>2 DEF Accounted
  <2>3. c[j].orders[x].remaining = b[j].orders[x].remaining - exec
    BY <1>1, <1>6
  <2>4. b[j].orders[x].remaining <= b[j].orders[x].quantity
    BY <1>2 DEF Accounted
  <2>5. /\ c[j].orders[x].remaining <= c[j].orders[x].quantity
        /\ c[j].orders[x].quantity - c[j].orders[x].remaining = Filled(Part(Append(all, t), x))
    BY <1>1, <1>3, <2>1, <2>2, <2>3, <2>4
  <2> QED
    BY <1>1, <1>2, <2>5 DEF Accounted
<1>7. CASE ~ (j = i /\ x \in {id, r})
  <2>1. Part(Append(all, t), x) = Part(all, x)
    BY <1>4, <1>5, <1>7, PartAppend
  <2>2. c[j].orders[x].remaining = b[j].orders[x].remaining
    BY <1>1, <1>7
  <2> QED
    BY <1>1, <1>2, <2>1, <2>2 DEF Accounted
<1> QED
  BY <1>6, <1>7

LEMMA MatchedFills ==
  ASSUME NEW b, NEW h, NEW i, NEW id, NEW r, NEW exec, NEW t, NEW c, NEW k,
         Matched(b, h, i, id, r, exec, t, c, k), NEW all \in Seq(Trade), NEW answers, NEW n \in Int,
         \A j \in DOMAIN b : \A x \in DOMAIN b[j].orders : x < n,
         FillsOf(b, n, h, all, answers)
  PROVE  FillsOf(c, n, k, Append(all, t), answers)
<1> DEFINE more == Append(all, t)
<1>1. ASSUME NEW j \in DOMAIN c, NEW x \in DOMAIN c[j].orders
      PROVE  \A m \in DOMAIN c : m # j => x \notin DOMAIN c[m].orders
  <2>1. /\ DOMAIN c = DOMAIN b /\ \A m \in DOMAIN c : DOMAIN c[m].orders \subseteq DOMAIN b[m].orders
    BY DEF Matched
  <2> QED
    BY <2>1 DEF FillsOf
<1>2. ASSUME NEW x \in DOMAIN answers
      PROVE  Filled(Part(more, x)) <= answers[x].quantity /\ x < n /\ x # k.id
  <2>1. Filled(Part(all, x)) <= answers[x].quantity /\ x < n /\ x # h.id
    BY DEF FillsOf
  <2>2. x # id /\ x # k.id
    BY <2>1 DEF Matched
  <2>3. CASE x = r
    <3> DEFINE o == b[i].orders[r]
    <3>1. /\ r \in DOMAIN b[i].orders /\ i \in DOMAIN b /\ o \in Order /\ t \in Trade
          /\ t.quantity = exec /\ exec \in Nat /\ exec <= o.remaining /\ r \in {t.buy, t.sell}
      <4>1. r \in DOMAIN b[i].orders /\ i \in DOMAIN b /\ b[i] \in Book
        BY DEF Matched
      <4>2. o \in Order
        BY <4>1, BookParts
      <4> QED
        BY <4>1, <4>2 DEF Matched
    <3>2. Accounted(o, r, all, answers)
      BY <3>1 DEF FillsOf
    <3>3. o.quantity \in Nat /\ o.remaining \in Nat
      BY <3>1, BookAssumption DEF Order, BookAssumption
    <3>4. Filled(Part(more, r)) = Filled(Part(all, r)) + exec
      BY <3>1, PartAppend
    <3> HIDE DEF o, more
    <3>5. o.quantity - o.remaining = Filled(Part(all, r)) /\ answers[r].quantity = o.quantity
      BY <1>2, <2>3, <3>2 DEF Accounted
    <3>6. Filled(Part(more, r)) <= answers[r].quantity
      BY <3>1, <3>3, <3>4, <3>5
    <3> QED
      BY <2>1, <2>2, <2>3, <3>6
  <2>4. CASE x # r
    <3>1. x \notin {t.buy, t.sell} /\ t \in Trade
      BY <2>2, <2>4 DEF Matched
    <3>2. Part(more, x) = Part(all, x)
      BY <3>1, PartAppend
    <3> QED
      BY <2>1, <2>2, <3>2
  <2> QED
    BY <2>3, <2>4
<1>3. ASSUME NEW x \in OrderIds, x >= n PROVE Part(more, x) = << >>
  <2>1. x # id /\ x # r
    <3>1. id < n /\ r < n
      BY DEF Matched
    <3>2. x \in Int
      BY DEF OrderIds
    <3> QED
      BY <1>3, <3>1, <3>2
  <2>2. x \notin {t.buy, t.sell} /\ t \in Trade
    BY <2>1 DEF Matched
  <2>3. Part(all, x) = << >>
    BY <1>3 DEF FillsOf
  <2> QED
    BY <2>2, <2>3, PartAppend
<1>4. \A j \in DOMAIN c : \A x \in DOMAIN c[j].orders : Accounted(c[j].orders[x], x, more, answers)
  BY MatchedOrder
<1> HIDE DEF more
<1>5. FillsOf(c, n, k, more, answers)
  BY <1>1, <1>2, <1>3, <1>4 DEF FillsOf
<1> QED
  BY <1>5 DEF more

LEMMA MatchFigures == FiguresInv /\ Match => FiguresInv'
<1> SUFFICES ASSUME FiguresInv, Match PROVE FiguresInv'
  OBVIOUS
<1> DEFINE b == books
           c == books'
           h == submitting
           k == submitting'
           i == h.inst
           id == h.id
           book == b[i]
           r == Counterpart(book, id)
           exec == ExecQuantity(book, id)
           new == Execute(book, id)
           t == NextTrade
           n == nextOrder
           all == trades
<1>1. MatchInv /\ MatchInv'
  BY MatchKeepsInv DEF FiguresInv
<1>2. /\ Matched(b, h, i, id, r, exec, t, c, k) /\ book \in Book /\ id \in DOMAIN book.orders
      /\ Sound(book, id) /\ CanMatch(book, id) /\ c[i] = new
  BY <1>1, MatchedFacts
<1>3. /\ trades' = Append(all, t) /\ nextOrder' = n /\ recent' = recent /\ replies' = replies
  BY DEF Match
<1>4. /\ TotalsOf(b, h) /\ FillsOf(b, n, h, all, replies) /\ HandOf(b, h, all)
      /\ Newest(recent, h.trades, all)
  BY DEF FiguresInv
<1>5. /\ n \in Int /\ \A j \in DOMAIN b : \A x \in DOMAIN b[j].orders : x < n
      /\ all \in Seq(Trade) /\ recent \in Seq(Trade)
  BY <1>1 DEF MatchInv, BooksInv, RecordsInv
<1>a. /\ new = Execute(book, id) /\ book = b[i] /\ r = Counterpart(book, id)
      /\ exec = ExecQuantity(book, id)
  OBVIOUS
<1> HIDE DEF b, c, h, k, i, id, book, r, exec, new, t, n, all
<1>6. TotalsOf(c, k)
  <2>1. Totals(new, id)
    <3>1. Totals(book, id)
      BY <1>2, <1>4, <1>a DEF TotalsOf, Matched
    <3> QED
      BY <1>2, <1>a, <3>1, ExecuteTotals
  <2> QED
    BY <1>2, <1>4, <2>1 DEF TotalsOf, Matched
<1>7. FillsOf(c, n, k, Append(all, t), replies)
  BY <1>2, <1>4, <1>5, MatchedFills
<1>8. HandOf(c, k, Append(all, t))
  <2>1. /\ h.trades = Part(all, id) /\ h.inst = i /\ h.id = id /\ h.trades \in Seq(Trade)
        /\ k.inst = i /\ k.id = id /\ k.trades = Append(h.trades, t) /\ t \in Trade
        /\ id \in {t.buy, t.sell} /\ t.quantity = exec /\ exec \in Nat \ {0}
        /\ id \in DOMAIN c[i].orders /\ i \in DOMAIN c /\ i \in DOMAIN b /\ id \in DOMAIN b[i].orders
        /\ c[i].orders[id].remaining = b[i].orders[id].remaining - exec
        /\ c[i].orders[id].quantity = b[i].orders[id].quantity
    BY <1>2, <1>4 DEF Matched, HandOf
  <2>2. k.trades = Part(Append(all, t), id)
    BY <1>5, <2>1, PartAppend
  <2>3. k.trades # << >>
    BY <2>1, AppendProperties
  <2>4. c[i].orders[id].remaining # c[i].orders[id].quantity
    <3>1. b[i].orders[id].remaining <= b[i].orders[id].quantity
      BY <1>4, <2>1 DEF FillsOf, Accounted
    <3>2. b[i].orders[id] \in Order
      BY <1>2, <1>a, <2>1, BookParts
    <3>3. b[i].orders[id].quantity \in Nat /\ b[i].orders[id].remaining \in Nat
      BY <3>2, BookAssumption DEF Order, BookAssumption
    <3> QED
      BY <2>1, <3>1, <3>3
  <2> QED
    BY <2>1, <2>2, <2>3, <2>4 DEF HandOf
<1>9. Newest(recent, k.trades, Append(all, t))
  <2>1. PICK old \in Seq(Trade) : /\ all = (old \o recent) \o h.trades
                                  /\ old # << >> => Len(recent) = Capacity
    BY <1>4 DEF Newest
  <2>2. h.trades \in Seq(Trade) /\ t \in Trade /\ k.trades = Append(h.trades, t)
    BY <1>2 DEF Matched
  <2>3. old \o recent \in Seq(Trade)
    BY <1>5, ConcatTrades
  <2>4. Append(all, t) = (old \o recent) \o Append(h.trades, t)
    <3> DEFINE before == old \o recent
               pending == h.trades
    <3> HIDE DEF before, pending
    <3>1. before \in Seq(Trade) /\ pending \in Seq(Trade) /\ all = before \o pending
      BY <2>1, <2>2, <2>3 DEF before, pending
    <3>2. before \o Append(pending, t) = Append(before \o pending, t)
      BY <2>2, <3>1, AppendOfConcat
    <3> QED
      BY <3>1, <3>2 DEF before, pending
  <2> QED
    BY <2>1, <2>2, <2>4 DEF Newest
<1> QED
  BY <1>1, <1>3, <1>6, <1>7, <1>8, <1>9 DEF FiguresInv, c, k, n, all

LEMMA NextFigures == FiguresInv /\ [Next]_engineVars => FiguresInv'
<1> SUFFICES ASSUME FiguresInv, [Next]_engineVars PROVE FiguresInv'
  OBVIOUS
<1>1. ASSUME NEW inst \in Instruments, NEW side \in Sides, NEW q \in Quantities, NEW p \in Prices,
             Submit(inst, "limit", side, p, q)
      PROVE  FiguresInv'
  <2>1. "limit" \in Types
    BY DEF Types
  <2> QED
    BY <1>1, <2>1, SubmitFigures
<1>2. ASSUME NEW inst \in Instruments, NEW side \in Sides, NEW q \in Quantities,
             Submit(inst, "market", side, NoPrice, q)
      PROVE  FiguresInv'
  <2>1. "market" \in Types /\ "market" # "limit"
    BY DEF Types
  <2> QED
    BY <1>2, <2>1, SubmitFigures
<1>3. CASE Match
  BY <1>3, MatchFigures
<1>4. CASE Finish
  BY <1>4, FinishFigures
<1>5. ASSUME NEW inst \in Instruments, NEW id \in OrderIds, Cancel(inst, id) PROVE FiguresInv'
  BY <1>5, CancelFigures
<1>6. CASE UNCHANGED engineVars
  <2>1. MatchInv'
    BY <1>6, NextKeepsInv DEF FiguresInv
  <2> QED
    BY <1>6, <2>1 DEF FiguresInv, engineVars
<1> QED
  BY <1>1, <1>2, <1>3, <1>4, <1>5, <1>6 DEF Next

LEMMA SpecFigures == Spec => []FiguresInv
  BY InitFigures, NextFigures, PTL DEF Spec

\* What clients are told follows from the invariant.
LEMMA FiguresShown == FiguresInv => FiguresTrue
<1> SUFFICES ASSUME FiguresInv PROVE FiguresTrue
  OBVIOUS
<1>1. /\ MatchInv /\ TotalsOf(books, submitting)
      /\ FillsOf(books, nextOrder, submitting, trades, replies)
      /\ Newest(recent, submitting.trades, trades)
  BY DEF FiguresInv
<1>2. NoOverfill
  BY <1>1 DEF NoOverfill, Executed, FillsOf, Accounted, Part
<1>3. RecentTradesTrue
  <2> SUFFICES ASSUME LockFree, NEW i \in Instruments, NEW limit \in 1..(Capacity + 1)
               PROVE  LET shown == GetRecentTrades(i, limit)
                          all == Reverse(Among(trades, TradesIn(i)))
                      IN /\ IsPrefix(shown, all)
                         /\ Len(trades) <= Capacity => Len(shown) = Min({limit, Len(all)})
    BY Zenon DEF RecentTradesTrue
  <2>1. /\ recent \in Seq(Trade) /\ trades \in Seq(Trade) /\ submitting.trades = << >>
    BY <1>1 DEF MatchInv, RecordsInv, LockFree, None
  <2>2. limit \in Nat
    BY EngineAssumption DEF EngineAssumption
  <2>3. Shows(First(Among(Reverse(recent), TradesIn(i)), limit), Reverse(Among(trades, TradesIn(i))),
              trades, limit)
    BY <1>1, <2>1, <2>2, NewestShown
  <2>4. Shows(GetRecentTrades(i, limit), Reverse(Among(trades, TradesIn(i))), trades, limit)
    BY <2>3 DEF GetRecentTrades, First
  <2> QED
    BY <2>4, Zenon DEF Shows
<1>4. SnapshotTrue
  BY <1>1, SnapshotsTrue
<1> QED
  BY <1>2, <1>3, <1>4 DEF FiguresTrue

\* The figures clients read are right in every reachable state: no order executes for more
\* than its quantity, snapshots are the sums of the live orders at each price, and the
\* recent trades shown are an instrument's newest, without a gap.
THEOREM FiguresHold == Spec => []FiguresTrue
  BY SpecFigures, FiguresShown, PTL

-----------------------------------------------------------------------------
(* Replies.                                                                *)

\* A reply with the trades and the status that are due.
Truthful(r, all, id) ==
  /\ r.trades = Among(all, TradesBy(id))
  /\ r.status = IF Filled(r.trades) = r.quantity THEN "filled"
                ELSE IF Filled(r.trades) > 0 THEN "partially_filled"
                ELSE IF r.type = "market" THEN "cancelled" ELSE "new"

\* Only the end of a submission adds a reply, to the order that was in hand.
LEMMA StepReplies ==
  ASSUME [Next]_engineVars, NEW id \in DOMAIN replies' \ DOMAIN replies
  PROVE  Finish /\ id = submitting.id
<1>1. replies' # replies
  OBVIOUS
<1>2. Finish
  <2>1. ASSUME NEW inst, NEW type, NEW side, NEW price, NEW q, Submit(inst, type, side, price, q)
        PROVE  replies' = replies
    BY <2>1 DEF Submit
  <2>2. Match => replies' = replies
    BY DEF Match
  <2>3. ASSUME NEW inst, NEW x, Cancel(inst, x) PROVE replies' = replies
    BY <2>3 DEF Cancel
  <2>4. UNCHANGED engineVars => replies' = replies
    BY DEF engineVars
  <2> QED
    BY <1>1, <2>1, <2>2, <2>3, <2>4 DEF Next
<1>3. DOMAIN replies' = DOMAIN replies \union {submitting.id}
  BY <1>2, PutDomain DEF Finish
<1> QED
  BY <1>2, <1>3

LEMMA FinishReply ==
  ASSUME FiguresInv, Finish, NEW id, id = submitting.id
  PROVE  Truthful(replies'[id], trades', id)
<1> DEFINE h == submitting
           book == books[h.inst]
           o == book.orders[id]
           filled == Filled(h.trades)
           r == [status |-> FinalStatus(book, id, h.trades # << >>), type |-> o.type,
                 quantity |-> o.quantity, trades |-> h.trades]
<1>1. /\ h.inst \in DOMAIN books /\ book \in Book /\ id \in DOMAIN book.orders /\ o \in Order
      /\ h # None
  BY ActiveFacts DEF FiguresInv, Finish, LockFree
<1>2. replies' = Put(replies, id, r) /\ trades' = trades
  BY DEF Finish
<1>3. replies'[id] = r
  BY <1>2, PutNew
<1>4. h.trades = Part(trades, id) /\ (h.trades = << >> <=> o.remaining = o.quantity)
  BY <1>1 DEF FiguresInv, HandOf
<1>5. o.remaining <= o.quantity /\ o.quantity - o.remaining = filled
  BY <1>1, <1>4 DEF FiguresInv, FillsOf, Accounted
<1>6. o.remaining \in Nat /\ o.quantity \in Nat
  BY <1>1, BookAssumption DEF Order, BookAssumption
<1>7. r.status = IF o.remaining = 0 THEN "filled"
                 ELSE IF h.trades # << >> THEN "partially_filled"
                 ELSE IF o.type = "market" THEN "cancelled" ELSE "new"
  BY DEF FinalStatus
<1>8. r.type = o.type /\ r.quantity = o.quantity /\ r.trades = h.trades
  OBVIOUS
<1> HIDE DEF r, o, filled
<1>9. (o.remaining = 0 <=> filled = o.quantity) /\ (o.remaining # o.quantity <=> filled > 0)
  BY <1>5, <1>6
<1>10. r.status = IF filled = o.quantity THEN "filled"
                  ELSE IF filled > 0 THEN "partially_filled"
                  ELSE IF o.type = "market" THEN "cancelled" ELSE "new"
  BY <1>4, <1>7, <1>9
<1>11. Truthful(r, trades, id)
  BY <1>4, <1>8, <1>10 DEF Truthful, Part, filled
<1> QED
  BY <1>2, <1>3, <1>11

\* The status a client reads is what its trades amount to, and its trades are all
\* the trades of the order so far.
THEOREM RepliesHold == Spec => ReplyTruthful
<1>1. FiguresInv /\ [Next]_engineVars =>
        [\A id \in DOMAIN replies' \ DOMAIN replies :
           LET r == replies'[id]
               filled == Filled(r.trades)
           IN /\ r.trades = Among(trades', TradesBy(id))
              /\ r.status = IF filled = r.quantity THEN "filled"
                            ELSE IF filled > 0 THEN "partially_filled"
                            ELSE IF r.type = "market" THEN "cancelled" ELSE "new"]_engineVars
  <2> SUFFICES ASSUME FiguresInv, [Next]_engineVars, NEW id \in DOMAIN replies' \ DOMAIN replies
               PROVE  Truthful(replies'[id], trades', id)
    BY Zenon DEF Truthful
  <2> QED
    BY StepReplies, FinishReply
<1> QED
  BY SpecFigures, <1>1, PTL DEF ReplyTruthful, Spec
=============================================================================
