---------------------------- MODULE ServiceProofs ----------------------------
(***************************************************************************)
(* The invariants of the smaller systems, proved for every value of their  *)
(* constants: one part per module, each with the inductive invariant that  *)
(* the stated one needs, one lemma per part of it that a step disturbs,    *)
(* and the theorem last.                                                   *)
(***************************************************************************)
EXTENDS Loyalty, Community, WalletPipeline, WalletAlerts, Reports, RateLimits, SumProofs

(***************************************************************************)
(* Loyalty (projects/04): purchases, referral bonuses and settlements      *)
(***************************************************************************)

Confirmed(p) == p \in DOMAIN sales /\ sales[p].status = "confirmed"

ConfirmedNext(p) == p \in DOMAIN sales' /\ sales'[p].status = "confirmed"

\* Members are registered one by one, each after its referrer; the rows of a chain lead to
\* earlier members, and who has a row has the one of its own referrer.
ChainsInv ==
    /\ DOMAIN referredBy \subseteq Members
    /\ DOMAIN referredBy = 1 .. Cardinality(DOMAIN referredBy) /\ Cardinality(DOMAIN referredBy) \in Nat
    /\ \A m \in DOMAIN referredBy : referredBy[m] \in 0 .. m - 1
    /\ unchained \subseteq DOMAIN referredBy /\ \A m \in unchained : referredBy[m] # 0
    /\ chains \subseteq Members \X Members \X (1 .. 3)
    /\ \A c \in chains : /\ c[1] \in DOMAIN referredBy /\ c[2] < c[1]
                         /\ <<c[1], referredBy[c[1]], 1>> \in chains

Messages == {"created", "request", "confirmed"}

\* What is in the topic is about purchases there are; what was settled was confirmed.
SalesInv ==
    /\ sales \in [DOMAIN sales -> [buyer : DOMAIN referredBy, status : {"pending", "confirmed"}]]
    /\ DOMAIN sales \subseteq Sales
    /\ settlements \in [DOMAIN settlements -> {"created", "settled"}]
    /\ \A p \in DOMAIN settlements : Confirmed(p)
    /\ purchaseTopic \in Seq(Messages \X DOMAIN sales)
    /\ \A i \in DOMAIN purchaseTopic : purchaseTopic[i][1] = "confirmed" => Confirmed(purchaseTopic[i][2])
    /\ position \in [Consumers -> Nat \ {0}]
    /\ \A c \in Consumers : position[c] <= Len(purchaseTopic) + 1
    /\ loyaltyFaults \in Nat

Settled == {p \in DOMAIN settlements : settlements[p] = "settled"}

BooksInv ==
    /\ bankOwes \in Nat /\ bankOwes = Commissions(OpenSettlements)
    /\ reconciled \in Nat /\ reconciled = Commissions(Settled)

\* Bonuses, and the nodes of the tree at hand, are for ancestors of a buyer who bought.
BonusInv ==
    /\ IsFiniteSet(bonuses) /\ bonuses \subseteq Sales \X Members \X (1 .. 3)
    /\ \A b \in bonuses : Confirmed(b[1]) /\ b[2] < sales[b[1]].buyer
    /\ crediting = [sale |-> crediting.sale, nodes |-> crediting.nodes]
    /\ crediting # Nothing =>
         /\ Confirmed(crediting.sale) /\ position["referral"] <= Len(purchaseTopic)
         /\ crediting.nodes # {} /\ crediting.nodes \subseteq Members \X (1 .. 3)
         /\ \A n \in crediting.nodes : n[1] < sales[crediting.sale].buyer

\* Tree, of the rows cs.
TreeIn(cs, m) ==
    LET Closed(S) == \A c \in cs : c[1] = m \/ (c[1] \in S /\ c[3] < 3) => c[2] \in S
        reached == {r \in Members : \A S \in SUBSET Members : Closed(S) => r \in S}
        rows == {c \in cs : c[1] = m \/ (c[1] \in reached /\ c[3] < 3)}
        Levels(r) == {c[3] : c \in {c \in rows : c[2] = r}}
    IN  {<<r, Min(Levels(r))>> : r \in {c[2] : c \in rows}}

\* While no chain is late, the bonuses of a purchase are nodes of one tree.
TreesInv ==
    ~lateChain => /\ \A b \in bonuses : <<b[2], b[3]>> \in TreeIn(chains, sales[b[1]].buyer)
                  /\ \A n \in crediting.nodes : n \in TreeIn(chains, sales[crediting.sale].buyer)

Firsts(m) == {b \in bonuses : b[2] = m /\ b[3] = 1}

BoardInv ==
    /\ board \in [Members -> Nat]
    /\ \A m \in Members : board[m] <= Cardinality(Firsts(m)) /\ (loyaltyFaults = 0 => board[m] = Cardinality(Firsts(m)))

\* Without a fault, a tree that is begun is gone through, the buyer's own referrer included.
FirstsInv ==
    loyaltyFaults = 0 =>
      /\ \A b \in bonuses : crediting.sale # b[1] => <<b[1], referredBy[sales[b[1]].buyer], 1>> \in bonuses
      /\ crediting # Nothing =>
           \/ <<referredBy[sales[crediting.sale].buyer], 1>> \in crediting.nodes
           \/ <<crediting.sale, referredBy[sales[crediting.sale].buyer], 1>> \in bonuses

LoyaltyInv == ChainsInv /\ SalesInv /\ BooksInv /\ BonusInv /\ TreesInv /\ BoardInv /\ FirstsInv

-----------------------------------------------------------------------------
\* The commissions of purchases are a finite sum of whole numbers.
LEMMA CommissionsOn ==
    ASSUME NEW ps \in SUBSET Sales
    PROVE  IsFiniteSet(ps) /\ Commissions(ps) = SumFunctionOnSet([p \in Sales |-> p], ps) /\ Commissions(ps) \in Int
<1> DEFINE f == [p \in ps |-> p]
           g == [p \in Sales |-> p]
<1>1. IsFiniteSet(ps)
  BY LoyaltyAssumption, FS_Subset
<1>2. Commissions(ps) = SumFunctionOnSet(f, ps)
  BY DEF Commissions, SumFunction
<1>3. \A x \in ps : f[x] = g[x] /\ g[x] \in Int
  BY LoyaltyAssumption
<1> HIDE DEF f, g
<1>4. SumFunctionOnSet(f, ps) = SumFunctionOnSet(g, ps)
  BY <1>1, <1>3, SumOnEqual
<1>5. SumFunctionOnSet(g, ps) \in Int
  BY <1>1, <1>3, SumOnType
<1> QED
  BY <1>1, <1>2, <1>4, <1>5 DEF g

\* One more purchase adds its commission.
LEMMA CommissionsMore ==
    ASSUME NEW ps \in SUBSET Sales, NEW p \in Sales, p \notin ps
    PROVE  Commissions(ps \union {p}) = p + Commissions(ps)
<1> DEFINE g == [q \in Sales |-> q]
           more == ps \union {p}
<1>1. more \in SUBSET Sales /\ more \ {p} = ps /\ p \in more /\ g[p] = p /\ \A x \in more : g[x] \in Int
  BY LoyaltyAssumption
<1>2. IsFiniteSet(more) /\ Commissions(more) = SumFunctionOnSet(g, more) /\ Commissions(ps) = SumFunctionOnSet(g, ps)
  BY <1>1, CommissionsOn
<1> HIDE DEF g, more
<1>3. SumFunctionOnSet(g, more) = g[p] + SumFunctionOnSet(g, more \ {p})
  BY <1>1, <1>2, SumOnTake
<1> QED
  BY <1>1, <1>2, <1>3 DEF more

LEMMA CommissionsNone == Commissions({}) = 0
BY SumEmpty DEF Commissions, SumFunction

\* Two sets of purchases that share none: their commissions add up.
LEMMA CommissionsJoin ==
    ASSUME NEW ps \in SUBSET Sales, NEW qs \in SUBSET Sales, ps \intersect qs = {}
    PROVE  Commissions(ps \union qs) = Commissions(ps) + Commissions(qs)
<1> DEFINE G == {T \in SUBSET qs : Commissions(ps \union T) = Commissions(ps) + Commissions(T)}
<1>1. IsFiniteSet(qs)
  BY CommissionsOn
<1>2. ASSUME NEW T \in SUBSET qs, \A U \in SUBSET T : U # T => U \in G PROVE T \in G
  <2>1. CASE T = {}
    <3>1. ps \union T = ps /\ Commissions(T) = 0 /\ Commissions(ps) \in Int
      BY <2>1, CommissionsNone, CommissionsOn
    <3> QED
      BY <3>1
  <2>2. CASE T # {}
    <3>1. PICK x \in T : TRUE
      BY <2>2
    <3> DEFINE U == T \ {x}
    <3>2. /\ U \in SUBSET T /\ U # T /\ U \in SUBSET Sales /\ x \notin U /\ x \in Sales /\ T = U \union {x}
          /\ ps \union U \in SUBSET Sales /\ x \notin ps \union U /\ ps \union T = (ps \union U) \union {x}
      OBVIOUS
    <3>3. Commissions(ps \union U) = Commissions(ps) + Commissions(U)
      BY <1>2, <3>2
    <3> HIDE DEF U
    <3>4. Commissions(ps \union T) = x + Commissions(ps \union U) /\ Commissions(T) = x + Commissions(U)
      BY <3>2, CommissionsMore
    <3>5. Commissions(ps) \in Int /\ Commissions(U) \in Int /\ x \in Int
      <4>1. Commissions(ps) \in Int /\ Commissions(U) \in Int
        BY <3>2, CommissionsOn
      <4> QED
        BY <3>2, <4>1, LoyaltyAssumption
    <3> QED
      BY <3>3, <3>4, <3>5
  <2> QED
    BY <2>1, <2>2
<1> HIDE DEF G
<1>3. \A T \in SUBSET qs : T \in G
  BY <1>1, <1>2, SubsetInduction
<1> QED
  BY <1>3 DEF G

-----------------------------------------------------------------------------
\* Members are numbered from one on.
LEMMA MembersAre ==
    Cardinality(Members) \in Nat /\ Members = 1 .. Cardinality(Members) /\ Members \subseteq Nat \ {0}
<1>1. Cardinality(Members) \in Nat /\ Members = 1 .. Cardinality(Members)
  BY LoyaltyAssumption, FS_CardinalityType
<1> QED
  BY <1>1

\* A member that a tree reaches at several levels has a first one.
LEMMA MinOfLevels ==
    ASSUME NEW S \in SUBSET (1 .. 3), S # {}
    PROVE  Min(S) \in S /\ \A x \in S : Min(S) <= x
<1>1. \E x \in S : \A y \in S : x <= y
  <2>1. CASE 1 \in S
    BY <2>1
  <2>2. CASE 1 \notin S /\ 2 \in S
    BY <2>2
  <2>3. CASE 1 \notin S /\ 2 \notin S
    <3>1. \A x \in S : x = 3
      BY <2>3
    <3>2. PICK x \in S : TRUE
      OBVIOUS
    <3>3. \A y \in S : x <= y
      BY <3>1
    <3> QED
      BY <3>3
  <2> QED
    BY <2>1, <2>2, <2>3
<1> QED
  BY <1>1 DEF Min

\* The tree of a member: earlier members, each at one level, its own referrer first.
LEMMA TreeIs ==
    ASSUME ChainsInv, NEW m \in DOMAIN referredBy
    PROVE  /\ Tree(m) \subseteq Members \X (1 .. 3)
           /\ \A n \in Tree(m) : n[1] < m
           /\ \A n, o \in Tree(m) : n[1] = o[1] => n = o
           /\ Tree(m) # {} => <<referredBy[m], 1>> \in Tree(m)
<1> DEFINE rows == {c \in chains : c[1] = m \/ (c[1] \in Reached(m) /\ c[3] < 3)}
           Levels(r) == {c[3] : c \in {c \in rows : c[2] = r}}
           Closed(S) == \A c \in chains : c[1] = m \/ (c[1] \in S /\ c[3] < 3) => c[2] \in S
<1>0. \A c \in chains : c[1] \in Members /\ c[2] \in Members /\ c[3] \in 1 .. 3 /\ c[2] < c[1]
  BY DEF ChainsInv
<1>m. m \in Nat /\ \A x \in Members : x \in Nat
  BY MembersAre DEF ChainsInv
<1>1. Tree(m) = {<<r, Min(Levels(r))>> : r \in {c[2] : c \in rows}}
  BY DEF Tree
<1>2. Reached(m) = {r \in Members : \A S \in SUBSET Members : Closed(S) => r \in S}
  BY DEF Reached
<1>3. \A r \in Reached(m) : r \in Nat /\ r < m
  <2> DEFINE S == {x \in Members : x < m}
  <2>1. Closed(S)
    BY <1>0, <1>m
  <2> QED
    BY <1>2, <1>m, <2>1
<1>4. \A c \in rows : c \in chains /\ c[2] \in Members /\ c[2] < m
  BY <1>0, <1>3, <1>m
<1> HIDE DEF Closed
<1>5. \A r : (\E c \in rows : c[2] = r) => Min(Levels(r)) \in Levels(r) /\ \A x \in Levels(r) : Min(Levels(r)) <= x
  <2> SUFFICES ASSUME NEW r, NEW c \in rows, c[2] = r
               PROVE  Min(Levels(r)) \in Levels(r) /\ \A x \in Levels(r) : Min(Levels(r)) <= x
    OBVIOUS
  <2>1. Levels(r) \in SUBSET (1 .. 3) /\ Levels(r) # {}
    BY <1>0, <1>4
  <2> HIDE DEF Levels
  <2> QED
    BY <2>1, MinOfLevels
<1>6. \A r : Levels(r) \subseteq 1 .. 3
  BY <1>0
<1>7. ASSUME NEW n \in Tree(m)
      PROVE  n \in Members \X (1 .. 3) /\ n[1] < m /\ n = <<n[1], Min(Levels(n[1]))>>
  <2>1. PICK c \in rows : n = <<c[2], Min(Levels(c[2]))>>
    BY <1>1
  <2>2. Min(Levels(c[2])) \in 1 .. 3
    BY <1>5, <1>6
  <2> HIDE DEF Levels, rows
  <2> QED
    BY <1>4, <2>1, <2>2
<1>8. ASSUME Tree(m) # {} PROVE <<referredBy[m], 1>> \in Tree(m)
  <2>1. \E c \in rows : c[1] = m
    <3> SUFFICES ASSUME \A c \in rows : c[1] # m PROVE FALSE
      OBVIOUS
    <3>1. \A c \in chains : c[1] # m
      OBVIOUS
    <3>2. Reached(m) = {}
      <4>1. Closed({})
        BY <3>1 DEF Closed
      <4> QED
        BY <1>2, <4>1
    <3>3. rows = {}
      BY <3>1, <3>2
    <3> QED
      BY <1>1, <1>8, <3>3
  <2> DEFINE first == <<m, referredBy[m], 1>>
  <2>2. first \in rows /\ first[2] = referredBy[m] /\ first[3] = 1
    BY <2>1 DEF ChainsInv
  <2>3. 1 \in Levels(referredBy[m])
    BY <2>2
  <2>4. Min(Levels(referredBy[m])) = 1
    <3>1. Min(Levels(referredBy[m])) \in Levels(referredBy[m]) /\ Min(Levels(referredBy[m])) <= 1
      BY <1>5, <2>2, <2>3
    <3>2. Min(Levels(referredBy[m])) \in 1 .. 3
      BY <1>6, <3>1
    <3> HIDE DEF Levels
    <3> QED
      BY <3>1, <3>2
  <2> QED
    BY <1>1, <2>2, <2>4
<1> HIDE DEF Levels
<1> QED
  BY <1>7, <1>8

-----------------------------------------------------------------------------
\* Who is registered stays so, with the same referrer.
LEMMA PeopleGrow ==
    ASSUME ChainsInv, [LoyaltyNext]_loyaltyVars
    PROVE  /\ DOMAIN referredBy \subseteq DOMAIN referredBy'
           /\ \A m \in DOMAIN referredBy : referredBy'[m] = referredBy[m]
<1>1. ASSUME NEW r, RegisterMember(r)
      PROVE  DOMAIN referredBy \subseteq DOMAIN referredBy' /\ \A m \in DOMAIN referredBy : referredBy'[m] = referredBy[m]
  <2>1. PICK m : m = Cardinality(DOMAIN referredBy) + 1 /\ referredBy' = Put(referredBy, m, r)
    BY <1>1 DEF RegisterMember
  <2>2. m \notin DOMAIN referredBy
    BY <2>1 DEF ChainsInv
  <2> QED
    BY <2>1, <2>2 DEF Put
<1>2. CASE UNCHANGED referredBy
  BY <1>2
<1>3. [LoyaltyNext]_loyaltyVars => UNCHANGED referredBy \/ \E r \in DOMAIN referredBy \union {0} : RegisterMember(r)
  BY DEF LoyaltyNext, loyaltyVars, BuildChainFor, BuildChainFails, CreatePurchase, RequestConfirm, Reconcile, OnPurchase,
         Settle, ReadTree, CreditNode, RetryMessage, GiveUp, Redeliver, Fault, people
<1> QED
  BY <1>1, <1>2, <1>3

\* A purchase keeps its buyer, and stays confirmed.
LEMMA SalesGrow ==
    ASSUME SalesInv, [LoyaltyNext]_loyaltyVars
    PROVE  /\ DOMAIN sales \subseteq DOMAIN sales'
           /\ \A p \in DOMAIN sales : sales'[p].buyer = sales[p].buyer
           /\ \A p : Confirmed(p) => ConfirmedNext(p)
<1>0. sales \in [DOMAIN sales -> [buyer : DOMAIN referredBy, status : {"pending", "confirmed"}]]
  BY DEF SalesInv
<1>1. CASE UNCHANGED sales
  BY <1>1 DEF Confirmed, ConfirmedNext
<1>2. ASSUME NEW p, NEW m, CreatePurchase(p, m)
      PROVE  /\ DOMAIN sales \subseteq DOMAIN sales'
             /\ \A q \in DOMAIN sales : sales'[q].buyer = sales[q].buyer
             /\ \A q : Confirmed(q) => ConfirmedNext(q)
  BY <1>2 DEF CreatePurchase, Put, Confirmed, ConfirmedNext
<1>3. CASE OnPurchase
  <2>1. sales' = sales \/ sales' = [sales EXCEPT ![Message("promo")[2]].status = "confirmed"]
    BY <1>3 DEF OnPurchase
  <2> QED
    BY <1>0, <1>1, <2>1 DEF Confirmed, ConfirmedNext
<1>4. [LoyaltyNext]_loyaltyVars => UNCHANGED sales \/ OnPurchase \/ \E p \in Sales, m \in Buyers : CreatePurchase(p, m)
  BY DEF LoyaltyNext, loyaltyVars, RegisterMember, BuildChainFor, BuildChainFails, RequestConfirm, Reconcile,
         Settle, ReadTree, CreditNode, RetryMessage, GiveUp, Redeliver, Fault
<1> QED
  BY <1>1, <1>2, <1>3, <1>4

\* The steps one by one, for each part of the invariant.
LEMMA ChainsKept == ASSUME ChainsInv, [LoyaltyNext]_loyaltyVars PROVE ChainsInv'
<1>1. CASE UNCHANGED <<referredBy, unchained, chains>>
  BY <1>1 DEF ChainsInv
<1>2. ASSUME NEW r \in DOMAIN referredBy \union {0}, RegisterMember(r) PROVE ChainsInv'
  <2> DEFINE k == Cardinality(DOMAIN referredBy)
             m == k + 1
  <2>1. /\ m \in Members /\ referredBy' = Put(referredBy, m, r) /\ chains' = chains
        /\ unchained' = IF r = 0 THEN unchained ELSE unchained \union {m}
    <3>1. <<m, r>> \in Members \X (Members \union {0})
      BY <1>2, LoyaltyAssumption DEF RegisterMember
    <3> QED
      BY <1>2, <3>1 DEF RegisterMember
  <2>2. k \in Nat /\ DOMAIN referredBy = 1 .. k /\ m \notin 1 .. k /\ 1 .. k \union {m} = 1 .. m
    BY DEF ChainsInv
  <2> HIDE DEF k
  <2>3. /\ DOMAIN referredBy' = 1 .. m /\ referredBy'[m] = r
        /\ \A x \in 1 .. k : referredBy'[x] = referredBy[x]
    BY <2>1, <2>2 DEF Put
  <2>4. Cardinality(1 .. m) = m /\ m \in Nat
    BY <2>2, FS_Interval
  <2>5. r \in 0 .. m - 1
    BY <2>2
  <2>6. \A x \in 1 .. m : referredBy'[x] \in 0 .. x - 1
    <3>1. \A x \in 1 .. k : referredBy[x] \in 0 .. x - 1
      BY <2>2 DEF ChainsInv
    <3>2. \A x \in 1 .. m : x = m \/ x \in 1 .. k
      BY <2>2
    <3> QED
      BY <2>3, <2>5, <3>1, <3>2
  <2>7. unchained' \subseteq 1 .. m /\ \A x \in unchained' : referredBy'[x] # 0
    <3>1. unchained \subseteq 1 .. k /\ \A x \in unchained : referredBy[x] # 0
      BY <2>2 DEF ChainsInv
    <3>2. m \in 1 .. m /\ 1 .. k \subseteq 1 .. m
      BY <2>2
    <3> HIDE DEF m
    <3> QED
      BY <2>1, <2>3, <3>1, <3>2
  <2>8. \A c \in chains' : c[1] \in 1 .. m /\ c[2] < c[1] /\ <<c[1], referredBy'[c[1]], 1>> \in chains'
    <3>1. \A c \in chains : c[1] \in 1 .. k /\ c[2] < c[1] /\ <<c[1], referredBy[c[1]], 1>> \in chains
      BY <2>2 DEF ChainsInv
    <3>2. 1 .. k \subseteq 1 .. m
      BY <2>2
    <3> HIDE DEF m
    <3> QED
      BY <2>1, <2>3, <3>1, <3>2
  <2>9. chains' \subseteq Members \X Members \X (1 .. 3) /\ 1 .. m \subseteq Members
    <3>1. \A x \in 1 .. m : x \in Members
      BY <2>1, <2>2, MembersAre
    <3> QED
      BY <2>1, <3>1 DEF ChainsInv
  <2> HIDE DEF m
  <2> QED
    BY <2>3, <2>4, <2>6, <2>7, <2>8, <2>9 DEF ChainsInv
<1>3. ASSUME NEW m \in Members, BuildChainFor(m) PROVE ChainsInv'
  <2>1. /\ m \in unchained /\ chains' = chains \union {<<m, a[1], a[2]>> : a \in Ancestors(m)}
        /\ unchained' = unchained \ {m} /\ referredBy' = referredBy
    BY <1>3 DEF BuildChainFor
  <2>2. /\ m \in DOMAIN referredBy /\ referredBy[m] # 0 /\ DOMAIN referredBy \subseteq Members
        /\ \A x \in DOMAIN referredBy : x \in Nat /\ referredBy[x] \in 0 .. x - 1
        /\ DOMAIN referredBy = 1 .. Cardinality(DOMAIN referredBy) /\ Cardinality(DOMAIN referredBy) \in Nat
    BY <2>1 DEF ChainsInv
  <2>3. \A x \in DOMAIN referredBy \union {0} : Up(x) \in DOMAIN referredBy \union {0} /\ Up(x) \in Nat /\ (Up(x) < x \/ Up(x) = 0)
    BY <2>2 DEF Up
  <2>4. \A a \in Ancestors(m) : a = <<a[1], a[2]>> /\ a[1] \in DOMAIN referredBy /\ a[1] < m /\ a[2] \in 1 .. 3
    <3> DEFINE u == Up(m)
               v == Up(u)
               w == Up(v)
    <3>1. u \in DOMAIN referredBy \union {0} /\ u \in Nat /\ (u < m \/ u = 0)
      BY <2>2, <2>3
    <3>2. v \in DOMAIN referredBy \union {0} /\ v \in Nat /\ (v < u \/ v = 0)
      BY <2>3, <3>1
    <3>3. w \in DOMAIN referredBy \union {0} /\ w \in Nat /\ (w < v \/ w = 0)
      BY <2>3, <3>2
    <3>4. Ancestors(m) = {a \in {<<u, 1>>, <<v, 2>>, <<w, 3>>} : a[1] # 0}
      BY DEF Ancestors
    <3> HIDE DEF u, v, w
    <3>5. \A x \in {u, v, w} : x # 0 => x \in DOMAIN referredBy /\ x < m
      <4>1. m \in Nat
        BY <2>2
      <4>2. u # 0 => u < m
        BY <3>1
      <4>3. v # 0 => v < m
        BY <3>1, <3>2, <4>1, <4>2
      <4>4. w # 0 => w < m
        BY <3>2, <3>3, <4>1, <4>3
      <4> QED
        BY <3>1, <3>2, <3>3, <4>2, <4>3, <4>4
    <3>6. \A a \in Ancestors(m) : \E x \in {u, v, w}, l \in 1 .. 3 : a = <<x, l>> /\ x # 0
      BY <3>4
    <3> QED
      BY <3>5, <3>6
  <2>5. <<m, referredBy[m], 1>> \in chains'
    <3>1. <<referredBy[m], 1>> \in Ancestors(m)
      BY <2>2 DEF Ancestors, Up
    <3> QED
      BY <2>1, <3>1
  <2>6. \A c \in chains' : c \in chains \/ \E a \in Ancestors(m) : c = <<m, a[1], a[2]>>
    BY <2>1
  <2>7. chains' \subseteq Members \X Members \X (1 .. 3)
    <3>1. \A a \in Ancestors(m) : <<m, a[1], a[2]>> \in Members \X Members \X (1 .. 3)
      BY <2>2, <2>4
    <3> QED
      BY <2>6, <3>1 DEF ChainsInv
  <2>8. \A c \in chains' : c[1] \in DOMAIN referredBy /\ c[2] < c[1] /\ <<c[1], referredBy[c[1]], 1>> \in chains'
    <3> SUFFICES ASSUME NEW c \in chains' PROVE c[1] \in DOMAIN referredBy /\ c[2] < c[1] /\ <<c[1], referredBy[c[1]], 1>> \in chains'
      OBVIOUS
    <3>1. CASE c \in chains
      BY <2>1, <3>1 DEF ChainsInv
    <3>2. ASSUME NEW a \in Ancestors(m), c = <<m, a[1], a[2]>> PROVE c[1] = m /\ c[2] < m
      BY <2>4, <3>2
    <3> QED
      BY <2>2, <2>5, <2>6, <3>1, <3>2
  <2> QED
    BY <2>1, <2>2, <2>7, <2>8 DEF ChainsInv
<1>4. ASSUME NEW m \in Members, BuildChainFails(m) PROVE ChainsInv'
  BY <1>4 DEF BuildChainFails, ChainsInv
<1>5. [LoyaltyNext]_loyaltyVars =>
        \/ UNCHANGED <<referredBy, unchained, chains>>
        \/ \E r \in DOMAIN referredBy \union {0} : RegisterMember(r)
        \/ \E m \in Members : BuildChainFor(m) \/ BuildChainFails(m)
  BY DEF LoyaltyNext, loyaltyVars, CreatePurchase, RequestConfirm, Reconcile, OnPurchase,
         Settle, ReadTree, CreditNode, RetryMessage, GiveUp, Redeliver, Fault, people
<1> QED
  BY <1>1, <1>2, <1>3, <1>4, <1>5

\* A message is queued, or its loss is a fault.
LEMMA PublishDoes ==
    ASSUME NEW type, NEW p, Publish(type, p)
    PROVE  \/ purchaseTopic' = Append(purchaseTopic, <<type, p>>) /\ loyaltyFaults' = loyaltyFaults
           \/ purchaseTopic' = purchaseTopic /\ loyaltyFaults' = loyaltyFaults + 1
BY DEF Publish

\* The topic and the consumers' places in it, when a message may have been added.
LEMMA TopicKept ==
    ASSUME SalesInv, DOMAIN sales \subseteq DOMAIN sales', \A p : Confirmed(p) => ConfirmedNext(p),
           NEW type \in Messages, NEW p \in DOMAIN sales', type = "confirmed" => ConfirmedNext(p),
           \/ purchaseTopic' = Append(purchaseTopic, <<type, p>>)
           \/ purchaseTopic' = purchaseTopic
    PROVE  /\ purchaseTopic' \in Seq(Messages \X DOMAIN sales')
           /\ \A i \in DOMAIN purchaseTopic' : purchaseTopic'[i][1] = "confirmed" => ConfirmedNext(purchaseTopic'[i][2])
           /\ Len(purchaseTopic') \in Nat /\ Len(purchaseTopic) \in Nat /\ Len(purchaseTopic') >= Len(purchaseTopic)
           /\ DOMAIN purchaseTopic \subseteq DOMAIN purchaseTopic'
           /\ \A i \in DOMAIN purchaseTopic : purchaseTopic'[i] = purchaseTopic[i]
<1> DEFINE t == purchaseTopic
           u == purchaseTopic'
           S == Messages \X DOMAIN sales'
<1>1. t \in Seq(S) /\ \A i \in DOMAIN t : t[i][1] = "confirmed" => Confirmed(t[i][2])
  <2>1. t \in Seq(Messages \X DOMAIN sales) /\ \A i \in DOMAIN t : t[i][1] = "confirmed" => Confirmed(t[i][2])
    BY DEF SalesInv
  <2>2. Messages \X DOMAIN sales \subseteq S
    OBVIOUS
  <2> HIDE DEF S, t
  <2> QED
    BY <2>1, <2>2
<1>2. <<type, p>> \in S
  OBVIOUS
<1>3. <<type, p>>[1] = type /\ <<type, p>>[2] = p
  OBVIOUS
<1> HIDE DEF S
<1>4. CASE u = t
  <2> HIDE DEF t, u
  <2>1. Len(t) \in Nat
    BY <1>1
  <2> QED
    BY <1>1, <1>4, <2>1 DEF S, t, u
<1>5. CASE u = Append(t, <<type, p>>)
  <2> DEFINE x == <<type, p>>
             L == Len(t)
  <2> HIDE DEF x
  <2>1. /\ u \in Seq(S) /\ L \in Nat /\ Len(u) = L + 1 /\ DOMAIN t = 1 .. L /\ DOMAIN u = 1 .. L + 1
        /\ u[L + 1] = x /\ \A i \in 1 .. L : u[i] = t[i]
    BY <1>1, <1>2, <1>5 DEF x
  <2> HIDE DEF t, u, L
  <2>2. DOMAIN t \subseteq DOMAIN u /\ Len(u) >= L
    BY <2>1
  <2>3. \A i \in DOMAIN u : u[i][1] = "confirmed" => ConfirmedNext(u[i][2])
    <3> SUFFICES ASSUME NEW i \in DOMAIN u, u[i][1] = "confirmed" PROVE ConfirmedNext(u[i][2])
      OBVIOUS
    <3>1. CASE i \in 1 .. L
      BY <1>1, <2>1, <3>1
    <3>2. CASE i = L + 1
      BY <1>3, <2>1, <3>2 DEF x
    <3> QED
      BY <2>1, <3>1, <3>2
  <2> QED
    BY <2>1, <2>2, <2>3 DEF t, u, L, S
<1> QED
  BY <1>4, <1>5

\* A consumer's place: kept, one further when there is a message, or back.
Moved(c) ==
    \/ position' = position
    \/ position[c] <= Len(purchaseTopic) /\ position' = [position EXCEPT ![c] = @ + 1]
    \/ \E back \in 1 .. position[c] : position' = [position EXCEPT ![c] = back]

\* A consumer that moves on, or back, stays at most one beyond the end of the topic.
LEMMA PositionKept ==
    ASSUME SalesInv, NEW c \in Consumers, Moved(c), Len(purchaseTopic) \in Nat,
           NEW l \in Nat, l >= Len(purchaseTopic)
    PROVE  position' \in [Consumers -> Nat \ {0}] /\ \A d \in Consumers : position'[d] <= l + 1
<1> DEFINE k == Len(purchaseTopic)
<1>1. position \in [Consumers -> Nat \ {0}] /\ \A d \in Consumers : position[d] <= k + 1 /\ position[d] \in Nat
  BY DEF SalesInv
<1> HIDE DEF k
<1>2. k \in Nat /\ l >= k
  BY DEF k
<1>3. CASE position' = position
  BY <1>1, <1>2, <1>3
<1>4. CASE position[c] <= k /\ position' = [position EXCEPT ![c] = @ + 1]
  BY <1>1, <1>2, <1>4
<1>5. ASSUME NEW back \in 1 .. position[c], position' = [position EXCEPT ![c] = back]
      PROVE  position' \in [Consumers -> Nat \ {0}] /\ \A d \in Consumers : position'[d] <= l + 1
  <2>1. back \in Nat \ {0} /\ back <= l + 1
    BY <1>1, <1>2
  <2>2. \A d \in Consumers : position[d] <= l + 1
    BY <1>1, <1>2
  <2> QED
    BY <1>1, <1>5, <2>1, <2>2
<1> QED
  BY <1>3, <1>4, <1>5 DEF Moved, k

\* Every step moves at most one consumer's place.
LEMMA StepMoves == ASSUME LoyaltyInv, [LoyaltyNext]_loyaltyVars PROVE \E c \in Consumers : Moved(c)
<1> USE DEF Consumers
<1>1. CASE UNCHANGED position
  BY <1>1 DEF Moved
<1>2. ASSUME NEW c \in Consumers, HasMessage(c), Marked(c) PROVE Moved(c)
  BY <1>2 DEF HasMessage, Marked, Moved
<1>3. ASSUME NEW c \in Consumers, Redeliver(c) PROVE Moved(c)
  BY <1>3 DEF Redeliver, Moved
<1>4. ASSUME NEW n \in crediting.nodes, CreditNode(n) PROVE UNCHANGED position \/ (HasMessage("referral") /\ Marked("referral"))
  <2>1. crediting # Nothing
    BY DEF Nothing
  <2>2. HasMessage("referral")
    BY <2>1 DEF LoyaltyInv, BonusInv, HasMessage
  <2> QED
    BY <1>4, <2>2 DEF CreditNode
<1>5. CASE ReadTree
  BY <1>1, <1>2, <1>5 DEF ReadTree
<1>6. CASE OnPurchase \/ Settle \/ \E c \in Consumers : GiveUp(c)
  BY <1>2, <1>6 DEF OnPurchase, Settle, GiveUp
<1>7. [LoyaltyNext]_loyaltyVars =>
        \/ UNCHANGED position \/ ReadTree \/ OnPurchase \/ Settle
        \/ (\E c \in Consumers : GiveUp(c) \/ Redeliver(c))
        \/ \E n \in crediting.nodes : CreditNode(n)
  BY DEF LoyaltyNext, loyaltyVars, RegisterMember, BuildChainFor, BuildChainFails, CreatePurchase, RequestConfirm, Reconcile, RetryMessage
<1> QED
  BY <1>1, <1>2, <1>3, <1>4, <1>5, <1>6, <1>7

\* Every step adds at most one message, and then without a fault.
LEMMA StepPublishes ==
    ASSUME LoyaltyInv, [LoyaltyNext]_loyaltyVars
    PROVE  /\ \/ purchaseTopic' = purchaseTopic /\ loyaltyFaults' \in {loyaltyFaults, loyaltyFaults + 1}
              \/ \E type \in Messages, p \in DOMAIN sales' :
                    /\ purchaseTopic' = Append(purchaseTopic, <<type, p>>) /\ loyaltyFaults' = loyaltyFaults
                    /\ type = "confirmed" => ConfirmedNext(p)
<1> DEFINE Goal == \/ purchaseTopic' = purchaseTopic /\ loyaltyFaults' \in {loyaltyFaults, loyaltyFaults + 1}
                   \/ \E type \in Messages, p \in DOMAIN sales' :
                         /\ purchaseTopic' = Append(purchaseTopic, <<type, p>>) /\ loyaltyFaults' = loyaltyFaults
                         /\ type = "confirmed" => ConfirmedNext(p)
<1>1. ASSUME NEW type \in Messages, NEW p \in DOMAIN sales', Publish(type, p), type = "confirmed" => ConfirmedNext(p) PROVE Goal
  <2>1. \/ purchaseTopic' = Append(purchaseTopic, <<type, p>>) /\ loyaltyFaults' = loyaltyFaults
        \/ purchaseTopic' = purchaseTopic /\ loyaltyFaults' = loyaltyFaults + 1
    BY <1>1, PublishDoes
  <2> QED
    BY <1>1, <2>1
<1>2. CASE purchaseTopic' = purchaseTopic /\ loyaltyFaults' \in {loyaltyFaults, loyaltyFaults + 1}
  BY <1>2
<1> HIDE DEF Goal
<1>3. ASSUME NEW p, NEW m, CreatePurchase(p, m) PROVE Goal
  <2>1. p \in DOMAIN sales' /\ "created" \in Messages /\ "created" # "confirmed" /\ Publish("created", p)
    BY <1>3 DEF CreatePurchase, Put, Messages
  <2> QED
    BY <1>1, <2>1
<1>4. ASSUME NEW p, RequestConfirm(p) PROVE Goal
  <2>1. p \in DOMAIN sales' /\ "request" \in Messages /\ "request" # "confirmed" /\ Publish("request", p)
    BY <1>4 DEF RequestConfirm, Messages
  <2> QED
    BY <1>1, <2>1
<1>5. CASE OnPurchase
  <2> DEFINE p == Message("promo")[2]
  <2>1. CASE UNCHANGED <<sales, purchaseTopic, loyaltyFaults>>
    BY <1>2, <2>1
  <2>2. CASE sales[p].status = "pending" /\ sales' = [sales EXCEPT ![p].status = "confirmed"] /\ Publish("confirmed", p)
    <3>1. sales \in [DOMAIN sales -> [buyer : DOMAIN referredBy, status : {"pending", "confirmed"}]]
      BY DEF LoyaltyInv, SalesInv
    <3>2. p \in DOMAIN sales
      <4>1. purchaseTopic \in Seq(Messages \X DOMAIN sales) /\ position["promo"] \in Nat \ {0}
        BY DEF LoyaltyInv, SalesInv, Consumers
      <4>2. position["promo"] \in 1 .. Len(purchaseTopic) /\ Len(purchaseTopic) \in Nat
        BY <1>5, <4>1 DEF OnPurchase, HasMessage
      <4>3. purchaseTopic[position["promo"]] \in Messages \X DOMAIN sales
        BY <4>1, <4>2
      <4> QED
        BY <4>3 DEF Message
    <3> HIDE DEF p
    <3>3. p \in DOMAIN sales' /\ ConfirmedNext(p) /\ "confirmed" \in Messages
      BY <2>2, <3>1, <3>2 DEF ConfirmedNext, Messages
    <3> QED
      BY <1>1, <2>2, <3>3 DEF Goal
  <2> QED
    BY <1>5, <2>1, <2>2 DEF OnPurchase
<1>6. [LoyaltyNext]_loyaltyVars =>
        \/ purchaseTopic' = purchaseTopic /\ loyaltyFaults' \in {loyaltyFaults, loyaltyFaults + 1}
        \/ OnPurchase \/ \E p \in Sales : RequestConfirm(p) \/ \E m \in Buyers : CreatePurchase(p, m)
  BY DEF LoyaltyNext, loyaltyVars, RegisterMember, BuildChainFor, BuildChainFails, Reconcile, Settle, ReadTree, CreditNode,
         RetryMessage, GiveUp, Redeliver, Fault
<1> QED
  BY <1>2, <1>3, <1>4, <1>5, <1>6 DEF Goal

\* The topic only grows, and what it says of confirmations stays true.
LEMMA TopicGrows ==
    ASSUME LoyaltyInv, [LoyaltyNext]_loyaltyVars
    PROVE  /\ purchaseTopic' \in Seq(Messages \X DOMAIN sales')
           /\ \A i \in DOMAIN purchaseTopic' : purchaseTopic'[i][1] = "confirmed" => ConfirmedNext(purchaseTopic'[i][2])
           /\ Len(purchaseTopic') \in Nat /\ Len(purchaseTopic) \in Nat /\ Len(purchaseTopic') >= Len(purchaseTopic)
           /\ DOMAIN purchaseTopic \subseteq DOMAIN purchaseTopic'
           /\ \A i \in DOMAIN purchaseTopic : purchaseTopic'[i] = purchaseTopic[i]
           /\ loyaltyFaults' \in {loyaltyFaults, loyaltyFaults + 1}
<1>1. SalesInv /\ DOMAIN sales \subseteq DOMAIN sales' /\ \A p : Confirmed(p) => ConfirmedNext(p)
  BY SalesGrow DEF LoyaltyInv
<1>2. CASE purchaseTopic' = purchaseTopic /\ loyaltyFaults' \in {loyaltyFaults, loyaltyFaults + 1}
  <2>1. purchaseTopic \in Seq(Messages \X DOMAIN sales) /\ Messages \X DOMAIN sales \subseteq Messages \X DOMAIN sales'
    BY <1>1 DEF SalesInv
  <2>2. purchaseTopic \in Seq(Messages \X DOMAIN sales') /\ Len(purchaseTopic) \in Nat
    BY <2>1
  <2>3. \A i \in DOMAIN purchaseTopic : purchaseTopic[i][1] = "confirmed" => ConfirmedNext(purchaseTopic[i][2])
    BY <1>1 DEF SalesInv
  <2> QED
    BY <1>2, <2>2, <2>3
<1>3. ASSUME NEW type \in Messages, NEW p \in DOMAIN sales', type = "confirmed" => ConfirmedNext(p),
             purchaseTopic' = Append(purchaseTopic, <<type, p>>), loyaltyFaults' = loyaltyFaults
      PROVE  /\ purchaseTopic' \in Seq(Messages \X DOMAIN sales')
             /\ \A i \in DOMAIN purchaseTopic' : purchaseTopic'[i][1] = "confirmed" => ConfirmedNext(purchaseTopic'[i][2])
             /\ Len(purchaseTopic') \in Nat /\ Len(purchaseTopic) \in Nat /\ Len(purchaseTopic') >= Len(purchaseTopic)
             /\ DOMAIN purchaseTopic \subseteq DOMAIN purchaseTopic'
             /\ \A i \in DOMAIN purchaseTopic : purchaseTopic'[i] = purchaseTopic[i]
             /\ loyaltyFaults' \in {loyaltyFaults, loyaltyFaults + 1}
  BY <1>1, <1>3, TopicKept
<1> QED
  BY <1>2, <1>3, StepPublishes

LEMMA SalesKept == ASSUME LoyaltyInv, [LoyaltyNext]_loyaltyVars PROVE SalesInv'
<1>0. ChainsInv /\ SalesInv /\ sales \in [DOMAIN sales -> [buyer : DOMAIN referredBy, status : {"pending", "confirmed"}]]
  BY DEF LoyaltyInv, SalesInv
<1>p. DOMAIN referredBy \subseteq DOMAIN referredBy'
  BY <1>0, PeopleGrow
<1>g. \A p : Confirmed(p) => ConfirmedNext(p)
  BY <1>0, SalesGrow
<1>1. sales' \in [DOMAIN sales' -> [buyer : DOMAIN referredBy', status : {"pending", "confirmed"}]] /\ DOMAIN sales' \subseteq Sales
  <2>0. sales \in [DOMAIN sales -> [buyer : DOMAIN referredBy', status : {"pending", "confirmed"}]] /\ DOMAIN sales \subseteq Sales
    <3>1. [buyer : DOMAIN referredBy, status : {"pending", "confirmed"}] \subseteq [buyer : DOMAIN referredBy', status : {"pending", "confirmed"}]
      BY <1>p
    <3> QED
      BY <1>0, <3>1 DEF SalesInv
  <2>1. CASE UNCHANGED sales
    BY <2>0, <2>1
  <2>2. ASSUME NEW p \in Sales, NEW m, CreatePurchase(p, m)
        PROVE  sales' \in [DOMAIN sales' -> [buyer : DOMAIN referredBy', status : {"pending", "confirmed"}]] /\ DOMAIN sales' \subseteq Sales
    <3>1. m \in DOMAIN referredBy' /\ sales' = Put(sales, p, [buyer |-> m, status |-> "pending"])
      BY <1>p, <2>2 DEF CreatePurchase
    <3> QED
      BY <2>0, <3>1 DEF Put
  <2>3. CASE OnPurchase
    <3>1. sales' = sales \/ sales' = [sales EXCEPT ![Message("promo")[2]].status = "confirmed"]
      BY <2>3 DEF OnPurchase
    <3> QED
      BY <2>0, <2>1, <3>1
  <2>4. [LoyaltyNext]_loyaltyVars => UNCHANGED sales \/ OnPurchase \/ \E p \in Sales, m \in Buyers : CreatePurchase(p, m)
    BY DEF LoyaltyNext, loyaltyVars, RegisterMember, BuildChainFor, BuildChainFails, RequestConfirm, Reconcile,
           Settle, ReadTree, CreditNode, RetryMessage, GiveUp, Redeliver, Fault
  <2> QED
    BY <2>1, <2>2, <2>3, <2>4
<1>2. settlements' \in [DOMAIN settlements' -> {"created", "settled"}] /\ \A p \in DOMAIN settlements' : ConfirmedNext(p)
  <2>0. settlements \in [DOMAIN settlements -> {"created", "settled"}] /\ \A p \in DOMAIN settlements : ConfirmedNext(p)
    BY <1>0, <1>g DEF SalesInv
  <2>1. CASE UNCHANGED settlements
    BY <2>0, <2>1
  <2>2. CASE Reconcile
    BY <2>0, <2>2 DEF Reconcile
  <2>3. CASE Settle
    <3> DEFINE p == Message("cfa")[2]
    <3>1. settlements' = settlements \/ (Message("cfa")[1] = "confirmed" /\ settlements' = Put(settlements, p, "created"))
      BY <2>3 DEF Settle
    <3>2. Message("cfa")[1] = "confirmed" => ConfirmedNext(p)
      <4>1. purchaseTopic \in Seq(Messages \X DOMAIN sales) /\ position["cfa"] \in Nat \ {0}
        BY <1>0 DEF SalesInv, Consumers
      <4>2. position["cfa"] \in DOMAIN purchaseTopic
        BY <2>3, <4>1 DEF Settle, HasMessage
      <4> QED
        BY <1>0, <1>g, <4>2 DEF SalesInv, Message
    <3> HIDE DEF p
    <3> QED
      BY <2>0, <3>1, <3>2 DEF Put
  <2>4. [LoyaltyNext]_loyaltyVars => UNCHANGED settlements \/ Settle \/ Reconcile
    BY DEF LoyaltyNext, loyaltyVars, RegisterMember, BuildChainFor, BuildChainFails, CreatePurchase, RequestConfirm, OnPurchase,
           ReadTree, CreditNode, RetryMessage, GiveUp, Redeliver, Fault, cfa
  <2> QED
    BY <2>1, <2>2, <2>3, <2>4
<1>3. /\ purchaseTopic' \in Seq(Messages \X DOMAIN sales')
      /\ \A i \in DOMAIN purchaseTopic' : purchaseTopic'[i][1] = "confirmed" => ConfirmedNext(purchaseTopic'[i][2])
  BY TopicGrows
<1>4. position' \in [Consumers -> Nat \ {0}] /\ \A d \in Consumers : position'[d] <= Len(purchaseTopic') + 1
  BY <1>0, TopicGrows, StepMoves, PositionKept
<1>5. loyaltyFaults' \in Nat
  <2>1. loyaltyFaults \in Nat
    BY <1>0 DEF SalesInv
  <2> QED
    BY <2>1, TopicGrows
<1> QED
  BY <1>1, <1>2, <1>3, <1>4, <1>5 DEF SalesInv, Confirmed, ConfirmedNext

LEMMA BooksKept == ASSUME LoyaltyInv, [LoyaltyNext]_loyaltyVars PROVE BooksInv'
<1>0. /\ BooksInv /\ settlements \in [DOMAIN settlements -> {"created", "settled"}] /\ DOMAIN settlements \subseteq Sales
      /\ Settled \in SUBSET Sales /\ OpenSettlements \in SUBSET Sales
  BY DEF LoyaltyInv, SalesInv, Confirmed, Settled, OpenSettlements
<1>1. CASE UNCHANGED cfa
  BY <1>0, <1>1 DEF cfa, BooksInv, OpenSettlements, Settled
<1>2. CASE Reconcile
  <2>1. settlements' = [p \in DOMAIN settlements |-> "settled"] /\ bankOwes' = 0 /\ reconciled' = reconciled + bankOwes
    BY <1>2 DEF Reconcile
  <2>2. OpenSettlements' = {} /\ Settled' = Settled \union OpenSettlements /\ Settled \intersect OpenSettlements = {}
    BY <1>0, <2>1 DEF OpenSettlements, Settled
  <2>3. Commissions(Settled \union OpenSettlements) = Commissions(Settled) + Commissions(OpenSettlements)
    BY <1>0, <2>2, CommissionsJoin
  <2>4. bankOwes' = Commissions(OpenSettlements')
    BY <2>1, <2>2, CommissionsNone
  <2>5. reconciled' = Commissions(Settled')
    BY <1>0, <2>1, <2>2, <2>3 DEF BooksInv
  <2>6. bankOwes' \in Nat /\ reconciled' \in Nat
    BY <1>0, <2>1 DEF BooksInv
  <2> QED
    BY <2>4, <2>5, <2>6 DEF BooksInv
<1>3. CASE Settle
  <2> DEFINE p == Message("cfa")[2]
  <2>1. \/ UNCHANGED cfa
        \/ /\ Message("cfa")[1] = "confirmed" /\ p \notin DOMAIN settlements /\ reconciled' = reconciled
           /\ settlements' = Put(settlements, p, "created") /\ bankOwes' = bankOwes + p
    BY <1>3 DEF Settle, cfa
  <2>2. Message("cfa")[1] = "confirmed" => p \in Sales
    <3>1. purchaseTopic \in Seq(Messages \X DOMAIN sales) /\ position["cfa"] \in Nat \ {0}
      BY DEF LoyaltyInv, SalesInv, Consumers
    <3>2. position["cfa"] \in DOMAIN purchaseTopic
      BY <1>3, <3>1 DEF Settle, HasMessage
    <3> QED
      BY <3>2 DEF LoyaltyInv, SalesInv, Message, Confirmed
  <2> HIDE DEF p
  <2>3. CASE /\ Message("cfa")[1] = "confirmed" /\ p \notin DOMAIN settlements /\ reconciled' = reconciled
             /\ settlements' = Put(settlements, p, "created") /\ bankOwes' = bankOwes + p
    <3>1. OpenSettlements' = OpenSettlements \union {p} /\ Settled' = Settled /\ p \notin OpenSettlements
      BY <1>0, <2>3 DEF OpenSettlements, Settled, Put
    <3>2. Commissions(OpenSettlements \union {p}) = p + Commissions(OpenSettlements)
      BY <1>0, <2>2, <2>3, <3>1, CommissionsMore
    <3>3. p \in Nat
      BY <2>2, <2>3, LoyaltyAssumption
    <3> QED
      BY <1>0, <2>3, <3>1, <3>2, <3>3 DEF BooksInv
  <2> QED
    BY <1>1, <2>1, <2>3
<1>4. [LoyaltyNext]_loyaltyVars => UNCHANGED cfa \/ Settle \/ Reconcile
  BY DEF LoyaltyNext, loyaltyVars, RegisterMember, BuildChainFor, BuildChainFails, CreatePurchase, RequestConfirm, OnPurchase,
         ReadTree, CreditNode, RetryMessage, GiveUp, Redeliver, Fault, cfa
<1> QED
  BY <1>1, <1>2, <1>3, <1>4

\* The tree that the query collects, as a function of the rows.
LEMMA TreeOf == \A m : Tree(m) = TreeIn(chains, m)
BY DEF Tree, TreeIn, Reached

\* Who is credited changes when a tree is read, with one of its nodes, or not at all.
LEMMA CreditSteps ==
    ASSUME LoyaltyInv, [LoyaltyNext]_loyaltyVars
    PROVE  \/ /\ UNCHANGED <<bonuses, board, crediting>>
              /\ position'["referral"] = position["referral"] \/ crediting = Nothing
           \/ UNCHANGED <<bonuses, board>> /\ crediting' = Nothing /\ loyaltyFaults' = loyaltyFaults + 1
           \/ ReadTree \/ \E n \in crediting.nodes : CreditNode(n)
<1>0. position \in [Consumers -> Nat \ {0}] /\ loyaltyFaults \in Nat
  BY DEF LoyaltyInv, SalesInv
<1>1. CASE UNCHANGED <<bonuses, board, crediting, position>>
  BY <1>1
<1>2. CASE OnPurchase \/ Settle
  BY <1>0, <1>2 DEF OnPurchase, Settle, Marked, credit, Consumers
<1>3. ASSUME NEW c \in Consumers, Fault(c), Marked(c) \/ (\E back \in 1 .. position[c] : position' = [position EXCEPT ![c] = back])
      PROVE  \/ /\ UNCHANGED <<bonuses, board, crediting>>
                /\ position'["referral"] = position["referral"] \/ crediting = Nothing
             \/ UNCHANGED <<bonuses, board>> /\ crediting' = Nothing /\ loyaltyFaults' = loyaltyFaults + 1
  <2>1. CASE c = "referral"
    BY <1>3, <2>1 DEF Fault
  <2>2. CASE c # "referral"
    BY <1>0, <1>3, <2>2 DEF Fault, Marked, Consumers
  <2> QED
    BY <2>1, <2>2
<1>4. CASE RetryMessage
  BY <1>4 DEF RetryMessage, Fault
<1>5. [LoyaltyNext]_loyaltyVars =>
         \/ UNCHANGED <<bonuses, board, crediting, position>> \/ OnPurchase \/ Settle \/ RetryMessage
         \/ ReadTree \/ (\E n \in crediting.nodes : CreditNode(n)) \/ \E c \in Consumers : GiveUp(c) \/ Redeliver(c)
  BY DEF LoyaltyNext, loyaltyVars, RegisterMember, BuildChainFor, BuildChainFails, CreatePurchase, RequestConfirm, Reconcile, credit
<1>6. ASSUME NEW c \in Consumers, GiveUp(c) \/ Redeliver(c)
      PROVE  Fault(c) /\ (Marked(c) \/ (\E back \in 1 .. position[c] : position' = [position EXCEPT ![c] = back]))
  BY <1>6 DEF GiveUp, Redeliver
<1> QED
  BY <1>1, <1>2, <1>3, <1>4, <1>5, <1>6

\* A tree is read for a confirmed purchase, when no other is being gone through.
LEMMA ReadTreeDoes ==
    ASSUME LoyaltyInv, ReadTree
    PROVE  /\ crediting = Nothing /\ UNCHANGED <<people, sales, bonuses, board, purchaseTopic, loyaltyFaults>>
           /\ \/ crediting' = crediting
              \/ \E p \in DOMAIN sales :
                    /\ Confirmed(p) /\ Tree(sales[p].buyer) # {}
                    /\ crediting' = [sale |-> p, nodes |-> Tree(sales[p].buyer)]
                    /\ UNCHANGED position /\ position["referral"] <= Len(purchaseTopic)
<1> DEFINE p == Message("referral")[2]
<1>1. crediting = Nothing /\ UNCHANGED <<people, sales, bonuses, board, purchaseTopic, loyaltyFaults>>
  BY DEF ReadTree
<1>2. \/ crediting' = crediting
      \/ /\ Message("referral")[1] = "confirmed" /\ Tree(sales[p].buyer) # {}
         /\ crediting' = [sale |-> p, nodes |-> Tree(sales[p].buyer)] /\ UNCHANGED position
  BY DEF ReadTree
<1>3. position["referral"] <= Len(purchaseTopic)
  BY DEF ReadTree, HasMessage
<1>4. Message("referral")[1] = "confirmed" => Confirmed(p)
  <2>1. purchaseTopic \in Seq(Messages \X DOMAIN sales) /\ position["referral"] \in Nat \ {0}
    BY DEF LoyaltyInv, SalesInv, Consumers
  <2>2. position["referral"] \in DOMAIN purchaseTopic
    BY <1>3, <2>1
  <2> QED
    BY <2>2 DEF LoyaltyInv, SalesInv, Message
<1> HIDE DEF p
<1>5. Confirmed(p) => p \in DOMAIN sales
  BY DEF Confirmed
<1> QED
  BY <1>1, <1>2, <1>3, <1>4, <1>5, Zenon

\* One node of the tree is credited: its bonus is stored once, and the leaderboard
\* counts it or its update is lost.
LEMMA CreditNodeDoes ==
    ASSUME LoyaltyInv, NEW n \in crediting.nodes, CreditNode(n)
    PROVE  /\ crediting # Nothing /\ Confirmed(crediting.sale) /\ crediting.sale \in Sales
           /\ n \in Members \X (1 .. 3) /\ n[1] < sales[crediting.sale].buyer
           /\ UNCHANGED <<people, sales, purchaseTopic>>
           /\ bonuses' = bonuses \union {<<crediting.sale, n[1], n[2]>>}
           /\ \/ /\ board' = IF <<crediting.sale, n[1], n[2]>> \notin bonuses /\ n[2] = 1 THEN [board EXCEPT ![n[1]] = @ + 1]
                                                                                          ELSE board
                 /\ loyaltyFaults' = loyaltyFaults
              \/ board' = board /\ loyaltyFaults' = loyaltyFaults + 1
           /\ \/ crediting.nodes = {n} /\ crediting' = Nothing
              \/ /\ crediting.nodes \ {n} # {} /\ position' = position
                 /\ crediting' = [sale |-> crediting.sale, nodes |-> crediting.nodes \ {n}]
<1>1. crediting # Nothing
  BY DEF Nothing
<1>2. /\ Confirmed(crediting.sale) /\ n \in Members \X (1 .. 3) /\ n[1] < sales[crediting.sale].buyer
      /\ crediting = [sale |-> crediting.sale, nodes |-> crediting.nodes]
  BY <1>1 DEF LoyaltyInv, BonusInv
<1>3. crediting.sale \in Sales
  BY <1>2 DEF LoyaltyInv, SalesInv, Confirmed
<1>4. /\ UNCHANGED <<people, sales, purchaseTopic>>
      /\ bonuses' = bonuses \union {<<crediting.sale, n[1], n[2]>>}
      /\ \/ /\ board' = IF <<crediting.sale, n[1], n[2]>> \notin bonuses /\ n[2] = 1 THEN [board EXCEPT ![n[1]] = @ + 1]
                                                                                     ELSE board
            /\ loyaltyFaults' = loyaltyFaults
         \/ board' = board /\ loyaltyFaults' = loyaltyFaults + 1
      /\ \/ crediting.nodes \ {n} = {} /\ crediting' = Nothing
         \/ crediting.nodes \ {n} # {} /\ position' = position /\ crediting' = [crediting EXCEPT !.nodes = crediting.nodes \ {n}]
  BY DEF CreditNode
<1>5. [crediting EXCEPT !.nodes = crediting.nodes \ {n}] = [sale |-> crediting.sale, nodes |-> crediting.nodes \ {n}]
  BY <1>2
<1> QED
  BY <1>1, <1>2, <1>3, <1>4, <1>5

LEMMA BonusKept == ASSUME LoyaltyInv, [LoyaltyNext]_loyaltyVars PROVE BonusInv'
<1>0. BonusInv /\ SalesInv /\ ChainsInv
  BY DEF LoyaltyInv
<1>g. (\A p : Confirmed(p) => ConfirmedNext(p)) /\ \A p : Confirmed(p) => sales'[p].buyer = sales[p].buyer
  BY <1>0, SalesGrow DEF Confirmed
<1>t. Len(purchaseTopic') \in Nat /\ Len(purchaseTopic) \in Nat /\ Len(purchaseTopic') >= Len(purchaseTopic)
  BY TopicGrows
<1>n. \A x \in Consumers : position[x] \in Nat
  BY <1>0 DEF SalesInv
<1>b. \A b \in bonuses : ConfirmedNext(b[1]) /\ b[2] < sales'[b[1]].buyer
  BY <1>0, <1>g DEF BonusInv
<1>1. CASE UNCHANGED bonuses /\ crediting' = Nothing
  <2>1. crediting' = [sale |-> crediting'.sale, nodes |-> crediting'.nodes]
    BY <1>1 DEF Nothing
  <2> QED
    BY <1>0, <1>1, <1>b, <2>1 DEF BonusInv, Confirmed, ConfirmedNext, Nothing
<1>2. CASE UNCHANGED <<bonuses, crediting>> /\ (position'["referral"] = position["referral"] \/ crediting = Nothing)
  <2>1. CASE crediting = Nothing
    BY <1>1, <1>2, <2>1
  <2>2. CASE crediting # Nothing
    <3>1. ConfirmedNext(crediting.sale) /\ sales'[crediting.sale].buyer = sales[crediting.sale].buyer
      BY <1>0, <1>g, <2>2 DEF BonusInv
    <3>2. position'["referral"] <= Len(purchaseTopic')
      BY <1>0, <1>2, <1>t, <1>n, <2>2 DEF BonusInv, Consumers
    <3> QED
      BY <1>0, <1>2, <1>b, <2>2, <3>1, <3>2 DEF BonusInv, Confirmed, ConfirmedNext, Nothing
  <2> QED
    BY <2>1, <2>2
<1>3. CASE ReadTree
  <2>1. CASE crediting' = crediting
    BY <1>1, <1>3, <2>1, ReadTreeDoes
  <2>2. ASSUME NEW p \in DOMAIN sales, Confirmed(p), Tree(sales[p].buyer) # {},
               crediting' = [sale |-> p, nodes |-> Tree(sales[p].buyer)], UNCHANGED position, position["referral"] <= Len(purchaseTopic)
        PROVE  BonusInv'
    <3>1. UNCHANGED <<sales, bonuses, purchaseTopic>>
      BY <1>3, ReadTreeDoes
    <3>2. sales[p].buyer \in DOMAIN referredBy
      BY <1>0 DEF SalesInv
    <3>3. Tree(sales[p].buyer) \subseteq Members \X (1 .. 3) /\ \A n \in Tree(sales[p].buyer) : n[1] < sales[p].buyer
      BY <1>0, <3>2, TreeIs
    <3> DEFINE T == Tree(sales[p].buyer)
    <3>4. crediting' = [sale |-> p, nodes |-> T] /\ T # {} /\ T \subseteq Members \X (1 .. 3) /\ \A n \in T : n[1] < sales[p].buyer
      BY <2>2, <3>3
    <3> HIDE DEF T
    <3>5. crediting' = [sale |-> crediting'.sale, nodes |-> crediting'.nodes] /\ crediting'.sale = p /\ crediting'.nodes = T
      BY <3>4
    <3> QED
      BY <1>0, <1>b, <1>g, <2>2, <3>1, <3>4, <3>5 DEF BonusInv, Confirmed, ConfirmedNext
  <2> QED
    BY <1>3, <2>1, <2>2, ReadTreeDoes
<1>4. ASSUME NEW n \in crediting.nodes, CreditNode(n) PROVE BonusInv'
  <2> DEFINE bonus == <<crediting.sale, n[1], n[2]>>
  <2>1. /\ crediting # Nothing /\ Confirmed(crediting.sale) /\ crediting.sale \in Sales
        /\ n \in Members \X (1 .. 3) /\ n[1] < sales[crediting.sale].buyer
        /\ sales' = sales /\ purchaseTopic' = purchaseTopic /\ bonuses' = bonuses \union {bonus}
        /\ \/ crediting' = Nothing
           \/ /\ crediting.nodes \ {n} # {} /\ position' = position
              /\ crediting' = [sale |-> crediting.sale, nodes |-> crediting.nodes \ {n}]
    BY <1>4, CreditNodeDoes
  <2>2. bonus \in Sales \X Members \X (1 .. 3) /\ bonus[1] = crediting.sale /\ bonus[2] = n[1]
    BY <2>1
  <2> HIDE DEF bonus
  <2>3. IsFiniteSet(bonuses') /\ bonuses' \subseteq Sales \X Members \X (1 .. 3)
    BY <1>0, <2>1, <2>2, FS_AddElement DEF BonusInv
  <2>4. \A b \in bonuses' : ConfirmedNext(b[1]) /\ b[2] < sales'[b[1]].buyer
    BY <1>b, <1>g, <2>1, <2>2
  <2>5. CASE crediting' = Nothing
    <3>1. crediting' = [sale |-> crediting'.sale, nodes |-> crediting'.nodes]
      BY <2>5 DEF Nothing
    <3> QED
      BY <2>3, <2>4, <2>5, <3>1 DEF BonusInv, Confirmed, ConfirmedNext, Nothing
  <2>6. CASE /\ crediting.nodes \ {n} # {} /\ position' = position
             /\ crediting' = [sale |-> crediting.sale, nodes |-> crediting.nodes \ {n}]
    <3> DEFINE s == crediting.sale
               rest == crediting.nodes \ {n}
    <3>1. /\ Confirmed(s) /\ position["referral"] <= Len(purchaseTopic) /\ rest # {}
          /\ rest \subseteq Members \X (1 .. 3) /\ \A o \in rest : o[1] < sales[s].buyer
      BY <1>0, <2>1, <2>6 DEF BonusInv
    <3>2. crediting' = [sale |-> s, nodes |-> rest]
      BY <2>6
    <3> HIDE DEF s, rest
    <3>3. crediting' = [sale |-> crediting'.sale, nodes |-> crediting'.nodes] /\ crediting'.sale = s /\ crediting'.nodes = rest
      BY <3>2
    <3> QED
      BY <1>g, <2>1, <2>3, <2>4, <2>6, <3>1, <3>3 DEF BonusInv, Confirmed, ConfirmedNext
  <2> QED
    BY <2>1, <2>5, <2>6
<1> QED
  BY <1>1, <1>2, <1>3, <1>4, CreditSteps

LEMMA TreesKept == ASSUME LoyaltyInv, [LoyaltyNext]_loyaltyVars PROVE TreesInv'
<1>0. TreesInv /\ BonusInv /\ SalesInv /\ ChainsInv
  BY DEF LoyaltyInv
<1>g. \A p : Confirmed(p) => sales'[p].buyer = sales[p].buyer
  BY <1>0, SalesGrow DEF Confirmed
<1>1. CASE /\ chains' = chains /\ lateChain' = lateChain /\ bonuses' = bonuses
           /\ (crediting' = crediting \/ crediting' = Nothing)
  <2>1. \A b \in bonuses : sales'[b[1]].buyer = sales[b[1]].buyer
    BY <1>0, <1>g DEF BonusInv
  <2>2. crediting # Nothing => sales'[crediting.sale].buyer = sales[crediting.sale].buyer
    BY <1>0, <1>g DEF BonusInv
  <2>3. Nothing.nodes = {}
    BY DEF Nothing
  <2> QED
    BY <1>0, <1>1, <2>1, <2>2, <2>3 DEF TreesInv
<1>2. CASE ReadTree
  <2>1. chains' = chains /\ lateChain' = lateChain /\ bonuses' = bonuses /\ sales' = sales
    BY <1>2, ReadTreeDoes DEF people
  <2>2. CASE crediting' = crediting
    BY <1>1, <2>1, <2>2
  <2>3. ASSUME NEW p \in DOMAIN sales, crediting' = [sale |-> p, nodes |-> Tree(sales[p].buyer)] PROVE TreesInv'
    <3>1. crediting'.sale = p /\ crediting'.nodes = TreeIn(chains, sales[p].buyer)
      BY <2>3, TreeOf
    <3> QED
      BY <1>0, <2>1, <3>1 DEF TreesInv
  <2> QED
    BY <1>2, <2>2, <2>3, ReadTreeDoes
<1>3. ASSUME NEW n \in crediting.nodes, CreditNode(n) PROVE TreesInv'
  <2> DEFINE bonus == <<crediting.sale, n[1], n[2]>>
  <2>1. /\ chains' = chains /\ lateChain' = lateChain /\ sales' = sales /\ bonuses' = bonuses \union {bonus}
        /\ n \in Members \X (1 .. 3)
        /\ crediting' = Nothing \/ crediting' = [sale |-> crediting.sale, nodes |-> crediting.nodes \ {n}]
    BY <1>3, CreditNodeDoes DEF people
  <2>2. bonus[1] = crediting.sale /\ <<bonus[2], bonus[3]>> = n
    BY <2>1
  <2> HIDE DEF bonus
  <2>3. \A o \in crediting'.nodes : o \in crediting.nodes /\ crediting'.sale = crediting.sale
    BY <2>1 DEF Nothing
  <2> QED
    BY <1>0, <2>1, <2>2, <2>3 DEF TreesInv
<1>4. ASSUME NEW m, BuildChainFor(m) PROVE TreesInv'
  <2>1. /\ lateChain' = (lateChain \/ \E p \in DOMAIN sales : sales[p].status = "confirmed")
        /\ bonuses' = bonuses /\ crediting' = crediting
    BY <1>4 DEF BuildChainFor, credit
  <2>2. CASE \E p : Confirmed(p)
    BY <2>1, <2>2 DEF Confirmed, TreesInv
  <2>3. CASE ~\E p : Confirmed(p)
    <3>1. bonuses = {} /\ crediting = Nothing
      BY <1>0, <2>3 DEF BonusInv
    <3> QED
      BY <2>1, <3>1 DEF TreesInv, Nothing
  <2> QED
    BY <2>2, <2>3
<1>5. (UNCHANGED <<chains, lateChain>>) \/ \E m \in Members : BuildChainFor(m)
  BY DEF LoyaltyNext, loyaltyVars, RegisterMember, BuildChainFails, CreatePurchase, RequestConfirm, Reconcile, OnPurchase, Settle,
         ReadTree, CreditNode, RetryMessage, GiveUp, Redeliver, Fault, people
<1> QED
  BY <1>1, <1>2, <1>3, <1>4, <1>5, CreditSteps

\* The board counts a bonus of the first level when its row is inserted, and not again.
LEMMA BoardKept == ASSUME LoyaltyInv, [LoyaltyNext]_loyaltyVars PROVE BoardInv'
<1>0. /\ BoardInv /\ IsFiniteSet(bonuses) /\ loyaltyFaults \in Nat /\ loyaltyFaults' \in {loyaltyFaults, loyaltyFaults + 1}
      /\ board \in [Members -> Nat]
  BY TopicGrows DEF LoyaltyInv, BonusInv, SalesInv, BoardInv
<1>1. CASE UNCHANGED <<bonuses, board>>
  BY <1>0, <1>1 DEF BoardInv, Firsts
<1>2. CASE ReadTree
  BY <1>1, <1>2, ReadTreeDoes
<1>3. ASSUME NEW n \in crediting.nodes, CreditNode(n) PROVE BoardInv'
  <2> DEFINE bonus == <<crediting.sale, n[1], n[2]>>
             more == bonuses \union {bonus}
             FirstsOf(bs, m) == {b \in bs : b[2] = m /\ b[3] = 1}
  <2>1. /\ bonuses' = more /\ n \in Members \X (1 .. 3)
        /\ \/ /\ board' = IF bonus \notin bonuses /\ n[2] = 1 THEN [board EXCEPT ![n[1]] = @ + 1] ELSE board
              /\ loyaltyFaults' = loyaltyFaults
           \/ board' = board /\ loyaltyFaults' = loyaltyFaults + 1
    BY <1>3, CreditNodeDoes
  <2>2. CASE bonus \in bonuses
    <3>1. bonuses' = bonuses /\ board' = board
      BY <2>1, <2>2
    <3> QED
      BY <1>1, <3>1
  <2>3. CASE bonus \notin bonuses
    <3>1. bonus[2] = n[1] /\ bonus[3] = n[2] /\ n[1] \in Members
      BY <2>1
    <3> HIDE DEF bonus
    <3>2. \A m \in Members : IsFiniteSet(Firsts(m)) /\ Cardinality(Firsts(m)) \in Nat
      BY <1>0, FS_Subset, FS_CardinalityType DEF Firsts
    <3>3. ASSUME NEW m \in Members
          PROVE  Cardinality(FirstsOf(more, m)) = Cardinality(Firsts(m)) + (IF m = n[1] /\ n[2] = 1 THEN 1 ELSE 0)
      <4>1. CASE m = n[1] /\ n[2] = 1
        <5>1. FirstsOf(more, m) = Firsts(m) \union {bonus} /\ bonus \notin Firsts(m)
          BY <2>3, <3>1, <4>1 DEF Firsts
        <5>2. Cardinality(Firsts(m) \union {bonus}) = Cardinality(Firsts(m)) + 1
          BY <3>2, <5>1, FS_AddElement
        <5> QED
          BY <4>1, <5>1, <5>2
      <4>2. CASE ~(m = n[1] /\ n[2] = 1)
        <5>1. FirstsOf(more, m) = Firsts(m)
          BY <3>1, <4>2 DEF Firsts
        <5>2. (IF m = n[1] /\ n[2] = 1 THEN 1 ELSE 0) = 0
          BY <4>2
        <5>3. \A x \in Nat : x = x + 0
          OBVIOUS
        <5>4. Cardinality(Firsts(m)) = Cardinality(Firsts(m)) + 0
          BY <3>2, <5>3
        <5> HIDE DEF FirstsOf
        <5> QED
          BY <5>1, <5>2, <5>4
      <4> QED
        BY <4>1, <4>2
    <3>4. board' \in [Members -> Nat]
      BY <1>0, <2>1, <3>1
    <3>5. \A m \in Members : /\ board'[m] <= Cardinality(FirstsOf(more, m))
                             /\ loyaltyFaults' = 0 => board'[m] = Cardinality(FirstsOf(more, m))
      <4> SUFFICES ASSUME NEW m \in Members
                   PROVE  /\ board'[m] <= Cardinality(FirstsOf(more, m))
                          /\ loyaltyFaults' = 0 => board'[m] = Cardinality(FirstsOf(more, m))
        OBVIOUS
      <4> DEFINE k == Cardinality(Firsts(m))
                 l == Cardinality(FirstsOf(more, m))
                 hit == m = n[1] /\ n[2] = 1
      <4>1. l = k + (IF hit THEN 1 ELSE 0) /\ k \in Nat
        BY <3>2, <3>3
      <4>2. board[m] \in Nat /\ board[m] <= k /\ (loyaltyFaults = 0 => board[m] = k)
        BY <1>0 DEF BoardInv
      <4>3. \/ board'[m] = board[m] + (IF hit THEN 1 ELSE 0) /\ loyaltyFaults' = loyaltyFaults
            \/ board'[m] = board[m] /\ loyaltyFaults' # 0
        <5>1. CASE board' = (IF bonus \notin bonuses /\ n[2] = 1 THEN [board EXCEPT ![n[1]] = @ + 1] ELSE board) /\ loyaltyFaults' = loyaltyFaults
          <6>1. CASE n[2] = 1
            BY <1>0, <2>3, <3>1, <4>2, <5>1, <6>1
          <6>2. CASE n[2] # 1
            BY <4>2, <5>1, <6>2
          <6> QED
            BY <6>1, <6>2
        <5>2. CASE board' = board /\ loyaltyFaults' = loyaltyFaults + 1
          BY <1>0, <5>2
        <5> QED
          BY <2>1, <5>1, <5>2
      <4> HIDE DEF k, l, hit
      <4>4. board'[m] <= l /\ (loyaltyFaults' = 0 => board'[m] = l)
        BY <1>0, <4>1, <4>2, <4>3
      <4> QED
        BY <4>4 DEF l
    <3>6. \A m \in Members : Firsts(m)' = FirstsOf(more, m)
      BY <2>1 DEF Firsts
    <3> HIDE DEF more, FirstsOf
    <3>7. \A m \in Members : /\ board'[m] <= Cardinality(Firsts(m)')
                             /\ loyaltyFaults' = 0 => board'[m] = Cardinality(Firsts(m)')
      BY <3>5, <3>6
    <3> QED
      BY <3>4, <3>7 DEF BoardInv
  <2> QED
    BY <2>2, <2>3
<1> QED
  BY <1>1, <1>2, <1>3, CreditSteps

\* A tree holds the buyer's own referrer, and is gone through to its end without a fault.
LEMMA FirstsKept == ASSUME LoyaltyInv, [LoyaltyNext]_loyaltyVars PROVE FirstsInv'
<1>0. FirstsInv /\ BonusInv /\ SalesInv /\ ChainsInv /\ loyaltyFaults \in Nat /\ loyaltyFaults' \in {loyaltyFaults, loyaltyFaults + 1}
  BY TopicGrows DEF LoyaltyInv, SalesInv
<1>g. \A p : Confirmed(p) => referredBy'[sales'[p].buyer] = referredBy[sales[p].buyer]
  <2>1. \A p : Confirmed(p) => sales'[p].buyer = sales[p].buyer /\ sales[p].buyer \in DOMAIN referredBy
    BY <1>0, SalesGrow DEF Confirmed, SalesInv
  <2> QED
    BY <1>0, <2>1, PeopleGrow
<1> SUFFICES ASSUME loyaltyFaults' = 0, loyaltyFaults = 0 PROVE FirstsInv'
  BY <1>0 DEF FirstsInv
<1>b. \A b \in bonuses : referredBy'[sales'[b[1]].buyer] = referredBy[sales[b[1]].buyer]
  BY <1>0, <1>g DEF BonusInv
<1>c. crediting # Nothing => referredBy'[sales'[crediting.sale].buyer] = referredBy[sales[crediting.sale].buyer]
  BY <1>0, <1>g DEF BonusInv
<1>n. \A b \in bonuses : b[1] # 0
  BY <1>0, LoyaltyAssumption DEF BonusInv, Confirmed, SalesInv
<1>1. CASE UNCHANGED <<bonuses, crediting>>
  BY <1>0, <1>1, <1>b, <1>c DEF FirstsInv
<1>2. CASE ReadTree
  <2>1. crediting = Nothing /\ bonuses' = bonuses /\ sales' = sales /\ referredBy' = referredBy
    BY <1>2, ReadTreeDoes DEF people
  <2>2. CASE crediting' = crediting
    BY <1>1, <2>1, <2>2
  <2>3. ASSUME NEW p \in DOMAIN sales, Tree(sales[p].buyer) # {}, crediting' = [sale |-> p, nodes |-> Tree(sales[p].buyer)] PROVE FirstsInv'
    <3>1. sales[p].buyer \in DOMAIN referredBy
      BY <1>0 DEF SalesInv
    <3>2. <<referredBy[sales[p].buyer], 1>> \in crediting'.nodes /\ crediting'.sale = p
      BY <1>0, <2>3, <3>1, TreeIs
    <3>3. Nothing.sale = 0
      BY DEF Nothing
    <3> QED
      BY <1>0, <1>n, <2>1, <3>2, <3>3 DEF FirstsInv
  <2> QED
    BY <1>2, <2>2, <2>3, ReadTreeDoes
<1>3. ASSUME NEW n \in crediting.nodes, CreditNode(n) PROVE FirstsInv'
  <2> DEFINE s == crediting.sale
             bonus == <<s, n[1], n[2]>>
             up == referredBy[sales[s].buyer]
  <2>1. /\ crediting # Nothing /\ sales' = sales /\ referredBy' = referredBy /\ bonuses' = bonuses \union {bonus}
        /\ n \in Members \X (1 .. 3) /\ s \in Sales
        /\ \/ crediting.nodes = {n} /\ crediting' = Nothing
           \/ crediting.nodes \ {n} # {} /\ crediting' = [sale |-> s, nodes |-> crediting.nodes \ {n}]
    BY <1>3, CreditNodeDoes DEF people
  <2>2. <<up, 1>> \in crediting.nodes \/ <<s, up, 1>> \in bonuses
    BY <1>0, <2>1 DEF FirstsInv
  <2>3. n = <<up, 1>> => bonus = <<s, up, 1>>
    BY <2>1
  <2>4. bonus[1] = s
    OBVIOUS
  <2>5. \A b \in bonuses : b[1] # s => <<b[1], referredBy[sales[b[1]].buyer], 1>> \in bonuses
    BY <1>0, <2>1 DEF FirstsInv
  <2> HIDE DEF bonus
  <2>6. CASE crediting.nodes = {n} /\ crediting' = Nothing
    <3>1. <<s, up, 1>> \in bonuses'
      BY <2>1, <2>2, <2>3, <2>6
    <3>2. \A b \in bonuses' : <<b[1], referredBy[sales[b[1]].buyer], 1>> \in bonuses'
      BY <2>1, <2>4, <2>5, <3>1
    <3> QED
      BY <2>1, <2>6, <3>2 DEF FirstsInv
  <2>7. CASE crediting.nodes \ {n} # {} /\ crediting' = [sale |-> s, nodes |-> crediting.nodes \ {n}]
    <3>1. crediting'.sale = s /\ crediting'.nodes = crediting.nodes \ {n}
      BY <2>7
    <3>2. <<up, 1>> \in crediting'.nodes \/ <<s, up, 1>> \in bonuses'
      BY <2>1, <2>2, <2>3, <3>1
    <3>3. \A b \in bonuses' : b[1] # s => <<b[1], referredBy[sales[b[1]].buyer], 1>> \in bonuses'
      BY <2>1, <2>4, <2>5
    <3> QED
      BY <2>1, <3>1, <3>2, <3>3 DEF FirstsInv
  <2> QED
    BY <2>1, <2>6, <2>7
<1>4. CASE loyaltyFaults' = loyaltyFaults + 1
  BY <1>4
<1> QED
  BY <1>1, <1>2, <1>3, <1>4, CreditSteps

\* With no member and no purchase, everything is empty.
LEMMA LoyaltyStart == ASSUME LoyaltyInit PROVE LoyaltyInv
<1> USE DEF LoyaltyInit
<1>1. ChainsInv
  <2>1. DOMAIN referredBy = {}
    OBVIOUS
  <2>2. Cardinality({}) = 0 /\ 1 .. 0 = {}
    BY FS_EmptySet
  <2> QED
    BY <2>1, <2>2 DEF ChainsInv
<1>2. SalesInv
  <2>1. DOMAIN sales = {} /\ DOMAIN settlements = {}
    OBVIOUS
  <2>2. /\ sales \in [DOMAIN sales -> [buyer : DOMAIN referredBy, status : {"pending", "confirmed"}]]
        /\ settlements \in [DOMAIN settlements -> {"created", "settled"}]
    OBVIOUS
  <2>3. purchaseTopic = <<>> /\ <<>> \in Seq(Messages \X DOMAIN sales) /\ Len(<<>>) = 0 /\ DOMAIN <<>> = {}
    OBVIOUS
  <2> QED
    BY <2>1, <2>2, <2>3 DEF SalesInv
<1>3. BooksInv
  <2>1. OpenSettlements = {} /\ Settled = {}
    BY DEF OpenSettlements, Settled
  <2> QED
    BY <2>1, CommissionsNone DEF BooksInv
<1>5. BonusInv
  BY FS_EmptySet DEF BonusInv, Nothing
<1>6. TreesInv
  BY DEF TreesInv, Nothing
<1>7. BoardInv
  <2>1. \A m \in Members : Firsts(m) = {}
    BY DEF Firsts
  <2>2. Cardinality({}) = 0
    BY FS_EmptySet
  <2>3. board \in [Members -> Nat] /\ \A m \in Members : board[m] = 0
    OBVIOUS
  <2>4. \A m \in Members : Cardinality(Firsts(m)) = 0
    BY <2>1, <2>2
  <2> QED
    BY <2>3, <2>4 DEF BoardInv
<1>8. FirstsInv
  BY DEF FirstsInv
<1> QED
  BY <1>1, <1>2, <1>3, <1>5, <1>6, <1>7, <1>8 DEF LoyaltyInv

-----------------------------------------------------------------------------
\* Line and Ancestors, of the referrers f.
LineIn(f, m) ==
    LET Closed(S) == \A x \in DOMAIN f : (x = m \/ x \in S) /\ f[x] # 0 => f[x] \in S
    IN  {r \in Members : \A S \in SUBSET Members : Closed(S) => r \in S}
UpIn(f, m) == IF m = 0 THEN 0 ELSE f[m]
AncestorsIn(f, m) ==
    {a \in {<<UpIn(f, m), 1>>, <<UpIn(f, UpIn(f, m)), 2>>, <<UpIn(f, UpIn(f, UpIn(f, m))), 3>>} : a[1] # 0}

\* A node of a tree: somebody above the member, at a level of somebody in between.
AboveIn(f, n, m) == n[1] \in LineIn(f, m) /\ \E x \in LineIn(f, m) \union {m} : n \in AncestorsIn(f, x)

LEMMA LinesAre ==
    /\ \A m : Line(m) = LineIn(referredBy, m) /\ Ancestors(m) = AncestorsIn(referredBy, m)
    /\ \A m : Line(m)' = LineIn(referredBy', m) /\ Ancestors(m)' = AncestorsIn(referredBy', m)
BY DEF Line, LineIn, Ancestors, AncestorsIn, Up, UpIn

\* Every referrer was registered before.
Grown(f) ==
    /\ DOMAIN f = 1 .. Cardinality(DOMAIN f) /\ Cardinality(DOMAIN f) \in Nat /\ DOMAIN f \subseteq Members
    /\ \A x \in DOMAIN f : f[x] \in 0 .. x - 1

LEMMA LineClosed ==
    ASSUME NEW f, Grown(f), NEW m \in DOMAIN f
    PROVE  /\ LineIn(f, m) \subseteq DOMAIN f
           /\ \A x \in LineIn(f, m) \union {m} : f[x] # 0 => f[x] \in LineIn(f, m)
<1> DEFINE Closed(S) == \A x \in DOMAIN f : (x = m \/ x \in S) /\ f[x] # 0 => f[x] \in S
<1>1. LineIn(f, m) = {r \in Members : \A S \in SUBSET Members : Closed(S) => r \in S}
  BY DEF LineIn
<1>2. \A x \in DOMAIN f : f[x] # 0 => f[x] \in DOMAIN f /\ f[x] \in Members
  BY DEF Grown
<1>3. Closed(DOMAIN f) /\ DOMAIN f \in SUBSET Members
  BY <1>2 DEF Grown
<1>4. LineIn(f, m) \subseteq DOMAIN f
  BY <1>1, <1>3
<1>5. ASSUME NEW x \in LineIn(f, m) \union {m}, f[x] # 0 PROVE f[x] \in LineIn(f, m)
  <2>1. x \in DOMAIN f /\ f[x] \in Members
    BY <1>2, <1>4, <1>5
  <2>2. ASSUME NEW S \in SUBSET Members, Closed(S) PROVE f[x] \in S
    BY <1>1, <1>5, <2>1, <2>2
  <2> QED
    BY <1>1, <2>1, <2>2
<1> QED
  BY <1>4, <1>5

\* The line of a member does not change when others register.
LEMMA LineSame ==
    ASSUME NEW f, Grown(f), NEW g, DOMAIN f \subseteq DOMAIN g, DOMAIN g \subseteq Members,
           \A x \in DOMAIN f : g[x] = f[x], NEW m \in DOMAIN f
    PROVE  /\ LineIn(g, m) = LineIn(f, m)
           /\ \A n : AboveIn(f, n, m) => AboveIn(g, n, m)
           /\ AncestorsIn(g, m) = AncestorsIn(f, m)
<1> DEFINE CF(S) == \A x \in DOMAIN f : (x = m \/ x \in S) /\ f[x] # 0 => f[x] \in S
           CG(S) == \A x \in DOMAIN g : (x = m \/ x \in S) /\ g[x] # 0 => g[x] \in S
<1>1. LineIn(f, m) = {r \in Members : \A S \in SUBSET Members : CF(S) => r \in S}
  BY DEF LineIn
<1>2. LineIn(g, m) = {r \in Members : \A S \in SUBSET Members : CG(S) => r \in S}
  BY DEF LineIn
<1>3. \A x \in DOMAIN f : f[x] # 0 => f[x] \in DOMAIN f
  BY DEF Grown
<1>4. \A S \in SUBSET Members : CG(S) => CF(S)
  OBVIOUS
<1>5. ASSUME NEW S \in SUBSET Members, CF(S) PROVE CG(S \intersect DOMAIN f) /\ S \intersect DOMAIN f \in SUBSET Members
  BY <1>3, <1>5
<1> HIDE DEF CF, CG
<1>6. LineIn(g, m) = LineIn(f, m)
  <2>1. ASSUME NEW r \in LineIn(f, m) PROVE r \in LineIn(g, m)
    BY <1>1, <1>2, <1>4, <2>1
  <2>2. ASSUME NEW r \in LineIn(g, m) PROVE r \in LineIn(f, m)
    BY <1>1, <1>2, <1>5, <2>2
  <2> QED
    BY <2>1, <2>2
<1>7. ASSUME NEW x \in DOMAIN f PROVE AncestorsIn(g, x) = AncestorsIn(f, x)
  <2> DEFINE ok(y) == y \in DOMAIN f \union {0}
  <2>1. \A y \in DOMAIN f \union {0} : UpIn(f, y) \in DOMAIN f \union {0} /\ UpIn(g, y) = UpIn(f, y)
    BY <1>3 DEF UpIn
  <2>2. /\ UpIn(g, x) = UpIn(f, x) /\ UpIn(g, UpIn(g, x)) = UpIn(f, UpIn(f, x))
        /\ UpIn(g, UpIn(g, UpIn(g, x))) = UpIn(f, UpIn(f, UpIn(f, x)))
    BY <1>7, <2>1
  <2> QED
    BY <2>2 DEF AncestorsIn
<1>8. \A x \in LineIn(f, m) \union {m} : x \in DOMAIN f
  BY LineClosed
<1> QED
  BY <1>6, <1>7, <1>8 DEF AboveIn

\* Who is above somebody above the member is above the member.
LEMMA AncestorsAbove ==
    ASSUME NEW f, Grown(f), NEW m \in DOMAIN f, NEW x \in LineIn(f, m) \union {m}, NEW a \in AncestorsIn(f, x)
    PROVE  AboveIn(f, a, m)
<1>1. \A y \in LineIn(f, m) \union {m, 0} : UpIn(f, y) \in LineIn(f, m) \union {0}
  <2>1. \A y \in LineIn(f, m) \union {m} : y \in DOMAIN f /\ (f[y] # 0 => f[y] \in LineIn(f, m))
    BY LineClosed
  <2> QED
    BY <2>1 DEF UpIn
<1>2. UpIn(f, x) \in LineIn(f, m) \union {0}
  BY <1>1
<1>3. UpIn(f, UpIn(f, x)) \in LineIn(f, m) \union {0}
  BY <1>1, <1>2
<1>4. UpIn(f, UpIn(f, UpIn(f, x))) \in LineIn(f, m) \union {0}
  BY <1>1, <1>3
<1>5. a[1] \in LineIn(f, m)
  BY <1>2, <1>3, <1>4 DEF AncestorsIn
<1> QED
  BY <1>5 DEF AboveIn

-----------------------------------------------------------------------------
\* The confirmation of a purchase is in the topic; a consumer has it still ahead.
Said(p) == \E i \in DOMAIN purchaseTopic : purchaseTopic[i] = <<"confirmed", p>>

Ahead(c, p) == \E i \in DOMAIN purchaseTopic : position[c] <= i /\ purchaseTopic[i] = <<"confirmed", p>>

\* A confirmation is in the topic or lost, never both; whatever is settled or credited
\* follows one in the topic.
EventsInv ==
    /\ \A p \in DOMAIN sales : Confirmed(p) => <<"event", p>> \in forgone \/ Said(p)
    /\ \A p : <<"event", p>> \in forgone => Confirmed(p) /\ ~Said(p)
    /\ \A p \in DOMAIN settlements : Said(p)
    /\ \A b \in bonuses : Said(b[1])
    /\ crediting # Nothing => Message("referral") = <<"confirmed", crediting.sale>>

\* The rows of a chain are its member's ancestors, and a member's own referrer is the first
\* row, unless the chain is not built yet or never will be.
RowsInv ==
    /\ \A c \in chains : <<c[2], c[3]>> \in Ancestors(c[1])
    /\ \A m \in DOMAIN referredBy : referredBy[m] # 0 =>
          m \in unchained \/ <<"chain", m>> \in forgone \/ <<m, referredBy[m], 1>> \in chains

\* Bonuses, and the nodes at hand, stand above the buyer or above somebody in between.  With
\* all chains built they are everybody above the buyer, at the first level.
LevelsInv ==
    /\ \A b \in bonuses : /\ AboveIn(referredBy, <<b[2], b[3]>>, sales[b[1]].buyer)
                          /\ ChainsComplete => b[3] = 1
    /\ crediting # Nothing =>
         /\ \A n \in crediting.nodes : /\ AboveIn(referredBy, n, sales[crediting.sale].buyer)
                                       /\ ChainsComplete => n[2] = 1
         /\ ChainsComplete => \A r \in LineIn(referredBy, sales[crediting.sale].buyer) :
              <<r, 1>> \in crediting.nodes \/ <<crediting.sale, r, 1>> \in bonuses

\* What was said of a confirmation is settled and credited, given up, or still ahead.
PaidInv == \A p \in DOMAIN sales : Said(p) =>
    /\ p \in DOMAIN settlements \/ <<"cfa", p>> \in forgone \/ Ahead("cfa", p)
    /\ \/ <<"referral", p>> \in forgone \/ Ahead("referral", p)
       \/ ChainsComplete => \A r \in LineIn(referredBy, sales[p].buyer) : <<p, r, 1>> \in bonuses

MoneyInv == LoyaltyInv /\ EventsInv /\ RowsInv /\ LevelsInv /\ PaidInv

LEMMA GrownNow == ASSUME ChainsInv PROVE Grown(referredBy)
BY DEF ChainsInv, Grown

\* The tree of a member stands above it; with all chains built it is everybody above it.
LEMMA TreeWhole ==
    ASSUME ChainsInv, RowsInv, NEW m \in DOMAIN referredBy
    PROVE  /\ \A n \in Tree(m) : AboveIn(referredBy, n, m)
           /\ ChainsComplete => /\ \A n \in Tree(m) : n[2] = 1
                                /\ \A r \in LineIn(referredBy, m) : <<r, 1>> \in Tree(m)
<1> DEFINE f == referredBy
           rows == {c \in chains : c[1] = m \/ (c[1] \in Reached(m) /\ c[3] < 3)}
           Levels(r) == {c[3] : c \in {c \in rows : c[2] = r}}
           Closed(S) == \A c \in chains : c[1] = m \/ (c[1] \in S /\ c[3] < 3) => c[2] \in S
           L == LineIn(f, m)
<1>0. \A c \in chains : /\ c[1] \in DOMAIN f /\ c[2] \in Members /\ c[3] \in 1 .. 3
                        /\ <<c[2], c[3]>> \in AncestorsIn(f, c[1])
  BY LinesAre DEF ChainsInv, RowsInv
<1>g. Grown(f)
  BY GrownNow
<1>1. Tree(m) = {<<r, Min(Levels(r))>> : r \in {c[2] : c \in rows}}
  BY DEF Tree
<1>2. Reached(m) = {r \in Members : \A S \in SUBSET Members : Closed(S) => r \in S}
  BY DEF Reached
<1>3. \A c \in chains : c[1] \in L \union {m} => AboveIn(f, <<c[2], c[3]>>, m)
  BY <1>0, <1>g, AncestorsAbove
<1>4. \A c \in chains : c[1] \in L \union {m} => c[2] \in L
  <2>1. \A c \in chains : c[1] \in L \union {m} => <<c[2], c[3]>>[1] \in L
    BY <1>3 DEF AboveIn
  <2> QED
    BY <2>1
<1>5. Reached(m) \subseteq L
  <2>1. L \in SUBSET Members
    BY DEF LineIn
  <2>2. Closed(L)
    BY <1>4
  <2> HIDE DEF Closed, L
  <2> QED
    BY <1>2, <2>1, <2>2
<1>6. \A c \in rows : c \in chains /\ c[1] \in L \union {m} /\ AboveIn(f, <<c[2], c[3]>>, m)
  BY <1>3, <1>5
<1>7. \A c \in rows : c[2] \in Reached(m)
  <2> SUFFICES ASSUME NEW c \in rows PROVE c[2] \in Reached(m)
    OBVIOUS
  <2>1. c[2] \in Members /\ c \in chains
    BY <1>0
  <2>2. ASSUME NEW S \in SUBSET Members, Closed(S) PROVE c[2] \in S
    <3>1. c[1] = m \/ (c[1] \in S /\ c[3] < 3)
      BY <1>2, <2>2
    <3> QED
      BY <2>1, <2>2, <3>1
  <2> HIDE DEF Closed, rows
  <2> QED
    BY <1>2, <2>1, <2>2
<1>8. \A r : (\E c \in rows : c[2] = r) => Min(Levels(r)) \in Levels(r) /\ \A x \in Levels(r) : Min(Levels(r)) <= x
  <2> SUFFICES ASSUME NEW r, NEW c \in rows, c[2] = r
               PROVE  Min(Levels(r)) \in Levels(r) /\ \A x \in Levels(r) : Min(Levels(r)) <= x
    OBVIOUS
  <2>1. Levels(r) \in SUBSET (1 .. 3) /\ Levels(r) # {}
    BY <1>0
  <2> HIDE DEF Levels
  <2> QED
    BY <2>1, MinOfLevels
<1>9. ASSUME NEW n \in Tree(m)
      PROVE  \E d \in rows : n = <<d[2], d[3]>> /\ n[1] = d[2] /\ n[2] = d[3] /\ n[2] = Min(Levels(d[2]))
  <2>1. PICK c \in rows : n = <<c[2], Min(Levels(c[2]))>>
    BY <1>1
  <2>2. Min(Levels(c[2])) \in Levels(c[2])
    BY <1>8
  <2>3. PICK d \in rows : d[2] = c[2] /\ d[3] = Min(Levels(c[2]))
    BY <2>2
  <2> HIDE DEF Levels, rows
  <2> QED
    BY <2>1, <2>3
<1>10. \A n \in Tree(m) : AboveIn(f, n, m)
  BY <1>6, <1>9
<1>11. ASSUME ChainsComplete
       PROVE  /\ \A n \in Tree(m) : n[2] = 1
              /\ \A r \in L : <<r, 1>> \in Tree(m)
  <2> DEFINE Q == {r \in Members : \E c \in rows : c[2] = r /\ c[3] = 1}
  <2>1. \A x \in DOMAIN f : f[x] # 0 => <<x, f[x], 1>> \in chains
    BY <1>11 DEF ChainsComplete, RowsInv, ChainsInv
  <2>2. ASSUME NEW x \in DOMAIN f, x = m \/ x \in Q, f[x] # 0 PROVE f[x] \in Q
    <3> DEFINE c == <<x, f[x], 1>>
    <3>1. c \in chains /\ c[1] = x /\ c[2] = f[x] /\ c[3] = 1 /\ f[x] \in Members
      BY <1>0, <2>1, <2>2
    <3>2. x = m \/ x \in Reached(m)
      BY <1>7, <2>2
    <3> HIDE DEF c
    <3>3. c \in rows
      BY <3>1, <3>2
    <3> QED
      BY <3>1, <3>3
  <2>3. Q \in SUBSET Members
    OBVIOUS
  <2>4. L \subseteq Q
    <3> HIDE DEF Q
    <3> QED
      BY <2>2, <2>3 DEF LineIn
  <2>5. ASSUME NEW r \in Q PROVE (\E c \in rows : c[2] = r) /\ Min(Levels(r)) = 1
    <3>1. PICK c \in rows : c[2] = r /\ c[3] = 1
      BY <2>5
    <3>2. 1 \in Levels(r)
      BY <3>1
    <3>3. Min(Levels(r)) \in Levels(r) /\ Min(Levels(r)) <= 1
      BY <1>8, <3>1, <3>2
    <3>4. Levels(r) \subseteq 1 .. 3
      BY <1>0
    <3> HIDE DEF Levels, rows
    <3> QED
      BY <3>1, <3>3, <3>4
  <2>6. \A n \in Tree(m) : n[2] = 1
    <3> SUFFICES ASSUME NEW n \in Tree(m) PROVE n[2] = 1
      OBVIOUS
    <3>1. PICK d \in rows : n[1] = d[2] /\ n[2] = Min(Levels(d[2]))
      BY <1>9
    <3>2. d[2] \in Q
      BY <1>5, <1>7, <2>4
    <3> HIDE DEF Q, Levels, rows
    <3> QED
      BY <2>5, <3>1, <3>2
  <2>7. \A r \in L : <<r, 1>> \in Tree(m)
    <3> SUFFICES ASSUME NEW r \in L PROVE <<r, 1>> \in Tree(m)
      OBVIOUS
    <3>1. r \in Q
      BY <2>4
    <3> HIDE DEF Q, Levels
    <3>2. (\E c \in rows : c[2] = r) /\ Min(Levels(r)) = 1
      BY <2>5, <3>1
    <3>3. r \in {c[2] : c \in rows}
      BY <3>2
    <3> HIDE DEF rows
    <3> QED
      BY <1>1, <3>2, <3>3
  <2> QED
    BY <2>6, <2>7
<1> QED
  BY <1>10, <1>11

-----------------------------------------------------------------------------
\* What was forgone stays so; chains are never complete again, except before the first purchase
\* is confirmed.
LEMMA ForgoneGrows ==
    ASSUME LoyaltyInv, [LoyaltyNext]_loyaltyVars
    PROVE  /\ forgone \subseteq forgone'
           /\ ChainsComplete' => ChainsComplete \/ ~\E p : ConfirmedNext(p)
<1>1. CASE UNCHANGED people /\ forgone \subseteq forgone'
  BY <1>1 DEF people, ChainsComplete
<1>2. ASSUME NEW r, RegisterMember(r) PROVE forgone' = forgone /\ (ChainsComplete' => ChainsComplete)
  BY <1>2 DEF RegisterMember, ChainsComplete
<1>3. ASSUME NEW m, BuildChainFor(m) PROVE forgone' = forgone /\ (ChainsComplete' => ~\E p : ConfirmedNext(p))
  <2>1. lateChain' = (lateChain \/ \E p \in DOMAIN sales : sales[p].status = "confirmed") /\ sales' = sales /\ forgone' = forgone
    BY <1>3 DEF BuildChainFor
  <2> QED
    BY <2>1 DEF ChainsComplete, ConfirmedNext
<1>4. ASSUME NEW m \in Members, BuildChainFails(m) PROVE forgone \subseteq forgone' /\ ~ChainsComplete'
  BY <1>4 DEF BuildChainFails, ChainsComplete
<1>5. [LoyaltyNext]_loyaltyVars =>
        \/ UNCHANGED people /\ forgone \subseteq forgone'
        \/ \E r \in DOMAIN referredBy \union {0} : RegisterMember(r)
        \/ \E m \in Members : BuildChainFor(m) \/ BuildChainFails(m)
  BY DEF LoyaltyNext, loyaltyVars, CreatePurchase, RequestConfirm, Publish, Reconcile, OnPurchase,
         Settle, ReadTree, CreditNode, RetryMessage, GiveUp, Redeliver, Fault, people
<1> QED
  BY <1>1, <1>2, <1>3, <1>4, <1>5

\* A message is queued, or it is lost; the loss of a confirmation is remembered.
LEMMA PublishSays ==
    ASSUME NEW type, NEW p, Publish(type, p)
    PROVE  \/ purchaseTopic' = Append(purchaseTopic, <<type, p>>) /\ forgone' = forgone
           \/ /\ purchaseTopic' = purchaseTopic
              /\ forgone' = IF type = "confirmed" THEN forgone \union {<<"event", p>>} ELSE forgone
BY DEF Publish

\* The message at hand of a consumer that has one.
LEMMA MessageIs ==
    ASSUME SalesInv, NEW c \in Consumers, HasMessage(c)
    PROVE  /\ position[c] \in DOMAIN purchaseTopic /\ Message(c) = purchaseTopic[position[c]]
           /\ Message(c) \in Messages \X DOMAIN sales /\ Message(c) = <<Message(c)[1], Message(c)[2]>>
           /\ Message(c)[1] = "confirmed" => Said(Message(c)[2]) /\ Confirmed(Message(c)[2])
<1>1. purchaseTopic \in Seq(Messages \X DOMAIN sales) /\ position[c] \in Nat \ {0}
  BY DEF SalesInv
<1>2. position[c] \in DOMAIN purchaseTopic
  BY <1>1 DEF HasMessage
<1>3. Message(c) \in Messages \X DOMAIN sales
  BY <1>1, <1>2 DEF Message
<1>4. Message(c) = <<Message(c)[1], Message(c)[2]>>
  BY <1>3
<1> QED
  BY <1>2, <1>3, <1>4 DEF Message, Said, SalesInv

\* What is appended to the topic is the only new message in it.
LEMMA TopicAppend ==
    ASSUME SalesInv, NEW x, purchaseTopic' = Append(purchaseTopic, x)
    PROVE  /\ DOMAIN purchaseTopic' = DOMAIN purchaseTopic \union {Len(purchaseTopic) + 1}
           /\ purchaseTopic'[Len(purchaseTopic) + 1] = x
           /\ \A i \in DOMAIN purchaseTopic : purchaseTopic'[i] = purchaseTopic[i]
           /\ \A c \in Consumers : position[c] <= Len(purchaseTopic) + 1
<1> DEFINE t == purchaseTopic
<1>1. t \in Seq(Messages \X DOMAIN sales)
  BY DEF SalesInv
<1>2. purchaseTopic' = Append(t, x)
  OBVIOUS
<1> HIDE DEF t
<1>3. /\ DOMAIN Append(t, x) = DOMAIN t \union {Len(t) + 1} /\ Append(t, x)[Len(t) + 1] = x
      /\ \A i \in DOMAIN t : Append(t, x)[i] = t[i]
  BY <1>1
<1> QED
  BY <1>2, <1>3 DEF t, SalesInv

SaidNext(p) == \E i \in DOMAIN purchaseTopic' : purchaseTopic'[i] = <<"confirmed", p>>

\* Only the confirmation of a pending purchase says something new of one, or loses it.
LEMMA SaysNew ==
    ASSUME LoyaltyInv, [LoyaltyNext]_loyaltyVars
    PROVE  /\ \A p : Said(p) => SaidNext(p)
           /\ \/ /\ \A p : SaidNext(p) => Said(p)
                 /\ \A p : <<"event", p>> \in forgone' => <<"event", p>> \in forgone
                 /\ \A p : ConfirmedNext(p) => Confirmed(p)
              \/ \E q \in DOMAIN sales :
                   /\ OnPurchase /\ ~Confirmed(q) /\ ConfirmedNext(q)
                   /\ \A p : ConfirmedNext(p) => Confirmed(p) \/ p = q
                   /\ \/ /\ purchaseTopic' = Append(purchaseTopic, <<"confirmed", q>>) /\ forgone' = forgone
                         /\ SaidNext(q) /\ \A p : SaidNext(p) => Said(p) \/ p = q
                      \/ purchaseTopic' = purchaseTopic /\ forgone' = forgone \union {<<"event", q>>}
<1> DEFINE Same == /\ \A p : SaidNext(p) => Said(p)
                   /\ \A p : <<"event", p>> \in forgone' => <<"event", p>> \in forgone
                   /\ \A p : ConfirmedNext(p) => Confirmed(p)
<1>0. SalesInv /\ sales \in [DOMAIN sales -> [buyer : DOMAIN referredBy, status : {"pending", "confirmed"}]]
  BY DEF LoyaltyInv, SalesInv
<1>a. \A p : Said(p) => SaidNext(p)
  <2>1. DOMAIN purchaseTopic \subseteq DOMAIN purchaseTopic' /\ \A i \in DOMAIN purchaseTopic : purchaseTopic'[i] = purchaseTopic[i]
    BY TopicGrows
  <2> QED
    BY <2>1 DEF Said, SaidNext
<1>1. ASSUME NEW type, type # "confirmed", NEW q, Publish(type, q), \A p : ConfirmedNext(p) => Confirmed(p) PROVE Same
  <2>1. forgone' = forgone
    BY <1>1, PublishSays
  <2>2. CASE purchaseTopic' = purchaseTopic
    BY <1>1, <2>1, <2>2 DEF Said, SaidNext
  <2>3. CASE purchaseTopic' = Append(purchaseTopic, <<type, q>>)
    <3>1. \A p : <<type, q>> # <<"confirmed", p>>
      BY <1>1
    <3>2. \A p : SaidNext(p) => Said(p)
      BY <1>0, <2>3, <3>1, TopicAppend DEF Said, SaidNext
    <3> QED
      BY <1>1, <2>1, <3>2
  <2> QED
    BY <1>1, <2>2, <2>3, PublishSays
<1>2. ASSUME NEW p, NEW m, CreatePurchase(p, m) PROVE Same
  <2>1. "created" # "confirmed" /\ Publish("created", p) /\ \A q : ConfirmedNext(q) => Confirmed(q)
    BY <1>2 DEF CreatePurchase, Put, Confirmed, ConfirmedNext
  <2> HIDE DEF Same
  <2> QED
    BY <1>1, <2>1
<1>3. ASSUME NEW p, RequestConfirm(p) PROVE Same
  <2>1. "request" # "confirmed" /\ Publish("request", p) /\ \A q : ConfirmedNext(q) => Confirmed(q)
    BY <1>3 DEF RequestConfirm, Confirmed, ConfirmedNext
  <2> HIDE DEF Same
  <2> QED
    BY <1>1, <2>1
<1>4. CASE OnPurchase
  <2> DEFINE q == Message("promo")[2]
  <2>1. CASE UNCHANGED <<sales, purchaseTopic, forgone>>
    BY <2>1 DEF Said, SaidNext, Confirmed, ConfirmedNext
  <2>2. CASE sales[q].status = "pending" /\ sales' = [sales EXCEPT ![q].status = "confirmed"] /\ Publish("confirmed", q)
    <3>1. q \in DOMAIN sales
      BY <1>0, <1>4, MessageIs DEF OnPurchase, Consumers
    <3> HIDE DEF q
    <3>2. ~Confirmed(q) /\ ConfirmedNext(q) /\ \A p : ConfirmedNext(p) => Confirmed(p) \/ p = q
      BY <1>0, <2>2, <3>1 DEF Confirmed, ConfirmedNext
    <3>3. CASE purchaseTopic' = purchaseTopic /\ forgone' = forgone \union {<<"event", q>>}
      BY <1>4, <1>a, <3>1, <3>2, <3>3
    <3>4. CASE purchaseTopic' = Append(purchaseTopic, <<"confirmed", q>>) /\ forgone' = forgone
      <4>1. \A p : <<"confirmed", p>> = <<"confirmed", q>> => p = q
        OBVIOUS
      <4>2. SaidNext(q) /\ \A p : SaidNext(p) => Said(p) \/ p = q
        BY <1>0, <3>4, <4>1, TopicAppend DEF Said, SaidNext
      <4> QED
        BY <1>4, <1>a, <3>1, <3>2, <3>4, <4>2
    <3>5. (purchaseTopic' = purchaseTopic /\ forgone' = forgone \union {<<"event", q>>})
            \/ (purchaseTopic' = Append(purchaseTopic, <<"confirmed", q>>) /\ forgone' = forgone)
      BY <2>2, PublishSays
    <3> HIDE DEF Same
    <3> QED
      BY <3>3, <3>4, <3>5
  <2> QED
    BY <1>4, <2>1, <2>2 DEF OnPurchase
<1>5. [LoyaltyNext]_loyaltyVars =>
        \/ OnPurchase \/ \E p \in Sales : RequestConfirm(p) \/ \E m \in Buyers : CreatePurchase(p, m)
        \/ /\ UNCHANGED <<purchaseTopic, sales>>
           /\ \/ forgone' = forgone
              \/ \E m \in Members : forgone' = forgone \union {<<"chain", m>>}
              \/ \E c \in Consumers : \E x : forgone' = forgone \union {<<c, x>>}
  <2>1. ASSUME NEW c \in Consumers, GiveUp(c)
        PROVE  /\ UNCHANGED <<purchaseTopic, sales>>
               /\ forgone' = forgone \/ \E x : forgone' = forgone \union {<<c, x>>}
    BY <2>1 DEF GiveUp, Fault
  <2> QED
    BY <2>1 DEF LoyaltyNext, loyaltyVars, RegisterMember, BuildChainFor, BuildChainFails, Reconcile, Settle, ReadTree, CreditNode,
           RetryMessage, Redeliver, Fault
<1>6. CASE /\ UNCHANGED <<purchaseTopic, sales>>
           /\ \/ forgone' = forgone
              \/ \E m \in Members : forgone' = forgone \union {<<"chain", m>>}
              \/ \E c \in Consumers : \E x : forgone' = forgone \union {<<c, x>>}
  <2>1. \A p, x : <<"event", p>> # <<"chain", x>>
    OBVIOUS
  <2>2. \A p, x : \A c \in Consumers : <<"event", p>> # <<c, x>>
    BY DEF Consumers
  <2>3. \A p : <<"event", p>> \in forgone' => <<"event", p>> \in forgone
    BY <1>6, <2>1, <2>2
  <2> QED
    BY <1>6, <2>3 DEF Said, SaidNext, Confirmed, ConfirmedNext
<1> QED
  BY <1>a, <1>2, <1>3, <1>4, <1>5, <1>6

-----------------------------------------------------------------------------
\* A tree is read for the message at hand, and one with no node is done with.
LEMMA ReadTreeTakes ==
    ASSUME LoyaltyInv, ReadTree
    PROVE  /\ HasMessage("referral") /\ crediting = Nothing
           /\ UNCHANGED <<people, sales, cfa, bonuses, purchaseTopic, forgone>>
           /\ \/ /\ crediting' = crediting /\ Marked("referral")
                 /\ Message("referral")[1] = "confirmed" => Tree(sales[Message("referral")[2]].buyer) = {}
              \/ \E p \in DOMAIN sales :
                    /\ Message("referral") = <<"confirmed", p>> /\ Confirmed(p) /\ UNCHANGED position
                    /\ crediting' = [sale |-> p, nodes |-> Tree(sales[p].buyer)]
<1> DEFINE p == Message("referral")[2]
           type == Message("referral")[1]
<1>1. /\ HasMessage("referral") /\ crediting = Nothing
      /\ UNCHANGED <<people, sales, cfa, bonuses, purchaseTopic, forgone>>
      /\ \/ /\ crediting' = crediting /\ Marked("referral")
            /\ type = "confirmed" => Tree(sales[p].buyer) = {}
         \/ type = "confirmed" /\ crediting' = [sale |-> p, nodes |-> Tree(sales[p].buyer)] /\ UNCHANGED position
  BY DEF ReadTree
<1>2. Message("referral") = <<type, p>> /\ p \in DOMAIN sales /\ (type = "confirmed" => Confirmed(p))
  BY <1>1, MessageIs DEF LoyaltyInv, Consumers
<1> HIDE DEF p, type
<1> QED
  BY <1>1, <1>2 DEF p, type

\* The message that a tree was read for stays at hand while the tree is gone through.
LEMMA AtHand ==
    ASSUME LoyaltyInv, EventsInv, [LoyaltyNext]_loyaltyVars, crediting' # Nothing
    PROVE  Message("referral")' = <<"confirmed", crediting'.sale>>
<1>0. SalesInv /\ DOMAIN purchaseTopic \subseteq DOMAIN purchaseTopic' /\ \A i \in DOMAIN purchaseTopic : purchaseTopic'[i] = purchaseTopic[i]
  BY TopicGrows DEF LoyaltyInv
<1>1. ASSUME position'["referral"] = position["referral"], HasMessage("referral"), NEW p, Message("referral") = <<"confirmed", p>>
      PROVE  Message("referral")' = <<"confirmed", p>>
  BY <1>0, <1>1, MessageIs DEF Message, Consumers
<1>2. crediting # Nothing => HasMessage("referral")
  BY DEF LoyaltyInv, BonusInv, HasMessage
<1>3. CASE UNCHANGED crediting /\ (position'["referral"] = position["referral"] \/ crediting = Nothing)
  BY <1>1, <1>2, <1>3 DEF EventsInv
<1>4. CASE ReadTree
  <2>1. HasMessage("referral") /\ crediting = Nothing
    BY <1>4, ReadTreeTakes
  <2>2. PICK p \in DOMAIN sales : Message("referral") = <<"confirmed", p>> /\ UNCHANGED position
                                  /\ crediting' = [sale |-> p, nodes |-> Tree(sales[p].buyer)]
    BY <1>4, <2>1, ReadTreeTakes
  <2>3. crediting'.sale = p
    BY <2>2
  <2> QED
    BY <1>1, <2>1, <2>2, <2>3
<1>5. ASSUME NEW n \in crediting.nodes, CreditNode(n) PROVE Message("referral")' = <<"confirmed", crediting'.sale>>
  <2>1. crediting # Nothing /\ position' = position /\ crediting' = [sale |-> crediting.sale, nodes |-> crediting.nodes \ {n}]
    BY <1>5, CreditNodeDoes
  <2>2. crediting'.sale = crediting.sale
    BY <2>1
  <2> QED
    BY <1>1, <1>2, <2>1, <2>2 DEF EventsInv
<1> QED
  BY <1>3, <1>4, <1>5, CreditSteps

LEMMA EventsKept == ASSUME LoyaltyInv, EventsInv, [LoyaltyNext]_loyaltyVars PROVE EventsInv'
<1>0. SalesInv /\ BonusInv
  BY DEF LoyaltyInv
<1>s. \A p : Said(p)' <=> SaidNext(p)
  BY DEF Said, SaidNext
<1>c. \A p : Confirmed(p)' <=> ConfirmedNext(p)
  BY DEF Confirmed, ConfirmedNext
<1>g. \A p : Said(p) => SaidNext(p)
  BY SaysNew
<1>1. (\A p \in DOMAIN sales' : ConfirmedNext(p) => <<"event", p>> \in forgone' \/ SaidNext(p))
  <2>1. forgone \subseteq forgone' /\ \A p : Confirmed(p) => <<"event", p>> \in forgone' \/ SaidNext(p)
    BY <1>g, ForgoneGrows DEF EventsInv, Confirmed
  <2> QED
    BY <2>1, SaysNew
<1>2. \A p : <<"event", p>> \in forgone' => ConfirmedNext(p) /\ ~SaidNext(p)
  <2>0. \A p : Confirmed(p) => ConfirmedNext(p)
    BY <1>0, SalesGrow
  <2>1. CASE /\ \A p : SaidNext(p) => Said(p)
             /\ \A p : <<"event", p>> \in forgone' => <<"event", p>> \in forgone
    BY <2>0, <2>1 DEF EventsInv
  <2>2. ASSUME NEW q \in DOMAIN sales, ~Confirmed(q), ConfirmedNext(q),
               \/ forgone' = forgone /\ \A p : SaidNext(p) => Said(p) \/ p = q
               \/ purchaseTopic' = purchaseTopic /\ forgone' = forgone \union {<<"event", q>>}
        PROVE  \A p : <<"event", p>> \in forgone' => ConfirmedNext(p) /\ ~SaidNext(p)
    <3>1. ~Said(q)
      BY <1>0, <2>2 DEF Said, SalesInv
    <3>2. CASE forgone' = forgone /\ \A p : SaidNext(p) => Said(p) \/ p = q
      BY <2>0, <2>2, <3>2 DEF EventsInv
    <3>3. CASE purchaseTopic' = purchaseTopic /\ forgone' = forgone \union {<<"event", q>>}
      <4>1. \A p : SaidNext(p) => Said(p)
        BY <3>3 DEF Said, SaidNext
      <4>2. \A p : <<"event", p>> \in forgone' => <<"event", p>> \in forgone \/ p = q
        BY <3>3
      <4> QED
        BY <2>0, <2>2, <3>1, <4>1, <4>2 DEF EventsInv
    <3> QED
      BY <2>2, <3>2, <3>3
  <2> QED
    BY <2>1, <2>2, SaysNew
<1>3. \A p \in DOMAIN settlements' : SaidNext(p)
  <2>0. \A p \in DOMAIN settlements : SaidNext(p)
    BY <1>g DEF EventsInv
  <2>1. CASE DOMAIN settlements' = DOMAIN settlements
    BY <2>0, <2>1
  <2>2. CASE Settle
    <3> DEFINE q == Message("cfa")[2]
    <3>1. settlements' = settlements \/ (Message("cfa")[1] = "confirmed" /\ settlements' = Put(settlements, q, "created"))
      BY <2>2 DEF Settle
    <3>2. Message("cfa")[1] = "confirmed" => SaidNext(q)
      BY <1>0, <1>g, <2>2, MessageIs DEF Settle, Consumers
    <3> HIDE DEF q
    <3> QED
      BY <2>0, <3>1, <3>2 DEF Put
  <2>3. DOMAIN settlements' = DOMAIN settlements \/ Settle
    BY DEF LoyaltyNext, loyaltyVars, RegisterMember, BuildChainFor, BuildChainFails, CreatePurchase, RequestConfirm, OnPurchase,
           ReadTree, CreditNode, RetryMessage, GiveUp, Redeliver, Fault, cfa, Reconcile
  <2> QED
    BY <2>1, <2>2, <2>3
<1>4. \A b \in bonuses' : SaidNext(b[1])
  <2>0. \A b \in bonuses : SaidNext(b[1])
    BY <1>g DEF EventsInv
  <2>1. CASE bonuses' = bonuses
    BY <2>0, <2>1
  <2>2. ASSUME NEW n \in crediting.nodes, CreditNode(n) PROVE \A b \in bonuses' : SaidNext(b[1])
    <3>1. crediting # Nothing /\ bonuses' = bonuses \union {<<crediting.sale, n[1], n[2]>>}
      BY <2>2, CreditNodeDoes
    <3>2. HasMessage("referral") /\ Message("referral") = <<"confirmed", crediting.sale>>
      BY <1>0, <3>1 DEF EventsInv, BonusInv, HasMessage
    <3>3. Said(crediting.sale)
      BY <1>0, <3>2, MessageIs DEF Consumers
    <3> QED
      BY <1>g, <2>0, <3>1, <3>3
  <2> QED
    BY <2>1, <2>2, CreditSteps, ReadTreeDoes
<1>5. crediting' # Nothing => Message("referral")' = <<"confirmed", crediting'.sale>>
  BY AtHand
<1> QED
  BY <1>1, <1>2, <1>3, <1>4, <1>5, <1>s, <1>c DEF EventsInv, Nothing

LEMMA RowsKept == ASSUME LoyaltyInv, RowsInv, [LoyaltyNext]_loyaltyVars PROVE RowsInv'
<1>0. /\ ChainsInv /\ Grown(referredBy) /\ DOMAIN referredBy \subseteq DOMAIN referredBy' /\ DOMAIN referredBy' \subseteq Members
      /\ \A x \in DOMAIN referredBy : referredBy'[x] = referredBy[x]
  BY PeopleGrow, ChainsKept, GrownNow DEF LoyaltyInv, ChainsInv
<1>a. \A m \in DOMAIN referredBy : AncestorsIn(referredBy', m) = AncestorsIn(referredBy, m)
  BY <1>0, LineSame
<1>r. \A c \in chains : <<c[2], c[3]>> \in AncestorsIn(referredBy', c[1])
  BY <1>0, <1>a, LinesAre DEF RowsInv, ChainsInv
<1> DEFINE RowsOf(cs) == \A c \in cs : <<c[2], c[3]>> \in AncestorsIn(referredBy', c[1])
           FirstRow(m) == m \in unchained' \/ <<"chain", m>> \in forgone' \/ <<m, referredBy'[m], 1>> \in chains'
<1>q. SUFFICES RowsOf(chains') /\ \A m \in DOMAIN referredBy' : referredBy'[m] # 0 => FirstRow(m)
  BY LinesAre DEF RowsInv
<1>1. CASE UNCHANGED people
  <2>1. forgone \subseteq forgone'
    BY ForgoneGrows
  <2> QED
    BY <1>1, <1>r, <2>1 DEF people, RowsInv
<1>2. ASSUME NEW r, RegisterMember(r) PROVE RowsOf(chains') /\ \A m \in DOMAIN referredBy' : referredBy'[m] # 0 => FirstRow(m)
  <2>1. PICK k : /\ referredBy' = Put(referredBy, k, r) /\ chains' = chains /\ forgone' = forgone
                 /\ unchained' = IF r = 0 THEN unchained ELSE unchained \union {k}
    BY <1>2 DEF RegisterMember
  <2>2. \A m \in DOMAIN referredBy' : m \in DOMAIN referredBy \/ m = k
    BY <2>1 DEF Put
  <2>3. ASSUME NEW m \in DOMAIN referredBy', referredBy'[m] # 0 PROVE FirstRow(m)
    <3>1. CASE m \in DOMAIN referredBy
      BY <1>0, <2>1, <2>3, <3>1 DEF RowsInv
    <3>2. CASE m = k
      BY <2>1, <2>3, <3>2 DEF Put
    <3> QED
      BY <2>2, <3>1, <3>2
  <2> QED
    BY <1>r, <2>1, <2>3
<1>3. ASSUME NEW m \in Members, BuildChainFor(m) PROVE RowsOf(chains') /\ \A x \in DOMAIN referredBy' : referredBy'[x] # 0 => FirstRow(x)
  <2>1. /\ m \in unchained /\ chains' = chains \union {<<m, a[1], a[2]>> : a \in Ancestors(m)}
        /\ unchained' = unchained \ {m} /\ referredBy' = referredBy /\ forgone' = forgone
    BY <1>3 DEF BuildChainFor
  <2>2. m \in DOMAIN referredBy /\ referredBy[m] # 0
    BY <1>0, <2>1 DEF ChainsInv
  <2>3. <<referredBy[m], 1>> \in Ancestors(m)
    BY <1>0, <2>2 DEF Ancestors, Up, ChainsInv
  <2>4. <<m, referredBy[m], 1>> \in chains'
    BY <2>1, <2>3
  <2>5. \A x \in DOMAIN referredBy' : referredBy'[x] # 0 => FirstRow(x)
    BY <2>1, <2>4 DEF RowsInv
  <2>6. \A a \in Ancestors(m) : a = <<a[1], a[2]>>
    BY DEF Ancestors
  <2>7. \A a \in Ancestors(m) : <<a[1], a[2]>> \in AncestorsIn(referredBy', m)
    BY <2>1, <2>6, LinesAre
  <2>8. RowsOf(chains')
    <3> SUFFICES ASSUME NEW c \in chains' PROVE <<c[2], c[3]>> \in AncestorsIn(referredBy', c[1])
      OBVIOUS
    <3>1. CASE c \in chains
      BY <1>r, <3>1
    <3>2. ASSUME NEW a \in Ancestors(m), c = <<m, a[1], a[2]>> PROVE <<c[2], c[3]>> \in AncestorsIn(referredBy', c[1])
      BY <2>7, <3>2
    <3> QED
      BY <2>1, <3>1, <3>2
  <2> QED
    BY <2>5, <2>8
<1>4. ASSUME NEW m \in Members, BuildChainFails(m) PROVE RowsOf(chains') /\ \A x \in DOMAIN referredBy' : referredBy'[x] # 0 => FirstRow(x)
  <2>1. /\ chains' = chains /\ unchained' = unchained \ {m} /\ referredBy' = referredBy /\ forgone' = forgone \union {<<"chain", m>>}
    BY <1>4 DEF BuildChainFails
  <2> QED
    BY <1>r, <2>1 DEF RowsInv
<1>5. \/ UNCHANGED people \/ \E r \in DOMAIN referredBy \union {0} : RegisterMember(r)
      \/ \E m \in Members : BuildChainFor(m) \/ BuildChainFails(m)
  BY DEF LoyaltyNext, loyaltyVars, CreatePurchase, RequestConfirm, Reconcile, OnPurchase,
         Settle, ReadTree, CreditNode, RetryMessage, GiveUp, Redeliver, Fault, people
<1> HIDE DEF RowsOf, FirstRow
<1> QED
  BY <1>1, <1>2, <1>3, <1>4, <1>5

-----------------------------------------------------------------------------
\* Who stands above a buyer does so for good.
LEMMA BuyersStand ==
    ASSUME LoyaltyInv, [LoyaltyNext]_loyaltyVars, NEW p, Confirmed(p) \/ p \in DOMAIN sales
    PROVE  /\ sales'[p].buyer = sales[p].buyer /\ sales[p].buyer \in DOMAIN referredBy
           /\ LineIn(referredBy', sales'[p].buyer) = LineIn(referredBy, sales[p].buyer)
           /\ \A n : AboveIn(referredBy, n, sales[p].buyer) => AboveIn(referredBy', n, sales'[p].buyer)
<1>1. p \in DOMAIN sales /\ SalesInv /\ ChainsInv
  BY DEF Confirmed, LoyaltyInv
<1>2. sales'[p].buyer = sales[p].buyer /\ sales[p].buyer \in DOMAIN referredBy
  BY <1>1, SalesGrow DEF SalesInv
<1>3. /\ Grown(referredBy) /\ DOMAIN referredBy \subseteq DOMAIN referredBy' /\ DOMAIN referredBy' \subseteq Members
      /\ \A x \in DOMAIN referredBy : referredBy'[x] = referredBy[x]
  BY <1>1, PeopleGrow, ChainsKept, GrownNow DEF LoyaltyInv, ChainsInv
<1> QED
  BY <1>2, <1>3, LineSame

\* Chains that are complete after a step were so before it, if something was confirmed.
LEMMA CompleteBack ==
    ASSUME LoyaltyInv, [LoyaltyNext]_loyaltyVars, ChainsComplete', NEW p, Confirmed(p)
    PROVE  ChainsComplete
BY ForgoneGrows, SalesGrow DEF LoyaltyInv

LEMMA LevelsKept == ASSUME LoyaltyInv, RowsInv, LevelsInv, [LoyaltyNext]_loyaltyVars PROVE LevelsInv'
<1> DEFINE Good(b) == /\ AboveIn(referredBy', <<b[2], b[3]>>, sales'[b[1]].buyer)
                      /\ ChainsComplete' => b[3] = 1
           Tied == crediting' # Nothing =>
             /\ \A n \in crediting'.nodes : /\ AboveIn(referredBy', n, sales'[crediting'.sale].buyer)
                                            /\ ChainsComplete' => n[2] = 1
             /\ ChainsComplete' => \A r \in LineIn(referredBy', sales'[crediting'.sale].buyer) :
                  <<r, 1>> \in crediting'.nodes \/ <<crediting'.sale, r, 1>> \in bonuses'
<1>0. BonusInv /\ SalesInv /\ ChainsInv
  BY DEF LoyaltyInv
<1>q. SUFFICES (\A b \in bonuses' : Good(b)) /\ Tied
  BY DEF LevelsInv, Nothing
<1>b. \A b \in bonuses : Good(b)
  <2> SUFFICES ASSUME NEW b \in bonuses PROVE Good(b)
    OBVIOUS
  <2>1. Confirmed(b[1])
    BY <1>0 DEF BonusInv
  <2>2. AboveIn(referredBy', <<b[2], b[3]>>, sales'[b[1]].buyer)
    BY <2>1, BuyersStand DEF LevelsInv
  <2>3. ChainsComplete' => b[3] = 1
    BY <2>1, CompleteBack DEF LevelsInv
  <2> QED
    BY <2>2, <2>3
<1>1. CASE crediting' = Nothing /\ bonuses' = bonuses
  BY <1>1, <1>b
<1>2. CASE crediting' = crediting /\ bonuses' = bonuses
  <2>1. CASE crediting = Nothing
    BY <1>1, <1>2, <2>1
  <2>2. CASE crediting # Nothing
    <3>1. Confirmed(crediting.sale)
      BY <1>0, <2>2 DEF BonusInv
    <3>2. /\ LineIn(referredBy', sales'[crediting.sale].buyer) = LineIn(referredBy, sales[crediting.sale].buyer)
          /\ \A n : AboveIn(referredBy, n, sales[crediting.sale].buyer) => AboveIn(referredBy', n, sales'[crediting.sale].buyer)
          /\ ChainsComplete' => ChainsComplete
      BY <3>1, BuyersStand, CompleteBack
    <3>3. Tied
      BY <1>2, <2>2, <3>2 DEF LevelsInv
    <3> HIDE DEF Tied, Good
    <3> QED
      BY <1>2, <1>b, <3>3
  <2> QED
    BY <2>1, <2>2
<1>3. CASE ReadTree
  <2>1. crediting = Nothing /\ UNCHANGED <<people, sales, bonuses, forgone>>
    BY <1>3, ReadTreeTakes
  <2>2. CASE crediting' = crediting
    BY <1>2, <2>1, <2>2
  <2>3. ASSUME NEW p \in DOMAIN sales, Confirmed(p), crediting' = [sale |-> p, nodes |-> Tree(sales[p].buyer)] PROVE Tied
    <3>1. sales[p].buyer \in DOMAIN referredBy
      BY <1>0 DEF SalesInv
    <3> DEFINE T == Tree(sales[p].buyer)
    <3>2. /\ \A n \in T : AboveIn(referredBy, n, sales[p].buyer)
          /\ ChainsComplete => /\ \A n \in T : n[2] = 1
                               /\ \A r \in LineIn(referredBy, sales[p].buyer) : <<r, 1>> \in T
      BY <1>0, <3>1, TreeWhole
    <3>3. referredBy' = referredBy /\ sales' = sales /\ (ChainsComplete' => ChainsComplete)
      BY <2>1 DEF people, ChainsComplete
    <3>4. crediting'.sale = p /\ crediting'.nodes = T
      BY <2>3
    <3> HIDE DEF T
    <3> QED
      BY <3>2, <3>3, <3>4
  <2> HIDE DEF Tied, Good
  <2> QED
    BY <1>3, <1>b, <2>1, <2>2, <2>3, ReadTreeTakes
<1>4. ASSUME NEW n \in crediting.nodes, CreditNode(n) PROVE (\A b \in bonuses' : Good(b)) /\ Tied
  <2> DEFINE s == crediting.sale
             bonus == <<s, n[1], n[2]>>
  <2>1. /\ crediting # Nothing /\ Confirmed(s) /\ n \in Members \X (1 .. 3)
        /\ UNCHANGED <<people, sales>> /\ bonuses' = bonuses \union {bonus}
        /\ \/ crediting' = Nothing
           \/ crediting' = [sale |-> s, nodes |-> crediting.nodes \ {n}]
    BY <1>4, CreditNodeDoes
  <2>2. forgone' = forgone /\ referredBy' = referredBy /\ sales' = sales /\ (ChainsComplete' <=> ChainsComplete)
    BY <1>4, <2>1 DEF CreditNode, people, ChainsComplete
  <2>3. bonus[1] = s /\ <<bonus[2], bonus[3]>> = n /\ bonus[3] = n[2]
    BY <2>1
  <2>4. /\ \A o \in crediting.nodes : /\ AboveIn(referredBy, o, sales[s].buyer)
                                      /\ ChainsComplete => o[2] = 1
        /\ ChainsComplete => \A r \in LineIn(referredBy, sales[s].buyer) :
             <<r, 1>> \in crediting.nodes \/ <<s, r, 1>> \in bonuses
    BY <2>1 DEF LevelsInv
  <2>5. \A r : <<r, 1>> = n => bonus = <<s, r, 1>>
    BY <2>1
  <2> HIDE DEF bonus
  <2>6. Good(bonus)
    BY <2>2, <2>3, <2>4
  <2>7. \A b \in bonuses' : Good(b)
    <3> HIDE DEF Good
    <3> QED
      BY <1>b, <2>1, <2>6
  <2>8. CASE crediting' = [sale |-> s, nodes |-> crediting.nodes \ {n}]
    <3>1. crediting'.sale = s /\ crediting'.nodes = crediting.nodes \ {n}
      BY <2>8
    <3> HIDE DEF s
    <3>2. Tied
      BY <2>1, <2>2, <2>4, <2>5, <3>1
    <3> QED
      BY <2>7, <3>2
  <2> HIDE DEF Good
  <2> QED
    BY <2>1, <2>7, <2>8
<1> HIDE DEF Good, Tied
<1> QED
  BY <1>1, <1>2, <1>3, <1>4, CreditSteps

\* A consumer that goes through no message keeps what it has ahead; the message it goes
\* through is the only one that it can leave behind.
LEMMA AheadKept ==
    ASSUME LoyaltyInv, [LoyaltyNext]_loyaltyVars, NEW c \in Consumers, NEW p, Ahead(c, p)
    PROVE  \/ Ahead(c, p)'
           \/ HasMessage(c) /\ Message(c) = <<"confirmed", p>> /\ position'[c] = position[c] + 1
<1>0. /\ SalesInv /\ DOMAIN purchaseTopic \subseteq DOMAIN purchaseTopic'
      /\ \A i \in DOMAIN purchaseTopic : purchaseTopic'[i] = purchaseTopic[i]
  BY TopicGrows DEF LoyaltyInv
<1>1. purchaseTopic \in Seq(Messages \X DOMAIN sales) /\ position \in [Consumers -> Nat \ {0}]
  BY <1>0 DEF SalesInv
<1>2. PICK i \in DOMAIN purchaseTopic : position[c] <= i /\ purchaseTopic[i] = <<"confirmed", p>>
  BY DEF Ahead
<1>3. i \in Nat /\ i <= Len(purchaseTopic)
  BY <1>1
<1>4. PICK d \in Consumers : Moved(d)
  BY StepMoves
<1>5. CASE position'[c] <= position[c]
  <2>1. position'[c] <= i
    <3>1. position'[c] \in Nat
      BY SalesKept DEF SalesInv
    <3> QED
      BY <1>1, <1>2, <1>3, <1>5, <3>1
  <2> QED
    BY <1>0, <1>2, <2>1 DEF Ahead
<1>6. CASE position'[c] = position[c] + 1
  <2>1. CASE i = position[c]
    BY <1>1, <1>2, <1>3, <1>6, <2>1 DEF HasMessage, Message
  <2>2. CASE i # position[c]
    <3>1. position'[c] <= i
      BY <1>1, <1>2, <1>3, <1>6, <2>2
    <3> QED
      BY <1>0, <1>2, <3>1 DEF Ahead
  <2> QED
    BY <2>1, <2>2
<1>7. position'[c] <= position[c] \/ position'[c] = position[c] + 1
  <2>0. position[c] \in Nat /\ position[d] \in Nat
    BY <1>1
  <2>1. CASE position' = position
    BY <2>0, <2>1
  <2>2. CASE position' = [position EXCEPT ![d] = @ + 1]
    BY <1>1, <2>0, <2>2
  <2>3. ASSUME NEW back \in 1 .. position[d], position' = [position EXCEPT ![d] = back]
        PROVE  position'[c] <= position[c]
    BY <1>1, <2>0, <2>3
  <2> QED
    BY <1>4, <2>1, <2>2, <2>3 DEF Moved
<1> QED
  BY <1>5, <1>6, <1>7

\* A consumer goes through a message by handling it, or gives it up.
LEMMA MovesOn ==
    ASSUME LoyaltyInv, [LoyaltyNext]_loyaltyVars, NEW c \in Consumers, position'[c] = position[c] + 1
    PROVE  \/ GiveUp(c)
           \/ c = "promo" /\ OnPurchase
           \/ c = "cfa" /\ Settle
           \/ c = "referral" /\ (ReadTree \/ \E n \in crediting.nodes : CreditNode(n))
<1>0. position \in [Consumers -> Nat \ {0}]
  BY DEF LoyaltyInv, SalesInv
<1>1. UNCHANGED position => FALSE
  BY <1>0
<1>2. ASSUME NEW d \in Consumers, Marked(d) PROVE d = c
  BY <1>0, <1>2 DEF Marked
<1>3. ASSUME NEW d \in Consumers, Redeliver(d) PROVE FALSE
  <2>1. PICK back \in 1 .. position[d] : position' = [position EXCEPT ![d] = back]
    BY <1>3 DEF Redeliver
  <2>2. back <= position[d] /\ back \in Nat /\ position[d] \in Nat /\ position[c] \in Nat
    BY <1>0, <2>1
  <2>3. position'[c] <= position[c]
    BY <1>0, <2>1, <2>2
  <2> QED
    BY <2>2, <2>3
<1>4. ASSUME NEW d \in Consumers, GiveUp(d) PROVE d = c
  BY <1>2, <1>4 DEF GiveUp
<1>5. OnPurchase => c = "promo"
  BY <1>2 DEF OnPurchase, Consumers
<1>6. Settle => c = "cfa"
  BY <1>2 DEF Settle, Consumers
<1>7. ReadTree => c = "referral"
  BY <1>1, <1>2 DEF ReadTree, Consumers
<1>8. \A n : CreditNode(n) => c = "referral"
  BY <1>1, <1>2 DEF CreditNode, Consumers
<1>9. [LoyaltyNext]_loyaltyVars =>
        \/ UNCHANGED position \/ ReadTree \/ OnPurchase \/ Settle
        \/ (\E d \in Consumers : GiveUp(d) \/ Redeliver(d))
        \/ \E n \in crediting.nodes : CreditNode(n)
  BY DEF LoyaltyNext, loyaltyVars, RegisterMember, BuildChainFor, BuildChainFails, CreatePurchase, RequestConfirm, Reconcile, RetryMessage
<1> QED
  BY <1>1, <1>3, <1>4, <1>5, <1>6, <1>7, <1>8, <1>9

-----------------------------------------------------------------------------
\* A new confirmation is ahead of the consumers of money.
LEMMA NewAhead ==
    ASSUME LoyaltyInv, [LoyaltyNext]_loyaltyVars, NEW p, SaidNext(p), ~Said(p), NEW c \in {"cfa", "referral"}
    PROVE  Ahead(c, p)'
<1>0. SalesInv /\ position \in [Consumers -> Nat \ {0}] /\ c \in Consumers /\ c # "promo" /\ purchaseTopic \in Seq(Messages \X DOMAIN sales)
  BY DEF LoyaltyInv, SalesInv, Consumers
<1>1. OnPurchase /\ purchaseTopic' = Append(purchaseTopic, <<"confirmed", p>>)
  <2>1. purchaseTopic' # purchaseTopic
    BY DEF Said, SaidNext
  <2> QED
    BY <2>1, SaysNew
<1>2. position'[c] = position[c]
  BY <1>0, <1>1 DEF OnPurchase, Marked, Consumers
<1>3. /\ Len(purchaseTopic) + 1 \in DOMAIN purchaseTopic' /\ purchaseTopic'[Len(purchaseTopic) + 1] = <<"confirmed", p>>
      /\ position[c] <= Len(purchaseTopic) + 1
  BY <1>0, <1>1, TopicAppend
<1> QED
  BY <1>2, <1>3 DEF Ahead

LEMMA PaidKept == ASSUME MoneyInv, [LoyaltyNext]_loyaltyVars PROVE PaidInv'
<1> DEFINE Paid(p) == ChainsComplete => \A r \in LineIn(referredBy, sales[p].buyer) : <<p, r, 1>> \in bonuses
           PaidNext(p) == ChainsComplete' => \A r \in LineIn(referredBy', sales'[p].buyer) : <<p, r, 1>> \in bonuses'
<1>0. LoyaltyInv /\ SalesInv /\ EventsInv /\ RowsInv /\ LevelsInv /\ PaidInv /\ ChainsInv
  BY DEF MoneyInv, LoyaltyInv
<1>i. position \in [Consumers -> Nat \ {0}]
  BY <1>0 DEF SalesInv
<1>f. forgone \subseteq forgone'
  BY <1>0, ForgoneGrows
<1>s. DOMAIN settlements \subseteq DOMAIN settlements'
  BY DEF LoyaltyNext, loyaltyVars, RegisterMember, BuildChainFor, BuildChainFails, CreatePurchase, RequestConfirm, OnPurchase,
         ReadTree, CreditNode, RetryMessage, GiveUp, Redeliver, Fault, cfa, Settle, Reconcile, Put
<1>b. bonuses \subseteq bonuses'
  BY <1>0, CreditSteps, ReadTreeDoes, CreditNodeDoes
<1> SUFFICES ASSUME NEW p, SaidNext(p)
             PROVE  /\ p \in DOMAIN settlements' \/ <<"cfa", p>> \in forgone' \/ Ahead("cfa", p)'
                    /\ <<"referral", p>> \in forgone' \/ Ahead("referral", p)' \/ PaidNext(p)
  BY DEF PaidInv, Said, SaidNext
<1>1. CASE ~Said(p)
  BY <1>0, <1>1, NewAhead
<1>2. CASE Said(p)
  <2>1. Confirmed(p) /\ p \in DOMAIN sales
    BY <1>0, <1>2 DEF Said, SalesInv, Confirmed
  <2>g. ASSUME NEW c \in Consumers, HasMessage(c), Message(c) = <<"confirmed", p>>, GiveUp(c)
        PROVE  <<c, p>> \in forgone'
    BY <2>g DEF GiveUp
  <2>2. ASSUME Ahead("cfa", p) PROVE p \in DOMAIN settlements' \/ <<"cfa", p>> \in forgone' \/ Ahead("cfa", p)'
    <3>1. CASE HasMessage("cfa") /\ Message("cfa") = <<"confirmed", p>> /\ position'["cfa"] = position["cfa"] + 1
      <4>1. GiveUp("cfa") \/ Settle
        BY <1>0, <3>1, MovesOn DEF Consumers
      <4>2. CASE Settle
        <5>1. Message("cfa")[1] = "confirmed" /\ Message("cfa")[2] = p
          BY <3>1
        <5> QED
          BY <1>s, <4>2, <5>1 DEF Settle, Put
      <4>3. CASE GiveUp("cfa")
        BY <2>g, <3>1, <4>3 DEF Consumers
      <4> QED
        BY <4>1, <4>2, <4>3
    <3> QED
      BY <1>0, <2>2, <3>1, AheadKept DEF Consumers
  <2>3. ASSUME Paid(p) PROVE PaidNext(p)
    <3>1. LineIn(referredBy', sales'[p].buyer) = LineIn(referredBy, sales[p].buyer) /\ (ChainsComplete' => ChainsComplete)
      BY <1>0, <2>1, BuyersStand, CompleteBack
    <3> QED
      BY <1>b, <2>3, <3>1
  <2>4. ASSUME Ahead("referral", p) PROVE <<"referral", p>> \in forgone' \/ Ahead("referral", p)' \/ PaidNext(p)
    <3>1. CASE HasMessage("referral") /\ Message("referral") = <<"confirmed", p>> /\ position'["referral"] = position["referral"] + 1
      <4>m. Message("referral")[1] = "confirmed" /\ Message("referral")[2] = p /\ position' # position
        BY <1>i, <3>1 DEF Consumers
      <4>1. GiveUp("referral") \/ ReadTree \/ \E n \in crediting.nodes : CreditNode(n)
        BY <1>0, <3>1, MovesOn DEF Consumers
      <4>2. CASE GiveUp("referral")
        BY <2>g, <3>1, <4>2 DEF Consumers
      <4>3. CASE ReadTree
        <5>1. Tree(sales[p].buyer) = {}
          BY <1>0, <4>3, <4>m, ReadTreeTakes
        <5>2. sales[p].buyer \in DOMAIN referredBy
          BY <1>0, <2>1 DEF SalesInv
        <5>3. ChainsComplete => LineIn(referredBy, sales[p].buyer) = {}
          BY <1>0, <5>1, <5>2, TreeWhole
        <5> QED
          BY <2>3, <5>3
      <4>4. ASSUME NEW n \in crediting.nodes, CreditNode(n) PROVE PaidNext(p)
        <5>1. /\ crediting # Nothing /\ crediting.nodes = {n} /\ n \in Members \X (1 .. 3)
              /\ bonuses' = bonuses \union {<<crediting.sale, n[1], n[2]>>}
              /\ UNCHANGED <<people, sales>> /\ forgone' = forgone
          BY <1>0, <4>4, <4>m, CreditNodeDoes DEF CreditNode
        <5>2. crediting.sale = p
          <6>1. Message("referral") = <<"confirmed", crediting.sale>>
            BY <1>0, <5>1 DEF EventsInv
          <6> QED
            BY <4>m, <6>1
        <5>3. ChainsComplete => \A r \in LineIn(referredBy, sales[p].buyer) : <<r, 1>> = n \/ <<p, r, 1>> \in bonuses
          BY <1>0, <5>1, <5>2 DEF LevelsInv
        <5>4. \A r : <<r, 1>> = n => <<p, r, 1>> \in bonuses'
          BY <5>1, <5>2
        <5>5. referredBy' = referredBy /\ sales' = sales /\ (ChainsComplete' => ChainsComplete)
          BY <5>1 DEF people, ChainsComplete
        <5> QED
          BY <1>b, <5>3, <5>4, <5>5
      <4> QED
        BY <4>1, <4>2, <4>3, <4>4
    <3> QED
      BY <1>0, <2>4, <3>1, AheadKept DEF Consumers
  <2>5. /\ p \in DOMAIN settlements \/ <<"cfa", p>> \in forgone \/ Ahead("cfa", p)
        /\ <<"referral", p>> \in forgone \/ Ahead("referral", p) \/ Paid(p)
    BY <1>0, <1>2, <2>1 DEF PaidInv
  <2> HIDE DEF Paid, PaidNext
  <2> QED
    BY <1>f, <1>s, <2>2, <2>3, <2>4, <2>5
<1> QED
  BY <1>1, <1>2

LEMMA MoneyStart == ASSUME LoyaltyInit PROVE MoneyInv
<1>1. LoyaltyInv
  BY LoyaltyStart
<1>2. /\ purchaseTopic = <<>> /\ DOMAIN sales = {} /\ DOMAIN settlements = {} /\ bonuses = {} /\ crediting = Nothing
      /\ forgone = {} /\ chains = {} /\ DOMAIN referredBy = {}
  BY DEF LoyaltyInit
<1>3. ~\E p : Said(p)
  BY <1>2 DEF Said
<1> QED
  BY <1>1, <1>2, <1>3 DEF MoneyInv, EventsInv, RowsInv, LevelsInv, PaidInv

\* The invariant says what the run checks.
LEMMA LoyaltyGood == ASSUME MoneyInv PROVE LoyaltyLedger
<1>0. LoyaltyInv
  BY DEF MoneyInv
<1> USE <1>0
<1>1. LoyaltyTypeOK
  <2>1. \A c \in Consumers : position[c] \in 1 .. Len(purchaseTopic) + 1
    <3>1. purchaseTopic \in Seq(Messages \X DOMAIN sales) /\ position \in [Consumers -> Nat \ {0}]
          /\ \A c \in Consumers : position[c] <= Len(purchaseTopic) + 1
      BY DEF LoyaltyInv, SalesInv
    <3>2. Len(purchaseTopic) \in Nat
      BY <3>1
    <3> QED
      BY <3>1, <3>2
  <2>2. unchained \subseteq DOMAIN referredBy /\ DOMAIN referredBy \subseteq Members /\ chains \subseteq Members \X Members \X (1 .. 3)
    BY DEF LoyaltyInv, ChainsInv
  <2>3. DOMAIN sales \subseteq Sales /\ DOMAIN settlements \subseteq DOMAIN sales
    BY DEF LoyaltyInv, SalesInv, Confirmed
  <2> QED
    BY <2>1, <2>2, <2>3 DEF LoyaltyInv, BooksInv, BonusInv, LoyaltyTypeOK
<1>2. BooksBalance
  BY DEF LoyaltyInv, BooksInv, Settled, SalesInv, Confirmed, BooksBalance
<1>3. BonusesEarned
  <2>1. ASSUME NEW b \in bonuses
        PROVE  LET buyer == sales[b[1]].buyer
               IN  /\ sales[b[1]].status = "confirmed"
                   /\ b[2] \in Line(buyer)
                   /\ \E x \in Line(buyer) \union {buyer} : <<b[2], b[3]>> \in Ancestors(x)
                   /\ ChainsComplete => b[3] = 1
    <3>1. Confirmed(b[1]) /\ AboveIn(referredBy, <<b[2], b[3]>>, sales[b[1]].buyer) /\ (ChainsComplete => b[3] = 1)
      BY DEF MoneyInv, LoyaltyInv, BonusInv, LevelsInv
    <3> QED
      BY <3>1, LinesAre DEF Confirmed, AboveIn
  <2> QED
    BY <2>1 DEF LoyaltyInv, BoardInv, Firsts, BonusesEarned
<1>4. AllPaid
  <2> SUFFICES ASSUME NEW p \in DOMAIN sales
               PROVE  LET credited == {b \in bonuses : b[1] = p}
                          Handled(c) == sales[p].status = "confirmed" /\ ~HasMessage(c) /\ <<c, p>> \notin forgone
                      IN  /\ Handled("cfa") => (p \in DOMAIN settlements <=> <<"event", p>> \notin forgone)
                          /\ Handled("referral") /\ <<"event", p>> \notin forgone /\ ChainsComplete =>
                                Line(sales[p].buyer) \subseteq {b[2] : b \in credited}
                          /\ <<"event", p>> \in forgone => credited = {} /\ p \notin DOMAIN settlements
                          /\ (credited # {} /\ loyaltyFaults = 0 /\ crediting.sale # p) =>
                                <<p, referredBy[sales[p].buyer], 1>> \in credited
                          /\ ~lateChain => \A b, d \in credited : b[2] = d[2] => b = d
    BY DEF AllPaid
  <2>a. \A c \in Consumers : ~HasMessage(c) => ~Ahead(c, p)
    <3>1. purchaseTopic \in Seq(Messages \X DOMAIN sales) /\ position \in [Consumers -> Nat \ {0}]
      BY DEF LoyaltyInv, SalesInv
    <3> QED
      BY <3>1 DEF HasMessage, Ahead
  <2>b. EventsInv /\ PaidInv
    BY DEF MoneyInv
  <2>c. <<"event", p>> \in forgone => {b \in bonuses : b[1] = p} = {} /\ p \notin DOMAIN settlements
    BY <2>b DEF EventsInv
  <2>d. ASSUME sales[p].status = "confirmed", ~HasMessage("cfa"), <<"cfa", p>> \notin forgone
        PROVE  p \in DOMAIN settlements <=> <<"event", p>> \notin forgone
    <3>1. ~Ahead("cfa", p) /\ Confirmed(p)
      BY <2>a, <2>d DEF Consumers, Confirmed
    <3> QED
      BY <2>b, <2>c, <2>d, <3>1 DEF EventsInv, PaidInv
  <2>e. ASSUME sales[p].status = "confirmed", ~HasMessage("referral"), <<"referral", p>> \notin forgone,
               <<"event", p>> \notin forgone, ChainsComplete, NEW r \in Line(sales[p].buyer)
        PROVE  r \in {b[2] : b \in {b \in bonuses : b[1] = p}}
    <3>1. ~Ahead("referral", p) /\ Confirmed(p) /\ r \in LineIn(referredBy, sales[p].buyer)
      BY <2>a, <2>e, LinesAre DEF Consumers, Confirmed
    <3>2. <<p, r, 1>> \in bonuses
      BY <2>b, <2>e, <3>1 DEF EventsInv, PaidInv
    <3>3. <<p, r, 1>>[1] = p /\ <<p, r, 1>>[2] = r
      OBVIOUS
    <3> QED
      BY <3>2, <3>3
  <2>2. ASSUME NEW b \in bonuses, b[1] = p, loyaltyFaults = 0, crediting.sale # p
        PROVE  <<p, referredBy[sales[p].buyer], 1>> \in {d \in bonuses : d[1] = p}
    <3>1. <<p, referredBy[sales[p].buyer], 1>> \in bonuses
      BY <2>2 DEF LoyaltyInv, FirstsInv
    <3> QED
      BY <3>1
  <2>3. ASSUME ~lateChain, NEW b \in bonuses, NEW d \in bonuses, b[1] = p, d[1] = p, b[2] = d[2] PROVE b = d
    <3>1. sales[p].buyer \in DOMAIN referredBy
      BY DEF LoyaltyInv, SalesInv
    <3>2. <<b[2], b[3]>> \in Tree(sales[p].buyer) /\ <<d[2], d[3]>> \in Tree(sales[p].buyer)
      BY <2>3, TreeOf DEF LoyaltyInv, TreesInv
    <3>3. \A n, o \in Tree(sales[p].buyer) : n[1] = o[1] => n = o
      BY <3>1, TreeIs DEF LoyaltyInv
    <3>4. <<b[2], b[3]>> = <<d[2], d[3]>>
      BY <2>3, <3>2, <3>3
    <3>5. b \in Sales \X Members \X (1 .. 3) /\ d \in Sales \X Members \X (1 .. 3)
      BY DEF LoyaltyInv, BonusInv
    <3> QED
      BY <2>3, <3>4, <3>5
  <2> QED
    BY <2>2, <2>3, <2>c, <2>d, <2>e
<1> QED
  BY <1>1, <1>2, <1>3, <1>4 DEF LoyaltyLedger

\* However many messages are lost, repeated or given up, and however the consumers and the
\* reconciliation interleave: what the bank owes and what was reconciled are the commissions
\* of the settled purchases, each once; a confirmed purchase that no consumer gave up is settled
\* exactly if its event was published, and then, with all chains built, everybody above the
\* buyer is credited, at the first level and once (cfa_repo.go, referral_repo.go,
\* referral_handler.go, cfa_handler.go).
THEOREM LedgerHolds == LoyaltySpec => []LoyaltyLedger
<1>1. LoyaltyInit => MoneyInv
  BY MoneyStart
<1>2. MoneyInv /\ [LoyaltyNext]_loyaltyVars => MoneyInv'
  <2> SUFFICES ASSUME MoneyInv, [LoyaltyNext]_loyaltyVars PROVE MoneyInv'
    OBVIOUS
  <2>1. LoyaltyInv'
    BY ChainsKept, SalesKept, BooksKept, BonusKept, TreesKept, BoardKept, FirstsKept DEF MoneyInv, LoyaltyInv
  <2> QED
    BY <2>1, EventsKept, RowsKept, LevelsKept, PaidKept DEF MoneyInv
<1>3. MoneyInv => LoyaltyLedger
  BY LoyaltyGood
<1> QED
  BY <1>1, <1>2, <1>3, PTL DEF LoyaltySpec

(***************************************************************************)
(* Community (projects/04): likes, promo codes and streaks                 *)
(***************************************************************************)

\* A streak: whole numbers, and both its runs of days were visited.
Streaks == [current : Nat, longest : Nat, last : Nat]

EarnedBy(s, days) ==
  /\ \A d \in s.last - s.current + 1 .. s.last : s.last > 0 => d \in days
  /\ s.current <= s.longest
  /\ s.longest > 0 => \E d \in days : d .. d + s.longest - 1 \subseteq days

\* The inductive invariant: what is stored and whatever a replica has read was earned,
\* and the day on which it was read is a visited one.
StreaksInv ==
  /\ streak \in Streaks /\ EarnedBy(streak, visited)
  /\ read \in [Replicas -> [today : Nat, was : Streaks]]
  /\ \A r \in Replicas : EarnedBy(read[r].was, visited) /\ (read[r] # Unread => read[r].today \in visited)

CommunityInv == CommunityTypeOK /\ LikesCounted /\ PromoWithinLimit /\ StreaksInv

\* Nothing is liked, used or visited at the start.
LEMMA CommunityStart == CommunityInit => CommunityInv
<1> SUFFICES ASSUME CommunityInit PROVE CommunityInv
  OBVIOUS
<1> USE CommunityAssumption DEF CommunityInit
<1>1. CommunityTypeOK
  <2>1. Cardinality(Fans) \in Nat
    BY FS_CardinalityType
  <2>2. likes \subseteq Fans /\ likesCount \in 0 .. Cardinality(Fans) /\ promoUses \in Nat
    BY <2>1
  <2>3. promoOver \in BOOLEAN
    OBVIOUS
  <2>4. day \in 1 .. MaxDay /\ visited \subseteq 1 .. day
    OBVIOUS
  <2> QED
    BY <2>2, <2>3, <2>4 DEF CommunityTypeOK
<1>2. LikesCounted /\ PromoWithinLimit
  BY FS_EmptySet DEF LikesCounted, PromoWithinLimit
<1>3. StreaksInv
  BY DEF StreaksInv, Streaks, EarnedBy, Unread, Never
<1> QED
  BY <1>1, <1>2, <1>3 DEF CommunityInv

\* A visit extends an earned streak to an earned one.
LEMMA ExtendedEarned ==
  ASSUME NEW was \in Streaks, NEW today \in Nat, NEW days \in SUBSET (Nat \ {0}),
         EarnedBy(was, days), today \in days, was.last # today
  PROVE  Extended(was, today) \in Streaks /\ EarnedBy(Extended(was, today), days)
<1> DEFINE current == IF was.last = today - 1 /\ was.last # 0 THEN was.current + 1 ELSE 1
           new == [current |-> current, last |-> today,
                   longest |-> IF current > was.longest THEN current ELSE was.longest]
<1>0. was.current \in Nat /\ was.longest \in Nat /\ was.last \in Nat
  BY DEF Streaks
<1>1. Extended(was, today) = new
  BY DEF Extended
<1>2. current \in Nat \ {0}
  BY <1>0
<1>3. new \in Streaks
  BY <1>0, <1>2 DEF Streaks
<1>4. \A d \in today - current + 1 .. today : d \in days
  <2> SUFFICES ASSUME NEW d \in today - current + 1 .. today PROVE d \in days
    OBVIOUS
  <2>1. CASE was.last = today - 1 /\ was.last # 0
    <3>1. CASE d = today
      BY <3>1
    <3>2. CASE d # today
      <4>1. d \in was.last - was.current + 1 .. was.last
        BY <1>0, <2>1, <3>2
      <4> QED
        BY <1>0, <2>1, <4>1 DEF EarnedBy
    <3> QED
      BY <3>1, <3>2
  <2>2. CASE ~(was.last = today - 1 /\ was.last # 0)
    <3>1. d = today
      BY <2>2
    <3> QED
      BY <3>1
  <2> QED
    BY <2>1, <2>2
<1>5. new.longest > 0 => \E d \in days : d .. d + new.longest - 1 \subseteq days
  <2>1. CASE current > was.longest
    <3>1. new.longest = current
      BY <2>1
    <3>2. today - current + 1 \in days
      BY <1>2, <1>4
    <3>3. (today - current + 1) .. (today - current + 1) + current - 1 \subseteq days
      BY <1>2, <1>4
    <3> HIDE DEF current, new
    <3> QED
      BY <3>1, <3>2, <3>3
  <2>2. CASE ~(current > was.longest)
    <3>1. new.longest = was.longest
      BY <2>2
    <3> HIDE DEF current, new
    <3> QED
      BY <3>1 DEF EarnedBy
  <2> QED
    BY <2>1, <2>2
<1>6. new.current <= new.longest
  BY <1>0, <1>2
<1>7. new.current = current /\ new.last = today
  OBVIOUS
<1>8. EarnedBy(new, days)
  <2> HIDE DEF current, new
  <2> QED
    BY <1>4, <1>5, <1>6, <1>7 DEF EarnedBy
<1> QED
  BY <1>1, <1>3, <1>8

\* What was earned stays earned as more days are visited.
LEMMA StillEarned ==
  ASSUME NEW s \in Streaks, NEW days, NEW more, days \subseteq more, EarnedBy(s, days)
  PROVE  EarnedBy(s, more)
  BY DEF EarnedBy

\* The steps one by one: the counts move with the rows, and a streak is written as it was earned.
LEMMA CommunityStep == CommunityInv /\ [CommunityNext]_communityVars => CommunityInv'
<1> SUFFICES ASSUME CommunityInv, [CommunityNext]_communityVars PROVE CommunityInv'
  OBVIOUS
<1> USE CommunityAssumption
<1>0. /\ likes \subseteq Fans /\ IsFiniteSet(likes) /\ Cardinality(likes) \in Nat
      /\ likesCount = Cardinality(likes) /\ promoUses \in Nat /\ promoOver \in BOOLEAN
      /\ day \in 1 .. MaxDay /\ visited \subseteq 1 .. day
  BY FS_Subset, FS_CardinalityType DEF CommunityInv, CommunityTypeOK, LikesCounted
\* A post.
<1>1. ASSUME UNCHANGED <<code, visits>>, IsFiniteSet(likes'), likes' \subseteq Fans, likesCount' = Cardinality(likes')
      PROVE  CommunityInv'
  <2>1. likesCount' \in 0 .. Cardinality(Fans)
    BY <1>1, FS_Subset, FS_CardinalityType
  <2>2. CommunityTypeOK'
    BY <1>1, <2>1 DEF CommunityInv, CommunityTypeOK, code, visits
  <2>3. LikesCounted' /\ PromoWithinLimit'
    BY <1>1 DEF CommunityInv, LikesCounted, PromoWithinLimit, code
  <2>4. StreaksInv'
    BY <1>1 DEF CommunityInv, StreaksInv, visits
  <2> QED
    BY <2>2, <2>3, <2>4 DEF CommunityInv
<1>2. ASSUME NEW u \in Fans, Like(u) PROVE CommunityInv'
  <2>1. likesCount' = Cardinality(likes') /\ IsFiniteSet(likes') /\ likes' \subseteq Fans
    BY <1>0, <1>2, FS_AddElement DEF Like
  <2> QED
    BY <1>1, <1>2, <2>1 DEF Like
<1>3. ASSUME NEW u \in Fans, Unlike(u) PROVE CommunityInv'
  <2>0. likes' = likes \ {u} /\ likesCount' = IF u \notin likes THEN likesCount
                                              ELSE IF likesCount > 0 THEN likesCount - 1 ELSE 0
    BY <1>3 DEF Unlike
  <2>1. IsFiniteSet(likes') /\ likes' \subseteq Fans /\ likesCount' = Cardinality(likes')
    <3>1. CASE u \in likes
      <4>1. Cardinality(likes \ {u}) = Cardinality(likes) - 1 /\ IsFiniteSet(likes \ {u})
        BY <1>0, <3>1, FS_RemoveElement
      <4>2. Cardinality(likes \ {u}) \in Nat
        BY <4>1, FS_CardinalityType
      <4> QED
        BY <1>0, <2>0, <3>1, <4>1, <4>2
    <3>2. CASE u \notin likes
      <4>1. likes \ {u} = likes
        BY <3>2
      <4> QED
        BY <1>0, <2>0, <3>2, <4>1
    <3> QED
      BY <3>1, <3>2
  <2> QED
    BY <1>1, <1>3, <2>1 DEF Unlike
\* A promo code.
<1>4. ASSUME PromoNext PROVE CommunityInv'
  <2>1. CASE OnActivated
    <3>1. UNCHANGED <<post, promoOver, visits>> /\ IncrementUses
      BY <2>1 DEF OnActivated
    <3>2. promoUses' \in Nat /\ (PromoMaxUses > 0 => promoUses' <= PromoMaxUses)
      BY <1>0, <3>1 DEF CommunityInv, PromoWithinLimit, IncrementUses, Available
    <3>3. CommunityTypeOK' /\ LikesCounted' /\ PromoWithinLimit'
      BY <1>0, <3>1, <3>2 DEF CommunityInv, CommunityTypeOK, LikesCounted, PromoWithinLimit, post, visits
    <3>4. StreaksInv'
      BY <3>1 DEF CommunityInv, StreaksInv, visits
    <3> QED
      BY <3>3, <3>4 DEF CommunityInv
  <2>2. CASE Activate \/ ActivationRepeated \/ PromoExpires
    <3>1. UNCHANGED <<post, promoUses, visits>> /\ promoOver' \in BOOLEAN
      BY <1>0, <2>2 DEF Activate, ActivationRepeated, PromoExpires
    <3>2. CommunityTypeOK' /\ LikesCounted' /\ PromoWithinLimit'
      BY <1>0, <3>1 DEF CommunityInv, CommunityTypeOK, LikesCounted, PromoWithinLimit, post, visits
    <3>3. StreaksInv'
      BY <3>1 DEF CommunityInv, StreaksInv, visits
    <3> QED
      BY <3>2, <3>3 DEF CommunityInv
  <2> QED
    BY <1>4, <2>1, <2>2 DEF PromoNext
\* Visits.
<1>5. ASSUME UNCHANGED <<post, code>>, day' \in 1 .. MaxDay, visited' \subseteq 1 .. day', StreaksInv'
      PROVE  CommunityInv'
  <2>1. CommunityTypeOK' /\ LikesCounted' /\ PromoWithinLimit'
    BY <1>5 DEF CommunityInv, CommunityTypeOK, LikesCounted, PromoWithinLimit, post, code
  <2> QED
    BY <1>5, <2>1 DEF CommunityInv
<1>6. CASE NextDay
  <2>1. StreaksInv'
    BY <1>6 DEF NextDay, CommunityInv, StreaksInv
  <2> QED
    BY <1>0, <1>5, <1>6, <2>1 DEF NextDay
<1>7. ASSUME NEW r \in Replicas, Visit(r) PROVE CommunityInv'
  <2>1. StreaksInv'
    BY <1>7 DEF Visit, CommunityInv, StreaksInv
  <2> QED
    BY <1>0, <1>5, <1>7, <2>1 DEF Visit
<1>8. ASSUME NEW r \in Replicas, ReadStreak(r) PROVE CommunityInv'
  <2>0. /\ read' = [read EXCEPT ![r] = [today |-> day, was |-> streak]]
        /\ visited' = visited \union {day} /\ UNCHANGED <<post, code, day, streak>>
    BY <1>8 DEF ReadStreak
  <2>1. visited \subseteq visited' /\ day \in visited'
    BY <2>0
  <2>2. /\ read' \in [Replicas -> [today : Nat, was : Streaks]]
        /\ streak' \in Streaks /\ EarnedBy(streak', visited')
    BY <1>0, <2>0, <2>1, StillEarned DEF CommunityInv, StreaksInv
  <2>3. ASSUME NEW q \in Replicas
        PROVE  EarnedBy(read'[q].was, visited') /\ (read'[q] # Unread => read'[q].today \in visited')
    <3>1. CASE q = r
      BY <2>0, <2>1, <2>2, <3>1 DEF CommunityInv, StreaksInv
    <3>2. CASE q # r
      <4>1. read'[q] = read[q] /\ read[q].was \in Streaks
        BY <2>0, <3>2 DEF CommunityInv, StreaksInv
      <4> QED
        BY <2>1, <4>1, StillEarned DEF CommunityInv, StreaksInv
    <3> QED
      BY <3>1, <3>2
  <2>4. StreaksInv'
    BY <2>2, <2>3 DEF StreaksInv
  <2>5. visited' \subseteq 1 .. day' /\ day' \in 1 .. MaxDay
    BY <1>0, <2>0
  <2> QED
    BY <1>5, <2>0, <2>4, <2>5
<1>9. ASSUME NEW r \in Replicas, WriteStreak(r) PROVE CommunityInv'
  <2>0. /\ read[r] # Unread /\ read' = [read EXCEPT ![r] = Unread]
        /\ streak' = IF read[r].was.last = read[r].today THEN streak
                     ELSE Extended(read[r].was, read[r].today)
        /\ UNCHANGED <<post, code, day, visited, pending>>
    BY <1>9 DEF WriteStreak
  <2>1. /\ read[r].was \in Streaks /\ read[r].today \in Nat /\ EarnedBy(read[r].was, visited)
        /\ read[r].today \in visited /\ visited \in SUBSET (Nat \ {0})
    BY <1>0, <2>0 DEF CommunityInv, StreaksInv
  <2>2. streak' \in Streaks /\ EarnedBy(streak', visited')
    BY <2>0, <2>1, ExtendedEarned DEF CommunityInv, StreaksInv
  <2>3. Unread \in [today : Nat, was : Streaks] /\ EarnedBy(Unread.was, visited)
    BY DEF Unread, Never, Streaks, EarnedBy
  <2>4. StreaksInv'
    BY <2>0, <2>2, <2>3 DEF CommunityInv, StreaksInv
  <2> QED
    BY <1>0, <1>5, <2>0, <2>4
<1>10. CASE UNCHANGED communityVars
  BY <1>10 DEF communityVars, CommunityInv, CommunityTypeOK, LikesCounted, PromoWithinLimit, StreaksInv
<1> QED
  BY <1>2, <1>3, <1>4, <1>6, <1>7, <1>8, <1>9, <1>10 DEF CommunityNext, PostNext, VisitNext

LEMMA CommunityInvariant == CommunitySpec => []CommunityInv
  BY CommunityStart, CommunityStep, PTL DEF CommunitySpec

\* The stored number of likes is that of the members who like the post, no promo code is used
\* beyond its limit by repeated activations, and no streak is longer than the days visited,
\* with any number of replicas (post_repo.go, promo_repo.go, streaks.go).
THEOREM CountsHold == CommunitySpec => []CommunityCounts
<1>1. CommunityInv => CommunityCounts
  BY DEF CommunityInv, CommunityCounts, StreaksInv, StreakEarned, EarnedBy
<1> QED
  BY <1>1, CommunityInvariant, PTL

(***************************************************************************)
(* WalletPipeline (projects/02): ingestion, writer and aggregator          *)
(***************************************************************************)

Ingested == 1 .. Len(blockTime)

\* What the writer holds and has stored was ingested; the aggregator's window has ended.
WriterTypes ==
    /\ clock \in Lookback .. MaxClock /\ blockTime \in Seq(Nat) /\ Len(blockTime) <= Cardinality(WTxs)
    /\ offset \in 1 .. Len(blockTime) + 1
    /\ buf \subseteq Ingested /\ Cardinality(buf) < BatchSize
    /\ writing \in [Slots -> SUBSET Ingested]
    /\ txTable \in [WTxs -> Nat] /\ InTable \subseteq Ingested
    /\ walletFaults \in Nat

WindowTypes ==
    /\ lastTickEnd \in 0 .. clock
    /\ run.kind = "tick" => run.to \in lastTickEnd .. clock

\* A consumed transaction is in memory, in the table, lost or was marked unhandled.
Stored ==
    /\ \A t \in 1 .. offset - 1 : t \in InTable \/ t \in buf \/ t \in lost \/ t \in cut \/ \E s \in Slots : t \in writing[s]
    /\ (lost \union cut # {} /\ walletFaults = 0) => writer # "running"

\* Without a fault it was consumed once, and is in one place.
OnePlace ==
    walletFaults = 0 =>
      /\ \A t \in buf : t < offset /\ txTable[t] = 0
      /\ \A s \in Slots : \A t \in writing[s] : t < offset /\ txTable[t] = 0 /\ t \notin buf
      /\ \A s, r \in Slots : s # r => writing[s] \intersect writing[r] = {}
      /\ \A t \in WTxs : txTable[t] <= 1 /\ (txTable[t] > 0 => t < offset)

\* And what is lost or was never handled is nowhere else.
Gone ==
    walletFaults = 0 =>
      /\ \A t \in lost \union cut : t < offset /\ t \in WTxs /\ txTable[t] = 0 /\ t \notin buf
      /\ \A t \in lost \union cut : \A s \in Slots : t \notin writing[s]
      /\ lost \intersect cut = {}

\* The windows read so far leave no stored transaction out.
Covered ==
    /\ \A t \in InTable : blockTime[t] < lastTickEnd => t \in counted \union beyond \union missed
    /\ run.kind = "tick" => \A t \in InTable :
          blockTime[t] < run.to => t \in counted \union beyond \union missed \union run.txs \union run.left

\* A tick that leaves some has read MaxRows.
Filled ==
    /\ counted \subseteq WTxs /\ run.txs \subseteq WTxs
    /\ (run.kind = "tick" /\ run.left # {}) => Cardinality(run.txs) >= MaxRows
    /\ beyond # {} => Cardinality(counted) >= MaxRows

WalletInv == WriterTypes /\ WindowTypes /\ Stored /\ OnePlace /\ Gone /\ Covered /\ Filled

\* Transactions are numbered from one on.
LEMMA TxsAre == Cardinality(WTxs) \in Nat /\ WTxs = 1 .. Cardinality(WTxs)
BY WalletAssumption, FS_CardinalityType

LEMMA WalletStart == ASSUME WalletInit PROVE WalletInv
<1> USE TxsAre, WalletAssumption DEF WalletInit
<1>1. InTable = {}
  BY DEF InTable
<1>2. blockTime = <<>> /\ blockTime \in Seq(Nat) /\ Len(blockTime) = 0 /\ Ingested = {}
  BY DEF Ingested
<1>3. Cardinality(buf) = 0
  BY FS_EmptySet
<1>4. WriterTypes
  BY <1>1, <1>2, <1>3 DEF WriterTypes
<1>5. WindowTypes
  BY DEF WindowTypes, Idles
<1>6. Stored /\ OnePlace
  BY DEF Stored, OnePlace
<1>7. Gone /\ Covered /\ Filled
  BY <1>1 DEF Gone, Covered, Filled, Idles
<1> QED
  BY <1>4, <1>5, <1>6, <1>7 DEF WalletInv

\* A batch that is written, or was lost, leaves its slot.
LEMMA WriteDoes ==
    ASSUME WalletInv, NEW s \in Slots, Write(s)
    PROVE  /\ UNCHANGED <<clock, blockTime, offset, buf, writer, cut, lastTickEnd, run, counted, beyond>>
           /\ writing' = [writing EXCEPT ![s] = {}] /\ writing[s] \subseteq Ingested
           /\ \/ /\ txTable' = [t \in WTxs |-> IF t \in writing[s] THEN txTable[t] + 1 ELSE txTable[t]]
                 /\ missed' = missed \union {t \in writing[s] : blockTime[t] < ReadUpTo}
                 /\ UNCHANGED <<lost, walletFaults>>
              \/ /\ UNCHANGED <<txTable, missed>> /\ lost' = lost \union writing[s]
                 /\ writer # "running" /\ walletFaults' = walletFaults
              \/ UNCHANGED <<txTable, missed>> /\ lost' = lost \union writing[s] /\ walletFaults' = walletFaults + 1
<1>1. UNCHANGED <<clock, blockTime, offset, buf, writer, cut, lastTickEnd, run, counted, beyond>> /\ writing' = [writing EXCEPT ![s] = {}]
  BY DEF Write, aggregator
<1>2. writing[s] \subseteq Ingested
  BY DEF WalletInv, WriterTypes
<1>3. CASE InsertBatch(writing[s]) /\ UNCHANGED <<lost, walletFaults>>
  BY <1>1, <1>2, <1>3, Zenon DEF InsertBatch
<1>4. CASE s = "ticker" /\ writer # "running" /\ lost' = lost \union writing[s] /\ UNCHANGED <<txTable, missed, walletFaults>>
  BY <1>1, <1>2, <1>4
<1>5. CASE WalletFault /\ lost' = lost \union writing[s] /\ UNCHANGED <<txTable, missed>>
  BY <1>1, <1>2, <1>5 DEF WalletFault
<1> QED
  BY <1>3, <1>4, <1>5 DEF Write

\* What is in the table is there at least once.
LEMMA InTableIs == ASSUME WriterTypes PROVE \A t : t \in InTable <=> t \in WTxs /\ txTable[t] > 0
BY DEF InTable

\* After a batch is inserted the table holds it too.
LEMMA Inserted ==
    ASSUME WalletInv, NEW txs \in SUBSET Ingested,
           txTable' = [t \in WTxs |-> IF t \in txs THEN txTable[t] + 1 ELSE txTable[t]]
    PROVE  InTable' = InTable \union txs /\ txs \subseteq WTxs /\ txTable' \in [WTxs -> Nat]
<1>1. Ingested \subseteq WTxs /\ txTable \in [WTxs -> Nat]
  BY TxsAre DEF Ingested, WalletInv, WriterTypes
<1>2. \A t \in WTxs : txTable[t] \in Nat /\ txTable'[t] = IF t \in txs THEN txTable[t] + 1 ELSE txTable[t]
  BY <1>1
<1> QED
  BY <1>1, <1>2 DEF InTable

LEMMA WriterTypesKept == ASSUME WalletInv, [WalletNext]_walletVars PROVE WriterTypes'
<1> USE TxsAre, WalletAssumption
<1>0. WriterTypes
  BY DEF WalletInv
<1>1. ASSUME UNCHANGED <<blockTime, offset, buf, writing, txTable>>, clock' \in Lookback .. MaxClock, walletFaults' \in Nat
      PROVE  WriterTypes'
  BY <1>0, <1>1 DEF WriterTypes, Ingested, InTable
<1>2. clock \in Lookback .. MaxClock /\ walletFaults \in Nat /\ Len(blockTime) \in Nat
  BY <1>0 DEF WriterTypes
<1>3. CASE Advance
  <2>1. clock' \in Lookback .. MaxClock
    BY <1>2, <1>3 DEF Advance
  <2> QED
    BY <1>1, <1>2, <1>3, <2>1 DEF Advance, batcher
<1>4. CASE StopWriter \/ ReadWindow \/ ReadRefresh \/ UNCHANGED walletVars
  BY <1>1, <1>2, <1>4 DEF StopWriter, ReadWindow, ReadRefresh, batcher, walletVars
<1>5. CASE FinishRun \/ FailRun \/ RestartAggregator
  <2>1. walletFaults' \in Nat
    BY <1>2, <1>5 DEF FinishRun, FailRun, RestartAggregator, WalletFault
  <2> QED
    BY <1>1, <1>2, <1>5, <2>1 DEF FinishRun, FailRun, RestartAggregator, batcher
<1>6. CASE Ingest
  <2>1. UNCHANGED <<clock, offset, buf, writing, txTable, walletFaults>> /\ blockTime' = Append(blockTime, clock) /\ Len(blockTime) < Cardinality(WTxs)
    BY <1>6 DEF Ingest, batcher
  <2>2. blockTime' \in Seq(Nat) /\ Len(blockTime') = Len(blockTime) + 1
    BY <1>0, <1>2, <2>1 DEF WriterTypes
  <2>3. Ingested \subseteq Ingested' /\ Len(blockTime') <= Cardinality(WTxs) /\ 1 .. Len(blockTime) + 1 \subseteq 1 .. Len(blockTime') + 1
    BY <1>2, <2>1, <2>2 DEF Ingested
  <2>4. writing' \in [Slots -> SUBSET Ingested'] /\ buf' \subseteq Ingested' /\ offset' \in 1 .. Len(blockTime') + 1
    BY <1>0, <2>1, <2>3 DEF WriterTypes
  <2>5. InTable' = InTable
    BY <2>1 DEF InTable
  <2> QED
    BY <1>0, <2>1, <2>2, <2>3, <2>4, <2>5 DEF WriterTypes
<1>7. CASE Add
  <2> DEFINE more == buf \union {offset}
             full == Cardinality(more) >= BatchSize
  <2>1. /\ UNCHANGED <<clock, blockTime, txTable, walletFaults>> /\ offset' = offset + 1 /\ offset <= Len(blockTime)
        /\ buf' = IF full THEN {} ELSE more
        /\ writing' = IF full THEN [writing EXCEPT !["handler"] = more] ELSE writing
    BY <1>7 DEF Add
  <2>2. offset \in Ingested /\ offset + 1 \in 1 .. Len(blockTime) + 1
    BY <1>0, <1>2, <2>1 DEF WriterTypes, Ingested
  <2>3. more \subseteq Ingested /\ IsFiniteSet(more) /\ Cardinality(more) \in Nat
    <3>1. more \subseteq Ingested
      BY <1>0, <2>2 DEF WriterTypes
    <3>2. IsFiniteSet(Ingested)
      BY <1>2, FS_Interval DEF Ingested
    <3> HIDE DEF more
    <3> QED
      BY <3>1, <3>2, FS_Subset, FS_CardinalityType
  <2> HIDE DEF more
  <2>4. buf' \subseteq Ingested /\ Cardinality(buf') < BatchSize
    <3>1. Cardinality({}) = 0
      BY FS_EmptySet
    <3>2. CASE full
      BY <2>1, <3>1, <3>2
    <3>3. CASE ~full
      BY <2>1, <2>3, <3>3
    <3> QED
      BY <3>2, <3>3
  <2>5. writing' \in [Slots -> SUBSET Ingested]
    BY <1>0, <2>1, <2>3 DEF WriterTypes
  <2>6. Ingested' = Ingested /\ InTable' = InTable
    BY <2>1 DEF Ingested, InTable
  <2> QED
    BY <1>0, <2>1, <2>2, <2>4, <2>5, <2>6 DEF WriterTypes
<1>m. CASE MarkAfterSession
  <2>1. /\ UNCHANGED <<clock, blockTime, buf, writing, txTable>> /\ offset' = offset + 1 /\ offset <= Len(blockTime)
        /\ walletFaults' \in {walletFaults, walletFaults + 1}
    BY <1>m DEF MarkAfterSession, WalletFault
  <2>2. offset' \in 1 .. Len(blockTime) + 1 /\ walletFaults' \in Nat
    BY <1>0, <1>2, <2>1 DEF WriterTypes
  <2>3. Ingested' = Ingested /\ InTable' = InTable
    BY <2>1 DEF Ingested, InTable
  <2> QED
    BY <1>0, <2>1, <2>2, <2>3 DEF WriterTypes
<1>8. ASSUME NEW s \in Slots, Flush(s) PROVE WriterTypes'
  <2>1. UNCHANGED <<clock, blockTime, offset, txTable, walletFaults>> /\ writing' = [writing EXCEPT ![s] = buf] /\ buf' = {}
    BY <1>8 DEF Flush
  <2>2. Cardinality(buf') = 0
    BY <2>1, FS_EmptySet
  <2>3. writing' \in [Slots -> SUBSET Ingested]
    BY <1>0, <2>1 DEF WriterTypes
  <2>4. Ingested' = Ingested /\ InTable' = InTable
    BY <2>1 DEF Ingested, InTable
  <2> QED
    BY <1>0, <2>1, <2>2, <2>3, <2>4 DEF WriterTypes
<1>9. ASSUME NEW s \in Slots, Write(s) PROVE WriterTypes'
  <2>1. /\ UNCHANGED <<clock, blockTime, offset, buf>>
        /\ writing' = [writing EXCEPT ![s] = {}] /\ writing[s] \in SUBSET Ingested
        /\ \/ txTable' = [t \in WTxs |-> IF t \in writing[s] THEN txTable[t] + 1 ELSE txTable[t]]
           \/ txTable' = txTable
        /\ walletFaults' \in {walletFaults, walletFaults + 1}
    BY <1>9, WriteDoes
  <2>2. writing' \in [Slots -> SUBSET Ingested] /\ walletFaults' \in Nat
    BY <1>0, <2>1 DEF WriterTypes
  <2>3. txTable' \in [WTxs -> Nat] /\ InTable' \subseteq Ingested
    <3>1. CASE txTable' = txTable
      BY <1>0, <3>1 DEF WriterTypes, InTable
    <3>2. CASE txTable' = [t \in WTxs |-> IF t \in writing[s] THEN txTable[t] + 1 ELSE txTable[t]]
      BY <1>0, <2>1, <3>2, Inserted DEF WriterTypes
    <3> QED
      BY <2>1, <3>1, <3>2
  <2>4. Ingested' = Ingested
    BY <2>1 DEF Ingested
  <2> QED
    BY <1>0, <2>1, <2>2, <2>3, <2>4 DEF WriterTypes
<1>10. CASE CrashWriter
  <2>1. /\ UNCHANGED <<clock, blockTime, txTable>> /\ walletFaults' = walletFaults + 1 /\ buf' = {} /\ writing' = [s \in Slots |-> {}]
        /\ offset' \in 1 .. offset
    BY <1>10 DEF CrashWriter, WalletFault
  <2>2. Cardinality(buf') = 0
    BY <2>1, FS_EmptySet
  <2>3. offset' \in 1 .. Len(blockTime) + 1
    BY <1>0, <1>2, <2>1 DEF WriterTypes
  <2>4. Ingested' = Ingested /\ InTable' = InTable
    BY <2>1 DEF Ingested, InTable
  <2> QED
    BY <1>0, <2>1, <2>2, <2>3, <2>4 DEF WriterTypes
<1> QED
  BY <1>3, <1>4, <1>5, <1>6, <1>7, <1>m, <1>8, <1>9, <1>10 DEF WalletNext, TickerFlush, MainFlush, Slots

LEMMA WindowTypesKept == ASSUME WalletInv, [WalletNext]_walletVars PROVE WindowTypes'
<1> USE WalletAssumption
<1>0. WindowTypes /\ clock \in Nat /\ clock \in Lookback .. MaxClock
  BY DEF WalletInv, WriterTypes
<1>1. ASSUME UNCHANGED <<lastTickEnd, run>>, clock' \in {clock, clock + 1} PROVE WindowTypes'
  BY <1>0, <1>1 DEF WindowTypes
<1>2. CASE Advance \/ Ingest \/ Add \/ MarkAfterSession \/ StopWriter \/ CrashWriter \/ UNCHANGED walletVars
  BY <1>1, <1>2 DEF Advance, Ingest, Add, MarkAfterSession, StopWriter, CrashWriter, aggregator, walletVars
<1>3. CASE TickerFlush \/ MainFlush
  BY <1>1, <1>3 DEF TickerFlush, MainFlush, Flush, aggregator
<1>4. ASSUME NEW s \in Slots, Write(s) PROVE WindowTypes'
  BY <1>1, <1>4 DEF Write, aggregator
<1>5. CASE ReadWindow
  <2>1. run'.to = clock /\ UNCHANGED <<clock, lastTickEnd>>
    BY <1>5 DEF ReadWindow
  <2> QED
    BY <1>0, <2>1 DEF WindowTypes
<1>6. CASE ReadRefresh
  <2>1. run'.kind = "refresh" /\ UNCHANGED <<clock, lastTickEnd>>
    BY <1>6 DEF ReadRefresh
  <2> QED
    BY <1>0, <2>1 DEF WindowTypes
<1>7. CASE FinishRun
  BY <1>0, <1>7 DEF FinishRun, WindowTypes, Idles
<1>8. CASE FailRun
  BY <1>0, <1>8 DEF FailRun, WindowTypes, Idles
<1>9. CASE RestartAggregator
  BY <1>0, <1>9 DEF RestartAggregator, WindowTypes, Idles
<1> QED
  BY <1>2, <1>3, <1>4, <1>5, <1>6, <1>7, <1>8, <1>9 DEF WalletNext

\* What was consumed is in the table, in a batch, or lost with one.
LEMMA StoredKept == ASSUME WalletInv, [WalletNext]_walletVars PROVE Stored'
<1> USE TxsAre
<1>0. Stored /\ WriterTypes /\ walletFaults \in Nat /\ offset \in Nat /\ writing \in [Slots -> SUBSET Ingested]
  BY DEF WalletInv, WriterTypes
<1>1. ASSUME UNCHANGED <<offset, buf, writing, txTable, lost, cut>>, walletFaults' \in {walletFaults, walletFaults + 1},
             writer' # "running" \/ writer' = writer
      PROVE  Stored'
  BY <1>0, <1>1 DEF Stored, InTable
<1>2. CASE Advance \/ Ingest \/ StopWriter \/ ReadWindow \/ ReadRefresh \/ FinishRun \/ FailRun \/ RestartAggregator \/ UNCHANGED walletVars
  BY <1>1, <1>2 DEF Advance, Ingest, StopWriter, ReadWindow, ReadRefresh, FinishRun, FailRun, RestartAggregator, WalletFault, batcher, walletVars
<1>3. CASE Add
  <2> DEFINE more == buf \union {offset}
             full == Cardinality(more) >= BatchSize
  <2>1. /\ UNCHANGED <<txTable, walletFaults, writer, lost, cut>> /\ offset' = offset + 1 /\ writing["handler"] = {}
        /\ buf' = IF full THEN {} ELSE more
        /\ writing' = IF full THEN [writing EXCEPT !["handler"] = more] ELSE writing
    BY <1>3 DEF Add
  <2> HIDE DEF full
  <2>2. \A t \in 1 .. offset' - 1 : t \in 1 .. offset - 1 \/ t = offset
    BY <1>0, <2>1
  <2>3. \A t \in more : t \in buf' \/ \E s \in Slots : t \in writing'[s]
    BY <1>0, <2>1 DEF Slots
  <2>4. \A s \in Slots : writing[s] \subseteq writing'[s]
    BY <1>0, <2>1
  <2>5. InTable' = InTable
    BY <2>1 DEF InTable
  <2> QED
    BY <1>0, <2>1, <2>2, <2>3, <2>4, <2>5 DEF Stored
<1>m. CASE MarkAfterSession
  <2>1. /\ UNCHANGED <<txTable, buf, writing, lost, writer>> /\ offset' = offset + 1 /\ cut' = cut \union {offset}
        /\ walletFaults' = walletFaults + 1 \/ writer # "running"
    BY <1>m DEF MarkAfterSession, WalletFault
  <2>2. \A t \in 1 .. offset' - 1 : t \in 1 .. offset - 1 \/ t = offset
    BY <1>0, <2>1
  <2>3. InTable' = InTable
    BY <2>1 DEF InTable
  <2>4. (lost' \union cut' # {} /\ walletFaults' = 0) => writer' # "running"
    BY <1>0, <2>1
  <2> QED
    BY <1>0, <2>1, <2>2, <2>3, <2>4 DEF Stored
<1>4. ASSUME NEW s \in Slots, Flush(s), writer' = writer \/ writer' = "flushed" PROVE Stored'
  <2>1. UNCHANGED <<offset, txTable, walletFaults, lost, cut>> /\ writing' = [writing EXCEPT ![s] = buf] /\ buf' = {} /\ writing[s] = {}
    BY <1>4 DEF Flush
  <2>2. /\ \A t \in buf : t \in writing'[s]
        /\ \A r \in Slots : writing[r] \subseteq writing'[r]
    BY <1>0, <2>1
  <2>3. InTable' = InTable
    BY <2>1 DEF InTable
  <2> QED
    BY <1>0, <1>4, <2>1, <2>2, <2>3 DEF Stored
<1>5. ASSUME NEW s \in Slots, Write(s) PROVE Stored'
  <2>1. /\ UNCHANGED <<offset, buf, writer, cut>> /\ writing' = [writing EXCEPT ![s] = {}] /\ writing[s] \in SUBSET Ingested
        /\ \/ /\ txTable' = [t \in WTxs |-> IF t \in writing[s] THEN txTable[t] + 1 ELSE txTable[t]]
              /\ UNCHANGED <<lost, walletFaults>>
           \/ /\ txTable' = txTable /\ lost' = lost \union writing[s]
              /\ writer # "running" /\ walletFaults' = walletFaults
           \/ txTable' = txTable /\ lost' = lost \union writing[s] /\ walletFaults' = walletFaults + 1
    BY <1>5, WriteDoes, Zenon
  <2>2. \A r \in Slots : \A t \in writing[r] : t \in writing'[r] \/ t \in writing[s]
    BY <1>0, <2>1
  <2>3. CASE txTable' = [t \in WTxs |-> IF t \in writing[s] THEN txTable[t] + 1 ELSE txTable[t]] /\ UNCHANGED <<lost, walletFaults>>
    <3>1. InTable' = InTable \union writing[s]
      BY <2>1, <2>3, Inserted, Zenon
    <3> QED
      BY <1>0, <2>1, <2>2, <2>3, <3>1 DEF Stored
  <2>4. CASE txTable' = txTable /\ lost' = lost \union writing[s] /\ (writer # "running" \/ walletFaults' = walletFaults + 1)
    <3>1. InTable' = InTable
      BY <2>4 DEF InTable
    <3>2. (lost' \union cut' # {} /\ walletFaults' = 0) => writer' # "running"
      BY <1>0, <2>1, <2>4 DEF Stored
    <3> QED
      BY <1>0, <2>1, <2>2, <2>4, <3>1, <3>2 DEF Stored
  <2> QED
    BY <2>1, <2>3, <2>4
<1>6. CASE CrashWriter
  <2>1. /\ UNCHANGED <<txTable, cut>> /\ walletFaults' = walletFaults + 1 /\ offset' \in 1 .. offset
        /\ lost' = lost \union buf \union UNION {writing[s] : s \in Slots}
    BY <1>6 DEF CrashWriter, WalletFault
  <2>2. InTable' = InTable
    BY <2>1 DEF InTable
  <2>3. \A b \in 1 .. offset : \A t \in 1 .. b - 1 : t \in 1 .. offset - 1
    BY <1>0
  <2>4. \A t \in 1 .. offset - 1 : t \in InTable \/ t \in lost' \/ t \in cut'
    BY <1>0, <2>1 DEF Stored
  <2>5. \A t \in 1 .. offset' - 1 : t \in InTable' \/ t \in lost' \/ t \in cut'
    BY <2>1, <2>2, <2>3, <2>4, Zenon
  <2>6. walletFaults' # 0
    BY <1>0, <2>1
  <2> QED
    BY <2>5, <2>6 DEF Stored
<1> QED
  BY <1>2, <1>3, <1>m, <1>4, <1>5, <1>6 DEF WalletNext, TickerFlush, MainFlush, Slots

\* Without a fault a transaction is in one batch, or in the table, and there once.
LEMMA OnePlaceKept == ASSUME WalletInv, [WalletNext]_walletVars PROVE OnePlace'
<1> USE TxsAre
<1>0. OnePlace /\ WriterTypes /\ walletFaults \in Nat /\ offset \in Nat /\ writing \in [Slots -> SUBSET Ingested]
  BY DEF WalletInv, WriterTypes
<1>i. Ingested \subseteq WTxs /\ buf \subseteq Ingested /\ txTable \in [WTxs -> Nat]
  BY <1>0 DEF WriterTypes, Ingested
<1>1. ASSUME walletFaults' = walletFaults + 1 PROVE OnePlace'
  BY <1>0, <1>1 DEF OnePlace
<1>2. ASSUME UNCHANGED <<offset, buf, writing, txTable, walletFaults>> PROVE OnePlace'
  BY <1>0, <1>2 DEF OnePlace
<1>3. CASE Advance \/ Ingest \/ StopWriter \/ ReadWindow \/ ReadRefresh \/ FinishRun \/ UNCHANGED walletVars
  BY <1>2, <1>3 DEF Advance, Ingest, StopWriter, ReadWindow, ReadRefresh, FinishRun, batcher, walletVars
<1>4. CASE FailRun \/ RestartAggregator \/ CrashWriter
  BY <1>1, <1>4 DEF FailRun, RestartAggregator, CrashWriter, WalletFault
<1>m. CASE MarkAfterSession
  <2>1. /\ UNCHANGED <<txTable, buf, writing>> /\ offset' = offset + 1
        /\ walletFaults' \in {walletFaults, walletFaults + 1}
    BY <1>m DEF MarkAfterSession, WalletFault
  <2>2. /\ \A t \in WTxs : t < offset => t < offset'
        /\ \A s \in Slots : writing[s] \subseteq WTxs
    BY <1>0, <1>i, <2>1
  <2> QED
    BY <1>0, <1>i, <1>1, <2>1, <2>2 DEF OnePlace
<1>5. CASE Add
  <2> DEFINE more == buf \union {offset}
             full == Cardinality(more) >= BatchSize
  <2>1. /\ UNCHANGED <<txTable, walletFaults>> /\ offset' = offset + 1 /\ writing["handler"] = {}
        /\ offset <= Len(blockTime) /\ Len(blockTime) \in Nat
        /\ buf' = IF full THEN {} ELSE more
        /\ writing' = IF full THEN [writing EXCEPT !["handler"] = more] ELSE writing
    BY <1>0, <1>5 DEF Add, WriterTypes
  <2> HIDE DEF full
  <2> SUFFICES ASSUME walletFaults = 0
               PROVE  /\ \A t \in buf' : t < offset' /\ txTable'[t] = 0
                      /\ \A s \in Slots : \A t \in writing'[s] : t < offset' /\ txTable'[t] = 0 /\ t \notin buf'
                      /\ \A s, r \in Slots : s # r => writing'[s] \intersect writing'[r] = {}
                      /\ \A t \in WTxs : txTable'[t] <= 1 /\ (txTable'[t] > 0 => t < offset')
    BY <2>1 DEF OnePlace
  <2>2. /\ \A t \in buf : t < offset /\ txTable[t] = 0
        /\ \A s \in Slots : \A t \in writing[s] : t < offset /\ txTable[t] = 0 /\ t \notin buf
        /\ \A s, r \in Slots : s # r => writing[s] \intersect writing[r] = {}
        /\ \A t \in WTxs : txTable[t] <= 1 /\ (txTable[t] > 0 => t < offset)
    BY <1>0 DEF OnePlace
  <2>3. offset \in WTxs /\ txTable[offset] = 0 /\ ~(offset < offset)
    <3>1. offset \in WTxs
      BY <1>0, <1>i, <2>1 DEF Ingested, WriterTypes
    <3> QED
      BY <1>0, <1>i, <2>2, <3>1
  <2>4. \A t \in more : t < offset' /\ txTable'[t] = 0
    <3>1. \A t \in buf : t \in Nat
      BY <1>i
    <3> QED
      BY <1>0, <2>1, <2>2, <2>3, <3>1
  <2>5. \A s \in Slots : \A t \in writing[s] : t \notin more /\ t < offset' /\ txTable'[t] = 0
    <3>1. \A s \in Slots : \A t \in writing[s] : t \in Nat
      BY <1>0, <1>i
    <3> QED
      BY <1>0, <2>1, <2>2, <2>3, <3>1
  <2>6. \A t \in WTxs : txTable'[t] <= 1 /\ (txTable'[t] > 0 => t < offset')
    BY <1>0, <2>1, <2>2
  <2> HIDE DEF more
  <2>7. CASE full
    <3>1. buf' = {} /\ \A s \in Slots : writing'[s] = IF s = "handler" THEN more ELSE writing[s]
      BY <1>0, <2>1, <2>7
    <3> QED
      BY <2>2, <2>4, <2>5, <2>6, <3>1
  <2>8. CASE ~full
    BY <2>1, <2>2, <2>4, <2>5, <2>6, <2>8
  <2> QED
    BY <2>7, <2>8
<1>6. ASSUME NEW s \in Slots, Flush(s) PROVE OnePlace'
  <2>1. UNCHANGED <<offset, txTable, walletFaults>> /\ writing' = [writing EXCEPT ![s] = buf] /\ buf' = {} /\ writing[s] = {}
    BY <1>6 DEF Flush
  <2>2. \A r \in Slots : writing'[r] = IF r = s THEN buf ELSE writing[r]
    BY <1>0, <2>1
  <2> QED
    BY <1>0, <2>1, <2>2 DEF OnePlace
<1>7. ASSUME NEW s \in Slots, Write(s) PROVE OnePlace'
  <2>1. /\ UNCHANGED <<offset, buf>> /\ writing' = [writing EXCEPT ![s] = {}] /\ writing[s] \in SUBSET Ingested
        /\ \/ /\ txTable' = [t \in WTxs |-> IF t \in writing[s] THEN txTable[t] + 1 ELSE txTable[t]]
              /\ walletFaults' = walletFaults
           \/ txTable' = txTable /\ walletFaults' = walletFaults
           \/ walletFaults' = walletFaults + 1
    BY <1>7, WriteDoes, Zenon
  <2>2. \A r \in Slots : writing'[r] = IF r = s THEN {} ELSE writing[r]
    BY <1>0, <2>1
  <2>3. CASE txTable' = txTable /\ walletFaults' = walletFaults
    BY <1>0, <2>1, <2>2, <2>3 DEF OnePlace
  <2>4. CASE txTable' = [t \in WTxs |-> IF t \in writing[s] THEN txTable[t] + 1 ELSE txTable[t]] /\ walletFaults' = walletFaults
    <3>1. \A t \in WTxs : txTable[t] \in Nat /\ txTable'[t] = IF t \in writing[s] THEN txTable[t] + 1 ELSE txTable[t]
      BY <1>i, <2>4
    <3> SUFFICES ASSUME walletFaults = 0
                 PROVE  /\ \A t \in buf' : t < offset' /\ txTable'[t] = 0
                        /\ \A q \in Slots : \A t \in writing'[q] : t < offset' /\ txTable'[t] = 0 /\ t \notin buf'
                        /\ \A q, r \in Slots : q # r => writing'[q] \intersect writing'[r] = {}
                        /\ \A t \in WTxs : txTable'[t] <= 1 /\ (txTable'[t] > 0 => t < offset')
      BY <2>4 DEF OnePlace
    <3>2. /\ \A t \in buf : t < offset /\ txTable[t] = 0
          /\ \A q \in Slots : \A t \in writing[q] : t < offset /\ txTable[t] = 0 /\ t \notin buf
          /\ \A q, r \in Slots : q # r => writing[q] \intersect writing[r] = {}
          /\ \A t \in WTxs : txTable[t] <= 1 /\ (txTable[t] > 0 => t < offset)
      BY <1>0 DEF OnePlace
    <3>3. \A t \in WTxs : t \notin writing[s] => txTable'[t] = txTable[t]
      BY <3>1
    <3>4. \A t \in buf' : t < offset' /\ txTable'[t] = 0
      BY <1>i, <2>1, <3>2, <3>3
    <3>5. \A q \in Slots : \A t \in writing'[q] : t < offset' /\ txTable'[t] = 0 /\ t \notin buf'
      <4> SUFFICES ASSUME NEW q \in Slots, NEW t \in writing'[q] PROVE t < offset' /\ txTable'[t] = 0 /\ t \notin buf'
        OBVIOUS
      <4>1. q # s /\ t \in writing[q] /\ t \in WTxs
        BY <1>0, <1>i, <2>2
      <4>2. t \notin writing[s]
        BY <3>2, <4>1
      <4> QED
        BY <2>1, <3>2, <3>3, <4>1, <4>2
    <3>6. \A q, r \in Slots : q # r => writing'[q] \intersect writing'[r] = {}
      BY <2>2, <3>2
    <3>7. \A t \in WTxs : txTable'[t] <= 1 /\ (txTable'[t] > 0 => t < offset')
      <4> SUFFICES ASSUME NEW t \in WTxs PROVE txTable'[t] <= 1 /\ (txTable'[t] > 0 => t < offset')
        OBVIOUS
      <4>1. CASE t \in writing[s]
        <5>1. txTable[t] = 0 /\ t < offset
          BY <3>2, <4>1
        <5> QED
          BY <2>1, <3>1, <4>1, <5>1
      <4>2. CASE t \notin writing[s]
        BY <2>1, <3>2, <3>3, <4>2
      <4> QED
        BY <4>1, <4>2
    <3> QED
      BY <3>4, <3>5, <3>6, <3>7
  <2> QED
    BY <1>1, <2>1, <2>3, <2>4
<1> QED
  BY <1>3, <1>4, <1>m, <1>5, <1>6, <1>7 DEF WalletNext, TickerFlush, MainFlush, Slots

\* Without a fault what is lost or unhandled is in no batch and not in the table.
LEMMA GoneKept == ASSUME WalletInv, [WalletNext]_walletVars PROVE Gone'
<1> USE TxsAre
<1>0. /\ Gone /\ OnePlace /\ walletFaults \in Nat /\ offset \in Nat /\ txTable \in [WTxs -> Nat]
      /\ writing \in [Slots -> SUBSET WTxs] /\ buf \subseteq WTxs
  BY DEF WalletInv, WriterTypes, Ingested
<1>1. ASSUME walletFaults' = walletFaults + 1 PROVE Gone'
  BY <1>0, <1>1 DEF Gone
<1>2. ASSUME UNCHANGED <<offset, buf, writing, txTable, lost, cut, walletFaults>> PROVE Gone'
  BY <1>0, <1>2 DEF Gone
<1>3. CASE Advance \/ Ingest \/ StopWriter \/ ReadWindow \/ ReadRefresh \/ FinishRun \/ UNCHANGED walletVars
  BY <1>2, <1>3 DEF Advance, Ingest, StopWriter, ReadWindow, ReadRefresh, FinishRun, batcher, walletVars
<1>4. CASE FailRun \/ RestartAggregator \/ CrashWriter
  BY <1>1, <1>4 DEF FailRun, RestartAggregator, CrashWriter, WalletFault
<1>5. CASE Add
  <2>1. /\ UNCHANGED <<txTable, lost, cut, walletFaults>> /\ offset' = offset + 1
        /\ buf' \subseteq buf \union {offset}
        /\ \A s \in Slots : writing'[s] \subseteq writing[s] \union buf \union {offset}
    BY <1>0, <1>5 DEF Add
  <2>2. ASSUME walletFaults = 0, NEW t \in lost \union cut
        PROVE  /\ t < offset' /\ t \in WTxs /\ txTable'[t] = 0 /\ t \notin buf'
               /\ \A s \in Slots : t \notin writing'[s]
    <3>1. t < offset /\ t \in WTxs /\ txTable[t] = 0 /\ t \notin buf /\ \A s \in Slots : t \notin writing[s]
      BY <1>0, <2>2 DEF Gone
    <3>2. t \in Nat /\ t # offset
      BY <1>0, <3>1
    <3> QED
      BY <1>0, <2>1, <3>1, <3>2
  <2> QED
    BY <1>0, <2>1, <2>2 DEF Gone
<1>6. CASE MarkAfterSession
  <2>1. /\ UNCHANGED <<txTable, buf, writing, lost>> /\ offset' = offset + 1 /\ cut' = cut \union {offset}
        /\ walletFaults' \in {walletFaults, walletFaults + 1} /\ offset <= Len(blockTime)
    BY <1>6 DEF MarkAfterSession, WalletFault
  <2>2. CASE walletFaults' = walletFaults /\ walletFaults = 0
    <3>1. offset \in WTxs /\ txTable[offset] = 0 /\ offset \notin buf /\ \A s \in Slots : offset \notin writing[s]
      <4>1. offset \in WTxs
        BY <2>1 DEF WalletInv, WriterTypes
      <4> QED
        BY <1>0, <2>2, <4>1 DEF OnePlace
    <3>2. \A t \in lost \union cut : t \in WTxs /\ t < offset
      BY <1>0, <2>2 DEF Gone
    <3>3. offset \notin lost \union cut
      BY <1>0, <3>2
    <3>4. \A t \in lost' \union cut' : t < offset'
      BY <1>0, <2>1, <3>2
    <3> QED
      BY <1>0, <2>1, <2>2, <3>1, <3>3, <3>4 DEF Gone
  <2>3. CASE walletFaults' = walletFaults /\ walletFaults # 0
    BY <2>3 DEF Gone
  <2> QED
    BY <1>1, <2>1, <2>2, <2>3
<1>7. ASSUME NEW s \in Slots, Flush(s) PROVE Gone'
  <2>1. /\ UNCHANGED <<offset, txTable, lost, cut, walletFaults>> /\ buf' = {}
        /\ \A r \in Slots : writing'[r] \subseteq writing[r] \union buf
    BY <1>0, <1>7 DEF Flush
  <2> QED
    BY <1>0, <2>1 DEF Gone
<1>8. ASSUME NEW s \in Slots, Write(s) PROVE Gone'
  <2>1. /\ UNCHANGED <<offset, buf, cut>> /\ writing' = [writing EXCEPT ![s] = {}]
        /\ \/ /\ txTable' = [t \in WTxs |-> IF t \in writing[s] THEN txTable[t] + 1 ELSE txTable[t]]
              /\ UNCHANGED <<lost, walletFaults>>
           \/ txTable' = txTable /\ lost' = lost \union writing[s] /\ walletFaults' = walletFaults
           \/ walletFaults' = walletFaults + 1
    BY <1>8, WriteDoes, Zenon
  <2>2. \A r \in Slots : writing'[r] = IF r = s THEN {} ELSE writing[r]
    BY <1>0, <2>1
  <2>3. CASE txTable' = [t \in WTxs |-> IF t \in writing[s] THEN txTable[t] + 1 ELSE txTable[t]] /\ UNCHANGED <<lost, walletFaults>>
    <3>1. \A t \in WTxs : t \notin writing[s] => txTable'[t] = txTable[t]
      BY <2>3
    <3> QED
      BY <1>0, <2>1, <2>2, <2>3, <3>1 DEF Gone
  <2>4. CASE txTable' = txTable /\ lost' = lost \union writing[s] /\ walletFaults' = walletFaults
    <3>1. walletFaults = 0 => /\ \A t \in writing[s] : t \in WTxs /\ t < offset /\ txTable[t] = 0 /\ t \notin buf /\ t \notin cut
                              /\ \A t \in writing[s], r \in Slots : r # s => t \notin writing[r]
      BY <1>0 DEF OnePlace, Gone
    <3> QED
      BY <1>0, <2>1, <2>2, <2>4, <3>1 DEF Gone
  <2> QED
    BY <1>1, <2>1, <2>3, <2>4
<1> QED
  BY <1>3, <1>4, <1>5, <1>6, <1>7, <1>8 DEF WalletNext, TickerFlush, MainFlush, Slots

\* The window of a tick ends where the next one's begins, and moves only when the tick is stored.
LEMMA CoveredKept == ASSUME WalletInv, [WalletNext]_walletVars PROVE Covered'
<1> USE TxsAre, WalletAssumption
<1>0. /\ Covered /\ WriterTypes /\ WindowTypes /\ clock \in Nat /\ lastTickEnd \in Nat /\ Len(blockTime) \in Nat
      /\ \A t \in InTable : t \in Ingested /\ blockTime[t] \in Nat
  <2>1. Covered /\ WriterTypes /\ WindowTypes /\ clock \in Nat /\ lastTickEnd \in Nat /\ Len(blockTime) \in Nat
    BY DEF WalletInv, WriterTypes, WindowTypes
  <2>2. \A t \in Ingested : blockTime[t] \in Nat
    BY DEF WalletInv, WriterTypes, Ingested
  <2> QED
    BY <2>1, <2>2 DEF WriterTypes
<1>1. ASSUME UNCHANGED <<blockTime, lastTickEnd, run, counted, beyond, missed, txTable>> PROVE Covered'
  BY <1>0, <1>1 DEF Covered, InTable
<1>2. CASE Advance \/ Add \/ MarkAfterSession \/ TickerFlush \/ MainFlush \/ StopWriter \/ CrashWriter \/ UNCHANGED walletVars
  BY <1>1, <1>2 DEF Advance, Add, MarkAfterSession, TickerFlush, MainFlush, Flush, StopWriter, CrashWriter, aggregator, batcher, walletVars
<1>3. CASE Ingest
  <2>1. UNCHANGED <<lastTickEnd, run, counted, beyond, missed, txTable>> /\ blockTime' = Append(blockTime, clock)
    BY <1>3 DEF Ingest, aggregator, batcher
  <2>2. InTable' = InTable
    BY <2>1 DEF InTable
  <2>3. \A t \in InTable : blockTime'[t] = blockTime[t]
    BY <1>0, <2>1 DEF Ingested, WriterTypes
  <2> QED
    BY <1>0, <2>1, <2>2, <2>3 DEF Covered
<1>4. ASSUME NEW s \in Slots, Write(s) PROVE Covered'
  <2>1. /\ UNCHANGED <<blockTime, lastTickEnd, run, counted, beyond>> /\ writing[s] \in SUBSET Ingested
        /\ \/ /\ txTable' = [t \in WTxs |-> IF t \in writing[s] THEN txTable[t] + 1 ELSE txTable[t]]
              /\ missed' = missed \union {t \in writing[s] : blockTime[t] < ReadUpTo}
           \/ UNCHANGED <<txTable, missed>>
    BY <1>4, WriteDoes, Zenon
  <2>2. CASE UNCHANGED <<txTable, missed>>
    BY <1>1, <2>1, <2>2
  <2>3. CASE /\ txTable' = [t \in WTxs |-> IF t \in writing[s] THEN txTable[t] + 1 ELSE txTable[t]]
             /\ missed' = missed \union {t \in writing[s] : blockTime[t] < ReadUpTo}
    <3>1. InTable' = InTable \union writing[s]
      BY <2>1, <2>3, Inserted, Zenon
    <3>2. \A t \in writing[s] : blockTime[t] \in Nat
      BY <1>0, <2>1 DEF Ingested, WriterTypes
    <3>3. \A t \in writing[s] : blockTime[t] < lastTickEnd => t \in missed'
      <4>1. ReadUpTo \in Int /\ lastTickEnd <= ReadUpTo
        BY <1>0 DEF ReadUpTo, WindowTypes
      <4> QED
        BY <1>0, <2>3, <3>2, <4>1
    <3>4. run.kind = "tick" => \A t \in writing[s] : blockTime[t] < run.to => t \in missed'
      BY <2>3 DEF ReadUpTo
    <3> QED
      BY <1>0, <2>1, <2>3, <3>1, <3>3, <3>4 DEF Covered
  <2> QED
    BY <2>1, <2>2, <2>3
<1>5. CASE ReadWindow
  <2>1. /\ UNCHANGED <<blockTime, lastTickEnd, counted, beyond, missed, txTable>>
        /\ run'.kind = "tick" /\ run'.to = clock
        /\ \A t \in TimeRange(lastTickEnd, clock) : t \in run'.txs \union run'.left
    BY <1>5 DEF ReadWindow, batcher
  <2>2. InTable' = InTable
    BY <2>1 DEF InTable
  <2>3. \A t \in InTable : blockTime[t] < clock => t \in counted \union beyond \union missed \/ t \in TimeRange(lastTickEnd, clock)
    BY <1>0 DEF Covered, TimeRange
  <2> QED
    BY <1>0, <2>1, <2>2, <2>3 DEF Covered
<1>6. CASE ReadRefresh
  <2>1. UNCHANGED <<blockTime, lastTickEnd, counted, beyond, missed, txTable>> /\ run'.kind = "refresh"
    BY <1>6 DEF ReadRefresh, batcher
  <2> QED
    BY <1>0, <2>1 DEF Covered, InTable
<1>7. CASE FinishRun
  <2>1. /\ UNCHANGED <<blockTime, missed, txTable>> /\ run' = Idles
        /\ IF run.kind = "tick"
             THEN lastTickEnd' = run.to /\ counted' = counted \union run.txs /\ beyond' = beyond \union run.left
             ELSE UNCHANGED <<lastTickEnd, counted, beyond>>
    BY <1>7 DEF FinishRun, batcher
  <2> QED
    BY <1>0, <2>1 DEF Covered, InTable, Idles
<1>8. CASE FailRun
  <2>1. UNCHANGED <<blockTime, lastTickEnd, counted, beyond, missed, txTable>> /\ run' = Idles
    BY <1>8 DEF FailRun, batcher
  <2> QED
    BY <1>0, <2>1 DEF Covered, InTable, Idles
<1>9. CASE RestartAggregator
  <2>1. /\ UNCHANGED <<blockTime, counted, beyond, txTable>> /\ run' = Idles
        /\ missed' = missed \union {t \in InTable : blockTime[t] < lastTickEnd'}
    BY <1>9 DEF RestartAggregator, batcher
  <2> QED
    BY <1>0, <2>1 DEF Covered, InTable, Idles
<1> QED
  BY <1>2, <1>3, <1>4, <1>5, <1>6, <1>7, <1>8, <1>9 DEF WalletNext

\* A window leaves some of its transactions only when MaxRows were read.
LEMMA FilledKept == ASSUME WalletInv, [WalletNext]_walletVars PROVE Filled'
<1> USE TxsAre, WalletAssumption
<1>0. Filled /\ IsFiniteSet(WTxs)
  BY DEF WalletInv
<1>1. ASSUME UNCHANGED <<run, counted, beyond>> PROVE Filled'
  BY <1>0, <1>1 DEF Filled
<1>2. CASE Advance \/ Ingest \/ Add \/ MarkAfterSession \/ TickerFlush \/ MainFlush \/ StopWriter \/ CrashWriter \/ UNCHANGED walletVars
  BY <1>1, <1>2 DEF Advance, Ingest, Add, MarkAfterSession, TickerFlush, MainFlush, Flush, StopWriter, CrashWriter, aggregator, walletVars
<1>3. ASSUME NEW s \in Slots, Write(s) PROVE Filled'
  BY <1>1, <1>3 DEF Write, aggregator
<1>4. CASE ReadWindow
  <2>1. /\ UNCHANGED <<counted, beyond>> /\ run'.txs \subseteq WTxs
        /\ Cardinality(run'.txs) = MaxRows \/ run'.left = {}
    BY <1>4 DEF ReadWindow, TimeRange, InTable
  <2> QED
    BY <1>0, <2>1 DEF Filled
<1>5. CASE ReadRefresh
  <2>1. UNCHANGED <<counted, beyond>> /\ run'.txs \subseteq WTxs /\ run'.kind = "refresh"
    BY <1>5 DEF ReadRefresh, TimeRange, InTable
  <2> QED
    BY <1>0, <2>1 DEF Filled
<1>6. CASE FinishRun
  <2>1. /\ run' = Idles
        /\ IF run.kind = "tick"
             THEN counted' = counted \union run.txs /\ beyond' = beyond \union run.left
             ELSE UNCHANGED <<counted, beyond>>
    BY <1>6 DEF FinishRun
  <2>2. counted' \subseteq WTxs /\ counted \subseteq counted' /\ (run.kind = "tick" => run.txs \subseteq counted')
    BY <1>0, <2>1 DEF Filled
  <2>3. IsFiniteSet(counted') /\ Cardinality(counted') \in Nat
    BY <1>0, <2>2, FS_Subset, FS_CardinalityType
  <2>4. Cardinality(counted) <= Cardinality(counted') /\ Cardinality(counted) \in Nat
    BY <2>2, <2>3, FS_Subset, FS_CardinalityType
  <2>5. run.kind = "tick" => Cardinality(run.txs) <= Cardinality(counted') /\ Cardinality(run.txs) \in Nat
    BY <2>2, <2>3, FS_Subset, FS_CardinalityType
  <2>6. beyond' # {} => beyond # {} \/ (run.kind = "tick" /\ run.left # {})
    BY <2>1
  <2> QED
    BY <1>0, <2>1, <2>2, <2>3, <2>4, <2>5, <2>6 DEF Filled, Idles
<1>7. CASE FailRun \/ RestartAggregator
  <2>1. UNCHANGED <<counted, beyond>> /\ run' = Idles
    BY <1>7 DEF FailRun, RestartAggregator
  <2> QED
    BY <1>0, <2>1 DEF Filled, Idles
<1> QED
  BY <1>2, <1>3, <1>4, <1>5, <1>6, <1>7 DEF WalletNext

\* The invariant says what the run checks.
LEMMA WalletGood == ASSUME WalletInv PROVE WalletPipelineSound
<1> USE TxsAre, WalletAssumption
<1>1. WalletTypeOK
  <2>1. clock \in 0 .. MaxClock /\ offset \in 1 .. Cardinality(WTxs) + 1
    BY DEF WalletInv, WriterTypes
  <2>2. buf \subseteq WTxs
    BY DEF WalletInv, WriterTypes, Ingested
  <2> QED
    BY <2>1, <2>2 DEF WalletInv, WriterTypes, WindowTypes, WalletTypeOK
<1>2. ConsumedIsStored
  <2>1. \A t \in 1 .. offset - 1 : t \in InTable \union InMemory \union lost \union cut
    BY DEF WalletInv, Stored, InMemory
  <2>2. (lost \union cut # {} /\ walletFaults = 0) => writer # "running"
    BY DEF WalletInv, Stored
  <2>3. ASSUME walletFaults = 0, NEW t \in WTxs
        PROVE  txTable[t] + Once(t, InMemory) + Once(t, lost) + Once(t, cut) = IF t < offset THEN 1 ELSE 0
    <3>1. txTable[t] \in Nat /\ txTable[t] <= 1 /\ (txTable[t] > 0 => t < offset) /\ offset \in Nat /\ t \in Nat /\ t >= 1
      BY <2>3 DEF WalletInv, WriterTypes, OnePlace
    <3>2. t \in InMemory => txTable[t] = 0 /\ t < offset
      BY <2>3 DEF WalletInv, OnePlace, InMemory
    <3>3. t \in lost \union cut => txTable[t] = 0 /\ t < offset /\ t \notin InMemory /\ ~(t \in lost /\ t \in cut)
      BY <2>3 DEF WalletInv, Gone, InMemory
    <3>4. t < offset => txTable[t] > 0 \/ t \in InMemory \/ t \in lost \/ t \in cut
      BY <2>1, <3>1 DEF InTable
    <3> QED
      BY <3>1, <3>2, <3>3, <3>4 DEF Once
  <2> QED
    BY <2>1, <2>2, <2>3 DEF ConsumedIsStored
<1>3. WindowsCover
  BY DEF WalletInv, Covered, Filled, WindowsCover
<1> QED
  BY <1>1, <1>2, <1>3 DEF WalletPipelineSound

\* For any batches, windows, bounds of a read and faults: what was consumed is stored, waits in
\* a batch, was lost with one or was marked after its session had ended; without a fault it is
\* just one of these, and once, and only a writer that stops loses any.  What the table held
\* when its window was read was counted, but for what a tick left that had read MaxRows
\* (writer/main.go, kafka/consumer.go, aggregator/service.go).
THEOREM WalletHolds == WalletSpec => []WalletPipelineSound
<1>1. WalletInit => WalletInv
  BY WalletStart
<1>2. WalletInv /\ [WalletNext]_walletVars => WalletInv'
  BY WriterTypesKept, WindowTypesKept, StoredKept, OnePlaceKept, GoneKept, CoveredKept, FilledKept DEF WalletInv
<1>3. WalletInv => WalletPipelineSound
  BY WalletGood
<1> QED
  BY <1>1, <1>2, <1>3, PTL DEF WalletSpec

(***************************************************************************)
(* WalletAlerts (projects/02): the notifier and the hub                    *)
(***************************************************************************)

Rising(s)   == \A i, j \in DOMAIN s : i < j => s[i] < s[j]
Below(s, t) == \A i \in DOMAIN s, j \in DOMAIN t : s[i] < t[j]
Under(s, x) == \A i \in DOMAIN s : s[i] < x
Over(x, s)  == \A i \in DOMAIN s : x < s[i]

\* The channels of one browser: what it got, what waits for it and what the hub has yet to
\* hand out are rising numbers, each part below the next, and none is to be published yet.
InOrder(r, q, b, n) ==
    /\ r \in Seq(Nat) /\ q \in Seq(Nat) /\ b \in Seq(Nat)
    /\ Rising(r) /\ Rising(q) /\ Rising(b)
    /\ Below(r, q) /\ Below(r, b) /\ Below(q, b)
    /\ Under(r, n) /\ Under(q, n) /\ Under(b, n)

\* Who asked to be registered and was not yet is no client, and asked once; a queue that is
\* closed is no client's and never will be one's; and who left waits to be unregistered.
HubInv ==
    /\ registering \in Seq(Browsers) /\ leaving \in Seq(Browsers) /\ clients \subseteq Browsers
    /\ conn \in [Browsers -> {"none", "open", "closed"}]
    /\ \A i, j \in DOMAIN registering : i # j => registering[i] # registering[j]
    /\ \A c \in Entries(registering) : conn[c] # "none" /\ c \notin clients
    /\ \A c \in clients : conn[c] # "none"
    /\ \A c \in Browsers : send[c].closed => conn[c] # "none" /\ c \notin clients /\ c \notin Entries(registering)
    /\ \A c \in clients \union Entries(registering) :
          conn[c] = "closed" => c \in Entries(leaving) \union overtaken

AlertRules == {"score_below_threshold", "category_flip", "sharp_drop"}

QueuesInv ==
    /\ published \in Seq(AlertRules)
    /\ broadcast \in Seq(Nat) /\ Len(broadcast) <= HubQueue
    /\ received \in [Browsers -> Seq(Nat)]
    /\ send \in [Browsers -> [queue : Seq(Nat), closed : BOOLEAN]]
    /\ \A c \in Browsers : /\ Len(send[c].queue) <= ClientQueue
                           /\ InOrder(received[c], send[c].queue, broadcast, Len(published) + 1)

AlertsInv == updates \in 0 .. MaxUpdates /\ previous \subseteq Scores /\ HubInv /\ QueuesInv

\* What the head of a queue leaves behind: the rest keeps its order and place among the others.
LEMMA TailKeeps ==
    ASSUME NEW s \in Seq(Nat), s # <<>>
    PROVE  /\ Tail(s) \in Seq(Nat) /\ Head(s) \in Nat /\ Len(Tail(s)) = Len(s) - 1
           /\ Rising(s) => Rising(Tail(s)) /\ Over(Head(s), Tail(s))
           /\ \A x \in Nat : Under(s, x) => Under(Tail(s), x) /\ Head(s) < x
           /\ \A t \in Seq(Nat) : Below(s, t) => Below(Tail(s), t) /\ Over(Head(s), t)
           /\ \A t \in Seq(Nat) : Below(t, s) => Below(t, Tail(s)) /\ Under(t, Head(s))
<1>1. /\ Tail(s) \in Seq(Nat) /\ Len(Tail(s)) = Len(s) - 1 /\ Head(s) = s[1] /\ 1 \in DOMAIN s /\ Head(s) \in Nat
      /\ DOMAIN s = 1 .. Len(s) /\ Len(s) \in Nat /\ DOMAIN Tail(s) = 1 .. Len(s) - 1
  OBVIOUS
<1>2. \A i \in DOMAIN Tail(s) : i + 1 \in DOMAIN s /\ Tail(s)[i] = s[i + 1]
  OBVIOUS
<1>3. Rising(s) => Rising(Tail(s)) /\ Over(Head(s), Tail(s))
  <2> SUFFICES ASSUME Rising(s) PROVE Rising(Tail(s)) /\ Over(Head(s), Tail(s))
    OBVIOUS
  <2>1. Rising(Tail(s))
    <3> SUFFICES ASSUME NEW i \in DOMAIN Tail(s), NEW j \in DOMAIN Tail(s), i < j PROVE Tail(s)[i] < Tail(s)[j]
      BY DEF Rising
    <3>1. i \in Int /\ j \in Int /\ i + 1 < j + 1
      BY <1>1
    <3>2. i + 1 \in DOMAIN s /\ j + 1 \in DOMAIN s /\ Tail(s)[i] = s[i + 1] /\ Tail(s)[j] = s[j + 1]
      BY <1>2
    <3>3. s[i + 1] < s[j + 1]
      BY <3>1, <3>2 DEF Rising
    <3> QED
      BY <3>2, <3>3
  <2>2. Over(Head(s), Tail(s))
    BY <1>1, <1>2 DEF Rising, Over
  <2> QED
    BY <2>1, <2>2
<1>4. \A x \in Nat : Under(s, x) => Under(Tail(s), x) /\ Head(s) < x
  BY <1>1, <1>2 DEF Under
<1>5. \A t \in Seq(Nat) : Below(s, t) => Below(Tail(s), t) /\ Over(Head(s), t)
  BY <1>1, <1>2 DEF Below, Over
<1>6. \A t \in Seq(Nat) : Below(t, s) => Below(t, Tail(s)) /\ Under(t, Head(s))
  BY <1>1, <1>2 DEF Below, Under
<1> QED
  BY <1>1, <1>3, <1>4, <1>5, <1>6

\* A message that is newer than those of a queue is appended to it in order.
LEMMA AppendKeeps ==
    ASSUME NEW s \in Seq(Nat), NEW x \in Nat, Under(s, x)
    PROVE  /\ Append(s, x) \in Seq(Nat) /\ Len(Append(s, x)) = Len(s) + 1
           /\ Rising(s) => Rising(Append(s, x))
           /\ \A y \in Nat : Under(s, y) /\ x < y => Under(Append(s, x), y)
           /\ \A t \in Seq(Nat) : Below(s, t) /\ Over(x, t) => Below(Append(s, x), t)
           /\ \A t \in Seq(Nat) : Below(t, s) /\ Under(t, x) => Below(t, Append(s, x))
<1> DEFINE d == Append(s, x)
           L == Len(s)
<1>1. /\ d \in Seq(Nat) /\ Len(d) = L + 1 /\ L \in Nat /\ DOMAIN s = 1 .. L /\ DOMAIN d = 1 .. L + 1
      /\ d[L + 1] = x /\ \A i \in 1 .. L : d[i] = s[i]
  OBVIOUS
<1> HIDE DEF d, L
<1>3. Rising(s) => Rising(d)
  BY <1>1 DEF Rising, Under
<1>4. \A y \in Nat : Under(s, y) /\ x < y => Under(d, y)
  BY <1>1 DEF Under
<1>5. \A t \in Seq(Nat) : Below(s, t) /\ Over(x, t) => Below(d, t)
  <2> SUFFICES ASSUME NEW t \in Seq(Nat), Below(s, t), Over(x, t), NEW i \in DOMAIN d, NEW j \in DOMAIN t
               PROVE  d[i] < t[j]
    BY DEF Below
  <2>1. CASE i \in 1 .. L
    BY <1>1, <2>1 DEF Below
  <2>2. CASE i = L + 1
    BY <1>1, <2>2 DEF Over
  <2> QED
    BY <1>1, <2>1, <2>2
<1>6. \A t \in Seq(Nat) : Below(t, s) /\ Under(t, x) => Below(t, d)
  BY <1>1 DEF Below, Under
<1> QED
  BY <1>1, <1>3, <1>4, <1>5, <1>6 DEF d, L

\* Two rising queues, the second above the first, rise when joined.
LEMMA JoinRises ==
    ASSUME NEW s \in Seq(Nat), NEW t \in Seq(Nat), Rising(s), Rising(t), Below(s, t)
    PROVE  /\ s \o t \in Seq(Nat) /\ Len(s \o t) = Len(s) + Len(t) /\ Rising(s \o t)
           /\ \A y \in Nat : Under(s, y) /\ Under(t, y) => Under(s \o t, y)
           /\ \A u \in Seq(Nat) : Below(s, u) /\ Below(t, u) => Below(s \o t, u)
           /\ \A u \in Seq(Nat) : Below(u, s) /\ Below(u, t) => Below(u, s \o t)
<1> DEFINE d == s \o t
           L == Len(s)
           M == Len(t)
<1>1. /\ d \in Seq(Nat) /\ Len(d) = L + M /\ L \in Nat /\ M \in Nat
      /\ DOMAIN s = 1 .. L /\ DOMAIN t = 1 .. M /\ DOMAIN d = 1 .. L + M
  OBVIOUS
<1>2. \A i \in 1 .. L + M : d[i] = IF i <= L THEN s[i] ELSE t[i - L]
  OBVIOUS
<1> HIDE DEF d, L, M
<1>3. ASSUME NEW i \in DOMAIN d
      PROVE  \/ i \in DOMAIN s /\ d[i] = s[i] /\ i \in Nat /\ i <= L
             \/ (i - L) \in DOMAIN t /\ d[i] = t[i - L] /\ i \in Nat /\ i > L
  <2>1. i \in 1 .. L + M
    BY <1>1
  <2>2. CASE i <= L
    BY <1>1, <1>2, <2>1, <2>2
  <2>3. CASE ~(i <= L)
    <3>1. i - L \in 1 .. M /\ i \in Nat /\ i > L
      BY <1>1, <2>1, <2>3
    <3>2. d[i] = t[i - L]
      BY <1>2, <2>1, <2>3
    <3> QED
      BY <1>1, <3>1, <3>2, Zenon
  <2> QED
    BY <2>2, <2>3
<1>4. Rising(d)
  <2> SUFFICES ASSUME NEW i \in DOMAIN d, NEW j \in DOMAIN d, i < j PROVE d[i] < d[j]
    BY DEF Rising
  <2>0. i \in Nat /\ j \in Nat /\ L \in Nat
    BY <1>1
  <2>1. CASE j <= L
    <3>1. i \in DOMAIN s /\ d[i] = s[i] /\ j \in DOMAIN s /\ d[j] = s[j]
      BY <1>3, <2>0, <2>1
    <3> QED
      BY <3>1 DEF Rising
  <2>2. CASE i <= L /\ j > L
    <3>1. i \in DOMAIN s /\ d[i] = s[i]
      BY <1>3, <2>0, <2>2
    <3>2. (j - L) \in DOMAIN t /\ d[j] = t[j - L]
      BY <1>3, <2>0, <2>2
    <3> QED
      BY <3>1, <3>2 DEF Below
  <2>3. CASE i > L
    <3>1. (i - L) \in DOMAIN t /\ d[i] = t[i - L]
      BY <1>3, <2>0, <2>3
    <3>2. (j - L) \in DOMAIN t /\ d[j] = t[j - L]
      BY <1>3, <2>0, <2>3
    <3>3. i - L < j - L
      BY <2>0
    <3> QED
      BY <3>1, <3>2, <3>3 DEF Rising
  <2> QED
    BY <2>0, <2>1, <2>2, <2>3
<1>5. \A y \in Nat : Under(s, y) /\ Under(t, y) => Under(d, y)
  BY <1>3 DEF Under
<1>6. \A u \in Seq(Nat) : Below(s, u) /\ Below(t, u) => Below(d, u)
  BY <1>3 DEF Below
<1>7. \A u \in Seq(Nat) : Below(u, s) /\ Below(u, t) => Below(u, d)
  BY <1>3 DEF Below
<1> QED
  BY <1>1, <1>4, <1>5, <1>6, <1>7 DEF d, L, M

\* The alerts of an update are numbered on from the last one.
LEMMA NewAlerts ==
    ASSUME NEW n \in Nat, NEW l \in Nat, NEW k \in 0 .. l
    PROVE  LET new == SubSeq([i \in 1 .. l |-> n + i], 1, k)
           IN  /\ new \in Seq(Nat) /\ Len(new) = k /\ Rising(new) /\ Under(new, n + l + 1)
               /\ \A s \in Seq(Nat) : Under(s, n + 1) => Below(s, new)
<1> DEFINE ids == [i \in 1 .. l |-> n + i]
           new == SubSeq(ids, 1, k)
<1>1. ids \in Seq(Nat) /\ Len(ids) = l
  OBVIOUS
<1>2. new \in Seq(Nat) /\ Len(new) = k /\ DOMAIN new = 1 .. k /\ \A i \in 1 .. k : new[i] = ids[i]
  <2> HIDE DEF ids
  <2> QED
    BY <1>1
<1>3. \A i \in DOMAIN new : new[i] = n + i /\ i \in 1 .. k
  BY <1>2
<1> HIDE DEF new, ids
<1>4. Rising(new) /\ Under(new, n + l + 1)
  BY <1>3 DEF Rising, Under
<1>5. ASSUME NEW s \in Seq(Nat), Under(s, n + 1) PROVE Below(s, new)
  <2>1. \A i \in DOMAIN s : s[i] \in Nat /\ s[i] < n + 1
    BY <1>5 DEF Under
  <2> QED
    BY <1>3, <2>1 DEF Below
<1> QED
  BY <1>2, <1>4, <1>5 DEF new, ids

\* What waits in a channel, when it is put in or taken out at the head.
LEMMA EntriesOf ==
    ASSUME NEW S, NEW q \in Seq(S)
    PROVE  /\ \A c : c \in Entries(q) <=> \E i \in DOMAIN q : q[i] = c
           /\ Entries(q) \subseteq S /\ (q = <<>> => Entries(q) = {})
           /\ \A c \in S : Append(q, c) \in Seq(S) /\ Entries(Append(q, c)) = Entries(q) \union {c}
           /\ q # <<>> => Tail(q) \in Seq(S) /\ Head(q) \in S /\ Entries(q) = {Head(q)} \union Entries(Tail(q))
<1>1. Len(q) \in Nat /\ DOMAIN q = 1 .. Len(q) /\ \A i \in DOMAIN q : q[i] \in S
  OBVIOUS
<1>2. (\A c : c \in Entries(q) <=> \E i \in DOMAIN q : q[i] = c) /\ Entries(q) \subseteq S /\ (q = <<>> => Entries(q) = {})
  BY <1>1 DEF Entries
<1>3. ASSUME NEW c \in S PROVE Append(q, c) \in Seq(S) /\ Entries(Append(q, c)) = Entries(q) \union {c}
  <2> DEFINE d == Append(q, c)
             L == Len(q)
  <2>1. d \in Seq(S) /\ L \in Nat /\ DOMAIN d = 1 .. L + 1 /\ d[L + 1] = c /\ DOMAIN q = 1 .. L /\ \A i \in 1 .. L : d[i] = q[i]
    OBVIOUS
  <2> HIDE DEF d, L
  <2>2. Entries(d) \subseteq Entries(q) \union {c}
    BY <2>1 DEF Entries
  <2>3. Entries(q) \subseteq Entries(d) /\ c \in Entries(d)
    BY <2>1 DEF Entries
  <2> QED
    BY <2>1, <2>2, <2>3 DEF d
<1>4. ASSUME q # <<>>
      PROVE  Tail(q) \in Seq(S) /\ Head(q) \in S /\ Entries(q) = {Head(q)} \union Entries(Tail(q))
  <2> DEFINE d == Tail(q)
             L == Len(q)
  <2>1. d \in Seq(S) /\ L \in Nat \ {0} /\ DOMAIN d = 1 .. L - 1 /\ Head(q) = q[1] /\ DOMAIN q = 1 .. L
    BY <1>4
  <2>2. \A i \in 1 .. L - 1 : d[i] = q[i + 1]
    BY <1>4
  <2> HIDE DEF d, L
  <2>3. Entries(q) \subseteq {Head(q)} \union Entries(d)
    <3> SUFFICES ASSUME NEW i \in 1 .. L PROVE q[i] = Head(q) \/ q[i] \in Entries(d)
      BY <2>1 DEF Entries
    <3>1. CASE i = 1
      BY <2>1, <3>1
    <3>2. CASE i # 1
      <4>1. i - 1 \in 1 .. L - 1 /\ (i - 1) + 1 = i
        BY <2>1, <3>2
      <4>2. d[i - 1] = q[i]
        BY <2>2, <4>1
      <4> QED
        BY <2>1, <4>1, <4>2 DEF Entries
    <3> QED
      BY <3>1, <3>2
  <2>4. {Head(q)} \union Entries(d) \subseteq Entries(q)
    <3>1. \A i \in 1 .. L - 1 : i + 1 \in 1 .. L
      BY <2>1
    <3>2. 1 \in 1 .. L
      BY <2>1
    <3> QED
      BY <2>1, <2>2, <3>1, <3>2 DEF Entries
  <2> QED
    BY <1>1, <2>1, <2>3, <2>4 DEF d, L
<1> QED
  BY <1>2, <1>3, <1>4

LEMMA AlertsStart == ASSUME AlertsInit PROVE AlertsInv
<1> USE AlertsAssumption DEF AlertsInit
<1>1. <<>> \in Seq(Browsers) /\ <<>> \in Seq(Nat) /\ <<>> \in Seq(AlertRules) /\ Len(<<>>) = 0 /\ DOMAIN <<>> = {}
  OBVIOUS
<1>2. HubInv
  BY <1>1 DEF HubInv, Entries
<1>3. QueuesInv
  <2>1. received \in [Browsers -> Seq(Nat)] /\ send \in [Browsers -> [queue : Seq(Nat), closed : BOOLEAN]]
    BY <1>1
  <2>2. \A c \in Browsers : received[c] = <<>> /\ send[c].queue = <<>>
    OBVIOUS
  <2>3. InOrder(<<>>, <<>>, <<>>, Len(published) + 1)
    BY <1>1 DEF InOrder, Rising, Below, Under
  <2> QED
    BY <1>1, <2>1, <2>2, <2>3 DEF QueuesInv
<1> QED
  BY <1>2, <1>3 DEF AlertsInv

\* What the hub's loop and the connections do to who is registered.
LEMMA HubKept == ASSUME AlertsInv, [AlertsNext]_alertsVars PROVE HubInv'
<1> USE DEF HubInv
<1>0. HubInv /\ send \in [Browsers -> [queue : Seq(Nat), closed : BOOLEAN]]
  BY DEF AlertsInv, QueuesInv
<1>1. ASSUME UNCHANGED <<hub, conn>>, \A c \in Browsers : send'[c].closed = send[c].closed PROVE HubInv'
  BY <1>0, <1>1 DEF hub, Entries
<1>2. CASE HandleScore \/ RestartNotifier \/ UNCHANGED alertsVars
  BY <1>1, <1>2 DEF HandleScore, RestartNotifier, alertsVars, hub, browser
<1>3. CASE HubFanout
  <2>1. \A c \in Browsers : send'[c].closed = send[c].closed
    BY <1>0, <1>3 DEF HubFanout
  <2> QED
    BY <1>1, <1>3, <2>1 DEF HubFanout, browser
<1>4. CASE \E c \in Browsers : ApplyCommand(c) \/ WriteMessage(c) \/ WriteLoopEnds(c)
  <2> PICK b \in Browsers : ApplyCommand(b) \/ WriteMessage(b) \/ WriteLoopEnds(b)
    BY <1>4
  <2>1. UNCHANGED <<hub, conn>> /\ (send' = send \/ send' = [send EXCEPT ![b].queue = Tail(@)])
    BY DEF ApplyCommand, WriteMessage, WriteLoopEnds
  <2>2. ASSUME NEW c \in Browsers PROVE send'[c].closed = send[c].closed
    <3>1. send[c] \in [queue : Seq(Nat), closed : BOOLEAN]
      BY <1>0
    <3>2. send'[c] = send[c] \/ send'[c] = [send[c] EXCEPT !.queue = Tail(send[c].queue)]
      BY <1>0, <2>1
    <3> QED
      BY <3>1, <3>2
  <2> QED
    BY <1>1, <2>1, <2>2
<1>5. CASE HubRegister
  <2> DEFINE b == Head(registering)
             rest == Tail(registering)
  <2>1. /\ registering # <<>> /\ clients' = clients \union {b} /\ registering' = rest
        /\ UNCHANGED <<leaving, overtaken, conn, send>>
    BY <1>5 DEF HubRegister, browser
  <2>2. rest \in Seq(Browsers) /\ b \in Browsers /\ Entries(registering) = {b} \union Entries(rest)
    BY <1>0, <2>1, EntriesOf, Zenon
  <2>3. /\ \A i, j \in DOMAIN rest : i # j => rest[i] # rest[j]
        /\ \A i \in DOMAIN rest : rest[i] # b
    <3>1. /\ registering \in Seq(Browsers) /\ Len(registering) \in Nat /\ DOMAIN registering = 1 .. Len(registering)
          /\ b = registering[1] /\ DOMAIN rest = 1 .. Len(registering) - 1
      BY <1>0, <2>1
    <3>2. \A i \in 1 .. Len(registering) - 1 : rest[i] = registering[i + 1]
      BY <1>0, <2>1
    <3> HIDE DEF rest, b
    <3>3. \A i, j \in DOMAIN registering : i # j => registering[i] # registering[j]
      BY <1>0
    <3>4. \A i \in DOMAIN rest : i + 1 \in DOMAIN registering /\ 1 \in DOMAIN registering /\ i + 1 # 1 /\ i \in Nat
      BY <3>1
    <3> QED
      BY <3>1, <3>2, <3>3, <3>4
  <2>4. b \notin Entries(rest)
    BY <2>3 DEF Entries
  <2> HIDE DEF b, rest
  <2> QED
    BY <1>0, <2>1, <2>2, <2>3, <2>4
<1>6. CASE HubUnregister
  <2> DEFINE b == Head(leaving)
             rest == Tail(leaving)
  <2>1. /\ leaving # <<>> /\ leaving' = rest /\ clients' = clients \ {b}
        /\ send' = IF b \in clients THEN [send EXCEPT ![b].closed = TRUE] ELSE send
        /\ overtaken' = IF b \in Entries(registering) THEN overtaken \union {b} ELSE overtaken
        /\ UNCHANGED <<registering, conn>>
    BY <1>6 DEF HubUnregister, browser
  <2>2. rest \in Seq(Browsers) /\ b \in Browsers /\ Entries(leaving) = {b} \union Entries(rest)
    BY <1>0, <2>1, EntriesOf, Zenon
  <2> HIDE DEF b, rest
  <2>3. \A c \in Browsers : send'[c].closed => send[c].closed \/ (c = b /\ b \in clients)
    BY <1>0, <2>1, <2>2
  <2>4. Entries(registering)' = Entries(registering)
    BY <2>1 DEF Entries
  <2>5. \A c \in Browsers : send'[c].closed => conn'[c] # "none" /\ c \notin clients' /\ c \notin Entries(registering)'
    BY <1>0, <2>1, <2>3, <2>4
  <2>6. Entries(leaving)' = Entries(rest)
    BY <2>1 DEF Entries
  <2>7. \A c \in clients' \union Entries(registering)' :
          conn'[c] = "closed" => c \in Entries(leaving)' \union overtaken'
    BY <1>0, <2>1, <2>2, <2>4, <2>6
  <2>8. registering' \in Seq(Browsers) /\ leaving' \in Seq(Browsers) /\ clients' \subseteq Browsers
    BY <1>0, <2>1, <2>2
  <2> QED
    BY <1>0, <2>1, <2>4, <2>5, <2>7, <2>8
<1>7. ASSUME NEW b \in Browsers, Connect(b) PROVE HubInv'
  <2> DEFINE more == Append(registering, b)
  <2>1. /\ conn[b] = "none" /\ conn' = [conn EXCEPT ![b] = "open"] /\ registering' = more
        /\ UNCHANGED <<leaving, clients, overtaken, send>>
    BY <1>7 DEF Connect
  <2>2. more \in Seq(Browsers) /\ Entries(more) = Entries(registering) \union {b}
    <3>1. registering \in Seq(Browsers)
      BY <1>0
    <3> QED
      BY <3>1, EntriesOf
  <2>3. b \notin Entries(registering) /\ b \notin clients
    BY <1>0, <2>1
  <2>4. \A i, j \in DOMAIN more : i # j => more[i] # more[j]
    <3>1. /\ Len(registering) \in Nat /\ DOMAIN registering = 1 .. Len(registering)
          /\ DOMAIN more = 1 .. Len(registering) + 1 /\ more[Len(registering) + 1] = b
          /\ \A i \in 1 .. Len(registering) : more[i] = registering[i]
      BY <1>0
    <3> HIDE DEF more
    <3>2. \A i \in DOMAIN registering : registering[i] # b
      BY <2>3 DEF Entries
    <3>3. \A i, j \in DOMAIN registering : i # j => registering[i] # registering[j]
      BY <1>0
    <3> QED
      BY <3>1, <3>2, <3>3
  <2> HIDE DEF more
  <2>5. /\ conn' \in [Browsers -> {"none", "open", "closed"}]
        /\ \A c \in Browsers : conn'[c] = IF c = b THEN "open" ELSE conn[c]
    BY <1>0, <2>1
  <2>6. Entries(registering)' = Entries(more) /\ Entries(leaving)' = Entries(leaving)
    BY <2>1 DEF Entries
  <2>7. Entries(registering) \subseteq Browsers
    BY <1>0, EntriesOf, Zenon
  <2> QED
    BY <1>0, <2>1, <2>2, <2>3, <2>4, <2>5, <2>6, <2>7
<1>8. ASSUME NEW b \in Browsers, ReadLoopEnds(b) PROVE HubInv'
  <2>1. /\ conn[b] = "open" /\ conn' = [conn EXCEPT ![b] = "closed"] /\ leaving' = Append(leaving, b)
        /\ UNCHANGED <<registering, clients, overtaken, send>>
    BY <1>8 DEF ReadLoopEnds
  <2>2. leaving' \in Seq(Browsers) /\ Entries(leaving') = Entries(leaving) \union {b}
    <3>1. leaving \in Seq(Browsers)
      BY <1>0
    <3>2. Append(leaving, b) \in Seq(Browsers) /\ Entries(Append(leaving, b)) = Entries(leaving) \union {b}
      BY <3>1, EntriesOf
    <3> QED
      BY <2>1, <3>2
  <2>3. /\ conn' \in [Browsers -> {"none", "open", "closed"}]
        /\ \A c \in Browsers : conn'[c] = IF c = b THEN "closed" ELSE conn[c]
    BY <1>0, <2>1
  <2>4. Entries(registering)' = Entries(registering) /\ Entries(registering) \subseteq Browsers
    BY <1>0, <2>1, EntriesOf DEF Entries
  <2> QED
    BY <1>0, <2>1, <2>2, <2>3, <2>4
<1> QED
  BY <1>2, <1>3, <1>4, <1>5, <1>6, <1>7, <1>8 DEF AlertsNext

\* Every step moves a message on, or drops one, or adds one that is newer than all.
LEMMA QueuesKept == ASSUME AlertsInv, [AlertsNext]_alertsVars PROVE QueuesInv'
<1> USE AlertsAssumption
<1>0. /\ QueuesInv /\ Len(published) \in Nat /\ HubQueue \in Nat /\ ClientQueue \in Nat
      /\ send \in [Browsers -> [queue : Seq(Nat), closed : BOOLEAN]] /\ received \in [Browsers -> Seq(Nat)]
      /\ broadcast \in Seq(Nat) /\ Len(broadcast) \in Nat
  BY DEF AlertsInv, QueuesInv
<1>1. ASSUME UNCHANGED <<published, broadcast, received>>, send' \in [Browsers -> [queue : Seq(Nat), closed : BOOLEAN]],
             \A c \in Browsers : send'[c].queue = send[c].queue
      PROVE  QueuesInv'
  BY <1>0, <1>1 DEF QueuesInv
<1>2. CASE RestartNotifier \/ HubRegister \/ UNCHANGED alertsVars
  BY <1>0, <1>1, <1>2 DEF RestartNotifier, HubRegister, alertsVars, browser, notifier
<1>3. CASE \E c \in Browsers : Connect(c) \/ ReadLoopEnds(c) \/ ApplyCommand(c) \/ WriteLoopEnds(c)
  BY <1>0, <1>1, <1>3 DEF Connect, ReadLoopEnds, ApplyCommand, WriteLoopEnds, notifier
<1>4. CASE HubUnregister
  <2>1. PICK b : send' = IF b \in clients THEN [send EXCEPT ![b].closed = TRUE] ELSE send
    BY <1>4 DEF HubUnregister
  <2>2. UNCHANGED <<published, broadcast, received>>
    BY <1>4 DEF HubUnregister, notifier, browser
  <2>3. send' \in [Browsers -> [queue : Seq(Nat), closed : BOOLEAN]] /\ \A c \in Browsers : send'[c].queue = send[c].queue
    BY <1>0, <2>1
  <2> QED
    BY <1>1, <2>2, <2>3
<1>5. CASE HandleScore
  <2>1. PICK next \in Scores :
          /\ published' = published \o AlertsOf(next)
          /\ broadcast' = broadcast \o SubSeq([i \in DOMAIN AlertsOf(next) |-> Len(published) + i], 1,
                 IF HubQueue - Len(broadcast) < Len([i \in DOMAIN AlertsOf(next) |-> Len(published) + i])
                   THEN HubQueue - Len(broadcast) ELSE Len([i \in DOMAIN AlertsOf(next) |-> Len(published) + i]))
    BY <1>5 DEF HandleScore
  <2>2. UNCHANGED <<received, send>>
    BY <1>5 DEF HandleScore, browser
  <2> DEFINE n == Len(published)
             l == Len(AlertsOf(next))
             k == IF HubQueue - Len(broadcast) < l THEN HubQueue - Len(broadcast) ELSE l
             new == SubSeq([i \in 1 .. l |-> n + i], 1, k)
  <2>3. AlertsOf(next) \in Seq(AlertRules)
    <3>2. \A s, t \in Seq(AlertRules) : s \o t \in Seq(AlertRules)
      OBVIOUS
    <3>3. (IF DropBelowThreshold(next) THEN <<"score_below_threshold">> ELSE <<>>) \in Seq(AlertRules)
      <4>1. <<"score_below_threshold">> \in Seq(AlertRules)
        BY DEF AlertRules
      <4>2. <<>> \in Seq(AlertRules)
        OBVIOUS
      <4> QED
        BY <4>1, <4>2, Zenon
    <3>4. (IF CategoryFlip(next) THEN <<"category_flip">> ELSE <<>>) \in Seq(AlertRules)
      <4>1. <<"category_flip">> \in Seq(AlertRules)
        BY DEF AlertRules
      <4>2. <<>> \in Seq(AlertRules)
        OBVIOUS
      <4> QED
        BY <4>1, <4>2, Zenon
    <3>5. (IF SharpDrop(next) THEN <<"sharp_drop">> ELSE <<>>) \in Seq(AlertRules)
      <4>1. <<"sharp_drop">> \in Seq(AlertRules)
        BY DEF AlertRules
      <4>2. <<>> \in Seq(AlertRules)
        OBVIOUS
      <4> QED
        BY <4>1, <4>2, Zenon
    <3> QED
      BY <3>2, <3>3, <3>4, <3>5, Zenon DEF AlertsOf
  <2>4. l \in Nat /\ DOMAIN AlertsOf(next) = 1 .. l /\ Len([i \in 1 .. l |-> n + i]) = l
    BY <2>3
  <2>5. broadcast' = broadcast \o new
    BY <2>1, <2>4
  <2>6. k \in 0 .. l /\ Len(broadcast) + k <= HubQueue
    BY <1>0, <2>4 DEF QueuesInv
  <2>7. published' \in Seq(AlertRules) /\ Len(published') = n + l
    BY <2>1, <2>3 DEF AlertsInv, QueuesInv
  <2> HIDE DEF k
  <2>8. /\ new \in Seq(Nat) /\ Len(new) = k /\ Rising(new) /\ Under(new, n + l + 1)
        /\ \A s \in Seq(Nat) : Under(s, n + 1) => Below(s, new)
    BY <1>0, <2>4, <2>6, NewAlerts
  <2> HIDE DEF n, l, new
  <2>9. Len(broadcast') <= HubQueue
    BY <1>0, <2>5, <2>6, <2>8
  <2>10. ASSUME NEW c \in Browsers PROVE InOrder(received[c], send[c].queue, broadcast', Len(published') + 1)
    <3> DEFINE r == received[c]
               q == send[c].queue
    <3>1. InOrder(r, q, broadcast, n + 1) /\ n \in Nat /\ n + l + 1 \in Nat /\ n + 1 <= n + l + 1 /\ n + 1 \in Nat
      BY <1>0, <2>4 DEF QueuesInv, n
    <3> HIDE DEF r, q
    <3>2. \A s \in Seq(Nat) : Under(s, n + 1) => Under(s, n + l + 1)
      BY <3>1 DEF Under
    <3>3. Below(r, new) /\ Below(q, new) /\ Below(broadcast, new)
      BY <2>8, <3>1 DEF InOrder
    <3>4. /\ broadcast' \in Seq(Nat) /\ Rising(broadcast')
          /\ Below(r, broadcast') /\ Below(q, broadcast') /\ Under(broadcast', n + l + 1)
      BY <2>5, <2>8, <3>1, <3>2, <3>3, JoinRises, Zenon DEF InOrder
    <3> QED
      BY <2>7, <3>1, <3>2, <3>4 DEF InOrder, r, q
  <2> QED
    <3>1. broadcast' \in Seq(Nat)
      BY <1>0, <2>5, <2>8
    <3> QED
      BY <1>0, <2>2, <2>7, <2>9, <2>10, <3>1 DEF QueuesInv
<1>6. ASSUME NEW b \in Browsers, WriteMessage(b) PROVE QueuesInv'
  <2> DEFINE q == send[b].queue
             r == received[b]
             n == Len(published) + 1
  <2>1. /\ q # <<>> /\ send' = [send EXCEPT ![b].queue = Tail(@)] /\ UNCHANGED <<published, broadcast>>
        /\ (received' = received \/ received' = [received EXCEPT ![b] = Append(@, Head(q))])
    BY <1>6 DEF WriteMessage, notifier
  <2>2. q \in Seq(Nat) /\ r \in Seq(Nat) /\ InOrder(r, q, broadcast, n) /\ Len(q) <= ClientQueue /\ Len(q) \in Nat /\ n \in Nat
    BY <1>0 DEF QueuesInv
  <2>3. /\ send' \in [Browsers -> [queue : Seq(Nat), closed : BOOLEAN]] /\ send'[b].queue = Tail(q)
        /\ \A c \in Browsers \ {b} : send'[c] = send[c]
    <3>1. Tail(q) \in Seq(Nat)
      BY <2>1, <2>2
    <3> QED
      BY <1>0, <2>1, <3>1
  <2>4. /\ received' \in [Browsers -> Seq(Nat)] /\ \A c \in Browsers \ {b} : received'[c] = received[c]
        /\ (received'[b] = r \/ received'[b] = Append(r, Head(q)))
    <3>1. Append(r, Head(q)) \in Seq(Nat)
      <4>1. r \in Seq(Nat) /\ q \in Seq(Nat) /\ q # <<>>
        BY <2>1, <2>2
      <4> HIDE DEF q, r
      <4>2. Head(q) \in Nat
        BY <4>1
      <4> QED
        BY <4>1, <4>2
    <3> QED
      BY <1>0, <2>1, <3>1
  <2> HIDE DEF q, r, n
  <2>5. /\ Tail(q) \in Seq(Nat) /\ Head(q) \in Nat /\ Len(Tail(q)) = Len(q) - 1
        /\ Rising(Tail(q)) /\ Over(Head(q), Tail(q)) /\ Under(Tail(q), n) /\ Head(q) < n
        /\ Below(Tail(q), broadcast) /\ Over(Head(q), broadcast) /\ Below(r, Tail(q)) /\ Under(r, Head(q))
    BY <1>0, <2>1, <2>2, TailKeeps, Zenon DEF InOrder
  <2>6. InOrder(r, Tail(q), broadcast, n)
    BY <2>2, <2>5 DEF InOrder
  <2>7. InOrder(Append(r, Head(q)), Tail(q), broadcast, n)
    <3>1. /\ Append(r, Head(q)) \in Seq(Nat) /\ Rising(Append(r, Head(q))) /\ Under(Append(r, Head(q)), n)
          /\ Below(Append(r, Head(q)), Tail(q)) /\ Below(Append(r, Head(q)), broadcast)
      BY <2>2, <2>5, AppendKeeps, Zenon DEF InOrder
    <3> QED
      BY <2>2, <2>5, <3>1 DEF InOrder
  <2>8. \A c \in Browsers : Len(send'[c].queue) <= ClientQueue
    <3>1. Len(Tail(q)) <= ClientQueue
      BY <1>0, <2>2, <2>5
    <3>2. \A c \in Browsers : Len(send[c].queue) <= ClientQueue
      BY <1>0 DEF QueuesInv
    <3> QED
      BY <2>3, <3>1, <3>2
  <2>9. \A c \in Browsers : InOrder(received'[c], send'[c].queue, broadcast, n)
    BY <1>0, <2>3, <2>4, <2>6, <2>7 DEF QueuesInv, n
  <2> QED
    BY <1>0, <2>1, <2>3, <2>4, <2>8, <2>9 DEF QueuesInv, n
<1>7. CASE HubFanout
  <2> DEFINE h == Head(broadcast)
             rest == Tail(broadcast)
             n == Len(published) + 1
             Takes(c) == c \in clients /\ Wants(c) /\ Len(send[c].queue) < ClientQueue
  <2>1. /\ broadcast # <<>> /\ broadcast' = rest /\ UNCHANGED <<published, received>>
        /\ send' = [c \in Browsers |-> IF Takes(c) THEN [send[c] EXCEPT !.queue = Append(@, h)] ELSE send[c]]
    BY <1>7 DEF HubFanout, notifier, browser
  <2>2. rest \in Seq(Nat) /\ h \in Nat /\ Len(rest) = Len(broadcast) - 1 /\ n \in Nat
    BY <1>0, <2>1
  <2> HIDE DEF h, rest, Takes
  <2>3. ASSUME NEW c \in Browsers
        PROVE  /\ send[c] \in [queue : Seq(Nat), closed : BOOLEAN]
               /\ \/ send'[c] = [send[c] EXCEPT !.queue = Append(@, h)] /\ Len(send[c].queue) < ClientQueue
                  \/ send'[c] = send[c]
    BY <1>0, <2>1 DEF Takes
  <2>4. ASSUME NEW c \in Browsers
        PROVE  /\ send'[c] \in [queue : Seq(Nat), closed : BOOLEAN] /\ Len(send'[c].queue) <= ClientQueue
               /\ InOrder(received[c], send'[c].queue, rest, n)
    <3> DEFINE q == send[c].queue
               r == received[c]
    <3>1. q \in Seq(Nat) /\ Len(q) \in Nat /\ Len(q) <= ClientQueue /\ InOrder(r, q, broadcast, n)
      BY <1>0, <2>3 DEF QueuesInv
    <3> HIDE DEF q, r
    <3>2. /\ Rising(rest) /\ Over(h, rest) /\ Under(rest, n) /\ h < n
          /\ Below(r, rest) /\ Below(q, rest) /\ Under(q, h) /\ Under(r, h)
      BY <1>0, <2>1, <2>2, <3>1, TailKeeps, Zenon DEF InOrder, h, rest
    <3>3. InOrder(r, q, rest, n)
      BY <2>2, <3>1, <3>2 DEF InOrder
    <3>4. /\ Append(q, h) \in Seq(Nat) /\ Len(Append(q, h)) = Len(q) + 1 /\ Rising(Append(q, h))
          /\ Under(Append(q, h), n) /\ Below(Append(q, h), rest) /\ Below(r, Append(q, h))
      BY <2>2, <3>1, <3>2, AppendKeeps, Zenon DEF InOrder
    <3>5. InOrder(r, Append(q, h), rest, n)
      BY <3>3, <3>4 DEF InOrder
    <3>6. CASE send'[c] = send[c]
      BY <2>3, <3>1, <3>3, <3>6 DEF q, r
    <3>7. CASE send'[c] = [send[c] EXCEPT !.queue = Append(@, h)] /\ Len(send[c].queue) < ClientQueue
      <4>1. send'[c].queue = Append(q, h) /\ send'[c] \in [queue : Seq(Nat), closed : BOOLEAN]
        BY <2>3, <3>4, <3>7 DEF q
      <4>2. Len(q) < ClientQueue
        BY <3>7 DEF q
      <4> QED
        BY <1>0, <3>1, <3>4, <3>5, <4>1, <4>2 DEF r
    <3> QED
      BY <2>3, <3>6, <3>7
  <2>5. send' \in [Browsers -> [queue : Seq(Nat), closed : BOOLEAN]]
    <3>1. DOMAIN send' = Browsers /\ send' = [c \in Browsers |-> send'[c]]
      BY <2>1
    <3> QED
      BY <2>4, <3>1
  <2>6. Len(rest) <= HubQueue
    BY <1>0, <2>2 DEF QueuesInv
  <2>7. broadcast' = rest /\ rest \in Seq(Nat) /\ published' = published /\ received' = received
    BY <2>1, <2>2
  <2>8. published \in Seq(AlertRules)
    BY <1>0 DEF QueuesInv
  <2>9. \A c \in Browsers : Len(send'[c].queue) <= ClientQueue /\ InOrder(received'[c], send'[c].queue, broadcast', Len(published') + 1)
    BY <2>4, <2>7 DEF n
  <2> QED
    BY <1>0, <2>5, <2>6, <2>7, <2>8, <2>9 DEF QueuesInv
<1> QED
  BY <1>2, <1>3, <1>4, <1>5, <1>6, <1>7 DEF AlertsNext

LEMMA AlertsKept == ASSUME AlertsInv, [AlertsNext]_alertsVars PROVE AlertsInv'
<1>0. updates \in 0 .. MaxUpdates /\ previous \subseteq Scores
  BY DEF AlertsInv
<1>1. updates' \in 0 .. MaxUpdates /\ previous' \subseteq Scores
  <2>1. CASE HandleScore
    BY <1>0, <2>1, AlertsAssumption DEF HandleScore
  <2>2. CASE RestartNotifier
    BY <1>0, <2>2 DEF RestartNotifier
  <2>3. ASSUME UNCHANGED <<updates, previous>> PROVE updates' \in 0 .. MaxUpdates /\ previous' \subseteq Scores
    BY <1>0, <2>3
  <2>4. CASE HubRegister \/ HubUnregister \/ HubFanout \/ UNCHANGED alertsVars
    BY <2>3, <2>4 DEF HubRegister, HubUnregister, HubFanout, notifier, alertsVars
  <2>5. CASE \E c \in Browsers : Connect(c) \/ ReadLoopEnds(c) \/ ApplyCommand(c) \/ WriteMessage(c) \/ WriteLoopEnds(c)
    BY <2>3, <2>5 DEF Connect, ReadLoopEnds, ApplyCommand, WriteMessage, WriteLoopEnds, notifier
  <2> QED
    BY <2>1, <2>2, <2>4, <2>5 DEF AlertsNext
<1> QED
  BY <1>1, HubKept, QueuesKept DEF AlertsInv

\* The invariant says what the run checks.
LEMMA AlertsGood == ASSUME AlertsInv PROVE AlertsSound
<1>1. AlertsTypeOK
  BY DEF AlertsInv, QueuesInv, AlertsTypeOK
<1>2. NeverSendOnClosed
  BY DEF AlertsInv, HubInv, NeverSendOnClosed
<1>3. AlertsInOrder
  <2> SUFFICES ASSUME NEW c \in Browsers PROVE Rising(received[c] \o send[c].queue \o broadcast)
    BY DEF AlertsInOrder, Rising
  <2> DEFINE r == received[c]
             q == send[c].queue
  <2>1. InOrder(r, q, broadcast, Len(published) + 1)
    BY DEF AlertsInv, QueuesInv
  <2> HIDE DEF r, q
  <2>2. r \o q \in Seq(Nat) /\ Rising(r \o q) /\ Below(r \o q, broadcast)
    BY <2>1, JoinRises DEF InOrder
  <2>3. Rising((r \o q) \o broadcast)
    BY <2>1, <2>2, JoinRises DEF InOrder
  <2> QED
    BY <2>3 DEF r, q
<1>4. NoGhosts
  BY DEF AlertsInv, HubInv, NoGhosts, Entries
<1> QED
  BY <1>1, <1>2, <1>3, <1>4 DEF AlertsSound

\* With any browsers, queues and updates: the hub never sends on a queue it closed, a browser
\* gets alerts in order and none twice, and who left is forgotten unless its two requests
\* were taken in the wrong order (notifier/service.go, api/websocket.go).
THEOREM AlertsHold == AlertsSpec => []AlertsSound
<1>1. AlertsInit => AlertsInv
  BY AlertsStart
<1>2. AlertsInv /\ [AlertsNext]_alertsVars => AlertsInv'
  BY AlertsKept
<1>3. AlertsInv => AlertsSound
  BY AlertsGood
<1> QED
  BY <1>1, <1>2, <1>3, PTL DEF AlertsSpec

(***************************************************************************)
(* Reports (projects/07): report requests and their cache                  *)
(***************************************************************************)

ReportRecords == [balances : Nat, pnl : Nat, source : {"none", "cache", "llm", "template"}]
AskRecords == [at : {"new", "balances", "pnl", "text", "store", "served", "failed"}, began : Nat,
               report : ReportRecords, tries : Nat, batch : BOOLEAN]

\* A report is whole when its PnL is at most one rewrite behind its balances.
Whole(r, t) == 1 <= r.balances /\ r.balances <= t.balances /\ r.balances - 1 <= r.pnl /\ r.pnl <= t.pnl

\* The inductive invariant: the tables are at most one step apart; what a request has
\* read is at least of the moment it began, its balances are in the tables that its PnL
\* will be read from, and what is cached is whole and was served to a request.
TablesInv ==
    /\ tables \in [balances : Nat, pnl : Nat]
    /\ tables.pnl \in tables.balances - 1 .. tables.balances
    /\ tables.balances <= MaxRewrites

AskTrue(ask, t) ==
    /\ ask.tries <= Retries /\ ask.began <= t.balances
    /\ ask.at \in {"pnl", "text", "store", "served"} =>
          /\ 1 <= ask.report.balances /\ ask.report.balances <= t.balances
          /\ ask.report.source # "cache" => ask.began <= ask.report.balances
    /\ ask.at \in {"text", "store", "served"} => Whole(ask.report, t)
    /\ ask.at \in {"balances", "pnl", "text"} => ask.report.source = "none"
    /\ ask.at = "store" => ask.report.source \in {"llm", "template"}
    /\ ask.at = "store" /\ ask.report.source = "template" => ask.tries = Retries

Served == {a \in Asks : asks[a].at = "served"}

CachedInv ==
    /\ reportCache \in ReportRecords
    /\ reportCache # NoReport => /\ Whole(reportCache, tables) /\ reportCache.source \in {"llm", "template"}
                                 /\ Served # {}
    /\ lateWrite => Cardinality(Served) >= 2

ReportsInv == /\ TablesInv /\ asks \in [Asks -> AskRecords]
              /\ \A a \in Asks : AskTrue(asks[a], tables)
              /\ CachedInv /\ BatchBounded

\* Without a request, a cached report or a rewrite of the tables.
LEMMA ReportsStart == ReportsInit => ReportsInv
<1> SUFFICES ASSUME ReportsInit PROVE ReportsInv
  OBVIOUS
<1> USE ReportsAssumption DEF ReportsInit, ReportsIdle, Unasked, NoReport
<1>1. TablesInv
  BY DEF TablesInv
<1>2. asks \in [Asks -> AskRecords]
  BY DEF AskRecords, ReportRecords
<1>3. \A a \in Asks : AskTrue(asks[a], tables)
  BY DEF AskTrue
<1>4. CachedInv
  BY DEF CachedInv, ReportRecords
<1>5. Busy = {}
  BY DEF Busy
<1>6. BatchBounded
  BY <1>5, FS_EmptySet DEF BatchBounded
<1> QED
  BY <1>1, <1>2, <1>3, <1>4, <1>6 DEF ReportsInv

\* A step of one request: the others keep their records.
LEMMA OneAsk ==
    ASSUME ReportsInv, NEW a \in Asks, NEW r \in AskRecords, Proceeds(a, r),
           asks[a].at \in {"new", "balances", "pnl", "text", "store"}
    PROVE  /\ asks' \in [Asks -> AskRecords] /\ asks'[a] = r
           /\ \A b \in Asks : b # a => asks'[b] = asks[b]
           /\ Served' = IF r.at = "served" THEN Served \union {a} ELSE Served
           /\ Busy' \subseteq Busy \union {a}
           /\ asks[a].at # "new" /\ r.batch = asks[a].batch => Busy' \subseteq Busy
           /\ ~r.batch \/ r.at = "served" => Busy' \subseteq Busy
<1>1. asks' = [asks EXCEPT ![a] = r] /\ asks \in [Asks -> AskRecords]
  BY DEF Proceeds, ReportsInv
<1>2. asks' \in [Asks -> AskRecords] /\ asks'[a] = r /\ \A b \in Asks : b # a => asks'[b] = asks[b]
  BY <1>1
<1>3. Served' = IF r.at = "served" THEN Served \union {a} ELSE Served
  BY <1>2 DEF Served
<1>4. Busy' \subseteq Busy \union {a}
  BY <1>2 DEF Busy
<1>5. ~r.batch \/ r.at = "served" => Busy' \subseteq Busy
  BY <1>2 DEF Busy
<1>6. asks[a].at # "new" /\ r.batch = asks[a].batch => Busy' \subseteq Busy
  BY <1>2 DEF Busy
<1> QED
  BY <1>2, <1>3, <1>4, <1>5, <1>6

\* Fewer are busy.
LEMMA StillBounded ==
    ASSUME BatchBounded, Busy' \subseteq Busy
    PROVE  BatchBounded'
<1>1. IsFiniteSet(Busy)
  BY ReportsAssumption, FS_Subset DEF Busy
<1>2. Cardinality(Busy') <= Cardinality(Busy) /\ Cardinality(Busy') \in Nat /\ Cardinality(Busy) \in Nat
  BY <1>1, FS_Subset, FS_CardinalityType
<1> QED
  BY <1>2, ReportsAssumption DEF BatchBounded

\* A step of one request that leaves the tables and the cache alone.
LEMMA AskProceeds ==
    ASSUME ReportsInv, NEW a \in Asks, NEW r \in AskRecords, Proceeds(a, r),
           asks[a].at \in {"new", "balances", "pnl", "text", "store"},
           UNCHANGED <<tables, reportCache, lateWrite>>, AskTrue(r, tables), BatchBounded'
    PROVE  ReportsInv'
<1>1. /\ asks' \in [Asks -> AskRecords] /\ asks'[a] = r
      /\ \A b \in Asks : b # a => asks'[b] = asks[b]
      /\ Served' = IF r.at = "served" THEN Served \union {a} ELSE Served
  BY OneAsk
<1>2. IsFiniteSet(Served) /\ IsFiniteSet(Served')
  BY <1>1, ReportsAssumption, FS_Subset DEF Served
<1>3. Served \subseteq Served'
  BY <1>1
<1>4. Cardinality(Served) <= Cardinality(Served') /\ Cardinality(Served) \in Nat /\ Cardinality(Served') \in Nat
  BY <1>2, <1>3, FS_Subset, FS_CardinalityType
<1>5. lateWrite' => Cardinality(Served') >= 2
  BY <1>4 DEF ReportsInv, CachedInv
<1>6. CachedInv'
  BY <1>3, <1>5 DEF ReportsInv, CachedInv
<1>7. \A b \in Asks : AskTrue(asks'[b], tables')
  BY <1>1 DEF ReportsInv
<1> QED
  BY <1>1, <1>6, <1>7 DEF ReportsInv, TablesInv

\* The steps one by one: a request reads its balances before its gains, as the tables are written.
LEMMA ReportsStep == ReportsInv /\ [ReportsNext]_reportVars => ReportsInv'
<1> SUFFICES ASSUME ReportsInv, [ReportsNext]_reportVars PROVE ReportsInv'
  OBVIOUS
<1> USE ReportsAssumption
<1>0. /\ tables.balances \in Nat /\ tables.pnl \in Nat /\ tables.pnl \in tables.balances - 1 .. tables.balances
      /\ tables.balances <= MaxRewrites /\ asks \in [Asks -> AskRecords]
      /\ \A a \in Asks : AskTrue(asks[a], tables)
      /\ reportCache \in ReportRecords /\ BatchBounded
  BY DEF ReportsInv, TablesInv, CachedInv
\* The tables are rewritten.
<1>1. ASSUME UNCHANGED <<reportCache, asks, lateWrite>>, TablesInv',
             tables.balances <= tables'.balances, tables.pnl <= tables'.pnl
      PROVE  ReportsInv'
  <2>1. tables'.balances \in Nat /\ tables'.pnl \in Nat
    BY <1>1 DEF TablesInv
  <2>2. ASSUME NEW r \in ReportRecords, Whole(r, tables) PROVE Whole(r, tables')
    BY <1>0, <1>1, <2>1, <2>2 DEF Whole, ReportRecords
  <2>3. ASSUME NEW a \in Asks PROVE AskTrue(asks'[a], tables')
    <3>1. asks'[a] = asks[a] /\ asks[a] \in AskRecords /\ AskTrue(asks[a], tables)
      BY <1>0, <1>1
    <3>2. asks[a].began \in Nat /\ asks[a].report \in ReportRecords /\ asks[a].report.balances \in Nat
      BY <3>1 DEF AskRecords, ReportRecords
    <3> QED
      BY <1>0, <1>1, <2>1, <2>2, <3>1, <3>2 DEF AskTrue
  <2>4. CachedInv'
    BY <1>1, <2>2 DEF ReportsInv, CachedInv, Served
  <2>5. BatchBounded'
    BY <1>0, <1>1 DEF BatchBounded, Busy
  <2> QED
    BY <1>0, <1>1, <2>3, <2>4, <2>5 DEF ReportsInv
<1>2. CASE UpsertTokenBalances
  <2>1. tables' = [tables EXCEPT !.balances = @ + 1] /\ tables.balances = tables.pnl
        /\ tables.balances < MaxRewrites /\ UNCHANGED <<reportCache, asks, modelUp, lateWrite>>
    BY <1>2 DEF UpsertTokenBalances
  <2>2. TablesInv' /\ tables.balances <= tables'.balances /\ tables.pnl <= tables'.pnl
    BY <1>0, <2>1 DEF ReportsInv, TablesInv
  <2> QED
    BY <1>1, <2>1, <2>2
<1>3. CASE UpsertPnL
  <2>1. tables' = [tables EXCEPT !.pnl = @ + 1] /\ tables.pnl < tables.balances
        /\ UNCHANGED <<reportCache, asks, modelUp, lateWrite>>
    BY <1>3 DEF UpsertPnL
  <2>2. TablesInv' /\ tables.balances <= tables'.balances /\ tables.pnl <= tables'.pnl
    BY <1>0, <2>1 DEF ReportsInv, TablesInv
  <2> QED
    BY <1>1, <2>1, <2>2
\* The other steps without a request.
<1>4. CASE ModelChanges
  BY <1>4 DEF ModelChanges, ReportsInv, TablesInv, CachedInv, Served, BatchBounded, Busy
<1>5. CASE Expire
  <2>1. reportCache' = NoReport /\ UNCHANGED <<tables, asks, modelUp, lateWrite>>
    BY <1>5 DEF Expire
  <2>2. CachedInv'
    BY <2>1 DEF ReportsInv, CachedInv, NoReport, ReportRecords, Served
  <2> QED
    BY <2>1, <2>2 DEF ReportsInv, TablesInv, BatchBounded, Busy
\* A request begins.
<1>6. ASSUME NEW a \in Asks, NEW batch \in BOOLEAN, Begin(a, batch) PROVE ReportsInv'
  <2> DEFINE r == [Unasked EXCEPT !.batch = batch, !.began = tables.balances]
             s == IF reportCache = NoReport THEN [r EXCEPT !.at = "balances"]
                  ELSE [r EXCEPT !.at = "served", !.report = [reportCache EXCEPT !.source = "cache"]]
  <2>1. /\ asks[a].at = "new" /\ Proceeds(a, s) /\ UNCHANGED <<tables, reportCache, lateWrite>>
        /\ batch => Cardinality(Busy) < BatchLimit
    BY <1>6 DEF Begin
  <2>2. s \in AskRecords /\ s.batch = batch
    BY <1>0 DEF AskRecords, ReportRecords, Unasked, NoReport
  <2>3. AskTrue(s, tables)
    <3>1. CASE reportCache = NoReport
      BY <1>0, <3>1 DEF AskTrue, Unasked, NoReport
    <3>2. CASE reportCache # NoReport
      BY <1>0, <3>2 DEF AskTrue, Unasked, ReportsInv, CachedInv, Whole, ReportRecords
    <3> QED
      BY <3>1, <3>2
  <2>4. BatchBounded'
    <3> HIDE DEF s
    <3>1. Busy' \subseteq Busy \union {a} /\ (~batch => Busy' \subseteq Busy)
      BY <2>1, <2>2, OneAsk
    <3>2. CASE batch
      <4>1. IsFiniteSet(Busy)
        BY FS_Subset DEF Busy
      <4>2. /\ IsFiniteSet(Busy \union {a}) /\ Cardinality(Busy \union {a}) <= Cardinality(Busy) + 1
            /\ Cardinality(Busy \union {a}) \in Nat /\ Cardinality(Busy) \in Nat
        <5>1. IsFiniteSet(Busy \union {a})
          BY <4>1, FS_AddElement
        <5>2. Cardinality(Busy \union {a}) = Cardinality(Busy) \/ Cardinality(Busy \union {a}) = Cardinality(Busy) + 1
          BY <4>1, FS_AddElement
        <5>3. Cardinality(Busy \union {a}) \in Nat /\ Cardinality(Busy) \in Nat
          BY <4>1, <5>1, FS_CardinalityType
        <5> QED
          BY <5>1, <5>2, <5>3
      <4>3. Cardinality(Busy') <= Cardinality(Busy \union {a}) /\ Cardinality(Busy') \in Nat
        BY <3>1, <4>2, FS_Subset, FS_CardinalityType
      <4> QED
        BY <2>1, <3>2, <4>2, <4>3 DEF BatchBounded
    <3>3. CASE ~batch
      BY <1>0, <3>1, <3>3, StillBounded
    <3> QED
      BY <3>2, <3>3
  <2> HIDE DEF s
  <2> QED
    BY <2>1, <2>2, <2>3, <2>4, AskProceeds
\* A request goes on: it keeps its place in a batch.
<1>7. ASSUME NEW a \in Asks, NEW r \in AskRecords, Proceeds(a, r), UNCHANGED <<tables, reportCache, lateWrite>>,
             asks[a].at \in {"balances", "pnl", "text", "store"}, r.batch = asks[a].batch, AskTrue(r, tables)
      PROVE  ReportsInv'
  <2>1. Busy' \subseteq Busy
    BY <1>7, OneAsk
  <2> QED
    BY <1>0, <1>7, <2>1, StillBounded, AskProceeds
<1>8. ASSUME NEW a \in Asks
      PROVE  /\ asks[a] \in AskRecords /\ AskTrue(asks[a], tables)
             /\ asks[a].report \in ReportRecords /\ asks[a].tries \in Nat /\ asks[a].began \in Nat
             /\ asks[a].report.balances \in Nat /\ asks[a].report.pnl \in Nat
  BY <1>0 DEF AskRecords, ReportRecords
<1>9. ASSUME NEW a \in Asks, GetTokenBalances(a) PROVE ReportsInv'
  <2> DEFINE r == IF tables.balances = 0 THEN [asks[a] EXCEPT !.at = "failed"]
                  ELSE [asks[a] EXCEPT !.at = "pnl", !.report.balances = tables.balances]
  <2>1. asks[a].at = "balances" /\ Proceeds(a, r) /\ UNCHANGED <<tables, reportCache, lateWrite>>
    BY <1>9 DEF GetTokenBalances
  <2>2. r \in AskRecords /\ r.batch = asks[a].batch
    BY <1>0, <1>8 DEF AskRecords, ReportRecords
  <2>3. AskTrue(r, tables)
    BY <1>0, <1>8, <2>1 DEF AskTrue, AskRecords, ReportRecords
  <2> HIDE DEF r
  <2> QED
    BY <1>7, <2>1, <2>2, <2>3
<1>10. ASSUME NEW a \in Asks, GetPnLByToken(a) PROVE ReportsInv'
  <2> DEFINE r == [asks[a] EXCEPT !.at = "text", !.report.pnl = tables.pnl]
  <2>1. asks[a].at = "pnl" /\ Proceeds(a, r) /\ UNCHANGED <<tables, reportCache, lateWrite>>
    BY <1>10 DEF GetPnLByToken
  <2>2. r \in AskRecords /\ r.batch = asks[a].batch
    BY <1>0, <1>8 DEF AskRecords, ReportRecords
  <2>3. AskTrue(r, tables)
    BY <1>0, <1>8, <2>1 DEF AskTrue, Whole, AskRecords, ReportRecords
  <2> HIDE DEF r
  <2> QED
    BY <1>7, <2>1, <2>2, <2>3
<1>11. ASSUME NEW a \in Asks, CallLLM(a) PROVE ReportsInv'
  <2>0. asks[a].at = "text" /\ UNCHANGED <<tables, reportCache, lateWrite>>
    BY <1>11 DEF CallLLM
  <2>1. ASSUME NEW text \in {"llm", "template"}, text = "template" => asks[a].tries = Retries,
               Proceeds(a, [asks[a] EXCEPT !.at = "store", !.report.source = text])
        PROVE  ReportsInv'
    <3> DEFINE r == [asks[a] EXCEPT !.at = "store", !.report.source = text]
    <3>1. r \in AskRecords /\ r.batch = asks[a].batch
      BY <1>8 DEF AskRecords, ReportRecords
    <3>2. r.report.balances = asks[a].report.balances /\ r.report.pnl = asks[a].report.pnl
          /\ r.report.source = text /\ r.at = "store" /\ r.tries = asks[a].tries /\ r.began = asks[a].began
      BY <1>8 DEF AskRecords, ReportRecords
    <3>3. asks[a].report.source # "cache" => asks[a].began <= asks[a].report.balances
      BY <1>8, <2>0 DEF AskTrue
    <3>4. AskTrue(r, tables)
      <4> HIDE DEF r
      <4> QED
        BY <1>8, <2>0, <2>1, <3>2, <3>3 DEF AskTrue, Whole
    <3> HIDE DEF r
    <3> QED
      BY <1>7, <2>0, <2>1, <3>1, <3>4 DEF r
  <2>2. CASE modelUp /\ Proceeds(a, [asks[a] EXCEPT !.at = "store", !.report.source = "llm"])
    BY <2>1, <2>2
  <2>3. CASE Proceeds(a, IF asks[a].tries < Retries THEN [asks[a] EXCEPT !.tries = @ + 1]
                         ELSE [asks[a] EXCEPT !.at = "store", !.report.source = "template"])
    <3>1. CASE asks[a].tries < Retries
      <4> DEFINE r == [asks[a] EXCEPT !.tries = @ + 1]
      <4>1. r \in AskRecords /\ r.batch = asks[a].batch
        BY <1>8 DEF AskRecords
      <4>2. AskTrue(r, tables)
        BY <1>8, <2>0, <3>1 DEF AskTrue, AskRecords
      <4>3. Proceeds(a, r)
        BY <2>3, <3>1
      <4> HIDE DEF r
      <4> QED
        BY <1>7, <2>0, <4>1, <4>2, <4>3
    <3>2. CASE ~(asks[a].tries < Retries)
      <4>1. asks[a].tries = Retries
        BY <1>8, <3>2 DEF AskTrue
      <4>2. Proceeds(a, [asks[a] EXCEPT !.at = "store", !.report.source = "template"])
        BY <2>3, <3>2
      <4> QED
        BY <2>1, <4>1, <4>2
    <3> QED
      BY <3>1, <3>2
  <2> QED
    BY <1>11, <2>2, <2>3 DEF CallLLM
<1>12. ASSUME NEW a \in Asks, ContextEnds(a) PROVE ReportsInv'
  <2>0. asks[a].at \in {"balances", "pnl", "text", "store"} /\ UNCHANGED <<tables, reportCache, lateWrite>>
    BY <1>12 DEF ContextEnds
  <2>1. CASE asks[a].at \in {"balances", "pnl"}
    <3> DEFINE r == [asks[a] EXCEPT !.at = "failed"]
    <3>1. r \in AskRecords /\ r.batch = asks[a].batch
      BY <1>8 DEF AskRecords
    <3>2. AskTrue(r, tables)
      BY <1>8 DEF AskTrue, AskRecords
    <3>3. Proceeds(a, r)
      BY <1>12, <2>1 DEF ContextEnds
    <3> HIDE DEF r
    <3> QED
      BY <1>7, <2>0, <3>1, <3>2, <3>3
  <2>2. CASE asks[a].at \in {"text", "store"}
    <3> DEFINE source == IF asks[a].at = "text" THEN "template" ELSE asks[a].report.source
               r == [asks[a] EXCEPT !.at = "served", !.report.source = source]
    <3>0. source \in {"llm", "template"} /\ asks[a].at \notin {"balances", "pnl"}
      BY <1>8, <2>2 DEF AskTrue
    <3>1. r \in AskRecords /\ r.batch = asks[a].batch
      <4> HIDE DEF source
      <4> QED
        BY <1>8, <3>0 DEF AskRecords, ReportRecords
    <3>2. r.report.balances = asks[a].report.balances /\ r.report.pnl = asks[a].report.pnl
          /\ r.at = "served" /\ r.tries = asks[a].tries /\ r.began = asks[a].began
      <4> HIDE DEF source
      <4> QED
        BY <1>8 DEF AskRecords, ReportRecords
    <3>3. Proceeds(a, r)
      BY <1>12, <3>0 DEF ContextEnds
    <3>4. asks[a].began <= asks[a].report.balances
      BY <1>8, <2>2 DEF AskTrue
    <3>5. AskTrue(r, tables)
      <4> HIDE DEF r
      <4> QED
        BY <1>8, <2>2, <3>2, <3>4 DEF AskTrue, Whole
    <3> HIDE DEF r
    <3> QED
      BY <1>7, <2>0, <3>1, <3>3, <3>5
  <2> QED
    BY <2>0, <2>1, <2>2
\* A report is cached: when it is older than the cached one, that one was served to another.
<1>13. ASSUME NEW a \in Asks, SetReport(a) PROVE ReportsInv'
  <2> DEFINE r == [asks[a] EXCEPT !.at = "served"]
  <2>1. /\ asks[a].at = "store" /\ Proceeds(a, r) /\ UNCHANGED tables
        /\ reportCache' = asks[a].report
        /\ lateWrite' = (lateWrite \/ asks[a].report.balances < reportCache.balances)
    BY <1>13 DEF SetReport
  <2>2. r \in AskRecords /\ r.batch = asks[a].batch /\ r.at = "served"
    BY <1>8 DEF AskRecords
  <2>3. AskTrue(r, tables)
    BY <1>8, <2>1 DEF AskTrue, Whole, AskRecords, ReportRecords
  <2>4. /\ asks' \in [Asks -> AskRecords] /\ asks'[a] = r
        /\ \A b \in Asks : b # a => asks'[b] = asks[b]
        /\ Served' = Served \union {a} /\ Busy' \subseteq Busy
    <3> HIDE DEF r
    <3> QED
      BY <2>1, <2>2, OneAsk
  <2>5. a \notin Served /\ IsFiniteSet(Served) /\ IsFiniteSet(Served \union {a})
    BY <2>1, FS_Subset, FS_AddElement DEF Served
  <2>6. /\ Cardinality(Served') = Cardinality(Served) + 1 /\ Cardinality(Served) \in Nat
        /\ Served # {} => Cardinality(Served) >= 1
    BY <2>4, <2>5, FS_AddElement, FS_CardinalityType, FS_EmptySet
  <2>7. lateWrite' => Cardinality(Served') >= 2
    <3>1. CASE lateWrite
      BY <2>6, <3>1 DEF ReportsInv, CachedInv
    <3>2. CASE asks[a].report.balances < reportCache.balances
      <4>1. reportCache # NoReport
        BY <1>8, <3>2 DEF NoReport
      <4> QED
        BY <2>6, <4>1 DEF ReportsInv, CachedInv
    <3> QED
      BY <2>1, <3>1, <3>2
  <2>8. CachedInv'
    BY <1>8, <2>1, <2>4, <2>7 DEF CachedInv, AskTrue
  <2>9. BatchBounded'
    BY <1>0, <2>4, StillBounded
  <2>10. \A b \in Asks : AskTrue(asks'[b], tables')
    BY <1>8, <2>1, <2>3, <2>4
  <2> QED
    BY <2>1, <2>4, <2>8, <2>9, <2>10 DEF ReportsInv, TablesInv
<1>14. CASE UNCHANGED reportVars
  BY <1>14 DEF reportVars, ReportsInv, TablesInv, CachedInv, Served, BatchBounded, Busy
<1> QED
  BY <1>2, <1>3, <1>4, <1>5, <1>6, <1>9, <1>10, <1>11, <1>12, <1>13, <1>14 DEF ReportsNext

LEMMA ReportsInvariant == ReportsSpec => []ReportsInv
  BY ReportsStart, ReportsStep, PTL DEF ReportsSpec

\* With any number of requests, retries and rewrites of the tables: a report is not older than
\* its request, its gains are at most one rewrite behind its balances, what is cached is whole
\* and marked, and a batch stays within its limit (handlers.go, client.go, cache.go).
THEOREM ReportsHold == ReportsSpec => []ReportsSound
<1>1. ReportsInv => ReportsSound
  <2> SUFFICES ASSUME ReportsInv PROVE ReportsSound
    OBVIOUS
  <2>1. ReportsTypeOK
    BY ReportsAssumption DEF ReportsInv, TablesInv, ReportsTypeOK, AskTrue, AskRecords
  <2>2. ReportConsistent
    BY DEF ReportsInv, ReportConsistent, AskTrue, Whole
  <2>3. CacheHonest
    BY DEF ReportsInv, CachedInv, CacheHonest, AskTrue, Whole, Served
  <2> QED
    BY <2>1, <2>2, <2>3 DEF ReportsInv, ReportsSound
<1> QED
  BY <1>1, ReportsInvariant, PTL

(***************************************************************************)
(* RateLimits (projects/02 and 03): the limiters                           *)
(***************************************************************************)

CallRecords == [at : Nat, allowed : BOOLEAN]

\* The counter after the calls c: the calls of an unbroken window are numbered on, and
\* the ones let through are those numbered up to the limit.
CountedInv(c, n, expires) ==
    /\ c = <<>> => n = 0
    /\ c # <<>> => /\ expires = c[Len(c)].at + WindowLength
                   /\ n \in Nat \ {0} /\ (c[Len(c)].allowed <=> n <= Limit)
                   /\ \A i \in DOMAIN c : c[Len(c)].at < c[i].at + WindowLength => n >= Len(c) - i + 1
    /\ \A i, j \in DOMAIN c : i <= j /\ c[j].at < c[i].at + WindowLength /\ c[j].allowed => j - i + 1 <= Limit
    /\ \A i, j \in DOMAIN c :
          j = i + 1 /\ ~c[i].allowed /\ c[j].at < c[i].at + WindowLength => ~c[j].allowed

\* The bucket after the calls b: when it was last paid from; what it let through between
\* two calls it held or gained; and so it is since any call, with what it still holds.
PaidLast(b, ts, expires) ==
    /\ b # <<>> => /\ expires = b[Len(b)].at + Expiry
                   /\ ts \in b[Len(b)].at - skew .. b[Len(b)].at
    /\ b = <<>> => expires <= seconds

Gain(b, i, j) == Full + Limit * (b[j].at - b[i].at + skew * (j - i))

NeverOverdrawn(b) == \A i, j \in DOMAIN b : i <= j => AllowedIn(b, i, j) * Minute <= Gain(b, i, j)

StillHeld(b, tokens) == \A i \in DOMAIN b : AllowedIn(b, i, Len(b)) * Minute + tokens <= Gain(b, i, Len(b))

BucketInv(b, tokens, ts, expires) ==
    /\ tokens \in Nat /\ tokens <= Full /\ ts \in Int
    /\ PaidLast(b, ts, expires) /\ NeverOverdrawn(b) /\ StillHeld(b, tokens)

\* The calls are dated in order.
Dated(c) == /\ c \in Seq(CallRecords)
            /\ \A i \in DOMAIN c : c[i].at <= seconds
            /\ \A i, j \in DOMAIN c : i <= j => c[i].at <= c[j].at

LimitsInv ==
    /\ seconds \in Nat /\ skew \in Nat
    /\ Dated(calls.counter) /\ Dated(calls.bucket)
    /\ counter \in [n : Nat, expires : Int] /\ bucket \in [tokens : Nat, ts : Int, expires : Int]
    /\ calls \in [counter : Seq(CallRecords), bucket : Seq(CallRecords)]
    /\ CountedInv(calls.counter, counter.n, counter.expires)
    /\ BucketInv(calls.bucket, bucket.tokens, bucket.ts, bucket.expires)

\* The calls of a history by their number.
LEMMA CallsAre ==
    ASSUME NEW c \in Seq(CallRecords)
    PROVE  Len(c) \in Nat /\ DOMAIN c = 1 .. Len(c) /\ \A i \in DOMAIN c : c[i] \in CallRecords /\ c[i].at \in Nat
<1>1. Len(c) \in Nat /\ DOMAIN c = 1 .. Len(c) /\ \A i \in DOMAIN c : c[i] \in CallRecords
  OBVIOUS
<1> QED
  BY <1>1 DEF CallRecords

\* The calls let through are counted one by one.
LEMMA AllowedCount ==
    ASSUME NEW c \in Seq(CallRecords), NEW i \in Nat, NEW j \in Nat
    PROVE  AllowedIn(c, i, j) \in Nat /\ (i > j => AllowedIn(c, i, j) = 0)
<1>1. IsFiniteSet({k \in i .. j : c[k].allowed})
  <2>1. IsFiniteSet(i .. j)
    BY FS_Interval
  <2> QED
    BY <2>1, FS_Subset
<1>2. i > j => {k \in i .. j : c[k].allowed} = {}
  OBVIOUS
<1> QED
  BY <1>1, <1>2, FS_CardinalityType, FS_EmptySet DEF AllowedIn

\* One more call comes last and leaves the others alone.
LEMMA CallAppended ==
    ASSUME NEW c \in Seq(CallRecords), NEW r \in CallRecords
    PROVE  /\ Append(c, r) \in Seq(CallRecords) /\ Append(c, r) # <<>>
           /\ Len(c) \in Nat /\ DOMAIN c = 1 .. Len(c)
           /\ Len(Append(c, r)) = Len(c) + 1 /\ DOMAIN Append(c, r) = 1 .. Len(c) + 1
           /\ Append(c, r)[Len(c) + 1] = r
           /\ \A i \in 1 .. Len(c) : Append(c, r)[i] = c[i] /\ c[i] \in CallRecords
           /\ c = <<>> <=> Len(c) = 0
<1>1. Append(c, r) \in Seq(CallRecords) /\ Append(c, r) # <<>>
  OBVIOUS
<1>2. Len(c) \in Nat /\ DOMAIN c = 1 .. Len(c) /\ \A i \in 1 .. Len(c) : c[i] \in CallRecords
  OBVIOUS
<1>3. Len(Append(c, r)) = Len(c) + 1 /\ DOMAIN Append(c, r) = 1 .. Len(c) + 1
  OBVIOUS
<1>4. Append(c, r)[Len(c) + 1] = r /\ \A i \in 1 .. Len(c) : Append(c, r)[i] = c[i]
  OBVIOUS
<1>5. c = <<>> <=> Len(c) = 0
  OBVIOUS
<1> QED
  BY <1>1, <1>2, <1>3, <1>4, <1>5

\* The record of a call, field by field.
LEMMA CallMade ==
    ASSUME NEW now \in Nat, NEW m \in Int, NEW n \in Int
    PROVE  /\ [at |-> now, allowed |-> m <= n] \in CallRecords
           /\ [at |-> now, allowed |-> m <= n].at = now
           /\ [at |-> now, allowed |-> m <= n].allowed <=> m <= n
<1>1. [at |-> now, allowed |-> m <= n] \in CallRecords
  <2>1. (m <= n) \in BOOLEAN
    OBVIOUS
  <2> QED
    BY <2>1, Zenon DEF CallRecords
<1>2. [at |-> now, allowed |-> m <= n].at = now
  OBVIOUS
<1>3. [at |-> now, allowed |-> m <= n].allowed <=> m <= n
  OBVIOUS
<1> QED
  BY <1>1, <1>2, <1>3

\* The last call of a history that has one.
LEMMA LastCall ==
    ASSUME NEW b \in Seq(CallRecords), b # <<>>
    PROVE  /\ Len(b) \in Nat /\ DOMAIN b = 1 .. Len(b) /\ Len(b) \in DOMAIN b
           /\ b[Len(b)] \in CallRecords /\ b[Len(b)].at \in Nat
<1>1. Len(b) \in Nat /\ DOMAIN b = 1 .. Len(b) /\ Len(b) \in DOMAIN b /\ b[Len(b)] \in CallRecords
  OBVIOUS
<1> QED
  BY <1>1 DEF CallRecords

\* One more call counts where it is let through.
LEMMA AllowedAppend ==
    ASSUME NEW c \in Seq(CallRecords), NEW r \in CallRecords
    PROVE  /\ \A i, j \in DOMAIN c : AllowedIn(Append(c, r), i, j) = AllowedIn(c, i, j)
           /\ \A i \in 1 .. Len(c) + 1 :
                 AllowedIn(Append(c, r), i, Len(c) + 1) = AllowedIn(c, i, Len(c)) + (IF r.allowed THEN 1 ELSE 0)
<1> DEFINE d == Append(c, r)
           L == Len(c)
<1>0. L \in Nat /\ DOMAIN c = 1 .. L /\ d[L + 1] = r /\ \A i \in 1 .. L : d[i] = c[i]
  BY CallAppended
<1> HIDE DEF d, L
<1>1. ASSUME NEW i \in DOMAIN c, NEW j \in DOMAIN c PROVE AllowedIn(d, i, j) = AllowedIn(c, i, j)
  <2>1. \A k \in i .. j : d[k] = c[k]
    BY <1>0
  <2>2. {k \in i .. j : d[k].allowed} = {k \in i .. j : c[k].allowed}
    BY <2>1
  <2> QED
    BY <2>2 DEF AllowedIn
<1>2. ASSUME NEW i \in 1 .. L + 1
      PROVE  AllowedIn(d, i, L + 1) = AllowedIn(c, i, L) + (IF r.allowed THEN 1 ELSE 0)
  <2> DEFINE old == {k \in i .. L : c[k].allowed}
             new == {k \in i .. L + 1 : d[k].allowed}
  <2>0. IsFiniteSet(i .. L)
    BY <1>0, FS_Interval
  <2>1. IsFiniteSet(old) /\ L + 1 \notin old
    BY <1>0, <2>0, FS_Subset
  <2>2. Cardinality(old) \in Nat
    BY <2>1, FS_CardinalityType
  <2>3. \A k \in i .. L : d[k] = c[k]
    BY <1>0
  <2>4. CASE r.allowed
    <3>1. new = old \union {L + 1}
      BY <1>0, <2>3, <2>4
    <3>2. Cardinality(new) = Cardinality(old) + 1
      <4> HIDE DEF old, new
      <4> QED
        BY <2>1, <3>1, FS_AddElement
    <3> QED
      BY <2>4, <3>2 DEF AllowedIn
  <2>5. CASE ~r.allowed
    <3>1. new = old
      BY <1>0, <2>3, <2>5
    <3>2. AllowedIn(d, i, L + 1) = Cardinality(new) /\ AllowedIn(c, i, L) = Cardinality(old)
      BY DEF AllowedIn
    <3> HIDE DEF old, new
    <3> QED
      BY <2>2, <2>5, <3>1, <3>2
  <2> QED
    BY <2>4, <2>5
<1> QED
  BY <1>0, <1>1, <1>2 DEF d, L

\* The counter goes on with its window, or starts a new one, and refuses what is numbered
\* beyond the limit.
LEMMA CountedStep ==
    ASSUME NEW c \in Seq(CallRecords), NEW n \in Nat, NEW e \in Int, NEW now \in Nat,
           \A i \in DOMAIN c : c[i].at <= now, \A i, j \in DOMAIN c : i <= j => c[i].at <= c[j].at,
           CountedInv(c, n, e), NEW m, m = IF now < e THEN n + 1 ELSE 1
    PROVE  CountedInv(Append(c, [at |-> now, allowed |-> m <= Limit]), m, now + WindowLength)
<1> DEFINE r == [at |-> now, allowed |-> m <= Limit]
           d == Append(c, r)
           L == Len(c)
<1> USE LimitsAssumption
<1>m. m \in Nat \ {0} /\ m \in Int /\ Limit \in Int
  OBVIOUS
<1>r. r \in CallRecords
  BY <1>m, CallMade, Zenon
<1>0. /\ L \in Nat /\ DOMAIN c = 1 .. L /\ Len(d) = L + 1 /\ DOMAIN d = 1 .. L + 1 /\ d # <<>>
      /\ d[L + 1] = r /\ \A i \in 1 .. L : d[i] = c[i] /\ c[i].at \in Nat
      /\ c # <<>> <=> L > 0
  <2> HIDE DEF r
  <2> QED
    BY <1>r, CallAppended DEF CallRecords
<1>1. m \in Nat \ {0} /\ r.at = now /\ (r.allowed <=> m <= Limit)
  BY <1>m, CallMade
<1> HIDE DEF d, r
<1>2. ASSUME NEW i \in 1 .. L, now < c[i].at + WindowLength
      PROVE  m = n + 1 /\ n >= L - i + 1
  <2>1. c # <<>> /\ L \in DOMAIN c /\ c[i].at <= c[L].at /\ c[L].at <= now /\ c[L].at \in Nat
    BY <1>0
  <2>2. e = c[L].at + WindowLength /\ (c[L].at < c[i].at + WindowLength => n >= L - i + 1)
    BY <1>0, <2>1 DEF CountedInv
  <2> QED
    BY <1>0, <1>2, <2>1, <2>2
<1>3. ASSUME NEW i \in 1 .. L + 1, now < d[i].at + WindowLength PROVE m >= (L + 1) - i + 1
  <2>1. CASE i = L + 1
    BY <1>0, <1>1, <2>1
  <2>2. CASE i # L + 1
    BY <1>0, <1>2, <1>3, <2>2
  <2> QED
    BY <2>1, <2>2
<1>4. ASSUME NEW i \in 1 .. L + 1, NEW j \in 1 .. L + 1, i <= j, d[j].at < d[i].at + WindowLength, d[j].allowed
      PROVE  j - i + 1 <= Limit
  <2>1. CASE j = L + 1
    BY <1>0, <1>1, <1>3, <1>4, <2>1
  <2>2. CASE j # L + 1
    <3>1. i \in 1 .. L /\ j \in 1 .. L /\ d[i] = c[i] /\ d[j] = c[j]
      BY <1>0, <1>4, <2>2
    <3> QED
      BY <1>0, <1>4, <3>1 DEF CountedInv
  <2> QED
    BY <2>1, <2>2
<1>5. ASSUME NEW i \in 1 .. L + 1, NEW j \in 1 .. L + 1, j = i + 1, ~d[i].allowed, d[j].at < d[i].at + WindowLength
      PROVE  ~d[j].allowed
  <2>1. CASE j = L + 1
    <3>1. i = L /\ c # <<>> /\ ~c[L].allowed /\ now < c[L].at + WindowLength /\ L \in 1 .. L
      <4>0. i = L /\ L \in 1 .. L
        <5>1. j = i + 1
          BY <1>5
        <5>2. L \in Nat /\ j = L + 1
          BY <1>0, <2>1
        <5> HIDE DEF L
        <5> QED
          BY <5>1, <5>2
      <4>1. i = L /\ L \in 1 .. L /\ d[i] = c[L] /\ d[j] = r
        BY <1>0, <2>1, <4>0
      <4> QED
        BY <1>0, <1>1, <1>5, <4>1
    <3>2. ~(n <= Limit)
      BY <3>1 DEF CountedInv
    <3>3. m = n + 1
      BY <1>2, <3>1
    <3> QED
      BY <1>0, <1>1, <2>1, <3>2, <3>3
  <2>2. CASE j # L + 1
    <3>1. i \in 1 .. L /\ j \in 1 .. L /\ d[i] = c[i] /\ d[j] = c[j]
      BY <1>0, <1>5, <2>2
    <3> QED
      BY <1>0, <1>5, <3>1 DEF CountedInv
  <2> QED
    BY <2>1, <2>2
<1>6. CountedInv(d, m, now + WindowLength)
  BY <1>0, <1>1, <1>3, <1>4, <1>5 DEF CountedInv
<1> QED
  BY <1>6 DEF d, r

LEMMA Times == \A a, b, c \in Int : a * (b + c) = a * b + a * c
  OBVIOUS

LEMMA TimesOrder == \A a, b, c \in Nat : b <= c => a * b <= a * c
  OBVIOUS

\* Refilled, of a bucket with t tokens.
PaidOut(t, ts, e, behind) ==
    IF seconds >= e THEN Full
    ELSE LET elapsed == IF seconds - behind > ts THEN seconds - behind - ts ELSE 0
             tokens == t + elapsed * Limit
         IN IF tokens > Full THEN Full ELSE tokens

\* What one more call does to the bucket: gain is the least and the most it was paid.
LEMMA BucketStep ==
    ASSUME NEW b \in Seq(CallRecords), NEW t \in Int, NEW ts \in Int, NEW e \in Int, NEW behind \in 0 .. skew,
           seconds \in Nat, skew \in Nat, Dated(b), BucketInv(b, t, ts, e),
           NEW filled, filled = PaidOut(t, ts, e, behind)
    PROVE  /\ filled \in Nat /\ filled <= Full
           /\ b # <<>> => filled <= t + Limit * (seconds - b[Len(b)].at + skew)
<1> USE LimitsAssumption
<1>1. Full \in Nat /\ t \in Nat /\ t <= Full /\ PaidLast(b, ts, e)
  BY DEF Full, BucketInv
<1>4. b # <<>> => b[Len(b)].at \in Nat /\ b[Len(b)].at <= seconds
  BY LastCall DEF Dated
<1>2. CASE seconds >= e
  <2>1. filled = Full
    BY <1>2 DEF PaidOut
  <2>2. ASSUME b # <<>> PROVE filled <= t + Limit * (seconds - b[Len(b)].at + skew)
    <3> DEFINE at == b[Len(b)].at
    <3>1. at \in Nat /\ e = at + 2 * Minute
      BY <1>1, <1>4, <2>2 DEF PaidLast, Expiry
    <3> HIDE DEF at
    <3>2. Minute <= seconds - at + skew /\ seconds - at + skew \in Nat
      BY <1>2, <3>1
    <3>3. Limit * Minute <= Limit * (seconds - at + skew)
      BY <3>2, TimesOrder
    <3>4. Limit * (seconds - at + skew) \in Nat
      BY <3>2
    <3> QED
      BY <1>1, <2>1, <3>3, <3>4 DEF Full, at
  <2> QED
    BY <1>1, <2>1, <2>2
<1>3. CASE ~(seconds >= e)
  <2> DEFINE elapsed == IF seconds - behind > ts THEN seconds - behind - ts ELSE 0
  <2>1. elapsed \in Nat
    OBVIOUS
  <2>2. filled = IF t + elapsed * Limit > Full THEN Full ELSE t + elapsed * Limit
    BY <1>3 DEF PaidOut
  <2>3. b # <<>>
    BY <1>1, <1>3 DEF PaidLast
  <2> DEFINE at == b[Len(b)].at
  <2>4. at \in Nat /\ at <= seconds /\ ts \in at - skew .. at
    BY <1>1, <1>4, <2>3 DEF PaidLast
  <2>5. elapsed <= seconds - at + skew /\ seconds - at + skew \in Nat
    <3> HIDE DEF at
    <3> QED
      BY <2>4
  <2> HIDE DEF elapsed, at
  <2>6. elapsed * Limit = Limit * elapsed /\ Limit * elapsed \in Nat
    BY <2>1
  <2>7. Limit * elapsed <= Limit * (seconds - at + skew) /\ Limit * (seconds - at + skew) \in Nat
    BY <2>1, <2>5, TimesOrder
  <2>8. filled \in Nat /\ filled <= Full /\ filled <= t + Limit * (seconds - at + skew)
    BY <1>1, <2>2, <2>6, <2>7
  <2> QED
    BY <2>8 DEF at
<1> QED
  BY <1>2, <1>3

\* What was held and gained from x to y, between calls i and l, and what is paid for the
\* time since y, make up what is held and gained up to the next call.
GainOver(x, y, i, l) == Full + Limit * (y - x + skew * (l - i))
PaySince(y, z) == Limit * (z - y + skew)

\* What may be gained until now and from now on is what may be gained until then.
LEMMA GainGoesOn ==
    ASSUME NEW x \in Int, NEW y \in Int, NEW z \in Int, NEW i \in Int, NEW l \in Int, skew \in Nat
    PROVE  GainOver(x, y, i, l) + PaySince(y, z) = GainOver(x, z, i, l + 1)
<1> USE LimitsAssumption
<1>1. skew * ((l + 1) - i) = skew * (l - i) + skew * 1 /\ skew * (l - i) \in Int
  BY Times
<1>2. Limit * ((y - x + skew * (l - i)) + (z - y + skew))
        = Limit * (y - x + skew * (l - i)) + Limit * (z - y + skew)
  BY <1>1, Times
<1>3. (y - x + skew * (l - i)) + (z - y + skew) = z - x + skew * ((l + 1) - i)
  BY <1>1
<1>4. Full \in Int /\ Limit * (y - x + skew * (l - i)) \in Int /\ Limit * (z - y + skew) \in Int
  BY <1>1 DEF Full
<1>5. (Full + Limit * (y - x + skew * (l - i))) + Limit * (z - y + skew) = Full + Limit * (z - x + skew * ((l + 1) - i))
  BY <1>2, <1>3, <1>4
<1> QED
  BY <1>5 DEF GainOver, PaySince

\* A call is paid from what the bucket holds: what was let through since any call, and what
\* is left, stay within what it held and gained.
LEMMA BucketKept ==
    ASSUME NEW b \in Seq(CallRecords), NEW t \in Nat, NEW ts \in Int, NEW e \in Int,
           seconds \in Nat, skew \in Nat, BucketInv(b, t, ts, e),
           NEW filled \in Nat, filled <= Full,
           b # <<>> => filled <= t + Limit * (seconds - b[Len(b)].at + skew),
           NEW r \in CallRecords, r.at = seconds, r.allowed <=> filled >= Minute,
           NEW left, left = IF filled >= Minute THEN filled - Minute ELSE filled,
           NEW now \in seconds - skew .. seconds
    PROVE  BucketInv(Append(b, r), left, now, seconds + Expiry)
<1> DEFINE d == Append(b, r)
           L == Len(b)
<1> USE LimitsAssumption
<1>0. /\ d \in Seq(CallRecords) /\ d # <<>> /\ L \in Nat /\ DOMAIN b = 1 .. L
      /\ Len(d) = L + 1 /\ DOMAIN d = 1 .. L + 1 /\ d[L + 1] = r
      /\ \A i \in 1 .. L : d[i] = b[i] /\ b[i] \in CallRecords
      /\ b = <<>> <=> L = 0
  BY CallAppended
<1>1. left \in Nat /\ left <= Full /\ Full \in Nat
  BY DEF Full
<1>2. PaidLast(d, now, seconds + Expiry)
  <2> HIDE DEF d, L
  <2> QED
    BY <1>0 DEF PaidLast
<1>a. /\ \A i, j \in 1 .. L : AllowedIn(d, i, j) = AllowedIn(b, i, j)
      /\ \A i \in 1 .. L + 1 : AllowedIn(d, i, L + 1) = AllowedIn(b, i, L) + (IF r.allowed THEN 1 ELSE 0)
      /\ \A i, j \in Nat : AllowedIn(b, i, j) \in Nat /\ (i > j => AllowedIn(b, i, j) = 0)
  <2>1. DOMAIN b = 1 .. L
    BY <1>0
  <2>2. /\ \A i, j \in DOMAIN b : AllowedIn(d, i, j) = AllowedIn(b, i, j)
        /\ \A i \in 1 .. L + 1 : AllowedIn(d, i, L + 1) = AllowedIn(b, i, L) + (IF r.allowed THEN 1 ELSE 0)
    BY AllowedAppend, Zenon
  <2>3. \A i, j \in Nat : AllowedIn(b, i, j) \in Nat /\ (i > j => AllowedIn(b, i, j) = 0)
    BY AllowedCount, Zenon
  <2> HIDE DEF d, L
  <2> QED
    BY <2>1, <2>2, <2>3, Zenon
<1> HIDE DEF d, L
<1>3. ASSUME NEW i \in 1 .. L + 1
      PROVE  /\ AllowedIn(d, i, L + 1) * Minute + left = AllowedIn(b, i, L) * Minute + filled
             /\ AllowedIn(d, i, L + 1) * Minute \in Nat /\ AllowedIn(b, i, L) * Minute \in Nat
  <2> DEFINE old == AllowedIn(b, i, L)
             new == AllowedIn(d, i, L + 1)
  <2>0. i \in Nat /\ L \in Nat
    BY <1>0
  <2>1. old \in Nat /\ new = old + (IF r.allowed THEN 1 ELSE 0)
    BY <2>0, <1>a, Zenon
  <2> HIDE DEF old, new
  <2>2. CASE filled >= Minute
    <3>1. new = old + 1
      BY <2>1, <2>2
    <3>2. Minute * new = Minute * old + Minute * 1
      BY <2>1, <3>1, Times
    <3>3. new * Minute = Minute * new /\ old * Minute = Minute * old /\ Minute * old \in Nat /\ Minute * new \in Nat
      BY <2>1, <3>1
    <3> QED
      BY <2>2, <3>2, <3>3 DEF old, new
  <2>3. CASE ~(filled >= Minute)
    <3>1. new = old
      BY <2>1, <2>3
    <3>2. old * Minute \in Nat
      BY <2>1
    <3> QED
      BY <2>3, <3>1, <3>2 DEF old, new
  <2> QED
    BY <2>2, <2>3
<1>4. ASSUME NEW i \in 1 .. L + 1 PROVE AllowedIn(d, i, L + 1) * Minute + left <= Gain(d, i, L + 1)
  <2>1. CASE i = L + 1
    <3>1. AllowedIn(b, i, L) = 0
      BY <1>0, <1>a, <2>1
    <3>2. d[i].at - d[i].at = 0 /\ i - (L + 1) = 0 /\ skew * 0 = 0 /\ Limit * 0 = 0
      BY <1>0, <2>1
    <3>3. Gain(d, i, L + 1) = Full
      <4>1. Gain(d, i, L + 1) = Full + Limit * (d[L + 1].at - d[L + 1].at + skew * ((L + 1) - (L + 1)))
        BY <2>1 DEF Gain
      <4>2. d[L + 1].at - d[L + 1].at = 0 /\ (L + 1) - (L + 1) = 0
        BY <1>0, <3>2
      <4> QED
        BY <1>1, <3>2, <4>1, <4>2
    <3>4. AllowedIn(d, i, L + 1) * Minute + left = filled
      BY <1>3, <3>1
    <3> QED
      BY <3>3, <3>4
  <2>2. CASE i # L + 1
    <3> DEFINE x == b[i].at
               y == b[L].at
    <3>0. i \in 1 .. L /\ L \in 1 .. L /\ b # <<>>
      BY <1>0, <2>2
    <3>1. x \in Nat /\ y \in Nat /\ d[i].at = x
      BY <1>0, <3>0 DEF CallRecords
    <3>2. AllowedIn(b, i, L) * Minute + t <= Full + Limit * (y - x + skew * (L - i))
      BY <1>0, <3>0 DEF BucketInv, StillHeld, Gain, L
    <3>3. filled <= t + Limit * (seconds - y + skew)
      BY <3>0 DEF L
    <3>4. Gain(d, i, L + 1) = Full + Limit * (seconds - x + skew * ((L + 1) - i))
      BY <1>0, <3>1 DEF Gain
    <3> HIDE DEF x, y
    <3>5. Gain(d, i, L + 1) = (Full + Limit * (y - x + skew * (L - i))) + Limit * (seconds - y + skew)
      <4>1. x \in Int /\ y \in Int /\ seconds \in Int /\ i \in Int /\ L \in Int
        BY <1>0, <3>1
      <4>2. GainOver(x, y, i, L) + PaySince(y, seconds) = GainOver(x, seconds, i, L + 1)
        BY <4>1, GainGoesOn
      <4> QED
        BY <3>4, <4>2, Zenon DEF GainOver, PaySince
    <3> DEFINE A == AllowedIn(b, i, L) * Minute
               G == Full + Limit * (y - x + skew * (L - i))
               P == Limit * (seconds - y + skew)
    <3>6. A \in Nat /\ G \in Int /\ P \in Int
      <4>1. A \in Nat
        BY <1>3
      <4>2. skew * (L - i) \in Int
        BY <1>0
      <4>3. Limit * (y - x + skew * (L - i)) \in Int
        BY <3>1, <4>2
      <4>4. P \in Int
        BY <3>1
      <4> QED
        BY <1>1, <4>1, <4>3, <4>4
    <3>7. AllowedIn(d, i, L + 1) * Minute + left = A + filled
      BY <1>3
    <3> HIDE DEF A, G, P
    <3>8. A + t <= G /\ filled <= t + P /\ Gain(d, i, L + 1) = G + P
      BY <3>2, <3>3, <3>5 DEF A, G, P
    <3> QED
      BY <3>6, <3>7, <3>8
  <2> QED
    BY <2>1, <2>2
<1>5. StillHeld(d, left)
  BY <1>0, <1>4 DEF StillHeld
<1>6. ASSUME NEW i \in 1 .. L + 1, NEW j \in 1 .. L + 1, i <= j PROVE AllowedIn(d, i, j) * Minute <= Gain(d, i, j)
  <2>1. CASE j = L + 1
    <3> DEFINE A == AllowedIn(d, i, L + 1) * Minute
               G == Gain(d, i, L + 1)
    <3>1. A \in Nat /\ A + left <= G
      BY <1>3, <1>4
    <3>2. G \in Int
      <4>0. d[i] \in CallRecords /\ d[L + 1] \in CallRecords
        <5>1. CASE i = L + 1
          BY <1>0, <5>1, Zenon
        <5>2. CASE i # L + 1
          <6>1. i \in 1 .. L
            BY <1>0, <5>2
          <6> QED
            BY <1>0, <6>1, Zenon
        <5> QED
          BY <5>1, <5>2
      <4>1. d[i].at \in Nat /\ d[L + 1].at \in Nat
        BY <4>0 DEF CallRecords
      <4>2. skew * ((L + 1) - i) \in Int
        <5>1. (L + 1) - i \in Int /\ skew \in Int
          BY <1>0
        <5> QED
          BY <5>1
      <4>3. Limit * (d[L + 1].at - d[i].at + skew * ((L + 1) - i)) \in Int
        <5>1. d[L + 1].at - d[i].at \in Int /\ Limit \in Int
          BY <4>1
        <5> HIDE DEF d
        <5> QED
          BY <4>2, <5>1
      <4>4. G = Full + Limit * (d[L + 1].at - d[i].at + skew * ((L + 1) - i))
        BY Zenon DEF Gain
      <4> HIDE DEF G
      <4> QED
        BY <1>1, <4>3, <4>4
    <3> HIDE DEF A, G
    <3>3. A <= G
      BY <1>1, <3>1, <3>2
    <3> QED
      BY <2>1, <3>3 DEF A, G
  <2>2. CASE j # L + 1
    <3>1. i \in 1 .. L /\ j \in 1 .. L
      BY <1>0, <1>6, <2>2
    <3>2. AllowedIn(d, i, j) = AllowedIn(b, i, j) /\ d[i] = b[i] /\ d[j] = b[j]
      <4>1. AllowedIn(d, i, j) = AllowedIn(b, i, j)
        BY <1>a, <3>1, Zenon
      <4>2. d[i] = b[i] /\ d[j] = b[j]
        BY <1>0, <3>1, Zenon
      <4> QED
        BY <4>1, <4>2
    <3>3. AllowedIn(b, i, j) * Minute <= Gain(b, i, j)
      BY <1>0, <1>6, <3>1 DEF BucketInv, NeverOverdrawn
    <3>4. Gain(d, i, j) = Gain(b, i, j)
      BY <3>2 DEF Gain
    <3> QED
      BY <3>2, <3>3, <3>4, Zenon
  <2> QED
    BY <2>1, <2>2
<1>7. NeverOverdrawn(d)
  BY <1>0, <1>6 DEF NeverOverdrawn
<1>8. BucketInv(d, left, now, seconds + Expiry)
  BY <1>1, <1>2, <1>5, <1>7 DEF BucketInv
<1> QED
  BY <1>8 DEF d

\* A call's record, with a comparison for its outcome.
LEMMA CallPaid ==
    ASSUME NEW now \in Nat, NEW m \in Int, NEW n \in Int
    PROVE  /\ [at |-> now, allowed |-> m >= n] \in CallRecords
           /\ [at |-> now, allowed |-> m >= n].at = now
           /\ [at |-> now, allowed |-> m >= n].allowed <=> m >= n
<1>1. [at |-> now, allowed |-> m >= n] \in CallRecords
  <2>1. (m >= n) \in BOOLEAN
    OBVIOUS
  <2> QED
    BY <2>1, Zenon DEF CallRecords
<1>2. [at |-> now, allowed |-> m >= n].at = now
  OBVIOUS
<1>3. [at |-> now, allowed |-> m >= n].allowed <=> m >= n
  OBVIOUS
<1> QED
  BY <1>1, <1>2, <1>3

\* Calls are dated in order.
LEMMA DatedOn ==
    ASSUME NEW c, Dated(c), seconds \in Nat, NEW r \in CallRecords, r.at = seconds
    PROVE  Dated(Append(c, r))
<1> DEFINE d == Append(c, r)
           L == Len(c)
<1>1. c \in Seq(CallRecords)
  BY DEF Dated
<1>2. /\ d \in Seq(CallRecords) /\ L \in Nat /\ DOMAIN c = 1 .. L
      /\ DOMAIN d = 1 .. L + 1 /\ d[L + 1] = r
      /\ \A i \in 1 .. L : d[i] = c[i]
  BY <1>1, CallAppended
<1> HIDE DEF d, L
<1>3. \A i \in 1 .. L + 1 : d[i].at <= seconds /\ (i = L + 1 => d[i].at = seconds)
  BY <1>2 DEF Dated
<1>4. \A i, j \in 1 .. L + 1 : i <= j => d[i].at <= d[j].at
  BY <1>2, <1>3 DEF Dated
<1> QED
  BY <1>2, <1>3, <1>4 DEF Dated, d

LEMMA LimitsStarts == ASSUME LimitsInit PROVE LimitsInv
<1> USE LimitsAssumption DEF LimitsInit, LimitsStart
<1>1. seconds \in Nat /\ skew \in Nat
  OBVIOUS
<1>2. <<>> \in Seq(CallRecords) /\ DOMAIN <<>> = {} /\ Len(<<>>) = 0
  OBVIOUS
<1>3. calls.counter = <<>> /\ calls.bucket = <<>> /\ calls \in [counter : Seq(CallRecords), bucket : Seq(CallRecords)]
  BY <1>2
<1>4. Dated(calls.counter) /\ Dated(calls.bucket)
  BY <1>2, <1>3 DEF Dated
<1>5. /\ counter \in [n : Nat, expires : Int] /\ bucket \in [tokens : Nat, ts : Int, expires : Int]
      /\ bucket.tokens = Full /\ Full \in Nat /\ bucket.ts = 0 /\ bucket.expires = 0 /\ counter.n = 0
  BY DEF Full
<1>6. CountedInv(calls.counter, counter.n, counter.expires)
  BY <1>2, <1>3, <1>5 DEF CountedInv
<1>7. BucketInv(calls.bucket, bucket.tokens, bucket.ts, bucket.expires)
  BY <1>1, <1>2, <1>3, <1>5 DEF BucketInv, PaidLast, NeverOverdrawn, StillHeld
<1> QED
  BY <1>1, <1>3, <1>4, <1>5, <1>6, <1>7 DEF LimitsInv

\* The steps one by one; the clock passes without a call.
LEMMA LimitsKept == ASSUME LimitsInv, [LimitsNext]_limitVars PROVE LimitsInv'
<1> USE LimitsAssumption
<1>1. CASE SecondPasses
  <2>1. seconds' = seconds + 1 /\ seconds \in Nat /\ UNCHANGED <<counter, bucket, skew, calls>>
    BY <1>1 DEF SecondPasses, LimitsInv
  <2>2. ASSUME NEW c, Dated(c) PROVE Dated(c)'
    <3>1. \A i \in DOMAIN c : c[i].at \in Nat
      BY <2>2, CallsAre DEF Dated
    <3> QED
      BY <2>1, <2>2, <3>1 DEF Dated
  <2>3. Dated(calls.counter)' /\ Dated(calls.bucket)'
    <3>1. Dated(calls.counter) /\ Dated(calls.bucket)
      BY DEF LimitsInv
    <3> QED
      BY <2>1, <2>2, <3>1 DEF Dated
  <2>4. CountedInv(calls.counter, counter.n, counter.expires)'
    BY <2>1 DEF LimitsInv, CountedInv
  <2>5. BucketInv(calls.bucket, bucket.tokens, bucket.ts, bucket.expires)'
    <3>1. BucketInv(calls.bucket, bucket.tokens, bucket.ts, bucket.expires) /\ bucket.expires \in Int
      BY DEF LimitsInv
    <3>2. PaidLast(calls.bucket, bucket.ts, bucket.expires)'
      BY <2>1, <3>1 DEF BucketInv, PaidLast, Expiry
    <3> QED
      BY <2>1, <3>1, <3>2 DEF BucketInv, NeverOverdrawn, StillHeld, Gain
  <2> QED
    BY <2>1, <2>3, <2>4, <2>5 DEF LimitsInv
<1>2. CASE AllowCounted
  <2> DEFINE m == Incr(seconds)
             r == [at |-> seconds, allowed |-> m <= Limit]
             d == Append(calls.counter, r)
  <2>1. /\ UNCHANGED <<seconds, bucket, skew>> /\ seconds \in Nat /\ skew \in Nat
        /\ counter' = [n |-> m, expires |-> seconds + WindowLength]
        /\ calls' = [calls EXCEPT !.counter = d]
        /\ calls \in [counter : Seq(CallRecords), bucket : Seq(CallRecords)]
        /\ counter \in [n : Nat, expires : Int]
    BY <1>2 DEF AllowCounted, LimitsInv
  <2>2. m = IF seconds < counter.expires THEN counter.n + 1 ELSE 1
    BY DEF Incr
  <2>3. m \in Nat /\ m \in Int /\ Limit \in Int /\ counter.n \in Nat /\ counter.expires \in Int
    BY <2>1, <2>2
  <2>4. Dated(calls.counter) /\ calls.counter \in Seq(CallRecords) /\ CountedInv(calls.counter, counter.n, counter.expires)
    BY DEF LimitsInv, Dated
  <2> HIDE DEF m
  <2>5. r \in CallRecords /\ r.at = seconds
    BY <2>1, <2>3, CallMade, Zenon
  <2>6. CountedInv(d, m, seconds + WindowLength)
    <3>1. (\A i \in DOMAIN calls.counter : calls.counter[i].at <= seconds) /\ \A i, j \in DOMAIN calls.counter : i <= j => calls.counter[i].at <= calls.counter[j].at
      BY <2>4 DEF Dated
    <3> QED
      BY <2>1, <2>2, <2>3, <2>4, <3>1, CountedStep, Zenon
  <2>7. Dated(d) /\ d \in Seq(CallRecords)
    <3> HIDE DEF r
    <3>1. Dated(d)
      BY <2>1, <2>4, <2>5, DatedOn, Zenon
    <3> QED
      BY <3>1 DEF Dated
  <2> HIDE DEF r, d
  <2>8. calls'.counter = d /\ calls'.bucket = calls.bucket /\ calls' \in [counter : Seq(CallRecords), bucket : Seq(CallRecords)]
    BY <2>1, <2>7
  <2>9. counter'.n = m /\ counter'.expires = seconds + WindowLength /\ counter' \in [n : Nat, expires : Int]
    BY <2>1, <2>3
  <2>10. Dated(calls.counter)' /\ Dated(calls.bucket)'
    BY <2>1, <2>7, <2>8 DEF Dated, LimitsInv
  <2>11. CountedInv(calls.counter, counter.n, counter.expires)'
    BY <2>6, <2>8, <2>9 DEF CountedInv
  <2>12. BucketInv(calls.bucket, bucket.tokens, bucket.ts, bucket.expires)'
    BY <2>1, <2>8 DEF LimitsInv, BucketInv, PaidLast, NeverOverdrawn, StillHeld, Gain
  <2> QED
    BY <2>1, <2>8, <2>9, <2>10, <2>11, <2>12 DEF LimitsInv
<1>3. ASSUME NEW behind \in {0, skew}, AllowTokens(behind) PROVE LimitsInv'
  <2> DEFINE now == seconds - behind
             tokens == Refilled(now)
             r == [at |-> seconds, allowed |-> tokens >= Minute]
             left == IF tokens >= Minute THEN tokens - Minute ELSE tokens
             d == Append(calls.bucket, r)
  <2>1. /\ UNCHANGED <<seconds, counter, skew>> /\ seconds \in Nat /\ skew \in Nat
        /\ bucket' = [tokens |-> left, ts |-> now, expires |-> seconds + Expiry]
        /\ calls' = [calls EXCEPT !.bucket = d]
        /\ calls \in [counter : Seq(CallRecords), bucket : Seq(CallRecords)]
        /\ bucket \in [tokens : Nat, ts : Int, expires : Int]
    BY <1>3 DEF AllowTokens, LimitsInv
  <2>2. /\ Dated(calls.bucket) /\ calls.bucket \in Seq(CallRecords)
        /\ BucketInv(calls.bucket, bucket.tokens, bucket.ts, bucket.expires)
        /\ bucket.tokens \in Nat /\ bucket.tokens \in Int /\ bucket.ts \in Int /\ bucket.expires \in Int
        /\ behind \in 0 .. skew /\ now \in seconds - skew .. seconds
    BY <2>1 DEF LimitsInv, Dated
  <2>3. tokens = PaidOut(bucket.tokens, bucket.ts, bucket.expires, behind)
    BY DEF Refilled, PaidOut
  <2> HIDE DEF tokens
  <2>4. /\ tokens \in Nat /\ tokens <= Full
        /\ calls.bucket # <<>> => tokens <= bucket.tokens + Limit * (seconds - calls.bucket[Len(calls.bucket)].at + skew)
    BY <2>1, <2>2, <2>3, BucketStep, ZenonT(30)
  <2>5. r \in CallRecords /\ r.at = seconds /\ (r.allowed <=> tokens >= Minute)
    <3>1. tokens \in Int /\ Minute \in Int
      BY <2>4
    <3> QED
      BY <2>1, <3>1, CallPaid, ZenonT(30)
  <2> HIDE DEF r, now
  <2>6. BucketInv(d, left, now, seconds + Expiry)
    BY <2>1, <2>2, <2>4, <2>5, BucketKept, Zenon
  <2>7. Dated(d) /\ d \in Seq(CallRecords)
    <3>1. Dated(d)
      BY <2>1, <2>2, <2>5, DatedOn, Zenon
    <3> QED
      BY <3>1 DEF Dated
  <2> HIDE DEF left, d
  <2>8. calls'.bucket = d /\ calls'.counter = calls.counter /\ calls' \in [counter : Seq(CallRecords), bucket : Seq(CallRecords)]
    BY <2>1, <2>7
  <2>9. bucket'.tokens = left /\ bucket'.ts = now /\ bucket'.expires = seconds + Expiry
    BY <2>1
  <2>10. bucket' \in [tokens : Nat, ts : Int, expires : Int]
    <3>1. left \in Nat /\ now \in Int /\ seconds + Expiry \in Int
      BY <2>1, <2>6 DEF BucketInv, Expiry
    <3> QED
      BY <2>1, <3>1
  <2>11. Dated(calls.counter)' /\ Dated(calls.bucket)'
    <3>1. Dated(calls.counter)
      BY DEF LimitsInv
    <3>2. Dated(calls.counter)'
      BY <2>1, <2>8, <3>1 DEF Dated
    <3>3. Dated(calls.bucket)'
      <4>1. seconds' = seconds /\ calls.bucket' = d
        BY <2>1, <2>8
      <4> QED
        BY <2>7, <4>1 DEF Dated
    <3> QED
      BY <3>2, <3>3
  <2>12. CountedInv(calls.counter, counter.n, counter.expires)'
    BY <2>1, <2>8 DEF CountedInv, LimitsInv
  <2>13. BucketInv(calls.bucket, bucket.tokens, bucket.ts, bucket.expires)'
    BY <2>1, <2>6, <2>8, <2>9 DEF BucketInv, PaidLast, NeverOverdrawn, StillHeld, Gain
  <2> QED
    BY <2>1, <2>8, <2>10, <2>11, <2>12, <2>13 DEF LimitsInv
<1>4. CASE UNCHANGED limitVars
  BY <1>4 DEF limitVars, LimitsInv, Dated, CountedInv, BucketInv, PaidLast, NeverOverdrawn, StillHeld, Gain
<1> QED
  BY <1>1, <1>2, <1>3, <1>4 DEF LimitsNext

\* The invariant says what the run checks.
LEMMA LimitsGood == ASSUME LimitsInv PROVE LimitsSound
<1> USE LimitsAssumption
<1> DEFINE c == calls.counter
<1>1. c \in Seq(CallRecords) /\ CountedInv(c, counter.n, counter.expires) /\ \A i, j \in DOMAIN c : i <= j => c[i].at <= c[j].at
  BY DEF LimitsInv, Dated
<1>2. Len(c) \in Nat /\ DOMAIN c = 1 .. Len(c) /\ \A i \in 1 .. Len(c) : c[i].at \in Nat
  BY <1>1, CallsAre
<1> HIDE DEF c
<1>3. ASSUME NEW i \in DOMAIN c, NEW j \in DOMAIN c, c[j].at < c[i].at + WindowLength
      PROVE  AllowedIn(c, i, j) <= Limit
  <2> DEFINE S == {k \in i .. j : c[k].allowed}
             T == i .. i + Limit - 1
  <2>1. S \subseteq T
    <3> SUFFICES ASSUME NEW k \in S PROVE k \in T
      OBVIOUS
    <3>1. k \in i .. j /\ c[k].allowed /\ k \in DOMAIN c /\ i \in Int
      BY <1>2
    <3>2. c[k].at <= c[j].at
      BY <1>1, <3>1, <1>2
    <3>3. i <= k /\ c[k].at < c[i].at + WindowLength
      <4> HIDE DEF S, T
      <4>1. c[k].at \in Nat /\ c[i].at \in Nat /\ c[j].at \in Nat
        BY <1>2, <3>1
      <4>2. c[k].at < c[i].at + WindowLength
        BY <1>3, <3>2, <4>1
      <4>3. i <= k
        BY <3>1
      <4> QED
        BY <4>2, <4>3
    <3>4. \A x, y \in DOMAIN c : x <= y /\ c[y].at < c[x].at + WindowLength /\ c[y].allowed => y - x + 1 <= Limit
      BY <1>1 DEF CountedInv
    <3>5. k - i + 1 <= Limit
      BY <3>1, <3>3, <3>4
    <3> QED
      BY <3>1, <3>5
  <2>2. i \in Int /\ i + Limit - 1 \in Int
    BY <1>2
  <2>3. IsFiniteSet(T) /\ Cardinality(T) = IF i > i + Limit - 1 THEN 0 ELSE (i + Limit - 1) - i + 1
    BY <2>2, FS_Interval, Zenon
  <2> HIDE DEF S, T
  <2>4. Cardinality(S) <= Cardinality(T)
    BY <2>1, <2>3, FS_Subset
  <2>5. Cardinality(T) = Limit
    BY <2>2, <2>3
  <2> QED
    BY <2>4, <2>5 DEF AllowedIn, S
<1>4. CounterBounds
  BY <1>1, <1>3 DEF CounterBounds, CountedInv, c
<1>5. BucketBounds
  BY DEF LimitsInv, BucketInv, NeverOverdrawn, Gain, BucketBounds
<1> QED
  BY <1>4, <1>5 DEF LimitsSound

\* For any limit, window and history of calls: no window of the counter lets more than the
\* limit through, and the bucket lets through what it holds and gains, and the difference of
\* the replicas' clocks once per call (limiter.go, ratelimit.go).
THEOREM LimitsHold == LimitsSpec => []LimitsSound
<1>1. LimitsInit => LimitsInv
  BY LimitsStarts
<1>2. LimitsInv /\ [LimitsNext]_limitVars => LimitsInv'
  BY LimitsKept
<1>3. LimitsInv => LimitsSound
  BY LimitsGood
<1> QED
  BY <1>1, <1>2, <1>3, PTL DEF LimitsSpec
==============================================================================
