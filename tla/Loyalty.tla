------------------------------ MODULE Loyalty ------------------------------
(***************************************************************************)
(* The money of the loyalty service: members and their referral chains,    *)
(* purchases confirmed through Kafka, and the three consumer groups that   *)
(* confirm them, settle the partner's commission and credit the referrers. *)
(* A purchase is only created while its promo code is available, which is  *)
(* left to Community.  A consumer takes a message at most three times and  *)
(* then lets it go; a session that ends lets go of the message at hand,    *)
(* and a crash hands out again what was not committed.                     *)
(***************************************************************************)
EXTENDS Integers, Sequences, FiniteSets, FiniteSetsExt, Functions

CONSTANTS Members,          \* 1 .. the number of members
          Invites,          \* who may register on whose invitation, 0 for nobody's
          Buyers,           \* who may buy
          Sales,            \* the purchases; the number of one is its commission
          MaxRequests,      \* how often a confirmation is asked for
          LoyaltyMaxFaults  \* lost events, retries, ended sessions and crashes

ASSUME LoyaltyAssumption ==
  /\ IsFiniteSet(Members) /\ Members = 1 .. Cardinality(Members)
  /\ Invites \subseteq Members \X (Members \union {0}) /\ Buyers \subseteq Members
  /\ Sales \subseteq Nat \ {0} /\ IsFiniteSet(Sales)
  /\ MaxRequests \in Nat /\ LoyaltyMaxFaults \in Nat

\* Everybody may invite everybody.
AnyInvites == Members \X (Members \union {0})

VARIABLES
  referredBy,    \* users.referred_by of who is registered, 0 for nobody
  unchained,     \* those registered whose chain is not built yet
  chains,        \* referral_chains: <<user, referrer, level>>
  sales,         \* purchases: buyer and status
  settlements,   \* cfa_settlements: purchase -> status
  bankOwes,      \* cfa_balances.bank_owes
  reconciled,    \* the sum of cfa_reconciliations
  bonuses,       \* referral_bonuses: <<purchase, referrer, level>>
  board,         \* the leaderboard in Redis
  purchaseTopic, \* its messages, in order
  position,      \* what every consumer handles next
  crediting,     \* the tree the referral worker is going through
  lateChain,     \* history: a chain was built after a purchase was confirmed
  loyaltyFaults,
  forgone        \* history: <<"chain", member>> never built, <<"event", purchase>> confirmed
                 \* but never published, <<consumer, purchase>> given up by "cfa" or "referral"

loyaltyVars == <<referredBy, unchained, chains, sales, settlements, bankOwes,
                 reconciled, bonuses, board, purchaseTopic, position, crediting, lateChain,
                 loyaltyFaults, forgone>>

Consumers == {"promo", "cfa", "referral"}
Nothing   == [sale |-> 0, nodes |-> {}]

LoyaltyInit ==
  /\ referredBy = [m \in {} |-> 0] /\ unchained = {} /\ chains = {}
  /\ sales = [p \in {} |-> 0] /\ settlements = [p \in {} |-> ""]
  /\ bankOwes = 0 /\ reconciled = 0 /\ bonuses = {} /\ board = [m \in Members |-> 0]
  /\ purchaseTopic = <<>> /\ lateChain = FALSE
  /\ position = [c \in Consumers |-> 1] /\ crediting = Nothing /\ loyaltyFaults = 0 /\ forgone = {}

people == <<referredBy, unchained, chains, lateChain>>
cfa    == <<settlements, bankOwes, reconciled>>
credit == <<bonuses, board, crediting>>

Put(f, k, v) == [x \in DOMAIN f \union {k} |-> IF x = k THEN v ELSE f[x]]
-----------------------------------------------------------------------------
(***************************************************************************)
(* Members.                                                                *)
(***************************************************************************)
\* register: the user is stored with its referrer, the chain comes after.
RegisterMember(referrer) ==
  LET m == Cardinality(DOMAIN referredBy) + 1
  IN  /\ <<m, referrer>> \in Invites
      /\ referredBy' = Put(referredBy, m, referrer)
      /\ unchained' = IF referrer = 0 THEN unchained ELSE unchained \union {m}
      /\ UNCHANGED <<chains, lateChain, sales, cfa, credit, purchaseTopic, position, loyaltyFaults, forgone>>

Up(m) == IF m = 0 THEN 0 ELSE referredBy[m]

\* The referrer, its own and the one after that, as levels 1 to 3.
Ancestors(m) == {a \in {<<Up(m), 1>>, <<Up(Up(m)), 2>>, <<Up(Up(Up(m))), 3>>} : a[1] # 0}

BuildChainFor(m) ==
  /\ m \in unchained
  /\ chains' = chains \union {<<m, a[1], a[2]>> : a \in Ancestors(m)}
  /\ unchained' = unchained \ {m}
  /\ lateChain' = (lateChain \/ \E p \in DOMAIN sales : sales[p].status = "confirmed")
  /\ UNCHANGED <<referredBy, sales, cfa, credit, purchaseTopic, position, loyaltyFaults, forgone>>

\* Its failure is logged, and the member stays without a chain.
BuildChainFails(m) ==
  /\ m \in unchained
  /\ loyaltyFaults < LoyaltyMaxFaults /\ loyaltyFaults' = loyaltyFaults + 1
  /\ forgone' = forgone \union {<<"chain", m>>}
  /\ unchained' = unchained \ {m}
  /\ UNCHANGED <<referredBy, chains, lateChain, sales, cfa, credit, purchaseTopic, position>>

\* Who is reached from m over its own rows and then rows of level 1 and 2: the
\* least set with them, as the recursive query collects it.
Reached(m) ==
  LET Closed(S) == \A c \in chains : c[1] = m \/ (c[1] \in S /\ c[3] < 3) => c[2] \in S
  IN  {r \in Members : \A S \in SUBSET Members : Closed(S) => r \in S}

\* GetTreeUpTo3Levels: every referrer once, with the first of its levels.
Tree(m) ==
  LET rows == {c \in chains : c[1] = m \/ (c[1] \in Reached(m) /\ c[3] < 3)}
      Levels(r) == {c[3] : c \in {c \in rows : c[2] = r}}
  IN  {<<r, Min(Levels(r))>> : r \in {c[2] : c \in rows}}
-----------------------------------------------------------------------------
(***************************************************************************)
(* The API.                                                                *)
(***************************************************************************)
\* Publish only queues a message; what the broker refuses is logged.
Publish(type, p) ==
  \/ /\ purchaseTopic' = Append(purchaseTopic, <<type, p>>)
     /\ UNCHANGED <<loyaltyFaults, forgone>>
  \/ /\ loyaltyFaults < LoyaltyMaxFaults /\ loyaltyFaults' = loyaltyFaults + 1
     /\ forgone' = IF type = "confirmed" THEN forgone \union {<<"event", p>>} ELSE forgone
     /\ UNCHANGED purchaseTopic

CreatePurchase(p, m) ==
  /\ p \notin DOMAIN sales /\ m \in DOMAIN referredBy
  /\ sales' = Put(sales, p, [buyer |-> m, status |-> "pending"])
  /\ Publish("created", p)
  /\ UNCHANGED <<people, cfa, credit, position>>

RequestConfirm(p) ==
  /\ p \in DOMAIN sales /\ sales[p].status = "pending"
  /\ Cardinality({i \in DOMAIN purchaseTopic : purchaseTopic[i] = <<"request", p>>}) < MaxRequests
  /\ Publish("request", p)
  /\ UNCHANGED <<people, sales, cfa, credit, position>>

\* The commissions of purchases; the number of one is its commission.
Commissions(ps) == SumFunction([p \in ps |-> p])

OpenSettlements == {p \in DOMAIN settlements : settlements[p] \in {"created", "confirmed"}}

\* cfaSettle: one transaction that locks the balance of the partner.
Reconcile ==
  /\ DOMAIN settlements # {}
  /\ settlements' = [p \in DOMAIN settlements |-> "settled"]
  /\ bankOwes' = 0
  /\ reconciled' = reconciled + bankOwes
  /\ (bankOwes > 0 \/ OpenSettlements # {})
  /\ UNCHANGED <<people, sales, credit, purchaseTopic, position, loyaltyFaults, forgone>>
-----------------------------------------------------------------------------
(***************************************************************************)
(* The workers.                                                            *)
(***************************************************************************)
HasMessage(c) == position[c] <= Len(purchaseTopic)

Message(c) == purchaseTopic[position[c]]

Marked(c) == position' = [position EXCEPT ![c] = @ + 1]

\* onPurchaseConfirmed: the request confirms a pending purchase and the full
\* purchase goes to the same topic.  The worker meets that message too, finds
\* no purchase_id in it and lets it go, as it does a second request.
OnPurchase ==
  /\ HasMessage("promo") /\ Marked("promo")
  /\ LET type == Message("promo")[1]
         p    == Message("promo")[2]
     IN  IF type = "request" /\ sales[p].status = "pending"
           THEN /\ sales' = [sales EXCEPT ![p].status = "confirmed"]
                /\ Publish("confirmed", p)
           ELSE UNCHANGED <<sales, purchaseTopic, loyaltyFaults, forgone>>
  /\ UNCHANGED <<people, cfa, credit>>

\* Mutant: the balance is raised although the settlement is there already.
SettleAgain ==
  /\ HasMessage("cfa") /\ Marked("cfa")
  /\ LET p == Message("cfa")[2]
     IN  IF Message("cfa")[1] = "confirmed"
           THEN /\ settlements' = Put(settlements, p, "created")
                /\ bankOwes' = bankOwes + p
           ELSE UNCHANGED <<settlements, bankOwes>>
  /\ UNCHANGED <<people, sales, reconciled, credit, purchaseTopic, loyaltyFaults, forgone>>

\* The settlement and the balance in one transaction; the second settlement of
\* a purchase hits the unique index.
Settle ==
  /\ HasMessage("cfa") /\ Marked("cfa")
  /\ LET p == Message("cfa")[2]
     IN  IF Message("cfa")[1] = "confirmed" /\ p \notin DOMAIN settlements
           THEN /\ settlements' = Put(settlements, p, "created")
                /\ bankOwes' = bankOwes + p
           ELSE UNCHANGED <<settlements, bankOwes>>
  /\ UNCHANGED <<people, sales, reconciled, credit, purchaseTopic, loyaltyFaults, forgone>>

\* The referral worker reads the tree of the buyer ...
ReadTree ==
  /\ HasMessage("referral") /\ crediting = Nothing
  /\ LET p     == Message("referral")[2]
         nodes == IF Message("referral")[1] = "confirmed" THEN Tree(sales[p].buyer) ELSE {}
     IN  IF nodes = {}
           THEN Marked("referral") /\ UNCHANGED crediting
           ELSE crediting' = [sale |-> p, nodes |-> nodes] /\ UNCHANGED position
  /\ UNCHANGED <<people, sales, cfa, bonuses, board, purchaseTopic, loyaltyFaults, forgone>>

\* ... and credits its nodes by level; a bonus that exists is passed over.
CreditNode(n) ==
  /\ n \in crediting.nodes
  /\ \A o \in crediting.nodes : n[2] <= o[2]
  /\ LET bonus == <<crediting.sale, n[1], n[2]>>
         rest  == crediting.nodes \ {n}
     IN  /\ bonuses' = bonuses \union {bonus}
         /\ \/ /\ board' = IF bonus \notin bonuses /\ n[2] = 1 THEN [board EXCEPT ![n[1]] = @ + 1]
                                                               ELSE board
               /\ UNCHANGED loyaltyFaults
            \/ /\ loyaltyFaults < LoyaltyMaxFaults /\ loyaltyFaults' = loyaltyFaults + 1
               /\ UNCHANGED board
         /\ IF rest = {} THEN Marked("referral") /\ crediting' = Nothing
                         ELSE crediting' = [crediting EXCEPT !.nodes = rest] /\ UNCHANGED position
  /\ UNCHANGED <<people, sales, cfa, purchaseTopic, forgone>>

Fault(c) ==
  /\ loyaltyFaults < LoyaltyMaxFaults /\ loyaltyFaults' = loyaltyFaults + 1
  /\ crediting' = IF c = "referral" THEN Nothing ELSE crediting
  /\ UNCHANGED <<people, sales, cfa, bonuses, board, purchaseTopic>>

\* An error of the database in the middle of a tree: the message is taken again.
RetryMessage == crediting # Nothing /\ Fault("referral") /\ UNCHANGED <<position, forgone>>

\* The third attempt failed, or the session ended: the message is marked.
GiveUp(c) ==
  /\ HasMessage(c) /\ Fault(c) /\ Marked(c)
  /\ forgone' = IF Message(c)[1] = "confirmed" THEN forgone \union {<<c, Message(c)[2]>>} ELSE forgone

\* A crash before the offsets of the handled messages were committed.
Redeliver(c) ==
  /\ Fault(c) /\ UNCHANGED forgone
  /\ \E back \in 1 .. position[c] :
       /\ back < position[c] \/ (c = "referral" /\ crediting # Nothing)
       /\ position' = [position EXCEPT ![c] = back]

LoyaltyNext ==
  \/ \E r \in DOMAIN referredBy \union {0} : RegisterMember(r)
  \/ \E m \in Members : BuildChainFor(m) \/ BuildChainFails(m)
  \/ \E p \in Sales : (\E m \in Buyers : CreatePurchase(p, m)) \/ RequestConfirm(p)
  \/ Reconcile \/ OnPurchase \/ Settle \/ ReadTree
  \/ \E n \in crediting.nodes : CreditNode(n)
  \/ RetryMessage
  \/ \E c \in Consumers : GiveUp(c) \/ Redeliver(c)

LoyaltySpec == LoyaltyInit /\ [][LoyaltyNext]_loyaltyVars
-----------------------------------------------------------------------------
LoyaltyTypeOK ==
  /\ unchained \subseteq DOMAIN referredBy /\ DOMAIN referredBy \subseteq Members
  /\ chains \subseteq Members \X Members \X (1 .. 3)
  /\ DOMAIN sales \subseteq Sales /\ DOMAIN settlements \subseteq DOMAIN sales
  /\ bankOwes \in Nat /\ reconciled \in Nat
  /\ bonuses \subseteq Sales \X Members \X (1 .. 3)
  /\ \A c \in Consumers : position[c] \in 1 .. Len(purchaseTopic) + 1

\* The books of the partner: what the bank owes and what was reconciled are the
\* commissions of the confirmed purchases, each counted once.
BooksBalance ==
  /\ bankOwes = Commissions(OpenSettlements)
  /\ reconciled = Commissions({p \in DOMAIN settlements : settlements[p] = "settled"})
  /\ \A p \in DOMAIN settlements : sales[p].status = "confirmed"

\* Everybody above a member, however far: the least set with its referrer and theirs.
Line(m) ==
  LET Closed(S) == \A x \in DOMAIN referredBy :
                     (x = m \/ x \in S) /\ referredBy[x] # 0 => referredBy[x] \in S
  IN  {r \in Members : \A S \in SUBSET Members : Closed(S) => r \in S}

\* Every chain was built, and before the first purchase was confirmed.
ChainsComplete == unchained = {} /\ ~lateChain /\ \A m \in Members : <<"chain", m>> \notin forgone

\* A bonus goes to somebody above the buyer, for a confirmed purchase, with the share
\* of a level at which it stands above the buyer or above somebody between the two;
\* with every chain built that is the first level, because the query joins chains
\* that are closed already.  The leaderboard counts no bonus twice, however often
\* the message was handled.
BonusesEarned ==
  /\ \A b \in bonuses :
       LET buyer == sales[b[1]].buyer
           above == Line(buyer)
       IN  /\ sales[b[1]].status = "confirmed"
           /\ b[2] \in above
           /\ \E x \in above \union {buyer} : <<b[2], b[3]>> \in Ancestors(x)
           /\ ChainsComplete => b[3] = 1
  /\ \A m \in Members :
       LET firsts == Cardinality({b \in bonuses : b[2] = m /\ b[3] = 1})
       IN  board[m] <= firsts /\ (loyaltyFaults = 0 => board[m] = firsts)

\* When the messages were handled and none was given up, a confirmed purchase is
\* settled exactly if its event was published: one that was lost after the
\* confirmation is never made up for.  With every chain built, everybody above the
\* buyer is credited then.  Without a fault, whoever is credited, the buyer's own
\* referrer is, with the share of the first level.  Nobody is credited twice for a
\* purchase, unless a chain appeared between two readings of the tree.
AllPaid ==
  \A p \in DOMAIN sales :
    LET credited == {b \in bonuses : b[1] = p}
        Handled(c) == sales[p].status = "confirmed" /\ ~HasMessage(c) /\ <<c, p>> \notin forgone
    IN  /\ Handled("cfa") => (p \in DOMAIN settlements <=> <<"event", p>> \notin forgone)
        /\ Handled("referral") /\ <<"event", p>> \notin forgone /\ ChainsComplete =>
              Line(sales[p].buyer) \subseteq {b[2] : b \in credited}
        /\ <<"event", p>> \in forgone => credited = {} /\ p \notin DOMAIN settlements
        /\ (credited # {} /\ loyaltyFaults = 0 /\ crediting.sale # p) =>
              <<p, referredBy[sales[p].buyer], 1>> \in credited
        /\ ~lateChain => \A b, d \in credited : b[2] = d[2] => b = d

\* The money of a purchase, whatever is lost, repeated or given up.
LoyaltyLedger == LoyaltyTypeOK /\ BooksBalance /\ BonusesEarned /\ AllPaid

\* Three levels with a share each, for the friend, the friend's friend and the
\* friend's friend's friend: a bonus has the level at which its receiver stands
\* above the buyer (README: the shares of the three levels).
SharesByLevel ==
  \A b \in bonuses : <<b[2], b[3]>> \in Ancestors(sales[b[1]].buyer)
=============================================================================
