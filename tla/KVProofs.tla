------------------------------- MODULE KVProofs -------------------------------
(***************************************************************************)
(* Theorems about 10-distributed-kv, for any number of nodes, terms,       *)
(* faults, keys and requests.                                              *)
(***************************************************************************)
EXTENDS KVServer, SumProofs, SequenceTheorems, TLAPS

-----------------------------------------------------------------------------
(* Logs and quorums.                                                       *)

LogEntry == [term : 1..MaxTerm, cmd : Command \union {Noop}]
Log == Seq(LogEntry)

\* Two logs begin with the same k entries.
Agree(a, b, k) == k <= Len(a) /\ k <= Len(b) /\ \A i \in 1..k : a[i] = b[i]

LEMMA AgreeSymmetric == \A a, b, k : Agree(a, b, k) => Agree(b, a, k)
  BY DEF Agree

LEMMA AgreeTransitive ==
  ASSUME NEW a \in Log, NEW b \in Log, NEW c \in Log, NEW k \in Nat, NEW i \in Nat,
         Agree(a, b, k), Agree(b, c, i), i <= k
  PROVE  Agree(a, c, i)
  BY DEF Agree, Log

LEMMA AgreeLess ==
  ASSUME NEW a \in Log, NEW b \in Log, NEW k \in Nat, NEW i \in Nat, Agree(a, b, k), i <= k
  PROVE  Agree(a, b, i)
  BY DEF Agree, Log

LEMMA AgreeExtended ==
  ASSUME NEW a \in Log, NEW b \in Log, NEW a1 \in Log, NEW b1 \in Log, NEW k \in Nat,
         Agree(a, a1, Len(a)), Agree(b, b1, Len(b)), Agree(a, b, k)
  PROVE  Agree(a1, b1, k)
  BY DEF Agree, Log

LEMMA AgreeSelf == \A a \in Log : \A k \in 0..Len(a) : Agree(a, a, k)
  BY DEF Agree, Log

LEMMA Beginning ==
  ASSUME NEW a \in Log, NEW k \in 0..Len(a)
  PROVE  SubSeq(a, 1, k) \in Log /\ Len(SubSeq(a, 1, k)) = k /\ Agree(SubSeq(a, 1, k), a, k)
<1>1. \A i \in 1..k : a[i] \in LogEntry
  BY DEF Log
<1>2. SubSeq(a, 1, k) \in Seq(LogEntry) /\ Len(SubSeq(a, 1, k)) = (IF 1 <= k THEN k - 1 + 1 ELSE 0)
      /\ \A i \in 1..k - 1 + 1 : SubSeq(a, 1, k)[i] = a[1 + i - 1]
  BY <1>1, SubSeqProperties
<1>3. k \in Nat /\ Len(a) \in Nat /\ k <= Len(a)
  BY DEF Log
<1>4. Len(SubSeq(a, 1, k)) = k
  BY <1>2, <1>3
<1>5. \A i \in 1..k : SubSeq(a, 1, k)[i] = a[i]
  BY <1>2, <1>3
<1> QED
  BY <1>2, <1>3, <1>4, <1>5 DEF Agree, Log

LEMMA Appended ==
  ASSUME NEW a \in Log, NEW e \in LogEntry
  PROVE  /\ Append(a, e) \in Log /\ Len(Append(a, e)) = Len(a) + 1
         /\ Append(a, e)[Len(a) + 1] = e
         /\ \A i \in 1..Len(a) : Append(a, e)[i] = a[i]
  BY DEF Log

LEMMA QuorumsMeet == \A P, Q \in Quorum : \E q \in Node : q \in P /\ q \in Q
<1> SUFFICES ASSUME NEW P \in Quorum, NEW Q \in Quorum PROVE P \cap Q # {}
  BY DEF Quorum
<1>1. Cardinality(Node) \in Nat
  BY RaftAssumption, FS_CardinalityType
<1>2. Cardinality(P) = Cardinality(Node) \div 2 + 1 /\ Cardinality(Q) = Cardinality(Node) \div 2 + 1
  BY DEF Quorum
<1>3. Cardinality(P) + Cardinality(Q) > Cardinality(Node)
  BY <1>1, <1>2
<1>4. P \subseteq Node /\ Q \subseteq Node
  BY DEF Quorum
<1> QED
  BY <1>3, <1>4, RaftAssumption, FS_MajoritiesIntersect

LEMMA QuorumType == \A Q \in Quorum : Q \subseteq Node
  BY DEF Quorum

\* A set of numbers that is not empty has a smallest one; if bounded, a largest one.
LEMMA Smallest ==
  ASSUME NEW S \in SUBSET Nat, S # {}
  PROVE  \E x \in S : \A y \in S : x <= y
<1>1. PICK x \in S : \A y \in S : ~ (<<y, x>> \in LessThan)
  BY WFMin, LessThanWellFounded
<1>2. ASSUME NEW y \in S, y < x PROVE FALSE
  <2>1. <<y, x>> \in LessThan
    BY <1>2 DEF LessThan
  <2> QED
    BY <1>1, <2>1
<1> QED
  BY <1>2

LEMMA Largest ==
  ASSUME NEW S \in SUBSET Nat, S # {}, NEW b \in Nat, \A y \in S : y <= b
  PROVE  Max(S) \in S /\ \A y \in S : y <= Max(S)
<1> DEFINE B == {c \in Nat : \A y \in S : y <= c}
<1>1. PICK c \in B : \A d \in B : c <= d
  <2>1. B \in SUBSET Nat /\ B # {}
    OBVIOUS
  <2> HIDE DEF B
  <2> QED
    BY <2>1, Smallest
<1>2. c \in S
  <2> SUFFICES ASSUME c \notin S PROVE FALSE
    OBVIOUS
  <2>1. PICK y \in S : TRUE
    OBVIOUS
  <2>2. c - 1 \in Nat /\ c > 0
    BY <2>1
  <2>3. \A z \in S : z <= c - 1
    BY <2>2
  <2> QED
    BY <1>1, <2>2, <2>3
<1>3. \E m \in S : \A y \in S : m >= y
  BY <1>2
<1>4. Max(S) \in S /\ \A y \in S : Max(S) >= y
  BY <1>3 DEF Max
<1> QED
  BY <1>4

-----------------------------------------------------------------------------
(* The replicated log.                                                     *)

Leads(n) == role[n] = "leader"

LogsTyped ==
  /\ up \in [Node -> BOOLEAN] /\ role \in [Node -> {"leader", "follower"}]
  /\ term \in [Node -> 1..MaxTerm] /\ match \in [Node -> [Node -> Nat]]
  /\ log \in [Node -> Log] /\ \A n \in Node : log[n] # << >>

LogsOrdered == \A n \in Node :
  /\ \A i, j \in 1..Len(log[n]) : i <= j => log[n][i].term <= log[n][j].term
  /\ LastTerm(log[n]) <= term[n]

\* No term is reached without a quorum.
TermsElected == \A n \in Node : \E Q \in Quorum : \A q \in Q : term[n] <= term[q]

OneLeader == \A l, m \in Node : Leads(l) /\ Leads(m) /\ term[l] = term[m] => l = m

\* The entries of a leader's term are in its log.
LeadersLog == \A l \in Node : Leads(l) =>
  /\ up[l] /\ LastTerm(log[l]) = term[l]
  /\ \A n \in Node : \A i \in 1..Len(log[n]) : log[n][i].term = term[l] => i <= Len(log[l])

LogsMatch == \A m, n \in Node : \A i \in 1..Len(log[m]), j \in 1..Len(log[n]) :
  i <= j /\ log[m][i].term = log[n][j].term => Agree(log[m], log[n], i)

\* What a follower has acknowledged to one who still leads it still has, unless a
\* later leader has taken it over.
AnswersKept == \A l, q \in Node : Leads(l) /\ q # l /\ match[l][q] > 0 =>
  /\ match[l][q] <= Len(log[l]) /\ term[l] <= term[q]
  /\ LastTerm(log[q]) > term[l] \/ Agree(log[l], log[q], match[l][q])

\* The j-th entry of a log has a later term than the leader l's; what comes before it
\* is nevertheless as recent as the i-th of l.
Covered(n, j, l, i) == \E k \in 1..j - 1 :
  /\ log[n][k].term < log[n][j].term
  /\ log[n][k].term > term[l] \/ (log[n][k].term = term[l] /\ i <= k)

\* Of the quorum that elected the leader of an entry's term, nobody acknowledges
\* anything to a leader before it any more, and what it had acknowledged the log covers.
VotesCast(n, j, q) ==
  /\ log[n][j].term <= term[q]
  /\ \A l \in Node : Leads(l) /\ term[l] < log[n][j].term =>
       \A i \in 1..Matched(l, q) : log[l][i].term = term[l] => Covered(n, j, l, i)

ElectedOverAnswers == \A n \in Node : \A j \in 1..Len(log[n]) :
  \E Q \in Quorum : \A q \in Q : VotesCast(n, j, q)

LogsInv == LogsTyped /\ LogsOrdered /\ TermsElected /\ OneLeader /\ LeadersLog /\ LogsMatch
           /\ AnswersKept /\ ElectedOverAnswers

\* The first k entries of c are in the logs of a quorum and, whole, in every log that
\* has an entry of a later term.
Committed(c, k) ==
  /\ k \in 1..Len(c)
  /\ \A n \in Node : LastTerm(log[n]) > c[k].term => Agree(log[n], c, k)
  /\ \E Q \in Quorum : \A q \in Q : Agree(log[q], c, k)

LEMMA LastTermIs ==
  ASSUME NEW a \in Log, a # << >>
  PROVE  Len(a) \in Nat \ {0} /\ LastTerm(a) = a[Len(a)].term /\ LastTerm(a) \in 1..MaxTerm
<1>1. Len(a) \in Nat \ {0} /\ a[Len(a)] \in LogEntry
  BY DEF Log
<1> QED
  BY <1>1 DEF LastTerm, Last, LogEntry

LEMMA EntryType ==
  ASSUME NEW a \in Log, NEW i \in 1..Len(a)
  PROVE  a[i] \in LogEntry /\ a[i].term \in 1..MaxTerm
<1>1. a[i] \in LogEntry
  BY DEF Log
<1> QED
  BY <1>1 DEF LogEntry

LEMMA OrderedLast ==
  ASSUME LogsTyped, LogsOrdered, NEW n \in Node
  PROVE  /\ log[n] \in Log /\ Len(log[n]) \in Nat \ {0} /\ LastTerm(log[n]) = log[n][Len(log[n])].term
         /\ LastTerm(log[n]) \in 1..MaxTerm /\ term[n] \in 1..MaxTerm /\ LastTerm(log[n]) <= term[n]
         /\ \A i \in 1..Len(log[n]) :
              /\ log[n][i] \in LogEntry /\ log[n][i].term \in 1..MaxTerm
              /\ log[n][i].term <= LastTerm(log[n]) /\ log[n][i].term <= term[n]
<1>1. log[n] \in Log /\ log[n] # << >> /\ term[n] \in 1..MaxTerm
  BY DEF LogsTyped
<1>2. Len(log[n]) \in Nat \ {0} /\ LastTerm(log[n]) = log[n][Len(log[n])].term
      /\ LastTerm(log[n]) \in 1..MaxTerm
  BY <1>1, LastTermIs
<1>3. \A i \in 1..Len(log[n]) : log[n][i] \in LogEntry /\ log[n][i].term \in 1..MaxTerm
  BY <1>1, EntryType
<1>4. \A i \in 1..Len(log[n]) : log[n][i].term <= LastTerm(log[n])
  BY <1>2, <1>3 DEF LogsOrdered
<1>5. LastTerm(log[n]) <= term[n]
  BY DEF LogsOrdered
<1>6. MaxTerm \in Nat
  BY RaftAssumption
<1> QED
  BY <1>1, <1>2, <1>3, <1>4, <1>5, <1>6

\* A leader has everything committed up to its term.
LEMMA LeadersHold ==
  ASSUME LogsInv, NEW c \in Log, NEW k \in Nat, Committed(c, k), NEW l \in Node, Leads(l),
         c[k].term <= term[l]
  PROVE  Agree(log[l], c, k)
<1>0. LastTerm(log[l]) = term[l] /\ term[l] \in 1..MaxTerm /\ Len(log[l]) \in Nat \ {0} /\ MaxTerm \in Nat
      /\ log[l][Len(log[l])].term = term[l] /\ log[l] \in Log
  BY OrderedLast, RaftAssumption DEF LogsInv, LeadersLog
<1>1. k \in 1..Len(c) /\ c[k].term \in 1..MaxTerm
  BY EntryType DEF Committed
<1>2. CASE c[k].term < term[l]
  BY <1>0, <1>1, <1>2 DEF Committed
<1>3. CASE c[k].term = term[l]
  <2>1. PICK Q \in Quorum : \A q \in Q : Agree(log[q], c, k)
    BY DEF Committed
  <2>2. PICK q \in Node : q \in Q
    BY QuorumsMeet
  <2>3. Agree(log[q], c, k) /\ log[q] \in Log
    BY <2>1, <2>2 DEF LogsInv, LogsTyped
  <2>4. k \in 1..Len(log[q]) /\ log[q][k].term = term[l]
    BY <1>1, <1>3, <2>3 DEF Agree, Log
  <2>5. k <= Len(log[l])
    BY <2>4 DEF LogsInv, LeadersLog
  <2>6. Agree(log[q], log[l], k)
    BY <1>0, <1>1, <2>4, <2>5 DEF LogsInv, LogsMatch
  <2> QED
    BY <1>0, <1>1, <2>3, <2>6, AgreeSymmetric, AgreeTransitive
<1> QED
  BY <1>0, <1>1, <1>2, <1>3

-----------------------------------------------------------------------------
(* What the steps do to the logs.                                          *)

\* Nothing: leaders may only become fewer.
Quiet ==
  /\ log' = log /\ term' = term
  /\ up' \in [Node -> BOOLEAN] /\ role' \in [Node -> {"leader", "follower"}]
  /\ match' \in [Node -> [Node -> Nat]]
  /\ \A n \in Node : role'[n] = "leader" => role[n] = "leader" /\ match'[n] = match[n] /\ up'[n] = up[n]

\* A leader appends an entry of its term.
Appends(l, e) ==
  /\ Leads(l) /\ e.term = term[l]
  /\ log' = [log EXCEPT ![l] = Append(@, e)]
  /\ UNCHANGED <<up, role, term, match>>

\* A follower takes over the first k entries of the leader: all of them, or committed
\* ones that it did not have.
Adopts(f, l, k) ==
  /\ Leads(l) /\ l # f /\ term[f] <= term[l] /\ k \in 1..Len(log[l])
  /\ k = Len(log[l]) \/ (Committed(log[l], k) /\ ~ Agree(log[f], log[l], k))
  /\ log' = [log EXCEPT ![f] = SubSeq(log[l], 1, k)]
  /\ Acknowledge(f, l, k)
  /\ term' = [term EXCEPT ![f] = term[l]]
  /\ role' = [role EXCEPT ![f] = "follower"]
  /\ up' = up

\* A quorum elects a leader for a new term t, whose log no vote exceeds.
Elects(n, Q, t, e) ==
  /\ n \in Q /\ t \in 1..MaxTerm /\ e.term = t
  /\ \A q \in Q : up[q] /\ UpToDate(n, q) /\ term[q] < t
  /\ term' = [q \in Node |-> IF q \in Q THEN t ELSE term[q]]
  /\ role' = [q \in Node |-> IF q = n THEN "leader" ELSE IF q \in Q THEN "follower" ELSE role[q]]
  /\ match' = [q \in Node |-> IF q \in Q THEN Unheard ELSE match[q]]
  /\ log' = [log EXCEPT ![n] = Append(@, e)]
  /\ up' = up

\* What is committed stays committed, and in every log it is in.
Stable(c, k) ==
  Committed(c, k) => Committed(c, k)' /\ \A n \in Node : Agree(log[n], c, k) => Agree(log'[n], c, k)

LEMMA QuietKeeps == LogsInv /\ Quiet => LogsInv'
<1> SUFFICES ASSUME LogsInv, Quiet PROVE LogsInv'
  OBVIOUS
<1> USE DEF Quiet
<1>1. LogsTyped' /\ LogsOrdered' /\ TermsElected' /\ OneLeader' /\ LogsMatch'
  BY DEF LogsInv, LogsTyped, LogsOrdered, TermsElected, OneLeader, LogsMatch, Leads
<1>2. LeadersLog'
  BY DEF LogsInv, LeadersLog, Leads
<1>3. AnswersKept'
  BY DEF LogsInv, AnswersKept, Leads
<1>4. ElectedOverAnswers'
  <2>1. ASSUME NEW n \in Node, NEW j \in 1..Len(log[n]), NEW q, VotesCast(n, j, q)
        PROVE  VotesCast(n, j, q)'
    BY <2>1, ZenonT(30) DEF VotesCast, Leads, Matched, Covered
  <2> QED
    BY <2>1 DEF LogsInv, ElectedOverAnswers
<1> QED
  BY <1>1, <1>2, <1>3, <1>4 DEF LogsInv

LEMMA QuietStable == ASSUME Quiet PROVE \A c, k : Stable(c, k)
  BY DEF Quiet, Stable, Committed

LEMMA AppendsTypes ==
  ASSUME LogsInv, NEW l \in Node, NEW e \in LogEntry, Appends(l, e)
  PROVE  /\ LogsTyped' /\ \A n \in Node : n # l => log'[n] = log[n]
         /\ Len(log'[l]) = Len(log[l]) + 1 /\ log'[l][Len(log[l]) + 1] = e
         /\ \A i \in 1..Len(log[l]) : log'[l][i] = log[l][i]
         /\ LastTerm(log[l]) = term[l] /\ LastTerm(log'[l]) = term[l]
         /\ \A n \in Node : /\ log[n] \in Log /\ log'[n] \in Log
                            /\ Len(log[n]) \in Nat /\ Len(log'[n]) \in Nat
                            /\ Agree(log[n], log'[n], Len(log[n]))
<1>1. log[l] \in Log /\ log[l] # << >>
  BY DEF LogsInv, LogsTyped
<1>2. log'[l] = Append(log[l], e) /\ \A n \in Node : n # l => log'[n] = log[n]
  BY DEF LogsInv, LogsTyped, Appends
<1>3. log'[l] \in Log /\ Len(log'[l]) = Len(log[l]) + 1 /\ log'[l][Len(log[l]) + 1] = e
      /\ \A i \in 1..Len(log[l]) : log'[l][i] = log[l][i]
  BY <1>1, <1>2, Appended
<1>4. log'[l] # << >>
  BY <1>1, <1>3 DEF Log
<1>5. LogsTyped'
  BY <1>2, <1>3, <1>4 DEF LogsInv, LogsTyped, Appends
<1>6. LastTerm(log'[l]) = log'[l][Len(log'[l])].term
  BY <1>3, <1>4, LastTermIs
<1>7. LastTerm(log[l]) = term[l]
  BY DEF LogsInv, LeadersLog, Appends
<1>8. \A n \in Node : log[n] \in Log /\ log'[n] \in Log
  BY <1>5 DEF LogsInv, LogsTyped
<1>9. \A n \in Node : Len(log[n]) \in Nat /\ Len(log'[n]) \in Nat
  BY <1>8 DEF Log
<1>10. \A n \in Node : Agree(log[n], log'[n], Len(log[n]))
  BY <1>2, <1>3, <1>9 DEF Agree
<1> QED
  BY <1>2, <1>3, <1>5, <1>6, <1>7, <1>8, <1>9, <1>10 DEF Appends

LEMMA AppendsKeeps ==
  ASSUME LogsInv, NEW l \in Node, NEW e \in LogEntry, Appends(l, e)
  PROVE  LogsInv'
<1> DEFINE new == Len(log[l]) + 1
<1>1. /\ LogsTyped' /\ \A n \in Node : n # l => log'[n] = log[n]
      /\ Len(log'[l]) = new /\ log'[l][new] = e
      /\ \A i \in 1..Len(log[l]) : log'[l][i] = log[l][i]
      /\ LastTerm(log[l]) = term[l] /\ LastTerm(log'[l]) = term[l]
  BY AppendsTypes
<1>0. \A n \in Node : /\ log[n] \in Log /\ log'[n] \in Log
                      /\ Len(log[n]) \in Nat /\ Len(log'[n]) \in Nat
                      /\ Agree(log[n], log'[n], Len(log[n]))
  BY AppendsTypes
<1>2. Leads(l) /\ e.term = term[l] /\ up' = up /\ role' = role /\ term' = term /\ match' = match
  BY DEF Appends
<1>3. \A n \in Node : /\ log[n] \in Log /\ Len(log[n]) \in Nat \ {0}
                      /\ LastTerm(log[n]) = log[n][Len(log[n])].term
                      /\ LastTerm(log[n]) \in 1..MaxTerm /\ term[n] \in 1..MaxTerm
                      /\ \A i \in 1..Len(log[n]) :
                           log[n][i].term \in 1..MaxTerm /\ log[n][i].term <= LastTerm(log[n])
  BY OrderedLast DEF LogsInv
<1>4. MaxTerm \in Nat /\ new \in Nat
  BY <1>3, RaftAssumption
<1>5. log[l][Len(log[l])].term = term[l] /\ log'[l][new].term = term[l]
  BY <1>1, <1>2, <1>3
<1>6. LogsOrdered'
  <2> SUFFICES ASSUME NEW n \in Node
               PROVE  /\ \A i, j \in 1..Len(log'[n]) : i <= j => log'[n][i].term <= log'[n][j].term
                      /\ LastTerm(log'[n]) <= term'[n]
    BY DEF LogsOrdered
  <2>1. CASE n # l
    BY <1>1, <1>2, <2>1 DEF LogsInv, LogsOrdered
  <2>2. CASE n = l
    <3>1. ASSUME NEW i \in 1..new, NEW j \in 1..new, i <= j
          PROVE  log'[l][i].term <= log'[l][j].term
      <4>1. CASE j # new
        <5>1. i \in 1..Len(log[l]) /\ j \in 1..Len(log[l])
          BY <1>3, <3>1, <4>1
        <5> QED
          BY <1>1, <3>1, <5>1 DEF LogsInv, LogsOrdered
      <4>2. CASE j = new /\ i # new
        <5>1. i \in 1..Len(log[l])
          BY <1>3, <4>2
        <5> QED
          BY <1>1, <1>3, <1>5, <4>2, <5>1
      <4>3. CASE j = new /\ i = new
        BY <1>3, <1>4, <1>5, <4>3
      <4> QED
        BY <4>1, <4>2, <4>3
    <3> QED
      BY <1>1, <1>2, <1>3, <1>4, <2>2, <3>1
  <2> QED
    BY <2>1, <2>2
<1>7. TermsElected' /\ OneLeader'
  BY <1>2 DEF LogsInv, TermsElected, OneLeader, Leads
<1>8. LeadersLog'
  <2> SUFFICES ASSUME NEW x \in Node, Leads(x)
               PROVE  /\ up[x] /\ LastTerm(log'[x]) = term[x]
                      /\ \A n \in Node : \A i \in 1..Len(log'[n]) :
                           log'[n][i].term = term[x] => i <= Len(log'[x])
    BY <1>2 DEF LeadersLog, Leads
  <2>1. up[x] /\ LastTerm(log'[x]) = term[x]
    BY <1>1 DEF LogsInv, LeadersLog
  <2>2. ASSUME NEW n \in Node, NEW i \in 1..Len(log'[n]), log'[n][i].term = term[x]
        PROVE  i <= Len(log'[x])
    <3>1. CASE n = l /\ i = new
      <4>1. x = l
        BY <1>2, <1>5, <2>2, <3>1 DEF LogsInv, OneLeader
      <4> QED
        BY <1>1, <1>4, <3>1, <4>1
    <3>2. CASE ~ (n = l /\ i = new)
      <4>1. i \in 1..Len(log[n]) /\ log[n][i].term = term[x]
        BY <1>1, <1>3, <2>2, <3>2
      <4>2. i <= Len(log[x])
        BY <4>1 DEF LogsInv, LeadersLog
      <4> QED
        BY <1>1, <1>3, <4>2
    <3> QED
      BY <3>1, <3>2
  <2> QED
    BY <2>1, <2>2
<1>9. LogsMatch'
  <2> SUFFICES ASSUME NEW m \in Node, NEW n \in Node,
                      NEW i \in 1..Len(log'[m]), NEW j \in 1..Len(log'[n]),
                      i <= j, log'[m][i].term = log'[n][j].term
               PROVE  Agree(log'[m], log'[n], i)
    BY DEF LogsMatch
  <2>1. CASE m = n
    BY <1>0, <2>1 DEF Agree
  <2>2. CASE m # n /\ m = l /\ i = new
    <3>1. log'[n] = log[n] /\ j \in 1..Len(log[n])
      BY <1>1, <2>2
    <3>2. log[n][j].term = term[l]
      BY <1>1, <1>2, <2>2, <3>1
    <3>3. j <= Len(log[l])
      BY <1>2, <3>1, <3>2 DEF LogsInv, LeadersLog
    <3> QED
      BY <1>0, <2>2, <3>1, <3>3
  <2>3. CASE m # n /\ n = l /\ j = new
    <3>1. log'[m] = log[m] /\ i \in 1..Len(log[m])
      BY <1>1, <2>3
    <3>2. log[m][i].term = term[l]
      BY <1>1, <1>2, <2>3, <3>1
    <3>3. i <= Len(log[l])
      BY <1>2, <3>1, <3>2 DEF LogsInv, LeadersLog
    <3>4. Agree(log[m], log[l], i)
      <4>1. Len(log[l]) \in 1..Len(log[l]) /\ log[m][i].term = log[l][Len(log[l])].term
        BY <1>3, <1>5, <3>2
      <4> QED
        BY <3>1, <3>3, <4>1 DEF LogsInv, LogsMatch
    <3> QED
      BY <1>0, <2>3, <3>1, <3>4, AgreeExtended
  <2>4. CASE m # n /\ ~ (m = l /\ i = new) /\ ~ (n = l /\ j = new)
    <3>1. i \in 1..Len(log[m]) /\ log'[m][i] = log[m][i]
      BY <1>0, <1>1, <2>4
    <3>2. j \in 1..Len(log[n]) /\ log'[n][j] = log[n][j]
      BY <1>0, <1>1, <2>4
    <3>3. Agree(log[m], log[n], i)
      BY <3>1, <3>2 DEF LogsInv, LogsMatch
    <3> QED
      BY <1>0, <3>1, <3>3, AgreeExtended
  <2> QED
    BY <2>1, <2>2, <2>3, <2>4
<1>10. AnswersKept'
  <2> SUFFICES ASSUME NEW x \in Node, NEW q \in Node, Leads(x), q # x, match[x][q] > 0
               PROVE  /\ match[x][q] <= Len(log'[x]) /\ term[x] <= term[q]
                      /\ LastTerm(log'[q]) > term[x] \/ Agree(log'[x], log'[q], match[x][q])
    BY <1>2 DEF AnswersKept, Leads
  <2>0. match[x][q] \in Nat
    BY DEF LogsInv, LogsTyped
  <2>1. /\ match[x][q] <= Len(log[x]) /\ term[x] <= term[q]
        /\ LastTerm(log[q]) > term[x] \/ Agree(log[x], log[q], match[x][q])
    BY DEF LogsInv, AnswersKept
  <2>2. LastTerm(log'[q]) = LastTerm(log[q])
    BY <1>1
  <2>3. Agree(log[x], log[q], match[x][q]) => Agree(log'[x], log'[q], match[x][q])
    BY <1>0, <2>0, AgreeExtended
  <2>4. Len(log[x]) <= Len(log'[x])
    BY <1>0 DEF Agree
  <2> QED
    BY <1>0, <2>0, <2>1, <2>2, <2>3, <2>4
<1>11. ElectedOverAnswers'
  <2>1. ASSUME NEW n \in Node, NEW j \in 1..Len(log[n]), NEW q \in Node, VotesCast(n, j, q),
               NEW n1 \in Node, NEW j1 \in 1..Len(log'[n1]),
               n1 = n, j <= j1, log'[n1][j1].term = log[n][j].term
        PROVE  VotesCast(n1, j1, q)'
    <3>1. log[n][j].term <= term[q]
      BY <2>1 DEF VotesCast
    <3>2. ASSUME NEW x \in Node, Leads(x), term[x] < log[n][j].term,
                 NEW i \in 1..Matched(x, q)', log'[x][i].term = term[x]
          PROVE  Covered(n1, j1, x, i)'
      <4>1. CASE x = l /\ i = new
        <5>1. q = l \/ new <= Len(log[l])
          <6> SUFFICES ASSUME q # l PROVE new <= Len(log[l])
            OBVIOUS
          <6>1. new <= match[l][q]
            BY <1>2, <3>2, <4>1 DEF Matched
          <6>2. match[l][q] \in Nat
            BY DEF LogsInv, LogsTyped
          <6>3. match[l][q] > 0
            BY <1>3, <6>1, <6>2
          <6>4. match[l][q] <= Len(log[l])
            BY <1>2, <6>3 DEF LogsInv, AnswersKept
          <6> QED
            BY <1>3, <1>4, <6>1, <6>2, <6>4, SMTT(30)
        <5>2. q = l
          BY <1>3, <5>1
        <5> QED
          BY <1>3, <1>4, <3>1, <3>2, <4>1, <5>2
      <4>2. CASE ~ (x = l /\ i = new)
        <5>1. i \in 1..Matched(x, q)
          BY <1>1, <1>2, <1>3, <3>2, <4>2, SMTT(30) DEF Matched
        <5>2. i \in 1..Len(log[x])
          <6>1. CASE q = x
            BY <5>1, <6>1 DEF Matched
          <6>2. CASE q # x
            <7>1. match[x][q] \in Nat /\ i \in 1..match[x][q]
              BY <5>1, <6>2 DEF Matched, LogsInv, LogsTyped
            <7>2. match[x][q] <= Len(log[x])
              BY <3>2, <6>2, <7>1 DEF LogsInv, AnswersKept
            <7> QED
              BY <1>3, <7>1, <7>2
          <6> QED
            BY <6>1, <6>2
        <5>3. log'[x][i] = log[x][i]
          BY <1>1, <5>2
        <5>4. Covered(n, j, x, i)
          BY <2>1, <3>2, <5>1, <5>3 DEF VotesCast
        <5>5. PICK k \in 1..j - 1 : /\ log[n][k].term < log[n][j].term
                                    /\ log[n][k].term > term[x] \/ (log[n][k].term = term[x] /\ i <= k)
          BY <5>4 DEF Covered
        <5>6. k \in 1..Len(log[n]) /\ k < j
          BY <1>3
        <5>7. log'[n][k] = log[n][k]
          BY <1>1, <5>6
        <5>8. j1 \in Int /\ k \in 1..j1 - 1
          BY <1>1, <1>3, <2>1, <5>6
        <5> QED
          BY <1>2, <2>1, <5>5, <5>7, <5>8 DEF Covered
      <4> QED
        BY <4>1, <4>2
    <3> QED
      BY <1>2, <2>1, <3>1, <3>2 DEF VotesCast, Leads
  <2> SUFFICES ASSUME NEW n \in Node, NEW j \in 1..Len(log'[n])
               PROVE  \E Q \in Quorum : \A q \in Q : VotesCast(n, j, q)'
    BY DEF ElectedOverAnswers
  <2>2. \E j0 \in 1..Len(log[n]) : j0 <= j /\ log'[n][j].term = log[n][j0].term
    <3>1. CASE n = l /\ j = new
      BY <1>3, <1>5, <3>1
    <3>2. CASE ~ (n = l /\ j = new)
      <4>1. j \in 1..Len(log[n]) /\ log'[n][j] = log[n][j]
        BY <1>1, <1>3, <3>2
      <4> QED
        BY <4>1
    <3> QED
      BY <3>1, <3>2
  <2>3. PICK j0 \in 1..Len(log[n]) : j0 <= j /\ log'[n][j].term = log[n][j0].term
    BY <2>2
  <2>4. PICK Q \in Quorum : \A q \in Q : VotesCast(n, j0, q)
    BY DEF LogsInv, ElectedOverAnswers
  <2> QED
    BY <2>1, <2>3, <2>4, QuorumType
<1> QED
  BY <1>1, <1>6, <1>7, <1>8, <1>9, <1>10, <1>11 DEF LogsInv

LEMMA AppendsStable ==
  ASSUME LogsInv, NEW l \in Node, NEW e \in LogEntry, Appends(l, e), NEW c \in Log, NEW k \in Nat
  PROVE  Stable(c, k)
<1> SUFFICES ASSUME Committed(c, k)
             PROVE  Committed(c, k)' /\ \A n \in Node : Agree(log[n], c, k) => Agree(log'[n], c, k)
  BY DEF Stable
<1>1. \A n \in Node : LastTerm(log'[n]) = LastTerm(log[n])
  BY AppendsTypes
<1>2. \A n \in Node : /\ log[n] \in Log /\ log'[n] \in Log
                      /\ Agree(log[n], log'[n], Len(log[n]))
  BY AppendsTypes
<1>3. k \in 0..Len(c)
  BY DEF Committed
<1>4. \A n \in Node : Agree(log[n], c, k) => Agree(log'[n], c, k)
  BY <1>2, AgreeExtended, AgreeSelf DEF Log
<1> QED
  BY <1>1, <1>4, QuorumType DEF Committed

LEMMA AdoptsTypes ==
  ASSUME LogsInv, NEW f \in Node, NEW l \in Node, NEW k \in Nat, Adopts(f, l, k)
  PROVE  /\ LogsTyped' /\ Leads(l) /\ l # f /\ term[f] <= term[l] /\ k \in 1..Len(log[l])
         /\ k = Len(log[l]) \/ (Committed(log[l], k) /\ ~ Agree(log[f], log[l], k))
         /\ \A n \in Node : n # f => log'[n] = log[n] /\ term'[n] = term[n] /\ role'[n] = role[n]
         /\ Len(log'[f]) = k /\ Agree(log'[f], log[l], k)
         /\ term'[f] = term[l] /\ role'[f] = "follower" /\ up' = up
         /\ match'[l][f] = k
         /\ \A x, q \in Node : x # f /\ ~ (x = l /\ q = f) => match'[x][q] = match[x][q]
<1>1. /\ term \in [Node -> 1..MaxTerm] /\ role \in [Node -> {"leader", "follower"}]
      /\ match \in [Node -> [Node -> Nat]] /\ log \in [Node -> Log] /\ up \in [Node -> BOOLEAN]
      /\ \A n \in Node : log[n] # << >>
  BY DEF LogsInv, LogsTyped
<1>2. Leads(l) /\ l # f /\ term[f] <= term[l] /\ k \in 1..Len(log[l]) /\ up' = up
  BY DEF Adopts
<1>3. k \in 0..Len(log[l])
  BY <1>2
<1>4. SubSeq(log[l], 1, k) \in Log /\ Len(SubSeq(log[l], 1, k)) = k /\ Agree(SubSeq(log[l], 1, k), log[l], k)
  BY <1>1, <1>3, Beginning
<1>5. log' \in [Node -> Log] /\ log'[f] = SubSeq(log[l], 1, k) /\ \A n \in Node : n # f => log'[n] = log[n]
  BY <1>1, <1>4 DEF Adopts
<1>6. log'[f] # << >>
  BY <1>2, <1>4, <1>5
<1>7. term' \in [Node -> 1..MaxTerm] /\ term'[f] = term[l] /\ \A n \in Node : n # f => term'[n] = term[n]
  BY <1>1 DEF Adopts
<1>8. /\ role' \in [Node -> {"leader", "follower"}] /\ role'[f] = "follower"
      /\ \A n \in Node : n # f => role'[n] = role[n]
  BY <1>1 DEF Adopts
<1>9. Unheard \in [Node -> Nat]
  BY DEF Unheard
<1>10. match' = [match EXCEPT ![f] = Unheard, ![l][f] = k]
  BY DEF Adopts, Acknowledge
<1>11. match' \in [Node -> [Node -> Nat]]
  BY <1>1, <1>9, <1>10
<1>12. match'[l][f] = k /\ \A x, q \in Node : x # f /\ ~ (x = l /\ q = f) => match'[x][q] = match[x][q]
  BY <1>1, <1>2, <1>9, <1>10
<1>13. LogsTyped'
  BY <1>1, <1>2, <1>5, <1>6, <1>7, <1>8, <1>11 DEF LogsTyped
<1>14. k = Len(log[l]) \/ (Committed(log[l], k) /\ ~ Agree(log[f], log[l], k))
  BY DEF Adopts
<1> QED
  BY <1>2, <1>4, <1>5, <1>7, <1>8, <1>12, <1>13, <1>14

\* What an adopting follower had of the committed entries it keeps.
LEMMA AdoptsStable ==
  ASSUME LogsInv, NEW f \in Node, NEW l \in Node, NEW k \in Nat, Adopts(f, l, k),
         NEW c \in Log, NEW i \in Nat
  PROVE  Stable(c, i)
<1> SUFFICES ASSUME Committed(c, i)
             PROVE  Committed(c, i)' /\ \A n \in Node : Agree(log[n], c, i) => Agree(log'[n], c, i)
  BY DEF Stable
<1>1. /\ Leads(l) /\ l # f /\ term[f] <= term[l] /\ k \in 1..Len(log[l])
      /\ k = Len(log[l]) \/ (Committed(log[l], k) /\ ~ Agree(log[f], log[l], k))
      /\ \A n \in Node : n # f => log'[n] = log[n]
      /\ Len(log'[f]) = k /\ Agree(log'[f], log[l], k) /\ LogsTyped'
  BY AdoptsTypes
<1>2. \A n \in Node : log[n] \in Log /\ log'[n] \in Log /\ Len(log[n]) \in Nat
  BY <1>1 DEF LogsInv, LogsTyped, Log
<1>3. i \in 1..Len(c) /\ c[i].term \in 1..MaxTerm /\ MaxTerm \in Nat
  BY EntryType, RaftAssumption DEF Committed
<1>4. Agree(log[l], c, i) /\ i <= k => Agree(log'[f], c, i)
  BY <1>1, <1>2, AgreeTransitive
<1>5. Agree(log[f], c, i) => Agree(log'[f], c, i)
  <2> SUFFICES ASSUME Agree(log[f], c, i) PROVE Agree(log'[f], c, i)
    OBVIOUS
  <2>1. c[i].term <= term[l]
    <3>1. i \in 1..Len(log[f]) /\ log[f][i] = c[i]
      BY <1>2, <1>3 DEF Agree
    <3>2. c[i].term <= term[f] /\ term[f] \in 1..MaxTerm /\ term[l] \in 1..MaxTerm
      BY <3>1, OrderedLast DEF LogsInv
    <3> QED
      BY <1>1, <1>3, <3>2
  <2>2. Agree(log[l], c, i)
    BY <1>1, <2>1, LeadersHold
  <2>3. i <= Len(log[l])
    BY <2>2 DEF Agree
  <2>4. CASE k = Len(log[l])
    BY <1>4, <2>2, <2>3, <2>4
  <2>5. CASE ~ Agree(log[f], log[l], k)
    <3> SUFFICES ASSUME k < i PROVE FALSE
      BY <1>4, <2>2
    <3>1. Agree(c, log[l], i)
      BY <2>2, AgreeSymmetric
    <3>2. Agree(c, log[l], k)
      BY <1>2, <3>1, AgreeLess
    <3> QED
      BY <1>2, <2>5, <3>2, AgreeTransitive
  <2> QED
    BY <1>1, <2>4, <2>5
<1>6. LastTerm(log'[f]) > c[i].term => Agree(log'[f], c, i)
  <2> SUFFICES ASSUME LastTerm(log'[f]) > c[i].term PROVE Agree(log'[f], c, i)
    OBVIOUS
  <2>1. LastTerm(log'[f]) = log[l][k].term
    <3>1. log'[f] # << >>
      BY <1>1 DEF LogsTyped
    <3>2. LastTerm(log'[f]) = log'[f][k].term
      BY <1>1, <1>2, <3>1, LastTermIs
    <3> QED
      BY <1>1, <3>2 DEF Agree
  <2>2. log[l][k].term <= LastTerm(log[l]) /\ LastTerm(log[l]) \in 1..MaxTerm /\ log[l][k].term \in 1..MaxTerm
    BY <1>1, OrderedLast DEF LogsInv
  <2>3. Agree(log[l], c, i)
    BY <1>3, <2>1, <2>2 DEF Committed
  <2>4. i \in 1..Len(log[l]) /\ log[l][i].term = c[i].term
    BY <1>2, <1>3, <2>3 DEF Agree
  <2>5. i <= k
    <3> SUFFICES ASSUME k < i PROVE FALSE
      BY <1>1
    <3>1. log[l][k].term <= log[l][i].term
      BY <1>1, <2>4 DEF LogsInv, LogsOrdered
    <3> QED
      BY <1>3, <2>1, <2>2, <2>4, <3>1
  <2> QED
    BY <1>4, <2>3, <2>5
<1>7. \A n \in Node : Agree(log[n], c, i) => Agree(log'[n], c, i)
  BY <1>1, <1>5
<1>8. \A n \in Node : LastTerm(log'[n]) > c[i].term => Agree(log'[n], c, i)
  BY <1>1, <1>6 DEF Committed
<1> QED
  BY <1>3, <1>7, <1>8, QuorumType DEF Committed

LEMMA AdoptsKeeps ==
  ASSUME LogsInv, NEW f \in Node, NEW l \in Node, NEW k \in Nat, Adopts(f, l, k)
  PROVE  LogsInv'
<1> DEFINE src(n) == IF n = f THEN l ELSE n
<1>1. /\ LogsTyped' /\ Leads(l) /\ l # f /\ term[f] <= term[l] /\ k \in 1..Len(log[l])
      /\ k = Len(log[l]) \/ (Committed(log[l], k) /\ ~ Agree(log[f], log[l], k))
      /\ \A n \in Node : n # f => log'[n] = log[n] /\ term'[n] = term[n] /\ role'[n] = role[n]
      /\ Len(log'[f]) = k /\ Agree(log'[f], log[l], k)
      /\ term'[f] = term[l] /\ role'[f] = "follower" /\ up' = up
      /\ match'[l][f] = k
      /\ \A x, q \in Node : x # f /\ ~ (x = l /\ q = f) => match'[x][q] = match[x][q]
  BY AdoptsTypes
<1>2. \A n \in Node : /\ log[n] \in Log /\ Len(log[n]) \in Nat \ {0}
                      /\ LastTerm(log[n]) = log[n][Len(log[n])].term
                      /\ LastTerm(log[n]) \in 1..MaxTerm /\ term[n] \in 1..MaxTerm /\ term[n] \in Nat
                      /\ \A i \in 1..Len(log[n]) :
                           /\ log[n][i].term \in 1..MaxTerm /\ log[n][i].term <= LastTerm(log[n])
                           /\ log[n][i].term <= term[n]
  BY OrderedLast, SMTT(30) DEF LogsInv
<1>3. \A n \in Node : /\ log'[n] \in Log /\ log'[n] # << >> /\ Len(log'[n]) \in Nat \ {0}
                      /\ LastTerm(log'[n]) = log'[n][Len(log'[n])].term
  BY <1>1, LastTermIs DEF LogsTyped
<1>4. \A n \in Node : /\ src(n) \in Node /\ Len(log'[n]) <= Len(log[src(n)])
                      /\ \A i \in 1..Len(log'[n]) : i \in 1..Len(log[src(n)]) /\ log'[n][i] = log[src(n)][i]
  BY <1>1, <1>2, <1>3, SMTT(30) DEF Agree
<1>5. \A n \in Node : term[n] <= term'[n] /\ term[src(n)] = term'[n] /\ term[n] \in Nat /\ term'[n] \in Nat
  BY <1>1, <1>2
<1>6. \A n \in Node : role'[n] = "leader" => n # f /\ Leads(n)
  BY <1>1 DEF Leads
<1> HIDE DEF src
<1>7. LogsOrdered'
  <2> SUFFICES ASSUME NEW n \in Node
               PROVE  /\ \A i, j \in 1..Len(log'[n]) : i <= j => log'[n][i].term <= log'[n][j].term
                      /\ LastTerm(log'[n]) <= term'[n]
    BY DEF LogsOrdered
  <2>1. \A i, j \in 1..Len(log'[n]) : i <= j => log'[n][i].term <= log'[n][j].term
    BY <1>4 DEF LogsInv, LogsOrdered
  <2>2. Len(log'[n]) \in 1..Len(log'[n])
    BY <1>3
  <2>3. LastTerm(log'[n]) = log[src(n)][Len(log'[n])].term /\ src(n) \in Node /\ Len(log'[n]) \in 1..Len(log[src(n)])
    BY <1>3, <1>4, <2>2
  <2>4. LastTerm(log'[n]) <= term[src(n)]
    BY <1>2, <2>3
  <2> QED
    BY <1>5, <2>1, <2>4
<1>8. TermsElected'
  <2> SUFFICES ASSUME NEW n \in Node PROVE \E Q \in Quorum : \A q \in Q : term'[n] <= term'[q]
    BY DEF TermsElected
  <2>1. PICK Q \in Quorum : \A q \in Q : term[src(n)] <= term[q]
    BY <1>4 DEF LogsInv, TermsElected
  <2>2. \A q \in Q : q \in Node
    BY QuorumType
  <2>3. \A q \in Q : term'[n] <= term'[q]
    BY <1>5, <2>1, <2>2
  <2> QED
    BY <2>3
<1>9. OneLeader'
  BY <1>1, <1>6 DEF LogsInv, OneLeader, Leads
<1>10. LeadersLog'
  <2> SUFFICES ASSUME NEW x \in Node, role'[x] = "leader"
               PROVE  /\ up[x] /\ LastTerm(log'[x]) = term'[x]
                      /\ \A n \in Node : \A i \in 1..Len(log'[n]) :
                           log'[n][i].term = term'[x] => i <= Len(log'[x])
    BY <1>1 DEF LeadersLog, Leads
  <2>1. x # f /\ Leads(x) /\ log'[x] = log[x] /\ term'[x] = term[x]
    BY <1>1, <1>6
  <2> QED
    BY <1>4, <2>1 DEF LogsInv, LeadersLog
<1>11. LogsMatch'
  <2> SUFFICES ASSUME NEW m \in Node, NEW n \in Node,
                      NEW i \in 1..Len(log'[m]), NEW j \in 1..Len(log'[n]),
                      i <= j, log'[m][i].term = log'[n][j].term
               PROVE  Agree(log'[m], log'[n], i)
    BY DEF LogsMatch
  <2>1. i \in 1..Len(log[src(m)]) /\ j \in 1..Len(log[src(n)])
        /\ log[src(m)][i].term = log[src(n)][j].term
    BY <1>4
  <2>2. Agree(log[src(m)], log[src(n)], i)
    BY <1>4, <2>1 DEF LogsInv, LogsMatch
  <2>3. \A x \in 1..i : x \in 1..Len(log'[m]) /\ x \in 1..Len(log'[n])
    BY <1>3
  <2>4. i <= Len(log'[m]) /\ i <= Len(log'[n])
    BY <1>3
  <2> QED
    BY <1>4, <2>2, <2>3, <2>4 DEF Agree
<1>12. AnswersKept'
  <2> SUFFICES ASSUME NEW x \in Node, NEW q \in Node, role'[x] = "leader", q # x, match'[x][q] > 0
               PROVE  /\ match'[x][q] <= Len(log'[x]) /\ term'[x] <= term'[q]
                      /\ LastTerm(log'[q]) > term'[x] \/ Agree(log'[x], log'[q], match'[x][q])
    BY DEF AnswersKept, Leads
  <2>1. x # f /\ Leads(x) /\ log'[x] = log[x] /\ term'[x] = term[x]
    BY <1>1, <1>6
  <2>2. CASE x = l /\ q = f
    <3>1. Agree(log'[x], log'[q], k)
      BY <1>1, <2>1, <2>2, AgreeSymmetric
    <3> QED
      BY <1>1, <1>2, <2>1, <2>2, <3>1
  <2>3. CASE ~ (x = l /\ q = f)
    <3>0. match'[x][q] = match[x][q] /\ match[x][q] \in Nat
      BY <1>1, <2>1, <2>3 DEF LogsInv, LogsTyped
    <3>1. /\ match[x][q] <= Len(log[x]) /\ term[x] <= term[q]
          /\ LastTerm(log[q]) > term[x] \/ Agree(log[x], log[q], match[x][q])
      BY <2>1, <3>0 DEF LogsInv, AnswersKept
    <3>2. term'[x] <= term'[q]
      BY <1>5, <2>1, <3>1
    <3>3. CASE q # f
      BY <1>1, <2>1, <3>0, <3>1, <3>2, <3>3
    <3>4. CASE q = f
      <4>1. x # l /\ term[x] < term[l]
        <5>1. x # l
          BY <2>3, <3>4
        <5>2. term[x] # term[l]
          BY <1>1, <2>1, <5>1 DEF LogsInv, OneLeader
        <5> QED
          BY <1>1, <1>2, <3>1, <3>4, <5>1, <5>2
      <4>2. LastTerm(log'[f]) = log[l][k].term /\ log[l][k].term \in 1..MaxTerm
        <5>1. k \in 1..k /\ log'[f][k] = log[l][k]
          BY <1>1 DEF Agree
        <5>2. LastTerm(log'[f]) = log'[f][k].term
          BY <1>1, <1>3
        <5> QED
          BY <1>1, <1>2, <5>1, <5>2
      <4>3. CASE log[l][k].term > term[x]
        BY <1>2, <2>1, <3>0, <3>1, <3>2, <3>4, <4>2, <4>3
      <4>4. CASE log[l][k].term <= term[x]
        <5>1. log[l][Len(log[l])].term = term[l]
          BY <1>1, <1>2 DEF LogsInv, LeadersLog
        <5>2. Committed(log[l], k) /\ ~ Agree(log[f], log[l], k)
          BY <1>1, <1>2, <4>1, <4>4, <5>1
        <5>3. Agree(log[x], log[l], k)
          BY <1>2, <2>1, <4>4, <5>2, LeadersHold
        <5>4. ~ (LastTerm(log[f]) > term[x])
          BY <1>2, <4>2, <4>4, <5>2 DEF Committed
        <5>5. Agree(log[x], log[f], match[x][q])
          BY <3>1, <3>4, <5>4
        <5>6. match[x][q] < k
          <6> SUFFICES ASSUME k <= match[x][q] PROVE FALSE
            BY <3>0
          <6>1. Agree(log[x], log[f], k)
            BY <1>2, <3>0, <5>5, AgreeLess
          <6>2. Agree(log[f], log[x], k)
            BY <6>1, AgreeSymmetric
          <6> QED
            BY <1>2, <5>2, <5>3, <6>2, AgreeTransitive
        <5>7. Agree(log[l], log'[f], k)
          BY <1>1, AgreeSymmetric
        <5>8. Agree(log[x], log'[f], k)
          BY <1>2, <1>3, <5>3, <5>7, AgreeTransitive
        <5>9. Agree(log[x], log'[f], match[x][q])
          BY <1>2, <1>3, <3>0, <5>6, <5>8, AgreeLess
        <5> QED
          BY <2>1, <3>0, <3>1, <3>2, <3>4, <5>9
      <4> QED
        BY <1>2, <2>1, <4>2, <4>3, <4>4
    <3> QED
      BY <3>3, <3>4
  <2> QED
    BY <2>2, <2>3
<1>13. ElectedOverAnswers'
  <2> SUFFICES ASSUME NEW n \in Node, NEW j \in 1..Len(log'[n])
               PROVE  \E Q \in Quorum : \A q \in Q : VotesCast(n, j, q)'
    BY DEF ElectedOverAnswers
  <2> DEFINE m == src(n)
  <2>1. m \in Node /\ j \in 1..Len(log[m]) /\ log'[n][j] = log[m][j] /\ log[m][j].term \in 1..MaxTerm
    BY <1>2, <1>4
  <2>2. PICK Q \in Quorum : \A q \in Q : VotesCast(m, j, q)
    BY <2>1 DEF LogsInv, ElectedOverAnswers
  <2>3. ASSUME NEW q \in Q PROVE VotesCast(n, j, q)'
    <3>0. q \in Node
      BY QuorumType
    <3>1. log[m][j].term <= term[q]
      BY <2>2 DEF VotesCast
    <3>2. log'[n][j].term <= term'[q]
      <4>1. log[m][j].term \in Nat /\ term[q] <= term'[q] /\ term[q] \in Nat /\ term'[q] \in Nat
        BY <1>5, <2>1, <3>0
      <4> QED
        BY <2>1, <3>1, <4>1
    <3>3. ASSUME NEW x \in Node, role'[x] = "leader", term'[x] < log'[n][j].term,
                 NEW i \in 1..Matched(x, q)', log'[x][i].term = term'[x]
          PROVE  Covered(n, j, x, i)'
      <4>1. x # f /\ Leads(x) /\ log'[x] = log[x] /\ term'[x] = term[x]
        BY <1>1, <1>6, <3>3
      <4>2. ~ (x = l /\ q = f)
        BY <1>1, <1>2, <2>1, <3>1, <3>3, <4>1, SMTT(30)
      <4>3. i \in 1..Matched(x, q)
        BY <1>1, <3>0, <3>3, <4>1, <4>2 DEF Matched
      <4>4. Covered(m, j, x, i)
        BY <2>1, <2>2, <3>3, <4>1, <4>3 DEF VotesCast
      <4>5. PICK y \in 1..j - 1 : /\ log[m][y].term < log[m][j].term
                                  /\ log[m][y].term > term[x] \/ (log[m][y].term = term[x] /\ i <= y)
        BY <4>4 DEF Covered
      <4>6. y \in 1..Len(log'[n])
        BY <1>3
      <4>7. log'[n][y] = log[m][y]
        BY <1>4, <4>6
      <4> QED
        BY <2>1, <4>1, <4>5, <4>7 DEF Covered
    <3> QED
      BY <3>2, <3>3 DEF VotesCast, Leads
  <2> QED
    BY <2>3
<1> QED
  BY <1>1, <1>7, <1>8, <1>9, <1>10, <1>11, <1>12, <1>13 DEF LogsInv

LEMMA ElectsTypes ==
  ASSUME LogsInv, NEW n \in Node, NEW Q \in Quorum, NEW t, NEW e \in LogEntry, Elects(n, Q, t, e)
  PROVE  /\ LogsTyped' /\ n \in Q /\ t \in 1..MaxTerm /\ e.term = t /\ up' = up /\ up[n]
         /\ \A q \in Q : UpToDate(n, q) /\ term[q] < t /\ term'[q] = t /\ match'[q] = Unheard
         /\ \A q \in Node \ Q : term'[q] = term[q] /\ role'[q] = role[q] /\ match'[q] = match[q]
         /\ role'[n] = "leader" /\ \A q \in Q : q # n => role'[q] = "follower"
         /\ \A m \in Node : m # n => log'[m] = log[m]
         /\ Len(log'[n]) = Len(log[n]) + 1 /\ log'[n][Len(log[n]) + 1] = e
         /\ \A m \in Node : /\ log[m] \in Log /\ log'[m] \in Log
                            /\ Len(log[m]) \in Nat \ {0} /\ Len(log'[m]) \in Nat \ {0}
                            /\ Agree(log[m], log'[m], Len(log[m]))
         /\ \A m \in Node : term[m] < t /\ term[m] <= term'[m] /\ term[m] \in 1..MaxTerm /\ term'[m] \in 1..MaxTerm
         /\ LastTerm(log'[n]) = t
<1>1. /\ term \in [Node -> 1..MaxTerm] /\ role \in [Node -> {"leader", "follower"}]
      /\ match \in [Node -> [Node -> Nat]] /\ log \in [Node -> Log] /\ up \in [Node -> BOOLEAN]
      /\ \A m \in Node : log[m] # << >>
  BY DEF LogsInv, LogsTyped
<1>2. n \in Q /\ t \in 1..MaxTerm /\ e.term = t /\ up' = up /\ up[n]
      /\ \A q \in Q : UpToDate(n, q) /\ term[q] < t
  BY DEF Elects
<1>3. Q \subseteq Node
  BY QuorumType
<1>4. /\ term' \in [Node -> 1..MaxTerm] /\ \A q \in Q : term'[q] = t
      /\ \A q \in Node \ Q : term'[q] = term[q]
  BY <1>1, <1>2, <1>3 DEF Elects
<1>5. /\ role' \in [Node -> {"leader", "follower"}] /\ role'[n] = "leader"
      /\ \A q \in Q : q # n => role'[q] = "follower"
      /\ \A q \in Node \ Q : role'[q] = role[q]
  BY <1>1, <1>2, <1>3 DEF Elects
<1>6. Unheard \in [Node -> Nat]
  BY DEF Unheard
<1>7. /\ match' \in [Node -> [Node -> Nat]] /\ \A q \in Q : match'[q] = Unheard
      /\ \A q \in Node \ Q : match'[q] = match[q]
  BY <1>1, <1>3, <1>6 DEF Elects
<1>8. log' \in [Node -> Log] /\ log'[n] = Append(log[n], e) /\ \A m \in Node : m # n => log'[m] = log[m]
  <2>1. Append(log[n], e) \in Log
    BY <1>1, Appended
  <2> QED
    BY <1>1, <2>1 DEF Elects
<1>9. /\ Len(log'[n]) = Len(log[n]) + 1 /\ log'[n][Len(log[n]) + 1] = e
      /\ \A i \in 1..Len(log[n]) : log'[n][i] = log[n][i]
  BY <1>1, <1>8, Appended
<1>10. \A m \in Node : log[m] \in Log /\ log'[m] \in Log /\ Len(log[m]) \in Nat \ {0}
  BY <1>1, <1>8, LastTermIs
<1>11. \A m \in Node : Len(log'[m]) \in Nat \ {0} /\ Agree(log[m], log'[m], Len(log[m]))
  BY <1>8, <1>9, <1>10 DEF Agree
<1>12. \A m \in Node : log'[m] # << >>
  BY <1>10, <1>11
<1>13. LogsTyped'
  BY <1>1, <1>2, <1>4, <1>5, <1>7, <1>8, <1>12 DEF LogsTyped
<1>14. ASSUME NEW m \in Node PROVE term[m] < t
  <2>1. PICK P \in Quorum : \A q \in P : term[m] <= term[q]
    BY DEF LogsInv, TermsElected
  <2>2. PICK q \in Node : q \in P /\ q \in Q
    BY QuorumsMeet
  <2>3. term[m] <= term[q] /\ term[q] < t /\ term[q] \in 1..MaxTerm /\ term[m] \in 1..MaxTerm
    BY <1>1, <1>2, <2>1, <2>2
  <2> QED
    BY <1>2, <2>3
<1>15. \A m \in Node : term[m] \in 1..MaxTerm /\ term'[m] \in 1..MaxTerm
  BY <1>1, <1>4
<1>16. \A m \in Node : term[m] <= term'[m]
  BY <1>2, <1>3, <1>4, <1>14, <1>15
<1>17. LastTerm(log'[n]) = t
  BY <1>2, <1>9, <1>10, <1>12, LastTermIs
<1> QED
  BY <1>2, <1>3, <1>4, <1>5, <1>7, <1>8, <1>9, <1>10, <1>11, <1>13, <1>14, <1>15, <1>16, <1>17

\* Whoever a voter votes for has what is committed.
LEMMA ElectedHolds ==
  ASSUME LogsInv, NEW n \in Node, NEW Q \in Quorum, NEW c \in Log, NEW k \in Nat,
         Committed(c, k), \A q \in Q : UpToDate(n, q)
  PROVE  Agree(log[n], c, k)
<1>0. \A m \in Node : /\ log[m] \in Log /\ Len(log[m]) \in Nat \ {0} /\ LastTerm(log[m]) = log[m][Len(log[m])].term
                      /\ LastTerm(log[m]) \in 1..MaxTerm
                      /\ \A i \in 1..Len(log[m]) : log[m][i].term <= LastTerm(log[m])
  BY OrderedLast DEF LogsInv
<1>1. k \in 1..Len(c) /\ c[k].term \in 1..MaxTerm /\ MaxTerm \in Nat
  BY EntryType, RaftAssumption DEF Committed
<1>2. PICK P \in Quorum : \A q \in P : Agree(log[q], c, k)
  BY DEF Committed
<1>3. PICK q \in Node : q \in P /\ q \in Q
  BY QuorumsMeet
<1>4. Agree(log[q], c, k) /\ k \in 1..Len(log[q]) /\ log[q][k].term = c[k].term
  BY <1>0, <1>1, <1>2, <1>3 DEF Agree
<1>5. c[k].term <= LastTerm(log[q])
  BY <1>0, <1>4
<1>6. LastTerm(log[q]) <= LastTerm(log[n])
      /\ (LastTerm(log[q]) = LastTerm(log[n]) => Len(log[q]) <= Len(log[n]))
  BY <1>0, <1>3 DEF UpToDate
<1>7. CASE c[k].term < LastTerm(log[n])
  BY <1>0, <1>1, <1>7 DEF Committed
<1>8. CASE c[k].term = LastTerm(log[n])
  <2>1. k <= Len(log[n]) /\ Len(log[n]) \in 1..Len(log[n])
    BY <1>0, <1>1, <1>4, <1>5, <1>6, <1>8
  <2>2. log[q][k].term = log[n][Len(log[n])].term
    BY <1>0, <1>4, <1>8
  <2>3. Agree(log[q], log[n], k)
    BY <1>4, <2>1, <2>2 DEF LogsInv, LogsMatch
  <2>4. Agree(log[n], log[q], k)
    BY <2>3, AgreeSymmetric
  <2> QED
    BY <1>0, <1>4, <2>4, AgreeTransitive
<1> QED
  BY <1>0, <1>1, <1>5, <1>6, <1>7, <1>8

LEMMA ElectsStable ==
  ASSUME LogsInv, NEW n \in Node, NEW Q \in Quorum, NEW t, NEW e \in LogEntry, Elects(n, Q, t, e),
         NEW c \in Log, NEW k \in Nat
  PROVE  Stable(c, k)
<1> SUFFICES ASSUME Committed(c, k)
             PROVE  Committed(c, k)' /\ \A m \in Node : Agree(log[m], c, k) => Agree(log'[m], c, k)
  BY DEF Stable
<1>1. /\ \A q \in Q : UpToDate(n, q)
      /\ \A m \in Node : m # n => log'[m] = log[m]
      /\ \A m \in Node : /\ log[m] \in Log /\ log'[m] \in Log
                         /\ Agree(log[m], log'[m], Len(log[m]))
  BY ElectsTypes
<1>2. k \in 0..Len(c) /\ Len(c) \in Nat /\ Agree(c, c, Len(c))
  BY AgreeSelf DEF Committed, Log
<1>3. \A m \in Node : Agree(log[m], c, k) => Agree(log'[m], c, k)
  BY <1>1, <1>2, AgreeExtended
<1>4. Agree(log'[n], c, k)
  BY <1>1, <1>3, ElectedHolds
<1>5. \A m \in Node : LastTerm(log'[m]) > c[k].term => Agree(log'[m], c, k)
  BY <1>1, <1>4 DEF Committed
<1> QED
  BY <1>3, <1>5, QuorumType DEF Committed

\* A vote goes to a log as recent as everything the voter has acknowledged.
LEMMA VoteCovers ==
  ASSUME LogsInv, NEW n \in Node, NEW q \in Node, UpToDate(n, q),
         NEW x \in Node, Leads(x), x # q, NEW i \in 1..match[x][q], log[x][i].term = term[x]
  PROVE  LastTerm(log[n]) > term[x] \/ (LastTerm(log[n]) = term[x] /\ i <= Len(log[n]))
<1>0. \A m \in Node : /\ log[m] \in Log /\ Len(log[m]) \in Nat \ {0} /\ LastTerm(log[m]) = log[m][Len(log[m])].term
                      /\ LastTerm(log[m]) \in 1..MaxTerm /\ term[m] \in 1..MaxTerm
                      /\ \A j \in 1..Len(log[m]) : log[m][j].term <= LastTerm(log[m])
  BY OrderedLast DEF LogsInv
<1>1. match[x][q] \in Nat /\ match[x][q] > 0
  BY DEF LogsInv, LogsTyped
<1>2. match[x][q] <= Len(log[x]) /\ (LastTerm(log[q]) > term[x] \/ Agree(log[x], log[q], match[x][q]))
  BY <1>1 DEF LogsInv, AnswersKept
<1>3. LastTerm(log[q]) <= LastTerm(log[n])
      /\ (LastTerm(log[q]) = LastTerm(log[n]) => Len(log[q]) <= Len(log[n]))
  BY <1>0 DEF UpToDate
<1>4. CASE LastTerm(log[q]) > term[x]
  BY <1>0, <1>3, <1>4
<1>5. CASE Agree(log[x], log[q], match[x][q])
  <2>1. i \in 1..Len(log[q]) /\ log[q][i].term = term[x]
    BY <1>0, <1>1, <1>5, SMTT(30) DEF Agree
  <2>2. term[x] <= LastTerm(log[q])
    BY <1>0, <2>1
  <2>3. Len(log[q]) \in Nat /\ Len(log[n]) \in Nat /\ i \in Nat /\ i <= Len(log[q])
    BY <1>0, <2>1
  <2> QED
    BY <1>0, <1>3, <2>2, <2>3
<1> QED
  BY <1>2, <1>4, <1>5

LEMMA ElectsKeeps ==
  ASSUME LogsInv, NEW n \in Node, NEW Q \in Quorum, NEW t, NEW e \in LogEntry, Elects(n, Q, t, e)
  PROVE  LogsInv'
<1> DEFINE new == Len(log[n]) + 1
<1>1. /\ LogsTyped' /\ n \in Q /\ t \in 1..MaxTerm /\ e.term = t /\ up' = up /\ up[n]
      /\ \A q \in Q : UpToDate(n, q) /\ term[q] < t /\ term'[q] = t /\ match'[q] = Unheard
      /\ \A q \in Node \ Q : term'[q] = term[q] /\ role'[q] = role[q] /\ match'[q] = match[q]
      /\ role'[n] = "leader" /\ \A q \in Q : q # n => role'[q] = "follower"
      /\ \A m \in Node : m # n => log'[m] = log[m]
      /\ Len(log'[n]) = new /\ log'[n][new] = e
      /\ \A m \in Node : /\ log[m] \in Log /\ log'[m] \in Log
                         /\ Len(log[m]) \in Nat \ {0} /\ Len(log'[m]) \in Nat \ {0}
                         /\ Agree(log[m], log'[m], Len(log[m]))
      /\ \A m \in Node : term[m] < t /\ term[m] <= term'[m] /\ term[m] \in 1..MaxTerm /\ term'[m] \in 1..MaxTerm
      /\ LastTerm(log'[n]) = t
  BY ElectsTypes
<1>2. \A m \in Node : /\ LastTerm(log[m]) = log[m][Len(log[m])].term
                      /\ LastTerm(log[m]) \in 1..MaxTerm /\ LastTerm(log[m]) <= term[m]
                      /\ \A i \in 1..Len(log[m]) :
                           /\ log[m][i].term \in 1..MaxTerm /\ log[m][i].term <= LastTerm(log[m])
                           /\ log[m][i].term <= term[m]
  BY OrderedLast DEF LogsInv
<1>3. Q \subseteq Node /\ MaxTerm \in Nat /\ new \in Nat
  BY <1>1, QuorumType, RaftAssumption
<1>4. \A m \in Node : \A i \in 1..Len(log[m]) : log[m][i].term < t /\ log'[m][i] = log[m][i]
  <2> SUFFICES ASSUME NEW m \in Node, NEW i \in 1..Len(log[m])
               PROVE  log[m][i].term < t /\ log'[m][i] = log[m][i]
    OBVIOUS
  <2>1. log'[m][i] = log[m][i]
    BY <1>1 DEF Agree
  <2>2. log[m][i].term <= term[m] /\ term[m] < t /\ log[m][i].term \in 1..MaxTerm /\ term[m] \in 1..MaxTerm
    BY <1>1, <1>2
  <2> QED
    BY <1>1, <2>1, <2>2
\* Every entry but the new one is an old one.
<1>5. ASSUME NEW m \in Node, NEW i \in 1..Len(log'[m]), ~ (m = n /\ i = new)
      PROVE  i \in 1..Len(log[m]) /\ log'[m][i] = log[m][i] /\ log'[m][i].term < t
             /\ log'[m][i].term \in 1..MaxTerm
  <2>1. i \in 1..Len(log[m])
    BY <1>1, <1>5
  <2> QED
    BY <1>2, <1>4, <2>1
<1>6. ASSUME NEW x \in Node, role'[x] = "leader", x # n
      PROVE  /\ x \notin Q /\ Leads(x) /\ log'[x] = log[x] /\ term'[x] = term[x] /\ match'[x] = match[x]
             /\ term[x] < t
  BY <1>1, <1>6 DEF Leads
<1>7. LogsOrdered'
  <2> SUFFICES ASSUME NEW m \in Node
               PROVE  /\ \A i, j \in 1..Len(log'[m]) : i <= j => log'[m][i].term <= log'[m][j].term
                      /\ LastTerm(log'[m]) <= term'[m]
    BY DEF LogsOrdered
  <2>1. ASSUME NEW i \in 1..Len(log'[m]), NEW j \in 1..Len(log'[m]), i <= j
        PROVE  log'[m][i].term <= log'[m][j].term
    <3>1. CASE m = n /\ j = new /\ i = new
      BY <1>1, <3>1
    <3>2. CASE m = n /\ j = new /\ i # new
      BY <1>1, <1>5, <3>2
    <3>3. CASE ~ (m = n /\ j = new)
      <4>1. ~ (m = n /\ i = new)
        BY <1>1, <2>1, <3>3
      <4> QED
        BY <1>5, <2>1, <3>3, <4>1 DEF LogsInv, LogsOrdered
    <3> QED
      BY <3>1, <3>2, <3>3
  <2>2. CASE m = n
    BY <1>1, <2>1, <2>2
  <2>3. CASE m # n
    <3>1. LastTerm(log'[m]) <= term[m] /\ LastTerm(log'[m]) \in 1..MaxTerm
      BY <1>1, <1>2, <2>3
    <3> QED
      BY <1>1, <2>1, <3>1
  <2> QED
    BY <2>2, <2>3
<1>8. TermsElected'
  <2> SUFFICES ASSUME NEW m \in Node PROVE \E P \in Quorum : \A q \in P : term'[m] <= term'[q]
    BY DEF TermsElected
  <2>1. CASE m \in Q
    BY <1>1, <2>1
  <2>2. CASE m \notin Q
    <3>1. PICK P \in Quorum : \A q \in P : term[m] <= term[q]
      BY DEF LogsInv, TermsElected
    <3>2. ASSUME NEW q \in P PROVE term'[m] <= term'[q]
      <4>1. q \in Node
        BY QuorumType
      <4>2. term[m] <= term[q] /\ term[q] <= term'[q] /\ term'[m] = term[m]
        BY <1>1, <2>2, <3>1, <4>1
      <4>3. term[m] \in 1..MaxTerm /\ term[q] \in 1..MaxTerm /\ term'[q] \in 1..MaxTerm
        BY <1>1, <4>1
      <4> QED
        BY <4>2, <4>3
    <3> QED
      BY <3>2
  <2> QED
    BY <2>1, <2>2
<1>9. OneLeader'
  <2> SUFFICES ASSUME NEW x \in Node, NEW y \in Node, role'[x] = "leader", role'[y] = "leader",
                      term'[x] = term'[y]
               PROVE  x = y
    BY DEF OneLeader, Leads
  <2>1. CASE x # n /\ y # n
    BY <1>6, <2>1 DEF LogsInv, OneLeader
  <2>2. term'[n] = t
    BY <1>1
  <2>3. CASE x = n /\ y # n
    BY <1>1, <1>6, <2>2, <2>3
  <2>4. CASE x # n /\ y = n
    BY <1>1, <1>6, <2>2, <2>4
  <2> QED
    BY <2>1, <2>3, <2>4
<1>10. LeadersLog'
  <2> SUFFICES ASSUME NEW x \in Node, role'[x] = "leader"
               PROVE  /\ up[x] /\ LastTerm(log'[x]) = term'[x]
                      /\ \A m \in Node : \A i \in 1..Len(log'[m]) :
                           log'[m][i].term = term'[x] => i <= Len(log'[x])
    BY <1>1 DEF LeadersLog, Leads
  <2>1. CASE x = n
    <3>1. \A m \in Node : \A i \in 1..Len(log'[m]) : log'[m][i].term = t => i <= Len(log'[n])
      BY <1>1, <1>3, <1>5, SMTT(30)
    <3> QED
      BY <1>1, <2>1, <3>1
  <2>2. CASE x # n
    <3>1. /\ x \notin Q /\ Leads(x) /\ log'[x] = log[x] /\ term'[x] = term[x] /\ term[x] < t
      BY <1>6, <2>2
    <3>2. up[x] /\ LastTerm(log[x]) = term[x]
      BY <3>1 DEF LogsInv, LeadersLog
    <3>3. ASSUME NEW m \in Node, NEW i \in 1..Len(log'[m]), log'[m][i].term = term[x]
          PROVE  i <= Len(log[x])
      <4>1. ~ (m = n /\ i = new)
        BY <1>1, <3>1, <3>3
      <4>2. i \in 1..Len(log[m]) /\ log[m][i].term = term[x]
        BY <1>5, <3>3, <4>1
      <4> QED
        BY <3>1, <4>2 DEF LogsInv, LeadersLog
    <3> QED
      BY <3>1, <3>2, <3>3
  <2> QED
    BY <2>1, <2>2
<1>11. LogsMatch'
  <2> SUFFICES ASSUME NEW m \in Node, NEW p \in Node,
                      NEW i \in 1..Len(log'[m]), NEW j \in 1..Len(log'[p]),
                      i <= j, log'[m][i].term = log'[p][j].term
               PROVE  Agree(log'[m], log'[p], i)
    BY DEF LogsMatch
  <2>1. CASE m = p
    BY <1>1, <2>1 DEF Agree
  <2>2. CASE m # p
    <3>1. ~ (m = n /\ i = new)
      BY <1>1, <1>5, <2>2
    <3>2. ~ (p = n /\ j = new)
      BY <1>1, <1>5, <2>2
    <3>3. i \in 1..Len(log[m]) /\ j \in 1..Len(log[p]) /\ log[m][i].term = log[p][j].term
      BY <1>5, <3>1, <3>2
    <3>4. Agree(log[m], log[p], i)
      BY <3>3 DEF LogsInv, LogsMatch
    <3> QED
      BY <1>1, <3>3, <3>4, AgreeExtended
  <2> QED
    BY <2>1, <2>2
<1>12. AnswersKept'
  <2> SUFFICES ASSUME NEW x \in Node, NEW q \in Node, role'[x] = "leader", q # x, match'[x][q] > 0
               PROVE  /\ match'[x][q] <= Len(log'[x]) /\ term'[x] <= term'[q]
                      /\ LastTerm(log'[q]) > term'[x] \/ Agree(log'[x], log'[q], match'[x][q])
    BY DEF AnswersKept, Leads
  <2>1. x # n
    BY <1>1 DEF Unheard
  <2>2. Leads(x) /\ log'[x] = log[x] /\ term'[x] = term[x] /\ match'[x] = match[x] /\ term[x] < t
    BY <1>6, <2>1
  <2>3. match[x][q] \in Nat
    BY DEF LogsInv, LogsTyped
  <2>4. /\ match[x][q] <= Len(log[x]) /\ term[x] <= term[q]
        /\ LastTerm(log[q]) > term[x] \/ Agree(log[x], log[q], match[x][q])
    BY <2>2 DEF LogsInv, AnswersKept
  <2>5. term'[x] <= term'[q]
    <3>1. term[x] <= term[q] /\ term[q] <= term'[q]
      BY <1>1, <2>4
    <3>2. term[x] \in 1..MaxTerm /\ term[q] \in 1..MaxTerm /\ term'[q] \in 1..MaxTerm
      BY <1>1
    <3> QED
      BY <2>2, <3>1, <3>2
  <2>6. Agree(log[x], log[q], match[x][q]) => Agree(log'[x], log'[q], match[x][q])
    BY <1>1, <2>3, AgreeExtended
  <2>7. LastTerm(log[q]) > term[x] => LastTerm(log'[q]) > term[x]
    BY <1>1, <2>2
  <2> QED
    BY <2>2, <2>4, <2>5, <2>6, <2>7
<1>13. ElectedOverAnswers'
  <2> SUFFICES ASSUME NEW m \in Node, NEW j \in 1..Len(log'[m])
               PROVE  \E P \in Quorum : \A q \in P : VotesCast(m, j, q)'
    BY DEF ElectedOverAnswers
  <2>0. ASSUME NEW x \in Node, role'[x] = "leader", x # n, NEW q \in Node, NEW i \in 1..Matched(x, q)'
        PROVE  i \in 1..Matched(x, q)
    BY <1>6, <2>0 DEF Matched
  <2>1. CASE m = n /\ j = new
    <3>1. ASSUME NEW q \in Q PROVE VotesCast(m, j, q)'
      <4>1. log'[m][j].term <= term'[q] /\ log'[m][j].term = t
        BY <1>1, <2>1
      <4>2. ASSUME NEW x \in Node, role'[x] = "leader", term'[x] < t,
                   NEW i \in 1..Matched(x, q)', log'[x][i].term = term'[x]
            PROVE  Covered(m, j, x, i)'
        <5>1. x # n
          BY <1>1, <4>2
        <5>2. x \notin Q /\ x # q /\ Leads(x) /\ log'[x] = log[x] /\ term'[x] = term[x]
          BY <1>6, <4>2, <5>1
        <5>3. i \in 1..match[x][q] /\ q \in Node
          BY <1>3, <2>0, <4>2, <5>1, <5>2 DEF Matched
        <5>4. LastTerm(log[n]) > term[x] \/ (LastTerm(log[n]) = term[x] /\ i <= Len(log[n]))
          BY <1>1, <4>2, <5>2, <5>3, VoteCovers
        <5>5. Len(log[n]) \in 1..Len(log[n]) /\ LastTerm(log[n]) = log[n][Len(log[n])].term
          BY <1>1, <1>2
        <5>6. log'[m][Len(log[n])].term = LastTerm(log[n]) /\ LastTerm(log[n]) < t
          BY <1>4, <2>1, <5>5
        <5>7. Len(log[n]) \in 1..j - 1
          BY <1>1, <2>1
        <5> QED
          BY <4>1, <5>2, <5>4, <5>6, <5>7 DEF Covered
      <4> QED
        BY <4>1, <4>2 DEF VotesCast, Leads
    <3> QED
      BY <3>1
  <2>2. CASE ~ (m = n /\ j = new)
    <3>1. j \in 1..Len(log[m]) /\ log'[m][j] = log[m][j] /\ log[m][j].term < t /\ log[m][j].term \in 1..MaxTerm
      BY <1>5, <2>2
    <3>2. PICK P \in Quorum : \A q \in P : VotesCast(m, j, q)
      BY <3>1 DEF LogsInv, ElectedOverAnswers
    <3>3. ASSUME NEW q \in P PROVE VotesCast(m, j, q)'
      <4>0. q \in Node
        BY QuorumType
      <4>1. log'[m][j].term <= term'[q]
        <5>1. log[m][j].term <= term[q] /\ term[q] <= term'[q]
          BY <1>1, <3>2, <4>0 DEF VotesCast
        <5>2. term[q] \in 1..MaxTerm /\ term'[q] \in 1..MaxTerm
          BY <1>1, <4>0
        <5> QED
          BY <3>1, <5>1, <5>2
      <4>2. ASSUME NEW x \in Node, role'[x] = "leader", term'[x] < log'[m][j].term,
                   NEW i \in 1..Matched(x, q)', log'[x][i].term = term'[x]
            PROVE  Covered(m, j, x, i)'
        <5>1. x # n
          BY <1>1, <3>1, <4>2
        <5>2. Leads(x) /\ log'[x] = log[x] /\ term'[x] = term[x]
          BY <1>6, <4>2, <5>1
        <5>3. i \in 1..Matched(x, q)
          BY <2>0, <4>0, <4>2, <5>1
        <5>4. Covered(m, j, x, i)
          BY <3>1, <3>2, <4>2, <5>2, <5>3 DEF VotesCast
        <5>5. PICK y \in 1..j - 1 : /\ log[m][y].term < log[m][j].term
                                    /\ log[m][y].term > term[x] \/ (log[m][y].term = term[x] /\ i <= y)
          BY <5>4 DEF Covered
        <5>6. y \in 1..Len(log[m])
          BY <1>1, <3>1
        <5>7. log'[m][y] = log[m][y]
          BY <1>4, <5>6
        <5> QED
          BY <3>1, <5>2, <5>5, <5>7 DEF Covered
      <4> QED
        BY <4>1, <4>2 DEF VotesCast, Leads
    <3> QED
      BY <3>3
  <2> QED
    BY <2>1, <2>2
<1> QED
  BY <1>1, <1>7, <1>8, <1>9, <1>10, <1>11, <1>12, <1>13 DEF LogsInv

-----------------------------------------------------------------------------
(* Commitment.                                                             *)

\* Of two committed logs one is the beginning of the other.
LEMMA CommittedCompare ==
  ASSUME LogsInv, NEW c \in Log, NEW d \in Log, NEW i \in Nat, NEW j \in Nat,
         Committed(c, i), Committed(d, j), i <= j
  PROVE  Agree(c, d, i)
<1>1. PICK P \in Quorum : \A q \in P : Agree(log[q], c, i)
  BY DEF Committed
<1>2. PICK Q \in Quorum : \A q \in Q : Agree(log[q], d, j)
  BY DEF Committed
<1>3. PICK q \in Node : q \in P /\ q \in Q
  BY QuorumsMeet
<1>4. log[q] \in Log /\ Agree(c, log[q], i) /\ Agree(log[q], d, j)
  BY <1>1, <1>2, <1>3, AgreeSymmetric DEF LogsInv, LogsTyped
<1>5. Agree(log[q], d, i)
  BY <1>4, AgreeLess
<1> QED
  BY <1>4, <1>5, AgreeTransitive

\* Being committed is a matter of the first entries only.
LEMMA CommittedSame ==
  ASSUME LogsInv, NEW c \in Log, NEW d \in Log, NEW i \in Nat, Committed(c, i), Agree(c, d, i)
  PROVE  Committed(d, i)
<1>1. i \in 1..Len(c) /\ i \in 1..Len(d) /\ c[i] = d[i]
  BY DEF Committed, Agree, Log
<1>2. \A n \in Node : Agree(log[n], c, i) => Agree(log[n], d, i)
  <2>1. \A n \in Node : log[n] \in Log
    BY DEF LogsInv, LogsTyped
  <2> QED
    BY <2>1, AgreeTransitive
<1> QED
  BY <1>1, <1>2, QuorumType DEF Committed

\* What a quorum has acknowledged to a leader, up to an entry of its term, is committed.
LEMMA CommitSound ==
  ASSUME LogsInv, NEW l \in Node, Leads(l), NEW i \in 1..Len(log[l]),
         log[l][i].term = term[l], Replicated(l, i)
  PROVE  Committed(log[l], i)
<1>0. \A n \in Node : /\ log[n] \in Log /\ Len(log[n]) \in Nat \ {0} /\ LastTerm(log[n]) = log[n][Len(log[n])].term
                      /\ LastTerm(log[n]) \in 1..MaxTerm /\ term[n] \in 1..MaxTerm
                      /\ \A j \in 1..Len(log[n]) : log[n][j].term \in 1..MaxTerm
  BY OrderedLast DEF LogsInv
<1>1. PICK P \in Quorum : \A q \in P : i <= Matched(l, q)
  BY DEF Replicated
<1>2. ASSUME NEW n \in Node, LastTerm(log[n]) > term[l]
      PROVE  Agree(log[n], log[l], i)
  <2> DEFINE Later == {j \in 1..Len(log[n]) : log[n][j].term > term[l]}
  <2>1. PICK j \in Later : \A y \in Later : j <= y
    <3>1. Later \in SUBSET Nat
      BY <1>0
    <3>2. Later # {}
      <4>1. Len(log[n]) \in 1..Len(log[n])
        BY <1>0
      <4>2. log[n][Len(log[n])].term > term[l]
        BY <1>0, <1>2
      <4> QED
        BY <4>1, <4>2
    <3> HIDE DEF Later
    <3> QED
      BY <3>1, <3>2, Smallest
  <2>2. j \in 1..Len(log[n]) /\ log[n][j].term > term[l]
    BY <2>1
  <2>3. PICK Q \in Quorum : \A q \in Q : VotesCast(n, j, q)
    BY <2>2 DEF LogsInv, ElectedOverAnswers
  <2>4. PICK q \in Node : q \in P /\ q \in Q
    BY QuorumsMeet
  <2>5. i \in 1..Matched(l, q)
    <3>1. Matched(l, q) \in Nat
      BY <1>0 DEF Matched, LogsInv, LogsTyped
    <3> QED
      BY <1>1, <2>4, <3>1
  <2>6. term[l] < log[n][j].term
    BY <1>0, <2>2
  <2>7. Covered(n, j, l, i)
    BY <2>3, <2>4, <2>5, <2>6 DEF VotesCast
  <2>8. PICK k \in 1..j - 1 : log[n][k].term > term[l] \/ (log[n][k].term = term[l] /\ i <= k)
    BY <2>7 DEF Covered
  <2>9. k \in 1..Len(log[n]) /\ k < j
    BY <1>0, <2>2
  <2>10. ~ (log[n][k].term > term[l])
    BY <2>1, <2>9
  <2>11. Agree(log[l], log[n], i)
    BY <2>8, <2>9, <2>10 DEF LogsInv, LogsMatch
  <2> QED
    BY <2>11, AgreeSymmetric
<1>3. ASSUME NEW q \in P PROVE Agree(log[q], log[l], i)
  <2>0. q \in Node
    BY QuorumType
  <2>1. CASE q = l
    BY <1>0, <2>1, AgreeSelf
  <2>2. CASE q # l
    <3>1. i <= match[l][q] /\ match[l][q] \in Nat
      BY <1>1, <2>0, <2>2 DEF Matched, LogsInv, LogsTyped
    <3>2. LastTerm(log[q]) > term[l] \/ Agree(log[l], log[q], match[l][q])
      BY <2>0, <2>2, <3>1 DEF LogsInv, AnswersKept
    <3>3. Agree(log[l], log[q], match[l][q]) => Agree(log[l], log[q], i)
      BY <1>0, <2>0, <3>1, AgreeLess
    <3> QED
      BY <1>2, <2>0, <3>2, <3>3, AgreeSymmetric
  <2> QED
    BY <2>1, <2>2
<1> QED
  BY <1>2, <1>3 DEF Committed

-----------------------------------------------------------------------------
(* The state machine: applying committed commands one by one replays them. *)

Stores == [Key -> Value \union {Absent}]

\* The recursion behind FoldLeft.
ApplyStep(base, cmds, g, s) == IF s = {} THEN base ELSE ApplyCommand(g[s \ {Max(s)}], cmds[Max(s)])
ApplyIter(base, cmds, S) == CHOOSE g : g = [s \in SUBSET S |-> ApplyStep(base, cmds, g, s)]

LEMMA FoldIsIter ==
  \A base, cmds : FoldLeft(ApplyCommand, base, cmds) = ApplyIter(base, cmds, DOMAIN cmds)[DOMAIN cmds]
  BY DEF FoldLeft, MapThenFoldSet, ApplyIter, ApplyStep

LEMMA MaxOf == ASSUME NEW m \in Nat, NEW s \in SUBSET (1..m), s # {} PROVE Max(s) \in s /\ \A y \in s : y <= Max(s)
<1>1. s \in SUBSET Nat /\ \A y \in s : y <= m
  OBVIOUS
<1> QED
  BY <1>1, Largest

LEMMA ApplyIterExists ==
  ASSUME NEW base, NEW cmds, NEW m \in Nat
  PROVE  \E g : g = [s \in SUBSET (1..m) |-> ApplyStep(base, cmds, g, s)]
<1> DEFINE S == 1..m
           Solves(g, n) == g = [s \in SUBSET S |-> g[s]]
                           /\ \A s \in SUBSET S : Cardinality(s) <= n => g[s] = ApplyStep(base, cmds, g, s)
           Levels == {n \in Nat : \E g : Solves(g, n)}
<1>f. IsFiniteSet(S)
  BY FS_Interval
<1>0. \A s \in SUBSET S : Cardinality(s) \in Nat /\ IsFiniteSet(s)
                          /\ (s = {} <=> Cardinality(s) = 0)
  <2> HIDE DEF S
  <2> QED
    BY <1>f, FS_Subset, FS_CardinalityType, FS_EmptySet
<1>1. 0 \in Levels
  <2>1. Solves([s \in SUBSET S |-> base], 0)
    BY <1>0 DEF ApplyStep
  <2> QED
    BY <2>1
<1>2. \A n \in Nat : n \in Levels => n + 1 \in Levels
  <2> SUFFICES ASSUME NEW n \in Nat, n \in Levels
               PROVE  n + 1 \in Levels
    OBVIOUS
  <2>0. PICK g : Solves(g, n)
    OBVIOUS
  <2> DEFINE h == [s \in SUBSET S |-> IF Cardinality(s) <= n THEN g[s] ELSE ApplyStep(base, cmds, g, s)]
  <2>1. ASSUME NEW s \in SUBSET S, Cardinality(s) <= n + 1
        PROVE  h[s] = ApplyStep(base, cmds, h, s)
    <3>1. h[s] = ApplyStep(base, cmds, g, s)
      BY <2>0
    <3>2. CASE s = {}
      BY <3>1, <3>2 DEF ApplyStep
    <3>3. CASE s # {}
      <4> DEFINE r == s \ {Max(s)}
      <4>1. Max(s) \in s
        BY <3>3, MaxOf
      <4>2. r \in SUBSET S /\ Cardinality(r) = Cardinality(s) - 1
        BY <1>0, <4>1, FS_RemoveElement
      <4>3. Cardinality(r) <= n
        BY <1>0, <2>1, <4>2
      <4>4. h[r] = g[r]
        BY <4>2, <4>3
      <4> QED
        BY <3>1, <3>3, <4>4 DEF ApplyStep
    <3> QED
      BY <3>2, <3>3
  <2>2. Solves(h, n + 1)
    BY <2>1
  <2> HIDE DEF h, Solves
  <2> QED
    BY <2>2
<1>3. Cardinality(S) \in Levels
  <2> HIDE DEF Levels
  <2> QED
    BY <1>0, <1>1, <1>2, NatSetInduction
<1>4. PICK g : Solves(g, Cardinality(S))
  BY <1>3
<1>5. \A s \in SUBSET S : Cardinality(s) <= Cardinality(S)
  <2> HIDE DEF S
  <2> QED
    BY <1>f, FS_Subset
<1>6. g = [s \in SUBSET S |-> ApplyStep(base, cmds, g, s)]
  BY <1>4, <1>5
<1> QED
  BY <1>6

LEMMA ApplyIterSteps ==
  ASSUME NEW base, NEW cmds, NEW m \in Nat
  PROVE  /\ ApplyIter(base, cmds, 1..m)[1..0] = base
         /\ \A j \in 1..m : ApplyIter(base, cmds, 1..m)[1..j]
                              = ApplyCommand(ApplyIter(base, cmds, 1..m)[1..j - 1], cmds[j])
<1> DEFINE g == ApplyIter(base, cmds, 1..m)
<1>1. g = [s \in SUBSET (1..m) |-> ApplyStep(base, cmds, g, s)]
  BY ApplyIterExists DEF ApplyIter
<1>2. g[1..0] = base
  <2>1. 1..0 = {}
    OBVIOUS
  <2>2. g[{}] = ApplyStep(base, cmds, g, {})
    BY <1>1
  <2> QED
    BY <2>1, <2>2 DEF ApplyStep
<1>3. ASSUME NEW j \in 1..m
      PROVE  g[1..j] = ApplyCommand(g[1..j - 1], cmds[j])
  <2>1. 1..j \in SUBSET (1..m) /\ 1..j # {}
    OBVIOUS
  <2>2. Max(1..j) = j
    <3>1. Max(1..j) \in 1..j /\ \A y \in 1..j : y <= Max(1..j)
      BY <2>1, MaxOf
    <3> QED
      BY <3>1
  <2>3. (1..j) \ {j} = 1..j - 1
    OBVIOUS
  <2>4. g[1..j] = ApplyStep(base, cmds, g, 1..j)
    BY <1>1, <2>1
  <2> HIDE DEF g
  <2>5. ApplyStep(base, cmds, g, 1..j) = ApplyCommand(g[(1..j) \ {j}], cmds[j])
    BY <2>1, <2>2 DEF ApplyStep
  <2> QED
    BY <2>3, <2>4, <2>5
<1> QED
  BY <1>2, <1>3

\* One command more.
LEMMA ReplayStep ==
  ASSUME NEW c \in Seq(Command \union {Noop}), NEW d \in Seq(Command \union {Noop}),
         NEW x, x = d[Len(d)], Len(d) = Len(c) + 1, \A i \in 1..Len(c) : d[i] = c[i]
  PROVE  Replay(d) = ApplyCommand(Replay(c), x)
<1> DEFINE On(k) == {i \in 1..Len(c) : c[i].op # "noop" /\ c[i].key = k}
           OnD(k) == {i \in 1..Len(d) : d[i].op # "noop" /\ d[i].key = k}
           At(k) == CHOOSE i \in On(k) : \A j \in On(k) : j <= i
           AtD(k) == CHOOSE i \in OnD(k) : \A j \in OnD(k) : j <= i
<1>1. Len(c) \in Nat /\ Len(d) \in Nat /\ x \in Command \union {Noop}
  OBVIOUS
<1>2. DOMAIN c = 1..Len(c) /\ DOMAIN d = 1..Len(d)
  OBVIOUS
<1>3. Replay(c) = [k \in Key |-> IF On(k) = {} THEN Absent
                                ELSE IF c[At(k)].op = "set" THEN c[At(k)].value ELSE Absent]
  BY <1>2 DEF Replay
<1>4. Replay(d) = [k \in Key |-> IF OnD(k) = {} THEN Absent
                                ELSE IF d[AtD(k)].op = "set" THEN d[AtD(k)].value ELSE Absent]
  BY <1>2 DEF Replay
<1>5. x = Noop \/ (x.op = "set" /\ x.key \in Key) \/ (x.op = "delete" /\ x.key \in Key)
  BY <1>1 DEF Command, Set, Delete
<1>6. ASSUME NEW k \in Key, x.op # "noop", x.key = k
      PROVE  Replay(d)[k] = IF x.op = "set" THEN x.value ELSE Absent
  <2>1. Len(d) \in OnD(k) /\ \A j \in OnD(k) : j <= Len(d)
    BY <1>1, <1>6
  <2>2. AtD(k) = Len(d)
    BY <1>1, <2>1
  <2>3. OnD(k) # {}
    BY <2>1
  <2> HIDE DEF OnD, AtD
  <2> QED
    BY <1>4, <1>6, <2>2, <2>3
<1>7. ASSUME NEW k \in Key, ~ (x.op # "noop" /\ x.key = k)
      PROVE  Replay(d)[k] = Replay(c)[k]
  <2>1. OnD(k) = On(k)
    BY <1>1, <1>7
  <2>2. CASE On(k) = {}
    BY <1>3, <1>4, <2>1, <2>2
  <2>3. CASE On(k) # {}
    <3>1. PICK i \in On(k) : \A j \in On(k) : j <= i
      <4>1. On(k) \in SUBSET (1..Len(c))
        OBVIOUS
      <4> HIDE DEF On
      <4> QED
        BY <1>1, <2>3, <4>1, MaxOf
    <3>2. At(k) \in On(k) /\ AtD(k) = At(k)
      BY <2>1, <3>1
    <3>3. d[At(k)] = c[At(k)]
      BY <3>2
    <3> HIDE DEF At, AtD, On, OnD
    <3> QED
      BY <1>3, <1>4, <2>1, <3>2, <3>3
  <2> QED
    BY <2>2, <2>3
<1>8. Replay(c) \in [Key -> {Replay(c)[k] : k \in Key}] /\ Replay(c) = [k \in Key |-> Replay(c)[k]]
      /\ Replay(d) = [k \in Key |-> Replay(d)[k]]
  BY <1>3, <1>4, ZenonT(30)
<1>9. ASSUME x.op # "noop" PROVE Replay(d) = [Replay(c) EXCEPT ![x.key] = IF x.op = "set" THEN x.value ELSE Absent]
  BY <1>6, <1>7, <1>8, <1>9
<1>10. x = Noop => Replay(d) = Replay(c)
  <2> SUFFICES ASSUME x = Noop PROVE Replay(d) = Replay(c)
    OBVIOUS
  <2>1. x.op = "noop"
    BY DEF Noop
  <2>2. \A k \in Key : Replay(d)[k] = Replay(c)[k]
    BY <1>7, <2>1
  <2> QED
    BY <1>8, <2>2
<1> QED
  BY <1>5, <1>9, <1>10 DEF ApplyCommand, Noop

LEMMA CommandsOfPart ==
  ASSUME NEW c \in Log, NEW a \in Nat, NEW b \in Nat, a <= b, b <= Len(c)
  PROVE  /\ Commands(SubSeq(c, a + 1, b)) \in Seq(Command \union {Noop})
         /\ Len(Commands(SubSeq(c, a + 1, b))) = b - a
         /\ DOMAIN Commands(SubSeq(c, a + 1, b)) = 1..(b - a)
         /\ \A j \in 1..(b - a) : Commands(SubSeq(c, a + 1, b))[j] = c[a + j].cmd
<1> DEFINE s == SubSeq(c, a + 1, b)
<1>1. Len(c) \in Nat /\ \A i \in 1..Len(c) : c[i] \in LogEntry
  BY DEF Log
<1>2. \A i \in a + 1..b : c[i] \in LogEntry
  BY <1>1
<1>3. s \in Seq(LogEntry) /\ Len(s) = (IF a + 1 <= b THEN b - (a + 1) + 1 ELSE 0)
      /\ \A i \in 1..b - (a + 1) + 1 : s[i] = c[a + 1 + i - 1]
  BY <1>2, SubSeqProperties
<1>4. Len(s) = b - a /\ b - a \in Nat
  BY <1>3
<1>5. \A i \in 1..(b - a) : s[i] = c[a + i]
  BY <1>3
<1>6. DOMAIN s = 1..(b - a) /\ \A i \in 1..(b - a) : s[i].cmd \in Command \union {Noop}
  BY <1>3, <1>4 DEF LogEntry
<1> HIDE DEF s
<1>7. Commands(s) = [i \in 1..(b - a) |-> s[i].cmd]
  BY <1>6 DEF Commands
<1>8. Commands(s) \in [1..(b - a) -> Command \union {Noop}]
  BY <1>6, <1>7
<1>9. Commands(s) \in Seq(Command \union {Noop}) /\ Len(Commands(s)) = b - a
  BY <1>4, <1>8, LenProperties
<1> QED
  BY <1>5, <1>7, <1>9 DEF s

LEMMA CommandsOfPrefix ==
  ASSUME NEW c \in Log, NEW b \in Nat, b <= Len(c)
  PROVE  /\ Commands(SubSeq(c, 1, b)) \in Seq(Command \union {Noop})
         /\ Len(Commands(SubSeq(c, 1, b))) = b
         /\ DOMAIN Commands(SubSeq(c, 1, b)) = 1..b
         /\ \A j \in 1..b : Commands(SubSeq(c, 1, b))[j] = c[j].cmd
<1> DEFINE s == SubSeq(c, 1, b)
<1>1. b \in 0..Len(c)
  BY DEF Log
<1>2. s \in Log /\ Len(s) = b /\ Agree(s, c, b)
  BY <1>1, Beginning
<1> HIDE DEF s
<1>3. DOMAIN s = 1..b /\ \A i \in 1..b : s[i] = c[i] /\ s[i].cmd \in Command \union {Noop}
  <2>1. DOMAIN s = 1..b /\ \A i \in 1..b : s[i] \in LogEntry
    BY <1>2 DEF Log
  <2>2. \A i \in 1..b : s[i] = c[i]
    BY <1>2 DEF Agree
  <2>3. \A e \in LogEntry : e.cmd \in Command \union {Noop}
    BY DEF LogEntry
  <2> QED
    BY <2>1, <2>2, <2>3
<1>4. Commands(s) = [i \in 1..b |-> s[i].cmd]
  BY <1>3 DEF Commands
<1>5. Commands(s) \in [1..b -> Command \union {Noop}]
  BY <1>3, <1>4
<1>6. Commands(s) \in Seq(Command \union {Noop}) /\ Len(Commands(s)) = b
  BY <1>5, LenProperties
<1> QED
  BY <1>3, <1>4, <1>6 DEF s

LEMMA ReplayPart ==
  ASSUME NEW c \in Log, NEW a \in Nat, NEW b \in Nat, a < b, b <= Len(c)
  PROVE  Replay(Commands(SubSeq(c, 1, b))) = ApplyCommand(Replay(Commands(SubSeq(c, 1, b - 1))), c[b].cmd)
<1>1. b - 1 \in Nat /\ b - 1 <= Len(c) /\ Len(c) \in Nat
  BY DEF Log
<1> DEFINE p == Commands(SubSeq(c, 1, b - 1))
           q == Commands(SubSeq(c, 1, b))
<1>2. p \in Seq(Command \union {Noop}) /\ Len(p) = b - 1 /\ \A j \in 1..(b - 1) : p[j] = c[j].cmd
  BY <1>1, CommandsOfPrefix
<1>3. q \in Seq(Command \union {Noop}) /\ Len(q) = b /\ \A j \in 1..b : q[j] = c[j].cmd
  BY <1>1, CommandsOfPrefix
<1> HIDE DEF p, q
<1>4. Len(q) = Len(p) + 1 /\ \A i \in 1..Len(p) : q[i] = p[i]
  BY <1>2, <1>3, SMTT(30)
<1>5. c[b].cmd = q[Len(q)]
  BY <1>3
<1>6. Replay(q) = ApplyCommand(Replay(p), c[b].cmd)
  BY <1>2, <1>3, <1>4, <1>5, ReplayStep
<1> QED
  BY <1>6 DEF p, q

\* Applying the commands after the a-th to what the first a leave is replaying them all.
LEMMA FoldReplays ==
  ASSUME NEW c \in Log, NEW a \in Nat, NEW b \in Nat, a <= b, b <= Len(c)
  PROVE  FoldLeft(ApplyCommand, Replay(Commands(SubSeq(c, 1, a))), Commands(SubSeq(c, a + 1, b)))
           = Replay(Commands(SubSeq(c, 1, b)))
<1> DEFINE base == Replay(Commands(SubSeq(c, 1, a)))
           s == Commands(SubSeq(c, a + 1, b))
           m == b - a
           g == ApplyIter(base, s, 1..m)
           Done1(j) == Replay(Commands(SubSeq(c, 1, a + j)))
           Good == {j \in Nat : j <= m => g[1..j] = Done1(j)}
<1>1. m \in Nat /\ DOMAIN s = 1..m /\ \A j \in 1..m : s[j] = c[a + j].cmd
  BY CommandsOfPart
<1>2. g[1..0] = base /\ \A j \in 1..m : g[1..j] = ApplyCommand(g[1..j - 1], s[j])
  <2>1. m \in Nat
    BY <1>1
  <2> HIDE DEF s, base, m
  <2>2. /\ ApplyIter(base, s, 1..m)[1..0] = base
        /\ \A j \in 1..m : ApplyIter(base, s, 1..m)[1..j] = ApplyCommand(ApplyIter(base, s, 1..m)[1..j - 1], s[j])
    BY <2>1, ApplyIterSteps
  <2> QED
    BY <2>2
<1>3. 0 \in Good
  <2>1. a + 0 = a
    OBVIOUS
  <2> HIDE DEF g
  <2> QED
    BY <1>2, <2>1
<1>4. \A j \in Nat : j \in Good => j + 1 \in Good
  <2> SUFFICES ASSUME NEW j \in Nat, j \in Good, j + 1 <= m PROVE g[1..j + 1] = Done1(j + 1)
    OBVIOUS
  <2> HIDE DEF g, s
  <2>1. g[1..j] = Done1(j)
    BY <1>1
  <2>2. j + 1 \in 1..m /\ (j + 1) - 1 = j /\ a + (j + 1) \in Nat /\ a < a + (j + 1) /\ a + (j + 1) <= Len(c)
        /\ (a + (j + 1)) - 1 = a + j
    BY <1>1 DEF Log
  <2>3. g[1..j + 1] = ApplyCommand(g[1..j], c[a + (j + 1)].cmd)
    BY <1>1, <1>2, <2>2
  <2>4. Done1(j + 1) = ApplyCommand(Done1(j), c[a + (j + 1)].cmd)
    BY <2>2, ReplayPart
  <2> QED
    BY <2>1, <2>3, <2>4
<1>5. m \in Good
  <2> HIDE DEF Good, m
  <2> QED
    BY <1>1, <1>3, <1>4, NatSetInduction
<1>6. g[1..m] = Done1(m)
  BY <1>1, <1>5
<1>7. FoldLeft(ApplyCommand, base, s) = g[1..m]
  <2> HIDE DEF base, s, m
  <2> QED
    BY <1>1, FoldIsIter
<1>8. a + m = b
  OBVIOUS
<1> HIDE DEF g
<1> QED
  BY <1>6, <1>7, <1>8

LEMMA SamePrefix ==
  ASSUME NEW a \in Log, NEW b \in Log, NEW i \in Nat, i # 0 => Agree(a, b, i)
  PROVE  Commands(SubSeq(a, 1, i)) = Commands(SubSeq(b, 1, i))
<1> DEFINE p == Commands(SubSeq(a, 1, i))
           q == Commands(SubSeq(b, 1, i))
<1>1. i <= Len(a) /\ i <= Len(b) /\ \A j \in 1..i : a[j] = b[j]
  BY DEF Agree, Log
<1>2. p \in Seq(Command \union {Noop}) /\ Len(p) = i /\ \A j \in 1..i : p[j] = a[j].cmd
  BY <1>1, CommandsOfPrefix
<1>3. q \in Seq(Command \union {Noop}) /\ Len(q) = i /\ \A j \in 1..i : q[j] = b[j].cmd
  BY <1>1, CommandsOfPrefix
<1> HIDE DEF p, q
<1>4. Len(p) = Len(q) /\ \A j \in 1..Len(p) : p[j] = q[j]
  BY <1>1, <1>2, <1>3
<1>5. p = q
  BY <1>2, <1>3, <1>4, SeqEqual
<1> QED
  BY <1>5 DEF p, q

LEMMA ReplayNothing == \A c \in Log : Replay(Commands(SubSeq(c, 1, 0))) = EmptyStore
<1> SUFFICES ASSUME NEW c \in Log PROVE Replay(Commands(SubSeq(c, 1, 0))) = EmptyStore
  OBVIOUS
<1>1. 0 \in Nat /\ 0 <= Len(c)
  BY DEF Log
<1>2. DOMAIN Commands(SubSeq(c, 1, 0)) = 1..0
  BY <1>1, CommandsOfPrefix
<1> DEFINE s == Commands(SubSeq(c, 1, 0))
<1>3. DOMAIN s = {}
  BY <1>2
<1> HIDE DEF s
<1>4. Replay(s) = EmptyStore
  BY <1>3 DEF Replay, EmptyStore
<1> QED
  BY <1>4 DEF s

-----------------------------------------------------------------------------
(* The state machines of the nodes.                                        *)

Saved == [index : Nat, data : Stores]

DisksTyped ==
  /\ known \in [Node -> Node \union {None}]
  /\ applied \in [Node -> Nat] /\ data \in [Node -> Stores]
  /\ snap \in [Node -> Saved] /\ clone \in [Node -> Saved \union {None}]

\* The first i entries of the log of n are committed, and leave d.
Reached(n, i, d) == (i # 0 => Committed(log[n], i)) /\ d = Replay(Commands(SubSeq(log[n], 1, i)))

StoresReached == \A n \in Node :
  /\ Reached(n, applied[n], data[n])
  /\ Reached(n, snap[n].index, snap[n].data)
  /\ clone[n] # None => Reached(n, clone[n].index, clone[n].data)

RaftInv == LogsInv /\ DisksTyped /\ StoresReached

\* A step keeps the logs sound and what is committed.
Keeps == LogsInv' /\ \A c \in Log, k \in Nat : Stable(c, k)

LEMMA ElectElects ==
  ASSUME LogsInv, NEW n \in Node, NEW Q \in Quorum, Elect(n, Q)
  PROVE  \E t : Entry(t, Noop) \in LogEntry /\ Elects(n, Q, t, Entry(t, Noop))
<1> DEFINE S == {term[q] : q \in Q}
           t == Max(S) + 1
<1>1. Q \subseteq Node /\ n \in Q /\ t <= MaxTerm /\ MaxTerm \in Nat
  BY QuorumType, RaftAssumption DEF Elect
<1>2. S \in SUBSET Nat /\ S # {} /\ \A y \in S : y <= MaxTerm
  BY <1>1 DEF LogsInv, LogsTyped
<1>3. Max(S) \in S /\ \A y \in S : y <= Max(S)
  <2> HIDE DEF S
  <2> QED
    BY <1>1, <1>2, Largest
<1>4. Max(S) \in Nat
  BY <1>2, <1>3
<1>5. t \in 1..MaxTerm /\ \A q \in Q : term[q] < t
  <2>1. t \in 1..MaxTerm
    BY <1>1, <1>4
  <2>2. \A q \in Q : term[q] \in S /\ term[q] \in Nat
    BY <1>2
  <2>3. \A q \in Q : term[q] <= Max(S)
    BY <1>3, <2>2
  <2> HIDE DEF S
  <2>4. \A q \in Q : term[q] < Max(S) + 1
    BY <1>4, <2>2, <2>3
  <2> QED
    BY <2>1, <2>4
<1>6. Entry(t, Noop) \in LogEntry /\ Entry(t, Noop).term = t
  BY <1>5 DEF Entry, LogEntry
<1>7. Elects(n, Q, t, Entry(t, Noop))
  BY <1>1, <1>5, <1>6 DEF Elect, Elects
<1> HIDE DEF t
<1> QED
  BY <1>6, <1>7

LEMMA ElectKeeps ==
  ASSUME LogsInv, NEW n \in Node, NEW Q \in Quorum, Elect(n, Q)
  PROVE  Keeps
  BY ElectElects, ElectsKeeps, ElectsStable DEF Keeps

LEMMA AdoptsKept ==
  ASSUME LogsInv, NEW f \in Node, NEW l \in Node, NEW k \in Nat, Adopts(f, l, k)
  PROVE  Keeps
  BY AdoptsKeeps, AdoptsStable DEF Keeps

LEMMA ReplicateAdopts ==
  ASSUME LogsInv, NEW l \in Node, NEW f \in Node, Replicate(l, f)
  PROVE  Len(log[l]) \in Nat /\ Adopts(f, l, Len(log[l]))
<1>1. log[l] \in Log /\ Len(log[l]) \in Nat \ {0}
  BY OrderedLast DEF LogsInv
<1>2. SubSeq(log[l], 1, Len(log[l])) = log[l]
  BY <1>1, SubSeqFull DEF Log
<1> DEFINE k == Len(log[l])
<1>3. k \in Nat /\ k \in 1..Len(log[l]) /\ k = Len(log[l])
  BY <1>1
<1>4. log' = [log EXCEPT ![f] = SubSeq(log[l], 1, k)]
  BY <1>2 DEF Replicate
<1>5. /\ l # f /\ role[l] = "leader" /\ term[f] <= term[l] /\ Acknowledge(f, l, k)
      /\ term' = [term EXCEPT ![f] = term[l]] /\ role' = [role EXCEPT ![f] = "follower"] /\ up' = up
  BY DEF Replicate
<1> HIDE DEF k
<1>6. Adopts(f, l, k)
  BY <1>3, <1>4, <1>5 DEF Adopts, Leads
<1> QED
  BY <1>3, <1>6 DEF k

LEMMA InstallAdopts ==
  ASSUME RaftInv, NEW l \in Node, NEW f \in Node, InstallSnapshot(l, f)
  PROVE  snap[l].index \in Nat \ {0} /\ Adopts(f, l, snap[l].index)
<1> DEFINE k == snap[l].index
<1>1. log[l] \in Log /\ log[f] \in Log /\ Len(log[l]) \in Nat
  BY OrderedLast DEF RaftInv, LogsInv
<1>2. k \in Nat \ {0}
  BY DEF RaftInv, DisksTyped, Saved, InstallSnapshot
<1>3. Committed(log[l], k)
  BY <1>2 DEF RaftInv, StoresReached, Reached
<1>4. k \in 1..Len(log[l])
  BY <1>3 DEF Committed
<1>5. ~ IsPrefix(SubSeq(log[l], 1, k), log[f])
  BY DEF InstallSnapshot
<1>6. ASSUME Agree(log[f], log[l], k) PROVE FALSE
  <2> DEFINE s == SubSeq(log[l], 1, k)
             x == SubSeq(log[f], 1, k)
  <2>1. s \in Log /\ Len(s) = k /\ Agree(s, log[l], k)
    <3>1. k \in 0..Len(log[l])
      BY <1>4
    <3> QED
      BY <1>1, <3>1, Beginning
  <2>2. x \in Log /\ Len(x) = k /\ Agree(x, log[f], k)
    <3>1. k \in 0..Len(log[f])
      BY <1>2, <1>6 DEF Agree
    <3> QED
      BY <1>1, <3>1, Beginning
  <2>3. k <= Len(log[f])
    BY <1>6 DEF Agree
  <2> HIDE DEF s, x
  <2>4. \A i \in 1..Len(s) : s[i] = x[i]
    BY <1>6, <2>1, <2>2 DEF Agree
  <2>5. s = x
    BY <2>1, <2>2, <2>4, SeqEqual DEF Log
  <2>6. SubSeq(s, 1, Len(s)) = s
    BY <2>1, SubSeqFull DEF Log
  <2>7. IsPrefix(s, log[f])
    BY <2>1, <2>3, <2>5, <2>6 DEF IsPrefix, x
  <2> QED
    BY <1>5, <2>7 DEF s
<1> QED
  BY <1>2, <1>3, <1>4, <1>6 DEF InstallSnapshot, Adopts, Leads

LEMMA OthersQuiet ==
  ASSUME LogsInv, NEW n \in Node,
         AdvanceCommit(n) \/ StepDown(n) \/ TakeSnapshot(n) \/ Persist(n) \/ Crash(n) \/ Restart(n)
  PROVE  Quiet
<1> USE DEF LogsInv, LogsTyped, Quiet
<1>0. Unheard \in [Node -> Nat]
  BY DEF Unheard
<1>1. CASE AdvanceCommit(n)
  BY <1>1 DEF AdvanceCommit
<1>2. CASE StepDown(n)
  BY <1>0, <1>2 DEF StepDown
<1>3. CASE TakeSnapshot(n)
  BY <1>3 DEF TakeSnapshot
<1>4. CASE Persist(n)
  BY <1>4 DEF Persist
<1>5. CASE Crash(n)
  BY <1>0, <1>5 DEF Crash
<1>6. CASE Restart(n)
  <2>1. role[n] # "leader"
    BY <1>6 DEF LeadersLog, Leads, Restart
  <2> QED
    BY <1>6, <2>1 DEF Restart
<1> QED
  BY <1>1, <1>2, <1>3, <1>4, <1>5, <1>6

LEMMA QuietKept == ASSUME LogsInv, Quiet PROVE Keeps
  BY QuietKeeps, QuietStable DEF Keeps

LEMMA AppendCommandKeeps ==
  ASSUME LogsInv, NEW n \in Node, NEW cmd \in Command \union {Noop}, AppendCommand(n, cmd)
  PROVE  Keeps
<1> DEFINE e == Entry(term[n], cmd)
<1>1. e \in LogEntry /\ e.term = term[n]
  BY DEF Entry, LogEntry, LogsInv, LogsTyped
<1>2. Appends(n, e)
  BY <1>1 DEF AppendCommand, Appends, Leads
<1> HIDE DEF e
<1> QED
  BY <1>1, <1>2, AppendsKeeps, AppendsStable DEF Keeps

LEMMA RaftStepKeeps == ASSUME RaftInv, RaftStep PROVE Keeps
<1>0. LogsInv
  BY DEF RaftInv
<1>1. ASSUME NEW n \in Node, NEW Q \in Quorum, Elect(n, Q) PROVE Keeps
  BY <1>0, <1>1, ElectKeeps
<1>2. ASSUME NEW l \in Node, NEW f \in Node, Replicate(l, f) PROVE Keeps
  BY <1>0, <1>2, ReplicateAdopts, AdoptsKept
<1>3. ASSUME NEW l \in Node, NEW f \in Node, InstallSnapshot(l, f) PROVE Keeps
  BY <1>0, <1>3, InstallAdopts, AdoptsKept
<1>4. ASSUME NEW n \in Node,
             AdvanceCommit(n) \/ StepDown(n) \/ TakeSnapshot(n) \/ Persist(n) \/ Crash(n) \/ Restart(n)
      PROVE  Keeps
  BY <1>0, <1>4, OthersQuiet, QuietKept
<1> QED
  BY <1>1, <1>2, <1>3, <1>4 DEF RaftStep

LEMMA ReplayType == ASSUME NEW c \in Log, NEW i \in Nat, i <= Len(c) PROVE Replay(Commands(SubSeq(c, 1, i))) \in Stores
<1> DEFINE s == Commands(SubSeq(c, 1, i))
<1>1. s \in Seq(Command \union {Noop}) /\ DOMAIN s = 1..i
  BY CommandsOfPrefix
<1> HIDE DEF s
<1>2. \A j \in 1..i : s[j] \in Command \union {Noop}
  BY <1>1
<1>3. \A x \in Command \union {Noop} : x.op = "set" => x.value \in Value
  BY DEF Command, Noop, Set, Delete
<1>4. ASSUME NEW k \in Key PROVE Replay(s)[k] \in Value \union {Absent}
  <2> DEFINE on == {j \in 1..i : s[j].op # "noop" /\ s[j].key = k}
             at == CHOOSE j \in on : \A m \in on : m <= j
  <2>1. Replay(s)[k] = IF on = {} THEN Absent ELSE IF s[at].op = "set" THEN s[at].value ELSE Absent
    BY <1>1 DEF Replay
  <2>2. on # {} => at \in on
    <3>1. on \in SUBSET (1..i)
      OBVIOUS
    <3> HIDE DEF on
    <3>2. on # {} => \E j \in on : \A m \in on : m <= j
      BY <3>1, MaxOf
    <3> QED
      BY <3>2
  <2>3. on # {} => s[at] \in Command \union {Noop}
    BY <1>2, <2>2
  <2> HIDE DEF on, at
  <2> QED
    BY <1>3, <2>1, <2>3
<1>5. Replay(s) \in Stores
  <2>1. Replay(s) = [k \in Key |-> Replay(s)[k]]
    BY DEF Replay
  <2> QED
    BY <1>4, <2>1 DEF Stores
<1> QED
  BY <1>5 DEF s

LEMMA ReachedType == ASSUME LogsTyped, NEW n \in Node, NEW i \in Nat, NEW d, Reached(n, i, d) PROVE i <= Len(log[n]) /\ d \in Stores
<1>1. log[n] \in Log /\ Len(log[n]) \in Nat
  BY DEF LogsTyped, Log
<1>2. i <= Len(log[n])
  BY <1>1 DEF Reached, Committed
<1> QED
  BY <1>1, <1>2, ReplayType DEF Reached

\* The same for the next state.
LEMMA CommittedSameNext ==
  ASSUME LogsInv', NEW c \in Log, NEW d \in Log, NEW i \in Nat, Committed(c, i)', Agree(c, d, i)
  PROVE  Committed(d, i)'
<1>1. i \in 1..Len(c) /\ i \in 1..Len(d) /\ c[i] = d[i]
  BY DEF Committed, Agree, Log
<1>2. \A n \in Node : Agree(log'[n], c, i) => Agree(log'[n], d, i)
  <2>1. \A n \in Node : log'[n] \in Log
    BY DEF LogsInv, LogsTyped
  <2> QED
    BY <2>1, AgreeTransitive
<1> QED
  BY <1>1, <1>2, QuorumType DEF Committed

\* What a node has reached it keeps.
LEMMA ReachedKept ==
  ASSUME LogsInv, Keeps, NEW n \in Node, NEW i \in Nat, NEW d, Reached(n, i, d)
  PROVE  Reached(n, i, d)'
<1>1. PICK c \in Log : c = log[n]
  BY DEF LogsInv, LogsTyped
<1>0. PICK b \in Log : b = log'[n]
  BY DEF Keeps, LogsInv, LogsTyped
<1>2. ASSUME i # 0 PROVE Committed(c, i)' /\ Agree(b, c, i)
  <2>1. Committed(c, i) /\ Stable(c, i)
    BY <1>1, <1>2 DEF Reached, Keeps
  <2>2. i <= Len(c)
    BY <2>1 DEF Committed
  <2>3. Agree(c, c, i)
    BY <1>1, <2>2, AgreeSelf DEF Log
  <2> QED
    BY <1>0, <1>1, <2>1, <2>3 DEF Stable
<1>4. i # 0 => Committed(b, i)'
  BY <1>2, CommittedSameNext, AgreeSymmetric DEF Keeps
<1>5. Commands(SubSeq(b, 1, i)) = Commands(SubSeq(c, 1, i))
  BY <1>2, SamePrefix
<1> QED
  BY <1>0, <1>1, <1>4, <1>5 DEF Reached

AppliedReached(n) == Reached(n, applied[n], data[n])
SnapReached(n) == Reached(n, snap[n].index, snap[n].data)
CloneReached(n) == clone[n] # None => Reached(n, clone[n].index, clone[n].data)

LEMMA StoresSplit == StoresReached <=> \A n \in Node : AppliedReached(n) /\ SnapReached(n) /\ CloneReached(n)
  BY DEF StoresReached, AppliedReached, SnapReached, CloneReached

LEMMA StoresSplitNext == StoresReached' <=> \A n \in Node : AppliedReached(n)' /\ SnapReached(n)' /\ CloneReached(n)'
  BY DEF StoresReached, AppliedReached, SnapReached, CloneReached

LEMMA AppliedKept ==
  ASSUME RaftInv, Keeps, NEW n \in Node, applied'[n] = applied[n], data'[n] = data[n]
  PROVE  AppliedReached(n)'
<1>1. PICK i \in Nat : i = applied[n]
  BY DEF RaftInv, DisksTyped
<1>2. PICK d : d = data[n]
  OBVIOUS
<1>3. Reached(n, i, d)'
  BY <1>1, <1>2, ReachedKept DEF RaftInv, StoresReached
<1> QED
  BY <1>1, <1>2, <1>3 DEF AppliedReached, Reached

LEMMA SnapKept ==
  ASSUME RaftInv, Keeps, NEW n \in Node, snap'[n] = snap[n]
  PROVE  SnapReached(n)'
<1>1. PICK s \in Saved : s = snap[n]
  BY DEF RaftInv, DisksTyped
<1>2. s.index \in Nat
  BY DEF Saved
<1>3. Reached(n, s.index, s.data)'
  BY <1>1, <1>2, ReachedKept DEF RaftInv, StoresReached
<1> QED
  BY <1>1, <1>3 DEF SnapReached, Reached

LEMMA CloneKept ==
  ASSUME RaftInv, Keeps, NEW n \in Node, clone'[n] = clone[n]
  PROVE  CloneReached(n)'
<1>1. PICK s \in Saved \union {None} : s = clone[n]
  BY DEF RaftInv, DisksTyped
<1>2. CASE s = None
  BY <1>1, <1>2 DEF CloneReached
<1>3. CASE s # None
  <2>1. s.index \in Nat
    BY <1>3 DEF Saved
  <2>2. Reached(n, s.index, s.data)'
    BY <1>1, <1>3, <2>1, ReachedKept DEF RaftInv, StoresReached
  <2> QED
    BY <1>1, <2>2 DEF CloneReached, Reached
<1> QED
  BY <1>2, <1>3

\* Applying what is newly known committed.
LEMMA CaughtUp ==
  ASSUME LogsInv', NEW n \in Node, NEW c \in Log, NEW a \in Nat, NEW b \in Nat, NEW d, a <= b,
         Reached(n, a, d)', log'[n] = c, b # 0 => Committed(c, b)',
         applied'[n] = b, data'[n] = FoldLeft(ApplyCommand, d, Commands(SubSeq(c, a + 1, b)))
  PROVE  AppliedReached(n)' /\ b <= Len(c)
<1>1. b <= Len(c)
  BY DEF Committed, Log
<1>2. d = Replay(Commands(SubSeq(c, 1, a)))
  BY DEF Reached
<1>3. data'[n] = Replay(Commands(SubSeq(c, 1, b)))
  BY <1>1, <1>2, FoldReplays
<1> QED
  BY <1>1, <1>3 DEF AppliedReached, Reached

LEMMA ReplicateStores ==
  ASSUME RaftInv, Keeps, NEW l \in Node, NEW f \in Node, Replicate(l, f)
  PROVE  DisksTyped' /\ StoresReached'
<1>0. applied \in [Node -> Nat] /\ data \in [Node -> Stores]
  BY DEF RaftInv, DisksTyped
<1>1. PICK c \in Log : c = log[l]
  BY DEF RaftInv, LogsInv, LogsTyped
<1>2. PICK a \in Nat : a = applied[f]
  BY <1>0
<1>3. PICK b \in Nat : b = Max({applied[f], applied[l]})
  <2>1. {applied[f], applied[l]} \in SUBSET Nat
    BY <1>0
  <2>2. \A y \in {applied[f], applied[l]} : y <= applied[f] + applied[l]
    BY <1>0
  <2>3. applied[f] + applied[l] \in Nat
    BY <1>0
  <2>4. Max({applied[f], applied[l]}) \in {applied[f], applied[l]}
    BY <2>1, <2>2, <2>3, Largest
  <2> QED
    BY <2>1, <2>4
<1>4. b \in {applied[f], applied[l]} /\ a <= b
  <2>1. {applied[f], applied[l]} \in SUBSET Nat
    BY <1>0
  <2>2. \A y \in {applied[f], applied[l]} : y <= applied[f] + applied[l]
    BY <1>0
  <2>3. applied[f] + applied[l] \in Nat
    BY <1>0
  <2> QED
    BY <1>2, <1>3, <2>1, <2>2, <2>3, Largest
<1>5. PICK d : d = data[f]
  OBVIOUS
<1>6. /\ applied' = [applied EXCEPT ![f] = b]
      /\ data' = [data EXCEPT ![f] = FoldLeft(ApplyCommand, d, Commands(SubSeq(c, a + 1, b)))]
      /\ log' = [log EXCEPT ![f] = c] /\ l # f
      /\ known' = [known EXCEPT ![f] = l] /\ snap' = snap /\ clone' = clone
  BY <1>1, <1>2, <1>3, <1>5 DEF Replicate, CommitUpTo
<1>7. log'[f] = c /\ log'[l] = c
  BY <1>1, <1>6 DEF RaftInv, LogsInv, LogsTyped
<1>8. b # 0 => Committed(c, b)'
  <2>1. Reached(f, a, d)'
    BY <1>2, <1>5, ReachedKept DEF RaftInv, StoresReached
  <2>2. PICK al \in Nat : al = applied[l]
    BY <1>0
  <2>3. Reached(l, al, data[l])
    BY <2>2 DEF RaftInv, StoresReached
  <2>4. PICK dl : dl = data[l]
    OBVIOUS
  <2>5. Reached(l, al, dl)'
    BY <2>2, <2>3, <2>4, ReachedKept DEF RaftInv
  <2> QED
    BY <1>2, <1>4, <1>7, <2>1, <2>2, <2>5 DEF Reached
<1>9. Reached(f, a, d)'
  BY <1>2, <1>5, ReachedKept DEF RaftInv, StoresReached
<1>10. applied'[f] = b /\ data'[f] = FoldLeft(ApplyCommand, d, Commands(SubSeq(c, a + 1, b)))
  BY <1>0, <1>6
<1>11. AppliedReached(f)' /\ b <= Len(c)
  BY <1>4, <1>7, <1>8, <1>9, <1>10, CaughtUp DEF Keeps
<1>12. \A n \in Node : n # f => AppliedReached(n)'
  BY <1>0, <1>6, AppliedKept
<1>13. \A n \in Node : SnapReached(n)' /\ CloneReached(n)'
  BY <1>6, SnapKept, CloneKept
<1>14. StoresReached'
  BY <1>11, <1>12, <1>13, StoresSplitNext
<1>15. data'[f] \in Stores
  <2>1. data'[f] = Replay(Commands(SubSeq(c, 1, b)))
    BY <1>7, <1>10, <1>11 DEF AppliedReached, Reached
  <2> QED
    BY <1>11, <2>1, ReplayType
<1>16. data' \in [Node -> Stores]
  BY <1>0, <1>6, <1>15
<1>17. applied' \in [Node -> Nat]
  BY <1>0, <1>6
<1>18. DisksTyped'
  BY <1>6, <1>16, <1>17 DEF RaftInv, DisksTyped
<1> QED
  BY <1>14, <1>18

LEMMA AdvanceStores ==
  ASSUME RaftInv, Keeps, NEW l \in Node, AdvanceCommit(l)
  PROVE  DisksTyped' /\ StoresReached'
<1>0. applied \in [Node -> Nat] /\ data \in [Node -> Stores]
  BY DEF RaftInv, DisksTyped
<1>1. PICK c \in Log : c = log[l]
  BY DEF RaftInv, LogsInv, LogsTyped
<1>2. PICK a \in Nat : a = applied[l]
  BY <1>0
<1>3. PICK d : d = data[l]
  OBVIOUS
<1> DEFINE ready == {i \in a + 1..Len(c) : c[i].term = term[l] /\ Replicated(l, i)}
<1>4. ready # {} /\ Leads(l)
  BY <1>1, <1>2 DEF AdvanceCommit, Leads
<1>5. PICK b : b = Max(ready)
  OBVIOUS
<1>6. b \in ready
  <2>1. ready \in SUBSET Nat /\ Len(c) \in Nat /\ \A y \in ready : y <= Len(c)
    BY DEF Log
  <2> HIDE DEF ready
  <2> QED
    BY <1>4, <1>5, <2>1, Largest
<1>7. b \in Nat /\ b \in 1..Len(log[l]) /\ a <= b /\ log[l][b].term = term[l] /\ Replicated(l, b)
  BY <1>1, <1>6 DEF Log
<1>8. Committed(c, b)
  BY <1>1, <1>4, <1>7, CommitSound DEF RaftInv
<1>9. /\ applied' = [applied EXCEPT ![l] = b]
      /\ data' = [data EXCEPT ![l] = FoldLeft(ApplyCommand, d, Commands(SubSeq(c, a + 1, b)))]
      /\ log' = log /\ known' = known /\ snap' = snap /\ clone' = clone
  BY <1>1, <1>2, <1>3, <1>5 DEF AdvanceCommit, CommitUpTo
<1>10. log'[l] = c
  BY <1>1, <1>9
<1>11. Committed(c, b)'
  BY <1>7, <1>8 DEF Keeps, Stable
<1>12. Reached(l, a, d)'
  BY <1>2, <1>3, ReachedKept DEF RaftInv, StoresReached
<1>13. applied'[l] = b /\ data'[l] = FoldLeft(ApplyCommand, d, Commands(SubSeq(c, a + 1, b)))
  BY <1>0, <1>9
<1>14. AppliedReached(l)' /\ b <= Len(c)
  BY <1>7, <1>10, <1>11, <1>12, <1>13, CaughtUp DEF Keeps
<1>15. \A n \in Node : n # l => AppliedReached(n)'
  BY <1>0, <1>9, AppliedKept
<1>16. \A n \in Node : SnapReached(n)' /\ CloneReached(n)'
  BY <1>9, SnapKept, CloneKept
<1>17. StoresReached'
  BY <1>14, <1>15, <1>16, StoresSplitNext
<1>18. data'[l] \in Stores
  <2>1. data'[l] = Replay(Commands(SubSeq(c, 1, b)))
    BY <1>10, <1>13, <1>14 DEF AppliedReached, Reached
  <2> QED
    BY <1>7, <1>14, <2>1, ReplayType
<1>19. data' \in [Node -> Stores] /\ applied' \in [Node -> Nat]
  BY <1>0, <1>7, <1>9, <1>18
<1>20. DisksTyped'
  BY <1>9, <1>19 DEF RaftInv, DisksTyped
<1> QED
  BY <1>17, <1>20

LEMMA InstallStores ==
  ASSUME RaftInv, Keeps, NEW l \in Node, NEW f \in Node, InstallSnapshot(l, f)
  PROVE  DisksTyped' /\ StoresReached'
<1>0. applied \in [Node -> Nat] /\ data \in [Node -> Stores] /\ snap \in [Node -> Saved]
  BY DEF RaftInv, DisksTyped
<1>1. PICK c \in Log : c = log[l]
  BY DEF RaftInv, LogsInv, LogsTyped
<1>2. PICK s \in Saved : s = snap[l]
  BY <1>0
<1>3. PICK k \in Nat : k = s.index
  BY <1>2 DEF Saved
<1>4. l # f /\ k \in 1..Len(c)
  BY <1>1, <1>2, <1>3, InstallAdopts DEF Adopts
<1>5. /\ applied' = [applied EXCEPT ![f] = k] /\ data' = [data EXCEPT ![f] = s.data]
      /\ snap' = [snap EXCEPT ![f] = s] /\ log' = [log EXCEPT ![f] = SubSeq(c, 1, k)]
      /\ known' = [known EXCEPT ![f] = l] /\ clone' = clone
  BY <1>1, <1>2, <1>3 DEF InstallSnapshot, RestoreFrom
<1>6. PICK b : b = SubSeq(c, 1, k)
  OBVIOUS
<1>7. b \in Log /\ Agree(b, c, k)
  <2>1. k \in 0..Len(c)
    BY <1>4
  <2> QED
    BY <1>6, <2>1, Beginning
<1>8. log'[f] = b /\ log'[l] = c
  BY <1>1, <1>4, <1>5, <1>6 DEF RaftInv, LogsInv, LogsTyped
<1>9. Reached(l, k, s.data)'
  BY <1>2, <1>3, ReachedKept DEF RaftInv, StoresReached
<1>10. Committed(c, k)' /\ s.data = Replay(Commands(SubSeq(c, 1, k)))
  BY <1>4, <1>8, <1>9 DEF Reached
<1>11. Committed(b, k)'
  BY <1>7, <1>10, CommittedSameNext, AgreeSymmetric DEF Keeps
<1>12. s.data = Replay(Commands(SubSeq(b, 1, k)))
  BY <1>7, <1>10, SamePrefix
<1>13. Reached(f, k, s.data)'
  BY <1>8, <1>11, <1>12 DEF Reached
<1>14. AppliedReached(f)'
  <2>1. applied'[f] = k /\ data'[f] = s.data
    BY <1>0, <1>5
  <2> QED
    BY <1>13, <2>1 DEF AppliedReached, Reached
<1>15. SnapReached(f)'
  <2>1. snap'[f] = s
    BY <1>0, <1>5
  <2> QED
    BY <1>3, <1>13, <2>1 DEF SnapReached, Reached
<1>16. \A n \in Node : n # f => AppliedReached(n)' /\ SnapReached(n)'
  BY <1>0, <1>5, AppliedKept, SnapKept
<1>17. \A n \in Node : CloneReached(n)'
  BY <1>5, CloneKept
<1>18. StoresReached'
  BY <1>14, <1>15, <1>16, <1>17, StoresSplitNext
<1>19. s.data \in Stores
  BY <1>2 DEF Saved
<1>20. DisksTyped'
  BY <1>0, <1>5, <1>19 DEF RaftInv, DisksTyped
<1> QED
  BY <1>18, <1>20

LEMMA RestartStores ==
  ASSUME RaftInv, Keeps, NEW n \in Node, Restart(n)
  PROVE  DisksTyped' /\ StoresReached'
<1>0. applied \in [Node -> Nat] /\ data \in [Node -> Stores] /\ snap \in [Node -> Saved]
  BY DEF RaftInv, DisksTyped
<1>1. PICK s \in Saved : s = snap[n]
  BY <1>0
<1>2. s.index \in Nat /\ s.data \in Stores
  BY DEF Saved
<1>3. /\ applied' = [applied EXCEPT ![n] = s.index] /\ data' = [data EXCEPT ![n] = s.data]
      /\ snap' = snap /\ known' = known /\ clone' = clone
  BY <1>1 DEF Restart, RestoreFrom
<1>4. Reached(n, s.index, s.data)'
  BY <1>1, <1>2, ReachedKept DEF RaftInv, StoresReached
<1>5. applied'[n] = s.index /\ data'[n] = s.data
  BY <1>0, <1>3
<1>6. AppliedReached(n)'
  BY <1>4, <1>5 DEF AppliedReached, Reached
<1>7. \A m \in Node : m # n => AppliedReached(m)'
  BY <1>0, <1>3, AppliedKept
<1>8. \A m \in Node : SnapReached(m)' /\ CloneReached(m)'
  BY <1>3, SnapKept, CloneKept
<1>9. StoresReached'
  BY <1>6, <1>7, <1>8, StoresSplitNext
<1>10. DisksTyped'
  BY <1>0, <1>2, <1>3 DEF RaftInv, DisksTyped
<1> QED
  BY <1>9, <1>10

LEMMA CrashStores ==
  ASSUME RaftInv, Keeps, NEW n \in Node, Crash(n)
  PROVE  DisksTyped' /\ StoresReached'
<1>0. /\ known \in [Node -> Node \union {None}] /\ clone \in [Node -> Saved \union {None}]
      /\ applied \in [Node -> Nat] /\ data \in [Node -> Stores] /\ snap \in [Node -> Saved]
  BY DEF RaftInv, DisksTyped
<1>1. /\ applied' = [applied EXCEPT ![n] = 0] /\ data' = [data EXCEPT ![n] = EmptyStore]
      /\ snap' = snap /\ known' = [known EXCEPT ![n] = None] /\ clone' = [clone EXCEPT ![n] = None]
  BY DEF Crash
<1>2. applied'[n] = 0 /\ data'[n] = EmptyStore /\ clone'[n] = None
  BY <1>0, <1>1
<1>3. log'[n] \in Log
  BY DEF Keeps, LogsInv, LogsTyped
<1>4. AppliedReached(n)'
  BY <1>2, <1>3, ReplayNothing DEF AppliedReached, Reached
<1>5. CloneReached(n)'
  BY <1>2 DEF CloneReached
<1>6. \A m \in Node : m # n => AppliedReached(m)' /\ CloneReached(m)'
  BY <1>0, <1>1, AppliedKept, CloneKept
<1>7. \A m \in Node : SnapReached(m)'
  BY <1>1, SnapKept
<1>8. StoresReached'
  BY <1>4, <1>5, <1>6, <1>7, StoresSplitNext
<1>9. EmptyStore \in Stores
  BY DEF EmptyStore, Stores
<1>10. DisksTyped'
  BY <1>0, <1>1, <1>9 DEF DisksTyped
<1> QED
  BY <1>8, <1>10

LEMMA TakeSnapshotStores ==
  ASSUME RaftInv, Keeps, NEW n \in Node, TakeSnapshot(n)
  PROVE  DisksTyped' /\ StoresReached'
<1>0. clone \in [Node -> Saved \union {None}] /\ applied \in [Node -> Nat] /\ data \in [Node -> Stores]
  BY DEF RaftInv, DisksTyped
<1>1. PICK s \in Saved : s = [index |-> applied[n], data |-> data[n]]
  BY <1>0 DEF Saved
<1>2. /\ applied' = applied /\ data' = data /\ snap' = snap /\ known' = known
      /\ clone' = [clone EXCEPT ![n] = s]
  BY <1>1 DEF TakeSnapshot
<1>3. s.index \in Nat /\ s.index = applied[n] /\ s.data = data[n]
  BY <1>0, <1>1
<1>4. Reached(n, s.index, s.data)'
  BY <1>3, ReachedKept DEF RaftInv, StoresReached
<1>5. clone'[n] = s
  BY <1>0, <1>2
<1>6. CloneReached(n)'
  BY <1>4, <1>5 DEF CloneReached, Reached
<1>7. \A m \in Node : m # n => CloneReached(m)'
  BY <1>0, <1>2, CloneKept
<1>8. \A m \in Node : SnapReached(m)' /\ AppliedReached(m)'
  BY <1>2, SnapKept, AppliedKept
<1>9. StoresReached'
  BY <1>6, <1>7, <1>8, StoresSplitNext
<1>10. DisksTyped'
  BY <1>0, <1>2 DEF RaftInv, DisksTyped
<1> QED
  BY <1>9, <1>10

LEMMA PersistStores ==
  ASSUME RaftInv, Keeps, NEW n \in Node, Persist(n)
  PROVE  DisksTyped' /\ StoresReached'
<1>0. clone \in [Node -> Saved \union {None}] /\ snap \in [Node -> Saved]
  BY DEF RaftInv, DisksTyped
<1>1. /\ applied' = applied /\ data' = data /\ known' = known /\ clone' = [clone EXCEPT ![n] = None]
      /\ clone[n] # None /\ (snap' = snap \/ snap' = [snap EXCEPT ![n] = clone[n]])
  BY DEF Persist
<1>2. PICK s \in Saved : s = clone[n]
  BY <1>0, <1>1
<1>3. Reached(n, s.index, s.data)'
  <2>1. s.index \in Nat
    BY DEF Saved
  <2> QED
    BY <1>1, <1>2, <2>1, ReachedKept DEF RaftInv, StoresReached
<1>4. SnapReached(n)'
  <2>1. CASE snap' = snap
    BY <2>1, SnapKept
  <2>2. CASE snap' = [snap EXCEPT ![n] = clone[n]]
    <3>1. snap'[n] = s
      BY <1>0, <1>2, <2>2
    <3> QED
      BY <1>3, <3>1 DEF SnapReached, Reached
  <2> QED
    BY <1>1, <2>1, <2>2
<1>5. CloneReached(n)'
  BY <1>0, <1>1 DEF CloneReached
<1>6. \A m \in Node : m # n => CloneReached(m)' /\ SnapReached(m)'
  BY <1>0, <1>1, CloneKept, SnapKept
<1>7. \A m \in Node : AppliedReached(m)'
  BY <1>1, AppliedKept
<1>8. StoresReached'
  BY <1>4, <1>5, <1>6, <1>7, StoresSplitNext
<1>9. snap' \in [Node -> Saved]
  BY <1>0, <1>1, <1>2
<1>10. DisksTyped'
  BY <1>0, <1>1, <1>9 DEF RaftInv, DisksTyped
<1> QED
  BY <1>8, <1>10

LEMMA SameStores ==
  ASSUME RaftInv, Keeps, UNCHANGED <<applied, data, snap, clone>>, known' \in [Node -> Node \union {None}]
  PROVE  DisksTyped' /\ StoresReached'
<1>1. StoresReached'
  BY StoresSplitNext, AppliedKept, SnapKept, CloneKept
<1>2. DisksTyped'
  BY DEF RaftInv, DisksTyped
<1> QED
  BY <1>1, <1>2

LEMMA RaftStepInv == ASSUME RaftInv, RaftStep PROVE RaftInv'
<1>0. Keeps /\ known \in [Node -> Node \union {None}]
  BY RaftStepKeeps DEF RaftInv, DisksTyped
<1> DEFINE Goal == DisksTyped' /\ StoresReached'
<1>1. ASSUME NEW n \in Node, NEW Q \in Quorum, Elect(n, Q) PROVE Goal
  <2>1. known' \in [Node -> Node \union {None}] /\ UNCHANGED <<applied, data, snap, clone>>
    BY <1>0, <1>1 DEF Elect
  <2> QED
    BY <1>0, <2>1, SameStores
<1>2. ASSUME NEW l \in Node, NEW f \in Node, Replicate(l, f) PROVE Goal
  BY <1>0, <1>2, ReplicateStores
<1>3. ASSUME NEW l \in Node, NEW f \in Node, InstallSnapshot(l, f) PROVE Goal
  BY <1>0, <1>3, InstallStores
<1>4. ASSUME NEW n \in Node, AdvanceCommit(n) PROVE Goal
  BY <1>0, <1>4, AdvanceStores
<1>5. ASSUME NEW n \in Node, StepDown(n) PROVE Goal
  <2>1. known' \in [Node -> Node \union {None}] /\ UNCHANGED <<applied, data, snap, clone>>
    BY <1>0, <1>5 DEF StepDown
  <2> QED
    BY <1>0, <2>1, SameStores
<1>6. ASSUME NEW n \in Node, TakeSnapshot(n) PROVE Goal
  BY <1>0, <1>6, TakeSnapshotStores
<1>7. ASSUME NEW n \in Node, Persist(n) PROVE Goal
  BY <1>0, <1>7, PersistStores
<1>8. ASSUME NEW n \in Node, Crash(n) PROVE Goal
  BY <1>0, <1>8, CrashStores
<1>9. ASSUME NEW n \in Node, Restart(n) PROVE Goal
  BY <1>0, <1>9, RestartStores
<1>10. Goal
  BY <1>1, <1>2, <1>3, <1>4, <1>5, <1>6, <1>7, <1>8, <1>9 DEF RaftStep
<1> QED
  BY <1>0, <1>10 DEF RaftInv, Keeps

LEMMA AppendCommandInv ==
  ASSUME RaftInv, NEW n \in Node, NEW cmd \in Command \union {Noop}, AppendCommand(n, cmd)
  PROVE  RaftInv' /\ Keeps
<1>1. Keeps
  BY AppendCommandKeeps DEF RaftInv
<1>2. known' \in [Node -> Node \union {None}] /\ UNCHANGED <<applied, data, snap, clone>>
  BY DEF AppendCommand, RaftInv, DisksTyped
<1> QED
  BY <1>1, <1>2, SameStores DEF RaftInv, Keeps

LEMMA QuorumExists == Quorum # {} \/ Node = {}
<1> SUFFICES ASSUME Node # {} PROVE Quorum # {}
  OBVIOUS
<1> DEFINE N == Cardinality(Node)
           Sizes == {k \in Nat : k <= N => \E T \in SUBSET Node : Cardinality(T) = k}
<1>1. N \in Nat /\ N # 0 /\ IsFiniteSet(Node)
  BY RaftAssumption, FS_CardinalityType, FS_EmptySet
<1>2. 0 \in Sizes
  <2>1. {} \in SUBSET Node /\ Cardinality({}) = 0
    BY FS_EmptySet
  <2> QED
    BY <2>1
<1>3. \A k \in Nat : k \in Sizes => k + 1 \in Sizes
  <2> SUFFICES ASSUME NEW k \in Nat, k \in Sizes, k + 1 <= N
               PROVE  \E T \in SUBSET Node : Cardinality(T) = k + 1
    OBVIOUS
  <2>1. PICK T \in SUBSET Node : Cardinality(T) = k
    BY <1>1
  <2>2. PICK x \in Node : x \notin T
    <3>1. T # Node
      BY <1>1, <2>1
    <3> QED
      BY <3>1
  <2>3. IsFiniteSet(T)
    BY <1>1, FS_Subset
  <2>4. Cardinality(T \union {x}) = k + 1
    BY <2>1, <2>2, <2>3, FS_AddElement
  <2>5. T \union {x} \in SUBSET Node
    BY <2>2
  <2> QED
    BY <2>4, <2>5
<1>4. N \div 2 + 1 \in Nat /\ N \div 2 + 1 <= N
  BY <1>1
<1>5. N \div 2 + 1 \in Sizes
  <2> HIDE DEF Sizes, N
  <2> QED
    BY <1>2, <1>3, <1>4, NatSetInduction
<1> QED
  BY <1>4, <1>5 DEF Quorum

LEMMA InitInv == ASSUME Init PROVE RaftInv /\ Node # {}
<1> DEFINE first == << Entry(1, Noop) >>
<1>1. PICK l \in Node : role = [n \in Node |-> IF n = l THEN "leader" ELSE "follower"] /\ known = [n \in Node |-> l]
  BY DEF Init
<1>2. Entry(1, Noop) \in LogEntry /\ Entry(1, Noop).term = 1 /\ MaxTerm \in Nat \ {0}
  BY RaftAssumption DEF Entry, LogEntry
<1>3. first \in Log /\ Len(first) = 1 /\ first # << >> /\ first[1].term = 1
  BY <1>2 DEF Log
<1>4. LastTerm(first) = 1 /\ Agree(first, first, 1)
  <2>1. LastTerm(first) = first[Len(first)].term
    BY <1>3 DEF LastTerm, Last
  <2>2. 1 \in 0..Len(first)
    BY <1>3
  <2>3. Agree(first, first, 1)
    BY <1>3, <2>2, AgreeSelf
  <2> QED
    BY <1>3, <2>1, <2>3
<1>5. PICK f : f = first
  OBVIOUS
<1> HIDE DEF first
<1>6. /\ up = [n \in Node |-> TRUE] /\ term = [n \in Node |-> 1] /\ log = [n \in Node |-> f]
      /\ match = [n \in Node |-> Unheard] /\ applied = [n \in Node |-> 1] /\ data = [n \in Node |-> EmptyStore]
      /\ clone = [n \in Node |-> None] /\ snap = [n \in Node |-> [index |-> 0, data |-> EmptyStore]]
  BY <1>5 DEF Init, first
<1>7. f \in Log /\ Len(f) = 1 /\ f # << >> /\ f[1].term = 1 /\ LastTerm(f) = 1 /\ Agree(f, f, 1)
  BY <1>3, <1>4, <1>5
<1>a. /\ \A n \in Node : log[n] = f /\ term[n] = 1
      /\ \A i \in 1..Len(f) : i = 1 /\ f[i].term = 1
  <2>1. \A i \in 1..Len(f) : i = 1
    BY <1>7
  <2> QED
    BY <1>6, <1>7, <2>1
<1>8. PICK Q \in Quorum : TRUE
  BY <1>1, QuorumExists
<1>9. Unheard \in [Node -> Nat] /\ \A q \in Node : Unheard[q] = 0
  BY DEF Unheard
<1>10. LogsTyped
  BY <1>1, <1>2, <1>6, <1>7, <1>9 DEF LogsTyped
<1>11. LogsOrdered
  BY <1>7, <1>a DEF LogsOrdered
<1>12. TermsElected /\ ElectedOverAnswers
  <2>1. TermsElected
    BY <1>6, <1>8, QuorumType DEF TermsElected
  <2>2. ASSUME NEW n \in Node, NEW j \in 1..Len(log[n]), NEW q \in Q PROVE VotesCast(n, j, q)
    <3>1. q \in Node /\ term[q] = 1 /\ log[n][j].term = 1 /\ \A x \in Node : term[x] = 1
      BY <1>a, QuorumType
    <3> QED
      BY <3>1 DEF VotesCast
  <2> QED
    BY <1>8, <2>1, <2>2 DEF ElectedOverAnswers
<1>13. OneLeader
  BY <1>1 DEF OneLeader, Leads
<1>14. LeadersLog
  BY <1>6, <1>7 DEF LeadersLog
<1>15. LogsMatch
  <2> SUFFICES ASSUME NEW m \in Node, NEW n \in Node, NEW i \in 1..Len(log[m]) PROVE Agree(log[m], log[n], i)
    BY DEF LogsMatch
  <2>1. log[m] = f /\ log[n] = f /\ i = 1
    BY <1>a
  <2> QED
    BY <1>7, <2>1
<1>16. AnswersKept
  BY <1>6, <1>9 DEF AnswersKept
<1>17. LogsInv
  BY <1>10, <1>11, <1>12, <1>13, <1>14, <1>15, <1>16 DEF LogsInv
<1>18. EmptyStore \in Stores
  BY DEF EmptyStore, Stores
<1>19. DisksTyped
  BY <1>1, <1>6, <1>18 DEF DisksTyped, Saved
<1>20. Committed(f, 1)
  BY <1>6, <1>7, <1>8, QuorumType DEF Committed
<1>21. Replay(Commands(SubSeq(f, 1, 0))) = EmptyStore
  BY <1>7, ReplayNothing
<1>22. Replay(Commands(SubSeq(f, 1, 1))) = EmptyStore
  <2>1. Replay(Commands(SubSeq(f, 1, 1))) = ApplyCommand(Replay(Commands(SubSeq(f, 1, 1 - 1))), f[1].cmd)
    BY <1>7, ReplayPart
  <2>2. f[1].cmd = Noop
    BY <1>5 DEF first, Entry
  <2> QED
    BY <1>21, <2>1, <2>2 DEF ApplyCommand, Noop
<1>23. StoresReached
  BY <1>6, <1>20, <1>21, <1>22 DEF StoresReached, Reached
<1> QED
  BY <1>1, <1>17, <1>19, <1>23 DEF RaftInv

-----------------------------------------------------------------------------
(* The history of the cluster.                                             *)

ChosenInv ==
  /\ chosen \in Log /\ chosen # << >> /\ Committed(chosen, Len(chosen))
  /\ \A n \in Node : /\ applied[n] <= Len(chosen) /\ snap[n].index <= Len(chosen)
                     /\ clone[n] # None => clone[n].index <= Len(chosen)
  /\ \A l \in Node : Leads(l) /\ LastTerm(chosen) = term[l] => Len(chosen) <= applied[l]

\* What a node has reached is the beginning of the history.
LEMMA ReachedChosen ==
  ASSUME LogsInv, NEW c \in Log, Committed(c, Len(c)), NEW n \in Node, NEW i \in Nat, NEW d,
         Reached(n, i, d), i <= Len(c)
  PROVE  /\ d = Replay(Commands(SubSeq(c, 1, i)))
         /\ i # 0 => Agree(log[n], c, i) /\ Committed(c, i)
<1>1. PICK b \in Log : b = log[n]
  BY DEF LogsInv, LogsTyped
<1>2. i # 0 => Agree(b, c, i) /\ Committed(c, i)
  <2> SUFFICES ASSUME i # 0 PROVE Agree(b, c, i) /\ Committed(c, i)
    OBVIOUS
  <2>1. Committed(b, i) /\ Len(c) \in Nat
    BY <1>1 DEF Reached, Log
  <2>2. Agree(b, c, i)
    BY <2>1, CommittedCompare
  <2> QED
    BY <2>1, <2>2, CommittedSame
<1>3. d = Replay(Commands(SubSeq(b, 1, i)))
  BY <1>1 DEF Reached
<1>4. Commands(SubSeq(b, 1, i)) = Commands(SubSeq(c, 1, i))
  BY <1>2, SamePrefix
<1> QED
  BY <1>1, <1>2, <1>3, <1>4

LEMMA CommittedCompareNext ==
  ASSUME LogsInv', NEW c \in Log, NEW d \in Log, NEW i \in Nat, NEW j \in Nat,
         Committed(c, i)', Committed(d, j)', i <= j
  PROVE  Agree(c, d, i)
<1>1. PICK P \in Quorum : \A q \in P : Agree(log'[q], c, i)
  BY DEF Committed
<1>2. PICK Q \in Quorum : \A q \in Q : Agree(log'[q], d, j)
  BY DEF Committed
<1>3. PICK q \in Node : q \in P /\ q \in Q
  BY QuorumsMeet
<1>4. log'[q] \in Log /\ Agree(c, log'[q], i) /\ Agree(log'[q], d, j)
  BY <1>1, <1>2, <1>3, AgreeSymmetric DEF LogsInv, LogsTyped
<1>5. Agree(log'[q], d, i)
  BY <1>4, AgreeLess
<1> QED
  BY <1>4, <1>5, AgreeTransitive

LEMMA Highest ==
  ASSUME NEW S, IsFiniteSet(S), S # {}, NEW f \in [S -> Nat]
  PROVE  \E n \in S : \A m \in S : f[n] >= f[m]
<1> DEFINE G == {T \in SUBSET S : T # {} => \E n \in T : \A m \in T : f[n] >= f[m]}
<1>1. ASSUME NEW T \in SUBSET S, \A U \in SUBSET T : U # T => U \in G
      PROVE  T \in G
  <2> SUFFICES ASSUME T # {} PROVE \E n \in T : \A m \in T : f[n] >= f[m]
    OBVIOUS
  <2>1. PICK x \in T : TRUE
    OBVIOUS
  <2> DEFINE U == T \ {x}
  <2>2. U \in G
    BY <1>1, <2>1
  <2>3. CASE U = {}
    <3>1. \A m \in T : m = x
      BY <2>3
    <3> QED
      BY <2>1, <3>1
  <2>4. CASE U # {}
    <3>1. PICK n \in U : \A m \in U : f[n] >= f[m]
      BY <2>2, <2>4
    <3>2. f[n] \in Nat /\ f[x] \in Nat /\ \A m \in T : f[m] \in Nat /\ (m = x \/ m \in U)
      OBVIOUS
    <3>3. CASE f[n] >= f[x]
      BY <3>1, <3>2, <3>3
    <3>4. CASE f[x] >= f[n]
      BY <2>1, <3>1, <3>2, <3>4
    <3> QED
      BY <3>2, <3>3, <3>4
  <2> QED
    BY <2>3, <2>4
<1>2. S \in G
  <2> HIDE DEF G
  <2> QED
    BY <1>1, SubsetInduction
<1> QED
  BY <1>2

\* A step of the cluster extends the history with what a node knows committed, or leaves it.
LEMMA ChosenGrows ==
  ASSUME RaftInv, RaftInv', ChosenInv, Keeps, Node # {}, Cluster
  PROVE  /\ chosen' \in Log /\ Committed(chosen, Len(chosen))' /\ Agree(chosen, chosen', Len(chosen))
         /\ Len(chosen) \in Nat \ {0} /\ Len(chosen') \in Nat \ {0} /\ Len(chosen) <= Len(chosen')
         /\ \A n \in Node : applied'[n] \in Nat /\ applied'[n] <= Len(chosen')
         /\ \/ chosen' = chosen
            \/ \E n \in Node : /\ applied'[n] > Len(chosen) /\ Len(chosen') = applied'[n]
                               /\ Agree(chosen', log'[n], applied'[n])
<1> DEFINE best == CHOOSE n \in Node : \A m \in Node : applied'[n] >= applied'[m]
<1>1. applied' \in [Node -> Nat]
  BY DEF RaftInv, DisksTyped
<1>2. best \in Node /\ \A m \in Node : applied'[best] >= applied'[m]
  BY <1>1, Highest, RaftAssumption
<1>3. PICK b \in Node : b = best
  BY <1>2
<1>4. PICK i \in Nat : i = applied'[b]
  BY <1>1
<1>5. PICK c \in Log : c = log'[b]
  BY DEF RaftInv, LogsInv, LogsTyped
<1>6. chosen' = IF i > Len(chosen) THEN SubSeq(c, 1, i) ELSE chosen
  <2>1. chosen' = IF applied'[best] > Len(chosen) THEN SubSeq(log'[best], 1, applied'[best]) ELSE chosen
    BY DEF Cluster
  <2> HIDE DEF best
  <2> QED
    BY <1>3, <1>4, <1>5, <2>1
<1>7. PICK old \in Log : old = chosen /\ Len(old) \in Nat \ {0}
  <2>1. chosen \in Log /\ chosen # << >>
    BY DEF ChosenInv
  <2> QED
    BY <2>1, LastTermIs
<1>8. Committed(old, Len(old))' /\ Agree(old, old, Len(old))
  <2>1. Len(old) \in Nat /\ Stable(old, Len(old)) /\ Committed(old, Len(old))
    BY <1>7 DEF Keeps, ChosenInv
  <2> QED
    BY <1>7, <2>1, AgreeSelf DEF Stable
<1>9. \A n \in Node : applied'[n] \in Nat /\ applied'[n] <= i
  BY <1>1, <1>2, <1>3, <1>4
<1>10. CASE ~ i > Len(old)
  <2>1. \A n \in Node : applied'[n] <= Len(old)
    BY <1>7, <1>9, <1>10
  <2> QED
    BY <1>6, <1>7, <1>8, <1>9, <1>10, <2>1 DEF Committed
<1>11. CASE i > Len(old)
  <2>1. Committed(c, i)'
    BY <1>4, <1>5, <1>7, <1>11 DEF RaftInv, StoresReached, Reached
  <2>2. i \in 0..Len(c)
    BY <2>1 DEF Committed
  <2>3. PICK new : new = SubSeq(c, 1, i)
    OBVIOUS
  <2>4. new \in Log /\ Len(new) = i /\ Agree(new, c, i) /\ chosen' = new
    BY <1>6, <1>7, <1>11, <2>2, <2>3, Beginning
  <2>5. Len(old) <= i /\ Len(old) \in Nat
    BY <1>7, <1>11
  <2>6. Agree(old, c, Len(old))
    BY <1>8, <2>1, <2>5, CommittedCompareNext DEF RaftInv
  <2>7. Agree(new, c, Len(old)) /\ Agree(c, new, Len(old))
    BY <2>4, <2>5, AgreeLess, AgreeSymmetric
  <2>8. Agree(old, new, Len(old))
    BY <1>7, <2>4, <2>5, <2>6, <2>7, AgreeTransitive
  <2>9. Committed(new, i)'
    BY <2>1, <2>4, CommittedSameNext, AgreeSymmetric DEF RaftInv
  <2>10. Committed(chosen, Len(chosen))'
    BY <2>4, <2>9
  <2>11. applied'[b] > Len(chosen) /\ Len(chosen') = applied'[b] /\ Agree(chosen', log'[b], applied'[b])
    BY <1>4, <1>5, <1>7, <1>11, <2>4
  <2>12. i \in Nat \ {0} /\ Len(chosen') = i /\ Len(chosen) <= i /\ chosen' \in Log /\ Len(chosen) \in Nat \ {0}
    BY <1>7, <2>4, <2>5, <1>11
  <2>13. Agree(chosen, chosen', Len(chosen))
    BY <1>7, <2>4, <2>8
  <2> QED
    BY <1>9, <2>10, <2>11, <2>12, <2>13
<1> QED
  BY <1>10, <1>11

\* Where the index a node has applied comes from.
AppliedFrom(n) ==
  \/ \E m \in Node : applied'[n] = applied[m] \/ applied'[n] = snap[m].index
  \/ applied'[n] = 0
  \/ AdvanceCommit(n)

SnapFrom(n) ==
  /\ (\E m \in Node : snap'[n] = snap[m]) \/ (clone[n] # None /\ snap'[n] = clone[n])
  /\ clone'[n] = None \/ clone'[n] = clone[n] \/ clone'[n].index = applied[n]

\* A leader led before, and has not gone back; or its term is a new one.
LeadsFrom(l) ==
  role'[l] = "leader" => \/ Leads(l) /\ term'[l] = term[l] /\ applied[l] <= applied'[l]
                         \/ \A m \in Node : term[m] < term'[l]

StepFrom == \A n \in Node : AppliedFrom(n) /\ SnapFrom(n) /\ LeadsFrom(n)

LEMMA SameFrom ==
  ASSUME RaftInv, Quiet, NEW n \in Node, \A m \in Node : m # n => applied'[m] = applied[m] /\ snap'[m] = snap[m],
         \A m \in Node : clone'[m] = None \/ clone'[m] = clone[m] \/ clone'[m].index = applied[m],
         AppliedFrom(n), (\E m \in Node : snap'[n] = snap[m]) \/ (clone[n] # None /\ snap'[n] = clone[n]),
         role'[n] = "leader" => applied[n] <= applied'[n]
  PROVE  StepFrom
<1>1. \A m \in Node : applied[m] \in Nat
  BY DEF RaftInv, DisksTyped
<1>2. \A m \in Node : SnapFrom(m)
  BY DEF SnapFrom
<1>3. \A m \in Node : AppliedFrom(m)
  BY DEF AppliedFrom
<1>4. \A m \in Node : LeadsFrom(m)
  BY <1>1 DEF LeadsFrom, Quiet, Leads
<1> QED
  BY <1>2, <1>3, <1>4 DEF StepFrom

LEMMA RaftStepFrom == ASSUME RaftInv, RaftStep PROVE StepFrom
<1>0. /\ applied \in [Node -> Nat] /\ snap \in [Node -> Saved] /\ clone \in [Node -> Saved \union {None}]
      /\ LogsInv
  BY DEF RaftInv, DisksTyped
<1>t. /\ term \in [Node -> 1..MaxTerm] /\ role \in [Node -> {"leader", "follower"}]
  BY <1>0 DEF LogsInv, LogsTyped
<1>q. \A n \in Node : applied[n] \in Nat /\ applied[n] <= applied[n]
  BY <1>0
<1>1. ASSUME NEW n \in Node, NEW Q \in Quorum, Elect(n, Q) PROVE StepFrom
  <2>1. PICK t : Entry(t, Noop) \in LogEntry /\ Elects(n, Q, t, Entry(t, Noop))
    BY <1>0, <1>1, ElectElects
  <2>2. /\ n \in Q /\ \A q \in Q : term'[q] = t
        /\ \A q \in Node \ Q : term'[q] = term[q] /\ role'[q] = role[q]
        /\ \A q \in Q : q # n => role'[q] = "follower"
        /\ \A m \in Node : term[m] < t
    BY <1>0, <2>1, ElectsTypes
  <2>3. applied' = applied /\ snap' = snap /\ clone' = clone
    BY <1>1 DEF Elect
  <2>4. \A m \in Node : LeadsFrom(m)
    BY <1>q, <2>2, <2>3 DEF LeadsFrom, Leads
  <2>5. \A m \in Node : AppliedFrom(m) /\ SnapFrom(m)
    BY <2>3 DEF AppliedFrom, SnapFrom
  <2> QED
    BY <2>4, <2>5 DEF StepFrom
<1>2. ASSUME NEW l \in Node, NEW f \in Node, Replicate(l, f) PROVE StepFrom
  <2>1. /\ term' = [term EXCEPT ![f] = term[l]] /\ role' = [role EXCEPT ![f] = "follower"]
        /\ snap' = snap /\ clone' = clone
        /\ applied' = [applied EXCEPT ![f] = Max({applied[f], applied[l]})]
    BY <1>2 DEF Replicate, CommitUpTo
  <2>2. Max({applied[f], applied[l]}) \in {applied[f], applied[l]}
    <3>1. {applied[f], applied[l]} \in SUBSET Nat
      BY <1>0
    <3>2. \A y \in {applied[f], applied[l]} : y <= applied[f] + applied[l]
      BY <1>0
    <3>3. applied[f] + applied[l] \in Nat
      BY <1>0
    <3> QED
      BY <3>1, <3>2, <3>3, Largest
  <2>3. \A m \in Node : LeadsFrom(m)
    BY <1>q, <1>t, <1>0, <2>1 DEF LeadsFrom, Leads
  <2>4. \A m \in Node : AppliedFrom(m) /\ SnapFrom(m)
    BY <1>0, <2>1, <2>2 DEF AppliedFrom, SnapFrom
  <2> QED
    BY <2>3, <2>4 DEF StepFrom
<1>3. ASSUME NEW l \in Node, NEW f \in Node, InstallSnapshot(l, f) PROVE StepFrom
  <2>1. /\ term' = [term EXCEPT ![f] = term[l]] /\ role' = [role EXCEPT ![f] = "follower"]
        /\ snap' = [snap EXCEPT ![f] = snap[l]] /\ clone' = clone
        /\ applied' = [applied EXCEPT ![f] = snap[l].index]
    BY <1>3 DEF InstallSnapshot
  <2>3. \A m \in Node : LeadsFrom(m)
    BY <1>q, <1>t, <1>0, <2>1 DEF LeadsFrom, Leads
  <2>4. \A m \in Node : AppliedFrom(m) /\ SnapFrom(m)
    BY <1>0, <2>1 DEF AppliedFrom, SnapFrom
  <2> QED
    BY <2>3, <2>4 DEF StepFrom
<1>4. ASSUME NEW n \in Node, AdvanceCommit(n) PROVE StepFrom
  <2>1. Quiet
    BY <1>0, <1>4, OthersQuiet
  <2> DEFINE ready == {i \in applied[n] + 1..Len(log[n]) : log[n][i].term = term[n] /\ Replicated(n, i)}
  <2>2. snap' = snap /\ clone' = clone /\ applied' = [applied EXCEPT ![n] = Max(ready)] /\ ready # {}
    BY <1>4 DEF AdvanceCommit, CommitUpTo
  <2>3. Max(ready) \in ready
    <3>1. ready \in SUBSET Nat /\ Len(log[n]) \in Nat /\ \A y \in ready : y <= Len(log[n])
      BY <1>0, OrderedLast DEF LogsInv
    <3> HIDE DEF ready
    <3> QED
      BY <2>2, <3>1, Largest
  <2>4. applied[n] <= Max(ready)
    BY <1>0, <2>3
  <2> HIDE DEF ready
  <2>5. AppliedFrom(n)
    BY <1>4 DEF AppliedFrom
  <2> QED
    BY <1>0, <2>1, <2>2, <2>4, <2>5, SameFrom
<1>5. ASSUME NEW n \in Node, StepDown(n) \/ TakeSnapshot(n) \/ Persist(n) PROVE StepFrom
  <2>1. Quiet
    BY <1>0, <1>5, OthersQuiet
  <2>2. applied' = applied
    BY <1>5 DEF StepDown, TakeSnapshot, Persist
  <2>3. AppliedFrom(n)
    BY <2>2 DEF AppliedFrom
  <2>4. /\ \A m \in Node : m # n => snap'[m] = snap[m]
        /\ (\E m \in Node : snap'[n] = snap[m]) \/ (clone[n] # None /\ snap'[n] = clone[n])
    BY <1>0, <1>5 DEF StepDown, TakeSnapshot, Persist
  <2>5. \A m \in Node : clone'[m] = None \/ clone'[m] = clone[m] \/ clone'[m].index = applied[m]
    BY <1>0, <1>5 DEF StepDown, TakeSnapshot, Persist
  <2> QED
    BY <1>q, <2>1, <2>2, <2>3, <2>4, <2>5, SameFrom
<1>6. ASSUME NEW n \in Node, Crash(n) PROVE StepFrom
  <2>1. Quiet
    BY <1>0, <1>6, OthersQuiet
  <2>2. /\ applied' = [applied EXCEPT ![n] = 0] /\ snap' = snap /\ clone' = [clone EXCEPT ![n] = None]
        /\ role' = [role EXCEPT ![n] = "follower"]
    BY <1>6 DEF Crash
  <2>3. AppliedFrom(n)
    BY <1>0, <2>2 DEF AppliedFrom
  <2> QED
    BY <1>0, <1>t, <2>1, <2>2, <2>3, SameFrom
<1>7. ASSUME NEW n \in Node, Restart(n) PROVE StepFrom
  <2>1. Quiet
    BY <1>0, <1>7, OthersQuiet
  <2>2. applied' = [applied EXCEPT ![n] = snap[n].index] /\ snap' = snap /\ clone' = clone /\ role' = role /\ ~ up[n]
    BY <1>7 DEF Restart
  <2>3. AppliedFrom(n)
    BY <1>0, <2>2 DEF AppliedFrom
  <2>4. role'[n] # "leader"
    BY <1>0, <2>2 DEF LogsInv, LeadersLog, Leads
  <2> QED
    BY <1>0, <2>1, <2>2, <2>3, <2>4, SameFrom
<1> QED
  BY <1>1, <1>2, <1>3, <1>4, <1>5, <1>6, <1>7 DEF RaftStep

LEMMA ClusterChosen ==
  ASSUME RaftInv, ChosenInv, Node # {}, Cluster
  PROVE  ChosenInv'
<1>0. RaftStep
  BY DEF Cluster
<1>1. RaftInv' /\ Keeps /\ StepFrom
  BY <1>0, RaftStepInv, RaftStepKeeps, RaftStepFrom
<1>2. /\ chosen' \in Log /\ Committed(chosen, Len(chosen))' /\ Agree(chosen, chosen', Len(chosen))
      /\ Len(chosen) \in Nat \ {0} /\ Len(chosen') \in Nat \ {0} /\ Len(chosen) <= Len(chosen')
      /\ \A n \in Node : applied'[n] \in Nat /\ applied'[n] <= Len(chosen')
      /\ \/ chosen' = chosen
         \/ \E n \in Node : /\ applied'[n] > Len(chosen) /\ Len(chosen') = applied'[n]
                            /\ Agree(chosen', log'[n], applied'[n])
  BY <1>1, ChosenGrows
<1>3. chosen' # << >>
  BY <1>2
<1>4. /\ applied \in [Node -> Nat] /\ snap \in [Node -> Saved] /\ clone \in [Node -> Saved \union {None}]
      /\ clone' \in [Node -> Saved \union {None}] /\ snap' \in [Node -> Saved]
  BY <1>1 DEF RaftInv, DisksTyped
<1>5. \A n \in Node : /\ applied[n] \in Nat /\ applied[n] <= Len(chosen) /\ snap[n].index \in Nat /\ snap[n].index <= Len(chosen)
                      /\ clone[n] # None => clone[n].index \in Nat /\ clone[n].index <= Len(chosen)
  BY <1>4 DEF ChosenInv, Saved
<1>6. ASSUME NEW n \in Node
      PROVE  snap'[n].index <= Len(chosen') /\ (clone'[n] # None => clone'[n].index <= Len(chosen'))
  <2>1. SnapFrom(n)
    BY <1>1 DEF StepFrom
  <2>2. snap'[n].index \in Nat /\ snap'[n].index <= Len(chosen)
    BY <1>5, <2>1 DEF SnapFrom
  <2>3. clone'[n] # None => clone'[n].index \in Nat /\ clone'[n].index <= Len(chosen)
    BY <1>5, <2>1 DEF SnapFrom
  <2> QED
    BY <1>2, <2>2, <2>3
\* Only a leader that commits can go beyond the history.
<1>7. ASSUME NEW n \in Node, applied'[n] > Len(chosen)
      PROVE  AdvanceCommit(n)
  <2>1. AppliedFrom(n)
    BY <1>1 DEF StepFrom
  <2> QED
    BY <1>2, <1>5, <1>7, <2>1 DEF AppliedFrom
<1>8. ASSUME NEW l \in Node, role'[l] = "leader", LastTerm(chosen') = term'[l]
      PROVE  Len(chosen') <= applied'[l]
  <2>1. LeadsFrom(l)
    BY <1>1 DEF StepFrom
  <2>2. CASE chosen' = chosen
    <3>1. CASE Leads(l) /\ term'[l] = term[l] /\ applied[l] <= applied'[l]
      <4>1. Len(chosen) <= applied[l]
        BY <1>8, <2>2, <3>1 DEF ChosenInv
      <4> QED
        BY <1>2, <1>5, <2>2, <3>1, <4>1
    <3>2. CASE \A m \in Node : term[m] < term'[l]
      <4>1. PICK Q \in Quorum : \A q \in Q : Agree(log[q], chosen, Len(chosen))
        BY DEF ChosenInv, Committed
      <4>2. PICK q \in Node : q \in Q
        BY QuorumsMeet
      <4>3. Agree(log[q], chosen, Len(chosen))
        BY <4>1, <4>2
      <4>4. Len(chosen) \in 1..Len(log[q]) /\ log[q][Len(chosen)] = chosen[Len(chosen)]
        <5>1. Len(log[q]) \in Nat
          BY OrderedLast DEF RaftInv, LogsInv
        <5> QED
          BY <1>2, <4>3, <5>1 DEF Agree
      <4>5. log[q][Len(chosen)].term <= term[q]
        BY <4>4, OrderedLast DEF RaftInv, LogsInv
      <4>6. LastTerm(chosen) = log[q][Len(chosen)].term
        BY <4>4, LastTermIs DEF ChosenInv
      <4>7. term[q] < term'[l] /\ log[q][Len(chosen)].term \in 1..MaxTerm /\ term[q] \in 1..MaxTerm
            /\ term'[l] \in 1..MaxTerm
        BY <1>1, <3>2, <4>4, OrderedLast DEF RaftInv, LogsInv, LogsTyped
      <4>8. MaxTerm \in Nat
        BY RaftAssumption
      <4> QED
        BY <1>8, <2>2, <4>5, <4>6, <4>7, <4>8
    <3> QED
      BY <1>8, <2>1, <3>1, <3>2 DEF LeadsFrom
  <2>3. CASE \E n \in Node : /\ applied'[n] > Len(chosen) /\ Len(chosen') = applied'[n]
                             /\ Agree(chosen', log'[n], applied'[n])
    <3>1. PICK n \in Node : /\ applied'[n] > Len(chosen) /\ Len(chosen') = applied'[n]
                            /\ Agree(chosen', log'[n], applied'[n])
      BY <2>3
    <3>2. AdvanceCommit(n)
      BY <1>7, <3>1
    <3> DEFINE ready == {i \in applied[n] + 1..Len(log[n]) : log[n][i].term = term[n] /\ Replicated(n, i)}
    <3>3. log' = log /\ term' = term /\ role' = role /\ role[n] = "leader" /\ ready # {}
          /\ applied' = [applied EXCEPT ![n] = Max(ready)]
      BY <3>2 DEF AdvanceCommit, CommitUpTo
    <3>4. Max(ready) \in ready
      <4>1. ready \in SUBSET Nat /\ Len(log[n]) \in Nat /\ \A y \in ready : y <= Len(log[n])
        BY <1>4, OrderedLast DEF RaftInv, LogsInv
      <4> HIDE DEF ready
      <4> QED
        BY <3>3, <4>1, Largest
    <3>5. applied'[n] = Max(ready)
      BY <1>4, <3>3
    <3>6. log[n][applied'[n]].term = term[n]
      BY <3>4, <3>5
    <3>7. chosen'[Len(chosen')] = log[n][applied'[n]]
      <4>1. PICK k \in Nat \ {0} : k = Len(chosen')
        BY <1>2
      <4> HIDE DEF ready
      <4>4. log'[n] = log[n] /\ applied'[n] = k
        BY <3>1, <3>3, <4>1
      <4>2. Agree(chosen', log[n], k) /\ k \in 1..k
        BY <3>1, <4>4
      <4>3. chosen'[k] = log[n][k]
        BY <4>2 DEF Agree
      <4> QED
        BY <3>1, <4>1, <4>3
    <3>8. LastTerm(chosen') = term'[n]
      BY <1>2, <1>3, <3>3, <3>6, <3>7, LastTermIs
    <3>9. l = n
      BY <1>1, <1>8, <3>3, <3>8 DEF RaftInv, LogsInv, OneLeader, Leads
    <3> QED
      BY <1>2, <3>1, <3>9
  <2> QED
    BY <1>2, <2>2, <2>3
<1>9. ASSUME NEW l \in Node, Leads(l)', (LastTerm(chosen) = term[l])'
      PROVE  (Len(chosen) <= applied[l])'
  BY <1>8, <1>9 DEF Leads
<1> QED
  BY <1>2, <1>3, <1>6, <1>9 DEF ChosenInv

\* The entries of a log come from one log, but for the no-op of a new leader.
EntriesFrom(n) == \E l \in Node : \A i \in 1..Len(log'[n]) :
  \/ i \in 1..Len(log[l]) /\ log'[n][i] = log[l][i]
  \/ log'[n][i].cmd = Noop

\* A process that does not die only goes on.
GoesOn(n) == up[n] /\ up'[n] => applied[n] <= applied'[n]

LeaderStays(n) == Leads(n) /\ role'[n] = "leader" => log'[n] = log[n] /\ term'[n] = term[n]

StepLogs == \A n \in Node : EntriesFrom(n) /\ GoesOn(n) /\ LeaderStays(n)

LEMMA SameEntries == ASSUME NEW n \in Node, log'[n] = log[n] PROVE EntriesFrom(n)
  BY DEF EntriesFrom

LEMMA AdoptsEntries ==
  ASSUME LogsInv, NEW f \in Node, NEW l \in Node, NEW k \in Nat, Adopts(f, l, k)
  PROVE  \A n \in Node : EntriesFrom(n) /\ LeaderStays(n)
<1>1. /\ \A n \in Node : n # f => log'[n] = log[n] /\ term'[n] = term[n]
      /\ Len(log'[f]) = k /\ Agree(log'[f], log[l], k) /\ role'[f] = "follower"
  BY AdoptsTypes
<1>2. EntriesFrom(f)
  <2>1. Len(log[l]) \in Nat
    BY OrderedLast DEF LogsInv
  <2>2. \A i \in 1..Len(log'[f]) : i \in 1..Len(log[l]) /\ log'[f][i] = log[l][i]
    BY <1>1, <2>1 DEF Agree
  <2> QED
    BY <2>2 DEF EntriesFrom
<1> QED
  BY <1>1, <1>2, SameEntries DEF LeaderStays

LEMMA RaftStepLogs == ASSUME RaftInv, RaftStep PROVE StepLogs
<1>0. /\ applied \in [Node -> Nat] /\ snap \in [Node -> Saved] /\ LogsInv
  BY DEF RaftInv, DisksTyped
<1>t. up \in [Node -> BOOLEAN] /\ role \in [Node -> {"leader", "follower"}]
  BY <1>0 DEF LogsInv, LogsTyped
<1>q. \A n \in Node : applied[n] \in Nat /\ applied[n] <= applied[n]
  BY <1>0
<1>1. ASSUME NEW n \in Node, NEW Q \in Quorum, Elect(n, Q) PROVE StepLogs
  <2>1. PICK t : Entry(t, Noop) \in LogEntry /\ Elects(n, Q, t, Entry(t, Noop))
    BY <1>0, <1>1, ElectElects
  <2>2. /\ \A m \in Node : m # n => log'[m] = log[m]
        /\ Len(log'[n]) = Len(log[n]) + 1 /\ log'[n][Len(log[n]) + 1] = Entry(t, Noop)
        /\ Agree(log[n], log'[n], Len(log[n])) /\ Len(log[n]) \in Nat
        /\ \A q \in Node \ Q : term'[q] = term[q]
        /\ \A q \in Q : q # n => role'[q] = "follower"
    BY <1>0, <2>1, ElectsTypes
  <2>3. role[n] # "leader" /\ applied' = applied
    BY <1>1 DEF Elect
  <2>4. EntriesFrom(n)
    <3>1. \A i \in 1..Len(log'[n]) : i \in 1..Len(log[n]) \/ i = Len(log[n]) + 1
      BY <2>2
    <3>2. Entry(t, Noop).cmd = Noop
      BY DEF Entry
    <3> QED
      BY <2>2, <3>1, <3>2 DEF EntriesFrom, Agree
  <2>5. \A m \in Node : EntriesFrom(m)
    BY <2>2, <2>4, SameEntries
  <2>6. \A m \in Node : LeaderStays(m) /\ GoesOn(m)
    BY <1>q, <2>2, <2>3 DEF LeaderStays, GoesOn, Leads
  <2> QED
    BY <2>5, <2>6 DEF StepLogs
<1>2. ASSUME NEW l \in Node, NEW f \in Node, Replicate(l, f) PROVE StepLogs
  <2>1. applied' = [applied EXCEPT ![f] = Max({applied[f], applied[l]})]
    BY <1>2 DEF Replicate, CommitUpTo
  <2>2. applied[f] <= Max({applied[f], applied[l]})
    <3>1. {applied[f], applied[l]} \in SUBSET Nat
      BY <1>0
    <3>2. \A y \in {applied[f], applied[l]} : y <= applied[f] + applied[l]
      BY <1>0
    <3>3. applied[f] + applied[l] \in Nat
      BY <1>0
    <3> QED
      BY <3>1, <3>2, <3>3, Largest
  <2>3. \A m \in Node : GoesOn(m)
    BY <1>0, <1>q, <2>1, <2>2 DEF GoesOn
  <2> QED
    BY <1>0, <1>2, <2>3, ReplicateAdopts, AdoptsEntries DEF StepLogs
<1>3. ASSUME NEW l \in Node, NEW f \in Node, InstallSnapshot(l, f) PROVE StepLogs
  <2>1. applied' = [applied EXCEPT ![f] = snap[l].index] /\ snap[l].index > applied[f]
    BY <1>3 DEF InstallSnapshot
  <2>2. snap[l].index \in Nat
    BY <1>0 DEF Saved
  <2>3. \A m \in Node : GoesOn(m)
    BY <1>0, <1>q, <2>1, <2>2 DEF GoesOn
  <2> QED
    BY <1>0, <1>3, <2>2, <2>3, InstallAdopts, AdoptsEntries DEF StepLogs
<1>4. ASSUME NEW n \in Node,
             AdvanceCommit(n) \/ StepDown(n) \/ TakeSnapshot(n) \/ Persist(n) \/ Crash(n) \/ Restart(n)
      PROVE  StepLogs
  <2>1. log' = log /\ term' = term
    BY <1>0, <1>4, OthersQuiet DEF Quiet
  <2>2. CASE AdvanceCommit(n)
    <3> DEFINE ready == {i \in applied[n] + 1..Len(log[n]) : log[n][i].term = term[n] /\ Replicated(n, i)}
    <3>1. applied' = [applied EXCEPT ![n] = Max(ready)] /\ ready # {}
      BY <2>2 DEF AdvanceCommit, CommitUpTo
    <3>2. Max(ready) \in ready
      <4>1. ready \in SUBSET Nat /\ Len(log[n]) \in Nat /\ \A y \in ready : y <= Len(log[n])
        BY <1>0, OrderedLast DEF LogsInv
      <4> HIDE DEF ready
      <4> QED
        BY <3>1, <4>1, Largest
    <3>3. applied[n] <= Max(ready)
      BY <1>0, <3>2
    <3> HIDE DEF ready
    <3>4. \A m \in Node : GoesOn(m)
      BY <1>0, <1>q, <3>1, <3>3 DEF GoesOn
    <3> QED
      BY <2>1, <3>4, SameEntries DEF StepLogs, LeaderStays
  <2>3. CASE StepDown(n) \/ TakeSnapshot(n) \/ Persist(n)
    <3>1. applied' = applied
      BY <2>3 DEF StepDown, TakeSnapshot, Persist
    <3> QED
      BY <1>q, <2>1, <3>1, SameEntries DEF StepLogs, LeaderStays, GoesOn
  <2>4. CASE Crash(n) \/ Restart(n)
    <3>1. \A m \in Node : m # n => applied'[m] = applied[m]
      BY <1>0, <2>4 DEF Crash, Restart
    <3>2. ~ (up[n] /\ up'[n])
      BY <1>t, <2>4 DEF Crash, Restart
    <3> QED
      BY <1>q, <2>1, <3>1, <3>2, SameEntries DEF StepLogs, LeaderStays, GoesOn
  <2> QED
    BY <1>4, <2>2, <2>3, <2>4
<1> QED
  BY <1>1, <1>2, <1>3, <1>4 DEF RaftStep

-----------------------------------------------------------------------------
(* The requests.                                                           *)

Said == {"none", "stored", "apply failed", "no known leader", "forwarded request reached a non-leader node",
         "forward retry failed", "forward failed and leader unchanged", "connection lost"}
Replies == [status : Nat, body : Said]
Succeeded(r) == r.status = 200
Unled(r) == r.body = "no known leader"
Refusing(r) == r.body = "forwarded request reached a non-leader node"
Handler == [pc : {"new", "forward", "called", "rpc", "done"}, at : Node \union {None}, attempt : Attempt,
            cmd : Command \union {Noop}, reply : Replies]
Execution == [pc : {"none", "sent", "apply", "wait", "ok", "error", "refused", "dead"},
              node : Node \union {None}, index : Nat]
Reading == [pc : {"new", "get", "done", "failed"}, at : Node \union {None}, key : Key \union {None},
            term : Nat, need : Nat, got : Nat, reply : Value \union {Absent}]

CallsTyped ==
  /\ req \in [Write -> Handler] /\ exec \in [Write -> [Attempt -> Execution]] /\ read \in [Reader -> Reading]
  /\ \A r \in Reader : read[r].pc \in {"get", "done"} => read[r].at \in Node /\ read[r].key \in Key

ExecutionOK(e) ==
  /\ e.pc \in {"sent", "apply", "wait"} => e.node \in Node
  /\ e.pc = "none" => e.node = None

\* How far the handler of a write has come, and what its executions may have done.
HandlerOK(w, h, e1, e2) ==
  /\ h.pc \in {"forward", "called", "rpc"} => h.at \in Node
  /\ h.cmd.op = "set" => h.cmd.value = w
  /\ h.pc \in {"new", "forward"} => e1.pc = "none"
  /\ h.pc \in {"new", "forward", "called"} => h.attempt = 1
  /\ h.attempt = 1 => e2.pc = "none"
  /\ h.pc = "rpc" => e1.node \in Node /\ (h.attempt = 2 => e2.node \in Node)
  /\ e2.pc # "none" /\ e1.node = e2.node => e1.node = None

\* A success is one of the execution that answered; who says that nothing was tried
\* has tried nothing.
ReplyOK(h, e1, e2) ==
  /\ Succeeded(h.reply) =>
       h.pc = "done" /\ IF h.attempt = 1 THEN e1.pc = "ok" /\ e1.node = None ELSE e2.pc = "ok" /\ e2.node = None
  /\ Unled(h.reply) => h.pc = "done" /\ e1.pc = "none" /\ e2.pc = "none"
  /\ Refusing(h.reply) /\ h.attempt = 1 =>
       h.pc = "done" /\ e1.pc = "refused" /\ e1.node = None

CallOK(w, h, e1, e2) == ExecutionOK(e1) /\ ExecutionOK(e2) /\ HandlerOK(w, h, e1, e2) /\ ReplyOK(h, e1, e2)

CallsInv == CallsTyped /\ \A w \in Write : CallOK(w, req[w], exec[w][1], exec[w][2])

\* A pending future belongs to a leader that has the command in its log; one that
\* succeeded, to a command of the history.
WaitInv == \A w \in Write, a \in Attempt :
  /\ exec[w][a].pc = "wait" =>
       /\ Leads(exec[w][a].node) /\ exec[w][a].index \in 1..Len(log[exec[w][a].node])
       /\ log[exec[w][a].node][exec[w][a].index].cmd = req[w].cmd
  /\ exec[w][a].pc = "ok" =>
       exec[w][a].index \in 1..Len(chosen) /\ chosen[exec[w][a].index].cmd = req[w].cmd

Proposed == {"wait", "ok", "error", "dead"}

\* A set command in a log was proposed for the write whose value it carries.
LogsOwned == \A n \in Node : \A i \in 1..Len(log[n]) : log[n][i].cmd.op = "set" =>
  \E w \in Write : log[n][i].cmd = req[w].cmd /\ \E a \in Attempt : exec[w][a].pc \in Proposed

\* Once a leader has the command of a write in its term, it will not be given it again.
GivenOnce == \A w \in Write, m \in Node : \A i \in 1..Len(log[m]) :
  Leads(m) /\ log[m][i].term = term[m] /\ log[m][i].cmd = req[w].cmd /\ req[w].cmd.op = "set" =>
    /\ \A a \in Attempt : exec[w][a].node = m => exec[w][a].pc \notin {"sent", "apply"}
    /\ req[w].pc = "rpc" /\ req[w].attempt = 1 => exec[w][1].node = m

NoRepeat == \A n \in Node : \A i, j \in 1..Len(log[n]) :
  i # j /\ log[n][i].cmd.op = "set" /\ log[n][i].cmd = log[n][j].cmd => log[n][i].term # log[n][j].term

\* A read on a verified leader will find what was acknowledged before, unless it reads
\* before the leader has applied an entry of its term.
ReadsInv == \A r \in Reader :
  /\ read[r].pc = "get" =>
       /\ up[read[r].at] /\ read[r].need <= Len(chosen)
       /\ read[r].need # 0 => \/ read[r].need <= applied[read[r].at]
                              \/ chosen[read[r].need].term < read[r].term
  /\ read[r].pc = "done" =>
       /\ read[r].got <= Len(chosen) /\ read[r].reply = Replay(Commands(SubSeq(chosen, 1, read[r].got)))[read[r].key]
       /\ Established(r) => read[r].need <= read[r].got

ServerInv == RaftInv /\ ChosenInv /\ CallsInv /\ WaitInv /\ LogsOwned /\ GivenOnce /\ NoRepeat /\ ReadsInv

raftState == <<up, role, term, log, known, match, applied, data, clone, snap>>

LEMMA SameRaft == ASSUME RaftInv, UNCHANGED raftState PROVE RaftInv'
<1> USE DEF raftState
<1>1. LogsInv'
  <2>1. Quiet
    BY DEF RaftInv, LogsInv, LogsTyped, Quiet
  <2> QED
    BY <2>1, QuietKeeps DEF RaftInv
<1>5. DisksTyped' /\ StoresReached'
  BY DEF RaftInv, DisksTyped, StoresReached, Reached, Committed
<1> QED
  BY <1>1, <1>5 DEF RaftInv

LEMMA SameChosen == ASSUME ChosenInv, UNCHANGED raftState, chosen' = chosen PROVE ChosenInv'
  BY DEF ChosenInv, raftState, Committed, Leads

LEMMA SameReads == ASSUME ReadsInv, UNCHANGED <<up, applied, chosen, read>> PROVE ReadsInv'
  BY DEF ReadsInv, Established

LEMMA SameLogs == ASSUME NoRepeat, UNCHANGED log PROVE NoRepeat'
  BY DEF NoRepeat

\* What an execution that moves on, without proposing, leaves true.
LEMMA FuturesKept ==
  ASSUME ServerInv, UNCHANGED raftState, UNCHANGED chosen, \A w \in Write : req'[w].cmd = req[w].cmd,
         \A w \in Write, a \in Attempt :
           \/ exec'[w][a] = exec[w][a]
           \/ exec'[w][a].pc \notin {"wait", "ok"} /\ exec[w][a].pc \notin Proposed
           \/ /\ exec'[w][a].pc = exec[w][a].pc /\ exec[w][a].pc # "wait"
              /\ exec'[w][a].index = exec[w][a].index
  PROVE  WaitInv' /\ LogsOwned'
<1> USE DEF raftState
<1>1. WaitInv'
  BY SMTT(30) DEF ServerInv, WaitInv, Leads
<1>2. LogsOwned'
  BY DEF ServerInv, LogsOwned, Proposed
<1> QED
  BY <1>1, <1>2

LEMMA GivenKept ==
  ASSUME ServerInv, UNCHANGED raftState,
         \A w \in Write : /\ req'[w].cmd = req[w].cmd
                          /\ req'[w].pc = "rpc" /\ req'[w].attempt = 1 =>
                               req[w].pc = "rpc" /\ req[w].attempt = 1 /\ exec'[w][1].node = exec[w][1].node,
         \A w \in Write, a \in Attempt : exec'[w][a].pc \in {"sent", "apply"} =>
           exec[w][a].pc \in {"sent", "apply"} /\ exec'[w][a].node = exec[w][a].node
  PROVE  GivenOnce'
<1> SUFFICES ASSUME NEW w \in Write, NEW m \in Node, NEW i \in 1..Len(log[m]),
                    Leads(m), log[m][i].term = term[m], log[m][i].cmd = req[w].cmd, req[w].cmd.op = "set"
             PROVE  /\ \A a \in Attempt : exec'[w][a].node = m => exec'[w][a].pc \notin {"sent", "apply"}
                    /\ req'[w].pc = "rpc" /\ req'[w].attempt = 1 => exec'[w][1].node = m
  BY DEF GivenOnce, Leads, raftState
<1>1. /\ \A a \in Attempt : exec[w][a].node = m => exec[w][a].pc \notin {"sent", "apply"}
      /\ req[w].pc = "rpc" /\ req[w].attempt = 1 => exec[w][1].node = m
  BY DEF ServerInv, GivenOnce
<1> QED
  BY <1>1

LEMMA AttemptIs == Attempt = {1, 2} /\ None \notin Node
  BY RaftAssumption DEF Attempt

LEMMA ExecType ==
  ASSUME CallsInv, NEW w \in Write, NEW a \in Attempt
  PROVE  /\ exec[w][a] \in Execution /\ ExecutionOK(exec[w][a])
         /\ exec[w][a].pc \in {"none", "sent", "apply", "wait", "ok", "error", "refused", "dead"}
         /\ exec[w][a].node \in Node \union {None} /\ exec[w][a].index \in Nat
<1>1. exec[w][a] \in Execution
  BY DEF CallsInv, CallsTyped
<1> QED
  BY <1>1, AttemptIs DEF Execution, CallsInv, CallOK

LEMMA HandlerType ==
  ASSUME CallsInv, NEW w \in Write
  PROVE  /\ req[w] \in Handler /\ HandlerOK(w, req[w], exec[w][1], exec[w][2]) /\ ReplyOK(req[w], exec[w][1], exec[w][2])
         /\ req[w].pc \in {"new", "forward", "called", "rpc", "done"} /\ req[w].at \in Node \union {None}
         /\ req[w].attempt \in Attempt /\ req[w].cmd \in Command \union {Noop}
         /\ req[w].reply \in Replies
<1>1. req[w] \in Handler
  BY DEF CallsInv, CallsTyped
<1> QED
  BY <1>1 DEF Handler, CallsInv, CallOK

LEMMA ExecMake ==
  ASSUME NEW pc \in {"none", "sent", "apply", "wait", "ok", "error", "refused", "dead"}, NEW n \in Node
  PROVE  Exec(pc, n) \in Execution /\ Exec(pc, n).pc = pc /\ Exec(pc, n).node = n
  BY DEF Exec, Execution

\* A change of one execution, and one of one handler.
LEMMA ExecSet ==
  ASSUME CallsInv, NEW w \in Write, NEW a \in Attempt, NEW x \in Execution, exec' = [exec EXCEPT ![w][a] = x]
  PROVE  /\ exec' \in [Write -> [Attempt -> Execution]]
         /\ exec'[w][a] = x
         /\ \A v \in Write, b \in Attempt : ~ (v = w /\ b = a) => exec'[v][b] = exec[v][b]
<1>1. exec \in [Write -> [Attempt -> Execution]]
  BY DEF CallsInv, CallsTyped
<1> QED
  BY <1>1

LEMMA ReqSet ==
  ASSUME CallsInv, NEW w \in Write, NEW h \in Handler, req' = [req EXCEPT ![w] = h]
  PROVE  req' \in [Write -> Handler] /\ req'[w] = h /\ \A v \in Write : v # w => req'[v] = req[v]
<1>1. req \in [Write -> Handler]
  BY DEF CallsInv, CallsTyped
<1> QED
  BY <1>1

LEMMA CallsNext ==
  ASSUME CallsInv, NEW w \in Write, req' \in [Write -> Handler], exec' \in [Write -> [Attempt -> Execution]],
         read' = read, \A v \in Write : v # w => req'[v] = req[v] /\ \A a \in Attempt : exec'[v][a] = exec[v][a],
         CallOK(w, req'[w], exec'[w][1], exec'[w][2])
  PROVE  CallsInv'
<1>1. CallsTyped'
  BY DEF CallsInv, CallsTyped
<1>2. ASSUME NEW v \in Write PROVE CallOK(v, req'[v], exec'[v][1], exec'[v][2])
  BY AttemptIs DEF CallsInv
<1> QED
  BY <1>1, <1>2 DEF CallsInv

LEMMA SetCommand ==
  ASSUME CallsInv, LogsOwned, NEW w \in Write, exec[w][1].pc = "none", exec[w][2].pc = "none",
         NEW n \in Node, NEW i \in 1..Len(log[n]), log[n][i].cmd.op = "set"
  PROVE  log[n][i].cmd.value # w
<1>1. PICK v \in Write : log[n][i].cmd = req[v].cmd /\ \E a \in Attempt : exec[v][a].pc \in Proposed
  BY DEF LogsOwned
<1>2. log[n][i].cmd.value = v
  BY <1>1, HandlerType DEF HandlerOK
<1>3. v # w
  BY <1>1, AttemptIs DEF Proposed
<1> QED
  BY <1>2, <1>3

LEMMA ReceiveWriteInv ==
  ASSUME ServerInv, NEW w \in Write, NEW n \in Node, NEW cmd \in CommandsOf(w), ReceiveWrite(w, n, cmd)
  PROVE  ServerInv'
<1>1. CallsInv /\ req[w].pc = "new"
  BY DEF ServerInv, ReceiveWrite
<1>2. UNCHANGED raftState /\ chosen' = chosen /\ read' = read
  BY DEF ReceiveWrite, raftVars, raftState
<1>3. cmd \in Command /\ (cmd.op = "set" => cmd.value = w)
  BY DEF CommandsOf
<1> DEFINE h == [req[w] EXCEPT !.at = n, !.cmd = cmd, !.pc = IF role[n] = "leader" THEN "called" ELSE "forward"]
<1>4. h \in Handler /\ h.at = n /\ h.cmd = cmd /\ h.pc = (IF role[n] = "leader" THEN "called" ELSE "forward")
      /\ h.attempt = req[w].attempt /\ h.reply = req[w].reply
  <2>1. req[w] \in Handler /\ (IF role[n] = "leader" THEN "called" ELSE "forward") \in {"called", "forward"}
    BY <1>1, HandlerType
  <2> QED
    BY <1>3, <2>1 DEF Handler
<1>5. req' = [req EXCEPT ![w] = h]
  <2>1. req \in [Write -> Handler]
    BY <1>1 DEF CallsInv, CallsTyped
  <2> QED
    BY <2>1 DEF ReceiveWrite
<1> HIDE DEF h
<1>6. req' \in [Write -> Handler] /\ req'[w] = h /\ \A v \in Write : v # w => req'[v] = req[v]
  BY <1>1, <1>4, <1>5, ReqSet
<1>7. 1 \in Attempt /\ 2 \in Attempt /\ Attempt = {1, 2} /\ None \notin Node
  BY AttemptIs
<1>8. exec[w][1].pc = "none" /\ exec[w][2].pc = "none" /\ exec[w][1].node = None /\ exec[w][2].node = None
      /\ req[w].attempt = 1 /\ ReplyOK(req[w], exec[w][1], exec[w][2])
  <2>1. ExecutionOK(exec[w][1]) /\ ExecutionOK(exec[w][2])
    BY <1>1, <1>7, ExecType
  <2> QED
    BY <1>1, <2>1, HandlerType DEF HandlerOK, ExecutionOK
<1>9. Exec("apply", n).pc = "apply" /\ Exec("apply", n).node = n /\ Exec("apply", n) \in Execution
  BY ExecMake
<1>10. /\ exec' \in [Write -> [Attempt -> Execution]]
       /\ \A v \in Write, b \in Attempt : ~ (v = w /\ b = 1) => exec'[v][b] = exec[v][b]
       /\ exec'[w][1] = (IF role[n] = "leader" THEN Exec("apply", n) ELSE exec[w][1])
  <2>1. CASE role[n] = "leader"
    <3>1. exec' = [exec EXCEPT ![w][1] = Exec("apply", n)]
      BY <2>1 DEF ReceiveWrite
    <3>2. /\ exec' \in [Write -> [Attempt -> Execution]] /\ exec'[w][1] = Exec("apply", n)
          /\ \A v \in Write, b \in Attempt : ~ (v = w /\ b = 1) => exec'[v][b] = exec[v][b]
      BY <1>1, <1>7, <1>9, <3>1, ExecSet
    <3> QED
      BY <2>1, <3>2
  <2>2. CASE role[n] # "leader"
    <3>1. exec' = exec /\ exec \in [Write -> [Attempt -> Execution]]
      BY <1>1, <2>2 DEF ReceiveWrite, CallsInv, CallsTyped
    <3> QED
      BY <2>2, <3>1
  <2> QED
    BY <2>1, <2>2
<1>11. CallOK(w, req'[w], exec'[w][1], exec'[w][2])
  <2>1. exec'[w][2] = exec[w][2]
    BY <1>7, <1>10
  <2>2. ~ Succeeded(h.reply) /\ ~ Unled(h.reply) /\ ~ Refusing(h.reply)
    BY <1>1, <1>4, <1>8 DEF ReplyOK
  <2>3. ReplyOK(h, exec'[w][1], exec'[w][2])
    BY <2>2 DEF ReplyOK
  <2>4. CASE role[n] = "leader"
    BY <1>3, <1>4, <1>6, <1>7, <1>8, <1>9, <1>10, <2>1, <2>3, <2>4 DEF CallOK, ExecutionOK, HandlerOK
  <2>5. CASE role[n] # "leader"
    BY <1>3, <1>4, <1>6, <1>7, <1>8, <1>10, <2>1, <2>3, <2>5 DEF CallOK, ExecutionOK, HandlerOK
  <2> QED
    BY <2>4, <2>5
<1>12. \A v \in Write : v # w => req'[v] = req[v] /\ \A a \in Attempt : exec'[v][a] = exec[v][a]
  BY <1>6, <1>10
<1>13. CallsInv'
  BY <1>1, <1>2, <1>6, <1>10, <1>11, <1>12, CallsNext
<1>14. WaitInv'
  <2>1. \A v \in Write, a \in Attempt : exec'[v][a].pc \in {"wait", "ok"} => exec'[v][a] = exec[v][a] /\ req'[v].cmd = req[v].cmd
    BY <1>7, <1>8, <1>9, <1>10, <1>12
  <2> QED
    BY <1>2, <2>1, SMTT(30) DEF ServerInv, WaitInv, raftState, Leads
<1>15. LogsOwned'
  <2> SUFFICES ASSUME NEW m \in Node, NEW i \in 1..Len(log[m]), log[m][i].cmd.op = "set"
               PROVE  \E v \in Write : log[m][i].cmd = req'[v].cmd /\ \E a \in Attempt : exec'[v][a].pc \in Proposed
    BY <1>2 DEF LogsOwned, raftState
  <2>1. PICK v \in Write : log[m][i].cmd = req[v].cmd /\ \E a \in Attempt : exec[v][a].pc \in Proposed
    BY DEF ServerInv, LogsOwned
  <2>2. v # w
    BY <1>7, <1>8, <2>1 DEF Proposed
  <2> QED
    BY <1>12, <2>1, <2>2
<1>16. GivenOnce'
  <2> SUFFICES ASSUME NEW v \in Write, NEW m \in Node, NEW i \in 1..Len(log[m]), Leads(m), log[m][i].term = term[m],
                      log[m][i].cmd = req'[v].cmd, req'[v].cmd.op = "set"
               PROVE  /\ \A a \in Attempt : exec'[v][a].node = m => exec'[v][a].pc \notin {"sent", "apply"}
                      /\ req'[v].pc = "rpc" /\ req'[v].attempt = 1 => exec'[v][1].node = m
    BY <1>2 DEF GivenOnce, raftState, Leads
  <2>1. v # w
    <3>1. log[m][i].cmd.op = "set" => log[m][i].cmd.value # w
      BY <1>1, <1>8, SetCommand DEF ServerInv
    <3> QED
      BY <1>3, <1>4, <1>6, <3>1
  <2>2. /\ \A a \in Attempt : exec[v][a].node = m => exec[v][a].pc \notin {"sent", "apply"}
        /\ req[v].pc = "rpc" /\ req[v].attempt = 1 => exec[v][1].node = m
    BY <1>12, <2>1 DEF ServerInv, GivenOnce
  <2> QED
    BY <1>7, <1>12, <2>1, <2>2
<1>17. RaftInv' /\ ChosenInv' /\ NoRepeat' /\ ReadsInv'
  BY <1>2, SameRaft, SameChosen, SameLogs, SameReads DEF ServerInv, raftState
<1> QED
  BY <1>13, <1>14, <1>15, <1>16, <1>17 DEF ServerInv

\* A command that was not tried is in no log.
LEMMA UntriedGiven ==
  ASSUME ServerInv, UNCHANGED raftState, NEW w \in Write, exec[w][1].pc = "none", exec[w][2].pc = "none",
         \A v \in Write : req'[v].cmd = req[v].cmd,
         \A v \in Write : v # w => req'[v] = req[v] /\ \A a \in Attempt : exec'[v][a] = exec[v][a]
  PROVE  GivenOnce'
<1> SUFFICES ASSUME NEW v \in Write, NEW m \in Node, NEW i \in 1..Len(log[m]), Leads(m), log[m][i].term = term[m],
                    log[m][i].cmd = req[v].cmd, req[v].cmd.op = "set"
             PROVE  /\ \A a \in Attempt : exec'[v][a].node = m => exec'[v][a].pc \notin {"sent", "apply"}
                    /\ req'[v].pc = "rpc" /\ req'[v].attempt = 1 => exec'[v][1].node = m
  BY DEF GivenOnce, raftState, Leads
<1>1. v # w
  <2>1. log[m][i].cmd.op = "set" => log[m][i].cmd.value # w
    BY SetCommand DEF ServerInv
  <2>2. req[v].cmd.value = v
    BY HandlerType DEF ServerInv, HandlerOK
  <2> QED
    BY <2>1, <2>2
<1>2. /\ \A a \in Attempt : exec[v][a].node = m => exec[v][a].pc \notin {"sent", "apply"}
      /\ req[v].pc = "rpc" /\ req[v].attempt = 1 => exec[v][1].node = m
  BY DEF ServerInv, GivenOnce
<1> QED
  BY <1>1, <1>2, AttemptIs

\* The answers the handlers give (no prover takes numbers and strings together).
Success(s) == s = 200
NoneKnown(b) == b = "no known leader"
TurnedAway(b) == b = "forwarded request reached a non-leader node"
Plain(r) == r \in Replies /\ ~ Succeeded(r) /\ ~ Unled(r) /\ ~ Refusing(r)

LEMMA ReplyMake ==
  ASSUME NEW s \in Nat, NEW b \in Said
  PROVE  /\ Reply(s, b) \in Replies /\ (Succeeded(Reply(s, b)) <=> Success(s))
         /\ (Unled(Reply(s, b)) <=> NoneKnown(b)) /\ (Refusing(Reply(s, b)) <=> TurnedAway(b))
<1>1. Reply(s, b) \in Replies
  BY DEF Reply, Replies
<1>2. Succeeded(Reply(s, b)) <=> Success(s)
  BY DEF Reply, Succeeded, Success
<1>3. (Unled(Reply(s, b)) <=> NoneKnown(b)) /\ (Refusing(Reply(s, b)) <=> TurnedAway(b))
  BY DEF Reply, Unled, Refusing, NoneKnown, TurnedAway
<1> QED
  BY <1>1, <1>2, <1>3

LEMMA Statuses == \E s, t, z, g \in Nat : /\ s = 503 /\ t = 500 /\ z = 0 /\ g = 200
                                          /\ ~ Success(s) /\ ~ Success(t) /\ ~ Success(z) /\ Success(g)
  BY DEF Success

LEMMA Texts ==
  /\ \A b \in {"apply failed", "forward retry failed", "forward failed and leader unchanged", "connection lost", "stored", "none"} :
        b \in Said /\ ~ NoneKnown(b) /\ ~ TurnedAway(b)
  /\ \E b \in Said : b = "no known leader" /\ NoneKnown(b) /\ ~ TurnedAway(b)
  /\ \E b \in Said : b = "forwarded request reached a non-leader node" /\ ~ NoneKnown(b) /\ TurnedAway(b)
  BY DEF Said, NoneKnown, TurnedAway

LEMMA NoLeaderReply ==
  /\ Reply(503, "no known leader") \in Replies /\ ~ Succeeded(Reply(503, "no known leader"))
  /\ Unled(Reply(503, "no known leader")) /\ ~ Refusing(Reply(503, "no known leader"))
<1>1. PICK s \in Nat : s = 503 /\ ~ Success(s)
  BY Statuses
<1>2. PICK b \in Said : b = "no known leader" /\ NoneKnown(b) /\ ~ TurnedAway(b)
  BY Texts
<1>3. s = 503
  BY <1>1
<1>4. ~ Success(s)
  BY <1>1
<1>5. b = "no known leader"
  BY <1>2
<1>6. NoneKnown(b) /\ ~ TurnedAway(b)
  BY <1>2
<1>7. Reply(s, b) \in Replies /\ ~ Succeeded(Reply(s, b)) /\ Unled(Reply(s, b)) /\ ~ Refusing(Reply(s, b))
  BY <1>4, <1>6, ReplyMake
<1> QED
  BY <1>3, <1>5, <1>7, Zenon, SMTT(30)

LEMMA PlainReply ==
  ASSUME NEW s \in Nat, ~ Success(s),
         NEW b \in {"apply failed", "forward retry failed", "forward failed and leader unchanged", "connection lost", "none"}
  PROVE  Plain(Reply(s, b))
<1>1. b \in Said /\ ~ NoneKnown(b) /\ ~ TurnedAway(b)
  BY Texts
<1> QED
  BY <1>1, ReplyMake DEF Plain

LEMMA FailedReplies ==
  /\ Plain(Reply(500, "apply failed")) /\ Plain(Reply(503, "forward retry failed"))
  /\ Plain(Reply(503, "forward failed and leader unchanged")) /\ Plain(Reply(0, "connection lost"))
  /\ Plain(Reply(0, "none"))
<1>1. PICK s, t, z \in Nat : s = 503 /\ t = 500 /\ z = 0 /\ ~ Success(s) /\ ~ Success(t) /\ ~ Success(z)
  BY Statuses
<1>2. ~ Success(s) /\ ~ Success(t) /\ ~ Success(z)
  BY <1>1
<1>3. s = 503 /\ t = 500 /\ z = 0
  BY <1>1
<1>4. Plain(Reply(t, "apply failed")) /\ Plain(Reply(s, "forward retry failed"))
      /\ Plain(Reply(s, "forward failed and leader unchanged")) /\ Plain(Reply(z, "connection lost"))
      /\ Plain(Reply(z, "none"))
  BY <1>2, PlainReply
<1> QED
  BY <1>3, <1>4, Zenon, SMTT(30)

LEMMA OutcomeReplies ==
  /\ Outcome("ok") \in Replies /\ Succeeded(Outcome("ok")) /\ ~ Unled(Outcome("ok")) /\ ~ Refusing(Outcome("ok"))
  /\ Plain(Outcome("error"))
  /\ Outcome("refused") \in Replies /\ ~ Succeeded(Outcome("refused")) /\ ~ Unled(Outcome("refused"))
<1>1. PICK s, g \in Nat : s = 503 /\ g = 200 /\ ~ Success(s) /\ Success(g)
  BY Statuses
<1>2. ~ Success(s) /\ Success(g)
  BY <1>1
<1>3. s = 503 /\ g = 200
  BY <1>1
<1>4. PICK b \in Said : b = "forwarded request reached a non-leader node" /\ ~ NoneKnown(b)
  BY Texts
<1>5. PICK c \in Said : c = "stored" /\ ~ NoneKnown(c) /\ ~ TurnedAway(c)
  BY Texts
<1>6. ~ NoneKnown(b) /\ ~ NoneKnown(c) /\ ~ TurnedAway(c)
  BY <1>4, <1>5
<1>7. b = "forwarded request reached a non-leader node" /\ c = "stored"
  BY <1>4, <1>5
<1>8. Reply(s, b) \in Replies /\ ~ Succeeded(Reply(s, b)) /\ ~ Unled(Reply(s, b))
  BY <1>2, <1>6, ReplyMake
<1>9. Reply(g, c) \in Replies /\ Succeeded(Reply(g, c)) /\ ~ Unled(Reply(g, c)) /\ ~ Refusing(Reply(g, c))
  BY <1>2, <1>6, ReplyMake
<1>10. Outcome("ok") = Reply(200, "stored")
  BY DEF Outcome
<1>11. Outcome("error") = Reply(500, "apply failed")
  BY DEF Outcome
<1>12. Outcome("refused") = Reply(503, "forwarded request reached a non-leader node")
  BY DEF Outcome
<1>13. Outcome("ok") = Reply(g, c) /\ Outcome("refused") = Reply(s, b)
  BY <1>3, <1>7, <1>10, <1>12, Zenon
<1>14. Plain(Reply(500, "apply failed"))
  BY FailedReplies, Zenon
<1>15. Plain(Outcome("error"))
  BY <1>11, <1>14, Zenon
<1>16. Outcome("ok") \in Replies /\ Succeeded(Outcome("ok")) /\ ~ Unled(Outcome("ok")) /\ ~ Refusing(Outcome("ok"))
  BY <1>9, <1>13, Zenon
<1>17. Outcome("refused") \in Replies /\ ~ Succeeded(Outcome("refused")) /\ ~ Unled(Outcome("refused"))
  BY <1>8, <1>13, Zenon
<1> QED
  BY <1>15, <1>16, <1>17, Zenon

LEMMA DoneMake ==
  ASSUME NEW h \in Handler, NEW r \in Replies
  PROVE  /\ Done(h, r) \in Handler /\ Done(h, r).pc = "done" /\ Done(h, r).at = None /\ Done(h, r).reply = r
         /\ Done(h, r).cmd = h.cmd /\ Done(h, r).attempt = h.attempt
  BY DEF Done, Handler, Replies

LEMMA AnswerIs ==
  ASSUME CallsInv, NEW w \in Write, NEW r \in Replies, Answer(w, r)
  PROVE  /\ req' \in [Write -> Handler] /\ req'[w] = Done(req[w], r) /\ \A v \in Write : v # w => req'[v] = req[v]
         /\ Done(req[w], r).pc = "done" /\ Done(req[w], r).at = None /\ Done(req[w], r).reply = r
         /\ Done(req[w], r).cmd = req[w].cmd /\ Done(req[w], r).attempt = req[w].attempt
         /\ \A v \in Write : req'[v].cmd = req[v].cmd
<1>1. req' = [req EXCEPT ![w] = Done(req[w], r)]
  <2>1. req \in [Write -> Handler]
    BY DEF CallsInv, CallsTyped
  <2> QED
    BY <2>1 DEF Answer
<1>2. Done(req[w], r) \in Handler
  BY HandlerType, DoneMake
<1>3. /\ Done(req[w], r).pc = "done" /\ Done(req[w], r).at = None /\ Done(req[w], r).reply = r
      /\ Done(req[w], r).cmd = req[w].cmd /\ Done(req[w], r).attempt = req[w].attempt
  BY HandlerType, DoneMake
<1>4. req' \in [Write -> Handler] /\ req'[w] = Done(req[w], r) /\ \A v \in Write : v # w => req'[v] = req[v]
  BY <1>1, <1>2, ReqSet
<1> QED
  BY <1>3, <1>4

LEMMA DoneOK ==
  ASSUME NEW w, NEW h, NEW d, NEW e1, NEW e2, HandlerOK(w, h, e1, e2), ExecutionOK(e1), ExecutionOK(e2),
         d.pc = "done", d.cmd = h.cmd, d.attempt = h.attempt, ReplyOK(d, e1, e2)
  PROVE  CallOK(w, d, e1, e2)
<1>1. HandlerOK(w, d, e1, e2)
  BY DEF HandlerOK
<1> QED
  BY <1>1 DEF CallOK

LEMMA ForwardToLeaderInv ==
  ASSUME ServerInv, NEW w \in Write, ForwardToLeader(w)
  PROVE  ServerInv'
<1>1. CallsInv /\ req[w].pc = "forward"
  BY DEF ServerInv, ForwardToLeader
<1>2. UNCHANGED raftState /\ chosen' = chosen /\ read' = read
  BY DEF ForwardToLeader, raftVars, raftState
<1>3. 1 \in Attempt /\ 2 \in Attempt /\ Attempt = {1, 2} /\ None \notin Node
  BY AttemptIs
<1>4. exec[w][1].pc = "none" /\ exec[w][2].pc = "none" /\ exec[w][1].node = None /\ exec[w][2].node = None
      /\ req[w].attempt = 1 /\ ReplyOK(req[w], exec[w][1], exec[w][2]) /\ req[w].at \in Node
      /\ (req[w].cmd.op = "set" => req[w].cmd.value = w)
  <2>1. ExecutionOK(exec[w][1]) /\ ExecutionOK(exec[w][2])
    BY <1>1, <1>3, ExecType
  <2> QED
    BY <1>1, <2>1, HandlerType DEF HandlerOK, ExecutionOK
<1> DEFINE target == known[req[w].at]
<1>5. target \in Node \union {None}
  BY <1>4 DEF ServerInv, RaftInv, DisksTyped
<1>6. /\ req' \in [Write -> Handler] /\ exec' \in [Write -> [Attempt -> Execution]]
      /\ \A v \in Write : v # w => req'[v] = req[v] /\ \A a \in Attempt : exec'[v][a] = exec[v][a]
      /\ exec'[w][2] = exec[w][2] /\ exec'[w][1].pc \in {"none", "sent"}
      /\ req'[w].cmd = req[w].cmd /\ CallOK(w, req'[w], exec'[w][1], exec'[w][2])
  <2>1. CASE target = None
    <3>1. PICK r \in Replies : r = Reply(503, "no known leader") /\ ~ Succeeded(r) /\ Unled(r) /\ ~ Refusing(r)
      BY NoLeaderReply
    <3>2. Answer(w, r) /\ exec' = exec
      BY <2>1, <3>1, ZenonT(30) DEF ForwardToLeader
    <3>3. /\ req' \in [Write -> Handler] /\ req'[w] = Done(req[w], r) /\ \A v \in Write : v # w => req'[v] = req[v]
          /\ Done(req[w], r).pc = "done" /\ Done(req[w], r).at = None /\ Done(req[w], r).reply = r
          /\ Done(req[w], r).cmd = req[w].cmd /\ Done(req[w], r).attempt = req[w].attempt
      BY <1>1, <3>2, AnswerIs
    <3>4. exec' \in [Write -> [Attempt -> Execution]]
      BY <1>1, <3>2 DEF CallsInv, CallsTyped
    <3>5. CallOK(w, req'[w], exec'[w][1], exec'[w][2])
      <4>1. ExecutionOK(exec[w][1]) /\ ExecutionOK(exec[w][2])
        BY <1>1, <1>3, ExecType
      <4>2. ReplyOK(Done(req[w], r), exec[w][1], exec[w][2])
        <5>1. ~ Succeeded(r) /\ Unled(r) /\ ~ Refusing(r)
          BY <3>1
        <5>2. Done(req[w], r).pc = "done" /\ Done(req[w], r).reply = r /\ exec[w][1].pc = "none" /\ exec[w][2].pc = "none"
          BY <1>4, <3>3
        <5> QED
          BY <5>1, <5>2 DEF ReplyOK
      <4> QED
        BY <1>1, <3>2, <3>3, <4>1, <4>2, HandlerType, DoneOK
    <3> QED
      BY <1>4, <3>2, <3>3, <3>4, <3>5
  <2>2. CASE target # None
    <3>1. req' = [req EXCEPT ![w].pc = "rpc"] /\ exec' = [exec EXCEPT ![w][1] = Exec("sent", target)]
      BY <2>2 DEF ForwardToLeader
    <3> DEFINE h == [req[w] EXCEPT !.pc = "rpc"]
    <3>2. h \in Handler /\ h.pc = "rpc" /\ h.cmd = req[w].cmd /\ h.attempt = req[w].attempt /\ h.at = req[w].at /\ h.reply = req[w].reply
      BY <1>1, HandlerType DEF Handler
    <3>3. req' = [req EXCEPT ![w] = h]
      BY <1>1, <3>1 DEF CallsInv, CallsTyped
    <3> HIDE DEF h
    <3>4. req' \in [Write -> Handler] /\ req'[w] = h /\ \A v \in Write : v # w => req'[v] = req[v]
      BY <1>1, <3>2, <3>3, ReqSet
    <3>5. target \in Node
      BY <1>5, <2>2
    <3> DEFINE x == Exec("sent", target)
    <3>6. x \in Execution /\ x.pc = "sent" /\ x.node = target
      BY <3>5, ExecMake
    <3>7. exec' = [exec EXCEPT ![w][1] = x]
      BY <3>1
    <3> HIDE DEF x, target
    <3>8. /\ exec' \in [Write -> [Attempt -> Execution]] /\ exec'[w][1] = x
          /\ \A v \in Write, b \in Attempt : ~ (v = w /\ b = 1) => exec'[v][b] = exec[v][b]
      BY <1>1, <1>3, <3>6, <3>7, ExecSet
    <3>9. exec'[w][2] = exec[w][2]
      BY <1>3, <3>8
    <3>10. CallOK(w, req'[w], exec'[w][1], exec'[w][2])
      <4>1. ~ Succeeded(req[w].reply) /\ ~ Unled(req[w].reply) /\ ~ Refusing(req[w].reply)
        BY <1>1, <1>4 DEF ReplyOK
      <4>2. ReplyOK(h, x, exec[w][2])
        BY <3>2, <4>1 DEF ReplyOK
      <4>3. HandlerOK(w, h, x, exec[w][2])
        BY <1>3, <1>4, <3>2, <3>5, <3>6 DEF HandlerOK
      <4>4. ExecutionOK(x) /\ ExecutionOK(exec[w][2])
        BY <1>4, <3>5, <3>6 DEF ExecutionOK
      <4> QED
        BY <3>4, <3>8, <3>9, <4>2, <4>3, <4>4 DEF CallOK
    <3> QED
      BY <3>2, <3>4, <3>6, <3>8, <3>9, <3>10
  <2> QED
    BY <2>1, <2>2
<1>7. CallsInv'
  BY <1>1, <1>2, <1>6, CallsNext
<1>8. \A v \in Write : req'[v].cmd = req[v].cmd
  BY <1>6
<1>9. \A v \in Write, a \in Attempt :
         \/ exec'[v][a] = exec[v][a]
         \/ exec'[v][a].pc \notin {"wait", "ok"} /\ exec[v][a].pc \notin Proposed
  BY <1>3, <1>4, <1>6 DEF Proposed
<1>10. WaitInv' /\ LogsOwned'
  BY <1>2, <1>8, <1>9, FuturesKept
<1>11. GivenOnce'
  BY <1>2, <1>4, <1>6, <1>8, UntriedGiven
<1>12. RaftInv' /\ ChosenInv' /\ NoRepeat' /\ ReadsInv'
  BY <1>2, SameRaft, SameChosen, SameLogs, SameReads DEF ServerInv, raftState
<1> QED
  BY <1>7, <1>10, <1>11, <1>12 DEF ServerInv

\* What an execution may become without its handler being told.
Moves(e, x) ==
  /\ x.node = e.node
  /\ x.pc = "none" <=> e.pc = "none"
  /\ x.pc \in {"sent", "apply", "wait"} => e.pc \in {"sent", "apply", "wait"}
  /\ e.pc \in {"ok", "refused"} /\ e.node = None => x.pc = e.pc

LEMMA MovesOK ==
  ASSUME NEW w, NEW h, NEW e1, NEW e2, NEW x1, NEW x2, CallOK(w, h, e1, e2), Moves(e1, x1), Moves(e2, x2)
  PROVE  CallOK(w, h, x1, x2)
<1>1. ExecutionOK(x1) /\ ExecutionOK(x2)
  BY DEF CallOK, ExecutionOK, Moves
<1>2. HandlerOK(w, h, x1, x2)
  BY DEF CallOK, HandlerOK, Moves
<1>3. ReplyOK(h, x1, x2)
  BY DEF CallOK, ReplyOK, Moves
<1> QED
  BY <1>1, <1>2, <1>3 DEF CallOK

LEMMA OneMoves ==
  ASSUME CallsInv, NEW w \in Write, NEW i \in Attempt, NEW x \in Execution, Moves(exec[w][i], x),
         exec' = [exec EXCEPT ![w][i] = x], req' = req, read' = read
  PROVE  CallsInv' /\ exec'[w][i] = x /\ \A v \in Write, b \in Attempt : ~ (v = w /\ b = i) => exec'[v][b] = exec[v][b]
<1>1. /\ exec' \in [Write -> [Attempt -> Execution]] /\ exec'[w][i] = x
      /\ \A v \in Write, b \in Attempt : ~ (v = w /\ b = i) => exec'[v][b] = exec[v][b]
  BY ExecSet, ZenonT(30)
<1>2. \A b \in Attempt : Moves(exec[w][b], exec'[w][b])
  <2>1. \A e : Moves(e, e)
    BY DEF Moves
  <2> QED
    BY <1>1, <2>1
<1>3. CallOK(w, req'[w], exec'[w][1], exec'[w][2])
  <2>1. CallOK(w, req[w], exec[w][1], exec[w][2])
    BY DEF CallsInv
  <2>2. Moves(exec[w][1], exec'[w][1]) /\ Moves(exec[w][2], exec'[w][2])
    BY <1>2, AttemptIs
  <2> QED
    BY <2>1, <2>2, MovesOK
<1>4. req' \in [Write -> Handler]
  BY DEF CallsInv, CallsTyped
<1> QED
  BY <1>1, <1>3, <1>4, CallsNext

LEMMA ServeForwardedInv ==
  ASSUME ServerInv, NEW w \in Write, NEW i \in Attempt, ServeForwarded(w, i)
  PROVE  ServerInv'
<1>1. CallsInv /\ exec[w][i].pc = "sent"
  BY DEF ServerInv, ServeForwarded
<1>2. UNCHANGED raftState /\ chosen' = chosen /\ read' = read /\ req' = req
  BY DEF ServeForwarded, raftVars, raftState
<1> DEFINE x == [exec[w][i] EXCEPT !.pc = IF role[exec[w][i].node] = "leader" THEN "apply" ELSE "refused"]
<1>3. x \in Execution /\ x.pc \in {"apply", "refused"} /\ x.node = exec[w][i].node
  BY <1>1, ExecType DEF Execution
<1>4. exec' = [exec EXCEPT ![w][i] = x]
  BY <1>1 DEF ServeForwarded, CallsInv, CallsTyped
<1> HIDE DEF x
<1>5. Moves(exec[w][i], x)
  BY <1>1, <1>3 DEF Moves
<1>6. CallsInv' /\ exec'[w][i] = x /\ \A v \in Write, b \in Attempt : ~ (v = w /\ b = i) => exec'[v][b] = exec[v][b]
  BY <1>1, <1>2, <1>3, <1>4, <1>5, OneMoves
<1>7. \A v \in Write, b \in Attempt :
         \/ exec'[v][b] = exec[v][b]
         \/ exec'[v][b].pc \notin {"wait", "ok"} /\ exec[v][b].pc \notin Proposed
  BY <1>1, <1>3, <1>6 DEF Proposed
<1>8. WaitInv' /\ LogsOwned'
  BY <1>2, <1>7, FuturesKept
<1>9. \A v \in Write, b \in Attempt : exec'[v][b].node = exec[v][b].node
                                      /\ (exec'[v][b].pc \in {"sent", "apply"} => exec[v][b].pc \in {"sent", "apply"})
  BY <1>1, <1>3, <1>6
<1>10. GivenOnce'
  BY <1>2, <1>9, AttemptIs, GivenKept
<1>11. RaftInv' /\ ChosenInv' /\ NoRepeat' /\ ReadsInv'
  BY <1>2, SameRaft, SameChosen, SameLogs, SameReads DEF ServerInv, raftState
<1> QED
  BY <1>6, <1>8, <1>10, <1>11 DEF ServerInv

LEMMA NotProposedInv ==
  ASSUME ServerInv, NEW w \in Write, NEW i \in Attempt, NotProposed(w, i)
  PROVE  ServerInv'
<1>1. CallsInv /\ exec[w][i].pc = "apply"
  BY DEF ServerInv, NotProposed
<1>2. UNCHANGED raftState /\ chosen' = chosen /\ read' = read /\ req' = req
  BY DEF NotProposed, raftState
<1> DEFINE x == [exec[w][i] EXCEPT !.pc = "error"]
<1>3. x \in Execution /\ x.pc = "error" /\ x.node = exec[w][i].node
  BY <1>1, ExecType DEF Execution
<1>4. exec' = [exec EXCEPT ![w][i] = x]
  BY <1>1 DEF NotProposed, CallsInv, CallsTyped
<1> HIDE DEF x
<1>5. Moves(exec[w][i], x)
  BY <1>1, <1>3 DEF Moves
<1>6. CallsInv' /\ exec'[w][i] = x /\ \A v \in Write, b \in Attempt : ~ (v = w /\ b = i) => exec'[v][b] = exec[v][b]
  BY <1>1, <1>2, <1>3, <1>4, <1>5, OneMoves
<1>7. \A v \in Write, b \in Attempt :
         \/ exec'[v][b] = exec[v][b]
         \/ exec'[v][b].pc \notin {"wait", "ok"} /\ exec[v][b].pc \notin Proposed
  BY <1>1, <1>3, <1>6 DEF Proposed
<1>8. WaitInv' /\ LogsOwned'
  BY <1>2, <1>7, FuturesKept
<1>9. \A v \in Write, b \in Attempt : exec'[v][b].node = exec[v][b].node
                                      /\ (exec'[v][b].pc \in {"sent", "apply"} => exec[v][b].pc \in {"sent", "apply"})
  BY <1>1, <1>3, <1>6
<1>10. GivenOnce'
  BY <1>2, <1>9, AttemptIs, GivenKept
<1>11. RaftInv' /\ ChosenInv' /\ NoRepeat' /\ ReadsInv'
  BY <1>2, SameRaft, SameChosen, SameLogs, SameReads DEF ServerInv, raftState
<1> QED
  BY <1>6, <1>8, <1>10, <1>11 DEF ServerInv

LEMMA AnswerOK ==
  ASSUME NEW w, NEW h, NEW d, NEW e1, NEW e2, NEW x1, NEW x2, CallOK(w, h, e1, e2),
         d.pc = "done", d.cmd = h.cmd, d.attempt = h.attempt, ReplyOK(d, x1, x2),
         x1 = e1 \/ (x1.pc = e1.pc /\ x1.node = None /\ x1.pc \notin {"sent", "apply", "wait"}),
         x2 = e2 \/ (x2.pc = e2.pc /\ x2.node = None /\ x2.pc \notin {"sent", "apply", "wait"})
  PROVE  CallOK(w, d, x1, x2)
<1>1. HandlerOK(w, d, x1, x2)
  BY DEF CallOK, HandlerOK
<1>2. ExecutionOK(x1) /\ ExecutionOK(x2)
  BY DEF CallOK, ExecutionOK
<1> QED
  BY <1>1, <1>2 DEF CallOK

LEMMA RespondInv ==
  ASSUME ServerInv, NEW w \in Write, Respond(w)
  PROVE  ServerInv'
<1>1. CallsInv /\ req[w].pc \in {"called", "rpc"}
  BY DEF ServerInv, Respond
<1>2. UNCHANGED raftState /\ chosen' = chosen /\ read' = read
  BY DEF Respond, raftVars, raftState
<1>3. PICK a \in Attempt : a = req[w].attempt
  BY <1>1, HandlerType
<1>4. PICK e \in Execution : e = exec[w][a]
  BY <1>1, ExecType
<1>5. PICK x \in Execution : x = [e EXCEPT !.node = None] /\ x.pc = e.pc /\ x.node = None /\ x.index = e.index
  <2>1. [e EXCEPT !.node = None] \in Execution /\ [e EXCEPT !.node = None].pc = e.pc
        /\ [e EXCEPT !.node = None].node = None /\ [e EXCEPT !.node = None].index = e.index
    BY <1>4 DEF Execution
  <2> QED
    BY <2>1
<1>6. e.pc \in {"ok", "error", "refused"}
  BY <1>3, <1>4 DEF Respond
<1>7. PICK r : r = Outcome(e.pc) /\ r \in Replies /\ (Succeeded(r) => e.pc = "ok") /\ ~ Unled(r) /\ (Refusing(r) => e.pc = "refused")
  BY <1>6, OutcomeReplies, Zenon DEF Plain
<1>8. Answer(w, r)
  BY <1>3, <1>4, <1>7 DEF Respond
<1>9. /\ req' \in [Write -> Handler] /\ req'[w] = Done(req[w], r) /\ \A v \in Write : v # w => req'[v] = req[v]
      /\ Done(req[w], r).pc = "done" /\ Done(req[w], r).at = None /\ Done(req[w], r).reply = r
      /\ Done(req[w], r).cmd = req[w].cmd /\ Done(req[w], r).attempt = req[w].attempt
      /\ \A v \in Write : req'[v].cmd = req[v].cmd
  BY <1>1, <1>7, <1>8, AnswerIs
<1>10. exec' = [exec EXCEPT ![w][a] = x]
  BY <1>1, <1>3, <1>4, <1>5 DEF Respond, CallsInv, CallsTyped
<1>11. /\ exec' \in [Write -> [Attempt -> Execution]] /\ exec'[w][a] = x
       /\ \A v \in Write, b \in Attempt : ~ (v = w /\ b = a) => exec'[v][b] = exec[v][b]
  <2>1. CallsInv /\ x \in Execution /\ a \in Attempt
    BY <1>1, <1>3, <1>5
  <2>2. exec \in [Write -> [Attempt -> Execution]]
    BY <1>1 DEF CallsInv, CallsTyped
  <2>3. exec' \in [Write -> [Attempt -> Execution]]
    BY <2>1, <2>2, <1>10
  <2>4. exec'[w][a] = x
    BY <2>1, <2>2, <1>10
  <2>5. \A v \in Write, b \in Attempt : ~ (v = w /\ b = a) => exec'[v][b] = exec[v][b]
    BY <2>1, <2>2, <1>10
  <2> QED
    BY <2>3, <2>4, <2>5
<1>12. CallOK(w, req'[w], exec'[w][1], exec'[w][2])
  <2>1. PICK d : d = Done(req[w], r)
    OBVIOUS
  <2>2. d.pc = "done" /\ d.reply = r /\ d.cmd = req[w].cmd /\ d.attempt = a /\ req'[w] = d
    BY <1>3, <1>9, <2>1
  <2>3. CallOK(w, req[w], exec[w][1], exec[w][2])
    BY <1>1 DEF CallsInv
  <2>4. \A b \in Attempt : IF b = a THEN exec'[w][b] = x /\ exec[w][b] = e ELSE exec'[w][b] = exec[w][b]
    BY <1>4, <1>11
  <2>5. ReplyOK(d, exec'[w][1], exec'[w][2])
    BY <1>5, <1>7, <2>2, <2>4, AttemptIs DEF ReplyOK
  <2>6. \A b \in Attempt : \/ exec'[w][b] = exec[w][b]
                           \/ exec'[w][b].pc = exec[w][b].pc /\ exec'[w][b].node = None /\ exec'[w][b].pc \notin {"sent", "apply", "wait"}
    BY <1>5, <1>6, <2>4
  <2>7. 1 \in Attempt /\ 2 \in Attempt
    BY AttemptIs
  <2> QED
    BY <1>3, <2>2, <2>3, <2>5, <2>6, <2>7, AnswerOK
<1>13. CallsInv'
  BY <1>1, <1>2, <1>9, <1>11, <1>12, CallsNext
<1>14. \A v \in Write, b \in Attempt :
         \/ exec'[v][b] = exec[v][b]
         \/ /\ exec'[v][b].pc = exec[v][b].pc /\ exec[v][b].pc \notin {"sent", "apply", "wait"}
            /\ exec'[v][b].index = exec[v][b].index
  BY <1>4, <1>5, <1>6, <1>11
<1>15. WaitInv' /\ LogsOwned'
  BY <1>2, <1>9, <1>14, FuturesKept
<1>16. GivenOnce'
  <2>1. \A v \in Write : req'[v].pc = "rpc" => v # w
    BY <1>9
  <2>2. \A v \in Write : v # w => exec'[v][1].node = exec[v][1].node
    BY <1>11, AttemptIs
  <2> QED
    BY <1>2, <1>9, <1>14, <2>1, <2>2, GivenKept
<1>17. RaftInv' /\ ChosenInv' /\ NoRepeat' /\ ReadsInv'
  BY <1>2, SameRaft, SameChosen, SameLogs, SameReads DEF ServerInv, raftState
<1> QED
  BY <1>13, <1>15, <1>16, <1>17 DEF ServerInv

LEMMA GiveUpInv ==
  ASSUME ServerInv, NEW w \in Write, req[w].pc = "rpc", Answer(w, CallFailedReply(w)), exec' = exec,
         UNCHANGED raftState, chosen' = chosen, read' = read
  PROVE  ServerInv'
<1>1. CallsInv
  BY DEF ServerInv
<1>2. PICK r \in Replies : r = CallFailedReply(w) /\ Plain(r)
  <2>1. CallFailedReply(w) = Reply(503, "forward retry failed") \/ CallFailedReply(w) = Reply(503, "forward failed and leader unchanged")
    BY Zenon DEF CallFailedReply
  <2> QED
    <3>1. Plain(CallFailedReply(w))
      BY <2>1, FailedReplies, Zenon, SMTT(30)
    <3> QED
      BY <3>1 DEF Plain
<1>3. Answer(w, r) /\ ~ Succeeded(r) /\ ~ Unled(r) /\ ~ Refusing(r)
  BY <1>2 DEF Plain
<1>4. /\ req' \in [Write -> Handler] /\ req'[w] = Done(req[w], r) /\ \A v \in Write : v # w => req'[v] = req[v]
      /\ Done(req[w], r).pc = "done" /\ Done(req[w], r).at = None /\ Done(req[w], r).reply = r
      /\ Done(req[w], r).cmd = req[w].cmd /\ Done(req[w], r).attempt = req[w].attempt
      /\ \A v \in Write : req'[v].cmd = req[v].cmd
  BY <1>1, <1>3, AnswerIs
<1>5. CallOK(w, req'[w], exec'[w][1], exec'[w][2])
  <2>1. CallOK(w, req[w], exec[w][1], exec[w][2])
    BY <1>1 DEF CallsInv
  <2>2. ReplyOK(Done(req[w], r), exec[w][1], exec[w][2])
    BY <1>3, <1>4 DEF ReplyOK
  <2> QED
    BY <1>4, <2>1, <2>2, AnswerOK
<1>6. CallsInv'
  BY <1>1, <1>4, <1>5, CallsNext DEF CallsInv, CallsTyped
<1>7. WaitInv' /\ LogsOwned'
  BY <1>4, FuturesKept
<1>8. GivenOnce'
  <2>1. \A v \in Write : req'[v].pc = "rpc" => v # w
    BY <1>4
  <2> QED
    BY <1>4, <2>1, GivenKept
<1>9. RaftInv' /\ ChosenInv' /\ NoRepeat' /\ ReadsInv'
  BY SameRaft, SameChosen, SameLogs, SameReads DEF ServerInv, raftState
<1> QED
  BY <1>6, <1>7, <1>8, <1>9 DEF ServerInv

LEMMA RetryInv ==
  ASSUME ServerInv, NEW w \in Write, NEW target \in RetryTargets(w), req[w].pc = "rpc", req[w].attempt # 2,
         req' = [req EXCEPT ![w].attempt = 2], exec' = [exec EXCEPT ![w][2] = Exec("sent", target)],
         UNCHANGED raftState, chosen' = chosen, read' = read
  PROVE  ServerInv'
<1>1. CallsInv /\ 1 \in Attempt /\ 2 \in Attempt /\ Attempt = {1, 2} /\ None \notin Node
  BY AttemptIs DEF ServerInv
<1>2. req[w].at \in Node /\ exec[w][1].node \in Node /\ req[w].attempt = 1 /\ exec[w][2].pc = "none"
      /\ (req[w].cmd.op = "set" => req[w].cmd.value = w)
      /\ ~ Succeeded(req[w].reply) /\ ~ Unled(req[w].reply) /\ ~ Refusing(req[w].reply)
  BY <1>1, HandlerType DEF HandlerOK, ReplyOK
<1>3. target \in Node /\ target # exec[w][1].node
  <2>1. known[req[w].at] \in Node \union {None}
    BY <1>2 DEF ServerInv, RaftInv, DisksTyped
  <2> QED
    BY <2>1 DEF RetryTargets
<1>4. PICK h \in Handler : req' = [req EXCEPT ![w] = h] /\ h.pc = "rpc" /\ h.cmd = req[w].cmd /\ h.attempt = 2
                           /\ h.at = req[w].at /\ h.reply = req[w].reply
  <2> DEFINE h == [req[w] EXCEPT !.attempt = 2]
  <2>1. h \in Handler /\ h.pc = "rpc" /\ h.cmd = req[w].cmd /\ h.attempt = 2 /\ h.at = req[w].at /\ h.reply = req[w].reply
    BY <1>1, HandlerType DEF Handler
  <2>2. req' = [req EXCEPT ![w] = h]
    BY <1>1 DEF CallsInv, CallsTyped
  <2> HIDE DEF h
  <2> QED
    BY <2>1, <2>2
<1>5. PICK x \in Execution : x = Exec("sent", target) /\ x.pc = "sent" /\ x.node = target
  BY <1>3, ExecMake
<1>6. req' \in [Write -> Handler] /\ req'[w] = h /\ \A v \in Write : v # w => req'[v] = req[v]
  BY <1>1, <1>4, ReqSet
<1>7. /\ exec' \in [Write -> [Attempt -> Execution]] /\ exec'[w][2] = x
      /\ \A v \in Write, b \in Attempt : ~ (v = w /\ b = 2) => exec'[v][b] = exec[v][b]
  <2>1. exec' = [exec EXCEPT ![w][2] = x]
    BY <1>5
  <2> QED
    <3>1. CallsInv /\ x \in Execution /\ 2 \in Attempt
      BY <1>1, <1>5
    <3>2. exec \in [Write -> [Attempt -> Execution]]
      BY <1>1 DEF CallsInv, CallsTyped
    <3>3. exec' \in [Write -> [Attempt -> Execution]]
      BY <2>1, <3>1, <3>2
    <3>4. exec'[w][2] = x
      BY <2>1, <3>1, <3>2
    <3>5. \A v \in Write, b \in Attempt : ~ (v = w /\ b = 2) => exec'[v][b] = exec[v][b]
      BY <2>1, <3>1, <3>2
    <3> QED
      BY <3>3, <3>4, <3>5
<1>8. exec'[w][1] = exec[w][1]
  BY <1>1, <1>7
<1>9. CallOK(w, req'[w], exec'[w][1], exec'[w][2])
  <2>1. ReplyOK(h, exec[w][1], x)
    BY <1>2, <1>4 DEF ReplyOK
  <2>2. HandlerOK(w, h, exec[w][1], x)
    BY <1>1, <1>2, <1>3, <1>4, <1>5 DEF HandlerOK
  <2>3. ExecutionOK(exec[w][1]) /\ ExecutionOK(x)
    BY <1>1, <1>3, <1>5, ExecType DEF ExecutionOK
  <2> QED
    BY <1>6, <1>7, <1>8, <2>1, <2>2, <2>3 DEF CallOK
<1>10. CallsInv'
  BY <1>1, <1>6, <1>7, <1>9, CallsNext
<1>11. \A v \in Write : req'[v].cmd = req[v].cmd
  BY <1>4, <1>6
<1>12. \A v \in Write, a \in Attempt :
         \/ exec'[v][a] = exec[v][a]
         \/ exec'[v][a].pc \notin {"wait", "ok"} /\ exec[v][a].pc \notin Proposed
  BY <1>2, <1>5, <1>7 DEF Proposed
<1>13. WaitInv' /\ LogsOwned'
  BY <1>11, <1>12, FuturesKept
<1>14. GivenOnce'
  <2> SUFFICES ASSUME NEW v \in Write, NEW m \in Node, NEW i \in 1..Len(log[m]), Leads(m), log[m][i].term = term[m],
                      log[m][i].cmd = req[v].cmd, req[v].cmd.op = "set"
               PROVE  /\ \A a \in Attempt : exec'[v][a].node = m => exec'[v][a].pc \notin {"sent", "apply"}
                      /\ req'[v].pc = "rpc" /\ req'[v].attempt = 1 => exec'[v][1].node = m
    BY <1>11 DEF GivenOnce, raftState, Leads
  <2>1. /\ \A a \in Attempt : exec[v][a].node = m => exec[v][a].pc \notin {"sent", "apply"}
        /\ req[v].pc = "rpc" /\ req[v].attempt = 1 => exec[v][1].node = m
    BY DEF ServerInv, GivenOnce
  <2>2. CASE v = w
    BY <1>1, <1>2, <1>3, <1>4, <1>5, <1>6, <1>7, <2>1, <2>2
  <2>3. CASE v # w
    BY <1>1, <1>6, <1>7, <2>1, <2>3
  <2> QED
    BY <2>2, <2>3
<1>15. RaftInv' /\ ChosenInv' /\ NoRepeat' /\ ReadsInv'
  BY SameRaft, SameChosen, SameLogs, SameReads DEF ServerInv, raftState
<1> QED
  BY <1>10, <1>13, <1>14, <1>15 DEF ServerInv

LEMMA CallFailedInv ==
  ASSUME ServerInv, NEW w \in Write, CallFailed(w)
  PROVE  ServerInv'
<1>1. req[w].pc = "rpc" /\ UNCHANGED raftState /\ chosen' = chosen /\ read' = read
  BY DEF CallFailed, raftState
<1>2. CASE req[w].attempt = 2 \/ RetryTargets(w) = {}
  <2>1. Answer(w, CallFailedReply(w)) /\ exec' = exec
    BY <1>2 DEF CallFailed
  <2> QED
    BY <1>1, <2>1, GiveUpInv
<1>3. CASE ~ (req[w].attempt = 2 \/ RetryTargets(w) = {})
  <2>1. PICK target \in RetryTargets(w) :
          /\ req' = [req EXCEPT ![w].attempt = 2]
          /\ exec' = [exec EXCEPT ![w][2] = Exec("sent", target)]
    BY <1>3 DEF CallFailed
  <2> QED
    BY <1>1, <1>3, <2>1, RetryInv
<1> QED
  BY <1>2, <1>3

\* Every quorum has a node with the whole history.
LEMMA ChosenHeld ==
  ASSUME LogsInv, NEW c \in Log, Committed(c, Len(c)), NEW P \in Quorum
  PROVE  \E q \in P : q \in Node /\ Agree(log[q], c, Len(c))
<1>1. PICK Q \in Quorum : \A q \in Q : Agree(log[q], c, Len(c))
  BY DEF Committed
<1> QED
  BY <1>1, QuorumsMeet

LEMMA ChosenOrdered ==
  ASSUME LogsInv, NEW c \in Log, Committed(c, Len(c)), NEW i \in 1..Len(c), NEW j \in 1..Len(c), i <= j
  PROVE  c[i].term <= c[j].term
<1>1. PICK Q \in Quorum : \A q \in Q : Agree(log[q], c, Len(c))
  BY DEF Committed
<1>2. PICK q \in Node : Agree(log[q], c, Len(c))
  BY <1>1, QuorumsMeet
<1>3. Len(c) \in Nat /\ i \in 1..Len(log[q]) /\ j \in 1..Len(log[q]) /\ log[q][i] = c[i] /\ log[q][j] = c[j]
  BY <1>2 DEF Agree, Log
<1> QED
  BY <1>3 DEF LogsInv, LogsOrdered

\* What a read must find, when a quorum has confirmed the leader it asks.
LEMMA NeedHeld ==
  ASSUME RaftInv, ChosenInv, NEW n \in Node, LeaderVerified(n), NEW need \in 1..Len(chosen)
  PROVE  need <= applied[n] \/ chosen[need].term < term[n]
<1>0. LogsInv /\ applied[n] \in Nat
  BY DEF RaftInv, DisksTyped
<1>1. PICK c \in Log : c = chosen /\ c # << >> /\ Committed(c, Len(c))
  BY DEF ChosenInv
<1>2. Len(c) \in Nat \ {0} /\ LastTerm(c) = c[Len(c)].term /\ need \in 1..Len(c)
  BY <1>1, LastTermIs
<1>3. PICK P \in Quorum : \A q \in P : term[q] <= term[n]
  BY DEF LeaderVerified
<1>4. PICK q \in P : q \in Node /\ Agree(log[q], c, Len(c))
  BY <1>0, <1>1, ChosenHeld
<1>5. Len(c) \in 1..Len(log[q]) /\ log[q][Len(c)] = c[Len(c)]
  BY <1>2, <1>4 DEF Agree
<1>6. c[Len(c)].term <= term[q] /\ c[Len(c)].term \in 1..MaxTerm /\ term[q] \in 1..MaxTerm /\ term[n] \in 1..MaxTerm
  BY <1>0, <1>4, <1>5, OrderedLast DEF LogsInv
<1>7. c[need].term <= c[Len(c)].term /\ c[need].term \in 1..MaxTerm
  <2>1. Len(c) \in 1..Len(c) /\ need <= Len(c)
    BY <1>2
  <2> QED
    BY <1>0, <1>1, <1>2, <2>1, ChosenOrdered, EntryType
<1>8. term[q] <= term[n] /\ MaxTerm \in Nat
  BY <1>3, <1>4, RaftAssumption
<1>9. CASE c[need].term < term[n]
  BY <1>1, <1>9
<1>10. CASE ~ c[need].term < term[n]
  <2>1. c[Len(c)].term = term[n]
    BY <1>6, <1>7, <1>8, <1>10
  <2>2. Leads(n)
    BY DEF LeaderVerified, Leads
  <2>3. Len(c) <= applied[n]
    BY <1>1, <1>2, <2>1, <2>2 DEF ChosenInv
  <2>4. applied[n] <= Len(c)
    BY <1>1 DEF ChosenInv
  <2>5. need <= Len(c)
    BY <1>2
  <2> QED
    BY <1>0, <1>2, <2>3, <2>4, <2>5
<1> QED
  BY <1>9, <1>10

\* The writes acknowledged are in the history.
LEMMA AckedHeld ==
  ASSUME CallsInv, WaitInv, NEW w \in Acked
  PROVE  w \in Write /\ AckedIndex(w) \in 1..Len(chosen) /\ chosen[AckedIndex(w)].cmd = req[w].cmd
<1>1. w \in Write /\ Succeeded(req[w].reply)
  BY DEF Acked, Succeeded
<1>2. PICK a \in Attempt : a = req[w].attempt
  BY <1>1, HandlerType
<1>3. exec[w][a].pc = "ok"
  BY <1>1, <1>2, HandlerType, AttemptIs DEF ReplyOK
<1> QED
  BY <1>1, <1>2, <1>3 DEF WaitInv, AckedIndex

LEMMA NeedType ==
  ASSUME CallsInv, WaitInv, Len(chosen) \in Nat
  PROVE  Max({AckedIndex(w) : w \in Acked} \union {0}) \in 0..Len(chosen)
<1> DEFINE S == {AckedIndex(w) : w \in Acked} \union {0}
<1>1. S \in SUBSET Nat /\ S # {} /\ \A y \in S : y <= Len(chosen)
  BY AckedHeld
<1> HIDE DEF S
<1>2. Max(S) \in S
  BY <1>1, Largest
<1>3. PICK m : m = Max(S)
  OBVIOUS
<1>4. m \in Nat /\ m <= Len(chosen)
  BY <1>1, <1>2, <1>3
<1> QED
  BY <1>3, <1>4 DEF S

ReadOK(x) ==
  /\ x.pc = "get" =>
       /\ up[x.at] /\ x.need <= Len(chosen)
       /\ x.need # 0 => x.need <= applied[x.at] \/ chosen[x.need].term < x.term
  /\ x.pc = "done" =>
       /\ x.got <= Len(chosen) /\ x.reply = Replay(Commands(SubSeq(chosen, 1, x.got)))[x.key]
       /\ x.got > 0 /\ chosen[x.got].term >= x.term => x.need <= x.got

LEMMA ReadsAre == ReadsInv <=> \A r \in Reader : ReadOK(read[r])
  BY DEF ReadsInv, ReadOK, Established

LEMMA ReadsAreNext == UNCHANGED <<up, applied, chosen>> => (ReadsInv' <=> \A r \in Reader : ReadOK(read'[r]))
  BY DEF ReadsInv, ReadOK, Established

\* A read request that goes on leaves everything else.
LEMMA ReadMoves ==
  ASSUME ServerInv, NEW r \in Reader, NEW x \in Reading, x.pc \in {"get", "done"} => x.at \in Node /\ x.key \in Key,
         ReadOK(x), read' = [read EXCEPT ![r] = x], UNCHANGED raftState, req' = req, exec' = exec, chosen' = chosen
  PROVE  ServerInv'
<1>1. read \in [Reader -> Reading]
  BY DEF ServerInv, CallsInv, CallsTyped
<1>2. read' \in [Reader -> Reading] /\ read'[r] = x /\ \A s \in Reader : s # r => read'[s] = read[s]
  BY <1>1
<1>3. CallsInv'
  BY <1>2 DEF ServerInv, CallsInv, CallsTyped
<1>4. ReadsInv'
  <2>1. \A s \in Reader : ReadOK(read[s])
    BY ReadsAre DEF ServerInv
  <2>2. \A s \in Reader : ReadOK(read'[s])
    BY <1>2, <2>1
  <2> QED
    BY <2>2, ReadsAreNext DEF raftState
<1>5. WaitInv' /\ LogsOwned' /\ GivenOnce'
  BY DEF ServerInv, WaitInv, LogsOwned, GivenOnce, raftState, Leads
<1>6. RaftInv' /\ ChosenInv' /\ NoRepeat'
  BY SameRaft, SameChosen, SameLogs DEF ServerInv, raftState
<1> QED
  BY <1>3, <1>4, <1>5, <1>6 DEF ServerInv

LEMMA IdleRead == \A pc \in {"new", "failed"} : Idle(pc) \in Reading /\ Idle(pc).pc = pc
  BY DEF Idle, Reading

LEMMA VerifyReadInv ==
  ASSUME ServerInv, NEW r \in Reader, NEW n \in Node, NEW k \in Key, VerifyRead(r, n, k)
  PROVE  ServerInv'
<1>1. UNCHANGED raftState /\ req' = req /\ exec' = exec /\ chosen' = chosen
  BY DEF VerifyRead, raftVars, raftState
<1>2. read \in [Reader -> Reading]
  BY DEF ServerInv, CallsInv, CallsTyped
<1>3. CASE LeaderVerified(n)
  <2>1. PICK need : need = Max({AckedIndex(w) : w \in Acked} \union {0})
    OBVIOUS
  <2>2. Len(chosen) \in Nat
    BY DEF ServerInv, ChosenInv, Log
  <2>3. need \in 0..Len(chosen)
    BY <2>1, <2>2, NeedType DEF ServerInv
  <2>4. term[n] \in Nat /\ up[n]
    <3>1. term[n] \in 1..MaxTerm
      BY DEF ServerInv, RaftInv, LogsInv, LogsTyped
    <3> QED
      BY <3>1 DEF VerifyRead
  <2>5. PICK old \in Reading : old = read[r]
    BY <1>2
  <2>t. PICK t \in Nat : t = term[n] /\ need \in Nat
    BY <2>2, <2>3, <2>4
  <2> DEFINE y == [old EXCEPT !.pc = "get", !.at = n, !.key = k, !.term = t, !.need = need]
  <2>6. y \in Reading /\ y.pc = "get" /\ y.at = n /\ y.key = k /\ y.term = t /\ y.need = need
    BY <2>3, <2>5, <2>t DEF Reading
  <2>7. read' = [read EXCEPT ![r] = y]
    BY <1>3, <2>1, <2>5, <2>t DEF VerifyRead
  <2> HIDE DEF y
  <2>8. need # 0 => need <= applied[n] \/ chosen[need].term < term[n]
    <3>1. need # 0 => need \in 1..Len(chosen)
      BY <2>2, <2>3
    <3> QED
      BY <1>3, <3>1, NeedHeld DEF ServerInv
  <2>9. ReadOK(y)
    BY <2>2, <2>3, <2>4, <2>6, <2>8, <2>t DEF ReadOK
  <2> QED
    BY <1>1, <2>6, <2>7, <2>9, ReadMoves
<1>4. CASE ~ LeaderVerified(n)
  <2>1. read' = [read EXCEPT ![r] = Idle("failed")]
    BY <1>4 DEF VerifyRead
  <2>2. PICK y \in Reading : y = Idle("failed") /\ y.pc = "failed"
    BY IdleRead
  <2>3. ReadOK(y)
    BY <2>2 DEF ReadOK
  <2> QED
    BY <1>1, <2>1, <2>2, <2>3, ReadMoves
<1> QED
  BY <1>3, <1>4

LEMMA GetLocalInv ==
  ASSUME ServerInv, NEW r \in Reader, GetLocal(r)
  PROVE  ServerInv'
<1>1. UNCHANGED raftState /\ req' = req /\ exec' = exec /\ chosen' = chosen /\ RaftInv /\ ChosenInv
  BY DEF GetLocal, raftVars, raftState, ServerInv
<1>2. PICK old \in Reading : old = read[r]
  BY DEF ServerInv, CallsInv, CallsTyped
<1>3. old.pc = "get" /\ old.at \in Node /\ old.key \in Key
  BY <1>2 DEF GetLocal, ServerInv, CallsInv, CallsTyped
<1>4. PICK n \in Node : n = old.at
  BY <1>3
<1>5. PICK i \in Nat : i = applied[n]
  BY <1>1 DEF RaftInv, DisksTyped
<1>6. PICK d \in Stores : d = data[n] /\ Reached(n, i, d)
  BY <1>1, <1>5 DEF RaftInv, DisksTyped, StoresReached
<1>7. PICK c \in Log : c = chosen /\ c # << >> /\ Committed(c, Len(c)) /\ i <= Len(c)
  BY <1>1, <1>5 DEF ChosenInv
<1>8. d = Replay(Commands(SubSeq(c, 1, i)))
  BY <1>1, <1>5, <1>6, <1>7, ReachedChosen DEF RaftInv
<1> DEFINE y == [old EXCEPT !.pc = "done", !.got = i, !.reply = d[old.key]]
<1>9. d[old.key] \in Value \union {Absent}
  BY <1>3, <1>6 DEF Stores
<1>10. y \in Reading /\ y.pc = "done" /\ y.got = i /\ y.reply = d[old.key] /\ y.at = old.at /\ y.key = old.key
       /\ y.term = old.term /\ y.need = old.need
  BY <1>2, <1>5, <1>9 DEF Reading
<1>11. read' = [read EXCEPT ![r] = y]
  BY <1>2, <1>4, <1>5, <1>6 DEF GetLocal, Get, ServerInv, CallsInv, CallsTyped
<1> HIDE DEF y
<1>12. PICK need \in Nat, t \in Nat : need = old.need /\ t = old.term
  BY <1>2 DEF Reading
<1>13. need <= Len(c) /\ (need # 0 => need <= i \/ c[need].term < t)
  BY <1>2, <1>3, <1>4, <1>5, <1>7, <1>12 DEF ServerInv, ReadsInv
<1>14. i > 0 /\ c[i].term >= t => need <= i
  <2> SUFFICES ASSUME i > 0, c[i].term >= t, need > i PROVE FALSE
    BY <1>5, <1>12
  <2>1. i \in 1..Len(c) /\ need \in 1..Len(c) /\ i <= need /\ c[need].term < t
    BY <1>5, <1>7, <1>12, <1>13 DEF Log
  <2>2. c[i].term <= c[need].term
    BY <1>1, <1>7, <2>1, ChosenOrdered DEF RaftInv
  <2>3. c[i].term \in Nat /\ c[need].term \in Nat
    <3>1. c[i].term \in 1..MaxTerm /\ c[need].term \in 1..MaxTerm
      BY <1>7, <2>1, EntryType
    <3> QED
      BY <3>1
  <2> QED
    BY <1>12, <2>1, <2>2, <2>3
<1>15. ReadOK(y)
  BY <1>7, <1>8, <1>10, <1>12, <1>14 DEF ReadOK
<1> QED
  BY <1>1, <1>3, <1>10, <1>11, <1>15, ReadMoves

LEMMA CommandType == CallsInv => \A w \in Write : req[w].cmd \in Command \union {Noop}
  BY HandlerType

LEMMA ProposeChosen ==
  ASSUME ChosenInv, Keeps, UNCHANGED <<role, term, applied, clone, snap, chosen>>
  PROVE  ChosenInv'
<1>1. PICK c \in Log : c = chosen /\ c # << >> /\ Committed(c, Len(c))
  BY DEF ChosenInv
<1>2. PICK k \in Nat : k = Len(c)
  BY DEF Log
<1>3. Committed(c, k)'
  BY <1>1, <1>2 DEF Keeps, Stable
<1>4. Committed(chosen, Len(chosen))'
  BY <1>1, <1>2, <1>3
<1> QED
  BY <1>1, <1>4 DEF ChosenInv, Leads

LEMMA ProposeInv ==
  ASSUME ServerInv, NEW w \in Write, NEW i \in Attempt, Propose(w, i)
  PROVE  ServerInv'
<1>1. RaftInv /\ ChosenInv /\ CallsInv /\ exec[w][i].pc = "apply" /\ req' = req /\ read' = read /\ chosen' = chosen
  BY DEF ServerInv, Propose
<1>2. PICK n \in Node : n = exec[w][i].node
  BY <1>1, ExecType DEF ExecutionOK
<1>3. AppendCommand(n, req[w].cmd)
  BY <1>2 DEF Propose
<1>4. PICK cmd \in Command \union {Noop} : cmd = req[w].cmd
  BY <1>1, CommandType
<1>5. RaftInv' /\ Keeps
  BY <1>1, <1>3, <1>4, AppendCommandInv
<1>6. UNCHANGED <<up, role, term, known, match, applied, data, clone, snap>> /\ up[n] /\ Leads(n)
  BY <1>3 DEF AppendCommand, Leads
<1>7. PICK b \in Log : b = log[n]
  BY <1>1 DEF RaftInv, LogsInv, LogsTyped
<1>8. PICK e \in LogEntry : e = Entry(term[n], cmd) /\ e.term = term[n] /\ e.cmd = cmd
  <2>1. PICK t \in 1..MaxTerm : t = term[n]
    BY <1>1 DEF RaftInv, LogsInv, LogsTyped
  <2>2. Entry(t, cmd) \in LogEntry /\ Entry(t, cmd).term = t /\ Entry(t, cmd).cmd = cmd
    BY <1>4, <2>1 DEF Entry, LogEntry
  <2> QED
    BY <2>1, <2>2
<1>9. PICK k \in Nat : k = Len(b)
  BY <1>7 DEF Log
<1>10. /\ Len(log'[n]) = k + 1 /\ log'[n][k + 1] = e /\ \A j \in 1..k : log'[n][j] = b[j]
       /\ \A m \in Node : m # n => log'[m] = log[m]
  <2>1. log' = [log EXCEPT ![n] = Append(b, e)]
    BY <1>3, <1>4, <1>7, <1>8 DEF AppendCommand
  <2>2. log \in [Node -> Log]
    BY <1>1 DEF RaftInv, LogsInv, LogsTyped
  <2>3. log'[n] = Append(b, e) /\ \A m \in Node : m # n => log'[m] = log[m]
    BY <2>1, <2>2
  <2>4. /\ Append(b, e) \in Log /\ Len(Append(b, e)) = Len(b) + 1 /\ Append(b, e)[Len(b) + 1] = e
        /\ \A j \in 1..Len(b) : Append(b, e)[j] = b[j]
    BY <1>7, <1>8, Appended
  <2> QED
    BY <1>9, <2>3, <2>4
<1>11. PICK old \in Execution : old = exec[w][i] /\ old.pc = "apply" /\ old.node = n
  BY <1>1, <1>2, ExecType
<1>l. PICK next \in Nat : next = k + 1
  BY <1>9
<1>12. PICK fut \in Execution : fut = [old EXCEPT !.pc = "wait", !.index = next] /\ fut.pc = "wait" /\ fut.index = next /\ fut.node = n
  <2>1. [old EXCEPT !.pc = "wait", !.index = next] \in Execution
        /\ [old EXCEPT !.pc = "wait", !.index = next].pc = "wait"
        /\ [old EXCEPT !.pc = "wait", !.index = next].index = next
        /\ [old EXCEPT !.pc = "wait", !.index = next].node = n
    BY <1>11, <1>l DEF Execution
  <2> QED
    BY <2>1
<1>13. exec' = [exec EXCEPT ![w][i] = fut]
  <2>1. exec' = [exec EXCEPT ![w][i].pc = "wait", ![w][i].index = k + 1]
    BY <1>2, <1>7, <1>9 DEF Propose
  <2>2. exec \in [Write -> [Attempt -> Execution]]
    BY <1>1 DEF CallsInv, CallsTyped
  <2> QED
    BY <1>11, <1>12, <1>l, <2>1, <2>2
<1>14. Moves(exec[w][i], fut)
  BY <1>2, <1>11, <1>12 DEF Moves
<1>15. CallsInv' /\ exec'[w][i] = fut /\ \A v \in Write, a \in Attempt : ~ (v = w /\ a = i) => exec'[v][a] = exec[v][a]
  <2>1. fut \in Execution
    BY <1>12
  <2> QED
    BY <1>1, <1>13, <1>14, <2>1, OneMoves
<1>16. ChosenInv'
  BY <1>1, <1>5, <1>6, ProposeChosen
\* What the logs were they still are, but for the new entry.
<1>17. \A m \in Node : \A j \in 1..Len(log'[m]) :
         \/ j \in 1..Len(log[m]) /\ log'[m][j] = log[m][j]
         \/ m = n /\ j = k + 1 /\ log'[m][j] = e
  BY <1>7, <1>9, <1>10
<1>18. \A m \in Node : \A j \in 1..Len(log[m]) : j \in 1..Len(log'[m]) /\ log'[m][j] = log[m][j]
  BY <1>7, <1>9, <1>10
<1>19. WaitInv'
  <2> SUFFICES ASSUME NEW v \in Write, NEW a \in Attempt
               PROVE  /\ exec'[v][a].pc = "wait" =>
                           /\ Leads(exec'[v][a].node) /\ exec'[v][a].index \in 1..Len(log'[exec'[v][a].node])
                           /\ log'[exec'[v][a].node][exec'[v][a].index].cmd = req[v].cmd
                      /\ exec'[v][a].pc = "ok" =>
                           exec'[v][a].index \in 1..Len(chosen) /\ chosen[exec'[v][a].index].cmd = req[v].cmd
    BY <1>1, <1>6 DEF WaitInv, Leads
  <2>1. CASE v = w /\ a = i
    <3>1. exec'[v][a] = fut /\ fut.node = n /\ fut.index = k + 1 /\ fut.pc = "wait"
      BY <1>12, <1>15, <1>l, <2>1
    <3>2. k + 1 \in 1..Len(log'[n]) /\ log'[n][k + 1].cmd = req[v].cmd
      BY <1>4, <1>8, <1>9, <1>10, <2>1
    <3> QED
      BY <1>6, <3>1, <3>2
  <2>2. CASE ~ (v = w /\ a = i)
    <3>1. PICK f \in Execution : f = exec[v][a] /\ f = exec'[v][a] /\ ExecutionOK(f)
      BY <1>1, <1>15, <2>2, ExecType
    <3>2. /\ f.pc = "wait" => /\ Leads(f.node) /\ f.index \in 1..Len(log[f.node]) /\ f.node \in Node
                              /\ log[f.node][f.index].cmd = req[v].cmd
          /\ f.pc = "ok" => f.index \in 1..Len(chosen) /\ chosen[f.index].cmd = req[v].cmd
      BY <3>1 DEF ServerInv, WaitInv, ExecutionOK
    <3> QED
      BY <1>18, <3>1, <3>2
  <2> QED
    BY <2>1, <2>2
<1>20. LogsOwned'
  <2> SUFFICES ASSUME NEW m \in Node, NEW j \in 1..Len(log'[m]), log'[m][j].cmd.op = "set"
               PROVE  \E v \in Write : log'[m][j].cmd = req[v].cmd /\ \E a \in Attempt : exec'[v][a].pc \in Proposed
    BY <1>1 DEF LogsOwned
  <2>1. CASE j \in 1..Len(log[m]) /\ log'[m][j] = log[m][j]
    <3>1. PICK v \in Write : log[m][j].cmd = req[v].cmd /\ \E a \in Attempt : exec[v][a].pc \in Proposed
      BY <2>1 DEF ServerInv, LogsOwned
    <3>2. \A a \in Attempt : exec[v][a].pc \in Proposed => exec'[v][a].pc \in Proposed
      BY <1>11, <1>15 DEF Proposed
    <3> QED
      BY <2>1, <3>1, <3>2
  <2>2. CASE log'[m][j] = e
    <3>1. log'[m][j].cmd = req[w].cmd
      BY <1>4, <1>8, <2>2
    <3>2. exec'[w][i].pc \in Proposed
      BY <1>12, <1>15 DEF Proposed
    <3> QED
      BY <1>4, <3>1, <3>2
  <2> QED
    BY <1>17, <2>1, <2>2
<1>21. \A v \in Write : req[v].cmd.op = "set" /\ req[v].cmd = cmd => v = w
  <2>1. \A v \in Write : req[v].cmd.op = "set" => req[v].cmd.value = v
    BY <1>1, HandlerType DEF HandlerOK
  <2> QED
    BY <1>4, <2>1
<1>22. GivenOnce'
  <2> SUFFICES ASSUME NEW v \in Write, NEW m \in Node, NEW j \in 1..Len(log'[m]), Leads(m), log'[m][j].term = term[m],
                      log'[m][j].cmd = req[v].cmd, req[v].cmd.op = "set"
               PROVE  /\ \A a \in Attempt : exec'[v][a].node = m => exec'[v][a].pc \notin {"sent", "apply"}
                      /\ req[v].pc = "rpc" /\ req[v].attempt = 1 => exec'[v][1].node = m
    BY <1>1, <1>6 DEF GivenOnce, Leads
  <2>1. \A a \in Attempt : exec'[v][a].node = exec[v][a].node
                           /\ (exec'[v][a].pc \in {"sent", "apply"} => exec[v][a].pc \in {"sent", "apply"})
    BY <1>11, <1>12, <1>15
  <2>2. CASE j \in 1..Len(log[m]) /\ log'[m][j] = log[m][j]
    <3>1. /\ \A a \in Attempt : exec[v][a].node = m => exec[v][a].pc \notin {"sent", "apply"}
          /\ req[v].pc = "rpc" /\ req[v].attempt = 1 => exec[v][1].node = m
      BY <2>2 DEF ServerInv, GivenOnce
    <3> QED
      BY <2>1, <3>1, AttemptIs
  <2>3. CASE m = n /\ log'[m][j] = e
    <3>1. v = w
      BY <1>8, <1>21, <2>3
    <3>2. HandlerOK(w, req[w], exec[w][1], exec[w][2]) /\ ExecutionOK(exec[w][1]) /\ ExecutionOK(exec[w][2])
      BY <1>1, HandlerType, ExecType, AttemptIs
    <3>3. \A a \in Attempt : a # i => exec[w][a].node # n
      <4>1. n # None
        BY AttemptIs
      <4>2. CASE i = 1
        BY <1>11, <3>2, <4>1, <4>2, AttemptIs DEF HandlerOK, ExecutionOK
      <4>3. CASE i = 2
        BY <1>11, <3>2, <4>1, <4>3, AttemptIs DEF HandlerOK, ExecutionOK
      <4> QED
        BY <4>2, <4>3, AttemptIs
    <3>4. req[w].attempt = 1 => exec[w][1].node = n
      BY <1>11, <3>2, AttemptIs DEF HandlerOK
    <3>5. exec'[w][i].pc = "wait"
      BY <1>12, <1>15
    <3> QED
      BY <2>1, <2>3, <3>1, <3>3, <3>4, <3>5, AttemptIs
  <2> QED
    BY <1>17, <2>2, <2>3
<1>23. NoRepeat'
  <2>1. \A j \in 1..Len(log[n]) : log[n][j].cmd.op = "set" /\ log[n][j].cmd = cmd => log[n][j].term # term[n]
    <3>1. \A j \in 1..Len(log[n]) : log[n][j].term = term[n] /\ log[n][j].cmd = req[w].cmd /\ req[w].cmd.op = "set" =>
             (exec[w][i].node = n => exec[w][i].pc \notin {"sent", "apply"})
      BY <1>6 DEF ServerInv, GivenOnce
    <3> QED
      BY <1>4, <1>11, <3>1
  <2> SUFFICES ASSUME NEW m \in Node, NEW p \in 1..Len(log'[m]), NEW q \in 1..Len(log'[m]), p # q,
                      log'[m][p].cmd.op = "set", log'[m][p].cmd = log'[m][q].cmd
               PROVE  log'[m][p].term # log'[m][q].term
    BY DEF NoRepeat
  <2>2. CASE p \in 1..Len(log[m]) /\ log'[m][p] = log[m][p] /\ q \in 1..Len(log[m]) /\ log'[m][q] = log[m][q]
    BY <2>2 DEF ServerInv, NoRepeat
  <2>3. CASE m = n /\ p = k + 1 /\ log'[m][p] = e /\ q \in 1..Len(log[m]) /\ log'[m][q] = log[m][q]
    BY <1>8, <2>1, <2>3
  <2>4. CASE m = n /\ q = k + 1 /\ log'[m][q] = e /\ p \in 1..Len(log[m]) /\ log'[m][p] = log[m][p]
    BY <1>8, <2>1, <2>4
  <2> QED
    BY <1>17, <2>2, <2>3, <2>4
<1>24. ReadsInv'
  BY <1>1, <1>6, SameReads DEF ServerInv
<1> QED
  BY <1>5, <1>15, <1>16, <1>19, <1>20, <1>22, <1>23, <1>24 DEF ServerInv

StepsDown(n) == role[n] = "leader" /\ role'[n] # "leader"

\* What a step of the cluster makes of an execution.
ResolvesTo(e, x) ==
  /\ x \in Execution /\ Moves(e, x)
  /\ x.pc = "wait" => x = e /\ ~ StepsDown(e.node)
  /\ x.pc = "ok" => \/ x = e
                    \/ e.pc = "wait" /\ applied'[e.node] >= e.index /\ x.index = e.index /\ ~ StepsDown(e.node)
  /\ e.pc \in Proposed => x.pc \in Proposed
  /\ x.pc \in {"sent", "apply"} => x = e

LEMMA ResolvedIs ==
  ASSUME NEW e \in Execution, ExecutionOK(e)
  PROVE  ResolvesTo(e, Resolved(e))
<1> DEFINE Dies == e.node # None /\ up[e.node] /\ ~ up'[e.node]
           Fails == e.pc = "wait" /\ role[e.node] = "leader" /\ role'[e.node] # "leader"
           Succeeds == e.pc = "wait" /\ applied'[e.node] >= e.index
<1>1. CASE Dies
  <2>1. Resolved(e) = [e EXCEPT !.pc = "dead", !.index = 0]
    BY <1>1 DEF Resolved
  <2>2. PICK x : x = [e EXCEPT !.pc = "dead", !.index = 0] /\ x \in Execution /\ x.pc = "dead" /\ x.node = e.node
    <3>1. [e EXCEPT !.pc = "dead", !.index = 0] \in Execution /\ [e EXCEPT !.pc = "dead", !.index = 0].pc = "dead" /\ [e EXCEPT !.pc = "dead", !.index = 0].node = e.node
      BY DEF Execution
    <3> QED
      BY <3>1
  <2>3. x \in Execution /\ x.pc = "dead" /\ x.node = e.node
    BY <2>2
  <2>4. Moves(e, x)
    BY <1>1, <2>3 DEF Moves, ExecutionOK
  <2>5. ResolvesTo(e, x)
    BY <2>3, <2>4 DEF ResolvesTo, Proposed
  <2> QED
    BY <2>1, <2>2, <2>5
<1>2. CASE ~ Dies /\ Fails
  <2>1. Resolved(e) = [e EXCEPT !.pc = "error"]
    BY <1>2 DEF Resolved
  <2>2. PICK x : x = [e EXCEPT !.pc = "error"] /\ x \in Execution /\ x.pc = "error" /\ x.node = e.node
    <3>1. [e EXCEPT !.pc = "error"] \in Execution /\ [e EXCEPT !.pc = "error"].pc = "error" /\ [e EXCEPT !.pc = "error"].node = e.node
      BY DEF Execution
    <3> QED
      BY <3>1
  <2>3. x \in Execution /\ x.pc = "error" /\ x.node = e.node
    BY <2>2
  <2>4. Moves(e, x)
    BY <1>2, <2>3 DEF Moves
  <2>5. ResolvesTo(e, x)
    BY <2>3, <2>4 DEF ResolvesTo, Proposed
  <2> QED
    BY <2>1, <2>2, <2>5
<1>3. CASE ~ Dies /\ ~ Fails /\ Succeeds
  <2>1. Resolved(e) = [e EXCEPT !.pc = "ok"]
    BY <1>3 DEF Resolved
  <2>2. PICK x : x = [e EXCEPT !.pc = "ok"] /\ x \in Execution /\ x.pc = "ok" /\ x.node = e.node /\ x.index = e.index
    <3>1. [e EXCEPT !.pc = "ok"] \in Execution /\ [e EXCEPT !.pc = "ok"].pc = "ok" /\ [e EXCEPT !.pc = "ok"].node = e.node
          /\ [e EXCEPT !.pc = "ok"].index = e.index
      BY DEF Execution
    <3> QED
      BY <3>1
  <2>3. x \in Execution /\ x.pc = "ok" /\ x.node = e.node /\ x.index = e.index
    BY <2>2
  <2>4. Moves(e, x)
    BY <1>3, <2>3 DEF Moves
  <2>5. ResolvesTo(e, x)
    BY <1>3, <2>3, <2>4 DEF ResolvesTo, Proposed, StepsDown
  <2> QED
    BY <2>1, <2>2, <2>5
<1>4. CASE ~ Dies /\ ~ Fails /\ ~ Succeeds
  <2>1. Resolved(e) = e
    BY <1>4 DEF Resolved
  <2>2. Moves(e, e)
    BY DEF Moves
  <2>3. ResolvesTo(e, e)
    BY <1>4, <2>2 DEF ResolvesTo, StepsDown
  <2> QED
    BY <2>1, <2>3
<1> QED
  BY <1>1, <1>2, <1>3, <1>4

\* What a step of the cluster does to the requests.
HandlerStays(w) == \/ req'[w] = req[w]
                   \/ req'[w] = Done(req[w], Reply(0, "connection lost"))

ReadStays(r) == \/ read'[r] = read[r] /\ (read[r].pc = "get" => up'[read[r].at])
                \/ read'[r] = Idle("failed")

LEMMA ClusterCalls ==
  ASSUME CallsInv, Cluster
  PROVE  /\ \A w \in Write : HandlerStays(w)
         /\ \A w \in Write, a \in Attempt : ResolvesTo(exec[w][a], exec'[w][a])
         /\ \A r \in Reader : ReadStays(r)
         /\ CallsInv'
<1>1. \A w \in Write : HandlerStays(w)
  BY DEF Cluster, HandlerStays
<1>2. \A w \in Write, a \in Attempt : exec'[w][a] = Resolved(exec[w][a])
  BY DEF Cluster
<1>3. \A w \in Write, a \in Attempt : ResolvesTo(exec[w][a], exec'[w][a])
  BY <1>2, ExecType, ResolvedIs
<1>4. \A r \in Reader : ReadStays(r)
  <2>1. \A r \in Reader : read'[r] = IF read[r].pc = "get" /\ ~ up'[read[r].at] THEN Idle("failed") ELSE read[r]
    BY DEF Cluster
  <2> QED
    BY <2>1 DEF ReadStays
<1>5. exec' \in [Write -> [Attempt -> Execution]]
  <2>1. exec' = [w \in Write |-> [a \in Attempt |-> Resolved(exec[w][a])]]
    BY DEF Cluster
  <2>2. \A w \in Write, a \in Attempt : Resolved(exec[w][a]) \in Execution
    BY <1>2, <1>3 DEF ResolvesTo
  <2> QED
    BY <2>1, <2>2
<1>6. PICK lost \in Replies : lost = Reply(0, "connection lost") /\ Plain(lost)
  BY FailedReplies, ZenonT(30) DEF Plain
<1>7. \A w \in Write : req'[w] = req[w] \/ req'[w] = Done(req[w], lost)
  BY <1>1, <1>6 DEF HandlerStays
<1>8. lost \in Replies /\ ~ Succeeded(lost) /\ ~ Unled(lost) /\ ~ Refusing(lost)
  BY <1>6 DEF Plain
<1>9. \A w \in Write : /\ Done(req[w], lost) \in Handler /\ Done(req[w], lost).pc = "done" /\ Done(req[w], lost).reply = lost
                       /\ Done(req[w], lost).cmd = req[w].cmd /\ Done(req[w], lost).attempt = req[w].attempt
  BY <1>8, HandlerType, DoneMake
<1>10. req' \in [Write -> Handler]
  <2>1. DOMAIN req' = Write /\ req' = [w \in Write |-> req'[w]]
    BY DEF Cluster
  <2>2. \A w \in Write : req'[w] \in Handler
    BY <1>7, <1>9, HandlerType
  <2> QED
    BY <2>1, <2>2
<1>11. ASSUME NEW w \in Write PROVE CallOK(w, req'[w], exec'[w][1], exec'[w][2])
  <2>1. CallOK(w, req[w], exec'[w][1], exec'[w][2])
    <3>1. CallOK(w, req[w], exec[w][1], exec[w][2]) /\ 1 \in Attempt /\ 2 \in Attempt
      BY AttemptIs DEF CallsInv
    <3>2. Moves(exec[w][1], exec'[w][1]) /\ Moves(exec[w][2], exec'[w][2])
      BY <1>3, <3>1 DEF ResolvesTo
    <3> QED
      BY <3>1, <3>2, MovesOK
  <2>2. CallOK(w, Done(req[w], lost), exec'[w][1], exec'[w][2])
    <3>1. ReplyOK(Done(req[w], lost), exec'[w][1], exec'[w][2])
      BY <1>8, <1>9 DEF ReplyOK
    <3> QED
      BY <1>9, <2>1, <3>1, AnswerOK
  <2> QED
    BY <1>7, <2>1, <2>2
<1>12. read' \in [Reader -> Reading]
  <2>1. DOMAIN read' = Reader /\ read' = [r \in Reader |-> read'[r]]
    BY DEF Cluster
  <2>2. \A r \in Reader : read'[r] \in Reading
    BY <1>4, IdleRead DEF ReadStays, CallsInv, CallsTyped
  <2> QED
    BY <2>1, <2>2
<1>13. CallsTyped'
  <2>1. \A r \in Reader : read'[r].pc \in {"get", "done"} => read'[r].at \in Node /\ read'[r].key \in Key
    BY <1>4, IdleRead DEF ReadStays, CallsInv, CallsTyped
  <2> QED
    BY <1>5, <1>10, <1>12, <2>1 DEF CallsTyped
<1> QED
  BY <1>1, <1>3, <1>4, <1>11, <1>13 DEF CallsInv

\* In the next state, what a node has reached is the beginning of the history.
LEMMA AppliedChosen ==
  ASSUME RaftInv', ChosenInv', NEW n \in Node, NEW i \in 1..applied'[n]
  PROVE  i \in 1..Len(chosen') /\ chosen'[i] = log'[n][i]
<1>1. PICK k \in Nat : k = applied'[n]
  BY DEF RaftInv, DisksTyped
<1>2. PICK c \in Log : c = chosen' /\ Committed(c, Len(c))' /\ k <= Len(c)
  BY <1>1 DEF ChosenInv, Committed
<1>3. PICK b \in Log : b = log'[n]
  BY DEF RaftInv, LogsInv, LogsTyped
<1>4. k # 0 /\ Committed(b, k)'
  BY <1>1, <1>3 DEF RaftInv, StoresReached, Reached
<1>5. Len(c) \in Nat
  BY DEF Log
<1>6. Agree(b, c, k)
  BY <1>1, <1>2, <1>3, <1>4, <1>5, CommittedCompareNext DEF RaftInv
<1> QED
  BY <1>1, <1>2, <1>3, <1>5, <1>6 DEF Agree

LEMMA ClusterWaits ==
  ASSUME ServerInv, RaftInv', ChosenInv', StepLogs, Agree(chosen, chosen', Len(chosen)),
         \A w \in Write : req'[w].cmd = req[w].cmd,
         \A w \in Write, a \in Attempt : ResolvesTo(exec[w][a], exec'[w][a])
  PROVE  WaitInv'
<1> SUFFICES ASSUME NEW w \in Write, NEW a \in Attempt
             PROVE  /\ exec'[w][a].pc = "wait" =>
                         /\ role'[exec'[w][a].node] = "leader" /\ exec'[w][a].index \in 1..Len(log'[exec'[w][a].node])
                         /\ log'[exec'[w][a].node][exec'[w][a].index].cmd = req'[w].cmd
                    /\ exec'[w][a].pc = "ok" =>
                         exec'[w][a].index \in 1..Len(chosen') /\ chosen'[exec'[w][a].index].cmd = req'[w].cmd
  BY DEF WaitInv, Leads
<1>1. PICK e \in Execution : e = exec[w][a] /\ ExecutionOK(e) /\ e.index \in Nat
  BY ExecType DEF ServerInv
<1>2. PICK x \in Execution : x = exec'[w][a] /\ ResolvesTo(e, x)
  BY <1>1 DEF ResolvesTo
<1>3. e.pc = "wait" => /\ Leads(e.node) /\ e.node \in Node /\ e.index \in 1..Len(log[e.node])
                       /\ log[e.node][e.index].cmd = req[w].cmd
  BY <1>1 DEF ServerInv, WaitInv, ExecutionOK
<1>4. e.pc = "ok" => e.index \in 1..Len(chosen) /\ chosen[e.index].cmd = req[w].cmd
  BY <1>1 DEF ServerInv, WaitInv
<1>5. e.pc = "wait" /\ ~ StepsDown(e.node) => /\ role'[e.node] = "leader" /\ e.index \in 1..Len(log'[e.node])
                                              /\ log'[e.node][e.index].cmd = req[w].cmd
  BY <1>3 DEF StepLogs, LeaderStays, StepsDown, Leads
<1>6. CASE x.pc = "wait"
  <2>1. x = e /\ e.pc = "wait" /\ ~ StepsDown(e.node)
    BY <1>2, <1>6 DEF ResolvesTo
  <2> QED
    BY <1>2, <1>5, <1>6, <2>1 DEF Leads
<1>7. CASE x.pc = "ok" /\ x = e
  <2>1. e.index \in 1..Len(chosen) /\ chosen[e.index].cmd = req[w].cmd
    BY <1>4, <1>7
  <2>2. e.index \in 1..Len(chosen') /\ chosen'[e.index] = chosen[e.index]
    <3>1. Len(chosen) \in Nat /\ Len(chosen') \in Nat
      BY DEF ServerInv, ChosenInv, Log
    <3> QED
      BY <2>1, <3>1 DEF Agree
  <2> QED
    BY <1>2, <1>7, <2>1, <2>2
<1>8. CASE x.pc = "ok" /\ x # e
  <2>1. e.pc = "wait" /\ applied'[e.node] >= e.index /\ x.index = e.index /\ ~ StepsDown(e.node)
    BY <1>2, <1>8 DEF ResolvesTo
  <2>2. PICK n \in Node : n = e.node
    BY <1>3, <2>1
  <2>3. e.index \in 1..Len(log'[n]) /\ log'[n][e.index].cmd = req[w].cmd
    BY <1>5, <2>1, <2>2
  <2>4. PICK i \in Nat : i = e.index /\ i >= 1 /\ applied'[n] >= i
    BY <1>1, <2>1, <2>2, <2>3
  <2>5. i \in 1..applied'[n]
    <3>1. applied'[n] \in Nat
      BY DEF RaftInv, DisksTyped
    <3> QED
      BY <2>4, <3>1
  <2>6. i \in 1..Len(chosen') /\ chosen'[i] = log'[n][i]
    BY <2>5, AppliedChosen
  <2> QED
    BY <1>2, <1>8, <2>1, <2>3, <2>4, <2>6
<1> QED
  BY <1>2, <1>6, <1>7, <1>8

LEMMA ClusterLogs ==
  ASSUME ServerInv, StepLogs, \A w \in Write : req'[w].cmd = req[w].cmd,
         \A w \in Write, a \in Attempt : ResolvesTo(exec[w][a], exec'[w][a])
  PROVE  LogsOwned' /\ NoRepeat'
<1>1. Noop.op # "set"
  BY DEF Noop
<1>2. LogsOwned'
  <2> SUFFICES ASSUME NEW n \in Node, NEW i \in 1..Len(log'[n]), log'[n][i].cmd.op = "set"
               PROVE  \E w \in Write : log'[n][i].cmd = req'[w].cmd /\ \E a \in Attempt : exec'[w][a].pc \in Proposed
    BY DEF LogsOwned
  <2>1. PICK l \in Node : i \in 1..Len(log[l]) /\ log'[n][i] = log[l][i]
    BY <1>1 DEF StepLogs, EntriesFrom
  <2>2. PICK w \in Write : log[l][i].cmd = req[w].cmd /\ \E a \in Attempt : exec[w][a].pc \in Proposed
    BY <2>1 DEF ServerInv, LogsOwned
  <2>3. PICK a \in Attempt : exec[w][a].pc \in Proposed
    BY <2>2
  <2>4. exec'[w][a].pc \in Proposed
    BY <2>3 DEF ResolvesTo
  <2> QED
    BY <2>1, <2>2, <2>4
<1>3. NoRepeat'
  <2> SUFFICES ASSUME NEW n \in Node, NEW i \in 1..Len(log'[n]), NEW j \in 1..Len(log'[n]), i # j,
                      log'[n][i].cmd.op = "set", log'[n][i].cmd = log'[n][j].cmd
               PROVE  log'[n][i].term # log'[n][j].term
    BY DEF NoRepeat
  <2>1. PICK l \in Node : \A k \in 1..Len(log'[n]) : \/ k \in 1..Len(log[l]) /\ log'[n][k] = log[l][k]
                                                     \/ log'[n][k].cmd = Noop
    BY DEF StepLogs, EntriesFrom
  <2>2. i \in 1..Len(log[l]) /\ log'[n][i] = log[l][i] /\ j \in 1..Len(log[l]) /\ log'[n][j] = log[l][j]
    BY <1>1, <2>1
  <2> QED
    BY <2>2 DEF ServerInv, NoRepeat
<1> QED
  BY <1>2, <1>3

LEMMA ClusterGiven ==
  ASSUME ServerInv, RaftInv', StepLogs, StepFrom, \A w \in Write : req'[w].cmd = req[w].cmd,
         \A w \in Write : req'[w].pc = "rpc" => req'[w] = req[w],
         \A w \in Write, a \in Attempt : ResolvesTo(exec[w][a], exec'[w][a])
  PROVE  GivenOnce'
<1> SUFFICES ASSUME NEW w \in Write, NEW m \in Node, NEW i \in 1..Len(log'[m]), Leads(m)', log'[m][i].term = term'[m],
                    log'[m][i].cmd = req[w].cmd, req[w].cmd.op = "set"
             PROVE  /\ \A a \in Attempt : exec'[w][a].node = m => exec'[w][a].pc \notin {"sent", "apply"}
                    /\ req'[w].pc = "rpc" /\ req'[w].attempt = 1 => exec'[w][1].node = m
  BY DEF GivenOnce, Leads
<1>1. Noop.op # "set"
  BY DEF Noop
<1>2. \A a \in Attempt : exec'[w][a].node = exec[w][a].node
                         /\ (exec'[w][a].pc \in {"sent", "apply"} => exec'[w][a].pc = exec[w][a].pc)
  BY DEF ResolvesTo, Moves
<1>3. CASE Leads(m) /\ term'[m] = term[m]
  <2>1. log'[m] = log[m]
    BY <1>3 DEF StepLogs, LeaderStays, Leads
  <2>2. /\ \A a \in Attempt : exec[w][a].node = m => exec[w][a].pc \notin {"sent", "apply"}
        /\ req[w].pc = "rpc" /\ req[w].attempt = 1 => exec[w][1].node = m
    BY <1>3, <2>1 DEF ServerInv, GivenOnce
  <2> QED
    BY <1>2, <2>2, AttemptIs
<1>4. CASE \A n \in Node : term[n] < term'[m]
  <2>1. PICK l \in Node : i \in 1..Len(log[l]) /\ log'[m][i] = log[l][i]
    BY <1>1 DEF StepLogs, EntriesFrom
  <2>2. log[l][i].term <= term[l] /\ term[l] \in 1..MaxTerm /\ log[l][i].term \in 1..MaxTerm
    BY <2>1, OrderedLast DEF ServerInv, RaftInv, LogsInv
  <2>3. term'[m] \in 1..MaxTerm /\ MaxTerm \in Nat
    BY RaftAssumption DEF RaftInv, LogsInv, LogsTyped
  <2> QED
    BY <1>4, <2>1, <2>2, <2>3
<1> QED
  BY <1>3, <1>4 DEF StepFrom, LeadsFrom, Leads

LEMMA ClusterReads ==
  ASSUME ServerInv, RaftInv', ChosenInv', StepLogs, Agree(chosen, chosen', Len(chosen)), \A r \in Reader : ReadStays(r)
  PROVE  ReadsInv'
<1>1. PICK c \in Log : c = chosen
  BY DEF ServerInv, ChosenInv
<1>2. PICK d \in Log : d = chosen'
  BY DEF ChosenInv
<1>3. Len(c) \in Nat /\ Len(d) \in Nat /\ Agree(c, d, Len(c))
  BY <1>1, <1>2 DEF Log
<1> SUFFICES ASSUME NEW r \in Reader
             PROVE  /\ read'[r].pc = "get" =>
                         /\ up'[read'[r].at] /\ read'[r].need <= Len(d)
                         /\ read'[r].need # 0 => \/ read'[r].need <= applied'[read'[r].at]
                                                 \/ d[read'[r].need].term < read'[r].term
                    /\ read'[r].pc = "done" =>
                         /\ read'[r].got <= Len(d) /\ read'[r].reply = Replay(Commands(SubSeq(d, 1, read'[r].got)))[read'[r].key]
                         /\ read'[r].got > 0 /\ d[read'[r].got].term >= read'[r].term => read'[r].need <= read'[r].got
  BY <1>2 DEF ReadsInv, Established
<1>4. CASE read'[r] = Idle("failed")
  <2>1. read'[r].pc = "failed"
    BY <1>4, IdleRead
  <2> QED
    BY <2>1
<1>5. CASE read'[r] = read[r] /\ (read[r].pc = "get" => up'[read[r].at])
  <2>1. PICK x \in Reading : x = read[r] /\ x = read'[r]
    BY <1>5 DEF ServerInv, CallsInv, CallsTyped
  <2>2. PICK need \in Nat, got \in Nat : need = x.need /\ got = x.got
    BY DEF Reading
  <2>3. CASE x.pc = "get"
    <3>1. PICK n \in Node : n = x.at
      BY <2>1, <2>3 DEF ServerInv, CallsInv, CallsTyped
    <3>2. up[n] /\ up'[n] /\ need <= Len(c) /\ (need # 0 => need <= applied[n] \/ c[need].term < x.term)
      BY <1>1, <1>5, <2>1, <2>2, <2>3, <3>1 DEF ServerInv, ReadsInv
    <3>3. applied[n] <= applied'[n] /\ applied[n] \in Nat /\ applied'[n] \in Nat
      BY <3>2 DEF StepLogs, GoesOn, ServerInv, RaftInv, DisksTyped
    <3>4. need # 0 => d[need] = c[need]
      BY <1>3, <2>2, <3>2 DEF Agree
    <3>5. need <= Len(d)
      BY <1>3, <2>2, <3>2 DEF Agree
    <3>6. need # 0 => need <= applied'[n] \/ d[need].term < x.term
      BY <2>2, <3>2, <3>3, <3>4
    <3> QED
      BY <2>1, <2>2, <2>3, <3>1, <3>2, <3>5, <3>6
  <2>4. CASE x.pc = "done"
    <3>1. got <= Len(c) /\ x.reply = Replay(Commands(SubSeq(c, 1, got)))[x.key]
          /\ (got > 0 /\ c[got].term >= x.term => need <= got)
      BY <1>1, <2>1, <2>2, <2>4 DEF ServerInv, ReadsInv, Established
    <3>2. got <= Len(d) /\ (got > 0 => d[got] = c[got]) /\ Agree(c, d, got)
      BY <1>3, <2>2, <3>1 DEF Agree
    <3>3. Commands(SubSeq(c, 1, got)) = Commands(SubSeq(d, 1, got))
      BY <3>2, SamePrefix
    <3> QED
      BY <2>1, <2>2, <2>4, <3>1, <3>2, <3>3
  <2> QED
    BY <2>1, <2>3, <2>4
<1> QED
  BY <1>4, <1>5 DEF ReadStays

LEMMA ClusterInv ==
  ASSUME ServerInv, Node # {}, Cluster
  PROVE  ServerInv'
<1>1. RaftInv /\ ChosenInv /\ CallsInv /\ RaftStep
  BY DEF ServerInv, Cluster
<1>2. RaftInv' /\ Keeps /\ StepFrom /\ StepLogs
  BY <1>1, RaftStepInv, RaftStepKeeps, RaftStepFrom, RaftStepLogs
<1>3. ChosenInv'
  BY <1>1, ClusterChosen
<1>4. Agree(chosen, chosen', Len(chosen))
  BY <1>1, <1>2, ChosenGrows
<1>5. /\ \A w \in Write : HandlerStays(w)
      /\ \A w \in Write, a \in Attempt : ResolvesTo(exec[w][a], exec'[w][a])
      /\ \A r \in Reader : ReadStays(r)
      /\ CallsInv'
  BY <1>1, ClusterCalls
<1>6. \A w \in Write : req'[w].cmd = req[w].cmd /\ (req'[w].pc = "rpc" => req'[w] = req[w])
  <2>1. PICK lost \in Replies : lost = Reply(0, "connection lost")
    BY FailedReplies, ZenonT(30) DEF Plain
  <2>2. lost \in Replies /\ \A w \in Write : req'[w] = req[w] \/ req'[w] = Done(req[w], lost)
    BY <1>5, <2>1 DEF HandlerStays
  <2>3. \A w \in Write : Done(req[w], lost).pc = "done" /\ Done(req[w], lost).cmd = req[w].cmd
    BY <1>1, <2>2, HandlerType, DoneMake
  <2> QED
    BY <2>2, <2>3
<1>7. WaitInv'
  BY <1>2, <1>3, <1>4, <1>5, <1>6, ClusterWaits
<1>8. LogsOwned' /\ NoRepeat'
  BY <1>2, <1>5, <1>6, ClusterLogs
<1>9. GivenOnce'
  BY <1>2, <1>5, <1>6, ClusterGiven
<1>10. ReadsInv'
  BY <1>2, <1>3, <1>4, <1>5, ClusterReads
<1> QED
  BY <1>2, <1>3, <1>5, <1>7, <1>8, <1>9, <1>10 DEF ServerInv

KVInv == ServerInv /\ Node # {}

LEMMA ServerInitInv == ServerInit => KVInv
<1> SUFFICES ASSUME ServerInit PROVE KVInv
  OBVIOUS
<1>1. Init /\ RaftInv /\ Node # {}
  BY InitInv DEF ServerInit
<1>2. Entry(1, Noop) \in LogEntry /\ Entry(1, Noop).term = 1 /\ Entry(1, Noop).cmd = Noop
  BY RaftAssumption DEF Entry, LogEntry
<1>3. PICK first \in Log : first = << Entry(1, Noop) >> /\ Len(first) = 1 /\ first # << >> /\ first[1].term = 1 /\ first[1].cmd = Noop
  <2>1. << Entry(1, Noop) >> \in Log
    BY <1>2 DEF Log
  <2> QED
    BY <1>2, <2>1
<1>4. /\ chosen = first /\ \A n \in Node : log[n] = first /\ applied[n] = 1 /\ clone[n] = None /\ snap[n].index = 0
  BY <1>1, <1>3 DEF ServerInit, Init
<1>5. \A w \in Write, a \in Attempt : exec[w][a] = NoExec
  BY DEF ServerInit
<1>6. NoExec \in Execution /\ NoExec.pc = "none" /\ NoExec.node = None
  BY DEF NoExec, Execution
<1>7. NoReply \in Replies /\ ~ Succeeded(NoReply) /\ ~ Unled(NoReply) /\ ~ Refusing(NoReply)
  <2>1. Plain(NoReply)
    <3>1. NoReply = Reply(0, "none")
      BY DEF NoReply, Reply
    <3> QED
      BY <3>1, FailedReplies, Zenon
  <2> QED
    BY <2>1 DEF Plain
<1>8. PICK h : h = [pc |-> "new", at |-> None, attempt |-> 1, cmd |-> Noop, reply |-> NoReply]
  OBVIOUS
<1>9. h \in Handler /\ h.pc = "new" /\ h.attempt = 1 /\ h.cmd = Noop /\ h.reply = NoReply
  BY <1>7, <1>8, AttemptIs DEF Handler
<1>10. \A w \in Write : req[w] = h
  BY <1>8 DEF ServerInit
<1>11. \A r \in Reader : read[r] = Idle("new") /\ read[r] \in Reading /\ read[r].pc = "new"
  BY IdleRead DEF ServerInit
<1>12. ChosenInv
  <2>1. Committed(first, 1)
    <3>1. LastTerm(first) = 1 /\ Agree(first, first, 1)
      <4>1. LastTerm(first) = first[Len(first)].term
        BY <1>3, LastTermIs
      <4>2. 1 \in 0..Len(first)
        BY <1>3
      <4> QED
        BY <1>3, <4>1, <4>2, AgreeSelf
    <3>2. PICK Q \in Quorum : TRUE
      BY <1>1, QuorumExists
    <3>3. 1 \in 1..Len(first)
      BY <1>3
    <3>4. \A n \in Node : LastTerm(log[n]) > first[1].term => Agree(log[n], first, 1)
      BY <1>4, <3>1
    <3>5. \A q \in Q : Agree(log[q], first, 1)
      BY <1>4, <3>1, QuorumType
    <3> QED
      BY <3>3, <3>4, <3>5 DEF Committed
  <2> QED
    BY <1>3, <1>4, <2>1 DEF ChosenInv
<1>13. CallsInv
  <2>1. CallsTyped
    <3>1. req \in [Write -> Handler]
      BY <1>9, <1>10 DEF ServerInit
    <3>2. exec \in [Write -> [Attempt -> Execution]]
      BY <1>6 DEF ServerInit
    <3>3. read \in [Reader -> Reading]
      BY <1>11 DEF ServerInit
    <3> QED
      BY <1>11, <3>1, <3>2, <3>3 DEF CallsTyped
  <2>2. ExecutionOK(NoExec)
    BY <1>6 DEF ExecutionOK
  <2>3. \A w \in Write : HandlerOK(w, h, NoExec, NoExec)
    BY <1>6, <1>9 DEF HandlerOK, Noop
  <2>4. ReplyOK(h, NoExec, NoExec)
    BY <1>7, <1>9 DEF ReplyOK
  <2> QED
    BY <1>5, <1>10, <2>1, <2>2, <2>3, <2>4, AttemptIs DEF CallsInv, CallOK
<1>14. WaitInv
  BY <1>5, <1>6 DEF WaitInv
<1>15. \A n \in Node : \A i \in 1..Len(log[n]) : log[n][i].cmd.op # "set"
  BY <1>3, <1>4 DEF Noop
<1>16. LogsOwned /\ NoRepeat
  BY <1>15 DEF LogsOwned, NoRepeat
<1>17. GivenOnce
  BY <1>9, <1>10 DEF GivenOnce, Noop
<1>18. ReadsInv
  BY <1>11 DEF ReadsInv
<1> QED
  BY <1>1, <1>12, <1>13, <1>14, <1>16, <1>17, <1>18 DEF KVInv, ServerInv

LEMMA ServerStep == KVInv /\ [ServerNext]_vars => KVInv'
<1> SUFFICES ASSUME ServerInv, Node # {}, [ServerNext]_vars PROVE ServerInv'
  BY DEF KVInv
<1>1. CASE Cluster
  BY <1>1, ClusterInv
<1>2. ASSUME NEW w \in Write, NEW n \in Node, NEW cmd \in CommandsOf(w), ReceiveWrite(w, n, cmd) PROVE ServerInv'
  BY <1>2, ReceiveWriteInv
<1>3. ASSUME NEW w \in Write, ForwardToLeader(w) \/ Respond(w) \/ CallFailed(w) PROVE ServerInv'
  BY <1>3, ForwardToLeaderInv, RespondInv, CallFailedInv
<1>4. ASSUME NEW w \in Write, NEW i \in Attempt, ServeForwarded(w, i) \/ Propose(w, i) \/ NotProposed(w, i) PROVE ServerInv'
  BY <1>4, ServeForwardedInv, ProposeInv, NotProposedInv
<1>5. ASSUME NEW r \in Reader, NEW n \in Node, NEW k \in Key, VerifyRead(r, n, k) PROVE ServerInv'
  BY <1>5, VerifyReadInv
<1>6. ASSUME NEW r \in Reader, GetLocal(r) PROVE ServerInv'
  BY <1>6, GetLocalInv
<1>7. CASE UNCHANGED vars
  <2>1. UNCHANGED <<up, role, term, log, known, match, applied, data, clone, snap, req, exec, read, chosen>>
    BY <1>7 DEF vars, raftVars
  <2>2. UNCHANGED raftState
    BY <2>1 DEF raftState
  <2>3. CallsInv' /\ WaitInv' /\ LogsOwned' /\ GivenOnce'
    BY <2>1 DEF ServerInv, CallsInv, CallsTyped, WaitInv, LogsOwned, GivenOnce, Leads
  <2>4. RaftInv' /\ ChosenInv' /\ NoRepeat' /\ ReadsInv'
    BY <2>1, <2>2, SameRaft, SameChosen, SameLogs, SameReads DEF ServerInv
  <2> QED
    BY <2>3, <2>4 DEF ServerInv
<1> QED
  BY <1>1, <1>2, <1>3, <1>4, <1>5, <1>6, <1>7 DEF ServerNext

LEMMA ServerAlways == Spec => []KVInv
  BY ServerInitInv, ServerStep, PTL DEF Spec

-----------------------------------------------------------------------------
(* Every node's map, and every snapshot on a disk, is what the commands    *)
(* committed up to its index leave in an empty map (fsm.go, snapshot.go),  *)
(* for any number of nodes, elections, crashes and snapshots.              *)
LEMMA PrefixHolds == KVInv => FsmIsPrefix
<1> SUFFICES ASSUME KVInv, NEW n \in Node
             PROVE  /\ applied[n] <= Len(chosen) /\ data[n] = Replay(Commands(SubSeq(chosen, 1, applied[n])))
                    /\ snap[n].index <= Len(chosen) /\ snap[n].data = Replay(Commands(SubSeq(chosen, 1, snap[n].index)))
  BY DEF FsmIsPrefix
<1>1. RaftInv /\ ChosenInv /\ LogsInv
  BY DEF KVInv, ServerInv, RaftInv
<1>2. PICK c \in Log : c = chosen /\ Committed(c, Len(c))
  BY <1>1 DEF ChosenInv
<1>3. PICK i \in Nat, s \in Nat : i = applied[n] /\ s = snap[n].index
  BY <1>1 DEF RaftInv, DisksTyped, Saved
<1>4. i <= Len(c) /\ s <= Len(c)
  BY <1>1, <1>2, <1>3 DEF ChosenInv
<1>5. Reached(n, i, data[n]) /\ Reached(n, s, snap[n].data)
  BY <1>1, <1>3 DEF RaftInv, StoresReached
<1>6. data[n] = Replay(Commands(SubSeq(c, 1, i))) /\ snap[n].data = Replay(Commands(SubSeq(c, 1, s)))
  BY <1>1, <1>2, <1>3, <1>4, <1>5, ReachedChosen
<1> QED
  BY <1>2, <1>3, <1>4, <1>6

\* Every node's map and every snapshot on a disk is what the committed commands up to
\* its index leave in an empty map, whatever crashes, restores, loses or duplicates.
THEOREM StoresFollowHistory == Spec => []FsmIsPrefix
  BY ServerAlways, PrefixHolds, PTL

LEMMA AckedHolds == KVInv => AckedWriteChosen
<1> SUFFICES ASSUME KVInv, NEW w \in Acked
             PROVE  AckedIndex(w) <= Len(chosen) /\ chosen[AckedIndex(w)].cmd = req[w].cmd
  BY DEF AckedWriteChosen
<1>1. AckedIndex(w) \in 1..Len(chosen) /\ chosen[AckedIndex(w)].cmd = req[w].cmd
  BY AckedHeld DEF KVInv, ServerInv
<1>2. Len(chosen) \in Nat
  BY DEF KVInv, ServerInv, ChosenInv, Log
<1> QED
  BY <1>1, <1>2

\* A write answered with 200 is committed, at the index its execution waited for, with
\* one execution or two, and stays committed through any change of leader.
THEOREM AckedWritesKept == Spec => []AckedWriteChosen
  BY ServerAlways, AckedHolds, PTL

LEMMA TypesHold == KVInv => TypeOK
<1> SUFFICES ASSUME KVInv PROVE TypeOK
  OBVIOUS
<1>1. RaftInv /\ CallsInv /\ LogsInv /\ LogsTyped /\ LogsOrdered
  BY DEF KVInv, ServerInv, RaftInv, LogsInv
<1>2. \A n \in Node : log[n] \in Log /\ Len(log[n]) \in Nat /\ DOMAIN log[n] = 1..Len(log[n])
  BY <1>1 DEF LogsTyped, Log
<1>3. \A n \in Node : \A i \in DOMAIN log[n] : log[n][i].term \in 1..MaxTerm /\ log[n][i].cmd \in Command \union {Noop}
  <2>1. \A n \in Node : \A i \in DOMAIN log[n] : log[n][i] \in LogEntry
    BY <1>2, EntryType
  <2> QED
    BY <2>1 DEF LogEntry
<1>4. \A n \in Node : applied[n] <= Len(log[n])
  <2> SUFFICES ASSUME NEW n \in Node PROVE applied[n] <= Len(log[n])
    OBVIOUS
  <2>1. PICK i \in Nat : i = applied[n] /\ Reached(n, i, data[n])
    BY <1>1 DEF RaftInv, DisksTyped, StoresReached
  <2> QED
    BY <1>1, <2>1, ReachedType
<1>5. term \in [Node -> 0..MaxTerm]
  BY <1>1, RaftAssumption DEF LogsTyped
<1>6. RaftTypeOK
  BY <1>1, <1>3, <1>4, <1>5 DEF RaftTypeOK, LogsTyped, RaftInv, DisksTyped, Stores
<1>7. \A w \in Write : req[w].pc \in {"new", "forward", "called", "rpc", "done"} /\ req[w].attempt \in Attempt
  BY <1>1, HandlerType
<1>8. \A w \in Write, i \in Attempt :
         exec[w][i].pc \in {"none", "sent", "apply", "wait", "ok", "error", "refused", "dead"}
  BY <1>1, ExecType
<1>9. \A r \in Reader : read[r].pc \in {"new", "get", "done", "failed"}
  BY <1>1 DEF CallsInv, CallsTyped, Reading
<1> QED
  BY <1>6, <1>7, <1>8, <1>9 DEF TypeOK

LEMMA RefusedHolds == KVInv => RefusedNeverLogged
<1> SUFFICES ASSUME KVInv, NEW w \in Write, NEW n \in Node, Refused(w), req[w].cmd.op = "set",
                    NEW i \in DOMAIN log[n], log[n][i].cmd = req[w].cmd
             PROVE  FALSE
  BY DEF RefusedNeverLogged
<1>1. CallsInv /\ log[n] \in Log
  BY DEF KVInv, ServerInv, RaftInv, LogsInv, LogsTyped
<1>2. i \in 1..Len(log[n])
  BY <1>1 DEF Log
<1>3. PICK v \in Write, a \in Attempt : log[n][i].cmd = req[v].cmd /\ exec[v][a].pc \in Proposed
  BY <1>2 DEF KVInv, ServerInv, LogsOwned
<1>4. v = w
  <2>1. \A u \in Write : req[u].cmd.op = "set" => req[u].cmd.value = u
    BY <1>1, HandlerType DEF HandlerOK
  <2>2. req[v].cmd = req[w].cmd
    BY <1>3
  <2> QED
    BY <2>1, <2>2
<1>5. Unled(req[w].reply) \/ (Refusing(req[w].reply) /\ req[w].attempt = 1)
  BY DEF Refused, Unled, Refusing
<1>6. exec[w][1].pc \in {"none", "refused"} /\ exec[w][2].pc = "none"
  BY <1>1, <1>5, HandlerType DEF ReplyOK, HandlerOK
<1> QED
  BY <1>3, <1>4, <1>6, AttemptIs DEF Proposed

LEMMA RequestsHold == KVInv => RequestsHonest
<1> SUFFICES ASSUME KVInv PROVE RequestsHonest
  OBVIOUS
<1>1. RepeatsSpanTerms
  <2>1. \A n \in Node : DOMAIN log[n] = 1..Len(log[n])
    BY DEF KVInv, ServerInv, RaftInv, LogsInv, LogsTyped, Log
  <2> QED
    BY <2>1 DEF RepeatsSpanTerms, KVInv, ServerInv, NoRepeat
<1> QED
  BY <1>1, TypesHold, RefusedHolds DEF RequestsHonest

\* A write that was refused before anything was proposed is in no log and never will be,
\* and one that was logged twice stands there under two different terms (forwardWrite,
\* ForwardToLeader, Execute).
THEOREM RefusalsHonest == Spec => []RequestsHonest
  BY ServerAlways, RequestsHold, PTL

LEMMA ReadsHold == KVInv => EstablishedReads
<1> SUFFICES ASSUME KVInv, NEW r \in Reader, read[r].pc = "done", Established(r)
             PROVE  read[r].reply \in ReadValues(r)
  BY DEF EstablishedReads
<1>1. PICK x \in Reading : x = read[r]
  BY DEF KVInv, ServerInv, CallsInv, CallsTyped
<1>2. PICK need \in Nat, got \in Nat : need = read[r].need /\ got = read[r].got
  BY <1>1 DEF Reading
<1>3. need <= got /\ got <= Len(chosen) /\ read[r].reply = Replay(Commands(SubSeq(chosen, 1, got)))[read[r].key]
  BY <1>2 DEF KVInv, ServerInv, ReadsInv
<1>4. Len(chosen) \in Nat
  BY DEF KVInv, ServerInv, ChosenInv, Log
<1>5. got \in read[r].need..Len(chosen)
  BY <1>2, <1>3, <1>4
<1> QED
  BY <1>3, <1>5 DEF ReadValues

\* A consistent read on a leader that has applied an entry of its own term sees every
\* write acknowledged before it, although the leader may change while it reads.
THEOREM ReadsFindAcknowledged == Spec => []EstablishedReads
  BY ServerAlways, ReadsHold, PTL

-----------------------------------------------------------------------------
(* The history of KVHistory.                                               *)

LEMMA HistoryReplay == \A cmds : History!Replay(cmds) = Replay(cmds)
  BY DEF Replay, History!Replay

\* The commands of a log, and of its first i entries.
LEMMA CommandsWhole ==
  ASSUME NEW c \in Log
  PROVE  /\ Commands(c) \in Seq(Command \union {Noop}) /\ Len(Commands(c)) = Len(c) /\ Len(c) \in Nat
         /\ \A i \in 1..Len(c) : Commands(c)[i] = c[i].cmd
<1>1. PICK k \in Nat : k = Len(c) /\ DOMAIN c = 1..k
  BY DEF Log
<1>2. \A i \in 1..k : c[i].cmd \in Command \union {Noop}
  <2>1. \A i \in 1..k : c[i] \in LogEntry
    BY <1>1 DEF Log
  <2> QED
    BY <2>1 DEF LogEntry
<1>3. Commands(c) = [i \in 1..k |-> c[i].cmd]
  BY <1>1 DEF Commands
<1>4. Commands(c) \in [1..k -> Command \union {Noop}]
  BY <1>2, <1>3
<1>5. Commands(c) \in Seq(Command \union {Noop}) /\ Len(Commands(c)) = k
  BY <1>4, LenProperties
<1> QED
  BY <1>1, <1>3, <1>5

LEMMA CommandsBeginning ==
  ASSUME NEW c \in Log, NEW i \in Nat, i <= Len(c)
  PROVE  SubSeq(Commands(c), 1, i) = Commands(SubSeq(c, 1, i))
<1> DEFINE h == Commands(c)
           p == Commands(SubSeq(c, 1, i))
<1>1. h \in Seq(Command \union {Noop}) /\ Len(h) = Len(c) /\ Len(c) \in Nat /\ \A j \in 1..Len(c) : h[j] = c[j].cmd
  BY CommandsWhole
<1>2. p \in Seq(Command \union {Noop}) /\ Len(p) = i /\ \A j \in 1..i : p[j] = c[j].cmd
  BY CommandsOfPrefix
<1> HIDE DEF h, p
<1> DEFINE s == SubSeq(h, 1, i)
<1>3. s \in Seq(Command \union {Noop}) /\ Len(s) = i /\ \A j \in 1..i : s[j] = h[j]
  BY <1>1
<1> HIDE DEF s
<1>4. Len(s) = Len(p) /\ \A j \in 1..Len(s) : s[j] = p[j]
  BY <1>1, <1>2, <1>3
<1>5. s = p
  BY <1>2, <1>3, <1>4, SeqEqual
<1> QED
  BY <1>5 DEF s, h, p

LEMMA HistoryGrows ==
  ASSUME NEW c \in Log, NEW d \in Log, Agree(c, d, Len(c))
  PROVE  History!IsPrefix(Commands(c), Commands(d))
<1>1. Len(c) \in Nat /\ Len(c) <= Len(d) /\ Len(Commands(c)) = Len(c) /\ Len(Commands(d)) = Len(d)
  BY CommandsWhole DEF Agree
<1>2. SubSeq(Commands(c), 1, Len(c)) = Commands(SubSeq(c, 1, Len(c)))
  BY <1>1, CommandsBeginning, SMTT(30)
<1>3. SubSeq(Commands(d), 1, Len(c)) = Commands(SubSeq(d, 1, Len(c)))
  BY <1>1, CommandsBeginning
<1>4. Commands(SubSeq(c, 1, Len(c))) = Commands(SubSeq(d, 1, Len(c)))
  BY <1>1, SamePrefix
<1> QED
  BY <1>1, <1>2, <1>3, <1>4 DEF History!IsPrefix

\* A step of the cluster moves one node.
MovesOne(n) == /\ applied' = [applied EXCEPT ![n] = applied'[n]]
               /\ data' = [data EXCEPT ![n] = data'[n]]

LEMMA RaftStepOne == ASSUME RaftInv, RaftStep PROVE \E n \in Node : MovesOne(n)
<1>0. applied \in [Node -> Nat] /\ data \in [Node -> Stores]
  BY DEF RaftInv, DisksTyped
<1>s. ASSUME NEW n \in Node, NEW a, NEW d, applied' = [applied EXCEPT ![n] = a], data' = [data EXCEPT ![n] = d]
      PROVE  MovesOne(n)
  BY <1>0, <1>s DEF MovesOne
<1>u. ASSUME NEW n \in Node, applied' = applied, data' = data PROVE MovesOne(n)
  BY <1>0, <1>u DEF MovesOne
<1>1. ASSUME NEW n \in Node, NEW Q \in Quorum, Elect(n, Q) PROVE MovesOne(n)
  <2>1. applied' = applied /\ data' = data
    BY <1>1 DEF Elect
  <2> QED
    BY <1>u, <2>1
<1>2. ASSUME NEW l \in Node, NEW f \in Node, Replicate(l, f) PROVE MovesOne(f)
  <2>1. CommitUpTo(f, log[l], Max({applied[f], applied[l]}))
    BY <1>2 DEF Replicate
  <2> QED
    BY <1>s, <2>1 DEF CommitUpTo
<1>3. ASSUME NEW l \in Node, NEW f \in Node, InstallSnapshot(l, f) PROVE MovesOne(f)
  <2>1. /\ applied' = [applied EXCEPT ![f] = snap[l].index]
        /\ data' = [data EXCEPT ![f] = RestoreFrom(@, snap[l].data)]
    BY <1>3 DEF InstallSnapshot
  <2> QED
    BY <1>s, <2>1
<1>4. ASSUME NEW n \in Node, AdvanceCommit(n) PROVE MovesOne(n)
  <2>1. \E i : CommitUpTo(n, log[n], i)
    BY <1>4 DEF AdvanceCommit
  <2> QED
    BY <1>s, <2>1 DEF CommitUpTo
<1>5. ASSUME NEW n \in Node, StepDown(n) \/ TakeSnapshot(n) \/ Persist(n) PROVE MovesOne(n)
  <2>1. applied' = applied /\ data' = data
    BY <1>5 DEF StepDown, TakeSnapshot, Persist
  <2> QED
    BY <1>u, <2>1
<1>6. ASSUME NEW n \in Node, Crash(n) PROVE MovesOne(n)
  <2>1. applied' = [applied EXCEPT ![n] = 0] /\ data' = [data EXCEPT ![n] = EmptyStore]
    BY <1>6 DEF Crash
  <2> QED
    BY <1>s, <2>1
<1>7. ASSUME NEW n \in Node, Restart(n) PROVE MovesOne(n)
  <2>1. applied' = [applied EXCEPT ![n] = snap[n].index] /\ data' = [data EXCEPT ![n] = RestoreFrom(@, snap[n].data)]
    BY <1>7 DEF Restart
  <2> QED
    BY <1>s, <2>1
<1> QED
  BY <1>1, <1>2, <1>3, <1>4, <1>5, <1>6, <1>7 DEF RaftStep

\* The node that moved holds, after the step, what the history leaves.
LEMMA StoreFollows ==
  ASSUME RaftInv', ChosenInv', NEW n \in Node
  PROVE  /\ applied'[n] \in Nat /\ chosen' \in Log /\ applied'[n] <= Len(chosen')
         /\ data'[n] = History!Replay(SubSeq(Commands(chosen'), 1, applied'[n]))
<1>1. PICK k \in Nat : k = applied'[n]
  BY DEF RaftInv, DisksTyped
<1>2. PICK c \in Log : c = chosen' /\ k <= Len(c)
  BY <1>1 DEF ChosenInv
<1>3. PICK b \in Log : b = log'[n] /\ data'[n] = Replay(Commands(SubSeq(b, 1, k))) /\ (k # 0 => Committed(b, k)')
  <2>1. log'[n] \in Log
    BY DEF RaftInv, LogsInv, LogsTyped
  <2>2. data'[n] = Replay(Commands(SubSeq(log'[n], 1, k)))
    BY <1>1 DEF RaftInv, StoresReached, Reached
  <2>3. PICK b \in Log : b = log'[n]
    BY <2>1
  <2>4. k # 0 => Committed(b, k)'
    BY <1>1, <2>3 DEF RaftInv, StoresReached, Reached
  <2> QED
    BY <2>2, <2>3, <2>4
<1>4. k # 0 => Agree(b, c, k)
  <2> SUFFICES ASSUME k # 0 PROVE Agree(b, c, k)
    OBVIOUS
  <2>1. k <= Len(b)
    BY <1>3 DEF Committed
  <2>2. \A i \in 1..k : i \in 1..Len(c) /\ c[i] = b[i]
    BY <1>1, <1>2, <1>3, AppliedChosen
  <2> QED
    BY <1>2, <2>1, <2>2 DEF Agree
<1>5. Commands(SubSeq(b, 1, k)) = Commands(SubSeq(c, 1, k))
  BY <1>4, SamePrefix
<1>6. SubSeq(Commands(c), 1, k) = Commands(SubSeq(c, 1, k))
  BY <1>2, CommandsBeginning
<1> QED
  BY <1>1, <1>2, <1>3, <1>5, <1>6, HistoryReplay

\* The writes answered with success, as the history sees them.
Acks == {[write |-> w, cmd |-> req[w].cmd] : w \in Acked}

AckStays(w) == \/ req'[w].cmd = req[w].cmd /\ req'[w].reply = req[w].reply
               \/ ~ Succeeded(req[w].reply) /\ ~ Succeeded(req'[w].reply)

LEMMA AckedIs == Acks = {[write |-> w, cmd |-> req[w].cmd] : w \in {v \in Write : Succeeded(req[v].reply)}}
  BY DEF Acks, Acked, Succeeded

LEMMA AckedIsNext == Acks' = {[write |-> w, cmd |-> req'[w].cmd] : w \in {v \in Write : Succeeded(req'[v].reply)}}
  BY DEF Acks, Acked, Succeeded

LEMMA AcksSame == ASSUME \A w \in Write : AckStays(w) PROVE Acks' = Acks
<1>1. \A w \in Write : Succeeded(req'[w].reply) <=> Succeeded(req[w].reply)
  BY DEF AckStays
<1>2. \A w \in Write : Succeeded(req[w].reply) => req'[w].cmd = req[w].cmd
  BY DEF AckStays
<1> QED
  BY <1>1, <1>2, AckedIs, AckedIsNext

LEMMA Unanswered == ASSUME CallsInv, NEW w \in Write, req[w].pc # "done" PROVE ~ Succeeded(req[w].reply)
  BY HandlerType DEF ReplyOK

LEMMA ClusterAcks == ASSUME CallsInv, Cluster PROVE Acks' = Acks
<1>1. PICK lost \in Replies : lost = Reply(0, "connection lost") /\ Plain(lost)
  BY FailedReplies, ZenonT(30) DEF Plain
<1>2. ~ Succeeded(lost)
  BY <1>1 DEF Plain
<1>3. ASSUME NEW w \in Write PROVE AckStays(w)
  <2>1. req'[w] = IF req[w].pc \in {"called", "forward", "rpc"} /\ ~ up'[req[w].at] THEN Done(req[w], lost) ELSE req[w]
    BY <1>1 DEF Cluster
  <2>2. CASE req[w].pc \in {"called", "forward", "rpc"} /\ ~ up'[req[w].at]
    <3>1. req'[w] = Done(req[w], lost)
      BY <2>1, <2>2
    <3>2. Done(req[w], lost).reply = lost
      BY HandlerType, DoneMake
    <3>3. ~ Succeeded(req[w].reply)
      BY <2>2, Unanswered
    <3> QED
      BY <1>2, <3>1, <3>2, <3>3 DEF AckStays
  <2>3. CASE ~ (req[w].pc \in {"called", "forward", "rpc"} /\ ~ up'[req[w].at])
    BY <2>1, <2>3 DEF AckStays
  <2> QED
    BY <2>2, <2>3
<1> QED
  BY <1>3, AcksSame

\* A node that moves forward catches up; one that goes back has been started again.
LEMMA ClusterRefines ==
  ASSUME KVInv, KVInv', Cluster
  PROVE  \E n \in Node : History!Advance(n) \/ History!Forget(n)
<1>1. RaftInv /\ ChosenInv /\ CallsInv /\ RaftStep /\ Node # {} /\ RaftInv' /\ ChosenInv'
  BY DEF KVInv, ServerInv, Cluster
<1>2. Keeps
  BY <1>1, RaftStepKeeps
<1>3. PICK n \in Node : MovesOne(n)
  BY <1>1, RaftStepOne
<1>4. /\ chosen' \in Log /\ Agree(chosen, chosen', Len(chosen)) /\ Len(chosen) \in Nat \ {0} /\ Len(chosen') \in Nat
      /\ \/ chosen' = chosen
         \/ \E m \in Node : applied'[m] > Len(chosen)
  BY <1>1, <1>2, ChosenGrows
<1>5. /\ applied'[n] \in Nat /\ applied'[n] <= Len(chosen')
      /\ data'[n] = History!Replay(SubSeq(Commands(chosen'), 1, applied'[n]))
  BY <1>1, StoreFollows
<1>6. chosen \in Log /\ \A m \in Node : applied[m] \in Nat /\ applied[m] <= Len(chosen)
  BY <1>1 DEF ChosenInv, RaftInv, DisksTyped
<1>7. Acks' = Acks
  BY <1>1, ClusterAcks
<1>8. applied' = [applied EXCEPT ![n] = applied'[n]] /\ data' = [data EXCEPT ![n] = data'[n]]
  BY <1>3 DEF MovesOne
<1>9. History!Follows(n)
  BY <1>5, <1>8 DEF History!Follows
<1>10. CASE applied[n] <= applied'[n]
  <2>1. History!IsPrefix(Commands(chosen), Commands(chosen'))
    BY <1>4, <1>6, HistoryGrows
  <2>2. Len(Commands(chosen')) = Len(chosen')
    BY <1>4, CommandsWhole
  <2>3. applied'[n] \in applied[n]..Len(Commands(chosen'))
    BY <1>4, <1>5, <1>6, <1>10, <2>2
  <2>4. History!Advance(n)
    BY <1>7, <1>8, <1>9, <2>1, <2>3 DEF History!Advance, Acks
  <2> QED
    BY <2>4
<1>11. CASE applied'[n] < applied[n]
  <2>1. \A m \in Node : applied'[m] <= Len(chosen)
    <3>1. \A m \in Node : m # n => applied'[m] = applied[m]
      BY <1>1, <1>8 DEF RaftInv, DisksTyped
    <3> QED
      BY <1>4, <1>5, <1>6, <1>11, <3>1
  <2>2. chosen' = chosen
    BY <1>4, <1>5, <1>6, <2>1, <1>1 DEF RaftInv, DisksTyped
  <2>3. applied'[n] \in 0..applied[n]
    BY <1>5, <1>6, <1>11
  <2>4. History!Forget(n)
    BY <1>7, <1>8, <1>9, <2>2, <2>3 DEF History!Forget, Acks
  <2> QED
    BY <2>4
<1> QED
  BY <1>5, <1>6, <1>10, <1>11

\* The steps of a request: they answer with a success, or acknowledge nothing.
AcksOnly == UNCHANGED <<applied, data, chosen>>

LEMMA Unsaid ==
  ASSUME CallsInv, NEW w \in Write, NEW r \in Replies, req[w].pc # "done", ~ Succeeded(r), Answer(w, r)
  PROVE  Acks' = Acks
<1>1. /\ req'[w] = Done(req[w], r) /\ Done(req[w], r).reply = r
      /\ \A v \in Write : v # w => req'[v] = req[v]
  BY AnswerIs
<1>2. \A v \in Write : AckStays(v)
  BY <1>1, Unanswered DEF AckStays
<1> QED
  BY <1>2, AcksSame

LEMMA RespondRefines ==
  ASSUME KVInv, NEW w \in Write, Respond(w)
  PROVE  AcksOnly /\ (Acks' = Acks \/ History!Acknowledge(w))
<1>1. CallsInv /\ WaitInv /\ chosen \in Log /\ req[w].pc \in {"called", "rpc"}
  BY DEF KVInv, ServerInv, ChosenInv, Respond
<1>2. AcksOnly
  BY DEF AcksOnly, Respond, raftVars
<1>3. PICK a \in Attempt : a = req[w].attempt
  BY <1>1, HandlerType
<1>4. PICK e \in Execution : e = exec[w][a]
  BY <1>1, ExecType
<1>5. e.pc \in {"ok", "error", "refused"} /\ Answer(w, Outcome(e.pc))
  BY <1>3, <1>4 DEF Respond
<1>6. PICK r \in Replies : r = Outcome(e.pc) /\ (Succeeded(r) <=> e.pc = "ok")
  BY <1>5, OutcomeReplies, Zenon DEF Plain
<1>7. Answer(w, r)
  BY <1>5, <1>6
<1>8. CASE ~ Succeeded(r)
  <2>1. r \in Replies
    BY <1>6
  <2> QED
    BY <1>1, <1>2, <1>7, <1>8, <2>1, Unsaid
<1>9. CASE Succeeded(r)
  <2>1. r \in Replies
    BY <1>6
  <2>2. /\ req'[w] = Done(req[w], r) /\ Done(req[w], r).reply = r /\ Done(req[w], r).cmd = req[w].cmd
        /\ \A v \in Write : v # w => req'[v] = req[v]
    BY <1>1, <1>7, <2>1, AnswerIs
  <2>3. PICK i \in Nat : i = e.index /\ i \in 1..Len(chosen) /\ chosen[i].cmd = req[w].cmd
    <3>1. e.pc = "ok"
      BY <1>6, <1>9
    <3>2. e.index \in 1..Len(chosen) /\ chosen[e.index].cmd = req[w].cmd
      BY <1>1, <1>4, <3>1 DEF WaitInv
    <3> QED
      BY <3>2
  <2>4. i \in DOMAIN Commands(chosen) /\ Commands(chosen)[i] = req[w].cmd
    <3>1. /\ Commands(chosen) \in Seq(Command \union {Noop}) /\ Len(Commands(chosen)) = Len(chosen)
          /\ Commands(chosen)[i] = chosen[i].cmd
      BY <1>1, <2>3, CommandsWhole
    <3> QED
      BY <2>3, <3>1
  <2>5. Acks' = Acks \union {[write |-> w, cmd |-> req[w].cmd]}
    <3>1. \A v \in Write : Succeeded(req'[v].reply) <=> v = w \/ Succeeded(req[v].reply)
      BY <1>9, <2>2
    <3>2. \A v \in Write : req'[v].cmd = req[v].cmd
      BY <2>2
    <3> QED
      BY <3>1, <3>2, AckedIs, AckedIsNext
  <2>6. History!Acknowledge(w)
    <3>1. Acks' = Acks \union {[write |-> w, cmd |-> Commands(chosen)[i]]}
      BY <2>4, <2>5
    <3> QED
      BY <1>2, <2>4, <3>1 DEF History!Acknowledge, Acks, AcksOnly
  <2> QED
    BY <1>2, <2>6
<1> QED
  BY <1>8, <1>9

LEMMA RequestRefines ==
  ASSUME KVInv, NEW w \in Write, ForwardToLeader(w) \/ CallFailed(w)
  PROVE  AcksOnly /\ Acks' = Acks
<1>1. CallsInv
  BY DEF KVInv, ServerInv
<1>2. AcksOnly
  BY DEF AcksOnly, ForwardToLeader, CallFailed, raftVars
<1>3. req[w].pc # "done" /\ ~ Succeeded(req[w].reply)
  BY <1>1, Unanswered DEF ForwardToLeader, CallFailed
<1>4. ASSUME NEW r, Plain(r) \/ r = Reply(503, "no known leader"), Answer(w, r)
      PROVE  Acks' = Acks
  <2>1. r \in Replies /\ ~ Succeeded(r)
    BY <1>4, NoLeaderReply, Zenon DEF Plain
  <2> QED
    BY <1>1, <1>3, <1>4, <2>1, Unsaid
<1>5. CASE ForwardToLeader(w)
  <2>1. Answer(w, Reply(503, "no known leader")) \/ req' = [req EXCEPT ![w].pc = "rpc"]
    BY <1>5, Zenon DEF ForwardToLeader
  <2>2. CASE req' = [req EXCEPT ![w].pc = "rpc"]
    <3>1. \A v \in Write : req'[v].cmd = req[v].cmd /\ req'[v].reply = req[v].reply
      BY <1>1, <2>2 DEF CallsInv, CallsTyped, Handler
    <3> QED
      BY <1>2, <3>1, AcksSame DEF AckStays
  <2> QED
    BY <1>2, <1>4, <2>1, <2>2
<1>6. CASE CallFailed(w)
  <2>1. Answer(w, CallFailedReply(w)) \/ req' = [req EXCEPT ![w].attempt = 2]
    BY <1>6 DEF CallFailed
  <2>2. Plain(CallFailedReply(w))
    <3>1. CallFailedReply(w) = Reply(503, "forward retry failed") \/ CallFailedReply(w) = Reply(503, "forward failed and leader unchanged")
      BY Zenon DEF CallFailedReply
    <3> QED
      BY <3>1, FailedReplies, Zenon, SMTT(30)
  <2>3. CASE req' = [req EXCEPT ![w].attempt = 2]
    <3>1. \A v \in Write : req'[v].cmd = req[v].cmd /\ req'[v].reply = req[v].reply
      BY <1>1, <2>3 DEF CallsInv, CallsTyped, Handler
    <3> QED
      BY <1>2, <3>1, AcksSame DEF AckStays
  <2> QED
    BY <1>2, <1>4, <2>1, <2>2, <2>3
<1> QED
  BY <1>5, <1>6

LEMMA ReceiveRefines ==
  ASSUME KVInv, NEW w \in Write, NEW n \in Node, NEW cmd \in CommandsOf(w), ReceiveWrite(w, n, cmd)
  PROVE  AcksOnly /\ Acks' = Acks
<1>1. CallsInv /\ req[w].pc # "done"
  BY DEF KVInv, ServerInv, ReceiveWrite
<1>2. AcksOnly
  BY DEF AcksOnly, ReceiveWrite, raftVars
<1>3. \A v \in Write : req'[v].reply = req[v].reply /\ (v # w => req'[v].cmd = req[v].cmd)
  <2>1. req' = [req EXCEPT ![w].at = n, ![w].cmd = cmd, ![w].pc = IF role[n] = "leader" THEN "called" ELSE "forward"]
    BY DEF ReceiveWrite
  <2> QED
    BY <1>1, <2>1 DEF CallsInv, CallsTyped, Handler
<1>4. \A v \in Write : AckStays(v)
  BY <1>1, <1>3, Unanswered DEF AckStays
<1> QED
  BY <1>2, <1>4, AcksSame

LEMMA HistoryStutters == ASSUME AcksOnly, Acks' = Acks PROVE UNCHANGED History!historyVars
  BY DEF AcksOnly, Acks, History!historyVars

LEMMA ServerRefines ==
  KVInv /\ KVInv' /\ [ServerNext]_vars => [History!HistoryNext]_(History!historyVars)
<1> SUFFICES ASSUME KVInv, KVInv', [ServerNext]_vars PROVE [History!HistoryNext]_(History!historyVars)
  OBVIOUS
<1>s. ASSUME UNCHANGED <<applied, data, chosen, req>> PROVE UNCHANGED History!historyVars
  <2>1. AcksOnly /\ \A w \in Write : AckStays(w)
    BY <1>s DEF AcksOnly, AckStays
  <2> QED
    BY <2>1, AcksSame, HistoryStutters
<1>1. CASE Cluster
  BY <1>1, ClusterRefines DEF History!HistoryNext
<1>2. ASSUME NEW w \in Write, NEW n \in Node, NEW cmd \in CommandsOf(w), ReceiveWrite(w, n, cmd)
      PROVE  UNCHANGED History!historyVars
  BY <1>2, ReceiveRefines, HistoryStutters
<1>3. ASSUME NEW w \in Write, ForwardToLeader(w) \/ CallFailed(w) PROVE UNCHANGED History!historyVars
  BY <1>3, RequestRefines, HistoryStutters
<1>4. ASSUME NEW w \in Write, Respond(w) PROVE History!HistoryNext \/ UNCHANGED History!historyVars
  BY <1>4, RespondRefines, HistoryStutters DEF History!HistoryNext
<1>5. ASSUME NEW w \in Write, NEW i \in Attempt, ServeForwarded(w, i) \/ Propose(w, i) \/ NotProposed(w, i)
      PROVE  UNCHANGED <<applied, data, chosen, req>>
  BY <1>5 DEF ServeForwarded, Propose, NotProposed, AppendCommand, raftVars
<1>6. ASSUME NEW r \in Reader, NEW n \in Node, NEW k \in Key, VerifyRead(r, n, k)
      PROVE  UNCHANGED <<applied, data, chosen, req>>
  BY <1>6 DEF VerifyRead, raftVars
<1>7. ASSUME NEW r \in Reader, GetLocal(r) PROVE UNCHANGED <<applied, data, chosen, req>>
  BY <1>7 DEF GetLocal, raftVars
<1>8. CASE UNCHANGED vars
  BY <1>s, <1>8 DEF vars, raftVars
<1> QED
  BY <1>s, <1>1, <1>2, <1>3, <1>4, <1>5, <1>6, <1>7, <1>8 DEF ServerNext

LEMMA ServerInitRefines == ServerInit => History!HistoryInit
<1> SUFFICES ASSUME ServerInit PROVE History!HistoryInit
  OBVIOUS
<1>1. Init /\ KVInv
  BY ServerInitInv DEF ServerInit
<1>2. Acks = {}
  <2>1. \A w \in Write : req[w].pc = "new"
    BY DEF ServerInit
  <2>2. \A w \in Write : ~ Succeeded(req[w].reply)
    BY <1>1, <2>1, Unanswered DEF KVInv, ServerInv
  <2> QED
    BY <2>2, AckedIs
<1>3. Commands(chosen) = <<History!Noop>>
  <2>1. chosen = <<Entry(1, Noop)>>
    BY DEF ServerInit
  <2> QED
    BY <2>1 DEF Commands, Entry, Noop, History!Noop
<1>4. applied = [n \in Node |-> 1] /\ data = [n \in Node |-> History!EmptyStore]
  BY <1>1 DEF Init, EmptyStore, History!EmptyStore
<1> QED
  BY <1>2, <1>3, <1>4 DEF History!HistoryInit, Acks

\* The cluster implements what it promises (KVHistory): commits only extend the history,
\* every node's store is what a beginning of it leaves, and only what is in it is
\* acknowledged, through elections, crashes, snapshots and retried forwards.
THEOREM HistoryHolds == Spec => HistoryKept
<1>1. ServerInit => History!HistoryInit
  BY ServerInitRefines
<1>2. Spec => []KVInv
  BY ServerAlways
<1> QED
  BY <1>1, <1>2, ServerRefines, PTL DEF Spec, HistoryKept, History!HistorySpec
=============================================================================
