-------------------------- MODULE LoadBalancerProofs ---------------------------
(***************************************************************************)
(* Theorems about 09-load-balancer, for every configuration, threshold and *)
(* strategy, and whatever the services and the operator do: a backend is   *)
(* up exactly if one of its last probes succeeded; the newest loadable     *)
(* file takes effect; a backend with connections stays in the pool; none   *)
(* that is drained or no longer configured gets a new client; in a whole   *)
(* cycle each candidate gets its share of the clients.                     *)
(***************************************************************************)
EXTENDS LoadBalancer, SumProofs, SequenceTheorems, TLAPS

\* What the checker knows of a backend that is up: it has failed as often as probes
\* followed its last success, and fewer times than the threshold.
UpSinceSuccess(b) ==
  /\ b.fails \in 0..(Threshold - 1)
  /\ Len(b.outcomes) = b.fails + 1
  /\ b.outcomes[1] = "ok"
  /\ \A i \in 2..Len(b.outcomes) : b.outcomes[i] = "failed"

\* What it knows of one that is down: all probes it remembers failed.
AllFailed(b) == \A i \in 1..Len(b.outcomes) : b.outcomes[i] = "failed"

\* A Backend object the checker keeps its books on.  The invariant needs the books
\* of backends that are up: their number of failures tells how old the success is.
WellKept(b) ==
  /\ {"healthy", "fails", "outcomes"} \subseteq DOMAIN b
  /\ b.outcomes \in Seq({"ok", "failed"}) /\ b.fails \in 0..Threshold /\ b.healthy \in BOOLEAN
  /\ b.healthy => UpSinceSuccess(b)
  /\ ~ b.healthy => AllFailed(b)

HealthInv == \A o \in DOMAIN backends : WellKept(backends[o])

-----------------------------------------------------------------------------
LEMMA NewWellKept ==
  ASSUME NEW label, NEW weight
  PROVE  WellKept(Backend(label, weight))
  BY BalancerAssumption DEF WellKept, Backend, AllFailed

\* A probe keeps the books, whatever its outcome.
LEMMA EvaluatedWellKept ==
  ASSUME NEW b, WellKept(b), NEW ok \in BOOLEAN
  PROVE  WellKept(Evaluated(b, ok))
<1> USE BalancerAssumption
<1> DEFINE c == Evaluated(b, ok)
<1>0. /\ {"healthy", "fails", "outcomes"} \subseteq DOMAIN b
      /\ b.outcomes \in Seq({"ok", "failed"}) /\ b.fails \in 0..Threshold /\ b.healthy \in BOOLEAN
  BY DEF WellKept
<1>1. CASE ok
  <2>1. /\ {"healthy", "fails", "outcomes"} \subseteq DOMAIN c
        /\ c.healthy /\ c.healthy \in BOOLEAN /\ c.fails = 0 /\ c.outcomes = <<"ok">>
    BY <1>0, <1>1 DEF Evaluated, Recorded
  <2>2. UpSinceSuccess(c)
    BY <2>1 DEF UpSinceSuccess
  <2> QED
    BY <2>1, <2>2 DEF WellKept
<1>2. CASE ~ ok
  <2> DEFINE fails == IF b.fails < Threshold THEN b.fails + 1 ELSE b.fails
             all == Append(b.outcomes, "failed")
             recorded == IF Len(all) > Threshold THEN Tail(all) ELSE all
  <2>1. /\ {"healthy", "fails", "outcomes"} \subseteq DOMAIN c
        /\ c.healthy \in BOOLEAN /\ (c.healthy <=> b.healthy /\ fails < Threshold)
        /\ c.fails = fails /\ c.outcomes = recorded
    BY <1>0, <1>2 DEF Evaluated, Recorded
  <2>2. /\ all \in Seq({"ok", "failed"}) /\ Len(all) = Len(b.outcomes) + 1
        /\ \A i \in 1..Len(b.outcomes) : all[i] = b.outcomes[i]
        /\ all[Len(all)] = "failed"
    BY <1>0
  <2>3. /\ recorded \in Seq({"ok", "failed"})
        /\ Len(all) > Threshold =>
             Len(recorded) = Len(all) - 1 /\ \A i \in 1..Len(recorded) : recorded[i] = all[i + 1]
    BY <2>2
  <2>4. CASE b.healthy
    <3>1. UpSinceSuccess(b)
      BY <2>4 DEF WellKept
    <3>2. CASE fails < Threshold
      <4>1. recorded = all /\ fails = b.fails + 1 /\ c.healthy
        BY <1>0, <2>1, <2>2, <2>4, <3>1, <3>2 DEF UpSinceSuccess
      <4>2. UpSinceSuccess(c)
        BY <1>0, <2>1, <2>2, <3>1, <3>2, <4>1 DEF UpSinceSuccess
      <4> QED
        BY <1>0, <2>1, <2>3, <3>2, <4>1, <4>2 DEF WellKept
    <3>3. CASE ~ (fails < Threshold)
      <4>1. fails = Threshold /\ Len(all) = Threshold + 1 /\ ~ c.healthy
        BY <1>0, <2>1, <2>2, <3>1, <3>3 DEF UpSinceSuccess
      <4>2. \A i \in 2..Len(all) : all[i] = "failed"
        <5> SUFFICES ASSUME NEW i \in 2..Len(all) PROVE all[i] = "failed"
          OBVIOUS
        <5> HIDE DEF all
        <5>1. CASE i = Len(all)
          BY <2>2, <5>1
        <5>2. CASE i # Len(all)
          <6>1. i \in 2..Len(b.outcomes)
            BY <1>0, <2>2, <5>2
          <6>2. b.outcomes[i] = "failed"
            BY <3>1, <6>1 DEF UpSinceSuccess
          <6>3. all[i] = b.outcomes[i]
            BY <1>0, <2>2, <6>1
          <6> QED
            BY <6>2, <6>3
        <5> QED
          BY <5>1, <5>2
      <4>3. AllFailed(c)
        BY <2>1, <2>2, <2>3, <4>1, <4>2 DEF AllFailed
      <4> QED
        BY <2>1, <2>3, <4>1, <4>3 DEF WellKept
    <3> QED
      BY <3>2, <3>3
  <2>5. CASE ~ b.healthy
    <3>1. AllFailed(b)
      BY <2>5 DEF WellKept
    <3>2. \A i \in 1..Len(all) : all[i] = "failed"
      BY <1>0, <2>2, <3>1 DEF AllFailed
    <3>3. \A i \in 1..Len(recorded) : recorded[i] = "failed"
      BY <2>2, <2>3, <3>2
    <3>4. AllFailed(c) /\ ~ c.healthy /\ c.fails \in 0..Threshold
      BY <1>0, <2>1, <2>5, <3>3 DEF AllFailed
    <3> QED
      BY <2>1, <2>3, <3>4 DEF WellKept
  <2> QED
    BY <1>0, <2>4, <2>5
<1> QED
  BY <1>1, <1>2

\* Marking a backend, weighing it and counting its connections leave the books alone.
LEMMA MarkedWellKept ==
  ASSUME NEW b, WellKept(b), NEW v
  PROVE  /\ WellKept([b EXCEPT !.draining = v])
         /\ WellKept([b EXCEPT !.active = v])
         /\ WellKept([b EXCEPT !.weight = v])
<1> DEFINE Same(c) == /\ {"healthy", "fails", "outcomes"} \subseteq DOMAIN c
                      /\ c.healthy = b.healthy /\ c.fails = b.fails /\ c.outcomes = b.outcomes
<1>1. ASSUME NEW c, Same(c) PROVE WellKept(c)
  BY <1>1 DEF WellKept, UpSinceSuccess, AllFailed
<1>2. Same([b EXCEPT !.draining = v])
  BY DEF WellKept
<1>3. Same([b EXCEPT !.active = v])
  BY DEF WellKept
<1>4. Same([b EXCEPT !.weight = v])
  BY DEF WellKept
<1> HIDE DEF Same
<1> QED
  BY <1>1, <1>2, <1>3, <1>4

-----------------------------------------------------------------------------
LEMMA HealthInit == Init => HealthInv
<1> SUFFICES ASSUME Init, NEW o \in DOMAIN backends PROVE WellKept(backends[o])
  BY DEF HealthInv
<1> DEFINE valid == Kept(current, {e \in Range(current) : e.label \notin Malformed})
           label == valid[o].label
           weight == Weight(valid[o])
           ok == label \in answering
<1>1. backends[o] = Evaluated(Backend(label, weight), ok)
  BY DEF Init
<1>2. ok \in BOOLEAN
  OBVIOUS
<1> HIDE DEF label, weight, ok
<1> QED
  BY <1>1, <1>2, NewWellKept, EvaluatedWellKept

LEMMA HealthStep == HealthInv /\ [Next]_balancerVars => HealthInv'
<1> SUFFICES ASSUME HealthInv, [Next]_balancerVars PROVE HealthInv'
  OBVIOUS
<1>1. CASE StartRound
  BY <1>1 DEF HealthInv, StartRound
<1>2. CASE Evaluate
  <2> DEFINE n == Head(round)
             ok == backends[n].label \in answering
             c == Evaluated(backends[n], ok)
  <2>1. n \in DOMAIN backends => WellKept(c)
    <3>1. ok \in BOOLEAN
      OBVIOUS
    <3> HIDE DEF ok
    <3> QED
      BY <3>1, EvaluatedWellKept DEF HealthInv
  <2>2. backends' = [backends EXCEPT ![n] = c]
    BY <1>2 DEF Evaluate
  <2> HIDE DEF n, c
  <2> QED
    BY <2>1, <2>2 DEF HealthInv
<1>3. ASSUME NEW hash, Accept(hash) PROVE HealthInv'
  <2> DEFINE o == Selected(Candidates, hash)
  <2>1. CASE UNCHANGED backends
    BY <2>1 DEF HealthInv
  <2>2. CASE backends' = [backends EXCEPT ![o].active = @ + 1]
    <3> HIDE DEF o
    <3> QED
      BY <2>2, MarkedWellKept DEF HealthInv
  <2> QED
    BY <1>3, <2>1, <2>2 DEF Accept
<1>4. ASSUME NEW o \in DOMAIN backends, Close(o) PROVE HealthInv'
  BY <1>4, MarkedWellKept DEF HealthInv, Close
<1>5. CASE StartReload
  BY <1>5 DEF HealthInv, StartReload
<1>6. CASE Retire
  <2> DEFINE n == Head(todo)
  <2>1. UNCHANGED backends \/ backends' = [backends EXCEPT ![n].draining = TRUE]
    BY <1>6 DEF Retire
  <2> HIDE DEF n
  <2>2. CASE UNCHANGED backends
    BY <2>2 DEF HealthInv
  <2>3. CASE backends' = [backends EXCEPT ![n].draining = TRUE]
    <3>1. \A o \in DOMAIN backends :
            WellKept(backends[o]) => WellKept([backends[o] EXCEPT !.draining = TRUE])
      BY MarkedWellKept
    <3> QED
      BY <2>3, <3>1 DEF HealthInv
  <2> QED
    BY <2>1, <2>2, <2>3
<1>7. CASE StartAdmitting
  BY <1>7 DEF HealthInv, StartAdmitting
<1>8. CASE Admit
  <2> DEFINE e == Head(entries)
             found == SelectInSeq(pool, LAMBDA o : backends[o].label = e.label)
  <2>1. CASE UNCHANGED backends
    BY <2>1 DEF HealthInv
  <2>2. CASE backends' = [backends EXCEPT ![pool[found]].weight = Weight(e), ![pool[found]].draining = FALSE]
    <3> DEFINE n == pool[found]
               w == Weight(e)
    <3> HIDE DEF n, w
    <3>1. backends' = [backends EXCEPT ![n].weight = w, ![n].draining = FALSE]
      BY <2>2 DEF n, w
    <3> QED
      BY <3>1, MarkedWellKept DEF HealthInv
  <2>3. CASE backends' = With(NewNumber, Backend(e.label, Weight(e)))
    <3> DEFINE new == Backend(e.label, Weight(e))
    <3>1. WellKept(new)
      BY NewWellKept
    <3> HIDE DEF new
    <3>2. backends' = With(NewNumber, new)
      BY <2>3 DEF new
    <3> QED
      BY <3>1, <3>2 DEF HealthInv, With
  <2> QED
    BY <1>8, <2>1, <2>2, <2>3 DEF Admit
<1>9. ASSUME NEW config, OperatorReloads(config) PROVE HealthInv'
  BY <1>9 DEF HealthInv, OperatorReloads
<1>10. ASSUME NEW label, ServiceChanges(label) PROVE HealthInv'
  BY <1>10 DEF HealthInv, ServiceChanges
<1>11. CASE Terminate
  BY <1>11 DEF HealthInv, Terminate
<1>12. CASE Stop
  BY <1>12 DEF HealthInv, Stop
<1>13. CASE UNCHANGED balancerVars
  BY <1>13 DEF HealthInv, balancerVars
<1> QED
  BY <1>1, <1>2, <1>3, <1>4, <1>5, <1>6, <1>7, <1>8, <1>9, <1>10, <1>11, <1>12, <1>13 DEF Next

\* A backend that is up remembers its success, one that is down has none to remember.
LEMMA HealthInvSuffices == HealthInv => HealthIsRecentOutcome
<1> SUFFICES ASSUME HealthInv, NEW o \in DOMAIN backends
             PROVE  backends[o].healthy <=> "ok" \in Range(backends[o].outcomes)
  BY DEF HealthIsRecentOutcome
<1> DEFINE b == backends[o]
<1>1. WellKept(b)
  BY DEF HealthInv
<1>2. b.outcomes \in Seq({"ok", "failed"}) /\ DOMAIN b.outcomes = 1..Len(b.outcomes) /\ b.healthy \in BOOLEAN
  BY <1>1 DEF WellKept
<1>3. CASE b.healthy
  <2>1. 1 \in DOMAIN b.outcomes /\ b.outcomes[1] = "ok"
    BY <1>1, <1>2, <1>3, BalancerAssumption DEF WellKept, UpSinceSuccess
  <2> QED
    BY <1>3, <2>1 DEF Range
<1>4. CASE ~ b.healthy
  <2>1. \A i \in DOMAIN b.outcomes : b.outcomes[i] = "failed"
    BY <1>1, <1>2, <1>4 DEF WellKept, AllFailed
  <2> QED
    BY <1>4, <2>1 DEF Range
<1> QED
  BY <1>2, <1>3, <1>4

\* Whatever is reloaded, drained or taken back, a backend is up exactly if one of its
\* last Threshold probes succeeded (HealthChecker::evaluate).
THEOREM HealthFollowsProbes == Spec => []HealthIsRecentOutcome
<1>1. Init => HealthInv
  BY HealthInit
<1>2. HealthInv /\ [Next]_balancerVars => HealthInv'
  BY HealthStep
<1>3. HealthInv => HealthIsRecentOutcome
  BY HealthInvSuffices
<1> QED
  BY <1>1, <1>2, <1>3, PTL DEF Spec

-----------------------------------------------------------------------------
(* The elements of a sequence that are in a set.                           *)

KeptStep(seq, set, g, i) ==
  IF i = 0 THEN << >> ELSE IF seq[i] \in set THEN Append(g[i - 1], seq[i]) ELSE g[i - 1]

LEMMA KeptIs == \A seq, set :
  Kept(seq, set) = (CHOOSE g : g = [i \in 0..Len(seq) |-> KeptStep(seq, set, g, i)])[Len(seq)]
  BY DEF Kept, KeptStep

LEMMA KeptExists ==
  ASSUME NEW seq, NEW set
  PROVE  \A m \in Nat : \E g : g = [i \in 0..m |-> KeptStep(seq, set, g, i)]
<1> DEFINE G == {m \in Nat : \E g : g = [i \in 0..m |-> KeptStep(seq, set, g, i)]}
<1>1. 0 \in G
  <2> DEFINE g == [i \in 0..0 |-> << >>]
  <2>1. \A i \in 0..0 : KeptStep(seq, set, g, i) = << >>
    BY DEF KeptStep
  <2>2. g = [i \in 0..0 |-> KeptStep(seq, set, g, i)]
    BY <2>1
  <2> QED
    BY <2>2
<1>2. ASSUME NEW m \in Nat, m \in G PROVE m + 1 \in G
  <2>1. PICK g : g = [i \in 0..m |-> KeptStep(seq, set, g, i)]
    BY <1>2
  <2> DEFINE last == KeptStep(seq, set, g, m + 1)
             h == [i \in 0..m + 1 |-> IF i <= m THEN g[i] ELSE last]
  <2>2. \A i \in 0..m : h[i] = g[i] /\ g[i] = KeptStep(seq, set, g, i)
    BY <2>1
  <2>3. h[m + 1] = last
    OBVIOUS
  <2>4. \A i \in 0..m + 1 : KeptStep(seq, set, h, i) = KeptStep(seq, set, g, i)
    <3> SUFFICES ASSUME NEW i \in 0..m + 1, i # 0 PROVE h[i - 1] = g[i - 1]
      BY DEF KeptStep
    <3>1. i - 1 \in 0..m
      OBVIOUS
    <3> QED
      BY <2>2, <3>1
  <2>5. \A i \in 0..m + 1 : h[i] = KeptStep(seq, set, h, i)
    <3> SUFFICES ASSUME NEW i \in 0..m + 1 PROVE h[i] = KeptStep(seq, set, g, i)
      BY <2>4
    <3>1. i \in 0..m \/ i = m + 1
      OBVIOUS
    <3> HIDE DEF h
    <3> QED
      BY <2>2, <2>3, <3>1
  <2>6. h = [i \in 0..m + 1 |-> KeptStep(seq, set, h, i)]
    <3>1. DOMAIN h = 0..m + 1 /\ h = [i \in DOMAIN h |-> h[i]]
      OBVIOUS
    <3> HIDE DEF h
    <3> QED
      BY <2>5, <3>1
  <2> HIDE DEF h
  <2> QED
    BY <2>6
<1>3. Nat \subseteq G
  <2> HIDE DEF G
  <2> QED
    BY <1>1, <1>2, NatSetInduction
<1> QED
  BY <1>3

Upto(seq, i) == {seq[j] : j \in 1..i}

\* What a solution g of the recursion holds at i: the elements of the set among the first i.
KeptAt(g, seq, set, S, i) == g[i] \in Seq(S) /\ Upto(g[i], Len(g[i])) = Upto(seq, i) \intersect set

LEMMA UptoNext == ASSUME NEW seq, NEW i \in Nat PROVE Upto(seq, i + 1) = Upto(seq, i) \union {seq[i + 1]}
<1>1. \A j \in 1..i + 1 : j \in 1..i \/ j = i + 1
  OBVIOUS
<1>2. i + 1 \in 1..i + 1 /\ \A j \in 1..i : j \in 1..i + 1
  OBVIOUS
<1> QED
  BY <1>1, <1>2 DEF Upto

LEMMA UptoAppend ==
  ASSUME NEW S, NEW s \in Seq(S), NEW e \in S
  PROVE  Upto(Append(s, e), Len(Append(s, e))) = Upto(s, Len(s)) \union {e}
<1> DEFINE a == Append(s, e)
<1>1. /\ Len(a) = Len(s) + 1 /\ a[Len(s) + 1] = e /\ Len(s) \in Nat
      /\ \A j \in 1..Len(s) : a[j] = s[j]
  OBVIOUS
<1> HIDE DEF a
<1>2. Upto(a, Len(s)) = Upto(s, Len(s))
  BY <1>1 DEF Upto
<1> QED
  BY <1>1, <1>2, UptoNext DEF a

LEMMA KeptNext ==
  ASSUME NEW S, NEW seq \in Seq(S), NEW set, NEW g, NEW i \in Nat, i + 1 <= Len(seq),
         KeptAt(g, seq, set, S, i), g[i + 1] = KeptStep(seq, set, g, i + 1)
  PROVE  KeptAt(g, seq, set, S, i + 1)
<1>1. seq[i + 1] \in S /\ (i + 1) - 1 = i /\ i + 1 # 0
  OBVIOUS
<1>2. g[i] \in Seq(S) /\ Upto(g[i], Len(g[i])) = Upto(seq, i) \intersect set
  BY DEF KeptAt
<1>3. g[i + 1] = IF seq[i + 1] \in set THEN Append(g[i], seq[i + 1]) ELSE g[i]
  BY <1>1 DEF KeptStep
<1>4. Upto(seq, i + 1) = Upto(seq, i) \union {seq[i + 1]}
  BY UptoNext
<1>5. CASE seq[i + 1] \in set
  <2>1. Append(g[i], seq[i + 1]) \in Seq(S)
    BY <1>1, <1>2
  <2>2. Upto(g[i + 1], Len(g[i + 1])) = Upto(g[i], Len(g[i])) \union {seq[i + 1]}
    <3>1. PICK s \in Seq(S) : s = g[i]
      BY <1>2
    <3>2. Upto(Append(s, seq[i + 1]), Len(Append(s, seq[i + 1]))) = Upto(s, Len(s)) \union {seq[i + 1]}
      BY <1>1, UptoAppend
    <3> QED
      BY <1>3, <1>5, <3>1, <3>2
  <2>3. g[i + 1] \in Seq(S)
    BY <1>3, <1>5, <2>1
  <2>4. Upto(g[i + 1], Len(g[i + 1])) = Upto(seq, i + 1) \intersect set
    BY <1>2, <1>4, <1>5, <2>2
  <2> QED
    BY <2>3, <2>4 DEF KeptAt
<1>6. CASE seq[i + 1] \notin set
  BY <1>2, <1>3, <1>4, <1>6 DEF KeptAt
<1> QED
  BY <1>5, <1>6

\* What is kept of a sequence.
LEMMA KeptType ==
  ASSUME NEW S, NEW seq \in Seq(S), NEW set
  PROVE  /\ Kept(seq, set) \in Seq(S) /\ Range(Kept(seq, set)) = Range(seq) \intersect set
<1> DEFINE n == Len(seq)
           g == CHOOSE f : f = [i \in 0..n |-> KeptStep(seq, set, f, i)]
           Good == {i \in Nat : i <= n => KeptAt(g, seq, set, S, i)}
<1>1. n \in Nat
  OBVIOUS
<1>2. g = [i \in 0..n |-> KeptStep(seq, set, g, i)]
  <2>1. \E f : f = [i \in 0..n |-> KeptStep(seq, set, f, i)]
    BY <1>1, KeptExists
  <2> HIDE DEF n
  <2> QED
    BY <2>1
<1>3. Kept(seq, set) = g[n]
  BY KeptIs
<1> HIDE DEF g
<1>4. \A i \in 0..n : g[i] = KeptStep(seq, set, g, i)
  BY <1>2
<1>5. 0 \in Good
  <2>1. g[0] = << >>
    BY <1>1, <1>4 DEF KeptStep
  <2>2. KeptAt(g, seq, set, S, 0)
    BY <2>1 DEF KeptAt, Upto
  <2> QED
    BY <2>2
<1>6. ASSUME NEW i \in Nat, i \in Good PROVE i + 1 \in Good
  <2> SUFFICES ASSUME i + 1 <= n PROVE KeptAt(g, seq, set, S, i + 1)
    OBVIOUS
  <2>1. KeptAt(g, seq, set, S, i)
    BY <1>1, <1>6
  <2>2. g[i + 1] = KeptStep(seq, set, g, i + 1)
    <3>1. i + 1 \in 0..n
      BY <1>1
    <3> QED
      BY <1>4, <3>1
  <2> QED
    BY <2>1, <2>2, KeptNext
<1>7. n \in Good
  <2> HIDE DEF Good, n
  <2> QED
    BY <1>1, <1>5, <1>6, NatSetInduction
<1>8. KeptAt(g, seq, set, S, n)
  BY <1>1, <1>7
<1>9. \A s \in Seq(S) : Range(s) = Upto(s, Len(s))
  BY DEF Range, Upto
<1> HIDE DEF n
<1>10. g[n] \in Seq(S) /\ Range(g[n]) = Upto(seq, n) \intersect set
  BY <1>8, <1>9 DEF KeptAt
<1> QED
  BY <1>3, <1>9, <1>10 DEF n

\* Among some numbers there is a least one.
LEMMA LeastOf ==
  ASSUME NEW I \in SUBSET Nat, I # {}
  PROVE  \E x \in I : \A y \in I : x <= y
<1> SUFFICES ASSUME \A x \in I : ~ \A y \in I : x <= y PROVE FALSE
  OBVIOUS
<1> DEFINE G == {n \in Nat : \A y \in I : n <= y}
<1>1. 0 \in G
  OBVIOUS
<1>2. \A n \in Nat : n \in G => n + 1 \in G
  OBVIOUS
<1>3. Nat \subseteq G
  <2> HIDE DEF G
  <2> QED
    BY <1>1, <1>2, NatSetInduction
<1>4. PICK x \in I : TRUE
  OBVIOUS
<1>5. x + 1 \in G
  BY <1>3, <1>4
<1> QED
  BY <1>4, <1>5

LEMMA FirstIn == ASSUME NEW I \in SUBSET Nat, I # {} PROVE Min(I) \in I
  BY LeastOf DEF Min

\* Where BackendPool::find and remove look for a label.
Found(s, label) == SelectInSeq(s, LAMBDA o : backends[o].label = label)

LEMMA LabelFound ==
  ASSUME NEW S, NEW s \in Seq(S), NEW label
  PROVE  IF \E j \in 1..Len(s) : backends[s[j]].label = label
         THEN Found(s, label) \in 1..Len(s) /\ backends[s[Found(s, label)]].label = label
         ELSE Found(s, label) = 0
<1> DEFINE I == {j \in 1..Len(s) : backends[s[j]].label = label}
<1>1. Found(s, label) = IF I # {} THEN Min(I) ELSE 0
  BY DEF SelectInSeq, Found
<1>2. I \in SUBSET Nat
  OBVIOUS
<1>3. I # {} => Min(I) \in I
  <2> HIDE DEF I
  <2> QED
    BY <1>2, FirstIn
<1> QED
  BY <1>1, <1>3

LEMMA SeqWider ==
  ASSUME NEW S, NEW T, S \subseteq T, NEW s \in Seq(S)
  PROVE  s \in Seq(T)
<1>1. Len(s) \in Nat /\ s \in [1..Len(s) -> S]
  OBVIOUS
<1>2. s \in [1..Len(s) -> T]
  BY <1>1
<1> QED
  BY <1>1, <1>2

LEMMA RangeIs == \A S : \A s \in Seq(S) : Range(s) = {s[i] : i \in 1..Len(s)}
  BY DEF Range

LEMMA InOwnRange == ASSUME NEW S, NEW s \in Seq(S) PROVE s \in Seq(Range(s))
<1>1. Len(s) \in Nat /\ DOMAIN s = 1..Len(s) /\ s = [i \in 1..Len(s) |-> s[i]]
  OBVIOUS
<1>2. s \in [1..Len(s) -> Range(s)]
  BY <1>1 DEF Range
<1> QED
  BY <1>1, <1>2

LEMMA TailIs ==
  ASSUME NEW S, NEW s \in Seq(S), s # << >>
  PROVE  /\ Head(s) \in S /\ Tail(s) \in Seq(S) /\ Len(Tail(s)) = Len(s) - 1
         /\ Head(s) \in Range(s) /\ Range(s) = {Head(s)} \union Range(Tail(s))
<1>1. Len(s) \in Nat \ {0} /\ Head(s) = s[1] /\ s[1] \in S
  OBVIOUS
<1>2. /\ Tail(s) \in Seq(S) /\ Len(Tail(s)) = Len(s) - 1
      /\ \A i \in 1..Len(s) - 1 : Tail(s)[i] = s[i + 1]
  OBVIOUS
<1>3. Range(s) = {s[i] : i \in 1..Len(s)} /\ Range(Tail(s)) = {Tail(s)[i] : i \in 1..Len(s) - 1}
  BY <1>2, RangeIs
<1>4. \A i \in 1..Len(s) : i # 1 => i - 1 \in 1..Len(s) - 1 /\ s[i] = Tail(s)[i - 1]
  <2> SUFFICES ASSUME NEW i \in 1..Len(s), i # 1 PROVE i - 1 \in 1..Len(s) - 1 /\ s[i] = Tail(s)[i - 1]
    OBVIOUS
  <2>1. i - 1 \in 1..Len(s) - 1 /\ (i - 1) + 1 = i
    BY <1>1
  <2> QED
    BY <1>2, <2>1
<1>5. 1 \in 1..Len(s) /\ \A i \in 1..Len(s) - 1 : i + 1 \in 1..Len(s)
  BY <1>1
<1>6. Range(s) \subseteq {Head(s)} \union Range(Tail(s))
  <2> SUFFICES ASSUME NEW i \in 1..Len(s) PROVE s[i] \in {Head(s)} \union Range(Tail(s))
    BY <1>3
  <2>1. CASE i = 1
    BY <1>1, <2>1
  <2>2. CASE i # 1
    BY <1>3, <1>4, <2>2
  <2> QED
    BY <2>1, <2>2
<1>7. {Head(s)} \union Range(Tail(s)) \subseteq Range(s)
  BY <1>1, <1>2, <1>3, <1>5
<1> QED
  BY <1>1, <1>2, <1>6, <1>7

\* Removing one element of a sequence without repetitions takes that element out.
LEMMA RemoveOne ==
  ASSUME NEW S, NEW s \in Seq(S), IsInjective(s), NEW i \in 1..Len(s)
  PROVE  /\ RemoveAt(s, i) \in Seq(S) /\ IsInjective(RemoveAt(s, i))
         /\ Range(RemoveAt(s, i)) = Range(s) \ {s[i]}
<1> DEFINE n == Len(s)
           r == RemoveAt(s, i)
           At(j) == IF j < i THEN j ELSE j + 1
<1>1. n \in Nat /\ i \in Nat /\ 1 <= i /\ i <= n /\ DOMAIN s = 1..n
  OBVIOUS
<1>2. /\ r \in Seq(S) /\ Len(r) = n - 1 /\ DOMAIN r = 1..n - 1
      /\ \A j \in 1..n - 1 : r[j] = s[At(j)]
  <2> DEFINE a == SubSeq(s, 1, i - 1)
             b == SubSeq(s, i + 1, Len(s))
  <2>1. a \in Seq(S) /\ Len(a) = i - 1 /\ \A j \in 1..i - 1 : a[j] = s[j]
    BY <1>1
  <2>2. b \in Seq(S) /\ Len(b) = n - i /\ \A j \in 1..n - i : b[j] = s[i + j]
    <3>1. i + 1 \in Nat /\ 1 <= i + 1 /\ n - (i + 1) + 1 = n - i
      BY <1>1
    <3>2. b \in Seq(S)
      BY <1>1, <3>1
    <3>3. Len(b) = n - i
      <4>1. \A j \in (i + 1)..n : s[j] \in S
        BY <1>1
      <4>2. Len(SubSeq(s, i + 1, n)) = IF i + 1 <= n THEN n - (i + 1) + 1 ELSE 0
        BY <1>1, <3>1, <4>1, SubSeqProperties
      <4>3. Len(b) = IF i + 1 <= n THEN n - (i + 1) + 1 ELSE 0
        BY <4>2
      <4> HIDE DEF b, n
      <4> QED
        BY <1>1, <3>1, <4>3
    <3>4. ASSUME NEW j \in 1..n - i PROVE b[j] = s[i + j]
      <4>1. b[j] = s[(i + 1) + j - 1]
        BY <1>1, <3>1, <3>4
      <4>2. (i + 1) + j - 1 = i + j
        BY <1>1
      <4> QED
        BY <4>1, <4>2
    <3> QED
      BY <3>2, <3>3, <3>4
  <2>3. r = a \o b
    BY DEF RemoveAt
  <2> HIDE DEF a, b, r, n
  <2>4. r \in Seq(S) /\ Len(r) = n - 1 /\ DOMAIN r = 1..n - 1
    BY <1>1, <2>1, <2>2, <2>3
  <2>5. ASSUME NEW j \in 1..n - 1 PROVE r[j] = s[At(j)]
    <3>1. CASE j < i
      <4>1. j \in 1..i - 1
        BY <1>1, <3>1
      <4>2. r[j] = a[j]
        BY <1>1, <2>1, <2>2, <2>3, <4>1
      <4> QED
        BY <2>1, <3>1, <4>1, <4>2
    <3>2. CASE ~ (j < i)
      <4>1. j - (i - 1) \in 1..n - i /\ i + (j - (i - 1)) = j + 1
        BY <1>1, <3>2
      <4>2. r[j] = b[j - (i - 1)]
        BY <1>1, <2>1, <2>2, <2>3, <3>2
      <4> QED
        BY <2>2, <3>2, <4>1, <4>2
    <3> QED
      BY <3>1, <3>2
  <2> QED
    BY <2>4, <2>5
<1>3. \A j \in 1..n - 1 : At(j) \in 1..n /\ At(j) # i
  BY <1>1
<1>4. \A j, k \in 1..n - 1 : At(j) = At(k) => j = k
  BY <1>1
<1>5. \A k \in 1..n : k # i => \E j \in 1..n - 1 : At(j) = k
  <2> SUFFICES ASSUME NEW k \in 1..n, k # i PROVE \E j \in 1..n - 1 : At(j) = k
    OBVIOUS
  <2>1. CASE k < i
    <3>1. k \in 1..n - 1 /\ At(k) = k
      BY <1>1, <2>1
    <3> QED
      BY <3>1
  <2>2. CASE ~ (k < i)
    <3>1. k - 1 \in 1..n - 1 /\ At(k - 1) = k
      BY <1>1, <2>2
    <3> QED
      BY <3>1
  <2> QED
    BY <2>1, <2>2
<1> HIDE DEF At, r, n
<1>6. \A j, k \in 1..n : s[j] = s[k] => j = k
  BY <1>1 DEF IsInjective
<1>7. IsInjective(r)
  BY <1>2, <1>3, <1>4, <1>6, SMTT(30) DEF IsInjective
<1>8. Range(r) = {r[j] : j \in 1..n - 1} /\ Range(s) = {s[k] : k \in 1..n}
  BY <1>1, <1>2 DEF Range
<1>9. Range(r) \subseteq Range(s) \ {s[i]}
  BY <1>1, <1>2, <1>3, <1>6, <1>8
<1>10. Range(s) \ {s[i]} \subseteq Range(r)
  BY <1>2, <1>5, <1>8
<1> QED
  BY <1>2, <1>7, <1>9, <1>10 DEF r

LEMMA RemoveNone == ASSUME NEW S, NEW s \in Seq(S) PROVE RemoveAt(s, 0) = s
<1>1. SubSeq(s, 1, 0 - 1) = << >>
  OBVIOUS
<1>2. SubSeq(s, 0 + 1, Len(s)) = s
  OBVIOUS
<1>3. << >> \o s = s
  OBVIOUS
<1> QED
  BY <1>1, <1>2, <1>3 DEF RemoveAt

\* A sum of naturals is a natural, and at least one of them each.
LEMMA SumAtLeast ==
  ASSUME NEW S, IsFiniteSet(S), NEW f \in [S -> Nat]
  PROVE  SumFunction(f) \in Nat /\ \A x \in S : f[x] <= SumFunction(f)
<1> DEFINE On(T) == SumFunctionOnSet(f, T)
           G == {T \in SUBSET S : On(T) >= 0}
<1>1. \A T \in SUBSET S : IsFiniteSet(T) /\ On(T) \in Int
  BY FS_Subset, SumOnType
<1>2. ASSUME NEW T \in SUBSET S, NEW x \in T PROVE On(T) = f[x] + On(T \ {x})
  BY <1>1, SumOnTake
<1>3. ASSUME NEW T \in SUBSET S, \A U \in SUBSET T : U # T => U \in G
      PROVE  T \in G
  <2>1. CASE T = {}
    BY <2>1, SumEmpty
  <2>2. CASE T # {}
    <3>1. PICK x \in T : TRUE
      BY <2>2
    <3>2. T \ {x} \in G
      BY <1>3, <3>1
    <3>3. On(T) = f[x] + On(T \ {x})
      BY <1>2, <3>1
    <3> HIDE DEF On
    <3> QED
      BY <1>1, <3>2, <3>3
  <2> QED
    BY <2>1, <2>2
<1>4. \A T \in SUBSET S : T \in G
  <2> HIDE DEF G
  <2> QED
    BY <1>3, SubsetInduction
<1>5. /\ On(S) \in Int /\ On(S) >= 0
      /\ \A x \in S : On(S) = f[x] + On(S \ {x}) /\ On(S \ {x}) \in Int /\ On(S \ {x}) >= 0
  BY <1>1, <1>2, <1>4
<1>6. SumFunction(f) = On(S)
  BY DEF SumFunction
<1> HIDE DEF On
<1>7. SumFunction(f) \in Nat
  BY <1>5, <1>6
<1>8. ASSUME NEW x \in S PROVE f[x] <= SumFunction(f)
  <2>1. f[x] \in Nat
    OBVIOUS
  <2>2. PICK rest \in Int : rest >= 0 /\ On(S) = f[x] + rest
    BY <1>5
  <2> QED
    BY <1>6, <2>1, <2>2
<1> QED
  BY <1>7, <1>8

-----------------------------------------------------------------------------
(* The choice of a backend.                                                *)

Strategies == {"round_robin", "least_connections", "weighted", "ip_hash"}

BackendObject ==
  [label : Labels \ Malformed, weight : Nat \ {0}, healthy : BOOLEAN, fails : 0..Threshold,
   draining : BOOLEAN, active : 0..MaxConns, outcomes : Seq({"ok", "failed"})]

BackendsTyped == \E n \in Nat : backends \in [1..n -> BackendObject]

LEMMA TurnsType ==
  ASSUME BackendsTyped, NEW seen \in Seq(DOMAIN backends)
  PROVE  Turns(seen) \in Seq(Nat \ {0}) /\ Len(Turns(seen)) = Len(seen)
<1> DEFINE T == Turns(seen)
<1>1. Len(seen) \in Nat /\ DOMAIN seen = 1..Len(seen) /\ \A i \in DOMAIN seen : seen[i] \in DOMAIN backends
  OBVIOUS
<1>2. \A o \in DOMAIN backends : backends[o].weight \in Nat \ {0}
  BY DEF BackendsTyped, BackendObject
<1>3. DOMAIN T = 1..Len(seen) /\ \A i \in 1..Len(seen) : T[i] \in Nat \ {0}
  BY <1>1, <1>2 DEF Turns
<1>4. T = [i \in 1..Len(seen) |-> T[i]]
  BY <1>1 DEF Turns
<1> HIDE DEF T
<1>5. T \in [1..Len(seen) -> Nat \ {0}]
  BY <1>3, <1>4
<1>6. T \in Seq(Nat \ {0}) /\ Len(T) = Len(seen)
  BY <1>1, <1>5
<1> QED
  BY <1>6 DEF T

\* The sum of the turns of a cycle is not zero.
LEMMA CycleLength ==
  ASSUME NEW T \in Seq(Nat \ {0}), T # << >>
  PROVE  Sum(T) \in Nat \ {0}
<1>1. Len(T) \in Nat /\ 1 \in 1..Len(T) /\ T[1] \in Nat \ {0} /\ T \in [1..Len(T) -> Nat]
  OBVIOUS
<1>2. IsFiniteSet(1..Len(T))
  BY <1>1, FS_Interval
<1>3. SumFunction(T) \in Nat /\ T[1] <= SumFunction(T)
  BY <1>1, <1>2, SumAtLeast
<1> QED
  BY <1>1, <1>3 DEF Sum

\* The first element of a sequence with a property is one of its elements.
LEMMA TurnIn ==
  ASSUME BackendsTyped, NEW seen \in Seq(DOMAIN backends), seen # << >>, NEW slot \in Nat,
         slot < Sum(Turns(seen))
  PROVE  TurnOf(seen, slot) \in Range(seen)
<1> DEFINE T == Turns(seen)
           Below(i) == slot < Sum(SubSeq(T, 1, i))
           F == [i \in DOMAIN seen |-> Below(i)]
           I == {i \in 1..Len(F) : F[i]}
<1>1. T \in Seq(Nat \ {0}) /\ Len(T) = Len(seen)
  BY TurnsType
<1>2. Len(seen) \in Nat /\ Len(seen) \in 1..Len(seen) /\ DOMAIN seen = 1..Len(seen)
  OBVIOUS
<1>3. SubSeq(T, 1, Len(seen)) = T
  BY <1>1, SubSeqFull
<1>4. Below(Len(seen))
  BY <1>3
<1>5. SelectInSeq(F, LAMBDA x : x) = IF I # {} THEN Min(I) ELSE 0
  BY DEF SelectInSeq
<1>6. TurnOf(seen, slot) = seen[SelectInSeq(F, LAMBDA x : x)]
  BY DEF TurnOf
<1> HIDE DEF Below
<1>7. Len(F) = Len(seen)
  BY <1>2
<1>8. \A i \in 1..Len(seen) : F[i] <=> Below(i)
  BY <1>2
<1> HIDE DEF F
<1>9. Len(seen) \in I /\ I \in SUBSET Nat /\ I \subseteq 1..Len(seen)
  BY <1>2, <1>4, <1>7, <1>8
<1> HIDE DEF I
<1>10. Min(I) \in 1..Len(seen)
  BY <1>9, FirstIn
<1>11. TurnOf(seen, slot) = seen[Min(I)]
  BY <1>5, <1>6, <1>9
<1> QED
  BY <1>2, <1>10, <1>11 DEF Range

LEMMA LeastIn ==
  ASSUME BackendsTyped, NEW seen \in Seq(DOMAIN backends), seen # << >>
  PROVE  seen[SelectInSeq(seen, LAMBDA o : \A p \in Range(seen) : backends[o].active <= backends[p].active)]
           \in Range(seen)
<1> DEFINE Least(o) == \A p \in Range(seen) : backends[o].active <= backends[p].active
           I == {i \in 1..Len(seen) : Least(seen[i])}
           A == {backends[p].active : p \in Range(seen)}
<1>1. SelectInSeq(seen, LAMBDA o : \A p \in Range(seen) : backends[o].active <= backends[p].active)
        = IF I # {} THEN Min(I) ELSE 0
  BY DEF SelectInSeq
<1>2. /\ Len(seen) \in Nat /\ 1 \in 1..Len(seen) /\ DOMAIN seen = 1..Len(seen)
      /\ Range(seen) = {seen[i] : i \in 1..Len(seen)} /\ Range(seen) \subseteq DOMAIN backends
  BY DEF Range
<1>3. \A o \in DOMAIN backends : backends[o].active \in Nat
  BY BalancerAssumption DEF BackendsTyped, BackendObject
<1>4. A \in SUBSET Nat /\ A # {}
  BY <1>2, <1>3
<1>5. Min(A) \in A
  <2> HIDE DEF A
  <2> QED
    BY <1>4, FirstIn
<1>6. \A x \in A : Min(A) <= x
  <2>1. \E x \in A : \A y \in A : x <= y
    <3> HIDE DEF A
    <3> QED
      BY <1>4, LeastOf
  <2> HIDE DEF A
  <2> QED
    BY <2>1 DEF Min
<1>7. PICK j \in 1..Len(seen) : Min(A) = backends[seen[j]].active
  BY <1>2, <1>5
<1>8. j \in I
  BY <1>6, <1>7
<1>9. I \in SUBSET Nat /\ I \subseteq 1..Len(seen)
  OBVIOUS
<1> HIDE DEF I
<1>10. Min(I) \in 1..Len(seen)
  BY <1>8, <1>9, FirstIn
<1> QED
  BY <1>1, <1>2, <1>8, <1>10

\* Every strategy chooses one of the candidates it is shown.
LEMMA SelectedIn ==
  ASSUME strategy \in Strategies, counter \in Nat, BackendsTyped,
         NEW seen \in Seq(DOMAIN backends), seen # << >>, NEW hash \in Nat
  PROVE  Selected(seen, hash) \in Range(seen)
<1>1. Len(seen) \in Nat \ {0} /\ DOMAIN seen = 1..Len(seen)
  OBVIOUS
<1>2. CASE InTurn
  <2>1. Turns(seen) \in Seq(Nat \ {0}) /\ Turns(seen) # << >>
    BY <1>1, TurnsType
  <2>2. Sum(Turns(seen)) \in Nat \ {0}
    BY <2>1, CycleLength
  <2>3. PICK total \in Nat \ {0} : total = Sum(Turns(seen))
    BY <2>2
  <2>4. counter % total \in Nat /\ counter % total < total
    BY <2>3
  <2>5. Selected(seen, hash) = TurnOf(seen, counter % total)
    BY <1>2, <2>3 DEF Selected, InTurn
  <2> QED
    BY <2>3, <2>4, <2>5, TurnIn
<1>3. CASE strategy = "ip_hash"
  <2>1. (hash % Len(seen)) + 1 \in 1..Len(seen)
    BY <1>1
  <2>2. Selected(seen, hash) = seen[(hash % Len(seen)) + 1]
    BY <1>3 DEF Selected, InTurn
  <2> QED
    BY <1>1, <2>1, <2>2 DEF Range
<1>4. CASE strategy = "least_connections"
  <2>1. Selected(seen, hash) =
          seen[SelectInSeq(seen, LAMBDA o : \A p \in Range(seen) : backends[o].active <= backends[p].active)]
    BY <1>4 DEF Selected, InTurn
  <2> QED
    BY <2>1, LeastIn
<1> QED
  BY <1>2, <1>3, <1>4 DEF Strategies, InTurn

-----------------------------------------------------------------------------
(* The invariant.                                                          *)

Objects == DOMAIN backends

PoolTyped ==
  /\ strategy \in Strategies
  /\ BackendsTyped
  /\ pool \in Seq(Objects) /\ IsInjective(pool)
  /\ todo \in Seq(Objects) /\ round \in Seq(Objects)
  /\ counter \in 0..(Cycle - 1)
  /\ loop \in {"idle", "retire", "admit"} /\ phase \in {"serving", "draining", "stopped"}
  /\ reloadFlag \in BOOLEAN
  /\ current \in Configs /\ file \in Configs \union {Broken}

\* The objects of the pool that clients can be sent to, once they are up.
Taking == {p \in Range(pool) : ~ backends[p].draining}

InService == \A p \in Taking : backends[p].label \in LabelsIn(current)

\* Clients can be sent to the first k configured backends, with a weight these give.
Served(k) ==
  \A i \in 1..k : current[i].label \notin Malformed =>
    \E p \in Taking, j \in 1..k :
      /\ backends[p].label = current[i].label /\ current[j].label = current[i].label
      /\ backends[p].weight = Weight(current[j])

\* What is left to admit is an end of the configuration.
Suffix ==
  /\ entries \in Seq(Range(current)) /\ Len(entries) \in 1..Len(current)
  /\ \A i \in 1..Len(entries) : entries[i] = current[Len(current) - Len(entries) + i]

FileInv == ~ reloadFlag /\ file # Broken => current = file

\* Retiring, what is no longer configured and still takes clients is yet to be looked at.
RetireInv ==
  /\ loop # "retire" => todo = << >>
  /\ loop = "retire" => \A p \in Taking : p \in Range(todo) \/ backends[p].label \in LabelsIn(current)

\* Admitting, only configured backends take clients and the entries gone through are served.
AdmitInv == loop = "admit" => InService /\ Suffix /\ Served(Len(current) - Len(entries))

IdleInv == loop = "idle" /\ phase # "stopped" => InService /\ Served(Len(current))

\* How far a reload has come.
LoopInv == FileInv /\ RetireInv /\ AdmitInv /\ IdleInv

LbInv == PoolTyped /\ HealthInv /\ LoopInv

-----------------------------------------------------------------------------
(* What the invariant says of the properties.                              *)

LEMMA ConfigType ==
  \A c \in Configs : /\ c \in Seq([label : Labels, weight : Nat]) /\ c # << >>
                     /\ Len(c) \in Nat \ {0} /\ DOMAIN c = 1..Len(c)
                     /\ \A i \in 1..Len(c) : c[i].label \in Labels /\ c[i].weight \in Nat
<1> SUFFICES ASSUME NEW c \in Configs
             PROVE  /\ c \in Seq([label : Labels, weight : Nat]) /\ c # << >>
                    /\ Len(c) \in Nat \ {0} /\ DOMAIN c = 1..Len(c)
                    /\ \A i \in 1..Len(c) : c[i].label \in Labels /\ c[i].weight \in Nat
  OBVIOUS
<1> DEFINE E == [label : Labels, weight : Nat]
<1>1. c \in Seq(E) /\ c # << >>
  BY BalancerAssumption
<1>2. Len(c) \in Nat \ {0} /\ DOMAIN c = 1..Len(c) /\ \A i \in 1..Len(c) : c[i] \in E
  <2> HIDE DEF E
  <2> QED
    BY <1>1
<1> QED
  BY <1>1, <1>2

LEMMA PoolIs ==
  ASSUME PoolTyped
  PROVE  /\ Range(pool) \subseteq Objects /\ Range(pool) = {pool[i] : i \in 1..Len(pool)}
         /\ \A o \in Objects : backends[o] \in BackendObject
  BY DEF PoolTyped, Objects, BackendsTyped, Range

LEMMA InvType == ASSUME LbInv PROVE TypeOK
<1>1. Range(pool) \subseteq Objects /\ \A o \in Objects : backends[o] \in BackendObject
  BY PoolIs DEF LbInv
<1>2. Range(todo) \subseteq Objects /\ Range(round) \subseteq Objects
  BY DEF LbInv, PoolTyped, Range
<1>3. ASSUME NEW o \in Objects
      PROVE  LET b == backends[o] IN
             /\ b.label \in Labels \ Malformed /\ b.weight \in Nat \ {0}
             /\ b.fails \in 0..Threshold /\ (b.healthy => b.fails < Threshold)
             /\ b.active \in 0..MaxConns
  <2>1. backends[o] \in BackendObject /\ WellKept(backends[o])
    BY <1>1, <1>3 DEF LbInv, HealthInv, Objects
  <2> QED
    BY <2>1, BalancerAssumption DEF BackendObject, WellKept, UpSinceSuccess
<1> QED
  BY <1>1, <1>2, <1>3 DEF LbInv, PoolTyped, TypeOK, Objects

LEMMA InvConfig == ASSUME LbInv PROVE ConfigInForce
<1> SUFFICES ASSUME phase # "stopped", loop = "idle", ~ reloadFlag PROVE
      LET inForce == {backends[o] : o \in {p \in Range(pool) : ~ backends[p].draining}}
          configured == LabelsIn(current) \ Malformed
      IN /\ file # Broken => current = file
         /\ {b.label : b \in inForce} = configured
         /\ \A label \in configured : \E b \in inForce, i \in DOMAIN current :
              /\ b.label = label
              /\ current[i].label = label /\ b.weight = Weight(current[i])
  BY DEF ConfigInForce
<1> DEFINE inForce == {backends[o] : o \in Taking}
           configured == LabelsIn(current) \ Malformed
<1>1. /\ file # Broken => current = file
      /\ InService /\ Served(Len(current))
  BY DEF LbInv, LoopInv, FileInv, IdleInv
<1>2. DOMAIN current = 1..Len(current)
  BY ConfigType DEF LbInv, PoolTyped
<1>3. \A p \in Taking : backends[p].label \in configured
  BY <1>1, PoolIs DEF InService, Taking, BackendObject, LbInv
<1>4. ASSUME NEW label \in configured
      PROVE  \E b \in inForce, i \in DOMAIN current :
               b.label = label /\ current[i].label = label /\ b.weight = Weight(current[i])
  <2>1. PICK i \in 1..Len(current) : current[i].label = label
    BY <1>2 DEF LabelsIn
  <2>2. PICK p \in Taking, j \in 1..Len(current) :
          /\ backends[p].label = label /\ current[j].label = label
          /\ backends[p].weight = Weight(current[j])
    BY <1>1, <1>4, <2>1 DEF Served
  <2> QED
    BY <1>2, <2>2
<1>5. {b.label : b \in inForce} = configured
  BY <1>3, <1>4
<1>6. inForce = {backends[o] : o \in {p \in Range(pool) : ~ backends[p].draining}}
  BY DEF Taking
<1> QED
  BY <1>1, <1>4, <1>5, <1>6

-----------------------------------------------------------------------------
(* Steps that change neither the pool nor what its objects are.            *)

SameMarks ==
  /\ DOMAIN backends' = DOMAIN backends
  /\ \A o \in DOMAIN backends : /\ backends'[o].label = backends[o].label
                                /\ backends'[o].weight = backends[o].weight
                                /\ backends'[o].draining = backends[o].draining

LEMMA QuietLoop ==
  ASSUME LbInv, SameMarks, UNCHANGED <<pool, current, loop, todo, entries>>, FileInv',
         phase = "stopped" => phase' = "stopped"
  PROVE  LoopInv'
<1>1. \A p \in Range(pool) : p \in DOMAIN backends
  BY PoolIs DEF LbInv, Objects
<1>2. Taking' = Taking /\ Taking \subseteq DOMAIN backends
  BY <1>1 DEF Taking, SameMarks
<1>3. \A p \in Taking : backends'[p].label = backends[p].label /\ backends'[p].weight = backends[p].weight
  BY <1>2 DEF SameMarks
<1>4. InService => InService'
  BY <1>2, <1>3 DEF InService
<1>5. RetireInv'
  BY <1>2, <1>3 DEF LbInv, LoopInv, RetireInv
<1>6. ASSUME NEW k, Served(k) PROVE Served(k)'
  BY <1>2, <1>3, <1>6 DEF Served
<1>7. Suffix => Suffix'
  BY DEF Suffix
<1>8. AdmitInv'
  <2> SUFFICES ASSUME loop = "admit" PROVE AdmitInv'
    BY DEF AdmitInv
  <2>1. PICK k : k = Len(current) - Len(entries)
    OBVIOUS
  <2>2. InService /\ Suffix /\ Served(k)
    BY <2>1 DEF LbInv, LoopInv, AdmitInv
  <2>3. Served(k)'
    BY <1>6, <2>2
  <2>4. k = Len(current)' - Len(entries)'
    BY <2>1
  <2> QED
    BY <1>4, <1>7, <2>2, <2>3, <2>4 DEF AdmitInv, Served
<1>9. IdleInv'
  <2> SUFFICES ASSUME loop = "idle", phase # "stopped" PROVE IdleInv'
    BY DEF IdleInv
  <2>1. PICK k : k = Len(current)
    OBVIOUS
  <2>2. InService /\ Served(k)
    BY <2>1 DEF LbInv, LoopInv, IdleInv
  <2>3. Served(k)'
    BY <1>6, <2>2
  <2>4. k = Len(current)'
    BY <2>1
  <2> QED
    BY <1>4, <2>2, <2>3, <2>4 DEF IdleInv, Served
<1> QED
  BY <1>5, <1>8, <1>9 DEF LoopInv

\* One object is replaced by another of its kind.
LEMMA OneChanged ==
  ASSUME BackendsTyped, NEW o \in DOMAIN backends, NEW b \in BackendObject,
         backends' = [backends EXCEPT ![o] = b]
  PROVE  BackendsTyped' /\ DOMAIN backends' = DOMAIN backends
  BY DEF BackendsTyped

LEMMA Probed ==
  ASSUME NEW b \in BackendObject, WellKept(b), NEW ok \in BOOLEAN
  PROVE  /\ Evaluated(b, ok) \in BackendObject
         /\ Evaluated(b, ok).label = b.label /\ Evaluated(b, ok).weight = b.weight
         /\ Evaluated(b, ok).draining = b.draining
<1> DEFINE c == Evaluated(b, ok)
<1>1. WellKept(c)
  BY EvaluatedWellKept
<1>2. c.outcomes \in Seq({"ok", "failed"}) /\ c.fails \in 0..Threshold /\ c.healthy \in BOOLEAN
  BY <1>1 DEF WellKept
<1>3. /\ c = [b EXCEPT !.healthy = c.healthy, !.fails = c.fails, !.outcomes = c.outcomes]
      /\ c.label = b.label /\ c.weight = b.weight /\ c.draining = b.draining
  BY DEF Evaluated, BackendObject
<1> HIDE DEF c
<1>4. c \in BackendObject
  BY <1>2, <1>3 DEF BackendObject
<1> QED
  BY <1>3, <1>4 DEF c

LEMMA SeqsWiden ==
  ASSUME NEW S, NEW T, S \subseteq T
  PROVE  \A s \in Seq(S) : s \in Seq(T)
  BY SeqWider

LEMMA EvaluateKeeps == ASSUME LbInv, HealthInv', Evaluate PROVE LbInv'
<1>1. PICK o \in Objects : o = Head(round) /\ round \in Seq(Objects) /\ Tail(round) \in Seq(Objects)
  BY TailIs DEF LbInv, PoolTyped, Evaluate
<1> DEFINE ok == backends[o].label \in answering
<1>2. ok \in BOOLEAN
  OBVIOUS
<1>3. backends[o] \in BackendObject /\ WellKept(backends[o])
  BY PoolIs DEF LbInv, HealthInv, Objects
<1>4. PICK b \in BackendObject :
        /\ b = Evaluated(backends[o], ok)
        /\ b.label = backends[o].label /\ b.weight = backends[o].weight /\ b.draining = backends[o].draining
  <2> HIDE DEF ok
  <2> QED
    BY <1>2, <1>3, Probed
<1>5. backends' = [backends EXCEPT ![o] = b]
  BY <1>1, <1>4 DEF Evaluate
<1>6. BackendsTyped' /\ Objects' = Objects
  BY <1>5, OneChanged DEF LbInv, PoolTyped, Objects
<1>7. SameMarks
  BY <1>4, <1>5, <1>6 DEF SameMarks, Objects
<1>8. LoopInv'
  BY <1>7, QuietLoop DEF LbInv, LoopInv, FileInv, Evaluate, loopVars, configVars
<1>9. PoolTyped'
  BY <1>1, <1>6 DEF LbInv, PoolTyped, Evaluate, loopVars, configVars
<1> QED
  BY <1>8, <1>9 DEF LbInv

LEMMA ActiveIsSum ==
  ASSUME BackendsTyped
  PROVE  \A o \in DOMAIN backends : backends[o].active <= Active
<1> DEFINE f == [o \in DOMAIN backends |-> backends[o].active]
<1>1. PICK n \in Nat : backends \in [1..n -> BackendObject]
  BY DEF BackendsTyped
<1>2. IsFiniteSet(DOMAIN backends)
  BY <1>1, FS_Interval
<1>3. f \in [DOMAIN backends -> Nat] /\ \A o \in DOMAIN backends : f[o] = backends[o].active
  BY <1>1, BalancerAssumption DEF BackendObject
<1>4. Active = SumFunction(f)
  BY DEF Active
<1> HIDE DEF f
<1> QED
  BY <1>2, <1>3, <1>4, SumAtLeast

\* The candidates are objects of the pool that are up and not being drained.
LEMMA CandidatesAre ==
  ASSUME PoolTyped
  PROVE  /\ Candidates \in Seq(Objects)
         /\ \A o \in Range(Candidates) : o \in Range(pool) /\ ~ backends[o].draining
<1> DEFINE E == {o \in Range(pool) : Eligible(backends[o])}
<1>1. Kept(pool, E) \in Seq(Objects) /\ Range(Kept(pool, E)) = Range(pool) \intersect E
  <2> HIDE DEF E
  <2> QED
    BY KeptType DEF PoolTyped
<1> QED
  BY <1>1 DEF Candidates, Eligible

\* A client goes to an object of the pool that is not being drained.
LEMMA AcceptsTaking ==
  ASSUME LbInv, NEW hash \in Nat, Accept(hash)
  PROVE  \E o \in Taking : /\ o \in Objects /\ backends[o].active < MaxConns
                           /\ \/ UNCHANGED backends
                              \/ backends' = [backends EXCEPT ![o].active = @ + 1]
<1>1. /\ strategy \in Strategies /\ counter \in Nat /\ BackendsTyped
      /\ Candidates \in Seq(Objects) /\ Candidates # << >>
  BY CandidatesAre, BalancerAssumption DEF LbInv, PoolTyped, Accept
<1>2. PICK o : o = Selected(Candidates, hash)
  OBVIOUS
<1>3. o \in Range(Candidates)
  BY <1>1, <1>2, SelectedIn DEF Objects
<1>4. o \in Taking
  BY <1>3, CandidatesAre DEF LbInv, Taking
<1>5. o \in Objects
  BY <1>4, PoolIs DEF LbInv, Taking
<1>6. Active < MaxConns /\ backends[o].active <= Active
  BY <1>1, <1>5, ActiveIsSum DEF Accept, Objects
<1>7. backends[o].active \in Nat /\ MaxConns \in Nat
  BY <1>5, PoolIs, BalancerAssumption DEF LbInv, BackendObject
<1>8. Active \in Int
  <2> DEFINE f == [p \in DOMAIN backends |-> backends[p].active]
  <2>1. PICK n \in Nat : backends \in [1..n -> BackendObject]
    BY <1>1 DEF BackendsTyped
  <2>2. IsFiniteSet(DOMAIN backends) /\ f \in [DOMAIN backends -> Int]
    BY <2>1, FS_Interval, BalancerAssumption DEF BackendObject
  <2>3. Active = SumFunction(f)
    BY DEF Active
  <2> HIDE DEF f
  <2> QED
    BY <2>2, <2>3, SumType
<1>9. backends[o].active < MaxConns
  BY <1>6, <1>7, <1>8
<1>10. UNCHANGED backends \/ backends' = [backends EXCEPT ![o].active = @ + 1]
  BY <1>2 DEF Accept
<1> QED
  BY <1>4, <1>5, <1>9, <1>10

LEMMA CountChanged ==
  ASSUME LbInv, NEW o \in Objects, NEW count \in 0..MaxConns, backends' = [backends EXCEPT ![o].active = count]
  PROVE  BackendsTyped' /\ Objects' = Objects /\ SameMarks
<1>1. backends[o] \in BackendObject
  BY PoolIs DEF LbInv
<1>2. PICK b : b = [backends[o] EXCEPT !.active = count]
  OBVIOUS
<1>3. b \in BackendObject /\ b.label = backends[o].label /\ b.weight = backends[o].weight /\ b.draining = backends[o].draining
  BY <1>1, <1>2 DEF BackendObject
<1>4. backends' = [backends EXCEPT ![o] = b]
  BY <1>2
<1>5. BackendsTyped' /\ Objects' = Objects
  BY <1>3, <1>4, OneChanged DEF LbInv, PoolTyped, Objects
<1> QED
  BY <1>3, <1>4, <1>5 DEF SameMarks, Objects

LEMMA AcceptKeeps == ASSUME LbInv, HealthInv', NEW hash \in Nat, Accept(hash) PROVE LbInv'
<1>1. BackendsTyped' /\ Objects' = Objects /\ SameMarks
  <2>1. PICK o \in Objects : /\ backends[o].active < MaxConns
                             /\ \/ UNCHANGED backends
                                \/ backends' = [backends EXCEPT ![o].active = @ + 1]
    BY AcceptsTaking
  <2>2. CASE UNCHANGED backends
    BY <2>2 DEF LbInv, PoolTyped, BackendsTyped, Objects, SameMarks
  <2>3. CASE backends' = [backends EXCEPT ![o].active = @ + 1]
    <3>1. PICK count : count = backends[o].active + 1
      OBVIOUS
    <3>2. count \in 0..MaxConns
      BY <2>1, <3>1, PoolIs, BalancerAssumption DEF LbInv, BackendObject
    <3>3. backends' = [backends EXCEPT ![o].active = count]
      BY <2>3, <3>1
    <3> QED
      BY <3>2, <3>3, CountChanged
  <2> QED
    BY <2>1, <2>2, <2>3
<1>2. LoopInv'
  BY <1>1, QuietLoop DEF LbInv, LoopInv, FileInv, Accept, loopVars, configVars
<1>3. counter' \in 0..(Cycle - 1)
  <2>1. counter \in Nat /\ Cycle \in Nat \ {0} /\ counter \in 0..(Cycle - 1)
    BY BalancerAssumption DEF LbInv, PoolTyped
  <2>2. (counter + 1) % Cycle \in 0..(Cycle - 1)
    BY <2>1
  <2>3. counter' = (counter + 1) % Cycle \/ counter' = counter
    BY DEF Accept
  <2> QED
    BY <2>1, <2>2, <2>3
<1>4. PoolTyped'
  BY <1>1, <1>3 DEF LbInv, PoolTyped, Accept, loopVars, configVars
<1> QED
  BY <1>2, <1>4 DEF LbInv

LEMMA CloseKeeps == ASSUME LbInv, HealthInv', NEW o \in Objects, Close(o) PROVE LbInv'
<1>1. PICK count : count = backends[o].active - 1
  OBVIOUS
<1>2. count \in 0..MaxConns
  BY <1>1, PoolIs, BalancerAssumption DEF LbInv, BackendObject, Close
<1>3. backends' = [backends EXCEPT ![o].active = count]
  BY <1>1 DEF Close
<1>4. BackendsTyped' /\ Objects' = Objects /\ SameMarks
  BY <1>2, <1>3, CountChanged
<1>5. LoopInv'
  BY <1>4, QuietLoop DEF LbInv, LoopInv, FileInv, Close, loopVars, configVars
<1>6. PoolTyped'
  BY <1>4 DEF LbInv, PoolTyped, Close, loopVars, configVars
<1> QED
  BY <1>5, <1>6 DEF LbInv

-----------------------------------------------------------------------------
(* A reload.                                                               *)

LEMMA StartReloadKeeps == ASSUME LbInv, HealthInv', StartReload PROVE LbInv'
<1>1. BackendsTyped' /\ Objects' = Objects /\ SameMarks
  BY DEF StartReload, LbInv, PoolTyped, BackendsTyped, Objects, SameMarks
<1>2. CASE file = Broken
  <2>1. LoopInv'
    BY <1>1, <1>2, QuietLoop DEF LbInv, LoopInv, FileInv, StartReload
  <2>2. PoolTyped'
    BY <1>1, <1>2 DEF LbInv, PoolTyped, StartReload
  <2> QED
    BY <2>1, <2>2 DEF LbInv
<1>3. CASE file # Broken
  <2>1. /\ loop' = "retire" /\ todo' = pool /\ current' = file /\ ~ reloadFlag' /\ file' = file
        /\ UNCHANGED <<strategy, backends, pool, counter, entries, phase, round>>
    BY <1>3 DEF StartReload
  <2>2. PoolTyped'
    <3>1. /\ strategy \in Strategies /\ pool \in Seq(Objects) /\ IsInjective(pool)
          /\ round \in Seq(Objects) /\ counter \in 0..(Cycle - 1)
          /\ phase \in {"serving", "draining", "stopped"} /\ file \in Configs
      BY <1>3 DEF LbInv, PoolTyped
    <3>2. reloadFlag' = FALSE
      BY DEF StartReload
    <3> QED
      BY <1>1, <2>1, <3>1, <3>2 DEF PoolTyped
  <2>3. RetireInv'
    BY <2>1 DEF RetireInv, Taking
  <2>4. FileInv' /\ AdmitInv' /\ IdleInv'
    BY <2>1 DEF FileInv, AdmitInv, IdleInv
  <2> QED
    BY <2>2, <2>3, <2>4 DEF LbInv, LoopInv
<1> QED
  BY <1>2, <1>3

LEMMA StartAdmittingKeeps == ASSUME LbInv, HealthInv', StartAdmitting PROVE LbInv'
<1>1. /\ loop' = "admit" /\ loop = "retire" /\ todo = << >> /\ entries' = current
      /\ UNCHANGED <<strategy, backends, pool, counter, todo, round, phase, configVars>>
  BY DEF StartAdmitting
<1>2. PoolTyped'
  BY <1>1 DEF LbInv, PoolTyped, BackendsTyped, Objects, configVars
<1>3. InService'
  BY <1>1 DEF LbInv, LoopInv, RetireInv, InService, Taking, Range, configVars
<1>4. current \in Seq(Range(current)) /\ Len(current) \in Nat \ {0}
  <2>1. PICK c : c = current
    OBVIOUS
  <2>2. c \in Seq([label : Labels, weight : Nat]) /\ Len(c) \in Nat \ {0}
    BY <2>1, ConfigType DEF LbInv, PoolTyped
  <2>3. c \in Seq(Range(c))
    BY <2>2, InOwnRange
  <2> QED
    BY <2>1, <2>2, <2>3
<1>5. Suffix'
  BY <1>1, <1>4 DEF Suffix, configVars
<1>6. (Served(Len(current) - Len(entries)))'
  BY <1>1, <1>4 DEF Served, configVars
<1>7. FileInv' /\ RetireInv' /\ IdleInv' /\ AdmitInv'
  BY <1>1, <1>3, <1>5, <1>6 DEF LbInv, LoopInv, FileInv, RetireInv, AdmitInv, IdleInv, configVars
<1> QED
  BY <1>2, <1>7 DEF LbInv, LoopInv

\* The object with a label that BackendPool::remove takes out, if there is one.
LEMMA RemovedIs ==
  ASSUME PoolTyped, NEW label
  PROVE  /\ Removed(label) \in Seq(Objects) /\ IsInjective(Removed(label))
         /\ Range(Removed(label)) \subseteq Range(pool)
         /\ \A p, q \in Range(pool) \ Range(Removed(label)) : p = q /\ backends[p].label = label
<1> DEFINE i == Found(pool, label)
<1>1. pool \in Seq(DOMAIN backends) /\ IsInjective(pool) /\ Objects = DOMAIN backends
  BY DEF PoolTyped, Objects
<1>2. i # 0 => i \in 1..Len(pool) /\ backends[pool[i]].label = label
  BY <1>1, LabelFound
<1>3. Removed(label) = RemoveAt(pool, i)
  BY DEF Removed, Found
<1> HIDE DEF i
<1>4. CASE i = 0
  <2>1. Removed(label) = pool
    BY <1>1, <1>3, <1>4, RemoveNone
  <2> QED
    BY <1>1, <2>1
<1>5. CASE i # 0
  <2>1. /\ Removed(label) \in Seq(Objects) /\ IsInjective(Removed(label))
        /\ Range(Removed(label)) = Range(pool) \ {pool[i]}
    BY <1>1, <1>2, <1>3, <1>5, RemoveOne
  <2> QED
    BY <1>2, <1>5, <2>1
<1> QED
  BY <1>4, <1>5

LEMMA RetireKeeps == ASSUME LbInv, HealthInv', Retire PROVE LbInv'
<1>1. PICK h \in Objects : h = Head(todo) /\ Tail(todo) \in Seq(Objects) /\ Range(todo) = {h} \union Range(Tail(todo))
  BY TailIs DEF LbInv, PoolTyped, Retire
<1>2. /\ loop = "retire" /\ todo' = Tail(todo)
      /\ UNCHANGED <<strategy, counter, loop, entries, configVars, phase, round>>
  BY DEF Retire
<1>3. /\ BackendsTyped' /\ Objects' = Objects
      /\ pool' \in Seq(Objects) /\ IsInjective(pool') /\ Range(pool') \subseteq Range(pool)
      /\ \A o \in Objects : /\ backends'[o].label = backends[o].label
                            /\ backends[o].draining => backends'[o].draining
      /\ backends[h].label \notin LabelsIn(current) => backends'[h].draining
  <2>1. CASE backends[h].label \in LabelsIn(current)
    <3>1. UNCHANGED <<backends, pool>>
      BY <1>1, <2>1 DEF Retire
    <3> QED
      BY <2>1, <3>1 DEF LbInv, PoolTyped, BackendsTyped, Objects
  <2>2. CASE backends[h].label \notin LabelsIn(current)
    <3>1. PICK b : b = [backends[h] EXCEPT !.draining = TRUE]
      OBVIOUS
    <3>2. backends' = [backends EXCEPT ![h] = b]
      BY <1>1, <2>2, <3>1 DEF Retire
    <3>3. b \in BackendObject /\ b.label = backends[h].label /\ b.draining
      BY <3>1, PoolIs DEF LbInv, BackendObject
    <3>4. BackendsTyped' /\ Objects' = Objects
      BY <3>2, <3>3, OneChanged DEF LbInv, PoolTyped, Objects
    <3>5. \A o \in Objects : /\ backends'[o].label = backends[o].label
                             /\ backends[o].draining => backends'[o].draining
      BY <3>2, <3>3 DEF Objects
    <3>6. pool' = Removed(backends[h].label) \/ pool' = pool
      BY <1>1, <2>2 DEF Retire
    <3>7. pool' \in Seq(Objects) /\ IsInjective(pool') /\ Range(pool') \subseteq Range(pool)
      BY <3>6, RemovedIs DEF LbInv, PoolTyped
    <3> QED
      BY <3>2, <3>3, <3>4, <3>5, <3>7 DEF Objects
  <2> QED
    BY <2>1, <2>2
<1>4. PoolTyped'
  BY <1>1, <1>2, <1>3 DEF LbInv, PoolTyped, configVars
<1>5. RetireInv'
  <2>1. \A p \in Range(pool) : p \in Objects
    BY PoolIs DEF LbInv
  <2>2. \A p \in Taking' : p \in Taking /\ p \in Objects
    BY <1>3, <2>1 DEF Taking
  <2>3. ASSUME NEW p \in Taking', p \notin Range(Tail(todo)) PROVE backends[p].label \in LabelsIn(current)
    <3>1. p \in Range(todo) \/ backends[p].label \in LabelsIn(current)
      BY <1>2, <2>2, <2>3 DEF LbInv, LoopInv, RetireInv
    <3>2. p = h => ~ backends'[h].draining
      BY <2>3 DEF Taking
    <3> QED
      BY <1>1, <1>3, <2>3, <3>1, <3>2
  <2> QED
    BY <1>2, <1>3, <2>2, <2>3 DEF RetireInv, configVars
<1>6. FileInv' /\ AdmitInv' /\ IdleInv'
  BY <1>2 DEF LbInv, LoopInv, FileInv, AdmitInv, IdleInv, configVars
<1> QED
  BY <1>4, <1>5, <1>6 DEF LbInv, LoopInv

\* One more entry is served when an object has been set to it, the others being left
\* alone or set to it as well.
LEMMA ServesOneMore ==
  ASSUME NEW k \in Nat, Served(k), UNCHANGED current,
         \A p \in Taking : \E q \in Taking' :
           /\ backends'[q].label = backends[p].label
           /\ \/ backends'[q].weight = backends[p].weight
              \/ /\ backends[p].label = current[k + 1].label
                 /\ backends'[q].weight = Weight(current[k + 1]),
         current[k + 1].label \notin Malformed =>
           \E q \in Taking' : /\ backends'[q].label = current[k + 1].label
                              /\ backends'[q].weight = Weight(current[k + 1])
  PROVE  Served(k + 1)'
<1> SUFFICES ASSUME NEW i \in 1..k + 1, current[i].label \notin Malformed
             PROVE  \E q \in Taking', j \in 1..k + 1 :
                      /\ backends'[q].label = current[i].label /\ current[j].label = current[i].label
                      /\ backends'[q].weight = Weight(current[j])
  BY DEF Served, Weight
<1>1. k + 1 \in 1..k + 1 /\ \A j \in 1..k : j \in 1..k + 1
  OBVIOUS
<1>2. CASE i = k + 1
  BY <1>1, <1>2
<1>3. CASE i # k + 1
  <2>1. i \in 1..k
    BY <1>3
  <2>2. PICK p \in Taking, j \in 1..k :
          /\ backends[p].label = current[i].label /\ current[j].label = current[i].label
          /\ backends[p].weight = Weight(current[j])
    BY <2>1 DEF Served
  <2>3. PICK q \in Taking' :
          /\ backends'[q].label = backends[p].label
          /\ \/ backends'[q].weight = backends[p].weight
             \/ /\ backends[p].label = current[k + 1].label
                /\ backends'[q].weight = Weight(current[k + 1])
    BY <2>2
  <2>4. CASE backends'[q].weight = backends[p].weight
    BY <1>1, <2>2, <2>3, <2>4
  <2>5. CASE backends'[q].weight # backends[p].weight
    BY <1>1, <2>2, <2>3, <2>5
  <2> QED
    BY <2>4, <2>5
<1> QED
  BY <1>2, <1>3

\* What apply's second loop does to the pool for an entry.
AdmitPool(e) ==
  LET found == Found(pool, e.label) IN
  IF found # 0
  THEN /\ backends' = [backends EXCEPT ![pool[found]].weight = Weight(e), ![pool[found]].draining = FALSE]
       /\ UNCHANGED pool
  ELSE IF e.label \in Malformed
  THEN UNCHANGED <<backends, pool>>
  ELSE /\ backends' = With(NewNumber, Backend(e.label, Weight(e)))
       /\ pool' = Append(pool, NewNumber)

\* What it leaves behind: objects as before, except one set to the entry.
Admitted(e) ==
  /\ BackendsTyped' /\ Objects \subseteq Objects'
  /\ pool' \in Seq(Objects') /\ IsInjective(pool')
  /\ \A q \in Taking' : \/ backends'[q].label = e.label
                        \/ q \in Taking /\ backends'[q].label = backends[q].label
  /\ \A p \in Taking : /\ p \in Taking' /\ backends'[p].label = backends[p].label
                       /\ \/ backends'[p].weight = backends[p].weight
                          \/ backends[p].label = e.label /\ backends'[p].weight = Weight(e)
  /\ e.label \notin Malformed =>
       \E q \in Taking' : backends'[q].label = e.label /\ backends'[q].weight = Weight(e)

LEMMA UpdateAdmits ==
  ASSUME LbInv, NEW e, Weight(e) \in Nat \ {0}, Found(pool, e.label) # 0, AdmitPool(e)
  PROVE  Admitted(e)
<1>1. pool \in Seq(Objects) /\ IsInjective(pool) /\ BackendsTyped
  BY DEF LbInv, PoolTyped
<1>2. PICK i \in 1..Len(pool) : i = Found(pool, e.label) /\ backends[pool[i]].label = e.label
  BY <1>1, LabelFound
<1>3. PICK o \in Objects : o = pool[i] /\ o \in Range(pool)
  BY <1>1, PoolIs DEF LbInv
<1>4. PICK w \in Nat \ {0} : w = Weight(e)
  OBVIOUS
<1>5. PICK b : b = [backends[o] EXCEPT !.weight = w, !.draining = FALSE]
  OBVIOUS
<1>6. backends' = [backends EXCEPT ![o] = b] /\ pool' = pool
  BY <1>2, <1>3, <1>4, <1>5 DEF AdmitPool
<1>7. b \in BackendObject /\ b.label = e.label /\ b.weight = w /\ b.draining = FALSE
  BY <1>2, <1>3, <1>5, PoolIs, ZenonT(30) DEF LbInv, BackendObject
<1>8. BackendsTyped' /\ Objects' = Objects
  BY <1>1, <1>6, <1>7, OneChanged DEF Objects
<1>9. backends'[o] = b /\ \A p \in Objects : p # o => backends'[p] = backends[p]
  BY <1>6 DEF Objects
<1>10. \A p \in Range(pool) : p \in Objects
  BY PoolIs DEF LbInv
<1>11. o \in Taking' /\ \A p \in Taking : p \in Taking'
  BY <1>3, <1>6, <1>7, <1>9, <1>10 DEF Taking
<1>12. \A q \in Taking' : q # o => q \in Taking /\ q \in Objects
  BY <1>6, <1>9, <1>10 DEF Taking
<1>13. \A p \in Taking : p \in Objects
  BY <1>10 DEF Taking
<1>14. backends[o].label = e.label
  BY <1>2, <1>3
<1> QED
  BY <1>1, <1>4, <1>6, <1>7, <1>8, <1>9, <1>11, <1>12, <1>13, <1>14 DEF Admitted

LEMMA AppendNew ==
  ASSUME NEW S, NEW s \in Seq(S), IsInjective(s), NEW x, x \notin S
  PROVE  /\ Append(s, x) \in Seq(S \union {x}) /\ IsInjective(Append(s, x))
         /\ Range(Append(s, x)) = Range(s) \union {x}
<1> DEFINE a == Append(s, x)
<1>0. s \in Seq(S \union {x})
  BY SeqWider
<1>1. /\ Len(s) \in Nat /\ DOMAIN s = 1..Len(s) /\ \A i \in 1..Len(s) : s[i] \in S
      /\ a \in Seq(S \union {x}) /\ Len(a) = Len(s) + 1 /\ DOMAIN a = 1..Len(s) + 1
      /\ a[Len(s) + 1] = x /\ \A i \in 1..Len(s) : a[i] = s[i]
  BY <1>0
<1> HIDE DEF a
<1>2. \A i \in 1..Len(s) + 1 : i \in 1..Len(s) \/ i = Len(s) + 1
  BY <1>1
<1>3. Len(s) + 1 \in 1..Len(s) + 1 /\ \A i \in 1..Len(s) : i \in 1..Len(s) + 1
  BY <1>1
<1>4. IsInjective(a)
  BY <1>1, <1>2 DEF IsInjective
<1>5. Range(a) \subseteq Range(s) \union {x}
  BY <1>1, <1>2 DEF Range
<1>6. Range(s) \union {x} \subseteq Range(a)
  BY <1>1, <1>3 DEF Range
<1> QED
  BY <1>1, <1>4, <1>5, <1>6 DEF a

LEMMA NewAdmits ==
  ASSUME LbInv, NEW e, Weight(e) \in Nat \ {0}, e.label \in Labels \ Malformed,
         Found(pool, e.label) = 0, AdmitPool(e)
  PROVE  Admitted(e)
<1>1. pool \in Seq(Objects) /\ IsInjective(pool) /\ BackendsTyped
  BY DEF LbInv, PoolTyped
<1>2. PICK n \in Nat : backends \in [1..n -> BackendObject]
  BY <1>1 DEF BackendsTyped
<1>3. Objects = 1..n /\ NewNumber = n + 1
  <2>1. Cardinality(1..n) = n
    BY FS_Interval
  <2>2. DOMAIN backends = 1..n
    BY <1>2
  <2> QED
    BY <2>1, <2>2 DEF Objects, NewNumber
<1>4. PICK w \in Nat \ {0} : w = Weight(e)
  OBVIOUS
<1>5. PICK b : b = Backend(e.label, w)
  OBVIOUS
<1>6. b \in BackendObject /\ b.label = e.label /\ b.weight = w /\ b.draining = FALSE
  BY <1>5, BalancerAssumption DEF Backend, BackendObject
<1>7. backends' = [o \in Objects \union {n + 1} |-> IF o = n + 1 THEN b ELSE backends[o]] /\ pool' = Append(pool, n + 1)
  BY <1>3, <1>4, <1>5 DEF AdmitPool, With, Objects
<1>8. Objects' = Objects \union {n + 1} /\ Objects \union {n + 1} = 1..n + 1 /\ n + 1 \notin Objects
  <2>1. Objects \union {n + 1} = 1..n + 1
    BY <1>3
  <2> QED
    BY <1>3, <1>7, <2>1 DEF Objects
<1>9. backends'[n + 1] = b /\ \A p \in Objects : backends'[p] = backends[p]
  BY <1>7, <1>8
<1>10. BackendsTyped'
  <2>1. \A p \in Objects : backends[p] \in BackendObject
    BY <1>2, <1>3
  <2>2. backends' \in [1..n + 1 -> BackendObject]
    BY <1>6, <1>7, <1>8, <2>1
  <2> QED
    BY <2>2 DEF BackendsTyped
<1>11. pool' \in Seq(Objects') /\ IsInjective(pool') /\ Range(pool') = Range(pool) \union {n + 1}
  BY <1>1, <1>7, <1>8, AppendNew, SMTT(30)
<1>12. \A p \in Range(pool) : p \in Objects
  BY PoolIs DEF LbInv
<1>13. n + 1 \in Taking' /\ \A p \in Taking : p \in Taking' /\ p \in Objects
  BY <1>6, <1>9, <1>11, <1>12 DEF Taking
<1>14. \A q \in Taking' : q # n + 1 => q \in Taking /\ q \in Objects
  BY <1>9, <1>11, <1>12 DEF Taking
<1> QED
  BY <1>4, <1>6, <1>8, <1>9, <1>10, <1>11, <1>13, <1>14 DEF Admitted

LEMMA NotAdmitted ==
  ASSUME LbInv, NEW e, e.label \in Malformed, Found(pool, e.label) = 0, AdmitPool(e)
  PROVE  Admitted(e)
<1>1. UNCHANGED <<backends, pool>>
  BY DEF AdmitPool
<1> QED
  BY <1>1 DEF LbInv, PoolTyped, BackendsTyped, Objects, Taking, Admitted

LEMMA LenEmpty == \A s : s = << >> => Len(s) = 0
  OBVIOUS

LEMMA AdmitKeeps == ASSUME LbInv, HealthInv', Admit PROVE LbInv'
<1>1. /\ loop = "admit" /\ entries' = Tail(entries) /\ todo = << >>
      /\ entries' = << >> => loop' = "idle"
      /\ entries' # << >> => loop' = loop
      /\ reloadFlag' = reloadFlag
      /\ UNCHANGED <<strategy, counter, todo, current, file, phase, round>>
  BY DEF Admit, FlagAfter, LbInv, LoopInv, RetireInv
<1>2. /\ InService /\ Served(Len(current) - Len(entries))
      /\ entries \in Seq(Range(current)) /\ Len(entries) \in 1..Len(current)
      /\ \A i \in 1..Len(entries) : entries[i] = current[Len(current) - Len(entries) + i]
  BY <1>1 DEF LbInv, LoopInv, AdmitInv, Suffix
<1>3. /\ Len(current) \in Nat \ {0} /\ DOMAIN current = 1..Len(current)
      /\ \A i \in 1..Len(current) : current[i].label \in Labels /\ current[i].weight \in Nat
  BY ConfigType DEF LbInv, PoolTyped
<1>4. PICK m \in Nat : m = Len(entries) /\ m >= 1 /\ m <= Len(current)
  BY <1>2, <1>3
<1>5. PICK k \in Nat : k = Len(current) - m /\ k + 1 \in 1..Len(current) /\ Served(k)
  <2>1. PICK k : k = Len(current) - Len(entries)
    OBVIOUS
  <2>2. Served(k)
    BY <1>2, <2>1
  <2>3. k \in Nat /\ k = Len(current) - m /\ k + 1 \in 1..Len(current)
    BY <1>3, <1>4, <2>1
  <2> QED
    BY <2>2, <2>3
<1>6. PICK e : e = Head(entries) /\ e = current[k + 1] /\ e.label \in Labels /\ Weight(e) \in Nat \ {0}
  <2>1. Head(entries) = entries[1] /\ entries[1] = current[Len(current) - m + 1]
    BY <1>2, <1>4
  <2>2. Head(entries) = current[k + 1]
    BY <1>5, <2>1
  <2> QED
    BY <1>3, <1>5, <2>2 DEF Weight
<1>7. AdmitPool(e)
  <2>1. AdmitPool(Head(entries))
    BY DEF Admit, AdmitPool, Found
  <2> QED
    BY <1>6, <2>1
<1>8. Admitted(e)
  <2>1. CASE Found(pool, e.label) # 0
    BY <1>6, <1>7, <2>1, UpdateAdmits
  <2>2. CASE Found(pool, e.label) = 0 /\ e.label \in Malformed
    BY <1>6, <1>7, <2>2, NotAdmitted
  <2>3. CASE Found(pool, e.label) = 0 /\ e.label \notin Malformed
    BY <1>6, <1>7, <2>3, NewAdmits
  <2> QED
    BY <2>1, <2>2, <2>3
<1>9. PoolTyped'
  <2>1. todo' \in Seq(Objects') /\ round' \in Seq(Objects')
    BY <1>1, <1>8, SeqWider DEF LbInv, PoolTyped, Admitted
  <2>2. loop' \in {"idle", "retire", "admit"}
    BY <1>1
  <2> QED
    BY <1>1, <1>8, <2>1, <2>2 DEF LbInv, PoolTyped, Admitted
<1>10. InService'
  <2>1. e.label \in LabelsIn(current)
    BY <1>3, <1>5, <1>6 DEF LabelsIn
  <2> QED
    BY <1>1, <1>2, <1>8, <2>1 DEF InService, Admitted
<1>11. Served(k + 1)'
  BY <1>1, <1>5, <1>6, <1>8, ServesOneMore DEF Admitted
<1>12. /\ Tail(entries) \in Seq(Range(current)) /\ Len(Tail(entries)) = m - 1
       /\ \A i \in 1..m - 1 : Tail(entries)[i] = entries[i + 1]
  BY <1>2, <1>4
<1>13. entries' # << >> => Suffix'
  <2> SUFFICES ASSUME entries' # << >> PROVE Suffix'
    OBVIOUS
  <2>1. m - 1 # 0
    BY <1>1, <1>12
  <2>2. ASSUME NEW i \in 1..m - 1 PROVE Tail(entries)[i] = current[Len(current) - (m - 1) + i]
    <3>1. i + 1 \in 1..m /\ Len(current) - m + (i + 1) = Len(current) - (m - 1) + i
      BY <1>3, <1>4
    <3> QED
      BY <1>2, <1>4, <1>12, <3>1
  <2>3. m - 1 \in 1..Len(current)
    BY <1>3, <1>4, <2>1
  <2> QED
    BY <1>1, <1>12, <2>2, <2>3 DEF Suffix
<1>14. Len(current)' - Len(entries)' = k + 1
  BY <1>1, <1>3, <1>4, <1>5, <1>12
<1>15. AdmitInv'
  <2> SUFFICES ASSUME loop' = "admit" PROVE AdmitInv'
    BY DEF AdmitInv
  <2>1. entries' # << >>
    BY <1>1
  <2>2. PICK j : j = k + 1
    OBVIOUS
  <2>3. Served(j)' /\ j = Len(current)' - Len(entries)'
    BY <1>11, <1>14, <2>2 DEF Served
  <2> QED
    BY <1>10, <1>13, <2>1, <2>3 DEF AdmitInv, Served
<1>16. IdleInv'
  <2> SUFFICES ASSUME loop' = "idle" PROVE IdleInv'
    BY DEF IdleInv
  <2>1. entries' = << >>
    BY <1>1
  <2>2. PICK j : j = k + 1
    OBVIOUS
  <2>3. m - 1 = 0
    <3>1. Tail(entries) = << >>
      BY <1>1, <2>1
    <3>2. Len(Tail(entries)) = 0
      BY <3>1, LenEmpty, Zenon
    <3> QED
      BY <1>12, <3>2
  <2>4. j = Len(current)'
    <3>1. Len(current)' = Len(current)
      BY <1>1
    <3>2. k + 1 = Len(current)
      BY <1>3, <1>5, <2>3
    <3> QED
      BY <2>2, <3>1, <3>2
  <2>5. Served(j)'
    BY <1>11, <2>2 DEF Served
  <2> QED
    BY <1>10, <2>4, <2>5 DEF IdleInv, Served
<1>17. FileInv' /\ RetireInv'
  BY <1>1 DEF LbInv, LoopInv, FileInv, RetireInv
<1> QED
  BY <1>9, <1>15, <1>16, <1>17 DEF LbInv, LoopInv

-----------------------------------------------------------------------------
(* The checker's rounds, the operator, the services, and the end.          *)

LEMMA StartRoundKeeps == ASSUME LbInv, HealthInv', StartRound PROVE LbInv'
<1>1. BackendsTyped' /\ Objects' = Objects /\ SameMarks
  BY DEF StartRound, LbInv, PoolTyped, BackendsTyped, Objects, SameMarks
<1>2. LoopInv'
  BY <1>1, QuietLoop DEF LbInv, LoopInv, FileInv, StartRound, loopVars, configVars
<1>3. PoolTyped'
  BY <1>1 DEF LbInv, PoolTyped, StartRound, Snapshot, loopVars, configVars
<1> QED
  BY <1>2, <1>3 DEF LbInv

LEMMA OperatorKeeps ==
  ASSUME LbInv, HealthInv', NEW config \in Configs \union {Broken}, OperatorReloads(config)
  PROVE  LbInv'
<1>1. BackendsTyped' /\ Objects' = Objects /\ SameMarks
  BY DEF OperatorReloads, LbInv, PoolTyped, BackendsTyped, Objects, SameMarks
<1>2. LoopInv'
  BY <1>1, QuietLoop DEF LbInv, LoopInv, FileInv, OperatorReloads, loopVars
<1>3. PoolTyped'
  BY <1>1 DEF LbInv, PoolTyped, OperatorReloads, loopVars
<1> QED
  BY <1>2, <1>3 DEF LbInv

LEMMA ServiceKeeps == ASSUME LbInv, HealthInv', NEW label, ServiceChanges(label) PROVE LbInv'
<1>1. BackendsTyped' /\ Objects' = Objects /\ SameMarks
  BY DEF ServiceChanges, LbInv, PoolTyped, BackendsTyped, Objects, SameMarks
<1>2. LoopInv'
  BY <1>1, QuietLoop DEF LbInv, LoopInv, FileInv, ServiceChanges, loopVars, configVars
<1>3. PoolTyped'
  BY <1>1 DEF LbInv, PoolTyped, ServiceChanges, loopVars, configVars
<1> QED
  BY <1>2, <1>3 DEF LbInv

LEMMA TerminateKeeps == ASSUME LbInv, HealthInv', Terminate PROVE LbInv'
<1>1. BackendsTyped' /\ Objects' = Objects /\ SameMarks
  BY DEF Terminate, LbInv, PoolTyped, BackendsTyped, Objects, SameMarks
<1>2. LoopInv'
  BY <1>1, QuietLoop DEF LbInv, LoopInv, FileInv, Terminate, loopVars, configVars
<1>3. PoolTyped'
  BY <1>1 DEF LbInv, PoolTyped, Terminate, loopVars, configVars
<1> QED
  BY <1>2, <1>3 DEF LbInv

LEMMA StopKeeps == ASSUME LbInv, HealthInv', Stop PROVE LbInv'
<1>1. /\ loop' = "idle" /\ phase' = "stopped" /\ todo' = << >>
      /\ backends' = << >> /\ pool' = << >> /\ round' = << >> /\ counter' = 0
      /\ UNCHANGED <<strategy, file, current, reloadFlag>>
  BY DEF Stop, loopVars, configVars, LbInv, LoopInv, RetireInv
<1>2. BackendsTyped'
  <2>1. << >> \in [1..0 -> BackendObject]
    OBVIOUS
  <2> QED
    BY <1>1, <2>1 DEF BackendsTyped
<1>3. PoolTyped'
  BY <1>1, <1>2, BalancerAssumption DEF LbInv, PoolTyped, IsInjective
<1>4. LoopInv'
  BY <1>1 DEF LbInv, LoopInv, FileInv, RetireInv, AdmitInv, IdleInv
<1> QED
  BY <1>3, <1>4 DEF LbInv

LEMMA StaysKeeps == ASSUME LbInv, HealthInv', UNCHANGED balancerVars PROVE LbInv'
<1>1. BackendsTyped' /\ Objects' = Objects /\ SameMarks
  BY DEF balancerVars, LbInv, PoolTyped, BackendsTyped, Objects, SameMarks
<1>2. LoopInv'
  BY <1>1, QuietLoop DEF LbInv, LoopInv, FileInv, balancerVars, loopVars, configVars
<1>3. PoolTyped'
  BY <1>1 DEF LbInv, PoolTyped, balancerVars, loopVars, configVars
<1> QED
  BY <1>2, <1>3 DEF LbInv

LEMMA LbStep == LbInv /\ [Next]_balancerVars => LbInv'
<1> SUFFICES ASSUME LbInv, [Next]_balancerVars PROVE LbInv'
  OBVIOUS
<1>1. HealthInv'
  BY HealthStep DEF LbInv
<1>2. CASE UNCHANGED balancerVars
  BY <1>1, <1>2, StaysKeeps
<1>3. ASSUME NEW hash \in IF strategy = "ip_hash" THEN 0..1 ELSE {0}, Accept(hash) PROVE LbInv'
  <2>1. hash \in Nat
    OBVIOUS
  <2> QED
    BY <1>1, <1>3, <2>1, AcceptKeeps
<1> QED
  BY <1>1, <1>2, <1>3, StartRoundKeeps, EvaluateKeeps, CloseKeeps, StartReloadKeeps, RetireKeeps,
     StartAdmittingKeeps, AdmitKeeps, OperatorKeeps, ServiceKeeps, TerminateKeeps, StopKeeps
     DEF Next, Objects

LEMMA LbInit == Init => LbInv
<1> SUFFICES ASSUME Init PROVE LbInv
  OBVIOUS
<1>1. PICK c \in Configs : c = current
  BY DEF Init
<1>2. /\ c \in Seq([label : Labels, weight : Nat]) /\ Len(c) \in Nat \ {0} /\ DOMAIN c = 1..Len(c)
      /\ \A i \in 1..Len(c) : c[i].label \in Labels /\ c[i].weight \in Nat
  BY ConfigType
<1> DEFINE E == {e \in Range(c) : e.label \notin Malformed}
<1>3. PICK valid : valid = Kept(c, E)
  OBVIOUS
<1>4. PICK n \in Nat : /\ n = Len(valid) /\ DOMAIN valid = 1..n
                       /\ {valid[i] : i \in 1..n} = {c[i] : i \in 1..Len(c)} \intersect E
  <2>1. valid \in Seq([label : Labels, weight : Nat]) /\ Range(valid) = Range(c) \intersect E
    <3> HIDE DEF E
    <3> QED
      BY <1>2, <1>3, KeptType
  <2>2. Len(valid) \in Nat /\ DOMAIN valid = 1..Len(valid)
    BY <2>1
  <2>3. Range(c) = {c[i] : i \in 1..Len(c)}
    BY <1>2, RangeIs
  <2>4. Range(valid) = {valid[i] : i \in 1..Len(valid)}
    BY <2>1, RangeIs
  <2> HIDE DEF E
  <2> QED
    BY <2>1, <2>2, <2>3, <2>4
<1> DEFINE Probe(i) == Evaluated(Backend(valid[i].label, Weight(valid[i])), valid[i].label \in answering)
<1>5. backends = [i \in DOMAIN valid |-> Probe(i)] /\ pool = [i \in DOMAIN valid |-> i]
  BY <1>1, <1>3 DEF Init
<1>6. ASSUME NEW i \in 1..n
      PROVE  valid[i] \in Range(c) /\ valid[i].label \in Labels \ Malformed /\ Weight(valid[i]) \in Nat \ {0}
  <2>1. valid[i] \in E
    BY <1>4
  <2>2. PICK j \in 1..Len(c) : valid[i] = c[j]
    BY <1>4
  <2> QED
    BY <1>2, <2>1, <2>2 DEF Weight
<1>7. ASSUME NEW i \in 1..n
      PROVE  /\ Probe(i) \in BackendObject /\ Probe(i).label = valid[i].label
             /\ Probe(i).weight = Weight(valid[i]) /\ Probe(i).draining = FALSE
  <2> DEFINE ok == valid[i].label \in answering
  <2>1. ok \in BOOLEAN
    OBVIOUS
  <2>2. PICK b : b = Backend(valid[i].label, Weight(valid[i]))
    OBVIOUS
  <2>3. /\ b \in BackendObject /\ b.label = valid[i].label /\ b.weight = Weight(valid[i])
        /\ b.draining = FALSE
    BY <1>6, <2>2, BalancerAssumption DEF Backend, BackendObject
  <2>4. WellKept(b)
    BY <2>2, NewWellKept
  <2>5. Probe(i) = Evaluated(b, ok)
    BY <2>2
  <2> HIDE DEF ok, Probe
  <2> QED
    BY <2>1, <2>3, <2>4, <2>5, Probed
<1> HIDE DEF E, Probe
<1>8. backends = [i \in 1..n |-> Probe(i)] /\ pool = [i \in 1..n |-> i] /\ Objects = 1..n
  BY <1>4, <1>5 DEF Objects
<1>9. BackendsTyped
  <2>1. backends \in [1..n -> BackendObject]
    BY <1>7, <1>8
  <2> QED
    BY <2>1 DEF BackendsTyped
<1>10. pool \in Seq(1..n) /\ IsInjective(pool) /\ Range(pool) = 1..n
  BY <1>8 DEF IsInjective, Range
<1>11. PoolTyped
  <2>1. counter \in 0..(Cycle - 1)
    BY BalancerAssumption DEF Init
  <2>2. << >> \in Seq(Objects)
    OBVIOUS
  <2> QED
    BY <1>1, <1>8, <1>9, <1>10, <2>1, <2>2 DEF PoolTyped, Init, Strategies
<1>12. Taking = 1..n
  BY <1>7, <1>8, <1>10 DEF Taking
<1>13. InService
  <2> SUFFICES ASSUME NEW p \in 1..n PROVE backends[p].label \in LabelsIn(c)
    BY <1>1, <1>12 DEF InService
  <2>1. PICK i \in 1..Len(c) : valid[p] = c[i]
    BY <1>4
  <2>2. backends[p].label = c[i].label
    BY <1>7, <1>8, <2>1
  <2> QED
    BY <1>2, <2>2 DEF LabelsIn
<1>14. Served(Len(current))
  <2> SUFFICES ASSUME NEW i \in 1..Len(c), c[i].label \notin Malformed
               PROVE  \E p \in Taking, j \in 1..Len(c) :
                        /\ backends[p].label = c[i].label /\ c[j].label = c[i].label
                        /\ backends[p].weight = Weight(c[j])
    BY <1>1 DEF Served
  <2>1. c[i] \in E
    BY <1>2 DEF E, Range
  <2>2. PICK p \in 1..n : valid[p] = c[i]
    BY <1>4, <2>1
  <2> QED
    BY <1>7, <1>8, <1>12, <2>2
<1>15. LoopInv
  BY <1>13, <1>14 DEF Init, LoopInv, FileInv, RetireInv, AdmitInv, IdleInv
<1> QED
  BY <1>11, <1>15, HealthInit DEF LbInv

LEMMA LbAlways == Spec => []LbInv
<1>1. LbInv /\ [Next]_balancerVars => LbInv'
  BY LbStep
<1> QED
  BY <1>1, LbInit, PTL DEF Spec

\* Once a SIGHUP has been dealt with, clients can be sent to the backends of the newest
\* file that could be loaded, with a weight it gives, and to no others - for any files,
\* strategies and interleavings of edits, reloads, checks and clients (apply, main).
THEOREM ReloadsTakeEffect == Spec => []ConfigApplied
<1>1. LbInv => ConfigApplied
  BY InvType, InvConfig DEF ConfigApplied
<1> QED
  BY <1>1, LbAlways, PTL

-----------------------------------------------------------------------------
(* What a step does to the pool and to the connections.                    *)

LEMMA OnlyIdleGo ==
  ASSUME LbInv, [Next]_balancerVars, NEW o \in Range(pool) \ Range(pool')
  PROVE  \/ backends[o].active = 0 \/ phase' = "stopped"
         \/ \E p \in DOMAIN backends \ {o} : backends[p].label = backends[o].label
<1>1. pool' # pool
  OBVIOUS
<1>2. CASE Retire
  <2>1. PICK h \in Objects : h = Head(todo)
    BY <1>2, TailIs DEF LbInv, PoolTyped, Retire
  <2>2. pool' = Removed(backends[h].label) /\ Idle(backends[h])
    BY <1>1, <1>2, <2>1 DEF Retire
  <2>3. backends[o].label = backends[h].label
    BY <2>2, RemovedIs DEF LbInv
  <2>4. CASE h = o
    BY <2>2, <2>4 DEF Idle
  <2>5. CASE h # o
    BY <2>1, <2>3, <2>5 DEF Objects
  <2> QED
    BY <2>4, <2>5
<1>3. CASE Admit
  <2>1. PICK x : pool' = pool \/ pool' = Append(pool, x)
    BY <1>3 DEF Admit
  <2>2. pool' = Append(pool, x) /\ pool \in Seq(Objects)
    BY <1>1, <2>1 DEF LbInv, PoolTyped
  <2>3. \A i \in 1..Len(pool) : i \in DOMAIN pool' /\ pool'[i] = pool[i]
    BY <2>2
  <2>4. Range(pool) \subseteq Range(pool')
    BY <2>2, <2>3 DEF Range
  <2> QED
    BY <2>4
<1>4. CASE Stop
  BY <1>4 DEF Stop
<1> QED
  BY <1>1, <1>2, <1>3, <1>4 DEF Next, balancerVars, StartRound, Evaluate, Accept, Close, StartReload,
     StartAdmitting, OperatorReloads, ServiceChanges, Terminate

\* A backend with open connections stays in the pool, unless another object bears its
\* label or the program ends, whatever the reloads (apply, BackendPool::remove).
THEOREM BusyBackendsStay == Spec => RemovedWhenIdle
<1>1. LbInv /\ [Next]_balancerVars =>
        \A o \in Range(pool) \ Range(pool') :
          \/ backends[o].active = 0 \/ phase' = "stopped"
          \/ \E p \in DOMAIN backends \ {o} : backends[p].label = backends[o].label
  BY OnlyIdleGo
<1> QED
  BY <1>1, LbAlways, PTL DEF Spec, RemovedWhenIdle

LEMMA OnlyTakingGain ==
  ASSUME LbInv, [Next]_balancerVars, NEW o \in DOMAIN backends \intersect DOMAIN backends',
         backends'[o].active > backends[o].active
  PROVE  o \in Range(pool) /\ ~ backends[o].draining /\ backends[o].label \in LabelsIn(current)
<1>0. backends[o].active \in Nat /\ o \in Objects /\ backends[o] \in BackendObject
  BY PoolIs, BalancerAssumption DEF LbInv, BackendObject, Objects
<1>1. ~ (backends'[o].active = backends[o].active)
  BY <1>0
<1>2. ASSUME NEW hash \in IF strategy = "ip_hash" THEN 0..1 ELSE {0}, Accept(hash)
      PROVE  o \in Range(pool) /\ ~ backends[o].draining /\ backends[o].label \in LabelsIn(current)
  <2>1. hash \in Nat
    OBVIOUS
  <2>2. PICK p \in Taking : p \in Objects /\ (UNCHANGED backends \/ backends' = [backends EXCEPT ![p].active = @ + 1])
    BY <1>2, <2>1, AcceptsTaking
  <2>3. o = p
    BY <1>0, <1>1, <2>2 DEF Objects
  <2>4. InService
    BY <1>2 DEF LbInv, LoopInv, IdleInv, Accept
  <2> QED
    BY <2>2, <2>3, <2>4 DEF InService, Taking
<1>3. ASSUME NEW p \in DOMAIN backends, Close(p) PROVE FALSE
  <2>1. p = o /\ backends'[o].active = backends[o].active - 1
    BY <1>0, <1>1, <1>3 DEF Close, Objects, BackendObject
  <2> QED
    BY <1>0, <2>1
<1>4. ~ Evaluate
  <2> SUFFICES ASSUME Evaluate PROVE FALSE
    OBVIOUS
  <2>1. PICK h \in Objects : h = Head(round)
    BY TailIs DEF LbInv, PoolTyped, Evaluate
  <2> DEFINE ok == backends[h].label \in answering
  <2>2. backends' = [backends EXCEPT ![h] = Evaluated(backends[h], ok)]
    BY <2>1 DEF Evaluate
  <2>3. backends[h] \in BackendObject
    BY PoolIs DEF LbInv
  <2>4. Evaluated(backends[h], ok).active = backends[h].active
    BY <2>3 DEF Evaluated, BackendObject
  <2> HIDE DEF ok
  <2> QED
    BY <1>0, <1>1, <2>2, <2>4 DEF Objects
<1>5. ~ Retire
  <2> SUFFICES ASSUME Retire PROVE FALSE
    OBVIOUS
  <2>1. PICK h : UNCHANGED backends \/ backends' = [backends EXCEPT ![h].draining = TRUE]
    BY DEF Retire
  <2> QED
    BY <1>0, <1>1, <2>1 DEF Objects, BackendObject
<1>6. ~ Admit
  <2> SUFFICES ASSUME Admit PROVE FALSE
    OBVIOUS
  <2>1. PICK n, w, new :
          \/ UNCHANGED backends
          \/ backends' = [backends EXCEPT ![n].weight = w, ![n].draining = FALSE]
          \/ backends' = With(NewNumber, new)
    BY DEF Admit
  <2>2. NewNumber # o
    <3>1. PICK m \in Nat : backends \in [1..m -> BackendObject]
      BY DEF LbInv, PoolTyped, BackendsTyped
    <3>2. Cardinality(1..m) = m
      BY FS_Interval
    <3>3. DOMAIN backends = 1..m
      BY <3>1
    <3> QED
      BY <3>2, <3>3 DEF NewNumber
  <2>3. CASE backends' = With(NewNumber, new)
    BY <1>1, <2>2, <2>3 DEF With
  <2>4. CASE backends' = [backends EXCEPT ![n].weight = w, ![n].draining = FALSE]
    BY <1>0, <1>1, <2>4 DEF Objects, BackendObject
  <2> QED
    BY <1>1, <2>1, <2>3, <2>4
<1> QED
  BY <1>1, <1>2, <1>3, <1>4, <1>5, <1>6 DEF Next, balancerVars, StartRound, StartReload,
     StartAdmitting, OperatorReloads, ServiceChanges, Terminate, Stop

\* No new connection goes to a backend that is drained or no longer configured, at any
\* moment of a reload and with any strategy (BackendPool::healthy, select, apply).
THEOREM RetiredGetNoClients == Spec => NeverToRetired
<1>1. LbInv /\ [Next]_balancerVars =>
        \A o \in DOMAIN backends \intersect DOMAIN backends' :
          backends'[o].active > backends[o].active =>
            /\ o \in Range(pool) /\ ~ backends[o].draining
            /\ backends[o].label \in LabelsIn(current)
  BY OnlyTakingGain
<1> QED
  BY <1>1, LbAlways, PTL DEF Spec, NeverToRetired
-----------------------------------------------------------------------------
(* Remainders.                                                             *)

\* The quotient and the remainder of a division.
LEMMA DividedBy ==
  ASSUME NEW a \in Nat, NEW n \in Nat \ {0}
  PROVE  a % n \in 0..(n - 1) /\ \E q \in Nat : a = q * n + (a % n)
<1>1. a % n \in 0..(n - 1)
  OBVIOUS
<1>2. a = (a \div n) * n + (a % n) /\ a \div n \in Nat
  OBVIOUS
<1> QED
  BY <1>1, <1>2

LEMMA ProductStep == \A q, n \in Int : (q + 1) * n = q * n + n
  OBVIOUS

LEMMA ProductGrows ==
  ASSUME NEW p \in Nat, NEW q \in Nat, NEW n \in Nat, p < q
  PROVE  q * n >= p * n + n /\ p * n \in Nat /\ q * n \in Nat
  OBVIOUS

\* There is only one remainder.
LEMMA RemainderIs ==
  ASSUME NEW n \in Nat \ {0}, NEW q \in Nat, NEW r \in 0..(n - 1)
  PROVE  (q * n + r) % n = r
<1>1. q * n \in Nat
  OBVIOUS
<1>2. PICK a \in Nat : a = q * n + r
  BY <1>1
<1>3. PICK p \in Nat : a = p * n + (a % n) /\ a % n \in 0..(n - 1)
  BY DividedBy
<1>4. PICK s \in 0..(n - 1) : s = a % n
  BY <1>3
<1>5. p = q
  <2>1. ~ (p < q)
    <3> SUFFICES ASSUME p < q PROVE FALSE
      OBVIOUS
    <3>1. q * n >= p * n + n /\ p * n \in Nat
      BY ProductGrows
    <3> QED
      BY <1>1, <1>2, <1>3, <1>4, <3>1
  <2>2. ~ (q < p)
    <3> SUFFICES ASSUME q < p PROVE FALSE
      OBVIOUS
    <3>1. p * n >= q * n + n /\ p * n \in Nat
      BY ProductGrows
    <3> QED
      BY <1>1, <1>2, <1>3, <1>4, <3>1
  <2> QED
    BY <2>1, <2>2
<1> QED
  BY <1>1, <1>2, <1>3, <1>4, <1>5

\* The counter's remainder goes up by one, and from the last to the first, also where
\* the counter starts again after whole cycles.
LEMMA NextRemainder ==
  ASSUME NEW m \in Nat \ {0}, NEW n \in Nat \ {0}, m % n = 0, NEW c \in 0..(m - 1)
  PROVE  ((c + 1) % m) % n = IF c % n = n - 1 THEN 0 ELSE (c % n) + 1
<1>0. c \in Nat /\ c % n \in 0..(n - 1) /\ \E q \in Nat : c = q * n + (c % n)
  <2>1. c \in Nat
    OBVIOUS
  <2> QED
    BY <2>1, DividedBy
<1>1. PICK q \in Nat : c = q * n + (c % n)
  BY <1>0
<1>2. PICK r \in 0..(n - 1) : r = c % n
  BY <1>0
<1>3. PICK p \in Nat : m = p * n
  <2>1. PICK p \in Nat : m = p * n + (m % n)
    BY DividedBy
  <2>2. p * n \in Nat
    OBVIOUS
  <2> QED
    BY <2>1, <2>2
<1>4. q * n \in Nat /\ p * n \in Nat
  OBVIOUS
<1>5. CASE c + 1 < m
  <2>1. (c + 1) % m = c + 1
    <3>1. (0 * m + (c + 1)) % m = c + 1
      BY <1>5, RemainderIs
    <3> QED
      BY <3>1
  <2>2. CASE r = n - 1
    <3>1. c + 1 = (q + 1) * n + 0
      BY <1>1, <1>2, <1>4, <2>2, ProductStep
    <3>2. ((q + 1) * n + 0) % n = 0
      BY RemainderIs
    <3> QED
      BY <1>2, <2>1, <2>2, <3>1, <3>2
  <2>3. CASE r # n - 1
    <3>1. c + 1 = q * n + (r + 1) /\ r + 1 \in 0..(n - 1)
      <4>1. PICK a \in Nat : a = q * n
        BY <1>4
      <4>2. c = a + r
        BY <1>1, <1>2, <4>1
      <4> QED
        BY <2>3, <4>1, <4>2
    <3>2. (q * n + (r + 1)) % n = r + 1
      BY <3>1, RemainderIs
    <3> QED
      BY <1>2, <2>1, <2>3, <3>1, <3>2
  <2> QED
    BY <2>2, <2>3
<1>6. CASE c + 1 = m
  <2>1. (c + 1) % m = 0
    <3>1. (1 * m + 0) % m = 0
      BY RemainderIs
    <3> QED
      BY <1>6, <3>1
  <2>2. 0 % n = 0
    <3>1. (0 * n + 0) % n = 0
      BY RemainderIs
    <3> QED
      BY <3>1
  <2>3. r = n - 1
    <3>1. p >= q + 1
      <4>1. ~ (p < q + 1)
        <5> SUFFICES ASSUME p < q + 1 PROVE FALSE
          OBVIOUS
        <5>1. (q + 1) * n >= p * n + n /\ p * n \in Nat
          BY ProductGrows
        <5>2. (q + 1) * n = q * n + n
          BY ProductStep
        <5> QED
          BY <1>1, <1>2, <1>3, <1>4, <1>6, <5>1, <5>2
      <4> QED
        BY <4>1
    <3>2. p * n >= q * n + n
      <4>1. q < p
        BY <3>1
      <4> QED
        BY <4>1, ProductGrows
    <3> QED
      BY <1>1, <1>2, <1>3, <1>4, <1>6, <3>2
  <2> QED
    BY <1>2, <2>1, <2>2, <2>3
<1> QED
  BY <1>5, <1>6

-----------------------------------------------------------------------------
(* The shares of a cycle.                                                  *)

\* The slots of the first i candidates, for their numbers of turns.
SlotsOf(turns, i) == Sum(SubSeq(turns, 1, i))

\* The candidate that holds a slot.
Holder(turns, slot) ==
  SelectInSeq([i \in DOMAIN turns |-> slot < SlotsOf(turns, i)], LAMBDA x : x)

LEMMA SlotsNext ==
  ASSUME NEW T \in Seq(Nat \ {0}), NEW i \in Nat, i < Len(T)
  PROVE  /\ SlotsOf(T, i) \in Nat
         /\ SlotsOf(T, i + 1) = SlotsOf(T, i) + T[i + 1]
<1> DEFINE f == SubSeq(T, 1, i)
           g == SubSeq(T, 1, i + 1)
<1>1. /\ f = [k \in 1..i |-> T[k]] /\ g = [k \in 1..(i + 1) |-> T[k]]
      /\ \A k \in 1..(i + 1) : T[k] \in Nat \ {0}
  OBVIOUS
<1>2. /\ DOMAIN f = 1..i /\ DOMAIN g = 1..(i + 1) /\ f \in [1..i -> Nat]
      /\ \A k \in 1..(i + 1) : g[k] = T[k] /\ g[k] \in Int
      /\ \A k \in 1..i : g[k] = f[k] /\ f[k] \in Int
      /\ T[i + 1] \in Nat
  <2>1. \A k \in 1..i : k \in 1..(i + 1)
    OBVIOUS
  <2> HIDE DEF f, g
  <2>2. \A k \in 1..i : f[k] = T[k] /\ f[k] \in Nat
    BY <1>1, <2>1
  <2>3. \A k \in 1..(i + 1) : g[k] = T[k] /\ g[k] \in Nat
    BY <1>1
  <2>4. DOMAIN f = 1..i /\ DOMAIN g = 1..(i + 1) /\ f \in [1..i -> Nat]
    BY <1>1, <2>2
  <2> QED
    BY <1>1, <2>1, <2>2, <2>3, <2>4
<1>3. IsFiniteSet(1..i) /\ IsFiniteSet(1..(i + 1))
  BY FS_Interval
<1>4. (1..(i + 1)) \ {i + 1} = 1..i /\ i + 1 \in 1..(i + 1)
  OBVIOUS
<1>5. SumFunction(f) = SumFunctionOnSet(f, 1..i) /\ SumFunction(g) = SumFunctionOnSet(g, 1..(i + 1))
  BY <1>2 DEF SumFunction
<1>6. SlotsOf(T, i) = SumFunction(f) /\ SlotsOf(T, i + 1) = SumFunction(g)
  BY DEF SlotsOf, Sum
<1> HIDE DEF f, g
<1>7. SumFunctionOnSet(g, 1..(i + 1)) = g[i + 1] + SumFunctionOnSet(g, (1..(i + 1)) \ {i + 1})
  BY <1>2, <1>3, <1>4, SumOnTake
<1>8. SumFunctionOnSet(g, 1..i) = SumFunctionOnSet(f, 1..i)
  BY <1>2, <1>3, SumOnEqual
<1>9. SumFunction(f) \in Nat
  BY <1>2, <1>3, SumAtLeast
<1>10. SumFunction(g) = g[i + 1] + SumFunctionOnSet(g, 1..i)
  BY <1>4, <1>5, <1>7
<1>11. g[i + 1] = T[i + 1] /\ SumFunctionOnSet(g, 1..i) = SumFunction(f)
  BY <1>2, <1>4, <1>5, <1>8
<1> QED
  BY <1>2, <1>6, <1>9, <1>10, <1>11

LEMMA SlotsEnds ==
  ASSUME NEW T \in Seq(Nat \ {0})
  PROVE  SlotsOf(T, 0) = 0 /\ SlotsOf(T, Len(T)) = Sum(T)
<1>1. SubSeq(T, 1, 0) = << >>
  OBVIOUS
<1>2. SubSeq(T, 1, Len(T)) = T
  BY SubSeqFull
<1>3. Sum(<< >>) = 0
  <2>1. DOMAIN << >> = {}
    OBVIOUS
  <2> QED
    BY <2>1, SumEmpty DEF Sum, SumFunction
<1> QED
  BY <1>1, <1>2, <1>3 DEF SlotsOf

LEMMA SlotsGrow ==
  ASSUME NEW T \in Seq(Nat \ {0}), NEW i \in Nat, NEW j \in Nat, i <= j, j <= Len(T)
  PROVE  SlotsOf(T, i) <= SlotsOf(T, j) /\ SlotsOf(T, j) \in Nat
<1> DEFINE G == {k \in Nat : i <= k /\ k <= Len(T) =>
                               SlotsOf(T, i) <= SlotsOf(T, k) /\ SlotsOf(T, k) \in Nat}
<1>1. 0 \in G
  BY SlotsEnds
<1>2. ASSUME NEW k \in Nat, k \in G PROVE k + 1 \in G
  <2> SUFFICES ASSUME i <= k + 1, k + 1 <= Len(T)
               PROVE  SlotsOf(T, i) <= SlotsOf(T, k + 1) /\ SlotsOf(T, k + 1) \in Nat
    OBVIOUS
  <2>1. /\ SlotsOf(T, k) \in Nat /\ SlotsOf(T, k + 1) = SlotsOf(T, k) + T[k + 1]
        /\ T[k + 1] \in Nat
    <3>1. k < Len(T) /\ k + 1 \in 1..Len(T)
      OBVIOUS
    <3> QED
      BY <3>1, SlotsNext
  <2>2. CASE i = k + 1
    BY <2>1, <2>2
  <2>3. CASE i <= k
    <3>1. SlotsOf(T, i) <= SlotsOf(T, k)
      BY <1>2, <2>3
    <3>2. SlotsOf(T, i) \in Nat
      BY <2>3, SlotsNext
    <3> QED
      BY <2>1, <3>1, <3>2
  <2> QED
    BY <2>2, <2>3
<1>3. Nat \subseteq G
  <2> HIDE DEF G
  <2> QED
    BY <1>1, <1>2, NatSetInduction
<1> QED
  BY <1>3

\* Each slot is one candidate's, and its slots lie between those of its neighbours.
LEMMA HolderIs ==
  ASSUME NEW T \in Seq(Nat \ {0}), NEW slot \in Nat, slot < Sum(T)
  PROVE  /\ Holder(T, slot) \in 1..Len(T)
         /\ \A i \in 1..Len(T) :
              Holder(T, slot) = i <=> SlotsOf(T, i - 1) <= slot /\ slot < SlotsOf(T, i)
<1> DEFINE n == Len(T)
           F == [i \in DOMAIN T |-> slot < SlotsOf(T, i)]
           I == {i \in 1..Len(F) : F[i]}
<1>1. DOMAIN T = 1..n /\ n \in Nat /\ Len(F) = n
  OBVIOUS
<1>2. Holder(T, slot) = IF I # {} THEN Min(I) ELSE 0
  BY DEF SelectInSeq, Holder
<1>3. \A i \in 1..n : F[i] <=> slot < SlotsOf(T, i)
  BY <1>1
<1>4. \A i \in 0..n : SlotsOf(T, i) \in Nat
  BY <1>1, SlotsGrow
<1>5. \A i \in 0..n : \A j \in i..n : SlotsOf(T, i) <= SlotsOf(T, j)
  BY <1>1, SlotsGrow
<1>6. n \in 1..n /\ slot < SlotsOf(T, n)
  BY <1>1, SlotsEnds
<1> HIDE DEF F
<1>7. n \in I /\ I \in SUBSET Nat /\ I \subseteq 1..n /\ \A i \in 1..n : i \in I <=> slot < SlotsOf(T, i)
  BY <1>1, <1>3, <1>6
<1> HIDE DEF I, n
<1>8. PICK h \in 1..n : h = Holder(T, slot) /\ h \in I /\ \A i \in I : h <= i
  <2>1. Min(I) \in I
    BY <1>7, FirstIn
  <2>2. \E x \in I : \A y \in I : x <= y
    BY <1>7, LeastOf
  <2>3. \A y \in I : Min(I) <= y
    BY <2>2 DEF Min
  <2> QED
    BY <1>2, <1>7, <2>1, <2>3
<1>9. slot < SlotsOf(T, h)
  BY <1>7, <1>8
<1>10. SlotsOf(T, h - 1) <= slot
  <2>1. CASE h = 1
    <3>1. h - 1 = 0
      BY <2>1
    <3> QED
      BY <3>1, SlotsEnds
  <2>2. CASE h # 1
    <3>1. h - 1 \in 1..n /\ h - 1 \notin I /\ h - 1 \in 0..n
      BY <1>1, <1>7, <1>8, <2>2
    <3> QED
      BY <1>4, <1>7, <3>1
  <2> QED
    BY <2>1, <2>2
<1>11. ASSUME NEW i \in 1..n, SlotsOf(T, i - 1) <= slot, slot < SlotsOf(T, i) PROVE h = i
  <2>1. i \in I /\ h <= i
    BY <1>7, <1>8, <1>11
  <2>2. ~ (h < i)
    <3> SUFFICES ASSUME h < i PROVE FALSE
      OBVIOUS
    <3>1. h \in 0..n /\ i - 1 \in h..n /\ i - 1 \in 0..n
      BY <1>1
    <3>2. SlotsOf(T, h) <= SlotsOf(T, i - 1) /\ SlotsOf(T, h) \in Nat /\ SlotsOf(T, i - 1) \in Nat
      BY <1>4, <1>5, <3>1
    <3> QED
      BY <1>9, <1>11, <3>2
  <2> QED
    BY <1>1, <2>1, <2>2
<1>12. Holder(T, slot) \in 1..n
  BY <1>8
<1>13. ASSUME NEW i \in 1..n
       PROVE  Holder(T, slot) = i <=> SlotsOf(T, i - 1) <= slot /\ slot < SlotsOf(T, i)
  BY <1>8, <1>9, <1>10, <1>11
<1> QED
  BY <1>12, <1>13 DEF n

\* The lists of candidates that choices are remembered for.
CandidateList == Seq([backend : Nat, turns : Nat \ {0}])
Once(from) == \A i, j \in 1..Len(from) : from[i].backend = from[j].backend => i = j
TurnsIn(from) == [i \in DOMAIN from |-> from[i].turns]

\* The slot j turns ago.
Back(slot, j, total) == IF j <= slot THEN slot - j ELSE slot + total - j

\* The choices remembered are those of the slots up to this one, going round.
Followed(from, chosen, slot) ==
  LET turns == TurnsIn(from)
      total == Sum(turns)
  IN /\ chosen \in Seq(Nat) /\ Len(chosen) <= total
     /\ \A k \in 1..Len(chosen) :
          chosen[k] = from[Holder(turns, Back(slot, Len(chosen) - k + 1, total))].backend

LEMMA TurnsInType ==
  ASSUME NEW from \in CandidateList
  PROVE  /\ TurnsIn(from) \in Seq(Nat \ {0}) /\ Len(TurnsIn(from)) = Len(from)
         /\ \A i \in 1..Len(from) : TurnsIn(from)[i] = from[i].turns /\ from[i].backend \in Nat
<1> DEFINE n == Len(from)
           T == TurnsIn(from)
<1>1. n \in Nat /\ DOMAIN from = 1..n /\ \A i \in 1..n : from[i] \in [backend : Nat, turns : Nat \ {0}]
  <2> DEFINE E == [backend : Nat, turns : Nat \ {0}]
  <2>1. from \in Seq(E)
    BY DEF CandidateList
  <2> HIDE DEF E
  <2>2. n \in Nat /\ DOMAIN from = 1..n /\ \A i \in 1..n : from[i] \in E
    BY <2>1
  <2> QED
    BY <2>2 DEF E
<1>2. \A i \in 1..n : from[i].turns \in Nat \ {0} /\ from[i].backend \in Nat
  BY <1>1
<1>3. T = [i \in 1..n |-> from[i].turns]
  BY <1>1 DEF TurnsIn
<1> HIDE DEF T, n
<1>4. T \in [1..n -> Nat \ {0}] /\ \A i \in 1..n : T[i] = from[i].turns
  BY <1>2, <1>3
<1>5. T \in Seq(Nat \ {0}) /\ Len(T) = n
  BY <1>1, <1>4
<1> QED
  BY <1>2, <1>4, <1>5 DEF T, n

\* The choices remembered after one more: those of at most one cycle.
Longer(chosen, o, total) ==
  LET longer == Append(chosen, o) IN IF Len(longer) > total THEN Tail(longer) ELSE longer

OneLonger(more, chosen, o, n, total) ==
  /\ more \in Seq(Nat)
  /\ n < total => /\ Len(more) = n + 1 /\ more[n + 1] = o
                  /\ \A k \in 1..n : more[k] = chosen[k]
  /\ n = total => /\ Len(more) = n /\ more[n] = o
                  /\ \A k \in 1..(n - 1) : more[k] = chosen[k + 1]

LEMMA TailOf ==
  ASSUME NEW S, NEW s \in Seq(S), s # << >>
  PROVE  /\ Tail(s) \in Seq(S) /\ Len(Tail(s)) = Len(s) - 1
         /\ \A k \in 1..(Len(s) - 1) : Tail(s)[k] = s[k + 1]
  OBVIOUS

LEMMA LongerIs ==
  ASSUME NEW chosen \in Seq(Nat), NEW o \in Nat, NEW n \in Nat, n = Len(chosen),
         NEW total \in Nat \ {0}, n <= total, NEW more, more = Longer(chosen, o, total)
  PROVE  OneLonger(more, chosen, o, n, total)
<1> DEFINE longer == Append(chosen, o)
<1>1. /\ longer \in Seq(Nat) /\ Len(longer) = n + 1 /\ longer[n + 1] = o
      /\ \A k \in 1..n : longer[k] = chosen[k]
  OBVIOUS
<1>2. more = IF Len(longer) > total THEN Tail(longer) ELSE longer
  BY DEF Longer
<1> HIDE DEF longer
<1>3. CASE n < total
  <2>1. more = longer
    BY <1>1, <1>2, <1>3
  <2> QED
    BY <1>1, <1>3, <2>1 DEF OneLonger
<1>4. CASE n = total
  <2>1. more = Tail(longer) /\ longer # << >>
    BY <1>1, <1>2, <1>4
  <2>2. more \in Seq(Nat) /\ Len(more) = n /\ \A k \in 1..n : more[k] = longer[k + 1]
    BY <1>1, <2>1, TailOf
  <2>3. \A k \in 1..(n - 1) : k + 1 \in 1..n /\ k \in 1..n
    OBVIOUS
  <2>4. n \in 1..n
    BY <1>4
  <2>5. more[n] = o /\ \A k \in 1..(n - 1) : more[k] = chosen[k + 1]
    BY <1>1, <2>2, <2>3, <2>4
  <2> QED
    BY <1>4, <2>2, <2>5 DEF OneLonger
<1> QED
  BY <1>3, <1>4

\* The next choice goes to the holder of the slot at hand.
LEMMA FollowedOn ==
  ASSUME NEW from \in CandidateList, NEW total \in Nat \ {0}, total = Sum(TurnsIn(from)),
         NEW slot \in 0..(total - 1), NEW chosen, Followed(from, chosen, slot), NEW o \in Nat,
         o = from[Holder(TurnsIn(from), slot)].backend
  PROVE  Followed(from, Longer(chosen, o, total), IF slot = total - 1 THEN 0 ELSE slot + 1)
<1> DEFINE turns == TurnsIn(from)
           At(s) == from[Holder(turns, s)].backend
           next == IF slot = total - 1 THEN 0 ELSE slot + 1
           more == Longer(chosen, o, total)
<1> HIDE DEF At
<1>1. /\ chosen \in Seq(Nat) /\ Len(chosen) <= total
      /\ \A k \in 1..Len(chosen) : chosen[k] = At(Back(slot, Len(chosen) - k + 1, total))
      /\ o = At(slot)
  BY DEF Followed, At
<1>2. PICK n \in Nat : n = Len(chosen)
  BY <1>1
<1>3. /\ more \in Seq(Nat)
      /\ n < total => /\ Len(more) = n + 1 /\ more[n + 1] = o
                      /\ \A k \in 1..n : more[k] = chosen[k]
      /\ n = total => /\ Len(more) = n /\ more[n] = o
                      /\ \A k \in 1..(n - 1) : more[k] = chosen[k + 1]
  <2>1. n <= total
    BY <1>1, <1>2
  <2>2. more = Longer(chosen, o, total)
    OBVIOUS
  <2> HIDE DEF more
  <2>3. OneLonger(more, chosen, o, n, total)
    BY <1>1, <1>2, <2>1, <2>2, LongerIs
  <2> QED
    BY <2>3 DEF OneLonger
<1>4. \A j \in 1..(total - 1) : Back(next, j + 1, total) = Back(slot, j, total)
  <2> SUFFICES ASSUME NEW j \in 1..(total - 1) PROVE Back(next, j + 1, total) = Back(slot, j, total)
    OBVIOUS
  <2>1. CASE slot = total - 1
    BY <2>1 DEF Back
  <2>2. CASE slot # total - 1
    BY <2>2 DEF Back
  <2> QED
    BY <2>1, <2>2
<1>5. Back(next, 1, total) = slot
  BY DEF Back
<1> HIDE DEF more, next
<1>6. CASE n < total
  <2>1. ASSUME NEW k \in 1..(n + 1) PROVE more[k] = At(Back(next, (n + 1) - k + 1, total))
    <3>1. CASE k = n + 1
      <4>1. (n + 1) - k + 1 = 1
        BY <3>1
      <4> QED
        BY <1>1, <1>3, <1>5, <1>6, <3>1, <4>1
    <3>2. CASE k # n + 1
      <4>1. k \in 1..n /\ n - k + 1 \in 1..(total - 1) /\ (n + 1) - k + 1 = (n - k + 1) + 1
        BY <1>6, <3>2
      <4>2. chosen[k] = At(Back(slot, n - k + 1, total))
        BY <1>1, <1>2, <4>1
      <4> QED
        BY <1>3, <1>4, <1>6, <4>1, <4>2
    <3> QED
      BY <3>1, <3>2
  <2>2. Len(more) = n + 1 /\ n + 1 <= total
    BY <1>3, <1>6
  <2> QED
    BY <1>3, <2>1, <2>2 DEF Followed, At, more, next
<1>7. CASE n = total
  <2>1. ASSUME NEW k \in 1..n PROVE more[k] = At(Back(next, n - k + 1, total))
    <3>1. CASE k = n
      <4>1. n - k + 1 = 1
        BY <3>1
      <4> QED
        BY <1>1, <1>3, <1>5, <1>7, <3>1, <4>1
    <3>2. CASE k # n
      <4>1. /\ k \in 1..(n - 1) /\ k + 1 \in 1..n /\ n - k \in 1..(total - 1)
            /\ n - (k + 1) + 1 = n - k
        BY <1>7, <3>2
      <4>2. chosen[k + 1] = At(Back(slot, n - k, total))
        BY <1>1, <1>2, <4>1
      <4> QED
        BY <1>3, <1>4, <1>7, <4>1, <4>2
    <3> QED
      BY <3>1, <3>2
  <2>2. Len(more) = n /\ n <= total
    BY <1>3, <1>7
  <2> QED
    BY <1>3, <2>1, <2>2 DEF Followed, At, more, next
<1> QED
  BY <1>1, <1>2, <1>6, <1>7

\* Going round once meets the slots between two bounds as often as there are such.
LEMMA RoundCount ==
  ASSUME NEW total \in Nat \ {0}, NEW slot \in 0..(total - 1), NEW a \in Nat, NEW b \in Nat,
         a <= b, b <= total
  PROVE  Cardinality({k \in 1..total : Back(slot, total - k + 1, total) \in a..(b - 1)}) = b - a
<1> DEFINE ago(k) == Back(slot, total - k + 1, total)
           K == {k \in 1..total : ago(k) \in a..(b - 1)}
           S == a..(b - 1)
           turn(s) == IF s < slot THEN s - slot + total + 1 ELSE s - slot + 1
           f == [s \in S |-> turn(s)]
<1>1. \A s \in 0..(total - 1) : turn(s) \in 1..total /\ ago(turn(s)) = s
  BY DEF Back
<1>2. \A k \in 1..total : ago(k) \in 0..(total - 1) /\ turn(ago(k)) = k
  BY DEF Back
<1>3. S \subseteq 0..(total - 1)
  OBVIOUS
<1> HIDE DEF ago, turn
<1>4. f \in Bijection(S, K)
  <2>1. f \in [S -> K]
    BY <1>1, <1>3
  <2>2. \A s, t \in S : f[s] = f[t] => s = t
    BY <1>1, <1>3
  <2>3. \A k \in K : \E s \in S : f[s] = k
    <3> SUFFICES ASSUME NEW k \in K PROVE \E s \in S : f[s] = k
      OBVIOUS
    <3>1. ago(k) \in S /\ turn(ago(k)) = k
      BY <1>2
    <3> QED
      BY <3>1
  <2> HIDE DEF f, K, S
  <2> QED
    BY <2>1, <2>2, <2>3 DEF Bijection, Injection, Surjection, IsInjective
<1>5. IsFiniteSet(S) /\ Cardinality(S) = b - a
  <2>1. PICK c \in Int : c = b - 1
    OBVIOUS
  <2>2. IsFiniteSet(a..c) /\ Cardinality(a..c) = IF a > c THEN 0 ELSE c - a + 1
    BY FS_Interval
  <2> QED
    BY <2>1, <2>2
<1>6. ExistsBijection(S, K)
  BY <1>4 DEF ExistsBijection
<1>7. Cardinality(K) = Cardinality(S)
  <2> HIDE DEF K, S
  <2> QED
    BY <1>5, <1>6, FS_Bijection
<1> QED
  BY <1>5, <1>7 DEF ago

\* In a whole cycle each candidate is chosen as often as it has turns.
LEMMA CycleShared ==
  ASSUME NEW from \in CandidateList, Once(from), NEW total \in Nat \ {0}, total = Sum(TurnsIn(from)),
         NEW slot \in 0..(total - 1), NEW chosen, Followed(from, chosen, slot), Len(chosen) = total,
         NEW i \in 1..Len(from)
  PROVE  Cardinality({n \in DOMAIN chosen : chosen[n] = from[i].backend}) = from[i].turns
<1> DEFINE turns == TurnsIn(from)
           ago(k) == Back(slot, total - k + 1, total)
           a == SlotsOf(turns, i - 1)
           b == SlotsOf(turns, i)
<1>1. /\ turns \in Seq(Nat \ {0}) /\ Len(turns) = Len(from) /\ turns[i] = from[i].turns
      /\ turns[i] \in Nat
  BY TurnsInType
<1>2. /\ chosen \in Seq(Nat) /\ DOMAIN chosen = 1..total
      /\ \A k \in 1..total : chosen[k] = from[Holder(turns, ago(k))].backend
  BY DEF Followed
<1>3. a \in Nat /\ b = a + turns[i] /\ b <= total /\ b \in Nat /\ a <= b
  <2>1. i - 1 \in Nat /\ i - 1 < Len(turns) /\ (i - 1) + 1 = i /\ i \in Nat /\ i <= Len(turns) /\ Len(turns) \in Nat
    BY <1>1
  <2>2. a \in Nat /\ b = a + turns[i]
    BY <1>1, <2>1, SlotsNext
  <2>3. b <= total
    BY <1>1, <2>1, SlotsGrow, SlotsEnds
  <2> HIDE DEF a, b, turns
  <2> QED
    BY <1>1, <2>2, <2>3
<1>4. \A k \in 1..total : ago(k) \in 0..(total - 1)
  BY DEF Back
<1> HIDE DEF ago
<1>5. ASSUME NEW k \in 1..total
      PROVE  chosen[k] = from[i].backend <=> ago(k) \in a..(b - 1)
  <2>1. ago(k) \in Nat /\ ago(k) < Sum(turns)
    BY <1>4
  <2>2. PICK h \in 1..Len(from) : /\ h = Holder(turns, ago(k))
                                  /\ (h = i <=> a <= ago(k) /\ ago(k) < b)
    BY <1>1, <2>1, HolderIs
  <2>3. chosen[k] = from[i].backend <=> h = i
    BY <1>2, <2>2 DEF Once
  <2> HIDE DEF a, b
  <2>4. (a <= ago(k) /\ ago(k) < b) <=> ago(k) \in a..(b - 1)
    BY <1>3, <2>1
  <2> QED
    BY <2>2, <2>3, <2>4
<1>6. {n \in DOMAIN chosen : chosen[n] = from[i].backend} = {k \in 1..total : ago(k) \in a..(b - 1)}
  <2> HIDE DEF a, b
  <2> QED
    BY <1>2, <1>5
<1>7. Cardinality({k \in 1..total : ago(k) \in a..(b - 1)}) = b - a
  <2> HIDE DEF a, b
  <2> QED
    BY <1>3, RoundCount DEF ago
<1>8. b - a = from[i].turns
  <2> HIDE DEF a, b, turns
  <2> QED
    BY <1>1, <1>3
<1> HIDE DEF a, b, turns
<1> QED
  BY <1>6, <1>7, <1>8

\* What is kept of a sequence without repetitions has none.
Distinct(s) == \A j, k \in 1..Len(s) : s[j] = s[k] => j = k

LEMMA DistinctAppend ==
  ASSUME NEW S, NEW s \in Seq(S), Distinct(s), NEW e \in S, e \notin Upto(s, Len(s))
  PROVE  Distinct(Append(s, e))
<1> DEFINE a == Append(s, e)
           n == Len(s)
<1>1. /\ n \in Nat /\ Len(a) = n + 1 /\ a[n + 1] = e /\ \A j \in 1..n : a[j] = s[j]
  OBVIOUS
<1>2. \A j \in 1..n : s[j] # e
  BY DEF Upto
<1>3. \A j, k \in 1..n : s[j] = s[k] => j = k
  BY DEF Distinct
<1> HIDE DEF a, n
<1>4. \A j \in 1..(n + 1) : j \in 1..n \/ j = n + 1
  BY <1>1
<1> QED
  BY <1>1, <1>2, <1>3, <1>4 DEF Distinct, a

LEMMA KeptDistinct ==
  ASSUME NEW S, NEW seq \in Seq(S), IsInjective(seq), NEW set
  PROVE  Distinct(Kept(seq, set))
<1> DEFINE n == Len(seq)
           g == CHOOSE f : f = [i \in 0..n |-> KeptStep(seq, set, f, i)]
           Good == {i \in Nat : i <= n => KeptAt(g, seq, set, S, i) /\ Distinct(g[i])}
<1>1. n \in Nat /\ DOMAIN seq = 1..n /\ \A j \in 1..n : seq[j] \in S
  OBVIOUS
<1>2. g = [i \in 0..n |-> KeptStep(seq, set, g, i)]
  <2>1. \E f : f = [i \in 0..n |-> KeptStep(seq, set, f, i)]
    BY <1>1, KeptExists
  <2> HIDE DEF n
  <2> QED
    BY <2>1
<1>3. Kept(seq, set) = g[n]
  BY KeptIs
<1> HIDE DEF g
<1>4. \A i \in 0..n : g[i] = KeptStep(seq, set, g, i)
  BY <1>2
<1>5. 0 \in Good
  <2>1. g[0] = << >>
    BY <1>1, <1>4 DEF KeptStep
  <2>2. KeptAt(g, seq, set, S, 0)
    BY <2>1 DEF KeptAt, Upto
  <2>3. Distinct(<< >>)
    BY DEF Distinct
  <2> QED
    BY <2>1, <2>2, <2>3
<1>6. ASSUME NEW i \in Nat, i \in Good PROVE i + 1 \in Good
  <2> SUFFICES ASSUME i + 1 <= n PROVE KeptAt(g, seq, set, S, i + 1) /\ Distinct(g[i + 1])
    OBVIOUS
  <2>1. KeptAt(g, seq, set, S, i) /\ Distinct(g[i])
    BY <1>1, <1>6
  <2>2. g[i + 1] = KeptStep(seq, set, g, i + 1)
    <3>1. i + 1 \in 0..n
      BY <1>1
    <3> QED
      BY <1>4, <3>1
  <2>3. KeptAt(g, seq, set, S, i + 1)
    BY <2>1, <2>2, KeptNext
  <2>4. (i + 1) - 1 = i /\ i + 1 # 0 /\ i + 1 \in 1..n
    BY <1>1
  <2>5. g[i + 1] = IF seq[i + 1] \in set THEN Append(g[i], seq[i + 1]) ELSE g[i]
    BY <2>2, <2>4 DEF KeptStep
  <2>6. PICK s \in Seq(S) : s = g[i] /\ Upto(s, Len(s)) = Upto(seq, i) \intersect set
    BY <2>1 DEF KeptAt
  <2>7. \A j \in 1..i : j \in 1..n /\ j # i + 1
    BY <1>1, <2>4
  <2>8. seq[i + 1] \notin Upto(seq, i)
    BY <1>1, <2>4, <2>7 DEF Upto, IsInjective
  <2>9. CASE seq[i + 1] \in set
    <3>1. seq[i + 1] \in S /\ seq[i + 1] \notin Upto(s, Len(s)) /\ Distinct(s)
      BY <1>1, <2>1, <2>4, <2>6, <2>8
    <3>2. Distinct(Append(s, seq[i + 1]))
      BY <3>1, DistinctAppend
    <3> QED
      BY <2>3, <2>5, <2>6, <2>9, <3>2
  <2>10. CASE seq[i + 1] \notin set
    BY <2>1, <2>3, <2>5, <2>10
  <2> QED
    BY <2>3, <2>9, <2>10
<1>7. n \in Good
  <2> HIDE DEF Good, n
  <2> QED
    BY <1>1, <1>5, <1>6, NatSetInduction
<1> QED
  BY <1>1, <1>3, <1>7

\* The list of candidates that a choice is remembered for.
ListOf(seen) == [i \in DOMAIN seen |-> [backend |-> seen[i], turns |-> Turns(seen)[i]]]

LEMMA ListIs ==
  ASSUME BackendsTyped, NEW seen \in Seq(DOMAIN backends), Distinct(seen)
  PROVE  /\ ListOf(seen) \in CandidateList /\ Once(ListOf(seen)) /\ Len(ListOf(seen)) = Len(seen)
         /\ TurnsIn(ListOf(seen)) = Turns(seen)
         /\ \A i \in 1..Len(seen) : ListOf(seen)[i].backend = seen[i] /\ seen[i] \in Nat
<1> DEFINE n == Len(seen)
           T == Turns(seen)
           l == ListOf(seen)
           E == [backend : Nat, turns : Nat \ {0}]
<1>1. T \in Seq(Nat \ {0}) /\ Len(T) = n /\ n \in Nat /\ DOMAIN T = 1..n
  BY TurnsType
<1>2. DOMAIN seen = 1..n /\ \A i \in 1..n : seen[i] \in Nat
  <2>1. PICK m \in Nat : DOMAIN backends = 1..m
    BY DEF BackendsTyped
  <2>2. \A i \in 1..n : seen[i] \in DOMAIN backends
    OBVIOUS
  <2> QED
    BY <2>1, <2>2
<1>3. \A i \in 1..n : T[i] \in Nat \ {0}
  BY <1>1
<1>4. T = [i \in 1..n |-> T[i]]
  BY <1>1
<1> HIDE DEF T
<1>5. l = [i \in 1..n |-> [backend |-> seen[i], turns |-> T[i]]]
  BY <1>2 DEF ListOf, T
<1> HIDE DEF l, n
<1>6. \A i \in 1..n : l[i] \in E /\ l[i].backend = seen[i] /\ l[i].turns = T[i]
  BY <1>2, <1>3, <1>5
<1>7. DOMAIN l = 1..n /\ l \in [1..n -> E]
  BY <1>5, <1>6
<1>8. l \in Seq(E) /\ Len(l) = n
  <2> HIDE DEF E
  <2> QED
    BY <1>1, <1>7
<1>9. TurnsIn(l) = T
  BY <1>4, <1>6, <1>7 DEF TurnsIn
<1>10. Once(l)
  BY <1>6, <1>8 DEF Once, Distinct, n
<1> QED
  BY <1>2, <1>6, <1>8, <1>9, <1>10 DEF CandidateList, l, T, n

-----------------------------------------------------------------------------
(* Fair shares.                                                            *)

\* The counter starts again after whole cycles only.  The code's has 64 bits: in a list
\* of candidates whose turns do not divide 2^64 one cycle in 2^64 choices is cut short.
WholeCycles == InTurn /\ Candidates # << >> => Cycle % Sum(Turns(Candidates)) = 0

SharesIn(p, c) ==
  /\ p.from \in CandidateList /\ Once(p.from)
  /\ IF p.from = << >> THEN p.chosen = << >>
     ELSE Followed(p.from, p.chosen, c % Sum(TurnsIn(p.from)))

SharesInv == SharesIn(picks, counter)

LEMMA SharesStart == \A c : SharesIn(NoPicks, c)
<1>1. NoPicks.from = << >> /\ NoPicks.chosen = << >>
  BY DEF NoPicks
<1>2. << >> \in CandidateList /\ Once(<< >>)
  BY DEF CandidateList, Once
<1> QED
  BY <1>1, <1>2 DEF SharesIn

LEMMA AcceptShares ==
  ASSUME LbInv, WholeCycles, SharesInv, InTurn, NEW hash, Accept(hash)
  PROVE  SharesInv'
<1> DEFINE seen == Candidates
           from == ListOf(seen)
<1>1. /\ BackendsTyped /\ seen \in Seq(DOMAIN backends) /\ seen # << >>
      /\ Cycle \in Nat \ {0} /\ counter \in 0..(Cycle - 1)
  BY CandidatesAre, BalancerAssumption DEF LbInv, PoolTyped, Accept, Objects
<1>2. Distinct(seen)
  <2> DEFINE E == {o \in Range(pool) : Eligible(backends[o])}
  <2>1. pool \in Seq(Objects) /\ IsInjective(pool)
    BY DEF LbInv, PoolTyped
  <2>2. Distinct(Kept(pool, E))
    <3> HIDE DEF E
    <3> QED
      BY <2>1, KeptDistinct
  <2> QED
    BY <2>2 DEF Candidates
<1>3. PICK o : o = Selected(seen, hash)
  OBVIOUS
<1>4. counter' = (counter + 1) % Cycle /\ picks' = Picked(seen, o)
  BY <1>3 DEF Accept
<1>5. Cycle % Sum(Turns(seen)) = 0
  BY <1>1 DEF WholeCycles
<1>6. Selected(seen, hash) = TurnOf(seen, counter % Sum(Turns(seen)))
  BY DEF Selected, InTurn
<1> HIDE DEF seen
<1>7. /\ from \in CandidateList /\ Once(from) /\ Len(from) = Len(seen) /\ TurnsIn(from) = Turns(seen)
      /\ \A i \in 1..Len(seen) : from[i].backend = seen[i] /\ seen[i] \in Nat
  BY <1>1, <1>2, ListIs
<1>8. PICK total \in Nat \ {0} : total = Sum(Turns(seen))
  <2>1. Turns(seen) \in Seq(Nat \ {0}) /\ Len(Turns(seen)) = Len(seen) /\ Len(seen) # 0
    BY <1>1, TurnsType
  <2>2. Turns(seen) # << >>
    BY <2>1
  <2> QED
    BY <2>1, <2>2, CycleLength
<1>9. PICK slot \in 0..(total - 1) : slot = counter % total
  <2>1. counter \in Nat
    BY <1>1
  <2> QED
    BY <2>1, DividedBy
<1>10. PICK h \in 1..Len(seen) : h = Holder(Turns(seen), slot)
  <2>1. Turns(seen) \in Seq(Nat \ {0}) /\ Len(Turns(seen)) = Len(seen)
    BY <1>1, TurnsType
  <2> QED
    BY <1>8, <1>9, <2>1, HolderIs
<1>11. o = seen[h]
  <2>1. DOMAIN Turns(seen) = DOMAIN seen
    BY DEF Turns
  <2>2. TurnOf(seen, slot) = seen[Holder(Turns(seen), slot)]
    BY <2>1 DEF TurnOf, Holder, SlotsOf
  <2> QED
    BY <1>3, <1>6, <1>8, <1>9, <1>10, <2>2
<1>12. o \in Nat /\ o = from[Holder(TurnsIn(from), slot)].backend
  BY <1>7, <1>10, <1>11
<1> DEFINE chosen == IF picks.from = from THEN picks.chosen ELSE << >>
<1>13. picks'.from = from /\ picks'.chosen = Longer(chosen, o, total)
  BY <1>4, <1>8 DEF Picked, Longer, ListOf
<1> HIDE DEF from
<1>14. from # << >>
  BY <1>1, <1>7
<1>15. Followed(from, chosen, slot)
  <2>1. CASE picks.from = from
    BY <1>7, <1>8, <1>9, <1>14, <2>1 DEF SharesInv, SharesIn
  <2>2. CASE picks.from # from
    <3>1. chosen = << >>
      BY <2>2
    <3>2. Followed(from, << >>, slot)
      BY <1>7, <1>8 DEF Followed
    <3> QED
      BY <3>1, <3>2
  <2> QED
    BY <2>1, <2>2
<1> HIDE DEF chosen
<1>16. Followed(from, Longer(chosen, o, total), IF slot = total - 1 THEN 0 ELSE slot + 1)
  BY <1>7, <1>8, <1>12, <1>15, FollowedOn
<1>17. counter' % total = IF slot = total - 1 THEN 0 ELSE slot + 1
  <2>1. Cycle % total = 0
    BY <1>5, <1>8
  <2>2. ((counter + 1) % Cycle) % total = IF counter % total = total - 1 THEN 0 ELSE (counter % total) + 1
    <3>1. PICK m \in Nat \ {0} : m = Cycle
      BY <1>1
    <3>2. PICK c \in 0..(m - 1) : c = counter
      BY <1>1, <3>1
    <3>3. m % total = 0
      BY <2>1, <3>1
    <3>4. ((c + 1) % m) % total = IF c % total = total - 1 THEN 0 ELSE (c % total) + 1
      BY Zenon, <3>3, NextRemainder
    <3> QED
      BY <3>1, <3>2, <3>4
  <2> QED
    BY <1>4, <1>9, <2>2
<1>18. Followed(from, picks'.chosen, counter' % Sum(TurnsIn(from)))
  BY <1>7, <1>8, <1>13, <1>16, <1>17
<1>19. SharesIn(picks', counter')
  BY <1>7, <1>13, <1>14, <1>18 DEF SharesIn
<1> QED
  BY <1>19 DEF SharesInv

LEMMA SharesStep ==
  ASSUME LbInv, WholeCycles, SharesInv, [Next]_balancerVars PROVE SharesInv'
<1>1. CASE UNCHANGED <<picks, counter>>
  BY <1>1 DEF SharesInv
<1>2. ASSUME NEW hash, Accept(hash) PROVE SharesInv'
  <2>1. CASE InTurn
    BY <1>2, <2>1, AcceptShares
  <2>2. CASE ~ InTurn
    BY <1>1, <1>2, <2>2 DEF Accept
  <2> QED
    BY <2>1, <2>2
<1>3. CASE Stop
  <2>1. picks' = NoPicks
    BY <1>3 DEF Stop
  <2> QED
    BY <2>1, SharesStart DEF SharesInv
<1> QED
  BY <1>1, <1>2, <1>3 DEF Next, balancerVars, configVars, loopVars, StartRound, Evaluate, Close, StartReload, Retire,
     StartAdmitting, Admit, OperatorReloads, ServiceChanges, Terminate

LEMMA SharesFair == ASSUME LbInv, SharesInv PROVE FairShares
<1> DEFINE from == picks.from
           turns == TurnsIn(from)
<1> SUFFICES ASSUME Len(picks.chosen) = Sum(turns), NEW i \in DOMAIN from
             PROVE  Cardinality({n \in DOMAIN picks.chosen : picks.chosen[n] = from[i].backend})
                      = from[i].turns
  BY DEF FairShares, TurnsIn
<1>1. from \in CandidateList /\ Once(from)
  BY DEF SharesInv, SharesIn
<1>2. DOMAIN from = 1..Len(from) /\ from # << >>
  BY <1>1 DEF CandidateList
<1>3. Followed(from, picks.chosen, counter % Sum(turns))
  BY <1>2 DEF SharesInv, SharesIn
<1>4. turns \in Seq(Nat \ {0}) /\ Len(turns) = Len(from)
  BY <1>1, TurnsInType
<1>5. PICK total \in Nat \ {0} : total = Sum(turns)
  <2>1. turns # << >>
    BY <1>2, <1>4
  <2> QED
    BY <1>4, <2>1, CycleLength
<1>6. PICK slot \in 0..(total - 1) : slot = counter % total
  <2>1. counter \in Nat
    BY BalancerAssumption DEF LbInv, PoolTyped
  <2> QED
    BY <2>1, DividedBy
<1> HIDE DEF from
<1> QED
  BY <1>1, <1>2, <1>3, <1>5, <1>6, CycleShared

\* Over a full cycle of choices from the same candidates each gets one turn, or its weight
\* in turns, wherever the cycle starts, for any number of candidates and any weights, if the
\* counter wraps round after whole cycles only (RoundRobinStrategy, WeightedStrategy).
THEOREM SharesAreFair == Spec /\ []WholeCycles => []FairShares
<1>1. Init => SharesInv
  BY SharesStart DEF Init, SharesInv
<1>2. LbInv /\ WholeCycles /\ SharesInv /\ [Next]_balancerVars => SharesInv'
  BY SharesStep
<1>3. LbInv /\ SharesInv => FairShares
  BY SharesFair
<1> QED
  BY <1>1, <1>2, <1>3, LbAlways, PTL DEF Spec
=============================================================================
