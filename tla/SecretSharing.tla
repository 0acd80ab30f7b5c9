--------------------------- MODULE SecretSharing ---------------------------
(***************************************************************************)
(* The arithmetic of the MPC cluster over a small prime field: additive    *)
(* shares, Beaver triples, the comparison and the chain of comparisons and *)
(* multiplications that a maximum is made of.  The parties are 0 .. N-1.   *)
(* A round of broadcast and gather waits for every peer, so that all the   *)
(* parties take a step of the chain together.                              *)
(***************************************************************************)
EXTENDS Integers, Sequences, SequencesExt, FiniteSetsExt

CONSTANTS P,         \* the prime
          N,         \* the number of parties
          Draws,     \* the random elements tried
          MaxSlots   \* the longest list of inputs

ASSUME SharingAssumption == /\ P \in Nat /\ P > 2 /\ N \in Nat /\ N >= 2
                            /\ Draws \subseteq 0 .. P - 1 /\ MaxSlots \in Nat

VARIABLES function,  \* the operation of the session
          inputs,    \* the secrets, one per slot
          slots,     \* slots[i][n], the share of party n in input i
          running,   \* running[n], the accumulator of party n
          cursor,    \* the slots taken into it
          answer     \* what the coordinator recombines

sharingVars == <<function, inputs, slots, running, cursor, answer>>

Node == 0 .. N - 1

FAdd(a, b) == (a + b) % P
FSub(a, b) == (a - b) % P
FMul(a, b) == (a * b) % P

\* n - 1 random shares and one that completes the sum.
AdditiveShare(secret, random) ==
  [n \in Node |-> IF n < N - 1 THEN random[n]
                  ELSE FSub(secret, FoldFunction(FAdd, 0, random))]

AdditiveRecombine(shares) == FoldFunction(FAdd, 0, shares)

Randoms == [0 .. N - 2 -> Draws]

ShareTriple(a, b, ra, rb, rc) ==
  LET as == AdditiveShare(a, ra)
      bs == AdditiveShare(b, rb)
      cs == AdditiveShare(FMul(a, b), rc)
  IN  [n \in Node |-> [A |-> as[n], B |-> bs[n], C |-> cs[n]]]

MulOpen(x, y, t) == <<FSub(x, t.A), FSub(y, t.B)>>

MulFinalize(d, e, t, n) ==
  LET res == FAdd(FAdd(t.C, FMul(d, t.B)), FMul(e, t.A))
  IN  IF n = 0 THEN FAdd(res, FMul(d, e)) ELSE res

\* Every party opens d and e and turns its share of the triple into one of x*y.
SecureMul(xs, ys, triple) ==
  LET opened == [n \in Node |-> MulOpen(xs[n], ys[n], triple[n])]
      d == FoldFunction(FAdd, 0, [n \in Node |-> opened[n][1]])
      e == FoldFunction(FAdd, 0, [n \in Node |-> opened[n][2]])
  IN  [n \in Node |-> MulFinalize(d, e, triple[n], n)]

\* The difference is opened; party 0 gets the bit and the others get zero.
SecureCompare(xs, ys) ==
  LET opened == FoldFunction(FAdd, 0, [n \in Node |-> FSub(xs[n], ys[n])])
      gt     == IF opened # 0 /\ opened < P \div 2 THEN 1 ELSE 0
  IN  [n \in Node |-> IF n = 0 THEN gt ELSE 0]

\* max: running + (running > slot) * (running - slot), for every further slot.
Select(xs, ys, triple) ==
  LET prod == SecureMul(SecureCompare(xs, ys), [n \in Node |-> FSub(xs[n], ys[n])], triple)
  IN  [n \in Node |-> FAdd(ys[n], prod[n])]

Triples == {ShareTriple(a, b, ra, rb, rc) : a \in Draws, b \in Draws,
                                            ra \in Randoms, rb \in Randoms, rc \in Randoms}

\* The inputs a comparison can tell apart: differences below half the prime.
Secrets == 0 .. (P \div 2) - 1

NoAnswer == -1
Failed   == -2

SharingInit ==
  /\ function \in {"sum", "average", "comparison", "max"}
  /\ inputs \in UNION {[1 .. k -> Secrets] : k \in IF function = "comparison" THEN {2} ELSE 1 .. MaxSlots}
  /\ \E random \in [DOMAIN inputs -> Randoms] :
       slots = [i \in DOMAIN inputs |-> AdditiveShare(inputs[i], random[i])]
  /\ running = slots[1] /\ cursor = 1 /\ answer = NoAnswer

SharingIdle == /\ function = "sum" /\ inputs = <<>> /\ slots = <<>>
               /\ running = <<>> /\ cursor = 0 /\ answer = 0

\* The triples the coordinator deals for a session.
TripleCount == IF function = "max" THEN N ELSE IF function = "comparison" THEN 2 ELSE 0

OutOfTriples == function = "max" /\ cursor > TripleCount

\* One pass of the worker's loop over its slots.
TakeSlot ==
  /\ answer = NoAnswer /\ cursor < Len(inputs) /\ ~OutOfTriples
  /\ LET next == slots[cursor + 1]
     IN  CASE function \in {"sum", "average"} -> running' = [n \in Node |-> FAdd(running[n], next[n])]
           [] function = "comparison" -> running' = SecureCompare(running, next)
           [] function = "max" -> \E triple \in Triples : running' = Select(running, next, triple)
  /\ cursor' = cursor + 1
  /\ UNCHANGED <<function, inputs, slots, answer>>

\* compute returns an error, which fails the session.
Report ==
  /\ answer = NoAnswer /\ cursor < Len(inputs) /\ OutOfTriples
  /\ answer' = Failed
  /\ UNCHANGED <<function, inputs, slots, running, cursor>>

\* recombine, once every party has submitted its share.
Recombine ==
  /\ answer = NoAnswer /\ cursor = Len(inputs)
  /\ answer' = LET value == AdditiveRecombine(running)
               IN  IF function = "average" THEN value \div N ELSE value
  /\ UNCHANGED <<function, inputs, slots, running, cursor>>

SharingNext == TakeSlot \/ Report \/ Recombine

SharingSpec == SharingInit /\ [][SharingNext]_sharingVars
-----------------------------------------------------------------------------
PlainSum == FoldFunction(+, 0, inputs) % P

\* What the session was asked for, in plain arithmetic.
Expected ==
  CASE function = "sum"     -> PlainSum
    [] function = "average" -> PlainSum \div N
    [] function = "comparison" -> IF inputs[1] > inputs[2] THEN 1 ELSE 0
    [] function = "max"     -> Max({inputs[i] : i \in DOMAIN inputs})

\* The shares that all the parties but n see of a secret, over all randomness.
Views(secret, n) ==
  {[m \in Node \ {n} |-> AdditiveShare(secret, random)[m]] : random \in [0 .. N - 2 -> 0 .. P - 1]}

\* The parties' shares recombine to the function of the inputs, whatever was
\* drawn for the shares and the triples, and all parties but one together see
\* the same shares of every secret (Execute, the worker's compute, SecureMul,
\* SecureCompare, AdditiveShare and recombine).  A maximum of more than N + 1
\* inputs runs out of triples and fails; no other session does.
SharesHonest ==
  /\ (answer \notin {NoAnswer, Failed} /\ inputs # <<>>) => answer = Expected
  /\ answer = Failed => Len(inputs) > N + 1
  /\ (answer = NoAnswer /\ cursor = 1) =>
       \A n \in Node : Views(inputs[1], n) = Views(0, n)
=============================================================================
