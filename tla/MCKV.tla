-------------------------------- MODULE MCKV --------------------------------
(* Three nodes and a single key, two writes and a consistent read.          *)
EXTENDS KVServer, TLC

CONSTANTS w1, w2

Symmetry == Permutations(Node)

Begun == {w \in Write : req[w].pc # "new"}
ReadBegun == \E r \in Reader : read[r].pc # "new"

Elected == \E n \in Node : term[n] > 1

(* The bound: a write and a read under a fault and an election, where the   *)
(* write is not being forwarded while all three are there; a write that may *)
(* be forwarded and retried beside one that its leader takes, under an      *)
(* election; a write under two faults, so that a snapshot meets an install, *)
(* a crash, a restart and a second snapshot.                                *)
Bounds ==
    \/ /\ w2 \notin Begun /\ faults <= 1
       /\ faults = 1 /\ ReadBegun /\ Elected => req[w1].pc # "rpc"
    \/ faults = 0 /\ ~ ReadBegun /\ (w2 \in Begun => w1 \in Begun /\ req[w2].pc # "forward")
    \/ w2 \notin Begun /\ faults = 2 /\ ~ ReadBegun /\ ~ Elected

BoundedSpec == ServerInit /\ [][ServerNext /\ Bounds']_vars
=============================================================================
