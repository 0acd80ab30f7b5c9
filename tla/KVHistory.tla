----------------------------- MODULE KVHistory -----------------------------
(***************************************************************************)
(* What distributed-kv promises: one history of commands that only grows;  *)
(* every node's store is what some beginning of it leaves in an empty      *)
(* store; a node moves forward in the history, or starts again from an     *)
(* earlier point; and a write is acknowledged only when it is part of the  *)
(* history.                                                                *)
(***************************************************************************)
EXTENDS KVStore

CONSTANTS Node, Write

VARIABLES
    history,   \* the committed commands, in order
    position,  \* how much of the history each node has applied
    store,     \* the store of each node
    acked      \* acknowledged writes: [write, cmd]

historyVars == <<history, position, store, acked>>

HistoryInit ==
    /\ history = <<Noop>>
    /\ position = [n \in Node |-> 1]
    /\ store = [n \in Node |-> EmptyStore]
    /\ acked = {}

Follows(n) == store' = [store EXCEPT ![n] = Replay(SubSeq(history', 1, position'[n]))]

\* The history grows, or does not, and a node catches up with some of it.
Advance(n) ==
    /\ IsPrefix(history, history')
    /\ position' = [position EXCEPT ![n] = position'[n]]
    /\ position'[n] \in position[n]..Len(history')
    /\ Follows(n)
    /\ UNCHANGED acked

\* A process that starts again has forgotten, but not what was committed.
Forget(n) ==
    /\ position' = [position EXCEPT ![n] = position'[n]]
    /\ position'[n] \in 0..position[n]
    /\ Follows(n)
    /\ UNCHANGED <<history, acked>>

Acknowledge(w) ==
    /\ \E i \in DOMAIN history :
          acked' = acked \union {[write |-> w, cmd |-> history[i]]}
    /\ UNCHANGED <<history, position, store>>

HistoryNext ==
    \/ \E n \in Node : Advance(n) \/ Forget(n)
    \/ \E w \in Write : Acknowledge(w)

HistorySpec == HistoryInit /\ [][HistoryNext]_historyVars
=============================================================================
