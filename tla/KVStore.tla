------------------------------ MODULE KVStore ------------------------------
(***************************************************************************)
(* The state machine of a node of distributed-kv (internal/store): a map   *)
(* from keys to values, the commands replicated through the log, and the   *)
(* operators raft calls on it.  Values are opaque; keys are the ones JSON  *)
(* carries unchanged.                                                      *)
(***************************************************************************)
EXTENDS Naturals, Sequences, SequencesExt

CONSTANTS
    Key,      \* keys of the store
    Value,    \* values a client may write
    Absent    \* the answer for a key that is not in the map

ASSUME StoreAssumption == Absent \notin Value

Set(k, v) == [op |-> "set", key |-> k, value |-> v]
Delete(k) == [op |-> "delete", key |-> k]
Command == {Set(k, v) : k \in Key, v \in Value} \union {Delete(k) : k \in Key}
Noop == [op |-> "noop"]

EmptyStore == [k \in Key |-> Absent]

\* Apply: raft hands every command of the log to the state machine; a no-op of
\* raft itself never reaches it.
ApplyCommand(store, cmd) ==
    CASE cmd.op = "set"    -> [store EXCEPT ![cmd.key] = cmd.value]
      [] cmd.op = "delete" -> [store EXCEPT ![cmd.key] = Absent]
      [] OTHER             -> store

Get(store, k) == store[k]
Keys(store) == {k \in Key : store[k] # Absent}

\* Restore: the decoded snapshot replaces the map.
RestoreFrom(store, saved) == saved

----------------------------------------------------------------------------
\* What a log of commands leaves in an empty map, said without applying them:
\* the last command on a key decides.
Replay(cmds) ==
    [k \in Key |->
        LET on == {i \in DOMAIN cmds : cmds[i].op # "noop" /\ cmds[i].key = k}
            last == cmds[CHOOSE i \in on : \A j \in on : j <= i]
        IN IF on = {} THEN Absent ELSE IF last.op = "set" THEN last.value ELSE Absent]
=============================================================================
