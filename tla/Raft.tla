-------------------------------- MODULE Raft --------------------------------
(***************************************************************************)
(* The nodes of a distributed-kv cluster.  hashicorp/raft is a library     *)
(* outside the repository: its elections, replication and commitment are   *)
(* modelled from how internal/raft/node.go and internal/api use it, at the *)
(* grain of whole exchanges (an election with its votes, a replication     *)
(* round with one follower).  The state machine it drives - apply,         *)
(* snapshot, restore - is the repository's own and modelled in detail.     *)
(***************************************************************************)
EXTENDS KVStore, FiniteSets, FiniteSetsExt

CONSTANTS
    Node,         \* the voters of the cluster
    None,         \* no leader known, no snapshot being written
    MaxTerm,      \* bound: elections
    MaxFaults     \* bound: crashes, snapshots and timeouts, together

ASSUME RaftAssumption ==
    /\ IsFiniteSet(Node) /\ None \notin Node
    /\ MaxTerm \in Nat \ {0} /\ MaxFaults \in Nat

VARIABLES
    up,        \* is the process of the node running
    role,      \* State(): "leader" or "follower" (candidates included)
    term,      \* the node's current term (BoltDB)
    log,       \* the node's log (BoltDB): [term, cmd]
    known,     \* Leader(): the leader the node believes in
    match,     \* of a leader: how much of its log each follower has acknowledged to it
    applied,   \* AppliedIndex(): the last index known committed and given to the state machine
    data,      \* KVStore.data
    clone,     \* a snapshot taken and not yet persisted: [index, data]
    snap,      \* the last snapshot on disk: [index, data]
    faults     \* crashes, snapshots and timeouts so far, for the bound

raftVars == <<up, role, term, log, known, match, applied, data, clone, snap, faults>>

Quorum == {Q \in SUBSET Node : Cardinality(Q) = Cardinality(Node) \div 2 + 1}
Entry(t, c) == [term |-> t, cmd |-> c]
LastTerm(l) == IF l = <<>> THEN 0 ELSE Last(l).term
Commands(l) == [i \in DOMAIN l |-> l[i].cmd]
Unheard == [n \in Node |-> 0]

\* Bootstrap: the cluster has elected its first leader and every node has
\* applied the leader's no-op.
Init ==
    /\ \E l \in Node :
          /\ role = [n \in Node |-> IF n = l THEN "leader" ELSE "follower"]
          /\ known = [n \in Node |-> l]
    /\ up = [n \in Node |-> TRUE]
    /\ term = [n \in Node |-> 1]
    /\ log = [n \in Node |-> <<Entry(1, Noop)>>]
    /\ match = [n \in Node |-> Unheard]
    /\ applied = [n \in Node |-> 1]
    /\ data = [n \in Node |-> EmptyStore]
    /\ clone = [n \in Node |-> None]
    /\ snap = [n \in Node |-> [index |-> 0, data |-> EmptyStore]]
    /\ faults = 0

UpToDate(n, q) ==
    \/ LastTerm(log[n]) > LastTerm(log[q])
    \/ LastTerm(log[n]) = LastTerm(log[q]) /\ Len(log[n]) >= Len(log[q])

\* A quorum elects n; the leader appends a no-op of its term.
Elect(n, Q) ==
    LET t == Max({term[q] : q \in Q}) + 1 IN
    /\ n \in Q
    /\ \A q \in Q : up[q] /\ UpToDate(n, q)
    /\ role[n] # "leader"
    /\ t <= MaxTerm
    /\ term' = [q \in Node |-> IF q \in Q THEN t ELSE term[q]]
    /\ role' = [q \in Node |-> IF q = n THEN "leader" ELSE IF q \in Q THEN "follower" ELSE role[q]]
    /\ known' = [q \in Node |-> IF q = n THEN n ELSE IF q \in Q THEN None ELSE known[q]]
    /\ log' = [log EXCEPT ![n] = Append(@, Entry(t, Noop))]
    /\ match' = [q \in Node |-> IF q \in Q THEN Unheard ELSE match[q]]
    /\ UNCHANGED <<up, applied, data, clone, snap, faults>>

\* What raft learns to be committed it hands to the state machine.
CommitUpTo(n, l, i) ==
    /\ applied' = [applied EXCEPT ![n] = i]
    /\ data' = [data EXCEPT ![n] = FoldLeft(ApplyCommand, @, Commands(SubSeq(l, applied[n] + 1, i)))]

\* The follower answers with how much of its log is the leader's.
Acknowledge(f, l, i) == match' = [match EXCEPT ![f] = Unheard, ![l][f] = i]

\* A round with a follower: it takes the leader's log and commit index.
Replicate(l, f) ==
    /\ l # f /\ up[l] /\ up[f]
    /\ role[l] = "leader"
    /\ term[f] <= term[l]
    /\ log' = [log EXCEPT ![f] = log[l]]
    /\ Acknowledge(f, l, Len(log[l]))
    /\ CommitUpTo(f, log[l], Max({applied[f], applied[l]}))
    /\ term' = [term EXCEPT ![f] = term[l]]
    /\ role' = [role EXCEPT ![f] = "follower"]
    /\ known' = [known EXCEPT ![f] = l]
    /\ UNCHANGED <<up, clone, snap, faults>>

\* What a follower acknowledged counts for the leader it acknowledged it to, and only
\* while that one leads; the same entry received from a later leader does not count.
Matched(l, q) == IF q = l THEN Len(log[l]) ELSE match[l][q]
Replicated(l, i) == \E Q \in Quorum : \A q \in Q : Matched(l, q) >= i

\* The leader commits up to the last entry of its own term that a quorum holds.
AdvanceCommit(l) ==
    LET ready == {i \in applied[l] + 1..Len(log[l]) : log[l][i].term = term[l] /\ Replicated(l, i)} IN
    /\ up[l] /\ role[l] = "leader"
    /\ ready # {}
    /\ CommitUpTo(l, log[l], Max(ready))
    /\ UNCHANGED <<up, role, term, log, known, match, clone, snap, faults>>

LeaderBelieved(n) == role[n] = "leader"

\* VerifyLeader: a quorum still answers the leader's heartbeat.
LeaderVerified(n) ==
    /\ role[n] = "leader"
    /\ \E Q \in Quorum : \A q \in Q : up[q] /\ term[q] <= term[n]

\* A timeout that nothing else in the model explains uses up the budget.
TimeoutUnless(cause) ==
    /\ cause \/ faults < MaxFaults
    /\ faults' = IF cause THEN faults ELSE faults + 1

\* The leader has lost its quorum, or does not hear from it: its lease runs out.
StepDown(l) ==
    /\ up[l] /\ role[l] = "leader"
    /\ TimeoutUnless(~ LeaderVerified(l))
    /\ role' = [role EXCEPT ![l] = "follower"]
    /\ known' = [known EXCEPT ![l] = None]
    /\ match' = [match EXCEPT ![l] = Unheard]
    /\ UNCHANGED <<up, term, log, applied, data, clone, snap>>

\* KVStore.Snapshot copies the map; writing the copy to disk comes later.
TakeSnapshot(n) ==
    /\ up[n]
    /\ clone[n] = None
    /\ applied[n] > snap[n].index
    /\ faults < MaxFaults
    /\ clone' = [clone EXCEPT ![n] = [index |-> applied[n], data |-> data[n]]]
    /\ faults' = faults + 1
    /\ UNCHANGED <<up, role, term, log, known, match, applied, data, snap>>

\* Mutant: what is written is the map as it is by then, not the copy.
PersistLive(n) ==
    /\ up[n]
    /\ clone[n] # None
    /\ snap' = [snap EXCEPT ![n] = [clone[n] EXCEPT !.data = data[n]]]
    /\ clone' = [clone EXCEPT ![n] = None]
    /\ UNCHANGED <<up, role, term, log, known, match, applied, data, faults>>

\* KVSnapshot.Persist writes the copy; a failure cancels the sink.  The newest
\* snapshot on disk is the one used.
Persist(n) ==
    /\ up[n]
    /\ clone[n] # None
    /\ \/ clone[n].index > snap[n].index /\ snap' = [snap EXCEPT ![n] = clone[n]]
       \/ UNCHANGED snap
    /\ clone' = [clone EXCEPT ![n] = None]
    /\ UNCHANGED <<up, role, term, log, known, match, applied, data, faults>>

\* A follower too far behind is sent the leader's snapshot and restores it.
InstallSnapshot(l, f) ==
    /\ l # f /\ up[l] /\ up[f]
    /\ role[l] = "leader"
    /\ term[f] <= term[l]
    /\ snap[l].index > applied[f]
    /\ ~ IsPrefix(SubSeq(log[l], 1, snap[l].index), log[f])
    /\ data' = [data EXCEPT ![f] = RestoreFrom(@, snap[l].data)]
    /\ applied' = [applied EXCEPT ![f] = snap[l].index]
    /\ log' = [log EXCEPT ![f] = SubSeq(log[l], 1, snap[l].index)]
    /\ snap' = [snap EXCEPT ![f] = snap[l]]
    /\ Acknowledge(f, l, snap[l].index)
    /\ term' = [term EXCEPT ![f] = term[l]]
    /\ role' = [role EXCEPT ![f] = "follower"]
    /\ known' = [known EXCEPT ![f] = l]
    /\ UNCHANGED <<up, clone, faults>>

\* The process dies: what is not on disk is gone.
Crash(n) ==
    /\ up[n]
    /\ faults < MaxFaults
    /\ up' = [up EXCEPT ![n] = FALSE]
    /\ role' = [role EXCEPT ![n] = "follower"]
    /\ known' = [known EXCEPT ![n] = None]
    /\ match' = [match EXCEPT ![n] = Unheard]
    /\ clone' = [clone EXCEPT ![n] = None]
    /\ data' = [data EXCEPT ![n] = EmptyStore]
    /\ applied' = [applied EXCEPT ![n] = 0]
    /\ faults' = faults + 1
    /\ UNCHANGED <<term, log, snap>>

\* NewRaftNode: an empty store, then the last snapshot; the log follows when
\* a leader tells what is committed.
Restart(n) ==
    /\ ~ up[n]
    /\ up' = [up EXCEPT ![n] = TRUE]
    /\ data' = [data EXCEPT ![n] = RestoreFrom(@, snap[n].data)]
    /\ applied' = [applied EXCEPT ![n] = snap[n].index]
    /\ UNCHANGED <<role, term, log, known, match, clone, snap, faults>>

\* raft.Apply accepts a command on a leader: it is appended to its log.
AppendCommand(n, cmd) ==
    /\ up[n] /\ role[n] = "leader"
    /\ log' = [log EXCEPT ![n] = Append(@, Entry(term[n], cmd))]
    /\ UNCHANGED <<up, role, term, known, match, applied, data, clone, snap, faults>>

RaftStep ==
    \/ \E n \in Node, Q \in Quorum : Elect(n, Q)
    \/ \E l, f \in Node : Replicate(l, f)
    \/ \E l \in Node : AdvanceCommit(l)
    \/ \E l \in Node : StepDown(l)
    \/ \E n \in Node : TakeSnapshot(n)
    \/ \E n \in Node : Persist(n)
    \/ \E l, f \in Node : InstallSnapshot(l, f)
    \/ \E n \in Node : Crash(n)
    \/ \E n \in Node : Restart(n)

RaftTypeOK ==
    /\ up \in [Node -> BOOLEAN]
    /\ role \in [Node -> {"leader", "follower"}]
    /\ term \in [Node -> 0..MaxTerm]
    /\ \A n \in Node : \A i \in DOMAIN log[n] :
          log[n][i].term \in 1..MaxTerm /\ log[n][i].cmd \in Command \union {Noop}
    /\ known \in [Node -> Node \union {None}]
    /\ \A n \in Node : applied[n] <= Len(log[n])
    /\ data \in [Node -> [Key -> Value \union {Absent}]]
=============================================================================
