------------------------------ MODULE KVServer ------------------------------
(***************************************************************************)
(* The HTTP handlers of distributed-kv (internal/api), the forwarding of   *)
(* writes to the leader over gRPC, and the cluster underneath (Raft).      *)
(*                                                                         *)
(* A write is handled where it arrives if that node leads, otherwise by    *)
(* the node believed to lead; the forwarder tries a second node once.  A   *)
(* forwarded execution outlives the call that started it: it goes on when  *)
(* the caller has given up.                                                *)
(***************************************************************************)
EXTENDS Raft

CONSTANTS Write, Reader   \* the write and the read requests

\* A request writes a value nobody else writes, so that replies tell who wrote.
ASSUME ServerAssumption == Write = Value

VARIABLES
    req,    \* the handler of a write: [pc, at, attempt, cmd, reply]
    exec,   \* its executions on a leader: [pc, node, index]
    read,   \* a consistent read: [pc, at, key, term, need, got, reply]
    chosen  \* history: the longest log any node has known committed

vars == <<raftVars, req, exec, read, chosen>>

Attempt == {1, 2}
NoExec == [pc |-> "none", node |-> None, index |-> 0]
Exec(pc, n) == [pc |-> pc, node |-> n, index |-> 0]
NoReply == [status |-> 0, body |-> "none"]
Reply(status, body) == [status |-> status, body |-> body]

Idle(pc) == [pc |-> pc, at |-> None, key |-> None, term |-> 0, need |-> 0, got |-> 0, reply |-> Absent]

ServerInit ==
    /\ Init
    /\ req = [w \in Write |-> [pc |-> "new", at |-> None, attempt |-> 1, cmd |-> Noop, reply |-> NoReply]]
    /\ exec = [w \in Write |-> [i \in Attempt |-> NoExec]]
    /\ read = [r \in Reader |-> Idle("new")]
    /\ chosen = <<Entry(1, Noop)>>

CommandsOf(w) == {c \in Command : c.op = "set" => c.value = w}

Done(r, reply) == [r EXCEPT !.pc = "done", !.at = None, !.reply = reply]
Answer(w, reply) == req' = [req EXCEPT ![w] = Done(@, reply)]

\* putKey, deleteKey: a leader executes the command itself.
ReceiveWrite(w, n, cmd) ==
    /\ req[w].pc = "new" /\ up[n]
    /\ req' = [req EXCEPT ![w].at = n, ![w].cmd = cmd,
                          ![w].pc = IF role[n] = "leader" THEN "called" ELSE "forward"]
    /\ exec' = IF role[n] = "leader" THEN [exec EXCEPT ![w][1] = Exec("apply", n)] ELSE exec
    /\ UNCHANGED <<raftVars, read, chosen>>

\* ForwardToLeader: the first call goes to the leader this node knows.
ForwardToLeader(w) ==
    LET target == known[req[w].at] IN
    /\ req[w].pc = "forward"
    /\ IF target = None
       THEN Answer(w, Reply(503, "no known leader")) /\ UNCHANGED exec
       ELSE /\ req' = [req EXCEPT ![w].pc = "rpc"]
            /\ exec' = [exec EXCEPT ![w][1] = Exec("sent", target)]
    /\ UNCHANGED <<raftVars, read, chosen>>

\* Forward and Execute: the request is served on the target, which never
\* forwards it again.
ServeForwarded(w, i) ==
    LET n == exec[w][i].node IN
    /\ exec[w][i].pc = "sent" /\ up[n]
    /\ exec' = [exec EXCEPT ![w][i].pc = IF role[n] = "leader" THEN "apply" ELSE "refused"]
    /\ UNCHANGED <<raftVars, req, read, chosen>>

\* RaftNode.Apply: the command is in the leader's log and its future pending.
Propose(w, i) ==
    LET n == exec[w][i].node IN
    /\ exec[w][i].pc = "apply"
    /\ AppendCommand(n, req[w].cmd)
    /\ exec' = [exec EXCEPT ![w][i].pc = "wait", ![w][i].index = Len(log[n]) + 1]
    /\ UNCHANGED <<req, read, chosen>>

\* RaftNode.Apply: the node no longer leads, or its queue is full for applyTimeout.
NotProposed(w, i) ==
    /\ exec[w][i].pc = "apply"
    /\ TimeoutUnless(role[exec[w][i].node] # "leader")
    /\ exec' = [exec EXCEPT ![w][i].pc = "error"]
    /\ UNCHANGED <<up, role, term, log, known, match, applied, data, clone, snap, req, read, chosen>>

\* Futures matched by index alone, whoever wrote the entry.
ResolvedByIndex(e) ==
    IF e.node # None /\ up[e.node] /\ ~ up'[e.node]
    THEN [e EXCEPT !.pc = "dead", !.index = 0]
    ELSE IF e.pc = "wait" /\ applied'[e.node] >= e.index
    THEN [e EXCEPT !.pc = "ok"]
    ELSE e

\* A raft step resolves futures: a command given to the state machine has
\* succeeded, a leader that steps down fails the pending ones, and a
\* process takes its executions with it.
Resolved(e) ==
    IF e.node # None /\ up[e.node] /\ ~ up'[e.node]
    THEN [e EXCEPT !.pc = "dead", !.index = 0]
    ELSE IF e.pc = "wait" /\ role[e.node] = "leader" /\ role'[e.node] # "leader"
    THEN [e EXCEPT !.pc = "error"]
    ELSE IF e.pc = "wait" /\ applied'[e.node] >= e.index
    THEN [e EXCEPT !.pc = "ok"]
    ELSE e

\* The clients of a process that dies lose their connection.
Cluster ==
    /\ RaftStep
    /\ exec' = [w \in Write |-> [i \in Attempt |-> Resolved(exec[w][i])]]
    /\ req' = [w \in Write |->
                 IF req[w].pc \in {"called", "forward", "rpc"} /\ ~ up'[req[w].at]
                 THEN Done(req[w], Reply(0, "connection lost")) ELSE req[w]]
    /\ read' = [r \in Reader |->
                 IF read[r].pc = "get" /\ ~ up'[read[r].at]
                 THEN Idle("failed") ELSE read[r]]
    /\ LET best == CHOOSE n \in Node : \A m \in Node : applied'[n] >= applied'[m]
       IN chosen' = IF applied'[best] > Len(chosen) THEN SubSeq(log'[best], 1, applied'[best]) ELSE chosen

Outcome(pc) ==
    CASE pc = "ok"      -> Reply(200, "stored")
      [] pc = "error"   -> Reply(500, "apply failed")
      [] pc = "refused" -> Reply(503, "forwarded request reached a non-leader node")

\* A handler that does not wait for the future of its command.
RespondAtOnce(w) ==
    LET e == exec[w][req[w].attempt] IN
    /\ req[w].pc \in {"called", "rpc"}
    /\ e.pc \in {"wait", "ok", "error", "refused"}
    /\ Answer(w, Outcome(IF e.pc = "wait" THEN "ok" ELSE e.pc))
    /\ exec' = [exec EXCEPT ![w][req[w].attempt].node = None]
    /\ UNCHANGED <<raftVars, read, chosen>>

\* The handler, or the forwarder with the target's response, answers.
Respond(w) ==
    LET e == exec[w][req[w].attempt] IN
    /\ req[w].pc \in {"called", "rpc"}
    /\ e.pc \in {"ok", "error", "refused"}
    /\ Answer(w, Outcome(e.pc))
    /\ exec' = [exec EXCEPT ![w][req[w].attempt].node = None]
    /\ UNCHANGED <<raftVars, read, chosen>>

\* A failed call is tried again only on another leader.
RetryTargets(w) == {known[req[w].at]} \ {None, exec[w][1].node}

CallFailedReplyMissing(w) == Reply(503, "no known leader")

CallFailedReply(w) ==
    Reply(503, IF req[w].attempt = 2 THEN "forward retry failed" ELSE "forward failed and leader unchanged")

\* ForwardToLeader after a failed call: one retry, if the leader has changed.
CallFailed(w) ==
    /\ req[w].pc = "rpc"
    /\ LET e == exec[w][req[w].attempt] IN TimeoutUnless(e.pc = "dead" \/ ~ up[e.node])
    /\ IF req[w].attempt = 2 \/ RetryTargets(w) = {}
       THEN Answer(w, CallFailedReply(w)) /\ UNCHANGED exec
       ELSE \E target \in RetryTargets(w) :
               /\ req' = [req EXCEPT ![w].attempt = 2]
               /\ exec' = [exec EXCEPT ![w][2] = Exec("sent", target)]
    /\ UNCHANGED <<up, role, term, log, known, match, applied, data, clone, snap, read, chosen>>

\* Writes answered with success so far.
Acked == {w \in Write : req[w].reply.status = 200}
AckedIndex(w) == exec[w][req[w].attempt].index

\* getKey?consistent=true: a read arrives and VerifyLeader lets it pass or not.
VerifyRead(r, n, k) ==
    /\ read[r].pc = "new" /\ up[n]
    /\ read' = [read EXCEPT ![r] =
          IF LeaderVerified(n)
          THEN [@ EXCEPT !.pc = "get", !.at = n, !.key = k, !.term = term[n],
                         !.need = Max({AckedIndex(w) : w \in Acked} \union {0})]
          ELSE Idle("failed")]
    /\ UNCHANGED <<raftVars, req, exec, chosen>>

\* getKey: the local store answers.
GetLocal(r) ==
    LET n == read[r].at IN
    /\ read[r].pc = "get"
    /\ read' = [read EXCEPT ![r].pc = "done", ![r].got = applied[n],
                            ![r].reply = Get(data[n], read[r].key)]
    /\ UNCHANGED <<raftVars, req, exec, chosen>>

ServerNext ==
    \/ Cluster
    \/ \E w \in Write, n \in Node : \E cmd \in CommandsOf(w) : ReceiveWrite(w, n, cmd)
    \/ \E w \in Write : ForwardToLeader(w) \/ Respond(w) \/ CallFailed(w)
    \/ \E w \in Write, i \in Attempt : ServeForwarded(w, i) \/ Propose(w, i) \/ NotProposed(w, i)
    \/ \E r \in Reader, n \in Node, k \in Key : VerifyRead(r, n, k)
    \/ \E r \in Reader : GetLocal(r)

Spec == ServerInit /\ [][ServerNext]_vars

----------------------------------------------------------------------------
(* The state is well formed (internal/api, internal/raft/node.go).          *)
TypeOK ==
    /\ RaftTypeOK
    /\ \A w \in Write : req[w].pc \in {"new", "forward", "called", "rpc", "done"} /\ req[w].attempt \in Attempt
    /\ \A w \in Write, i \in Attempt :
          exec[w][i].pc \in {"none", "sent", "apply", "wait", "ok", "error", "refused", "dead"}
    /\ \A r \in Reader : read[r].pc \in {"new", "get", "done", "failed"}

(* Every node's map, and every snapshot on a disk, is exactly what the      *)
(* commands committed up to its index leave in an empty map - through       *)
(* concurrent snapshots, restores and restarts (fsm.go, snapshot.go).       *)
FsmIsPrefix ==
    \A n \in Node :
        /\ up[n] => applied[n] <= Len(chosen) /\ data[n] = Replay(Commands(SubSeq(chosen, 1, applied[n])))
        /\ snap[n].index <= Len(chosen) /\ snap[n].data = Replay(Commands(SubSeq(chosen, 1, snap[n].index)))

(* A write answered with 200 is committed, at the index its execution       *)
(* waited for, whichever of two executions answered (putKey, deleteKey,     *)
(* RaftNode.Apply, ForwardToLeader).                                        *)
AckedWriteChosen ==
    \A w \in Acked : AckedIndex(w) <= Len(chosen) /\ chosen[AckedIndex(w)].cmd = req[w].cmd

(* The answers that say that nothing was tried: no leader known, or a first *)
(* forwarded call refused by the node it reached.                           *)
Refused(w) ==
    \/ req[w].reply.body = "no known leader"
    \/ req[w].reply.body = "forwarded request reached a non-leader node" /\ req[w].attempt = 1

(* A client told that nothing was tried may safely send its write again: no *)
(* node has the command in its log (forwardWrite, ForwardToLeader).         *)
RefusedNeverLogged ==
    \A w \in Write, n \in Node : Refused(w) /\ req[w].cmd.op = "set" =>
        \A i \in DOMAIN log[n] : log[n][i].cmd # req[w].cmd

(* The retry of a forwarded write can put its command into a log twice, but *)
(* only under two different leaders (ForwardToLeader retries only when the  *)
(* leader has changed).                                                     *)
RepeatsSpanTerms ==
    \A n \in Node : \A i, j \in DOMAIN log[n] :
        i # j /\ log[n][i].cmd.op = "set" /\ log[n][i].cmd = log[n][j].cmd => log[n][i].term # log[n][j].term

(* What a client may conclude from an answer that is not a success.         *)
RequestsHonest == TypeOK /\ RefusedNeverLogged /\ RepeatsSpanTerms

\* The values the key had since the writes acknowledged before the read.
ReadValues(r) == {Replay(Commands(SubSeq(chosen, 1, i)))[read[r].key] : i \in read[r].need..Len(chosen)}
\* The serving leader had applied an entry of the term it verified.
Established(r) == read[r].got > 0 /\ chosen[read[r].got].term >= read[r].term

(* A consistent read on a leader that has applied an entry of its own term  *)
(* sees every write acknowledged before it, although getKey reads the local *)
(* map after VerifyLeader returned and the leader may have changed since.   *)
EstablishedReads ==
    \A r \in Reader : read[r].pc = "done" /\ Established(r) => read[r].reply \in ReadValues(r)

(* README.md:28-29: a consistent read that a leader answers sees all        *)
(* committed writes.  A leader just elected may not have applied the        *)
(* entries its predecessor committed.                                       *)
ConsistentReads ==
    \A r \in Reader : read[r].pc = "done" => read[r].reply \in ReadValues(r)

(* The cluster implements the history of KVHistory: commits only extend it, *)
(* nodes follow it, and only writes in it are acknowledged.                 *)
History == INSTANCE KVHistory WITH
    history <- Commands(chosen), position <- applied, store <- data,
    acked <- {[write |-> w, cmd |-> req[w].cmd] : w \in Acked}
HistoryKept == History!HistorySpec

=============================================================================
