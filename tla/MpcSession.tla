----------------------------- MODULE MpcSession -----------------------------
(***************************************************************************)
(* One session of the MPC cluster: the coordinator's SessionManager with   *)
(* its tables in PostgreSQL and its maps in memory, the calls of Execute   *)
(* and Cancel over HTTP, and the worker of each party.                     *)
(* Shares are not computed here (SecretSharing does that): a share is the  *)
(* set of the pairs of a party and an Execute call whose dealing went into *)
(* it.  Complete shares of one dealing recombine to that call's result,    *)
(* anything else to a random element of the field.                         *)
(***************************************************************************)
EXTENDS Integers, FiniteSets

CONSTANTS Parties,       \* the nodes of the session
          Executions,    \* the Execute calls
          MpcMaxFaults   \* how often a worker or the coordinator restarts

ASSUME MpcAssumption == /\ IsFiniteSet(Parties) /\ Cardinality(Parties) >= 2
                        /\ 0 \notin Executions /\ -1 \notin Executions
                        /\ MpcMaxFaults \in Nat

VARIABLES
  operation,      \* "sum", local, or "comparison", with one round of exchange
  sessStatus,     \* sessions.status
  sessResult,     \* sessions.result
  sessRound,      \* rounds.status
  sessNodes,      \* session_nodes
  peersMap,       \* SessionManager.peers
  tasksMap,       \* SessionManager.tasks: the call that dealt them, or 0
  collectorMap,   \* SessionManager.collector: the call that waits on it, or 0
  collectors,     \* the resultCollector of every call
  execute,        \* what every Execute call is doing
  worker,         \* what the worker of every party is doing
  inbox,          \* Buffer.data of every worker: sender -> dealing
  mpcFaults,
  overlapped,     \* history: a call published its tasks over another call's
  forgotten       \* history: the coordinator restarted before the session computed

mpcVars == <<operation, sessStatus, sessResult, sessRound, sessNodes, peersMap, tasksMap,
             collectorMap, collectors, execute, worker, inbox, mpcFaults, overlapped,
             forgotten>>

NoResult == 0
Random   == -1

\* What the recombination of the parties' shares is worth.
Recombined(shares) ==
  LET Good(e) == \A n \in Parties :
        /\ n \in DOMAIN shares
        /\ shares[n] = IF operation = "sum" THEN {<<n, e>>} ELSE Parties \X {e}
  IN  IF \E e \in Executions : Good(e) THEN CHOOSE e \in Executions : Good(e) ELSE Random

EmptyCollector == [shares |-> [n \in {} |-> {}], failed |-> FALSE, closed |-> FALSE]

Idle(n) == [at |-> "start", task |-> 0, peers |-> {}, share |-> {}]

MpcInit ==
  /\ operation \in {"sum", "comparison"}
  /\ sessStatus = "none" /\ sessResult = NoResult /\ sessRound = "none"
  /\ sessNodes = {} /\ peersMap = {} /\ tasksMap = 0 /\ collectorMap = 0
  /\ collectors = [e \in Executions |-> EmptyCollector]
  /\ execute = [e \in Executions |-> [at |-> "idle", peers |-> {}, result |-> NoResult]]
  /\ worker = [n \in Parties |-> Idle(n)]
  /\ inbox = [n \in Parties |-> [m \in {} |-> 0]]
  /\ mpcFaults = 0 /\ overlapped = FALSE /\ forgotten = FALSE

sessTables == <<sessStatus, sessResult, sessRound, sessNodes>>
history    == <<overlapped, forgotten>>
sessMaps   == <<peersMap, tasksMap, collectorMap, collectors>>

With(f, k, v) == [x \in DOMAIN f \union {k} |-> IF x = k THEN v ELSE f[x]]
-----------------------------------------------------------------------------
(***************************************************************************)
(* Sessions and registration.                                              *)
(***************************************************************************)
\* Create: the session is stored; when a node cannot be spawned it fails.
CreateSession ==
  /\ sessStatus = "none"
  /\ sessStatus' \in {"created", "failed"}
  /\ peersMap' = {}
  /\ UNCHANGED <<operation, sessResult, sessRound, sessNodes, tasksMap, collectorMap,
                 collectors, execute, worker, inbox, mpcFaults, history>>

\* RegisterNode up to the upsert of the node's row; without a session the
\* worker is refused and asks again.
RegisterRow(n) ==
  /\ worker[n].at = "start"
  /\ sessStatus # "none"
  /\ sessNodes' = sessNodes \union {n}
  /\ worker' = [worker EXCEPT ![n].at = "counting"]
  /\ UNCHANGED <<operation, sessStatus, sessResult, sessRound, sessMaps, execute, inbox,
                 mpcFaults, history>>

\* The count that follows it: are all the parties there?
RegisterCount(n) ==
  /\ worker[n].at = "counting"
  /\ worker' = [worker EXCEPT ![n].at = IF sessNodes = Parties THEN "last" ELSE "early"]
  /\ UNCHANGED <<operation, sessTables, sessMaps, execute, inbox, mpcFaults, history>>

\* Mutant: the status is set without looking at the one it had.
RegisterPeerUnchecked(n) ==
  /\ worker[n].at \in {"early", "last"}
  /\ peersMap' = peersMap \union {n}
  /\ sessStatus' = IF worker[n].at = "last" THEN "nodes_ready" ELSE sessStatus
  /\ worker' = [worker EXCEPT ![n].at = "registered"]
  /\ UNCHANGED <<operation, sessResult, sessRound, sessNodes, tasksMap, collectorMap,
                 collectors, execute, inbox, mpcFaults, history>>

\* The rest of RegisterNode: only now is the node's address put where Execute
\* copies it from.  Whoever counted all the parties moves the session on; a
\* second one gets a conflict, and its worker asks again.
RegisterPeer(n) ==
  /\ worker[n].at \in {"early", "last"}
  /\ peersMap' = peersMap \union {n}
  /\ sessStatus' = IF worker[n].at = "last" /\ sessStatus = "created" THEN "nodes_ready" ELSE sessStatus
  /\ worker' = [worker EXCEPT ![n].at =
       IF worker[n].at = "early" \/ sessStatus = "created" THEN "registered" ELSE "start"]
  /\ UNCHANGED <<operation, sessResult, sessRound, sessNodes, tasksMap, collectorMap,
                 collectors, execute, inbox, mpcFaults, history>>

(***************************************************************************)
(* Execute.                                                                *)
(***************************************************************************)
\* The status check, the dealing of the inputs and the copy of the peers.
ExecuteCheck(e) ==
  /\ execute[e].at = "idle"
  /\ sessStatus # "none"
  /\ execute' = [execute EXCEPT ![e] = IF sessStatus = "nodes_ready"
                                         THEN [@ EXCEPT !.at = "checked", !.peers = peersMap]
                                         ELSE [@ EXCEPT !.at = "error"]]
  /\ UNCHANGED <<operation, sessTables, sessMaps, worker, inbox, mpcFaults, history>>

\* The tasks and the collector are put where the workers look for them.
ExecutePublish(e) ==
  /\ execute[e].at = "checked"
  /\ tasksMap' = e /\ collectorMap' = e
  /\ collectors' = [collectors EXCEPT ![e] = EmptyCollector]
  /\ execute' = [execute EXCEPT ![e].at = "published"]
  /\ overlapped' = (overlapped \/ \E d \in Executions \ {e} : execute[d].at \in {"published", "waiting"})
  /\ UNCHANGED <<operation, sessTables, peersMap, worker, inbox, mpcFaults, forgotten>>

\* Mutant: the update of the status does not look at the one it had.
ExecuteStartUnchecked(e) ==
  /\ execute[e].at = "published"
  /\ sessStatus' = "computing" /\ sessRound' = "running"
  /\ execute' = [execute EXCEPT ![e].at = "waiting"]
  /\ UNCHANGED <<operation, sessResult, sessNodes, sessMaps, worker, inbox, mpcFaults, history>>

\* UpdateStatus(nodes_ready -> computing) and CreateRound, or the conflict,
\* which leaves the tasks and the collector behind.
ExecuteStart(e) ==
  /\ execute[e].at = "published"
  /\ IF sessStatus = "nodes_ready"
       THEN /\ sessStatus' = "computing" /\ sessRound' = "running"
            /\ execute' = [execute EXCEPT ![e].at = "waiting"]
       ELSE /\ execute' = [execute EXCEPT ![e].at = "error"]
            /\ UNCHANGED <<sessStatus, sessRound>>
  /\ UNCHANGED <<operation, sessResult, sessNodes, sessMaps, worker, inbox, mpcFaults, history>>

Ended(e) == [execute EXCEPT ![e].at = "error"]

ExecuteFails(e) == /\ sessStatus' = "failed"
                   /\ execute' = Ended(e)
                   /\ UNCHANGED <<operation, sessResult, sessRound, sessNodes, sessMaps, worker,
                                  inbox, mpcFaults, history>>

\* ResultTimeout passes.
ExecuteTimeout(e) == execute[e].at = "waiting" /\ ExecuteFails(e)

\* The client closes its connection: the context that ends the wait also ends
\* the update that should mark the session as failed, which stays computing.
ExecuteAbandoned(e) ==
  /\ execute[e].at = "waiting"
  /\ execute' = Ended(e)
  /\ UNCHANGED <<operation, sessTables, sessMaps, worker, inbox, mpcFaults, history>>

\* A node reported an error.
ExecuteReported(e) == /\ execute[e].at = "waiting"
                      /\ collectors[e].failed
                      /\ ExecuteFails(e)

\* recombine, CompleteRound, SetResult and cleanup.
ExecuteFinish(e) ==
  /\ execute[e].at = "waiting"
  /\ collectors[e].closed /\ ~collectors[e].failed
  /\ sessResult' = Recombined(collectors[e].shares)
  /\ sessStatus' = "completed" /\ sessRound' = "completed"
  /\ execute' = [execute EXCEPT ![e] = [at |-> "ok", peers |-> {}, result |-> sessResult']]
  /\ tasksMap' = 0 /\ collectorMap' = 0
  /\ UNCHANGED <<operation, sessNodes, peersMap, collectors, worker, inbox, mpcFaults, history>>

\* Cancel, over DELETE: whatever the session was doing, it is failed now.
Cancel ==
  /\ sessStatus # "none"
  /\ sessStatus' = "failed"
  /\ tasksMap' = 0 /\ collectorMap' = 0
  /\ UNCHANGED <<operation, sessResult, sessRound, sessNodes, peersMap, collectors, execute,
                 worker, inbox, mpcFaults, history>>
-----------------------------------------------------------------------------
(***************************************************************************)
(* The worker of a party.                                                  *)
(***************************************************************************)
\* A sum adds the shares; nothing is exchanged.
AddShares(n, task) == {<<n, task>>}

\* GetTask, until the task is ready; then the peers it names are dialled.
FetchTask(n) ==
  /\ worker[n].at = "registered"
  /\ tasksMap # 0
  /\ worker' = [worker EXCEPT ![n] =
       IF operation = "sum"
         THEN [Idle(n) EXCEPT !.at = "computed", !.share = AddShares(n, tasksMap)]
         ELSE [Idle(n) EXCEPT !.at = "working", !.task = tasksMap,
                              !.peers = execute[tasksMap].peers \ {n}]]
  /\ UNCHANGED <<operation, sessTables, sessMaps, execute, inbox, mpcFaults, history>>

\* Broadcast of the first round; Exchange puts the message into the buffers,
\* whatever task the receiver has.  A peer that is gone fails the broadcast.
BroadcastShare(n) ==
  /\ worker[n].at = "working"
  /\ \E reached \in SUBSET {m \in worker[n].peers : worker[m].at # "gone"} :
       /\ \/ reached = worker[n].peers
          \/ \E m \in worker[n].peers \ reached : worker[m].at \in {"gone", "start"}
       /\ inbox' = [m \in Parties |-> IF m \in reached THEN With(inbox[m], n, worker[n].task)
                                                       ELSE inbox[m]]
       /\ worker' = [worker EXCEPT ![n].at = IF reached = worker[n].peers THEN "gathering" ELSE "broken"]
  /\ UNCHANGED <<operation, sessTables, sessMaps, execute, mpcFaults, history>>

\* Gather returns once as many messages are there as peers were dialled.
GatherShares(n) ==
  /\ worker[n].at = "gathering"
  /\ Cardinality(DOMAIN inbox[n]) >= Cardinality(worker[n].peers)
  /\ worker' = [worker EXCEPT ![n].at = "computed",
                              ![n].share = {<<n, worker[n].task>>} \union {<<m, inbox[n][m]>> : m \in DOMAIN inbox[n]}]
  /\ UNCHANGED <<operation, sessTables, sessMaps, execute, inbox, mpcFaults, history>>

GatherTimeout(n) ==
  /\ worker[n].at = "gathering"
  /\ Cardinality(DOMAIN inbox[n]) < Cardinality(worker[n].peers)
  /\ worker' = [worker EXCEPT ![n].at = "broken"]
  /\ UNCHANGED <<operation, sessTables, sessMaps, execute, inbox, mpcFaults, history>>

\* resultCollector.add.
Collect(c, n, share) ==
  IF c.closed THEN c
  ELSE LET shares == With(c.shares, n, share)
       IN  [c EXCEPT !.shares = shares, !.closed = Cardinality(DOMAIN shares) >= Cardinality(Parties)]

CollectError(c) == IF c.closed THEN c ELSE [c EXCEPT !.failed = TRUE, !.closed = TRUE]

\* SubmitResult of a share or of an error; the collector of the moment gets it,
\* and without one the refusal is ignored.
SubmitResult(n) ==
  /\ worker[n].at \in {"computed", "broken"}
  /\ LET got(c) == IF worker[n].at = "computed" THEN Collect(c, n, worker[n].share) ELSE CollectError(c)
     IN  collectors' = [e \in Executions |-> IF e = collectorMap THEN got(collectors[e])
                                                                 ELSE collectors[e]]
  /\ worker' = [worker EXCEPT ![n] = [Idle(n) EXCEPT !.at = "gone"]]
  /\ inbox' = [inbox EXCEPT ![n] = [m \in {} |-> 0]]
  /\ UNCHANGED <<operation, sessTables, peersMap, tasksMap, collectorMap, execute, mpcFaults,
                 history>>
-----------------------------------------------------------------------------
(***************************************************************************)
(* Restarts: a worker that no Job runs (a Job does not try again) is       *)
(* started again, unless it was done, with an empty buffer; the            *)
(* coordinator loses its maps and the calls it was serving.                *)
(***************************************************************************)
WorkerRestart(n) ==
  /\ mpcFaults < MpcMaxFaults /\ mpcFaults' = mpcFaults + 1
  /\ worker[n].at \notin {"start", "gone"}
  /\ worker' = [worker EXCEPT ![n] = Idle(n)]
  /\ inbox' = [inbox EXCEPT ![n] = [m \in {} |-> 0]]
  /\ UNCHANGED <<operation, sessTables, sessMaps, execute, history>>

CoordinatorRestart ==
  /\ mpcFaults < MpcMaxFaults /\ mpcFaults' = mpcFaults + 1
  /\ peersMap' = {} /\ tasksMap' = 0 /\ collectorMap' = 0
  /\ execute' = [e \in Executions |->
       IF execute[e].at \in {"checked", "published", "waiting"}
         THEN [execute[e] EXCEPT !.at = "error", !.peers = {}] ELSE execute[e]]
  /\ UNCHANGED <<operation, sessTables, collectors, worker, inbox, overlapped>>
  /\ forgotten' = (forgotten \/ sessStatus \in {"created", "nodes_ready"})

MpcNext ==
  \/ CreateSession \/ Cancel \/ CoordinatorRestart
  \/ \E e \in Executions : \/ ExecuteCheck(e) \/ ExecutePublish(e) \/ ExecuteStart(e)
                           \/ ExecuteTimeout(e) \/ ExecuteAbandoned(e)
                           \/ ExecuteReported(e) \/ ExecuteFinish(e)
  \/ \E n \in Parties : \/ RegisterRow(n) \/ RegisterCount(n) \/ RegisterPeer(n)
                        \/ FetchTask(n) \/ BroadcastShare(n) \/ GatherShares(n)
                        \/ GatherTimeout(n) \/ SubmitResult(n) \/ WorkerRestart(n)

MpcSpec == MpcInit /\ [][MpcNext]_mpcVars
-----------------------------------------------------------------------------
MpcTypeOK ==
  /\ sessStatus \in {"none", "created", "nodes_ready", "computing", "completed", "failed"}
  /\ sessResult \in Executions \union {NoResult, Random}
  /\ sessRound \in {"none", "running", "completed"}
  /\ sessNodes \subseteq Parties /\ peersMap \subseteq Parties
  /\ tasksMap \in Executions \union {0} /\ collectorMap \in Executions \union {0}

\* A completed session holds the result of the call that was answered with it,
\* and never a recombination of incomplete shares or of different dealings,
\* although a call may come after the last party was counted and before the
\* address of an earlier one is in the map: that party then waits for messages
\* nobody sends, and the session fails.
\* Two things are excepted, and break it: two clients that execute one session
\* at the same time, and a coordinator that restarted before the computation,
\* which forgets the peers and the tasks that workers hold already.
ResultHonest ==
  (sessStatus = "completed" /\ ~overlapped /\ ~forgotten) =>
    /\ sessResult \in Executions
    /\ execute[sessResult].at = "ok" /\ execute[sessResult].result = sessResult

\* At most one call ever computes: the status check in UPDATE ... WHERE lets
\* one of them through, whatever the others dealt.
OneComputes ==
  Cardinality({e \in Executions : execute[e].at \in {"waiting", "ok"}}) <= 1

\* What the run checks of sessions: one call computes, and a result that is given
\* out is computed from one dealing with everybody's share (manager.go, worker.go).
ComputationHonest == MpcTypeOK /\ ResultHonest /\ OneComputes

\* A session that failed or completed changes again only when it is cancelled
\* or when a call that was still waiting at the time ends.
FinalUnlessWaiting ==
  [][(sessStatus \in {"completed", "failed"} /\ sessStatus' # sessStatus) =>
       \/ sessStatus = "completed" /\ sessStatus' = "failed" /\ tasksMap' = 0
       \/ \E e \in Executions : execute[e].at = "waiting" /\ execute'[e].at = "ok"]_mpcVars
=============================================================================
