----------------------------- MODULE MpcProofs -----------------------------
(***************************************************************************)
(* What is proved of a session of the MPC cluster, for any parties, any    *)
(* number of Execute calls and any number of restarts.                     *)
(*                                                                         *)
(* The database lets one call through: a call that computes left the       *)
(* status of a session that can still be executed behind for good, and a   *)
(* completed session has the call that completed it.                       *)
(***************************************************************************)
EXTENDS MpcSession, FiniteSetTheorems, TLAPS

Steps == {"idle", "checked", "published", "waiting", "ok", "error"}

ExecuteType ==
  /\ execute \in [Executions -> [at : Steps, peers : SUBSET Parties,
                                 result : Executions \union {NoResult, Random}]]
  /\ peersMap \subseteq Parties

\* The calls that were let through.
Computing(e) == execute[e].at \in {"waiting", "ok"}

\* A session that one of its calls computes, or did, is past nodes_ready.
ComputingStarted ==
  \A e \in Executions : Computing(e) => sessStatus \in {"computing", "completed", "failed"}

OnlyOne == \A d, e \in Executions : Computing(d) /\ Computing(e) => d = e

\* A completed session was completed by a call.
CompletedByOne == sessStatus = "completed" => \E e \in Executions : execute[e].at = "ok"

SessionInv == ExecuteType /\ ComputingStarted /\ OnlyOne /\ CompletedByOne

LEMMA RecombinedType ==
  ASSUME NEW shares
  PROVE  Recombined(shares) \in Executions \union {NoResult, Random}
BY DEF Recombined

\* A step that leaves the calls and the status alone keeps the invariant.
LEMMA CallsUntouched ==
  ASSUME SessionInv, UNCHANGED <<execute, sessStatus>>, peersMap' \subseteq Parties
  PROVE  SessionInv'
BY DEF SessionInv, ExecuteType, ComputingStarted, OnlyOne, CompletedByOne, Computing

\* A call that is given up takes nothing away: no other call is let through.
LEMMA CallEnds ==
  ASSUME SessionInv, NEW e \in Executions, execute[e].at # "ok",
         execute' = Ended(e), UNCHANGED peersMap,
         \/ UNCHANGED sessStatus
         \/ sessStatus' = "failed"
  PROVE  SessionInv'
<1>1. ExecuteType'
  BY DEF SessionInv, ExecuteType, Ended, Steps
<1>2. \A d \in Executions : execute'[d].at = IF d = e THEN "error" ELSE execute[d].at
  BY DEF SessionInv, ExecuteType, Ended
<1>3. \A d \in Executions : Computing(d)' => Computing(d)
  BY <1>2 DEF Computing
<1>4. ComputingStarted'
  BY <1>3 DEF SessionInv, ComputingStarted
<1>5. OnlyOne'
  BY <1>3 DEF SessionInv, OnlyOne
<1>6. CompletedByOne'
  BY <1>2 DEF SessionInv, CompletedByOne
<1> QED BY <1>1, <1>4, <1>5, <1>6 DEF SessionInv

LEMMA SessionInit == MpcInit => SessionInv
BY DEF MpcInit, SessionInv, ExecuteType, ComputingStarted, OnlyOne, CompletedByOne, Computing, Steps

LEMMA SessionStep == SessionInv /\ [MpcNext]_mpcVars => SessionInv'
<1> SUFFICES ASSUME SessionInv, [MpcNext]_mpcVars PROVE SessionInv'
  OBVIOUS
<1> USE DEF mpcVars, sessTables, sessMaps, history
<1>t. peersMap \subseteq Parties
  BY DEF SessionInv, ExecuteType
<1>1. CASE CreateSession
  <2>1. ExecuteType'
    BY <1>1 DEF CreateSession, SessionInv, ExecuteType
  <2>2. \A e \in Executions : ~Computing(e)'
    BY <1>1 DEF CreateSession, SessionInv, ComputingStarted, Computing
  <2>3. sessStatus' # "completed"
    BY <1>1 DEF CreateSession
  <2> QED BY <2>1, <2>2, <2>3 DEF SessionInv, ComputingStarted, OnlyOne, CompletedByOne
<1>2. CASE Cancel
  <2>1. /\ sessStatus' = "failed"
        /\ UNCHANGED <<execute, peersMap>>
    BY <1>2 DEF Cancel
  <2> QED BY <2>1 DEF SessionInv, ExecuteType, ComputingStarted, OnlyOne, CompletedByOne, Computing
<1>3. CASE CoordinatorRestart
  <2>1. /\ \A e \in Executions : execute'[e] = IF execute[e].at \in {"checked", "published", "waiting"}
                                               THEN [execute[e] EXCEPT !.at = "error", !.peers = {}] ELSE execute[e]
        /\ execute' = [e \in Executions |-> execute'[e]]
        /\ peersMap' = {} /\ UNCHANGED sessStatus
    BY <1>3 DEF CoordinatorRestart
  <2>2. ExecuteType'
    BY <2>1, ZenonT(30) DEF SessionInv, ExecuteType, Steps
  <2>3. \A e \in Executions : Computing(e)' => Computing(e)
    BY <2>1 DEF Computing, SessionInv, ExecuteType
  <2>4. \A e \in Executions : execute[e].at = "ok" => execute'[e].at = "ok"
    BY <2>1
  <2> QED BY <2>1, <2>2, <2>3, <2>4 DEF SessionInv, ComputingStarted, OnlyOne, CompletedByOne
<1>4. ASSUME NEW e \in Executions, ExecuteCheck(e)
      PROVE  SessionInv'
  <2>1. \A d \in Executions : execute'[d].at = IF d = e THEN IF sessStatus = "nodes_ready" THEN "checked" ELSE "error"
                                               ELSE execute[d].at
    BY <1>4 DEF ExecuteCheck, SessionInv, ExecuteType
  <2>2. ExecuteType'
    <3> DEFINE call == IF sessStatus = "nodes_ready"
                         THEN [execute[e] EXCEPT !.at = "checked", !.peers = peersMap]
                         ELSE [execute[e] EXCEPT !.at = "error"]
    <3>1. call \in [at : Steps, peers : SUBSET Parties, result : Executions \union {NoResult, Random}]
      BY DEF SessionInv, ExecuteType, Steps
    <3>2. execute' = [execute EXCEPT ![e] = call] /\ UNCHANGED peersMap
      BY <1>4 DEF ExecuteCheck, SessionInv, ExecuteType
    <3> QED BY <3>1, <3>2 DEF SessionInv, ExecuteType
  <2>3. \A d \in Executions : Computing(d)' => Computing(d)
    BY <2>1 DEF Computing
  <2>4. UNCHANGED sessStatus /\ execute[e].at = "idle"
    BY <1>4 DEF ExecuteCheck
  <2> QED BY <2>1, <2>2, <2>3, <2>4 DEF SessionInv, ComputingStarted, OnlyOne, CompletedByOne
<1>5. ASSUME NEW e \in Executions, ExecutePublish(e)
      PROVE  SessionInv'
  <2>1. \A d \in Executions : execute'[d].at = IF d = e THEN "published" ELSE execute[d].at
    BY <1>5 DEF ExecutePublish, SessionInv, ExecuteType
  <2>2. ExecuteType'
    BY <1>5 DEF ExecutePublish, SessionInv, ExecuteType, Steps
  <2>3. \A d \in Executions : Computing(d)' => Computing(d)
    BY <2>1 DEF Computing
  <2>4. UNCHANGED sessStatus /\ execute[e].at = "checked"
    BY <1>5 DEF ExecutePublish
  <2> QED BY <2>1, <2>2, <2>3, <2>4 DEF SessionInv, ComputingStarted, OnlyOne, CompletedByOne
<1>6. ASSUME NEW e \in Executions, ExecuteStart(e)
      PROVE  SessionInv'
  <2>0. ExecuteType'
    BY <1>6 DEF ExecuteStart, SessionInv, ExecuteType, Steps
  <2>1. CASE sessStatus = "nodes_ready"
    <3>1. \A d \in Executions : ~Computing(d)
      BY <2>1 DEF SessionInv, ComputingStarted
    <3>2. \A d \in Executions : Computing(d)' => d = e
      BY <1>6, <2>1, <3>1 DEF ExecuteStart, SessionInv, ExecuteType, Computing
    <3>3. sessStatus' = "computing"
      BY <1>6, <2>1 DEF ExecuteStart
    <3> QED BY <2>0, <3>2, <3>3 DEF SessionInv, ComputingStarted, OnlyOne, CompletedByOne
  <2>2. CASE sessStatus # "nodes_ready"
    <3>1. \A d \in Executions : execute'[d].at = IF d = e THEN "error" ELSE execute[d].at
      BY <1>6, <2>2 DEF ExecuteStart, SessionInv, ExecuteType
    <3>2. UNCHANGED sessStatus /\ execute[e].at = "published"
      BY <1>6, <2>2 DEF ExecuteStart
    <3>3. \A d \in Executions : Computing(d)' => Computing(d)
      BY <3>1 DEF Computing
    <3> QED BY <2>0, <3>1, <3>2, <3>3 DEF SessionInv, ComputingStarted, OnlyOne, CompletedByOne
  <2> QED BY <2>1, <2>2
<1>7. ASSUME NEW e \in Executions,
             ExecuteTimeout(e) \/ ExecuteAbandoned(e) \/ ExecuteReported(e)
      PROVE  SessionInv'
  BY <1>7, CallEnds DEF ExecuteTimeout, ExecuteAbandoned, ExecuteReported, ExecuteFails
<1>8. ASSUME NEW e \in Executions, ExecuteFinish(e)
      PROVE  SessionInv'
  <2>0. sessResult' \in Executions \union {NoResult, Random}
    BY <1>8, RecombinedType DEF ExecuteFinish
  <2>1. execute' = [execute EXCEPT ![e] = [at |-> "ok", peers |-> {}, result |-> sessResult']]
    BY <1>8 DEF ExecuteFinish
  <2>2. \A d \in Executions : execute'[d].at = IF d = e THEN "ok" ELSE execute[d].at
    BY <2>1 DEF SessionInv, ExecuteType
  <2>3. ExecuteType'
    BY <1>8, <2>0, <2>1 DEF ExecuteFinish, SessionInv, ExecuteType, Steps
  <2>4. \A d \in Executions : Computing(d)' => Computing(d)
    BY <1>8, <2>2 DEF ExecuteFinish, Computing
  <2>5. sessStatus' = "completed"
    BY <1>8 DEF ExecuteFinish
  <2> QED BY <2>2, <2>3, <2>4, <2>5 DEF SessionInv, ComputingStarted, OnlyOne, CompletedByOne
<1>9. ASSUME NEW n \in Parties, RegisterPeer(n)
      PROVE  SessionInv'
  <2>1. UNCHANGED execute /\ peersMap' \subseteq Parties
    BY <1>9, <1>t DEF RegisterPeer
  <2>2. \/ UNCHANGED sessStatus
        \/ sessStatus = "created" /\ sessStatus' = "nodes_ready"
    BY <1>9 DEF RegisterPeer
  <2> QED BY <2>1, <2>2, CallsUntouched
          DEF SessionInv, ExecuteType, ComputingStarted, OnlyOne, CompletedByOne, Computing
<1>10. ASSUME NEW n \in Parties,
              \/ RegisterRow(n) \/ RegisterCount(n) \/ FetchTask(n) \/ BroadcastShare(n) \/ GatherShares(n)
              \/ GatherTimeout(n) \/ SubmitResult(n) \/ WorkerRestart(n)
       PROVE  SessionInv'
  BY <1>10, <1>t, CallsUntouched
     DEF RegisterRow, RegisterCount, FetchTask, BroadcastShare, GatherShares, GatherTimeout, SubmitResult, WorkerRestart
<1>11. CASE UNCHANGED mpcVars
  BY <1>11, <1>t, CallsUntouched
<1> QED BY <1>1, <1>2, <1>3, <1>4, <1>5, <1>6, <1>7, <1>8, <1>9, <1>10, <1>11 DEF MpcNext

LEMMA SessionInvariant == MpcSpec => []SessionInv
BY SessionInit, SessionStep, PTL DEF MpcSpec

\* However many calls execute a session at the same time, and whoever leaves,
\* fails or restarts, the update of the status lets one of them compute
\* (manager.go:246).
THEOREM OneCallComputes == MpcSpec => []OneComputes
<1>1. SessionInv => OneComputes
  <2> DEFINE through == {e \in Executions : execute[e].at \in {"waiting", "ok"}}
  <2> SUFFICES ASSUME SessionInv PROVE Cardinality(through) <= 1
    BY DEF OneComputes
  <2>1. CASE through = {}
    BY <2>1, FS_EmptySet
  <2>2. CASE through # {}
    <3>1. PICK e : e \in through
      BY <2>2
    <3>2. through = {e}
      BY <3>1 DEF SessionInv, OnlyOne, Computing
    <3> HIDE DEF through
    <3> QED BY <3>2, FS_Singleton
  <2> QED BY <2>1, <2>2
<1> QED BY <1>1, SessionInvariant, PTL

\* A session that ended stays as it ended, unless it is cancelled or the one call
\* that computes it was still waiting (manager.go:254, :272, :311).
THEOREM FinalStays == MpcSpec => FinalUnlessWaiting
<1> DEFINE Step == (sessStatus \in {"completed", "failed"} /\ sessStatus' # sessStatus) =>
       \/ sessStatus = "completed" /\ sessStatus' = "failed" /\ tasksMap' = 0
       \/ \E e \in Executions : execute[e].at = "waiting" /\ execute'[e].at = "ok"
<1>1. SessionInv /\ [MpcNext]_mpcVars => [Step]_mpcVars
  <2> SUFFICES ASSUME SessionInv, MpcNext, sessStatus \in {"completed", "failed"}, sessStatus' # sessStatus
               PROVE  \/ sessStatus = "completed" /\ sessStatus' = "failed" /\ tasksMap' = 0
                      \/ \E e \in Executions : execute[e].at = "waiting" /\ execute'[e].at = "ok"
    OBVIOUS
  <2> USE DEF sessTables, sessMaps, history
  <2>1. CASE Cancel
    BY <2>1 DEF Cancel
  <2>2. ASSUME NEW e \in Executions, ExecuteFinish(e)
        PROVE  execute[e].at = "waiting" /\ execute'[e].at = "ok"
    BY <2>2 DEF ExecuteFinish, SessionInv, ExecuteType
  <2>3. ASSUME NEW e \in Executions, ExecuteTimeout(e) \/ ExecuteReported(e)
        PROVE  FALSE
    <3>1. execute[e].at = "waiting" /\ sessStatus' = "failed"
      BY <2>3 DEF ExecuteTimeout, ExecuteReported, ExecuteFails
    <3>2. sessStatus = "completed"
      BY <3>1
    <3>3. PICK d \in Executions : execute[d].at = "ok"
      BY <3>2 DEF SessionInv, CompletedByOne
    <3> QED BY <3>1, <3>3 DEF SessionInv, OnlyOne, Computing
  <2>4. CASE CreateSession \/ CoordinatorRestart
    BY <2>4 DEF CreateSession, CoordinatorRestart
  <2>5. ASSUME NEW e \in Executions, ExecuteCheck(e) \/ ExecutePublish(e) \/ ExecuteStart(e) \/ ExecuteAbandoned(e)
        PROVE  FALSE
    BY <2>5 DEF ExecuteCheck, ExecutePublish, ExecuteStart, ExecuteAbandoned
  <2>6. ASSUME NEW n \in Parties,
               \/ RegisterRow(n) \/ RegisterCount(n) \/ RegisterPeer(n) \/ FetchTask(n) \/ BroadcastShare(n)
               \/ GatherShares(n) \/ GatherTimeout(n) \/ SubmitResult(n) \/ WorkerRestart(n)
        PROVE  FALSE
    BY <2>6 DEF RegisterRow, RegisterCount, RegisterPeer, FetchTask, BroadcastShare, GatherShares,
                GatherTimeout, SubmitResult, WorkerRestart
  <2> QED BY <2>1, <2>2, <2>3, <2>4, <2>5, <2>6 DEF MpcNext
<1>2. [][Step]_mpcVars => FinalUnlessWaiting
  BY PTL DEF FinalUnlessWaiting
<1> QED BY <1>1, <1>2, SessionInvariant, PTL DEF MpcSpec
-----------------------------------------------------------------------------
(***************************************************************************)
(* Why the result of a session is the result of one call: ResultHonest,    *)
(* for any parties, any number of Execute calls and any number of restarts.*)
(*                                                                         *)
(* As long as no two calls overlap and the coordinator does not forget a   *)
(* session that was not computed yet, a call that may still complete it is *)
(* the only one anything was done for: the tasks, the messages and the     *)
(* shares are all of its dealing (OneDealing).  Before it nothing was      *)
(* dealt (Undealt).  A call that came before every address was in the map  *)
(* leaves out a party, which hears of nobody and never sends its share.    *)
(***************************************************************************)

Given(e) == execute[e].at \in {"published", "waiting"}

\* The calls that may still complete the session.
Live(e) == \/ execute[e].at = "waiting"
           \/ execute[e].at = "published" /\ sessStatus = "nodes_ready"

Clean == ~overlapped /\ ~forgotten

\* A share worth collecting for e: all of it, unless a party that e does not
\* know of will keep the others from ending.
Whole(n, e, share) ==
  IF operation = "sum" THEN share = {<<n, e>>}
  ELSE n \in execute[e].peers /\ (execute[e].peers = Parties => share = Parties \X {e})

Waiting(n) == /\ worker[n].at \in {"start", "counting", "early", "last", "registered"}
              /\ DOMAIN inbox[n] = {}

Shapes ==
  /\ operation \in {"sum", "comparison"}
  /\ DOMAIN worker = Parties /\ \A n \in Parties : DOMAIN worker[n] = {"at", "task", "peers", "share"}
  /\ DOMAIN inbox = Parties
  /\ tasksMap \in Executions \union {0} /\ collectorMap \in Executions \union {0}
  /\ DOMAIN collectors = Executions
  /\ \A e \in Executions : DOMAIN collectors[e] = {"shares", "failed", "closed"}

\* A call that was checked found the session ready, and that is never undone.
CheckedLate == \A e \in Executions :
  execute[e].at \in {"checked", "published"} => sessStatus \notin {"none", "created"}

Alone == ~overlapped => \A d, e \in Executions : Given(d) /\ Given(e) => d = e

\* Whoever makes a session ready is in the map of the peers.
SomePeer == ~forgotten =>
  /\ sessStatus = "nodes_ready" => peersMap # {}
  /\ \A e \in Executions : execute[e].at \in {"checked", "published", "waiting"} => execute[e].peers # {}

\* Nothing was dealt before the first call is given.
Undealt ==
  (Clean /\ sessStatus \in {"none", "created", "nodes_ready"} /\ \A e \in Executions : ~Given(e)) =>
    tasksMap = 0 /\ collectorMap = 0 /\ \A n \in Parties : Waiting(n)

WorksFor(n, e) ==
  /\ worker[n].at \in {"working", "gathering"} =>
       operation = "comparison" /\ worker[n].task = e /\ worker[n].peers = execute[e].peers \ {n}
  /\ worker[n].at = "computed" => Whole(n, e, worker[n].share)
  /\ DOMAIN inbox[n] \subseteq Parties \ {n}
  /\ \A m \in DOMAIN inbox[n] : inbox[n][m] = e /\ n \in execute[e].peers

Gathers(c, e) ==
  /\ DOMAIN c.shares \subseteq Parties
  /\ \A n \in DOMAIN c.shares : Whole(n, e, c.shares[n])
  /\ c.closed /\ ~c.failed => Parties \subseteq DOMAIN c.shares

\* A call that may complete the session is the only one anything is done for.
Serves(e) ==
  /\ tasksMap \in {0, e} /\ collectorMap \in {0, e}
  /\ \A n \in Parties : WorksFor(n, e)
  /\ Gathers(collectors[e], e)

OneDealing == Clean => \A e \in Executions : Live(e) => Serves(e)

Answered == sessStatus = "completed" /\ Clean =>
  /\ sessResult \in Executions
  /\ execute[sessResult].at = "ok" /\ execute[sessResult].result = sessResult

HonestInv == /\ SessionInv /\ Shapes /\ CheckedLate /\ Alone /\ SomePeer
             /\ Undealt /\ OneDealing /\ Answered
-----------------------------------------------------------------------------
LEMMA ResultInit == MpcInit => HonestInv
<1> SUFFICES ASSUME MpcInit PROVE HonestInv
  OBVIOUS
<1>1. SessionInv /\ Shapes
  BY SessionInit DEF MpcInit, Shapes, Idle, EmptyCollector
<1>2. \A e \in Executions : ~Given(e) /\ ~Live(e) /\ execute[e].at = "idle"
  BY DEF MpcInit, Given, Live
<1>3. CheckedLate /\ Alone /\ SomePeer /\ OneDealing /\ Answered
  BY <1>2 DEF MpcInit, CheckedLate, Alone, SomePeer, OneDealing, Answered
<1>4. Undealt
  BY DEF MpcInit, Undealt, Waiting, Idle
<1> QED BY <1>1, <1>3, <1>4 DEF HonestInv

\* The steps of the workers, which no client and no table sees.
WorkerMoves ==
  \E n \in Parties : \/ RegisterRow(n) \/ RegisterCount(n) \/ FetchTask(n) \/ BroadcastShare(n)
                     \/ GatherShares(n) \/ GatherTimeout(n) \/ SubmitResult(n) \/ WorkerRestart(n)

LEMMA WorkersAside ==
  WorkerMoves \/ UNCHANGED mpcVars =>
    UNCHANGED <<operation, execute, sessStatus, sessResult, peersMap, overlapped, forgotten>>
BY DEF WorkerMoves, mpcVars, sessTables, sessMaps, history, RegisterRow, RegisterCount, FetchTask,
       BroadcastShare, GatherShares, GatherTimeout, SubmitResult, WorkerRestart

LEMMA Cases ==
  [MpcNext]_mpcVars =>
    \/ CreateSession \/ Cancel \/ CoordinatorRestart
    \/ \E e \in Executions : \/ ExecuteCheck(e) \/ ExecutePublish(e) \/ ExecuteStart(e)
                             \/ ExecuteTimeout(e) \/ ExecuteAbandoned(e)
                             \/ ExecuteReported(e) \/ ExecuteFinish(e)
    \/ \E n \in Parties : RegisterPeer(n)
    \/ WorkerMoves \/ UNCHANGED mpcVars
BY DEF MpcNext, WorkerMoves

\* What a step makes of the calls: one of them moves on, or the coordinator
\* restarts and they all end.
Moved(e, from, to) ==
  /\ execute[e].at = from
  /\ \A d \in Executions \ {e} : execute'[d] = execute[d]
  /\ execute'[e].at = to

LEMMA CheckMoves ==
  ASSUME SessionInv, NEW e \in Executions, ExecuteCheck(e)
  PROVE  /\ UNCHANGED <<operation, sessStatus, sessResult, sessMaps, worker, inbox, history>>
         /\ IF sessStatus = "nodes_ready" THEN Moved(e, "idle", "checked") /\ execute'[e].peers = peersMap
                                          ELSE Moved(e, "idle", "error")
         /\ sessStatus # "none"
BY DEF ExecuteCheck, Moved, SessionInv, ExecuteType, sessTables

LEMMA PublishMoves ==
  ASSUME SessionInv, NEW e \in Executions, ExecutePublish(e)
  PROVE  /\ UNCHANGED <<operation, sessStatus, sessResult, peersMap, worker, inbox, forgotten>>
         /\ tasksMap' = e /\ collectorMap' = e
         /\ Moved(e, "checked", "published") /\ execute'[e].peers = execute[e].peers
         /\ overlapped' <=> (overlapped \/ \E d \in Executions \ {e} : Given(d))
BY DEF ExecutePublish, Moved, SessionInv, ExecuteType, sessTables, Given

LEMMA StartMoves ==
  ASSUME SessionInv, NEW e \in Executions, ExecuteStart(e)
  PROVE  /\ UNCHANGED <<operation, sessResult, sessMaps, worker, inbox, history>>
         /\ execute'[e].peers = execute[e].peers
         /\ \/ /\ sessStatus = "nodes_ready" /\ sessStatus' = "computing"
               /\ Moved(e, "published", "waiting")
            \/ /\ sessStatus # "nodes_ready" /\ UNCHANGED sessStatus
               /\ Moved(e, "published", "error")
BY DEF ExecuteStart, Moved, SessionInv, ExecuteType, sessTables

LEMMA EndMoves ==
  ASSUME SessionInv, NEW e \in Executions,
         ExecuteTimeout(e) \/ ExecuteAbandoned(e) \/ ExecuteReported(e)
  PROVE  /\ UNCHANGED <<operation, sessResult, sessMaps, worker, inbox, history>>
         /\ UNCHANGED sessStatus \/ sessStatus' = "failed"
         /\ Moved(e, "waiting", "error")
<1>1. execute[e].at = "waiting" /\ execute' = Ended(e)
  BY DEF ExecuteTimeout, ExecuteAbandoned, ExecuteReported, ExecuteFails
<1>2. Moved(e, "waiting", "error")
  BY <1>1 DEF Moved, Ended, SessionInv, ExecuteType
<1> QED BY <1>2 DEF ExecuteTimeout, ExecuteAbandoned, ExecuteReported, ExecuteFails, sessTables

LEMMA FinishMoves ==
  ASSUME SessionInv, NEW e \in Executions, ExecuteFinish(e)
  PROVE  /\ UNCHANGED <<operation, peersMap, collectors, worker, inbox, history>>
         /\ tasksMap' = 0 /\ collectorMap' = 0
         /\ sessStatus' = "completed" /\ sessResult' = Recombined(collectors[e].shares)
         /\ Moved(e, "waiting", "ok") /\ execute'[e].result = sessResult'
         /\ collectors[e].closed /\ ~collectors[e].failed
BY DEF ExecuteFinish, Moved, SessionInv, ExecuteType, sessTables

LEMMA RestartMoves ==
  ASSUME SessionInv, CoordinatorRestart
  PROVE  /\ UNCHANGED <<operation, sessStatus, sessResult, collectors, worker, inbox, overlapped>>
         /\ peersMap' = {} /\ tasksMap' = 0 /\ collectorMap' = 0
         /\ forgotten' <=> (forgotten \/ sessStatus \in {"created", "nodes_ready"})
         /\ \A d \in Executions : \/ execute'[d].at = "error"
                                  \/ execute'[d] = execute[d] /\ ~Given(d) /\ execute[d].at # "checked"
         /\ \A d \in Executions : execute[d].at = "ok" => execute'[d] = execute[d]
BY DEF CoordinatorRestart, SessionInv, ExecuteType, sessTables, Given

LEMMA PeerMoves ==
  ASSUME NEW n \in Parties, RegisterPeer(n)
  PROVE  /\ UNCHANGED <<operation, execute, sessResult, tasksMap, collectorMap, collectors, inbox, history>>
         /\ peersMap' = peersMap \union {n}
         /\ UNCHANGED sessStatus \/ (sessStatus = "created" /\ sessStatus' = "nodes_ready")
         /\ worker[n].at \in {"early", "last"}
BY DEF RegisterPeer
-----------------------------------------------------------------------------
LEMMA ShapesStep == SessionInv /\ Shapes /\ [MpcNext]_mpcVars => Shapes'
<1> SUFFICES ASSUME SessionInv, Shapes, [MpcNext]_mpcVars PROVE Shapes'
  OBVIOUS
<1> USE DEF sessTables, sessMaps, history
<1>1. ASSUME NEW n \in Parties, RegisterRow(n) \/ RegisterCount(n) \/ RegisterPeer(n) \/ GatherShares(n) \/ GatherTimeout(n)
      PROVE  Shapes'
  BY <1>1 DEF RegisterRow, RegisterCount, RegisterPeer, GatherShares, GatherTimeout, Shapes
<1>2. ASSUME NEW n \in Parties, FetchTask(n) \/ BroadcastShare(n) \/ WorkerRestart(n)
      PROVE  Shapes'
  BY <1>2 DEF FetchTask, BroadcastShare, WorkerRestart, Idle, Shapes
<1>3. ASSUME NEW n \in Parties, SubmitResult(n)
      PROVE  Shapes'
  <2>1. \A e \in Executions : DOMAIN collectors'[e] = {"shares", "failed", "closed"}
    BY <1>3 DEF SubmitResult, Shapes, Collect, CollectError
  <2> QED BY <1>3, <2>1 DEF SubmitResult, Idle, Shapes
<1>4. ASSUME NEW e \in Executions, ExecutePublish(e)
      PROVE  Shapes'
  BY <1>4 DEF ExecutePublish, EmptyCollector, Shapes
<1>5. ASSUME NEW e \in Executions, ExecuteCheck(e) \/ ExecuteStart(e) \/ ExecuteFinish(e)
      PROVE  Shapes'
  BY <1>5 DEF ExecuteCheck, ExecuteStart, ExecuteFinish, Shapes
<1>6. ASSUME NEW e \in Executions, ExecuteTimeout(e) \/ ExecuteAbandoned(e) \/ ExecuteReported(e)
      PROVE  Shapes'
  BY <1>6, EndMoves DEF Shapes
<1>7. CASE CreateSession \/ Cancel \/ CoordinatorRestart
  BY <1>7 DEF CreateSession, Cancel, CoordinatorRestart, Shapes
<1>8. CASE UNCHANGED mpcVars
  BY <1>8 DEF mpcVars, Shapes
<1> QED BY <1>1, <1>2, <1>3, <1>4, <1>5, <1>6, <1>7, <1>8 DEF MpcNext

LEMMA CheckedStep == SessionInv /\ CheckedLate /\ [MpcNext]_mpcVars => CheckedLate'
<1> SUFFICES ASSUME SessionInv, CheckedLate, [MpcNext]_mpcVars PROVE CheckedLate'
  OBVIOUS
<1>1. ASSUME NEW e \in Executions, ExecuteCheck(e) PROVE CheckedLate'
  BY <1>1, CheckMoves DEF CheckedLate, Moved
<1>2. ASSUME NEW e \in Executions, ExecutePublish(e) PROVE CheckedLate'
  BY <1>2, PublishMoves DEF CheckedLate, Moved
<1>3. ASSUME NEW e \in Executions, ExecuteStart(e) PROVE CheckedLate'
  BY <1>3, StartMoves DEF CheckedLate, Moved
<1>4. ASSUME NEW e \in Executions, ExecuteTimeout(e) \/ ExecuteAbandoned(e) \/ ExecuteReported(e) PROVE CheckedLate'
  BY <1>4, EndMoves DEF CheckedLate, Moved
<1>5. ASSUME NEW e \in Executions, ExecuteFinish(e) PROVE CheckedLate'
  BY <1>5, FinishMoves DEF CheckedLate, Moved
<1>6. CASE CoordinatorRestart
  BY <1>6, RestartMoves DEF CheckedLate, Given
<1>7. ASSUME NEW n \in Parties, RegisterPeer(n) PROVE CheckedLate'
  BY <1>7, PeerMoves DEF CheckedLate
<1>8. CASE WorkerMoves \/ UNCHANGED mpcVars
  BY <1>8, WorkersAside DEF CheckedLate
<1>9. CASE CreateSession \/ Cancel
  BY <1>9 DEF CreateSession, Cancel, CheckedLate
<1> QED BY <1>1, <1>2, <1>3, <1>4, <1>5, <1>6, <1>7, <1>8, <1>9, Cases

LEMMA AloneStep == SessionInv /\ Alone /\ [MpcNext]_mpcVars => Alone'
<1> SUFFICES ASSUME SessionInv, Alone, [MpcNext]_mpcVars PROVE Alone'
  OBVIOUS
<1> USE DEF Alone, Given
<1>1. ASSUME NEW e \in Executions, ExecuteCheck(e) PROVE Alone'
  BY <1>1, CheckMoves DEF Moved, history
<1>2. ASSUME NEW e \in Executions, ExecutePublish(e) PROVE Alone'
  BY <1>2, PublishMoves DEF Moved
<1>3. ASSUME NEW e \in Executions, ExecuteStart(e) PROVE Alone'
  BY <1>3, StartMoves DEF Moved, history
<1>4. ASSUME NEW e \in Executions, ExecuteTimeout(e) \/ ExecuteAbandoned(e) \/ ExecuteReported(e) PROVE Alone'
  BY <1>4, EndMoves DEF Moved, history
<1>5. ASSUME NEW e \in Executions, ExecuteFinish(e) PROVE Alone'
  BY <1>5, FinishMoves DEF Moved, history
<1>6. CASE CoordinatorRestart
  BY <1>6, RestartMoves
<1>7. ASSUME NEW n \in Parties, RegisterPeer(n) PROVE Alone'
  BY <1>7, PeerMoves DEF history
<1>8. CASE WorkerMoves \/ UNCHANGED mpcVars
  BY <1>8, WorkersAside
<1>9. CASE CreateSession \/ Cancel
  BY <1>9 DEF CreateSession, Cancel, history
<1> QED BY <1>1, <1>2, <1>3, <1>4, <1>5, <1>6, <1>7, <1>8, <1>9, Cases

LEMMA SomePeerStep == SessionInv /\ CheckedLate /\ SomePeer /\ [MpcNext]_mpcVars => SomePeer'
<1> SUFFICES ASSUME SessionInv, CheckedLate, SomePeer, [MpcNext]_mpcVars PROVE SomePeer'
  OBVIOUS
<1> USE DEF SomePeer
<1>1. ASSUME NEW e \in Executions, ExecuteCheck(e) PROVE SomePeer'
  BY <1>1, CheckMoves DEF Moved, history, sessMaps
<1>2. ASSUME NEW e \in Executions, ExecutePublish(e) PROVE SomePeer'
  BY <1>2, PublishMoves DEF Moved
<1>3. ASSUME NEW e \in Executions, ExecuteStart(e) PROVE SomePeer'
  BY <1>3, StartMoves DEF Moved, history, sessMaps
<1>4. ASSUME NEW e \in Executions, ExecuteTimeout(e) \/ ExecuteAbandoned(e) \/ ExecuteReported(e) PROVE SomePeer'
  BY <1>4, EndMoves DEF Moved, history, sessMaps
<1>5. ASSUME NEW e \in Executions, ExecuteFinish(e) PROVE SomePeer'
  BY <1>5, FinishMoves DEF Moved, history
<1>6. CASE CoordinatorRestart
  BY <1>6, RestartMoves
<1>7. ASSUME NEW n \in Parties, RegisterPeer(n) PROVE SomePeer'
  BY <1>7, PeerMoves DEF history
<1>8. CASE WorkerMoves \/ UNCHANGED mpcVars
  BY <1>8, WorkersAside
<1>9. CASE Cancel
  BY <1>9 DEF Cancel, history
<1>10. CASE CreateSession
  BY <1>10 DEF CreateSession, history
<1> QED BY <1>1, <1>2, <1>3, <1>4, <1>5, <1>6, <1>7, <1>8, <1>9, <1>10, Cases
-----------------------------------------------------------------------------
LEMMA UndealtStep == SessionInv /\ Shapes /\ CheckedLate /\ Undealt /\ [MpcNext]_mpcVars => Undealt'
<1> SUFFICES ASSUME SessionInv, Shapes, CheckedLate, Undealt, [MpcNext]_mpcVars,
                    Clean', sessStatus' \in {"none", "created", "nodes_ready"},
                    \A e \in Executions : ~Given(e)'
             PROVE  tasksMap' = 0 /\ collectorMap' = 0 /\ \A n \in Parties : Waiting(n)'
  BY DEF Undealt
<1> DEFINE Before == tasksMap = 0 /\ collectorMap = 0 /\ \A n \in Parties : Waiting(n)
\* Unless the step ends a call, it was so before it.
<1>a. ASSUME Clean, \A e \in Executions : ~Given(e), sessStatus \in {"none", "created", "nodes_ready"}
      PROVE  Before
  BY <1>a DEF Undealt
<1>1. ASSUME NEW e \in Executions, ExecuteCheck(e) PROVE Before'
  BY <1>1, <1>a, CheckMoves DEF Moved, Given, Clean, history, sessMaps, Waiting
<1>2. ASSUME NEW e \in Executions, ExecutePublish(e) PROVE FALSE
  BY <1>2, PublishMoves DEF Moved, Given
<1>3. ASSUME NEW e \in Executions, ExecuteStart(e) PROVE FALSE
  BY <1>3, StartMoves DEF Moved, Given, CheckedLate
<1>4. ASSUME NEW e \in Executions, ExecuteTimeout(e) \/ ExecuteAbandoned(e) \/ ExecuteReported(e) PROVE FALSE
  BY <1>4, EndMoves DEF Moved, SessionInv, ComputingStarted, Computing
<1>5. ASSUME NEW e \in Executions, ExecuteFinish(e) PROVE FALSE
  BY <1>5, FinishMoves
<1>6. CASE CoordinatorRestart
  <2>1. sessStatus = "none" /\ ~forgotten /\ ~overlapped
    BY <1>6, RestartMoves DEF Clean
  <2>2. \A e \in Executions : ~Given(e)
    BY <2>1 DEF CheckedLate, SessionInv, ComputingStarted, Computing, Given
  <2>3. Before
    BY <2>1, <2>2, <1>a DEF Clean
  <2> QED BY <2>3, <1>6, RestartMoves DEF Waiting
<1>7. ASSUME NEW n \in Parties, RegisterPeer(n) PROVE Before'
  <2>1. Before
    BY <1>7, <1>a, PeerMoves DEF Clean, history, Given
  <2>2. \A m \in Parties : worker'[m].at \in {"start", "counting", "early", "last", "registered"}
    BY <1>7, <2>1 DEF RegisterPeer, Waiting, Shapes
  <2> QED BY <2>1, <2>2, <1>7, PeerMoves DEF Waiting
<1>8. CASE CreateSession
  <2>1. sessStatus = "none" /\ UNCHANGED <<execute, overlapped, forgotten, tasksMap, collectorMap, worker, inbox>>
    BY <1>8 DEF CreateSession, history
  <2> QED BY <2>1, <1>a DEF Clean, Given, Waiting
<1>9. CASE Cancel
  BY <1>9 DEF Cancel
<1>10. CASE UNCHANGED mpcVars
  BY <1>10, <1>a DEF mpcVars, Clean, Given, Waiting
<1>11. ASSUME WorkerMoves PROVE Before'
  <2>1. Before
    BY <1>11, <1>a, WorkersAside DEF Clean, Given
  <2>2. PICK n \in Parties : \/ RegisterRow(n) \/ RegisterCount(n) \/ FetchTask(n) \/ BroadcastShare(n)
                             \/ GatherShares(n) \/ GatherTimeout(n) \/ SubmitResult(n) \/ WorkerRestart(n)
    BY <1>11 DEF WorkerMoves
  <2>3. CASE RegisterRow(n) \/ RegisterCount(n)
    BY <2>1, <2>3 DEF RegisterRow, RegisterCount, Waiting, Shapes, sessMaps
  <2>4. CASE FetchTask(n) \/ BroadcastShare(n) \/ GatherShares(n) \/ GatherTimeout(n) \/ SubmitResult(n)
    BY <2>1, <2>4 DEF FetchTask, BroadcastShare, GatherShares, GatherTimeout, SubmitResult, Waiting
  <2>5. CASE WorkerRestart(n)
    BY <2>1, <2>5 DEF WorkerRestart, Waiting, Shapes, sessMaps, Idle
  <2> QED BY <2>2, <2>3, <2>4, <2>5
<1> QED BY <1>1, <1>2, <1>3, <1>4, <1>5, <1>6, <1>7, <1>8, <1>9, <1>10, <1>11, Cases
-----------------------------------------------------------------------------
\* A part of a finite set that is no smaller than it is all of it.
LEMMA NoSmaller ==
  ASSUME NEW T, IsFiniteSet(T), NEW S \in SUBSET T, Cardinality(S) >= Cardinality(T)
  PROVE  S = T
<1>1. IsFiniteSet(S) /\ Cardinality(S) <= Cardinality(T) /\ (Cardinality(S) = Cardinality(T) => S = T)
  BY FS_Subset
<1>2. Cardinality(S) \in Nat /\ Cardinality(T) \in Nat
  BY <1>1, FS_CardinalityType
<1> QED BY <1>1, <1>2

LEMMA CollectGathers ==
  ASSUME NEW c, DOMAIN c = {"shares", "failed", "closed"}, NEW n \in Parties, NEW e \in Executions,
         NEW share, Gathers(c, e), Whole(n, e, share)
  PROVE  Gathers(Collect(c, n, share), e)
<1>1. CASE c.closed
  BY <1>1 DEF Collect
<1>2. CASE ~c.closed
  <2> DEFINE all == With(c.shares, n, share)
             d == Collect(c, n, share)
  <2>1. /\ DOMAIN all = DOMAIN c.shares \union {n}
        /\ \A m \in DOMAIN all : all[m] = IF m = n THEN share ELSE c.shares[m]
    BY DEF With
  <2>2. DOMAIN all \subseteq Parties /\ \A m \in DOMAIN all : Whole(m, e, all[m])
    BY <2>1 DEF Gathers
  <2> HIDE DEF all
  <2>3. d.shares = all /\ (d.closed => Cardinality(DOMAIN all) >= Cardinality(Parties))
    BY <1>2 DEF Collect, all
  <2>4. d.closed => DOMAIN all = Parties
    BY <2>2, <2>3, NoSmaller, MpcAssumption
  <2> QED BY <2>2, <2>3, <2>4 DEF Gathers
<1> QED BY <1>1, <1>2

LEMMA ErrorGathers ==
  ASSUME NEW c, DOMAIN c = {"shares", "failed", "closed"}, NEW e \in Executions, Gathers(c, e)
  PROVE  Gathers(CollectError(c), e)
BY DEF CollectError, Gathers

\* What a party gathers is whole: one that e left out hears of nobody, and there
\* is somebody to hear of.
LEMMA GatheredWhole ==
  ASSUME Shapes, NEW n \in Parties, NEW e \in Executions, WorksFor(n, e),
         execute[e].peers \subseteq Parties, execute[e].peers # {},
         worker[n].at = "gathering", Cardinality(DOMAIN inbox[n]) >= Cardinality(worker[n].peers)
  PROVE  Whole(n, e, {<<n, worker[n].task>>} \union {<<m, inbox[n][m]>> : m \in DOMAIN inbox[n]})
<1> DEFINE heard == DOMAIN inbox[n]
           share == {<<n, worker[n].task>>} \union {<<m, inbox[n][m]>> : m \in heard}
<1>1. /\ operation = "comparison" /\ worker[n].task = e /\ worker[n].peers = execute[e].peers \ {n}
      /\ heard \subseteq Parties \ {n} /\ \A m \in heard : inbox[n][m] = e /\ n \in execute[e].peers
  BY DEF WorksFor
<1>2. n \in execute[e].peers
  <2> SUFFICES ASSUME n \notin execute[e].peers PROVE FALSE
    OBVIOUS
  <2>1. heard = {} /\ worker[n].peers = execute[e].peers
    BY <1>1
  <2>2. IsFiniteSet(execute[e].peers) /\ Cardinality(execute[e].peers) \in Nat
    BY FS_Subset, FS_CardinalityType, MpcAssumption
  <2>3. Cardinality(execute[e].peers) = 0
    BY <2>1, <2>2, FS_EmptySet
  <2> QED BY <2>2, <2>3, FS_EmptySet
<1>3. ASSUME execute[e].peers = Parties PROVE share = Parties \X {e}
  <2>1. IsFiniteSet(Parties \ {n})
    BY FS_Subset, MpcAssumption
  <2>2. heard = Parties \ {n}
    BY <1>1, <1>3, <2>1, NoSmaller
  <2>3. share = {<<n, e>>} \union {<<m, e>> : m \in Parties \ {n}}
    BY <1>1, <2>2
  <2> QED BY <2>3
<1> QED BY <1>1, <1>2, <1>3 DEF Whole

LEMMA SameServes ==
  ASSUME NEW e \in Executions, Serves(e), UNCHANGED <<operation, worker, inbox, collectors>>,
         execute'[e].peers = execute[e].peers,
         tasksMap' \in {0, tasksMap}, collectorMap' \in {0, collectorMap}
  PROVE  Serves(e)'
BY DEF Serves, WorksFor, Gathers, Whole
-----------------------------------------------------------------------------
\* A step of the worker of a party for the call it works for.
LEMMA WorkerServes ==
  ASSUME SessionInv, Shapes, NEW e \in Executions, Serves(e), execute[e].peers # {}, WorkerMoves
  PROVE  Serves(e)'
<1>0. UNCHANGED <<operation, execute>> /\ execute[e].peers \subseteq Parties
  BY WorkersAside DEF SessionInv, ExecuteType
<1>s. \A n \in Parties : WorksFor(n, e)
  BY DEF Serves
<1>g. Gathers(collectors[e], e)
  BY DEF Serves
<1>1. ASSUME NEW n \in Parties, RegisterRow(n) \/ RegisterCount(n) \/ GatherTimeout(n)
      PROVE  Serves(e)'
  <2>1. /\ UNCHANGED <<tasksMap, collectorMap, collectors, inbox>>
        /\ \A m \in Parties \ {n} : worker'[m] = worker[m]
        /\ worker'[n].at \in {"counting", "early", "last", "broken"}
    BY <1>1 DEF RegisterRow, RegisterCount, GatherTimeout, sessMaps, Shapes
  <2>2. \A m \in Parties : WorksFor(m, e)'
    BY <1>0, <1>s, <2>1 DEF WorksFor, Whole
  <2>3. Gathers(collectors[e], e)'
    BY <1>0, <1>g, <2>1 DEF Gathers, Whole
  <2> QED BY <2>1, <2>2, <2>3 DEF Serves
<1>2. ASSUME NEW n \in Parties, FetchTask(n)
      PROVE  Serves(e)'
  <2>1. tasksMap = e /\ UNCHANGED <<tasksMap, collectorMap, collectors, inbox>>
    BY <1>2 DEF FetchTask, Serves, sessMaps
  <2>2. /\ \A m \in Parties \ {n} : worker'[m] = worker[m]
        /\ worker'[n] = IF operation = "sum"
                          THEN [Idle(n) EXCEPT !.at = "computed", !.share = {<<n, e>>}]
                          ELSE [Idle(n) EXCEPT !.at = "working", !.task = e, !.peers = execute[e].peers \ {n}]
    BY <1>2, <2>1 DEF FetchTask, Shapes, AddShares
  <2>3. \/ operation = "sum" /\ worker'[n].at = "computed" /\ worker'[n].share = {<<n, e>>}
        \/ /\ operation = "comparison" /\ worker'[n].at = "working" /\ worker'[n].task = e
           /\ worker'[n].peers = execute[e].peers \ {n}
    BY <2>2 DEF Idle, Shapes
  <2>4. WorksFor(n, e)'
    BY <1>0, <1>s, <2>1, <2>3 DEF WorksFor, Whole
  <2>5. \A m \in Parties \ {n} : WorksFor(m, e)'
    BY <1>0, <1>s, <2>1, <2>2 DEF WorksFor, Whole
  <2>6. Gathers(collectors[e], e)'
    BY <1>0, <1>g, <2>1 DEF Gathers, Whole
  <2> QED BY <2>1, <2>4, <2>5, <2>6 DEF Serves
<1>3. ASSUME NEW n \in Parties, BroadcastShare(n)
      PROVE  Serves(e)'
  <2>0. worker[n].at = "working" /\ UNCHANGED <<tasksMap, collectorMap, collectors>>
    BY <1>3 DEF BroadcastShare, sessMaps
  <2>1. worker[n].task = e /\ worker[n].peers = execute[e].peers \ {n} /\ operation = "comparison"
    BY <1>s, <2>0 DEF WorksFor
  <2>2. PICK reached \in SUBSET worker[n].peers :
          /\ inbox' = [m \in Parties |-> IF m \in reached THEN With(inbox[m], n, e) ELSE inbox[m]]
          /\ worker' = [worker EXCEPT ![n].at = IF reached = worker[n].peers THEN "gathering" ELSE "broken"]
    BY <1>3, <2>1 DEF BroadcastShare
  <2>3. /\ \A m \in Parties \ {n} : worker'[m] = worker[m]
        /\ worker'[n].at \in {"gathering", "broken"}
        /\ worker'[n].task = worker[n].task /\ worker'[n].peers = worker[n].peers
    BY <2>2 DEF Shapes
  <2>4. ASSUME NEW m \in Parties
        PROVE  /\ DOMAIN inbox'[m] \subseteq Parties \ {m}
               /\ \A k \in DOMAIN inbox'[m] : inbox'[m][k] = e /\ m \in execute[e].peers
    <3>1. CASE m \in reached
      <4>1. m # n /\ m \in execute[e].peers /\ inbox'[m] = With(inbox[m], n, e)
        BY <2>1, <2>2, <3>1
      <4>2. /\ DOMAIN inbox'[m] = DOMAIN inbox[m] \union {n}
            /\ \A k \in DOMAIN inbox'[m] : inbox'[m][k] = IF k = n THEN e ELSE inbox[m][k]
        BY <4>1 DEF With
      <4> QED BY <4>1, <4>2, <1>s DEF WorksFor
    <3>2. CASE m \notin reached
      BY <2>2, <3>2, <1>s DEF WorksFor
    <3> QED BY <3>1, <3>2
  <2>5. ASSUME NEW m \in Parties PROVE WorksFor(m, e)'
    BY <1>0, <1>s, <2>1, <2>3, <2>4 DEF WorksFor, Whole
  <2>6. Gathers(collectors[e], e)'
    BY <1>0, <1>g, <2>0 DEF Gathers, Whole
  <2> QED BY <2>0, <2>5, <2>6 DEF Serves
<1>4. ASSUME NEW n \in Parties, GatherShares(n)
      PROVE  Serves(e)'
  <2> DEFINE share == {<<n, worker[n].task>>} \union {<<m, inbox[n][m]>> : m \in DOMAIN inbox[n]}
  <2>1. /\ worker[n].at = "gathering" /\ Cardinality(DOMAIN inbox[n]) >= Cardinality(worker[n].peers)
        /\ UNCHANGED <<tasksMap, collectorMap, collectors, inbox>>
    BY <1>4 DEF GatherShares, sessMaps
  <2>2. /\ \A m \in Parties \ {n} : worker'[m] = worker[m]
        /\ worker'[n].at = "computed" /\ worker'[n].share = share
    BY <1>4 DEF GatherShares, Shapes
  <2>3. Whole(n, e, share)
    BY <1>0, <1>s, <2>1, GatheredWhole
  <2> HIDE DEF share
  <2>4. \A m \in Parties : WorksFor(m, e)'
    BY <1>0, <1>s, <2>1, <2>2, <2>3 DEF WorksFor, Whole
  <2>5. Gathers(collectors[e], e)'
    BY <1>0, <1>g, <2>1 DEF Gathers, Whole
  <2> QED BY <2>1, <2>4, <2>5 DEF Serves
<1>5. ASSUME NEW n \in Parties, SubmitResult(n)
      PROVE  Serves(e)'
  <2>1. /\ worker[n].at \in {"computed", "broken"} /\ UNCHANGED <<tasksMap, collectorMap>>
        /\ collectors'[e] = IF e # collectorMap THEN collectors[e]
                            ELSE IF worker[n].at = "computed" THEN Collect(collectors[e], n, worker[n].share)
                                                              ELSE CollectError(collectors[e])
    BY <1>5 DEF SubmitResult
  <2>2. /\ \A m \in Parties \ {n} : worker'[m] = worker[m] /\ inbox'[m] = inbox[m]
        /\ worker'[n].at = "gone" /\ DOMAIN inbox'[n] = {}
    BY <1>5 DEF SubmitResult, Shapes, Idle
  <2>3. DOMAIN collectors[e] = {"shares", "failed", "closed"}
    BY DEF Shapes
  <2>4. ASSUME worker[n].at = "computed" PROVE Gathers(Collect(collectors[e], n, worker[n].share), e)
    BY <1>s, <1>g, <2>3, <2>4, CollectGathers DEF WorksFor
  <2>5. Gathers(CollectError(collectors[e]), e)
    BY <1>g, <2>3, ErrorGathers
  <2>6. Gathers(collectors'[e], e)
    BY <1>g, <2>1, <2>4, <2>5
  <2>7. Gathers(collectors[e], e)'
    BY <1>0, <2>6 DEF Gathers, Whole
  <2>8. \A m \in Parties : WorksFor(m, e)'
    BY <1>0, <1>s, <2>2 DEF WorksFor, Whole
  <2> QED BY <2>1, <2>7, <2>8 DEF Serves
<1>6. ASSUME NEW n \in Parties, WorkerRestart(n)
      PROVE  Serves(e)'
  <2>1. /\ UNCHANGED <<tasksMap, collectorMap, collectors>>
        /\ \A m \in Parties \ {n} : worker'[m] = worker[m] /\ inbox'[m] = inbox[m]
        /\ worker'[n].at = "start" /\ DOMAIN inbox'[n] = {}
    BY <1>6 DEF WorkerRestart, Shapes, Idle, sessMaps
  <2>2. \A m \in Parties : WorksFor(m, e)'
    BY <1>0, <1>s, <2>1 DEF WorksFor, Whole
  <2>3. Gathers(collectors[e], e)'
    BY <1>0, <1>g, <2>1 DEF Gathers, Whole
  <2> QED BY <2>1, <2>2, <2>3 DEF Serves
<1> QED BY <1>1, <1>2, <1>3, <1>4, <1>5, <1>6 DEF WorkerMoves

LEMMA OneDealingStep == HonestInv /\ [MpcNext]_mpcVars => OneDealing'
<1> SUFFICES ASSUME HonestInv, [MpcNext]_mpcVars, Clean', NEW e \in Executions, Live(e)'
             PROVE  Serves(e)'
  BY DEF OneDealing
<1> USE DEF HonestInv
<1>a. ASSUME Clean, Live(e) PROVE Serves(e)
  BY <1>a DEF OneDealing
<1>1. ASSUME NEW d \in Executions, ExecuteCheck(d) PROVE Serves(e)'
  <2>1. Clean /\ Live(e) /\ execute'[e] = execute[e]
    BY <1>1, CheckMoves DEF Moved, Live, Clean, history
  <2> QED BY <2>1, <1>a, <1>1, CheckMoves, SameServes DEF sessMaps
<1>2. ASSUME NEW d \in Executions, ExecutePublish(d) PROVE Serves(e)'
  <2>1. Clean /\ \A f \in Executions \ {d} : ~Given(f)
    BY <1>2, PublishMoves DEF Clean
  <2>2. e = d /\ sessStatus = "nodes_ready"
    BY <1>2, <2>1, PublishMoves DEF Moved, Live, Given
  <2>3. tasksMap = 0 /\ collectorMap = 0 /\ \A n \in Parties : Waiting(n)
    BY <1>2, <2>1, <2>2, PublishMoves DEF Undealt, Moved, Given
  <2>4. tasksMap' = e /\ collectorMap' = e /\ UNCHANGED <<worker, inbox>>
    BY <1>2, <2>2, PublishMoves
  <2>5. \A n \in Parties : WorksFor(n, e)'
    BY <2>3, <2>4 DEF WorksFor, Waiting
  <2>6. collectors'[e] = EmptyCollector
    BY <1>2, <2>2 DEF ExecutePublish, Shapes
  <2>7. Gathers(collectors[e], e)'
    BY <2>6 DEF Gathers, EmptyCollector
  <2> QED BY <2>4, <2>5, <2>7 DEF Serves
<1>3. ASSUME NEW d \in Executions, ExecuteStart(d) PROVE Serves(e)'
  <2>1. Clean /\ Live(e) /\ execute'[e].peers = execute[e].peers
    BY <1>3, StartMoves DEF Moved, Live, Clean, history
  <2> QED BY <2>1, <1>a, <1>3, StartMoves, SameServes DEF sessMaps
<1>4. ASSUME NEW d \in Executions, ExecuteTimeout(d) \/ ExecuteAbandoned(d) \/ ExecuteReported(d) PROVE Serves(e)'
  <2>1. Clean /\ Live(e) /\ execute'[e].peers = execute[e].peers
    BY <1>4, EndMoves DEF Moved, Live, Clean, history
  <2> QED BY <2>1, <1>a, <1>4, EndMoves, SameServes DEF sessMaps
<1>5. ASSUME NEW d \in Executions, ExecuteFinish(d) PROVE Serves(e)'
  <2>1. Clean /\ Live(e) /\ execute'[e].peers = execute[e].peers
    BY <1>5, FinishMoves DEF Moved, Live, Clean, history
  <2> QED BY <2>1, <1>a, <1>5, FinishMoves, SameServes
<1>6. CASE CoordinatorRestart
  BY <1>6, RestartMoves DEF Live, Given
<1>7. ASSUME NEW n \in Parties, RegisterPeer(n) PROVE Serves(e)'
  <2>1. Clean /\ Live(e) /\ UNCHANGED <<operation, execute>>
    BY <1>7, PeerMoves DEF Live, Clean, history, CheckedLate
  <2>2. Serves(e)
    BY <2>1, <1>a
  <2>3. /\ \A m \in Parties \ {n} : worker'[m] = worker[m]
        /\ worker'[n].at \in {"registered", "start"}
    BY <1>7 DEF RegisterPeer, Shapes
  <2>4. UNCHANGED <<tasksMap, collectorMap, collectors, inbox>>
    BY <1>7, PeerMoves
  <2>5. \A m \in Parties : WorksFor(m, e)'
    BY <2>1, <2>2, <2>3, <2>4 DEF Serves, WorksFor, Whole
  <2>6. Gathers(collectors[e], e)'
    BY <2>1, <2>2, <2>4 DEF Serves, Gathers, Whole
  <2> QED BY <2>2, <2>4, <2>5, <2>6 DEF Serves
<1>8. CASE CreateSession
  BY <1>8 DEF CreateSession, Live, CheckedLate, SessionInv, ComputingStarted, Computing
<1>9. CASE Cancel
  <2>1. /\ sessStatus' = "failed" /\ tasksMap' = 0 /\ collectorMap' = 0
        /\ UNCHANGED <<operation, worker, inbox, collectors, execute, overlapped, forgotten>>
    BY <1>9 DEF Cancel, history
  <2>2. Clean /\ Live(e)
    BY <2>1 DEF Clean, Live
  <2> QED BY <2>1, <2>2, <1>a, SameServes
<1>10. CASE UNCHANGED mpcVars
  <2>1. Clean /\ Live(e) /\ UNCHANGED <<operation, worker, inbox, collectors, execute, tasksMap, collectorMap>>
    BY <1>10 DEF mpcVars, Clean, Live
  <2> QED BY <2>1, <1>a, SameServes
<1>11. CASE WorkerMoves
  <2>1. Clean /\ Live(e)
    BY <1>11, WorkersAside DEF Clean, Live
  <2>2. execute[e].peers # {}
    BY <2>1 DEF SomePeer, Clean, Live
  <2> QED BY <2>1, <2>2, <1>a, <1>11, WorkerServes
<1> QED BY <1>1, <1>2, <1>3, <1>4, <1>5, <1>6, <1>7, <1>8, <1>9, <1>10, <1>11, Cases

\* The shares a call waited for recombine to its result.
LEMMA WholeRecombine ==
  ASSUME NEW e \in Executions, NEW c, Gathers(c, e), c.closed, ~c.failed,
         execute[e].peers \subseteq Parties
  PROVE  Recombined(c.shares) = e
<1> DEFINE Good(d) == \A n \in Parties :
             /\ n \in DOMAIN c.shares
             /\ c.shares[n] = IF operation = "sum" THEN {<<n, d>>} ELSE Parties \X {d}
<1>1. DOMAIN c.shares = Parties /\ \A n \in Parties : Whole(n, e, c.shares[n])
  BY DEF Gathers
<1>2. Good(e)
  BY <1>1 DEF Whole
<1>3. PICK n \in Parties : TRUE
  BY MpcAssumption, FS_EmptySet
<1>4. \A d \in Executions : Good(d) => d = e
  <2> SUFFICES ASSUME NEW d \in Executions, Good(d) PROVE d = e
    OBVIOUS
  <2>1. CASE operation = "sum"
    <3>1. {<<n, d>>} = {<<n, e>>}
      BY <1>2, <1>3, <2>1
    <3>2. <<n, d>> = <<n, e>>
      BY <3>1
    <3> QED BY <3>2
  <2>2. CASE operation # "sum"
    <3>1. Parties \X {d} = Parties \X {e}
      BY <1>2, <1>3, <2>2
    <3>2. <<n, d>> \in Parties \X {e}
      BY <3>1
    <3> QED BY <3>2
  <2> QED BY <2>1, <2>2
<1>5. Recombined(c.shares) = IF \E d \in Executions : Good(d) THEN CHOOSE d \in Executions : Good(d) ELSE Random
  BY DEF Recombined
<1> HIDE DEF Good
<1> QED BY <1>2, <1>4, <1>5

LEMMA AnsweredStep == HonestInv /\ [MpcNext]_mpcVars => Answered'
<1> SUFFICES ASSUME HonestInv, [MpcNext]_mpcVars, Clean', sessStatus' = "completed"
             PROVE  /\ sessResult' \in Executions
                    /\ execute'[sessResult'].at = "ok" /\ execute'[sessResult'].result = sessResult'
  BY DEF Answered
<1> USE DEF HonestInv
<1> DEFINE Answer == /\ sessResult \in Executions
                     /\ execute[sessResult].at = "ok" /\ execute[sessResult].result = sessResult
<1>a. ASSUME Clean, sessStatus = "completed"
      PROVE  /\ sessResult \in Executions
             /\ execute[sessResult].at = "ok" /\ execute[sessResult].result = sessResult
  BY <1>a DEF Answered
\* The call that completed the session and its answer are left alone.
<1>b. ASSUME Clean, sessStatus = "completed", sessResult' = sessResult,
             execute[sessResult].at = "ok" => execute'[sessResult] = execute[sessResult]
      PROVE  /\ sessResult' \in Executions
             /\ execute'[sessResult'].at = "ok" /\ execute'[sessResult'].result = sessResult'
  BY <1>a, <1>b
<1>1. ASSUME NEW e \in Executions, ExecuteCheck(e) PROVE Answer'
  BY <1>1, <1>a, <1>b, CheckMoves DEF Moved, Clean, history
<1>2. ASSUME NEW e \in Executions, ExecutePublish(e) PROVE Answer'
  BY <1>2, <1>a, <1>b, PublishMoves DEF Moved, Clean
<1>3. ASSUME NEW e \in Executions, ExecuteStart(e) PROVE Answer'
  BY <1>3, <1>a, <1>b, StartMoves DEF Moved, Clean, history
<1>4. ASSUME NEW e \in Executions, ExecuteTimeout(e) \/ ExecuteAbandoned(e) \/ ExecuteReported(e) PROVE Answer'
  BY <1>4, <1>a, <1>b, EndMoves DEF Moved, Clean, history
<1>5. ASSUME NEW e \in Executions, ExecuteFinish(e) PROVE Answer'
  <2>1. Clean /\ Live(e)
    BY <1>5, FinishMoves DEF Moved, Live, Clean, history
  <2>2. Gathers(collectors[e], e) /\ execute[e].peers \subseteq Parties
    BY <2>1 DEF OneDealing, Serves, SessionInv, ExecuteType
  <2>3. sessResult' = e
    BY <1>5, <2>2, FinishMoves, WholeRecombine
  <2> QED BY <1>5, <2>3, FinishMoves DEF Moved
<1>6. CASE CoordinatorRestart
  BY <1>6, <1>a, <1>b, RestartMoves DEF Clean
<1>7. ASSUME NEW n \in Parties, RegisterPeer(n) PROVE Answer'
  BY <1>7, <1>a, <1>b, PeerMoves DEF Clean, history
<1>8. CASE CreateSession \/ Cancel
  BY <1>8 DEF CreateSession, Cancel
<1>9. CASE WorkerMoves \/ UNCHANGED mpcVars
  BY <1>9, <1>a, <1>b, WorkersAside DEF Clean
<1> QED BY <1>1, <1>2, <1>3, <1>4, <1>5, <1>6, <1>7, <1>8, <1>9, Cases

LEMMA ResultInvariant == MpcSpec => []HonestInv
<1>1. HonestInv /\ [MpcNext]_mpcVars => HonestInv'
  BY SessionStep, ShapesStep, CheckedStep, AloneStep, SomePeerStep, UndealtStep, OneDealingStep, AnsweredStep
     DEF HonestInv
<1> QED BY <1>1, ResultInit, PTL DEF MpcSpec

\* A session that no two calls shared and that the coordinator did not forget
\* before it was computed completes with the result of the call that was
\* answered with it: every share that went into it is of that call's dealing and
\* has heard of every party (manager.go:189-281, worker.go, peer.go).
THEOREM ResultIsOneCalls == MpcSpec => []ResultHonest
<1>1. HonestInv => ResultHonest
  BY DEF HonestInv, Answered, ResultHonest, Clean
<1> QED BY <1>1, ResultInvariant, PTL

LEMMA TypesStart == MpcInit => MpcTypeOK
BY DEF MpcInit, MpcTypeOK

LEMMA TypesStep == SessionInv /\ MpcTypeOK /\ [MpcNext]_mpcVars => MpcTypeOK'
<1> SUFFICES ASSUME SessionInv, MpcTypeOK, [MpcNext]_mpcVars PROVE MpcTypeOK'
  OBVIOUS
<1> USE DEF MpcTypeOK, sessTables, sessMaps, history
<1>1. CASE CreateSession
  BY <1>1 DEF CreateSession
<1>2. CASE Cancel
  BY <1>2 DEF Cancel
<1>3. CASE CoordinatorRestart
  BY <1>3 DEF CoordinatorRestart
<1>4. ASSUME NEW e \in Executions,
             ExecuteCheck(e) \/ ExecutePublish(e) \/ ExecuteStart(e) \/ ExecuteTimeout(e) \/ ExecuteAbandoned(e)
             \/ ExecuteReported(e) \/ ExecuteFinish(e)
      PROVE  MpcTypeOK'
  <2>1. CASE ExecuteCheck(e)
    BY <2>1 DEF ExecuteCheck
  <2>2. CASE ExecutePublish(e)
    BY <2>2 DEF ExecutePublish
  <2>3. CASE ExecuteStart(e)
    BY <2>3 DEF ExecuteStart
  <2>4. CASE ExecuteTimeout(e) \/ ExecuteReported(e)
    BY <2>4 DEF ExecuteTimeout, ExecuteReported, ExecuteFails
  <2>5. CASE ExecuteAbandoned(e)
    BY <2>5 DEF ExecuteAbandoned
  <2>6. CASE ExecuteFinish(e)
    BY <2>6, RecombinedType DEF ExecuteFinish
  <2> QED BY <1>4, <2>1, <2>2, <2>3, <2>4, <2>5, <2>6
<1>5. ASSUME NEW n \in Parties, RegisterPeer(n) PROVE MpcTypeOK'
  BY <1>5 DEF RegisterPeer
<1>6. CASE WorkerMoves \/ UNCHANGED mpcVars
  <2>1. CASE \E n \in Parties : RegisterRow(n)
    BY <2>1 DEF RegisterRow
  <2>2. CASE \E n \in Parties : RegisterCount(n) \/ FetchTask(n)
    BY <2>2 DEF RegisterCount, FetchTask
  <2>3. CASE \E n \in Parties : BroadcastShare(n)
    BY <2>3 DEF BroadcastShare
  <2>4. CASE \E n \in Parties : GatherShares(n) \/ GatherTimeout(n) \/ SubmitResult(n)
    BY <2>4 DEF GatherShares, GatherTimeout, SubmitResult
  <2>5. CASE (\E n \in Parties : WorkerRestart(n)) \/ UNCHANGED mpcVars
    BY <2>5 DEF WorkerRestart, mpcVars
  <2> QED BY <1>6, <2>1, <2>2, <2>3, <2>4, <2>5 DEF WorkerMoves
<1> QED BY <1>1, <1>2, <1>3, <1>4, <1>5, <1>6, Cases

\* What the run checks of sessions: one call computes, what is given out is the
\* result of the call it was given out for, and the tables and the maps of the
\* coordinator only ever hold what they may (manager.go, worker.go, peer.go).
THEOREM SessionsHonest == MpcSpec => []ComputationHonest
<1>1. MpcSpec => []MpcTypeOK
  <2>1. SessionInv /\ MpcTypeOK /\ [MpcNext]_mpcVars => MpcTypeOK'
    BY TypesStep
  <2> QED BY <2>1, TypesStart, SessionInvariant, PTL DEF MpcSpec
<1>2. MpcTypeOK /\ ResultHonest /\ OneComputes => ComputationHonest
  BY DEF ComputationHonest
<1> QED BY <1>1, <1>2, OneCallComputes, ResultIsOneCalls, PTL
=============================================================================
