---------------------------- MODULE WalletAlerts ----------------------------
(***************************************************************************)
(* From a new score of a wallet to the browser: the notifier compares it   *)
(* with the last one it saw and publishes alerts in Redis, every API       *)
(* process reads the channel into the hub's queue, and the hub's loop      *)
(* hands every message to the clients that want it, through a bounded      *)
(* queue of each.  A full queue drops the message.  Messages are numbered. *)
(***************************************************************************)
EXTENDS Integers, Sequences

CONSTANTS Browsers,      \* the websocket clients
          Scores,        \* the scores of the wallet, numbers in 0 .. 100
          ScoreThreshold,
          HubQueue,      \* the capacity of Hub.broadcast
          ClientQueue,   \* the capacity of wsClient.send
          MaxUpdates     \* score updates

ASSUME AlertsAssumption ==
  /\ Scores \subseteq 0 .. 100 /\ ScoreThreshold \in 0 .. 100
  /\ HubQueue \in Nat \ {0} /\ ClientQueue \in Nat \ {0} /\ MaxUpdates \in Nat

VARIABLES
  previous,    \* Service.previous of the wallet; {} before the first update
  updates,     \* how many updates were handled: one that is marked after a session is none
  published,   \* the rules of the alerts published, in order
  broadcast,   \* Hub.broadcast
  registering, \* Hub.register and Hub.unregister, each in order
  leaving,
  clients,     \* Hub.clients
  conn,        \* the connection of every client
  allAlerts,   \* wsClient.allAlerts
  send,        \* wsClient.send and whether it is closed
  writeLoop,   \* its writeLoop runs
  received,    \* what the browser got
  overtaken    \* history: its unregistration was handled before its registration

alertsVars == <<previous, updates, published, broadcast, registering, leaving, clients, conn,
                allAlerts, send, writeLoop, received, overtaken>>

AlertsInit ==
  /\ previous = {} /\ updates = 0 /\ published = <<>> /\ broadcast = <<>>
  /\ registering = <<>> /\ leaving = <<>> /\ clients = {} /\ overtaken = {}
  /\ conn = [c \in Browsers |-> "none"] /\ allAlerts = [c \in Browsers |-> TRUE]
  /\ send = [c \in Browsers |-> [queue |-> <<>>, closed |-> FALSE]]
  /\ writeLoop = [c \in Browsers |-> FALSE] /\ received = [c \in Browsers |-> <<>>]

notifier == <<previous, updates, published>>
hub      == <<registering, leaving, clients, overtaken>>
browser  == <<conn, allAlerts, writeLoop, received>>
-----------------------------------------------------------------------------
(***************************************************************************)
(* The notifier.                                                           *)
(***************************************************************************)
CategoryOf(score) == IF score < 25 THEN "scam" ELSE IF score < 55 THEN "suspicious" ELSE "legit"

Before == IF previous = {} THEN 0 ELSE CHOOSE s \in previous : TRUE

\* The rules take a score of 0 for no score: without a previous one a low score
\* is a drop, and so it is after a score of 0.
DropBelowThreshold(next) == next < ScoreThreshold /\ (Before = 0 \/ Before >= ScoreThreshold)
CategoryFlip(next) == previous # {} /\ CategoryOf(Before) # CategoryOf(next)
SharpDrop(next)    == Before # 0 /\ Before - next >= 20

AlertsOf(next) ==
  (IF DropBelowThreshold(next) THEN <<"score_below_threshold">> ELSE <<>>)
    \o (IF CategoryFlip(next) THEN <<"category_flip">> ELSE <<>>)
    \o (IF SharpDrop(next) THEN <<"sharp_drop">> ELSE <<>>)

\* handle: swap, evaluate, publish.  What the hub's queue has no room for is
\* dropped by consumeRedis; the two are taken as one step.
HandleScore ==
  /\ updates < MaxUpdates /\ updates' = updates + 1
  /\ \E next \in Scores :
       LET alerts == AlertsOf(next)
           ids    == [i \in DOMAIN alerts |-> Len(published) + i]
           room   == HubQueue - Len(broadcast)
       IN  /\ previous' = {next}
           /\ published' = published \o alerts
           /\ broadcast' = broadcast \o SubSeq(ids, 1, IF room < Len(ids) THEN room ELSE Len(ids))
  /\ UNCHANGED <<hub, browser, send>>

\* Its map is in memory.
RestartNotifier == /\ previous # {} /\ previous' = {}
                   /\ UNCHANGED <<updates, published, broadcast, hub, browser, send>>
-----------------------------------------------------------------------------
(***************************************************************************)
(* A client: the handler of the upgrade and its two loops.                 *)
(***************************************************************************)
Connect(c) ==
  /\ conn[c] = "none"
  /\ conn' = [conn EXCEPT ![c] = "open"]
  /\ registering' = Append(registering, c)
  /\ writeLoop' = [writeLoop EXCEPT ![c] = TRUE]
  /\ UNCHANGED <<notifier, broadcast, leaving, clients, overtaken, allAlerts, send, received>>

\* readLoop ends with the connection, or when no pong came in time.
ReadLoopEnds(c) ==
  /\ conn[c] = "open"
  /\ conn' = [conn EXCEPT ![c] = "closed"]
  /\ leaving' = Append(leaving, c)
  /\ UNCHANGED <<notifier, broadcast, registering, clients, overtaken, allAlerts, send, writeLoop,
                 received>>

\* applyCommand with all and the alerts channel.
ApplyCommand(c) ==
  /\ conn[c] = "open"
  /\ allAlerts' = [allAlerts EXCEPT ![c] = ~@]
  /\ UNCHANGED <<notifier, broadcast, hub, conn, send, writeLoop, received>>

WriteMessage(c) ==
  /\ writeLoop[c] /\ send[c].queue # <<>>
  /\ send' = [send EXCEPT ![c].queue = Tail(@)]
  /\ IF conn[c] = "open"
       THEN /\ received' = [received EXCEPT ![c] = Append(@, Head(send[c].queue))]
            /\ UNCHANGED writeLoop
       ELSE writeLoop' = [writeLoop EXCEPT ![c] = FALSE] /\ UNCHANGED received
  /\ UNCHANGED <<notifier, broadcast, hub, conn, allAlerts>>

\* The queue was closed, or a ping or a message could not be written.
WriteLoopEnds(c) ==
  /\ writeLoop[c]
  /\ writeLoop' = [writeLoop EXCEPT ![c] = FALSE]
  /\ UNCHANGED <<notifier, broadcast, hub, conn, allAlerts, send, received>>
-----------------------------------------------------------------------------
(***************************************************************************)
(* The hub's loop, which takes any of its three channels that is ready.    *)
(***************************************************************************)
Entries(q) == {q[i] : i \in DOMAIN q}

HubRegister ==
  /\ registering # <<>>
  /\ clients' = clients \union {Head(registering)}
  /\ registering' = Tail(registering)
  /\ UNCHANGED <<notifier, broadcast, leaving, overtaken, browser, send>>

\* Mutant: the queue is closed and the client stays in the map.
HubUnregisterKeeps ==
  /\ leaving # <<>> /\ leaving' = Tail(leaving)
  /\ LET c == Head(leaving)
     IN  send' = IF c \in clients THEN [send EXCEPT ![c].closed = TRUE] ELSE send
  /\ UNCHANGED <<notifier, broadcast, registering, clients, overtaken, browser>>

HubUnregister ==
  /\ leaving # <<>> /\ leaving' = Tail(leaving)
  /\ LET c == Head(leaving)
     IN  /\ clients' = clients \ {c}
         /\ send' = IF c \in clients THEN [send EXCEPT ![c].closed = TRUE] ELSE send
         /\ overtaken' = IF c \in Entries(registering) THEN overtaken \union {c} ELSE overtaken
  /\ UNCHANGED <<notifier, broadcast, registering, browser>>

Wants(c) == allAlerts[c]

HubFanout ==
  /\ broadcast # <<>> /\ broadcast' = Tail(broadcast)
  /\ send' = [c \in Browsers |->
       IF c \in clients /\ Wants(c) /\ Len(send[c].queue) < ClientQueue
         THEN [send[c] EXCEPT !.queue = Append(@, Head(broadcast))] ELSE send[c]]
  /\ UNCHANGED <<notifier, hub, browser>>

AlertsNext ==
  \/ HandleScore \/ RestartNotifier \/ HubRegister \/ HubUnregister \/ HubFanout
  \/ \E c \in Browsers : \/ Connect(c) \/ ReadLoopEnds(c) \/ ApplyCommand(c)
                         \/ WriteMessage(c) \/ WriteLoopEnds(c)

AlertsSpec == AlertsInit /\ [][AlertsNext]_alertsVars
-----------------------------------------------------------------------------
AlertsTypeOK ==
  /\ updates \in 0 .. MaxUpdates /\ previous \subseteq Scores
  /\ Len(broadcast) <= HubQueue
  /\ \A c \in Browsers : Len(send[c].queue) <= ClientQueue

\* The hub never sends on a channel it closed, which would end the process.
NeverSendOnClosed == \A c \in clients : ~send[c].closed

\* A browser sees alerts in the order they were published and none twice,
\* whatever its queue and the hub's dropped, and whenever it registered.
AlertsInOrder ==
  \A c \in Browsers :
    LET seen == received[c] \o send[c].queue \o broadcast
    IN  \A i, j \in DOMAIN seen : i < j => seen[i] < seen[j]

\* A client that left is out of the map when the hub has handled its channels,
\* unless its two requests were both waiting and were taken in the wrong order:
\* then it stays there for good.
NoGhosts ==
  (registering = <<>> /\ leaving = <<>>) =>
    \A c \in clients : conn[c] = "open" \/ c \in overtaken

\* What the run checks of the alerts and the browsers' feeds (notifier/service.go,
\* api/websocket.go).
AlertsSound == AlertsTypeOK /\ NeverSendOnClosed /\ AlertsInOrder /\ NoGhosts
=============================================================================
