--------------------------- MODULE ProxyConnection ---------------------------
(***************************************************************************)
(* One connection of 09-load-balancer: the bytes between client and        *)
(* backend, moved by ProxyEngine's event loop (proxy_engine.cpp) through   *)
(* two bounded buffers (buffer.cpp).  The peers and the kernel's sockets   *)
(* are external: they send, finish, fail, and take bytes when they like.   *)
(* A byte is the number of bytes its sender had sent with it.              *)
(***************************************************************************)
EXTENDS Integers, Sequences, SequencesExt, FiniteSets

CONSTANTS
  Capacity,   \* bytes a buffer holds
  MaxSend     \* bound: bytes a side sends

ASSUME ProxyAssumption == Capacity \in Nat \ {0} /\ MaxSend \in Nat

Sides == {"client", "backend"}
Other(s) == IF s = "client" THEN "backend" ELSE "client"

VARIABLES
  state,      \* "open", "closed", or "undefined" after an event of a freed connection
  connected,  \* has the connect to the backend been completed
  sent,       \* bytes sent by each side
  wire,       \* received by the kernel from a side, not read yet
  fin,        \* sides that have finished sending
  failed,     \* sides whose socket has an error
  room,       \* does the socket towards a side accept bytes
  buffer,     \* read from a side, not passed on yet
  output,     \* bytes of a side passed on to the other
  armed,      \* sides whose descriptor is registered for EPOLLOUT
  batch       \* events of the last epoll_wait still to be handled

peerVars == <<connected, sent, wire, fin, failed, room>>
proxyVars == <<state, connected, sent, wire, fin, failed, room, buffer, output, armed, batch>>

\* establish_backend: both descriptors are registered for EPOLLIN; connect may
\* still be in progress.
Init ==
  /\ state = "open"
  /\ connected \in BOOLEAN
  /\ sent = [s \in Sides |-> 0]
  /\ wire = [s \in Sides |-> << >>]
  /\ fin = {} /\ failed = {}
  /\ room = [s \in Sides |-> TRUE]
  /\ buffer = [s \in Sides |-> << >>]
  /\ output = [s \in Sides |-> << >>]
  /\ armed = {}
  /\ batch = << >>

-----------------------------------------------------------------------------
(* The peers and the kernel.                                               *)

Alive(s) == state = "open" /\ s \notin failed /\ (s = "backend" => connected)

Connected ==
  /\ state = "open" /\ ~ connected /\ "backend" \notin failed
  /\ connected' = TRUE
  /\ UNCHANGED <<state, sent, wire, fin, failed, room, buffer, output, armed, batch>>

PeerSends(s) ==
  /\ Alive(s) /\ s \notin fin /\ sent[s] < MaxSend
  /\ sent' = [sent EXCEPT ![s] = @ + 1]
  /\ wire' = [wire EXCEPT ![s] = Append(@, sent[s] + 1)]
  /\ UNCHANGED <<state, connected, fin, failed, room, buffer, output, armed, batch>>

PeerFinishes(s) ==
  /\ Alive(s) /\ s \notin fin
  /\ fin' = fin \union {s}
  /\ UNCHANGED <<state, connected, sent, wire, failed, room, buffer, output, armed, batch>>

\* A reset, or a connect that fails.
PeerFails(s) ==
  /\ state = "open" /\ s \notin failed
  /\ failed' = failed \union {s}
  /\ UNCHANGED <<state, connected, sent, wire, fin, room, buffer, output, armed, batch>>

PeerReads(s) ==
  /\ Alive(s) /\ ~ room[s]
  /\ room' = [room EXCEPT ![s] = TRUE]
  /\ UNCHANGED <<state, connected, sent, wire, fin, failed, buffer, output, armed, batch>>

-----------------------------------------------------------------------------
(* The event loop.                                                         *)

Mask(s) ==
  [side |-> s,
   hup |-> s \in failed,
   in  |-> wire[s] # << >> \/ s \in fin,
   out |-> s \in armed /\ room[s] /\ (s = "backend" => connected)]

Ready == {s \in Sides : Mask(s).hup \/ Mask(s).in \/ Mask(s).out}

\* Epoll::wait reports every descriptor that is ready, in any order.
Wait ==
  /\ state = "open" /\ batch = << >> /\ Ready # {}
  /\ batch' \in {[i \in DOMAIN order |-> Mask(order[i])] : order \in SetToSeqs(Ready)}
  /\ UNCHANGED <<state, connected, sent, wire, fin, failed, room, buffer, output, armed>>

\* What the functions below work on.
Now == [wire |-> wire, buffer |-> buffer, output |-> output, room |-> room, ok |-> TRUE]

\* Mutant: bytes that do not fit push out the oldest ones.
WrittenOverOldest(b, bytes) ==
  LET all == b \o bytes IN
  IF Len(all) <= Capacity THEN all ELSE SubSeq(all, Len(all) - Capacity + 1, Len(all))

\* Mutant: the capacity is not looked at.
WrittenWhole(b, bytes) == b \o bytes

\* Buffer::write takes what fits; pump ignores how much that was.
Written(b, bytes) ==
  LET all == b \o bytes IN
  IF Len(all) <= Capacity THEN all ELSE SubSeq(all, 1, Capacity)

\* Mutant: the end of the stream closes the connection whatever is buffered.
DrainedAnyway(b) == TRUE

\* Mutant: the end of the stream is taken for a lack of bytes.
NeverDrained(b) == FALSE

\* At the end of the stream the connection closes once the buffer is empty.
Drained(b) == b = << >>

\* How many bytes send may take: none without room, and what it leaves means EAGAIN.
Accepted(st, to, n) ==
  IF (to = "backend" /\ ~ connected) \/ ~ st.room[to] THEN {0}
  ELSE IF n = 0 THEN {0} ELSE 1..n

\* Passing on k bytes of the buffer of a side; a send that stops short found no room.
Sent(st, from, k) ==
  LET b == st.buffer[from] IN
  { [st EXCEPT !.buffer[from] = SubSeq(b, k + 1, Len(b)),
               !.output[from] = @ \o SubSeq(b, 1, k),
               !.room[Other(from)] = r]
      : r \in IF k < Len(b) THEN {FALSE}
              ELSE IF st.room[Other(from)] /\ k > 0 THEN BOOLEAN
              ELSE {st.room[Other(from)]} }

\* pump: everything the kernel has is read, then sent until the peer takes no more.
Pump(st, from) ==
  LET read == [st EXCEPT !.buffer[from] = Written(@, st.wire[from]), !.wire[from] = << >>]
      b == read.buffer[from]
  IN IF \/ from \in failed                                      \* recv fails
        \/ from \in fin /\ Drained(b)                           \* recv returns 0
        \/ Other(from) \in failed /\ b # << >>                  \* send fails
     THEN { [read EXCEPT !.ok = FALSE] }
     ELSE UNION { Sent(read, from, k) : k \in Accepted(read, Other(from), Len(b)) }

\* on_event for a descriptor that is neither in error nor hung up.
Handled(ev) ==
  LET first == IF ev.in THEN Pump(Now, ev.side) ELSE {Now}
  IN UNION { IF st.ok /\ ev.out THEN Pump(st, Other(ev.side)) ELSE {st} : st \in first }

\* Mutant: only the side of the event is looked at.
ArmedForOneSide(st, s) == IF st.buffer[s] # << >> THEN {Other(s)} ELSE {}

\* update_epoll: a descriptor waits for room while bytes for it are buffered.
ArmedFor(st, s) == {r \in Sides : st.buffer[Other(r)] # << >>}

\* on_event: an error or a pump that gives up closes the connection.
HandleEvent ==
  /\ state = "open" /\ batch # << >>
  /\ batch' = Tail(batch)
  /\ LET ev == Head(batch) IN
     \E st \in IF ev.hup THEN { [Now EXCEPT !.ok = FALSE] } ELSE Handled(ev) :
       IF st.ok
       THEN /\ wire' = st.wire /\ buffer' = st.buffer /\ output' = st.output /\ room' = st.room
            /\ armed' = ArmedFor(st, ev.side)
            /\ state' = state
       ELSE /\ state' = "closed"
            /\ output' = st.output /\ room' = st.room
            /\ wire' = [s \in Sides |-> << >>] /\ buffer' = [s \in Sides |-> << >>]
            /\ armed' = {}
  /\ UNCHANGED <<connected, sent, fin, failed>>

\* run_once goes on with the batch although close_connection has freed the
\* references its events carry: what happens then is undefined.
HandleStaleEvent ==
  /\ state = "closed" /\ batch # << >>
  /\ state' = "undefined"
  /\ batch' = << >>
  /\ UNCHANGED <<connected, sent, wire, fin, failed, room, buffer, output, armed>>

Next ==
  \/ Connected
  \/ \E s \in Sides : PeerSends(s) \/ PeerFinishes(s) \/ PeerFails(s) \/ PeerReads(s)
  \/ Wait
  \/ HandleEvent
  \/ HandleStaleEvent

Spec == Init /\ [][Next]_proxyVars

\* The event loop keeps running, and the peers keep taking bytes (of the backend:
\* once the connect is done, which it is in the end unless it fails).
Fairness ==
  /\ WF_proxyVars(Wait) /\ WF_proxyVars(HandleEvent)
  /\ WF_proxyVars(Connected)
  /\ \A s \in Sides : WF_proxyVars(PeerReads(s))

FairSpec == Spec /\ Fairness

-----------------------------------------------------------------------------
Increasing(q) == \A i, j \in DOMAIN q : i < j => q[i] < q[j]

\* The state is well formed; in particular a buffer never exceeds its capacity and
\* the bytes of a side are in order on their whole way (Buffer, pump).
TypeOK ==
  /\ state \in {"open", "closed", "undefined"} /\ connected \in BOOLEAN
  /\ fin \subseteq Sides /\ failed \subseteq Sides /\ armed \subseteq Sides
  /\ room \in [Sides -> BOOLEAN] /\ sent \in [Sides -> 0..MaxSend]
  /\ \A s \in Sides :
       /\ Len(buffer[s]) <= Capacity
       /\ Increasing(output[s] \o buffer[s] \o wire[s])
       /\ Range(output[s] \o buffer[s] \o wire[s]) \subseteq 1..sent[s]

\* Bytes left over by a send wait for room: the descriptor they go to is registered
\* for EPOLLOUT, for otherwise nothing would ever send them (update_epoll).
FlushArmed ==
  state = "open" => \A s \in Sides : buffer[s] # << >> => Other(s) \in armed

\* Bytes the proxy has read are passed on, unless the connection breaks or the
\* other side finishes first (on_event, pump, update_epoll).
BytesForwarded ==
  \A s \in Sides : buffer[s] # << >> ~> buffer[s] = << >>

\* A side that has finished ends the connection: no descriptor is kept for a
\* stream that is over (pump, close_connection).
FinishedIsClosed ==
  \A s \in Sides : s \in fin ~> state # "open"

\* The connection is the pair of queues of ByteChannel.
Channel == INSTANCE ByteChannel WITH
  queue <- [s \in Sides |-> buffer[s] \o wire[s]],
  finished <- fin, broken <- failed, ended <- state # "open"
BytesKept == Channel!Spec
=============================================================================
