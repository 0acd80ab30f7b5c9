----------------------------- MODULE ProxyProofs ------------------------------
(***************************************************************************)
(* The proxied connection of 09-load-balancer, for buffers of any size and *)
(* any number of bytes: the bytes of a stream stay in order, what waits    *)
(* for room is registered for EPOLLOUT, and the connection is a pair of    *)
(* queues that lose bytes only beyond a buffer's capacity or at the end.   *)
(***************************************************************************)
EXTENDS ProxyConnection, SequenceTheorems, FiniteSetTheorems, TLAPS

Bytes == Seq(Nat)

Event == [side : Sides, hup : BOOLEAN, in : BOOLEAN, out : BOOLEAN]

\* Types, and what a reported hang-up means: an event says EPOLLHUP or EPOLLERR only of a
\* side that has failed, and a side that has failed stays so.
ProxyInv ==
  /\ state \in {"open", "closed", "undefined"}
  /\ sent \in [Sides -> Nat]
  /\ wire \in [Sides -> Bytes] /\ buffer \in [Sides -> Bytes] /\ output \in [Sides -> Bytes]
  /\ room \in [Sides -> BOOLEAN]
  /\ fin \subseteq Sides /\ failed \subseteq Sides
  /\ batch \in Seq(Event)
  /\ \A i \in DOMAIN batch : batch[i].hup => batch[i].side \in failed

\* What pump works on.
Streams == [wire : [Sides -> Bytes], buffer : [Sides -> Bytes], output : [Sides -> Bytes],
            room : [Sides -> BOOLEAN], ok : BOOLEAN]

-----------------------------------------------------------------------------
(* Sequences.                                                              *)

LEMMA SplitTyped ==
  ASSUME NEW q \in Bytes, NEW k \in 0..Len(q)
  PROVE  /\ SubSeq(q, 1, k) \in Bytes /\ SubSeq(q, k + 1, Len(q)) \in Bytes
         /\ Len(SubSeq(q, 1, k)) = k
  BY DEF Bytes

\* Taking nothing off a queue.
LEMMA NothingTaken ==
  ASSUME NEW q \in Bytes, NEW o \in Bytes
  PROVE  /\ o \o SubSeq(q, 1, 0) = o
         /\ SubSeq(q, 0 + 1, Len(q)) = q
<1>1. SubSeq(q, 1, 0) = << >>
  BY SubSeqEmpty
<1> QED
  BY <1>1, ConcatEmptySeq, SubSeqFull DEF Bytes

LEMMA WrittenKept ==
  ASSUME NEW b \in Bytes, NEW w \in Bytes
  PROVE  /\ Written(b, w) \in Bytes
         /\ Written(b, w) \in Channel!Kept(b \o w)
         /\ Len(Written(b, w)) <= Len(b \o w)
         /\ Written(b, w) = << >> => b \o w = << >>
<1> DEFINE all == b \o w
<1>1. all \in Bytes
  BY ConcatProperties DEF Bytes
<1>2. CASE Len(all) <= Capacity
  BY <1>1, <1>2 DEF Written, Channel!Kept
<1>3. CASE ~ (Len(all) <= Capacity)
  <2>1. /\ Capacity \in Nat \ {0} /\ Capacity \in 0..Len(all) /\ ~ (Len(all) < Capacity)
        /\ Written(b, w) = SubSeq(all, 1, Capacity)
    BY <1>1, <1>3, ProxyAssumption DEF Written, Bytes
  <2>2. Written(b, w) \in Bytes /\ Len(Written(b, w)) = Capacity
    BY <1>1, <2>1, SplitTyped
  <2>3. Written(b, w) \in Channel!Kept(all)
    BY <2>1 DEF Channel!Kept
  <2> HIDE DEF all
  <2>4. Len(Written(b, w)) <= Len(all) /\ Len(Written(b, w)) # 0
    BY <2>1, <2>2
  <2>5. Written(b, w) # << >>
    BY <2>4
  <2> QED
    BY <2>2, <2>3, <2>4, <2>5 DEF all
<1> QED
  BY <1>2, <1>3

-----------------------------------------------------------------------------
(* One side of a step: its queue, and what has become of it.               *)

QueueOf(s) == buffer[s] \o wire[s]

Untouched(st, s) == st.buffer[s] = buffer[s] /\ st.wire[s] = wire[s] /\ st.output[s] = output[s]

\* Some of the queue was dropped beyond the capacity, some of the rest delivered.
Delivered(st, s) ==
  \E q \in Channel!Kept(QueueOf(s)), k \in 0..Len(QueueOf(s)) :
    /\ k <= Len(q)
    /\ st.output[s] = output[s] \o SubSeq(q, 1, k)
    /\ st.buffer[s] \o st.wire[s] = SubSeq(q, k + 1, Len(q))

LEMMA UntouchedDelivered ==
  ASSUME ProxyInv, NEW s \in Sides, NEW st, Untouched(st, s)
  PROVE  Delivered(st, s)
<1>1. QueueOf(s) \in Bytes /\ output[s] \in Bytes
  BY ConcatProperties DEF ProxyInv, QueueOf, Bytes
<1>2. QueueOf(s) \in Channel!Kept(QueueOf(s)) /\ 0 \in 0..Len(QueueOf(s))
  BY <1>1 DEF Channel!Kept, Bytes
<1>3. /\ output[s] \o SubSeq(QueueOf(s), 1, 0) = output[s]
      /\ SubSeq(QueueOf(s), 0 + 1, Len(QueueOf(s))) = QueueOf(s)
  BY <1>1, NothingTaken
<1>4. /\ st.output[s] = output[s] \o SubSeq(QueueOf(s), 1, 0)
      /\ st.buffer[s] \o st.wire[s] = SubSeq(QueueOf(s), 0 + 1, Len(QueueOf(s)))
      /\ 0 <= Len(QueueOf(s))
  <2>1. Len(QueueOf(s)) \in Nat
    BY <1>1 DEF Bytes
  <2>2. st.output[s] = output[s] /\ st.buffer[s] \o st.wire[s] = QueueOf(s)
    BY DEF Untouched, QueueOf
  <2> QED
    BY <1>3, <2>1, <2>2
<1> QED
  BY <1>2, <1>4 DEF Delivered

\* Why pump may give up.
MayEnd(from) ==
  failed # {} \/ (from \in fin /\ QueueOf(from) = << >>)

\* A pump of a side that was not touched yet delivers some of its bytes, or gives up
\* with a reason and delivers none.
LEMMA PumpEffect ==
  ASSUME ProxyInv, NEW from \in Sides, NEW st0 \in Streams, st0.ok, Untouched(st0, from),
         NEW st \in Pump(st0, from)
  PROVE  /\ st \in Streams
         /\ \A s \in Sides \ {from} :
              st.buffer[s] = st0.buffer[s] /\ st.wire[s] = st0.wire[s] /\ st.output[s] = st0.output[s]
         /\ st.ok => Delivered(st, from)
         /\ ~ st.ok => MayEnd(from) /\ st.output[from] = output[from]
<1> DEFINE b == Written(st0.buffer[from], st0.wire[from])
           read == [st0 EXCEPT !.buffer[from] = b, !.wire[from] = << >>]
<1>1. /\ buffer[from] \in Bytes /\ wire[from] \in Bytes /\ output[from] \in Bytes
      /\ b \in Bytes /\ b \in Channel!Kept(QueueOf(from)) /\ Len(b) <= Len(QueueOf(from))
      /\ b = << >> => QueueOf(from) = << >>
  BY WrittenKept DEF ProxyInv, Untouched, QueueOf
<1> HIDE DEF b
<1>2. /\ read \in Streams /\ read.ok
      /\ read.buffer[from] = b /\ read.wire[from] = << >> /\ read.output[from] = output[from]
      /\ \A s \in Sides \ {from} : read.buffer[s] = st0.buffer[s] /\ read.wire[s] = st0.wire[s]
      /\ read.output = st0.output
  <2>1. << >> \in Bytes
    BY DEF Bytes
  <2>2. /\ read.buffer = [st0.buffer EXCEPT ![from] = b] /\ read.wire = [st0.wire EXCEPT ![from] = << >>]
        /\ read.output = st0.output /\ read.room = st0.room /\ read.ok = st0.ok
    BY DEF Streams
  <2>3. read.buffer \in [Sides -> Bytes] /\ read.wire \in [Sides -> Bytes]
    BY <1>1, <2>1, <2>2 DEF Streams
  <2>4. read \in Streams
    BY <2>2, <2>3 DEF Streams
  <2> HIDE DEF read
  <2> QED
    BY <1>1, <2>2, <2>3, <2>4 DEF Streams, Untouched
<1> HIDE DEF read
<1>3. CASE st = [read EXCEPT !.ok = FALSE] /\ (from \in failed \/ (from \in fin /\ Drained(b)) \/ Other(from) \in failed)
  BY <1>1, <1>2, <1>3 DEF Streams, MayEnd, Drained
<1>4. CASE \E k \in Accepted(read, Other(from), Len(b)) : st \in Sent(read, from, k)
  <2>0. Len(b) \in Nat
    BY <1>1 DEF Bytes
  <2>1. PICK k \in 0..Len(b) : st \in Sent(read, from, k)
    BY <1>4, <2>0 DEF Accepted
  <2>2. SubSeq(b, 1, k) \in Bytes /\ SubSeq(b, k + 1, Len(b)) \in Bytes
    BY <1>1, <2>1, SplitTyped
  <2>3. PICK r \in BOOLEAN :
          st = [read EXCEPT !.buffer[from] = SubSeq(b, k + 1, Len(b)),
                            !.output[from] = @ \o SubSeq(b, 1, k),
                            !.room[Other(from)] = r]
    <3>1. Other(from) \in Sides
      BY DEF Other, Sides
    <3>2. read.room[Other(from)] \in BOOLEAN
      BY <1>2, <3>1 DEF Streams
    <3> DEFINE c == read.buffer[from]
    <3>3. PICK r \in IF k < Len(c) THEN {FALSE}
                     ELSE IF read.room[Other(from)] /\ k > 0 THEN BOOLEAN
                     ELSE {read.room[Other(from)]} :
            st = [read EXCEPT !.buffer[from] = SubSeq(c, k + 1, Len(c)),
                              !.output[from] = @ \o SubSeq(c, 1, k),
                              !.room[Other(from)] = r]
      BY <2>1 DEF Sent
    <3>4. r \in BOOLEAN
      BY <3>2, <3>3
    <3>5. c = b
      BY <1>2
    <3> QED
      BY <3>3, <3>4, <3>5
  <2>4. read.output[from] \o SubSeq(b, 1, k) \in Bytes
    BY <1>1, <1>2, <2>2, ConcatProperties DEF Bytes
  <2>5. /\ st \in Streams /\ st.ok
        /\ st.buffer[from] = SubSeq(b, k + 1, Len(b)) /\ st.wire[from] = << >>
        /\ st.output[from] = output[from] \o SubSeq(b, 1, k)
        /\ \A s \in Sides \ {from} : st.buffer[s] = st0.buffer[s] /\ st.wire[s] = st0.wire[s] /\ st.output[s] = st0.output[s]
    BY <1>2, <2>2, <2>3, <2>4 DEF Streams
  <2>6. st.buffer[from] \o st.wire[from] = SubSeq(b, k + 1, Len(b))
    BY <2>2, <2>5, ConcatEmptySeq DEF Bytes
  <2>7. k \in 0..Len(QueueOf(from)) /\ k <= Len(b)
    <3>1. Len(QueueOf(from)) \in Nat
      <4>1. QueueOf(from) \in Bytes
        BY <1>1, ConcatProperties DEF QueueOf, Bytes
      <4> QED
        BY <4>1 DEF Bytes
    <3> QED
      BY <1>1, <2>0, <2>1, <3>1
  <2>8. Delivered(st, from)
    BY <1>1, <2>5, <2>6, <2>7 DEF Delivered
  <2> QED
    BY <2>5, <2>8
<1> QED
  BY <1>2, <1>3, <1>4 DEF Pump, b, read

-----------------------------------------------------------------------------
(* A whole event.                                                          *)

\* Of a side the connection ends with, some bytes may still have been delivered.
Partly(st, s) ==
  \E q \in Channel!Kept(QueueOf(s)), k \in 0..Len(QueueOf(s)) :
    k <= Len(q) /\ st.output[s] = output[s] \o SubSeq(q, 1, k)

MayEndWith(st) ==
  \/ failed # {} /\ \A s \in Sides : Partly(st, s)
  \/ \E s \in fin :
       /\ QueueOf(s) = << >> /\ st.output[s] = output[s]
       /\ \A r \in Sides \ {s} : Partly(st, r)

LEMMA DeliveredPartly ==
  ASSUME NEW s, NEW st, Delivered(st, s)
  PROVE  Partly(st, s)
  BY DEF Delivered, Partly

LEMMA UnsentPartly ==
  ASSUME ProxyInv, NEW s \in Sides, NEW st, st.output[s] = output[s]
  PROVE  Partly(st, s)
<1>1. QueueOf(s) \in Bytes /\ output[s] \in Bytes
  BY ConcatProperties DEF ProxyInv, QueueOf, Bytes
<1>2. QueueOf(s) \in Channel!Kept(QueueOf(s)) /\ 0 \in 0..Len(QueueOf(s))
  BY <1>1 DEF Channel!Kept, Bytes
<1>3. st.output[s] = output[s] \o SubSeq(QueueOf(s), 1, 0)
  BY <1>1, NothingTaken
<1>4. 0 <= Len(QueueOf(s))
  BY <1>1, LenProperties DEF Bytes
<1> QED
  BY <1>2, <1>3, <1>4 DEF Partly

LEMMA NowStreams ==
  ASSUME ProxyInv
  PROVE  Now \in Streams /\ Now.ok /\ \A s \in Sides : Untouched(Now, s)
  BY DEF ProxyInv, Now, Streams, Untouched

LEMMA HandledEffect ==
  ASSUME ProxyInv, NEW ev \in Event, NEW st \in Handled(ev)
  PROVE  /\ st \in Streams
         /\ st.ok => \A s \in Sides : Delivered(st, s)
         /\ ~ st.ok => MayEndWith(st)
<1> DEFINE side == ev.side
           other == Other(ev.side)
<1>0. side \in Sides /\ other \in Sides /\ other # side /\ Sides = {side, other} /\ fin \subseteq Sides
  BY DEF Event, Other, Sides, ProxyInv
<1> HIDE DEF side, other
<1>1. PICK first \in (IF ev.in THEN Pump(Now, side) ELSE {Now}) :
        st \in (IF first.ok /\ ev.out THEN Pump(first, other) ELSE {first})
  BY DEF Handled, side, other
<1>2. /\ first \in Streams /\ Untouched(first, other)
      /\ first.ok => Delivered(first, side)
      /\ ~ first.ok => MayEnd(side) /\ first.output[side] = output[side]
  <2>1. CASE first = Now
    BY <1>0, <2>1, NowStreams, UntouchedDelivered
  <2>2. CASE first \in Pump(Now, side)
    <3>1. Now \in Streams /\ Now.ok /\ Untouched(Now, side) /\ Untouched(Now, other)
      BY <1>0, NowStreams
    <3>2. /\ first \in Streams
          /\ first.buffer[other] = Now.buffer[other] /\ first.wire[other] = Now.wire[other]
          /\ first.output[other] = Now.output[other]
          /\ first.ok => Delivered(first, side)
          /\ ~ first.ok => MayEnd(side) /\ first.output[side] = output[side]
      BY <1>0, <2>2, <3>1, PumpEffect
    <3> QED
      BY <3>1, <3>2 DEF Untouched
  <2> QED
    BY <1>1, <2>1, <2>2
<1>3. CASE st = first
  <2>1. CASE first.ok
    BY <1>0, <1>2, <1>3, <2>1, UntouchedDelivered
  <2>2. CASE ~ first.ok
    <3>1. Partly(first, side) /\ Partly(first, other)
      BY <1>0, <1>2, <2>2, UnsentPartly DEF Untouched
    <3> QED
      BY <1>0, <1>2, <1>3, <2>2, <3>1 DEF MayEnd, MayEndWith
  <2> QED
    BY <1>2, <1>3, <2>1, <2>2
<1>4. CASE first.ok /\ st \in Pump(first, other)
  <2>1. /\ st \in Streams
        /\ st.buffer[side] = first.buffer[side] /\ st.wire[side] = first.wire[side]
        /\ st.output[side] = first.output[side]
        /\ st.ok => Delivered(st, other)
        /\ ~ st.ok => MayEnd(other) /\ st.output[other] = output[other]
    BY <1>0, <1>2, <1>4, PumpEffect
  <2>2. Delivered(st, side)
    BY <1>2, <1>4, <2>1 DEF Delivered
  <2>3. CASE ~ st.ok
    <3>1. Partly(st, side) /\ Partly(st, other)
      BY <1>0, <2>1, <2>2, <2>3, DeliveredPartly, UnsentPartly
    <3> QED
      BY <1>0, <2>1, <2>3, <3>1 DEF MayEnd, MayEndWith
  <2>4. CASE st.ok
    BY <1>0, <2>1, <2>2, <2>4
  <2> QED
    BY <2>1, <2>3, <2>4
<1> QED
  BY <1>1, <1>3, <1>4

\* What HandleEvent does, said of the queues.
LEMMA EventEffect ==
  ASSUME ProxyInv, HandleEvent
  PROVE  /\ state = "open" /\ batch' = Tail(batch) /\ UNCHANGED <<connected, sent, fin, failed>>
         /\ \E st \in Streams :
              /\ output' = st.output /\ room' = st.room
              /\ \/ /\ state' = "open" /\ wire' = st.wire /\ buffer' = st.buffer
                    /\ armed' = ArmedFor(st, Head(batch).side)
                    /\ \A s \in Sides : Delivered(st, s)
                 \/ /\ state' = "closed"
                    /\ wire' = [s \in Sides |-> << >>] /\ buffer' = [s \in Sides |-> << >>]
                    /\ MayEndWith(st)
<1> DEFINE ev == Head(batch)
<1>1. ev \in Event /\ (ev.hup => failed # {})
  <2>1. batch \in Seq(Event) /\ batch # << >> /\ 1 \in DOMAIN batch /\ ev = batch[1]
    BY DEF ProxyInv, HandleEvent
  <2>2. batch[1].hup => batch[1].side \in failed
    BY <2>1 DEF ProxyInv
  <2>3. batch[1] \in Event
    BY <2>1, ElementOfSeq
  <2> HIDE DEF ev
  <2> QED
    BY <2>1, <2>2, <2>3
<1> HIDE DEF ev
<1>2. PICK st \in IF ev.hup THEN { [Now EXCEPT !.ok = FALSE] } ELSE Handled(ev) :
        /\ state = "open" /\ batch' = Tail(batch) /\ UNCHANGED <<connected, sent, fin, failed>>
        /\ output' = st.output /\ room' = st.room
        /\ \/ /\ st.ok /\ state' = "open" /\ wire' = st.wire /\ buffer' = st.buffer
              /\ armed' = ArmedFor(st, ev.side)
           \/ /\ ~ st.ok /\ state' = "closed"
              /\ wire' = [s \in Sides |-> << >>] /\ buffer' = [s \in Sides |-> << >>]
  BY DEF HandleEvent, ev
<1>3. /\ st \in Streams
      /\ st.ok => \A s \in Sides : Delivered(st, s)
      /\ ~ st.ok => MayEndWith(st)
  <2>1. CASE ev.hup
    <3>1. st = [Now EXCEPT !.ok = FALSE]
      BY <1>2, <2>1
    <3>2. st \in Streams /\ ~ st.ok /\ st.output = output
      BY <3>1, NowStreams DEF Streams, Now
    <3>3. \A s \in Sides : Partly(st, s)
      BY <3>2, UnsentPartly
    <3> QED
      BY <1>1, <2>1, <3>2, <3>3 DEF MayEndWith
  <2>2. CASE ~ ev.hup
    BY <1>1, <1>2, <2>2, HandledEffect
  <2> QED
    BY <2>1, <2>2
<1> QED
  BY <1>2, <1>3 DEF ev

-----------------------------------------------------------------------------
(* The invariant.                                                          *)

LEMMA ProxyInvInit == Init => ProxyInv
<1> SUFFICES ASSUME Init PROVE ProxyInv
  OBVIOUS
<1>1. << >> \in Bytes /\ << >> \in Seq(Event)
  BY DEF Bytes
<1>2. DOMAIN batch = {}
  BY DEF Init
<1> QED
  BY <1>1, <1>2 DEF Init, ProxyInv

\* epoll_wait reports what the sides' descriptors are, a hang-up only of a failed one.
LEMMA WaitReports ==
  ASSUME ProxyInv, Wait
  PROVE  batch' \in Seq(Event) /\ \A i \in DOMAIN batch' : batch'[i].hup => batch'[i].side \in failed
<1>1. PICK order \in SetToSeqs(Ready) : batch' = [i \in DOMAIN order |-> Mask(order[i])]
  BY DEF Wait
<1>2. Cardinality(Ready) \in Nat
  <2>1. IsFiniteSet(Sides)
    <3>1. IsFiniteSet({"client"})
      BY FS_Singleton
    <3>2. IsFiniteSet({"client"} \union {"backend"})
      BY <3>1, FS_AddElement
    <3>3. Sides = {"client"} \union {"backend"}
      BY DEF Sides
    <3> QED
      BY <3>2, <3>3
  <2> QED
    BY <2>1, FS_Subset, FS_CardinalityType DEF Ready
<1> DEFINE n == Cardinality(Ready)
<1>3. order \in [1..n -> Sides]
  BY <1>1 DEF SetToSeqs, Ready
<1> HIDE DEF n
<1>4. \A s \in Sides : Mask(s) \in Event /\ (Mask(s).hup => Mask(s).side \in failed)
  <2> SUFFICES ASSUME NEW s \in Sides
               PROVE  Mask(s) \in Event /\ (Mask(s).hup => Mask(s).side \in failed)
    OBVIOUS
  <2> DEFINE hup == s \in failed
             in == wire[s] # << >> \/ s \in fin
             out == s \in armed /\ room[s] /\ (s = "backend" => connected)
  <2>1. hup \in BOOLEAN /\ in \in BOOLEAN /\ out \in BOOLEAN
    OBVIOUS
  <2>2. Mask(s) = [side |-> s, hup |-> hup, in |-> in, out |-> out]
    BY DEF Mask
  <2> HIDE DEF in, out
  <2>3. Mask(s).hup = hup /\ Mask(s).side = s
    BY <2>2
  <2>4. (Mask(s).hup => Mask(s).side \in failed)
    BY <2>3
  <2> HIDE DEF hup
  <2> QED
    BY <2>1, <2>2, <2>4 DEF Event
<1>5. /\ DOMAIN batch' = 1..n /\ batch' \in [1..n -> Event]
      /\ \A i \in 1..n : batch'[i].hup => batch'[i].side \in failed
  BY <1>1, <1>3, <1>4
<1>6. batch' \in Seq(Event)
  BY <1>2, <1>5, SeqDef DEF n
<1> QED
  BY <1>5, <1>6

LEMMA ProxyInvStep == ProxyInv /\ [Next]_proxyVars => ProxyInv'
<1> SUFFICES ASSUME ProxyInv, [Next]_proxyVars PROVE ProxyInv'
  OBVIOUS
<1>1. CASE Connected
  BY <1>1 DEF Connected, ProxyInv
<1>2. CASE \E s \in Sides : PeerSends(s)
  <2>1. PICK s \in Sides : PeerSends(s)
    BY <1>2
  <2>2. sent[s] + 1 \in Nat /\ wire[s] \in Seq(Nat)
    BY DEF ProxyInv, Bytes
  <2>3. Append(wire[s], sent[s] + 1) \in Bytes
    BY <2>2, AppendProperties DEF Bytes
  <2> QED
    BY <2>1, <2>2, <2>3 DEF PeerSends, ProxyInv
<1>3. CASE \E s \in Sides : PeerFinishes(s) \/ PeerFails(s) \/ PeerReads(s)
  BY <1>3 DEF PeerFinishes, PeerFails, PeerReads, ProxyInv
<1>4. CASE Wait
  <2>1. UNCHANGED <<state, sent, wire, buffer, output, room, fin, failed>>
    BY <1>4 DEF Wait
  <2> QED
    BY <1>4, <2>1, WaitReports DEF ProxyInv
<1>5. CASE HandleEvent
  <2>1. PICK st \in Streams :
          /\ output' = st.output /\ room' = st.room
          /\ \/ state' = "open" /\ wire' = st.wire /\ buffer' = st.buffer
             \/ /\ state' = "closed"
                /\ wire' = [s \in Sides |-> << >>] /\ buffer' = [s \in Sides |-> << >>]
    BY <1>5, EventEffect
  <2>2. batch' = Tail(batch) /\ UNCHANGED <<sent, fin, failed>> /\ batch # << >>
    BY <1>5 DEF HandleEvent
  <2>3. << >> \in Bytes
    BY DEF Bytes
  <2>4. /\ state' \in {"open", "closed"} /\ wire' \in [Sides -> Bytes] /\ buffer' \in [Sides -> Bytes]
        /\ output' \in [Sides -> Bytes] /\ room' \in [Sides -> BOOLEAN]
    BY <2>1, <2>3 DEF Streams
  <2>5. /\ batch' \in Seq(Event)
        /\ \A i \in DOMAIN batch' : batch'[i].hup => batch'[i].side \in failed
    <3>1. batch \in Seq(Event) /\ \A i \in DOMAIN batch : batch[i].hup => batch[i].side \in failed
      BY DEF ProxyInv
    <3> HIDE DEF Event
    <3>2. /\ Tail(batch) \in Seq(Event) /\ Len(Tail(batch)) = Len(batch) - 1 /\ Len(batch) \in Nat
          /\ DOMAIN batch = 1..Len(batch) /\ DOMAIN Tail(batch) = 1..Len(Tail(batch))
          /\ \A i \in 1..Len(Tail(batch)) : Tail(batch)[i] = batch[i + 1]
      BY <2>2, <3>1, HeadTailProperties, LenProperties
    <3> QED
      BY <2>2, <3>1, <3>2
  <2> QED
    BY <2>2, <2>4, <2>5 DEF ProxyInv
<1>6. CASE HandleStaleEvent
  BY <1>6 DEF HandleStaleEvent, ProxyInv
<1>7. CASE UNCHANGED proxyVars
  BY <1>7 DEF proxyVars, ProxyInv
<1> QED
  BY <1>1, <1>2, <1>3, <1>4, <1>5, <1>6, <1>7 DEF Next

LEMMA ProxyInvariance == Spec => []ProxyInv
  BY ProxyInvInit, ProxyInvStep, PTL DEF Spec

\* Whatever a send leaves in a buffer has its descriptor registered for EPOLLOUT:
\* update_epoll looks at both sides after every event (on_event, update_epoll).
THEOREM FlushArmedAlways == Spec => []FlushArmed
<1>1. Init => FlushArmed
  BY DEF Init, FlushArmed
<1>2. ProxyInv /\ FlushArmed /\ [Next]_proxyVars => FlushArmed'
  <2> SUFFICES ASSUME ProxyInv, FlushArmed, [Next]_proxyVars PROVE FlushArmed'
    OBVIOUS
  <2>1. CASE HandleEvent
    <3>1. \A s \in Sides : Other(s) \in Sides /\ Other(Other(s)) = s
      BY DEF Sides, Other
    <3>2. PICK st \in Streams :
            \/ buffer' = st.buffer /\ armed' = ArmedFor(st, Head(batch).side)
            \/ state' = "closed"
      BY <2>1, EventEffect
    <3> QED
      BY <3>1, <3>2 DEF ArmedFor, FlushArmed
  <2>2. CASE HandleStaleEvent
    BY <2>2 DEF HandleStaleEvent, FlushArmed
  <2>3. CASE \/ Connected \/ Wait \/ UNCHANGED proxyVars
             \/ \E s \in Sides : PeerSends(s) \/ PeerFinishes(s) \/ PeerFails(s) \/ PeerReads(s)
    <3>1. UNCHANGED <<state, buffer, armed>>
      BY <2>3 DEF Connected, Wait, proxyVars, PeerSends, PeerFinishes, PeerFails, PeerReads
    <3> QED
      BY <3>1 DEF FlushArmed
  <2> QED
    BY <2>1, <2>2, <2>3 DEF Next
<1> QED
  BY <1>1, <1>2, ProxyInvariance, PTL DEF Spec

-----------------------------------------------------------------------------
(* The refinement.                                                         *)

LEMMA ChannelInit == Init => Channel!Init
<1> SUFFICES ASSUME Init PROVE Channel!Init
  OBVIOUS
<1>1. << >> \in Seq(Nat)
  OBVIOUS
<1>2. << >> \o << >> = << >>
  BY <1>1, ConcatEmptySeq
<1> QED
  BY <1>2 DEF Init, Channel!Init

\* Appending to the second of two queues in a row is appending to both.
LEMMA AppendedToBoth ==
  ASSUME NEW b \in Bytes, NEW w \in Bytes, NEW n \in Nat
  PROVE  b \o Append(w, n) = Append(b \o w, n)
<1> DEFINE u == <<n>>
<1>1. b \in Seq(Nat) /\ w \in Seq(Nat) /\ u \in Seq(Nat)
  BY DEF Bytes
<1>2. Append(w, n) = w \o u /\ Append(b \o w, n) = (b \o w) \o u
  BY <1>1, ConcatProperties, AppendIsConcat
<1> HIDE DEF u
<1>3. (b \o w) \o u = b \o (w \o u)
  <2>1. \A S : \A x, y, z \in Seq(S) : (x \o y) \o z = x \o (y \o z)
    BY ConcatAssociative
  <2> QED
    BY <1>1, <2>1, SMTT(30)
<1> QED
  BY <1>2, <1>3

\* A byte that arrives joins the end of its side's queue.
LEMMA SendsIsPut ==
  ASSUME ProxyInv, NEW s \in Sides, PeerSends(s)
  PROVE  Channel!Put(s)
<1> DEFINE n == sent[s] + 1
<1>1. /\ state = "open" /\ s \notin fin
      /\ sent' = [sent EXCEPT ![s] = @ + 1]
      /\ wire' = [wire EXCEPT ![s] = Append(@, n)]
      /\ UNCHANGED <<state, fin, failed, buffer, output>>
  BY DEF PeerSends, Alive
<1>2. n \in Nat /\ wire \in [Sides -> Seq(Nat)] /\ buffer \in [Sides -> Seq(Nat)]
  BY DEF ProxyInv, Bytes
<1> HIDE DEF n
<1>3. buffer[s] \o Append(wire[s], n) = Append(buffer[s] \o wire[s], n)
  <2>1. buffer[s] \in Bytes /\ wire[s] \in Bytes
    BY <1>2 DEF Bytes
  <2> QED
    BY <1>2, <2>1, AppendedToBoth
<1>4. [r \in Sides |-> buffer'[r] \o wire'[r]]
        = [[r \in Sides |-> buffer[r] \o wire[r]] EXCEPT ![s] = Append(@, n)]
  BY <1>1, <1>2, <1>3
<1> QED
  BY <1>1, <1>4 DEF Channel!Put, n

\* An event that leaves the connection open transfers bytes; one that closes it ends it.
LEMMA EventIsTransferOrEnd ==
  ASSUME ProxyInv, HandleEvent
  PROVE  Channel!Transfer \/ Channel!End
<1>1. PICK st \in Streams :
        /\ output' = st.output
        /\ \/ /\ state' = "open" /\ wire' = st.wire /\ buffer' = st.buffer
              /\ \A s \in Sides : Delivered(st, s)
           \/ /\ state' = "closed"
              /\ wire' = [s \in Sides |-> << >>] /\ buffer' = [s \in Sides |-> << >>]
              /\ MayEndWith(st)
  BY EventEffect
<1>2. state = "open" /\ UNCHANGED <<sent, fin, failed>>
  BY DEF HandleEvent
<1>3. CASE state' = "open" /\ wire' = st.wire /\ buffer' = st.buffer /\ \A s \in Sides : Delivered(st, s)
  BY <1>1, <1>2, <1>3 DEF Channel!Transfer, Channel!Deliver, Delivered, QueueOf
<1>4. CASE /\ state' = "closed"
           /\ wire' = [s \in Sides |-> << >>] /\ buffer' = [s \in Sides |-> << >>]
           /\ MayEndWith(st)
  <2>1. << >> \o << >> = << >>
    BY ConcatEmptySeq, EmptySeq
  <2>2. [s \in Sides |-> buffer'[s] \o wire'[s]] = [s \in Sides |-> << >>]
    BY <1>4, <2>1
  <2> DEFINE queue == [s \in Sides |-> buffer[s] \o wire[s]]
             Part(s) == \E q \in Channel!Kept(queue[s]), k \in 0..Len(queue[s]) :
                          k <= Len(q) /\ output'[s] = output[s] \o SubSeq(q, 1, k)
  <2>3. \A s \in Sides : queue[s] = QueueOf(s)
    BY DEF QueueOf
  <2> HIDE DEF queue
  <2>4. \A s \in Sides : Partly(st, s) => Part(s)
    BY <1>1, <2>3 DEF Partly
  <2> HIDE DEF Part
  <2>5. \/ failed # {} /\ \A s \in Sides : Part(s)
        \/ \E s \in fin : /\ queue[s] = << >> /\ output'[s] = output[s]
                         /\ \A r \in Sides \ {s} : Part(r)
    <3>1. fin \subseteq Sides
      BY DEF ProxyInv
    <3> QED
      BY <1>1, <1>4, <2>3, <2>4, <3>1 DEF MayEndWith
  <2>6. state = "open" /\ state' # "open"
    BY <1>2, <1>4
  <2> QED
    BY <1>2, <2>2, <2>5, <2>6, Zenon DEF Channel!End, Channel!DeliverPart, Part, queue
<1> QED
  BY <1>1, <1>3, <1>4

LEMMA ChannelStep == ProxyInv /\ [Next]_proxyVars => [Channel!Next]_(Channel!channelVars)
<1> SUFFICES ASSUME ProxyInv, [Next]_proxyVars PROVE [Channel!Next]_(Channel!channelVars)
  OBVIOUS
<1>1. CASE \E s \in Sides : PeerSends(s)
  BY <1>1, SendsIsPut DEF Channel!Next
<1>2. CASE \E s \in Sides : PeerFinishes(s)
  BY <1>2 DEF PeerFinishes, Channel!Finish, Channel!Next
<1>3. CASE \E s \in Sides : PeerFails(s)
  BY <1>3 DEF PeerFails, Channel!Break, Channel!Next
<1>4. CASE HandleEvent
  BY <1>4, EventIsTransferOrEnd DEF Channel!Next
<1>5. CASE HandleStaleEvent
  BY <1>5 DEF HandleStaleEvent, Channel!channelVars
<1>6. CASE Connected \/ Wait \/ UNCHANGED proxyVars \/ \E s \in Sides : PeerReads(s)
  BY <1>6 DEF Connected, Wait, proxyVars, PeerReads, Channel!channelVars
<1> QED
  BY <1>1, <1>2, <1>3, <1>4, <1>5, <1>6 DEF Next

\* The connection is a pair of queues: bytes arrive in order and once, are dropped only
\* beyond a buffer's capacity or at the end, and the end has a reason: a failed side, or
\* one that finished and of whose bytes none is left (on_event, pump, close_connection).
THEOREM ProxyKeepsBytes == Spec => BytesKept
  BY ProxyInvariance, ChannelInit, ChannelStep, PTL DEF Spec, BytesKept, Channel!Spec


-----------------------------------------------------------------------------
(* The order of the bytes, and the capacity of the buffers.                *)

\* In order, and none that was not sent.
InOrder(q, n) == Increasing(q) /\ Range(q) \subseteq 1..n

Line(s) == output[s] \o QueueOf(s)

OrderInv == \A s \in Sides : Len(buffer[s]) <= Capacity /\ InOrder(Line(s), sent[s])

LEMMA BytesAssociative == \A a, b, c \in Bytes : (a \o b) \o c = a \o (b \o c)
  BY ConcatAssociative, SMTT(30) DEF Bytes

LEMMA BytesConcat == \A a, b \in Bytes : a \o b \in Bytes
  BY ConcatProperties DEF Bytes

LEMMA PrefixInOrder ==
  ASSUME NEW q \in Bytes, NEW r \in Bytes, Len(r) <= Len(q), \A i \in 1..Len(r) : r[i] = q[i],
         NEW n, InOrder(q, n)
  PROVE  InOrder(r, n)
<1>1. /\ DOMAIN q = 1..Len(q) /\ DOMAIN r = 1..Len(r) /\ Len(q) \in Nat /\ Len(r) \in Nat
      /\ \A i \in 1..Len(r) : i \in 1..Len(q)
  BY LenProperties DEF Bytes
<1>2. \A i, j \in 1..Len(q) : i < j => q[i] < q[j]
  BY <1>1 DEF InOrder, Increasing
<1>3. \A i \in 1..Len(q) : q[i] \in 1..n
  BY <1>1 DEF InOrder, Range
<1>4. Increasing(r)
  BY <1>1, <1>2 DEF Increasing
<1>5. Range(r) \subseteq 1..n
  BY <1>1, <1>3 DEF Range
<1> QED
  BY <1>4, <1>5 DEF InOrder

\* Putting a prefix of a queue behind what was there gives a prefix of the whole.
LEMMA PrefixBehind ==
  ASSUME NEW o \in Bytes, NEW queue \in Bytes, NEW k \in 0..Len(queue), NEW n, InOrder(o \o queue, n)
  PROVE  InOrder(o \o SubSeq(queue, 1, k), n)
<1> DEFINE p == SubSeq(queue, 1, k)
<1>1. p \in Bytes /\ Len(p) = k /\ Len(queue) \in Nat /\ \A i \in 1..k : p[i] = queue[i]
  BY SplitTyped DEF Bytes
<1> HIDE DEF p
<1>2. /\ o \o queue \in Bytes /\ Len(o \o queue) = Len(o) + Len(queue)
      /\ \A i \in 1..Len(o) + Len(queue) : (o \o queue)[i] = IF i <= Len(o) THEN o[i] ELSE queue[i - Len(o)]
  BY ConcatProperties DEF Bytes
<1>3. /\ o \o p \in Bytes /\ Len(o \o p) = Len(o) + k
      /\ \A i \in 1..Len(o) + k : (o \o p)[i] = IF i <= Len(o) THEN o[i] ELSE p[i - Len(o)]
  BY <1>1, ConcatProperties DEF Bytes
<1>4. Len(o) \in Nat
  BY LenProperties DEF Bytes
<1>5. ASSUME NEW i \in 1..Len(o) + k PROVE (o \o p)[i] = (o \o queue)[i]
  <2>1. i \in 1..Len(o) + Len(queue)
    BY <1>1, <1>4
  <2>2. CASE i <= Len(o)
    BY <1>2, <1>3, <2>1, <2>2
  <2>3. CASE ~ (i <= Len(o))
    <3>1. i - Len(o) \in 1..k
      BY <1>4, <2>3
    <3> QED
      BY <1>1, <1>2, <1>3, <2>1, <2>3, <3>1
  <2> QED
    BY <2>2, <2>3
<1>6. Len(o \o p) <= Len(o \o queue)
  BY <1>1, <1>2, <1>3, <1>4
<1>7. InOrder(o \o p, n)
  BY <1>2, <1>3, <1>5, <1>6, PrefixInOrder
<1> QED
  BY <1>7 DEF p

LEMMA KeptIsPrefix ==
  ASSUME NEW queue \in Bytes, NEW q \in Channel!Kept(queue)
  PROVE  \E m \in 0..Len(queue) : q = SubSeq(queue, 1, m)
<1>1. Len(queue) \in Nat /\ SubSeq(queue, 1, Len(queue)) = queue
  BY LenProperties, SubSeqFull DEF Bytes
<1>2. CASE q = queue
  <2>1. Len(queue) \in 0..Len(queue)
    BY <1>1
  <2> QED
    BY <1>1, <1>2, <2>1
<1>3. CASE q = SubSeq(queue, 1, IF Len(queue) < Capacity THEN Len(queue) ELSE Capacity)
  <2>1. (IF Len(queue) < Capacity THEN Len(queue) ELSE Capacity) \in 0..Len(queue)
    BY <1>1, ProxyAssumption
  <2> QED
    BY <1>3, <2>1
<1> QED
  BY <1>2, <1>3 DEF Channel!Kept

\* What is delivered of a queue, with and without what is left of it, stays in order.
LEMMA DeliveryInOrder ==
  ASSUME NEW o \in Bytes, NEW queue \in Bytes, NEW n, InOrder(o \o queue, n),
         NEW q \in Channel!Kept(queue), NEW k \in Nat, k <= Len(q)
  PROVE  /\ InOrder(o \o SubSeq(q, 1, k), n)
         /\ InOrder((o \o SubSeq(q, 1, k)) \o SubSeq(q, k + 1, Len(q)), n)
<1>1. PICK m \in 0..Len(queue) : q = SubSeq(queue, 1, m)
  BY KeptIsPrefix
<1>2. q \in Bytes /\ InOrder(o \o q, n)
  BY <1>1, SplitTyped, PrefixBehind
<1>3. Len(q) \in Nat /\ k \in 0..Len(q)
  BY <1>2, LenProperties DEF Bytes
<1>4. InOrder(o \o SubSeq(q, 1, k), n)
  BY <1>2, <1>3, PrefixBehind
<1>5. SubSeq(q, 1, k) \in Bytes /\ SubSeq(q, k + 1, Len(q)) \in Bytes
  BY <1>2, <1>3, SplitTyped
<1>6. SubSeq(q, 1, k) \o SubSeq(q, k + 1, Len(q)) = q
  <2>1. 1 \in 1..Len(q) + 1 /\ k \in 1 - 1..Len(q) /\ Len(q) \in k..Len(q)
    BY <1>3
  <2>2. SubSeq(q, 1, k) \o SubSeq(q, k + 1, Len(q)) = SubSeq(q, 1, Len(q))
    BY <1>2, <2>1, ConcatAdjacentSubSeq DEF Bytes
  <2>3. SubSeq(q, 1, Len(q)) = q
    BY <1>2, SubSeqFull DEF Bytes
  <2> QED
    BY <2>2, <2>3
<1>7. (o \o SubSeq(q, 1, k)) \o SubSeq(q, k + 1, Len(q)) = o \o q
  <2>1. PICK a \in Bytes, b \in Bytes : a = SubSeq(q, 1, k) /\ b = SubSeq(q, k + 1, Len(q))
    BY <1>5
  <2>2. (o \o a) \o b = o \o (a \o b)
    BY BytesAssociative
  <2>3. a \o b = q
    BY <1>6, <2>1
  <2> QED
    BY <2>1, <2>2, <2>3
<1> QED
  BY <1>2, <1>4, <1>7

\* A pump leaves no buffer fuller than its capacity.
LEMMA PumpFits ==
  ASSUME NEW from \in Sides, NEW st0 \in Streams, \A s \in Sides : Len(st0.buffer[s]) <= Capacity,
         NEW st \in Pump(st0, from)
  PROVE  \A s \in Sides : Len(st.buffer[s]) <= Capacity
<1> DEFINE b == Written(st0.buffer[from], st0.wire[from])
           read == [st0 EXCEPT !.buffer[from] = b, !.wire[from] = << >>]
<1>1. b \in Bytes /\ Len(b) <= Capacity
  <2> DEFINE all == st0.buffer[from] \o st0.wire[from]
  <2>1. st0.buffer[from] \in Bytes /\ st0.wire[from] \in Bytes
    BY DEF Streams
  <2>2. all \in Bytes /\ Len(all) \in Nat
    BY <2>1, ConcatProperties, LenProperties DEF Bytes
  <2>3. b = IF Len(all) <= Capacity THEN all ELSE SubSeq(all, 1, Capacity)
    BY DEF Written
  <2> HIDE DEF all, b
  <2>4. CASE Len(all) <= Capacity
    BY <2>2, <2>3, <2>4
  <2>5. CASE ~ (Len(all) <= Capacity)
    <3>1. Capacity \in 0..Len(all)
      BY <2>2, <2>5, ProxyAssumption
    <3>2. SubSeq(all, 1, Capacity) \in Bytes /\ Len(SubSeq(all, 1, Capacity)) = Capacity
      BY <2>2, <3>1, SplitTyped
    <3> QED
      BY <2>3, <2>5, <3>2, ProxyAssumption
  <2> QED
    BY <2>4, <2>5
<1> HIDE DEF b
<1>2. read.buffer = [st0.buffer EXCEPT ![from] = b] /\ read.buffer \in [Sides -> Bytes] /\ read.buffer[from] = b
  BY <1>1 DEF Streams
<1>3. \A s \in Sides : Len(read.buffer[s]) <= Capacity
  <2> SUFFICES ASSUME NEW s \in Sides PROVE Len(read.buffer[s]) <= Capacity
    OBVIOUS
  <2>1. st0.buffer \in [Sides -> Bytes]
    BY DEF Streams
  <2>2. s # from => read.buffer[s] = st0.buffer[s]
    BY <1>2, <2>1
  <2> HIDE DEF read
  <2> QED
    BY <1>1, <1>2, <2>2
<1> DEFINE over == [read EXCEPT !.ok = FALSE]
<1>4. over.buffer = read.buffer
  BY DEF Streams
<1> HIDE DEF read, over
<1>5. CASE st = over
  BY <1>3, <1>4, <1>5
<1>6. CASE \E k \in Accepted(read, Other(from), Len(b)) : st \in Sent(read, from, k)
  <2>0. Len(b) \in Nat
    BY <1>1 DEF Bytes
  <2>1. PICK k \in 0..Len(b) : st \in Sent(read, from, k)
    BY <1>6, <2>0 DEF Accepted
  <2>2. PICK r : st = [read EXCEPT !.buffer[from] = SubSeq(b, k + 1, Len(b)),
                                   !.output[from] = @ \o SubSeq(b, 1, k),
                                   !.room[Other(from)] = r]
    BY <1>2, <2>1 DEF Sent
  <2>3. PICK c : c = SubSeq(b, k + 1, Len(b))
    OBVIOUS
  <2>4. Len(c) <= Capacity
    <3>1. \A i \in k + 1..Len(b) : b[i] \in Nat
      BY <1>1, <2>0, <2>1, ElementOfSeq DEF Bytes
    <3>2. Len(c) = IF k + 1 <= Len(b) THEN Len(b) - (k + 1) + 1 ELSE 0
      BY <2>0, <2>1, <2>3, <3>1, SubSeqProperties
    <3> QED
      BY <1>1, <2>0, <2>1, <3>2, ProxyAssumption
  <2>5. st.buffer = [read.buffer EXCEPT ![from] = c]
    <3>1. "buffer" \in DOMAIN read /\ "output" \in DOMAIN read /\ "room" \in DOMAIN read
      BY DEF read, Streams
    <3> QED
      BY <2>2, <2>3, <3>1
  <2>6. \A s \in Sides : s # from => st.buffer[s] = read.buffer[s]
    BY <1>2, <2>5
  <2>7. st.buffer[from] = c
    BY <1>2, <2>5
  <2> QED
    BY <1>3, <2>4, <2>6, <2>7
<1> QED
  BY <1>2, <1>5, <1>6 DEF Pump, b, read, over

LEMMA HandledFits ==
  ASSUME ProxyInv, OrderInv, NEW ev \in Event, NEW st \in Handled(ev)
  PROVE  \A s \in Sides : Len(st.buffer[s]) <= Capacity
<1> DEFINE side == ev.side
           other == Other(ev.side)
<1>0. side \in Sides /\ other \in Sides
  BY DEF Event, Other, Sides
<1> HIDE DEF side, other
<1>1. PICK first \in (IF ev.in THEN Pump(Now, side) ELSE {Now}) :
        st \in (IF first.ok /\ ev.out THEN Pump(first, other) ELSE {first})
  BY DEF Handled, side, other
<1>2. Now \in Streams /\ Now.ok /\ Untouched(Now, side) /\ \A s \in Sides : Len(Now.buffer[s]) <= Capacity
  BY <1>0, NowStreams DEF OrderInv, Untouched
<1>3. first \in Streams /\ \A s \in Sides : Len(first.buffer[s]) <= Capacity
  BY <1>0, <1>1, <1>2, PumpEffect, PumpFits
<1> QED
  BY <1>0, <1>1, <1>3, PumpFits

LEMMA EventFits == ASSUME ProxyInv, OrderInv, HandleEvent PROVE \A s \in Sides : Len(buffer'[s]) <= Capacity
<1> DEFINE ev == Head(batch)
<1>1. ev \in Event
  <2>1. batch \in Seq(Event) /\ batch # << >>
    BY DEF ProxyInv, HandleEvent
  <2> HIDE DEF Event
  <2> QED
    BY <2>1, HeadTailProperties
<1> HIDE DEF ev
<1>2. PICK st \in IF ev.hup THEN { [Now EXCEPT !.ok = FALSE] } ELSE Handled(ev) :
        \/ st.ok /\ buffer' = st.buffer
        \/ buffer' = [s \in Sides |-> << >>]
  BY DEF HandleEvent, ev
<1>3. CASE buffer' = [s \in Sides |-> << >>]
  BY <1>3, EmptySeq, ProxyAssumption
<1>4. CASE st.ok /\ buffer' = st.buffer
  <2>1. ~ ev.hup
    BY <1>2, <1>4, NowStreams DEF Streams
  <2> QED
    BY <1>1, <1>2, <1>4, <2>1, HandledFits
<1> QED
  BY <1>2, <1>3, <1>4

LEMMA LineIs ==
  ASSUME ProxyInv
  PROVE  \A s \in Sides : /\ output[s] \in Bytes /\ QueueOf(s) \in Bytes /\ Line(s) \in Bytes
                          /\ output[s] \o buffer[s] \o wire[s] = Line(s)
<1> SUFFICES ASSUME NEW s \in Sides
             PROVE  /\ output[s] \in Bytes /\ QueueOf(s) \in Bytes /\ Line(s) \in Bytes
                    /\ output[s] \o buffer[s] \o wire[s] = Line(s)
  OBVIOUS
<1>1. output[s] \in Bytes /\ buffer[s] \in Bytes /\ wire[s] \in Bytes
  BY DEF ProxyInv
<1> QED
  BY <1>1, BytesConcat, BytesAssociative, ZenonT(30) DEF QueueOf, Line

\* What the connection ends with is in order.
LEMMA PartlyInOrder ==
  ASSUME ProxyInv, OrderInv, NEW s \in Sides, NEW st \in Streams, Partly(st, s)
  PROVE  InOrder(st.output[s], sent[s])
<1>1. PICK q \in Channel!Kept(QueueOf(s)), k \in 0..Len(QueueOf(s)) :
        k <= Len(q) /\ st.output[s] = output[s] \o SubSeq(q, 1, k)
  BY DEF Partly
<1>2. output[s] \in Bytes /\ QueueOf(s) \in Bytes /\ InOrder(output[s] \o QueueOf(s), sent[s])
  BY LineIs DEF OrderInv, Line
<1>3. k \in Nat
  BY <1>2, LenProperties DEF Bytes
<1> QED
  BY <1>1, <1>2, <1>3, DeliveryInOrder

LEMMA EndsInOrder ==
  ASSUME ProxyInv, OrderInv, NEW st \in Streams, MayEndWith(st), NEW s \in Sides
  PROVE  InOrder(st.output[s], sent[s])
<1>1. CASE Partly(st, s)
  BY <1>1, PartlyInOrder
<1>2. CASE st.output[s] = output[s]
  BY <1>2, UnsentPartly, PartlyInOrder
<1> QED
  BY <1>1, <1>2 DEF MayEndWith

LEMMA EventOrder == ASSUME ProxyInv, OrderInv, ProxyInv', HandleEvent PROVE OrderInv'
<1>1. UNCHANGED sent
  BY DEF HandleEvent
<1>2. << >> \in Bytes /\ << >> \o << >> = << >> /\ Len(<< >>) = 0
  BY EmptySeq, ConcatEmptySeq DEF Bytes
<1>3. PICK st \in Streams :
        /\ output' = st.output
        /\ \/ /\ wire' = st.wire /\ buffer' = st.buffer /\ \A s \in Sides : Delivered(st, s)
           \/ /\ wire' = [s \in Sides |-> << >>] /\ buffer' = [s \in Sides |-> << >>]
              /\ MayEndWith(st)
  BY EventEffect
<1>4. CASE wire' = st.wire /\ buffer' = st.buffer /\ \A s \in Sides : Delivered(st, s)
  <2> SUFFICES ASSUME NEW s \in Sides PROVE InOrder(output'[s] \o (buffer'[s] \o wire'[s]), sent[s])
    BY <1>1, EventFits DEF OrderInv, Line, QueueOf
  <2>1. PICK q \in Channel!Kept(QueueOf(s)), k \in 0..Len(QueueOf(s)) :
          /\ k <= Len(q)
          /\ st.output[s] = output[s] \o SubSeq(q, 1, k)
          /\ st.buffer[s] \o st.wire[s] = SubSeq(q, k + 1, Len(q))
    BY <1>4 DEF Delivered
  <2>2. output[s] \in Bytes /\ QueueOf(s) \in Bytes /\ InOrder(output[s] \o QueueOf(s), sent[s])
    BY LineIs DEF OrderInv, Line
  <2>3. k \in Nat
    BY <2>2, LenProperties DEF Bytes
  <2>4. InOrder((output[s] \o SubSeq(q, 1, k)) \o SubSeq(q, k + 1, Len(q)), sent[s])
    BY <2>1, <2>2, <2>3, DeliveryInOrder
  <2> QED
    BY <1>3, <1>4, <2>1, <2>4
<1>5. CASE /\ wire' = [s \in Sides |-> << >>] /\ buffer' = [s \in Sides |-> << >>]
           /\ MayEndWith(st)
  <2> SUFFICES ASSUME NEW s \in Sides PROVE InOrder(output'[s] \o (buffer'[s] \o wire'[s]), sent[s])
    BY <1>1, EventFits DEF OrderInv, Line, QueueOf
  <2>1. output'[s] \in Bytes
    BY DEF ProxyInv
  <2>2. output'[s] \o (buffer'[s] \o wire'[s]) = output'[s]
    BY <1>2, <1>5, <2>1, ConcatEmptySeq DEF Bytes
  <2>3. InOrder(output'[s], sent[s])
    BY <1>3, <1>5, EndsInOrder
  <2> QED
    BY <2>2, <2>3
<1> QED
  BY <1>3, <1>4, <1>5

\* A side that sends puts the next byte behind all others.
LEMMA SendOrder == ASSUME ProxyInv, OrderInv, NEW s \in Sides, PeerSends(s) PROVE OrderInv'
<1>1. /\ sent' = [sent EXCEPT ![s] = sent[s] + 1] /\ wire' = [wire EXCEPT ![s] = Append(wire[s], sent[s] + 1)]
      /\ UNCHANGED <<buffer, output>>
  BY DEF PeerSends
<1>2. PICK n \in Nat : n = sent[s]
  BY DEF ProxyInv
<1>3. PICK o \in Bytes, b \in Bytes, w \in Bytes : o = output[s] /\ b = buffer[s] /\ w = wire[s]
  BY DEF ProxyInv
<1>4. InOrder(o \o (b \o w), n)
  BY <1>2, <1>3 DEF OrderInv, Line, QueueOf
<1>5. PICK line \in Bytes : line = o \o (b \o w)
  BY BytesConcat
<1>6. o \o (b \o Append(w, n + 1)) = Append(line, n + 1)
  <2>1. <<n + 1>> \in Bytes
    BY DEF Bytes
  <2>2. Append(w, n + 1) = w \o <<n + 1>> /\ Append(line, n + 1) = line \o <<n + 1>>
    BY AppendIsConcat DEF Bytes
  <2>3. b \o (w \o <<n + 1>>) = (b \o w) \o <<n + 1>>
    BY <2>1, BytesAssociative, SMTT(30)
  <2>4. o \o ((b \o w) \o <<n + 1>>) = (o \o (b \o w)) \o <<n + 1>>
    BY <2>1, BytesConcat, BytesAssociative, SMTT(30)
  <2> QED
    BY <1>5, <2>2, <2>3, <2>4
<1>7. InOrder(Append(line, n + 1), n + 1)
  <2>1. /\ Append(line, n + 1) \in Bytes /\ Len(Append(line, n + 1)) = Len(line) + 1 /\ Len(line) \in Nat
        /\ \A i \in 1..Len(line) : Append(line, n + 1)[i] = line[i]
        /\ Append(line, n + 1)[Len(line) + 1] = n + 1
    BY AppendProperties, LenProperties DEF Bytes
  <2>2. DOMAIN Append(line, n + 1) = 1..Len(line) + 1 /\ DOMAIN line = 1..Len(line)
    BY <2>1, LenProperties DEF Bytes
  <2>3. /\ \A i, j \in 1..Len(line) : i < j => line[i] < line[j]
        /\ \A i \in 1..Len(line) : line[i] \in 1..n
    BY <1>4, <1>5, <2>2 DEF InOrder, Increasing, Range
  <2>4. PICK a : a = Append(line, n + 1)
    OBVIOUS
  <2>5. \A i \in 1..Len(line) + 1 : i \in 1..Len(line) \/ i = Len(line) + 1
    BY <2>1
  <2>6. /\ DOMAIN a = 1..Len(line) + 1 /\ a[Len(line) + 1] = n + 1
        /\ \A i \in 1..Len(line) : a[i] = line[i]
    BY <2>1, <2>2, <2>4
  <2>7. \A i \in 1..Len(line) + 1 : a[i] \in 1..n + 1
    BY <2>3, <2>5, <2>6
  <2>8. ASSUME NEW i \in 1..Len(line) + 1, NEW j \in 1..Len(line) + 1, i < j PROVE a[i] < a[j]
    <3>1. i \in 1..Len(line)
      BY <2>1, <2>8
    <3>2. CASE j \in 1..Len(line)
      BY <2>3, <2>6, <2>8, <3>1, <3>2
    <3>3. CASE j = Len(line) + 1
      BY <2>3, <2>6, <3>1, <3>3
    <3> QED
      BY <2>5, <3>2, <3>3
  <2>9. InOrder(a, n + 1)
    BY <2>6, <2>7, <2>8 DEF InOrder, Increasing, Range
  <2> QED
    BY <2>4, <2>9
<1>8. InOrder(output'[s] \o (buffer'[s] \o wire'[s]), sent'[s])
  <2>1. wire'[s] = Append(w, n + 1) /\ sent'[s] = n + 1
    BY <1>1, <1>2, <1>3 DEF ProxyInv
  <2> QED
    BY <1>1, <1>3, <1>6, <1>7, <2>1
<1>9. \A r \in Sides : r # s => wire'[r] = wire[r] /\ sent'[r] = sent[r]
  BY <1>1 DEF ProxyInv
<1> QED
  BY <1>1, <1>8, <1>9 DEF OrderInv, Line, QueueOf

LEMMA OrderInit == Init => OrderInv
<1> SUFFICES ASSUME Init, NEW s \in Sides PROVE Len(buffer[s]) <= Capacity /\ InOrder(Line(s), sent[s])
  BY DEF OrderInv
<1>1. output[s] = << >> /\ buffer[s] = << >> /\ wire[s] = << >>
  BY DEF Init
<1>2. << >> \in Bytes /\ << >> \o << >> = << >> /\ Len(<< >>) = 0 /\ DOMAIN << >> = {}
  BY EmptySeq, ConcatEmptySeq DEF Bytes
<1>3. Line(s) = << >>
  BY <1>1, <1>2 DEF Line, QueueOf
<1>4. InOrder(<< >>, sent[s])
  BY <1>2 DEF InOrder, Increasing, Range
<1> QED
  BY <1>1, <1>2, <1>3, <1>4, ProxyAssumption

LEMMA OrderStep == ProxyInv /\ OrderInv /\ ProxyInv' /\ [Next]_proxyVars => OrderInv'
<1> SUFFICES ASSUME ProxyInv, OrderInv, ProxyInv', [Next]_proxyVars PROVE OrderInv'
  OBVIOUS
<1>1. CASE \E s \in Sides : PeerSends(s)
  BY <1>1, SendOrder
<1>2. CASE HandleEvent
  BY <1>2, EventOrder
<1>3. CASE \/ Connected \/ Wait \/ HandleStaleEvent \/ UNCHANGED proxyVars
           \/ \E s \in Sides : PeerFinishes(s) \/ PeerFails(s) \/ PeerReads(s)
  <2>1. UNCHANGED <<sent, wire, buffer, output>>
    BY <1>3 DEF Connected, Wait, HandleStaleEvent, proxyVars, PeerFinishes, PeerFails, PeerReads
  <2> QED
    BY <2>1 DEF OrderInv, Line, QueueOf
<1> QED
  BY <1>1, <1>2, <1>3 DEF Next

\* What the other lemmas do not need of the types.
Flags ==
  /\ connected \in BOOLEAN /\ armed \subseteq Sides
  /\ sent \in [Sides -> 0..MaxSend]

LEMMA FlagsStep == Flags /\ [Next]_proxyVars => Flags'
<1> SUFFICES ASSUME Flags, [Next]_proxyVars PROVE Flags'
  OBVIOUS
<1>1. CASE Connected
  BY <1>1 DEF Connected, Flags
<1>2. ASSUME NEW s \in Sides, PeerSends(s) PROVE Flags'
  BY <1>2, ProxyAssumption DEF PeerSends, Flags
<1>3. CASE HandleEvent
  <2>1. UNCHANGED <<connected, sent>> /\ armed' \subseteq Sides
    BY <1>3 DEF HandleEvent, ArmedFor
  <2> QED
    BY <2>1 DEF Flags
<1>4. CASE \/ Wait \/ HandleStaleEvent \/ UNCHANGED proxyVars
           \/ \E s \in Sides : PeerFinishes(s) \/ PeerFails(s) \/ PeerReads(s)
  BY <1>4 DEF Wait, HandleStaleEvent, proxyVars, PeerFinishes, PeerFails, PeerReads, Flags
<1> QED
  BY <1>1, <1>2, <1>3, <1>4 DEF Next

\* A buffer never holds more than its capacity, and on its whole way, from the kernel
\* through the buffer to the other side, every byte of a stream stays behind those sent
\* before it and appears once: pump takes bytes off the front and puts them at the end,
\* and what write refuses is cut off the end (Buffer::write, compact, pump).
THEOREM BytesStayInOrder == Spec => []TypeOK
<1>1. Init => Flags
  <2>1. 0 \in 0..MaxSend
    BY ProxyAssumption
  <2> QED
    BY <2>1 DEF Init, Flags
<1>2. ProxyInv /\ OrderInv /\ Flags => TypeOK
  <2> SUFFICES ASSUME ProxyInv, OrderInv, Flags PROVE TypeOK
    OBVIOUS
  <2>1. \A s \in Sides : /\ Len(buffer[s]) <= Capacity
                         /\ Increasing(output[s] \o buffer[s] \o wire[s])
                         /\ Range(output[s] \o buffer[s] \o wire[s]) \subseteq 1..sent[s]
    BY LineIs DEF OrderInv, InOrder
  <2> QED
    BY <2>1 DEF TypeOK, ProxyInv, Flags
<1> QED
  BY <1>1, <1>2, ProxyInvariance, OrderInit, OrderStep, FlagsStep, PTL DEF Spec
=============================================================================
