----------------------------- MODULE ByteChannel -----------------------------
(***************************************************************************)
(* What the proxy of 09-load-balancer does for one connection: two queues  *)
(* of bytes that are delivered in order and once.  Bytes are lost only     *)
(* when more than Capacity of them wait, or at the end, and the end comes  *)
(* only after an error or when a side has finished and all it sent was     *)
(* delivered.                                                              *)
(***************************************************************************)
EXTENDS Integers, Sequences, SequencesExt

CONSTANTS Sides, Capacity, MaxSend

VARIABLES
  queue,      \* bytes sent by a side and not yet delivered
  output,     \* bytes delivered that came from a side
  sent,       \* how many bytes a side has sent
  finished,   \* the sides that will send no more
  broken,     \* the sides that failed
  ended       \* the connection is over

channelVars == <<queue, output, sent, finished, broken, ended>>

Init ==
  /\ queue = [s \in Sides |-> << >>]
  /\ output = [s \in Sides |-> << >>]
  /\ sent = [s \in Sides |-> 0]
  /\ finished = {} /\ broken = {} /\ ended = FALSE

Put(s) ==
  /\ ~ ended /\ s \notin finished
  /\ sent' = [sent EXCEPT ![s] = @ + 1]
  /\ queue' = [queue EXCEPT ![s] = Append(@, sent[s] + 1)]
  /\ UNCHANGED <<output, finished, broken, ended>>

Finish(s) == finished' = finished \union {s} /\ UNCHANGED <<queue, output, sent, broken, ended>>
Break(s) == broken' = broken \union {s} /\ UNCHANGED <<queue, output, sent, finished, ended>>

\* What is left of a queue when the bytes beyond the capacity are dropped.
Kept(q) == {q, SubSeq(q, 1, IF Len(q) < Capacity THEN Len(q) ELSE Capacity)}

\* Some bytes of each side are delivered; rest are the queues afterwards.
Deliver(rest) ==
  \A s \in Sides : \E q \in Kept(queue[s]), k \in 0..Len(queue[s]) :
    /\ k <= Len(q)
    /\ output'[s] = output[s] \o SubSeq(q, 1, k)
    /\ rest[s] = SubSeq(q, k + 1, Len(q))

Transfer ==
  /\ ~ ended
  /\ Deliver(queue')
  /\ UNCHANGED <<sent, finished, broken, ended>>

\* Some bytes of a side are delivered before the end, the rest are dropped.
DeliverPart(s) ==
  \E q \in Kept(queue[s]), k \in 0..Len(queue[s]) :
    k <= Len(q) /\ output'[s] = output[s] \o SubSeq(q, 1, k)

End ==
  /\ ~ ended /\ ended'
  /\ \/ broken # {} /\ \A s \in Sides : DeliverPart(s)
     \/ \E s \in finished :
          /\ queue[s] = << >> /\ output'[s] = output[s]
          /\ \A r \in Sides \ {s} : DeliverPart(r)
  /\ queue' = [s \in Sides |-> << >>]
  /\ UNCHANGED <<sent, finished, broken>>

Next == (\E s \in Sides : Put(s) \/ Finish(s) \/ Break(s)) \/ Transfer \/ End

Spec == Init /\ [][Next]_channelVars
=============================================================================
