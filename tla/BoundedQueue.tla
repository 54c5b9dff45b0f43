---------------------------- MODULE BoundedQueue ----------------------------
(***************************************************************************)
(* What the ingest ring (RingBuffer<Capacity>, ring_buffer.cpp) promises   *)
(* to its single producer and single consumer: a FIFO queue of at most     *)
(* Bound events.  A push is refused only when the queue already holds      *)
(* Bound events; a pop hands out the oldest event, whole.                  *)
(***************************************************************************)
EXTENDS Naturals, Sequences

CONSTANTS Bound,   \* how many events the queue holds before refusing pushes
          Values,  \* the events
          NoEvent  \* what the consumer holds before its first pop

VARIABLES queue,      \* the events pushed and not yet popped, oldest first
          pushResult, \* outcome of the latest push: "none", "ok" or "full"
          lastPopped  \* the event the latest pop handed to the consumer

vars == <<queue, pushResult, lastPopped>>

Init == /\ queue = <<>>
        /\ pushResult = "none"
        /\ lastPopped = NoEvent

Enqueue(v) == /\ Len(queue) < Bound
              /\ queue' = Append(queue, v)
              /\ pushResult' = "ok"
              /\ UNCHANGED lastPopped

Refuse == /\ Len(queue) = Bound
          /\ pushResult' = "full"
          /\ UNCHANGED <<queue, lastPopped>>

Dequeue == /\ queue # <<>>
           /\ lastPopped' = Head(queue)
           /\ queue' = Tail(queue)
           /\ UNCHANGED pushResult

Next == (\E v \in Values : Enqueue(v)) \/ Refuse \/ Dequeue

Spec == Init /\ [][Next]_vars
=============================================================================
