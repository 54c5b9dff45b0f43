----------------------------- MODULE RingBuffer -----------------------------
(***************************************************************************)
(* The lock-free single-producer / single-consumer ring of                 *)
(* blackbox-core/src/ingest/ring_buffer.cpp.                               *)
(*                                                                         *)
(* The producer (the ingest thread, inside a UDP or TCP receive handler)   *)
(* calls push; the consumer (the processing thread) calls pop.  Each call  *)
(* is split at its one publishing store, the only point where the other    *)
(* thread can observe it:                                                  *)
(*   push = PushBegin (load head, acquire-load tail, full check, write the *)
(*          slot)  then  PushPublish (release-store head);                 *)
(*   pop  = PopBegin  (load tail, acquire-load head, empty check, copy the *)
(*          slot)  then  PopCommit   (release-store tail).                 *)
(* The acquire/release pairs make every write before a store visible to   *)
(* the thread that loads it, so an interleaving of these steps covers all  *)
(* executions of the compiled code.  A slot holds an event as one value:   *)
(* the payload bytes, length and timestamp are abstracted to the event's   *)
(* identity.                                                               *)
(***************************************************************************)
EXTENDS Naturals, Sequences

CONSTANTS Capacity, \* the template parameter (65536 in the build)
          Values,   \* the events the producer may push
          NoEvent   \* a slot's content before it is first written

ASSUME Capacity \in Nat /\ Capacity >= 2
ASSUME NoEvent \notin Values

Slots == 0 .. Capacity - 1

VARIABLES buffer,     \* buffer_: the slots
          head,       \* head_: next slot the producer writes
          tail,       \* tail_: next slot the consumer reads
          ppc,        \* producer: "idle" or "publish" (slot written, head not yet stored)
          pushResult, \* value push last returned to its caller: "none", "ok", "full"
          cpc,        \* consumer: "idle" or "commit" (slot copied, tail not yet stored)
          slotCopy,   \* the consumer's copy of the slot, taken before tail is stored
          out         \* out_event as the consumer's caller sees it after pop returns

vars == <<buffer, head, tail, ppc, pushResult, cpc, slotCopy, out>>

TypeOK ==
  /\ buffer \in [Slots -> Values \cup {NoEvent}]
  /\ head \in Slots /\ tail \in Slots
  /\ ppc \in {"idle", "publish"}
  /\ pushResult \in {"none", "ok", "full"}
  /\ cpc \in {"idle", "commit"}
  /\ slotCopy \in Values \cup {NoEvent}
  /\ out \in Values \cup {NoEvent}

(* RingBuffer(): head_(0), tail_(0), buffer_.resize(Capacity). *)
Init ==
  /\ buffer = [i \in Slots |-> NoEvent]
  /\ head = 0 /\ tail = 0
  /\ ppc = "idle" /\ pushResult = "none"
  /\ cpc = "idle" /\ slotCopy = NoEvent /\ out = NoEvent

(* Fault variants of the code below, each a plausible slip in it.        *)
(* push without the full check: the producer may lap the consumer.        *)
PushBeginNoFullCheck(v) ==
  /\ ppc = "idle"
  /\ buffer' = [buffer EXCEPT ![head] = v]
  /\ ppc' = "publish"
  /\ UNCHANGED <<pushResult, head, tail, cpc, slotCopy, out>>

(* pop whose empty check is off by one: it waits for a second event.      *)
PopBeginOffByOne ==
  /\ cpc = "idle"
  /\ (tail + 1) % Capacity # head
  /\ tail # head
  /\ slotCopy' = buffer[tail]
  /\ cpc' = "commit"
  /\ UNCHANGED <<buffer, head, tail, ppc, pushResult, out>>

(* push, up to the release store: refuse when the slot after head is the  *)
(* consumer's tail, otherwise copy the event into buffer_[head].          *)
PushBegin(v) ==
  /\ ppc = "idle"
  /\ IF (head + 1) % Capacity = tail
       THEN /\ pushResult' = "full"
            /\ UNCHANGED <<buffer, ppc>>
       ELSE /\ buffer' = [buffer EXCEPT ![head] = v]
            /\ ppc' = "publish"
            /\ UNCHANGED pushResult
  /\ UNCHANGED <<head, tail, cpc, slotCopy, out>>

(* A fault variant: next_head computed without the modulo.                 *)
PushPublishNoWrap ==
  /\ ppc = "publish"
  /\ head' = head + 1
  /\ ppc' = "idle"
  /\ pushResult' = "ok"
  /\ UNCHANGED <<buffer, tail, cpc, slotCopy, out>>

(* push: head_.store(next_head, release); return true. *)
PushPublish ==
  /\ ppc = "publish"
  /\ head' = (head + 1) % Capacity
  /\ ppc' = "idle"
  /\ pushResult' = "ok"
  /\ UNCHANGED <<buffer, tail, cpc, slotCopy, out>>

(* pop, up to the release store: fail when tail equals head, otherwise    *)
(* copy buffer_[tail] out.  A failed pop changes nothing.                  *)
PopBegin ==
  /\ cpc = "idle"
  /\ tail # head
  /\ slotCopy' = buffer[tail]
  /\ cpc' = "commit"
  /\ UNCHANGED <<buffer, head, tail, ppc, pushResult, out>>

(* pop: tail_.store(next_tail, release); return true with out_event set. *)
PopCommit ==
  /\ cpc = "commit"
  /\ tail' = (tail + 1) % Capacity
  /\ out' = slotCopy
  /\ cpc' = "idle"
  /\ UNCHANGED <<buffer, head, ppc, pushResult, slotCopy>>

Next ==
  \/ \E v \in Values : PushBegin(v)
  \/ PushPublish
  \/ PopBegin
  \/ PopCommit

(* The processing thread polls pop in a loop while it runs (pipeline.cpp  *)
(* processing_worker), so the consumer is weakly fair.  The producer only *)
(* pushes when a datagram or frame arrives: it is not.                    *)
Spec == Init /\ [][Next]_vars /\ WF_vars(PopBegin) /\ WF_vars(PopCommit)

-----------------------------------------------------------------------------
(* The events pushed and not yet popped, oldest first: the slots from     *)
(* tail up to head.                                                        *)
Published ==
  [i \in 1 .. (head - tail + Capacity) % Capacity |->
     buffer[(tail + i - 1) % Capacity]]

(* The ring implements a FIFO queue of Capacity - 1 events: every pop     *)
(* returns the oldest published event intact (the copy is taken before    *)
(* tail is released, and push never writes the slot at tail), and push    *)
(* refuses only when Capacity - 1 events are waiting.  Breaking it takes  *)
(* the producer lapping the consumer or a slot read after its release.    *)
Queue == INSTANCE BoundedQueue WITH Bound <- Capacity - 1, queue <- Published,
                                     lastPopped <- out
QueueRefinement == Queue!Spec

(* Every event that is published is eventually handed to the consumer,   *)
(* whether or not the producer pushes again: the slot at tail is popped.  *)
EventualDelivery ==
  \A i \in Slots : (tail = i /\ tail # head) ~> (tail # i)

(* Spec section 4.1 / scenario 1: a ring of Capacity slots holds Capacity *)
(* events before push fails ("all 8 slots full" for Capacity 8).          *)
SpecQueue == INSTANCE BoundedQueue WITH Bound <- Capacity, queue <- Published,
                                         lastPopped <- out
SpecCapacityRefinement == SpecQueue!Spec
=============================================================================
