---------------------------- MODULE MCRingBuffer ----------------------------
(* RingBuffer with four slots (a power of two, as the build's 65536) and  *)
(* two distinguishable events, enough for the producer to lap the         *)
(* consumer and for a stale slot to differ from a fresh one.              *)
EXTENDS RingBuffer

CONSTANTS e1, e2

MCCapacity == 4
MCValues == {e1, e2}
=============================================================================
