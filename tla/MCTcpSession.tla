---------------------------- MODULE MCTcpSession ----------------------------
(* TcpSession scaled down by 2048: reads of at most 2 bytes, a sticky    *)
(* limit of 4 and 2-byte slots keep the code's ratios (4096 : 8192 : 4096).*)
(* Streams of 7 bytes over {A, NL} hold lines split over up to four reads,*)
(* several lines per read, empty lines and lines longer than a slot.      *)
EXTENDS TcpSession

CONSTANTS A, conn1, conn2

MCBytes == {A, NL}
MCReadMax == 2
MCFrameMax == 4
MCPayloadMax == 2

AllStreams(n) == [1 .. n -> MCBytes]

(* Streams in which no line, terminated or not, exceeds the sticky limit. *)
ShortLineStreams ==
  {s \in AllStreams(7) :
     /\ \A k \in DOMAIN Lines(s) : Len(Lines(s)[k]) <= MCFrameMax
     /\ Len(Rest(s)) <= MCFrameMax}

LongLineStreams == AllStreams(6)
=============================================================================
