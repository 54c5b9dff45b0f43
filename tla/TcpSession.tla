----------------------------- MODULE TcpSession -----------------------------
(***************************************************************************)
(* TCP ingestion of blackbox-core/src/ingest/tcp_server.cpp: the acceptor *)
(* with its per-connection rate-limit check, and each TcpSession's read    *)
(* loop with the newline framing of process_buffer and its sticky buffer.  *)
(*                                                                         *)
(* All handlers run on the ingest thread's io_context, one at a time, so   *)
(* each completion handler is one atomic step.  A connection's byte stream *)
(* is fixed in Init; each read delivers its next 1..ReadMax bytes, the     *)
(* split chosen by the network.  Bytes are abstracted to a small alphabet  *)
(* containing the newline NL; a frame is the byte sequence handed to       *)
(* RingBuffer::push, as the slot stores it (truncated to PayloadMax).      *)
(***************************************************************************)
EXTENDS Naturals, Sequences, SequencesExt

CONSTANTS Conns,      \* connections accepted over the run
          Bytes,      \* byte alphabet
          NL,         \* the newline byte
          ReadMax,    \* max_length of a read_some (4096)
          FrameMax,   \* sticky-buffer limit in process_buffer (8192)
          PayloadMax, \* slot payload size in RingBuffer::push (4096)
          Streams     \* the byte streams a connection may send

ASSUME NL \in Bytes
ASSUME ReadMax \in Nat \ {0} /\ FrameMax \in Nat /\ PayloadMax \in Nat
ASSUME Streams \subseteq Seq(Bytes)

VARIABLES stream,  \* stream[c]: the bytes connection c sends
          pos,     \* pos[c]: how many of them the session has read
          sticky,  \* sticky_buffer_ of c's session
          frames,  \* frames[c]: payloads c's session pushed, in order
          state    \* "accepting", "rejected", "open" or "closed"

vars == <<stream, pos, sticky, frames, state>>

TypeOK ==
  /\ stream \in [Conns -> Streams]
  /\ pos \in [Conns -> Nat]
  /\ sticky \in [Conns -> Seq(Bytes)]
  /\ frames \in [Conns -> Seq(Seq(Bytes))]
  /\ \A c \in Conns : \A i \in DOMAIN frames[c] : Len(frames[c][i]) <= PayloadMax
  /\ state \in [Conns -> {"accepting", "rejected", "open", "closed"}]

(* A fault variant: push without the safety cap on the slot length.       *)
StoredUncapped(f) == f

(* RingBuffer::push stores at most PayloadMax bytes (slot.length cap).    *)
Stored(f) == SubSeq(f, 1, IF Len(f) > PayloadMax THEN PayloadMax ELSE Len(f))

(* chunk.find('\n', start_pos), as a 1-based index, 0 for npos.           *)
FindNL(s) == IF \E i \in 1 .. Len(s) : s[i] = NL
               THEN CHOOSE i \in 1 .. Len(s) : s[i] = NL /\ \A j \in 1 .. i - 1 : s[j] # NL
               ELSE 0

(* A fault variant: sticky_buffer_ not cleared after a stitched line, so  *)
(* its bytes prefix every later line of the same read.                     *)
RECURSIVE ProcessBufferNoClear(_, _, _)
ProcessBufferNoClear(chunk, stk, pushed) ==
  LET nl == FindNL(chunk) IN
  IF nl = 0
    THEN LET grown == stk \o chunk
         IN  <<pushed, IF Len(grown) > FrameMax THEN <<>> ELSE grown>>
    ELSE ProcessBufferNoClear(SubSeq(chunk, nl + 1, Len(chunk)), stk,
                              Append(pushed, Stored(stk \o SubSeq(chunk, 1, nl - 1))))

(* process_buffer: the while loop over the chunk read.  Returns the       *)
(* payloads pushed, in order, and the sticky buffer it leaves.  A line    *)
(* ending in the chunk is pushed directly when sticky is empty and        *)
(* stitched to sticky otherwise (the same bytes either way), after which  *)
(* sticky is cleared; the chunk's unterminated rest is appended to sticky, *)
(* which is dropped whole once it exceeds FrameMax bytes.                 *)
RECURSIVE ProcessBuffer(_, _, _)
ProcessBuffer(chunk, stk, pushed) ==
  LET nl == FindNL(chunk) IN
  IF nl = 0
    THEN LET grown == stk \o chunk
         IN  <<pushed, IF Len(grown) > FrameMax THEN <<>> ELSE grown>>
    ELSE ProcessBuffer(SubSeq(chunk, nl + 1, Len(chunk)), <<>>,
                       Append(pushed, Stored(stk \o SubSeq(chunk, 1, nl - 1))))

Init ==
  /\ stream \in [Conns -> Streams]
  /\ pos = [c \in Conns |-> 0]
  /\ sticky = [c \in Conns |-> <<>>]
  /\ frames = [c \in Conns |-> <<>>]
  /\ state = [c \in Conns |-> "accepting"]

(* start_accept's handler: RateLimiter::should_allow on the peer address  *)
(* either admits the connection (a session starts reading) or closes it.  *)
Accept(c) ==
  /\ state[c] = "accepting"
  /\ \E allowed \in BOOLEAN :
       state' = [state EXCEPT ![c] = IF allowed THEN "open" ELSE "rejected"]
  /\ UNCHANGED <<stream, pos, sticky, frames>>

(* do_read's handler on k bytes: process_buffer(k), then read again.      *)
ReadChunk(c, k) ==
  /\ state[c] = "open"
  /\ pos[c] + k <= Len(stream[c])
  /\ LET r == ProcessBuffer(SubSeq(stream[c], pos[c] + 1, pos[c] + k),
                            sticky[c], frames[c])
     IN /\ frames' = [frames EXCEPT ![c] = r[1]]
        /\ sticky' = [sticky EXCEPT ![c] = r[2]]
  /\ pos' = [pos EXCEPT ![c] = @ + k]
  /\ UNCHANGED <<stream, state>>

(* do_read's handler on eof: the session ends, its sticky bytes with it.  *)
ReadEof(c) ==
  /\ state[c] = "open"
  /\ pos[c] = Len(stream[c])
  /\ state' = [state EXCEPT ![c] = "closed"]
  /\ UNCHANGED <<stream, pos, sticky, frames>>

(* do_read's handler on any other error (reset, abort): the same.         *)
ReadError(c) ==
  /\ state[c] = "open"
  /\ pos[c] < Len(stream[c])
  /\ state' = [state EXCEPT ![c] = "closed"]
  /\ UNCHANGED <<stream, pos, sticky, frames>>

Next ==
  \E c \in Conns :
    \/ Accept(c)
    \/ \E k \in 1 .. ReadMax : ReadChunk(c, k)
    \/ ReadEof(c)
    \/ ReadError(c)

Spec == Init /\ [][Next]_vars

-----------------------------------------------------------------------------
(* Reference framing, independent of the read loop: the complete lines of *)
(* s (the bytes between consecutive newlines) and the unterminated rest.  *)
NLPositions(s) == SetToSortSeq({i \in 1 .. Len(s) : s[i] = NL}, <)
Lines(s) ==
  LET cut == <<0>> \o NLPositions(s)
  IN  [k \in 1 .. Len(cut) - 1 |-> SubSeq(s, cut[k] + 1, cut[k + 1] - 1)]
Rest(s) ==
  LET cut == <<0>> \o NLPositions(s)
  IN  SubSeq(s, cut[Len(cut)] + 1, Len(s))

Consumed(c) == SubSeq(stream[c], 1, pos[c])

(* When no line is longer than FrameMax, whatever sizes the reads have    *)
(* the session has pushed exactly the complete lines it has read, in      *)
(* order and each truncated to PayloadMax, and holds the rest of the      *)
(* current line in sticky.  It takes lines split over several reads, and  *)
(* several lines in one read, to break.                                   *)
FramesAreLines ==
  \A c \in Conns :
    /\ frames[c] = [k \in DOMAIN Lines(Consumed(c)) |-> Stored(Lines(Consumed(c))[k])]
    /\ sticky[c] = Rest(Consumed(c))

(* Spec section 8: for any byte stream split into arbitrary chunks, the   *)
(* frames pushed are the same.  Two connections that sent the same bytes *)
(* and were read to the end have pushed the same frames.                  *)
ChunkingInvariance ==
  \A a, b \in Conns :
    (/\ stream[a] = stream[b]
     /\ pos[a] = Len(stream[a]) /\ pos[b] = Len(stream[b]))
    => frames[a] = frames[b]
=============================================================================
