----------------------------- MODULE SentryLink -----------------------------
(***************************************************************************)
(* The shipping agent's TcpClient (blackbox-sentry/src/shipper/           *)
(* tcp_client.cpp) on one connection to the core's TcpSession, whose       *)
(* newline framing is TcpSession's ProcessBuffer.                          *)
(*                                                                         *)
(* The agent runs one io_context: the connect handler and send_log calls   *)
(* are steps of it, and each async_write is a sequence of write_some       *)
(* steps, each putting the next 1..n bytes of its message on the wire.     *)
(* send_log keeps no queue, so the write_some steps of two messages        *)
(* interleave.  TCP delivers the wire in order; the core's session reads   *)
(* it in chunks of 1..ReadMax bytes.  Bytes are abstracted: a log line is  *)
(* two copies of its own symbol, the handshake line is Hello then NL.      *)
(***************************************************************************)
EXTENDS Naturals, Sequences, SequencesExt, FiniteSets

CONSTANTS Logs,    \* the lines the agent ships, one symbol each
          Hello,   \* "HELLO AGENT_ID=<id>"
          NL,      \* '\n'
          ReadMax  \* bytes per read_some of the core's session

ASSUME ReadMax \in Nat \ {0} /\ Hello \notin Logs /\ NL \notin Logs \cup {Hello}

Framing == INSTANCE TcpSession
             WITH Conns <- {}, Bytes <- Logs \cup {Hello, NL}, Streams <- {},
                  FrameMax <- 8192, PayloadMax <- 4096,
                  stream <- <<>>, pos <- <<>>, sticky <- <<>>, frames <- <<>>,
                  state <- <<>>

VARIABLES cpc,        \* "init", "connecting" or "done" (the connect handler ran)
          connected,  \* connected_
          called,     \* logs passed to send_log so far
          issued,     \* lines send_log wrote, in call order
          written,    \* written[i]: bytes of the i-th async_write handled so far
          wire,       \* bytes written to the socket, in order
          rpos,       \* bytes the core's session has read
          sticky,     \* the session's sticky_buffer_
          frames      \* payloads the session pushed, in order

vars == <<cpc, connected, called, issued, written, wire, rpos, sticky, frames>>

HelloLine == <<Hello, NL>>       \* "HELLO AGENT_ID=" + agent_id_ + "\n"
LogLine(l) == <<l, l>>

(* send_log: the message written is log_line + "\n".                       *)
Message(line) == line \o <<NL>>

TypeOK ==
  /\ cpc \in {"init", "connecting", "done"}
  /\ connected \in BOOLEAN
  /\ called \subseteq Logs
  /\ issued \in Seq({HelloLine} \cup {LogLine(l) : l \in Logs})
  /\ written \in Seq(0 .. 3) /\ Len(written) = Len(issued)
  /\ wire \in Seq(Logs \cup {Hello, NL})
  /\ rpos \in 0 .. Len(wire)
  /\ frames \in Seq(Seq(Logs \cup {Hello, NL}))

(* send_log(line): dropped unless connected_; otherwise one async_write   *)
(* of the message, with no queue in front of it.                          *)
SendLine(isConnected, line) ==
  IF isConnected
    THEN /\ issued' = Append(issued, line)
         /\ written' = Append(written, 0)
    ELSE UNCHANGED <<issued, written>>

Init ==
  /\ cpc = "init" /\ connected = FALSE
  /\ called = {} /\ issued = <<>> /\ written = <<>>
  /\ wire = <<>> /\ rpos = 0 /\ sticky = <<>> /\ frames = <<>>

(* connect() -> do_connect(): resolve, then async_connect.                 *)
Connect ==
  /\ cpc = "init"
  /\ cpc' = "connecting"
  /\ UNCHANGED <<connected, called, issued, written, wire, rpos, sticky, frames>>

(* The connect handler: on success set connected_ and send the handshake  *)
(* through send_log; on failure clear connected_ (no retry).              *)
ConnectHandler ==
  /\ cpc = "connecting"
  /\ cpc' = "done"
  /\ \/ connected' = TRUE /\ SendLine(TRUE, HelloLine)
     \/ connected' = FALSE /\ UNCHANGED <<issued, written>>
  /\ UNCHANGED <<called, wire, rpos, sticky, frames>>

(* The agent ships log line l.                                             *)
SendLog(l) ==
  /\ l \notin called
  /\ called' = called \cup {l}
  /\ SendLine(connected, LogLine(l))
  /\ UNCHANGED <<cpc, connected, wire, rpos, sticky, frames>>

(* Outstanding async_writes: the i-th message and its unwritten bytes.    *)
Inflight == {i \in DOMAIN issued : written[i] < Len(Message(issued[i]))}
Unwritten(i) == Len(Message(issued[i])) - written[i]

(* A fault variant: a single async_write_some per message, its unwritten  *)
(* rest forgotten.                                                         *)
WriteSomeOnce(i, k) ==
  /\ i \in Inflight /\ k \in 1 .. Unwritten(i)
  /\ wire' = wire \o SubSeq(Message(issued[i]), written[i] + 1, written[i] + k)
  /\ written' = [written EXCEPT ![i] = Len(Message(issued[i]))]
  /\ UNCHANGED <<cpc, connected, called, issued, rpos, sticky, frames>>

(* One write_some of async_write: the next k bytes of the i-th message.   *)
(* The write completes when its last byte is out.                         *)
WriteSome(i, k) ==
  /\ i \in Inflight /\ k \in 1 .. Unwritten(i)
  /\ wire' = wire \o SubSeq(Message(issued[i]), written[i] + 1, written[i] + k)
  /\ written' = [written EXCEPT ![i] = @ + k]
  /\ UNCHANGED <<cpc, connected, called, issued, rpos, sticky, frames>>

(* The core's session: do_read's handler on the next k bytes.             *)
ServerRead(k) ==
  /\ rpos + k <= Len(wire)
  /\ LET r == Framing!ProcessBuffer(SubSeq(wire, rpos + 1, rpos + k), sticky, frames)
     IN /\ frames' = r[1]
        /\ sticky' = r[2]
  /\ rpos' = rpos + k
  /\ UNCHANGED <<cpc, connected, called, issued, written, wire>>

Next ==
  \/ Connect \/ ConnectHandler
  \/ \E l \in Logs : SendLog(l)
  \/ \E i \in Inflight : \E k \in 1 .. Unwritten(i) : WriteSome(i, k)
  \/ \E k \in 1 .. ReadMax : ServerRead(k)

(* Both io_contexts run their handlers, and the kernel moves the bytes:   *)
(* writes and reads are weakly fair.  The agent need not ship anything.   *)
Fairness ==
  /\ WF_vars(ConnectHandler)
  /\ WF_vars(\E i \in Inflight : \E k \in 1 .. Unwritten(i) : WriteSome(i, k))
  /\ WF_vars(\E k \in 1 .. ReadMax : ServerRead(k))

Spec == Init /\ [][Next]_vars /\ Fairness

-----------------------------------------------------------------------------
(* Bytes send_log handed to async_write.                                   *)
IssuedBytes == FoldLeft(LAMBDA acc, line : acc + Len(Message(line)), 0, issued)

(* Every byte send_log accepted reaches the core's session: async_write   *)
(* keeps writing until its whole message is out, however the writes of    *)
(* several messages interleave.                                           *)
AllBytesDelivered ==
  \A n \in 1 .. 3 * (Cardinality(Logs) + 1) :
    (IssuedBytes >= n) ~> (rpos >= n)

(* Spec section 6: the handshake is one well-formed frame, processed like *)
(* any log.  So the core never frames more payloads than send_log calls   *)
(* wrote lines.                                                            *)
OneFramePerLine == Len(frames) <= Len(issued)

(* Each frame the core pushes is (a prefix of) one line the agent sent:   *)
(* no frame holds bytes of two different lines.                           *)
NoTornFrames == \A i \in DOMAIN frames : Cardinality(Range(frames[i])) <= 1

=============================================================================
