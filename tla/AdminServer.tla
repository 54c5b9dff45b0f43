---------------------------- MODULE AdminServer ----------------------------
(***************************************************************************)
(* The ops endpoint of blackbox-core/src/core/admin_server.cpp, driven by  *)
(* Pipeline::start, Pipeline::stop and the Pipeline's destructor.          *)
(*                                                                         *)
(* Threads: the caller of start/stop (main), the io thread running         *)
(* io_context_->run(), and one detached handle_session thread per accepted *)
(* connection.  The accept handler runs on the io thread as one step: it   *)
(* spawns the session, reads running_ and re-arms async_accept.  A session *)
(* blocks in read_some until its client sends or closes, answers, and ends.*)
(* Clients are environment: they connect, send one request (or close), and *)
(* the kernel hands read_some the whole request or only a prefix of it.    *)
(***************************************************************************)
EXTENDS Naturals, FiniteSets

CONSTANTS Conns,      \* client connections
          MayRestart  \* whether start() may be called again after stop()

ASSUME MayRestart \in BOOLEAN

Methods == {"GET", "POST", ""}
Paths == {"/health", "/metrics", "/other", ""}
Requests == [method : Methods \ {""}, path : Paths \ {""}]

VARIABLES running,    \* running_
          ioStopped,  \* io_context_->stopped()
          accepting,  \* an async_accept is outstanding
          io,         \* io thread: "none", "run" (inside run()) or "done"
          mainPc,     \* "idle", "joining", "stopped" or "destroyed"
          conn,       \* per connection: "idle", "queued", "read", "write", "done"
          sent,       \* per connection: "none", "req" or "eof"
          request,    \* per connection: the request sent, once sent = "req"
          parsed,     \* per connection: method and path read by read_some
          status      \* per connection: the response status, or "none"

vars == <<running, ioStopped, accepting, io, mainPc, conn, sent,
          request, parsed, status>>

TypeOK ==
  /\ running \in BOOLEAN /\ ioStopped \in BOOLEAN /\ accepting \in BOOLEAN
  /\ io \in {"none", "run", "done"}
  /\ mainPc \in {"idle", "joining", "stopped", "destroyed"}
  /\ conn \in [Conns -> {"idle", "queued", "read", "write", "done"}]
  /\ sent \in [Conns -> {"none", "req", "eof"}]
  /\ request \in [Conns -> Requests]
  /\ parsed \in [Conns -> [method : Methods, path : Paths]]
  /\ status \in [Conns -> {"none", "200", "404", "405"}]

(* generate_response and the routing of handle_session: only GET is       *)
(* served, and only /health and /metrics have a body.                     *)
Status(req) ==
  IF req.method # "GET" THEN "405"
  ELSE IF req.path \in {"/health", "/metrics"} THEN "200" ELSE "404"

(* What one read_some can return of a request: all of it, the method      *)
(* without the path, or a part of the method.                             *)
Prefixes(req) ==
  {req, [req EXCEPT !.path = ""], [method |-> "", path |-> ""]}

(* The constructor builds io_context_ and the listening acceptor.          *)
Init ==
  /\ running = FALSE /\ ioStopped = FALSE /\ accepting = FALSE
  /\ io = "none" /\ mainPc = "idle"
  /\ conn = [c \in Conns |-> "idle"]
  /\ sent = [c \in Conns |-> "none"]
  /\ request = [c \in Conns |-> [method |-> "GET", path |-> "/health"]]
  /\ parsed = [c \in Conns |-> [method |-> "", path |-> ""]]
  /\ status = [c \in Conns |-> "none"]

(* start(): past the running_ test, queue the first accept and spawn the   *)
(* io thread.  io_context_ is never restart()ed.                           *)
Start ==
  /\ mainPc = "idle" \/ (MayRestart /\ mainPc = "stopped")
  /\ ~running
  /\ running' = TRUE /\ accepting' = TRUE /\ io' = "run"
  /\ mainPc' = "idle"
  /\ UNCHANGED <<ioStopped, conn, sent, request, parsed, status>>

(* A fault variant: stop() clears running_ but leaves the io_context      *)
(* running.                                                               *)
StopNoIoStop ==
  /\ mainPc = "idle" /\ running
  /\ running' = FALSE
  /\ mainPc' = "joining"
  /\ UNCHANGED <<ioStopped, accepting, io, conn, sent, request,
                 parsed, status>>

(* stop(): past the running_ test, clear running_ and stop the io_context; *)
(* then join the io thread (Join).                                         *)
Stop ==
  /\ mainPc = "idle" /\ running
  /\ running' = FALSE /\ ioStopped' = TRUE
  /\ mainPc' = "joining"
  /\ UNCHANGED <<accepting, io, conn, sent, request, parsed, status>>

Join ==
  /\ mainPc = "joining" /\ io # "run"
  /\ mainPc' = "stopped"
  /\ UNCHANGED <<running, ioStopped, accepting, io, conn, sent,
                 request, parsed, status>>

(* ~Pipeline: stop() (a no-op here), then the AdminServer and its          *)
(* io_context_ are freed.  Detached sessions are not waited for.           *)
Destroy ==
  /\ mainPc \in {"idle", "stopped"} /\ ~running
  /\ mainPc' = "destroyed"
  /\ UNCHANGED <<running, ioStopped, accepting, io, conn, sent,
                 request, parsed, status>>

(* run() returns once the io_context is stopped or has no work left.       *)
IoReturn ==
  /\ io = "run" /\ (ioStopped \/ ~accepting)
  /\ io' = "done"
  /\ UNCHANGED <<running, ioStopped, accepting, mainPc, conn, sent,
                 request, parsed, status>>

(* The accept handler, no error: detach a session thread for the socket,   *)
(* then re-arm if running_.                                                *)
Accept(c) ==
  /\ io = "run" /\ ~ioStopped /\ accepting /\ conn[c] = "queued"
  /\ conn' = [conn EXCEPT ![c] = "read"]
  /\ accepting' = running
  /\ UNCHANGED <<running, ioStopped, io, mainPc, sent, request,
                 parsed, status>>

(* A fault variant: the handler re-arms only after a successful accept.   *)
AcceptErrorNoRearm(c) ==
  /\ io = "run" /\ ~ioStopped /\ accepting /\ conn[c] = "queued"
  /\ conn' = [conn EXCEPT ![c] = "done"]
  /\ accepting' = FALSE
  /\ UNCHANGED <<running, ioStopped, io, mainPc, sent, request,
                 parsed, status>>

(* The accept handler with an error (the queued client reset before the   *)
(* accept completed): no session, but re-arm if running_.                 *)
AcceptError(c) ==
  /\ io = "run" /\ ~ioStopped /\ accepting /\ conn[c] = "queued"
  /\ conn' = [conn EXCEPT ![c] = "done"]
  /\ accepting' = running
  /\ UNCHANGED <<running, ioStopped, io, mainPc, sent, request,
                 parsed, status>>

(* handle_session, read_some: eof or an error ends the session; otherwise  *)
(* the bytes that have arrived are parsed as method and path.              *)
SessionRead(c) ==
  /\ conn[c] = "read" /\ sent[c] # "none"
  /\ IF sent[c] = "eof"
       THEN conn' = [conn EXCEPT ![c] = "done"] /\ UNCHANGED parsed
       ELSE /\ conn' = [conn EXCEPT ![c] = "write"]
            /\ \E p \in Prefixes(request[c]) : parsed' = [parsed EXCEPT ![c] = p]
  /\ UNCHANGED <<running, ioStopped, accepting, io, mainPc, sent, request,
                 status>>

(* handle_session: route, build the response and write it; the thread     *)
(* ends and drops the socket.                                              *)
SessionWrite(c) ==
  /\ conn[c] = "write"
  /\ status' = [status EXCEPT ![c] = Status(parsed[c])]
  /\ conn' = [conn EXCEPT ![c] = "done"]
  /\ UNCHANGED <<running, ioStopped, accepting, io, mainPc, sent, request,
                 parsed>>

ClientConnect(c) ==
  /\ conn[c] = "idle" /\ mainPc # "destroyed"
  /\ conn' = [conn EXCEPT ![c] = "queued"]
  /\ UNCHANGED <<running, ioStopped, accepting, io, mainPc, sent, request,
                 parsed, status>>

ClientSend(c) ==
  /\ conn[c] \in {"queued", "read"} /\ sent[c] = "none"
  /\ \/ sent' = [sent EXCEPT ![c] = "eof"] /\ UNCHANGED request
     \/ /\ sent' = [sent EXCEPT ![c] = "req"]
        /\ \E r \in Requests : request' = [request EXCEPT ![c] = r]
  /\ UNCHANGED <<running, ioStopped, accepting, io, mainPc, conn,
                 parsed, status>>

Next ==
  \/ Start \/ Stop \/ Join \/ Destroy \/ IoReturn
  \/ \E c \in Conns :
       \/ Accept(c) \/ AcceptError(c) \/ SessionRead(c) \/ SessionWrite(c)
       \/ ClientConnect(c) \/ ClientSend(c)

(* The io thread and the session threads run whenever they can, and the    *)
(* join returns once the io thread has ended.  Nothing obliges main to     *)
(* call stop() or a client to send.                                        *)
Fairness ==
  /\ WF_vars(IoReturn) /\ WF_vars(Join)
  /\ \A c \in Conns : WF_vars(Accept(c)) /\ WF_vars(SessionRead(c))
                      /\ WF_vars(SessionWrite(c))

Spec == Init /\ [][Next]_vars /\ Fairness

-----------------------------------------------------------------------------
(* The accept handler re-arms itself while running_ is set, so a client    *)
(* queued on the listening socket is taken by a session while the server  *)
(* runs: it is eventually accepted (or reset), unless the server stops.   *)
AcceptedWhileRunning ==
  \A c \in Conns :
    (conn[c] = "queued" /\ running) ~> (conn[c] # "queued" \/ ~running)

(* A session thread never runs after the server that spawned it, and the  *)
(* io_context_ its socket belongs to, have been freed.                    *)
NoSessionOutlivesServer ==
  mainPc = "destroyed" => \A c \in Conns : conn[c] \notin {"read", "write"}

(* Spec: the health endpoint answers a probe.  A GET /health that a       *)
(* session read and answered is answered 200.                             *)
HealthProbeAnswered ==
  \A c \in Conns :
    (request[c] = [method |-> "GET", path |-> "/health"] /\ status[c] # "none")
      => status[c] = "200"

=============================================================================
