--------------------------- MODULE RedisPublisher ---------------------------
(***************************************************************************)
(* The pub/sub publisher of blackbox-core/src/storage/redis_client.cpp     *)
(* against a Redis server that may crash and come back.                    *)
(*                                                                         *)
(* publish holds mutex_ for its whole body, so each call is one step: a    *)
(* lazy reconnect when connected_ is false or context_ is null, then one   *)
(* PUBLISH whose NULL reply frees the context and drops the message.  The  *)
(* context_ pointer is "null", or a hiredis context whose TCP link to the  *)
(* server is "live", or "dead" (the server it was opened to has since      *)
(* gone down; writes on it fail even after the server is back).  The       *)
(* messages are the alert path's publishes, numbered in call order.        *)
(***************************************************************************)
EXTENDS Naturals, Sequences, FiniteSets

CONSTANTS MaxPublishes, \* publish calls in a run
          MaxCrashes    \* server crashes in a run

ASSUME MaxPublishes \in Nat /\ MaxCrashes \in Nat

VARIABLES context,   \* context_: "null", "live" or "dead"
          connected, \* connected_
          server,    \* the Redis server: "up" or "down"
          crashes,   \* server crashes so far
          calls,     \* publish calls so far
          delivered, \* messages the server received, in order
          lost       \* <<i, s>>: message i was dropped while the server was s

vars == <<context, connected, server, crashes, calls, delivered, lost>>

TypeOK ==
  /\ context \in {"null", "live", "dead"}
  /\ connected \in BOOLEAN
  /\ server \in {"up", "down"}
  /\ crashes \in 0 .. MaxCrashes
  /\ calls \in 0 .. MaxPublishes
  /\ delivered \in Seq(1 .. MaxPublishes)
  /\ lost \subseteq (1 .. MaxPublishes) \X {"up", "down"}

(* connect(): free any old context, then redisConnectWithTimeout, which    *)
(* yields a usable context only when the server is up; otherwise the       *)
(* context (or its allocation failure) leaves context_ null.  The result   *)
(* as <<context_, connected_>>.                                            *)
Connect == IF server = "up" THEN <<"live", TRUE>> ELSE <<"null", FALSE>>

(* RedisClient(host, port): the constructor calls connect() once.          *)
Init ==
  /\ server \in {"up", "down"}
  /\ context = Connect[1]
  /\ connected = Connect[2]
  /\ crashes = 0 /\ calls = 0
  /\ delivered = <<>>
  /\ lost = {}

Drop(m, st) == lost' = lost \cup {<<m, st>>}

(* A fault variant: a NULL reply logged, but the context kept and still   *)
(* marked connected.                                                      *)
PublishKeepContext ==
  /\ calls < MaxPublishes
  /\ LET m == calls + 1
         needs == ~connected \/ context = "null"
         ctx == IF needs THEN Connect[1] ELSE context
     IN /\ calls' = m
        /\ IF needs /\ ~Connect[2]
             THEN /\ Drop(m, server)
                  /\ context' = ctx /\ connected' = FALSE
                  /\ UNCHANGED delivered
           ELSE IF ctx = "live" /\ server = "up"
             THEN /\ delivered' = Append(delivered, m)
                  /\ context' = ctx /\ connected' = TRUE
                  /\ UNCHANGED lost
           ELSE /\ Drop(m, server)
                /\ context' = ctx /\ connected' = TRUE
                /\ UNCHANGED delivered
  /\ UNCHANGED <<server, crashes>>

(* publish(channel, message): reconnect when needed, dropping the message *)
(* if that fails; then PUBLISH, which reaches the server only over a live *)
(* link to a running server.  A NULL reply frees the context, clears       *)
(* connected_ and drops the message.                                       *)
Publish ==
  /\ calls < MaxPublishes
  /\ LET m == calls + 1
         needs == ~connected \/ context = "null"
         ctx == IF needs THEN Connect[1] ELSE context
     IN /\ calls' = m
        /\ IF needs /\ ~Connect[2]
             THEN /\ Drop(m, server)
                  /\ context' = "null" /\ connected' = FALSE
                  /\ UNCHANGED delivered
           ELSE IF ctx = "live" /\ server = "up"
             THEN /\ delivered' = Append(delivered, m)
                  /\ context' = ctx /\ connected' = TRUE
                  /\ UNCHANGED lost
           ELSE /\ Drop(m, server)
                /\ context' = "null" /\ connected' = FALSE
                /\ UNCHANGED delivered
  /\ UNCHANGED <<server, crashes>>

(* The server goes down: every open link to it breaks.                    *)
ServerCrash ==
  /\ server = "up" /\ crashes < MaxCrashes
  /\ server' = "down"
  /\ crashes' = crashes + 1
  /\ context' = IF context = "live" THEN "dead" ELSE context
  /\ UNCHANGED <<connected, calls, delivered, lost>>

(* The server comes back; old links stay broken.                          *)
ServerStart ==
  /\ server = "down"
  /\ server' = "up"
  /\ UNCHANGED <<context, connected, crashes, calls, delivered, lost>>

Next == Publish \/ ServerCrash \/ ServerStart

Spec == Init /\ [][Next]_vars

-----------------------------------------------------------------------------
LostWhileUp == {r \in lost : r[2] = "up"}

(* Spec section 7: a failed publish is dropped and the connection is       *)
(* re-established on the next one.  So a message is lost while the server  *)
(* is running only as the first publish over a link some crash broke: at   *)
(* most one such loss per crash, however the crashes and calls interleave.*)
LossesBoundedByCrashes ==
  Cardinality(LostWhileUp) <= crashes

=============================================================================
