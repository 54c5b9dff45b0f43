------------------------- MODULE MCRedisPublisher -------------------------
EXTENDS RedisPublisher

(* Two crashes and five publishes: a crash while connected, one while     *)
(* already disconnected, publishes while the server is down, and several  *)
(* after it is back.                                                      *)
MCMaxPublishes == 5
MCMaxCrashes == 2
=============================================================================
