# TLA+ models of blackbox

Model-checked specifications of the concurrent core of blackbox
(`src/blackbox-core`): the lock-free ring between the ingest and
processing threads, TCP framing, the pipeline's two workers and its
start/stop, the block list with its expiration worker and the host
firewall, and the shutdown signalling of the main thread.

## The system and how its parts interact

```
 UDP datagram ─┐                        ┌─ rule engine / inference engine
 (TCP bytes: C4's TcpServer is not built by Pipeline)
 (C3, C2)      │ ingest thread          │  (verdict)
               │ io_context::run ──push─► C1 ring ──pop─► processing thread (C8)
               │                        │                ├─ trigger_alert (C6) ─► block_ip (C5) ─► iptables
               │                        │                └─ storage enqueue (C7)
 SIGINT/SIGTERM ─► handle_signal ─► main thread wakes ─► Pipeline::stop() joins both threads
                                         C5 expiration worker ─► unblock_ip ─► iptables -D
```

Threads: the ingest thread (all network handlers, one at a time), the
processing thread, the block list's expiration worker, the admin server's
io thread and detached session threads, and the
main thread, which waits for a signal and then calls `stop()`.

## Inventory

| Part | Source | State | Operations | Hard behaviour |
|---|---|---|---|---|
| C1 ring | `ingest/ring_buffer.cpp` | slots, head, tail | push, pop | SPSC interleaving at acquire/release stores; one slot kept free |
| C4 TCP | `ingest/tcp_server.cpp` | per session: sticky buffer | accept, read handler, process_buffer, eof/error | lines split across reads; 8192-byte discard at read boundaries; 4096-byte slot truncation |
| C8 pipeline | `core/pipeline.cpp` | running_, threads, batch | start, stop, ingest_worker, processing_worker | batch drained then finished before the running_ test; ingest crash; join order |
| C5 block list | `analysis/block_list_manager.cpp` | active_blocks_, kernel chain | block_ip, unblock_ip, expiration worker, firewall command | snapshot then re-lock per unblock; rules persist across restarts; failing iptables |
| Signals | `common/signal_handler.cpp` | running_, cv, mutex | handle_signal, trigger_shutdown, wait_for_signal | notify without the mutex: lost wakeup; spurious wakeups |
| C6 alert manager | header only | cooldown map | trigger_alert | threshold 0.95 vs the pipeline's 0.8; cooldown 300 s |
| C2 rate limiter | header only | token buckets | should_allow, cleanup | refill arithmetic |
| Redis publisher | `storage/redis_client.cpp` | context, connected_ | connect, publish | reconnect on publish; failed publish dropped |
| Admin server | `core/admin_server.cpp` | running_, io thread | start, stop, accept, session | detached sessions outlive the server |
| Sentry client | `blackbox-sentry/.../tcp_client.cpp` | connected_ | connect, send_log | handshake gets a second newline; unqueued writes |
| Logger, ids, stats, thread utils, metrics | `common/*.cpp` | counters, files | formatting and I/O | none a property distinguishes |

## Modules

| Module | Models | State ↔ code | Actions ↔ code |
|---|---|---|---|
| `BoundedQueue` | what C1 promises | `queue`, `pushResult`, `lastPopped` | Enqueue, Refuse, Dequeue |
| `RingBuffer` | `RingBuffer::push`, `pop` | `buffer_`, `head_`, `tail_`, producer/consumer program counters, the consumer's slot copy | PushBegin (load, full test, slot write) / PushPublish (release head); PopBegin (empty test, copy) / PopCommit (release tail) |
| `TcpSession` | `TcpServer::start_accept`, `TcpSession::do_read`, `process_buffer` | per connection: byte stream, read position, `sticky_buffer_`, frames pushed | Accept (rate-limit verdict as a choice), ReadChunk (k bytes then the recursive `ProcessBuffer`), ReadEof, ReadError |
| `BlockList` | `BlockListManager`, `execute_firewall_command` | domain of `active_blocks_`, ban ages, the INPUT chain as a sequence, the worker's `expired_ips`, restart and failure counters | BlockIp, UnblockIp, Tick (steady_clock), Scan (the locked snapshot), WorkerUnblock (one `unblock_ip` of the loop), Restart |
| `SignalHandler` | `wait_for_signal`, `handle_signal`, `trigger_shutdown` | `running_`, main thread's point in `cv_.wait`, a pending notify, each delivery's progress | Check, Block, Wake, SpuriousWake, Deliver (CAS), Notify |
| `RedisPublisher` | `RedisClient::connect`, `publish` | `context_` (null, or a live or dead link), `connected_`, the server's state, messages delivered and lost | Publish (lazy reconnect, PUBLISH, drop on NULL reply), ServerCrash, ServerStart (environment) |
| `Pipeline` | `Pipeline::start/stop/ingest_worker/processing_worker`, composed with `RingBuffer` and `AdminServer` (no clients) through `INSTANCE` | the ring's variables, the admin server's lifecycle variables, plus `running_`, the io_context's stopped flag, each thread's point, `batch_logs`, the storage history, `inferences_`, the trigger_alert calls | Start (with the admin server's start), Stop (with its stop), JoinAdmin, AdminIoReturn (the admin io thread), JoinIngest, JoinProc, ReceivePush/ReceivePublish (ring push), IngestExit, IngestCrash, Top, DrainPop/DrainCommit (ring pop), DrainEnd, ProcessLog, ClearBatch |
| `AdminServer` | `AdminServer` start, stop, destructor, `run_worker`, `start_accept`, `handle_session`, `generate_response` | `running_`, the io_context's stopped flag, an outstanding `async_accept`, the io thread's point, main's point, per connection its session's point, what the client sent and what `read_some` returned, the status answered | Start, Stop, Join, Destroy, IoReturn, Accept, AcceptError, SessionRead, SessionWrite. ClientConnect and ClientSend are the environment |
| `SentryLink` | the agent's `TcpClient` (connect, connect handler with the handshake, `send_log`, `async_write`) and the core session reading it, through `INSTANCE TcpSession` for `ProcessBuffer` | `connected_`, the lines `send_log` wrote, the bytes each write has put out, the wire, the core session's read position, sticky buffer and frames | Connect, ConnectHandler, SendLog, WriteSome (one write_some of a composed async_write), ServerRead |

Each `MC*.tla` fixes the constants for TLC. Fault variants (`...NoFullCheck`,
`...NoClear`, ...) sit just before the definition they vary and are used only
to show that a property can fail.

## Runs

| Run | Checks | Result |
|---|---|---|
| `ring_fifo` | TypeOK, `QueueRefinement` (the ring implements `BoundedQueue` with bound Capacity−1), `EventualDelivery` | pass |
| `ring_capacity` | `SpecCapacityRefinement` (bound = Capacity, as spec §4.1 says) | violation: the 4th push into 4 slots is refused |
| `tcp_framing` | TypeOK, `FramesAreLines` (frames = the complete lines read, each truncated to the slot size; sticky = the rest) | pass |
| `tcp_chunking` | `ChunkingInvariance` (spec §8) | violation: `AAAAA\n` read as 1,2,2,1 bytes pushes an empty frame, as 2,2,2 pushes `AA` |
| `blocklist` | TypeOK, `FirewallMatchesBlocks` (claimed while no iptables call has failed and no restart has happened), `NoEarlyUnblock`, `BanEventuallyLifted`, with up to two failing calls and one restart | pass, 37,108 states |
| `blocklist_restart` | `LiftedBanLeavesNoRule` | violation: block, restart, block (two rules), expiry leaves one rule |
| `signal_lost_wakeup` | `ShutdownObserved` | violation: check, signal, notify (nobody waiting), block forever |
| `pipeline` | TypeOK, `PersistedInOrder`, `NoMidBatchAbandon`, `VerdictsMatchLogs`, `EventualPersistence`, `ShutdownCompletes` (stop() returns, through the admin server's join and both workers' joins) | pass, 260,664 states. Both the pipeline's and the admin server's `stop()` without `io_context_->stop()` break `ShutdownCompletes` |
| `redis_drops` | `LossesBoundedByCrashes` | pass |
| `admin_accept` | `AcceptedWhileRunning`: a client queued while the admin server runs is accepted (or reset) unless the server stops | pass, 18,767 states. `AcceptErrorNoRearm` breaks it |
| `admin_detached` | `NoSessionOutlivesServer` | violation: a detached `handle_session` thread is still in `read_some` when the server and its io_context are freed |
| `pipeline_health` | `HealthyMeansIngesting` | violation: the ingest thread crashes, `running_` stays true |

Every property of a passing run has a mutant in `PROJECT.json`: a fault
variant of the code that TLC shows violates it.

## Bounds

- Ring: 4 slots (3 usable) and 2 event values, so the full test, wrap-around
  and a lapped slot are all reachable. In `Pipeline`: 3 slots, batch size 2,
  4 events, 4 verdict classes, so a batch empties the ring, a push is
  refused, and events span two batches.
- TCP: streams of up to 7 bytes over `{A, \n}`, reads of 1–2 bytes, a
  sticky limit of 4 and a slot of 2 bytes. Lines are longer than the slot,
  several lines fit in one read, and a line spans several reads.
  `tcp_framing` keeps lines within the sticky limit. `tcp_chunking` uses all
  streams of 6 bytes on two connections.
- Block list: two valid addresses and one the command check rejects, a
  duration of 2 ticks with ages capped at 3, at most 1 restart and 2 failing
  commands.
- Redis: five publishes and two server crashes: a crash while connected, one
  while disconnected, and publishes while the server is down and after it
  returns.
- Signals: four deliveries, enough for a winner, losers, and a late notify.
- Pipeline: `MayRestart` lets `start()` follow `stop()`. It is TRUE in
  `MCPipeline.cfg`, so every property there also holds across a restart.
- Admin server: two clients and no restart (`MayRestart` FALSE).
  Inside `Pipeline` it has no clients: there it shows only that `stop()`
  can join its io thread.
  In `MCAdminServer.cfg` one client can be served
  while the other is queued, reset, or holding its session open.
- Sentry: a handshake and two log lines, three messages of three bytes that
  can be in flight together, and core reads of one or two bytes.

## Fairness

- The processing thread polls `pop` in a loop, so the consumer and the
  worker's steps are weakly fair.
- The expiration worker and the clock are weakly fair (a 5-second sleep).
- The main thread's joins are weakly fair, and so is a handler that won the
  compare-exchange.
- No fairness is assumed for arriving datagrams, signals, spurious wakeups,
  `stop()` being called, crashes, or restarts.
- `CHECK_DEADLOCK FALSE` is set only where the program really ends: after
  `stop()` returns, after `wait_for_signal` returns, and after all TCP
  connections close, and when a bounded run's calls are used up (Redis).

## Further checks

These configurations check the `AdminServer` and `SentryLink` modules and the
Pipeline restart. They are not among the runs listed in `PROJECT.json`, and
each can be run with `tlc -config <cfg> <MC module>`.

| Configuration | Checks | Result |
|---|---|---|
| `MCAdminServerRestart.cfg` | `AcceptedWhileRunning` with restarts (`MayRestart` TRUE) | violation: `stop()` stops `io_context_` and `start()` never restarts it, so the second io thread returns at once while `running_` is true |
| `MCAdminServerPartialRead.cfg` | `HealthProbeAnswered` | violation: one `read_some` returns only `GET` and the probe is answered 404 |
| `MCPipelineRestart.cfg` | `HealthyMeansIngesting`, with no crash | violation: start, stop, start, after which the ingest thread leaves the stopped context at once |
| `MCSentryLink.cfg` | `AllBytesDelivered` | pass, 46,336 states. The mutant `WriteSomeOnce` breaks it |
| `MCSentryLinkHandshake.cfg` | `OneFramePerLine` (spec §6: the handshake is one frame) | violation: `HELLO AGENT_ID=<id>\n` plus `send_log`'s `\n` gives the core an extra empty frame |
| `MCSentryLinkTorn.cfg` | `NoTornFrames` | violation: two unqueued `async_write`s interleave and the core frames a mix of two lines |

## Not modelled

- The rate limiter (C2) and the alert manager (C6): the repository has only
  their headers (`rate_limiter.h`, `alert_manager.h`). The implementations
  are not there, so there is no code to translate.
- The metrics reporter (`metrics.cpp`): nothing in `src/` calls
  `start_reporter` or `get_prometheus_metrics`, so the reporter thread is
  never started. The counters are relaxed `fetch_add`s that no property
  tells apart. `Pipeline` keeps `inferences_` where a property reads it.
- Logging, id generation, /proc statistics and thread tuning are I/O
  without a property to check.
- The ClickHouse client (`insert_logs`) is called only from the storage
  engine, which has no source here. The UDP server, parser and detectors
  have no source either. The UDP receive handler is modelled from the
  spec, and the detectors are reduced to a verdict class.
- `TcpServer` is never instantiated in `src/`. `TcpSession` models it on
  its own, not on the pipeline's ingest thread.
