------------------------------ MODULE Pipeline ------------------------------
(***************************************************************************)
(* The orchestrator of blackbox-core/src/core/pipeline.cpp: the ingest     *)
(* thread (io_context running the UDP receiver, which pushes into the      *)
(* ring), the processing thread (micro-batch drain, rule engine, inference *)
(* engine, alert trigger, storage enqueue) and the main thread's start()   *)
(* and stop().  The ring is the RingBuffer module, instantiated on this    *)
(* module's variables, so the two threads interleave at its publishing     *)
(* stores exactly as there.                                                *)
(*                                                                         *)
(* A log is abstracted to what decides its verdict: a rule-engine hit, or  *)
(* the inference engine's score relative to anomaly_threshold (0.8) and    *)
(* the alert manager's CRITICAL_THRESHOLD (0.95): "low" <= 0.8 < "mid" <   *)
(* 0.95 <= "high".  Parsing and GeoIP enrichment are pure and change no    *)
(* verdict, so a popped event is its parsed log.                           *)
(***************************************************************************)
EXTENDS Naturals, Sequences, SequencesExt

CONSTANTS Capacity,     \* ring slots
          BatchSize,    \* ai().batch_size (32)
          MaxEvents,    \* bound on events the ingest thread pushes in a run
          IngestMayCrash, \* whether io_context_->run() may throw out of the ingest thread
          MayRestart,   \* whether start() may be called again after stop()
          NoEvent

ASSUME BatchSize \in Nat \ {0} /\ MaxEvents \in Nat /\ IngestMayCrash \in BOOLEAN
       /\ MayRestart \in BOOLEAN

(* The logs, by verdict: a rule hit, or no hit and an inference score.    *)
Values == {[rule |-> TRUE, ai |-> "none"]} \cup
          {[rule |-> FALSE, ai |-> s] : s \in {"low", "mid", "high"}}

VARIABLES buffer, head, tail, ppc, pushResult, cpc, slotCopy, out, \* the ring
          sent,       \* history: events the producer published, in order
          running,    \* running_
          ctxStopped, \* io_context_->stop() has been called
          ipc,        \* ingest thread: "none", "running", "exited", "crashed"
          wpc,        \* processing thread: "none", "top", "drain", "logic", "exited"
          batch,      \* batch_logs
          idx,        \* position of the log the logic loop handles next
          stored,     \* logs enqueued to storage, with their final score
          inferences, \* Metrics inferences_ counter
          alerts,     \* scores passed to AlertManager::trigger_alert, in order
          mainPc,     \* main thread: "init", "started", "joinAdmin", "joinIngest",
                      \* "joinProc", "stopped"
          adminRunning, adminIoStopped, adminAccepting, adminIo, adminPc
                      \* admin_server_: AdminServer's running, ioStopped,
                      \* accepting, io and mainPc

ringVars == <<buffer, head, tail, ppc, pushResult, cpc, slotCopy, out>>
adminVars == <<adminRunning, adminIoStopped, adminAccepting, adminIo, adminPc>>
pipeVars == <<sent, running, ctxStopped, ipc, wpc, batch, idx, stored, inferences, alerts,
              mainPc, adminVars>>
vars == <<ringVars, pipeVars>>

Ring == INSTANCE RingBuffer

(* admin_server_, with no client connecting: its start() and stop() are   *)
(* steps of the main thread, its io thread runs beside the workers.       *)
Admin == INSTANCE AdminServer
           WITH Conns <- {}, running <- adminRunning, ioStopped <- adminIoStopped,
                accepting <- adminAccepting, io <- adminIo, mainPc <- adminPc,
                conn <- <<>>, sent <- <<>>, request <- <<>>, parsed <- <<>>,
                status <- <<>>

Scores == {"one", "low", "mid", "high"}  \* "one": the 1.0 of a rule hit

TypeOK ==
  /\ Ring!TypeOK
  /\ sent \in Seq(Values) /\ Len(sent) <= MaxEvents
  /\ running \in BOOLEAN /\ ctxStopped \in BOOLEAN
  /\ ipc \in {"none", "running", "exited", "crashed"}
  /\ wpc \in {"none", "top", "drain", "logic", "exited"}
  /\ batch \in Seq(Values) /\ Len(batch) <= BatchSize
  /\ idx \in 1 .. BatchSize + 1
  /\ stored \in Seq([log : Values, score : Scores])
  /\ inferences \in Nat
  /\ alerts \in Seq(Scores)
  /\ mainPc \in {"init", "started", "joinAdmin", "joinIngest", "joinProc", "stopped"}
  /\ Admin!TypeOK

(* Pipeline(): components built, no thread running. *)
Init ==
  /\ Ring!Init
  /\ sent = <<>>
  /\ running = FALSE /\ ctxStopped = FALSE
  /\ ipc = "none" /\ wpc = "none"
  /\ batch = <<>> /\ idx = 1
  /\ stored = <<>> /\ inferences = 0 /\ alerts = <<>>
  /\ mainPc = "init"
  /\ Admin!Init

-----------------------------------------------------------------------------
(* Main thread. *)

(* start(): past the running_ test, running_ = true, admin_server_->     *)
(* start(), then spawn the ingest and processing threads.  Nothing        *)
(* restarts a stopped io_context_, the pipeline's or the admin server's.  *)
Start ==
  /\ mainPc = "init" \/ (MayRestart /\ mainPc = "stopped")
  /\ running' = TRUE
  /\ Admin!Start
  /\ ipc' = "running" /\ wpc' = "top"
  /\ mainPc' = "started"
  /\ UNCHANGED <<ringVars, sent, ctxStopped, batch, idx, stored, inferences, alerts>>

(* A fault variant: stop() that forgets io_context_->stop().               *)
StopKeepContext ==
  /\ mainPc = "started"
  /\ running' = FALSE
  /\ Admin!Stop
  /\ mainPc' = "joinAdmin"
  /\ UNCHANGED <<ringVars, sent, ctxStopped, ipc, wpc, batch, idx, stored, inferences, alerts>>

(* stop(): running_ = false; io_context_->stop(); admin_server_->stop(),  *)
(* which stops the admin io_context and joins its thread (JoinAdmin).      *)
Stop ==
  /\ mainPc = "started"
  /\ running' = FALSE
  /\ ctxStopped' = TRUE
  /\ Admin!Stop
  /\ mainPc' = "joinAdmin"
  /\ UNCHANGED <<ringVars, sent, ipc, wpc, batch, idx, stored, inferences, alerts>>

JoinAdmin ==
  /\ mainPc = "joinAdmin"
  /\ Admin!Join
  /\ mainPc' = "joinIngest"
  /\ UNCHANGED <<ringVars, sent, running, ctxStopped, ipc, wpc, batch, idx, stored, inferences, alerts>>

(* The admin io thread: run() returns once its io_context is stopped.     *)
AdminIoReturn ==
  /\ Admin!IoReturn
  /\ UNCHANGED <<ringVars, sent, running, ctxStopped, ipc, wpc, batch, idx, stored, inferences, alerts, mainPc>>

(* stop(): ingest_thread_.join(), then processing_thread_.join().          *)
JoinIngest ==
  /\ mainPc = "joinIngest"
  /\ ipc \in {"exited", "crashed"}
  /\ mainPc' = "joinProc"
  /\ UNCHANGED <<ringVars, sent, running, ctxStopped, ipc, wpc, batch, idx, stored, inferences, alerts, adminVars>>

JoinProc ==
  /\ mainPc = "joinProc"
  /\ wpc = "exited"
  /\ mainPc' = "stopped"
  /\ UNCHANGED <<ringVars, sent, running, ctxStopped, ipc, wpc, batch, idx, stored, inferences, alerts, adminVars>>

-----------------------------------------------------------------------------
(* Ingest thread: io_context_->run() dispatching receive handlers.  A      *)
(* datagram admitted by the rate limiter is pushed; a refused push only    *)
(* counts a drop.  Each handler runs to completion before run() returns.   *)

ReceivePush(v) ==
  /\ ipc = "running" /\ ~ctxStopped
  /\ Len(sent) < MaxEvents
  /\ Ring!PushBegin(v)
  /\ UNCHANGED pipeVars

ReceivePublish ==
  /\ Ring!PushPublish
  /\ sent' = Append(sent, buffer[head])
  /\ UNCHANGED <<running, ctxStopped, ipc, wpc, batch, idx, stored, inferences, alerts, mainPc, adminVars>>

(* run() returns once the context is stopped, between handlers.           *)
IngestExit ==
  /\ ipc = "running" /\ ctxStopped /\ ppc = "idle"
  /\ ipc' = "exited"
  /\ UNCHANGED <<ringVars, sent, running, ctxStopped, wpc, batch, idx, stored, inferences, alerts, mainPc, adminVars>>

(* An exception escapes run(): logged as "Ingestion Thread Crashed" and    *)
(* the thread ends; nothing else is told.                                  *)
IngestCrash ==
  /\ IngestMayCrash
  /\ ipc = "running" /\ ppc = "idle"
  /\ ipc' = "crashed"
  /\ UNCHANGED <<ringVars, sent, running, ctxStopped, wpc, batch, idx, stored, inferences, alerts, mainPc, adminVars>>

-----------------------------------------------------------------------------
(* Processing thread: processing_worker. *)

(* while (running_): the loop test, once per iteration. *)
Top ==
  /\ wpc = "top"
  /\ wpc' = IF running THEN "drain" ELSE "exited"
  /\ UNCHANGED <<ringVars, sent, running, ctxStopped, ipc, batch, idx, stored, inferences, alerts, mainPc, adminVars>>

(* A fault variant: the drain loop without its collected < BATCH_SIZE    *)
(* test.                                                                   *)
DrainPopNoLimit ==
  /\ wpc = "drain"
  /\ Ring!PopBegin
  /\ UNCHANGED pipeVars

(* STEP 1: while (collected < BATCH_SIZE && ring_buffer_.pop(raw_event))  *)
(* batch_logs.push_back(parser_.process(raw_event)).                      *)
DrainPop ==
  /\ wpc = "drain" /\ Len(batch) < BatchSize
  /\ Ring!PopBegin
  /\ UNCHANGED pipeVars

DrainCommit ==
  /\ wpc = "drain"
  /\ Ring!PopCommit
  /\ batch' = Append(batch, slotCopy)
  /\ UNCHANGED <<sent, running, ctxStopped, ipc, wpc, idx, stored, inferences, alerts, mainPc, adminVars>>

(* The drain loop ends on a full batch or a failed pop; an empty batch    *)
(* yields and goes round again.                                           *)
DrainEnd ==
  /\ wpc = "drain" /\ cpc = "idle"
  /\ Len(batch) = BatchSize \/ tail = head
  /\ wpc' = IF batch = <<>> THEN "top" ELSE "logic"
  /\ UNCHANGED <<ringVars, sent, running, ctxStopped, ipc, batch, idx, stored, inferences, alerts, mainPc, adminVars>>

(* A fault variant: the logic loop stops one log short.                    *)
ProcessLogShort ==
  /\ wpc = "logic" /\ idx < Len(batch)
  /\ LET log == batch[idx]
         score == IF log.rule THEN "one" ELSE log.ai
     IN /\ inferences' = IF log.rule THEN inferences ELSE inferences + 1
        /\ alerts' = IF log.rule \/ log.ai \in {"mid", "high"}
                       THEN Append(alerts, score) ELSE alerts
        /\ stored' = Append(stored, [log |-> log, score |-> score])
  /\ idx' = idx + 1
  /\ UNCHANGED <<ringVars, sent, running, ctxStopped, ipc, wpc, batch, mainPc, adminVars>>

(* A fault variant: inference runs whether or not a rule matched.          *)
ProcessLogNoShortCircuit ==
  /\ wpc = "logic" /\ idx <= Len(batch)
  /\ LET log == batch[idx]
         score == IF log.rule THEN "one" ELSE log.ai
     IN /\ inferences' = inferences + 1
        /\ alerts' = IF log.rule \/ log.ai \in {"mid", "high"}
                       THEN Append(alerts, score) ELSE alerts
        /\ stored' = Append(stored, [log |-> log, score |-> score])
  /\ idx' = idx + 1
  /\ UNCHANGED <<ringVars, sent, running, ctxStopped, ipc, wpc, batch, mainPc, adminVars>>

(* A fault variant: the logic loop also tests running_ and abandons the    *)
(* rest of the batch on stop.                                              *)
ProcessLogBreakOnStop ==
  /\ wpc = "logic" /\ idx <= Len(batch)
  /\ IF running
       THEN LET log == batch[idx]
                score == IF log.rule THEN "one" ELSE log.ai
            IN /\ inferences' = IF log.rule THEN inferences ELSE inferences + 1
               /\ alerts' = IF log.rule \/ log.ai \in {"mid", "high"}
                              THEN Append(alerts, score) ELSE alerts
               /\ stored' = Append(stored, [log |-> log, score |-> score])
               /\ idx' = idx + 1
               /\ UNCHANGED <<wpc, batch, adminVars>>
       ELSE /\ wpc' = "top" /\ batch' = <<>> /\ idx' = 1
            /\ UNCHANGED <<stored, inferences, alerts, adminVars>>
  /\ UNCHANGED <<ringVars, sent, running, ctxStopped, ipc, mainPc, adminVars>>

(* STEP 2, one log: a rule hit scores 1.0 and is critical without running *)
(* the model; otherwise the model runs (inferences_ + 1) and the log is    *)
(* critical when its score exceeds anomaly_threshold.  A critical log is   *)
(* passed to AlertManager::trigger_alert; every log is then enqueued to    *)
(* storage with its score.                                                 *)
ProcessLog ==
  /\ wpc = "logic" /\ idx <= Len(batch)
  /\ LET log == batch[idx]
         score == IF log.rule THEN "one" ELSE log.ai
     IN /\ inferences' = IF log.rule THEN inferences ELSE inferences + 1
        /\ alerts' = IF log.rule \/ log.ai \in {"mid", "high"}
                       THEN Append(alerts, score) ELSE alerts
        /\ stored' = Append(stored, [log |-> log, score |-> score])
  /\ idx' = idx + 1
  /\ UNCHANGED <<ringVars, sent, running, ctxStopped, ipc, wpc, batch, mainPc, adminVars>>

(* A fault variant: batch_logs.clear() left out.                           *)
ClearBatchKeep ==
  /\ wpc = "logic" /\ idx > Len(batch)
  /\ idx' = 1
  /\ wpc' = "top"
  /\ UNCHANGED <<ringVars, sent, running, ctxStopped, ipc, batch, stored, inferences, alerts, mainPc, adminVars>>

(* STEP 3: batch_logs.clear(), back to the loop test.                      *)
ClearBatch ==
  /\ wpc = "logic" /\ idx > Len(batch)
  /\ batch' = <<>> /\ idx' = 1
  /\ wpc' = "top"
  /\ UNCHANGED <<ringVars, sent, running, ctxStopped, ipc, stored, inferences, alerts, mainPc, adminVars>>

-----------------------------------------------------------------------------
Next ==
  \/ Start \/ Stop \/ JoinAdmin \/ AdminIoReturn \/ JoinIngest \/ JoinProc
  \/ \E v \in Values : ReceivePush(v)
  \/ ReceivePublish \/ IngestExit \/ IngestCrash
  \/ Top \/ DrainPop \/ DrainCommit \/ DrainEnd \/ ProcessLog \/ ClearBatch

(* Both workers and the main thread, once running, are scheduled: weakly  *)
(* fair.  Datagrams need not arrive, and main() need not ever stop.       *)
Fairness ==
  /\ WF_vars(ReceivePublish) /\ WF_vars(IngestExit)
  /\ WF_vars(Top) /\ WF_vars(DrainPop) /\ WF_vars(DrainCommit) /\ WF_vars(DrainEnd)
  /\ WF_vars(ProcessLog) /\ WF_vars(ClearBatch)
  /\ WF_vars(AdminIoReturn)
  /\ WF_vars(JoinAdmin) /\ WF_vars(JoinIngest) /\ WF_vars(JoinProc)

Spec == Init /\ [][Next]_vars /\ Fairness

-----------------------------------------------------------------------------
(* Events the processing thread has taken out of the ring: published and  *)
(* no longer between tail and head.                                        *)
TakenCount == Len(sent) - Len(Ring!Published)

StoredLogs == [i \in 1 .. Len(stored) |-> stored[i].log]

(* Every log reaches storage once and in the order the ingest thread      *)
(* published it: the stored logs are a prefix of the published history,   *)
(* across batch boundaries, partial drains and yields.                     *)
PersistedInOrder ==
  /\ Len(stored) <= Len(sent)
  /\ StoredLogs = SubSeq(sent, 1, Len(stored))

(* A batch is finished before the loop test is made again: whenever the   *)
(* processing thread is at the top of its loop, or has left it after       *)
(* stop(), every event it took out of the ring has been persisted.  Spec   *)
(* section 5: workers complete the current iteration before exiting.       *)
NoMidBatchAbandon ==
  wpc \in {"top", "exited"} => Len(stored) = TakenCount

(* The verdicts agree with the logs: the inference engine ran exactly for *)
(* the stored logs no rule matched (spec section 8, short-circuit), and    *)
(* the alert manager was called for exactly the critical ones, in order,   *)
(* with their scores.                                                      *)
VerdictsMatchLogs ==
  /\ inferences = Len(SelectSeq(StoredLogs, LAMBDA l : ~l.rule))
  /\ alerts = [i \in 1 .. Len(SelectSeq(stored, LAMBDA r : r.score \in {"one", "mid", "high"})) |->
                 SelectSeq(stored, LAMBDA r : r.score \in {"one", "mid", "high"})[i].score]

(* Every published event is eventually persisted while the pipeline runs: *)
(* the k-th event reaches storage unless stop() comes first.               *)
EventualPersistence ==
  \A k \in 1 .. MaxEvents :
    (Len(sent) >= k) ~> (Len(stored) >= k \/ ~running)

(* stop() returns: once it has begun, the admin server's join and both    *)
(* workers' joins complete, whether the ingest thread leaves               *)
(* io_context::run normally or by an exception, and although the admin    *)
(* io thread still has an async_accept outstanding.                        *)
ShutdownCompletes ==
  (mainPc = "joinAdmin") ~> (mainPc = "stopped")

(* Spec section 7: failures are visible in the liveness state.  While     *)
(* is_healthy() (running_) reports the pipeline healthy, the ingest        *)
(* thread is still receiving.                                              *)
HealthyMeansIngesting ==
  running => ipc = "running"
=============================================================================
