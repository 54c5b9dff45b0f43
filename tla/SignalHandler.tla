---------------------------- MODULE SignalHandler ----------------------------
(***************************************************************************)
(* Shutdown signalling of blackbox-core/src/common/signal_handler.cpp.     *)
(*                                                                         *)
(* The main thread blocks in wait_for_signal: it locks mutex_ and runs     *)
(* cv_.wait(lock, [this]{ return !running_; }), i.e. while the predicate   *)
(* is false it calls cv_.wait(lock), which releases the mutex and blocks.  *)
(* A SIGINT or SIGTERM runs handle_signal, which calls trigger_shutdown:   *)
(* a compare-exchange of running_ from true to false and, if it won,       *)
(* cv_.notify_all().  The handler takes no lock, so its two steps may fall *)
(* between the main thread's predicate test and its entry into the wait.   *)
(* Each delivery of a signal is one handler run; std::condition_variable   *)
(* may also wake spuriously.                                               *)
(***************************************************************************)
EXTENDS Naturals

CONSTANTS Deliveries  \* signal deliveries that may happen (Ctrl+C, docker stop, ...)

VARIABLES running,  \* running_
          mainPc,   \* "check": predicate test under the lock; "block": the test
                    \* failed, cv_.wait(lock) not yet entered; "wait": blocked
                    \* on cv_; "done": returned to main() for cleanup
          notified, \* a notify_all reached the main thread while it waited
          hpc       \* hpc[d]: "idle", "notify" (CAS won) or "done"

vars == <<running, mainPc, notified, hpc>>

TypeOK ==
  /\ running \in BOOLEAN
  /\ mainPc \in {"check", "block", "wait", "done"}
  /\ notified \in BOOLEAN
  /\ hpc \in [Deliveries -> {"idle", "notify", "done"}]

(* After register_handlers the main thread enters wait_for_signal and     *)
(* takes the uncontended lock.                                            *)
Init ==
  /\ running = TRUE
  /\ mainPc = "check"
  /\ notified = FALSE
  /\ hpc = [d \in Deliveries |-> "idle"]

(* cv_.wait's loop: while (!pred()) ... ; return once running_ is false.  *)
Check ==
  /\ mainPc = "check"
  /\ mainPc' = IF running THEN "block" ELSE "done"
  /\ UNCHANGED <<running, notified, hpc>>

(* cv_.wait(lock): release mutex_ and sleep on the condition variable.    *)
Block ==
  /\ mainPc = "block"
  /\ mainPc' = "wait"
  /\ UNCHANGED <<running, notified, hpc>>

(* Woken by notify_all: reacquire mutex_ and test the predicate again.    *)
Wake ==
  /\ mainPc = "wait"
  /\ notified
  /\ mainPc' = "check"
  /\ notified' = FALSE
  /\ UNCHANGED <<running, hpc>>

(* A spurious wakeup: the wait returns without a notify.                  *)
SpuriousWake ==
  /\ mainPc = "wait"
  /\ mainPc' = "check"
  /\ UNCHANGED <<running, notified, hpc>>

(* handle_signal -> trigger_shutdown: compare_exchange_strong(true, false);*)
(* only the delivery that wins goes on to notify.                         *)
Deliver(d) ==
  /\ hpc[d] = "idle"
  /\ running' = FALSE
  /\ hpc' = [hpc EXCEPT ![d] = IF running THEN "notify" ELSE "done"]
  /\ UNCHANGED <<mainPc, notified>>

(* cv_.notify_all(): wakes the main thread if, and only if, it is blocked *)
(* on cv_ at this moment.                                                 *)
Notify(d) ==
  /\ hpc[d] = "notify"
  /\ notified' = (mainPc = "wait")
  /\ hpc' = [hpc EXCEPT ![d] = "done"]
  /\ UNCHANGED <<running, mainPc>>

Next ==
  \/ Check \/ Block \/ Wake \/ SpuriousWake
  \/ \E d \in Deliveries : Deliver(d) \/ Notify(d)

(* The main thread and a running handler are scheduled: weakly fair.      *)
(* Signals need not arrive and spurious wakeups need not happen.          *)
Spec ==
  /\ Init /\ [][Next]_vars
  /\ WF_vars(Check) /\ WF_vars(Block) /\ WF_vars(Wake)
  /\ \A d \in Deliveries : WF_vars(Notify(d))

-----------------------------------------------------------------------------
(* Once a signal has cleared running_, the main thread eventually leaves  *)
(* wait_for_signal and shuts the pipeline down.                           *)
ShutdownObserved ==
  (~running) ~> (mainPc = "done")
=============================================================================
