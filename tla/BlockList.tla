------------------------------ MODULE BlockList ------------------------------
(***************************************************************************)
(* The active-defense block list of                                        *)
(* blackbox-core/src/analysis/block_list_manager.cpp together with the     *)
(* host firewall it drives through std::system("iptables ...").           *)
(*                                                                         *)
(* block_ip (called by the alert path on the processing thread) and        *)
(* unblock_ip each hold mutex_ for their whole body, so each is one step.  *)
(* The expiration worker takes the lock once to snapshot the expired       *)
(* addresses and then calls unblock_ip for each, re-locking per call: the  *)
(* snapshot and each removal are separate steps, and other calls may run   *)
(* between them.  Time is the age of each ban in ticks (seconds since its  *)
(* start_time), capped one past Duration where elapsed >= duration and     *)
(* elapsed > duration can no longer be told apart.  The INPUT chain is a   *)
(* sequence of the addresses with a DROP rule: -A appends one, -D deletes *)
(* the first one matching and fails when there is none.                   *)
(***************************************************************************)
EXTENDS Naturals, Sequences, SequencesExt

CONSTANTS IPs,            \* addresses the alert path may ask to block
          InvalidIPs,     \* those containing ' ' or ';' (rejected by the command check)
          Duration,       \* duration_seconds of every ban, in ticks
          MaxFailures,    \* iptables calls that may return non-zero in a run
          MaxRestarts     \* process restarts in a run (state kept only in memory)

ASSUME InvalidIPs \subseteq IPs
ASSUME Duration \in Nat /\ MaxRestarts \in Nat /\ MaxFailures \in Nat

AgeCap == Duration + 1

VARIABLES blocked,  \* DOMAIN of active_blocks_
          age,      \* age[ip]: elapsed time of ip's ban, capped at AgeCap
          chain,    \* the iptables INPUT chain: one entry per DROP rule
          wpc,      \* expiration worker: "sleep" or "unblocking"
          expired,  \* expired_ips: the worker's snapshot still to unblock
          restarts, \* process restarts so far
          failures  \* failed iptables calls so far

vars == <<blocked, age, chain, wpc, expired, restarts, failures>>

TypeOK ==
  /\ blocked \subseteq IPs
  /\ age \in [IPs -> 0 .. AgeCap]
  /\ chain \in Seq(IPs \ InvalidIPs)
  /\ wpc \in {"sleep", "unblocking"}
  /\ expired \subseteq IPs
  /\ restarts \in 0 .. MaxRestarts
  /\ failures \in 0 .. MaxFailures

(* BlockListManager(): empty map, worker started.  The firewall is empty  *)
(* at the first start.                                                     *)
Init ==
  /\ blocked = {}
  /\ age = [ip \in IPs |-> 0]
  /\ chain = <<>>
  /\ wpc = "sleep"
  /\ expired = {}
  /\ restarts = 0
  /\ failures = 0

(* A fault variant: the command check on the address left out.            *)
FirewallCommandNoValidation(ip, add) ==
  \/ /\ add
     /\ chain' = Append(chain, ip)
     /\ UNCHANGED failures
  \/ /\ ~add
     /\ chain' = RemoveFirst(chain, ip)
     /\ UNCHANGED failures
  \/ /\ failures < MaxFailures
     /\ failures' = failures + 1
     /\ UNCHANGED chain

(* execute_firewall_command(ip, add): nothing for an address with a space *)
(* or ';'; otherwise iptables -A appends a rule, iptables -D deletes the  *)
(* first matching one.  A non-zero exit (no privilege, no such rule) only *)
(* logs; the chain is left as it is.                                       *)
FirewallCommand(ip, add) ==
  IF ip \in InvalidIPs THEN UNCHANGED <<chain, failures>>
  ELSE \/ /\ add
          /\ chain' = Append(chain, ip)
          /\ UNCHANGED failures
       \/ /\ ~add
          /\ chain' = RemoveFirst(chain, ip)
          /\ UNCHANGED failures
       \/ /\ failures < MaxFailures
          /\ failures' = failures + 1
          /\ UNCHANGED chain

(* A fault variant: block_ip without the "already blocked" check.          *)
BlockIpNoDupCheck(ip) ==
  /\ blocked' = blocked \cup {ip}
  /\ age' = [age EXCEPT ![ip] = 0]
  /\ FirewallCommand(ip, TRUE)
  /\ UNCHANGED <<wpc, expired, restarts>>

(* block_ip: ignored when ip is already blocked (first ban wins); else    *)
(* record the entry with start_time now, then install the rule.           *)
BlockIp(ip) ==
  /\ ip \notin blocked
  /\ blocked' = blocked \cup {ip}
  /\ age' = [age EXCEPT ![ip] = 0]
  /\ FirewallCommand(ip, TRUE)
  /\ UNCHANGED <<wpc, expired, restarts>>

(* A fault variant: unblock_ip with its "not found" test inverted.         *)
UnblockIpInverted(ip) ==
  IF ip \in blocked
    THEN UNCHANGED <<blocked, age, chain, failures>>
    ELSE /\ blocked' = blocked \ {ip}
         /\ FirewallCommand(ip, FALSE)
         /\ UNCHANGED age

(* unblock_ip: a no-op for an address not in the map; else erase the     *)
(* entry, then delete the rule.                                           *)
UnblockIp(ip) ==
  IF ip \notin blocked
    THEN UNCHANGED <<blocked, age, chain, failures>>
    ELSE /\ blocked' = blocked \ {ip}
         /\ FirewallCommand(ip, FALSE)
         /\ UNCHANGED age

(* steady_clock advances one tick.                                        *)
Tick ==
  /\ age' = [ip \in IPs |-> IF age[ip] < AgeCap THEN age[ip] + 1 ELSE AgeCap]
  /\ UNCHANGED <<blocked, chain, wpc, expired, restarts, failures>>

(* A fault variant: the worker's snapshot without the elapsed test.        *)
ScanNoAgeCheck ==
  /\ wpc = "sleep"
  /\ expired' = blocked
  /\ wpc' = IF blocked = {} THEN "sleep" ELSE "unblocking"
  /\ UNCHANGED <<blocked, age, chain, restarts, failures>>

(* expiration_worker after its sleep: under the lock, collect every entry *)
(* whose elapsed time has reached its duration.                           *)
Scan ==
  /\ wpc = "sleep"
  /\ LET due == {ip \in blocked : age[ip] >= Duration}
     IN /\ expired' = due
        /\ wpc' = IF due = {} THEN "sleep" ELSE "unblocking"
  /\ UNCHANGED <<blocked, age, chain, restarts, failures>>

(* expiration_worker: unblock_ip on the next collected address, in the    *)
(* map's iteration order; back to sleep after the last.                   *)
WorkerUnblock ==
  /\ wpc = "unblocking"
  /\ \E ip \in expired :
       /\ UnblockIp(ip)
       /\ expired' = expired \ {ip}
       /\ wpc' = IF expired' = {} THEN "sleep" ELSE "unblocking"
  /\ UNCHANGED restarts

(* The process exits (crash, signal, redeploy) and starts again: the map  *)
(* and the worker start afresh, the kernel's rules stay (the destructor   *)
(* deliberately leaves them in place).                                    *)
Restart ==
  /\ restarts < MaxRestarts
  /\ restarts' = restarts + 1
  /\ blocked' = {}
  /\ age' = [ip \in IPs |-> 0]
  /\ wpc' = "sleep"
  /\ expired' = {}
  /\ UNCHANGED <<chain, failures>>

Next ==
  \/ \E ip \in IPs : BlockIp(ip)
  \/ Tick
  \/ Scan
  \/ WorkerUnblock
  \/ Restart

(* Time passes and the worker wakes every 5 seconds: both weakly fair.    *)
(* Blocking requests arrive only when threats do.                         *)
Spec == Init /\ [][Next]_vars /\ WF_vars(Tick) /\ WF_vars(Scan) /\ WF_vars(WorkerUnblock)

-----------------------------------------------------------------------------
RuleCount(ip) == Len(SelectSeq(chain, LAMBDA x : x = ip))

(* Spec section 3 (C5): every entry of the block list has exactly one     *)
(* firewall rule, and an address not on the list has none, so blocking    *)
(* twice installs one rule and unblocking leaves no rule behind.  Only    *)
(* addresses the command check accepts get rules at all.  A failing       *)
(* iptables call (execute_firewall_command only logs) and a restart (the  *)
(* destructor leaves the rules) break the agreement, so it is claimed     *)
(* while neither has happened.                                             *)
FirewallMatchesBlocks ==
  (failures = 0 /\ restarts = 0) =>
    \A ip \in IPs \ InvalidIPs :
      RuleCount(ip) = IF ip \in blocked THEN 1 ELSE 0

(* The expiration worker never lifts a ban early: an address leaves the   *)
(* block list only after its ban has lasted Duration, even though the     *)
(* worker acts on a snapshot taken before it re-locks for each removal.   *)
NoEarlyUnblock ==
  [][\A ip \in blocked : ip \notin blocked' => age[ip] >= Duration \/ restarts' # restarts]_vars

(* Spec section 3 (C5): removal removes exactly the matching rule.  When  *)
(* a ban is lifted in a running process, by the expiration worker or a     *)
(* direct unblock, no DROP rule for the address is left in the chain.      *)
LiftedBanLeavesNoRule ==
  [][\A ip \in IPs \ InvalidIPs :
       (ip \in blocked /\ ip \notin blocked' /\ restarts' = restarts) => RuleCount(ip)' = 0]_vars

(* Every ban is eventually lifted by the expiration worker.               *)
BanEventuallyLifted ==
  \A ip \in IPs : (ip \in blocked) ~> (ip \notin blocked)
=============================================================================
