---------------------------- MODULE MCBlockList ----------------------------
(* Two well-formed addresses and one the firewall command check rejects; *)
(* bans of two ticks, so a ban can be snapshotted as expired while others *)
(* are still young.                                                       *)
EXTENDS BlockList

CONSTANTS ip1, ip2, badIp

MCIPs == {ip1, ip2, badIp}
MCInvalidIPs == {badIp}
=============================================================================
