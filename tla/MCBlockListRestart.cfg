CONSTANTS
  ip1 = ip1
  ip2 = ip2
  badIp = badIp
  IPs <- MCIPs
  InvalidIPs <- MCInvalidIPs
  Duration = 2
  MaxFailures = 0
  MaxRestarts = 1

SPECIFICATION Spec

PROPERTY LiftedBanLeavesNoRule
