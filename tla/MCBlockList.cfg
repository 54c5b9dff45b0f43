CONSTANTS
  ip1 = ip1
  ip2 = ip2
  badIp = badIp
  IPs <- MCIPs
  InvalidIPs <- MCInvalidIPs
  Duration = 2
  MaxFailures = 2
  MaxRestarts = 1

SPECIFICATION Spec

INVARIANT TypeOK
INVARIANT FirewallMatchesBlocks
PROPERTY NoEarlyUnblock
PROPERTY BanEventuallyLifted
