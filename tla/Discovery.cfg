SPECIFICATION FairSpec
CONSTANTS
  a1 = a1 a2 = a2 NoLease = NoLease
  Addrs = {a1, a2}
  MaxFaults = 1
  MaxStops = 1
INVARIANTS
  DirectoryCurrent
PROPERTY
  RegistryConverges
CHECK_DEADLOCK FALSE
