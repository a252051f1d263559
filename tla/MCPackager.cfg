SPECIFICATION Spec
CONSTANTS
  Binaries = {"demo", "tests"}
  Loaders  = {"ld-linux.so.2", "ld-2.31.so"}
  MaxRuns  = 3
  Hosts    <- MCHosts
INVARIANTS
  PackageIsComplete
  PackageIsOwn
CHECK_DEADLOCK FALSE
