SPECIFICATION Spec
CONSTANTS
  Binaries = {"demo"}
  Loaders  = {"ld-linux.so.2", "ld-2.31.so"}
  MaxRuns  = 1
  Hosts    <- MCHosts
INVARIANT DefaultLibcHasNone
CHECK_DEADLOCK FALSE
