\* Three processes, two of them at a time.
CONSTANTS
  MaxProcesses = 3
  MaxAlive = 2
  Requests = {r1}
SPECIFICATION FairSpec
INVARIANTS ServingEnforces CleanExit RequestsSeeMaps
PROPERTIES ShutdownEnds
CHECK_DEADLOCK FALSE
