\* Every element reaches the server's table, for several threads, too.
CONSTANTS
  NEles = 4
  NBins = 3
  TaskCounts <- MCTaskCounts
  Hashes <- MCHashes
  Dummy = Dummy
SPECIFICATION Spec
INVARIANTS EveryElementStored
