\* Memory, layout and contents of the server's table.
CONSTANTS
  NEles = 4
  NBins = 3
  TaskCounts <- MCTaskCounts
  Hashes <- MCHashes
  Dummy = Dummy
SPECIFICATION Spec
INVARIANTS TypeOK BinsFit ResultFits ResultGrouped FirstChunkStored
