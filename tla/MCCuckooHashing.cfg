\* Safety of the cuckoo table, its refinement of LossyStore, and termination.
CONSTANTS
  NEles = 4
  NBins = 5
  TaskCounts <- MCTaskCounts
  Hashes <- MCHashes
  NoEntry = NoEntry
SPECIFICATION FairSpec
INVARIANTS TypeOK EntriesReady PlacementSound NothingLostSilently PermNumbersMasks
PROPERTIES ImplementsStore Returns
