\* The OT-based protocol end to end, with buffers for two masks.
CONSTANTS
  ByteBits = 4
  WordBytes = 2
  TableRows = 64
  NClient = 2
  NServer = 2
  Inputs <- MCInputs
  Tables <- MCTables
  Lookups <- MCLookups
  Capacity = 2
  NoEntry = NoEntry
  Dummy = Dummy
SPECIFICATION FairSpec
INVARIANTS TypeOK ResultExact MatchesInBounds FalseMatchesOnlyAdd
PROPERTIES Terminates
