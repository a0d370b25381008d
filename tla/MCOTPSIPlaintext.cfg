\* The comparison with the plaintext intersection that the tests make.
CONSTANTS
  ByteBits = 4
  WordBytes = 2
  TableRows = 64
  NClient = 2
  NServer = 2
  Inputs <- MCWordInputs
  Tables <- MCTables
  Lookups <- MCLookups
  Capacity = 2
  NoEntry = NoEntry
  Dummy = Dummy
SPECIFICATION Spec
INVARIANTS AsPlaintext
