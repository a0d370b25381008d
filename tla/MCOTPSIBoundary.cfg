\* The search for missing elements, with as many bins as a byte has values.
CONSTANTS
  ByteBits = 4
  WordBytes = 2
  TableRows = 64
  NClient = 13
  NServer = 1
  Inputs <- MCBoundaryInputs
  Tables <- MCOneTable
  Lookups <- MCExactLookups
  Capacity = 2
  NoEntry = NoEntry
  Dummy = Dummy
SPECIFICATION Spec
INVARIANTS NoneMissing
