\* The fuzzy matching of two vectors, for every random number.
CONSTANTS
  MAXBITLEN = 6
  Modulus = 41
  Inputs <- MCInputs
SPECIFICATION Spec
INVARIANTS TypeOK RepresentsRange MatchExact
