\* The protocols that compare masks: agreement, results, and termination.
CONSTANTS
  SERVER = SERVER
  CLIENT = CLIENT
  NAIVE = NAIVE
  DH_ECC = DH_ECC
  a = a
  b = b
  c = c
  Element <- MCElement
  Inputs <- MCInputs
  Settings <- MCSettings
  LowFns <- MCLowFns
  Capacity = 1
SPECIFICATION FairSpec
INVARIANTS TypeOK ParametersAgree MasksLineUp ResultExact
PROPERTIES Terminates
