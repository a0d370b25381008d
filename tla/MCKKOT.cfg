\* The OT extension between two processes, from the common seed to the masks.
CONSTANTS
  SERVER = SERVER
  CLIENT = CLIENT
  ByteBits = 2
  RegBytes = 1
  CodeWordBits = 4
  Order = 23
  AesBits = 2
  Wrap = 256
  Code <- MCCode
  Instances <- MCInstances
SPECIFICATION FairSpec
INVARIANTS TypeOK SharedKeysAgree MasksAgree NothingLeftOver AllJoined
PROPERTIES Terminates
