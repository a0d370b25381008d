\* Threads that hash with one crypto object, against what numThreads promises.
CONSTANTS
  SERVER = SERVER
  CLIENT = CLIENT
  ByteBits = 2
  RegBytes = 1
  CodeWordBits = 4
  Order = 23
  AesBits = 2
  Wrap = 256
  Code <- MCCode
  Instances <- MCThreadInstances
SPECIFICATION Spec
INVARIANTS MasksAgreeInThreads
