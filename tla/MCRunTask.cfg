\* What the threads of run_task leave in the output array.
CONSTANTS
  NEles = 3
  Jobs <- MCJobs
  Perms <- MCPerms
  Garbage = Garbage
SPECIFICATION Spec
INVARIANTS TypeOK StaysInArrays CellsHaveOneWriter ProcessedByPointer
