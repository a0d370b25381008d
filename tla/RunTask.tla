--------------------------------- MODULE RunTask ---------------------------------
(***************************************************************************)
(* run_task of src/util/helpers.h and the functions it runs in threads:    *)
(* psi_hashing_function and sym_encrypt, which compute one output per      *)
(* input element and store it at its permuted place, and asym_encrypt,     *)
(* which exponentiates one array into another, or in place.                *)
(*                                                                         *)
(* An array cell holds the element that its content was computed of and    *)
(* the number of times the function was applied to it.  A thread reads a   *)
(* cell, computes, and stores: two steps, between which others run.        *)
(***************************************************************************)
EXTENDS Integers, TaskPartition

CONSTANTS
  NEles,      \* eles.nelements of the context
  Jobs,       \* the calls that are considered
  Perms,      \* the permutations that gen_rnd_perm may have produced
  Garbage     \* what uninitialised memory holds, and what a torn read returns

Eles == 0 .. NEles - 1

Func == {"psi_hashing_function", "sym_encrypt", "asym_encrypt"}

(* A call of run_task: its function, whether the elements are an array of
   pointers (input2d), whether output is the input array, and nthreads. *)
Job == [func : Func, hasvarbytelen : BOOLEAN, inplace : BOOLEAN, nthreads : Nat \ {0}]

Permutation(p) ==
  /\ p \in [Eles -> Eles]
  /\ \A i, j \in Eles : p[i] = p[j] => i = j
  /\ \A i \in Eles : \E j \in Eles : p[j] = i

Cell == [of : Eles, times : Nat]

ASSUME ConstantsOK ==
  /\ NEles \in Nat
  /\ Jobs \subseteq Job
  /\ \A j \in Jobs : IF j.func = "asym_encrypt" THEN ~j.hasvarbytelen ELSE ~j.inplace
  /\ \A p \in Perms : Permutation(p)
  /\ Garbage \notin Cell

VARIABLES
  job,        \* the call
  perm,       \* eles.perm
  input,      \* the input array
  output,     \* the output array
  round,      \* round[t]: iterations of its loop that thread t has finished
  loaded,     \* loaded[t]: thread t is between its read and its store
  reg,        \* reg[t]: what thread t has computed last
  joined      \* run_task has returned

vars == <<job, perm, input, output, round, loaded, reg, joined>>

Threads == 0 .. job.nthreads - 1

Init ==
  /\ job \in Jobs
  /\ perm \in Perms
  /\ input = [i \in Eles |-> [of |-> i, times |-> 0]]
  /\ output = IF job.inplace THEN input ELSE [i \in Eles |-> Garbage]
  /\ round = [t \in Threads |-> 0]
  /\ loaded = [t \in Threads |-> FALSE]
  /\ reg = [t \in Threads |-> Garbage]
  /\ joined = FALSE

(* startelement of the context of thread t. *)
First(t) == StartElement(t, NEles, job.nthreads)

(* A last slice that is as long as the others. *)
CountUncut(t) == CeilDivide(NEles, job.nthreads)

(* nelements of the context of thread t. *)
Count(t) == NElements(t, NEles, job.nthreads)

(* A loop in which every thread counts from 0. *)
InIdxUnshifted(t) == round[t]

(* The cell that thread t reads in its current round.  With input2d the loop
   variable is the index; with input1d a pointer moves along that starts at the
   first element of the whole array in every thread. *)
InIdx(t) == IF job.hasvarbytelen THEN First(t) + round[t] ELSE round[t]

(* A permutation that is read from its beginning in every thread. *)
OutIdxUnshifted(t) == IF job.func = "asym_encrypt" THEN round[t] ELSE perm[round[t]]

(* The cell that thread t writes.  asym_encrypt has no permutation, and its output
   pointer starts at the first element in every thread, too. *)
OutIdx(t) == IF job.func = "asym_encrypt" THEN round[t] ELSE perm[First(t) + round[t]]

(* The value that one application of the function makes of a cell. *)
Applied(c) == IF c = Garbage THEN Garbage ELSE [of |-> c.of, times |-> c.times + 1]

(* The read of a round.  In place, another thread may be about to store into the
   same cell: the read may then return part of the old and part of the new. *)
Load(t) ==
  /\ round[t] < Count(t)
  /\ ~loaded[t]
  /\ \/ reg' = [reg EXCEPT ![t] = Applied(input[InIdx(t)])]
     \/ /\ job.inplace
        /\ \E u \in Threads \ {t} : loaded[u] /\ OutIdx(u) = InIdx(t)
        /\ reg' = [reg EXCEPT ![t] = Garbage]
  /\ loaded' = [loaded EXCEPT ![t] = TRUE]
  /\ UNCHANGED <<job, perm, input, output, round, joined>>

(* A round that moves its pointers twice. *)
NextRoundTwice(r) == r + 2

NextRound(r) == r + 1

(* The store that ends the round. *)
Store(t) ==
  /\ loaded[t]
  /\ output' = [output EXCEPT ![OutIdx(t)] = reg[t]]
  /\ input' = IF job.inplace THEN output' ELSE input
  /\ loaded' = [loaded EXCEPT ![t] = FALSE]
  /\ round' = [round EXCEPT ![t] = NextRound(@)]
  /\ UNCHANGED <<job, perm, reg, joined>>

(* The pthread_join loop has seen every thread return. *)
AllReturned == \A t \in Threads : round[t] >= Count(t)

Join ==
  /\ ~joined
  /\ AllReturned
  /\ joined' = TRUE
  /\ UNCHANGED <<job, perm, input, output, round, loaded, reg>>

(* The call is over. *)
Returned == joined /\ UNCHANGED vars

Next ==
  \/ \E t \in Threads : Load(t) \/ Store(t)
  \/ Join
  \/ Returned

Spec == Init /\ [][Next]_vars

--------------------------------------------------------------------------------
(***************************************************************************)
(* Properties.                                                             *)
(***************************************************************************)

TypeOK ==
  /\ job \in Jobs
  /\ perm \in Perms
  /\ input \in [Eles -> Cell \cup {Garbage}]
  /\ output \in [Eles -> Cell \cup {Garbage}]
  /\ round \in [Threads -> 0 .. NEles]
  /\ loaded \in [Threads -> BOOLEAN]
  /\ reg \in [Threads -> Cell \cup {Garbage}]
  /\ joined \in BOOLEAN

(* No thread reads or writes outside the arrays of elements, of the permutation and
   of outputs, even when there are more threads than elements. *)
StaysInArrays ==
  \A t \in Threads : round[t] < Count(t) =>
    /\ First(t) + round[t] \in Eles
    /\ InIdx(t) \in Eles
    /\ OutIdx(t) \in Eles

(* The threads of the permuting functions never store into the same cell, and
   together into every cell: what is sent after the call has been written. *)
CellsHaveOneWriter ==
  job.func # "asym_encrypt" =>
    /\ \A t, u \in Threads :
         t # u /\ loaded[t] /\ loaded[u] => OutIdx(t) # OutIdx(u)
    /\ joined => \A i \in Eles : output[i] # Garbage

(* Where element i's result has to be. *)
PlaceOf(i) == IF job.func = "asym_encrypt" THEN i ELSE perm[i]

(* What the callers of run_task count on: it applies the function once to every
   element and stores the result in the element's place. *)
EveryElementProcessed ==
  joined => \A i \in Eles : output[PlaceOf(i)] = [of |-> i, times |-> 1]

(* No cell has a result of element i. *)
Unprocessed(i) == \A j \in Eles : output[j] # Garbage /\ output[j].of = i => output[j].times = 0

(* The calls for which it does so are those with one thread and those with elements
   behind pointers.  In any other call every thread reads from the first element on:
   what is behind the first thread's slice is never processed. *)
ProcessedByPointer ==
  IF job.nthreads = 1 \/ job.hasvarbytelen
  THEN EveryElementProcessed
  ELSE \A i \in Eles : i >= Count(0) => Unprocessed(i)
================================================================================
