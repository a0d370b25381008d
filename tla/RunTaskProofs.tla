------------------------------- MODULE RunTaskProofs -------------------------------
(***************************************************************************)
(* run_task does what its callers count on, for every number of elements   *)
(* and threads and every permutation, if the elements are behind pointers  *)
(* or there is one thread only.                                            *)
(*                                                                         *)
(* The argument: in these calls a thread's rounds go through the elements  *)
(* of its own slice; slices are disjoint and cover the set, and so no      *)
(* thread undoes the work of another, and none is left over.  In the other *)
(* calls all threads go through the first elements, and so there is never  *)
(* a result of an element behind the first slice.                          *)
(***************************************************************************)
EXTENDS RunTask, TaskPartitionProofs

Sound == job.nthreads = 1 \/ job.hasvarbytelen

(* The element that thread t is at. *)
Here(t) == First(t) + round[t]

(* Element i is one of those that thread t has finished. *)
Finished(t, i) == First(t) <= i /\ i < Here(t)

(* Between its read and its store a thread is inside its slice. *)
RoundsOK ==
  \A t \in Threads : round[t] <= Count(t) /\ (loaded[t] => round[t] < Count(t))

(* What is in the arrays and registers of a sound call. *)
Progress ==
  Sound =>
    /\ \A t \in Threads : loaded[t] => reg[t] = [of |-> Here(t), times |-> 1]
    /\ \A t \in Threads, i \in Eles :
         Finished(t, i) => output[PlaceOf(i)] = [of |-> i, times |-> 1]
    /\ \A i \in Eles :
         ~job.inplace \/ (\A t \in Threads : ~Finished(t, i))
           => input[i] = [of |-> i, times |-> 0]

(* The inductive invariant. *)
IInv ==
  /\ TypeOK
  /\ RoundsOK
  /\ Progress
  /\ job.inplace => input = output
  /\ joined => \A t \in Threads : round[t] >= Count(t)

(* The facts about a thread's slice that the steps need. *)
LEMMA SliceFacts ==
  ASSUME job \in Jobs, NEW t \in Threads
  PROVE  /\ t \in Nat /\ job.nthreads \in Nat \ {0} /\ NEles \in Nat
         /\ First(t) \in 0 .. NEles
         /\ Count(t) \in 0 .. NEles
         /\ \A e \in Int : e \in Chunk(t, NEles, job.nthreads)
                             <=> First(t) <= e /\ e < First(t) + Count(t)
<1>1. job.nthreads \in Nat \ {0} /\ NEles \in Nat
  BY ConstantsOK DEF Job
<1>2. t \in Nat
  BY <1>1 DEF Threads
<1> QED
  BY <1>1, <1>2, SliceIsChunk DEF First, Count

(* In its slice a thread is at an element of the set, and that element is in no
   other thread's slice. *)
LEMMA InsideSlice ==
  ASSUME job \in Jobs, NEW t \in Threads, NEW r \in Nat, r < Count(t)
  PROVE  First(t) + r \in Eles /\ First(t) + r \in Chunk(t, NEles, job.nthreads)
<1> DEFINE e == First(t) + r
<1>1. e \in Int /\ First(t) <= e /\ e < First(t) + Count(t) /\ e >= 0
  BY SliceFacts
<1>2. e \in Chunk(t, NEles, job.nthreads)
  BY <1>1, SliceFacts
<1>3. e < NEles
  <2>1. StartPos(t, NEles, job.nthreads) \in Nat /\ CeilDivide(NEles, job.nthreads) \in Nat
    BY SliceFacts, StartPosNext, CeilDivideBounds
  <2>2. e <= EndPos(t, NEles, job.nthreads) - 1 /\ EndPos(t, NEles, job.nthreads) \in Int
        /\ EndPos(t, NEles, job.nthreads) <= NEles
    BY <1>1, <1>2, <2>1, SliceFacts DEF Chunk, EndPos, Lesser
  <2> QED
    BY <1>1, <2>2, SliceFacts
<1> QED
  BY <1>1, <1>2, <1>3, SliceFacts DEF Eles

(* The only thread starts at the first element. *)
LEMMA OneThread ==
  ASSUME job \in Jobs, job.nthreads = 1, NEW t \in Threads
  PROVE  t = 0 /\ First(t) = 0
<1>1. t = 0 /\ NEles \in Nat
  BY ConstantsOK DEF Threads
<1>2. CeilDivide(NEles, 1) \in Nat
  BY <1>1, CeilDivideBounds
<1>3. StartPos(0, NEles, 1) = 0
  BY <1>2 DEF StartPos
<1> QED
  BY <1>1, <1>3 DEF First, StartElement, Lesser

(* Where a sound call reads and writes. *)
LEMMA SoundIndices ==
  ASSUME TypeOK, NEW t \in Threads, round[t] < Count(t)
  PROVE  /\ Sound => InIdx(t) = Here(t) /\ OutIdx(t) = PlaceOf(Here(t))
         /\ Here(t) \in Eles /\ InIdx(t) \in Eles /\ OutIdx(t) \in Eles
<1>1. job \in Jobs /\ round[t] \in Nat /\ Permutation(perm)
  BY ConstantsOK DEF TypeOK
<1>2. Here(t) \in Eles
  BY <1>1, InsideSlice DEF Here
<1>3. round[t] \in Eles
  BY <1>1, SliceFacts DEF Eles
<1>4. InIdx(t) \in Eles /\ OutIdx(t) \in Eles
  BY <1>1, <1>2, <1>3 DEF InIdx, OutIdx, Here, Permutation
<1>5. ASSUME job.nthreads = 1
      PROVE  InIdx(t) = Here(t) /\ OutIdx(t) = PlaceOf(Here(t))
  <2>1. First(t) = 0
    BY <1>1, <1>5, OneThread
  <2> QED
    BY <1>1, <2>1 DEF InIdx, OutIdx, Here, PlaceOf
<1>6. ASSUME job.hasvarbytelen
      PROVE  InIdx(t) = Here(t) /\ OutIdx(t) = PlaceOf(Here(t))
  <2>1. job.func # "asym_encrypt"
    BY <1>1, <1>6, ConstantsOK
  <2> QED
    BY <1>6, <2>1 DEF InIdx, OutIdx, Here, PlaceOf
<1> QED
  BY <1>2, <1>4, <1>5, <1>6 DEF Sound

(* Two elements have two places. *)
LEMMA PlacesDiffer ==
  ASSUME TypeOK, NEW i \in Eles, NEW j \in Eles, PlaceOf(i) = PlaceOf(j)
  PROVE  i = j
BY ConstantsOK DEF TypeOK, PlaceOf, Permutation

(* The invariant holds when the threads have been created. *)
LEMMA InitIInv == Init => IInv
<1> SUFFICES ASSUME Init PROVE IInv
  OBVIOUS
<1>1. job \in Jobs /\ NEles \in Nat
  BY ConstantsOK DEF Init
<1>2. input \in [Eles -> Cell \cup {Garbage}] /\ \A i \in Eles : input[i] = [of |-> i, times |-> 0]
  BY DEF Init, Cell
<1>3. TypeOK
  <2>1. output \in [Eles -> Cell \cup {Garbage}]
    <3>1. CASE job.inplace
      BY <1>2, <3>1 DEF Init
    <3>2. CASE ~job.inplace
      BY <3>2 DEF Init
    <3> QED
      BY <3>1, <3>2
  <2>2. round \in [Threads -> 0 .. NEles] /\ reg \in [Threads -> Cell \cup {Garbage}]
    BY <1>1 DEF Init
  <2>3. loaded \in [Threads -> BOOLEAN] /\ joined \in BOOLEAN
    BY DEF Init
  <2> QED
    BY <1>1, <1>2, <2>1, <2>2, <2>3 DEF Init, TypeOK
<1>4. RoundsOK
  <2>1. \A t \in Threads : Count(t) \in 0 .. NEles
    BY <1>1, SliceFacts
  <2>2. \A t \in Threads : round[t] = 0 /\ ~loaded[t]
    BY DEF Init
  <2> QED
    BY <1>1, <2>1, <2>2 DEF RoundsOK
<1>5. \A t \in Threads, i \in Eles : ~Finished(t, i)
  <2> SUFFICES ASSUME NEW t \in Threads, NEW i \in Eles PROVE ~Finished(t, i)
    OBVIOUS
  <2>1. Here(t) = First(t) /\ First(t) \in Int /\ i \in Int
    BY <1>1, SliceFacts DEF Init, Here, Eles
  <2> QED
    BY <2>1 DEF Finished
<1>6. Progress
  <2>1. \A t \in Threads : ~loaded[t]
    BY DEF Init
  <2> QED
    BY <1>2, <1>5, <2>1 DEF Progress
<1> QED
  BY <1>3, <1>4, <1>6 DEF Init, IInv

(* Reading a cell keeps the invariant. *)
LEMMA LoadStep ==
  ASSUME IInv, NEW t \in Threads, Load(t)
  PROVE  IInv'
<1>1. /\ round[t] < Count(t) /\ ~loaded[t]
      /\ loaded' = [loaded EXCEPT ![t] = TRUE]
      /\ UNCHANGED <<job, perm, input, output, round, joined>>
      /\ job \in Jobs
  BY DEF Load, IInv, TypeOK
<1>2. InIdx(t) \in Eles
  BY <1>1, SoundIndices DEF IInv
<1> DEFINE c == input[InIdx(t)]
<1>3. Applied(c) \in Cell \cup {Garbage} /\ Garbage \in Cell \cup {Garbage}
  <2>1. c \in Cell \cup {Garbage}
    BY <1>2 DEF IInv, TypeOK
  <2> HIDE DEF c
  <2> QED
    BY <2>1 DEF Applied, Cell
<1>4. PICK v \in Cell \cup {Garbage} : reg' = [reg EXCEPT ![t] = v]
  BY <1>3 DEF Load
<1>5. Threads' = Threads /\ \A u \in Threads : First(u)' = First(u) /\ Count(u)' = Count(u)
      /\ Here(u)' = Here(u) /\ \A i \in Eles : Finished(u, i)' = Finished(u, i)
  BY <1>1 DEF Threads, First, Count, Here, Finished
<1>6. TypeOK'
  BY <1>1, <1>4, <1>5 DEF IInv, TypeOK
<1>7. RoundsOK'
  BY <1>1, <1>5 DEF IInv, TypeOK, RoundsOK
<1>8. Sound => reg'[t] = [of |-> Here(t), times |-> 1]
  <2> SUFFICES ASSUME Sound PROVE reg'[t] = [of |-> Here(t), times |-> 1]
    OBVIOUS
  <2>1. InIdx(t) = Here(t) /\ Here(t) \in Eles
    BY <1>1, <1>2, SoundIndices DEF IInv
  <2>2. input[Here(t)] = [of |-> Here(t), times |-> 0]
    <3>1. CASE ~job.inplace
      BY <2>1, <3>1 DEF IInv, Progress
    <3>2. CASE job.inplace
      <4>1. job.nthreads = 1
        BY <1>1, <3>2, ConstantsOK DEF Sound
      <4>2. \A u \in Threads : u = t
        BY <1>1, <4>1, OneThread
      <4>3. \A u \in Threads : ~Finished(u, Here(t))
        <5>1. Here(t) \in Int
          BY <2>1, SliceFacts, <1>1 DEF Eles
        <5> QED
          BY <4>2, <5>1 DEF Finished
      <4> QED
        BY <2>1, <4>3 DEF IInv, Progress
    <3> QED
      BY <3>1, <3>2
  <2>3. Applied(c) = [of |-> Here(t), times |-> 1]
    <3>1. [of |-> Here(t), times |-> 0] \in Cell
      BY <2>1 DEF Cell
    <3> QED
      BY <2>1, <2>2, <3>1, ConstantsOK DEF Applied
  <2>4. reg' = [reg EXCEPT ![t] = Applied(c)]
    <3>1. CASE ~job.inplace
      BY <3>1 DEF Load
    <3>2. CASE job.inplace
      <4>1. job.nthreads = 1
        BY <1>1, <3>2, ConstantsOK DEF Sound
      <4>2. Threads \ {t} = {}
        BY <1>1, <4>1, OneThread
      <4> QED
        BY <4>2 DEF Load
    <3> QED
      BY <3>1, <3>2
  <2> QED
    BY <2>3, <2>4 DEF IInv, TypeOK
<1>9. Progress'
  <2> SUFFICES ASSUME Sound' PROVE Progress'
    BY DEF Progress
  <2>1. Sound
    BY <1>1 DEF Sound
  <2>2. \A u \in Threads : loaded'[u] => reg'[u] = [of |-> Here(u), times |-> 1]
    BY <1>1, <1>4, <1>8, <2>1 DEF IInv, TypeOK, Progress
  <2>3. \A i \in Eles : PlaceOf(i)' = PlaceOf(i)
    BY <1>1 DEF PlaceOf
  <2> QED
    BY <1>1, <1>5, <2>1, <2>2, <2>3 DEF IInv, Progress
<1> QED
  BY <1>1, <1>5, <1>6, <1>7, <1>9 DEF IInv

(* Writing a cell keeps the invariant. *)
LEMMA StoreStep ==
  ASSUME IInv, NEW t \in Threads, Store(t)
  PROVE  IInv'
<1>1. /\ loaded[t] /\ round[t] < Count(t) /\ round[t] \in Nat
      /\ output' = [output EXCEPT ![OutIdx(t)] = reg[t]]
      /\ input' = IF job.inplace THEN output' ELSE input
      /\ loaded' = [loaded EXCEPT ![t] = FALSE]
      /\ round' = [round EXCEPT ![t] = round[t] + 1]
      /\ UNCHANGED <<job, perm, reg, joined>>
      /\ job \in Jobs
  BY DEF Store, NextRound, IInv, TypeOK, RoundsOK
<1>2. InIdx(t) \in Eles /\ OutIdx(t) \in Eles
  BY <1>1, SoundIndices DEF IInv
<1>3. /\ Threads' = Threads
      /\ \A u \in Threads : First(u)' = First(u) /\ Count(u)' = Count(u)
  BY <1>1 DEF Threads, First, Count
<1>4. \A u \in Threads : First(u) \in 0 .. NEles /\ Count(u) \in 0 .. NEles /\ NEles \in Nat
  BY <1>1, SliceFacts
<1>5. TypeOK'
  BY <1>1, <1>2, <1>3, <1>4 DEF IInv, TypeOK
<1>6. RoundsOK'
  BY <1>1, <1>3, <1>4 DEF IInv, TypeOK, RoundsOK
<1>7. Here(t) \in Eles /\ Here(t) \in Chunk(t, NEles, job.nthreads)
  BY <1>1, InsideSlice DEF Here
<1>8. ASSUME NEW u \in Threads, NEW i \in Eles
      PROVE  Finished(u, i)' <=> Finished(u, i) \/ (u = t /\ i = Here(t))
  <2>1. Here(u) \in Int /\ i \in Int /\ First(u) \in Int
    BY <1>4 DEF IInv, TypeOK, Here, Eles
  <2>2. CASE u = t
    <3>1. Here(u)' = Here(u) + 1 /\ First(u) <= Here(u)
      BY <1>1, <1>3, <1>4, <2>2 DEF IInv, TypeOK, Here
    <3> QED
      BY <1>3, <2>1, <2>2, <3>1 DEF Finished
  <2>3. CASE u # t
    <3>1. Here(u)' = Here(u)
      BY <1>1, <1>3, <2>3 DEF IInv, TypeOK, Here
    <3> QED
      BY <1>3, <2>3, <3>1 DEF Finished
  <2> QED
    BY <2>2, <2>3
<1>9. Progress'
  <2> SUFFICES ASSUME Sound' PROVE Progress'
    BY DEF Progress
  <2>1. Sound /\ \A i \in Eles : PlaceOf(i)' = PlaceOf(i) /\ PlaceOf(i) \in Eles
    BY <1>1, ConstantsOK DEF IInv, TypeOK, Sound, PlaceOf, Permutation
  <2>2. reg[t] = [of |-> Here(t), times |-> 1] /\ OutIdx(t) = PlaceOf(Here(t))
    BY <1>1, <2>1, SoundIndices DEF IInv, Progress
  <2>3. \A i \in Eles : output'[PlaceOf(i)]
                          = IF i = Here(t) THEN [of |-> i, times |-> 1] ELSE output[PlaceOf(i)]
    BY <1>1, <1>7, <2>1, <2>2, PlacesDiffer DEF IInv, TypeOK
  <2>4. \A u \in Threads, i \in Eles :
          Finished(u, i)' => output'[PlaceOf(i)] = [of |-> i, times |-> 1]
    BY <1>8, <2>1, <2>3 DEF IInv, Progress
  <2>5. \A u \in Threads : u # t => Here(u)' = Here(u) /\ loaded'[u] = loaded[u]
    BY <1>1, <1>3 DEF IInv, TypeOK, Here
  <2>6. \A u \in Threads : loaded'[u] => u # t
    BY <1>1 DEF IInv, TypeOK
  <2>7. \A u \in Threads : loaded'[u] => reg'[u] = [of |-> Here(u)', times |-> 1]
    BY <1>1, <2>1, <2>5, <2>6 DEF IInv, Progress
  <2>8. ASSUME NEW i \in Eles,
               ~job.inplace \/ (\A u \in Threads : ~Finished(u, i)')
        PROVE  input'[i] = [of |-> i, times |-> 0]
    <3>1. CASE ~job.inplace
      BY <1>1, <2>1, <3>1 DEF IInv, Progress
    <3>2. CASE job.inplace
      <4>1. job.func = "asym_encrypt"
        BY <1>1, <3>2, ConstantsOK
      <4>2. input'[i] = output'[i] /\ PlaceOf(i) = i
        BY <1>1, <3>2, <4>1 DEF PlaceOf
      <4>3. i # Here(t) /\ \A u \in Threads : ~Finished(u, i)
        BY <1>8, <2>8, <3>2
      <4>4. input[i] = [of |-> i, times |-> 0]
        BY <2>1, <4>3 DEF IInv, Progress
      <4>5. OutIdx(t) # i
        BY <1>7, <2>2, <4>1, <4>3 DEF PlaceOf
      <4>6. output'[i] = output[i] /\ output[i] = input[i]
        BY <1>1, <3>2, <4>5 DEF IInv, TypeOK
      <4> QED
        BY <4>2, <4>4, <4>6
    <3> QED
      BY <3>1, <3>2
  <2> QED
    BY <1>1, <1>3, <2>1, <2>4, <2>7, <2>8 DEF Progress
<1>10. ~joined'
  <2>1. Count(t) \in Int
    BY <1>4
  <2>2. ~joined
    BY <1>1, <2>1 DEF IInv
  <2> QED
    BY <1>1, <2>2
<1>11. job'.inplace => input' = output'
  BY <1>1
<1> QED
  BY <1>5, <1>6, <1>9, <1>10, <1>11 DEF IInv

(* The join, and steps that change nothing. *)
LEMMA JoinStep ==
  ASSUME IInv, Join \/ UNCHANGED vars
  PROVE  IInv'
<1>1. UNCHANGED <<job, perm, input, output, round, loaded, reg>> /\ joined' \in BOOLEAN
  BY DEF IInv, TypeOK, Join, vars
<1>2. /\ Threads' = Threads
      /\ \A u \in Threads : First(u)' = First(u) /\ Count(u)' = Count(u) /\ Here(u)' = Here(u)
      /\ \A u \in Threads, i \in Eles : Finished(u, i)' = Finished(u, i)
      /\ \A i \in Eles : PlaceOf(i)' = PlaceOf(i)
      /\ Sound' = Sound
  BY <1>1 DEF Threads, First, Count, Here, Finished, PlaceOf, Sound
<1>3. TypeOK' /\ RoundsOK'
  BY <1>1, <1>2 DEF IInv, TypeOK, RoundsOK
<1>4. Progress'
  BY <1>1, <1>2 DEF IInv, Progress
<1>5. joined' => \A u \in Threads : round[u] >= Count(u)
  BY DEF IInv, Join, AllReturned, vars
<1> QED
  BY <1>1, <1>2, <1>3, <1>4, <1>5 DEF IInv

(* IInv holds in every reachable state. *)
THEOREM Invariance == Spec => []IInv
<1>1. Init => IInv
  BY InitIInv
<1>2. IInv /\ [Next]_vars => IInv'
  BY LoadStep, StoreStep, JoinStep DEF Next, Returned
<1> QED
  BY <1>1, <1>2, PTL DEF Spec

(* Every call, sound or not, keeps to its arrays: no thread uses an index outside
   them, however many threads there are. *)
THEOREM IndicesStayInside == Spec => []StaysInArrays
<1>1. IInv => StaysInArrays
  BY SoundIndices DEF IInv, StaysInArrays, Here
<1> QED
  BY <1>1, Invariance, PTL

(* What the calls that are not sound have in hand and have written: nothing but elements
   of the first slice, in place each in its own cell. *)
FirstSliceOnly ==
  ~Sound =>
    /\ \A i \in Eles : input[i] # Garbage => input[i].of = i
    /\ \A t \in Threads : loaded[t] /\ reg[t] # Garbage => reg[t].of = round[t]
    /\ \A j \in Eles : output[j] # Garbage => output[j].of < Count(0) \/ output[j].times = 0

(* No slice is longer than the first. *)
LEMMA FirstIsLongest ==
  ASSUME job \in Jobs, NEW t \in Threads
  PROVE  Count(t) <= Count(0) /\ Count(t) \in Int /\ Count(0) \in Int
<1> DEFINE q == CeilDivide(NEles, job.nthreads)
<1>1. job.nthreads \in Nat \ {0} /\ NEles \in Nat
  BY ConstantsOK DEF Job
<1>2. q \in Nat
  BY <1>1, CeilDivideBounds
<1>3. StartPos(0, NEles, job.nthreads) = 0
  BY <1>2 DEF StartPos
<1>4. Count(0) = Lesser(NEles, q)
  BY <1>1, <1>3 DEF Count, NElements, StartElement, Lesser
<1>5. First(t) \in 0 .. NEles /\ Count(t) = Lesser(NEles - First(t), q)
  BY SliceFacts DEF Count, NElements, First
<1> HIDE DEF q
<1> QED
  BY <1>1, <1>2, <1>4, <1>5 DEF Lesser

(* Nothing has a result at the start. *)
LEMMA InitFirstSlice == Init => FirstSliceOnly
BY DEF Init, FirstSliceOnly

(* A thread that is not behind pointers reads the element of its round. *)
LEMMA LoadFirstSlice ==
  ASSUME IInv, FirstSliceOnly, NEW t \in Threads, Load(t)
  PROVE  FirstSliceOnly'
<1> SUFFICES ASSUME ~Sound' PROVE FirstSliceOnly'
  BY DEF FirstSliceOnly
<1> DEFINE c == input[InIdx(t)]
<1>1. /\ round[t] < Count(t) /\ job \in Jobs /\ ~Sound
      /\ loaded' = [loaded EXCEPT ![t] = TRUE]
      /\ UNCHANGED <<job, perm, input, output, round>>
  BY DEF Load, IInv, TypeOK, Sound
<1>2. Threads' = Threads /\ Count(0)' = Count(0)
  BY <1>1 DEF Threads, Count
<1>3. c \in Cell \cup {Garbage} /\ (c # Garbage => c.of = round[t])
  <2>1. InIdx(t) = round[t] /\ InIdx(t) \in Eles
    BY <1>1, SoundIndices DEF IInv, InIdx, Sound
  <2> QED
    BY <1>1, <2>1 DEF IInv, TypeOK, FirstSliceOnly
<1>4. reg' = [reg EXCEPT ![t] = Applied(c)] \/ reg' = [reg EXCEPT ![t] = Garbage]
  BY DEF Load
<1> HIDE DEF c
<1>5. Applied(c) # Garbage => Applied(c).of = round[t]
  BY <1>3 DEF Applied, Cell
<1>6. \A u \in Threads : loaded'[u] /\ reg'[u] # Garbage => reg'[u].of = round'[u]
  BY <1>1, <1>4, <1>5 DEF IInv, TypeOK, FirstSliceOnly
<1> QED
  BY <1>1, <1>2, <1>6 DEF FirstSliceOnly

(* What it stores is of its round, in which there is an element of the first slice. *)
LEMMA StoreFirstSlice ==
  ASSUME IInv, FirstSliceOnly, NEW t \in Threads, Store(t)
  PROVE  FirstSliceOnly'
<1> SUFFICES ASSUME ~Sound' PROVE FirstSliceOnly'
  BY DEF FirstSliceOnly
<1>1. /\ loaded[t] /\ round[t] < Count(t) /\ round[t] \in Nat /\ job \in Jobs /\ ~Sound
      /\ output' = [output EXCEPT ![OutIdx(t)] = reg[t]]
      /\ input' = IF job.inplace THEN output' ELSE input
      /\ loaded' = [loaded EXCEPT ![t] = FALSE]
      /\ round' = [round EXCEPT ![t] = round[t] + 1]
      /\ UNCHANGED <<job, perm, reg>>
  BY DEF Store, NextRound, IInv, TypeOK, RoundsOK, Sound
<1>2. Threads' = Threads /\ Count(0)' = Count(0)
  BY <1>1 DEF Threads, Count
<1>3. reg[t] # Garbage => reg[t].of = round[t]
  BY <1>1 DEF FirstSliceOnly
<1>4. round[t] < Count(0)
  BY <1>1, FirstIsLongest
<1>5. \A j \in Eles : output'[j] # Garbage => output'[j].of < Count(0) \/ output'[j].times = 0
  BY <1>1, <1>3, <1>4 DEF IInv, TypeOK, FirstSliceOnly
<1>6. \A i \in Eles : input'[i] # Garbage => input'[i].of = i
  <2>1. CASE ~job.inplace
    BY <1>1, <2>1 DEF FirstSliceOnly
  <2>2. CASE job.inplace
    <3>1. OutIdx(t) = round[t]
      BY <1>1, <2>2, ConstantsOK DEF OutIdx
    <3> QED
      BY <1>1, <1>3, <2>2, <3>1 DEF IInv, TypeOK, FirstSliceOnly
  <2> QED
    BY <2>1, <2>2
<1>7. \A u \in Threads : loaded'[u] /\ reg'[u] # Garbage => reg'[u].of = round'[u]
  BY <1>1 DEF IInv, TypeOK, FirstSliceOnly
<1> QED
  BY <1>1, <1>2, <1>5, <1>6, <1>7 DEF FirstSliceOnly

(* Joining the threads changes none of it. *)
LEMMA JoinFirstSlice ==
  ASSUME IInv, FirstSliceOnly, Join \/ UNCHANGED vars
  PROVE  FirstSliceOnly'
<1>1. UNCHANGED <<job, perm, input, output, round, loaded, reg>>
  BY DEF Join, vars
<1>2. Threads' = Threads /\ Count(0)' = Count(0) /\ Sound' = Sound
  BY <1>1 DEF Threads, Count, Sound
<1> QED
  BY <1>1, <1>2 DEF FirstSliceOnly

(* When run_task returns from a sound call, every element was processed once and
   its result is in its place; of the other calls, none ever has a result of an
   element behind the first slice. *)
THEOREM SoundCallsProcessAll == Spec => []ProcessedByPointer
<1>1. IInv /\ Sound => EveryElementProcessed
  <2> SUFFICES ASSUME IInv, Sound, joined, NEW i \in Eles
               PROVE  output[PlaceOf(i)] = [of |-> i, times |-> 1]
    BY DEF EveryElementProcessed
  <2>1. job \in Jobs /\ job.nthreads \in Nat \ {0} /\ NEles \in Nat
    BY ConstantsOK DEF IInv, TypeOK, Job
  <2>2. PICK t \in Threads : i \in Chunk(t, NEles, job.nthreads)
    BY <2>1, ChunksCover DEF Threads, Eles
  <2>3. First(t) <= i /\ i < First(t) + Count(t) /\ i \in Int
    BY <2>1, <2>2, SliceFacts DEF Eles
  <2>4. First(t) \in Int /\ Count(t) \in Int /\ round[t] \in Int
    BY <2>1, SliceFacts DEF IInv, TypeOK
  <2>5. round[t] >= Count(t)
    BY DEF IInv
  <2>6. Finished(t, i)
    BY <2>3, <2>4, <2>5 DEF Finished, Here
  <2> QED
    BY <2>6 DEF IInv, Progress
<1>2. IInv /\ FirstSliceOnly /\ ~Sound => \A i \in Eles : i >= Count(0) => Unprocessed(i)
  <2> SUFFICES ASSUME IInv, FirstSliceOnly, ~Sound, NEW i \in Eles, i >= Count(0), NEW j \in Eles,
                      output[j] # Garbage, output[j].of = i
               PROVE  output[j].times = 0
    BY DEF Unprocessed
  <2>1. i \in Int /\ Count(0) \in Int
    <3>1. job \in Jobs /\ NEles \in Nat /\ 0 \in Threads
      BY ConstantsOK DEF IInv, TypeOK, Job, Threads
    <3> QED
      BY <3>1, FirstIsLongest DEF Eles
  <2> QED
    BY <2>1 DEF FirstSliceOnly
<1>3. IInv /\ FirstSliceOnly => ProcessedByPointer
  BY <1>1, <1>2 DEF ProcessedByPointer, Sound
<1>4. Init => FirstSliceOnly
  BY InitFirstSlice
<1>5. IInv /\ FirstSliceOnly /\ [Next]_vars => FirstSliceOnly'
  BY LoadFirstSlice, StoreFirstSlice, JoinFirstSlice DEF Next, Returned
<1>6. Spec => []FirstSliceOnly
  BY <1>4, <1>5, Invariance, PTL DEF Spec
<1> QED
  BY <1>3, <1>6, Invariance, PTL

(* The type invariant, for every set of calls and every permutation. *)
THEOREM TypeCorrect == Spec => []TypeOK
<1>1. IInv => TypeOK
  BY DEF IInv
<1> QED
  BY <1>1, Invariance, PTL

(* The permuting functions, which work with one input array and another output
   array, never see uninitialised memory, in sound and in unsound calls. *)
Written ==
  job.func # "asym_encrypt" =>
    /\ \A i \in Eles : input[i] # Garbage
    /\ \A t \in Threads : loaded[t] => reg[t] # Garbage
    /\ \A t \in Threads, i \in Eles : Finished(t, i) => output[perm[i]] # Garbage

(* Nothing is written at the start. *)
LEMMA InitWritten == Init => Written
<1> SUFFICES ASSUME Init PROVE Written
  OBVIOUS
<1>1. job \in Jobs
  BY DEF Init
<1>2. \A i \in Eles : input[i] # Garbage
  <2>1. \A i \in Eles : input[i] \in Cell
    BY DEF Init, Cell
  <2> QED
    BY <2>1, ConstantsOK
<1>3. \A t \in Threads : ~loaded[t]
  BY DEF Init
<1>4. ASSUME NEW t \in Threads, NEW i \in Eles PROVE ~Finished(t, i)
  <2>1. Here(t) = First(t) /\ First(t) \in Int /\ i \in Int
    BY <1>1, SliceFacts DEF Init, Here, Eles
  <2> QED
    BY <2>1 DEF Finished
<1> QED
  BY <1>2, <1>3, <1>4 DEF Written

(* Reading a cell writes nothing. *)
LEMMA LoadWritten ==
  ASSUME IInv, Written, NEW t \in Threads, Load(t)
  PROVE  Written'
<1> SUFFICES ASSUME job'.func # "asym_encrypt" PROVE Written'
  BY DEF Written
<1>1. /\ round[t] < Count(t) /\ job \in Jobs
      /\ loaded' = [loaded EXCEPT ![t] = TRUE]
      /\ UNCHANGED <<job, perm, input, output, round>>
  BY DEF Load, IInv, TypeOK
<1>2. Threads' = Threads /\ \A u \in Threads, i \in Eles : Finished(u, i)' = Finished(u, i)
  BY <1>1 DEF Threads, First, Count, Here, Finished
<1>3. ~job.inplace
  BY <1>1, ConstantsOK
<1> DEFINE c == input[InIdx(t)]
<1>4. c \in Cell
  <2>1. InIdx(t) \in Eles
    BY <1>1, SoundIndices DEF IInv
  <2> QED
    BY <1>1, <2>1 DEF IInv, TypeOK, Written
<1> HIDE DEF c
<1>5. Applied(c) # Garbage
  <2>1. Applied(c) \in Cell
    BY <1>4, ConstantsOK DEF Applied, Cell
  <2> QED
    BY <2>1, ConstantsOK
<1>6. reg' = [reg EXCEPT ![t] = Applied(c)]
  BY <1>3 DEF Load, c
<1>7. \A u \in Threads : loaded'[u] => reg'[u] # Garbage
  BY <1>1, <1>5, <1>6 DEF IInv, TypeOK, Written
<1> QED
  BY <1>1, <1>2, <1>7 DEF Written

(* A thread writes only cells of its own chunk. *)
LEMMA StoreWritten ==
  ASSUME IInv, Written, NEW t \in Threads, Store(t)
  PROVE  Written'
<1> SUFFICES ASSUME job'.func # "asym_encrypt" PROVE Written'
  BY DEF Written
<1>1. /\ loaded[t] /\ round[t] < Count(t) /\ job \in Jobs
      /\ output' = [output EXCEPT ![OutIdx(t)] = reg[t]]
      /\ input' = IF job.inplace THEN output' ELSE input
      /\ loaded' = [loaded EXCEPT ![t] = FALSE]
      /\ round' = [round EXCEPT ![t] = round[t] + 1]
      /\ UNCHANGED <<job, perm, reg>>
  BY DEF Store, NextRound, IInv, TypeOK, RoundsOK
<1>2. Threads' = Threads /\ \A u \in Threads : First(u)' = First(u)
  BY <1>1 DEF Threads, First, Count
<1>3. ~job.inplace
  BY <1>1, ConstantsOK
<1>4. reg[t] # Garbage /\ OutIdx(t) = perm[Here(t)]
  BY <1>1 DEF Written, OutIdx, Here
<1>5. ASSUME NEW u \in Threads, NEW i \in Eles, Finished(u, i)'
      PROVE  Finished(u, i) \/ i = Here(t)
  <2>1. First(u) \in Int /\ round[u] \in Int /\ i \in Int
    BY <1>1, SliceFacts DEF IInv, TypeOK, Eles
  <2>2. round'[u] = IF u = t THEN round[u] + 1 ELSE round[u]
    BY <1>1 DEF IInv, TypeOK
  <2> QED
    BY <1>2, <1>5, <2>1, <2>2 DEF Finished, Here
<1>6. \A u \in Threads, i \in Eles : Finished(u, i)' => output'[perm[i]] # Garbage
  <2>1. \A i \in Eles : perm[i] \in Eles
    BY ConstantsOK DEF IInv, TypeOK, Permutation
  <2> QED
    BY <1>1, <1>4, <1>5, <2>1 DEF IInv, TypeOK, Written
<1>7. \A u \in Threads : loaded'[u] => reg'[u] # Garbage
  BY <1>1 DEF IInv, TypeOK, Written
<1>8. \A i \in Eles : input'[i] # Garbage
  BY <1>1, <1>3 DEF Written
<1> QED
  BY <1>1, <1>2, <1>6, <1>7, <1>8 DEF Written

(* Joining the threads writes nothing. *)
LEMMA JoinWritten ==
  ASSUME IInv, Written, Join \/ UNCHANGED vars
  PROVE  Written'
<1>1. UNCHANGED <<job, perm, input, output, round, loaded, reg>>
  BY DEF Join, vars
<1>2. Threads' = Threads /\ \A u \in Threads, i \in Eles : Finished(u, i)' = Finished(u, i)
  BY <1>1 DEF Threads, First, Count, Here, Finished
<1> QED
  BY <1>1, <1>2 DEF Written

(* Two threads of a permuting function never have the same cell in hand: their
   elements are in different slices, and the permutation is injective.  When the
   call returns, every cell was written, by whichever thread had its element. *)
THEOREM OneWriterPerCell == Spec => []CellsHaveOneWriter
<1>1. IInv /\ Written => CellsHaveOneWriter
  <2> SUFFICES ASSUME IInv, Written, job.func # "asym_encrypt" PROVE CellsHaveOneWriter
    BY DEF CellsHaveOneWriter
  <2>1. job \in Jobs /\ job.nthreads \in Nat \ {0} /\ NEles \in Nat /\ Permutation(perm)
    BY ConstantsOK DEF IInv, TypeOK, Job
  <2>2. ASSUME NEW t \in Threads, NEW u \in Threads, t # u, loaded[t], loaded[u],
               OutIdx(t) = OutIdx(u)
        PROVE  FALSE
    <3>1. /\ round[t] \in Nat /\ round[t] < Count(t)
          /\ round[u] \in Nat /\ round[u] < Count(u)
      BY <2>2 DEF IInv, TypeOK, RoundsOK
    <3>2. /\ Here(t) \in Eles /\ Here(t) \in Chunk(t, NEles, job.nthreads)
          /\ Here(u) \in Eles /\ Here(u) \in Chunk(u, NEles, job.nthreads)
      BY <2>1, <3>1, InsideSlice DEF Here
    <3>3. Here(t) = Here(u)
      BY <2>1, <2>2, <3>2 DEF OutIdx, Here, Permutation
    <3>4. t \in Nat /\ u \in Nat /\ Here(t) \in Int
      BY <2>1, <3>2, SliceFacts DEF Eles
    <3> QED
      BY <2>1, <2>2, <3>2, <3>3, <3>4, ChunksDisjoint
  <2>3. ASSUME joined, NEW c \in Eles PROVE output[c] # Garbage
    <3>1. PICK i \in Eles : perm[i] = c
      BY <2>1 DEF Permutation
    <3>2. PICK t \in Threads : i \in Chunk(t, NEles, job.nthreads)
      BY <2>1, ChunksCover DEF Threads, Eles
    <3>3. First(t) <= i /\ i < First(t) + Count(t) /\ i \in Int
      BY <2>1, <3>2, SliceFacts DEF Eles
    <3>4. First(t) \in Int /\ Count(t) \in Int /\ round[t] \in Int /\ round[t] >= Count(t)
      BY <2>1, <2>3, SliceFacts DEF IInv, TypeOK
    <3>5. Finished(t, i)
      BY <3>3, <3>4 DEF Finished, Here
    <3> QED
      BY <3>1, <3>5 DEF Written
  <2> QED
    BY <2>2, <2>3 DEF CellsHaveOneWriter
<1>2. Init => Written
  BY InitWritten
<1>3. IInv /\ Written /\ [Next]_vars => Written'
  BY LoadWritten, StoreWritten, JoinWritten DEF Next, Returned
<1>4. Spec => []Written
  BY <1>2, <1>3, Invariance, PTL DEF Spec
<1> QED
  BY <1>1, <1>4, Invariance, PTL
================================================================================
