-------------------------- MODULE CuckooHashingProofs --------------------------
(***************************************************************************)
(* What holds of the cuckoo table for every number of elements, bins and   *)
(* threads and every hash function.                                        *)
(*                                                                         *)
(* The argument: while the threads run, the entries below a thread's loop  *)
(* variable are those of its own elements (Generated); the chunks cover    *)
(* the set, so after the join all entries are ready.  From then on only    *)
(* Place and Evict touch the table, and each of them moves one entry into  *)
(* a bin it hashes to, and takes at most one entry out, which it carries.  *)
(***************************************************************************)
EXTENDS CuckooHashing, TaskPartitionProofs, FiniteSetTheorems

(* Element e has an entry, and it was computed from element e. *)
Ready(e) ==
  /\ entry[e] # NoEntry
  /\ entry[e].eleid = e
  /\ entry[e].val = e
  /\ entry[e].address = hash[e]

(* What a running thread has done so far. *)
Generated ==
  phase = "generate" =>
    \A t \in Tasks :
      /\ StartPos(t, NEles, ntasks) <= next[t]
      /\ \A e \in Chunk(t, NEles, ntasks) : e < next[t] => Ready(e)

(* What the control state says about the insertion loop. *)
PhaseOK ==
  /\ phase = "generate" => fed = 0 /\ evicted = NoEntry
  /\ evicted # NoEntry => phase = "insert"
  /\ phase \in {"scan", "done"} => fed = NEles

(* The inductive invariant. *)
IInv ==
  /\ TypeOK
  /\ Generated
  /\ EntriesReady
  /\ PhaseOK
  /\ PlacementSound

(* The loop variable of a running thread is an element of the set. *)
LEMMA NextInChunk ==
  ASSUME IInv, NEW t \in Tasks, phase = "generate",
         next[t] < EndPos(t, NEles, ntasks)
  PROVE  next[t] \in Eles /\ next[t] \in Chunk(t, NEles, ntasks)
<1>1. /\ NEles \in Nat /\ ntasks \in Nat \ {0} /\ t \in Nat
      /\ next[t] \in Nat
  BY ConstantsOK DEF IInv, TypeOK, Tasks
<1>2. StartPos(t, NEles, ntasks) \in Nat /\ CeilDivide(NEles, ntasks) \in Nat
  BY <1>1, StartPosNext, CeilDivideBounds
<1>3. /\ EndPos(t, NEles, ntasks) \in Int
      /\ EndPos(t, NEles, ntasks) <= NEles
  BY <1>1, <1>2 DEF EndPos, Lesser
<1>4. StartPos(t, NEles, ntasks) <= next[t]
  BY DEF IInv, Generated
<1> QED
  BY <1>1, <1>2, <1>3, <1>4 DEF Eles, Chunk

(* The entry a thread writes is the entry of the element at its position. *)
LEMMA NewEntryReady ==
  ASSUME IInv, NEW t \in Tasks, NEW e \in Eles
  PROVE  /\ NewEntry(e, EleAt(t, e)) = [eleid |-> e, val |-> e, address |-> hash[e], pos |-> 0]
         /\ NewEntry(e, EleAt(t, e)) \in Entry
         /\ NoEntry \notin Entry
<1>0. NEles \in Nat /\ ntasks \in Nat \ {0} /\ t \in Nat
  BY ConstantsOK DEF IInv, TypeOK, Tasks
<1>1. StartPos(t, NEles, ntasks) \in Nat
  BY <1>0, StartPosNext
<1>2. EleAt(t, e) = e
  BY <1>1 DEF EleAt, Eles
<1>3. hash[e] \in Hashes /\ 0 \in HashIdx
  BY DEF IInv, TypeOK, HashIdx, NUM_HASH_FUNCTIONS
<1>4. NewEntry(e, EleAt(t, e)) \in Entry
  BY <1>2, <1>3 DEF NewEntry, Entry
<1> QED
  BY <1>2, <1>4, ConstantsOK DEF NewEntry

(* Writing pos leaves the other fields of an entry alone. *)
LEMMA PosUpdate ==
  ASSUME IInv, phase # "generate", NEW v \in Eles, NEW p \in HashIdx,
         entry' = [entry EXCEPT ![v].pos = p], UNCHANGED hash
  PROVE  /\ entry' \in [Eles -> Entry \cup {NoEntry}]
         /\ \A e \in Eles : Ready(e)'
         /\ \A e \in Eles : entry'[e].address = entry[e].address
<1>1. entry \in [Eles -> Entry \cup {NoEntry}]
  BY DEF IInv, TypeOK
<1>2. \A e \in Eles : Ready(e)
  BY DEF IInv, EntriesReady, Ready
<1>3. entry[v] \in Entry
  BY <1>1, <1>2 DEF Ready
<1>4. entry' = [entry EXCEPT ![v] = [entry[v] EXCEPT !.pos = p]]
  OBVIOUS
<1>5. /\ [entry[v] EXCEPT !.pos = p] \in Entry
      /\ [entry[v] EXCEPT !.pos = p].eleid = entry[v].eleid
      /\ [entry[v] EXCEPT !.pos = p].val = entry[v].val
      /\ [entry[v] EXCEPT !.pos = p].address = entry[v].address
  BY <1>3 DEF Entry
<1>6. entry' \in [Eles -> Entry \cup {NoEntry}]
  BY <1>1, <1>4, <1>5
<1>7. ASSUME NEW e \in Eles
      PROVE  Ready(e)' /\ entry'[e].address = entry[e].address
  <2>1. CASE e = v
    <3>1. entry'[e] = [entry[v] EXCEPT !.pos = p]
      BY <1>1, <1>4, <2>1
    <3>2. entry'[e] # NoEntry
      BY <3>1, <1>5, ConstantsOK
    <3> QED
      BY <3>1, <3>2, <1>5, <1>2, <2>1 DEF Ready
  <2>2. CASE e # v
    <3>1. entry'[e] = entry[e]
      BY <1>1, <1>4, <2>2
    <3> QED
      BY <3>1, <1>2 DEF Ready
  <2> QED
    BY <2>1, <2>2
<1> QED
  BY <1>6, <1>7

(* The bins that an inserted entry hashes to are bins of the table. *)
LEMMA BinOfEntry ==
  ASSUME IInv, phase # "generate", NEW e \in Eles, NEW i \in HashIdx
  PROVE  Bin(e, i) = hash[e][i] /\ Bin(e, i) \in Bins
<1>1. entry[e].address = hash[e] /\ hash[e] \in [HashIdx -> Bins]
  BY ConstantsOK DEF IInv, TypeOK, EntriesReady
<1> QED
  BY <1>1 DEF Bin

(* The walk picks one of the entry's own bins. *)
LEMMA VictimBinOfEntry ==
  ASSUME IInv, phase = "insert", NEW e \in Eles
  PROVE  \E i \in HashIdx : VictimBin(e) = Bin(e, i)
<1>1. entry[e] \in Entry
  BY DEF IInv, TypeOK, EntriesReady
<1>2. entry[e].pos \in Nat /\ iter \in Nat
  BY <1>1, ConstantsOK DEF IInv, TypeOK, Entry, HashIdx, NUM_HASH_FUNCTIONS
<1> DEFINE x == Xor(entry[e].pos, iter)
<1>3. x \in Int
  BY <1>2 DEF Xor
<1> HIDE DEF x
<1>4. x % NUM_HASH_FUNCTIONS \in HashIdx
  BY <1>3 DEF HashIdx, NUM_HASH_FUNCTIONS
<1> QED
  BY <1>4 DEF VictimBin, x

(* A program whose threads are not yet joined has an empty table. *)
LEMMA InitIInv == Init => IInv
<1> SUFFICES ASSUME Init PROVE IInv
  OBVIOUS
<1>1. NEles \in Nat \ {0} /\ NBins \in Nat \ {0} /\ ntasks \in Nat \ {0}
  BY ConstantsOK DEF Init
<1>2. \A t \in Tasks : StartPos(t, NEles, ntasks) \in Nat
  BY <1>1, StartPosNext DEF Tasks
<1>3. TypeOK
  BY <1>1, <1>2 DEF Init, TypeOK
<1>4. Generated
  <2> SUFFICES ASSUME NEW t \in Tasks,
                      NEW e \in Chunk(t, NEles, ntasks), e < next[t]
               PROVE  FALSE
    BY <1>2 DEF Generated, Init
  <2>1. next[t] = StartPos(t, NEles, ntasks) /\ next[t] \in Nat
    BY <1>2 DEF Init
  <2>2. EndPos(t, NEles, ntasks) \in Int
    BY <1>1, <1>2, CeilDivideBounds DEF EndPos, Lesser
  <2> QED
    BY <2>1, <2>2 DEF Chunk
<1>5. EntriesReady /\ PhaseOK
  BY DEF Init, EntriesReady, PhaseOK
<1>6. PlacementSound
  BY DEF Init, PlacementSound
<1> QED
  BY <1>3, <1>4, <1>5, <1>6 DEF IInv

(* A thread's round. *)
LEMMA GenStep ==
  ASSUME IInv, NEW t \in Tasks, GenCuckooEntry(t)
  PROVE  IInv'
<1> DEFINE i == next[t]
<1>1. phase = "generate" /\ phase' = "generate" /\ i < EndPos(t, NEles, ntasks)
  BY DEF GenCuckooEntry
<1>2. i \in Eles /\ i \in Chunk(t, NEles, ntasks)
  BY <1>1, NextInChunk
<1>3. /\ NewEntry(i, EleAt(t, i)) \in Entry
      /\ NewEntry(i, EleAt(t, i)) = [eleid |-> i, val |-> i, address |-> hash[i], pos |-> 0]
      /\ NewEntry(i, EleAt(t, i)) # NoEntry
  BY <1>2, NewEntryReady
<1>4. /\ entry' = [entry EXCEPT ![i] = NewEntry(i, EleAt(t, i))]
      /\ next' = [next EXCEPT ![t] = i + 1]
      /\ UNCHANGED <<ntasks, hash, phase, table, fed, evicted, iter, reported>>
      /\ UNCHANGED <<scan, hash_table, nelesinbin, perm>>
  BY DEF GenCuckooEntry, scanVars
<1>5. Tasks' = Tasks
  BY <1>4 DEF Tasks
<1>6. i \in Nat
  BY DEF IInv, TypeOK
<1>7. TypeOK'
  BY <1>3, <1>4, <1>5, <1>6, <1>2 DEF IInv, TypeOK
<1>8. Generated'
  <2> SUFFICES ASSUME NEW u \in Tasks
               PROVE  /\ StartPos(u, NEles, ntasks) <= next'[u]
                      /\ \A e \in Chunk(u, NEles, ntasks) : e < next'[u] => Ready(e)'
    BY <1>4, <1>5 DEF Generated
  <2>0. /\ NEles \in Nat /\ ntasks \in Nat \ {0} /\ u \in Nat /\ t \in Nat
        /\ StartPos(u, NEles, ntasks) \in Nat
        /\ next \in [Tasks -> Nat] /\ entry \in [Eles -> Entry \cup {NoEntry}]
    <3>1. NEles \in Nat /\ ntasks \in Nat \ {0} /\ u \in Nat /\ t \in Nat
      BY ConstantsOK DEF IInv, TypeOK, Tasks
    <3> QED
      BY <3>1, StartPosNext DEF IInv, TypeOK
  <2>1. /\ StartPos(u, NEles, ntasks) <= next[u]
        /\ \A e \in Chunk(u, NEles, ntasks) : e < next[u] => Ready(e)
    BY <1>1 DEF IInv, Generated
  <2>2. StartPos(u, NEles, ntasks) <= next'[u]
    BY <2>0, <2>1, <1>4, <1>6
  <2>3. ASSUME NEW e \in Chunk(u, NEles, ntasks), e < next'[u]
        PROVE  Ready(e)'
    <3>1. CASE e = i
      <4>1. entry'[e] = NewEntry(i, EleAt(t, i))
        BY <1>4, <1>2, <2>0, <3>1
      <4> QED
        BY <4>1, <1>3, <1>4, <3>1 DEF Ready
    <3>2. CASE e # i
      <4>1. EndPos(u, NEles, ntasks) \in Int /\ e \in Int
        BY <2>0, CeilDivideBounds DEF EndPos, Lesser, Chunk
      <4>2. e < next[u]
        BY <2>0, <2>3, <3>2, <4>1, <1>4, <1>6
      <4>3. Ready(e)
        BY <2>1, <4>2
      <4>4. entry'[e] = entry[e]
        BY <1>4, <3>2, <2>0, <1>2
      <4> QED
        BY <4>3, <4>4, <1>4 DEF Ready
    <3> QED
      BY <3>1, <3>2
  <2> QED
    BY <2>2, <2>3
<1>9. EntriesReady' /\ PhaseOK'
  BY <1>1, <1>4 DEF IInv, EntriesReady, PhaseOK
<1>10. PlacementSound'
  BY <1>4 DEF IInv, PlacementSound
<1> QED
  BY <1>7, <1>8, <1>9, <1>10 DEF IInv

(* The join: the chunks of the threads cover the set, so all entries are ready. *)
LEMMA JoinStep == IInv /\ JoinTasks => IInv'
<1> SUFFICES ASSUME IInv, JoinTasks PROVE IInv'
  OBVIOUS
<1>1. ASSUME NEW e \in Eles PROVE Ready(e)
  <2>1. NEles \in Nat /\ ntasks \in Nat \ {0}
    BY ConstantsOK DEF IInv, TypeOK
  <2>2. PICK t \in Tasks : e \in Chunk(t, NEles, ntasks)
    BY <2>1, ChunksCover DEF Eles, Tasks
  <2>3. next[t] \in Nat /\ StartPos(t, NEles, ntasks) \in Nat
    <3>1. t \in Nat
      BY <2>1 DEF Tasks
    <3> QED
      BY <2>1, <3>1, StartPosNext DEF IInv, TypeOK
  <2>4. EndPos(t, NEles, ntasks) \in Int
    BY <2>1, <2>3, CeilDivideBounds DEF EndPos, Lesser
  <2>5. e < next[t]
    <3>1. next[t] >= EndPos(t, NEles, ntasks)
      BY DEF JoinTasks
    <3>2. e \in Int /\ e <= EndPos(t, NEles, ntasks) - 1
      BY <2>2, <2>3, <2>4 DEF Chunk
    <3> QED
      BY <2>3, <2>4, <3>1, <3>2
  <2> QED
    BY <2>2, <2>5 DEF IInv, Generated, JoinTasks
<1>2. EntriesReady'
  BY <1>1 DEF EntriesReady, Ready, JoinTasks, threadVars
<1>3. TypeOK' /\ Generated' /\ PhaseOK' /\ PlacementSound'
  BY DEF IInv, TypeOK, Generated, PhaseOK, PlacementSound, JoinTasks, threadVars,
         scanVars, Tasks
<1> QED
  BY <1>2, <1>3 DEF IInv

(* The call of insert_element for the next element, which is in no bin yet. *)
LEMMA BeginInsertStep == IInv /\ BeginInsert => IInv'
<1> SUFFICES ASSUME IInv, BeginInsert PROVE IInv'
  OBVIOUS
<1>1. fed \in Eles /\ fed \in Nat
  BY ConstantsOK DEF IInv, TypeOK, BeginInsert, Eles
<1>2. TypeOK' /\ Generated' /\ PhaseOK' /\ EntriesReady'
  BY <1>1, ConstantsOK DEF IInv, TypeOK, Generated, PhaseOK, EntriesReady, BeginInsert,
     threadVars, scanVars, Tasks, Eles, Entry
<1>3. PlacementSound'
  <2>1. \A b \in Bins : table[b] # NoEntry => table[b] \in Eles /\ table[b] < fed
    BY DEF IInv, TypeOK, PlacementSound
  <2>2. \A b \in Bins : table[b] # fed
    BY <2>1, <1>1, ConstantsOK
  <2> QED
    BY <1>1, <2>1, <2>2 DEF IInv, PlacementSound, BeginInsert, threadVars, Eles
<1> QED
  BY <1>2, <1>3 DEF IInv

(* An empty bin takes the carried entry. *)
LEMMA PlaceStep == IInv /\ Place => IInv'
<1> SUFFICES ASSUME IInv, Place PROVE IInv'
  OBVIOUS
<1>1. phase = "insert" /\ phase' = "insert" /\ evicted \in Eles /\ evicted < fed
  BY DEF IInv, TypeOK, PhaseOK, PlacementSound, Place
<1>2. PICK i \in FreeIdx(evicted) :
        /\ table' = [table EXCEPT ![Bin(evicted, i)] = evicted]
        /\ entry' = [entry EXCEPT ![evicted].pos = i]
  BY DEF Place
<1>3. i \in HashIdx /\ table[Bin(evicted, i)] = NoEntry
  BY DEF FreeIdx
<1>4. Bin(evicted, i) = hash[evicted][i] /\ Bin(evicted, i) \in Bins
  BY <1>1, <1>3, BinOfEntry
<1>5. /\ UNCHANGED <<ntasks, hash, next, phase, fed, iter, reported>>
      /\ UNCHANGED <<scan, hash_table, nelesinbin, perm>>
      /\ evicted' = NoEntry
  BY DEF Place, threadVars, scanVars
<1>6. /\ entry' \in [Eles -> Entry \cup {NoEntry}]
      /\ \A e \in Eles : Ready(e)'
  BY <1>1, <1>2, <1>3, <1>5, PosUpdate
<1>7. TypeOK'
  BY <1>1, <1>2, <1>4, <1>5, <1>6 DEF IInv, TypeOK, Tasks
<1>8. Generated' /\ PhaseOK' /\ EntriesReady'
  BY <1>1, <1>5, <1>6 DEF IInv, Generated, PhaseOK, EntriesReady, Ready
<1>9. PlacementSound'
  BY <1>1, <1>2, <1>3, <1>4, <1>5, ConstantsOK DEF IInv, TypeOK, PlacementSound, Eles
<1> QED
  BY <1>7, <1>8, <1>9 DEF IInv

(* The bin whose entry goes out has one, and it is not the one that comes in. *)
LEMMA VictimFacts ==
  ASSUME IInv, Evict
  PROVE  /\ phase = "insert"
         /\ evicted \in Eles
         /\ VictimBin(evicted) \in Bins
         /\ \E i \in HashIdx : VictimBin(evicted) = hash[evicted][i]
         /\ table[VictimBin(evicted)] \in Eles
         /\ table[VictimBin(evicted)] # evicted
<1>1. phase = "insert" /\ evicted \in Eles /\ FreeIdx(evicted) = {}
  BY DEF IInv, TypeOK, PhaseOK, Evict
<1>2. PICK i \in HashIdx : VictimBin(evicted) = Bin(evicted, i)
  BY <1>1, VictimBinOfEntry
<1>3. Bin(evicted, i) = hash[evicted][i] /\ Bin(evicted, i) \in Bins
  BY <1>1, BinOfEntry
<1>4. table[Bin(evicted, i)] # NoEntry
  BY <1>1 DEF FreeIdx
<1>5. table[Bin(evicted, i)] \in Eles /\ table[Bin(evicted, i)] # evicted
  BY <1>1, <1>3, <1>4, ConstantsOK DEF IInv, TypeOK, PlacementSound, Evict
<1> QED
  BY <1>1, <1>2, <1>3, <1>5

(* The carried entry takes the bin of a victim, which is carried on. *)
LEMMA EvictStep == IInv /\ Evict => IInv'
<1> SUFFICES ASSUME IInv, Evict PROVE IInv'
  OBVIOUS
<1> DEFINE bin == VictimBin(evicted)
           victim == table[bin]
<1>1. /\ phase = "insert" /\ evicted \in Eles /\ bin \in Bins
      /\ \E i \in HashIdx : bin = hash[evicted][i]
      /\ victim \in Eles /\ victim # evicted
  BY VictimFacts
<1>2. /\ table' = [table EXCEPT ![bin] = evicted]
      /\ entry' = [entry EXCEPT ![victim].pos = NextPos(@)]
      /\ evicted' = victim
      /\ iter' = iter + 1
      /\ iter < NEles
      /\ UNCHANGED <<ntasks, hash, next, phase, fed, reported>>
      /\ UNCHANGED <<scan, hash_table, nelesinbin, perm>>
  BY DEF Evict, threadVars, scanVars, NextIter
<1> HIDE DEF bin
<1>3. entry[victim] \in Entry
  BY <1>1 DEF IInv, TypeOK, EntriesReady
<1>4. NextPos(entry[victim].pos) \in HashIdx
  BY <1>3 DEF Entry, NextPos, HashIdx, NUM_HASH_FUNCTIONS
<1>5. entry' = [entry EXCEPT ![victim].pos = NextPos(entry[victim].pos)]
  BY <1>1, <1>2, <1>3 DEF IInv, TypeOK
<1>6. /\ entry' \in [Eles -> Entry \cup {NoEntry}]
      /\ \A e \in Eles : Ready(e)'
  BY <1>1, <1>2, <1>4, <1>5, PosUpdate
<1>7. TypeOK'
  <2>1. iter' \in 0 .. NEles /\ evicted' \in Eles \cup {NoEntry}
    <3>1. iter \in 0 .. NEles /\ NEles \in Nat
      BY ConstantsOK DEF IInv, TypeOK
    <3> QED
      BY <1>1, <1>2, <3>1
  <2>2. table' \in [Bins -> Eles \cup {NoEntry}]
    <3>1. table \in [Bins -> Eles \cup {NoEntry}]
      BY DEF IInv, TypeOK
    <3> QED
      BY <1>1, <1>2, <3>1
  <2>3. Tasks' = Tasks
    BY <1>2 DEF Tasks
  <2> QED
    BY <1>2, <1>6, <2>1, <2>2, <2>3 DEF IInv, TypeOK
<1>8. Generated' /\ PhaseOK' /\ EntriesReady'
  BY <1>1, <1>2, <1>6 DEF IInv, Generated, PhaseOK, EntriesReady, Ready
<1>9. PlacementSound'
  <2>1. /\ table \in [Bins -> Eles \cup {NoEntry}]
        /\ evicted # NoEntry /\ evicted < fed /\ victim < fed
        /\ \A b \in Bins : table[b] # evicted
        /\ \A b, c \in Bins : table[b] = table[c] /\ table[b] # NoEntry => b = c
        /\ \A b \in Bins : table[b] # NoEntry =>
             (\E i \in HashIdx : hash[table[b]][i] = b) /\ table[b] < fed
        /\ victim # NoEntry
    BY <1>1, ConstantsOK DEF IInv, TypeOK, PlacementSound, Evict, Eles
  <2>2. \A b \in Bins : table'[b] = IF b = bin THEN evicted ELSE table[b]
    BY <1>2, <2>1
  <2>3. \A b \in Bins : table'[b] # NoEntry =>
          (\E i \in HashIdx : hash[table'[b]][i] = b) /\ table'[b] < fed
    BY <1>1, <2>1, <2>2
  <2>4. \A b, c \in Bins : table'[b] = table'[c] /\ table'[b] # NoEntry => b = c
    BY <2>1, <2>2
  <2>5. \A b \in Bins : table'[b] # victim
    BY <1>1, <2>1, <2>2
  <2> QED
    BY <1>2, <2>1, <2>3, <2>4, <2>5 DEF PlacementSound
<1> QED
  BY <1>7, <1>8, <1>9 DEF IInv

(* The end of a walk that found no empty bin. *)
LEMMA GiveUpStep == IInv /\ GiveUp => IInv'
<1> SUFFICES ASSUME IInv, GiveUp PROVE IInv'
  OBVIOUS
<1>1. evicted \in Eles /\ evicted < fed /\ fed \in 0 .. NEles
  BY DEF IInv, TypeOK, PlacementSound, GiveUp
<1>2. fed - 1 \in Eles
  BY <1>1, ConstantsOK DEF Eles
<1>3. TypeOK'
  BY <1>2 DEF IInv, TypeOK, GiveUp, threadVars, scanVars, Tasks
<1>4. Generated' /\ PhaseOK' /\ EntriesReady' /\ PlacementSound'
  BY DEF IInv, Generated, PhaseOK, EntriesReady, PlacementSound, GiveUp, threadVars, Tasks
<1> QED
  BY <1>3, <1>4 DEF IInv

(* The scan, which leaves the table alone. *)
LEMMA ScanSteps == IInv /\ (BeginScan \/ ScanBin \/ Return) => IInv'
<1> SUFFICES ASSUME IInv, BeginScan \/ ScanBin \/ Return PROVE IInv'
  OBVIOUS
<1>1. CASE BeginScan
  BY <1>1 DEF IInv, TypeOK, Generated, PhaseOK, EntriesReady, PlacementSound, BeginScan,
     threadVars, scanVars, Tasks
<1>2. CASE ScanBin
  <2>1. /\ phase = "scan" /\ scan \in Bins
        /\ UNCHANGED <<ntasks, hash, next, phase, entry, table, fed, evicted, iter, reported>>
    BY <1>2, ConstantsOK DEF IInv, TypeOK, ScanBin, threadVars, Bins
  <2>2. table[scan] = NoEntry \/ table[scan] \in Eles
    BY <2>1 DEF IInv, TypeOK
  <2>3. table[scan] # NoEntry =>
          entry[table[scan]].val \in Eles /\ entry[table[scan]].eleid \in Eles
    BY <2>1, <2>2 DEF IInv, EntriesReady
  <2>4. scan + 1 \in 0 .. NBins
    BY <2>1, ConstantsOK DEF Bins
  <2>5. perm' \in Seq(Eles)
    <3>1. PermOf(scan) \in Seq(Eles)
      BY <2>3 DEF PermOf
    <3> QED
      BY <1>2, <3>1 DEF IInv, TypeOK, ScanBin
  <2>6. /\ hash_table' \in [Bins -> Eles \cup {NoEntry}]
        /\ nelesinbin' \in [Bins -> {0, 1}]
        /\ scan' \in 0 .. NBins
    BY <1>2, <2>1, <2>3, <2>4 DEF IInv, TypeOK, ScanBin
  <2>7. TypeOK'
    BY <2>1, <2>5, <2>6 DEF IInv, TypeOK, Tasks
  <2>8. Generated' /\ PhaseOK' /\ EntriesReady' /\ PlacementSound'
    BY <2>1 DEF IInv, Generated, PhaseOK, EntriesReady, PlacementSound
  <2> QED
    BY <2>7, <2>8 DEF IInv
<1>3. CASE Return
  BY <1>3 DEF IInv, TypeOK, Generated, PhaseOK, EntriesReady, PlacementSound, Return,
     threadVars, scanVars, Tasks
<1> QED
  BY <1>1, <1>2, <1>3

(* A step that changes nothing. *)
LEMMA StutterStep == IInv /\ UNCHANGED vars => IInv'
  BY DEF IInv, TypeOK, Generated, Ready, PhaseOK, EntriesReady, PlacementSound, vars, Tasks

(* The inductive invariant holds in every state of every call. *)
THEOREM Invariance == Spec => []IInv
<1>1. Init => IInv
  BY InitIInv
<1>2. IInv /\ [Next]_vars => IInv'
  <2> SUFFICES ASSUME IInv, [Next]_vars PROVE IInv'
    OBVIOUS
  <2>1. ASSUME NEW t \in Tasks, GenCuckooEntry(t) PROVE IInv'
    BY <2>1, GenStep
  <2>2. CASE JoinTasks
    BY <2>2, JoinStep
  <2>3. CASE BeginInsert
    BY <2>3, BeginInsertStep
  <2>4. CASE Place
    BY <2>4, PlaceStep
  <2>5. CASE Evict
    BY <2>5, EvictStep
  <2>6. CASE GiveUp
    BY <2>6, GiveUpStep
  <2>7. CASE BeginScan \/ ScanBin \/ Return
    BY <2>7, ScanSteps
  <2>8. CASE Returned \/ UNCHANGED vars
    BY <2>8, StutterStep DEF Returned
  <2> QED
    BY <2>1, <2>2, <2>3, <2>4, <2>5, <2>6, <2>7, <2>8 DEF Next
<1> QED
  BY <1>1, <1>2, PTL DEF Spec

(* Every variable of the call keeps its type: in particular no index leaves its
   array and pos stays a position. *)
THEOREM TypeCorrect == Spec => []TypeOK
<1>1. IInv => TypeOK
  BY DEF IInv
<1> QED
  BY <1>1, Invariance, PTL

(* Whatever the number of threads, insertion only sees entries that a thread has
   computed from the very element they stand for. *)
THEOREM EntriesAreReady == Spec => []EntriesReady
<1>1. IInv => EntriesReady
  BY DEF IInv
<1> QED
  BY <1>1, Invariance, PTL

(* In every state of every walk an element is in at most one place, and in a bin
   only if it hashes there. *)
THEOREM PlacementIsSound == Spec => []PlacementSound
<1>1. IInv => PlacementSound
  BY DEF IInv
<1> QED
  BY <1>1, Invariance, PTL

--------------------------------------------------------------------------------
(***************************************************************************)
(* The table implements LossyStore.  The bins themselves show that what is *)
(* kept can be stored; what is left is that perm lists what they hold.     *)
(***************************************************************************)

(* perm lists the elements of the bins scanned so far. *)
ScanOK ==
  /\ phase \in {"generate", "insert"} => scan = 0 /\ perm = <<>>
  /\ phase = "done" => scan = NBins
  /\ PermRange = {e \in Eles : \E b \in 0 .. scan - 1 : table[b] = e}

(* The elements of a sequence. *)
Listed(s) == {s[k] : k \in DOMAIN s}

(* The elements in perm after one more element or none was appended. *)
LEMMA AppendRange ==
  ASSUME NEW S, NEW s \in Seq(S), NEW u \in Seq(S), Len(u) \in {0, 1}
  PROVE  Listed(s \o u) = Listed(s) \cup Listed(u)
<1>1. /\ s \o u \in Seq(S) /\ Len(s \o u) = Len(s) + Len(u)
      /\ Len(s) \in Nat
      /\ \A k \in 1 .. Len(s) : (s \o u)[k] = s[k]
      /\ \A k \in 1 .. Len(u) : (s \o u)[Len(s) + k] = u[k]
  OBVIOUS
<1>2. DOMAIN s = 1 .. Len(s) /\ DOMAIN u = 1 .. Len(u)
      /\ DOMAIN (s \o u) = 1 .. Len(s) + Len(u)
  BY <1>1
<1> SUFFICES \A e : (\E k \in DOMAIN (s \o u) : (s \o u)[k] = e)
                  <=> (\E k \in DOMAIN s : s[k] = e) \/ (\E k \in DOMAIN u : u[k] = e)
  BY DEF Listed
<1>3. CASE Len(u) = 0
  BY <1>1, <1>2, <1>3
<1>4. CASE Len(u) = 1
  <2>1. \A k \in 1 .. Len(s) + 1 : k \in 1 .. Len(s) \/ k = Len(s) + 1
    BY <1>1
  <2>2. (s \o u)[Len(s) + 1] = u[1]
    BY <1>1, <1>4
  <2> QED
    BY <1>1, <1>2, <1>4, <2>1, <2>2
<1> QED
  BY <1>3, <1>4

(* Nothing has been scanned when the table is empty. *)
LEMMA ScanOKInit == Init => ScanOK
<1> SUFFICES ASSUME Init PROVE ScanOK
  OBVIOUS
<1>1. {e \in Eles : \E b \in 0 .. 0 - 1 : table[b] = e} = {}
  OBVIOUS
<1>2. PermRange = {}
  BY DEF Init, PermRange
<1> QED
  BY <1>1, <1>2 DEF Init, ScanOK

(* Only the scan writes scan and perm, and the table is at rest then. *)
LEMMA ScanOKStep == IInv /\ ScanOK /\ [Next]_vars => ScanOK'
<1> SUFFICES ASSUME IInv, ScanOK, [Next]_vars PROVE ScanOK'
  OBVIOUS
<1>1. CASE ScanBin
  <2>1. /\ phase = "scan" /\ phase' = "scan" /\ scan \in Nat /\ scan \in Bins
        /\ scan' = scan + 1 /\ table' = table /\ perm' = perm \o PermOf(scan)
        /\ perm \in Seq(Eles) /\ table \in [Bins -> Eles \cup {NoEntry}]
    BY <1>1, ConstantsOK DEF IInv, TypeOK, ScanBin, Bins
  <2>2. /\ PermOf(scan) \in Seq(Eles) /\ Len(PermOf(scan)) \in {0, 1}
        /\ {PermOf(scan)[k] : k \in DOMAIN PermOf(scan)} = {e \in Eles : table[scan] = e}
    <3>1. CASE table[scan] = NoEntry
      <4>1. PermOf(scan) = <<>> /\ NoEntry \notin Eles
        BY <3>1, ConstantsOK DEF PermOf, Eles
      <4> QED
        BY <3>1, <4>1
    <3>2. CASE table[scan] # NoEntry
      <4>1. table[scan] \in Eles /\ entry[table[scan]].eleid = table[scan]
        BY <2>1, <3>2 DEF IInv, EntriesReady
      <4>2. PermOf(scan) = <<table[scan]>>
        BY <3>2, <4>1 DEF PermOf
      <4>3. PermOf(scan) \in Seq(Eles) /\ Len(PermOf(scan)) = 1
            /\ DOMAIN PermOf(scan) = {1} /\ PermOf(scan)[1] = table[scan]
        BY <4>1, <4>2
      <4> QED
        BY <4>1, <4>3
    <3> QED
      BY <3>1, <3>2
  <2>3. PermRange' = PermRange \cup {e \in Eles : table[scan] = e}
    <3>1. perm \in Seq(Eles) /\ PermOf(scan) \in Seq(Eles)
          /\ Len(PermOf(scan)) \in {0, 1}
      BY <2>1, <2>2
    <3>2. Listed(perm \o PermOf(scan)) = Listed(perm) \cup Listed(PermOf(scan))
      BY <3>1, AppendRange
    <3>3. Listed(PermOf(scan)) = {e \in Eles : table[scan] = e}
      BY <2>2 DEF Listed
    <3>4. PermRange = Listed(perm)
      BY DEF PermRange, Listed
    <3>5. PermRange' = Listed(perm')
      BY DEF PermRange, Listed
    <3>6. Listed(perm') = Listed(perm \o PermOf(scan))
      BY <2>1
    <3> QED
      BY <3>2, <3>3, <3>4, <3>5, <3>6
  <2>4. 0 .. scan' - 1 = (0 .. scan - 1) \cup {scan}
    BY <2>1
  <2>5. {e \in Eles : \E b \in 0 .. scan' - 1 : table[b] = e}
          = {e \in Eles : \E b \in 0 .. scan - 1 : table[b] = e}
              \cup {e \in Eles : table[scan] = e}
    BY <2>4
  <2>6. PermRange' = {e \in Eles : \E b \in 0 .. scan' - 1 : table'[b] = e}
    BY <2>1, <2>3, <2>5 DEF ScanOK
  <2> QED
    BY <2>1, <2>6 DEF ScanOK
<1>2. CASE Return
  BY <1>2 DEF ScanOK, Return, PermRange, scanVars
<1>3. CASE BeginScan
  BY <1>3 DEF ScanOK, BeginScan, PermRange, scanVars
<1>4. CASE Returned \/ UNCHANGED vars
  BY <1>4 DEF ScanOK, Returned, vars, PermRange
<1>5. ASSUME phase \in {"generate", "insert"}, phase' \in {"generate", "insert"},
             UNCHANGED scanVars
      PROVE  ScanOK'
  <2>1. scan' = 0 /\ perm' = <<>> /\ PermRange' = {}
    BY <1>5 DEF ScanOK, scanVars, PermRange
  <2>2. {e \in Eles : \E b \in 0 .. 0 - 1 : table'[b] = e} = {}
    OBVIOUS
  <2> QED
    BY <1>5, <2>1, <2>2 DEF ScanOK
<1>6. CASE (\E t \in Tasks : GenCuckooEntry(t)) \/ JoinTasks \/ BeginInsert
  BY <1>5, <1>6 DEF GenCuckooEntry, JoinTasks, BeginInsert
<1>7. CASE Place \/ Evict \/ GiveUp
  BY <1>5, <1>7 DEF Place, Evict, GiveUp, IInv, PhaseOK
<1> QED
  BY <1>1, <1>2, <1>3, <1>4, <1>6, <1>7 DEF Next

(* T holds every element of S in a bin that H allows for it ... *)
HeldIn(T, H, S) ==
  /\ \A b \in Bins : T[b] # NoEntry => \E i \in HashIdx : H[T[b]][i] = b
  /\ \A e \in S : e # NoEntry /\ \E b \in Bins : T[b] = e

(* ... so that S can be put into the bins one element to a bin. *)
OneToABin(H, S) ==
  \E at \in [S -> Bins] :
    /\ \A e \in S : \E i \in HashIdx : at[e] = H[e][i]
    /\ \A e, f \in S : at[e] = at[f] => e = f

(* Elements that are held in bins of their own can be stored without an eviction. *)
LEMMA HeldIsStorable ==
  ASSUME NEW T, NEW H, NEW S, HeldIn(T, H, S)
  PROVE  OneToABin(H, S)
<1> DEFINE at == [e \in S |-> CHOOSE b \in Bins : T[b] = e]
<1>1. ASSUME NEW e \in S
      PROVE  at[e] \in Bins /\ T[at[e]] = e
  BY DEF HeldIn
<1>2. ASSUME NEW e \in S
      PROVE  \E i \in HashIdx : at[e] = H[e][i]
  BY <1>1 DEF HeldIn
<1>3. at \in [S -> Bins]
  BY <1>1
<1>4. \A e, f \in S : at[e] = at[f] => e = f
  BY <1>1
<1> HIDE DEF at
<1> QED
  BY <1>2, <1>3, <1>4 DEF OneToABin

(* What is in the bins after a step of the insertion loop can be stored. *)
LEMMA ResidentStorableNext ==
  ASSUME IInv', UNCHANGED hash
  PROVE  Store!Storable(Resident')
<1>1. \A b \in Bins : table'[b] # NoEntry => \E i \in HashIdx : hash'[table'[b]][i] = b
  BY DEF IInv, PlacementSound
<1>2. \A e \in Resident' : e # NoEntry /\ \E b \in Bins : table'[b] = e
  BY ConstantsOK DEF Resident, Eles
<1>3. HeldIn(table', hash', Resident')
  <2> HIDE DEF Resident
  <2> QED
    BY <1>1, <1>2 DEF HeldIn
<1>4. OneToABin(hash', Resident')
  BY <1>3, HeldIsStorable
<1> QED
  BY <1>4 DEF OneToABin, Store!Storable, Store!Bins, Bins

(* The initial table is the empty store. *)
LEMMA StoreInit == Init => Store!Init
<1> SUFFICES ASSUME Init PROVE Store!Init
  OBVIOUS
<1>1. hash \in [0 .. NEles - 1 -> [HashIdx -> 0 .. NBins - 1]]
  BY ConstantsOK DEF Init, Eles, Bins
<1>2. Resident \cup Carried = {}
  BY ConstantsOK DEF Init, Resident, Carried, Eles
<1> QED
  BY <1>1, <1>2 DEF Init, Store!Init, Store!Bins

(* A step that moves nothing in or out leaves the store as it is. *)
LEMMA StoreStutter ==
  ASSUME UNCHANGED <<hash, fed, table, evicted>>,
         phase # "done", phase' # "done"
  PROVE  UNCHANGED Store!vars
  BY DEF Store!vars, Resident, Carried

(* The call of insert_element offers the next element. *)
LEMMA StoreOffer == IInv /\ BeginInsert => Store!Offer
<1> SUFFICES ASSUME IInv, BeginInsert PROVE Store!Offer
  OBVIOUS
<1>1. fed \in Eles /\ fed # NoEntry
  BY ConstantsOK DEF IInv, TypeOK, BeginInsert, Eles
<1>2. Resident' = Resident /\ Carried = {} /\ Carried' = {fed}
  BY <1>1 DEF BeginInsert, Resident, Carried
<1> QED
  BY <1>1, <1>2 DEF BeginInsert, Store!Offer, threadVars

(* The empty bin settles what the offer costs: nothing. *)
LEMMA StoreSettle == IInv /\ IInv' /\ Place => Store!Settle
<1> SUFFICES ASSUME IInv, IInv', Place PROVE Store!Settle
  OBVIOUS
<1>1. phase = "insert" /\ phase' = "insert" /\ evicted \in Eles /\ evicted # NoEntry
      /\ evicted' = NoEntry /\ UNCHANGED <<hash, fed>>
  BY DEF IInv, TypeOK, PhaseOK, Place, threadVars
<1>2. PICK i \in FreeIdx(evicted) : table' = [table EXCEPT ![Bin(evicted, i)] = evicted]
  BY DEF Place
<1>3. Bin(evicted, i) \in Bins /\ table[Bin(evicted, i)] = NoEntry
  BY <1>1, BinOfEntry DEF FreeIdx
<1>4. \A b \in Bins : table'[b] = IF b = Bin(evicted, i) THEN evicted ELSE table[b]
  BY <1>2 DEF IInv, TypeOK
<1>5. Resident' = Resident \cup {evicted}
  BY <1>1, <1>3, <1>4, ConstantsOK DEF Resident, Eles
<1>6. Resident \cup Carried = Resident' \cup Carried' /\ Resident \cup Carried = Resident'
  BY <1>1, <1>5 DEF Carried
<1>7. Store!Storable(Resident \cup Carried)
  BY <1>1, <1>6, ResidentStorableNext
<1> QED
  BY <1>1, <1>6, <1>7 DEF Store!Settle

(* A victim takes the place of the carried entry: the store is the same. *)
LEMMA StoreEvict == IInv /\ Evict => UNCHANGED Store!vars
<1> SUFFICES ASSUME IInv, Evict PROVE UNCHANGED Store!vars
  OBVIOUS
<1> DEFINE bin == VictimBin(evicted)
           victim == table[bin]
<1>1. /\ phase = "insert" /\ evicted \in Eles /\ bin \in Bins
      /\ victim \in Eles /\ victim # evicted
  BY VictimFacts
<1>2. /\ table' = [table EXCEPT ![bin] = evicted] /\ evicted' = victim
      /\ UNCHANGED <<hash, fed, phase>>
      /\ evicted # NoEntry /\ victim # NoEntry
  BY <1>1, ConstantsOK DEF Evict, threadVars, Eles
<1> HIDE DEF bin
<1>3. \A b \in Bins : table'[b] = IF b = bin THEN evicted ELSE table[b]
  BY <1>1, <1>2 DEF IInv, TypeOK
<1>4. \A b \in Bins : table[b] = victim => b = bin
  BY <1>1, <1>2 DEF IInv, PlacementSound
<1>5. Resident' \cup Carried' = Resident \cup Carried
  <2>1. Carried = {evicted} /\ Carried' = {victim}
    BY <1>2 DEF Carried
  <2>2. Resident' = (Resident \ {victim}) \cup {evicted}
    BY <1>1, <1>3, <1>4 DEF Resident
  <2>3. victim \in Resident
    BY <1>1 DEF Resident
  <2> QED
    BY <2>1, <2>2, <2>3
<1> QED
  BY <1>1, <1>2, <1>5 DEF Store!vars

(* Giving up drops the carried element. *)
LEMMA StoreDrop == IInv /\ IInv' /\ GiveUp => \E e \in Resident \cup Carried : Store!Drop(e)
<1> SUFFICES ASSUME IInv, IInv', GiveUp
             PROVE  \E e \in Resident \cup Carried : Store!Drop(e)
  OBVIOUS
<1>1. /\ phase = "insert" /\ phase' = "insert" /\ evicted \in Eles /\ evicted # NoEntry
      /\ evicted' = NoEntry /\ UNCHANGED <<hash, fed, table>>
  BY DEF IInv, TypeOK, PhaseOK, GiveUp, threadVars
<1>2. Resident' = Resident /\ Carried = {evicted} /\ Carried' = {}
  BY <1>1 DEF Resident, Carried
<1>3. evicted \notin Resident
  BY <1>1 DEF IInv, PlacementSound, Resident
<1>4. Resident' \cup Carried' = (Resident \cup Carried) \ {evicted}
      /\ Resident' \cup Carried' = Resident'
  BY <1>2, <1>3
<1>5. Store!Storable(Resident' \cup Carried')
  BY <1>1, <1>4, ResidentStorableNext
<1>6. Store!Drop(evicted)
  BY <1>1, <1>4, <1>5 DEF Store!Drop
<1> QED
  BY <1>2, <1>6

(* The end of the call delivers what is in the bins. *)
LEMMA StoreDeliver == IInv /\ ScanOK /\ ScanOK' /\ Return => Store!Deliver
<1> SUFFICES ASSUME IInv, ScanOK, ScanOK', Return PROVE Store!Deliver
  OBVIOUS
<1>1. /\ phase = "scan" /\ phase' = "done" /\ fed = NEles /\ evicted = NoEntry
      /\ evicted' = NoEntry /\ scan = NBins /\ UNCHANGED <<hash, fed, table, perm>>
  BY DEF IInv, PhaseOK, Return, threadVars, scanVars
<1>2. Resident' = Resident /\ Carried = {} /\ Carried' = {} /\ PermRange' = PermRange
  BY <1>1 DEF Resident, Carried, PermRange
<1>3. PermRange = Resident
  BY <1>1 DEF ScanOK, Resident, Bins
<1> QED
  BY <1>1, <1>2, <1>3 DEF Store!Deliver

(* For every number of elements, bins and threads and every hash function, the
   table refines the store: an insertion costs at most one element, and what is
   not lost sits in bins of its own choice and is what perm hands over. *)
THEOREM CuckooImplementsStore == Spec => ImplementsStore
<1>1. Init => Store!Init
  BY StoreInit
<1>2. Spec => []ScanOK
  <2>1. Init => ScanOK
    BY ScanOKInit
  <2>2. IInv /\ ScanOK /\ [Next]_vars => ScanOK'
    BY ScanOKStep
  <2> QED
    BY <2>1, <2>2, Invariance, PTL DEF Spec
<1>3. IInv /\ IInv' /\ ScanOK /\ ScanOK' /\ [Next]_vars => [Store!Next]_(Store!vars)
  <2> SUFFICES ASSUME IInv, IInv', ScanOK, ScanOK', [Next]_vars
               PROVE  Store!Next \/ UNCHANGED Store!vars
    OBVIOUS
  <2>1. ASSUME NEW t \in Tasks, GenCuckooEntry(t)
        PROVE  UNCHANGED Store!vars
    <3>1. phase = "generate" /\ phase' = "generate" /\ UNCHANGED <<hash, fed, table, evicted>>
      BY <2>1 DEF GenCuckooEntry
    <3> QED
      BY <3>1, StoreStutter
  <2>2. CASE JoinTasks \/ BeginScan
    <3>1. phase # "done" /\ phase' # "done" /\ UNCHANGED <<hash, fed, table, evicted>>
      BY <2>2 DEF JoinTasks, BeginScan, threadVars
    <3> QED
      BY <3>1, StoreStutter
  <2>3. CASE ScanBin
    <3>1. phase # "done" /\ phase' # "done" /\ UNCHANGED <<hash, fed, table, evicted>>
      BY <2>3 DEF ScanBin, threadVars
    <3> QED
      BY <3>1, StoreStutter
  <2>4. CASE BeginInsert
    BY <2>4, StoreOffer DEF Store!Next
  <2>5. CASE Place
    BY <2>5, StoreSettle DEF Store!Next
  <2>6. CASE Evict
    BY <2>6, StoreEvict
  <2>7. CASE GiveUp
    BY <2>7, StoreDrop DEF Store!Next
  <2>8. CASE Return
    BY <2>8, StoreDeliver DEF Store!Next
  <2>9. CASE Returned \/ UNCHANGED vars
    BY <2>9 DEF Returned, vars, Store!vars, Resident, Carried, PermRange
  <2> QED
    BY <2>1, <2>2, <2>3, <2>4, <2>5, <2>6, <2>7, <2>8, <2>9 DEF Next
<1> QED
  BY <1>1, <1>2, <1>3, Invariance, PTL DEF Spec, ImplementsStore, Store!Spec

--------------------------------------------------------------------------------
(***************************************************************************)
(* The account of the elements.  A walk changes which element is carried   *)
(* but not how many there are in the bins and in hand, so that only its    *)
(* end, in an empty bin or in a message, changes the balance.              *)
(***************************************************************************)

(* A message names an element that was fed, and the element whose insertion is
   still running has not been named. *)
ReportsOK ==
  /\ \A r \in reported : r < fed
  /\ evicted # NoEntry => fed - 1 \notin reported

(* The inductive invariant of the account. *)
Account == ReportsOK /\ NothingLostSilently

(* What is counted is finite. *)
LEMMA AccountFinite ==
  ASSUME IInv
  PROVE  /\ IsFiniteSet(Resident) /\ Cardinality(Resident) \in Nat
         /\ IsFiniteSet(reported) /\ Cardinality(reported) \in Nat
         /\ Cardinality(Carried) = IF evicted = NoEntry THEN 0 ELSE 1
<1>1. IsFiniteSet(Eles)
  BY ConstantsOK, FS_Interval DEF Eles
<1>2. Resident \in SUBSET Eles /\ reported \in SUBSET Eles
  BY DEF IInv, TypeOK, Resident
<1>3. IsFiniteSet(Resident) /\ IsFiniteSet(reported)
  BY <1>1, <1>2, FS_Subset
<1>4. Cardinality(Resident) \in Nat /\ Cardinality(reported) \in Nat
  BY <1>3, FS_CardinalityType
<1>5. Cardinality(Carried) = IF evicted = NoEntry THEN 0 ELSE 1
  BY FS_EmptySet, FS_Singleton DEF Carried
<1> QED
  BY <1>3, <1>4, <1>5

(* Every element is still waiting at the start. *)
LEMMA AccountInit == Init => Account
<1> SUFFICES ASSUME Init PROVE Account
  OBVIOUS
<1>1. Resident = {} /\ Carried = {} /\ reported = {}
  BY ConstantsOK DEF Init, Resident, Carried, Eles
<1>2. NothingLostSilently
  BY <1>1, FS_EmptySet DEF Init, NothingLostSilently
<1> QED
  BY <1>1, <1>2, ConstantsOK DEF Init, Account, ReportsOK

(* An element is taken in hand. *)
LEMMA AccountBegin == IInv /\ Account /\ BeginInsert => Account'
<1> SUFFICES ASSUME IInv, Account, BeginInsert PROVE Account'
  OBVIOUS
<1>1. /\ evicted = NoEntry /\ evicted' = fed /\ fed' = fed + 1 /\ fed \in Nat
      /\ fed # NoEntry /\ UNCHANGED <<table, reported>>
      /\ \A r \in reported : r \in Nat
  BY ConstantsOK DEF BeginInsert, IInv, TypeOK, Eles
<1>2. ReportsOK'
  BY <1>1 DEF Account, ReportsOK
<1>3. Resident' = Resident
  BY <1>1 DEF Resident
<1>4. Cardinality(Carried) = 0 /\ Cardinality(Carried') = 1
  BY <1>1, FS_EmptySet, FS_Singleton DEF Carried
<1>5. NothingLostSilently'
  BY <1>1, <1>3, <1>4, AccountFinite DEF Account, NothingLostSilently
<1> QED
  BY <1>2, <1>5 DEF Account

(* The element in hand goes into a bin. *)
LEMMA AccountPlace == IInv /\ Account /\ Place => Account'
<1> SUFFICES ASSUME IInv, Account, Place PROVE Account'
  OBVIOUS
<1>1. /\ phase = "insert" /\ evicted \in Eles /\ evicted # NoEntry
      /\ evicted' = NoEntry /\ UNCHANGED <<fed, reported>> /\ fed \in Nat
  BY DEF IInv, TypeOK, PhaseOK, Place
<1>2. PICK i \in FreeIdx(evicted) : table' = [table EXCEPT ![Bin(evicted, i)] = evicted]
  BY DEF Place
<1>3. Bin(evicted, i) \in Bins /\ table[Bin(evicted, i)] = NoEntry
  BY <1>1, BinOfEntry DEF FreeIdx
<1>4. \A b \in Bins : table'[b] = IF b = Bin(evicted, i) THEN evicted ELSE table[b]
  BY <1>2 DEF IInv, TypeOK
<1>5. Resident' = Resident \cup {evicted}
  BY <1>1, <1>3, <1>4, ConstantsOK DEF Resident, Eles
<1>6. evicted \notin Resident
  BY <1>1 DEF IInv, PlacementSound, Resident
<1>7. Cardinality(Resident') = Cardinality(Resident) + 1
  BY <1>5, <1>6, AccountFinite, FS_AddElement
<1>8. Cardinality(Carried) = 1 /\ Cardinality(Carried') = 0
  BY <1>1, FS_EmptySet, FS_Singleton DEF Carried
<1>9. NothingLostSilently'
  BY <1>1, <1>7, <1>8, AccountFinite DEF Account, NothingLostSilently
<1> QED
  BY <1>1, <1>9 DEF Account, ReportsOK

(* The elements change places: one in hand before, one in hand after. *)
LEMMA AccountEvict == IInv /\ Account /\ Evict => Account'
<1> SUFFICES ASSUME IInv, Account, Evict PROVE Account'
  OBVIOUS
<1> DEFINE bin == VictimBin(evicted)
           victim == table[bin]
<1>1. /\ evicted \in Eles /\ bin \in Bins /\ victim \in Eles /\ victim # evicted
  BY VictimFacts
<1>2. /\ table' = [table EXCEPT ![bin] = evicted] /\ evicted' = victim
      /\ UNCHANGED <<fed, reported>> /\ evicted # NoEntry /\ victim # NoEntry
  BY <1>1, ConstantsOK DEF Evict, Eles
<1> HIDE DEF bin
<1>3. \A b \in Bins : table'[b] = IF b = bin THEN evicted ELSE table[b]
  BY <1>1, <1>2 DEF IInv, TypeOK
<1>4. \A b \in Bins : table[b] = victim => b = bin
  BY <1>1, <1>2 DEF IInv, PlacementSound
<1>5. Resident' = (Resident \ {victim}) \cup {evicted}
  BY <1>1, <1>3, <1>4 DEF Resident
<1>6. victim \in Resident /\ evicted \notin Resident
  BY <1>1, <1>2 DEF IInv, PlacementSound, Resident
<1>7. /\ IsFiniteSet(Resident \ {victim})
      /\ Cardinality(Resident \ {victim}) = Cardinality(Resident) - 1
  BY <1>6, AccountFinite, FS_RemoveElement
<1> DEFINE others == Resident \ {victim}
<1>8. Cardinality(Resident') = Cardinality(Resident)
  <2>1. /\ IsFiniteSet(others) /\ Cardinality(others) = Cardinality(Resident) - 1
        /\ evicted \notin others /\ Resident' = others \cup {evicted}
    BY <1>5, <1>6, <1>7
  <2> HIDE DEF others
  <2>2. Cardinality(others \cup {evicted}) = Cardinality(others) + 1
    BY <2>1, FS_AddElement
  <2> QED
    BY <2>1, <2>2, AccountFinite
<1>9. Cardinality(Carried') = Cardinality(Carried)
  BY <1>2, FS_Singleton DEF Carried
<1> QED
  BY <1>2, <1>8, <1>9 DEF Account, ReportsOK, NothingLostSilently

(* The element in hand is lost, and the message is the first one of this insertion. *)
LEMMA AccountGiveUp == IInv /\ Account /\ GiveUp => Account'
<1> SUFFICES ASSUME IInv, Account, GiveUp PROVE Account'
  OBVIOUS
<1>1. /\ evicted # NoEntry /\ evicted' = NoEntry /\ reported' = reported \cup {fed - 1}
      /\ UNCHANGED <<fed, table>> /\ fed \in Nat
  BY DEF GiveUp, IInv, TypeOK
<1>2. fed - 1 \notin reported
  BY <1>1 DEF Account, ReportsOK
<1>3. Cardinality(reported') = Cardinality(reported) + 1
  BY <1>1, <1>2, AccountFinite, FS_AddElement
<1>4. Resident' = Resident /\ Cardinality(Carried) = 1 /\ Cardinality(Carried') = 0
  BY <1>1, FS_EmptySet, FS_Singleton DEF Resident, Carried
<1>5. NothingLostSilently'
  BY <1>1, <1>3, <1>4, AccountFinite DEF Account, NothingLostSilently
<1>6. ReportsOK'
  BY <1>1 DEF Account, ReportsOK
<1> QED
  BY <1>5, <1>6 DEF Account

(* Whatever the hash functions and however long the walks: the elements fed so far
   are in bins, in hand, or paid for by one message each. *)
THEOREM NoSilentLoss == Spec => []NothingLostSilently
<1>1. Init => Account
  BY AccountInit
<1>2. IInv /\ Account /\ [Next]_vars => Account'
  <2> SUFFICES ASSUME IInv, Account, [Next]_vars PROVE Account'
    OBVIOUS
  <2>1. CASE UNCHANGED <<table, evicted, fed, reported>>
    BY <2>1 DEF Account, ReportsOK, NothingLostSilently, Resident, Carried
  <2>2. CASE (\E t \in Tasks : GenCuckooEntry(t)) \/ JoinTasks
    BY <2>1, <2>2 DEF GenCuckooEntry, JoinTasks
  <2>3. CASE BeginScan \/ ScanBin \/ Return \/ Returned \/ UNCHANGED vars
    BY <2>1, <2>3 DEF BeginScan, ScanBin, Return, Returned, vars
  <2>4. CASE BeginInsert \/ Place \/ Evict \/ GiveUp
    BY <2>4, AccountBegin, AccountPlace, AccountEvict, AccountGiveUp
  <2> QED
    BY <2>2, <2>3, <2>4 DEF Next
<1>3. Account => NothingLostSilently
  BY DEF Account
<1> QED
  BY <1>1, <1>2, <1>3, Invariance, PTL DEF Spec

--------------------------------------------------------------------------------
(***************************************************************************)
(* The scan numbers the masks.                                             *)
(***************************************************************************)

(* The occupied ones of the first n bins. *)
Occupied(n) == {c \in 0 .. n - 1 : nelesinbin[c] = 1}

(* What the scan has written so far. *)
Numbered ==
  /\ \A b \in Bins : b < scan =>
       /\ hash_table[b] = table[b]
       /\ nelesinbin[b] = IF table[b] = NoEntry THEN 0 ELSE 1
  /\ Len(perm) = Cardinality(Occupied(scan))
  /\ \A b \in 0 .. scan - 1 : nelesinbin[b] = 1 => perm[Rank(b)] = hash_table[b]

(* The number of an occupied bin is one of the numbers given out. *)
LEMMA RankBounds ==
  ASSUME NEW n \in Nat, NEW b \in 0 .. n - 1, nelesinbin[b] = 1
  PROVE  /\ IsFiniteSet(Occupied(n)) /\ Cardinality(Occupied(n)) \in Nat
         /\ Rank(b) \in 1 .. Cardinality(Occupied(n))
<1> DEFINE below == {c \in 0 .. b : nelesinbin[c] = 1}
<1>1. IsFiniteSet(0 .. n - 1) /\ Occupied(n) \in SUBSET (0 .. n - 1)
  BY FS_Interval DEF Occupied
<1>2. IsFiniteSet(Occupied(n))
  BY <1>1, FS_Subset
<1>3. below \in SUBSET Occupied(n)
  BY DEF Occupied
<1>4. IsFiniteSet(below) /\ Cardinality(below) <= Cardinality(Occupied(n))
  BY <1>2, <1>3, FS_Subset
<1>5. b \in below
  OBVIOUS
<1> HIDE DEF below
<1>6. Cardinality(below) # 0
  BY <1>4, <1>5, FS_EmptySet
<1>7. Cardinality(below) \in Nat /\ Cardinality(Occupied(n)) \in Nat
  BY <1>2, <1>4, FS_CardinalityType
<1>8. Rank(b) = Cardinality(below)
  BY DEF Rank, below
<1> QED
  BY <1>2, <1>4, <1>6, <1>7, <1>8

(* No mask is numbered at the start. *)
LEMMA NumberedInit == Init => Numbered
<1> SUFFICES ASSUME Init PROVE Numbered
  OBVIOUS
<1>1. scan = 0 /\ perm = <<>> /\ 0 .. scan - 1 = {}
  BY DEF Init
<1>2. Occupied(scan) = {}
  BY <1>1 DEF Occupied
<1>3. \A b \in Bins : ~(b < scan)
  BY <1>1 DEF Bins
<1> QED
  BY <1>1, <1>2, <1>3, FS_EmptySet DEF Numbered

(* One more bin is numbered, and the numbers of the others stand. *)
LEMMA NumberedScan == IInv /\ Numbered /\ ScanBin => Numbered'
<1> SUFFICES ASSUME IInv, Numbered, ScanBin PROVE Numbered'
  OBVIOUS
<1> DEFINE e == table[scan]
<1>1. /\ scan \in Nat /\ scan \in Bins /\ scan' = scan + 1 /\ UNCHANGED <<table, entry, phase>>
      /\ perm' = perm \o PermOf(scan) /\ perm \in Seq(Eles)
      /\ phase = "scan" /\ NBins \in Nat
  BY ConstantsOK DEF ScanBin, IInv, TypeOK, Bins
<1>2. e = NoEntry \/ (e \in Eles /\ entry[e].val = e /\ entry[e].eleid = e)
  BY <1>1 DEF IInv, TypeOK, EntriesReady
<1>3. /\ hash_table' = [hash_table EXCEPT ![scan] = e]
      /\ nelesinbin' = [nelesinbin EXCEPT ![scan] = IF e = NoEntry THEN 0 ELSE 1]
  BY <1>2 DEF ScanBin
<1>4. PermOf(scan) = IF e = NoEntry THEN <<>> ELSE <<e>>
  BY <1>2 DEF PermOf
<1> HIDE DEF e
<1>5. \A b \in Bins : /\ hash_table'[b] = IF b = scan THEN e ELSE hash_table[b]
                     /\ nelesinbin'[b] = IF b # scan THEN nelesinbin[b]
                                         ELSE IF e = NoEntry THEN 0 ELSE 1
  BY <1>1, <1>3 DEF IInv, TypeOK
<1>6. ASSUME NEW b \in Bins, b < scan'
      PROVE  /\ hash_table'[b] = table'[b]
             /\ nelesinbin'[b] = IF table'[b] = NoEntry THEN 0 ELSE 1
  <2>1. CASE b = scan
    BY <1>1, <1>5, <2>1 DEF e
  <2>2. CASE b # scan
    <3>1. b < scan
      BY <1>1, <1>6, <2>2 DEF Bins
    <3> QED
      BY <1>1, <1>5, <2>2, <3>1 DEF Numbered
  <2> QED
    BY <2>1, <2>2
<1>7. \A b \in 0 .. scan : b \in Bins /\ b \in Int
  BY <1>1 DEF Bins
<1>8. ASSUME NEW b \in 0 .. scan - 1
      PROVE  Rank(b)' = Rank(b) /\ nelesinbin'[b] = nelesinbin[b]
             /\ hash_table'[b] = hash_table[b]
  <2>1. \A c \in 0 .. b : nelesinbin'[c] = nelesinbin[c]
    BY <1>1, <1>5, <1>7
  <2>2. {c \in 0 .. b : nelesinbin'[c] = 1} = {c \in 0 .. b : nelesinbin[c] = 1}
    BY <2>1
  <2>3. Rank(b)' = Rank(b)
    BY <2>2 DEF Rank
  <2>4. b \in Bins /\ b # scan
    BY <1>1, <1>7
  <2> QED
    BY <1>5, <2>3, <2>4
<1> DEFINE old == Occupied(scan)
           new == {c \in 0 .. scan : nelesinbin'[c] = 1}
<1>9. new = IF e = NoEntry THEN old ELSE old \cup {scan}
  <2>1. \A c \in 0 .. scan - 1 : nelesinbin'[c] = nelesinbin[c]
    BY <1>8
  <2>2. 0 .. scan = (0 .. scan - 1) \cup {scan}
    BY <1>1
  <2>3. nelesinbin'[scan] = IF e = NoEntry THEN 0 ELSE 1
    BY <1>1, <1>5
  <2> QED
    BY <2>1, <2>2, <2>3 DEF Occupied
<1>10. /\ IsFiniteSet(old) /\ Cardinality(old) \in Nat /\ scan \notin old
       /\ Len(perm) = Cardinality(old)
  <2>1. IsFiniteSet(0 .. scan - 1) /\ old \in SUBSET (0 .. scan - 1)
    BY <1>1, FS_Interval DEF Occupied
  <2> QED
    BY <1>1, <2>1, FS_Subset, FS_CardinalityType DEF Numbered
<1>11. Occupied(scan)' = new
  <2>1. scan' - 1 = scan
    BY <1>1
  <2> QED
    BY <2>1 DEF Occupied
<1>12. ASSUME NEW b \in Bins, b = scan
       PROVE  Rank(b)' = Cardinality(new)
  BY <1>12 DEF Rank
<1> HIDE DEF old, new
<1>13. CASE e = NoEntry
  <2>1. perm' = perm /\ Cardinality(new) = Cardinality(old)
    BY <1>1, <1>4, <1>9, <1>13
  <2>2. nelesinbin'[scan] # 1
    BY <1>1, <1>5, <1>13
  <2>3. \A b \in 0 .. scan' - 1 : nelesinbin'[b] = 1 => b \in 0 .. scan - 1
    BY <1>1, <2>2
  <2>4. ASSUME NEW b \in 0 .. scan' - 1, nelesinbin'[b] = 1
        PROVE  perm'[Rank(b)'] = hash_table'[b]
    BY <1>8, <2>1, <2>3, <2>4 DEF Numbered
  <2> QED
    BY <1>6, <1>10, <1>11, <2>1, <2>4 DEF Numbered
<1>14. CASE e # NoEntry
  <2>1. Cardinality(new) = Cardinality(old) + 1
    BY <1>9, <1>10, <1>14, FS_AddElement
  <2>2. /\ Len(perm') = Len(perm) + 1 /\ perm'[Len(perm) + 1] = e
        /\ \A k \in 1 .. Len(perm) : perm'[k] = perm[k]
    BY <1>1, <1>2, <1>4, <1>14
  <2>3. ASSUME NEW b \in 0 .. scan' - 1, nelesinbin'[b] = 1
        PROVE  perm'[Rank(b)'] = hash_table'[b]
    <3>1. CASE b = scan
      <4>1. hash_table'[b] = e
        BY <1>1, <1>5, <3>1
      <4>2. Rank(b)' = Len(perm) + 1
        BY <1>1, <1>10, <1>12, <2>1, <3>1
      <4> QED
        BY <2>2, <4>1, <4>2
    <3>2. CASE b # scan
      <4>1. b \in 0 .. scan - 1
        BY <1>1, <2>3, <3>2
      <4>2. nelesinbin[b] = 1
        BY <1>8, <2>3, <4>1
      <4>3. Rank(b) \in 1 .. Len(perm)
        BY <1>1, <1>10, <4>1, <4>2, RankBounds DEF old
      <4>4. perm[Rank(b)] = hash_table[b]
        BY <4>1, <4>2 DEF Numbered
      <4> QED
        BY <1>8, <2>2, <4>1, <4>3, <4>4
    <3> QED
      BY <3>1, <3>2
  <2> QED
    BY <1>6, <1>10, <1>11, <2>1, <2>2, <2>3 DEF Numbered
<1> QED
  BY <1>13, <1>14

(* Every step keeps the numbering of the masks. *)
LEMMA NumberedStep == IInv /\ ScanOK /\ Numbered /\ [Next]_vars => Numbered'
<1> SUFFICES ASSUME IInv, ScanOK, Numbered, [Next]_vars PROVE Numbered'
  OBVIOUS
<1>1. ASSUME UNCHANGED scanVars, scan = 0 \/ table' = table
      PROVE  Numbered'
  <2>1. UNCHANGED <<scan, hash_table, nelesinbin, perm>>
    BY <1>1 DEF scanVars
  <2>2. \A b \in Bins : b < scan => table' = table
    BY <1>1 DEF Bins
  <2>3. Occupied(scan)' = Occupied(scan)
    BY <2>1 DEF Occupied
  <2>4. \A b \in Bins : Rank(b)' = Rank(b)
    BY <2>1 DEF Rank
  <2>5. scan - 1 < NBins /\ scan \in Nat
    BY ConstantsOK DEF IInv, TypeOK
  <2>6. \A b \in 0 .. scan - 1 : b \in Bins
    BY <2>5, ConstantsOK DEF Bins
  <2> QED
    BY <2>1, <2>2, <2>3, <2>4, <2>6 DEF Numbered
<1>2. CASE (\E t \in Tasks : GenCuckooEntry(t)) \/ JoinTasks \/ BeginInsert \/ GiveUp
           \/ BeginScan \/ Return
  BY <1>1, <1>2 DEF GenCuckooEntry, JoinTasks, BeginInsert, GiveUp, BeginScan, Return
<1>3. CASE Place \/ Evict
  <2>1. scan = 0 /\ UNCHANGED scanVars
    BY <1>3 DEF Place, Evict, IInv, PhaseOK, ScanOK
  <2> QED
    BY <1>1, <2>1
<1>4. CASE Returned \/ UNCHANGED vars
  BY <1>1, <1>4 DEF Returned, vars, scanVars
<1>5. CASE ScanBin
  BY <1>5, NumberedScan
<1> QED
  BY <1>2, <1>3, <1>4, <1>5 DEF Next

(* So it is always. *)
LEMMA NumberedAlways == Spec => [](ScanOK /\ Numbered)
<1>1. Init => ScanOK /\ Numbered
  BY ScanOKInit, NumberedInit
<1>2. IInv /\ ScanOK /\ Numbered /\ [Next]_vars => ScanOK' /\ Numbered'
  BY ScanOKStep, NumberedStep
<1> QED
  BY <1>1, <1>2, Invariance, PTL DEF Spec

(* When the call returns, the k-th entry of perm is the element in the k-th occupied
   bin, for every table: the mask the OPRG evaluates there and the element the
   intersection step looks up belong together. *)
THEOREM MasksAreNumbered == Spec => []PermNumbersMasks
<1>1. IInv /\ ScanOK /\ Numbered => PermNumbersMasks
  <2> SUFFICES ASSUME IInv, ScanOK, Numbered, phase = "done" PROVE PermNumbersMasks
    BY DEF PermNumbersMasks
  <2> DEFINE occ == {b \in Bins : nelesinbin[b] = 1}
  <2>1. scan = NBins /\ NBins \in Nat /\ Bins = 0 .. scan - 1 /\ Occupied(scan) = occ
    BY ConstantsOK DEF ScanOK, Occupied, Bins
  <2>2. \A b \in Bins : /\ hash_table[b] = table[b]
                       /\ nelesinbin[b] = IF table[b] = NoEntry THEN 0 ELSE 1
    BY <2>1 DEF Numbered, Bins
  <2>3. Len(perm) = Cardinality(occ)
    BY <2>1 DEF Numbered
  <2>4. Cardinality(occ) <= NEles
    <3> DEFINE f == [b \in occ |-> table[b]]
    <3>1. \A b \in occ : table[b] \in Eles
      BY <2>2 DEF IInv, TypeOK
    <3>2. \A b, c \in occ : f[b] = f[c] => b = c
      BY <2>2 DEF IInv, PlacementSound
    <3>3. f \in [occ -> Eles]
      BY <3>1
    <3> HIDE DEF occ, f
    <3>4. f \in Injection(occ, Eles)
      BY <3>2, <3>3 DEF Injection, IsInjective
    <3>5. IsFiniteSet(Eles) /\ Cardinality(Eles) = NEles
      BY ConstantsOK, FS_Interval DEF Eles
    <3> QED
      BY <3>4, <3>5, FS_Injection
  <2>5. \A b \in Bins : nelesinbin[b] = 1 => perm[Rank(b)] = hash_table[b]
    BY <2>1 DEF Numbered
  <2> QED
    BY <2>2, <2>3, <2>4, <2>5 DEF PermNumbersMasks
<1> QED
  BY <1>1, NumberedAlways, Invariance, PTL
================================================================================
