----------------------------- MODULE OTPSIProofs ------------------------------
(***************************************************************************)
(* Proofs about OTPSI, for all sizes of the sets, all elements, all tables *)
(* of random words, all lookups and all sizes of the buffers.              *)
(*                                                                         *)
(* The two hash tables take the steps of CuckooHashing and SimpleHashing,  *)
(* so that everything proved of these holds of them.  From that follow the *)
(* bin and the owner of every mask; that the client compares the server's  *)
(* masks is an invariant of the stream between the two; and a match is     *)
(* then an element of both, found once.                                    *)
(***************************************************************************)
EXTENDS OTPSI, TaskPartitionProofs, FiniteSetTheorems, SequenceTheorems

(* The proofs about the two tables. *)
CP == INSTANCE CuckooHashingProofs WITH
  NEles <- NClient, TaskCounts <- {1},
  ntasks <- cNtasks, hash <- cHash, phase <- cPhase, next <- cNext, entry <- cEntry,
  table <- cTable, fed <- cFed, evicted <- cEvicted, iter <- cIter,
  reported <- cReported, scan <- cScan, hash_table <- cHashTable,
  nelesinbin <- cNelesinbin, perm <- cPerm

SP == INSTANCE SimpleHashingProofs WITH
  NEles <- NServer, TaskCounts <- {1},
  ntasks <- sNtasks, hash <- sHash, phase <- sPhase, next <- sNext, hf <- sHf,
  bins <- sBins, room <- sRoom, maxbinsize <- sMaxbinsize, at <- sAt,
  nelesinbin <- sNelesinbin, res_bins <- sResBins

(* There is a bin. *)
LEMMA SomeBin == NBins \in Nat \ {0}
<1>1. 12 * NClient \in Nat /\ 12 * NClient > 0
  BY OTPSIOK
<1>2. CeilDivide(12 * NClient, 10) = ((12 * NClient - 1) \div 10) + 1
  BY <1>1 DEF CeilDivide
<1>3. 12 * NClient - 1 \in Nat
  BY <1>1
<1>4. (12 * NClient - 1) \div 10 \in Nat
  BY <1>3, DivBounds
<1> QED
  BY <1>2, <1>4 DEF NBins

(* What the modules of the tables assume of their constants. *)
LEMMA ClientConstants == CP!ConstantsOK
<1>1. NoEntry \notin Nat \cup CP!Entry
  BY OTPSIOK, Zenon DEF Client!Entry, CP!Entry, Client!Eles, CP!Eles, Client!HashIdx, CP!HashIdx,
    Client!NUM_HASH_FUNCTIONS, CP!NUM_HASH_FUNCTIONS
<1>2. Hashes \subseteq [CP!HashIdx -> CP!Bins]
  BY DEF Hashes, HFs, Bins, CP!Bins, CP!HashIdx, CP!NUM_HASH_FUNCTIONS
<1> QED
  BY <1>1, <1>2, SomeBin, OTPSIOK DEF CP!ConstantsOK

(* And the server's. *)
LEMMA ServerConstants == SP!ConstantsOK
<1>1. Hashes \subseteq [SP!HashIdx -> SP!Bins]
  BY DEF Hashes, HFs, Bins, SP!Bins, SP!HashIdx, SP!NUM_HASH_FUNCTIONS
<1> QED
  BY <1>1, SomeBin, OTPSIOK DEF SP!ConstantsOK

(* A step of the client's hashing is one of cuckoo_hashing, any other leaves its
   variables alone. *)
LEMMA ClientRefines == [Next]_vars => [CP!Next]_(CP!vars)
<1> SUFFICES ASSUME [Next]_vars PROVE CP!Next \/ UNCHANGED CP!vars
  OBVIOUS
<1>1. ASSUME UNCHANGED cuckooVars
      PROVE  UNCHANGED CP!vars
  BY <1>1 DEF cuckooVars, CP!vars
<1>2. CASE ClientHashing
  <2>1. CASE \E t \in Client!Tasks : Client!GenCuckooEntry(t)
    <3>1. \E t \in CP!Tasks : CP!GenCuckooEntry(t)
      <4>1. PICK t \in Client!Tasks : Client!GenCuckooEntry(t)
        BY <2>1
      <4>2. t \in CP!Tasks
        BY <4>1 DEF Client!Tasks, CP!Tasks
      <4>3. CP!GenCuckooEntry(t)
        BY <4>1, Zenon DEF Client!GenCuckooEntry, CP!GenCuckooEntry, Client!EndPos, CP!EndPos, Client!StartPos,
          CP!StartPos, Client!CeilDivide, CP!CeilDivide, Client!Lesser, CP!Lesser, Client!NewEntry,
          CP!NewEntry, Client!EleAt, CP!EleAt, Client!scanVars, CP!scanVars
      <4> QED
        BY <4>2, <4>3
    <3> QED
      BY <3>1 DEF CP!Next
  <2>2. CASE Client!JoinTasks
    <3>1. CP!JoinTasks
      BY <2>2, Zenon DEF Client!JoinTasks, CP!JoinTasks, Client!Tasks, CP!Tasks, Client!EndPos, CP!EndPos,
        Client!StartPos, CP!StartPos, Client!CeilDivide, CP!CeilDivide, Client!Lesser, CP!Lesser,
        Client!threadVars, CP!threadVars, Client!scanVars, CP!scanVars
    <3> QED
      BY <3>1 DEF CP!Next
  <2>3. CASE Client!BeginInsert
    <3>1. CP!BeginInsert
      BY <2>3, Zenon DEF Client!BeginInsert, CP!BeginInsert, Client!threadVars, CP!threadVars,
        Client!scanVars, CP!scanVars
    <3> QED
      BY <3>1 DEF CP!Next
  <2>4. CASE Client!Place
    <3>1. CP!Place
      BY <2>4, Zenon DEF Client!Place, CP!Place, Client!threadVars, CP!threadVars, Client!scanVars, CP!scanVars,
        Client!FreeIdx, CP!FreeIdx, Client!Bin, CP!Bin, Client!HashIdx, CP!HashIdx,
        Client!NUM_HASH_FUNCTIONS, CP!NUM_HASH_FUNCTIONS
    <3> QED
      BY <3>1 DEF CP!Next
  <2>5. CASE Client!Evict
    <3>1. CP!Evict
      BY <2>5, Zenon DEF Client!Evict, CP!Evict, Client!threadVars, CP!threadVars, Client!scanVars, CP!scanVars,
        Client!FreeIdx, CP!FreeIdx, Client!Bin, CP!Bin, Client!HashIdx, CP!HashIdx,
        Client!NUM_HASH_FUNCTIONS, CP!NUM_HASH_FUNCTIONS, Client!VictimBin, CP!VictimBin, Client!Xor, CP!Xor,
        Client!NextPos, CP!NextPos, Client!NextIter, CP!NextIter
    <3> QED
      BY <3>1 DEF CP!Next
  <2>6. CASE Client!GiveUp
    <3>1. CP!GiveUp
      BY <2>6, Zenon DEF Client!GiveUp, CP!GiveUp, Client!threadVars, CP!threadVars, Client!scanVars, CP!scanVars
    <3> QED
      BY <3>1 DEF CP!Next
  <2>7. CASE Client!BeginScan
    <3>1. CP!BeginScan
      BY <2>7, Zenon DEF Client!BeginScan, CP!BeginScan, Client!threadVars, CP!threadVars, Client!scanVars, CP!scanVars
    <3> QED
      BY <3>1 DEF CP!Next
  <2>8. CASE Client!ScanBin
    <3>1. CP!ScanBin
      BY <2>8, Zenon DEF Client!ScanBin, CP!ScanBin, Client!threadVars, CP!threadVars, Client!PermOf, CP!PermOf
    <3> QED
      BY <3>1 DEF CP!Next
  <2>9. CASE Client!Return
    <3>1. CP!Return
      BY <2>9, Zenon DEF Client!Return, CP!Return, Client!threadVars, CP!threadVars, Client!scanVars, CP!scanVars
    <3> QED
      BY <3>1 DEF CP!Next
  <2> QED
    BY <1>2, <2>1, <2>2, <2>3, <2>4, <2>5, <2>6, <2>7, <2>8, <2>9 DEF ClientHashing
<1>3. CASE ServerHashing \/ Oprg \/ SendMask \/ ReceiveMask \/ JoinReceiver \/ Query \/ CreateResult
  <2>1. UNCHANGED cuckooVars
    BY <1>3, Zenon DEF ServerHashing, Oprg, SendMask, ReceiveMask, JoinReceiver, Query, CreateResult
  <2> QED
    BY <1>1, <2>1
<1>4. CASE Ended \/ UNCHANGED vars
  <2>1. UNCHANGED cuckooVars
    BY <1>4 DEF Ended, vars
  <2> QED
    BY <1>1, <2>1
<1> QED
  BY <1>2, <1>3, <1>4 DEF Next, ClientStep, ServerStep

(* And likewise for the server's hashing and simple_hashing. *)
LEMMA ServerRefines == [Next]_vars => [SP!Next]_(SP!vars)
<1> SUFFICES ASSUME [Next]_vars PROVE SP!Next \/ UNCHANGED SP!vars
  OBVIOUS
<1>1. ASSUME UNCHANGED simpleVars
      PROVE  UNCHANGED SP!vars
  BY <1>1 DEF simpleVars, SP!vars
<1>2. CASE ServerHashing
  <2>1. CASE \E t \in Server!Tasks : Server!InsertValue(t)
    <3>1. PICK t \in Server!Tasks : Server!InsertValue(t)
      BY <2>1
    <3>2. t \in SP!Tasks
      BY <3>1 DEF Server!Tasks, SP!Tasks
    <3>3. SP!InsertValue(t)
      BY <3>1, Zenon DEF Server!InsertValue, SP!InsertValue, Server!EndPos, SP!EndPos, Server!StartPos,
        SP!StartPos, Server!CeilDivide, SP!CeilDivide, Server!Lesser, SP!Lesser, Server!EleAt, SP!EleAt,
        Server!ValueOf, SP!ValueOf, Server!IsFull, SP!IsFull, Server!Grown, SP!Grown, Server!NextHf,
        SP!NextHf, Server!NUM_HASH_FUNCTIONS, SP!NUM_HASH_FUNCTIONS, Server!mergeVars, SP!mergeVars,
        Server!Bins, SP!Bins
    <3> QED
      BY <3>2, <3>3 DEF SP!Next
  <2>2. CASE Server!JoinTasks
    <3>1. SP!JoinTasks
      BY <2>2, Zenon DEF Server!JoinTasks, SP!JoinTasks, Server!Tasks, SP!Tasks, Server!EndPos, SP!EndPos,
        Server!StartPos, SP!StartPos, Server!CeilDivide, SP!CeilDivide, Server!Lesser, SP!Lesser,
        Server!tableVars, SP!tableVars, Server!mergeVars, SP!mergeVars
    <3> QED
      BY <3>1 DEF SP!Next
  <2>3. CASE Server!CopyBin
    <3>1. SP!CopyBin
      BY <2>3, Zenon DEF Server!CopyBin, SP!CopyBin, Server!Counted, SP!Counted, Server!tableVars, SP!tableVars
    <3> QED
      BY <3>1 DEF SP!Next
  <2>4. CASE Server!Return
    <3>1. SP!Return
      BY <2>4, Zenon DEF Server!Return, SP!Return, Server!tableVars, SP!tableVars, Server!mergeVars, SP!mergeVars
    <3> QED
      BY <3>1 DEF SP!Next
  <2> QED
    BY <1>2, <2>1, <2>2, <2>3, <2>4 DEF ServerHashing
<1>3. CASE ClientHashing \/ Oprg \/ SendMask \/ ReceiveMask \/ JoinReceiver \/ Query \/ CreateResult
  <2>1. UNCHANGED simpleVars
    BY <1>3, Zenon DEF ClientHashing, Oprg, SendMask, ReceiveMask, JoinReceiver, Query, CreateResult
  <2> QED
    BY <1>1, <2>1
<1>4. CASE Ended \/ UNCHANGED vars
  <2>1. UNCHANGED simpleVars
    BY <1>4 DEF Ended, vars
  <2> QED
    BY <1>1, <2>1
<1> QED
  BY <1>2, <1>3, <1>4 DEF Next, ClientStep, ServerStep

(* The tables begin as they do by themselves. *)
LEMMA TablesInit == Init => CP!Init /\ SP!Init
<1> SUFFICES ASSUME Init PROVE CP!Init /\ SP!Init
  OBVIOUS
<1>1. CP!Init
  BY Zenon DEF Init, Client!Init, CP!Init, Client!Tasks, CP!Tasks, Client!Eles, CP!Eles, Client!Bins, CP!Bins,
    Client!StartPos, CP!StartPos, Client!CeilDivide, CP!CeilDivide
<1>2. SP!Init
  BY Zenon DEF Init, Server!Init, SP!Init, Server!Tasks, SP!Tasks, Server!Eles, SP!Eles, Server!Bins, SP!Bins,
    Server!StartPos, SP!StartPos, Server!CeilDivide, SP!CeilDivide, Server!InitialSize, SP!InitialSize,
    Server!Greater, SP!Greater, Server!ceil_log2, SP!ceil_log2, Server!Cardinality, SP!Cardinality,
    Server!Lesser, SP!Lesser, Server!Power, SP!Power
<1> QED
  BY <1>1, <1>2

(* The protocol runs the two hash tables: what is proved of cuckoo_hashing and of
   simple_hashing by themselves holds of them here. *)
THEOREM TablesAreRun == Spec => CP!Spec /\ SP!Spec
<1>1. Init => CP!Init /\ SP!Init
  BY TablesInit
<1>2. [Next]_vars => [CP!Next]_(CP!vars) /\ [SP!Next]_(SP!vars)
  BY ClientRefines, ServerRefines
<1> QED
  BY <1>1, <1>2, PTL DEF Spec, CP!Spec, SP!Spec

(* The operator of FiniteSets is the same in every instance. *)
LEMMA SameCardinality ==
  ASSUME NEW S
  PROVE  CP!Cardinality(S) = Cardinality(S) /\ SP!Cardinality(S) = Cardinality(S)
BY Zenon DEF CP!Cardinality, SP!Cardinality, Cardinality

--------------------------------------------------------------------------------
(***************************************************************************)
(* The inductive invariant.                                                *)
(***************************************************************************)

OccupiedBins == {b \in Bins : cNelesinbin[b] = 1}

(* The number of an occupied bin, from 1. *)
NumberOf(b) == Cardinality({c \in 0 .. b : cNelesinbin[c] = 1})

(* What cuckoo_hashing leaves: a value of the bin's element, a number for every occupied
   bin and the element behind every number. *)
ClientTable ==
  /\ \A b \in Bins :
       /\ cTable[b] \in ClientEles \cup {NoEntry}
       /\ cHashTable[b] = cTable[b]
       /\ cNelesinbin[b] = IF cTable[b] = NoEntry THEN 0 ELSE 1
       /\ cTable[b] # NoEntry => \E i \in HFs : cHash[cTable[b]][i] = b
  /\ \A b, c \in Bins : cTable[b] = cTable[c] /\ cTable[b] # NoEntry => b = c
  /\ cPerm \in Seq(ClientEles)
  /\ Len(cPerm) = Cardinality(OccupiedBins) /\ Len(cPerm) <= NClient
  /\ \A b \in OccupiedBins : cPerm[NumberOf(b)] = cTable[b]

(* The k-th value in bin b of the server's table. *)
ValueIn(b, k) == sResBins[Server!Offset(b) + k]

(* An element of the server meets bin b under two hash functions. *)
MetTwice(b) ==
  \E e \in ServerEles : \E i, j \in HFs : i # j /\ sHash[e][i] = b /\ sHash[e][j] = b

(* What simple_hashing leaves: in the bin of every hash function of every element its
   value, once, and elsewhere dummies, in bins that an element meets twice. *)
ServerTable ==
  /\ sNelesinbin \in [Bins -> Nat]
  /\ sResBins \in Seq(ServerEles \cup {Dummy}) /\ Len(sResBins) = 3 * NServer
  /\ Server!Offset(NBins) = 3 * NServer
  /\ \A b \in Bins : \A k \in 1 .. sNelesinbin[b] :
       IF ValueIn(b, k) = Dummy THEN MetTwice(b)
       ELSE /\ \E i \in HFs : sHash[ValueIn(b, k)][i] = b
            /\ \A m \in 1 .. sNelesinbin[b] : ValueIn(b, m) = ValueIn(b, k) => m = k
  /\ \A e \in ServerEles, i \in HFs : \E k \in 1 .. sNelesinbin[sHash[e][i]] :
       ValueIn(sHash[e][i], k) = e

TablesInv ==
  /\ Client!TypeOK
  /\ Server!TypeOK
  /\ cPhase = "done" => ClientTable
  /\ sPhase = "done" => ServerTable

InputsOK ==
  /\ input \in Inputs
  /\ hf \in Tables
  /\ lookup \in Lookups
  /\ cHash = [i \in ClientEles |-> Address(input.client, hf, NBins, i)]
  /\ sHash = [i \in ServerEles |-> Address(input.server, hf, NBins, i)]

Evaluated == cpc \in {"receive", "find", "done"}

(* The parties leave the OPRG evaluation together. *)
ControlOK ==
  /\ cpc \in {"hashing", "oprg", "receive", "find", "done"}
  /\ spc \in {"hashing", "oprg", "send", "done"}
  /\ cpc # "hashing" => cPhase = "done"
  /\ spc # "hashing" => sPhase = "done"
  /\ Evaluated <=> spc \in {"send", "done"}

ClientMasks == [k \in ClientEles |-> ClientMask(k)]

ServerMasks == [j \in 0 .. NServer * 3 - 1 |-> ServerMask(j)]

(* The masks are those of the two tables. *)
MasksOK ==
  IF Evaluated THEN masks = ClientMasks /\ serverMasks = ServerMasks
  ELSE masks = <<>> /\ serverMasks = <<>> /\ sent = 0 /\ chan = <<>> /\ received = <<>>

(* What has been received and what is on its way are the masks that were sent. *)
StreamOK ==
  /\ sent \in 0 .. NServer * 3
  /\ spc = "send" => sent < NServer * 3
  /\ chan \in Seq(Mask) /\ received \in Seq(Mask)
  /\ Len(received) + Len(chan) = sent
  /\ \A k \in 1 .. Len(received) : received[k] = serverMasks[k - 1]
  /\ \A k \in 1 .. Len(chan) : chan[k] = serverMasks[Len(received) + k - 1]
  /\ cpc \in {"find", "done"} => Len(received) = Expected

Exact == Determined /\ Separated /\ LookupExact

(* The p-th mask that was received is found among the client's masks, and whose it is. *)
Matched(p) == IsMatch(received[p])

OwnerAt(p) == Owner(Hit(received[p]))

(* The matches are the owners of the matched masks so far. *)
SearchOK ==
  /\ query \in 0 .. Expected
  /\ matches \in Seq(ClientEles) /\ Len(matches) <= NClient
  /\ overrun \in BOOLEAN
  /\ cpc \notin {"find", "done"} => query = 0 /\ matches = <<>> /\ ~overrun
  /\ IF cpc = "done" THEN query = Expected /\ result = Ascending(matches) ELSE result = <<>>
  /\ \A k \in 1 .. Len(matches) : \E p \in 1 .. query : Matched(p) /\ matches[k] = OwnerAt(p)
  /\ ~overrun => \A p \in 1 .. query : Matched(p) => \E k \in 1 .. Len(matches) : matches[k] = OwnerAt(p)
  /\ Exact => /\ ~overrun
              /\ \A j, k \in 1 .. Len(matches) : matches[j] = matches[k] => j = k

--------------------------------------------------------------------------------
(***************************************************************************)
(* What the proofs about the two tables say here.                          *)
(***************************************************************************)

(* The type invariants of the tables' modules. *)
LEMMA TablesTyped == Spec => [](Client!TypeOK /\ Server!TypeOK)
<1>1. CP!TypeOK => Client!TypeOK
  BY Zenon DEF CP!TypeOK, Client!TypeOK, CP!Eles, Client!Eles, CP!Bins, Client!Bins, CP!Tasks, Client!Tasks,
    CP!Entry, Client!Entry, CP!HashIdx, Client!HashIdx, CP!NUM_HASH_FUNCTIONS, Client!NUM_HASH_FUNCTIONS
<1>2. SP!TypeOK => Server!TypeOK
  BY Zenon DEF SP!TypeOK, Server!TypeOK, SP!Eles, Server!Eles, SP!Bins, Server!Bins, SP!Tasks, Server!Tasks,
    SP!Value, Server!Value, SP!HashIdx, Server!HashIdx, SP!NUM_HASH_FUNCTIONS, Server!NUM_HASH_FUNCTIONS
<1>3. CP!Spec => []CP!TypeOK
  BY ClientConstants, CP!TypeCorrect
<1>4. SP!Spec => []SP!TypeOK
  BY ServerConstants, SP!TypeCorrect
<1> QED
  BY <1>1, <1>2, <1>3, <1>4, TablesAreRun, PTL

(* The client's table. *)
LEMMA ClientTableWhenDone == Spec => [](cPhase = "done" => ClientTable)
<1>1. CP!IInv /\ CP!ScanOK /\ CP!Numbered /\ CP!PermNumbersMasks /\ cPhase = "done" => ClientTable
  <2> SUFFICES ASSUME CP!IInv, CP!ScanOK, CP!Numbered, CP!PermNumbersMasks, cPhase = "done"
               PROVE  ClientTable
    OBVIOUS
  <2>1. CP!Bins = Bins /\ CP!Eles = ClientEles /\ CP!HashIdx = HFs
    BY DEF CP!Bins, Bins, CP!Eles, ClientEles, CP!HashIdx, CP!NUM_HASH_FUNCTIONS, HFs
  <2>2. cScan = NBins
    BY Zenon DEF CP!ScanOK
  <2>3. \A b \in Bins : /\ cHashTable[b] = cTable[b]
                       /\ cNelesinbin[b] = IF cTable[b] = NoEntry THEN 0 ELSE 1
    BY <2>1, <2>2, SomeBin DEF CP!Numbered, Bins
  <2>4. \A b \in Bins : cTable[b] \in ClientEles \cup {NoEntry}
    BY <2>1 DEF CP!IInv, CP!TypeOK
  <2>5. /\ \A b \in Bins : cTable[b] # NoEntry => \E i \in HFs : cHash[cTable[b]][i] = b
        /\ \A b, c \in Bins : cTable[b] = cTable[c] /\ cTable[b] # NoEntry => b = c
    BY <2>1, Zenon DEF CP!IInv, CP!PlacementSound
  <2>6. cPerm \in Seq(ClientEles)
    BY <2>1, Zenon DEF CP!IInv, CP!TypeOK
  <2>7. /\ Len(cPerm) = CP!Cardinality({b \in CP!Bins : cNelesinbin[b] = 1})
        /\ Len(cPerm) <= NClient
        /\ \A b \in CP!Bins : cNelesinbin[b] = 1 => cPerm[CP!Rank(b)] = cHashTable[b]
    BY Zenon DEF CP!PermNumbersMasks
  <2>8. Len(cPerm) = Cardinality(OccupiedBins)
    BY <2>1, <2>7, SameCardinality, Zenon DEF OccupiedBins
  <2>9. \A b \in OccupiedBins : cPerm[NumberOf(b)] = cTable[b]
    <3> TAKE b \in OccupiedBins
    <3>1. b \in Bins /\ cNelesinbin[b] = 1
      BY DEF OccupiedBins
    <3>2. CP!Rank(b) = NumberOf(b)
      BY SameCardinality, Zenon DEF CP!Rank, NumberOf
    <3> QED
      BY <2>1, <2>3, <2>7, <3>1, <3>2
  <2> QED
    BY <2>3, <2>4, <2>5, <2>6, <2>7, <2>8, <2>9, Zenon DEF ClientTable
<1>2. CP!Spec => []CP!IInv
  BY ClientConstants, CP!Invariance
<1>3. CP!Spec => [](CP!ScanOK /\ CP!Numbered)
  BY ClientConstants, CP!NumberedAlways
<1>4. CP!Spec => []CP!PermNumbersMasks
  BY ClientConstants, CP!MasksAreNumbered
<1> QED
  BY <1>1, <1>2, <1>3, <1>4, TablesAreRun, PTL

(* A set of one element at most. *)
LEMMA AtMostOne ==
  ASSUME NEW S, IsFiniteSet(S), Cardinality(S) <= 1, NEW x \in S, NEW y \in S
  PROVE  x = y
<1> SUFFICES ASSUME x # y PROVE FALSE
  OBVIOUS
<1>1. IsFiniteSet(S \ {x}) /\ Cardinality(S \ {x}) = Cardinality(S) - 1
  BY FS_RemoveElement
<1>2. Cardinality(S) \in Nat /\ Cardinality(S \ {x}) \in Nat
  BY <1>1, FS_CardinalityType
<1>3. Cardinality(S \ {x}) = 0
  BY <1>1, <1>2
<1>4. S \ {x} = {}
  BY <1>1, <1>3, FS_EmptySet
<1> QED
  BY <1>4

(* The server's table, which one thread fills. *)
LEMMA ServerTableWhenDone == Spec => [](sPhase = "done" => ServerTable)
<1> DEFINE Repeats == sPhase = "done" =>
             \A b \in SP!Bins : \A k \in 1 .. sNelesinbin[b] : SP!ResultBin(b)[k] = Dummy => SP!MetTwice(b)
<1>1. SP!IInv /\ SP!RInv /\ SP!ResultFits /\ SP!ResultGrouped /\ SP!FirstChunkStored /\ Repeats
        /\ sPhase = "done" => ServerTable
  <2> SUFFICES ASSUME SP!IInv, SP!RInv, SP!ResultFits, SP!ResultGrouped, SP!FirstChunkStored, Repeats,
                      sPhase = "done"
               PROVE  ServerTable
    OBVIOUS
  <2>1. SP!Bins = Bins /\ SP!Eles = ServerEles /\ SP!HashIdx = HFs /\ SP!Value = ServerEles \cup {Dummy}
    BY DEF SP!Bins, Bins, SP!Eles, ServerEles, SP!HashIdx, SP!NUM_HASH_FUNCTIONS, HFs, SP!Value
  <2>2. \A b : Server!Offset(b) = SP!Offset(b)
    BY Zenon DEF Server!Offset, SP!Offset
  <2>3. sNelesinbin \in [Bins -> Nat] /\ sResBins \in Seq(ServerEles \cup {Dummy}) /\ sNtasks = 1
    BY <2>1, Zenon DEF SP!IInv, SP!TypeOK
  <2>4. Len(sResBins) = 3 * NServer
    <3>1. Len(sResBins) = NServer * SP!NUM_HASH_FUNCTIONS
      BY Zenon DEF SP!ResultFits
    <3> QED
      BY <3>1, OTPSIOK DEF SP!NUM_HASH_FUNCTIONS
  <2>5. /\ SP!Offset(NBins) = Len(sResBins)
        /\ \A b \in Bins : \A k \in 1 .. sNelesinbin[b] : SP!ResultBin(b)[k] # Dummy =>
             /\ \E i \in HFs : sHash[SP!ResultBin(b)[k]][i] = b
             /\ SP!Cardinality({m \in 1 .. sNelesinbin[b] : SP!ResultBin(b)[m] = SP!ResultBin(b)[k]}) <= sNtasks
    BY <2>1, Zenon DEF SP!ResultGrouped
  <2>6. \A b \in Bins : \A k \in 1 .. sNelesinbin[b] : SP!ResultBin(b)[k] = ValueIn(b, k)
    <3> TAKE b \in Bins
    <3>1. \A k \in 1 .. sNelesinbin[b] : SP!ResultBin(b)[k] = sResBins[SP!Offset(b) + k]
      BY <2>1, ServerConstants, SP!ReadBin
    <3> QED
      BY <2>2, <3>1 DEF ValueIn
  <2>7. ASSUME NEW b \in Bins, NEW k \in 1 .. sNelesinbin[b]
        PROVE  IF ValueIn(b, k) = Dummy THEN MetTwice(b)
               ELSE /\ \E i \in HFs : sHash[ValueIn(b, k)][i] = b
                    /\ \A m \in 1 .. sNelesinbin[b] : ValueIn(b, m) = ValueIn(b, k) => m = k
    <3>1. CASE ValueIn(b, k) = Dummy
      <4>1. SP!MetTwice(b)
        BY <2>1, <2>6, <2>7, <3>1
      <4> QED
        BY <2>1, <3>1, <4>1 DEF SP!MetTwice, MetTwice
    <3>2. CASE ValueIn(b, k) # Dummy
      <4>1. /\ \E i \in HFs : sHash[ValueIn(b, k)][i] = b
            /\ SP!Cardinality({m \in 1 .. sNelesinbin[b] : SP!ResultBin(b)[m] = SP!ResultBin(b)[k]}) <= 1
        <5>1. SP!ResultBin(b)[k] # Dummy /\ SP!ResultBin(b)[k] = ValueIn(b, k)
          BY <2>6, <2>7, <3>2
        <5>2. /\ \E i \in HFs : sHash[SP!ResultBin(b)[k]][i] = b
              /\ SP!Cardinality({m \in 1 .. sNelesinbin[b] : SP!ResultBin(b)[m] = SP!ResultBin(b)[k]}) <= sNtasks
          BY <2>5, <2>7, <5>1, Zenon
        <5> QED
          BY <2>3, <5>1, <5>2, Zenon
      <4> DEFINE same == {m \in 1 .. sNelesinbin[b] : SP!ResultBin(b)[m] = SP!ResultBin(b)[k]}
      <4>2. IsFiniteSet(same) /\ Cardinality(same) <= 1
        <5>1. 1 \in Int /\ sNelesinbin[b] \in Int
          BY <2>3, <2>7
        <5>2. IsFiniteSet(1 .. sNelesinbin[b])
          BY <5>1, FS_Interval
        <5>3. same \subseteq 1 .. sNelesinbin[b]
          OBVIOUS
        <5>4. Cardinality(same) = SP!Cardinality(same)
          BY SameCardinality
        <5> HIDE DEF same
        <5> QED
          BY <4>1, <5>2, <5>3, <5>4, FS_Subset DEF same
      <4>3. ASSUME NEW m \in 1 .. sNelesinbin[b], ValueIn(b, m) = ValueIn(b, k)
            PROVE  m = k
        <5>1. m \in same /\ k \in same
          BY <2>6, <2>7, <4>3
        <5> HIDE DEF same
        <5> QED
          BY <4>2, <5>1, AtMostOne
      <4> QED
        BY <3>2, <4>1, <4>3
    <3> QED
      BY <3>1, <3>2
  <2>8. ASSUME NEW e \in ServerEles, NEW i \in HFs
        PROVE  \E k \in 1 .. sNelesinbin[sHash[e][i]] : ValueIn(sHash[e][i], k) = e
    <3>1. sHash[e][i] \in Bins
      <4>1. sHash \in [ServerEles -> Hashes]
        BY <2>1, Zenon DEF SP!IInv, SP!TypeOK
      <4> QED
        BY <2>8, <4>1 DEF Hashes
    <3>2. e < CeilDivide(NServer, 1)
      <4>1. NServer <= 1 * CeilDivide(NServer, 1) /\ CeilDivide(NServer, 1) \in Nat
        BY OTPSIOK, CeilDivideBounds
      <4> QED
        BY <2>8, <4>1, OTPSIOK DEF ServerEles
    <3>3. SP!CeilDivide(NServer, sNtasks) = CeilDivide(NServer, 1)
      BY <2>3 DEF SP!CeilDivide, CeilDivide
    <3>4. SP!Stored(e)
      BY <2>1, <2>8, <3>2, <3>3, Zenon DEF SP!FirstChunkStored
    <3>5. \E k \in 1 .. sNelesinbin[sHash[e][i]] : SP!ResultBin(sHash[e][i])[k] = e
      BY <2>1, <2>8, <3>4, Zenon DEF SP!Stored
    <3> QED
      BY <2>6, <3>1, <3>5
  <2>9. Server!Offset(NBins) = 3 * NServer
    BY <2>2, <2>4, <2>5
  <2> QED
    BY <2>3, <2>4, <2>7, <2>8, <2>9, Zenon DEF ServerTable
<1>2. SP!Spec => [](SP!IInv /\ SP!RInv)
  BY ServerConstants, SP!ResultInvariance
<1>3. SP!Spec => []SP!ResultFits
  BY ServerConstants, SP!ResultIsFull
<1>4. SP!Spec => []SP!ResultGrouped
  BY ServerConstants, SP!BinsAreGrouped
<1>5. SP!Spec => []SP!FirstChunkStored
  BY ServerConstants, SP!FirstChunkArrives
<1>6. SP!Spec => []Repeats
  BY ServerConstants, SP!DummiesAreRepeats
<1> QED
  BY <1>1, <1>2, <1>3, <1>4, <1>5, <1>6, TablesAreRun, PTL

--------------------------------------------------------------------------------
(***************************************************************************)
(* hashElement: numbers are numbers, and an element's address and value    *)
(* depend on nothing but the element.                                      *)
(***************************************************************************)

(* A sum of numbers is a number. *)
LEMMA SumType ==
  ASSUME NEW n \in Nat, NEW a \in [0 .. n - 1 -> Nat]
  PROVE  Sum(a, n) \in Nat
<1>1. Sum(a, n) = RunningSums(a, n)[n]
  BY Zenon DEF Sum, RunningSums
<1>2. RunningSums(a, n) \in [0 .. n -> Nat] /\ n \in 0 .. n
  BY RunningSumsAre DEF IsSums
<1> QED
  BY <1>1, <1>2

(* So is what bytes stand for, *)
LEMMA NumberType ==
  ASSUME NEW n \in Nat, NEW bytes \in [0 .. n - 1 -> Nat]
  PROVE  Number(bytes, n) \in Nat
<1> DEFINE a == [k \in 0 .. n - 1 |-> bytes[k] * Power(ByteBits * k)]
<1>1. ASSUME NEW k \in 0 .. n - 1
      PROVE  bytes[k] * Power(ByteBits * k) \in Nat
  <2>1. ByteBits * k \in Nat
    BY HashAddressOK
  <2>2. Power(ByteBits * k) \in Nat
    BY <2>1, PowerPositive
  <2>3. bytes[k] \in Nat
    OBVIOUS
  <2> QED
    BY <2>2, <2>3
<1>2. a \in [0 .. n - 1 -> Nat]
  BY <1>1
<1>3. Number(bytes, n) = Sum(a, n)
  BY DEF Number
<1> HIDE DEF a
<1> QED
  BY <1>2, <1>3, SumType

(* and the difference of two words. *)
LEMMA XorType ==
  ASSUME NEW x \in Nat, NEW y \in Nat
  PROVE  Xor(x, y) \in Nat
<1> DEFINE a == [k \in 0 .. WordBits - 1 |->
                   Power(k) * (((x \div Power(k)) + (y \div Power(k))) % 2)]
<1>1. WordBits \in Nat
  BY HashAddressOK DEF WordBits
<1>2. ASSUME NEW k \in 0 .. WordBits - 1
      PROVE  Power(k) * (((x \div Power(k)) + (y \div Power(k))) % 2) \in Nat
  <2>1. Power(k) \in Nat \ {0}
    BY <1>1, PowerPositive
  <2>2. x \div Power(k) \in Nat /\ y \div Power(k) \in Nat
    BY <2>1, DivBounds
  <2>3. ((x \div Power(k)) + (y \div Power(k))) % 2 \in Nat
    BY <2>2
  <2> QED
    BY <2>1, <2>3
<1>3. a \in [0 .. WordBits - 1 -> Nat]
  BY <1>2
<1>4. Xor(x, y) = Sum(a, WordBits)
  BY DEF Xor
<1> HIDE DEF a
<1> QED
  BY <1>1, <1>3, <1>4, SumType

(* The lengths that init_hashing_state computes for elements of n bytes. *)
LEMMA LengthsAre ==
  ASSUME NEW n \in Nat \ {0}
  PROVE  /\ addrbitlen(n, NBins) \in Nat
         /\ outbitlen(n, NBins) \in Nat /\ outbytelen(n, NBins) \in Nat
         /\ RestOffset(n, NBins) \in Int
         /\ Erased(n, NBins) \in Nat /\ Erased(n, NBins) < ByteBits
<1>1. NBins \in Nat /\ ByteBits \in Nat /\ ByteBits >= 2 /\ WordBytes \in Nat
  BY SomeBin, HashAddressOK
<1>2. ByteBits * n \in Nat
  BY <1>1
<1>3. ceil_log2(NBins) \in Nat /\ floor_log2(NBins) \in Nat
  BY <1>1, LogTypes
<1>4. addrbitlen(n, NBins) \in Nat /\ addrbitlen(n, NBins) <= ByteBits * n
  BY <1>2, <1>3 DEF addrbitlen, Lesser
<1>5. outbitlen(n, NBins) \in Nat
  BY <1>2, <1>4 DEF outbitlen
<1>6. outbytelen(n, NBins) \in Nat
  BY <1>1, <1>5, CeilDivideBounds DEF outbytelen
<1>7. floor_addrbitlen(n, NBins) \in Nat
  BY <1>2, <1>3 DEF floor_addrbitlen, Lesser
<1>8. floor_addrbitlen(n, NBins) \div ByteBits \in Nat
  BY <1>1, <1>7, DivBounds
<1>9. RestOffset(n, NBins) \in Int
  BY <1>1, <1>8 DEF RestOffset
<1>10. ByteBits \div 2 \in Nat \ {0} /\ ByteBits \div 2 < ByteBits
  BY <1>1
<1>11. Erased(n, NBins) \in Nat /\ Erased(n, NBins) < ByteBits \div 2
  BY <1>5, <1>10 DEF Erased
<1>12. Erased(n, NBins) < ByteBits
  BY <1>1, <1>10, <1>11
<1> QED
  BY <1>4, <1>5, <1>6, <1>9, <1>11, <1>12

(* Cutting a number down leaves a number. *)
LEMMA CutDown ==
  ASSUME NEW x \in Nat, NEW p \in Nat
  PROVE  x % Power(p) \in Nat /\ x \div Power(p) \in Nat
<1> DEFINE d == Power(p)
<1>1. d \in Nat \ {0}
  BY PowerPositive
<1> HIDE DEF d
<1>2. x \div d \in Nat
  BY <1>1, DivBounds
<1>3. x % d \in Nat
  BY <1>1
<1> QED
  BY <1>2, <1>3 DEF d

(* A byte in memory is a number, *)
LEMMA ByteAtType ==
  ASSUME NEW mem, NEW places, SetInMemory(mem, places), NEW x \in Nat
  PROVE  ByteAt(mem, x) \in Nat
<1>1. Byte \subseteq Nat
  BY DEF Byte
<1>2. mem.bytelen \in Nat \ {0} /\ mem.eles \in [places -> [1 .. mem.bytelen -> Byte]] /\ mem.beyond \in Byte
  BY DEF SetInMemory
<1> DEFINE n == mem.bytelen
           i == x \div n
<1>3. x % n \in Nat /\ x % n < n
  <2>1. n \in Nat \ {0}
    BY <1>2
  <2> HIDE DEF n
  <2> QED
    BY <2>1
<1>4. (x % n) + 1 \in 1 .. n
  BY <1>2, <1>3
<1>5. CASE i \in DOMAIN mem.eles
  <2>1. mem.eles[i] \in [1 .. n -> Byte]
    BY <1>2, <1>5
  <2>2. mem.eles[i][(x % n) + 1] \in Byte
    BY <1>4, <2>1
  <2>3. ByteAt(mem, x) = mem.eles[i][(x % n) + 1]
    BY <1>5 DEF ByteAt
  <2> QED
    BY <1>1, <2>2, <2>3
<1>6. CASE i \notin DOMAIN mem.eles
  <2>1. ByteAt(mem, x) = mem.beyond
    BY <1>6 DEF ByteAt
  <2> QED
    BY <1>1, <1>2, <2>1
<1> QED
  BY <1>5, <1>6

(* and where the array holds an element, that element's. *)
LEMMA ByteOfElement ==
  ASSUME NEW mem, NEW places, SetInMemory(mem, places), NEW i \in places, i \in Nat,
         NEW k \in 0 .. mem.bytelen - 1
  PROVE  ByteAt(mem, i * mem.bytelen + k) = mem.eles[i][k + 1]
<1> DEFINE n == mem.bytelen
           x == i * n + k
           q == x \div n
<1>1. n \in Nat \ {0} /\ k \in Nat /\ k < n /\ DOMAIN mem.eles = places
  BY DEF SetInMemory
<1> HIDE DEF n
<1>2. i * n \in Nat
  BY <1>1
<1>3. x \in Nat
  BY <1>1, <1>2
<1>4. q \in Nat /\ n * q <= x /\ x < n * q + n /\ x % n = x - n * q
  <2> HIDE DEF x
  <2>1. x \div n \in Nat /\ n * (x \div n) <= x /\ x < n * (x \div n) + n
    BY <1>1, <1>3, DivBounds
  <2>2. x % n = x - n * (x \div n)
    BY <1>1, <1>3
  <2> QED
    BY <2>1, <2>2
<1> HIDE DEF q
<1>5. q = i
  <2>1. ~ (q < i)
    <3> SUFFICES ASSUME q < i PROVE FALSE
      OBVIOUS
    <3>1. (q + 1) * n <= i * n
      BY <1>1, <1>4
    <3>2. (q + 1) * n = n * q + n
      BY <1>1, <1>4
    <3> QED
      BY <1>1, <1>2, <1>4, <3>1, <3>2
  <2>2. ~ (i < q)
    <3> SUFFICES ASSUME i < q PROVE FALSE
      OBVIOUS
    <3>1. (i + 1) * n <= q * n
      BY <1>1, <1>4
    <3>2. (i + 1) * n = i * n + n /\ q * n = n * q
      BY <1>1, <1>4
    <3> QED
      BY <1>1, <1>2, <1>4, <3>1, <3>2
  <2> QED
    BY <1>4, <2>1, <2>2
<1>6. x % n = k
  <2>1. n * i = i * n
    BY <1>1
  <2> QED
    BY <1>1, <1>2, <1>4, <1>5, <2>1
<1>7. x \div n = i
  BY <1>5 DEF q
<1>8. ByteAt(mem, x) = IF (x \div n) \in DOMAIN mem.eles THEN mem.eles[x \div n][(x % n) + 1] ELSE mem.beyond
  BY DEF ByteAt, n
<1> QED
  BY <1>1, <1>6, <1>7, <1>8 DEF n

(* The first word of an element and what is left of it are numbers, *)
LEMMA WordTypes ==
  ASSUME NEW mem, NEW places, SetInMemory(mem, places), NEW i \in Nat
  PROVE  Word(mem, i) \in Nat /\ L(mem, NBins, i) \in Nat /\ R(mem, NBins, i) \in Nat
<1> DEFINE n == mem.bytelen
           word == [k \in 0 .. WordBytes - 1 |-> ByteAt(mem, i * mem.bytelen + k)]
<1>1. n \in Nat \ {0} /\ WordBytes \in Nat /\ ByteBits \in Nat
  BY HashAddressOK DEF SetInMemory
<1>2. word \in [0 .. WordBytes - 1 -> Nat]
  <2> SUFFICES ASSUME NEW k \in 0 .. WordBytes - 1
               PROVE  ByteAt(mem, i * mem.bytelen + k) \in Nat
    OBVIOUS
  <2>1. i * mem.bytelen \in Nat
    BY <1>1
  <2>2. i * mem.bytelen + k \in Nat
    BY <2>1
  <2> QED
    BY <2>2, ByteAtType
<1>3. Word(mem, i) = Number(word, WordBytes)
  BY DEF Word
<1>4. Word(mem, i) \in Nat
  <2> HIDE DEF word
  <2> QED
    BY <1>1, <1>2, <1>3, NumberType
<1>5. addrbitlen(n, NBins) \in Nat
  BY <1>1, LengthsAre
<1> DEFINE rest == Word(mem, i) \div Power(addrbitlen(n, NBins))
<1>6. L(mem, NBins, i) \in Nat /\ rest \in Nat
  BY <1>4, <1>5, CutDown DEF L
<1>7. maskbitlen(n, NBins) \in Nat
  <2> DEFINE shift == WordBits - ByteBits * n - addrbitlen(n, NBins)
  <2>1. ByteBits * n \in Nat /\ WordBits \in Nat \ {0}
    BY <1>1, HashAddressOK DEF WordBits
  <2>2. shift \in Int
    BY <1>5, <2>1
  <2> HIDE DEF shift
  <2>3. shift % WordBits \in 0 .. WordBits - 1
    BY <2>1, <2>2
  <2>4. maskbitlen(n, NBins) = WordBits - (shift % WordBits)
    BY DEF maskbitlen, shift
  <2> QED
    BY <2>1, <2>3, <2>4
<1>8. R(mem, NBins, i) = IF mem.bytelen < WordBytes THEN rest % Power(maskbitlen(n, NBins)) ELSE rest
  BY DEF R
<1> HIDE DEF rest
<1> QED
  BY <1>4, <1>6, <1>7, <1>8, CutDown

(* and so is the value. *)
LEMMA ValueType ==
  ASSUME NEW mem, NEW places, SetInMemory(mem, places), NEW i \in Nat
  PROVE  Value(mem, NBins, i) \in Nat
<1> DEFINE n == mem.bytelen
           off == RestOffset(n, NBins)
           m == outbytelen(n, NBins)
           bytes == [p \in 0 .. m - 1 |-> ValueByte(mem, NBins, i, p)]
<1>1. n \in Nat \ {0} /\ WordBytes \in Nat /\ ByteBits \in Nat
  BY HashAddressOK DEF SetInMemory
<1>2. m \in Nat /\ off \in Int /\ Erased(n, NBins) \in Nat /\ ByteBits - Erased(n, NBins) \in Nat
  BY <1>1, LengthsAre
<1>3. R(mem, NBins, i) \in Nat
  BY WordTypes
<1>4. ASSUME NEW p \in 0 .. m - 1
      PROVE  ValueByte(mem, NBins, i, p) \in Nat
  <2> DEFINE part == (R(mem, NBins, i) \div Power(ByteBits * p)) % Power(ByteBits)
             byte == IF n > WordBytes /\ p >= off THEN ByteAt(mem, i * n + WordBytes + (p - off)) ELSE part
  <2>1. part \in Nat
    <3>1. ByteBits * p \in Nat
      BY <1>1
    <3>2. R(mem, NBins, i) \div Power(ByteBits * p) \in Nat
      BY <1>3, <3>1, CutDown
    <3> QED
      BY <1>1, <3>2, CutDown
  <2>2. p >= off => ByteAt(mem, i * n + WordBytes + (p - off)) \in Nat
    <3> SUFFICES ASSUME p >= off PROVE ByteAt(mem, i * n + WordBytes + (p - off)) \in Nat
      OBVIOUS
    <3>1. i * n \in Nat
      BY <1>1
    <3>2. p - off \in Nat
      BY <1>2
    <3>3. i * n + WordBytes + (p - off) \in Nat
      BY <1>1, <3>1, <3>2
    <3> QED
      BY <3>3, ByteAtType
  <2>3. byte \in Nat
    BY <2>1, <2>2
  <2>4. ValueByte(mem, NBins, i, p) =
          IF n > WordBytes /\ p = outbytelen(n, NBins) - 1
          THEN byte % Power(ByteBits - Erased(n, NBins)) ELSE byte
    BY DEF ValueByte
  <2> HIDE DEF byte
  <2>5. byte % Power(ByteBits - Erased(n, NBins)) \in Nat
    BY <1>2, <2>3, CutDown
  <2> QED
    BY <2>3, <2>4, <2>5
<1>5. bytes \in [0 .. m - 1 -> Nat]
  BY <1>4
<1>6. Value(mem, NBins, i) = Number(bytes, m)
  BY DEF Value
<1> HIDE DEF bytes, m
<1> QED
  BY <1>2, <1>5, <1>6, NumberType

(* Two places in memory that hold the same element. *)
SameElement(memA, A, i, memB, B, j) ==
  /\ SetInMemory(memA, A) /\ i \in A /\ i \in Nat
  /\ SetInMemory(memB, B) /\ j \in B /\ j \in Nat
  /\ memA.bytelen = memB.bytelen
  /\ memA.eles[i] = memB.eles[j]

(* Reading either gives the same bytes, *)
LEMMA SameByte ==
  ASSUME NEW memA, NEW A, NEW i, NEW memB, NEW B, NEW j, SameElement(memA, A, i, memB, B, j),
         NEW k \in 0 .. memA.bytelen - 1
  PROVE  ByteAt(memA, i * memA.bytelen + k) = ByteAt(memB, j * memB.bytelen + k)
<1>1. ByteAt(memA, i * memA.bytelen + k) = memA.eles[i][k + 1]
  BY ByteOfElement DEF SameElement
<1>2. k \in 0 .. memB.bytelen - 1
  BY DEF SameElement
<1>3. ByteAt(memB, j * memB.bytelen + k) = memB.eles[j][k + 1]
  BY <1>2, ByteOfElement DEF SameElement
<1> QED
  BY <1>1, <1>3 DEF SameElement

(* the same first word, if the element has one, *)
LEMMA SameWord ==
  ASSUME NEW memA, NEW A, NEW i, NEW memB, NEW B, NEW j, SameElement(memA, A, i, memB, B, j),
         memA.bytelen >= WordBytes
  PROVE  L(memA, NBins, i) = L(memB, NBins, j) /\ R(memA, NBins, i) = R(memB, NBins, j)
<1> DEFINE a == [k \in 0 .. WordBytes - 1 |-> ByteAt(memA, i * memA.bytelen + k)]
           b == [k \in 0 .. WordBytes - 1 |-> ByteAt(memB, j * memB.bytelen + k)]
<1>1. memA.bytelen \in Nat /\ memB.bytelen = memA.bytelen /\ WordBytes \in Nat
  BY HashAddressOK DEF SameElement, SetInMemory
<1>2. ASSUME NEW k \in 0 .. WordBytes - 1
      PROVE  ByteAt(memA, i * memA.bytelen + k) = ByteAt(memB, j * memB.bytelen + k)
  <2>1. k \in 0 .. memA.bytelen - 1
    BY <1>1
  <2> QED
    BY <2>1, SameByte
<1>3. a = b
  BY <1>2
<1>4. Word(memA, i) = Number(a, WordBytes) /\ Word(memB, j) = Number(b, WordBytes)
  BY DEF Word
<1> HIDE DEF a, b
<1>5. Word(memA, i) = Word(memB, j)
  BY <1>3, <1>4
<1> QED
  BY <1>1, <1>5, Zenon DEF L, R

(* the same bins, *)
LEMMA SameAddress ==
  ASSUME NEW memA, NEW A, NEW i, NEW memB, NEW B, NEW j, SameElement(memA, A, i, memB, B, j),
         memA.bytelen >= WordBytes, NEW t
  PROVE  Address(memA, t, NBins, i) = Address(memB, t, NBins, j)
<1>1. L(memA, NBins, i) = L(memB, NBins, j) /\ R(memA, NBins, i) = R(memB, NBins, j)
  BY SameWord
<1> QED
  BY <1>1, Zenon DEF Address

(* and the same value, if no byte behind the element is copied. *)
LEMMA SameValue ==
  ASSUME NEW memA, NEW A, NEW i, NEW memB, NEW B, NEW j, SameElement(memA, A, i, memB, B, j),
         memA.bytelen >= WordBytes,
         memA.bytelen > WordBytes =>
           outbytelen(memA.bytelen, NBins) - RestOffset(memA.bytelen, NBins) <= memA.bytelen - WordBytes
  PROVE  Value(memA, NBins, i) = Value(memB, NBins, j)
<1> DEFINE n == memA.bytelen
           off == RestOffset(n, NBins)
           m == outbytelen(n, NBins)
<1>1. n \in Nat \ {0} /\ memB.bytelen = n /\ WordBytes \in Nat
  BY HashAddressOK DEF SameElement, SetInMemory
<1>2. m \in Nat /\ off \in Int
  BY <1>1, LengthsAre
<1>3. R(memA, NBins, i) = R(memB, NBins, j)
  BY SameWord
<1>4. n > WordBytes => m - off <= n - WordBytes
  OBVIOUS
<1>5. ASSUME NEW p \in 0 .. m - 1
      PROVE  ValueByte(memA, NBins, i, p) = ValueByte(memB, NBins, j, p)
  <2> DEFINE byteA == IF n > WordBytes /\ p >= off THEN ByteAt(memA, i * n + WordBytes + (p - off))
                      ELSE (R(memA, NBins, i) \div Power(ByteBits * p)) % Power(ByteBits)
             byteB == IF n > WordBytes /\ p >= off THEN ByteAt(memB, j * n + WordBytes + (p - off))
                      ELSE (R(memB, NBins, j) \div Power(ByteBits * p)) % Power(ByteBits)
  <2>1. n > WordBytes /\ p >= off =>
          ByteAt(memA, i * n + WordBytes + (p - off)) = ByteAt(memB, j * n + WordBytes + (p - off))
    <3> SUFFICES ASSUME n > WordBytes, p >= off
                 PROVE  ByteAt(memA, i * n + WordBytes + (p - off)) = ByteAt(memB, j * n + WordBytes + (p - off))
      OBVIOUS
    <3> DEFINE k == WordBytes + (p - off)
    <3>1. k \in 0 .. n - 1
      <4> HIDE DEF n, m, off
      <4> QED
        BY <1>1, <1>2, <1>4
    <3>2. ByteAt(memA, i * n + k) = ByteAt(memB, j * n + k)
      <4> HIDE DEF k
      <4> QED
        BY <1>1, <3>1, SameByte
    <3>3. i * n + WordBytes + (p - off) = i * n + k /\ j * n + WordBytes + (p - off) = j * n + k
      <4>1. i * n \in Int /\ j * n \in Int
        BY <1>1 DEF SameElement
      <4> HIDE DEF n, off
      <4> QED
        BY <1>1, <1>2, <4>1
    <3> QED
      BY <3>2, <3>3
  <2>2. byteA = byteB
    BY <1>3, <2>1, Zenon
  <2>3. ValueByte(memA, NBins, i, p) =
          IF n > WordBytes /\ p = outbytelen(n, NBins) - 1
          THEN byteA % Power(ByteBits - Erased(n, NBins)) ELSE byteA
    BY Zenon DEF ValueByte
  <2>4. ValueByte(memB, NBins, j, p) =
          IF n > WordBytes /\ p = outbytelen(n, NBins) - 1
          THEN byteB % Power(ByteBits - Erased(n, NBins)) ELSE byteB
    BY <1>1, Zenon DEF ValueByte
  <2> HIDE DEF byteA, byteB
  <2> QED
    BY <2>2, <2>3, <2>4
<1>6. [p \in 0 .. m - 1 |-> ValueByte(memA, NBins, i, p)] = [p \in 0 .. m - 1 |-> ValueByte(memB, NBins, j, p)]
  BY <1>5
<1>7. Value(memA, NBins, i) = Number([p \in 0 .. m - 1 |-> ValueByte(memA, NBins, i, p)], m)
  BY DEF Value
<1>8. Value(memB, NBins, j) = Number([p \in 0 .. m - 1 |-> ValueByte(memB, NBins, j, p)], m)
  BY <1>1 DEF Value
<1> HIDE DEF m
<1> QED
  BY <1>6, <1>7, <1>8

--------------------------------------------------------------------------------
(***************************************************************************)
(* The bins of the masks.                                                  *)
(***************************************************************************)

(* Running sums grow: behind a number they are at least what it adds up to, *)
LEMMA SumsGrow ==
  ASSUME NEW n \in Nat, NEW a \in [0 .. n - 1 -> Nat], NEW sum, IsSums(sum, a, n),
         NEW b \in 0 .. n - 1, NEW c \in 0 .. n, b < c
  PROVE  sum[b] + a[b] <= sum[c]
<1> DEFINE T == {x \in 0 .. n : b < x /\ ~(sum[b] + a[b] <= sum[x])}
<1> SUFFICES ASSUME T # {} PROVE FALSE
  OBVIOUS
<1>1. T \subseteq Nat
  OBVIOUS
<1>2. PICK x \in T : \A y \in T : x <= y
  BY <1>1, Least
<1>3. x \in 0 .. n /\ b < x /\ ~(sum[b] + a[b] <= sum[x]) /\ x - 1 \in 0 .. n - 1 /\ (x - 1) + 1 = x
  OBVIOUS
<1>4. sum \in [0 .. n -> Nat] /\ sum[x] = sum[x - 1] + a[x - 1]
  <2>1. \A i \in 0 .. n - 1 : sum[i + 1] = sum[i] + a[i]
    BY DEF IsSums
  <2> QED
    BY <1>3, <2>1 DEF IsSums
<1>5. a[x - 1] \in Nat /\ sum[x - 1] \in Nat /\ sum[b] \in Nat /\ a[b] \in Nat
  BY <1>3, <1>4
<1>6. CASE x - 1 = b
  BY <1>3, <1>4, <1>5, <1>6
<1>7. CASE x - 1 # b
  <2>1. x - 1 \in 0 .. n /\ b < x - 1 /\ x - 1 \notin T
    BY <1>2, <1>3, <1>7
  <2>2. sum[b] + a[b] <= sum[x - 1]
    BY <2>1
  <2> QED
    BY <1>3, <1>4, <1>5, <2>2
<1> QED
  BY <1>6, <1>7

(* and a number below the last sum is in the range of one of the numbers. *)
LEMMA SumsCover ==
  ASSUME NEW n \in Nat, NEW a \in [0 .. n - 1 -> Nat], NEW sum, IsSums(sum, a, n),
         NEW j \in Nat, j < sum[n]
  PROVE  \E b \in 0 .. n - 1 : sum[b] <= j /\ j < sum[b] + a[b]
<1> DEFINE T == {x \in 0 .. n - 1 : sum[x] <= j}
<1>1. /\ sum \in [0 .. n -> Nat] /\ sum[0] = 0
      /\ \A i \in 0 .. n - 1 : sum[i + 1] = sum[i] + a[i]
  BY DEF IsSums
<1>2. n # 0
  BY <1>1
<1>3. 0 \in T
  BY <1>1, <1>2
<1>4. PICK b \in T : \A y \in T : y <= b
  <2>1. T \subseteq 0 .. n - 1 /\ T # {}
    BY <1>3
  <2> HIDE DEF T
  <2> QED
    BY <2>1, Greatest
<1>5. b \in 0 .. n - 1 /\ sum[b] <= j /\ b + 1 \in 0 .. n
  OBVIOUS
<1>6. sum[b + 1] = sum[b] + a[b] /\ sum[b + 1] \in Nat
  BY <1>1, <1>5
<1>7. j < sum[b + 1]
  <2>1. CASE b + 1 = n
    BY <2>1
  <2>2. CASE b + 1 # n
    <3>1. b + 1 \in 0 .. n - 1 /\ b + 1 \notin T
      BY <1>4, <1>5, <2>2
    <3> QED
      BY <1>6, <3>1
  <2> QED
    BY <2>1, <2>2
<1> QED
  BY <1>5, <1>6, <1>7

(* Where the bins of the server's table begin. *)
LEMMA OffsetsAre ==
  ASSUME sNelesinbin \in [Bins -> Nat]
  PROVE  \E sum : /\ IsSums(sum, sNelesinbin, NBins)
                  /\ \A b \in 0 .. NBins : Server!Offset(b) = sum[b]
<1>1. NBins \in Nat /\ sNelesinbin \in [0 .. NBins - 1 -> Nat]
  BY SomeBin DEF Bins
<1>2. IsSums(RunningSums(sNelesinbin, NBins), sNelesinbin, NBins)
  BY <1>1, RunningSumsAre
<1>3. \A b \in 0 .. NBins : Server!Offset(b) = RunningSums(sNelesinbin, NBins)[b]
  BY Zenon DEF Server!Offset, RunningSums
<1> QED
  BY <1>2, <1>3

(* The bin of a place in the server's table is the one that the place lies in. *)
LEMMA BinOf ==
  ASSUME ServerTable, NEW j \in 0 .. NServer * 3 - 1
  PROVE  /\ BinOfValue(j) \in Bins
         /\ Server!Offset(BinOfValue(j)) \in Nat
         /\ Server!Offset(BinOfValue(j)) <= j
         /\ j < Server!Offset(BinOfValue(j)) + sNelesinbin[BinOfValue(j)]
<1> DEFINE In(b) == Server!Offset(b) <= j /\ j < Server!Offset(b) + sNelesinbin[b]
<1>1. sNelesinbin \in [Bins -> Nat] /\ Server!Offset(NBins) = 3 * NServer
  BY DEF ServerTable
<1>2. PICK sum : /\ IsSums(sum, sNelesinbin, NBins)
                 /\ \A b \in 0 .. NBins : Server!Offset(b) = sum[b]
  BY <1>1, OffsetsAre
<1>3. NBins \in Nat /\ NBins \in 0 .. NBins /\ Bins = 0 .. NBins - 1 /\ sNelesinbin \in [0 .. NBins - 1 -> Nat]
  BY <1>1, SomeBin DEF Bins
<1>4. j \in Nat /\ j < sum[NBins]
  BY <1>1, <1>2, <1>3, OTPSIOK
<1>5. \E b \in Bins : In(b)
  <2>1. PICK b \in 0 .. NBins - 1 : sum[b] <= j /\ j < sum[b] + sNelesinbin[b]
    BY <1>2, <1>3, <1>4, SumsCover
  <2>2. b \in Bins /\ b \in 0 .. NBins
    BY <1>3
  <2> QED
    BY <1>2, <2>1, <2>2
<1>6. BinOfValue(j) = CHOOSE b \in Bins : In(b)
  BY DEF BinOfValue
<1>7. BinOfValue(j) \in Bins /\ In(BinOfValue(j))
  <2> HIDE DEF In
  <2> QED
    BY <1>5, <1>6
<1>8. sum \in [0 .. NBins -> Nat]
  BY <1>2 DEF IsSums
<1> QED
  BY <1>2, <1>3, <1>7, <1>8

(* The places of a bin have no other bin. *)
LEMMA PlaceOf ==
  ASSUME ServerTable, NEW b \in Bins, NEW k \in 1 .. sNelesinbin[b]
  PROVE  /\ Server!Offset(b) \in Nat
         /\ Server!Offset(b) + k - 1 \in 0 .. NServer * 3 - 1
         /\ BinOfValue(Server!Offset(b) + k - 1) = b
<1> DEFINE j == Server!Offset(b) + k - 1
           c == BinOfValue(j)
<1>1. sNelesinbin \in [Bins -> Nat] /\ Server!Offset(NBins) = 3 * NServer
  BY DEF ServerTable
<1>2. PICK sum : /\ IsSums(sum, sNelesinbin, NBins)
                 /\ \A x \in 0 .. NBins : Server!Offset(x) = sum[x]
  BY <1>1, OffsetsAre
<1>3. /\ NBins \in Nat /\ NBins \in 0 .. NBins /\ Bins = 0 .. NBins - 1
      /\ sNelesinbin \in [0 .. NBins - 1 -> Nat] /\ b \in 0 .. NBins /\ b < NBins
  BY <1>1, SomeBin DEF Bins
<1>4. sum \in [0 .. NBins -> Nat]
  BY <1>2 DEF IsSums
<1>5. sum[b] + sNelesinbin[b] <= sum[NBins]
  BY <1>2, <1>3, SumsGrow
<1>6. Server!Offset(b) = sum[b] /\ sum[b] \in Nat /\ sum[NBins] = 3 * NServer /\ sNelesinbin[b] \in Nat
  BY <1>1, <1>2, <1>3, <1>4
<1>7. j \in 0 .. NServer * 3 - 1
  BY <1>5, <1>6, OTPSIOK
<1> HIDE DEF j
<1>8. c \in Bins /\ Server!Offset(c) <= j /\ j < Server!Offset(c) + sNelesinbin[c]
  BY <1>7, BinOf
<1> HIDE DEF c
<1>9. c \in 0 .. NBins /\ c < NBins /\ c \in Int /\ b \in Int /\ sum[c] \in Nat /\ Server!Offset(c) = sum[c] /\ sNelesinbin[c] \in Nat
  BY <1>2, <1>3, <1>4, <1>8
<1>10. j = sum[b] + k - 1
  BY <1>6 DEF j
<1>11. ~ (c < b)
  <2> SUFFICES ASSUME c < b PROVE FALSE
    OBVIOUS
  <2>1. sum[c] + sNelesinbin[c] <= sum[b]
    BY <1>2, <1>3, <1>8, SumsGrow
  <2> QED
    BY <1>6, <1>8, <1>9, <1>10, <2>1
<1>12. ~ (b < c)
  <2> SUFFICES ASSUME b < c PROVE FALSE
    OBVIOUS
  <2>1. sum[b] + sNelesinbin[b] <= sum[c]
    BY <1>2, <1>3, <1>9, SumsGrow
  <2> QED
    BY <1>6, <1>8, <1>9, <1>10, <2>1
<1>13. c = b
  BY <1>9, <1>11, <1>12
<1> QED
  BY <1>6, <1>7, <1>13 DEF j, c

(* The occupied bins are numbered in their order, *)
LEMMA NumbersAre ==
  /\ IsFiniteSet(OccupiedBins) /\ Cardinality(OccupiedBins) \in Nat
  /\ \A b \in OccupiedBins : NumberOf(b) \in 1 .. Cardinality(OccupiedBins)
  /\ \A b, c \in OccupiedBins : NumberOf(b) = NumberOf(c) => b = c
<1> DEFINE Below(b) == {c \in 0 .. b : cNelesinbin[c] = 1}
<1>1. NBins - 1 \in Int /\ Bins = 0 .. NBins - 1
  BY SomeBin DEF Bins
<1>2. IsFiniteSet(OccupiedBins) /\ Cardinality(OccupiedBins) \in Nat
  <2>1. 0 \in Int
    OBVIOUS
  <2>2. IsFiniteSet(0 .. NBins - 1)
    BY <1>1, <2>1, FS_Interval
  <2>3. OccupiedBins \subseteq 0 .. NBins - 1
    BY <1>1 DEF OccupiedBins
  <2> QED
    BY <2>2, <2>3, FS_Subset, FS_CardinalityType
<1>3. ASSUME NEW b \in OccupiedBins
      PROVE  /\ Below(b) \subseteq OccupiedBins /\ b \in Below(b) /\ IsFiniteSet(Below(b))
             /\ NumberOf(b) = Cardinality(Below(b))
             /\ NumberOf(b) \in 1 .. Cardinality(OccupiedBins)
  <2>1. b \in Bins /\ cNelesinbin[b] = 1 /\ b \in Int /\ 0 <= b /\ b <= NBins - 1
    BY <1>1, <1>3 DEF OccupiedBins
  <2>2. Below(b) \subseteq OccupiedBins /\ b \in Below(b)
    BY <1>1, <2>1 DEF OccupiedBins
  <2>3. NumberOf(b) = Cardinality(Below(b))
    BY DEF NumberOf
  <2> HIDE DEF Below
  <2>4. IsFiniteSet(Below(b)) /\ Cardinality(Below(b)) <= Cardinality(OccupiedBins)
    BY <1>2, <2>2, FS_Subset
  <2>5. Cardinality(Below(b)) \in Nat /\ Cardinality(Below(b)) # 0
    BY <2>2, <2>4, FS_CardinalityType, FS_EmptySet
  <2> QED
    BY <1>2, <2>2, <2>3, <2>4, <2>5
<1>4. ASSUME NEW b \in OccupiedBins, NEW c \in OccupiedBins, b < c
      PROVE  NumberOf(b) # NumberOf(c)
  <2>1. b \in Int /\ c \in Int
    BY <1>1 DEF OccupiedBins
  <2>2. Below(b) \subseteq Below(c) /\ c \notin Below(b)
    BY <1>4, <2>1
  <2>3. IsFiniteSet(Below(c)) /\ c \in Below(c) /\ NumberOf(b) = Cardinality(Below(b)) /\ NumberOf(c) = Cardinality(Below(c))
    BY <1>3, <1>4
  <2> HIDE DEF Below
  <2>4. Cardinality(Below(b)) = Cardinality(Below(c)) => Below(b) = Below(c)
    BY <2>2, <2>3, FS_Subset
  <2> QED
    BY <2>2, <2>3, <2>4
<1>5. ASSUME NEW b \in OccupiedBins, NEW c \in OccupiedBins, NumberOf(b) = NumberOf(c)
      PROVE  b = c
  <2>1. b \in Int /\ c \in Int
    BY <1>1 DEF OccupiedBins
  <2> QED
    BY <1>4, <1>5, <2>1
<1> QED
  BY <1>2, <1>3, <1>5

(* and every number has its bin. *)
LEMMA OccupiedAre ==
  /\ \A k \in Nat : k < Cardinality(OccupiedBins) =>
       Occupied(k) \in OccupiedBins /\ NumberOf(Occupied(k)) = k + 1
  /\ \A b \in OccupiedBins : Occupied(NumberOf(b) - 1) = b
<1> DEFINE n == Cardinality(OccupiedBins)
           f == [b \in OccupiedBins |-> NumberOf(b)]
<1>1. /\ IsFiniteSet(OccupiedBins) /\ n \in Nat
      /\ \A b \in OccupiedBins : NumberOf(b) \in 1 .. n
      /\ \A b, c \in OccupiedBins : NumberOf(b) = NumberOf(c) => b = c
  BY NumbersAre
<1>2. \A i \in 1 .. n : \E b \in OccupiedBins : NumberOf(b) = i
  <2>1. f \in [OccupiedBins -> 1 .. n] /\ \A b, c \in OccupiedBins : f[b] = f[c] => b = c
    BY <1>1
  <2>2. IsFiniteSet(1 .. n) /\ Cardinality(1 .. n) = n
    <3>1. 1 \in Int /\ n \in Int
      BY <1>1
    <3> HIDE DEF n
    <3> QED
      BY <1>1, <3>1, FS_Interval
  <2> HIDE DEF f
  <2>3. f \in Injection(OccupiedBins, 1 .. n)
    BY <2>1 DEF Injection, IsInjective
  <2>4. f \in Surjection(OccupiedBins, 1 .. n)
    BY <2>2, <2>3, FS_Injection
  <2>5. \A i \in 1 .. n : \E b \in OccupiedBins : f[b] = i
    BY <2>4 DEF Surjection
  <2> QED
    BY <2>5 DEF f
<1>3. \A k : Occupied(k) = CHOOSE b \in Bins : cNelesinbin[b] = 1 /\ NumberOf(b) = k + 1
  BY DEF Occupied, NumberOf
<1>4. \A b : b \in OccupiedBins <=> b \in Bins /\ cNelesinbin[b] = 1
  BY DEF OccupiedBins
<1> HIDE DEF n, f
<1>5. ASSUME NEW k \in Nat, k < n
      PROVE  Occupied(k) \in OccupiedBins /\ NumberOf(Occupied(k)) = k + 1
  <2>1. k + 1 \in 1 .. n
    BY <1>1, <1>5
  <2>2. \E b \in Bins : cNelesinbin[b] = 1 /\ NumberOf(b) = k + 1
    BY <1>2, <1>4, <2>1
  <2> QED
    BY <1>3, <1>4, <2>2
<1>6. ASSUME NEW b \in OccupiedBins
      PROVE  Occupied(NumberOf(b) - 1) = b
  <2>1. NumberOf(b) \in 1 .. n
    BY <1>1
  <2>2. NumberOf(b) - 1 \in Nat /\ NumberOf(b) - 1 < n /\ (NumberOf(b) - 1) + 1 = NumberOf(b)
    BY <1>1, <2>1
  <2>3. Occupied(NumberOf(b) - 1) \in OccupiedBins /\ NumberOf(Occupied(NumberOf(b) - 1)) = NumberOf(b)
    BY <1>5, <2>2
  <2> QED
    BY <1>1, <2>3
<1> QED
  BY <1>5, <1>6 DEF n

--------------------------------------------------------------------------------
(***************************************************************************)
(* The masks.                                                              *)
(***************************************************************************)

(* Both sets are in memory. *)
LEMMA InputsAre ==
  ASSUME InputsOK
  PROVE  /\ SetInMemory(input.client, ClientEles) /\ SetInMemory(input.server, ServerEles)
         /\ input.client.bytelen = input.server.bytelen
BY OTPSIOK DEF InputsOK

(* An element of either has a value. *)
LEMMA ValuesAre ==
  ASSUME InputsOK
  PROVE  /\ \A e \in ClientEles : Value(input.client, NBins, e) \in Nat
         /\ \A e \in ServerEles : Value(input.server, NBins, e) \in Nat
         /\ \A v \in ServerEles \cup {Dummy} : ServerValue(v) \in Nat
<1>1. ClientEles \subseteq Nat /\ ServerEles \subseteq Nat
  BY DEF ClientEles, ServerEles
<1>2. \A e \in ClientEles : Value(input.client, NBins, e) \in Nat
  BY <1>1, InputsAre, ValueType
<1>3. \A e \in ServerEles : Value(input.server, NBins, e) \in Nat
  BY <1>1, InputsAre, ValueType
<1> QED
  BY <1>2, <1>3 DEF ServerValue

(* The k-th mask of the client, and whose it is. *)
LEMMA ClientMaskIs ==
  ASSUME ClientTable, NEW k \in ClientEles
  PROVE  IF k < Cardinality(OccupiedBins)
         THEN /\ Occupied(k) \in OccupiedBins
              /\ cTable[Occupied(k)] \in ClientEles
              /\ ClientMask(k) = <<Occupied(k), Value(input.client, NBins, cTable[Occupied(k)])>>
              /\ Owner(k) = cTable[Occupied(k)]
         ELSE ClientMask(k) = ZeroMask
<1>1. ClientMask(k) = IF k < Cardinality(OccupiedBins)
                      THEN <<Occupied(k), Value(input.client, NBins, cHashTable[Occupied(k)])>>
                      ELSE ZeroMask
  BY DEF ClientMask, OccupiedBins
<1>2. CASE k < Cardinality(OccupiedBins)
  <2>1. k \in Nat
    BY DEF ClientEles
  <2>2. Occupied(k) \in OccupiedBins /\ NumberOf(Occupied(k)) = k + 1
    BY <1>2, <2>1, OccupiedAre
  <2>3. Occupied(k) \in Bins /\ cNelesinbin[Occupied(k)] = 1
    BY <2>2 DEF OccupiedBins
  <2>4. cTable[Occupied(k)] \in ClientEles /\ cHashTable[Occupied(k)] = cTable[Occupied(k)]
    BY <2>3 DEF ClientTable
  <2>5. cPerm[k + 1] = cTable[Occupied(k)] /\ k < Len(cPerm)
    BY <1>2, <2>2 DEF ClientTable
  <2>6. Owner(k) = cTable[Occupied(k)]
    BY <2>5 DEF Owner
  <2> QED
    BY <1>1, <1>2, <2>2, <2>4, <2>6
<1>3. CASE ~ (k < Cardinality(OccupiedBins))
  BY <1>1, <1>3
<1> QED
  BY <1>2, <1>3

(* The client writes no mask behind its buffer: every occupied bin has one. *)
LEMMA BinHasMask ==
  ASSUME ClientTable, NEW b \in OccupiedBins
  PROVE  /\ NumberOf(b) - 1 \in ClientEles
         /\ NumberOf(b) - 1 < Cardinality(OccupiedBins)
         /\ Occupied(NumberOf(b) - 1) = b
<1>1. NumberOf(b) \in 1 .. Cardinality(OccupiedBins) /\ Cardinality(OccupiedBins) \in Nat
  BY NumbersAre
<1>2. Cardinality(OccupiedBins) <= NClient /\ NClient \in Nat
  BY OTPSIOK DEF ClientTable
<1>3. Occupied(NumberOf(b) - 1) = b
  BY OccupiedAre
<1> QED
  BY <1>1, <1>2, <1>3 DEF ClientEles

(* The server's mask of the k-th value in bin b, *)
LEMMA ServerMaskIs ==
  ASSUME ServerTable, NEW b \in Bins, NEW k \in 1 .. sNelesinbin[b]
  PROVE  /\ Server!Offset(b) + k - 1 \in 0 .. NServer * 3 - 1
         /\ ValueIn(b, k) \in ServerEles \cup {Dummy}
         /\ ServerMask(Server!Offset(b) + k - 1) = <<b, ServerValue(ValueIn(b, k))>>
<1> DEFINE o == Server!Offset(b)
<1>1. o \in Nat /\ o + k - 1 \in 0 .. NServer * 3 - 1 /\ BinOfValue(o + k - 1) = b
  BY PlaceOf
<1>2. sNelesinbin[b] \in Nat /\ k \in Nat
  BY DEF ServerTable
<1> HIDE DEF o
<1>3. (o + k - 1) + 1 = o + k /\ o + k \in 1 .. 3 * NServer
  BY <1>1, <1>2, OTPSIOK
<1>4. sResBins \in Seq(ServerEles \cup {Dummy}) /\ Len(sResBins) = 3 * NServer
  BY DEF ServerTable
<1>5. sResBins[o + k] \in ServerEles \cup {Dummy}
  <2> DEFINE S == ServerEles \cup {Dummy}
  <2>1. sResBins \in Seq(S) /\ Len(sResBins) = 3 * NServer
    BY <1>4
  <2> HIDE DEF S
  <2>2. sResBins[o + k] \in S
    BY <1>3, <2>1
  <2> QED
    BY <2>2 DEF S
<1>6. ServerMask(o + k - 1) = <<BinOfValue(o + k - 1), ServerValue(sResBins[(o + k - 1) + 1])>>
  BY DEF ServerMask
<1>7. ValueIn(b, k) = sResBins[o + k]
  BY DEF ValueIn, o
<1> QED
  BY <1>1, <1>3, <1>5, <1>6, <1>7 DEF o

(* and every mask is one of these. *)
LEMMA MaskHasPlace ==
  ASSUME ServerTable, NEW j \in 0 .. NServer * 3 - 1
  PROVE  \E b \in Bins : \E k \in 1 .. sNelesinbin[b] : j = Server!Offset(b) + k - 1
<1> DEFINE b == BinOfValue(j)
           o == Server!Offset(b)
<1>1. b \in Bins /\ o \in Nat /\ o <= j /\ j < o + sNelesinbin[b]
  BY BinOf
<1> HIDE DEF b
<1>2. sNelesinbin[b] \in Nat
  BY <1>1 DEF ServerTable
<1> HIDE DEF o
<1>3. j - o + 1 \in 1 .. sNelesinbin[b] /\ j = o + (j - o + 1) - 1
  BY <1>1, <1>2
<1> QED
  BY <1>1, <1>3 DEF o

(* The masks are masks. *)
LEMMA MaskTypes ==
  ASSUME InputsOK, ClientTable, ServerTable
  PROVE  ClientMasks \in [ClientEles -> Mask] /\ ServerMasks \in [0 .. NServer * 3 - 1 -> Mask]
<1>1. Mask = (0 .. NBins) \X Nat /\ Bins \subseteq 0 .. NBins /\ NBins \in 0 .. NBins
  BY SomeBin DEF Mask, Bins
<1>2. ASSUME NEW k \in ClientEles
      PROVE  ClientMask(k) \in Mask
  <2>1. CASE k < Cardinality(OccupiedBins)
    <3> DEFINE b == Occupied(k)
               w == Value(input.client, NBins, cTable[b])
    <3>1. b \in OccupiedBins /\ cTable[b] \in ClientEles /\ ClientMask(k) = <<b, w>>
      BY <2>1, ClientMaskIs
    <3>2. b \in Bins /\ w \in Nat
      BY <3>1, ValuesAre DEF OccupiedBins
    <3> HIDE DEF b, w
    <3> QED
      BY <1>1, <3>1, <3>2
  <2>2. CASE ~ (k < Cardinality(OccupiedBins))
    <3>1. ClientMask(k) = <<NBins, 0>>
      BY <2>2, ClientMaskIs DEF ZeroMask
    <3> QED
      BY <1>1, <3>1
  <2> QED
    BY <2>1, <2>2
<1>3. ASSUME NEW j \in 0 .. NServer * 3 - 1
      PROVE  ServerMask(j) \in Mask
  <2>1. PICK b \in Bins : \E k \in 1 .. sNelesinbin[b] : j = Server!Offset(b) + k - 1
    BY MaskHasPlace
  <2>2. PICK k \in 1 .. sNelesinbin[b] : j = Server!Offset(b) + k - 1
    BY <2>1
  <2> DEFINE w == ServerValue(ValueIn(b, k))
  <2>3. ServerMask(j) = <<b, w>> /\ ValueIn(b, k) \in ServerEles \cup {Dummy}
    BY <2>2, ServerMaskIs
  <2>4. w \in Nat
    BY <2>3, ValuesAre
  <2> HIDE DEF w
  <2> QED
    BY <1>1, <2>3, <2>4
<1> QED
  BY <1>2, <1>3 DEF ClientMasks, ServerMasks

(* A match names an element of the client, even if the lookup mixes masks up. *)
LEMMA OwnerType ==
  ASSUME ClientTable, NEW m, IsMatch(m)
  PROVE  Hit(m) \in Hits(m) /\ Owner(Hit(m)) \in ClientEles
<1>1. Hits(m) \subseteq ClientEles /\ Hits(m) # {}
  BY DEF IsMatch, Hits
<1>2. Hit(m) \in Hits(m)
  <2>1. \E k \in Hits(m) : \A l \in Hits(m) : l <= k
    <3>1. NClient \in Nat /\ Hits(m) \subseteq 0 .. NClient - 1
      BY <1>1, OTPSIOK DEF ClientEles
    <3> QED
      BY <1>1, <3>1, Greatest
  <2>2. Hit(m) = CHOOSE k \in Hits(m) : \A l \in Hits(m) : l <= k
    BY DEF Hit
  <2> QED
    BY <2>1, <2>2
<1>3. Owner(Hit(m)) \in ClientEles
  <2> DEFINE k == Hit(m)
  <2>1. k \in ClientEles /\ k \in Nat /\ 0 \in ClientEles
    BY <1>1, <1>2, OTPSIOK DEF ClientEles
  <2> HIDE DEF k
  <2>2. cPerm \in Seq(ClientEles)
    BY DEF ClientTable
  <2>3. k < Len(cPerm) => cPerm[k + 1] \in ClientEles
    <3> DEFINE S == ClientEles
    <3>1. cPerm \in Seq(S)
      BY <2>2
    <3> HIDE DEF S
    <3>2. k < Len(cPerm) => cPerm[k + 1] \in S
      BY <2>1, <3>1
    <3> QED
      BY <3>2 DEF S
  <2>4. Owner(k) \in ClientEles
    BY <2>1, <2>3 DEF Owner
  <2> QED
    BY <2>4 DEF k
<1> QED
  BY <1>2, <1>3

(* If the lookup tells masks apart, the mask of a bin and a value is matched exactly if the
   bin has an element with that value, and its owner is the element. *)
LEMMA MatchIs ==
  ASSUME ClientTable, masks = ClientMasks, LookupExact, NEW b \in Bins, NEW w
  PROVE  /\ IsMatch(<<b, w>>) <=> b \in OccupiedBins /\ Value(input.client, NBins, cTable[b]) = w
         /\ IsMatch(<<b, w>>) => Owner(Hit(<<b, w>>)) = cTable[b]
<1> DEFINE m == <<b, w>>
<1>1. b # NBins
  BY SomeBin DEF Bins
<1>2. ASSUME NEW x
      PROVE  Low(x) = x
  BY DEF Low, LookupExact
<1>3. \A k \in ClientEles : masks[k] = ClientMask(k)
  BY DEF ClientMasks
<1>4. ASSUME NEW k \in Hits(m)
      PROVE  /\ k \in ClientEles /\ masks[k] = m
             /\ b \in OccupiedBins /\ Value(input.client, NBins, cTable[b]) = w /\ Owner(k) = cTable[b]
  <2>1. k \in ClientEles /\ masks[k] = m
    BY <1>2, <1>4 DEF Hits
  <2>2. ClientMask(k) = <<b, w>>
    BY <1>3, <2>1
  <2>3. k < Cardinality(OccupiedBins)
    <3> SUFFICES ASSUME ~ (k < Cardinality(OccupiedBins)) PROVE FALSE
      OBVIOUS
    <3>1. ClientMask(k) = <<NBins, 0>>
      BY <2>1, ClientMaskIs DEF ZeroMask
    <3> QED
      BY <1>1, <2>2, <3>1
  <2>4. /\ Occupied(k) \in OccupiedBins
        /\ ClientMask(k) = <<Occupied(k), Value(input.client, NBins, cTable[Occupied(k)])>>
        /\ Owner(k) = cTable[Occupied(k)]
    BY <2>1, <2>3, ClientMaskIs
  <2>5. Occupied(k) = b /\ Value(input.client, NBins, cTable[Occupied(k)]) = w
    BY <2>2, <2>4
  <2> QED
    BY <2>1, <2>4, <2>5
<1>5. ASSUME b \in OccupiedBins, Value(input.client, NBins, cTable[b]) = w
      PROVE  NumberOf(b) - 1 \in Hits(m)
  <2> DEFINE k == NumberOf(b) - 1
  <2>1. k \in ClientEles /\ k < Cardinality(OccupiedBins) /\ Occupied(k) = b
    BY <1>5, BinHasMask
  <2> HIDE DEF k
  <2>2. ClientMask(k) = <<b, w>>
    BY <1>5, <2>1, ClientMaskIs
  <2>3. masks[k] = m
    BY <1>3, <2>1, <2>2
  <2>4. k \in Hits(m)
    BY <2>1, <2>3 DEF Hits
  <2> QED
    BY <2>4 DEF k
<1>6. IsMatch(m) <=> Hits(m) # {}
  <2>1. ASSUME Hits(m) # {}
        PROVE  masks[Hit(m)] = m
    <3>1. Hit(m) \in Hits(m)
      <4>1. NClient \in Nat /\ Hits(m) \subseteq 0 .. NClient - 1
        BY OTPSIOK DEF Hits, ClientEles
      <4>2. \E k \in Hits(m) : \A l \in Hits(m) : l <= k
        <5> HIDE DEF m
        <5> QED
          BY <2>1, <4>1, Greatest
      <4>3. Hit(m) = CHOOSE k \in Hits(m) : \A l \in Hits(m) : l <= k
        BY DEF Hit
      <4> QED
        BY <4>2, <4>3
    <3> QED
      BY <1>4, <3>1
  <2> QED
    BY <2>1 DEF IsMatch
<1>7. IsMatch(m) => Hit(m) \in Hits(m)
  BY OwnerType
<1> HIDE DEF m
<1>8. IsMatch(m) => Owner(Hit(m)) = cTable[b]
  BY <1>4, <1>7
<1>9. IsMatch(m) <=> b \in OccupiedBins /\ Value(input.client, NBins, cTable[b]) = w
  BY <1>4, <1>5, <1>6
<1> QED
  BY <1>8, <1>9 DEF m

(* What is known when the client searches. *)
SearchReady == InputsOK /\ ClientTable /\ ServerTable /\ masks = ClientMasks

(* If the elements tell the values apart, a matched mask stands for one element that both
   have: the value is no dummy's, for which the bin would be met twice, nor another
   element's. *)
LEMMA MatchIsCommon ==
  ASSUME SearchReady, Separated, LookupExact, NEW j \in 0 .. NServer * 3 - 1, IsMatch(ServerMask(j))
  PROVE  \E b \in OccupiedBins : \E k \in 1 .. sNelesinbin[b] :
           /\ j = Server!Offset(b) + k - 1
           /\ ValueIn(b, k) \in ServerEles
           /\ cTable[b] \in ClientEles
           /\ input.client.eles[cTable[b]] = input.server.eles[ValueIn(b, k)]
           /\ Owner(Hit(ServerMask(j))) = cTable[b]
<1>1. InputsOK /\ ClientTable /\ ServerTable /\ masks = ClientMasks
  BY DEF SearchReady
<1>2. PICK b \in Bins : \E k \in 1 .. sNelesinbin[b] : j = Server!Offset(b) + k - 1
  BY <1>1, MaskHasPlace
<1>3. PICK k \in 1 .. sNelesinbin[b] : j = Server!Offset(b) + k - 1
  BY <1>2
<1> DEFINE v == ValueIn(b, k)
           w == ServerValue(v)
           e == cTable[b]
<1>4. ServerMask(j) = <<b, w>> /\ v \in ServerEles \cup {Dummy}
  BY <1>1, <1>3, ServerMaskIs
<1>5. b \in OccupiedBins /\ Value(input.client, NBins, e) = w /\ Owner(Hit(ServerMask(j))) = e
  <2> HIDE DEF w
  <2>1. IsMatch(<<b, w>>)
    BY <1>4
  <2>2. b \in OccupiedBins /\ Value(input.client, NBins, cTable[b]) = w /\ Owner(Hit(<<b, w>>)) = cTable[b]
    BY <1>1, <2>1, MatchIs
  <2> QED
    BY <1>4, <2>2
<1>6. e \in ClientEles /\ \E i \in HFs : cHash[e][i] = b
  BY <1>1, <1>5 DEF OccupiedBins, ClientTable
<1>7. PICK i \in HFs : cHash[e][i] = b
  BY <1>6
<1> HIDE DEF e
<1>8. v # Dummy
  <2> SUFFICES ASSUME v = Dummy PROVE FALSE
    OBVIOUS
  <2>1. MetTwice(b)
    BY <1>1 DEF ServerTable
  <2>2. PICK d \in ServerEles : \E l, m \in HFs : l # m /\ sHash[d][l] = b /\ sHash[d][m] = b
    BY <2>1 DEF MetTwice
  <2>3. PICK l \in HFs, m \in HFs : l # m /\ sHash[d][l] = b /\ sHash[d][m] = b
    BY <2>2
  <2>4. cHash[e][i] = sHash[d][l] /\ m \in HFs \ {l} /\ sHash[d][m] = sHash[d][l]
    BY <1>7, <2>3
  <2>5. Value(input.client, NBins, e) # 0
    BY <1>6, <1>7, <2>2, <2>3, <2>4 DEF Separated
  <2>6. w = 0
    BY DEF ServerValue
  <2> QED
    BY <1>5, <2>5, <2>6
<1>9. v \in ServerEles /\ w = Value(input.server, NBins, v)
  BY <1>4, <1>8 DEF ServerValue
<1>10. \E l \in HFs : sHash[v][l] = b
  BY <1>1, <1>8 DEF ServerTable
<1>11. PICK l \in HFs : sHash[v][l] = b
  BY <1>10
<1>12. input.client.eles[e] = input.server.eles[v]
  <2> SUFFICES ASSUME input.client.eles[e] # input.server.eles[v] PROVE FALSE
    OBVIOUS
  <2>1. cHash[e][i] = sHash[v][l]
    BY <1>7, <1>11
  <2> HIDE DEF v, w
  <2>2. Value(input.client, NBins, e) # Value(input.server, NBins, v)
    BY <1>6, <1>7, <1>9, <1>11, <2>1 DEF Separated
  <2> QED
    BY <1>5, <1>9, <2>2
<1> QED
  BY <1>3, <1>5, <1>6, <1>9, <1>12 DEF e

(* Two of them stand for two elements. *)
LEMMA MatchIsOnce ==
  ASSUME SearchReady, Separated, LookupExact,
         NEW i \in 0 .. NServer * 3 - 1, IsMatch(ServerMask(i)),
         NEW j \in 0 .. NServer * 3 - 1, IsMatch(ServerMask(j)),
         Owner(Hit(ServerMask(i))) = Owner(Hit(ServerMask(j)))
  PROVE  i = j
<1>1. InputsOK /\ ClientTable /\ ServerTable
  BY DEF SearchReady
<1>2. PICK b \in OccupiedBins : \E k \in 1 .. sNelesinbin[b] :
           /\ i = Server!Offset(b) + k - 1
           /\ ValueIn(b, k) \in ServerEles
           /\ cTable[b] \in ClientEles
           /\ input.client.eles[cTable[b]] = input.server.eles[ValueIn(b, k)]
           /\ Owner(Hit(ServerMask(i))) = cTable[b]
  BY MatchIsCommon
<1>3. PICK k \in 1 .. sNelesinbin[b] :
           /\ i = Server!Offset(b) + k - 1
           /\ ValueIn(b, k) \in ServerEles
           /\ cTable[b] \in ClientEles
           /\ input.client.eles[cTable[b]] = input.server.eles[ValueIn(b, k)]
           /\ Owner(Hit(ServerMask(i))) = cTable[b]
  BY <1>2
<1>4. PICK c \in OccupiedBins : \E l \in 1 .. sNelesinbin[c] :
           /\ j = Server!Offset(c) + l - 1
           /\ ValueIn(c, l) \in ServerEles
           /\ cTable[c] \in ClientEles
           /\ input.client.eles[cTable[c]] = input.server.eles[ValueIn(c, l)]
           /\ Owner(Hit(ServerMask(j))) = cTable[c]
  BY MatchIsCommon
<1>5. PICK l \in 1 .. sNelesinbin[c] :
           /\ j = Server!Offset(c) + l - 1
           /\ ValueIn(c, l) \in ServerEles
           /\ cTable[c] \in ClientEles
           /\ input.client.eles[cTable[c]] = input.server.eles[ValueIn(c, l)]
           /\ Owner(Hit(ServerMask(j))) = cTable[c]
  BY <1>4
<1>6. b \in Bins /\ c \in Bins /\ cTable[b] = cTable[c]
  BY <1>3, <1>5 DEF OccupiedBins
<1>7. cTable[b] # NoEntry
  BY <1>3, OTPSIOK DEF ClientEles
<1>8. b = c
  BY <1>1, <1>6, <1>7 DEF ClientTable
<1>9. ValueIn(b, k) = ValueIn(c, l)
  <2>1. \A x, y \in ServerEles : input.server.eles[x] = input.server.eles[y] => x = y
    BY <1>1, InputsAre DEF SetInMemory
  <2> QED
    BY <1>3, <1>5, <1>6, <2>1
<1>10. ValueIn(b, k) # Dummy
  BY <1>3, OTPSIOK DEF ServerEles
<1>11. l = k
  <2>1. \A m \in 1 .. sNelesinbin[b] : ValueIn(b, m) = ValueIn(b, k) => m = k
    BY <1>1, <1>6, <1>10 DEF ServerTable
  <2> QED
    BY <1>8, <1>9, <2>1
<1> QED
  BY <1>3, <1>5, <1>8, <1>11

(* If the hash functions read nothing but the element, an element that both have and the
   client's table has kept is matched. *)
LEMMA CommonIsMatched ==
  ASSUME SearchReady, Determined, LookupExact, NEW e \in Common \cap Kept
  PROVE  \E j \in 0 .. NServer * 3 - 1 : IsMatch(ServerMask(j)) /\ Owner(Hit(ServerMask(j))) = e
<1>1. InputsOK /\ ClientTable /\ ServerTable /\ masks = ClientMasks
  BY DEF SearchReady
<1>2. e \in ClientEles
  BY DEF Kept
<1>3. PICK d \in ServerEles : input.client.eles[e] = input.server.eles[d]
  BY DEF Common
<1>4. PICK b \in Bins : cTable[b] = e
  BY DEF Kept
<1>5. e # NoEntry
  BY <1>2, OTPSIOK DEF ClientEles
<1>6. b \in OccupiedBins /\ \E i \in HFs : cHash[e][i] = b
  BY <1>1, <1>4, <1>5 DEF ClientTable, OccupiedBins
<1>7. PICK i \in HFs : cHash[e][i] = b
  BY <1>6
<1>8. SameElement(input.client, ClientEles, e, input.server, ServerEles, d)
  BY <1>1, <1>2, <1>3, InputsAre DEF SameElement, ClientEles, ServerEles
<1>9. /\ input.client.bytelen >= WordBytes
      /\ input.client.bytelen > WordBytes =>
           outbytelen(input.client.bytelen, NBins) - RestOffset(input.client.bytelen, NBins)
             <= input.client.bytelen - WordBytes
  BY DEF Determined
<1>10. Address(input.client, hf, NBins, e) = Address(input.server, hf, NBins, d)
  BY <1>8, <1>9, SameAddress
<1>11. Value(input.client, NBins, e) = Value(input.server, NBins, d)
  BY <1>8, <1>9, SameValue
<1>12. cHash[e] = Address(input.client, hf, NBins, e) /\ sHash[d] = Address(input.server, hf, NBins, d)
  BY <1>1, <1>2, <1>3 DEF InputsOK
<1>13. sHash[d][i] = b
  BY <1>7, <1>10, <1>12
<1>14. PICK k \in 1 .. sNelesinbin[b] : ValueIn(b, k) = d
  BY <1>1, <1>3, <1>7, <1>13 DEF ServerTable
<1>15. d # Dummy
  BY <1>3, OTPSIOK DEF ServerEles
<1> DEFINE j == Server!Offset(b) + k - 1
           w == Value(input.client, NBins, e)
<1>16. j \in 0 .. NServer * 3 - 1 /\ ServerMask(j) = <<b, ServerValue(d)>>
  BY <1>1, <1>14, ServerMaskIs
<1>17. ServerValue(d) = w
  BY <1>11, <1>15 DEF ServerValue
<1> HIDE DEF j, w
<1>18. w = Value(input.client, NBins, cTable[b])
  BY <1>4 DEF w
<1>19. IsMatch(<<b, w>>) /\ Owner(Hit(<<b, w>>)) = cTable[b]
  BY <1>1, <1>6, <1>18, MatchIs
<1> QED
  BY <1>4, <1>16, <1>17, <1>19

--------------------------------------------------------------------------------
(***************************************************************************)
(* The invariant is inductive.                                             *)
(***************************************************************************)

(* What the masks and the search are computed from. *)
givenVars == <<inputVars, cuckooVars, simpleVars>>

(* What does not change with these. *)
LEMMA MasksStay ==
  ASSUME UNCHANGED givenVars
  PROVE  ClientMasks' = ClientMasks /\ ServerMasks' = ServerMasks
<1>1. UNCHANGED <<input, cHashTable, cNelesinbin, sNelesinbin, sResBins>>
  BY DEF givenVars, inputVars, cuckooVars, simpleVars
<1>2. ClientMasks' = ClientMasks
  BY <1>1 DEF ClientMasks, ClientMask, Occupied, ZeroMask
<1>3. ServerMasks' = ServerMasks
  BY <1>1 DEF ServerMasks, ServerMask, BinOfValue, ServerValue, Server!Offset
<1> QED
  BY <1>2, <1>3

(* What is known of the tables, *)
LEMMA TablesStay ==
  ASSUME UNCHANGED givenVars
  PROVE  /\ ClientTable' <=> ClientTable
         /\ ServerTable' <=> ServerTable
         /\ InputsOK' <=> InputsOK
<1>1. UNCHANGED <<input, hf, lookup, cHash, cTable, cHashTable, cNelesinbin, cPerm, sHash, sNelesinbin, sResBins>>
  BY DEF givenVars, inputVars, cuckooVars, simpleVars
<1>2. ClientTable' <=> ClientTable
  BY <1>1 DEF ClientTable, OccupiedBins, NumberOf
<1>3. ServerTable' <=> ServerTable
  BY <1>1 DEF ServerTable, ValueIn, MetTwice, Server!Offset
<1>4. InputsOK' <=> InputsOK
  BY <1>1 DEF InputsOK
<1> QED
  BY <1>2, <1>3, <1>4

(* the conditions of the exact result, *)
LEMMA ExactStays ==
  ASSUME UNCHANGED givenVars
  PROVE  Exact' <=> Exact
<1>1. UNCHANGED <<input, lookup, cHash, sHash>>
  BY DEF givenVars, inputVars, cuckooVars, simpleVars
<1>2. Separated' <=> Separated
  BY <1>1 DEF Separated
<1>3. Determined' <=> Determined
  BY <1>1 DEF Determined
<1>4. LookupExact' <=> LookupExact
  BY <1>1 DEF LookupExact
<1> QED
  BY <1>2, <1>3, <1>4 DEF Exact

(* and the matches. *)
LEMMA MatchesStay ==
  ASSUME UNCHANGED givenVars, UNCHANGED <<masks, received>>, NEW p
  PROVE  /\ Matched(p)' <=> Matched(p)
         /\ OwnerAt(p)' = OwnerAt(p)
<1>1. UNCHANGED <<lookup, cPerm, masks, received>>
  BY DEF givenVars, inputVars, cuckooVars, simpleVars
<1>2. Matched(p)' <=> Matched(p)
  BY <1>1 DEF Matched, IsMatch, Hits, Hit, Low
<1>3. OwnerAt(p)' = OwnerAt(p)
  BY <1>1 DEF OwnerAt, Owner, Hits, Hit, Low
<1> QED
  BY <1>2, <1>3

(* The parts of the invariant that are about the protocol itself. *)
Protocol == InputsOK /\ ControlOK /\ MasksOK /\ StreamOK /\ SearchOK

(* A search that has not begun. *)
NoSearch == query = 0 /\ matches = <<>> /\ overrun = FALSE /\ result = <<>>

(* It is as the invariant says. *)
LEMMA NoSearchOK == NoSearch /\ cpc # "done" => SearchOK
<1> SUFFICES ASSUME NoSearch, cpc # "done" PROVE SearchOK
  OBVIOUS
<1>1. 0 \in 0 .. Expected
  BY OTPSIOK DEF Expected
<1>2. matches = <<>> /\ Len(matches) = 0 /\ matches \in Seq(ClientEles) /\ 0 <= NClient
  BY OTPSIOK DEF NoSearch
<1>3. (\A k \in 1 .. Len(matches) : FALSE) /\ (\A p \in 1 .. query : FALSE)
  BY <1>2 DEF NoSearch
<1>4. query = 0 /\ overrun = FALSE /\ result = <<>>
  BY DEF NoSearch
<1> HIDE DEF NoSearch
<1>5. /\ query \in 0 .. Expected
      /\ matches \in Seq(ClientEles) /\ Len(matches) <= NClient
      /\ overrun \in BOOLEAN
      /\ cpc \notin {"find", "done"} => query = 0 /\ matches = <<>> /\ ~overrun
      /\ IF cpc = "done" THEN query = Expected /\ result = Ascending(matches) ELSE result = <<>>
  BY <1>1, <1>2, <1>4
<1>6. \A k \in 1 .. Len(matches) : \E p \in 1 .. query : Matched(p) /\ matches[k] = OwnerAt(p)
  BY <1>3
<1>7. ~overrun => \A p \in 1 .. query : Matched(p) => \E k \in 1 .. Len(matches) : matches[k] = OwnerAt(p)
  BY <1>3
<1>8. Exact => /\ ~overrun
               /\ \A j, k \in 1 .. Len(matches) : matches[j] = matches[k] => j = k
  BY <1>3, <1>4
<1> QED
  BY <1>5, <1>6, <1>7, <1>8, Zenon DEF SearchOK

(* A stream that has not begun, either. *)
NoStream == masks = <<>> /\ serverMasks = <<>> /\ sent = 0 /\ chan = <<>> /\ received = <<>>

(* This is as the invariant says, too. *)
LEMMA NoStreamOK == NoStream /\ cpc \notin {"find", "done"} => StreamOK
<1> SUFFICES ASSUME sent = 0, chan = <<>>, received = <<>>, cpc \notin {"find", "done"} PROVE StreamOK
  BY DEF NoStream
<1>1. NServer \in Nat \ {0}
  BY OTPSIOK
<1> QED
  BY <1>1 DEF StreamOK

(* The client has not come to its search, *)
Waiting == cpc \notin {"find", "done"}

(* Of the next state the same is true: of a client that does not search, *)
LEMMA NextNoSearch == NoSearch' /\ Waiting' => SearchOK' /\ (NoStream' => StreamOK')
<1>1. NoSearch /\ Waiting => SearchOK /\ (NoStream => StreamOK)
  BY NoSearchOK, NoStreamOK DEF Waiting
<1> QED
  BY <1>1, PTL

(* or has not ended it. *)
Searching == cpc # "done"

(* of a search that has not begun, *)
LEMMA NextUnsearched == NoSearch' /\ Searching' => SearchOK'
<1>1. NoSearch /\ Searching => SearchOK
  BY NoSearchOK DEF Searching
<1> QED
  BY <1>1, PTL

(* or just begins. *)
LEMMA NextBeginsSearch ==
  ASSUME NoSearch', cpc' # "done"
  PROVE  SearchOK'
BY NextUnsearched DEF Searching

(* The protocol begins as the invariant says. *)
LEMMA InitProtocol == Init => Protocol
<1> SUFFICES ASSUME Init PROVE Protocol
  OBVIOUS
<1>1. cpc = "hashing" /\ spc = "hashing" /\ NoSearch /\ NoStream
  BY DEF Init, NoSearch, NoStream
<1>2. InputsOK
  BY DEF Init, InputsOK
<1>3. ControlOK
  BY <1>1 DEF ControlOK, Evaluated
<1>4. MasksOK
  BY <1>1 DEF MasksOK, Evaluated, NoStream
<1> QED
  BY <1>1, <1>2, <1>3, <1>4, NoSearchOK, NoStreamOK DEF Protocol

(* Before the evaluation there is neither stream nor search. *)
LEMMA BeforeOprg ==
  ASSUME Protocol, cpc \in {"hashing", "oprg"}
  PROVE  NoSearch /\ NoStream /\ spc \in {"hashing", "oprg"}
<1>1. ~Evaluated /\ cpc \notin {"find", "done"} /\ cpc # "done"
  BY DEF Evaluated
<1>2. NoStream
  BY <1>1 DEF Protocol, MasksOK, NoStream
<1>3. spc \in {"hashing", "oprg"}
  BY <1>1 DEF Protocol, ControlOK
<1>4. query = 0 /\ matches = <<>> /\ ~overrun /\ overrun \in BOOLEAN /\ result = <<>>
  BY <1>1, Zenon DEF Protocol, SearchOK
<1> QED
  BY <1>2, <1>3, <1>4 DEF NoSearch

(* The hash tables leave the addresses alone. *)
LEMMA AddressesStay == [Next]_vars => UNCHANGED <<inputVars, cHash, sHash>>
<1> SUFFICES ASSUME [Next]_vars PROVE UNCHANGED <<inputVars, cHash, sHash>>
  OBVIOUS
<1>1. UNCHANGED cHash
  <2>1. [CP!Next]_(CP!vars)
    BY ClientRefines
  <2> QED
    BY <2>1 DEF CP!Next, CP!vars, CP!GenCuckooEntry, CP!JoinTasks, CP!BeginInsert, CP!Place, CP!Evict, CP!GiveUp,
      CP!BeginScan, CP!ScanBin, CP!Return, CP!Returned, CP!threadVars
<1>2. UNCHANGED sHash
  <2>1. [SP!Next]_(SP!vars)
    BY ServerRefines
  <2> QED
    BY <2>1 DEF SP!Next, SP!vars, SP!InsertValue, SP!JoinTasks, SP!CopyBin, SP!Return, SP!Returned
<1>3. UNCHANGED inputVars
  BY DEF Next, ClientStep, ServerStep, ClientHashing, ServerHashing, Oprg, SendMask, ReceiveMask, JoinReceiver,
    Query, CreateResult, Ended, vars
<1> QED
  BY <1>1, <1>2, <1>3

(* The sets stay, and so do the addresses of their elements. *)
LEMMA InputsStay == InputsOK /\ [Next]_vars => InputsOK'
<1> SUFFICES ASSUME InputsOK, [Next]_vars PROVE InputsOK'
  OBVIOUS
<1>1. UNCHANGED <<input, hf, lookup, cHash, sHash>>
  BY AddressesStay DEF inputVars
<1> QED
  BY <1>1 DEF InputsOK

(* A step of a hash table. *)
LEMMA HashingSteps == Protocol /\ (ClientHashing \/ ServerHashing) => Protocol'
<1> SUFFICES ASSUME Protocol, ClientHashing \/ ServerHashing PROVE Protocol'
  OBVIOUS
<1>1. InputsOK'
  BY InputsStay DEF Protocol, Next, ClientStep, ServerStep
<1>2. ControlOK
  BY DEF Protocol
<1>3. cpc \in {"hashing", "oprg"}
  BY <1>2 DEF ClientHashing, ServerHashing, ControlOK, Evaluated
<1>4. NoSearch /\ NoStream /\ spc \in {"hashing", "oprg"}
  BY <1>3, BeforeOprg
<1>5. /\ UNCHANGED <<masks, serverMasks, sent, chan, received, matchVars>>
      /\ \/ cpc' = (IF cPhase' = "done" THEN "oprg" ELSE cpc) /\ cpc = "hashing" /\ UNCHANGED <<spc, simpleVars>>
         \/ spc' = (IF sPhase' = "done" THEN "oprg" ELSE spc) /\ spc = "hashing" /\ UNCHANGED <<cpc, cuckooVars>>
  BY Zenon DEF ClientHashing, ServerHashing
<1>6. NoSearch' /\ NoStream'
  BY <1>4, <1>5 DEF NoSearch, NoStream, matchVars
<1>7. cpc' \in {"hashing", "oprg"} /\ spc' \in {"hashing", "oprg"}
  BY <1>3, <1>4, <1>5
<1>8. (cpc' # "hashing" => cPhase' = "done") /\ (spc' # "hashing" => sPhase' = "done")
  BY <1>2, <1>5 DEF ControlOK, cuckooVars, simpleVars
<1>9. ControlOK'
  BY <1>7, <1>8 DEF ControlOK, Evaluated
<1>10. MasksOK'
  BY <1>6, <1>7 DEF MasksOK, Evaluated, NoStream
<1>11. SearchOK' /\ StreamOK'
  BY <1>6, <1>7, NextNoSearch DEF Waiting
<1> QED
  BY <1>1, <1>9, <1>10, <1>11 DEF Protocol

(* Both have their tables when the masks are computed. *)
LEMMA OprgStep == Protocol /\ Oprg => Protocol'
<1> SUFFICES ASSUME Protocol, Oprg PROVE Protocol'
  OBVIOUS
<1>1. InputsOK'
  BY InputsStay DEF Protocol, Next
<1>2. NoSearch /\ NoStream /\ cPhase = "done" /\ sPhase = "done"
  <2>1. cpc = "oprg" /\ spc = "oprg"
    BY DEF Oprg
  <2> QED
    BY <2>1, BeforeOprg DEF Protocol, ControlOK
<1>3. /\ masks' = ClientMasks /\ serverMasks' = ServerMasks /\ cpc' = "receive" /\ spc' = "send"
      /\ UNCHANGED <<inputVars, cuckooVars, simpleVars, sent, chan, received, matchVars>>
  BY DEF Oprg, ClientMasks, ServerMasks
<1>4. UNCHANGED givenVars
  BY <1>3 DEF givenVars
<1>5. ControlOK'
  BY <1>2, <1>3 DEF ControlOK, Evaluated, cuckooVars, simpleVars
<1>6. MasksOK'
  BY <1>3, <1>4, MasksStay DEF MasksOK, Evaluated
<1>7. NoSearch' /\ cpc' \notin {"find", "done"}
  BY <1>2, <1>3 DEF NoSearch, matchVars
<1>8. SearchOK'
  BY <1>7, NextNoSearch DEF Waiting
<1>9. StreamOK'
  <2>1. sent' = 0 /\ chan' = <<>> /\ received' = <<>>
    BY <1>2, <1>3 DEF NoStream
  <2> QED
    BY <1>3, <2>1, OTPSIOK DEF StreamOK
<1> QED
  BY <1>1, <1>5, <1>6, <1>8, <1>9 DEF Protocol

(* A search that does not go on. *)
LEMMA SearchStays ==
  ASSUME UNCHANGED givenVars, UNCHANGED <<masks, received, cpc, query, matches, overrun, result>>, SearchOK
  PROVE  SearchOK'
<1>1. \A p : (Matched(p)' <=> Matched(p)) /\ OwnerAt(p)' = OwnerAt(p)
  BY MatchesStay
<1>2. Exact' <=> Exact
  BY ExactStays
<1>3. /\ query' \in 0 .. Expected
      /\ matches' \in Seq(ClientEles) /\ Len(matches') <= NClient
      /\ overrun' \in BOOLEAN
      /\ cpc' \notin {"find", "done"} => query' = 0 /\ matches' = <<>> /\ ~overrun'
      /\ IF cpc' = "done" THEN query' = Expected /\ result' = Ascending(matches') ELSE result' = <<>>
  BY Zenon DEF SearchOK
<1>4. \A k \in 1 .. Len(matches') : \E p \in 1 .. query' : Matched(p)' /\ matches'[k] = OwnerAt(p)'
  BY <1>1 DEF SearchOK
<1>5. ~overrun' => \A p \in 1 .. query' : Matched(p)' => \E k \in 1 .. Len(matches') : matches'[k] = OwnerAt(p)'
  BY <1>1 DEF SearchOK
<1>6. Exact' => /\ ~overrun'
                /\ \A j, k \in 1 .. Len(matches') : matches'[j] = matches'[k] => j = k
  BY <1>2 DEF SearchOK
<1> QED
  BY <1>3, <1>4, <1>5, <1>6, Zenon DEF SearchOK, Expected

(* A sequence with one element more. *)
LEMMA AppendIs ==
  ASSUME NEW S, NEW s \in Seq(S), NEW x \in S
  PROVE  /\ Append(s, x) \in Seq(S) /\ Len(Append(s, x)) = Len(s) + 1 /\ Len(s) \in Nat
         /\ \A k \in 1 .. Len(s) : Append(s, x)[k] = s[k]
         /\ Append(s, x)[Len(s) + 1] = x
OBVIOUS

(* And one without its first. *)
LEMMA TailIs ==
  ASSUME NEW S, NEW s \in Seq(S), s # <<>>
  PROVE  /\ Head(s) = s[1] /\ s[1] \in S /\ Tail(s) \in Seq(S)
         /\ Len(s) \in Nat \ {0} /\ Len(Tail(s)) = Len(s) - 1
         /\ \A k \in 1 .. Len(s) - 1 : Tail(s)[k] = s[k + 1]
OBVIOUS

(* After the evaluation everything for the search is there. *)
LEMMA AfterOprg ==
  ASSUME TablesInv, Protocol, Evaluated
  PROVE  /\ SearchReady /\ serverMasks = ServerMasks /\ ServerMasks \in [0 .. NServer * 3 - 1 -> Mask]
         /\ masks \in [ClientEles -> Mask] /\ cPhase = "done" /\ sPhase = "done"
<1>1. cPhase = "done" /\ sPhase = "done" /\ masks = ClientMasks /\ serverMasks = ServerMasks /\ InputsOK
  BY DEF Protocol, ControlOK, MasksOK, Evaluated
<1>2. ClientTable /\ ServerTable
  BY <1>1 DEF TablesInv
<1> QED
  BY <1>1, <1>2, MaskTypes DEF SearchReady

(* The server sends its masks in order. *)
LEMMA SendStep == TablesInv /\ Protocol /\ SendMask => Protocol'
<1> SUFFICES ASSUME TablesInv, Protocol, SendMask PROVE Protocol'
  OBVIOUS
<1>1. /\ spc = "send" /\ chan' = Append(chan, serverMasks[sent]) /\ sent' = sent + 1
      /\ spc' = (IF sent' = NServer * 3 THEN "done" ELSE "send")
      /\ UNCHANGED <<inputVars, cuckooVars, simpleVars, cpc, masks, serverMasks, received, matchVars>>
  BY DEF SendMask
<1>2. UNCHANGED givenVars /\ UNCHANGED <<query, matches, overrun, result, cPhase, sPhase>>
  BY <1>1 DEF givenVars, matchVars, cuckooVars, simpleVars
<1>3. InputsOK' /\ SearchOK'
  BY <1>1, <1>2, TablesStay, SearchStays DEF Protocol
<1>4. Evaluated
  BY <1>1 DEF Protocol, ControlOK
<1>5. ControlOK'
  BY <1>1, <1>2 DEF Protocol, ControlOK, Evaluated
<1>6. MasksOK'
  <2>1. masks = ClientMasks /\ serverMasks = ServerMasks
    BY <1>4 DEF Protocol, MasksOK
  <2> QED
    BY <1>1, <1>2, <1>4, <2>1, MasksStay DEF MasksOK, Evaluated
<1>7. StreamOK'
  <2>1. /\ sent \in 0 .. NServer * 3 /\ sent < NServer * 3 /\ chan \in Seq(Mask) /\ received \in Seq(Mask)
        /\ Len(received) + Len(chan) = sent
        /\ \A k \in 1 .. Len(received) : received[k] = serverMasks[k - 1]
        /\ \A k \in 1 .. Len(chan) : chan[k] = serverMasks[Len(received) + k - 1]
        /\ cpc \in {"find", "done"} => Len(received) = Expected
    BY <1>1 DEF Protocol, StreamOK
  <2>2. sent \in 0 .. NServer * 3 - 1 /\ sent' \in 0 .. NServer * 3 /\ NServer * 3 \in Nat
    BY <1>1, <2>1, OTPSIOK
  <2>3. serverMasks[sent] \in Mask
    BY <1>4, <2>2, AfterOprg
  <2>4. /\ chan' \in Seq(Mask) /\ Len(chan') = Len(chan) + 1 /\ Len(chan) \in Nat /\ Len(received) \in Nat
        /\ \A k \in 1 .. Len(chan) : chan'[k] = chan[k]
        /\ chan'[Len(chan) + 1] = serverMasks[sent]
    BY <1>1, <2>1, <2>3, AppendIs
  <2>5. \A k \in 1 .. Len(chan') : chan'[k] = serverMasks[Len(received) + k - 1]
    <3> TAKE k \in 1 .. Len(chan')
    <3>1. CASE k \in 1 .. Len(chan)
      BY <2>1, <2>4, <3>1
    <3>2. CASE k = Len(chan) + 1
      <4>1. Len(received) + k - 1 = sent
        BY <2>1, <2>4, <3>2
      <4> QED
        BY <2>4, <3>2, <4>1
    <3> QED
      BY <2>4, <3>1, <3>2
  <2>6. Len(received) + Len(chan') = sent'
    BY <1>1, <2>1, <2>4
  <2>7. spc' = "send" => sent' < NServer * 3
    BY <1>1, <2>2
  <2>8. /\ \A k \in 1 .. Len(received') : received'[k] = serverMasks'[k - 1]
        /\ \A k \in 1 .. Len(chan') : chan'[k] = serverMasks'[Len(received') + k - 1]
        /\ received' \in Seq(Mask) /\ Len(received') + Len(chan') = sent'
        /\ cpc' \in {"find", "done"} => Len(received') = Expected
    BY <1>1, <2>1, <2>5, <2>6
  <2> QED
    BY <2>2, <2>4, <2>7, <2>8 DEF StreamOK, Expected, Mask
<1> QED
  BY <1>3, <1>5, <1>6, <1>7 DEF Protocol

(* The receiver gets them in that order. *)
LEMMA ReceiveStep == TablesInv /\ Protocol /\ ReceiveMask => Protocol'
<1> SUFFICES ASSUME TablesInv, Protocol, ReceiveMask PROVE Protocol'
  OBVIOUS
<1>1. /\ cpc = "receive" /\ chan # <<>> /\ received' = Append(received, Head(chan)) /\ chan' = Tail(chan)
      /\ UNCHANGED <<inputVars, cuckooVars, simpleVars, cpc, spc, masks, serverMasks, sent, matchVars>>
  BY DEF ReceiveMask
<1>2. UNCHANGED givenVars /\ UNCHANGED <<query, matches, overrun, result, cPhase, sPhase>>
  BY <1>1 DEF givenVars, matchVars, cuckooVars, simpleVars
<1>3. InputsOK'
  BY <1>2, TablesStay DEF Protocol
<1>4. Evaluated
  BY <1>1 DEF Evaluated
<1>5. ControlOK'
  BY <1>1, <1>2 DEF Protocol, ControlOK, Evaluated
<1>6. MasksOK'
  <2>1. masks = ClientMasks /\ serverMasks = ServerMasks
    BY <1>4 DEF Protocol, MasksOK
  <2> QED
    BY <1>1, <1>2, <1>4, <2>1, MasksStay DEF MasksOK, Evaluated
<1>7. SearchOK'
  <2>1. query = 0 /\ matches = <<>> /\ ~overrun /\ overrun \in BOOLEAN /\ result = <<>>
    <3>1. cpc \notin {"find", "done"} /\ cpc # "done"
      BY <1>1
    <3> QED
      BY <3>1, Zenon DEF Protocol, SearchOK
  <2>2. NoSearch'
    BY <1>2, <2>1 DEF NoSearch
  <2>3. Waiting'
    BY <1>1 DEF Waiting
  <2> QED
    BY <2>2, <2>3, NextNoSearch
<1>8. StreamOK'
  <2>1. /\ sent \in 0 .. NServer * 3 /\ (spc = "send" => sent < NServer * 3)
        /\ chan \in Seq(Mask) /\ received \in Seq(Mask)
        /\ Len(received) + Len(chan) = sent
        /\ \A k \in 1 .. Len(received) : received[k] = serverMasks[k - 1]
        /\ \A k \in 1 .. Len(chan) : chan[k] = serverMasks[Len(received) + k - 1]
    BY DEF Protocol, StreamOK
  <2>2. /\ Head(chan) = chan[1] /\ chan[1] \in Mask /\ chan' \in Seq(Mask)
        /\ Len(chan) \in Nat \ {0} /\ Len(chan') = Len(chan) - 1
        /\ \A k \in 1 .. Len(chan) - 1 : chan'[k] = chan[k + 1]
    BY <1>1, <2>1, TailIs
  <2>3. /\ received' \in Seq(Mask) /\ Len(received') = Len(received) + 1 /\ Len(received) \in Nat
        /\ \A k \in 1 .. Len(received) : received'[k] = received[k]
        /\ received'[Len(received) + 1] = chan[1]
    BY <1>1, <2>1, <2>2, AppendIs
  <2>4. chan[1] = serverMasks[Len(received)]
    <3>1. 1 \in 1 .. Len(chan) /\ Len(received) + 1 - 1 = Len(received)
      BY <2>2, <2>3
    <3> QED
      BY <2>1, <3>1
  <2>5. \A k \in 1 .. Len(received') : received'[k] = serverMasks[k - 1]
    <3> TAKE k \in 1 .. Len(received')
    <3>1. CASE k \in 1 .. Len(received)
      BY <2>1, <2>3, <3>1
    <3>2. CASE k = Len(received) + 1
      <4>1. k - 1 = Len(received)
        BY <2>3, <3>2
      <4> QED
        BY <2>3, <2>4, <3>2, <4>1
    <3> QED
      BY <2>3, <3>1, <3>2
  <2>6. \A k \in 1 .. Len(chan') : chan'[k] = serverMasks[Len(received') + k - 1]
    <3> TAKE k \in 1 .. Len(chan')
    <3>1. k \in 1 .. Len(chan) - 1 /\ k + 1 \in 1 .. Len(chan)
      BY <2>2
    <3>2. Len(received') + k - 1 = Len(received) + (k + 1) - 1
      BY <2>3, <3>1
    <3> QED
      BY <2>1, <2>2, <3>1, <3>2
  <2>7. Len(received') + Len(chan') = sent
    <3> DEFINE r == Len(received)
               c == Len(chan)
    <3>1. /\ r \in Nat /\ c \in Nat \ {0} /\ r + c = sent
          /\ Len(received') = r + 1 /\ Len(chan') = c - 1
      BY <2>1, <2>2, <2>3, Zenon
    <3> HIDE DEF r, c
    <3> QED
      BY <3>1
  <2>8. /\ \A k \in 1 .. Len(received') : received'[k] = serverMasks'[k - 1]
        /\ \A k \in 1 .. Len(chan') : chan'[k] = serverMasks'[Len(received') + k - 1]
        /\ Len(received') + Len(chan') = sent'
        /\ sent' \in 0 .. NServer * 3 /\ (spc' = "send" => sent' < NServer * 3)
        /\ cpc' \notin {"find", "done"}
    BY <1>1, <2>1, <2>5, <2>6, <2>7
  <2> QED
    BY <2>2, <2>3, <2>8 DEF StreamOK, Expected, Mask
<1> QED
  BY <1>3, <1>5, <1>6, <1>7, <1>8 DEF Protocol

(* The search begins when all are there. *)
LEMMA JoinStep == TablesInv /\ Protocol /\ JoinReceiver => Protocol'
<1> SUFFICES ASSUME TablesInv, Protocol, JoinReceiver PROVE Protocol'
  OBVIOUS
<1>1. /\ cpc = "receive" /\ Len(received) = Expected /\ cpc' = "find"
      /\ UNCHANGED <<inputVars, cuckooVars, simpleVars, spc, masks, serverMasks, sent, chan, received, matchVars>>
  BY DEF JoinReceiver
<1>2. UNCHANGED givenVars /\ UNCHANGED <<query, matches, overrun, result, cPhase, sPhase>>
  BY <1>1 DEF givenVars, matchVars, cuckooVars, simpleVars
<1>3. InputsOK'
  BY <1>2, TablesStay DEF Protocol
<1>4. Evaluated
  BY <1>1 DEF Evaluated
<1>5. ControlOK'
  BY <1>1, <1>2 DEF Protocol, ControlOK, Evaluated
<1>6. MasksOK'
  <2>1. masks = ClientMasks /\ serverMasks = ServerMasks
    BY <1>4 DEF Protocol, MasksOK
  <2> QED
    BY <1>1, <1>2, <1>4, <2>1, MasksStay DEF MasksOK, Evaluated
<1>7. SearchOK'
  <2>1. query = 0 /\ matches = <<>> /\ ~overrun /\ overrun \in BOOLEAN /\ result = <<>>
    <3>1. cpc \notin {"find", "done"} /\ cpc # "done"
      BY <1>1
    <3> QED
      BY <3>1, Zenon DEF Protocol, SearchOK
  <2>2. NoSearch'
    BY <1>2, <2>1 DEF NoSearch
  <2>3. cpc' # "done"
    BY <1>1
  <2> QED
    BY <2>2, <2>3, NextBeginsSearch
<1>8. StreamOK'
  BY <1>1 DEF Protocol, StreamOK, Expected, Mask
<1> QED
  BY <1>3, <1>5, <1>6, <1>7, <1>8 DEF Protocol

(* What the search compares is what the server has sent. *)
LEMMA SearchedMasks ==
  ASSUME TablesInv, Protocol, cpc \in {"find", "done"}
  PROVE  /\ SearchReady
         /\ Expected \in Nat
         /\ \A p \in 1 .. Expected : p - 1 \in 0 .. NServer * 3 - 1 /\ received[p] = ServerMask(p - 1)
<1>1. Evaluated
  BY DEF Evaluated
<1>2. SearchReady /\ serverMasks = ServerMasks
  BY <1>1, AfterOprg
<1>3. Expected \in Nat /\ Expected = NServer * 3
  BY OTPSIOK DEF Expected
<1>4. ASSUME NEW p \in 1 .. Expected
      PROVE  p - 1 \in 0 .. NServer * 3 - 1 /\ received[p] = ServerMask(p - 1)
  <2>1. p - 1 \in 0 .. NServer * 3 - 1
    BY <1>3
  <2>2. received[p] = serverMasks[p - 1]
    BY DEF Protocol, StreamOK
  <2> QED
    BY <1>2, <2>1, <2>2 DEF ServerMasks
<1> QED
  BY <1>2, <1>3, <1>4

(* An array for every element of the client has room for one more that it has not. *)
LEMMA RoomForAll ==
  ASSUME NEW s \in Seq(ClientEles), \A j, k \in 1 .. Len(s) : s[j] = s[k] => j = k,
         NEW e \in ClientEles, \A k \in 1 .. Len(s) : s[k] # e
  PROVE  Len(s) < NClient
<1> DEFINE n == Len(s)
           f == [k \in 1 .. n + 1 |-> IF k = n + 1 THEN e ELSE s[k]]
<1>1. n \in Nat /\ NClient \in Nat /\ s \in [1 .. n -> ClientEles]
  BY OTPSIOK
<1>2. f \in [1 .. n + 1 -> ClientEles] /\ \A j, k \in 1 .. n + 1 : f[j] = f[k] => j = k
  <2> HIDE DEF n
  <2>1. \A k \in 1 .. n + 1 : k = n + 1 \/ k \in 1 .. n
    BY <1>1
  <2>2. \A k \in 1 .. n : s[k] \in ClientEles /\ s[k] # e
    BY <1>1 DEF n
  <2>3. \A j, k \in 1 .. n : s[j] = s[k] => j = k
    BY DEF n
  <2> QED
    BY <2>1, <2>2, <2>3
<1> HIDE DEF f, n
<1>3. f \in Injection(1 .. n + 1, ClientEles)
  BY <1>2 DEF Injection, IsInjective
<1>4. IsFiniteSet(ClientEles) /\ Cardinality(ClientEles) = NClient
  <2>1. NClient \in Nat \ {0}
    BY OTPSIOK
  <2> QED
    BY <2>1, FS_Interval DEF ClientEles
<1>5. Cardinality(1 .. n + 1) <= NClient
  BY <1>3, <1>4, FS_Injection
<1>6. Cardinality(1 .. n + 1) = n + 1
  <2>1. 1 \in Int /\ n + 1 \in Int /\ n + 1 >= 1
    BY <1>1
  <2> QED
    BY <1>1, <2>1, FS_Interval
<1> QED
  BY <1>1, <1>5, <1>6 DEF n

(* A round of the search: the number of matches stays within the client's elements, as
   no two of them are one element's. *)
LEMMA QueryStep == TablesInv /\ Protocol /\ Query => Protocol'
<1> SUFFICES ASSUME TablesInv, Protocol, Query PROVE Protocol'
  OBVIOUS
<1> DEFINE q == query + 1
           m == received[q]
           o == Owner(Hit(m))
<1>1. /\ cpc = "find" /\ query < Expected /\ query' = query + 1
      /\ IF ~IsMatch(m) THEN matches' = matches /\ overrun' = overrun
         ELSE IF Len(matches) < NClient
         THEN matches' = Append(matches, o) /\ overrun' = overrun
         ELSE overrun' = TRUE /\ matches' = matches
      /\ UNCHANGED <<inputVars, cuckooVars, simpleVars, cpc, spc, masks, serverMasks, sent, chan, received, result>>
  BY DEF Query
<1>2. UNCHANGED givenVars /\ UNCHANGED <<cPhase, sPhase>>
  BY <1>1 DEF givenVars, cuckooVars, simpleVars
<1>3. InputsOK'
  BY <1>2, TablesStay DEF Protocol
<1>4. Evaluated
  BY <1>1 DEF Evaluated
<1>5. ControlOK'
  BY <1>1, <1>2 DEF Protocol, ControlOK, Evaluated
<1>6. MasksOK'
  <2>1. masks = ClientMasks /\ serverMasks = ServerMasks
    BY <1>4 DEF Protocol, MasksOK
  <2> QED
    BY <1>1, <1>2, <1>4, <2>1, MasksStay DEF MasksOK, Evaluated
<1>7. StreamOK'
  BY <1>1 DEF Protocol, StreamOK, Expected, Mask
<1>8. /\ SearchReady /\ Expected \in Nat
      /\ \A p \in 1 .. Expected : p - 1 \in 0 .. NServer * 3 - 1 /\ received[p] = ServerMask(p - 1)
  BY <1>1, SearchedMasks
<1>9. /\ query \in 0 .. Expected
      /\ matches \in Seq(ClientEles) /\ Len(matches) <= NClient /\ overrun \in BOOLEAN /\ result = <<>>
      /\ \A k \in 1 .. Len(matches) : \E p \in 1 .. query : Matched(p) /\ matches[k] = OwnerAt(p)
      /\ ~overrun => \A p \in 1 .. query : Matched(p) => \E k \in 1 .. Len(matches) : matches[k] = OwnerAt(p)
      /\ Exact => /\ ~overrun
                  /\ \A j, k \in 1 .. Len(matches) : matches[j] = matches[k] => j = k
  <2>1. cpc # "done"
    BY <1>1
  <2> QED
    BY <2>1, Zenon DEF Protocol, SearchOK
<1>10. q \in 1 .. Expected /\ query' = q /\ q \in 0 .. Expected /\ query \in Nat
  BY <1>1, <1>8, <1>9
<1>11. (Matched(q) <=> IsMatch(m)) /\ OwnerAt(q) = o
  BY DEF Matched, OwnerAt
<1>12. IsMatch(m) => o \in ClientEles
  BY <1>8, OwnerType DEF SearchReady
<1>13. \A p : (Matched(p)' <=> Matched(p)) /\ OwnerAt(p)' = OwnerAt(p)
  BY <1>1, <1>2, MatchesStay
<1>14. Exact' <=> Exact
  BY <1>2, ExactStays
<1> HIDE DEF m, o
<1>15. \A p \in 1 .. q : p \in 1 .. query \/ p = q
  BY <1>10
<1>16. \A p \in 1 .. query : p \in 1 .. q
  BY <1>10
<1>17. q \in 1 .. q
  BY <1>10
<1> DEFINE New(ms, ov) ==
      /\ ms \in Seq(ClientEles) /\ Len(ms) <= NClient /\ ov \in BOOLEAN
      /\ \A k \in 1 .. Len(ms) : \E p \in 1 .. q : Matched(p) /\ ms[k] = OwnerAt(p)
      /\ ~ov => \A p \in 1 .. q : Matched(p) => \E k \in 1 .. Len(ms) : ms[k] = OwnerAt(p)
      /\ Exact => /\ ~ov
                  /\ \A j, k \in 1 .. Len(ms) : ms[j] = ms[k] => j = k
<1> HIDE DEF q
<1>18. Exact /\ IsMatch(m) => \A k \in 1 .. Len(matches) : matches[k] # o
  <2> SUFFICES ASSUME Exact, IsMatch(m), NEW k \in 1 .. Len(matches), matches[k] = o PROVE FALSE
    OBVIOUS
  <2>1. PICK p \in 1 .. query : Matched(p) /\ matches[k] = OwnerAt(p)
    BY <1>9
  <2>2. p \in 1 .. Expected /\ p \in Nat /\ p <= query
    BY <1>8, <1>9, <2>1
  <2>3. received[p] = ServerMask(p - 1) /\ received[q] = ServerMask(q - 1)
        /\ p - 1 \in 0 .. NServer * 3 - 1 /\ q - 1 \in 0 .. NServer * 3 - 1
    BY <1>8, <1>10, <2>2
  <2>4. IsMatch(ServerMask(p - 1)) /\ Owner(Hit(ServerMask(p - 1))) = o
    BY <2>1, <2>3 DEF Matched, OwnerAt
  <2>5. IsMatch(ServerMask(q - 1)) /\ Owner(Hit(ServerMask(q - 1))) = o
    BY <2>3 DEF m, o
  <2>6. Separated /\ LookupExact
    BY DEF Exact
  <2>7. p - 1 = q - 1
    BY <1>8, <2>3, <2>4, <2>5, <2>6, MatchIsOnce
  <2> QED
    BY <1>10, <2>2, <2>7 DEF q
<1>19. New(matches', overrun')
  <2>1. CASE ~IsMatch(m)
    BY <1>1, <1>9, <1>11, <1>15, <1>16, <2>1
  <2>2. CASE IsMatch(m) /\ Len(matches) < NClient
    <3>1. matches' = Append(matches, o) /\ overrun' = overrun /\ o \in ClientEles
      BY <1>1, <1>12, <2>2
    <3>2. /\ matches' \in Seq(ClientEles) /\ Len(matches') = Len(matches) + 1 /\ Len(matches) \in Nat
          /\ \A k \in 1 .. Len(matches) : matches'[k] = matches[k]
          /\ matches'[Len(matches) + 1] = o
      BY <1>9, <3>1, AppendIs
    <3> DEFINE l == Len(matches)
    <3>3. \A k \in 1 .. l + 1 : k \in 1 .. l \/ k = l + 1
      BY <3>2
    <3>4. (\A k \in 1 .. l : k \in 1 .. l + 1) /\ l + 1 \in 1 .. l + 1
      BY <3>2
    <3>5. Len(matches') <= NClient
      <4>1. NClient \in Nat
        BY OTPSIOK
      <4> QED
        BY <2>2, <3>2, <4>1
    <3> HIDE DEF l
    <3>6. ASSUME NEW k \in 1 .. Len(matches')
          PROVE  \E p \in 1 .. q : Matched(p) /\ matches'[k] = OwnerAt(p)
      <4>1. CASE k \in 1 .. l
        BY <1>9, <1>16, <3>2, <4>1 DEF l
      <4>2. CASE k = l + 1
        BY <1>11, <1>17, <2>2, <3>2, <4>2 DEF l
      <4> QED
        BY <3>2, <3>3, <3>6, <4>1, <4>2 DEF l
    <3>7. ASSUME ~overrun', NEW p \in 1 .. q, Matched(p)
          PROVE  \E k \in 1 .. Len(matches') : matches'[k] = OwnerAt(p)
      <4>1. CASE p \in 1 .. query
        <5>1. PICK k \in 1 .. l : matches[k] = OwnerAt(p)
          BY <1>9, <3>1, <3>7, <4>1 DEF l
        <5>2. k \in 1 .. Len(matches') /\ matches'[k] = OwnerAt(p)
          BY <3>2, <3>4, <5>1 DEF l
        <5> QED
          BY <5>2
      <4>2. CASE p = q
        <5>1. l + 1 \in 1 .. Len(matches') /\ matches'[l + 1] = OwnerAt(p)
          BY <1>11, <3>2, <3>4, <4>2 DEF l
        <5> QED
          BY <5>1
      <4> QED
        BY <1>15, <4>1, <4>2
    <3>8. ASSUME Exact
          PROVE  ~overrun' /\ \A j, k \in 1 .. Len(matches') : matches'[j] = matches'[k] => j = k
      <4>1. ~overrun'
        BY <1>9, <3>1, <3>8
      <4>2. ASSUME NEW j \in 1 .. Len(matches'), NEW k \in 1 .. Len(matches'), matches'[j] = matches'[k]
            PROVE  j = k
        <5>1. (j \in 1 .. l \/ j = l + 1) /\ (k \in 1 .. l \/ k = l + 1)
          BY <3>2, <3>3, <4>2 DEF l
        <5>2. CASE j \in 1 .. l /\ k \in 1 .. l
          BY <1>9, <3>2, <3>8, <4>2, <5>2 DEF l
        <5>3. CASE j \in 1 .. l /\ k = l + 1
          BY <1>18, <2>2, <3>2, <3>8, <4>2, <5>3 DEF l
        <5>4. CASE j = l + 1 /\ k \in 1 .. l
          BY <1>18, <2>2, <3>2, <3>8, <4>2, <5>4 DEF l
        <5> QED
          BY <5>1, <5>2, <5>3, <5>4
      <4> QED
        BY <4>1, <4>2
    <3>9. overrun' \in BOOLEAN
      BY <1>9, <3>1
    <3> QED
      BY <3>2, <3>5, <3>6, <3>7, <3>8, <3>9
  <2>3. CASE IsMatch(m) /\ ~ (Len(matches) < NClient)
    <3>1. matches' = matches /\ overrun' = TRUE
      BY <1>1, <2>3
    <3>2. ~ Exact
      <4> SUFFICES ASSUME Exact PROVE FALSE
        OBVIOUS
      <4>1. \A j, k \in 1 .. Len(matches) : matches[j] = matches[k] => j = k
        BY <1>9
      <4>2. \A k \in 1 .. Len(matches) : matches[k] # o
        BY <1>18, <2>3
      <4>3. o \in ClientEles
        BY <1>12, <2>3
      <4>4. matches \in Seq(ClientEles)
        BY <1>9
      <4>5. Len(matches) < NClient
        BY <4>1, <4>2, <4>3, <4>4, RoomForAll
      <4> QED
        BY <2>3, <4>5
    <3> QED
      BY <1>9, <1>16, <3>1, <3>2
  <2> QED
    BY <2>1, <2>2, <2>3
<1>20. SearchOK'
  <2>1. /\ query' \in 0 .. Expected
        /\ cpc' \notin {"find", "done"} => query' = 0 /\ matches' = <<>> /\ ~overrun'
        /\ IF cpc' = "done" THEN query' = Expected /\ result' = Ascending(matches') ELSE result' = <<>>
    <3>1. cpc' = "find"
      BY <1>1
    <3>2. cpc' # "done" /\ ~ (cpc' \notin {"find", "done"})
      BY <3>1
    <3> QED
      BY <1>1, <1>9, <1>10, <3>2
  <2>2. /\ matches' \in Seq(ClientEles) /\ Len(matches') <= NClient /\ overrun' \in BOOLEAN
        /\ \A k \in 1 .. Len(matches') : \E p \in 1 .. query' : Matched(p)' /\ matches'[k] = OwnerAt(p)'
        /\ ~overrun' => \A p \in 1 .. query' : Matched(p)' => \E k \in 1 .. Len(matches') : matches'[k] = OwnerAt(p)'
        /\ Exact' => /\ ~overrun'
                     /\ \A j, k \in 1 .. Len(matches') : matches'[j] = matches'[k] => j = k
    BY <1>10, <1>13, <1>14, <1>19
  <2> HIDE DEF New
  <2> QED
    BY <2>1, <2>2, Zenon DEF SearchOK, Expected
<1> QED
  BY <1>3, <1>5, <1>6, <1>7, <1>20 DEF Protocol

(* The result is made of the matches. *)
LEMMA ResultStep == TablesInv /\ Protocol /\ CreateResult => Protocol'
<1> SUFFICES ASSUME TablesInv, Protocol, CreateResult PROVE Protocol'
  OBVIOUS
<1>1. /\ cpc = "find" /\ query = Expected /\ cpc' = "done" /\ result' = Ascending(matches)
      /\ UNCHANGED <<inputVars, cuckooVars, simpleVars, spc, masks, serverMasks, sent, chan,
                     received, query, matches, overrun>>
  BY DEF CreateResult
<1>2. UNCHANGED givenVars /\ UNCHANGED <<cPhase, sPhase>>
  BY <1>1 DEF givenVars, cuckooVars, simpleVars
<1>3. InputsOK'
  BY <1>2, TablesStay DEF Protocol
<1>4. Evaluated
  BY <1>1 DEF Evaluated
<1>5. ControlOK'
  BY <1>1, <1>2 DEF Protocol, ControlOK, Evaluated
<1>6. MasksOK'
  <2>1. masks = ClientMasks /\ serverMasks = ServerMasks
    BY <1>4 DEF Protocol, MasksOK
  <2> QED
    BY <1>1, <1>2, <1>4, <2>1, MasksStay DEF MasksOK, Evaluated
<1>7. StreamOK'
  BY <1>1 DEF Protocol, StreamOK, Expected, Mask
<1>8. SearchOK'
  <2>1. /\ query \in 0 .. Expected
        /\ matches \in Seq(ClientEles) /\ Len(matches) <= NClient /\ overrun \in BOOLEAN
        /\ \A k \in 1 .. Len(matches) : \E p \in 1 .. query : Matched(p) /\ matches[k] = OwnerAt(p)
        /\ ~overrun => \A p \in 1 .. query : Matched(p) => \E k \in 1 .. Len(matches) : matches[k] = OwnerAt(p)
        /\ Exact => /\ ~overrun
                    /\ \A j, k \in 1 .. Len(matches) : matches[j] = matches[k] => j = k
    <3>1. cpc # "done"
      BY <1>1
    <3> QED
      BY <3>1, Zenon DEF Protocol, SearchOK
  <2>2. \A p : (Matched(p)' <=> Matched(p)) /\ OwnerAt(p)' = OwnerAt(p)
    BY <1>1, <1>2, MatchesStay
  <2>3. Exact' <=> Exact
    BY <1>2, ExactStays
  <2>4. /\ query' \in 0 .. Expected
        /\ matches' \in Seq(ClientEles) /\ Len(matches') <= NClient /\ overrun' \in BOOLEAN
        /\ \A k \in 1 .. Len(matches') : \E p \in 1 .. query' : Matched(p)' /\ matches'[k] = OwnerAt(p)'
        /\ ~overrun' => \A p \in 1 .. query' : Matched(p)' => \E k \in 1 .. Len(matches') : matches'[k] = OwnerAt(p)'
        /\ Exact' => /\ ~overrun'
                     /\ \A j, k \in 1 .. Len(matches') : matches'[j] = matches'[k] => j = k
    BY <1>1, <2>1, <2>2, <2>3
  <2>5. /\ cpc' \notin {"find", "done"} => query' = 0 /\ matches' = <<>> /\ ~overrun'
        /\ IF cpc' = "done" THEN query' = Expected /\ result' = Ascending(matches') ELSE result' = <<>>
    <3>1. cpc' = "done" /\ ~ (cpc' \notin {"find", "done"})
      BY <1>1
    <3>2. query' = Expected /\ result' = Ascending(matches')
      BY <1>1, Zenon
    <3> QED
      BY <3>1, <3>2, Zenon
  <2> QED
    BY <2>4, <2>5, Zenon DEF SearchOK, Expected
<1> QED
  BY <1>3, <1>5, <1>6, <1>7, <1>8 DEF Protocol

(* Nothing happens. *)
LEMMA EndedStep == Protocol /\ (Ended \/ UNCHANGED vars) => Protocol'
<1> SUFFICES ASSUME Protocol, UNCHANGED vars PROVE Protocol'
  BY DEF Ended
<1>1. /\ UNCHANGED givenVars
      /\ UNCHANGED <<cpc, spc, masks, serverMasks, sent, chan, received, query, matches, overrun, result>>
      /\ UNCHANGED <<cPhase, sPhase>>
  BY DEF vars, givenVars, matchVars, cuckooVars, simpleVars
<1>2. InputsOK'
  BY <1>1, TablesStay DEF Protocol
<1>3. ControlOK'
  BY <1>1 DEF Protocol, ControlOK, Evaluated
<1>4. MasksOK'
  BY <1>1, MasksStay DEF Protocol, MasksOK, Evaluated
<1>5. StreamOK'
  BY <1>1 DEF Protocol, StreamOK, Expected, Mask
<1>6. SearchOK'
  BY <1>1, SearchStays DEF Protocol
<1> QED
  BY <1>2, <1>3, <1>4, <1>5, <1>6 DEF Protocol

(* The tables are what their own modules promise, and the protocol keeps its parts. *)
THEOREM Invariance == Spec => [](TablesInv /\ Protocol)
<1>1. Spec => []TablesInv
  <2>1. (Client!TypeOK /\ Server!TypeOK) /\ (cPhase = "done" => ClientTable)
          /\ (sPhase = "done" => ServerTable) => TablesInv
    BY DEF TablesInv
  <2> QED
    BY <2>1, TablesTyped, ClientTableWhenDone, ServerTableWhenDone, PTL
<1>2. TablesInv /\ Protocol /\ [Next]_vars => Protocol'
  BY HashingSteps, OprgStep, SendStep, ReceiveStep, JoinStep, QueryStep, ResultStep, EndedStep
    DEF Next, ClientStep, ServerStep
<1> QED
  BY <1>1, <1>2, InitProtocol, PTL DEF Spec

--------------------------------------------------------------------------------
(***************************************************************************)
(* The properties.                                                         *)
(***************************************************************************)

(* A result has elements of the client. *)
LEMMA ResultType ==
  ASSUME SearchOK
  PROVE  result \in Seq(ClientEles)
<1>1. matches \in Seq(ClientEles) /\ (result = Ascending(matches) \/ result = <<>>)
  BY Zenon DEF SearchOK
<1>2. ClientEles \subseteq Nat
  BY DEF ClientEles
<1>3. Ascending(matches) \in Seq(ClientEles)
  BY <1>1, <1>2, AscendingType
<1>4. <<>> \in Seq(ClientEles)
  OBVIOUS
<1> QED
  BY <1>1, <1>3, <1>4

(* For every set, table and lookup the variables keep their types: in particular no more
   than neles matches are counted, whatever masks the lookup mixes up. *)
THEOREM TypeCorrect == Spec => []TypeOK
<1>1. TablesInv /\ Protocol => TypeOK
  <2> SUFFICES ASSUME TablesInv, Protocol PROVE TypeOK
    OBVIOUS
  <2>1. input \in Inputs /\ hf \in Tables /\ lookup \in Lookups
    BY DEF Protocol, InputsOK
  <2>2. Client!TypeOK /\ Server!TypeOK
    BY DEF TablesInv
  <2>3. cpc \in {"hashing", "oprg", "receive", "find", "done"} /\ spc \in {"hashing", "oprg", "send", "done"}
    BY Zenon DEF Protocol, ControlOK
  <2>4. /\ masks = <<>> \/ masks \in [ClientEles -> Mask]
        /\ serverMasks = <<>> \/ serverMasks \in [0 .. NServer * 3 - 1 -> Mask]
    <3>1. CASE Evaluated
      BY <3>1, AfterOprg
    <3>2. CASE ~Evaluated
      BY <3>2, Zenon DEF Protocol, MasksOK
    <3> QED
      BY <3>1, <3>2
  <2>5. sent \in 0 .. NServer * 3 /\ chan \in Seq(Mask) /\ received \in Seq(Mask)
    BY DEF Protocol, StreamOK
  <2>6. query \in 0 .. Expected /\ matches \in Seq(ClientEles) /\ Len(matches) <= NClient /\ overrun \in BOOLEAN
    BY Zenon DEF Protocol, SearchOK
  <2>7. result \in Seq(ClientEles)
    BY ResultType DEF Protocol
  <2> QED
    BY <2>1, <2>2, <2>3, <2>4, <2>5, <2>6, <2>7, Zenon DEF TypeOK
<1> QED
  BY <1>1, Invariance, PTL

(* If the hash functions read nothing but the element, the values tell the elements of a
   bin apart and the lookup the masks, nothing is written behind the array of matches. *)
THEOREM ArrayIsRoomEnough == Spec => []MatchesInBounds
<1>1. Protocol => MatchesInBounds
  BY Zenon DEF Protocol, SearchOK, Exact, MatchesInBounds
<1> QED
  BY <1>1, Invariance, PTL

(* The elements of the result are those of the matches. *)
LEMMA FoundAreMatches ==
  ASSUME SearchOK, cpc = "done"
  PROVE  /\ query = Expected
         /\ \A e : e \in Found <=> \E k \in 1 .. Len(matches) : matches[k] = e
<1>1. query = Expected /\ result = Ascending(matches) /\ matches \in Seq(ClientEles)
  BY Zenon DEF SearchOK
<1>2. ClientEles \subseteq Nat
  BY DEF ClientEles
<1>3. PICK p \in [1 .. Len(matches) -> 1 .. Len(matches)] :
        /\ \A k \in 1 .. Len(matches) : \E j \in 1 .. Len(matches) : p[j] = k
        /\ \A k \in 1 .. Len(matches) : result[k] = matches[p[k]]
  <2>1. \E p \in [1 .. Len(matches) -> 1 .. Len(matches)] :
             /\ \A j, k \in 1 .. Len(matches) : p[j] = p[k] => j = k
             /\ \A k \in 1 .. Len(matches) : \E j \in 1 .. Len(matches) : p[j] = k
             /\ \A k \in 1 .. Len(matches) : Ascending(matches)[k] = matches[p[k]]
             /\ \A j, k \in 1 .. Len(matches) : j < k => matches[p[j]] <= matches[p[k]]
    BY <1>1, <1>2, AscendingAs
  <2> QED
    BY <1>1, <2>1
<1>4. DOMAIN result = 1 .. Len(matches)
  <2>1. Ascending(matches) \in [1 .. Len(matches) -> ClientEles]
    BY <1>1, <1>2, AscendingAs
  <2> QED
    BY <1>1, <2>1
<1>5. ASSUME NEW e, e \in Found
      PROVE  \E k \in 1 .. Len(matches) : matches[k] = e
  <2>1. PICK k \in 1 .. Len(matches) : e = result[k]
    BY <1>4, <1>5 DEF Found
  <2>2. p[k] \in 1 .. Len(matches) /\ matches[p[k]] = e
    BY <1>3, <2>1
  <2> QED
    BY <2>2
<1>6. ASSUME NEW k \in 1 .. Len(matches)
      PROVE  matches[k] \in Found
  <2>1. PICK j \in 1 .. Len(matches) : p[j] = k
    BY <1>3
  <2>2. result[j] = matches[k]
    BY <1>3, <2>1
  <2> QED
    BY <1>4, <2>1, <2>2 DEF Found
<1> QED
  BY <1>1, <1>5, <1>6

(* As long as the array of matches has room, every element that both have and the client's
   cuckoo table has kept is in the result, whatever else is. *)
LEMMA NoneIsHidden ==
  ASSUME TablesInv, Protocol, cpc = "done", Determined, LookupExact, ~overrun
  PROVE  Common \cap Kept \subseteq Found
<1>1. /\ SearchReady /\ Expected \in Nat
      /\ \A p \in 1 .. Expected : p - 1 \in 0 .. NServer * 3 - 1 /\ received[p] = ServerMask(p - 1)
  <2>1. cpc \in {"find", "done"}
    OBVIOUS
  <2> QED
    BY <2>1, SearchedMasks
<1>2. SearchOK
  BY DEF Protocol
<1>3. query = Expected /\ \A e : e \in Found <=> \E k \in 1 .. Len(matches) : matches[k] = e
  BY <1>2, FoundAreMatches
<1>4. ASSUME NEW e \in Common \cap Kept
      PROVE  e \in Found
  <2>1. PICK j \in 0 .. NServer * 3 - 1 : IsMatch(ServerMask(j)) /\ Owner(Hit(ServerMask(j))) = e
    BY <1>1, CommonIsMatched
  <2>2. j + 1 \in 1 .. Expected /\ (j + 1) - 1 = j
    BY OTPSIOK DEF Expected
  <2>3. received[j + 1] = ServerMask(j)
    BY <1>1, <2>2
  <2>4. Matched(j + 1) /\ OwnerAt(j + 1) = e
    BY <2>1, <2>3 DEF Matched, OwnerAt
  <2>5. \A p \in 1 .. query : Matched(p) => \E k \in 1 .. Len(matches) : matches[k] = OwnerAt(p)
    BY <1>2, Zenon DEF SearchOK
  <2> QED
    BY <1>3, <2>2, <2>4, <2>5
<1> QED
  BY <1>4

(* Values that do not tell elements apart can add elements to the result; they hide none. *)
THEOREM MixUpsOnlyAdd == Spec => []FalseMatchesOnlyAdd
<1>1. TablesInv /\ Protocol => FalseMatchesOnlyAdd
  BY NoneIsHidden DEF FalseMatchesOnlyAdd
<1> QED
  BY <1>1, Invariance, PTL

(* What the client gets is what both have, less what its cuckoo table has lost: for all
   sets of distinct elements, tables of random words, and interleavings of the two
   parties. *)
THEOREM ResultIsIntersection == Spec => []ResultExact
<1>1. TablesInv /\ Protocol => ResultExact
  <2> SUFFICES ASSUME TablesInv, Protocol, cpc = "done", Determined, Separated, LookupExact
               PROVE  /\ Found = Common \cap Kept
                      /\ \A j, k \in DOMAIN result : j < k => result[j] < result[k]
    BY DEF ResultExact
  <2>1. SearchOK /\ Exact
    BY DEF Protocol, Exact
  <2>2. ~overrun /\ \A j, k \in 1 .. Len(matches) : matches[j] = matches[k] => j = k
    BY <2>1, Zenon DEF SearchOK
  <2>3. Common \cap Kept \subseteq Found
    BY <2>2, NoneIsHidden
  <2>4. /\ SearchReady /\ Expected \in Nat
        /\ \A p \in 1 .. Expected : p - 1 \in 0 .. NServer * 3 - 1 /\ received[p] = ServerMask(p - 1)
    <3>1. cpc \in {"find", "done"}
      OBVIOUS
    <3> QED
      BY <3>1, SearchedMasks
  <2>5. query = Expected /\ \A e : e \in Found <=> \E k \in 1 .. Len(matches) : matches[k] = e
    BY <2>1, FoundAreMatches
  <2>6. ASSUME NEW e \in Found
        PROVE  e \in Common \cap Kept
    <3>1. PICK k \in 1 .. Len(matches) : matches[k] = e
      BY <2>5
    <3>2. PICK p \in 1 .. query : Matched(p) /\ matches[k] = OwnerAt(p)
      <4>1. \A i \in 1 .. Len(matches) : \E p \in 1 .. query : Matched(p) /\ matches[i] = OwnerAt(p)
        BY <2>1, Zenon DEF SearchOK
      <4> QED
        BY <4>1
    <3>3. p - 1 \in 0 .. NServer * 3 - 1 /\ received[p] = ServerMask(p - 1)
      BY <2>4, <2>5
    <3>4. IsMatch(ServerMask(p - 1)) /\ Owner(Hit(ServerMask(p - 1))) = e
      BY <3>1, <3>2, <3>3 DEF Matched, OwnerAt
    <3>5. PICK b \in OccupiedBins : \E l \in 1 .. sNelesinbin[b] :
             /\ p - 1 = Server!Offset(b) + l - 1
             /\ ValueIn(b, l) \in ServerEles
             /\ cTable[b] \in ClientEles
             /\ input.client.eles[cTable[b]] = input.server.eles[ValueIn(b, l)]
             /\ Owner(Hit(ServerMask(p - 1))) = cTable[b]
      BY <2>4, <3>3, <3>4, MatchIsCommon
    <3>6. b \in Bins /\ cTable[b] = e /\ e \in ClientEles
      BY <3>4, <3>5 DEF OccupiedBins
    <3>7. \E d \in ServerEles : input.client.eles[e] = input.server.eles[d]
      BY <3>4, <3>5
    <3> QED
      BY <3>6, <3>7 DEF Common, Kept
  <2>7. \A j, k \in DOMAIN result : j < k => result[j] < result[k]
    <3>1. result = Ascending(matches) /\ matches \in Seq(0 .. NClient - 1)
      BY <2>1, Zenon DEF SearchOK, ClientEles
    <3>2. NClient \in Nat
      BY OTPSIOK
    <3>3. /\ DOMAIN Ascending(matches) = 1 .. Len(matches)
          /\ \A j, k \in 1 .. Len(matches) : j < k => Ascending(matches)[j] < Ascending(matches)[k]
      BY <2>2, <3>1, <3>2, AscendingDistinct
    <3> QED
      BY <3>1, <3>3
  <2> QED
    BY <2>3, <2>6, <2>7
<1> QED
  BY <1>1, Invariance, PTL
================================================================================
