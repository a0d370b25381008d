--------------------------- MODULE SimpleHashingProofs ---------------------------
(***************************************************************************)
(* No write of the server's threads leaves the memory of its bin, for      *)
(* every number of elements, bins and threads and every hash function.     *)
(*                                                                         *)
(* The argument: the bins of a table all have room for maxbinsize values,  *)
(* and hold fewer.  A write adds one value; if this makes the bin full,    *)
(* the table doubles before the next write.  A size that is never zero is  *)
(* what makes doubling help.                                               *)
(***************************************************************************)
EXTENDS SimpleHashing, TaskPartitionProofs, FiniteSetTheorems

(* The bins of the table of thread t have room for size values and hold fewer. *)
RoomOf(t) ==
  \A b \in Bins : room[t][b] = maxbinsize[t] /\ Len(bins[t][b]) < maxbinsize[t]

(* Threads do not read before the first element. *)
Started == \A t \in Tasks : StartPos(t, NEles, ntasks) <= next[t]

(* The inductive invariant. *)
IInv ==
  /\ TypeOK
  /\ Started
  /\ \A t \in Tasks : RoomOf(t)

(* A table starts with room for at least one value. *)
LEMMA InitialSizePositive ==
  ASSUME NEW n \in Nat
  PROVE  InitialSize(n) \in Nat \ {0}
<1>1. CeilDivide(n, NBins) \in Nat
  BY ConstantsOK, CeilDivideBounds
<1>2. ceil_log2(n) \in Nat
  BY LogTypes
<1> QED
  BY <1>1, <1>2 DEF InitialSize, Greater

(* The pointer of a running thread is at an element of the set. *)
LEMMA ElementRead ==
  ASSUME IInv, NEW t \in Tasks, next[t] < EndPos(t, NEles, ntasks)
  PROVE  EleAt(t, next[t]) \in Eles
<1>1. /\ NEles \in Nat /\ ntasks \in Nat \ {0} /\ t \in Nat /\ next[t] \in Nat
  BY ConstantsOK DEF IInv, TypeOK, Tasks
<1>2. StartPos(t, NEles, ntasks) \in Nat /\ CeilDivide(NEles, ntasks) \in Nat
  BY <1>1, StartPosNext, CeilDivideBounds
<1>3. EndPos(t, NEles, ntasks) \in Int /\ EndPos(t, NEles, ntasks) <= NEles
  BY <1>1, <1>2 DEF EndPos, Lesser
<1> QED
  BY <1>1, <1>2, <1>3 DEF IInv, Started, EleAt, Eles

(* The invariant holds when the tables have been allocated. *)
LEMMA InitIInv == Init => IInv
<1> SUFFICES ASSUME Init PROVE IInv
  OBVIOUS
<1>1. ntasks \in Nat \ {0} /\ NEles \in Nat /\ NBins \in Nat \ {0}
  BY ConstantsOK DEF Init
<1>2. \A t \in Tasks : StartPos(t, NEles, ntasks) \in Nat
  <2> SUFFICES ASSUME NEW t \in Tasks PROVE StartPos(t, NEles, ntasks) \in Nat
    OBVIOUS
  <2>1. t \in Nat
    BY <1>1 DEF Tasks
  <2> QED
    BY <1>1, <2>1, StartPosNext
<1> DEFINE size == InitialSize(CeilDivide(NEles, ntasks))
<1>3. size \in Nat \ {0}
  <2>1. CeilDivide(NEles, ntasks) \in Nat
    BY <1>1, CeilDivideBounds
  <2> QED
    BY <2>1, InitialSizePositive
<1>4. maxbinsize = [t \in Tasks |-> size]
  BY DEF Init
<1> HIDE DEF size
<1>5. room = [t \in Tasks |-> [b \in Bins |-> size]]
  BY <1>4 DEF Init
<1>6. TypeOK
  <2>1. next \in [Tasks -> Nat]
    BY <1>2 DEF Init
  <2>2. hf \in [Tasks -> HashIdx]
    BY DEF Init, HashIdx, NUM_HASH_FUNCTIONS
  <2>3. bins \in [Tasks -> [Bins -> Seq(Value)]]
    BY DEF Init
  <2>4. at \in (0 .. NBins) \X Tasks
    BY <1>1 DEF Init, Tasks
  <2>5. nelesinbin \in [Bins -> Nat] /\ res_bins \in Seq(Value)
    BY DEF Init
  <2> QED
    BY <1>3, <1>4, <1>5, <2>1, <2>2, <2>3, <2>4, <2>5 DEF Init, TypeOK
<1>7. Started
  BY <1>2 DEF Init, Started
<1>8. \A t \in Tasks : RoomOf(t)
  BY <1>3, <1>4, <1>5 DEF Init, RoomOf
<1> QED
  BY <1>6, <1>7, <1>8 DEF IInv

(* A write of a thread, and the growth of the table that it may bring about. *)
LEMMA InsertStep ==
  ASSUME IInv, NEW t \in Tasks, InsertValue(t)
  PROVE  IInv'
<1> DEFINE e == EleAt(t, next[t])
           b == hash[e][hf[t]]
           m == maxbinsize[t]
           full == IsFull(Len(bins[t][b]) + 1, m)
           v == ValueOf(e, hf[t])
<1>1. e \in Eles
  BY ElementRead DEF InsertValue
<1> HIDE DEF e
<1>2. b \in Bins /\ v \in Value /\ hf[t] \in 0 .. 2 /\ m \in Nat
  <2>1. hash[e] \in [HashIdx -> Bins] /\ hf[t] \in HashIdx /\ m \in Nat
    BY <1>1, ConstantsOK DEF IInv, TypeOK
  <2>2. hf[t] \in 0 .. 2
    BY <2>1 DEF HashIdx, NUM_HASH_FUNCTIONS
  <2>3. v \in {e, Dummy}
    BY DEF ValueOf
  <2> QED
    BY <1>1, <2>1, <2>2, <2>3 DEF Value
<1> DEFINE size == IF full THEN 2 * m ELSE m
           cap == IF full THEN Grown(2 * m) ELSE room[t]
<1>3. /\ bins' = [bins EXCEPT ![t][b] = Append(@, v)]
      /\ maxbinsize' = [maxbinsize EXCEPT ![t] = size]
      /\ room' = [room EXCEPT ![t] = cap]
      /\ hf' = [hf EXCEPT ![t] = NextHf(hf[t])]
      /\ next' = [next EXCEPT ![t] = IF hf[t] = NUM_HASH_FUNCTIONS - 1 THEN @ + 1 ELSE @]
      /\ UNCHANGED <<ntasks, hash, phase, at, nelesinbin, res_bins>>
  BY DEF InsertValue, e, mergeVars
<1> HIDE DEF b, v
<1>4. /\ bins[t][b] \in Seq(Value) /\ Len(bins[t][b]) \in Nat /\ Len(bins[t][b]) < m
      /\ Append(bins[t][b], v) \in Seq(Value)
      /\ Len(Append(bins[t][b], v)) = Len(bins[t][b]) + 1
  BY <1>2 DEF IInv, TypeOK, RoomOf
<1>5. /\ bins' \in [Tasks -> [Bins -> Seq(Value)]]
      /\ \A u \in Tasks, c \in Bins :
           bins'[u][c] = IF u = t /\ c = b THEN Append(bins[t][b], v) ELSE bins[u][c]
  BY <1>2, <1>3, <1>4 DEF IInv, TypeOK
<1>6. size \in Nat /\ m <= size /\ Len(bins[t][b]) + 1 < size
  BY <1>2, <1>4 DEF IsFull
<1>7. cap \in [Bins -> Nat] /\ \A c \in Bins : cap[c] = size
  <2>1. CASE full
    BY <1>2, <2>1 DEF Grown
  <2>2. CASE ~full
    BY <2>2 DEF IInv, TypeOK, RoomOf
  <2> QED
    BY <2>1, <2>2
<1> HIDE DEF size, cap, full
<1>8. /\ maxbinsize' \in [Tasks -> Nat] /\ room' \in [Tasks -> [Bins -> Nat]]
      /\ \A u \in Tasks : maxbinsize'[u] = IF u = t THEN size ELSE maxbinsize[u]
      /\ \A u \in Tasks : room'[u] = IF u = t THEN cap ELSE room[u]
  BY <1>3, <1>6, <1>7 DEF IInv, TypeOK
<1>9. \A u \in Tasks : RoomOf(u)'
  <2> SUFFICES ASSUME NEW u \in Tasks, NEW c \in Bins
               PROVE  room'[u][c] = maxbinsize'[u] /\ Len(bins'[u][c]) < maxbinsize'[u]
    BY DEF RoomOf
  <2>1. /\ room[u][c] = maxbinsize[u] /\ Len(bins[u][c]) < maxbinsize[u]
        /\ Len(bins[u][c]) \in Nat /\ maxbinsize[u] \in Nat
    BY DEF IInv, TypeOK, RoomOf
  <2>2. CASE u = t
    <3>1. maxbinsize'[u] = size /\ room'[u][c] = size
      BY <1>7, <1>8, <2>2
    <3>2. CASE c = b
      BY <1>4, <1>5, <1>6, <2>2, <3>1, <3>2
    <3>3. CASE c # b
      BY <1>2, <1>5, <1>6, <2>1, <2>2, <3>1, <3>3
    <3> QED
      BY <3>2, <3>3
  <2>3. CASE u # t
    BY <1>5, <1>8, <2>1, <2>3
  <2> QED
    BY <2>2, <2>3
<1>10. /\ hf' \in [Tasks -> HashIdx]
       /\ next' \in [Tasks -> Nat]
       /\ \A u \in Tasks : next[u] <= next'[u]
  <2>1. NextHf(hf[t]) \in HashIdx
    BY <1>2 DEF NextHf, HashIdx, NUM_HASH_FUNCTIONS
  <2>2. next[t] \in Nat /\ next[t] + 1 \in Nat
    BY DEF IInv, TypeOK
  <2> QED
    BY <1>3, <2>1, <2>2 DEF IInv, TypeOK
<1>11. TypeOK' /\ Started'
  <2>1. Tasks' = Tasks
    BY <1>3 DEF Tasks
  <2>2. TypeOK'
    BY <1>3, <1>5, <1>8, <1>10, <2>1 DEF IInv, TypeOK
  <2>3. \A u \in Tasks : StartPos(u, NEles, ntasks) \in Nat
    <3> SUFFICES ASSUME NEW u \in Tasks PROVE StartPos(u, NEles, ntasks) \in Nat
      OBVIOUS
    <3>1. NEles \in Nat /\ ntasks \in Nat \ {0} /\ u \in Nat
      BY ConstantsOK DEF IInv, TypeOK, Tasks
    <3> QED
      BY <3>1, StartPosNext
  <2>4. Started'
    BY <1>3, <1>10, <2>1, <2>3 DEF IInv, TypeOK, Started
  <2> QED
    BY <2>2, <2>4
<1> QED
  BY <1>3, <1>9, <1>11 DEF IInv, Tasks

(* The copy of a bin: the tables are at rest. *)
LEMMA CopyStep ==
  ASSUME IInv, CopyBin
  PROVE  IInv'
<1> DEFINE i == at[1]
           j == at[2]
<1>1. i \in Bins /\ j \in Tasks /\ ntasks \in Nat \ {0} /\ NBins \in Nat
  BY ConstantsOK DEF IInv, TypeOK, CopyBin, Bins
<1>2. /\ nelesinbin' = [nelesinbin EXCEPT ![i] = Counted(@, Len(bins[j][i]))]
      /\ res_bins' = res_bins \o bins[j][i]
      /\ at' = IF j = ntasks - 1 THEN <<i + 1, 0>> ELSE <<i, j + 1>>
      /\ UNCHANGED <<ntasks, hash, phase, next, hf, bins, room, maxbinsize>>
  BY DEF CopyBin, tableVars
<1> HIDE DEF i, j
<1>3. bins[j][i] \in Seq(Value) /\ Len(bins[j][i]) \in Nat
  BY <1>1 DEF IInv, TypeOK
<1>4. nelesinbin' \in [Bins -> Nat] /\ res_bins' \in Seq(Value)
  BY <1>1, <1>2, <1>3, SMTT(30) DEF IInv, TypeOK, Counted
<1>5. at' \in (0 .. NBins) \X Tasks
  BY <1>1, <1>2 DEF Bins, Tasks
<1>6. Tasks' = Tasks
  BY <1>2 DEF Tasks
<1>7. TypeOK'
  BY <1>2, <1>4, <1>5, <1>6 DEF IInv, TypeOK
<1> QED
  BY <1>2, <1>6, <1>7 DEF IInv, Started, RoomOf

(* Steps that write neither the tables nor the result. *)
LEMMA ControlStep ==
  ASSUME IInv, JoinTasks \/ Return \/ UNCHANGED vars
  PROVE  IInv'
<1>1. /\ UNCHANGED <<ntasks, hash, next, hf, bins, room, maxbinsize, at,
                     nelesinbin, res_bins>>
      /\ phase' \in {"generate", "merge", "done"}
  BY DEF IInv, TypeOK, JoinTasks, Return, vars, tableVars, mergeVars
<1>2. Tasks' = Tasks
  BY <1>1 DEF Tasks
<1> QED
  BY <1>1, <1>2 DEF IInv, TypeOK, Started, RoomOf

(* IInv holds in every reachable state. *)
THEOREM Invariance == Spec => []IInv
<1>1. Init => IInv
  BY InitIInv
<1>2. IInv /\ [Next]_vars => IInv'
  BY InsertStep, CopyStep, ControlStep DEF Next, Returned
<1> QED
  BY <1>1, <1>2, PTL DEF Spec

(* Every variable of the call keeps its type: no loop variable leaves its range,
   and what is in the bins and in the result are values of elements or dummies. *)
THEOREM TypeCorrect == Spec => []TypeOK
<1>1. IInv => TypeOK
  BY DEF IInv
<1> QED
  BY <1>1, Invariance, PTL

(* No thread ever writes behind the memory of a bin. *)
THEOREM WritesStayInside == Spec => []BinsFit
<1>1. IInv => BinsFit
  BY DEF IInv, RoomOf, BinsFit
<1> QED
  BY <1>1, Invariance, PTL

(***************************************************************************)
(* The contents of the tables and of the result.  IInv above is the first  *)
(* layer; RInv, on top of it, relates the three: which rounds are over,    *)
(* what they have put into the tables, and what of that is copied.         *)
(***************************************************************************)

(* Thread t has called insert_element's round k for element e. *)
Passed(t, e, k) ==
  \/ e < EleAt(t, next[t])
  \/ e = EleAt(t, next[t]) /\ k < hf[t]

(* The values of the table of thread t: an element is in a bin if and only if one of
   the rounds that are over has that address, and it is there once. *)
TableOf(t) ==
  \A b \in Bins :
    /\ \A e \in Eles :
         (\E l \in 1 .. Len(bins[t][b]) : bins[t][b][l] = e)
           <=> (\E k \in HashIdx : hash[e][k] = b /\ Passed(t, e, k))
    /\ \A l, m \in 1 .. Len(bins[t][b]) :
         bins[t][b][l] = bins[t][b][m] /\ bins[t][b][l] # Dummy => l = m

(* The values that are in the tables, by their places, and the rounds that are over. *)
Cells ==
  {c \in Tasks \X Bins \X Nat : c[3] \in 1 .. Len(bins[c[1]][c[2]])}

Over(t, i, k) ==
  /\ i \in Chunk(t, NEles, ntasks)
  /\ \/ i < next[t]
     \/ i = next[t] /\ k < hf[t]

Rounds == {r \in Eles \X HashIdx : \E t \in Tasks : Over(t, r[1], r[2])}

(* The number of tables whose bin b the merge has copied. *)
Merged(b) == IF b < at[1] THEN ntasks ELSE IF b = at[1] THEN at[2] ELSE 0

Copied == {c \in Cells : c[1] < Merged(c[2])}

(* Every round has written one value, and the merge has written those it copied. *)
Counts ==
  /\ IsFiniteSet(Cells) /\ IsFiniteSet(Rounds)
  /\ Cardinality(Cells) = Cardinality(Rounds)
  /\ Len(res_bins) = Cardinality(Copied)

(* What a phase leaves behind. *)
PhaseOK ==
  /\ phase = "generate" => at = <<0, 0>>
  /\ phase # "generate" => \A t \in Tasks : next[t] >= EndPos(t, NEles, ntasks)
  /\ phase = "done" => at[1] = NBins
  /\ at[1] = NBins => at[2] = 0

(* The bins of the result lie one behind the other. *)
Layout ==
  /\ \A b \in Bins : at[1] < b => nelesinbin[b] = 0
  /\ at[1] \in Bins => Offset(at[1]) + nelesinbin[at[1]] = Len(res_bins)
  /\ at[1] = NBins => Offset(NBins) = Len(res_bins)
  /\ \A b \in Bins : b <= at[1] => Offset(b) + nelesinbin[b] <= Len(res_bins)

(* The places of element e in bin b of the result. *)
Places(b, e) == {m \in 1 .. nelesinbin[b] : res_bins[Offset(b) + m] = e}

(* Bin b of the result is made of the bins b of the tables that are copied, each of
   which has element e once at most. *)
BinMerged(b) ==
  /\ \A k \in 1 .. nelesinbin[b] : \E t \in Tasks :
       /\ t < Merged(b)
       /\ \E l \in 1 .. Len(bins[t][b]) : res_bins[Offset(b) + k] = bins[t][b][l]
  /\ \A t \in Tasks : t < Merged(b) =>
       \A l \in 1 .. Len(bins[t][b]) : \E k \in 1 .. nelesinbin[b] :
         res_bins[Offset(b) + k] = bins[t][b][l]
  /\ \A e \in Eles : Cardinality(Places(b, e)) <= Merged(b)

RInv ==
  /\ \A t \in Tasks : TableOf(t)
  /\ Counts
  /\ PhaseOK
  /\ Layout
  /\ \A b \in Bins : BinMerged(b)

(* A table's variables as numbers. *)
LEMMA Ranges ==
  ASSUME IInv, NEW t \in Tasks
  PROVE  /\ NEles \in Nat \ {0} /\ NBins \in Nat \ {0} /\ ntasks \in Nat \ {0}
         /\ t \in Nat /\ t < ntasks
         /\ next[t] \in Nat /\ hf[t] \in HashIdx /\ hf[t] \in 0 .. 2
         /\ StartPos(t, NEles, ntasks) \in Nat /\ StartPos(t, NEles, ntasks) <= next[t]
         /\ EndPos(t, NEles, ntasks) \in Int /\ EndPos(t, NEles, ntasks) <= NEles
         /\ \A b \in Bins : bins[t][b] \in Seq(Value) /\ Len(bins[t][b]) \in Nat
<1>1. /\ NEles \in Nat \ {0} /\ NBins \in Nat \ {0} /\ ntasks \in Nat \ {0}
      /\ t \in Nat /\ t < ntasks /\ next[t] \in Nat /\ hf[t] \in HashIdx
  BY ConstantsOK DEF IInv, TypeOK, Tasks
<1>2. StartPos(t, NEles, ntasks) \in Nat /\ CeilDivide(NEles, ntasks) \in Nat
  BY <1>1, StartPosNext, CeilDivideBounds
<1>3. EndPos(t, NEles, ntasks) \in Int /\ EndPos(t, NEles, ntasks) <= NEles
  BY <1>1, <1>2 DEF EndPos, Lesser
<1>4. hf[t] \in 0 .. 2
  BY <1>1 DEF HashIdx, NUM_HASH_FUNCTIONS
<1>5. \A b \in Bins : bins[t][b] \in Seq(Value) /\ Len(bins[t][b]) \in Nat
  <2> SUFFICES ASSUME NEW b \in Bins PROVE bins[t][b] \in Seq(Value)
    OBVIOUS
  <2> QED
    BY DEF IInv, TypeOK
<1> QED
  BY <1>1, <1>2, <1>3, <1>4, <1>5 DEF IInv, Started

(* What a round of insert_element writes and where the thread goes on. *)
LEMMA RoundFacts ==
  ASSUME IInv, NEW t \in Tasks, InsertValue(t),
         NEW e, e = EleAt(t, next[t]), NEW b, b = hash[e][hf[t]]
  PROVE  /\ e \in Eles /\ b \in Bins
         /\ bins'[t] = [bins[t] EXCEPT ![b] = Append(bins[t][b], ValueOf(e, hf[t]))]
         /\ \A u \in Tasks : u # t => bins'[u] = bins[u] /\ next'[u] = next[u] /\ hf'[u] = hf[u]
         /\ \/ hf[t] = 2 /\ next'[t] = next[t] + 1 /\ hf'[t] = 0
            \/ hf[t] < 2 /\ next'[t] = next[t] /\ hf'[t] = hf[t] + 1
         /\ phase = "generate" /\ next[t] < EndPos(t, NEles, ntasks)
         /\ UNCHANGED <<ntasks, hash, phase, at, nelesinbin, res_bins>>
<1>1. e \in Eles
  BY ElementRead DEF InsertValue
<1>2. hf[t] \in 0 .. 2 /\ hf[t] \in HashIdx
  BY Ranges
<1>3. b \in Bins
  BY <1>1, <1>2, ConstantsOK DEF IInv, TypeOK
<1>4. bins' = [bins EXCEPT ![t][b] = Append(@, ValueOf(e, hf[t]))]
  BY DEF InsertValue
<1>5. bins \in [Tasks -> [Bins -> Seq(Value)]] /\ next \in [Tasks -> Nat] /\ hf \in [Tasks -> HashIdx]
  BY DEF IInv, TypeOK
<1>6. /\ hf' = [hf EXCEPT ![t] = NextHf(hf[t])]
      /\ next' = [next EXCEPT ![t] = IF hf[t] = 2 THEN next[t] + 1 ELSE next[t]]
  BY DEF InsertValue, NUM_HASH_FUNCTIONS
<1>7. NextHf(hf[t]) = IF hf[t] = 2 THEN 0 ELSE hf[t] + 1
  BY DEF NextHf, NUM_HASH_FUNCTIONS
<1>8. bins'[t] = [bins[t] EXCEPT ![b] = Append(bins[t][b], ValueOf(e, hf[t]))]
  BY <1>3, <1>4, <1>5
<1>9. \A u \in Tasks : u # t => bins'[u] = bins[u] /\ next'[u] = next[u] /\ hf'[u] = hf[u]
  BY <1>4, <1>5, <1>6
<1>10. \/ hf[t] = 2 /\ next'[t] = next[t] + 1 /\ hf'[t] = 0
       \/ hf[t] < 2 /\ next'[t] = next[t] /\ hf'[t] = hf[t] + 1
  BY <1>2, <1>5, <1>6, <1>7
<1>11. /\ phase = "generate" /\ next[t] < EndPos(t, NEles, ntasks)
       /\ UNCHANGED <<ntasks, hash, phase, at, nelesinbin, res_bins>>
  BY DEF InsertValue, mergeVars
<1> QED
  BY <1>1, <1>3, <1>8, <1>9, <1>10, <1>11

(* One more value at the end of a sequence. *)
LEMMA Appended ==
  ASSUME NEW S, NEW s \in Seq(S), NEW v
  PROVE  /\ Len(Append(s, v)) = Len(s) + 1
         /\ \A l \in 1 .. Len(s) : Append(s, v)[l] = s[l]
         /\ Append(s, v)[Len(s) + 1] = v
         /\ Len(s) \in Nat
OBVIOUS

(* The table of the thread that made a round. *)
LEMMA TableStep ==
  ASSUME IInv, NEW t \in Tasks, InsertValue(t), TableOf(t)
  PROVE  TableOf(t)'
<1> DEFINE e == EleAt(t, next[t])
           k == hf[t]
           b == hash[e][k]
           v == ValueOf(e, k)
<1>1. /\ e \in Eles /\ b \in Bins /\ k \in 0 .. 2 /\ k \in HashIdx
      /\ bins'[t] = [bins[t] EXCEPT ![b] = Append(bins[t][b], v)]
      /\ \/ k = 2 /\ next'[t] = next[t] + 1 /\ hf'[t] = 0
         \/ k < 2 /\ next'[t] = next[t] /\ hf'[t] = k + 1
      /\ UNCHANGED <<ntasks, hash>>
  BY Ranges, RoundFacts
<1>2. /\ next[t] \in Nat /\ StartPos(t, NEles, ntasks) \in Nat
      /\ EleAt(t, next[t]) = next[t] - StartPos(t, NEles, ntasks)
      /\ EleAt(t, next[t])' = next'[t] - StartPos(t, NEles, ntasks)
      /\ e \in Nat /\ Eles \subseteq Nat
  BY Ranges, <1>1 DEF EleAt, Eles
<1>3. v \in {e, Dummy} /\ (v = Dummy <=> \E j \in 0 .. k - 1 : hash[e][j] = b)
      /\ e # Dummy /\ Dummy \notin Eles
  <2>1. Dummy \notin Nat
    BY ConstantsOK
  <2> QED
    BY <1>2, <2>1 DEF ValueOf
<1>4. ASSUME NEW f \in Eles, NEW j \in HashIdx
      PROVE  Passed(t, f, j)' <=> Passed(t, f, j) \/ (f = e /\ j = k)
  <2>1. f \in Nat /\ j \in 0 .. 2
    BY <1>2 DEF HashIdx, NUM_HASH_FUNCTIONS
  <2> HIDE DEF b, v
  <2> QED
    BY <1>1, <1>2, <2>1 DEF Passed
<1>5. /\ bins[t] \in [Bins -> Seq(Value)]
      /\ \A c \in Bins : bins[t][c] \in Seq(Value) /\ Len(bins[t][c]) \in Nat
  BY Ranges DEF IInv, TypeOK
<1>6. /\ \A c \in Bins : c # b => bins'[t][c] = bins[t][c]
      /\ bins'[t][b] = Append(bins[t][b], v)
  BY <1>1, <1>5
<1>7. /\ Len(bins'[t][b]) = Len(bins[t][b]) + 1
      /\ \A l \in 1 .. Len(bins[t][b]) : bins'[t][b][l] = bins[t][b][l]
      /\ bins'[t][b][Len(bins[t][b]) + 1] = v
      /\ Len(bins[t][b]) \in Nat
  <2> DEFINE s == bins[t][b]
  <2>1. s \in Seq(Value) /\ bins'[t][b] = Append(s, v)
    BY <1>1, <1>5, <1>6
  <2> HIDE DEF b, v
  <2>2. /\ Len(Append(s, v)) = Len(s) + 1
        /\ \A l \in 1 .. Len(s) : Append(s, v)[l] = s[l]
        /\ Append(s, v)[Len(s) + 1] = v
        /\ Len(s) \in Nat
    <3> HIDE DEF s
    <3> QED
      BY <2>1, Appended
  <2> QED
    BY <2>1, <2>2
<1>8. /\ \A c \in Bins : \A f \in Eles :
           (\E l \in 1 .. Len(bins[t][c]) : bins[t][c][l] = f)
             <=> (\E j \in HashIdx : hash[f][j] = c /\ Passed(t, f, j))
      /\ \A c \in Bins : \A l, m \in 1 .. Len(bins[t][c]) :
           bins[t][c][l] = bins[t][c][m] /\ bins[t][c][l] # Dummy => l = m
  BY DEF TableOf
<1>9. \A j \in 0 .. k - 1 : j \in HashIdx /\ Passed(t, e, j)
  BY <1>1 DEF Passed, HashIdx, NUM_HASH_FUNCTIONS
<1>10. \A j \in HashIdx : Passed(t, e, j) => j \in 0 .. k - 1
  BY <1>1, <1>2 DEF Passed, HashIdx, NUM_HASH_FUNCTIONS
<1> HIDE DEF e, k, b, v
<1>11. ASSUME NEW c \in Bins, NEW f \in Eles
       PROVE  (\E l \in 1 .. Len(bins'[t][c]) : bins'[t][c][l] = f)
                <=> (\E j \in HashIdx : hash'[f][j] = c /\ Passed(t, f, j)')
  <2>0. \A j \in HashIdx : hash'[f][j] = hash[f][j] /\ (Passed(t, f, j)' <=> Passed(t, f, j) \/ (f = e /\ j = k))
    BY <1>1, <1>4
  <2>00. (\E j \in HashIdx : hash'[f][j] = c /\ Passed(t, f, j)')
          <=> (\E j \in HashIdx : hash[f][j] = c /\ Passed(t, f, j)) \/ (f = e /\ c = b)
    BY <2>0, <1>1 DEF b
  <2>1. CASE c # b
    BY <1>6, <1>8, <2>00, <2>1
  <2>2. CASE c = b /\ f # e
    <3>1. (\E l \in 1 .. Len(bins'[t][b]) : bins'[t][b][l] = f)
            <=> (\E l \in 1 .. Len(bins[t][b]) : bins[t][b][l] = f)
      <4>1. v # f
        BY <1>3, <2>2
      <4>2. \A l \in 1 .. Len(bins[t][b]) + 1 : l \in 1 .. Len(bins[t][b]) \/ l = Len(bins[t][b]) + 1
        BY <1>7
      <4>3. 1 .. Len(bins[t][b]) \subseteq 1 .. Len(bins[t][b]) + 1
        BY <1>7
      <4> QED
        BY <1>7, <4>1, <4>2, <4>3
    <3> QED
      BY <1>8, <2>00, <2>2, <3>1
  <2>3. CASE c = b /\ f = e /\ v = e
    BY <1>7, <2>00, <2>3
  <2>4. CASE c = b /\ f = e /\ v = Dummy
    <3>1. PICK j \in 0 .. k - 1 : hash[e][j] = b
      BY <1>3, <2>4
    <3>2. \E l \in 1 .. Len(bins[t][b]) : bins[t][b][l] = e
      BY <1>1, <1>8, <1>9, <3>1
    <3>3. \E l \in 1 .. Len(bins'[t][b]) : bins'[t][b][l] = e
      <4>1. 1 .. Len(bins[t][b]) \subseteq 1 .. Len(bins'[t][b])
        BY <1>7
      <4> QED
        BY <1>7, <3>2, <4>1
    <3> QED
      BY <2>00, <2>4, <3>3
  <2> QED
    BY <1>3, <2>1, <2>2, <2>3, <2>4
<1>12. ASSUME NEW c \in Bins, NEW l \in 1 .. Len(bins'[t][c]), NEW m \in 1 .. Len(bins'[t][c]),
              bins'[t][c][l] = bins'[t][c][m], bins'[t][c][l] # Dummy
       PROVE  l = m
  <2>1. CASE c # b
    BY <1>6, <1>8, <1>12, <2>1
  <2>2. CASE c = b
    <3> DEFINE n == Len(bins[t][b])
    <3>1. n \in Nat /\ l \in 1 .. n + 1 /\ m \in 1 .. n + 1
      BY <1>7, <2>2
    <3>2. ASSUME v # Dummy, NEW i \in 1 .. n, bins[t][b][i] = v
          PROVE  FALSE
      <4>1. v = e
        BY <1>3, <3>2
      <4>2. PICK j \in HashIdx : hash[e][j] = b /\ Passed(t, e, j)
        <5>1. \E q \in 1 .. Len(bins[t][b]) : bins[t][b][q] = e
          BY <3>2, <4>1
        <5> QED
          BY <1>1, <1>8, <5>1
      <4> QED
        BY <1>3, <1>10, <3>2, <4>2
    <3>3. CASE l \in 1 .. n /\ m \in 1 .. n
      BY <1>1, <1>7, <1>8, <1>12, <2>2, <3>3
    <3>4. CASE l = n + 1 /\ m \in 1 .. n
      BY <1>7, <1>12, <2>2, <3>2, <3>4
    <3>5. CASE l \in 1 .. n /\ m = n + 1
      BY <1>7, <1>12, <2>2, <3>2, <3>5
    <3> QED
      BY <3>1, <3>3, <3>4, <3>5
  <2> QED
    BY <2>1, <2>2
<1> QED
  BY <1>11, <1>12 DEF TableOf

(* The chunk of a thread, as its loop goes through it. *)
LEMMA InChunk ==
  ASSUME IInv, NEW t \in Tasks, NEW i \in Nat
  PROVE  i \in Chunk(t, NEles, ntasks)
           <=> StartPos(t, NEles, ntasks) <= i /\ i < EndPos(t, NEles, ntasks)
BY Ranges DEF Chunk

(* A round is over once: the number of rounds that are over grows by one. *)
LEMMA RoundsStep ==
  ASSUME IInv, NEW t \in Tasks, InsertValue(t), IsFiniteSet(Rounds)
  PROVE  IsFiniteSet(Rounds') /\ Cardinality(Rounds') = Cardinality(Rounds) + 1
<1> DEFINE i == next[t]
           k == hf[t]
           new == <<i, k>>
<1>1. /\ NEles \in Nat /\ ntasks \in Nat \ {0} /\ t \in Nat /\ i \in Nat /\ k \in 0 .. 2
      /\ k \in HashIdx
      /\ StartPos(t, NEles, ntasks) \in Nat /\ StartPos(t, NEles, ntasks) <= i
      /\ EndPos(t, NEles, ntasks) \in Int /\ EndPos(t, NEles, ntasks) <= NEles
  BY Ranges
<1>2. /\ \A u \in Tasks : u # t => next'[u] = next[u] /\ hf'[u] = hf[u]
      /\ \/ k = 2 /\ next'[t] = i + 1 /\ hf'[t] = 0
         \/ k < 2 /\ next'[t] = i /\ hf'[t] = k + 1
      /\ i < EndPos(t, NEles, ntasks)
      /\ ntasks' = ntasks
  BY RoundFacts
<1>3. i \in Chunk(t, NEles, ntasks) /\ i \in Eles
  BY <1>1, <1>2, InChunk DEF Eles
<1>4. new \notin Rounds
  <2> SUFFICES ASSUME NEW u \in Tasks, Over(u, i, k) PROVE FALSE
    BY DEF Rounds
  <2>1. i \in Chunk(u, NEles, ntasks)
    BY DEF Over
  <2>2. u \in Nat /\ i \in Int
    BY <1>1 DEF Tasks
  <2>3. u = t
    BY <1>1, <1>3, <2>1, <2>2, ChunksDisjoint
  <2> QED
    BY <1>1, <2>3 DEF Over
<1>5. Rounds' = Rounds \cup {new}
  <2>1. Tasks' = Tasks
    BY <1>2 DEF Tasks
  <2>2. ASSUME NEW u \in Tasks, NEW j \in Eles, NEW m \in HashIdx
        PROVE  Over(u, j, m)' <=> Over(u, j, m) \/ (u = t /\ j = i /\ m = k)
    <3>1. j \in Nat /\ m \in 0 .. 2
      BY DEF Eles, HashIdx, NUM_HASH_FUNCTIONS
    <3>2. CASE u # t
      BY <1>2, <3>2 DEF Over
    <3>3. CASE u = t
      <4>1. Over(t, j, m) <=> j \in Chunk(t, NEles, ntasks) /\ (j < i \/ (j = i /\ m < k))
        BY DEF Over
      <4>2. Over(t, j, m)' <=> j \in Chunk(t, NEles, ntasks)
                               /\ (j < next'[t] \/ (j = next'[t] /\ m < hf'[t]))
        BY <1>2 DEF Over
      <4> HIDE DEF i, k
      <4> QED
        BY <1>1, <1>2, <1>3, <3>1, <3>3, <4>1, <4>2
    <3> QED
      BY <3>2, <3>3
  <2>3. ASSUME NEW r \in Eles \X HashIdx
        PROVE  r \in Rounds' <=> r \in Rounds \/ r = new
    <3>1. r[1] \in Eles /\ r[2] \in HashIdx /\ r = <<r[1], r[2]>>
      OBVIOUS
    <3>2. r \in Rounds' <=> \E u \in Tasks : Over(u, r[1], r[2])'
      BY <2>1 DEF Rounds
    <3>3. r \in Rounds <=> \E u \in Tasks : Over(u, r[1], r[2])
      BY DEF Rounds
    <3>4. r = new <=> r[1] = i /\ r[2] = k
      BY <3>1
    <3> HIDE DEF new, i, k
    <3> QED
      BY <2>2, <3>1, <3>2, <3>3, <3>4
  <2>4. new \in Eles \X HashIdx
    BY <1>1, <1>3
  <2>5. Rounds \subseteq Eles \X HashIdx /\ Rounds' \subseteq Eles \X HashIdx
    BY DEF Rounds
  <2> HIDE DEF new
  <2> QED
    BY <2>3, <2>4, <2>5
<1> HIDE DEF new
<1> QED
  BY <1>4, <1>5, FS_AddElement

(* A round writes one value. *)
LEMMA CellsStep ==
  ASSUME IInv, NEW t \in Tasks, InsertValue(t), IsFiniteSet(Cells)
  PROVE  IsFiniteSet(Cells') /\ Cardinality(Cells') = Cardinality(Cells) + 1
<1> SUFFICES ASSUME NEW e, e = EleAt(t, next[t]), NEW b, b = hash[e][hf[t]]
             PROVE  IsFiniteSet(Cells') /\ Cardinality(Cells') = Cardinality(Cells) + 1
  OBVIOUS
<1> DEFINE v == ValueOf(e, hf[t])
           n == Len(bins[t][b])
           new == <<t, b, n + 1>>
<1>1. /\ b \in Bins
      /\ bins'[t] = [bins[t] EXCEPT ![b] = Append(bins[t][b], v)]
      /\ \A u \in Tasks : u # t => bins'[u] = bins[u]
      /\ ntasks' = ntasks
  BY RoundFacts
<1>2. /\ \A u \in Tasks, c \in Bins : bins[u][c] \in Seq(Value) /\ Len(bins[u][c]) \in Nat
      /\ bins[t] \in [Bins -> Seq(Value)]
  BY Ranges DEF IInv, TypeOK
<1> HIDE DEF v
<1>3. /\ \A c \in Bins : c # b => bins'[t][c] = bins[t][c]
      /\ bins'[t][b] = Append(bins[t][b], v)
  BY <1>1, <1>2
<1>4. n \in Nat /\ Len(bins'[t][b]) = n + 1
  <2> DEFINE s == bins[t][b]
  <2>1. s \in Seq(Value) /\ bins'[t][b] = Append(s, v)
    BY <1>1, <1>2, <1>3
  <2>2. Len(Append(s, v)) = Len(s) + 1 /\ Len(s) \in Nat
    <3> HIDE DEF s
    <3> QED
      BY <2>1, Appended
  <2> QED
    BY <2>1, <2>2
<1>5. Tasks' = Tasks
  BY <1>1 DEF Tasks
<1>6. ASSUME NEW c \in Tasks \X Bins \X Nat
      PROVE  c \in Cells' <=> c \in Cells \/ c = new
  <2>1. c[1] \in Tasks /\ c[2] \in Bins /\ c[3] \in Nat /\ c = <<c[1], c[2], c[3]>>
    OBVIOUS
  <2>2. c \in Cells' <=> c[3] \in 1 .. Len(bins'[c[1]][c[2]])
    BY <1>5 DEF Cells
  <2>3. c \in Cells <=> c[3] \in 1 .. Len(bins[c[1]][c[2]])
    BY DEF Cells
  <2>4. c = new <=> c[1] = t /\ c[2] = b /\ c[3] = n + 1
    BY <2>1
  <2> HIDE DEF new
  <2>5. CASE c[1] = t /\ c[2] = b
    <3>1. c \in Cells' <=> c[3] \in 1 .. n + 1
      BY <1>4, <2>2, <2>5
    <3>2. c \in Cells <=> c[3] \in 1 .. n
      BY <2>3, <2>5
    <3>3. c = new <=> c[3] = n + 1
      BY <2>4, <2>5
    <3> HIDE DEF n
    <3> QED
      BY <1>4, <2>1, <3>1, <3>2, <3>3
  <2>6. CASE ~(c[1] = t /\ c[2] = b)
    BY <1>1, <1>3, <2>1, <2>2, <2>3, <2>4, <2>6
  <2> QED
    BY <2>5, <2>6
<1>7. new \in Tasks \X Bins \X Nat /\ new \notin Cells
  <2> HIDE DEF n
  <2>1. n + 1 \in Nat /\ n + 1 \notin 1 .. n
    BY <1>4
  <2>2. new \in Tasks \X Bins \X Nat /\ new[1] = t /\ new[2] = b /\ new[3] = n + 1
    BY <1>1, <2>1
  <2> HIDE DEF new
  <2>3. new \in Cells => n + 1 \in 1 .. n
    BY <2>2 DEF Cells, n
  <2> QED
    BY <2>1, <2>2, <2>3
<1>8. Cells \subseteq Tasks \X Bins \X Nat /\ Cells' \subseteq Tasks \X Bins \X Nat
  BY <1>5 DEF Cells
<1> HIDE DEF new
<1>9. Cells' = Cells \cup {new}
  BY <1>6, <1>7, <1>8
<1> QED
  BY <1>7, <1>9, FS_AddElement

(* A round of insert_element. *)
LEMMA InsertResult ==
  ASSUME IInv, RInv, NEW t \in Tasks, InsertValue(t)
  PROVE  RInv'
<1>1. /\ \A u \in Tasks : u # t => bins'[u] = bins[u] /\ next'[u] = next[u] /\ hf'[u] = hf[u]
      /\ phase = "generate"
      /\ UNCHANGED <<ntasks, hash, phase, at, nelesinbin, res_bins>>
  BY RoundFacts
<1>2. Tasks' = Tasks
  BY <1>1 DEF Tasks
<1>3. at = <<0, 0>> /\ at[1] = 0 /\ at[2] = 0
  BY <1>1 DEF RInv, PhaseOK
<1>4. (\A u \in Tasks : TableOf(u))'
  <2> SUFFICES ASSUME NEW u \in Tasks PROVE TableOf(u)'
    BY <1>2
  <2>1. CASE u = t
    BY <2>1, TableStep DEF RInv
  <2>2. CASE u # t
    <3>1. bins'[u] = bins[u] /\ next'[u] = next[u] /\ hf'[u] = hf[u] /\ hash' = hash /\ ntasks' = ntasks
      BY <1>1, <2>2
    <3>2. TableOf(u)
      BY DEF RInv
    <3> QED
      BY <3>1, <3>2 DEF TableOf, Passed, EleAt
  <2> QED
    BY <2>1, <2>2
<1>5. \A b \in Bins : Merged(b) = 0
  BY <1>3, ConstantsOK DEF Merged, Bins
<1>6. Merged(0)' = Merged(0) /\ \A b \in Bins : Merged(b)' = 0
  BY <1>1, <1>5 DEF Merged
<1>7. Counts'
  <2>1. Copied = {} /\ Copied' = {}
    <3>1. \A c \in Tasks \X Bins \X Nat : c[1] \in Nat /\ c[2] \in Bins
      BY DEF Tasks
    <3>2. \A c \in Cells : ~(c[1] < Merged(c[2]))
      BY <1>5, <3>1 DEF Cells
    <3>3. \A c \in Cells' : ~(c[1] < Merged(c[2])')
      BY <1>2, <1>6, <3>1 DEF Cells
    <3> QED
      BY <3>2, <3>3 DEF Copied
  <2>2. IsFiniteSet(Cells) /\ IsFiniteSet(Rounds) /\ Cardinality(Cells) = Cardinality(Rounds)
        /\ Len(res_bins) = Cardinality(Copied)
    BY DEF RInv, Counts
  <2>3. /\ IsFiniteSet(Cells') /\ Cardinality(Cells') = Cardinality(Cells) + 1
        /\ IsFiniteSet(Rounds') /\ Cardinality(Rounds') = Cardinality(Rounds) + 1
    BY <2>2, CellsStep, RoundsStep
  <2> QED
    BY <1>1, <2>1, <2>2, <2>3 DEF Counts
<1>8. PhaseOK'
  BY <1>1 DEF RInv, PhaseOK
<1>9. Layout'
  BY <1>1 DEF RInv, Layout, Offset
<1>10. (\A b \in Bins : BinMerged(b))'
  <2> SUFFICES ASSUME NEW b \in Bins PROVE BinMerged(b)'
    OBVIOUS
  <2>1. BinMerged(b) /\ Merged(b) = 0 /\ Merged(b)' = 0
    BY <1>5, <1>6 DEF RInv
  <2>2. Offset(b)' = Offset(b)
    BY <1>1 DEF Offset
  <2>3. \A u \in Tasks : ~(u < 0)
    BY DEF Tasks
  <2>4. \A k \in 1 .. nelesinbin[b] : FALSE
    BY <2>1, <2>3 DEF BinMerged
  <2>5. \A e \in Eles : Cardinality(Places(b, e)) <= 0 /\ Places(b, e)' = Places(b, e)
    BY <1>1, <2>1, <2>2 DEF BinMerged, Places
  <2> QED
    BY <1>1, <1>2, <2>1, <2>3, <2>4, <2>5 DEF BinMerged
<1> QED
  BY <1>4, <1>7, <1>8, <1>9, <1>10 DEF RInv

(* One thing behind another: what was there stays, and the new part follows. *)
LEMMA Joined ==
  ASSUME NEW S, NEW r \in Seq(S), NEW s \in Seq(S)
  PROVE  /\ Len(r) \in Nat /\ Len(s) \in Nat
         /\ Len(r \o s) = Len(r) + Len(s)
         /\ \A p \in 1 .. Len(r) : (r \o s)[p] = r[p]
         /\ \A l \in 1 .. Len(s) : (r \o s)[Len(r) + l] = s[l]
OBVIOUS

(* The places of the first n values of bin b of table t: there are n. *)
Segment(t, b, n) == {<<t, b, l>> : l \in 1 .. n}

(* A segment of n cells has n cells. *)
LEMMA SegmentCount ==
  ASSUME NEW t, NEW b, NEW n \in Nat
  PROVE  IsFiniteSet(Segment(t, b, n)) /\ Cardinality(Segment(t, b, n)) = n
<1> DEFINE P == Segment(t, b, n)
           f == [l \in 1 .. n |-> <<t, b, l>>]
<1>1. f \in Bijection(1 .. n, P)
  <2>1. f \in [1 .. n -> P]
    BY DEF Segment
  <2>2. \A l, m \in 1 .. n : f[l] = f[m] => l = m
    OBVIOUS
  <2>3. \A p \in P : \E l \in 1 .. n : f[l] = p
    BY DEF Segment
  <2> HIDE DEF f, P
  <2> QED
    BY <2>1, <2>2, <2>3 DEF Bijection, Injection, Surjection, IsInjective
<1> HIDE DEF f, P
<1>2. ExistsBijection(1 .. n, P)
  BY <1>1 DEF ExistsBijection
<1>3. IsFiniteSet(1 .. n) /\ Cardinality(1 .. n) = n
  BY FS_Interval
<1>4. IsFiniteSet(P) /\ Cardinality(P) = n
  BY <1>2, <1>3, FS_Bijection
<1> QED
  BY <1>4 DEF P

(* The loop variables of the merge, and what a round of it changes. *)
LEMMA MergeFacts ==
  ASSUME IInv, RInv, CopyBin, NEW i, i = at[1], NEW j, j = at[2]
  PROVE  /\ i \in Bins /\ j \in Tasks /\ i \in Nat /\ j \in Nat /\ j < ntasks
         /\ NBins \in Nat /\ i < NBins
         /\ nelesinbin \in [Bins -> Nat] /\ nelesinbin' \in [Bins -> Nat]
         /\ bins[j][i] \in Seq(Value) /\ res_bins \in Seq(Value)
         /\ Len(bins[j][i]) \in Nat /\ Len(res_bins) \in Nat
         /\ nelesinbin'[i] = nelesinbin[i] + Len(bins[j][i])
         /\ \A b \in Bins : b # i => nelesinbin'[b] = nelesinbin[b]
         /\ res_bins' = res_bins \o bins[j][i]
         /\ \/ j = ntasks - 1 /\ at'[1] = i + 1 /\ at'[2] = 0
            \/ j + 1 < ntasks /\ at'[1] = i /\ at'[2] = j + 1
         /\ UNCHANGED <<ntasks, hash, phase, next, hf, bins>>
         /\ phase = "merge"
         /\ Tasks' = Tasks
<1>1. at \in (0 .. NBins) \X Tasks /\ at[1] < NBins /\ phase = "merge"
  BY DEF IInv, TypeOK, CopyBin
<1>2. NBins \in Nat \ {0} /\ ntasks \in Nat \ {0}
  BY ConstantsOK DEF IInv, TypeOK
<1>3. i \in Bins /\ j \in Tasks /\ i \in Nat /\ j \in Nat /\ j < ntasks
  BY <1>1, <1>2 DEF Bins, Tasks
<1>4. /\ nelesinbin' = [nelesinbin EXCEPT ![i] = nelesinbin[i] + Len(bins[j][i])]
      /\ res_bins' = res_bins \o bins[j][i]
      /\ at' = IF j = ntasks - 1 THEN <<i + 1, 0>> ELSE <<i, j + 1>>
      /\ UNCHANGED <<ntasks, hash, phase, next, hf, bins>>
  BY DEF CopyBin, Counted, tableVars
<1>5. nelesinbin \in [Bins -> Nat] /\ res_bins \in Seq(Value)
  BY DEF IInv, TypeOK
<1>6. bins[j][i] \in Seq(Value) /\ Len(bins[j][i]) \in Nat
  BY <1>3, Ranges
<1>7. Len(res_bins) \in Nat
  BY <1>5
<1>8. nelesinbin[i] + Len(bins[j][i]) \in Nat
  <2>1. nelesinbin[i] \in Nat
    BY <1>3, <1>5
  <2> QED
    BY <1>6, <2>1
<1>9. nelesinbin' \in [Bins -> Nat]
      /\ nelesinbin'[i] = nelesinbin[i] + Len(bins[j][i])
      /\ \A b \in Bins : b # i => nelesinbin'[b] = nelesinbin[b]
  BY <1>3, <1>4, <1>5, <1>8
<1>10. \/ j = ntasks - 1 /\ at'[1] = i + 1 /\ at'[2] = 0
       \/ j + 1 < ntasks /\ at'[1] = i /\ at'[2] = j + 1
  BY <1>2, <1>3, <1>4
<1> QED
  BY <1>1, <1>2, <1>3, <1>4, <1>5, <1>6, <1>7, <1>9, <1>10 DEF Tasks

(* A round of the merge adds a table to the ones that bin i is made of. *)
LEMMA MergedNext ==
  ASSUME IInv, RInv, CopyBin, NEW b \in Bins
  PROVE  /\ b = at[1] => Merged(b) = at[2] /\ Merged(b)' = at[2] + 1
         /\ b # at[1] => Merged(b)' = Merged(b)
<1> DEFINE i == at[1]
           j == at[2]
<1>1. /\ i \in Nat /\ j \in Nat /\ j < ntasks /\ ntasks' = ntasks
      /\ \/ j = ntasks - 1 /\ at'[1] = i + 1 /\ at'[2] = 0
         \/ j + 1 < ntasks /\ at'[1] = i /\ at'[2] = j + 1
  BY MergeFacts
<1>2. b \in Nat /\ ntasks \in Nat
  BY ConstantsOK DEF Bins, IInv, TypeOK
<1> HIDE DEF i, j
<1>3. b = i => Merged(b) = j /\ Merged(b)' = j + 1
  BY <1>1, <1>2 DEF Merged, i, j
<1>4. b # i => Merged(b)' = Merged(b)
  BY <1>1, <1>2 DEF Merged, i, j
<1> QED
  BY <1>3, <1>4 DEF i, j

(* Where the bins begin does not change up to the one that grows. *)
LEMMA OffsetsNext ==
  ASSUME IInv, RInv, CopyBin, NEW i, i = at[1]
  PROVE  /\ \A b \in 0 .. i : Offset(b)' = Offset(b) /\ Offset(b) \in Nat
         /\ Offset(i + 1)' = Offset(i) + nelesinbin'[i]
<1>1. /\ i \in Bins /\ i \in Nat /\ NBins \in Nat /\ i < NBins
      /\ nelesinbin \in [Bins -> Nat] /\ nelesinbin' \in [Bins -> Nat]
      /\ \A b \in Bins : b # i => nelesinbin'[b] = nelesinbin[b]
  BY MergeFacts
<1> DEFINE o == RunningSums(nelesinbin, NBins)
           p == RunningSums(nelesinbin', NBins)
<1>2. nelesinbin \in [0 .. NBins - 1 -> Nat] /\ nelesinbin' \in [0 .. NBins - 1 -> Nat]
  BY <1>1 DEF Bins
<1>3. /\ o \in [0 .. NBins -> Nat]
      /\ p \in [0 .. NBins -> Nat]
      /\ \A c \in 0 .. NBins - 1 : p[c + 1] = p[c] + nelesinbin'[c]
  <2>1. IsSums(o, nelesinbin, NBins) /\ IsSums(p, nelesinbin', NBins)
    BY <1>1, <1>2, RunningSumsAre
  <2> HIDE DEF o, p
  <2> QED
    BY <2>1 DEF IsSums
<1>4. \A c \in 0 .. i - 1 : nelesinbin[c] = nelesinbin'[c]
  <2>1. \A c \in 0 .. i - 1 : c \in Bins /\ c # i
    <3>1. i \in Nat /\ NBins \in Nat /\ i < NBins
      BY <1>1
    <3> QED
      BY <3>1 DEF Bins
  <2> QED
    BY <1>1, <2>1
<1>5. ASSUME NEW b \in 0 .. i
      PROVE  o[b] = p[b]
  <2>1. i \in 0 .. NBins
    BY <1>1
  <2> QED
    BY <1>1, <1>2, <1>4, <2>1, RunningSumsAgree
<1>6. \A b : Offset(b) = o[b] /\ Offset(b)' = p[b]
  BY Zenon DEF Offset, RunningSums
<1> HIDE DEF o, p
<1>7. i \in 0 .. NBins - 1 /\ i \in 0 .. i /\ 0 .. i \subseteq 0 .. NBins
  BY <1>1
<1>8. \A b \in 0 .. i : Offset(b)' = Offset(b) /\ Offset(b) \in Nat
  BY <1>3, <1>5, <1>6, <1>7
<1>9. Offset(i + 1)' = Offset(i) + nelesinbin'[i]
  BY <1>3, <1>5, <1>6, <1>7
<1> QED
  BY <1>8, <1>9

(* The counts of a round of the merge. *)
LEMMA CopyCounts ==
  ASSUME IInv, RInv, CopyBin
  PROVE  Counts'
<1> DEFINE i == at[1]
           j == at[2]
           n == Len(bins[j][i])
           P == Segment(j, i, n)
<1>1. /\ i \in Bins /\ j \in Tasks /\ j \in Nat /\ n \in Nat
      /\ res_bins \in Seq(Value) /\ bins[j][i] \in Seq(Value)
      /\ res_bins' = res_bins \o bins[j][i]
      /\ UNCHANGED <<ntasks, hash, next, hf, bins>>
      /\ Tasks' = Tasks
  BY MergeFacts
<1>2. /\ IsFiniteSet(Cells) /\ IsFiniteSet(Rounds)
      /\ Cardinality(Cells) = Cardinality(Rounds)
      /\ Len(res_bins) = Cardinality(Copied)
  BY DEF RInv, Counts
<1>3. Cells' = Cells /\ Rounds' = Rounds
  BY <1>1 DEF Cells, Rounds, Over
<1>4. IsFiniteSet(P) /\ Cardinality(P) = n
  <2>1. n \in Nat
    BY <1>1
  <2> QED
    BY <2>1, SegmentCount
<1>5. Len(res_bins') = Len(res_bins) + n
  <2> DEFINE s == bins[j][i]
  <2>1. s \in Seq(Value) /\ res_bins' = res_bins \o s
    BY <1>1
  <2> HIDE DEF s
  <2>2. Len(res_bins') = Len(res_bins) + Len(s)
    BY <1>1, <2>1, Joined
  <2> QED
    BY <2>2 DEF s
<1>6. Copied' = Copied \cup P
  <2>1. ASSUME NEW c \in Cells
        PROVE  c[1] < Merged(c[2])' <=> c[1] < Merged(c[2]) \/ c \in P
    <3>1. /\ c[1] \in Nat /\ c[2] \in Bins /\ c[3] \in 1 .. Len(bins[c[1]][c[2]])
          /\ c = <<c[1], c[2], c[3]>>
      BY DEF Cells, Tasks
    <3>2. c \in P <=> c[1] = j /\ c[2] = i
      BY <3>1 DEF Segment
    <3>3. /\ c[2] = i => Merged(c[2]) = j /\ Merged(c[2])' = j + 1
          /\ c[2] # i => Merged(c[2])' = Merged(c[2])
      BY <3>1, MergedNext
    <3> HIDE DEF P, i, j
    <3> QED
      BY <1>1, <3>1, <3>2, <3>3
  <2>2. P \subseteq Cells
    BY <1>1 DEF Cells, Segment
  <2> HIDE DEF P
  <2> QED
    BY <1>3, <2>1, <2>2 DEF Copied
<1>7. Copied \cap P = {}
  <2> SUFFICES ASSUME NEW l \in 1 .. n, <<j, i, l>> \in Copied PROVE FALSE
    BY DEF Copied, Segment
  <2>1. j < Merged(i)
    BY DEF Copied
  <2>2. Merged(i) = j
    BY <1>1, MergedNext
  <2> QED
    BY <1>1, <2>1, <2>2
<1>8. IsFiniteSet(Copied)
  <2>1. Copied \in SUBSET Cells
    BY DEF Copied
  <2> QED
    BY <1>2, <2>1, FS_Subset
<1> HIDE DEF P, n, i, j
<1>9. Cardinality(Copied \cup P) = Cardinality(Copied) + Cardinality(P)
  <2>1. Cardinality(Copied \cup P) = Cardinality(Copied) + Cardinality(P) - Cardinality(Copied \cap P)
    BY <1>4, <1>8, FS_Union
  <2>2. Cardinality(Copied \cap P) = 0
    BY <1>7, FS_EmptySet
  <2>3. Cardinality(Copied) \in Nat /\ Cardinality(P) \in Nat
    BY <1>4, <1>8, FS_CardinalityType
  <2> QED
    BY <2>1, <2>2, <2>3
<1>10. Cardinality(Copied') = Cardinality(Copied) + n
  BY <1>4, <1>6, <1>9
<1> QED
  BY <1>2, <1>3, <1>5, <1>10 DEF Counts

(* The result of a round of the merge, where nothing but bin i grows at the end. *)
LEMMA CopyLayout ==
  ASSUME IInv, RInv, CopyBin
  PROVE  Layout'
<1> SUFFICES ASSUME NEW i, i = at[1], NEW j, j = at[2] PROVE Layout'
  OBVIOUS
<1>1. /\ i \in Bins /\ i \in Nat /\ j \in Nat /\ NBins \in Nat /\ i < NBins
      /\ nelesinbin \in [Bins -> Nat] /\ nelesinbin' \in [Bins -> Nat]
      /\ bins[j][i] \in Seq(Value) /\ res_bins \in Seq(Value)
      /\ Len(bins[j][i]) \in Nat /\ Len(res_bins) \in Nat
      /\ nelesinbin'[i] = nelesinbin[i] + Len(bins[j][i])
      /\ \A b \in Bins : b # i => nelesinbin'[b] = nelesinbin[b]
      /\ res_bins' = res_bins \o bins[j][i]
      /\ (at'[1] = i + 1 \/ at'[1] = i)
  BY MergeFacts
<1>2. /\ \A b \in Bins : i < b => nelesinbin[b] = 0
      /\ Offset(i) + nelesinbin[i] = Len(res_bins)
      /\ \A b \in Bins : b <= i => Offset(b) + nelesinbin[b] <= Len(res_bins)
  BY <1>1 DEF RInv, Layout
<1>3. /\ \A b \in 0 .. i : Offset(b)' = Offset(b) /\ Offset(b) \in Nat
      /\ Offset(i + 1)' = Offset(i) + nelesinbin'[i]
  BY OffsetsNext
<1>4. Len(res_bins') = Len(res_bins) + Len(bins[j][i])
  <2> DEFINE s == bins[j][i]
  <2>1. s \in Seq(Value) /\ res_bins \in Seq(Value) /\ res_bins' = res_bins \o s
    BY <1>1
  <2> HIDE DEF s
  <2>2. Len(res_bins') = Len(res_bins) + Len(s)
    BY <2>1, Joined
  <2> QED
    BY <2>2 DEF s
<1> DEFINE r == Len(res_bins)
           m == Len(bins[j][i])
           n == nelesinbin[i]
           q == Len(res_bins')
<1>5. r \in Nat /\ m \in Nat /\ n \in Nat /\ q = r + m /\ nelesinbin'[i] = n + m
  <2>1. n \in Nat
    BY <1>1
  <2>2. r \in Nat /\ m \in Nat /\ nelesinbin'[i] = n + m
    BY <1>1
  <2> QED
    BY <1>4, <2>1, <2>2
<1>6. /\ Bins \subseteq Nat /\ (\A b \in Bins : b < NBins) /\ NBins \notin Bins
      /\ \A b \in Nat : b < NBins => b \in Bins
      /\ i \in 0 .. i /\ \A b \in Bins : b <= i => b \in 0 .. i
      /\ i \in Bins /\ i \in Nat
  <2>1. i \in Nat /\ i < NBins /\ NBins \in Nat
    BY <1>1
  <2>2. /\ \A b \in Bins : b \in Nat /\ b < NBins
        /\ NBins \notin Bins
        /\ \A b \in Nat : b < NBins => b \in Bins
    BY <2>1 DEF Bins
  <2>3. i \in 0 .. i /\ \A b \in Bins : b <= i => b \in 0 .. i
    BY <2>1, <2>2
  <2> QED
    BY <2>1, <2>2, <2>3
<1>7. \A b \in Bins : nelesinbin[b] \in Nat /\ (b # i => nelesinbin'[b] = nelesinbin[b])
  BY <1>1
<1> HIDE DEF r, m, n, q
<1>8. Offset(i)' = Offset(i) /\ Offset(i) \in Nat /\ Offset(i) + n = r
      /\ Offset(i)' + nelesinbin'[i] = q /\ Offset(i + 1)' = q /\ q \in Nat
  <2>1. Offset(i)' = Offset(i) /\ Offset(i) \in Nat /\ Offset(i + 1)' = Offset(i) + (n + m)
    BY <1>3, <1>5, <1>6
  <2>2. Offset(i) + n = r
    BY <1>2 DEF n, r
  <2>3. Offset(i) + (n + m) = q
    <3>1. r \in Nat /\ m \in Nat /\ n \in Nat /\ q = r + m
      BY <1>5
    <3>2. Offset(i) \in Nat
      BY <2>1
    <3>3. Offset(i) + (n + m) = (Offset(i) + n) + m
      BY <3>1, <3>2
    <3> QED
      BY <2>2, <3>1, <3>3
  <2> QED
    BY <1>5, <2>1, <2>2, <2>3
<1>9. \A b \in Bins : i < b => nelesinbin'[b] = 0
  BY <1>2, <1>6, <1>7
<1>10. ASSUME NEW b \in Bins, b <= i
       PROVE  Offset(b)' + nelesinbin'[b] <= q
  <2>1. b \in 0 .. i /\ Offset(b)' = Offset(b) /\ Offset(b) \in Nat /\ nelesinbin[b] \in Nat
    BY <1>3, <1>6, <1>7, <1>10
  <2>2. CASE b = i
    BY <1>8, <2>2
  <2>3. CASE b # i
    <3>1. nelesinbin'[b] = nelesinbin[b] /\ Offset(b) + nelesinbin[b] <= r
      BY <1>2, <1>7, <1>10, <2>3 DEF r
    <3> QED
      BY <1>5, <2>1, <3>1
  <2> QED
    BY <2>2, <2>3
<1>11. CASE at'[1] = i
  <2>1. \A b \in Bins : b <= at'[1] => Offset(b)' + nelesinbin'[b] <= Len(res_bins')
    BY <1>10, <1>11 DEF q
  <2>2. Offset(at[1])' + nelesinbin'[at'[1]] = Len(res_bins')
    <3>1. Offset(at[1])' = Offset(i)'
      BY <1>11 DEF Offset
    <3> QED
      BY <1>8, <1>11, <3>1 DEF q
  <2> QED
    BY <1>6, <1>9, <1>11, <2>1, <2>2 DEF Layout
<1>12. CASE at'[1] = i + 1
  <2>1. Offset(at[1])' = q
    <3>1. Offset(at[1])' = Offset(i + 1)'
      BY <1>12 DEF Offset
    <3> QED
      BY <1>8, <3>1
  <2>2. i + 1 \in Bins => nelesinbin'[i + 1] = 0
    BY <1>6, <1>9
  <2>3. ASSUME NEW b \in Bins, b <= i + 1
        PROVE  Offset(b)' + nelesinbin'[b] <= q
    <3>1. CASE b <= i
      BY <1>10, <3>1
    <3>2. CASE b = i + 1
      BY <1>8, <2>2, <3>2
    <3>3. b \in Nat /\ i \in Nat
      BY <1>6
    <3> QED
      BY <2>3, <3>1, <3>2, <3>3
  <2>4. ASSUME NEW b \in Bins, i + 1 < b
        PROVE  nelesinbin'[b] = 0
    <3>1. b \in Nat /\ i \in Nat
      BY <1>6
    <3> QED
      BY <1>9, <2>4, <3>1
  <2>5. at'[1] \in Bins => Offset(at[1])' + nelesinbin'[at'[1]] = q
    BY <1>8, <1>12, <2>1, <2>2
  <2>6. at'[1] = NBins => Offset(NBins)' = q
    <3> HAVE at'[1] = NBins
    <3>1. Offset(NBins)' = Offset(i + 1)'
      BY <1>12 DEF Offset
    <3> QED
      BY <1>8, <3>1
  <2>7. \A b \in Bins : b <= at'[1] => Offset(b)' + nelesinbin'[b] <= q
    BY <1>12, <2>3
  <2> QED
    BY <1>12, <2>4, <2>5, <2>6, <2>7 DEF Layout, q
<1> QED
  BY <1>1, <1>11, <1>12

(* The bin that grows: s goes behind the n values that are there, which begin behind
   the first o of r.  In terms of the places that a reader looks at. *)
LEMMA PlacesNext ==
  ASSUME NEW S, NEW r \in Seq(S), NEW s \in Seq(S), NEW o \in Nat, NEW n \in Nat,
         o + n = Len(r)
  PROVE  /\ \A k \in 1 .. n : (r \o s)[o + k] = r[o + k]
         /\ \A l \in 1 .. Len(s) : (r \o s)[o + (n + l)] = s[l] /\ n + l \in 1 .. n + Len(s)
         /\ \A k \in 1 .. n + Len(s) : k \in 1 .. n \/ \E l \in 1 .. Len(s) : k = n + l
         /\ 1 .. n \subseteq 1 .. n + Len(s)
         /\ n + Len(s) \in Nat
<1>1. /\ Len(r) \in Nat /\ Len(s) \in Nat
      /\ \A p \in 1 .. Len(r) : (r \o s)[p] = r[p]
      /\ \A l \in 1 .. Len(s) : (r \o s)[Len(r) + l] = s[l]
  BY Joined
<1> DEFINE m == Len(s)
           q == r \o s
<1>2. m \in Nat
  BY <1>1
<1>3. ASSUME NEW k \in 1 .. n
      PROVE  q[o + k] = r[o + k]
  <2>1. o + k \in 1 .. Len(r)
    OBVIOUS
  <2> QED
    BY <1>1, <2>1
<1>4. ASSUME NEW l \in 1 .. m
      PROVE  q[o + (n + l)] = s[l] /\ n + l \in 1 .. n + m
  <2> HIDE DEF q
  <2>1. o + (n + l) = Len(r) + l /\ n + l \in 1 .. n + m
    BY <1>2
  <2> QED
    BY <1>1, <2>1 DEF q
<1>5. ASSUME NEW k \in 1 .. n + m
      PROVE  k \in 1 .. n \/ \E l \in 1 .. m : k = n + l
  <2> HIDE DEF m
  <2>1. CASE k <= n
    BY <1>2, <2>1
  <2>2. CASE k > n
    <3>1. k - n \in 1 .. m /\ k = n + (k - n)
      BY <1>2, <2>2
    <3> QED
      BY <3>1
  <2> QED
    BY <1>2, <2>1, <2>2
<1> HIDE DEF m, q
<1>6. 1 .. n \subseteq 1 .. n + m /\ n + m \in Nat
  BY <1>2
<1> QED
  BY <1>3, <1>4, <1>5, <1>6 DEF m, q

(* Bin b of the result when another bin grows. *)
LEMMA OtherBin ==
  ASSUME IInv, RInv, CopyBin, NEW b \in Bins, b # at[1]
  PROVE  BinMerged(b)'
<1> SUFFICES ASSUME NEW i, i = at[1], NEW j, j = at[2] PROVE BinMerged(b)'
  OBVIOUS
<1>1. /\ i \in Bins /\ i \in Nat
      /\ bins[j][i] \in Seq(Value) /\ res_bins \in Seq(Value)
      /\ nelesinbin \in [Bins -> Nat]
      /\ res_bins' = res_bins \o bins[j][i]
      /\ Tasks' = Tasks /\ bins' = bins
      /\ NBins \in Nat
  BY MergeFacts
<1>2. nelesinbin'[b] = nelesinbin[b] /\ nelesinbin[b] \in Nat /\ b \in Nat
  <2>1. i \in Nat /\ nelesinbin \in [Bins -> Nat] /\ \A c \in Bins : c # i => nelesinbin'[c] = nelesinbin[c]
    BY MergeFacts
  <2>2. b # i /\ b \in Nat
    BY ConstantsOK DEF Bins
  <2> QED
    BY <2>1, <2>2
<1>3. Merged(b)' = Merged(b)
  BY MergedNext
<1>4. BinMerged(b)
  BY DEF RInv
<1>5. ASSUME NEW k \in 1 .. nelesinbin[b]
      PROVE  res_bins'[Offset(b)' + k] = res_bins[Offset(b) + k]
  <2>1. b < i
    <3>1. i < b => nelesinbin[b] = 0
      BY <1>1 DEF RInv, Layout
    <3> QED
      BY <1>1, <1>2, <3>1
  <2>2. b \in 0 .. i
    BY <1>1, <1>2, <2>1
  <2>3. Offset(b)' = Offset(b) /\ Offset(b) \in Nat
    BY <2>2, OffsetsNext
  <2>4. Offset(b) + nelesinbin[b] <= Len(res_bins)
    BY <1>1, <1>2, <2>1 DEF RInv, Layout
  <2>5. /\ Len(res_bins) \in Nat
        /\ \A p \in 1 .. Len(res_bins) : res_bins'[p] = res_bins[p]
    <3> DEFINE s == bins[j][i]
    <3>1. s \in Seq(Value) /\ res_bins \in Seq(Value) /\ res_bins' = res_bins \o s
      BY <1>1
    <3> HIDE DEF s
    <3> QED
      BY <3>1, Joined
  <2>6. Offset(b) + k \in 1 .. Len(res_bins)
    BY <1>2, <2>3, <2>4, <2>5
  <2> QED
    BY <2>3, <2>5, <2>6
<1>6. ASSUME NEW e \in Eles
      PROVE  Places(b, e)' = Places(b, e)
  <2>1. Places(b, e)' = {m \in 1 .. nelesinbin[b] : res_bins'[Offset(b)' + m] = e}
    BY <1>2 DEF Places
  <2> QED
    BY <1>5, <2>1 DEF Places
<1>7. /\ \A k \in 1 .. nelesinbin[b] : \E t \in Tasks :
           /\ t < Merged(b)
           /\ \E l \in 1 .. Len(bins[t][b]) : res_bins[Offset(b) + k] = bins[t][b][l]
      /\ \A t \in Tasks : t < Merged(b) =>
           \A l \in 1 .. Len(bins[t][b]) : \E k \in 1 .. nelesinbin[b] :
             res_bins[Offset(b) + k] = bins[t][b][l]
      /\ \A e \in Eles : Cardinality(Places(b, e)) <= Merged(b)
  BY <1>4 DEF BinMerged
<1>8. /\ \A k \in 1 .. nelesinbin[b] : \E t \in Tasks :
           /\ t < Merged(b)
           /\ \E l \in 1 .. Len(bins[t][b]) : res_bins'[Offset(b)' + k] = bins[t][b][l]
      /\ \A t \in Tasks : t < Merged(b) =>
           \A l \in 1 .. Len(bins[t][b]) : \E k \in 1 .. nelesinbin[b] :
             res_bins'[Offset(b)' + k] = bins[t][b][l]
  BY <1>5, <1>7
<1>9. \A e \in Eles : Cardinality(Places(b, e)') <= Merged(b)
  BY <1>6, <1>7
<1>10. nelesinbin'[b] = nelesinbin[b] /\ Merged(b)' = Merged(b) /\ Tasks' = Tasks /\ bins' = bins
  BY <1>1, <1>2, <1>3
<1> QED
  BY <1>8, <1>9, <1>10 DEF BinMerged

(* The bin that grows, by one table. *)
LEMMA GrowingBin ==
  ASSUME IInv, RInv, CopyBin, NEW i, i = at[1]
  PROVE  BinMerged(i)'
<1> SUFFICES ASSUME NEW j, j = at[2] PROVE BinMerged(i)'
  OBVIOUS
<1>1. /\ i \in Bins /\ i \in Nat /\ j \in Tasks /\ j \in Nat
      /\ bins[j][i] \in Seq(Value) /\ res_bins \in Seq(Value)
      /\ nelesinbin \in [Bins -> Nat]
      /\ res_bins' = res_bins \o bins[j][i]
      /\ Tasks' = Tasks /\ bins' = bins
      /\ nelesinbin'[i] = nelesinbin[i] + Len(bins[j][i])
  BY MergeFacts
<1>2. Merged(i) = j /\ Merged(i)' = j + 1
  BY <1>1, MergedNext
<1>3. BinMerged(i) /\ TableOf(j)
  BY <1>1 DEF RInv
<1>4. Offset(i)' = Offset(i) /\ Offset(i) \in Nat
  <2>1. i \in 0 .. i
    BY <1>1
  <2> QED
    BY <2>1, OffsetsNext
<1>5. Offset(i) + nelesinbin[i] = Len(res_bins)
  BY <1>1 DEF RInv, Layout
<1> DEFINE s == bins[j][i]
           n == nelesinbin[i]
           o == Offset(i)
<1>6. /\ \A k \in 1 .. n : res_bins'[o + k] = res_bins[o + k]
      /\ \A l \in 1 .. Len(s) : res_bins'[o + (n + l)] = s[l] /\ n + l \in 1 .. n + Len(s)
      /\ \A k \in 1 .. n + Len(s) : k \in 1 .. n \/ \E l \in 1 .. Len(s) : k = n + l
      /\ 1 .. n \subseteq 1 .. n + Len(s)
  <2>1. /\ s \in Seq(Value) /\ res_bins \in Seq(Value) /\ n \in Nat /\ o \in Nat
        /\ o + n = Len(res_bins) /\ res_bins' = res_bins \o s
    BY <1>1, <1>4, <1>5
  <2> HIDE DEF s, n, o
  <2>2. /\ \A k \in 1 .. n : (res_bins \o s)[o + k] = res_bins[o + k]
        /\ \A l \in 1 .. Len(s) : (res_bins \o s)[o + (n + l)] = s[l] /\ n + l \in 1 .. n + Len(s)
        /\ \A k \in 1 .. n + Len(s) : k \in 1 .. n \/ \E l \in 1 .. Len(s) : k = n + l
        /\ 1 .. n \subseteq 1 .. n + Len(s)
    BY <2>1, PlacesNext
  <2> QED
    BY <2>1, <2>2
<1>7. n \in Nat /\ Len(s) \in Nat /\ o \in Nat
  BY <1>1, <1>4
<1>8. /\ \A k \in 1 .. n : \E t \in Tasks :
           /\ t < j
           /\ \E l \in 1 .. Len(bins[t][i]) : res_bins[o + k] = bins[t][i][l]
      /\ \A t \in Tasks : t < j =>
           \A l \in 1 .. Len(bins[t][i]) : \E k \in 1 .. n : res_bins[o + k] = bins[t][i][l]
      /\ \A e \in Eles : Cardinality(Places(i, e)) <= j
  BY <1>2, <1>3 DEF BinMerged
<1>9. \A l, m \in 1 .. Len(s) : s[l] = s[m] /\ s[l] # Dummy => l = m
  BY <1>1, <1>3 DEF TableOf
<1>10. /\ nelesinbin'[i] = n + Len(s) /\ Offset(i)' = o
       /\ \A e : Places(i, e) = {m \in 1 .. n : res_bins[o + m] = e}
       /\ \A e : Places(i, e)' = {m \in 1 .. n + Len(s) : res_bins'[o + m] = e}
  BY <1>1, <1>4 DEF Places
<1>11. s = bins[j][i] /\ Dummy \notin Eles /\ \A t \in Tasks : t \in Nat
  BY ConstantsOK DEF Eles, Tasks
<1> HIDE DEF s, n, o
<1>12. ASSUME NEW k \in 1 .. n + Len(s)
       PROVE  \E t \in Tasks : /\ t < j + 1
                               /\ \E l \in 1 .. Len(bins[t][i]) : res_bins'[o + k] = bins[t][i][l]
  <2>1. CASE k \in 1 .. n
    <3>1. PICK t \in Tasks : /\ t < j
                             /\ \E l \in 1 .. Len(bins[t][i]) : res_bins[o + k] = bins[t][i][l]
      BY <1>8, <2>1
    <3>2. t < j + 1
      BY <1>1, <1>11, <3>1
    <3> QED
      BY <1>6, <2>1, <3>1, <3>2
  <2>2. CASE \E l \in 1 .. Len(s) : k = n + l
    <3>1. j < j + 1
      BY <1>1
    <3>2. PICK l \in 1 .. Len(s) : k = n + l
      BY <2>2
    <3>3. res_bins'[o + k] = bins[j][i][l] /\ l \in 1 .. Len(bins[j][i])
      BY <1>6, <1>11, <3>2
    <3> QED
      BY <1>1, <3>1, <3>3
  <2> QED
    BY <1>6, <2>1, <2>2
<1>13. ASSUME NEW t \in Tasks, t < j + 1, NEW l \in 1 .. Len(bins[t][i])
       PROVE  \E k \in 1 .. n + Len(s) : res_bins'[o + k] = bins[t][i][l]
  <2>1. CASE t < j
    <3>1. PICK k \in 1 .. n : res_bins[o + k] = bins[t][i][l]
      BY <1>8, <2>1
    <3>2. k \in 1 .. n + Len(s) /\ res_bins'[o + k] = res_bins[o + k]
      BY <1>6
    <3> QED
      BY <3>1, <3>2
  <2>2. CASE t = j
    <3>1. l \in 1 .. Len(s) /\ bins[t][i][l] = s[l]
      BY <1>11, <2>2
    <3>2. res_bins'[o + (n + l)] = s[l] /\ n + l \in 1 .. n + Len(s)
      BY <1>6, <3>1
    <3> QED
      BY <3>1, <3>2
  <2>3. t < j \/ t = j
    BY <1>1, <1>11, <1>13
  <2> QED
    BY <2>1, <2>2, <2>3
<1>14. ASSUME NEW e \in Eles
       PROVE  Cardinality(Places(i, e)') <= j + 1
  <2> DEFINE P == Places(i, e)
             Q == {m \in 1 .. n + Len(s) : res_bins'[o + m] = e}
  <2>1. P = {m \in 1 .. n : res_bins[o + m] = e} /\ Places(i, e)' = Q
    BY <1>10
  <2>2. IsFiniteSet(P)
    <3>1. P \in SUBSET (1 .. n)
      BY <2>1
    <3>2. IsFiniteSet(1 .. n)
      BY <1>7, FS_Interval
    <3> HIDE DEF P
    <3> QED
      BY <3>1, <3>2, FS_Subset
  <2>3. Cardinality(P) <= j /\ Cardinality(P) \in Nat
    BY <1>8, <2>2, FS_CardinalityType
  <2> HIDE DEF P
  <2>4. ASSUME NEW m \in 1 .. n + Len(s)
        PROVE  m \in Q <=> m \in P \/ \E l \in 1 .. Len(s) : m = n + l /\ s[l] = e
    <3>1. CASE m \in 1 .. n
      <4>1. ~ \E l \in 1 .. Len(s) : m = n + l
        BY <1>7, <3>1
      <4> QED
        BY <1>6, <2>1, <3>1, <4>1
    <3>2. CASE \E l \in 1 .. Len(s) : m = n + l
      <4>1. PICK l \in 1 .. Len(s) : m = n + l
        BY <3>2
      <4>2. m \notin 1 .. n /\ \A l2 \in 1 .. Len(s) : m = n + l2 => l2 = l
        BY <1>7, <4>1
      <4> QED
        BY <1>6, <2>1, <4>1, <4>2
    <3> QED
      BY <1>6, <3>1, <3>2
  <2>5. P \subseteq 1 .. n + Len(s)
    BY <1>6, <2>1
  <2>6. CASE \E l \in 1 .. Len(s) : s[l] = e
    <3>1. PICK l \in 1 .. Len(s) : s[l] = e
      BY <2>6
    <3>2. n + l \in 1 .. n + Len(s) /\ n + l \notin P
      <4>1. n + l \notin 1 .. n
        BY <1>7
      <4> QED
        BY <1>6, <2>1, <4>1
    <3>3. \A l2 \in 1 .. Len(s) : s[l2] = e => l2 = l
      BY <1>9, <1>11, <3>1
    <3>4. Q = P \cup {n + l}
      <4>0. Q \subseteq 1 .. n + Len(s)
        OBVIOUS
      <4> HIDE DEF Q
      <4> QED
        BY <2>4, <2>5, <3>1, <3>2, <3>3, <4>0
    <3> HIDE DEF Q
    <3>5. Cardinality(Q) = Cardinality(P) + 1
      BY <2>2, <3>2, <3>4, FS_AddElement
    <3> QED
      BY <1>1, <2>1, <2>3, <3>5
  <2>7. CASE ~ \E l \in 1 .. Len(s) : s[l] = e
    <3>1. Q = P
      <4>0. Q \subseteq 1 .. n + Len(s)
        OBVIOUS
      <4> HIDE DEF Q
      <4> QED
        BY <2>4, <2>5, <2>7, <4>0
    <3>2. Cardinality(P) <= j + 1
      BY <1>1, <2>3
    <3> QED
      BY <2>1, <3>1, <3>2
  <2> QED
    BY <2>6, <2>7
<1>15. nelesinbin'[i] = n + Len(s) /\ Offset(i)' = o /\ Merged(i)' = j + 1 /\ Tasks' = Tasks /\ bins' = bins
  BY <1>1, <1>2, <1>10
<1> QED
  BY <1>12, <1>13, <1>14, <1>15 DEF BinMerged

(* Nothing has been copied to the result at the start. *)
LEMMA InitResult == Init => RInv
<1> SUFFICES ASSUME Init PROVE RInv
  OBVIOUS
<1>0. IInv
  BY InitIInv
<1>1. /\ NEles \in Nat \ {0} /\ NBins \in Nat \ {0} /\ ntasks \in Nat \ {0}
      /\ phase = "generate" /\ at = <<0, 0>> /\ at[1] = 0 /\ at[2] = 0
      /\ nelesinbin = [b \in Bins |-> 0] /\ res_bins = <<>>
      /\ \A t \in Tasks : next[t] = StartPos(t, NEles, ntasks) /\ hf[t] = 0
      /\ \A t \in Tasks, b \in Bins : bins[t][b] = <<>>
  BY <1>0, ConstantsOK DEF Init, IInv, TypeOK
<1>2. \A t \in Tasks : StartPos(t, NEles, ntasks) \in Nat /\ next[t] \in Nat /\ t \in Nat
  BY <1>0, Ranges
<1>3. \A t \in Tasks, b \in Bins : Len(bins[t][b]) = 0 /\ 1 .. Len(bins[t][b]) = {}
  BY <1>1
<1>4. ASSUME NEW t \in Tasks
      PROVE  TableOf(t)
  <2>1. EleAt(t, next[t]) = 0 /\ hf[t] = 0
    BY <1>1, <1>2 DEF EleAt
  <2>2. ASSUME NEW e \in Eles, NEW k \in HashIdx
        PROVE  ~Passed(t, e, k)
    <3>1. e \in Nat /\ k \in Nat
      BY DEF Eles, HashIdx, NUM_HASH_FUNCTIONS
    <3> QED
      BY <2>1, <3>1 DEF Passed
  <2> QED
    BY <1>3, <2>2 DEF TableOf
<1>5. \A b \in Bins : Merged(b) = 0
  BY <1>1 DEF Merged, Bins
<1>6. Counts
  <2>1. Cells = {}
    BY <1>3 DEF Cells
  <2>2. Rounds = {}
    <3> SUFFICES ASSUME NEW t \in Tasks, NEW i \in Eles, NEW k \in HashIdx, Over(t, i, k)
                 PROVE  FALSE
      BY DEF Rounds
    <3>1. i \in Nat /\ k \in Nat
      BY DEF Eles, HashIdx, NUM_HASH_FUNCTIONS
    <3>2. StartPos(t, NEles, ntasks) <= i
      BY <1>0, <3>1, InChunk DEF Over
    <3> QED
      BY <1>1, <1>2, <3>1, <3>2 DEF Over
  <2>3. Copied = {}
    BY <2>1 DEF Copied
  <2>4. Len(res_bins) = 0 /\ Cardinality({}) = 0 /\ IsFiniteSet({})
    BY <1>1, FS_EmptySet
  <2> QED
    BY <2>1, <2>2, <2>3, <2>4 DEF Counts
<1>7. PhaseOK
  BY <1>1 DEF PhaseOK
<1>8. \A b \in Bins : nelesinbin[b] = 0 /\ 1 .. nelesinbin[b] = {}
  BY <1>1
<1>9. Layout
  <2>1. nelesinbin \in [0 .. NBins - 1 -> Nat]
    BY <1>1 DEF Bins
  <2>2. IsSums(RunningSums(nelesinbin, NBins), nelesinbin, NBins)
    BY <1>1, <2>1, RunningSumsAre
  <2>3. Offset(0) = RunningSums(nelesinbin, NBins)[0]
    BY Zenon DEF Offset, RunningSums
  <2>4. Offset(0) = 0
    BY <2>2, <2>3 DEF IsSums
  <2>5. Len(res_bins) = 0 /\ 0 \in Bins /\ at[1] # NBins
    BY <1>1 DEF Bins
  <2>6. \A b \in Bins : b <= 0 => b = 0
    BY <1>1 DEF Bins
  <2> QED
    BY <1>1, <1>8, <2>4, <2>5, <2>6 DEF Layout
<1>10. ASSUME NEW b \in Bins
       PROVE  BinMerged(b)
  <2>1. \A e \in Eles : Places(b, e) = {}
    BY <1>8 DEF Places
  <2>2. \A e \in Eles : Cardinality(Places(b, e)) <= 0
    BY <2>1, FS_EmptySet
  <2>3. \A t \in Tasks : ~(t < 0)
    BY <1>2
  <2> QED
    BY <1>5, <1>8, <2>2, <2>3 DEF BinMerged
<1> QED
  BY <1>4, <1>6, <1>7, <1>9, <1>10 DEF RInv

(* A round of the merge. *)
LEMMA CopyResult ==
  ASSUME IInv, RInv, CopyBin
  PROVE  RInv'
<1>1. /\ UNCHANGED <<ntasks, hash, phase, next, hf, bins>>
      /\ phase = "merge" /\ Tasks' = Tasks
  BY MergeFacts
<1>2. (\A t \in Tasks : TableOf(t))'
  <2> SUFFICES ASSUME NEW t \in Tasks PROVE TableOf(t)'
    BY <1>1
  <2>1. TableOf(t)
    BY DEF RInv
  <2> QED
    BY <1>1, <2>1 DEF TableOf, Passed, EleAt
<1>3. PhaseOK'
  <2>1. \A t \in Tasks : next[t] >= EndPos(t, NEles, ntasks)
    BY <1>1 DEF RInv, PhaseOK
  <2>2. at'[1] = NBins => at'[2] = 0
    <3>1. /\ \/ at'[2] = 0
             \/ at'[1] = at[1]
          /\ at[1] < NBins /\ NBins \in Nat
      BY MergeFacts
    <3> QED
      BY <3>1
  <2> QED
    BY <1>1, <2>1, <2>2 DEF PhaseOK
<1>4. (\A b \in Bins : BinMerged(b))'
  <2> SUFFICES ASSUME NEW b \in Bins PROVE BinMerged(b)'
    OBVIOUS
  <2>1. CASE b = at[1]
    BY <2>1, GrowingBin
  <2>2. CASE b # at[1]
    BY <2>2, OtherBin
  <2> QED
    BY <2>1, <2>2
<1> QED
  BY <1>2, <1>3, <1>4, CopyCounts, CopyLayout DEF RInv

(* Steps that change no more than the phase. *)
LEMMA ControlResult ==
  ASSUME IInv, RInv, JoinTasks \/ Return \/ UNCHANGED vars
  PROVE  RInv'
<1>1. UNCHANGED <<ntasks, hash, next, hf, bins, at, nelesinbin, res_bins>>
  BY DEF JoinTasks, Return, vars, tableVars, mergeVars
<1>2. Tasks' = Tasks /\ Cells' = Cells /\ Rounds' = Rounds
  BY <1>1 DEF Tasks, Cells, Rounds, Over
<1>3. (\A t \in Tasks : TableOf(t))'
  BY <1>1, <1>2 DEF RInv, TableOf, Passed, EleAt
<1>4. Counts'
  <2>1. Copied' = Copied
    BY <1>1, <1>2 DEF Copied, Merged
  <2> QED
    BY <1>1, <1>2, <2>1 DEF RInv, Counts
<1>5. Layout'
  BY <1>1 DEF RInv, Layout, Offset
<1>6. (\A b \in Bins : BinMerged(b))'
  <2>1. \A b : Merged(b)' = Merged(b) /\ Offset(b)' = Offset(b)
    BY <1>1 DEF Merged, Offset
  <2>2. \A b, e : Places(b, e)' = Places(b, e)
    BY <1>1, <2>1 DEF Places
  <2>3. \A b \in Bins : BinMerged(b)
    BY DEF RInv
  <2> QED
    BY <1>1, <1>2, <2>1, <2>2, <2>3 DEF BinMerged
<1>7. PhaseOK'
  <2>1. PhaseOK
    BY DEF RInv
  <2>2. CASE JoinTasks
    BY <1>1, <1>2, <2>1, <2>2 DEF PhaseOK, JoinTasks
  <2>3. CASE Return
    BY <1>1, <1>2, <2>1, <2>3 DEF PhaseOK, Return
  <2>4. CASE UNCHANGED vars
    BY <1>1, <1>2, <2>1, <2>4 DEF PhaseOK, vars
  <2> QED
    BY <2>2, <2>3, <2>4
<1> QED
  BY <1>3, <1>4, <1>5, <1>6, <1>7 DEF RInv

(* RInv holds in every reachable state. *)
LEMMA ResultInvariance == Spec => [](IInv /\ RInv)
<1>1. Init => RInv
  BY InitResult
<1>2. IInv /\ RInv /\ [Next]_vars => RInv'
  BY InsertResult, CopyResult, ControlResult DEF Next, Returned
<1> QED
  BY <1>1, <1>2, Invariance, PTL DEF Spec

(* When the threads are joined, every round of every element has been over once. *)
LEMMA AllRounds ==
  ASSUME IInv, RInv
  PROVE  /\ Cardinality(Rounds) <= NEles * NUM_HASH_FUNCTIONS
         /\ phase # "generate" => Cardinality(Rounds) = NEles * NUM_HASH_FUNCTIONS
<1>1. /\ NEles \in Nat /\ ntasks \in Nat \ {0}
      /\ IsFiniteSet(Eles) /\ Cardinality(Eles) = NEles
      /\ IsFiniteSet(HashIdx) /\ Cardinality(HashIdx) = NUM_HASH_FUNCTIONS
  <2>1. NEles \in Nat /\ ntasks \in Nat \ {0}
    BY ConstantsOK DEF IInv, TypeOK
  <2>2. IsFiniteSet(0 .. NEles - 1) /\ Cardinality(0 .. NEles - 1) = NEles
    BY <2>1, FS_Interval
  <2>3. IsFiniteSet(0 .. 2) /\ Cardinality(0 .. 2) = 3
    <3>1. 0 \in Int /\ 2 \in Int
      OBVIOUS
    <3>2. IsFiniteSet(0 .. 2) /\ Cardinality(0 .. 2) = IF 0 > 2 THEN 0 ELSE 2 - 0 + 1
      BY <3>1, FS_Interval
    <3> QED
      BY <3>2
  <2> QED
    BY <2>1, <2>2, <2>3 DEF Eles, HashIdx, NUM_HASH_FUNCTIONS
<1> DEFINE All == Eles \X HashIdx
<1>2. IsFiniteSet(All) /\ Cardinality(All) = NEles * NUM_HASH_FUNCTIONS
  BY <1>1, FS_Product
<1>3. Rounds \in SUBSET All
  BY DEF Rounds
<1>4. Cardinality(Rounds) <= Cardinality(All)
  <2> HIDE DEF All
  <2> QED
    BY <1>2, <1>3, FS_Subset
<1>5. ASSUME phase # "generate"
      PROVE  Rounds = All
  <2>1. ASSUME NEW i \in Eles, NEW k \in HashIdx
        PROVE  \E t \in Tasks : Over(t, i, k)
    <3>1. i \in 0 .. NEles - 1 /\ i \in Nat
      BY DEF Eles
    <3>2. PICK t \in 0 .. ntasks - 1 : i \in Chunk(t, NEles, ntasks)
      BY <1>1, <3>1, ChunksCover
    <3>3. t \in Tasks
      BY DEF Tasks
    <3>4. next[t] >= EndPos(t, NEles, ntasks)
      BY <1>5, <3>3 DEF RInv, PhaseOK
    <3>5. i < EndPos(t, NEles, ntasks)
      BY <3>1, <3>2, <3>3, InChunk
    <3>6. EndPos(t, NEles, ntasks) \in Int /\ next[t] \in Nat
      BY <3>3, Ranges
    <3>7. i < next[t]
      BY <3>1, <3>4, <3>5, <3>6
    <3> QED
      BY <3>2, <3>3, <3>7 DEF Over
  <2> QED
    BY <2>1 DEF Rounds
<1> QED
  BY <1>2, <1>4, <1>5

(* The copy never writes behind res_bins, and fills it: whatever the threads have
   put where, three values per element reach the result. *)
THEOREM ResultIsFull == Spec => []ResultFits
<1>1. IInv /\ RInv => ResultFits
  <2> SUFFICES ASSUME IInv, RInv PROVE ResultFits
    OBVIOUS
  <2>1. /\ IsFiniteSet(Cells) /\ Cardinality(Cells) = Cardinality(Rounds)
        /\ Len(res_bins) = Cardinality(Copied)
    BY DEF RInv, Counts
  <2>2. Copied \in SUBSET Cells
    BY DEF Copied
  <2>3. /\ Cardinality(Copied) <= Cardinality(Cells)
        /\ Cardinality(Copied) \in Nat /\ Cardinality(Cells) \in Nat
    BY <2>1, <2>2, FS_Subset, FS_CardinalityType
  <2>4. ASSUME phase = "done"
        PROVE  Copied = Cells
    <3>1. at[1] = NBins
      BY <2>4 DEF RInv, PhaseOK
    <3>2. ASSUME NEW c \in Cells
          PROVE  c[1] < Merged(c[2])
      <4>1. c[1] \in Tasks /\ c[2] \in Bins
        BY DEF Cells
      <4>2. c[1] < ntasks
        BY <4>1, Ranges
      <4>3. c[2] < NBins
        BY <4>1, ConstantsOK DEF Bins
      <4> QED
        BY <3>1, <4>2, <4>3 DEF Merged
    <3> QED
      BY <3>2 DEF Copied
  <2>5. NEles * NUM_HASH_FUNCTIONS \in Nat
    BY ConstantsOK DEF NUM_HASH_FUNCTIONS
  <2>6. /\ Cardinality(Rounds) <= NEles * NUM_HASH_FUNCTIONS
        /\ phase = "done" => Cardinality(Rounds) = NEles * NUM_HASH_FUNCTIONS
    BY AllRounds
  <2>7. Len(res_bins) <= NEles * NUM_HASH_FUNCTIONS
    BY <2>1, <2>3, <2>5, <2>6
  <2>8. phase = "done" => Len(res_bins) = NEles * NUM_HASH_FUNCTIONS
    BY <2>1, <2>4, <2>6
  <2> QED
    BY <2>7, <2>8 DEF ResultFits
<1> QED
  BY <1>1, ResultInvariance, PTL

(* What a reader finds in bin b when the call is over. *)
LEMMA ReadBin ==
  ASSUME IInv, RInv, phase = "done", NEW b \in Bins
  PROVE  /\ nelesinbin[b] \in Nat
         /\ \A k \in 1 .. nelesinbin[b] : ResultBin(b)[k] = res_bins[Offset(b) + k]
         /\ Merged(b) = ntasks
<1>1. at[1] = NBins
  BY DEF RInv, PhaseOK
<1>2. NBins \in Nat /\ b \in Nat /\ b < NBins /\ nelesinbin \in [Bins -> Nat] /\ res_bins \in Seq(Value)
  BY ConstantsOK DEF Bins, IInv, TypeOK
<1>3. nelesinbin[b] \in Nat /\ Len(res_bins) \in Nat
  BY <1>2
<1>4. Offset(b) \in Nat
  <2>1. nelesinbin \in [0 .. NBins - 1 -> Nat]
    BY <1>2 DEF Bins
  <2>2. IsSums(RunningSums(nelesinbin, NBins), nelesinbin, NBins)
    BY <1>2, <2>1, RunningSumsAre
  <2>3. Offset(b) = RunningSums(nelesinbin, NBins)[b]
    BY Zenon DEF Offset, RunningSums
  <2>4. b \in 0 .. NBins
    BY <1>2
  <2> QED
    BY <2>2, <2>3, <2>4 DEF IsSums
<1>5. Offset(b) + nelesinbin[b] <= Len(res_bins)
  BY <1>1, <1>2 DEF RInv, Layout
<1>6. \A k \in 1 .. nelesinbin[b] : ResultBin(b)[k] = res_bins[Offset(b) + k]
  <2> DEFINE o == Offset(b)
             n == nelesinbin[b]
  <2>1. ResultBin(b) = SubSeq(res_bins, o + 1, o + n)
    BY DEF ResultBin
  <2>2. o \in Nat /\ n \in Nat /\ o + n <= Len(res_bins) /\ res_bins \in Seq(Value)
    BY <1>2, <1>3, <1>4, <1>5
  <2> HIDE DEF o, n
  <2>3. \A k \in 1 .. n : SubSeq(res_bins, o + 1, o + n)[k] = res_bins[o + k]
    <3> TAKE k \in 1 .. n
    <3>1. /\ o + 1 \in 1 .. Len(res_bins) + 1 /\ o + n \in Int
          /\ k \in 1 .. (o + n) - (o + 1) + 1 /\ (o + 1) + k - 1 = o + k
      BY <2>2
    <3> QED
      BY <2>2, <3>1
  <2> QED
    BY <2>1, <2>3 DEF o, n
<1>7. Merged(b) = ntasks
  BY <1>1, <1>2 DEF Merged
<1> QED
  BY <1>3, <1>6, <1>7

(* The counts cut the result where its bins begin, and a bin has only values of
   elements that hash to it, at most once per thread. *)
THEOREM BinsAreGrouped == Spec => []ResultGrouped
<1>1. IInv /\ RInv => ResultGrouped
  <2> SUFFICES ASSUME IInv, RInv, phase = "done"
               PROVE  /\ Offset(NBins) = Len(res_bins)
                      /\ \A b \in Bins : \A k \in 1 .. nelesinbin[b] :
                           ResultBin(b)[k] # Dummy =>
                             /\ \E i \in HashIdx : hash[ResultBin(b)[k]][i] = b
                             /\ Cardinality({m \in 1 .. nelesinbin[b] : ResultBin(b)[m] = ResultBin(b)[k]})
                                  <= ntasks
    BY DEF ResultGrouped
  <2>1. Offset(NBins) = Len(res_bins)
    BY DEF RInv, PhaseOK, Layout
  <2>2. ASSUME NEW b \in Bins, NEW k \in 1 .. nelesinbin[b], ResultBin(b)[k] # Dummy
        PROVE  /\ \E i \in HashIdx : hash[ResultBin(b)[k]][i] = b
               /\ Cardinality({m \in 1 .. nelesinbin[b] : ResultBin(b)[m] = ResultBin(b)[k]}) <= ntasks
    <3> DEFINE v == ResultBin(b)[k]
    <3>1. /\ \A m \in 1 .. nelesinbin[b] : ResultBin(b)[m] = res_bins[Offset(b) + m]
          /\ Merged(b) = ntasks
      BY ReadBin
    <3>2. BinMerged(b)
      BY DEF RInv
    <3>3. PICK t \in Tasks : \E l \in 1 .. Len(bins[t][b]) : v = bins[t][b][l]
      BY <3>1, <3>2 DEF BinMerged
    <3>4. PICK l \in 1 .. Len(bins[t][b]) : v = bins[t][b][l]
      BY <3>3
    <3>5. v \in Eles
      <4>1. bins[t][b] \in Seq(Value)
        BY Ranges
      <4>2. bins[t][b][l] \in Value
        BY <4>1
      <4> QED
        BY <2>2, <3>4, <4>2 DEF Value
    <3>6. \E i \in HashIdx : hash[v][i] = b
      <4>1. TableOf(t)
        BY DEF RInv
      <4> HIDE DEF v
      <4> QED
        BY <3>4, <3>5, <4>1 DEF TableOf
    <3>7. {m \in 1 .. nelesinbin[b] : ResultBin(b)[m] = v} = Places(b, v)
      <4> HIDE DEF v
      <4> QED
        BY <3>1 DEF Places
    <3>8. Cardinality(Places(b, v)) <= ntasks
      <4> HIDE DEF v
      <4> QED
        BY <3>1, <3>2, <3>5 DEF BinMerged
    <3> QED
      BY <3>6, <3>7, <3>8
  <2> QED
    BY <2>1, <2>2
<1> QED
  BY <1>1, ResultInvariance, PTL

(* Whatever the number of threads, the elements of the first thread's chunk have
   their value in every bin they hash to. *)
THEOREM FirstChunkArrives == Spec => []FirstChunkStored
<1>1. IInv /\ RInv => FirstChunkStored
  <2> SUFFICES ASSUME IInv, RInv, phase = "done", NEW e \in Eles, e < CeilDivide(NEles, ntasks),
                      NEW i \in HashIdx
               PROVE  \E k \in 1 .. nelesinbin[hash[e][i]] : ResultBin(hash[e][i])[k] = e
    BY DEF FirstChunkStored, Stored
  <2> DEFINE b == hash[e][i]
  <2>1. b \in Bins /\ 0 \in Tasks /\ NEles \in Nat /\ ntasks \in Nat \ {0} /\ e \in Nat /\ e < NEles
    BY ConstantsOK DEF IInv, TypeOK, Tasks, Eles
  <2> HIDE DEF b
  <2>2. Passed(0, e, i)
    <3>1. next[0] >= EndPos(0, NEles, ntasks) /\ next[0] \in Nat
      BY <2>1, Ranges DEF RInv, PhaseOK
    <3>2. CeilDivide(NEles, ntasks) \in Nat
      BY <2>1, CeilDivideBounds
    <3>3. StartPos(0, NEles, ntasks) = 0
      BY <3>2 DEF StartPos
    <3>4. e < EndPos(0, NEles, ntasks) /\ EndPos(0, NEles, ntasks) \in Nat
      BY <2>1, <3>2, <3>3 DEF EndPos, Lesser
    <3>5. EleAt(0, next[0]) = next[0]
      BY <3>1, <3>3 DEF EleAt
    <3> QED
      BY <2>1, <3>1, <3>4, <3>5 DEF Passed
  <2>3. PICK l \in 1 .. Len(bins[0][b]) : bins[0][b][l] = e
    <3>1. TableOf(0)
      BY <2>1 DEF RInv
    <3> QED
      BY <2>1, <2>2, <3>1 DEF TableOf, b
  <2>4. /\ \A k \in 1 .. nelesinbin[b] : ResultBin(b)[k] = res_bins[Offset(b) + k]
        /\ Merged(b) = ntasks
    BY <2>1, ReadBin
  <2>5. BinMerged(b)
    BY <2>1 DEF RInv
  <2>6. \E k \in 1 .. nelesinbin[b] : res_bins[Offset(b) + k] = bins[0][b][l]
    BY <2>1, <2>4, <2>5 DEF BinMerged
  <2> QED
    BY <2>3, <2>4, <2>6 DEF b
<1> QED
  BY <1>1, ResultInvariance, PTL

(* Bin b is met by two hash functions of one element. *)
MetTwice(b) ==
  \E e \in Eles : \E i, j \in HashIdx : i # j /\ hash[e][i] = b /\ hash[e][j] = b

(* A dummy is only written where a hash function meets the bin of an earlier one. *)
DummiesOf(t) ==
  \A b \in Bins : \A l \in 1 .. Len(bins[t][b]) : bins[t][b][l] = Dummy => MetTwice(b)

(* The round of a thread writes a dummy only for such a bin. *)
LEMMA DummiesInsert ==
  ASSUME IInv, NEW t \in Tasks, InsertValue(t), \A u \in Tasks : DummiesOf(u)
  PROVE  \A u \in Tasks : DummiesOf(u)'
<1> DEFINE e == EleAt(t, next[t])
           k == hf[t]
           c == hash[e][k]
           v == ValueOf(e, k)
<1>1. e \in Eles
  BY ElementRead DEF InsertValue
<1>2. /\ e \in Eles /\ c \in Bins
      /\ bins'[t] = [bins[t] EXCEPT ![c] = Append(bins[t][c], v)]
      /\ \A u \in Tasks : u # t => bins'[u] = bins[u]
      /\ UNCHANGED <<ntasks, hash>>
  BY RoundFacts
<1>3. v = Dummy => MetTwice(c)
  <2> SUFFICES ASSUME v = Dummy PROVE MetTwice(c)
    OBVIOUS
  <2>1. e # Dummy
    BY <1>1, ConstantsOK DEF Eles
  <2>2. PICK j \in 0 .. k - 1 : hash[e][j] = hash[e][k]
    BY <2>1 DEF ValueOf
  <2>3. k \in 0 .. 2 /\ k \in HashIdx
    BY Ranges
  <2>4. j \in HashIdx /\ j # k
    BY <2>2, <2>3 DEF HashIdx, NUM_HASH_FUNCTIONS
  <2> QED
    BY <1>1, <2>2, <2>3, <2>4 DEF MetTwice
<1>4. \A b \in Bins : MetTwice(b)' <=> MetTwice(b)
  BY <1>2 DEF MetTwice
<1>5. \A b \in Bins : bins[t][b] \in Seq(Value)
  BY Ranges
<1>6. bins[t] \in [Bins -> Seq(Value)]
  BY DEF IInv, TypeOK
<1> HIDE DEF e, k, c, v
<1>7. ASSUME NEW b \in Bins, NEW l \in 1 .. Len(bins'[t][b]), bins'[t][b][l] = Dummy
      PROVE  MetTwice(b)
  <2>1. CASE b = c
    <3>1. bins'[t][b] = Append(bins[t][b], v)
      BY <1>2, <1>6, <2>1
    <3>2. /\ Len(Append(bins[t][b], v)) = Len(bins[t][b]) + 1 /\ Len(bins[t][b]) \in Nat
          /\ \A m \in 1 .. Len(bins[t][b]) : Append(bins[t][b], v)[m] = bins[t][b][m]
          /\ Append(bins[t][b], v)[Len(bins[t][b]) + 1] = v
      BY <1>5, Appended
    <3>3. CASE l \in 1 .. Len(bins[t][b])
      BY <1>7, <3>1, <3>2, <3>3 DEF DummiesOf
    <3>4. CASE l = Len(bins[t][b]) + 1
      BY <1>3, <1>7, <2>1, <3>1, <3>2, <3>4
    <3> QED
      BY <1>7, <3>1, <3>2, <3>3, <3>4
  <2>2. CASE b # c
    <3>1. bins'[t][b] = bins[t][b]
      BY <1>2, <1>6, <2>2
    <3> QED
      BY <1>7, <3>1 DEF DummiesOf
  <2> QED
    BY <2>1, <2>2
<1>8. ASSUME NEW u \in Tasks
      PROVE  DummiesOf(u)'
  <2>1. CASE u = t
    BY <1>4, <1>7, <2>1 DEF DummiesOf
  <2>2. CASE u # t
    BY <1>2, <1>4, <2>2 DEF DummiesOf
  <2> QED
    BY <2>1, <2>2
<1> QED
  BY <1>8

(* In every bin of every table, a dummy stands for a second hash function. *)
LEMMA DummiesAlways == Spec => []\A t \in Tasks : DummiesOf(t)
<1> DEFINE DInv == \A t \in Tasks : DummiesOf(t)
<1>1. Init => DInv
  <2> SUFFICES ASSUME Init, NEW t \in Tasks, NEW b \in Bins
               PROVE  bins[t][b] = <<>>
    BY DEF DummiesOf
  <2> QED
    BY DEF Init
<1>2. IInv /\ DInv /\ [Next]_vars => DInv'
  <2> SUFFICES ASSUME IInv, DInv, [Next]_vars PROVE DInv'
    OBVIOUS
  <2>1. CASE \E t \in Tasks : InsertValue(t)
    <3>1. PICK t \in Tasks : InsertValue(t)
      BY <2>1
    <3>2. Tasks' = Tasks
      BY <3>1 DEF InsertValue, Tasks
    <3> QED
      BY <3>1, <3>2, DummiesInsert
  <2>2. CASE JoinTasks \/ CopyBin \/ Return \/ Returned \/ UNCHANGED vars
    <3>1. UNCHANGED <<ntasks, hash, bins>>
      BY <2>2 DEF JoinTasks, CopyBin, Return, Returned, vars, tableVars
    <3> QED
      BY <3>1 DEF DummiesOf, MetTwice, Tasks
  <2> QED
    BY <2>1, <2>2 DEF Next
<1> QED
  BY <1>1, <1>2, Invariance, PTL DEF Spec

(* In the result as well: a dummy is only in a bin that two hash functions of one element
   meet, so that an element of the other side meets it nowhere else. *)
THEOREM DummiesAreRepeats ==
  Spec => [](phase = "done" =>
               \A b \in Bins : \A k \in 1 .. nelesinbin[b] : ResultBin(b)[k] = Dummy => MetTwice(b))
<1>1. IInv /\ RInv /\ (\A t \in Tasks : DummiesOf(t)) /\ phase = "done" =>
        \A b \in Bins : \A k \in 1 .. nelesinbin[b] : ResultBin(b)[k] = Dummy => MetTwice(b)
  <2> SUFFICES ASSUME IInv, RInv, \A t \in Tasks : DummiesOf(t), phase = "done",
                      NEW b \in Bins, NEW k \in 1 .. nelesinbin[b], ResultBin(b)[k] = Dummy
               PROVE  MetTwice(b)
    OBVIOUS
  <2>1. ResultBin(b)[k] = res_bins[Offset(b) + k]
    BY ReadBin
  <2>2. BinMerged(b)
    BY DEF RInv
  <2>3. PICK t \in Tasks : \E l \in 1 .. Len(bins[t][b]) : res_bins[Offset(b) + k] = bins[t][b][l]
    BY <2>2 DEF BinMerged
  <2> QED
    BY <2>1, <2>3 DEF DummiesOf
<1> QED
  BY <1>1, ResultInvariance, DummiesAlways, PTL
================================================================================
