------------------------------ MODULE SimpleHashing ------------------------------
(***************************************************************************)
(* The server's hash table: simple_hashing in                              *)
(* src/hashing/simple_hashing.cpp.                                         *)
(*                                                                         *)
(* Every worker thread fills a table of its own with the elements of its   *)
(* round of the set, three values per element, and doubles the bins of     *)
(* that table when one of them is full.  The caller joins the threads and  *)
(* copies the tables bin by bin into one array, res_bins, with the number  *)
(* of values per bin in nelesinbin; the OPRG evaluation walks res_bins     *)
(* with these numbers alone.                                               *)
(*                                                                         *)
(* As in CuckooHashing, hash is what hashElement returns, and a value is   *)
(* represented by the element it was computed of.                          *)
(***************************************************************************)
EXTENDS Integers, FiniteSets, Sequences, TaskPartition

CONSTANTS
  NEles,        \* neles, the size of the server's set
  NBins,        \* nbins, which follows from the size of the client's set
  TaskCounts,   \* the values of ntasks that are considered
  Hashes,       \* the address triples that hashElement may return
  Dummy         \* the value DUMMY_ENTRY_SERVER

NUM_HASH_FUNCTIONS == 3

HashIdx == 0 .. NUM_HASH_FUNCTIONS - 1

Eles == 0 .. NEles - 1

Bins == 0 .. NBins - 1

Value == Eles \cup {Dummy}

ASSUME ConstantsOK ==
  /\ NEles \in Nat \ {0}
  /\ NBins \in Nat \ {0}
  /\ TaskCounts \subseteq Nat \ {0}
  /\ Hashes \subseteq [HashIdx -> Bins]
  /\ Dummy \notin Nat

VARIABLES
  ntasks,       \* number of worker threads of this call
  hash,         \* hash[e]: the addresses hashElement computes for element e
  phase,        \* "generate", "merge" or "done"
  next,         \* next[t]: loop variable i of gen_entries in thread t
  hf,           \* hf[t]: loop variable i of insert_element in thread t
  bins,         \* bins[t][b]: the values in bin b of the table of thread t
  room,         \* room[t][b]: the number of values bins[t][b] has memory for
  maxbinsize,   \* maxbinsize[t], by which the table of thread t judges its bins
  at,           \* <<i, j>>: the loop variables of the merge, bin and table
  nelesinbin,   \* per bin, the number of values in the result
  res_bins      \* the result

vars == <<ntasks, hash, phase, next, hf, bins, room, maxbinsize, at,
          nelesinbin, res_bins>>

mergeVars == <<at, nelesinbin, res_bins>>
tableVars == <<next, hf, bins, room, maxbinsize>>

Tasks == 0 .. ntasks - 1

(***************************************************************************)
(* init_hash_table.                                                        *)
(***************************************************************************)

(* maxbinsize of a table that is made for n elements. *)
InitialSize(n) ==
  IF CeilDivide(n, NBins) < 3 THEN 3 * Greater(ceil_log2(n), 3)
                              ELSE 6 * Greater(CeilDivide(n, NBins), 3)

Init ==
  /\ ntasks \in TaskCounts
  /\ hash \in [Eles -> Hashes]
  /\ phase = "generate"
  /\ next = [t \in Tasks |-> StartPos(t, NEles, ntasks)]
  /\ hf = [t \in Tasks |-> 0]
  /\ bins = [t \in Tasks |-> [b \in Bins |-> <<>>]]
  /\ maxbinsize = [t \in Tasks |-> InitialSize(CeilDivide(NEles, ntasks))]
  /\ room = [t \in Tasks |-> [b \in Bins |-> maxbinsize[t]]]
  /\ at = <<0, 0>>
  /\ nelesinbin = [b \in Bins |-> 0]
  /\ res_bins = <<>>

(***************************************************************************)
(* gen_entries and insert_element.                                         *)
(***************************************************************************)

(* The element that eleptr points at in round i of thread t.  The pointer
   starts at ctx->elements in every thread, whatever its startpos. *)
EleAt(t, i) == i - StartPos(t, NEles, ntasks)

(* A duplicate test that also compares the address with itself. *)
ValueOfAllSeen(e, k) == IF \E j \in 0 .. k : hash[e][j] = hash[e][k] THEN Dummy ELSE e

(* No duplicate test. *)
ValueAlways(e, k) == e

(* What hash function k contributes for element e: the value, or a dummy when an
   earlier hash function has the same address. *)
ValueOf(e, k) == IF \E j \in 0 .. k - 1 : hash[e][j] = hash[e][k] THEN Dummy ELSE e

(* A test for a full bin that is made one value late. *)
IsFullLate(n, size) == n > size

IsFull(n, size) == n = size

(* increase_max_bin_size gives every bin of the table the new size. *)
Grown(size) == [c \in Bins |-> size]

(* A loop over the hash functions that starts again without its reset. *)
NextHfUnreset(k) == k + 1

NextHf(k) == IF k = NUM_HASH_FUNCTIONS - 1 THEN 0 ELSE k + 1

(* One round of the loop of insert_element in thread t: a value is written behind
   the last one of its bin, and a bin that is full then makes the table grow. *)
InsertValue(t) ==
  /\ phase = "generate"
  /\ next[t] < EndPos(t, NEles, ntasks)
  /\ LET e == EleAt(t, next[t])
         b == hash[e][hf[t]]
         full == IsFull(Len(bins[t][b]) + 1, maxbinsize[t])
     IN /\ bins' = [bins EXCEPT ![t][b] = Append(@, ValueOf(e, hf[t]))]
        /\ maxbinsize' = [maxbinsize EXCEPT ![t] = IF full THEN 2 * @ ELSE @]
        /\ room' = [room EXCEPT ![t] = IF full THEN Grown(2 * maxbinsize[t]) ELSE @]
  /\ hf' = [hf EXCEPT ![t] = NextHf(@)]
  /\ next' = [next EXCEPT ![t] = IF hf[t] = NUM_HASH_FUNCTIONS - 1 THEN @ + 1 ELSE @]
  /\ UNCHANGED <<ntasks, hash, phase, mergeVars>>

(* The pthread_join loop. *)
JoinTasks ==
  /\ phase = "generate"
  /\ \A t \in Tasks : next[t] >= EndPos(t, NEles, ntasks)
  /\ phase' = "merge"
  /\ UNCHANGED <<ntasks, hash, tableVars, mergeVars>>

(***************************************************************************)
(* The copy of the tables into the result.                                 *)
(***************************************************************************)

(* A count that is set by every table instead of added to. *)
CountedLast(count, n) == n

Counted(count, n) == count + n

(* One round of the inner loop: bin i of table j goes behind what is there. *)
CopyBin ==
  /\ phase = "merge"
  /\ at[1] < NBins
  /\ LET i == at[1]
         j == at[2]
     IN /\ nelesinbin' = [nelesinbin EXCEPT ![i] = Counted(@, Len(bins[j][i]))]
        /\ res_bins' = res_bins \o bins[j][i]
        /\ at' = IF j = ntasks - 1 THEN <<i + 1, 0>> ELSE <<i, j + 1>>
  /\ UNCHANGED <<ntasks, hash, phase, tableVars>>

Return ==
  /\ phase = "merge"
  /\ at[1] = NBins
  /\ phase' = "done"
  /\ UNCHANGED <<ntasks, hash, tableVars, mergeVars>>

(* The call is over. *)
Returned == phase = "done" /\ UNCHANGED vars

Next ==
  \/ \E t \in Tasks : InsertValue(t)
  \/ JoinTasks
  \/ CopyBin
  \/ Return
  \/ Returned

Spec == Init /\ [][Next]_vars

--------------------------------------------------------------------------------
(***************************************************************************)
(* Properties.                                                             *)
(***************************************************************************)

TypeOK ==
  /\ ntasks \in TaskCounts
  /\ hash \in [Eles -> Hashes]
  /\ phase \in {"generate", "merge", "done"}
  /\ next \in [Tasks -> Nat]
  /\ hf \in [Tasks -> HashIdx]
  /\ bins \in [Tasks -> [Bins -> Seq(Value)]]
  /\ room \in [Tasks -> [Bins -> Nat]]
  /\ maxbinsize \in [Tasks -> Nat]
  /\ at \in (0 .. NBins) \X Tasks
  /\ nelesinbin \in [Bins -> Nat]
  /\ res_bins \in Seq(Value)

(* The assertion that insert_element has commented out (simple_hashing.cpp:139),
   about the memory that there is and not only about maxbinsize: before every
   write each bin of the table has room for one more value. *)
BinsFit ==
  \A t \in Tasks, b \in Bins : Len(bins[t][b]) < room[t][b]

(* res_bins is allocated for neles * NUM_HASH_FUNCTIONS values.  The copy never
   writes more, whatever the threads have put where, and in the end it has
   filled the array: no uninitialised value goes into the OPRG. *)
ResultFits ==
  /\ Len(res_bins) <= NEles * NUM_HASH_FUNCTIONS
  /\ phase = "done" => Len(res_bins) = NEles * NUM_HASH_FUNCTIONS

(* Offset(b): the values in the bins before b, by the counts alone. *)
Offset(b) ==
  LET before[c \in 0 .. NBins] == IF c = 0 THEN 0 ELSE before[c - 1] + nelesinbin[c - 1]
  IN before[b]

(* What a reader of the result finds in bin b. *)
ResultBin(b) == SubSeq(res_bins, Offset(b) + 1, Offset(b) + nelesinbin[b])

(* The counts cut the result where its bins begin: what a reader takes for bin b
   is a value of an element that hashes to b, or a dummy, and the values of an
   element come from different threads. *)
ResultGrouped ==
  phase = "done" =>
    /\ Offset(NBins) = Len(res_bins)
    /\ \A b \in Bins : \A k \in 1 .. nelesinbin[b] :
         LET v == ResultBin(b)[k] IN
           v # Dummy => /\ \E i \in HashIdx : hash[v][i] = b
                        /\ Cardinality({m \in 1 .. nelesinbin[b] : ResultBin(b)[m] = v}) <= ntasks

(* Element e has its value in every bin that it hashes to. *)
Stored(e) ==
  \A i \in HashIdx : \E k \in 1 .. nelesinbin[hash[e][i]] : ResultBin(hash[e][i])[k] = e

(* What the result holds for every number of threads: the elements of the first
   thread's chunk.  That is the whole set if there is one thread. *)
FirstChunkStored ==
  phase = "done" => \A e \in Eles : e < CeilDivide(NEles, ntasks) => Stored(e)

(* "Insert elements in parallel" (simple_hashing.cpp:100), and the element pointer
   of the client's gen_cuckoo_entries: the threads together insert every element.
   The code does not: every thread starts at the first element. *)
EveryElementStored == phase = "done" => \A e \in Eles : Stored(e)
================================================================================
