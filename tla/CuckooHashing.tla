------------------------------ MODULE CuckooHashing ------------------------------
(***************************************************************************)
(* The client's hash table: cuckoo_hashing in src/hashing/cuckoo.cpp.      *)
(*                                                                         *)
(* Worker threads fill cuckoo_entries, one entry per element; the caller   *)
(* joins them, inserts the entries one after the other with a bounded      *)
(* eviction walk, and scans the bins into the three arrays that the OPRG   *)
(* evaluation and the intersection step use: hash_table (a value per bin), *)
(* nelesinbin (0 or 1 per bin) and perm (the element behind the k-th       *)
(* occupied bin).                                                          *)
(*                                                                         *)
(* An element is named by its index in the client's set, and a pointer to  *)
(* a cuckoo entry by the index of that entry.  What hashElement returns    *)
(* for an element is fixed but unknown: hash is chosen once, and the value *)
(* that goes into a bin is represented by the element it was computed of.  *)
(***************************************************************************)
EXTENDS Integers, FiniteSets, Sequences, TaskPartition

CONSTANTS
  NEles,        \* neles, the size of the client's set
  NBins,        \* nbins = ceil(epsilon * neles)
  TaskCounts,   \* the values of ntasks that are considered
  Hashes,       \* the address triples that hashElement may return
  NoEntry       \* the NULL pointer of a bin, and "garbage" in an entry

NUM_HASH_FUNCTIONS == 3

HashIdx == 0 .. NUM_HASH_FUNCTIONS - 1

Eles == 0 .. NEles - 1

Bins == 0 .. NBins - 1

(* cuckoo_entry_ctx; val stands for the value computed from element val. *)
Entry == [eleid : Eles, val : Eles, address : Hashes, pos : HashIdx]

ASSUME ConstantsOK ==
  /\ NEles \in Nat \ {0}
  /\ NBins \in Nat \ {0}
  /\ TaskCounts \subseteq Nat \ {0}
  /\ Hashes \subseteq [HashIdx -> Bins]
  /\ NoEntry \notin Nat \cup Entry

VARIABLES
  ntasks,       \* number of worker threads of this call
  hash,         \* hash[e]: the addresses hashElement computes for element e
  phase,        \* "generate", "insert", "scan" or "done"
  next,         \* next[t]: loop variable i of gen_cuckoo_entries in thread t
  entry,        \* cuckoo_entries, uninitialised at first
  table,        \* cuckoo_table: the entry that each bin points to
  fed,          \* loop variable i of the insertion loop
  evicted,      \* the entry insert_element carries, NoEntry between two calls
  iter,         \* iter_cnt of insert_element
  reported,     \* the i of every "Insertion not successful for element i"
  scan,         \* loop variable i of the final scan
  hash_table,   \* per bin, the element whose value it holds (NoEntry: dummy)
  nelesinbin,   \* per bin, the number of elements in it
  perm          \* the element ids written through perm_ptr

vars == <<ntasks, hash, phase, next, entry, table, fed, evicted, iter,
          reported, scan, hash_table, nelesinbin, perm>>

threadVars == <<ntasks, hash, next>>
scanVars == <<scan, hash_table, nelesinbin, perm>>

Tasks == 0 .. ntasks - 1

Resident == {e \in Eles : \E b \in Bins : table[b] = e}

Carried == IF evicted = NoEntry THEN {} ELSE {evicted}

Init ==
  /\ ntasks \in TaskCounts
  /\ hash \in [Eles -> Hashes]
  /\ phase = "generate"
  /\ next = [t \in Tasks |-> StartPos(t, NEles, ntasks)]
  /\ entry = [e \in Eles |-> NoEntry]
  /\ table = [b \in Bins |-> NoEntry]
  /\ fed = 0
  /\ evicted = NoEntry
  /\ iter = 0
  /\ reported = {}
  /\ scan = 0
  /\ hash_table = [b \in Bins |-> NoEntry]
  /\ nelesinbin = [b \in Bins |-> 0]
  /\ perm = <<>>

(***************************************************************************)
(* The threads.                                                            *)
(***************************************************************************)

(* A thread that forgets to move its pointer to its own chunk. *)
EleAtWithoutOffset(t, i) == i - StartPos(t, NEles, ntasks)

(* The element that eleptr points at in round i of thread t: the pointer
   starts at elements + inbytelen * startpos and moves along with i. *)
EleAt(t, i) == StartPos(t, NEles, ntasks) + (i - StartPos(t, NEles, ntasks))

NewEntry(i, e) == [eleid |-> i, val |-> e, address |-> hash[e], pos |-> 0]

(* One round of gen_cuckoo_entries in thread t. *)
GenCuckooEntry(t) ==
  /\ phase = "generate"
  /\ next[t] < EndPos(t, NEles, ntasks)
  /\ entry' = [entry EXCEPT ![next[t]] = NewEntry(next[t], EleAt(t, next[t]))]
  /\ next' = [next EXCEPT ![t] = @ + 1]
  /\ UNCHANGED <<ntasks, hash, phase, table, fed, evicted, iter, reported>>
  /\ UNCHANGED scanVars

(* The pthread_join loop: insertion starts when every thread has returned. *)
JoinTasks ==
  /\ phase = "generate"
  /\ \A t \in Tasks : next[t] >= EndPos(t, NEles, ntasks)
  /\ phase' = "insert"
  /\ UNCHANGED <<threadVars, entry, table, fed, evicted, iter, reported, scanVars>>

(***************************************************************************)
(* insert_element.                                                         *)
(***************************************************************************)

(* pos ^ iter_cnt for a position below 4. *)
Xor(p, n) == 4 * (n \div 4) + 2 * (((p \div 2) + (n \div 2)) % 2) + ((p + n) % 2)

Bin(e, i) == entry[e].address[i]

(* A placement that does not look whether the bin is taken. *)
FreeIdxUnchecked(e) == HashIdx

(* The hash functions under which the entry meets an empty bin. *)
FreeIdx(e) == {i \in HashIdx : table[Bin(e, i)] = NoEntry}

(* A victim picked by bin number instead of by hash function. *)
VictimBinUnhashed(e) == Xor(entry[e].pos, iter) % NBins

(* The bin whose entry is thrown out when all bins of e are taken. *)
VictimBin(e) == Bin(e, Xor(entry[e].pos, iter) % NUM_HASH_FUNCTIONS)

(* A position that is not reduced. *)
NextPosUnreduced(p) == p + 1

NextPos(p) == (p + 1) % NUM_HASH_FUNCTIONS

(* The call of insert_element for the next entry. *)
BeginInsert ==
  /\ phase = "insert"
  /\ evicted = NoEntry
  /\ fed < NEles
  /\ evicted' = fed
  /\ fed' = fed + 1
  /\ iter' = 0
  /\ UNCHANGED <<threadVars, phase, entry, table, reported, scanVars>>

(* A round that finds an empty bin: the first one in the order of the hash
   functions takes the entry, and the call returns true. *)
Place ==
  /\ evicted # NoEntry
  /\ iter < NEles
  /\ \E i \in FreeIdx(evicted) :
       /\ \A j \in FreeIdx(evicted) : i <= j
       /\ table' = [table EXCEPT ![Bin(evicted, i)] = evicted]
       /\ entry' = [entry EXCEPT ![evicted].pos = i]
  /\ evicted' = NoEntry
  /\ UNCHANGED <<threadVars, phase, fed, iter, reported, scanVars>>

(* A loop that does not count its rounds. *)
NextIterStuck == iter

(* The next round of the walk carries the entry that was thrown out. *)
NextIter == iter + 1

(* A round that finds every bin taken: the carried entry takes the place of
   another one, which is carried on.  Only the pos of the latter changes. *)
Evict ==
  /\ evicted # NoEntry
  /\ iter < NEles
  /\ FreeIdx(evicted) = {}
  /\ LET bin == VictimBin(evicted)
         victim == table[bin]
     IN /\ table' = [table EXCEPT ![bin] = evicted]
        /\ entry' = [entry EXCEPT ![victim].pos = NextPos(@)]
        /\ evicted' = victim
  /\ iter' = NextIter
  /\ UNCHANGED <<threadVars, phase, fed, reported, scanVars>>

(* max_iterations = neles rounds are over: insert_element returns false, the
   entry it carries is in no bin, and the caller prints the index of the
   element it was inserting. *)
GiveUp ==
  /\ evicted # NoEntry
  /\ iter >= NEles
  /\ evicted' = NoEntry
  /\ reported' = reported \cup {fed - 1}
  /\ UNCHANGED <<threadVars, phase, entry, table, fed, iter, scanVars>>

(***************************************************************************)
(* The scan of the bins into the result.                                   *)
(***************************************************************************)

BeginScan ==
  /\ phase = "insert"
  /\ evicted = NoEntry
  /\ fed = NEles
  /\ phase' = "scan"
  /\ UNCHANGED <<threadVars, entry, table, fed, evicted, iter, reported, scanVars>>

(* A perm_ptr that advances on empty bins, too. *)
PermOfBin(b) == IF table[b] = NoEntry THEN <<0>> ELSE <<entry[table[b]].eleid>>

(* What the scan appends to perm for bin b. *)
PermOf(b) == IF table[b] = NoEntry THEN <<>> ELSE <<entry[table[b]].eleid>>

ScanBin ==
  /\ phase = "scan"
  /\ scan < NBins
  /\ LET e == table[scan] IN
       /\ hash_table' = [hash_table EXCEPT ![scan] =
                           IF e = NoEntry THEN NoEntry ELSE entry[e].val]
       /\ nelesinbin' = [nelesinbin EXCEPT ![scan] = IF e = NoEntry THEN 0 ELSE 1]
  /\ perm' = perm \o PermOf(scan)
  /\ scan' = scan + 1
  /\ UNCHANGED <<threadVars, phase, entry, table, fed, evicted, iter, reported>>

Return ==
  /\ phase = "scan"
  /\ scan = NBins
  /\ phase' = "done"
  /\ UNCHANGED <<threadVars, entry, table, fed, evicted, iter, reported, scanVars>>

(* The call is over. *)
Returned == phase = "done" /\ UNCHANGED vars

Next ==
  \/ \E t \in Tasks : GenCuckooEntry(t)
  \/ JoinTasks
  \/ BeginInsert
  \/ Place
  \/ Evict
  \/ GiveUp
  \/ BeginScan
  \/ ScanBin
  \/ Return
  \/ Returned

Spec == Init /\ [][Next]_vars

(* The operating system runs every thread that has not returned, and the
   caller is a thread of its own: no step of either waits for anything but
   what its guard says. *)
FairSpec ==
  /\ Spec
  /\ \A t \in UNION {0 .. k - 1 : k \in TaskCounts} :
       WF_vars(t \in Tasks /\ GenCuckooEntry(t))
  /\ WF_vars(JoinTasks \/ BeginInsert \/ Place \/ Evict \/ GiveUp
             \/ BeginScan \/ ScanBin \/ Return)

--------------------------------------------------------------------------------
(***************************************************************************)
(* Properties.                                                             *)
(***************************************************************************)

TypeOK ==
  /\ ntasks \in TaskCounts
  /\ hash \in [Eles -> Hashes]
  /\ phase \in {"generate", "insert", "scan", "done"}
  /\ next \in [Tasks -> Nat]
  /\ entry \in [Eles -> Entry \cup {NoEntry}]
  /\ table \in [Bins -> Eles \cup {NoEntry}]
  /\ fed \in 0 .. NEles
  /\ evicted \in Eles \cup {NoEntry}
  /\ iter \in 0 .. NEles
  /\ reported \subseteq Eles
  /\ scan \in 0 .. NBins
  /\ hash_table \in [Bins -> Eles \cup {NoEntry}]
  /\ nelesinbin \in [Bins -> {0, 1}]
  /\ perm \in Seq(Eles)

(* Insertion never reads an entry that no thread has written, nor one that a
   thread computed from another element: the threads' chunks of the set cover
   it, and every thread reads the elements of its own chunk. *)
EntriesReady ==
  phase # "generate" =>
    \A e \in Eles :
      /\ entry[e] # NoEntry
      /\ entry[e].eleid = e
      /\ entry[e].val = e
      /\ entry[e].address = hash[e]

(* At every point of every eviction walk: an entry in a bin hashes to that bin,
   has been fed, and is in no other bin, and the carried entry is in no bin.  *)
PlacementSound ==
  /\ \A b \in Bins : table[b] # NoEntry =>
       /\ \E i \in HashIdx : hash[table[b]][i] = b
       /\ table[b] < fed
  /\ \A b, c \in Bins : table[b] = table[c] /\ table[b] # NoEntry => b = c
  /\ evicted # NoEntry => evicted < fed /\ \A b \in Bins : table[b] # evicted

(* Every element fed so far is in a bin, carried, or paid for by exactly one
   message: an insertion loses at most one element, and loses none silently.  *)
NothingLostSilently ==
  Cardinality(Resident) + Cardinality(Carried) + Cardinality(reported) = fed

(* The number of occupied bins up to and including b. *)
Rank(b) == Cardinality({c \in 0 .. b : nelesinbin[c] = 1})

(* The OPRG writes one mask per occupied bin, in the order of the bins, and the
   intersection step takes perm[k] for the element behind the k-th mask.  So
   the k-th entry of perm must be the element whose value sits in the k-th
   occupied bin, and perm has room for neles entries. *)
PermNumbersMasks ==
  phase = "done" =>
    /\ Len(perm) = Cardinality({b \in Bins : nelesinbin[b] = 1})
    /\ Len(perm) <= NEles
    /\ \A b \in Bins : nelesinbin[b] = 1 => perm[Rank(b)] = hash_table[b]
    /\ \A b \in Bins : nelesinbin[b] = 1 <=> hash_table[b] # NoEntry

(* However the walks go, cuckoo_hashing returns. *)
Returns == <>(phase = "done")

(* The elements that the caller finds in perm. *)
PermRange == {perm[k] : k \in DOMAIN perm}

Store == INSTANCE LossyStore WITH
  choices   <- hash,
  offered   <- fed,
  unsettled <- (evicted # NoEntry),
  kept      <- Resident \cup Carried,
  delivered <- IF phase = "done" THEN PermRange ELSE {}

(* The table is a store that loses at most one element per insertion, that at every
   moment could have all it keeps in bins of their own, and whose perm names
   what it has kept and nothing else. *)
ImplementsStore == Store!Spec
================================================================================
