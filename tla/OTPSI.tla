--------------------------------- MODULE OTPSI ---------------------------------
(***************************************************************************)
(* The OT-based protocol, src/ot-based/ot-psi.cpp: the client's cuckoo     *)
(* table and the server's simple table, the masks that the OPRG evaluation *)
(* gives for them, the transfer of the server's masks and the search for   *)
(* matches.                                                                *)
(*                                                                         *)
(* The two tables are the modules CuckooHashing and SimpleHashing, step by *)
(* step; HashAddress says where the elements go and by what they are       *)
(* represented.  A mask is named by what the OPRG computes it from: the    *)
(* bin and the value.  The OT extension that does so is one step here, in  *)
(* which both parties take part.                                           *)
(***************************************************************************)
EXTENDS Integers, FiniteSets, Sequences, ResultOrder, HashAddress

CONSTANTS
  NClient, NServer,   \* the sizes of the two sets
  Inputs,             \* pairs of sets in memory
  Tables,             \* the tables of random words that the common seed gives
  Lookups,            \* how the client looks a mask up
  Capacity,           \* masks that fit into the buffers of the connection
  NoEntry, Dummy      \* as in CuckooHashing and SimpleHashing

(* nbins, from the default epsilon of 1.2 and the size of the client's set. *)
NBins == CeilDivide(12 * NClient, 10)

Bins == 0 .. NBins - 1

ClientEles == 0 .. NClient - 1

ServerEles == 0 .. NServer - 1

(* A mask; the place of an element that is in no bin keeps its zeroes. *)
ZeroMask == <<NBins, 0>>

VARIABLES
  input,       \* the sets of the two parties
  hf,          \* the tables of the hash functions
  lookup,      \* long: a mask is longer than eight bytes; words: the number of values
               \* that the 32 bits which the lookup uses take, 0 if they are distinct
  \* the variables of cuckoo_hashing and simple_hashing
  cNtasks, cHash, cPhase, cNext, cEntry, cTable, cFed, cEvicted, cIter, cReported,
  cScan, cHashTable, cNelesinbin, cPerm,
  sNtasks, sHash, sPhase, sNext, sHf, sBins, sRoom, sMaxbinsize, sAt, sNelesinbin, sResBins,
  cpc, spc,    \* where the client and the server are
  masks,       \* the client's masks
  serverMasks, \* the server's masks
  sent,        \* number of masks that the server has sent
  chan,        \* masks on their way to the client
  received,    \* server_masks of the client
  query,       \* loop variable i of the second loop of otpsi_find_intersection
  matches,     \* the matches
  overrun,     \* matches was written behind its end
  result       \* the indices of the elements in the client's result

cuckooVars == <<cNtasks, cHash, cPhase, cNext, cEntry, cTable, cFed, cEvicted, cIter,
                cReported, cScan, cHashTable, cNelesinbin, cPerm>>
simpleVars == <<sNtasks, sHash, sPhase, sNext, sHf, sBins, sRoom, sMaxbinsize, sAt,
                sNelesinbin, sResBins>>
inputVars == <<input, hf, lookup>>
matchVars == <<query, matches, overrun, result>>
vars == <<inputVars, cuckooVars, simpleVars, cpc, spc, masks, serverMasks, sent, chan,
          received, matchVars>>

Hashes == [HFs -> Bins]

Client == INSTANCE CuckooHashing WITH
  NEles <- NClient, TaskCounts <- {1},
  ntasks <- cNtasks, hash <- cHash, phase <- cPhase, next <- cNext, entry <- cEntry,
  table <- cTable, fed <- cFed, evicted <- cEvicted, iter <- cIter,
  reported <- cReported, scan <- cScan, hash_table <- cHashTable,
  nelesinbin <- cNelesinbin, perm <- cPerm

Server == INSTANCE SimpleHashing WITH
  NEles <- NServer, TaskCounts <- {1},
  ntasks <- sNtasks, hash <- sHash, phase <- sPhase, next <- sNext, hf <- sHf,
  bins <- sBins, room <- sRoom, maxbinsize <- sMaxbinsize, at <- sAt,
  nelesinbin <- sNelesinbin, res_bins <- sResBins

(* Both sets have elements of one length. *)
ASSUME OTPSIOK ==
  /\ NClient \in Nat \ {0} /\ NServer \in Nat \ {0}
  /\ NoEntry \notin Nat \cup Client!Entry /\ Dummy \notin Nat
  /\ Tables \subseteq [HFs -> [0 .. TableRows - 1 -> Nat]]
  /\ \A in \in Inputs :
       /\ SetInMemory(in.client, ClientEles)
       /\ SetInMemory(in.server, ServerEles)
       /\ in.client.bytelen = in.server.bytelen

Init ==
  /\ input \in Inputs
  /\ hf \in Tables
  /\ lookup \in Lookups
  /\ cHash = [i \in ClientEles |-> Address(input.client, hf, NBins, i)]
  /\ sHash = [i \in ServerEles |-> Address(input.server, hf, NBins, i)]
  /\ Client!Init
  /\ Server!Init
  /\ cpc = "hashing"
  /\ spc = "hashing"
  /\ masks = <<>>
  /\ serverMasks = <<>>
  /\ sent = 0
  /\ chan = <<>>
  /\ received = <<>>
  /\ query = 0
  /\ matches = <<>>
  /\ overrun = FALSE
  /\ result = <<>>

(***************************************************************************)
(* The hash tables.                                                        *)
(***************************************************************************)

ClientHashing ==
  /\ cpc = "hashing"
  /\ \/ \E t \in Client!Tasks : Client!GenCuckooEntry(t)
     \/ Client!JoinTasks
     \/ Client!BeginInsert
     \/ Client!Place
     \/ Client!Evict
     \/ Client!GiveUp
     \/ Client!BeginScan
     \/ Client!ScanBin
     \/ Client!Return
  /\ cpc' = IF cPhase' = "done" THEN "oprg" ELSE cpc
  /\ UNCHANGED <<inputVars, simpleVars, spc, masks, serverMasks, sent, chan, received, matchVars>>

ServerHashing ==
  /\ spc = "hashing"
  /\ \/ \E t \in Server!Tasks : Server!InsertValue(t)
     \/ Server!JoinTasks
     \/ Server!CopyBin
     \/ Server!Return
  /\ spc' = IF sPhase' = "done" THEN "oprg" ELSE spc
  /\ UNCHANGED <<inputVars, cuckooVars, cpc, masks, serverMasks, sent, chan, received, matchVars>>

(***************************************************************************)
(* The OPRG evaluation.                                                    *)
(***************************************************************************)

(* The occupied bins of the client, in order. *)
Occupied(k) ==
  CHOOSE b \in Bins : /\ cNelesinbin[b] = 1
                      /\ Cardinality({c \in 0 .. b : cNelesinbin[c] = 1}) = k + 1

(* oprg_client: a mask for every occupied bin, written one behind the other into a
   buffer for neles masks that was reset. *)
ClientMask(k) ==
  IF k < Cardinality({b \in Bins : cNelesinbin[b] = 1})
  THEN <<Occupied(k), Value(input.client, NBins, cHashTable[Occupied(k)])>>
  ELSE ZeroMask

(* DUMMY_ENTRY_SERVER is the byte 0. *)
ServerValue(v) == IF v = Dummy THEN 0 ELSE Value(input.server, NBins, v)

(* A bin for the j-th value that does not look at the numbers of values. *)
BinOfValueUncounted(j) == j % NBins

(* The bin that the j-th value of the server's table counts for. *)
BinOfValue(j) ==
  CHOOSE b \in Bins : Server!Offset(b) <= j /\ j < Server!Offset(b) + sNelesinbin[b]

(* oprg_server: a mask for every value. *)
ServerMask(j) == <<BinOfValue(j), ServerValue(sResBins[j + 1])>>

(* oprg_client and oprg_server: the OT extension ends when both have run it. *)
Oprg ==
  /\ cpc = "oprg"
  /\ spc = "oprg"
  /\ masks' = [k \in ClientEles |-> ClientMask(k)]
  /\ serverMasks' = [j \in 0 .. NServer * 3 - 1 |-> ServerMask(j)]
  /\ cpc' = "receive"
  /\ spc' = "send"
  /\ UNCHANGED <<inputVars, cuckooVars, simpleVars, sent, chan, received, matchVars>>

(***************************************************************************)
(* The masks of the server.                                                *)
(***************************************************************************)

(* send_masks; otpsi_server returns when everything is in the buffers. *)
SendMask ==
  /\ spc = "send"
  /\ Len(chan) < Capacity
  /\ chan' = Append(chan, serverMasks[sent])
  /\ sent' = sent + 1
  /\ spc' = IF sent' = NServer * 3 THEN "done" ELSE "send"
  /\ UNCHANGED <<inputVars, cuckooVars, simpleVars, cpc, masks, serverMasks, received, matchVars>>

(* A receiver that counts a mask per bin. *)
ExpectedPerBin == NBins * 3

(* rcv_ctx.nmasks. *)
Expected == 3 * NServer

(* receive_masks, in its thread. *)
ReceiveMask ==
  /\ cpc = "receive"
  /\ Len(received) < Expected
  /\ chan # <<>>
  /\ received' = Append(received, Head(chan))
  /\ chan' = Tail(chan)
  /\ UNCHANGED <<inputVars, cuckooVars, simpleVars, cpc, spc, masks, serverMasks, sent, matchVars>>

(* The thread is joined. *)
JoinReceiver ==
  /\ cpc = "receive"
  /\ Len(received) = Expected
  /\ cpc' = "find"
  /\ UNCHANGED <<inputVars, cuckooVars, simpleVars, spc, masks, serverMasks, sent, chan,
                 received, matchVars>>

(***************************************************************************)
(* otpsi_find_intersection.                                                *)
(***************************************************************************)

(* As in find_intersection every entry has the key &tmpbuf, and an entry is found
   by 32 bits of the mask. *)
Low(m) == IF lookup.words = 0 THEN m ELSE <<(m[1] + m[2]) % lookup.words>>

(* What an insertion finds it replaces. *)
Hits(m) == {k \in ClientEles : Low(masks[k]) = Low(m)}

Hit(m) == CHOOSE k \in Hits(m) : \A l \in Hits(m) : l <= k

(* A mask of more than eight bytes is compared by the rest, too, which is taken to
   tell any two masks apart. *)
IsMatch(m) == Hits(m) # {} /\ (lookup.long => masks[Hit(m)] = m)

(* The element of a mask, for masks in the order of the elements. *)
OwnerUnpermuted(k) == k

(* An owner that is the bin of the mask. *)
OwnerBin(k) == IF k < Len(cPerm) THEN Occupied(k) ELSE 0

(* perm of the mask's place; perm was allocated with zeroes. *)
Owner(k) == IF k < Len(cPerm) THEN cPerm[k + 1] ELSE 0

(* One round of the query loop.  When there are neles matches the next one is
   written behind the array, and the counter stays. *)
Query ==
  /\ cpc = "find"
  /\ query < Expected
  /\ LET m == received[query + 1] IN
       IF ~IsMatch(m) THEN UNCHANGED <<matches, overrun>>
       ELSE IF Len(matches) < NClient
       THEN matches' = Append(matches, Owner(Hit(m))) /\ UNCHANGED overrun
       ELSE overrun' = TRUE /\ UNCHANGED matches
  /\ query' = query + 1
  /\ UNCHANGED <<inputVars, cuckooVars, simpleVars, cpc, spc, masks, serverMasks, sent, chan,
                 received, result>>

(* The end of the loop, and create_result_from_matches_fixed_bitlen in otpsi. *)
CreateResult ==
  /\ cpc = "find"
  /\ query = Expected
  /\ cpc' = "done"
  /\ result' = Ascending(matches)
  /\ UNCHANGED <<inputVars, cuckooVars, simpleVars, spc, masks, serverMasks, sent, chan,
                 received, query, matches, overrun>>

(* Both calls are over. *)
Ended == cpc = "done" /\ spc = "done" /\ UNCHANGED vars

ClientStep == ClientHashing \/ ReceiveMask \/ JoinReceiver \/ Query \/ CreateResult

ServerStep == ServerHashing \/ SendMask

Next ==
  \/ ClientStep
  \/ ServerStep
  \/ Oprg
  \/ Ended

Spec == Init /\ [][Next]_vars

(* The two processes run; a blocking call returns when it can. *)
FairSpec == Spec /\ WF_vars(ClientStep) /\ WF_vars(ServerStep) /\ WF_vars(Oprg)

--------------------------------------------------------------------------------
(***************************************************************************)
(* Properties.                                                             *)
(***************************************************************************)

Mask == (0 .. NBins) \X Nat

TypeOK ==
  /\ input \in Inputs
  /\ hf \in Tables
  /\ lookup \in Lookups
  /\ Client!TypeOK
  /\ Server!TypeOK
  /\ cpc \in {"hashing", "oprg", "receive", "find", "done"}
  /\ spc \in {"hashing", "oprg", "send", "done"}
  /\ masks = <<>> \/ masks \in [ClientEles -> Mask]
  /\ serverMasks = <<>> \/ serverMasks \in [0 .. NServer * 3 - 1 -> Mask]
  /\ sent \in 0 .. NServer * 3
  /\ chan \in Seq(Mask)
  /\ received \in Seq(Mask)
  /\ query \in 0 .. Expected
  /\ matches \in Seq(ClientEles) /\ Len(matches) <= NClient
  /\ overrun \in BOOLEAN
  /\ result \in Seq(ClientEles)

(* The client's elements that are in its table, and those that the server has. *)
Kept == {e \in ClientEles : \E b \in Bins : cTable[b] = e}

Common == {i \in ClientEles : \E j \in ServerEles : input.client.eles[i] = input.server.eles[j]}

Found == {result[k] : k \in DOMAIN result}

(* hashElement reads nothing but the element: it has a word at least, and as many bytes
   behind the word as are copied. *)
Determined ==
  LET n == input.client.bytelen
  IN /\ n >= WordBytes
     /\ n > WordBytes => outbytelen(n, NBins) - RestOffset(n, NBins) <= n - WordBytes

(* The elements tell the values of each bin apart: a client's element shares a bin
   and a value neither with another element of the server nor with a dummy. *)
Separated ==
  \A i \in ClientEles, j \in ServerEles, k, l \in HFs :
    cHash[i][k] = sHash[j][l] =>
      /\ input.client.eles[i] # input.server.eles[j] =>
           Value(input.client, NBins, i) # Value(input.server, NBins, j)
      /\ (\E m \in HFs \ {l} : sHash[j][m] = sHash[j][l]) => Value(input.client, NBins, i) # 0

(* No two masks are the same for the lookup. *)
LookupExact == lookup.words = 0

(* The client gets the elements that both have, except those that its cuckoo table
   has lost, each once and in the order of its set. *)
ResultExact ==
  cpc = "done" /\ Determined /\ Separated /\ LookupExact =>
    /\ Found = Common \cap Kept
    /\ \A j, k \in DOMAIN result : j < k => result[j] < result[k]

(* Under the same conditions nothing is written behind the array of matches: the
   server's masks of one element are in different bins, or are dummies. *)
MatchesInBounds == Determined /\ Separated /\ LookupExact => ~overrun

(* Elements that share a bin and a value can put wrong elements into the result, but
   as long as the array has room they hide none. *)
FalseMatchesOnlyAdd ==
  cpc = "done" /\ Determined /\ LookupExact /\ ~overrun => Common \cap Kept \subseteq Found

(* The test compares the result with the plaintext intersection: "success &=
   (p_inter_size == ot_inter_size)" and "assert(success)" (test_psi.cpp:90 and 124).
   Here the elements have four bytes or more, the cuckoo table has kept all of them,
   and no two masks collide. *)
AsPlaintext ==
  cpc = "done" /\ Kept = ClientEles /\ LookupExact => Len(result) = Cardinality(Common)

(* The other half of that test: no element of the plaintext intersection is missing,
   for elements of four bytes or more that the cuckoo table has kept. *)
NoneMissing ==
  cpc = "done" /\ input.client.bytelen >= WordBytes /\ LookupExact /\ ~overrun =>
    Common \cap Kept \subseteq Found

(* Both calls return, however small the buffers are. *)
Terminates == <>(cpc = "done" /\ spc = "done")
================================================================================
