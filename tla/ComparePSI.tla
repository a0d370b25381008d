------------------------------- MODULE ComparePSI -------------------------------
(***************************************************************************)
(* The protocols in which two parties exchange a mask per element and      *)
(* compare: naive hashing (src/naive-hashing/naive-psi.cpp) and            *)
(* Diffie-Hellman (src/pk-based/dh-psi.cpp), with what they take from      *)
(* src/util/helpers.h: exchange_information, snd_and_rcv, find_intersection *)
(* and create_result_from_matches.                                         *)
(*                                                                         *)
(* A mask is a record of the element it hides and the parties whose        *)
(* exponent is in it; the naive hash is the mask without an exponent.      *)
(* find_intersection compares masks by 32 bits, low, that are chosen once. *)
(* The work of run_task is one step here: RunTask says when it is that.    *)
(***************************************************************************)
EXTENDS Integers, FiniteSets, Sequences, ResultOrder

CONSTANTS
  SERVER, CLIENT,    \* the two roles
  NAIVE, DH_ECC,     \* the two protocols
  Element,           \* the elements that sets are made of
  Inputs,            \* per role, the array of elements
  Settings,          \* per role, the command line
  LowFns,            \* the 32 bits that each element's mask is compared by
  Capacity           \* masks that fit into the buffers of one direction

Role == {SERVER, CLIENT}

Other(r) == CHOOSE s \in Role : s # r

(* Arrays are functions on 0 .. n-1. *)
Size(a) == Cardinality(DOMAIN a)

IsArray(a, S) == IsFiniteSet(DOMAIN a) /\ a \in [0 .. Size(a) - 1 -> S]

(* What exchange_information compares, and the two options that it does not. *)
Setting == [protocol : {NAIVE, DH_ECC}, bytelen : Nat, cardinality : BOOLEAN]

Mask == [ele : Element, exps : SUBSET Role]

ASSUME ConstantsOK ==
  /\ SERVER # CLIENT
  /\ NAIVE # DH_ECC
  /\ \A in \in Inputs : \A r \in Role :
       /\ IsArray(in[r], Element)
       /\ \A i, j \in DOMAIN in[r] : in[r][i] = in[r][j] => i = j
  /\ Settings \subseteq [Role -> Setting]
  /\ Capacity \in Nat \ {0}

VARIABLES
  elements,     \* elements[r]: the set of r
  setting,      \* setting[r]: the options of r
  low,          \* low[e]: the low word of the masks of e
  pc,           \* pc[r]: where r is
  pneles,       \* pneles[r]: the size of the other set, as received
  perm,         \* perm[r]: the permutation of r's elements
  chan,         \* chan[r]: what is on its way to r
  sent,         \* sent[r]: masks that r's sender thread has sent in this exchange
  got,          \* got[r]: masks that r has received in this exchange
  hashes,       \* hashes[r]: r's own masks
  phashes,      \* phashes[r]: the other's masks
  matches,      \* matches[r]: the matches found so far
  next,         \* next[r]: loop variable i of the second loop of find_intersection
  result        \* result[r]: the indices of the elements in r's result

vars == <<elements, setting, low, pc, pneles, perm, chan, sent, got, hashes,
          phashes, matches, next, result>>

inputVars == <<elements, setting, low>>

PC == {"start", "info", "prepare", "exchange", "second", "answer", "find", "create",
       "done", "aborted"}

NElements(r) == Size(elements[r])

Lesser(x, y) == IF x < y THEN x ELSE y

Bijections(n) ==
  {p \in [0 .. n - 1 -> 0 .. n - 1] : \A i, j \in 0 .. n - 1 : p[i] = p[j] => i = j}

Init ==
  /\ elements \in Inputs
  /\ setting \in Settings
  /\ low \in LowFns
  /\ pc = [r \in Role |-> "start"]
  /\ pneles = [r \in Role |-> 0]
  /\ perm = [r \in Role |-> <<>>]
  /\ chan = [r \in Role |-> <<>>]
  /\ sent = [r \in Role |-> 0]
  /\ got = [r \in Role |-> <<>>]
  /\ hashes = [r \in Role |-> <<>>]
  /\ phashes = [r \in Role |-> <<>>]
  /\ matches = [r \in Role |-> <<>>]
  /\ next = [r \in Role |-> 0]
  /\ result = [r \in Role |-> <<>>]

(***************************************************************************)
(* exchange_information.                                                   *)
(***************************************************************************)

(* The five words of r.  They fit into the buffers: sending does not block. *)
Info(r) == [neles |-> NElements(r), protocol |-> setting[r].protocol,
            bytelen |-> setting[r].bytelen]

SendInformation(r) ==
  /\ pc[r] = "start"
  /\ chan' = [chan EXCEPT ![Other(r)] = Append(@, Info(r))]
  /\ pc' = [pc EXCEPT ![r] = "info"]
  /\ UNCHANGED <<inputVars, pneles, perm, sent, got, hashes, phashes, matches, next, result>>

(* A comparison of the protocols alone. *)
AgreesOnProtocol(r, m) == m.protocol = setting[r].protocol

(* The assertions.  The security parameter and the number of threads are sent and
   compared in the same way and are left out. *)
Agrees(r, m) == m.protocol = setting[r].protocol /\ m.bytelen = setting[r].bytelen

ReceiveInformation(r) ==
  /\ pc[r] = "info"
  /\ chan[r] # <<>>
  /\ LET m == Head(chan[r]) IN
       /\ pneles' = [pneles EXCEPT ![r] = m.neles]
       /\ pc' = [pc EXCEPT ![r] = IF Agrees(r, m) THEN "prepare" ELSE "aborted"]
  /\ chan' = [chan EXCEPT ![r] = Tail(@)]
  /\ UNCHANGED <<inputVars, perm, sent, got, hashes, phashes, matches, next, result>>

(***************************************************************************)
(* The local work before and between the exchanges.                        *)
(***************************************************************************)

(* The place of element i's mask in the array that is sent. *)
Placed(p, a) == [k \in DOMAIN a |-> a[CHOOSE i \in DOMAIN a : p[i] = k]]

(* run_task with psi_hashing_function and, in the Diffie-Hellman protocol, with
   asym_encrypt: a mask per element, at the element's permuted place. *)
Prepare(r) ==
  /\ pc[r] = "prepare"
  /\ \E p \in Bijections(NElements(r)) :
       /\ perm' = [perm EXCEPT ![r] = p]
       /\ LET exps == IF setting[r].protocol = NAIVE THEN {} ELSE {r}
              masks == [i \in DOMAIN elements[r] |-> [ele |-> elements[r][i], exps |-> exps]]
          IN hashes' = [hashes EXCEPT ![r] = Placed(p, masks)]
  /\ pc' = [pc EXCEPT ![r] = "exchange"]
  /\ sent' = [sent EXCEPT ![r] = 0]
  /\ got' = [got EXCEPT ![r] = <<>>]
  /\ UNCHANGED <<inputVars, pneles, chan, phashes, matches, next, result>>

(* An exponentiation that starts from the party's own masks. *)
ReencryptedOwn(r, m) == [m EXCEPT !.exps = {r}]

Reencrypted(r, m) == [m EXCEPT !.exps = @ \cup {r}]

(* The other's masks get r's exponent, too, and are hashed, in the order in which
   they came or, if only the cardinality is asked for, in a random order. *)
Second(r) ==
  /\ pc[r] = "second"
  /\ LET masks == [i \in DOMAIN phashes[r] |-> Reencrypted(r, phashes[r][i])]
     IN IF setting[r].cardinality
        THEN \E p \in Bijections(pneles[r]) : phashes' = [phashes EXCEPT ![r] = Placed(p, masks)]
        ELSE phashes' = [phashes EXCEPT ![r] = masks]
  /\ pc' = [pc EXCEPT ![r] = "answer"]
  /\ sent' = [sent EXCEPT ![r] = 0]
  /\ got' = [got EXCEPT ![r] = <<>>]
  /\ UNCHANGED <<inputVars, pneles, perm, chan, hashes, matches, next, result>>

(***************************************************************************)
(* snd_and_rcv: a thread sends, the caller receives and joins the thread.  *)
(***************************************************************************)

Exchanging(r) == pc[r] \in {"exchange", "answer"}

(* What r sends in its current exchange, and how many masks it waits for. *)
SendBuffer(r) ==
  IF pc[r] = "exchange" THEN hashes[r]
  ELSE IF r = SERVER THEN phashes[r] ELSE <<>>

ReceiveCount(r) ==
  IF pc[r] = "exchange" THEN pneles[r]
  ELSE IF r = SERVER THEN 0 ELSE NElements(r)

SendMask(r) ==
  /\ Exchanging(r)
  /\ sent[r] < Size(SendBuffer(r))
  /\ Len(chan[Other(r)]) < Capacity
  /\ chan' = [chan EXCEPT ![Other(r)] = Append(@, SendBuffer(r)[sent[r]])]
  /\ sent' = [sent EXCEPT ![r] = @ + 1]
  /\ UNCHANGED <<inputVars, pc, pneles, perm, got, hashes, phashes, matches, next, result>>

(* A caller that sends everything itself before it receives. *)
MayReceiveAfterSend(r) == sent[r] = Size(SendBuffer(r))

(* The caller receives while the thread sends. *)
MayReceive(r) == TRUE

ReceiveMask(r) ==
  /\ Exchanging(r)
  /\ MayReceive(r)
  /\ Len(got[r]) < ReceiveCount(r)
  /\ chan[r] # <<>>
  /\ got' = [got EXCEPT ![r] = Append(@, Head(chan[r]))]
  /\ chan' = [chan EXCEPT ![r] = Tail(@)]
  /\ UNCHANGED <<inputVars, pc, pneles, perm, sent, hashes, phashes, matches, next, result>>

(* What the receive buffer holds when the exchange is over. *)
Received(r) == [i \in 0 .. Len(got[r]) - 1 |-> got[r][i + 1]]

(* The thread is joined.  In the answer only the client receives, over its own
   masks, and only the client goes on to look for matches. *)
ExchangeDone(r) ==
  /\ Exchanging(r)
  /\ sent[r] = Size(SendBuffer(r))
  /\ Len(got[r]) = ReceiveCount(r)
  /\ IF pc[r] = "exchange"
     THEN /\ phashes' = [phashes EXCEPT ![r] = Received(r)]
          /\ pc' = [pc EXCEPT ![r] = IF setting[r].protocol = NAIVE THEN "find" ELSE "second"]
          /\ UNCHANGED hashes
     ELSE /\ hashes' = IF r = CLIENT THEN [hashes EXCEPT ![r] = Received(r)] ELSE hashes
          /\ pc' = [pc EXCEPT ![r] = IF r = CLIENT THEN "find" ELSE "create"]
          /\ UNCHANGED phashes
  /\ next' = [next EXCEPT ![r] = 0]
  /\ UNCHANGED <<inputVars, pneles, perm, chan, sent, got, matches, result>>

(***************************************************************************)
(* find_intersection and create_result_from_matches.                       *)
(***************************************************************************)

(* The hash table is given one and the same variable, tmpkey, as the key of every
   entry: its comparison of two keys always says that they are equal, and what
   decides is the 32-bit hash of the key that it keeps with the entry. *)
Word(m) == <<m.exps, low[m.ele]>>

(* The places of r's masks that a lookup of m may find ... *)
Hits(r, m) == {k \in DOMAIN hashes[r] : Word(hashes[r][k]) = Word(m)}

(* ... and the one it finds: an insertion replaces the entry of an equal key. *)
Hit(r, m) == CHOOSE k \in Hits(r, m) : \A l \in Hits(r, m) : l <= k

(* A lookup that stores the index of the other's element. *)
MatchTheirs(r, m) == next[r]

(* A lookup that forgets that the masks are permuted. *)
MatchUnpermuted(r, m) == Hit(r, m)

(* invperm of the place. *)
Match(r, m) == CHOOSE i \in DOMAIN perm[r] : perm[r][i] = Hit(r, m)

(* One round of the lookup loop; the assertion is behind the write to matches. *)
Lookup(r) ==
  /\ pc[r] = "find"
  /\ next[r] < pneles[r]
  /\ LET m == phashes[r][next[r]] IN
       IF Hits(r, m) = {} THEN UNCHANGED <<matches, pc>>
       ELSE /\ matches' = [matches EXCEPT ![r] = Append(@, Match(r, m))]
            /\ pc' = IF Len(matches'[r]) <= Lesser(NElements(r), pneles[r]) THEN pc
                     ELSE [pc EXCEPT ![r] = "aborted"]
  /\ next' = [next EXCEPT ![r] = @ + 1]
  /\ UNCHANGED <<inputVars, pneles, perm, chan, sent, got, hashes, phashes, result>>

FindDone(r) ==
  /\ pc[r] = "find"
  /\ next[r] = pneles[r]
  /\ pc' = [pc EXCEPT ![r] = "create"]
  /\ UNCHANGED <<inputVars, pneles, perm, chan, sent, got, hashes, phashes, matches,
                 next, result>>

(* The matches, sorted, are the elements of the result. *)
CreateResult(r) ==
  /\ pc[r] = "create"
  /\ result' = [result EXCEPT ![r] = Ascending(matches[r])]
  /\ pc' = [pc EXCEPT ![r] = "done"]
  /\ UNCHANGED <<inputVars, pneles, perm, chan, sent, got, hashes, phashes, matches, next>>

(* Both processes are over. *)
Ended == (\A r \in Role : pc[r] \in {"done", "aborted"}) /\ UNCHANGED vars

(* The steps of the thread that runs the protocol; its sender thread has SendMask. *)
MainStep(r) ==
  \/ SendInformation(r)
  \/ ReceiveInformation(r)
  \/ Prepare(r)
  \/ Second(r)
  \/ ReceiveMask(r)
  \/ ExchangeDone(r)
  \/ Lookup(r)
  \/ FindDone(r)
  \/ CreateResult(r)

Next ==
  \/ \E r \in Role : MainStep(r) \/ SendMask(r)
  \/ Ended

Spec == Init /\ [][Next]_vars

(* Two threads per process: the operating system runs each, and a blocking call
   returns when what it waits for is there. *)
FairSpec == Spec /\ \A r \in Role : WF_vars(MainStep(r)) /\ WF_vars(SendMask(r))

--------------------------------------------------------------------------------
(***************************************************************************)
(* Properties.                                                             *)
(***************************************************************************)

TypeOK ==
  /\ elements \in Inputs
  /\ setting \in Settings
  /\ low \in LowFns
  /\ pc \in [Role -> PC]
  /\ pneles \in [Role -> Nat]
  /\ \A r \in Role :
       /\ perm[r] # <<>> => perm[r] \in Bijections(NElements(r))
       /\ IsArray(hashes[r], Mask) \/ hashes[r] = <<>>
       /\ IsArray(phashes[r], Mask) \/ phashes[r] = <<>>
       /\ Exchanging(r) => got[r] \in Seq(Mask)
       /\ sent[r] \in 0 .. Size(hashes[r]) + Size(phashes[r])
       /\ next[r] \in 0 .. pneles[r]
       /\ matches[r] \in Seq(DOMAIN elements[r])
       /\ result[r] \in Seq(DOMAIN elements[r])

(* Past exchange_information the two command lines agree in what it compares: no
   party runs a protocol against another protocol or another element length. *)
ParametersAgree ==
  (\E r \in Role : pc[r] \notin {"start", "info", "aborted"}) =>
    /\ setting[SERVER].protocol = setting[CLIENT].protocol
    /\ setting[SERVER].bytelen = setting[CLIENT].bytelen

(* The places at which r's own masks sit when it compares are the permuted places
   of its elements: what comes back from the server is in the order in which the
   client sent it, and each mask has the exponents of both. *)
MasksLineUp ==
  \A r \in Role : pc[r] \in {"find", "create", "done"} =>
    \/ setting[SERVER].protocol = DH_ECC /\ (r = SERVER \/ setting[SERVER].cardinality)
    \/ \A i \in DOMAIN elements[r] :
         hashes[r][perm[r][i]] =
           [ele |-> elements[r][i],
            exps |-> IF setting[r].protocol = NAIVE THEN {} ELSE Role]

(* The sets of r and of the other. *)
SetOf(r) == {elements[r][i] : i \in DOMAIN elements[r]}

Common(r) == {i \in DOMAIN elements[r] : elements[r][i] \in SetOf(Other(r))}

(* No two elements of the two sets have masks with the same low word. *)
CollisionFree ==
  \A e, f \in SetOf(SERVER) \cup SetOf(CLIENT) : low[e] = low[f] => e = f

(* Who gets a result. *)
Receiver(r) == setting[r].protocol = NAIVE \/ r = CLIENT

(* Without collisions the result lists the elements that are in both sets, each
   once and in the order of the own set, the way test_psi.cpp:86-94 compares it.
   If the server was told to reveal the cardinality alone, it has that length. *)
ResultExact ==
  \A r \in Role : pc[r] = "done" /\ Receiver(r) /\ CollisionFree =>
    IF setting[r].protocol = DH_ECC /\ setting[SERVER].cardinality
    THEN Len(result[r]) = Cardinality(Common(r))
    ELSE /\ {result[r][k] : k \in DOMAIN result[r]} = Common(r)
         /\ \A j, k \in DOMAIN result[r] : j < k => result[r][j] < result[r][k]

(* However small the buffers between the parties are: both end. *)
Terminates == <>(\A r \in Role : pc[r] \in {"done", "aborted"})
================================================================================
