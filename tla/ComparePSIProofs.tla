---------------------------- MODULE ComparePSIProofs ----------------------------
(***************************************************************************)
(* Proofs about ComparePSI: its type invariant, the agreement of the two   *)
(* command lines, the order of the masks that are compared, and the result *)
(* of the comparison, for every size of the two sets, every content of     *)
(* them, every permutation and every size of the buffers.                  *)
(*                                                                         *)
(* The inductive invariant says where in the stream of masks the two sides *)
(* are.  What one party sends in the whole run is a fixed word of masks:   *)
(* its own in the order of its permutation and, if it is the Diffie-       *)
(* Hellman server, its answer.  Out counts the masks of this word that     *)
(* were sent and In those that were received; what is on its way is the    *)
(* part between the two.                                                   *)
(***************************************************************************)
EXTENDS ComparePSI, FiniteSetTheorems, SequenceTheorems, WellFoundedInduction, TLAPS

(* The facts about numbers and their order. *)
Numbers == INSTANCE TaskPartitionProofs

(* The order of a result is the one that Numbers is about. *)
LEMMA SameOrder == ASSUME NEW s PROVE Ascending(s) = Numbers!Ascending(s)
  BY Zenon DEF Ascending, Numbers!Ascending

N(r) == NElements(r)

Naive == setting[SERVER].protocol = NAIVE

Agreed ==
  /\ setting[SERVER].protocol = setting[CLIENT].protocol
  /\ setting[SERVER].bytelen = setting[CLIENT].bytelen

(* Before r's own masks are there, and after the last exchange. *)
Early(r) == pc[r] \in {"start", "info", "prepare"} \/ ~Agreed

Late(r) == pc[r] \in {"find", "create", "done", "aborted"} /\ Agreed

(* The masks of its answer: only the Diffie-Hellman server gives one. *)
Back(r) == IF r = SERVER /\ ~Naive THEN N(CLIENT) ELSE 0

(* How many masks r has sent, and how many it has received, in both exchanges. *)
Out(r) ==
  IF pc[r] = "exchange" THEN sent[r]
  ELSE IF pc[r] = "second" THEN N(r)
  ELSE IF pc[r] = "answer" THEN N(r) + sent[r]
  ELSE IF Late(r) THEN N(r) + Back(r)
  ELSE 0

In(r) ==
  IF pc[r] = "exchange" THEN Len(got[r])
  ELSE IF pc[r] = "second" THEN N(Other(r))
  ELSE IF pc[r] = "answer" THEN N(Other(r)) + Len(got[r])
  ELSE IF Late(r) THEN N(Other(r)) + Back(Other(r))
  ELSE 0

(* The mask that r puts at place k of what it sends first. *)
First(r, k) ==
  [ele |-> elements[r][CHOOSE i \in DOMAIN elements[r] : perm[r][i] = k],
   exps |-> IF Naive THEN {} ELSE {r}]

(* The j-th mask that r sends. *)
Nth(r, j) == IF j < N(r) THEN First(r, j) ELSE phashes[r][j - N(r)]

(* The masks that are on their way to r: the first word to r is no mask. *)
Wire(r) ==
  IF pc[r] \in {"start", "info"} /\ pc[Other(r)] # "start" THEN Tail(chan[r]) ELSE chan[r]

Message == Mask \cup [neles : Nat, protocol : {NAIVE, DH_ECC}, bytelen : Nat]

Shape ==
  /\ elements \in Inputs /\ setting \in Settings /\ low \in LowFns
  /\ pc \in [Role -> PC]
  /\ pneles \in [Role -> Nat] /\ sent \in [Role -> Nat] /\ next \in [Role -> Nat]
  /\ chan \in [Role -> Seq(Message)]
  /\ got \in [Role -> Seq(Mask)]
  /\ DOMAIN perm = Role /\ DOMAIN hashes = Role
  /\ DOMAIN phashes = Role /\ DOMAIN matches = Role /\ DOMAIN result = Role

(* What r and the other know of each other. *)
Handshake(r) ==
  /\ pc[r] \in {"start", "info"} =>
       IF pc[Other(r)] = "start" THEN chan[r] = <<>>
       ELSE chan[r] # <<>> /\ Head(chan[r]) = Info(Other(r))
  /\ pc[r] \notin {"start", "info"} =>
       pc[Other(r)] # "start" /\ pneles[r] = N(Other(r))
  /\ pc[r] \notin {"start", "info", "aborted"} => Agreed
  /\ pc[r] \in {"second", "answer"} => ~Naive
  /\ pc[r] = "find" => Receiver(r)

(* What has not been touched yet. *)
Blank(r) ==
  /\ Early(r) => perm[r] = <<>> /\ hashes[r] = <<>> /\ sent[r] = 0
  /\ Early(r) \/ pc[r] = "exchange" => phashes[r] = <<>>
  /\ ~Late(r) => matches[r] = <<>> /\ next[r] = 0
  /\ pc[r] # "done" => result[r] = <<>>

(* The counters of an exchange stay within what there is to send and to receive. *)
Counts(r) ==
  /\ ~Early(r) => sent[r] <= N(r) + IF pc[r] = "exchange" THEN 0 ELSE N(Other(r))
  /\ pc[r] = "exchange" =>
       sent[r] <= N(r) /\ Len(got[r]) <= N(Other(r))
  /\ pc[r] = "answer" =>
       sent[r] <= Back(r) /\ Len(got[r]) <= Back(Other(r))

(* r's own masks, until the answer replaces them. *)
Own(r) ==
  ~Early(r) =>
    /\ perm[r] \in Bijections(N(r))
    /\ hashes[r] \in [0 .. N(r) - 1 -> Mask]
    /\ ~Late(r) \/ Naive => \A k \in 0 .. N(r) - 1 : hashes[r][k] = First(r, k)

(* What is on its way to r, and what r has of it in the current exchange. *)
Stream(r) ==
  Agreed =>
    /\ Len(Wire(r)) = Out(Other(r)) - In(r)
    /\ \A k \in 1 .. Len(Wire(r)) : Wire(r)[k] = Nth(Other(r), In(r) + k - 1)
    /\ pc[r] = "exchange" => \A k \in 1 .. Len(got[r]) : got[r][k] = Nth(Other(r), k - 1)
    /\ pc[r] = "answer" =>
         \A k \in 1 .. Len(got[r]) : got[r][k] = Nth(Other(r), N(Other(r)) + k - 1)

(* The other's masks with both exponents: in a random order only if r reveals no more
   than the cardinality. *)
Doubled(r) ==
  \E q \in Bijections(N(Other(r))) :
    /\ ~setting[r].cardinality => \A k \in 0 .. N(Other(r)) - 1 : q[k] = k
    /\ \A k \in 0 .. N(Other(r)) - 1 :
         phashes[r][q[k]] = [ele |-> First(Other(r), k).ele, exps |-> Role]

(* The other's masks as r got them, and after r's exponent. *)
Theirs(r) ==
  /\ ~Early(r) /\ pc[r] # "exchange" => phashes[r] \in [0 .. N(Other(r)) - 1 -> Mask]
  /\ pc[r] = "second" \/ (Late(r) /\ Naive) =>
       \A k \in 0 .. N(Other(r)) - 1 : phashes[r][k] = First(Other(r), k)
  /\ pc[r] = "answer" \/ (Late(r) /\ ~Naive) => Doubled(r)

(* The masks of the set of s, each at the place q[i] in a. *)
Lists(a, q, s) ==
  \A i \in 0 .. N(s) - 1 :
    a[q[i]] = [ele |-> elements[s][i], exps |-> IF Naive THEN {} ELSE Role]

(* What a party that looks for matches compares. *)
Compared(r) ==
  Late(r) /\ Receiver(r) =>
    /\ \E q \in Bijections(N(r)) :
         /\ Naive \/ ~setting[SERVER].cardinality => q = perm[r]
         /\ Lists(hashes[r], q, r)
    /\ \E q \in Bijections(N(Other(r))) : Lists(phashes[r], q, Other(r))

(* The elements whose masks are among the first n masks of the other. *)
MatchedBy(r, n) ==
  {i \in 0 .. N(r) - 1 : \E k \in 0 .. n - 1 : phashes[r][k] = hashes[r][perm[r][i]]}

Matched(r) ==
  /\ matches[r] \in Seq(0 .. N(r) - 1)
  /\ ~Early(r) => next[r] \in 0 .. N(Other(r))
  /\ Late(r) /\ Receiver(r) /\ pc[r] # "aborted" /\ CollisionFree =>
       /\ \A j, k \in 1 .. Len(matches[r]) : matches[r][j] = matches[r][k] => j = k
       /\ {matches[r][k] : k \in 1 .. Len(matches[r])} = MatchedBy(r, next[r])
  /\ Receiver(r) /\ pc[r] \in {"create", "done"} => next[r] = N(Other(r))
  /\ pc[r] = "done" => result[r] = Ascending(matches[r])

(* What r's own variables say. *)
Local(r) == Blank(r) /\ Counts(r) /\ Own(r) /\ Compared(r) /\ Matched(r)

IInv ==
  /\ Shape
  /\ \A r \in Role : Handshake(r) /\ Local(r) /\ Stream(r) /\ Theirs(r)

(***************************************************************************)
(* Permutations, arrays and sorted sequences.                              *)
(***************************************************************************)

(* The two roles are each other's other. *)
LEMMA Roles ==
  ASSUME NEW r \in Role
  PROVE  /\ Other(r) \in Role /\ Other(r) # r /\ Other(Other(r)) = r
         /\ \A s \in Role : s = r \/ s = Other(r)
         /\ (r = SERVER /\ Other(r) = CLIENT) \/ (r = CLIENT /\ Other(r) = SERVER)
<1>1. Other(SERVER) = CLIENT /\ Other(CLIENT) = SERVER
  BY ConstantsOK DEF Other, Role
<1> QED
  BY <1>1, ConstantsOK DEF Role

(* The sizes of the two sets, and that a set has every element once. *)
LEMMA Sizes ==
  ASSUME elements \in Inputs, setting \in Settings, NEW r \in Role
  PROVE  /\ N(r) \in Nat
         /\ DOMAIN elements[r] = 0 .. N(r) - 1
         /\ elements[r] \in [0 .. N(r) - 1 -> Element]
         /\ \A i, j \in 0 .. N(r) - 1 : elements[r][i] = elements[r][j] => i = j
         /\ setting[r] \in Setting
<1>1. IsArray(elements[r], Element)
  BY ConstantsOK
<1>2. N(r) \in Nat
  BY <1>1, FS_CardinalityType DEF IsArray, N, NElements, Size
<1>3. elements[r] \in [0 .. N(r) - 1 -> Element]
  BY <1>1 DEF IsArray, N, NElements, Size
<1>4. setting \in [Role -> Setting]
  BY ConstantsOK
<1>5. \A i, j \in DOMAIN elements[r] : elements[r][i] = elements[r][j] => i = j
  BY ConstantsOK
<1> QED
  BY <1>2, <1>3, <1>4, <1>5

(* An array of n entries has size n. *)
LEMMA SizeOf ==
  ASSUME NEW n \in Nat, NEW S, NEW a \in [0 .. n - 1 -> S]
  PROVE  Size(a) = n /\ IsArray(a, S)
<1>1. IsFiniteSet(0 .. n - 1) /\ Cardinality(0 .. n - 1) = n
  BY FS_Interval
<1>2. DOMAIN a = 0 .. n - 1
  OBVIOUS
<1> QED
  BY <1>1, <1>2 DEF Size, IsArray

(* gen_rnd_perm leaves no place out. *)
LEMMA Onto ==
  ASSUME NEW n \in Nat, NEW p \in Bijections(n)
  PROVE  /\ p \in [0 .. n - 1 -> 0 .. n - 1]
         /\ \A i, j \in 0 .. n - 1 : p[i] = p[j] => i = j
         /\ \A k \in 0 .. n - 1 : \E i \in 0 .. n - 1 : p[i] = k
<1>1. p \in [0 .. n - 1 -> 0 .. n - 1] /\ \A i, j \in 0 .. n - 1 : p[i] = p[j] => i = j
  BY DEF Bijections
<1>2. p \in Injection(0 .. n - 1, 0 .. n - 1)
  BY <1>1 DEF Injection, IsInjective
<1>3. IsFiniteSet(0 .. n - 1)
  BY FS_Interval
<1>4. p \in Surjection(0 .. n - 1, 0 .. n - 1)
  BY <1>2, <1>3, FS_Injection
<1> QED
  BY <1>1, <1>4 DEF Surjection

(* A permutation of a permutation. *)
LEMMA Composed ==
  ASSUME NEW n \in Nat, NEW p \in Bijections(n), NEW q \in Bijections(n)
  PROVE  [i \in 0 .. n - 1 |-> q[p[i]]] \in Bijections(n)
BY Onto, SMTT(30) DEF Bijections

(* The entry that a permutation moves to place k. *)
Origin(p, n, k) == CHOOSE i \in 0 .. n - 1 : p[i] = k

(* psi_hashing_function writes every entry to its permuted place. *)
LEMMA PlacedAt ==
  ASSUME NEW n \in Nat, NEW p \in Bijections(n), NEW a \in [0 .. n - 1 -> Mask]
  PROVE  /\ Placed(p, a) \in [0 .. n - 1 -> Mask]
         /\ \A k \in 0 .. n - 1 : Placed(p, a)[k] = a[Origin(p, n, k)]
         /\ \A i \in 0 .. n - 1 : Placed(p, a)[p[i]] = a[i]
<1>0. /\ \A i \in 0 .. n - 1 : p[i] \in 0 .. n - 1
      /\ \A i, j \in 0 .. n - 1 : p[i] = p[j] => i = j
      /\ \A k \in 0 .. n - 1 : \E i \in 0 .. n - 1 : p[i] = k
  <2>1. p \in [0 .. n - 1 -> 0 .. n - 1]
    BY DEF Bijections
  <2> QED
    BY <2>1, Onto
<1>1. DOMAIN a = 0 .. n - 1
  OBVIOUS
<1>2. Placed(p, a) = [k \in 0 .. n - 1 |-> a[CHOOSE i \in 0 .. n - 1 : p[i] = k]]
  BY <1>1 DEF Placed
<1>3. \A i \in 0 .. n - 1 : (CHOOSE j \in 0 .. n - 1 : p[j] = p[i]) = i
  BY <1>0
<1>4. \A k \in 0 .. n - 1 : (CHOOSE i \in 0 .. n - 1 : p[i] = k) \in 0 .. n - 1
  BY <1>0
<1>5. /\ Placed(p, a) = [k \in 0 .. n - 1 |-> a[Origin(p, n, k)]]
      /\ \A k \in 0 .. n - 1 : Origin(p, n, k) \in 0 .. n - 1
      /\ \A i \in 0 .. n - 1 : Origin(p, n, p[i]) = i
  BY <1>2, <1>3, <1>4 DEF Origin
<1>6. /\ Placed(p, a) \in [0 .. n - 1 -> Mask]
      /\ \A k \in 0 .. n - 1 : Placed(p, a)[k] = a[Origin(p, n, k)]
      /\ \A i \in 0 .. n - 1 : Placed(p, a)[p[i]] = a[i]
  <2>1. \A k \in 0 .. n - 1 : Placed(p, a)[k] = a[Origin(p, n, k)]
    BY <1>5
  <2>2. \A k \in 0 .. n - 1 : a[Origin(p, n, k)] \in Mask
    BY <1>5
  <2>3. Placed(p, a) \in [0 .. n - 1 -> Mask]
    BY <1>5, <2>2
  <2> QED
    BY <1>0, <1>5, <2>1, <2>3
<1> QED
  BY <1>6

(***************************************************************************)
(* The parts of the invariant that a step leaves alone.                    *)
(***************************************************************************)

(* The masks that r sends first are its elements in the order of its permutation. *)
LEMMA FirstIs ==
  ASSUME Shape, NEW r \in Role, perm[r] \in Bijections(N(r))
  PROVE  /\ \A k \in 0 .. N(r) - 1 : First(r, k) \in Mask
         /\ \A i \in 0 .. N(r) - 1 :
              /\ perm[r][i] \in 0 .. N(r) - 1
              /\ First(r, perm[r][i]) =
                   [ele |-> elements[r][i], exps |-> IF Naive THEN {} ELSE {r}]
<1>1. /\ N(r) \in Nat /\ DOMAIN elements[r] = 0 .. N(r) - 1
      /\ elements[r] \in [0 .. N(r) - 1 -> Element]
  BY Sizes DEF Shape
<1>2. /\ \A i \in 0 .. N(r) - 1 : perm[r][i] \in 0 .. N(r) - 1
      /\ \A i, j \in 0 .. N(r) - 1 : perm[r][i] = perm[r][j] => i = j
      /\ \A k \in 0 .. N(r) - 1 : \E i \in 0 .. N(r) - 1 : perm[r][i] = k
  <2>1. perm[r] \in [0 .. N(r) - 1 -> 0 .. N(r) - 1]
    BY DEF Bijections
  <2> QED
    BY <1>1, <2>1, Onto
<1>3. ASSUME NEW k \in 0 .. N(r) - 1
      PROVE  First(r, k) \in Mask
  <2> DEFINE i == CHOOSE i \in DOMAIN elements[r] : perm[r][i] = k
  <2>1. i \in 0 .. N(r) - 1
    BY <1>1, <1>2
  <2>2. elements[r][i] \in Element
    BY <1>1, <2>1
  <2>3. (IF Naive THEN {} ELSE {r}) \in SUBSET Role
    OBVIOUS
  <2>4. First(r, k) = [ele |-> elements[r][i], exps |-> IF Naive THEN {} ELSE {r}]
    BY DEF First
  <2> HIDE DEF i
  <2> QED
    BY <2>2, <2>3, <2>4 DEF Mask
<1>4. ASSUME NEW i \in 0 .. N(r) - 1
      PROVE  First(r, perm[r][i]) =
               [ele |-> elements[r][i], exps |-> IF Naive THEN {} ELSE {r}]
  <2>1. (CHOOSE j \in DOMAIN elements[r] : perm[r][j] = perm[r][i]) = i
    BY <1>1, <1>2
  <2> QED
    BY <2>1 DEF First
<1> QED
  BY <1>2, <1>3, <1>4

(* The sizes, the settings and what is derived from them stay. *)
LEMMA Constants ==
  ASSUME UNCHANGED inputVars
  PROVE  /\ Agreed' = Agreed /\ Naive' = Naive /\ CollisionFree' = CollisionFree
         /\ \A s \in Role : /\ N(s)' = N(s) /\ Back(s)' = Back(s)
                            /\ Receiver(s)' = Receiver(s) /\ Info(s)' = Info(s)
BY DEF inputVars, Agreed, Naive, CollisionFree, SetOf, N, NElements, Size, Back, Receiver, Info

(* A party none of whose own variables a step changes. *)
LEMMA LocalFrame ==
  ASSUME UNCHANGED inputVars, NEW s \in Role, Local(s),
         UNCHANGED <<pc[s], perm[s], sent[s], got[s], hashes[s], phashes[s],
                     matches[s], next[s], result[s]>>
  PROVE  Local(s)'
<1>1. /\ Agreed' = Agreed /\ Naive' = Naive /\ CollisionFree' = CollisionFree
      /\ N(s)' = N(s) /\ N(Other(s))' = N(Other(s))
      /\ Back(s)' = Back(s) /\ Back(Other(s))' = Back(Other(s)) /\ Receiver(s)' = Receiver(s)
  BY Constants, Roles
<1>2. Early(s)' = Early(s) /\ Late(s)' = Late(s)
  BY <1>1 DEF Early, Late
<1>3. \A k : First(s, k)' = First(s, k)
  BY <1>1 DEF First, inputVars
<1>5. \A n : MatchedBy(s, n)' = MatchedBy(s, n)
  BY <1>1 DEF MatchedBy
<1>6. Blank(s)'
  BY <1>2 DEF Local, Blank
<1>7. Counts(s)'
  BY <1>1, <1>2 DEF Local, Counts
<1>8. Own(s)'
  BY <1>1, <1>2, <1>3 DEF Local, Own
<1>9. Compared(s)'
  <2> SUFFICES ASSUME Late(s), Receiver(s)
               PROVE  /\ \E q \in Bijections(N(s)) :
                           /\ Naive \/ ~setting[SERVER].cardinality => q = perm[s]
                           /\ Lists(hashes[s], q, s)'
                      /\ \E q \in Bijections(N(Other(s))) : Lists(phashes[s], q, Other(s))'
    BY <1>1, <1>2 DEF Compared, inputVars
  <2>1. hashes'[s] = hashes[s] /\ phashes'[s] = phashes[s]
    OBVIOUS
  <2>2. /\ \A q : Lists(hashes[s], q, s)' = Lists(hashes[s], q, s)
        /\ \A q : Lists(phashes[s], q, Other(s))' = Lists(phashes[s], q, Other(s))
    BY <1>1, <2>1 DEF Lists, inputVars
  <2> QED
    BY <2>2 DEF Local, Compared
<1>10. Matched(s)'
  BY <1>1, <1>2, <1>5 DEF Local, Matched
<1> QED
  BY <1>6, <1>7, <1>8, <1>9, <1>10 DEF Local

(* The same for the masks with both exponents. *)
LEMMA DoubledFrame ==
  ASSUME UNCHANGED inputVars, NEW s \in Role, Doubled(s),
         perm'[Other(s)] = perm[Other(s)], phashes'[s] = phashes[s]
  PROVE  Doubled(s)'
<1>1. Naive' = Naive /\ N(Other(s))' = N(Other(s)) /\ setting' = setting
  BY Constants, Roles DEF inputVars
<1>2. \A k : First(Other(s), k)' = First(Other(s), k)
  BY <1>1 DEF First, inputVars
<1> HIDE DEF First
<1>3. PICK q \in Bijections(N(Other(s))) :
        /\ ~setting[s].cardinality => \A k \in 0 .. N(Other(s)) - 1 : q[k] = k
        /\ \A k \in 0 .. N(Other(s)) - 1 :
             phashes[s][q[k]] = [ele |-> First(Other(s), k).ele, exps |-> Role]
  BY DEF Doubled
<1>4. \A k \in 0 .. N(Other(s)) - 1 :
        phashes'[s][q[k]] = [ele |-> First(Other(s), k)'.ele, exps |-> Role]
  BY <1>2, <1>3
<1> QED
  BY <1>1, <1>3, <1>4 DEF Doubled

(* What a party knows of the other's masks does not depend on the other's progress. *)
LEMMA TheirsFrame ==
  ASSUME UNCHANGED inputVars, NEW s \in Role, Theirs(s), perm'[Other(s)] = perm[Other(s)],
         UNCHANGED <<pc[s], phashes[s]>>
  PROVE  Theirs(s)'
<1>1. /\ Agreed' = Agreed /\ Naive' = Naive /\ N(Other(s))' = N(Other(s))
      /\ setting' = setting
  BY Constants, Roles DEF inputVars
<1>2. Early(s)' = Early(s) /\ Late(s)' = Late(s)
  BY <1>1 DEF Early, Late
<1>3. \A k : First(Other(s), k)' = First(Other(s), k)
  BY <1>1 DEF First, inputVars
<1> HIDE DEF First
<1>5. (~Early(s) /\ pc[s] # "exchange" =>
        phashes[s] \in [0 .. N(Other(s)) - 1 -> Mask])'
  BY <1>1, <1>2 DEF Theirs
<1>6. (pc[s] = "second" \/ (Late(s) /\ Naive) =>
        \A k \in 0 .. N(Other(s)) - 1 : phashes[s][k] = First(Other(s), k))'
  BY <1>1, <1>2, <1>3 DEF Theirs
<1>7. Doubled(s) => Doubled(s)'
  BY DoubledFrame
<1> QED
  BY <1>1, <1>2, <1>5, <1>6, <1>7 DEF Theirs

(* A step that neither sends nor receives a mask and keeps the masks that were sent. *)
LEMMA StreamFrame ==
  ASSUME UNCHANGED inputVars, NEW s \in Role, Stream(s),
         Wire(s)' = Wire(s), Out(Other(s))' = Out(Other(s)), In(s)' = In(s),
         Out(Other(s)) \in Nat, In(s) \in Nat, N(Other(s)) \in Nat,
         Len(Wire(s)) \in Nat, Len(got[s]) \in Nat,
         UNCHANGED <<pc[s], got[s]>> \/ pc'[s] \notin {"exchange", "answer"} \/ got'[s] = <<>>,
         \A j \in 0 .. Out(Other(s)) - 1 : Nth(Other(s), j)' = Nth(Other(s), j)
  PROVE  Stream(s)'
<1>1. Agreed' = Agreed /\ N(Other(s))' = N(Other(s))
  BY Constants, Roles
<1> SUFFICES ASSUME Agreed
             PROVE  Stream(s)'
  BY <1>1 DEF Stream
<1>2. /\ Len(Wire(s))' = Out(Other(s))' - In(s)'
      /\ Len(Wire(s)) = Out(Other(s)) - In(s)
  BY DEF Stream
<1>3. ASSUME NEW k \in 1 .. Len(Wire(s))
      PROVE  Wire(s)'[k] = Nth(Other(s), In(s) + k - 1)'
  <2>1. In(s) + k - 1 \in 0 .. Out(Other(s)) - 1 /\ Wire(s)[k] = Nth(Other(s), In(s) + k - 1)
    BY <1>2 DEF Stream
  <2> QED
    BY <2>1
<1>4. pc[s] = "exchange" => In(s) = Len(got[s])
  BY DEF In
<1>5. pc[s] = "answer" => In(s) = N(Other(s)) + Len(got[s])
  BY DEF In
<1>6. ASSUME pc'[s] = "exchange", NEW k \in 1 .. Len(got'[s])
      PROVE  got'[s][k] = Nth(Other(s), k - 1)'
  <2>1. pc[s] = "exchange" /\ got'[s] = got[s]
    <3>1. Len(<<>>) = 0 /\ 1 .. 0 = {}
      OBVIOUS
    <3> QED
      BY <1>6, <3>1
  <2>2. k - 1 \in 0 .. Out(Other(s)) - 1 /\ got[s][k] = Nth(Other(s), k - 1)
    BY <1>2, <1>4, <2>1 DEF Stream
  <2> QED
    BY <2>1, <2>2
<1>7. ASSUME pc'[s] = "answer", NEW k \in 1 .. Len(got'[s])
      PROVE  got'[s][k] = Nth(Other(s), N(Other(s)) + k - 1)'
  <2>1. pc[s] = "answer" /\ got'[s] = got[s]
    <3>1. Len(<<>>) = 0 /\ 1 .. 0 = {}
      OBVIOUS
    <3> QED
      BY <1>7, <3>1
  <2>2. /\ N(Other(s)) + k - 1 \in 0 .. Out(Other(s)) - 1
        /\ got[s][k] = Nth(Other(s), N(Other(s)) + k - 1)
    BY <1>2, <1>5, <2>1 DEF Stream
  <2> QED
    BY <1>1, <2>1, <2>2
<1> QED
  BY <1>1, <1>2, <1>3, <1>6, <1>7 DEF Stream

(* What is first in a queue stays first when something is added behind it. *)
LEMMA Appended ==
  ASSUME NEW S, NEW c \in Seq(S), c # <<>>, NEW x \in S
  PROVE  /\ Append(c, x) # <<>> /\ Head(Append(c, x)) = Head(c)
         /\ Tail(Append(c, x)) = Append(Tail(c), x)
<1>1. Len(c) \in Nat /\ Len(c) # 0
  OBVIOUS
<1>2. Append(c, x)[1] = c[1]
  BY <1>1, AppendProperties
<1> QED
  BY <1>2, AppendProperties, HeadTailAppend

(* The types of what the invariant counts. *)
LEMMA Facts ==
  ASSUME Shape, NEW r \in Role, Handshake(r)
  PROVE  /\ N(r) \in Nat /\ N(Other(r)) \in Nat /\ Back(r) \in Nat
         /\ Other(r) \in Role /\ Other(r) # r
         /\ DOMAIN elements[r] = 0 .. N(r) - 1
         /\ sent[r] \in Nat /\ next[r] \in Nat /\ pneles[r] \in Nat
         /\ Out(r) \in Nat /\ In(r) \in Nat
         /\ chan[r] \in Seq(Message) /\ Wire(r) \in Seq(Message) /\ Len(Wire(r)) \in Nat
         /\ got[r] \in Seq(Mask) /\ Len(got[r]) \in Nat
         /\ pc[r] \in PC
         /\ (Agreed => (setting[r].protocol = NAIVE <=> Naive))
<1>1. Other(r) \in Role /\ Other(r) # r /\ Other(Other(r)) = r /\ CLIENT \in Role /\ SERVER \in Role
  BY Roles DEF Role
<1>2. /\ N(r) \in Nat /\ N(Other(r)) \in Nat /\ N(CLIENT) \in Nat
      /\ DOMAIN elements[r] = 0 .. N(r) - 1
  BY <1>1, Sizes DEF Shape
<1>3. Back(r) \in Nat /\ Back(Other(r)) \in Nat
  BY <1>2 DEF Back
<1>4. /\ sent[r] \in Nat /\ next[r] \in Nat /\ pneles[r] \in Nat /\ pc[r] \in PC
      /\ chan[r] \in Seq(Message) /\ got[r] \in Seq(Mask)
  BY DEF Shape
<1>5. Len(got[r]) \in Nat
  BY <1>4
<1>6. Out(r) \in Nat /\ In(r) \in Nat
  <2>1. Out(r) \in {0, sent[r], N(r), N(r) + sent[r], N(r) + Back(r)}
    BY DEF Out
  <2>2. In(r) \in {0, Len(got[r]), N(Other(r)), N(Other(r)) + Len(got[r]),
                   N(Other(r)) + Back(Other(r))}
    BY DEF In
  <2> QED
    BY <1>2, <1>3, <1>4, <1>5, <2>1, <2>2, SMTT(30)
<1>7. Wire(r) \in Seq(Message)
  <2>1. CASE pc[r] \in {"start", "info"} /\ pc[Other(r)] # "start"
    <3>1. chan[r] # <<>> /\ Wire(r) = Tail(chan[r])
      BY <2>1 DEF Handshake, Wire
    <3> QED
      BY <1>4, <3>1
  <2>2. CASE ~(pc[r] \in {"start", "info"} /\ pc[Other(r)] # "start")
    BY <1>4, <2>2 DEF Wire
  <2> QED
    BY <2>1, <2>2
<1>8. Len(Wire(r)) \in Nat
  BY <1>7
<1>9. Agreed => (setting[r].protocol = NAIVE <=> Naive)
  BY Roles DEF Agreed, Naive
<1> QED
  BY <1>1, <1>2, <1>3, <1>4, <1>5, <1>6, <1>7, <1>8, <1>9

(***************************************************************************)
(* The steps.                                                              *)
(***************************************************************************)

(* At the beginning nothing is sent, received or computed. *)
LEMMA InitHolds == Init => IInv
<1> SUFFICES ASSUME Init
             PROVE  IInv
  OBVIOUS
<1>1. Shape
  BY DEF Init, Shape, PC
<1>2. ASSUME NEW r \in Role
      PROVE  Handshake(r) /\ Local(r) /\ Stream(r) /\ Theirs(r)
  <2>1. /\ pc[r] = "start" /\ pc[Other(r)] = "start" /\ Early(r) /\ ~Late(r)
        /\ Early(Other(r)) /\ ~Late(Other(r))
    BY Roles DEF Init, Early, Late
  <2>2. /\ chan[r] = <<>> /\ sent[r] = 0 /\ perm[r] = <<>> /\ hashes[r] = <<>>
        /\ phashes[r] = <<>> /\ matches[r] = <<>> /\ next[r] = 0 /\ result[r] = <<>>
        /\ got[r] = <<>>
    BY DEF Init
  <2>3. Handshake(r)
    BY <2>1, <2>2 DEF Handshake
  <2>4. Blank(r) /\ Counts(r) /\ Own(r) /\ Compared(r) /\ Matched(r)
    BY <2>1, <2>2 DEF Blank, Counts, Own, Compared, Matched
  <2>5. Out(Other(r)) = 0 /\ In(r) = 0 /\ Wire(r) = <<>>
    BY <2>1, <2>2 DEF Out, In, Wire
  <2>6. Stream(r)
    BY <2>1, <2>5 DEF Stream
  <2>7. Theirs(r)
    BY <2>1 DEF Theirs
  <2> QED
    BY <2>3, <2>4, <2>6, <2>7 DEF Local
<1> QED
  BY <1>1, <1>2 DEF IInv

(* A party that has no masks yet and goes on, or gives up, without computing any. *)
LEMMA EarlyFrame ==
  ASSUME UNCHANGED inputVars, NEW s \in Role, Local(s), Theirs(s),
         pc[s] \in {"start", "info"}, pc'[s] \in {"info", "prepare", "aborted"},
         pc'[s] = "aborted" => ~Agreed,
         UNCHANGED <<perm[s], sent[s], hashes[s], phashes[s], matches[s], next[s], result[s]>>
  PROVE  Local(s)' /\ Theirs(s)'
<1>1. N(s)' = N(s) /\ Agreed' = Agreed
  BY Constants
<1>2. Early(s) /\ Early(s)' /\ ~Late(s) /\ ~Late(s)'
  BY <1>1 DEF Early, Late
<1>3. Blank(s)' /\ Counts(s)'
  BY <1>2 DEF Local, Blank, Counts
<1>4. Own(s)' /\ Compared(s)'
  BY <1>2 DEF Own, Compared
<1>5. Matched(s)'
  BY <1>1, <1>2 DEF Local, Blank, Matched
<1>6. Theirs(s)'
  BY <1>2 DEF Theirs
<1> QED
  BY <1>3, <1>4, <1>5, <1>6 DEF Local

(* The five words are the first that the other gets. *)
LEMMA SendInformationStep ==
  ASSUME IInv, NEW r \in Role, SendInformation(r)
  PROVE  IInv'
<1> DEFINE o == Other(r)
<1>1. /\ Shape /\ Handshake(r) /\ Local(r) /\ Stream(r) /\ Theirs(r)
      /\ o \in Role /\ o # r /\ Other(o) = r /\ \A s \in Role : s = r \/ s = o
      /\ Handshake(o) /\ Local(o) /\ Stream(o) /\ Theirs(o)
  BY Roles DEF IInv
<1>2. /\ pc[r] = "start" /\ pc' = [pc EXCEPT ![r] = "info"]
      /\ chan' = [chan EXCEPT ![o] = Append(@, Info(r))]
      /\ UNCHANGED <<inputVars, pneles, perm, sent, got, hashes, phashes, matches, next, result>>
  BY DEF SendInformation
<1>3. /\ DOMAIN pc = Role /\ DOMAIN chan = Role /\ chan[r] \in Seq(Message) /\ chan[o] \in Seq(Message)
  BY <1>1 DEF Shape
<1>4. /\ pc'[r] = "info" /\ pc'[o] = pc[o] /\ chan'[r] = chan[r]
      /\ pc[o] \in {"start", "info"} /\ chan[o] = <<>> /\ chan'[o] = Append(<<>>, Info(r))
  <2>1. pc'[r] = "info" /\ pc'[o] = pc[o] /\ chan'[r] = chan[r] /\ chan'[o] = Append(chan[o], Info(r))
    BY <1>1, <1>2, <1>3
  <2>2. pc[o] \in {"start", "info"} /\ chan[o] = <<>>
    BY <1>1, <1>2 DEF Handshake
  <2> QED
    BY <2>1, <2>2
<1>5. Info(r) \in Message
  BY <1>1, Sizes, Facts DEF Shape, Info, Message, Setting, N
<1>6. chan'[o] = <<Info(r)>> /\ chan'[o] # <<>> /\ Head(chan'[o]) = Info(r) /\ Tail(chan'[o]) = <<>>
  BY <1>4
<1>7. Shape'
  <2>1. pc' \in [Role -> PC]
    BY <1>1, <1>2 DEF Shape, PC
  <2>2. chan' \in [Role -> Seq(Message)]
    BY <1>1, <1>2, <1>5 DEF Shape
  <2> QED
    BY <1>1, <1>2, <2>1, <2>2 DEF Shape, inputVars
<1>8. Handshake(r)' /\ Handshake(o)'
  <2>1. Info(r)' = Info(r) /\ Info(o)' = Info(o) /\ Agreed' = Agreed
    BY <1>1, <1>2, Constants
  <2>2. Handshake(r)'
    BY <1>1, <1>2, <1>4, <2>1 DEF Handshake
  <2>3. Handshake(o)'
    BY <1>1, <1>4, <1>6, <2>1 DEF Handshake
  <2> QED
    BY <2>2, <2>3
<1>9. Local(r)' /\ Theirs(r)'
  BY <1>1, <1>2, <1>4, EarlyFrame
<1>10. Local(o)' /\ Theirs(o)'
  BY <1>1, <1>2, <1>4, LocalFrame, TheirsFrame
<1>11. Stream(r)' /\ Stream(o)'
  <2>1. /\ Out(r)' = Out(r) /\ In(r)' = In(r) /\ Out(o)' = Out(o) /\ In(o)' = In(o)
    BY <1>1, <1>2, <1>4, Constants DEF Out, In, Late
  <2>2. Wire(r)' = Wire(r) /\ Wire(o)' = Wire(o)
    BY <1>1, <1>2, <1>4, <1>6 DEF Wire
  <2>3. \A s \in Role, j \in Int : Nth(s, j)' = Nth(s, j)
    BY <1>2, Constants DEF Nth, First, inputVars
  <2>4. /\ Out(r) \in Nat /\ In(r) \in Nat /\ N(r) \in Nat /\ Len(Wire(r)) \in Nat /\ Len(got[r]) \in Nat
        /\ Out(o) \in Nat /\ In(o) \in Nat /\ N(o) \in Nat /\ Len(Wire(o)) \in Nat /\ Len(got[o]) \in Nat
    BY <1>1, Facts
  <2>5. pc'[o] \notin {"exchange", "answer"} /\ pc'[r] \notin {"exchange", "answer"}
    BY <1>4
  <2>6. Stream(r)'
    BY <1>1, <1>2, <2>1, <2>2, <2>3, <2>4, <2>5, StreamFrame
  <2>7. Stream(o)'
    BY <1>1, <1>2, <2>1, <2>2, <2>3, <2>4, <2>5, StreamFrame
  <2> QED
    BY <2>6, <2>7
<1> QED
  BY <1>1, <1>7, <1>8, <1>9, <1>10, <1>11 DEF IInv

(* Past the information both know that they agree. *)
LEMMA ReceiveInformationStep ==
  ASSUME IInv, NEW r \in Role, ReceiveInformation(r)
  PROVE  IInv'
<1> DEFINE o == Other(r)
<1>1. /\ Shape /\ Handshake(r) /\ Local(r) /\ Stream(r) /\ Theirs(r)
      /\ o \in Role /\ o # r /\ Other(o) = r /\ \A s \in Role : s = r \/ s = o
      /\ Handshake(o) /\ Local(o) /\ Stream(o) /\ Theirs(o)
  BY Roles DEF IInv
<1>2. /\ pc[r] = "info" /\ chan[r] # <<>>
      /\ pneles' = [pneles EXCEPT ![r] = Head(chan[r]).neles]
      /\ pc' = [pc EXCEPT ![r] = IF Agrees(r, Head(chan[r])) THEN "prepare" ELSE "aborted"]
      /\ chan' = [chan EXCEPT ![r] = Tail(@)]
      /\ UNCHANGED <<inputVars, perm, sent, got, hashes, phashes, matches, next, result>>
  BY DEF ReceiveInformation
<1>3. pc[o] # "start" /\ Head(chan[r]) = Info(o)
  BY <1>1, <1>2 DEF Handshake
<1>4. Agrees(r, Head(chan[r])) <=> Agreed
  BY <1>1, <1>3, Roles DEF Agrees, Agreed, Info
<1>5. /\ pc'[r] \in {"prepare", "aborted"} /\ (pc'[r] = "aborted" <=> ~Agreed) /\ pc'[o] = pc[o]
      /\ chan'[r] = Tail(chan[r]) /\ chan'[o] = chan[o]
      /\ pneles'[r] = N(o) /\ pneles'[o] = pneles[o]
  BY <1>1, <1>2, <1>3, <1>4 DEF Shape, Info, N
<1>6. N(o) \in Nat /\ chan[r] \in Seq(Message)
  BY <1>1, Facts
<1>7. Shape'
  <2>1. pc' \in [Role -> PC]
    BY <1>1, <1>2 DEF Shape, PC
  <2>2. Tail(chan[r]) \in Seq(Message)
    BY <1>2, <1>6
  <2>3. chan' \in [Role -> Seq(Message)]
    BY <1>1, <1>2, <2>2 DEF Shape
  <2>4. pneles' \in [Role -> Nat]
    BY <1>1, <1>2, <1>3, <1>6 DEF Shape, Info, N
  <2> QED
    BY <1>1, <1>2, <2>1, <2>3, <2>4 DEF Shape, inputVars
<1>8. Handshake(r)' /\ Handshake(o)'
  <2>1. Info(r)' = Info(r) /\ Info(o)' = Info(o) /\ Agreed' = Agreed /\ N(o)' = N(o) /\ N(r)' = N(r)
        /\ Naive' = Naive /\ Receiver(o)' = Receiver(o)
    BY <1>1, <1>2, Constants
  <2>2. Handshake(r)'
    BY <1>1, <1>2, <1>3, <1>5, <2>1 DEF Handshake
  <2>3. Handshake(o)'
    BY <1>1, <1>2, <1>5, <2>1 DEF Handshake
  <2> QED
    BY <2>2, <2>3
<1>9. Local(r)' /\ Theirs(r)'
  BY <1>1, <1>2, <1>5, EarlyFrame
<1>10. Local(o)' /\ Theirs(o)'
  BY <1>1, <1>2, <1>5, LocalFrame, TheirsFrame
<1>11. Stream(r)' /\ Stream(o)'
  <2>1. /\ Out(r)' = Out(r) /\ In(r)' = In(r) /\ Out(o)' = Out(o) /\ In(o)' = In(o)
    <3>1. N(r)' = N(r) /\ N(o)' = N(o) /\ Back(r)' = Back(r) /\ Back(o)' = Back(o) /\ Agreed' = Agreed
      BY <1>1, <1>2, Constants
    <3>2. ~Late(r) /\ ~Late(r)' /\ Late(o)' = Late(o)
      BY <1>2, <1>5, <3>1 DEF Late
    <3> QED
      BY <1>1, <1>2, <1>5, <3>1, <3>2 DEF Out, In
  <2>2. Wire(r)' = Wire(r) /\ Wire(o)' = Wire(o)
    BY <1>1, <1>2, <1>3, <1>5 DEF Wire
  <2>3. \A s \in Role, j \in Int : Nth(s, j)' = Nth(s, j)
    BY <1>2, Constants DEF Nth, First, inputVars
  <2>4. /\ Out(r) \in Nat /\ In(r) \in Nat /\ N(r) \in Nat /\ Len(Wire(r)) \in Nat /\ Len(got[r]) \in Nat
        /\ Out(o) \in Nat /\ In(o) \in Nat /\ N(o) \in Nat /\ Len(Wire(o)) \in Nat /\ Len(got[o]) \in Nat
    BY <1>1, Facts
  <2>5. pc'[r] \notin {"exchange", "answer"} /\ pc'[o] = pc[o] /\ got'[o] = got[o]
    BY <1>2, <1>5
  <2>6. Stream(r)'
    BY <1>1, <1>2, <2>1, <2>2, <2>3, <2>4, <2>5, StreamFrame
  <2>7. Stream(o)'
    BY <1>1, <1>2, <2>1, <2>2, <2>3, <2>4, <2>5, StreamFrame
  <2> QED
    BY <2>6, <2>7
<1> QED
  BY <1>1, <1>7, <1>8, <1>9, <1>10, <1>11 DEF IInv

(* The sender thread sends the masks of the stream one after the other. *)
LEMMA SendMaskStep ==
  ASSUME IInv, NEW r \in Role, SendMask(r)
  PROVE  IInv'
<1> DEFINE o == Other(r)
           m == SendBuffer(r)[sent[r]]
<1>1. /\ Shape /\ Handshake(r) /\ Local(r) /\ Stream(r) /\ Theirs(r)
      /\ o \in Role /\ o # r /\ Other(o) = r /\ \A s \in Role : s = r \/ s = o
      /\ Handshake(o) /\ Local(o) /\ Stream(o) /\ Theirs(o)
  BY Roles DEF IInv
<1>2. /\ pc[r] \in {"exchange", "answer"} /\ sent[r] < Size(SendBuffer(r))
      /\ chan' = [chan EXCEPT ![o] = Append(@, m)]
      /\ sent' = [sent EXCEPT ![r] = @ + 1]
      /\ UNCHANGED <<inputVars, pc, pneles, perm, got, hashes, phashes, matches, next, result>>
  BY DEF SendMask, Exchanging
<1>3. Agreed /\ ~Early(r) /\ ~Late(r) /\ pc[o] # "start"
  BY <1>1, <1>2 DEF Handshake, Early, Late
<1>4. /\ sent[r] \in Nat /\ N(r) \in Nat /\ N(o) \in Nat /\ Back(r) \in Nat /\ Back(r) <= N(o)
      /\ chan[o] \in Seq(Message) /\ Len(chan[o]) \in Nat /\ Wire(o) \in Seq(Message)
      /\ Len(Wire(o)) \in Nat /\ Out(r) \in Nat /\ In(o) \in Nat
  <2>1. Back(r) = N(o) \/ Back(r) = 0
    BY Roles DEF Back
  <2> QED
    BY <1>1, <2>1, Facts
<1>5. /\ m = Nth(r, Out(r)) /\ m \in Mask
      /\ (pc[r] = "exchange" => sent[r] < N(r))
      /\ (pc[r] = "answer" => sent[r] < Back(r))
  <2>1. CASE pc[r] = "exchange"
    <3>1. SendBuffer(r) = hashes[r] /\ hashes[r] \in [0 .. N(r) - 1 -> Mask]
      BY <1>1, <1>3, <2>1 DEF SendBuffer, Local, Own
    <3>2. Size(SendBuffer(r)) = N(r)
      BY <1>4, <3>1, SizeOf
    <3>3. sent[r] \in 0 .. N(r) - 1
      BY <1>2, <1>4, <3>2
    <3>4. hashes[r][sent[r]] = First(r, sent[r])
      BY <1>1, <1>3, <3>3 DEF Local, Own
    <3>5. Out(r) = sent[r]
      BY <2>1 DEF Out
    <3>6. Nth(r, Out(r)) = First(r, sent[r])
      <4>1. Out(r) < N(r)
        BY <1>4, <3>3, <3>5
      <4> QED
        BY <3>5, <4>1 DEF Nth
    <3>7. hashes[r][sent[r]] \in Mask
      BY <3>1, <3>3
    <3> QED
      BY <1>4, <2>1, <3>1, <3>3, <3>4, <3>6, <3>7
  <2>2. CASE pc[r] = "answer"
    <3>1. r = SERVER
      <4>1. ASSUME r # SERVER
            PROVE  FALSE
        <5>1. SendBuffer(r) = <<>>
          BY <2>2, <4>1 DEF SendBuffer
        <5>2. DOMAIN <<>> = {}
          OBVIOUS
        <5>3. Size(<<>>) = 0
          BY <5>2, FS_EmptySet DEF Size
        <5> QED
          BY <1>2, <1>4, <5>1, <5>3
      <4> QED
        BY <4>1
    <3>2. SendBuffer(r) = phashes[r] /\ phashes[r] \in [0 .. N(o) - 1 -> Mask]
      BY <1>1, <1>3, <2>2, <3>1 DEF SendBuffer, Theirs
    <3>3. Size(SendBuffer(r)) = N(o)
      BY <1>4, <3>2, SizeOf
    <3>4. Back(r) = N(o)
      <4>1. ~Naive
        BY <1>1, <2>2 DEF Handshake
      <4>2. o = CLIENT
        BY <3>1, Roles, ConstantsOK
      <4> QED
        BY <3>1, <4>1, <4>2 DEF Back
    <3>5. Out(r) = N(r) + sent[r]
      BY <2>2 DEF Out
    <3>6. Nth(r, Out(r)) = phashes[r][sent[r]]
      <4>1. ~(Out(r) < N(r)) /\ Out(r) - N(r) = sent[r]
        BY <1>4, <3>5
      <4> QED
        BY <4>1 DEF Nth
    <3>7. sent[r] \in 0 .. N(o) - 1
      BY <1>2, <1>4, <3>2, <3>3
    <3>8. phashes[r][sent[r]] \in Mask
      BY <3>2, <3>7
    <3> QED
      BY <1>4, <2>2, <3>2, <3>4, <3>6, <3>7, <3>8
  <2> QED
    BY <1>2, <2>1, <2>2
<1> HIDE DEF m
<1>6. /\ sent'[r] = sent[r] + 1 /\ sent'[o] = sent[o]
      /\ chan'[o] = Append(chan[o], m) /\ chan'[r] = chan[r] /\ m \in Message
      /\ sent' \in [Role -> Nat] /\ chan' \in [Role -> Seq(Message)]
  <2>1. m \in Message
    BY <1>5 DEF Message
  <2> QED
    BY <1>1, <1>2, <2>1, SMTT(30) DEF Shape
<1>7. Shape'
  BY <1>1, <1>2, <1>6 DEF Shape, inputVars
<1>8. Handshake(r)' /\ Handshake(o)'
  <2>1. Info(r)' = Info(r) /\ Info(o)' = Info(o) /\ Agreed' = Agreed /\ N(o)' = N(o) /\ N(r)' = N(r)
        /\ Naive' = Naive /\ Receiver(o)' = Receiver(o) /\ Receiver(r)' = Receiver(r)
    BY <1>1, <1>2, Constants
  <2>2. Handshake(r)'
    BY <1>1, <1>2, <1>6, <2>1 DEF Handshake
  <2>3. pc[o] \in {"start", "info"} => chan'[o] # <<>> /\ Head(chan'[o]) = Info(r)
    <3> SUFFICES ASSUME pc[o] \in {"start", "info"}
                 PROVE  chan'[o] # <<>> /\ Head(chan'[o]) = Info(r)
      OBVIOUS
    <3>1. chan[o] # <<>> /\ Head(chan[o]) = Info(r)
      BY <1>1, <1>2 DEF Handshake
    <3> QED
      <4>1. chan[o] \in Seq(Message) /\ m \in Message
        BY <1>4, <1>6
      <4>2. Append(chan[o], m) # <<>> /\ Head(Append(chan[o], m)) = Head(chan[o])
        BY <3>1, <4>1, Appended
      <4> QED
        BY <1>6, <3>1, <4>2
  <2>4. Handshake(o)'
    BY <1>1, <1>2, <1>6, <2>1, <2>3 DEF Handshake
  <2> QED
    BY <2>2, <2>4
<1>9. Local(r)'
  <2>1. Early(r)' = Early(r) /\ Late(r)' = Late(r) /\ N(r)' = N(r) /\ N(o)' = N(o) /\ Naive' = Naive
        /\ Back(r)' = Back(r) /\ Back(o)' = Back(o) /\ Agreed' = Agreed
    BY <1>1, <1>2, Constants DEF Early, Late
  <2>2. \A k : First(r, k)' = First(r, k)
    BY <1>2, Constants DEF First, inputVars
  <2>3. Blank(r)'
    BY <1>1, <1>2, <1>3, <2>1 DEF Local, Blank
  <2>4. Counts(r)'
    BY <1>1, <1>2, <1>3, <1>4, <1>5, <1>6, <2>1, SMTT(30) DEF Local, Counts
  <2>5. Own(r)'
    BY <1>1, <1>2, <2>1, <2>2 DEF Local, Own
  <2>6. Compared(r)' /\ Matched(r)'
    BY <1>1, <1>2, <1>3, <2>1 DEF Local, Compared, Matched
  <2> QED
    BY <2>3, <2>4, <2>5, <2>6 DEF Local
<1>10. Local(o)' /\ Theirs(o)' /\ Theirs(r)'
  BY <1>1, <1>2, <1>6, LocalFrame, TheirsFrame
<1>11. /\ Out(r)' = Out(r) + 1 /\ In(r)' = In(r) /\ Out(o)' = Out(o) /\ In(o)' = In(o)
       /\ Wire(r)' = Wire(r) /\ Wire(o)' = Append(Wire(o), m)
  <2>1. /\ N(r)' = N(r) /\ N(o)' = N(o) /\ Back(r)' = Back(r) /\ Back(o)' = Back(o)
        /\ Late(r)' = Late(r) /\ Late(o)' = Late(o)
    BY <1>1, <1>2, Constants DEF Late
  <2>2. In(r)' = In(r) /\ In(o)' = In(o)
    BY <1>1, <1>2, <2>1 DEF In
  <2>3. Out(o)' = Out(o)
    BY <1>1, <1>2, <1>6, <2>1 DEF Out
  <2>6. Out(r)' = Out(r) + 1
    <3>1. CASE pc[r] = "exchange"
      BY <1>2, <1>6, <3>1 DEF Out
    <3>2. CASE pc[r] = "answer"
      BY <1>2, <1>4, <1>6, <2>1, <3>2 DEF Out
    <3> QED
      BY <1>2, <3>1, <3>2
  <2>4. Wire(r)' = Wire(r)
    BY <1>1, <1>2, <1>6 DEF Wire
  <2>5. Wire(o)' = Append(Wire(o), m)
    <3>1. CASE pc[o] \in {"start", "info"}
      <4>1. chan[o] # <<>>
        BY <1>1, <1>2, <3>1 DEF Handshake
      <4>2. Tail(Append(chan[o], m)) = Append(Tail(chan[o]), m)
        BY <1>4, <1>6, <4>1, HeadTailAppend
      <4> QED
        BY <1>1, <1>2, <1>6, <3>1, <4>2 DEF Wire
    <3>2. CASE pc[o] \notin {"start", "info"}
      BY <1>1, <1>2, <1>6, <3>2 DEF Wire
    <3> QED
      BY <3>1, <3>2
  <2> QED
    BY <2>2, <2>3, <2>4, <2>5, <2>6
<1>12. \A s \in Role, j \in Int : Nth(s, j)' = Nth(s, j)
  BY <1>2, Constants DEF Nth, First, inputVars
<1>13. Stream(r)'
  <2>1. /\ Out(o) \in Nat /\ In(r) \in Nat /\ Len(Wire(r)) \in Nat /\ Len(got[r]) \in Nat
    BY <1>1, Facts
  <2> QED
    BY <1>1, <1>2, <1>4, <1>11, <1>12, <2>1, StreamFrame
<1>14. Stream(o)'
  <2> DEFINE w == Wire(o)
  <2>1. Agreed' /\ N(r)' = N(r)
    BY <1>1, <1>2, <1>3, Constants
  <2>2. Len(w) = Out(r) - In(o) /\ Len(Append(w, m)) = Len(w) + 1
    BY <1>1, <1>3, <1>4 DEF Stream
  <2>3. ASSUME NEW k \in 1 .. Len(Append(w, m))
        PROVE  Append(w, m)[k] = Nth(r, In(o) + k - 1)
    <3>1. CASE k <= Len(w)
      BY <1>1, <1>3, <1>4, <2>2, <3>1, SMTT(30) DEF Stream
    <3>2. CASE k = Len(w) + 1
      BY <1>4, <1>5, <2>2, <3>2, SMTT(30)
    <3> QED
      BY <1>4, <2>2, <3>1, <3>2
  <2>4. \A k \in 1 .. Len(Append(w, m)) : In(o) + k - 1 \in Int
    BY <1>4, <2>2
  <2>5. /\ Len(Wire(o))' = Out(r)' - In(o)'
        /\ \A k \in 1 .. Len(Wire(o)') : Wire(o)'[k] = Nth(r, In(o) + k - 1)'
    BY <1>1, <1>4, <1>11, <1>12, <2>2, <2>3, <2>4, SMTT(30)
  <2>6. /\ pc[o] = "exchange" => \A k \in 1 .. Len(got[o]) : got[o][k] = Nth(r, k - 1)'
        /\ pc[o] = "answer" => \A k \in 1 .. Len(got[o]) : got[o][k] = Nth(r, N(r) + k - 1)'
    <3>1. Len(got[o]) \in Nat
      BY <1>1, Facts
    <3> QED
      BY <1>1, <1>3, <1>4, <1>12, <2>1, <3>1, SMTT(30) DEF Stream
  <2> QED
    BY <1>1, <1>2, <2>1, <2>5, <2>6 DEF Stream
<1> QED
  BY <1>1, <1>7, <1>8, <1>9, <1>10, <1>13, <1>14 DEF IInv

(* What was sent is a mask, of the party's own array or of its answer. *)
LEMMA SentIsMask ==
  ASSUME IInv, Agreed, NEW s \in Role, NEW j \in Nat, j < Out(s)
  PROVE  /\ ~Early(s) /\ Nth(s, j) \in Mask
         /\ j < N(s) => /\ perm[s] \in Bijections(N(s)) /\ Nth(s, j) = First(s, j)
         /\ j >= N(s) => /\ s = SERVER /\ ~Naive /\ (pc[s] = "answer" \/ Late(s))
                         /\ j - N(s) \in 0 .. N(Other(s)) - 1
                         /\ Nth(s, j) = phashes[s][j - N(s)]
<1>1. Shape /\ Handshake(s) /\ Local(s) /\ Theirs(s)
  BY DEF IInv
<1>2. N(s) \in Nat /\ N(Other(s)) \in Nat /\ sent[s] \in Nat /\ Back(s) \in Nat
  BY <1>1, Facts
<1>3. ~Early(s)
  <2>1. pc[s] \in PC
    BY <1>1, Facts
  <2>2. Early(s) => Out(s) = 0
    BY <2>1 DEF Early, Late, Out
  <2> QED
    BY <2>2
<1>4. j < N(s) => /\ perm[s] \in Bijections(N(s)) /\ Nth(s, j) = First(s, j)
                  /\ First(s, j) \in Mask
  BY <1>1, <1>2, <1>3, FirstIs DEF Local, Own, Nth
<1>5. ASSUME j >= N(s)
      PROVE  /\ s = SERVER /\ ~Naive /\ (pc[s] = "answer" \/ Late(s))
             /\ j - N(s) \in 0 .. N(Other(s)) - 1
             /\ Nth(s, j) = phashes[s][j - N(s)]
             /\ Nth(s, j) \in Mask
  <2>1. (pc[s] = "answer" \/ Late(s)) /\ j < N(s) + Back(s) /\ pc[s] # "exchange"
    <3>1. CASE pc[s] = "exchange"
      BY <1>1, <1>2, <1>5, <3>1 DEF Out, Local, Counts
    <3>2. CASE pc[s] = "second"
      BY <1>2, <1>5, <3>2 DEF Out
    <3>3. CASE pc[s] = "answer"
      BY <1>1, <1>2, <3>3 DEF Out, Local, Counts
    <3>4. CASE pc[s] \notin {"exchange", "second", "answer"}
      BY <1>2, <3>4 DEF Out, Late
    <3> QED
      BY <3>1, <3>2, <3>3, <3>4
  <2>2. s = SERVER /\ ~Naive /\ Back(s) = N(Other(s))
    BY <1>2, <1>5, <2>1, Roles, ConstantsOK DEF Back
  <2>3. phashes[s] \in [0 .. N(Other(s)) - 1 -> Mask]
    BY <1>1, <1>3, <2>1 DEF Theirs
  <2>4. j - N(s) \in 0 .. N(Other(s)) - 1
    BY <1>2, <1>5, <2>1, <2>2
  <2>5. Nth(s, j) = phashes[s][j - N(s)]
    BY <1>2, <1>5 DEF Nth
  <2> QED
    BY <2>1, <2>2, <2>3, <2>4, <2>5
<1> QED
  BY <1>2, <1>3, <1>4, <1>5

(* The caller receives the masks of the stream in their order. *)
LEMMA ReceiveMaskStep ==
  ASSUME IInv, NEW r \in Role, ReceiveMask(r)
  PROVE  IInv'
<1> DEFINE o == Other(r)
           m == Head(chan[r])
<1>1. /\ Shape /\ Handshake(r) /\ Local(r) /\ Stream(r) /\ Theirs(r)
      /\ o \in Role /\ o # r /\ Other(o) = r /\ \A s \in Role : s = r \/ s = o
      /\ Handshake(o) /\ Local(o) /\ Stream(o) /\ Theirs(o)
  BY Roles DEF IInv
<1>2. /\ pc[r] \in {"exchange", "answer"} /\ Len(got[r]) < ReceiveCount(r) /\ chan[r] # <<>>
      /\ chan' = [chan EXCEPT ![r] = Tail(@)]
      /\ got' = [got EXCEPT ![r] = Append(@, m)]
      /\ UNCHANGED <<inputVars, pc, pneles, perm, sent, hashes, phashes, matches, next, result>>
  BY DEF ReceiveMask, Exchanging
<1>3. Agreed /\ ~Early(r) /\ ~Late(r) /\ pc[o] # "start" /\ pneles[r] = N(o)
  BY <1>1, <1>2 DEF Handshake, Early, Late
<1>4. /\ N(r) \in Nat /\ N(o) \in Nat /\ Back(r) \in Nat /\ Back(o) \in Nat
      /\ chan[r] \in Seq(Message) /\ got[r] \in Seq(Mask) /\ Len(got[r]) \in Nat
      /\ Wire(r) = chan[r] /\ Out(o) \in Nat /\ In(r) \in Nat /\ Len(chan[r]) \in Nat
  <2>1. Wire(r) = chan[r]
    BY <1>2 DEF Wire
  <2> QED
    BY <1>1, <2>1, Facts
<1>5. /\ Len(chan[r]) >= 1 /\ m = chan[r][1] /\ Tail(chan[r]) \in Seq(Message)
      /\ Len(Tail(chan[r])) = Len(chan[r]) - 1
      /\ \A k \in 1 .. Len(chan[r]) - 1 : Tail(chan[r])[k] = chan[r][k + 1]
  BY <1>2, <1>4
<1>6. /\ Len(chan[r]) = Out(o) - In(r)
      /\ \A k \in 1 .. Len(chan[r]) : chan[r][k] = Nth(o, In(r) + k - 1)
  BY <1>1, <1>3, <1>4 DEF Stream
<1>7. m = Nth(o, In(r)) /\ m \in Mask
  <2>1. In(r) + 1 - 1 = In(r) /\ 1 \in 1 .. Len(chan[r]) /\ In(r) < Out(o)
    BY <1>4, <1>5, <1>6
  <2>2. m = Nth(o, In(r))
    BY <1>5, <1>6, <2>1
  <2>3. Nth(o, In(r)) \in Mask
    BY <1>1, <1>3, <1>4, <2>1, SentIsMask
  <2> QED
    BY <2>2, <2>3
<1>8. /\ pc[r] = "exchange" => Len(got[r]) < N(o) /\ In(r) = Len(got[r])
      /\ pc[r] = "answer" => Len(got[r]) < Back(o) /\ In(r) = N(o) + Len(got[r])
  <2>1. pc[r] = "exchange" => Len(got[r]) < N(o) /\ In(r) = Len(got[r])
    BY <1>2, <1>3 DEF ReceiveCount, In
  <2>2. ASSUME pc[r] = "answer"
        PROVE  Len(got[r]) < Back(o) /\ In(r) = N(o) + Len(got[r])
    <3>1. r # SERVER
      BY <1>2, <1>4, <2>2 DEF ReceiveCount
    <3>2. ReceiveCount(r) = N(r) /\ r = CLIENT /\ o = SERVER
      BY <2>2, <3>1, Roles DEF ReceiveCount, N
    <3>3. ~Naive
      BY <1>1, <2>2 DEF Handshake
    <3> QED
      BY <1>2, <2>2, <3>2, <3>3 DEF Back, In
  <2> QED
    BY <2>1, <2>2
<1> HIDE DEF m
<1>9. /\ got'[r] = Append(got[r], m) /\ got'[o] = got[o]
      /\ chan'[r] = Tail(chan[r]) /\ chan'[o] = chan[o]
      /\ got' \in [Role -> Seq(Mask)] /\ chan' \in [Role -> Seq(Message)]
      /\ Len(got'[r]) = Len(got[r]) + 1
  <2>1. /\ Append(got[r], m) \in Seq(Mask) /\ Len(Append(got[r], m)) = Len(got[r]) + 1
    BY <1>4, <1>7, AppendProperties
  <2> QED
    BY <1>1, <1>2, <1>5, <2>1 DEF Shape
<1>10. Shape'
  BY <1>1, <1>2, <1>9 DEF Shape, inputVars
<1>11. Handshake(r)' /\ Handshake(o)'
  <2>1. Info(r)' = Info(r) /\ Agreed' = Agreed /\ N(o)' = N(o) /\ N(r)' = N(r)
        /\ Naive' = Naive /\ Receiver(o)' = Receiver(o) /\ Receiver(r)' = Receiver(r)
    BY <1>1, <1>2, Constants
  <2>2. Handshake(r)'
    BY <1>1, <1>2, <2>1 DEF Handshake
  <2>3. Handshake(o)'
    BY <1>1, <1>2, <1>9, <2>1 DEF Handshake
  <2> QED
    BY <2>2, <2>3
<1>12. Local(r)'
  <2>1. Early(r)' = Early(r) /\ Late(r)' = Late(r) /\ N(r)' = N(r) /\ N(o)' = N(o) /\ Naive' = Naive
        /\ Back(r)' = Back(r) /\ Back(o)' = Back(o) /\ Agreed' = Agreed
    BY <1>1, <1>2, Constants DEF Early, Late
  <2>2. \A k : First(r, k)' = First(r, k)
    BY <1>2, Constants DEF First, inputVars
  <2>3. Blank(r)'
    BY <1>1, <1>2, <1>3, <2>1 DEF Local, Blank
  <2>4. Counts(r)'
    BY <1>1, <1>2, <1>3, <1>4, <1>8, <1>9, <2>1 DEF Local, Counts
  <2>5. Own(r)'
    BY <1>1, <1>2, <2>1, <2>2 DEF Local, Own
  <2>6. Compared(r)' /\ Matched(r)'
    BY <1>1, <1>2, <1>3, <2>1 DEF Local, Compared, Matched
  <2> QED
    BY <2>3, <2>4, <2>5, <2>6 DEF Local
<1>13. Local(o)' /\ Theirs(o)' /\ Theirs(r)'
  BY <1>1, <1>2, <1>9, LocalFrame, TheirsFrame
<1>14. /\ Out(r)' = Out(r) /\ In(r)' = In(r) + 1 /\ Out(o)' = Out(o) /\ In(o)' = In(o)
       /\ Wire(r)' = Tail(chan[r]) /\ Wire(o)' = Wire(o)
  <2>1. /\ N(r)' = N(r) /\ N(o)' = N(o) /\ Back(r)' = Back(r) /\ Back(o)' = Back(o)
        /\ Late(r)' = Late(r) /\ Late(o)' = Late(o)
    BY <1>1, <1>2, Constants DEF Late
  <2>2. Out(r)' = Out(r) /\ Out(o)' = Out(o)
    BY <1>1, <1>2, <2>1 DEF Out
  <2>3. In(o)' = In(o)
    BY <1>1, <1>2, <1>9, <2>1 DEF In
  <2>4. In(r)' = In(r) + 1
    <3>1. CASE pc[r] = "exchange"
      BY <1>2, <1>9, <3>1 DEF In
    <3>2. CASE pc[r] = "answer"
      <4>1. In(r)' = N(o) + Len(got'[r])
        BY <1>2, <2>1, <3>2 DEF In
      <4> QED
        BY <1>4, <1>8, <1>9, <3>2, <4>1
    <3> QED
      BY <1>2, <3>1, <3>2
  <2>5. Wire(r)' = Tail(chan[r]) /\ Wire(o)' = Wire(o)
    BY <1>1, <1>2, <1>9 DEF Wire
  <2> QED
    BY <2>2, <2>3, <2>4, <2>5
<1>15. \A s \in Role, j \in Int : Nth(s, j)' = Nth(s, j)
  BY <1>2, Constants DEF Nth, First, inputVars
<1>16. Stream(o)'
  <2>1. /\ Out(r) \in Nat /\ In(o) \in Nat /\ Len(Wire(o)) \in Nat /\ Len(got[o]) \in Nat
    BY <1>1, Facts
  <2> QED
    BY <1>1, <1>2, <1>4, <1>9, <1>14, <1>15, <2>1, StreamFrame
<1>17. Stream(r)'
  <2> DEFINE w == Tail(chan[r])
  <2>1. Agreed' /\ N(o)' = N(o)
    BY <1>1, <1>2, <1>3, Constants
  <2>2. Len(w) = Out(o) - (In(r) + 1)
    BY <1>4, <1>5, <1>6
  <2>3. ASSUME NEW k \in 1 .. Len(w)
        PROVE  w[k] = Nth(o, In(r) + 1 + k - 1) /\ In(r) + 1 + k - 1 \in Int
    <3>1. k \in 1 .. Len(chan[r]) - 1 /\ k + 1 \in 1 .. Len(chan[r])
          /\ In(r) + (k + 1) - 1 = In(r) + 1 + k - 1
      BY <1>4, <1>5
    <3>2. chan[r][k + 1] = Nth(o, In(r) + (k + 1) - 1)
      BY <1>6, <3>1
    <3> QED
      BY <1>4, <1>5, <3>1, <3>2, SMTT(30)
  <2>4. /\ Len(Wire(r))' = Out(o)' - In(r)'
        /\ \A k \in 1 .. Len(Wire(r)') : Wire(r)'[k] = Nth(o, In(r) + k - 1)'
    BY <1>1, <1>4, <1>14, <1>15, <2>2, <2>3
  <2>5. pc[r] = "exchange" => \A k \in 1 .. Len(got'[r]) : got'[r][k] = Nth(o, k - 1)'
    <3> SUFFICES ASSUME pc[r] = "exchange", NEW k \in 1 .. Len(got'[r])
                 PROVE  got'[r][k] = Nth(o, k - 1)'
      OBVIOUS
    <3>0. pc[r] = "exchange"
      OBVIOUS
    <3>1. k \in 1 .. Len(got[r]) + 1 /\ k - 1 \in Int
      BY <1>4, <1>9
    <3>2. Nth(o, k - 1)' = Nth(o, k - 1)
      BY <1>1, <1>15, <3>1
    <3>3. CASE k = Len(got[r]) + 1
      <4>1. got'[r][k] = m
        BY <1>4, <1>7, <1>9, <3>3, AppendProperties
      <4>2. k - 1 = In(r)
        BY <1>4, <1>8, <3>3
      <4> QED
        BY <1>7, <3>2, <4>1, <4>2
    <3>4. CASE k \in 1 .. Len(got[r])
      <4>1. got'[r][k] = got[r][k]
        BY <1>4, <1>7, <1>9, <3>4, AppendProperties
      <4>2. \A l \in 1 .. Len(got[r]) : got[r][l] = Nth(o, l - 1)
        BY <1>1, <1>3, <3>0 DEF Stream
      <4>3. got[r][k] = Nth(o, k - 1)
        BY <3>4, <4>2
      <4> QED
        BY <3>2, <4>1, <4>3
    <3>5. k = Len(got[r]) + 1 \/ k \in 1 .. Len(got[r])
      BY <1>4, <3>1
    <3> QED
      BY <3>3, <3>4, <3>5
  <2>6. pc[r] = "answer" => \A k \in 1 .. Len(got'[r]) : got'[r][k] = Nth(o, N(o) + k - 1)'
    <3> SUFFICES ASSUME pc[r] = "answer", NEW k \in 1 .. Len(got'[r])
                 PROVE  got'[r][k] = Nth(o, N(o) + k - 1)'
      OBVIOUS
    <3>0. pc[r] = "answer"
      OBVIOUS
    <3>1. k \in 1 .. Len(got[r]) + 1 /\ N(o) + k - 1 \in Int
      BY <1>4, <1>9
    <3>2. Nth(o, N(o) + k - 1)' = Nth(o, N(o) + k - 1)
      BY <1>1, <1>15, <2>1, <3>1
    <3>3. CASE k = Len(got[r]) + 1
      <4>1. got'[r][k] = m
        BY <1>4, <1>7, <1>9, <3>3, AppendProperties
      <4>2. N(o) + k - 1 = In(r)
        BY <1>4, <1>8, <3>3
      <4> QED
        BY <1>7, <3>2, <4>1, <4>2
    <3>4. CASE k \in 1 .. Len(got[r])
      <4>1. got'[r][k] = got[r][k]
        BY <1>4, <1>7, <1>9, <3>4, AppendProperties
      <4>2. \A l \in 1 .. Len(got[r]) : got[r][l] = Nth(o, N(o) + l - 1)
        BY <1>1, <1>3, <3>0 DEF Stream
      <4>3. got[r][k] = Nth(o, N(o) + k - 1)
        BY <3>4, <4>2
      <4> QED
        BY <3>2, <4>1, <4>3
    <3>5. k = Len(got[r]) + 1 \/ k \in 1 .. Len(got[r])
      BY <1>4, <3>1
    <3> QED
      BY <3>3, <3>4, <3>5
  <2> QED
    BY <1>1, <1>2, <2>1, <2>4, <2>5, <2>6 DEF Stream
<1> QED
  BY <1>1, <1>10, <1>11, <1>12, <1>13, <1>16, <1>17 DEF IInv

(* After the exchanges only the search for matches goes on. *)
LEMMA LateFrame ==
  ASSUME IInv, NEW r \in Role, Agreed,
         pc[r] \in {"find", "create"}, NEW after \in {"find", "create", "done", "aborted"},
         pc' = [pc EXCEPT ![r] = after],
         after = "find" => pc[r] = "find",
         after # "done" => result'[r] = <<>>,
         \A s \in Role : s # r =>
           matches'[s] = matches[s] /\ next'[s] = next[s] /\ result'[s] = result[s],
         DOMAIN matches' = Role, DOMAIN result' = Role, next' \in [Role -> Nat],
         UNCHANGED <<inputVars, pneles, perm, chan, sent, got, hashes, phashes>>,
         Matched(r)'
  PROVE  IInv'
<1> DEFINE o == Other(r)
<1>1. /\ Shape /\ Handshake(r) /\ Local(r) /\ Stream(r) /\ Theirs(r)
      /\ o \in Role /\ o # r /\ Other(o) = r /\ \A s \in Role : s = r \/ s = o
      /\ Handshake(o) /\ Local(o) /\ Stream(o) /\ Theirs(o)
  BY Roles DEF IInv
<1>2. /\ pc'[o] = pc[o] /\ matches'[o] = matches[o] /\ next'[o] = next[o] /\ result'[o] = result[o]
      /\ pc'[r] = after
  BY <1>1 DEF Shape
<1>3. ~Early(r) /\ Late(r) /\ ~Early(r)' /\ Late(r)' /\ Agreed'
  BY <1>2, Constants DEF Early, Late
<1>4. /\ N(r)' = N(r) /\ N(o)' = N(o) /\ Naive' = Naive /\ Back(r)' = Back(r) /\ Back(o)' = Back(o)
      /\ Receiver(r)' = Receiver(r) /\ Receiver(o)' = Receiver(o)
      /\ Info(r)' = Info(r) /\ Info(o)' = Info(o) /\ Early(o)' = Early(o) /\ Late(o)' = Late(o)
  BY <1>1, <1>2, Constants DEF Early, Late
<1>5. Shape'
  <2>1. pc' \in [Role -> PC]
    BY <1>1 DEF Shape, PC
  <2> QED
    BY <1>1, <2>1 DEF Shape, inputVars
<1>6. Handshake(r)' /\ Handshake(o)'
  <2>1. Handshake(r)'
    BY <1>1, <1>2, <1>3, <1>4 DEF Handshake
  <2>2. Handshake(o)'
    BY <1>1, <1>2, <1>3, <1>4 DEF Handshake
  <2> QED
    BY <2>1, <2>2
<1>7. \A s \in Role : \A k : First(s, k)' = First(s, k)
  BY DEF First, Naive, inputVars
<1>8. Local(r)'
  <2>1. Blank(r)'
    BY <1>2, <1>3 DEF Blank
  <2>2. Counts(r)'
    BY <1>1, <1>2, <1>3, <1>4 DEF Local, Counts
  <2>3. Own(r)'
    BY <1>1, <1>2, <1>3, <1>4, <1>7 DEF Local, Own
  <2>4. Compared(r)'
    <3>1. /\ \A q : Lists(hashes[r], q, r)' = Lists(hashes[r], q, r)
          /\ \A q : Lists(phashes[r], q, o)' = Lists(phashes[r], q, o)
      BY <1>4 DEF Lists, inputVars
    <3>2. Receiver(r) =>
            /\ \E q \in Bijections(N(r)) :
                 /\ Naive \/ ~setting[SERVER].cardinality => q = perm[r]
                 /\ Lists(hashes[r], q, r)'
            /\ \E q \in Bijections(N(o)) : Lists(phashes[r], q, o)'
      BY <1>1, <1>3, <3>1 DEF Local, Compared
    <3> QED
      BY <1>3, <1>4, <3>2 DEF Compared, inputVars
  <2> QED
    BY <2>1, <2>2, <2>3, <2>4 DEF Local
<1>9. Local(o)' /\ Theirs(o)'
  BY <1>1, <1>2, LocalFrame, TheirsFrame
<1>10. Theirs(r)'
  <2>1. \A k : First(o, k)' = First(o, k)
    BY <1>1, <1>7
  <2>2. Doubled(r) => Doubled(r)'
    BY <1>1, DoubledFrame
  <2> QED
    BY <1>1, <1>2, <1>3, <1>4, <2>1, <2>2 DEF Theirs
<1>11. Stream(r)' /\ Stream(o)'
  <2>1. /\ Out(r)' = Out(r) /\ In(r)' = In(r) /\ Out(o)' = Out(o) /\ In(o)' = In(o)
    BY <1>1, <1>2, <1>3, <1>4 DEF Out, In
  <2>2. Wire(r)' = Wire(r) /\ Wire(o)' = Wire(o)
    BY <1>1, <1>2 DEF Wire
  <2>3. \A s \in Role, j \in Int : Nth(s, j)' = Nth(s, j)
    BY <1>7, Constants DEF Nth
  <2>4. /\ Out(r) \in Nat /\ In(r) \in Nat /\ N(r) \in Nat /\ Len(Wire(r)) \in Nat /\ Len(got[r]) \in Nat
        /\ Out(o) \in Nat /\ In(o) \in Nat /\ N(o) \in Nat /\ Len(Wire(o)) \in Nat /\ Len(got[o]) \in Nat
    BY <1>1, Facts
  <2>5. Stream(r)'
    BY <1>1, <1>2, <2>1, <2>2, <2>3, <2>4, StreamFrame, SMTT(30)
  <2>6. Stream(o)'
    BY <1>1, <1>2, <2>1, <2>2, <2>3, <2>4, StreamFrame
  <2> QED
    BY <2>5, <2>6
<1> QED
  BY <1>1, <1>5, <1>6, <1>8, <1>9, <1>10, <1>11 DEF IInv

(* The last round of the search. *)
LEMMA FindDoneStep ==
  ASSUME IInv, NEW r \in Role, FindDone(r)
  PROVE  IInv'
<1>1. Shape /\ Handshake(r) /\ Local(r)
  BY DEF IInv
<1>2. /\ pc[r] = "find" /\ next[r] = pneles[r] /\ pc' = [pc EXCEPT ![r] = "create"]
      /\ UNCHANGED <<inputVars, pneles, perm, chan, sent, got, hashes, phashes, matches,
                     next, result>>
  BY DEF FindDone
<1>3. Agreed /\ pneles[r] = N(Other(r)) /\ Receiver(r) /\ pc'[r] = "create" /\ result[r] = <<>>
  BY <1>1, <1>2 DEF Handshake, Shape, Local, Blank
<1>4. Matched(r)'
  <2>1. /\ N(r)' = N(r) /\ N(Other(r))' = N(Other(r)) /\ Receiver(r)' = Receiver(r)
        /\ CollisionFree' = CollisionFree /\ ~Early(r) /\ Late(r)
    BY <1>2, <1>3, Constants, Roles DEF Early, Late
  <2>2. \A n : MatchedBy(r, n)' = MatchedBy(r, n)
    BY <1>2, <2>1 DEF MatchedBy
  <2> QED
    BY <1>1, <1>2, <1>3, <2>1, <2>2 DEF Local, Matched
<1>5. DOMAIN matches' = Role /\ DOMAIN result' = Role /\ next' \in [Role -> Nat]
  BY <1>1, <1>2 DEF Shape
<1> QED
  BY <1>2, <1>3, <1>4, <1>5, LateFrame

(* The result is sorted once. *)
LEMMA CreateResultStep ==
  ASSUME IInv, NEW r \in Role, CreateResult(r)
  PROVE  IInv'
<1>1. Shape /\ Handshake(r) /\ Local(r)
  BY DEF IInv
<1>2. /\ pc[r] = "create" /\ pc' = [pc EXCEPT ![r] = "done"]
      /\ result' = [result EXCEPT ![r] = Ascending(matches[r])]
      /\ UNCHANGED <<inputVars, pneles, perm, chan, sent, got, hashes, phashes, matches, next>>
  BY DEF CreateResult
<1>3. Agreed /\ pc'[r] = "done" /\ result'[r] = Ascending(matches[r])
  BY <1>1, <1>2 DEF Handshake, Shape
<1>4. Matched(r)'
  <2>1. /\ N(r)' = N(r) /\ N(Other(r))' = N(Other(r)) /\ Receiver(r)' = Receiver(r)
        /\ CollisionFree' = CollisionFree /\ ~Early(r) /\ Late(r)
    BY <1>2, <1>3, Constants, Roles DEF Early, Late
  <2>2. \A n : MatchedBy(r, n)' = MatchedBy(r, n)
    BY <1>2, <2>1 DEF MatchedBy
  <2>3. Ascending(matches[r])' = Ascending(matches[r])
    BY <1>2
  <2> QED
    BY <1>1, <1>2, <1>3, <2>1, <2>2, <2>3 DEF Local, Matched
<1>5. /\ DOMAIN matches' = Role /\ DOMAIN result' = Role /\ next' \in [Role -> Nat]
      /\ \A s \in Role : s # r => result'[s] = result[s]
  BY <1>1, <1>2 DEF Shape
<1> QED
  BY <1>2, <1>3, <1>4, <1>5, LateFrame

(***************************************************************************)
(* The search for matches.                                                 *)
(***************************************************************************)

(* The masks that are compared: one per element of each set, no two the same. *)
LEMMA ComparedMasks ==
  ASSUME IInv, NEW r \in Role, Late(r), Receiver(r)
  PROVE  /\ hashes[r] \in [0 .. N(r) - 1 -> Mask]
         /\ phashes[r] \in [0 .. N(Other(r)) - 1 -> Mask]
         /\ \A k \in 0 .. N(r) - 1 : \E e \in SetOf(r) :
              hashes[r][k] = [ele |-> e, exps |-> IF Naive THEN {} ELSE Role]
         /\ \A k \in 0 .. N(Other(r)) - 1 : \E e \in SetOf(Other(r)) :
              phashes[r][k] = [ele |-> e, exps |-> IF Naive THEN {} ELSE Role]
         /\ \A k, l \in 0 .. N(r) - 1 : hashes[r][k] = hashes[r][l] => k = l
         /\ \A k, l \in 0 .. N(Other(r)) - 1 : phashes[r][k] = phashes[r][l] => k = l
         /\ \A e \in SetOf(Other(r)) : \E k \in 0 .. N(Other(r)) - 1 :
              phashes[r][k] = [ele |-> e, exps |-> IF Naive THEN {} ELSE Role]
<1> DEFINE o == Other(r)
           F == IF Naive THEN {} ELSE Role
<1>1. Shape /\ Handshake(r) /\ Local(r) /\ Theirs(r) /\ o \in Role
  BY Roles DEF IInv
<1>2. /\ N(r) \in Nat /\ DOMAIN elements[r] = 0 .. N(r) - 1
      /\ \A i, j \in 0 .. N(r) - 1 : elements[r][i] = elements[r][j] => i = j
      /\ N(o) \in Nat /\ DOMAIN elements[o] = 0 .. N(o) - 1
      /\ \A i, j \in 0 .. N(o) - 1 : elements[o][i] = elements[o][j] => i = j
  BY <1>1, Sizes DEF Shape
<1>3. ~Early(r) /\ pc[r] # "exchange"
  BY DEF Early, Late
<1>4. hashes[r] \in [0 .. N(r) - 1 -> Mask] /\ phashes[r] \in [0 .. N(o) - 1 -> Mask]
  BY <1>1, <1>3 DEF Local, Own, Theirs
<1>5. PICK q \in Bijections(N(r)) :
        \A i \in 0 .. N(r) - 1 : hashes[r][q[i]] = [ele |-> elements[r][i], exps |-> F]
  BY <1>1 DEF Local, Compared, Lists
<1>6. PICK p \in Bijections(N(o)) :
        \A i \in 0 .. N(o) - 1 : phashes[r][p[i]] = [ele |-> elements[o][i], exps |-> F]
  BY <1>1 DEF Local, Compared, Lists
<1>7. /\ \A k \in 0 .. N(r) - 1 : \E i \in 0 .. N(r) - 1 : q[i] = k
      /\ \A k \in 0 .. N(o) - 1 : \E i \in 0 .. N(o) - 1 : p[i] = k
      /\ \A i \in 0 .. N(o) - 1 : p[i] \in 0 .. N(o) - 1
  <2>1. p \in [0 .. N(o) - 1 -> 0 .. N(o) - 1]
    BY DEF Bijections
  <2> QED
    BY <1>2, <2>1, Onto
<1> HIDE DEF F
<1>8. \A e, f : [ele |-> e, exps |-> F] = [ele |-> f, exps |-> F] => e = f
  <2> TAKE e, f
  <2> HAVE [ele |-> e, exps |-> F] = [ele |-> f, exps |-> F]
  <2>1. [ele |-> e, exps |-> F].ele = e /\ [ele |-> f, exps |-> F].ele = f
    OBVIOUS
  <2> QED
    BY <2>1
<1>9. ASSUME NEW k \in 0 .. N(r) - 1
      PROVE  \E e \in SetOf(r) : hashes[r][k] = [ele |-> e, exps |-> F]
  <2>1. PICK i \in 0 .. N(r) - 1 : q[i] = k
    BY <1>7
  <2> QED
    BY <1>2, <1>5, <2>1 DEF SetOf
<1>10. ASSUME NEW k \in 0 .. N(o) - 1
       PROVE  \E e \in SetOf(o) : phashes[r][k] = [ele |-> e, exps |-> F]
  <2>1. PICK i \in 0 .. N(o) - 1 : p[i] = k
    BY <1>7
  <2> QED
    BY <1>2, <1>6, <2>1 DEF SetOf
<1>11. ASSUME NEW k \in 0 .. N(r) - 1, NEW l \in 0 .. N(r) - 1, hashes[r][k] = hashes[r][l]
       PROVE  k = l
  <2>1. PICK i \in 0 .. N(r) - 1 : q[i] = k
    BY <1>7
  <2>2. PICK j \in 0 .. N(r) - 1 : q[j] = l
    BY <1>7
  <2>3. [ele |-> elements[r][i], exps |-> F] = [ele |-> elements[r][j], exps |-> F]
    BY <1>5, <1>11, <2>1, <2>2
  <2>4. elements[r][i] = elements[r][j]
    BY <1>8, <2>3
  <2> QED
    BY <1>2, <2>1, <2>2, <2>4
<1>12. ASSUME NEW k \in 0 .. N(o) - 1, NEW l \in 0 .. N(o) - 1, phashes[r][k] = phashes[r][l]
       PROVE  k = l
  <2>1. PICK i \in 0 .. N(o) - 1 : p[i] = k
    BY <1>7
  <2>2. PICK j \in 0 .. N(o) - 1 : p[j] = l
    BY <1>7
  <2>3. [ele |-> elements[o][i], exps |-> F] = [ele |-> elements[o][j], exps |-> F]
    BY <1>6, <1>12, <2>1, <2>2
  <2>4. elements[o][i] = elements[o][j]
    BY <1>8, <2>3
  <2> QED
    BY <1>2, <2>1, <2>2, <2>4
<1>13. ASSUME NEW e \in SetOf(o)
       PROVE  \E k \in 0 .. N(o) - 1 : phashes[r][k] = [ele |-> e, exps |-> F]
  <2>1. PICK i \in 0 .. N(o) - 1 : elements[o][i] = e
    BY <1>2 DEF SetOf
  <2> QED
    BY <1>6, <1>7, <2>1
<1> QED
  BY <1>4, <1>9, <1>10, <1>11, <1>12, <1>13 DEF F

(* A lookup finds the place of one of r's elements, and without collisions it finds the
   one whose mask is the one that is looked up. *)
LEMMA LookupFinds ==
  ASSUME IInv, NEW r \in Role, Late(r), Receiver(r),
         NEW n \in 0 .. N(Other(r)) - 1, Hits(r, phashes[r][n]) # {}
  PROVE  /\ Match(r, phashes[r][n]) \in 0 .. N(r) - 1
         /\ CollisionFree => hashes[r][perm[r][Match(r, phashes[r][n])]] = phashes[r][n]
<1> DEFINE m == phashes[r][n]
           h == Hit(r, m)
<1>1. Shape /\ Handshake(r) /\ Local(r) /\ ~Early(r)
  BY DEF IInv, Early, Late
<1>2. N(r) \in Nat /\ hashes[r] \in [0 .. N(r) - 1 -> Mask] /\ perm[r] \in Bijections(N(r))
  BY <1>1, Facts DEF Local, Own
<1>3. Hits(r, m) \subseteq 0 .. N(r) - 1
  BY <1>2 DEF Hits
<1>4. h \in Hits(r, m)
  <2>1. \E k \in Hits(r, m) : \A l \in Hits(r, m) : l <= k
    BY <1>2, <1>3, Numbers!Greatest
  <2> QED
    BY <2>1 DEF Hit
<1>5. Match(r, m) \in 0 .. N(r) - 1 /\ perm[r][Match(r, m)] = h
  <2>1. DOMAIN perm[r] = 0 .. N(r) - 1
    BY <1>2 DEF Bijections
  <2>4. h \in 0 .. N(r) - 1
    BY <1>3, <1>4
  <2> HIDE DEF h
  <2>2. \E i \in 0 .. N(r) - 1 : perm[r][i] = h
    <3>1. \A k \in 0 .. N(r) - 1 : \E i \in 0 .. N(r) - 1 : perm[r][i] = k
      BY <1>2, Onto
    <3> QED
      BY <2>4, <3>1
  <2>3. Match(r, m) = CHOOSE i \in DOMAIN perm[r] : perm[r][i] = h
    BY DEF Match, h
  <2> QED
    BY <2>1, <2>2, <2>3
<1>6. ASSUME CollisionFree
      PROVE  hashes[r][h] = m
  <2>1. PICK e \in SetOf(r) : hashes[r][h] = [ele |-> e, exps |-> IF Naive THEN {} ELSE Role]
    BY <1>3, <1>4, ComparedMasks
  <2>2. PICK f \in SetOf(Other(r)) : m = [ele |-> f, exps |-> IF Naive THEN {} ELSE Role]
    BY ComparedMasks
  <2>3. low[hashes[r][h].ele] = low[m.ele]
    BY <1>4 DEF Hits, Word
  <2>4. low[e] = low[f]
    BY <2>1, <2>2, <2>3
  <2>5. e = f
    BY <1>6, <2>4, Roles DEF CollisionFree
  <2> QED
    BY <2>1, <2>2, <2>5
<1> QED
  BY <1>5, <1>6

(* Every round adds the element whose mask it looks up, and no other. *)
LEMMA LookupStep ==
  ASSUME IInv, NEW r \in Role, Lookup(r)
  PROVE  IInv'
<1> DEFINE o == Other(r)
           n == next[r]
           m == phashes[r][n]
<1>1. Shape /\ Handshake(r) /\ Local(r) /\ o \in Role
  BY Roles DEF IInv
<1>2. /\ pc[r] = "find" /\ n < pneles[r]
      /\ IF Hits(r, m) = {} THEN UNCHANGED <<matches, pc>>
         ELSE /\ matches' = [matches EXCEPT ![r] = Append(@, Match(r, m))]
              /\ pc' = IF Len(matches'[r]) <= Lesser(NElements(r), pneles[r]) THEN pc
                       ELSE [pc EXCEPT ![r] = "aborted"]
      /\ next' = [next EXCEPT ![r] = @ + 1]
      /\ UNCHANGED <<inputVars, pneles, perm, chan, sent, got, hashes, phashes, result>>
  BY DEF Lookup
<1>3. /\ Agreed /\ pneles[r] = N(o) /\ Receiver(r) /\ Late(r) /\ ~Early(r) /\ result[r] = <<>>
      /\ N(r) \in Nat /\ N(o) \in Nat /\ n \in Nat /\ matches[r] \in Seq(0 .. N(r) - 1)
      /\ Len(matches[r]) \in Nat
  BY <1>1, <1>2, Facts DEF Handshake, Late, Early, Local, Blank, Matched
<1>4. n \in 0 .. N(o) - 1
  BY <1>2, <1>3
<1> DEFINE after == IF pc' = pc THEN "find" ELSE "aborted"
<1>5. after \in {"find", "aborted"} /\ pc' = [pc EXCEPT ![r] = after] /\ pc'[r] = after
  BY <1>1, <1>2 DEF Shape
<1> HIDE DEF after
<1>6. next'[r] = n + 1 /\ next' \in [Role -> Nat] /\ n + 1 \in 0 .. N(o)
      /\ \A s \in Role : s # r => next'[s] = next[s]
  <2>1. next \in [Role -> Nat]
    BY <1>1 DEF Shape
  <2>2. next' = [next EXCEPT ![r] = next[r] + 1]
    BY <1>2
  <2> QED
    BY <1>3, <1>4, <2>1, <2>2
<1>7. /\ DOMAIN matches' = Role /\ \A s \in Role : s # r => matches'[s] = matches[s]
      /\ IF Hits(r, m) = {} THEN matches'[r] = matches[r]
         ELSE matches'[r] = Append(matches[r], Match(r, m))
  BY <1>1, <1>2 DEF Shape
<1>8. matches'[r] \in Seq(0 .. N(r) - 1)
  <2>1. CASE Hits(r, m) = {}
    BY <1>3, <1>7, <2>1
  <2>2. CASE Hits(r, m) # {}
    <3>1. Match(r, m) \in 0 .. N(r) - 1
      BY <1>3, <1>4, <2>2, LookupFinds
    <3>2. \A x \in 0 .. N(r) - 1 : Append(matches[r], x) \in Seq(0 .. N(r) - 1)
      BY <1>3, AppendProperties
    <3>3. Append(matches[r], Match(r, m)) \in Seq(0 .. N(r) - 1)
      BY <3>1, <3>2
    <3> QED
      BY <1>7, <2>2, <3>3
  <2> QED
    BY <2>1, <2>2
<1> DEFINE Listed(s) == {s[k] : k \in 1 .. Len(s)}
           Same(i) == hashes[r][perm[r][i]] = m
<1>9. \A i \in 0 .. N(r) - 1 : perm[r][i] \in 0 .. N(r) - 1
  BY <1>1, <1>3 DEF Local, Own, Bijections
<1>10. MatchedBy(r, n + 1) = MatchedBy(r, n) \cup {i \in 0 .. N(r) - 1 : Same(i)}
  <2>1. \A k : k \in 0 .. n + 1 - 1 <=> k \in 0 .. n - 1 \/ k = n
    BY <1>3
  <2> QED
    BY <2>1 DEF MatchedBy
<1>11. ASSUME CollisionFree
       PROVE  /\ \A j, k \in 1 .. Len(matches'[r]) : matches'[r][j] = matches'[r][k] => j = k
              /\ Listed(matches'[r]) = MatchedBy(r, n + 1)
  <2>1. /\ \A j, k \in 1 .. Len(matches[r]) : matches[r][j] = matches[r][k] => j = k
        /\ Listed(matches[r]) = MatchedBy(r, n)
    BY <1>1, <1>2, <1>3, <1>11 DEF Local, Matched
  <2>2. CASE Hits(r, m) = {}
    <3>1. \A i \in 0 .. N(r) - 1 : ~Same(i)
      <4>1. DOMAIN hashes[r] = 0 .. N(r) - 1
        BY <1>1, <1>3 DEF Local, Own
      <4> QED
        BY <1>9, <2>2, <4>1 DEF Hits, Word
    <3> QED
      BY <1>7, <1>10, <2>1, <2>2, <3>1
  <2>3. CASE Hits(r, m) # {}
    <3> DEFINE x == Match(r, m)
    <3>1. x \in 0 .. N(r) - 1 /\ Same(x)
      BY <1>3, <1>4, <1>11, <2>3, LookupFinds
    <3> HIDE DEF x
    <3>2. \A i \in 0 .. N(r) - 1 : Same(i) => i = x
      <4>1. \A i, j \in 0 .. N(r) - 1 : perm[r][i] = perm[r][j] => i = j
        BY <1>1, <1>3 DEF Local, Own, Bijections
      <4>2. \A k, l \in 0 .. N(r) - 1 : hashes[r][k] = hashes[r][l] => k = l
        BY <1>3, ComparedMasks
      <4> QED
        BY <1>9, <3>1, <4>1, <4>2
    <3>3. x \notin MatchedBy(r, n)
      <4>1. ASSUME NEW k \in 0 .. n - 1
            PROVE  phashes[r][k] # m
        <5>1. k \in 0 .. N(o) - 1 /\ k # n
          BY <1>3, <1>4
        <5> QED
          BY <1>3, <1>4, <5>1, ComparedMasks
      <4> QED
        BY <3>1, <4>1 DEF MatchedBy
    <3>4. MatchedBy(r, n + 1) = MatchedBy(r, n) \cup {x}
      BY <1>10, <3>1, <3>2
    <3>5. /\ matches'[r] = Append(matches[r], x)
          /\ Len(matches'[r]) = Len(matches[r]) + 1
          /\ \A k \in 1 .. Len(matches[r]) : matches'[r][k] = matches[r][k]
          /\ matches'[r][Len(matches[r]) + 1] = x
      <4>1. matches'[r] = Append(matches[r], x)
        BY <1>7, <2>3 DEF x
      <4> QED
        BY <1>3, <3>1, <4>1, AppendProperties
    <3>6. \A k \in 1 .. Len(matches'[r]) : k \in 1 .. Len(matches[r]) \/ k = Len(matches[r]) + 1
      BY <1>3, <3>5
    <3>7. \A k \in 1 .. Len(matches[r]) : matches[r][k] # x
      BY <2>1, <3>3
    <3>8. Listed(matches'[r]) = Listed(matches[r]) \cup {x}
      <4>1. \A k \in 1 .. Len(matches[r]) : k \in 1 .. Len(matches'[r])
        BY <1>3, <3>5
      <4>2. Len(matches[r]) + 1 \in 1 .. Len(matches'[r])
        BY <1>3, <3>5
      <4> QED
        BY <3>5, <3>6, <4>1, <4>2
    <3>9. \A j, k \in 1 .. Len(matches'[r]) : matches'[r][j] = matches'[r][k] => j = k
      BY <2>1, <3>5, <3>6, <3>7
    <3> QED
      BY <2>1, <3>4, <3>8, <3>9
  <2> QED
    BY <2>2, <2>3
<1>12. Matched(r)'
  <2>1. /\ N(r)' = N(r) /\ N(o)' = N(o) /\ CollisionFree' = CollisionFree
    BY <1>1, <1>2, Constants
  <2>2. \A k : MatchedBy(r, k)' = MatchedBy(r, k)
    BY <1>2, <2>1 DEF MatchedBy
  <2>3. pc'[r] \notin {"create", "done"}
    BY <1>5
  <2>4. MatchedBy(r, next[r])' = MatchedBy(r, n + 1)
    BY <1>6, <2>2
  <2> HIDE DEF n
  <2> QED
    BY <1>6, <1>8, <1>11, <2>1, <2>3, <2>4 DEF Matched
<1>13. DOMAIN result' = Role /\ result'[r] = <<>> /\ \A s \in Role : s # r => result'[s] = result[s]
  BY <1>1, <1>2, <1>3 DEF Shape
<1>14. /\ \A s \in Role : s # r =>
            matches'[s] = matches[s] /\ next'[s] = next[s] /\ result'[s] = result[s]
       /\ UNCHANGED <<inputVars, pneles, perm, chan, sent, got, hashes, phashes>>
       /\ pc[r] \in {"find", "create"} /\ after \in {"find", "create", "done", "aborted"}
       /\ (after = "find" => pc[r] = "find")
  BY <1>2, <1>5, <1>6, <1>7, <1>13
<1> QED
  BY <1>3, <1>5, <1>6, <1>7, <1>12, <1>13, <1>14, LateFrame

(***************************************************************************)
(* The local work and the end of an exchange.                              *)
(***************************************************************************)

(* The masks of r's set, each at its permuted place. *)
LEMMA PrepareStep ==
  ASSUME IInv, NEW r \in Role, Prepare(r)
  PROVE  IInv'
<1> DEFINE o == Other(r)
<1>1. /\ Shape /\ Handshake(r) /\ Local(r) /\ Stream(r) /\ Theirs(r)
      /\ o \in Role /\ o # r /\ Other(o) = r /\ \A s \in Role : s = r \/ s = o
      /\ Handshake(o) /\ Local(o) /\ Stream(o) /\ Theirs(o)
  BY Roles DEF IInv
<1> DEFINE E == IF setting[r].protocol = NAIVE THEN {} ELSE {r}
           masks == [i \in DOMAIN elements[r] |-> [ele |-> elements[r][i], exps |-> E]]
<1>2. /\ pc[r] = "prepare" /\ pc' = [pc EXCEPT ![r] = "exchange"]
      /\ sent' = [sent EXCEPT ![r] = 0] /\ got' = [got EXCEPT ![r] = <<>>]
      /\ UNCHANGED <<inputVars, pneles, chan, phashes, matches, next, result>>
  BY DEF Prepare
<1>3. PICK p \in Bijections(NElements(r)) :
        perm' = [perm EXCEPT ![r] = p] /\ hashes' = [hashes EXCEPT ![r] = Placed(p, masks)]
  BY DEF Prepare
<1>4. Agreed /\ Early(r) /\ ~Late(r) /\ pc[o] # "start" /\ pneles[r] = N(o)
  BY <1>1, <1>2 DEF Handshake, Early, Late
<1>5. /\ N(r) \in Nat /\ N(o) \in Nat /\ DOMAIN elements[r] = 0 .. N(r) - 1
      /\ elements[r] \in [0 .. N(r) - 1 -> Element]
      /\ E = IF Naive THEN {} ELSE {r}
  BY <1>1, <1>4, Sizes, Facts DEF Shape
<1>6. masks \in [0 .. N(r) - 1 -> Mask]
  <2>1. E \in SUBSET Role
    BY <1>5
  <2> HIDE DEF E
  <2> QED
    BY <1>5, <2>1 DEF Mask
<1>7. p \in Bijections(N(r))
  BY DEF N
<1>8. /\ Placed(p, masks) \in [0 .. N(r) - 1 -> Mask]
      /\ \A k \in 0 .. N(r) - 1 :
           Placed(p, masks)[k] = masks[Origin(p, N(r), k)]
  <2> HIDE DEF masks, E
  <2>1. N(r) \in Nat
    BY <1>5
  <2>2. Placed(p, masks) \in [0 .. N(r) - 1 -> Mask]
    BY <1>6, <1>7, <2>1, PlacedAt
  <2>3. \A k \in 0 .. N(r) - 1 :
          Placed(p, masks)[k] = masks[Origin(p, N(r), k)]
    BY <1>6, <1>7, <2>1, PlacedAt
  <2> QED
    BY <2>2, <2>3
<1>9. /\ pc'[r] = "exchange" /\ pc'[o] = pc[o] /\ sent'[r] = 0 /\ sent'[o] = sent[o]
      /\ got'[r] = <<>> /\ got'[o] = got[o] /\ perm'[r] = p /\ perm'[o] = perm[o]
      /\ hashes'[r] = Placed(p, masks) /\ hashes'[o] = hashes[o]
  <2> HIDE DEF masks
  <2> QED
    BY <1>1, <1>2, <1>3 DEF Shape
<1>10. /\ N(r)' = N(r) /\ N(o)' = N(o) /\ Naive' = Naive /\ Back(r)' = Back(r) /\ Back(o)' = Back(o)
       /\ Receiver(r)' = Receiver(r) /\ Receiver(o)' = Receiver(o) /\ Agreed' = Agreed
       /\ Info(r)' = Info(r) /\ Info(o)' = Info(o) /\ Early(o)' = Early(o) /\ Late(o)' = Late(o)
       /\ ~Early(r)' /\ ~Late(r)'
  BY <1>1, <1>2, <1>4, <1>9, Constants DEF Early, Late
<1>11. \A k \in 0 .. N(r) - 1 : hashes'[r][k] = First(r, k)'
  <2> SUFFICES ASSUME NEW k \in 0 .. N(r) - 1
               PROVE  hashes'[r][k] = First(r, k)'
    OBVIOUS
  <2> DEFINE i == CHOOSE i \in 0 .. N(r) - 1 : p[i] = k
  <2>1. i \in 0 .. N(r) - 1
    <3>1. \A l \in 0 .. N(r) - 1 : \E j \in 0 .. N(r) - 1 : p[j] = l
      BY <1>5, <1>7, Onto
    <3> QED
      BY <3>1
  <2>2. First(r, k)' = [ele |-> elements[r][i], exps |-> E]
    BY <1>2, <1>5, <1>9, <1>10 DEF First, inputVars
  <2> HIDE DEF i, E
  <2>3. masks[i] = [ele |-> elements[r][i], exps |-> E]
    BY <1>5, <2>1
  <2>4. hashes'[r][k] = masks[i]
    <3>1. Placed(p, masks)[k] = masks[Origin(p, N(r), k)]
      BY <1>8
    <3>2. Origin(p, N(r), k) = i
      BY DEF i, Origin
    <3> QED
      BY <1>9, <3>1, <3>2
  <2> QED
    BY <2>2, <2>3, <2>4
<1> HIDE DEF masks, E
<1>12. Shape'
  <2>1. pc' \in [Role -> PC]
    BY <1>1, <1>2 DEF Shape, PC
  <2>2. got' \in [Role -> Seq(Mask)] /\ sent' \in [Role -> Nat]
    BY <1>1, <1>2 DEF Shape
  <2>3. DOMAIN perm' = Role /\ DOMAIN hashes' = Role
    BY <1>1, <1>3 DEF Shape
  <2> QED
    BY <1>1, <1>2, <2>1, <2>2, <2>3 DEF Shape, inputVars
<1>13. Handshake(r)' /\ Handshake(o)'
  <2>1. Handshake(r)'
    BY <1>1, <1>2, <1>4, <1>9, <1>10 DEF Handshake
  <2>2. Handshake(o)'
    BY <1>1, <1>2, <1>4, <1>9, <1>10 DEF Handshake
  <2> QED
    BY <2>1, <2>2
<1>14. Local(r)'
  <2>1. Blank(r)'
    BY <1>1, <1>2, <1>4, <1>9, <1>10 DEF Local, Blank
  <2>2. Counts(r)'
    BY <1>5, <1>9, <1>10 DEF Counts
  <2>3. Own(r)'
    BY <1>7, <1>8, <1>9, <1>10, <1>11 DEF Own
  <2>4. Compared(r)' /\ Matched(r)'
    BY <1>1, <1>2, <1>4, <1>5, <1>9, <1>10 DEF Local, Blank, Compared, Matched
  <2> QED
    BY <2>1, <2>2, <2>3, <2>4 DEF Local
<1>15. Local(o)'
  BY <1>1, <1>2, <1>9, LocalFrame
<1>16. /\ Out(r) = 0 /\ Out(r)' = 0 /\ In(r) = 0 /\ In(r)' = 0
       /\ Out(o)' = Out(o) /\ In(o)' = In(o) /\ Wire(r)' = Wire(r) /\ Wire(o)' = Wire(o)
  <2>1. Out(r) = 0 /\ In(r) = 0
    BY <1>2, <1>4 DEF Out, In
  <2>2. Out(r)' = 0 /\ In(r)' = 0
    BY <1>9 DEF Out, In
  <2>3. Out(o)' = Out(o) /\ In(o)' = In(o)
    BY <1>1, <1>9, <1>10 DEF Out, In
  <2>4. Wire(r)' = Wire(r) /\ Wire(o)' = Wire(o)
    BY <1>1, <1>2, <1>4, <1>9 DEF Wire
  <2> QED
    BY <2>1, <2>2, <2>3, <2>4
<1>17. /\ Out(o) \in Nat /\ In(o) \in Nat /\ Len(Wire(o)) \in Nat /\ Len(got[o]) \in Nat
       /\ Len(Wire(r)) \in Nat /\ Len(got[r]) \in Nat
  BY <1>1, Facts
<1>18. In(o) = 0
  BY <1>1, <1>4, <1>16, <1>17 DEF Stream
<1>19. Theirs(o)'
  <2>1. CASE pc[o] \in {"second", "answer"} \/ Late(o)
    <3>1. N(r) = 0
      <4>1. Back(r) \in Nat
        BY <1>1, Facts
      <4> QED
        BY <1>1, <1>5, <1>17, <1>18, <2>1, <4>1 DEF In, Late
    <3>2. 0 .. N(r) - 1 = {}
      BY <3>1
    <3>3. phashes'[o] = phashes[o] /\ setting' = setting
      BY <1>2 DEF inputVars
    <3>4. Doubled(o) => Doubled(o)'
      BY <1>1, <1>10, <3>2, <3>3 DEF Doubled
    <3> QED
      BY <1>1, <1>9, <1>10, <3>2, <3>3, <3>4 DEF Theirs
  <2>2. CASE ~(pc[o] \in {"second", "answer"} \/ Late(o))
    BY <1>1, <1>2, <1>9, <1>10, <2>2 DEF Theirs
  <2> QED
    BY <2>1, <2>2
<1>20. Theirs(r)'
  BY <1>9, <1>10 DEF Theirs
<1>21. Stream(r)'
  <2>1. \A j \in Int : Nth(o, j)' = Nth(o, j)
    <3>1. \A k : First(o, k)' = First(o, k)
      BY <1>2, <1>9, <1>10 DEF First, inputVars
    <3>2. phashes' = phashes
      BY <1>2
    <3> QED
      BY <1>10, <3>1, <3>2 DEF Nth
  <2> QED
    BY <1>1, <1>2, <1>5, <1>9, <1>16, <1>17, <2>1, StreamFrame
<1>22. Stream(o)'
  BY <1>1, <1>2, <1>5, <1>9, <1>16, <1>17, <1>18, StreamFrame
<1> QED
  BY <1>1, <1>12, <1>13, <1>14, <1>15, <1>19, <1>20, <1>21, <1>22 DEF IInv

(* Without the naive protocol r's first masks have r's exponent alone. *)
LEMMA FirstRecord ==
  ASSUME NEW r \in Role, NEW k, ~Naive
  PROVE  First(r, k) = [ele |-> First(r, k).ele, exps |-> {r}]
<1> DEFINE e == elements[r][CHOOSE i \in DOMAIN elements[r] : perm[r][i] = k]
           m == First(r, k)
<1>1. m = [ele |-> e, exps |-> {r}]
  BY DEF First
<1> HIDE DEF e, m
<1>2. m.ele = e
  BY <1>1
<1>3. m = [ele |-> m.ele, exps |-> {r}]
  BY <1>1, <1>2
<1> QED
  BY <1>3 DEF m

(* One more exponent in a mask. *)
LEMMA Reencryption ==
  ASSUME NEW r, NEW e, NEW S
  PROVE  Reencrypted(r, [ele |-> e, exps |-> S]) = [ele |-> e, exps |-> S \cup {r}]
BY DEF Reencrypted

(* The other's masks get the second exponent. *)
LEMMA SecondStep ==
  ASSUME IInv, NEW r \in Role, Second(r)
  PROVE  IInv'
<1> DEFINE o == Other(r)
           masks == [i \in DOMAIN phashes[r] |-> Reencrypted(r, phashes[r][i])]
<1>1. /\ Shape /\ Handshake(r) /\ Local(r) /\ Stream(r) /\ Theirs(r)
      /\ o \in Role /\ o # r /\ Other(o) = r /\ \A s \in Role : s = r \/ s = o
      /\ Handshake(o) /\ Local(o) /\ Stream(o) /\ Theirs(o)
  BY Roles DEF IInv
<1>2. /\ pc[r] = "second" /\ pc' = [pc EXCEPT ![r] = "answer"]
      /\ IF setting[r].cardinality
         THEN \E p \in Bijections(pneles[r]) : phashes' = [phashes EXCEPT ![r] = Placed(p, masks)]
         ELSE phashes' = [phashes EXCEPT ![r] = masks]
      /\ sent' = [sent EXCEPT ![r] = 0] /\ got' = [got EXCEPT ![r] = <<>>]
      /\ UNCHANGED <<inputVars, pneles, perm, chan, hashes, matches, next, result>>
  BY DEF Second
<1>3. Agreed /\ ~Early(r) /\ ~Late(r) /\ pc[o] # "start" /\ pneles[r] = N(o) /\ ~Naive
  BY <1>1, <1>2 DEF Handshake, Early, Late
<1>4. /\ N(r) \in Nat /\ N(o) \in Nat /\ Back(r) \in Nat /\ Back(o) \in Nat
  BY <1>1, Facts
<1>5. /\ phashes[r] \in [0 .. N(o) - 1 -> Mask]
      /\ \A k \in 0 .. N(o) - 1 : phashes[r][k] = First(o, k)
  BY <1>1, <1>2, <1>3 DEF Theirs
<1>6. /\ masks \in [0 .. N(o) - 1 -> Mask]
      /\ \A k \in 0 .. N(o) - 1 : masks[k] = [ele |-> First(o, k).ele, exps |-> Role]
  <2>1. ASSUME NEW k \in 0 .. N(o) - 1
        PROVE  /\ Reencrypted(r, phashes[r][k]) = [ele |-> First(o, k).ele, exps |-> Role]
               /\ Reencrypted(r, phashes[r][k]) \in Mask
    <3> DEFINE e == First(o, k).ele
               m == phashes[r][k]
    <3>1. First(o, k) = [ele |-> e, exps |-> {o}]
      BY <1>1, <1>3, FirstRecord
    <3>2. m = First(o, k) /\ m \in Mask
      BY <1>5
    <3>3. m = [ele |-> e, exps |-> {o}]
      BY <3>1, <3>2
    <3>4. {o} \cup {r} = Role
      BY <1>1
    <3> HIDE DEF e, m
    <3>5. e \in Element
      <4>1. m.ele \in Element
        BY <3>2 DEF Mask
      <4>2. m.ele = e
        BY <3>3
      <4> QED
        BY <4>1, <4>2
    <3>6. Reencrypted(r, m) = [ele |-> e, exps |-> {o} \cup {r}]
      <4>1. Reencrypted(r, [ele |-> e, exps |-> {o}]) = [ele |-> e, exps |-> {o} \cup {r}]
        BY Reencryption
      <4> QED
        BY <3>3, <4>1
    <3>7. Reencrypted(r, m) = [ele |-> e, exps |-> Role]
      BY <3>4, <3>6
    <3>8. Reencrypted(r, m) \in Mask
      BY <3>5, <3>7 DEF Mask
    <3> QED
      BY <3>7, <3>8 DEF e, m
  <2>2. DOMAIN phashes[r] = 0 .. N(o) - 1
    BY <1>5
  <2> QED
    BY <2>1, <2>2
<1> HIDE DEF masks
<1>7. /\ pc'[r] = "answer" /\ pc'[o] = pc[o] /\ sent'[r] = 0 /\ sent'[o] = sent[o]
      /\ got'[r] = <<>> /\ got'[o] = got[o] /\ phashes'[o] = phashes[o] /\ DOMAIN phashes' = Role
  BY <1>1, <1>2 DEF Shape
<1>8. /\ phashes'[r] \in [0 .. N(o) - 1 -> Mask]
      /\ \E q \in Bijections(N(o)) :
           /\ ~setting[r].cardinality => \A k \in 0 .. N(o) - 1 : q[k] = k
           /\ \A k \in 0 .. N(o) - 1 :
                phashes'[r][q[k]] = [ele |-> First(o, k).ele, exps |-> Role]
  <2>1. CASE setting[r].cardinality
    <3>1. PICK p \in Bijections(N(o)) : phashes' = [phashes EXCEPT ![r] = Placed(p, masks)]
      BY <1>2, <1>3, <2>1
    <3>2. phashes'[r] = Placed(p, masks)
      BY <1>1, <3>1 DEF Shape
    <3>3. /\ Placed(p, masks) \in [0 .. N(o) - 1 -> Mask]
          /\ \A k \in 0 .. N(o) - 1 : Placed(p, masks)[p[k]] = masks[k]
      <4>1. N(o) \in Nat /\ masks \in [0 .. N(o) - 1 -> Mask]
        BY <1>4, <1>6
      <4> QED
        BY <4>1, PlacedAt
    <3>4. \A k \in 0 .. N(o) - 1 : phashes'[r][p[k]] = [ele |-> First(o, k).ele, exps |-> Role]
      BY <1>6, <3>2, <3>3
    <3>5. phashes'[r] \in [0 .. N(o) - 1 -> Mask]
      BY <3>2, <3>3
    <3> QED
      BY <2>1, <3>4, <3>5
  <2>2. CASE ~setting[r].cardinality
    <3> DEFINE id == [k \in 0 .. N(o) - 1 |-> k]
    <3>1. id \in Bijections(N(o)) /\ \A k \in 0 .. N(o) - 1 : id[k] = k
      BY DEF Bijections
    <3> HIDE DEF id
    <3>2. phashes'[r] = masks
      BY <1>1, <1>2, <2>2 DEF Shape
    <3> QED
      BY <1>6, <3>1, <3>2
  <2> QED
    BY <2>1, <2>2
<1>9. /\ N(r)' = N(r) /\ N(o)' = N(o) /\ Naive' = Naive /\ Back(r)' = Back(r) /\ Back(o)' = Back(o)
      /\ Receiver(r)' = Receiver(r) /\ Receiver(o)' = Receiver(o) /\ Agreed' = Agreed
      /\ Info(r)' = Info(r) /\ Info(o)' = Info(o) /\ Early(o)' = Early(o) /\ Late(o)' = Late(o)
      /\ ~Early(r)' /\ ~Late(r)'
  BY <1>1, <1>2, <1>3, <1>7, Constants DEF Early, Late
<1>10. \A s \in Role : \A k : First(s, k)' = First(s, k)
  BY <1>2, <1>9 DEF First, inputVars
<1>11. Shape'
  <2>1. pc' \in [Role -> PC]
    BY <1>1, <1>2 DEF Shape, PC
  <2>2. got' \in [Role -> Seq(Mask)] /\ sent' \in [Role -> Nat]
    BY <1>1, <1>2 DEF Shape
  <2> QED
    BY <1>1, <1>2, <1>7, <2>1, <2>2 DEF Shape, inputVars
<1>12. Handshake(r)' /\ Handshake(o)'
  <2>1. Handshake(r)'
    BY <1>1, <1>2, <1>3, <1>7, <1>9 DEF Handshake
  <2>2. Handshake(o)'
    BY <1>1, <1>2, <1>3, <1>7, <1>9 DEF Handshake
  <2> QED
    BY <2>1, <2>2
<1>13. Local(r)'
  <2>1. Blank(r)'
    BY <1>1, <1>2, <1>3, <1>7, <1>9 DEF Local, Blank
  <2>2. Counts(r)'
    BY <1>4, <1>7, <1>9 DEF Counts
  <2>3. Own(r)'
    BY <1>1, <1>2, <1>3, <1>7, <1>9, <1>10 DEF Local, Own
  <2>4. Compared(r)' /\ Matched(r)'
    BY <1>1, <1>2, <1>3, <1>4, <1>7, <1>9 DEF Local, Blank, Compared, Matched
  <2> QED
    BY <2>1, <2>2, <2>3, <2>4 DEF Local
<1>14. Local(o)' /\ Theirs(o)'
  BY <1>1, <1>2, <1>7, LocalFrame, TheirsFrame
<1>15. Theirs(r)'
  <2>1. Doubled(r)'
    <3>1. PICK q \in Bijections(N(o)) :
            /\ ~setting[r].cardinality => \A k \in 0 .. N(o) - 1 : q[k] = k
            /\ \A k \in 0 .. N(o) - 1 :
                 phashes'[r][q[k]] = [ele |-> First(o, k).ele, exps |-> Role]
      BY <1>8
    <3>2. \A k \in 0 .. N(o) - 1 :
            phashes'[r][q[k]] = [ele |-> First(o, k)'.ele, exps |-> Role]
      BY <1>1, <1>10, <3>1
    <3>3. setting' = setting
      BY <1>2 DEF inputVars
    <3> HIDE DEF First
    <3> QED
      BY <1>9, <3>1, <3>2, <3>3 DEF Doubled
  <2> QED
    BY <1>7, <1>8, <1>9, <2>1 DEF Theirs
<1>16. /\ Out(r) = N(r) /\ Out(r)' = Out(r) /\ In(r) = N(o) /\ In(r)' = In(r)
       /\ Out(o)' = Out(o) /\ In(o)' = In(o) /\ Wire(r)' = Wire(r) /\ Wire(o)' = Wire(o)
  <2>1. Out(r) = N(r) /\ In(r) = N(o)
    BY <1>2 DEF Out, In
  <2>2. Out(r)' = N(r) /\ In(r)' = N(o)
    <3>1. Out(r)' = N(r) + 0 /\ In(r)' = N(o) + 0
      BY <1>7, <1>9 DEF Out, In
    <3> QED
      BY <1>4, <3>1
  <2>3. Out(o)' = Out(o) /\ In(o)' = In(o)
    BY <1>1, <1>7, <1>9 DEF Out, In
  <2>4. Wire(r)' = Wire(r) /\ Wire(o)' = Wire(o)
    BY <1>1, <1>2, <1>3, <1>7 DEF Wire
  <2> QED
    BY <2>1, <2>2, <2>3, <2>4
<1>17. /\ Out(o) \in Nat /\ In(o) \in Nat /\ Len(Wire(o)) \in Nat /\ Len(got[o]) \in Nat
       /\ Len(Wire(r)) \in Nat /\ Len(got[r]) \in Nat
  BY <1>1, Facts
<1>18. Stream(r)'
  <2>1. \A j \in Int : Nth(o, j)' = Nth(o, j)
    BY <1>1, <1>7, <1>9, <1>10 DEF Nth
  <2> QED
    BY <1>1, <1>2, <1>4, <1>7, <1>16, <1>17, <2>1, StreamFrame
<1>19. Stream(o)'
  <2>1. \A j \in 0 .. Out(r) - 1 : Nth(r, j)' = Nth(r, j)
    BY <1>1, <1>4, <1>9, <1>10, <1>16 DEF Nth
  <2> QED
    BY <1>1, <1>2, <1>4, <1>7, <1>16, <1>17, <2>1, StreamFrame
<1> QED
  BY <1>1, <1>11, <1>12, <1>13, <1>14, <1>15, <1>18, <1>19 DEF IInv

(* The own masks as they are sent, in the order of the permutation. *)
LEMMA OwnListed ==
  ASSUME IInv, NEW r \in Role, Naive, ~Early(r)
  PROVE  perm[r] \in Bijections(N(r)) /\ Lists(hashes[r], perm[r], r)
<1>1. Shape /\ Local(r)
  BY DEF IInv
<1>2. perm[r] \in Bijections(N(r)) /\ \A k \in 0 .. N(r) - 1 : hashes[r][k] = First(r, k)
  BY <1>1 DEF Local, Own
<1>3. \A i \in 0 .. N(r) - 1 :
        /\ perm[r][i] \in 0 .. N(r) - 1
        /\ First(r, perm[r][i]) = [ele |-> elements[r][i], exps |-> IF Naive THEN {} ELSE {r}]
  BY <1>1, <1>2, FirstIs
<1>4. ASSUME NEW i \in 0 .. N(r) - 1
      PROVE  hashes[r][perm[r][i]] = [ele |-> elements[r][i], exps |-> {}]
  BY <1>2, <1>3
<1> QED
  BY <1>2, <1>4 DEF Lists

(* A party that has received all of the other's own masks knows that the other has
   permuted them, if there are any. *)
LEMMA PermKnown ==
  ASSUME IInv, Agreed, NEW r \in Role, In(r) >= N(Other(r)), N(Other(r)) # 0
  PROVE  perm[Other(r)] \in Bijections(N(Other(r)))
<1> DEFINE o == Other(r)
<1>1. /\ Shape /\ Handshake(r) /\ Stream(r) /\ o \in Role /\ Handshake(o)
  BY Roles DEF IInv
<1>2. N(o) \in Nat /\ In(r) \in Nat /\ Out(o) \in Nat /\ Len(Wire(r)) \in Nat
  BY <1>1, Facts
<1>3. 0 \in Nat /\ 0 < Out(o) /\ 0 < N(o)
  BY <1>1, <1>2 DEF Stream
<1> QED
  BY <1>1, <1>3, SentIsMask

(* The masks that have been received in the first exchange. *)
LEMMA ExchangeReceived ==
  ASSUME IInv, NEW r \in Role, pc[r] = "exchange", Len(got[r]) = pneles[r]
  PROVE  /\ Received(r) \in [0 .. N(Other(r)) - 1 -> Mask]
         /\ \A k \in 0 .. N(Other(r)) - 1 : Received(r)[k] = First(Other(r), k)
         /\ In(r) = N(Other(r))
         /\ Naive => \E q \in Bijections(N(Other(r))) : Lists(Received(r), q, Other(r))
<1> DEFINE o == Other(r)
<1>1. /\ Shape /\ Handshake(r) /\ Stream(r) /\ o \in Role
  BY Roles DEF IInv
<1>2. Agreed /\ Len(got[r]) = N(o) /\ N(o) \in Nat /\ got[r] \in Seq(Mask) /\ In(r) = N(o)
  BY <1>1, Facts DEF Handshake, In
<1>3. /\ \A k \in 1 .. N(o) : got[r][k] \in Mask
      /\ \A k \in 1 .. N(o) : got[r][k] = Nth(o, k - 1)
  BY <1>1, <1>2 DEF Stream
<1>4. ASSUME NEW k \in 0 .. N(o) - 1
      PROVE  got[r][k + 1] = First(o, k) /\ got[r][k + 1] \in Mask
  <2>1. k + 1 \in 1 .. N(o) /\ k + 1 - 1 = k /\ k < N(o)
    BY <1>2
  <2>2. Nth(o, k) = First(o, k)
    BY <2>1 DEF Nth
  <2>3. got[r][k + 1] = Nth(o, k + 1 - 1)
    BY <1>3, <2>1
  <2> QED
    BY <1>3, <2>1, <2>2, <2>3
<1>5. Received(r) = [k \in 0 .. N(o) - 1 |-> got[r][k + 1]]
  BY <1>2 DEF Received
<1>6. /\ Received(r) \in [0 .. N(o) - 1 -> Mask]
      /\ \A k \in 0 .. N(o) - 1 : Received(r)[k] = First(o, k)
  BY <1>4, <1>5
<1>7. ASSUME Naive
      PROVE  \E q \in Bijections(N(o)) : Lists(Received(r), q, o)
  <2>1. CASE N(o) = 0
    <3>1. [k \in 0 .. N(o) - 1 |-> k] \in Bijections(N(o))
      BY DEF Bijections
    <3>2. 0 .. N(o) - 1 = {}
      BY <2>1
    <3>3. \A q : Lists(Received(r), q, o)
      BY <3>2 DEF Lists
    <3> QED
      BY <3>1, <3>3
  <2>2. CASE N(o) # 0
    <3>1. perm[o] \in Bijections(N(o))
      BY <1>2, <2>2, PermKnown
    <3>2. \A i \in 0 .. N(o) - 1 :
            /\ perm[o][i] \in 0 .. N(o) - 1
            /\ First(o, perm[o][i]) = [ele |-> elements[o][i], exps |-> IF Naive THEN {} ELSE {o}]
      BY <1>1, <3>1, FirstIs
    <3>3. ASSUME NEW i \in 0 .. N(o) - 1
          PROVE  Received(r)[perm[o][i]] = [ele |-> elements[o][i], exps |-> {}]
      BY <1>6, <1>7, <3>2
    <3> QED
      BY <1>7, <3>1, <3>3 DEF Lists
  <2> QED
    BY <2>1, <2>2
<1> QED
  BY <1>2, <1>6, <1>7

(* The masks that the client has received back. *)
LEMMA AnswerReceived ==
  ASSUME IInv, pc[CLIENT] = "answer", Len(got[CLIENT]) = N(CLIENT)
  PROVE  /\ Received(CLIENT) \in [0 .. N(CLIENT) - 1 -> Mask]
         /\ \E q \in Bijections(N(CLIENT)) :
              /\ ~setting[SERVER].cardinality => q = perm[CLIENT]
              /\ Lists(Received(CLIENT), q, CLIENT)
         /\ \E q \in Bijections(N(SERVER)) : Lists(phashes[CLIENT], q, SERVER)
<1>1. /\ CLIENT \in Role /\ SERVER \in Role /\ Other(CLIENT) = SERVER /\ Other(SERVER) = CLIENT
      /\ SERVER # CLIENT
  BY Roles, ConstantsOK DEF Role
<1> DEFINE n == N(CLIENT)
           m == N(SERVER)
<1>2. /\ Shape /\ Handshake(CLIENT) /\ Local(CLIENT) /\ Stream(CLIENT) /\ Theirs(CLIENT)
      /\ Handshake(SERVER) /\ Theirs(SERVER)
  BY <1>1 DEF IInv
<1>3. /\ Agreed /\ ~Naive /\ ~Early(CLIENT) /\ n \in Nat /\ m \in Nat /\ got[CLIENT] \in Seq(Mask)
      /\ In(CLIENT) = m + n /\ Out(SERVER) \in Nat /\ Len(Wire(CLIENT)) \in Nat
  BY <1>1, <1>2, Facts DEF Handshake, Early, In
<1>4. Out(SERVER) >= m + n
  BY <1>1, <1>2, <1>3 DEF Stream
<1>5. perm[CLIENT] \in Bijections(n)
  BY <1>2, <1>3 DEF Local, Own
<1>6. \A i \in 0 .. n - 1 :
        perm[CLIENT][i] \in 0 .. n - 1 /\ First(CLIENT, perm[CLIENT][i]).ele = elements[CLIENT][i]
  <2>1. \A i \in 0 .. n - 1 :
          /\ perm[CLIENT][i] \in 0 .. n - 1
          /\ First(CLIENT, perm[CLIENT][i]) =
               [ele |-> elements[CLIENT][i], exps |-> IF Naive THEN {} ELSE {CLIENT}]
    BY <1>1, <1>2, <1>5, FirstIs
  <2>2. ASSUME NEW i \in 0 .. n - 1
       PROVE  First(CLIENT, perm[CLIENT][i]).ele = elements[CLIENT][i]
    <3> DEFINE mask == First(CLIENT, perm[CLIENT][i])
    <3>1. mask = [ele |-> elements[CLIENT][i], exps |-> IF Naive THEN {} ELSE {CLIENT}]
      BY <2>1
    <3> HIDE DEF mask
    <3>2. mask.ele = elements[CLIENT][i]
      BY <3>1
    <3> QED
      BY <3>2 DEF mask
  <2> QED
    BY <2>1, <2>2
<1>7. Received(CLIENT) = [k \in 0 .. n - 1 |-> got[CLIENT][k + 1]]
  BY DEF Received
<1>8. /\ \A k \in 1 .. n : got[CLIENT][k] \in Mask
      /\ \A k \in 1 .. n : got[CLIENT][k] = Nth(SERVER, m + k - 1)
  BY <1>1, <1>2, <1>3 DEF Stream
<1>9. ASSUME NEW k \in 0 .. n - 1
      PROVE  /\ Received(CLIENT)[k] = phashes[SERVER][k] /\ Received(CLIENT)[k] \in Mask
             /\ Doubled(SERVER)
  <2>1. k + 1 \in 1 .. n /\ m + (k + 1) - 1 = m + k /\ m + k \in Nat /\ m + k < Out(SERVER)
        /\ m + k >= m /\ (m + k) - m = k
    BY <1>3, <1>4
  <2>2. got[CLIENT][k + 1] = Nth(SERVER, m + k) /\ got[CLIENT][k + 1] \in Mask
    BY <1>8, <2>1
  <2>3. /\ pc[SERVER] = "answer" \/ Late(SERVER)
        /\ Nth(SERVER, m + k) = phashes[SERVER][(m + k) - m]
    BY <1>1, <1>3, <2>1, SentIsMask
  <2>4. Doubled(SERVER)
    BY <1>2, <1>3, <2>3 DEF Theirs
  <2> QED
    BY <1>7, <2>1, <2>2, <2>3, <2>4
<1>10. Received(CLIENT) \in [0 .. n - 1 -> Mask]
  BY <1>7, <1>9
<1>11. \E q \in Bijections(n) :
         /\ ~setting[SERVER].cardinality => q = perm[CLIENT]
         /\ Lists(Received(CLIENT), q, CLIENT)
  <2>1. CASE n = 0
    <3>1. \A q : Lists(Received(CLIENT), q, CLIENT)
      <4>1. 0 .. n - 1 = {}
        BY <2>1
      <4> QED
        BY <4>1 DEF Lists
    <3> QED
      BY <1>5, <3>1
  <2>2. CASE n # 0
    <3>1. 0 \in 0 .. n - 1
      BY <1>3, <2>2
    <3>2. Doubled(SERVER)
      BY <1>9, <3>1
    <3>3. PICK p \in Bijections(n) :
            /\ ~setting[SERVER].cardinality => \A k \in 0 .. n - 1 : p[k] = k
            /\ \A k \in 0 .. n - 1 :
                 phashes[SERVER][p[k]] = [ele |-> First(CLIENT, k).ele, exps |-> Role]
      BY <1>1, <3>2 DEF Doubled
    <3> DEFINE q == [i \in 0 .. n - 1 |-> p[perm[CLIENT][i]]]
    <3>4. q \in Bijections(n)
      <4>1. n \in Nat
        BY <1>3
      <4> QED
        BY <4>1, <1>5, Composed
    <3>5. ~setting[SERVER].cardinality => q = perm[CLIENT]
      <4>1. perm[CLIENT] \in [0 .. n - 1 -> 0 .. n - 1]
        BY <1>5 DEF Bijections
      <4> QED
        BY <1>6, <3>3, <4>1
    <3>6. ASSUME NEW i \in 0 .. n - 1
          PROVE  Received(CLIENT)[q[i]] = [ele |-> elements[CLIENT][i], exps |-> Role]
      <4>1. q[i] = p[perm[CLIENT][i]] /\ q[i] \in 0 .. n - 1
        BY <3>4 DEF Bijections
      <4>2. Received(CLIENT)[q[i]] = phashes[SERVER][q[i]]
        BY <1>9, <4>1
      <4> QED
        BY <1>6, <3>3, <4>1, <4>2
    <3> HIDE DEF q
    <3> QED
      BY <1>3, <3>4, <3>5, <3>6 DEF Lists
  <2> QED
    BY <2>1, <2>2
<1>12. \E q \in Bijections(m) : Lists(phashes[CLIENT], q, SERVER)
  <2>1. Doubled(CLIENT)
    BY <1>2 DEF Theirs
  <2>2. PICK p \in Bijections(m) :
          \A k \in 0 .. m - 1 :
            phashes[CLIENT][p[k]] = [ele |-> First(SERVER, k).ele, exps |-> Role]
    BY <1>1, <2>1 DEF Doubled
  <2>3. CASE m = 0
    <3>1. \A q : Lists(phashes[CLIENT], q, SERVER)
      <4>1. 0 .. m - 1 = {}
        BY <2>3
      <4> QED
        BY <4>1 DEF Lists
    <3> QED
      BY <2>2, <3>1
  <2>4. CASE m # 0
    <3>1. perm[SERVER] \in Bijections(m)
      BY <1>1, <1>3, <2>4, PermKnown
    <3>2. \A i \in 0 .. m - 1 :
            perm[SERVER][i] \in 0 .. m - 1 /\ First(SERVER, perm[SERVER][i]).ele = elements[SERVER][i]
      <4>1. \A i \in 0 .. m - 1 :
              /\ perm[SERVER][i] \in 0 .. m - 1
              /\ First(SERVER, perm[SERVER][i]) =
                   [ele |-> elements[SERVER][i], exps |-> IF Naive THEN {} ELSE {SERVER}]
        BY <1>1, <1>2, <3>1, FirstIs
      <4>2. ASSUME NEW i \in 0 .. m - 1
           PROVE  First(SERVER, perm[SERVER][i]).ele = elements[SERVER][i]
        <5> DEFINE mask == First(SERVER, perm[SERVER][i])
        <5>1. mask = [ele |-> elements[SERVER][i], exps |-> IF Naive THEN {} ELSE {SERVER}]
          BY <4>1
        <5> HIDE DEF mask
        <5>2. mask.ele = elements[SERVER][i]
          BY <5>1
        <5> QED
          BY <5>2 DEF mask
      <4> QED
        BY <4>1, <4>2
    <3> DEFINE q == [i \in 0 .. m - 1 |-> p[perm[SERVER][i]]]
    <3>3. q \in Bijections(m)
      <4>1. m \in Nat
        BY <1>3
      <4> QED
        BY <4>1, <3>1, Composed
    <3>4. ASSUME NEW i \in 0 .. m - 1
          PROVE  phashes[CLIENT][q[i]] = [ele |-> elements[SERVER][i], exps |-> Role]
      BY <2>2, <3>2
    <3> HIDE DEF q
    <3> QED
      BY <1>3, <3>3, <3>4 DEF Lists
  <2> QED
    BY <2>3, <2>4
<1> QED
  BY <1>10, <1>11, <1>12

(* The end of an exchange, for a party that knows what it has then. *)
LEMMA ExchangeFrame ==
  ASSUME IInv, NEW r \in Role, Exchanging(r), NEW after \in {"second", "find", "create"},
         pc' = [pc EXCEPT ![r] = after], next' = [next EXCEPT ![r] = 0],
         DOMAIN hashes' = Role, DOMAIN phashes' = Role,
         hashes'[Other(r)] = hashes[Other(r)], phashes'[Other(r)] = phashes[Other(r)],
         UNCHANGED <<inputVars, pneles, perm, chan, sent, got, matches, result>>,
         after = "second" => ~Naive, after = "find" => Receiver(r),
         after = "create" => ~Receiver(r),
         Out(r)' = Out(r), In(r)' = In(r),
         \A j \in 0 .. Out(r) - 1 : Nth(r, j)' = Nth(r, j),
         Own(r)', Compared(r)', Theirs(r)'
  PROVE  IInv'
<1> DEFINE o == Other(r)
<1>1. /\ Shape /\ Handshake(r) /\ Local(r) /\ Stream(r) /\ Theirs(r)
      /\ o \in Role /\ o # r /\ Other(o) = r /\ \A s \in Role : s = r \/ s = o
      /\ Handshake(o) /\ Local(o) /\ Stream(o) /\ Theirs(o)
  BY Roles DEF IInv
<1>2. /\ pc'[r] = after /\ pc'[o] = pc[o] /\ next'[r] = 0 /\ next'[o] = next[o]
      /\ pc[r] \in {"exchange", "answer"}
  BY <1>1 DEF Shape, Exchanging
<1>3. Agreed /\ ~Early(r) /\ ~Late(r) /\ pc[o] # "start" /\ pneles[r] = N(o)
  BY <1>1, <1>2 DEF Handshake, Early, Late
<1>4. /\ N(r)' = N(r) /\ N(o)' = N(o) /\ Naive' = Naive /\ Back(r)' = Back(r) /\ Back(o)' = Back(o)
      /\ Receiver(r)' = Receiver(r) /\ Receiver(o)' = Receiver(o) /\ Agreed' = Agreed
      /\ Info(r)' = Info(r) /\ Info(o)' = Info(o) /\ Early(o)' = Early(o) /\ Late(o)' = Late(o)
      /\ ~Early(r)'
  BY <1>1, <1>2, <1>3, Constants DEF Early, Late
<1>5. /\ N(r) \in Nat /\ N(o) \in Nat /\ Out(r) \in Nat /\ In(r) \in Nat /\ sent[r] \in Nat
      /\ Out(o) \in Nat /\ In(o) \in Nat /\ Len(Wire(o)) \in Nat /\ Len(got[o]) \in Nat
      /\ Len(Wire(r)) \in Nat /\ Len(got[r]) \in Nat
  BY <1>1, Facts
<1>6. Shape'
  <2>1. pc' \in [Role -> PC] /\ next' \in [Role -> Nat]
    BY <1>1 DEF Shape, PC
  <2> QED
    BY <1>1, <2>1 DEF Shape, inputVars
<1>7. Handshake(r)' /\ Handshake(o)'
  <2>1. Handshake(r)'
    BY <1>1, <1>2, <1>3, <1>4 DEF Handshake
  <2>2. Handshake(o)'
    BY <1>1, <1>2, <1>3, <1>4 DEF Handshake
  <2> QED
    BY <2>1, <2>2
<1>8. Local(r)'
  <2>1. matches[r] = <<>> /\ result[r] = <<>>
    BY <1>1, <1>2, <1>3 DEF Local, Blank
  <2>2. matches'[r] = <<>> /\ result'[r] = <<>>
    BY <2>1
  <2>3. Blank(r)'
    BY <1>2, <1>4, <2>2 DEF Blank
  <2>4. Counts(r)'
    <3>1. sent[r] <= N(r) + N(o)
      BY <1>1, <1>2, <1>3, <1>5 DEF Local, Counts
    <3> QED
      BY <1>2, <1>4, <3>1 DEF Counts
  <2>5. Matched(r)'
    <3>1. matches'[r] \in Seq(0 .. N(r) - 1) /\ Len(matches'[r]) = 0
      BY <2>2
    <3>2. 1 .. Len(matches'[r]) = {}
      BY <3>1
    <3>3. MatchedBy(r, 0)' = {}
      <4>1. 0 .. 0 - 1 = {}
        OBVIOUS
      <4> QED
        BY <4>1 DEF MatchedBy
    <3>4. {matches'[r][k] : k \in 1 .. Len(matches'[r])} = {}
      BY <3>2
    <3>5. MatchedBy(r, next[r])' = {}
      BY <1>2, <3>3
    <3> QED
      BY <1>2, <1>4, <1>5, <3>1, <3>2, <3>4, <3>5 DEF Matched
  <2> QED
    BY <2>3, <2>4, <2>5 DEF Local
<1>9. Local(o)' /\ Theirs(o)'
  <2>1. UNCHANGED <<pc[o], perm[o], sent[o], got[o], hashes[o], phashes[o], matches[o],
                    next[o], result[o]>>
    BY <1>2
  <2>2. perm'[Other(o)] = perm[Other(o)]
    OBVIOUS
  <2>3. Local(o)'
    BY <1>1, <2>1, LocalFrame
  <2>4. Theirs(o)'
    BY <1>1, <2>1, <2>2, TheirsFrame
  <2> QED
    BY <2>3, <2>4
<1>10. /\ Out(o)' = Out(o) /\ In(o)' = In(o) /\ Wire(r)' = Wire(r) /\ Wire(o)' = Wire(o)
  <2>1. Out(o)' = Out(o) /\ In(o)' = In(o)
    BY <1>1, <1>2, <1>4 DEF Out, In
  <2>2. Wire(r)' = Wire(r) /\ Wire(o)' = Wire(o)
    BY <1>1, <1>2, <1>3 DEF Wire
  <2> QED
    BY <2>1, <2>2
<1>11. Stream(r)'
  <2>1. \A k : First(o, k)' = First(o, k)
    BY <1>4 DEF First, inputVars
  <2>2. \A j \in Int : Nth(o, j)' = Nth(o, j)
    BY <1>1, <1>4, <2>1 DEF Nth
  <2>3. pc'[r] \notin {"exchange", "answer"}
    BY <1>2
  <2> QED
    BY <1>1, <1>5, <1>10, <2>2, <2>3, StreamFrame
<1>12. Stream(o)'
  <2>1. UNCHANGED <<pc[o], got[o]>>
    BY <1>2
  <2> QED
    BY <1>1, <1>5, <1>10, <2>1, StreamFrame
<1> QED
  BY <1>1, <1>6, <1>7, <1>8, <1>9, <1>11, <1>12 DEF IInv

(* The end of the first exchange: each has the masks of the other. *)
LEMMA FirstExchangeDone ==
  ASSUME IInv, NEW r \in Role, ExchangeDone(r), pc[r] = "exchange"
  PROVE  IInv'
<1> DEFINE o == Other(r)
           after == IF setting[r].protocol = NAIVE THEN "find" ELSE "second"
<1>1. /\ Shape /\ Handshake(r) /\ Local(r) /\ o \in Role /\ o # r
  BY Roles DEF IInv
<1>2. /\ Exchanging(r) /\ sent[r] = Size(hashes[r]) /\ Len(got[r]) = pneles[r]
      /\ phashes' = [phashes EXCEPT ![r] = Received(r)]
      /\ pc' = [pc EXCEPT ![r] = after]
      /\ next' = [next EXCEPT ![r] = 0]
      /\ UNCHANGED <<inputVars, pneles, perm, chan, sent, got, hashes, matches, result>>
  BY DEF ExchangeDone, SendBuffer, ReceiveCount
<1>3. Agreed /\ ~Early(r) /\ ~Late(r) /\ (setting[r].protocol = NAIVE <=> Naive)
  <2>1. Agreed
    BY <1>1 DEF Handshake
  <2> QED
    BY <1>1, <2>1, Facts DEF Early, Late
<1>4. after = (IF Naive THEN "find" ELSE "second") /\ after \in {"second", "find", "create"}
  BY <1>3
<1> HIDE DEF after
<1>5. N(r) \in Nat /\ N(o) \in Nat
  BY <1>1, Facts
<1>6. /\ perm[r] \in Bijections(N(r)) /\ hashes[r] \in [0 .. N(r) - 1 -> Mask]
      /\ \A k \in 0 .. N(r) - 1 : hashes[r][k] = First(r, k)
  BY <1>1, <1>3 DEF Local, Own
<1>7. sent[r] = N(r)
  <2>1. N(r) \in Nat /\ hashes[r] \in [0 .. N(r) - 1 -> Mask]
    BY <1>5, <1>6
  <2>2. Size(hashes[r]) = N(r)
    BY <2>1, SizeOf
  <2> QED
    BY <1>2, <2>2
<1>8. /\ Received(r) \in [0 .. N(o) - 1 -> Mask]
      /\ \A k \in 0 .. N(o) - 1 : Received(r)[k] = First(o, k)
      /\ In(r) = N(o)
      /\ Naive => \E q \in Bijections(N(o)) : Lists(Received(r), q, o)
  BY <1>2, ExchangeReceived
<1>9. /\ phashes'[r] = Received(r) /\ phashes'[o] = phashes[o] /\ DOMAIN phashes' = Role
      /\ DOMAIN hashes' = Role /\ pc'[r] = after
  BY <1>1, <1>2 DEF Shape
<1>10. /\ N(r)' = N(r) /\ N(o)' = N(o) /\ Naive' = Naive /\ Back(r)' = Back(r) /\ Back(o)' = Back(o)
       /\ Agreed' = Agreed /\ Receiver(r)' = Receiver(r) /\ ~Early(r)'
       /\ (Late(r)' <=> Naive)
  BY <1>1, <1>2, <1>3, <1>4, <1>9, Constants DEF Early, Late
<1>11. Naive => Back(r) = 0 /\ Back(o) = 0
  BY DEF Back
<1>12. Out(r)' = Out(r) /\ In(r)' = In(r) /\ Out(r) = N(r)
  <2>1. Out(r) = N(r)
    BY <1>7 DEF Out
  <2>2. CASE Naive
    <3>1. Out(r)' = N(r) + 0 /\ In(r)' = N(o) + 0
      BY <1>4, <1>9, <1>10, <1>11, <2>2 DEF Out, In
    <3> QED
      BY <1>5, <1>8, <2>1, <3>1
  <2>3. CASE ~Naive
    <3>1. Out(r)' = N(r) /\ In(r)' = N(o)
      BY <1>4, <1>9, <1>10, <2>3 DEF Out, In
    <3> QED
      BY <1>8, <2>1, <3>1
  <2> QED
    BY <2>2, <2>3
<1>13. \A s \in Role : \A k : First(s, k)' = First(s, k)
  BY <1>2, <1>10 DEF First, inputVars
<1>14. \A j \in 0 .. Out(r) - 1 : Nth(r, j)' = Nth(r, j)
  BY <1>5, <1>10, <1>12, <1>13 DEF Nth
<1>15. Own(r)'
  BY <1>2, <1>6, <1>10, <1>13 DEF Own
<1>16. Theirs(r)'
  <2>1. \A k \in 0 .. N(o) - 1 : phashes'[r][k] = First(o, k)'
    BY <1>1, <1>8, <1>9, <1>13
  <2>2. phashes'[r] \in [0 .. N(o) - 1 -> Mask]
    BY <1>8, <1>9
  <2> HIDE DEF o
  <2>3. o = Other(r)
    BY DEF o
  <2> QED
    BY <1>4, <1>9, <1>10, <2>1, <2>2, <2>3 DEF Theirs
<1>17. Compared(r)'
  <2> SUFFICES ASSUME Naive
               PROVE  /\ \E q \in Bijections(N(r)) : q = perm[r] /\ Lists(hashes[r], q, r)'
                      /\ \E q \in Bijections(N(o)) : Lists(phashes[r], q, o)'
    BY <1>2, <1>10 DEF Compared
  <2>1. perm[r] \in Bijections(N(r)) /\ Lists(hashes[r], perm[r], r)
    BY <1>3, OwnListed
  <2>2. PICK q \in Bijections(N(o)) : Lists(Received(r), q, o)
    BY <1>8
  <2>3. Lists(hashes[r], perm[r], r)'
    BY <1>2, <1>10, <2>1 DEF Lists, inputVars
  <2>4. Lists(phashes[r], q, o)'
    BY <1>2, <1>9, <1>10, <2>2 DEF Lists, inputVars
  <2> QED
    BY <1>2, <2>1, <2>3, <2>4
<1>18. /\ after = "second" => ~Naive
       /\ after = "find" => Receiver(r)
       /\ after # "create"
  BY <1>3, <1>4 DEF Receiver
<1> QED
  BY <1>2, <1>4, <1>9, <1>12, <1>14, <1>15, <1>16, <1>17, <1>18, ExchangeFrame

(* The end of the answer: the client has its own masks with both exponents. *)
LEMMA AnswerDone ==
  ASSUME IInv, NEW r \in Role, ExchangeDone(r), pc[r] = "answer"
  PROVE  IInv'
<1> DEFINE o == Other(r)
           after == IF r = CLIENT THEN "find" ELSE "create"
<1>1. /\ Shape /\ Handshake(r) /\ Local(r) /\ Theirs(r) /\ o \in Role /\ o # r
      /\ (r = SERVER /\ o = CLIENT) \/ (r = CLIENT /\ o = SERVER)
      /\ SERVER # CLIENT
  BY Roles, ConstantsOK DEF IInv
<1>2. /\ Exchanging(r)
      /\ sent[r] = Size(IF r = SERVER THEN phashes[r] ELSE <<>>)
      /\ Len(got[r]) = IF r = SERVER THEN 0 ELSE N(r)
      /\ hashes' = IF r = CLIENT THEN [hashes EXCEPT ![r] = Received(r)] ELSE hashes
      /\ pc' = [pc EXCEPT ![r] = after]
      /\ next' = [next EXCEPT ![r] = 0]
      /\ UNCHANGED <<inputVars, pneles, perm, chan, sent, got, phashes, matches, result>>
  BY DEF ExchangeDone, SendBuffer, ReceiveCount, N
<1>3. Agreed /\ ~Early(r) /\ ~Late(r) /\ ~Naive /\ (setting[r].protocol = NAIVE <=> Naive)
  <2>1. Agreed
    BY <1>1 DEF Handshake
  <2> QED
    BY <1>1, <2>1, Facts DEF Early, Late, Handshake
<1>4. after \in {"second", "find", "create"} /\ after # "second"
  OBVIOUS
<1>5. /\ after = "find" => Receiver(r)
      /\ after = "create" => ~Receiver(r)
  BY <1>1, <1>3 DEF Receiver
<1> HIDE DEF after
<1>6. N(r) \in Nat /\ N(o) \in Nat /\ sent[r] \in Nat
  BY <1>1, Facts
<1>7. perm[r] \in Bijections(N(r)) /\ hashes[r] \in [0 .. N(r) - 1 -> Mask]
  BY <1>1, <1>3 DEF Local, Own
<1>8. phashes[r] \in [0 .. N(o) - 1 -> Mask] /\ Doubled(r)
  BY <1>1, <1>3 DEF Theirs
<1>9. Back(r) = (IF r = SERVER THEN N(o) ELSE 0) /\ Back(o) = (IF r = SERVER THEN 0 ELSE N(r))
  BY <1>1, <1>3 DEF Back
<1>10. sent[r] = Back(r)
  <2>1. N(o) \in Nat /\ phashes[r] \in [0 .. N(o) - 1 -> Mask]
    BY <1>6, <1>8
  <2>2. Size(phashes[r]) = N(o)
    BY <2>1, SizeOf
  <2>3. Size(<<>>) = 0
    <3>1. DOMAIN <<>> = {}
      OBVIOUS
    <3> QED
      BY <3>1, FS_EmptySet DEF Size
  <2> QED
    BY <1>1, <1>2, <1>9, <2>2, <2>3
<1>11. Len(got[r]) = Back(o)
  BY <1>2, <1>9
<1>12. /\ hashes'[o] = hashes[o] /\ DOMAIN phashes' = Role /\ DOMAIN hashes' = Role
       /\ pc'[r] = after
  BY <1>1, <1>2 DEF Shape
<1>13. /\ N(r)' = N(r) /\ N(o)' = N(o) /\ Naive' = Naive /\ Back(r)' = Back(r) /\ Back(o)' = Back(o)
       /\ Agreed' = Agreed /\ Receiver(r)' = Receiver(r) /\ ~Early(r)' /\ Late(r)'
  BY <1>1, <1>2, <1>3, <1>4, <1>12, Constants DEF Early, Late
<1>14. /\ Out(r) = N(r) + Back(r) /\ Out(r)' = Out(r)
       /\ In(r) = N(o) + Back(o) /\ In(r)' = In(r)
  <2>1. Out(r) = N(r) + Back(r) /\ In(r) = N(o) + Back(o)
    BY <1>10, <1>11 DEF Out, In
  <2>2. Out(r)' = N(r) + Back(r) /\ In(r)' = N(o) + Back(o)
    BY <1>4, <1>12, <1>13 DEF Out, In
  <2> QED
    BY <2>1, <2>2
<1>15. \A s \in Role : \A k : First(s, k)' = First(s, k)
  BY <1>2, <1>13 DEF First, inputVars
<1>16. \A j \in 0 .. Out(r) - 1 : Nth(r, j)' = Nth(r, j)
  BY <1>2, <1>13, <1>15 DEF Nth
<1>17. r = CLIENT =>
         /\ hashes'[r] = Received(r)
         /\ Received(r) \in [0 .. N(r) - 1 -> Mask]
         /\ \E q \in Bijections(N(r)) :
              /\ ~setting[SERVER].cardinality => q = perm[r]
              /\ Lists(Received(r), q, r)
         /\ \E q \in Bijections(N(o)) : Lists(phashes[r], q, o)
  <2> SUFFICES ASSUME r = CLIENT
               PROVE  /\ hashes'[r] = Received(r)
                      /\ Received(r) \in [0 .. N(r) - 1 -> Mask]
                      /\ \E q \in Bijections(N(r)) :
                           /\ ~setting[SERVER].cardinality => q = perm[r]
                           /\ Lists(Received(r), q, r)
                      /\ \E q \in Bijections(N(o)) : Lists(phashes[r], q, o)
    OBVIOUS
  <2>1. hashes'[r] = Received(r)
    BY <1>1, <1>2 DEF Shape
  <2>2. pc[CLIENT] = "answer" /\ Len(got[CLIENT]) = N(CLIENT)
    BY <1>1, <1>2
  <2>3. /\ Received(CLIENT) \in [0 .. N(CLIENT) - 1 -> Mask]
        /\ \E q \in Bijections(N(CLIENT)) :
             /\ ~setting[SERVER].cardinality => q = perm[CLIENT]
             /\ Lists(Received(CLIENT), q, CLIENT)
        /\ \E q \in Bijections(N(SERVER)) : Lists(phashes[CLIENT], q, SERVER)
    BY <2>2, AnswerReceived
  <2>4. o = SERVER
    BY <1>1
  <2> QED
    BY <2>1, <2>3, <2>4
<1>18. Own(r)'
  <2>1. hashes'[r] \in [0 .. N(r) - 1 -> Mask]
    BY <1>1, <1>2, <1>7, <1>17
  <2> QED
    BY <1>2, <1>3, <1>7, <1>13, <2>1 DEF Own
<1>19. Theirs(r)'
  <2>1. Doubled(r)'
    BY <1>2, <1>8, DoubledFrame
  <2> QED
    BY <1>2, <1>3, <1>4, <1>8, <1>12, <1>13, <2>1 DEF Theirs
<1>20. Compared(r)'
  <2> SUFFICES ASSUME r = CLIENT
               PROVE  Compared(r)'
    BY <1>1, <1>3, <1>13 DEF Compared, Receiver
  <2>1. PICK q \in Bijections(N(r)) :
          /\ ~setting[SERVER].cardinality => q = perm[r]
          /\ Lists(Received(r), q, r)
    BY <1>17
  <2>2. PICK p \in Bijections(N(o)) : Lists(phashes[r], p, o)
    BY <1>17
  <2>3. Lists(hashes[r], q, r)'
    <3>1. hashes'[r] = Received(r)
      BY <1>17
    <3>2. Lists(hashes'[r], q, r)
      BY <2>1, <3>1
    <3>3. elements' = elements
      BY <1>2 DEF inputVars
    <3> QED
      BY <1>13, <3>2, <3>3 DEF Lists
  <2>4. Lists(phashes[r], p, o)'
    BY <1>2, <1>13, <2>2 DEF Lists, inputVars
  <2>5. Naive' \/ ~setting'[SERVER].cardinality => q = perm'[r]
    BY <1>2, <1>3, <1>13, <2>1 DEF inputVars
  <2> QED
    BY <1>13, <2>3, <2>4, <2>5 DEF Compared
<1> QED
  BY <1>2, <1>4, <1>5, <1>12, <1>14, <1>16, <1>18, <1>19, <1>20, ExchangeFrame

(* The two ends of an exchange. *)
LEMMA ExchangeDoneStep ==
  ASSUME IInv, NEW r \in Role, ExchangeDone(r)
  PROVE  IInv'
BY FirstExchangeDone, AnswerDone DEF ExchangeDone, Exchanging
(* The invariant and every step of the specification. *)
LEMMA Inductive == IInv /\ [Next]_vars => IInv'
<1> SUFFICES ASSUME IInv, [Next]_vars
             PROVE  IInv'
  OBVIOUS
<1>1. CASE UNCHANGED vars
  <2>1. Shape'
    BY <1>1 DEF IInv, Shape, vars
  <2>2. ASSUME NEW r \in Role
        PROVE  Handshake(r)' /\ Local(r)' /\ Stream(r)' /\ Theirs(r)'
    <3> DEFINE o == Other(r)
    <3>1. /\ Shape /\ Handshake(r) /\ Local(r) /\ Stream(r) /\ Theirs(r)
          /\ o \in Role /\ Handshake(o)
      BY Roles DEF IInv
    <3>2. UNCHANGED inputVars
      BY <1>1 DEF vars, inputVars
    <3>3. /\ Agreed' = Agreed /\ Naive' = Naive /\ N(r)' = N(r) /\ N(o)' = N(o)
          /\ Receiver(r)' = Receiver(r) /\ Info(o)' = Info(o)
          /\ Back(r)' = Back(r) /\ Back(o)' = Back(o)
      BY <3>1, <3>2, Constants
    <3>4. Handshake(r)'
      BY <1>1, <3>1, <3>3 DEF Handshake, vars
    <3>5. Local(r)'
      BY <1>1, <3>1, <3>2, LocalFrame DEF vars
    <3>6. Theirs(r)'
      BY <1>1, <3>1, <3>2, TheirsFrame DEF vars
    <3>7. /\ Wire(r)' = Wire(r) /\ Out(o)' = Out(o) /\ In(r)' = In(r)
      BY <1>1, <3>1, <3>3, Roles DEF Wire, Out, In, Late, vars
    <3>8. /\ Out(o) \in Nat /\ In(r) \in Nat /\ N(o) \in Nat
          /\ Len(Wire(r)) \in Nat /\ Len(got[r]) \in Nat
      BY <3>1, Facts
    <3>9. \A j : Nth(o, j)' = Nth(o, j)
      BY <1>1, <3>3 DEF Nth, First, Naive, vars
    <3>10. Stream(r)'
      BY <1>1, <3>1, <3>2, <3>7, <3>8, <3>9, StreamFrame DEF vars
    <3> QED
      BY <3>4, <3>5, <3>6, <3>10
  <2> QED
    BY <2>1, <2>2 DEF IInv
<1>2. ASSUME NEW r \in Role, MainStep(r)
      PROVE  IInv'
  <2>1. CASE SendInformation(r)
    BY <2>1, SendInformationStep
  <2>2. CASE ReceiveInformation(r)
    BY <2>2, ReceiveInformationStep
  <2>3. CASE Prepare(r)
    BY <2>3, PrepareStep
  <2>4. CASE Second(r)
    BY <2>4, SecondStep
  <2>5. CASE ReceiveMask(r)
    BY <2>5, ReceiveMaskStep
  <2>6. CASE ExchangeDone(r)
    BY <2>6, ExchangeDoneStep
  <2>7. CASE Lookup(r)
    BY <2>7, LookupStep
  <2>8. CASE FindDone(r)
    BY <2>8, FindDoneStep
  <2>9. CASE CreateResult(r)
    BY <2>9, CreateResultStep
  <2> QED
    BY <1>2, <2>1, <2>2, <2>3, <2>4, <2>5, <2>6, <2>7, <2>8, <2>9 DEF MainStep
<1>3. ASSUME NEW r \in Role, SendMask(r)
      PROVE  IInv'
  BY <1>3, SendMaskStep
<1>4. CASE Ended
  BY <1>1, <1>4 DEF Ended
<1> QED
  BY <1>1, <1>2, <1>3, <1>4 DEF Next

(* The stream invariant holds in every state. *)
LEMMA Invariance == Spec => []IInv
<1> QED
  BY InitHolds, Inductive, PTL DEF Spec

--------------------------------------------------------------------------------
(***************************************************************************)
(* What the invariant says about the run.                                  *)
(***************************************************************************)

(* It gives the types of the variables. *)
LEMMA Types == IInv => TypeOK
<1> SUFFICES ASSUME IInv
             PROVE  TypeOK
  OBVIOUS
<1>1. Shape
  BY DEF IInv
<1>2. ASSUME NEW r \in Role
      PROVE  /\ perm[r] # <<>> => perm[r] \in Bijections(NElements(r))
             /\ IsArray(hashes[r], Mask) \/ hashes[r] = <<>>
             /\ IsArray(phashes[r], Mask) \/ phashes[r] = <<>>
             /\ Exchanging(r) => got[r] \in Seq(Mask)
             /\ sent[r] \in 0 .. Size(hashes[r]) + Size(phashes[r])
             /\ next[r] \in 0 .. pneles[r]
             /\ matches[r] \in Seq(DOMAIN elements[r])
             /\ result[r] \in Seq(DOMAIN elements[r])
  <2> DEFINE o == Other(r)
  <2>1. /\ Handshake(r) /\ Blank(r) /\ Counts(r) /\ Own(r) /\ Matched(r) /\ Theirs(r)
        /\ o \in Role
    BY Roles DEF IInv, Local
  <2>2. /\ N(r) \in Nat /\ N(o) \in Nat /\ sent[r] \in Nat /\ next[r] \in Nat /\ pneles[r] \in Nat
        /\ DOMAIN elements[r] = 0 .. N(r) - 1 /\ got[r] \in Seq(Mask)
    BY <1>1, <2>1, Facts
  <2>3. matches[r] \in Seq(DOMAIN elements[r])
    BY <2>1, <2>2 DEF Matched
  <2>4. result[r] \in Seq(DOMAIN elements[r])
    <3>1. CASE pc[r] = "done"
      <4> DEFINE S == 0 .. N(r) - 1
      <4>1. S \subseteq Nat /\ matches[r] \in Seq(S)
        BY <2>1 DEF Matched
      <4>2. Ascending(matches[r]) \in Seq(S)
        BY <4>1, SameOrder, Numbers!AscendingType
      <4> QED
        BY <2>1, <2>2, <3>1, <4>2 DEF Matched
    <3>2. CASE pc[r] # "done"
      <4>1. result[r] = <<>>
        BY <2>1, <3>2 DEF Blank
      <4> QED
        BY <4>1
    <3> QED
      BY <3>1, <3>2
  <2>5. Size(<<>>) = 0
    <3>1. DOMAIN <<>> = {}
      OBVIOUS
    <3> QED
      BY <3>1, FS_EmptySet DEF Size
  <2>6. /\ Early(r) => hashes[r] = <<>> /\ Size(hashes[r]) = 0
        /\ ~Early(r) => IsArray(hashes[r], Mask) /\ Size(hashes[r]) = N(r)
    <3>1. CASE Early(r)
      BY <2>1, <2>5, <3>1 DEF Blank
    <3>2. CASE ~Early(r)
      <4>1. N(r) \in Nat /\ hashes[r] \in [0 .. N(r) - 1 -> Mask]
        BY <2>1, <2>2, <3>2 DEF Own
      <4>2. Size(hashes[r]) = N(r) /\ IsArray(hashes[r], Mask)
        BY <4>1, SizeOf
      <4> QED
        BY <3>2, <4>2
    <3> QED
      BY <3>1, <3>2
  <2>7. /\ Early(r) \/ pc[r] = "exchange" => phashes[r] = <<>> /\ Size(phashes[r]) = 0
        /\ ~(Early(r) \/ pc[r] = "exchange") => IsArray(phashes[r], Mask) /\ Size(phashes[r]) = N(o)
    <3>1. CASE Early(r) \/ pc[r] = "exchange"
      BY <2>1, <2>5, <3>1 DEF Blank
    <3>2. CASE ~(Early(r) \/ pc[r] = "exchange")
      <4>1. N(o) \in Nat /\ phashes[r] \in [0 .. N(o) - 1 -> Mask]
        BY <2>1, <2>2, <3>2 DEF Theirs
      <4>2. Size(phashes[r]) = N(o) /\ IsArray(phashes[r], Mask)
        BY <4>1, SizeOf
      <4> QED
        BY <3>2, <4>2
    <3> QED
      BY <3>1, <3>2
  <2>8. sent[r] \in 0 .. Size(hashes[r]) + Size(phashes[r])
    <3>1. CASE Early(r)
      <4>1. sent[r] = 0
        BY <2>1, <3>1 DEF Blank
      <4> QED
        BY <2>6, <2>7, <3>1, <4>1
    <3>2. CASE ~Early(r)
      BY <2>1, <2>2, <2>6, <2>7, <3>2 DEF Counts
    <3> QED
      BY <3>1, <3>2
  <2>9. next[r] \in 0 .. pneles[r]
    <3>1. CASE Late(r)
      <4>1. ~Early(r) /\ pneles[r] = N(o)
        BY <2>1, <3>1 DEF Early, Late, Handshake
      <4> QED
        BY <2>1, <4>1 DEF Matched
    <3>2. CASE ~Late(r)
      BY <2>1, <2>2, <3>2 DEF Blank
    <3> QED
      BY <3>1, <3>2
  <2>10. perm[r] # <<>> => perm[r] \in Bijections(NElements(r))
    BY <2>1 DEF Blank, Own, N
  <2> QED
    BY <2>2, <2>3, <2>4, <2>6, <2>7, <2>8, <2>9, <2>10
<1> QED
  BY <1>1, <1>2 DEF TypeOK, Shape

(* A party past its exchange of sizes has the sizes of the other. *)
LEMMA Agreement == IInv => ParametersAgree
BY DEF IInv, Handshake, ParametersAgree, Agreed

(* A mask the leader has received is the one the follower sent for that element. *)
LEMMA LinedUp == IInv => MasksLineUp
<1> SUFFICES ASSUME IInv, NEW r \in Role, pc[r] \in {"find", "create", "done"},
                    ~(setting[SERVER].protocol = DH_ECC /\ (r = SERVER \/ setting[SERVER].cardinality)),
                    NEW i \in DOMAIN elements[r]
             PROVE  hashes[r][perm[r][i]] =
                      [ele |-> elements[r][i],
                       exps |-> IF setting[r].protocol = NAIVE THEN {} ELSE Role]
  BY DEF MasksLineUp
<1>1. Shape /\ Handshake(r) /\ Local(r) /\ SERVER \in Role /\ (r = SERVER \/ r = CLIENT)
  BY DEF IInv, Role
<1>2. /\ Agreed /\ Late(r) /\ DOMAIN elements[r] = 0 .. N(r) - 1
      /\ (setting[r].protocol = NAIVE <=> Naive)
  <2>1. Agreed
    BY <1>1 DEF Handshake
  <2> QED
    BY <1>1, <2>1, Facts DEF Late
<1>3. Naive \/ setting[SERVER].protocol = DH_ECC
  <2>1. setting[SERVER] \in Setting
    BY <1>1, Sizes DEF Shape
  <2> QED
    BY <2>1 DEF Setting, Naive
<1>4. Receiver(r) /\ (Naive \/ ~setting[SERVER].cardinality)
  BY <1>1, <1>2, <1>3 DEF Receiver
<1>5. Lists(hashes[r], perm[r], r)
  BY <1>1, <1>2, <1>4 DEF Local, Compared
<1> QED
  BY <1>2, <1>5 DEF Lists

(* When the search is over, the matches are the elements that are in both sets; if only
   the cardinality is revealed they are as many, at other places. *)
LEMMA MatchedIsCommon ==
  ASSUME IInv, NEW r \in Role, Late(r), Receiver(r)
  PROVE  \E p \in Bijections(N(r)) :
           /\ Naive \/ ~setting[SERVER].cardinality => \A i \in 0 .. N(r) - 1 : p[i] = i
           /\ \A i \in 0 .. N(r) - 1 : i \in Common(r) <=> p[i] \in MatchedBy(r, N(Other(r)))
<1> DEFINE o == Other(r)
           n == N(r)
           F == IF Naive THEN {} ELSE Role
<1>1. Shape /\ Local(r) /\ o \in Role
  BY Roles DEF IInv
<1>2. /\ n \in Nat /\ N(o) \in Nat /\ DOMAIN elements[r] = 0 .. n - 1
  BY <1>1, Sizes DEF Shape
<1>3. perm[r] \in Bijections(n)
  BY <1>1 DEF Local, Own, Early, Late
<1>4. PICK q \in Bijections(n) :
        /\ Naive \/ ~setting[SERVER].cardinality => q = perm[r]
        /\ \A i \in 0 .. n - 1 : hashes[r][q[i]] = [ele |-> elements[r][i], exps |-> F]
  BY <1>1 DEF Local, Compared, Lists
<1>5. /\ \A k \in 0 .. N(o) - 1 : \E e \in SetOf(o) : phashes[r][k] = [ele |-> e, exps |-> F]
      /\ \A e \in SetOf(o) : \E k \in 0 .. N(o) - 1 : phashes[r][k] = [ele |-> e, exps |-> F]
  <2>1. /\ \A k \in 0 .. N(Other(r)) - 1 : \E e \in SetOf(Other(r)) :
             phashes[r][k] = [ele |-> e, exps |-> IF Naive THEN {} ELSE Role]
        /\ \A e \in SetOf(Other(r)) : \E k \in 0 .. N(Other(r)) - 1 :
             phashes[r][k] = [ele |-> e, exps |-> IF Naive THEN {} ELSE Role]
    BY ComparedMasks
  <2> QED
    BY <2>1
<1> HIDE DEF F
<1>6. /\ \A i \in 0 .. n - 1 : q[i] \in 0 .. n - 1
      /\ \A i, j \in 0 .. n - 1 : q[i] = q[j] => i = j
  BY DEF Bijections
<1>7. /\ \A i \in 0 .. n - 1 : perm[r][i] \in 0 .. n - 1
      /\ \A i, j \in 0 .. n - 1 : perm[r][i] = perm[r][j] => i = j
      /\ \A k \in 0 .. n - 1 : \E i \in 0 .. n - 1 : perm[r][i] = k
  <2>1. \A k \in 0 .. n - 1 : \E i \in 0 .. n - 1 : perm[r][i] = k
    BY <1>2, <1>3, Onto
  <2> QED
    BY <1>3, <2>1 DEF Bijections
<1> DEFINE p == [i \in 0 .. n - 1 |-> CHOOSE j \in 0 .. n - 1 : perm[r][j] = q[i]]
<1>8. \A i \in 0 .. n - 1 : p[i] \in 0 .. n - 1 /\ perm[r][p[i]] = q[i]
  BY <1>6, <1>7
<1>9. p \in [0 .. n - 1 -> 0 .. n - 1]
  BY <1>8
<1> HIDE DEF p
<1>10. p \in Bijections(n)
  <2>1. ASSUME NEW i \in 0 .. n - 1, NEW j \in 0 .. n - 1, p[i] = p[j]
        PROVE  i = j
    <3>1. q[i] = q[j]
      BY <1>8, <2>1
    <3> QED
      BY <1>6, <3>1
  <2> QED
    BY <1>9, <2>1 DEF Bijections
<1>11. ASSUME Naive \/ ~setting[SERVER].cardinality, NEW i \in 0 .. n - 1
       PROVE  p[i] = i
  BY <1>4, <1>7, <1>8, <1>11
<1>12. ASSUME NEW i \in 0 .. n - 1
       PROVE  i \in Common(r) <=> p[i] \in MatchedBy(r, N(o))
  <2>1. i \in Common(r) <=> elements[r][i] \in SetOf(o)
    BY <1>2 DEF Common
  <2>2. p[i] \in MatchedBy(r, N(o)) <=> \E k \in 0 .. N(o) - 1 : phashes[r][k] = hashes[r][perm[r][p[i]]]
    BY <1>8 DEF MatchedBy
  <2>3. hashes[r][perm[r][p[i]]] = [ele |-> elements[r][i], exps |-> F]
    BY <1>4, <1>8
  <2>4. elements[r][i] \in SetOf(o) => \E k \in 0 .. N(o) - 1 : phashes[r][k] = hashes[r][perm[r][p[i]]]
    BY <1>5, <2>3
  <2>5. ASSUME NEW k \in 0 .. N(o) - 1, phashes[r][k] = hashes[r][perm[r][p[i]]]
        PROVE  elements[r][i] \in SetOf(o)
    <3>1. PICK e \in SetOf(o) : phashes[r][k] = [ele |-> e, exps |-> F]
      BY <1>5
    <3>2. [ele |-> e, exps |-> F] = [ele |-> elements[r][i], exps |-> F]
      BY <2>3, <2>5, <3>1
    <3>3. [ele |-> e, exps |-> F].ele = e /\ [ele |-> elements[r][i], exps |-> F].ele = elements[r][i]
      OBVIOUS
    <3>4. e = elements[r][i]
      BY <3>2, <3>3
    <3> QED
      BY <3>4
  <2> QED
    BY <2>1, <2>2, <2>4, <2>5
<1> QED
  BY <1>10, <1>11, <1>12

(* A sequence without repetition is as long as the set of its values, or as any set
   that a permutation moves to it, has members. *)
LEMMA AsManyAs ==
  ASSUME NEW n \in Nat, NEW m \in Seq(0 .. n - 1),
         \A j, k \in 1 .. Len(m) : m[j] = m[k] => j = k,
         NEW C, C \subseteq 0 .. n - 1, NEW p \in Bijections(n),
         \A i \in 0 .. n - 1 : i \in C <=> \E k \in 1 .. Len(m) : m[k] = p[i]
  PROVE  Cardinality(C) = Len(m)
<1>1. Len(m) \in Nat /\ \A k \in 1 .. Len(m) : m[k] \in 0 .. n - 1
  OBVIOUS
<1>2. /\ \A i, j \in 0 .. n - 1 : p[i] = p[j] => i = j
      /\ \A k \in 0 .. n - 1 : \E i \in 0 .. n - 1 : p[i] = k
  BY Onto
<1> DEFINE f == [k \in 1 .. Len(m) |-> CHOOSE i \in 0 .. n - 1 : p[i] = m[k]]
<1>3. \A k \in 1 .. Len(m) : f[k] \in 0 .. n - 1 /\ p[f[k]] = m[k]
  BY <1>1, <1>2
<1>4. DOMAIN f = 1 .. Len(m) /\ f = [k \in 1 .. Len(m) |-> f[k]]
  OBVIOUS
<1> HIDE DEF f
<1>5. \A k \in 1 .. Len(m) : f[k] \in C
  BY <1>3
<1>6. f \in [1 .. Len(m) -> C]
  BY <1>4, <1>5
<1>7. ASSUME NEW j \in 1 .. Len(m), NEW k \in 1 .. Len(m), f[j] = f[k]
      PROVE  j = k
  <2>1. m[j] = m[k]
    BY <1>3, <1>7
  <2> QED
    BY <2>1
<1>8. ASSUME NEW i \in C
      PROVE  \E k \in 1 .. Len(m) : f[k] = i
  <2>1. i \in 0 .. n - 1
    OBVIOUS
  <2>2. PICK k \in 1 .. Len(m) : m[k] = p[i]
    BY <2>1
  <2>3. f[k] \in 0 .. n - 1 /\ p[f[k]] = p[i]
    BY <1>3, <2>2
  <2>4. f[k] = i
    BY <1>2, <2>1, <2>3
  <2> QED
    BY <2>4
<1>9. f \in Bijection(1 .. Len(m), C)
  BY <1>6, <1>7, <1>8 DEF Bijection, Injection, IsInjective, Surjection
<1>10. ExistsBijection(1 .. Len(m), C)
  BY <1>9 DEF ExistsBijection
<1> QED
  BY <1>1, <1>10, FS_CountingElements

(* A result is the intersection, when the masks of different elements differ. *)
LEMMA Exact == IInv => ResultExact
<1> SUFFICES ASSUME IInv, NEW r \in Role, pc[r] = "done", Receiver(r), CollisionFree
             PROVE  IF setting[r].protocol = DH_ECC /\ setting[SERVER].cardinality
                    THEN Len(result[r]) = Cardinality(Common(r))
                    ELSE /\ {result[r][k] : k \in DOMAIN result[r]} = Common(r)
                         /\ \A j, k \in DOMAIN result[r] : j < k => result[r][j] < result[r][k]
  BY DEF ResultExact
<1> DEFINE o == Other(r)
           n == N(r)
           m == matches[r]
           M == MatchedBy(r, N(o))
           C == Common(r)
<1>1. Shape /\ Handshake(r) /\ Local(r)
  BY DEF IInv
<1>2. Agreed /\ Late(r) /\ ~Early(r)
  <2>1. Agreed
    BY <1>1 DEF Handshake
  <2> QED
    BY <2>1 DEF Late, Early
<1>3. n \in Nat /\ (setting[r].protocol = NAIVE <=> Naive) /\ DOMAIN elements[r] = 0 .. n - 1
  BY <1>1, <1>2, Facts
<1>4. /\ m \in Seq(0 .. n - 1) /\ result[r] = Ascending(m)
      /\ \A j, k \in 1 .. Len(m) : m[j] = m[k] => j = k
      /\ {m[k] : k \in 1 .. Len(m)} = M
  BY <1>1, <1>2 DEF Local, Matched
<1>5. M \subseteq 0 .. n - 1
  BY DEF MatchedBy
<1>6. /\ \E p \in Bijections(n) :
           /\ Naive \/ ~setting[SERVER].cardinality => \A i \in 0 .. n - 1 : p[i] = i
           /\ \A i \in 0 .. n - 1 : i \in C <=> p[i] \in M
  BY <1>2, MatchedIsCommon
<1>7. C \subseteq 0 .. n - 1
  BY <1>3 DEF Common
<1> HIDE DEF M, C, m, n
<1>8. PICK p \in Bijections(n) :
        /\ Naive \/ ~setting[SERVER].cardinality => \A i \in 0 .. n - 1 : p[i] = i
        /\ \A i \in 0 .. n - 1 : i \in C <=> p[i] \in M
  BY <1>6
<1>9. /\ Ascending(m) \in Seq(0 .. n - 1) /\ Len(Ascending(m)) = Len(m)
      /\ DOMAIN Ascending(m) = 1 .. Len(m)
      /\ {Ascending(m)[k] : k \in 1 .. Len(m)} = {m[k] : k \in 1 .. Len(m)}
      /\ \A j, k \in 1 .. Len(m) : j < k => Ascending(m)[j] < Ascending(m)[k]
  <2>1. n \in Nat /\ m \in Seq(0 .. n - 1) /\ \A j, k \in 1 .. Len(m) : m[j] = m[k] => j = k
    BY <1>3, <1>4
  <2> DEFINE a == Numbers!Ascending(m)
  <2>2. Ascending(m) = a
    BY SameOrder
  <2>3. /\ a \in Seq(0 .. n - 1) /\ Len(a) = Len(m) /\ DOMAIN a = 1 .. Len(m)
        /\ {a[k] : k \in 1 .. Len(m)} = {m[k] : k \in 1 .. Len(m)}
        /\ \A j, k \in 1 .. Len(m) : j < k => a[j] < a[k]
    BY <2>1, Numbers!AscendingDistinct
  <2> HIDE DEF a
  <2> QED
    BY <2>2, <2>3
<1>10. Len(result[r]) = Cardinality(C)
  <2>1. \A i \in 0 .. n - 1 : i \in C <=> \E k \in 1 .. Len(m) : m[k] = p[i]
    BY <1>4, <1>8
  <2>2. n \in Nat /\ m \in Seq(0 .. n - 1) /\ \A j, k \in 1 .. Len(m) : m[j] = m[k] => j = k
    BY <1>3, <1>4
  <2>3. Cardinality(C) = Len(m)
    BY <1>7, <2>1, <2>2, AsManyAs
  <2> QED
    BY <1>4, <1>9, <2>3
<1>11. ASSUME ~(setting[r].protocol = DH_ECC /\ setting[SERVER].cardinality)
       PROVE  /\ {result[r][k] : k \in DOMAIN result[r]} = C
              /\ \A j, k \in DOMAIN result[r] : j < k => result[r][j] < result[r][k]
  <2>1. setting[r] \in Setting
    BY <1>1, Sizes DEF Shape
  <2>2. setting[r].protocol \in {NAIVE, DH_ECC}
    BY <2>1 DEF Setting
  <2>3. Naive \/ ~setting[SERVER].cardinality
    BY <1>3, <1>11, <2>2
  <2>4. M = C
    BY <1>5, <1>7, <1>8, <2>3
  <2>5. result[r] = Ascending(m)
    BY <1>4
  <2>6. {Ascending(m)[k] : k \in DOMAIN Ascending(m)} = C
    BY <1>4, <1>9, <2>4
  <2>7. \A j, k \in DOMAIN Ascending(m) : j < k => Ascending(m)[j] < Ascending(m)[k]
    BY <1>9
  <2> QED
    BY <2>5, <2>6, <2>7
<1> QED
  BY <1>10, <1>11 DEF C

(* The variables of both parties keep their types: masks are only ever read from arrays
   that hold as many as are read, and every index in a result is an element's. *)
THEOREM TypeCorrect == Spec => []TypeOK
<1> QED
  BY Invariance, Types, PTL

(* exchange_information stops every run in which the two command lines differ in the
   protocol or in the length of an element, in whichever order the two processes come
   to their assertions. *)
THEOREM ParametersAreAgreed == Spec => []ParametersAgree
<1> QED
  BY Invariance, Agreement, PTL

(* What snd_and_rcv brings back from the server is in the order in which the client has
   sent it, whatever the sender thread and the receiving caller do in between. *)
THEOREM MasksAreLinedUp == Spec => []MasksLineUp
<1> QED
  BY Invariance, LinedUp, PTL

(* Both protocols give the intersection, sorted and without repetition, or its size. *)
THEOREM ResultIsExact == Spec => []ResultExact
<1> QED
  BY Invariance, Exact, PTL

================================================================================
