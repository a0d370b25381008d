-------------------------------- MODULE FuzzyPSI --------------------------------
(***************************************************************************)
(* The fuzzy matching of cpet_psi: a sender's and a receiver's vector      *)
(* match when they are closer than a threshold (src/cpet_psi/fpsi.cpp).    *)
(*                                                                         *)
(* From an inner product under homomorphic encryption, masked by a random  *)
(* number, the sender gets a range and the receiver a value that is in it  *)
(* when the vectors are close.  Range and value turn into sets of binary   *)
(* strings with a wild card at their end (DASetAug), which are compared:   *)
(* the sender's from a trie that merges pairs of siblings.                 *)
(*                                                                         *)
(* A string s****, and a node of the trie, is the sequence of bits s.  The *)
(* encryption is external: decryption gives the coefficients of the        *)
(* polynomial that was computed, and noise_flooding does not change them.  *)
(***************************************************************************)
EXTENDS Integers, Sequences, FiniteSets, SequencesExt

CONSTANTS
  MAXBITLEN,    \* length of the binary strings
  Modulus,      \* the plaintext modulus
  Inputs        \* records of the two vectors, a and b, and the threshold d

Bit == {0, 1}

ASSUME FuzzyOK ==
  /\ Modulus % 2 = 1 /\ 2 < Modulus /\ Modulus < 2^MAXBITLEN
  /\ \A in \in Inputs :
       /\ Len(in.a) = Len(in.b)
       /\ in.d > 0 /\ 2 * in.d * in.d < Modulus

VARIABLES
  in,        \* the vectors and the threshold
  random,    \* the last of the receiver's random numbers; the others are not read
  pc,        \* where FuzzyPSI is
  range,     \* sender_range_
  value,     \* receiver_value_
  cnum,      \* loop variable of genRepStringA
  nodes,     \* the nodes of the trie, without the root
  dcb,       \* the nodes with a don't-care bit
  idx,       \* loop variable idx of genRepStrVec
  cs,        \* the characters and the node that genRepStrVec is at
  oset,      \* the strings that it has put out
  match      \* whether the receiver's data are returned

vars == <<in, random, pc, range, value, cnum, nodes, dcb, idx, cs, oset, match>>

trieVars == <<nodes, dcb, idx, cs, oset>>

-----------------------------------------------------------------------------
(* The remainder of C++, with the sign of v. *)
Rem(v, m) == IF v >= 0 THEN v % m ELSE -((-v) % m)

(* The remainder is left as it is. *)
centered_not(v, m) == Rem(v, m)

centered_modulus(v, m) ==
  LET r == Rem(v, m) IN
  IF r > m \div 2 THEN r - m ELSE IF r < -(m \div 2) THEN r + m ELSE r

Centered == -(Modulus \div 2) .. (Modulus \div 2)

(* What random_Zp returns, as a signed number. *)
RandomZp == -(Modulus \div 2) .. (Modulus - 1 - (Modulus \div 2))

Total(s) == FoldLeft(+, 0, s)

(* l_p_distance_, a sum of squares. *)
Squares(v) == Total([i \in DOMAIN v |-> v[i] * v[i]])

(* Receiver::encode: the vector backwards, times -2. *)
Encoded(v) == [i \in DOMAIN v |-> -2 * v[Len(v) + 1 - i]]

(* The coefficient of x^(k-1) in the product modulo x^n + 1 of two polynomials with n
   coefficients. *)
ProductAt(u, v, k) ==
  LET n == Len(u)
      term(i) == IF i <= k THEN u[i] * v[k + 1 - i] ELSE -(u[i] * v[n + k + 1 - i])
  IN Total([i \in 1 .. n |-> term(i)])

(* The last coefficient that the sender decrypts. *)
Decrypted == centered_modulus(ProductAt(in.a, Encoded(in.b), Len(in.a)) + random, Modulus)

-----------------------------------------------------------------------------
(* intToBinary. *)
Bits(x) == [i \in 1 .. MAXBITLEN |-> (x \div 2^(MAXBITLEN - i)) % 2]

Upto(s, k) == SubSeq(s, 1, k)

Sibling(s) == [s EXCEPT ![Len(s)] = 1 - @]

(* The numbers that the string s stands for. *)
Covered(s) ==
  LET first == FoldLeft(LAMBDA x, c : 2 * x + c, 0, s) * 2^(MAXBITLEN - Len(s)) IN
  first .. first + 2^(MAXBITLEN - Len(s)) - 1

(* Where insert stops going down: at a node with a don't-care bit, or at the end. *)
Depth(s) ==
  LET stops == {k \in 1 .. MAXBITLEN : k = MAXBITLEN \/ Upto(s, k) \in dcb} IN
  CHOOSE k \in stops : \A j \in stops : k <= j

(* One merge only, not up to the root. *)
MergedDepthOnce(s, k) == IF k > 1 /\ Sibling(Upto(s, k)) \in dcb THEN k - 1 ELSE k

(* From depth k upwards, both children of a node have a don't-care bit, up to here. *)
MergedDepth(s, k) ==
  LET tops == {m \in 1 .. k : \A j \in m + 1 .. k : Sibling(Upto(s, j)) \in dcb} IN
  CHOOSE m \in tops : \A j \in tops : m <= j

Below(n) == {m \in nodes : IsPrefix(n, m)}

(* Trie::insert with setDCBTrue and deleteNode: the path to s, cut where siblings merge. *)
Insert(s) ==
  LET leaf == Upto(s, MergedDepth(s, Depth(s)))
      path == {Upto(s, k) : k \in 1 .. Len(leaf)}
  IN /\ nodes' = (nodes \ Below(leaf)) \cup path
     /\ dcb' = (dcb \ Below(leaf)) \cup {leaf}

(* One wild card less. *)
StarsLess(thres) == {k \in 0 .. MAXBITLEN : 2^k <= thres - 1}

(* genRepStringB: the numbers of wild cards it puts, for the square of the threshold.  The
   first character it replaces is the terminator, at MAXBITLEN, which leaves the string as
   it is: no wild card. *)
Stars(thres) == {k \in 0 .. MAXBITLEN : 2^k <= 2 * thres - 1}

genRepStringB(iset, thres) == {Upto(Bits(iset), MAXBITLEN - k) : k \in Stars(thres)}

-----------------------------------------------------------------------------
Init ==
  /\ in \in Inputs
  /\ random \in RandomZp
  /\ pc = "distribute"
  /\ range = <<0, 0>>
  /\ value = 0
  /\ cnum = 0
  /\ nodes = {}
  /\ dcb = {}
  /\ idx = 0
  /\ cs = <<>>
  /\ oset = {}
  /\ match = FALSE

(* distribute, with get_psi_value and get_psi_range. *)
Distribute ==
  LET top == Squares(in.a) + Decrypted
      start == centered_modulus(top - in.d * in.d, Modulus)
      end == centered_modulus(top + 1, Modulus)
  IN /\ pc = "distribute"
     /\ value' = centered_modulus(-Squares(in.b) + random, Modulus)
     /\ range' = <<start, end>>
     /\ cnum' = start + Modulus \div 2 + 1
     /\ pc' = IF start > end THEN "done" ELSE "insert"
     /\ UNCHANGED <<in, random, match, trieVars>>

(* The end of the range, made unsigned. *)
UnsignedEnd == range[2] + Modulus \div 2

(* A round of genRepStringA. *)
InsertNext ==
  /\ pc = "insert"
  /\ cnum < UnsignedEnd
  /\ Insert(Bits(cnum))
  /\ cnum' = cnum + 1
  /\ UNCHANGED <<in, random, pc, range, value, idx, cs, oset, match>>

InsertDone ==
  /\ pc = "insert"
  /\ cnum >= UnsignedEnd
  /\ pc' = "strings"
  /\ UNCHANGED <<in, random, range, value, cnum, trieVars, match>>

otherVars == <<in, random, pc, range, value, cnum, match>>

(* genRepStrVec takes the next child of the root, if there is one. *)
EnterChild ==
  /\ pc = "strings"
  /\ cs = <<>>
  /\ idx <= 1
  /\ idx' = idx + 1
  /\ cs' = IF <<idx>> \in nodes THEN <<idx>> ELSE <<>>
  /\ UNCHANGED <<otherVars, nodes, dcb, oset>>

IsLeaf(n) == n \in dcb \/ Len(n) = MAXBITLEN

(* The current node is deleted, its parent is next. *)
Leave ==
  /\ nodes' = nodes \ Below(cs)
  /\ dcb' = dcb \ Below(cs)
  /\ cs' = Front(cs)
  /\ UNCHANGED <<otherVars, idx>>

PutOut ==
  /\ pc = "strings"
  /\ cs # <<>>
  /\ IsLeaf(cs)
  /\ oset' = oset \cup {cs}
  /\ Leave

(* To the first child that there is. *)
Descend ==
  /\ pc = "strings"
  /\ cs # <<>>
  /\ ~IsLeaf(cs)
  /\ \E c \in Bit : Append(cs, c) \in nodes
  /\ cs' = Append(cs, IF Append(cs, 0) \in nodes THEN 0 ELSE 1)
  /\ UNCHANGED <<otherVars, nodes, dcb, idx, oset>>

Ascend ==
  /\ pc = "strings"
  /\ cs # <<>>
  /\ ~IsLeaf(cs)
  /\ \A c \in Bit : Append(cs, c) \notin nodes
  /\ UNCHANGED oset
  /\ Leave

(* The comparison of fuzzy_fast_one_to_one_matching. *)
Compare ==
  /\ pc = "strings"
  /\ cs = <<>>
  /\ idx > 1
  /\ match' = (oset \cap genRepStringB(value + Modulus \div 2, in.d * in.d) # {})
  /\ pc' = "done"
  /\ UNCHANGED <<in, random, range, value, cnum, trieVars>>

Done == pc = "done" /\ UNCHANGED vars

Next ==
  \/ Distribute \/ InsertNext \/ InsertDone
  \/ EnterChild \/ PutOut \/ Descend \/ Ascend
  \/ Compare \/ Done

Spec == Init /\ [][Next]_vars

-----------------------------------------------------------------------------
(* The state has its types: numbers are centered, so that they are not negative once half
   of the modulus is added, every node of the trie has its path, and nothing hangs below
   a don't-care bit. *)
TypeOK ==
  /\ in \in Inputs
  /\ pc \in {"distribute", "insert", "strings", "done"}
  /\ random \in Centered /\ value \in Centered
  /\ range \in Centered \X Centered
  /\ cnum \in 0 .. Modulus
  /\ \A n \in nodes \cup oset : n \in Seq(Bit) /\ Len(n) \in 1 .. MAXBITLEN
  /\ \A n \in nodes : Len(n) > 1 => Front(n) \in nodes
  /\ dcb \subseteq nodes
  /\ \A n \in nodes : \A k \in 1 .. Len(n) - 1 : Upto(n, k) \notin dcb
  /\ cs = <<>> \/ cs \in nodes
  /\ match \in BOOLEAN

(* genRepStringA: at any time the strings put out and those left in the trie stand for the
   numbers of the range that were inserted, each by one string, whatever was merged and
   deleted, and no two siblings are left that one string could replace. *)
RepresentsRange ==
  LET strings == oset \cup dcb
      inserted == range[1] + Modulus \div 2 + 1 .. cnum - 1
  IN pc \in {"insert", "strings"} =>
       /\ UNION {Covered(s) : s \in strings} = inserted
       /\ \A s, t \in strings : s # t => Covered(s) \cap Covered(t) = {}
       /\ \A s \in strings : Sibling(s) \notin strings
       /\ oset \cap dcb = {}

(* The square of the Euclidean distance. *)
Distance == Total([i \in DOMAIN in.a |-> (in.a[i] - in.b[i]) * (in.a[i] - in.b[i])])

(* The end of the sender's range before it is made centered again: if the range around it
   leaves the centered numbers, the code gives up. *)
Wraps ==
  LET top == centered_modulus(Distance - Squares(in.b) + random, Modulus) IN
  top - in.d * in.d \notin Centered \/ top + 1 \notin Centered

(* The answer: a match exactly when the square of the distance, modulo the modulus, is less
   than the square of the threshold; and none when the range wraps around. *)
MatchExact ==
  pc = "done" => (match <=> ~Wraps /\ Distance % Modulus < in.d * in.d)
================================================================================
