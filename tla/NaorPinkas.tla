------------------------------- MODULE NaorPinkas -------------------------------
(***************************************************************************)
(* The base OTs of the OT extension (src/util/ot/naor-pinkas.cpp) and the  *)
(* keys made of them (NPBaseOTReceiver, NPBaseOTSender, InitAESKey).  The  *)
(* extension's sender, the SERVER, is the receiver here and has the choice *)
(* bits U; its receiver, the CLIENT, gets both keys of each base OT.       *)
(*                                                                         *)
(* A group element is the exponent it has over the generator, modulo       *)
(* Order: set_pow multiplies, set_div subtracts.  A hash is the exponent   *)
(* it is computed from with the number of the base OT.                     *)
(***************************************************************************)
EXTENDS CommonSeed

CONSTANTS
  CodeWordBits,     \* m_nCodeWordBits, the number of base OTs
  Order             \* the order of the group

ASSUME GroupOK == CodeWordBits \in Nat \ {0} /\ Order \in Nat \ {0}

(* The random values of an instance: alpha, the exponent tmp of the second point, the
   receiver's exponents pK, and its choices. *)
ASSUME RandomsOK ==
  \A i \in Instances :
    /\ i.alpha \in 1 .. Order - 1 /\ i.tmp \in 1 .. Order - 1
    /\ i.pK \in [0 .. CodeWordBits - 1 -> 0 .. Order - 1]
    /\ i.U \subseteq 0 .. CodeWordBits - 1

VARIABLES
  keySeeds,         \* m_vKeySeeds of the server: the AES key of each base OT
  keySeedMtx        \* m_vKeySeedMtx of the client: the keys 2k and 2k + 1 of base OT k

BaseOTs == 0 .. CodeWordBits - 1

Pow(x, e) == (x * e) % Order

Div(x, y) == (x - y) % Order

(* The points C_0 = g^alpha and C_1. *)
SendPoints ==
  /\ main[CLIENT] = "base"
  /\ chan' = [chan EXCEPT ![SERVER][0] = @ \o <<inst.alpha, inst.tmp>>]
  /\ main' = [main EXCEPT ![CLIENT] = "keys"]
  /\ UNCHANGED <<inst, prfKey, keySeeds, keySeedMtx>>

(* Without regard to the choice. *)
PK0Plain(C, k) == inst.pK[k]

PK0(C, k) == IF k \in inst.U THEN Div(C[2], inst.pK[k]) ELSE inst.pK[k]

(* Word w of the hash of exponent e in base OT k, a number that tells all three. *)
HashWord(e, k, w) == (k * Order + e) * 4 + w

(* What the chunks of hash output leave in keybytes, word by word; a chunk is cut to
   the bytes of a key. *)
KeyStream(dlog, chunkOT, n) ==
  [w \in 0 .. n * KeyWords - 1 |->
     HashWord(dlog[w \div KeyWords], chunkOT[w \div KeyWords], w % KeyWords)]

(* The i-th key that InitAESKey sets up: the pointer advances by AES_BYTES, which is
   two words, whatever the length of a key. *)
AESKey(stream, i) == [w \in 1 .. AesWords |-> stream[i * 2 + w - 1]]

AnswerPoints ==
  /\ main[SERVER] = "base"
  /\ Len(chan[SERVER][0]) >= 2
  /\ LET C == SubSeq(chan[SERVER][0], 1, 2)
         dec == [k \in BaseOTs |-> Pow(C[1], inst.pK[k])]
         stream == KeyStream(dec, [k \in BaseOTs |-> k], CodeWordBits)
     IN /\ chan' = [chan EXCEPT ![SERVER][0] = SubSeq(@, 3, Len(@)),
                                ![CLIENT][0] = @ \o [k \in 1 .. CodeWordBits |-> PK0(C, k - 1)]]
        /\ keySeeds' = [k \in BaseOTs |-> AESKey(stream, k)]
  /\ main' = [main EXCEPT ![SERVER] = "create"]
  /\ UNCHANGED <<inst, prfKey, keySeedMtx>>

(* The two hashes of each base OT: PK0^alpha, and C_1^alpha over it. *)
ReceiveKeys ==
  /\ main[CLIENT] = "keys"
  /\ Len(chan[CLIENT][0]) >= CodeWordBits
  /\ LET PK0r(k) == Pow(chan[CLIENT][0][k + 1], inst.alpha)
         dlog == [c \in 0 .. 2 * CodeWordBits - 1 |->
                    IF c % 2 = 0 THEN PK0r(c \div 2)
                    ELSE Div(Pow(inst.tmp, inst.alpha), PK0r(c \div 2))]
         stream == KeyStream(dlog, [c \in 0 .. 2 * CodeWordBits - 1 |-> c \div 2],
                             2 * CodeWordBits)
     IN keySeedMtx' = [c \in 0 .. 2 * CodeWordBits - 1 |-> AESKey(stream, c)]
  /\ chan' = [chan EXCEPT ![CLIENT][0] = SubSeq(@, CodeWordBits + 1, Len(@))]
  /\ main' = [main EXCEPT ![CLIENT] = "create"]
  /\ UNCHANGED <<inst, prfKey, keySeeds>>

BaseInit ==
  /\ SeedInit
  /\ keySeeds = <<>>
  /\ keySeedMtx = <<>>

BaseNext ==
  \/ SeedNext /\ UNCHANGED <<keySeeds, keySeedMtx>>
  \/ SendPoints
  \/ AnswerPoints
  \/ ReceiveKeys

(* The server's key of base OT k is the client's key for its choice. *)
SameKey(k) == keySeeds[k] = keySeedMtx[2 * k + (IF k \in inst.U THEN 1 ELSE 0)]

(* The exponents of the two elements that the client hashes for base OT k. *)
Candidates(k) ==
  LET P == Pow(PK0(<<inst.alpha, inst.tmp>>, k), inst.alpha)
  IN <<P, Div(Pow(inst.tmp, inst.alpha), P)>>

(* When both have their keys, every base OT has the same on both sides at the levels whose
   keys have AES_BYTES bytes.  At the higher levels one has not, unless the two elements
   coincide: there a key begins within the bytes of another, but elsewhere on each side. *)
ChosenKeys ==
  keySeeds # <<>> /\ keySeedMtx # <<>> =>
     IF Level <= 128 THEN \A k \in BaseOTs : SameKey(k)
     ELSE CodeWordBits >= 2 /\ Candidates(0)[1] # Candidates(0)[2]
            => \E k \in BaseOTs : ~SameKey(k)

(* What the two parties share when they begin the extension. *)
SharedKeysAgree == SeedsAgree /\ ChosenKeys
================================================================================
