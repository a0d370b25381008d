------------------------------- MODULE BitVector -------------------------------
(***************************************************************************)
(* Bytes and bits of a CBitVector (src/util/cbitvector.cpp): what the      *)
(* protocols copy and xor byte by byte, and the operations at any offset   *)
(* of bits, which put two bytes together by shifts and masks.              *)
(*                                                                         *)
(* A byte is the set of its bits that are one, and a shift moves them; &   *)
(* is \cap and | is \cup.  A vector is a function on the indices of its    *)
(* bytes.  Bytes of ByteBits bits and registers of RegBytes bytes stand    *)
(* for those of 8 bits and 8 bytes.                                        *)
(***************************************************************************)
EXTENDS Integers, FiniteSets

CONSTANTS ByteBits, RegBytes

Byte == 0 .. ByteBits - 1

Size(v) == Cardinality(DOMAIN v)

Left(b, k) == {n + k : n \in b} \cap Byte

Right(b, k) == {n - k : n \in b} \cap Byte

(* RESET_BIT_POSITIONS and RESET_BIT_POSITIONS_INV: the lowest and the highest k bits.
   GET_BIT_POSITIONS and its INV are what they leave out. *)
Low(k) == 0 .. k - 1

High(k) == ByteBits - k .. ByteBits - 1

(* The two ways to write a byte: over the bits that are not kept, or by exclusive or. *)
Written(how, old, kept, new) ==
  IF how = "set" THEN (old \cap kept) \cup new ELSE (old \ new) \cup (new \ old)

(***************************************************************************)
(* Bytes.                                                                  *)
(***************************************************************************)

(* The loop over registers, and the one over the bytes behind them. *)
ByRegisters(len) == 0 .. (len \div RegBytes) * RegBytes - 1

ByBytes(len) == (len \div RegBytes) * RegBytes .. (len \div RegBytes) * RegBytes + (len % RegBytes) - 1

(* Within the vector: beyond its end XORBytes ends the program, and SetBytes does not look. *)
PutBytes(how, v, p, pos, len) ==
  [i \in DOMAIN v |-> IF i - pos \in ByRegisters(len) \cup ByBytes(len)
                      THEN Written(how, v[i], {}, p[i - pos]) ELSE v[i]]

SetBytes(v, p, pos, len) == PutBytes("set", v, p, pos, len)

XORBytes(v, p, pos, len) == PutBytes("xor", v, p, pos, len)

GetBytes(v, pos, len) == [i \in ByRegisters(len) \cup ByBytes(len) |-> v[pos + i]]

(* A vector that is too short is made longer, with zeros behind. *)
Copy(v, p, pos, len) ==
  [i \in 0 .. (IF pos + len > Size(v) THEN pos + len ELSE Size(v)) - 1 |->
     IF i \in pos .. pos + len - 1 THEN p[i - pos]
     ELSE IF i \in DOMAIN v THEN v[i] ELSE {}]

(***************************************************************************)
(* Bits.                                                                   *)
(***************************************************************************)

(* Nothing is done for no bit, and for bits that the vector does not have. *)
OutOfRange(v, pos, len) == len < 1 \/ pos + len > Size(v) * ByteBits

Aligned(pos, len) == pos % ByteBits = 0 /\ len % ByteBits = 0

(* SetBitNoMask and XORBitNoMask. *)
PutBit(how, v, pos, b) ==
  LET n == pos % ByteBits
  IN [v EXCEPT ![pos \div ByteBits] = Written(how, @, Byte \ {n}, IF 0 \in b THEN {n} ELSE {})]

(* The loop over whole bytes of p, of which each ends up in two, and the bits behind
   them, in one byte or two. *)
PutBits(how, v, p, pos, len) ==
  LET lower == pos % ByteBits
      upper == ByteBits - lower
      whole == len \div ByteBits
      rem == len % ByteBits
      at(i) == pos \div ByteBits + i
      after[i \in 0 .. whole] ==
        IF i = 0 THEN v
        ELSE [after[i - 1] EXCEPT ![at(i - 1)] = Written(how, @, Low(lower), Left(p[i - 1], lower)),
                                  ![at(i)] = Written(how, @, High(upper), Right(p[i - 1], upper))]
      temp == p[whole] \cap Low(rem)
  IN IF rem = 0 THEN after[whole]
     ELSE IF rem <= upper
     THEN [after[whole] EXCEPT
             ![at(whole)] = Written(how, @, Byte \ Left(Low(rem), lower), Left(temp, lower))]
     ELSE [after[whole] EXCEPT
             ![at(whole)] = Written(how, @, Low(lower), Left(temp, lower)),
             ![at(whole + 1)] = Written(how, @, Byte \ Low(rem - upper), Right(temp, upper))]

ChangeBits(how, v, p, pos, len) ==
  IF OutOfRange(v, pos, len) THEN v
  ELSE IF len = 1 THEN PutBit(how, v, pos, p[0])
  ELSE IF Aligned(pos, len) THEN PutBytes(how, v, p, pos \div ByteBits, len \div ByteBits)
  ELSE PutBits(how, v, p, pos, len)

SetBits(v, p, pos, len) == ChangeBits("set", v, p, pos, len)

XORBits(v, p, pos, len) == ChangeBits("xor", v, p, pos, len)

(* The bytes that GetBits writes. *)
GetBits(v, pos, len) ==
  LET lower == pos % ByteBits
      upper == ByteBits - lower
      whole == len \div ByteBits
      rem == len % ByteBits
      at(i) == pos \div ByteBits + i
      both(i, b) == Right(v[at(i)] \ Low(lower), lower) \cup Left(b, upper)
      rest == IF rem <= upper THEN Right(v[at(whole)] \cap Left(Low(rem), lower), lower)
              ELSE both(whole, v[at(whole + 1)] \cap Low(rem - upper))
  IN IF OutOfRange(v, pos, len) THEN <<>>
     ELSE IF len = 1 THEN [i \in {0} |-> IF lower \in v[at(0)] THEN {0} ELSE {}]
     ELSE IF Aligned(pos, len) THEN GetBytes(v, at(0), whole)
     ELSE [i \in 0 .. (IF rem = 0 THEN whole - 1 ELSE whole) |->
             IF i = whole THEN rest ELSE both(i, v[at(i + 1)] \ High(upper))]

(***************************************************************************)
(* What is promised, bit by bit.                                           *)
(***************************************************************************)

Bit(v, j) == (j % ByteBits) \in v[j \div ByteBits]

Bits(v) == 0 .. Size(v) * ByteBits - 1

In(j, pos, len) == pos <= j /\ j < pos + len

(* The bits from pos on are those of p, or are xored with them, no other bit of v
   changes, and what is read is what is there, with zeros behind it. *)
Promised(v, p, pos, len) ==
  LET inside == pos + len <= Size(v) * ByteBits
      set == SetBits(v, p, pos, len)
      xored == XORBits(v, p, pos, len)
      got == GetBits(v, pos, len)
  IN /\ DOMAIN set = DOMAIN v /\ DOMAIN xored = DOMAIN v
     /\ \A j \in Bits(v) :
          LET touched == inside /\ In(j, pos, len) IN
          /\ Bit(set, j) = IF touched THEN Bit(p, j - pos) ELSE Bit(v, j)
          /\ Bit(xored, j) = (Bit(v, j) # (touched /\ Bit(p, j - pos)))
     /\ inside => Size(got) * ByteBits \in len .. len + ByteBits - 1
     /\ inside => \A j \in Bits(got) : Bit(got, j) = (j < len /\ Bit(v, pos + j))

(* The same for bytes; Copy also makes room. *)
BytesPromised(v, p, pos, len) ==
  /\ \A i \in pos .. pos + len - 1 : Copy(v, p, pos, len)[i] = p[i - pos]
  /\ \A i \in DOMAIN v \ (pos .. pos + len - 1) : Copy(v, p, pos, len)[i] = v[i]
  /\ pos + len <= Size(v) =>
       /\ SetBytes(v, p, pos, len) = Copy(v, p, pos, len)
       /\ GetBytes(SetBytes(v, p, pos, len), pos, len) = [i \in 0 .. len - 1 |-> p[i]]
       /\ XORBytes(XORBytes(v, p, pos, len), p, pos, len) = v

(* For vectors of n bytes all zeros or all ones, and data with one bit set, none or all:
   a bit of the result depends on at most one bit of each, so that these decide. *)
KeepsPromises(n) ==
  LET vectors == {[i \in 0 .. n - 1 |-> b] : b \in {{}, Byte}}
      data == vectors \cup {[i \in 0 .. n - 1 |-> IF i = k THEN {b} ELSE {}] :
                              k \in 0 .. n - 1, b \in Byte}
  IN \A v \in vectors, p \in data :
       /\ \A pos \in Bits(v), len \in 0 .. n * ByteBits : Promised(v, p, pos, len)
       /\ \A pos \in DOMAIN v, len \in 0 .. n : BytesPromised(v, p, pos, len)
================================================================================
