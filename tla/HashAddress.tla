------------------------------ MODULE HashAddress ------------------------------
(***************************************************************************)
(* hashElement of src/hashing/hashing_util.h: the bins of an element, and  *)
(* the value that is stored in them in its place.                          *)
(*                                                                         *)
(* The first word of the element is cut into L and R.  Each hash function  *)
(* permutes L by a random word that it looks up under R, and the value is  *)
(* R with the remaining bytes of the element behind it.  The lengths are   *)
(* parameters: the code has ByteBits = 8, WordBytes = 4, TableRows = 2^16. *)
(*                                                                         *)
(* A set in memory is a record: its elements, as sequences of bytes, their *)
(* length, and the byte that is found behind the array.                    *)
(***************************************************************************)
EXTENDS Integers, Sequences, TaskPartition

CONSTANTS
  ByteBits,     \* bits of a byte
  WordBytes,    \* bytes of a uint32_t
  TableRows     \* entries of a table of random words, 2^(8 * sizeof(TABLEID_T))

ASSUME HashAddressOK ==
  /\ ByteBits \in Nat /\ ByteBits >= 2
  /\ WordBytes \in Nat \ {0}
  /\ TableRows \in Nat \ {0}

HFs == 0 .. 2

WordBits == ByteBits * WordBytes

(* The sum of the first n numbers of a. *)
Sum(a, n) ==
  LET sum[c \in 0 .. n] == IF c = 0 THEN 0 ELSE sum[c - 1] + a[c - 1]
  IN sum[n]

Byte == 0 .. Power(ByteBits) - 1

(***************************************************************************)
(* init_hashing_state, for elements of n bytes.                            *)
(***************************************************************************)

addrbitlen(n, nbins) == Lesser(ceil_log2(nbins), ByteBits * n)

floor_addrbitlen(n, nbins) == Lesser(floor_log2(nbins), ByteBits * n)

outbitlen(n, nbins) == ByteBits * n - addrbitlen(n, nbins) + 1

outbytelen(n, nbins) == CeilDivide(outbitlen(n, nbins), ByteBits)

(* The bits that hs->mask keeps for elements of less than a word.  The number of bits to
   shift by is unsigned, and a shift takes it modulo the width of the word (x86): when
   the element and the address have more bits than a word together, hardly any are left. *)
maskbitlen(n, nbins) ==
  WordBits - ((WordBits - ByteBits * n - addrbitlen(n, nbins)) % WordBits)

(***************************************************************************)
(* Memory.                                                                 *)
(***************************************************************************)

(* A set of elements in memory. *)
SetInMemory(mem, places) ==
  /\ mem.bytelen \in Nat \ {0}
  /\ mem.eles \in [places -> [1 .. mem.bytelen -> Byte]]
  /\ \A i, j \in places : mem.eles[i] = mem.eles[j] => i = j
  /\ mem.beyond \in Byte

(* The byte at an offset from the start of the array. *)
ByteAt(mem, offset) ==
  LET i == offset \div mem.bytelen
  IN IF i \in DOMAIN mem.eles THEN mem.eles[i][(offset % mem.bytelen) + 1] ELSE mem.beyond

(* The number that n bytes stand for, the lowest first. *)
Number(bytes, n) == Sum([k \in 0 .. n - 1 |-> bytes[k] * Power(ByteBits * k)], n)

(* The word that is read through a pointer to element i.  It is longer than the
   element if that has less than four bytes. *)
Word(mem, i) ==
  Number([k \in 0 .. WordBytes - 1 |-> ByteAt(mem, i * mem.bytelen + k)], WordBytes)

Xor(x, y) ==
  Sum([k \in 0 .. WordBits - 1 |-> Power(k) * (((x \div Power(k)) + (y \div Power(k))) % 2)],
      WordBits)

(***************************************************************************)
(* hashElement.                                                            *)
(***************************************************************************)

L(mem, nbins, i) == Word(mem, i) % Power(addrbitlen(mem.bytelen, nbins))

(* The rest of the word; hs->mask cuts it for short elements only. *)
R(mem, nbins, i) ==
  LET rest == Word(mem, i) \div Power(addrbitlen(mem.bytelen, nbins))
  IN IF mem.bytelen < WordBytes
     THEN rest % Power(maskbitlen(mem.bytelen, nbins))
     ELSE rest

(* hfmaskaddr has the width of a TABLEID_T. *)
Row(r) == (r * WordBytes) % TableRows

(* address[k], with the tables hf of random words. *)
Address(mem, hf, nbins, i) ==
  [k \in HFs |-> Xor(L(mem, nbins, i), hf[k][Row(R(mem, nbins, i))]) % nbins]

(* Where the bytes behind the first word go in val: R has lost whole bytes to L. *)
RestOffset(n, nbins) == WordBytes - floor_addrbitlen(n, nbins) \div ByteBits

(* The top bits that are erased in the last byte, BYTE_SELECT_BITS_INV[outbitlen & 3]. *)
Erased(n, nbins) == outbitlen(n, nbins) % (ByteBits \div 2)

(* The outbytelen bytes of val that both tables copy. *)
ValueByte(mem, nbins, i, p) ==
  LET n == mem.bytelen
      off == RestOffset(n, nbins)
      byte == IF n > WordBytes /\ p >= off
              THEN ByteAt(mem, i * n + WordBytes + (p - off))
              ELSE (R(mem, nbins, i) \div Power(ByteBits * p)) % Power(ByteBits)
  IN IF n > WordBytes /\ p = outbytelen(n, nbins) - 1
     THEN byte % Power(ByteBits - Erased(n, nbins))
     ELSE byte

Value(mem, nbins, i) ==
  LET n == outbytelen(mem.bytelen, nbins)
  IN Number([p \in 0 .. n - 1 |-> ValueByte(mem, nbins, i, p)], n)
================================================================================
