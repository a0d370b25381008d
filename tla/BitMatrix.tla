------------------------------- MODULE BitMatrix -------------------------------
(***************************************************************************)
(* The bit matrices of the OT extension: CBitVector seen as rows * columns *)
(* bits, and CBitVector::EklundhBitTranspose, which transposes in place by *)
(* swaps inside and between machine registers                              *)
(* (src/util/cbitvector.cpp:586).                                          *)
(*                                                                         *)
(* A matrix is a function on 0 .. rows * columns - 1: what is at a bit, in *)
(* the order of CBitVector::GetBit, the most significant bit of a byte     *)
(* first.  A register reads bytes in little-endian order, so its lane s is *)
(* bit s % 8 of byte s \div 8, counted from the least significant one.     *)
(* Bytes of ByteBits bits and registers of RegBytes bytes stand for those  *)
(* of 8 bits and 8 bytes.                                                  *)
(***************************************************************************)
EXTENDS TaskPartition

CONSTANTS
  ByteBits,     \* bits of a byte
  RegBytes      \* sizeof(REGISTER_SIZE)

ASSUME WidthsOK ==
  /\ \E k \in 1 .. 3 : ByteBits = Power(k)
  /\ \E k \in 0 .. 3 : RegBytes = Power(k)

RegBits == ByteBits * RegBytes

LOG2_REGISTER_SIZE == floor_log2(RegBits)

(* The register and the lane that hold the bit at idx, and back. *)
Register(idx) == idx \div RegBits

Lane(idx) ==
  ((idx % RegBits) \div ByteBits) * ByteBits + ByteBits - 1 - (idx % ByteBits)

BitIdx(r, lane) ==
  r * RegBits + (lane \div ByteBits) * ByteBits + ByteBits - 1 - (lane % ByteBits)

(* The registers of a row. *)
Offset(columns) == columns \div RegBits

(* The registers that the rounds of level i reach. *)
Reached(rows, columns, i) ==
  0 .. (rows \div Power(i + 1)) * 2 * Offset(columns) * Power(i) - 1

(* One level of the first loop.  The registers rowaptr and rowbptr, destidx apart,
   exchange the lanes of one against those of the other that are srcidx away; the
   lanes that rowaptr keeps are the upper ones inside of a byte, where the order of
   lanes is not that of bits, and the lower ones from the fourth level on. *)
SwapLanes(m, rows, columns, i) ==
  LET srcidx == Power(i)
      destidx == Offset(columns) * srcidx
      reached == Reached(rows, columns, i)
      isA(r) == (r \div destidx) % 2 = 0
      inMask(s) == (s \div srcidx) % 2 = 0
      kept(r, s) == IF srcidx >= ByteBits THEN isA(r) <=> inMask(s)
                                          ELSE isA(r) <=> ~ inMask(s)
  IN [idx \in DOMAIN m |->
        LET r == Register(idx)
            s == Lane(idx)
        IN IF r \notin reached \/ kept(r, s) THEN m[idx]
           ELSE m[BitIdx(IF isA(r) THEN r + destidx ELSE r - destidx,
                         IF inMask(s) THEN s + srcidx ELSE s - srcidx)]]

(* One level of the second loop, which swaps whole registers. *)
SwapRegisters(m, rows, columns, i) ==
  LET destidx == Offset(columns) * Power(i)
      reached == Reached(rows, columns, i)
      swapoffset == Power(i - LOG2_REGISTER_SIZE)
      upper(p) == p % (2 * swapoffset) >= swapoffset
      from(r) ==
        LET q == r % (2 * destidx)
        IN IF q < destidx /\ upper(q) THEN r + destidx - swapoffset
           ELSE IF q >= destidx /\ ~ upper(q - destidx) THEN r - destidx + swapoffset
           ELSE r
  IN [idx \in DOMAIN m |->
        IF Register(idx) \notin reached THEN m[idx]
        ELSE m[BitIdx(from(Register(idx)), Lane(idx))]]

(* The copy at the end for a matrix that is wider than high: its square blocks, which
   are transposed where they stood, are put one below the other. *)
StackBlocks(m, rows, columns) ==
  LET width == rows \div RegBits
  IN IF columns <= rows THEN m
     ELSE [idx \in DOMAIN m |->
             LET r == Register(idx)
                 i == r \div (width * rows)
                 j == (r \div width) % rows
             IN m[BitIdx(j * Offset(columns) + i * width + (r % width), Lane(idx))]]

EklundhBitTranspose(m, rows, columns) ==
  LET levels == Greater(ceil_log2(rows), LOG2_REGISTER_SIZE)
      after[i \in 0 .. levels] ==
        IF i = 0 THEN m
        ELSE IF i <= LOG2_REGISTER_SIZE THEN SwapLanes(after[i - 1], rows, columns, i - 1)
        ELSE SwapRegisters(after[i - 1], rows, columns, i - 1)
  IN StackBlocks(after[levels], rows, columns)

(* What is promised: rows and columns change places. *)
Transposed(m, rows, columns) ==
  [idx \in DOMAIN m |-> m[(idx % rows) * columns + idx \div rows]]

(* Matrices of the given sizes are transposed.  The bits are told apart by where they
   come from, so one matrix of each size decides for all. *)
TransposesAll(sizes) ==
  \A s \in sizes :
    LET m == [idx \in 0 .. s[1] * s[2] - 1 |-> idx]
    IN EklundhBitTranspose(m, s[1], s[2]) = Transposed(m, s[1], s[2])
================================================================================
