-------------------------------- MODULE MCOTPSI --------------------------------
(***************************************************************************)
(* Two elements on each side, and so three bins.  Bytes have four bits and *)
(* words two bytes: the address takes two bits of the word, R the other    *)
(* six, of which the tables of 64 entries tell five apart.                 *)
(***************************************************************************)
EXTENDS OTPSI

(* The set of the given numbers, as elements of n bytes. *)
MCSet(n, s) ==
  [bytelen |-> n, beyond |-> 5,
   eles |-> [i \in 0 .. Len(s) - 1 |-> [k \in 1 .. n |-> (s[i + 1] \div 16^(k - 1)) % 16]]]

Sets(n, s, t) == [client |-> MCSet(n, s), server |-> MCSet(n, t)]

(* Elements of a word: one in common; both, in another order; both, of which the last
   table sends the two into one bin; 8 and 11 have the same R; 2 has the R of a
   dummy. *)
MCWordInputs ==
  {Sets(2, <<18, 69>>, <<40, 18>>), Sets(2, <<18, 69>>, <<69, 18>>),
   Sets(2, <<18, 70>>, <<18, 70>>),
   Sets(2, <<8, 69>>, <<11, 69>>), Sets(2, <<2, 200>>, <<70, 200>>)}

(* Elements of one byte and of three, which differ in the erased bit or do not. *)
MCInputs ==
  MCWordInputs \cup
  {Sets(1, <<3, 9>>, <<9, 12>>),
   Sets(3, <<1024 + 18, 512 + 69>>, <<1024 + 18, 1024 + 69>>),
   Sets(3, <<2048 + 18, 512 + 69>>, <<18, 512 + 69>>)}

(* 13 elements, for which there are 16 bins; one of them is the server's last element. *)
MCBoundaryInputs ==
  {Sets(3, [i \in 1 .. 13 |-> 256 * i + 17 * i + 5], <<256 * 3 + 17 * 3 + 5>>)}

MCTable(a, b, c) ==
  [k \in 0 .. 2 |-> [r \in 0 .. 63 |->
     IF k = 0 THEN (a * r) % 256 ELSE IF k = 1 THEN (b * r + 1) % 256 ELSE (c * r + 2) % 256]]

MCOneTable == {MCTable(3, 2, 11)}

(* With the last table every element has one address under all hash functions. *)
MCTables == {MCTable(1, 5, 7), MCTable(3, 2, 11), [k \in 0 .. 2 |-> [r \in 0 .. 63 |-> 0]]}

Lookup(l, w) == [long |-> l, words |-> w]

MCExactLookups == {Lookup(FALSE, 0)}

MCLookups == {Lookup(FALSE, 0), Lookup(FALSE, 2), Lookup(TRUE, 2)}
================================================================================
