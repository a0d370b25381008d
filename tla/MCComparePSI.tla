------------------------------ MODULE MCComparePSI ------------------------------
(***************************************************************************)
(* Sets of at most two elements, of which none, one or both are common, an *)
(* empty set, and buffers that hold one mask.                              *)
(***************************************************************************)
EXTENDS ComparePSI

CONSTANTS a, b, c

MCElement == {a, b, c}

MCArray(s) == [i \in 0 .. Len(s) - 1 |-> s[i + 1]]

Pair(s, t) == [r \in Role |-> IF r = SERVER THEN MCArray(s) ELSE MCArray(t)]

MCInputs == {Pair(<<a, b>>, <<c, a>>), Pair(<<a, b>>, <<b, a>>),
             Pair(<<b, a>>, <<c>>), Pair(<<a>>, <<c, a>>), Pair(<<>>, <<b>>)}

Options(p, n, y) == [protocol |-> p, bytelen |-> n, cardinality |-> y]

Both(o, q) == [r \in Role |-> IF r = SERVER THEN o ELSE q]

(* The protocols, -y on one side only or on both, and command lines that differ
   in the protocol or in the element length. *)
MCSettings ==
  {Both(Options(NAIVE, 4, FALSE), Options(NAIVE, 4, FALSE)),
   Both(Options(DH_ECC, 4, FALSE), Options(DH_ECC, 4, TRUE)),
   Both(Options(DH_ECC, 4, TRUE), Options(DH_ECC, 4, FALSE)),
   Both(Options(NAIVE, 4, FALSE), Options(DH_ECC, 4, FALSE)),
   Both(Options(NAIVE, 4, FALSE), Options(NAIVE, 8, FALSE))}

(* Low words that tell all elements apart, and some that do not. *)
MCLowFns == {[e \in MCElement |-> IF e = a THEN 0 ELSE IF e = b THEN 1 ELSE 2],
             [e \in MCElement |-> IF e = c THEN 1 ELSE 0],
             [e \in MCElement |-> IF e = a THEN 1 ELSE 0],
             [e \in MCElement |-> 0]}
================================================================================
