----------------------------- MODULE TaskPartition -----------------------------
(***************************************************************************)
(* How OPEN-PSI splits n elements over k worker threads, with the integer  *)
(* operations of src/util/typedefs.h that the other modules use, too.      *)
(*                                                                         *)
(* cuckoo_hashing, simple_hashing and run_task all give thread t the chunk *)
(* that starts at t * ceil_divide(n, k), of ceil_divide(n, k) elements,    *)
(* cut off at n.  The first two compute the start as a product; run_task   *)
(* adds up the lengths of the chunks already given out.                    *)
(***************************************************************************)
EXTENDS Integers, FiniteSets

(* The macro ceil_divide of typedefs.h. *)
CeilDivide(x, y) == IF x > 0 THEN ((x - 1) \div y) + 1 ELSE 0

Lesser(x, y) == IF x < y THEN x ELSE y

Greater(x, y) == IF x > y THEN x ELSE y

(* 2^n, what a shift of n bits multiplies by.  TLAPS knows nothing of the operator ^. *)
Power(n) ==
  LET power[k \in 0 .. n] == IF k = 0 THEN 1 ELSE 2 * power[k - 1]
  IN power[n]

(* ceil_log2 and floor_log2 of typedefs.h for an int n: the least k with 2^k >= n and
   the greatest with 2^k <= n, but both are 1 for n = 1. *)
ceil_log2(n) == IF n = 1 THEN 1 ELSE Cardinality({k \in 0 .. Lesser(n, 30) : Power(k) < n})

floor_log2(n) == IF n = 1 THEN 1 ELSE Cardinality({k \in 1 .. Lesser(n, 30) : Power(k) <= n})

(* ctx[t].startpos and ctx[t].endpos of cuckoo_hashing and simple_hashing.
   With more threads than chunks the last threads get endpos < startpos:
   their loop body never runs. *)
StartPos(t, n, k) == t * CeilDivide(n, k)

(* An end that is not cut off. *)
EndPosUncut(t, n, k) == StartPos(t, n, k) + CeilDivide(n, k)

EndPos(t, n, k) == Lesser(StartPos(t, n, k) + CeilDivide(n, k), n)

(* The elements that the loop of thread t goes through. *)
Chunk(t, n, k) == StartPos(t, n, k) .. (EndPos(t, n, k) - 1)

(* startelement of run_task: electr after t rounds of
   electr += min(nelements - electr, neles_thread). *)
StartElement(t, n, k) == Lesser(StartPos(t, n, k), n)

(* nelements that run_task gives to thread t. *)
NElements(t, n, k) == Lesser(n - StartElement(t, n, k), CeilDivide(n, k))
================================================================================
