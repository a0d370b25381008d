----------------------------- MODULE MCCuckooHashing -----------------------------
(***************************************************************************)
(* Four elements and ceil(1.2 * 4) = 5 bins: the client's epsilon is 1.2.  *)
(***************************************************************************)
EXTENDS CuckooHashing

Triple(a, b, c) == [i \in 0 .. 2 |-> IF i = 0 THEN a ELSE IF i = 1 THEN b ELSE c]

(* Triples that repeat a bin, that crowd into bins 0..2, in several orders, and
   that reach the other bins. *)
MCHashes == {Triple(0, 0, 0), Triple(0, 0, 1), Triple(0, 1, 2), Triple(2, 1, 0),
             Triple(1, 1, 2), Triple(2, 3, 2)}

(* With six threads the last two start beyond the end of the set. *)
MCTaskCounts == {1, 3, 6}
================================================================================
