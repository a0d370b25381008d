----------------------------- MODULE MCSimpleHashing -----------------------------
(***************************************************************************)
(* Four elements in three bins.  One thread that meets the triple (0,0,0)  *)
(* four times puts twelve values into bin 0, whose memory is for nine.     *)
(***************************************************************************)
EXTENDS SimpleHashing

Triple(a, b, c) == [i \in 0 .. 2 |-> IF i = 0 THEN a ELSE IF i = 1 THEN b ELSE c]

MCHashes == {Triple(0, 0, 0), Triple(0, 1, 0), Triple(2, 1, 0), Triple(1, 2, 2)}

(* With three threads the last one has no element, with two each has two. *)
MCTaskCounts == {1, 2, 3}
================================================================================
