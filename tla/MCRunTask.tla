-------------------------------- MODULE MCRunTask --------------------------------
(***************************************************************************)
(* Three elements; one thread, two, and more threads than elements.  The   *)
(* calls are those of the protocols: hashing of either kind of input, the  *)
(* exponentiation into a new array and the one in place.                   *)
(***************************************************************************)
EXTENDS RunTask

MCPerms ==
  {p \in [Eles -> Eles] : \A i, j \in Eles : p[i] = p[j] => i = j}

Call(f, v, p, k) == [func |-> f, hasvarbytelen |-> v, inplace |-> p, nthreads |-> k]

MCJobs ==
  UNION {{Call("psi_hashing_function", FALSE, FALSE, k),
          Call("psi_hashing_function", TRUE, FALSE, k),
          Call("sym_encrypt", TRUE, FALSE, k),
          Call("asym_encrypt", FALSE, FALSE, k),
          Call("asym_encrypt", FALSE, TRUE, k)} : k \in {1, 2, 4}}
================================================================================
