------------------------------ MODULE ResultOrder ------------------------------
(***************************************************************************)
(* create_result_from_matches_fixed_bitlen and its variant for elements of *)
(* different lengths, src/util/helpers.h: the matches are sorted before    *)
(* the elements are copied, so that a result is in the order of the set.   *)
(***************************************************************************)
EXTENDS Integers, Sequences

(* The values of s in ascending order. *)
Ascending(s) ==
  LET place == CHOOSE p \in [DOMAIN s -> DOMAIN s] :
                 /\ \A j, k \in DOMAIN s : p[j] = p[k] => j = k
                 /\ \A j, k \in DOMAIN s : j < k => s[p[j]] <= s[p[k]]
  IN [k \in DOMAIN s |-> s[place[k]]]
================================================================================
