------------------------------- MODULE LossyStore -------------------------------
(***************************************************************************)
(* What the client's hash table promises to the protocol above it,         *)
(* independently of how elements are moved around inside.                  *)
(*                                                                         *)
(* Elements are offered in the order of their indices.  The store keeps a  *)
(* set of elements that can be put into bins one to a bin, each into one   *)
(* of its own bins.  An offer may cost at most one element, which need not *)
(* be the one that was offered.  Once every element was offered the store  *)
(* delivers what it has kept.                                              *)
(***************************************************************************)
EXTENDS Integers

CONSTANTS NEles,     \* number of elements offered
          NBins,     \* number of bins
          HashIdx    \* indices of the hash functions

VARIABLES
  choices,     \* choices[e][i]: the bin of element e under hash function i
  offered,     \* elements 0 .. offered-1 have been offered
  unsettled,   \* TRUE from an offer until it is known what it costs
  kept,        \* the elements in the store
  delivered    \* what was handed to the caller

vars == <<choices, offered, unsettled, kept, delivered>>

Bins == 0 .. NBins - 1

(* The elements of S fit into the bins at the same time. *)
Storable(S) ==
  \E at \in [S -> Bins] :
    /\ \A e \in S : \E i \in HashIdx : at[e] = choices[e][i]
    /\ \A e, f \in S : at[e] = at[f] => e = f

Init ==
  /\ choices \in [0 .. NEles - 1 -> [HashIdx -> Bins]]
  /\ offered = 0
  /\ unsettled = FALSE
  /\ kept = {}
  /\ delivered = {}

Offer ==
  /\ ~unsettled
  /\ offered < NEles
  /\ offered' = offered + 1
  /\ unsettled' = TRUE
  /\ kept' = kept \cup {offered}
  /\ UNCHANGED <<choices, delivered>>

Settle ==
  /\ unsettled
  /\ unsettled' = FALSE
  /\ Storable(kept)
  /\ UNCHANGED <<choices, offered, kept, delivered>>

Drop(e) ==
  /\ unsettled
  /\ unsettled' = FALSE
  /\ kept' = kept \ {e}
  /\ Storable(kept')
  /\ UNCHANGED <<choices, offered, delivered>>

Deliver ==
  /\ ~unsettled
  /\ offered = NEles
  /\ delivered' = kept
  /\ UNCHANGED <<choices, offered, unsettled, kept>>

Next ==
  \/ Offer
  \/ Settle
  \/ \E e \in kept : Drop(e)
  \/ Deliver

Spec == Init /\ [][Next]_vars
================================================================================
