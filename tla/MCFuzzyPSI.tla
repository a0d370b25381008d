------------------------------- MODULE MCFuzzyPSI -------------------------------
(***************************************************************************)
(* Vectors of two numbers modulo 41, with distances below, at and above    *)
(* the threshold, and one whose square exceeds the modulus.                *)
(***************************************************************************)
EXTENDS FuzzyPSI

MCInputs ==
  [a : {<<0, 0>>, <<1, 2>>, <<-1, 3>>},
   b : {<<0, 0>>, <<1, 0>>, <<2, 1>>, <<1, 2>>, <<6, -1>>},
   d : {1, 2, 3, 4}]
=================================================================================
