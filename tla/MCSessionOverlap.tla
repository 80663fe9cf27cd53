-------------------------- MODULE MCSessionOverlap --------------------------
(***************************************************************************)
(* Instances of SessionOverlap: two inputs and two claiming processes.     *)
(***************************************************************************)
EXTENDS SessionOverlap

CONSTANTS a, b, w1, w2
=============================================================================
