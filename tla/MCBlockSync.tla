---------------------------- MODULE MCBlockSync ----------------------------
(***************************************************************************)
(* Instances of BlockSync for TLC.  Two workers are interchangeable.       *)
(***************************************************************************)
EXTENDS BlockSync, TLC

CONSTANTS w1, w2

Symmetric == Permutations(Workers)
=============================================================================
