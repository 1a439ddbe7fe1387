-------------------------------- MODULE MCIds --------------------------------
(* An instance of Ids for TLC.  Contracts are interchangeable, and addresses   *)
(* too.                                                                        *)
EXTENDS Ids, TLC

Symmetry == Permutations(Addrs) \cup Permutations(Assets)
=============================================================================
