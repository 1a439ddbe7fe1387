---------------------------- MODULE MCNep5Store ----------------------------
(* An instance of Nep5Store for TLC: two addresses, and the transactions that *)
(* the task treats differently.                                               *)
EXTENDS Nep5Store

MCCall(who, from, to) == [kind |-> "call", who |-> who, from |-> from, to |-> to]
MCReg(who) == [kind |-> "reg", who |-> who, from |-> 0, to |-> 0]

\* 0 is no address: a registration by 1, a transfer that issues to 1, one by 2
\* from 2 to 1, and a call by 1 that transfers nothing.
MCShapes == { MCReg(1), MCCall(0, 0, 1), MCCall(2, 2, 1), MCCall(1, 0, 0) }
=============================================================================
