------------------------------- MODULE Consumer -------------------------------
(***************************************************************************)
(* What a task promises that derives rows from the transactions: every     *)
(* transaction takes effect exactly once, in the order of the ids, a run   *)
(* of them at a time, and its counter names the last one that did.         *)
(***************************************************************************)
EXTENDS Integers

CONSTANT MaxTx   \* bound on transaction ids

VARIABLES
  txMax,    \* highest transaction in table tx
  done,     \* the task's counter
  effects   \* how often each transaction took effect

vars == <<txMax, done, effects>>

CInit == txMax = 0 /\ done = 0 /\ effects = [t \in 1..MaxTx |-> 0]

Publish == txMax < MaxTx /\ txMax' = txMax + 1 /\ UNCHANGED <<done, effects>>

Consume ==
  /\ done' \in (done + 1)..txMax
  /\ effects' = [t \in 1..MaxTx |->
                   effects[t] + (IF t \in (done + 1)..done' THEN 1 ELSE 0)]
  /\ UNCHANGED txMax

CSpec == CInit /\ [][Publish \/ Consume]_vars
=============================================================================
