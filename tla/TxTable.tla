------------------------------- MODULE TxTable -------------------------------
(***************************************************************************)
(* Table tx as the tasks see it that page through it by ascending id: the  *)
(* block pipeline commits more and more transactions, and a query returns  *)
(* the first PageSize rows that fit.  With it goes the process, which may  *)
(* die.  ScTask and AssetTxTask extend this module; their other names      *)
(* differ, so that PagedTaskProofs can hold the proofs of both.            *)
(***************************************************************************)
EXTENDS Integers, FiniteSets

CONSTANTS MaxTx,       \* bound on transaction ids
          PageSize,    \* limit of a query (1000 for the contract task, 50 for assets)
          MaxCrashes   \* bound on crashes

ASSUME TxBounds == MaxTx \in Nat /\ PageSize \in Nat \ {0} /\ MaxCrashes \in Nat

Ids == 1..MaxTx

VARIABLES
  txMax,    \* highest id in table tx
  crashes

\* ORDER BY id ASC LIMIT PageSize, of the rows that fit.
FirstPage(S) == {t \in S : Cardinality({s \in S : s <= t}) <= PageSize}
=============================================================================
