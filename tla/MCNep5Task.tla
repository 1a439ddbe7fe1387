----------------------------- MODULE MCNep5Task -----------------------------
(* An instance of Nep5Task for TLC: two contracts, and one transaction of     *)
(* each sort that the task treats differently.                                *)
EXTENDS Nep5Task

CONSTANTS A, B   \* the contracts

MCTx(k, h, ok, log) ==
  [kind |-> k, hash |-> h, ok |-> ok, log |-> log, dies |-> {}]
Deadly(x, points) == [x EXCEPT !.dies = points]

MCHashes == {A, B}
MCTxs == {
  MCTx("short", NoHash, FALSE, <<>>),
  MCTx("empty", NoHash, FALSE, <<>>),
  Deadly(MCTx("reg", B, TRUE, <<>>), {"asset"}),
  MCTx("create", B, TRUE, <<>>),
  MCTx("migrate", A, FALSE, <<>>),
  MCTx("regmigrate", A, TRUE, <<>>),
  MCTx("call", NoHash, FALSE, <<A, A>>),
  MCTx("call", A, TRUE, <<B, A>>),
  Deadly(MCTx("call", B, FALSE, <<>>), {"caller"}),
  Deadly(MCTx("call", NoHash, FALSE, <<B>>), {"parties"}) }
=============================================================================
