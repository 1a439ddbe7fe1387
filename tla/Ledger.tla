-------------------------------- MODULE Ledger --------------------------------
(***************************************************************************)
(* What readers of the UTXO tables may rely on: the transactions take      *)
(* effect one by one in the order of their ids, each as a whole, and what  *)
(* an account owns are the outputs paid to it and not spent.               *)
(***************************************************************************)
EXTENDS Integers, Sequences

CONSTANTS Addrs, Assets, MaxTx, MaxOuts

Ids      == 1..MaxTx
Accounts == Addrs \X Assets
Outputs  == Ids \X (1..MaxOuts)    \* transaction and position n

VARIABLES
  outs,     \* of each transaction: the accounts it pays, by position
  ins,      \* the outputs it spends
  txMax,    \* highest transaction known
  applied,  \* the last one that took effect
  owned     \* of each account: its unspent outputs

vars == <<outs, ins, txMax, applied, owned>>

Owner(o) == outs[o[1]][o[2]]

\* A transaction without inputs and outputs has no effect and is skipped.
HasEffect(t) == outs[t] # <<>> \/ ins[t] # {}

LInit ==
  /\ outs = [t \in Ids |-> <<>>] /\ ins = [t \in Ids |-> {}]
  /\ txMax = 0 /\ applied = 0
  /\ owned = [acc \in Accounts |-> {}]

\* The chain grows by a valid transaction: it spends outputs of earlier ones.
Publish ==
  /\ txMax' = txMax + 1
  /\ \E acs \in UNION {[1..n -> Accounts] : n \in 0..MaxOuts} :
       outs' = [outs EXCEPT ![txMax'] = acs]
  /\ LET paid  == {o \in Outputs : o[1] <= txMax /\ o[2] <= Len(outs[o[1]])}
         spent == UNION {ins[t] : t \in Ids}
     IN  \E spends \in SUBSET (paid \ spent) :
           ins' = [ins EXCEPT ![txMax'] = spends]
  /\ UNCHANGED <<applied, owned>>

Settle ==
  \E t \in (applied + 1)..txMax :
    /\ HasEffect(t)
    /\ \A s \in (applied + 1)..(t - 1) : ~HasEffect(s)
    /\ applied' = t
    /\ owned' = [acc \in Accounts |->
         (owned[acc] \ ins[t]) \cup
         {o \in {t} \X DOMAIN outs[t] : Owner(o) = acc}]
    /\ UNCHANGED <<outs, ins, txMax>>

LNext == (txMax < MaxTx /\ Publish) \/ Settle

LSpec == LInit /\ [][LNext]_vars
=============================================================================
