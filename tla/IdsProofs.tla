------------------------------ MODULE IdsProofs ------------------------------
(***************************************************************************)
(* Machine-checked proofs about Ids, for every number of transactions,     *)
(* inputs, outputs, addresses, assets, contracts, crashes and lost         *)
(* connections: that the ids computed in memory are the numbers MySQL      *)
(* gives, and that no two things have one id.                              *)
(***************************************************************************)
EXTENDS Ids, SequenceTheorems, FiniteSetTheorems, TLAPS

Input == [spends : Nat, txid : Nat]

\* A transaction, whatever its outputs and registrations are.
IsTx(t) ==
  /\ t = [key |-> t.key, id |-> t.id, vins |-> t.vins, vouts |-> t.vouts, reg |-> t.reg]
  /\ t.key \in Nat /\ t.id \in Nat /\ t.vins \in Seq(Input)

IsTxs(txs) == /\ txs \in Seq({txs[i] : i \in 1..Len(txs)})
              /\ \A i \in 1..Len(txs) : IsTx(txs[i])

\* Input by input, the n-th transaction spends earlier ones and has their ids.
SpendsEarlier(t, n) ==
  \A j \in 1..Len(t.vins) : /\ t.vins[j].spends \in 1..(n - 1)
                            /\ t.vins[j].txid = t.vins[j].spends

\* The keys are the places, in the database and behind it in memory.
Placed ==
  /\ \A i \in 1..Len(tx) : tx[i].key = i
  /\ \A i \in 1..Len(bulk) : bulk[i].key = Len(tx) + i

\* Unless rows of tx were rolled back, the table's numbers are the places too.
Numbered ==
  txAuto = Len(tx) =>
    /\ \A i \in 1..Len(tx) : tx[i].id = i /\ SpendsEarlier(tx[i], i)
    /\ \A i \in 1..Len(bulk) : SpendsEarlier(bulk[i], Len(tx) + i)

\* The inductive invariant.
IInv ==
  /\ IsTxs(tx) /\ IsTxs(bulk)
  /\ up \in BOOLEAN
  /\ up => lastTxPkId = Len(tx) + Len(bulk)
  /\ ~up => bulk = <<>>
  /\ txAuto \in Nat /\ Len(tx) <= txAuto
  /\ Placed /\ Numbered
-----------------------------------------------------------------------------
\* A sequence is one of its own elements.
LEMMA OwnElements ==
  ASSUME NEW S, NEW s \in Seq(S)
  PROVE  s \in Seq({s[i] : i \in 1..Len(s)})
BY LenProperties

\* Appending a transaction to transactions gives transactions.
LEMMA AppendTxs ==
  ASSUME NEW txs, IsTxs(txs), NEW t, IsTx(t)
  PROVE  /\ IsTxs(Append(txs, t))
         /\ Len(Append(txs, t)) = Len(txs) + 1
         /\ \A i \in 1..Len(txs) : Append(txs, t)[i] = txs[i]
         /\ Append(txs, t)[Len(txs) + 1] = t
         /\ Len(txs) \in Nat
<1> DEFINE S == {txs[i] : i \in 1..Len(txs)} \cup {t}
           new == Append(txs, t)
<1>1. txs \in Seq({txs[i] : i \in 1..Len(txs)}) /\ \A i \in 1..Len(txs) : IsTx(txs[i])
  BY DEF IsTxs
<1>2. Len(txs) \in Nat /\ txs \in Seq(S) /\ t \in S
  <2>1. Len(txs) \in Nat /\ txs \in [1..Len(txs) -> S]
    BY <1>1, LenProperties
  <2> QED BY <1>1, <2>1, SeqMonotonic
<1> HIDE DEF S
<1>3. /\ new \in Seq(S) /\ Len(new) = Len(txs) + 1
      /\ \A i \in 1..Len(txs) : new[i] = txs[i]
      /\ new[Len(txs) + 1] = t
  BY <1>2, AppendProperties
<1> HIDE DEF new
<1>4. new \in Seq({new[i] : i \in 1..Len(new)})
  BY <1>3, OwnElements
<1>5. ASSUME NEW i \in 1..Len(new) PROVE IsTx(new[i])
  <2>1. i \in 1..Len(txs) \/ i = Len(txs) + 1 BY <1>2, <1>3
  <2> QED BY <2>1, <1>1, <1>3
<1> QED BY <1>2, <1>3, <1>4, <1>5 DEF IsTxs, new

\* A transaction with other inputs, outputs or registrations.
LEMMA OtherFields ==
  ASSUME NEW t, IsTx(t), NEW e
  PROVE  /\ [t EXCEPT !.vins = e] = [key |-> t.key, id |-> t.id, vins |-> e,
                                      vouts |-> t.vouts, reg |-> t.reg]
         /\ [t EXCEPT !.vouts = e] = [key |-> t.key, id |-> t.id, vins |-> t.vins,
                                       vouts |-> e, reg |-> t.reg]
         /\ [t EXCEPT !.reg = e] = [key |-> t.key, id |-> t.id, vins |-> t.vins,
                                     vouts |-> t.vouts, reg |-> e]
BY DEF IsTx

\* The last transaction of txs is t.
Replaced(txs, t) == [txs EXCEPT ![Len(txs)] = t]

\* Replacing the last transaction gives transactions.
LEMMA ReplaceLast ==
  ASSUME NEW txs, IsTxs(txs), txs # <<>>, NEW t, IsTx(t),
         NEW new, new = Replaced(txs, t)
  PROVE  /\ IsTxs(new) /\ Len(new) = Len(txs)
         /\ Len(txs) \in Nat \ {0}
         /\ \A i \in 1..Len(txs) : new[i] = IF i = Len(txs) THEN t ELSE txs[i]
<1> DEFINE S == {txs[i] : i \in 1..Len(txs)} \cup {t}
<1>1. txs \in Seq({txs[i] : i \in 1..Len(txs)}) /\ \A i \in 1..Len(txs) : IsTx(txs[i])
  BY DEF IsTxs
<1>2. Len(txs) \in Nat \ {0} /\ txs \in Seq(S) /\ t \in S
  <2>1. Len(txs) \in Nat \ {0} BY <1>1, EmptySeq
  <2> QED BY <1>1, <2>1, SeqMonotonic
<1> HIDE DEF S
<1>3. /\ new \in Seq(S) /\ Len(new) = Len(txs)
      /\ \A i \in 1..Len(txs) : new[i] = IF i = Len(txs) THEN t ELSE txs[i]
  BY <1>2, ExceptSeq DEF Replaced
<1>4. new \in Seq({new[i] : i \in 1..Len(new)})
  BY <1>3, OwnElements
<1>5. \A i \in 1..Len(new) : IsTx(new[i]) BY <1>1, <1>3
<1> QED BY <1>2, <1>3, <1>4, <1>5 DEF IsTxs

\* First the transactions a, then the transactions b.
Joined(a, b) == a \o b
AreFirst(a, new) == \A i \in 1..Len(a) : new[i] = a[i]
AreBehind(a, b, new) == \A i \in 1..Len(b) : new[Len(a) + i] = b[i]

\* Transactions after transactions are transactions.
LEMMA ConcatTxs ==
  ASSUME NEW a, IsTxs(a), NEW b, IsTxs(b), NEW new, new = Joined(a, b)
  PROVE  /\ IsTxs(new)
         /\ Len(new) = Len(a) + Len(b) /\ Len(a) \in Nat /\ Len(b) \in Nat
         /\ AreFirst(a, new) /\ AreBehind(a, b, new)
<1> DEFINE S == {a[i] : i \in 1..Len(a)} \cup {b[i] : i \in 1..Len(b)}
<1>1. /\ a \in Seq({a[i] : i \in 1..Len(a)}) /\ \A i \in 1..Len(a) : IsTx(a[i])
      /\ b \in Seq({b[i] : i \in 1..Len(b)}) /\ \A i \in 1..Len(b) : IsTx(b[i])
  BY DEF IsTxs
<1>2. Len(a) \in Nat /\ Len(b) \in Nat /\ a \in Seq(S) /\ b \in Seq(S)
  <2>1. Len(a) \in Nat /\ Len(b) \in Nat BY <1>1, LenProperties
  <2>2. a \in Seq(S) BY <1>1, SeqMonotonic
  <2>3. b \in Seq(S) BY <1>1, SeqMonotonic
  <2> QED BY <2>1, <2>2, <2>3
<1> HIDE DEF S
<1>3. /\ new \in Seq(S) /\ Len(new) = Len(a) + Len(b)
      /\ \A i \in 1..(Len(a) + Len(b)) :
           new[i] = IF i <= Len(a) THEN a[i] ELSE b[i - Len(a)]
  BY <1>2, ConcatProperties DEF Joined
<1>4. new \in Seq({new[i] : i \in 1..Len(new)})
  BY <1>3, OwnElements
<1>5. \A i \in 1..Len(a) : new[i] = a[i]
  BY <1>2, <1>3
<1>6. ASSUME NEW i \in 1..Len(b) PROVE new[Len(a) + i] = b[i]
  <2>1. /\ Len(a) + i \in 1..(Len(a) + Len(b)) /\ ~(Len(a) + i <= Len(a))
        /\ (Len(a) + i) - Len(a) = i
    BY <1>2
  <2> QED BY <2>1, <1>3
<1>7. ASSUME NEW i \in 1..Len(new) PROVE IsTx(new[i])
  <2>1. i \in 1..Len(a) \/ (i - Len(a) \in 1..Len(b) /\ ~(i <= Len(a)))
    BY <1>2, <1>3
  <2>2. new[i] = IF i <= Len(a) THEN a[i] ELSE b[i - Len(a)] BY <1>3
  <2>3. CASE i \in 1..Len(a)
    <3>1. new[i] = a[i] BY <2>3, <1>5
    <3> QED BY <3>1, <2>3, <1>1
  <2>4. CASE i - Len(a) \in 1..Len(b) /\ ~(i <= Len(a))
    <3>1. new[i] = b[i - Len(a)] BY <2>4, <2>2
    <3> QED BY <3>1, <2>4, <1>1
  <2> QED BY <2>1, <2>3, <2>4
<1> QED BY <1>2, <1>3, <1>4, <1>5, <1>6, <1>7 DEF IsTxs, AreFirst, AreBehind

\* The rows of the parsed transactions, with the numbers the table gives them.
LEMMA RowsOfBulk ==
  ASSUME NEW txs, IsTxs(txs), NEW n \in Nat
  PROVE  LET rows == [i \in DOMAIN txs |-> [txs[i] EXCEPT !.id = n + i]]
         IN /\ IsTxs(rows) /\ Len(rows) = Len(txs)
            /\ \A i \in 1..Len(txs) : /\ rows[i].id = n + i
                                      /\ rows[i].key = txs[i].key
                                      /\ rows[i].vins = txs[i].vins
                                      /\ rows[i].vouts = txs[i].vouts
                                      /\ rows[i].reg = txs[i].reg
<1> DEFINE row(i) == [txs[i] EXCEPT !.id = n + i]
           rows == [i \in DOMAIN txs |-> [txs[i] EXCEPT !.id = n + i]]
<1>1. Len(txs) \in Nat /\ DOMAIN txs = 1..Len(txs)
  BY LenProperties DEF IsTxs
<1>2. ASSUME NEW i \in 1..Len(txs)
      PROVE  /\ rows[i].id = n + i /\ rows[i].key = txs[i].key
             /\ rows[i].vins = txs[i].vins /\ rows[i].vouts = txs[i].vouts
             /\ rows[i].reg = txs[i].reg /\ IsTx(rows[i])
  <2>1. IsTx(txs[i]) BY DEF IsTxs
  <2>2. rows[i] = [txs[i] EXCEPT !.id = n + i] BY <1>1
  <2>3. rows[i] = [key |-> txs[i].key, id |-> n + i, vins |-> txs[i].vins,
                   vouts |-> txs[i].vouts, reg |-> txs[i].reg]
    BY <2>1, <2>2 DEF IsTx
  <2> HIDE DEF rows
  <2> QED BY <2>1, <2>3 DEF IsTx
<1>3. rows \in Seq({rows[i] : i \in 1..Len(txs)}) /\ Len(rows) = Len(txs)
  BY <1>1
<1> QED BY <1>2, <1>3 DEF IsTxs
-----------------------------------------------------------------------------
\* Nothing is there at first.
LEMMA InitIInv == Init => IInv
<1> SUFFICES ASSUME Init PROVE IInv
  OBVIOUS
<1>1. tx = <<>> /\ bulk = <<>> /\ Len(tx) = 0 /\ Len(bulk) = 0 /\ up = TRUE
      /\ lastTxPkId = 0 /\ txAuto = 0
  BY DEF Init
<1>2. IsTxs(<<>>) BY DEF IsTxs
<1> QED BY <1>1, <1>2 DEF IInv, Placed, Numbered

\* A new transaction gets the next id, which is its place.
LEMMA AppendTxStep == ASSUME IInv, AppendTx PROVE IInv'
<1> DEFINE t == NoRow(lastTxPkId + 1)
<1>1. /\ up /\ bulk' = Append(bulk, t) /\ lastTxPkId' = lastTxPkId + 1
      /\ UNCHANGED <<up, tx, txAuto>>
  BY DEF AppendTx, Parsing, dbVars
<1>2. IsTxs(tx) /\ IsTxs(bulk) /\ Len(tx) \in Nat /\ Len(bulk) \in Nat
  BY LenProperties DEF IInv, IsTxs
<1>3. lastTxPkId = Len(tx) + Len(bulk) /\ up \in BOOLEAN
      /\ txAuto \in Nat /\ Len(tx) <= txAuto
  BY <1>1 DEF IInv
<1>4. IsTx(t) /\ t.key = lastTxPkId + 1 /\ t.vins = <<>>
  BY <1>2, <1>3 DEF IsTx, NoRow, NoId
<1> HIDE DEF t
<1>5. /\ IsTxs(bulk') /\ Len(bulk') = Len(bulk) + 1
      /\ \A i \in 1..Len(bulk) : bulk'[i] = bulk[i]
      /\ bulk'[Len(bulk) + 1] = t
  BY <1>1, <1>2, <1>4, AppendTxs
<1>6. \A i \in 1..Len(bulk') : i \in 1..Len(bulk) \/ i = Len(bulk) + 1
  BY <1>2, <1>5
<1>7. Placed'
  <2>1. \A i \in 1..Len(tx) : tx'[i].key = i BY <1>1 DEF IInv, Placed
  <2>2. ASSUME NEW i \in 1..Len(bulk') PROVE bulk'[i].key = Len(tx) + i
    <3>1. CASE i \in 1..Len(bulk)
      <4>1. bulk[i].key = Len(tx) + i BY <3>1 DEF IInv, Placed
      <4> QED BY <4>1, <3>1, <1>5
    <3>2. CASE i = Len(bulk) + 1
      <4>1. bulk'[i].key = Len(tx) + Len(bulk) + 1 BY <3>2, <1>3, <1>4, <1>5
      <4> QED BY <4>1, <3>2, <1>2
    <3> QED BY <3>1, <3>2, <1>6
  <2> QED BY <1>1, <2>1, <2>2 DEF Placed
<1>8. Numbered'
  <2> SUFFICES ASSUME txAuto = Len(tx), NEW i \in 1..Len(bulk')
               PROVE  SpendsEarlier(bulk'[i], Len(tx) + i)
    BY <1>1 DEF IInv, Numbered, SpendsEarlier
  <2>1. CASE i \in 1..Len(bulk)
    BY <2>1, <1>5 DEF IInv, Numbered
  <2>2. CASE i = Len(bulk) + 1
    BY <2>2, <1>4, <1>5 DEF SpendsEarlier
  <2> QED BY <2>1, <2>2, <1>6
<1> QED BY <1>1, <1>2, <1>3, <1>5, <1>7, <1>8 DEF IInv

\* A change of the last parsed transaction that keeps its key and its inputs.
LEMMA LastKeepsInputs ==
  ASSUME IInv, bulk # <<>>, NEW t, IsTx(t),
         t.key = bulk[Len(bulk)].key, t.vins = bulk[Len(bulk)].vins,
         bulk' = Replaced(bulk, t),
         UNCHANGED <<up, lastTxPkId, tx, txAuto>>
  PROVE  IInv'
<1>1. IsTxs(tx) /\ IsTxs(bulk) /\ Len(tx) \in Nat
  BY LenProperties DEF IInv, IsTxs
<1>2. /\ IsTxs(bulk') /\ Len(bulk') = Len(bulk) /\ Len(bulk) \in Nat \ {0}
      /\ \A i \in 1..Len(bulk) : bulk'[i] = IF i = Len(bulk) THEN t ELSE bulk[i]
  BY <1>1, ReplaceLast
<1>3. \A i \in 1..Len(bulk) : /\ bulk'[i].key = bulk[i].key
                              /\ bulk'[i].vins = bulk[i].vins
  BY <1>2
<1>4. Placed'
  BY <1>2, <1>3 DEF IInv, Placed
<1>5. Numbered'
  <2> SUFFICES ASSUME txAuto = Len(tx), NEW i \in 1..Len(bulk)
               PROVE  SpendsEarlier(bulk'[i], Len(tx) + i)
    BY <1>2 DEF IInv, Numbered
  <2>1. SpendsEarlier(bulk[i], Len(tx) + i) BY DEF IInv, Numbered
  <2>2. bulk'[i].vins = bulk[i].vins BY <1>3
  <2> QED BY <2>1, <2>2 DEF SpendsEarlier
<1>6. up' => bulk' # <<>> /\ lastTxPkId' = Len(tx') + Len(bulk')
  BY <1>2, EmptySeq DEF IInv
<1>7. up BY DEF IInv
<1> QED BY <1>1, <1>2, <1>4, <1>5, <1>6, <1>7 DEF IInv

\* An input gets the id of the transaction it spends.
LEMMA AppendTxVinStep == ASSUME IInv, AppendTxVin PROVE IInv'
<1> DEFINE n == Len(bulk)
<1>1. PICK target \in 1..(Len(tx) + Len(bulk) - 1) :
        bulk' = [bulk EXCEPT ![Len(bulk)].vins =
                   Append(@, [spends |-> target, txid |-> TxIDOf(target)])]
  BY DEF AppendTxVin
<1> DEFINE vin == [spends |-> target, txid |-> TxIDOf(target)]
           t == [bulk[n] EXCEPT !.vins = Append(bulk[n].vins, vin)]
<1>2. /\ bulk # <<>> /\ bulk' = Replaced(bulk, t) /\ up
      /\ UNCHANGED <<up, lastTxPkId, tx, txAuto>>
  BY <1>1 DEF AppendTxVin, Parsing, dbVars, memVars, Replaced
<1>3. /\ IsTxs(tx) /\ IsTxs(bulk) /\ Len(tx) \in Nat /\ n \in Nat \ {0}
  BY <1>2, LenProperties, EmptySeq DEF IInv, IsTxs
<1>4. \/ target \in 1..Len(tx) /\ ~(target > Len(tx))
      \/ target > Len(tx) /\ target - Len(tx) \in 1..(n - 1)
  BY <1>3
<1>5. TxIDOf(target) \in Nat
  <2>1. CASE target \in 1..Len(tx) /\ ~(target > Len(tx))
    <3>1. IsTx(tx[target]) BY <2>1, <1>3 DEF IsTxs
    <3> QED BY <3>1, <2>1 DEF TxIDOf, IsTx
  <2>2. CASE target > Len(tx) /\ target - Len(tx) \in 1..(n - 1)
    <3>1. IsTx(bulk[target - Len(tx)]) BY <2>2, <1>3 DEF IsTxs
    <3> QED BY <3>1, <2>2 DEF TxIDOf, IsTx
  <2> QED BY <1>4, <2>1, <2>2
<1>6. txAuto = Len(tx) => TxIDOf(target) = target
  <2>1. CASE target \in 1..Len(tx) /\ ~(target > Len(tx))
    BY <2>1 DEF TxIDOf, IInv, Numbered
  <2>2. CASE target > Len(tx) /\ target - Len(tx) \in 1..(n - 1)
    <3>1. bulk[target - Len(tx)].key = Len(tx) + (target - Len(tx))
      BY <2>2, <1>3 DEF IInv, Placed
    <3> QED BY <3>1, <2>2, <1>3 DEF TxIDOf
  <2> QED BY <1>4, <2>1, <2>2
<1>7. IsTx(bulk[n]) /\ vin \in Input
  BY <1>3, <1>5 DEF IsTxs, Input
<1>8. /\ t.key = bulk[n].key /\ t.vins = Append(bulk[n].vins, vin) /\ IsTx(t)
  <2>1. t = [key |-> bulk[n].key, id |-> bulk[n].id, vins |-> Append(bulk[n].vins, vin),
             vouts |-> bulk[n].vouts, reg |-> bulk[n].reg]
    BY <1>7, OtherFields
  <2>2. Append(bulk[n].vins, vin) \in Seq(Input)
    BY <1>7, AppendProperties DEF IsTx
  <2> HIDE DEF t, vin
  <2> QED BY <2>1, <2>2, <1>7 DEF IsTx
<1>9. ASSUME txAuto = Len(tx), SpendsEarlier(bulk[n], Len(tx) + n)
      PROVE  SpendsEarlier(t, Len(tx) + n)
  <2>1. /\ bulk[n].vins \in Seq(Input) /\ Len(bulk[n].vins) \in Nat
        /\ Len(t.vins) = Len(bulk[n].vins) + 1
        /\ \A j \in 1..Len(bulk[n].vins) : t.vins[j] = bulk[n].vins[j]
        /\ t.vins[Len(bulk[n].vins) + 1] = vin
    BY <1>7, <1>8, AppendProperties, LenProperties DEF IsTx
  <2>2. vin.spends \in 1..(Len(tx) + n - 1) /\ vin.txid = vin.spends
    BY <1>6, <1>9
  <2> HIDE DEF t, vin
  <2> SUFFICES ASSUME NEW j \in 1..Len(t.vins)
               PROVE  /\ t.vins[j].spends \in 1..(Len(tx) + n - 1)
                      /\ t.vins[j].txid = t.vins[j].spends
    BY DEF SpendsEarlier
  <2>3. j \in 1..Len(bulk[n].vins) \/ j = Len(bulk[n].vins) + 1 BY <2>1
  <2>4. CASE j \in 1..Len(bulk[n].vins)
    <3>1. /\ bulk[n].vins[j].spends \in 1..(Len(tx) + n - 1)
          /\ bulk[n].vins[j].txid = bulk[n].vins[j].spends
      BY <2>4, <1>9 DEF SpendsEarlier
    <3>2. t.vins[j] = bulk[n].vins[j] BY <2>4, <2>1
    <3> QED BY <3>1, <3>2
  <2>5. CASE j = Len(bulk[n].vins) + 1 BY <2>5, <2>1, <2>2
  <2> QED BY <2>3, <2>4, <2>5
<1> HIDE DEF t, vin
<1>10. /\ IsTxs(bulk') /\ Len(bulk') = n
       /\ \A i \in 1..n : bulk'[i] = IF i = n THEN t ELSE bulk[i]
  BY <1>2, <1>3, <1>8, ReplaceLast
<1>11. Placed'
  BY <1>2, <1>3, <1>8, <1>10 DEF IInv, Placed
<1>12. Numbered'
  <2> SUFFICES ASSUME txAuto = Len(tx), NEW i \in 1..n
               PROVE  SpendsEarlier(bulk'[i], Len(tx) + i)
    BY <1>2, <1>10 DEF IInv, Numbered
  <2>1. SpendsEarlier(bulk[i], Len(tx) + i) BY DEF IInv, Numbered
  <2> QED BY <2>1, <1>9, <1>10
<1> QED BY <1>2, <1>3, <1>10, <1>11, <1>12 DEF IInv

\* An output changes neither keys nor inputs.
LEMMA AppendTxVoutStep == ASSUME IInv, AppendTxVout PROVE IInv'
<1>1. PICK addr \in Addrs, h \in Registered :
        bulk' = [bulk EXCEPT ![Len(bulk)].vouts = Append(@,
          [addr |-> addr, addrId |-> AddrIDOf(addr), asset |-> h, assetId |-> IdFor(h)])]
  BY DEF AppendTxVout
<1> DEFINE e == Append(bulk[Len(bulk)].vouts,
          [addr |-> addr, addrId |-> AddrIDOf(addr), asset |-> h, assetId |-> IdFor(h)])
           t == [bulk[Len(bulk)] EXCEPT !.vouts = e]
<1>2. /\ bulk # <<>> /\ bulk' = Replaced(bulk, t)
      /\ UNCHANGED <<up, lastTxPkId, tx, txAuto>>
  BY <1>1 DEF AppendTxVout, Parsing, dbVars, Replaced
<1> HIDE DEF e
<1>3. IsTx(bulk[Len(bulk)])
  BY <1>2, LenProperties, EmptySeq DEF IInv, IsTxs
<1>4. t = [key |-> bulk[Len(bulk)].key, id |-> bulk[Len(bulk)].id,
           vins |-> bulk[Len(bulk)].vins, vouts |-> e, reg |-> bulk[Len(bulk)].reg]
  BY <1>3, OtherFields
<1> HIDE DEF t
<1>5. IsTx(t) /\ t.key = bulk[Len(bulk)].key /\ t.vins = bulk[Len(bulk)].vins
  BY <1>3, <1>4 DEF IsTx
<1> QED BY <1>2, <1>5, LastKeepsInputs

\* A registration changes neither keys nor inputs.
LEMMA AppendAssetStep == ASSUME IInv, AppendAsset PROVE IInv'
<1>1. PICK h \in Assets \ Registered : bulk' = [bulk EXCEPT ![Len(bulk)].reg = {h}]
  BY DEF AppendAsset
<1> DEFINE t == [bulk[Len(bulk)] EXCEPT !.reg = {h}]
<1>2. /\ bulk # <<>> /\ bulk' = Replaced(bulk, t)
      /\ UNCHANGED <<up, lastTxPkId, tx, txAuto>>
  BY <1>1 DEF AppendAsset, Parsing, dbVars, Replaced
<1>3. IsTx(bulk[Len(bulk)])
  BY <1>2, LenProperties, EmptySeq DEF IInv, IsTxs
<1>4. t = [key |-> bulk[Len(bulk)].key, id |-> bulk[Len(bulk)].id,
           vins |-> bulk[Len(bulk)].vins, vouts |-> bulk[Len(bulk)].vouts, reg |-> {h}]
  BY <1>3, OtherFields
<1> HIDE DEF t
<1>5. IsTx(t) /\ t.key = bulk[Len(bulk)].key /\ t.vins = bulk[Len(bulk)].vins
  BY <1>3, <1>4 DEF IsTx
<1> QED BY <1>2, <1>5, LastKeepsInputs

\* The commit: a transaction's place behind the database's becomes its place in it,
\* and its number too if no number was lost.
LEMMA InsertBlockStep == ASSUME IInv, InsertBlock PROVE IInv'
<1> DEFINE rows == [i \in DOMAIN bulk |-> [bulk[i] EXCEPT !.id = txAuto + i]]
<1>1. /\ up /\ tx' = tx \o rows /\ txAuto' = txAuto + Len(bulk) /\ bulk' = <<>>
      /\ up' \in BOOLEAN /\ lastTxPkId' = lastTxPkId
  BY DEF InsertBlock, memVars
<1>2. IsTxs(tx) /\ IsTxs(bulk) /\ txAuto \in Nat /\ Len(tx) <= txAuto
  BY DEF IInv
<1>3. /\ IsTxs(rows) /\ Len(rows) = Len(bulk)
      /\ \A i \in 1..Len(bulk) : /\ rows[i].id = txAuto + i
                                 /\ rows[i].key = bulk[i].key
                                 /\ rows[i].vins = bulk[i].vins
  BY <1>2, RowsOfBulk
<1> HIDE DEF rows
<1>4. /\ IsTxs(tx') /\ Len(tx') = Len(tx) + Len(bulk)
      /\ Len(tx) \in Nat /\ Len(bulk) \in Nat
      /\ \A i \in 1..Len(tx) : tx'[i] = tx[i]
      /\ \A i \in 1..Len(bulk) : tx'[Len(tx) + i] = rows[i]
  <2>1. tx' = Joined(tx, rows) /\ IsTxs(tx) /\ IsTxs(rows)
    BY <1>1, <1>2, <1>3 DEF Joined
  <2>2. /\ IsTxs(tx') /\ Len(tx') = Len(tx) + Len(rows)
        /\ Len(tx) \in Nat /\ Len(rows) \in Nat
        /\ \A i \in 1..Len(tx) : tx'[i] = tx[i]
        /\ \A i \in 1..Len(rows) : tx'[Len(tx) + i] = rows[i]
    <3>1. AreFirst(tx, tx') /\ AreBehind(tx, rows, tx')
      BY <2>1, ConcatTxs
    <3>2. /\ IsTxs(tx') /\ Len(tx') = Len(tx) + Len(rows)
          /\ Len(tx) \in Nat /\ Len(rows) \in Nat
      BY <2>1, ConcatTxs
    <3> QED BY <3>1, <3>2 DEF AreFirst, AreBehind
  <2> QED BY <2>2, <1>3
<1>5. IsTxs(bulk') /\ Len(bulk') = 0
  BY <1>1 DEF IsTxs
<1>6. ASSUME NEW i \in 1..Len(tx')
      PROVE  \/ i \in 1..Len(tx)
             \/ \E k \in 1..Len(bulk) : i = Len(tx) + k
  <2>1. i \in 1..Len(tx) \/ (i - Len(tx) \in 1..Len(bulk) /\ i = Len(tx) + (i - Len(tx)))
    BY <1>4
  <2> QED BY <2>1
<1>7. Placed'
  <2> SUFFICES ASSUME NEW i \in 1..Len(tx') PROVE tx'[i].key = i
    BY <1>5 DEF Placed
  <2>1. CASE i \in 1..Len(tx)
    BY <2>1, <1>4 DEF IInv, Placed
  <2>2. ASSUME NEW k \in 1..Len(bulk), i = Len(tx) + k PROVE tx'[i].key = i
    <3>1. bulk[k].key = Len(tx) + k BY DEF IInv, Placed
    <3> QED BY <3>1, <2>2, <1>3, <1>4
  <2> QED BY <2>1, <2>2, <1>6
<1>8. Numbered'
  <2> SUFFICES ASSUME txAuto' = Len(tx'), NEW i \in 1..Len(tx')
               PROVE  tx'[i].id = i /\ SpendsEarlier(tx'[i], i)
    BY <1>5 DEF Numbered
  <2>1. txAuto = Len(tx) BY <1>1, <1>2, <1>4
  <2>2. CASE i \in 1..Len(tx)
    <3>1. tx[i].id = i /\ SpendsEarlier(tx[i], i) BY <2>1, <2>2 DEF IInv, Numbered
    <3> QED BY <3>1, <2>2, <1>4
  <2>3. ASSUME NEW k \in 1..Len(bulk), i = Len(tx) + k
        PROVE  tx'[i].id = i /\ SpendsEarlier(tx'[i], i)
    <3>1. SpendsEarlier(bulk[k], Len(tx) + k) BY <2>1 DEF IInv, Numbered
    <3>2. /\ tx'[i] = rows[k] /\ rows[k].id = Len(tx) + k
          /\ rows[k].vins = bulk[k].vins
      BY <2>1, <2>3, <1>3, <1>4
    <3>3. SpendsEarlier(rows[k], Len(tx) + k) BY <3>1, <3>2 DEF SpendsEarlier
    <3> QED BY <3>2, <3>3, <2>3
  <2> QED BY <2>2, <2>3, <1>6
<1>9. /\ txAuto' \in Nat /\ Len(tx') <= txAuto'
      /\ lastTxPkId' = Len(tx') + Len(bulk')
  BY <1>1, <1>2, <1>4, <1>5 DEF IInv
<1> QED BY <1>1, <1>4, <1>5, <1>7, <1>8, <1>9 DEF IInv

\* What is rolled back only takes numbers, and then nothing is claimed of them.
LEMMA NumbersLost ==
  ASSUME IInv, Consumed, UNCHANGED tx,
         \/ UNCHANGED <<up, lastTxPkId, bulk>>
         \/ ~up' /\ up' \in BOOLEAN /\ bulk' = <<>>
  PROVE  IInv'
<1>1. /\ IsTxs(tx) /\ IsTxs(bulk) /\ Len(tx) \in Nat /\ Len(bulk) \in Nat
      /\ txAuto \in Nat /\ Len(tx) <= txAuto
  BY LenProperties DEF IInv, IsTxs
<1>2. txAuto' \in Nat /\ txAuto <= txAuto' /\ Len(tx') = Len(tx)
  BY <1>1 DEF Consumed
<1>3. IsTxs(<<>>) /\ Len(<<>>) = 0 BY DEF IsTxs
<1>4. CASE UNCHANGED <<up, lastTxPkId, bulk>>
  <2>1. Placed' BY <1>4 DEF IInv, Placed
  <2>2. Numbered'
    <3> SUFFICES ASSUME txAuto' = Len(tx') PROVE Numbered'
      BY DEF Numbered
    <3>1. txAuto = Len(tx) BY <1>1, <1>2
    <3> QED BY <3>1, <1>4 DEF IInv, Numbered, SpendsEarlier
  <2> QED BY <2>1, <2>2, <1>1, <1>2, <1>4 DEF IInv
<1>5. CASE ~up' /\ up' \in BOOLEAN /\ bulk' = <<>>
  <2>1. Placed' BY <1>3, <1>5 DEF IInv, Placed
  <2>2. Numbered'
    <3> SUFFICES ASSUME txAuto' = Len(tx'), NEW i \in 1..Len(tx)
                 PROVE  tx[i].id = i /\ SpendsEarlier(tx[i], i)
      BY <1>3, <1>5 DEF Numbered
    <3>1. txAuto = Len(tx) BY <1>1, <1>2
    <3> QED BY <3>1 DEF IInv, Numbered
  <2> QED BY <2>1, <2>2, <1>1, <1>2, <1>3, <1>5 DEF IInv
<1> QED BY <1>4, <1>5

\* The start takes the number of transactions for the last id, and has parsed none.
LEMMA StartStep == ASSUME IInv, Start PROVE IInv'
<1>1. /\ ~up /\ up' = TRUE /\ lastTxPkId' = Len(tx)
      /\ UNCHANGED <<bulk, tx, txAuto>>
  BY DEF Start, GetTxCount, dbVars
<1>2. bulk = <<>> /\ Len(bulk) = 0 /\ Len(tx) \in Nat
  BY <1>1, LenProperties DEF IInv, IsTxs
<1>3. Placed' /\ Numbered'
  BY <1>1 DEF IInv, Placed, Numbered
<1> QED BY <1>1, <1>2, <1>3 DEF IInv

\* Every step keeps the inductive invariant.
LEMMA NextIInv == ASSUME IInv, [Next]_vars PROVE IInv'
<1>1. CASE AppendTx BY <1>1, AppendTxStep
<1>2. CASE AppendTxVin BY <1>2, AppendTxVinStep
<1>3. CASE AppendTxVout BY <1>3, AppendTxVoutStep
<1>4. CASE AppendAsset BY <1>4, AppendAssetStep
<1>5. CASE UNCHANGED <<up, lastTxPkId, bulk, tx, txAuto>>
  <2>1. Placed' /\ Numbered' BY <1>5 DEF IInv, Placed, Numbered
  <2> QED BY <1>5, <2>1 DEF IInv
<1>6. CASE Nep5AssetId BY <1>6, <1>5 DEF Nep5AssetId, dbVars
<1>7. CASE InsertBlock BY <1>7, InsertBlockStep
<1>8. CASE LoseConnection
  BY <1>8, NumbersLost DEF LoseConnection, memVars
<1>9. CASE Crash
  BY <1>9, NumbersLost DEF Crash
<1>10. CASE Start BY <1>10, StartStep
<1>11. CASE UNCHANGED vars BY <1>11, <1>5 DEF vars, memVars, dbVars
<1> QED BY <1>1, <1>2, <1>3, <1>4, <1>6, <1>7, <1>8, <1>9, <1>10, <1>11 DEF Next

\* The inductive invariant holds in every reachable state of the id assignment
\* (parse.Txs, InsertBlock and the start of the process).
THEOREM IdsInvariance == Spec => []IInv
<1>1. Init => IInv BY InitIInv
<1>2. IInv /\ [Next]_vars => IInv' BY NextIInv
<1> QED BY <1>1, <1>2, PTL DEF Spec

\* As long as no rows of tx were rolled back, the tx_id that parse.Txs computes in
\* memory is the number MySQL gives the row, and every input has the tx_id of the
\* transaction it spends, over any number of crashes and lost connections.
THEOREM TxIdsAgree == Spec => []TxIdsMatch
<1>1. ASSUME IInv PROVE TxIdsMatch
  <2> SUFFICES ASSUME txAuto = Len(tx), NEW i \in DOMAIN tx
               PROVE  /\ tx[i].id = tx[i].key
                      /\ \A j \in DOMAIN tx[i].vins :
                           tx[i].vins[j].txid = tx[tx[i].vins[j].spends].key
    BY DEF TxIdsMatch
  <2>1. IsTxs(tx) /\ Len(tx) \in Nat /\ i \in 1..Len(tx) /\ IsTx(tx[i])
    BY <1>1, LenProperties DEF IInv, IsTxs
  <2>2. tx[i].id = i /\ tx[i].key = i /\ SpendsEarlier(tx[i], i)
    BY <1>1, <2>1 DEF IInv, Placed, Numbered
  <2>3. ASSUME NEW j \in DOMAIN tx[i].vins
        PROVE  tx[i].vins[j].txid = tx[tx[i].vins[j].spends].key
    <3>1. j \in 1..Len(tx[i].vins) BY <2>1, LenProperties DEF IsTx
    <3>2. /\ tx[i].vins[j].spends \in 1..(i - 1)
          /\ tx[i].vins[j].txid = tx[i].vins[j].spends
      BY <3>1, <2>2 DEF SpendsEarlier
    <3>3. tx[i].vins[j].spends \in 1..Len(tx) BY <3>2, <2>1
    <3>4. tx[tx[i].vins[j].spends].key = tx[i].vins[j].spends
      BY <1>1, <3>3 DEF IInv, Placed
    <3> QED BY <3>2, <3>4
  <2> QED BY <2>2, <2>3
<1> QED BY <1>1, IdsInvariance, PTL
-----------------------------------------------------------------------------
(* The second invariant: what the ids of addresses and assets are.         *)

Vout == [addr : Addrs, addrId : Nat, asset : Assets, assetId : Nat \ {0}]

\* Outputs and registrations of transactions.
Shaped(txs) == \A i \in 1..Len(txs) : txs[i].vouts \in Seq(Vout) /\ txs[i].reg \subseteq Assets

AddrsIn(rows) == {v.addr : v \in rows}
IdsIn(rows) == {v.addrId : v \in rows}
OneToOne(rows) == \A v, w \in rows : v.addr = w.addr <=> v.addrId = w.addrId

\* The assets that the transactions register.
RegIn(txs) == {h \in Assets : \E i \in 1..Len(txs) : h \in txs[i].reg}

IdTypes ==
  /\ retried \in BOOLEAN
  /\ LastAddrPkId \in Nat
  /\ AssetMap \in [Hashes -> Nat] /\ assetMaxID \in Nat
  /\ assetAuto \in Nat /\ asset \in [Assets -> 0..assetAuto]
  /\ late \subseteq Assets
  /\ \A i \in 1..Len(tx) : tx[i].id \in 1..txAuto
  /\ Shaped(tx) /\ Shaped(bulk)

\* Addresses and their ids are one to one, in the database and with what is parsed;
\* the ids are the first numbers, as many as there are addresses.
AddrsNumbered ==
  /\ OneToOne(Rows(tx) \cup Rows(bulk))
  /\ IdsIn(Rows(tx)) = 1..Cardinality(AddrsIn(Rows(tx)))
  /\ up => /\ IdsIn(Rows(tx) \cup Rows(bulk)) = 1..LastAddrPkId
           /\ Cardinality(AddrsIn(Rows(tx) \cup Rows(bulk))) = LastAddrPkId

\* An asset is registered once, by a transaction of its own, and has a row when that
\* transaction is in the database.
RegisteredOnce ==
  /\ AssetRows = RegIn(tx)
  /\ \A i, j \in 1..Len(bulk) : \A g \in bulk[i].reg, h \in bulk[j].reg :
       (g = h <=> i = j)
  /\ RegIn(bulk) \cap AssetRows = {}

\* Rows of table asset have numbers of their own.
RowsDistinct == \A g, h \in AssetRows : asset[g] = asset[h] => g = h

\* No rows of asset were rolled back.
NoneLost == assetAuto = Cardinality(AssetRows)

\* Then the cache gives no id twice, and the next one is the next number of the table
\* until a contract takes one.
CacheDistinct ==
  NoneLost =>
    /\ \A g, h \in Hashes : AssetMap[g] = AssetMap[h] => g = h \/ AssetMap[g] = NoId
    /\ \A h \in Hashes : AssetMap[h] <= assetMaxID
    /\ up /\ (\A c \in Contracts : AssetMap[c] = NoId) =>
         assetMaxID = assetAuto + Cardinality(Registering)

\* The cache knows the registered assets, and has for those in time the id of the row
\* that they have or will have.
CacheKnows ==
  up => /\ \A h \in Assets : AssetMap[h] # NoId <=> h \in RegIn(tx) \cup RegIn(bulk)
        /\ \A h \in AssetRows \ late : AssetMap[h] = asset[h]
        /\ \A h \in RegIn(bulk) \ late : AssetMap[h] = assetAuto + PlaceOf(h)

\* Outputs pay registered assets, and have the id of the row, or of the cache.
OutputsPay ==
  /\ \A v \in Rows(tx) : /\ v.asset \in AssetRows
                         /\ v.asset \notin late => v.assetId = asset[v.asset]
  /\ \A v \in Rows(bulk) : /\ v.asset \in RegIn(tx) \cup RegIn(bulk)
                           /\ v.asset \notin late => v.assetId = AssetMap[v.asset]

\* Inductive together with IInv.
IdInv == /\ IdTypes /\ AddrsNumbered /\ RegisteredOnce /\ RowsDistinct
         /\ CacheDistinct /\ CacheKnows /\ OutputsPay

-----------------------------------------------------------------------------
(* Lemmas about outputs and registrations.                                 *)

\* The indices of transactions, and their rows.
LEMMA RowsAt ==
  ASSUME NEW txs, IsTxs(txs)
  PROVE  /\ DOMAIN txs = 1..Len(txs) /\ Len(txs) \in Nat
         /\ \A v : v \in Rows(txs) <=> \E i \in 1..Len(txs) : v \in ToSet(txs[i].vouts)
<1>1. DOMAIN txs = 1..Len(txs) /\ Len(txs) \in Nat
  BY LenProperties DEF IsTxs
<1> QED BY <1>1, Zenon DEF Rows

\* The outputs of txs, and none in what is added.
SameOuts(txs, new) ==
  /\ Len(txs) <= Len(new)
  /\ \A i \in 1..Len(txs) : new[i].vouts = txs[i].vouts
  /\ \A i \in 1..Len(new) : i \in 1..Len(txs) \/ new[i].vouts = <<>>

LEMMA OutsKept ==
  ASSUME NEW txs, IsTxs(txs), NEW new, IsTxs(new), SameOuts(txs, new)
  PROVE  Rows(new) = Rows(txs)
<1>1. Len(txs) \in Nat /\ Len(new) \in Nat BY RowsAt
<1>2. \A v : v \in Rows(new) <=> \E i \in 1..Len(new) : v \in ToSet(new[i].vouts)
  BY RowsAt
<1>3. \A v : v \in Rows(txs) <=> \E i \in 1..Len(txs) : v \in ToSet(txs[i].vouts)
  BY RowsAt
<1>4. \A v : v \notin ToSet(<<>>) BY DEF ToSet
<1>5. ASSUME NEW v \in Rows(new) PROVE v \in Rows(txs)
  <2>1. PICK i \in 1..Len(new) : v \in ToSet(new[i].vouts) BY <1>2
  <2>2. i \in 1..Len(txs) BY <2>1, <1>4 DEF SameOuts
  <2>3. new[i].vouts = txs[i].vouts BY <2>2 DEF SameOuts
  <2> QED BY <2>1, <2>2, <2>3, <1>3
<1>6. ASSUME NEW v \in Rows(txs) PROVE v \in Rows(new)
  <2>1. PICK i \in 1..Len(txs) : v \in ToSet(txs[i].vouts) BY <1>3
  <2>2. i \in 1..Len(new) BY <1>1 DEF SameOuts
  <2>3. new[i].vouts = txs[i].vouts BY DEF SameOuts
  <2> QED BY <2>1, <2>2, <2>3, <1>2
<1> QED BY <1>5, <1>6

\* The registrations of txs, and none in what is added.
SameRegs(txs, new) ==
  /\ Len(txs) <= Len(new)
  /\ \A i \in 1..Len(txs) : new[i].reg = txs[i].reg
  /\ \A i \in 1..Len(new) : i \in 1..Len(txs) \/ new[i].reg = {}

LEMMA RegsKept ==
  ASSUME NEW txs, IsTxs(txs), NEW new, IsTxs(new), SameRegs(txs, new)
  PROVE  RegIn(new) = RegIn(txs)
<1>1. Len(txs) \in Nat /\ Len(new) \in Nat BY RowsAt
<1>2. ASSUME NEW h \in RegIn(new) PROVE h \in RegIn(txs)
  <2>1. PICK i \in 1..Len(new) : h \in new[i].reg BY DEF RegIn
  <2>2. i \in 1..Len(txs) BY <2>1 DEF SameRegs
  <2>3. new[i].reg = txs[i].reg BY <2>2 DEF SameRegs
  <2> QED BY <2>1, <2>2, <2>3 DEF RegIn
<1>3. ASSUME NEW h \in RegIn(txs) PROVE h \in RegIn(new)
  <2>1. PICK i \in 1..Len(txs) : h \in txs[i].reg BY DEF RegIn
  <2>2. i \in 1..Len(new) BY <1>1 DEF SameRegs
  <2>3. new[i].reg = txs[i].reg BY DEF SameRegs
  <2> QED BY <2>1, <2>2, <2>3 DEF RegIn
<1> QED BY <1>2, <1>3

\* Then the places of the registrations are the same.
LEMMA PlacesKept ==
  ASSUME IsTxs(bulk), IsTxs(bulk)', SameRegs(bulk, bulk')
  PROVE  /\ Registering' = Registering
         /\ \A h \in Assets : PlaceOf(h)' = PlaceOf(h)
<1>1. /\ Len(bulk) \in Nat /\ Len(bulk') \in Nat
      /\ DOMAIN bulk = 1..Len(bulk) /\ DOMAIN bulk' = 1..Len(bulk')
  <2>1. Len(bulk) \in Nat /\ DOMAIN bulk = 1..Len(bulk) BY RowsAt
  <2>2. Len(bulk') \in Nat /\ DOMAIN bulk' = 1..Len(bulk') BY RowsAt
  <2> QED BY <2>1, <2>2
<1>2. \A i \in 1..Len(bulk) : i \in 1..Len(bulk') /\ bulk'[i].reg = bulk[i].reg
  BY <1>1 DEF SameRegs
<1>3. \A i \in 1..Len(bulk') : bulk'[i].reg # {} => i \in 1..Len(bulk)
  BY DEF SameRegs
<1>4. Registering' = Registering
  BY <1>1, <1>2, <1>3 DEF Registering
<1>5. \A j \in Registering : bulk'[j].reg = bulk[j].reg
  BY <1>1, <1>2 DEF Registering
<1>6. ASSUME NEW h \in Assets PROVE PlaceOf(h)' = PlaceOf(h)
  <2> DEFINE S == {i \in Registering : \E j \in Registering : i <= j /\ h \in bulk[j].reg}
             T == {i \in Registering' : \E j \in Registering' : i <= j /\ h \in bulk'[j].reg}
  <2>1. S = T BY <1>4, <1>5
  <2>2. PlaceOf(h) = Cardinality(S) BY DEF PlaceOf
  <2>3. PlaceOf(h)' = Cardinality(T) BY DEF PlaceOf
  <2> QED BY <2>1, <2>2, <2>3
<1> QED BY <1>4, <1>6

\* Registrations and outputs of joined transactions.
LEMMA JoinedParts ==
  ASSUME NEW a, IsTxs(a), NEW b, IsTxs(b)
  PROVE  /\ Rows(a \o b) = Rows(a) \cup Rows(b)
         /\ RegIn(a \o b) = RegIn(a) \cup RegIn(b)
         /\ IsTxs(a \o b)
<1> DEFINE new == Joined(a, b)
<1>1. /\ IsTxs(new) /\ Len(new) = Len(a) + Len(b) /\ Len(a) \in Nat /\ Len(b) \in Nat
      /\ AreFirst(a, new) /\ AreBehind(a, b, new)
  BY ConcatTxs
<1>2. a \o b = new BY DEF Joined
<1> HIDE DEF new
<1>3. /\ \A i \in 1..Len(a) : i \in 1..Len(new) /\ new[i] = a[i]
      /\ \A i \in 1..Len(b) : Len(a) + i \in 1..Len(new) /\ new[Len(a) + i] = b[i]
  BY <1>1 DEF AreFirst, AreBehind
<1>4. ASSUME NEW i \in 1..Len(new)
      PROVE  \/ i \in 1..Len(a) /\ new[i] = a[i]
             \/ i - Len(a) \in 1..Len(b) /\ new[i] = b[i - Len(a)]
  <2>1. i \in 1..Len(a) \/ i - Len(a) \in 1..Len(b) BY <1>1
  <2>2. CASE i - Len(a) \in 1..Len(b)
    <3>1. Len(a) + (i - Len(a)) = i BY <1>1
    <3>2. new[Len(a) + (i - Len(a))] = b[i - Len(a)] BY <2>2, <1>3
    <3> QED BY <3>1, <3>2, <2>2
  <2> QED BY <2>1, <2>2, <1>3
<1>5. /\ \A v : v \in Rows(new) <=> \E i \in 1..Len(new) : v \in ToSet(new[i].vouts)
      /\ \A v : v \in Rows(a) <=> \E i \in 1..Len(a) : v \in ToSet(a[i].vouts)
      /\ \A v : v \in Rows(b) <=> \E i \in 1..Len(b) : v \in ToSet(b[i].vouts)
  BY <1>1, RowsAt
<1>6. ASSUME NEW v PROVE v \in Rows(new) <=> v \in Rows(a) \cup Rows(b)
  BY <1>3, <1>4, <1>5
<1>7. ASSUME NEW h PROVE h \in RegIn(new) <=> h \in RegIn(a) \cup RegIn(b)
  BY <1>3, <1>4 DEF RegIn
<1> QED BY <1>1, <1>2, <1>6, <1>7

\* What is registered, in terms of the two sequences.
LEMMA RegisteredParts ==
  ASSUME IsTxs(tx), IsTxs(bulk), Shaped(tx), Shaped(bulk)
  PROVE  Registered = RegIn(tx) \cup RegIn(bulk)
<1> DEFINE all == tx \o bulk
<1>1. IsTxs(all) /\ RegIn(all) = RegIn(tx) \cup RegIn(bulk) BY JoinedParts
<1>2. DOMAIN all = 1..Len(all) BY <1>1, RowsAt
<1>3. Registered = UNION {t.reg : t \in ToSet(all)} BY DEF Registered
<1>4. \A h : h \in Registered <=> \E i \in 1..Len(all) : h \in all[i].reg
  BY <1>2, <1>3, Zenon DEF ToSet
<1>5. \A i \in 1..Len(all) : all[i].reg \subseteq Assets
  <2>1. /\ IsTxs(Joined(tx, bulk)) /\ Len(all) = Len(tx) + Len(bulk)
        /\ Len(tx) \in Nat /\ Len(bulk) \in Nat
        /\ AreFirst(tx, all) /\ AreBehind(tx, bulk, all)
    BY ConcatTxs DEF Joined
  <2> HIDE DEF all
  <2> TAKE i \in 1..Len(all)
  <2>2. i \in 1..Len(tx) \/ i - Len(tx) \in 1..Len(bulk) BY <2>1
  <2>3. CASE i \in 1..Len(tx)
    BY <2>1, <2>3 DEF AreFirst, Shaped
  <2>4. CASE i - Len(tx) \in 1..Len(bulk)
    <3>1. Len(tx) + (i - Len(tx)) = i BY <2>1
    <3>2. all[Len(tx) + (i - Len(tx))] = bulk[i - Len(tx)]
      BY <2>1, <2>4 DEF AreBehind
    <3> QED BY <3>1, <3>2, <2>4 DEF Shaped
  <2> QED BY <2>2, <2>3, <2>4
<1> HIDE DEF all
<1> QED BY <1>1, <1>4, <1>5 DEF RegIn

\* An output added to outputs: of an address that is there, with its id, or of a new
\* address, with the next one.
LEMMA NewOutput ==
  ASSUME IsFiniteSet(Addrs), NEW n \in Nat,
         NEW rows, AddrsIn(rows) \subseteq Addrs, OneToOne(rows),
         IdsIn(rows) = 1..n, Cardinality(AddrsIn(rows)) = n,
         NEW v, v.addr \in Addrs,
         IF v.addr \in AddrsIn(rows) THEN \E w \in rows : w.addr = v.addr /\ w.addrId = v.addrId
                                     ELSE v.addrId = n + 1
  PROVE  LET m == IF v.addr \in AddrsIn(rows) THEN n ELSE n + 1
         IN  /\ OneToOne(rows \cup {v})
             /\ IdsIn(rows \cup {v}) = 1..m
             /\ Cardinality(AddrsIn(rows \cup {v})) = m
<1> DEFINE all == rows \cup {v}
<1>1. AddrsIn(all) = AddrsIn(rows) \cup {v.addr} /\ IdsIn(all) = IdsIn(rows) \cup {v.addrId}
  BY DEF AddrsIn, IdsIn
<1>2. \A w \in rows : w.addr \in AddrsIn(rows) /\ w.addrId \in IdsIn(rows)
  BY DEF AddrsIn, IdsIn
<1>3. CASE v.addr \in AddrsIn(rows)
  <2>1. PICK u \in rows : u.addr = v.addr /\ u.addrId = v.addrId BY <1>3
  <2>2. \A w \in rows : w.addr = v.addr <=> w.addrId = v.addrId
    BY <2>1 DEF OneToOne
  <2>3. OneToOne(all) BY <2>2 DEF OneToOne
  <2>4. AddrsIn(all) = AddrsIn(rows) /\ IdsIn(all) = IdsIn(rows)
    BY <1>1, <1>2, <2>1
  <2> QED BY <2>3, <2>4, <1>3
<1>4. CASE v.addr \notin AddrsIn(rows)
  <2>1. v.addrId = n + 1 BY <1>4
  <2>2. \A w \in rows : w.addr # v.addr /\ w.addrId # v.addrId
    BY <1>2, <1>4, <2>1
  <2>3. OneToOne(all) BY <2>2 DEF OneToOne
  <2>4. IdsIn(all) = 1..(n + 1)
    <3>1. 1..(n + 1) = (1..n) \cup {n + 1} OBVIOUS
    <3>2. IdsIn(all) = (1..n) \cup {n + 1} BY <1>1, <2>1
    <3> QED BY <3>1, <3>2
  <2>5. IsFiniteSet(AddrsIn(rows)) BY FS_Subset
  <2>6. Cardinality(AddrsIn(rows) \cup {v.addr}) = n + 1
    BY <2>5, <1>4, FS_AddElement
  <2> QED BY <1>1, <1>4, <2>3, <2>4, <2>6
<1> QED BY <1>3, <1>4

\* The places of the registered assets among the registering transactions.
LEMMA Places ==
  ASSUME IsTxs(bulk), Shaped(bulk), RegisteredOnce
  PROVE  /\ Cardinality(Registering) \in Nat /\ IsFiniteSet(Registering)
         /\ \A h \in RegIn(bulk) : PlaceOf(h) \in 1..Cardinality(Registering)
         /\ \A g, h \in RegIn(bulk) : PlaceOf(g) = PlaceOf(h) => g = h
         /\ IsFiniteSet(RegIn(bulk))
         /\ Cardinality(RegIn(bulk)) <= Cardinality(Registering)
<1>1. DOMAIN bulk = 1..Len(bulk) /\ Len(bulk) \in Nat BY RowsAt
<1>2. IsFiniteSet(Registering) /\ Cardinality(Registering) \in Nat
  <2>1. IsFiniteSet(1..Len(bulk)) BY <1>1, FS_Interval
  <2>2. Registering \subseteq 1..Len(bulk) BY <1>1 DEF Registering
  <2> QED BY <2>1, <2>2, FS_Subset, FS_CardinalityType
<1> DEFINE upTo(i) == {k \in Registering : k <= i}
<1>3. \A h \in RegIn(bulk) : \E i \in Registering : h \in bulk[i].reg
  BY <1>1 DEF RegIn, Registering
<1>4. ASSUME NEW h \in RegIn(bulk), NEW i \in Registering, h \in bulk[i].reg
      PROVE  PlaceOf(h) = Cardinality(upTo(i))
  <2>1. \A j \in Registering : h \in bulk[j].reg => j = i
    BY <1>1, <1>4 DEF RegisteredOnce, Registering
  <2>2. {k \in Registering : \E j \in Registering : k <= j /\ h \in bulk[j].reg} = upTo(i)
    BY <1>4, <2>1
  <2> QED BY <2>2 DEF PlaceOf
<1>5. \A i \in Registering : IsFiniteSet(upTo(i)) /\ upTo(i) \subseteq Registering
  BY <1>2, FS_Subset
<1>6. Registering \subseteq Nat BY <1>1 DEF Registering
<1>7. ASSUME NEW h \in RegIn(bulk) PROVE PlaceOf(h) \in 1..Cardinality(Registering)
  <2>1. PICK i \in Registering : h \in bulk[i].reg BY <1>3
  <2>2. i \in upTo(i) BY <1>6
  <2>3. IsFiniteSet(upTo(i)) /\ upTo(i) \in SUBSET Registering BY <1>5
  <2>4. Cardinality(upTo(i)) <= Cardinality(Registering) BY <2>3, <1>2, FS_Subset
  <2>5. Cardinality(upTo(i)) \in Nat BY <2>3, FS_CardinalityType
  <2>6. Cardinality(upTo(i)) # 0 BY <2>2, <2>3, FS_EmptySet
  <2>7. PlaceOf(h) = Cardinality(upTo(i)) BY <1>4, <2>1
  <2> HIDE DEF upTo
  <2> QED BY <2>4, <2>5, <2>6, <2>7, <1>2
<1>8. ASSUME NEW i \in Registering, NEW k \in Registering, i < k
      PROVE  Cardinality(upTo(i)) # Cardinality(upTo(k))
  <2>1. upTo(i) \in SUBSET upTo(k) /\ k \in upTo(k) /\ k \notin upTo(i)
    <3>1. i \in Nat /\ k \in Nat /\ ~(k <= i) /\ k <= k BY <1>6, <1>8
    <3>2. \A x \in Registering : x <= i => x <= k
      <4> TAKE x \in Registering
      <4>1. x \in Nat BY <1>6
      <4> QED BY <4>1, <3>1, <1>8
    <3> QED BY <3>1, <3>2
  <2>2. IsFiniteSet(upTo(k)) BY <1>5
  <2> HIDE DEF upTo
  <2>3. Cardinality(upTo(k)) = Cardinality(upTo(i)) => upTo(k) = upTo(i)
    BY <2>1, <2>2, FS_Subset
  <2> QED BY <2>1, <2>3
<1>9. ASSUME NEW g \in RegIn(bulk), NEW h \in RegIn(bulk), PlaceOf(g) = PlaceOf(h)
      PROVE  g = h
  <2>1. PICK i \in Registering : g \in bulk[i].reg BY <1>3
  <2>2. PICK k \in Registering : h \in bulk[k].reg BY <1>3
  <2>3. PlaceOf(g) = Cardinality(upTo(i)) BY <1>4, <2>1
  <2>4. PlaceOf(h) = Cardinality(upTo(k)) BY <1>4, <2>2
  <2> HIDE DEF upTo
  <2>5. ~(i < k) /\ ~(k < i) BY <1>8, <1>9, <2>3, <2>4
  <2>6. i = k BY <1>6, <2>5
  <2> QED BY <1>1, <2>1, <2>2, <2>6 DEF RegisteredOnce, Registering
<1>10. /\ IsFiniteSet(RegIn(bulk))
       /\ Cardinality(RegIn(bulk)) <= Cardinality(Registering)
  <2> DEFINE n == Cardinality(Registering)
             f == [h \in RegIn(bulk) |-> PlaceOf(h)]
  <2>1. IsFiniteSet(1..n) /\ Cardinality(1..n) = n
    BY <1>2, FS_Interval
  <2>2. f \in Injection(RegIn(bulk), 1..n)
    BY <1>7, <1>9 DEF Injection, IsInjective
  <2> HIDE DEF f, n
  <2>3. IsFiniteSet(RegIn(bulk)) /\ Cardinality(RegIn(bulk)) <= Cardinality(1..n)
    BY <2>1, <2>2, FS_Injection
  <2> QED BY <2>1, <2>3 DEF n
<1> QED BY <1>2, <1>7, <1>9, <1>10

\* The rows of table asset are not more than the numbers it gave.
LEMMA RowsFit ==
  ASSUME IsFiniteSet(Assets), IdTypes, RowsDistinct
  PROVE  /\ IsFiniteSet(AssetRows) /\ Cardinality(AssetRows) \in Nat
         /\ Cardinality(AssetRows) <= assetAuto
<1> DEFINE f == [h \in AssetRows |-> asset[h]]
<1>1. assetAuto \in Nat /\ asset \in [Assets -> 0..assetAuto] BY DEF IdTypes
<1>2. \A h \in AssetRows : h \in Assets /\ asset[h] \in 1..assetAuto
  BY <1>1 DEF AssetRows, NoId
<1>3. f \in Injection(AssetRows, 1..assetAuto)
  BY <1>2 DEF RowsDistinct, Injection, IsInjective
<1>4. IsFiniteSet(1..assetAuto) /\ Cardinality(1..assetAuto) = assetAuto
  BY <1>1, FS_Interval
<1> HIDE DEF f
<1>5. IsFiniteSet(AssetRows) /\ Cardinality(AssetRows) <= Cardinality(1..assetAuto)
  BY <1>3, <1>4, FS_Injection
<1> QED BY <1>4, <1>5, FS_CardinalityType
-----------------------------------------------------------------------------
(* The second invariant, step by step.                                     *)

\* Nothing is numbered at first.
LEMMA InitIdInv == Init => IdInv
<1> SUFFICES ASSUME Init PROVE IdInv
  OBVIOUS
<1>1. /\ tx = <<>> /\ bulk = <<>> /\ Len(tx) = 0 /\ Len(bulk) = 0
      /\ up = TRUE /\ retried = FALSE
      /\ LastAddrPkId = 0 /\ assetMaxID = 0 /\ txAuto = 0 /\ assetAuto = 0
      /\ AssetMap = [h \in Hashes |-> NoId] /\ asset = [h \in Assets |-> NoId]
      /\ late = {}
  BY DEF Init
<1>2. Rows(tx) = {} /\ Rows(bulk) = {} /\ RegIn(tx) = {} /\ RegIn(bulk) = {}
  BY <1>1 DEF Rows, RegIn
<1>3. AssetRows = {} /\ Registering = {}
  BY <1>1 DEF AssetRows, Registering
<1>4. Cardinality({}) = 0 BY FS_EmptySet
<1>5. IdTypes
  <2>1. AssetMap \in [Hashes -> Nat] /\ asset \in [Assets -> 0..0]
    BY <1>1 DEF NoId
  <2>2. Shaped(tx) /\ Shaped(bulk) BY <1>1 DEF Shaped
  <2>3. \A i \in 1..Len(tx) : tx[i].id \in 1..txAuto BY <1>1
  <2> QED BY <1>1, <2>1, <2>2, <2>3 DEF IdTypes
<1>6. AddrsNumbered
  <2>1. IdsIn({}) = {} /\ AddrsIn({}) = {} /\ OneToOne({})
    BY DEF IdsIn, AddrsIn, OneToOne
  <2>2. 1..0 = {} OBVIOUS
  <2> QED BY <1>1, <1>2, <1>4, <2>1, <2>2 DEF AddrsNumbered
<1>7. RegisteredOnce /\ RowsDistinct /\ OutputsPay
  BY <1>1, <1>2, <1>3 DEF RegisteredOnce, RowsDistinct, OutputsPay
<1>8. CacheDistinct
  <2>1. \A h \in Hashes : AssetMap[h] = 0 BY <1>1 DEF NoId
  <2>2. Cardinality(Registering) = 0 BY <1>3, <1>4
  <2> QED BY <1>1, <2>1, <2>2 DEF CacheDistinct, NoId
<1>9. CacheKnows BY <1>1, <1>2, <1>3 DEF CacheKnows, Hashes, NoId
<1> QED BY <1>5, <1>6, <1>7, <1>8, <1>9 DEF IdInv

\* Steps that register nothing and give no asset id.
LEMMA AssetsKept ==
  ASSUME RegisteredOnce, RowsDistinct, CacheDistinct, CacheKnows,
         IsTxs(bulk), IsTxs(bulk)', SameRegs(bulk, bulk'),
         UNCHANGED <<up, AssetMap, assetMaxID, tx, asset, assetAuto, late>>
  PROVE  /\ (RegisteredOnce /\ RowsDistinct /\ CacheDistinct /\ CacheKnows)'
         /\ RegIn(bulk') = RegIn(bulk) /\ AssetRows' = AssetRows
<1>1. /\ Registering' = Registering /\ RegIn(bulk') = RegIn(bulk)
      /\ \A h \in Assets : PlaceOf(h)' = PlaceOf(h)
  BY PlacesKept, RegsKept
<1>2. AssetRows' = AssetRows BY DEF AssetRows
<1>3. RegIn(bulk) \subseteq Assets BY DEF RegIn
<1>4. RegisteredOnce'
  <2>1. \A i \in 1..Len(bulk') : bulk'[i].reg # {} =>
          i \in 1..Len(bulk) /\ bulk'[i].reg = bulk[i].reg
    BY DEF SameRegs
  <2>2. \A i, j \in 1..Len(bulk') : \A g \in bulk'[i].reg, h \in bulk'[j].reg :
          (g = h <=> i = j)
    <3> TAKE i, j \in 1..Len(bulk')
    <3> TAKE g \in bulk'[i].reg, h \in bulk'[j].reg
    <3>1. /\ i \in 1..Len(bulk) /\ bulk'[i].reg = bulk[i].reg
          /\ j \in 1..Len(bulk) /\ bulk'[j].reg = bulk[j].reg
      BY <2>1
    <3> QED BY <3>1 DEF RegisteredOnce
  <2>3. AssetRows' = RegIn(tx') /\ RegIn(bulk') \cap AssetRows' = {}
    BY <1>1, <1>2 DEF RegisteredOnce
  <2> QED BY <2>2, <2>3 DEF RegisteredOnce
<1>5. RowsDistinct' BY <1>2 DEF RowsDistinct
<1>6. CacheDistinct' BY <1>1, <1>2 DEF CacheDistinct, NoneLost
<1>7. CacheKnows' BY <1>1, <1>2, <1>3 DEF CacheKnows
<1> QED BY <1>1, <1>2, <1>4, <1>5, <1>6, <1>7

\* Steps that add no output and no registration.
LEMMA NothingNew ==
  ASSUME IInv, IdInv, IsTxs(bulk)', Shaped(bulk)',
         SameOuts(bulk, bulk'), SameRegs(bulk, bulk'),
         UNCHANGED <<up, LastAddrPkId, AssetMap, assetMaxID, dbVars, retried, late>>
  PROVE  IdInv'
<1>1. /\ IsTxs(bulk) /\ Rows(bulk') = Rows(bulk)
  BY OutsKept DEF IInv
<1>2. /\ (RegisteredOnce /\ RowsDistinct /\ CacheDistinct /\ CacheKnows)'
      /\ RegIn(bulk') = RegIn(bulk) /\ AssetRows' = AssetRows
  BY <1>1, AssetsKept DEF IdInv, dbVars
<1>3. IdTypes' BY DEF IdInv, IdTypes, dbVars, Shaped
<1>4. AddrsNumbered' BY <1>1 DEF IdInv, AddrsNumbered, dbVars
<1>5. OutputsPay' BY <1>1, <1>2 DEF IdInv, OutputsPay, dbVars
<1> QED BY <1>2, <1>3, <1>4, <1>5 DEF IdInv

LEMMA AppendTxIds == ASSUME IInv, IdInv, IInv', AppendTx PROVE IdInv'
<1> DEFINE t == NoRow(lastTxPkId + 1)
<1>1. /\ bulk' = Append(bulk, t) /\ IsTxs(bulk) /\ IsTxs(bulk)'
      /\ UNCHANGED <<up, LastAddrPkId, AssetMap, assetMaxID, dbVars, retried, late>>
  BY DEF AppendTx, IInv
<1>2. t.vouts = <<>> /\ t.reg = {} BY DEF NoRow
<1> HIDE DEF t
<1>3. /\ Len(bulk) \in Nat /\ Len(bulk') = Len(bulk) + 1
      /\ \A i \in 1..Len(bulk) : bulk'[i] = bulk[i]
      /\ bulk'[Len(bulk) + 1] = t
  <2>1. bulk \in Seq({bulk[i] : i \in 1..Len(bulk)} \cup {t})
    BY <1>1, SeqMonotonic DEF IsTxs
  <2> QED BY <1>1, <2>1, AppendProperties, LenProperties
<1>4. \A i \in 1..Len(bulk') : i \in 1..Len(bulk) \/ bulk'[i] = t
  <2> TAKE i \in 1..Len(bulk')
  <2>1. i \in 1..Len(bulk) \/ i = Len(bulk) + 1 BY <1>3
  <2> QED BY <2>1, <1>3
<1>5. SameOuts(bulk, bulk') BY <1>2, <1>3, <1>4 DEF SameOuts
<1>6. SameRegs(bulk, bulk') BY <1>2, <1>3, <1>4 DEF SameRegs
<1>7. Shaped(bulk)'
  <2>1. <<>> \in Seq(Vout) OBVIOUS
  <2>2. Shaped(bulk) BY DEF IdInv, IdTypes
  <2> QED BY <1>2, <1>3, <1>4, <2>1, <2>2 DEF Shaped
<1> QED BY <1>1, <1>5, <1>6, <1>7, NothingNew

\* The last transaction of txs is t.
LEMMA LastReplaced ==
  ASSUME NEW txs, IsTxs(txs), Shaped(txs), txs # <<>>,
         NEW t, t.vouts \in Seq(Vout), t.reg \subseteq Assets,
         NEW new, IsTxs(new), new = Replaced(txs, t)
  PROVE  /\ Len(new) = Len(txs) /\ Len(txs) \in Nat \ {0}
         /\ \A i \in 1..Len(txs) : new[i] = IF i = Len(txs) THEN t ELSE txs[i]
         /\ Shaped(new)
         /\ t.vouts = txs[Len(txs)].vouts => SameOuts(txs, new)
         /\ t.reg = txs[Len(txs)].reg => SameRegs(txs, new)
<1> DEFINE n == Len(txs)
<1>1. n \in Nat \ {0} /\ DOMAIN txs = 1..n
  BY EmptySeq, LenProperties DEF IsTxs
<1>2. DOMAIN new = 1..Len(new) /\ Len(new) \in Nat BY RowsAt
<1>3. DOMAIN new = 1..n /\ \A i \in 1..n : new[i] = IF i = n THEN t ELSE txs[i]
  BY <1>1 DEF Replaced
<1> HIDE DEF n
<1>4. Len(new) = n
  <2> DEFINE m == Len(new)
  <2>1. m \in Nat /\ n \in Nat /\ n >= 1 BY <1>1, <1>2
  <2>2. \A i : i \in 1..m <=> i \in 1..n BY <1>2, <1>3
  <2> HIDE DEF m
  <2>3. n \in 1..m BY <2>1, <2>2
  <2>4. m \in 1..m BY <2>1, <2>3
  <2>5. m \in 1..n BY <2>2, <2>4
  <2> QED BY <2>1, <2>3, <2>5 DEF m
<1>5. \A i \in 1..n : txs[i].vouts \in Seq(Vout) /\ txs[i].reg \subseteq Assets
  BY DEF Shaped, n
<1>6. Shaped(new)
  <2> SUFFICES ASSUME NEW i \in 1..n
               PROVE  new[i].vouts \in Seq(Vout) /\ new[i].reg \subseteq Assets
    BY <1>4 DEF Shaped
  <2>1. CASE i = n BY <2>1, <1>3
  <2>2. CASE i # n
    <3>1. new[i] = txs[i] BY <2>2, <1>3
    <3> QED BY <3>1, <1>5
  <2> QED BY <2>1, <2>2
<1>7. ASSUME t.vouts = txs[n].vouts PROVE SameOuts(txs, new)
  <2>1. \A i \in 1..n : new[i].vouts = txs[i].vouts BY <1>3, <1>7
  <2> QED BY <2>1, <1>1, <1>4 DEF SameOuts, n
<1>8. ASSUME t.reg = txs[n].reg PROVE SameRegs(txs, new)
  <2>1. \A i \in 1..n : new[i].reg = txs[i].reg BY <1>3, <1>8
  <2> QED BY <2>1, <1>1, <1>4 DEF SameRegs, n
<1> QED BY <1>1, <1>3, <1>4, <1>6, <1>7, <1>8 DEF n

LEMMA AppendTxVinIds == ASSUME IInv, IdInv, IInv', AppendTxVin PROVE IdInv'
<1> DEFINE n == Len(bulk)
<1>1. PICK target \in 1..(Len(tx) + Len(bulk) - 1) :
        bulk' = [bulk EXCEPT ![Len(bulk)].vins =
                   Append(@, [spends |-> target, txid |-> TxIDOf(target)])]
  BY DEF AppendTxVin
<1> DEFINE e == Append(bulk[n].vins, [spends |-> target, txid |-> TxIDOf(target)])
           t == [bulk[n] EXCEPT !.vins = e]
<1>2. /\ bulk' = Replaced(bulk, t) /\ bulk # <<>>
      /\ IsTxs(bulk) /\ IsTxs(bulk') /\ Shaped(bulk)
      /\ UNCHANGED <<up, LastAddrPkId, AssetMap, assetMaxID, dbVars, retried, late>>
  BY <1>1 DEF AppendTxVin, memVars, IInv, IdInv, IdTypes, Replaced
<1> HIDE DEF e
<1>3. n \in 1..n /\ IsTx(bulk[n])
  BY <1>2, LenProperties, EmptySeq DEF IsTxs
<1>4. t.vouts = bulk[n].vouts /\ t.reg = bulk[n].reg
  <2>1. t = [key |-> bulk[n].key, id |-> bulk[n].id, vins |-> e,
             vouts |-> bulk[n].vouts, reg |-> bulk[n].reg]
    BY <1>3, OtherFields
  <2> HIDE DEF t
  <2> QED BY <2>1
<1>5. bulk[n].vouts \in Seq(Vout) /\ bulk[n].reg \subseteq Assets
  BY <1>2, <1>3 DEF Shaped
<1> HIDE DEF t
<1>6. Shaped(bulk') /\ SameOuts(bulk, bulk') /\ SameRegs(bulk, bulk')
  BY <1>2, <1>4, <1>5, LastReplaced
<1>7. IsTxs(bulk)' /\ Shaped(bulk)' BY <1>2, <1>6
<1> QED BY <1>2, <1>6, <1>7, NothingNew

\* The outputs are outputs.
LEMMA RowsTyped ==
  ASSUME NEW txs, IsTxs(txs), Shaped(txs)
  PROVE  Rows(txs) \subseteq Vout
<1> SUFFICES ASSUME NEW v \in Rows(txs) PROVE v \in Vout
  OBVIOUS
<1>1. PICK i \in 1..Len(txs) : v \in ToSet(txs[i].vouts) BY RowsAt
<1>2. txs[i].vouts \in Seq(Vout) BY DEF Shaped
<1>3. PICK k \in DOMAIN txs[i].vouts : v = txs[i].vouts[k] BY <1>1 DEF ToSet
<1> QED BY <1>2, <1>3, LenProperties, ElementOfSeq

\* What appending an output adds.
LEMMA ToSetAppend ==
  ASSUME NEW S, NEW s \in Seq(S), NEW v \in S
  PROVE  ToSet(Append(s, v)) = ToSet(s) \cup {v}
<1>1. Len(s) \in Nat /\ DOMAIN s = 1..Len(s) BY LenProperties
<1>2. /\ Append(s, v) \in Seq(S) /\ Len(Append(s, v)) = Len(s) + 1
      /\ \A i \in 1..Len(s) : Append(s, v)[i] = s[i]
      /\ Append(s, v)[Len(s) + 1] = v
  BY AppendProperties
<1> DEFINE new == Append(s, v)
<1> HIDE DEF new
<1>3. DOMAIN new = 1..(Len(s) + 1) BY <1>2, LenProperties DEF new
<1>4. \A i \in 1..(Len(s) + 1) : i \in 1..Len(s) \/ i = Len(s) + 1 BY <1>1
<1>5. ASSUME NEW x PROVE x \in ToSet(new) <=> x \in ToSet(s) \cup {v}
  <2>1. x \in ToSet(new) <=> \E i \in 1..(Len(s) + 1) : x = new[i]
    BY <1>3 DEF ToSet
  <2>2. x \in ToSet(s) <=> \E i \in 1..Len(s) : x = s[i]
    BY <1>1 DEF ToSet
  <2>3. Len(s) + 1 \in 1..(Len(s) + 1) /\ \A i \in 1..Len(s) : i \in 1..(Len(s) + 1)
    BY <1>1
  <2> QED BY <2>1, <2>2, <2>3, <1>2, <1>4 DEF new
<1> QED BY <1>5 DEF new

\* The outputs of transactions, when the last one gets another.
LEMMA OutputAdded ==
  ASSUME NEW txs, IsTxs(txs), Shaped(txs), NEW new, IsTxs(new), NEW v \in Vout,
         Len(new) = Len(txs), Len(txs) # 0,
         \A i \in 1..Len(txs) :
           new[i].vouts = IF i = Len(txs) THEN Append(txs[i].vouts, v) ELSE txs[i].vouts
  PROVE  Rows(new) = Rows(txs) \cup {v}
<1> DEFINE n == Len(txs)
<1>1. n \in Nat /\ n \in 1..n BY RowsAt
<1>2. ToSet(Append(txs[n].vouts, v)) = ToSet(txs[n].vouts) \cup {v}
  BY <1>1, ToSetAppend DEF Shaped
<1>3. ToSet(new[n].vouts) = ToSet(txs[n].vouts) \cup {v} BY <1>1, <1>2
<1>4. \A i \in 1..n : i # n => ToSet(new[i].vouts) = ToSet(txs[i].vouts)
  OBVIOUS
<1>5. /\ \A x : x \in Rows(new) <=> \E i \in 1..n : x \in ToSet(new[i].vouts)
      /\ \A x : x \in Rows(txs) <=> \E i \in 1..n : x \in ToSet(txs[i].vouts)
  <2>1. \A x : x \in Rows(new) <=> \E i \in 1..Len(new) : x \in ToSet(new[i].vouts)
    BY RowsAt
  <2>2. \A x : x \in Rows(txs) <=> \E i \in 1..n : x \in ToSet(txs[i].vouts)
    BY RowsAt
  <2> QED BY <2>1, <2>2
<1> HIDE DEF n
<1>6. ASSUME NEW x \in Rows(new) PROVE x \in Rows(txs) \cup {v}
  <2>1. PICK i \in 1..n : x \in ToSet(new[i].vouts) BY <1>5
  <2>2. CASE i = n BY <2>1, <2>2, <1>3, <1>5
  <2>3. CASE i # n BY <2>1, <2>3, <1>4, <1>5
  <2> QED BY <2>2, <2>3
<1>7. ASSUME NEW x \in Rows(txs) PROVE x \in Rows(new)
  <2>1. PICK i \in 1..n : x \in ToSet(txs[i].vouts) BY <1>5
  <2>2. x \in ToSet(new[i].vouts)
    <3>1. CASE i = n BY <2>1, <3>1, <1>3
    <3>2. CASE i # n BY <2>1, <3>2, <1>4
    <3> QED BY <3>1, <3>2
  <2> QED BY <2>2, <1>5
<1>8. v \in Rows(new) BY <1>1, <1>3, <1>5
<1> QED BY <1>6, <1>7, <1>8

\* The id that an output gets for its address: of an output that has it, or the next.
LEMMA AddressId ==
  ASSUME IsTxs(tx), IsTxs(bulk), NEW addr \in Addrs
  PROVE  /\ IdsOf(addr, tx \o bulk) = {} <=> addr \notin AddrsIn(Rows(tx) \cup Rows(bulk))
         /\ IF addr \in AddrsIn(Rows(tx) \cup Rows(bulk))
              THEN \E w \in Rows(tx) \cup Rows(bulk) :
                     w.addr = addr /\ w.addrId = AddrIDOf(addr)
              ELSE AddrIDOf(addr) = LastAddrPkId + 1
<1>1. Rows(tx \o bulk) = Rows(tx) \cup Rows(bulk) BY JoinedParts
<1>2. ASSUME NEW txs
      PROVE  /\ IdsOf(addr, txs) = {} <=> addr \notin AddrsIn(Rows(txs))
             /\ \A id \in IdsOf(addr, txs) : \E w \in Rows(txs) : w.addr = addr /\ w.addrId = id
  BY DEF IdsOf, AddrsIn
<1>3. AddrsIn(Rows(tx) \cup Rows(bulk)) = AddrsIn(Rows(tx)) \cup AddrsIn(Rows(bulk))
  BY DEF AddrsIn
<1>4. IdsOf(addr, tx \o bulk) = {} <=> addr \notin AddrsIn(Rows(tx) \cup Rows(bulk))
  <2>1. IdsOf(addr, tx \o bulk) = {} <=> addr \notin AddrsIn(Rows(tx \o bulk)) BY <1>2
  <2> QED BY <2>1, <1>1
<1>5. CASE IdsOf(addr, bulk) # {}
  <2>1. AddrIDOf(addr) \in IdsOf(addr, bulk) BY <1>5 DEF AddrIDOf, IsNewAddr
  <2>2. PICK w \in Rows(bulk) : w.addr = addr /\ w.addrId = AddrIDOf(addr) BY <2>1, <1>2
  <2>3. addr \in AddrsIn(Rows(bulk)) BY <1>2, <1>5
  <2> QED BY <2>2, <2>3, <1>3, <1>4
<1>6. CASE IdsOf(addr, bulk) = {} /\ IdsOf(addr, tx) # {}
  <2>1. AddrIDOf(addr) \in IdsOf(addr, tx) BY <1>6 DEF AddrIDOf, IsNewAddr
  <2>2. PICK w \in Rows(tx) : w.addr = addr /\ w.addrId = AddrIDOf(addr) BY <2>1, <1>2
  <2>3. addr \in AddrsIn(Rows(tx)) BY <1>2, <1>6
  <2> QED BY <2>2, <2>3, <1>3, <1>4
<1>7. CASE IdsOf(addr, bulk) = {} /\ IdsOf(addr, tx) = {}
  <2>1. AddrIDOf(addr) = LastAddrPkId + 1 BY <1>7 DEF AddrIDOf, IsNewAddr
  <2>2. addr \notin AddrsIn(Rows(bulk)) /\ addr \notin AddrsIn(Rows(tx)) BY <1>2, <1>7
  <2> QED BY <2>1, <2>2, <1>3, <1>4
<1> QED BY <1>5, <1>6, <1>7

\* An output: its asset is registered, so the cache has its id.
LEMMA AppendTxVoutIds == ASSUME IInv, IdInv, IInv', AppendTxVout PROVE IdInv'
<1> DEFINE n == Len(bulk)
           V(addr, h) == [addr |-> addr, addrId |-> AddrIDOf(addr), asset |-> h,
                          assetId |-> IdFor(h)]
<1>1. PICK addr \in Addrs, h \in Registered :
        /\ bulk' = [bulk EXCEPT ![Len(bulk)].vouts = Append(@, V(addr, h))]
        /\ LastAddrPkId' = IF IdsOf(addr, tx \o bulk) = {} THEN LastAddrPkId + 1
                           ELSE LastAddrPkId
        /\ GetAssetId(h)
  BY DEF AppendTxVout
<1>2. /\ up /\ bulk # <<>> /\ IsTxs(tx) /\ IsTxs(bulk) /\ IsTxs(bulk')
      /\ Shaped(tx) /\ Shaped(bulk)
      /\ UNCHANGED <<up, tx, txAuto, asset, assetAuto, retried, late>>
  BY DEF AppendTxVout, Parsing, dbVars, IInv, IdInv, IdTypes
<1>3. h \in RegIn(tx) \cup RegIn(bulk) /\ h \in Assets /\ h \in Hashes
  BY <1>2, RegisteredParts DEF RegIn, Hashes
<1>4. /\ AssetMap[h] # NoId /\ AssetMap \in [Hashes -> Nat]
      /\ LastAddrPkId \in Nat
  BY <1>2, <1>3 DEF IdInv, CacheKnows, IdTypes
<1>5. AssetMap' = AssetMap /\ assetMaxID' = assetMaxID /\ IdFor(h) = AssetMap[h]
  BY <1>1, <1>3, <1>4 DEF GetAssetId, IdFor
<1> DEFINE v == V(addr, h)
           old == Rows(tx) \cup Rows(bulk)
           m == IF addr \in AddrsIn(old) THEN LastAddrPkId ELSE LastAddrPkId + 1
<1>6. /\ IF addr \in AddrsIn(old) THEN \E w \in old : w.addr = addr /\ w.addrId = AddrIDOf(addr)
                                 ELSE AddrIDOf(addr) = LastAddrPkId + 1
      /\ LastAddrPkId' = m
  BY <1>1, <1>2, AddressId
<1>7. old \subseteq Vout BY <1>2, RowsTyped
<1>8. AddrIDOf(addr) \in Nat
  <2>1. CASE addr \in AddrsIn(old)
    <3>1. PICK w \in old : w.addrId = AddrIDOf(addr) BY <1>6, <2>1
    <3> QED BY <3>1, <1>7 DEF Vout
  <2>2. CASE addr \notin AddrsIn(old) BY <1>4, <1>6, <2>2
  <2> QED BY <2>1, <2>2
<1>9. v \in Vout /\ v.addr = addr /\ v.addrId = AddrIDOf(addr)
      /\ v.asset = h /\ v.assetId = AssetMap[h]
  BY <1>3, <1>4, <1>5, <1>8 DEF Vout, NoId
<1> DEFINE e == Append(bulk[n].vouts, v)
           t == [bulk[n] EXCEPT !.vouts = e]
<1>10. bulk' = Replaced(bulk, t) BY <1>1 DEF Replaced
<1> HIDE DEF v, V
<1>11. n \in 1..n /\ IsTx(bulk[n])
  BY <1>2, LenProperties, EmptySeq DEF IsTxs
<1>12. e \in Seq(Vout) BY <1>2, <1>9, <1>11, AppendProperties DEF Shaped
<1> HIDE DEF e
<1>13. t.vouts = e /\ t.reg = bulk[n].reg /\ t.reg \subseteq Assets
  <2>1. t = [key |-> bulk[n].key, id |-> bulk[n].id, vins |-> bulk[n].vins,
             vouts |-> e, reg |-> bulk[n].reg]
    BY <1>11, OtherFields
  <2> HIDE DEF t
  <2> QED BY <2>1, <1>2, <1>11 DEF Shaped
<1> HIDE DEF t
<1>14. /\ Len(bulk') = n /\ n \in Nat \ {0}
       /\ \A i \in 1..n : bulk'[i] = IF i = n THEN t ELSE bulk[i]
       /\ Shaped(bulk') /\ SameRegs(bulk, bulk')
  BY <1>2, <1>10, <1>12, <1>13, LastReplaced
<1>15. Rows(bulk') = Rows(bulk) \cup {v}
  <2>1. \A i \in 1..n : bulk'[i].vouts = IF i = n THEN Append(bulk[i].vouts, v)
                                                  ELSE bulk[i].vouts
    BY <1>13, <1>14 DEF e
  <2> QED BY <2>1, <1>2, <1>9, <1>14, OutputAdded
<1>16. /\ (RegisteredOnce /\ RowsDistinct /\ CacheDistinct /\ CacheKnows)'
       /\ RegIn(bulk') = RegIn(bulk) /\ AssetRows' = AssetRows
  BY <1>2, <1>5, <1>14, AssetsKept DEF IdInv
<1>17. m \in Nat BY <1>4
<1>18. /\ OneToOne(old \cup {v}) /\ IdsIn(old \cup {v}) = 1..m
       /\ Cardinality(AddrsIn(old \cup {v})) = m
  <2>1. AddrsIn(old) \subseteq Addrs BY <1>7 DEF AddrsIn, Vout
  <2>2. /\ OneToOne(old) /\ IdsIn(old) = 1..LastAddrPkId
        /\ Cardinality(AddrsIn(old)) = LastAddrPkId
    BY <1>2 DEF IdInv, AddrsNumbered
  <2> HIDE DEF old
  <2>3. IF v.addr \in AddrsIn(old) THEN \E w \in old : w.addr = v.addr /\ w.addrId = v.addrId
                                   ELSE v.addrId = LastAddrPkId + 1
    BY <1>6, <1>9
  <2> QED BY <2>1, <2>2, <2>3, <1>4, <1>9, IdBounds, NewOutput
<1>19. AddrsNumbered'
  <2>1. Rows(tx') \cup Rows(bulk') = old \cup {v} BY <1>2, <1>15
  <2>2. IdsIn(Rows(tx)) = 1..Cardinality(AddrsIn(Rows(tx)))
    BY DEF IdInv, AddrsNumbered
  <2> HIDE DEF old
  <2> QED BY <2>1, <2>2, <1>2, <1>6, <1>18 DEF AddrsNumbered
<1>20. IdTypes'
  <2>1. Shaped(bulk)' /\ Shaped(tx)' BY <1>2, <1>14
  <2> QED BY <2>1, <1>2, <1>5, <1>6, <1>17 DEF IdInv, IdTypes
<1>21. OutputsPay'
  <2>1. \A w \in Rows(bulk') : w \in Rows(bulk) \/ w = v BY <1>15
  <2> QED BY <2>1, <1>2, <1>3, <1>5, <1>9, <1>16 DEF IdInv, OutputsPay
<1> QED BY <1>16, <1>19, <1>20, <1>21 DEF IdInv

\* A registration by the last parsed transaction: the assets and their places.
LEMMA Registration ==
  ASSUME IsTxs(bulk), IsTxs(bulk'), Shaped(bulk), RegisteredOnce,
         NEW h \in Assets, h \notin RegIn(bulk), h \notin AssetRows,
         Len(bulk') = Len(bulk), Len(bulk) # 0, bulk[Len(bulk)].reg = {},
         \A i \in 1..Len(bulk) :
           bulk'[i].reg = IF i = Len(bulk) THEN {h} ELSE bulk[i].reg,
         UNCHANGED <<tx, asset>>
  PROVE  /\ RegIn(bulk') = RegIn(bulk) \cup {h}
         /\ Cardinality(Registering') = Cardinality(Registering) + 1
         /\ \A g \in RegIn(bulk) : PlaceOf(g)' = PlaceOf(g)
         /\ PlaceOf(h)' = Cardinality(Registering) + 1
         /\ RegisteredOnce'
<1> DEFINE n == Len(bulk)
<1>1. /\ n \in Nat /\ n \in 1..n /\ DOMAIN bulk = 1..n /\ DOMAIN bulk' = 1..n
  <2>1. DOMAIN bulk' = 1..Len(bulk') BY RowsAt
  <2>2. Len(bulk) \in Nat /\ DOMAIN bulk = 1..Len(bulk) BY RowsAt
  <2>3. Len(bulk) \in 1..Len(bulk) BY <2>2
  <2>4. DOMAIN bulk' = 1..Len(bulk) BY <2>1
  <2> QED BY <2>2, <2>3, <2>4
<1>2. /\ bulk'[n].reg = {h} /\ bulk[n].reg = {}
      /\ \A i \in 1..n : i # n => bulk'[i].reg = bulk[i].reg
  BY <1>1
<1> HIDE DEF n
<1>3. \A i \in 1..n : h \notin bulk[i].reg
  BY DEF RegIn, n
<1>4. RegIn(bulk') = RegIn(bulk) \cup {h}
  <2>1. \A g : g \in RegIn(bulk') <=> g \in Assets /\ \E i \in 1..n : g \in bulk'[i].reg
    BY DEF RegIn, n
  <2>2. \A g : g \in RegIn(bulk) <=> g \in Assets /\ \E i \in 1..n : g \in bulk[i].reg
    BY DEF RegIn, n
  <2>3. ASSUME NEW g \in RegIn(bulk') PROVE g \in RegIn(bulk) \cup {h}
    BY <1>2, <2>1, <2>2
  <2>4. ASSUME NEW g \in RegIn(bulk) PROVE g \in RegIn(bulk')
    <3>1. PICK i \in 1..n : g \in bulk[i].reg BY <2>2
    <3>2. i # n BY <3>1, <1>2
    <3>3. g \in bulk'[i].reg BY <3>1, <3>2, <1>2
    <3> QED BY <3>3, <2>1, <2>2
  <2>5. h \in RegIn(bulk') BY <1>1, <1>2, <2>1
  <2> QED BY <2>3, <2>4, <2>5
<1>5. n \notin Registering /\ Registering' = Registering \cup {n}
      /\ Registering \subseteq 1..n
  BY <1>1, <1>2 DEF Registering
<1>6. IsFiniteSet(Registering) /\ Cardinality(Registering) \in Nat
  BY Places
<1>7. Cardinality(Registering') = Cardinality(Registering) + 1
  <2>1. Cardinality(Registering \cup {n}) = Cardinality(Registering) + 1
    BY <1>5, <1>6, FS_AddElement
  <2> QED BY <2>1, <1>5
<1>8. \A i \in Registering : i \in 1..n /\ i <= n /\ ~(n <= i) /\ bulk'[i].reg = bulk[i].reg
  <2> TAKE i \in Registering
  <2>1. i \in 1..n /\ i # n BY <1>5
  <2> QED BY <2>1, <1>1, <1>2
<1>9. ASSUME NEW g \in RegIn(bulk) PROVE PlaceOf(g)' = PlaceOf(g)
  <2> DEFINE S == {i \in Registering : \E j \in Registering : i <= j /\ g \in bulk[j].reg}
             T == {i \in Registering' : \E j \in Registering' : i <= j /\ g \in bulk'[j].reg}
  <2>1. g # h /\ g \notin bulk'[n].reg BY <1>2
  <2>2. \A j \in Registering' : g \in bulk'[j].reg => j \in Registering
    BY <1>5, <2>1
  <2>3. \A j \in Registering : bulk'[j].reg = bulk[j].reg /\ j \in Registering' /\ ~(n <= j)
    BY <1>5, <1>8
  <2>4. ASSUME NEW i \in T PROVE i \in S
    <3>1. PICK j \in Registering' : i <= j /\ g \in bulk'[j].reg OBVIOUS
    <3>2. j \in Registering BY <3>1, <2>2
    <3>3. i # n BY <3>1, <3>2, <2>3
    <3>4. i \in Registering BY <3>3, <1>5
    <3> QED BY <3>1, <3>2, <3>4, <2>3
  <2>5. ASSUME NEW i \in S PROVE i \in T
    <3>1. PICK j \in Registering : i <= j /\ g \in bulk[j].reg OBVIOUS
    <3> QED BY <3>1, <2>3
  <2>6. S = T BY <2>4, <2>5
  <2>7. PlaceOf(g) = Cardinality(S) BY DEF PlaceOf
  <2>8. PlaceOf(g)' = Cardinality(T) BY DEF PlaceOf
  <2> QED BY <2>6, <2>7, <2>8
<1>10. PlaceOf(h)' = Cardinality(Registering) + 1
  <2> DEFINE T == {i \in Registering' : \E j \in Registering' : i <= j /\ h \in bulk'[j].reg}
  <2>1. n \in Registering' /\ h \in bulk'[n].reg BY <1>2, <1>5
  <2>2. \A i \in Registering' : i <= n BY <1>1, <1>5, <1>8
  <2>3. T = Registering' BY <2>1, <2>2
  <2>4. PlaceOf(h)' = Cardinality(T) BY DEF PlaceOf
  <2> QED BY <2>3, <2>4, <1>7
<1>11. RegisteredOnce'
  <2>1. AssetRows' = RegIn(tx') /\ RegIn(bulk') \cap AssetRows' = {}
    <3>1. AssetRows' = AssetRows BY DEF AssetRows
    <3>2. AssetRows = RegIn(tx) /\ RegIn(bulk) \cap AssetRows = {} BY DEF RegisteredOnce
    <3> QED BY <3>1, <3>2, <1>4
  <2>2. ASSUME NEW i \in 1..n, NEW j \in 1..n, NEW f \in bulk'[i].reg, NEW g \in bulk'[j].reg
        PROVE  f = g <=> i = j
    <3>1. CASE i = n /\ j = n BY <3>1, <1>2
    <3>2. CASE i = n /\ j # n BY <3>2, <1>2, <1>3
    <3>3. CASE i # n /\ j = n BY <3>3, <1>2, <1>3
    <3>4. CASE i # n /\ j # n
      <4>1. f \in bulk[i].reg /\ g \in bulk[j].reg BY <3>4, <1>2
      <4> QED BY <4>1 DEF RegisteredOnce, n
    <3> QED BY <3>1, <3>2, <3>3, <3>4
  <2>3. Len(bulk') = n BY DEF n
  <2> QED BY <2>1, <2>2, <2>3 DEF RegisteredOnce
<1> QED BY <1>4, <1>7, <1>9, <1>10, <1>11

\* A registration: the asset gets the next id of the cache, which is the next
\* number of the table too unless the asset is late.
LEMMA AppendAssetIds == ASSUME IInv, IdInv, IInv', AppendAsset PROVE IdInv'
<1> DEFINE n == Len(bulk)
<1>1. PICK h \in Assets \ Registered :
        /\ bulk' = [bulk EXCEPT ![Len(bulk)].reg = {h}]
        /\ GetAssetId(h)
        /\ late' = IF assetAuto # Cardinality(AssetRows)
                      \/ \E c \in Contracts : AssetMap[c] # NoId
                   THEN late \cup {h} ELSE late
  BY DEF AppendAsset
<1>2. /\ up /\ bulk # <<>> /\ bulk[n].reg = {}
      /\ IsTxs(tx) /\ IsTxs(bulk) /\ IsTxs(bulk') /\ Shaped(tx) /\ Shaped(bulk)
      /\ UNCHANGED <<up, LastAddrPkId, tx, txAuto, asset, assetAuto, retried>>
  BY DEF AppendAsset, Parsing, Latest, dbVars, IInv, IdInv, IdTypes
<1>3. /\ h \in Assets /\ h \in Hashes /\ h \notin RegIn(tx) /\ h \notin RegIn(bulk)
  BY <1>1, <1>2, RegisteredParts DEF Hashes
<1>4. /\ AssetMap[h] = NoId /\ AssetMap \in [Hashes -> Nat] /\ assetMaxID \in Nat
      /\ AssetRows = RegIn(tx)
  BY <1>2, <1>3 DEF IdInv, CacheKnows, IdTypes, RegisteredOnce
<1>5. /\ AssetMap' = [AssetMap EXCEPT ![h] = assetMaxID + 1]
      /\ assetMaxID' = assetMaxID + 1
  BY <1>1, <1>4 DEF GetAssetId, IdFor
<1>6. /\ AssetMap' \in [Hashes -> Nat] /\ assetMaxID' \in Nat
      /\ AssetMap'[h] = assetMaxID + 1
      /\ \A g \in Hashes : g # h => AssetMap'[g] = AssetMap[g]
  BY <1>3, <1>4, <1>5
<1> DEFINE t == [bulk[n] EXCEPT !.reg = {h}]
<1>7. bulk' = Replaced(bulk, t) BY <1>1 DEF Replaced
<1>8. n \in 1..n /\ n # 0 /\ IsTx(bulk[n])
  BY <1>2, LenProperties, EmptySeq DEF IsTxs
<1>9. t.vouts = bulk[n].vouts /\ t.reg = {h} /\ t.vouts \in Seq(Vout)
  <2>1. t = [key |-> bulk[n].key, id |-> bulk[n].id, vins |-> bulk[n].vins,
             vouts |-> bulk[n].vouts, reg |-> {h}]
    BY <1>8, OtherFields
  <2> HIDE DEF t
  <2> QED BY <2>1, <1>2, <1>8 DEF Shaped
<1> HIDE DEF t
<1>10. /\ Len(bulk') = n
       /\ \A i \in 1..n : bulk'[i] = IF i = n THEN t ELSE bulk[i]
       /\ Shaped(bulk') /\ SameOuts(bulk, bulk')
  <2>1. t.reg \subseteq Assets BY <1>3, <1>9
  <2> QED BY <2>1, <1>2, <1>7, <1>9, LastReplaced
<1>11. Rows(bulk') = Rows(bulk) BY <1>2, <1>10, OutsKept
<1>12. /\ RegIn(bulk') = RegIn(bulk) \cup {h}
       /\ Cardinality(Registering') = Cardinality(Registering) + 1
       /\ \A g \in RegIn(bulk) : PlaceOf(g)' = PlaceOf(g)
       /\ PlaceOf(h)' = Cardinality(Registering) + 1
       /\ RegisteredOnce'
  <2>1. \A i \in 1..n : bulk'[i].reg = IF i = n THEN {h} ELSE bulk[i].reg
    BY <1>9, <1>10
  <2>2. RegisteredOnce BY DEF IdInv
  <2> QED BY <2>1, <2>2, <1>2, <1>3, <1>4, <1>8, <1>10, Registration
<1>13. AssetRows' = AssetRows /\ AssetRows \subseteq Assets
  BY <1>2 DEF AssetRows
<1>14. late \subseteq late' /\ late' \subseteq late \cup {h} BY <1>1
<1>15. IdTypes'
  <2>1. Shaped(bulk)' /\ Shaped(tx)' BY <1>2, <1>10
  <2>2. late' \subseteq Assets BY <1>3, <1>14 DEF IdInv, IdTypes
  <2> QED BY <2>1, <2>2, <1>2, <1>6 DEF IdInv, IdTypes
<1>16. AddrsNumbered' BY <1>2, <1>11 DEF IdInv, AddrsNumbered
<1>17. RowsDistinct' BY <1>2, <1>13 DEF IdInv, RowsDistinct
<1>18. assetAuto \in Nat /\ Cardinality(Registering) \in Nat
  <2>1. RegisteredOnce BY DEF IdInv
  <2> QED BY <2>1, <1>2, Places DEF IdInv, IdTypes
<1>19. CacheDistinct'
  <2> SUFFICES ASSUME NoneLost
               PROVE  /\ \A f, g \in Hashes : AssetMap'[f] = AssetMap'[g] => f = g \/ AssetMap'[f] = NoId
                      /\ \A g \in Hashes : AssetMap'[g] <= assetMaxID'
                      /\ (\A c \in Contracts : AssetMap'[c] = NoId) =>
                           assetMaxID' = assetAuto + Cardinality(Registering')
    <3>1. NoneLost' <=> NoneLost BY <1>2, <1>13 DEF NoneLost
    <3> QED BY <3>1, <1>2 DEF CacheDistinct
  <2>1. /\ \A f, g \in Hashes : AssetMap[f] = AssetMap[g] => f = g \/ AssetMap[f] = NoId
        /\ \A g \in Hashes : AssetMap[g] <= assetMaxID
        /\ (\A c \in Contracts : AssetMap[c] = NoId) =>
             assetMaxID = assetAuto + Cardinality(Registering)
    BY <1>2 DEF IdInv, CacheDistinct
  <2>2. \A g \in Hashes : AssetMap[g] \in Nat /\ AssetMap[g] < assetMaxID + 1
    BY <2>1, <1>4
  <2>3. \A f, g \in Hashes : AssetMap'[f] = AssetMap'[g] => f = g \/ AssetMap'[f] = NoId
    <3> TAKE f, g \in Hashes
    <3>1. CASE f # h /\ g # h BY <3>1, <2>1, <1>6
    <3>2. CASE f = h /\ g # h
      <4>1. AssetMap'[f] = assetMaxID + 1 /\ AssetMap'[g] < assetMaxID + 1
        BY <3>2, <2>2, <1>6
      <4>2. AssetMap'[g] \in Nat BY <1>6
      <4> QED BY <4>1, <4>2, <1>4
    <3>3. CASE f # h /\ g = h
      <4>1. AssetMap'[g] = assetMaxID + 1 /\ AssetMap'[f] < assetMaxID + 1
        BY <3>3, <2>2, <1>6
      <4>2. AssetMap'[f] \in Nat BY <1>6
      <4> QED BY <4>1, <4>2, <1>4
    <3>4. CASE f = h /\ g = h BY <3>4
    <3> QED BY <3>1, <3>2, <3>3, <3>4
  <2>4. \A g \in Hashes : AssetMap'[g] <= assetMaxID'
    <3> TAKE g \in Hashes
    <3>1. CASE g = h BY <3>1, <1>4, <1>5, <1>6
    <3>2. CASE g # h BY <3>2, <2>2, <1>4, <1>5, <1>6
    <3> QED BY <3>1, <3>2
  <2>5. (\A c \in Contracts : AssetMap'[c] = NoId) =>
           assetMaxID' = assetAuto + Cardinality(Registering')
    <3>1. \A c \in Contracts : c \in Hashes /\ c # h
      BY <1>3, IdBounds DEF Hashes
    <3>2. \A c \in Contracts : AssetMap'[c] = AssetMap[c] BY <3>1, <1>6
    <3> QED BY <3>2, <2>1, <1>4, <1>5, <1>12, <1>18
  <2> QED BY <2>3, <2>4, <2>5
<1>20. CacheKnows'
  <2>1. \A g \in Assets : AssetMap'[g] # NoId <=> g \in RegIn(tx') \cup RegIn(bulk')
    <3> TAKE g \in Assets
    <3>1. g \in Hashes BY DEF Hashes
    <3>2. CASE g = h
      <4>1. AssetMap'[g] # NoId BY <3>2, <1>4, <1>6 DEF NoId
      <4> QED BY <4>1, <3>2, <1>12
    <3>3. CASE g # h
      <4>1. AssetMap[g] # NoId <=> g \in RegIn(tx) \cup RegIn(bulk)
        BY <1>2 DEF IdInv, CacheKnows
      <4> QED BY <4>1, <3>1, <3>3, <1>2, <1>6, <1>12
    <3> QED BY <3>2, <3>3
  <2>2. \A g \in AssetRows' \ late' : AssetMap'[g] = asset'[g]
    <3> TAKE g \in AssetRows' \ late'
    <3>1. g \in AssetRows \ late /\ g # h /\ g \in Hashes
      BY <1>3, <1>4, <1>13, <1>14 DEF Hashes
    <3>2. AssetMap[g] = asset[g] BY <3>1, <1>2 DEF IdInv, CacheKnows
    <3> QED BY <3>1, <3>2, <1>2, <1>6
  <2>3. ASSUME NEW g \in RegIn(bulk') \ late'
        PROVE  AssetMap'[g] = assetAuto' + PlaceOf(g)'
    <3>1. CASE g = h
      <4>1. h \notin late' BY <3>1
      <4>2. NoneLost /\ (\A c \in Contracts : AssetMap[c] = NoId)
        BY <4>1, <1>1 DEF NoneLost
      <4>3. assetMaxID = assetAuto + Cardinality(Registering)
        BY <4>2, <1>2 DEF IdInv, CacheDistinct
      <4>4. AssetMap'[h] = assetAuto + PlaceOf(h)'
        BY <4>3, <1>6, <1>12, <1>18
      <4> QED BY <4>4, <3>1, <1>2
    <3>2. CASE g # h
      <4>1. g \in RegIn(bulk) \ late /\ g \in Hashes
        BY <3>2, <1>12, <1>14 DEF RegIn, Hashes
      <4>2. AssetMap[g] = assetAuto + PlaceOf(g) BY <4>1, <1>2 DEF IdInv, CacheKnows
      <4>3. PlaceOf(g)' = PlaceOf(g) BY <4>1, <1>12
      <4> QED BY <4>1, <4>2, <4>3, <3>2, <1>2, <1>6
    <3> QED BY <3>1, <3>2
  <2> QED BY <2>1, <2>2, <2>3 DEF CacheKnows
<1>21. OutputsPay'
  <2>1. ASSUME NEW v \in Rows(bulk)
        PROVE  /\ v.asset \in RegIn(tx) \cup RegIn(bulk')
               /\ v.asset \notin late' => v.assetId = AssetMap'[v.asset]
    <3>1. /\ v.asset \in RegIn(tx) \cup RegIn(bulk)
          /\ v.asset \notin late => v.assetId = AssetMap[v.asset]
      BY DEF IdInv, OutputsPay
    <3>2. v.asset # h /\ v.asset \in Hashes BY <3>1, <1>3 DEF RegIn, Hashes
    <3> QED BY <3>1, <3>2, <1>6, <1>12, <1>14
  <2>2. ASSUME NEW v \in Rows(tx)
        PROVE  /\ v.asset \in AssetRows'
               /\ v.asset \notin late' => v.assetId = asset'[v.asset]
    BY <1>2, <1>13, <1>14 DEF IdInv, OutputsPay
  <2> QED BY <2>1, <2>2, <1>2, <1>11 DEF OutputsPay
<1> QED BY <1>12, <1>15, <1>16, <1>17, <1>19, <1>20, <1>21 DEF IdInv

\* A contract gets the next id of the cache.
LEMMA Nep5AssetIdIds == ASSUME IInv, IdInv, Nep5AssetId PROVE IdInv'
<1>1. PICK c \in Contracts : AssetMap[c] = NoId /\ GetAssetId(c)
  BY DEF Nep5AssetId
<1>2. /\ up /\ UNCHANGED <<up, LastAddrPkId, bulk, tx, txAuto, asset, assetAuto, retried, late>>
      /\ AssetMap \in [Hashes -> Nat] /\ assetMaxID \in Nat
  BY DEF Nep5AssetId, dbVars, IdInv, IdTypes
<1>3. c \in Hashes /\ c \notin Assets BY IdBounds DEF Hashes
<1>4. /\ AssetMap' = [AssetMap EXCEPT ![c] = assetMaxID + 1]
      /\ assetMaxID' = assetMaxID + 1
  BY <1>1 DEF GetAssetId, IdFor
<1>5. /\ AssetMap' \in [Hashes -> Nat] /\ assetMaxID' \in Nat
      /\ AssetMap'[c] = assetMaxID + 1
      /\ \A g \in Hashes : g # c => AssetMap'[g] = AssetMap[g]
  BY <1>2, <1>3, <1>4
<1>6. \A g \in Assets : AssetMap'[g] = AssetMap[g]
  BY <1>3, <1>5 DEF Hashes
<1>7. /\ AssetRows' = AssetRows /\ AssetRows \subseteq Assets
      /\ Registering' = Registering /\ RegIn(bulk) \subseteq Assets
      /\ RegIn(tx) \subseteq Assets
  BY <1>2 DEF AssetRows, Registering, RegIn
<1>8. \A g \in Assets : PlaceOf(g)' = PlaceOf(g) BY <1>2, <1>7 DEF PlaceOf
<1>9. IdTypes' BY <1>2, <1>5 DEF IdInv, IdTypes, Shaped
<1>10. AddrsNumbered' BY <1>2 DEF IdInv, AddrsNumbered
<1>11. (RegisteredOnce /\ RowsDistinct)'
  BY <1>2, <1>7 DEF IdInv, RegisteredOnce, RowsDistinct
<1>12. CacheDistinct'
  <2> SUFFICES ASSUME NoneLost
               PROVE  /\ \A f, g \in Hashes : AssetMap'[f] = AssetMap'[g] => f = g \/ AssetMap'[f] = NoId
                      /\ \A g \in Hashes : AssetMap'[g] <= assetMaxID'
                      /\ \E d \in Contracts : AssetMap'[d] # NoId
    <3>1. NoneLost' <=> NoneLost BY <1>2, <1>7 DEF NoneLost
    <3> QED BY <3>1, <1>2 DEF CacheDistinct
  <2>1. /\ \A f, g \in Hashes : AssetMap[f] = AssetMap[g] => f = g \/ AssetMap[f] = NoId
        /\ \A g \in Hashes : AssetMap[g] <= assetMaxID
    BY DEF IdInv, CacheDistinct
  <2>2. \A g \in Hashes : AssetMap[g] \in Nat /\ AssetMap[g] < assetMaxID + 1
    BY <2>1, <1>2
  <2>3. \A f, g \in Hashes : AssetMap'[f] = AssetMap'[g] => f = g \/ AssetMap'[f] = NoId
    <3> TAKE f, g \in Hashes
    <3>1. CASE f # c /\ g # c BY <3>1, <2>1, <1>5
    <3>2. CASE f = c /\ g # c
      <4>1. AssetMap'[f] = assetMaxID + 1 /\ AssetMap'[g] < assetMaxID + 1
        BY <3>2, <2>2, <1>5
      <4>2. AssetMap'[g] \in Nat BY <1>5
      <4> QED BY <4>1, <4>2, <1>2
    <3>3. CASE f # c /\ g = c
      <4>1. AssetMap'[g] = assetMaxID + 1 /\ AssetMap'[f] < assetMaxID + 1
        BY <3>3, <2>2, <1>5
      <4>2. AssetMap'[f] \in Nat BY <1>5
      <4> QED BY <4>1, <4>2, <1>2
    <3>4. CASE f = c /\ g = c BY <3>4
    <3> QED BY <3>1, <3>2, <3>3, <3>4
  <2>4. \A g \in Hashes : AssetMap'[g] <= assetMaxID'
    <3> TAKE g \in Hashes
    <3>1. CASE g = c BY <3>1, <1>2, <1>4, <1>5
    <3>2. CASE g # c BY <3>2, <2>2, <1>2, <1>4, <1>5
    <3> QED BY <3>1, <3>2
  <2>5. AssetMap'[c] # NoId BY <1>2, <1>5 DEF NoId
  <2> QED BY <2>3, <2>4, <2>5
<1>13. CacheKnows'
  <2>1. \A g \in Assets : AssetMap'[g] # NoId <=> g \in RegIn(tx') \cup RegIn(bulk')
    BY <1>2, <1>6 DEF IdInv, CacheKnows
  <2>2. \A g \in AssetRows' \ late' : AssetMap'[g] = asset'[g]
    BY <1>2, <1>6, <1>7 DEF IdInv, CacheKnows
  <2>3. ASSUME NEW g \in RegIn(bulk') \ late'
        PROVE  AssetMap'[g] = assetAuto' + PlaceOf(g)'
    <3>1. g \in RegIn(bulk) \ late /\ g \in Assets BY <1>2, <1>7
    <3>2. AssetMap[g] = assetAuto + PlaceOf(g) BY <3>1, <1>2 DEF IdInv, CacheKnows
    <3>3. PlaceOf(g)' = PlaceOf(g) BY <3>1, <1>8
    <3>4. AssetMap'[g] = AssetMap[g] BY <3>1, <1>6
    <3> QED BY <3>2, <3>3, <3>4, <1>2
  <2> QED BY <2>1, <2>2, <2>3 DEF CacheKnows
<1>14. OutputsPay'
  <2>1. ASSUME NEW v \in Rows(bulk)
        PROVE  /\ v.asset \in RegIn(tx) \cup RegIn(bulk)
               /\ v.asset \notin late => v.assetId = AssetMap'[v.asset]
    BY <1>6, <1>7 DEF IdInv, OutputsPay
  <2> QED BY <2>1, <1>2, <1>7 DEF IdInv, OutputsPay
<1> QED BY <1>9, <1>10, <1>11, <1>12, <1>13, <1>14 DEF IdInv

\* The rows that the commit gives table asset.
LEMMA RowsGiven ==
  ASSUME IdInv, IsTxs(bulk),
         asset' = [h \in Assets |-> IF \E t \in ToSet(bulk) : h \in t.reg
                                     THEN assetAuto + PlaceOf(h) ELSE asset[h]],
         assetAuto' = assetAuto + Cardinality(Registering)
  PROVE  /\ assetAuto' \in Nat /\ asset' \in [Assets -> 0..assetAuto']
         /\ AssetRows' = AssetRows \cup RegIn(bulk)
         /\ \A h \in AssetRows : asset'[h] = asset[h]
         /\ \A h \in RegIn(bulk) : asset'[h] = assetAuto + PlaceOf(h)
         /\ RowsDistinct'
         /\ NoneLost' => NoneLost
<1> DEFINE k == Cardinality(Registering)
<1>1. DOMAIN bulk = 1..Len(bulk) BY RowsAt
<1>2. ASSUME NEW h \in Assets
      PROVE  (\E t \in ToSet(bulk) : h \in t.reg) <=> h \in RegIn(bulk)
  BY <1>1 DEF ToSet, RegIn
<1>3. /\ asset \in [Assets -> 0..assetAuto] /\ assetAuto \in Nat
      /\ RegIn(bulk) \cap AssetRows = {}
      /\ RegIn(bulk) \subseteq Assets /\ AssetRows \subseteq Assets
      /\ IsFiniteSet(Assets)
  BY IdBounds DEF IdInv, IdTypes, RegisteredOnce, RegIn, AssetRows
<1>4. /\ k \in Nat /\ IsFiniteSet(RegIn(bulk)) /\ Cardinality(RegIn(bulk)) <= k
      /\ \A h \in RegIn(bulk) : PlaceOf(h) \in 1..k
      /\ \A g, h \in RegIn(bulk) : PlaceOf(g) = PlaceOf(h) => g = h
  BY Places DEF IdInv, IdTypes
<1>5. /\ \A h \in RegIn(bulk) : asset'[h] = assetAuto + PlaceOf(h)
      /\ \A h \in Assets \ RegIn(bulk) : asset'[h] = asset[h]
      /\ DOMAIN asset' = Assets /\ asset' = [h \in Assets |-> asset'[h]]
  BY <1>2, <1>3
<1> HIDE DEF k
<1>6. assetAuto' = assetAuto + k BY DEF k
<1>7. \A h \in RegIn(bulk) : /\ asset'[h] \in 1..assetAuto' /\ asset'[h] > assetAuto
                             /\ asset'[h] \in Nat
  <2> TAKE h \in RegIn(bulk)
  <2>1. PlaceOf(h) \in 1..k /\ asset'[h] = assetAuto + PlaceOf(h) BY <1>4, <1>5
  <2> QED BY <2>1, <1>3, <1>4, <1>6
<1>8. \A h \in Assets \ RegIn(bulk) : asset'[h] \in 0..assetAuto /\ asset'[h] \in 0..assetAuto'
  <2> TAKE h \in Assets \ RegIn(bulk)
  <2>1. asset'[h] = asset[h] /\ asset[h] \in 0..assetAuto BY <1>3, <1>5
  <2> QED BY <2>1, <1>3, <1>4, <1>6
<1>9. assetAuto' \in Nat BY <1>3, <1>4, <1>6
<1>10. asset' \in [Assets -> 0..assetAuto']
  <2>1. \A h \in Assets : asset'[h] \in 0..assetAuto'
    <3> TAKE h \in Assets
    <3>1. CASE h \in RegIn(bulk)
      <4>1. asset'[h] \in 1..assetAuto' BY <3>1, <1>7
      <4> QED BY <4>1, <1>9
    <3>2. CASE h \notin RegIn(bulk) BY <3>2, <1>8
    <3> QED BY <3>1, <3>2
  <2> QED BY <2>1, <1>5
<1>11. AssetRows' = AssetRows \cup RegIn(bulk)
  <2>1. ASSUME NEW h \in Assets
        PROVE  asset'[h] # NoId <=> asset[h] # NoId \/ h \in RegIn(bulk)
    <3>1. CASE h \in RegIn(bulk)
      <4>1. asset'[h] \in 1..assetAuto' BY <3>1, <1>7
      <4>2. asset'[h] # 0 BY <4>1, <1>9
      <4> QED BY <4>2, <3>1 DEF NoId
    <3>2. CASE h \notin RegIn(bulk) BY <3>2, <1>5
    <3> QED BY <3>1, <3>2
  <2> QED BY <2>1, <1>3 DEF AssetRows
<1>12. \A h \in AssetRows : asset'[h] = asset[h] BY <1>3, <1>5
<1>13. RowsDistinct'
  <2> SUFFICES ASSUME NEW g \in AssetRows \cup RegIn(bulk),
                      NEW h \in AssetRows \cup RegIn(bulk), asset'[g] = asset'[h]
               PROVE  g = h
    BY <1>11 DEF RowsDistinct
  <2>1. \A f \in AssetRows : asset'[f] \in Nat /\ ~(asset'[f] > assetAuto)
    <3> TAKE f \in AssetRows
    <3>1. f \in Assets \ RegIn(bulk) BY <1>3
    <3>2. asset'[f] \in 0..assetAuto BY <3>1, <1>8
    <3> QED BY <3>2, <1>3
  <2>2. CASE g \in AssetRows /\ h \in AssetRows
    BY <2>2, <1>12 DEF IdInv, RowsDistinct
  <2>3. CASE g \in AssetRows /\ h \in RegIn(bulk) BY <2>1, <2>3, <1>7
  <2>4. CASE g \in RegIn(bulk) /\ h \in AssetRows BY <2>1, <2>4, <1>7
  <2>5. CASE g \in RegIn(bulk) /\ h \in RegIn(bulk)
    <3>1. PlaceOf(g) \in 1..k /\ PlaceOf(h) \in 1..k BY <2>5, <1>4
    <3>2. assetAuto + PlaceOf(g) = assetAuto + PlaceOf(h) BY <2>5, <1>5
    <3>3. PlaceOf(g) = PlaceOf(h) BY <3>1, <3>2, <1>3, <1>4
    <3> QED BY <3>3, <2>5, <1>4
  <2> QED BY <2>2, <2>3, <2>4, <2>5
<1>14. NoneLost' => NoneLost
  <2> DEFINE a == Cardinality(AssetRows)
             b == Cardinality(RegIn(bulk))
  <2>1. IsFiniteSet(AssetRows) /\ a \in Nat /\ a <= assetAuto
    BY <1>3, RowsFit DEF IdInv
  <2>2. b \in Nat BY <1>4, FS_CardinalityType
  <2>3. AssetRows \cap RegIn(bulk) = {} /\ Cardinality({}) = 0
    BY <1>3, FS_EmptySet
  <2>4. Cardinality(AssetRows \cup RegIn(bulk)) = a + b - Cardinality(AssetRows \cap RegIn(bulk))
    BY <2>1, <1>4, FS_Union
  <2>5. Cardinality(AssetRows') = a + b
    <3>1. Cardinality(AssetRows \cap RegIn(bulk)) = 0 BY <2>3
    <3> QED BY <3>1, <2>1, <2>2, <2>4, <1>11
  <2>6. NoneLost' <=> assetAuto + k = a + b BY <2>5, <1>6 DEF NoneLost
  <2>7. NoneLost <=> assetAuto = a BY DEF NoneLost
  <2> HIDE DEF a, b
  <2>8. b <= k BY <1>4 DEF b
  <2>9. assetAuto + k = a + b => assetAuto = a BY <2>1, <2>2, <2>8, <1>3, <1>4
  <2> QED BY <2>6, <2>7, <2>9
<1> QED BY <1>5, <1>9, <1>10, <1>11, <1>12, <1>13, <1>14

\* Nothing is parsed.
LEMMA EmptyBulk ==
  /\ Rows(<<>>) = {} /\ RegIn(<<>>) = {} /\ Shaped(<<>>)
  /\ bulk = <<>> => Registering = {} /\ Cardinality(Registering) = 0
<1>1. Rows(<<>>) = {} /\ RegIn(<<>>) = {} /\ Shaped(<<>>)
  BY DEF Rows, RegIn, Shaped
<1>2. bulk = <<>> => Registering = {} BY DEF Registering
<1> QED BY <1>1, <1>2, FS_EmptySet

\* The commit: what is parsed becomes rows, and the assets get the numbers that the
\* cache has given them.
LEMMA InsertBlockIds == ASSUME IInv, IdInv, IInv', InsertBlock PROVE IdInv'
<1> DEFINE rows == [i \in DOMAIN bulk |-> [bulk[i] EXCEPT !.id = txAuto + i]]
           k == Cardinality(Registering)
<1>1. /\ up /\ tx' = tx \o rows /\ txAuto' = txAuto + Len(bulk) /\ bulk' = <<>>
      /\ up' \in BOOLEAN /\ retried' = FALSE
      /\ UNCHANGED <<LastAddrPkId, AssetMap, assetMaxID, late>>
  BY DEF InsertBlock, memVars
<1>2. /\ IsTxs(tx) /\ IsTxs(bulk) /\ txAuto \in Nat /\ Len(tx) <= txAuto
      /\ Shaped(tx) /\ Shaped(bulk)
      /\ Len(tx) \in Nat /\ Len(bulk) \in Nat
  BY RowsAt DEF IInv, IdInv, IdTypes
<1>3. /\ IsTxs(rows) /\ Len(rows) = Len(bulk)
      /\ \A i \in 1..Len(bulk) : /\ rows[i].id = txAuto + i
                                 /\ rows[i].vouts = bulk[i].vouts
                                 /\ rows[i].reg = bulk[i].reg
  BY <1>2, RowsOfBulk
<1> HIDE DEF rows
<1>4. Rows(rows) = Rows(bulk) /\ RegIn(rows) = RegIn(bulk)
  <2>1. SameOuts(bulk, rows) /\ SameRegs(bulk, rows)
    BY <1>2, <1>3 DEF SameOuts, SameRegs
  <2> QED BY <2>1, <1>2, <1>3, OutsKept, RegsKept
<1>5. Rows(tx') = Rows(tx) \cup Rows(bulk) /\ RegIn(tx') = RegIn(tx) \cup RegIn(bulk)
  BY <1>1, <1>2, <1>3, <1>4, JoinedParts
<1>6. /\ Len(tx') = Len(tx) + Len(bulk)
      /\ \A i \in 1..Len(tx) : tx'[i] = tx[i]
      /\ \A i \in 1..Len(bulk) : tx'[Len(tx) + i] = rows[i]
  <2>1. /\ Len(Joined(tx, rows)) = Len(tx) + Len(rows)
        /\ AreFirst(tx, Joined(tx, rows)) /\ AreBehind(tx, rows, Joined(tx, rows))
    BY <1>2, <1>3, ConcatTxs
  <2>2. tx' = Joined(tx, rows) BY <1>1 DEF Joined
  <2> QED BY <2>1, <2>2, <1>3 DEF AreFirst, AreBehind
<1>7. /\ assetAuto' \in Nat /\ asset' \in [Assets -> 0..assetAuto']
      /\ AssetRows' = AssetRows \cup RegIn(bulk)
      /\ \A h \in AssetRows : asset'[h] = asset[h]
      /\ \A h \in RegIn(bulk) : asset'[h] = assetAuto + PlaceOf(h)
      /\ RowsDistinct'
      /\ NoneLost' => NoneLost
      /\ assetAuto' = assetAuto + k
  BY <1>2, RowsGiven DEF InsertBlock
<1> HIDE DEF k
<1>8. /\ Rows(bulk') = {} /\ RegIn(bulk') = {} /\ Shaped(bulk')
      /\ Registering' = {} /\ Cardinality(Registering') = 0
  <2>1. Registering' = {} BY <1>1 DEF Registering
  <2> QED BY <2>1, <1>1, EmptyBulk, FS_EmptySet
<1>9. IdTypes'
  <2>1. \A i \in 1..Len(tx') : \/ i \in 1..Len(tx) /\ tx'[i] = tx[i]
                               \/ i - Len(tx) \in 1..Len(bulk) /\ tx'[i] = rows[i - Len(tx)]
    <3> TAKE i \in 1..Len(tx')
    <3>1. i \in 1..Len(tx) \/ i - Len(tx) \in 1..Len(bulk) BY <1>2, <1>6
    <3>2. CASE i - Len(tx) \in 1..Len(bulk)
      <4>1. Len(tx) + (i - Len(tx)) = i BY <1>2
      <4>2. tx'[Len(tx) + (i - Len(tx))] = rows[i - Len(tx)] BY <3>2, <1>6
      <4> QED BY <4>1, <4>2, <3>2
    <3> QED BY <3>1, <3>2, <1>6
  <2>2. ASSUME NEW i \in 1..Len(tx')
        PROVE  /\ tx'[i].id \in 1..txAuto'
               /\ tx'[i].vouts \in Seq(Vout) /\ tx'[i].reg \subseteq Assets
    <3>1. CASE i \in 1..Len(tx) /\ tx'[i] = tx[i]
      <4>1. tx[i].id \in 1..txAuto BY <3>1 DEF IdInv, IdTypes
      <4>2. tx'[i].id \in 1..txAuto' BY <4>1, <3>1, <1>1, <1>2
      <4>3. tx[i].vouts \in Seq(Vout) /\ tx[i].reg \subseteq Assets BY <3>1, <1>2 DEF Shaped
      <4> QED BY <4>2, <4>3, <3>1
    <3>2. ASSUME NEW j \in 1..Len(bulk), tx'[i] = rows[j]
          PROVE  /\ tx'[i].id \in 1..txAuto'
                 /\ tx'[i].vouts \in Seq(Vout) /\ tx'[i].reg \subseteq Assets
      <4>1. rows[j].id = txAuto + j BY <1>3
      <4>2. rows[j].id \in 1..txAuto' BY <4>1, <1>1, <1>2
      <4>3. bulk[j].vouts \in Seq(Vout) /\ bulk[j].reg \subseteq Assets BY <1>2 DEF Shaped
      <4> QED BY <4>2, <4>3, <3>2, <1>3
    <3> QED BY <2>1, <3>1, <3>2
  <2>3. Shaped(tx)' BY <2>2 DEF Shaped
  <2>4. Shaped(bulk)' BY <1>8
  <2> QED BY <2>2, <2>3, <2>4, <1>1, <1>7 DEF IdInv, IdTypes
<1>10. AddrsNumbered'
  <2> DEFINE old == Rows(tx) \cup Rows(bulk)
  <2>1. /\ OneToOne(old) /\ IdsIn(old) = 1..LastAddrPkId
        /\ Cardinality(AddrsIn(old)) = LastAddrPkId
    BY <1>1 DEF IdInv, AddrsNumbered
  <2>2. Rows(tx') = old /\ Rows(tx') \cup Rows(bulk') = old BY <1>5, <1>8
  <2> HIDE DEF old
  <2> QED BY <2>1, <2>2, <1>1 DEF AddrsNumbered
<1>11. RegisteredOnce'
  <2>1. AssetRows' = RegIn(tx') BY <1>5, <1>7 DEF IdInv, RegisteredOnce
  <2>2. Len(bulk') = 0 BY <1>1
  <2> QED BY <2>1, <2>2, <1>8 DEF RegisteredOnce
<1>12. CacheDistinct'
  <2> SUFFICES ASSUME NoneLost, NoneLost'
               PROVE  CacheDistinct'
    BY <1>7 DEF CacheDistinct
  <2>1. /\ \A f, g \in Hashes : AssetMap[f] = AssetMap[g] => f = g \/ AssetMap[f] = NoId
        /\ \A g \in Hashes : AssetMap[g] <= assetMaxID
        /\ (\A c \in Contracts : AssetMap[c] = NoId) => assetMaxID = assetAuto + k
    BY <1>1 DEF IdInv, CacheDistinct, k
  <2>2. assetAuto' = assetAuto + k /\ assetAuto' + Cardinality(Registering') = assetAuto'
    BY <1>7, <1>8
  <2> QED BY <2>1, <2>2, <1>1 DEF CacheDistinct
<1>13. CacheKnows'
  <2>1. /\ \A h \in Assets : AssetMap[h] # NoId <=> h \in RegIn(tx) \cup RegIn(bulk)
        /\ \A h \in AssetRows \ late : AssetMap[h] = asset[h]
        /\ \A h \in RegIn(bulk) \ late : AssetMap[h] = assetAuto + PlaceOf(h)
    BY <1>1 DEF IdInv, CacheKnows
  <2>2. \A h \in AssetRows' \ late' : AssetMap'[h] = asset'[h]
    BY <2>1, <1>1, <1>7
  <2>3. RegIn(tx') \cup RegIn(bulk') = RegIn(tx) \cup RegIn(bulk) BY <1>5, <1>8
  <2> QED BY <2>1, <2>2, <2>3, <1>1, <1>8 DEF CacheKnows
<1>14. OutputsPay'
  <2>1. ASSUME NEW v \in Rows(tx)
        PROVE  v.asset \in AssetRows' /\ (v.asset \notin late => v.assetId = asset'[v.asset])
    BY <1>7 DEF IdInv, OutputsPay
  <2>2. ASSUME NEW v \in Rows(bulk)
        PROVE  v.asset \in AssetRows' /\ (v.asset \notin late => v.assetId = asset'[v.asset])
    <3>1. /\ v.asset \in AssetRows \cup RegIn(bulk)
          /\ v.asset \notin late => v.assetId = AssetMap[v.asset]
      BY DEF IdInv, OutputsPay, RegisteredOnce
    <3>2. /\ \A h \in AssetRows \ late : AssetMap[h] = asset[h]
          /\ \A h \in RegIn(bulk) \ late : AssetMap[h] = assetAuto + PlaceOf(h)
      BY <1>1 DEF IdInv, CacheKnows
    <3> QED BY <3>1, <3>2, <1>7
  <2> QED BY <2>1, <2>2, <1>1, <1>5, <1>8 DEF OutputsPay
<1> QED BY <1>7, <1>9, <1>10, <1>11, <1>12, <1>13, <1>14 DEF IdInv

\* The numbers that a rolled back transaction of the database has consumed.
LEMMA Lost ==
  ASSUME IInv, IdInv, Consumed, UNCHANGED <<tx, asset>>
  PROVE  /\ txAuto' \in Nat /\ txAuto <= txAuto' /\ txAuto \in Nat
         /\ assetAuto' \in Nat /\ assetAuto <= assetAuto' /\ assetAuto \in Nat
         /\ asset \in [Assets -> 0..assetAuto']
         /\ AssetRows' = AssetRows /\ RowsDistinct'
         /\ NoneLost' => NoneLost /\ assetAuto' = assetAuto
         /\ \A i \in 1..Len(tx) : tx[i].id \in 1..txAuto'
<1>1. /\ txAuto \in Nat /\ assetAuto \in Nat /\ IsTxs(bulk) /\ Len(bulk) \in Nat
      /\ asset \in [Assets -> 0..assetAuto]
      /\ \A i \in 1..Len(tx) : tx[i].id \in 1..txAuto
  BY RowsAt DEF IInv, IdInv, IdTypes
<1>2. Cardinality(Registering) \in Nat BY <1>1, Places DEF IdInv, IdTypes
<1>3. /\ txAuto' \in Nat /\ txAuto <= txAuto'
      /\ assetAuto' \in Nat /\ assetAuto <= assetAuto'
  BY <1>1, <1>2 DEF Consumed
<1>4. AssetRows' = AssetRows BY DEF AssetRows
<1>5. RowsDistinct' BY <1>4 DEF IdInv, RowsDistinct
<1>6. NoneLost' => NoneLost /\ assetAuto' = assetAuto
  <2>1. Cardinality(AssetRows) <= assetAuto /\ Cardinality(AssetRows) \in Nat
    BY IdBounds, RowsFit DEF IdInv
  <2>2. NoneLost' <=> assetAuto' = Cardinality(AssetRows) BY <1>4 DEF NoneLost
  <2> QED BY <2>1, <2>2, <1>1, <1>3 DEF NoneLost
<1>7. asset \in [Assets -> 0..assetAuto']
  <2>1. \A h \in Assets : asset[h] \in 0..assetAuto'
    <3> TAKE h \in Assets
    <3>1. asset[h] \in 0..assetAuto BY <1>1
    <3> QED BY <3>1, <1>1, <1>3
  <2> QED BY <2>1, <1>1
<1>8. \A i \in 1..Len(tx) : tx[i].id \in 1..txAuto' BY <1>1, <1>3
<1> QED BY <1>1, <1>3, <1>4, <1>5, <1>6, <1>7, <1>8

\* The numbers that are lost make the parsed assets late.
LEMMA LoseConnectionIds == ASSUME IInv, IdInv, LoseConnection PROVE IdInv'
<1>1. /\ up /\ Consumed /\ retried' = TRUE
      /\ UNCHANGED <<up, LastAddrPkId, AssetMap, assetMaxID, bulk, tx, asset>>
      /\ late' = IF assetAuto' = assetAuto THEN late
                 ELSE late \cup UNION {t.reg : t \in ToSet(bulk)}
  BY DEF LoseConnection, memVars
<1>2. /\ txAuto' \in Nat /\ assetAuto' \in Nat
      /\ asset \in [Assets -> 0..assetAuto']
      /\ AssetRows' = AssetRows /\ RowsDistinct'
      /\ NoneLost' => NoneLost /\ assetAuto' = assetAuto
      /\ \A i \in 1..Len(tx) : tx[i].id \in 1..txAuto'
  BY <1>1, Lost
<1>3. IsTxs(bulk) /\ Shaped(bulk) /\ DOMAIN bulk = 1..Len(bulk)
  BY RowsAt DEF IInv, IdInv, IdTypes
<1>4. UNION {t.reg : t \in ToSet(bulk)} = RegIn(bulk)
  <2>1. ToSet(bulk) = {bulk[i] : i \in 1..Len(bulk)} BY <1>3 DEF ToSet
  <2>2. \A i \in 1..Len(bulk) : bulk[i].reg \subseteq Assets BY <1>3 DEF Shaped
  <2>3. \A h : h \in UNION {t.reg : t \in ToSet(bulk)} <=>
                 \E i \in 1..Len(bulk) : h \in bulk[i].reg
    BY <2>1
  <2> QED BY <2>2, <2>3 DEF RegIn
<1>5. /\ late \subseteq late' /\ late' \subseteq Assets
      /\ assetAuto' = assetAuto \/ RegIn(bulk) \subseteq late'
  BY <1>1, <1>4 DEF IdInv, IdTypes, RegIn
<1>6. Registering' = Registering BY <1>1 DEF Registering
<1>7. \A h \in Assets : PlaceOf(h)' = PlaceOf(h) BY <1>1, <1>6 DEF PlaceOf
<1>8. IdTypes' BY <1>1, <1>2, <1>5 DEF IdInv, IdTypes, Shaped
<1>9. AddrsNumbered' BY <1>1 DEF IdInv, AddrsNumbered
<1>10. RegisteredOnce' BY <1>1, <1>2 DEF IdInv, RegisteredOnce
<1>11. CacheDistinct' BY <1>1, <1>2, <1>6 DEF IdInv, CacheDistinct
<1>12. CacheKnows'
  <2>1. /\ \A h \in Assets : AssetMap[h] # NoId <=> h \in RegIn(tx) \cup RegIn(bulk)
        /\ \A h \in AssetRows \ late : AssetMap[h] = asset[h]
        /\ \A h \in RegIn(bulk) \ late : AssetMap[h] = assetAuto + PlaceOf(h)
    BY <1>1 DEF IdInv, CacheKnows
  <2>2. \A h \in RegIn(bulk') \ late' : AssetMap'[h] = assetAuto' + PlaceOf(h)'
    BY <2>1, <1>1, <1>5, <1>7 DEF RegIn
  <2> QED BY <2>1, <2>2, <1>1, <1>2, <1>5 DEF CacheKnows
<1>13. OutputsPay' BY <1>1, <1>2, <1>5 DEF IdInv, OutputsPay
<1> QED BY <1>2, <1>8, <1>9, <1>10, <1>11, <1>12, <1>13 DEF IdInv

\* A crash forgets what is parsed.
LEMMA CrashIds == ASSUME IInv, IdInv, Crash PROVE IdInv'
<1>1. /\ up' = FALSE /\ Consumed /\ retried' = FALSE /\ bulk' = <<>>
      /\ UNCHANGED <<LastAddrPkId, AssetMap, assetMaxID, tx, asset>>
      /\ late' = late \cap AssetRows
  BY DEF Crash, memVars
<1>2. /\ txAuto' \in Nat /\ assetAuto' \in Nat
      /\ asset \in [Assets -> 0..assetAuto']
      /\ AssetRows' = AssetRows /\ RowsDistinct'
      /\ NoneLost' => NoneLost /\ assetAuto' = assetAuto
      /\ \A i \in 1..Len(tx) : tx[i].id \in 1..txAuto'
  BY <1>1, Lost
<1>3. Rows(bulk') = {} /\ RegIn(bulk') = {} /\ Shaped(bulk') /\ Len(bulk') = 0
  BY <1>1, EmptyBulk
<1>4. IdTypes'
  <2>1. Shaped(tx)' BY <1>1 DEF IdInv, IdTypes, Shaped
  <2>2. Shaped(bulk)' BY <1>3
  <2> QED BY <2>1, <2>2, <1>1, <1>2 DEF IdInv, IdTypes
<1>5. AddrsNumbered'
  <2>1. OneToOne(Rows(tx)) /\ Rows(tx') \cup Rows(bulk') = Rows(tx)
    BY <1>1, <1>3 DEF IdInv, AddrsNumbered, OneToOne
  <2> QED BY <2>1, <1>1 DEF IdInv, AddrsNumbered
<1>6. RegisteredOnce' BY <1>1, <1>2, <1>3 DEF IdInv, RegisteredOnce
<1>7. CacheDistinct' BY <1>1, <1>2 DEF IdInv, CacheDistinct
<1>8. CacheKnows' BY <1>1 DEF CacheKnows
<1>9. OutputsPay' BY <1>1, <1>2, <1>3 DEF IdInv, OutputsPay
<1> QED BY <1>2, <1>4, <1>5, <1>6, <1>7, <1>8, <1>9 DEF IdInv

\* The start counts the addresses and reads the ids of the assets back.
LEMMA StartIds == ASSUME IInv, IdInv, Start PROVE IdInv'
<1>1. /\ ~up /\ up' = TRUE /\ bulk = <<>>
      /\ LastAddrPkId' = GetVoutAddrCount
      /\ AssetMap' = LoadedAssets /\ assetMaxID' = LoadedMax
      /\ UNCHANGED <<bulk, tx, txAuto, asset, assetAuto, retried, late>>
  BY DEF Start, IInv, dbVars
<1>2. /\ Rows(bulk) = {} /\ RegIn(bulk) = {} /\ Cardinality(Registering') = 0
  <2>1. Registering' = Registering BY <1>1 DEF Registering
  <2> QED BY <2>1, <1>1, EmptyBulk
<1>3. /\ IsFiniteSet(AssetRows) /\ Cardinality(AssetRows) \in Nat
      /\ AssetRows' = AssetRows /\ AssetRows = RegIn(tx) /\ AssetRows \subseteq Assets
      /\ asset \in [Assets -> 0..assetAuto] /\ assetAuto \in Nat
  BY <1>1, IdBounds, RowsFit DEF IdInv, IdTypes, RegisteredOnce, AssetRows
<1>4. /\ AssetMap' \in [Hashes -> Nat]
      /\ \A h \in Assets : AssetMap'[h] = asset[h]
      /\ \A h \in Hashes \ Assets : AssetMap'[h] = NoId
      /\ assetMaxID' = Cardinality(AssetRows)
  BY <1>1, <1>3 DEF LoadedAssets, LoadedMax, Hashes, NoId
<1>5. IsFiniteSet(AddrsIn(Rows(tx))) /\ LastAddrPkId' = Cardinality(AddrsIn(Rows(tx)))
  <2>1. AddrsIn(Rows(tx)) \subseteq Addrs
    <3>1. Rows(tx) \subseteq Vout BY RowsTyped DEF IInv, IdInv, IdTypes
    <3> QED BY <3>1 DEF AddrsIn, Vout
  <2>2. IsFiniteSet(AddrsIn(Rows(tx))) BY <2>1, IdBounds, FS_Subset
  <2> QED BY <2>2, <1>1 DEF GetVoutAddrCount, AddrsIn
<1>6. IdTypes'
  <2>1. LastAddrPkId' \in Nat BY <1>5, FS_CardinalityType
  <2> QED BY <2>1, <1>1, <1>3, <1>4 DEF IdInv, IdTypes, Shaped
<1>7. AddrsNumbered'
  <2>1. Rows(tx) \cup Rows(bulk) = Rows(tx) BY <1>2
  <2> QED BY <2>1, <1>1, <1>5 DEF IdInv, AddrsNumbered
<1>8. (RegisteredOnce /\ RowsDistinct)'
  BY <1>1, <1>3 DEF IdInv, RegisteredOnce, RowsDistinct
<1>9. CacheDistinct'
  <2> SUFFICES ASSUME NoneLost PROVE CacheDistinct'
    BY <1>1, <1>3 DEF CacheDistinct, NoneLost
  <2>1. assetMaxID' = assetAuto BY <1>4 DEF NoneLost
  <2>2. \A g \in Hashes : AssetMap'[g] <= assetMaxID'
    <3> TAKE g \in Hashes
    <3>1. CASE g \in Assets
      <4>1. asset[g] \in 0..assetAuto BY <3>1, <1>3
      <4> QED BY <4>1, <3>1, <2>1, <1>3, <1>4
    <3>2. CASE g \notin Assets BY <3>2, <2>1, <1>3, <1>4 DEF NoId
    <3> QED BY <3>1, <3>2
  <2>3. \A f, g \in Hashes : AssetMap'[f] = AssetMap'[g] => f = g \/ AssetMap'[f] = NoId
    <3> SUFFICES ASSUME NEW f \in Hashes, NEW g \in Hashes,
                        AssetMap'[f] = AssetMap'[g], AssetMap'[f] # NoId
                 PROVE  f = g
      OBVIOUS
    <3>1. f \in Assets /\ g \in Assets BY <1>4
    <3>2. f \in AssetRows /\ g \in AssetRows /\ asset[f] = asset[g]
      BY <3>1, <1>4 DEF AssetRows
    <3> QED BY <3>2 DEF IdInv, RowsDistinct
  <2>4. assetMaxID' = assetAuto' + Cardinality(Registering')
    <3>1. assetAuto' = assetAuto /\ assetAuto \in Nat BY <1>1, <1>3
    <3>2. Cardinality(Registering') = 0 BY <1>2
    <3> QED BY <3>1, <3>2, <2>1
  <2> QED BY <2>2, <2>3, <2>4 DEF CacheDistinct
<1>10. CacheKnows'
  <2>1. \A h \in Assets : AssetMap'[h] # NoId <=> h \in RegIn(tx') \cup RegIn(bulk')
    <3> TAKE h \in Assets
    <3>1. h \in AssetRows <=> asset[h] # NoId BY DEF AssetRows
    <3> QED BY <3>1, <1>1, <1>2, <1>3, <1>4
  <2>2. \A h \in AssetRows' \ late' : AssetMap'[h] = asset'[h] BY <1>1, <1>3, <1>4
  <2>3. RegIn(bulk') = {} BY <1>1, <1>2
  <2> QED BY <2>1, <2>2, <2>3 DEF CacheKnows
<1>11. OutputsPay' BY <1>1, <1>2, <1>3 DEF IdInv, OutputsPay
<1> QED BY <1>6, <1>7, <1>8, <1>9, <1>10, <1>11 DEF IdInv

\* Every step keeps the second invariant.
LEMMA NextIdInv == ASSUME IInv, IdInv, IInv', [Next]_vars PROVE IdInv'
<1>1. CASE AppendTx BY <1>1, AppendTxIds
<1>2. CASE AppendTxVin BY <1>2, AppendTxVinIds
<1>3. CASE AppendTxVout BY <1>3, AppendTxVoutIds
<1>4. CASE AppendAsset BY <1>4, AppendAssetIds
<1>5. CASE Nep5AssetId BY <1>5, Nep5AssetIdIds
<1>6. CASE InsertBlock BY <1>6, InsertBlockIds
<1>7. CASE LoseConnection BY <1>7, LoseConnectionIds
<1>8. CASE Crash BY <1>8, CrashIds
<1>9. CASE Start BY <1>9, StartIds
<1>10. CASE UNCHANGED vars
  <2>1. SameOuts(bulk, bulk') /\ SameRegs(bulk, bulk')
    <3>1. bulk' = bulk /\ Len(bulk) \in Nat BY <1>10, RowsAt DEF vars, IInv
    <3> QED BY <3>1 DEF SameOuts, SameRegs
  <2>2. IsTxs(bulk)' BY DEF IInv
  <2>3. Shaped(bulk)' BY <1>10 DEF vars, IdInv, IdTypes, Shaped
  <2> QED BY <1>10, <2>1, <2>2, <2>3, NothingNew DEF vars, memVars
<1> QED BY <1>1, <1>2, <1>3, <1>4, <1>5, <1>6, <1>7, <1>8, <1>9, <1>10 DEF Next
-----------------------------------------------------------------------------
\* Both invariants hold in every reachable state of the parser, InsertBlock, the asset
\* cache and the start of the process.
THEOREM SecondInvariance == Spec => [](IInv /\ IdInv)
<1>1. Init => IInv /\ IdInv BY InitIInv, InitIdInv
<1>2. IInv /\ IdInv /\ [Next]_vars => IInv' /\ IdInv' BY NextIInv, NextIdInv
<1> QED BY <1>1, <1>2, PTL DEF Spec

\* Whatever is rolled back and however often the process starts, appendTxVout gives two
\* outputs one address_id exactly when they have one address, the address ids in the
\* database are 1, 2, ... without a gap, and the rows of the n-th transaction have the
\* tx_id n.
THEOREM IdsAreDense == Spec => []IdsDense
<1>1. ASSUME IInv, IdInv PROVE IdsDense
  <2>1. /\ IsTxs(tx) /\ IsTxs(bulk) /\ Shaped(tx) /\ Shaped(bulk)
        /\ DOMAIN tx = 1..Len(tx)
    BY <1>1, RowsAt DEF IInv, IdInv, IdTypes
  <2>2. Rows(tx \o bulk) = Rows(tx) \cup Rows(bulk) BY <2>1, JoinedParts
  <2>3. up => VoutsOK(tx) /\ VoutsOK(bulk)
    <3> SUFFICES ASSUME up, NEW v \in Rows(tx) \cup Rows(bulk)
                 PROVE  /\ v.addr \in Addrs /\ v.addrId \in 1..LastAddrPkId
                        /\ v.asset \in Assets /\ v.assetId \in Nat \ {0}
      BY DEF VoutsOK
    <3>1. v \in Vout BY <2>1, RowsTyped
    <3>2. IdsIn(Rows(tx) \cup Rows(bulk)) = 1..LastAddrPkId
      BY <1>1 DEF IdInv, AddrsNumbered
    <3>3. v.addrId \in 1..LastAddrPkId BY <3>2 DEF IdsIn
    <3> QED BY <3>1, <3>3 DEF Vout
  <2>4. TypeOK BY <1>1, <2>1, <2>3 DEF TypeOK, IInv, IdInv, IdTypes
  <2>5. \A v, w \in Rows(tx \o bulk) : v.addr = w.addr <=> v.addrId = w.addrId
    BY <1>1, <2>2 DEF IdInv, AddrsNumbered, OneToOne
  <2>6. {v.addrId : v \in Rows(tx)} = 1..Cardinality({v.addr : v \in Rows(tx)})
    BY <1>1 DEF IdInv, AddrsNumbered, IdsIn, AddrsIn
  <2>7. \A i \in DOMAIN tx : tx[i].key = i BY <1>1, <2>1 DEF IInv, Placed
  <2> QED BY <2>4, <2>5, <2>6, <2>7 DEF IdsDense
<1> QED BY <1>1, SecondInvariance, PTL

\* The asset_id that appendTxVout writes is the id of the row InsertBlock gives the
\* asset, unless the asset was late, and the cache gives no id to two hashes as long as
\* no rows of table asset were rolled back.
THEOREM AssetIdsAgree == Spec => []AssetIdsExact
<1>1. ASSUME IInv, IdInv PROVE AssetIdsExact
  BY <1>1 DEF AssetIdsExact, IdInv, OutputsPay, CacheDistinct, NoneLost
<1> QED BY <1>1, SecondInvariance, PTL
=============================================================================
