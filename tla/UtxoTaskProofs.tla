---------------------------- MODULE UtxoTaskProofs ----------------------------
(***************************************************************************)
(* Machine-checked proofs about UtxoTask: the tables after any number of   *)
(* crashes and lost connections, and the task as the ledger as long as no  *)
(* connection is lost.                                                     *)
(***************************************************************************)
EXTENDS UtxoTask, SequenceTheorems, FiniteSetTheorems, TLAPS

\* The chain: no output is spent twice, nor before it is paid.
Chain ==
  /\ outs \in [Ids -> Seq(Accounts)] /\ ins \in [Ids -> SUBSET Outputs]
  /\ txMax \in 0..MaxTx
  /\ \A t \in Ids : Len(outs[t]) <= MaxOuts
  /\ \A t \in Ids : txMax < t => outs[t] = <<>> /\ ins[t] = {}
  /\ \A t \in Ids : \A o \in ins[t] : o[1] < t /\ o[2] \in DOMAIN outs[o[1]]
  /\ \A s, t \in Ids : s # t => ins[s] \cap ins[t] = {}

Progress == nextPK = lastTxPk + 1 /\ lastTxPk <= txMax

\* TablesExact, with the transaction that spends an output named by the row.
Tables ==
  /\ \A o \in Outputs : utxo[o] = IF o \in PaidOuts THEN 1 ELSE 0
  /\ \A o \in Outputs : usedIn[o] # 0 => /\ usedIn[o] \in Applied /\ o \in PaidOuts
                                         /\ o \in Vins(usedIn[o])
  /\ \A t \in Applied : \A o \in Vins(t) : usedIn[o] = IF o \in PaidOuts THEN t ELSE 0
  /\ \A a \in Addrs, t \in Ids :
       addrTx[a][t] = IF t \in Applied /\ a \in AddrsOf(t) THEN 1 ELSE 0

\* What a start needs to load all addresses, and what holds until a connection
\* error: the cache knows no more than the tables, and no row is missed or unread.
Cached ==
  /\ CacheCoversRows
  /\ missed = {} => \A a \in address : \E acc \in accRows : acc[1] = a
  /\ losses = 0 => cacheAddr \subseteq address /\ cacheAcc \subseteq accRows /\ missed = {}
                   /\ lostVins = {} /\ lostVouts = {}

\* The numbers that TypeOK bounds.
Bounded ==
  /\ \A a \in Addrs : transAsset[a] <= lastTxPk
  /\ \A acc \in Accounts : accTxs[acc] <= lastTxPk
  /\ \A acc \in Accounts, o \in Outputs :
       /\ o \notin PaidOuts => balance[acc][o] <= 0
       /\ o \notin Spent => balance[acc][o] >= 0

\* The inductive invariant.
IInv == Chain /\ Progress /\ Tables /\ Cached /\ Bounded /\ RowsCounted
        /\ BalanceUnlessMissed
-----------------------------------------------------------------------------
LEMMA Names ==
  /\ Ids = 1..MaxTx /\ Accounts = Addrs \X Assets /\ Outputs = Ids \X (1..MaxOuts)
  /\ \A o : Owner(o) = outs[o[1]][o[2]]
  /\ \A t : HasEffect(t) <=> outs[t] # <<>> \/ ins[t] # {}
BY DEF Ids, Accounts, Outputs, Owner, HasEffect, Promise!Ids, Promise!Accounts,
       Promise!Outputs, Promise!Owner, Promise!HasEffect

\* Outputs that exist have an owner.
LEMMA OwnerIs ==
  ASSUME Chain, NEW o \in Outputs, o[2] \in DOMAIN outs[o[1]]
  PROVE  /\ Owner(o) \in Accounts /\ Owner(o) \in Range(outs[o[1]])
         /\ o[1] \in Ids /\ HasEffect(o[1]) /\ o[1] <= txMax
<1>1. o[1] \in Ids /\ o = <<o[1], o[2]>> BY Names
<1>2. outs[o[1]] \in Seq(Accounts) BY <1>1 DEF Chain
<1>3. Owner(o) = outs[o[1]][o[2]] /\ Owner(o) \in Accounts
  BY <1>2, Names, LenProperties
<1>4. Owner(o) \in Range(outs[o[1]]) BY <1>3 DEF Range
<1>5. outs[o[1]] # <<>> BY EmptySeq
<1>6. o[1] <= txMax
  <2>1. o[1] \in Nat /\ txMax \in Nat BY <1>1, Names, UtxoBounds DEF Chain
  <2> QED BY <2>1, <1>1, <1>5 DEF Chain
<1> QED BY <1>1, <1>3, <1>4, <1>5, <1>6, Names

\* What is read of a transaction exists, and its accounts are those of the outputs
\* it spends or pays.
LEMMA PairsAreOwners ==
  ASSUME Chain, NEW t \in Ids
  PROVE  /\ Moves(t) \in SUBSET Outputs
         /\ AddrAssetPair(t) \subseteq Accounts /\ AddrsOf(t) \subseteq Addrs
         /\ \A o \in Vouts(t) : /\ o \in Outputs /\ o[1] = t
                               /\ o[2] \in DOMAIN outs[o[1]] /\ o \in Moves(t)
         /\ \A o \in Vins(t) : /\ o \in Outputs /\ o[2] \in DOMAIN outs[o[1]]
                              /\ o[1] < t /\ o \in ins[t] /\ o \in Moves(t)
         /\ \A acc : acc \in AddrAssetPair(t) <=> \E o \in Moves(t) : Owner(o) = acc
<1>1. outs[t] \in Seq(Accounts) /\ ins[t] \in SUBSET Outputs /\ Len(outs[t]) <= MaxOuts
  BY DEF Chain
<1>2. \A n \in DOMAIN outs[t] : n \in 1..MaxOuts
  BY <1>1, LenProperties, UtxoBounds
<1>3. \A o \in Vouts(t) : /\ o \in Outputs /\ o[1] = t
                         /\ o[2] \in DOMAIN outs[o[1]] /\ o \in Moves(t)
  BY <1>2, Names DEF Vouts, Moves
<1>4. \A o \in Vins(t) : /\ o \in Outputs /\ o[2] \in DOMAIN outs[o[1]]
                        /\ o[1] < t /\ o \in ins[t] /\ o \in Moves(t)
  BY <1>1 DEF Chain, Vins, Moves
<1>5. \A o \in Moves(t) : o \in Outputs /\ o[2] \in DOMAIN outs[o[1]]
  BY <1>3, <1>4 DEF Moves
<1>6. \A acc : acc \in AddrAssetPair(t) <=> \E o \in Moves(t) : Owner(o) = acc
  BY DEF AddrAssetPair
<1>7. AddrAssetPair(t) \subseteq Accounts BY <1>5, <1>6, OwnerIs
<1>8. AddrsOf(t) \subseteq Addrs BY <1>7, Names DEF AddrsOf
<1> QED BY <1>3, <1>4, <1>5, <1>6, <1>7, <1>8

LEMMA SameTransactions ==
  ASSUME UNCHANGED <<outs, ins>>
  PROVE  /\ \A o : Owner(o)' = Owner(o)
         /\ \A s : HasEffect(s)' = HasEffect(s)
<1> QED BY DEF Owner, Promise!Owner, HasEffect, Promise!HasEffect

\* What is read of a transaction settles its accounts and addresses.
LEMMA SameReads ==
  ASSUME UNCHANGED <<outs, ins>>, NEW s, Vins(s)' = Vins(s), Vouts(s)' = Vouts(s)
  PROVE  /\ Moves(s)' = Moves(s) /\ AddrAssetPair(s)' = AddrAssetPair(s)
         /\ AddrsOf(s)' = AddrsOf(s)
<1>1. Moves(s)' = Moves(s) BY DEF Moves
<1>2. AddrAssetPair(s)' = AddrAssetPair(s) BY <1>1, SameTransactions DEF AddrAssetPair
<1> QED BY <1>1, <1>2 DEF AddrsOf

\* Without an effect, a transaction has no inputs, outputs and accounts.
LEMMA NoEffect ==
  ASSUME NEW t \in Ids, ~HasEffect(t)
  PROVE  Vins(t) = {} /\ Vouts(t) = {} /\ AddrAssetPair(t) = {}
         /\ AddrsOf(t) = {} /\ Moves(t) = {}
<1>1. outs[t] = <<>> /\ ins[t] = {} BY Names
<1>2. DOMAIN outs[t] = {} BY <1>1
<1>3. Vins(t) = {} /\ Vouts(t) = {} BY <1>1, <1>2 DEF Vins, Vouts
<1>4. Moves(t) = {} BY <1>3 DEF Moves
<1>5. AddrAssetPair(t) = {} BY <1>4 DEF AddrAssetPair
<1>6. AddrsOf(t) = {} BY <1>5 DEF AddrsOf
<1> QED BY <1>3, <1>4, <1>5, <1>6

\* The outputs paid to an account, among all the outputs paid.
LEMMA PaidIs ==
  ASSUME Chain
  PROVE  /\ \A acc \in Accounts : \A o : o \in Paid(acc) <=> o \in PaidOuts /\ Owner(o) = acc
         /\ \A o \in PaidOuts : /\ o \in Outputs /\ o[1] \in Applied
                               /\ Owner(o) \in Accounts
         /\ \A o : o \in PaidOuts <=> \E s \in Applied : o \in Vouts(s)
         /\ \A o : o \in Spent <=> \E s \in Applied : o \in Vins(s)
<1>1. Applied \subseteq Ids BY DEF Applied
<1>2. \A o : o \in PaidOuts <=> \E s \in Applied : o \in Vouts(s) BY DEF PaidOuts
<1>3. \A o \in PaidOuts : /\ o \in Outputs /\ o[1] \in Applied
                         /\ Owner(o) \in Accounts
  BY <1>1, <1>2, PairsAreOwners, OwnerIs
<1>4. \A acc \in Accounts : \A o : o \in Paid(acc) <=> o \in PaidOuts /\ Owner(o) = acc
  BY DEF Paid
<1>5. \A o : o \in Spent <=> \E s \in Applied : o \in Vins(s) BY DEF Spent
<1> QED BY <1>2, <1>3, <1>4, <1>5

\* What the next transaction finds, and what it adds to the outputs paid and spent.
LEMMA Settled ==
  ASSUME IInv, NEW t \in Ids, Apply(t)
  PROVE  /\ UNCHANGED <<outs, ins, txMax, crashes, losses, lostVins, lostVouts>>
         /\ t \in Nat /\ lastTxPk' = t /\ lastTxPk < t /\ t <= txMax /\ t \notin Applied
         /\ \A s : Vins(s)' = Vins(s) /\ Vouts(s)' = Vouts(s)
         /\ \A s \in Ids : s \in Applied' <=> s \in Applied \/ (s \notin Applied /\ s <= t)
         /\ \A s \in Ids : s \notin Applied /\ s < t => ~HasEffect(s)
         /\ \A o : o \in PaidOuts' <=> o \in PaidOuts \/ o \in Vouts(t)
         /\ \A o : o \in Spent' <=> o \in Spent \/ o \in Vins(t)
         /\ \A o \in Vins(t) : o \notin Spent /\ usedIn[o] = 0 /\ o \notin Vouts(t)
         /\ losses = 0 => \A o \in Vins(t) : o \in PaidOuts
         /\ \A o \in Vouts(t) : o \notin PaidOuts /\ o \notin Spent'
                               /\ o \notin Vins(t) /\ usedIn[o] = 0
<1> USE UtxoBounds
<1>1. Chain /\ Progress /\ TypeOK /\ Tables /\ Cached
  BY DEF IInv, Cached, CacheCoversRows
<1>2. /\ UNCHANGED <<outs, ins, txMax, crashes, losses, lostVins, lostVouts>>
      /\ lastTxPk' = t /\ t <= txMax /\ t >= nextPK /\ HasEffect(t)
      /\ \A s \in nextPK..(t - 1) : ~HasEffect(s)
  BY DEF Apply, IsNext, chainVars, readVars
<1>3. /\ t \in Nat /\ lastTxPk \in Nat /\ lastTxPk < t /\ nextPK = lastTxPk + 1
      /\ \A s \in Ids : s \in Nat
  BY <1>1, <1>2, Names DEF Progress, TypeOK
<1>4. \A s \in Ids : (s \in Applied <=> s <= lastTxPk) /\ (s \in Applied' <=> s <= t)
  BY <1>2 DEF Applied
<1>5. Applied' \subseteq Ids /\ Applied \subseteq Ids BY DEF Applied
<1>6. \A s \in Ids : s \in Applied' <=> s \in Applied \/ (s \notin Applied /\ s <= t)
  BY <1>3, <1>4
<1>7. \A s \in Ids : s \notin Applied /\ s < t => ~HasEffect(s)
  BY <1>2, <1>3, <1>4
<1>8. t \notin Applied /\ t \in Applied' BY <1>3, <1>4
<1>9. \A s \in Ids : s \in Applied' => s \in Applied \/ s = t \/ ~HasEffect(s)
  BY <1>3, <1>6, <1>7
<1>10. \A s : Vins(s)' = Vins(s) /\ Vouts(s)' = Vouts(s) BY <1>2 DEF Vins, Vouts
<1>11. \A s \in Ids : ~HasEffect(s) => Vins(s) = {} /\ Vouts(s) = {} BY NoEffect
<1>12. \A o : o \in PaidOuts' <=> o \in PaidOuts \/ o \in Vouts(t)
  <2>1. \A o : o \in PaidOuts' <=> \E s \in Applied' : o \in Vouts(s)
    BY <1>10 DEF PaidOuts
  <2>2. \A o : o \in PaidOuts <=> \E s \in Applied : o \in Vouts(s) BY DEF PaidOuts
  <2>3. \A s \in Ids : s \in Applied => s \in Applied' BY <1>6
  <2> QED BY <2>1, <2>2, <2>3, <1>5, <1>8, <1>9, <1>11
<1>13. \A o : o \in Spent' <=> o \in Spent \/ o \in Vins(t)
  <2>1. \A o : o \in Spent' <=> \E s \in Applied' : o \in Vins(s)
    BY <1>10 DEF Spent
  <2>2. \A o : o \in Spent <=> \E s \in Applied : o \in Vins(s) BY DEF Spent
  <2>3. \A s \in Ids : s \in Applied => s \in Applied' BY <1>6
  <2> QED BY <2>1, <2>2, <2>3, <1>5, <1>8, <1>9, <1>11
<1>14. ASSUME NEW o \in Vins(t)
       PROVE  /\ o \notin Spent /\ usedIn[o] = 0 /\ o \notin Vouts(t)
              /\ (losses = 0 => o \in PaidOuts)
  <2>1. o \in Outputs /\ o[2] \in DOMAIN outs[o[1]] /\ o[1] < t /\ o \in ins[t]
    BY <1>1, PairsAreOwners
  <2>2. o[1] \in Ids /\ HasEffect(o[1]) BY <2>1, <1>1, OwnerIs
  <2>3. o[1] \in Applied BY <2>1, <2>2, <1>7
  <2>4. ASSUME losses = 0 PROVE o \in PaidOuts
    <3>1. o \in {o[1]} \X DOMAIN outs[o[1]] BY <2>1, Names
    <3>2. o \in Vouts(o[1]) BY <3>1, <2>4, <1>1 DEF Vouts, Cached
    <3> QED BY <3>2, <2>3 DEF PaidOuts
  <2>5. \A s \in Applied : o \notin Vins(s)
    BY <2>1, <1>1, <1>5, <1>8 DEF Chain, Vins
  <2>6. o \notin Spent BY <2>5 DEF Spent
  <2>7. usedIn[o] = 0 BY <2>1, <2>5, <1>1 DEF Tables
  <2>8. o \notin Vouts(t)
    <3>1. o[1] # t BY <2>1, <2>2, <1>3
    <3> QED BY <3>1, <1>1, PairsAreOwners
  <2> QED BY <2>4, <2>6, <2>7, <2>8
<1>15. ASSUME NEW o \in Vouts(t)
       PROVE  o \notin PaidOuts /\ o \notin Spent' /\ o \notin Vins(t) /\ usedIn[o] = 0
  <2>1. o \in Outputs /\ o[1] = t BY <1>1, PairsAreOwners
  <2>2. o \notin PaidOuts BY <2>1, <1>1, <1>8, PaidIs
  <2>3. \A s \in Applied' : o \notin Vins(s)
    <3> SUFFICES ASSUME NEW s \in Applied', o \in Vins(s) PROVE FALSE OBVIOUS
    <3>1. s \in Ids /\ s <= t BY <1>4, <1>5
    <3>2. o[1] < s BY <3>1, <1>1, PairsAreOwners
    <3> QED BY <2>1, <3>1, <3>2, <1>3
  <2>4. o \notin Spent' BY <2>3, <1>10 DEF Spent
  <2>5. \A s \in Applied : o \notin Vins(s) BY <2>3, <1>5, <1>6
  <2>6. usedIn[o] = 0 BY <2>1, <2>5, <1>1 DEF Tables
  <2> QED BY <2>2, <2>3, <2>4, <2>6, <1>8
<1> QED BY <1>2, <1>3, <1>6, <1>7, <1>8, <1>10, <1>12, <1>13, <1>14, <1>15
-----------------------------------------------------------------------------
\* The rows of utxo and addr_tx.
LEMMA ApplyTables ==
  ASSUME IInv, NEW t \in Ids, Apply(t)
  PROVE  Tables' /\ utxo' \in [Outputs -> 0..1] /\ usedIn' \in [Outputs -> 0..MaxTx]
         /\ addrTx' \in [Addrs -> [Ids -> 0..1]]
<1> USE UtxoBounds
<1>1. Chain /\ Tables /\ TypeOK BY DEF IInv, Cached, CacheCoversRows
<1>2. /\ UNCHANGED <<outs, ins>> /\ t \in Nat /\ t \notin Applied
      /\ \A s \in Ids : s \in Applied' <=> s \in Applied \/ (s \notin Applied /\ s <= t)
      /\ \A s \in Ids : s \notin Applied /\ s < t => ~HasEffect(s)
      /\ \A o : o \in PaidOuts' <=> o \in PaidOuts \/ o \in Vouts(t)
      /\ \A o \in Vins(t) : o \notin Spent /\ usedIn[o] = 0 /\ o \notin Vouts(t)
      /\ \A o \in Vouts(t) : o \notin PaidOuts /\ usedIn[o] = 0
      /\ \A s : Vins(s)' = Vins(s) /\ Vouts(s)' = Vouts(s)
  BY Settled
<1>3. t \in 1..MaxTx /\ t # 0 /\ Ids = 1..MaxTx BY Names
<1>4. Applied' \subseteq Ids /\ Applied \subseteq Ids /\ t \in Applied'
  BY <1>2 DEF Applied
<1>5. /\ usedIn' = [o \in Outputs |-> IF o \in Vins(t) /\ utxo[o] > 0 THEN t
                                     ELSE usedIn[o]]
      /\ utxo' = [o \in Outputs |-> utxo[o] + (IF o \in Vouts(t) THEN 1 ELSE 0)]
      /\ addrTx' = [a \in Addrs |-> IF a \in AddrsOf(t)
                                    THEN [addrTx[a] EXCEPT ![t] = @ + 1]
                                    ELSE addrTx[a]]
  BY DEF Apply, HandleVinsVouts, UpdateTxInfo
<1>6. \A o \in Outputs : utxo'[o] = IF o \in PaidOuts' THEN 1 ELSE 0
  <2> SUFFICES ASSUME NEW o \in Outputs
               PROVE  utxo'[o] = IF o \in PaidOuts' THEN 1 ELSE 0
    OBVIOUS
  <2>1. utxo'[o] = utxo[o] + (IF o \in Vouts(t) THEN 1 ELSE 0) BY <1>5
  <2>2. utxo[o] = IF o \in PaidOuts THEN 1 ELSE 0 BY <1>1 DEF Tables
  <2> QED BY <2>1, <2>2, <1>2
<1>7. utxo' \in [Outputs -> 0..1]
  <2>1. DOMAIN utxo' = Outputs /\ utxo' = [o \in Outputs |-> utxo'[o]] BY <1>5
  <2>2. \A o \in Outputs : utxo'[o] \in 0..1 BY <1>6
  <2> QED BY <2>1, <2>2
<1>8. usedIn' \in [Outputs -> 0..MaxTx] BY <1>1, <1>3, <1>5 DEF TypeOK
<1>9. ASSUME NEW o \in Outputs, usedIn'[o] # 0
      PROVE  usedIn'[o] \in Applied' /\ o \in PaidOuts' /\ o \in Vins(usedIn'[o])
  <2>1. CASE o \in Vins(t) /\ utxo[o] > 0
    <3>1. usedIn'[o] = t BY <2>1, <1>5
    <3>2. o \in PaidOuts BY <2>1, <1>1 DEF Tables
    <3> QED BY <3>1, <3>2, <2>1, <1>2, <1>4
  <2>2. CASE ~(o \in Vins(t) /\ utxo[o] > 0)
    <3>1. usedIn'[o] = usedIn[o] BY <2>2, <1>5
    <3>2. usedIn[o] \in Applied /\ o \in PaidOuts /\ o \in Vins(usedIn[o])
      BY <3>1, <1>1, <1>9 DEF Tables
    <3> QED BY <3>1, <3>2, <1>2, <1>4
  <2> QED BY <2>1, <2>2
<1>10. ASSUME NEW s \in Applied', NEW o \in Vins(s)
       PROVE  usedIn'[o] = IF o \in PaidOuts' THEN s ELSE 0
  <2>1. s \in Ids /\ s \in Nat BY <1>4, <1>3
  <2>2. o \in Outputs /\ o \in ins[s] BY <2>1, <1>1, PairsAreOwners
  <2>3. CASE s = t
    <3>1. o \in PaidOuts' <=> o \in PaidOuts BY <2>3, <1>2
    <3>2. utxo[o] > 0 <=> o \in PaidOuts BY <2>2, <1>1 DEF Tables
    <3>3. usedIn[o] = 0 BY <2>3, <1>2
    <3> QED BY <3>1, <3>2, <3>3, <2>2, <2>3, <1>5
  <2>4. CASE s \in Applied
    <3>1. s # t /\ o \notin Vins(t) BY <2>1, <2>2, <2>4, <1>1, <1>2 DEF Chain, Vins
    <3>2. usedIn[o] = IF o \in PaidOuts THEN s ELSE 0 BY <2>4, <1>1 DEF Tables
    <3>3. usedIn'[o] = usedIn[o] BY <3>1, <2>2, <1>5
    <3>4. o \notin Vouts(t)
      <4>1. o \in Spent BY <2>4 DEF Spent
      <4>2. o \in Spent' BY <4>1, Settled
      <4> QED BY <4>2, Settled
    <3> QED BY <3>2, <3>3, <3>4, <1>2
  <2>5. CASE s \notin Applied /\ s # t
    <3>1. ~HasEffect(s) BY <2>1, <2>5, <1>2
    <3> QED BY <3>1, <2>1, NoEffect
  <2> QED BY <2>3, <2>4, <2>5
<1>11. \A a \in Addrs, s \in Ids : addrTx'[a][s] =
         addrTx[a][s] + (IF s = t /\ a \in AddrsOf(t) THEN 1 ELSE 0)
  <2> SUFFICES ASSUME NEW a \in Addrs, NEW s \in Ids
               PROVE  addrTx'[a][s] =
                 addrTx[a][s] + (IF s = t /\ a \in AddrsOf(t) THEN 1 ELSE 0)
    OBVIOUS
  <2>1. addrTx[a] \in [Ids -> 0..1] BY <1>1 DEF TypeOK
  <2>2. addrTx'[a] = IF a \in AddrsOf(t) THEN [addrTx[a] EXCEPT ![t] = @ + 1]
                                         ELSE addrTx[a]
    BY <1>5
  <2> QED BY <2>1, <2>2
<1>12. \A a \in Addrs, s \in Ids :
         addrTx'[a][s] = IF s \in Applied' /\ a \in AddrsOf(s) THEN 1 ELSE 0
  <2> SUFFICES ASSUME NEW a \in Addrs, NEW s \in Ids
               PROVE  addrTx'[a][s] = IF s \in Applied' /\ a \in AddrsOf(s) THEN 1 ELSE 0
    OBVIOUS
  <2>1. addrTx[a][s] = IF s \in Applied /\ a \in AddrsOf(s) THEN 1 ELSE 0
    BY <1>1 DEF Tables
  <2>2. addrTx'[a][s] = addrTx[a][s] + (IF s = t /\ a \in AddrsOf(t) THEN 1 ELSE 0)
    BY <1>11
  <2>3. s \in Nat BY <1>3
  <2>4. s \in Applied' => s \in Applied \/ s = t \/ AddrsOf(s) = {}
    <3>1. s \in Applied' => s \in Applied \/ s = t \/ ~HasEffect(s) BY <2>3, <1>2
    <3> QED BY <3>1, NoEffect
  <2>5. s \in Applied => s \in Applied' /\ s # t BY <1>2
  <2>6. t \in Applied' BY <1>4
  <2> QED BY <2>1, <2>2, <2>4, <2>5, <2>6
<1>13. addrTx' \in [Addrs -> [Ids -> 0..1]]
  <2> SUFFICES ASSUME NEW a \in Addrs PROVE addrTx'[a] \in [Ids -> 0..1]
    BY <1>5
  <2>1. addrTx[a] \in [Ids -> 0..1] BY <1>1 DEF TypeOK
  <2>2. addrTx'[a] = [s \in Ids |-> addrTx'[a][s]] BY <2>1, <1>5
  <2>3. \A s \in Ids : addrTx'[a][s] \in 0..1 BY <1>12
  <2> QED BY <2>2, <2>3
<1>14. \A s \in Ids : AddrsOf(s)' = AddrsOf(s)
  BY <1>2, SameReads
<1>15. Tables'
  BY <1>2, <1>6, <1>9, <1>10, <1>12, <1>14 DEF Tables
<1> QED BY <1>7, <1>8, <1>13, <1>15

\* A balance changes by the outputs the transaction pays and spends, if there is a
\* row for it to change.
LEMMA BalanceMoves ==
  ASSUME IInv, NEW t \in Ids, Apply(t)
  PROVE  \A acc \in Accounts, o \in Outputs : balance'[acc][o] =
           IF o \in Vouts(t) /\ Owner(o) = acc /\ acc \in accRows' THEN 1
           ELSE IF o \in Vins(t) /\ Owner(o) = acc /\ acc \in accRows
                THEN balance[acc][o] - 1 ELSE balance[acc][o]
<1>1. Chain /\ Bounded /\ TypeOK BY DEF IInv, Cached, CacheCoversRows
<1> SUFFICES ASSUME NEW acc \in Accounts, NEW o \in Outputs
             PROVE  balance'[acc][o] =
           IF o \in Vouts(t) /\ Owner(o) = acc /\ acc \in accRows' THEN 1
           ELSE IF o \in Vins(t) /\ Owner(o) = acc /\ acc \in accRows
                THEN balance[acc][o] - 1 ELSE balance[acc][o]
  OBVIOUS
<1>2. accRows' = accRows \cup NewAccs(t) BY DEF Apply, HandleVinsVouts
<1>3. balance'[acc][o] =
        balance[acc][o] + (IF o \in Moves(t) THEN Delta(t, acc, o) ELSE 0)
  BY DEF Apply, HandleVinsVouts
<1>4. balance[acc][o] \in Int BY <1>1 DEF TypeOK
<1>5. o \in Moves(t) <=> o \in Vins(t) \/ o \in Vouts(t) BY DEF Moves
<1>6. CASE o \in Vouts(t)
  <2>1. o[1] = t /\ o \notin PaidOuts /\ o \notin Vins(t) /\ o \notin Spent
    BY <1>1, <1>6, PairsAreOwners, Settled
  <2>2. balance[acc][o] = 0 BY <2>1, <1>1, <1>4 DEF Bounded
  <2>3. Delta(t, acc, o) = IF Owner(o) = acc /\ acc \in accRows' THEN 1 ELSE 0
    BY <2>1, <1>2 DEF Delta
  <2> QED BY <2>1, <2>2, <2>3, <1>3, <1>5, <1>6
<1>7. CASE o \in Vins(t)
  <2>1. o \notin Vouts(t) BY <1>7, Settled
  <2>2. o[1] # t
    <3>1. o[1] < t /\ t \in Nat BY <1>1, <1>7, PairsAreOwners, Settled
    <3> QED BY <3>1
  <2>3. Delta(t, acc, o) = IF Owner(o) = acc /\ acc \in accRows THEN -1 ELSE 0
    BY <2>2 DEF Delta
  <2> QED BY <2>1, <2>3, <1>3, <1>4, <1>5, <1>7
<1>8. CASE o \notin Vouts(t) /\ o \notin Vins(t)
  BY <1>3, <1>4, <1>5, <1>8
<1> QED BY <1>6, <1>7, <1>8

LEMMA PaidNext ==
  ASSUME IInv, NEW t \in Ids, Apply(t), NEW acc \in Accounts, NEW o
  PROVE  o \in Paid(acc)' <=>
           o \in Paid(acc) \/ (o \in Vouts(t) /\ Owner(o) = acc)
<1>1. o \in Paid(acc)' <=> o \in PaidOuts' /\ Owner(o)' = acc BY DEF Paid
<1>2. o \in PaidOuts' <=> o \in PaidOuts \/ o \in Vouts(t)
  BY Settled
<1>3. o \in Paid(acc) <=> o \in PaidOuts /\ Owner(o) = acc BY PaidIs DEF IInv
<1>4. Owner(o)' = Owner(o) BY Settled, SameTransactions
<1> QED BY <1>1, <1>2, <1>3, <1>4

\* An account that misses no row keeps its row and its balance.
LEMMA ApplyBalance ==
  ASSUME IInv, NEW t \in Ids, Apply(t)
  PROVE  BalanceUnlessMissed'
<1>1. Chain /\ BalanceUnlessMissed /\ TypeOK BY DEF IInv, Cached, CacheCoversRows
<1>2. /\ accRows' = accRows \cup NewAccs(t)
      /\ missed' = missed \cup (AddrAssetPair(t) \ accRows')
                          \cup ({Owner(o) : o \in Vins(t)} \ accRows)
  BY DEF Apply, HandleVinsVouts
<1>3. \A c \in NewAccs(t) : \E o \in Vouts(t) : Owner(o) = c BY DEF NewAccs
<1>4. \A o \in Vouts(t) : Owner(o) \in AddrAssetPair(t)
  BY <1>1, PairsAreOwners
<1>5. /\ \A o : o \in Spent' <=> o \in Spent \/ o \in Vins(t)
      /\ \A o \in Vins(t) : o \notin Spent /\ o \notin Vouts(t)
      /\ \A o \in Vouts(t) : o \notin PaidOuts /\ o \notin Spent'
                            /\ o \notin Vins(t)
  BY Settled
<1>0. \A o : Owner(o)' = Owner(o) BY Settled, SameTransactions
<1> SUFFICES ASSUME NEW acc \in Accounts, acc \notin missed'
             PROVE  /\ acc \in accRows' <=> Paid(acc)' # {}
                    /\ \A o \in Outputs : balance'[acc][o] =
                         (IF o \in Paid(acc)' THEN 1 ELSE 0)
                         - (IF o \in Spent' /\ Owner(o) = acc THEN 1 ELSE 0)
  BY <1>0 DEF BalanceUnlessMissed
<1>6. /\ acc \notin missed /\ (acc \in AddrAssetPair(t) => acc \in accRows')
      /\ \A o \in Vins(t) : Owner(o) = acc => acc \in accRows
  BY <1>2
<1>7. /\ acc \in accRows <=> Paid(acc) # {}
      /\ \A o \in Outputs : balance[acc][o] =
           (IF o \in Paid(acc) THEN 1 ELSE 0)
           - (IF o \in Spent /\ Owner(o) = acc THEN 1 ELSE 0)
  BY <1>1, <1>6 DEF BalanceUnlessMissed
<1>8. \A o : o \in Paid(acc)' <=>
               o \in Paid(acc) \/ (o \in Vouts(t) /\ Owner(o) = acc)
  BY PaidNext
<1>9. acc \in accRows' <=> Paid(acc)' # {}
  <2>1. acc \in accRows => Paid(acc)' # {} BY <1>7, <1>8
  <2>2. acc \in NewAccs(t) => Paid(acc)' # {} BY <1>3, <1>8
  <2>3. \A o \in Paid(acc)' : acc \in accRows'
    <3> SUFFICES ASSUME NEW o \in Paid(acc)' PROVE acc \in accRows' OBVIOUS
    <3>1. CASE o \in Paid(acc) BY <3>1, <1>2, <1>7
    <3>2. CASE o \in Vouts(t) /\ Owner(o) = acc BY <3>2, <1>4, <1>6
    <3> QED BY <3>1, <3>2, <1>8
  <2> QED BY <2>1, <2>2, <2>3, <1>2
<1>10. ASSUME NEW o \in Outputs
       PROVE  balance'[acc][o] =
                (IF o \in Paid(acc)' THEN 1 ELSE 0)
                - (IF o \in Spent' /\ Owner(o) = acc THEN 1 ELSE 0)
  <2>1. balance'[acc][o] =
          IF o \in Vouts(t) /\ Owner(o) = acc /\ acc \in accRows' THEN 1
          ELSE IF o \in Vins(t) /\ Owner(o) = acc /\ acc \in accRows
               THEN balance[acc][o] - 1 ELSE balance[acc][o]
    BY BalanceMoves
  <2>2. balance[acc][o] = (IF o \in Paid(acc) THEN 1 ELSE 0)
                          - (IF o \in Spent /\ Owner(o) = acc THEN 1 ELSE 0)
    BY <1>7
  <2>3. CASE o \in Vouts(t)
    <3>1. o \notin Paid(acc) BY <2>3, <1>1, <1>5, PaidIs
    <3>2. o \notin Spent' /\ o \notin Spent /\ o \notin Vins(t) BY <2>3, <1>5
    <3>3. Owner(o) = acc => acc \in accRows' BY <2>3, <1>4, <1>6
    <3> QED BY <3>1, <3>2, <3>3, <2>1, <2>2, <2>3, <1>8
  <2>4. CASE o \in Vins(t)
    <3>1. o \notin Spent /\ o \in Spent' /\ o \notin Vouts(t) BY <2>4, <1>5
    <3>2. o \in Paid(acc)' <=> o \in Paid(acc) BY <3>1, <1>8
    <3>3. Owner(o) = acc => acc \in accRows BY <2>4, <1>6
    <3> QED BY <3>1, <3>2, <3>3, <2>1, <2>2, <2>4
  <2>5. CASE o \notin Vouts(t) /\ o \notin Vins(t)
    BY <2>1, <2>2, <2>5, <1>5, <1>8
  <2> QED BY <2>3, <2>4, <2>5
<1> QED BY <1>9, <1>10

LEMMA ApplyBounded ==
  ASSUME IInv, NEW t \in Ids, Apply(t)
  PROVE  /\ Bounded' /\ balance' \in [Accounts -> [Outputs -> -1..1]]
         /\ transAsset' \in [Addrs -> 0..MaxTx] /\ accTxs' \in [Accounts -> 0..MaxTx]
<1> USE UtxoBounds
<1>1. Chain /\ Bounded /\ TypeOK BY DEF IInv, Cached, CacheCoversRows
<1>2. /\ \A o : o \in PaidOuts' <=> o \in PaidOuts \/ o \in Vouts(t)
      /\ \A o : o \in Spent' <=> o \in Spent \/ o \in Vins(t)
      /\ \A o \in Vins(t) : o \notin Spent /\ o \notin Vouts(t)
      /\ \A o \in Vouts(t) : o \notin PaidOuts /\ o \notin Spent'
      /\ t \in Nat /\ lastTxPk' = t /\ lastTxPk < t
  BY Settled
<1>3. lastTxPk \in Nat /\ t \in 1..MaxTx BY <1>1, Names DEF TypeOK
<1>4. ASSUME NEW a \in Addrs
      PROVE  transAsset'[a] \in 0..MaxTx /\ transAsset'[a] <= lastTxPk'
  <2>1. transAsset'[a] = transAsset[a] + (IF a \in AddrsOf(t) \cap address' THEN 1 ELSE 0)
    BY DEF Apply, UpdateAddrInfo
  <2>2. transAsset[a] \in Nat /\ transAsset[a] <= lastTxPk BY <1>1 DEF TypeOK, Bounded
  <2>3. transAsset'[a] \in Nat /\ transAsset'[a] - 1 <= lastTxPk BY <2>1, <2>2, <1>3
  <2> QED BY <2>3, <1>2, <1>3
<1>5. ASSUME NEW acc \in Accounts
      PROVE  accTxs'[acc] \in 0..MaxTx /\ accTxs'[acc] <= lastTxPk'
  <2>1. accTxs'[acc] = accTxs[acc] +
          (IF acc \in AddrAssetPair(t) \cap accRows' THEN 1 ELSE 0)
    BY DEF Apply, UpdateTxInfo
  <2>2. accTxs[acc] \in Nat /\ accTxs[acc] <= lastTxPk BY <1>1 DEF TypeOK, Bounded
  <2>3. accTxs'[acc] \in Nat /\ accTxs'[acc] - 1 <= lastTxPk BY <2>1, <2>2, <1>3
  <2> QED BY <2>3, <1>2, <1>3
<1>6. ASSUME NEW acc \in Accounts, NEW o \in Outputs
      PROVE  /\ balance'[acc][o] \in -1..1
             /\ o \notin PaidOuts' => balance'[acc][o] <= 0
             /\ o \notin Spent' => balance'[acc][o] >= 0
  <2>1. balance'[acc][o] =
          IF o \in Vouts(t) /\ Owner(o) = acc /\ acc \in accRows' THEN 1
          ELSE IF o \in Vins(t) /\ Owner(o) = acc /\ acc \in accRows
               THEN balance[acc][o] - 1 ELSE balance[acc][o]
    BY BalanceMoves
  <2>2. /\ balance[acc][o] \in -1..1
        /\ o \notin PaidOuts => balance[acc][o] <= 0
        /\ o \notin Spent => balance[acc][o] >= 0
    BY <1>1 DEF TypeOK, Bounded
  <2>3. CASE o \in Vins(t)
    <3>1. o \in Spent' /\ balance[acc][o] >= 0 /\ o \notin Vouts(t)
      BY <2>2, <2>3, <1>2
    <3>2. balance'[acc][o] \in {balance[acc][o] - 1, balance[acc][o]} BY <2>1, <3>1
    <3> QED BY <3>1, <3>2, <2>2, <1>2
  <2>4. CASE o \notin Vins(t) BY <2>1, <2>2, <2>4, <1>2
  <2> QED BY <2>3, <2>4
<1>7. /\ balance' = [acc \in Accounts |-> [o \in Outputs |-> balance[acc][o] +
                   (IF o \in Moves(t) THEN Delta(t, acc, o) ELSE 0)]]
      /\ transAsset' = [a \in Addrs |-> transAsset[a] +
                   (IF a \in AddrsOf(t) \cap address' THEN 1 ELSE 0)]
      /\ accTxs' = [acc \in Accounts |-> accTxs[acc] +
                   (IF acc \in AddrAssetPair(t) \cap accRows' THEN 1 ELSE 0)]
  BY DEF Apply, HandleVinsVouts, UpdateAddrInfo, UpdateTxInfo
<1>8. balance' \in [Accounts -> [Outputs -> -1..1]]
  <2>1. \A acc \in Accounts : balance'[acc] = [o \in Outputs |-> balance'[acc][o]]
    BY <1>7
  <2>2. \A acc \in Accounts : balance'[acc] \in [Outputs -> -1..1] BY <2>1, <1>6
  <2>3. balance' = [acc \in Accounts |-> balance'[acc]] BY <1>7
  <2> QED BY <2>2, <2>3
<1>9. transAsset' \in [Addrs -> 0..MaxTx]
  <2>1. transAsset' = [a \in Addrs |-> transAsset'[a]] BY <1>7
  <2> QED BY <2>1, <1>4
<1>10. accTxs' \in [Accounts -> 0..MaxTx]
  <2>1. accTxs' = [acc \in Accounts |-> accTxs'[acc]] BY <1>7
  <2> QED BY <2>1, <1>5
<1>11. Bounded' BY <1>4, <1>5, <1>6 DEF Bounded
<1> QED BY <1>8, <1>9, <1>10, <1>11

LEMMA FiniteAccounts == IsFiniteSet(Accounts) /\ IsFiniteSet(Ids)
<1>1. IsFiniteSet(Addrs \X Assets) BY UtxoBounds, FS_Product
<1>2. IsFiniteSet(1..MaxTx) BY UtxoBounds, FS_Interval
<1> QED BY <1>1, <1>2, Names

\* Nothing that has a row is inserted, and without a lost connection no row is
\* missed.
LEMMA ApplyCached ==
  ASSUME IInv, NEW t \in Ids, Apply(t)
  PROVE  /\ accRows' \subseteq cacheAcc' /\ accRows \cap NewAccs(t) = {}
         /\ missed' = {} => address' \subseteq cacheAddr'
         /\ missed' = {} => \A a \in address' : \E acc \in accRows' : acc[1] = a
         /\ losses = 0 => /\ cacheAddr' \subseteq address' /\ cacheAcc' \subseteq accRows'
                          /\ missed' = {} /\ AddrAssetPair(t) \subseteq accRows'
                          /\ AddrsOf(t) \subseteq address'
         /\ cacheAddr' \subseteq Addrs /\ cacheAcc' \subseteq Accounts
         /\ address' \subseteq Addrs /\ accRows' \subseteq Accounts
         /\ missed' \subseteq Accounts
<1>1. Chain /\ Cached /\ BalanceUnlessMissed /\ TypeOK /\ CacheCoversRows
  BY DEF IInv, Cached, CacheCoversRows
<1>2. /\ accRows' = accRows \cup NewAccs(t) /\ cacheAcc' = cacheAcc \cup NewAccs(t)
      /\ address' = address \cup NewAddrs(t) /\ cacheAddr' = cacheAddr \cup AddrsOf(t)
      /\ missed' = missed \cup (AddrAssetPair(t) \ accRows')
                          \cup ({Owner(o) : o \in Vins(t)} \ accRows)
      /\ up
  BY DEF Apply, UpdateAddrInfo, HandleVinsVouts
<1>3. NewAccs(t) = {Owner(o) : o \in Vouts(t)} \ cacheAcc
      /\ NewAddrs(t) = AddrsOf(t) \ cacheAddr
  BY DEF NewAccs, NewAddrs
<1>4. /\ AddrAssetPair(t) \subseteq Accounts /\ AddrsOf(t) \subseteq Addrs
      /\ \A o \in Vouts(t) : Owner(o) \in AddrAssetPair(t)
      /\ NewAccs(t) \subseteq AddrAssetPair(t)
  BY <1>1, <1>3, PairsAreOwners
<1>5. accRows \subseteq cacheAcc /\ (missed = {} => address \subseteq cacheAddr)
  BY <1>1, <1>2 DEF CacheCoversRows
<1>6. missed' = {} => missed = {} /\ AddrAssetPair(t) \subseteq accRows' BY <1>2
<1>7. ASSUME missed' = {}, NEW a \in address'
      PROVE  \E acc \in accRows' : acc[1] = a
  <2>1. CASE a \in address
    <3>1. PICK acc \in accRows : acc[1] = a BY <2>1, <1>1, <1>6, <1>7 DEF Cached
    <3> QED BY <3>1, <1>2
  <2>2. CASE a \in AddrsOf(t)
    <3>1. PICK acc \in AddrAssetPair(t) : acc[1] = a BY <2>2 DEF AddrsOf
    <3> QED BY <3>1, <1>6, <1>7
  <2> QED BY <2>1, <2>2, <1>2, <1>3, <1>7
<1>8. ASSUME losses = 0
      PROVE  /\ cacheAddr' \subseteq address' /\ cacheAcc' \subseteq accRows'
             /\ missed' = {} /\ AddrAssetPair(t) \subseteq accRows'
             /\ AddrsOf(t) \subseteq address'
  <2>1. cacheAddr \subseteq address /\ cacheAcc \subseteq accRows /\ missed = {}
    BY <1>1, <1>8 DEF Cached
  <2>2. \A o \in Vouts(t) : Owner(o) \in accRows' BY <2>1, <1>2, <1>3
  <2>3. \A o \in Vins(t) : Owner(o) \in accRows
    <3> SUFFICES ASSUME NEW o \in Vins(t) PROVE Owner(o) \in accRows OBVIOUS
    <3>1. o \in PaidOuts BY <1>8, Settled
    <3>2. Owner(o) \in Accounts /\ o \in Paid(Owner(o)) BY <3>1, <1>1, PaidIs
    <3> QED BY <3>2, <2>1, <1>1 DEF BalanceUnlessMissed
  <2>4. \A o \in Moves(t) : Owner(o) \in accRows' BY <2>2, <2>3, <1>2 DEF Moves
  <2>5. AddrAssetPair(t) \subseteq accRows' BY <2>4 DEF AddrAssetPair
  <2>6. missed' = {} BY <2>1, <2>3, <2>5, <1>2
  <2> QED BY <2>1, <2>5, <2>6, <1>2, <1>3
<1>9. accRows' \subseteq cacheAcc' /\ accRows \cap NewAccs(t) = {}
  BY <1>2, <1>3, <1>5
<1>10. missed' = {} => address' \subseteq cacheAddr' BY <1>2, <1>3, <1>5, <1>6
<1>11. /\ cacheAddr' \subseteq Addrs /\ cacheAcc' \subseteq Accounts
       /\ address' \subseteq Addrs /\ accRows' \subseteq Accounts
  BY <1>1, <1>2, <1>3, <1>4 DEF TypeOK
<1>12. missed' \subseteq Accounts
  <2>1. \A o \in Vins(t) : Owner(o) \in Accounts
    BY <1>1, <1>4, PairsAreOwners
  <2> QED BY <2>1, <1>1, <1>2, <1>4 DEF TypeOK
<1> QED BY <1>7, <1>8, <1>9, <1>10, <1>11, <1>12

LEMMA OneMore ==
  ASSUME NEW S \in SUBSET Ids, NEW T, NEW t \in Ids, t \notin S, NEW b \in BOOLEAN,
         \A s : s \in T <=> s \in S \/ (b /\ s = t)
  PROVE  Cardinality(T) = Cardinality(S) + (IF b THEN 1 ELSE 0)
<1>1. IsFiniteSet(S) BY FiniteAccounts, FS_Subset
<1>2. Cardinality(S) \in Nat BY <1>1, FS_CardinalityType
<1>3. CASE b
  <2>1. T = S \cup {t} BY <1>3
  <2> QED BY <2>1, <1>1, <1>3, FS_AddElement
<1>4. CASE ~b
  <2>1. T = S BY <1>4
  <2> QED BY <2>1, <1>2, <1>4
<1> QED BY <1>3, <1>4

\* The counts of rows and transactions.
LEMMA ApplyCounted ==
  ASSUME IInv, NEW t \in Ids, Apply(t)
  PROVE  RowsCounted' /\ holders' \in [Assets -> Nat] /\ cntAddr' \in Nat
<1>1. Chain /\ RowsCounted /\ TypeOK /\ Tables
  BY DEF IInv, Cached, CacheCoversRows
<1>2. /\ accRows' = accRows \cup NewAccs(t) /\ address' = address \cup NewAddrs(t)
      /\ NewAddrs(t) \cap address = {}
      /\ cntAddr' = cntAddr + Cardinality(NewAddrs(t))
      /\ holders' = [s \in Assets |-> holders[s] + NewHolders(t, s)]
      /\ transAsset' = [a \in Addrs |-> transAsset[a] +
           (IF a \in AddrsOf(t) \cap address' THEN 1 ELSE 0)]
      /\ accTxs' = [acc \in Accounts |-> accTxs[acc] +
           (IF acc \in AddrAssetPair(t) \cap accRows' THEN 1 ELSE 0)]
  BY DEF Apply, UpdateAddrInfo, HandleVinsVouts, UpdateTxInfo
<1>3. /\ UNCHANGED <<outs, ins, losses>> /\ t \notin Applied
      /\ \A s \in Ids : s \in Applied' <=> s \in Applied \/ (s \notin Applied /\ s <= t)
      /\ \A s \in Ids : s \notin Applied /\ s < t => ~HasEffect(s)
      /\ t \in Nat /\ \A s : Vins(s)' = Vins(s) /\ Vouts(s)' = Vouts(s)
  BY Settled
<1>4. /\ AddrAssetPair(t) \subseteq Accounts /\ AddrsOf(t) \subseteq Addrs
      /\ NewAccs(t) \subseteq Accounts /\ NewAddrs(t) \subseteq Addrs
      /\ accRows \subseteq Accounts /\ address \subseteq Addrs
      /\ accRows \cap NewAccs(t) = {}
  <2>1. NewAccs(t) \subseteq AddrAssetPair(t)
    BY <1>1, PairsAreOwners DEF NewAccs
  <2> QED BY <2>1, <1>1, PairsAreOwners, ApplyCached DEF TypeOK, NewAddrs
<1>5. ASSUME NEW s \in Assets
      PROVE  /\ holders'[s] = Cardinality({acc \in accRows' : acc[2] = s})
             /\ holders'[s] \in Nat
  <2> DEFINE R == {acc \in accRows : acc[2] = s}
             N == {acc \in NewAccs(t) : acc[2] = s}
  <2>1. IsFiniteSet(R) /\ IsFiniteSet(N) BY <1>4, FiniteAccounts, FS_Subset
  <2>2. R \cap N = {} /\ {acc \in accRows' : acc[2] = s} = R \cup N
    BY <1>2, <1>4
  <2>3. holders'[s] = Cardinality(R) + Cardinality(N)
    BY <1>1, <1>2 DEF RowsCounted, NewHolders
  <2> HIDE DEF R, N
  <2>4. Cardinality(R \cup N) = Cardinality(R) + Cardinality(N) - Cardinality(R \cap N)
    BY <2>1, FS_Union
  <2>5. Cardinality(R \cap N) = 0 BY <2>2, FS_EmptySet
  <2>6. Cardinality(R) \in Nat /\ Cardinality(N) \in Nat BY <2>1, FS_CardinalityType
  <2>7. holders'[s] = Cardinality(R \cup N) /\ holders'[s] \in Nat
    BY <2>3, <2>4, <2>5, <2>6
  <2> QED BY <2>2, <2>7
<1>6. cntAddr' = Cardinality(address') /\ cntAddr' \in Nat
  <2>1. IsFiniteSet(address) /\ IsFiniteSet(NewAddrs(t)) BY <1>4, UtxoBounds, FS_Subset
  <2>2. Cardinality(address \cup NewAddrs(t)) =
          Cardinality(address) + Cardinality(NewAddrs(t))
          - Cardinality(address \cap NewAddrs(t))
    BY <2>1, FS_Union
  <2>3. Cardinality(address \cap NewAddrs(t)) = 0
    <3>1. address \cap NewAddrs(t) = {} BY <1>2
    <3> QED BY <3>1, FS_EmptySet
  <2>4. Cardinality(address) \in Nat /\ Cardinality(NewAddrs(t)) \in Nat
    BY <2>1, FS_CardinalityType
  <2>5. cntAddr = Cardinality(address) BY <1>1 DEF RowsCounted
  <2> QED BY <2>2, <2>3, <2>4, <2>5, <1>2
<1>7. /\ \A s : HasEffect(s)' = HasEffect(s) /\ Moves(s)' = Moves(s)
      /\ \A s : AddrsOf(s)' = AddrsOf(s) /\ AddrAssetPair(s)' = AddrAssetPair(s)
      /\ \A o : Owner(o)' = Owner(o)
  BY <1>3, SameTransactions, SameReads
<1>8. Applied' \subseteq Ids /\ Applied \subseteq Ids /\ t \in Applied'
  BY <1>3 DEF Applied, Apply
<1>9. \A s \in Ids : s \in Applied' => s \in Applied \/ s = t \/ ~HasEffect(s)
  <2>1. \A s \in Ids : s \in Nat BY Names
  <2> QED BY <2>1, <1>3
<1>10. \A s \in Ids : s \in Applied => s \in Applied' /\ s # t BY <1>3
<1>11. ASSUME losses = 0, NEW a \in Addrs
       PROVE  transAsset'[a] = Cardinality({s \in Ids : addrTx'[a][s] > 0})
  <2> DEFINE S == {s \in Ids : addrTx[a][s] > 0}
             T == {s \in Ids : addrTx'[a][s] > 0}
  <2>1. \A s \in Ids : s \in S <=> s \in Applied /\ a \in AddrsOf(s)
    <3>1. \A s \in Ids : addrTx[a][s] = IF s \in Applied /\ a \in AddrsOf(s) THEN 1 ELSE 0
      BY <1>1 DEF Tables
    <3> QED BY <3>1
  <2>2. \A s \in Ids : s \in T <=> s \in Applied' /\ a \in AddrsOf(s)
    <3>1. Tables' BY ApplyTables
    <3>2. \A s \in Ids : addrTx'[a][s] =
            IF s \in Applied' /\ a \in AddrsOf(s)' THEN 1 ELSE 0
      BY <3>1 DEF Tables
    <3> QED BY <3>2, <1>7
  <2>3. S \in SUBSET Ids /\ T \in SUBSET Ids OBVIOUS
  <2> HIDE DEF S, T
  <2>4. \A s \in Ids : ~HasEffect(s) => AddrsOf(s) = {} BY NoEffect
  <2>5. \A s : s \in T <=> s \in S \/ (a \in AddrsOf(t) /\ s = t)
    BY <2>1, <2>2, <2>3, <2>4, <1>8, <1>9, <1>10
  <2>6. t \notin S BY <2>1, <1>3
  <2>7. Cardinality(T) = Cardinality(S) + (IF a \in AddrsOf(t) THEN 1 ELSE 0)
    <3> PICK b \in BOOLEAN : b <=> a \in AddrsOf(t) OBVIOUS
    <3>1. Cardinality(T) = Cardinality(S) + (IF b THEN 1 ELSE 0)
      BY <2>3, <2>5, <2>6, OneMore
    <3> QED BY <3>1
  <2>8. transAsset[a] = Cardinality(S) BY <1>1, <1>11 DEF RowsCounted, S
  <2>9. transAsset'[a] = transAsset[a] + (IF a \in AddrsOf(t) THEN 1 ELSE 0)
    <3>1. AddrsOf(t) \subseteq address' BY <1>11, ApplyCached
    <3> QED BY <3>1, <1>2
  <2> QED BY <2>7, <2>8, <2>9 DEF T
<1>12. ASSUME losses = 0, NEW acc \in Accounts
       PROVE  accTxs'[acc] = Cardinality({s \in Applied' : acc \in AddrAssetPair(s)})
  <2> DEFINE S == {s \in Applied : acc \in AddrAssetPair(s)}
             T == {s \in Applied' : acc \in AddrAssetPair(s)}
  <2>1. S \in SUBSET Ids /\ T \in SUBSET Ids BY <1>8
  <2>2. \A s \in Ids : ~HasEffect(s) => AddrAssetPair(s) = {} BY NoEffect
  <2>3. \A s : s \in T <=> s \in S \/ (acc \in AddrAssetPair(t) /\ s = t)
    BY <2>2, <1>8, <1>9, <1>10
  <2>4. t \notin S BY <1>3
  <2>5. Cardinality(T) = Cardinality(S) + (IF acc \in AddrAssetPair(t) THEN 1 ELSE 0)
    <3> HIDE DEF S, T
    <3> PICK b \in BOOLEAN : b <=> acc \in AddrAssetPair(t) OBVIOUS
    <3>1. Cardinality(T) = Cardinality(S) + (IF b THEN 1 ELSE 0)
      BY <2>1, <2>3, <2>4, OneMore
    <3> QED BY <3>1
  <2>6. accTxs[acc] = Cardinality(S)
    <3>1. accTxs[acc] = Cardinality({s \in Applied : \E o \in Moves(s) : Owner(o) = acc})
      BY <1>1, <1>12 DEF RowsCounted
    <3>2. \A s \in Applied : acc \in AddrAssetPair(s) <=> \E o \in Moves(s) : Owner(o) = acc
      BY <1>1, <1>8, PairsAreOwners
    <3>3. {s \in Applied : \E o \in Moves(s) : Owner(o) = acc} = S BY <3>2
    <3> QED BY <3>1, <3>3
  <2>7. accTxs'[acc] = accTxs[acc] + (IF acc \in AddrAssetPair(t) THEN 1 ELSE 0)
    <3>1. AddrAssetPair(t) \subseteq accRows' BY <1>12, ApplyCached
    <3> QED BY <3>1, <1>2
  <2> HIDE DEF S
  <2> QED BY <2>5, <2>6, <2>7
<1>13. ASSUME losses = 0, NEW acc \in Accounts
       PROVE  accTxs'[acc] = Cardinality({s \in Applied : \E o \in Moves(s) : Owner(o) = acc}')
  <2>1. \A s \in Applied' : acc \in AddrAssetPair(s) <=> \E o \in Moves(s) : Owner(o) = acc
    BY <1>1, <1>8, PairsAreOwners
  <2>2. {s \in Applied : \E o \in Moves(s) : Owner(o) = acc}'
          = {s \in Applied' : acc \in AddrAssetPair(s)}
    BY <2>1, <1>7
  <2> QED BY <2>2, <1>12, <1>13
<1>14. RowsCounted' BY <1>3, <1>5, <1>6, <1>11, <1>13 DEF RowsCounted
<1>15. holders' \in [Assets -> Nat]
  <2>1. holders' = [s \in Assets |-> holders'[s]] BY <1>2
  <2> QED BY <2>1, <1>5
<1> QED BY <1>6, <1>14, <1>15

LEMMA ApplyStep == ASSUME IInv, NEW t \in Ids, Apply(t) PROVE IInv'
<1>1. Chain /\ Progress /\ TypeOK BY DEF IInv, Cached, CacheCoversRows
<1>2. /\ UNCHANGED <<outs, ins, txMax, crashes, losses, lostVins, lostVouts>>
      /\ lastTxPk' = t /\ t <= txMax /\ t \in Nat
  BY Settled
<1>3. nextPK' = t + 1 /\ up' = ~retried /\ retried' = FALSE BY DEF Apply
<1>4. TypeOK'
  <2>1. /\ utxo' \in [Outputs -> 0..1] /\ usedIn' \in [Outputs -> 0..MaxTx]
        /\ addrTx' \in [Addrs -> [Ids -> 0..1]]
    BY ApplyTables
  <2>2. /\ balance' \in [Accounts -> [Outputs -> -1..1]]
        /\ transAsset' \in [Addrs -> 0..MaxTx] /\ accTxs' \in [Accounts -> 0..MaxTx]
    BY ApplyBounded
  <2>3. holders' \in [Assets -> Nat] /\ cntAddr' \in Nat BY ApplyCounted
  <2>4. /\ cacheAddr' \subseteq Addrs /\ cacheAcc' \subseteq Accounts
        /\ address' \subseteq Addrs /\ accRows' \subseteq Accounts
        /\ missed' \subseteq Accounts
    BY ApplyCached
  <2>5. lastTxPk' \in 0..MaxTx /\ nextPK' \in 1..(MaxTx + 1)
    BY <1>2, <1>3, Names, UtxoBounds
  <2>6. up' \in BOOLEAN /\ retried' \in BOOLEAN BY <1>1, <1>3 DEF TypeOK
  <2>7. /\ txMax' \in 0..MaxTx /\ crashes' \in 0..MaxCrashes /\ losses' \in 0..MaxLosses
        /\ lostVins' \subseteq Outputs /\ lostVouts' \subseteq Outputs
    BY <1>1, <1>2 DEF TypeOK
  <2> QED BY <2>1, <2>2, <2>3, <2>4, <2>5, <2>6, <2>7 DEF TypeOK
<1>5. Chain' BY <1>1, <1>2 DEF Chain
<1>6. Progress' BY <1>2, <1>3 DEF Progress
<1>7. CacheCoversRows' BY <1>4, ApplyCached DEF CacheCoversRows
<1>8. Cached' BY <1>1, <1>2, <1>7, ApplyCached DEF IInv, Cached
<1> QED BY <1>5, <1>6, <1>8, ApplyTables, ApplyBounded, ApplyCounted, ApplyBalance
        DEF IInv
-----------------------------------------------------------------------------
\* A step of the memory alone: the tables keep what holds of them, if it leaves
\* what was read of the transactions applied.
LEMMA MemoryStep ==
  ASSUME IInv, UNCHANGED <<chainVars, dbVars>>, losses' = 0 => losses = 0,
         Progress', Cached',
         \A s \in Applied : Vins(s)' = Vins(s) /\ Vouts(s)' = Vouts(s)
  PROVE  IInv'
<1>1. UNCHANGED <<outs, ins, txMax, utxo, usedIn, address, transAsset, accRows, balance,
                  accTxs, addrTx, holders, cntAddr, lastTxPk, missed>>
  BY DEF chainVars, dbVars
<1>2. Chain' BY <1>1 DEF IInv, Chain
<1>3. /\ \A o : Owner(o)' = Owner(o)
      /\ \A s \in Applied : Moves(s)' = Moves(s) /\ AddrsOf(s)' = AddrsOf(s)
  BY <1>1, SameTransactions, SameReads
<1>4. Applied' = Applied BY <1>1 DEF Applied
<1>5. PaidOuts' = PaidOuts BY <1>4 DEF PaidOuts
<1>6. Spent' = Spent BY <1>4 DEF Spent
<1>7. \A acc : Paid(acc)' = Paid(acc) BY <1>3, <1>5 DEF Paid
<1>8. Tables' BY <1>1, <1>3, <1>4, <1>5 DEF IInv, Tables
<1>9. Bounded' BY <1>1, <1>5, <1>6 DEF IInv, Bounded
<1>10. RowsCounted'
  <2>1. \A acc : {t \in Applied : \E o \in Moves(t) : Owner(o) = acc}'
                 = {t \in Applied : \E o \in Moves(t) : Owner(o) = acc}
    BY <1>3, <1>4
  <2> QED BY <1>1, <2>1 DEF IInv, RowsCounted
<1>11. BalanceUnlessMissed'
  BY <1>1, <1>3, <1>6, <1>7 DEF IInv, BalanceUnlessMissed
<1> QED BY <1>2, <1>8, <1>9, <1>10, <1>11 DEF IInv

\* The cache keeps what the statements undone put into it.
LEMMA LoseConnectionStep ==
  ASSUME IInv, NEW t \in Ids, NEW k \in 0..Statements(t), LoseConnection(t, k)
  PROVE  IInv'
<1>1. /\ losses < MaxLosses /\ losses' = losses + 1 /\ retried' = TRUE
      /\ cacheAddr' = cacheAddr \cup AddrsUpTo(t, k)
      /\ cacheAcc' = cacheAcc \cup AccsUpTo(t, k)
      /\ UNCHANGED <<chainVars, dbVars>>
      /\ UNCHANGED <<up, nextPK, lostVins, lostVouts, crashes>>
      /\ UNCHANGED <<txMax, utxo, usedIn, address, transAsset, accRows, balance,
                     accTxs, addrTx, holders, cntAddr, lastTxPk, missed>>
  BY DEF LoseConnection, chainVars, readVars, dbVars
<1>2. Chain /\ TypeOK /\ Cached BY DEF IInv, Cached, CacheCoversRows
<1>3. AddrsUpTo(t, k) \subseteq Addrs /\ AccsUpTo(t, k) \subseteq Accounts
  <2>1. AddrsOf(t) \subseteq Addrs BY <1>2, PairsAreOwners
  <2>2. \A o \in Vouts(t) : Owner(o) \in Accounts
    BY <1>2, PairsAreOwners, OwnerIs
  <2> QED BY <2>1, <2>2 DEF AddrsUpTo, AccsUpTo
<1>4. losses' \in 0..MaxLosses /\ losses' # 0 BY <1>1, <1>2, UtxoBounds DEF TypeOK
<1>5. TypeOK' BY <1>1, <1>2, <1>3, <1>4 DEF TypeOK
<1>6. Cached' BY <1>1, <1>2, <1>4, <1>5 DEF Cached, CacheCoversRows
<1>7. Progress' BY <1>1 DEF IInv, Progress
<1>8. \A s \in Applied : Vins(s)' = Vins(s) /\ Vouts(s)' = Vouts(s)
  BY <1>1 DEF Vins, Vouts, chainVars
<1> QED BY <1>1, <1>4, <1>6, <1>7, <1>8, MemoryStep

LEMMA RefuseStep == ASSUME IInv, NEW t \in Ids, Refuse(t) PROVE IInv'
<1>1. /\ losses < MaxLosses /\ losses' = losses + 1
      /\ cacheAddr' = cacheAddr \cup AddrsUpTo(t, 1)
      /\ UNCHANGED <<chainVars, dbVars>>
      /\ UNCHANGED <<up, nextPK, retried, cacheAcc, lostVins, lostVouts, crashes>>
      /\ UNCHANGED <<txMax, utxo, usedIn, address, transAsset, accRows, balance,
                     accTxs, addrTx, holders, cntAddr, lastTxPk, missed>>
  BY DEF Refuse, chainVars, readVars, dbVars
<1>2. Chain /\ TypeOK /\ Cached BY DEF IInv, Cached, CacheCoversRows
<1>3. AddrsUpTo(t, 1) \subseteq Addrs
  <2>1. AddrsOf(t) \subseteq Addrs BY <1>2, PairsAreOwners
  <2> QED BY <2>1 DEF AddrsUpTo
<1>4. losses' \in 0..MaxLosses /\ losses' # 0 BY <1>1, <1>2, UtxoBounds DEF TypeOK
<1>5. TypeOK' BY <1>1, <1>2, <1>3, <1>4 DEF TypeOK
<1>6. Cached' BY <1>1, <1>2, <1>4, <1>5 DEF Cached, CacheCoversRows
<1>7. Progress' BY <1>1 DEF IInv, Progress
<1>8. \A s \in Applied : Vins(s)' = Vins(s) /\ Vouts(s)' = Vouts(s)
  BY <1>1 DEF Vins, Vouts, chainVars
<1> QED BY <1>1, <1>4, <1>6, <1>7, <1>8, MemoryStep

\* A read cut short misses rows of later transactions only.
LEMMA CutReadStep == ASSUME IInv, NEW t \in Ids, CutRead(t) PROVE IInv'
<1> USE UtxoBounds
<1> DEFINE vins == UNION {ins[s] : s \in t..txMax}
           vouts == UNION {{s} \X DOMAIN outs[s] : s \in t..txMax}
<1>1. /\ losses < MaxLosses /\ losses' = losses + 1 /\ t >= nextPK
      /\ \/ /\ \E lost \in Cuts(vins, ins[t]) : lostVins' = lostVins \cup lost
            /\ UNCHANGED lostVouts
         \/ /\ \E lost \in Cuts(vouts, {t} \X DOMAIN outs[t]) :
                  lostVouts' = lostVouts \cup lost
            /\ UNCHANGED lostVins
      /\ UNCHANGED <<chainVars, dbVars>>
      /\ UNCHANGED <<up, nextPK, retried, cacheAddr, cacheAcc, crashes>>
      /\ UNCHANGED <<txMax, utxo, usedIn, address, transAsset, accRows, balance,
                     accTxs, addrTx, holders, cntAddr, lastTxPk, missed>>
  BY DEF CutRead, IsNext, chainVars, dbVars
<1>2. Chain /\ TypeOK /\ Cached /\ Progress BY DEF IInv, Cached, CacheCoversRows
<1>3. Ids = 1..MaxTx /\ t \in Nat /\ lastTxPk \in Nat /\ txMax \in 0..MaxTx
      /\ lastTxPk < t
  BY <1>1, <1>2, Names DEF Progress, TypeOK
<1>4. \A s \in t..txMax : s \in Ids /\ s \notin Applied BY <1>3 DEF Applied
<1>5. vins \subseteq Outputs /\ \A u \in Applied : vins \cap ins[u] = {}
  <2>1. \A s \in t..txMax : ins[s] \subseteq Outputs BY <1>2, <1>4 DEF Chain
  <2>2. \A s \in t..txMax : \A u \in Applied : ins[s] \cap ins[u] = {}
    <3>1. Applied \subseteq Ids BY DEF Applied
    <3> QED BY <3>1, <1>2, <1>4 DEF Chain
  <2> QED BY <2>1, <2>2
<1>6. vouts \subseteq Outputs /\ \A o \in vouts : o[1] \notin Applied
  <2> SUFFICES ASSUME NEW o \in vouts PROVE o \in Outputs /\ o[1] \notin Applied
    OBVIOUS
  <2>1. PICK s \in t..txMax : o \in {s} \X DOMAIN outs[s] OBVIOUS
  <2>2. outs[s] \in Seq(Accounts) /\ Len(outs[s]) <= MaxOuts BY <1>2, <1>4 DEF Chain
  <2>3. o[1] = s /\ o[2] \in 1..MaxOuts /\ o = <<o[1], o[2]>>
    BY <2>1, <2>2, LenProperties
  <2> QED BY <2>3, <1>4, Names
<1> HIDE DEF vins, vouts
<1>7. /\ lostVins' \subseteq lostVins \cup vins /\ lostVins \subseteq lostVins'
      /\ lostVouts' \subseteq lostVouts \cup vouts /\ lostVouts \subseteq lostVouts'
  BY <1>1 DEF Cuts
<1>8. losses' \in 0..MaxLosses /\ losses' # 0 BY <1>1, <1>2 DEF TypeOK
<1>9. TypeOK' BY <1>1, <1>2, <1>5, <1>6, <1>7, <1>8 DEF TypeOK
<1>10. Cached' BY <1>1, <1>2, <1>8, <1>9 DEF Cached, CacheCoversRows
<1>11. Progress' BY <1>1, <1>2 DEF Progress
<1>12. ASSUME NEW s \in Applied PROVE Vins(s)' = Vins(s) /\ Vouts(s)' = Vouts(s)
  <2>1. ins' = ins /\ outs' = outs BY <1>1 DEF chainVars
  <2>2. Vins(s)' = ins[s] \ lostVins' BY <2>1 DEF Vins
  <2>3. ins[s] \ lostVins' = ins[s] \ lostVins BY <1>5, <1>7
  <2>4. Vouts(s)' = ({s} \X DOMAIN outs[s]) \ lostVouts' BY <2>1 DEF Vouts
  <2>5. ({s} \X DOMAIN outs[s]) \ lostVouts' = ({s} \X DOMAIN outs[s]) \ lostVouts
    <3>1. \A o \in {s} \X DOMAIN outs[s] : o \notin vouts BY <1>6
    <3> QED BY <3>1, <1>7
  <2> QED BY <2>2, <2>3, <2>4, <2>5 DEF Vins, Vouts
<1> QED BY <1>1, <1>8, <1>10, <1>11, <1>12, MemoryStep

LEMMA CrashStep == ASSUME IInv, Crash PROVE IInv'
<1>1. /\ crashes < MaxCrashes /\ crashes' = crashes + 1
      /\ up' = FALSE /\ cacheAddr' = {} /\ cacheAcc' = {}
      /\ UNCHANGED <<chainVars, dbVars>>
      /\ UNCHANGED <<nextPK, retried, lostVins, lostVouts, losses>>
      /\ UNCHANGED <<txMax, utxo, usedIn, address, transAsset, accRows, balance,
                     accTxs, addrTx, holders, cntAddr, lastTxPk, missed>>
  BY DEF Crash, chainVars, readVars, dbVars
<1>2. TypeOK /\ Cached BY DEF IInv, Cached, CacheCoversRows
<1>3. crashes' \in 0..MaxCrashes
  <2>1. crashes \in 0..MaxCrashes BY <1>2 DEF TypeOK
  <2> QED BY <2>1, <1>1, UtxoBounds
<1>4. up' \in BOOLEAN BY <1>1
<1>5. TypeOK' BY <1>1, <1>2, <1>3, <1>4 DEF TypeOK
<1>6. Cached' BY <1>1, <1>2, <1>5 DEF Cached, CacheCoversRows
<1>7. Progress' BY <1>1 DEF IInv, Progress
<1>8. \A s \in Applied : Vins(s)' = Vins(s) /\ Vouts(s)' = Vouts(s)
  BY <1>1 DEF Vins, Vouts, chainVars
<1> QED BY <1>1, <1>6, <1>7, <1>8, MemoryStep

\* A start loads an address with each account, and an account with each row.
LEMMA StartStep == ASSUME IInv, Start PROVE IInv'
<1>1. /\ up' = TRUE /\ retried' = FALSE /\ nextPK' = lastTxPk + 1
      /\ lostVins' = lostVins \cap UNION {ins[s] : s \in 1..lastTxPk}
      /\ lostVouts' = {o \in lostVouts : o[1] <= lastTxPk}
      /\ cacheAcc' = accRows /\ cacheAddr' = {acc[1] : acc \in accRows}
      /\ \A acc \in accRows : acc[1] \in address
      /\ UNCHANGED <<chainVars, dbVars>> /\ UNCHANGED <<crashes, losses>>
      /\ UNCHANGED <<txMax, utxo, usedIn, address, transAsset, accRows, balance,
                     accTxs, addrTx, holders, cntAddr, lastTxPk, missed>>
  BY DEF Start, Loadable, LoadedAccs, Resume, chainVars, dbVars
<1>2. TypeOK /\ Cached BY DEF IInv, Cached, CacheCoversRows
<1>3. cacheAddr' \subseteq Addrs BY <1>1, <1>2, Names DEF TypeOK
<1>4. nextPK' \in 1..(MaxTx + 1) BY <1>1, <1>2, UtxoBounds DEF TypeOK
<1>5. TypeOK' BY <1>1, <1>2, <1>3, <1>4 DEF TypeOK
<1>6. missed = {} => address \subseteq cacheAddr' BY <1>1, <1>2 DEF Cached
<1>7. Cached' BY <1>1, <1>2, <1>5, <1>6 DEF Cached, CacheCoversRows
<1>8. Progress' BY <1>1 DEF IInv, Progress
<1>9. ASSUME NEW s \in Applied PROVE Vins(s)' = Vins(s) /\ Vouts(s)' = Vouts(s)
  <2>1. s \in 1..lastTxPk BY <1>2, Names DEF Applied, TypeOK
  <2>2. ins' = ins /\ outs' = outs BY <1>1 DEF chainVars
  <2>3. ins[s] \ lostVins' = ins[s] \ lostVins BY <2>1, <1>1
  <2>4. ({s} \X DOMAIN outs[s]) \ lostVouts' = ({s} \X DOMAIN outs[s]) \ lostVouts
    <3>1. \A o \in {s} \X DOMAIN outs[s] : o[1] <= lastTxPk BY <2>1
    <3> QED BY <3>1, <1>1
  <2> QED BY <2>2, <2>3, <2>4 DEF Vins, Vouts
<1> QED BY <1>1, <1>7, <1>8, <1>9, MemoryStep

\* A new transaction changes nothing for those before it.
LEMMA NewTxStep == ASSUME IInv, NewTx PROVE IInv'
<1> USE UtxoBounds
<1>1. Chain /\ Progress /\ TypeOK /\ Cached BY DEF IInv, Cached, CacheCoversRows
<1> DEFINE n == txMax + 1
           paid == {o \in Outputs : o[1] <= txMax /\ o[2] <= Len(outs[o[1]])}
           spent == UNION {ins[s] : s \in Ids}
<1>2. /\ txMax < MaxTx /\ txMax' = n
      /\ UNCHANGED <<up, nextPK, retried, cacheAddr, cacheAcc, utxo, usedIn, address,
                     transAsset, accRows, balance, accTxs, addrTx, holders, cntAddr,
                     lastTxPk, missed, crashes, losses, lostVins, lostVouts>>
  BY DEF NewTx, memVars, readVars, dbVars, Promise!Publish
<1>3. \E acs \in UNION {[1..m -> Accounts] : m \in 0..MaxOuts} :
        outs' = [outs EXCEPT ![n] = acs]
  BY <1>2 DEF NewTx, Promise!Publish, Accounts
<1>4. \E spends \in SUBSET (paid \ spent) : ins' = [ins EXCEPT ![n] = spends]
  BY <1>2 DEF NewTx, Promise!Publish, Outputs, Ids
<1>5. PICK m \in 0..MaxOuts :
        \E acs \in [1..m -> Accounts] : outs' = [outs EXCEPT ![n] = acs]
  BY <1>3
<1>0. PICK acs \in [1..m -> Accounts] : outs' = [outs EXCEPT ![n] = acs]
  BY <1>5
<1>6. PICK spends \in SUBSET (paid \ spent) : ins' = [ins EXCEPT ![n] = spends]
  BY <1>4
<1>7. n \in Ids /\ txMax \in Nat /\ n \in Nat /\ (\A s \in Ids : s \in Nat)
  BY <1>1, <1>2, Names DEF TypeOK
<1>8. acs \in Seq(Accounts) /\ Len(acs) = m BY <1>0, LenProperties
<1>9. /\ outs' \in [Ids -> Seq(Accounts)] /\ outs'[n] = acs
      /\ \A s \in Ids : s # n => outs'[s] = outs[s] /\ ins'[s] = ins[s]
      /\ ins' \in [Ids -> SUBSET Outputs] /\ ins'[n] = spends
  BY <1>0, <1>1, <1>6, <1>7, <1>8 DEF Chain
<1>10. \A o \in Outputs : o[1] <= txMax => outs'[o[1]] = outs[o[1]] /\ Owner(o)' = Owner(o)
  <2> SUFFICES ASSUME NEW o \in Outputs, o[1] <= txMax
               PROVE  outs'[o[1]] = outs[o[1]] /\ Owner(o)' = Owner(o)
    OBVIOUS
  <2>1. o[1] \in Ids /\ o[1] # n BY <1>7, Names
  <2>2. outs'[o[1]] = outs[o[1]] BY <2>1, <1>9
  <2> QED BY <2>2 DEF Owner, Promise!Owner
<1>11. /\ \A o \in Outputs : o[2] \in DOMAIN outs[o[1]] => o[1] <= txMax
       /\ \A s \in Ids : s \in Applied => s <= txMax /\ s # n
       /\ Applied' = Applied /\ Applied \subseteq Ids
  BY <1>1, <1>2, <1>7, OwnerIs DEF Applied, Progress, TypeOK
<1> HIDE DEF n, paid, spent
<1>12. \A s \in Ids : s # n => /\ Moves(s)' = Moves(s) /\ AddrsOf(s)' = AddrsOf(s)
                               /\ Vins(s)' = Vins(s) /\ Vouts(s)' = Vouts(s)
                               /\ \A o \in Moves(s) : Owner(o)' = Owner(o)
  <2> SUFFICES ASSUME NEW s \in Ids, s # n
               PROVE  /\ Moves(s)' = Moves(s) /\ AddrsOf(s)' = AddrsOf(s)
                      /\ Vins(s)' = Vins(s) /\ Vouts(s)' = Vouts(s)
                      /\ \A o \in Moves(s) : Owner(o)' = Owner(o)
    OBVIOUS
  <2>1. outs'[s] = outs[s] /\ ins'[s] = ins[s] BY <1>9
  <2>2. Vins(s)' = Vins(s) /\ Vouts(s)' = Vouts(s) BY <2>1, <1>2 DEF Vins, Vouts
  <2>3. Moves(s)' = Moves(s) BY <2>2 DEF Moves
  <2>4. \A o \in Moves(s) : o \in Outputs /\ o[2] \in DOMAIN outs[o[1]]
    BY <1>1, PairsAreOwners DEF Moves
  <2>5. \A o \in Moves(s) : Owner(o)' = Owner(o) BY <2>4, <1>10, <1>11
  <2>6. AddrAssetPair(s)' = AddrAssetPair(s) BY <2>3, <2>5 DEF AddrAssetPair
  <2> QED BY <2>2, <2>3, <2>5, <2>6 DEF AddrsOf
<1>13. \A o \in PaidOuts : Owner(o)' = Owner(o)
  <2>1. \A o \in PaidOuts : \E s \in Applied : o \in Vouts(s) BY <1>1, PaidIs
  <2>2. \A s \in Applied : \A o \in Vouts(s) : o \in Moves(s) BY DEF Moves
  <2> QED BY <2>1, <2>2, <1>11, <1>12
<1>14. PaidOuts' = PaidOuts
  <2>1. \A s \in Applied : Vouts(s)' = Vouts(s) BY <1>11, <1>12
  <2> QED BY <2>1, <1>11 DEF PaidOuts
<1>15. \A acc : Paid(acc)' = Paid(acc) BY <1>13, <1>14 DEF Paid
<1>16. Spent' = Spent
  <2>1. \A s \in Applied : Vins(s)' = Vins(s) BY <1>11, <1>12
  <2> QED BY <2>1, <1>11 DEF Spent
<1>17. \A o \in spends : /\ o \in Outputs /\ o[1] <= txMax /\ o[2] \in DOMAIN outs[o[1]]
                         /\ \A s \in Ids : o \notin ins[s]
  <2> SUFFICES ASSUME NEW o \in spends
               PROVE  /\ o \in Outputs /\ o[1] <= txMax /\ o[2] \in DOMAIN outs[o[1]]
                      /\ \A s \in Ids : o \notin ins[s]
    OBVIOUS
  <2>1. o \in Outputs /\ o[1] <= txMax /\ o[2] <= Len(outs[o[1]])
        /\ \A s \in Ids : o \notin ins[s]
    BY <1>6 DEF paid, spent
  <2>2. o[1] \in Ids /\ o[2] \in 1..MaxOuts BY <2>1, Names
  <2>3. outs[o[1]] \in Seq(Accounts) BY <2>2, <1>1 DEF Chain
  <2>4. o[2] \in DOMAIN outs[o[1]] BY <2>1, <2>2, <2>3, LenProperties
  <2> QED BY <2>1, <2>4
<1>18. Chain'
  <2>1. txMax' \in 0..MaxTx BY <1>2, <1>7 DEF n
  <2>2. \A s \in Ids : Len(outs'[s]) <= MaxOuts
    <3> SUFFICES ASSUME NEW s \in Ids PROVE Len(outs'[s]) <= MaxOuts OBVIOUS
    <3>1. CASE s = n BY <3>1, <1>5, <1>8, <1>9
    <3>2. CASE s # n BY <3>2, <1>1, <1>9 DEF Chain
    <3> QED BY <3>1, <3>2
  <2>3. \A s \in Ids : txMax' < s => outs'[s] = <<>> /\ ins'[s] = {}
    <3> SUFFICES ASSUME NEW s \in Ids, n < s PROVE outs'[s] = <<>> /\ ins'[s] = {}
      BY <1>2
    <3>1. txMax < s /\ s # n BY <1>7 DEF n
    <3> QED BY <3>1, <1>1, <1>9 DEF Chain
  <2>4. ASSUME NEW s \in Ids, NEW o \in ins'[s]
        PROVE  o[1] < s /\ o[2] \in DOMAIN outs'[o[1]]
    <3>1. CASE s = n
      <4>1. o \in Outputs /\ o[1] <= txMax /\ o[2] \in DOMAIN outs[o[1]]
        BY <2>4, <3>1, <1>9, <1>17
      <4>2. outs'[o[1]] = outs[o[1]] BY <4>1, <1>10
      <4>3. o[1] \in Nat BY <4>1, <1>7, Names
      <4> QED BY <4>1, <4>2, <4>3, <3>1, <1>7 DEF n
    <3>2. CASE s # n
      <4>1. o \in Outputs /\ o[1] < s /\ o[2] \in DOMAIN outs[o[1]]
        BY <2>4, <3>2, <1>1, <1>9 DEF Chain
      <4>2. outs'[o[1]] = outs[o[1]] BY <4>1, <1>10, <1>11
      <4> QED BY <4>1, <4>2
    <3> QED BY <3>1, <3>2
  <2>5. \A s, u \in Ids : s # u => ins'[s] \cap ins'[u] = {}
    <3> SUFFICES ASSUME NEW s \in Ids, NEW u \in Ids, s # u, NEW o,
                        o \in ins'[s], o \in ins'[u]
                 PROVE  FALSE
      OBVIOUS
    <3>1. CASE s # n /\ u # n
      <4>1. o \in ins[s] /\ o \in ins[u] BY <3>1, <1>9
      <4> QED BY <4>1, <1>1 DEF Chain
    <3>2. CASE s = n
      <4>1. o \in spends /\ o \in ins[u] BY <3>2, <1>9
      <4> QED BY <4>1, <1>17
    <3>3. CASE u = n
      <4>1. o \in spends /\ o \in ins[s] BY <3>3, <1>9
      <4> QED BY <4>1, <1>17
    <3> QED BY <3>1, <3>2, <3>3
  <2> QED BY <2>1, <2>2, <2>3, <2>4, <2>5, <1>9 DEF Chain
<1>19. Progress' BY <1>1, <1>2, <1>7 DEF Progress, TypeOK, n
<1>20. TypeOK' BY <1>1, <1>2, <1>7 DEF TypeOK, n
<1>21. Cached' BY <1>1, <1>2, <1>20 DEF Cached, CacheCoversRows
<1>22. Tables'
  <2>1. Tables BY DEF IInv
  <2>2. \A o \in Outputs : utxo'[o] = IF o \in PaidOuts' THEN 1 ELSE 0
    BY <2>1, <1>2, <1>14 DEF Tables
  <2>0. \A s \in Applied : Vins(s)' = Vins(s) BY <1>11, <1>12
  <2>3. ASSUME NEW o \in Outputs, usedIn'[o] # 0
        PROVE  /\ usedIn'[o] \in Applied' /\ o \in PaidOuts'
               /\ o \in Vins(usedIn[o])'
    <3>1. usedIn' = usedIn BY <1>2
    <3>2. usedIn[o] \in Applied /\ o \in PaidOuts /\ o \in Vins(usedIn[o])
      BY <3>1, <2>1, <2>3 DEF Tables
    <3>3. \A u : usedIn' = usedIn => (u = usedIn[o] => Vins(usedIn[o])' = Vins(u)')
      OBVIOUS
    <3> QED BY <3>1, <3>2, <2>0, <1>11, <1>14
  <2>4. \A s \in Applied' : \A o \in Vins(s)' : usedIn'[o] = IF o \in PaidOuts' THEN s ELSE 0
    <3>2. \A s \in Applied : \A o \in Vins(s) : usedIn[o] = IF o \in PaidOuts THEN s ELSE 0
      BY <2>1 DEF Tables
    <3> QED BY <3>2, <2>0, <1>2, <1>11, <1>14
  <2>5. \A a \in Addrs, s \in Ids :
          addrTx'[a][s] = IF s \in Applied' /\ a \in AddrsOf(s)' THEN 1 ELSE 0
    <3> SUFFICES ASSUME NEW a \in Addrs, NEW s \in Ids
                 PROVE  addrTx'[a][s] = IF s \in Applied' /\ a \in AddrsOf(s)'
                                        THEN 1 ELSE 0
      OBVIOUS
    <3>1. addrTx[a][s] = IF s \in Applied /\ a \in AddrsOf(s) THEN 1 ELSE 0
      BY <2>1 DEF Tables
    <3>2. s \in Applied => AddrsOf(s)' = AddrsOf(s) BY <1>11, <1>12
    <3> QED BY <3>1, <3>2, <1>2, <1>11
  <2> QED BY <2>2, <2>3, <2>4, <2>5 DEF Tables
<1>23. Bounded' BY <1>2, <1>14, <1>16 DEF IInv, Bounded
<1>24. RowsCounted'
  <2>1. \A acc : {s \in Applied : \E o \in Moves(s) : Owner(o) = acc}'
                 = {s \in Applied : \E o \in Moves(s) : Owner(o) = acc}
    <3>1. \A s \in Applied : Moves(s)' = Moves(s) /\ \A o \in Moves(s) : Owner(o)' = Owner(o)
      BY <1>11, <1>12
    <3> QED BY <3>1, <1>11
  <2> QED BY <1>2, <2>1 DEF IInv, RowsCounted
<1>25. BalanceUnlessMissed'
  <2>1. \A o \in Spent : Owner(o)' = Owner(o)
    <3>1. \A o \in Spent : \E s \in Applied : o \in Vins(s) BY <1>1, PaidIs
    <3>2. \A s \in Applied : \A o \in Vins(s) : o \in Moves(s) BY DEF Moves
    <3> QED BY <3>1, <3>2, <1>11, <1>12
  <2> QED BY <2>1, <1>2, <1>15, <1>16 DEF IInv, BalanceUnlessMissed
<1> QED BY <1>18, <1>19, <1>21, <1>22, <1>23, <1>24, <1>25 DEF IInv

LEMMA InitIInv == Init => IInv
<1> SUFFICES ASSUME Init PROVE IInv OBVIOUS
<1> USE UtxoBounds
<1>1. /\ outs = [t \in Ids |-> <<>>] /\ ins = [t \in Ids |-> {}] /\ txMax = 0
  BY DEF Init, Promise!LInit, Ids
<1>2. Chain BY <1>1, EmptySeq DEF Chain
<1>3. Applied = {} BY Names DEF Init, Applied
<1>4. PaidOuts = {} BY <1>3 DEF PaidOuts
<1>5. Spent = {} BY <1>3 DEF Spent
<1>6. \A acc : Paid(acc) = {} BY <1>4 DEF Paid
<1>7. TypeOK
  <2>1. up \in BOOLEAN /\ retried \in BOOLEAN BY DEF Init
  <2>2. \A acc \in Accounts : balance[acc] = [o \in Outputs |-> 0] BY DEF Init
  <2>3. balance \in [Accounts -> [Outputs -> -1..1]] BY <2>2 DEF Init
  <2>4. addrTx \in [Addrs -> [Ids -> 0..1]] BY DEF Init
  <2> QED BY <2>1, <2>3, <2>4, <1>1 DEF Init, TypeOK
<1>8. Progress BY <1>1 DEF Init, Progress
<1>9. Tables BY <1>3, <1>4 DEF Init, Tables
<1>10. Cached BY <1>7 DEF Init, Cached, CacheCoversRows
<1>11. Bounded BY DEF Init, Bounded
<1>12. Cardinality({}) = 0 BY FS_EmptySet
<1>13. RowsCounted
  <2>1. \A s \in Assets : {acc \in accRows : acc[2] = s} = {} BY DEF Init
  <2>2. \A a \in Addrs : {t \in Ids : addrTx[a][t] > 0} = {} BY DEF Init
  <2>3. \A acc \in Accounts : {t \in Applied : \E o \in Moves(t) : Owner(o) = acc} = {}
    BY <1>3
  <2> QED BY <2>1, <2>2, <2>3, <1>12 DEF Init, RowsCounted
<1>14. BalanceUnlessMissed BY <1>5, <1>6 DEF Init, BalanceUnlessMissed
<1> QED BY <1>2, <1>8, <1>9, <1>10, <1>11, <1>13, <1>14 DEF IInv

LEMMA NextIInv == IInv /\ [Next]_vars => IInv'
<1> SUFFICES ASSUME IInv, [Next]_vars PROVE IInv' OBVIOUS
<1>1. ASSUME NEW t \in Ids, Apply(t) PROVE IInv' BY <1>1, ApplyStep
<1>2. ASSUME NEW t \in Ids, NEW k \in 0..Statements(t), LoseConnection(t, k)
      PROVE  IInv'
  BY <1>2, LoseConnectionStep
<1>3. CASE NewTx BY <1>3, NewTxStep
<1>4. CASE Crash BY <1>4, CrashStep
<1>5. CASE Start BY <1>5, StartStep
<1>7. ASSUME NEW t \in Ids, Refuse(t) PROVE IInv' BY <1>7, RefuseStep
<1>8. ASSUME NEW t \in Ids, CutRead(t) PROVE IInv' BY <1>8, CutReadStep
<1>6. CASE UNCHANGED vars
  <2>1. UNCHANGED <<chainVars, dbVars>> /\ UNCHANGED memVars /\ UNCHANGED <<crashes, losses>>
    BY <1>6 DEF vars
  <2>2. UNCHANGED <<txMax, utxo, usedIn, address, transAsset, accRows, balance,
                    accTxs, addrTx, holders, cntAddr, lastTxPk, missed,
                    up, nextPK, retried, lostVins, lostVouts, cacheAddr, cacheAcc,
                    crashes, losses>>
    BY <2>1 DEF chainVars, dbVars, memVars, readVars
  <2>3. TypeOK' BY <2>2 DEF IInv, Cached, CacheCoversRows, TypeOK
  <2>4. Cached' BY <2>2, <2>3 DEF IInv, Cached, CacheCoversRows
  <2>5. Progress' BY <2>2 DEF IInv, Progress
  <2>6. \A s \in Applied : Vins(s)' = Vins(s) /\ Vouts(s)' = Vouts(s)
    BY <2>1, <2>2 DEF Vins, Vouts, chainVars
  <2> QED BY <2>1, <2>2, <2>4, <2>5, <2>6, MemoryStep
<1> QED BY <1>1, <1>2, <1>3, <1>4, <1>5, <1>6, <1>7, <1>8 DEF Next

THEOREM UtxoInvariance == Spec => []IInv
<1> QED BY InitIInv, NextIInv, PTL DEF Spec
-----------------------------------------------------------------------------
\* Whatever crashed, was repeated or cut short, utxo has one row for every output
\* read of the transactions applied, marked with the one that spent it
\* (neo/db/tx.go, handleVinsVouts), and addr_tx one for each of their addresses.
THEOREM TablesAreExact == Spec => []TablesExact
<1>1. IInv => TablesExact
  <2> SUFFICES ASSUME IInv PROVE TablesExact OBVIOUS
  <2>1. Chain /\ Tables BY DEF IInv
  <2>2. ASSUME NEW o \in Outputs
        PROVE  usedIn[o] = IF o \in PaidOuts \cap Spent
                           THEN CHOOSE t \in Applied : o \in Vins(t) ELSE 0
    <3>1. CASE o \in PaidOuts \cap Spent
      <4>1. \E t \in Applied : o \in Vins(t) BY <2>1, <3>1, PaidIs
      <4>2. PICK c : c = CHOOSE t \in Applied : o \in Vins(t) OBVIOUS
      <4>3. c \in Applied /\ o \in Vins(c) BY <4>1, <4>2
      <4>4. usedIn[o] = c BY <4>3, <3>1, <2>1 DEF Tables
      <4> QED BY <4>2, <4>4, <3>1
    <3>2. CASE o \notin PaidOuts \cap Spent
      <4>1. usedIn[o] # 0 => o \in PaidOuts /\ o \in Spent
        BY <2>1, PaidIs DEF Tables
      <4> QED BY <4>1, <3>2
    <3> QED BY <3>1, <3>2
  <2> QED BY <2>1, <2>2 DEF TablesExact, Tables
<1> QED BY <1>1, UtxoInvariance, PTL

\* Nothing that has a row is ever inserted again: the cache of a running process
\* knows every row (core/cache/addr.go).
THEOREM CacheIsComplete == Spec => []CacheCoversRows
<1>1. IInv => CacheCoversRows BY DEF IInv, Cached
<1> QED BY <1>1, UtxoInvariance, PTL

\* asset.addresses and counter.cnt_addr count the rows (neo/db/addr.go).
THEOREM CountsAreExact == Spec => []RowsCounted
<1>1. IInv => RowsCounted BY DEF IInv
<1> QED BY <1>1, UtxoInvariance, PTL

\* Of what was read, a lost connection harms only the accounts whose UPDATE found
\* no row (transact in neo/db/db.go with the cache that it does not undo).
THEOREM OnlyMissedHarmed == Spec => []BalanceUnlessMissed
<1>1. IInv => BalanceUnlessMissed BY DEF IInv
<1> QED BY <1>1, UtxoInvariance, PTL

\* What an account owns, by its balance: the outputs paid to it and not spent.
LEMMA OwnedIs ==
  ASSUME IInv, losses = 0, NEW acc \in Accounts
  PROVE  \A o \in Outputs : balance[acc][o] # 0 <=> o \in Paid(acc) /\ o \notin Spent
<1>1. Chain /\ missed = {} /\ lostVouts = {} /\ BalanceUnlessMissed /\ Tables
  BY DEF IInv, Cached
<1> SUFFICES ASSUME NEW o \in Outputs
             PROVE  balance[acc][o] # 0 <=> o \in Paid(acc) /\ o \notin Spent
  OBVIOUS
<1>2. balance[acc][o] = (IF o \in Paid(acc) THEN 1 ELSE 0)
                        - (IF o \in Spent /\ Owner(o) = acc THEN 1 ELSE 0)
  BY <1>1 DEF BalanceUnlessMissed
<1>3. ASSUME o \in Spent PROVE o \in PaidOuts
  <2>1. PICK s \in Applied : o \in Vins(s) BY <1>1, <1>3, PaidIs
  <2>2. s \in Ids /\ s <= lastTxPk BY DEF Applied
  <2>3. o[2] \in DOMAIN outs[o[1]] /\ o[1] < s BY <1>1, <2>1, <2>2, PairsAreOwners
  <2>4. o[1] \in Ids /\ o \in {o[1]} \X DOMAIN outs[o[1]] BY <1>1, <2>3, OwnerIs, Names
  <2>5. o \in Vouts(o[1]) BY <2>4, <1>1 DEF Vouts
  <2>6. o[1] \in Applied
    <3>1. lastTxPk \in Nat BY DEF IInv, Cached, CacheCoversRows, TypeOK
    <3>2. s \in Nat /\ o[1] \in Nat BY <2>2, <2>4, Names, UtxoBounds
    <3>3. o[1] <= lastTxPk BY <3>1, <3>2, <2>2, <2>3
    <3> QED BY <3>3, <2>4 DEF Applied
  <2> QED BY <2>5, <2>6 DEF PaidOuts
<1>4. o \in Paid(acc) <=> o \in PaidOuts /\ Owner(o) = acc BY <1>1, PaidIs
<1> QED BY <1>2, <1>3, <1>4

LEMMA OwnedNext ==
  ASSUME IInv, losses = 0, NEW t \in Ids, Apply(t), NEW acc \in Accounts, NEW o \in Outputs
  PROVE  balance'[acc][o] # 0 <=>
           \/ balance[acc][o] # 0 /\ o \notin ins[t]
           \/ o \in {t} \X DOMAIN outs[t] /\ Owner(o) = acc
<1>1. balance[acc][o] # 0 <=> o \in Paid(acc) /\ o \notin Spent BY OwnedIs
<1>2. IInv /\ lostVins = {} /\ lostVouts = {} BY DEF IInv, Cached
<1>3. Vins(t) = ins[t] /\ Vouts(t) = {t} \X DOMAIN outs[t] BY <1>2 DEF Vins, Vouts
<1>4. balance'[acc][o] = IF o \in Vouts(t) /\ Owner(o) = acc /\ acc \in accRows' THEN 1
           ELSE IF o \in Vins(t) /\ Owner(o) = acc /\ acc \in accRows
                THEN balance[acc][o] - 1 ELSE balance[acc][o]
  BY BalanceMoves
<1>5. Chain /\ missed = {} /\ BalanceUnlessMissed /\ losses = 0
  BY DEF IInv, Cached
<1>6. balance[acc][o] = (IF o \in Paid(acc) THEN 1 ELSE 0)
                        - (IF o \in Spent /\ Owner(o) = acc THEN 1 ELSE 0)
  BY <1>5 DEF BalanceUnlessMissed
<1>7. CASE o \in Vouts(t)
  <2>1. o \notin PaidOuts /\ o \notin Vins(t) BY <1>7, Settled
  <2>2. o \notin Paid(acc) BY <2>1, <1>5, PaidIs
  <2>3. Owner(o) = acc => acc \in accRows'
    <3>1. Owner(o) \in AddrAssetPair(t) BY <1>5, <1>7, PairsAreOwners
    <3> QED BY <3>1, <1>5, ApplyCached
  <2>4. balance[acc][o] = 0 BY <2>2, <1>1
  <2> QED BY <2>1, <2>3, <2>4, <1>3, <1>4, <1>7
<1>8. CASE o \in Vins(t)
  <2>1. o \in PaidOuts /\ o \notin Spent /\ o \notin Vouts(t)
    BY <1>5, <1>8, Settled
  <2>2. o \in Paid(acc) <=> Owner(o) = acc BY <2>1, <1>5, PaidIs
  <2>3. o \in Paid(acc) => acc \in accRows
    BY <1>5 DEF BalanceUnlessMissed
  <2> QED BY <2>1, <2>2, <2>3, <1>3, <1>4, <1>6, <1>8
<1>9. CASE o \notin Vouts(t) /\ o \notin Vins(t) BY <1>3, <1>4, <1>9
<1> QED BY <1>7, <1>8, <1>9

LEMMA ApplySettles ==
  ASSUME IInv, losses = 0, NEW t \in Ids, Apply(t)
  PROVE  Promise!Settle
<1> DEFINE owned == [acc \in Addrs \X Assets |->
                       {o \in (1..MaxTx) \X (1..MaxOuts) : balance[acc][o] # 0}]
           owned2 == [acc \in Addrs \X Assets |->
                       {o \in (1..MaxTx) \X (1..MaxOuts) : balance'[acc][o] # 0}]
<1>1. Chain /\ Progress /\ TypeOK BY DEF IInv, Cached, CacheCoversRows
<1>2. /\ UNCHANGED <<outs, ins, txMax>> /\ lastTxPk' = t /\ lastTxPk < t /\ t <= txMax
      /\ t \in Nat
  BY Settled
<1>3. lastTxPk \in Nat /\ nextPK = lastTxPk + 1 /\ txMax \in Nat
  BY <1>1 DEF TypeOK, Progress
<1>4. HasEffect(t) /\ \A s \in (lastTxPk + 1)..(t - 1) : ~HasEffect(s)
  BY <1>3 DEF Apply, IsNext
<1>5. t \in (lastTxPk + 1)..txMax BY <1>2, <1>3
<1>6. owned2 = [acc \in Addrs \X Assets |->
                  (owned[acc] \ ins[t]) \cup
                  {o \in {t} \X DOMAIN outs[t] : Owner(o) = acc}]
  <2> SUFFICES ASSUME NEW acc \in Addrs \X Assets
               PROVE  owned2[acc] = (owned[acc] \ ins[t]) \cup
                        {o \in {t} \X DOMAIN outs[t] : Owner(o) = acc}
    OBVIOUS
  <2>1. acc \in Accounts /\ (1..MaxTx) \X (1..MaxOuts) = Outputs BY Names
  <2>2. \A o \in {t} \X DOMAIN outs[t] : o \in Outputs
    <3>1. outs[t] \in Seq(Accounts) /\ Len(outs[t]) <= MaxOuts BY <1>1 DEF Chain
    <3>2. \A n \in DOMAIN outs[t] : n \in 1..MaxOuts
      BY <3>1, LenProperties, UtxoBounds
    <3> QED BY <3>2, Names
  <2>3. \A o \in Outputs : balance'[acc][o] # 0 <=>
           \/ balance[acc][o] # 0 /\ o \notin ins[t]
           \/ o \in {t} \X DOMAIN outs[t] /\ Owner(o) = acc
    BY <2>1, OwnedNext
  <2>4. owned2[acc] = {o \in Outputs : balance'[acc][o] # 0} BY <2>1
  <2>5. owned[acc] = {o \in Outputs : balance[acc][o] # 0} BY <2>1
  <2> HIDE DEF owned, owned2
  <2> QED BY <2>2, <2>3, <2>4, <2>5
<1> QED BY <1>2, <1>4, <1>5, <1>6
        DEF Promise!Settle, HasEffect, Owner, Promise!Accounts

\* As long as no connection is lost, and whatever crashes, the task is the ledger:
\* the transactions take effect one by one, in order, each as a whole
\* (neo/tasks/tx.go, ApplyVinsVouts).
THEOREM TaskIsLedger == Spec => ImplementsLedger
<1>1. Init => Promise!LInit BY DEF Init
<1>2. IInv /\ [Next]_vars => [losses = 0 => Promise!LNext]_(Promise!vars)
  <2> SUFFICES ASSUME IInv, [Next]_vars, losses = 0
               PROVE  Promise!LNext \/ UNCHANGED Promise!vars
    OBVIOUS
  <2>1. ASSUME NEW t \in Ids, Apply(t) PROVE Promise!LNext
    BY <2>1, ApplySettles DEF Promise!LNext
  <2>2. CASE NewTx BY <2>2 DEF NewTx, Promise!LNext
  <2>3. ASSUME UNCHANGED <<chainVars, dbVars>> PROVE UNCHANGED Promise!vars
    BY <2>3 DEF chainVars, dbVars, Promise!vars
  <2>4. ASSUME NEW t \in Ids, NEW k \in 0..Statements(t), LoseConnection(t, k)
        PROVE  UNCHANGED Promise!vars
    BY <2>3, <2>4 DEF LoseConnection
  <2>8. ASSUME NEW t \in Ids, Refuse(t) PROVE UNCHANGED Promise!vars
    BY <2>3, <2>8 DEF Refuse
  <2>9. ASSUME NEW t \in Ids, CutRead(t) PROVE UNCHANGED Promise!vars
    BY <2>3, <2>9 DEF CutRead
  <2>5. CASE Crash BY <2>3, <2>5 DEF Crash
  <2>6. CASE Start BY <2>3, <2>6 DEF Start
  <2>7. CASE UNCHANGED vars BY <2>3, <2>7 DEF vars
  <2> QED BY <2>1, <2>2, <2>4, <2>5, <2>6, <2>7, <2>8, <2>9 DEF Next
<1> QED BY <1>1, <1>2, UtxoInvariance, PTL DEF Spec, ImplementsLedger
=============================================================================
