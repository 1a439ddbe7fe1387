------------------------------- MODULE UtxoTask -------------------------------
(***************************************************************************)
(* The UTXO task (neo/tasks/tx.go, neo/db/tx.go, neo/db/addr.go) with the  *)
(* address cache (core/cache/addr.go) and the retry of a database          *)
(* transaction whose connection was lost (transact in neo/db/db.go).       *)
(*                                                                         *)
(* ApplyVinsVouts applies one transaction in one database transaction.     *)
(* What it does to the database is undone when that fails; what it does to *)
(* the cache is not.  The task is one goroutine, so its transactions are   *)
(* single steps: Apply when it commits, LoseConnection or Refuse when it   *)
(* does not.                                                               *)
(*                                                                         *)
(* A connection lost while fetchTx reads tx_vin or tx_vout (CutRead) makes *)
(* no error: GetVins and GetVouts never look at rows.Err().  The rows not  *)
(* read stay out of what is applied, until a restart reads them again.     *)
(*                                                                         *)
(* A balance is the bag of the outputs added and subtracted.  The balance  *)
(* in the cache is left out: nothing reads it for a UTXO asset.            *)
(***************************************************************************)
EXTENDS Integers, Sequences, FiniteSets, Functions

CONSTANTS Addrs,       \* addresses, as numbers: sort.Strings orders them
          Assets,      \* UTXO assets
          MaxTx,       \* bound on transaction ids
          MaxOuts,     \* bound on the outputs of a transaction
          MaxCrashes,  \* bound on crashes
          MaxLosses,   \* bound on connection errors
          MaxCut       \* bound on the rows that one of them keeps from being read

ASSUME UtxoBounds == /\ Addrs \subseteq Nat /\ IsFiniteSet(Addrs)
                     /\ IsFiniteSet(Assets)
                     /\ MaxTx \in Nat /\ MaxOuts \in Nat
                     /\ MaxCrashes \in Nat /\ MaxLosses \in Nat /\ MaxCut \in Nat

VARIABLES
  outs, ins, txMax,     \* table tx with tx_vin, tx_vout: see Ledger
  up,                   \* the process runs
  nextPK,               \* fetchTx: the next transaction to handle
  lostVins, lostVouts,  \* rows of tx_vin, by the output spent, and of tx_vout
                        \* that fetchTx did not get
  retried,              \* the transaction at hand lost a connection before
  cacheAddr, cacheAcc,  \* addrCache: its addresses, their AddrAssetCache
  utxo, usedIn,         \* utxo: rows of each output, its used_in_tx or 0
  address, transAsset,  \* address: the rows, their trans_asset
  accRows, balance,     \* addr_asset: the rows, their balance
  accTxs,               \* ... their transactions
  addrTx,               \* addr_tx: rows of an address and a transaction
  holders,              \* asset.addresses
  cntAddr, lastTxPk,    \* counter.cnt_addr, counter.last_tx_pk
  missed,               \* history: accounts whose UPDATE found no row
  crashes, losses

chainVars == <<outs, ins, txMax>>
readVars  == <<lostVins, lostVouts>>
memVars   == <<up, nextPK, readVars, retried, cacheAddr, cacheAcc>>
dbVars    == <<utxo, usedIn, address, transAsset, accRows, balance, accTxs,
               addrTx, holders, cntAddr, lastTxPk, missed>>
vars == <<chainVars, memVars, dbVars, crashes, losses>>

\* The rows of addr_asset, read as the ledger's accounts.
Promise == INSTANCE Ledger WITH
  applied <- lastTxPk,
  owned   <- [acc \in Addrs \X Assets |->
                {o \in (1..MaxTx) \X (1..MaxOuts) : balance[acc][o] # 0}]

Ids      == Promise!Ids
Accounts == Promise!Accounts
Outputs  == Promise!Outputs
Owner(o) == Promise!Owner(o)
HasEffect(t) == Promise!HasEffect(t)

-----------------------------------------------------------------------------
(* Slips the code might have made, for the sensitivity of the properties. *)

Payments(t) == {t} \X DOMAIN outs[t]        \* Moves: forgets to subtract
AnyLater(t) == t >= nextPK /\ HasEffect(t)  \* IsNext: out of order
NothingLoaded == {}                         \* LoadedAccs: an empty cache
PaidHolders(t, s) == Cardinality(           \* NewHolders: one per output
                       {n \in DOMAIN outs[t] : outs[t][n][2] = s})

-----------------------------------------------------------------------------
\* The vins and vouts of a transaction that fetchTx read: what it spends and pays.
Vins(t)  == ins[t] \ lostVins
Vouts(t) == ({t} \X DOMAIN outs[t]) \ lostVouts
Moves(t) == Vins(t) \cup Vouts(t)

\* countTxInfo: the accounts of the inputs and of the outputs.
AddrAssetPair(t) == {Owner(o) : o \in Moves(t)}
AddrsOf(t) == {acc[1] : acc \in AddrAssetPair(t)}

\* fetchTx skips what has neither vins nor vouts in the tables.
IsNext(t) == t >= nextPK /\ HasEffect(t)
             /\ \A s \in nextPK..(t - 1) : ~HasEffect(s)

Resume == lastTxPk + 1

\* Addresses and accounts that the cache does not know are new.
NewAddrs(t) == AddrsOf(t) \ cacheAddr
NewAccs(t)  == {Owner(o) : o \in Vouts(t)} \ cacheAcc
NewHolders(t, s) == Cardinality({acc \in NewAccs(t) : acc[2] = s})

\* 1 for each output the transaction pays, -1 for each it spends, if the
\* account has a row at that point: the vins come before the INSERTs.
Delta(t, acc, o) ==
  IF Owner(o) # acc THEN 0
  ELSE IF o[1] = t THEN (IF acc \in accRows \cup NewAccs(t) THEN 1 ELSE 0)
  ELSE IF acc \in accRows THEN -1 ELSE 0

\* The addresses and accounts in the cache after the first k statements that
\* may create one: the sorted addresses, then the outputs in turn.
AddrsUpTo(t, k) == {a \in AddrsOf(t) :
                      Cardinality({b \in AddrsOf(t) : b <= a}) <= k}
AccsUpTo(t, k)  == {Owner(o) : o \in {o \in Vouts(t) :
                      o[2] + Cardinality(AddrsOf(t)) <= k}}
Statements(t) == Cardinality(AddrsOf(t)) + Len(outs[t])

\* What a start loads, and whether it can.
LoadedAccs == accRows
Loadable == \A acc \in accRows : acc[1] \in address
-----------------------------------------------------------------------------
Init ==
  /\ up = TRUE /\ nextPK = 1 /\ retried = FALSE
  /\ lostVins = {} /\ lostVouts = {}
  /\ cacheAddr = {} /\ cacheAcc = {}
  /\ utxo = [o \in Outputs |-> 0] /\ usedIn = [o \in Outputs |-> 0]
  /\ address = {} /\ transAsset = [a \in Addrs |-> 0]
  /\ accRows = {} /\ balance = [acc \in Accounts |-> [o \in Outputs |-> 0]]
  /\ accTxs = [acc \in Accounts |-> 0]
  /\ addrTx = [a \in Addrs |-> [t \in Ids |-> 0]]
  /\ holders = [s \in Assets |-> 0]
  /\ cntAddr = 0 /\ lastTxPk = 0 /\ missed = {}
  /\ crashes = 0 /\ losses = 0
  /\ Promise!LInit

\* updateAddrInfo: INSERT for a new address (a duplicate id would be an error),
\* else an UPDATE, which may find no row.
UpdateAddrInfo(t) ==
  /\ NewAddrs(t) \cap address = {}
  /\ address' = address \cup NewAddrs(t)
  /\ transAsset' = [a \in Addrs |-> transAsset[a] +
       (IF a \in AddrsOf(t) \cap address' THEN 1 ELSE 0)]
  /\ cntAddr' = cntAddr + Cardinality(NewAddrs(t))
  /\ cacheAddr' = cacheAddr \cup AddrsOf(t)

\* handleVins and handleVouts.  An UPDATE may find no row of utxo or addr_asset.
HandleVinsVouts(t) ==
  /\ usedIn' = [o \in Outputs |-> IF o \in Vins(t) /\ utxo[o] > 0 THEN t
                                  ELSE usedIn[o]]
  /\ utxo' = [o \in Outputs |-> utxo[o] + (IF o \in Vouts(t) THEN 1 ELSE 0)]
  /\ balance' = [acc \in Accounts |-> [o \in Outputs |-> balance[acc][o] +
                   (IF o \in Moves(t) THEN Delta(t, acc, o) ELSE 0)]]
  /\ accRows' = accRows \cup NewAccs(t)
  /\ holders' = [s \in Assets |-> holders[s] + NewHolders(t, s)]
  /\ cacheAcc' = cacheAcc \cup NewAccs(t)
  /\ missed' = missed \cup (AddrAssetPair(t) \ accRows')
                     \cup ({Owner(o) : o \in Vins(t)} \ accRows)

\* updateTxInfo: a row per address, a count per account that has a row.
UpdateTxInfo(t) ==
  /\ addrTx' = [a \in Addrs |-> IF a \in AddrsOf(t)
                                THEN [addrTx[a] EXCEPT ![t] = @ + 1]
                                ELSE addrTx[a]]
  /\ accTxs' = [acc \in Accounts |-> accTxs[acc] +
                  (IF acc \in AddrAssetPair(t) \cap accRows' THEN 1 ELSE 0)]

\* ApplyVinsVouts commits.  If this is a retry, the outer transact then tries
\* to commit on its lost connection and fails, and handleTx panics.
Apply(t) ==
  /\ up /\ t <= txMax /\ IsNext(t)
  /\ UpdateAddrInfo(t)
  /\ HandleVinsVouts(t)
  /\ UpdateTxInfo(t)
  /\ lastTxPk' = t
  /\ nextPK' = t + 1
  /\ up' = ~retried /\ retried' = FALSE
  /\ UNCHANGED <<chainVars, readVars, crashes, losses>>

\* The connection is lost after the first k of these statements: the server
\* undoes all of them, transact reconnects and starts over.
LoseConnection(t, k) ==
  /\ up /\ t <= txMax /\ IsNext(t)
  /\ losses < MaxLosses /\ losses' = losses + 1
  /\ cacheAddr' = cacheAddr \cup AddrsUpTo(t, k)
  /\ cacheAcc' = cacheAcc \cup AccsUpTo(t, k)
  /\ retried' = TRUE
  /\ UNCHANGED <<chainVars, readVars, up, nextPK, dbVars, crashes>>

\* A server that became read-only refuses the first statement with Error 1290,
\* which connErr takes for a lost connection: the cache keeps what came before,
\* but the outer Commit succeeds and the process lives on.  With vins the first
\* statement is an UPDATE of utxo, and nothing came before.
Refuse(t) ==
  /\ up /\ ~retried /\ t <= txMax /\ IsNext(t) /\ Vins(t) = {}
  /\ losses < MaxLosses /\ losses' = losses + 1
  /\ cacheAddr' = cacheAddr \cup AddrsUpTo(t, 1)
  /\ UNCHANGED <<chainVars, readVars, up, nextPK, retried, cacheAcc, dbVars, crashes>>

\* The connection is lost while fetchTx reads the vins, or the vouts, of a page.
\* The queries have no order, so any of the rows may be among those not read.  It
\* shows when the first transaction t that misses a row is the next to apply.
Cuts(rows, ofT) == {lost \in SUBSET rows : /\ Cardinality(lost) <= MaxCut
                                           /\ lost \cap ofT # {}}
CutRead(t) ==
  /\ up /\ ~retried /\ t <= txMax /\ IsNext(t)
  /\ losses < MaxLosses /\ losses' = losses + 1
  /\ \/ \E lost \in Cuts(UNION {ins[s] : s \in t..txMax}, ins[t]) :
           lostVins' = lostVins \cup lost /\ UNCHANGED lostVouts
     \/ \E lost \in Cuts(UNION {{s} \X DOMAIN outs[s] : s \in t..txMax},
                     {t} \X DOMAIN outs[t]) :
           lostVouts' = lostVouts \cup lost /\ UNCHANGED lostVins
  /\ UNCHANGED <<chainVars, up, nextPK, retried, cacheAddr, cacheAcc, dbVars, crashes>>

\* InsertBlock commits one transaction more.
NewTx ==
  /\ txMax < MaxTx
  /\ UNCHANGED <<memVars, dbVars, crashes, losses>>
  /\ Promise!Publish

\* The process dies; an open database transaction is rolled back.
Crash ==
  /\ up /\ crashes < MaxCrashes
  /\ crashes' = crashes + 1
  /\ up' = FALSE /\ cacheAddr' = {} /\ cacheAcc' = {}
  /\ UNCHANGED <<chainVars, readVars, nextPK, retried, dbVars, losses>>

\* Run loads the cache from addr_asset LEFT JOIN address: a row without its
\* address yields a NULL id, which cannot be scanned, and Run panics.  fetchTx
\* reads again what was not applied.
Start ==
  /\ ~up /\ Loadable
  /\ up' = TRUE /\ retried' = FALSE
  /\ nextPK' = Resume
  /\ lostVins' = lostVins \cap UNION {ins[t] : t \in 1..lastTxPk}
  /\ lostVouts' = {o \in lostVouts : o[1] <= lastTxPk}
  /\ cacheAcc' = LoadedAccs
  /\ cacheAddr' = {acc[1] : acc \in LoadedAccs}
  /\ UNCHANGED <<chainVars, dbVars, crashes, losses>>

Next ==
  \/ \E t \in Ids : \/ Apply(t)
                   \/ \E k \in 0..Statements(t) : LoseConnection(t, k)
                   \/ Refuse(t) \/ CutRead(t)
  \/ NewTx
  \/ Crash
  \/ Start

Spec == Init /\ [][Next]_vars

-----------------------------------------------------------------------------
(* Properties *)

\* The variables of the UTXO task have their types.
TypeOK ==
  /\ txMax \in 0..MaxTx /\ lastTxPk \in 0..MaxTx /\ nextPK \in 1..(MaxTx + 1)
  /\ up \in BOOLEAN /\ retried \in BOOLEAN
  /\ lostVins \subseteq Outputs /\ lostVouts \subseteq Outputs
  /\ cacheAddr \subseteq Addrs /\ cacheAcc \subseteq Accounts
  /\ utxo \in [Outputs -> 0..1] /\ usedIn \in [Outputs -> 0..MaxTx]
  /\ address \subseteq Addrs /\ transAsset \in [Addrs -> 0..MaxTx]
  /\ accRows \subseteq Accounts /\ missed \subseteq Accounts
  /\ balance \in [Accounts -> [Outputs -> -1..1]]
  /\ accTxs \in [Accounts -> 0..MaxTx]
  /\ addrTx \in [Addrs -> [Ids -> 0..1]]
  /\ holders \in [Assets -> Nat] /\ cntAddr \in Nat
  /\ crashes \in 0..MaxCrashes /\ losses \in 0..MaxLosses

\* The outputs paid and spent by the transactions applied, as fetchTx read them.
Applied == {t \in Ids : t <= lastTxPk}
PaidOuts == UNION {Vouts(t) : t \in Applied}
Paid(acc) == {o \in PaidOuts : Owner(o) = acc}
Spent == UNION {Vins(t) : t \in Applied}

\* Crashes and retries included, table utxo has one row for every output of
\* the transactions applied, marked with the one that spent it, and addr_tx one
\* row per address and transaction: of every vin and vout that was read, and so of
\* all of them unless a read was cut short.
TablesExact ==
  /\ LET paid == PaidOuts  spent == Spent
     IN  \A o \in Outputs :
           /\ utxo[o] = IF o \in paid THEN 1 ELSE 0
           /\ usedIn[o] = IF o \in paid \cap spent
                          THEN CHOOSE t \in Applied : o \in Vins(t) ELSE 0
  /\ \A a \in Addrs, t \in Ids :
       addrTx[a][t] = IF t \in Applied /\ a \in AddrsOf(t) THEN 1 ELSE 0

\* The variables have their types, and the cache of a running process knows every
\* row, so that no account is ever inserted a second time; nor is an address,
\* unless a retry missed a row (then a restart forgets an address whose only
\* account is the missing one).
CacheCoversRows ==
  /\ TypeOK
  /\ up => /\ accRows \subseteq cacheAcc
           /\ missed = {} => address \subseteq cacheAddr

\* asset.addresses and counter.cnt_addr count the rows there are, also after a
\* retry that took a row for present that was not; and until a connection error,
\* the numbers of transactions kept with an address and an account are those of
\* the rows of addr_tx and of the transactions.
RowsCounted ==
  /\ \A s \in Assets : holders[s] = Cardinality({acc \in accRows : acc[2] = s})
  /\ cntAddr = Cardinality(address)
  /\ losses = 0 =>
       /\ \A a \in Addrs : transAsset[a] = Cardinality({t \in Ids : addrTx[a][t] > 0})
       /\ \A acc \in Accounts :
            accTxs[acc] = Cardinality({t \in Applied : \E o \in Moves(t) : Owner(o) = acc})

\* A connection lost in a transaction harms only accounts for which an UPDATE
\* found no row: the balance of every other one is exactly the outputs paid to it
\* less those it spent, of all that was read.
BalanceUnlessMissed ==
  LET spent == Spent
  IN  \A acc \in Accounts \ missed :
        LET paid == Paid(acc)
        IN  /\ acc \in accRows <=> paid # {}
            /\ \A o \in Outputs : balance[acc][o] =
                 (IF o \in paid THEN 1 ELSE 0)
                 - (IF o \in spent /\ Owner(o) = acc THEN 1 ELSE 0)

\* As long as no connection is lost, and with any crashes, the task is the
\* ledger.
ImplementsLedger ==
  Promise!LInit /\ [][losses = 0 => Promise!LNext]_(Promise!vars)
=============================================================================
