--------------------------------- MODULE Ids ---------------------------------
(***************************************************************************)
(* The ids of transactions, addresses and assets (neo/parse/tx.go,         *)
(* neo/db/block.go, core/cache/asset.go).  parse.Txs computes them in      *)
(* memory and InsertBlock writes them, while MySQL numbers the rows of tx  *)
(* and asset by itself; the NEP5 task takes asset ids at any time.         *)
(*                                                                         *)
(* Transactions are numbered 1, 2, ... as the network has them.  A batch   *)
(* of blocks ends at any transaction.  A crash loses the memory; a         *)
(* transaction of the database that is rolled back has consumed the        *)
(* numbers of its rows.                                                    *)
(***************************************************************************)
EXTENDS Integers, Sequences, FiniteSets, SequencesExt

CONSTANTS Addrs,      \* addresses
          Assets,     \* assets that transactions register
          Contracts,  \* hashes of NEP5 contracts
          MaxTx,      \* bound on transactions
          MaxParts,   \* bound on inputs, and on outputs, of a transaction
          MaxFaults   \* bound on crashes and lost connections

ASSUME IdBounds == /\ IsFiniteSet(Addrs) /\ IsFiniteSet(Assets) /\ IsFiniteSet(Contracts)
                   /\ Assets \cap Contracts = {}
                   /\ MaxTx \in Nat /\ MaxParts \in Nat /\ MaxFaults \in Nat

Hashes == Assets \cup Contracts
NoId == 0

VARIABLES
  up,
  lastTxPkId, LastAddrPkId,  \* the last ids given
  AssetMap, assetMaxID,      \* asset ids, and the last one given
  bulk,                      \* tx.Bulk: the transactions parsed so far
  tx,                        \* the transactions of the database
  txAuto, assetAuto,         \* AUTO_INCREMENT: the last numbers given
  asset,                     \* table asset: the id of each, or NoId
  retried,                   \* InsertBlock lost its connection once
  late,                      \* history: see AppendAsset
  faults

memVars == <<lastTxPkId, LastAddrPkId, AssetMap, assetMaxID>>
dbVars  == <<tx, txAuto, asset, assetAuto>>
vars == <<up, memVars, bulk, dbVars, retried, late, faults>>

\* A transaction: key is the tx_id its inputs, outputs, attributes, scripts and
\* claims get, id its number in table tx.
NoRow(key) == [key |-> key, id |-> NoId, vins |-> <<>>, vouts |-> <<>>,
               reg |-> {}]

Rows(txs) == UNION {ToSet(txs[i].vouts) : i \in DOMAIN txs}
IdsOf(addr, txs) == {v.addrId : v \in {v \in Rows(txs) : v.addr = addr}}
Registered == UNION {t.reg : t \in ToSet(tx \o bulk)}
AssetRows == {h \in Assets : asset[h] # NoId}
-----------------------------------------------------------------------------
(* Slips the code might have made, for the sensitivity of the properties. *)

NeverNew(addr) == TRUE                        \* IsNewAddr: addrMap is not kept
Forgotten == 0                                \* LoadedMax
KeyOf(target) == IF target <= Len(tx) THEN target - 1 ELSE target  \* TxIDOf

-----------------------------------------------------------------------------
GetTxCount == Len(tx)
GetVoutAddrCount == Cardinality({v.addr : v \in Rows(tx)})

\* LoadAssetsInfo: the ids of table asset, and how many.
LoadedAssets == [h \in Hashes |-> IF h \in Assets THEN asset[h] ELSE NoId]
LoadedMax == Cardinality(AssetRows)

Init ==
  /\ up = TRUE /\ retried = FALSE
  /\ lastTxPkId = 0 /\ LastAddrPkId = 0
  /\ AssetMap = [h \in Hashes |-> NoId] /\ assetMaxID = 0
  /\ bulk = <<>> /\ tx = <<>>
  /\ txAuto = 0 /\ assetAuto = 0
  /\ asset = [h \in Assets |-> NoId]
  /\ late = {} /\ faults = 0

\* GetAssetId: the id the cache has, or the next one.
IdFor(h) == IF AssetMap[h] # NoId THEN AssetMap[h] ELSE assetMaxID + 1
GetAssetId(h) ==
  /\ AssetMap' = [AssetMap EXCEPT ![h] = IdFor(h)]
  /\ assetMaxID' = IF AssetMap[h] # NoId THEN assetMaxID ELSE assetMaxID + 1

Parsing == up /\ ~retried
Latest == bulk[Len(bulk)]

\* Txs, the next transaction: appendTx, appendTxAttrs, appendTxScripts and
\* appendClaims give it the same id.
AppendTx ==
  /\ Parsing /\ Len(tx) + Len(bulk) < MaxTx
  /\ lastTxPkId' = lastTxPkId + 1
  /\ bulk' = Append(bulk, NoRow(lastTxPkId + 1))
  /\ UNCHANGED <<up, LastAddrPkId, AssetMap, assetMaxID, dbVars, retried, late, faults>>

\* appendTxVin: an input that spends an earlier transaction; its id is in txMap,
\* or found by GetTx.
TxIDOf(target) == IF target > Len(tx) THEN bulk[target - Len(tx)].key
                  ELSE tx[target].id
AppendTxVin ==
  /\ Parsing /\ bulk # <<>> /\ Latest.vouts = <<>> /\ Len(Latest.vins) < MaxParts
  /\ \E target \in 1..(Len(tx) + Len(bulk) - 1) :
       bulk' = [bulk EXCEPT ![Len(bulk)].vins =
                  Append(@, [spends |-> target, txid |-> TxIDOf(target)])]
  /\ UNCHANGED <<up, memVars, dbVars, retried, late, faults>>

\* appendTxVout: the address id is in addrMap or in tx_vout (GetVoutAddrID), or
\* the next one.  The network pays assets that are registered.
IsNewAddr(addr) == IdsOf(addr, bulk) = {}
AddrIDOf(addr) ==
  IF ~IsNewAddr(addr) THEN CHOOSE id \in IdsOf(addr, bulk) : TRUE
  ELSE IF IdsOf(addr, tx) # {} THEN CHOOSE id \in IdsOf(addr, tx) : TRUE
  ELSE LastAddrPkId + 1
AppendTxVout ==
  /\ Parsing /\ bulk # <<>> /\ Latest.reg = {} /\ Len(Latest.vouts) < MaxParts
  /\ \E addr \in Addrs, h \in Registered :
       /\ bulk' = [bulk EXCEPT ![Len(bulk)].vouts = Append(@,
            [addr |-> addr, addrId |-> AddrIDOf(addr), asset |-> h, assetId |-> IdFor(h)])]
       /\ LastAddrPkId' = IF IdsOf(addr, tx \o bulk) = {} THEN LastAddrPkId + 1
                          ELSE LastAddrPkId
       /\ GetAssetId(h)
  /\ UNCHANGED <<up, lastTxPkId, dbVars, retried, late, faults>>

\* appendAsset: the transaction registers an asset.  It is late when its row will
\* not get the id that the cache gives it: a NEP5 hash, or a row that was rolled
\* back, has taken that number before.
AppendAsset ==
  /\ Parsing /\ bulk # <<>> /\ Latest.reg = {}
  /\ \E h \in Assets \ Registered :
       /\ bulk' = [bulk EXCEPT ![Len(bulk)].reg = {h}]
       /\ GetAssetId(h)
       /\ late' = IF assetAuto # Cardinality(AssetRows)
                     \/ \E c \in Contracts : AssetMap[c] # NoId
                  THEN late \cup {h} ELSE late
  /\ UNCHANGED <<up, lastTxPkId, LastAddrPkId, dbVars, retried, faults>>

\* The NEP5 task meets a contract.
Nep5AssetId ==
  /\ up
  /\ \E c \in Contracts : AssetMap[c] = NoId /\ GetAssetId(c)
  /\ UNCHANGED <<up, lastTxPkId, LastAddrPkId, bulk, dbVars, retried, late, faults>>

\* The parsed transactions whose assets become rows, and the place of h's among
\* them.
Registering == {i \in DOMAIN bulk : bulk[i].reg # {}}
PlaceOf(h) ==
  Cardinality({i \in Registering : \E j \in Registering : i <= j /\ h \in bulk[j].reg})

\* InsertBlock commits.  After a lost connection the outer transact returns its
\* error all the same, and store panics.
InsertBlock ==
  /\ up /\ bulk # <<>>
  /\ tx' = tx \o [i \in DOMAIN bulk |-> [bulk[i] EXCEPT !.id = txAuto + i]]
  /\ txAuto' = txAuto + Len(bulk)
  /\ asset' = [h \in Assets |-> IF \E t \in ToSet(bulk) : h \in t.reg
                               THEN assetAuto + PlaceOf(h) ELSE asset[h]]
  /\ assetAuto' = assetAuto + Cardinality(Registering)
  /\ bulk' = <<>>
  /\ up' = ~retried /\ retried' = FALSE
  /\ UNCHANGED <<memVars, late, faults>>

\* What a rolled back transaction has consumed: nothing, the numbers of tx, or
\* those of asset too.
Consumed ==
  \/ UNCHANGED <<txAuto, assetAuto>>
  \/ txAuto' = txAuto + Len(bulk) /\ UNCHANGED assetAuto
  \/ txAuto' = txAuto + Len(bulk) /\ assetAuto' = assetAuto + Cardinality(Registering)

\* transact starts over with the same commands.
LoseConnection ==
  /\ up /\ bulk # <<>> /\ faults < MaxFaults
  /\ Consumed
  /\ retried' = TRUE /\ faults' = faults + 1
  /\ late' = IF assetAuto' = assetAuto THEN late
             ELSE late \cup UNION {t.reg : t \in ToSet(bulk)}
  /\ UNCHANGED <<up, memVars, bulk, tx, asset>>

Crash ==
  /\ up /\ faults < MaxFaults
  /\ Consumed
  /\ up' = FALSE /\ faults' = faults + 1
  /\ bulk' = <<>> /\ retried' = FALSE
  /\ late' = late \cap AssetRows
  /\ UNCHANGED <<memVars, tx, asset>>

\* Run.
Start ==
  /\ ~up
  /\ up' = TRUE
  /\ lastTxPkId' = GetTxCount /\ LastAddrPkId' = GetVoutAddrCount
  /\ AssetMap' = LoadedAssets /\ assetMaxID' = LoadedMax
  /\ UNCHANGED <<bulk, dbVars, retried, late, faults>>

Next == \/ AppendTx \/ AppendTxVin \/ AppendTxVout \/ AppendAsset
        \/ Nep5AssetId
        \/ InsertBlock
        \/ LoseConnection \/ Crash
        \/ Start

Spec == Init /\ [][Next]_vars
-----------------------------------------------------------------------------
VoutsOK(txs) == \A v \in Rows(txs) : /\ v.addr \in Addrs /\ v.addrId \in 1..LastAddrPkId
                                     /\ v.asset \in Assets /\ v.assetId \in Nat \ {0}
TypeOK ==
  /\ up \in BOOLEAN /\ retried \in BOOLEAN
  /\ up => lastTxPkId = Len(tx) + Len(bulk)
  /\ up => VoutsOK(tx) /\ VoutsOK(bulk)
  /\ AssetMap \in [Hashes -> Nat] /\ assetMaxID \in Nat
  /\ asset \in [Assets -> 0..assetAuto]
  /\ txAuto >= Len(tx) /\ \A i \in DOMAIN tx : tx[i].id \in 1..txAuto
  /\ late \subseteq Assets

\* The variables have their types, and whatever was rolled back: two outputs have
\* the same address_id exactly when they have the same address, the ids are 1, 2,
\* ... without a gap (so address rows, which take them as primary key, do not
\* collide), and the tx_id of the rows of the n-th transaction is n.
IdsDense ==
  /\ TypeOK
  /\ \A v, w \in Rows(tx \o bulk) : v.addr = w.addr <=> v.addrId = w.addrId
  /\ {v.addrId : v \in Rows(tx)} = 1..Cardinality({v.addr : v \in Rows(tx)})
  /\ \A i \in DOMAIN tx : tx[i].key = i

\* Every row of a transaction, and every input that spends it, has the id of its
\* row in tx, as long as no rows of tx were rolled back.
TxIdsMatch ==
  txAuto = Len(tx) =>
    \A i \in DOMAIN tx :
       /\ tx[i].id = tx[i].key
       /\ \A j \in DOMAIN tx[i].vins :
            tx[i].vins[j].txid = tx[tx[i].vins[j].spends].key

\* The asset_id of an output is the id of the row of its asset, over restarts too,
\* unless the asset was late; and different assets and contracts have different
\* ids, as long as no rows of asset were rolled back.
AssetIdsExact ==
  /\ \A v \in Rows(tx) : v.asset \notin late => v.assetId = asset[v.asset]
  /\ assetAuto = Cardinality(AssetRows) =>
       \A g, h \in Hashes : AssetMap[g] = AssetMap[h] => g = h \/ AssetMap[g] = NoId
=============================================================================
