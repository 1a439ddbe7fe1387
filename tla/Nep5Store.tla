------------------------------ MODULE Nep5Store ------------------------------
(***************************************************************************)
(* What the operations of the NEP5 task do to the balances of one asset    *)
(* (neo/db/nep5.go, neo/db/addr.go, core/cache/addr.go), and where the     *)
(* balances come from: handleNep5Tx asks an RPC server for them, at a      *)
(* height that is at least BestHeight (neo/rpc), and handleNep5Store       *)
(* writes them later.  How a transaction is found and split is in          *)
(* Nep5Task.                                                               *)
(*                                                                         *)
(* Every block has one transaction; its number is id and height.  An       *)
(* operation that fails panics, and the process starts again from the      *)
(* tables.  transact repeats one whose connection was lost, or that the    *)
(* server refused because it is read-only (Error 1290): see UtxoTask.      *)
(***************************************************************************)
EXTENDS Integers, Sequences, FiniteSets

CONSTANTS Addrs,       \* addresses, as numbers: sort.SliceStable orders them
          NoAddr,      \* the empty address: no caller, or issued or burnt
          Shapes,      \* the transactions the network may produce
          MaxBalance,  \* balances are 0..MaxBalance
          MaxBlocks,   \* bound on blocks
          QueueSize,   \* bound on operations on their way (nep5ChanSize)
          MaxCrashes,  \* bound on crashes
          MaxLosses    \* bound on lost connections and refused statements

ASSUME StoreBounds == /\ Addrs \subseteq Nat /\ IsFiniteSet(Addrs) /\ NoAddr \notin Addrs
                      /\ Shapes \subseteq [kind : {"reg", "call"},
                                          who : Addrs \cup {NoAddr},
                                          from : Addrs \cup {NoAddr},
                                          to : Addrs \cup {NoAddr}]
                      /\ MaxBalance \in Nat \ {0} /\ MaxBlocks \in Nat
                      /\ QueueSize \in Nat \ {0}
                      /\ MaxCrashes \in Nat /\ MaxLosses \in Nat

\* A registration of the asset by "who"; or a call of its contract by "who"
\* with a transfer of it, each of which may be missing.

None == -1   \* no row, no cache entry
Balances == 0..MaxBalance

VARIABLES
  chain,       \* the network's transactions, with the balances after each
  stored,      \* how many of them are in the database
  best,        \* rpc.BestHeight
  vouts,       \* addresses that occur in tx_vout
  up,          \* the process runs
  next, stage, \* handleNep5Tx: its transaction, and if the caller is done
  applogIdx,   \* ... the last transfer done of the first one, or -1
  known,       \* the asset is in nep5AssetDecimals
  queue,       \* operations in nep5StoreChan
  retried,     \* the operation at hand lost a connection before
  cacheAddr,   \* addrCache: its addresses
  cacheBal, cacheAt,    \* ... Balance and BlockIndex of the asset
  refused,     \* history: accounts that only the cache has as they are, since
               \* the statement was refused
  rows,        \* table nep5: the rows of the asset
  addresses, holding, transfers,   \* ... its counts
  balance,     \* addr_asset: the balance of each address, or None
  address,     \* address: the rows
  transNep5,   \* ... their trans_nep5
  cntAddr,     \* counter.cnt_addr
  counter,     \* counter.last_tx_pk_for_nep5, counter.app_log_idx
  lagged,      \* history: balances asked for when BestHeight was behind
  dropped,     \* history: transfers not queued, since the query failed; those
               \* the task looks at again left out
  crashes, losses

netVars   == <<chain, vouts>>
blockVars == <<stored, best>>
cacheVars == <<cacheAddr, cacheBal, cacheAt, refused>>
taskVars  == <<next, stage, applogIdx, known>>
assetVars == <<rows, addresses, holding, transfers>>
rowVars   == <<balance, address, transNep5, cntAddr>>
vars == <<netVars, blockVars, up, taskVars, queue, retried, cacheVars, assetVars,
          rowVars, counter, lagged, dropped, crashes, losses>>

tip == Len(chain)
BalanceAt(h, a) == IF h = 0 THEN 0 ELSE chain[h].bal[a]
-----------------------------------------------------------------------------
(* Slips the code might have made, for the sensitivity of the properties. *)

AnyServer(minHeight) == 0..Len(chain)            \* Answers: forgets minHeight
HoldsAgain(op, a) == op.bal[a] > 0               \* StartsHolding
NothingLoaded == {}                              \* LoadedAddrs
LastAgain(c) == IF c[1] = 0 THEN 1 ELSE c[1]     \* ResumeAt: ignores the -1

-----------------------------------------------------------------------------
\* getServer and call: some server whose height is known to be minHeight or
\* more answers in the end; by then it may be higher.
Answers(minHeight) == minHeight..tip

\* getMinHeight.
MinHeight(t) == IF best > t THEN best ELSE t

ResumeAt(c) == IF c[2] = -1 THEN c[1] + 1 ELSE c[1]

\* handleNep5NonTxCall drops a caller without balance.
Worth(b) == b > 0

\* What the first k statements of an operation leave in the cache: for each of
\* its addresses, which are sorted, updateAddrInfo or createAddrInfoIfNotExist,
\* then GetAddrAssetOrCreate with UpdateBalance.
Place(op, a) == Cardinality({b \in op.touch : b <= a})
AddrsUpTo(op, k) == {a \in op.touch : 2 * Place(op, a) - 1 <= k}
AccsUpTo(op, k)  == {a \in op.touch : 2 * Place(op, a) <= k}
All == 2 * Cardinality(Addrs)
NewAddrs(op) == op.touch \ cacheAddr
NewAccs(op)  == {a \in op.touch : cacheBal[a] = None}

\* UpdateBalance is refused when the cache is of a later block.
UpToDate(a, block) == block >= cacheAt[a]
Cached(op, k) ==
  /\ cacheAddr' = cacheAddr \cup AddrsUpTo(op, k)
  /\ cacheBal' = [a \in Addrs |->
       IF a \in AccsUpTo(op, k) /\ (cacheBal[a] = None \/ UpToDate(a, op.tx))
       THEN op.bal[a] ELSE cacheBal[a]]
  /\ cacheAt' = [a \in Addrs |->
       IF a \in AccsUpTo(op, k) /\ cacheBal[a] # None /\ UpToDate(a, op.tx)
       THEN op.tx ELSE cacheAt[a]]

\* holdingAddrsOffset compares the new balance with the cached one.
StartsHolding(op, a) == op.bal[a] > 0 /\ cacheBal[a] \in {None, 0}
StopsHolding(op, a)  == op.bal[a] = 0 /\ cacheBal[a] > 0
HoldingOffset(op) ==
  Cardinality({a \in op.touch : StartsHolding(op, a)})
  - Cardinality({a \in op.touch : StopsHolding(op, a)})

\* What a start loads, and whether it can: see UtxoTask.
LoadedAddrs == {a \in Addrs : balance[a] # None}
Loadable == LoadedAddrs \subseteq address
-----------------------------------------------------------------------------
Init ==
  /\ chain = <<>> /\ stored = 0 /\ best = 0 /\ vouts = {}
  /\ up = TRUE
  /\ next = 1 /\ stage = "caller" /\ applogIdx = -1 /\ known = FALSE
  /\ queue = <<>> /\ retried = FALSE
  /\ cacheAddr = {}
  /\ cacheBal = [a \in Addrs |-> None] /\ cacheAt = [a \in Addrs |-> 0]
  /\ rows = 0 /\ addresses = 0 /\ holding = 0 /\ transfers = 0
  /\ balance = [a \in Addrs |-> None]
  /\ address = {} /\ transNep5 = [a \in Addrs |-> 0] /\ cntAddr = 0
  /\ counter = <<0, -1>>
  /\ lagged = {} /\ refused = {} /\ dropped = {} /\ crashes = 0 /\ losses = 0

\* The network adds a block.  Only the accounts a transaction names change.
NewBlock ==
  /\ tip < MaxBlocks
  /\ \E x \in Shapes, bal \in [Addrs -> Balances] :
       /\ \A a \in Addrs : bal[a] = BalanceAt(tip, a)
                           \/ (x.kind = "call" /\ a \in {x.who, x.from, x.to})
       /\ chain' = Append(chain, [x |-> x, bal |-> bal])
  /\ UNCHANGED <<vouts, blockVars, up, taskVars, queue, retried, cacheVars,
                 assetVars, rowVars, counter, lagged, dropped, crashes, losses>>

\* store: InsertBlock, with outputs to addresses that had none; and later the
\* best height.
StoreBlock ==
  /\ up /\ stored < tip
  /\ stored' = stored + 1
  /\ \E new \in SUBSET (Addrs \ vouts) : vouts' = vouts \cup new
  /\ UNCHANGED <<chain, best, up, taskVars, queue, retried, cacheVars,
                 assetVars, rowVars, counter, lagged, dropped, crashes, losses>>

RaiseBest ==
  /\ up /\ best < stored
  /\ best' = stored
  /\ UNCHANGED <<netVars, stored, up, taskVars, queue, retried, cacheVars,
                 assetVars, rowVars, counter, lagged, dropped, crashes, losses>>

\* RefreshServers: the highest answer; servers lag, and may not answer.
RefreshServers ==
  /\ up /\ best' \in (0..tip) \ {best}
  /\ UNCHANGED <<netVars, stored, up, taskVars, queue, retried, cacheVars,
                 assetVars, rowVars, counter, lagged, dropped, crashes, losses>>

Op(o, i, touch, h) ==
  [op |-> o, tx |-> next, idx |-> i, touch |-> touch,
   bal |-> [a \in Addrs |-> BalanceAt(h, a)], behind |-> best < next]
SetCounter == [op |-> "counter", tx |-> next, idx |-> -1, touch |-> {},
               bal |-> [a \in Addrs |-> 0], behind |-> FALSE]
\* The caller, or the admin of a registration; and the addresses of a transfer.
Caller(x)  == {x.who} \ {NoAddr}
Parties(x) == {x.from, x.to} \ {NoAddr}

Busy == up /\ next <= stored /\ Len(queue) <= QueueSize

\* handleNep5RegTx with queryNep5AssetInfo, unless the asset is known.
HandleReg ==
  /\ Busy /\ chain[next].x.kind = "reg"
  /\ IF known THEN UNCHANGED queue
     ELSE \E h \in Answers(MinHeight(next)) :
            queue' = Append(queue, Op("asset", -1, Caller(chain[next].x), h))
  /\ known' = TRUE /\ next' = next + 1
  /\ UNCHANGED <<netVars, blockVars, up, stage, applogIdx, retried, cacheVars,
                 assetVars, rowVars, counter, lagged, dropped, crashes, losses>>

\* Whose balances the two steps ask for.
Asked(x) == IF stage = "caller" THEN Caller(x)
            ELSE IF applogIdx >= 0 THEN {} ELSE Parties(x)

\* handleNep5NonTxCall: the balance of the caller of a known asset, unless the
\* query of it, or of the total supply, fails.
HandleCaller ==
  /\ Busy /\ chain[next].x.kind = "call" /\ stage = "caller"
  /\ LET who == Asked(chain[next].x)
     IN  \/ UNCHANGED queue
         \/ /\ who # {} /\ known /\ who \subseteq vouts
            /\ \E h \in Answers(best) :
                 /\ \A a \in who : Worth(BalanceAt(h, a))
                 /\ queue' = Append(queue, Op("balance", -1, who, h))
  /\ stage' = "transfer"
  /\ UNCHANGED <<netVars, blockVars, up, next, applogIdx, known, retried, cacheVars,
                 assetVars, rowVars, counter, lagged, dropped, crashes, losses>>

\* handleNep5TxCall with queryBalances, then the counter.  A transfer whose query
\* fails (FAULT, or no answer) is not queued.
HandleTransfer ==
  /\ Busy /\ stage = "transfer"
  /\ LET parties == Asked(chain[next].x)
     IN  IF parties = {} \/ ~known
         THEN queue' = Append(queue, SetCounter) /\ UNCHANGED dropped
         ELSE /\ parties \subseteq vouts
              /\ \/ /\ queue' = Append(queue, SetCounter)
                    /\ dropped' = dropped \cup {next}
                 \/ /\ \E h \in Answers(best) :
                         queue' = Append(Append(queue, Op("transfer", 0, parties, h)),
                                         SetCounter)
                    /\ UNCHANGED dropped
  /\ stage' = "caller" /\ applogIdx' = -1 /\ next' = next + 1
  /\ UNCHANGED <<netVars, blockVars, up, known, retried, cacheVars, assetVars,
                 rowVars, counter, lagged, crashes, losses>>

\* Whether the operation panics: an admin with a balance (CreateAddrAsset is
\* called with an address id of 0), an UPDATE of a column addr_asset does not
\* have, or a row that the cache does not know and INSERT finds.
Fails(op) ==
  \/ op.op = "asset" /\ \E a \in op.touch : op.bal[a] > 0
  \/ op.op = "balance" /\ \E a \in op.touch :
       cacheBal[a] \notin {None, op.bal[a]} /\ UpToDate(a, op.tx)
  \/ op.op # "asset" /\ \/ NewAddrs(op) \cap address # {}
                        \/ \E a \in NewAccs(op) : balance[a] # None

\* A database transaction commits.  After a retry the outer transact fails on
\* its lost connection, and the process panics.
Commit(op) ==
  /\ up /\ queue # <<>> /\ Head(queue).op = op /\ ~Fails(Head(queue))
  /\ queue' = IF retried THEN <<>> ELSE Tail(queue)
  /\ up' = ~retried /\ retried' = FALSE

\* InsertNep5Asset, for an admin without balance.
InsertNep5Asset ==
  /\ Commit("asset")
  /\ rows' = rows + 1
  /\ counter' = <<Head(queue).tx, -1>>
  /\ UNCHANGED <<netVars, blockVars, taskVars, cacheVars, addresses, holding,
                 transfers, rowVars, lagged, dropped, crashes, losses>>

\* The address rows: those the cache does not know are inserted.
InsertAddrs(op) ==
  /\ address' = address \cup NewAddrs(op)
  /\ cntAddr' = cntAddr + Cardinality(NewAddrs(op))

\* The balances: INSERT for an account the cache does not know, else UPDATE.
WriteBalances(op) ==
  LET found == NewAccs(op) \cup {a \in op.touch : balance[a] # None}
  IN  /\ balance' = [a \in Addrs |-> IF a \in found THEN op.bal[a] ELSE balance[a]]
      /\ addresses' = addresses + Cardinality(NewAccs(op))
      /\ lagged' = IF op.behind THEN lagged \cup op.touch
                   ELSE lagged \ op.touch

\* UpdateNep5TotalSupplyAndAddrAsset for a positive balance: a new account, or
\* no change.  (handleNep5NonTxCall sends no other; the total supply is left
\* out.)
UpdateCallerBalance ==
  /\ Commit("balance")
  /\ LET op == Head(queue)
     IN  /\ InsertAddrs(op) /\ WriteBalances([op EXCEPT !.touch = NewAccs(op)])
         /\ holding' = holding + Cardinality(NewAccs(op))
         /\ Cached(op, All) /\ UNCHANGED refused
  /\ UNCHANGED <<netVars, blockVars, taskVars, rows, transfers, transNep5, counter,
                 dropped, crashes, losses>>

\* InsertNep5transaction.
InsertNep5transaction ==
  /\ Commit("transfer")
  /\ LET op == Head(queue)
     IN  /\ InsertAddrs(op) /\ WriteBalances(op)
         /\ transNep5' = [a \in Addrs |-> transNep5[a] +
              (IF a \in op.touch \cap address' THEN 1 ELSE 0)]
         /\ holding' = holding + HoldingOffset(op)
         /\ transfers' = transfers + 1
         /\ counter' = <<op.tx, op.idx>>
         /\ Cached(op, All)
         /\ refused' = refused \ {a \in op.touch : balance[a] # None}
  /\ UNCHANGED <<netVars, blockVars, taskVars, rows, dropped, crashes, losses>>

UpdateCounter ==
  /\ Commit("counter")
  /\ counter' = <<Head(queue).tx, -1>>
  /\ UNCHANGED <<netVars, blockVars, taskVars, cacheVars, assetVars, rowVars,
                 lagged, dropped, crashes, losses>>

\* An operation fails at the k-th statement that follows a change of the cache,
\* and transact starts over.
Repeat(k) ==
  /\ up /\ queue # <<>> /\ Head(queue).op \in {"balance", "transfer"}
  /\ k <= 2 * Cardinality(Head(queue).touch)
  /\ losses < MaxLosses /\ losses' = losses + 1
  /\ Cached(Head(queue), k)
  /\ UNCHANGED <<netVars, blockVars, up, taskVars, queue, assetVars, rowVars,
                 counter, lagged, dropped, crashes>>

LoseConnection(k) == Repeat(k) /\ retried' = TRUE /\ UNCHANGED refused

\* The server turned read-only and refuses the first statement that writes, of one
\* attempt after the other; the connection stays, so that in the end the outer
\* transact commits and the process goes on.
RefusedAt(op) == {k \in {1, 2} : \/ k = 1 /\ (op.op = "transfer" \/ NewAddrs(op) # {})
                                 \/ k = 2 /\ op.op = "balance"}
Refuse(k) ==
  /\ queue # <<>> /\ k \in RefusedAt(Head(queue)) /\ Repeat(k)
  /\ refused' = refused \cup {a \in Addrs : cacheBal'[a] # cacheBal[a]}
  /\ UNCHANGED retried

Die ==
  /\ up' = FALSE /\ queue' = <<>> /\ retried' = FALSE
  /\ UNCHANGED <<netVars, blockVars, taskVars, cacheVars, assetVars, rowVars,
                 counter, lagged, dropped, losses>>

\* A store that fails, or an address without an output (GetVoutAddrID), kills
\* the whole process.
PanicStore == up /\ queue # <<>> /\ Fails(Head(queue)) /\ Die /\ UNCHANGED crashes
PanicQuery ==
  /\ Busy /\ known /\ chain[next].x.kind = "call"
  /\ ~(Asked(chain[next].x) \subseteq vouts)
  /\ Die /\ UNCHANGED crashes
Crash == up /\ crashes < MaxCrashes /\ crashes' = crashes + 1 /\ Die

\* Run, with LoadAddrAssetInfo and startNep5Task.
Start ==
  /\ ~up /\ Loadable
  /\ up' = TRUE
  /\ cacheAddr' = LoadedAddrs
  /\ cacheBal' = [a \in Addrs |-> IF a \in LoadedAddrs THEN balance[a] ELSE None]
  /\ cacheAt' = [a \in Addrs |-> 0]
  /\ next' = ResumeAt(counter) /\ stage' = "caller" /\ applogIdx' = counter[2]
  /\ known' = (rows > 0)
  /\ refused' = {} /\ dropped' = dropped \cap 1..counter[1]
  /\ UNCHANGED <<netVars, blockVars, queue, retried, assetVars, rowVars, counter,
                 lagged, crashes, losses>>

HandleNep5Tx == HandleReg \/ HandleCaller \/ HandleTransfer \/ PanicQuery
HandleNep5Store == \/ InsertNep5Asset \/ UpdateCallerBalance
                   \/ InsertNep5transaction \/ UpdateCounter \/ PanicStore

Next ==
  \/ NewBlock \/ StoreBlock \/ RaiseBest \/ RefreshServers
  \/ HandleNep5Tx
  \/ HandleNep5Store
  \/ \E k \in 1..All : LoseConnection(k) \/ Refuse(k)
  \/ Crash
  \/ Start

Spec == Init /\ [][Next]_vars
-----------------------------------------------------------------------------
Ops == [op : {"asset", "balance", "transfer", "counter"}, tx : 1..MaxBlocks,
        idx : {-1, 0}, touch : SUBSET Addrs, bal : [Addrs -> Balances],
        behind : BOOLEAN]
TypeOK ==
  /\ chain \in Seq([x : Shapes, bal : [Addrs -> Balances]]) /\ queue \in Seq(Ops)
  /\ tip <= MaxBlocks /\ stored \in 0..tip /\ best \in 0..tip
  /\ vouts \subseteq Addrs /\ address \subseteq vouts
  /\ up \in BOOLEAN /\ retried \in BOOLEAN /\ known \in BOOLEAN
  /\ next \in 1..(stored + 1) /\ stage \in {"caller", "transfer"}
  /\ applogIdx \in {-1, 0} /\ Len(queue) <= QueueSize + 2
  /\ cacheAddr \subseteq vouts
  /\ cacheBal \in [Addrs -> Balances \cup {None}] /\ cacheAt \in [Addrs -> 0..tip]
  /\ rows \in {0, 1} /\ balance \in [Addrs -> Balances \cup {None}]
  /\ counter[1] \in 0..stored /\ counter[2] \in {-1, 0}
  /\ lagged \subseteq Addrs /\ refused \subseteq Addrs /\ dropped \subseteq 1..MaxBlocks
  /\ crashes \in 0..MaxCrashes /\ losses \in 0..MaxLosses

\* The variables have their types, and the cache of a running task holds the
\* balances of the table, over crashes and operations that panic, except while an
\* operation is repeated, and where a statement was refused after updateAddrInfo or
\* GetAddrAssetOrCreate had changed the cache.
CacheIsRows ==
  /\ TypeOK
  /\ up /\ ~retried => \A a \in Addrs \ refused : cacheBal[a] = balance[a]

\* nep5.addresses is the number of balances, counter.cnt_addr the number of
\* addresses, over crashes and repeated transactions too; and nep5.holding_addresses,
\* kept from the old and the new balance of each address, is the number of positive
\* balances, unless a repetition made it count wrongly.
HoldersCounted ==
  /\ addresses = Cardinality({a \in Addrs : balance[a] # None})
  /\ cntAddr = Cardinality(address)
  /\ losses = 0 => holding = Cardinality({a \in Addrs : balance[a] > 0})

\* The transfers of the asset in the transactions the counter covers: every one
\* after its registration whose balances could be queried.
TransferTxs ==
  {t \in 1..counter[1] : /\ chain[t].x.kind = "call" /\ Parties(chain[t].x) # {}
                         /\ t \notin dropped
                         /\ \E r \in 1..(t - 1) : chain[r].x.kind = "reg"}

\* Each of them is counted once, whatever crashed or was repeated; and in the
\* row of each of its addresses, unless an operation was repeated.
TransfersOnce ==
  /\ transfers = Cardinality(TransferTxs)
  /\ losses = 0 => \A a \in Addrs : transNep5[a] =
       Cardinality({t \in TransferTxs : a \in Parties(chain[t].x)})

\* The last transaction that names a, as a stored transfer of the asset.
LastIsTransfer(a) ==
  \E t \in TransferTxs :
     /\ a \in Parties(chain[t].x)
     /\ \A u \in (t + 1)..tip : LET x == chain[u].x
                               IN  x.kind = "reg" \/ a \notin {x.who, x.from, x.to}

\* A balance asked of any server of BestHeight or more, for whatever block and
\* stored later, is the balance at the tip from the transfer on that is the last
\* transaction of its address: the answers for older blocks are overwritten in
\* order, and none is written after that.  Not when BestHeight was behind the block
\* (see README), nor for a caller that changes its balance without a transfer.
BalancesCurrent ==
  losses = 0 =>
    \A a \in Addrs \ lagged : LastIsTransfer(a) => balance[a] = BalanceAt(tip, a)

=============================================================================
