# TLA+ models of neo_explorer

neo_explorer copies the NEO block chain from RPC servers into a MySQL database
and derives UTXO balances, token transfers, daily GAS balances and contract
records from the stored blocks. This directory holds TLA+ models of it, the TLC
instances that check them, and TLAPS proofs. Every definition is translated
from the Go source; `PROJECT.json` gives the lines each one stands for.

## 1. Inventory

One process; every box is one or more goroutines. Boxes exchange data through
Go channels, shared memory, or rows and counters of the database.

    RPC servers --> fetchBlock x N --> BlockBuffer --> arrangeBlock
                                                          | blockChannel
    database <-- storeBlock/store/InsertBlock <-----------+
       | table tx, by ascending id, one reader per task
       +--> fetchTx --> handleTx           (utxo, addr_asset, addr_tx, asset)
       +--> fetchAssetTx --> handleAssetTx (asset_tx)
       +--> fetchTx --> handleTxGASBalance (addr_gas_balance)
       +--> fetchSCTx --> handleScTx       (smartcontract_info)
       +--> fetchNep5Tx --> fetchAppLog x 4 --> handleNep5Tx --> handleNep5Store
                                           (nep5 tables, addr_asset)
       +--> insertNep5AddrTxRecord         (addr_tx from nep5 rows)

| Component | State | Operations | Hard parts | What makes it correct |
|---|---|---|---|---|
| Block pipeline (`neo/tasks/block.go`, `worker.go`, `core/buffer`) | buffer, maxHeight, nextHeight, threadCnt, channel, batch; block table, `last_block_index` | fetchBlock, arrangeBlock, getMissingBlock, storeBlock, store | increments under a read lock, abandoned heights, quitting workers, bounded buffer and channel, crash | blocks stored in order, once, no gap; always catches up; bounded memory |
| Block parsing and ids (`neo/parse`, `neo/db/block.go`) | lastTxPkId, LastAddrPkId; auto_increment of `tx` | parse.Txs, InsertBlock | ids computed in memory and by the database must agree | a row of `tx_vin`, `tx_vout`... names its own transaction |
| UTXO task (`tx.go`, `db/tx.go`, `db/addr.go`, `core/cache/addr.go`) | utxo, addr_asset, addr_tx rows; address cache; `last_tx_pk` | fetchTx, handleTx, ApplyVinsVouts | cache changed inside a transaction that may roll back or be retried | balance = unspent outputs; cache = rows |
| Asset task (`asset_tx.go`) | asset_tx rows, `last_asset_tx_pk` | fetchAssetTx, handleAssetTx | batches flushed by size or by timeout | every pair recorded once |
| GAS task (`gas_balance.go`, `db/gas.go`) | addr_gas_balance rows, gasDateCache, `last_tx_pk_gas_balance` | fetchTx, handleTxGASBalance, ApplyGASAssetChange | one database transaction per address | every transaction applied to every address once |
| Contract task (`smart_contract.go`, `db/smart_contract.go`) | smartcontract_info rows, `last_tx_pk_for_sc` | fetchSCTx, handleScTx, InsertSCInfos | counter and next id, ignored errors, pages that are filtered out | every deployment recorded once |
| NEP5 task (`nep5.go`, `db/nep5*.go`) | nep5 rows, addr_asset rows, caches, `(last_tx_pk_for_nep5, app_log_idx)` | fetchNep5Tx, fetchAppLog, handleNep5Tx, handleNep5Store, handleMigrate | logs out of order, several database transactions per transaction, crash between them | every transfer applied once, in order |
| Address counter task (`counter.go`) | addr_tx rows, `nep5_tx_pk_for_addr_tx` | insertNep5AddrTxRecord | restart | once per (address, transaction) |
| Database access (`db/db.go`) | connection, open transactions | transact, wrappedQuery, reconnect | retry while the first transaction is open | an operation takes effect once |
| RPC (`neo/rpc`) | servers, BestHeight | RefreshServers, getServer, serverUnavailable, call | answers that arrive after the table was replaced | only servers known to be high enough are asked |
| Scripts (`neo/smartcontract`, `neo/nep5`) | none | ReadScript, GetNep5RegInfo, ScriptBuilder | bounds while reading | what is built is read back |
| Rest (`core/util`, `core/config`, `core/log`, progress display, SQL schema) | none to speak of | | | not modelled, see section 6 |

## 2. Plan

In this order; all of these modules exist.

1. `ChainStore` (what readers of the block table may rely on), `BlockSync`
   (the pipeline, shown to implement it), `BlockSyncProofs`.
2. `ScTask` and `GasTask`: the two consumers whose counters and rows do not
   move together.
3. `UtxoTask` with the address cache and the retries of `transact`, and
   `Ledger`, which it implements; `AssetTxTask` and `Consumer`, the
   abstract exactly-once consumer. `TxTable` is what `ScTask` and `AssetTxTask`
   share, and `PagedTaskProofs` proves both.
4. `Nep5Task` (scan, application logs, resume point, address counter task),
   `Nep5TaskProofs`, and `Nep5Store` (balances, holders, cache, and the servers the
   balances are asked of), `Nep5StoreProofs`. They do not implement `Consumer`: a
   transaction takes several database transactions, and its restart point lies
   inside it.
5. `Ids`: the numbers of transactions, addresses and assets, given in memory by
   the parser, the asset cache and the NEP5 task, and by the tables; `IdsProofs`.
6. `AddrRows`: the UTXO and the NEP5 task composed on what they share, the table
   `address`, the address cache and the counter row, with row locks; `AddrRowsProofs`.

Left of the plan: what a migration does to the rows of its two assets (the
statements compare hexadecimal ids with an integer column, see section 6).

Of the proofs only the liveness properties are left, which are out of the prover's
reach (section 5): every invariant and every safety property that a
passing run checks is a theorem.

## 3. Modules

**ChainStore** has three variables: the network's height `tip`, the set `blocks`
of heights in the block table, and the counter `lastIndex`
(`last_block_index`). Its one database action appends the next run of blocks.

**BlockSync** has one action per atomic step of the goroutines.

* Fetch workers (`wpc`, `target`): `Start` is `worker.add()`. `LoadNext`,
  `StoreNext`, `ReturnNext` are `GetNextPending`, three steps because it
  increments under a lock that other readers share; the value returned may be
  the one stored or one read again. `CheckSize` is the size control, `Fetched`
  and `NotFetched` the two answers of `DownloadBlock`, `ShouldQuit`,
  `ChooseNext` and `FollowHighest` the choice of the next height.
* Arranger (`apc`, `height`, `delay`): `PopHit`, `PopMiss`, `Send` (blocks while
  the channel is full), `Poll` (the wait and the delay that leads to
  `getMissingBlock`), `GotMissing`, `StillMissing`. `delay` is counted in polls
  modulo the 40 s period: nothing else in the code depends on it but a log line.
* Storer (`spc`, `rawBlocks`): `Receive`, `Decide` (the flush test, a separate
  read of `GetHighest`), `InsertBlock` (one database transaction),
  `CheckBest`/`RaiseBest` (get and set of `BestHeight`).
* `ChainGrows`, `RefreshServers` (the best height may go back: servers lag or
  fail) and `Crash`. A failed `InsertBlock` panics: that is `Crash`.

A block is its height; the chain has no forks. Sleeps are not steps. A server's
answer may be taken to arrive at the moment it is used, because the chain never
shrinks.

**TxTable** is the table `tx` as the tasks see it that page through it by ascending id
(`FirstPage`: `ORDER BY id ASC LIMIT`), and the process that may die. `ScTask` and
`AssetTxTask` extend it.

**ScTask** is the contract task. A transaction is what the task tells apart: no
invocation, an invocation `fetchSCTx` drops, one that deploys nothing, one that deploys
a contract; the whole history is chosen in `Init` and `ScNewTx` reveals it. `FetchSC` is
`fetchSCTx` from its query to its send (a page of which nothing is left sleeps and asks
again: no step), `HandOver` the send on the unbuffered channel with `filterSC`,
`InsertSCInfos` the database transaction that commits rows and counter (`CounterAfter`),
`InsertFails` the error `handleScTx` ignores. The history variable `excused` names the
transactions a restart stepped over or a failed insert dropped.

**GasTask** is the GAS balance task. A balance is the bag of the transactions
added up in it, so that a change counted twice or lost can be seen. `Take` is
`handleTxGASBalance` with `getGASChange`; `ApplyUncached`, `ApplyNewDay` and
`ApplySameDay` are the three ways through the closure of `ApplyGASAssetChange`,
one database transaction each, over the addresses in any order (a Go map). The
date scanned back is a timestamp (the connection has `parseTime=True`) and never
equals the date it is compared with, so `ApplyUncached` always inserts.
`UPDATE ... LIMIT 1` picks any row of the day. The error of the INSERT of a new day is
dropped (`db/gas.go:61`, unlike the one at `:38-41`), so `ApplyNewDay` may commit the
counter without the row; `refused` is history, the addresses to which that, or a
read-only server, happened in this process. A repetition of the closure starts from
the cache that the first run has changed, and has one of two causes.
`LoseConnection` is a connection lost at the counter update, or at the INSERT of
`ApplyUncached`; the outer `Commit` fails then and the process restarts (`broken`). At
the other statements the driver's answer on the dead connection, `bad connection`, is
not in the list of `connErr`, so the process panics (`Crash`); at `Begin` nothing has
happened yet. `ReadOnly` is `Error 1290`, after which the process lives on (see below).
A transaction is taken with all of its changes (`TakeWhole`) or, when the connection is
lost while `fetchTx` reads its inputs and outputs, with some of them (`TakeCut`).

Two facts of `db.go` and `tx.go` concern all tasks. `connErr` (`db/db.go:103-118`) lists
`Error 1290`, the answer of a read-only server, among the errors of a lost connection.
`transact` then repeats the closure in a transaction of its own, as after a lost
connection; but its connection is alive, so the outer `Commit` succeeds and the process
goes on with what the first run left in its cache. Only the first writing statement of a
database transaction can be refused this way: a server does not become read-only while
a transaction that has written is open. And the loops over `rows.Next()` never look at
`rows.Err()`: a result whose connection is lost on the way ends early, without an error. A
page of transactions cut short is harmless, as it is read in ascending order of ids and
the next one begins behind it; the inputs and outputs of a page are lost.

**Ledger** is what a reader of the UTXO tables may rely on: transactions take
effect whole, in order, and an account owns the outputs paid to it and not
spent. It also generates the chain: any valid history.

**UtxoTask** implements it. A balance in `addr_asset` is the bag of outputs added and
subtracted. The task is one goroutine and a database transaction is atomic, so `Apply`
is the whole of `ApplyVinsVouts`, in three parts named after the functions they stand
for: `UpdateAddrInfo`, `HandleVinsVouts`, `UpdateTxInfo`. The cache is not undone by a
rollback: `LoseConnection(t, k)` is a first run that got as far as its k-th cache entry.
`transact` then repeats the closure and commits; the deferred commit of the outer call,
on the lost connection, fails, `handleTx` panics, and the process goes down (`up' =
~retried`). `Start` is the load of the cache in `Run`, which needs an address row for
each account. An UPDATE that matches no row is not an error; `missed` remembers its
account. When `GetVout` inside `handleVins` meets a lost connection, the repetition
waits for the row locks of the first transaction, which is still open, until the lock
timeout: that is `Crash`. `Refuse` is the first statement refused with `Error 1290`: in
a transaction without inputs that is the row of its first address, which the cache then
has; with inputs it is an UPDATE of `utxo`, and nothing came before. `Vins` and `Vouts`
are the inputs and outputs of a transaction that `fetchTx` read: `CutRead` loses any of
those of the transactions ahead (`lostVins`, `lostVouts`), as `GetVins` and `GetVouts`
(`db/tx.go:128-144`, `:161-182`) end at a lost connection without an error. A restart
reads again what was not applied.

**Consumer** promises that every transaction takes effect once, in order, and that the
counter names the last one. **AssetTxTask** implements it: `Fetch` and `SendTx` are
`fetchAssetTx`, `Receive` and `Timeout` the two cases of the select in `handleAssetTx`
with `RecordAddrAssetIDTx`. A page is a set, sent in ascending order of ids as the query
returns it. The timer may fire with something in the channel: a select picks any ready
case. `RecordAddrAssetIDTx` touches no memory, so a repetition of it changes nothing. A
connection lost while `GetVinVout` reads would drop pairs of a page here too, and
`addr_tx` would then lack them; lost connections are outside the scope of this module.

**Nep5Task** follows a transaction through the NEP5 task. What the task tells apart is
its kind, the contract it registers or calls (and whether the contract answers as an
asset, or the caller holds some of it) and the contracts of its notifications. A page,
and what is left of it, is a set taken in ascending order (`IsFirst`, `IsLast`).
`Fetch`, `SendApplog` and `SendTx` are `fetchNep5Tx`; `TakeApplog` and `StoreApplog` the
goroutines of `fetchAppLog` (a retry with a growing delay is no step). `Handle` is
`handleNep5Tx` taking a transaction: `HandleReg` for a registration or a migration,
`HandleCall` for the contract that is called. The notifications of a call follow one by
one, from the one behind `applogIdx` (`HandleTransfer`; `called` is the call in hand),
and `SendOp` sends what each step gave to store. `Store` is `handleNep5Store`, one
operation and one database transaction with the counter `(last_tx_pk_for_nep5,
app_log_idx)`. `InsertNep5AddrTxRec` is the address counter task. A transfer whose
balances cannot be queried (`tasks/nep5.go:627-630`: the contract answers FAULT at
`BestHeight`, or with nothing) is not queued, and the counter passes it:
`HandleTransfer` may drop any transfer, and the history `dropped` names those. Some
transactions panic at every attempt: what `dies` says of one is given by the database
and the contract, and not known to the model. At the store (`PanicStore`) these are an
admin with a balance (`db/nep5.go:142`), a caller whose balance changed (an UPDATE of
the column `address`, which `addr_asset` does not have, `:189`), and a transfer or a
migration with a statement that MySQL refuses; in `handleNep5Tx` (`PanicHandle`), a
caller or a party of a transfer that occurs in no output (`GetVoutAddrID`). All of them
restart the process, as a `Crash` does. The asset cache gives ids in the order hashes
are met (`asked`), keeps the set of known assets (`known`), and a restart loads only
table `nep5`: a contract may then get an id that another's rows carry. `meant` remembers
every hash with every id it had, and `IdsStable` says that this did not happen; the
properties about rows are stated under it. `cut` names the migrations a restart stepped
over.

**Nep5Store** looks at the balances of one asset. Every block has one transaction.
`HandleReg`, `HandleCaller` and `HandleTransfer` ask a server of at least `BestHeight`
(`Answers`) and queue the operation with its answer; `InsertNep5Asset`,
`UpdateCallerBalance`, `InsertNep5transaction` and `UpdateCounter` execute it. `Fails`
are the three ways an operation panics, `PanicQuery` the address without an output; the
process then starts again (`Start`) from the tables, and meets the same transaction. A
query may fail: `HandleCaller` then queues nothing, and `HandleTransfer` only the
counter (`dropped` names the transaction). That the asset itself answers when it is
registered is a simplification; `Nep5Task` has contracts that do not. An operation is
repeated after its k-th change of the cache (`Repeat`): with a lost connection
(`LoseConnection`) the process dies at the outer `Commit`; with `Error 1290` (`Refuse`)
it lives on. The first writing statement, and so the only one that can be refused, is
the first address row of a transfer, or the address or account row of a balance
(`RefusedAt`). The repetition then finds the address or account in the cache and skips
its INSERT, so the cache has a row that the table lacks. `refused` names these accounts,
until a transfer writes the row or the process starts anew. `StoreBlock`, `RaiseBest`
and `RefreshServers` are the rest of the process and the network: `BestHeight` follows
the stored blocks late and may go back. A transfer touches a set of addresses and takes
them in the order of `Place`, the sort of `InsertNep5transaction`. `lagged` is history:
balances asked for while `BestHeight` was behind the block.

**Ids** numbers transactions, addresses and assets. A step of the parser is one
row: `AppendTx` (with the rows that only take its id), `AppendTxVin`, `AppendTxVout`,
`AppendAsset`. `InsertBlock` commits the batch, and the tables `tx` and `asset` number
the rows themselves (`txAuto`, `assetAuto`); a rollback has consumed some of those
numbers (`Consumed`). `Nep5AssetId` is the NEP5 task taking an id from the same
counter. A transaction is its place in the chain, so that a reference that names
another transaction can be seen. `late` is history: the assets whose row will not
get the id the cache gives them.

**AddrRows** runs the database transactions of the UTXO and the NEP5 task against each
other: `Look` is the decision between INSERT and UPDATE in the cache, `Write` the
statement, which waits for the other's lock on the row (`todo` holds the addresses left;
`Least` is the sort: each task takes them in ascending order), `Count` the counter row,
`Commit` the end. Number `t` of the chain has block time `t`. `raced` is history: the
addresses that one task looked up between the other's `Look` and `Write`. The NEP5 task
creates address rows in a second way: before the transfers of a transaction it stores
the balance of the caller, in a database transaction of its own (`Asking`), and
`createAddrInfoIfNotExist` (`db/addr.go:95-108`, called at `db/nep5.go:170`) inserts the
address, if the cache does not know it (else `Exists`), with zero counts and the time of
that block. `openedAt` is history: the times of these rows. The same call at a
registration (`db/nep5.go:135`) leaves nothing: it is made for an admin with a balance,
and the next statement (`:142`) always panics, which undoes it: that is `Crash`. A
transaction that panics at every start is `Nep5Task`'s subject.

## 4. Runs

| Run | Instance | Shows |
|---|---|---|
| BlockSync | 2 workers, heights 0..2, buffer limit 1, channel 1, batches of 2, 1 crash | all safety properties of the pipeline, that it implements ChainStore, and that the buffer stays within its limit plus workers + 1 |
| BlockSync_live | 2 workers, heights 0..1, buffer limit 0, no crash | every block is stored in the end |
| ScTask | 4 transactions, pages of 2, 2 crashes, 1 failed insert | no deployment has two rows; only what a restart stepped over or a failed insert dropped is missing; the rest is recorded in the end, unless a full page of scripts is dropped |
| ScTask_resume | 3 transactions, 1 crash | violation: the counter names a transaction that was not processed, and a restart skips it |
| GasTask | 2 addresses, 3 transactions, 2 days, 2 crashes, 1 lost connection, 1 refused statement | no change counted twice but by a repetition; cache and table agree, and the daily rows are exact while the process runs, but for addresses with a refused row |
| GasTask_partial | 2 addresses, 2 transactions, 1 crash | violation: a crash between two addresses of a transaction loses the change of the second |
| UtxoTask | 2 addresses, 1 asset, 3 transactions of up to 2 outputs, 1 crash, 1 lost connection (of a transaction or of a read, which loses 1 row) or refused statement | until then the task implements Ledger and the numbers of transactions agree; after that utxo and addr_tx hold exactly what was read, rows and counters agree, and only balances with a missed row differ from what was read |
| AssetTxTask | 4 transactions of up to 2 pairs, pages of 2, channel of 1, batches of 3, 1 crash | implements Consumer; nothing lost or doubled on its way; every transaction is recorded in the end |
| Nep5Task | 3 transactions of 10 sorts, 2 contracts, 2 log fetchers, pages of 2, channels of 1, address pages of 1, queries that fail, 1 crash (and a panic each time the code panics) | no log lost or left over; transfers (but for dropped ones), registrations and migrations recorded once and in order; addr_tx follows nep5_tx; all is handled in the end, unless the process dies for ever |
| Nep5Store | 3 blocks, 2 addresses, balances 0..1, 4 sorts of transaction, queue of 1, queries that fail, 1 crash (and a panic each time the code panics), 1 lost connection or refused statement | rows and cache agree but for refused statements, and so do the counts of table nep5; a transfer that is not dropped counts once; the balance of an address is that of the tip from the transfer on that is its last transaction |
| Ids | 3 transactions with up to 2 inputs and 2 outputs, 2 addresses, 2 assets, 1 contract, 1 crash or lost connection | ids in memory are dense and unambiguous over restarts, and equal to the tables' numbers unless rows were rolled back or the asset was late |
| AddrRows | 2 addresses, 2 transactions, every assignment to the two tasks and to balance queries with up to 4 uses of an address, 1 crash | no deadlock; no row inserted twice; cnt_addr exact; rows exact unless the tasks raced; both tasks finish unless an account has no address row |

Two workers are enough for every race between fetchers (each race in the code is
between two parties) and for the quit decision; three heights give a gap with a
block above it and one batch that ends at a multiple of the batch size and one
that ends at the highest block. Buffer limits of 0 and 1 make the size control
block, a channel of one slot makes the send block. Two workers are
interchangeable, so the safety runs use symmetry; the liveness run does not.

`ScTask`, `GasTask` and `AssetTxTask` start from every history of transactions of their
size, `UtxoTask` meets every valid chain of its size; these runs do not check deadlock,
because the history is finite and the tasks stop at its end. Pages of two among four
transactions give full and partial pages, and pages with gaps in their ids; two crashes
let a restart meet the effects of an earlier one. Three transactions on two days give a
day with two changes and a change of day, in any combination of addresses. In `UtxoTask`
two transactions are enough for an account that is created, spent from and paid again
within one transaction; the third lets a restart meet an account that an earlier retry
left without a row, and spend from it. `MaxCut` 1 loses any one row of a read, which is
an input without its output or the reverse; which row it is does not matter to the
others. Batches of three with one or two pairs per transaction end exactly at a
transaction or beyond it.

Three transactions let the NEP5 task register, be interrupted and transfer; the ten
sorts are those its branches tell apart and three that panic (at the store, for the
caller, for a party of a transfer; the other panics of the store are the same step), a
log of two notifications lets a restart fall between them, and pages of two hold a whole
page of dropped scripts with something behind it. Channels of one make every send block.
In `Nep5Store` three blocks are a registration, a transfer and a later one whose balance
may be asked for at once; the four sorts are an admin with or without balance, an issue,
a transfer in descending order of addresses (so that the sort matters) and a call
without a transfer. In `Ids` the third transaction can spend one of an earlier batch and
one of its own batch. In `AddrRows` two addresses in two transactions give every order
of two locks; four uses let both tasks have both addresses once, or a balance query come
before, between and behind them. None of the four checks deadlock: histories end.

Two consequences of a repeated database transaction are in the properties that hold
rather than in runs of their own: `NeverTwice` of `GasTask` allows a change to be
counted once more per lost connection or refused statement, because the repetition adds
it to the cached balance again (`db/gas.go:54-55`), and `BalanceUnlessMissed` of
`UtxoTask` exempts the accounts whose UPDATE found no row, because the repetition takes
an account for present that was never inserted (`db/tx.go:223-239`).

A read cut short and a refused row are not found by any task, and the properties are
exact about what is left. `NeverTwice` is an upper bound for that reason as well.
`DailyHistory` covers runs without crash and lost connection, and it and `CacheIsStored`
exempt the addresses of `refused`, no others: a dropped INSERT does not reach another
address's rows. `TablesExact` and `BalanceUnlessMissed` say that the tables are those of
the inputs and outputs that were read (`Vins`, `Vouts`), so that a lost one is missing
and nothing else is wrong on account of it.

Each module has one type invariant. In `BlockSync` it is a property of its own, in the
others it is the first conjunct of the property that relates the most state
(`AtMostOnce`, `CacheIsStored`, `CacheCoversRows`, `InFlightExact`, `LogsInFlight`,
`CacheIsRows`, `IdsDense`, `InsertedOnce`).

Properties of the NEP5, id and address modules have conditions the code does not ensure.
Each one names a behaviour that the run reaches:

* `TransfersExact` and `TransfersOnce` exempt `dropped`: a transfer is lost when the
  query of its balances fails, as `recordNep5Transfer` returns and the counter goes on
  (`tasks/nep5.go:627-630`, `:936-938`). A balance that such a transfer would have
  stored stays as it was until the next transfer of its address.
* `TransfersExact`, `AssetsExact` and `MigrationsExact` hold under `IdsStable`. Ids of
  contracts are kept in memory only (`core/cache/asset.go:13-39`): after a restart
  they are given again in the order in which hashes are met, and rows of `nep5_tx`
  and `addr_asset` written before then name another asset.
* `MigrationsExact` exempts `cut`: the row of a new asset sets the counter to done
  before the migration of the same transaction is stored (`db/nep5.go:155`).
* `EventuallyHandled` exempts what lies behind a `DeadPage`: `fetchNep5Tx`, like
  `fetchSCTx`, never advances past a full page of dropped scripts. It exempts everything
  from a transaction on whose operation panics at every start (`FailsForEver`); and
  everything there is when `handleNep5Tx` panics at every start (`PanicsForEver`),
  because it may be ahead of `handleNep5Store`, and takes the operations of earlier
  transactions with it each time.
* `CacheIsRows` exempts an operation that is being repeated, and the accounts of
  `refused`: after `Error 1290` the process goes on with a cache that has more than the
  table.
* The last part of `HoldersCounted` and the second half of `TransfersOnce` hold until a
  connection is lost: the repetition compares with a cache that already has the new
  balance (`db/nep5.go:273-283`), and updates an address row that is not there.
* `BalancesCurrent` exempts `lagged`: `queryBalances` asks at `BestHeight`
  (`tasks/nep5.go:932`), which may be behind the block of the transaction, and not
  at `getMinHeight` of it, as `queryNep5AssetInfo` does. And a caller is
  followed only by `transfer` notifications: one whose balance became zero is
  dropped (`tasks/nep5.go:526`).
* `TxIdsMatch` holds while no rows of `tx` were rolled back. In `AssetIdsExact`, ids are
  distinct while no rows of `asset` were rolled back, and equal to the table's for
  assets that are not `late`. An auto_increment
  is not rolled back, so a lost connection during `InsertBlock` shifts `tx.id` against
  the `tx_id` of every later row.
* `RowsExact` exempts `raced`: an UPDATE may reach the table before the INSERT the cache
  promises, and then changes nothing; if the process dies before the INSERT commits, the
  account has no address row and `GetAddrAssetInfo` panics at every start
  (`db/addr.go:66-90`, `:38`). The times of a row include `openedAt`: that of the
  balance it was created for need not be the time of a transaction it counts.
* `EventuallyApplied` exempts `Orphans`, the accounts without an address row. They come
  from such an UPDATE, or from a balance: `createAddrInfoIfNotExist` finds in the cache
  an address that the other task is about to insert, the account is committed without
  waiting for it, and a crash undoes the INSERT. No start can load the cache then.

Three more behaviours are in the models without a run of their own. A block fetched
twice is put again after the arranger took it and stays in the buffer, where it
takes up room until the process ends, and once the buffer is full of such blocks
only `getMissingBlock` moves the chain on (`CatchUp` covers it). The date that
`ApplyGASAssetChange` reads back never equals the one it compares it with, so a
restart gives an address a second row for the same day (`GasTask`). And after a
repeated UTXO transaction an account may have a row while its address has none,
and no start can load the cache (`Loadable` of `UtxoTask`).

Fairness: goroutines are scheduled (weak fairness of each), and a server that
holds a block and is asked for it again and again answers in the end (strong
fairness of `Fetched` and `GotMissing`). Nothing is assumed of a single
answer, of `RefreshServers`, or of crashes. `ScTask` and `AssetTxTask` assume
weak fairness of their two goroutines, and the latter of its timer. `Nep5Task`
assumes weak fairness of its goroutines: a server that keeps failing to give an
application log would break it, as it would stop the program. It
assumes nothing of the queries for balances. `AddrRows` assumes
that both tasks are scheduled and that somebody starts a process that died; blocked
tasks are not assumed to move, so a deadlock would be found. The liveness
of `ScTask` has a condition the code does not ensure,
`NoDeadPage`: when all scripts of a full page are dropped, `fetchSCTx` asks for
the same page for ever (`smart_contract.go:64-67` does not advance `nextTxPK`).

## 5. Proofs

Eight modules hold proofs; together they cover every component that is modelled. A
theorem holds for all values of the constants that the one or two named assumptions of
its module allow: any number of transactions, addresses, workers, crashes, lost
connections and refused statements, any size of pages, batches, channels and buffers.
Nothing else is assumed. In each module a lemma per action shows that the step keeps the
inductive invariant `IInv`; every conjunct of it was first checked by TLC on the
instance of section 4.

| Module | Theorems |
|---|---|
| BlockSyncProofs | `TypeCorrect`, `StoredInOrder`, `GapsNoticed`, `TailsFlushed`, `BestHeightReal`, `OneWorkerSurvives`, `BufferIsBounded`, `Refinement` (of `ChainStore`) |
| PagedTaskProofs | of `ScTask`: `RecordedAtMostOnce`, `NoneMissed`; of `AssetTxTask`: `InFlightIsExact`, `TaskIsConsumer` (refinement of `Consumer`) |
| GasTaskProofs | `NothingTwice`, `CacheInTable`, `RowsAreDailyHistory` |
| UtxoTaskProofs | `TablesAreExact`, `CacheIsComplete`, `CountsAreExact`, `OnlyMissedHarmed`, `TaskIsLedger` (refinement of `Ledger`) |
| Nep5TaskProofs | `NoLogLost`, `TransfersRecorded`, `AssetsRecorded`, `MigrationsExecuted`, `AddrTxRecorded` |
| Nep5StoreProofs | `CacheHoldsRows`, `CountsAreExact`, `EachTransferOnce`, `StoredBalancesAreCurrent` |
| IdsProofs | `TxIdsAgree`, `IdsAreDense`, `AssetIdsAgree` |
| AddrRowsProofs | `NeverDeadlocked`, `NoSecondInsert`, `RowsAreExact` |

**BlockSync.** `InOrder` alone is not inductive: committing
a batch needs to know that the batch is not empty (`BatchShape`) and that its
last block exists (`OnlyReal`); `TailFlushed` needs that `maxHeight` bounds
everything fetched (`BelowHighest`); the type of the buffer needs that no worker
holds a negative height when it downloads (`TargetsReal`).
Several workers may pass the size control with the same room before any of them puts its
block, so `BufferBounded` counts the blocks in the buffer together with the workers
that have passed (`Passed`) and allows for the arranger on its way back from
`getMissingBlock` (`Slack`). In this form it is inductive together with `IInv`: the
steps that change one of the three keep the sum within the limit.

**ScTask.** That a deployment has one row at most needs the order in which ids pass
(`InOrder`): recorded ones are below the counter's next, those in hand are not, and the
batch comes before the page. Nothing is missed because the scan may run ahead of
table `tx` only by an id that a restart stepped over (`AheadByExcused`): it is the counter
read back as the next id, when the transaction it names was not there yet.

**GasTask.** A balance may hold a transaction once more per repetition, in the
rows (`RowsLimited`) as well as in the cache, where the one at hand may be counted
before any row has it (`CacheLimited`). The cached balance is in some row of its day
(`CacheIsStored`) but need not be in the last one: after a restart an address has two
rows of a day, and the UPDATE takes any. Only while there was neither a crash nor a lost
connection, and no row of the address was refused, does the cache
have the newest row (`CacheIsNewest`), and then the rows are the daily history. The
addresses are apart from one another: a refused row changes nothing that the invariant
says of another address.

**UtxoTask.** The tables are a function of the transactions applied, as they were read:
`Tables` is `TablesExact` with the transaction named that spends each output, so that
two transactions of a valid chain (`Chain`) cannot be confused. `Cached` compares the
cache with the rows: it never knows less, and no more until a connection is lost; this
is what makes an INSERT or UPDATE the right one. `Bounded` keeps the sums in the type.
Every step of the task then maps to the step of `Ledger` that applies the next
transaction, or to none, until a connection is lost.

**AssetTxTask.** Pair by pair, `Written` says what the table and the records gathered for
the next write hold, and `OnItsWay` what is behind them in the channel and in the page,
in order and with nothing left out. A write by size may come in the middle of a page and
a write by timeout with something in the channel; both move the counter to the last
transaction gathered, so the step is the step of `Consumer`.

**Nep5Task.** The five properties compare the tables with the counter, and say nothing of
what is between the scan and the store. `IInv` follows a transaction all the way.

* Logs: what `fetchNep5Tx` waits for is in the page, in the channel, with a fetcher or
  in the map, each in one place (`LogPlaces`). As the fetchers are asynchronous, this is
  what makes `appLogs` empty once nothing is waited for.
* Order: `Taken` are the transactions that `handleNep5Tx` has received. They come in
  ascending order and none is left out (`ScanOrder`). The operations they gave, in the
  channel and not yet sent, are one `Queue` in the order of transaction and notification
  (`QueueOrder`), and every one of them is behind the counter (`Behind`) or completes the
  transaction whose registration has set the counter already. `CallInHand` and
  `CounterPlace` relate `called`, `applogIdx` and the counter; its case `Resuming` is a
  restart inside a transaction, where `applogIdx` comes from the counter and the first
  transaction taken must be the counter's. This is what keeps a restart from repeating a
  notification, or from applying the index of one transaction to another.
* Effects, as long as ids are stable: a transfer of a registered asset is stored if it
  is done and was not dropped, and otherwise queued, still to come in the call in hand,
  or not yet taken (`TransfersOnTheWay`); the same of registrations and migrations. What
  was dropped is behind the notification in hand and neither stored nor queued
  (`DroppedApart`). A crash or a panic forgets the queue, and the invariant holds again
  because `Taken` goes back to the counter with it, and `dropped` to what the counter
  has passed. The migration that a restart steps over (`cut`) is the one whose
  transaction is the counter's.
* Ids: the rows hold ids, the chain holds hashes, and the ids start again at each restart.
  `KnownExact` says that an id is known if and only if one of the hashes it was given to
  was registered by what was taken. The step that needs `IdsStable` is a name given for the
  first time (`NamesExact`): if the id were one that the task knows, it would be
  another hash's too, and ids would not be stable.

**Nep5Store.** Operations are queued in the order of their transaction and, within it,
balance, transfer, counter (`QueueOK`), and every transfer that was not dropped, or
first registration, between the counter and `handleNep5Tx` is in the queue, and what was
dropped lies behind `handleNep5Tx` (`Progress`). With this a restart in the middle of a
transaction (`Resumable`) neither repeats nor drops a transfer. That the registration
that gets the row is the first one uses the library's theorem on well-founded sets. For
the balances, an answer is that of a height at or above the block of the operation,
unless `BestHeight` lagged, and later blocks do not change an address that they do not
name (`Steady`); what is stored by an address's last transfer is then the balance at the
tip (`Fresh`), whatever older operation is still queued.

**Ids.** `TxIdsMatch` says nothing of what is parsed and not yet inserted. The invariant
adds that the keys are the places, in the table and behind it in memory (`Placed`), that
`lastTxPkId` is the number of both, and that inputs spend earlier transactions
(`Numbered`). A second invariant, `IdInv`, is inductive together with it. Its first part
numbers the addresses of the table and of the batch together (`AddrsNumbered`), because
a batch that is never committed takes its new ids with it and the start counts again.
The other parts relate cache, rows and parsed registrations of assets: a registered
asset that is not late has in the cache the number that its row has or will have, which
is the table's counter plus its place among the registering transactions of the batch
(`CacheKnows`, `CacheDistinct`).

**AddrRows.** The UTXO and the NEP5 task never wait for each other, whatever addresses
their transactions have: the rows a task has locked come before those it still has to
lock (`LockedInOrder`) and the counter row is the last (`CounterLast`). If both tasks
waited, each would want a row above the one it holds and below the one it wants. On top
of that, `RowInv` follows an address through `Look`, `Write` and `Commit`: what the
cache knows is there or on its way (`Known`), and what a task is about to insert is
neither there nor on the way of the other (`Absent`). `Exact` and `Spans` give the
counts and the times of a row with what is written and not committed, and with the time
of the balance it was created for, for the addresses about which the tasks did not race.

Checked by TLC only:

* Liveness (`CatchUp`, `ContractsRecorded`, `EventuallyRecorded`, `EventuallyHandled`,
  `EventuallyApplied`): the prover has no rules for fairness and `ENABLED` here.
* The two violations, of course: they are counterexamples.

## 6. Not modelled

* Encodings, hashes, JSON formats, configuration, logging and the progress display
  keep no state the database depends on. The script reader and builder are pure
  functions of byte strings: the tasks' models take what a script says as given.
* UTXO task: `asset.available`, `asset.transactions` and the block times in
  `addr_asset` are sums and maxima over the transactions that commit with the rest.
* NEP5 task: the total supply and its cache; what `HandleNEP5Migrate` does to the rows
  of the two assets. It compares asset ids of 40 hexadecimal digits with the integer
  column `asset_id`, and what comes of that depends on MySQL and its SQL mode;
  `Nep5Task` lets the statement succeed or fail for ever.
* Block insertion: the counters per transaction type, which commit with the batch.
* RPC: the table of servers. `serverUnavailable` may mark an entry of a table that
  was replaced meanwhile; the effect is another choice among the servers that
  `BlockSync` and `Nep5Store` let answer.
* MySQL: gap locks; and the lost connections and refused statements that `GasTask`,
  `UtxoTask` and `Nep5Store` model are not combined with the two tasks of `AddrRows`,
  nor with the pages of `ScTask` and `AssetTxTask`.
* Concurrent access to Go maps without a lock (`tick`, `GetAssetID`), which the runtime
  turns into a crash of the process: a crash is possible anywhere in the models.
