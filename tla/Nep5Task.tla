------------------------------- MODULE Nep5Task -------------------------------
(***************************************************************************)
(* The NEP5 task (neo/tasks/nep5.go) and the address counter task that     *)
(* reads what it writes (neo/tasks/counter.go).                            *)
(*                                                                         *)
(* fetchNep5Tx pages through the invocations and has their application     *)
(* logs fetched by several goroutines; handleNep5Tx turns a transaction    *)
(* and its log into store operations; handleNep5Store executes them, each  *)
(* in a database transaction of its own, so that one transaction of the    *)
(* chain takes several of them.  The counter (last_tx_pk_for_nep5,         *)
(* app_log_idx) says how far it got.                                       *)
(*                                                                         *)
(* What an operation does to balances is in Nep5Store; here a row names    *)
(* the transaction, the notification and the asset id it was stored under. *)
(***************************************************************************)
EXTENDS Integers, Sequences, FiniteSets, SequencesExt

CONSTANTS Hashes,       \* script hashes of contracts
          NoHash,
          Txs,          \* the transactions the network may produce
          Fetchers,     \* goroutines of fetchAppLog (4)
          MaxTx,        \* bound on transaction ids
          PageSize,     \* limit of GetInvocationTxs (1000)
          ChanSize,     \* nep5ChanSize (5000)
          RecPage,      \* limit of GetNep5TxRecords (1000)
          MaxCrashes    \* bound on crashes

\* What the task tells transactions apart by: no invocation; a script that
\* fetchNep5Tx drops; one without data (or a migration that names no old
\* contract and registers none: both only set the counter); a registration;
\* one by Contract.Create whose script contains the migration keyword too; a
\* migration, and one whose script looks like a registration; any other call.
\* "hash" is the contract registered (ok: it answers as a NEP5 asset) or called
\* (ok: the caller holds some of it), "log" the contracts of the notifications
\* of a call, all of which are well-formed transfers.  "dies" says where the
\* process panics whenever it gets there: at an operation (an admin with a
\* balance, an UPDATE of a column that is not there, a statement MySQL refuses)
\* or when handleNep5Tx asks for the balance of its caller or of the parties of
\* a transfer and GetVoutAddrID finds no output of the address.
Panics == {"asset", "balance", "transfer", "migrate", "caller", "parties"}
Kinds == {"none", "short", "empty", "reg", "create", "migrate", "regmigrate",
          "call"}
NoTx == [kind |-> "none", hash |-> NoHash, ok |-> FALSE, log |-> <<>>,
         dies |-> {}]

ASSUME Nep5Bounds ==
  /\ \A x \in Txs :
       /\ x.kind \in Kinds /\ x.ok \in BOOLEAN /\ x.dies \subseteq Panics
       /\ x.kind \in {"reg", "create", "migrate", "regmigrate"} => x.hash \in Hashes
       /\ x.kind = "call" => x.hash \in Hashes \cup {NoHash}
       /\ x.log \in Seq(Hashes) /\ (x.kind # "call" => x.log = <<>>)
  /\ NoHash \notin Hashes /\ IsFiniteSet(Hashes)
  /\ MaxTx \in Nat /\ PageSize \in Nat \ {0} /\ ChanSize \in Nat \ {0}
  /\ RecPage \in Nat \ {0} /\ MaxCrashes \in Nat /\ Fetchers # {}

Ids == 1..MaxTx

VARIABLES
  chain,          \* table tx: the transactions stored so far
  nextTxPK, page, \* fetchNep5Tx: start of its next query, what is not yet sent
  waiting,        \* ... and what it awaits the log of: sets, taken in ascending order
  applogChan, hand, appLogs,  \* logs to fetch, being fetched, fetched
  nep5TxChan,     \* transactions with their logs
  called,         \* handleNep5Tx: the call whose notifications it goes through, or 0
  applogIdx,      \* ... the last of them done, at a start of the first transaction
  asked,          \* AssetMap: the hashes in the order their ids were given
  known,          \* keys of nep5AssetDecimals
  todo,           \* operations not yet sent
  storeChan,      \* nep5StoreChan
  nep5,           \* table nep5: how many rows each asset id has
  nep5Tx,         \* table nep5_tx, in the order of its auto_increment id
  migrations,     \* table nep5_migrate: the transactions
  counter,        \* counter.last_tx_pk_for_nep5, counter.app_log_idx
  addrTx,         \* addr_tx of NEP5: rows of a transaction, for one address
  addrTxPk,       \* counter.nep5_tx_pk_for_addr_tx
  meant,          \* history: every hash with every id it was given
  cut,            \* history: migrations a restart stepped over
  dropped,        \* history: transfers not queued, since the query of their
                  \* balances failed; those the task looks at again left out
  crashes

fetchVars  == <<nextTxPK, page, waiting>>
logVars    == <<applogChan, hand, appLogs>>
handleVars == <<called, applogIdx, asked, known, todo>>
dbVars     == <<nep5, nep5Tx, migrations, counter>>
addrVars   == <<addrTx, addrTxPk>>
vars == <<chain, fetchVars, logVars, nep5TxChan, handleVars, storeChan, dbVars,
          addrVars, meant, cut, dropped, crashes>>

-----------------------------------------------------------------------------
(* Slips the code might have made, for the sensitivity of the properties. *)

SomeLog(t) == appLogs # {}               \* LogReady: whatever came first
OneTooFar == applogIdx + 2               \* NextNotif: skips one
NoneLoaded == {}                         \* LoadedAssets: an empty map
PlainMigrate(t) == chain[t].kind = "migrate"   \* Migrates: not the other kind
AnotherRow(t, n) == addrTx[t] + n        \* RowsOf: no ON DUPLICATE KEY
LaterThan(from) == {t \in (from + 1)..Len(chain) : chain[t].kind # "none"}
                                         \* Invocations: > instead of >=

-----------------------------------------------------------------------------
txMax == Len(chain)
HasRoom(ch) == Len(ch) < ChanSize

\* GetInvocationTxs, and its page without what cannot be an app call.
Invocations(from) == {t \in from..txMax : chain[t].kind # "none"}
GetInvocationTxs(from) ==
  {t \in Invocations(from) :
     Cardinality(Invocations(from) \cap from..t) <= PageSize}
Kept(from) == {t \in GetInvocationTxs(from) : chain[t].kind # "short"}

\* The place of a page that is next, and its end.
IsFirst(t, S) == t \in S /\ \A s \in S : t <= s
IsLast(t, S) == t \in S /\ \A s \in S : s <= t

\* An app_log_idx of -1 says that the transaction of the counter is done.
ResumeAt(c) == IF c[2] = -1 THEN c[1] + 1 ELSE c[1]

LogReady(t) == t \in appLogs

\* GetAssetId gives the next id to a hash it meets for the first time.
GetAssetId(names, h) == IF h \in ToSet(names) THEN names ELSE Append(names, h)
IdOf(names, h) == CHOOSE i \in DOMAIN names : names[i] = h
Names(names) == {<<names[i], i>> : i \in DOMAIN names}

\* What a start finds in table nep5.
LoadedAssets == {i \in DOMAIN nep5 : nep5[i] > 0}

\* A hash without a NEP5 asset makes handleNep5RegTx fail; one that is known
\* is not asked about again.
IsAsset(t, id) == chain[t].ok \/ id \in known
Migrates(t) == chain[t].kind \in {"migrate", "regmigrate"}

\* The counter has passed a notification.
Done(t, i) == \/ t < counter[1]
              \/ t = counter[1] /\ (counter[2] = -1 \/ i <= counter[2])

\* The notification handleNep5TxCall looks at next; they are counted from 0.
NextNotif == applogIdx + 1

Op(o, t, i, id) == [op |-> o, tx |-> t, idx |-> i, id |-> id]
SetCounter(t) == <<Op("counter", t, -1, 0)>>

\* INSERT ... ON DUPLICATE KEY UPDATE: n more rows for one key.
RowsOf(t, n) == IF addrTx[t] + n > 0 THEN 1 ELSE 0
-----------------------------------------------------------------------------
Init ==
  /\ chain = <<>>
  /\ nextTxPK = 1 /\ page = {} /\ waiting = {}
  /\ applogChan = <<>> /\ hand = [f \in Fetchers |-> 0] /\ appLogs = {}
  /\ nep5TxChan = <<>>
  /\ called = 0 /\ applogIdx = -1 /\ asked = <<>> /\ known = {} /\ todo = <<>>
  /\ storeChan = <<>>
  /\ nep5 = [i \in 1..Cardinality(Hashes) |-> 0]
  /\ nep5Tx = <<>> /\ migrations = {} /\ counter = <<0, -1>>
  /\ addrTx = [t \in Ids |-> 0] /\ addrTxPk = 0
  /\ meant = {} /\ cut = {} /\ dropped = {} /\ crashes = 0

\* fetchNep5Tx: the query.  A page of which nothing is left sleeps and asks
\* for the same page again.
Fetch ==
  /\ page = {} /\ waiting = {} /\ Kept(nextTxPK) # {}
  /\ page' = Kept(nextTxPK) /\ waiting' = page'
  /\ \E last \in page' : IsLast(last, page') /\ nextTxPK' = last + 1
  /\ UNCHANGED <<chain, logVars, nep5TxChan, handleVars, storeChan, dbVars,
                 addrVars, meant, cut, dropped, crashes>>

\* ... the whole page is sent to the log fetchers first,
SendApplog ==
  /\ HasRoom(applogChan)
  /\ \E t \in page : /\ IsFirst(t, page)
                     /\ applogChan' = Append(applogChan, t)
                     /\ page' = page \ {t}
  /\ UNCHANGED <<chain, nextTxPK, waiting, hand, appLogs, nep5TxChan, handleVars,
                 storeChan, dbVars, addrVars, meant, cut, dropped, crashes>>

\* ... then each transaction is sent on, in order, once its log is there.
SendTx ==
  /\ page = {} /\ HasRoom(nep5TxChan)
  /\ \E t \in waiting : /\ IsFirst(t, waiting) /\ LogReady(t)
                        /\ appLogs' = appLogs \ {t}
                        /\ nep5TxChan' = Append(nep5TxChan, t)
                        /\ waiting' = waiting \ {t}
  /\ UNCHANGED <<chain, nextTxPK, page, applogChan, hand, handleVars, storeChan,
                 dbVars, addrVars, meant, cut, dropped, crashes>>

\* fetchAppLog, goroutine f: it asks servers until one answers.
TakeApplog(f) ==
  /\ hand[f] = 0 /\ applogChan # <<>>
  /\ hand' = [hand EXCEPT ![f] = Head(applogChan)]
  /\ applogChan' = Tail(applogChan)
  /\ UNCHANGED <<chain, fetchVars, appLogs, nep5TxChan, handleVars, storeChan,
                 dbVars, addrVars, meant, cut, dropped, crashes>>

StoreApplog(f) ==
  /\ hand[f] # 0
  /\ appLogs' = appLogs \cup {hand[f]}
  /\ hand' = [hand EXCEPT ![f] = 0]
  /\ UNCHANGED <<chain, fetchVars, applogChan, nep5TxChan, handleVars, storeChan,
                 dbVars, addrVars, meant, cut, dropped, crashes>>

\* handleNep5RegTx and handleMigrate.  When it both registers and migrates, the
\* second handleNep5RegTx finds the asset known.
HandleReg(t) ==
  LET id  == IdOf(asked', chain[t].hash)
      new == chain[t].ok /\ id \notin known
      migrate == IF IsAsset(t, id) THEN <<Op("migrate", t, -1, id)>>
                                   ELSE SetCounter(t)
  IN  /\ asked' = GetAssetId(asked, chain[t].hash)
      /\ known' = IF new THEN known \cup {id} ELSE known
      /\ todo' = (IF new THEN <<Op("asset", t, -1, id)>> ELSE <<>>)
                 \o (IF Migrates(t) THEN migrate
                     ELSE IF chain[t].kind = "create" THEN SetCounter(t) ELSE <<>>)
      /\ UNCHANGED <<called, applogIdx>>

\* handleNep5NonTxCall for the contract called.
HandleCall(t) ==
  LET h == chain[t].hash
      id == IdOf(asked', h)
  IN  /\ asked' = IF h = NoHash THEN asked ELSE GetAssetId(asked, h)
      /\ todo' = IF h # NoHash /\ chain[t].ok /\ id \in known
                 THEN <<Op("balance", t, -1, id)>> ELSE <<>>
      /\ called' = t
      /\ UNCHANGED <<applogIdx, known>>

\* GetVoutAddrID fails for the caller of the next transaction, or for a party
\* of the next notification, after the contract was given its id.
NextHash == IF called = 0 THEN chain[Head(nep5TxChan)].hash
                          ELSE chain[called].log[NextNotif + 1]
CallerDies ==
  /\ called = 0 /\ todo = <<>> /\ nep5TxChan # <<>>
  /\ LET x == chain[Head(nep5TxChan)]
     IN  x.kind = "call" /\ x.hash # NoHash /\ "caller" \in x.dies
PartiesDie ==
  /\ called # 0 /\ todo = <<>> /\ NextNotif < Len(chain[called].log)
  /\ "parties" \in chain[called].dies
  /\ IdOf(GetAssetId(asked, NextHash), NextHash) \in known

\* handleNep5Tx takes the next transaction.
Handle ==
  /\ called = 0 /\ todo = <<>> /\ nep5TxChan # <<>> /\ ~CallerDies
  /\ nep5TxChan' = Tail(nep5TxChan)
  /\ LET t == Head(nep5TxChan)
     IN  IF chain[t].kind = "empty"
         THEN todo' = SetCounter(t) /\ UNCHANGED <<called, applogIdx, asked, known>>
         ELSE IF applogIdx = -1 /\ chain[t].kind # "call"
              THEN HandleReg(t) ELSE HandleCall(t)
  /\ meant' = meant \cup Names(asked')
  /\ UNCHANGED <<chain, fetchVars, logVars, storeChan, dbVars, addrVars, cut,
                 dropped, crashes>>

\* handleNep5TxCall: the next notification of the call, or the counter behind
\* the last one.  A transfer whose balances cannot be queried is not queued.
HandleTransfer ==
  /\ called # 0 /\ todo = <<>> /\ ~PartiesDie
  /\ LET log == chain[called].log
         h   == log[NextNotif + 1]
         id  == IdOf(asked', h)
     IN  IF NextNotif < Len(log)
         THEN /\ asked' = GetAssetId(asked, h)
              /\ \/ /\ todo' = IF id \in known
                               THEN <<Op("transfer", called, NextNotif, id)>> ELSE <<>>
                    /\ UNCHANGED dropped
                 \/ /\ id \in known
                    /\ todo' = <<>> /\ dropped' = dropped \cup {<<called, NextNotif>>}
              /\ applogIdx' = NextNotif /\ UNCHANGED called
         ELSE /\ todo' = SetCounter(called) /\ applogIdx' = -1 /\ called' = 0
              /\ UNCHANGED <<asked, dropped>>
  /\ meant' = meant \cup Names(asked')
  /\ UNCHANGED <<chain, fetchVars, logVars, nep5TxChan, known, storeChan, dbVars,
                 addrVars, cut, crashes>>

SendOp ==
  /\ todo # <<>> /\ HasRoom(storeChan)
  /\ storeChan' = Append(storeChan, Head(todo)) /\ todo' = Tail(todo)
  /\ UNCHANGED <<chain, fetchVars, logVars, nep5TxChan, called, applogIdx, asked,
                 known, dbVars, addrVars, meant, cut, dropped, crashes>>

\* handleNep5Store: one operation, one database transaction, which sets the
\* counter too, but for the balance of a caller.
StoreDies == storeChan # <<>> /\ Head(storeChan).op \in chain[Head(storeChan).tx].dies
Store ==
  /\ storeChan # <<>> /\ ~StoreDies
  /\ storeChan' = Tail(storeChan)
  /\ LET s == Head(storeChan)
     IN  /\ nep5' = IF s.op = "asset" THEN [nep5 EXCEPT ![s.id] = @ + 1] ELSE nep5
         /\ nep5Tx' = IF s.op = "transfer"
                      THEN Append(nep5Tx, [tx |-> s.tx, idx |-> s.idx, id |-> s.id])
                      ELSE nep5Tx
         /\ migrations' = IF s.op = "migrate" THEN migrations \cup {s.tx}
                                              ELSE migrations
         /\ counter' = IF s.op = "balance" THEN counter ELSE <<s.tx, s.idx>>
  /\ UNCHANGED <<chain, fetchVars, logVars, nep5TxChan, handleVars, addrVars,
                 meant, cut, dropped, crashes>>

\* insertNep5AddrTxRecord: a page of nep5_tx and the counter together.  The rows
\* it reads do not change, so reading and writing are one step.
InsertNep5AddrTxRec ==
  LET new == {n \in DOMAIN nep5Tx : n > addrTxPk /\ n <= addrTxPk + RecPage}
  IN  /\ new # {}
      /\ addrTx' = [t \in Ids |->
                      RowsOf(t, Cardinality({n \in new : nep5Tx[n].tx = t}))]
      /\ \E last \in new : IsLast(last, new) /\ addrTxPk' = last
      /\ UNCHANGED <<chain, fetchVars, logVars, nep5TxChan, handleVars, storeChan,
                     dbVars, meant, cut, dropped, crashes>>

\* InsertBlock commits one transaction more.
NewTx ==
  /\ txMax < MaxTx
  /\ \E x \in Txs : chain' = Append(chain, x)
  /\ UNCHANGED <<fetchVars, logVars, nep5TxChan, handleVars, storeChan, dbVars,
                 addrVars, meant, cut, dropped, crashes>>

\* The process dies and starts again from the counter and table nep5; AssetMap
\* is loaded without any script hash.
Pending(op) == {s.tx : s \in {x \in ToSet(storeChan \o todo) : x.op = op}}
Restart ==
  /\ nextTxPK' = ResumeAt(counter) /\ page' = {} /\ waiting' = {}
  /\ applogChan' = <<>> /\ hand' = [f \in Fetchers |-> 0] /\ appLogs' = {}
  /\ nep5TxChan' = <<>>
  /\ called' = 0 /\ applogIdx' = counter[2] /\ asked' = <<>> /\ known' = LoadedAssets
  /\ todo' = <<>> /\ storeChan' = <<>>
  /\ cut' = cut \cup (Pending("migrate") \ nextTxPK'..MaxTx)
  /\ dropped' = {u \in dropped : Done(u[1], u[2])}
  /\ UNCHANGED <<chain, dbVars, addrVars>>

\* An operation fails, handleNep5Tx panics, or it dies for another reason.
PanicStore == StoreDies /\ Restart /\ UNCHANGED <<meant, crashes>>
PanicHandle ==
  /\ CallerDies \/ PartiesDie
  /\ meant' = meant \cup Names(GetAssetId(asked, NextHash))
  /\ Restart /\ UNCHANGED crashes
Crash ==
  /\ crashes < MaxCrashes /\ crashes' = crashes + 1
  /\ Restart /\ UNCHANGED meant

\* The goroutines.
FetchNep5Tx  == Fetch \/ SendApplog \/ SendTx
FetchAppLog(f) == TakeApplog(f) \/ StoreApplog(f)
HandleNep5Tx == Handle \/ HandleTransfer \/ SendOp \/ PanicHandle
HandleNep5Store == Store \/ PanicStore

Next ==
  \/ FetchNep5Tx
  \/ \E f \in Fetchers : FetchAppLog(f)
  \/ HandleNep5Tx
  \/ HandleNep5Store
  \/ InsertNep5AddrTxRec
  \/ NewTx
  \/ Crash

Spec == Init /\ [][Next]_vars

FairSpec ==
  /\ Spec
  /\ WF_vars(FetchNep5Tx)
  /\ \A f \in Fetchers : WF_vars(FetchAppLog(f))
  /\ WF_vars(HandleNep5Tx) /\ WF_vars(HandleNep5Store)
  /\ WF_vars(InsertNep5AddrTxRec)

-----------------------------------------------------------------------------
(* Properties *)

\* The variables of the NEP5 task have their types; the channels are bounded.
TypeOK ==
  /\ chain \in Seq(Txs) /\ txMax <= MaxTx
  /\ nextTxPK \in 1..(MaxTx + 1)
  /\ page \subseteq Ids /\ waiting \subseteq Ids /\ Cardinality(waiting) <= PageSize
  /\ applogChan \in Seq(Ids) /\ hand \in [Fetchers -> 0..MaxTx]
  /\ appLogs \subseteq Ids /\ nep5TxChan \in Seq(Ids)
  /\ Len(applogChan) <= ChanSize /\ Len(nep5TxChan) <= ChanSize
  /\ Len(storeChan) <= ChanSize
  /\ called \in 0..MaxTx /\ applogIdx \in Int /\ asked \in Seq(Hashes) /\ known \subseteq DOMAIN nep5
  /\ nep5 \in [1..Cardinality(Hashes) -> Nat]
  /\ nep5Tx \in Seq([tx : Ids, idx : Nat, id : DOMAIN nep5])
  /\ migrations \subseteq Ids /\ cut \subseteq Ids
  /\ counter \in (0..MaxTx) \X Int
  /\ addrTx \in [Ids -> Nat] /\ addrTxPk \in 0..Len(nep5Tx)
  /\ meant \subseteq Hashes \X DOMAIN nep5 /\ dropped \subseteq Ids \X Nat
  /\ crashes \in 0..MaxCrashes

\* The variables have their types, and however the goroutines overtake each other,
\* the log of every transaction that fetchNep5Tx waits for is in exactly one place,
\* and no other log is anywhere: none is lost (the scan would wait for ever) or
\* left over.
LogsInFlight ==
  /\ TypeOK
  /\ \A t \in Ids :
       Cardinality({x \in {"page", "chan", "map"} \cup Fetchers :
         \/ x = "page" /\ t \in page
         \/ x = "chan" /\ t \in ToSet(applogChan)
         \/ x = "map"  /\ t \in appLogs
         \/ x \in Fetchers /\ hand[x] = t})
       = (IF t \in waiting THEN 1 ELSE 0)

\* Every hash was always given the same id, and no other hash was.  The code
\* does not ensure it across restarts, because no table keeps the ids.
IdsStable == \A p, q \in meant : p[1] = q[1] <=> p[2] = q[2]

\* What the chain says: who registers an asset first, and which notifications
\* are transfers of an asset registered before.
Registers(t, h) ==
  /\ chain[t].kind \in {"reg", "create", "migrate", "regmigrate"}
  /\ chain[t].ok /\ chain[t].hash = h
RegisteredBefore(t, h) == \E s \in 1..(t - 1) : Registers(s, h)
Transfers ==
  UNION {{t} \X {i \in 0..(Len(chain[t].log) - 1) :
                   RegisteredBefore(t, chain[t].log[i + 1])} : t \in 1..txMax}
\* As long as ids are stable, crashes and panics included: nep5_tx holds the
\* transfers of registered assets up to the counter, each once, in order, under
\* its id, except those whose balances could not be queried.
TransfersExact == IdsStable =>
  /\ {<<nep5Tx[n].tx, nep5Tx[n].idx>> : n \in DOMAIN nep5Tx}
       = {p \in Transfers : Done(p[1], p[2])} \ dropped
  /\ \A n \in DOMAIN nep5Tx :
       /\ <<chain[nep5Tx[n].tx].log[nep5Tx[n].idx + 1], nep5Tx[n].id>> \in meant
       /\ \A m \in 1..(n - 1) :
            \/ nep5Tx[m].tx < nep5Tx[n].tx
            \/ nep5Tx[m].tx = nep5Tx[n].tx /\ nep5Tx[m].idx < nep5Tx[n].idx

\* As long as ids are stable, table nep5 has one row for each asset registered
\* up to the counter.
AssetsExact == IdsStable =>
  \A p \in meant :
    nep5[p[2]] = IF \E t \in 1..counter[1] : Registers(t, p[1]) THEN 1 ELSE 0

\* As long as ids are stable, every migration up to the counter was executed,
\* except one that a restart stepped over: and that one registers its asset
\* itself, because the row of table nep5 sets the counter to done.
MigrationsExact == IdsStable =>
  LET Should(t) == /\ chain[t].kind \in {"migrate", "regmigrate"}
                   /\ \E s \in 1..t : Registers(s, chain[t].hash)
  IN  /\ \A t \in 1..counter[1] :
           Should(t) => t \in migrations \cup cut \cup Pending("migrate")
      /\ \A t \in migrations : Should(t) /\ t <= counter[1]
      /\ \A t \in cut : /\ t \notin migrations
                        /\ Registers(t, chain[t].hash)
                        /\ ~RegisteredBefore(t, chain[t].hash)

\* addr_tx has one row for every transaction with a transfer among the first
\* nep5_tx_pk_for_addr_tx rows, also if a page ends between two transfers of it.
AddrTxExact ==
  \A t \in Ids :
    addrTx[t] = IF \E n \in 1..addrTxPk : nep5Tx[n].tx = t THEN 1 ELSE 0

\* Some page of the scan up to t holds nothing but scripts it drops.
DeadPage(t) ==
  \E from, to \in 1..txMax :
    LET inv == {s \in from..to : chain[s].kind # "none"}
    IN  to < t /\ Cardinality(inv) >= PageSize /\ \A s \in inv : chain[s].kind = "short"

\* The process dies at every attempt at transaction t: its operation fails, or
\* handleNep5Tx panics before it.
Calls(t) == chain[t].kind = "call" /\ chain[t].hash # NoHash
HasTransfer(t) == \E h \in ToSet(chain[t].log) : RegisteredBefore(t, h)
FailsForEver(t) ==
  LET h == chain[t].hash
  IN  \/ "asset" \in chain[t].dies /\ Registers(t, h) /\ ~RegisteredBefore(t, h)
      \/ "migrate" \in chain[t].dies /\ Migrates(t) /\ RegisteredBefore(t, h)
      \/ "balance" \in chain[t].dies /\ Calls(t) /\ RegisteredBefore(t, h)
      \/ "transfer" \in chain[t].dies /\ HasTransfer(t)
PanicsForEver(t) ==
  \/ "caller" \in chain[t].dies /\ Calls(t)
  \/ "parties" \in chain[t].dies /\ HasTransfer(t)

\* Again and again every transaction that must count is passed by the counter and
\* its transfers are in addr_tx, unless the scan is stuck before it, an id changed
\* its meaning, or the process dies for ever: at an operation of it or of an earlier
\* transaction, or in handleNep5Tx, which may be ahead of handleNep5Store and take
\* the operations of earlier transactions with it.  (The chain is bounded and only
\* grows: none is left behind for ever.)
MustCount(t) == \/ chain[t].kind \in {"empty", "create", "migrate", "regmigrate",
                                     "call"}
                \/ chain[t].kind = "reg" /\ chain[t].ok
                   /\ ~RegisteredBefore(t, chain[t].hash)
EventuallyHandled ==
  []<>(\A t \in 1..txMax : MustCount(t) =>
        \/ /\ counter[1] > t \/ counter = <<t, -1>>
           /\ addrTxPk = Len(nep5Tx)
        \/ \E s \in 1..txMax : (s <= t /\ FailsForEver(s)) \/ PanicsForEver(s)
        \/ DeadPage(t) \/ ~IdsStable)
=============================================================================
