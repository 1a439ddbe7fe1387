------------------------------- MODULE GasTask -------------------------------
(***************************************************************************)
(* The GAS balance task (neo/tasks/gas_balance.go, neo/db/gas.go): the     *)
(* transactions are taken by ascending id and each one's change of GAS is  *)
(* added to the balance of every address it touches, one database          *)
(* transaction per address, into one row per address and day.  When its    *)
(* connection is lost, or the server is read-only (Error 1290), transact   *)
(* undoes and repeats it, but not what it did to the cache.                *)
(*                                                                         *)
(* A balance is the bag of the transactions added up in it.                *)
(***************************************************************************)
EXTENDS Integers, Sequences

CONSTANTS Addrs,       \* addresses
          MaxTx,       \* bound on transaction ids
          Days,        \* number of days
          MaxCrashes,  \* bound on crashes
          MaxLosses,   \* bound on lost connections
          MaxRefusals  \* bound on refused statements

ASSUME GasBounds == /\ MaxTx \in Nat /\ Days \in Nat \ {0}
                    /\ MaxCrashes \in Nat /\ MaxLosses \in Nat /\ MaxRefusals \in Nat

Ids == 1..MaxTx
Balances == [Ids -> Nat]
Records == [date : 1..Days, bal : Balances]
NoRecord == [date |-> 0, bal |-> [t \in Ids |-> 0]]

VARIABLES
  day, touched,   \* of each transaction: its day, the addresses it changes
  txMax,          \* highest id in table tx
  nextPK,         \* fetchTx: the next transaction to take
  cur, pending,   \* ApplyGASAssetChange: its transaction, addresses to do
  gasDateCache,   \* gasDateCache; NoRecord where an address has no entry
  rows,           \* addr_gas_balance: the rows of each address, by id
  lastPk,         \* counter.last_tx_pk_gas_balance
  retrying,       \* the address whose closure is being repeated
  broken,         \* that address, if one of the closures lost its connection
  refused,        \* history: addresses with a row refused to this process
  crashes, losses, refusals

netVars == <<day, touched, txMax>>
retryVars == <<retrying, broken>>
memVars == <<nextPK, cur, pending, gasDateCache, retryVars, refused>>
dbVars  == <<rows, lastPk>>
faultVars == <<crashes, losses, refusals>>
vars == <<netVars, memVars, dbVars, faultVars>>

-----------------------------------------------------------------------------
(* Slips the code might have made, for the sensitivity of the properties. *)

AfterPrevious(pk) == pk                       \* Resume: the last one again
SameDay(rec) == TRUE                          \* IsToday: never a new row
TakeAny == {t \in nextPK..txMax : t <= nextPK + 1}     \* Takeable: out of order

-----------------------------------------------------------------------------
\* The balance of the newest row (ORDER BY id DESC LIMIT 1).
StoredBalance(a) == IF rows[a] = <<>> THEN NoRecord.bal
                                      ELSE rows[a][Len(rows[a])].bal

Plus(bal) == [bal EXCEPT ![cur] = @ + 1]

\* The entry is of the current transaction's day.
IsToday(rec) == rec.date = day[cur]

\* fetchTx sends the transactions in the order of their ids.
Takeable == {t \in {nextPK} : t <= txMax}

Resume(pk) == pk + 1

Init ==
  /\ day \in {d \in [Ids -> 1..Days] : \A s, t \in Ids : s <= t => d[s] <= d[t]}
  /\ touched \in [Ids -> SUBSET Addrs]
  /\ txMax = 0
  /\ nextPK = 1 /\ cur = 0 /\ pending = {}
  /\ gasDateCache = [a \in Addrs |-> NoRecord]
  /\ rows = [a \in Addrs |-> <<>>]
  /\ lastPk = 0
  /\ retrying = {} /\ broken = {} /\ refused = {}
  /\ crashes = 0 /\ losses = 0 /\ refusals = 0

\* handleTxGASBalance takes a transaction with the changes read of it; one
\* without a change of GAS is done.
Take(t, changes) ==
  /\ cur = 0 /\ t \in Takeable
  /\ nextPK' = t + 1
  /\ pending' = changes
  /\ cur' = IF changes = {} THEN 0 ELSE t
  /\ UNCHANGED <<netVars, gasDateCache, retryVars, refused, dbVars, crashes, refusals>>

TakeWhole(t) == Take(t, touched[t]) /\ UNCHANGED losses

\* The connection is lost while fetchTx reads tx_vin or tx_vout: the loops over
\* the rows end as if these were all, so changes are missing.
TakeCut(t) ==
  /\ losses < MaxLosses /\ losses' = losses + 1
  /\ \E read \in SUBSET touched[t] : Take(t, read)

\* Memory after a restart behind the given counter value.
Restarted(pk) ==
  /\ nextPK' = Resume(pk) /\ cur' = 0 /\ pending' = {}
  /\ retrying' = {} /\ broken' = {} /\ refused' = {}
  /\ gasDateCache' = [a \in Addrs |-> NoRecord]

\* The entry of the address once its closure has run: the balance in the cache
\* or, without an entry, of the newest row, plus the change.
NewEntry(a) ==
  [date |-> day[cur],
   bal  |-> Plus(IF gasDateCache[a] = NoRecord THEN StoredBalance(a)
                                               ELSE gasDateCache[a].bal)]

\* One pass of the loop over gasChangeMap, in the order of a Go map: any.  Its
\* transaction commits the counter along with the row, if that was saved.  After
\* a retry the outer transact commits too: on a lost connection that fails,
\* which panics; after Error 1290 its connection is alive and the task goes on.
Commit(a, saved) ==
  /\ lastPk' = cur
  /\ refusals' = IF saved THEN refusals ELSE refusals + 1
  /\ IF broken # {} THEN Restarted(cur) ELSE
       /\ gasDateCache' = [gasDateCache EXCEPT ![a] = NewEntry(a)]
       /\ pending' = pending \ {a}
       /\ cur' = IF pending' = {} THEN 0 ELSE cur
       /\ retrying' = {}
       /\ refused' = IF saved THEN refused ELSE refused \cup {a}
       /\ UNCHANGED <<nextPK, broken>>
  /\ UNCHANGED <<netVars, crashes, losses>>

\* An address to do; a retry repeats the same one.
Turn(a) == a \in pending /\ retrying \subseteq {a}

\* No entry: a row is inserted.  The date of the newest row comes back as a
\* timestamp, never equal to the date it is compared with, so this is done
\* even when that day has a row.
ApplyUncached(a) ==
  /\ Turn(a) /\ gasDateCache[a] = NoRecord
  /\ rows' = [rows EXCEPT ![a] = Append(@, NewEntry(a))]
  /\ Commit(a, TRUE)

\* An entry of an earlier day: a new row.  The error of this INSERT is dropped,
\* so the counter is committed without the row, and the cache has its balance.
ApplyNewDay(a) ==
  /\ Turn(a) /\ gasDateCache[a] # NoRecord /\ ~IsToday(gasDateCache[a])
  /\ \E saved \in BOOLEAN :
       /\ saved \/ refusals < MaxRefusals
       /\ rows' = IF saved THEN [rows EXCEPT ![a] = Append(@, NewEntry(a))] ELSE rows
       /\ Commit(a, saved)

\* An entry of the same day: UPDATE ... LIMIT 1, on any row of that day.
ApplySameDay(a) ==
  /\ Turn(a) /\ gasDateCache[a] # NoRecord /\ IsToday(gasDateCache[a])
  /\ LET same == {i \in DOMAIN rows[a] : rows[a][i].date = day[cur]}
     IN  rows' \in IF same = {} THEN {rows} ELSE
           {[rows EXCEPT ![a][i] = NewEntry(a)] : i \in same}
  /\ Commit(a, TRUE)

\* The connection is lost at the last statement, the counter (or at the INSERT
\* of ApplyUncached): all statements are undone, transact runs the closure
\* again, and the cache has the new entry already.  Lost at any other place it
\* makes the process panic, or nothing has been done yet.
LoseConnection(a) ==
  /\ Turn(a) /\ losses < MaxLosses /\ losses' = losses + 1
  /\ gasDateCache' = [gasDateCache EXCEPT ![a] = NewEntry(a)]
  /\ retrying' = {a} /\ broken' = {a}
  /\ UNCHANGED <<netVars, nextPK, cur, pending, refused, dbVars, crashes, refusals>>

\* The server is read-only when the first statement of the closure, an INSERT,
\* is executed (Error 1290; the dropped one's counter gets it): transact repeats
\* the closure, with the new entry in the cache, until the server can write.  The
\* UPDATE of ApplySameDay repeats itself.  Behind a first statement that was
\* executed, a server does not become read-only.
ReadOnly(a) ==
  /\ Turn(a) /\ (gasDateCache[a] = NoRecord \/ ~IsToday(gasDateCache[a]))
  /\ refusals < MaxRefusals /\ refusals' = refusals + 1
  /\ gasDateCache' = [gasDateCache EXCEPT ![a] = NewEntry(a)]
  /\ retrying' = {a} /\ refused' = refused \cup {a}
  /\ UNCHANGED <<netVars, nextPK, cur, pending, broken, dbVars, crashes, losses>>

\* InsertBlock commits one transaction more.
NewTx ==
  /\ txMax < MaxTx
  /\ txMax' = txMax + 1
  /\ UNCHANGED <<day, touched, memVars, dbVars, faultVars>>

\* The process dies between two database transactions (inside one it is rolled
\* back) and resumes after the counter, with an empty cache.
Crash ==
  /\ crashes < MaxCrashes /\ crashes' = crashes + 1
  /\ Restarted(lastPk)
  /\ UNCHANGED <<netVars, dbVars, losses, refusals>>

Next ==
  \/ \E t \in Ids : TakeWhole(t) \/ TakeCut(t)
  \/ \E a \in Addrs : \/ ApplyUncached(a) \/ ApplyNewDay(a) \/ ApplySameDay(a)
                       \/ LoseConnection(a) \/ ReadOnly(a)
  \/ NewTx
  \/ Crash

Spec == Init /\ [][Next]_vars

-----------------------------------------------------------------------------
(* Properties *)

\* The variables of the GAS task have their types.
TypeOK ==
  /\ txMax \in 0..MaxTx /\ nextPK \in 1..(MaxTx + 1)
  /\ cur \in 0..MaxTx /\ pending \in SUBSET Addrs /\ (cur = 0 <=> pending = {})
  /\ gasDateCache \in [Addrs -> Records \cup {NoRecord}]
  /\ \A a \in Addrs : \A i \in DOMAIN rows[a] : rows[a][i] \in Records
  /\ lastPk \in 0..MaxTx
  /\ retrying \subseteq pending /\ broken \subseteq retrying
  /\ refused \in SUBSET Addrs
  /\ crashes \in 0..MaxCrashes /\ losses \in 0..MaxLosses
  /\ refusals \in 0..MaxRefusals

\* The transactions whose change this process has applied to the address.
AppliedTo(a) ==
  {t \in 1..(nextPK - 1) : a \in touched[t] /\ ~(t = cur /\ a \in pending)}

\* Crashes included, no change is in a balance twice, but for once more per
\* lost connection or refused statement, and none is in the balance of an address
\* it does not touch or that it has not come to: the counter moves with the first.
NeverTwice ==
  \A a \in Addrs : \A i \in DOMAIN rows[a] : \A t \in Ids :
    rows[a][i].bal[t] <= (IF t \in AppliedTo(a) THEN 1 + losses + refusals ELSE 0)

\* The variables have their types, and the balance in memory is in the table, in
\* a row of its day, except while the transaction of the address is being repeated
\* and once the database refused this process a row of the address.
CacheIsStored ==
  /\ TypeOK
  /\ \A a \in Addrs \ (retrying \cup refused) : gasDateCache[a] # NoRecord =>
       \E i \in DOMAIN rows[a] : rows[a][i] = gasDateCache[a]

\* While the process runs, an address none of whose rows was refused has one row
\* per day on which it changed, in the order of the days, and each holds exactly
\* the changes up to the end of its day.  A refused row harms its own address only.
DailyHistory ==
  crashes + losses = 0 => \A a \in Addrs \ refused :
    /\ \A i, j \in DOMAIN rows[a] : i < j => rows[a][i].date < rows[a][j].date
    /\ {rows[a][i].date : i \in DOMAIN rows[a]} = {day[t] : t \in AppliedTo(a)}
    /\ \A i \in DOMAIN rows[a] : \A t \in Ids :
         rows[a][i].bal[t] =
           IF t \in AppliedTo(a) /\ day[t] <= rows[a][i].date THEN 1 ELSE 0

\* db/counter.go calls the counter the last resolved pk of the task: so when
\* no transaction is in hand, every change up to it is in the newest row.  The
\* code breaks it (a crash between two addresses): see GasTask_partial.
ResolvedIsApplied ==
  cur = 0 => \A a \in Addrs : \A t \in 1..lastPk :
    a \in touched[t] => StoredBalance(a)[t] > 0
=============================================================================
