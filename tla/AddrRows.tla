------------------------------- MODULE AddrRows -------------------------------
(***************************************************************************)
(* The UTXO and the NEP5 task at once on the table address, the address    *)
(* cache and the counter row (neo/db/addr.go, core/cache/addr.go): which   *)
(* rows their database transactions lock, and in which order.  What the    *)
(* tasks do to balances is in UtxoTask and Nep5Store.                      *)
(*                                                                         *)
(* Both scan the same transactions; number t has block time t.  For one    *)
(* the NEP5 task runs up to two database transactions: first the balance   *)
(* of the calling address is stored, which creates the address if it is    *)
(* unknown, then the transfers.  A row that                                *)
(* a database transaction has written is locked until it commits (InnoDB;  *)
(* gap locks are left out, and so are lost connections, see UtxoTask).     *)
(***************************************************************************)
EXTENDS Integers, FiniteSets

CONSTANTS Addrs,       \* addresses, as numbers: they are sorted
          MaxTx,       \* bound on transactions
          MaxUses,     \* bound on how often a transaction has an address
          MaxCrashes   \* bound on crashes

ASSUME RowBounds == /\ Addrs \subseteq Nat /\ IsFiniteSet(Addrs)
                    /\ MaxTx \in Nat /\ MaxUses \in Nat /\ MaxCrashes \in Nat

Tasks == {"utxo", "nep5"}
Other(p) == CHOOSE q \in Tasks : q # p
Free == "free"
NoTimes == [first |-> 0, last |-> 0]    \* not in the cache, no row
NoQuery == [insert |-> FALSE, first |-> 0, last |-> 0]
NoRow == [first |-> 0, last |-> 0, utxo |-> 0, nep5 |-> 0]

VARIABLES
  touches,   \* the addresses that each task finds in each transaction
  asks,      \* the caller, if any, whose balance the NEP5 task asks for in each
  up,
  pc,        \* what each task does next: "look", "write", "count" or "commit"
  todo,      \* ... the addresses of its transaction that are left
  query,     \* ... the statement it has built
  cache,     \* addrCache: CreatedAt and LastTransactionTime
  pending,   \* the rows each task has written and not committed
  created,   \* createdAddrCnt of each
  row,       \* table address
  held,      \* table addr_asset: the addresses with rows of each task
  cntAddr,   \* counter.cnt_addr
  done,      \* the progress counter of each task
  answered,  \* the last transaction whose caller has its balance stored; this
             \* is nowhere in the database
  lock,      \* who has written an address row, or the counter row
  raced,     \* history: addresses looked up by one task while the other had
             \* looked them up and not yet written them
  openedAt,  \* history: the time of a row made for a balance
  crashes

taskVars == <<pc, todo, query>>
dbVars   == <<row, held, cntAddr, done>>
given    == <<touches, asks>>
balVars  == <<answered, openedAt>>
vars == <<given, up, taskVars, cache, pending, created, dbVars, balVars, lock, raced,
          crashes>>

Counter == -1   \* the key of the counter row among the locks
-----------------------------------------------------------------------------
(* Slips the code might have made, for the sensitivity of the properties. *)

AsFound(p, s) == CHOOSE a \in s : \A b \in s :           \* Least: not sorted
                   IF p = "nep5" THEN a >= b ELSE a <= b
NoRowYet(a) == row[a] = NoRow                          \* Missing: no cache
LastWins(old, t) == t                                  \* Later: no comparison

-----------------------------------------------------------------------------
\* Each task sorts the addresses, and takes one after the other.
Least(p, s) == CHOOSE a \in s : \A b \in s : a <= b
Addr(p) == Least(p, todo[p])
Working(p) == up /\ done[p] < MaxTx

\* The operation at hand is that of a balance, UpdateNep5TotalSupplyAndAddrAsset.
Asking(p) == p = "nep5" /\ answered <= done[p] /\ asks[done[p] + 1] # {}
Job(p) == IF Asking(p) THEN asks[done[p] + 1] ELSE touches[p][done[p] + 1]

\* What it adds to the task's counter, and to the count that a row has of a task.
Adds(p) == IF Asking(p) THEN 0 ELSE 1
AddsTo(p, task) == IF task = p THEN Adds(p) ELSE 0
NextPC(left) == IF left = {} THEN "count" ELSE "look"

\* UpdateCreatedTime and UpdateLastTxTime.
Earlier(old, t) == IF old > t THEN t ELSE old
Later(old, t) == IF old < t THEN t ELSE old
Missing(a) == cache[a] = NoTimes

Init ==
  /\ touches \in [Tasks -> [1..MaxTx -> SUBSET Addrs]]
  /\ asks \in [1..MaxTx -> {{}} \cup {{a} : a \in Addrs}]
  /\ Cardinality({u \in Tasks \X (1..MaxTx) \X Addrs : u[3] \in touches[u[1]][u[2]]})
     + Cardinality({t \in 1..MaxTx : asks[t] # {}}) <= MaxUses
  /\ answered = 0 /\ openedAt = [a \in Addrs |-> {}]
  /\ up = TRUE
  /\ pc = [p \in Tasks |-> "start"] /\ todo = [p \in Tasks |-> {}]
  /\ query = [p \in Tasks |-> NoQuery]
  /\ cache = [a \in Addrs |-> NoTimes]
  /\ pending = [p \in Tasks |-> [a \in Addrs |-> NoRow]]
  /\ created = [p \in Tasks |-> 0]
  /\ row = [a \in Addrs |-> NoRow]
  /\ held = [p \in Tasks |-> {}]
  /\ cntAddr = 0 /\ done = [p \in Tasks |-> 0]
  /\ lock = [k \in Addrs \cup {Counter} |-> Free]
  /\ raced = {} /\ crashes = 0

\* transact begins.
Begin(p) ==
  /\ Working(p) /\ pc[p] = "start"
  /\ todo' = [todo EXCEPT ![p] = Job(p)] /\ pc' = [pc EXCEPT ![p] = NextPC(Job(p))]
  /\ UNCHANGED <<given, up, query, cache, pending, created, dbVars, balVars, lock,
                 raced, crashes>>

\* createAddrInfoIfNotExist finds the address in the cache: no statement of it, and
\* incrAddrCounter is not called.
Exists(p) ==
  /\ Working(p) /\ pc[p] = "look" /\ Asking(p) /\ ~Missing(Addr(p))
  /\ todo' = [todo EXCEPT ![p] = {}] /\ pc' = [pc EXCEPT ![p] = "commit"]
  /\ UNCHANGED <<given, up, query, cache, pending, created, dbVars, balVars, lock,
                 raced, crashes>>

\* updateAddrInfo up to its Exec: GetAddrOrCreate decides between INSERT and
\* UPDATE; the UPDATE sets the times that the transaction changes in the cache.
\* The INSERT of createAddrInfoIfNotExist is the same but for the counts.
Look(p) ==
  /\ Working(p) /\ pc[p] = "look" /\ (Asking(p) => Missing(Addr(p)))
  /\ LET a == Addr(p)
         t == done[p] + 1
         new == IF Missing(a) THEN [first |-> t, last |-> t]
                ELSE [first |-> Earlier(cache[a].first, t),
                      last |-> Later(cache[a].last, t)]
         q == Other(p)
     IN  /\ cache' = [cache EXCEPT ![a] = new]
         /\ query' = [query EXCEPT ![p] =
              IF Missing(a) THEN [insert |-> TRUE, first |-> t, last |-> t]
              ELSE [insert |-> FALSE,
                    first |-> IF new.first # cache[a].first THEN t ELSE 0,
                    last |-> IF new.last # cache[a].last THEN t ELSE 0]]
         /\ raced' = IF pc[q] = "write" /\ Addr(q) = a THEN raced \cup {a} ELSE raced
  /\ pc' = [pc EXCEPT ![p] = "write"]
  /\ UNCHANGED <<given, up, todo, pending, created, dbVars, balVars, lock, crashes>>

CanLock(p, key) == lock[key] \in {Free, p}

\* How many of the address rows are new.
NewRows(p) == created[p]

\* What the UPDATE makes of a row; it finds none when the INSERT of the address
\* is still to come.
Updated(p, old) ==
  IF old = NoRow THEN NoRow
  ELSE [first |-> IF query[p].first # 0 THEN query[p].first ELSE old.first,
        last |-> IF query[p].last # 0 THEN query[p].last ELSE old.last,
        utxo |-> old.utxo + AddsTo(p, "utxo"),
        nep5 |-> old.nep5 + AddsTo(p, "nep5")]
Inserted(p) == [first |-> query[p].first, last |-> query[p].last,
                utxo |-> AddsTo(p, "utxo"), nep5 |-> AddsTo(p, "nep5")]

\* updateAddrInfo, its Exec: blocked while the other task has written the row.
Write(p) ==
  /\ Working(p) /\ pc[p] = "write" /\ CanLock(p, Addr(p))
  /\ LET a == Addr(p)
         new == IF query[p].insert THEN Inserted(p) ELSE Updated(p, row[a])
     IN  /\ pending' = [pending EXCEPT ![p][a] = new]
         /\ lock' = IF new = NoRow THEN lock ELSE [lock EXCEPT ![a] = p]
  /\ created' = [created EXCEPT ![p] = @ + (IF query[p].insert THEN 1 ELSE 0)]
  /\ query' = [query EXCEPT ![p] = NoQuery]
  /\ LET left == todo[p] \ {Addr(p)}
     IN  todo' = [todo EXCEPT ![p] = left] /\ pc' = [pc EXCEPT ![p] = NextPC(left)]
  /\ UNCHANGED <<given, up, cache, dbVars, balVars, raced, crashes>>

\* incrAddrCounter and, but for a balance, updateCounter or updateNep5Counter.
Count(p) ==
  /\ Working(p) /\ pc[p] = "count" /\ CanLock(p, Counter)
  /\ lock' = [lock EXCEPT ![Counter] = p]
  /\ pc' = [pc EXCEPT ![p] = "commit"]
  /\ UNCHANGED <<given, up, todo, query, cache, pending, created, dbVars, balVars,
                 raced, crashes>>

\* The database transaction commits, with the addr_asset rows of its addresses.
Commit(p) ==
  /\ Working(p) /\ pc[p] = "commit"
  /\ row' = [a \in Addrs |-> IF pending[p][a] # NoRow THEN pending[p][a] ELSE row[a]]
  /\ held' = [held EXCEPT ![p] = @ \cup Job(p)]
  /\ cntAddr' = cntAddr + NewRows(p)
  /\ done' = [done EXCEPT ![p] = @ + Adds(p)]
  /\ IF Asking(p)
     THEN /\ answered' = done[p] + 1
          /\ openedAt' = [a \in Addrs |-> openedAt[a] \cup
                            IF pending[p][a] # NoRow THEN {done[p] + 1} ELSE {}]
     ELSE UNCHANGED balVars
  /\ lock' = [k \in DOMAIN lock |-> IF lock[k] = p THEN Free ELSE lock[k]]
  /\ pending' = [pending EXCEPT ![p] = [a \in Addrs |-> NoRow]]
  /\ created' = [created EXCEPT ![p] = 0]
  /\ pc' = [pc EXCEPT ![p] = "start"]
  /\ UNCHANGED <<given, up, todo, query, cache, raced, crashes>>

Crash ==
  /\ up /\ crashes < MaxCrashes /\ crashes' = crashes + 1
  /\ up' = FALSE
  /\ pc' = [p \in Tasks |-> "start"] /\ todo' = [p \in Tasks |-> {}]
  /\ query' = [p \in Tasks |-> NoQuery]
  /\ cache' = [a \in Addrs |-> NoTimes]
  /\ pending' = [p \in Tasks |-> [a \in Addrs |-> NoRow]]
  /\ created' = [p \in Tasks |-> 0]
  /\ lock' = [k \in DOMAIN lock |-> Free]
  /\ answered' = 0
  /\ UNCHANGED <<given, dbVars, openedAt, raced>>

\* GetAddrAssetInfo reads the addresses that have accounts; one without an
\* address row makes it panic, at every start.
Loaded == held["utxo"] \cup held["nep5"]
Start ==
  /\ ~up /\ \A a \in Loaded : row[a] # NoRow
  /\ up' = TRUE
  /\ cache' = [a \in Addrs |-> IF a \in Loaded
                               THEN [first |-> row[a].first, last |-> row[a].last]
                               ELSE NoTimes]
  /\ UNCHANGED <<given, taskVars, pending, created, dbVars, balVars, lock, raced,
                 crashes>>

Step(p) == Begin(p) \/ Exists(p) \/ Look(p) \/ Write(p) \/ Count(p) \/ Commit(p)
Next == (\E p \in Tasks : Step(p)) \/ Crash \/ Start

Spec == Init /\ [][Next]_vars
\* Goroutines are scheduled fairly, and a process that died is started again.
FairSpec == Spec /\ (\A p \in Tasks : WF_vars(Step(p))) /\ WF_vars(Start)
-----------------------------------------------------------------------------
RowType == [first : 0..MaxTx, last : 0..MaxTx, utxo : 0..MaxTx, nep5 : 0..MaxTx]
TypeOK ==
  /\ up \in BOOLEAN
  /\ \A p \in Tasks :
       /\ pc[p] \in {"start", "look", "write", "count", "commit"}
       /\ todo[p] \subseteq Addrs /\ (todo[p] # {} <=> pc[p] \in {"look", "write"})
       /\ pending[p] \in [Addrs -> RowType]
       /\ done[p] \in 0..MaxTx
       /\ \A a \in Addrs : pending[p][a] # NoRow => lock[a] = p
  /\ cache \in [Addrs -> [first : 0..MaxTx, last : 0..MaxTx]]
  /\ row \in [Addrs -> RowType]
  /\ answered \in 0..MaxTx /\ openedAt \in [Addrs -> SUBSET (1..MaxTx)]
  /\ lock \in [Addrs \cup {Counter} -> Tasks \cup {Free}]

\* What the next statement of a task has to lock.
Needs(p) == IF pc[p] = "write" THEN {Addr(p)} ELSE IF pc[p] = "count" THEN {Counter} ELSE {}
WaitsFor(p, q) == \E k \in Needs(p) : lock[k] = q

\* The tasks never wait for each other: InsertNep5transaction and ApplyVinsVouts
\* both sort "to avoid potential deadlock", and write the counter last.
NoDeadlock == ~(WaitsFor("utxo", "nep5") /\ WaitsFor("nep5", "utxo"))

\* The variables have their types, no address is inserted twice, and the row of one
\* about to be inserted is absent, although neither task looks at the table: the
\* cache knows every row.
InsertedOnce ==
  /\ TypeOK
  /\ \A p \in Tasks : pc[p] = "write" /\ query[p].insert =>
       /\ row[Addr(p)] = NoRow
       /\ ~(pc[Other(p)] = "write" /\ query[Other(p)].insert /\ Addr(Other(p)) = Addr(p))

\* The row of an address counts the committed transactions of each task that have
\* it, and has the earliest and the latest of their times and that of the balance
\* it was created for, if it was; there is one as soon as there is such a
\* transaction.  Not for an address that both tasks were at
\* between the cache and the table: there an UPDATE may come before the INSERT,
\* or before one with an earlier time (see README).  And counter.cnt_addr is the
\* number of address rows, although both tasks add to it.
With(p, a) == {t \in 1..done[p] : a \in touches[p][t]}
RowsExact ==
  /\ \A a \in Addrs \ raced :
       LET times == With("utxo", a) \cup With("nep5", a) \cup openedAt[a]
       IN  /\ row[a].utxo = Cardinality(With("utxo", a))
           /\ row[a].nep5 = Cardinality(With("nep5", a))
           /\ times # {} => /\ row[a].first \in times /\ row[a].last \in times
                            /\ \A t \in times : t \in row[a].first..row[a].last
  /\ cntAddr = Cardinality({a \in Addrs : row[a] # NoRow})

\* Every transaction is applied in the end, unless an account is without its
\* address row: the UPDATE of the other task came before the INSERT, or a balance
\* was committed before it, and then a crash undid the INSERT.
Orphans == {a \in Loaded : row[a] = NoRow}
EventuallyApplied ==
  <>[](Orphans # {} \/ \A p \in Tasks : done[p] = MaxTx)
=============================================================================
