---------------------------- MODULE AddrRowsProofs ----------------------------
(***************************************************************************)
(* Machine-checked proofs about AddrRows: that the two tasks never wait    *)
(* for each other, never insert a row twice and, where they did not race,  *)
(* keep its counts and times exact, for every set of addresses, every      *)
(* assignment of them to transactions and every number of transactions and *)
(* crashes.                                                                *)
(***************************************************************************)
EXTENDS AddrRows, FiniteSetTheorems, WellFoundedInduction, TLAPS

\* The types of what decides about locks.
LockTypes ==
  /\ touches \in [Tasks -> [1..MaxTx -> SUBSET Addrs]]
  /\ asks \in [1..MaxTx -> SUBSET Addrs]
  /\ pc \in [Tasks -> {"start", "look", "write", "count", "commit"}]
  /\ todo \in [Tasks -> SUBSET Addrs]
  /\ done \in [Tasks -> Nat]
  /\ lock \in [Addrs \cup {Counter} -> Tasks \cup {Free}]

\* A task has addresses left exactly while it is at one of them.
LeftWhileAtRows ==
  \A p \in Tasks : todo[p] # {} <=> pc[p] \in {"look", "write"}

\* The rows a task has locked come before those it will lock, and a task between
\* two transactions has locked none.
LockedInOrder ==
  \A p \in Tasks : \A a \in Addrs :
     lock[a] = p => pc[p] # "start" /\ \A b \in todo[p] : a < b

\* The counter row is the last that a task locks.
CounterLast ==
  \A p \in Tasks : lock[Counter] = p => pc[p] = "commit"

\* The inductive invariant.
IInv == LockTypes /\ LeftWhileAtRows /\ LockedInOrder /\ CounterLast
-----------------------------------------------------------------------------
\* A set of addresses has a least one.
LEMMA LeastIsLeast ==
  ASSUME NEW p, NEW s \in SUBSET Addrs, s # {}
  PROVE  /\ Least(p, s) \in s
         /\ \A b \in s : Least(p, s) <= b
<1> DEFINE R == {ss \in Nat \X Nat : ss[1] < ss[2]}
<1>1. s \subseteq Nat BY RowBounds
<1>2. IsWellFoundedOn(R, Nat)
  BY NatLessThanWellFounded, Zenon DEF OpToRel
<1>3. \A a, b \in Nat : b < a => <<b, a>> \in R
  OBVIOUS
<1> HIDE DEF R
<1>4. PICK a \in s : \A b \in s : ~(<<b, a>> \in R)
  BY <1>1, <1>2, WFMin
<1>5. ASSUME NEW b \in s PROVE a <= b
  <2>1. a \in Nat /\ b \in Nat BY <1>1
  <2>2. ~(b < a) BY <2>1, <1>3, <1>4
  <2> QED BY <2>1, <2>2
<1> QED BY <1>4, <1>5 DEF Least

\* The names of tasks are not those of nobody, and the counter is no address.
LEMMA Names == /\ Free \notin Tasks /\ Counter \notin Addrs
               /\ Addrs \subseteq Nat
BY RowBounds DEF Free, Tasks, Counter

\* An operation is about addresses, and adds one or, for a balance, nothing.
LEMMA JobIs ==
  ASSUME IInv, NEW p \in Tasks, done[p] < MaxTx
  PROVE  Job(p) \subseteq Addrs
<1>1. done[p] + 1 \in 1..MaxTx BY RowBounds DEF IInv, LockTypes
<1> QED BY <1>1 DEF IInv, LockTypes, Job

LEMMA AddsIs ==
  ASSUME NEW p \in Tasks
  PROVE  /\ Adds(p) \in {0, 1} /\ (Asking(p) <=> Adds(p) = 0)
         /\ \A q \in Tasks : /\ AddsTo(p, q) \in {0, 1}
                              /\ AddsTo(p, q) = IF q = p THEN Adds(p) ELSE 0
BY DEF Adds, AddsTo

\* Nothing is locked at first.
LEMMA InitIInv == Init => IInv
<1> SUFFICES ASSUME Init PROVE IInv
  OBVIOUS
<1>1. LockTypes
  <2>1. asks \in [1..MaxTx -> SUBSET Addrs] BY DEF Init
  <2> QED BY <2>1 DEF Init, LockTypes
<1>2. LeftWhileAtRows BY DEF Init, LeftWhileAtRows
<1>3. LockedInOrder BY Names DEF Init, LockedInOrder
<1>4. CounterLast BY Names DEF Init, CounterLast
<1> QED BY <1>1, <1>2, <1>3, <1>4 DEF IInv

\* A task starts on the addresses of its next transaction without a lock.
LEMMA BeginStep == ASSUME IInv, NEW p \in Tasks, Begin(p) PROVE IInv'
<1>1. /\ pc[p] = "start" /\ done[p] < MaxTx
      /\ todo' = [todo EXCEPT ![p] = Job(p)] /\ pc' = [pc EXCEPT ![p] = NextPC(Job(p))]
      /\ UNCHANGED <<touches, asks, done, lock>>
  BY DEF Begin, Working, dbVars, given, balVars
<1>2. Job(p) \subseteq Addrs BY <1>1, JobIs
<1>3. LockTypes'
  BY <1>1, <1>2 DEF LockTypes, IInv, NextPC
<1>4. LeftWhileAtRows'
  BY <1>1, <1>2 DEF LockTypes, IInv, NextPC, LeftWhileAtRows
<1>5. LockedInOrder'
  <2> SUFFICES ASSUME NEW q \in Tasks, NEW a \in Addrs, lock[a] = q
               PROVE  pc'[q] # "start" /\ \A b \in todo'[q] : a < b
    BY <1>1 DEF LockedInOrder
  <2>1. pc[q] # "start" /\ \A b \in todo[q] : a < b BY DEF LockedInOrder, IInv
  <2>2. q # p BY <2>1, <1>1
  <2>3. pc'[q] = pc[q] /\ todo'[q] = todo[q] BY <2>2, <1>1 DEF LockTypes, IInv
  <2> QED BY <2>1, <2>3
<1>6. CounterLast'
  <2> SUFFICES ASSUME NEW q \in Tasks, lock[Counter] = q PROVE pc'[q] = "commit"
    BY <1>1 DEF CounterLast
  <2>1. pc[q] = "commit" BY DEF CounterLast, IInv
  <2>2. q # p BY <2>1, <1>1
  <2> QED BY <2>1, <2>2, <1>1 DEF LockTypes, IInv
<1> QED BY <1>3, <1>4, <1>5, <1>6 DEF IInv

\* A known address has nothing written, and nothing is locked for it.
LEMMA ExistsStep == ASSUME IInv, NEW p \in Tasks, Exists(p) PROVE IInv'
<1>1. /\ pc[p] = "look" /\ pc' = [pc EXCEPT ![p] = "commit"]
      /\ todo' = [todo EXCEPT ![p] = {}]
      /\ UNCHANGED <<touches, asks, done, lock>>
  BY DEF Exists, dbVars, given
<1>2. LockTypes' BY <1>1 DEF LockTypes, IInv
<1>3. LeftWhileAtRows' BY <1>1 DEF LockTypes, IInv, LeftWhileAtRows
<1>4. LockedInOrder' BY <1>1 DEF LockTypes, IInv, LockedInOrder
<1>5. CounterLast' BY <1>1 DEF LockTypes, IInv, CounterLast
<1> QED BY <1>2, <1>3, <1>4, <1>5 DEF IInv

\* Looking into the cache locks nothing.
LEMMA LookStep == ASSUME IInv, NEW p \in Tasks, Look(p) PROVE IInv'
<1>1. /\ pc[p] = "look" /\ pc' = [pc EXCEPT ![p] = "write"]
      /\ UNCHANGED <<touches, asks, todo, done, lock>>
  BY DEF Look, dbVars, given, balVars
<1>2. LockTypes' BY <1>1 DEF LockTypes, IInv
<1>3. LeftWhileAtRows' BY <1>1 DEF LockTypes, IInv, LeftWhileAtRows
<1>4. LockedInOrder' BY <1>1 DEF LockTypes, IInv, LockedInOrder
<1>5. CounterLast' BY <1>1 DEF LockTypes, IInv, CounterLast
<1> QED BY <1>2, <1>3, <1>4, <1>5 DEF IInv

\* A task locks the least of the rows it has left, which is behind all that it has
\* locked and before all that it will lock.
LEMMA WriteStep == ASSUME IInv, NEW p \in Tasks, Write(p) PROVE IInv'
<1> DEFINE k == Addr(p)
           left == todo[p] \ {k}
<1>1. /\ pc[p] = "write" /\ lock[k] \in {Free, p}
      /\ lock' = lock \/ lock' = [lock EXCEPT ![k] = p]
      /\ todo' = [todo EXCEPT ![p] = left] /\ pc' = [pc EXCEPT ![p] = NextPC(left)]
      /\ UNCHANGED <<touches, asks, done>>
  BY DEF Write, CanLock, dbVars, given, balVars
<1>2. todo[p] \in SUBSET Addrs /\ todo[p] # {}
  BY <1>1 DEF LockTypes, LeftWhileAtRows, IInv
<1>3. k \in todo[p] /\ \A b \in todo[p] : k <= b
  BY <1>2, LeastIsLeast DEF Addr
<1> HIDE DEF k
<1>4. k \in Addrs /\ left \subseteq Addrs /\ k # Counter
  BY <1>2, <1>3, Names
<1>5. \A b \in left : k < b
  <2> SUFFICES ASSUME NEW b \in left PROVE k < b
    OBVIOUS
  <2>1. k \in Nat /\ b \in Nat /\ k # b /\ k <= b BY <1>2, <1>3, <1>4, Names
  <2> QED BY <2>1
<1>6. NextPC(left) \in {"look", "count"} /\ (left # {} <=> NextPC(left) = "look")
  BY DEF NextPC
<1> HIDE DEF left
<1>7. LockTypes'
  BY <1>1, <1>4, <1>6 DEF LockTypes, IInv
<1>8. LeftWhileAtRows'
  BY <1>1, <1>6 DEF LockTypes, IInv, LeftWhileAtRows
<1>9. LockedInOrder'
  <2> SUFFICES ASSUME NEW q \in Tasks, NEW a \in Addrs, lock'[a] = q
               PROVE  pc'[q] # "start" /\ \A b \in todo'[q] : a < b
    BY DEF LockedInOrder
  <2>1. CASE q = p /\ a = k
    BY <2>1, <1>1, <1>5, <1>6 DEF LockTypes, IInv
  <2>2. CASE q # p \/ a # k
    <3>1. lock[a] = q BY <2>2, <1>1 DEF LockTypes, IInv
    <3>2. pc[q] # "start" /\ \A b \in todo[q] : a < b
      BY <3>1 DEF LockedInOrder, IInv
    <3>3. todo'[q] \subseteq todo[q]
      BY <1>1 DEF LockTypes, IInv, left
    <3>4. pc'[q] # "start" BY <3>2, <1>1, <1>6 DEF LockTypes, IInv
    <3> QED BY <3>2, <3>3, <3>4
  <2> QED BY <2>1, <2>2
<1>10. CounterLast'
  <2> SUFFICES ASSUME NEW q \in Tasks, lock'[Counter] = q PROVE pc'[q] = "commit"
    BY DEF CounterLast
  <2>1. lock[Counter] = q BY <1>1, <1>4 DEF LockTypes, IInv
  <2>2. pc[q] = "commit" BY <2>1 DEF CounterLast, IInv
  <2> QED BY <2>2, <1>1 DEF LockTypes, IInv
<1> QED BY <1>7, <1>8, <1>9, <1>10 DEF IInv

\* The counter row is locked when no addresses are left.
LEMMA CountStep == ASSUME IInv, NEW p \in Tasks, Count(p) PROVE IInv'
<1>1. /\ pc[p] = "count" /\ lock' = [lock EXCEPT ![Counter] = p]
      /\ pc' = [pc EXCEPT ![p] = "commit"]
      /\ UNCHANGED <<touches, asks, todo, done>>
  BY DEF Count, dbVars, given, balVars
<1>2. LockTypes' BY <1>1 DEF LockTypes, IInv
<1>3. LeftWhileAtRows' BY <1>1 DEF LockTypes, IInv, LeftWhileAtRows
<1>4. LockedInOrder'
  <2> SUFFICES ASSUME NEW q \in Tasks, NEW a \in Addrs, lock'[a] = q
               PROVE  pc'[q] # "start" /\ \A b \in todo[q] : a < b
    BY <1>1 DEF LockedInOrder
  <2>1. lock[a] = q BY <1>1, Names DEF LockTypes, IInv
  <2>2. pc[q] # "start" /\ \A b \in todo[q] : a < b BY <2>1 DEF LockedInOrder, IInv
  <2> QED BY <2>2, <1>1 DEF LockTypes, IInv
<1>5. CounterLast'
  <2> SUFFICES ASSUME NEW q \in Tasks, lock'[Counter] = q PROVE pc'[q] = "commit"
    BY DEF CounterLast
  <2>1. q = p BY <1>1 DEF LockTypes, IInv
  <2> QED BY <2>1, <1>1 DEF LockTypes, IInv
<1> QED BY <1>2, <1>3, <1>4, <1>5 DEF IInv

\* The commit frees what the task has locked.
LEMMA CommitStep == ASSUME IInv, NEW p \in Tasks, Commit(p) PROVE IInv'
<1>1. /\ pc[p] = "commit" /\ pc' = [pc EXCEPT ![p] = "start"]
      /\ lock' = [j \in DOMAIN lock |-> IF lock[j] = p THEN Free ELSE lock[j]]
      /\ done' = [done EXCEPT ![p] = @ + Adds(p)]
      /\ UNCHANGED <<touches, asks, todo>>
  BY DEF Commit, given
<1>2. \A j \in Addrs \cup {Counter} : \A q \in Tasks :
        lock'[j] = q => lock[j] = q /\ q # p
  BY <1>1, Names DEF LockTypes, IInv
<1>3. LockTypes'
  <2>2. done \in [Tasks -> Nat] BY DEF LockTypes, IInv
  <2>3. done[p] + Adds(p) \in Nat BY <2>2, AddsIs
  <2>1. done' \in [Tasks -> Nat] BY <2>2, <2>3, <1>1
  <2> QED BY <2>1, <1>1 DEF LockTypes, IInv
<1>4. LeftWhileAtRows' BY <1>1 DEF LockTypes, IInv, LeftWhileAtRows
<1>5. LockedInOrder'
  <2> SUFFICES ASSUME NEW q \in Tasks, NEW a \in Addrs, lock'[a] = q
               PROVE  pc'[q] # "start" /\ \A b \in todo[q] : a < b
    BY <1>1 DEF LockedInOrder
  <2>1. lock[a] = q /\ q # p BY <1>2
  <2>2. pc[q] # "start" /\ \A b \in todo[q] : a < b BY <2>1 DEF LockedInOrder, IInv
  <2> QED BY <2>1, <2>2, <1>1 DEF LockTypes, IInv
<1>6. CounterLast'
  <2> SUFFICES ASSUME NEW q \in Tasks, lock'[Counter] = q PROVE pc'[q] = "commit"
    BY DEF CounterLast
  <2>1. lock[Counter] = q /\ q # p BY <1>2
  <2>2. pc[q] = "commit" BY <2>1 DEF CounterLast, IInv
  <2> QED BY <2>1, <2>2, <1>1 DEF LockTypes, IInv
<1> QED BY <1>3, <1>4, <1>5, <1>6 DEF IInv

\* A crash frees every row, and both tasks start over.
LEMMA CrashStep == ASSUME IInv, Crash PROVE IInv'
<1>1. /\ pc' = [p \in Tasks |-> "start"] /\ todo' = [p \in Tasks |-> {}]
      /\ lock' = [j \in DOMAIN lock |-> Free]
      /\ UNCHANGED <<touches, asks, done>>
  BY DEF Crash, dbVars, given, balVars
<1>2. \A j \in Addrs \cup {Counter} : \A q \in Tasks : lock'[j] # q
  BY <1>1, Names DEF LockTypes, IInv
<1>3. LockTypes' BY <1>1 DEF LockTypes, IInv
<1>4. LeftWhileAtRows' BY <1>1 DEF LeftWhileAtRows
<1>5. LockedInOrder' BY <1>2 DEF LockedInOrder
<1>6. CounterLast' BY <1>2 DEF CounterLast
<1> QED BY <1>3, <1>4, <1>5, <1>6 DEF IInv

\* Every step keeps the inductive invariant.
LEMMA NextIInv == ASSUME IInv, [Next]_vars PROVE IInv'
<1>1. CASE UNCHANGED <<touches, asks, pc, todo, done, lock>>
  BY <1>1 DEF IInv, LockTypes, LeftWhileAtRows, LockedInOrder, CounterLast
<1>2. ASSUME NEW p \in Tasks, Step(p) PROVE IInv'
  BY <1>2, BeginStep, ExistsStep, LookStep, WriteStep, CountStep, CommitStep DEF Step
<1>3. CASE Crash BY <1>3, CrashStep
<1>4. CASE Start BY <1>4, <1>1 DEF Start, taskVars, dbVars, given, balVars
<1>5. CASE UNCHANGED vars BY <1>5, <1>1 DEF vars, taskVars, dbVars, given, balVars
<1> QED BY <1>2, <1>3, <1>4, <1>5 DEF Next

\* The order of the locks holds in every reachable state of ApplyVinsVouts and
\* InsertNep5transaction.
THEOREM LocksInvariance == Spec => []IInv
<1>1. Init => IInv BY InitIInv
<1>2. IInv /\ [Next]_vars => IInv' BY NextIInv
<1> QED BY <1>1, <1>2, PTL DEF Spec

\* The UTXO and the NEP5 task never wait for each other: each of them sorts the
\* addresses of its transaction and updates the counter row last.
THEOREM NeverDeadlocked == Spec => []NoDeadlock
<1>1. ASSUME IInv PROVE NoDeadlock
  <2> SUFFICES ASSUME NEW k \in Needs("utxo"), lock[k] = "nep5",
                      NEW m \in Needs("nep5"), lock[m] = "utxo"
               PROVE  FALSE
    BY DEF NoDeadlock, WaitsFor
  <2> DEFINE u == "utxo"
             n == "nep5"
  <2>1. u \in Tasks /\ n \in Tasks BY DEF Tasks
  <2>2. pc[u] \in {"write", "count"} /\ pc[n] \in {"write", "count"}
    BY DEF Needs
  <2>3. k # Counter /\ m # Counter
    BY <1>1, <2>1, <2>2 DEF IInv, CounterLast
  <2>4. /\ pc[u] = "write" /\ k = Addr(u)
        /\ pc[n] = "write" /\ m = Addr(n)
    BY <2>2, <2>3 DEF Needs
  <2>5. k \in todo[u] /\ m \in todo[n]
    <3>1. /\ todo[u] \in SUBSET Addrs /\ todo[u] # {}
          /\ todo[n] \in SUBSET Addrs /\ todo[n] # {}
      BY <1>1, <2>1, <2>4 DEF IInv, LockTypes, LeftWhileAtRows
    <3> QED BY <3>1, <2>4, LeastIsLeast DEF Addr
  <2>6. k \in Addrs /\ m \in Addrs
    BY <1>1, <2>1, <2>5 DEF IInv, LockTypes
  <2>7. k < m /\ m < k
    BY <1>1, <2>1, <2>5, <2>6 DEF IInv, LockedInOrder
  <2>8. k \in Nat /\ m \in Nat BY <2>6, Names
  <2> QED BY <2>7, <2>8
<1> QED BY <1>1, LocksInvariance, PTL
-----------------------------------------------------------------------------
(* The rows: what the tasks know of them, what they hold and how many there *)
(* are.                                                                     *)

Upto == 0..MaxTx
Rows == [first : Upto, last : Upto, utxo : Nat, nep5 : Nat]

RowTypes ==
  /\ up \in BOOLEAN
  /\ query \in [Tasks -> [insert : BOOLEAN, first : Upto, last : Upto]]
  /\ cache \in [Addrs -> [first : Upto, last : Upto]]
  /\ pending \in [Tasks -> [Addrs -> Rows]]
  /\ row \in [Addrs -> Rows]
  /\ held \in [Tasks -> SUBSET Addrs]
  /\ created \in [Tasks -> Nat] /\ cntAddr \in Nat
  /\ answered \in Upto /\ openedAt \in [Addrs -> SUBSET (1..MaxTx)]

CountOf(r, p) == IF p = "utxo" THEN r.utxo ELSE r.nep5
Wrote(p, a)  == pending[p][a] # NoRow
Writes(p, a) == pc[p] = "write" /\ Addr(p) = a

\* A task at work has a transaction, and what it has left is part of it.
InTransaction ==
  \A p \in Tasks :
    /\ done[p] \in Upto
    /\ pc[p] # "start" => up /\ done[p] < MaxTx /\ todo[p] \subseteq Job(p)

\* A row that is there, or written, or about to be, is known to the cache; and
\* the accounts read at a start lead to every row.
Known ==
  /\ \A p \in Tasks : \A a \in Addrs : Wrote(p, a) =>
       /\ lock[a] = p /\ pc[p] # "start" /\ a \in Job(p) \ todo[p]
       /\ pending[p][a].first # 0
  /\ \A a \in Addrs : row[a] # NoRow =>
       row[a].first # 0 /\ a \in Loaded /\ (up => cache[a] # NoTimes)
  /\ \A p \in Tasks : \A a \in Addrs :
       Wrote(p, a) \/ Writes(p, a) => cache[a] # NoTimes

\* The row of an address that is about to be inserted is not there, nor on its
\* way.
Absent ==
  \A p \in Tasks : \A a \in Addrs : Writes(p, a) /\ query[p].insert =>
    /\ query[p].first # 0 /\ row[a] = NoRow
    /\ \A q \in Tasks : /\ ~Wrote(q, a)
                        /\ q # p => ~(Writes(q, a) /\ query[q].insert)

\* No row counts more transactions than were applied.
Limited ==
  \A q \in Tasks : \A a \in Addrs :
    /\ CountOf(row[a], q) <= done[q]
    /\ \A p \in Tasks : Wrote(p, a) =>
         CountOf(pending[p][a], q) <= done[q] + AddsTo(p, q)

\* The counters are numbers of rows.
Existing == {a \in Addrs : row[a] # NoRow}
Fresh(p) == {a \in Addrs : Wrote(p, a) /\ row[a] = NoRow}
Counted ==
  /\ cntAddr = Cardinality(Existing)
  /\ \A p \in Tasks : created[p] = Cardinality(Fresh(p))

\* Without a race, every address that a task has passed is written, and counted
\* once more than in the table.
Exact ==
  \A a \in Addrs \ raced : \A p \in Tasks :
    /\ CountOf(row[a], p) = Cardinality(With(p, a))
    /\ pc[p] # "start" /\ ~Asking(p) /\ a \in Job(p) \ todo[p] => Wrote(p, a)
    /\ Wrote(p, a) => \A q \in Tasks :
         CountOf(pending[p][a], q) = CountOf(row[a], q) + AddsTo(p, q)

\* The times of an address: in its row; with the written ones; with those about to
\* be written.
Stored(a)  == With("utxo", a) \cup With("nep5", a) \cup openedAt[a]
Written(a) == Stored(a) \cup {done[q] + 1 : q \in {q \in Tasks : Wrote(q, a)}}
Seen(a)    == Written(a) \cup {done[q] + 1 : q \in {q \in Tasks : Writes(q, a)}}

Span(r, T) ==
  /\ T = {} => r.first = 0 /\ r.last = 0
  /\ T # {} => /\ r.first \in T /\ r.last \in T
               /\ \A t \in T : r.first <= t /\ t <= r.last

\* The statement changes the times of a row whose times are T to those with t.
Asks(st, T, t) ==
  /\ st.insert <=> T = {}
  /\ st.insert => st.first = t /\ st.last = t
  /\ ~st.insert => /\ st.first = 0 => \E s \in T : s <= t
                   /\ st.first # 0 => st.first = t /\ \A s \in T : t < s
                   /\ st.last = 0 => \E s \in T : t <= s
                   /\ st.last # 0 => st.last = t /\ \A s \in T : s < t

\* Without a race, rows and cache have the first and the last of these times.
Spans ==
  \A a \in Addrs \ raced :
    /\ Span(row[a], Stored(a))
    /\ \A p \in Tasks : Wrote(p, a) => Span(pending[p][a], Stored(a) \cup {done[p] + 1})
    /\ up => Span(cache[a], Seen(a))
    /\ \A p \in Tasks : Writes(p, a) => Asks(query[p], Written(a), done[p] + 1)
    /\ \A p, q \in Tasks : Writes(p, a) /\ Writes(q, a) => p = q

\* The inductive invariant of the rows, on top of that of the locks.
RowInv == /\ RowTypes /\ InTransaction /\ Known /\ Absent /\ Limited
          /\ Counted /\ Exact /\ Spans
-----------------------------------------------------------------------------
LEMMA OtherIs ==
  ASSUME NEW p \in Tasks
  PROVE  Other(p) \in Tasks /\ Other(p) # p /\ \A q \in Tasks : q = p \/ q = Other(p)
BY DEF Other, Tasks

\* What a statement makes of a row.
LEMMA NewRowIs ==
  ASSUME NEW p \in Tasks, NEW old \in Rows, RowTypes,
         query[p].insert => query[p].first # 0 /\ old = NoRow,
         old # NoRow => old.first # 0,
         NEW new, new = IF query[p].insert THEN Inserted(p) ELSE Updated(p, old)
  PROVE  /\ new \in Rows
         /\ new = NoRow <=> ~query[p].insert /\ old = NoRow
         /\ new # NoRow =>
              /\ new.first # 0
              /\ new.first = IF query[p].insert \/ query[p].first # 0
                             THEN query[p].first ELSE old.first
              /\ new.last = IF query[p].insert \/ query[p].last # 0
                            THEN query[p].last ELSE old.last
              /\ \A q \in Tasks : CountOf(new, q) =
                                  CountOf(old, q) + AddsTo(p, q)
<1> DEFINE st == query[p]
<1>1. st \in [insert : BOOLEAN, first : Upto, last : Upto] BY DEF RowTypes
<1> DEFINE u == AddsTo(p, "utxo")
           n == AddsTo(p, "nep5")
<1>6. u \in Nat /\ n \in Nat /\ \A q \in Tasks : AddsTo(p, q) = IF q = "utxo" THEN u ELSE n
  BY AddsIs DEF Tasks
<1> HIDE DEF u, n
<1>2. /\ old.first \in Upto /\ old.last \in Upto
      /\ old.utxo \in Nat /\ old.nep5 \in Nat
  BY DEF Rows
<1>3. CASE st.insert
  <2>1. new = [first |-> st.first, last |-> st.last,
               utxo |-> u, nep5 |-> n]
    BY <1>3 DEF Inserted, u, n
  <2>2. old = NoRow /\ st.first # 0 BY <1>3
  <2>3. new \in Rows /\ new.first # 0 BY <2>1, <2>2, <1>1, <1>6 DEF Rows
  <2>4. NoRow.first = 0 /\ NoRow.utxo = 0 /\ NoRow.nep5 = 0 BY DEF NoRow
  <2>5. \A q \in Tasks : CountOf(new, q) = CountOf(old, q) + AddsTo(p, q)
    BY <2>1, <2>2, <2>4, <1>6 DEF CountOf, Tasks
  <2> QED BY <2>1, <2>2, <2>3, <2>4, <2>5, <1>3
<1>4. CASE ~st.insert /\ old = NoRow
  BY <1>4 DEF Updated
<1>5. CASE ~st.insert /\ old # NoRow
  <2>1. new = [first |-> IF st.first # 0 THEN st.first ELSE old.first,
               last |-> IF st.last # 0 THEN st.last ELSE old.last,
               utxo |-> old.utxo + u, nep5 |-> old.nep5 + n]
    BY <1>5 DEF Updated, u, n
  <2>2. new \in Rows /\ new.first # 0 BY <2>1, <1>1, <1>2, <1>5, <1>6 DEF Rows
  <2>3. NoRow.first = 0 BY DEF NoRow
  <2>4. \A q \in Tasks : CountOf(new, q) = CountOf(old, q) + AddsTo(p, q)
    BY <2>1, <1>2, <1>6 DEF CountOf, Tasks
  <2> QED BY <2>1, <2>2, <2>3, <2>4, <1>5
<1> QED BY <1>3, <1>4, <1>5

\* The statement that was asked for gives the row the times it should have.
LEMMA AskedSpan ==
  ASSUME NEW T \in SUBSET Nat, NEW t \in Nat, t # 0, 0 \notin T, NEW st, Asks(st, T, t),
         NEW old, Span(old, T), NEW new,
         new.first = IF st.insert \/ st.first # 0 THEN st.first ELSE old.first,
         new.last = IF st.insert \/ st.last # 0 THEN st.last ELSE old.last
  PROVE  Span(new, T \cup {t})
<1>1. CASE T = {}
  BY <1>1 DEF Asks, Span
<1>2. CASE T # {}
  <2>1. ~st.insert BY <1>2 DEF Asks
  <2>2. /\ old.first \in T /\ old.last \in T /\ old.first \in Nat /\ old.last \in Nat
        /\ \A s \in T : old.first <= s /\ s <= old.last
    BY <1>2 DEF Span
  <2>3. new.first \in T \cup {t} /\ \A s \in T \cup {t} : new.first <= s
    BY <2>1, <2>2 DEF Asks
  <2>4. new.last \in T \cup {t} /\ \A s \in T \cup {t} : s <= new.last
    BY <2>1, <2>2 DEF Asks
  <2> QED BY <2>3, <2>4 DEF Span
<1> QED BY <1>1, <1>2
LEMMA Nothing ==
  /\ NoRow \in Rows /\ NoRow.first = 0 /\ NoRow.last = 0
  /\ \A q : CountOf(NoRow, q) = 0
  /\ NoTimes \in [first : Upto, last : Upto]
  /\ NoQuery \in [insert : BOOLEAN, first : Upto, last : Upto]
BY RowBounds DEF NoRow, NoTimes, NoQuery, Rows, Upto, CountOf

LEMMA RowInit == Init => RowInv
<1> SUFFICES ASSUME Init PROVE RowInv OBVIOUS
<1> USE RowBounds
<1>1. /\ \A p \in Tasks : pc[p] = "start" /\ done[p] = 0 /\ created[p] = 0
      /\ \A p \in Tasks : \A a \in Addrs : ~Wrote(p, a) /\ ~Writes(p, a)
      /\ \A a \in Addrs : row[a] = NoRow /\ cache[a] = NoTimes
      /\ cntAddr = 0 /\ \A a \in Addrs : openedAt[a] = {}
  BY DEF Init, Wrote, Writes
<1>2. RowTypes BY DEF Init, RowTypes, NoQuery, NoTimes, NoRow, Upto, Rows
<1>3. InTransaction BY <1>1 DEF InTransaction, Upto
<1>4. Known BY <1>1 DEF Known
<1>5. Absent BY <1>1 DEF Absent
<1>6. Limited
  <2>1. \A a \in Addrs : \A q \in Tasks : CountOf(row[a], q) = 0 BY <1>1, Nothing
  <2>2. \A q \in Tasks : done[q] = 0 BY <1>1
  <2>3. \A a \in Addrs : \A q \in Tasks : CountOf(row[a], q) <= done[q]
    BY <2>1, <2>2
  <2>4. \A p \in Tasks : \A a \in Addrs : ~Wrote(p, a) BY <1>1
  <2> QED BY <2>3, <2>4, Zenon DEF Limited
<1>7. Counted
  <2>1. Existing = {} /\ \A p \in Tasks : Fresh(p) = {}
    BY <1>1 DEF Existing, Fresh
  <2> QED BY <2>1, <1>1, FS_EmptySet DEF Counted
<1>8. \A a \in Addrs : \A p \in Tasks : With(p, a) = {}
  BY <1>1 DEF With
<1>9. Exact
  BY <1>1, <1>8, Nothing, FS_EmptySet DEF Exact
<1>10. Spans
  <2>1. \A a \in Addrs : Stored(a) = {} /\ Seen(a) = {}
    BY <1>1, <1>8 DEF Stored, Seen, Written, Tasks
  <2>2. \A a \in Addrs : Span(row[a], Stored(a)) /\ Span(cache[a], Seen(a))
    BY <1>1, <2>1, Nothing DEF Span, NoTimes
  <2>3. \A p \in Tasks : \A a \in Addrs : ~Wrote(p, a) /\ ~Writes(p, a) BY <1>1
  <2> QED BY <2>2, <2>3, Zenon DEF Spans
<1> QED BY <1>2, <1>3, <1>4, <1>5, <1>6, <1>7, <1>9, <1>10 DEF RowInv

\* The operation of a task changes only with its progress.
LEMMA SameJobs ==
  ASSUME UNCHANGED <<touches, asks, answered, done>>, NEW q \in Tasks
  PROVE  /\ Job(q)' = Job(q) /\ (Asking(q)' <=> Asking(q)) /\ Adds(q)' = Adds(q)
         /\ \A r \in Tasks : AddsTo(q, r)' = AddsTo(q, r)
BY DEF Job, Asking, Adds, AddsTo

\* A step that neither looks nor writes keeps all of this.
LEMMA QuietStep ==
  ASSUME RowInv, InTransaction',
         UNCHANGED <<touches, asks, answered, openedAt, up, query, cache, pending, created, row, held,
                     cntAddr, done, raced>>,
         \A q \in Tasks : /\ pc'[q] = "write" <=> pc[q] = "write"
                          /\ pc[q] = "write" => todo'[q] = todo[q],
         \A q \in Tasks : \A a \in Addrs : Wrote(q, a) =>
           lock'[a] = q /\ pc'[q] # "start" /\ a \notin todo'[q],
         \A q \in Tasks : \A a \in Job(q) \ todo'[q] :
           pc'[q] # "start" /\ ~Asking(q) => pc[q] # "start" /\ a \notin todo[q]
  PROVE  RowInv'
<1>1. /\ \A q \in Tasks : \A a \in Addrs : /\ Wrote(q, a)' <=> Wrote(q, a)
                                           /\ Writes(q, a)' <=> Writes(q, a)
      /\ Loaded' = Loaded /\ Existing' = Existing
  BY DEF Wrote, Writes, Addr, Least, Loaded, Existing
<1>11. \A q \in Tasks : /\ Job(q)' = Job(q) /\ (Asking(q)' <=> Asking(q))
                        /\ \A r \in Tasks : AddsTo(q, r)' = AddsTo(q, r)
  BY SameJobs
<1>2. \A q \in Tasks : Fresh(q)' = Fresh(q)
  BY <1>1 DEF Fresh
<1>3. \A a \in Addrs : /\ Stored(a)' = Stored(a) /\ Written(a)' = Written(a)
                       /\ Seen(a)' = Seen(a)
                       /\ \A q \in Tasks : With(q, a)' = With(q, a)
  BY <1>1 DEF Stored, Written, Seen, With
<1>4. RowTypes' BY DEF RowInv, RowTypes
<1>5. Known' BY <1>1, <1>11 DEF RowInv, Known
<1>6. Absent' BY <1>1 DEF RowInv, Absent
<1>7. Limited' BY <1>1, <1>11 DEF RowInv, Limited
<1>8. Counted' BY <1>1, <1>2 DEF RowInv, Counted
<1>9. Exact' BY <1>1, <1>3, <1>11 DEF RowInv, Exact
<1>10. Spans' BY <1>1, <1>3 DEF RowInv, Spans
<1> QED BY <1>4, <1>5, <1>6, <1>7, <1>8, <1>9, <1>10 DEF RowInv

LEMMA BeginRows == ASSUME IInv, RowInv, NEW p \in Tasks, Begin(p) PROVE RowInv'
<1>1. /\ up /\ pc[p] = "start" /\ done[p] < MaxTx
      /\ todo' = [todo EXCEPT ![p] = Job(p)] /\ pc' = [pc EXCEPT ![p] = NextPC(Job(p))]
      /\ UNCHANGED <<touches, asks, answered, openedAt, up, query, cache, pending, created, row, held,
                     cntAddr, done, lock, raced>>
  BY DEF Begin, Working, dbVars, given, balVars
<1>2. NextPC(Job(p)) \in {"look", "count"} BY DEF NextPC
<1>3. /\ \A q \in Tasks : q # p => pc'[q] = pc[q] /\ todo'[q] = todo[q]
      /\ pc'[p] = NextPC(Job(p)) /\ todo'[p] = Job(p)
      /\ \A q \in Tasks : Job(q)' = Job(q)
  BY <1>1, SameJobs DEF IInv, LockTypes
<1>4. InTransaction' BY <1>1, <1>3 DEF RowInv, InTransaction
<1>5. \A q \in Tasks : \A a \in Addrs : Wrote(q, a) =>
        q # p /\ lock[a] = q /\ pc[q] # "start" /\ a \notin todo[q]
  BY <1>1 DEF RowInv, Known
<1> QED BY <1>1, <1>2, <1>3, <1>4, <1>5, QuietStep

LEMMA ExistsRows == ASSUME IInv, RowInv, NEW p \in Tasks, Exists(p) PROVE RowInv'
<1>1. /\ pc[p] = "look" /\ pc' = [pc EXCEPT ![p] = "commit"] /\ Asking(p)
      /\ todo' = [todo EXCEPT ![p] = {}]
      /\ UNCHANGED <<touches, asks, answered, openedAt, up, query, cache, pending,
                     created, row, held, cntAddr, done, lock, raced>>
  BY DEF Exists, dbVars, given, balVars
<1>2. /\ \A q \in Tasks : q # p => pc'[q] = pc[q] /\ todo'[q] = todo[q]
      /\ pc'[p] = "commit" /\ todo'[p] = {}
      /\ \A q \in Tasks : Job(q)' = Job(q)
  BY <1>1, SameJobs DEF IInv, LockTypes
<1>3. InTransaction' BY <1>1, <1>2 DEF RowInv, InTransaction
<1>4. \A q \in Tasks : \A a \in Addrs : Wrote(q, a) =>
        lock[a] = q /\ pc[q] # "start" /\ a \notin todo[q]
  BY DEF RowInv, Known
<1> QED BY <1>1, <1>2, <1>3, <1>4, QuietStep

LEMMA CountRows == ASSUME IInv, RowInv, NEW p \in Tasks, Count(p) PROVE RowInv'
<1>1. /\ pc[p] = "count" /\ lock' = [lock EXCEPT ![Counter] = p]
      /\ pc' = [pc EXCEPT ![p] = "commit"]
      /\ UNCHANGED <<touches, asks, answered, openedAt, up, query, cache, pending, created, row, held,
                     cntAddr, done, todo, raced>>
  BY DEF Count, dbVars, given, balVars
<1>2. /\ \A q \in Tasks : q # p => pc'[q] = pc[q]
      /\ pc'[p] = "commit"
      /\ \A q \in Tasks : Job(q)' = Job(q)
      /\ \A a \in Addrs : lock'[a] = lock[a]
  BY <1>1, Names, SameJobs DEF IInv, LockTypes
<1>3. InTransaction' BY <1>1, <1>2 DEF RowInv, InTransaction
<1>4. \A q \in Tasks : \A a \in Addrs : Wrote(q, a) =>
        lock[a] = q /\ pc[q] # "start" /\ a \notin todo[q]
  BY DEF RowInv, Known
<1> QED BY <1>1, <1>2, <1>3, <1>4, QuietStep

LEMMA CrashRows == ASSUME IInv, RowInv, Crash PROVE RowInv'
<1> USE RowBounds
<1>1. /\ up' = FALSE
      /\ pc' = [p \in Tasks |-> "start"]
      /\ query' = [p \in Tasks |-> NoQuery]
      /\ cache' = [a \in Addrs |-> NoTimes]
      /\ pending' = [p \in Tasks |-> [a \in Addrs |-> NoRow]]
      /\ created' = [p \in Tasks |-> 0] /\ answered' = 0
      /\ UNCHANGED <<touches, asks, openedAt, row, held, cntAddr, done, raced>>
  BY DEF Crash, dbVars, given, balVars
<1>2. /\ \A p \in Tasks : pc'[p] = "start" /\ created'[p] = 0
      /\ \A p \in Tasks : \A a \in Addrs : ~Wrote(p, a)' /\ ~Writes(p, a)'
  BY <1>1 DEF Wrote, Writes
<1>3. RowTypes'
  <2>1. 0 \in Upto BY DEF Upto
  <2>2. pending' \in [Tasks -> [Addrs -> Rows]] BY <1>1, Nothing
  <2>3. query' \in [Tasks -> [insert : BOOLEAN, first : Upto, last : Upto]]
    BY <1>1, Nothing
  <2>4. cache' \in [Addrs -> [first : Upto, last : Upto]] BY <1>1, Nothing
  <2> QED BY <2>1, <2>2, <2>3, <2>4, <1>1 DEF RowInv, RowTypes
<1>4. InTransaction' BY <1>1, <1>2 DEF RowInv, InTransaction
<1>5. Known' BY <1>1, <1>2 DEF RowInv, Known, Loaded
<1>6. Absent' BY <1>2 DEF Absent
<1>7. Limited' BY <1>1, <1>2 DEF RowInv, Limited
<1>8. Counted'
  <2>1. Existing' = Existing /\ \A p \in Tasks : Fresh(p)' = {}
    BY <1>1, <1>2 DEF Existing, Fresh
  <2> QED BY <2>1, <1>1, <1>2, FS_EmptySet DEF Counted, RowInv
<1>9. \A a \in Addrs : /\ Stored(a)' = Stored(a)
                       /\ \A p \in Tasks : With(p, a)' = With(p, a)
  BY <1>1 DEF With, Stored
<1>10. Exact' BY <1>1, <1>2, <1>9 DEF RowInv, Exact
<1>11. Spans' BY <1>1, <1>2, <1>9 DEF RowInv, Spans
<1> QED BY <1>3, <1>4, <1>5, <1>6, <1>7, <1>8, <1>10, <1>11 DEF RowInv

\* A start reads the times of every row there is.
LEMMA StartRows == ASSUME IInv, RowInv, Start PROVE RowInv'
<1>1. /\ ~up /\ up' = TRUE /\ \A a \in Loaded : row[a] # NoRow
      /\ cache' = [a \in Addrs |-> IF a \in Loaded
                                   THEN [first |-> row[a].first, last |-> row[a].last]
                                   ELSE NoTimes]
      /\ UNCHANGED <<touches, asks, answered, openedAt, pc, todo, query, pending, created, row, held, cntAddr,
                     done, lock, raced>>
  BY DEF Start, taskVars, dbVars, given, balVars
<1>2. \A p \in Tasks : pc[p] = "start"
  BY <1>1 DEF RowInv, InTransaction
<1>3. \A p \in Tasks : \A a \in Addrs :
        ~Wrote(p, a) /\ ~Wrote(p, a)' /\ ~Writes(p, a) /\ ~Writes(p, a)'
  BY <1>1, <1>2 DEF RowInv, Known, Wrote, Writes
<1>4. RowTypes'
  <2>1. \A a \in Addrs : row[a].first \in Upto /\ row[a].last \in Upto
    BY DEF RowInv, RowTypes, Rows
  <2>2. cache' \in [Addrs -> [first : Upto, last : Upto]]
    BY <2>1, <1>1, RowBounds DEF NoTimes, Upto
  <2> QED BY <2>2, <1>1 DEF RowInv, RowTypes
<1>5. InTransaction' BY <1>1, <1>2 DEF RowInv, InTransaction
<1>15. \A q \in Tasks : \A r \in Tasks : AddsTo(q, r)' = AddsTo(q, r)
  BY <1>1, SameJobs
<1>6. \A a \in Addrs : row[a] # NoRow => row[a].first # 0 /\ a \in Loaded
  BY DEF RowInv, Known
<1>7. Known'
  <2>1. \A a \in Addrs : row[a] # NoRow => cache'[a] # NoTimes
    BY <1>1, <1>6 DEF NoTimes
  <2> QED BY <2>1, <1>1, <1>3, <1>6 DEF Known, Loaded
<1>8. Absent' BY <1>3 DEF Absent
<1>9. Limited' BY <1>1, <1>3, <1>15 DEF RowInv, Limited
<1>10. Counted' BY <1>1 DEF RowInv, Counted, Existing, Fresh, Wrote
<1>11. \A a \in Addrs : /\ Stored(a)' = Stored(a) /\ Seen(a)' = Stored(a)
                        /\ \A p \in Tasks : With(p, a)' = With(p, a)
  BY <1>1, <1>3 DEF With, Stored, Seen, Written
<1>12. Exact' BY <1>1, <1>2, <1>3, <1>11 DEF RowInv, Exact
<1>13. \A a \in Addrs \ raced : Span(cache'[a], Stored(a))
  <2> SUFFICES ASSUME NEW a \in Addrs \ raced PROVE Span(cache'[a], Stored(a))
    OBVIOUS
  <2>1. Span(row[a], Stored(a)) BY DEF RowInv, Spans
  <2>2. CASE a \in Loaded
    <3>1. cache'[a] = [first |-> row[a].first, last |-> row[a].last]
      BY <1>1, <2>2
    <3> QED BY <2>1, <3>1 DEF Span
  <2>3. CASE a \notin Loaded
    <3>1. row[a] = NoRow /\ cache'[a] = NoTimes BY <1>1, <1>6, <2>3
    <3> QED BY <2>1, <3>1 DEF Span, NoRow, NoTimes
  <2> QED BY <2>2, <2>3
<1>14. Spans' BY <1>1, <1>3, <1>11, <1>13 DEF RowInv, Spans
<1> QED BY <1>4, <1>5, <1>7, <1>8, <1>9, <1>10, <1>12, <1>14 DEF RowInv
-----------------------------------------------------------------------------
\* Times are positive.
LEMMA Positive ==
  ASSUME RowInv, NEW a \in Addrs
  PROVE  /\ Stored(a) \subseteq Nat /\ 0 \notin Stored(a)
         /\ Written(a) \subseteq Nat /\ 0 \notin Written(a)
<1>1. \A q \in Tasks : done[q] \in Nat
  BY RowBounds DEF RowInv, InTransaction, Upto
<1>2. "utxo" \in Tasks /\ "nep5" \in Tasks BY DEF Tasks
<1>3. \A q \in Tasks : \A t \in With(q, a) : t \in Nat /\ t # 0
  BY <1>1 DEF With
<1>5. openedAt[a] \subseteq 1..MaxTx BY DEF RowInv, RowTypes
<1>4. Stored(a) \subseteq Nat /\ 0 \notin Stored(a)
  BY <1>2, <1>3, <1>5, RowBounds DEF Stored
<1> QED BY <1>1, <1>4 DEF Written

\* Looking into the cache finds what has to be asked for.
LEMMA LookSpan ==
  ASSUME NEW T \in SUBSET Nat, 0 \notin T, NEW t \in Nat, t # 0,
         NEW c \in [first : Upto, last : Upto], Span(c, T),
         NEW new, new = IF c = NoTimes THEN [first |-> t, last |-> t]
                        ELSE [first |-> Earlier(c.first, t), last |-> Later(c.last, t)],
         NEW st, st = IF c = NoTimes THEN [insert |-> TRUE, first |-> t, last |-> t]
                      ELSE [insert |-> FALSE,
                            first |-> IF new.first # c.first THEN t ELSE 0,
                            last |-> IF new.last # c.last THEN t ELSE 0]
  PROVE  Span(new, T \cup {t}) /\ Asks(st, T, t)
<1>1. CASE T = {}
  <2>1. c.first = 0 /\ c.last = 0 BY <1>1 DEF Span
  <2>2. c = NoTimes BY <2>1 DEF NoTimes
  <2>3. /\ new.first = t /\ new.last = t
        /\ st.insert = TRUE /\ st.first = t /\ st.last = t
    BY <2>2
  <2> QED BY <1>1, <2>3 DEF Span, Asks
<1>2. CASE T # {}
  <2>1. /\ c.first \in T /\ c.last \in T /\ c.first \in Nat /\ c.last \in Nat
        /\ \A s \in T : c.first <= s /\ s <= c.last
    BY <1>2 DEF Span
  <2>2. c # NoTimes BY <2>1 DEF NoTimes
  <2>3. /\ new.first = IF c.first > t THEN t ELSE c.first
        /\ new.last = IF c.last < t THEN t ELSE c.last
        /\ st.insert = FALSE
        /\ st.first = IF new.first # c.first THEN t ELSE 0
        /\ st.last = IF new.last # c.last THEN t ELSE 0
    BY <2>2 DEF Earlier, Later
  <2>4. /\ new.first \in T \cup {t} /\ new.last \in T \cup {t}
        /\ \A s \in T \cup {t} : new.first <= s /\ s <= new.last
    BY <2>1, <2>3
  <2>5. Span(new, T \cup {t}) BY <2>4 DEF Span
  <2>6. Asks(st, T, t) BY <1>2, <2>1, <2>3 DEF Asks
  <2> QED BY <2>5, <2>6
<1> QED BY <1>1, <1>2

LEMMA LookRows == ASSUME IInv, RowInv, NEW p \in Tasks, Look(p) PROVE RowInv'
<1> USE RowBounds
<1> DEFINE a == Addr(p)
           t == done[p] + 1
           new == IF Missing(a) THEN [first |-> t, last |-> t]
                  ELSE [first |-> Earlier(cache[a].first, t),
                        last |-> Later(cache[a].last, t)]
           st == IF Missing(a) THEN [insert |-> TRUE, first |-> t, last |-> t]
                 ELSE [insert |-> FALSE,
                       first |-> IF new.first # cache[a].first THEN t ELSE 0,
                       last |-> IF new.last # cache[a].last THEN t ELSE 0]
           o == Other(p)
<1>1. /\ up /\ pc[p] = "look" /\ pc' = [pc EXCEPT ![p] = "write"]
      /\ cache' = [cache EXCEPT ![a] = new] /\ query' = [query EXCEPT ![p] = st]
      /\ raced' = IF pc[o] = "write" /\ Addr(o) = a THEN raced \cup {a} ELSE raced
      /\ UNCHANGED <<touches, asks, answered, openedAt, up, todo, pending, created, row, held, cntAddr, done, lock>>
  BY DEF Look, Working, dbVars, given, balVars
<1>2. a \in todo[p] /\ a \in Addrs
  <2>1. todo[p] \in SUBSET Addrs /\ todo[p] # {}
    BY <1>1 DEF IInv, LockTypes, LeftWhileAtRows
  <2> QED BY <2>1, LeastIsLeast DEF Addr
<1>3. t \in Upto /\ t \in Nat /\ t # 0
  BY <1>1 DEF RowInv, InTransaction, Upto
<1>4. cache[a] \in [first : Upto, last : Upto]
  BY <1>2 DEF RowInv, RowTypes
<1>5. /\ new \in [first : Upto, last : Upto] /\ new # NoTimes
      /\ st \in [insert : BOOLEAN, first : Upto, last : Upto]
      /\ st.insert => cache[a] = NoTimes /\ st.first # 0
  BY <1>3, <1>4 DEF Missing, Earlier, Later, NoTimes, Upto
<1>6. \A T \in SUBSET Nat : 0 \notin T /\ Span(cache[a], T) =>
        Span(new, T \cup {t}) /\ Asks(st, T, t)
  BY <1>3, <1>4, LookSpan DEF Missing
<1> HIDE DEF new, st, a
<1>7. /\ \A q \in Tasks : \A b \in Addrs : Wrote(q, b)' <=> Wrote(q, b)
      /\ \A q \in Tasks : \A b \in Addrs : q # p =>
           (Writes(q, b)' <=> Writes(q, b)) /\ query'[q] = query[q] /\ pc'[q] = pc[q]
      /\ \A b \in Addrs : ~Writes(p, b) /\ (Writes(p, b)' <=> b = a)
      /\ query'[p] = st /\ pc'[p] = "write"
      /\ \A q \in Tasks : Job(q)' = Job(q)
  <2>1. \A q \in Tasks : Addr(q)' = Addr(q) /\ Job(q)' = Job(q)
    BY <1>1, SameJobs DEF Addr, Least
  <2>2. /\ \A q \in Tasks : q # p => query'[q] = query[q] /\ pc'[q] = pc[q]
        /\ query'[p] = st /\ pc'[p] = "write"
    BY <1>1 DEF RowInv, RowTypes, IInv, LockTypes
  <2> QED BY <1>1, <2>1, <2>2 DEF Wrote, Writes, a
<1>19. \A q \in Tasks : /\ (Asking(q)' <=> Asking(q))
                        /\ \A r \in Tasks : AddsTo(q, r)' = AddsTo(q, r)
  BY <1>1, SameJobs
<1>8. /\ cache'[a] = new
      /\ \A b \in Addrs : b # a => cache'[b] = cache[b]
      /\ \A b \in Addrs : cache[b] # NoTimes => cache'[b] # NoTimes
  BY <1>1, <1>2, <1>5 DEF RowInv, RowTypes
<1>9. RowTypes' BY <1>1, <1>5 DEF RowInv, RowTypes
<1>10. InTransaction'
  BY <1>1, <1>7 DEF RowInv, InTransaction
<1>11. Known'
  <2>1. \A b \in Addrs : row[b] # NoRow => row[b].first # 0 /\ b \in Loaded /\ cache'[b] # NoTimes
    BY <1>1, <1>8 DEF RowInv, Known
  <2>2. \A q \in Tasks : \A b \in Addrs : Wrote(q, b) \/ Writes(q, b)' => cache'[b] # NoTimes
    BY <1>5, <1>7, <1>8 DEF RowInv, Known
  <2>3. \A q \in Tasks : \A b \in Addrs : Wrote(q, b) =>
       /\ lock[b] = q /\ pc'[q] # "start" /\ b \in Job(q) \ todo[q]
       /\ pending[q][b].first # 0
    <3>1. \A q \in Tasks : pc[q] # "start" => pc'[q] # "start"
      BY <1>1 DEF IInv, LockTypes
    <3> QED BY <3>1 DEF RowInv, Known
  <2>4. UNCHANGED <<row, held, todo, pending, lock, up>> /\ Loaded' = Loaded
    BY <1>1 DEF Loaded
  <2>5. \A q \in Tasks : Job(q)' = Job(q) /\ \A b \in Addrs : Wrote(q, b)' <=> Wrote(q, b)
    BY <1>7
  <2> QED BY <2>1, <2>2, <2>3, <2>4, <2>5 DEF Known
<1>12. Absent'
  <2> SUFFICES ASSUME NEW r \in Tasks, NEW b \in Addrs, Writes(r, b)', query'[r].insert,
                      NEW q \in Tasks
               PROVE  /\ query'[r].first # 0 /\ row[b] = NoRow /\ ~Wrote(q, b)
                      /\ q # r => ~(Writes(q, b)' /\ query'[q].insert)
    BY <1>1, <1>7 DEF Absent
  <2>1. CASE r = p
    <3>1. b = a /\ st.first # 0 /\ cache[a] = NoTimes BY <2>1, <1>5, <1>7
    <3>2. row[a] = NoRow /\ ~Wrote(q, a) /\ ~Writes(q, a)
      BY <3>1, <1>1, <1>2 DEF RowInv, Known
    <3> QED BY <3>1, <3>2, <2>1, <1>7
  <2>2. CASE r # p
    <3>1. Writes(r, b) /\ query[r].insert /\ query'[r].first = query[r].first
      BY <2>2, <1>7
    <3>2. /\ query[r].first # 0 /\ row[b] = NoRow /\ ~Wrote(q, b)
          /\ q # r => ~(Writes(q, b) /\ query[q].insert)
      BY <3>1 DEF RowInv, Absent
    <3>3. cache[b] # NoTimes BY <3>1 DEF RowInv, Known
    <3>4. b = a => ~st.insert BY <3>3, <1>5
    <3> QED BY <3>1, <3>2, <3>4, <1>7
  <2> QED BY <2>1, <2>2
<1>13. Limited' BY <1>1, <1>7, <1>19 DEF RowInv, Limited
<1>14. Counted' BY <1>1 DEF RowInv, Counted, Existing, Fresh, Wrote
<1>15. \A b \in Addrs : \A q \in Tasks :
         With(q, b)' = With(q, b) /\ Stored(b)' = Stored(b) /\ Written(b)' = Written(b)
  BY <1>1, <1>7 DEF With, Stored, Written
<1>16. \A b \in Addrs \ raced' : b \notin raced
  BY <1>1
<1>17. Exact'
  <2> SUFFICES ASSUME NEW b \in Addrs \ raced', NEW q \in Tasks
               PROVE  /\ CountOf(row[b], q) = Cardinality(With(q, b))
                      /\ pc'[q] # "start" /\ ~Asking(q) /\ b \in Job(q) \ todo[q] => Wrote(q, b)
                      /\ Wrote(q, b) => \A r \in Tasks :
                           CountOf(pending[q][b], r) =
                           CountOf(row[b], r) + AddsTo(q, r)
    BY <1>1, <1>7, <1>15, <1>19 DEF Exact
  <2>1. pc'[q] # "start" => pc[q] # "start" BY <1>1, <1>7
  <2> QED BY <2>1, <1>16 DEF RowInv, Exact
<1>18. Spans'
  <2> SUFFICES ASSUME NEW b \in Addrs \ raced'
               PROVE  /\ Span(row[b], Stored(b))
                      /\ \A q \in Tasks : Wrote(q, b) =>
                           Span(pending[q][b], Stored(b) \cup {done[q] + 1})
                      /\ Span(cache'[b], Seen(b)')
                      /\ \A q \in Tasks : Writes(q, b)' =>
                           Asks(query'[q], Written(b), done[q] + 1)
                      /\ \A q, r \in Tasks : Writes(q, b)' /\ Writes(r, b)' => q = r
    BY <1>1, <1>7, <1>15 DEF Spans
  <2>1. /\ Span(row[b], Stored(b)) /\ Span(cache[b], Seen(b))
        /\ \A q \in Tasks : Wrote(q, b) => Span(pending[q][b], Stored(b) \cup {done[q] + 1})
        /\ \A q \in Tasks : Writes(q, b) => Asks(query[q], Written(b), done[q] + 1)
        /\ \A q, r \in Tasks : Writes(q, b) /\ Writes(r, b) => q = r
    BY <1>1, <1>16 DEF RowInv, Spans
  <2>2. CASE b # a
    <3>1. \A q \in Tasks : Writes(q, b)' <=> Writes(q, b) BY <2>2, <1>7
    <3>2. Seen(b)' = Seen(b) BY <3>1, <1>1, <1>15 DEF Seen
    <3>3. \A q \in Tasks : Writes(q, b) => q # p BY <1>7
    <3> QED BY <2>1, <2>2, <3>1, <3>2, <3>3, <1>7, <1>8
  <2>3. CASE b = a
    <3>1. ~Writes(o, b) BY <2>3, <1>1 DEF Writes
    <3>2. \A q \in Tasks : ~Writes(q, b) /\ (Writes(q, b)' <=> q = p)
      BY <2>3, <3>1, <1>7, OtherIs
    <3>3. Seen(b) = Written(b) BY <3>2 DEF Seen
    <3>4. Seen(b)' = Written(b) \cup {t}
      <4>1. {q \in Tasks : Writes(q, b)'} = {p} BY <3>2
      <4>2. Seen(b)' = Written(b) \cup {done[q] + 1 : q \in {p}}
        BY <4>1, <1>1, <1>15 DEF Seen
      <4> QED BY <4>2
    <3>5. Span(new, Written(b) \cup {t}) /\ Asks(st, Written(b), t)
      BY <2>1, <2>3, <3>3, <1>6, Positive
    <3>6. \A q \in Tasks : Writes(q, b)' => Asks(query'[q], Written(b), done[q] + 1)
      BY <3>2, <3>5, <1>7
    <3>7. Span(cache'[b], Seen(b)') BY <2>3, <3>4, <3>5, <1>8
    <3>8. \A q, r \in Tasks : Writes(q, b)' /\ Writes(r, b)' => q = r BY <3>2
    <3> QED BY <2>1, <3>6, <3>7, <3>8
  <2> QED BY <2>2, <2>3
<1> QED BY <1>9, <1>10, <1>11, <1>12, <1>13, <1>14, <1>17, <1>18 DEF RowInv
-----------------------------------------------------------------------------
LEMMA WriteRows == ASSUME IInv, RowInv, NEW p \in Tasks, Write(p) PROVE RowInv'
<1> USE RowBounds
<1>1. todo[p] \in SUBSET Addrs /\ todo[p] # {} /\ pc[p] = "write"
  BY DEF Write, IInv, LockTypes, LeftWhileAtRows
<1>2. PICK a \in Addrs : a = Addr(p) /\ a \in todo[p]
  BY <1>1, LeastIsLeast DEF Addr
<1>3. PICK new : new = IF query[p].insert THEN Inserted(p) ELSE Updated(p, row[a])
  OBVIOUS
<1>4. PICK left : left = todo[p] \ {a} OBVIOUS
<1>5. PICK t : t = done[p] + 1 OBVIOUS
<1>6. /\ up /\ lock[a] \in {Free, p}
      /\ pending' = [pending EXCEPT ![p][a] = new]
      /\ lock' = IF new = NoRow THEN lock ELSE [lock EXCEPT ![a] = p]
      /\ created' = [created EXCEPT ![p] = @ + (IF query[p].insert THEN 1 ELSE 0)]
      /\ query' = [query EXCEPT ![p] = NoQuery]
      /\ todo' = [todo EXCEPT ![p] = left] /\ pc' = [pc EXCEPT ![p] = NextPC(left)]
      /\ UNCHANGED <<touches, asks, answered, openedAt, up, cache, row, held, cntAddr, done, raced>>
  BY <1>2, <1>3, <1>4 DEF Write, Working, CanLock, dbVars, given, balVars
<1>7. /\ RowTypes /\ InTransaction /\ Known /\ Absent /\ Limited
      /\ Counted /\ Exact /\ Spans
  BY DEF RowInv
<1>8. Writes(p, a) BY <1>1, <1>2 DEF Writes
<1>9. \A q \in Tasks : ~Wrote(q, a)
  <2>1. ASSUME NEW q \in Tasks, Wrote(q, a) PROVE FALSE
    <3>1. lock[a] = q /\ a \notin todo[q] BY <2>1, <1>7 DEF Known
    <3> QED BY <3>1, <1>2, <1>6, Names
  <2> QED BY <2>1
<1>10. /\ new \in Rows
       /\ new = NoRow <=> ~query[p].insert /\ row[a] = NoRow
       /\ new # NoRow =>
            /\ new.first # 0
            /\ new.first = IF query[p].insert \/ query[p].first # 0
                           THEN query[p].first ELSE row[a].first
            /\ new.last = IF query[p].insert \/ query[p].last # 0
                          THEN query[p].last ELSE row[a].last
            /\ \A q \in Tasks : CountOf(new, q) =
                                CountOf(row[a], q) + AddsTo(p, q)
  <2>1. query[p].insert => query[p].first # 0 /\ row[a] = NoRow
    BY <1>7, <1>8 DEF Absent
  <2>2. row[a] \in Rows /\ (row[a] # NoRow => row[a].first # 0)
    BY <1>7 DEF RowTypes, Known
  <2> QED BY <2>1, <2>2, <1>3, <1>7, NewRowIs
<1>11. /\ pc'[p] \in {"look", "count"} /\ todo'[p] = left
       /\ \A q \in Tasks : q # p =>
            pc'[q] = pc[q] /\ todo'[q] = todo[q] /\ query'[q] = query[q]
       /\ \A q \in Tasks : /\ Job(q)' = Job(q) /\ (Asking(q)' <=> Asking(q))
                           /\ \A r \in Tasks : AddsTo(q, r)' = AddsTo(q, r)
  BY <1>6, SameJobs DEF IInv, LockTypes, RowInv, RowTypes, NextPC
<1>12. /\ pending'[p][a] = new
       /\ \A q \in Tasks : \A b \in Addrs : q # p \/ b # a => pending'[q][b] = pending[q][b]
       /\ \A b \in Addrs : b # a => lock'[b] = lock[b]
       /\ new # NoRow => lock'[a] = p
  BY <1>6, <1>7 DEF RowTypes, IInv, LockTypes
<1>13. /\ \A q \in Tasks : \A b \in Addrs :
            Wrote(q, b)' <=> Wrote(q, b) \/ (q = p /\ b = a /\ new # NoRow)
       /\ \A q \in Tasks : \A b \in Addrs : Writes(q, b)' <=> Writes(q, b) /\ q # p
  <2>1. \A q \in Tasks : q # p => Addr(q)' = Addr(q)
    BY <1>11 DEF Addr, Least
  <2> QED BY <2>1, <1>9, <1>11, <1>12 DEF Wrote, Writes
<1>14. RowTypes'
  BY <1>6, <1>7, <1>10, Nothing DEF RowTypes
<1>15. InTransaction'
  BY <1>1, <1>4, <1>6, <1>7, <1>11 DEF InTransaction
<1>16. Known'
  <2>1. ASSUME NEW q \in Tasks, NEW b \in Addrs, Wrote(q, b)'
        PROVE  /\ lock'[b] = q /\ pc'[q] # "start" /\ b \in Job(q) \ todo'[q]
               /\ pending'[q][b].first # 0 /\ cache[b] # NoTimes
    <3>1. CASE q = p /\ b = a
      <4>1. a \in Job(p) BY <1>1, <1>2, <1>7 DEF InTransaction
      <4>2. cache[a] # NoTimes BY <1>7, <1>8 DEF Known
      <4> QED BY <2>1, <3>1, <4>1, <4>2, <1>4, <1>9, <1>10, <1>11, <1>12, <1>13
    <3>2. CASE Wrote(q, b)
      <4>1. /\ lock[b] = q /\ pc[q] # "start" /\ b \in Job(q) \ todo[q]
            /\ pending[q][b].first # 0 /\ cache[b] # NoTimes
        BY <3>2, <1>7 DEF Known
      <4>2. b # a BY <3>2, <1>9
      <4>3. b \notin todo'[q] BY <4>1, <1>4, <1>11
      <4> QED BY <4>1, <4>2, <4>3, <1>11, <1>12
    <3> QED BY <2>1, <3>1, <3>2, <1>13
  <2>2. \A q \in Tasks : \A b \in Addrs : Writes(q, b)' => cache[b] # NoTimes
    BY <1>7, <1>13 DEF Known
  <2>3. Loaded' = Loaded BY <1>6 DEF Loaded
  <2> QED BY <2>1, <2>2, <2>3, <1>6, <1>7, <1>11 DEF Known
<1>17. Absent'
  <2> SUFFICES ASSUME NEW r \in Tasks, NEW b \in Addrs, Writes(r, b)', query'[r].insert,
                      NEW q \in Tasks
               PROVE  /\ query'[r].first # 0 /\ row[b] = NoRow /\ ~Wrote(q, b)'
                      /\ q # r => ~(Writes(q, b)' /\ query'[q].insert)
    BY <1>6 DEF Absent
  <2>1. Writes(r, b) /\ r # p /\ query[r].insert /\ query'[r].first = query[r].first
    BY <1>11, <1>13
  <2>2. /\ query[r].first # 0 /\ row[b] = NoRow /\ ~Wrote(q, b)
        /\ q # r => ~(Writes(q, b) /\ query[q].insert)
    BY <2>1, <1>7 DEF Absent
  <2>3. b = a => new = NoRow
    <3>1. b = a => ~(Writes(p, b) /\ query[p].insert)
      BY <2>1, <1>7 DEF Absent
    <3> QED BY <3>1, <2>2, <1>8, <1>10
  <2>4. Writes(q, b)' /\ query'[q].insert => Writes(q, b) /\ query[q].insert
    BY <1>11, <1>13
  <2> QED BY <2>1, <2>2, <2>3, <2>4, <1>13
<1>18. Limited'
  <2>1. ASSUME NEW q \in Tasks, NEW b \in Addrs, NEW r \in Tasks, Wrote(r, b)'
        PROVE  CountOf(pending'[r][b], q) <= done[q] + AddsTo(r, q)
    <3>1. CASE r = p /\ b = a
      <4>1. CountOf(new, q) = CountOf(row[a], q) + AddsTo(p, q)
        BY <2>1, <3>1, <1>9, <1>10, <1>13
      <4>2. CountOf(row[a], q) <= done[q] BY <1>7 DEF Limited
      <4>3. CountOf(row[a], q) \in Nat /\ done[q] \in Nat
        BY <1>7 DEF RowTypes, Rows, InTransaction, Upto, CountOf
      <4> QED BY <3>1, <4>1, <4>2, <4>3, <1>12, AddsIs
    <3>2. CASE r # p \/ b # a
      BY <2>1, <3>2, <1>7, <1>12, <1>13 DEF Limited
    <3> QED BY <3>1, <3>2
  <2> QED BY <2>1, <1>6, <1>7, <1>11 DEF Limited
<1>19. Counted'
  <2>1. Existing' = Existing /\ \A q \in Tasks : q # p => Fresh(q)' = Fresh(q)
    BY <1>6, <1>13 DEF Existing, Fresh
  <2>2. \A q \in Tasks : q # p => created'[q] = created[q]
    BY <1>6, <1>7 DEF RowTypes
  <2>3. created'[p] = Cardinality(Fresh(p)')
    <3>1. IsFiniteSet(Fresh(p)) BY FS_Subset DEF Fresh
    <3>2. created[p] = Cardinality(Fresh(p)) BY <1>7 DEF Counted
    <3>3. CASE query[p].insert
      <4>1. row[a] = NoRow /\ new # NoRow
        BY <3>3, <1>7, <1>8, <1>10 DEF Absent
      <4>2. Fresh(p)' = Fresh(p) \cup {a} /\ a \notin Fresh(p)
        BY <4>1, <1>6, <1>9, <1>13 DEF Fresh
      <4>3. created'[p] = created[p] + 1
        BY <3>3, <1>6, <1>7 DEF RowTypes
      <4> QED BY <3>1, <3>2, <4>2, <4>3, FS_AddElement
    <3>4. CASE ~query[p].insert
      <4>1. Fresh(p)' = Fresh(p)
        BY <3>4, <1>6, <1>10, <1>13 DEF Fresh
      <4>2. created'[p] = created[p]
        BY <3>4, <1>6, <1>7 DEF RowTypes
      <4> QED BY <3>2, <4>1, <4>2
    <3> QED BY <3>3, <3>4
  <2> QED BY <2>1, <2>2, <2>3, <1>6, <1>7 DEF Counted
<1>20. \A b \in Addrs : Stored(b)' = Stored(b) /\ \A q \in Tasks : With(q, b)' = With(q, b)
  BY <1>6 DEF Stored, With
<1>21. a \notin raced => new # NoRow /\ Span(new, Stored(a) \cup {t}) /\ Written(a) = Stored(a)
  <2> SUFFICES ASSUME a \notin raced
               PROVE  new # NoRow /\ Span(new, Stored(a) \cup {t}) /\ Written(a) = Stored(a)
    OBVIOUS
  <2>1. Written(a) = Stored(a) BY <1>9 DEF Written
  <2>2. Span(row[a], Stored(a)) /\ Asks(query[p], Stored(a), t)
    BY <2>1, <1>5, <1>7, <1>8 DEF Spans
  <2>3. new # NoRow
    <3>1. ~query[p].insert => Stored(a) # {} BY <2>2 DEF Asks
    <3>2. Stored(a) # {} => row[a].first # 0 BY <2>2, Positive DEF Span
    <3> QED BY <3>1, <3>2, <1>10, Nothing
  <2>4. t \in Nat /\ t # 0 BY <1>5, <1>7 DEF InTransaction, Upto
  <2> QED BY <2>1, <2>2, <2>3, <2>4, <1>10, Positive, AskedSpan
<1>22. Exact'
  <2> SUFFICES ASSUME NEW b \in Addrs \ raced, NEW q \in Tasks
               PROVE  /\ CountOf(row[b], q) = Cardinality(With(q, b))
                      /\ pc'[q] # "start" /\ ~Asking(q) /\ b \in Job(q) \ todo'[q] => Wrote(q, b)'
                      /\ Wrote(q, b)' => \A r \in Tasks :
                           CountOf(pending'[q][b], r) =
                           CountOf(row[b], r) + AddsTo(q, r)
    BY <1>6, <1>11, <1>20 DEF Exact
  <2>1. /\ CountOf(row[b], q) = Cardinality(With(q, b))
        /\ pc[q] # "start" /\ ~Asking(q) /\ b \in Job(q) \ todo[q] => Wrote(q, b)
        /\ Wrote(q, b) => \A r \in Tasks :
             CountOf(pending[q][b], r) = CountOf(row[b], r) + AddsTo(q, r)
    BY <1>7 DEF Exact
  <2>2. CASE q = p /\ b = a
    BY <2>1, <2>2, <1>10, <1>12, <1>13, <1>21
  <2>3. CASE q # p \/ b # a
    <3>1. pc'[q] # "start" => pc[q] # "start" BY <1>1, <1>11
    <3>2. b \notin todo'[q] => b \notin todo[q] BY <2>3, <1>4, <1>11
    <3> QED BY <2>1, <2>3, <3>1, <3>2, <1>12, <1>13
  <2> QED BY <2>2, <2>3
<1>23. Spans'
  <2> SUFFICES ASSUME NEW b \in Addrs \ raced
               PROVE  /\ Span(row[b], Stored(b))
                      /\ \A q \in Tasks : Wrote(q, b)' =>
                           Span(pending'[q][b], Stored(b) \cup {done[q] + 1})
                      /\ Span(cache[b], Seen(b)')
                      /\ \A q \in Tasks : Writes(q, b)' =>
                           Asks(query'[q], Written(b)', done[q] + 1)
                      /\ \A q, r \in Tasks : Writes(q, b)' /\ Writes(r, b)' => q = r
    BY <1>6, <1>20 DEF Spans
  <2>1. /\ Span(row[b], Stored(b)) /\ Span(cache[b], Seen(b))
        /\ \A q \in Tasks : Wrote(q, b) => Span(pending[q][b], Stored(b) \cup {done[q] + 1})
        /\ \A q \in Tasks : Writes(q, b) => Asks(query[q], Written(b), done[q] + 1)
        /\ \A q, r \in Tasks : Writes(q, b) /\ Writes(r, b) => q = r
    BY <1>6, <1>7 DEF Spans
  <2>2. \A q, r \in Tasks : Writes(q, b)' /\ Writes(r, b)' => q = r
    BY <2>1, <1>13
  <2>3. CASE b # a
    <3>1. \A q \in Tasks : (Wrote(q, b)' <=> Wrote(q, b)) /\ (Writes(q, b)' <=> Writes(q, b))
      <4>1. \A q \in Tasks : Writes(q, b) => q # p BY <2>3, <1>2 DEF Writes
      <4> QED BY <4>1, <2>3, <1>13
    <3>2. Written(b)' = Written(b) /\ Seen(b)' = Seen(b)
      BY <3>1, <1>6, <1>20 DEF Written, Seen
    <3>3. \A q \in Tasks : Writes(q, b) => q # p
      BY <2>3, <1>2 DEF Writes
    <3> QED BY <2>1, <2>2, <2>3, <3>1, <3>2, <3>3, <1>11, <1>12
  <2>4. CASE b = a
    <3>1. \A q \in Tasks : (Wrote(q, b)' <=> q = p) /\ (Writes(q, b) <=> q = p) /\ ~Writes(q, b)'
      BY <2>1, <2>4, <1>8, <1>9, <1>13, <1>21
    <3>2. Seen(b) = Stored(b) \cup {t}
      <4>1. {q \in Tasks : Writes(q, b)} = {p} BY <3>1
      <4>2. Seen(b) = Written(b) \cup {done[q] + 1 : q \in {p}} BY <4>1 DEF Seen
      <4> QED BY <2>4, <4>2, <1>5, <1>21
    <3>3. Seen(b)' = Stored(b) \cup {t}
      <4>1. {q \in Tasks : Writes(q, b)'} = {} /\ {q \in Tasks : Wrote(q, b)'} = {p} BY <3>1
      <4>2. Seen(b)' = Stored(b) \cup {done[q] + 1 : q \in {p}}
        BY <4>1, <1>6, <1>20 DEF Seen, Written
      <4> QED BY <4>2, <1>5
    <3>4. \A q \in Tasks : Wrote(q, b)' =>
            Span(pending'[q][b], Stored(b) \cup {done[q] + 1})
      BY <2>4, <3>1, <1>5, <1>12, <1>21
    <3> QED BY <2>1, <2>2, <3>1, <3>2, <3>3, <3>4
  <2> QED BY <2>3, <2>4
<1> QED BY <1>14, <1>15, <1>16, <1>17, <1>18, <1>19, <1>22, <1>23 DEF RowInv
-----------------------------------------------------------------------------
\* The commit adds the transaction to the times of the addresses it has, and that
\* of a balance to none.
LEMMA WithMore ==
  ASSUME NEW p \in Tasks, NEW a \in Addrs, done \in [Tasks -> Nat],
         done' = [done EXCEPT ![p] = @ + Adds(p)], UNCHANGED <<touches, asks>>
  PROVE  /\ ~Asking(p) /\ a \in Job(p) => With(p, a)' = With(p, a) \cup {done[p] + 1}
         /\ Asking(p) \/ a \notin Job(p) => With(p, a)' = With(p, a)
         /\ \A q \in Tasks : q # p => With(q, a)' = With(q, a)
         /\ IsFiniteSet(With(p, a)) /\ done[p] + 1 \notin With(p, a)
<1>1. done'[p] = done[p] + Adds(p) /\ \A q \in Tasks : q # p => done'[q] = done[q]
  OBVIOUS
<1>2. 1..(done[p] + 1) = (1..done[p]) \cup {done[p] + 1} OBVIOUS
<1>3. IsFiniteSet(With(p, a)) /\ done[p] + 1 \notin With(p, a)
  <2>1. IsFiniteSet(1..done[p]) BY FS_Interval
  <2> QED BY <2>1, FS_Subset DEF With
<1>4. With(p, a)' = {s \in 1..(done[p] + Adds(p)) : a \in touches[p][s]}
  BY <1>1 DEF With
<1>5. \A q \in Tasks : q # p => With(q, a)' = With(q, a)
  BY <1>1 DEF With
<1>6. CASE Asking(p)
  <2>1. done[p] + Adds(p) = done[p] BY <1>6 DEF Adds
  <2> QED BY <1>3, <1>4, <1>5, <1>6, <2>1 DEF With
<1>7. CASE ~Asking(p)
  <2>1. Adds(p) = 1 BY <1>7 DEF Adds
  <2>2. a \in Job(p) <=> a \in touches[p][done[p] + 1] BY <1>7 DEF Job
  <2> QED BY <1>2, <1>3, <1>4, <1>5, <1>7, <2>1, <2>2 DEF With
<1> QED BY <1>6, <1>7

LEMMA CommitRows == ASSUME IInv, RowInv, NEW p \in Tasks, Commit(p) PROVE RowInv'
<1> USE RowBounds
<1>1. /\ up /\ pc[p] = "commit" /\ done[p] < MaxTx
      /\ row' = [b \in Addrs |-> IF Wrote(p, b) THEN pending[p][b] ELSE row[b]]
      /\ held' = [held EXCEPT ![p] = @ \cup Job(p)]
      /\ cntAddr' = cntAddr + created[p]
      /\ done' = [done EXCEPT ![p] = @ + Adds(p)]
      /\ openedAt' = [b \in Addrs |-> openedAt[b] \cup
                        IF Asking(p) /\ Wrote(p, b) THEN {done[p] + 1} ELSE {}]
      /\ lock' = [k \in DOMAIN lock |-> IF lock[k] = p THEN Free ELSE lock[k]]
      /\ pending' = [pending EXCEPT ![p] = [b \in Addrs |-> NoRow]]
      /\ created' = [created EXCEPT ![p] = 0]
      /\ pc' = [pc EXCEPT ![p] = "start"]
      /\ UNCHANGED <<touches, asks, up, todo, query, cache, raced>>
      /\ Asking(p) => answered' = done[p] + 1
      /\ ~Asking(p) => answered' = answered
  <2>1. openedAt' = [b \in Addrs |-> openedAt[b] \cup
                        IF Asking(p) /\ Wrote(p, b) THEN {done[p] + 1} ELSE {}]
    <3>1. openedAt \in [Addrs -> SUBSET (1..MaxTx)] BY DEF RowInv, RowTypes
    <3>2. CASE Asking(p) BY <3>2 DEF Commit, Wrote
    <3>3. CASE ~Asking(p) BY <3>1, <3>3 DEF Commit, balVars
    <3> QED BY <3>2, <3>3
  <2> QED BY <2>1 DEF Commit, Working, Wrote, NewRows, given, balVars
<1>2. /\ RowTypes /\ InTransaction /\ Known /\ Absent /\ Limited
      /\ Counted /\ Exact /\ Spans
  BY DEF RowInv
<1>3. todo[p] = {} /\ done[p] \in Nat /\ done \in [Tasks -> Nat]
  BY <1>1 DEF IInv, LockTypes, LeftWhileAtRows
<1>18. Adds(p) \in {0, 1} /\ (Asking(p) <=> Adds(p) = 0)
  BY AddsIs
<1>4. /\ pc'[p] = "start" /\ created'[p] = 0 /\ done'[p] = done[p] + Adds(p)
      /\ \A q \in Tasks : q # p =>
           /\ pc'[q] = pc[q] /\ pending'[q] = pending[q] /\ created'[q] = created[q]
           /\ done'[q] = done[q] /\ Job(q)' = Job(q) /\ (Asking(q)' <=> Asking(q))
           /\ \A r \in Tasks : AddsTo(q, r)' = AddsTo(q, r)
  <2>1. /\ pc'[p] = "start" /\ created'[p] = 0 /\ done'[p] = done[p] + Adds(p)
        /\ \A q \in Tasks : q # p =>
             /\ pc'[q] = pc[q] /\ pending'[q] = pending[q] /\ created'[q] = created[q]
             /\ done'[q] = done[q]
    BY <1>1, <1>2 DEF IInv, LockTypes, RowTypes
  <2>2. ASSUME NEW q \in Tasks, q # p PROVE Asking(q)' <=> Asking(q)
    <3>1. CASE q = "utxo" BY <3>1 DEF Asking
    <3>2. CASE q = "nep5"
      <4>1. p = "utxo" BY <2>2, <3>2 DEF Tasks
      <4>2. ~Asking(p) BY <4>1 DEF Asking
      <4> QED BY <4>2, <2>1, <2>2, <1>1 DEF Asking
    <3> QED BY <3>1, <3>2 DEF Tasks
  <2> QED BY <2>1, <2>2, <1>1 DEF Job, Adds, AddsTo
<1>5. \A q \in Tasks : \A b \in Addrs :
        /\ Wrote(q, b)' <=> q # p /\ Wrote(q, b)
        /\ Writes(q, b)' <=> Writes(q, b)
        /\ Writes(q, b) => q # p
        /\ Wrote(q, b) /\ q # p => ~Wrote(p, b)
  <2>1. \A q \in Tasks : Addr(q)' = Addr(q) BY <1>1 DEF Addr, Least
  <2>2. \A q \in Tasks : \A b \in Addrs : Wrote(q, b) => lock[b] = q
    BY <1>2 DEF Known
  <2>3. \A q \in Tasks : \A b \in Addrs : Wrote(q, b)' <=> q # p /\ Wrote(q, b)
    BY <1>1, <1>2, <1>4 DEF Wrote, RowTypes
  <2>4. \A q \in Tasks : \A b \in Addrs : (Writes(q, b)' <=> Writes(q, b)) /\ (Writes(q, b) => q # p)
    BY <2>1, <1>1, <1>4 DEF Writes
  <2> QED BY <2>2, <2>3, <2>4
<1>6. \A b \in Addrs : row'[b] = IF Wrote(p, b) THEN pending[p][b] ELSE row[b]
  BY <1>1
<1>7. RowTypes'
  <2>1. Job(p) \in SUBSET Addrs BY <1>1, JobIs
  <2>2. row' \in [Addrs -> Rows] BY <1>1, <1>2 DEF RowTypes
  <2>3. held' \in [Tasks -> SUBSET Addrs] BY <2>1, <1>1, <1>2 DEF RowTypes
  <2>4. pending' \in [Tasks -> [Addrs -> Rows]] BY <1>1, <1>2, Nothing DEF RowTypes
  <2>5. done[p] + 1 \in 1..MaxTx BY <1>1, <1>3
  <2>6. answered' \in Upto BY <2>5, <1>1, <1>2 DEF RowTypes, Upto
  <2>7. openedAt' \in [Addrs -> SUBSET (1..MaxTx)] BY <2>5, <1>1, <1>2 DEF RowTypes
  <2> QED BY <2>2, <2>3, <2>4, <2>6, <2>7, <1>1, <1>2 DEF RowTypes
<1>8. InTransaction'
  <2>1. done'[p] \in Upto BY <1>1, <1>3, <1>4, <1>18 DEF Upto
  <2> QED BY <2>1, <1>1, <1>2, <1>4 DEF InTransaction
<1>9. \A q \in Tasks : \A b \in Addrs : Wrote(q, b) =>
        /\ lock[b] = q /\ pc[q] # "start" /\ b \in Job(q) \ todo[q]
        /\ pending[q][b].first # 0 /\ cache[b] # NoTimes
  BY <1>2 DEF Known
<1>10. Known'
  <2>1. ASSUME NEW q \in Tasks, NEW b \in Addrs, Wrote(q, b)'
        PROVE  /\ lock'[b] = q /\ pc'[q] # "start" /\ b \in Job(q)' \ todo[q]
               /\ pending'[q][b].first # 0
    <3>1. q # p /\ Wrote(q, b) BY <2>1, <1>5
    <3>2. lock'[b] = lock[b] BY <3>1, <1>1, <1>9 DEF IInv, LockTypes
    <3> QED BY <3>1, <3>2, <1>4, <1>9
  <2>2. ASSUME NEW b \in Addrs, row'[b] # NoRow
        PROVE  row'[b].first # 0 /\ b \in Loaded' /\ cache[b] # NoTimes
    <3>1. Loaded \cup Job(p) \subseteq Loaded'
      BY <1>1, <1>2 DEF Loaded, RowTypes, Tasks
    <3>2. CASE Wrote(p, b)
      <4>1. pending[p][b].first # 0 /\ b \in Job(p) /\ cache[b] # NoTimes
        BY <3>2, <1>9
      <4> QED BY <3>1, <3>2, <4>1, <1>6
    <3>3. CASE ~Wrote(p, b)
      BY <2>2, <3>1, <3>3, <1>1, <1>2, <1>6 DEF Known
    <3> QED BY <3>2, <3>3
  <2>3. \A q \in Tasks : \A b \in Addrs : Wrote(q, b)' \/ Writes(q, b)' => cache[b] # NoTimes
    BY <1>2, <1>5 DEF Known
  <2>4. cache' = cache /\ todo' = todo BY <1>1
  <2> QED BY <2>1, <2>2, <2>3, <2>4 DEF Known
<1>11. Absent'
  <2> SUFFICES ASSUME NEW r \in Tasks, NEW b \in Addrs, Writes(r, b)', query[r].insert,
                      NEW q \in Tasks
               PROVE  /\ query[r].first # 0 /\ row'[b] = NoRow /\ ~Wrote(q, b)'
                      /\ q # r => ~(Writes(q, b)' /\ query[q].insert)
    BY <1>1 DEF Absent
  <2> QED BY <1>2, <1>5, <1>6 DEF Absent
<1>12. Limited'
  <2>1. \A q \in Tasks : done'[q] = done[q] + AddsTo(p, q) /\ AddsTo(p, q) \in {0, 1}
    BY <1>3, <1>4, AddsIs
  <2>2. ASSUME NEW q \in Tasks, NEW b \in Addrs
        PROVE  /\ CountOf(row[b], q) \in Nat /\ done[q] \in Nat
               /\ \A r \in Tasks : CountOf(pending[r][b], q) \in Nat
    <3>1. \A r \in Rows : CountOf(r, q) \in Nat BY DEF Rows, CountOf
    <3>2. row[b] \in Rows /\ \A r \in Tasks : pending[r][b] \in Rows
      BY <1>2 DEF RowTypes
    <3>3. done[q] \in Nat BY <1>3
    <3> QED BY <3>1, <3>2, <3>3
  <2>3. ASSUME NEW q \in Tasks, NEW b \in Addrs
        PROVE  CountOf(row'[b], q) <= done'[q]
    <3>1. CASE Wrote(p, b) BY <3>1, <2>1, <1>2, <1>6 DEF Limited
    <3>2. CASE ~Wrote(p, b)
      <4>1. CountOf(row'[b], q) = CountOf(row[b], q) /\ CountOf(row[b], q) <= done[q]
        BY <3>2, <1>2, <1>6 DEF Limited
      <4> QED BY <4>1, <2>1, <2>2
    <3> QED BY <3>1, <3>2
  <2>4. ASSUME NEW q \in Tasks, NEW b \in Addrs, NEW r \in Tasks, Wrote(r, b)'
        PROVE  CountOf(pending'[r][b], q) <= done'[q] + AddsTo(r, q)
    <3>1. r # p /\ Wrote(r, b) /\ pending'[r] = pending[r] BY <2>4, <1>4, <1>5
    <3>2. CountOf(pending[r][b], q) <= done[q] + AddsTo(r, q)
      BY <3>1, <1>2 DEF Limited
    <3>3. AddsTo(r, q)' = AddsTo(r, q) /\ AddsTo(r, q) \in {0, 1}
      BY <3>1, <1>4, AddsIs
    <3>4. CountOf(pending'[r][b], q) = CountOf(pending[r][b], q) BY <3>1
    <3>5. /\ CountOf(pending[r][b], q) \in Nat /\ done[q] \in Nat
          /\ done'[q] \in Nat /\ done[q] <= done'[q]
      BY <2>1, <2>2
    <3> QED BY <3>2, <3>3, <3>4, <3>5
  <2>5. \A r \in Tasks : \A b \in Addrs : Wrote(r, b)' => r # p BY <1>5
  <2>6. \A r, q \in Tasks : r # p => AddsTo(r, q)' = AddsTo(r, q) BY <1>4
  <2> QED BY <2>3, <2>4, <2>5, <2>6 DEF Limited
<1>13. Counted'
  <2>1. Existing' = Existing \cup Fresh(p)
    <3>1. \A b \in Addrs : Wrote(p, b) => pending[p][b] # NoRow BY DEF Wrote
    <3> QED BY <3>1, <1>6 DEF Existing, Fresh
  <2>2. Existing \cap Fresh(p) = {} BY DEF Existing, Fresh
  <2>3. IsFiniteSet(Existing) /\ IsFiniteSet(Fresh(p))
    BY FS_Subset DEF Existing, Fresh
  <2>4. Cardinality(Existing') = Cardinality(Existing) + Cardinality(Fresh(p))
    <3>1. Cardinality(Existing \cup Fresh(p)) = Cardinality(Existing)
            + Cardinality(Fresh(p)) - Cardinality(Existing \cap Fresh(p))
      BY <2>3, FS_Union
    <3>2. Cardinality(Existing) \in Nat /\ Cardinality(Fresh(p)) \in Nat
      BY <2>3, FS_CardinalityType
    <3>3. Cardinality(Existing \cap Fresh(p)) = 0 BY <2>2, FS_EmptySet
    <3> QED BY <3>1, <3>2, <3>3, <2>1
  <2>5. \A q \in Tasks : q # p => Fresh(q)' = Fresh(q)
    BY <1>5, <1>6 DEF Fresh
  <2>6. Fresh(p)' = {} BY <1>5 DEF Fresh
  <2> QED BY <2>4, <2>5, <2>6, <1>1, <1>2, <1>4, FS_EmptySet DEF Counted
<1>14. ASSUME NEW b \in Addrs
       PROVE  /\ ~Asking(p) /\ b \in Job(p) => With(p, b)' = With(p, b) \cup {done[p] + 1}
              /\ Asking(p) \/ b \notin Job(p) => With(p, b)' = With(p, b)
              /\ \A q \in Tasks : q # p => With(q, b)' = With(q, b)
              /\ IsFiniteSet(With(p, b)) /\ done[p] + 1 \notin With(p, b)
  BY <1>1, <1>3, WithMore
<1>15. \A b \in Addrs \ raced : ~Asking(p) => (b \in Job(p) <=> Wrote(p, b))
  BY <1>1, <1>2, <1>3, <1>9 DEF Exact
<1>16. Exact'
  <2> SUFFICES ASSUME NEW b \in Addrs \ raced, NEW q \in Tasks
               PROVE  /\ CountOf(row'[b], q) = Cardinality(With(q, b)')
                      /\ pc'[q] # "start" /\ ~Asking(q)' /\ b \in Job(q)' \ todo[q] => Wrote(q, b)'
                      /\ Wrote(q, b)' => \A r \in Tasks :
                           CountOf(pending'[q][b], r) =
                           CountOf(row'[b], r) + AddsTo(q, r)'
    BY <1>1 DEF Exact
  <2>1. /\ CountOf(row[b], q) = Cardinality(With(q, b))
        /\ pc[q] # "start" /\ ~Asking(q) /\ b \in Job(q) \ todo[q] => Wrote(q, b)
        /\ Wrote(q, b) => \A r \in Tasks :
             CountOf(pending[q][b], r) = CountOf(row[b], r) + AddsTo(q, r)
        /\ Wrote(p, b) => CountOf(pending[p][b], q) =
                          CountOf(row[b], q) + AddsTo(p, q)
    BY <1>2 DEF Exact
  <2>2. CountOf(row'[b], q) = Cardinality(With(q, b)')
    <3>1. CountOf(row[b], q) \in Nat BY <1>2 DEF RowTypes, Rows, CountOf
    <3>2. CASE Wrote(p, b) /\ q = p /\ ~Asking(p)
      <4>1. CountOf(row'[b], q) = CountOf(row[b], q) + 1
        BY <3>2, <2>1, <1>6, AddsIs DEF Adds
      <4>2. With(p, b)' = With(p, b) \cup {done[p] + 1} BY <3>2, <1>14, <1>15
      <4>3. Cardinality(With(p, b)') = Cardinality(With(p, b)) + 1
        BY <4>2, <1>14, FS_AddElement
      <4> QED BY <4>1, <4>3, <3>2, <2>1
    <3>5. CASE Wrote(p, b) /\ q = p /\ Asking(p)
      <4>1. AddsTo(p, q) = 0 BY <3>5, AddsIs
      <4>2. CountOf(row'[b], q) = CountOf(row[b], q)
        <5>1. CountOf(row'[b], q) = CountOf(row[b], q) + AddsTo(p, q)
          BY <3>5, <2>1, <1>6
        <5> QED BY <5>1, <4>1, <3>1
      <4> QED BY <4>2, <3>5, <2>1, <1>14
    <3>3. CASE Wrote(p, b) /\ q # p
      <4>1. AddsTo(p, q) = 0 BY <3>3, AddsIs
      <4> QED BY <4>1, <3>1, <3>3, <2>1, <1>6, <1>14
    <3>4. CASE ~Wrote(p, b)
      <4>1. With(q, b)' = With(q, b) BY <3>4, <1>14, <1>15
      <4> QED BY <4>1, <3>4, <2>1, <1>6
    <3> QED BY <3>2, <3>3, <3>4, <3>5
  <2>3. pc'[q] # "start" /\ ~Asking(q)' /\ b \in Job(q)' \ todo[q] => Wrote(q, b)'
    BY <2>1, <1>4, <1>5
  <2>4. Wrote(q, b)' => \A r \in Tasks :
          CountOf(pending'[q][b], r) = CountOf(row'[b], r) + AddsTo(q, r)'
    BY <2>1, <1>4, <1>5, <1>6
  <2> QED BY <2>2, <2>3, <2>4
<1>17. Spans'
  <2> SUFFICES ASSUME NEW b \in Addrs \ raced
               PROVE  /\ Span(row'[b], Stored(b)')
                      /\ \A q \in Tasks : Wrote(q, b)' =>
                           Span(pending'[q][b], Stored(b)' \cup {done'[q] + 1})
                      /\ Span(cache[b], Seen(b)')
                      /\ \A q \in Tasks : Writes(q, b)' =>
                           Asks(query[q], Written(b)', done'[q] + 1)
                      /\ \A q, r \in Tasks : Writes(q, b)' /\ Writes(r, b)' => q = r
    BY <1>1 DEF Spans
  <2>1. /\ Span(row[b], Stored(b)) /\ Span(cache[b], Seen(b))
        /\ \A q \in Tasks : Wrote(q, b) => Span(pending[q][b], Stored(b) \cup {done[q] + 1})
        /\ \A q \in Tasks : Writes(q, b) => Asks(query[q], Written(b), done[q] + 1)
        /\ \A q, r \in Tasks : Writes(q, b) /\ Writes(r, b) => q = r
    BY <1>1, <1>2 DEF Spans
  <2>2. Stored(b)' = Stored(b) \cup {done[q] + 1 : q \in {q \in {p} : Wrote(q, b)}}
    <3>1. Tasks = {"utxo", "nep5"} BY DEF Tasks
    <3>2. openedAt'[b] = openedAt[b] \cup
            IF Asking(p) /\ Wrote(p, b) THEN {done[p] + 1} ELSE {}
      BY <1>1
    <3>3. CASE Wrote(p, b) /\ ~Asking(p)
      <4>1. With(p, b)' = With(p, b) \cup {done[p] + 1} BY <3>3, <1>14, <1>15
      <4>2. \A q \in Tasks : q # p => With(q, b)' = With(q, b) BY <1>14
      <4>3. openedAt'[b] = openedAt[b] BY <3>2, <3>3
      <4>4. Stored(b)' = Stored(b) \cup {done[p] + 1}
        BY <4>1, <4>2, <4>3, <3>1 DEF Stored
      <4> QED BY <4>4, <3>3
    <3>4. CASE Wrote(p, b) /\ Asking(p)
      <4>1. \A q \in Tasks : With(q, b)' = With(q, b) BY <3>4, <1>14
      <4>2. Stored(b)' = Stored(b) \cup {done[p] + 1}
        BY <4>1, <3>1, <3>2, <3>4 DEF Stored
      <4> QED BY <4>2, <3>4
    <3>5. CASE ~Wrote(p, b)
      <4>1. \A q \in Tasks : With(q, b)' = With(q, b) BY <3>5, <1>14, <1>15
      <4> QED BY <4>1, <3>1, <3>2, <3>5 DEF Stored
    <3> QED BY <3>3, <3>4, <3>5
  <2>3. Wrote(p, b) => Stored(b)' = Stored(b) \cup {done[p] + 1}
    BY <2>2
  <2>4. ~Wrote(p, b) => Stored(b)' = Stored(b)
    BY <2>2
  <2>5. Written(b)' = Written(b)
    <3>1. {done'[q] + 1 : q \in {q \in Tasks : Wrote(q, b)'}}
            = {done[q] + 1 : q \in {q \in Tasks : q # p /\ Wrote(q, b)}}
      BY <1>4, <1>5
    <3>2. Written(b)' = Stored(b)' \cup {done[q] + 1 : q \in {q \in Tasks : q # p /\ Wrote(q, b)}}
      BY <3>1 DEF Written
    <3> QED BY <3>2, <2>3, <2>4 DEF Written
  <2>6. Seen(b)' = Seen(b)
    <3>1. {done'[q] + 1 : q \in {q \in Tasks : Writes(q, b)'}}
            = {done[q] + 1 : q \in {q \in Tasks : Writes(q, b)}}
      BY <1>4, <1>5
    <3> QED BY <3>1, <2>5 DEF Seen
  <2>7. Span(row'[b], Stored(b)')
    BY <2>1, <2>3, <2>4, <1>6
  <2>8. \A q \in Tasks : Wrote(q, b)' =>
          Span(pending'[q][b], Stored(b)' \cup {done'[q] + 1})
    BY <2>1, <2>4, <1>4, <1>5
  <2>9. \A q \in Tasks : Writes(q, b)' => Asks(query[q], Written(b)', done'[q] + 1)
    BY <2>1, <2>5, <1>4, <1>5
  <2>10. \A q, r \in Tasks : Writes(q, b)' /\ Writes(r, b)' => q = r
    BY <2>1, <1>5
  <2> QED BY <2>1, <2>6, <2>7, <2>8, <2>9, <2>10
<1> QED BY <1>7, <1>8, <1>10, <1>11, <1>12, <1>13, <1>16, <1>17 DEF RowInv

\* Every step keeps the invariant of the rows.
LEMMA NextRows == ASSUME IInv, RowInv, [Next]_vars PROVE RowInv'
<1>1. CASE UNCHANGED vars
  <2>1. UNCHANGED <<touches, asks, answered, openedAt, up, query, cache, pending, created, row, held, cntAddr,
                    done, raced, pc, todo, lock>>
    BY <1>1 DEF vars, taskVars, dbVars, given, balVars
  <2>2. InTransaction' BY <2>1, SameJobs DEF RowInv, InTransaction
  <2>3. \A q \in Tasks : \A a \in Addrs : Wrote(q, a) =>
          lock[a] = q /\ pc[q] # "start" /\ a \notin todo[q]
    BY DEF RowInv, Known
  <2> QED BY <2>1, <2>2, <2>3, QuietStep
<1>2. ASSUME NEW p \in Tasks, Step(p) PROVE RowInv'
  BY <1>2, BeginRows, ExistsRows, LookRows, WriteRows, CountRows, CommitRows DEF Step
<1> QED BY <1>1, <1>2, CrashRows, StartRows DEF Next

\* What the tasks know, hold and count holds in every reachable state of
\* updateAddrInfo and the transactions around it.
THEOREM RowsInvariance == Spec => []RowInv
<1>1. IInv /\ RowInv /\ [Next]_vars => RowInv' BY NextRows
<1> QED BY <1>1, RowInit, LocksInvariance, PTL DEF Spec

\* No address is inserted twice, although GetAddrOrCreate decides by the cache
\* alone: the cache knows every row that is there or on its way.
THEOREM NoSecondInsert == Spec => []InsertedOnce
<1>1. ASSUME IInv, RowInv PROVE InsertedOnce
  <2>1. TypeOK
    <3>1. ASSUME NEW r \in Rows, \A q \in Tasks : CountOf(r, q) <= MaxTx
          PROVE  r \in RowType
      <4>1. r.utxo <= MaxTx /\ r.nep5 <= MaxTx
        BY <3>1 DEF CountOf, Tasks
      <4> QED BY <4>1, RowBounds DEF Rows, RowType, Upto
    <3>2. \A q \in Tasks : done[q] \in 0..MaxTx
      BY <1>1 DEF RowInv, InTransaction, Upto
    <3>3. ASSUME NEW b \in Addrs PROVE row[b] \in RowType
      <4>1. row[b] \in Rows BY <1>1 DEF RowInv, RowTypes
      <4>2. ASSUME NEW q \in Tasks PROVE CountOf(row[b], q) <= MaxTx
        <5>1. CountOf(row[b], q) <= done[q] /\ CountOf(row[b], q) \in Nat
          BY <4>1, <1>1 DEF RowInv, Limited, CountOf, Rows
        <5> QED BY <5>1, <3>2, RowBounds
      <4> QED BY <4>1, <4>2, <3>1
    <3>4. ASSUME NEW p \in Tasks, NEW b \in Addrs PROVE pending[p][b] \in RowType
      <4>1. pending[p][b] \in Rows BY <1>1 DEF RowInv, RowTypes
      <4>2. CASE ~Wrote(p, b)
        BY <4>1, <4>2, <3>1, Nothing, RowBounds DEF Wrote
      <4>3. CASE Wrote(p, b)
        <5>1. done[p] < MaxTx BY <4>3, <1>1 DEF RowInv, Known, InTransaction
        <5>2. ASSUME NEW q \in Tasks PROVE CountOf(pending[p][b], q) <= MaxTx
          <6>1. /\ CountOf(pending[p][b], q) \in Nat
                /\ CountOf(pending[p][b], q) <= done[q] + AddsTo(p, q)
                /\ AddsTo(p, q) = IF q = p THEN Adds(p) ELSE 0
                /\ Adds(p) \in {0, 1}
            BY <4>1, <4>3, <1>1, AddsIs DEF RowInv, Limited, CountOf, Rows
          <6> QED BY <6>1, <5>1, <3>2, RowBounds
        <5> QED BY <5>2, <4>1, <3>1
      <4> QED BY <4>2, <4>3
    <3>5. row \in [Addrs -> RowType] /\ \A p \in Tasks : pending[p] \in [Addrs -> RowType]
      BY <3>3, <3>4, <1>1 DEF RowInv, RowTypes
    <3>6. \A p \in Tasks : \A a \in Addrs : pending[p][a] # NoRow => lock[a] = p
      BY <1>1 DEF RowInv, Known, Wrote
    <3>7. \A p \in Tasks : /\ pc[p] \in {"start", "look", "write", "count", "commit"}
                           /\ todo[p] \subseteq Addrs
                           /\ todo[p] # {} <=> pc[p] \in {"look", "write"}
      BY <1>1 DEF IInv, LockTypes, LeftWhileAtRows
    <3> QED BY <3>2, <3>5, <3>6, <3>7, <1>1
        DEF TypeOK, IInv, LockTypes, RowInv, RowTypes, Upto
  <2>2. ASSUME NEW p \in Tasks, pc[p] = "write", query[p].insert
        PROVE  /\ row[Addr(p)] = NoRow
               /\ ~(/\ pc[Other(p)] = "write" /\ query[Other(p)].insert
                    /\ Addr(Other(p)) = Addr(p))
    <3>1. Addr(p) \in Addrs
      <4>1. todo[p] \in SUBSET Addrs /\ todo[p] # {}
        BY <2>2, <1>1 DEF IInv, LockTypes, LeftWhileAtRows
      <4> QED BY <4>1, LeastIsLeast DEF Addr
    <3> QED BY <3>1, <2>2, <1>1, OtherIs DEF RowInv, Absent, Writes
  <2> QED BY <2>1, <2>2 DEF InsertedOnce
<1> QED BY <1>1, LocksInvariance, RowsInvariance, PTL

\* Without a race between cache and table, the row of an address counts the
\* transactions of both tasks and spans their times, after any crashes; and
\* cnt_addr is always the number of rows.
THEOREM RowsAreExact == Spec => []RowsExact
<1>1. ASSUME RowInv PROVE RowsExact
  <2>1. cntAddr = Cardinality({a \in Addrs : row[a] # NoRow})
    BY <1>1 DEF RowInv, Counted, Existing
  <2>2. ASSUME NEW a \in Addrs \ raced
        PROVE  /\ row[a].utxo = Cardinality(With("utxo", a))
               /\ row[a].nep5 = Cardinality(With("nep5", a))
               /\ Stored(a) # {} => /\ row[a].first \in Stored(a)
                                    /\ row[a].last \in Stored(a)
                                    /\ \A t \in Stored(a) : t \in row[a].first..row[a].last
    <3>1. /\ CountOf(row[a], "utxo") = Cardinality(With("utxo", a))
          /\ CountOf(row[a], "nep5") = Cardinality(With("nep5", a))
      BY <1>1 DEF RowInv, Exact, Tasks
    <3>2. Span(row[a], Stored(a)) /\ Stored(a) \subseteq Nat
      BY <1>1, Positive DEF RowInv, Spans
    <3>3. Stored(a) # {} => \A t \in Stored(a) : t \in row[a].first..row[a].last
      BY <3>2 DEF Span
    <3> QED BY <3>1, <3>2, <3>3 DEF CountOf, Span
  <2> QED BY <2>1, <2>2 DEF RowsExact, Stored
<1> QED BY <1>1, RowsInvariance, PTL
=============================================================================
