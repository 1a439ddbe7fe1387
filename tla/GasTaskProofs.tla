---------------------------- MODULE GasTaskProofs ----------------------------
(***************************************************************************)
(* Machine-checked proofs about GasTask: what a balance may hold after any *)
(* number of crashes, lost connections and refused statements, that the    *)
(* cache is in the table, and what the rows of an address are as long as   *)
(* nothing went wrong.                                                     *)
(***************************************************************************)
EXTENDS GasTask, SequenceTheorems, TLAPS

\* The types of TypeOK, with those of the constants of a run and of the rows.
Types ==
  /\ TypeOK
  /\ day \in [Ids -> 1..Days] /\ touched \in [Ids -> SUBSET Addrs]
  /\ \A s, t \in Ids : s <= t => day[s] <= day[t]
  /\ rows \in [Addrs -> Seq(Records)]

\* The transaction at hand is the last one taken; the counter is behind it.
AtHand ==
  /\ cur # 0 => cur = nextPK - 1 /\ pending \subseteq touched[cur]
  /\ lastPk <= nextPK - 1
  /\ broken # {} => losses # 0
  /\ broken = {} => retrying \subseteq refused

\* What makes a change count once more.
Faults == losses + refusals

\* What a balance of an address may hold of a transaction.
Limit(a, t) == IF t \in AppliedTo(a) THEN 1 + Faults ELSE 0
RowsLimited ==
  \A a \in Addrs : \A i \in DOMAIN rows[a] : \A t \in Ids :
    /\ rows[a][i].bal[t] <= Limit(a, t)
    /\ lastPk < t => rows[a][i].bal[t] = 0

\* The cache may hold the transaction at hand once more per fault.
CacheLimited ==
  \A a \in Addrs : gasDateCache[a] # NoRecord => \A t \in Ids :
    gasDateCache[a].bal[t] <= IF a \in retrying /\ t = cur THEN Faults ELSE Limit(a, t)

\* As long as nothing goes wrong, the cache has the newest row of each address
\* without a refused one.
CacheIsNewest ==
  crashes + losses = 0 => \A a \in Addrs \ refused :
    IF rows[a] = <<>> THEN gasDateCache[a] = NoRecord
                      ELSE gasDateCache[a] = rows[a][Len(rows[a])]

\* The days of an address: one row each, in order, with the changes up to it.
DayRows(d, s, A) ==
  /\ \A i, j \in DOMAIN s : i < j => s[i].date < s[j].date
  /\ {s[i].date : i \in DOMAIN s} = {d[t] : t \in A}
  /\ \A i \in DOMAIN s : \A t \in Ids :
       s[i].bal[t] = IF t \in A /\ d[t] <= s[i].date THEN 1 ELSE 0

\* The inductive invariant.
IInv == Types /\ AtHand /\ RowsLimited /\ CacheLimited /\ CacheIsStored
        /\ CacheIsNewest /\ DailyHistory
-----------------------------------------------------------------------------
LEMMA NoRecordIs ==
  /\ NoRecord \notin Records
  /\ NoRecord.bal \in Balances /\ \A t \in Ids : NoRecord.bal[t] = 0
<1>1. NoRecord.date = 0 BY DEF NoRecord
<1>2. \A r \in Records : r.date \in 1..Days BY DEF Records
<1>3. NoRecord \notin Records BY <1>1, <1>2, GasBounds
<1> QED BY <1>3 DEF NoRecord, Balances

LEMMA InitIInv == Init => IInv
<1> SUFFICES ASSUME Init PROVE IInv OBVIOUS
<1> USE GasBounds
<1>1. /\ \A a \in Addrs : rows[a] = <<>> /\ gasDateCache[a] = NoRecord
      /\ \A a \in Addrs : DOMAIN rows[a] = {}
      /\ rows \in [Addrs -> Seq(Records)]
  BY EmptySeq DEF Init
<1>2. TypeOK BY <1>1 DEF Init, TypeOK
<1>3. Types BY <1>1, <1>2 DEF Init, Types
<1>4. AtHand BY DEF Init, AtHand
<1>5. RowsLimited /\ CacheLimited BY <1>1 DEF RowsLimited, CacheLimited
<1>6. CacheIsStored BY <1>1, <1>2 DEF CacheIsStored
<1>7. CacheIsNewest BY <1>1 DEF CacheIsNewest
<1>8. \A a \in Addrs : AppliedTo(a) = {}
  <2>1. 1..(nextPK - 1) = {} BY DEF Init
  <2> QED BY <2>1 DEF AppliedTo
<1>9. DailyHistory BY <1>1, <1>8 DEF DailyHistory
<1> QED BY <1>3, <1>4, <1>5, <1>6, <1>7, <1>9 DEF IInv

\* A transaction that was taken has not been applied to the addresses it is
\* pending for; those whose change was not read count as done.
LEMMA TakeStep ==
  ASSUME IInv, NEW t \in Ids, NEW read \in SUBSET touched[t], Take(t, read),
         \/ losses' = losses /\ read = touched[t]
         \/ losses' = losses + 1 /\ losses < MaxLosses
  PROVE  IInv'
<1> USE GasBounds
<1>1. /\ cur = 0 /\ t = nextPK /\ t <= txMax
      /\ nextPK' = t + 1 /\ pending' = read
      /\ cur' = IF read = {} THEN 0 ELSE t
      /\ UNCHANGED <<day, touched, txMax, gasDateCache, retrying, broken, refused, rows,
                     lastPk, crashes, refusals>>
  BY DEF Take, Takeable, netVars, dbVars, retryVars
<1>2. Types /\ TypeOK BY DEF IInv, Types
<1>3. pending = {} /\ retrying = {} /\ t \in 1..MaxTx /\ nextPK \in Nat
      /\ lastPk \in Nat /\ losses \in Nat /\ crashes \in Nat /\ refusals \in Nat
  BY <1>1, <1>2 DEF TypeOK, Ids
<1>4. TypeOK'
  <2>1. pending' \in SUBSET Addrs BY <1>1, <1>2 DEF Types
  <2>2. nextPK' \in 1..(MaxTx + 1) /\ cur' \in 0..MaxTx /\ (cur' = 0 <=> pending' = {})
    BY <1>1, <1>3
  <2>3. losses' \in 0..MaxLosses BY <1>2 DEF TypeOK
  <2> QED BY <2>1, <2>2, <2>3, <1>1, <1>2, <1>3 DEF TypeOK
<1>5. Types' BY <1>1, <1>2, <1>4 DEF Types
<1>6. AtHand' BY <1>1, <1>3 DEF IInv, AtHand
<1>7. \A a \in Addrs : /\ AppliedTo(a) \subseteq AppliedTo(a)'
                       /\ losses' = losses => AppliedTo(a)' = AppliedTo(a)
  <2> SUFFICES ASSUME NEW a \in Addrs, NEW s
               PROVE  /\ s \in AppliedTo(a) => s \in AppliedTo(a)'
                      /\ losses' = losses => (s \in AppliedTo(a)' => s \in AppliedTo(a))
    OBVIOUS
  <2>1. s \in AppliedTo(a) <=> s \in 1..(t - 1) /\ a \in touched[s]
    BY <1>1, <1>3 DEF AppliedTo
  <2>2. s \in AppliedTo(a)' <=>
          s \in 1..t /\ a \in touched[s] /\ ~(s = cur' /\ a \in pending')
    BY <1>1, <1>3 DEF AppliedTo
  <2>3. losses' = losses => (a \in touched[t] => t = cur' /\ a \in pending')
    BY <1>1, <1>3
  <2>4. s \in 1..(t - 1) => ~(s = cur') BY <1>1, <1>3
  <2>5. s \in 1..t <=> s \in 1..(t - 1) \/ s = t BY <1>3
  <2> QED BY <2>1, <2>2, <2>3, <2>4, <2>5
<1>8. \A a \in Addrs : \A s \in Ids :
        Limit(a, s) <= Limit(a, s)' /\ Limit(a, s) \in Nat /\ Limit(a, s)' \in Nat
  BY <1>1, <1>3, <1>7 DEF Limit, Faults
<1>9. RowsLimited'
  <2> SUFFICES ASSUME NEW a \in Addrs, NEW i \in DOMAIN rows[a], NEW s \in Ids
               PROVE  /\ rows[a][i].bal[s] <= Limit(a, s)'
                      /\ lastPk < s => rows[a][i].bal[s] = 0
    BY <1>1 DEF RowsLimited
  <2>1. rows[a][i].bal[s] \in Nat BY <1>2 DEF TypeOK, Records, Balances
  <2>2. /\ rows[a][i].bal[s] <= Limit(a, s)
        /\ lastPk < s => rows[a][i].bal[s] = 0
    BY DEF IInv, RowsLimited
  <2> QED BY <2>1, <2>2, <1>8
<1>10. CacheLimited'
  <2> SUFFICES ASSUME NEW a \in Addrs, gasDateCache[a] # NoRecord, NEW s \in Ids
               PROVE  gasDateCache[a].bal[s] <= Limit(a, s)'
    BY <1>1, <1>3 DEF CacheLimited
  <2>1. gasDateCache[a].bal[s] <= Limit(a, s) BY <1>3 DEF IInv, CacheLimited
  <2>2. gasDateCache[a].bal[s] \in Nat BY <1>2 DEF TypeOK, Records, Balances
  <2> QED BY <2>1, <2>2, <1>8
<1>11. CacheIsStored' BY <1>1, <1>4 DEF IInv, CacheIsStored
<1>12. crashes' + losses' = 0 => crashes + losses = 0 /\ losses' = losses
  BY <1>1, <1>3
<1>13. CacheIsNewest' BY <1>1, <1>12 DEF IInv, CacheIsNewest
<1>14. DailyHistory'
  <2>1. crashes' + losses' = 0 =>
          \A a \in Addrs \ refused : DayRows(day, rows[a], AppliedTo(a))
    BY <1>12 DEF IInv, DailyHistory, DayRows
  <2>2. crashes' + losses' = 0 =>
          \A a \in Addrs \ refused' : DayRows(day', rows'[a], AppliedTo(a)')
    BY <2>1, <1>1, <1>7, <1>12
  <2> QED BY <2>2 DEF DailyHistory, DayRows
<1> QED BY <1>5, <1>6, <1>9, <1>10, <1>11, <1>13, <1>14 DEF IInv

LEMMA NewTxStep == ASSUME IInv, NewTx PROVE IInv'
<1>1. /\ txMax < MaxTx /\ txMax' = txMax + 1
      /\ UNCHANGED <<day, touched, nextPK, cur, pending, gasDateCache, retrying, broken,
                     refused, rows, lastPk, crashes, losses, refusals>>
  BY DEF NewTx, memVars, retryVars, dbVars, faultVars
<1>2. TypeOK' BY <1>1, GasBounds DEF IInv, Types, TypeOK
<1>3. \A a \in Addrs : AppliedTo(a)' = AppliedTo(a) BY <1>1 DEF AppliedTo
<1>4. Types' /\ AtHand' BY <1>1, <1>2 DEF IInv, Types, AtHand
<1>5. RowsLimited' BY <1>1, <1>3 DEF IInv, RowsLimited, Limit, Faults
<1>6. CacheLimited' BY <1>1, <1>3 DEF IInv, CacheLimited, Limit, Faults
<1>7. CacheIsStored' BY <1>1, <1>2 DEF IInv, CacheIsStored
<1>8. CacheIsNewest' BY <1>1 DEF IInv, CacheIsNewest
<1>9. DailyHistory'
  <2>1. crashes + losses = 0 =>
          \A a \in Addrs \ refused : DayRows(day, rows[a], AppliedTo(a))
    BY DEF IInv, DailyHistory, DayRows
  <2>2. crashes' + losses' = 0 =>
          \A a \in Addrs \ refused' : DayRows(day', rows'[a], AppliedTo(a)')
    BY <2>1, <1>1, <1>3
  <2> QED BY <2>2 DEF DailyHistory, DayRows
<1> QED BY <1>4, <1>5, <1>6, <1>7, <1>8, <1>9 DEF IInv

\* After a restart behind the counter, everything up to the counter counts as
\* applied.
LEMMA CrashStep == ASSUME IInv, Crash PROVE IInv'
<1> USE GasBounds
<1>1. /\ crashes < MaxCrashes /\ crashes' = crashes + 1
      /\ nextPK' = lastPk + 1 /\ cur' = 0 /\ pending' = {} /\ retrying' = {}
      /\ broken' = {} /\ refused' = {}
      /\ gasDateCache' = [a \in Addrs |-> NoRecord]
      /\ UNCHANGED <<day, touched, txMax, rows, lastPk, losses, refusals>>
  BY DEF Crash, Restarted, Resume, netVars, dbVars
<1>2. Types /\ TypeOK BY DEF IInv, Types
<1>3. TypeOK' BY <1>1, <1>2 DEF TypeOK
<1>4. Types' BY <1>1, <1>2, <1>3 DEF Types
<1>5. AtHand' BY <1>1, <1>2 DEF AtHand, TypeOK
<1>6. \A a \in Addrs : \A t \in Ids : t \in AppliedTo(a) /\ ~(lastPk < t) => t \in AppliedTo(a)'
  BY <1>1, <1>2 DEF AppliedTo, TypeOK, Ids
<1>7. RowsLimited'
  <2> SUFFICES ASSUME NEW a \in Addrs, NEW i \in DOMAIN rows[a], NEW t \in Ids
               PROVE  /\ rows[a][i].bal[t] <= Limit(a, t)'
                      /\ lastPk < t => rows[a][i].bal[t] = 0
    BY <1>1 DEF RowsLimited
  <2>1. /\ rows[a][i].bal[t] <= Limit(a, t)
        /\ lastPk < t => rows[a][i].bal[t] = 0
    BY DEF IInv, RowsLimited
  <2>2. 0 <= Limit(a, t)' BY <1>1, <1>2 DEF Limit, Faults, TypeOK
  <2>3. ~(lastPk < t) => Limit(a, t)' = Limit(a, t) \/ Limit(a, t) = 0
    BY <1>1, <1>6 DEF Limit, Faults
  <2>4. rows[a][i].bal[t] \in Nat BY <1>2 DEF TypeOK, Records, Balances
  <2> QED BY <2>1, <2>2, <2>3, <2>4
<1>8. CacheLimited' BY <1>1 DEF CacheLimited
<1>9. CacheIsStored' BY <1>1, <1>3 DEF CacheIsStored
<1>10. CacheIsNewest' /\ DailyHistory'
  BY <1>1, <1>2 DEF CacheIsNewest, DailyHistory, TypeOK
<1> QED BY <1>4, <1>5, <1>7, <1>8, <1>9, <1>10 DEF IInv
-----------------------------------------------------------------------------
\* The new entry is a record: the balance before and the transaction at hand.
LEMMA NewEntryIs ==
  ASSUME IInv, NEW a \in Addrs, Turn(a), NEW e, e = NewEntry(a)
  PROVE  /\ e \in Records /\ cur \in Ids /\ a \in pending /\ a \in touched[cur]
         /\ e.date = day[cur] /\ e # NoRecord
         /\ cur \notin AppliedTo(a)
         /\ \A t \in Ids : /\ e.bal[t] <= Limit(a, t) + (IF t = cur THEN 1 + Faults ELSE 0)
                           /\ retrying = {} /\ t = cur => e.bal[t] <= 1
                           /\ cur < t => e.bal[t] = 0
         /\ \A t \in Ids : e.bal[t] =
              (IF gasDateCache[a] = NoRecord THEN StoredBalance(a)
                                             ELSE gasDateCache[a].bal)[t]
              + (IF t = cur THEN 1 ELSE 0)
<1> USE GasBounds
<1> DEFINE old == IF gasDateCache[a] = NoRecord THEN StoredBalance(a)
                                                ELSE gasDateCache[a].bal
<1>1. Types /\ TypeOK BY DEF IInv, Types
<1>2. /\ a \in pending /\ cur \in Ids /\ pending \subseteq touched[cur]
      /\ cur = nextPK - 1 /\ lastPk \in Nat /\ Faults \in Nat /\ lastPk <= cur
      /\ retrying \subseteq {a}
  BY <1>1 DEF Turn, TypeOK, IInv, AtHand, Ids, Faults
<1>3. cur \notin AppliedTo(a) BY <1>2 DEF AppliedTo
<1>4. \A t \in Ids : Limit(a, t) \in Nat /\ (cur < t => t \notin AppliedTo(a))
  BY <1>2 DEF Limit, AppliedTo, Ids
<1>5. /\ old \in Balances
      /\ \A t \in Ids : /\ old[t] <= Limit(a, t) + (IF t = cur THEN Faults ELSE 0)
                        /\ retrying = {} /\ t = cur => old[t] = 0
                        /\ cur < t => old[t] = 0
  <2>1. CASE gasDateCache[a] # NoRecord
    <3>1. gasDateCache[a] \in Records BY <2>1, <1>1 DEF TypeOK
    <3>2. \A t \in Ids : gasDateCache[a].bal[t] <=
            IF a \in retrying /\ t = cur THEN Faults ELSE Limit(a, t)
      BY <2>1 DEF IInv, CacheLimited
    <3>3. old = gasDateCache[a].bal /\ old \in [Ids -> Nat]
      BY <2>1, <3>1 DEF Records, Balances
    <3>4. \A t \in Ids : cur < t => Limit(a, t) = 0 BY <1>4 DEF Limit
    <3>5. Limit(a, cur) = 0 BY <1>3 DEF Limit
    <3> HIDE DEF old
    <3>6. ASSUME NEW t \in Ids
          PROVE  /\ old[t] <= Limit(a, t) + (IF t = cur THEN Faults ELSE 0)
                 /\ retrying = {} /\ t = cur => old[t] = 0
                 /\ cur < t => old[t] = 0
      <4>1. old[t] \in Nat /\ Limit(a, t) \in Nat /\ t \in Nat
        BY <3>3, <1>4 DEF Ids
      <4>2. old[t] <= IF a \in retrying /\ t = cur THEN Faults ELSE Limit(a, t)
        BY <3>2, <3>3
      <4> QED BY <4>1, <4>2, <3>4, <3>5, <1>2
    <3> QED BY <3>3, <3>6 DEF Balances
  <2>2. CASE gasDateCache[a] = NoRecord /\ rows[a] = <<>>
    <3>1. old = NoRecord.bal BY <2>2 DEF StoredBalance
    <3> QED BY <3>1, <1>2, <1>4, NoRecordIs
  <2>3. CASE gasDateCache[a] = NoRecord /\ rows[a] # <<>>
    <3> DEFINE n == Len(rows[a])
    <3>1. n \in DOMAIN rows[a]
      <4>1. rows[a] \in Seq(Records) BY <1>1 DEF Types
      <4> QED BY <4>1, <2>3, EmptySeq, LenProperties
    <3>2. rows[a][n] \in Records /\ old = rows[a][n].bal
      BY <2>3, <3>1, <1>1 DEF StoredBalance, TypeOK
    <3>3. \A t \in Ids : /\ rows[a][n].bal[t] <= Limit(a, t)
                         /\ lastPk < t => rows[a][n].bal[t] = 0
      BY <3>1 DEF IInv, RowsLimited
    <3>4. old \in [Ids -> Nat] BY <3>2 DEF Records, Balances
    <3>5. Limit(a, cur) = 0 BY <1>3 DEF Limit
    <3>6. \A t \in Ids : cur < t => lastPk < t BY <1>2 DEF Ids
    <3> HIDE DEF old, n
    <3>7. ASSUME NEW t \in Ids
          PROVE  /\ old[t] <= Limit(a, t) + (IF t = cur THEN Faults ELSE 0)
                 /\ retrying = {} /\ t = cur => old[t] = 0
                 /\ cur < t => old[t] = 0
      <4>1. old[t] \in Nat /\ Limit(a, t) \in Nat /\ old[t] <= Limit(a, t)
        BY <3>2, <3>3, <3>4, <1>4
      <4> QED BY <4>1, <3>2, <3>3, <3>5, <3>6, <1>2
    <3> QED BY <3>4, <3>7 DEF Balances
  <2> QED BY <2>1, <2>2, <2>3
<1>6. e = [date |-> day[cur], bal |-> [old EXCEPT ![cur] = @ + 1]]
  BY DEF NewEntry, Plus
<1> HIDE DEF old
<1>7. \A t \in Ids : e.bal[t] = old[t] + (IF t = cur THEN 1 ELSE 0)
  BY <1>2, <1>5, <1>6 DEF Balances
<1>8. e \in Records /\ e.date = day[cur]
  <2>1. [old EXCEPT ![cur] = @ + 1] \in Balances
    BY <1>2, <1>5 DEF Balances
  <2>2. day[cur] \in 1..Days BY <1>1, <1>2 DEF Types
  <2> QED BY <2>1, <2>2, <1>6 DEF Records
<1>9. \A t \in Ids : /\ e.bal[t] <= Limit(a, t) + (IF t = cur THEN 1 + Faults ELSE 0)
                     /\ retrying = {} /\ t = cur => e.bal[t] <= 1
                     /\ cur < t => e.bal[t] = 0
  <2> SUFFICES ASSUME NEW t \in Ids
               PROVE  /\ e.bal[t] <= Limit(a, t) + (IF t = cur THEN 1 + Faults ELSE 0)
                      /\ retrying = {} /\ t = cur => e.bal[t] <= 1
                      /\ cur < t => e.bal[t] = 0
    OBVIOUS
  <2>1. old[t] \in Nat /\ Limit(a, t) \in Nat /\ Faults \in Nat /\ cur \in Nat /\ t \in Nat
    BY <1>2, <1>4, <1>5 DEF Balances, Ids
  <2> QED BY <2>1, <1>5, <1>7
<1> QED BY <1>2, <1>3, <1>7, <1>8, <1>9, NoRecordIs DEF old

\* What is applied once the transaction of an address has committed.
LEMMA AppliedMore ==
  ASSUME IInv, NEW a \in Addrs, NEW saved \in BOOLEAN, Turn(a), Commit(a, saved)
  PROVE  /\ \A b \in Addrs : AppliedTo(b) \subseteq AppliedTo(b)'
         /\ cur \in AppliedTo(a)'
         /\ broken = {} => /\ AppliedTo(a)' = AppliedTo(a) \cup {cur}
                             /\ \A b \in Addrs : b # a => AppliedTo(b)' = AppliedTo(b)
<1> USE GasBounds
<1>1. Types /\ TypeOK BY DEF IInv, Types
<1>2. /\ a \in pending /\ cur \in Ids /\ a \in touched[cur]
      /\ cur = nextPK - 1 /\ nextPK \in Nat /\ touched' = touched
  BY <1>1 DEF Turn, TypeOK, IInv, AtHand, Ids, Commit, netVars
<1>3. CASE broken = {}
  <2>1. /\ nextPK' = nextPK /\ pending' = pending \ {a}
        /\ cur' = IF pending' = {} THEN 0 ELSE cur
    BY <1>3 DEF Commit
  <2>2. ASSUME NEW b \in Addrs, NEW t
        PROVE  t \in AppliedTo(b)' <=> t \in AppliedTo(b) \/ (b = a /\ t = cur)
    <3>1. t \in AppliedTo(b)' <=>
            t \in 1..cur /\ b \in touched[t] /\ ~(t = cur' /\ b \in pending')
      BY <1>2, <2>1 DEF AppliedTo
    <3>2. t \in AppliedTo(b) <=>
            t \in 1..cur /\ b \in touched[t] /\ ~(t = cur /\ b \in pending)
      BY <1>2 DEF AppliedTo
    <3>3. cur \in 1..cur BY <1>2 DEF Ids
    <3> QED BY <3>1, <3>2, <3>3, <2>1, <1>2
  <2> QED BY <2>2
<1>4. CASE broken # {}
  <2>1. nextPK' = cur + 1 /\ cur' = 0 /\ pending' = {}
    BY <1>4 DEF Commit, Restarted, Resume
  <2>2. \A b \in Addrs : AppliedTo(b)' = {t \in 1..cur : b \in touched[t]}
    BY <1>2, <2>1 DEF AppliedTo
  <2>3. \A b \in Addrs : AppliedTo(b) \subseteq {t \in 1..cur : b \in touched[t]}
    BY <1>2 DEF AppliedTo
  <2>4. cur \in 1..cur BY <1>2 DEF Ids
  <2> QED BY <2>2, <2>3, <2>4, <1>2, <1>4
<1> QED BY <1>3, <1>4

\* What a commit does to the rows of its address: s are the new ones, with the
\* entry e in one of them if it was saved.
NewRows(a, e, s, saved) ==
  /\ e = NewEntry(a) /\ s \in Seq(Records)
  /\ rows' = [rows EXCEPT ![a] = s]
  /\ \A i \in DOMAIN s : s[i] = e \/ (i \in DOMAIN rows[a] /\ s[i] = rows[a][i])
  /\ saved /\ a \notin refused /\ broken = {} => \E i \in DOMAIN s : s[i] = e
  /\ saved /\ a \notin refused /\ crashes + losses = 0 =>
       s # <<>> /\ s[Len(s)] = e /\ DayRows(day, s, AppliedTo(a) \cup {cur})

LEMMA CommitStep ==
  ASSUME IInv, NEW a \in Addrs, NEW saved \in BOOLEAN, saved \/ refusals < MaxRefusals,
         Turn(a), Commit(a, saved), NEW e, NEW s, NewRows(a, e, s, saved)
  PROVE  IInv'
<1> USE GasBounds
<1>0. /\ e = NewEntry(a) /\ s \in Seq(Records)
      /\ rows' = [rows EXCEPT ![a] = s]
      /\ \A i \in DOMAIN s : s[i] = e \/ (i \in DOMAIN rows[a] /\ s[i] = rows[a][i])
      /\ saved /\ a \notin refused /\ broken = {} => \E i \in DOMAIN s : s[i] = e
      /\ saved /\ a \notin refused /\ crashes + losses = 0 =>
           s # <<>> /\ s[Len(s)] = e /\ DayRows(day, s, AppliedTo(a) \cup {cur})
  BY DEF NewRows
<1>1. Types /\ TypeOK /\ CacheIsStored BY DEF IInv, Types
<1>2. /\ e \in Records /\ cur \in Ids /\ a \in pending /\ e # NoRecord
      /\ cur \notin AppliedTo(a)
      /\ \A t \in Ids : /\ e.bal[t] <= Limit(a, t) + (IF t = cur THEN 1 + Faults ELSE 0)
                        /\ cur < t => e.bal[t] = 0
  BY <1>0, NewEntryIs
<1>3. /\ cur = nextPK - 1 /\ lastPk \in Nat /\ lastPk <= cur /\ losses \in Nat
      /\ nextPK \in 1..(MaxTx + 1) /\ crashes \in Nat /\ refusals \in Nat
      /\ Faults \in Nat
  BY <1>1, <1>2 DEF TypeOK, IInv, AtHand, Ids, Faults
<1>4. /\ lastPk' = cur
      /\ refusals' = IF saved THEN refusals ELSE refusals + 1
      /\ UNCHANGED <<day, touched, txMax, crashes, losses>>
      /\ \/ /\ broken = {} /\ retrying' = {} /\ broken' = broken
            /\ refused' = IF saved THEN refused ELSE refused \cup {a}
            /\ gasDateCache' = [gasDateCache EXCEPT ![a] = e]
            /\ pending' = pending \ {a} /\ nextPK' = nextPK
            /\ cur' = IF pending' = {} THEN 0 ELSE cur
         \/ /\ broken # {} /\ retrying' = {} /\ broken' = {} /\ refused' = {}
            /\ gasDateCache' = [b \in Addrs |-> NoRecord]
            /\ pending' = {} /\ nextPK' = cur + 1 /\ cur' = 0
  BY <1>0 DEF Commit, Restarted, Resume, netVars
<1>5. /\ rows' \in [Addrs -> Seq(Records)] /\ rows'[a] = s
      /\ \A b \in Addrs : b # a => rows'[b] = rows[b]
  BY <1>0, <1>1 DEF Types
<1>6. /\ \A b \in Addrs : AppliedTo(b) \subseteq AppliedTo(b)'
      /\ cur \in AppliedTo(a)'
      /\ broken = {} => /\ AppliedTo(a)' = AppliedTo(a) \cup {cur}
                          /\ \A b \in Addrs : b # a => AppliedTo(b)' = AppliedTo(b)
  BY AppliedMore
<1>7. TypeOK'
  <2>1. \A b \in Addrs : \A i \in DOMAIN rows'[b] : rows'[b][i] \in Records
    BY <1>0, <1>1, <1>2, <1>5 DEF TypeOK
  <2>2. /\ gasDateCache' \in [Addrs -> Records \cup {NoRecord}]
        /\ pending' \in SUBSET Addrs /\ (cur' = 0 <=> pending' = {})
        /\ cur' \in 0..MaxTx /\ nextPK' \in 1..(MaxTx + 1)
    BY <1>1, <1>2, <1>3, <1>4 DEF TypeOK, Ids
  <2>3. lastPk' \in 0..MaxTx BY <1>2, <1>4 DEF Ids
  <2>4. refused' \in SUBSET Addrs /\ refusals' \in 0..MaxRefusals
    BY <1>1, <1>3, <1>4 DEF TypeOK
  <2> QED BY <2>1, <2>2, <2>3, <2>4, <1>1, <1>4 DEF TypeOK
<1>8. Types' BY <1>1, <1>4, <1>5, <1>7 DEF Types
<1>9. AtHand' BY <1>1, <1>2, <1>3, <1>4 DEF AtHand, IInv, Ids
<1>10. /\ \A b \in Addrs : \A t \in Ids : Limit(b, t) <= Limit(b, t)' /\ Limit(b, t) \in Nat
                                          /\ Limit(b, t)' \in Nat
       /\ \A t \in Ids : e.bal[t] <= Limit(a, t)'
  <2>1. \A b \in Addrs : \A t \in Ids : Limit(b, t) <= Limit(b, t)' /\ Limit(b, t) \in Nat
                                        /\ Limit(b, t)' \in Nat
    BY <1>3, <1>4, <1>6 DEF Limit, Faults
  <2>2. \A t \in Ids : t = cur => Limit(a, t) = 0 /\ Limit(a, t)' = 1 + Faults' /\ Faults <= Faults'
    <3> PICK c : c = cur OBVIOUS
    <3>1. c \notin AppliedTo(a) /\ c \in AppliedTo(a)' BY <1>2, <1>6
    <3>2. Limit(a, c) = 0 BY <3>1 DEF Limit
    <3>3. Limit(a, c)' = 1 + Faults' BY <3>1, <1>4 DEF Limit
    <3>4. Faults <= Faults' BY <1>3, <1>4 DEF Faults
    <3> QED BY <3>2, <3>3, <3>4
  <2>3. \A t \in Ids : e.bal[t] \in Nat BY <1>2 DEF Records, Balances
  <2>4. ASSUME NEW t \in Ids PROVE e.bal[t] <= Limit(a, t)'
    <3>1. e.bal[t] <= Limit(a, t) + (IF t = cur THEN 1 + Faults ELSE 0)
      BY <1>2
    <3>2. CASE t = cur
      <4>1. e.bal[t] <= 1 + Faults BY <3>1, <3>2, <2>2, <1>3
      <4>2. Faults' \in Nat BY <1>3, <1>4 DEF Faults
      <4> QED BY <4>1, <4>2, <3>2, <2>2, <2>3, <1>3
    <3>3. CASE t # cur
      <4>1. e.bal[t] <= Limit(a, t) BY <3>1, <3>3, <2>1
      <4> QED BY <4>1, <2>1, <2>3
    <3> QED BY <3>2, <3>3
  <2> QED BY <2>1, <2>4
<1>11. RowsLimited'
  <2> SUFFICES ASSUME NEW b \in Addrs, NEW i \in DOMAIN rows'[b], NEW t \in Ids
               PROVE  /\ rows'[b][i].bal[t] <= Limit(b, t)'
                      /\ cur < t => rows'[b][i].bal[t] = 0
    BY <1>4 DEF RowsLimited
  <2>1. CASE b = a /\ s[i] = e BY <2>1, <1>2, <1>5, <1>10
  <2>2. CASE i \in DOMAIN rows[b] /\ rows'[b][i] = rows[b][i]
    <3>1. /\ rows[b][i].bal[t] <= Limit(b, t)
          /\ lastPk < t => rows[b][i].bal[t] = 0
      BY <2>2 DEF IInv, RowsLimited
    <3>2. rows[b][i].bal[t] \in Nat BY <2>2, <1>1 DEF TypeOK, Records, Balances
    <3>3. cur < t => lastPk < t BY <1>2, <1>3 DEF Ids
    <3> QED BY <3>1, <3>2, <3>3, <2>2, <1>10
  <2> QED BY <2>1, <2>2, <1>0, <1>5
<1>12. CacheLimited'
  <2> SUFFICES ASSUME broken = {}, NEW b \in Addrs, gasDateCache'[b] # NoRecord,
                      NEW t \in Ids
               PROVE  gasDateCache'[b].bal[t] <= Limit(b, t)'
    BY <1>4 DEF CacheLimited
  <2>1. CASE b = a BY <2>1, <1>1, <1>4, <1>10 DEF TypeOK
  <2>2. CASE b # a
    <3>1. gasDateCache'[b] = gasDateCache[b] BY <2>2, <1>1, <1>4 DEF TypeOK
    <3>2. b \notin retrying BY <2>2 DEF Turn
    <3>4. gasDateCache[b].bal[t] <= Limit(b, t)
      BY <3>1, <3>2 DEF IInv, CacheLimited
    <3>3. gasDateCache[b].bal[t] \in Nat
      BY <3>1, <1>1 DEF TypeOK, Records, Balances
    <3> QED BY <3>1, <3>3, <3>4, <1>10
  <2> QED BY <2>1, <2>2
<1>13. CacheIsStored'
  <2> SUFFICES ASSUME broken = {}, NEW b \in Addrs \ refused', gasDateCache'[b] # NoRecord
               PROVE  \E i \in DOMAIN rows'[b] : rows'[b][i] = gasDateCache'[b]
    BY <1>4, <1>7 DEF CacheIsStored
  <2>1. CASE b = a BY <2>1, <1>0, <1>1, <1>4, <1>5 DEF TypeOK
  <2>2. CASE b # a
    <3>1. b \notin retrying /\ b \notin refused BY <2>2, <1>4 DEF Turn
    <3> QED BY <3>1, <2>2, <1>1, <1>4, <1>5 DEF TypeOK, CacheIsStored
  <2> QED BY <2>1, <2>2
<1>14. crashes + losses = 0 => broken = {}
  BY <1>3 DEF IInv, AtHand
<1>15. CacheIsNewest'
  <2> SUFFICES ASSUME crashes + losses = 0, NEW b \in Addrs \ refused'
               PROVE  IF rows'[b] = <<>> THEN gasDateCache'[b] = NoRecord
                      ELSE gasDateCache'[b] = rows'[b][Len(rows'[b])]
    BY <1>4 DEF CacheIsNewest
  <2>1. CASE b = a BY <2>1, <1>0, <1>1, <1>4, <1>5, <1>14 DEF TypeOK
  <2>2. CASE b # a
    <3>1. gasDateCache'[b] = gasDateCache[b] /\ rows'[b] = rows[b] /\ b \notin refused
      BY <2>2, <1>1, <1>4, <1>5, <1>14 DEF TypeOK
    <3> QED BY <3>1 DEF IInv, CacheIsNewest
  <2> QED BY <2>1, <2>2
<1>16. DailyHistory'
  <2>1. ASSUME crashes + losses = 0, NEW b \in Addrs \ refused'
        PROVE  DayRows(day, rows'[b], AppliedTo(b)')
    <3>1. CASE b = a BY <2>1, <3>1, <1>0, <1>4, <1>5, <1>6, <1>14
    <3>2. CASE b # a
      <4>1. rows'[b] = rows[b] /\ AppliedTo(b)' = AppliedTo(b)
        BY <2>1, <3>2, <1>5, <1>6, <1>14
      <4>2. DayRows(day, rows[b], AppliedTo(b))
        BY <2>1, <3>2, <1>4, <1>14 DEF IInv, DailyHistory, DayRows
      <4> QED BY <4>1, <4>2
    <3> QED BY <3>1, <3>2
  <2>2. crashes' = crashes /\ losses' = losses /\ day' = day BY <1>4
  <2>3. crashes' + losses' = 0 => \A b \in Addrs \ refused' : DayRows(day', rows'[b], AppliedTo(b)')
    BY <2>1, <2>2
  <2> QED BY <2>3 DEF DailyHistory, DayRows
<1> QED BY <1>8, <1>9, <1>11, <1>12, <1>13, <1>15, <1>16 DEF IInv
-----------------------------------------------------------------------------
\* The days of the rows are those of the transactions, element by element.
LEMMA SameDates ==
  ASSUME NEW d, NEW s, NEW A
  PROVE  {s[i].date : i \in DOMAIN s} = {d[t] : t \in A} <=>
           /\ \A i \in DOMAIN s : \E t \in A : s[i].date = d[t]
           /\ \A t \in A : \E i \in DOMAIN s : s[i].date = d[t]
<1> DEFINE S == {s[i].date : i \in DOMAIN s}
           D == {d[t] : t \in A}
<1>1. \A x : x \in S <=> \E i \in DOMAIN s : x = s[i].date OBVIOUS
<1>2. \A x : x \in D <=> \E t \in A : x = d[t] OBVIOUS
<1>3. S = D <=> \A x : x \in S <=> x \in D OBVIOUS
<1> HIDE DEF S, D
<1>4. S = D <=> /\ \A i \in DOMAIN s : \E t \in A : s[i].date = d[t]
                /\ \A t \in A : \E i \in DOMAIN s : s[i].date = d[t]
  BY <1>1, <1>2, <1>3
<1> QED BY <1>4 DEF S, D

LEMMA DayRowsDates ==
  ASSUME NEW d, NEW s, NEW A, DayRows(d, s, A)
  PROVE  /\ \A i \in DOMAIN s : \E t \in A : s[i].date = d[t]
         /\ \A t \in A : \E i \in DOMAIN s : s[i].date = d[t]
<1> DEFINE S == {s[i].date : i \in DOMAIN s}
           D == {d[t] : t \in A}
<1>1. \A x : x \in S <=> \E i \in DOMAIN s : s[i].date = x OBVIOUS
<1>2. \A x : x \in D <=> \E t \in A : x = d[t] OBVIOUS
<1>3. S = D BY DEF DayRows
<1> HIDE DEF S, D
<1> QED BY <1>1, <1>2, <1>3

\* A row for a later day than all before it.
LEMMA AppendDay ==
  ASSUME NEW d \in [Ids -> 1..Days], NEW s \in Seq(Records), NEW A \in SUBSET Ids,
         NEW c \in Ids, NEW e \in Records, e.date = d[c], DayRows(d, s, A),
         \A t \in A : d[t] < d[c],
         \A t \in Ids : e.bal[t] = IF t \in A \cup {c} THEN 1 ELSE 0
  PROVE  DayRows(d, Append(s, e), A \cup {c})
<1> DEFINE n == Len(s)
<1>1. PICK z : z = Append(s, e) OBVIOUS
<1>2. /\ n \in Nat /\ DOMAIN s = 1..n /\ DOMAIN z = 1..(n + 1)
      /\ z[n + 1] = e /\ \A i \in 1..n : z[i] = s[i] /\ s[i] \in Records
  BY <1>1, AppendProperties, LenProperties
<1> HIDE DEF n
<1>3. \A i \in 1..n : s[i].date < d[c]
  <2> SUFFICES ASSUME NEW i \in 1..n PROVE s[i].date < d[c] OBVIOUS
  <2>1. PICK t \in A : s[i].date = d[t] BY <1>2, DayRowsDates
  <2> QED BY <2>1
<1>4. /\ \A i \in 1..(n + 1) : i \in 1..n \/ i = n + 1
      /\ n + 1 \in 1..(n + 1) /\ \A i \in 1..n : i \in 1..(n + 1)
  BY <1>2
<1>5. \A i, j \in DOMAIN z : i < j => z[i].date < z[j].date
  <2> SUFFICES ASSUME NEW i \in DOMAIN z, NEW j \in DOMAIN z, i < j
               PROVE  z[i].date < z[j].date
    OBVIOUS
  <2>1. i \in 1..n BY <1>2
  <2>2. CASE j \in 1..n BY <2>1, <2>2, <1>2 DEF DayRows
  <2>3. CASE j = n + 1 BY <2>1, <2>3, <1>2, <1>3
  <2> QED BY <2>2, <2>3, <1>2, <1>4
<1>6. {z[i].date : i \in DOMAIN z} = {d[t] : t \in A \cup {c}}
  <2>1. \A i \in DOMAIN z : \E t \in A \cup {c} : z[i].date = d[t]
    <3> SUFFICES ASSUME NEW i \in DOMAIN z
                 PROVE  \E t \in A \cup {c} : z[i].date = d[t]
      OBVIOUS
    <3>1. CASE i \in 1..n BY <3>1, <1>2, DayRowsDates
    <3>2. CASE i = n + 1 BY <3>2, <1>2
    <3> QED BY <3>1, <3>2, <1>2, <1>4
  <2>2. \A t \in A \cup {c} : \E i \in DOMAIN z : z[i].date = d[t]
    <3> SUFFICES ASSUME NEW t \in A \cup {c}
                 PROVE  \E i \in DOMAIN z : z[i].date = d[t]
      OBVIOUS
    <3>1. CASE t \in A
      <4>1. PICK i \in DOMAIN s : s[i].date = d[t] BY <3>1, DayRowsDates
      <4> QED BY <4>1, <1>2, <1>4
    <3>2. CASE t = c BY <3>2, <1>2, <1>4
    <3> QED BY <3>1, <3>2
  <2> QED BY <2>1, <2>2, SameDates
<1>7. \A i \in DOMAIN z : \A t \in Ids :
        z[i].bal[t] = IF t \in A \cup {c} /\ d[t] <= z[i].date THEN 1 ELSE 0
  <2> SUFFICES ASSUME NEW i \in DOMAIN z, NEW t \in Ids
               PROVE  z[i].bal[t] = IF t \in A \cup {c} /\ d[t] <= z[i].date
                                      THEN 1 ELSE 0
    OBVIOUS
  <2>1. CASE i \in 1..n
    <3>1. z[i] = s[i] /\ s[i].date < d[c] /\ s[i].date \in 1..Days
      BY <2>1, <1>2, <1>3 DEF Records
    <3>2. s[i].bal[t] = IF t \in A /\ d[t] <= s[i].date THEN 1 ELSE 0
      BY <2>1, <1>2 DEF DayRows
    <3>3. t = c => ~(d[t] <= s[i].date) BY <3>1, GasBounds
    <3> QED BY <3>1, <3>2, <3>3
  <2>2. CASE i = n + 1
    <3>1. z[i] = e BY <2>2, <1>2
    <3>2. t \in A \cup {c} => d[t] <= d[c] BY GasBounds
    <3> QED BY <3>1, <3>2
  <2> QED BY <2>1, <2>2, <1>2, <1>4
<1> QED BY <1>1, <1>5, <1>6, <1>7 DEF DayRows

\* Another change on the last day.
LEMMA ReplaceDay ==
  ASSUME NEW d \in [Ids -> 1..Days], NEW s \in Seq(Records), NEW A \in SUBSET Ids,
         NEW c \in Ids, NEW e \in Records, e.date = d[c], DayRows(d, s, A),
         \A t \in A : d[t] <= d[c],
         \A t \in Ids : e.bal[t] = IF t \in A \cup {c} THEN 1 ELSE 0,
         NEW k \in DOMAIN s, s[k].date = d[c]
  PROVE  k = Len(s) /\ DayRows(d, [s EXCEPT ![k] = e], A \cup {c})
<1> DEFINE n == Len(s)
<1>1. PICK z : z = [s EXCEPT ![k] = e] OBVIOUS
<1>2. /\ n \in Nat /\ DOMAIN s = 1..n /\ DOMAIN z = 1..n
      /\ z[k] = e /\ \A i \in 1..n : (i # k => z[i] = s[i]) /\ s[i] \in Records
  BY <1>1, LenProperties
<1> HIDE DEF n
<1>3. \A i \in 1..n : s[i].date <= d[c] /\ s[i].date \in 1..Days
  <2> SUFFICES ASSUME NEW i \in 1..n PROVE s[i].date <= d[c] /\ s[i].date \in 1..Days
    OBVIOUS
  <2>0. i \in DOMAIN s BY <1>2
  <2>1. PICK t \in A : s[i].date = d[t] BY <2>0, DayRowsDates
  <2> QED BY <2>1
<1>4. k = n
  <2>1. k < n => s[k].date < s[n].date /\ n \in 1..n BY <1>2 DEF DayRows
  <2>2. k \in 1..n BY <1>2
  <2> QED BY <2>1, <2>2, <1>2, <1>3
<1>5. \A i \in 1..n : z[i].date = s[i].date BY <1>2
<1>6. \A i, j \in DOMAIN z : i < j => z[i].date < z[j].date
  BY <1>2, <1>5 DEF DayRows
<1>7. {z[i].date : i \in DOMAIN z} = {d[t] : t \in A \cup {c}}
  <2>1. \A i \in DOMAIN z : \E t \in A \cup {c} : z[i].date = d[t]
    <3> SUFFICES ASSUME NEW i \in DOMAIN z
                 PROVE  \E t \in A \cup {c} : z[i].date = d[t]
      OBVIOUS
    <3>1. i \in DOMAIN s /\ z[i].date = s[i].date BY <1>2, <1>5
    <3>2. PICK t \in A : s[i].date = d[t] BY <3>1, DayRowsDates
    <3> QED BY <3>1, <3>2
  <2>2. \A t \in A \cup {c} : \E i \in DOMAIN z : z[i].date = d[t]
    <3> SUFFICES ASSUME NEW t \in A \cup {c}
                 PROVE  \E i \in DOMAIN z : z[i].date = d[t]
      OBVIOUS
    <3>1. CASE t \in A
      <4>1. PICK i \in DOMAIN s : s[i].date = d[t] BY <3>1, DayRowsDates
      <4> QED BY <4>1, <1>2, <1>5
    <3>2. CASE t = c BY <3>2, <1>2, <1>5
    <3> QED BY <3>1, <3>2
  <2> QED BY <2>1, <2>2, SameDates
<1>8. \A i \in DOMAIN z : \A t \in Ids :
        z[i].bal[t] = IF t \in A \cup {c} /\ d[t] <= z[i].date THEN 1 ELSE 0
  <2> SUFFICES ASSUME NEW i \in DOMAIN z, NEW t \in Ids
               PROVE  z[i].bal[t] = IF t \in A \cup {c} /\ d[t] <= z[i].date
                                      THEN 1 ELSE 0
    OBVIOUS
  <2>1. CASE i # k
    <3>1. z[i] = s[i] /\ i < k /\ i \in 1..n BY <2>1, <1>2, <1>4
    <3>2. s[i].date < d[c] /\ s[i].date \in 1..Days BY <3>1, <1>2, <1>3 DEF DayRows
    <3>3. s[i].bal[t] = IF t \in A /\ d[t] <= s[i].date THEN 1 ELSE 0
      BY <3>1, <1>2 DEF DayRows
    <3>4. t = c => ~(d[t] <= s[i].date) BY <3>2, GasBounds
    <3> QED BY <3>1, <3>3, <3>4
  <2>2. CASE i = k
    <3>1. z[i] = e BY <2>2, <1>2
    <3>2. t \in A \cup {c} => d[t] <= d[c] BY GasBounds
    <3> QED BY <3>1, <3>2
  <2> QED BY <2>1, <2>2
<1>9. DayRows(d, z, A \cup {c}) BY <1>6, <1>7, <1>8 DEF DayRows
<1> QED BY <1>1, <1>4, <1>9 DEF n

\* As long as nothing went wrong, the new entry has all the changes applied.
LEMMA EntryIsExact ==
  ASSUME IInv, NEW a \in Addrs \ refused, Turn(a), crashes + losses = 0,
         NEW e, e = NewEntry(a)
  PROVE  /\ DayRows(day, rows[a], AppliedTo(a)) /\ AppliedTo(a) \in SUBSET Ids
         /\ \A t \in Ids : e.bal[t] = IF t \in AppliedTo(a) \cup {cur} THEN 1 ELSE 0
         /\ \A t \in AppliedTo(a) : day[t] <= day[cur]
         /\ gasDateCache[a] = NoRecord => AppliedTo(a) = {}
         /\ gasDateCache[a] # NoRecord =>
              gasDateCache[a].date <= day[cur]
              /\ \A t \in AppliedTo(a) : day[t] <= gasDateCache[a].date
<1> USE GasBounds
<1> DEFINE A == AppliedTo(a)
           z == rows[a]
<1>1. Types /\ TypeOK BY DEF IInv, Types
<1>2. /\ cur \in Ids /\ cur \notin A /\ cur = nextPK - 1
      /\ \A t \in Ids : e.bal[t] =
           (IF gasDateCache[a] = NoRecord THEN StoredBalance(a)
                                          ELSE gasDateCache[a].bal)[t]
           + (IF t = cur THEN 1 ELSE 0)
  BY NewEntryIs DEF IInv, AtHand, Ids
<1>3. DayRows(day, z, A) BY DEF IInv, DailyHistory, DayRows
<1>4. /\ A \in SUBSET Ids /\ \A t \in A : t <= cur
      /\ day \in [Ids -> 1..Days]
  BY <1>1, <1>2 DEF AppliedTo, Ids, Types
<1>5. \A t \in A : day[t] <= day[cur] BY <1>1, <1>2, <1>4 DEF Types
<1>6. /\ z \in Seq(Records)
      /\ IF z = <<>> THEN gasDateCache[a] = NoRecord
                     ELSE gasDateCache[a] = z[Len(z)]
  BY <1>1 DEF Types, IInv, CacheIsNewest
<1> HIDE DEF A, z
<1>7. CASE gasDateCache[a] = NoRecord
  <2>1. z = <<>>
    <3> SUFFICES ASSUME z # <<>> PROVE FALSE OBVIOUS
    <3>1. Len(z) \in DOMAIN z BY <1>6, EmptySeq, LenProperties
    <3>2. z[Len(z)] \in Records BY <3>1, <1>6, LenProperties
    <3> QED BY <3>2, <1>6, <1>7, NoRecordIs
  <2>2. {z[i].date : i \in DOMAIN z} = {} BY <2>1
  <2>3. A = {} BY <2>2, <1>3 DEF DayRows
  <2>4. StoredBalance(a) = NoRecord.bal BY <2>1 DEF StoredBalance, z
  <2>5. \A t \in Ids : e.bal[t] = IF t \in A \cup {cur} THEN 1 ELSE 0
    BY <2>3, <2>4, <1>2, <1>7, NoRecordIs
  <2> QED BY <2>3, <2>5, <1>3, <1>4, <1>5, <1>7 DEF A, z
<1>8. CASE gasDateCache[a] # NoRecord
  <2> DEFINE r == gasDateCache[a]
  <2>1. z # <<>> /\ r = z[Len(z)] BY <1>6, <1>8
  <2>2. /\ Len(z) \in DOMAIN z /\ Len(z) \in Nat /\ DOMAIN z = 1..Len(z)
        /\ \A i \in DOMAIN z : z[i] \in Records
    BY <2>1, <1>6, EmptySeq, LenProperties
  <2>3. \A i \in DOMAIN z : z[i].date <= r.date
    <3> SUFFICES ASSUME NEW i \in DOMAIN z PROVE z[i].date <= r.date OBVIOUS
    <3>1. i < Len(z) => z[i].date < r.date BY <2>1, <2>2, <1>3 DEF DayRows
    <3>2. z[i].date \in 1..Days /\ r.date \in 1..Days BY <2>1, <2>2 DEF Records
    <3>3. i < Len(z) \/ i = Len(z) BY <2>2
    <3> QED BY <3>1, <3>2, <3>3, <2>1
  <2>4. \A t \in A : day[t] <= r.date
    <3> SUFFICES ASSUME NEW t \in A PROVE day[t] <= r.date OBVIOUS
    <3>1. PICK i \in DOMAIN z : z[i].date = day[t] BY <1>3, DayRowsDates
    <3> QED BY <3>1, <2>3
  <2>5. \E t \in A : r.date = day[t] BY <2>1, <2>2, <1>3, DayRowsDates
  <2>6. r.date <= day[cur] BY <2>5, <1>5
  <2>7. \A t \in Ids : r.bal[t] = IF t \in A THEN 1 ELSE 0
    <3> SUFFICES ASSUME NEW t \in Ids PROVE r.bal[t] = IF t \in A THEN 1 ELSE 0
      OBVIOUS
    <3>1. r.bal[t] = IF t \in A /\ day[t] <= r.date THEN 1 ELSE 0
      BY <2>1, <2>2, <1>3 DEF DayRows
    <3> QED BY <3>1, <2>4
  <2>8. \A t \in Ids : e.bal[t] = IF t \in A \cup {cur} THEN 1 ELSE 0
    <3> SUFFICES ASSUME NEW t \in Ids
                 PROVE  e.bal[t] = IF t \in A \cup {cur} THEN 1 ELSE 0
      OBVIOUS
    <3>1. e.bal[t] = r.bal[t] + (IF t = cur THEN 1 ELSE 0) BY <1>2, <1>8
    <3> QED BY <3>1, <2>7, <1>2 DEF A
  <2> QED BY <2>4, <2>6, <2>8, <1>3, <1>4, <1>5, <1>8 DEF A, z
<1> QED BY <1>7, <1>8
-----------------------------------------------------------------------------
\* A new row, for an address without an entry or with one of an earlier day,
\* or that row refused.
LEMMA AppendStep ==
  ASSUME IInv, NEW a \in Addrs, NEW saved \in BOOLEAN, saved \/ refusals < MaxRefusals,
         Turn(a), Commit(a, saved),
         gasDateCache[a] = NoRecord \/ ~IsToday(gasDateCache[a]),
         rows' = IF saved THEN [rows EXCEPT ![a] = Append(@, NewEntry(a))] ELSE rows
  PROVE  IInv'
<1>1. PICK e : e = NewEntry(a) OBVIOUS
<1>2. PICK s : s = IF saved THEN Append(rows[a], e) ELSE rows[a] OBVIOUS
<1>3. Types /\ TypeOK BY DEF IInv, Types
<1>4. /\ e \in Records /\ cur \in Ids /\ cur \notin AppliedTo(a) /\ e.date = day[cur]
  BY <1>1, NewEntryIs
<1>5. rows[a] \in Seq(Records) BY <1>3 DEF Types
<1>6. /\ s \in Seq(Records)
      /\ saved => s # <<>> /\ Len(s) \in DOMAIN s /\ s[Len(s)] = e
      /\ \A i \in DOMAIN s : s[i] = e \/ (i \in DOMAIN rows[a] /\ s[i] = rows[a][i])
  BY <1>2, <1>4, <1>5, AppendProperties, LenProperties
<1>7. rows' = [rows EXCEPT ![a] = s]
  <2>1. rows \in [Addrs -> Seq(Records)] BY <1>3 DEF Types
  <2> QED BY <2>1, <1>1, <1>2
<1>8. ASSUME saved, a \notin refused, crashes + losses = 0
      PROVE  DayRows(day, s, AppliedTo(a) \cup {cur})
  <2>1. /\ DayRows(day, rows[a], AppliedTo(a)) /\ AppliedTo(a) \in SUBSET Ids
        /\ \A t \in Ids : e.bal[t] = IF t \in AppliedTo(a) \cup {cur} THEN 1 ELSE 0
        /\ gasDateCache[a] = NoRecord => AppliedTo(a) = {}
        /\ gasDateCache[a] # NoRecord =>
              gasDateCache[a].date <= day[cur]
              /\ \A t \in AppliedTo(a) : day[t] <= gasDateCache[a].date
    BY <1>1, <1>8, EntryIsExact
  <2>2. day \in [Ids -> 1..Days] BY <1>3 DEF Types
  <2>3. \A t \in AppliedTo(a) : day[t] < day[cur]
    <3> SUFFICES ASSUME NEW t \in AppliedTo(a) PROVE day[t] < day[cur] OBVIOUS
    <3>1. gasDateCache[a] # NoRecord BY <2>1
    <3>2. gasDateCache[a].date # day[cur] BY <3>1 DEF IsToday
    <3>3. gasDateCache[a] \in Records BY <3>1, <1>3 DEF TypeOK
    <3>4. gasDateCache[a].date \in Int /\ day[t] \in Int /\ day[cur] \in Int
      BY <3>3, <2>1, <2>2, <1>4, GasBounds DEF Records
    <3> QED BY <3>1, <3>2, <3>4, <2>1
  <2>4. DayRows(day, Append(rows[a], e), AppliedTo(a) \cup {cur})
    BY <2>1, <2>2, <2>3, <1>4, <1>5, AppendDay
  <2> QED BY <2>4, <1>2, <1>8
<1>9. NewRows(a, e, s, saved) BY <1>1, <1>6, <1>7, <1>8 DEF NewRows
<1> QED BY <1>9, CommitStep

\* Another change on the day of the entry: a row of that day is overwritten, and
\* the rows stay as they are when they lack one, after a lost connection or
\* a refused one only.
LEMMA SameDayStep ==
  ASSUME IInv, NEW a \in Addrs, ApplySameDay(a) PROVE IInv'
<1> USE GasBounds
<1>1. PICK e : e = NewEntry(a) OBVIOUS
<1> DEFINE same == {i \in DOMAIN rows[a] : rows[a][i].date = day[cur]}
<1>2. /\ Turn(a) /\ Commit(a, TRUE) /\ gasDateCache[a] # NoRecord
      /\ gasDateCache[a].date = day[cur]
      /\ rows' \in IF same = {} THEN {rows} ELSE
           {[rows EXCEPT ![a][i] = NewEntry(a)] : i \in same}
  BY DEF ApplySameDay, IsToday
<1>3. Types /\ TypeOK /\ CacheIsStored BY DEF IInv, Types
<1>4. /\ e \in Records /\ cur \in Ids /\ cur \notin AppliedTo(a) /\ e.date = day[cur]
  BY <1>1, <1>2, NewEntryIs
<1>5. rows[a] \in Seq(Records) /\ rows \in [Addrs -> Seq(Records)] BY <1>3 DEF Types
<1>6. a \notin refused /\ broken = {} => same # {}
  <2> SUFFICES ASSUME a \notin refused, broken = {} PROVE same # {} OBVIOUS
  <2>0. a \notin retrying BY DEF IInv, AtHand
  <2>1. PICK i \in DOMAIN rows[a] : rows[a][i] = gasDateCache[a]
    BY <2>0, <1>2, <1>3 DEF CacheIsStored
  <2>2. i \in same BY <2>1, <1>2
  <2> QED BY <2>2
<1>7. crashes + losses = 0 => broken = {}
  BY <1>3 DEF IInv, AtHand, TypeOK
<1>8. CASE same = {}
  <2>1. PICK s : s = rows[a] OBVIOUS
  <2>2. rows' = [rows EXCEPT ![a] = s] BY <1>2, <1>5, <1>8, <2>1
  <2>3. s \in Seq(Records) /\ ~(a \notin refused /\ broken = {})
        /\ ~(a \notin refused /\ crashes + losses = 0)
        /\ \A i \in DOMAIN s : i \in DOMAIN rows[a] /\ s[i] = rows[a][i]
    BY <2>1, <1>5, <1>6, <1>7, <1>8
  <2> HIDE DEF same
  <2>4. NewRows(a, e, s, TRUE) BY <2>2, <2>3, <1>1 DEF NewRows
  <2> QED BY <2>4, <1>2, CommitStep
<1>9. CASE same # {}
  <2>1. PICK k \in same : rows' = [rows EXCEPT ![a][k] = NewEntry(a)]
    BY <1>2, <1>9
  <2>2. PICK s : s = [rows[a] EXCEPT ![k] = e] OBVIOUS
  <2>3. rows' = [rows EXCEPT ![a] = s] BY <2>1, <2>2, <1>1, <1>5
  <2>4. k \in DOMAIN rows[a] /\ rows[a][k].date = day[cur] BY <2>1
  <2> HIDE DEF same
  <2>5. /\ s \in Seq(Records) /\ DOMAIN s = DOMAIN rows[a] /\ s[k] = e
        /\ Len(s) = Len(rows[a])
        /\ \A i \in DOMAIN s : s[i] = e \/ (i \in DOMAIN rows[a] /\ s[i] = rows[a][i])
    BY <2>2, <2>4, <1>4, <1>5, ExceptSeq
  <2>6. ASSUME a \notin refused, crashes + losses = 0
        PROVE  s # <<>> /\ s[Len(s)] = e /\ DayRows(day, s, AppliedTo(a) \cup {cur})
    <3>1. /\ DayRows(day, rows[a], AppliedTo(a)) /\ AppliedTo(a) \in SUBSET Ids
          /\ \A t \in Ids : e.bal[t] = IF t \in AppliedTo(a) \cup {cur} THEN 1 ELSE 0
          /\ \A t \in AppliedTo(a) : day[t] <= day[cur]
      BY <1>1, <1>2, <2>6, EntryIsExact
    <3>2. day \in [Ids -> 1..Days] BY <1>3 DEF Types
    <3>3. /\ k = Len(rows[a])
          /\ DayRows(day, [rows[a] EXCEPT ![k] = e], AppliedTo(a) \cup {cur})
      BY <3>1, <3>2, <2>4, <1>4, <1>5, ReplaceDay
    <3>4. s # <<>> BY <2>4, <2>5
    <3> QED BY <3>3, <3>4, <2>2, <2>5
  <2>7. \E i \in DOMAIN s : s[i] = e BY <2>4, <2>5
  <2>8. NewRows(a, e, s, TRUE) BY <2>3, <2>5, <2>6, <2>7, <1>1 DEF NewRows
  <2> QED BY <2>8, <1>2, CommitStep
<1> QED BY <1>8, <1>9

\* The cache keeps the change that was undone, hence one more per lost connection
\* and refused statement.
LEMMA RetryStep ==
  ASSUME IInv, NEW a \in Addrs, LoseConnection(a) \/ ReadOnly(a) PROVE IInv'
<1> USE GasBounds
<1>1. PICK e : e = NewEntry(a) OBVIOUS
<1>2. /\ Turn(a)
      /\ \/ /\ losses < MaxLosses /\ losses' = losses + 1 /\ broken' = {a}
            /\ UNCHANGED <<refusals, refused>>
         \/ /\ refusals < MaxRefusals /\ refusals' = refusals + 1
            /\ refused' = refused \cup {a}
            /\ UNCHANGED <<losses, broken>>
      /\ gasDateCache' = [gasDateCache EXCEPT ![a] = e] /\ retrying' = {a}
      /\ UNCHANGED <<day, touched, txMax, nextPK, cur, pending, rows, lastPk, crashes>>
  BY <1>1 DEF LoseConnection, ReadOnly, netVars, dbVars
<1>3. Types /\ TypeOK /\ CacheIsStored BY DEF IInv, Types
<1>4. /\ e \in Records /\ cur \in Ids /\ cur \notin AppliedTo(a) /\ a \in pending
      /\ \A t \in Ids : e.bal[t] <= Limit(a, t) + (IF t = cur THEN 1 + Faults ELSE 0)
  BY <1>1, <1>2, NewEntryIs
<1>5. /\ losses \in Nat /\ crashes \in Nat /\ refusals \in Nat
      /\ Faults \in Nat /\ Faults' = Faults + 1
  BY <1>2, <1>3 DEF TypeOK, Faults
<1>6. TypeOK'
  <2>1. /\ gasDateCache' \in [Addrs -> Records \cup {NoRecord}]
        /\ retrying' \subseteq pending'
    BY <1>2, <1>3, <1>4 DEF TypeOK
  <2>2. broken' \subseteq {a} BY <1>2, <1>3 DEF TypeOK, Turn
  <2>3. /\ losses' \in 0..MaxLosses /\ refusals' \in 0..MaxRefusals
        /\ broken' \subseteq retrying' /\ refused' \in SUBSET Addrs
    BY <1>2, <1>3, <2>2 DEF TypeOK
  <2> QED BY <2>1, <2>3, <1>2, <1>3 DEF TypeOK
<1>7. Types' BY <1>2, <1>3, <1>6 DEF Types
<1>8. AtHand'
  <2>1. /\ cur # 0 => cur = nextPK - 1 /\ pending \subseteq touched[cur]
        /\ lastPk <= nextPK - 1
        /\ broken # {} => losses # 0
    BY DEF IInv, AtHand
  <2>2. broken' # {} => losses' # 0 BY <2>1, <1>2, <1>5
  <2>3. broken' = {} => retrying' \subseteq refused' BY <1>2
  <2> QED BY <2>1, <2>2, <2>3, <1>2 DEF AtHand
<1>9. \A b \in Addrs : AppliedTo(b)' = AppliedTo(b) BY <1>2 DEF AppliedTo
<1>10. \A b \in Addrs : \A t \in Ids :
         Limit(b, t) <= Limit(b, t)' /\ Limit(b, t) \in Nat /\ Limit(b, t)' \in Nat
  BY <1>2, <1>5, <1>9 DEF Limit
<1>11. RowsLimited'
  <2> SUFFICES ASSUME NEW b \in Addrs, NEW i \in DOMAIN rows[b], NEW t \in Ids
               PROVE  /\ rows[b][i].bal[t] <= Limit(b, t)'
                      /\ lastPk < t => rows[b][i].bal[t] = 0
    BY <1>2 DEF RowsLimited
  <2>1. rows[b][i].bal[t] \in Nat BY <1>3 DEF TypeOK, Records, Balances
  <2>2. /\ rows[b][i].bal[t] <= Limit(b, t)
        /\ lastPk < t => rows[b][i].bal[t] = 0
    BY DEF IInv, RowsLimited
  <2> QED BY <2>1, <2>2, <1>10
<1>12. CacheLimited'
  <2> SUFFICES ASSUME NEW b \in Addrs, gasDateCache'[b] # NoRecord, NEW t \in Ids
               PROVE  gasDateCache'[b].bal[t] <=
                        IF b = a /\ t = cur THEN Faults + 1 ELSE Limit(b, t)'
    BY <1>2, <1>5 DEF CacheLimited
  <2>1. CASE b = a
    <3>1. gasDateCache'[b] = e BY <2>1, <1>2, <1>3 DEF TypeOK
    <3>2. e.bal[t] <= Limit(a, t) + (IF t = cur THEN 1 + Faults ELSE 0)
          /\ e.bal[t] \in Nat
      BY <1>4 DEF Records, Balances
    <3>3. t = cur => Limit(a, t) = 0 BY <1>4 DEF Limit
    <3> QED BY <2>1, <3>1, <3>2, <3>3, <1>5, <1>10
  <2>2. CASE b # a
    <3>1. gasDateCache'[b] = gasDateCache[b] /\ b \notin retrying
      BY <2>2, <1>2, <1>3 DEF TypeOK, Turn
    <3>2. gasDateCache[b].bal[t] <= Limit(b, t) BY <3>1 DEF IInv, CacheLimited
    <3>3. gasDateCache[b].bal[t] \in Nat
      BY <3>1, <1>3 DEF TypeOK, Records, Balances
    <3> QED BY <3>1, <3>2, <3>3, <2>2, <1>10
  <2> QED BY <2>1, <2>2
<1>13. CacheIsStored'
  <2> SUFFICES ASSUME NEW b \in Addrs \ refused', b # a, gasDateCache'[b] # NoRecord
               PROVE  \E i \in DOMAIN rows[b] : rows[b][i] = gasDateCache'[b]
    BY <1>2, <1>6 DEF CacheIsStored
  <2>1. gasDateCache'[b] = gasDateCache[b] /\ b \notin retrying /\ b \notin refused
    BY <1>2, <1>3 DEF TypeOK, Turn
  <2> QED BY <2>1, <1>3 DEF CacheIsStored
<1>14. crashes' + losses' = 0 => crashes + losses = 0 /\ refused' = refused \cup {a}
  BY <1>2, <1>5
<1>15. CacheIsNewest'
  <2> SUFFICES ASSUME crashes' + losses' = 0, NEW b \in Addrs \ refused'
               PROVE  IF rows[b] = <<>> THEN gasDateCache'[b] = NoRecord
                      ELSE gasDateCache'[b] = rows[b][Len(rows[b])]
    BY <1>2 DEF CacheIsNewest
  <2>1. b # a /\ b \notin refused BY <1>14
  <2>2. gasDateCache'[b] = gasDateCache[b] BY <2>1, <1>2, <1>3 DEF TypeOK
  <2> QED BY <2>1, <2>2, <1>14 DEF IInv, CacheIsNewest
<1>16. DailyHistory'
  <2>1. crashes' + losses' = 0 =>
          \A b \in Addrs \ refused' : DayRows(day, rows[b], AppliedTo(b))
    BY <1>14 DEF IInv, DailyHistory, DayRows
  <2>2. crashes' + losses' = 0 =>
          \A b \in Addrs \ refused' : DayRows(day', rows'[b], AppliedTo(b)')
    BY <2>1, <1>2, <1>9
  <2> QED BY <2>2 DEF DailyHistory, DayRows
<1> QED BY <1>7, <1>8, <1>11, <1>12, <1>13, <1>15, <1>16 DEF IInv

LEMMA StutterStep == ASSUME IInv, UNCHANGED vars PROVE IInv'
<1>1. UNCHANGED <<day, touched, txMax, nextPK, cur, pending, gasDateCache, retrying,
                  broken, refused, rows, lastPk, crashes, losses, refusals>>
  BY DEF vars, netVars, memVars, retryVars, dbVars, faultVars
<1>2. \A a \in Addrs : AppliedTo(a)' = AppliedTo(a) BY <1>1 DEF AppliedTo
<1>3. TypeOK' BY <1>1 DEF IInv, Types, TypeOK
<1>4. Types' /\ AtHand' BY <1>1, <1>3 DEF IInv, Types, AtHand
<1>5. RowsLimited' BY <1>1, <1>2 DEF IInv, RowsLimited, Limit, Faults
<1>6. CacheLimited' BY <1>1, <1>2 DEF IInv, CacheLimited, Limit, Faults
<1>7. CacheIsStored' BY <1>1, <1>3 DEF IInv, CacheIsStored
<1>8. CacheIsNewest' BY <1>1 DEF IInv, CacheIsNewest
<1>9. DailyHistory'
  <2>1. crashes + losses = 0 => \A a \in Addrs \ refused : DayRows(day, rows[a], AppliedTo(a))
    BY DEF IInv, DailyHistory, DayRows
  <2>2. crashes' + losses' = 0 => \A a \in Addrs \ refused' : DayRows(day', rows'[a], AppliedTo(a)')
    BY <1>1, <1>2, <2>1
  <2> QED BY <2>2 DEF DailyHistory, DayRows
<1> QED BY <1>4, <1>5, <1>6, <1>7, <1>8, <1>9 DEF IInv

LEMMA NextIInv == IInv /\ [Next]_vars => IInv'
<1> SUFFICES ASSUME IInv, [Next]_vars PROVE IInv' OBVIOUS
<1>1. ASSUME NEW t \in Ids, TakeWhole(t) \/ TakeCut(t) PROVE IInv'
  <2>1. CASE TakeWhole(t)
    <3>1. Take(t, touched[t]) /\ losses' = losses BY <2>1 DEF TakeWhole
    <3> QED BY <3>1, TakeStep
  <2>2. CASE TakeCut(t)
    <3>1. /\ losses < MaxLosses /\ losses' = losses + 1
          /\ \E read \in SUBSET touched[t] : Take(t, read)
      BY <2>2 DEF TakeCut
    <3> QED BY <3>1, TakeStep
  <2> QED BY <1>1, <2>1, <2>2
<1>2. ASSUME NEW a \in Addrs, ApplyUncached(a) PROVE IInv'
  BY <1>2, AppendStep DEF ApplyUncached
<1>3. ASSUME NEW a \in Addrs, ApplyNewDay(a) PROVE IInv'
  BY <1>3, AppendStep DEF ApplyNewDay
<1>4. ASSUME NEW a \in Addrs, ApplySameDay(a) PROVE IInv' BY <1>4, SameDayStep
<1>5. ASSUME NEW a \in Addrs, LoseConnection(a) \/ ReadOnly(a) PROVE IInv'
  BY <1>5, RetryStep
<1>6. CASE NewTx BY <1>6, NewTxStep
<1>7. CASE Crash BY <1>7, CrashStep
<1>8. CASE UNCHANGED vars BY <1>8, StutterStep
<1> QED BY <1>1, <1>2, <1>3, <1>4, <1>5, <1>6, <1>7, <1>8 DEF Next

THEOREM GasInvariance == Spec => []IInv
<1> QED BY InitIInv, NextIInv, PTL DEF Spec
-----------------------------------------------------------------------------
\* However often the process crashed, connections were lost and statements were
\* refused, a balance has no change twice but for one more per lost connection or
\* refusal, and none that its address has not come to (ApplyGASAssetChange).
THEOREM NothingTwice == Spec => []NeverTwice
<1>1. IInv => NeverTwice
  <2> SUFFICES ASSUME IInv, NEW a \in Addrs, NEW i \in DOMAIN rows[a], NEW t \in Ids
               PROVE  rows[a][i].bal[t] <=
                        IF t \in AppliedTo(a) THEN 1 + losses + refusals ELSE 0
    BY DEF NeverTwice
  <2>1. rows[a][i].bal[t] <= Limit(a, t) BY DEF IInv, RowsLimited
  <2>2. losses \in Nat /\ refusals \in Nat BY GasBounds DEF IInv, Types, TypeOK
  <2>3. 1 + Faults = 1 + losses + refusals BY <2>2 DEF Faults
  <2> QED BY <2>1, <2>3 DEF Limit
<1> QED BY <1>1, GasInvariance, PTL

\* The balance the task adds to is in the table, but for an address of which the
\* database refused a row (db/gas.go, gasDateCache, line 61).
THEOREM CacheInTable == Spec => []CacheIsStored
<1>1. IInv => CacheIsStored BY DEF IInv
<1> QED BY <1>1, GasInvariance, PTL

\* Without crashes and lost connections, the rows of an address are its history,
\* a row per day with the changes up to the end of it, unless one of its own was
\* refused (addr_gas_balance).
THEOREM RowsAreDailyHistory == Spec => []DailyHistory
<1>1. IInv => DailyHistory BY DEF IInv
<1> QED BY <1>1, GasInvariance, PTL
=============================================================================
