--------------------------- MODULE Nep5TaskProofs ---------------------------
(***************************************************************************)
(* Machine-checked proofs about Nep5Task: no application log is lost or    *)
(* left over, and as long as ids are stable, transfers, registrations and  *)
(* migrations are recorded exactly, wherever the process dies; addr_tx     *)
(* follows nep5_tx.                                                        *)
(***************************************************************************)
EXTENDS Nep5Task, SequenceTheorems, FiniteSetTheorems, WellFoundedInduction, TLAPS
-----------------------------------------------------------------------------
(* The inductive invariant. *)

\* The operations on their way, in the order of their execution.
Queue == storeChan \o todo
OpNames == {"asset", "balance", "transfer", "counter", "migrate"}
Ops == [op : OpNames, tx : Ids, idx : Int, id : 0..Cardinality(Hashes)]
Rows == [tx : Ids, idx : Nat, id : 1..Cardinality(Hashes)]

\* TypeOK, and what it does not say of the operations, the ids and the counter.
Types ==
  /\ TypeOK
  /\ storeChan \in Seq(Ops) /\ todo \in Seq(Ops)
  /\ \A i, j \in DOMAIN asked : asked[i] = asked[j] => i = j
  /\ applogIdx >= -1 /\ counter[2] >= -1 /\ counter[1] <= txMax
  /\ IsFiniteSet(waiting)

\* Where the log of a transaction waited for is, and that it is nowhere else.
InHand == {hand[f] : f \in Fetchers} \ {0}
LogPlaces ==
  /\ waiting = page \cup ToSet(applogChan) \cup appLogs \cup InHand
  /\ page \cap (ToSet(applogChan) \cup appLogs \cup InHand) = {}
  /\ ToSet(applogChan) \cap (appLogs \cup InHand) = {}
  /\ appLogs \cap InHand = {}
  /\ \A f, g \in Fetchers : hand[f] = hand[g] /\ hand[f] # 0 => f = g
  /\ \A i, j \in DOMAIN applogChan : applogChan[i] = applogChan[j] => i = j

\* The transactions the task looks at; what fetchNep5Tx has in hand or sent, and
\* what handleNep5Tx has received.
Relevant(t) == t \in 1..txMax /\ chain[t].kind \notin {"none", "short"}
Ahead == ToSet(nep5TxChan) \cup waiting
Taken(t) == Relevant(t) /\ t < nextTxPK /\ t \notin Ahead

\* Transactions reach handleNep5Tx in ascending order, and none is left out.
ScanOrder ==
  /\ nextTxPK <= txMax + 1
  /\ \A i, j \in DOMAIN nep5TxChan : i < j => nep5TxChan[i] < nep5TxChan[j]
  /\ \A i \in DOMAIN nep5TxChan, t \in waiting : nep5TxChan[i] < t
  /\ \A a \in Ahead : Relevant(a) /\ a < nextTxPK
  /\ \A s \in Ids, a \in Ahead : Taken(s) => s < a

\* The call in hand is the last transaction taken.
CallInHand ==
  called # 0 =>
    /\ Taken(called) /\ chain[called].kind = "call"
    /\ applogIdx < Len(chain[called].log)
    /\ \A s \in Ids : Taken(s) => s <= called
    /\ called = counter[1] => counter[2] # -1 /\ counter[2] <= applogIdx

\* After a restart within a transaction: nothing was taken yet, and the first to
\* be taken is the one of the counter.
Resuming ==
  /\ called = 0 /\ storeChan = <<>> /\ todo = <<>>
  /\ counter[2] # -1 /\ applogIdx = counter[2]
  /\ counter[1] \in Ahead \/ counter[1] = nextTxPK
  /\ \A a \in Ahead : counter[1] <= a
CounterPlace ==
  /\ counter[1] = 0 => counter[2] = -1
  /\ counter[1] # 0 => Taken(counter[1]) \/ Resuming
  /\ counter[2] # -1 => /\ chain[counter[1]].kind = "call"
                        /\ counter[2] < Len(chain[counter[1]].log)
  /\ called = 0 /\ applogIdx # -1 => Resuming

\* What an operation is made for.
Registering(t) == Registers(t, chain[t].hash)
OpFits(s) ==
  /\ Taken(s.tx)
  /\ s.op = "asset" => /\ Registering(s.tx) /\ s.idx = -1
                       /\ <<chain[s.tx].hash, s.id>> \in meant
  /\ s.op = "balance" => chain[s.tx].kind = "call" /\ s.idx = -1
  /\ s.op = "transfer" => /\ chain[s.tx].kind = "call"
                          /\ s.idx \in 0..(Len(chain[s.tx].log) - 1)
                          /\ <<chain[s.tx].log[s.idx + 1], s.id>> \in meant
                          /\ s.tx = called => s.idx <= applogIdx
  /\ s.op = "counter" => s.tx # called /\ s.idx = -1
  /\ s.op = "migrate" => chain[s.tx].kind \in {"migrate", "regmigrate"} /\ s.idx = -1

\* Operations are queued in the order of their transactions and, within one, of
\* the notifications, the registration or balance first and the counter last.
Before(r, s) ==
  \/ r.tx < s.tx
  \/ /\ r.tx = s.tx
     /\ \/ r.op \in {"asset", "balance"} /\ s.op \in {"transfer", "counter", "migrate"}
        \/ r.op = "transfer" /\ s.op = "transfer" /\ r.idx < s.idx
        \/ r.op = "transfer" /\ s.op = "counter"

\* An operation is behind the counter, or completes the transaction whose
\* registration set the counter already.
Behind(s) ==
  \/ s.tx > counter[1]
  \/ /\ s.tx = counter[1] /\ counter[2] # -1
     /\ s.op \in {"balance", "transfer", "counter"}
     /\ s.op = "transfer" => s.idx > counter[2]
  \/ /\ s.tx = counter[1] /\ counter[2] = -1
     /\ s.op \in {"counter", "migrate"}

QueueOrder ==
  /\ \A n \in DOMAIN Queue : OpFits(Queue[n]) /\ Behind(Queue[n])
  /\ \A n, m \in DOMAIN Queue : n < m => Before(Queue[n], Queue[m])

\* The ids in use were given by GetAssetId.
HasId(h) == \E i \in DOMAIN nep5 : <<h, i>> \in meant
IdGiven(i) == \E h \in Hashes : <<h, i>> \in meant
IdsGiven ==
  /\ Names(asked) \subseteq meant
  /\ \A i \in known : IdGiven(i)
  /\ \A i \in DOMAIN nep5 : nep5[i] > 0 => IdGiven(i)
  /\ \A t \in Ids : Taken(t) /\ Registering(t) => HasId(chain[t].hash)

\* The task knows the assets registered by what it took; a registration that was
\* taken is in the table or on its way, and only the first of an asset is.
TakenRegisters(h) == \E t \in Ids : Taken(t) /\ Registers(t, h)
CountedRegisters(h) == \E t \in 1..counter[1] : Registers(t, h)
KnownExact == IdsStable =>
  \A p \in meant : p[2] \in known <=> TakenRegisters(p[1])
FirstRegister(t) == Registering(t) /\ ~RegisteredBefore(t, chain[t].hash)
AssetQueued(h) ==
  \E n \in DOMAIN Queue : Queue[n].op = "asset" /\ chain[Queue[n].tx].hash = h
AssetsOnTheWay == IdsStable =>
  /\ \A t \in Ids : Taken(t) /\ Registering(t) =>
       CountedRegisters(chain[t].hash) \/ AssetQueued(chain[t].hash)
  /\ \A n \in DOMAIN Queue : Queue[n].op = "asset" => FirstRegister(Queue[n].tx)

\* nep5_tx holds what is done and was not dropped, and the rest is on its way or
\* not yet taken.
IsTransfer(t, i) ==
  /\ t \in 1..txMax /\ i \in 0..(Len(chain[t].log) - 1)
  /\ RegisteredBefore(t, chain[t].log[i + 1])
RowFits(r) ==
  /\ r.tx \in 1..txMax /\ chain[r.tx].kind = "call"
  /\ r.idx \in 0..(Len(chain[r.tx].log) - 1)
  /\ <<chain[r.tx].log[r.idx + 1], r.id>> \in meant
  /\ Done(r.tx, r.idx)
RowsInOrder ==
  /\ \A n \in DOMAIN nep5Tx : RowFits(nep5Tx[n])
  /\ \A n, m \in DOMAIN nep5Tx : m < n =>
       \/ nep5Tx[m].tx < nep5Tx[n].tx
       \/ nep5Tx[m].tx = nep5Tx[n].tx /\ nep5Tx[m].idx < nep5Tx[n].idx
Stored(t, i) == \E n \in DOMAIN nep5Tx : nep5Tx[n].tx = t /\ nep5Tx[n].idx = i
Queued(t, i) == \E n \in DOMAIN Queue :
  Queue[n].op = "transfer" /\ Queue[n].tx = t /\ Queue[n].idx = i
OfAsset(r) == RegisteredBefore(r.tx, chain[r.tx].log[r.idx + 1])
OnTheWay(t, i) ==
  \/ <<t, i>> \in dropped
  \/ IF Done(t, i) THEN Stored(t, i)
     ELSE Queued(t, i) \/ (t = called /\ i > applogIdx) \/ ~Taken(t)
TransfersOnTheWay == IdsStable =>
  /\ \A n \in DOMAIN nep5Tx : OfAsset(nep5Tx[n])
  /\ \A n \in DOMAIN Queue : Queue[n].op = "transfer" => OfAsset(Queue[n])
  /\ \A t \in Ids : \A i \in Nat : IsTransfer(t, i) => OnTheWay(t, i)

\* The same of the migrations.
Should(t) ==
  /\ chain[t].kind \in {"migrate", "regmigrate"}
  /\ \E s \in 1..t : Registers(s, chain[t].hash)
MigrationQueued(t) == \E n \in DOMAIN Queue : Queue[n].op = "migrate" /\ Queue[n].tx = t
MigrationOpen(t) ==
  /\ Should(t) /\ t \notin migrations /\ t \notin cut
  /\ t <= counter[1] => FirstRegister(t)
MigrationsOnTheWay == IdsStable =>
  /\ \A t \in Ids : Taken(t) /\ Should(t) =>
       t \in migrations \/ t \in cut \/ MigrationQueued(t)
  /\ \A t \in migrations : t <= counter[1] /\ Should(t)
  /\ \A t \in cut : t \notin migrations /\ t <= counter[1] /\ FirstRegister(t)
  /\ \A n \in DOMAIN Queue : Queue[n].op = "migrate" => MigrationOpen(Queue[n].tx)

\* What was dropped is neither stored nor on its way, and was looked at.
DroppedApart ==
  \A u \in dropped :
    /\ ~Stored(u[1], u[2]) /\ ~Queued(u[1], u[2])
    /\ Taken(u[1]) \/ Done(u[1], u[2])
    /\ u[1] = called => u[2] <= applogIdx

OrderInv == Types /\ LogPlaces /\ ScanOrder /\ CallInHand /\ CounterPlace
            /\ QueueOrder /\ IdsGiven /\ RowsInOrder
IInv == /\ OrderInv /\ KnownExact /\ AssetsExact /\ AssetsOnTheWay
        /\ TransfersOnTheWay /\ MigrationsOnTheWay /\ AddrTxExact /\ DroppedApart
-----------------------------------------------------------------------------
(* Sequences and pages. *)

LEMMA Appended ==
  ASSUME NEW S, NEW s \in Seq(S), NEW x \in S
  PROVE  /\ Append(s, x) \in Seq(S) /\ Len(Append(s, x)) = Len(s) + 1
         /\ Len(s) \in Nat /\ DOMAIN s = 1..Len(s)
         /\ DOMAIN Append(s, x) = 1..(Len(s) + 1)
         /\ \A i \in 1..Len(s) : Append(s, x)[i] = s[i]
         /\ Append(s, x)[Len(s) + 1] = x
         /\ \A i \in DOMAIN Append(s, x) : i \in 1..Len(s) \/ i = Len(s) + 1
         /\ ToSet(Append(s, x)) = ToSet(s) \cup {x}
<1>1. PICK z : z = Append(s, x) OBVIOUS
<1>2. PICK n : n = Len(s) OBVIOUS
<1>3. /\ z \in Seq(S) /\ n \in Nat /\ Len(z) = n + 1
      /\ DOMAIN s = 1..n /\ DOMAIN z = 1..(n + 1)
      /\ z[n + 1] = x /\ \A i \in 1..n : z[i] = s[i]
  BY <1>1, <1>2, AppendProperties, LenProperties
<1>4. \A i : i \in 1..(n + 1) <=> i \in 1..n \/ i = n + 1 BY <1>3
<1>5. ToSet(z) = ToSet(s) \cup {x} BY <1>3, <1>4 DEF ToSet
<1> QED BY <1>1, <1>2, <1>3, <1>4, <1>5

\* What Tail keeps of a sequence.
LEMMA Shortened ==
  ASSUME NEW S, NEW s \in Seq(S), s # <<>>
  PROVE  /\ Tail(s) \in Seq(S) /\ Len(Tail(s)) = Len(s) - 1 /\ Len(s) \in Nat \ {0}
         /\ Head(s) \in S /\ Head(s) = s[1] /\ DOMAIN s = 1..Len(s)
         /\ DOMAIN Tail(s) = 1..(Len(s) - 1)
         /\ \A i \in 1..(Len(s) - 1) : i + 1 \in 1..Len(s) /\ Tail(s)[i] = s[i + 1]
         /\ ToSet(s) = ToSet(Tail(s)) \cup {Head(s)}
<1>1. PICK z : z = Tail(s) OBVIOUS
<1>2. PICK n : n = Len(s) OBVIOUS
<1>3. /\ n \in Nat \ {0} /\ DOMAIN s = 1..n /\ z \in Seq(S) /\ Len(z) = n - 1
      /\ DOMAIN z = 1..(n - 1) /\ \A i \in 1..(n - 1) : z[i] = s[i + 1]
      /\ Head(s) = s[1] /\ Head(s) \in S
  BY <1>1, <1>2, EmptySeq, HeadTailProperties, LenProperties
<1>4. \A i \in 1..(n - 1) : i + 1 \in 1..n BY <1>3
<1>5. \A i \in 1..n : i = 1 \/ (i - 1 \in 1..(n - 1) /\ i = (i - 1) + 1) BY <1>3
<1>6. ASSUME NEW x \in ToSet(s) PROVE x = s[1] \/ x \in ToSet(z)
  <2>1. PICK i \in 1..n : x = s[i] BY <1>3 DEF ToSet
  <2>2. CASE i = 1 BY <2>1, <2>2
  <2>3. CASE i - 1 \in 1..(n - 1) /\ i = (i - 1) + 1
    <3>1. z[i - 1] = x BY <2>1, <2>3, <1>3
    <3> QED BY <3>1, <2>3, <1>3 DEF ToSet
  <2> QED BY <2>2, <2>3, <1>5
<1>7. ToSet(z) \subseteq ToSet(s) /\ s[1] \in ToSet(s) BY <1>3, <1>4 DEF ToSet
<1> QED BY <1>1, <1>2, <1>3, <1>4, <1>6, <1>7

\* The empty sequence holds nothing.
LEMMA NothingIn == ToSet(<<>>) = {} /\ \A S : <<>> \in Seq(S) /\ Len(<<>>) = 0
BY DEF ToSet

\* What is known of a transaction of the chain.
LEMMA TxFacts ==
  ASSUME chain \in Seq(Txs), txMax <= MaxTx
  PROVE  /\ txMax \in Nat /\ DOMAIN chain = 1..txMax /\ MaxTx \in Nat
         /\ \A t \in 1..txMax :
              /\ t \in Ids /\ t \in Nat \ {0} /\ chain[t] \in Txs
              /\ chain[t].kind \in Kinds /\ chain[t].ok \in BOOLEAN
              /\ chain[t].kind \in {"reg", "create", "migrate", "regmigrate"} =>
                   chain[t].hash \in Hashes
              /\ chain[t].kind = "call" => chain[t].hash \in Hashes \cup {NoHash}
              /\ chain[t].log \in Seq(Hashes) /\ Len(chain[t].log) \in Nat
              /\ DOMAIN chain[t].log = 1..Len(chain[t].log)
              /\ chain[t].kind # "call" => Len(chain[t].log) = 0
              /\ \A i \in 0..(Len(chain[t].log) - 1) : chain[t].log[i + 1] \in Hashes
<1>1. txMax \in Nat /\ DOMAIN chain = 1..txMax /\ MaxTx \in Nat
  BY LenProperties, Nep5Bounds DEF txMax
<1>2. ASSUME NEW t \in 1..txMax
      PROVE  /\ t \in Ids /\ t \in Nat \ {0} /\ chain[t] \in Txs
             /\ chain[t].kind \in Kinds /\ chain[t].ok \in BOOLEAN
             /\ chain[t].kind \in {"reg", "create", "migrate", "regmigrate"} =>
                  chain[t].hash \in Hashes
             /\ chain[t].kind = "call" => chain[t].hash \in Hashes \cup {NoHash}
             /\ chain[t].log \in Seq(Hashes) /\ Len(chain[t].log) \in Nat
             /\ DOMAIN chain[t].log = 1..Len(chain[t].log)
             /\ chain[t].kind # "call" => Len(chain[t].log) = 0
             /\ \A i \in 0..(Len(chain[t].log) - 1) : chain[t].log[i + 1] \in Hashes
  <2>1. t \in Ids /\ t \in Nat \ {0} BY <1>1 DEF Ids
  <2>2. chain[t] \in Txs BY <1>1, ElementOfSeq DEF txMax
  <2>3. PICK x : x = chain[t] OBVIOUS
  <2>4. /\ x.kind \in Kinds /\ x.ok \in BOOLEAN
        /\ x.kind \in {"reg", "create", "migrate", "regmigrate"} => x.hash \in Hashes
        /\ x.kind = "call" => x.hash \in Hashes \cup {NoHash}
        /\ x.log \in Seq(Hashes) /\ (x.kind # "call" => x.log = <<>>)
    BY <2>2, <2>3, Nep5Bounds
  <2>5. PICK l : l = x.log OBVIOUS
  <2>6. l \in Seq(Hashes) /\ Len(l) \in Nat /\ DOMAIN l = 1..Len(l)
    BY <2>4, <2>5, LenProperties
  <2>7. ASSUME NEW i \in 0..(Len(l) - 1) PROVE l[i + 1] \in Hashes
    <3>1. i + 1 \in 1..Len(l) BY <2>6
    <3> QED BY <3>1, <2>6, ElementOfSeq
  <2>8. x.kind # "call" => Len(l) = 0 BY <2>4, <2>5, EmptySeq
  <2> QED BY <2>1, <2>2, <2>3, <2>4, <2>5, <2>6, <2>7, <2>8
<1> QED BY <1>1, <1>2

\* GetInvocationTxs: up to any transaction of the page it holds every invocation,
\* and the page has an end.
LEMMA PageIsPrefix ==
  ASSUME chain \in Seq(Txs), txMax <= MaxTx, NEW n \in Nat \ {0}
  PROVE  /\ \A t \in Kept(n) : t \in Ids /\ t >= n /\ Relevant(t)
         /\ \A t \in Kept(n), s \in Ids : Relevant(s) /\ n <= s /\ s <= t => s \in Kept(n)
         /\ IsFiniteSet(Kept(n))
         /\ \A last \in Kept(n) : IsLast(last, Kept(n)) => Cardinality(Kept(n)) <= PageSize
<1> DEFINE W == Invocations(n)
           upTo(t) == W \cap n..t
<1>1. /\ txMax \in Nat /\ MaxTx \in Nat /\ PageSize \in Nat
      /\ \A t \in 1..txMax : t \in Ids
  BY TxFacts, Nep5Bounds
<1>2. W \subseteq n..txMax /\ \A t \in W : chain[t].kind # "none"
  BY DEF Invocations
<1>3. IsFiniteSet(W)
  <2>1. IsFiniteSet(n..txMax) BY <1>1, FS_Interval
  <2> QED BY <2>1, <1>2, FS_Subset
<1>4. \A t : IsFiniteSet(upTo(t)) /\ Cardinality(upTo(t)) \in Nat
  <2>1. \A t : upTo(t) \subseteq W OBVIOUS
  <2> HIDE DEF upTo, W
  <2> QED BY <2>1, <1>3, FS_Subset, FS_CardinalityType
<1>5. /\ GetInvocationTxs(n) = {t \in W : Cardinality(upTo(t)) <= PageSize}
      /\ Kept(n) = {t \in GetInvocationTxs(n) : chain[t].kind # "short"}
  BY DEF GetInvocationTxs, Kept
<1>6. \A t \in Kept(n) : t \in Ids /\ t >= n /\ Relevant(t) /\ t \in W
  BY <1>1, <1>2, <1>5 DEF Relevant
<1>7. ASSUME NEW t \in Kept(n), NEW s \in Ids, Relevant(s), n <= s, s <= t
      PROVE  s \in Kept(n)
  <2>1. s \in W BY <1>1, <1>7 DEF Invocations, Relevant
  <2>2. upTo(s) \subseteq upTo(t)
    <3>1. s \in Int /\ t \in Int BY <1>6, <1>1 DEF Ids
    <3> QED BY <3>1, <1>7
  <2>3. Cardinality(upTo(s)) <= Cardinality(upTo(t))
    <3> HIDE DEF upTo, W
    <3> QED BY <2>2, <1>4, FS_Subset
  <2>4. Cardinality(upTo(t)) <= PageSize BY <1>5
  <2>5. Cardinality(upTo(s)) <= PageSize
    <3> HIDE DEF upTo, W
    <3> QED BY <2>3, <2>4, <1>1, <1>4
  <2> QED BY <2>1, <2>5, <1>5, <1>7 DEF Relevant
<1>8. IsFiniteSet(Kept(n))
  <2>1. Kept(n) \subseteq W BY <1>6
  <2> HIDE DEF W
  <2> QED BY <2>1, <1>3, FS_Subset
<1>9. ASSUME NEW last \in Kept(n), IsLast(last, Kept(n))
      PROVE  Cardinality(Kept(n)) <= PageSize
  <2>1. \A t \in Kept(n) : t \in upTo(last)
    <3> SUFFICES ASSUME NEW t \in Kept(n) PROVE t \in n..last
      BY <1>6
    <3> QED BY <1>1, <1>6, <1>9 DEF IsLast, Ids
  <2>2. Kept(n) \subseteq upTo(last) BY <2>1
  <2>3. Cardinality(upTo(last)) <= PageSize BY <1>5
  <2>4. Cardinality(Kept(n)) <= Cardinality(upTo(last)) /\ Cardinality(Kept(n)) \in Nat
    <3> HIDE DEF upTo, W
    <3> QED BY <2>2, <1>4, <1>8, FS_Subset, FS_CardinalityType
  <2> HIDE DEF upTo, W
  <2> QED BY <2>3, <2>4, <1>1, <1>4
<1> QED BY <1>6, <1>7, <1>8, <1>9
-----------------------------------------------------------------------------
(* The queue of operations. *)

LEMMA Joined ==
  ASSUME NEW S, NEW s \in Seq(S), NEW t \in Seq(S)
  PROVE  /\ s \o t \in Seq(S) /\ Len(s) \in Nat /\ Len(t) \in Nat
         /\ Len(s \o t) = Len(s) + Len(t) /\ DOMAIN (s \o t) = 1..(Len(s) + Len(t))
         /\ DOMAIN s = 1..Len(s) /\ DOMAIN t = 1..Len(t)
         /\ \A n \in 1..Len(s) : n \in DOMAIN (s \o t) /\ (s \o t)[n] = s[n]
         /\ \A n \in 1..Len(t) :
              Len(s) + n \in DOMAIN (s \o t) /\ (s \o t)[Len(s) + n] = t[n]
         /\ \A n \in DOMAIN (s \o t) :
              n \in 1..Len(s) \/ (n - Len(s) \in 1..Len(t) /\ n = Len(s) + (n - Len(s)))
<1>1. PICK z : z = s \o t OBVIOUS
<1>2. PICK a, b : a = Len(s) /\ b = Len(t) OBVIOUS
<1>3. /\ z \in Seq(S) /\ a \in Nat /\ b \in Nat /\ Len(z) = a + b
      /\ DOMAIN s = 1..a /\ DOMAIN t = 1..b /\ DOMAIN z = 1..(a + b)
      /\ \A i \in 1..(a + b) : z[i] = IF i <= a THEN s[i] ELSE t[i - a]
  BY <1>1, <1>2, ConcatProperties, LenProperties
<1>4. \A n \in 1..a : n \in 1..(a + b) /\ z[n] = s[n] BY <1>3
<1>5. ASSUME NEW n \in 1..b PROVE a + n \in 1..(a + b) /\ z[a + n] = t[n]
  <2>1. a + n \in 1..(a + b) /\ ~(a + n <= a) /\ (a + n) - a = n BY <1>3
  <2> QED BY <2>1, <1>3
<1>6. \A n \in 1..(a + b) : n \in 1..a \/ (n - a \in 1..b /\ n = a + (n - a)) BY <1>3
<1> QED BY <1>1, <1>2, <1>3, <1>4, <1>5, <1>6

\* The operations on their way are a sequence of operations.
LEMMA QueueIsSeq ==
  ASSUME storeChan \in Seq(Ops), todo \in Seq(Ops)
  PROVE  /\ Queue \in Seq(Ops) /\ Len(Queue) \in Nat /\ DOMAIN Queue = 1..Len(Queue)
         /\ \A n \in DOMAIN Queue :
              /\ Queue[n] \in Ops /\ Queue[n].op \in OpNames /\ Queue[n].tx \in Ids
              /\ Queue[n].idx \in Int /\ Queue[n].id \in 0..Cardinality(Hashes)
<1>1. PICK q : q = Queue OBVIOUS
<1>2. q \in Seq(Ops) BY <1>1, Joined DEF Queue
<1>3. Len(q) \in Nat /\ DOMAIN q = 1..Len(q) /\ \A n \in DOMAIN q : q[n] \in Ops
  BY <1>2, LenProperties, ElementOfSeq
<1>4. \A s \in Ops : /\ s.op \in OpNames /\ s.tx \in Ids /\ s.idx \in Int
                     /\ s.id \in 0..Cardinality(Hashes)
  BY DEF Ops
<1> QED BY <1>1, <1>2, <1>3, <1>4

\* An operation sent stays where it is; the one executed was the first.
LEMMA QueueSent ==
  ASSUME storeChan \in Seq(Ops), todo \in Seq(Ops), todo # <<>>,
         storeChan' = Append(storeChan, Head(todo)), todo' = Tail(todo)
  PROVE  storeChan' \in Seq(Ops) /\ todo' \in Seq(Ops) /\ Queue' = Queue
<1>1. PICK h, t : h = Head(todo) /\ t = Tail(todo) OBVIOUS
<1>2. h \in Ops /\ t \in Seq(Ops) /\ <<h>> \in Seq(Ops)
  <2>1. h \in Ops /\ t \in Seq(Ops) BY <1>1, HeadTailProperties
  <2>2. <<h>> \in Seq(Ops) BY <2>1
  <2> QED BY <2>1, <2>2
<1>3. todo = <<h>> \o t
  <2>1. PICK z : z = <<h>> \o t OBVIOUS
  <2>2. /\ z \in Seq(Ops) /\ Len(z) = 1 + Len(t)
        /\ \A i \in 1..(1 + Len(t)) : z[i] = IF i <= 1 THEN <<h>>[i] ELSE t[i - 1]
    BY <2>1, <1>2, ConcatProperties
  <2>3. /\ Len(todo) \in Nat \ {0} /\ Len(t) = Len(todo) - 1 /\ h = todo[1]
        /\ \A i \in 1..(Len(todo) - 1) : t[i] = todo[i + 1]
    BY <1>1, Shortened
  <2>4. \A i \in 1..Len(todo) : i = 1 \/ (i - 1 \in 1..(Len(todo) - 1) /\ i = (i - 1) + 1)
    BY <2>3
  <2>5. \A i \in 1..Len(todo) : z[i] = todo[i] BY <2>2, <2>3, <2>4
  <2>6. Len(todo) = Len(z) BY <2>2, <2>3
  <2>7. todo = z BY <2>2, <2>5, <2>6, SeqEqual
  <2> QED BY <2>1, <2>7
<1>4. Append(storeChan, h) = storeChan \o <<h>> BY <1>2, AppendIsConcat
<1>5. (storeChan \o <<h>>) \o t = storeChan \o (<<h>> \o t) BY <1>2, ConcatAssociative
<1>6. Append(storeChan, h) \in Seq(Ops) BY <1>2, AppendProperties
<1>7. Queue' = storeChan' \o todo' BY DEF Queue
<1> QED BY <1>1, <1>2, <1>3, <1>4, <1>5, <1>6, <1>7 DEF Queue

\* Executing an operation takes the first of the queue.
LEMMA QueueStored ==
  ASSUME storeChan \in Seq(Ops), todo \in Seq(Ops), storeChan # <<>>,
         storeChan' = Tail(storeChan), todo' = todo
  PROVE  /\ storeChan' \in Seq(Ops) /\ Head(storeChan) = Queue[1] /\ 1 \in DOMAIN Queue
         /\ Len(storeChan') = Len(storeChan) - 1 /\ Len(storeChan) \in Nat
         /\ DOMAIN Queue' = 1..(Len(Queue) - 1)
         /\ \A n \in DOMAIN Queue' : n + 1 \in DOMAIN Queue /\ Queue'[n] = Queue[n + 1]
         /\ \A n \in DOMAIN Queue : n = 1 \/ (n - 1 \in DOMAIN Queue' /\ Queue'[n - 1] = Queue[n])
<1>1. PICK a, q, z, t : /\ a = Len(storeChan) /\ q = Queue /\ z = Queue'
                        /\ t = Tail(storeChan)
  OBVIOUS
<1>2. /\ a \in Nat \ {0} /\ t \in Seq(Ops) /\ Len(t) = a - 1
      /\ Head(storeChan) = storeChan[1]
      /\ \A i \in 1..(a - 1) : i + 1 \in 1..a /\ t[i] = storeChan[i + 1]
  BY <1>1, Shortened
<1>3. PICK b : b = Len(todo) OBVIOUS
<1>4. /\ b \in Nat /\ Len(q) = a + b /\ DOMAIN q = 1..(a + b)
      /\ \A n \in 1..a : q[n] = storeChan[n]
      /\ \A n \in 1..b : q[a + n] = todo[n]
  BY <1>1, <1>3, Joined DEF Queue
<1>5. z = t \o todo BY <1>1 DEF Queue
<1>6. /\ DOMAIN z = 1..((a - 1) + b)
      /\ \A n \in 1..(a - 1) : z[n] = t[n]
      /\ \A n \in 1..b : z[(a - 1) + n] = todo[n]
  <2>1. PICK l : l = Len(t) OBVIOUS
  <2>2. t \in Seq(Ops) BY <1>2
  <2>3. /\ DOMAIN z = 1..(l + b)
        /\ \A n \in 1..l : z[n] = t[n]
        /\ \A n \in 1..b : z[l + n] = todo[n]
    BY <1>5, <1>3, <2>1, <2>2, Joined
  <2> QED BY <2>1, <2>3, <1>2
<1>7. ASSUME NEW n \in 1..((a - 1) + b) PROVE n + 1 \in 1..(a + b) /\ z[n] = q[n + 1]
  <2>1. n + 1 \in 1..(a + b) BY <1>2, <1>4
  <2>2. CASE n <= a - 1
    <3>1. n \in 1..(a - 1) /\ n + 1 \in 1..a BY <2>2, <1>2, <1>4
    <3> QED BY <3>1, <2>1, <1>2, <1>4, <1>6
  <2>3. CASE n > a - 1
    <3>1. /\ n - (a - 1) \in 1..b /\ n = (a - 1) + (n - (a - 1))
          /\ n + 1 = a + (n - (a - 1))
      BY <2>3, <1>2, <1>4
    <3> QED BY <3>1, <2>1, <1>4, <1>6
  <2> QED BY <2>2, <2>3, <1>2, <1>4
<1>8. ASSUME NEW n \in 1..(a + b), n # 1
      PROVE  n - 1 \in 1..((a - 1) + b) /\ z[n - 1] = q[n]
  <2>1. n - 1 \in 1..((a - 1) + b) /\ (n - 1) + 1 = n BY <1>8, <1>2, <1>4
  <2> QED BY <2>1, <1>7
<1>9. 1 \in 1..a /\ 1 \in 1..(a + b) /\ (a - 1) + b = (a + b) - 1 BY <1>2, <1>4
<1> QED BY <1>1, <1>2, <1>4, <1>6, <1>7, <1>8, <1>9

\* What handleNep5Tx adds to the empty list comes behind what was sent.
LEMMA QueueGrows ==
  ASSUME storeChan \in Seq(Ops), todo = <<>>, todo' \in Seq(Ops), storeChan' = storeChan
  PROVE  /\ Queue = storeChan
         /\ \A n \in DOMAIN Queue : n \in DOMAIN Queue' /\ Queue'[n] = Queue[n]
         /\ \A j \in DOMAIN todo' : /\ Len(storeChan) + j \in DOMAIN Queue'
                                    /\ Queue'[Len(storeChan) + j] = todo'[j]
         /\ \A n \in DOMAIN Queue' :
              \/ n \in DOMAIN Queue /\ n <= Len(storeChan)
              \/ /\ n - Len(storeChan) \in DOMAIN todo' /\ n > Len(storeChan)
                 /\ Queue'[n] = todo'[n - Len(storeChan)]
<1>1. Queue = storeChan BY ConcatEmptySeq DEF Queue
<1>2. PICK t, z : t = todo' /\ z = Queue' OBVIOUS
<1>3. t \in Seq(Ops) /\ z = storeChan \o t BY <1>2 DEF Queue
<1>4. PICK a, b : a = Len(storeChan) /\ b = Len(t) OBVIOUS
<1>5. /\ a \in Nat /\ b \in Nat /\ DOMAIN storeChan = 1..a /\ DOMAIN t = 1..b
      /\ DOMAIN z = 1..(a + b)
      /\ \A n \in 1..a : n \in DOMAIN z /\ z[n] = storeChan[n]
      /\ \A n \in 1..b : a + n \in DOMAIN z /\ z[a + n] = t[n]
      /\ \A n \in DOMAIN z : n \in 1..a \/ (n - a \in 1..b /\ n = a + (n - a))
  BY <1>3, <1>4, Joined
<1>6. ASSUME NEW n \in DOMAIN z
      PROVE  (n \in 1..a /\ n <= a) \/ (n - a \in 1..b /\ n > a /\ z[n] = t[n - a])
  BY <1>5
<1> QED BY <1>1, <1>2, <1>4, <1>5, <1>6
-----------------------------------------------------------------------------
(* The ids. *)

LEMMA GivenId ==
  ASSUME NEW h \in Hashes, NEW s \in Seq(Hashes), IsFiniteSet(Hashes),
         \A i, j \in DOMAIN s : s[i] = s[j] => i = j
  PROVE  LET r == GetAssetId(s, h)
             N == Cardinality(Hashes)
         IN  /\ r \in Seq(Hashes) /\ N \in Nat
             /\ \A i, j \in DOMAIN r : r[i] = r[j] => i = j
             /\ DOMAIN r \subseteq 1..N
             /\ IdOf(r, h) \in 1..N /\ <<h, IdOf(r, h)>> \in Names(r)
             /\ Names(s) \subseteq Names(r)
             /\ Names(r) \subseteq Names(s) \cup {<<h, IdOf(r, h)>>}
             /\ Names(r) \subseteq Hashes \X (1..N)
<1>1. PICK r, N : r = GetAssetId(s, h) /\ N = Cardinality(Hashes) OBVIOUS
<1>2. /\ r \in Seq(Hashes) /\ \A i, j \in DOMAIN r : r[i] = r[j] => i = j
      /\ \E i \in DOMAIN r : r[i] = h
      /\ Names(s) \subseteq Names(r)
      /\ \A i \in DOMAIN r : r[i] = h \/ <<r[i], i>> \in Names(s)
  <2>1. Len(s) \in Nat /\ DOMAIN s = 1..Len(s) BY LenProperties
  <2>2. CASE h \in ToSet(s)
    <3>1. r = s BY <1>1, <2>2 DEF GetAssetId
    <3> QED BY <3>1, <2>2 DEF ToSet, Names
  <2>3. CASE h \notin ToSet(s)
    <3>1. r = Append(s, h) BY <1>1, <2>3 DEF GetAssetId
    <3>2. /\ r \in Seq(Hashes) /\ DOMAIN r = 1..(Len(s) + 1)
          /\ \A i \in 1..Len(s) : r[i] = s[i] /\ i \in DOMAIN r
          /\ r[Len(s) + 1] = h
          /\ \A i \in DOMAIN r : i \in 1..Len(s) \/ i = Len(s) + 1
      BY <3>1, <2>1, Appended
    <3>3. \A i \in DOMAIN s : s[i] # h BY <2>3 DEF ToSet
    <3>4. Len(s) + 1 \in DOMAIN r BY <3>2, <2>1
    <3> QED BY <3>2, <3>3, <3>4, <2>1 DEF Names
  <2> QED BY <2>2, <2>3
<1>3. DOMAIN r \subseteq 1..N /\ N \in Nat
  <2>1. PICK n : n = Len(r) OBVIOUS
  <2>2. n \in Nat /\ DOMAIN r = 1..n /\ \A i \in 1..n : r[i] \in Hashes
    BY <2>1, <1>2, LenProperties, ElementOfSeq
  <2>3. PICK f : f = [i \in 1..n |-> r[i]] OBVIOUS
  <2>4. f \in Injection(1..n, Hashes)
    <3>1. f \in [1..n -> Hashes] BY <2>2, <2>3
    <3>2. \A a, b \in 1..n : f[a] = f[b] => a = b BY <2>2, <2>3, <1>2
    <3> QED BY <3>1, <3>2 DEF Injection, IsInjective
  <2>5. IsFiniteSet(1..n) /\ Cardinality(1..n) = n
    BY <2>2, FS_Interval
  <2>6. n <= N /\ N \in Nat BY <2>2, <2>4, <2>5, <1>1, FS_Injection, FS_CardinalityType
  <2> QED BY <2>2, <2>6
<1>4. IdOf(r, h) \in DOMAIN r /\ r[IdOf(r, h)] = h BY <1>2 DEF IdOf
<1>5. \A i \in DOMAIN r : r[i] \in Hashes
  BY <1>2, LenProperties, ElementOfSeq
<1>6. \A p \in Names(r) : p \in Hashes \X (1..N) /\ p \in Names(s) \cup {<<h, IdOf(r, h)>>}
  <2> SUFFICES ASSUME NEW i \in DOMAIN r
               PROVE  /\ <<r[i], i>> \in Hashes \X (1..N)
                      /\ <<r[i], i>> \in Names(s) \cup {<<h, IdOf(r, h)>>}
    BY DEF Names
  <2>1. <<r[i], i>> \in Hashes \X (1..N) BY <1>3, <1>5
  <2>2. r[i] = h => i = IdOf(r, h) BY <1>2, <1>4
  <2> QED BY <2>1, <2>2, <1>2
<1>7. <<h, IdOf(r, h)>> \in Names(r) BY <1>4 DEF Names
<1> QED BY <1>1, <1>2, <1>3, <1>4, <1>6, <1>7
-----------------------------------------------------------------------------
(* What has been taken. *)

LEMMA TypesFacts ==
  ASSUME Types
  PROVE  /\ chain \in Seq(Txs) /\ txMax \in Nat /\ MaxTx \in Nat /\ txMax <= MaxTx
         /\ nextTxPK \in Nat \ {0} /\ called \in Nat /\ applogIdx \in Int /\ applogIdx >= -1
         /\ counter[1] \in Nat /\ counter[2] \in Int /\ counter[2] >= -1
         /\ counter = <<counter[1], counter[2]>> /\ counter[1] <= txMax
         /\ storeChan \in Seq(Ops) /\ todo \in Seq(Ops)
         /\ DOMAIN nep5 = 1..Cardinality(Hashes) /\ Cardinality(Hashes) \in Nat
         /\ Ids \subseteq Nat \ {0} /\ 1..txMax \subseteq Ids
         /\ nep5TxChan \in Seq(Ids) /\ waiting \subseteq Ids /\ Ahead \subseteq Ids
<1>1. txMax \in Nat /\ MaxTx \in Nat BY TxFacts DEF Types, TypeOK
<1>2. nextTxPK \in Nat \ {0} /\ called \in Nat
  BY <1>1 DEF Types, TypeOK
<1>3. counter[1] \in Nat /\ counter[2] \in Int /\ counter = <<counter[1], counter[2]>>
  <2>1. counter \in (0..MaxTx) \X Int BY DEF Types, TypeOK
  <2> QED BY <2>1, <1>1
<1>4. Cardinality(Hashes) \in Nat BY Nep5Bounds, FS_CardinalityType
<1>5. Ids \subseteq Nat \ {0} BY <1>1 DEF Ids
<1>6. 1..txMax \subseteq Ids BY <1>1 DEF Types, TypeOK, Ids
<1>7. ToSet(nep5TxChan) \subseteq Ids
  <2>1. nep5TxChan \in Seq(Ids) BY DEF Types, TypeOK
  <2>2. \A i \in DOMAIN nep5TxChan : nep5TxChan[i] \in Ids
    BY <2>1, LenProperties, ElementOfSeq
  <2> QED BY <2>2 DEF ToSet
<1>8. nep5TxChan \in Seq(Ids) /\ waiting \subseteq Ids BY DEF Types, TypeOK
<1>9. Ahead \subseteq Ids BY <1>7, <1>8 DEF Ahead
<1> QED BY <1>1, <1>2, <1>3, <1>4, <1>5, <1>6, <1>8, <1>9 DEF Types, TypeOK

\* Only a transaction that the task looks at registers an asset.
LEMMA RegistersRelevant ==
  \A t \in 1..txMax : \A h :
    Registers(t, h) => Relevant(t) /\ chain[t].kind # "call" /\ chain[t].kind # "empty"
                       /\ Registering(t) /\ chain[t].hash = h
BY DEF Registers, Relevant, Registering

\* What is taken has no gaps,
LEMMA TakenBelow ==
  ASSUME OrderInv, NEW s, NEW t, Taken(t), Relevant(s), s <= t
  PROVE  Taken(s)
<1>1. s \in Ids /\ t \in Ids /\ s \in Nat /\ t \in Nat /\ nextTxPK \in Nat
  BY TypesFacts DEF OrderInv, Taken, Relevant
<1>2. t < nextTxPK BY DEF Taken
<1>3. \A a \in Ahead : t < a BY <1>1 DEF OrderInv, ScanOrder
<1>4. Ahead \subseteq Nat BY TypesFacts DEF OrderInv
<1> QED BY <1>1, <1>2, <1>3, <1>4 DEF Taken

\* ... and reaches up to the counter.
LEMMA CountedTaken ==
  ASSUME OrderInv, NEW t, Relevant(t), t <= counter[1]
  PROVE  \/ Taken(t)
         \/ Resuming /\ t = counter[1] /\ chain[t].kind = "call"
<1>1. t \in Nat \ {0} /\ t \in Ids /\ counter[1] \in Nat /\ nextTxPK \in Nat
  BY TypesFacts DEF OrderInv, Relevant
<1>2. CASE Taken(counter[1]) BY <1>2, TakenBelow
<1>3. CASE Resuming /\ t # counter[1]
  <2>1. t < counter[1] BY <1>1, <1>3
  <2>2. \A a \in Ahead : counter[1] <= a /\ a \in Nat /\ a < nextTxPK
    BY <1>3, TypesFacts DEF Resuming, OrderInv, ScanOrder
  <2>3. counter[1] <= nextTxPK BY <1>1, <1>3, <2>2 DEF Resuming
  <2> QED BY <1>1, <2>1, <2>2, <2>3 DEF Taken
<1>4. CASE Resuming /\ t = counter[1]
  BY <1>4 DEF OrderInv, CounterPlace, Resuming
<1> QED BY <1>1, <1>2, <1>3, <1>4 DEF OrderInv, CounterPlace

\* A registration up to the counter was taken.
LEMMA CountedRegistered ==
  ASSUME OrderInv, NEW t \in 1..counter[1], NEW h, Registers(t, h)
  PROVE  Taken(t) /\ Registering(t) /\ t \in Ids /\ TakenRegisters(h) /\ chain[t].hash = h
<1>1. t \in 1..txMax /\ t \in Ids /\ t <= counter[1] BY TypesFacts DEF OrderInv
<1>2. Relevant(t) /\ chain[t].kind # "call" /\ Registering(t) /\ chain[t].hash = h
  BY <1>1, RegistersRelevant
<1>3. Taken(t) BY <1>1, <1>2, CountedTaken
<1> QED BY <1>1, <1>2, <1>3 DEF TakenRegisters

\* Once something is in hand, the restart is over.
LEMMA InTheMiddle ==
  ASSUME OrderInv, storeChan # <<>> \/ todo # <<>> \/ called # 0
  PROVE  /\ ~Resuming
         /\ counter[1] # 0 => Taken(counter[1])
         /\ called = 0 => applogIdx = -1
BY DEF OrderInv, CounterPlace, Resuming

\* The transaction that handleNep5Tx takes next comes behind all it has taken.
LEMMA HeadOfChan ==
  ASSUME OrderInv, called = 0, nep5TxChan # <<>>
  PROVE  LET t == Head(nep5TxChan)
             rest == ToSet(Tail(nep5TxChan)) \cup waiting
         IN  /\ t \in Ids /\ t \in Nat \ {0} /\ Relevant(t) /\ t < nextTxPK /\ ~Taken(t)
             /\ Ahead = rest \cup {t} /\ t \notin rest /\ \A a \in rest : t < a
             /\ \A s : Taken(s) => s < t
             /\ \A s : Relevant(s) /\ s < t => Taken(s)
             /\ Resuming => t = counter[1] /\ chain[t].kind = "call"
             /\ ~Resuming => counter[1] < t /\ applogIdx = -1
             /\ chain[t].kind # "call" => ~Resuming
<1>1. PICK t, r : t = Head(nep5TxChan) /\ r = Tail(nep5TxChan) OBVIOUS
<1>2. nep5TxChan \in Seq(Ids) BY TypesFacts DEF OrderInv
<1>3. PICK n : n = Len(nep5TxChan) OBVIOUS
<1>4. /\ n \in Nat \ {0} /\ t \in Ids /\ t = nep5TxChan[1] /\ DOMAIN nep5TxChan = 1..n
      /\ DOMAIN r = 1..(n - 1)
      /\ \A i \in 1..(n - 1) : i + 1 \in 1..n /\ r[i] = nep5TxChan[i + 1]
      /\ ToSet(nep5TxChan) = ToSet(r) \cup {t}
  BY <1>1, <1>2, <1>3, Shortened
<1>5. 1 \in 1..n /\ \A i \in 1..(n - 1) : 1 < i + 1 BY <1>4
<1>6. \A a \in ToSet(r) : t < a
  <2> SUFFICES ASSUME NEW i \in 1..(n - 1) PROVE t < r[i] BY <1>4 DEF ToSet
  <2>1. nep5TxChan[1] < nep5TxChan[i + 1] BY <1>4, <1>5 DEF OrderInv, ScanOrder
  <2> QED BY <2>1, <1>4
<1>7. \A a \in waiting : t < a BY <1>4, <1>5 DEF OrderInv, ScanOrder
<1>8. Ahead = (ToSet(r) \cup waiting) \cup {t} BY <1>4 DEF Ahead
<1>9. t \in Nat \ {0} /\ nextTxPK \in Nat /\ Ahead \subseteq Nat /\ counter[1] \in Nat
  BY <1>4, TypesFacts DEF OrderInv
<1>10. t \notin ToSet(r) \cup waiting BY <1>6, <1>7, <1>9
<1>11. Relevant(t) /\ t < nextTxPK /\ ~Taken(t)
  BY <1>8 DEF OrderInv, ScanOrder, Taken
<1>12. ASSUME NEW s, Taken(s) PROVE s < t
  <2>1. s \in Ids BY <1>12, TypesFacts DEF OrderInv, Taken, Relevant
  <2> QED BY <2>1, <1>12, <1>8 DEF OrderInv, ScanOrder
<1>13. ASSUME NEW s, Relevant(s), s < t PROVE Taken(s)
  <2>1. s \in Nat BY <1>13, TypesFacts DEF OrderInv, Relevant
  <2>2. s < nextTxPK BY <2>1, <1>13, <1>9, <1>11
  <2>3. \A a \in Ahead : s < a BY <1>6, <1>7, <1>8, <1>9, <1>13, <2>1
  <2> QED BY <1>13, <2>1, <2>2, <2>3, <1>9 DEF Taken
<1>14. Resuming => t = counter[1] /\ chain[t].kind = "call"
  <2> HAVE Resuming
  <2>1. counter[1] \in Ahead
    <3>1. counter[1] <= t BY <1>8 DEF Resuming
    <3> QED BY <3>1, <1>9, <1>11 DEF Resuming
  <2>2. counter[1] <= t BY <1>8 DEF Resuming
  <2>3. t <= counter[1] BY <2>1, <1>6, <1>7, <1>8, <1>9
  <2>4. t = counter[1] BY <2>2, <2>3, <1>9
  <2> QED BY <2>4 DEF Resuming, OrderInv, CounterPlace
<1>15. ~Resuming => counter[1] < t /\ applogIdx = -1
  BY <1>12, <1>9 DEF OrderInv, CounterPlace
<1> QED BY <1>1, <1>4, <1>6, <1>7, <1>8, <1>9, <1>10, <1>11, <1>12, <1>13, <1>14, <1>15
-----------------------------------------------------------------------------
(* What a step that takes nothing and executes nothing leaves as it is.  The *)
(* chain may grow.                                                           *)

LEMMA ChainAgrees ==
  ASSUME txMax \in Nat, txMax' \in Nat, txMax <= txMax',
         \A t \in 1..txMax : chain'[t] = chain[t]
  PROVE  /\ \A t \in 1..txMax :
              /\ Relevant(t)' <=> Relevant(t)
              /\ Registering(t)' <=> Registering(t)
              /\ FirstRegister(t)' <=> FirstRegister(t)
              /\ Should(t)' <=> Should(t)
         /\ \A t \in 1..txMax : \A h :
              /\ Registers(t, h)' <=> Registers(t, h)
              /\ RegisteredBefore(t, h)' <=> RegisteredBefore(t, h)
         /\ \A t \in 1..txMax : \A i \in Nat : IsTransfer(t, i)' <=> IsTransfer(t, i)
<1>1. \A t \in 1..txMax : t \in 1..txMax' /\ \A s \in 1..t : s \in 1..txMax
  OBVIOUS
<1>2. \A t \in 1..txMax : Relevant(t)' <=> Relevant(t) BY <1>1 DEF Relevant
<1>3. \A t \in 1..txMax : \A h : Registers(t, h)' <=> Registers(t, h) BY DEF Registers
<1>4. \A t \in 1..txMax : \A h : RegisteredBefore(t, h)' <=> RegisteredBefore(t, h)
  <2>1. \A t \in 1..txMax : \A s \in 1..(t - 1) : s \in 1..txMax OBVIOUS
  <2> QED BY <2>1, <1>3 DEF RegisteredBefore
<1>5. \A t \in 1..txMax : Registering(t)' <=> Registering(t) BY <1>3 DEF Registering
<1>6. \A t \in 1..txMax : FirstRegister(t)' <=> FirstRegister(t)
  BY <1>4, <1>5 DEF FirstRegister
<1>7. \A t \in 1..txMax : Should(t)' <=> Should(t) BY <1>1, <1>3 DEF Should
<1>8. \A t \in 1..txMax : \A i \in Nat : IsTransfer(t, i)' <=> IsTransfer(t, i)
  BY <1>1, <1>4 DEF IsTransfer
<1> QED BY <1>2, <1>3, <1>4, <1>5, <1>6, <1>7, <1>8

Quiet ==
  /\ txMax' \in Nat /\ txMax <= txMax' /\ \A t \in 1..txMax : chain'[t] = chain[t]
  /\ \A t : Taken(t)' <=> Taken(t)
  /\ Queue' = Queue
  /\ UNCHANGED <<called, applogIdx, asked, known, nep5, nep5Tx, migrations, counter,
                 meant, cut, dropped>>

\* A step that touches neither the operations nor the tables nor the counter
\* keeps what the order says of them.
LEMMA QuietOrder ==
  ASSUME OrderInv, Quiet
  PROVE  (CallInHand /\ QueueOrder /\ IdsGiven /\ RowsInOrder)'
<1>1. txMax \in Nat /\ counter[1] \in Nat /\ counter[1] <= txMax /\ Ids \subseteq Nat
  BY TypesFacts DEF OrderInv
<1>2. \A t \in 1..txMax : Registering(t)' <=> Registering(t)
  BY <1>1, ChainAgrees DEF Quiet
<1>3. \A t : Taken(t) => t \in 1..txMax BY DEF Taken, Relevant
<1>4. CallInHand'
  BY <1>3 DEF OrderInv, CallInHand, Quiet
<1>5. QueueOrder'
  <2>1. ASSUME NEW s, OpFits(s), Behind(s) PROVE OpFits(s)' /\ Behind(s)'
    <3>1. Taken(s.tx) /\ s.tx \in 1..txMax BY <2>1, <1>3 DEF OpFits
    <3>2. OpFits(s)' BY <2>1, <3>1, <1>2 DEF OpFits, Quiet
    <3>3. Behind(s)' BY <2>1 DEF Behind, Quiet
    <3> QED BY <3>2, <3>3
  <2>2. \A n \in DOMAIN Queue : OpFits(Queue[n])' /\ Behind(Queue[n])'
    BY <2>1 DEF OrderInv, QueueOrder, Quiet
  <2>3. \A n, m \in DOMAIN Queue : n < m => Before(Queue[n], Queue[m])
    BY DEF OrderInv, QueueOrder
  <2> QED BY <2>2, <2>3 DEF QueueOrder, Quiet
<1>6. IdsGiven'
  <2>1. \A h : HasId(h)' <=> HasId(h) BY DEF HasId, Quiet
  <2>2. \A i : IdGiven(i)' <=> IdGiven(i) BY DEF IdGiven, Quiet
  <2>3. ASSUME NEW t \in Ids, Taken(t)', Registering(t)' PROVE HasId(chain[t].hash)'
    <3>1. Taken(t) /\ t \in 1..txMax /\ Registering(t) BY <2>3, <1>2, <1>3 DEF Quiet
    <3>2. HasId(chain[t].hash) /\ chain'[t] = chain[t] BY <3>1 DEF OrderInv, IdsGiven, Quiet
    <3> QED BY <3>2, <2>1
  <2> QED BY <2>1, <2>2, <2>3 DEF OrderInv, IdsGiven, Names, Quiet
<1>7. RowsInOrder'
  <2>1. ASSUME NEW r, RowFits(r) PROVE RowFits(r)'
    <3>1. /\ counter' = counter /\ meant' = meant
          /\ r.tx \in 1..txMax' /\ chain'[r.tx] = chain[r.tx]
      BY <2>1, <1>1 DEF RowFits, Quiet
    <3> QED BY <2>1, <3>1 DEF RowFits, Done
  <2> QED BY <2>1 DEF OrderInv, RowsInOrder, Quiet
<1> QED BY <1>4, <1>5, <1>6, <1>7

\* The same of what is recorded and what is on its way.
LEMMA QuietExact ==
  ASSUME OrderInv, Quiet
  PROVE  /\ KnownExact => KnownExact'
         /\ AssetsExact => AssetsExact'
         /\ AssetsOnTheWay => AssetsOnTheWay'
         /\ TransfersOnTheWay => TransfersOnTheWay'
         /\ MigrationsOnTheWay => MigrationsOnTheWay'
         /\ DroppedApart => DroppedApart'
<1>1. txMax \in Nat /\ counter[1] \in Nat /\ counter[1] <= txMax /\ Ids \subseteq Nat
  BY TypesFacts DEF OrderInv
<1>2. \A t : Taken(t) => t \in 1..txMax BY DEF Taken, Relevant
<1>3. /\ \A t \in 1..txMax : /\ Registering(t)' <=> Registering(t)
                             /\ FirstRegister(t)' <=> FirstRegister(t)
                             /\ Should(t)' <=> Should(t)
      /\ \A t \in 1..txMax : \A h : Registers(t, h)' <=> Registers(t, h)
      /\ \A t \in 1..txMax : \A h : RegisteredBefore(t, h)' <=> RegisteredBefore(t, h)
      /\ \A t \in 1..txMax : \A i \in Nat : IsTransfer(t, i)' <=> IsTransfer(t, i)
  BY <1>1, ChainAgrees DEF Quiet
<1>4. IdsStable' <=> IdsStable BY DEF IdsStable, Quiet
<1>5. \A h : TakenRegisters(h)' <=> TakenRegisters(h)
  BY <1>2, <1>3 DEF TakenRegisters, Quiet
<1>6. \A h : CountedRegisters(h)' <=> CountedRegisters(h)
  <2>1. \A t \in 1..counter[1] : t \in 1..txMax BY <1>1
  <2> QED BY <2>1, <1>3 DEF CountedRegisters, Quiet
<1>7. \A n \in DOMAIN Queue : Taken(Queue[n].tx) /\ Queue[n].tx \in 1..txMax
  BY <1>2 DEF OrderInv, QueueOrder, OpFits
<1>8. KnownExact => KnownExact' BY <1>4, <1>5 DEF KnownExact, Quiet
<1>9. AssetsExact => AssetsExact'
  <2>1. AssetsExact <=> (IdsStable => \A p \in meant :
                 nep5[p[2]] = IF CountedRegisters(p[1]) THEN 1 ELSE 0)
    BY DEF AssetsExact, CountedRegisters
  <2>2. AssetsExact' <=> (IdsStable' => \A p \in meant' :
                 nep5'[p[2]] = IF CountedRegisters(p[1])' THEN 1 ELSE 0)
    BY DEF AssetsExact, CountedRegisters
  <2> QED BY <2>1, <2>2, <1>4, <1>6 DEF Quiet
<1>10. /\ DOMAIN Queue' = DOMAIN Queue /\ DOMAIN nep5Tx' = DOMAIN nep5Tx
       /\ \A n \in DOMAIN Queue : Queue'[n] = Queue[n]
       /\ \A n \in DOMAIN nep5Tx : nep5Tx'[n] = nep5Tx[n]
       /\ migrations' = migrations /\ cut' = cut /\ counter' = counter
       /\ dropped' = dropped
       /\ called' = called /\ applogIdx' = applogIdx
       /\ \A t : Taken(t)' <=> Taken(t)
       /\ \A t \in 1..txMax : chain'[t] = chain[t]
  BY DEF Quiet
<1>11. AssetsOnTheWay => AssetsOnTheWay'
  <2> SUFFICES ASSUME AssetsOnTheWay, IdsStable
               PROVE  AssetsOnTheWay'
    BY <1>4 DEF AssetsOnTheWay
  <2>1. \A h : AssetQueued(h)' <=> AssetQueued(h) BY <1>7, <1>10 DEF AssetQueued
  <2>2. \A t \in Ids : Taken(t)' /\ Registering(t)' =>
          CountedRegisters(chain[t].hash)' \/ AssetQueued(chain[t].hash)'
    BY <2>1, <1>2, <1>3, <1>6, <1>10 DEF AssetsOnTheWay
  <2>3. \A n \in DOMAIN Queue : Queue[n].op = "asset" => FirstRegister(Queue[n].tx)'
    BY <1>3, <1>7, <1>10 DEF AssetsOnTheWay
  <2> QED BY <2>2, <2>3, <1>10 DEF AssetsOnTheWay
<1>12. TransfersOnTheWay => TransfersOnTheWay'
  <2> SUFFICES ASSUME TransfersOnTheWay, IdsStable
               PROVE  TransfersOnTheWay'
    BY <1>4 DEF TransfersOnTheWay
  <2>1. \A r : r.tx \in 1..txMax => (OfAsset(r)' <=> OfAsset(r))
    BY <1>3, <1>10 DEF OfAsset
  <2>2. \A n \in DOMAIN nep5Tx : OfAsset(nep5Tx[n])'
    <3>1. \A n \in DOMAIN nep5Tx : nep5Tx[n].tx \in 1..txMax
      BY DEF OrderInv, RowsInOrder, RowFits
    <3> QED BY <3>1, <2>1, <1>10 DEF TransfersOnTheWay
  <2>3. \A n \in DOMAIN Queue : Queue[n].op = "transfer" => OfAsset(Queue[n])'
    BY <2>1, <1>7, <1>10 DEF TransfersOnTheWay
  <2>4. ASSUME NEW t \in Ids, NEW i \in Nat, IsTransfer(t, i)'
        PROVE  OnTheWay(t, i)'
    <3>1. Done(t, i)' <=> Done(t, i) BY <1>10 DEF Done
    <3>2. Stored(t, i)' <=> Stored(t, i) BY <1>10 DEF Stored
    <3>3. Queued(t, i)' <=> Queued(t, i) BY <1>10 DEF Queued
    <3>4. CASE t \in 1..txMax
      <4>1. OnTheWay(t, i) BY <3>4, <2>4, <1>3 DEF TransfersOnTheWay
      <4> QED BY <4>1, <3>1, <3>2, <3>3, <1>10 DEF OnTheWay
    <3>5. CASE t \notin 1..txMax
      <4>1. ~Taken(t)' BY <3>5, <1>2, <1>10
      <4>2. t > counter[1] /\ t \in Nat BY <3>5, <1>1 DEF Ids
      <4>3. ~Done(t, i) BY <4>2, <1>1 DEF Done
      <4> QED BY <4>1, <4>3, <3>1 DEF OnTheWay
    <3> QED BY <3>4, <3>5
  <2> QED BY <2>2, <2>3, <2>4, <1>10 DEF TransfersOnTheWay
<1>13. MigrationsOnTheWay => MigrationsOnTheWay'
  <2> SUFFICES ASSUME MigrationsOnTheWay, IdsStable
               PROVE  MigrationsOnTheWay'
    BY <1>4 DEF MigrationsOnTheWay
  <2>1. \A t : MigrationQueued(t)' <=> MigrationQueued(t) BY <1>10 DEF MigrationQueued
  <2>2. \A t \in Ids : Taken(t)' /\ Should(t)' =>
          t \in migrations' \/ t \in cut' \/ MigrationQueued(t)'
    BY <2>1, <1>2, <1>3, <1>10 DEF MigrationsOnTheWay
  <2>3. \A t \in migrations \cup cut : t \in 1..txMax
    <3>1. \A t \in migrations \cup cut : t \in Ids /\ t <= counter[1]
      BY DEF OrderInv, Types, TypeOK, MigrationsOnTheWay
    <3> QED BY <3>1, <1>1 DEF Ids
  <2>4. \A t \in migrations : t <= counter[1] /\ Should(t)'
    BY <2>3, <1>3 DEF MigrationsOnTheWay
  <2>5. \A t \in cut : t \notin migrations /\ t <= counter[1] /\ FirstRegister(t)'
    BY <2>3, <1>3 DEF MigrationsOnTheWay
  <2>6. \A t \in 1..txMax : MigrationOpen(t)' <=> MigrationOpen(t)
    BY <1>3, <1>10 DEF MigrationOpen
  <2>7. \A n \in DOMAIN Queue : Queue[n].op = "migrate" => MigrationOpen(Queue[n].tx)'
    BY <2>6, <1>7, <1>10 DEF MigrationsOnTheWay
  <2> QED BY <2>2, <2>4, <2>5, <2>7, <1>10 DEF MigrationsOnTheWay
<1>14. DroppedApart => DroppedApart'
  <2> SUFFICES ASSUME DroppedApart, NEW u \in dropped
               PROVE  /\ ~Stored(u[1], u[2])' /\ ~Queued(u[1], u[2])'
                      /\ Taken(u[1])' \/ Done(u[1], u[2])'
                      /\ u[1] = called' => u[2] <= applogIdx'
    BY <1>10 DEF DroppedApart
  <2>1. /\ ~Stored(u[1], u[2]) /\ ~Queued(u[1], u[2])
        /\ Taken(u[1]) \/ Done(u[1], u[2])
        /\ u[1] = called => u[2] <= applogIdx
    BY DEF DroppedApart
  <2> QED BY <2>1, <1>10 DEF Stored, Queued, Done
<1> QED BY <1>8, <1>9, <1>11, <1>12, <1>13, <1>14
-----------------------------------------------------------------------------
(* The scan and the fetchers of logs. *)

TakenSame == /\ chain' = chain /\ nextTxPK' = nextTxPK /\ Ahead' = Ahead

\* What is taken depends on the chain, the place of the scan and what is ahead.
LEMMA SameTaken ==
  ASSUME TakenSame
  PROVE  /\ \A t : Relevant(t)' <=> Relevant(t)
         /\ \A t : Taken(t)' <=> Taken(t)
         /\ txMax' = txMax
<1>1. txMax' = txMax BY DEF TakenSame, txMax
<1>2. \A t : Relevant(t)' <=> Relevant(t) BY <1>1 DEF TakenSame, Relevant
<1> QED BY <1>1, <1>2 DEF TakenSame, Taken

\* A step that keeps all that and the channel keeps the order of the scan.
LEMMA SameScan ==
  ASSUME TakenSame, ScanOrder, UNCHANGED <<waiting, nep5TxChan>>
  PROVE  ScanOrder'
<1>1. /\ \A t : Relevant(t)' <=> Relevant(t)
      /\ \A t : Taken(t)' <=> Taken(t)
      /\ txMax' = txMax
  BY SameTaken
<1>2. /\ nextTxPK' = nextTxPK /\ Ahead' = Ahead /\ waiting' = waiting
      /\ nep5TxChan' = nep5TxChan
  BY DEF TakenSame
<1>3. \A a \in Ahead' : Relevant(a)' /\ a < nextTxPK'
  <2>1. \A a \in Ahead : Relevant(a) /\ a < nextTxPK BY DEF ScanOrder
  <2> QED BY <2>1, <1>1, <1>2
<1>4. \A s \in Ids : \A a \in Ahead' : Taken(s)' => s < a
  <2>1. \A s \in Ids : \A a \in Ahead : Taken(s) => s < a BY DEF ScanOrder
  <2> QED BY <2>1, <1>1, <1>2
<1> QED BY <1>1, <1>2, <1>3, <1>4 DEF ScanOrder

\* A step that keeps all that and what handleNep5Tx does keeps the counter's place.
LEMMA SamePlace ==
  ASSUME TakenSame, CounterPlace, UNCHANGED <<called, applogIdx, counter, todo, storeChan>>
  PROVE  CounterPlace'
<1>1. \A t : Taken(t)' <=> Taken(t) BY SameTaken
<1>2. Resuming' <=> Resuming BY DEF Resuming, TakenSame
<1> QED BY <1>1, <1>2 DEF CounterPlace, TakenSame

\* The variables that neither the scan nor the fetchers change.
RestSame == UNCHANGED <<chain, handleVars, storeChan, dbVars, addrVars, meant, cut,
                        dropped, crashes>>

\* The steps of the scan and of the fetchers are quiet.
LEMMA ScanQuiet ==
  ASSUME OrderInv, RestSame, \A t : Taken(t)' <=> Taken(t)
  PROVE  Quiet
<1>1. txMax \in Nat BY TypesFacts DEF OrderInv
<1>2. txMax' = txMax BY DEF txMax, RestSame
<1>3. Queue' = Queue BY DEF Queue, RestSame, handleVars
<1> QED BY <1>1, <1>2, <1>3 DEF Quiet, RestSame, handleVars, dbVars

\* They keep the types.
LEMMA ScanTypes ==
  ASSUME Types, RestSame,
         nextTxPK' \in 1..(MaxTx + 1), page' \subseteq Ids, waiting' \subseteq Ids,
         IsFiniteSet(waiting'), Cardinality(waiting') <= PageSize,
         applogChan' \in Seq(Ids), hand' \in [Fetchers -> 0..MaxTx], appLogs' \subseteq Ids,
         nep5TxChan' \in Seq(Ids), Len(applogChan') <= ChanSize, Len(nep5TxChan') <= ChanSize
  PROVE  Types'
<1>1. /\ chain' = chain /\ called' = called /\ applogIdx' = applogIdx /\ asked' = asked
      /\ known' = known /\ todo' = todo /\ storeChan' = storeChan /\ nep5' = nep5
      /\ nep5Tx' = nep5Tx /\ migrations' = migrations /\ counter' = counter
      /\ addrTx' = addrTx /\ addrTxPk' = addrTxPk /\ meant' = meant /\ cut' = cut
      /\ dropped' = dropped /\ crashes' = crashes
  BY DEF RestSame, handleVars, dbVars, addrVars
<1>2. txMax' = txMax BY <1>1 DEF txMax
<1>3. TypeOK' BY <1>1, <1>2 DEF Types, TypeOK
<1> QED BY <1>1, <1>2, <1>3 DEF Types

\* fetchNep5Tx takes the next page and waits for its logs.
LEMMA FetchStep ==
  ASSUME OrderInv, Fetch
  PROVE  (Types /\ LogPlaces /\ ScanOrder /\ CounterPlace)' /\ Quiet
<1>1. PICK K, n : K = Kept(nextTxPK) /\ n = nextTxPK OBVIOUS
<1>2. /\ n \in Nat \ {0} /\ txMax \in Nat /\ MaxTx \in Nat /\ txMax <= MaxTx
      /\ chain \in Seq(Txs) /\ counter[1] \in Nat /\ Ahead \subseteq Ids
      /\ Ids \subseteq Nat \ {0} /\ counter[1] <= txMax
  BY <1>1, TypesFacts DEF OrderInv
<1>3. /\ \A t \in K : t \in Ids /\ t >= n /\ Relevant(t)
      /\ \A t \in K, s \in Ids : Relevant(s) /\ n <= s /\ s <= t => s \in K
      /\ IsFiniteSet(K)
      /\ \A last \in K : IsLast(last, K) => Cardinality(K) <= PageSize
  BY <1>1, <1>2, PageIsPrefix
<1>0. \A t \in K : t \in Nat /\ n <= t BY <1>2, <1>3
<1>4. RestSame BY DEF Fetch, RestSame
<1>5. PICK last \in K : IsLast(last, K) /\ nextTxPK' = last + 1
  BY <1>1 DEF Fetch, IsLast
<1>6. /\ page = {} /\ waiting = {} /\ page' = K /\ waiting' = K
      /\ UNCHANGED <<applogChan, hand, appLogs, nep5TxChan>> /\ chain' = chain
  BY <1>1 DEF Fetch, logVars
<1>7. /\ last \in Nat /\ last >= n /\ Relevant(last) /\ last <= txMax /\ \A s \in K : s <= last
  BY <1>2, <1>3, <1>5 DEF Relevant, IsLast
<1>8. Ahead = ToSet(nep5TxChan) /\ Ahead' = Ahead \cup K BY <1>6 DEF Ahead
<1>9. \A a \in Ahead : Relevant(a) /\ a < n /\ a \in Nat BY <1>1, <1>2 DEF OrderInv, ScanOrder
<1>10. txMax' = txMax /\ \A t : Relevant(t)' <=> Relevant(t)
  BY <1>6 DEF txMax, Relevant
<1>11. \A t : Taken(t)' <=> Taken(t)
  <2>1. \A t : Relevant(t) => t \in Nat /\ t \in Ids BY <1>2 DEF Relevant, Ids
  <2>2. \A t : Taken(t) <=> Relevant(t) /\ t < n /\ t \notin Ahead BY <1>1 DEF Taken
  <2>3. \A t : Taken(t)' <=> Relevant(t) /\ t < last + 1 /\ t \notin Ahead \cup K
    BY <1>10, <1>5, <1>8 DEF Taken
  <2>4. ASSUME NEW t, Relevant(t) PROVE t < n /\ t \notin Ahead <=> t < last + 1 /\ t \notin Ahead \cup K
    <3>1. t \in Nat /\ t \in Ids BY <2>1, <2>4
    <3>2. CASE t < n BY <3>1, <3>2, <1>2, <1>3, <1>7
    <3>3. CASE n <= t
      <4>1. t <= last => t \in K BY <3>1, <3>3, <2>4, <1>3, <1>5
      <4> QED BY <3>1, <3>3, <4>1, <1>2, <1>7
    <3> QED BY <3>1, <3>2, <3>3, <1>2
  <2> QED BY <2>2, <2>3, <2>4
<1>12. Types'
  <2>1. nextTxPK' \in 1..(MaxTx + 1) BY <1>2, <1>5, <1>7
  <2>2. Cardinality(K) <= PageSize /\ K \subseteq Ids BY <1>3, <1>5
  <2>3. /\ applogChan \in Seq(Ids) /\ hand \in [Fetchers -> 0..MaxTx] /\ appLogs \subseteq Ids
        /\ nep5TxChan \in Seq(Ids) /\ Len(applogChan) <= ChanSize
        /\ Len(nep5TxChan) <= ChanSize
    BY DEF OrderInv, Types, TypeOK
  <2> QED BY <2>1, <2>2, <2>3, <1>3, <1>4, <1>6, ScanTypes DEF OrderInv
<1>13. LogPlaces'
  <2>1. InHand' = InHand BY <1>6 DEF InHand
  <2>2. ToSet(applogChan) = {} /\ appLogs = {} /\ InHand = {}
    BY <1>6 DEF OrderInv, LogPlaces
  <2> QED BY <2>1, <2>2, <1>6 DEF OrderInv, LogPlaces
<1>14. ScanOrder'
  <2>1. nextTxPK' <= txMax' + 1 BY <1>5, <1>7, <1>2, <1>10
  <2>2. \A i, j \in DOMAIN nep5TxChan' : i < j => nep5TxChan'[i] < nep5TxChan'[j]
    BY <1>6 DEF OrderInv, ScanOrder
  <2>3. \A i \in DOMAIN nep5TxChan' : \A t \in waiting' : nep5TxChan'[i] < t
    <3>1. \A i \in DOMAIN nep5TxChan : nep5TxChan[i] \in Ahead BY <1>8 DEF ToSet
    <3>2. \A i \in DOMAIN nep5TxChan : nep5TxChan[i] \in Nat /\ nep5TxChan[i] < n
      BY <3>1, <1>9
    <3>3. n \in Nat BY <1>2
    <3>4. \A i \in DOMAIN nep5TxChan : \A t \in K : nep5TxChan[i] < t BY <3>2, <3>3, <1>0
    <3> QED BY <3>4, <1>6
  <2>4. \A a \in Ahead' : Relevant(a)' /\ a < nextTxPK'
    <3>1. \A a \in Ahead : a < last + 1 BY <1>9, <1>7, <1>2
    <3>2. \A a \in K : a < last + 1 BY <1>7, <1>3, <1>2
    <3> QED BY <3>1, <3>2, <1>3, <1>5, <1>8, <1>9, <1>10
  <2>5. \A s \in Ids : \A a \in Ahead' : Taken(s)' => s < a
    <3>1. \A s \in Ids : \A a \in Ahead : Taken(s) => s < a BY DEF OrderInv, ScanOrder
    <3>2. \A s \in Ids : \A a \in K : Taken(s) => s < a
      <4>1. \A s \in Ids : Taken(s) => s < n BY <1>1 DEF Taken
      <4>2. Ids \subseteq Nat /\ n \in Nat BY <1>2
      <4> QED BY <4>1, <4>2, <1>0
    <3> QED BY <3>1, <3>2, <1>8, <1>11
  <2> QED BY <2>1, <2>2, <2>3, <2>4, <2>5 DEF ScanOrder
<1>15. Resuming => Resuming'
  <2> HAVE Resuming
  <2>1. /\ called' = 0 /\ storeChan' = <<>> /\ todo' = <<>> /\ counter' = counter
        /\ counter[2] # -1 /\ applogIdx' = counter[2]
    BY <1>4 DEF Resuming, RestSame, handleVars, dbVars
  <2>2. counter[1] \in Ahead'
    <3>1. CASE counter[1] \in Ahead BY <3>1, <1>8
    <3>2. CASE counter[1] = n
      <4>1. counter[1] \in 1..txMax /\ chain[counter[1]].kind = "call"
        BY <2>1, <1>2, <3>2 DEF OrderInv, CounterPlace
      <4>2. Relevant(counter[1]) /\ counter[1] \in Ids BY <4>1, <1>2 DEF Relevant, Ids
      <4>3. counter[1] \in K BY <4>2, <3>2, <1>2, <1>3, <1>5, <1>7
      <4> QED BY <4>3, <1>8
    <3> QED BY <3>1, <3>2, <1>1 DEF Resuming
  <2>3. \A a \in Ahead' : counter[1] <= a
    <3>1. \A a \in Ahead : counter[1] <= a BY DEF Resuming
    <3>2. counter[1] <= n BY <1>1, <1>2, <1>9 DEF Resuming
    <3>5. counter[1] \in Nat /\ n \in Nat BY <1>2
    <3>3. \A a \in K : counter[1] <= a BY <3>2, <1>0, <3>5
    <3> QED BY <3>1, <3>3, <1>8
  <2> QED BY <2>1, <2>2, <2>3 DEF Resuming
<1>16. CounterPlace'
  <2>1. /\ called' = called /\ applogIdx' = applogIdx /\ counter' = counter /\ chain' = chain
    BY <1>4 DEF RestSame, handleVars, dbVars
  <2>2. Taken(counter[1])' <=> Taken(counter[1]) BY <2>1, <1>11
  <2> QED BY <2>1, <2>2, <1>15 DEF OrderInv, CounterPlace
<1>17. Quiet BY <1>4, <1>11, ScanQuiet
<1> QED BY <1>12, <1>13, <1>14, <1>16, <1>17

\* A step of the scan that keeps the transactions ahead.
LEMMA ScanKept ==
  ASSUME OrderInv, RestSame, TakenSame, UNCHANGED <<waiting, nep5TxChan>>,
         page' \subseteq Ids, applogChan' \in Seq(Ids), hand' \in [Fetchers -> 0..MaxTx],
         appLogs' \subseteq Ids, Len(applogChan') <= ChanSize
  PROVE  (Types /\ ScanOrder /\ CounterPlace)' /\ Quiet
<1>1. Types'
  <2>1. /\ nextTxPK' = nextTxPK /\ waiting' = waiting /\ nep5TxChan' = nep5TxChan
    BY DEF TakenSame
  <2>2. /\ nextTxPK \in 1..(MaxTx + 1) /\ waiting \subseteq Ids /\ IsFiniteSet(waiting)
        /\ Cardinality(waiting) <= PageSize /\ nep5TxChan \in Seq(Ids)
        /\ Len(nep5TxChan) <= ChanSize
    BY DEF OrderInv, Types, TypeOK
  <2> QED BY <2>1, <2>2, ScanTypes DEF OrderInv
<1>2. ScanOrder' BY SameScan DEF OrderInv
<1>3. CounterPlace' BY SamePlace DEF OrderInv, RestSame, handleVars, dbVars
<1>4. Quiet
  <2>1. \A t : Taken(t)' <=> Taken(t) BY SameTaken
  <2> QED BY <2>1, ScanQuiet
<1> QED BY <1>1, <1>2, <1>3, <1>4

\* fetchNep5Tx sends a transaction of the page to the fetchers.
LEMMA SendApplogStep ==
  ASSUME OrderInv, SendApplog
  PROVE  (Types /\ LogPlaces /\ ScanOrder /\ CounterPlace)' /\ Quiet
<1>1. PICK t : IsFirst(t, page) /\ applogChan' = Append(applogChan, t) /\ page' = page \ {t}
  BY DEF SendApplog
<1>2. /\ t \in page /\ t \in Ids /\ page \subseteq Ids /\ applogChan \in Seq(Ids)
      /\ hand \in [Fetchers -> 0..MaxTx] /\ appLogs \subseteq Ids
  BY <1>1 DEF IsFirst, OrderInv, Types, TypeOK
<1>3. /\ UNCHANGED <<chain, nextTxPK, waiting, hand, appLogs, nep5TxChan>>
      /\ Len(applogChan) < ChanSize
  BY DEF SendApplog, HasRoom
<1>4. RestSame BY DEF SendApplog, RestSame
<1>5. TakenSame BY <1>3 DEF TakenSame, Ahead
<1>6. PICK n, s, r : n = Len(applogChan) /\ s = applogChan /\ r = applogChan' OBVIOUS
<1>7. /\ r \in Seq(Ids) /\ Len(r) = n + 1 /\ n \in Nat
      /\ DOMAIN s = 1..n /\ DOMAIN r = 1..(n + 1)
      /\ \A i \in 1..n : r[i] = s[i]
      /\ r[n + 1] = t /\ ToSet(r) = ToSet(s) \cup {t}
      /\ \A i \in DOMAIN r : i \in 1..n \/ i = n + 1
  BY <1>1, <1>2, <1>6, Appended
<1>8. (Types /\ ScanOrder /\ CounterPlace)' /\ Quiet
  <2>1. Len(r) <= ChanSize BY <1>3, <1>6, <1>7, Nep5Bounds
  <2>2. page' \subseteq Ids BY <1>1, <1>2
  <2> QED BY <2>1, <2>2, <1>2, <1>3, <1>4, <1>5, <1>6, <1>7, ScanKept
<1>9. LogPlaces'
  <2>1. InHand' = InHand BY <1>3 DEF InHand
  <2>2. /\ waiting = page \cup ToSet(s) \cup appLogs \cup InHand
        /\ page \cap (ToSet(s) \cup appLogs \cup InHand) = {}
        /\ ToSet(s) \cap (appLogs \cup InHand) = {}
        /\ appLogs \cap InHand = {}
        /\ \A f, g \in Fetchers : hand[f] = hand[g] /\ hand[f] # 0 => f = g
        /\ \A i, j \in DOMAIN s : s[i] = s[j] => i = j
    BY <1>6 DEF OrderInv, LogPlaces
  <2>3. \A i \in 1..n : s[i] # t
    <3>1. \A i \in 1..n : s[i] \in ToSet(s) BY <1>7 DEF ToSet
    <3> QED BY <3>1, <2>2, <1>2
  <2>4. \A i, j \in DOMAIN r : r[i] = r[j] => i = j BY <2>2, <2>3, <1>7
  <2> QED BY <2>1, <2>2, <2>4, <1>1, <1>2, <1>3, <1>6, <1>7 DEF LogPlaces
<1> QED BY <1>8, <1>9

\* A fetcher takes a transaction of the channel.
LEMMA TakeApplogStep ==
  ASSUME OrderInv, NEW f \in Fetchers, TakeApplog(f)
  PROVE  (Types /\ LogPlaces /\ ScanOrder /\ CounterPlace)' /\ Quiet
<1>1. PICK t, s, r, n : /\ t = Head(applogChan) /\ s = applogChan /\ r = applogChan'
                        /\ n = Len(applogChan)
  OBVIOUS
<1>2. /\ hand[f] = 0 /\ s # <<>> /\ r = Tail(s) /\ hand' = [hand EXCEPT ![f] = t]
      /\ UNCHANGED <<chain, nextTxPK, page, waiting, appLogs, nep5TxChan>>
  BY <1>1 DEF TakeApplog, fetchVars
<1>3. /\ s \in Seq(Ids) /\ hand \in [Fetchers -> 0..MaxTx] /\ appLogs \subseteq Ids
      /\ n <= ChanSize /\ page \subseteq Ids
  BY <1>1 DEF OrderInv, Types, TypeOK
<1>4. /\ r \in Seq(Ids) /\ Len(r) = n - 1 /\ n \in Nat \ {0} /\ t \in Ids /\ t = s[1]
      /\ DOMAIN s = 1..n /\ DOMAIN r = 1..(n - 1)
      /\ \A i \in 1..(n - 1) : i + 1 \in 1..n /\ r[i] = s[i + 1]
      /\ ToSet(s) = ToSet(r) \cup {t}
  BY <1>1, <1>2, <1>3, Shortened
<1>5. RestSame BY DEF TakeApplog, RestSame
<1>6. TakenSame BY <1>2 DEF TakenSame, Ahead
<1>7. t \in 1..MaxTx BY <1>4 DEF Ids
<1>8. hand' \in [Fetchers -> 0..MaxTx]
  <2>1. t \in 0..MaxTx BY <1>7, Nep5Bounds
  <2> QED BY <2>1, <1>2, <1>3
<1>9. (Types /\ ScanOrder /\ CounterPlace)' /\ Quiet
  <2>1. Len(r) <= ChanSize BY <1>3, <1>4, Nep5Bounds
  <2> QED BY <2>1, <1>1, <1>2, <1>3, <1>4, <1>5, <1>6, <1>8, ScanKept
<1>10. LogPlaces'
  <2>1. /\ waiting = page \cup ToSet(s) \cup appLogs \cup InHand
        /\ page \cap (ToSet(s) \cup appLogs \cup InHand) = {}
        /\ ToSet(s) \cap (appLogs \cup InHand) = {}
        /\ appLogs \cap InHand = {}
        /\ \A g, h \in Fetchers : hand[g] = hand[h] /\ hand[g] # 0 => g = h
        /\ \A i, j \in DOMAIN s : s[i] = s[j] => i = j
    BY <1>1 DEF OrderInv, LogPlaces
  <2>2. \A g \in Fetchers : hand'[g] = IF g = f THEN t ELSE hand[g] BY <1>2, <1>3
  <2>3. InHand' = InHand \cup {t}
    <3>1. InHand = {hand[g] : g \in Fetchers} \ {0} /\ t # 0 BY <1>7 DEF InHand
    <3>2. InHand' = {hand'[g] : g \in Fetchers} \ {0} BY DEF InHand
    <3> QED BY <3>1, <3>2, <2>2, <1>2
  <2>4. t \notin ToSet(r)
    <3>1. 1 \in DOMAIN s /\ \A i \in 1..(n - 1) : i + 1 # 1 BY <1>4
    <3>2. \A i \in 1..(n - 1) : r[i] # t BY <3>1, <2>1, <1>4
    <3> QED BY <3>2, <1>4 DEF ToSet
  <2>5. \A i, j \in DOMAIN r : r[i] = r[j] => i = j
    <3> SUFFICES ASSUME NEW i \in 1..(n - 1), NEW j \in 1..(n - 1), r[i] = r[j] PROVE i = j
      BY <1>4
    <3>1. i + 1 = j + 1 BY <2>1, <1>4
    <3> QED BY <3>1
  <2>6. \A g, h \in Fetchers : hand'[g] = hand'[h] /\ hand'[g] # 0 => g = h
    <3>1. \A g \in Fetchers : hand[g] # t
      <4>1. \A g \in Fetchers : hand[g] = 0 \/ hand[g] \in InHand BY DEF InHand
      <4>2. t \notin InHand /\ t # 0 BY <2>1, <1>4, <1>7
      <4> QED BY <4>1, <4>2
    <3> QED BY <3>1, <2>1, <2>2
  <2>7. waiting' = page' \cup ToSet(r) \cup appLogs' \cup InHand'
    BY <2>1, <2>3, <1>2, <1>4
  <2>8. /\ page' \cap (ToSet(r) \cup appLogs' \cup InHand') = {}
        /\ ToSet(r) \cap (appLogs' \cup InHand') = {}
        /\ appLogs' \cap InHand' = {}
    BY <2>1, <2>3, <2>4, <1>2, <1>4
  <2> QED BY <2>5, <2>6, <2>7, <2>8, <1>1 DEF LogPlaces
<1> QED BY <1>9, <1>10

\* A fetcher puts the log in the map.
LEMMA StoreApplogStep ==
  ASSUME OrderInv, NEW f \in Fetchers, StoreApplog(f)
  PROVE  (Types /\ LogPlaces /\ ScanOrder /\ CounterPlace)' /\ Quiet
<1>1. PICK t : t = hand[f] OBVIOUS
<1>2. /\ t # 0 /\ hand' = [hand EXCEPT ![f] = 0] /\ appLogs' = appLogs \cup {t}
      /\ UNCHANGED <<chain, nextTxPK, page, waiting, applogChan, nep5TxChan>>
  BY <1>1 DEF StoreApplog, fetchVars
<1>3. /\ applogChan \in Seq(Ids) /\ hand \in [Fetchers -> 0..MaxTx] /\ appLogs \subseteq Ids
      /\ Len(applogChan) <= ChanSize /\ page \subseteq Ids
  BY DEF OrderInv, Types, TypeOK
<1>4. RestSame BY DEF StoreApplog, RestSame
<1>5. TakenSame BY <1>2 DEF TakenSame, Ahead
<1>6. t \in Ids /\ hand' \in [Fetchers -> 0..MaxTx]
  <2>1. 0 \in 0..MaxTx /\ \A i \in 0..MaxTx : i # 0 => i \in 1..MaxTx BY Nep5Bounds
  <2> QED BY <2>1, <1>1, <1>2, <1>3 DEF Ids
<1>7. (Types /\ ScanOrder /\ CounterPlace)' /\ Quiet
  <2>1. appLogs' \subseteq Ids BY <1>2, <1>3, <1>6
  <2> QED BY <2>1, <1>2, <1>3, <1>4, <1>5, <1>6, ScanKept
<1>8. LogPlaces'
  <2>1. /\ waiting = page \cup ToSet(applogChan) \cup appLogs \cup InHand
        /\ page \cap (ToSet(applogChan) \cup appLogs \cup InHand) = {}
        /\ ToSet(applogChan) \cap (appLogs \cup InHand) = {}
        /\ appLogs \cap InHand = {}
        /\ \A g, h \in Fetchers : hand[g] = hand[h] /\ hand[g] # 0 => g = h
        /\ \A i, j \in DOMAIN applogChan : applogChan[i] = applogChan[j] => i = j
    BY DEF OrderInv, LogPlaces
  <2>2. \A g \in Fetchers : hand'[g] = IF g = f THEN 0 ELSE hand[g] BY <1>2, <1>3
  <2>3. InHand' = InHand \ {t} /\ t \in InHand
    <3>1. InHand = {hand[g] : g \in Fetchers} \ {0} BY DEF InHand
    <3>2. InHand' = {hand'[g] : g \in Fetchers} \ {0} BY DEF InHand
    <3>3. \A g \in Fetchers : g # f => hand[g] # t BY <2>1, <1>1, <1>2
    <3> QED BY <3>1, <3>2, <3>3, <2>2, <1>1, <1>2
  <2>4. \A g, h \in Fetchers : hand'[g] = hand'[h] /\ hand'[g] # 0 => g = h
    BY <2>1, <2>2
  <2>5. waiting' = page' \cup ToSet(applogChan)' \cup appLogs' \cup InHand'
    BY <2>1, <2>3, <1>2
  <2>6. /\ page' \cap (ToSet(applogChan)' \cup appLogs' \cup InHand') = {}
        /\ ToSet(applogChan)' \cap (appLogs' \cup InHand') = {}
        /\ appLogs' \cap InHand' = {}
    BY <2>1, <2>3, <1>2
  <2> QED BY <2>1, <2>4, <2>5, <2>6, <1>2 DEF LogPlaces
<1> QED BY <1>7, <1>8

\* A log that is there lets its transaction go on to handleNep5Tx.
LEMMA SendTxStep ==
  ASSUME OrderInv, SendTx
  PROVE  (Types /\ LogPlaces /\ ScanOrder /\ CounterPlace)' /\ Quiet
<1>1. PICK t : /\ IsFirst(t, waiting) /\ t \in appLogs
               /\ appLogs' = appLogs \ {t} /\ waiting' = waiting \ {t}
               /\ nep5TxChan' = Append(nep5TxChan, t)
  BY DEF SendTx, LogReady
<1>2. PICK n, s, r : n = Len(nep5TxChan) /\ s = nep5TxChan /\ r = nep5TxChan' OBVIOUS
<1>3. /\ UNCHANGED <<chain, nextTxPK, page, applogChan, hand>> /\ n < ChanSize
      /\ page = {}
  BY <1>2 DEF SendTx, HasRoom
<1>4. /\ t \in waiting /\ t \in Ids /\ waiting \subseteq Ids /\ s \in Seq(Ids)
      /\ hand \in [Fetchers -> 0..MaxTx] /\ appLogs \subseteq Ids /\ IsFiniteSet(waiting)
      /\ applogChan \in Seq(Ids) /\ Len(applogChan) <= ChanSize /\ page \subseteq Ids
      /\ nextTxPK \in 1..(MaxTx + 1) /\ Cardinality(waiting) <= PageSize
      /\ \A w \in waiting : t <= w
  BY <1>1, <1>2 DEF IsFirst, OrderInv, Types, TypeOK
<1>5. /\ r \in Seq(Ids) /\ Len(r) = n + 1 /\ n \in Nat
      /\ DOMAIN s = 1..n /\ DOMAIN r = 1..(n + 1)
      /\ \A i \in 1..n : r[i] = s[i]
      /\ r[n + 1] = t /\ ToSet(r) = ToSet(s) \cup {t}
      /\ \A i \in DOMAIN r : i \in 1..n \/ i = n + 1
  BY <1>1, <1>2, <1>4, Appended
<1>6. RestSame BY DEF SendTx, RestSame
<1>7. TakenSame BY <1>1, <1>2, <1>3, <1>4, <1>5 DEF TakenSame, Ahead
<1>8. /\ \A a : Relevant(a)' <=> Relevant(a)
      /\ \A a : Taken(a)' <=> Taken(a)
      /\ txMax' = txMax
  BY <1>7, SameTaken
<1>9. Types'
  <2>1. /\ IsFiniteSet(waiting') /\ Cardinality(waiting') <= PageSize
    <3>1. waiting' \subseteq waiting BY <1>1
    <3>2. IsFiniteSet(waiting') /\ Cardinality(waiting') <= Cardinality(waiting)
      BY <3>1, <1>4, FS_Subset
    <3>3. Cardinality(waiting') \in Nat /\ Cardinality(waiting) \in Nat
      BY <3>2, <1>4, FS_CardinalityType
    <3> QED BY <3>2, <3>3, <1>4, Nep5Bounds
  <2>2. Len(r) <= ChanSize BY <1>3, <1>5, Nep5Bounds
  <2>3. waiting' \subseteq Ids /\ appLogs' \subseteq Ids BY <1>1, <1>4
  <2> QED BY <2>1, <2>2, <2>3, <1>2, <1>3, <1>4, <1>5, <1>6, ScanTypes DEF OrderInv
<1>10. LogPlaces'
  <2>1. InHand' = InHand BY <1>3 DEF InHand
  <2> QED BY <2>1, <1>1, <1>3 DEF OrderInv, LogPlaces
<1>11. ScanOrder'
  <2>1. /\ nextTxPK <= txMax + 1
        /\ \A i, j \in DOMAIN s : i < j => s[i] < s[j]
        /\ \A i \in DOMAIN s, w \in waiting : s[i] < w
    BY <1>2 DEF OrderInv, ScanOrder
  <2>2. \A a \in Ahead : Relevant(a) /\ a < nextTxPK BY DEF OrderInv, ScanOrder
  <2>3. \A i \in Ids : \A a \in Ahead : Taken(i) => i < a BY DEF OrderInv, ScanOrder
  <2>4. Ahead' = Ahead /\ nextTxPK' = nextTxPK BY <1>7 DEF TakenSame
  <2>5. \A i \in 1..n : s[i] < t BY <2>1, <1>4, <1>5
  <2>6. \A i, j \in DOMAIN r : i < j => r[i] < r[j]
    <3> SUFFICES ASSUME NEW i \in DOMAIN r, NEW j \in DOMAIN r, i < j PROVE r[i] < r[j]
      OBVIOUS
    <3>1. i \in 1..n BY <1>5
    <3>2. CASE j \in 1..n BY <3>1, <3>2, <2>1, <1>5
    <3>3. CASE j = n + 1 BY <3>1, <3>3, <2>5, <1>5
    <3> QED BY <3>2, <3>3, <1>5
  <2>7. \A i \in DOMAIN r : \A w \in waiting' : r[i] < w
    <3> SUFFICES ASSUME NEW i \in DOMAIN r, NEW w \in waiting' PROVE r[i] < w
      OBVIOUS
    <3>1. w \in waiting /\ w # t BY <1>1
    <3>2. CASE i \in 1..n BY <3>1, <3>2, <2>1, <1>5
    <3>3. CASE i = n + 1
      <4>1. t <= w /\ t # w BY <3>1, <1>4
      <4>2. t \in Nat /\ w \in Nat
        <5>1. t \in Ids /\ w \in Ids BY <3>1, <1>4
        <5> QED BY <5>1 DEF Ids
      <4> QED BY <4>1, <4>2, <3>3, <1>5
    <3> QED BY <3>2, <3>3, <1>5
  <2>8. \A a \in Ahead' : Relevant(a)' /\ a < nextTxPK' BY <2>2, <2>4, <1>8
  <2>9. \A i \in Ids : \A a \in Ahead' : Taken(i)' => i < a BY <2>3, <2>4, <1>8
  <2> QED BY <2>1, <2>4, <2>6, <2>7, <2>8, <2>9, <1>2, <1>8 DEF ScanOrder
<1>12. CounterPlace' BY <1>6, <1>7, SamePlace DEF OrderInv, RestSame, handleVars, dbVars
<1>13. Quiet BY <1>6, <1>8, ScanQuiet
<1> QED BY <1>9, <1>10, <1>11, <1>12, <1>13
-----------------------------------------------------------------------------
(* Steps that neither take nor execute anything. *)

ScanSame == UNCHANGED <<fetchVars, logVars, nep5TxChan>>

\* A step that keeps the places of the logs keeps LogPlaces.
LEMMA SamePlaces ==
  ASSUME LogPlaces, ScanSame PROVE LogPlaces'
<1>1. InHand' = InHand BY DEF InHand, ScanSame, logVars
<1> QED BY <1>1 DEF LogPlaces, ScanSame, fetchVars, logVars

\* handleNep5Tx sends the first of what it has to send.
LEMMA SendOpStep ==
  ASSUME OrderInv, SendOp
  PROVE  (Types /\ LogPlaces /\ ScanOrder /\ CounterPlace)' /\ Quiet
<1>1. /\ todo # <<>> /\ Len(storeChan) < ChanSize
      /\ storeChan' = Append(storeChan, Head(todo)) /\ todo' = Tail(todo)
      /\ UNCHANGED <<chain, fetchVars, logVars, nep5TxChan, called, applogIdx, asked,
                     known, dbVars, addrVars, meant, cut, dropped, crashes>>
  BY DEF SendOp, HasRoom
<1>2. storeChan \in Seq(Ops) /\ todo \in Seq(Ops) /\ txMax \in Nat
  BY TypesFacts DEF OrderInv
<1>3. storeChan' \in Seq(Ops) /\ todo' \in Seq(Ops) /\ Queue' = Queue
  BY <1>1, <1>2, QueueSent
<1>4. TakenSame BY <1>1 DEF TakenSame, Ahead, fetchVars
<1>5. /\ \A a : Taken(a)' <=> Taken(a)
      /\ txMax' = txMax
  BY <1>4, SameTaken
<1>6. Types'
  <2>1. Len(storeChan') <= ChanSize
    <3>1. Head(todo) \in Ops BY <1>1, <1>2, HeadTailProperties
    <3>2. Len(storeChan') = Len(storeChan) + 1 /\ Len(storeChan) \in Nat
      BY <3>1, <1>1, <1>2, AppendProperties, LenProperties
    <3> QED BY <3>2, <1>1, Nep5Bounds
  <2>2. /\ chain' = chain /\ called' = called /\ applogIdx' = applogIdx /\ asked' = asked
        /\ known' = known /\ nep5' = nep5 /\ nep5Tx' = nep5Tx /\ migrations' = migrations
        /\ counter' = counter /\ addrTx' = addrTx /\ addrTxPk' = addrTxPk
        /\ meant' = meant /\ cut' = cut /\ dropped' = dropped /\ crashes' = crashes
        /\ nextTxPK' = nextTxPK /\ page' = page /\ waiting' = waiting
        /\ applogChan' = applogChan /\ hand' = hand /\ appLogs' = appLogs
        /\ nep5TxChan' = nep5TxChan
    BY <1>1 DEF fetchVars, logVars, dbVars, addrVars
  <2>3. TypeOK' BY <2>1, <2>2, <1>5 DEF OrderInv, Types, TypeOK
  <2> QED BY <2>2, <2>3, <1>3, <1>5 DEF OrderInv, Types
<1>7. LogPlaces' BY <1>1, SamePlaces DEF OrderInv, ScanSame
<1>8. ScanOrder' BY <1>1, <1>4, SameScan DEF OrderInv, fetchVars
<1>9. CounterPlace'
  <2>1. /\ ~Resuming
        /\ counter[1] # 0 => Taken(counter[1])
        /\ called = 0 => applogIdx = -1
    BY <1>1, InTheMiddle
  <2>2. counter' = counter /\ called' = called /\ applogIdx' = applogIdx /\ chain' = chain
    BY <1>1 DEF dbVars
  <2> QED BY <2>1, <2>2, <1>5 DEF OrderInv, CounterPlace
<1>10. Quiet BY <1>1, <1>2, <1>3, <1>5 DEF Quiet, dbVars
<1> QED BY <1>6, <1>7, <1>8, <1>9, <1>10

\* A new block: nothing of what the task did changes.
LEMMA NewTxStep ==
  ASSUME OrderInv, NewTx
  PROVE  (Types /\ LogPlaces /\ ScanOrder /\ CounterPlace)' /\ Quiet
<1>1. PICK x \in Txs : chain' = Append(chain, x)
  BY DEF NewTx
<1>2. PICK n, c : n = Len(chain) /\ c = chain' OBVIOUS
<1>3. /\ txMax = n /\ n < MaxTx /\ chain \in Seq(Txs) /\ MaxTx \in Nat
      /\ UNCHANGED <<fetchVars, logVars, nep5TxChan, handleVars, storeChan, dbVars,
                     addrVars, meant, cut, dropped, crashes>>
  BY <1>2, TypesFacts DEF NewTx, txMax, OrderInv
<1>4. /\ c \in Seq(Txs) /\ Len(c) = n + 1 /\ n \in Nat /\ \A i \in 1..n : c[i] = chain[i]
  BY <1>1, <1>2, <1>3, Appended
<1>5. /\ txMax' = n + 1 /\ txMax' \in Nat /\ txMax <= txMax'
      /\ \A t \in 1..txMax : chain'[t] = chain[t]
  BY <1>2, <1>3, <1>4 DEF txMax
<1>6. \A t \in 1..txMax : Relevant(t)' <=> Relevant(t) BY <1>3, <1>4, <1>5, ChainAgrees
<1>7. /\ nextTxPK' = nextTxPK /\ waiting' = waiting /\ nep5TxChan' = nep5TxChan
      /\ Ahead' = Ahead /\ counter' = counter /\ called' = called /\ todo' = todo
      /\ applogIdx' = applogIdx /\ storeChan' = storeChan
  BY <1>3 DEF Ahead, fetchVars, handleVars, dbVars
<1>8. nextTxPK \in Nat /\ nextTxPK <= txMax + 1 /\ counter[1] \in Nat /\ counter[1] <= txMax
  BY TypesFacts DEF OrderInv, ScanOrder
<1>9. \A a \in Ahead : Relevant(a) /\ a < nextTxPK /\ a \in 1..txMax
  BY DEF OrderInv, ScanOrder, Relevant
<1>10. \A t : Taken(t)' <=> Taken(t)
  <2>1. \A t : Taken(t)' => t \in 1..txMax
    <3>1. \A t : Taken(t)' => t \in 1..(n + 1) /\ t < nextTxPK BY <1>5, <1>7 DEF Taken, Relevant
    <3> QED BY <3>1, <1>3, <1>4, <1>8
  <2>2. \A t : Taken(t) => t \in 1..txMax BY DEF Taken, Relevant
  <2>3. \A t \in 1..txMax : Taken(t)' <=> Taken(t) BY <1>6, <1>7 DEF Taken
  <2> QED BY <2>1, <2>2, <2>3
<1>11. Types'
  <2>1. txMax' <= MaxTx BY <1>3, <1>4, <1>5
  <2>2. /\ page' = page /\ applogChan' = applogChan /\ hand' = hand /\ appLogs' = appLogs
        /\ asked' = asked /\ known' = known /\ nep5' = nep5 /\ nep5Tx' = nep5Tx
        /\ migrations' = migrations /\ addrTx' = addrTx /\ addrTxPk' = addrTxPk
        /\ meant' = meant /\ cut' = cut /\ dropped' = dropped /\ crashes' = crashes
    BY <1>3 DEF fetchVars, logVars, handleVars, dbVars, addrVars
  <2>3. TypeOK' BY <2>1, <2>2, <1>2, <1>4, <1>7 DEF OrderInv, Types, TypeOK
  <2>4. counter[1] <= txMax' BY <1>3, <1>4, <1>5, <1>8
  <2> QED BY <2>2, <2>3, <2>4, <1>7 DEF OrderInv, Types
<1>12. LogPlaces' BY <1>3, SamePlaces DEF OrderInv, ScanSame
<1>13. ScanOrder'
  <2>1. nextTxPK <= txMax' + 1 BY <1>3, <1>4, <1>5, <1>8
  <2>2. \A a \in Ahead' : Relevant(a)' /\ a < nextTxPK' BY <1>6, <1>7, <1>9
  <2>3. \A s \in Ids : \A a \in Ahead : Taken(s) => s < a BY DEF OrderInv, ScanOrder
  <2>4. \A s \in Ids : \A a \in Ahead' : Taken(s)' => s < a BY <2>3, <1>7, <1>10
  <2>5. /\ \A i, j \in DOMAIN nep5TxChan' : i < j => nep5TxChan'[i] < nep5TxChan'[j]
        /\ \A i \in DOMAIN nep5TxChan', t \in waiting' : nep5TxChan'[i] < t
    BY <1>7 DEF OrderInv, ScanOrder
  <2> QED BY <2>1, <2>2, <2>4, <2>5, <1>7 DEF ScanOrder
<1>14. CounterPlace'
  <2>1. Resuming' <=> Resuming BY <1>7 DEF Resuming
  <2>2. counter[1] # 0 => chain'[counter[1]] = chain[counter[1]] BY <1>5, <1>8
  <2> QED BY <2>1, <2>2, <1>7, <1>10 DEF OrderInv, CounterPlace
<1>15. Quiet
  <2>1. Queue' = Queue BY <1>7 DEF Queue
  <2> QED BY <2>1, <1>3, <1>5, <1>10 DEF Quiet, handleVars, dbVars
<1> QED BY <1>11, <1>12, <1>13, <1>14, <1>15

\* insertNep5AddrTxRecord reads a page of the rows of nep5_tx.
LEMMA InsertStep ==
  ASSUME OrderInv, InsertNep5AddrTxRec
  PROVE  (Types /\ LogPlaces /\ ScanOrder /\ CounterPlace)' /\ Quiet
<1> DEFINE new == {n \in DOMAIN nep5Tx : n > addrTxPk /\ n <= addrTxPk + RecPage}
<1>1. PICK last \in new : addrTxPk' = last
  BY DEF InsertNep5AddrTxRec, IsLast
<1>2. addrTx' \in [Ids -> Nat]
  <2>1. \A t, n : RowsOf(t, n) \in Nat BY DEF RowsOf
  <2> QED BY <2>1 DEF InsertNep5AddrTxRec
<1>3. addrTxPk' \in 0..Len(nep5Tx)
  <2>1. DOMAIN nep5Tx = 1..Len(nep5Tx) /\ Len(nep5Tx) \in Nat
    <3>1. nep5Tx \in Seq([tx : Ids, idx : Nat, id : DOMAIN nep5])
      BY DEF OrderInv, Types, TypeOK
    <3> QED BY <3>1, LenProperties
  <2> QED BY <2>1, <1>1
<1>4. UNCHANGED <<chain, fetchVars, logVars, nep5TxChan, handleVars, storeChan, dbVars,
                  meant, cut, dropped, crashes>>
  BY DEF InsertNep5AddrTxRec
<1>5. /\ chain' = chain /\ called' = called /\ applogIdx' = applogIdx /\ asked' = asked
      /\ known' = known /\ nep5' = nep5 /\ nep5Tx' = nep5Tx /\ migrations' = migrations
      /\ counter' = counter /\ meant' = meant /\ cut' = cut /\ dropped' = dropped
      /\ crashes' = crashes
      /\ nextTxPK' = nextTxPK /\ page' = page /\ waiting' = waiting
      /\ applogChan' = applogChan /\ hand' = hand /\ appLogs' = appLogs
      /\ nep5TxChan' = nep5TxChan /\ todo' = todo /\ storeChan' = storeChan
  BY <1>4 DEF fetchVars, logVars, dbVars, handleVars
<1>6. TakenSame /\ Queue' = Queue BY <1>5 DEF TakenSame, Ahead, Queue
<1>7. /\ \A a : Taken(a)' <=> Taken(a)
      /\ txMax' = txMax /\ txMax \in Nat
  BY <1>6, SameTaken, TypesFacts DEF OrderInv
<1>8. Types'
  <2>1. TypeOK' BY <1>2, <1>3, <1>5, <1>7 DEF OrderInv, Types, TypeOK
  <2> QED BY <2>1, <1>5, <1>7 DEF OrderInv, Types
<1>9. LogPlaces' BY <1>4, SamePlaces DEF OrderInv, ScanSame
<1>10. ScanOrder' BY <1>5, <1>6, SameScan DEF OrderInv
<1>11. CounterPlace' BY <1>5, <1>6, SamePlace DEF OrderInv
<1>12. Quiet BY <1>5, <1>6, <1>7 DEF Quiet
<1> QED BY <1>8, <1>9, <1>10, <1>11, <1>12

\* addr_tx follows nep5_tx, whatever the task does meanwhile.
LEMMA AddrStep ==
  ASSUME Types, AddrTxExact, [Next]_vars
  PROVE  AddrTxExact'
<1>1. PICK l : l = Len(nep5Tx) OBVIOUS
<1>2. nep5Tx \in Seq([tx : Ids, idx : Nat, id : DOMAIN nep5])
  BY DEF Types, TypeOK
<1>3. l \in Nat /\ DOMAIN nep5Tx = 1..l /\ addrTxPk \in 0..l
  BY <1>1, <1>2, LenProperties DEF Types, TypeOK
<1>4. CASE UNCHANGED <<nep5Tx, addrVars>> BY <1>4 DEF AddrTxExact, addrVars
<1>5. CASE Store
  <2>1. UNCHANGED addrVars BY <1>5 DEF Store
  <2>2. CASE nep5Tx' = nep5Tx BY <2>1, <2>2, <1>4
  <2>3. CASE Head(storeChan).op = "transfer"
    <3>1. PICK s : s = Head(storeChan) OBVIOUS
    <3>2. s \in Ops /\ s.op = "transfer"
      BY <3>1, <2>3, <1>5, HeadTailProperties DEF Store, Types
    <3>3. PICK r : r = [tx |-> s.tx, idx |-> s.idx, id |-> s.id] OBVIOUS
    <3>4. nep5Tx' = Append(nep5Tx, r) BY <3>1, <3>3, <2>3, <1>5 DEF Store
    <3>5. PICK z : z = nep5Tx' OBVIOUS
    <3>6. \A n \in 1..l : z[n] = nep5Tx[n]
      <4>1. nep5Tx \in Seq([tx : Ids, idx : Nat, id : DOMAIN nep5] \cup {r})
        BY <1>2, SeqMonotonic
      <4> QED BY <4>1, <3>4, <3>5, <1>1, Appended
    <3>7. \A n \in 1..addrTxPk : n \in 1..l BY <1>3
    <3> QED BY <3>5, <3>6, <3>7, <2>1 DEF AddrTxExact, addrVars
  <2>4. nep5Tx' = nep5Tx \/ Head(storeChan).op = "transfer" BY <1>5 DEF Store
  <2> QED BY <2>2, <2>3, <2>4
<1>6. CASE InsertNep5AddrTxRec
  <2> DEFINE new == {n \in DOMAIN nep5Tx : n > addrTxPk /\ n <= addrTxPk + RecPage}
             of(t) == {n \in new : nep5Tx[n].tx = t}
  <2>1. PICK last \in new : addrTxPk' = last /\ \A n \in new : n <= last
    BY <1>6 DEF InsertNep5AddrTxRec, IsLast
  <2>2. nep5Tx' = nep5Tx BY <1>6 DEF InsertNep5AddrTxRec, dbVars
  <2>3. addrTx' = [t \in Ids |-> RowsOf(t, Cardinality(of(t)))]
    BY <1>6 DEF InsertNep5AddrTxRec
  <2>4. RecPage \in Nat BY Nep5Bounds
  <2>5. \A n : n \in 1..last <=> n \in 1..addrTxPk \/ n \in new
    BY <2>1, <2>4, <1>3
  <2>6. ASSUME NEW t \in Ids
        PROVE  /\ Cardinality(of(t)) \in Nat
               /\ Cardinality(of(t)) > 0 <=> \E n \in new : nep5Tx[n].tx = t
    <3>1. of(t) \subseteq 1..l BY <1>3
    <3>2. IsFiniteSet(of(t))
      <4>1. IsFiniteSet(1..l) BY <1>3, FS_Interval
      <4> HIDE DEF of
      <4> QED BY <4>1, <3>1, FS_Subset
    <3>3. /\ Cardinality(of(t)) \in Nat
          /\ Cardinality(of(t)) = 0 <=> of(t) = {}
      <4> HIDE DEF of
      <4> QED BY <3>2, FS_CardinalityType, FS_EmptySet
    <3>4. of(t) # {} <=> \E n \in new : nep5Tx[n].tx = t OBVIOUS
    <3> HIDE DEF of, new
    <3> QED BY <3>3, <3>4
  <2>7. ASSUME NEW t \in Ids
        PROVE  addrTx'[t] = IF \E n \in 1..last : nep5Tx[n].tx = t THEN 1 ELSE 0
    <3>1. addrTx[t] = IF \E n \in 1..addrTxPk : nep5Tx[n].tx = t THEN 1 ELSE 0
      BY DEF AddrTxExact
    <3>2. addrTx'[t] = IF addrTx[t] + Cardinality(of(t)) > 0 THEN 1 ELSE 0
      <4> HIDE DEF of
      <4> QED BY <2>3 DEF RowsOf
    <3>3. (\E n \in 1..last : nep5Tx[n].tx = t) <=>
            (\E n \in 1..addrTxPk : nep5Tx[n].tx = t) \/ (\E n \in new : nep5Tx[n].tx = t)
      BY <2>5
    <3> HIDE DEF of, new
    <3> QED BY <3>1, <3>2, <3>3, <2>6
  <2> QED BY <2>1, <2>2, <2>7 DEF AddrTxExact
<1>7. [Next]_vars => UNCHANGED <<nep5Tx, addrVars>> \/ Store \/ InsertNep5AddrTxRec
  BY DEF Next, vars, FetchNep5Tx, FetchAppLog, HandleNep5Tx, Fetch, SendApplog, SendTx,
         TakeApplog, StoreApplog, Handle, HandleTransfer, SendOp, NewTx, Crash, Restart,
         HandleNep5Store, PanicStore, PanicHandle, dbVars
<1> QED BY <1>4, <1>5, <1>6, <1>7
-----------------------------------------------------------------------------
(* The ids given in a step. *)

MeantGrows ==
  /\ meant \subseteq meant' /\ meant' \subseteq Hashes \X DOMAIN nep5
  /\ Names(asked') \subseteq meant'

\* As long as ids are stable, a new name is a name of nothing the task knows.
LEMMA NamesExact ==
  ASSUME OrderInv, KnownExact, AssetsExact, MeantGrows, IdsStable'
  PROVE  /\ IdsStable
         /\ \A p \in meant' : p[2] \in known <=> TakenRegisters(p[1])
         /\ \A p \in meant' : nep5[p[2]] = IF CountedRegisters(p[1]) THEN 1 ELSE 0
<1>1. IdsStable BY DEF IdsStable, MeantGrows
<1>2. /\ \A p \in meant : p[2] \in known <=> TakenRegisters(p[1])
      /\ \A p \in meant : nep5[p[2]] = IF CountedRegisters(p[1]) THEN 1 ELSE 0
  BY <1>1 DEF KnownExact, AssetsExact, CountedRegisters
<1>3. ASSUME NEW p \in meant', p \notin meant
      PROVE  /\ p[2] \notin known /\ ~TakenRegisters(p[1])
             /\ nep5[p[2]] = 0 /\ ~CountedRegisters(p[1])
  <2>1. PICK h, i : h \in Hashes /\ i \in DOMAIN nep5 /\ p = <<h, i>>
    BY DEF MeantGrows
  <2>2. \A q \in meant : q[1] = h <=> q[2] = i
    BY <2>1 DEF IdsStable, MeantGrows
  <2>3. ~IdGiven(i)
    <3>1. ASSUME NEW x, <<x, i>> \in meant PROVE FALSE
      <4>1. x = h BY <3>1, <2>2
      <4> QED BY <4>1, <3>1, <2>1, <1>3
    <3> QED BY <3>1 DEF IdGiven
  <2>4. ~HasId(h)
    <3>1. ASSUME NEW j, <<h, j>> \in meant PROVE FALSE
      <4>1. j = i BY <3>1, <2>2
      <4> QED BY <4>1, <3>1, <2>1, <1>3
    <3> QED BY <3>1 DEF HasId
  <2>5. i \notin known BY <2>3 DEF OrderInv, IdsGiven
  <2>6. ~TakenRegisters(h)
    <3> SUFFICES ASSUME NEW t \in Ids, Taken(t), Registers(t, h) PROVE FALSE
      BY DEF TakenRegisters
    <3>1. t \in 1..txMax BY DEF Taken, Relevant
    <3>2. Registering(t) /\ chain[t].hash = h BY <3>1, RegistersRelevant
    <3> QED BY <3>2, <2>4 DEF OrderInv, IdsGiven
  <2>7. ~CountedRegisters(h)
    <3> SUFFICES ASSUME NEW t \in 1..counter[1], Registers(t, h) PROVE FALSE
      BY DEF CountedRegisters
    <3> QED BY <2>6, CountedRegistered
  <2>8. nep5[i] = 0
    <3>1. nep5[i] \in Nat BY <2>1 DEF OrderInv, Types, TypeOK
    <3>2. ~(nep5[i] > 0) BY <2>1, <2>3 DEF OrderInv, IdsGiven
    <3> QED BY <3>1, <3>2
  <2> QED BY <2>1, <2>5, <2>6, <2>7, <2>8
<1> QED BY <1>1, <1>2, <1>3

-----------------------------------------------------------------------------
(* The process dies and starts again. *)

LEMMA RestartFacts ==
  ASSUME OrderInv, Restart
  PROVE  /\ nextTxPK' = ResumeAt(counter) /\ page' = {} /\ waiting' = {}
         /\ applogChan' = <<>> /\ hand' = [f \in Fetchers |-> 0] /\ appLogs' = {}
         /\ nep5TxChan' = <<>> /\ called' = 0 /\ applogIdx' = counter[2]
         /\ asked' = <<>> /\ known' = LoadedAssets /\ todo' = <<>> /\ storeChan' = <<>>
         /\ chain' = chain /\ nep5' = nep5 /\ nep5Tx' = nep5Tx
         /\ migrations' = migrations /\ counter' = counter /\ addrTx' = addrTx
         /\ addrTxPk' = addrTxPk
         /\ txMax' = txMax /\ Ahead' = {}
         /\ nextTxPK' \in Nat \ {0} /\ nextTxPK' <= counter[1] + 1
         /\ \A n : n \notin DOMAIN Queue'
         /\ \A t : Relevant(t)' <=> Relevant(t)
         /\ \A t : Taken(t)' <=> Relevant(t) /\ t < ResumeAt(counter)
         /\ \A t : Taken(t)' => Taken(t) /\ t <= counter[1]
         /\ \A t : Relevant(t) /\ t <= counter[1] => \/ Taken(t)'
                                                     \/ t = counter[1] /\ counter[2] # -1
<1>1. /\ nextTxPK' = ResumeAt(counter) /\ page' = {} /\ waiting' = {}
      /\ applogChan' = <<>> /\ hand' = [f \in Fetchers |-> 0] /\ appLogs' = {}
      /\ nep5TxChan' = <<>> /\ called' = 0 /\ applogIdx' = counter[2]
      /\ asked' = <<>> /\ known' = LoadedAssets /\ todo' = <<>> /\ storeChan' = <<>>
      /\ chain' = chain /\ nep5' = nep5 /\ nep5Tx' = nep5Tx
      /\ migrations' = migrations /\ counter' = counter /\ addrTx' = addrTx
      /\ addrTxPk' = addrTxPk
  BY DEF Restart, dbVars, addrVars
<1>2. txMax' = txMax BY <1>1 DEF txMax
<1>3. Ahead' = {} BY <1>1, NothingIn DEF Ahead
<1>4. /\ counter[1] \in Nat /\ counter[2] \in Int /\ counter[1] <= txMax /\ txMax \in Nat
      /\ chain \in Seq(Txs) /\ txMax <= MaxTx /\ Ids \subseteq Nat \ {0}
  BY TypesFacts DEF OrderInv
<1>5. nextTxPK' \in Nat \ {0} /\ nextTxPK' <= counter[1] + 1
  <2>1. counter[1] = 0 => counter[2] = -1 BY DEF OrderInv, CounterPlace
  <2> QED BY <2>1, <1>1, <1>4 DEF ResumeAt
<1>6. \A n : n \notin DOMAIN Queue'
  <2>1. Queue' = <<>> \o <<>> BY <1>1 DEF Queue
  <2>2. <<>> \o <<>> = <<>> BY ConcatEmptySeq, EmptySeq
  <2>3. DOMAIN <<>> = {} OBVIOUS
  <2> QED BY <2>1, <2>2, <2>3
<1>7. \A t : Relevant(t)' <=> Relevant(t) BY <1>1, <1>2 DEF Relevant
<1>8. \A t : Taken(t)' <=> Relevant(t) /\ t < ResumeAt(counter)
  BY <1>1, <1>3, <1>7 DEF Taken
<1>9. ASSUME NEW t, Relevant(t)
      PROVE  /\ t < ResumeAt(counter) => Taken(t) /\ t <= counter[1]
             /\ t <= counter[1] => t < ResumeAt(counter) \/ (t = counter[1] /\ counter[2] # -1)
  <2>1. t \in Nat BY <1>9, <1>4 DEF Relevant
  <2>2. CASE counter[2] = -1
    <3>1. ~Resuming BY <2>2 DEF Resuming
    <3>2. ResumeAt(counter) = counter[1] + 1 BY <2>2 DEF ResumeAt
    <3> QED BY <3>1, <3>2, <2>1, <1>4, <1>9, CountedTaken
  <2>3. CASE counter[2] # -1
    <3>1. ResumeAt(counter) = counter[1] BY <2>3 DEF ResumeAt
    <3>2. t < counter[1] => t <= counter[1] /\ t # counter[1] BY <2>1, <1>4
    <3>3. t < counter[1] => Taken(t) BY <3>2, <1>9, CountedTaken
    <3>4. t <= counter[1] => t < counter[1] \/ t = counter[1] BY <2>1, <1>4
    <3> QED BY <3>1, <3>2, <3>3, <3>4, <2>3
  <2> QED BY <2>2, <2>3
<1>10. \A t : Taken(t)' => Taken(t) /\ t <= counter[1] BY <1>8, <1>9
<1>11. \A t : Relevant(t) /\ t <= counter[1] => \/ Taken(t)'
                                                \/ t = counter[1] /\ counter[2] # -1
  BY <1>8, <1>9
<1> QED BY <1>1, <1>2, <1>3, <1>5, <1>6, <1>7, <1>8, <1>10, <1>11

\* A restart forgets what is on its way and resumes behind the counter.
LEMMA RestartOrder ==
  ASSUME OrderInv, Restart, MeantGrows, crashes' \in 0..MaxCrashes
  PROVE  OrderInv'
<1>1. /\ nextTxPK' = ResumeAt(counter) /\ page' = {} /\ waiting' = {}
      /\ applogChan' = <<>> /\ hand' = [f \in Fetchers |-> 0] /\ appLogs' = {}
      /\ nep5TxChan' = <<>> /\ called' = 0 /\ applogIdx' = counter[2]
      /\ asked' = <<>> /\ known' = LoadedAssets /\ todo' = <<>> /\ storeChan' = <<>>
      /\ chain' = chain /\ nep5' = nep5 /\ nep5Tx' = nep5Tx
      /\ migrations' = migrations /\ counter' = counter /\ addrTx' = addrTx
      /\ addrTxPk' = addrTxPk
      /\ txMax' = txMax /\ Ahead' = {}
      /\ nextTxPK' \in Nat \ {0} /\ nextTxPK' <= counter[1] + 1
      /\ \A n : n \notin DOMAIN Queue'
  BY RestartFacts
<1>2. /\ \A t : Relevant(t)' <=> Relevant(t)
      /\ \A t : Taken(t)' <=> Relevant(t) /\ t < ResumeAt(counter)
      /\ \A t : Taken(t)' => Taken(t) /\ t <= counter[1]
      /\ \A t : Relevant(t) /\ t <= counter[1] => \/ Taken(t)'
                                                  \/ t = counter[1] /\ counter[2] # -1
  BY RestartFacts
<1>3. /\ counter[1] \in Nat /\ counter[2] \in Int /\ counter[1] <= txMax /\ txMax \in Nat
      /\ txMax <= MaxTx /\ MaxTx \in Nat /\ Ids \subseteq Nat \ {0} /\ counter[2] >= -1
      /\ DOMAIN nep5 = 1..Cardinality(Hashes)
  BY TypesFacts DEF OrderInv
<1>4. Types'
  <2>1. dropped' \subseteq Ids \X Nat
    <3>1. dropped' \subseteq dropped BY DEF Restart
    <3> QED BY <3>1 DEF OrderInv, Types, TypeOK
  <2>2. cut' \subseteq Ids
    <3>1. Pending("migrate") \subseteq Ids
      <4>1. \A n \in DOMAIN Queue : Queue[n].tx \in Ids
        BY QueueIsSeq DEF OrderInv, Types
      <4> QED BY <4>1 DEF Pending, ToSet, Queue
    <3>2. cut' = cut \cup (Pending("migrate") \ nextTxPK'..MaxTx) BY DEF Restart
    <3>3. cut \subseteq Ids BY DEF OrderInv, Types, TypeOK
    <3> QED BY <3>1, <3>2, <3>3
  <2>3. nextTxPK' \in 1..(MaxTx + 1) BY <1>1, <1>3
  <2>4. /\ <<>> \in Seq(Ids) /\ <<>> \in Seq(Ops) /\ <<>> \in Seq(Hashes) /\ Len(<<>>) = 0
        /\ DOMAIN <<>> = {}
    BY NothingIn
  <2>5. 0 \in 0..MaxTx /\ 0 <= ChanSize /\ 0 <= PageSize BY Nep5Bounds
  <2>6. Cardinality({}) = 0 /\ IsFiniteSet({}) BY FS_EmptySet
  <2>7. LoadedAssets \subseteq DOMAIN nep5 BY DEF LoadedAssets
  <2>8. /\ waiting' \subseteq Ids /\ page' \subseteq Ids /\ appLogs' \subseteq Ids
        /\ Cardinality(waiting') <= PageSize /\ IsFiniteSet(waiting')
    BY <2>5, <2>6, <1>1
  <2>9. /\ applogChan' \in Seq(Ids) /\ nep5TxChan' \in Seq(Ids) /\ asked' \in Seq(Hashes)
        /\ Len(applogChan') <= ChanSize /\ Len(nep5TxChan') <= ChanSize
        /\ Len(storeChan') <= ChanSize
    BY <2>4, <2>5, <1>1
  <2>10. hand' \in [Fetchers -> 0..MaxTx] BY <2>5, <1>1
  <2>11. /\ called' \in 0..MaxTx /\ applogIdx' \in Int /\ known' \subseteq DOMAIN nep5'
         /\ chain' \in Seq(Txs) /\ txMax' <= MaxTx
    BY <2>5, <2>7, <1>1, <1>3 DEF OrderInv, Types, TypeOK
  <2>12. /\ nep5' \in [1..Cardinality(Hashes) -> Nat]
         /\ nep5Tx' \in Seq([tx : Ids, idx : Nat, id : DOMAIN nep5'])
         /\ migrations' \subseteq Ids /\ counter' \in (0..MaxTx) \X Int
         /\ addrTx' \in [Ids -> Nat] /\ addrTxPk' \in 0..Len(nep5Tx')
         /\ meant' \subseteq Hashes \X DOMAIN nep5'
    BY <1>1 DEF OrderInv, Types, TypeOK, MeantGrows
  <2>13. TypeOK' BY <2>1, <2>2, <2>3, <2>8, <2>9, <2>10, <2>11, <2>12 DEF TypeOK
  <2> QED BY <2>4, <2>8, <2>13, <1>1, <1>3 DEF Types
<1>5. LogPlaces'
  <2>1. InHand' = {} BY <1>1 DEF InHand
  <2>2. ToSet(<<>>) = {} /\ DOMAIN <<>> = {} BY NothingIn
  <2>3. \A f \in Fetchers : hand'[f] = 0 BY <1>1
  <2> QED BY <2>1, <2>2, <2>3, <1>1 DEF LogPlaces
<1>6. ScanOrder'
  <2>1. DOMAIN <<>> = {} OBVIOUS
  <2>2. nextTxPK' <= txMax' + 1 BY <1>1, <1>3
  <2> QED BY <2>1, <2>2, <1>1 DEF ScanOrder
<1>7. CallInHand' BY <1>1 DEF CallInHand
<1>8. CounterPlace'
  <2>1. counter[2] # -1 => Resuming'
    <3>1. counter[2] # -1 => counter[1] = nextTxPK' BY <1>1 DEF ResumeAt
    <3> QED BY <3>1, <1>1 DEF Resuming
  <2>2. counter[2] = -1 /\ counter[1] # 0 => Taken(counter[1])'
    <3> HAVE counter[2] = -1 /\ counter[1] # 0
    <3>1. Relevant(counter[1])
      BY DEF OrderInv, CounterPlace, Resuming, Taken
    <3>2. PICK c : c = counter[1] OBVIOUS
    <3>3. Taken(c)' BY <3>1, <3>2, <1>2, <1>3
    <3> QED BY <3>2, <3>3, <1>1
  <2>3. /\ counter'[1] = 0 => counter'[2] = -1
        /\ counter'[2] # -1 => /\ chain'[counter'[1]].kind = "call"
                               /\ counter'[2] < Len(chain'[counter'[1]].log)
    BY <1>1 DEF OrderInv, CounterPlace
  <2> QED BY <2>1, <2>2, <2>3, <1>1 DEF CounterPlace
<1>9. QueueOrder' BY <1>1 DEF QueueOrder
<1>10. IdsGiven'
  <2>1. Names(asked)' = {} BY <1>1 DEF Names
  <2>2. /\ \A h : HasId(h) => HasId(h)'
        /\ \A i : IdGiven(i) => IdGiven(i)'
    BY <1>1 DEF HasId, IdGiven, MeantGrows
  <2>3. \A i \in known' : IdGiven(i)'
    BY <2>2, <1>1 DEF OrderInv, IdsGiven, LoadedAssets
  <2>4. \A i \in DOMAIN nep5' : nep5'[i] > 0 => IdGiven(i)'
    BY <2>2, <1>1 DEF OrderInv, IdsGiven
  <2>5. ASSUME NEW t \in Ids, Taken(t)', Registering(t)' PROVE HasId(chain[t].hash)'
    <3>1. Registering(t) BY <2>5, <1>1 DEF Registering, Registers
    <3>2. HasId(chain[t].hash) BY <3>1, <2>5, <1>2 DEF OrderInv, IdsGiven
    <3> QED BY <3>2, <2>2, <1>1
  <2> QED BY <2>1, <2>3, <2>4, <2>5 DEF IdsGiven
<1>11. RowsInOrder'
  <2>1. \A r : RowFits(r) => RowFits(r)' BY <1>1 DEF RowFits, Done, MeantGrows
  <2> QED BY <2>1, <1>1 DEF OrderInv, RowsInOrder
<1> QED BY <1>4, <1>5, <1>6, <1>7, <1>8, <1>9, <1>10, <1>11 DEF OrderInv

\* What a restart forgets is done again: it was behind the counter.
LEMMA RestartExact ==
  ASSUME IInv, Restart, MeantGrows
  PROVE  (KnownExact /\ AssetsExact /\ AssetsOnTheWay /\ TransfersOnTheWay
          /\ MigrationsOnTheWay /\ DroppedApart)'
<1>1. /\ nextTxPK' = ResumeAt(counter) /\ called' = 0 /\ known' = LoadedAssets
      /\ chain' = chain /\ nep5' = nep5 /\ nep5Tx' = nep5Tx
      /\ migrations' = migrations /\ counter' = counter
      /\ nextTxPK' <= counter[1] + 1 /\ nextTxPK' \in Nat \ {0}
      /\ \A n : n \notin DOMAIN Queue'
  BY RestartFacts DEF IInv
<1>2. /\ \A t : Relevant(t)' <=> Relevant(t)
      /\ \A t : Taken(t)' <=> Relevant(t) /\ t < ResumeAt(counter)
      /\ \A t : Taken(t)' => Taken(t) /\ t <= counter[1]
      /\ \A t : Relevant(t) /\ t <= counter[1] => \/ Taken(t)'
                                                  \/ t = counter[1] /\ counter[2] # -1
  BY RestartFacts DEF IInv
<1>3. /\ counter[1] \in Nat /\ counter[2] \in Int /\ counter[1] <= txMax /\ txMax \in Nat
      /\ txMax <= MaxTx /\ MaxTx \in Nat /\ Ids \subseteq Nat \ {0} /\ 1..txMax \subseteq Ids
      /\ DOMAIN nep5 = 1..Cardinality(Hashes)
  BY TypesFacts DEF IInv, OrderInv
<1>4. IdsStable' => /\ IdsStable
                    /\ \A p \in meant' :
                         nep5[p[2]] = IF CountedRegisters(p[1]) THEN 1 ELSE 0
  BY NamesExact DEF IInv
<1>5. /\ \A t, h : Registers(t, h)' <=> Registers(t, h)
      /\ \A t, h : RegisteredBefore(t, h)' <=> RegisteredBefore(t, h)
      /\ \A t : Registering(t)' <=> Registering(t)
      /\ \A t : FirstRegister(t)' <=> FirstRegister(t)
      /\ \A t : Should(t)' <=> Should(t)
  BY <1>1 DEF Registers, RegisteredBefore, Registering, FirstRegister, Should
<1>6. \A h : CountedRegisters(h)' <=> CountedRegisters(h) BY <1>1, <1>5 DEF CountedRegisters
<1>7. \A h : TakenRegisters(h)' <=> CountedRegisters(h)
  <2>1. ASSUME NEW h, NEW t \in Ids, Taken(t)', Registers(t, h)' PROVE CountedRegisters(h)
    <3>1. t \in 1..counter[1] /\ Registers(t, h) BY <2>1, <1>2, <1>3, <1>5
    <3> QED BY <3>1 DEF CountedRegisters
  <2>2. ASSUME NEW h, NEW t \in 1..counter[1], Registers(t, h) PROVE TakenRegisters(h)'
    <3>1. t \in 1..txMax /\ t \in Ids /\ t <= counter[1] BY <1>3
    <3>2. Relevant(t) /\ chain[t].kind # "call" BY <3>1, <2>2, RegistersRelevant
    <3>3. t = counter[1] => counter[2] = -1
      BY <3>2 DEF IInv, OrderInv, CounterPlace
    <3>4. Taken(t)' BY <3>1, <3>2, <3>3, <1>2
    <3> QED BY <3>1, <3>4, <2>2, <1>5 DEF TakenRegisters
  <2> QED BY <2>1, <2>2 DEF TakenRegisters, CountedRegisters
<1>8. KnownExact'
  <2> SUFFICES ASSUME IdsStable', NEW p \in meant'
               PROVE  p[2] \in known' <=> TakenRegisters(p[1])'
    BY DEF KnownExact
  <2>1. nep5[p[2]] = IF CountedRegisters(p[1]) THEN 1 ELSE 0 BY <1>4
  <2>2. p[2] \in DOMAIN nep5 BY DEF MeantGrows
  <2> QED BY <2>1, <2>2, <1>1, <1>7 DEF LoadedAssets
<1>9. AssetsExact'
  <2> SUFFICES ASSUME IdsStable', NEW p \in meant'
               PROVE  nep5'[p[2]] = IF CountedRegisters(p[1])' THEN 1 ELSE 0
    BY DEF AssetsExact, CountedRegisters
  <2>1. nep5[p[2]] = IF CountedRegisters(p[1]) THEN 1 ELSE 0 BY <1>4
  <2> QED BY <2>1, <1>1, <1>6
<1>10. AssetsOnTheWay'
  <2>1. ASSUME NEW t \in Ids, Taken(t)', Registering(t)'
        PROVE  CountedRegisters(chain[t].hash)'
    <3>1. Registers(t, chain[t].hash) /\ t \in 1..counter[1]
      BY <2>1, <1>2, <1>3, <1>5 DEF Registering
    <3>2. CountedRegisters(chain[t].hash) BY <3>1 DEF CountedRegisters
    <3> QED BY <3>2, <1>1, <1>6
  <2> QED BY <2>1, <1>1 DEF AssetsOnTheWay
<1>11. TransfersOnTheWay'
  <2> SUFFICES ASSUME IdsStable'
               PROVE  TransfersOnTheWay'
    BY DEF TransfersOnTheWay
  <2>0. IdsStable BY <1>4
  <2>1. \A r : OfAsset(r)' <=> OfAsset(r) BY <1>1, <1>5 DEF OfAsset
  <2>2. \A n \in DOMAIN nep5Tx' : OfAsset(nep5Tx[n])'
    BY <2>0, <2>1, <1>1 DEF IInv, TransfersOnTheWay
  <2>3. ASSUME NEW t \in Ids, NEW i \in Nat, IsTransfer(t, i)'
        PROVE  OnTheWay(t, i)'
    <3>1. IsTransfer(t, i)
      <4>1. txMax' = txMax BY <1>1 DEF txMax
      <4> QED BY <4>1, <2>3, <1>1, <1>5 DEF IsTransfer
    <3>2. Done(t, i)' <=> Done(t, i) BY <1>1 DEF Done
    <3>3. Stored(t, i)' <=> Stored(t, i) BY <1>1 DEF Stored
    <3>4. CASE Done(t, i)
      <4>1. Stored(t, i) \/ <<t, i>> \in dropped
        BY <2>0, <3>1, <3>4 DEF IInv, TransfersOnTheWay, OnTheWay
      <4>2. CASE Stored(t, i) BY <4>2, <3>2, <3>3, <3>4 DEF OnTheWay
      <4>3. CASE <<t, i>> \in dropped
        <5>1. <<t, i>> \in dropped' BY <4>3, <3>4 DEF Restart
        <5> QED BY <5>1 DEF OnTheWay
      <4> QED BY <4>1, <4>2, <4>3
    <3>5. CASE ~Done(t, i)
      <4>1. ~(t < ResumeAt(counter))
        <5>1. t \in Nat BY <1>3
        <5>2. CASE counter[2] = -1 BY <5>1, <5>2, <3>5, <1>3 DEF Done, ResumeAt
        <5>3. CASE counter[2] # -1 BY <5>1, <5>3, <3>5, <1>3 DEF Done, ResumeAt
        <5> QED BY <5>2, <5>3
      <4>2. ~Taken(t)' BY <4>1, <1>2
      <4> QED BY <4>2, <3>2, <3>5 DEF OnTheWay
    <3> QED BY <3>4, <3>5
  <2> QED BY <2>2, <2>3, <1>1 DEF TransfersOnTheWay
<1>12. MigrationsOnTheWay'
  <2> SUFFICES ASSUME IdsStable'
               PROVE  MigrationsOnTheWay'
    BY DEF MigrationsOnTheWay
  <2>0. IdsStable BY <1>4
  <2>1. /\ \A t \in Ids : Taken(t) /\ Should(t) =>
             t \in migrations \/ t \in cut \/ MigrationQueued(t)
        /\ \A t \in migrations : t <= counter[1] /\ Should(t)
        /\ \A t \in cut : t \notin migrations /\ t <= counter[1] /\ FirstRegister(t)
        /\ \A n \in DOMAIN Queue : Queue[n].op = "migrate" => MigrationOpen(Queue[n].tx)
    BY <2>0 DEF IInv, MigrationsOnTheWay
  <2>2. \A t : t \in Pending("migrate") <=> MigrationQueued(t)
    BY DEF Pending, ToSet, MigrationQueued, Queue
  <2>3. cut' = cut \cup (Pending("migrate") \ nextTxPK'..MaxTx) BY DEF Restart
  <2>4. ASSUME NEW t \in Ids, Taken(t)', Should(t)'
        PROVE  t \in migrations' \/ t \in cut'
    <3>1. t \in migrations \/ t \in cut \/ MigrationQueued(t) BY <2>1, <2>4, <1>2, <1>5
    <3>2. t \notin nextTxPK'..MaxTx
      <4>1. t < nextTxPK' /\ t \in Nat BY <2>4, <1>1, <1>2, <1>3
      <4> QED BY <4>1, <1>1
    <3> QED BY <3>1, <3>2, <2>2, <2>3, <1>1
  <2>5. \A t \in migrations' : t <= counter'[1] /\ Should(t)' BY <2>1, <1>1, <1>5
  <2>6. ASSUME NEW t \in cut'
        PROVE  t \notin migrations' /\ t <= counter'[1] /\ FirstRegister(t)'
    <3>1. CASE t \in cut BY <3>1, <2>1, <1>1, <1>5
    <3>2. CASE t \in Pending("migrate") \ nextTxPK'..MaxTx
      <4>1. PICK n \in DOMAIN Queue : Queue[n].op = "migrate" /\ Queue[n].tx = t
        BY <3>2, <2>2 DEF MigrationQueued
      <4>2. MigrationOpen(t) BY <4>1, <2>1
      <4>3. t \in 1..txMax
        BY <4>1 DEF IInv, OrderInv, QueueOrder, OpFits, Taken, Relevant
      <4>4. t <= counter[1] BY <4>3, <3>2, <1>1, <1>3
      <4> QED BY <4>2, <4>4, <1>1, <1>5 DEF MigrationOpen
    <3> QED BY <3>1, <3>2, <2>3
  <2> QED BY <2>4, <2>5, <2>6, <1>1 DEF MigrationsOnTheWay
<1>13. DroppedApart'
  <2> SUFFICES ASSUME NEW u \in dropped'
               PROVE  /\ ~Stored(u[1], u[2])' /\ ~Queued(u[1], u[2])'
                      /\ Done(u[1], u[2])' /\ u[1] # called'
    BY DEF DroppedApart
  <2>1. u \in dropped /\ Done(u[1], u[2]) BY DEF Restart
  <2>2. ~Stored(u[1], u[2]) BY <2>1 DEF IInv, DroppedApart
  <2>3. u[1] # 0
    <3>1. u \in Ids \X Nat BY <2>1 DEF IInv, OrderInv, Types, TypeOK
    <3> QED BY <3>1, <1>3
  <2> QED BY <2>1, <2>2, <2>3, <1>1 DEF Stored, Queued, Done
<1> QED BY <1>8, <1>9, <1>10, <1>11, <1>12, <1>13
-----------------------------------------------------------------------------
(* handleNep5Store executes an operation. *)

LEMMA StoreFacts ==
  ASSUME OrderInv, Store
  PROVE  LET s == Queue[1]
         IN  /\ s = Head(storeChan) /\ s \in Ops /\ OpFits(s) /\ Behind(s)
             /\ s.op \in OpNames /\ s.tx \in Nat \ {0} /\ s.idx \in Int /\ s.tx \in 1..txMax
             /\ Taken(s.tx)
             /\ counter' = IF s.op = "balance" THEN counter ELSE <<s.tx, s.idx>>
             /\ counter'[1] = IF s.op = "balance" THEN counter[1] ELSE s.tx
             /\ counter'[2] = IF s.op = "balance" THEN counter[2] ELSE s.idx
             /\ counter[1] <= counter'[1] /\ counter'[1] <= s.tx
             /\ 1 \in DOMAIN Queue
             /\ \A n \in DOMAIN Queue' :
                  /\ n + 1 \in DOMAIN Queue /\ Queue'[n] = Queue[n + 1]
                  /\ Queue'[n] \in Ops /\ Before(s, Queue'[n])
                  /\ OpFits(Queue'[n]) /\ Behind(Queue'[n])
             /\ \A n \in DOMAIN Queue :
                  n = 1 \/ (n - 1 \in DOMAIN Queue' /\ Queue'[n - 1] = Queue[n])
             /\ \A n, m \in DOMAIN Queue' : n < m => Before(Queue'[n], Queue'[m])
<1>1. PICK s, q, r : s = Queue[1] /\ q = Queue /\ r = Queue' OBVIOUS
<1>2. storeChan \in Seq(Ops) /\ todo \in Seq(Ops) BY TypesFacts DEF OrderInv
<1>3. storeChan # <<>> /\ storeChan' = Tail(storeChan) /\ todo' = todo
  BY DEF Store, handleVars
<1>4. /\ Head(storeChan) = q[1] /\ 1 \in DOMAIN q
      /\ DOMAIN r = 1..(Len(q) - 1)
      /\ \A n \in DOMAIN r : n + 1 \in DOMAIN q /\ r[n] = q[n + 1]
      /\ \A n \in DOMAIN q : n = 1 \/ (n - 1 \in DOMAIN r /\ r[n - 1] = q[n])
  BY <1>1, <1>2, <1>3, QueueStored
<1>5. /\ DOMAIN q = 1..Len(q) /\ Len(q) \in Nat
      /\ \A n \in DOMAIN q : /\ q[n] \in Ops /\ q[n].op \in OpNames /\ q[n].tx \in Ids
                             /\ q[n].idx \in Int
  BY <1>1, <1>2, QueueIsSeq
<1>6. /\ \A n \in DOMAIN q : OpFits(q[n]) /\ Behind(q[n])
      /\ \A n, m \in DOMAIN q : n < m => Before(q[n], q[m])
  BY <1>1 DEF OrderInv, QueueOrder
<1>7. /\ s = q[1] /\ s \in Ops /\ OpFits(s) /\ Behind(s) /\ s.op \in OpNames
      /\ s.tx \in Ids /\ s.idx \in Int
  BY <1>1, <1>4, <1>5, <1>6
<1>8. Taken(s.tx) BY <1>7 DEF OpFits
<1>9. /\ counter[1] \in Nat /\ counter = <<counter[1], counter[2]>>
      /\ s.tx \in Nat \ {0} /\ s.tx \in 1..txMax
  BY <1>7, <1>8, TypesFacts DEF OrderInv, Taken, Relevant
<1>10. counter' = IF s.op = "balance" THEN counter ELSE <<s.tx, s.idx>>
  BY <1>1, <1>4 DEF Store
<1>11. /\ counter'[1] = IF s.op = "balance" THEN counter[1] ELSE s.tx
       /\ counter'[2] = IF s.op = "balance" THEN counter[2] ELSE s.idx
  BY <1>10
<1>12. counter[1] <= s.tx BY <1>7, <1>9 DEF Behind
<1>13. counter[1] <= counter'[1] /\ counter'[1] <= s.tx BY <1>9, <1>11, <1>12
<1>14. ASSUME NEW n \in DOMAIN r
       PROVE  /\ n + 1 \in DOMAIN q /\ r[n] = q[n + 1] /\ r[n] \in Ops
              /\ Before(s, r[n]) /\ OpFits(r[n]) /\ Behind(r[n])
  <2>1. n + 1 \in DOMAIN q /\ r[n] = q[n + 1] BY <1>4
  <2>2. 1 < n + 1 BY <1>4, <1>5
  <2> QED BY <2>1, <2>2, <1>4, <1>5, <1>6, <1>7
<1>15. ASSUME NEW n \in DOMAIN r, NEW m \in DOMAIN r, n < m PROVE Before(r[n], r[m])
  <2>1. /\ n + 1 \in DOMAIN q /\ r[n] = q[n + 1]
        /\ m + 1 \in DOMAIN q /\ r[m] = q[m + 1]
    BY <1>4
  <2>2. n + 1 < m + 1 BY <1>15, <1>4, <1>5
  <2> QED BY <2>1, <2>2, <1>6
<1> QED BY <1>1, <1>4, <1>7, <1>8, <1>9, <1>10, <1>11, <1>13, <1>14, <1>15

\* What handleNep5Store leaves alone.
LEMMA StoreSame ==
  ASSUME OrderInv, Store
  PROVE  /\ TakenSame /\ ScanSame /\ chain' = chain /\ txMax' = txMax
         /\ called' = called /\ applogIdx' = applogIdx /\ asked' = asked /\ known' = known
         /\ todo' = todo /\ meant' = meant /\ cut' = cut /\ dropped' = dropped
         /\ \A t : Relevant(t)' <=> Relevant(t)
         /\ \A t : Taken(t)' <=> Taken(t)
         /\ \A t, h : Registers(t, h)' <=> Registers(t, h)
         /\ \A t, h : RegisteredBefore(t, h)' <=> RegisteredBefore(t, h)
         /\ \A t : Registering(t)' <=> Registering(t)
         /\ \A t : FirstRegister(t)' <=> FirstRegister(t)
         /\ \A t : Should(t)' <=> Should(t)
         /\ (IdsStable' <=> IdsStable)
         /\ \A h : TakenRegisters(h)' <=> TakenRegisters(h)
<1>1. /\ chain' = chain /\ called' = called /\ applogIdx' = applogIdx /\ asked' = asked
      /\ known' = known /\ todo' = todo /\ meant' = meant /\ cut' = cut
      /\ dropped' = dropped
      /\ nextTxPK' = nextTxPK /\ waiting' = waiting /\ nep5TxChan' = nep5TxChan
      /\ ScanSame
  BY DEF Store, ScanSame, fetchVars, handleVars
<1>2. TakenSame BY <1>1 DEF TakenSame, Ahead
<1>3. /\ \A t : Relevant(t)' <=> Relevant(t)
      /\ \A t : Taken(t)' <=> Taken(t)
      /\ txMax' = txMax
  BY <1>2, SameTaken
<1>4. /\ \A t, h : Registers(t, h)' <=> Registers(t, h)
      /\ \A t, h : RegisteredBefore(t, h)' <=> RegisteredBefore(t, h)
      /\ \A t : Registering(t)' <=> Registering(t)
      /\ \A t : FirstRegister(t)' <=> FirstRegister(t)
      /\ \A t : Should(t)' <=> Should(t)
  BY <1>1 DEF Registers, RegisteredBefore, Registering, FirstRegister, Should
<1>5. IdsStable' <=> IdsStable BY <1>1 DEF IdsStable
<1>6. \A h : TakenRegisters(h)' <=> TakenRegisters(h) BY <1>3, <1>4 DEF TakenRegisters
<1> QED BY <1>1, <1>2, <1>3, <1>4, <1>5, <1>6

\* What is done stays done.
LEMMA DoneGrows ==
  ASSUME OrderInv, Store, NEW t \in Nat, NEW i \in Nat, Done(t, i)
  PROVE  Done(t, i)'
<1>1. PICK s : s = Queue[1] OBVIOUS
<1>2. /\ Behind(s) /\ s.tx \in Nat \ {0} /\ s.idx \in Int
      /\ counter'[1] = IF s.op = "balance" THEN counter[1] ELSE s.tx
      /\ counter'[2] = IF s.op = "balance" THEN counter[2] ELSE s.idx
      /\ OpFits(s)
  BY <1>1, StoreFacts
<1>3. counter[1] \in Nat /\ counter[2] \in Int BY TypesFacts DEF OrderInv
<1>4. t <= counter[1] /\ (t = counter[1] => counter[2] = -1 \/ i <= counter[2])
  BY <1>3 DEF Done
<1>5. CASE s.op = "balance" BY <1>2, <1>5 DEF Done
<1>6. CASE s.op # "balance"
  <2>1. counter'[1] = s.tx /\ counter'[2] = s.idx BY <1>2, <1>6
  <2>2. CASE s.tx > counter[1] BY <2>1, <2>2, <1>2, <1>3, <1>4 DEF Done
  <2>3. CASE s.tx = counter[1]
    <3>1. CASE s.op = "transfer"
      <4>1. counter[2] # -1 /\ s.idx > counter[2] BY <1>2, <2>3, <3>1, <1>3 DEF Behind
      <4> QED BY <4>1, <2>1, <2>3, <1>2, <1>3, <1>4 DEF Done
    <3>2. CASE s.op # "transfer"
      <4>1. s.idx = -1 BY <1>2, <1>6, <2>3, <3>2, <1>3 DEF Behind, OpFits
      <4> QED BY <4>1, <2>1, <2>3, <1>2, <1>3, <1>4 DEF Done
    <3> QED BY <3>1, <3>2
  <2> QED BY <2>2, <2>3, <1>2, <1>3 DEF Behind
<1> QED BY <1>5, <1>6

\* Executing an operation keeps the types.
LEMMA StoreTypes ==
  ASSUME OrderInv, Store
  PROVE  Types'
<1>1. PICK s : s = Queue[1] OBVIOUS
<1>2. /\ s = Head(storeChan) /\ s \in Ops /\ OpFits(s) /\ s.op \in OpNames
      /\ s.tx \in Nat \ {0} /\ s.idx \in Int /\ s.tx \in 1..txMax
      /\ counter' = IF s.op = "balance" THEN counter ELSE <<s.tx, s.idx>>
      /\ counter'[1] = IF s.op = "balance" THEN counter[1] ELSE s.tx
      /\ counter'[2] = IF s.op = "balance" THEN counter[2] ELSE s.idx
  BY <1>1, StoreFacts
<1>3. /\ txMax' = txMax /\ ScanSame /\ chain' = chain /\ called' = called
      /\ applogIdx' = applogIdx /\ asked' = asked /\ known' = known /\ todo' = todo
      /\ meant' = meant /\ cut' = cut /\ dropped' = dropped
  BY StoreSame
<1>4. /\ addrTx' = addrTx /\ addrTxPk' = addrTxPk /\ crashes' = crashes
      /\ storeChan' = Tail(storeChan) /\ storeChan # <<>>
      /\ nep5' = IF s.op = "asset" THEN [nep5 EXCEPT ![s.id] = @ + 1] ELSE nep5
      /\ nep5Tx' = IF s.op = "transfer"
                   THEN Append(nep5Tx, [tx |-> s.tx, idx |-> s.idx, id |-> s.id]) ELSE nep5Tx
      /\ migrations' = IF s.op = "migrate" THEN migrations \cup {s.tx} ELSE migrations
  BY <1>2 DEF Store, addrVars
<1>5. /\ storeChan \in Seq(Ops) /\ todo \in Seq(Ops) /\ Ids \subseteq Nat \ {0}
      /\ 1..txMax \subseteq Ids /\ txMax \in Nat /\ MaxTx \in Nat /\ txMax <= MaxTx
      /\ DOMAIN nep5 = 1..Cardinality(Hashes)
      /\ counter[1] \in Nat /\ counter[2] \in Int /\ counter[2] >= -1 /\ counter[1] <= txMax
  BY TypesFacts DEF OrderInv
<1>6. storeChan' \in Seq(Ops) /\ Len(storeChan') <= ChanSize
  <2>1. storeChan' \in Seq(Ops) /\ Len(storeChan') = Len(storeChan) - 1 /\ Len(storeChan) \in Nat
    BY <1>4, <1>5, Shortened
  <2>2. Len(storeChan) <= ChanSize BY DEF OrderInv, Types, TypeOK
  <2> QED BY <2>1, <2>2, Nep5Bounds
<1>7. meant \subseteq Hashes \X (1..Cardinality(Hashes))
  BY <1>5 DEF OrderInv, Types, TypeOK
<1>8. s.op \in {"asset", "transfer"} => s.id \in 1..Cardinality(Hashes)
  BY <1>2, <1>7 DEF OpFits
<1>9. nep5' \in [1..Cardinality(Hashes) -> Nat]
  <2>1. nep5 \in [1..Cardinality(Hashes) -> Nat] BY DEF OrderInv, Types, TypeOK
  <2> QED BY <2>1, <1>4, <1>8
<1>10. DOMAIN nep5' = DOMAIN nep5 BY <1>5, <1>9
<1>11. nep5Tx' \in Seq([tx : Ids, idx : Nat, id : DOMAIN nep5]) /\ Len(nep5Tx) <= Len(nep5Tx')
       /\ Len(nep5Tx) \in Nat /\ Len(nep5Tx') \in Nat
  <2>1. nep5Tx \in Seq([tx : Ids, idx : Nat, id : DOMAIN nep5]) /\ Len(nep5Tx) \in Nat
    BY LenProperties DEF OrderInv, Types, TypeOK
  <2>2. CASE s.op = "transfer"
    <3>1. PICK r : r = [tx |-> s.tx, idx |-> s.idx, id |-> s.id] OBVIOUS
    <3>2. s.idx \in Nat
      <4>1. s.tx \in 1..txMax /\ s.idx \in 0..(Len(chain[s.tx].log) - 1)
        BY <1>2, <2>2 DEF OpFits
      <4> QED BY <4>1, <1>2
    <3>3. r \in [tx : Ids, idx : Nat, id : DOMAIN nep5]
      BY <3>1, <3>2, <1>2, <1>5, <1>8, <2>2
    <3>4. nep5Tx' = Append(nep5Tx, r) BY <3>1, <1>4, <2>2
    <3>5. nep5Tx' \in Seq([tx : Ids, idx : Nat, id : DOMAIN nep5]) /\ Len(nep5Tx') = Len(nep5Tx) + 1
      BY <2>1, <3>3, <3>4, Appended
    <3> QED BY <2>1, <3>5
  <2>3. CASE s.op # "transfer" BY <2>1, <2>3, <1>4
  <2> QED BY <2>2, <2>3
<1>12. migrations' \subseteq Ids
  <2>1. migrations \subseteq Ids BY DEF OrderInv, Types, TypeOK
  <2> QED BY <2>1, <1>2, <1>4, <1>5
<1>13. counter' \in (0..MaxTx) \X Int /\ counter'[1] <= txMax /\ counter'[2] >= -1
  <2>1. counter \in (0..MaxTx) \X Int BY DEF OrderInv, Types, TypeOK
  <2>2. s.tx \in 0..MaxTx /\ s.tx <= txMax BY <1>2, <1>5
  <2>3. s.idx >= -1
    <3>1. CASE s.op = "transfer"
      <4>1. s.idx \in 0..(Len(chain[s.tx].log) - 1) BY <1>2, <3>1 DEF OpFits
      <4> QED BY <4>1, <1>2
    <3>2. CASE s.op # "transfer" BY <1>2, <3>2 DEF OpFits, OpNames
    <3> QED BY <3>1, <3>2
  <2> QED BY <2>1, <2>2, <2>3, <1>2, <1>5
<1>14. TypeOK'
  <2>1. /\ nextTxPK' = nextTxPK /\ page' = page /\ waiting' = waiting
        /\ applogChan' = applogChan /\ hand' = hand /\ appLogs' = appLogs
        /\ nep5TxChan' = nep5TxChan
    BY <1>3 DEF ScanSame, fetchVars, logVars
  <2>2. addrTxPk' \in 0..Len(nep5Tx')
    <3>1. addrTxPk \in 0..Len(nep5Tx) BY DEF OrderInv, Types, TypeOK
    <3> QED BY <3>1, <1>4, <1>11
  <2>3. /\ chain' \in Seq(Txs) /\ txMax' <= MaxTx
        /\ nextTxPK' \in 1..(MaxTx + 1)
        /\ page' \subseteq Ids /\ waiting' \subseteq Ids /\ Cardinality(waiting') <= PageSize
        /\ applogChan' \in Seq(Ids) /\ hand' \in [Fetchers -> 0..MaxTx]
        /\ appLogs' \subseteq Ids /\ nep5TxChan' \in Seq(Ids)
        /\ Len(applogChan') <= ChanSize /\ Len(nep5TxChan') <= ChanSize
    BY <2>1, <1>3 DEF OrderInv, Types, TypeOK
  <2>4. /\ called' \in 0..MaxTx /\ applogIdx' \in Int /\ asked' \in Seq(Hashes)
        /\ known' \subseteq DOMAIN nep5'
        /\ cut' \subseteq Ids /\ addrTx' \in [Ids -> Nat]
        /\ meant' \subseteq Hashes \X DOMAIN nep5' /\ dropped' \subseteq Ids \X Nat
        /\ crashes' \in 0..MaxCrashes
    BY <1>3, <1>4, <1>10 DEF OrderInv, Types, TypeOK
  <2>5. nep5Tx' \in Seq([tx : Ids, idx : Nat, id : DOMAIN nep5']) BY <1>10, <1>11
  <2> QED BY <2>2, <2>3, <2>4, <2>5, <1>6, <1>9, <1>12, <1>13 DEF TypeOK
<1> QED
  <2>1. IsFiniteSet(waiting') BY <1>3 DEF OrderInv, Types, ScanSame, fetchVars
  <2>2. /\ \A i, j \in DOMAIN asked' : asked'[i] = asked'[j] => i = j
        /\ applogIdx' >= -1 /\ todo' \in Seq(Ops)
    BY <1>3, <1>5 DEF OrderInv, Types
  <2> QED BY <2>1, <2>2, <1>3, <1>6, <1>13, <1>14 DEF Types

\* Executing the first operation keeps the order of the rest, which is behind it.
LEMMA StoreOrder ==
  ASSUME OrderInv, Store
  PROVE  OrderInv'
<1>1. PICK s : s = Queue[1] OBVIOUS
<1>2. /\ s = Head(storeChan) /\ s \in Ops /\ OpFits(s) /\ Behind(s) /\ s.op \in OpNames
      /\ s.tx \in Nat \ {0} /\ s.idx \in Int /\ s.tx \in 1..txMax /\ Taken(s.tx)
      /\ counter'[1] = IF s.op = "balance" THEN counter[1] ELSE s.tx
      /\ counter'[2] = IF s.op = "balance" THEN counter[2] ELSE s.idx
      /\ counter' = IF s.op = "balance" THEN counter ELSE <<s.tx, s.idx>>
  BY <1>1, StoreFacts
<1>3. \A n \in DOMAIN Queue' :
        /\ n + 1 \in DOMAIN Queue /\ Queue'[n] = Queue[n + 1]
        /\ Queue'[n] \in Ops /\ Before(s, Queue'[n])
        /\ OpFits(Queue'[n]) /\ Behind(Queue'[n])
  BY <1>1, StoreFacts
<1>4. /\ TakenSame /\ ScanSame /\ chain' = chain /\ txMax' = txMax
      /\ called' = called /\ applogIdx' = applogIdx /\ asked' = asked /\ known' = known
      /\ meant' = meant
      /\ \A t : Taken(t)' <=> Taken(t)
      /\ \A t, h : Registers(t, h)' <=> Registers(t, h)
      /\ \A t : Registering(t)' <=> Registering(t)
  BY StoreSame
<1>5. /\ counter[1] \in Nat /\ counter[2] \in Int /\ Ids \subseteq Nat \ {0} /\ called \in Nat
      /\ applogIdx \in Int
  BY TypesFacts DEF OrderInv
<1>6. Types' BY StoreTypes
<1>7. LogPlaces' BY <1>4, SamePlaces DEF OrderInv
<1>8. ScanOrder' BY <1>4, SameScan DEF OrderInv, ScanSame, fetchVars
<1>9. /\ ~Resuming
      /\ counter[1] # 0 => Taken(counter[1])
      /\ called = 0 => applogIdx = -1
  BY InTheMiddle DEF Store
<1>10. CallInHand'
  <2> SUFFICES ASSUME called # 0
               PROVE  /\ Taken(called)' /\ chain'[called].kind = "call"
                      /\ applogIdx < Len(chain'[called].log)
                      /\ \A t \in Ids : Taken(t)' => t <= called
                      /\ called = counter'[1] => counter'[2] # -1 /\ counter'[2] <= applogIdx
    BY <1>4 DEF CallInHand
  <2>1. /\ Taken(called) /\ chain[called].kind = "call"
        /\ applogIdx < Len(chain[called].log)
        /\ \A t \in Ids : Taken(t) => t <= called
        /\ called = counter[1] => counter[2] # -1 /\ counter[2] <= applogIdx
    BY DEF OrderInv, CallInHand
  <2>2. Taken(called)' BY <2>1, <1>4
  <2>3. called = counter'[1] => counter'[2] # -1 /\ counter'[2] <= applogIdx
    <3>1. CASE s.op = "balance" BY <3>1, <1>2, <2>1
    <3>2. CASE s.op # "balance"
      <4> HAVE called = counter'[1]
      <4>1. s.tx = called /\ counter'[2] = s.idx BY <3>2, <1>2
      <4>2. s.op = "transfer"
        BY <4>1, <3>2, <2>1, <1>2 DEF OpFits, OpNames, Registering, Registers
      <4>3. s.idx <= applogIdx /\ s.idx \in 0..(Len(chain[s.tx].log) - 1)
        BY <4>1, <4>2, <1>2 DEF OpFits
      <4> QED BY <4>1, <4>3, <1>2
    <3> QED BY <3>1, <3>2
  <2> QED BY <2>1, <2>2, <2>3, <1>4
<1>11. CounterPlace'
  <2>1. counter'[1] = 0 => counter'[2] = -1 BY <1>2 DEF OrderInv, CounterPlace
  <2>2. counter'[1] # 0 => Taken(counter'[1])
    BY <1>2, <1>9
  <2>3. counter'[2] # -1 => /\ chain[counter'[1]].kind = "call"
                            /\ counter'[2] < Len(chain[counter'[1]].log)
    <3>1. CASE s.op = "balance" BY <3>1, <1>2 DEF OrderInv, CounterPlace
    <3>2. CASE s.op = "transfer"
      <4>1. /\ chain[s.tx].kind = "call" /\ s.idx \in 0..(Len(chain[s.tx].log) - 1)
        BY <3>2, <1>2 DEF OpFits
      <4>2. Len(chain[s.tx].log) \in Nat
        <5>1. chain \in Seq(Txs) /\ txMax <= MaxTx BY TypesFacts DEF OrderInv
        <5> QED BY <5>1, <1>2, TxFacts
      <4> QED BY <4>1, <4>2, <3>2, <1>2
    <3>3. CASE s.op \notin {"balance", "transfer"} BY <3>3, <1>2 DEF OpFits, OpNames
    <3> QED BY <3>1, <3>2, <3>3
  <2>4. PICK c : c = counter' OBVIOUS
  <2>5. c[1] # 0 => Taken(c[1])' BY <2>2, <2>4, <1>4
  <2> QED BY <2>1, <2>3, <2>4, <2>5, <1>4, <1>9 DEF CounterPlace
<1>12. QueueOrder'
  <2>1. \A r : OpFits(r) => OpFits(r)' BY <1>4 DEF OpFits
  <2>2. ASSUME NEW r \in Ops, Before(s, r), OpFits(r), Behind(r) PROVE Behind(r)'
    <3>0. r.tx \in Nat /\ r.idx \in Int
      <4>1. r.tx \in Ids /\ r.idx \in Int BY <2>2 DEF Ops
      <4> QED BY <4>1, <1>5
    <3>1. CASE s.op = "balance" BY <3>1, <2>2, <1>2 DEF Behind
    <3>2. CASE s.op # "balance" /\ s.tx < r.tx BY <3>2, <3>0, <1>2 DEF Behind
    <3>3. CASE s.op # "balance" /\ s.tx = r.tx
      <4>1. counter'[1] = r.tx /\ counter'[2] = s.idx BY <3>3, <1>2
      <4>2. CASE s.op = "asset"
        <5>1. r.op \in {"counter", "migrate"}
          <6>1. Registering(r.tx) BY <4>2, <3>3, <1>2 DEF OpFits
          <6>2. r.op \in {"transfer", "counter", "migrate"}
            BY <4>2, <3>3, <3>0, <1>2, <2>2 DEF Before
          <6> QED BY <6>1, <6>2, <2>2 DEF OpFits, Registering, Registers
        <5>2. s.idx = -1 BY <4>2, <1>2 DEF OpFits
        <5> QED BY <4>1, <5>1, <5>2 DEF Behind
      <4>3. CASE s.op = "transfer"
        <5>1. s.idx \in 0..(Len(chain[s.tx].log) - 1) BY <4>3, <1>2 DEF OpFits
        <5>2. s.idx # -1 BY <5>1, <1>2
        <5>3. r.op = "counter" \/ (r.op = "transfer" /\ s.idx < r.idx)
          BY <4>3, <3>3, <3>0, <1>2, <2>2 DEF Before
        <5> QED BY <4>1, <5>2, <5>3, <3>0, <1>2 DEF Behind
      <4>4. CASE s.op \notin {"asset", "transfer"}
        BY <4>4, <3>3, <3>0, <1>2, <2>2 DEF Before
      <4> QED BY <4>2, <4>3, <4>4
    <3> QED BY <3>1, <3>2, <3>3, <2>2 DEF Before
  <2>3. \A n \in DOMAIN Queue' : OpFits(Queue[n])' /\ Behind(Queue[n])'
    BY <2>1, <2>2, <1>3
  <2>4. \A n, m \in DOMAIN Queue' : n < m => Before(Queue'[n], Queue'[m])
    BY <1>1, StoreFacts
  <2> QED BY <2>3, <2>4 DEF QueueOrder
<1>13. IdsGiven'
  <2>1. DOMAIN nep5' = DOMAIN nep5
    BY <1>6, TypesFacts DEF OrderInv, Types, TypeOK
  <2>2. \A h : HasId(h)' <=> HasId(h) BY <2>1, <1>4 DEF HasId
  <2>3. \A i : IdGiven(i)' <=> IdGiven(i) BY <1>4 DEF IdGiven
  <2>4. ASSUME NEW i \in DOMAIN nep5', nep5'[i] > 0 PROVE IdGiven(i)'
    <3>1. CASE nep5'[i] = nep5[i] BY <3>1, <2>1, <2>3, <2>4 DEF OrderInv, IdsGiven
    <3>2. CASE nep5'[i] # nep5[i]
      <4>1. s.op = "asset" /\ i = s.id
        BY <3>2, <2>1, <2>4, <1>2 DEF Store
      <4>2. <<chain[s.tx].hash, s.id>> \in meant BY <4>1, <1>2 DEF OpFits
      <4>3. IdGiven(i)
        <5>1. chain[s.tx].hash \in Hashes BY <4>2 DEF OrderInv, Types, TypeOK
        <5> QED BY <4>1, <4>2, <5>1 DEF IdGiven
      <4> QED BY <4>3, <2>3
    <3> QED BY <3>1, <3>2
  <2>5. \A i \in known' : IdGiven(i)' BY <2>3, <1>4 DEF OrderInv, IdsGiven
  <2>6. ASSUME NEW t \in Ids, Taken(t)', Registering(t)' PROVE HasId(chain[t].hash)'
    <3>1. HasId(chain[t].hash) BY <2>6, <1>4 DEF OrderInv, IdsGiven
    <3> QED BY <3>1, <2>2, <1>4
  <2> QED BY <2>4, <2>5, <2>6, <1>4 DEF OrderInv, IdsGiven, Names
<1>14. RowsInOrder'
  <2>1. PICK l : l = Len(nep5Tx) OBVIOUS
  <2>2. nep5Tx \in Seq([tx : Ids, idx : Nat, id : DOMAIN nep5])
    BY DEF OrderInv, Types, TypeOK
  <2>3. l \in Nat /\ DOMAIN nep5Tx = 1..l /\ \A n \in 1..l : nep5Tx[n].tx \in Nat /\ nep5Tx[n].idx \in Nat
    <3>1. l \in Nat /\ DOMAIN nep5Tx = 1..l BY <2>1, <2>2, LenProperties
    <3>2. \A n \in 1..l : nep5Tx[n] \in [tx : Ids, idx : Nat, id : DOMAIN nep5]
      BY <2>1, <2>2, ElementOfSeq
    <3> QED BY <3>1, <3>2, <1>5
  <2>4. ASSUME NEW n \in 1..l PROVE RowFits(nep5Tx[n]) /\ (\A r : r = nep5Tx[n] => RowFits(r)')
    <3>1. PICK r : r = nep5Tx[n] OBVIOUS
    <3>2. RowFits(r) BY <3>1, <2>3 DEF OrderInv, RowsInOrder
    <3>3. Done(r.tx, r.idx)' BY <3>1, <3>2, <2>3, DoneGrows DEF RowFits
    <3>4. RowFits(r)' BY <3>2, <3>3, <1>4 DEF RowFits
    <3> QED BY <3>1, <3>2, <3>4
  <2>5. \A n, m \in 1..l : m < n =>
          \/ nep5Tx[m].tx < nep5Tx[n].tx
          \/ nep5Tx[m].tx = nep5Tx[n].tx /\ nep5Tx[m].idx < nep5Tx[n].idx
    BY <2>3 DEF OrderInv, RowsInOrder
  <2>6. CASE nep5Tx' = nep5Tx
    <3>1. \A n \in DOMAIN nep5Tx' : RowFits(nep5Tx[n])' BY <2>3, <2>4, <2>6
    <3> QED BY <3>1, <2>3, <2>5, <2>6 DEF RowsInOrder
  <2>7. CASE s.op = "transfer"
    <3>1. PICK r : r = [tx |-> s.tx, idx |-> s.idx, id |-> s.id] OBVIOUS
    <3>2. nep5Tx' = Append(nep5Tx, r) BY <3>1, <2>7, <1>2 DEF Store
    <3>3. PICK z : z = nep5Tx' OBVIOUS
    <3>4. /\ DOMAIN z = 1..(l + 1) /\ \A n \in 1..l : z[n] = nep5Tx[n]
          /\ z[l + 1] = r /\ \A n \in DOMAIN z : n \in 1..l \/ n = l + 1
      <4>1. nep5Tx \in Seq([tx : Ids, idx : Nat, id : DOMAIN nep5] \cup {r})
        BY <2>2, SeqMonotonic
      <4> QED BY <4>1, <3>2, <3>3, <2>1, Appended
    <3>5. /\ s.idx \in 0..(Len(chain[s.tx].log) - 1) /\ chain[s.tx].kind = "call"
          /\ <<chain[s.tx].log[s.idx + 1], s.id>> \in meant
          /\ s.idx \in Nat
      BY <2>7, <1>2 DEF OpFits
    <3>6. RowFits(r)'
      <4>1. counter'[1] = s.tx /\ counter'[2] = s.idx BY <2>7, <1>2
      <4>2. Done(s.tx, s.idx)' BY <4>1, <3>5, <1>2 DEF Done
      <4> QED BY <4>2, <3>1, <3>5, <1>2, <1>4 DEF RowFits
    <3>7. ASSUME NEW m \in 1..l
          PROVE  \/ nep5Tx[m].tx < r.tx
                 \/ nep5Tx[m].tx = r.tx /\ nep5Tx[m].idx < r.idx
      <4>1. PICK p : p = nep5Tx[m] OBVIOUS
      <4>2. Done(p.tx, p.idx) /\ p.tx \in Nat /\ p.idx \in Nat
        BY <4>1, <2>3, <2>4 DEF RowFits
      <4>3. s.tx > counter[1] \/ (s.tx = counter[1] /\ counter[2] # -1 /\ s.idx > counter[2])
        BY <2>7, <1>2 DEF Behind
      <4> QED BY <4>1, <4>2, <4>3, <3>1, <3>5, <1>2, <1>5 DEF Done
    <3>8. \A n \in DOMAIN z : \A y : y = z[n] => RowFits(y)' BY <2>4, <3>4, <3>6
    <3>9. \A n, m \in DOMAIN z : m < n =>
            \/ z[m].tx < z[n].tx
            \/ z[m].tx = z[n].tx /\ z[m].idx < z[n].idx
      <4> SUFFICES ASSUME NEW n \in DOMAIN z, NEW m \in DOMAIN z, m < n
                   PROVE  \/ z[m].tx < z[n].tx
                          \/ z[m].tx = z[n].tx /\ z[m].idx < z[n].idx
        OBVIOUS
      <4>1. m \in 1..l BY <3>4, <2>3
      <4>2. CASE n \in 1..l BY <4>1, <4>2, <3>4, <2>5
      <4>3. CASE n = l + 1 BY <4>1, <4>3, <3>4, <3>7
      <4> QED BY <4>2, <4>3, <3>4
    <3> QED BY <3>3, <3>8, <3>9 DEF RowsInOrder
  <2>8. nep5Tx' = nep5Tx \/ s.op = "transfer" BY <1>2 DEF Store
  <2> QED BY <2>6, <2>7, <2>8
<1> QED BY <1>6, <1>7, <1>8, <1>10, <1>11, <1>12, <1>13, <1>14 DEF OrderInv

\* Registrations up to the new counter: those before it, and the one executed.
LEMMA CountedGrows ==
  ASSUME OrderInv, AssetsOnTheWay, IdsStable, Store, NEW h
  PROVE  CountedRegisters(h)' <=>
           CountedRegisters(h) \/ (Queue[1].op = "asset" /\ chain[Queue[1].tx].hash = h)
<1>1. PICK s : s = Queue[1] OBVIOUS
<1>2. /\ OpFits(s) /\ s.tx \in Nat \ {0} /\ s.tx \in 1..txMax /\ Taken(s.tx)
      /\ counter'[1] = IF s.op = "balance" THEN counter[1] ELSE s.tx
      /\ counter[1] <= counter'[1] /\ counter'[1] <= s.tx
  BY <1>1, StoreFacts
<1>3. /\ \A n \in DOMAIN Queue' : Before(s, Queue'[n]) /\ Queue'[n] \in Ops
      /\ \A n \in DOMAIN Queue : n = 1 \/ (n - 1 \in DOMAIN Queue' /\ Queue'[n - 1] = Queue[n])
  BY <1>1, StoreFacts
<1>4. \A t, x : Registers(t, x)' <=> Registers(t, x) BY StoreSame
<1>5. /\ counter[1] \in Nat /\ txMax \in Nat /\ counter[1] <= txMax /\ 1..txMax \subseteq Ids
      /\ Ids \subseteq Nat \ {0}
  BY TypesFacts DEF OrderInv
<1>6. CountedRegisters(h) => CountedRegisters(h)'
  <2>1. \A t \in 1..counter[1] : t \in 1..counter'[1] BY <1>2, <1>5
  <2> QED BY <2>1, <1>4 DEF CountedRegisters
<1>7. ASSUME s.op = "asset", chain[s.tx].hash = h PROVE CountedRegisters(h)'
  <2>1. Registers(s.tx, h) BY <1>2, <1>7 DEF OpFits, Registering
  <2>2. s.tx \in 1..counter'[1] BY <1>2, <1>7
  <2> QED BY <2>1, <2>2, <1>4 DEF CountedRegisters
<1>8. ASSUME NEW t \in 1..counter'[1], Registers(t, h)
      PROVE  CountedRegisters(h) \/ (s.op = "asset" /\ chain[s.tx].hash = h)
  <2>1. t \in 1..txMax /\ t <= s.tx /\ t \in Ids /\ t \in Nat
    BY <1>2, <1>5
  <2>2. Relevant(t) /\ Registering(t) /\ chain[t].hash = h
    BY <2>1, <1>8, RegistersRelevant
  <2>3. Taken(t) BY <2>1, <2>2, <1>2, TakenBelow
  <2>4. CASE CountedRegisters(h) BY <2>4
  <2>5. CASE AssetQueued(h)
    <3>1. PICK n \in DOMAIN Queue : Queue[n].op = "asset" /\ chain[Queue[n].tx].hash = h
      BY <2>5 DEF AssetQueued
    <3>2. CASE n = 1 BY <3>1, <3>2, <1>1
    <3>3. CASE n # 1
      <4>1. PICK r : r = Queue[n] OBVIOUS
      <4>2. r \in Ops /\ Before(s, r) /\ r.op = "asset"
        BY <4>1, <3>1, <3>3, <1>3
      <4>3. r.tx \in Nat
        <5>1. r.tx \in Ids BY <4>2 DEF Ops
        <5> QED BY <5>1, <1>5
      <4>4. s.tx < r.tx BY <4>2 DEF Before
      <4>5. FirstRegister(r.tx) /\ chain[r.tx].hash = h
        BY <4>1, <3>1 DEF AssetsOnTheWay
      <4>6. t \in 1..(r.tx - 1) BY <2>1, <4>3, <4>4, <1>2
      <4>7. RegisteredBefore(r.tx, h) BY <4>6, <1>8 DEF RegisteredBefore
      <4> QED BY <4>5, <4>7 DEF FirstRegister
    <3> QED BY <3>2, <3>3
  <2> QED BY <2>1, <2>2, <2>3, <2>4, <2>5 DEF AssetsOnTheWay
<1>9. CountedRegisters(h)' => \E t \in 1..counter'[1] : Registers(t, h)
  BY <1>4 DEF CountedRegisters
<1> QED BY <1>1, <1>6, <1>7, <1>8, <1>9

\* It moves a registration from its way to the table, with the counter.
LEMMA StoreAssets ==
  ASSUME IInv, Store
  PROVE  (KnownExact /\ AssetsExact /\ AssetsOnTheWay)'
<1>1. PICK s : s = Queue[1] OBVIOUS
<1>2. /\ s = Head(storeChan) /\ OpFits(s) /\ Behind(s) /\ s.tx \in Nat \ {0}
      /\ s.tx \in 1..txMax /\ 1 \in DOMAIN Queue
  BY <1>1, StoreFacts DEF IInv
<1>3. /\ \A n \in DOMAIN Queue' : n + 1 \in DOMAIN Queue /\ Queue'[n] = Queue[n + 1]
      /\ \A n \in DOMAIN Queue : n = 1 \/ (n - 1 \in DOMAIN Queue' /\ Queue'[n - 1] = Queue[n])
  BY <1>1, StoreFacts DEF IInv
<1>4. /\ chain' = chain /\ known' = known /\ meant' = meant
      /\ \A t : Taken(t)' <=> Taken(t)
      /\ \A t : Registering(t)' <=> Registering(t)
      /\ \A t : FirstRegister(t)' <=> FirstRegister(t)
      /\ (IdsStable' <=> IdsStable)
      /\ \A h : TakenRegisters(h)' <=> TakenRegisters(h)
  BY StoreSame DEF IInv
<1>5. KnownExact' BY <1>4 DEF IInv, KnownExact
<1>6. IdsStable => \A h : CountedRegisters(h)' <=>
                     CountedRegisters(h) \/ (s.op = "asset" /\ chain[s.tx].hash = h)
  BY <1>1, CountedGrows DEF IInv
<1>7. AssetsExact'
  <2> SUFFICES ASSUME IdsStable, NEW p \in meant
               PROVE  nep5'[p[2]] = IF CountedRegisters(p[1])' THEN 1 ELSE 0
    BY <1>4 DEF AssetsExact, CountedRegisters
  <2>1. \A q \in meant : nep5[q[2]] = IF CountedRegisters(q[1]) THEN 1 ELSE 0
    BY DEF IInv, AssetsExact, CountedRegisters
  <2>2. p \in meant /\ p[2] \in DOMAIN nep5 /\ nep5 \in [DOMAIN nep5 -> Nat]
    BY DEF IInv, OrderInv, Types, TypeOK
  <2>3. nep5' = IF s.op = "asset" THEN [nep5 EXCEPT ![s.id] = @ + 1] ELSE nep5
    BY <1>2 DEF Store
  <2>4. CASE s.op # "asset" BY <2>1, <2>3, <2>4, <1>6
  <2>5. CASE s.op = "asset"
    <3>1. PICK h, i : h = chain[s.tx].hash /\ i = s.id OBVIOUS
    <3>2. <<h, i>> \in meant BY <3>1, <2>5, <1>2 DEF OpFits
    <3>3. FirstRegister(s.tx)
      BY <2>5, <1>1, <1>2 DEF IInv, AssetsOnTheWay
    <3>4. ~CountedRegisters(h)
      <4>1. s.tx > counter[1] BY <2>5, <1>2 DEF Behind
      <4>2. counter[1] \in Nat BY TypesFacts DEF IInv, OrderInv
      <4>3. \A t \in 1..counter[1] : t \in 1..(s.tx - 1) BY <4>1, <4>2, <1>2
      <4> QED BY <4>3, <3>1, <3>3 DEF FirstRegister, RegisteredBefore, CountedRegisters
    <3>5. p[1] = h <=> p[2] = i
      <4>1. \A q \in meant : p[1] = q[1] <=> p[2] = q[2] BY DEF IdsStable
      <4> QED BY <4>1, <3>2
    <3>6. CASE p[1] = h
      <4>1. nep5[i] = 0 BY <3>2, <3>4, <2>1
      <4>2. nep5'[i] = nep5[i] + 1 BY <3>1, <3>5, <3>6, <2>2, <2>3, <2>5
      <4> QED BY <4>1, <4>2, <3>1, <3>5, <3>6, <2>5, <1>6
    <3>7. CASE p[1] # h
      <4>1. nep5'[p[2]] = nep5[p[2]] BY <3>1, <3>5, <3>7, <2>2, <2>3
      <4> QED BY <4>1, <3>1, <3>7, <2>1, <1>6
    <3> QED BY <3>6, <3>7
  <2> QED BY <2>4, <2>5
<1>8. AssetsOnTheWay'
  <2> SUFFICES ASSUME IdsStable PROVE AssetsOnTheWay'
    BY <1>4 DEF AssetsOnTheWay
  <2>1. \A n \in DOMAIN Queue' : Queue'[n].op = "asset" => FirstRegister(Queue[n].tx)'
    <3>1. \A n \in DOMAIN Queue : Queue[n].op = "asset" => FirstRegister(Queue[n].tx)
      BY DEF IInv, AssetsOnTheWay
    <3> QED BY <3>1, <1>3, <1>4
  <2>2. ASSUME NEW t \in Ids, Taken(t)', Registering(t)'
        PROVE  CountedRegisters(chain[t].hash)' \/ AssetQueued(chain[t].hash)'
    <3>1. PICK h : h = chain[t].hash OBVIOUS
    <3>2. CountedRegisters(h) \/ AssetQueued(h)
      BY <3>1, <2>2, <1>4 DEF IInv, AssetsOnTheWay
    <3>3. CASE CountedRegisters(h) BY <3>1, <3>3, <1>4, <1>6
    <3>4. CASE AssetQueued(h)
      <4>1. PICK n \in DOMAIN Queue : Queue[n].op = "asset" /\ chain[Queue[n].tx].hash = h
        BY <3>4 DEF AssetQueued
      <4>2. CASE n = 1
        <5>1. CountedRegisters(h)' BY <4>1, <4>2, <1>1, <1>6
        <5> QED BY <5>1, <3>1, <1>4
      <4>3. CASE n # 1
        <5>1. n - 1 \in DOMAIN Queue' /\ Queue'[n - 1] = Queue[n] BY <4>3, <1>3
        <5>2. AssetQueued(h)' BY <5>1, <4>1, <1>4 DEF AssetQueued
        <5> QED BY <5>2, <3>1, <1>4
      <4> QED BY <4>2, <4>3
    <3> QED BY <3>2, <3>3, <3>4
  <2> QED BY <2>1, <2>2 DEF AssetsOnTheWay
<1> QED BY <1>5, <1>7, <1>8

\* The rows of nep5_tx after it: those before, and the transfer executed.
LEMMA StoreRows ==
  ASSUME OrderInv, Store, NEW s, s = Queue[1], NEW l, l = Len(nep5Tx), NEW z, z = nep5Tx'
  PROVE  /\ l \in Nat /\ DOMAIN nep5Tx = 1..l
         /\ \A n \in 1..l : n \in DOMAIN z /\ z[n] = nep5Tx[n]
         /\ s.op # "transfer" => DOMAIN z = 1..l
         /\ s.op = "transfer" =>
              /\ DOMAIN z = 1..(l + 1) /\ l + 1 \in DOMAIN z
              /\ z[l + 1] = [tx |-> s.tx, idx |-> s.idx, id |-> s.id]
              /\ \A n \in DOMAIN z : n \in 1..l \/ n = l + 1
<1>5. s = Head(storeChan) BY StoreFacts
<1>1. nep5Tx \in Seq([tx : Ids, idx : Nat, id : DOMAIN nep5])
  BY DEF OrderInv, Types, TypeOK
<1>2. l \in Nat /\ DOMAIN nep5Tx = 1..l BY <1>1, LenProperties
<1>3. CASE s.op # "transfer" BY <1>2, <1>3, <1>5 DEF Store
<1>4. CASE s.op = "transfer"
  <2>1. PICK r : r = [tx |-> s.tx, idx |-> s.idx, id |-> s.id] OBVIOUS
  <2>2. z = Append(nep5Tx, r) BY <2>1, <1>4, <1>5 DEF Store
  <2>3. nep5Tx \in Seq([tx : Ids, idx : Nat, id : DOMAIN nep5] \cup {r})
    BY <1>1, SeqMonotonic
  <2>4. /\ DOMAIN z = 1..(l + 1) /\ \A n \in 1..l : z[n] = nep5Tx[n]
        /\ z[l + 1] = r /\ \A n \in DOMAIN z : n \in 1..l \/ n = l + 1
    <3>1. PICK T : T = [tx : Ids, idx : Nat, id : DOMAIN nep5] \cup {r} OBVIOUS
    <3>2. nep5Tx \in Seq(T) /\ r \in T BY <3>1, <2>3
    <3>3. PICK y, m : y = Append(nep5Tx, r) /\ m = Len(nep5Tx) OBVIOUS
    <3>4. /\ DOMAIN y = 1..(m + 1) /\ \A n \in 1..m : y[n] = nep5Tx[n]
          /\ y[m + 1] = r /\ \A n \in DOMAIN y : n \in 1..m \/ n = m + 1
      BY <3>2, <3>3, Appended
    <3>5. y = z /\ m = l BY <3>3, <2>2
    <3> QED BY <3>4, <3>5
  <2>5. l + 1 \in DOMAIN z /\ \A n \in 1..l : n \in DOMAIN z BY <2>4, <1>2
  <2> QED BY <2>1, <2>4, <2>5, <1>2, <1>4
<1> QED BY <1>3, <1>4

\* It moves a transfer from its way to nep5_tx, with the counter.
LEMMA StoreTransfers ==
  ASSUME IInv, Store
  PROVE  TransfersOnTheWay'
<1>1. PICK s : s = Queue[1] OBVIOUS
<1>2. /\ s = Head(storeChan) /\ OpFits(s) /\ Behind(s) /\ s.tx \in Nat \ {0} /\ s.op \in OpNames
      /\ s.tx \in 1..txMax /\ 1 \in DOMAIN Queue /\ Taken(s.tx) /\ s.idx \in Int
      /\ counter'[1] = IF s.op = "balance" THEN counter[1] ELSE s.tx
      /\ counter'[2] = IF s.op = "balance" THEN counter[2] ELSE s.idx
      /\ counter[1] <= counter'[1] /\ counter'[1] <= s.tx
  BY <1>1, StoreFacts DEF IInv
<1>3. /\ \A n \in DOMAIN Queue' : n + 1 \in DOMAIN Queue /\ Queue'[n] = Queue[n + 1]
      /\ \A n \in DOMAIN Queue : n = 1 \/ (n - 1 \in DOMAIN Queue' /\ Queue'[n - 1] = Queue[n])
  BY <1>1, StoreFacts DEF IInv
<1>4. /\ chain' = chain /\ meant' = meant /\ txMax' = txMax
      /\ called' = called /\ applogIdx' = applogIdx /\ dropped' = dropped
      /\ \A t : Taken(t)' <=> Taken(t)
      /\ \A t, h : RegisteredBefore(t, h)' <=> RegisteredBefore(t, h)
      /\ (IdsStable' <=> IdsStable)
  BY StoreSame DEF IInv
<1>5. /\ counter[1] \in Nat /\ counter[2] \in Int /\ applogIdx \in Int /\ called \in Nat
      /\ Ids \subseteq Nat \ {0} /\ txMax \in Nat
  BY TypesFacts DEF IInv, OrderInv
<1> SUFFICES ASSUME IdsStable PROVE TransfersOnTheWay'
  BY <1>4 DEF TransfersOnTheWay
<1>6. /\ \A n \in DOMAIN nep5Tx : OfAsset(nep5Tx[n])
      /\ \A n \in DOMAIN Queue : Queue[n].op = "transfer" => OfAsset(Queue[n])
      /\ \A t \in Ids : \A i \in Nat : IsTransfer(t, i) => OnTheWay(t, i)
  BY DEF IInv, TransfersOnTheWay
<1>7. \A r : OfAsset(r)' <=> OfAsset(r) BY <1>4 DEF OfAsset
<1>8. PICK l, z : l = Len(nep5Tx) /\ z = nep5Tx' OBVIOUS
<1>9. /\ l \in Nat /\ DOMAIN nep5Tx = 1..l
      /\ \A n \in 1..l : n \in DOMAIN z /\ z[n] = nep5Tx[n]
      /\ s.op # "transfer" => DOMAIN z = 1..l
      /\ s.op = "transfer" =>
           /\ DOMAIN z = 1..(l + 1) /\ l + 1 \in DOMAIN z
           /\ z[l + 1] = [tx |-> s.tx, idx |-> s.idx, id |-> s.id]
           /\ \A n \in DOMAIN z : n \in 1..l \/ n = l + 1
  BY <1>1, <1>8, StoreRows DEF IInv
<1>10. \A n \in DOMAIN z : OfAsset(z[n])
  <2>1. \A n \in 1..l : OfAsset(z[n]) BY <1>6, <1>9
  <2>2. s.op = "transfer" => OfAsset(z[l + 1])
    <3> HAVE s.op = "transfer"
    <3>1. OfAsset(s) BY <1>1, <1>2, <1>6
    <3>2. PICK r : r = z[l + 1] OBVIOUS
    <3>3. r.tx = s.tx /\ r.idx = s.idx BY <3>2, <1>9
    <3>4. OfAsset(r) BY <3>1, <3>3 DEF OfAsset
    <3> QED BY <3>2, <3>4
  <2> QED BY <2>1, <2>2, <1>9
<1>11. \A n \in DOMAIN Queue' : Queue'[n].op = "transfer" => OfAsset(Queue'[n])
  BY <1>3, <1>6
<1>12. \A t, i : Stored(t, i) => Stored(t, i)'
  BY <1>8, <1>9 DEF Stored
<1>13. ASSUME NEW t \in Ids, NEW i \in Nat, IsTransfer(t, i)'
       PROVE  OnTheWay(t, i)'
  <2>1. IsTransfer(t, i) /\ t \in Nat /\ t \in 1..txMax
    BY <1>13, <1>4, <1>5 DEF IsTransfer
  <2>0. CASE <<t, i>> \in dropped BY <2>0, <1>4 DEF OnTheWay
  <2>2. CASE <<t, i>> \notin dropped /\ Done(t, i)
    <3>1. Stored(t, i) BY <2>1, <2>2, <1>6 DEF OnTheWay
    <3>2. Done(t, i)' BY <2>1, <2>2, DoneGrows DEF IInv
    <3> QED BY <3>1, <3>2, <1>12 DEF OnTheWay
  <2>3. CASE ~Done(t, i) /\ Queued(t, i)
    <3>1. PICK n \in DOMAIN Queue :
            Queue[n].op = "transfer" /\ Queue[n].tx = t /\ Queue[n].idx = i
      BY <2>3 DEF Queued
    <3>2. CASE n = 1
      <4>1. s.op = "transfer" /\ s.tx = t /\ s.idx = i BY <3>1, <3>2, <1>1
      <4>2. Stored(t, i)' BY <4>1, <1>8, <1>9 DEF Stored
      <4>3. Done(t, i)' BY <4>1, <1>2, <2>1 DEF Done
      <4> QED BY <4>2, <4>3 DEF OnTheWay
    <3>3. CASE n # 1
      <4>1. n - 1 \in DOMAIN Queue' /\ Queue'[n - 1] = Queue[n] BY <3>3, <1>3
      <4>2. Queued(t, i)' BY <4>1, <3>1 DEF Queued
      <4>3. PICK r : r = Queue[n] OBVIOUS
      <4>4. Behind(r)'
        <5>1. QueueOrder' BY StoreOrder DEF IInv, OrderInv
        <5>2. Behind(Queue[n - 1])' BY <5>1, <4>1 DEF QueueOrder
        <5> QED BY <5>2, <4>1, <4>3
      <4>5. r.op = "transfer" /\ r.tx = t /\ r.idx = i BY <4>3, <3>1
      <4>6. counter'[1] \in Nat /\ counter'[2] \in Int BY <1>2, <1>5
      <4>7. ~Done(t, i)' BY <4>4, <4>5, <4>6, <2>1 DEF Behind, Done
      <4> QED BY <4>2, <4>7 DEF OnTheWay
    <3> QED BY <3>2, <3>3
  <2>4. CASE ~Done(t, i) /\ ~Taken(t)
    <3>1. ~Done(t, i)'
      <4>1. Relevant(t)
        <5>1. chain \in Seq(Txs) /\ txMax <= MaxTx BY TypesFacts DEF IInv, OrderInv
        <5>3. i \in 0..(Len(chain[t].log) - 1) BY <2>1 DEF IsTransfer
        <5>4. chain[t].kind = "call"
          <6>1. Len(chain[t].log) # 0
            <7>1. Len(chain[t].log) \in Nat BY <5>1, <2>1, TxFacts
            <7> QED BY <7>1, <5>3
          <6>2. chain[t].kind # "call" => Len(chain[t].log) = 0 BY <5>1, <2>1, TxFacts
          <6> QED BY <6>1, <6>2
        <5> QED BY <5>4, <2>1 DEF Relevant
      <4>2. ~(t <= s.tx) BY <4>1, <2>4, <1>2, TakenBelow DEF IInv
      <4> QED BY <4>2, <2>1, <1>2, <1>5 DEF Done
    <3> QED BY <3>1, <2>4, <1>4 DEF OnTheWay
  <2>5. CASE ~Done(t, i) /\ t = called /\ i > applogIdx
    <3>1. ~Done(t, i)'
      <4>1. called # 0 BY <2>1, <2>5, <1>5
      <4>2. s.tx <= called /\ chain[called].kind = "call"
        <5>1. s.tx \in Ids BY <1>2, TypesFacts DEF IInv, OrderInv
        <5> QED BY <5>1, <4>1, <1>2 DEF IInv, OrderInv, CallInHand
      <4>3. CASE s.op = "balance" BY <4>3, <2>5, <1>2 DEF Done
      <4>4. CASE s.op # "balance" /\ s.tx = called
        <5>1. s.op = "transfer"
          BY <4>2, <4>4, <1>2 DEF OpFits, OpNames, Registering, Registers
        <5>2. s.idx <= applogIdx /\ s.idx \in 0..(Len(chain[s.tx].log) - 1)
          BY <5>1, <4>4, <1>2 DEF OpFits
        <5>3. s.idx # -1 /\ s.idx < i BY <5>2, <2>5, <1>2, <1>5
        <5> QED BY <5>3, <4>4, <2>1, <2>5, <1>2, <1>5 DEF Done
      <4>5. CASE s.op # "balance" /\ s.tx # called
        BY <4>2, <4>5, <2>5, <1>2, <1>5 DEF Done
      <4> QED BY <4>3, <4>4, <4>5
    <3> QED BY <3>1, <2>5, <1>4 DEF OnTheWay
  <2> QED BY <2>0, <2>1, <2>2, <2>3, <2>4, <2>5, <1>6 DEF OnTheWay
<1>14. (\A n \in DOMAIN nep5Tx : OfAsset(nep5Tx[n]))'
  <2>1. \A n \in DOMAIN z : \A r : r = z[n] => OfAsset(r)' BY <1>7, <1>10
  <2> QED BY <2>1, <1>8
<1>15. (\A n \in DOMAIN Queue : Queue[n].op = "transfer" => OfAsset(Queue[n]))'
  BY <1>7, <1>11
<1> QED BY <1>13, <1>14, <1>15 DEF TransfersOnTheWay

\* It executes a migration that is open, with the counter.
LEMMA StoreMigrations ==
  ASSUME IInv, Store
  PROVE  MigrationsOnTheWay'
<1>1. PICK s : s = Queue[1] OBVIOUS
<1>2. /\ s = Head(storeChan) /\ OpFits(s) /\ s.tx \in Nat \ {0} /\ s.op \in OpNames
      /\ s.tx \in 1..txMax /\ 1 \in DOMAIN Queue
      /\ counter'[1] = IF s.op = "balance" THEN counter[1] ELSE s.tx
      /\ counter[1] <= counter'[1]
  BY <1>1, StoreFacts DEF IInv
<1>3. /\ \A n \in DOMAIN Queue' : n + 1 \in DOMAIN Queue /\ Queue'[n] = Queue[n + 1]
      /\ \A n \in DOMAIN Queue' : Queue'[n] \in Ops /\ Before(s, Queue'[n])
      /\ \A n \in DOMAIN Queue : n = 1 \/ (n - 1 \in DOMAIN Queue' /\ Queue'[n - 1] = Queue[n])
  BY <1>1, StoreFacts DEF IInv
<1>4. /\ cut' = cut
      /\ \A t : Taken(t)' <=> Taken(t)
      /\ \A t : FirstRegister(t)' <=> FirstRegister(t)
      /\ \A t : Should(t)' <=> Should(t)
      /\ (IdsStable' <=> IdsStable)
  BY StoreSame DEF IInv
<1>5. /\ counter[1] \in Nat /\ Ids \subseteq Nat \ {0} /\ migrations \subseteq Ids
      /\ cut \subseteq Ids
  BY TypesFacts DEF IInv, OrderInv, Types, TypeOK
<1>6. migrations' = IF s.op = "migrate" THEN migrations \cup {s.tx} ELSE migrations
  BY <1>2 DEF Store
<1> SUFFICES ASSUME IdsStable PROVE MigrationsOnTheWay'
  BY <1>4 DEF MigrationsOnTheWay
<1>7. /\ \A t \in Ids : Taken(t) /\ Should(t) =>
           t \in migrations \/ t \in cut \/ MigrationQueued(t)
      /\ \A t \in migrations : t <= counter[1] /\ Should(t)
      /\ \A t \in cut : t \notin migrations /\ t <= counter[1] /\ FirstRegister(t)
      /\ \A n \in DOMAIN Queue : Queue[n].op = "migrate" => MigrationOpen(Queue[n].tx)
  BY DEF IInv, MigrationsOnTheWay
<1>8. s.op = "migrate" => MigrationOpen(s.tx) BY <1>1, <1>2, <1>7
<1>9. ASSUME NEW t \in Ids, Taken(t)', Should(t)'
      PROVE  t \in migrations' \/ t \in cut' \/ MigrationQueued(t)'
  <2>1. t \in migrations \/ t \in cut \/ MigrationQueued(t) BY <1>4, <1>7, <1>9
  <2>2. CASE MigrationQueued(t)
    <3>1. PICK n \in DOMAIN Queue : Queue[n].op = "migrate" /\ Queue[n].tx = t
      BY <2>2 DEF MigrationQueued
    <3>2. CASE n = 1 BY <3>1, <3>2, <1>1, <1>6
    <3>3. CASE n # 1 BY <3>1, <3>3, <1>3 DEF MigrationQueued
    <3> QED BY <3>2, <3>3
  <2> QED BY <2>1, <2>2, <1>4, <1>6
<1>10. ASSUME NEW t \in migrations' PROVE t <= counter'[1] /\ Should(t)'
  <2>1. CASE t \in migrations
    <3>1. t <= counter[1] /\ t \in Nat BY <2>1, <1>5, <1>7
    <3>2. t <= counter'[1] BY <3>1, <1>2, <1>5
    <3> QED BY <3>2, <2>1, <1>4, <1>7
  <2>2. CASE s.op = "migrate" /\ t = s.tx
    BY <2>2, <1>2, <1>4, <1>8 DEF MigrationOpen
  <2> QED BY <2>1, <2>2, <1>6, <1>10
<1>11. ASSUME NEW t \in cut'
       PROVE  t \notin migrations' /\ t <= counter'[1] /\ FirstRegister(t)'
  <2>1. t \in cut /\ t \in Nat BY <1>4, <1>5, <1>11
  <2>2. t \notin migrations /\ t <= counter[1] /\ FirstRegister(t) BY <2>1, <1>7
  <2>3. t <= counter'[1] BY <2>1, <2>2, <1>2, <1>5
  <2> QED BY <2>1, <2>2, <2>3, <1>4, <1>6, <1>8 DEF MigrationOpen
<1>12. ASSUME NEW n \in DOMAIN Queue', Queue'[n].op = "migrate"
       PROVE  MigrationOpen(Queue[n].tx)'
  <2>1. PICK r : r = Queue'[n] OBVIOUS
  <2>2. /\ n + 1 \in DOMAIN Queue /\ r = Queue[n + 1] /\ r \in Ops /\ Before(s, r)
        /\ r.op = "migrate"
    BY <2>1, <1>3, <1>12
  <2>3. MigrationOpen(r.tx) BY <2>2, <1>7
  <2>4. r.tx \in Nat
    <3>1. r.tx \in Ids BY <2>2 DEF Ops
    <3> QED BY <3>1, <1>5
  <2>5. r.tx \notin migrations'
    <3>1. s.op = "migrate" => s.tx < r.tx BY <2>2 DEF Before
    <3> QED BY <3>1, <2>3, <2>4, <1>2, <1>6 DEF MigrationOpen
  <2>6. r.tx <= counter'[1] => FirstRegister(r.tx)
    <3> HAVE r.tx <= counter'[1]
    <3>1. CASE r.tx <= counter[1] BY <3>1, <2>3 DEF MigrationOpen
    <3>2. CASE ~(r.tx <= counter[1])
      <4>1. s.op # "balance" /\ counter'[1] = s.tx BY <3>2, <1>2
      <4>2. s.op = "asset" /\ s.tx = r.tx BY <4>1, <2>2, <2>4, <1>2 DEF Before
      <4>3. FirstRegister(s.tx) BY <4>2, <1>1, <1>2 DEF IInv, AssetsOnTheWay
      <4> QED BY <4>2, <4>3
    <3> QED BY <3>1, <3>2
  <2>7. MigrationOpen(r.tx)'
    BY <2>3, <2>5, <2>6, <1>4 DEF MigrationOpen
  <2> QED BY <2>1, <2>7
<1> QED BY <1>9, <1>10, <1>11, <1>12 DEF MigrationsOnTheWay

\* What was dropped is neither stored by it nor queued after it.
LEMMA StoreApart ==
  ASSUME OrderInv, DroppedApart, Store
  PROVE  DroppedApart'
<1>1. PICK s, l, z : s = Queue[1] /\ l = Len(nep5Tx) /\ z = nep5Tx' OBVIOUS
<1>2. /\ 1 \in DOMAIN Queue
      /\ \A n \in DOMAIN Queue' : n + 1 \in DOMAIN Queue /\ Queue'[n] = Queue[n + 1]
  BY StoreFacts
<1>3. /\ called' = called /\ applogIdx' = applogIdx /\ dropped' = dropped
      /\ \A t : Taken(t)' <=> Taken(t)
  BY StoreSame
<1> SUFFICES ASSUME NEW u \in dropped
             PROVE  /\ ~Stored(u[1], u[2])' /\ ~Queued(u[1], u[2])'
                    /\ Taken(u[1])' \/ Done(u[1], u[2])'
                    /\ u[1] = called' => u[2] <= applogIdx'
  BY <1>3 DEF DroppedApart
<1>4. PICK t, i : t = u[1] /\ i = u[2] OBVIOUS
<1>5. t \in Nat /\ i \in Nat
  <2>1. u \in Ids \X Nat BY DEF OrderInv, Types, TypeOK
  <2> QED BY <2>1, <1>4 DEF Ids
<1>6. /\ ~Stored(t, i) /\ ~Queued(t, i)
      /\ Taken(t) \/ Done(t, i)
      /\ t = called => i <= applogIdx
  BY <1>4 DEF DroppedApart
<1>7. ~Queued(t, i)' BY <1>2, <1>6 DEF Queued
<1>8. ~Stored(t, i)'
  <2> SUFFICES ASSUME NEW n \in DOMAIN z, z[n].tx = t, z[n].idx = i PROVE FALSE
    BY <1>1 DEF Stored
  <2>1. /\ DOMAIN nep5Tx = 1..l
        /\ \A m \in 1..l : z[m] = nep5Tx[m]
        /\ s.op # "transfer" => DOMAIN z = 1..l
        /\ s.op = "transfer" => /\ z[l + 1] = [tx |-> s.tx, idx |-> s.idx, id |-> s.id]
                                /\ \A m \in DOMAIN z : m \in 1..l \/ m = l + 1
    BY <1>1, StoreRows
  <2>2. CASE n \in 1..l BY <2>1, <2>2, <1>6 DEF Stored
  <2>3. CASE s.op = "transfer" /\ n = l + 1
    <3>1. s.tx = t /\ s.idx = i BY <2>1, <2>3
    <3> QED BY <3>1, <2>3, <1>1, <1>2, <1>6 DEF Queued
  <2> QED BY <2>1, <2>2, <2>3
<1>9. Taken(t)' \/ Done(t, i)' BY <1>3, <1>5, <1>6, DoneGrows
<1> QED BY <1>3, <1>4, <1>6, <1>7, <1>8, <1>9
-----------------------------------------------------------------------------
(* handleNep5Tx: what its steps have in common.  Step h adds the operations  *)
(* d of transaction h, with the ids GetAssetId gives.                        *)

Adds(h, d) ==
  /\ todo = <<>> /\ todo' = d /\ d \in Seq(Ops)
  /\ UNCHANGED <<chain, nextTxPK, storeChan, dbVars, cut>>
  /\ MeantGrows /\ dropped \subseteq dropped'
  /\ Relevant(h)
  /\ \A t : Taken(t)' <=> Taken(t) \/ t = h
  /\ \A t : Taken(t) => t <= h
  /\ \A s : Relevant(s) /\ s < h => Taken(s)
  /\ \A j \in DOMAIN d : d[j].tx = h /\ d[j] \in Ops
  /\ \A i, j \in DOMAIN d : i < j => Before(d[i], d[j])

\* What such a step leaves as it is.
LEMMA AddsSame ==
  ASSUME OrderInv, NEW h, NEW d, Adds(h, d)
  PROVE  /\ chain' = chain /\ txMax' = txMax /\ counter' = counter /\ nep5' = nep5
         /\ nep5Tx' = nep5Tx /\ migrations' = migrations /\ cut' = cut
         /\ \A t : Relevant(t)' <=> Relevant(t)
         /\ \A t, x : Registers(t, x)' <=> Registers(t, x)
         /\ \A t : Registering(t)' <=> Registering(t)
         /\ \A t, x : RegisteredBefore(t, x)' <=> RegisteredBefore(t, x)
         /\ \A t : FirstRegister(t)' <=> FirstRegister(t)
         /\ \A t : Should(t)' <=> Should(t)
         /\ \A t, i : IsTransfer(t, i)' <=> IsTransfer(t, i)
         /\ \A x : CountedRegisters(x)' <=> CountedRegisters(x)
         /\ \A x : TakenRegisters(x)' <=> TakenRegisters(x) \/ Registers(h, x)
         /\ \A t, i : Done(t, i)' <=> Done(t, i)
         /\ \A t, i : Stored(t, i)' <=> Stored(t, i)
         /\ \A r : OfAsset(r)' <=> OfAsset(r)
         /\ \A r : Behind(r)' <=> Behind(r)
         /\ \A x : HasId(x) => HasId(x)'
         /\ \A i : IdGiven(i) => IdGiven(i)'
         /\ h \in Ids /\ h \in Nat \ {0} /\ h \in 1..txMax /\ Ids \subseteq Nat \ {0}
<1>1. /\ chain' = chain /\ counter' = counter /\ nep5' = nep5
      /\ nep5Tx' = nep5Tx /\ migrations' = migrations /\ cut' = cut
  BY DEF Adds, dbVars
<1>2. txMax' = txMax BY <1>1 DEF txMax
<1>3. \A t : Relevant(t)' <=> Relevant(t) BY <1>1, <1>2 DEF Relevant
<1>4. \A t, x : Registers(t, x)' <=> Registers(t, x) BY <1>1 DEF Registers
<1>5. \A t : Registering(t)' <=> Registering(t) BY <1>1, <1>4 DEF Registering
<1>6. \A t, x : RegisteredBefore(t, x)' <=> RegisteredBefore(t, x)
  BY <1>4 DEF RegisteredBefore
<1>7. \A t : FirstRegister(t)' <=> FirstRegister(t)
  BY <1>1, <1>5, <1>6 DEF FirstRegister
<1>8. \A t : Should(t)' <=> Should(t) BY <1>1, <1>4 DEF Should
<1>9. \A t, i : IsTransfer(t, i)' <=> IsTransfer(t, i)
  BY <1>1, <1>2, <1>6 DEF IsTransfer
<1>10. \A x : CountedRegisters(x)' <=> CountedRegisters(x)
  BY <1>1, <1>4 DEF CountedRegisters
<1>11. h \in Ids /\ h \in Nat \ {0} /\ h \in 1..txMax /\ Ids \subseteq Nat \ {0}
  BY TypesFacts DEF OrderInv, Adds, Relevant
<1>12. \A x : TakenRegisters(x)' <=> TakenRegisters(x) \/ Registers(h, x)
  <2>1. \A t : Taken(t)' <=> Taken(t) \/ t = h BY DEF Adds
  <2> QED BY <2>1, <1>4, <1>11 DEF TakenRegisters
<1>13. \A t, i : Done(t, i)' <=> Done(t, i) BY <1>1 DEF Done
<1>14. \A t, i : Stored(t, i)' <=> Stored(t, i) BY <1>1 DEF Stored
<1>15. \A r : OfAsset(r)' <=> OfAsset(r) BY <1>1, <1>6 DEF OfAsset
<1>16. \A r : Behind(r)' <=> Behind(r) BY <1>1 DEF Behind
<1>17. \A x : HasId(x) => HasId(x)' BY <1>1 DEF HasId, Adds, MeantGrows
<1>18. \A i : IdGiven(i) => IdGiven(i)' BY DEF IdGiven, Adds, MeantGrows
<1> QED BY <1>1, <1>2, <1>3, <1>4, <1>5, <1>6, <1>7, <1>8, <1>9, <1>10, <1>11, <1>12,
           <1>13, <1>14, <1>15, <1>16, <1>17, <1>18

\* Operations of a transaction just taken go behind all that is queued.
LEMMA AddsQueue ==
  ASSUME OrderInv, NEW h, NEW d, Adds(h, d)
  PROVE  /\ Queue \in Seq(Ops) /\ DOMAIN Queue \subseteq Nat
         /\ \A n \in DOMAIN Queue : /\ n \in DOMAIN Queue' /\ Queue'[n] = Queue[n]
                                    /\ Queue[n] \in Ops /\ Taken(Queue[n].tx)
                                    /\ OpFits(Queue[n]) /\ Behind(Queue[n])
         /\ \A j \in DOMAIN d : \E n \in DOMAIN Queue' : Queue'[n] = d[j]
         /\ \A n \in DOMAIN Queue' :
              n \in DOMAIN Queue \/ \E j \in DOMAIN d : Queue'[n] = d[j]
<1>1. storeChan \in Seq(Ops) /\ todo \in Seq(Ops) BY TypesFacts DEF OrderInv
<1>2. todo = <<>> /\ todo' = d /\ d \in Seq(Ops) /\ storeChan' = storeChan BY DEF Adds
<1>3. /\ Queue \in Seq(Ops) /\ DOMAIN Queue = 1..Len(Queue) /\ Len(Queue) \in Nat
      /\ \A n \in DOMAIN Queue : Queue[n] \in Ops
  BY <1>1, QueueIsSeq
<1>4. /\ \A n \in DOMAIN Queue : n \in DOMAIN Queue' /\ Queue'[n] = Queue[n]
      /\ \A j \in DOMAIN d : /\ Len(storeChan) + j \in DOMAIN Queue'
                             /\ Queue'[Len(storeChan) + j] = d[j]
      /\ \A n \in DOMAIN Queue' :
           \/ n \in DOMAIN Queue /\ n <= Len(storeChan)
           \/ /\ n - Len(storeChan) \in DOMAIN d /\ n > Len(storeChan)
              /\ Queue'[n] = d[n - Len(storeChan)]
  BY <1>1, <1>2, QueueGrows
<1>5. \A n \in DOMAIN Queue : OpFits(Queue[n]) /\ Behind(Queue[n]) /\ Taken(Queue[n].tx)
  BY DEF OrderInv, QueueOrder, OpFits
<1> QED BY <1>3, <1>4, <1>5

\* The order of the queue, if the operations fit behind those in it.
LEMMA AddsOrder ==
  ASSUME OrderInv, NEW h, NEW d, Adds(h, d),
         \A n \in DOMAIN Queue : \A r : r = Queue[n] => OpFits(r)',
         \A j \in DOMAIN d : \A r : r = d[j] => OpFits(r)' /\ Behind(r),
         \A n \in DOMAIN Queue, j \in DOMAIN d : Before(Queue[n], d[j])
  PROVE  QueueOrder' /\ RowsInOrder'
<1>1. PICK q, z : q = Queue /\ z = Queue' OBVIOUS
<1>2. /\ DOMAIN q \subseteq Nat
      /\ \A n \in DOMAIN q : n \in DOMAIN z /\ z[n] = q[n] /\ Behind(q[n])
      /\ \A n \in DOMAIN z : n \in DOMAIN q \/ \E j \in DOMAIN d : z[n] = d[j]
  BY <1>1, AddsQueue
<1>3. \A n, m \in DOMAIN q : n < m => Before(q[n], q[m])
  BY <1>1 DEF OrderInv, QueueOrder
<1>4. \A n \in DOMAIN z : \A r : r = z[n] => OpFits(r)' /\ Behind(r)
  BY <1>1, <1>2
<1>5. \A r : Behind(r)' <=> Behind(r) BY AddsSame
<1>6. \A n \in DOMAIN Queue' : OpFits(Queue[n])' /\ Behind(Queue[n])' BY <1>1, <1>4, <1>5
<1>7. ASSUME NEW n \in DOMAIN z, NEW m \in DOMAIN z, n < m PROVE Before(z[n], z[m])
  <2>1. storeChan \in Seq(Ops) /\ todo \in Seq(Ops) BY TypesFacts DEF OrderInv
  <2>2. PICK a : a = Len(storeChan) OBVIOUS
  <2>3. todo = <<>> /\ todo' = d /\ d \in Seq(Ops) /\ storeChan' = storeChan BY DEF Adds
  <2>4. \A k \in DOMAIN z :
          \/ k \in DOMAIN q /\ k <= a
          \/ k - a \in DOMAIN d /\ k > a /\ z[k] = d[k - a]
    BY <1>1, <2>1, <2>2, <2>3, QueueGrows
  <2>5. a \in Nat /\ DOMAIN z \subseteq Nat
    <3>1. a \in Nat BY <2>1, <2>2, LenProperties
    <3>2. z \in Seq(Ops)
      <4>1. z = storeChan \o d BY <1>1, <2>3 DEF Queue
      <4> QED BY <4>1, <2>1, <2>3, ConcatProperties
    <3>3. DOMAIN z = 1..Len(z) /\ Len(z) \in Nat BY <3>2, LenProperties
    <3> QED BY <3>1, <3>3
  <2>6. n \in Nat /\ m \in Nat BY <2>5
  <2>7. CASE n <= a /\ m <= a
    <3>1. n \in DOMAIN q /\ m \in DOMAIN q BY <2>4, <2>5, <2>6, <2>7
    <3> QED BY <3>1, <1>2, <1>3, <1>7
  <2>8. CASE n <= a /\ m > a
    <3>1. n \in DOMAIN q /\ m - a \in DOMAIN d /\ z[m] = d[m - a]
      BY <2>4, <2>5, <2>6, <2>8
    <3> QED BY <3>1, <1>1, <1>2
  <2>9. CASE n > a
    <3>1. /\ n - a \in DOMAIN d /\ m - a \in DOMAIN d /\ n - a < m - a
          /\ z[n] = d[n - a] /\ z[m] = d[m - a]
      BY <2>4, <2>5, <2>6, <2>9, <1>7
    <3> QED BY <3>1 DEF Adds
  <2> QED BY <2>5, <2>6, <2>7, <2>8, <2>9
<1>8. QueueOrder' BY <1>1, <1>6, <1>7 DEF QueueOrder
<1>9. RowsInOrder'
  <2>1. /\ chain' = chain /\ txMax' = txMax /\ nep5Tx' = nep5Tx
        /\ \A t, i : Done(t, i)' <=> Done(t, i)
    BY AddsSame
  <2>2. \A r : RowFits(r) => RowFits(r)' BY <2>1 DEF RowFits, Adds, MeantGrows
  <2> QED BY <2>1, <2>2 DEF OrderInv, RowsInOrder
<1> QED BY <1>8, <1>9

\* What was dropped stays apart, if nothing added was dropped.
LEMMA AddsApart ==
  ASSUME OrderInv, DroppedApart, NEW h, NEW d, Adds(h, d), dropped' \subseteq Ids \X Nat,
         \A u \in dropped' : \/ u \in dropped
                             \/ u[1] = h /\ ~Stored(h, u[2]) /\ ~Queued(h, u[2]),
         \A j \in DOMAIN d : d[j].op = "transfer" => <<h, d[j].idx>> \notin dropped',
         \/ called' = 0
         \/ called' = h /\ \A u \in dropped' : u[1] = h => u[2] <= applogIdx'
  PROVE  DroppedApart'
<1>1. /\ \A t, i : Done(t, i)' <=> Done(t, i)
      /\ \A t, i : Stored(t, i)' <=> Stored(t, i)
      /\ Ids \subseteq Nat \ {0}
  BY AddsSame
<1>2. /\ \A t : Taken(t)' <=> Taken(t) \/ t = h
      /\ \A j \in DOMAIN d : d[j].tx = h
  BY DEF Adds
<1> SUFFICES ASSUME NEW u \in dropped'
             PROVE  /\ ~Stored(u[1], u[2])' /\ ~Queued(u[1], u[2])'
                    /\ Taken(u[1])' \/ Done(u[1], u[2])'
                    /\ u[1] = called' => u[2] <= applogIdx'
  BY DEF DroppedApart
<1>3. PICK t, i : t = u[1] /\ i = u[2] OBVIOUS
<1>4. u = <<t, i>> /\ t # 0
  <2>1. u \in Ids \X Nat OBVIOUS
  <2> QED BY <2>1, <1>1, <1>3
<1>5. ~Stored(t, i) /\ ~Queued(t, i) /\ (Taken(t) \/ t = h \/ Done(t, i))
  BY <1>3 DEF DroppedApart
<1>6. ~Queued(t, i)'
  <2> SUFFICES ASSUME NEW n \in DOMAIN Queue', Queue'[n].op = "transfer",
                      Queue'[n].tx = t, Queue'[n].idx = i
               PROVE  FALSE
    BY DEF Queued
  <2>1. /\ \A m \in DOMAIN Queue : Queue'[m] = Queue[m]
        /\ n \in DOMAIN Queue \/ \E j \in DOMAIN d : Queue'[n] = d[j]
    BY AddsQueue
  <2>2. CASE n \in DOMAIN Queue BY <2>1, <2>2, <1>5 DEF Queued
  <2>3. CASE \E j \in DOMAIN d : Queue'[n] = d[j] BY <2>3, <1>2, <1>4
  <2> QED BY <2>1, <2>2, <2>3
<1>7. t = called' => i <= applogIdx' BY <1>3, <1>4
<1> QED BY <1>1, <1>2, <1>3, <1>5, <1>6, <1>7
-----------------------------------------------------------------------------
(* What such a step does to what the task knows and has on its way. *)

LEMMA AddsAssets ==
  ASSUME IInv, NEW h, NEW d, Adds(h, d), NEW id,
         Registering(h) => /\ <<chain[h].hash, id>> \in meant'
                           /\ known' = known \cup {id}
                           /\ id \notin known => \E j \in DOMAIN d : d[j].op = "asset",
         ~Registering(h) => known' = known,
         \A j \in DOMAIN d : d[j].op = "asset" => Registering(h) /\ id \notin known
  PROVE  (KnownExact /\ AssetsExact /\ AssetsOnTheWay)'
<1>1. /\ chain' = chain /\ counter' = counter /\ nep5' = nep5
      /\ \A x : TakenRegisters(x)' <=> TakenRegisters(x) \/ Registers(h, x)
      /\ \A x : CountedRegisters(x)' <=> CountedRegisters(x)
      /\ \A t : Registering(t)' <=> Registering(t)
      /\ \A t : FirstRegister(t)' <=> FirstRegister(t)
      /\ h \in Nat \ {0} /\ h \in 1..txMax
  BY AddsSame DEF IInv
<1>2. MeantGrows /\ \A t : Taken(t)' <=> Taken(t) \/ t = h BY DEF Adds
<1> SUFFICES ASSUME IdsStable' PROVE (KnownExact /\ AssetsExact /\ AssetsOnTheWay)'
  BY DEF KnownExact, AssetsExact, AssetsOnTheWay
<1>3. /\ IdsStable
      /\ \A p \in meant' : p[2] \in known <=> TakenRegisters(p[1])
      /\ \A p \in meant' : nep5[p[2]] = IF CountedRegisters(p[1]) THEN 1 ELSE 0
  BY <1>2, NamesExact DEF IInv
<1>4. Registering(h) => \A p \in meant' : p[1] = chain[h].hash <=> p[2] = id
  <2> HAVE Registering(h)
  <2>1. \A p, q \in meant' : p[1] = q[1] <=> p[2] = q[2] BY DEF IdsStable
  <2>2. PICK q : q = <<chain[h].hash, id>> OBVIOUS
  <2>3. q \in meant' /\ q[1] = chain[h].hash /\ q[2] = id BY <2>2
  <2> QED BY <2>1, <2>3
<1>5. KnownExact'
  <2> SUFFICES ASSUME NEW p \in meant' PROVE p[2] \in known' <=> TakenRegisters(p[1])'
    BY DEF KnownExact
  <2>1. Registers(h, p[1]) <=> Registering(h) /\ p[1] = chain[h].hash
    BY DEF Registers, Registering
  <2>2. p[2] \in known' <=> p[2] \in known \/ (Registering(h) /\ p[2] = id)
    OBVIOUS
  <2> QED BY <2>1, <2>2, <1>1, <1>3, <1>4
<1>6. AssetsExact'
  <2>1. \A p \in meant' : nep5'[p[2]] = IF CountedRegisters(p[1])' THEN 1 ELSE 0
    BY <1>1, <1>3
  <2> QED BY <2>1 DEF AssetsExact, CountedRegisters
<1>7. /\ \A n \in DOMAIN Queue : n \in DOMAIN Queue' /\ Queue'[n] = Queue[n]
      /\ \A j \in DOMAIN d : \E n \in DOMAIN Queue' : Queue'[n] = d[j]
      /\ \A n \in DOMAIN Queue' : n \in DOMAIN Queue \/ \E j \in DOMAIN d : Queue'[n] = d[j]
      /\ \A j \in DOMAIN d : d[j].tx = h
  BY AddsQueue DEF IInv, Adds
<1>8. \A x : AssetQueued(x) => AssetQueued(x)' BY <1>1, <1>7 DEF AssetQueued
<1>9. /\ \A t \in Ids : Taken(t) /\ Registering(t) =>
           CountedRegisters(chain[t].hash) \/ AssetQueued(chain[t].hash)
      /\ \A n \in DOMAIN Queue : Queue[n].op = "asset" => FirstRegister(Queue[n].tx)
  BY <1>3 DEF IInv, AssetsOnTheWay
<1>10. ASSUME NEW t \in Ids, Taken(t)', Registering(t)'
       PROVE  CountedRegisters(chain[t].hash)' \/ AssetQueued(chain[t].hash)'
  <2>1. Registering(t) BY <1>1, <1>10
  <2>2. CASE Taken(t) BY <2>1, <2>2, <1>1, <1>8, <1>9
  <2>3. CASE t = h /\ id \notin known
    <3>1. PICK j \in DOMAIN d : d[j].op = "asset" BY <2>1, <2>3
    <3>2. PICK n \in DOMAIN Queue' : Queue'[n] = d[j] BY <1>7
    <3>3. PICK x : x = chain[t].hash OBVIOUS
    <3>4. AssetQueued(x)' BY <3>1, <3>2, <3>3, <2>3, <1>1, <1>7 DEF AssetQueued
    <3> QED BY <3>3, <3>4, <1>1
  <2>4. CASE t = h /\ id \in known
    <3>1. PICK q : q = <<chain[h].hash, id>> OBVIOUS
    <3>2. q \in meant' /\ q[2] \in known /\ q[1] = chain[h].hash BY <3>1, <2>1, <2>4
    <3>3. TakenRegisters(chain[h].hash) BY <3>2, <1>3
    <3>4. PICK s \in Ids : Taken(s) /\ Registers(s, chain[h].hash)
      BY <3>3 DEF TakenRegisters
    <3>5. Registering(s) /\ chain[s].hash = chain[h].hash
      BY <3>4, RegistersRelevant DEF Taken, Relevant
    <3>6. CountedRegisters(chain[s].hash) \/ AssetQueued(chain[s].hash)
      BY <3>4, <3>5, <1>9
    <3> QED BY <3>5, <3>6, <2>4, <1>1, <1>8
  <2> QED BY <2>2, <2>3, <2>4, <1>2, <1>10
<1>11. \A n \in DOMAIN Queue' : Queue'[n].op = "asset" => FirstRegister(Queue'[n].tx)
  <2>1. ASSUME NEW j \in DOMAIN d, d[j].op = "asset" PROVE FirstRegister(d[j].tx)
    <3>1. d[j].tx = h /\ Registering(h) /\ id \notin known BY <2>1, <1>7
    <3>2. PICK q : q = <<chain[h].hash, id>> OBVIOUS
    <3>3. q \in meant' /\ q[2] \notin known /\ q[1] = chain[h].hash BY <3>1, <3>2
    <3>4. ~TakenRegisters(chain[h].hash) BY <3>3, <1>3
    <3>5. ~RegisteredBefore(h, chain[h].hash)
      <4> SUFFICES ASSUME NEW s \in 1..(h - 1), Registers(s, chain[h].hash) PROVE FALSE
        BY DEF RegisteredBefore
      <4>1. s < h /\ s \in 1..txMax /\ s \in Ids
        <5>1. txMax \in Nat /\ 1..txMax \subseteq Ids BY TypesFacts DEF IInv, OrderInv
        <5>2. s < h /\ s \in 1..txMax BY <5>1, <1>1
        <5> QED BY <5>1, <5>2
      <4>2. Taken(s) BY <4>1, RegistersRelevant DEF Adds
      <4> QED BY <4>1, <4>2, <3>4 DEF TakenRegisters
    <3> QED BY <3>1, <3>5 DEF FirstRegister
  <2> QED BY <2>1, <1>7, <1>9
<1>12. \A n \in DOMAIN Queue' : Queue'[n].op = "asset" => FirstRegister(Queue[n].tx)'
  BY <1>1, <1>11
<1>13. AssetsOnTheWay' BY <1>10, <1>12 DEF AssetsOnTheWay
<1> QED BY <1>5, <1>6, <1>13

\* Taking a transaction puts its migration on its way.
LEMMA AddsMigrations ==
  ASSUME IInv, NEW h, NEW d, Adds(h, d),
         IdsStable' => /\ \A j \in DOMAIN d : d[j].op = "migrate" => Should(h) /\ h > counter[1]
                       /\ Should(h) => \E j \in DOMAIN d : d[j].op = "migrate"
  PROVE  MigrationsOnTheWay'
<1>1. /\ counter' = counter /\ migrations' = migrations /\ cut' = cut
      /\ \A t : FirstRegister(t)' <=> FirstRegister(t)
      /\ \A t : Should(t)' <=> Should(t)
      /\ h \in Nat
  BY AddsSame DEF IInv
<1>2. /\ \A t : Taken(t)' <=> Taken(t) \/ t = h
      /\ \A j \in DOMAIN d : d[j].tx = h
  BY DEF Adds
<1> SUFFICES ASSUME IdsStable' PROVE MigrationsOnTheWay'
  BY DEF MigrationsOnTheWay
<1>3. IdsStable BY NamesExact DEF IInv, Adds
<1>4. /\ \A t \in Ids : Taken(t) /\ Should(t) =>
           t \in migrations \/ t \in cut \/ MigrationQueued(t)
      /\ \A t \in migrations : t <= counter[1] /\ Should(t)
      /\ \A t \in cut : t \notin migrations /\ t <= counter[1] /\ FirstRegister(t)
      /\ \A n \in DOMAIN Queue : Queue[n].op = "migrate" => MigrationOpen(Queue[n].tx)
  BY <1>3 DEF IInv, MigrationsOnTheWay
<1>5. /\ \A n \in DOMAIN Queue : n \in DOMAIN Queue' /\ Queue'[n] = Queue[n]
      /\ \A j \in DOMAIN d : \E n \in DOMAIN Queue' : Queue'[n] = d[j]
      /\ \A n \in DOMAIN Queue' : n \in DOMAIN Queue \/ \E j \in DOMAIN d : Queue'[n] = d[j]
  BY AddsQueue DEF IInv
<1>6. \A t : MigrationQueued(t) => MigrationQueued(t)' BY <1>5 DEF MigrationQueued
<1>7. Should(h) => MigrationQueued(h)'
  <2> HAVE Should(h)
  <2>1. PICK j \in DOMAIN d : d[j].op = "migrate" OBVIOUS
  <2>2. PICK n \in DOMAIN Queue' : Queue'[n] = d[j] BY <1>5
  <2> QED BY <2>1, <2>2, <1>2 DEF MigrationQueued
<1>8. \A t \in Ids : Taken(t)' /\ Should(t)' =>
        t \in migrations' \/ t \in cut' \/ MigrationQueued(t)'
  BY <1>1, <1>2, <1>4, <1>6, <1>7
<1>9. ASSUME NEW j \in DOMAIN d, d[j].op = "migrate" PROVE MigrationOpen(d[j].tx)
  <2>1. d[j].tx = h /\ Should(h) /\ h > counter[1] BY <1>2, <1>9
  <2>2. counter[1] \in Nat BY TypesFacts DEF IInv, OrderInv
  <2>3. ~(h <= counter[1]) BY <2>1, <2>2, <1>1
  <2> QED BY <2>1, <2>3, <1>4 DEF MigrationOpen
<1>10. \A t : MigrationOpen(t)' <=> MigrationOpen(t) BY <1>1 DEF MigrationOpen
<1>11. \A n \in DOMAIN Queue' : Queue'[n].op = "migrate" => MigrationOpen(Queue[n].tx)'
  BY <1>4, <1>5, <1>9, <1>10
<1> QED BY <1>1, <1>4, <1>8, <1>11 DEF MigrationsOnTheWay

\* Taking a transaction puts its transfers on their way or leaves them to the call.
LEMMA AddsTransfers ==
  ASSUME IInv, NEW h, NEW d, Adds(h, d),
         called = 0 \/ called = h,
         IdsStable' =>
           /\ \A j \in DOMAIN d : d[j].op = "transfer" => OfAsset(d[j])
           /\ \A i \in Nat : IsTransfer(h, i) /\ ~Done(h, i) =>
                \/ Queued(h, i)
                \/ \E j \in DOMAIN d : d[j].op = "transfer" /\ d[j].idx = i
                \/ h = called' /\ i > applogIdx'
                \/ <<h, i>> \in dropped'
  PROVE  TransfersOnTheWay'
<1>1. /\ nep5Tx' = nep5Tx
      /\ \A t, i : IsTransfer(t, i)' <=> IsTransfer(t, i)
      /\ \A t, i : Done(t, i)' <=> Done(t, i)
      /\ \A t, i : Stored(t, i)' <=> Stored(t, i)
      /\ \A r : OfAsset(r)' <=> OfAsset(r)
      /\ h \in Ids /\ Ids \subseteq Nat \ {0}
  BY AddsSame DEF IInv
<1>2. /\ \A t : Taken(t)' <=> Taken(t) \/ t = h
      /\ \A j \in DOMAIN d : d[j].tx = h
  BY DEF Adds
<1> SUFFICES ASSUME IdsStable' PROVE TransfersOnTheWay'
  BY DEF TransfersOnTheWay
<1>3. IdsStable BY NamesExact DEF IInv, Adds
<1>4. /\ \A n \in DOMAIN nep5Tx : OfAsset(nep5Tx[n])
      /\ \A n \in DOMAIN Queue : Queue[n].op = "transfer" => OfAsset(Queue[n])
      /\ \A t \in Ids : \A i \in Nat : IsTransfer(t, i) => OnTheWay(t, i)
  BY <1>3 DEF IInv, TransfersOnTheWay
<1>5. /\ \A n \in DOMAIN Queue : n \in DOMAIN Queue' /\ Queue'[n] = Queue[n]
      /\ \A j \in DOMAIN d : \E n \in DOMAIN Queue' : Queue'[n] = d[j]
      /\ \A n \in DOMAIN Queue' : n \in DOMAIN Queue \/ \E j \in DOMAIN d : Queue'[n] = d[j]
  BY AddsQueue DEF IInv
<1>6. \A t, i : Queued(t, i) => Queued(t, i)' BY <1>5 DEF Queued
<1>7. \A n \in DOMAIN Queue' : Queue'[n].op = "transfer" => OfAsset(Queue'[n])
  BY <1>4, <1>5
<1>8. ASSUME NEW t \in Ids, NEW i \in Nat, IsTransfer(t, i)' PROVE OnTheWay(t, i)'
  <2>1. IsTransfer(t, i) /\ OnTheWay(t, i) BY <1>1, <1>4, <1>8
  <2>0. CASE <<t, i>> \in dropped BY <2>0 DEF OnTheWay, Adds
  <2>2. CASE <<t, i>> \notin dropped /\ Done(t, i) BY <2>1, <2>2, <1>1 DEF OnTheWay
  <2>3. CASE <<t, i>> \notin dropped /\ ~Done(t, i) /\ t # h
    <3>1. t # 0 BY <1>1
    <3>2. Queued(t, i) \/ ~Taken(t) BY <2>1, <2>3, <3>1 DEF OnTheWay
    <3> QED BY <3>2, <2>3, <1>1, <1>2, <1>6 DEF OnTheWay
  <2>4. CASE ~Done(t, i) /\ t = h
    <3>1. \/ Queued(h, i)
          \/ \E j \in DOMAIN d : d[j].op = "transfer" /\ d[j].idx = i
          \/ h = called' /\ i > applogIdx'
          \/ <<h, i>> \in dropped'
      BY <2>1, <2>4
    <3>2. (\E j \in DOMAIN d : d[j].op = "transfer" /\ d[j].idx = i) => Queued(h, i)'
      BY <1>2, <1>5 DEF Queued
    <3>3. Queued(h, i)' \/ (h = called' /\ i > applogIdx') \/ <<h, i>> \in dropped'
      BY <3>1, <3>2, <1>6
    <3> QED BY <3>3, <2>4, <1>1 DEF OnTheWay
  <2> QED BY <2>0, <2>2, <2>3, <2>4
<1>9. (\A n \in DOMAIN nep5Tx : OfAsset(nep5Tx[n]))' BY <1>1, <1>4
<1>10. (\A n \in DOMAIN Queue : Queue[n].op = "transfer" => OfAsset(Queue[n]))'
  BY <1>1, <1>7
<1> QED BY <1>8, <1>9, <1>10 DEF TransfersOnTheWay
-----------------------------------------------------------------------------
(* handleNep5Tx takes a transaction. *)

LEMMA HandleFrame ==
  ASSUME OrderInv, Handle
  PROVE  LET h == Head(nep5TxChan)
         IN  /\ LogPlaces' /\ ScanOrder'
             /\ \A t : Taken(t)' <=> Taken(t) \/ t = h
             /\ nep5TxChan' \in Seq(Ids) /\ Len(nep5TxChan') <= ChanSize
             /\ h \in Ids /\ h \in Nat \ {0} /\ Relevant(h) /\ h < nextTxPK
             /\ \A t : Taken(t) => t < h /\ t <= h /\ t # h
             /\ \A s : Relevant(s) /\ s < h => Taken(s)
             /\ Resuming => h = counter[1] /\ chain[h].kind = "call"
             /\ ~Resuming => counter[1] < h /\ applogIdx = -1
             /\ called = 0 /\ todo = <<>>
<1>1. PICK h, r : h = Head(nep5TxChan) /\ r = Tail(nep5TxChan) OBVIOUS
<1>2. /\ called = 0 /\ todo = <<>> /\ nep5TxChan # <<>> /\ nep5TxChan' = r
      /\ UNCHANGED <<chain, fetchVars, logVars, storeChan, dbVars, addrVars, cut, crashes>>
  BY <1>1 DEF Handle
<1>3. /\ h \in Ids /\ h \in Nat \ {0} /\ Relevant(h) /\ h < nextTxPK /\ ~Taken(h)
      /\ Ahead = (ToSet(r) \cup waiting) \cup {h} /\ h \notin ToSet(r) \cup waiting
      /\ \A a \in ToSet(r) \cup waiting : h < a
      /\ \A s : Taken(s) => s < h
      /\ \A s : Relevant(s) /\ s < h => Taken(s)
      /\ Resuming => h = counter[1] /\ chain[h].kind = "call"
      /\ ~Resuming => counter[1] < h /\ applogIdx = -1
  BY <1>1, <1>2, HeadOfChan
<1>4. PICK n : n = Len(nep5TxChan) OBVIOUS
<1>5. nep5TxChan \in Seq(Ids) /\ n <= ChanSize BY <1>4 DEF OrderInv, Types, TypeOK
<1>6. /\ n \in Nat \ {0} /\ r \in Seq(Ids) /\ Len(r) = n - 1 /\ DOMAIN r = 1..(n - 1)
      /\ DOMAIN nep5TxChan = 1..n
      /\ \A i \in 1..(n - 1) : i + 1 \in 1..n /\ r[i] = nep5TxChan[i + 1]
  BY <1>1, <1>2, <1>4, <1>5, Shortened
<1>7. Len(r) <= ChanSize BY <1>5, <1>6, Nep5Bounds
<1>8. LogPlaces'
  <2>1. InHand' = InHand BY <1>2 DEF InHand, logVars
  <2> QED BY <2>1, <1>2 DEF OrderInv, LogPlaces, fetchVars, logVars
<1>9. /\ Ahead' = ToSet(r) \cup waiting /\ nextTxPK' = nextTxPK /\ waiting' = waiting
      /\ txMax' = txMax
  BY <1>2 DEF Ahead, fetchVars, txMax
<1>10. \A t : Relevant(t)' <=> Relevant(t) BY <1>2, <1>9 DEF Relevant
<1>11. \A t : Taken(t)' <=> Taken(t) \/ t = h
  BY <1>3, <1>9, <1>10 DEF Taken
<1>12. \A t : Taken(t) => t < h /\ t <= h /\ t # h
  <2> SUFFICES ASSUME NEW t, Taken(t) PROVE t < h /\ t <= h /\ t # h OBVIOUS
  <2>1. t \in Nat BY TypesFacts DEF OrderInv, Taken, Relevant
  <2> QED BY <2>1, <1>3
<1>13. ScanOrder'
  <2>1. \A i, j \in DOMAIN r : i < j => r[i] < r[j]
    <3> SUFFICES ASSUME NEW i \in DOMAIN r, NEW j \in DOMAIN r, i < j PROVE r[i] < r[j]
      OBVIOUS
    <3>1. i + 1 \in 1..n /\ j + 1 \in 1..n /\ i + 1 < j + 1 BY <1>6
    <3>2. nep5TxChan[i + 1] < nep5TxChan[j + 1] BY <3>1, <1>6 DEF OrderInv, ScanOrder
    <3> QED BY <3>2, <1>6
  <2>2. \A i \in DOMAIN r : \A t \in waiting : r[i] < t
    BY <1>6 DEF OrderInv, ScanOrder
  <2>3. \A a \in Ahead' : Relevant(a)' /\ a < nextTxPK'
    BY <1>3, <1>9, <1>10 DEF OrderInv, ScanOrder
  <2>4. \A s \in Ids : \A a \in Ahead' : Taken(s)' => s < a
    <3> SUFFICES ASSUME NEW s \in Ids, NEW a \in ToSet(r) \cup waiting, Taken(s) \/ s = h
                 PROVE  s < a
      BY <1>9, <1>11
    <3>1. a \in Ahead BY <1>3
    <3> QED BY <3>1, <1>3 DEF OrderInv, ScanOrder
  <2>5. nextTxPK' <= txMax' + 1 BY <1>9 DEF OrderInv, ScanOrder
  <2> QED BY <2>1, <2>2, <2>3, <2>4, <2>5, <1>2, <1>9 DEF ScanOrder
<1> QED BY <1>1, <1>2, <1>3, <1>6, <1>7, <1>8, <1>11, <1>12, <1>13

\* The three ways it handles one.
LEMMA HandleCases ==
  ASSUME OrderInv, Handle
  PROVE  LET h == Head(nep5TxChan)
         IN  \/ /\ chain[h].kind = "empty" /\ ~Resuming
                /\ todo' = SetCounter(h) /\ UNCHANGED <<called, applogIdx, asked, known>>
             \/ /\ chain[h].kind \in {"reg", "create", "migrate", "regmigrate"} /\ ~Resuming
                /\ HandleReg(h)
             \/ chain[h].kind = "call" /\ HandleCall(h)
<1>1. PICK h : h = Head(nep5TxChan) OBVIOUS
<1>2. /\ Relevant(h)
      /\ Resuming => chain[h].kind = "call"
      /\ ~Resuming => applogIdx = -1
  BY <1>1, HandleFrame
<1>3. chain[h].kind \in Kinds /\ chain[h].kind \notin {"none", "short"}
  <2>1. chain \in Seq(Txs) /\ txMax <= MaxTx BY TypesFacts DEF OrderInv
  <2> QED BY <2>1, <1>2, TxFacts DEF Relevant
<1>4. \/ todo' = SetCounter(h) /\ chain[h].kind = "empty"
         /\ UNCHANGED <<called, applogIdx, asked, known>>
      \/ /\ chain[h].kind # "empty"
         /\ IF applogIdx = -1 /\ chain[h].kind # "call" THEN HandleReg(h) ELSE HandleCall(h)
  BY <1>1 DEF Handle
<1> QED BY <1>1, <1>2, <1>3, <1>4 DEF Kinds

\* An id asked for keeps its name.
LEMMA NamesKept ==
  ASSUME OrderInv, asked' = asked, meant' = meant \cup Names(asked')
  PROVE  meant' = meant /\ MeantGrows
<1>1. meant' = meant BY DEF OrderInv, IdsGiven
<1> QED BY <1>1 DEF MeantGrows, OrderInv, IdsGiven, Types, TypeOK

\* Asking for the id of a contract gives it one.
LEMMA NamesGiven ==
  ASSUME OrderInv, NEW x \in Hashes, NEW r, asked' = r, r = GetAssetId(asked, x),
         meant' = meant \cup Names(asked')
  PROVE  /\ MeantGrows /\ r \in Seq(Hashes)
         /\ \A i, j \in DOMAIN r : r[i] = r[j] => i = j
         /\ IdOf(r, x) \in DOMAIN nep5 /\ <<x, IdOf(r, x)>> \in meant'
         /\ IdOf(r, x) \in 0..Cardinality(Hashes)
<1>1. /\ asked \in Seq(Hashes) /\ DOMAIN nep5 = 1..Cardinality(Hashes)
      /\ meant \subseteq Hashes \X DOMAIN nep5
      /\ \A i, j \in DOMAIN asked : asked[i] = asked[j] => i = j
  BY TypesFacts DEF OrderInv, Types, TypeOK
<1>2. PICK N, i : N = Cardinality(Hashes) /\ i = IdOf(r, x) OBVIOUS
<1>3. /\ r \in Seq(Hashes) /\ N \in Nat
      /\ \A k, j \in DOMAIN r : r[k] = r[j] => k = j
      /\ i \in 1..N /\ <<x, i>> \in Names(r)
      /\ Names(r) \subseteq Hashes \X (1..N)
  BY <1>1, <1>2, GivenId, Nep5Bounds
<1>4. Names(asked') = Names(r) BY DEF Names
<1>5. MeantGrows BY <1>1, <1>2, <1>3, <1>4 DEF MeantGrows
<1>6. i \in 0..N BY <1>3
<1> QED BY <1>1, <1>2, <1>3, <1>4, <1>5, <1>6

\* Two operations at most: d is u, which is <<a>> or empty, and v, which is <<b>>
\* or empty.
AtMost(a, b, u, v, d) ==
  /\ d \in Seq(Ops)
  /\ \A j \in DOMAIN d : (u # <<>> /\ d[j] = a) \/ (v # <<>> /\ d[j] = b)
  /\ u # <<>> => \E j \in DOMAIN d : d[j] = a
  /\ v # <<>> => \E j \in DOMAIN d : d[j] = b
  /\ \A i, j \in DOMAIN d : i < j => d[i] = a /\ d[j] = b

\* What a sequence of one or of two operations holds.
LEMMA OneOrTwo ==
  ASSUME NEW a \in Ops, NEW b \in Ops, NEW u, NEW v, NEW d, d = u \o v,
         u = <<>> \/ u = <<a>>, v = <<>> \/ v = <<b>>
  PROVE  AtMost(a, b, u, v, d)
<1>0. \A w : \A c \in Ops : w = <<>> \/ w = <<c>> =>
        /\ w \in Seq(Ops)
        /\ w # <<>> => Len(w) = 1 /\ w[1] = c
        /\ w = <<>> => Len(w) = 0
  <2> SUFFICES ASSUME NEW w, NEW c \in Ops, w = <<>> \/ w = <<c>>
               PROVE  /\ w \in Seq(Ops)
                      /\ w # <<>> => Len(w) = 1 /\ w[1] = c
                      /\ w = <<>> => Len(w) = 0
    OBVIOUS
  <2>1. CASE w = <<>> BY <2>1, NothingIn
  <2>2. CASE w = <<c>>
    <3>1. <<c>> \in Seq(Ops) /\ Len(<<c>>) = 1 /\ <<c>>[1] = c OBVIOUS
    <3> QED BY <3>1, <2>2, NothingIn
  <2> QED BY <2>1, <2>2
<1>2. /\ u \in Seq(Ops) /\ (u # <<>> => Len(u) = 1 /\ u[1] = a)
      /\ u = <<>> => Len(u) = 0
  BY <1>0
<1>3. /\ v \in Seq(Ops) /\ (v # <<>> => Len(v) = 1 /\ v[1] = b)
      /\ v = <<>> => Len(v) = 0
  BY <1>0
<1>4. PICK m, n : m = Len(u) /\ n = Len(v) OBVIOUS
<1>5. /\ d \in Seq(Ops) /\ DOMAIN d = 1..(m + n)
      /\ \A i \in 1..m : i \in DOMAIN d /\ d[i] = u[i]
      /\ \A i \in 1..n : m + i \in DOMAIN d /\ d[m + i] = v[i]
  BY <1>2, <1>3, <1>4, Joined
<1>6. CASE u # <<>> /\ v # <<>>
  <2>1. m = 1 /\ n = 1 /\ DOMAIN d = 1..2 BY <1>2, <1>3, <1>4, <1>5, <1>6
  <2>2. d[1] = a /\ d[1 + 1] = b BY <2>1, <1>2, <1>3, <1>5, <1>6
  <2>3. DOMAIN d = {1, 2} /\ d[2] = b BY <2>1, <2>2
  <2>4. \A i, j \in {1, 2} : i < j => i = 1 /\ j = 2 OBVIOUS
  <2>5. \A j \in DOMAIN d : d[j] = a \/ d[j] = b BY <2>2, <2>3
  <2>6. \A i, j \in DOMAIN d : i < j => d[i] = a /\ d[j] = b BY <2>2, <2>3, <2>4
  <2>7. (\E j \in DOMAIN d : d[j] = a) /\ (\E j \in DOMAIN d : d[j] = b) BY <2>2, <2>3
  <2> QED BY <2>5, <2>6, <2>7, <1>5, <1>6 DEF AtMost
<1>7. CASE u # <<>> /\ v = <<>>
  <2>1. m = 1 /\ n = 0 /\ DOMAIN d = 1..1 BY <1>2, <1>3, <1>4, <1>5, <1>7
  <2>2. d[1] = a BY <2>1, <1>2, <1>5, <1>7
  <2> QED BY <2>1, <2>2, <1>5, <1>7 DEF AtMost
<1>8. CASE u = <<>> /\ v # <<>>
  <2>1. m = 0 /\ n = 1 /\ DOMAIN d = 1..1 BY <1>2, <1>3, <1>4, <1>5, <1>8
  <2>2. d[0 + 1] = b BY <2>1, <1>3, <1>5, <1>8
  <2> QED BY <2>1, <2>2, <1>5, <1>8 DEF AtMost
<1>9. CASE u = <<>> /\ v = <<>>
  <2>1. DOMAIN d = 1..0 BY <1>2, <1>3, <1>4, <1>5, <1>9
  <2> QED BY <2>1, <1>5, <1>9 DEF AtMost
<1> QED BY <1>6, <1>7, <1>8, <1>9

\* What handleNep5Tx does with a transaction, as one addition to the queue.
LEMMA HandleAdds ==
  ASSUME OrderInv, Handle, NEW h, h = Head(nep5TxChan), NEW d, todo' = d, d \in Seq(Ops),
         MeantGrows,
         \A j \in DOMAIN d : d[j].tx = h /\ d[j] \in Ops,
         \A i, j \in DOMAIN d : i < j => Before(d[i], d[j])
  PROVE  Adds(h, d)
<1>1. /\ \A t : Taken(t)' <=> Taken(t) \/ t = h
      /\ Relevant(h) /\ todo = <<>>
      /\ \A t : Taken(t) => t <= h
      /\ \A s : Relevant(s) /\ s < h => Taken(s)
  BY HandleFrame
<1>2. UNCHANGED <<chain, nextTxPK, storeChan, dbVars, cut, dropped>> BY DEF Handle, fetchVars
<1> QED BY <1>1, <1>2 DEF Adds

\* What keeps the order, once the operations fit.
LEMMA HandleOrder ==
  ASSUME OrderInv, Handle, NEW h, h = Head(nep5TxChan), NEW d, Adds(h, d),
         asked' \in Seq(Hashes), \A i, j \in DOMAIN asked' : asked'[i] = asked'[j] => i = j,
         known' \subseteq DOMAIN nep5, \A i \in known' : IdGiven(i)',
         applogIdx' = applogIdx,
         \/ called' = 0 /\ ~Resuming
         \/ called' = h /\ chain[h].kind = "call",
         Registering(h) => HasId(chain[h].hash)',
         \A j \in DOMAIN d : \A r : r = d[j] => OpFits(r)' /\ Behind(r)
  PROVE  OrderInv'
<1>1. /\ LogPlaces' /\ ScanOrder'
      /\ \A t : Taken(t)' <=> Taken(t) \/ t = h
      /\ nep5TxChan' \in Seq(Ids) /\ Len(nep5TxChan') <= ChanSize
      /\ h \in Ids /\ h \in Nat \ {0} /\ Relevant(h)
      /\ \A t : Taken(t) => t < h /\ t <= h /\ t # h
      /\ Resuming => h = counter[1] /\ chain[h].kind = "call"
      /\ ~Resuming => counter[1] < h /\ applogIdx = -1
      /\ called = 0 /\ todo = <<>>
  BY HandleFrame
<1>2. /\ UNCHANGED <<chain, fetchVars, logVars, storeChan, dbVars, addrVars, cut, dropped,
                     crashes>>
      /\ todo' = d /\ d \in Seq(Ops) /\ MeantGrows
  BY DEF Handle, Adds
<1>3. txMax' = txMax /\ chain' = chain /\ counter' = counter
  BY <1>2 DEF txMax, dbVars
<1>4. /\ counter[1] \in Nat /\ counter[2] \in Int /\ applogIdx \in Int /\ txMax \in Nat
      /\ chain \in Seq(Txs) /\ txMax <= MaxTx /\ MaxTx \in Nat
  BY TypesFacts DEF OrderInv
<1>5. Types'
  <2>1. called' \in 0..MaxTx BY <1>1, <1>4 DEF Ids
  <2>2. /\ nextTxPK' = nextTxPK /\ page' = page /\ waiting' = waiting
        /\ applogChan' = applogChan /\ hand' = hand /\ appLogs' = appLogs
        /\ storeChan' = storeChan /\ nep5' = nep5 /\ nep5Tx' = nep5Tx
        /\ migrations' = migrations /\ addrTx' = addrTx
        /\ addrTxPk' = addrTxPk /\ cut' = cut /\ dropped' = dropped /\ crashes' = crashes
    BY <1>2 DEF fetchVars, logVars, dbVars, addrVars
  <2>3. meant' \subseteq Hashes \X DOMAIN nep5 BY <1>2 DEF MeantGrows
  <2>4. TypeOK' BY <2>1, <2>2, <2>3, <1>1, <1>3 DEF OrderInv, Types, TypeOK
  <2> QED BY <2>2, <2>4, <1>2, <1>3 DEF OrderInv, Types
<1>6. Len(chain[h].log) \in Nat /\ h \in 1..txMax
  <2>1. h \in 1..txMax BY <1>1 DEF Relevant
  <2> QED BY <2>1, <1>4, TxFacts
<1>7. CallInHand'
  <2> SUFFICES ASSUME called' # 0 PROVE CallInHand'
    BY DEF CallInHand
  <2>1. called' = h /\ chain[h].kind = "call" BY <1>1
  <2>2. Taken(h)' BY <1>1
  <2>3. \A s \in Ids : Taken(s)' => s <= h
    <3>1. h <= h BY <1>1
    <3> QED BY <3>1, <1>1
  <2>4. applogIdx < Len(chain[h].log)
    <3>1. CASE Resuming BY <3>1, <1>1 DEF OrderInv, CounterPlace, Resuming
    <3>2. CASE ~Resuming BY <3>2, <1>1, <1>6
    <3> QED BY <3>1, <3>2
  <2>5. h = counter[1] => counter[2] # -1 /\ counter[2] <= applogIdx
    <3> HAVE h = counter[1]
    <3>1. Resuming BY <1>1
    <3> QED BY <3>1, <1>4 DEF Resuming
  <2> QED BY <2>1, <2>2, <2>3, <2>4, <2>5, <1>3 DEF CallInHand
<1>8. CounterPlace'
  <2>0. PICK k : k = counter[1] OBVIOUS
  <2>1. k # 0 => Taken(k)'
    <3>1. Taken(k) \/ Resuming => Taken(k)' BY <2>0, <1>1
    <3> QED BY <3>1, <2>0 DEF OrderInv, CounterPlace
  <2>2. called' = 0 => applogIdx = -1 BY <1>1
  <2>3. /\ counter[1] = 0 => counter[2] = -1
        /\ counter[2] # -1 => /\ chain[counter[1]].kind = "call"
                              /\ counter[2] < Len(chain[counter[1]].log)
    BY DEF OrderInv, CounterPlace
  <2> QED BY <2>0, <2>1, <2>2, <2>3, <1>3 DEF CounterPlace
<1>9. /\ \A n \in DOMAIN Queue :
           /\ Queue[n] \in Ops /\ Taken(Queue[n].tx)
           /\ OpFits(Queue[n]) /\ Behind(Queue[n])
  BY AddsQueue
<1>10. /\ \A t : Registering(t)' <=> Registering(t)
       /\ \A x : HasId(x) => HasId(x)'
       /\ \A i : IdGiven(i) => IdGiven(i)'
       /\ Ids \subseteq Nat \ {0}
  BY AddsSame
<1>11. ASSUME NEW n \in DOMAIN Queue, NEW r, r = Queue[n]
       PROVE  OpFits(r)' /\ r.tx < h
  <2>1. r \in Ops /\ Taken(r.tx) /\ OpFits(r) BY <1>9, <1>11
  <2>2. r.tx \in Nat \ {0} /\ r.tx < h /\ r.tx # h
    <3>1. r.tx \in Ids BY <2>1 DEF Ops
    <3> QED BY <3>1, <2>1, <1>1, <1>10
  <2>3. r.tx # called' BY <2>2
  <2>4. Taken(r.tx)' BY <2>1, <1>1
  <2>5. OpFits(r)'
    BY <2>1, <2>3, <2>4, <1>2, <1>3, <1>10 DEF OpFits, MeantGrows
  <2> QED BY <2>2, <2>5
<1>12. \A n \in DOMAIN Queue, j \in DOMAIN d : Before(Queue[n], d[j])
  <2>1. \A j \in DOMAIN d : d[j].tx = h BY DEF Adds
  <2> QED BY <2>1, <1>11 DEF Before
<1>13. QueueOrder' /\ RowsInOrder' BY <1>11, <1>12, AddsOrder
<1>14. IdsGiven'
  <2>1. nep5' = nep5 BY <1>2 DEF dbVars
  <2>2. ASSUME NEW t \in Ids, Taken(t)', Registering(t)' PROVE HasId(chain[t].hash)'
    <3>1. CASE t = h BY <3>1, <2>2, <1>3, <1>10
    <3>2. CASE Taken(t)
      <4>1. HasId(chain[t].hash) BY <3>2, <2>2, <1>10 DEF OrderInv, IdsGiven
      <4>2. PICK x : x = chain[t].hash OBVIOUS
      <4>3. HasId(x)' BY <4>1, <4>2, <1>10
      <4> QED BY <4>2, <4>3, <1>3
    <3> QED BY <3>1, <3>2, <2>2, <1>1
  <2>3. \A i \in DOMAIN nep5' : nep5'[i] > 0 => IdGiven(i)'
    BY <2>1, <1>10 DEF OrderInv, IdsGiven
  <2>4. Names(asked)' \subseteq meant'
    <3>1. Names(asked)' = Names(asked') BY DEF Names
    <3> QED BY <3>1, <1>2 DEF MeantGrows
  <2> QED BY <2>2, <2>3, <2>4 DEF IdsGiven
<1> QED BY <1>1, <1>5, <1>7, <1>8, <1>13, <1>14 DEF OrderInv

\* What was dropped of the transaction that a restart takes up again lies behind
\* the place where it takes it up.
LEMMA HandleApart ==
  ASSUME OrderInv, DroppedApart, Handle, NEW h, h = Head(nep5TxChan), NEW d, Adds(h, d),
         applogIdx' = applogIdx, called' \in {0, h},
         \A j \in DOMAIN d : d[j].op # "transfer"
  PROVE  DroppedApart'
<1>1. dropped' = dropped BY DEF Handle
<1>2. dropped \subseteq Ids \X Nat BY DEF OrderInv, Types, TypeOK
<1>3. /\ \A t : Taken(t) => t # h
      /\ Resuming => h = counter[1]
      /\ ~Resuming => counter[1] < h
      /\ h \in Nat \ {0}
  BY HandleFrame
<1>4. counter[1] \in Nat /\ counter[2] \in Int /\ applogIdx \in Int
  BY TypesFacts DEF OrderInv
<1>5. ASSUME NEW u \in dropped, u[1] = h PROVE u[2] <= applogIdx
  <2>1. PICK i : i = u[2] OBVIOUS
  <2>2. Done(h, i) BY <2>1, <1>3, <1>5 DEF DroppedApart
  <2>3. CASE Resuming
    <3>1. h = counter[1] /\ counter[2] # -1 /\ applogIdx = counter[2]
      BY <2>3, <1>3 DEF Resuming
    <3> QED BY <3>1, <2>1, <2>2, <1>3, <1>4 DEF Done
  <2>4. CASE ~Resuming BY <2>2, <2>4, <1>3, <1>4 DEF Done
  <2> QED BY <2>3, <2>4
<1> QED BY <1>1, <1>2, <1>5, AddsApart

\* A transaction without a registration, a migration or a call.
LEMMA HandleEmptyStep ==
  ASSUME IInv, Handle, NEW h, h = Head(nep5TxChan), chain[h].kind = "empty", ~Resuming,
         todo' = SetCounter(h), UNCHANGED <<called, applogIdx, asked, known>>
  PROVE  /\ OrderInv' /\ KnownExact' /\ AssetsExact' /\ AssetsOnTheWay'
         /\ TransfersOnTheWay' /\ MigrationsOnTheWay' /\ DroppedApart'
<1>1. /\ \A t : Taken(t)' <=> Taken(t) \/ t = h
      /\ h \in Ids /\ h \in Nat \ {0} /\ Relevant(h) /\ counter[1] < h
      /\ called = 0 /\ todo = <<>>
  BY HandleFrame DEF IInv
<1>2. PICK s, d : s = Op("counter", h, -1, 0) /\ d = <<s>> OBVIOUS
<1>3. Cardinality(Hashes) \in Nat /\ counter[1] \in Nat BY TypesFacts DEF IInv, OrderInv
<1>4. s.op = "counter" /\ s.tx = h /\ s.idx = -1 /\ s.id = 0 BY <1>2 DEF Op
<1>5. s \in Ops BY <1>1, <1>2, <1>3 DEF Op, Ops, OpNames
<1>6. /\ todo' = d /\ d \in Seq(Ops) /\ DOMAIN d = {1} /\ d[1] = s
  BY <1>2, <1>5 DEF SetCounter
<1>7. meant' = meant \cup Names(asked') BY DEF Handle
<1>8. MeantGrows /\ meant' = meant BY <1>7, NamesKept DEF IInv
<1>9. Adds(h, d)
  <2>1. \A i, j \in DOMAIN d : ~(i < j) BY <1>6
  <2> QED BY <2>1, <1>4, <1>5, <1>6, <1>8, HandleAdds DEF IInv
<1>10. ~Registering(h) /\ ~Should(h) BY DEF Registering, Registers, Should
<1>11. chain' = chain BY DEF Handle
<1>12. OpFits(s)' /\ Behind(s)
  <2>1. Taken(s.tx)' BY <1>1, <1>4
  <2> QED BY <2>1, <1>1, <1>4 DEF OpFits, Behind
<1>13. OrderInv'
  <2>1. /\ asked' \in Seq(Hashes)
        /\ \A i, j \in DOMAIN asked' : asked'[i] = asked'[j] => i = j
        /\ known' \subseteq DOMAIN nep5
    BY DEF IInv, OrderInv, Types, TypeOK
  <2>2. \A i \in known' : IdGiven(i)'
    BY <1>8 DEF IInv, OrderInv, IdsGiven, IdGiven
  <2>3. \A j \in DOMAIN d : \A r : r = d[j] => OpFits(r)' /\ Behind(r) BY <1>6, <1>12
  <2> QED BY <2>1, <2>2, <2>3, <1>1, <1>9, <1>10, HandleOrder DEF IInv
<1>14. \A j \in DOMAIN d : d[j].op = "counter" BY <1>4, <1>6
<1>15. KnownExact' /\ AssetsExact' /\ AssetsOnTheWay'
  BY <1>9, <1>10, <1>14, AddsAssets
<1>16. MigrationsOnTheWay' BY <1>9, <1>10, <1>14, AddsMigrations
<1>17. TransfersOnTheWay'
  <2>1. ASSUME NEW i \in Nat, IsTransfer(h, i) PROVE FALSE
    <3>1. h \in 1..txMax BY <1>1 DEF Relevant
    <3>2. Len(chain[h].log) = 0
      <4>1. chain \in Seq(Txs) /\ txMax <= MaxTx BY TypesFacts DEF IInv, OrderInv
      <4> QED BY <4>1, <3>1, TxFacts
    <3>3. i \in 0..(Len(chain[h].log) - 1) BY <2>1 DEF IsTransfer
    <3> QED BY <3>2, <3>3
  <2> QED BY <2>1, <1>1, <1>9, <1>14, AddsTransfers
<1>18. DroppedApart' BY <1>1, <1>9, <1>14, HandleApart DEF IInv
<1> QED BY <1>13, <1>15, <1>16, <1>17, <1>18

\* A registration, a creation or a migration.
LEMMA HandleRegStep ==
  ASSUME IInv, Handle, NEW h, h = Head(nep5TxChan), ~Resuming,
         chain[h].kind \in {"reg", "create", "migrate", "regmigrate"}, HandleReg(h)
  PROVE  /\ OrderInv' /\ KnownExact' /\ AssetsExact' /\ AssetsOnTheWay'
         /\ TransfersOnTheWay' /\ MigrationsOnTheWay' /\ DroppedApart'
<1>1. /\ \A t : Taken(t)' <=> Taken(t) \/ t = h
      /\ h \in Ids /\ h \in Nat \ {0} /\ Relevant(h) /\ counter[1] < h
      /\ called = 0 /\ todo = <<>>
      /\ \A t : Taken(t) => t < h
      /\ \A s : Relevant(s) /\ s < h => Taken(s)
  BY HandleFrame DEF IInv
<1>2. /\ Cardinality(Hashes) \in Nat /\ counter[1] \in Nat /\ h \in 1..txMax
      /\ chain \in Seq(Txs) /\ txMax <= MaxTx /\ DOMAIN nep5 = 1..Cardinality(Hashes)
      /\ 1..txMax \subseteq Ids
  BY <1>1, TypesFacts DEF IInv, OrderInv, Relevant
<1>3. PICK x, r : x = chain[h].hash /\ r = asked' OBVIOUS
<1>4. x \in Hashes /\ chain[h].ok \in BOOLEAN BY <1>2, <1>3, TxFacts
<1>5. asked' = r /\ r = GetAssetId(asked, x) BY <1>3 DEF HandleReg
<1>6. meant' = meant \cup Names(asked') BY DEF Handle
<1>7. PICK id : id = IdOf(r, x) OBVIOUS
<1>8. /\ MeantGrows /\ r \in Seq(Hashes)
      /\ \A i, j \in DOMAIN r : r[i] = r[j] => i = j
      /\ id \in DOMAIN nep5 /\ <<x, id>> \in meant'
      /\ id \in 0..Cardinality(Hashes)
  BY <1>4, <1>5, <1>6, <1>7, NamesGiven DEF IInv
<1>9. PICK u, v, a, b, d :
        /\ u = IF chain[h].ok /\ id \notin known THEN <<a>> ELSE <<>>
        /\ v = IF Migrates(h) \/ chain[h].kind = "create" THEN <<b>> ELSE <<>>
        /\ a = Op("asset", h, -1, id)
        /\ b = IF Migrates(h) /\ IsAsset(h, id) THEN Op("migrate", h, -1, id)
                                                ELSE Op("counter", h, -1, 0)
        /\ d = u \o v
  OBVIOUS
<1>10. /\ known' = IF chain[h].ok /\ id \notin known THEN known \cup {id} ELSE known
       /\ todo' = d /\ called' = called /\ applogIdx' = applogIdx
  <2>2. id = IdOf(asked', chain[h].hash) BY <1>3, <1>7
  <2>3. v = IF Migrates(h)
            THEN IF IsAsset(h, id) THEN <<Op("migrate", h, -1, id)>> ELSE SetCounter(h)
            ELSE IF chain[h].kind = "create" THEN SetCounter(h) ELSE <<>>
    BY <1>9 DEF SetCounter, Migrates
  <2> QED BY <2>2, <2>3, <1>9 DEF HandleReg
<1>11. /\ a \in Ops /\ a.op = "asset" /\ a.tx = h /\ a.idx = -1 /\ a.id = id
       /\ b \in Ops /\ b.tx = h /\ b.idx = -1
       /\ b.op = IF Migrates(h) /\ IsAsset(h, id) THEN "migrate" ELSE "counter"
  BY <1>1, <1>2, <1>8, <1>9 DEF Op, Ops, OpNames
<1>12. /\ d \in Seq(Ops)
       /\ \A j \in DOMAIN d : (u # <<>> /\ d[j] = a) \/ (v # <<>> /\ d[j] = b)
       /\ u # <<>> => \E j \in DOMAIN d : d[j] = a
       /\ v # <<>> => \E j \in DOMAIN d : d[j] = b
       /\ \A i, j \in DOMAIN d : i < j => d[i] = a /\ d[j] = b
  <2>1. u = <<>> \/ u = <<a>> BY <1>9
  <2>2. v = <<>> \/ v = <<b>> BY <1>9
  <2>3. a \in Ops /\ b \in Ops /\ d = u \o v BY <1>9, <1>11
  <2>4. AtMost(a, b, u, v, d) BY <2>1, <2>2, <2>3, OneOrTwo
  <2> QED BY <2>4 DEF AtMost
<1>13. Adds(h, d)
  <2>1. Before(a, b) BY <1>11 DEF Before
  <2>2. \A j \in DOMAIN d : d[j].tx = h /\ d[j] \in Ops BY <1>11, <1>12
  <2>3. \A i, j \in DOMAIN d : i < j => Before(d[i], d[j]) BY <2>1, <1>12
  <2> QED BY <2>2, <2>3, <1>8, <1>10, <1>12, HandleAdds DEF IInv
<1>14. /\ Registering(h) <=> chain[h].ok
       /\ \A s : Registering(s)' <=> Registering(s)
       /\ chain' = chain
  BY AddsSame, <1>13 DEF IInv, Registering, Registers
<1>15. /\ u # <<>> <=> Registering(h) /\ id \notin known
       /\ Registering(h) => known' = known \cup {id}
       /\ ~Registering(h) => known' = known
  BY <1>9, <1>10, <1>14
<1>16. OrderInv'
  <2>1. known' \subseteq DOMAIN nep5
    <3>1. known \subseteq DOMAIN nep5 BY DEF IInv, OrderInv, Types, TypeOK
    <3> QED BY <3>1, <1>8, <1>10
  <2>2. ASSUME NEW i \in known' PROVE IdGiven(i)'
    <3>1. CASE i = id BY <3>1, <1>4, <1>8 DEF IdGiven
    <3>2. CASE i \in known
      <4>1. IdGiven(i) BY <3>2 DEF IInv, OrderInv, IdsGiven
      <4> QED BY <4>1, <1>13, AddsSame DEF IInv
    <3> QED BY <3>1, <3>2, <2>2, <1>10
  <2>3. HasId(chain[h].hash)'
    <3>1. nep5' = nep5 BY DEF Handle, dbVars
    <3>2. HasId(x)' BY <3>1, <1>8 DEF HasId
    <3> QED BY <3>2, <1>3, <1>14
  <2>4. Taken(h)' BY <1>1
  <2>5. u # <<>> => OpFits(a)' /\ Behind(a)
    <3> HAVE u # <<>>
    <3>1. Taken(a.tx)' BY <2>4, <1>11
    <3>2. <<chain'[a.tx].hash, a.id>> \in meant' BY <1>3, <1>8, <1>11, <1>14
    <3>3. Registering(a.tx)' BY <1>11, <1>14, <1>15
    <3> QED BY <3>1, <3>2, <3>3, <1>1, <1>11 DEF OpFits, Behind
  <2>6. v # <<>> => OpFits(b)' /\ Behind(b)
    <3> HAVE v # <<>>
    <3>1. Taken(b.tx)' BY <2>4, <1>11
    <3>2. b.tx # called' BY <1>1, <1>10, <1>11
    <3>3. b.op = "migrate" => chain'[b.tx].kind \in {"migrate", "regmigrate"}
      BY <1>11, <1>14 DEF Migrates
    <3>4. b.op \in {"migrate", "counter"} BY <1>11
    <3> QED BY <3>1, <3>2, <3>3, <3>4, <1>1, <1>11 DEF OpFits, Behind
  <2>7. \A j \in DOMAIN d : \A q : q = d[j] => OpFits(q)' /\ Behind(q)
    BY <2>5, <2>6, <1>12
  <2> QED BY <2>1, <2>2, <2>3, <2>7, <1>1, <1>5, <1>8, <1>10, <1>13, HandleOrder DEF IInv
<1>17. KnownExact' /\ AssetsExact' /\ AssetsOnTheWay'
  <2>1. \A j \in DOMAIN d : d[j].op = "asset" => Registering(h) /\ id \notin known
    BY <1>11, <1>12, <1>15
  <2>2. id \notin known /\ Registering(h) => \E j \in DOMAIN d : d[j].op = "asset"
    BY <1>11, <1>12, <1>15
  <2>3. <<chain[h].hash, id>> \in meant' BY <1>3, <1>8
  <2> QED BY <2>1, <2>2, <2>3, <1>13, <1>15, AddsAssets
<1>18. ASSUME IdsStable' PROVE Should(h) <=> Migrates(h) /\ IsAsset(h, id)
  <2>1. \A p \in meant' : p[2] \in known <=> TakenRegisters(p[1])
    BY <1>8, <1>18, NamesExact DEF IInv
  <2>2. id \in known <=> TakenRegisters(x)
    <3>1. PICK q : q = <<x, id>> OBVIOUS
    <3>2. q \in meant' /\ q[1] = x /\ q[2] = id BY <3>1, <1>8
    <3> QED BY <3>2, <2>1
  <2>3. TakenRegisters(x) => \E s \in 1..h : Registers(s, x)
    <3> SUFFICES ASSUME NEW s \in Ids, Taken(s), Registers(s, x)
                 PROVE  s \in 1..h
      BY DEF TakenRegisters
    <3>1. s < h BY <1>1
    <3> QED BY <3>1, <1>1 DEF Ids
  <2>4. ASSUME NEW s \in 1..h, Registers(s, x) PROVE chain[h].ok \/ TakenRegisters(x)
    <3>1. CASE s = h BY <3>1, <2>4 DEF Registers
    <3>2. CASE s # h
      <4>0. s < h /\ s \in 1..txMax
        <5>1. txMax \in Nat /\ h \in 1..txMax BY <1>2, TypesFacts DEF IInv, OrderInv
        <5> QED BY <5>1, <3>2
      <4>1. s < h /\ s \in 1..txMax /\ s \in Ids BY <4>0, <1>2
      <4>2. Taken(s) BY <4>1, <2>4, <1>1, RegistersRelevant
      <4> QED BY <4>1, <4>2, <2>4 DEF TakenRegisters
    <3> QED BY <3>1, <3>2
  <2>5. chain[h].ok => \E s \in 1..h : Registers(s, x)
    <3>1. h \in 1..h BY <1>1
    <3> QED BY <3>1, <1>3, <1>14 DEF Registering
  <2> QED BY <2>2, <2>3, <2>4, <2>5, <1>3 DEF Should, Migrates, IsAsset
<1>19. MigrationsOnTheWay'
  <2>1. IdsStable' => /\ \A j \in DOMAIN d : d[j].op = "migrate" => Should(h) /\ h > counter[1]
                      /\ Should(h) => \E j \in DOMAIN d : d[j].op = "migrate"
    <3> HAVE IdsStable'
    <3>1. Should(h) <=> Migrates(h) /\ IsAsset(h, id) BY <1>18
    <3>2. h > counter[1] BY <1>1, <1>2
    <3>3. \A j \in DOMAIN d : d[j].op = "migrate" => Migrates(h) /\ IsAsset(h, id)
      BY <1>11, <1>12
    <3>4. Migrates(h) => v # <<>> BY <1>9
    <3>5. Migrates(h) /\ IsAsset(h, id) => \E j \in DOMAIN d : d[j].op = "migrate"
      BY <3>4, <1>11, <1>12
    <3> QED BY <3>1, <3>2, <3>3, <3>5
  <2> QED BY <2>1, <1>13, AddsMigrations
<1>20. TransfersOnTheWay'
  <2>1. ASSUME NEW i \in Nat, IsTransfer(h, i) PROVE FALSE
    <3>1. Len(chain[h].log) = 0 BY <1>2, TxFacts
    <3>2. i \in 0..(Len(chain[h].log) - 1) BY <2>1 DEF IsTransfer
    <3> QED BY <3>1, <3>2
  <2>2. \A j \in DOMAIN d : d[j].op # "transfer" BY <1>11, <1>12
  <2> QED BY <2>1, <2>2, <1>1, <1>13, AddsTransfers
<1>21. DroppedApart'
  <2>1. \A j \in DOMAIN d : d[j].op # "transfer" BY <1>11, <1>12
  <2> QED BY <2>1, <1>1, <1>10, <1>13, HandleApart DEF IInv
<1> QED BY <1>16, <1>17, <1>19, <1>20, <1>21

\* handleNep5NonTxCall takes a call in hand.
LEMMA HandleCallStep ==
  ASSUME IInv, Handle, NEW h, h = Head(nep5TxChan), chain[h].kind = "call", HandleCall(h)
  PROVE  /\ OrderInv' /\ KnownExact' /\ AssetsExact' /\ AssetsOnTheWay'
         /\ TransfersOnTheWay' /\ MigrationsOnTheWay' /\ DroppedApart'
<1>1. /\ \A t : Taken(t)' <=> Taken(t) \/ t = h
      /\ h \in Ids /\ h \in Nat \ {0} /\ Relevant(h)
      /\ Resuming => h = counter[1]
      /\ ~Resuming => counter[1] < h /\ applogIdx = -1
      /\ called = 0 /\ todo = <<>>
  BY HandleFrame DEF IInv
<1>2. /\ Cardinality(Hashes) \in Nat /\ counter[1] \in Nat /\ h \in 1..txMax
      /\ counter[2] \in Int /\ applogIdx \in Int
      /\ chain \in Seq(Txs) /\ txMax <= MaxTx /\ DOMAIN nep5 = 1..Cardinality(Hashes)
  BY <1>1, TypesFacts DEF IInv, OrderInv, Relevant
<1>3. PICK x, r, id : x = chain[h].hash /\ r = asked' /\ id = IdOf(r, x) OBVIOUS
<1>4. x \in Hashes \cup {NoHash} BY <1>2, <1>3, TxFacts
<1>5. asked' = r /\ r = IF x = NoHash THEN asked ELSE GetAssetId(asked, x)
  BY <1>3 DEF HandleCall
<1>6. meant' = meant \cup Names(asked') BY DEF Handle
<1>7. /\ MeantGrows /\ r \in Seq(Hashes)
      /\ \A i, j \in DOMAIN r : r[i] = r[j] => i = j
      /\ x # NoHash => id \in 0..Cardinality(Hashes)
  <2>1. CASE x = NoHash
    BY <2>1, <1>5, <1>6, NamesKept DEF IInv, OrderInv, Types, TypeOK
  <2>2. CASE x # NoHash
    <3>1. x \in Hashes /\ r = GetAssetId(asked, x) BY <2>2, <1>4, <1>5
    <3> QED BY <3>1, <1>3, <1>5, <1>6, NamesGiven DEF IInv
  <2> QED BY <2>1, <2>2
<1>8. PICK p, s, d : /\ p = (x # NoHash /\ chain[h].ok /\ id \in known)
                     /\ s = Op("balance", h, -1, id)
                     /\ d = IF p THEN <<s>> ELSE <<>>
  OBVIOUS
<1>9. todo' = d /\ called' = h /\ applogIdx' = applogIdx /\ known' = known
  BY <1>3, <1>8 DEF HandleCall
<1>10. p => s \in Ops /\ s.op = "balance" /\ s.tx = h /\ s.idx = -1
  <2> HAVE p
  <2>1. id \in 0..Cardinality(Hashes) /\ h \in Ids BY <1>1, <1>7, <1>8
  <2>2. s = [op |-> "balance", tx |-> h, idx |-> -1, id |-> id] BY <1>8 DEF Op
  <2>3. -1 \in Int /\ "balance" \in OpNames BY DEF OpNames
  <2> QED BY <2>1, <2>2, <2>3 DEF Ops
<1>11. /\ d \in Seq(Ops) /\ \A j \in DOMAIN d : j = 1 /\ p /\ d[j] = s
  <2>1. CASE p
    <3>1. d = <<s>> /\ s \in Ops BY <2>1, <1>8, <1>10
    <3>2. d \in Seq(Ops) /\ DOMAIN d = {1} /\ d[1] = s BY <3>1
    <3> QED BY <3>2, <2>1
  <2>2. CASE ~p
    <3>1. d = <<>> BY <2>2, <1>8
    <3> QED BY <3>1
  <2> QED BY <2>1, <2>2
<1>12. Adds(h, d)
  <2>1. \A j \in DOMAIN d : d[j].tx = h /\ d[j] \in Ops BY <1>10, <1>11
  <2>2. \A i, j \in DOMAIN d : ~(i < j)
    <3>1. \A i, j \in DOMAIN d : i = 1 /\ j = 1 BY <1>11
    <3> QED BY <3>1
  <2> QED BY <2>1, <2>2, <1>7, <1>9, <1>11, HandleAdds DEF IInv
<1>13. ~Registering(h) /\ ~Should(h) BY DEF Registering, Registers, Should
<1>14. chain' = chain BY DEF Handle
<1>15. OrderInv'
  <2>1. known' \subseteq DOMAIN nep5 BY <1>9 DEF IInv, OrderInv, Types, TypeOK
  <2>2. ASSUME NEW i \in known' PROVE IdGiven(i)'
    <3>1. IdGiven(i) BY <2>2, <1>9 DEF IInv, OrderInv, IdsGiven
    <3> QED BY <3>1, <1>12, AddsSame DEF IInv
  <2>3. p => OpFits(s)' /\ Behind(s)
    <3> HAVE p
    <3>1. Taken(s.tx)' /\ chain'[s.tx].kind = "call" BY <1>1, <1>10, <1>14
    <3>2. Behind(s)
      <4>1. CASE Resuming
        <5>1. s.tx = counter[1] /\ counter[2] # -1 BY <4>1, <1>1, <1>10 DEF Resuming
        <5> QED BY <5>1, <1>10 DEF Behind
      <4>2. CASE ~Resuming BY <4>2, <1>1, <1>10 DEF Behind
      <4> QED BY <4>1, <4>2
    <3> QED BY <3>1, <3>2, <1>10 DEF OpFits
  <2>4. \A j \in DOMAIN d : \A q : q = d[j] => OpFits(q)' /\ Behind(q)
    BY <2>3, <1>11
  <2> QED BY <2>1, <2>2, <2>4, <1>5, <1>7, <1>9, <1>12, <1>13, HandleOrder DEF IInv
<1>16. \A j \in DOMAIN d : d[j].op = "balance" BY <1>10, <1>11
<1>17. KnownExact' /\ AssetsExact' /\ AssetsOnTheWay'
  BY <1>9, <1>12, <1>13, <1>16, AddsAssets
<1>18. MigrationsOnTheWay' BY <1>12, <1>13, <1>16, AddsMigrations
<1>19. TransfersOnTheWay'
  <2>1. ASSUME NEW i \in Nat, ~Done(h, i) PROVE h = called' /\ i > applogIdx'
    <3>1. CASE ~Resuming BY <3>1, <1>1, <1>9
    <3>2. CASE Resuming
      <4>1. h = counter[1] /\ counter[2] # -1 /\ applogIdx = counter[2]
        BY <3>2, <1>1 DEF Resuming
      <4>2. ~(i <= counter[2]) BY <4>1, <2>1 DEF Done
      <4> QED BY <4>1, <4>2, <1>2, <1>9
    <3> QED BY <3>1, <3>2
  <2> QED BY <2>1, <1>1, <1>12, <1>16, AddsTransfers
<1>20. DroppedApart' BY <1>9, <1>12, <1>16, HandleApart DEF IInv
<1> QED BY <1>15, <1>17, <1>18, <1>19, <1>20

\* Every transaction that handleNep5Tx takes.
LEMMA HandleStep ==
  ASSUME IInv, Handle
  PROVE  /\ OrderInv' /\ KnownExact' /\ AssetsExact' /\ AssetsOnTheWay'
         /\ TransfersOnTheWay' /\ MigrationsOnTheWay' /\ DroppedApart'
BY HandleCases, HandleEmptyStep, HandleRegStep, HandleCallStep DEF IInv
-----------------------------------------------------------------------------
(* handleNep5Tx goes through the notifications of a call. *)

LEMMA TransferFrame ==
  ASSUME OrderInv, HandleTransfer, NEW h, h = called
  PROVE  /\ LogPlaces' /\ ScanOrder'
         /\ \A t : Taken(t)' <=> Taken(t)
         /\ h \in Ids /\ h \in Nat \ {0} /\ Relevant(h) /\ Taken(h) /\ h \in 1..txMax
         /\ chain[h].kind = "call" /\ ~Registering(h) /\ ~Should(h)
         /\ Len(chain[h].log) \in Nat /\ applogIdx < Len(chain[h].log)
         /\ applogIdx \in Int /\ applogIdx >= -1 /\ counter[1] \in Nat /\ counter[2] \in Int
         /\ \A t : Taken(t) => t <= h
         /\ \A s : Relevant(s) /\ s < h => Taken(s)
         /\ ~Resuming /\ todo = <<>> /\ counter[1] <= h
         /\ counter[1] # 0 => Taken(counter[1])
         /\ h = counter[1] => counter[2] # -1 /\ counter[2] <= applogIdx
         /\ \A n \in DOMAIN Queue :
              /\ Queue[n] \in Ops /\ Queue[n].tx \in Nat \ {0} /\ Queue[n].tx <= h
              /\ Queue[n].idx \in Int
              /\ Queue[n].tx = h => /\ Queue[n].op \in {"balance", "transfer"}
                                    /\ Queue[n].op = "transfer" => Queue[n].idx <= applogIdx
<1>1. /\ called # 0 /\ todo = <<>>
      /\ UNCHANGED <<chain, fetchVars, logVars, nep5TxChan>>
  BY DEF HandleTransfer
<1>2. TakenSame /\ ScanSame BY <1>1 DEF TakenSame, Ahead, ScanSame, fetchVars
<1>3. \A t : Taken(t)' <=> Taken(t) BY <1>2, SameTaken
<1>4. LogPlaces' BY <1>2, SamePlaces DEF OrderInv
<1>5. ScanOrder' BY <1>1, <1>2, SameScan DEF OrderInv, fetchVars
<1>6. /\ Taken(h) /\ chain[h].kind = "call" /\ applogIdx < Len(chain[h].log)
      /\ \A s \in Ids : Taken(s) => s <= h
      /\ h = counter[1] => counter[2] # -1 /\ counter[2] <= applogIdx
  BY <1>1 DEF OrderInv, CallInHand
<1>7. /\ chain \in Seq(Txs) /\ txMax <= MaxTx /\ txMax \in Nat /\ Ids \subseteq Nat \ {0}
      /\ 1..txMax \subseteq Ids /\ storeChan \in Seq(Ops) /\ todo \in Seq(Ops)
      /\ applogIdx \in Int /\ applogIdx >= -1 /\ counter[1] \in Nat /\ counter[2] \in Int
  BY TypesFacts DEF OrderInv
<1>8. Relevant(h) /\ h \in 1..txMax /\ h \in Ids /\ h \in Nat \ {0}
  BY <1>6, <1>7 DEF Taken, Relevant
<1>9. Len(chain[h].log) \in Nat BY <1>7, <1>8, TxFacts
<1>10. ASSUME NEW t, Taken(t) PROVE t <= h
  <2>1. t \in Ids BY <1>10, <1>7 DEF Taken, Relevant
  <2> QED BY <2>1, <1>6, <1>10
<1>11. ASSUME NEW s, Relevant(s), s < h PROVE Taken(s)
  <2>1. s \in Nat BY <1>11, <1>7 DEF Relevant
  <2>2. s <= h BY <2>1, <1>8, <1>11
  <2> QED BY <2>2, <1>6, <1>11, TakenBelow
<1>12. ~Resuming /\ (counter[1] # 0 => Taken(counter[1])) BY <1>1, InTheMiddle
<1>13. counter[1] <= h BY <1>7, <1>8, <1>10, <1>12
<1>14. ~Registering(h) /\ ~Should(h) BY <1>6 DEF Registering, Registers, Should
<1>15. ASSUME NEW n \in DOMAIN Queue
       PROVE  /\ Queue[n] \in Ops /\ Queue[n].tx \in Nat \ {0} /\ Queue[n].tx <= h
              /\ Queue[n].idx \in Int
              /\ Queue[n].tx = h => /\ Queue[n].op \in {"balance", "transfer"}
                                    /\ Queue[n].op = "transfer" => Queue[n].idx <= applogIdx
  <2>1. PICK r : r = Queue[n] OBVIOUS
  <2>2. r \in Ops /\ r.op \in OpNames /\ r.tx \in Ids /\ r.idx \in Int
    BY <2>1, <1>7, QueueIsSeq
  <2>3. OpFits(r) BY <2>1 DEF OrderInv, QueueOrder
  <2>4. r.tx <= h BY <2>3, <1>10 DEF OpFits
  <2>5. r.tx = h => /\ r.op \in {"balance", "transfer"}
                    /\ r.op = "transfer" => r.idx <= applogIdx
    BY <2>2, <2>3, <1>6, <1>14 DEF OpFits, OpNames
  <2> QED BY <2>1, <2>2, <2>4, <2>5, <1>7
<1> QED BY <1>1, <1>3, <1>4, <1>5, <1>6, <1>7, <1>8, <1>9, <1>10, <1>11, <1>12, <1>13,
           <1>14, <1>15

\* It adds one operation at most.
LEMMA TransferAdds ==
  ASSUME OrderInv, HandleTransfer, NEW h, h = called, NEW d, NEW s \in Ops, s.tx = h,
         todo' = d, d = <<>> \/ d = <<s>>, MeantGrows
  PROVE  Adds(h, d) /\ \A j \in DOMAIN d : d = <<s>> /\ d[j] = s
<1>1. d \in Seq(Ops) /\ \A j \in DOMAIN d : j = 1 /\ d = <<s>> /\ d[j] = s
  <2>1. CASE d = <<>> BY <2>1
  <2>2. CASE d = <<s>>
    <3>1. d \in Seq(Ops) /\ DOMAIN d = {1} /\ d[1] = s BY <2>2
    <3> QED BY <3>1, <2>2
  <2> QED BY <2>1, <2>2
<1>2. \A i, j \in DOMAIN d : ~(i < j)
  <2>1. \A i, j \in DOMAIN d : i = 1 /\ j = 1 BY <1>1
  <2> QED BY <2>1
<1>3. /\ \A t : Taken(t)' <=> Taken(t)
      /\ Relevant(h) /\ Taken(h) /\ todo = <<>>
      /\ \A t : Taken(t) => t <= h
      /\ \A t : Relevant(t) /\ t < h => Taken(t)
  BY TransferFrame
<1>4. UNCHANGED <<chain, nextTxPK, storeChan, dbVars, cut>>
  BY DEF HandleTransfer, fetchVars
<1>5. dropped \subseteq dropped' BY DEF HandleTransfer
<1> QED BY <1>1, <1>2, <1>3, <1>4, <1>5 DEF Adds

\* A transfer goes behind all that is queued, those of its call included.
LEMMA TransferOrder ==
  ASSUME OrderInv, HandleTransfer, NEW h, h = called, NEW d, Adds(h, d),
         asked' \in Seq(Hashes), \A i, j \in DOMAIN asked' : asked'[i] = asked'[j] => i = j,
         dropped' \subseteq Ids \X Nat,
         \/ called' = h /\ applogIdx' = applogIdx + 1 /\ applogIdx + 1 < Len(chain[h].log)
         \/ called' = 0 /\ applogIdx' = -1,
         \A j \in DOMAIN d : \A r : r = d[j] => OpFits(r)' /\ Behind(r),
         \A j \in DOMAIN d : \/ d[j].op = "transfer" /\ d[j].idx = applogIdx + 1
                             \/ d[j].op = "counter"
  PROVE  OrderInv'
<1>1. /\ LogPlaces' /\ ScanOrder'
      /\ \A t : Taken(t)' <=> Taken(t)
      /\ h \in Ids /\ h \in Nat \ {0} /\ Taken(h)
      /\ chain[h].kind = "call"
      /\ applogIdx \in Int /\ applogIdx >= -1 /\ counter[1] \in Nat /\ counter[2] \in Int
      /\ \A t : Taken(t) => t <= h
      /\ counter[1] # 0 => Taken(counter[1])
      /\ h = counter[1] => counter[2] # -1 /\ counter[2] <= applogIdx
      /\ \A n \in DOMAIN Queue :
           /\ Queue[n] \in Ops /\ Queue[n].tx \in Nat \ {0} /\ Queue[n].tx <= h
           /\ Queue[n].idx \in Int
           /\ Queue[n].tx = h => /\ Queue[n].op \in {"balance", "transfer"}
                                 /\ Queue[n].op = "transfer" => Queue[n].idx <= applogIdx
  BY TransferFrame
<1>2. /\ UNCHANGED <<chain, fetchVars, logVars, nep5TxChan, known, storeChan, dbVars,
                     addrVars, cut, crashes>>
      /\ todo' = d /\ d \in Seq(Ops) /\ MeantGrows
  BY DEF HandleTransfer, Adds
<1>3. txMax' = txMax /\ chain' = chain /\ counter' = counter
  BY <1>2 DEF txMax, dbVars
<1>4. MaxTx \in Nat BY Nep5Bounds
<1>5. Types'
  <2>1. called' \in 0..MaxTx BY <1>1, <1>4 DEF Ids
  <2>2. /\ nextTxPK' = nextTxPK /\ page' = page /\ waiting' = waiting
        /\ applogChan' = applogChan /\ hand' = hand /\ appLogs' = appLogs
        /\ storeChan' = storeChan /\ nep5' = nep5 /\ nep5Tx' = nep5Tx
        /\ migrations' = migrations /\ addrTx' = addrTx /\ nep5TxChan' = nep5TxChan
        /\ addrTxPk' = addrTxPk /\ cut' = cut /\ crashes' = crashes /\ known' = known
    BY <1>2 DEF fetchVars, logVars, dbVars, addrVars
  <2>3. meant' \subseteq Hashes \X DOMAIN nep5 BY <1>2 DEF MeantGrows
  <2>4. applogIdx' \in Int /\ applogIdx' >= -1 BY <1>1
  <2>5. TypeOK' BY <2>1, <2>2, <2>3, <2>4, <1>3 DEF OrderInv, Types, TypeOK
  <2> QED BY <2>2, <2>4, <2>5, <1>2, <1>3 DEF OrderInv, Types
<1>6. CallInHand'
  <2> SUFFICES ASSUME called' # 0 PROVE CallInHand'
    BY DEF CallInHand
  <2>1. called' = h /\ applogIdx' = applogIdx + 1 /\ applogIdx' < Len(chain[h].log)
    OBVIOUS
  <2>2. Taken(h)' /\ \A s \in Ids : Taken(s)' => s <= h BY <1>1
  <2>3. h = counter[1] => counter[2] # -1 /\ counter[2] <= applogIdx' BY <2>1, <1>1
  <2> QED BY <2>1, <2>2, <2>3, <1>1, <1>3 DEF CallInHand
<1>7. CounterPlace'
  <2>1. PICK k : k = counter[1] OBVIOUS
  <2>2. k # 0 => Taken(k)' BY <2>1, <1>1
  <2>3. /\ counter[1] = 0 => counter[2] = -1
        /\ counter[2] # -1 => /\ chain[counter[1]].kind = "call"
                              /\ counter[2] < Len(chain[counter[1]].log)
    BY DEF OrderInv, CounterPlace
  <2>4. called' = 0 => applogIdx' = -1 BY <1>1
  <2> QED BY <2>1, <2>2, <2>3, <2>4, <1>3 DEF CounterPlace
<1>8. /\ \A t : Registering(t)' <=> Registering(t)
      /\ \A x : HasId(x) => HasId(x)'
      /\ \A i : IdGiven(i) => IdGiven(i)'
  BY AddsSame
<1>9. ASSUME NEW n \in DOMAIN Queue, NEW r, r = Queue[n]
      PROVE  OpFits(r)'
  <2>1. OpFits(r) BY <1>9 DEF OrderInv, QueueOrder
  <2>2. /\ r.tx \in Nat \ {0} /\ r.idx \in Int
        /\ r.tx = h => r.op \in {"balance", "transfer"}
        /\ r.tx = h /\ r.op = "transfer" => r.idx <= applogIdx
    BY <1>1, <1>9
  <2>3. Taken(r.tx)' BY <2>1, <1>1 DEF OpFits
  <2>4. r.op = "counter" => r.tx # called' BY <2>2
  <2>5. r.op = "transfer" /\ r.tx = called' => r.idx <= applogIdx' BY <2>2, <1>1
  <2> QED BY <2>1, <2>3, <2>4, <2>5, <1>2, <1>3, <1>8 DEF OpFits, MeantGrows
<1>10. ASSUME NEW n \in DOMAIN Queue, NEW j \in DOMAIN d PROVE Before(Queue[n], d[j])
  <2>1. d[j].tx = h BY DEF Adds
  <2>2. PICK r, s : r = Queue[n] /\ s = d[j] OBVIOUS
  <2>3. /\ r.tx \in Nat \ {0} /\ r.tx <= h /\ r.idx \in Int
        /\ r.tx = h => r.op \in {"balance", "transfer"}
        /\ r.tx = h /\ r.op = "transfer" => r.idx < applogIdx + 1
    BY <2>2, <1>1
  <2>4. (s.op = "transfer" /\ s.idx = applogIdx + 1) \/ s.op = "counter" BY <2>2
  <2>5. CASE r.tx < h BY <2>1, <2>2, <2>5 DEF Before
  <2>6. CASE r.tx = h BY <2>1, <2>2, <2>3, <2>4, <2>6 DEF Before
  <2>7. r.tx < h \/ r.tx = h BY <2>3, <1>1
  <2> QED BY <2>5, <2>6, <2>7
<1>11. QueueOrder' /\ RowsInOrder' BY <1>9, <1>10, AddsOrder
<1>12. IdsGiven'
  <2>1. nep5' = nep5 /\ known' = known BY <1>2 DEF dbVars
  <2>2. ASSUME NEW t \in Ids, Taken(t)', Registering(t)' PROVE HasId(chain[t].hash)'
    <3>1. HasId(chain[t].hash) BY <2>2, <1>1, <1>8 DEF OrderInv, IdsGiven
    <3>2. PICK x : x = chain[t].hash OBVIOUS
    <3>3. HasId(x)' BY <3>1, <3>2, <1>8
    <3> QED BY <3>2, <3>3, <1>3
  <2>3. \A i \in DOMAIN nep5' : nep5'[i] > 0 => IdGiven(i)'
    BY <2>1, <1>8 DEF OrderInv, IdsGiven
  <2>4. Names(asked)' \subseteq meant'
    <3>1. Names(asked)' = Names(asked') BY DEF Names
    <3> QED BY <3>1, <1>2 DEF MeantGrows
  <2>5. \A i \in known' : IdGiven(i)' BY <2>1, <1>8 DEF OrderInv, IdsGiven
  <2> QED BY <2>2, <2>3, <2>4, <2>5 DEF IdsGiven
<1> QED BY <1>1, <1>5, <1>6, <1>7, <1>11, <1>12 DEF OrderInv

\* A notification of the call in hand.
LEMMA NotificationStep ==
  ASSUME IInv, HandleTransfer, NextNotif < Len(chain[called].log)
  PROVE  /\ OrderInv' /\ KnownExact' /\ AssetsExact' /\ AssetsOnTheWay'
         /\ TransfersOnTheWay' /\ MigrationsOnTheWay' /\ DroppedApart'
<1>1. PICK h, n, x, r, id :
        /\ h = called /\ n = applogIdx + 1 /\ x = chain[h].log[n + 1]
        /\ r = asked' /\ id = IdOf(r, x)
  OBVIOUS
<1>2. /\ \A t : Taken(t)' <=> Taken(t)
      /\ h \in Ids /\ h \in Nat \ {0} /\ Relevant(h) /\ Taken(h) /\ h \in 1..txMax
      /\ chain[h].kind = "call" /\ ~Registering(h) /\ ~Should(h)
      /\ Len(chain[h].log) \in Nat
      /\ applogIdx \in Int /\ applogIdx >= -1 /\ counter[1] \in Nat /\ counter[2] \in Int
      /\ \A t : Taken(t) => t <= h
      /\ \A s : Relevant(s) /\ s < h => Taken(s)
      /\ counter[1] <= h
      /\ h = counter[1] => counter[2] # -1 /\ counter[2] <= applogIdx
  BY <1>1, TransferFrame DEF IInv
<1>3. /\ n < Len(chain[h].log) /\ n \in 0..(Len(chain[h].log) - 1) /\ n \in Nat
  BY <1>1, <1>2 DEF NextNotif
<1>4. /\ x \in Hashes
      /\ Cardinality(Hashes) \in Nat /\ DOMAIN nep5 = 1..Cardinality(Hashes)
      /\ txMax \in Nat /\ 1..txMax \subseteq Ids
  <2>1. chain \in Seq(Txs) /\ txMax <= MaxTx BY TypesFacts DEF IInv, OrderInv
  <2> QED BY <2>1, <1>1, <1>2, <1>3, TxFacts, TypesFacts DEF IInv, OrderInv
<1>5. PICK s, d : s = Op("transfer", h, n, id) /\ d = todo' OBVIOUS
<1>6. /\ asked' = r /\ r = GetAssetId(asked, x)
      /\ applogIdx' = n /\ called' = h /\ known' = known /\ chain' = chain
      /\ meant' = meant \cup Names(asked')
      /\ \/ d = (IF id \in known THEN <<s>> ELSE <<>>) /\ dropped' = dropped
         \/ id \in known /\ d = <<>> /\ dropped' = dropped \cup {<<h, n>>}
  BY <1>1, <1>5 DEF HandleTransfer, NextNotif
<1>7. /\ MeantGrows /\ r \in Seq(Hashes)
      /\ \A i, j \in DOMAIN r : r[i] = r[j] => i = j
      /\ id \in DOMAIN nep5 /\ <<x, id>> \in meant'
      /\ id \in 0..Cardinality(Hashes)
  BY <1>1, <1>4, <1>6, NamesGiven DEF IInv
<1>8. s \in Ops /\ s.op = "transfer" /\ s.tx = h /\ s.idx = n /\ s.id = id
  <2>1. s = [op |-> "transfer", tx |-> h, idx |-> n, id |-> id] BY <1>5 DEF Op
  <2>2. n \in Int /\ "transfer" \in OpNames BY <1>3 DEF OpNames
  <2> QED BY <2>1, <2>2, <1>2, <1>7 DEF Ops
<1>9. Adds(h, d) /\ \A j \in DOMAIN d : d = <<s>> /\ d[j] = s
  <2>1. d = <<>> \/ d = <<s>> BY <1>6
  <2> QED BY <2>1, <1>1, <1>5, <1>7, <1>8, TransferAdds DEF IInv
<1>10. dropped' \subseteq Ids \X Nat
  <2>1. dropped \subseteq Ids \X Nat BY DEF IInv, OrderInv, Types, TypeOK
  <2> QED BY <2>1, <1>2, <1>3, <1>6
<1>20. OrderInv'
  <2>1. OpFits(s)'
    <3>1. Taken(s.tx)' /\ chain'[s.tx].kind = "call" BY <1>2, <1>6, <1>8
    <3>2. /\ s.idx \in 0..(Len(chain'[s.tx].log) - 1)
          /\ <<chain'[s.tx].log[s.idx + 1], s.id>> \in meant'
      BY <1>1, <1>3, <1>6, <1>7, <1>8
    <3>3. s.idx <= applogIdx' BY <1>3, <1>6, <1>8
    <3> QED BY <3>1, <3>2, <3>3, <1>8 DEF OpFits
  <2>2. Behind(s)
    <3>1. CASE h = counter[1]
      <4>1. counter[2] < n BY <3>1, <1>1, <1>2
      <4> QED BY <4>1, <3>1, <1>2, <1>3, <1>8 DEF Behind
    <3>2. CASE h # counter[1]
      <4>1. h > counter[1] BY <3>2, <1>2
      <4> QED BY <4>1, <1>8 DEF Behind
    <3> QED BY <3>1, <3>2
  <2>3. /\ \A j \in DOMAIN d : \A q : q = d[j] => OpFits(q)' /\ Behind(q)
        /\ \A j \in DOMAIN d : d[j].op = "transfer" /\ d[j].idx = applogIdx + 1
    BY <2>1, <2>2, <1>1, <1>8, <1>9
  <2>4. called' = h /\ applogIdx' = applogIdx + 1 /\ applogIdx + 1 < Len(chain[h].log)
    BY <1>1, <1>3, <1>6
  <2> QED BY <2>3, <2>4, <1>1, <1>6, <1>7, <1>9, <1>10, TransferOrder DEF IInv
<1>11. \A j \in DOMAIN d : d[j].op = "transfer" BY <1>8, <1>9
<1>12. KnownExact' /\ AssetsExact' /\ AssetsOnTheWay'
  BY <1>2, <1>6, <1>9, <1>11, AddsAssets
<1>13. MigrationsOnTheWay' BY <1>2, <1>9, <1>11, AddsMigrations
<1>14. ASSUME IdsStable' PROVE id \in known <=> RegisteredBefore(h, x)
  <2>1. \A p \in meant' : p[2] \in known <=> TakenRegisters(p[1])
    BY <1>7, <1>14, NamesExact DEF IInv
  <2>2. id \in known <=> TakenRegisters(x)
    <3>1. PICK q : q = <<x, id>> OBVIOUS
    <3>2. q \in meant' /\ q[1] = x /\ q[2] = id BY <3>1, <1>7
    <3> QED BY <3>2, <2>1
  <2>3. TakenRegisters(x) => RegisteredBefore(h, x)
    <3> SUFFICES ASSUME NEW t \in Ids, Taken(t), Registers(t, x) PROVE t \in 1..(h - 1)
      BY DEF TakenRegisters, RegisteredBefore
    <3>1. t <= h /\ t # h BY <1>2 DEF Registers
    <3>2. t \in 1..txMax BY DEF Taken, Relevant
    <3> QED BY <3>1, <3>2, <1>2, <1>4
  <2>4. ASSUME NEW t \in 1..(h - 1), Registers(t, x) PROVE TakenRegisters(x)
    <3>1. t < h /\ t \in 1..txMax BY <1>2, <1>4
    <3>2. t \in Ids BY <3>1, <1>4
    <3>3. Taken(t) BY <3>1, <2>4, <1>2, RegistersRelevant
    <3> QED BY <3>2, <3>3, <2>4 DEF TakenRegisters
  <2> QED BY <2>2, <2>3, <2>4 DEF RegisteredBefore
<1>15. TransfersOnTheWay'
  <2>1. ASSUME IdsStable', NEW j \in DOMAIN d, d[j].op = "transfer" PROVE OfAsset(d[j])
    <3>1. d = <<s>> /\ d[j] = s BY <2>1, <1>9
    <3>2. id \in known
      <4>1. <<s>> # <<>> OBVIOUS
      <4> QED BY <3>1, <4>1, <1>6
    <3>3. RegisteredBefore(h, x) BY <2>1, <3>2, <1>14
    <3> QED BY <3>1, <3>3, <1>1, <1>8 DEF OfAsset
  <2>2. ASSUME IdsStable', NEW i \in Nat, IsTransfer(h, i), ~Done(h, i)
        PROVE  \/ Queued(h, i)
               \/ \E j \in DOMAIN d : d[j].op = "transfer" /\ d[j].idx = i
               \/ h = called' /\ i > applogIdx'
               \/ <<h, i>> \in dropped'
    <3>1. IdsStable BY <2>2, <1>7, NamesExact DEF IInv
    <3>2. OnTheWay(h, i) BY <3>1, <2>2, <1>2 DEF IInv, TransfersOnTheWay
    <3>3. Queued(h, i) \/ i > applogIdx \/ <<h, i>> \in dropped
      BY <3>2, <2>2, <1>2 DEF OnTheWay
    <3>4. CASE i = n
      <4>1. RegisteredBefore(h, x) BY <3>4, <2>2, <1>1 DEF IsTransfer
      <4>2. d = <<s>> \/ <<h, n>> \in dropped' BY <4>1, <2>2, <1>6, <1>14
      <4>3. d = <<s>> => 1 \in DOMAIN d /\ d[1] = s OBVIOUS
      <4> QED BY <4>2, <4>3, <3>4, <1>8
    <3>5. i > applogIdx /\ i # n => i > n BY <1>1, <1>2
    <3> QED BY <3>3, <3>4, <3>5, <1>6
  <2> QED BY <2>1, <2>2, <1>1, <1>9, AddsTransfers
<1>16. ~Stored(h, n)
  <2> SUFFICES ASSUME NEW m \in DOMAIN nep5Tx, nep5Tx[m].tx = h, nep5Tx[m].idx = n
               PROVE  FALSE
    BY DEF Stored
  <2>1. Done(h, n) BY DEF IInv, OrderInv, RowsInOrder, RowFits
  <2> QED BY <2>1, <1>1, <1>2, <1>3 DEF Done
<1>17. ~Queued(h, n)
  <2>1. \A m \in DOMAIN Queue : Queue[m].tx = h /\ Queue[m].op = "transfer" =>
          Queue[m].idx <= applogIdx
    BY <1>1, TransferFrame DEF IInv
  <2> QED BY <2>1, <1>1, <1>2 DEF Queued
<1>18. \A u \in dropped' : u[1] = h => u[2] <= n
  <2>1. \A u \in dropped : u[1] = h => u[2] <= n
    <3> SUFFICES ASSUME NEW u \in dropped, u[1] = h PROVE u[2] <= n OBVIOUS
    <3>1. u[2] <= applogIdx BY <1>1 DEF IInv, DroppedApart
    <3>2. u \in Ids \X Nat BY DEF IInv, OrderInv, Types, TypeOK
    <3> QED BY <3>1, <3>2, <1>1, <1>2
  <2> QED BY <2>1, <1>3, <1>6
<1>19. DroppedApart'
  <2>1. \A u \in dropped' : \/ u \in dropped
                            \/ u[1] = h /\ ~Stored(h, u[2]) /\ ~Queued(h, u[2])
    BY <1>6, <1>16, <1>17
  <2>2. ASSUME NEW j \in DOMAIN d PROVE <<h, d[j].idx>> \notin dropped'
    <3>1. d = <<s>> /\ d[j].idx = n BY <1>8, <1>9
    <3>2. <<s>> # <<>> OBVIOUS
    <3>3. dropped' = dropped BY <3>1, <3>2, <1>6
    <3>4. PICK u : u = <<h, n>> OBVIOUS
    <3>5. u \in dropped => n <= applogIdx BY <3>4, <1>1 DEF IInv, DroppedApart
    <3>6. ~(n <= applogIdx) BY <1>1, <1>2
    <3> QED BY <3>1, <3>3, <3>4, <3>5, <3>6
  <2> QED BY <2>1, <2>2, <1>6, <1>9, <1>10, <1>18, AddsApart DEF IInv
<1> QED BY <1>12, <1>13, <1>15, <1>19, <1>20

\* The counter behind the last notification of a call.
LEMMA CallDoneStep ==
  ASSUME IInv, HandleTransfer, ~(NextNotif < Len(chain[called].log))
  PROVE  /\ OrderInv' /\ KnownExact' /\ AssetsExact' /\ AssetsOnTheWay'
         /\ TransfersOnTheWay' /\ MigrationsOnTheWay' /\ DroppedApart'
<1>1. PICK h : h = called OBVIOUS
<1>2. /\ \A t : Taken(t)' <=> Taken(t)
      /\ h \in Ids /\ h \in Nat \ {0} /\ Taken(h)
      /\ ~Registering(h) /\ ~Should(h)
      /\ Len(chain[h].log) \in Nat
      /\ applogIdx \in Int /\ applogIdx >= -1 /\ counter[1] \in Nat /\ counter[2] \in Int
      /\ counter[1] <= h
      /\ h = counter[1] => counter[2] # -1 /\ counter[2] <= applogIdx
  BY <1>1, TransferFrame DEF IInv
<1>3. PICK s, d : s = Op("counter", h, -1, 0) /\ d = <<s>> OBVIOUS
<1>4. /\ todo' = d /\ applogIdx' = -1 /\ called' = 0 /\ asked' = asked
      /\ known' = known /\ chain' = chain /\ dropped' = dropped
      /\ meant' = meant \cup Names(asked')
  BY <1>1, <1>3 DEF HandleTransfer, SetCounter
<1>5. MeantGrows BY <1>4, NamesKept DEF IInv
<1>6. s \in Ops /\ s.op = "counter" /\ s.tx = h /\ s.idx = -1
  <2>1. s = [op |-> "counter", tx |-> h, idx |-> -1, id |-> 0] BY <1>3 DEF Op
  <2>2. Cardinality(Hashes) \in Nat BY TypesFacts DEF IInv, OrderInv
  <2>3. -1 \in Int /\ "counter" \in OpNames /\ 0 \in 0..Cardinality(Hashes)
    BY <2>2 DEF OpNames
  <2> QED BY <2>1, <2>3, <1>2 DEF Ops
<1>7. Adds(h, d) /\ \A j \in DOMAIN d : d[j] = s
  BY <1>1, <1>3, <1>4, <1>5, <1>6, TransferAdds DEF IInv
<1>8. OrderInv'
  <2>1. OpFits(s)'
    <3>1. Taken(s.tx)' /\ s.tx # called' BY <1>2, <1>4, <1>6
    <3> QED BY <3>1, <1>6 DEF OpFits
  <2>2. Behind(s)
    <3>1. h = counter[1] \/ h > counter[1] BY <1>2
    <3> QED BY <3>1, <1>2, <1>6 DEF Behind
  <2>3. /\ \A j \in DOMAIN d : \A q : q = d[j] => OpFits(q)' /\ Behind(q)
        /\ \A j \in DOMAIN d : d[j].op = "counter"
    BY <2>1, <2>2, <1>6, <1>7
  <2>4. /\ asked' \in Seq(Hashes) /\ dropped' \subseteq Ids \X Nat
        /\ \A i, j \in DOMAIN asked' : asked'[i] = asked'[j] => i = j
    BY <1>4 DEF IInv, OrderInv, Types, TypeOK
  <2> QED BY <2>3, <2>4, <1>1, <1>4, <1>7, TransferOrder DEF IInv
<1>9. \A j \in DOMAIN d : d[j].op = "counter" BY <1>6, <1>7
<1>10. KnownExact' /\ AssetsExact' /\ AssetsOnTheWay'
  BY <1>2, <1>4, <1>7, <1>9, AddsAssets
<1>11. MigrationsOnTheWay' BY <1>2, <1>7, <1>9, AddsMigrations
<1>12. TransfersOnTheWay'
  <2>1. ASSUME IdsStable', NEW i \in Nat, IsTransfer(h, i), ~Done(h, i)
        PROVE  Queued(h, i) \/ <<h, i>> \in dropped'
    <3>1. IdsStable BY <2>1, <1>5, NamesExact DEF IInv
    <3>2. OnTheWay(h, i) BY <3>1, <2>1, <1>2 DEF IInv, TransfersOnTheWay
    <3>3. Queued(h, i) \/ i > applogIdx \/ <<h, i>> \in dropped
      BY <3>2, <2>1, <1>2 DEF OnTheWay
    <3>4. i \in 0..(Len(chain[h].log) - 1) BY <2>1 DEF IsTransfer
    <3>5. ~(applogIdx + 1 < Len(chain[h].log)) BY <1>1 DEF NextNotif
    <3>6. ~(i > applogIdx) BY <3>4, <3>5, <1>2
    <3> QED BY <3>3, <3>6, <1>4
  <2> QED BY <2>1, <1>1, <1>7, <1>9, AddsTransfers
<1>13. DroppedApart'
  <2>1. dropped' \subseteq Ids \X Nat BY <1>4 DEF IInv, OrderInv, Types, TypeOK
  <2> QED BY <2>1, <1>4, <1>7, <1>9, AddsApart DEF IInv
<1> QED BY <1>8, <1>10, <1>11, <1>12, <1>13

\* Every step of a call in hand.
LEMMA TransferStep ==
  ASSUME IInv, HandleTransfer
  PROVE  /\ OrderInv' /\ KnownExact' /\ AssetsExact' /\ AssetsOnTheWay'
         /\ TransfersOnTheWay' /\ MigrationsOnTheWay' /\ DroppedApart'
BY NotificationStep, CallDoneStep
-----------------------------------------------------------------------------
(* The process panics, or dies for another reason. *)

\* The ids given stay given, also one given just before a panic.
LEMMA PanicGrows ==
  ASSUME OrderInv, PanicStore \/ PanicHandle \/ Crash
  PROVE  Restart /\ MeantGrows /\ crashes' \in 0..MaxCrashes
<1>1. Restart /\ asked' = <<>> BY DEF PanicStore, PanicHandle, Crash, Restart
<1>2. Names(asked') = {} BY <1>1 DEF Names
<1>3. /\ DOMAIN nep5 = 1..Cardinality(Hashes) /\ meant \subseteq Hashes \X DOMAIN nep5
      /\ asked \in Seq(Hashes)
      /\ \A i, j \in DOMAIN asked : asked[i] = asked[j] => i = j
      /\ chain \in Seq(Txs) /\ txMax <= MaxTx
  BY TypesFacts DEF OrderInv, Types, TypeOK
<1>4. crashes' \in 0..MaxCrashes
  <2>1. crashes \in 0..MaxCrashes BY DEF OrderInv, Types, TypeOK
  <2>2. CASE Crash BY <2>1, <2>2, Nep5Bounds DEF Crash
  <2>3. CASE ~Crash BY <2>1, <2>3 DEF PanicStore, PanicHandle
  <2> QED BY <2>2, <2>3
<1>5. CASE PanicStore \/ Crash
  <2>1. meant' = meant BY <1>5 DEF PanicStore, Crash
  <2> QED BY <2>1, <1>1, <1>2, <1>3, <1>4 DEF MeantGrows
<1>6. CASE PanicHandle
  <2>1. PICK x : x = NextHash OBVIOUS
  <2>2. ASSUME CallerDies PROVE x \in Hashes
    <3>1. PICK h : h = Head(nep5TxChan) OBVIOUS
    <3>2. called = 0 /\ nep5TxChan # <<>> /\ chain[h].kind = "call" /\ chain[h].hash # NoHash
      BY <2>2, <3>1 DEF CallerDies
    <3>3. h \in 1..txMax BY <3>1, <3>2, HeadOfChan DEF Relevant
    <3>4. x = chain[h].hash BY <2>1, <3>1, <3>2 DEF NextHash
    <3>5. x \in Hashes BY <3>2, <3>3, <3>4, <1>3, TxFacts
    <3> QED BY <3>5
  <2>3. ASSUME PartiesDie PROVE x \in Hashes
    <3>1. PICK h, n : h = called /\ n = applogIdx + 1 OBVIOUS
    <3>2. h # 0 /\ n < Len(chain[h].log) BY <2>3, <3>1 DEF PartiesDie, NextNotif
    <3>3. Taken(h) /\ applogIdx \in Int /\ applogIdx >= -1
      BY <3>1, <3>2, TypesFacts DEF OrderInv, CallInHand, Types
    <3>4. h \in 1..txMax BY <3>3 DEF Taken, Relevant
    <3>5. n \in 0..(Len(chain[h].log) - 1) BY <3>1, <3>2, <3>3, <3>4, <1>3, TxFacts
    <3>6. x = chain[h].log[n + 1] BY <2>1, <3>1, <3>2 DEF NextHash, NextNotif
    <3>7. x \in Hashes BY <3>4, <3>5, <3>6, <1>3, TxFacts
    <3> QED BY <3>7
  <2>4. x \in Hashes BY <1>6, <2>2, <2>3 DEF PanicHandle
  <2>5. PICK N, r : N = Cardinality(Hashes) /\ r = GetAssetId(asked, x) OBVIOUS
  <2>6. Names(r) \subseteq Hashes \X (1..N) BY <2>4, <2>5, <1>3, GivenId, Nep5Bounds
  <2>7. meant' = meant \cup Names(r) BY <2>1, <2>5, <1>6 DEF PanicHandle
  <2> QED BY <2>5, <2>6, <2>7, <1>1, <1>2, <1>3, <1>4 DEF MeantGrows
<1> QED BY <1>5, <1>6
-----------------------------------------------------------------------------
(* The invariant holds. *)

LEMMA InitInv == Init => IInv
<1> SUFFICES ASSUME Init PROVE IInv OBVIOUS
<1>1. /\ chain = <<>> /\ nextTxPK = 1 /\ page = {} /\ waiting = {}
      /\ applogChan = <<>> /\ hand = [f \in Fetchers |-> 0] /\ appLogs = {}
      /\ nep5TxChan = <<>> /\ called = 0 /\ applogIdx = -1 /\ asked = <<>> /\ known = {}
      /\ todo = <<>> /\ storeChan = <<>>
      /\ nep5 = [i \in 1..Cardinality(Hashes) |-> 0]
      /\ nep5Tx = <<>> /\ migrations = {} /\ counter = <<0, -1>>
      /\ addrTx = [t \in Ids |-> 0] /\ addrTxPk = 0
      /\ meant = {} /\ cut = {} /\ dropped = {} /\ crashes = 0
  BY DEF Init
<1>2. /\ MaxTx \in Nat /\ PageSize \in Nat \ {0} /\ ChanSize \in Nat \ {0}
      /\ MaxCrashes \in Nat /\ IsFiniteSet(Hashes)
  BY Nep5Bounds
<1>3. Cardinality(Hashes) \in Nat BY <1>2, FS_CardinalityType
<1>4. txMax = 0 /\ Len(<<>>) = 0 /\ DOMAIN <<>> = {} /\ \A S : <<>> \in Seq(S)
  BY <1>1 DEF txMax
<1>5. Cardinality({}) = 0 /\ IsFiniteSet({}) BY FS_EmptySet
<1>6. counter[1] = 0 /\ counter[2] = -1 /\ counter \in (0..MaxTx) \X Int
  BY <1>1, <1>2
<1>7. TypeOK
  <2>1. chain \in Seq(Txs) /\ txMax <= MaxTx /\ nextTxPK \in 1..(MaxTx + 1)
    BY <1>1, <1>2, <1>4
  <2>2. /\ page \subseteq Ids /\ waiting \subseteq Ids /\ Cardinality(waiting) <= PageSize
        /\ applogChan \in Seq(Ids) /\ hand \in [Fetchers -> 0..MaxTx]
        /\ appLogs \subseteq Ids /\ nep5TxChan \in Seq(Ids)
        /\ Len(applogChan) <= ChanSize /\ Len(nep5TxChan) <= ChanSize
        /\ Len(storeChan) <= ChanSize
    BY <1>1, <1>2, <1>4, <1>5
  <2>3. /\ called \in 0..MaxTx /\ applogIdx \in Int /\ asked \in Seq(Hashes)
        /\ known \subseteq DOMAIN nep5
        /\ nep5 \in [1..Cardinality(Hashes) -> Nat]
        /\ nep5Tx \in Seq([tx : Ids, idx : Nat, id : DOMAIN nep5])
    BY <1>1, <1>2, <1>4
  <2>4. /\ migrations \subseteq Ids /\ cut \subseteq Ids
        /\ addrTx \in [Ids -> Nat] /\ addrTxPk \in 0..Len(nep5Tx)
        /\ meant \subseteq Hashes \X DOMAIN nep5 /\ dropped \subseteq Ids \X Nat
        /\ crashes \in 0..MaxCrashes
    BY <1>1, <1>2, <1>4
  <2> QED BY <2>1, <2>2, <2>3, <2>4, <1>6 DEF TypeOK
<1>8. Types
  <2>1. storeChan \in Seq(Ops) /\ todo \in Seq(Ops) BY <1>1, <1>4
  <2>2. \A i, j \in DOMAIN asked : asked[i] = asked[j] => i = j BY <1>1, <1>4
  <2>3. applogIdx >= -1 /\ counter[2] >= -1 /\ counter[1] <= txMax /\ IsFiniteSet(waiting)
    BY <1>1, <1>4, <1>5, <1>6
  <2> QED BY <2>1, <2>2, <2>3, <1>7 DEF Types
<1>9. Ahead = {} /\ ToSet(applogChan) = {} /\ InHand = {}
  BY <1>1, NothingIn DEF Ahead, InHand
<1>10. \A t : ~Relevant(t) /\ ~Taken(t) BY <1>4 DEF Relevant, Taken
<1>11. Queue = <<>> /\ DOMAIN Queue = {}
  <2>1. Queue = <<>> BY <1>1, <1>4, ConcatEmptySeq DEF Queue
  <2> QED BY <2>1
<1>12. OrderInv
  <2>1. LogPlaces BY <1>1, <1>9 DEF LogPlaces
  <2>2. ScanOrder BY <1>1, <1>4, <1>9 DEF ScanOrder
  <2>3. CallInHand BY <1>1 DEF CallInHand
  <2>4. CounterPlace BY <1>1, <1>6 DEF CounterPlace
  <2>5. QueueOrder BY <1>11 DEF QueueOrder
  <2>6. IdsGiven BY <1>1, <1>10 DEF IdsGiven, Names
  <2>7. RowsInOrder BY <1>1 DEF RowsInOrder
  <2> QED BY <2>1, <2>2, <2>3, <2>4, <2>5, <2>6, <2>7, <1>8 DEF OrderInv
<1>13. KnownExact /\ AssetsExact BY <1>1 DEF KnownExact, AssetsExact
<1>14. AssetsOnTheWay BY <1>10, <1>11 DEF AssetsOnTheWay
<1>15. TransfersOnTheWay
  <2>1. \A t, i : ~IsTransfer(t, i) BY <1>4 DEF IsTransfer
  <2> QED BY <2>1, <1>1, <1>11 DEF TransfersOnTheWay
<1>16. MigrationsOnTheWay BY <1>1, <1>10, <1>11 DEF MigrationsOnTheWay
<1>17. AddrTxExact BY <1>1 DEF AddrTxExact
<1>18. DroppedApart BY <1>1 DEF DroppedApart
<1> QED BY <1>12, <1>13, <1>14, <1>15, <1>16, <1>17, <1>18 DEF IInv

\* A step that takes nothing and executes nothing keeps it.
LEMMA QuietInv ==
  ASSUME IInv, (Types /\ LogPlaces /\ ScanOrder /\ CounterPlace)', Quiet, AddrTxExact'
  PROVE  IInv'
BY QuietOrder, QuietExact DEF IInv, OrderInv

\* A stuttering step.
LEMMA StutterInv == ASSUME IInv, UNCHANGED vars PROVE IInv'
<1>1. /\ RestSame /\ TakenSame /\ ScanSame
      /\ UNCHANGED <<waiting, nep5TxChan>>
      /\ UNCHANGED <<called, applogIdx, counter, todo, storeChan>>
  BY DEF vars, RestSame, TakenSame, ScanSame, Ahead, fetchVars, handleVars, dbVars
<1>2. Quiet BY <1>1, SameTaken, ScanQuiet DEF IInv
<1>3. Types'
  <2>1. txMax' = txMax BY DEF vars, txMax
  <2> QED BY <2>1 DEF IInv, OrderInv, Types, TypeOK, vars, fetchVars, logVars, handleVars,
                      dbVars, addrVars
<1>4. LogPlaces' BY <1>1, SamePlaces DEF IInv, OrderInv
<1>5. ScanOrder' BY <1>1, SameScan DEF IInv, OrderInv
<1>6. CounterPlace' BY <1>1, SamePlace DEF IInv, OrderInv
<1>7. AddrTxExact' BY DEF IInv, AddrTxExact, vars, dbVars, addrVars
<1> QED BY <1>2, <1>3, <1>4, <1>5, <1>6, <1>7, QuietInv

\* Every step keeps the inductive invariant.
LEMMA NextInv == IInv /\ [Next]_vars => IInv'
<1> SUFFICES ASSUME IInv, [Next]_vars PROVE IInv' OBVIOUS
<1>1. AddrTxExact' BY AddrStep DEF IInv, OrderInv
<1>2. OrderInv BY DEF IInv
<1>3. CASE Fetch BY <1>1, <1>2, <1>3, FetchStep, QuietInv
<1>4. CASE SendApplog BY <1>1, <1>2, <1>4, SendApplogStep, QuietInv
<1>5. CASE SendTx BY <1>1, <1>2, <1>5, SendTxStep, QuietInv
<1>6. ASSUME NEW f \in Fetchers, TakeApplog(f) PROVE IInv'
  BY <1>1, <1>2, <1>6, TakeApplogStep, QuietInv
<1>7. ASSUME NEW f \in Fetchers, StoreApplog(f) PROVE IInv'
  BY <1>1, <1>2, <1>7, StoreApplogStep, QuietInv
<1>8. CASE Handle BY <1>1, <1>8, HandleStep DEF IInv
<1>9. CASE HandleTransfer BY <1>1, <1>9, TransferStep DEF IInv
<1>10. CASE SendOp BY <1>1, <1>2, <1>10, SendOpStep, QuietInv
<1>11. CASE Store
  BY <1>1, <1>2, <1>11, StoreOrder, StoreAssets, StoreTransfers, StoreMigrations,
     StoreApart DEF IInv
<1>12. CASE InsertNep5AddrTxRec BY <1>1, <1>2, <1>12, InsertStep, QuietInv
<1>13. CASE NewTx BY <1>1, <1>2, <1>13, NewTxStep, QuietInv
<1>14. CASE PanicStore \/ PanicHandle \/ Crash
  <2>1. Restart /\ MeantGrows /\ crashes' \in 0..MaxCrashes BY <1>2, <1>14, PanicGrows
  <2> QED BY <2>1, <1>1, <1>2, RestartOrder, RestartExact DEF IInv
<1>15. CASE UNCHANGED vars BY <1>15, StutterInv
<1> QED BY <1>3, <1>4, <1>5, <1>6, <1>7, <1>8, <1>9, <1>10, <1>11, <1>12, <1>13, <1>14,
           <1>15 DEF Next, FetchNep5Tx, FetchAppLog, HandleNep5Tx, HandleNep5Store

\* The inductive invariant of the NEP5 task holds in every reachable state.
THEOREM Nep5Invariance == Spec => []IInv
<1> QED BY InitInv, NextInv, PTL DEF Spec
-----------------------------------------------------------------------------
\* The log of every transaction that fetchNep5Tx waits for is in exactly one of
\* the page, applogChan, the hands of a fetchAppLog and the map of logs, and no
\* other log is anywhere, for any number of fetchers; the variables have their
\* types and the channels their bounds.
THEOREM NoLogLost == Spec => []LogsInFlight
<1>1. ASSUME IInv PROVE LogsInFlight
  <2> DEFINE at(x, t) == \/ x = "page" /\ t \in page
                         \/ x = "chan" /\ t \in ToSet(applogChan)
                         \/ x = "map"  /\ t \in appLogs
                         \/ x \in Fetchers /\ hand[x] = t
             All == {"page", "chan", "map"} \cup Fetchers
             places(t) == {x \in All : at(x, t)}
  <2>1. TypeOK /\ LogPlaces BY <1>1 DEF IInv, OrderInv, Types
  <2>2. ASSUME NEW t \in Ids
        PROVE  Cardinality(places(t)) = (IF t \in waiting THEN 1 ELSE 0)
    <3>1. t # 0
      <4>1. MaxTx \in Nat BY Nep5Bounds
      <4> QED BY <4>1 DEF Ids
    <3>2. \A f \in Fetchers : hand[f] = t => t \in InHand BY <3>1 DEF InHand
    <3>3. t \notin waiting => places(t) = {} BY <2>1, <3>2 DEF LogPlaces
    <3>4. t \in waiting => \E x \in All : places(t) = {x}
      <4> HAVE t \in waiting
      <4>1. CASE t \in page
        <5>1. places(t) = {"page"} BY <4>1, <2>1, <3>2 DEF LogPlaces
        <5> QED BY <5>1
      <4>2. CASE t \in ToSet(applogChan)
        <5>1. places(t) = {"chan"} BY <4>2, <2>1, <3>2 DEF LogPlaces
        <5> QED BY <5>1
      <4>3. CASE t \in appLogs
        <5>1. places(t) = {"map"} BY <4>3, <2>1, <3>2 DEF LogPlaces
        <5> QED BY <5>1
      <4>4. CASE t \in InHand
        <5>1. PICK f \in Fetchers : hand[f] = t BY <4>4 DEF InHand
        <5>2. \A g \in Fetchers : hand[g] = t => g = f BY <5>1, <3>1, <2>1 DEF LogPlaces
        <5>3. places(t) = {f} BY <5>1, <5>2, <4>4, <2>1 DEF LogPlaces
        <5> QED BY <5>3
      <4> QED BY <4>1, <4>2, <4>3, <4>4, <2>1 DEF LogPlaces
    <3> HIDE DEF places, All
    <3> QED BY <3>3, <3>4, FS_EmptySet, FS_Singleton
  <2> QED BY <2>1, <2>2 DEF LogsInFlight
<1> QED BY <1>1, Nep5Invariance, PTL

\* As long as ids are stable, and wherever the process dies: nep5_tx holds the
\* transfers of registered assets up to the counter, each once, in the order of
\* the chain, under the id of its asset, but for those dropped because their balances
\* could not be queried; and none of these is there.
THEOREM TransfersRecorded == Spec => []TransfersExact
<1>1. ASSUME IInv PROVE TransfersExact
  <2> SUFFICES ASSUME IdsStable
               PROVE  /\ {<<nep5Tx[n].tx, nep5Tx[n].idx>> : n \in DOMAIN nep5Tx}
                           = {p \in Transfers : Done(p[1], p[2])} \ dropped
                      /\ \A n \in DOMAIN nep5Tx :
                           /\ <<chain[nep5Tx[n].tx].log[nep5Tx[n].idx + 1], nep5Tx[n].id>>
                                \in meant
                           /\ \A m \in 1..(n - 1) :
                                \/ nep5Tx[m].tx < nep5Tx[n].tx
                                \/ /\ nep5Tx[m].tx = nep5Tx[n].tx
                                   /\ nep5Tx[m].idx < nep5Tx[n].idx
    BY DEF TransfersExact
  <2>1. /\ \A n \in DOMAIN nep5Tx : RowFits(nep5Tx[n]) /\ OfAsset(nep5Tx[n])
        /\ \A t \in Ids : \A i \in Nat : IsTransfer(t, i) => OnTheWay(t, i)
        /\ \A n, m \in DOMAIN nep5Tx : m < n =>
             \/ nep5Tx[m].tx < nep5Tx[n].tx
             \/ nep5Tx[m].tx = nep5Tx[n].tx /\ nep5Tx[m].idx < nep5Tx[n].idx
    BY <1>1 DEF IInv, OrderInv, RowsInOrder, TransfersOnTheWay
  <2>2. \A t, i : IsTransfer(t, i) <=> <<t, i>> \in Transfers
    BY DEF IsTransfer, Transfers
  <2>3. \A p \in Transfers : p = <<p[1], p[2]>> BY DEF Transfers
  <2>4. ASSUME NEW n \in DOMAIN nep5Tx
        PROVE  <<nep5Tx[n].tx, nep5Tx[n].idx>>
                 \in {p \in Transfers : Done(p[1], p[2])} \ dropped
    <3>1. PICK r : r = nep5Tx[n] OBVIOUS
    <3>2. RowFits(r) /\ OfAsset(r) BY <3>1, <2>1
    <3>3. IsTransfer(r.tx, r.idx) /\ Done(r.tx, r.idx)
      BY <3>2 DEF RowFits, OfAsset, IsTransfer
    <3>4. PICK u : u = <<r.tx, r.idx>> OBVIOUS
    <3>5. Stored(u[1], u[2]) BY <3>1, <3>4 DEF Stored
    <3>6. u \notin dropped BY <3>5, <1>1 DEF IInv, DroppedApart
    <3> QED BY <3>1, <3>3, <3>4, <3>6, <2>2
  <2>5. ASSUME NEW p \in Transfers, Done(p[1], p[2]), p \notin dropped
        PROVE  \E n \in DOMAIN nep5Tx : p = <<nep5Tx[n].tx, nep5Tx[n].idx>>
    <3>1. PICK t, i : t = p[1] /\ i = p[2] OBVIOUS
    <3>2. IsTransfer(t, i) /\ Done(t, i) /\ p = <<t, i>> BY <3>1, <2>2, <2>3, <2>5
    <3>3. t \in Ids /\ i \in Nat
      <4>1. /\ txMax \in Nat /\ 1..txMax \subseteq Ids /\ chain \in Seq(Txs)
            /\ txMax <= MaxTx
        BY <1>1, TypesFacts DEF IInv, OrderInv
      <4>2. t \in 1..txMax /\ i \in 0..(Len(chain[t].log) - 1) BY <3>2 DEF IsTransfer
      <4>3. Len(chain[t].log) \in Nat BY <4>1, <4>2, TxFacts
      <4> QED BY <4>1, <4>2, <4>3
    <3>4. Stored(t, i) BY <3>2, <3>3, <2>1, <2>5 DEF OnTheWay
    <3> QED BY <3>2, <3>4 DEF Stored
  <2>6. {<<nep5Tx[n].tx, nep5Tx[n].idx>> : n \in DOMAIN nep5Tx}
          = {p \in Transfers : Done(p[1], p[2])} \ dropped
    BY <2>4, <2>5
  <2>7. \A n \in DOMAIN nep5Tx : \A m \in 1..(n - 1) : m \in DOMAIN nep5Tx /\ m < n
    <3>1. nep5Tx \in Seq([tx : Ids, idx : Nat, id : DOMAIN nep5])
      BY <1>1 DEF IInv, OrderInv, Types, TypeOK
    <3>2. Len(nep5Tx) \in Nat /\ DOMAIN nep5Tx = 1..Len(nep5Tx) BY <3>1, LenProperties
    <3> QED BY <3>2
  <2> QED BY <2>1, <2>6, <2>7 DEF RowFits
<1> QED BY <1>1, Nep5Invariance, PTL

\* As long as ids are stable, and wherever the process dies: table nep5 has one
\* row for each asset registered up to the counter, and none for another.
THEOREM AssetsRecorded == Spec => []AssetsExact
<1>1. IInv => AssetsExact BY DEF IInv
<1> QED BY <1>1, Nep5Invariance, PTL

\* As long as ids are stable, every migration up to the counter was executed or
\* is on its way, but for one that a restart stepped over because the row of
\* table nep5 of the same transaction had set the counter.
THEOREM MigrationsExecuted == Spec => []MigrationsExact
<1>1. ASSUME IInv PROVE MigrationsExact
  <2> SUFFICES ASSUME IdsStable
               PROVE  /\ \A t \in 1..counter[1] :
                           Should(t) => t \in migrations \cup cut \cup Pending("migrate")
                      /\ \A t \in migrations : Should(t) /\ t <= counter[1]
                      /\ \A t \in cut : /\ t \notin migrations
                                        /\ Registers(t, chain[t].hash)
                                        /\ ~RegisteredBefore(t, chain[t].hash)
    BY DEF MigrationsExact, Should
  <2>1. /\ \A t \in Ids : Taken(t) /\ Should(t) =>
             t \in migrations \/ t \in cut \/ MigrationQueued(t)
        /\ \A t \in migrations : t <= counter[1] /\ Should(t)
        /\ \A t \in cut : t \notin migrations /\ t <= counter[1] /\ FirstRegister(t)
    BY <1>1 DEF IInv, MigrationsOnTheWay
  <2>2. \A t : MigrationQueued(t) => t \in Pending("migrate")
    BY DEF MigrationQueued, Pending, Queue, ToSet
  <2>3. ASSUME NEW t \in 1..counter[1], Should(t)
        PROVE  t \in migrations \cup cut \cup Pending("migrate")
    <3>1. t \in 1..txMax /\ t \in Ids /\ t <= counter[1]
      BY <1>1, TypesFacts DEF IInv, OrderInv
    <3>2. Relevant(t) /\ chain[t].kind # "call" BY <3>1, <2>3 DEF Should, Relevant
    <3>3. Taken(t) BY <3>1, <3>2, <1>1, CountedTaken DEF IInv
    <3> QED BY <3>1, <3>3, <2>1, <2>2, <2>3
  <2> QED BY <2>1, <2>3 DEF FirstRegister, Registering
<1> QED BY <1>1, Nep5Invariance, PTL

\* addr_tx has one row for every transaction with a transfer among the rows of
\* nep5_tx that insertNep5AddrTxRecord has passed, wherever a page of it ends.
THEOREM AddrTxRecorded == Spec => []AddrTxExact
<1>1. IInv => AddrTxExact BY DEF IInv
<1> QED BY <1>1, Nep5Invariance, PTL
=============================================================================
