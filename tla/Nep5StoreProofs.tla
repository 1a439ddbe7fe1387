--------------------------- MODULE Nep5StoreProofs ---------------------------
(***************************************************************************)
(* Machine-checked proofs about Nep5Store: that table, cache and counts    *)
(* agree, that every transfer counts once, and that a balance asked of a   *)
(* server at one time and written at another is the right one in the end.  *)
(***************************************************************************)
EXTENDS Nep5Store, SequenceTheorems, FiniteSetTheorems, WellFoundedInduction, TLAPS

Elems(s) == {s[i] : i \in 1..Len(s)}

\* The operations of a transaction, in their order.
Rank(o) == IF o.op = "balance" THEN 0 ELSE IF o.op = "transfer" THEN 1 ELSE 2
Ahead(o, p) == o.tx < p.tx \/ (o.tx = p.tx /\ Rank(o) < Rank(p))
InOrder(s) == \A i, j \in 1..Len(s) : i < j => Ahead(s[i], s[j])

\* What a transaction is: a registration, the first of them, a transfer of the
\* asset after that which was not dropped, or one that names a.
IsReg(t) == chain[t].x.kind = "reg"
RegBefore(t) == \E r \in 1..(t - 1) : IsReg(r)
IsFirstReg(t) == IsReg(t) /\ ~RegBefore(t)
IsTransfer(t) == /\ chain[t].x.kind = "call" /\ Parties(chain[t].x) # {}
                 /\ t \notin dropped /\ RegBefore(t)
Names(t, a) == ~IsReg(t) /\ a \in {chain[t].x.who, chain[t].x.from, chain[t].x.to}

\* The balance of an address that no later transaction names is that at the tip.
Steady == \A h \in 0..tip, a \in Addrs :
  (\A u \in (h + 1)..tip : ~Names(u, a)) => BalanceAt(h, a) = BalanceAt(tip, a)

\* The counter and the row of the asset say what is done; what is not is up to
\* handleNep5Tx.
Resumable ==
  /\ counter[2] = 0 => counter[1] >= 1 /\ ~IsReg(counter[1])
  /\ rows = 1 <=> RegBefore(counter[1] + 1)

\* An answer for a is its balance at a height that is not below the block of the
\* operation, unless BestHeight was.
Answered(o, a) ==
  \E h \in 0..tip : o.bal[a] = BalanceAt(h, a) /\ (~o.behind => o.tx <= h)

\* What is true of an operation on its way.
OpOK(o) ==
  /\ o.tx <= stored
  /\ o.tx < next \/ (o.tx = next /\ o.op = "balance" /\ stage = "transfer")
  /\ o.op \in {"balance", "counter"} => counter[1] <= o.tx
  /\ o.op \in {"transfer", "asset"} => counter[1] < o.tx
  /\ o.op \in {"balance", "transfer"} => o.touch \subseteq vouts
  /\ o.op = "balance" => \A a \in o.touch : o.bal[a] > 0
  /\ o.op = "transfer" => /\ IsTransfer(o.tx) /\ o.touch = Parties(chain[o.tx].x)
                          /\ o.idx = 0 /\ \A a \in o.touch : Answered(o, a)
  /\ o.op = "asset" => IsFirstReg(o.tx)
  /\ o.op = "counter" => ~IsReg(o.tx)
QueueOK == InOrder(queue) /\ \A o \in Elems(queue) : OpOK(o)

\* What was dropped lies behind handleNep5Tx.
DropsPast == \A t \in dropped : t <= next /\ (applogIdx = -1 => t < next)

\* Nothing else is left out between the counter and handleNep5Tx.
Queued(kind, t) == \E o \in Elems(queue) : o.op = kind /\ o.tx = t
Progress ==
  /\ ~up => queue = <<>> /\ ~retried
  /\ up => /\ applogIdx = -1 => counter[1] < next
           /\ applogIdx = 0 => counter[1] = next /\ counter[2] = 0
           /\ stage = "transfer" => next <= stored /\ ~IsReg(next)
           /\ known <=> RegBefore(next)
           /\ DropsPast
           /\ \A t \in (counter[1] + 1)..(next - 1) :
                /\ IsTransfer(t) => Queued("transfer", t)
                /\ IsFirstReg(t) => Queued("asset", t)

\* The cache of a running process.
CacheOK ==
  /\ up /\ ~retried => \A a \in Addrs \ refused : cacheBal[a] = balance[a]
  /\ up => \A a \in Addrs : /\ cacheAt[a] <= next
                            /\ \A o \in Elems(queue) : cacheAt[a] <= o.tx
  /\ retried => losses > 0
  /\ losses = 0 => refused = {}
  /\ up /\ losses = 0 => cacheAddr \subseteq address

\* The addresses of a transfer have balances, and those that did not lag are not
\* older than it.
Fresh == losses = 0 =>
  \A t \in TransferTxs : \A a \in Parties(chain[t].x) :
    /\ balance[a] # None
    /\ a \notin lagged => \E h \in t..tip : balance[a] = BalanceAt(h, a)

\* The inductive invariant.
IInv == /\ TypeOK /\ Steady /\ Resumable /\ QueueOK /\ Progress /\ CacheOK
        /\ HoldersCounted /\ TransfersOnce /\ Fresh
-----------------------------------------------------------------------------
LEMMA AppendOp ==
  ASSUME NEW s \in Seq(Ops), InOrder(s), NEW o \in Ops, \A x \in Elems(s) : Ahead(x, o)
  PROVE  /\ Append(s, o) \in Seq(Ops) /\ Len(Append(s, o)) = Len(s) + 1
         /\ InOrder(Append(s, o)) /\ Elems(Append(s, o)) = Elems(s) \cup {o}
         /\ Len(s) \in Nat
<1>1. PICK z : z = Append(s, o) OBVIOUS
<1>2. PICK n : n = Len(s) OBVIOUS
<1>3. /\ z \in Seq(Ops) /\ n \in Nat /\ Len(z) = n + 1
      /\ z[n + 1] = o /\ \A i \in 1..n : z[i] = s[i]
  BY <1>1, <1>2, AppendProperties, LenProperties
<1>4. \A i : i \in 1..(n + 1) <=> i \in 1..n \/ i = n + 1 BY <1>3
<1>5. \A x : x \in Elems(z) <=> x \in Elems(s) \/ x = o
  BY <1>2, <1>3, <1>4 DEF Elems
<1>6. ASSUME NEW i \in 1..Len(z), NEW j \in 1..Len(z), i < j
      PROVE  Ahead(z[i], z[j])
  <2>1. i \in 1..n /\ z[i] = s[i] /\ s[i] \in Elems(s) BY <1>2, <1>3, <1>6 DEF Elems
  <2>2. CASE j \in 1..n BY <2>1, <2>2, <1>2, <1>3, <1>6 DEF InOrder
  <2>3. CASE j = n + 1 BY <2>1, <2>3, <1>3, <1>6
  <2> QED BY <2>2, <2>3, <1>3, <1>4
<1> QED BY <1>1, <1>2, <1>3, <1>5, <1>6 DEF InOrder

LEMMA TailOps ==
  ASSUME NEW s \in Seq(Ops), s # <<>>, InOrder(s)
  PROVE  /\ Tail(s) \in Seq(Ops) /\ Len(Tail(s)) = Len(s) - 1 /\ Len(s) \in Nat
         /\ Head(s) \in Ops
         /\ Elems(s) = Elems(Tail(s)) \cup {Head(s)}
         /\ \A x \in Elems(Tail(s)) : Ahead(Head(s), x)
         /\ InOrder(Tail(s))
<1>1. PICK z : z = Tail(s) OBVIOUS
<1>2. PICK n : n = Len(s) OBVIOUS
<1>3. /\ n \in Nat \ {0} /\ z \in Seq(Ops) /\ Len(z) = n - 1
      /\ \A i \in 1..(n - 1) : z[i] = s[i + 1]
      /\ Head(s) = s[1] /\ Head(s) \in Ops
  BY <1>1, <1>2, EmptySeq, HeadTailProperties, LenProperties
<1>4. \A i \in 1..(n - 1) : i + 1 \in 1..n /\ 1 < i + 1 BY <1>3
<1>5. \A i \in 1..n : i = 1 \/ (i - 1 \in 1..(n - 1) /\ i = (i - 1) + 1) BY <1>3
<1>6. 1 \in 1..n BY <1>3
<1>7. \A x \in Elems(z) : x \in Elems(s) /\ Ahead(s[1], x)
  BY <1>2, <1>3, <1>4, <1>6 DEF Elems, InOrder
<1>8. ASSUME NEW x \in Elems(s) PROVE x = s[1] \/ x \in Elems(z)
  <2>1. PICK i \in 1..n : x = s[i] BY <1>2 DEF Elems
  <2>2. CASE i = 1 BY <2>1, <2>2
  <2>3. CASE i - 1 \in 1..(n - 1) /\ i = (i - 1) + 1
    <3>1. z[i - 1] = x BY <2>1, <2>3, <1>3
    <3> QED BY <3>1, <2>3, <1>3 DEF Elems
  <2> QED BY <2>2, <2>3, <1>5
<1>9. s[1] \in Elems(s) BY <1>2, <1>6 DEF Elems
<1>10. Elems(s) = Elems(z) \cup {s[1]} BY <1>7, <1>8, <1>9
<1>11. InOrder(z)
  <2> SUFFICES ASSUME NEW i \in 1..(n - 1), NEW j \in 1..(n - 1), i < j
               PROVE  Ahead(z[i], z[j])
    BY <1>3 DEF InOrder
  <2>1. i + 1 < j + 1 BY <1>3
  <2> QED BY <2>1, <1>2, <1>3, <1>4 DEF InOrder
<1> QED BY <1>1, <1>2, <1>3, <1>7, <1>10, <1>11

LEMMA NoOps == Elems(<<>>) = {} /\ InOrder(<<>>) /\ <<>> \in Seq(Ops) /\ Len(<<>>) = 0
BY DEF Elems, InOrder

LEMMA ElemsAreOps == ASSUME NEW s \in Seq(Ops) PROVE Elems(s) \subseteq Ops
BY ElementOfSeq DEF Elems

LEMMA ChainTypes ==
  ASSUME TypeOK
  PROVE  /\ tip \in Nat /\ tip <= MaxBlocks
         /\ \A t \in 1..tip :
              /\ chain[t].x.kind \in {"reg", "call"}
              /\ Caller(chain[t].x) \subseteq Addrs /\ Parties(chain[t].x) \subseteq Addrs
         /\ \A h \in 0..tip, a \in Addrs : BalanceAt(h, a) \in Balances
<1>1. tip \in Nat /\ tip <= MaxBlocks BY LenProperties DEF TypeOK, tip
<1>2. \A t \in 1..tip : chain[t] \in [x : Shapes, bal : [Addrs -> Balances]]
  BY ElementOfSeq DEF TypeOK, tip
<1>3. ASSUME NEW t \in 1..tip
      PROVE  /\ chain[t].x.kind \in {"reg", "call"}
             /\ Caller(chain[t].x) \subseteq Addrs /\ Parties(chain[t].x) \subseteq Addrs
  <2>1. chain[t].x \in [kind : {"reg", "call"}, who : Addrs \cup {NoAddr},
                        from : Addrs \cup {NoAddr}, to : Addrs \cup {NoAddr}]
    BY <1>2, StoreBounds
  <2> QED BY <2>1 DEF Caller, Parties
<1>4. ASSUME NEW h \in 0..tip, NEW a \in Addrs PROVE BalanceAt(h, a) \in Balances
  <2>1. CASE h = 0 BY <2>1, StoreBounds DEF BalanceAt, Balances
  <2>2. CASE h # 0
    <3>1. h \in 1..tip BY <2>2, <1>1
    <3> QED BY <3>1, <2>2, <1>2 DEF BalanceAt
  <2> QED BY <2>1, <2>2
<1> QED BY <1>1, <1>3, <1>4

\* Blocks stay as they are, and so do the drops that the counter covers.
ChainKept == /\ tip <= tip' /\ \A u \in 1..tip : chain'[u] = chain[u]
             /\ \A u \in 1..counter[1] : u \in dropped' <=> u \in dropped

LEMMA PastKept ==
  ASSUME TypeOK, ChainKept, tip' \in Nat
  PROVE  /\ \A t \in 1..tip : /\ IsReg(t)' <=> IsReg(t)
                              /\ (t \in dropped' <=> t \in dropped) =>
                                   (IsTransfer(t)' <=> IsTransfer(t))
                              /\ IsFirstReg(t)' <=> IsFirstReg(t)
                              /\ Parties(chain'[t].x) = Parties(chain[t].x)
         /\ \A t \in 1..(tip + 1) : RegBefore(t)' <=> RegBefore(t)
         /\ \A h \in 0..tip, a \in Addrs : BalanceAt(h, a)' = BalanceAt(h, a)
         /\ \A t \in 1..tip, a \in Addrs : Names(t, a)' <=> Names(t, a)
<1>1. tip \in Nat BY ChainTypes
<1>2. ASSUME NEW t \in 1..tip PROVE IsReg(t)' <=> IsReg(t)
  BY DEF ChainKept, IsReg
<1>3. ASSUME NEW t \in 1..(tip + 1) PROVE RegBefore(t)' <=> RegBefore(t)
  <2>1. \A r \in 1..(t - 1) : r \in 1..tip BY <1>1
  <2> QED BY <2>1, <1>2 DEF RegBefore
<1>4. ASSUME NEW t \in 1..tip
      PROVE  /\ (t \in dropped' <=> t \in dropped) =>
                  (IsTransfer(t)' <=> IsTransfer(t))
             /\ IsFirstReg(t)' <=> IsFirstReg(t)
             /\ Parties(chain'[t].x) = Parties(chain[t].x)
  <2>1. chain'[t] = chain[t] BY DEF ChainKept
  <2>2. RegBefore(t)' <=> RegBefore(t) BY <1>1, <1>3
  <2>3. (t \in dropped' <=> t \in dropped) => (IsTransfer(t)' <=> IsTransfer(t))
    BY <2>1, <2>2 DEF IsTransfer
  <2>4. IsFirstReg(t)' <=> IsFirstReg(t) BY <2>2, <1>2 DEF IsFirstReg
  <2> QED BY <2>1, <2>3, <2>4
<1>5. ASSUME NEW h \in 0..tip, NEW a \in Addrs PROVE BalanceAt(h, a)' = BalanceAt(h, a)
  <2>1. CASE h = 0 BY <2>1 DEF BalanceAt
  <2>2. CASE h # 0
    <3>1. h \in 1..tip BY <2>2, <1>1
    <3> QED BY <3>1, <2>2 DEF BalanceAt, ChainKept
  <2> QED BY <2>1, <2>2
<1>6. ASSUME NEW t \in 1..tip, NEW a \in Addrs PROVE Names(t, a)' <=> Names(t, a)
  <2>1. chain'[t] = chain[t] BY DEF ChainKept
  <2> QED BY <2>1, <1>2 DEF Names
<1> QED BY <1>2, <1>3, <1>4, <1>5, <1>6

LEMMA SameChain ==
  ASSUME TypeOK, chain' = chain,
         \A u \in 1..counter[1] : u \in dropped' <=> u \in dropped
  PROVE  ChainKept /\ tip' = tip /\ tip' \in Nat
BY ChainTypes DEF ChainKept, tip

\* An operation on its way stays what it is.
LEMMA OpKept ==
  ASSUME TypeOK, ChainKept, tip' \in Nat, stored <= stored', stored' \in Nat,
         vouts \subseteq vouts',
         NEW o \in Ops, OpOK(o),
         o.tx < next' \/ (o.tx = next' /\ o.op = "balance" /\ stage' = "transfer"),
         o.op \in {"balance", "counter"} => counter'[1] <= o.tx,
         o.op \in {"transfer", "asset"} => counter'[1] < o.tx,
         o.op = "transfer" => (o.tx \in dropped' <=> o.tx \in dropped)
  PROVE  OpOK(o)'
<1>1. tip \in Nat /\ stored \in Nat /\ stored <= tip BY ChainTypes DEF TypeOK
<1>2. o.tx \in 1..tip /\ o.tx <= stored'
  BY <1>1 DEF OpOK, Ops
<1>3. /\ IsReg(o.tx)' <=> IsReg(o.tx)
      /\ o.op = "transfer" => (IsTransfer(o.tx)' <=> IsTransfer(o.tx))
      /\ IsFirstReg(o.tx)' <=> IsFirstReg(o.tx)
      /\ Parties(chain'[o.tx].x) = Parties(chain[o.tx].x)
  BY <1>2, PastKept
<1>4. ASSUME NEW a \in o.touch, Answered(o, a) PROVE Answered(o, a)'
  <2>1. PICK h \in 0..tip : o.bal[a] = BalanceAt(h, a) /\ (~o.behind => o.tx <= h)
    BY <1>4 DEF Answered
  <2>2. a \in Addrs BY DEF Ops
  <2>3. BalanceAt(h, a)' = BalanceAt(h, a) BY <2>2, PastKept
  <2>4. h \in 0..tip' BY <1>1 DEF ChainKept
  <2> QED BY <2>1, <2>3, <2>4 DEF Answered
<1>5. o.op \in {"balance", "transfer"} => o.touch \subseteq vouts'
  BY DEF OpOK
<1>6. o.op = "transfer" =>
        /\ IsTransfer(o.tx)' /\ o.touch = Parties(chain'[o.tx].x)
        /\ o.idx = 0 /\ \A a \in o.touch : Answered(o, a)'
  BY <1>3, <1>4 DEF OpOK
<1> QED BY <1>2, <1>3, <1>5, <1>6 DEF OpOK
-----------------------------------------------------------------------------
LEMMA CounterRange ==
  ASSUME TypeOK
  PROVE  /\ stored \in Nat /\ stored <= tip /\ tip \in Nat /\ MaxBlocks \in Nat
         /\ tip <= MaxBlocks
         /\ counter[1] \in Nat /\ counter[1] <= stored
         /\ next \in Nat /\ next >= 1 /\ next - 1 <= stored
BY ChainTypes, StoreBounds DEF TypeOK

\* The transfers up to the counter, when the counter and they stay the same.
LEMMA TransfersKept ==
  ASSUME TypeOK, ChainKept, tip' \in Nat, counter' = counter
  PROVE  /\ TransferTxs' = TransferTxs /\ TransferTxs \subseteq 1..tip
         /\ \A t \in TransferTxs : Parties(chain'[t].x) = Parties(chain[t].x)
<1>1. \A t \in 1..counter[1] : t \in 1..tip BY CounterRange
<1>2. TransferTxs = {t \in 1..counter[1] : IsTransfer(t)}
  BY DEF TransferTxs, IsTransfer, RegBefore, IsReg
<1>3. TransferTxs' = {t \in 1..counter[1] : IsTransfer(t)'}
  BY DEF TransferTxs, IsTransfer, RegBefore, IsReg
<1>4. \A t \in 1..counter[1] : /\ IsTransfer(t)' <=> IsTransfer(t)
                               /\ Parties(chain'[t].x) = Parties(chain[t].x)
  <2>1. \A t \in 1..counter[1] : t \in dropped' <=> t \in dropped BY DEF ChainKept
  <2> QED BY <2>1, <1>1, PastKept
<1> QED BY <1>1, <1>2, <1>3, <1>4

LEMMA FreshKept ==
  ASSUME TypeOK, Fresh, ChainKept, tip' \in Nat, counter' = counter,
         losses' = 0 => losses = 0 /\ balance' = balance /\ lagged' = lagged
  PROVE  Fresh'
<1> SUFFICES ASSUME losses' = 0, NEW t \in TransferTxs', NEW a \in Parties(chain'[t].x)
             PROVE  /\ balance'[a] # None
                    /\ a \notin lagged' => \E h \in t..tip' : balance'[a] = BalanceAt(h, a)'
  BY DEF Fresh
<1>1. t \in TransferTxs /\ a \in Parties(chain[t].x) /\ t \in 1..tip
  BY TransfersKept
<1>2. a \in Addrs /\ tip \in Nat BY <1>1, ChainTypes
<1>3. balance'[a] # None BY <1>1 DEF Fresh
<1>4. ASSUME a \notin lagged' PROVE \E h \in t..tip' : balance'[a] = BalanceAt(h, a)'
  <2>1. PICK h \in t..tip : balance[a] = BalanceAt(h, a) BY <1>1, <1>4 DEF Fresh
  <2>2. h \in 0..tip /\ h \in t..tip' BY <1>1, <1>2 DEF ChainKept
  <2>3. BalanceAt(h, a)' = BalanceAt(h, a) BY <1>2, <2>2, PastKept
  <2> QED BY <2>1, <2>2, <2>3
<1> QED BY <1>3, <1>4

LEMMA CountsKept ==
  ASSUME TypeOK, HoldersCounted, TransfersOnce, ChainKept, tip' \in Nat,
         UNCHANGED <<counter, rows, addresses, transfers, balance, address, cntAddr>>,
         losses' = 0 => losses = 0 /\ UNCHANGED <<holding, transNep5>>
  PROVE  HoldersCounted' /\ TransfersOnce'
<1>1. HoldersCounted' BY DEF HoldersCounted
<1>2. /\ TransferTxs' = TransferTxs
      /\ \A t \in TransferTxs : Parties(chain'[t].x) = Parties(chain[t].x)
  BY TransfersKept
<1>3. \A a : {t \in TransferTxs' : a \in Parties(chain'[t].x)}
               = {t \in TransferTxs : a \in Parties(chain[t].x)}
  BY <1>2
<1> QED BY <1>1, <1>2, <1>3 DEF TransfersOnce

LEMMA ResumableKept ==
  ASSUME TypeOK, Resumable, ChainKept, tip' \in Nat, UNCHANGED <<counter, rows>>
  PROVE  Resumable'
<1>1. counter[1] \in 0..tip /\ counter[1] + 1 \in 1..(tip + 1) BY CounterRange
<1>2. RegBefore(counter[1] + 1)' <=> RegBefore(counter[1] + 1)
  <2>1. PICK n : n = counter[1] + 1 OBVIOUS
  <2>2. RegBefore(n)' <=> RegBefore(n) BY <1>1, <2>1, PastKept
  <2> QED BY <2>1, <2>2 DEF RegBefore
<1>3. counter[1] >= 1 => (IsReg(counter[1])' <=> IsReg(counter[1]))
  <2>1. PICK n : n = counter[1] OBVIOUS
  <2>2. n >= 1 => (IsReg(n)' <=> IsReg(n)) BY <1>1, <2>1, PastKept
  <2> QED BY <2>1, <2>2 DEF IsReg
<1> QED BY <1>1, <1>2, <1>3 DEF Resumable

\* The network, the block pipeline and the server table only add to the chain, to
\* what is stored of it and to the outputs.
LEMMA EnvironmentStep ==
  ASSUME IInv, TypeOK', Steady', ChainKept, stored <= stored', vouts \subseteq vouts',
         UNCHANGED <<up, taskVars, queue, retried, cacheVars, assetVars, rowVars,
                     counter, lagged, dropped, crashes, losses>>
  PROVE  IInv'
<1> USE DEF IInv
<1>1. UNCHANGED <<up, next, stage, applogIdx, known, queue, retried, cacheAddr, cacheBal,
                  cacheAt, refused, rows, addresses, holding, transfers, balance, address,
                  transNep5, cntAddr, counter, lagged, dropped, losses>>
  BY DEF taskVars, cacheVars, assetVars, rowVars
<1>2. tip' \in Nat /\ stored' \in Nat
  <2>1. tip' \in Nat BY LenProperties DEF TypeOK, tip
  <2> QED BY <2>1 DEF TypeOK
<1>3. Resumable' BY <1>1, <1>2, ResumableKept
<1>4. HoldersCounted' /\ TransfersOnce' BY <1>1, <1>2, CountsKept
<1>5. Fresh' BY <1>1, <1>2, FreshKept
<1>6. QueueOK'
  <2>1. \A o \in Elems(queue) : OpOK(o)'
    <3> SUFFICES ASSUME NEW o \in Elems(queue) PROVE OpOK(o)' OBVIOUS
    <3>1. o \in Ops BY ElemsAreOps DEF TypeOK
    <3>2. OpOK(o) BY DEF QueueOK
    <3>3. /\ o.tx < next' \/ (o.tx = next' /\ o.op = "balance" /\ stage' = "transfer")
          /\ o.op \in {"balance", "counter"} => counter'[1] <= o.tx
          /\ o.op \in {"transfer", "asset"} => counter'[1] < o.tx
      BY <3>2, <1>1 DEF OpOK
    <3> QED BY <3>1, <3>2, <3>3, <1>2, OpKept
  <2>2. InOrder(queue') BY <1>1 DEF QueueOK
  <2>3. \A o \in Elems(queue') : OpOK(o)' BY <2>1, <1>1
  <2> QED BY <2>2, <2>3 DEF QueueOK
<1>7. Progress'
  <2>1. /\ stored \in Nat /\ stored <= tip /\ tip \in Nat /\ counter[1] \in Nat
        /\ next \in Nat /\ next >= 1 /\ next - 1 <= stored
    BY CounterRange
  <2>2. RegBefore(next)' <=> RegBefore(next)
    <3>1. PICK n : n = next OBVIOUS
    <3>2. RegBefore(n)' <=> RegBefore(n) BY <2>1, <3>1, <1>2, PastKept
    <3> QED BY <3>1, <3>2, <1>1 DEF RegBefore
  <2>3. stage = "transfer" /\ up => (IsReg(next)' <=> IsReg(next))
    <3>1. PICK n : n = next OBVIOUS
    <3>2. n <= stored => (IsReg(n)' <=> IsReg(n)) BY <2>1, <3>1, <1>2, PastKept
    <3> QED BY <3>1, <3>2, <1>1 DEF IsReg, Progress
  <2>4. ASSUME NEW t \in (counter[1] + 1)..(next - 1)
        PROVE  (IsTransfer(t)' <=> IsTransfer(t)) /\ (IsFirstReg(t)' <=> IsFirstReg(t))
    <3>1. t \in 1..tip BY <2>1
    <3> QED BY <3>1, <1>1, <1>2, PastKept
  <2>5. up' /\ stage' = "transfer" => next' <= stored' /\ ~IsReg(next)'
    BY <2>1, <2>3, <1>1, <1>2 DEF Progress
  <2>6. \A kind, t : Queued(kind, t)' <=> Queued(kind, t) BY <1>1 DEF Queued
  <2>7. up' => \A t \in (counter'[1] + 1)..(next' - 1) :
                  /\ IsTransfer(t)' => Queued("transfer", t)'
                  /\ IsFirstReg(t)' => Queued("asset", t)'
    BY <2>4, <2>6, <1>1 DEF Progress
  <2>8. up' => DropsPast' BY <1>1 DEF Progress, DropsPast
  <2> QED BY <2>2, <2>5, <2>7, <2>8, <1>1 DEF Progress
<1>8. CacheOK' BY <1>1 DEF CacheOK
<1> QED BY <1>3, <1>4, <1>5, <1>6, <1>7, <1>8

\* A block changes the balances of the addresses it names.
LEMMA NewBlockStep == ASSUME IInv, NewBlock PROVE IInv'
<1> USE DEF IInv
<1>1. PICK x \in Shapes, bal \in [Addrs -> Balances] :
        /\ \A a \in Addrs : bal[a] = BalanceAt(tip, a)
                            \/ (x.kind = "call" /\ a \in {x.who, x.from, x.to})
        /\ chain' = Append(chain, [x |-> x, bal |-> bal])
  BY DEF NewBlock
<1>2. PICK n : n = tip OBVIOUS
<1>3. /\ n \in Nat /\ n < MaxBlocks /\ MaxBlocks \in Nat
      /\ UNCHANGED <<vouts, blockVars, up, taskVars, queue, retried, cacheVars,
                     assetVars, rowVars, counter, lagged, dropped, crashes, losses>>
  BY <1>2, CounterRange DEF NewBlock
<1>4. UNCHANGED <<stored, best, vouts, up, next, stage, applogIdx, known, queue, retried,
                  cacheAddr, cacheBal, cacheAt, refused, rows, addresses, holding,
                  transfers, balance, address, transNep5, cntAddr, counter, lagged,
                  dropped, crashes, losses>>
  BY <1>3 DEF blockVars, taskVars, cacheVars, assetVars, rowVars
<1>5. /\ chain' \in Seq([x : Shapes, bal : [Addrs -> Balances]])
      /\ tip' = n + 1 /\ \A u \in 1..n : chain'[u] = chain[u]
      /\ chain'[n + 1] = [x |-> x, bal |-> bal]
  <2>1. chain \in Seq([x : Shapes, bal : [Addrs -> Balances]]) BY DEF TypeOK
  <2>2. [x |-> x, bal |-> bal] \in [x : Shapes, bal : [Addrs -> Balances]] OBVIOUS
  <2> QED BY <2>1, <2>2, <1>1, <1>2, AppendProperties DEF tip
<1>6. ChainKept /\ tip' \in Nat BY <1>2, <1>3, <1>4, <1>5 DEF ChainKept
<1>7. TypeOK' BY <1>2, <1>3, <1>4, <1>5 DEF TypeOK
<1>8. Steady'
  <2> SUFFICES ASSUME NEW h \in 0..(n + 1), NEW a \in Addrs,
                      \A u \in (h + 1)..(n + 1) : ~Names(u, a)'
               PROVE  BalanceAt(h, a)' = BalanceAt(n + 1, a)'
    <3>1. Steady' <=> \A h \in 0..(n + 1), a \in Addrs :
            (\A u \in (h + 1)..(n + 1) : ~Names(u, a)') => BalanceAt(h, a)' = BalanceAt(n + 1, a)'
      BY <1>5 DEF Steady, BalanceAt, Names, IsReg
    <3> QED BY <3>1
  <2>1. CASE h = n + 1 BY <2>1 DEF BalanceAt
  <2>2. CASE h \in 0..n
    <3>1. n + 1 \in (h + 1)..(n + 1) BY <1>3, <2>2
    <3>2. ~(x.kind # "reg" /\ a \in {x.who, x.from, x.to})
      BY <3>1, <1>5 DEF Names, IsReg
    <3>3. bal[a] = BalanceAt(n, a) BY <3>2, <1>1, <1>2
    <3>4. BalanceAt(n + 1, a)' = bal[a] BY <1>3, <1>5 DEF BalanceAt
    <3>5. \A u \in (h + 1)..n : ~Names(u, a)
      <4>1. \A u \in (h + 1)..n : u \in 1..n /\ u \in (h + 1)..(n + 1) BY <1>3, <2>2
      <4> QED BY <4>1, <1>2, <1>6, PastKept
    <3>6. BalanceAt(h, a) = BalanceAt(n, a) BY <3>5, <2>2, <1>2 DEF Steady
    <3>7. BalanceAt(h, a)' = BalanceAt(h, a) BY <2>2, <1>2, <1>6, PastKept
    <3> QED BY <3>3, <3>4, <3>6, <3>7
  <2> QED BY <2>1, <2>2, <1>3
<1> QED BY <1>3, <1>4, <1>6, <1>7, <1>8, CounterRange, EnvironmentStep

\* InsertBlock, the best height and the servers leave the chain alone.
LEMMA PipelineStep == ASSUME IInv, StoreBlock \/ RaiseBest \/ RefreshServers PROVE IInv'
<1> USE DEF IInv
<1>1. /\ chain' = chain /\ stored <= stored' /\ stored' \in 0..tip /\ vouts \subseteq vouts'
      /\ vouts' \subseteq Addrs /\ best' \in 0..tip
      /\ UNCHANGED <<up, taskVars, queue, retried, cacheVars, assetVars, rowVars,
                     counter, lagged, dropped, crashes, losses>>
  <2>1. stored \in Nat /\ stored <= tip /\ tip \in Nat BY CounterRange
  <2>2. vouts \subseteq Addrs /\ best \in 0..tip BY DEF TypeOK
  <2>3. CASE StoreBlock BY <2>1, <2>2, <2>3 DEF StoreBlock
  <2>4. CASE RaiseBest BY <2>1, <2>2, <2>4 DEF RaiseBest, netVars
  <2>5. CASE RefreshServers BY <2>1, <2>2, <2>5 DEF RefreshServers, netVars
  <2> QED BY <2>3, <2>4, <2>5
<1>2. UNCHANGED <<up, next, stage, applogIdx, known, queue, retried,
                  cacheAddr, cacheBal, cacheAt, refused, rows, addresses, holding,
                  transfers, balance, address, transNep5, cntAddr, counter, lagged,
                  dropped, crashes, losses>>
  BY <1>1 DEF taskVars, cacheVars, assetVars, rowVars
<1>3. ChainKept /\ tip' = tip BY <1>1, SameChain
<1>4. TypeOK'
  <2>1. counter[1] \in 0..stored' /\ next \in 1..(stored' + 1)
    BY <1>1, CounterRange
  <2> QED BY <2>1, <1>1, <1>2, <1>3 DEF TypeOK
<1>5. Steady' BY <1>1, <1>3 DEF Steady, BalanceAt, Names, IsReg
<1> QED BY <1>1, <1>3, <1>4, <1>5, EnvironmentStep
-----------------------------------------------------------------------------
\* The steps of handleNep5Tx change its own variables and the queue, and may drop a
\* transfer that the counter has not come to.
HandleOnly ==
  /\ UNCHANGED <<chain, vouts, stored, best, up, retried, cacheAddr, cacheBal, cacheAt,
                 refused, rows, addresses, holding, transfers, balance, address,
                 transNep5, cntAddr, counter, lagged, crashes, losses>>
  /\ dropped' # dropped => applogIdx = -1 /\ up /\ dropped' = dropped \cup {next}

LEMMA HandleFrame ==
  ASSUME IInv, HandleOnly
  PROVE  /\ ChainKept /\ tip' = tip /\ tip' \in Nat
         /\ Steady' /\ Resumable' /\ HoldersCounted' /\ TransfersOnce' /\ Fresh'
         /\ \A t \in 1..tip : /\ IsReg(t)' <=> IsReg(t)
                              /\ t # next \/ dropped' = dropped =>
                                   (IsTransfer(t)' <=> IsTransfer(t))
                              /\ IsFirstReg(t)' <=> IsFirstReg(t)
         /\ \A t \in 1..(tip + 1) : RegBefore(t)' <=> RegBefore(t)
<1> USE DEF IInv, HandleOnly
<1>0. \A u : u # next \/ dropped' = dropped => (u \in dropped' <=> u \in dropped)
  OBVIOUS
<1>1. ChainKept /\ tip' = tip /\ tip' \in Nat
  <2>1. dropped' # dropped => next \notin 1..counter[1] BY CounterRange DEF Progress
  <2>2. \A u \in 1..counter[1] : u \in dropped' <=> u \in dropped BY <2>1, <1>0
  <2> QED BY <2>2, SameChain
<1>2. Steady' BY <1>1 DEF Steady, BalanceAt, Names, IsReg
<1>3. Resumable' BY <1>1, ResumableKept
<1>4. HoldersCounted' /\ TransfersOnce' BY <1>1, CountsKept
<1>5. Fresh' BY <1>1, FreshKept
<1> QED BY <1>0, <1>1, <1>2, <1>3, <1>4, <1>5, PastKept

\* What is queued stays what it is.
LEMMA QueueKept ==
  ASSUME IInv, HandleOnly, next' \in Nat,
         next < next' \/ (next = next' /\ (stage = "transfer" => stage' = "transfer"))
  PROVE  \A o \in Elems(queue) : OpOK(o)'
<1> USE DEF IInv, HandleOnly
<1>1. ChainKept /\ tip' \in Nat BY HandleFrame
<1> SUFFICES ASSUME NEW o \in Elems(queue) PROVE OpOK(o)' OBVIOUS
<1>2. o \in Ops BY ElemsAreOps DEF TypeOK
<1>3. OpOK(o) BY DEF QueueOK
<1>4. o.tx < next' \/ (o.tx = next' /\ o.op = "balance" /\ stage' = "transfer")
  <2>1. o.tx \in Nat /\ next \in Nat BY <1>2, CounterRange DEF Ops
  <2> QED BY <1>3, <2>1 DEF OpOK
<1>5. /\ o.op \in {"balance", "counter"} => counter'[1] <= o.tx
      /\ o.op \in {"transfer", "asset"} => counter'[1] < o.tx
  BY <1>3 DEF OpOK
<1>6. stored <= stored' /\ stored' \in Nat BY CounterRange
<1>7. o.op = "transfer" => (o.tx \in dropped' <=> o.tx \in dropped)
  <2>1. o.tx \in Nat /\ next \in Nat BY <1>2, CounterRange DEF Ops
  <2>2. o.op = "transfer" => o.tx # next BY <1>3, <2>1 DEF OpOK
  <2> QED BY <2>2
<1> QED BY <1>2, <1>3, <1>4, <1>5, <1>6, <1>7, <1>1, OpKept

\* A new operation goes behind what is queued.
LEMMA LastOfAll ==
  ASSUME IInv, NEW o \in Elems(queue), NEW new \in Ops, new.tx = next,
         stage = "transfer" => Rank(new) > 0
  PROVE  o.tx <= next /\ Ahead(o, new)
<1> USE DEF IInv
<1>1. o \in Ops /\ OpOK(o) BY ElemsAreOps DEF TypeOK, QueueOK
<1>2. o.tx \in Nat /\ next \in Nat BY <1>1, CounterRange DEF Ops
<1>3. CASE o.tx < next BY <1>2, <1>3 DEF Ahead
<1>4. CASE o.tx = next /\ o.op = "balance" /\ stage = "transfer"
  BY <1>2, <1>4 DEF Ahead, Rank
<1> QED BY <1>1, <1>3, <1>4 DEF OpOK

LEMMA OpType ==
  ASSUME TypeOK, next <= stored, NEW k \in {"asset", "balance", "transfer"},
         NEW i \in {-1, 0}, NEW S \in SUBSET Addrs, NEW h \in 0..tip
  PROVE  /\ Op(k, i, S, h) \in Ops /\ SetCounter \in Ops
         /\ Op(k, i, S, h).tx = next /\ SetCounter.tx = next
<1>1. next \in 1..MaxBlocks BY CounterRange
<1>2. \A a \in Addrs : BalanceAt(h, a) \in Balances BY ChainTypes
<1>3. (best < next) \in BOOLEAN BY CounterRange DEF TypeOK
<1>4. 0 \in Balances BY StoreBounds DEF Balances
<1> QED BY <1>1, <1>2, <1>3, <1>4 DEF Op, SetCounter, Ops

\* Where the counter is when a transaction is handled.
LEMMA CounterBehind ==
  ASSUME IInv, Busy
  PROVE  /\ next \in 1..stored /\ next \in Nat /\ counter[1] <= next
         /\ applogIdx = -1 => counter[1] < next
         /\ IsReg(next) => applogIdx = -1 /\ stage = "caller"
<1> USE DEF IInv
<1>1. up /\ next <= stored /\ next \in Nat /\ next >= 1 BY CounterRange DEF Busy
<1>2. applogIdx \in {-1, 0} /\ counter[1] \in Nat BY CounterRange DEF TypeOK
<1>3. counter[1] <= next /\ (applogIdx = -1 => counter[1] < next)
  BY <1>1, <1>2 DEF Progress
<1>4. applogIdx = 0 => ~IsReg(next)
  <2>1. counter[2] = 0 => ~IsReg(counter[1]) BY DEF Resumable
  <2> QED BY <2>1, <1>1 DEF Progress, IsReg
<1>5. IsReg(next) => stage = "caller" BY <1>1 DEF Progress, TypeOK
<1> QED BY <1>1, <1>2, <1>3, <1>4, <1>5 DEF TypeOK

\* A step of handleNep5Tx that adds operations of its transaction.
Grown == /\ queue' \in Seq(Ops) /\ Len(queue') <= QueueSize + 2 /\ InOrder(queue')
         /\ Elems(queue) \subseteq Elems(queue')
         /\ \A o \in Elems(queue') : OpOK(o)' /\ (o \in Elems(queue) \/ o.tx = next)

LEMMA GrownStep ==
  ASSUME IInv, HandleOnly, Busy, Grown, next' = next \/ next' = next + 1,
         stage' \in {"caller", "transfer"}, applogIdx' \in {-1, 0}, known' \in BOOLEAN
  PROVE  TypeOK' /\ QueueOK' /\ CacheOK'
<1> USE DEF IInv
<1>1. PICK n : n = next OBVIOUS
<1>2. /\ n \in 1..stored /\ stored \in Nat /\ tip' = tip /\ up' = up
  BY <1>1, CounterBehind, CounterRange, HandleFrame DEF HandleOnly
<1>3. TypeOK'
  <2>1. next' \in 1..(stored + 1) BY <1>1, <1>2
  <2>2. dropped' \subseteq 1..MaxBlocks
    <3>1. next \in 1..MaxBlocks BY <1>1, <1>2, CounterRange
    <3> QED BY <3>1 DEF HandleOnly, TypeOK
  <2> QED BY <2>1, <2>2, <1>2 DEF TypeOK, HandleOnly, Grown
<1>4. QueueOK' BY DEF QueueOK, Grown
<1>5. CacheOK'
  <2>1. UNCHANGED <<up, retried, refused, cacheBal, balance, cacheAt, losses, cacheAddr,
                    address>>
    BY DEF HandleOnly
  <2>2. ASSUME up, NEW a \in Addrs
        PROVE  cacheAt[a] <= next' /\ \A o \in Elems(queue') : cacheAt[a] <= o.tx
    <3>1. cacheAt[a] \in Nat /\ cacheAt[a] <= n /\ \A o \in Elems(queue) : cacheAt[a] <= o.tx
      BY <2>2, <1>1, ChainTypes DEF CacheOK, TypeOK
    <3> QED BY <3>1, <1>1, <1>2 DEF Grown
  <2> QED BY <2>1, <2>2 DEF CacheOK
<1> QED BY <1>3, <1>4, <1>5

LEMMA HandleRegStep == ASSUME IInv, HandleReg PROVE IInv'
<1> USE DEF IInv
<1>1. /\ HandleOnly /\ Busy /\ IsReg(next) /\ dropped' = dropped
      /\ known' = TRUE /\ next' = next + 1 /\ stage' = stage
  BY DEF HandleReg, HandleOnly, netVars, blockVars, cacheVars, assetVars, rowVars, IsReg
<1>2. /\ next \in 1..stored /\ next \in Nat /\ counter[1] < next
      /\ applogIdx = -1 /\ applogIdx' = -1 /\ stage = "caller"
  BY <1>1, CounterBehind DEF HandleReg
<1>3. /\ stored \in Nat /\ stored <= tip /\ tip \in Nat /\ counter[1] \in Nat
      /\ counter'[1] = counter[1] /\ up' = up /\ up
  BY <1>1, CounterRange DEF HandleOnly, Busy
<1>4. PICK n : n = next OBVIOUS
<1>5. /\ Steady' /\ Resumable' /\ HoldersCounted' /\ TransfersOnce' /\ Fresh'
      /\ \A t \in 1..tip : /\ IsReg(t)' <=> IsReg(t)
                           /\ IsTransfer(t)' <=> IsTransfer(t)
                           /\ IsFirstReg(t)' <=> IsFirstReg(t)
      /\ \A t \in 1..(tip + 1) : RegBefore(t)' <=> RegBefore(t)
      /\ tip' = tip /\ tip' \in Nat
  BY <1>1, HandleFrame
<1>6. known <=> RegBefore(n) BY <1>3, <1>4 DEF Progress
<1>7. \A o \in Elems(queue) : OpOK(o)' BY <1>1, <1>2, QueueKept
<1>8. Grown /\ (~known => \E o \in Elems(queue') : o.op = "asset" /\ o.tx = n)
  <2>0. Len(queue) \in Nat /\ Len(queue) <= QueueSize /\ QueueSize \in Nat
    BY <1>1, LenProperties, StoreBounds DEF Busy, TypeOK
  <2>1. CASE known
    <3>1. queue' = queue BY <2>1 DEF HandleReg
    <3> QED BY <2>0, <2>1, <3>1, <1>7 DEF TypeOK, QueueOK, Grown
  <2>2. CASE ~known
    <3>1. PICK h \in Answers(MinHeight(next)) :
            queue' = Append(queue, Op("asset", -1, Caller(chain[next].x), h))
      BY <2>2 DEF HandleReg
    <3>2. PICK o : o = Op("asset", -1, Caller(chain[next].x), h) OBVIOUS
    <3>3. h \in 0..tip
      BY <1>2, <1>3 DEF Answers, MinHeight, TypeOK
    <3>4. Caller(chain[next].x) \subseteq Addrs
      <4>1. next \in 1..tip BY <1>2, <1>3
      <4> QED BY <4>1, ChainTypes
    <3>5. o \in Ops /\ o.tx = n /\ o.op = "asset"
      <4>1. -1 \in {-1, 0} /\ "asset" \in {"asset", "balance", "transfer"} /\ next <= stored
        BY <1>2
      <4>2. o \in Ops /\ o.tx = next BY <4>1, <3>2, <3>3, <3>4, OpType
      <4> QED BY <4>2, <3>2, <1>4 DEF Op
    <3>6. \A x \in Elems(queue) : Ahead(x, o)
      BY <3>5, <1>2, <1>4, LastOfAll
    <3>7. /\ queue' \in Seq(Ops) /\ Len(queue') = Len(queue) + 1 /\ InOrder(queue')
          /\ Elems(queue') = Elems(queue) \cup {o}
      BY <3>1, <3>2, <3>5, <3>6, AppendOp DEF TypeOK, QueueOK
    <3>8. OpOK(o)'
      <4>1. n \in 1..tip /\ stored' = stored BY <1>1, <1>2, <1>3, <1>4 DEF HandleOnly
      <4>2. IsFirstReg(n) BY <1>1, <1>4, <1>6, <2>2 DEF IsFirstReg, IsReg
      <4>3. IsFirstReg(n)' BY <4>1, <4>2, <1>5
      <4>4. o.tx <= stored' /\ o.tx < next' /\ counter'[1] < o.tx
        BY <3>5, <4>1, <1>1, <1>2, <1>3, <1>4
      <4> QED BY <4>3, <4>4, <3>5 DEF OpOK, IsFirstReg, IsReg, RegBefore
    <3> QED BY <2>0, <3>5, <3>7, <3>8, <1>4, <1>7 DEF Grown
  <2> QED BY <2>1, <2>2
<1>9. TypeOK' /\ QueueOK' /\ CacheOK'
  BY <1>1, <1>2, <1>8, GrownStep DEF TypeOK
<1>10. Progress'
  <2>1. RegBefore(next)'
    <3>1. n \in 1..(n + 1 - 1) /\ IsReg(n)' BY <1>1, <1>2, <1>3, <1>4, <1>5 DEF IsReg
    <3>2. RegBefore(n + 1)' BY <3>1 DEF RegBefore
    <3> QED BY <3>2, <1>1, <1>4 DEF RegBefore
  <2>2. ASSUME NEW t \in (counter[1] + 1)..n
        PROVE  /\ IsTransfer(t)' => Queued("transfer", t)'
               /\ IsFirstReg(t)' => Queued("asset", t)'
    <3>1. t \in 1..tip BY <1>2, <1>3, <1>4
    <3>2. CASE t \in (counter[1] + 1)..(n - 1)
      <4>1. /\ IsTransfer(t) => Queued("transfer", t)
            /\ IsFirstReg(t) => Queued("asset", t)
        BY <3>2, <1>3, <1>4 DEF Progress
      <4> QED BY <4>1, <3>1, <1>5, <1>8 DEF Queued, Grown
    <3>3. CASE t = n
      <4>1. ~IsTransfer(n) BY <1>1, <1>4 DEF IsTransfer, IsReg
      <4>2. IsFirstReg(n) => ~known BY <1>6 DEF IsFirstReg
      <4> QED BY <4>1, <4>2, <3>1, <3>3, <1>5, <1>8 DEF Queued
    <3> QED BY <3>2, <3>3, <1>2, <1>3, <1>4
  <2>3. (counter'[1] + 1)..(next' - 1) = (counter[1] + 1)..n BY <1>1, <1>2, <1>3, <1>4
  <2>4. counter'[1] < next' BY <1>1, <1>2, <1>3
  <2>5. up' /\ stage' # "transfer" /\ applogIdx' # 0 /\ known' = TRUE
    BY <1>1, <1>2, <1>3
  <2>6. DropsPast'
    <3>1. DropsPast /\ \A t \in dropped : t \in Nat BY <1>3 DEF Progress, TypeOK
    <3> QED BY <3>1, <1>1, <1>2 DEF DropsPast
  <2> QED BY <2>1, <2>2, <2>3, <2>4, <2>5, <2>6 DEF Progress
<1> QED BY <1>5, <1>9, <1>10

LEMMA HandleCallerStep == ASSUME IInv, HandleCaller PROVE IInv'
<1> USE DEF IInv
<1>1. /\ HandleOnly /\ Busy /\ ~IsReg(next) /\ dropped' = dropped
      /\ known' = known /\ next' = next /\ stage = "caller" /\ stage' = "transfer"
      /\ applogIdx' = applogIdx
  BY DEF HandleCaller, HandleOnly, netVars, blockVars, cacheVars, assetVars, rowVars, IsReg
<1>2. /\ next \in 1..stored /\ next \in Nat /\ counter[1] <= next
      /\ stored \in Nat /\ stored <= tip /\ tip \in Nat /\ counter[1] \in Nat
      /\ counter' = counter /\ up' = up /\ up
  BY <1>1, CounterBehind, CounterRange DEF HandleOnly, Busy
<1>3. PICK n : n = next OBVIOUS
<1>4. /\ Steady' /\ Resumable' /\ HoldersCounted' /\ TransfersOnce' /\ Fresh'
      /\ \A t \in 1..tip : /\ IsReg(t)' <=> IsReg(t)
                           /\ IsTransfer(t)' <=> IsTransfer(t)
                           /\ IsFirstReg(t)' <=> IsFirstReg(t)
      /\ \A t \in 1..(tip + 1) : RegBefore(t)' <=> RegBefore(t)
      /\ tip' = tip /\ tip' \in Nat
  BY <1>1, HandleFrame
<1>5. \A o \in Elems(queue) : OpOK(o)' BY <1>1, <1>2, QueueKept
<1>6. Grown
  <2>0. Len(queue) \in Nat /\ Len(queue) <= QueueSize /\ QueueSize \in Nat
    BY <1>1, LenProperties, StoreBounds DEF Busy, TypeOK
  <2>1. CASE queue' = queue BY <2>0, <2>1, <1>5 DEF TypeOK, QueueOK, Grown
  <2>2. CASE queue' # queue
    <3>1. PICK S : S = Asked(chain[next].x) OBVIOUS
    <3>2. /\ S \subseteq vouts
          /\ \E h \in Answers(best) :
               /\ \A a \in S : Worth(BalanceAt(h, a))
               /\ queue' = Append(queue, Op("balance", -1, S, h))
      BY <2>2, <3>1 DEF HandleCaller
    <3>3. PICK h \in Answers(best) :
            /\ \A a \in S : Worth(BalanceAt(h, a))
            /\ queue' = Append(queue, Op("balance", -1, S, h))
      BY <3>2
    <3>4. PICK o : o = Op("balance", -1, S, h) OBVIOUS
    <3>5. h \in 0..tip BY <1>2 DEF Answers, TypeOK
    <3>6. S \subseteq Addrs BY <3>2 DEF TypeOK
    <3>7. o \in Ops /\ o.tx = n /\ o.op = "balance" /\ o.touch = S
      <4>1. -1 \in {-1, 0} /\ "balance" \in {"asset", "balance", "transfer"} /\ next <= stored
        BY <1>2
      <4>2. o \in Ops /\ o.tx = next BY <4>1, <3>4, <3>5, <3>6, OpType
      <4> QED BY <4>2, <3>4, <1>3 DEF Op
    <3>8. \A x \in Elems(queue) : Ahead(x, o) BY <3>7, <1>1, <1>3, LastOfAll
    <3>9. /\ queue' \in Seq(Ops) /\ Len(queue') = Len(queue) + 1 /\ InOrder(queue')
          /\ Elems(queue') = Elems(queue) \cup {o}
      BY <3>3, <3>4, <3>7, <3>8, AppendOp DEF TypeOK, QueueOK
    <3>10. OpOK(o)'
      <4>1. stored' = stored /\ vouts' = vouts BY <1>1 DEF HandleOnly
      <4>2. \A a \in o.touch : o.bal[a] > 0
        BY <3>3, <3>4, <3>6, <3>7 DEF Worth, Op
      <4> QED BY <4>1, <4>2, <3>2, <3>7, <1>1, <1>2, <1>3 DEF OpOK
    <3> QED BY <2>0, <3>7, <3>9, <3>10, <1>3, <1>5 DEF Grown
  <2> QED BY <2>1, <2>2
<1>7. TypeOK' /\ QueueOK' /\ CacheOK'
  BY <1>1, <1>6, GrownStep DEF TypeOK
<1>8. Progress'
  <2>1. n \in 1..tip BY <1>2, <1>3
  <2>2. ~IsReg(next)'
    <3>1. ~IsReg(n)' BY <2>1, <1>1, <1>3, <1>4 DEF IsReg
    <3> QED BY <3>1, <1>1, <1>3 DEF IsReg
  <2>3. RegBefore(next)' <=> RegBefore(next)
    <3>1. RegBefore(n)' <=> RegBefore(n) BY <2>1, <1>2, <1>4
    <3> QED BY <3>1, <1>1, <1>3 DEF RegBefore
  <2>4. ASSUME NEW t \in (counter[1] + 1)..(n - 1)
        PROVE  /\ IsTransfer(t)' => Queued("transfer", t)'
               /\ IsFirstReg(t)' => Queued("asset", t)'
    <3>1. t \in 1..tip BY <1>2, <1>3
    <3>2. /\ IsTransfer(t) => Queued("transfer", t)
          /\ IsFirstReg(t) => Queued("asset", t)
      BY <1>2, <1>3 DEF Progress
    <3> QED BY <3>1, <3>2, <1>4, <1>6 DEF Queued, Grown
  <2>5. stored' = stored /\ (known' <=> RegBefore(next)) BY <1>1, <1>2 DEF HandleOnly, Progress
  <2>6. /\ applogIdx = -1 => counter[1] < next
        /\ applogIdx = 0 => counter[1] = next /\ counter[2] = 0
    BY <1>2 DEF Progress
  <2>7. DropsPast' BY <1>1, <1>2 DEF Progress, DropsPast
  <2> QED BY <2>2, <2>3, <2>4, <2>5, <2>6, <2>7, <1>1, <1>2, <1>3 DEF Progress
<1> QED BY <1>4, <1>7, <1>8

\* One operation in the queue is not two.
LEMMA Longer ==
  ASSUME NEW s \in Seq(Ops), NEW o \in Ops, NEW c \in Ops
  PROVE  Append(s, c) # Append(Append(s, o), c)
<1>1. Append(s, o) \in Seq(Ops) /\ Len(Append(s, o)) = Len(s) + 1 /\ Len(s) \in Nat
  BY AppendProperties, LenProperties
<1>2. Len(Append(s, c)) = Len(s) + 1 BY AppendProperties
<1>3. Len(Append(Append(s, o), c)) = Len(Append(s, o)) + 1 BY <1>1, AppendProperties
<1> QED BY <1>1, <1>2, <1>3

LEMMA HandleTransferStep == ASSUME IInv, HandleTransfer PROVE IInv'
<1> USE DEF IInv
<1>1. /\ HandleOnly /\ Busy
      /\ known' = known /\ next' = next + 1 /\ stage = "transfer" /\ stage' = "caller"
      /\ applogIdx' = -1
  <2>1. dropped' # dropped => applogIdx = -1 /\ dropped' = dropped \cup {next}
    BY DEF HandleTransfer, Asked, TypeOK
  <2> QED BY <2>1 DEF HandleTransfer, HandleOnly, Busy, netVars, blockVars, cacheVars,
                      assetVars, rowVars
<1>2. /\ next \in 1..stored /\ next \in Nat /\ counter[1] <= next
      /\ applogIdx = -1 => counter[1] < next
      /\ stored \in Nat /\ stored <= tip /\ tip \in Nat /\ counter[1] \in Nat
      /\ counter' = counter /\ up' = up /\ up
  BY <1>1, CounterBehind, CounterRange DEF HandleOnly, Busy
<1>3. PICK n : n = next OBVIOUS
<1>4. /\ Steady' /\ Resumable' /\ HoldersCounted' /\ TransfersOnce' /\ Fresh'
      /\ \A t \in 1..tip : /\ IsReg(t)' <=> IsReg(t)
                           /\ t # n \/ dropped' = dropped =>
                                (IsTransfer(t)' <=> IsTransfer(t))
                           /\ IsFirstReg(t)' <=> IsFirstReg(t)
      /\ \A t \in 1..(tip + 1) : RegBefore(t)' <=> RegBefore(t)
      /\ tip' = tip /\ tip' \in Nat
  BY <1>1, <1>3, HandleFrame
<1>5. \A o \in Elems(queue) : OpOK(o)' BY <1>1, <1>2, QueueKept
<1>6. /\ ~IsReg(n) /\ (known <=> RegBefore(n)) /\ n \in 1..tip
      /\ chain[n].x.kind = "call" /\ Parties(chain[n].x) \subseteq Addrs
  <2>1. ~IsReg(n) /\ (known <=> RegBefore(n)) BY <1>1, <1>2, <1>3 DEF Progress
  <2>2. n \in 1..tip BY <1>2, <1>3
  <2> QED BY <2>1, <2>2, ChainTypes DEF IsReg
<1>7. PICK c : c = SetCounter OBVIOUS
<1>8. c \in Ops /\ c.tx = n /\ c.op = "counter" /\ \A x \in Elems(queue) : Ahead(x, c)
  <2>1. c \in Ops /\ c.tx = next
    <3>1. next <= stored /\ "asset" \in {"asset", "balance", "transfer"} /\ -1 \in {-1, 0}
          /\ {} \in SUBSET Addrs /\ 0 \in 0..tip
      BY <1>2
    <3> QED BY <3>1, <1>7, OpType
  <2>2. c.op = "counter" BY <1>7 DEF SetCounter
  <2> QED BY <2>1, <2>2, <1>3, LastOfAll DEF Rank
<1>9. OpOK(c)'
  <2>1. ~IsReg(n)' BY <1>4, <1>6
  <2>2. ~IsReg(c.tx)' BY <2>1, <1>8 DEF IsReg
  <2>3. c.tx <= stored' /\ c.tx < next' /\ counter'[1] <= c.tx
    BY <1>1, <1>2, <1>3, <1>8 DEF HandleOnly
  <2> QED BY <2>2, <2>3, <1>8 DEF OpOK
<1>10. Grown /\ (applogIdx = -1 /\ IsTransfer(n)' =>
                   \E o \in Elems(queue') : o.op = "transfer" /\ o.tx = n)
  <2>0. Len(queue) \in Nat /\ Len(queue) <= QueueSize /\ QueueSize \in Nat
    BY <1>1, LenProperties, StoreBounds DEF Busy, TypeOK
  <2>1. CASE queue' = Append(queue, SetCounter)
    <3>1. queue' = Append(queue, c) BY <2>1, <1>7
    <3>2. /\ queue' \in Seq(Ops) /\ Len(queue') = Len(queue) + 1 /\ InOrder(queue')
          /\ Elems(queue') = Elems(queue) \cup {c}
      BY <3>1, <1>8, AppendOp DEF TypeOK, QueueOK
    <3>3. Grown BY <3>2, <2>0, <1>3, <1>5, <1>8, <1>9 DEF Grown
    <3>4. applogIdx = -1 => ~IsTransfer(n)'
      <4>1. CASE Asked(chain[next].x) = {} \/ ~known
        <5>1. dropped' = dropped BY <4>1 DEF HandleTransfer
        <5>2. applogIdx = -1 => ~IsTransfer(n)
          BY <4>1, <1>1, <1>3, <1>6 DEF Asked, IsTransfer
        <5> QED BY <5>1, <5>2, <1>4, <1>6
      <4>2. CASE ~(Asked(chain[next].x) = {} \/ ~known)
        <5>1. PICK S : S = Asked(chain[next].x) OBVIOUS
        <5>2. S \subseteq Addrs BY <5>1, <1>1, <1>3, <1>6 DEF Asked
        <5>3. ASSUME NEW h \in Answers(best)
              PROVE  queue' # Append(Append(queue, Op("transfer", 0, S, h)), SetCounter)
          <6>1. h \in 0..tip BY <1>2 DEF Answers, TypeOK
          <6>2. Op("transfer", 0, S, h) \in Ops
            <7>1. /\ 0 \in {-1, 0} /\ "transfer" \in {"asset", "balance", "transfer"}
                  /\ next <= stored
              BY <1>2
            <7> QED BY <7>1, <6>1, <5>2, OpType
          <6> QED BY <6>2, <2>1, <1>7, <1>8, Longer DEF TypeOK
        <5>4. next \in dropped' BY <4>2, <5>1, <5>3 DEF HandleTransfer
        <5> QED BY <5>4, <1>3 DEF IsTransfer
      <4> QED BY <4>1, <4>2
    <3> QED BY <3>3, <3>4
  <2>2. CASE queue' # Append(queue, SetCounter)
    <3>1. PICK S : S = Asked(chain[next].x) OBVIOUS
    <3>2. PICK h \in Answers(best) :
            /\ S \subseteq vouts /\ S # {} /\ known
            /\ queue' = Append(Append(queue, Op("transfer", 0, S, h)), SetCounter)
            /\ dropped' = dropped
      BY <2>2, <3>1 DEF HandleTransfer
    <3>3. PICK o : o = Op("transfer", 0, S, h) OBVIOUS
    <3>4. /\ h \in 0..tip /\ best <= h /\ best \in Nat
      BY <1>2 DEF Answers, TypeOK
    <3>5. applogIdx = -1 /\ S = Parties(chain[n].x) /\ S # {}
      BY <3>1, <3>2, <1>1, <1>3 DEF Asked, TypeOK
    <3>6. /\ o \in Ops /\ o.tx = n /\ o.op = "transfer" /\ o.touch = S /\ o.idx = 0
          /\ o.behind = (best < n) /\ \A a \in Addrs : o.bal[a] = BalanceAt(h, a)
      <4>1. 0 \in {-1, 0} /\ "transfer" \in {"asset", "balance", "transfer"} /\ next <= stored
        BY <1>2
      <4>2. o \in Ops /\ o.tx = next BY <4>1, <3>3, <3>4, <3>5, <1>6, OpType
      <4> QED BY <4>2, <3>3, <1>3 DEF Op
    <3>7. \A x \in Elems(queue) : Ahead(x, o) BY <3>6, <1>3, LastOfAll DEF Rank
    <3>8. PICK q : q = Append(queue, o) OBVIOUS
    <3>9. /\ q \in Seq(Ops) /\ Len(q) = Len(queue) + 1 /\ InOrder(q)
          /\ Elems(q) = Elems(queue) \cup {o}
      BY <3>6, <3>7, <3>8, AppendOp DEF TypeOK, QueueOK
    <3>10. Ahead(o, c) BY <3>6, <1>8 DEF Ahead, Rank
    <3>11. /\ queue' \in Seq(Ops) /\ Len(queue') = Len(q) + 1 /\ InOrder(queue')
           /\ Elems(queue') = Elems(q) \cup {c}
      <4>1. queue' = Append(q, c) BY <3>2, <3>3, <3>8, <1>7
      <4>2. \A x \in Elems(q) : Ahead(x, c) BY <3>9, <3>10, <1>8
      <4> QED BY <4>1, <4>2, <3>9, <1>8, AppendOp
    <3>12. OpOK(o)'
      <4>1. /\ stored' = stored /\ vouts' = vouts /\ chain' = chain
        BY <1>1 DEF HandleOnly
      <4>2. IsTransfer(n)
        <5>1. n \notin dropped
          <6>1. DropsPast BY <1>2 DEF Progress
          <6>2. ~(n < n) BY <1>2, <1>3
          <6> QED BY <6>1, <6>2, <3>5, <1>3 DEF DropsPast
        <5> QED BY <5>1, <3>2, <3>5, <1>6 DEF IsTransfer
      <4>3. IsTransfer(n)' BY <4>2, <3>2, <1>4, <1>6
      <4>4. IsTransfer(o.tx)' BY <4>3, <3>6 DEF IsTransfer, RegBefore, IsReg
      <4>5. ASSUME NEW a \in o.touch PROVE Answered(o, a)'
        <5>1. o.bal[a] = BalanceAt(h, a) BY <3>5, <3>6, <1>6
        <5>2. BalanceAt(h, a)' = BalanceAt(h, a) BY <4>1 DEF BalanceAt
        <5>3. ~o.behind => o.tx <= h
          <6>1. ~o.behind => ~(best < n) BY <3>6, Zenon
          <6>2. ~(best < n) => n <= h BY <3>4, <1>2, <1>3
          <6> QED BY <6>1, <6>2, <3>6
        <5>4. h \in 0..tip' BY <3>4, <1>4
        <5> QED BY <5>1, <5>2, <5>3, <5>4 DEF Answered
      <4>6. o.tx <= stored' /\ o.tx < next' /\ counter'[1] < o.tx
        BY <3>5, <3>6, <4>1, <1>1, <1>2, <1>3
      <4>7. o.touch = Parties(chain'[o.tx].x) /\ o.touch \subseteq vouts'
        BY <3>2, <3>5, <3>6, <4>1
      <4> QED BY <4>4, <4>5, <4>6, <4>7, <3>6 DEF OpOK
    <3>13. Grown BY <3>6, <3>9, <3>11, <3>12, <2>0, <1>3, <1>5, <1>8, <1>9 DEF Grown
    <3>14. o \in Elems(queue') BY <3>9, <3>11
    <3> QED BY <3>6, <3>13, <3>14
  <2> QED BY <2>1, <2>2
<1>11. TypeOK' /\ QueueOK' /\ CacheOK'
  BY <1>1, <1>10, GrownStep DEF TypeOK
<1>12. Progress'
  <2>1. RegBefore(next)' <=> RegBefore(n)
    <3>1. \A r \in 1..n : r \in 1..tip /\ (r \in 1..(n - 1) \/ r = n)
          /\ (r \in 1..(n - 1) => r \in 1..n)
      BY <1>2, <1>3
    <3>2. (\E r \in 1..n : IsReg(r)') <=> (\E r \in 1..(n - 1) : IsReg(r))
      BY <3>1, <1>2, <1>3, <1>4, <1>6
    <3>3. RegBefore(n + 1)' <=> RegBefore(n)
      <4>1. (n + 1) - 1 = n BY <1>2, <1>3
      <4> QED BY <3>2, <4>1 DEF RegBefore
    <3> QED BY <3>3, <1>1, <1>3 DEF RegBefore
  <2>2. ASSUME NEW t \in (counter[1] + 1)..n
        PROVE  /\ IsTransfer(t)' => Queued("transfer", t)'
               /\ IsFirstReg(t)' => Queued("asset", t)'
    <3>1. t \in 1..tip BY <1>2, <1>3
    <3>2. CASE t \in (counter[1] + 1)..(n - 1)
      <4>1. /\ IsTransfer(t) => Queued("transfer", t)
            /\ IsFirstReg(t) => Queued("asset", t)
        BY <3>2, <1>2, <1>3 DEF Progress
      <4>2. t # n BY <3>2, <1>2, <1>3
      <4> QED BY <4>1, <4>2, <3>1, <1>4, <1>10 DEF Queued, Grown
    <3>3. CASE t = n
      <4>1. ~IsFirstReg(n) BY <1>6 DEF IsFirstReg
      <4>2. applogIdx # 0
        <5>1. counter[1] + 1 <= n BY <3>3, <1>2, <1>3
        <5>2. applogIdx = 0 => counter[1] = n BY <1>2, <1>3 DEF Progress
        <5> QED BY <5>1, <5>2, <1>2
      <4>3. applogIdx = -1 BY <4>2 DEF TypeOK
      <4> QED BY <4>1, <4>3, <3>1, <3>3, <1>4, <1>10 DEF Queued
    <3> QED BY <3>2, <3>3, <1>2, <1>3
  <2>3. (counter'[1] + 1)..(next' - 1) = (counter[1] + 1)..n BY <1>1, <1>2, <1>3
  <2>4. counter'[1] < next' BY <1>1, <1>2
  <2>5. up' /\ stage' # "transfer" /\ applogIdx' # 0 /\ (known' <=> RegBefore(n))
    BY <1>1, <1>2, <1>6
  <2>6. DropsPast'
    <3>1. DropsPast /\ \A t \in dropped : t \in Nat BY <1>2 DEF Progress, TypeOK
    <3>2. \A t \in dropped' : t \in dropped \/ t = next BY <1>1 DEF HandleOnly
    <3>3. \A t \in dropped' : t < next + 1 /\ t <= next + 1
      BY <3>1, <3>2, <1>2 DEF DropsPast
    <3> QED BY <3>3, <1>1 DEF DropsPast
  <2> QED BY <2>1, <2>2, <2>3, <2>4, <2>5, <2>6 DEF Progress
<1> QED BY <1>4, <1>11, <1>12
-----------------------------------------------------------------------------
\* Where there is a registration there is a first one.
LEMMA FirstReg ==
  ASSUME NEW T \in Nat, NEW c \in Nat, RegBefore(T + 1), ~RegBefore(c + 1)
  PROVE  \E r \in (c + 1)..T : IsFirstReg(r)
<1> DEFINE R == {ss \in Nat \X Nat : ss[1] < ss[2]}
           S == {r \in 1..T : IsReg(r)}
<1>1. IsWellFoundedOn(R, Nat)
  BY NatLessThanWellFounded, Zenon DEF OpToRel
<1>2. \A a, b \in Nat : b < a => <<b, a>> \in R OBVIOUS
<1>3. (T + 1) - 1 = T /\ (c + 1) - 1 = c OBVIOUS
<1>4. S \subseteq Nat /\ S # {} BY <1>3 DEF RegBefore
<1>5. PICK r \in S : \A b \in S : <<b, r>> \notin R
  <2> HIDE DEF R, S
  <2> QED BY <1>1, <1>4, WFMin
<1>6. r \in 1..T /\ IsReg(r) OBVIOUS
<1>7. \A b \in 1..(r - 1) : ~IsReg(b)
  <2> SUFFICES ASSUME NEW b \in 1..(r - 1), IsReg(b) PROVE FALSE OBVIOUS
  <2>1. b \in S /\ b \in Nat /\ r \in Nat /\ b < r BY <1>6
  <2> HIDE DEF R, S
  <2>2. <<b, r>> \in R BY <2>1, <1>2
  <2> QED BY <2>1, <2>2, <1>5
<1>8. ~(r <= c)
  <2>1. r <= c => r \in 1..c BY <1>6
  <2> QED BY <2>1, <1>3, <1>6 DEF RegBefore
<1>9. r \in (c + 1)..T BY <1>6, <1>8
<1> QED BY <1>6, <1>7, <1>9 DEF IsFirstReg, RegBefore

\* A committed operation leaves the queue; after a retry the process dies.
Committed ==
  /\ UNCHANGED <<chain, vouts, stored, best, next, stage, applogIdx, known, dropped, crashes,
                 losses>>
  /\ up /\ queue # <<>>
  /\ queue' = IF retried THEN <<>> ELSE Tail(queue)
  /\ up' = ~retried /\ retried' = FALSE

LEMMA CommitHead ==
  ASSUME IInv, Committed
  PROVE  /\ Head(queue) \in Ops /\ OpOK(Head(queue))
         /\ queue' \in Seq(Ops) /\ Len(queue') <= QueueSize + 2 /\ InOrder(queue')
         /\ \A o \in Elems(queue) :
              o \in Ops /\ OpOK(o) /\ (o = Head(queue) \/ Ahead(Head(queue), o))
         /\ \A o \in Elems(queue') : o \in Elems(queue) /\ Ahead(Head(queue), o)
         /\ up' => Elems(queue) = Elems(queue') \cup {Head(queue)}
         /\ up' \in BOOLEAN /\ (up' <=> ~retried) /\ (~up' => queue' = <<>>)
<1> USE DEF IInv
<1>1. /\ queue \in Seq(Ops) /\ queue # <<>> /\ InOrder(queue) /\ retried \in BOOLEAN
  BY DEF Committed, TypeOK, QueueOK
<1>2. /\ Tail(queue) \in Seq(Ops) /\ Len(Tail(queue)) = Len(queue) - 1
      /\ Len(queue) \in Nat /\ Head(queue) \in Ops
      /\ Elems(queue) = Elems(Tail(queue)) \cup {Head(queue)}
      /\ \A x \in Elems(Tail(queue)) : Ahead(Head(queue), x)
      /\ InOrder(Tail(queue))
  BY <1>1, TailOps
<1>3. \A o \in Elems(queue) : o \in Ops /\ OpOK(o) BY <1>1, ElemsAreOps DEF QueueOK
<1>4. Len(queue) <= QueueSize + 2 /\ QueueSize \in Nat BY StoreBounds DEF TypeOK
<1>5. up' \in BOOLEAN /\ (up' <=> ~retried) BY <1>1 DEF Committed
<1>6. CASE retried
  <2>1. queue' = <<>> BY <1>6 DEF Committed
  <2> QED BY <2>1, <1>2, <1>3, <1>4, <1>5, <1>6, NoOps
<1>7. CASE ~retried
  <2>1. queue' = Tail(queue) BY <1>7 DEF Committed
  <2> QED BY <2>1, <1>2, <1>3, <1>4, <1>5, <1>7
<1> QED BY <1>1, <1>6, <1>7

LEMMA CommitFrame ==
  ASSUME IInv, Committed
  PROVE  /\ ChainKept /\ tip' = tip /\ tip' \in Nat /\ Steady'
         /\ \A t \in 1..tip : /\ IsReg(t)' <=> IsReg(t)
                              /\ IsTransfer(t)' <=> IsTransfer(t)
                              /\ IsFirstReg(t)' <=> IsFirstReg(t)
         /\ \A t \in 1..(tip + 1) : RegBefore(t)' <=> RegBefore(t)
         /\ \A h \in 0..tip, a \in Addrs : BalanceAt(h, a)' = BalanceAt(h, a)
         /\ up => counter[1] <= next /\ (applogIdx = -1 => counter[1] < next)
<1> USE DEF IInv
<1>1. ChainKept /\ tip' = tip /\ tip' \in Nat BY SameChain DEF Committed
<1>2. Steady' BY <1>1 DEF Steady, BalanceAt, Names, IsReg, Committed
<1>3. up => counter[1] <= next /\ (applogIdx = -1 => counter[1] < next)
  BY CounterRange DEF Progress, TypeOK
<1>4. dropped' = dropped BY DEF Committed
<1> QED BY <1>1, <1>2, <1>3, <1>4, PastKept

\* The counter moves to the transaction of the operation.
Moved(h) == /\ h = Head(queue) /\ h.op # "balance" /\ counter'[1] = h.tx
            /\ counter'[2] \in {-1, 0} /\ (counter'[2] = 0 => h.op = "transfer")
            /\ rows' = IF h.op = "asset" THEN rows + 1 ELSE rows

\* It passes no transfer and no first registration but the one that is done.
LEMMA NothingPassed ==
  ASSUME IInv, Committed, NEW h, Moved(h)
  PROVE  /\ h \in Ops /\ OpOK(h) /\ h.tx \in 1..tip /\ h.tx <= stored /\ h.tx < next
         /\ applogIdx = -1 /\ counter[1] < next /\ counter[1] <= h.tx
         /\ h.op \in {"asset", "transfer"} => counter[1] < h.tx
         /\ \A t \in (counter[1] + 1)..h.tx :
              /\ IsTransfer(t) => h.op = "transfer" /\ t = h.tx
              /\ IsFirstReg(t) => h.op = "asset" /\ t = h.tx
<1> USE DEF IInv
<1>1. /\ h \in Ops /\ OpOK(h) /\ h.op \in {"asset", "transfer", "counter"}
      /\ \A o \in Elems(queue) : o \in Ops /\ OpOK(o) /\ (o = h \/ Ahead(h, o))
  BY CommitHead DEF Moved, Ops
<1>2. /\ stored \in Nat /\ stored <= tip /\ tip \in Nat /\ MaxBlocks \in Nat
      /\ counter[1] \in Nat /\ next \in Nat /\ h.tx \in Nat /\ h.tx >= 1 /\ up
  BY <1>1, CounterRange DEF Committed, Ops
<1>3. /\ h.tx <= stored /\ h.tx < next /\ counter[1] <= h.tx
      /\ h.op \in {"asset", "transfer"} => counter[1] < h.tx
  BY <1>1, <1>2 DEF OpOK
<1>4. h.tx \in 1..tip BY <1>2, <1>3
<1>5. counter[1] < next BY <1>2, <1>3
<1>6. applogIdx = -1
  <2>1. applogIdx = 0 => counter[1] = next BY <1>2 DEF Progress
  <2> QED BY <2>1, <1>2, <1>5 DEF TypeOK
<1>7. ASSUME NEW t \in (counter[1] + 1)..h.tx
      PROVE  /\ IsTransfer(t) => h.op = "transfer" /\ t = h.tx
             /\ IsFirstReg(t) => h.op = "asset" /\ t = h.tx
  <2>1. t \in (counter[1] + 1)..(next - 1) /\ t \in Nat /\ ~(h.tx < t) BY <1>2, <1>3
  <2>2. /\ IsTransfer(t) => Queued("transfer", t)
        /\ IsFirstReg(t) => Queued("asset", t)
    BY <2>1, <1>2 DEF Progress
  <2>3. ASSUME IsTransfer(t) PROVE h.op = "transfer" /\ t = h.tx
    <3>1. PICK o \in Elems(queue) : o.op = "transfer" /\ o.tx = t BY <2>2, <2>3 DEF Queued
    <3>2. ~Ahead(h, o) BY <3>1, <2>1, <1>1 DEF Ahead, Rank
    <3> QED BY <3>1, <3>2, <1>1
  <2>4. ASSUME IsFirstReg(t) PROVE h.op = "asset" /\ t = h.tx
    <3>1. PICK o \in Elems(queue) : o.op = "asset" /\ o.tx = t BY <2>2, <2>4 DEF Queued
    <3>2. CASE o = h BY <3>1, <3>2
    <3>3. CASE Ahead(h, o)
      <4>1. h.tx = t /\ h.op = "transfer" BY <3>1, <3>3, <2>1, <1>1 DEF Ahead, Rank
      <4>2. IsTransfer(t) BY <4>1, <1>1 DEF OpOK
      <4> QED BY <4>2, <2>4 DEF IsTransfer, IsFirstReg, IsReg
    <3> QED BY <3>2, <3>3, <1>1
  <2> QED BY <2>3, <2>4
<1> QED BY <1>1, <1>3, <1>4, <1>5, <1>6, <1>7

LEMMA CounterMoved ==
  ASSUME IInv, Committed, NEW h, Moved(h)
  PROVE  /\ Resumable' /\ QueueOK' /\ Progress' /\ rows' \in {0, 1}
         /\ counter'[1] \in 0..stored
         /\ TransferTxs \subseteq 1..tip
         /\ h.tx \in TransferTxs => h.op = "counter"
         /\ TransferTxs' = IF h.op = "transfer" THEN TransferTxs \cup {h.tx} ELSE TransferTxs
<1> USE DEF IInv
<1>1. /\ h \in Ops /\ OpOK(h) /\ h.tx \in 1..tip /\ h.tx <= stored /\ h.tx < next
      /\ applogIdx = -1 /\ counter[1] < next /\ counter[1] <= h.tx
      /\ h.op \in {"asset", "transfer"} => counter[1] < h.tx
      /\ \A t \in (counter[1] + 1)..h.tx :
           /\ IsTransfer(t) => h.op = "transfer" /\ t = h.tx
           /\ IsFirstReg(t) => h.op = "asset" /\ t = h.tx
  BY NothingPassed
<1>2. /\ stored \in Nat /\ stored <= tip /\ tip \in Nat
      /\ counter[1] \in Nat /\ next \in Nat /\ h.tx \in Nat /\ next - 1 <= stored
  BY <1>1, CounterRange
<1>3. /\ ChainKept /\ tip' = tip /\ tip' \in Nat
      /\ \A t \in 1..tip : /\ IsReg(t)' <=> IsReg(t)
                           /\ IsTransfer(t)' <=> IsTransfer(t)
                           /\ IsFirstReg(t)' <=> IsFirstReg(t)
      /\ \A t \in 1..(tip + 1) : RegBefore(t)' <=> RegBefore(t)
  BY CommitFrame
<1>4. PICK T \in Nat : T = h.tx BY <1>2
<1>5. h.op \in {"asset", "transfer", "counter"} /\ counter'[1] = T BY <1>1, <1>4 DEF Moved, Ops
<1>6. PICK c \in Nat : c = counter[1] BY <1>2
<1>7. rows' \in {0, 1} /\ (rows' = 1 <=> RegBefore(T + 1))
  <2>1. rows \in {0, 1} /\ (rows = 1 <=> RegBefore(c + 1)) BY <1>6 DEF TypeOK, Resumable
  <2>2. \A m, n \in Nat : RegBefore(m + 1) /\ m <= n => RegBefore(n + 1)
    <3> SUFFICES ASSUME NEW m \in Nat, NEW n \in Nat, RegBefore(m + 1), m <= n
                 PROVE  RegBefore(n + 1)
      OBVIOUS
    <3>1. PICK r \in 1..((m + 1) - 1) : IsReg(r) BY DEF RegBefore
    <3>2. r \in 1..((n + 1) - 1) OBVIOUS
    <3> QED BY <3>1, <3>2 DEF RegBefore
  <2>3. h.op = "asset" => IsReg(T) /\ ~RegBefore(T) BY <1>1, <1>4 DEF OpOK, IsFirstReg
  <2>4. CASE h.op = "asset"
    <3>1. ~RegBefore(c + 1)
      <4>1. c <= T - 1 /\ T - 1 \in Nat /\ (T - 1) + 1 = T BY <2>4, <1>1, <1>4, <1>6
      <4>2. RegBefore(c + 1) => RegBefore((T - 1) + 1) BY <4>1, <2>2
      <4> QED BY <4>1, <4>2, <2>3, <2>4
    <3>2. RegBefore(T + 1)
      <4>1. T \in 1..((T + 1) - 1) BY <1>1, <1>4
      <4> QED BY <4>1, <2>3, <2>4 DEF RegBefore
    <3> QED BY <3>1, <3>2, <2>1, <2>4 DEF Moved
  <2>5. CASE h.op # "asset"
    <3>1. rows' = rows BY <2>5 DEF Moved
    <3>2. RegBefore(c + 1) => RegBefore(T + 1) BY <2>2, <1>1, <1>4, <1>6
    <3>3. RegBefore(T + 1) => RegBefore(c + 1)
      <4> SUFFICES ASSUME RegBefore(T + 1), ~RegBefore(c + 1) PROVE FALSE OBVIOUS
      <4>1. PICK r \in (c + 1)..T : IsFirstReg(r) BY FirstReg
      <4> QED BY <4>1, <2>5, <1>1, <1>4, <1>6
    <3> QED BY <3>1, <3>2, <3>3, <2>1
  <2> QED BY <2>4, <2>5
<1>8. Resumable'
  <2>1. RegBefore(T + 1)' <=> RegBefore(T + 1)
    <3>1. T + 1 \in 1..(tip + 1) BY <1>1, <1>2, <1>4
    <3> QED BY <3>1, <1>3
  <2>2. RegBefore(counter[1] + 1)' <=> RegBefore(T + 1)' BY <1>5 DEF RegBefore, IsReg
  <2>3. h.op = "transfer" => ~IsReg(T)'
    <3>1. h.op = "transfer" => ~IsReg(T) BY <1>1, <1>4 DEF OpOK, IsTransfer, IsReg
    <3> QED BY <3>1, <1>1, <1>3, <1>4
  <2>4. IsReg(counter[1])' <=> IsReg(T)' BY <1>5 DEF IsReg
  <2> QED BY <2>1, <2>2, <2>3, <2>4, <1>1, <1>4, <1>5, <1>7 DEF Resumable, Moved
<1>9. QueueOK'
  <2>1. /\ InOrder(queue')
        /\ \A o \in Elems(queue') : o \in Elems(queue) /\ Ahead(h, o)
        /\ \A o \in Elems(queue) : o \in Ops /\ OpOK(o)
    BY CommitHead DEF Moved
  <2>2. ASSUME NEW o \in Elems(queue') PROVE OpOK(o)'
    <3>1. o \in Ops /\ OpOK(o) /\ Ahead(h, o) /\ o.tx \in Nat BY <2>1 DEF Ops
    <3>2. T <= o.tx BY <3>1, <1>4 DEF Ahead
    <3>3. o.op \in {"transfer", "asset"} => T < o.tx
      <4> SUFFICES ASSUME o.op \in {"transfer", "asset"}, T = o.tx PROVE FALSE
        BY <3>1, <3>2
      <4>1. Rank(h) < Rank(o) BY <3>1, <1>4 DEF Ahead
      <4>2. h.op = "transfer" /\ o.op = "asset" BY <4>1, <1>5 DEF Rank
      <4>3. IsTransfer(T) /\ IsFirstReg(T) BY <4>2, <3>1, <1>1, <1>4 DEF OpOK
      <4> QED BY <4>3 DEF IsTransfer, IsFirstReg, IsReg
    <3>4. o.tx < next' \/ (o.tx = next' /\ o.op = "balance" /\ stage' = "transfer")
      BY <3>1 DEF OpOK, Committed
    <3>5. stored' = stored /\ vouts' = vouts /\ dropped' = dropped BY DEF Committed
    <3> QED BY <3>1, <3>2, <3>3, <3>4, <3>5, <1>2, <1>3, <1>5, OpKept
  <2> QED BY <2>1, <2>2 DEF QueueOK
<1>10. Progress'
  <2>1. /\ up /\ UNCHANGED <<next, stage, applogIdx, known, stored>>
        /\ retried' = FALSE
        /\ (~up' => queue' = <<>>)
        /\ (up' => Elems(queue) = Elems(queue') \cup {h})
    BY CommitHead DEF Committed, Moved
  <2>2. PICK n : n = next OBVIOUS
  <2>3. RegBefore(next)' <=> RegBefore(next)
    <3>1. n \in 1..(tip + 1) BY <1>1, <1>2, <2>2
    <3>2. RegBefore(n)' <=> RegBefore(n) BY <3>1, <1>3
    <3> QED BY <3>2, <2>1, <2>2 DEF RegBefore
  <2>4. stage = "transfer" => next <= stored /\ ~IsReg(next)'
    <3>1. stage = "transfer" => n <= stored /\ ~IsReg(n) BY <2>1, <2>2 DEF Progress
    <3>2. n <= stored => (IsReg(n)' <=> IsReg(n))
      <4>1. n <= stored => n \in 1..tip BY <1>1, <1>2, <2>2
      <4> QED BY <4>1, <1>3
    <3> QED BY <3>1, <3>2, <2>1, <2>2 DEF IsReg
  <2>5. ASSUME up', NEW t \in (T + 1)..(n - 1)
        PROVE  /\ IsTransfer(t)' => Queued("transfer", t)'
               /\ IsFirstReg(t)' => Queued("asset", t)'
    <3>1. t \in 1..tip /\ t \in (c + 1)..(n - 1) /\ t # T
      BY <1>1, <1>2, <1>4, <1>6, <2>2
    <3>2. /\ IsTransfer(t) => Queued("transfer", t)
          /\ IsFirstReg(t) => Queued("asset", t)
      BY <3>1, <2>1, <2>2, <1>6 DEF Progress
    <3>3. \A o \in Elems(queue) : o.tx = t => o \in Elems(queue')
      BY <3>1, <2>1, <2>5, <1>4
    <3> QED BY <3>1, <3>2, <3>3, <1>3 DEF Queued
  <2>6. known <=> RegBefore(next) BY <2>1 DEF Progress
  <2>7. (counter'[1] + 1)..(next' - 1) = (T + 1)..(n - 1) BY <1>5, <2>1, <2>2
  <2>8. counter'[1] < next' /\ applogIdx' = -1 BY <1>1, <1>4, <1>5, <2>1
  <2>9. up' => /\ known' <=> RegBefore(next)'
               /\ stage' = "transfer" => next' <= stored' /\ ~IsReg(next)'
    BY <2>1, <2>3, <2>4, <2>6
  <2>10. ~up' => queue' = <<>> /\ ~retried' BY <2>1
  <2>11. up' => \A t \in (counter'[1] + 1)..(next' - 1) :
                  /\ IsTransfer(t)' => Queued("transfer", t)'
                  /\ IsFirstReg(t)' => Queued("asset", t)'
    BY <2>5, <2>7
  <2>12. applogIdx' = -1 => counter'[1] < next' BY <2>8
  <2>13. applogIdx' # 0 BY <2>8
  <2>14. DropsPast' BY <2>1 DEF Progress, DropsPast, Committed
  <2> QED BY <2>9, <2>10, <2>11, <2>12, <2>13, <2>14 DEF Progress
<1>11. TransferTxs = {t \in 1..c : IsTransfer(t)}
  BY <1>6 DEF TransferTxs, IsTransfer, RegBefore, IsReg
<1>12. TransferTxs' = {t \in 1..T : IsTransfer(t)'}
  BY <1>5 DEF TransferTxs, IsTransfer, RegBefore, IsReg
<1>13. TransferTxs' = IF h.op = "transfer" THEN TransferTxs \cup {h.tx} ELSE TransferTxs
  <2>1. \A t \in 1..T : t \in 1..tip /\ (t \in 1..c \/ t \in (c + 1)..T)
    BY <1>1, <1>2, <1>4, <1>6
  <2>2. \A t \in 1..c : t \in 1..T BY <1>1, <1>4, <1>6
  <2>3. h.op = "transfer" => IsTransfer(T) /\ T \in 1..T BY <1>1, <1>4 DEF OpOK
  <2> QED BY <2>1, <2>2, <2>3, <1>1, <1>3, <1>4, <1>6, <1>11, <1>12
<1>14. TransferTxs \subseteq 1..tip BY <1>1, <1>2, <1>6, <1>11
<1>15. h.tx \in TransferTxs => h.op = "counter"
  BY <1>1, <1>2, <1>5, <1>6, <1>11
<1>16. counter'[1] \in 0..stored BY <1>1, <1>2, <1>4, <1>5
<1> QED BY <1>7, <1>8, <1>9, <1>10, <1>13, <1>14, <1>15, <1>16

LEMMA PlainCommitStep == ASSUME IInv, InsertNep5Asset \/ UpdateCounter PROVE IInv'
<1> USE DEF IInv
<1>1. PICK h : h = Head(queue) OBVIOUS
<1>2. /\ Committed /\ Moved(h) /\ h.op \in {"asset", "counter"}
      /\ UNCHANGED <<cacheAddr, cacheBal, cacheAt, refused, addresses, holding, transfers,
                     balance, address, transNep5, cntAddr, lagged>>
  BY <1>1 DEF InsertNep5Asset, UpdateCounter, Commit, Committed, Moved, netVars, blockVars,
              taskVars, cacheVars, assetVars, rowVars
<1>3. /\ Resumable' /\ QueueOK' /\ Progress' /\ rows' \in {0, 1}
      /\ counter'[1] \in 0..stored /\ TransferTxs' = TransferTxs
  BY <1>2, CounterMoved
<1>4. /\ Steady' /\ tip' = tip /\ chain' = chain
  BY <1>2, CommitFrame DEF Committed
<1>5. /\ queue' \in Seq(Ops) /\ Len(queue') <= QueueSize + 2
      /\ \A o \in Elems(queue') : o \in Elems(queue)
      /\ up' \in BOOLEAN /\ (up' <=> ~retried)
  BY <1>2, CommitHead
<1>6. TypeOK' BY <1>2, <1>3, <1>4, <1>5 DEF TypeOK, Committed, Moved
<1>7. CacheOK' BY <1>2, <1>5 DEF CacheOK, Committed
<1>8. HoldersCounted' BY <1>2 DEF HoldersCounted, Committed
<1>9. TransfersOnce' BY <1>2, <1>3, <1>4 DEF TransfersOnce, Committed
<1>10. Fresh' BY <1>2, <1>3, <1>4 DEF Fresh, BalanceAt, Committed
<1> QED BY <1>3, <1>4, <1>6, <1>7, <1>8, <1>9, <1>10

\* An operation touches its addresses, all of them.
LEMMA CachedAll ==
  ASSUME NEW op \in Ops
  PROVE  AddrsUpTo(op, All) = op.touch /\ AccsUpTo(op, All) = op.touch
<1>1. op.touch \subseteq Addrs /\ IsFiniteSet(Addrs) BY StoreBounds DEF Ops
<1>2. Cardinality(Addrs) \in Nat BY <1>1, FS_CardinalityType
<1>3. ASSUME NEW a \in op.touch
      PROVE  Place(op, a) \in Nat /\ Place(op, a) <= Cardinality(Addrs)
  <2>1. {b \in op.touch : b <= a} \subseteq Addrs BY <1>1
  <2> QED BY <2>1, <1>1, FS_Subset, FS_CardinalityType DEF Place
<1>4. \A a \in op.touch : 2 * Place(op, a) <= All /\ 2 * Place(op, a) - 1 <= All
  BY <1>2, <1>3 DEF All
<1> QED BY <1>4 DEF AddrsUpTo, AccsUpTo

\* The size of a set that loses a part of it and gains what is not in it.
LEMMA SizeAfter ==
  ASSUME NEW P, NEW A, NEW D, IsFiniteSet(P), IsFiniteSet(A), A \cap P = {}, D \subseteq P
  PROVE  /\ Cardinality((P \ D) \cup A) = Cardinality(P) + Cardinality(A) - Cardinality(D)
         /\ Cardinality(P \cup A) = Cardinality(P) + Cardinality(A)
<1>1. /\ IsFiniteSet(D) /\ Cardinality(P) \in Nat /\ Cardinality(A) \in Nat
      /\ Cardinality(D) \in Nat
  BY FS_Subset, FS_CardinalityType
<1>2. /\ IsFiniteSet(P \ D) /\ Cardinality(P \ D) = Cardinality(P) - Cardinality(P \cap D)
  BY FS_Difference
<1>3. P \cap D = D OBVIOUS
<1>4. Cardinality(P \cap A) = 0 /\ Cardinality((P \ D) \cap A) = 0
  <2>1. P \cap A = {} /\ (P \ D) \cap A = {} OBVIOUS
  <2> QED BY <2>1, FS_EmptySet
<1>5. Cardinality(P \cup A) = Cardinality(P) + Cardinality(A) - Cardinality(P \cap A)
  BY FS_Union
<1>6. Cardinality((P \ D) \cup A)
        = Cardinality(P \ D) + Cardinality(A) - Cardinality((P \ D) \cap A)
  BY <1>2, FS_Union
<1>7. Cardinality(P \ D) = Cardinality(P) - Cardinality(D) BY <1>2, <1>3
<1> QED BY <1>1, <1>4, <1>5, <1>6, <1>7

\* What an operation on the balances of its addresses leaves in the cache and in the
\* table of the addresses.
Rewritten(h) == /\ h = Head(queue) /\ h.op \in {"balance", "transfer"} /\ ~Fails(h)
                /\ InsertAddrs(h) /\ Cached(h, All)

LEMMA CacheWritten ==
  ASSUME IInv, Committed, NEW h, Rewritten(h)
  PROVE  /\ h \in Ops /\ OpOK(h) /\ h.touch \subseteq vouts
         /\ cacheAddr' = cacheAddr \cup h.touch /\ cacheAddr' \subseteq vouts
         /\ address' \subseteq vouts /\ cntAddr' = Cardinality(address')
         /\ cacheBal' = [a \in Addrs |-> IF a \in h.touch THEN h.bal[a] ELSE cacheBal[a]]
         /\ cacheAt' \in [Addrs -> 0..tip]
         /\ up' => \A a \in Addrs : /\ cacheAt'[a] <= next
                                    /\ \A o \in Elems(queue') : cacheAt'[a] <= o.tx
         /\ losses = 0 => cacheAddr' \subseteq address'
         /\ \A a \in NewAccs(h) : balance[a] = None
         /\ \A a \in h.touch : UpToDate(a, h.tx)
<1> USE DEF IInv
<1>1. /\ h \in Ops /\ OpOK(h) /\ h \in Elems(queue)
      /\ \A o \in Elems(queue) : o \in Ops /\ (o = h \/ Ahead(h, o))
      /\ \A o \in Elems(queue') : o \in Elems(queue) /\ Ahead(h, o)
  <2>1. queue # <<>> /\ queue \in Seq(Ops) /\ InOrder(queue)
    BY DEF Committed, TypeOK, QueueOK
  <2>2. h \in Elems(queue) BY <2>1, TailOps DEF Rewritten
  <2> QED BY <2>2, CommitHead DEF Rewritten
<1>2. /\ h.touch \subseteq Addrs /\ h.touch \subseteq vouts /\ h.tx \in Nat
      /\ h.tx <= next /\ h.tx <= tip /\ next \in Nat /\ tip \in Nat
  <2>1. next \in Nat /\ stored \in Nat /\ stored <= tip /\ tip \in Nat BY CounterRange
  <2> QED BY <1>1, <2>1 DEF OpOK, Ops, Rewritten
<1>3. /\ NewAddrs(h) = h.touch \ cacheAddr /\ NewAddrs(h) \cap address = {}
      /\ \A a \in NewAccs(h) : balance[a] = None
  BY DEF Rewritten, Fails, NewAddrs
<1>4. \A a \in Addrs : /\ cacheAt[a] \in 0..tip /\ cacheAt[a] <= next
                       /\ \A o \in Elems(queue) : cacheAt[a] <= o.tx
  BY DEF CacheOK, TypeOK, Committed
<1>5. \A a \in h.touch : UpToDate(a, h.tx)
  BY <1>1, <1>2, <1>4 DEF UpToDate
<1>6. AddrsUpTo(h, All) = h.touch /\ AccsUpTo(h, All) = h.touch
  BY <1>1, CachedAll
<1>7. /\ cacheAddr' = cacheAddr \cup h.touch
      /\ cacheBal' = [a \in Addrs |-> IF a \in h.touch THEN h.bal[a] ELSE cacheBal[a]]
      /\ cacheAt' = [a \in Addrs |-> IF a \in h.touch /\ cacheBal[a] # None
                                     THEN h.tx ELSE cacheAt[a]]
  BY <1>5, <1>6 DEF Rewritten, Cached
<1>8. address' = address \cup NewAddrs(h) /\ cntAddr' = cntAddr + Cardinality(NewAddrs(h))
  BY DEF Rewritten, InsertAddrs
<1>9. cntAddr' = Cardinality(address')
  <2>1. IsFiniteSet(address) /\ IsFiniteSet(NewAddrs(h))
    <3>1. address \subseteq Addrs /\ NewAddrs(h) \subseteq Addrs BY <1>2, <1>3 DEF TypeOK
    <3> QED BY <3>1, StoreBounds, FS_Subset
  <2>2. cntAddr = Cardinality(address) BY DEF HoldersCounted
  <2> QED BY <2>1, <2>2, <1>3, <1>8, SizeAfter
<1>10. cacheAt' \in [Addrs -> 0..tip] BY <1>2, <1>4, <1>7
<1>11. ASSUME NEW a \in Addrs
       PROVE  cacheAt'[a] <= next /\ \A o \in Elems(queue') : cacheAt'[a] <= o.tx
  <2>1. cacheAt'[a] = h.tx \/ cacheAt'[a] = cacheAt[a] BY <1>7
  <2>2. \A o \in Elems(queue') : h.tx <= o.tx BY <1>1, <1>2 DEF Ahead, Ops
  <2> QED BY <2>1, <2>2, <1>1, <1>2, <1>4
<1>12. losses = 0 => cacheAddr' \subseteq address'
  <2>1. losses = 0 => cacheAddr \subseteq address BY DEF CacheOK, Committed
  <2> QED BY <2>1, <1>3, <1>7, <1>8
<1>13. cacheAddr' \subseteq vouts /\ address' \subseteq vouts
  BY <1>2, <1>3, <1>7, <1>8 DEF TypeOK
<1> QED BY <1>1, <1>2, <1>3, <1>5, <1>7, <1>9, <1>10, <1>11, <1>12, <1>13

\* The rows that are written, and those that are new.
LEMMA RowsWritten ==
  ASSUME TypeOK, HoldersCounted, NEW op \in Ops, WriteBalances(op),
         \A a \in NewAccs(op) : balance[a] = None
  PROVE  /\ balance' \in [Addrs -> Balances \cup {None}] /\ lagged' \subseteq Addrs
         /\ \A a \in Addrs :
              balance'[a] = IF a \in NewAccs(op) \/ (a \in op.touch /\ balance[a] # None)
                            THEN op.bal[a] ELSE balance[a]
         /\ \A a \in Addrs : op.bal[a] \in Balances /\ op.bal[a] # None
         /\ addresses' = Cardinality({a \in Addrs : balance'[a] # None})
<1>1. /\ op.touch \subseteq Addrs /\ op.bal \in [Addrs -> Balances]
      /\ NewAccs(op) \subseteq op.touch
  BY DEF Ops, NewAccs
<1>2. \A a \in Addrs : op.bal[a] \in Balances /\ op.bal[a] # None
  BY <1>1, StoreBounds DEF Balances, None
<1>3. /\ balance' = [a \in Addrs |->
              IF a \in NewAccs(op) \cup {b \in op.touch : balance[b] # None}
              THEN op.bal[a] ELSE balance[a]]
      /\ addresses' = addresses + Cardinality(NewAccs(op))
      /\ lagged' = lagged \cup op.touch \/ lagged' = lagged \ op.touch
  BY DEF WriteBalances
<1>4. balance \in [Addrs -> Balances \cup {None}] /\ lagged \subseteq Addrs BY DEF TypeOK
<1>5. balance' \in [Addrs -> Balances \cup {None}] BY <1>2, <1>3, <1>4
<1>6. \A a \in Addrs :
        balance'[a] = IF a \in NewAccs(op) \/ (a \in op.touch /\ balance[a] # None)
                      THEN op.bal[a] ELSE balance[a]
  BY <1>3
<1>7. addresses' = Cardinality({a \in Addrs : balance'[a] # None})
  <2> DEFINE P == {a \in Addrs : balance[a] # None}
             Q == {a \in Addrs : balance'[a] # None}
             N == NewAccs(op)
  <2>1. Q = P \cup N BY <1>1, <1>2, <1>6
  <2>2. N \cap P = {} OBVIOUS
  <2>3. IsFiniteSet(P) /\ IsFiniteSet(N)
    <3>1. P \subseteq Addrs /\ N \subseteq Addrs BY <1>1
    <3> QED BY <3>1, StoreBounds, FS_Subset
  <2>4. addresses = Cardinality(P) BY DEF HoldersCounted
  <2> HIDE DEF P, Q, N
  <2>5. Cardinality(P \cup N) = Cardinality(P) + Cardinality(N) BY <2>2, <2>3, SizeAfter
  <2>6. addresses' = Cardinality(Q) BY <1>3, <2>1, <2>4, <2>5 DEF N
  <2> QED BY <2>6 DEF Q
<1>8. lagged' \subseteq Addrs BY <1>1, <1>3, <1>4
<1> QED BY <1>2, <1>5, <1>6, <1>7, <1>8

LEMMA UpdateCallerBalanceStep == ASSUME IInv, UpdateCallerBalance PROVE IInv'
<1> USE DEF IInv
<1>1. PICK h : h = Head(queue) OBVIOUS
<1>2. PICK N : N = NewAccs(h) OBVIOUS
<1>3. PICK w : w = [h EXCEPT !.touch = N] OBVIOUS
<1>4. /\ Committed /\ Rewritten(h) /\ h.op = "balance" /\ WriteBalances(w)
      /\ holding' = holding + Cardinality(N)
      /\ UNCHANGED <<rows, transfers, transNep5, counter, refused>>
  BY <1>1, <1>2, <1>3 DEF UpdateCallerBalance, Commit, Committed, Rewritten, netVars,
                          blockVars, taskVars
<1>5. /\ h \in Ops /\ OpOK(h) /\ h.touch \subseteq vouts
      /\ cacheAddr' = cacheAddr \cup h.touch /\ cacheAddr' \subseteq vouts
      /\ address' \subseteq vouts /\ cntAddr' = Cardinality(address')
      /\ cacheBal' = [a \in Addrs |-> IF a \in h.touch THEN h.bal[a] ELSE cacheBal[a]]
      /\ cacheAt' \in [Addrs -> 0..tip]
      /\ up' => \A a \in Addrs : /\ cacheAt'[a] <= next
                                 /\ \A o \in Elems(queue') : cacheAt'[a] <= o.tx
      /\ losses = 0 => cacheAddr' \subseteq address'
      /\ \A a \in N : balance[a] = None
      /\ \A a \in h.touch : UpToDate(a, h.tx)
  BY <1>2, <1>4, CacheWritten
<1>6. /\ N \subseteq h.touch /\ h.touch \subseteq Addrs /\ N \subseteq Addrs
      /\ \A a \in h.touch : a \in N <=> cacheBal[a] = None
  BY <1>2, <1>5 DEF NewAccs, Ops
<1>7. /\ w \in Ops /\ w.touch = N /\ w.bal = h.bal /\ w.behind = h.behind
      /\ NewAccs(w) = N
  <2>1. w \in Ops /\ w.touch = N /\ w.bal = h.bal /\ w.behind = h.behind
    BY <1>3, <1>5, <1>6 DEF Ops
  <2>2. NewAccs(w) = N BY <2>1, <1>6 DEF NewAccs
  <2> QED BY <2>1, <2>2
<1>8. /\ balance' \in [Addrs -> Balances \cup {None}] /\ lagged' \subseteq Addrs
      /\ \A a \in Addrs : balance'[a] = IF a \in N THEN h.bal[a] ELSE balance[a]
      /\ \A a \in Addrs : h.bal[a] \in Balances /\ h.bal[a] # None
      /\ addresses' = Cardinality({a \in Addrs : balance'[a] # None})
  <2>1. /\ balance' \in [Addrs -> Balances \cup {None}] /\ lagged' \subseteq Addrs
        /\ \A a \in Addrs :
             balance'[a] = IF a \in N \/ (a \in N /\ balance[a] # None)
                           THEN h.bal[a] ELSE balance[a]
        /\ \A a \in Addrs : h.bal[a] \in Balances /\ h.bal[a] # None
        /\ addresses' = Cardinality({a \in Addrs : balance'[a] # None})
    BY <1>4, <1>5, <1>7, RowsWritten
  <2> QED BY <2>1
<1>9. /\ ChainKept /\ Steady' /\ tip' = tip /\ tip' \in Nat /\ chain' = chain
      /\ \A t \in 1..tip : /\ IsReg(t)' <=> IsReg(t)
                           /\ IsTransfer(t)' <=> IsTransfer(t)
                           /\ IsFirstReg(t)' <=> IsFirstReg(t)
      /\ \A t \in 1..(tip + 1) : RegBefore(t)' <=> RegBefore(t)
  BY <1>4, CommitFrame DEF Committed
<1>10. /\ queue' \in Seq(Ops) /\ Len(queue') <= QueueSize + 2 /\ InOrder(queue')
       /\ \A o \in Elems(queue) : o \in Ops /\ OpOK(o)
       /\ \A o \in Elems(queue') : o \in Elems(queue)
       /\ up' => Elems(queue) = Elems(queue') \cup {h}
       /\ up' \in BOOLEAN /\ (up' <=> ~retried) /\ (~up' => queue' = <<>>)
  BY <1>1, <1>4, CommitHead
<1>11. TypeOK'
  <2>1. cacheBal' \in [Addrs -> Balances \cup {None}]
    BY <1>5, <1>8 DEF TypeOK
  <2> QED BY <2>1, <1>4, <1>5, <1>8, <1>9, <1>10 DEF TypeOK, Committed
<1>12. Resumable' BY <1>4, <1>9, ResumableKept
<1>13. QueueOK'
  <2>1. ASSUME NEW o \in Elems(queue') PROVE OpOK(o)'
    <3>1. o \in Ops /\ OpOK(o) BY <1>10
    <3>2. /\ o.tx < next' \/ (o.tx = next' /\ o.op = "balance" /\ stage' = "transfer")
          /\ o.op \in {"balance", "counter"} => counter'[1] <= o.tx
          /\ o.op \in {"transfer", "asset"} => counter'[1] < o.tx
          /\ stored <= stored' /\ stored' \in Nat /\ vouts \subseteq vouts'
          /\ dropped' = dropped
      BY <3>1, <1>4, CounterRange DEF OpOK, Committed
    <3> QED BY <3>1, <3>2, <1>9, OpKept
  <2> QED BY <2>1, <1>10 DEF QueueOK
<1>14. Progress'
  <2>1. /\ up /\ UNCHANGED <<next, stage, applogIdx, known, stored, counter>>
        /\ retried' = FALSE
    BY <1>4 DEF Committed
  <2>2. PICK n : n = next OBVIOUS
  <2>3. n \in 1..(tip + 1) /\ counter[1] \in Nat /\ n \in Nat /\ stored <= tip /\ tip \in Nat
    BY <2>2, CounterRange
  <2>4. RegBefore(next)' <=> RegBefore(next)
    <3>1. RegBefore(n)' <=> RegBefore(n) BY <2>3, <1>9
    <3> QED BY <3>1, <2>1, <2>2 DEF RegBefore
  <2>5. IsReg(next)' <=> IsReg(next) BY <2>1, <1>9 DEF IsReg
  <2>6. ASSUME up', NEW t \in (counter[1] + 1)..(n - 1)
        PROVE  /\ IsTransfer(t)' => Queued("transfer", t)'
               /\ IsFirstReg(t)' => Queued("asset", t)'
    <3>1. t \in 1..tip BY <2>3
    <3>2. /\ IsTransfer(t) => Queued("transfer", t)
          /\ IsFirstReg(t) => Queued("asset", t)
      BY <2>1, <2>2 DEF Progress
    <3>3. \A o \in Elems(queue) : o.op # "balance" => o \in Elems(queue')
      BY <2>6, <1>4, <1>10
    <3> QED BY <3>1, <3>2, <3>3, <1>9 DEF Queued
  <2>7. /\ applogIdx = -1 => counter[1] < next
        /\ applogIdx = 0 => counter[1] = next /\ counter[2] = 0
        /\ stage = "transfer" => next <= stored /\ ~IsReg(next)
        /\ known <=> RegBefore(next)
    BY <2>1 DEF Progress
  <2>8. ~up' => queue' = <<>> /\ ~retried' BY <1>10, <2>1
  <2>9. up' => \A t \in (counter'[1] + 1)..(next' - 1) :
                 /\ IsTransfer(t)' => Queued("transfer", t)'
                 /\ IsFirstReg(t)' => Queued("asset", t)'
    BY <2>1, <2>2, <2>6
  <2>10. DropsPast' BY <2>1, <1>4 DEF Progress, DropsPast, Committed
  <2> QED BY <2>1, <2>4, <2>5, <2>7, <2>8, <2>9, <2>10 DEF Progress
<1>15. CacheOK'
  <2>1. ASSUME up', NEW a \in Addrs \ refused PROVE cacheBal'[a] = balance'[a]
    <3>1. cacheBal[a] = balance[a] BY <2>1, <1>4, <1>10 DEF CacheOK, Committed
    <3>2. cacheBal'[a] = balance'[a]
      <4>1. CASE a \in N BY <4>1, <1>5, <1>6, <1>8
      <4>2. CASE a \in h.touch /\ a \notin N
        <5>1. cacheBal[a] \in {None, h.bal[a]}
          BY <4>2, <1>4, <1>5 DEF Rewritten, Fails
        <5>2. cacheBal[a] = h.bal[a] BY <5>1, <4>2, <1>6
        <5> QED BY <5>2, <4>2, <3>1, <1>5, <1>8
      <4>3. CASE a \notin h.touch BY <4>3, <3>1, <1>5, <1>6, <1>8
      <4> QED BY <4>1, <4>2, <4>3
    <3> QED BY <3>2
  <2>2. UNCHANGED <<next, losses, refused>> /\ retried' = FALSE BY <1>4 DEF Committed
  <2> QED BY <2>1, <2>2, <1>5 DEF CacheOK
<1>16. HoldersCounted'
  <2>1. losses = 0 => holding' = Cardinality({a \in Addrs : balance'[a] > 0})
    <3> SUFFICES ASSUME losses = 0 PROVE holding' = Cardinality({a \in Addrs : balance'[a] > 0})
      OBVIOUS
    <3> DEFINE P == {a \in Addrs : balance[a] > 0}
               Q == {a \in Addrs : balance'[a] > 0}
    <3>1. \A a \in N : h.bal[a] > 0 BY <1>4, <1>5, <1>6 DEF OpOK
    <3>2. \A a \in N : ~(balance[a] > 0) BY <1>5 DEF None
    <3>3. Q = P \cup N BY <3>1, <1>6, <1>8
    <3>4. N \cap P = {} BY <3>2
    <3>5. IsFiniteSet(P) /\ IsFiniteSet(N) BY <1>6, StoreBounds, FS_Subset
    <3>6. holding = Cardinality(P) BY DEF HoldersCounted
    <3> HIDE DEF P, Q
    <3>7. Cardinality(Q) = Cardinality(P) + Cardinality(N)
      BY <3>3, <3>4, <3>5, SizeAfter
    <3>8. holding' = Cardinality(Q) BY <3>6, <3>7, <1>4
    <3> QED BY <3>8 DEF Q
  <2>2. losses' = losses BY <1>4 DEF Committed
  <2> QED BY <2>1, <2>2, <1>5, <1>8 DEF HoldersCounted
<1>17. /\ TransferTxs' = TransferTxs
       /\ \A t \in TransferTxs : Parties(chain[t].x) \subseteq Addrs
  <2>1. TransferTxs' = TransferTxs /\ TransferTxs \subseteq 1..tip
    BY <1>4, <1>9, TransfersKept
  <2> QED BY <2>1, ChainTypes
<1>18. TransfersOnce' BY <1>4, <1>9, <1>17 DEF TransfersOnce, Committed
<1>19. Fresh'
  <2> SUFFICES ASSUME losses = 0, NEW t \in TransferTxs, NEW a \in Parties(chain[t].x)
               PROVE  /\ balance'[a] # None
                      /\ a \notin lagged' => \E x \in t..tip : balance'[a] = BalanceAt(x, a)
    BY <1>4, <1>9, <1>17 DEF Fresh, BalanceAt, Committed
  <2>1. /\ balance[a] # None /\ a \in Addrs
        /\ a \notin lagged => \E x \in t..tip : balance[a] = BalanceAt(x, a)
    BY <1>17 DEF Fresh
  <2>2. a \notin N BY <2>1, <1>5
  <2>3. balance'[a] = balance[a] BY <2>1, <2>2, <1>8
  <2>4. a \notin lagged' => a \notin lagged
    BY <2>2, <1>4, <1>7 DEF WriteBalances
  <2> QED BY <2>1, <2>3, <2>4
<1> QED BY <1>9, <1>11, <1>12, <1>13, <1>14, <1>15, <1>16, <1>18, <1>19

LEMMA InsertNep5transactionStep == ASSUME IInv, InsertNep5transaction PROVE IInv'
<1> USE DEF IInv
<1>1. PICK h : h = Head(queue) OBVIOUS
<1>2. /\ Committed /\ Rewritten(h) /\ Moved(h) /\ h.op = "transfer" /\ WriteBalances(h)
      /\ holding' = holding + HoldingOffset(h) /\ transfers' = transfers + 1 /\ rows' = rows
      /\ transNep5' = [a \in Addrs |-> transNep5[a] +
                         (IF a \in h.touch \cap address' THEN 1 ELSE 0)]
      /\ refused' = refused \ {a \in h.touch : balance[a] # None}
  <2>1. Committed /\ h.op = "transfer" /\ rows' = rows
    BY <1>1 DEF InsertNep5transaction, Commit, Committed, netVars, blockVars, taskVars
  <2>2. h.idx = 0
    <3>1. OpOK(h) BY <2>1, <1>1, CommitHead
    <3> QED BY <3>1, <2>1 DEF OpOK
  <2>3. counter' = <<h.tx, h.idx>> BY <1>1 DEF InsertNep5transaction
  <2>4. Moved(h) BY <2>1, <2>2, <2>3, <1>1 DEF Moved
  <2> QED BY <2>1, <2>4, <1>1 DEF InsertNep5transaction, Commit, Rewritten
<1>3. /\ h \in Ops /\ OpOK(h) /\ h.touch \subseteq vouts
      /\ cacheAddr' = cacheAddr \cup h.touch /\ cacheAddr' \subseteq vouts
      /\ address' \subseteq vouts /\ cntAddr' = Cardinality(address')
      /\ cacheBal' = [a \in Addrs |-> IF a \in h.touch THEN h.bal[a] ELSE cacheBal[a]]
      /\ cacheAt' \in [Addrs -> 0..tip]
      /\ up' => \A a \in Addrs : /\ cacheAt'[a] <= next
                                 /\ \A o \in Elems(queue') : cacheAt'[a] <= o.tx
      /\ losses = 0 => cacheAddr' \subseteq address'
      /\ \A a \in NewAccs(h) : balance[a] = None
  BY <1>2, CacheWritten
<1>4. /\ Resumable' /\ QueueOK' /\ Progress' /\ rows' \in {0, 1}
      /\ counter'[1] \in 0..stored /\ TransferTxs \subseteq 1..tip
      /\ h.tx \notin TransferTxs /\ TransferTxs' = TransferTxs \cup {h.tx}
  BY <1>2, CounterMoved
<1>5. /\ h.touch \subseteq Addrs /\ h.touch = Parties(chain[h.tx].x) /\ h.tx \in 1..tip
      /\ counter'[1] = h.tx /\ tip \in Nat
      /\ \A a \in h.touch : a \in NewAccs(h) <=> cacheBal[a] = None
      /\ NewAccs(h) \subseteq h.touch
  <2>1. h.touch = Parties(chain[h.tx].x) BY <1>2, <1>3 DEF OpOK
  <2>2. h.tx \in 1..tip BY <1>2, NothingPassed
  <2> QED BY <2>1, <2>2, <1>2, <1>3, CounterRange DEF Moved, NewAccs, Ops
<1>6. /\ balance' \in [Addrs -> Balances \cup {None}] /\ lagged' \subseteq Addrs
      /\ \A a \in Addrs :
           balance'[a] = IF a \in NewAccs(h) \/ (a \in h.touch /\ balance[a] # None)
                         THEN h.bal[a] ELSE balance[a]
      /\ \A a \in Addrs : h.bal[a] \in Balances /\ h.bal[a] # None
      /\ addresses' = Cardinality({a \in Addrs : balance'[a] # None})
  BY <1>2, <1>3, RowsWritten
<1>7. /\ Steady' /\ tip' = tip /\ chain' = chain
  BY <1>2, CommitFrame DEF Committed
<1>8. /\ queue' \in Seq(Ops) /\ Len(queue') <= QueueSize + 2
      /\ up' \in BOOLEAN /\ (up' <=> ~retried)
  BY <1>2, CommitHead
<1>9. TypeOK'
  <2>1. cacheBal' \in [Addrs -> Balances \cup {None}] BY <1>3, <1>6 DEF TypeOK
  <2> QED BY <2>1, <1>2, <1>3, <1>4, <1>6, <1>7, <1>8 DEF TypeOK, Committed, Moved
\* Without a loss the cache is that of the table, and every address is written.
<1>10. losses = 0 => /\ \A a \in Addrs : cacheBal[a] = balance[a]
                     /\ \A a \in Addrs :
                          balance'[a] = IF a \in h.touch THEN h.bal[a] ELSE balance[a]
  <2>1. losses = 0 => \A a \in Addrs : cacheBal[a] = balance[a]
    BY <1>2 DEF CacheOK, Committed
  <2> QED BY <2>1, <1>5, <1>6
<1>11. CacheOK'
  <2>1. ASSUME up', NEW a \in Addrs \ refused' PROVE cacheBal'[a] = balance'[a]
    <3>1. a \in Addrs /\ (a \notin refused \/ (a \in h.touch /\ balance[a] # None))
      BY <2>1, <1>2
    <3>2. a \notin refused => cacheBal[a] = balance[a]
      BY <3>1, <2>1, <1>2, <1>8 DEF CacheOK, Committed
    <3>3. CASE a \in h.touch BY <3>1, <3>2, <3>3, <1>3, <1>5, <1>6
    <3>4. CASE a \notin h.touch BY <3>1, <3>2, <3>4, <1>3, <1>5, <1>6
    <3> QED BY <3>3, <3>4
  <2>2. UNCHANGED <<next, losses>> /\ retried' = FALSE BY <1>2 DEF Committed
  <2>3. losses = 0 => refused' = {} BY <1>2 DEF CacheOK
  <2> QED BY <2>1, <2>2, <2>3, <1>3 DEF CacheOK
<1>12. HoldersCounted'
  <2>1. losses = 0 => holding' = Cardinality({a \in Addrs : balance'[a] > 0})
    <3> SUFFICES ASSUME losses = 0 PROVE holding' = Cardinality({a \in Addrs : balance'[a] > 0})
      OBVIOUS
    <3> DEFINE P == {a \in Addrs : balance[a] > 0}
               Q == {a \in Addrs : balance'[a] > 0}
               A == {a \in h.touch : StartsHolding(h, a)}
               D == {a \in h.touch : StopsHolding(h, a)}
    <3>1. \A a \in Addrs : cacheBal[a] = balance[a] BY <1>10
    <3>2. \A a \in Addrs : /\ balance[a] \in Nat \cup {None} /\ h.bal[a] \in Nat
                           /\ ~(None > 0) /\ ~(0 > 0)
      BY <1>6, StoreBounds DEF TypeOK, Balances, None
    <3>3. A \cap P = {} /\ D \subseteq P
      BY <3>1, <3>2, <1>5 DEF StartsHolding, StopsHolding
    <3>4. \A a \in h.touch : /\ a \in A <=> h.bal[a] > 0 /\ ~(balance[a] > 0)
                             /\ a \in D <=> ~(h.bal[a] > 0) /\ balance[a] > 0
      BY <3>1, <3>2, <1>5 DEF StartsHolding, StopsHolding, None
    <3>5. Q = (P \ D) \cup A
      <4>1. \A a \in Addrs : balance'[a] = IF a \in h.touch THEN h.bal[a] ELSE balance[a]
        BY <1>10
      <4>2. A \subseteq h.touch /\ D \subseteq h.touch OBVIOUS
      <4> HIDE DEF A, D
      <4> QED BY <4>1, <4>2, <3>4, <1>5
    <3>6. IsFiniteSet(P) /\ IsFiniteSet(A)
      <4>1. P \subseteq Addrs /\ A \subseteq Addrs BY <1>5
      <4> QED BY <4>1, StoreBounds, FS_Subset
    <3>7. holding = Cardinality(P) /\ HoldingOffset(h) = Cardinality(A) - Cardinality(D)
      BY DEF HoldersCounted, HoldingOffset
    <3>8. /\ Cardinality(P) \in Nat /\ Cardinality(A) \in Nat /\ Cardinality(D) \in Nat
      BY <3>3, <3>6, FS_Subset, FS_CardinalityType
    <3> HIDE DEF P, Q, A, D
    <3>9. Cardinality(Q) = Cardinality(P) + Cardinality(A) - Cardinality(D)
      <4>1. Cardinality((P \ D) \cup A) = Cardinality(P) + Cardinality(A) - Cardinality(D)
        BY <3>3, <3>6, SizeAfter
      <4> QED BY <4>1, <3>5
    <3>10. holding' = Cardinality(Q) BY <3>7, <3>8, <3>9, <1>2
    <3> QED BY <3>10 DEF Q
  <2>2. losses' = losses BY <1>2 DEF Committed
  <2> QED BY <2>1, <2>2, <1>3, <1>6 DEF HoldersCounted
<1>13. TransfersOnce'
  <2>1. IsFiniteSet(TransferTxs)
    <3>1. IsFiniteSet(1..tip) BY <1>5, FS_Interval
    <3> QED BY <3>1, <1>4, FS_Subset
  <2>2. transfers' = Cardinality(TransferTxs')
    BY <2>1, <1>2, <1>4, FS_AddElement DEF TransfersOnce
  <2>3. ASSUME losses = 0, NEW a \in Addrs
        PROVE  transNep5'[a] = Cardinality({t \in TransferTxs' : a \in Parties(chain[t].x)})
    <3> DEFINE B == {t \in TransferTxs : a \in Parties(chain[t].x)}
               C == {t \in TransferTxs' : a \in Parties(chain[t].x)}
    <3>1. transNep5[a] = Cardinality(B) BY <2>3 DEF TransfersOnce
    <3>2. IsFiniteSet(B) /\ h.tx \notin B BY <2>1, <1>4, FS_Subset
    <3>3. Cardinality(B) \in Nat BY <3>2, FS_CardinalityType
    <3>4. CASE a \in h.touch
      <4>1. C = B \cup {h.tx} BY <3>4, <1>4, <1>5
      <4>2. a \in address' BY <3>4, <2>3, <1>3
      <4>3. transNep5'[a] = transNep5[a] + 1 BY <4>2, <3>4, <1>2
      <4> HIDE DEF B, C
      <4>4. Cardinality(C) = Cardinality(B) + 1 BY <4>1, <3>2, FS_AddElement
      <4>5. transNep5'[a] = Cardinality(C) BY <4>3, <4>4, <3>1
      <4> QED BY <4>5 DEF C
    <3>5. CASE a \notin h.touch
      <4>1. C = B BY <3>5, <1>4, <1>5
      <4>2. transNep5'[a] = transNep5[a] + 0 BY <3>5, <1>2
      <4> HIDE DEF B, C
      <4>3. transNep5'[a] = Cardinality(C) BY <4>1, <4>2, <3>1, <3>3
      <4> QED BY <4>3 DEF C
    <3> QED BY <3>4, <3>5
  <2>4. losses' = losses BY <1>2 DEF Committed
  <2> QED BY <2>2, <2>3, <2>4, <1>7 DEF TransfersOnce
<1>14. Fresh'
  <2> SUFFICES ASSUME losses = 0, NEW t \in TransferTxs', NEW a \in Parties(chain[t].x)
               PROVE  /\ balance'[a] # None
                      /\ a \notin lagged' => \E x \in t..tip : balance'[a] = BalanceAt(x, a)
    BY <1>2, <1>7 DEF Fresh, BalanceAt, Committed
  <2>1. a \in Addrs /\ t \in 1..tip
    <3>1. t \in 1..tip BY <1>4, <1>5
    <3> QED BY <3>1, ChainTypes
  <2>2. CASE a \in h.touch
    <3>1. balance'[a] = h.bal[a] /\ h.bal[a] # None
      BY <2>1, <2>2, <1>6, <1>10
    <3>2. ASSUME a \notin lagged' PROVE \E x \in t..tip : balance'[a] = BalanceAt(x, a)
      <4>1. ~h.behind BY <3>2, <2>2, <1>2 DEF WriteBalances
      <4>2. PICK x \in 0..tip : h.bal[a] = BalanceAt(x, a) /\ (~h.behind => h.tx <= x)
        BY <2>2, <1>2, <1>3 DEF OpOK, Answered
      <4>3. h.tx <= x BY <4>1, <4>2
      <4>4. t <= h.tx
        <5>1. t \in 1..counter'[1] BY DEF TransferTxs
        <5> QED BY <5>1, <1>5
      <4>5. x \in t..tip BY <4>3, <4>4, <2>1, <1>5
      <4> QED BY <4>2, <4>5, <3>1
    <3> QED BY <3>1, <3>2
  <2>3. CASE a \notin h.touch
    <3>1. t \in TransferTxs BY <2>3, <1>4, <1>5
    <3>2. /\ balance[a] # None
          /\ a \notin lagged => \E x \in t..tip : balance[a] = BalanceAt(x, a)
      BY <3>1 DEF Fresh
    <3>3. balance'[a] = balance[a] BY <2>1, <2>3, <1>10
    <3>4. a \notin lagged' => a \notin lagged BY <2>3, <1>2 DEF WriteBalances
    <3> QED BY <3>2, <3>3, <3>4
  <2> QED BY <2>2, <2>3
<1> QED BY <1>4, <1>7, <1>9, <1>11, <1>12, <1>13, <1>14
-----------------------------------------------------------------------------
\* What is lost with a connection or with the process is not in the tables.
TablesKept == UNCHANGED <<chain, vouts, stored, best, next, stage, applogIdx, known, rows,
                          addresses, transfers, balance, address, cntAddr, counter,
                          holding, transNep5, lagged, dropped>>

LEMMA LostFrame ==
  ASSUME IInv, TablesKept, losses' = 0 => losses = 0
  PROVE  /\ ChainKept /\ tip' = tip /\ tip' \in Nat /\ Steady' /\ Resumable'
         /\ HoldersCounted' /\ TransfersOnce' /\ Fresh'
<1> USE DEF IInv, TablesKept
<1>1. ChainKept /\ tip' = tip /\ tip' \in Nat BY SameChain
<1>2. Steady' BY <1>1 DEF Steady, BalanceAt, Names, IsReg
<1>3. Resumable' BY <1>1, ResumableKept
<1>4. HoldersCounted' /\ TransfersOnce' BY <1>1, CountsKept
<1>5. Fresh' BY <1>1, FreshKept
<1> QED BY <1>1, <1>2, <1>3, <1>4, <1>5

LEMMA RepeatStep ==
  ASSUME IInv, NEW k \in 1..All, LoseConnection(k) \/ Refuse(k)
  PROVE  IInv'
<1> USE DEF IInv
<1>1. PICK h : h = Head(queue) OBVIOUS
<1>2. /\ TablesKept /\ up /\ UNCHANGED <<up, queue, crashes>> /\ retried' \in BOOLEAN
      /\ losses' = losses + 1 /\ losses < MaxLosses /\ losses \in Nat
      /\ queue # <<>> /\ h.op \in {"balance", "transfer"} /\ Cached(h, k)
  <2>1. Repeat(k) /\ retried' \in BOOLEAN BY DEF LoseConnection, Refuse, TypeOK
  <2> QED BY <2>1, <1>1 DEF Repeat, TablesKept, netVars, blockVars, taskVars, assetVars,
                            rowVars, TypeOK
<1>3. losses' # 0 /\ losses' > 0 /\ losses' \in 0..MaxLosses BY <1>2, StoreBounds
<1>4. /\ ChainKept /\ tip' = tip /\ tip' \in Nat /\ Steady' /\ Resumable'
      /\ HoldersCounted' /\ TransfersOnce' /\ Fresh'
  BY <1>2, <1>3, LostFrame
<1>5. /\ h \in Ops /\ OpOK(h) /\ h \in Elems(queue)
      /\ \A o \in Elems(queue) : o \in Ops /\ OpOK(o) /\ h.tx <= o.tx
  <2>1. queue \in Seq(Ops) /\ InOrder(queue) BY DEF TypeOK, QueueOK
  <2>2. /\ h \in Elems(queue)
        /\ \A o \in Elems(queue) : o = h \/ Ahead(h, o)
    BY <2>1, <1>1, <1>2, TailOps
  <2>3. \A o \in Elems(queue) : o \in Ops /\ OpOK(o)
    BY <2>1, ElemsAreOps DEF QueueOK
  <2> QED BY <2>2, <2>3 DEF Ahead, Ops
<1>6. /\ h.touch \subseteq Addrs /\ h.touch \subseteq vouts /\ h.tx \in 0..tip
      /\ h.tx <= next /\ h.bal \in [Addrs -> Balances]
  <2>1. next \in Nat /\ stored \in Nat /\ stored <= tip /\ tip \in Nat BY CounterRange
  <2> QED BY <2>1, <1>2, <1>5 DEF OpOK, Ops
<1>7. /\ cacheAddr' \subseteq vouts
      /\ cacheBal' \in [Addrs -> Balances \cup {None}]
      /\ cacheAt' \in [Addrs -> 0..tip]
      /\ \A a \in Addrs : cacheAt'[a] = h.tx \/ cacheAt'[a] = cacheAt[a]
  <2>1. cacheAddr' = cacheAddr \cup AddrsUpTo(h, k) /\ AddrsUpTo(h, k) \subseteq h.touch
    BY <1>2 DEF Cached, AddrsUpTo
  <2>2. /\ cacheBal \in [Addrs -> Balances \cup {None}] /\ cacheAt \in [Addrs -> 0..tip]
        /\ cacheAddr \subseteq vouts
    BY DEF TypeOK
  <2> QED BY <2>1, <2>2, <1>2, <1>6 DEF Cached
<1>8. TypeOK'
  <2>1. refused' \subseteq Addrs BY DEF LoseConnection, Refuse, TypeOK
  <2> QED BY <2>1, <1>2, <1>3, <1>4, <1>7 DEF TypeOK, TablesKept
<1>9. QueueOK'
  <2>1. ASSUME NEW o \in Elems(queue) PROVE OpOK(o)'
    <3>1. o \in Ops /\ OpOK(o) BY <1>5
    <3>2. /\ o.tx < next' \/ (o.tx = next' /\ o.op = "balance" /\ stage' = "transfer")
          /\ o.op \in {"balance", "counter"} => counter'[1] <= o.tx
          /\ o.op \in {"transfer", "asset"} => counter'[1] < o.tx
          /\ stored <= stored' /\ stored' \in Nat /\ vouts \subseteq vouts'
          /\ dropped' = dropped
      BY <3>1, <1>2, CounterRange DEF OpOK, TablesKept
    <3> QED BY <3>1, <3>2, <1>4, OpKept
  <2> QED BY <2>1, <1>2 DEF QueueOK
<1>10. Progress'
  <2>1. /\ UNCHANGED <<chain, next, stage, applogIdx, known, stored, counter, up, queue,
                       dropped>>
        /\ up /\ (DropsPast' <=> DropsPast)
    BY <1>2 DEF TablesKept, DropsPast
  <2>2. \A t : /\ IsTransfer(t)' <=> IsTransfer(t)
               /\ IsFirstReg(t)' <=> IsFirstReg(t)
    BY <2>1 DEF IsTransfer, IsFirstReg, RegBefore, IsReg
  <2>3. \A kind, t : Queued(kind, t)' <=> Queued(kind, t) BY <2>1 DEF Queued
  <2>4. (RegBefore(next)' <=> RegBefore(next)) /\ (IsReg(next)' <=> IsReg(next))
    BY <2>1 DEF RegBefore, IsReg
  <2> QED BY <2>1, <2>2, <2>3, <2>4 DEF Progress
<1>11. CacheOK'
  <2>1. ASSUME NEW a \in Addrs
        PROVE  cacheAt'[a] <= next /\ \A o \in Elems(queue) : cacheAt'[a] <= o.tx
    <3>1. cacheAt[a] <= next /\ \A o \in Elems(queue) : cacheAt[a] <= o.tx
      BY <1>2 DEF CacheOK
    <3> QED BY <3>1, <1>5, <1>6, <1>7
  <2>2. ASSUME ~retried', NEW a \in Addrs \ refused' PROVE cacheBal'[a] = balance[a]
    <3>1. /\ ~retried /\ a \in Addrs
          /\ refused' = refused \cup {b \in Addrs : cacheBal'[b] # cacheBal[b]}
      BY <2>2 DEF LoseConnection, Refuse
    <3>2. a \notin refused /\ cacheBal'[a] = cacheBal[a] BY <3>1, <2>2
    <3> QED BY <3>1, <3>2, <1>2 DEF CacheOK
  <2> QED BY <2>1, <2>2, <1>2, <1>3 DEF CacheOK, TablesKept
<1> QED BY <1>4, <1>8, <1>9, <1>10, <1>11

LEMMA DieStep == ASSUME IInv, PanicStore \/ PanicQuery \/ Crash PROVE IInv'
<1> USE DEF IInv
<1>1. /\ TablesKept /\ UNCHANGED <<cacheAddr, cacheBal, cacheAt, refused, losses>>
      /\ up' = FALSE /\ queue' = <<>> /\ retried' = FALSE /\ crashes' \in 0..MaxCrashes
  <2>1. crashes \in Nat /\ crashes \in 0..MaxCrashes /\ MaxCrashes \in Nat
    BY StoreBounds DEF TypeOK
  <2>2. Die /\ crashes' \in 0..MaxCrashes BY <2>1 DEF PanicStore, PanicQuery, Crash
  <2> QED BY <2>2 DEF Die, TablesKept, netVars, blockVars, taskVars, cacheVars, assetVars,
                      rowVars
<1>2. /\ tip' = tip /\ Steady' /\ Resumable'
      /\ HoldersCounted' /\ TransfersOnce' /\ Fresh'
  BY <1>1, LostFrame
<1>3. TypeOK'
  <2>1. 0 <= QueueSize + 2 BY StoreBounds
  <2> QED BY <2>1, <1>1, <1>2, NoOps DEF TypeOK, TablesKept
<1>4. QueueOK' BY <1>1, NoOps DEF QueueOK
<1>5. Progress' BY <1>1 DEF Progress
<1>6. CacheOK' BY <1>1 DEF CacheOK
<1> QED BY <1>2, <1>3, <1>4, <1>5, <1>6

\* A start continues where the tables say.
LEMMA StartStep == ASSUME IInv, Start PROVE IInv'
<1> USE DEF IInv
<1>1. /\ ~up /\ queue = <<>> /\ retried = FALSE /\ up' = TRUE
      /\ UNCHANGED <<chain, vouts, stored, best, queue, retried, rows, addresses, holding,
                     transfers, balance, address, transNep5, cntAddr, counter, lagged,
                     crashes, losses>>
      /\ next' = ResumeAt(counter) /\ stage' = "caller" /\ applogIdx' = counter[2]
      /\ known' = (rows > 0) /\ refused' = {} /\ dropped' = dropped \cap 1..counter[1]
  BY DEF Start, netVars, blockVars, assetVars, rowVars, Progress, TypeOK
<1>2. /\ cacheAddr' \subseteq address /\ cacheBal' = balance
      /\ cacheAt' = [a \in Addrs |-> 0]
  <2>1. balance \in [Addrs -> Balances \cup {None}] BY DEF TypeOK
  <2>2. /\ cacheAddr' = LoadedAddrs /\ LoadedAddrs \subseteq address
        /\ cacheBal' = [a \in Addrs |-> IF a \in LoadedAddrs THEN balance[a] ELSE None]
        /\ cacheAt' = [a \in Addrs |-> 0]
    BY DEF Start, Loadable
  <2>3. \A a \in Addrs : a \in LoadedAddrs <=> balance[a] # None BY DEF LoadedAddrs
  <2> QED BY <2>1, <2>2, <2>3
<1>3. ChainKept /\ tip' = tip /\ tip' \in Nat BY <1>1, SameChain
<1>4. Steady' BY <1>1, <1>3 DEF Steady, BalanceAt, Names, IsReg
<1>5. Resumable' BY <1>1, <1>3, ResumableKept
<1>6. HoldersCounted' /\ TransfersOnce' BY <1>1, <1>3, CountsKept
<1>7. Fresh' BY <1>1, <1>3, FreshKept
<1>8. /\ counter[1] \in Nat /\ counter[1] <= stored /\ stored \in Nat /\ counter[2] \in {-1, 0}
      /\ counter[2] = 0 => counter[1] >= 1 /\ ~IsReg(counter[1])
      /\ tip \in Nat
  BY CounterRange DEF TypeOK, Resumable
<1>9. PICK c \in Nat : c = counter[1] BY <1>8
<1>10. /\ counter[2] = -1 => next' = c + 1
       /\ counter[2] = 0 => next' = c
       /\ next' \in 1..(stored + 1)
  BY <1>1, <1>8, <1>9 DEF ResumeAt
<1>11. TypeOK'
  <2>1. (rows > 0) \in BOOLEAN OBVIOUS
  <2>2. cacheAddr' \subseteq vouts' /\ cacheAt' \in [Addrs -> 0..tip] /\ 0 \in 0..tip
    BY <1>1, <1>2, <1>8 DEF TypeOK
  <2> QED BY <2>1, <2>2, <1>1, <1>2, <1>3, <1>8, <1>10 DEF TypeOK
<1>12. QueueOK' BY <1>1, NoOps DEF QueueOK
<1>13. RegBefore(next)' <=> rows = 1
  <2>1. rows = 1 <=> RegBefore(c + 1) BY <1>9 DEF Resumable
  <2>2. counter[2] = 0 => (RegBefore(c) <=> RegBefore(c + 1))
    <3> SUFFICES ASSUME counter[2] = 0 PROVE RegBefore(c) <=> RegBefore(c + 1) OBVIOUS
    <3>1. c >= 1 /\ ~IsReg(c) BY <1>8, <1>9
    <3>2. /\ \A r \in 1..((c + 1) - 1) : r \in 1..(c - 1) \/ r = c
          /\ \A r \in 1..(c - 1) : r \in 1..((c + 1) - 1)
      OBVIOUS
    <3> QED BY <3>1, <3>2 DEF RegBefore
  <2>3. PICK n : n = next' BY <1>10
  <2>4. RegBefore(n) <=> rows = 1 BY <2>1, <2>2, <2>3, <1>8, <1>10
  <2> QED BY <2>3, <2>4, <1>1 DEF RegBefore, IsReg
<1>14. known' <=> RegBefore(next)'
  <2>1. rows > 0 <=> rows = 1 BY DEF TypeOK
  <2> QED BY <2>1, <1>1, <1>13
<1>15. Progress'
  <2>1. counter'[1] = c /\ counter'[2] = counter[2] /\ applogIdx' = counter[2]
    BY <1>1, <1>9
  <2>2. (applogIdx' = -1 => counter'[1] < next')
    BY <2>1, <1>10
  <2>3. applogIdx' = 0 => counter'[1] = next' /\ counter'[2] = 0 BY <2>1, <1>10
  <2>4. ~\E t : t \in (counter'[1] + 1)..(next' - 1) BY <2>1, <1>8, <1>10
  <2>5. up' /\ stage' # "transfer" BY <1>1
  <2>6. DropsPast'
    <3>1. \A t \in dropped' : t \in 1..c BY <1>1, <1>9
    <3>2. applogIdx' = -1 => next' = c + 1 BY <2>1, <1>10
    <3>3. c <= next' BY <2>1, <1>8, <1>10
    <3> QED BY <3>1, <3>2, <3>3, <1>10 DEF DropsPast
  <2> QED BY <2>2, <2>3, <2>4, <2>5, <2>6, <1>14 DEF Progress
<1>16. CacheOK'
  <2>1. Elems(queue') = {} BY <1>1, NoOps
  <2>2. \A a \in Addrs : cacheAt'[a] = 0 /\ 0 <= next' BY <1>2, <1>8, <1>10
  <2> QED BY <2>1, <2>2, <1>1, <1>2 DEF CacheOK
<1> QED BY <1>4, <1>5, <1>6, <1>7, <1>11, <1>12, <1>15, <1>16
-----------------------------------------------------------------------------
\* At first there is nothing.
LEMMA InitIInv == Init => IInv
<1> SUFFICES ASSUME Init PROVE IInv OBVIOUS
<1> USE DEF Init
<1>1. tip = 0 /\ (1..0) = {} BY DEF tip
<1>2. TypeOK
  <2>1. chain \in Seq([x : Shapes, bal : [Addrs -> Balances]]) OBVIOUS
  <2>2. queue \in Seq(Ops) /\ Len(queue) = 0 BY NoOps
  <2>3. /\ 0 <= MaxBlocks /\ 0 \in 0..0 /\ 1 \in 1..(0 + 1) /\ 0 <= QueueSize + 2
        /\ 0 \in 0..MaxCrashes /\ 0 \in 0..MaxLosses
    BY StoreBounds
  <2>4. /\ cacheBal \in [Addrs -> Balances \cup {None}] /\ cacheAt \in [Addrs -> 0..0]
        /\ balance \in [Addrs -> Balances \cup {None}]
    OBVIOUS
  <2>5. counter[1] = 0 /\ counter[2] = -1 /\ applogIdx = -1 OBVIOUS
  <2>6. up \in BOOLEAN /\ retried \in BOOLEAN /\ known \in BOOLEAN OBVIOUS
  <2> HIDE DEF Init
  <2>7. /\ tip = 0 /\ stored = 0 /\ best = 0 /\ next = 1 /\ rows = 0 /\ crashes = 0
        /\ losses = 0 /\ vouts = {} /\ address = {} /\ cacheAddr = {} /\ lagged = {}
        /\ refused = {} /\ dropped = {} /\ stage = "caller"
    BY <1>1 DEF Init
  <2> QED BY <2>1, <2>2, <2>3, <2>4, <2>5, <2>6, <2>7 DEF TypeOK
<1>3. Steady BY <1>1 DEF Steady
<1>4. Resumable BY DEF Resumable, RegBefore
<1>5. QueueOK BY NoOps DEF QueueOK
<1>6. Progress BY DEF Progress, RegBefore, DropsPast
<1>7. CacheOK BY NoOps DEF CacheOK
<1>8. TransferTxs = {} BY <1>1 DEF TransferTxs
<1>9. Cardinality({}) = 0 BY FS_EmptySet
<1>10. HoldersCounted
  <2>1. {a \in Addrs : balance[a] # None} = {} BY DEF None
  <2>2. ~(None > 0) BY DEF None
  <2>3. {a \in Addrs : balance[a] > 0} = {} BY <2>2
  <2> QED BY <2>1, <2>3, <1>9 DEF HoldersCounted
<1>11. TransfersOnce
  <2>1. \A a : {t \in TransferTxs : a \in Parties(chain[t].x)} = {} BY <1>8
  <2> QED BY <2>1, <1>8, <1>9 DEF TransfersOnce
<1>12. Fresh BY <1>8 DEF Fresh
<1> QED BY <1>2, <1>3, <1>4, <1>5, <1>6, <1>7, <1>10, <1>11, <1>12 DEF IInv

LEMMA NextIInv == IInv /\ [Next]_vars => IInv'
<1> SUFFICES ASSUME IInv, [Next]_vars PROVE IInv' OBVIOUS
<1>1. CASE NewBlock BY <1>1, NewBlockStep
<1>2. CASE StoreBlock \/ RaiseBest \/ RefreshServers BY <1>2, PipelineStep
<1>3. CASE HandleReg BY <1>3, HandleRegStep
<1>4. CASE HandleCaller BY <1>4, HandleCallerStep
<1>5. CASE HandleTransfer BY <1>5, HandleTransferStep
<1>6. CASE InsertNep5Asset \/ UpdateCounter BY <1>6, PlainCommitStep
<1>7. CASE UpdateCallerBalance BY <1>7, UpdateCallerBalanceStep
<1>8. CASE InsertNep5transaction BY <1>8, InsertNep5transactionStep
<1>9. CASE PanicStore \/ PanicQuery \/ Crash BY <1>9, DieStep
<1>10. CASE \E k \in 1..All : LoseConnection(k) \/ Refuse(k) BY <1>10, RepeatStep
<1>11. CASE Start BY <1>11, StartStep
<1>12. CASE UNCHANGED vars
  <2> USE <1>12 DEF vars, netVars, blockVars, cacheVars, taskVars, assetVars, rowVars, IInv
  <2>1. TypeOK' BY DEF TypeOK, tip
  <2>2. Steady' BY DEF Steady, BalanceAt, Names, IsReg, tip
  <2>3. Resumable' BY DEF Resumable, RegBefore, IsReg
  <2>4. QueueOK'
    <3>1. chain' = chain /\ queue' = queue /\ tip' = tip BY DEF tip
    <3>2. ASSUME NEW o \in Elems(queue) PROVE OpOK(o)'
      <4>1. OpOK(o) BY DEF QueueOK
      <4> QED BY <4>1, <3>1 DEF OpOK, Answered, BalanceAt, IsTransfer, IsFirstReg,
                                RegBefore, IsReg
    <3> QED BY <3>1, <3>2 DEF QueueOK
  <2>5. Progress'
    <3>1. \A t : /\ IsTransfer(t)' <=> IsTransfer(t)
                 /\ IsFirstReg(t)' <=> IsFirstReg(t)
      BY DEF IsTransfer, IsFirstReg, RegBefore, IsReg
    <3>2. (RegBefore(next)' <=> RegBefore(next)) /\ (IsReg(next)' <=> IsReg(next))
      BY DEF RegBefore, IsReg
    <3>3. \A kind, t : Queued(kind, t)' <=> Queued(kind, t) BY DEF Queued
    <3>4. DropsPast' <=> DropsPast BY DEF DropsPast
    <3> QED BY <3>1, <3>2, <3>3, <3>4 DEF Progress
  <2>6. CacheOK' BY DEF CacheOK
  <2>7. HoldersCounted' BY DEF HoldersCounted
  <2>8. TransferTxs' = TransferTxs BY DEF TransferTxs
  <2>9. TransfersOnce' BY <2>8 DEF TransfersOnce
  <2>10. Fresh' BY <2>8 DEF Fresh, BalanceAt, tip
  <2> QED BY <2>1, <2>2, <2>3, <2>4, <2>5, <2>6, <2>7, <2>9, <2>10
<1> QED BY <1>1, <1>2, <1>3, <1>4, <1>5, <1>6, <1>7, <1>8, <1>9, <1>10, <1>11, <1>12
        DEF Next, HandleNep5Tx, HandleNep5Store

\* Whatever the servers answer, whenever the operations are written, and whatever is lost
\* in between, the invariant of the task and its tables holds (handleNep5Tx,
\* handleNep5Store, neo/db/nep5.go and addr.go, core/cache/addr.go).
THEOREM StoreInvariance == Spec => []IInv
<1> QED BY InitIInv, NextIInv, PTL DEF Spec

\* The cache of a running task holds the balances of addr_asset: an operation that fails
\* kills the process, and a start loads it anew.  Only the accounts of a statement that
\* a read-only server refused, after the cache had changed, are exempt.
THEOREM CacheHoldsRows == Spec => []CacheIsRows
<1>1. IInv => CacheIsRows BY DEF IInv, CacheOK, CacheIsRows
<1> QED BY <1>1, StoreInvariance, PTL

\* nep5.addresses, counter.cnt_addr and nep5.holding_addresses are what they count.
THEOREM CountsAreExact == Spec => []HoldersCounted
<1>1. IInv => HoldersCounted BY DEF IInv
<1> QED BY <1>1, StoreInvariance, PTL

\* Every transfer of the asset up to the counter whose balances could be queried is
\* counted once, in the asset and in each of its addresses, however often the task
\* starts again.
THEOREM EachTransferOnce == Spec => []TransfersOnce
<1>1. IInv => TransfersOnce BY DEF IInv
<1> QED BY <1>1, StoreInvariance, PTL

\* A balance asked of a server that is ahead, and stored later, is the balance at the
\* tip once the last transaction of its address is a stored transfer.
THEOREM StoredBalancesAreCurrent == Spec => []BalancesCurrent
<1>1. ASSUME IInv PROVE BalancesCurrent
  <2> SUFFICES ASSUME losses = 0, NEW a \in Addrs \ lagged, LastIsTransfer(a)
               PROVE  balance[a] = BalanceAt(tip, a)
    BY DEF BalancesCurrent
  <2>1. PICK t \in TransferTxs :
          /\ a \in Parties(chain[t].x)
          /\ \A u \in (t + 1)..tip : ~Names(u, a)
    BY DEF LastIsTransfer, Names, IsReg
  <2>2. TransferTxs \subseteq 1..tip /\ tip \in Nat
    <3>1. TypeOK BY <1>1 DEF IInv
    <3> QED BY <3>1, CounterRange DEF TransferTxs
  <2>3. PICK h \in t..tip : balance[a] = BalanceAt(h, a)
    BY <2>1, <1>1 DEF IInv, Fresh
  <2>4. h \in 0..tip /\ \A u \in (h + 1)..tip : u \in (t + 1)..tip BY <2>2
  <2> QED BY <2>1, <2>3, <2>4, <1>1 DEF IInv, Steady
<1>2. IInv => BalancesCurrent BY <1>1
<1> QED BY <1>2, StoreInvariance, PTL
=============================================================================
