--------------------------- MODULE BlockSyncProofs ---------------------------
(***************************************************************************)
(* Machine-checked proofs about BlockSync, for every set of workers, chain *)
(* length, buffer and channel capacity, batch size and number of crashes.  *)
(***************************************************************************)
EXTENDS BlockSync, FiniteSetTheorems, TLAPS

\* The height in a worker's hands is never negative when it is downloaded.
TargetsReal ==
  /\ nextHeight >= -1
  /\ \A w \in Workers :
       /\ wpc[w] = "store" => target[w] >= -1
       /\ wpc[w] = "return" => nextHeight >= 0
       /\ wpc[w] \in {"return", "check", "download"} => target[w] >= 0

\* Everything buffered, held or sent is at most the network's best block.
OnlyReal ==
  /\ \A h \in buffer : h <= tip
  /\ height - 1 <= tip
  /\ apc = "send" => height <= tip

\* maxHeight bounds everything fetched since the start.
BelowHighest ==
  /\ maxHeight >= -1
  /\ \A h \in buffer : h <= maxHeight
  /\ height - 1 <= maxHeight
  /\ apc = "send" => height <= maxHeight

\* What the storer holds at each of its steps: a batch in the making has no
\* multiple of BatchSize before its last block.
BatchShape ==
  /\ spc \in {"decide", "insert"} => rawBlocks # <<>>
  /\ spc \in {"best", "raise"} => rawBlocks = <<>>
  /\ \A i \in 1..(Len(rawBlocks) - 1) : rawBlocks[i] % BatchSize # 0
  /\ spc = "recv" /\ rawBlocks # <<>> => LastRaw % BatchSize # 0

\* The inductive invariant.
IInv ==
  /\ TypeOK /\ InOrder /\ TargetsReal /\ OnlyReal /\ BelowHighest
  /\ BatchShape /\ GapIsNoticed /\ TailFlushed

-----------------------------------------------------------------------------
\* The invariant holds when Run starts on an empty database.
LEMMA InitIInv == Init => IInv
<1> SUFFICES ASSUME Init PROVE IInv
  OBVIOUS
<1> USE BoundsAssumption DEF Init
<1>1. TypeOK
  BY FS_EmptySet DEF TypeOK, Heights
<1>2. InOrder
  BY DEF InOrder
<1>3. TargetsReal /\ OnlyReal /\ BelowHighest
  BY DEF TargetsReal, OnlyReal, BelowHighest
<1>4. BatchShape /\ GapIsNoticed /\ TailFlushed
  BY DEF BatchShape, GapIsNoticed, TailFlushed, LastRaw
<1> QED
  BY <1>1, <1>2, <1>3, <1>4 DEF IInv

-----------------------------------------------------------------------------

PC == {"new", "load", "store", "return", "check", "download", "next", "quit",
       "highest", "done"}

\* What Put does, from either of its two callers.
LEMMA PutKeeps ==
  ASSUME NEW h \in Nat, h <= tip, Put(h), tip' = tip,
         buffer \in SUBSET Nat, IsFiniteSet(buffer), maxHeight \in Int,
         tip \in Int, \A k \in buffer : k <= tip /\ k <= maxHeight
  PROVE  /\ buffer' \in SUBSET Nat /\ IsFiniteSet(buffer')
         /\ maxHeight' \in Int /\ maxHeight' >= maxHeight
         /\ \A k \in buffer' : k <= tip /\ k <= maxHeight'
         /\ maxHeight' # maxHeight => maxHeight' \in buffer'
         /\ buffer \subseteq buffer'
         /\ nextHeight' = nextHeight
<1>1. buffer' = buffer \cup {h} /\ maxHeight' = Raised(h)
      /\ nextHeight' = nextHeight
  BY DEF Put
<1>2. IsFiniteSet(buffer')
  BY <1>1, FS_AddElement
<1> QED
  BY <1>1, <1>2 DEF Raised

\* Putting one block more keeps what IInv says of the buffer.
LEMMA PutIInv ==
  ASSUME IInv, NEW h \in Nat, h <= tip, Put(h), tip' = tip,
         UNCHANGED <<height, spc, rawBlocks>>,
         apc' = apc \/ (apc = "missing" /\ apc' = "pop")
  PROVE  /\ buffer' \in SUBSET Nat /\ IsFiniteSet(buffer')
         /\ maxHeight' \in Int /\ nextHeight' = nextHeight
         /\ OnlyReal' /\ BelowHighest' /\ GapIsNoticed' /\ TailFlushed'
<1>1. /\ buffer \in SUBSET Nat /\ IsFiniteSet(buffer)
      /\ maxHeight \in Int /\ height \in Int /\ tip \in Int
  BY DEF IInv, TypeOK
<1>2. \A k \in buffer : k <= tip /\ k <= maxHeight
  BY DEF IInv, OnlyReal, BelowHighest
<1>3. /\ buffer' \in SUBSET Nat /\ IsFiniteSet(buffer')
      /\ maxHeight' \in Int /\ maxHeight' >= maxHeight
      /\ \A k \in buffer' : k <= tip /\ k <= maxHeight'
      /\ maxHeight' # maxHeight => maxHeight' \in buffer'
      /\ buffer \subseteq buffer'
      /\ nextHeight' = nextHeight
  BY <1>1, <1>2, PutKeeps
<1>4. apc' = "send" <=> apc = "send"
  OBVIOUS
<1>5. OnlyReal'
  BY <1>3, <1>4 DEF IInv, OnlyReal
<1>6. BelowHighest'
  BY <1>1, <1>3, <1>4 DEF IInv, BelowHighest
<1>7. GapIsNoticed'
  BY <1>1, <1>3, <1>4 DEF IInv, GapIsNoticed
<1>8. TailFlushed'
  <2>1. LastRaw' = LastRaw
    BY DEF LastRaw
  <2>2. rawBlocks # <<>> => LastRaw \in Int
    BY DEF IInv, TypeOK, LastRaw
  <2> QED
    BY <1>1, <1>3, <2>1, <2>2 DEF IInv, TailFlushed
<1> QED
  BY <1>3, <1>5, <1>6, <1>7, <1>8

\* A worker's own variables stay typed, and its targets real.
LEMMA WorkerKeeps ==
  ASSUME NEW w \in Workers, FetchStep(w),
         threadCnt \in 0..255, wpc \in [Workers -> PC],
         target \in [Workers -> Int], nextHeight \in Int, maxHeight \in Int,
         maxHeight >= -1, TargetsReal
  PROVE  /\ threadCnt' \in 0..255 /\ wpc' \in [Workers -> PC]
         /\ target' \in [Workers -> Int] /\ nextHeight' \in Int
         /\ TargetsReal'
<1> USE DEF TargetsReal, WorkerAt, PC, poolVars
<1>1. CASE Start(w)
  <2>1. threadCnt' \in 0..255
    BY <1>1 DEF Start
  <2> QED
    BY <1>1, <2>1 DEF Start
<1>2. CASE LoadNext(w)
  BY <1>2 DEF LoadNext
<1>3. CASE StoreNext(w)
  BY <1>3 DEF StoreNext
<1>4. CASE ReturnNext(w)
  <2> PICK h \in {target[w], nextHeight} : target' = [target EXCEPT ![w] = h]
    BY <1>4 DEF ReturnNext
  <2>1. h \in Int /\ h >= 0
    BY <1>4 DEF ReturnNext
  <2> QED
    BY <1>4, <2>1 DEF ReturnNext
<1>5. CASE CheckSize(w)
  BY <1>5 DEF CheckSize
<1>6. CASE Fetched(w)
  BY <1>6 DEF Fetched, Put
<1>7. CASE NotFetched(w)
  BY <1>7 DEF NotFetched
<1>8. CASE ShouldQuit(w)
  <2>1. threadCnt' \in 0..255
    BY <1>8 DEF ShouldQuit, MayQuit
  <2> QED
    BY <1>8, <2>1 DEF ShouldQuit
<1>9. CASE ChooseNext(w)
  BY <1>9 DEF ChooseNext
<1>10. CASE FollowHighest(w)
  BY <1>10 DEF FollowHighest
<1> QED
  BY <1>1, <1>2, <1>3, <1>4, <1>5, <1>6, <1>7, <1>8, <1>9, <1>10 DEF FetchStep

\* A step of a fetch worker leaves the pipeline behind the buffer alone.
LEMMA FetchIInv ==
  ASSUME IInv, NEW w \in Workers, FetchStep(w)
  PROVE  IInv'
<1>1. UNCHANGED <<tip, bestHeight, apc, height, delay, queue, spc, rawBlocks,
                  blocks, lastIndex, crashes>>
  BY DEF FetchStep, Start, LoadNext, StoreNext, ReturnNext, CheckSize, Fetched,
         NotFetched, ShouldQuit, ChooseNext, FollowHighest, netVars, arrVars,
         storeVars, dbVars
<1>2. InOrder'
  BY <1>1 DEF IInv, InOrder
<1>3. BatchShape'
  BY <1>1 DEF IInv, BatchShape, LastRaw
<1>4. /\ threadCnt' \in 0..255 /\ wpc' \in [Workers -> PC]
      /\ target' \in [Workers -> Int] /\ nextHeight' \in Int
      /\ TargetsReal'
  <2>1. /\ threadCnt \in 0..255 /\ wpc \in [Workers -> PC]
        /\ target \in [Workers -> Int] /\ nextHeight \in Int
        /\ maxHeight \in Int /\ maxHeight >= -1 /\ TargetsReal
    BY DEF IInv, TypeOK, BelowHighest, PC
  <2> QED
    BY <2>1, WorkerKeeps
<1>5. /\ buffer' \in SUBSET Nat /\ IsFiniteSet(buffer') /\ maxHeight' \in Int
      /\ OnlyReal' /\ BelowHighest' /\ GapIsNoticed' /\ TailFlushed'
  <2>1. CASE Fetched(w)
    <3>1. Put(target[w]) /\ wpc[w] = "download" /\ target[w] <= tip
      BY <2>1 DEF Fetched, WorkerAt
    <3>2. target[w] \in Nat
      BY <3>1 DEF IInv, TypeOK, TargetsReal
    <3> QED
      BY <1>1, <3>1, <3>2, PutIInv
  <2>2. CASE ~Fetched(w)
    <3>1. UNCHANGED <<buffer, maxHeight>>
      BY <2>2 DEF FetchStep, Start, LoadNext, StoreNext, ReturnNext, CheckSize,
         NotFetched, ShouldQuit, ChooseNext, FollowHighest, poolVars
    <3> QED
      BY <1>1, <3>1 DEF IInv, TypeOK, OnlyReal, BelowHighest, GapIsNoticed,
         TailFlushed, LastRaw
  <2> QED
    BY <2>1, <2>2
<1>6. TypeOK'
  BY <1>1, <1>4, <1>5 DEF IInv, TypeOK, PC
<1> QED
  BY <1>2, <1>3, <1>4, <1>5, <1>6 DEF IInv

-----------------------------------------------------------------------------
\* The arranger moves a block from the buffer to the channel, in order.
LEMMA ArrangeIInv ==
  ASSUME IInv, ArrangeStep
  PROVE  IInv'
<1>1. UNCHANGED <<tip, bestHeight, nextHeight, threadCnt, wpc, target, spc,
                  rawBlocks, blocks, lastIndex, crashes>>
  BY DEF ArrangeStep, PopHit, PopMiss, Send, Poll, GotMissing, StillMissing,
         netVars, poolVars, fetchVars, storeVars, dbVars, Put
<1>2. TargetsReal'
  BY <1>1 DEF IInv, TargetsReal
<1>3. BatchShape'
  BY <1>1 DEF IInv, BatchShape, LastRaw
<1>4. CASE PopHit
  <2>1. /\ apc = "pop" /\ apc' = "send" /\ height \in buffer
        /\ buffer' = buffer \ {height}
        /\ UNCHANGED <<maxHeight, height, delay, queue>>
    BY <1>4 DEF PopHit
  <2>2. buffer' \in SUBSET Nat /\ IsFiniteSet(buffer') /\ buffer' \subseteq buffer
    BY <2>1, FS_RemoveElement DEF IInv, TypeOK
  <2>3. TypeOK'
    BY <1>1, <2>1, <2>2 DEF IInv, TypeOK
  <2>4. InOrder'
    BY <1>1, <2>1 DEF IInv, InOrder
  <2>5. OnlyReal' /\ BelowHighest'
    BY <1>1, <2>1, <2>2 DEF IInv, OnlyReal, BelowHighest
  <2>6. GapIsNoticed'
    BY <2>1 DEF IInv, TypeOK, GapIsNoticed
  <2>7. TailFlushed'
    BY <1>1, <2>1 DEF IInv, TailFlushed, LastRaw
  <2> QED
    BY <1>2, <1>3, <2>3, <2>4, <2>5, <2>6, <2>7 DEF IInv
<1>5. CASE PopMiss \/ Poll \/ StillMissing
  <2>1. UNCHANGED <<buffer, maxHeight, height, queue>>
        /\ apc # "send" /\ apc' \in {"pop", "wait", "missing"}
        /\ delay' \in {delay, (delay + 1) % MissingTicks}
    BY <1>5 DEF PopMiss, Poll, StillMissing, MissingDue, poolVars
  <2>2. delay' \in 0..(MissingTicks - 1)
    BY <2>1, BoundsAssumption DEF IInv, TypeOK
  <2>3. TypeOK'
    BY <1>1, <2>1, <2>2 DEF IInv, TypeOK
  <2>4. InOrder'
    BY <1>1, <2>1 DEF IInv, InOrder
  <2>5. OnlyReal' /\ BelowHighest' /\ GapIsNoticed'
    BY <1>1, <2>1 DEF IInv, OnlyReal, BelowHighest, GapIsNoticed
  <2>6. TailFlushed'
    BY <1>1, <2>1 DEF IInv, TailFlushed, LastRaw
  <2> QED
    BY <1>2, <1>3, <2>3, <2>4, <2>5, <2>6 DEF IInv
<1>6. CASE Send
  <2>1. /\ apc = "send" /\ apc' = "pop" /\ Len(queue) < ChanCap
        /\ queue' = Append(queue, height) /\ height' = height + 1
        /\ delay' = 0 /\ UNCHANGED <<buffer, maxHeight>>
    BY <1>6 DEF Send, ChannelHasRoom, poolVars
  <2>2. /\ queue \in Seq(Nat) /\ rawBlocks \in Seq(Nat) /\ lastIndex \in Int
        /\ height \in Nat /\ tip \in Int /\ maxHeight \in Int
    BY DEF IInv, TypeOK, Heights
  <2>3. /\ queue' \in Seq(Nat) /\ Len(queue') = Len(queue) + 1
        /\ \A i \in 1..Len(queue) : queue'[i] = queue[i]
        /\ queue'[Len(queue) + 1] = height
    BY <2>1, <2>2
  <2>4. Len(queue) \in Nat /\ Len(rawBlocks) \in Nat
    BY <2>2
  <2>5. TypeOK'
    <3>1. Len(queue') <= ChanCap
      BY <2>1, <2>3, <2>4, BoundsAssumption
    <3>2. height' \in Nat /\ delay' \in 0..(MissingTicks - 1)
      BY <2>1, <2>2, BoundsAssumption
    <3> QED
      BY <1>1, <2>1, <2>3, <3>1, <3>2 DEF IInv, TypeOK
  <2>6. InOrder'
    <3>1. height = lastIndex + Len(rawBlocks) + Len(queue) + 1
      BY DEF IInv, InOrder
    <3>2. \A i \in 1..Len(queue') :
            queue'[i] = lastIndex + Len(rawBlocks) + i
      <4> TAKE i \in 1..Len(queue')
      <4>1. CASE i \in 1..Len(queue)
        BY <4>1, <2>3 DEF IInv, InOrder
      <4>2. CASE i = Len(queue) + 1
        BY <4>2, <2>2, <2>3, <2>4, <3>1
      <4> QED
        BY <2>3, <2>4, <4>1, <4>2
    <3>3. height' = lastIndex + Len(rawBlocks) + Len(queue') + 1
      BY <2>1, <2>2, <2>3, <2>4, <3>1
    <3> QED
      BY <1>1, <3>2, <3>3 DEF IInv, InOrder
  <2>7. OnlyReal' /\ BelowHighest'
    BY <1>1, <2>1, <2>2 DEF IInv, OnlyReal, BelowHighest
  <2>8. GapIsNoticed'
    BY <2>1, <2>2 DEF IInv, GapIsNoticed
  <2>9. TailFlushed'
    BY <1>1, <2>1 DEF IInv, TailFlushed, LastRaw
  <2> QED
    BY <1>2, <1>3, <2>5, <2>6, <2>7, <2>8, <2>9 DEF IInv
<1>7. CASE GotMissing
  <2>1. /\ apc = "missing" /\ apc' = "pop" /\ height <= tip /\ Put(height)
        /\ UNCHANGED <<height, delay, queue>>
    BY <1>7 DEF GotMissing
  <2>2. height \in Nat
    BY DEF IInv, TypeOK
  <2>3. /\ buffer' \in SUBSET Nat /\ IsFiniteSet(buffer')
        /\ maxHeight' \in Int /\ nextHeight' = nextHeight
        /\ OnlyReal' /\ BelowHighest' /\ GapIsNoticed' /\ TailFlushed'
    BY <1>1, <2>1, <2>2, PutIInv
  <2>4. TypeOK'
    BY <1>1, <2>1, <2>3 DEF IInv, TypeOK
  <2>5. InOrder'
    BY <1>1, <2>1 DEF IInv, InOrder
  <2> QED
    BY <1>2, <1>3, <2>3, <2>4, <2>5 DEF IInv
<1> QED
  BY <1>4, <1>5, <1>6, <1>7 DEF ArrangeStep

-----------------------------------------------------------------------------
\* The last block of the batch is where the run of heights says it is.
LEMMA LastRawIs ==
  ASSUME IInv, rawBlocks # <<>>
  PROVE  /\ Len(rawBlocks) \in Nat \ {0}
         /\ LastRaw = lastIndex + Len(rawBlocks)
         /\ LastRaw \in Nat /\ LastRaw <= tip /\ LastRaw < height
         /\ LastRaw <= maxHeight
<1>1. /\ rawBlocks \in Seq(Nat) /\ queue \in Seq(Nat) /\ lastIndex \in Int
      /\ height \in Nat /\ tip \in Int /\ maxHeight \in Int
  BY DEF IInv, TypeOK, Heights
<1>2. Len(rawBlocks) \in Nat \ {0} /\ Len(queue) \in Nat
  BY <1>1
<1>3. LastRaw = lastIndex + Len(rawBlocks) /\ LastRaw \in Nat
  BY <1>1, <1>2 DEF IInv, InOrder, LastRaw
<1>4. height = lastIndex + Len(rawBlocks) + Len(queue) + 1
  BY DEF IInv, InOrder
<1>5. height - 1 <= tip /\ height - 1 <= maxHeight
  BY DEF IInv, OnlyReal, BelowHighest
<1>6. LastRaw <= height - 1
  BY <1>1, <1>2, <1>3, <1>4
<1> QED
  BY <1>1, <1>2, <1>3, <1>5, <1>6

\* The storer moves blocks from the channel to its batch to the database.
LEMMA StoreIInv ==
  ASSUME IInv, StoreStep
  PROVE  IInv'
<1>1. UNCHANGED <<tip, buffer, maxHeight, nextHeight, threadCnt, wpc, target,
                  apc, height, delay, crashes>>
  BY DEF StoreStep, Receive, Decide, InsertBlock, CheckBest, RaiseBest,
         netVars, poolVars, fetchVars, arrVars
<1>2. TargetsReal' /\ OnlyReal' /\ BelowHighest' /\ GapIsNoticed'
  BY <1>1 DEF IInv, TargetsReal, OnlyReal, BelowHighest, GapIsNoticed
<1>3. /\ queue \in Seq(Nat) /\ rawBlocks \in Seq(Nat) /\ lastIndex \in Int
      /\ height \in Nat /\ tip \in 0..ChainMax /\ maxHeight \in Int
  BY DEF IInv, TypeOK, Heights
<1>4. CASE Receive
  <2>1. /\ spc = "recv" /\ spc' = "decide" /\ queue # <<>>
        /\ rawBlocks' = Append(rawBlocks, Head(queue))
        /\ queue' = Tail(queue)
        /\ UNCHANGED <<bestHeight, blocks, lastIndex>>
    BY <1>4 DEF Receive, netVars, dbVars
  <2>2. /\ Len(queue) \in Nat \ {0} /\ Len(rawBlocks) \in Nat
        /\ Head(queue) = queue[1] /\ Head(queue) \in Nat
    BY <1>3, <2>1
  <2>3. /\ rawBlocks' \in Seq(Nat) /\ Len(rawBlocks') = Len(rawBlocks) + 1
        /\ \A i \in 1..Len(rawBlocks) : rawBlocks'[i] = rawBlocks[i]
        /\ rawBlocks'[Len(rawBlocks) + 1] = queue[1]
    BY <1>3, <2>1, <2>2
  <2>4. /\ queue' \in Seq(Nat) /\ Len(queue') = Len(queue) - 1
        /\ \A i \in 1..Len(queue') : queue'[i] = queue[i + 1]
    BY <1>3, <2>1, <2>2
  <2>5. TypeOK'
    <3>1. Len(queue') <= ChanCap
      BY <2>2, <2>4, BoundsAssumption DEF IInv, TypeOK
    <3> QED
      BY <1>1, <2>1, <2>3, <2>4, <3>1 DEF IInv, TypeOK
  <2>6. InOrder'
    <3>1. \A i \in 1..Len(rawBlocks') : rawBlocks'[i] = lastIndex + i
      <4> TAKE i \in 1..Len(rawBlocks')
      <4>1. CASE i \in 1..Len(rawBlocks)
        BY <4>1, <2>3 DEF IInv, InOrder
      <4>2. CASE i = Len(rawBlocks) + 1
        <5>1. queue[1] = lastIndex + Len(rawBlocks) + 1
          BY <2>2 DEF IInv, InOrder
        <5> QED
          BY <4>2, <5>1, <2>2, <2>3, <1>3
      <4> QED
        BY <2>2, <2>3, <4>1, <4>2
    <3>2. \A i \in 1..Len(queue') :
            queue'[i] = lastIndex + Len(rawBlocks') + i
      <4> TAKE i \in 1..Len(queue')
      <4>1. i + 1 \in 1..Len(queue)
        BY <2>2, <2>4
      <4>2. queue[i + 1] = lastIndex + Len(rawBlocks) + (i + 1)
        BY <4>1 DEF IInv, InOrder
      <4> QED
        BY <4>1, <4>2, <2>2, <2>3, <2>4, <1>3
    <3>3. height = lastIndex + Len(rawBlocks') + Len(queue') + 1
      <4>1. height = lastIndex + Len(rawBlocks) + Len(queue) + 1
        BY DEF IInv, InOrder
      <4> QED
        BY <4>1, <1>3, <2>2, <2>3, <2>4
    <3> QED
      BY <1>1, <2>1, <3>1, <3>2, <3>3 DEF IInv, InOrder
  <2>7. BatchShape'
    <3>1. \A i \in 1..Len(rawBlocks) : rawBlocks[i] % BatchSize # 0
      <4> TAKE i \in 1..Len(rawBlocks)
      <4>1. CASE i = Len(rawBlocks)
        BY <4>1, <2>1, <2>2, <1>3 DEF IInv, BatchShape, LastRaw
      <4>2. CASE i \in 1..(Len(rawBlocks) - 1)
        BY <4>2 DEF IInv, BatchShape
      <4> QED
        BY <2>2, <4>1, <4>2
    <3>2. Len(rawBlocks') - 1 = Len(rawBlocks) /\ rawBlocks' # <<>>
      BY <2>2, <2>3
    <3>3. \A i \in 1..(Len(rawBlocks') - 1) : rawBlocks'[i] % BatchSize # 0
      BY <2>3, <3>1, <3>2
    <3> QED
      BY <2>1, <3>2, <3>3 DEF BatchShape
  <2>8. TailFlushed'
    BY <2>1 DEF TailFlushed
  <2> QED
    BY <1>2, <2>5, <2>6, <2>7, <2>8 DEF IInv
<1>5. CASE Decide
  <2>1. /\ spc = "decide" /\ spc' \in {"insert", "recv"}
        /\ spc' = "recv" => LastRaw % BatchSize # 0 /\ LastRaw # maxHeight
        /\ UNCHANGED <<bestHeight, queue, rawBlocks, blocks, lastIndex>>
    BY <1>5 DEF Decide, FlushDue, netVars, dbVars
  <2>2. rawBlocks # <<>>
    BY <2>1 DEF IInv, BatchShape
  <2>3. LastRaw \in Nat /\ LastRaw <= maxHeight
    BY <2>2, LastRawIs
  <2>4. TypeOK'
    BY <1>1, <2>1 DEF IInv, TypeOK
  <2>5. InOrder'
    BY <1>1, <2>1 DEF IInv, InOrder
  <2>6. LastRaw' = LastRaw
    BY <2>1 DEF LastRaw
  <2>7. BatchShape'
    BY <2>1, <2>2, <2>6 DEF IInv, BatchShape
  <2>8. TailFlushed'
    BY <1>1, <1>3, <2>1, <2>3, <2>6 DEF TailFlushed
  <2> QED
    BY <1>2, <2>4, <2>5, <2>7, <2>8 DEF IInv
<1>6. CASE InsertBlock
  <2>1. /\ spc = "insert" /\ spc' = "best"
        /\ blocks' = blocks \cup Range(rawBlocks)
        /\ lastIndex' = LastRaw /\ rawBlocks' = <<>>
        /\ UNCHANGED <<bestHeight, queue>>
    BY <1>6 DEF InsertBlock, netVars
  <2>2. rawBlocks # <<>>
    BY <2>1 DEF IInv, BatchShape
  <2>3. /\ Len(rawBlocks) \in Nat \ {0}
        /\ LastRaw = lastIndex + Len(rawBlocks)
        /\ LastRaw \in Nat /\ LastRaw <= tip
    BY <2>2, LastRawIs
  <2>4. blocks' = 0..lastIndex'
    <3>1. Range(rawBlocks) = (lastIndex + 1)..LastRaw
      <4>1. \A i \in 1..Len(rawBlocks) : rawBlocks[i] = lastIndex + i
        BY DEF IInv, InOrder
      <4>2. DOMAIN rawBlocks = 1..Len(rawBlocks)
        BY <1>3
      <4>3. ASSUME NEW h \in (lastIndex + 1)..LastRaw
            PROVE  h \in Range(rawBlocks)
        <5>1. h - lastIndex \in 1..Len(rawBlocks)
          BY <4>3, <1>3, <2>3
        <5>2. rawBlocks[h - lastIndex] = h
          BY <4>1, <5>1, <1>3
        <5> QED
          BY <4>2, <5>1, <5>2 DEF Range
      <4>4. ASSUME NEW h \in Range(rawBlocks)
            PROVE  h \in (lastIndex + 1)..LastRaw
        <5>1. PICK i \in 1..Len(rawBlocks) : h = rawBlocks[i]
          BY <4>2 DEF Range
        <5> QED
          BY <4>1, <5>1, <1>3, <2>3
      <4> QED
        BY <4>3, <4>4
    <3>2. blocks = 0..lastIndex /\ lastIndex >= -1
      BY DEF IInv, InOrder, TypeOK, Heights
    <3> QED
      BY <1>3, <2>1, <2>3, <3>1, <3>2
  <2>5. TypeOK'
    <3>1. lastIndex' \in Heights
      BY <1>3, <2>1, <2>3, BoundsAssumption DEF Heights
    <3>2. blocks' \in SUBSET Nat
      BY <2>1, <2>3, <2>4
    <3> QED
      BY <1>1, <2>1, <3>1, <3>2 DEF IInv, TypeOK
  <2>6. InOrder'
    <3>1. Len(rawBlocks') = 0
      BY <2>1
    <3>2. \A i \in 1..Len(queue') :
            queue'[i] = lastIndex' + Len(rawBlocks') + i
      <4> TAKE i \in 1..Len(queue')
      <4>1. queue[i] = lastIndex + Len(rawBlocks) + i
        BY <2>1 DEF IInv, InOrder
      <4> QED
        BY <4>1, <1>3, <2>1, <2>3, <3>1
    <3>3. height' = lastIndex' + Len(rawBlocks') + Len(queue') + 1
      <4>1. height = lastIndex + Len(rawBlocks) + Len(queue) + 1
        BY DEF IInv, InOrder
      <4> QED
        BY <1>1, <4>1, <1>3, <2>1, <2>3, <3>1
    <3> QED
      BY <2>4, <3>1, <3>2, <3>3 DEF InOrder
  <2>7. BatchShape' /\ TailFlushed'
    BY <2>1 DEF BatchShape, TailFlushed
  <2> QED
    BY <1>2, <2>5, <2>6, <2>7 DEF IInv
<1>7. CASE CheckBest \/ RaiseBest
  <2>1. /\ spc \in {"best", "raise"} /\ spc' \in {"raise", "recv"}
        /\ bestHeight' \in {bestHeight, lastIndex}
        /\ UNCHANGED <<queue, rawBlocks, blocks, lastIndex>>
    BY <1>7 DEF CheckBest, RaiseBest, CommittedBest, netVars, dbVars
  <2>2. rawBlocks = <<>>
    BY <2>1 DEF IInv, BatchShape
  <2>3. TypeOK'
    BY <1>1, <1>3, <2>1 DEF IInv, TypeOK
  <2>4. InOrder'
    BY <1>1, <2>1 DEF IInv, InOrder
  <2>5. BatchShape' /\ TailFlushed'
    BY <2>1, <2>2 DEF BatchShape, TailFlushed
  <2> QED
    BY <1>2, <2>3, <2>4, <2>5 DEF IInv
<1> QED
  BY <1>4, <1>5, <1>6, <1>7 DEF StoreStep

-----------------------------------------------------------------------------
\* The network's own steps change nothing the pipeline relies on.
LEMMA NetworkIInv ==
  ASSUME IInv, ChainGrows \/ RefreshServers
  PROVE  IInv'
<1>1. /\ UNCHANGED <<buffer, maxHeight, nextHeight, threadCnt, wpc, target,
                     apc, height, delay, queue, spc, rawBlocks, blocks,
                     lastIndex, crashes>>
      /\ tip' \in {tip, tip + 1} /\ tip' <= ChainMax /\ bestHeight' \in Int
  <2>1. tip \in 0..ChainMax /\ bestHeight \in Int
    BY DEF IInv, TypeOK
  <2> QED
    BY <2>1, BoundsAssumption DEF ChainGrows, RefreshServers, netVars, poolVars,
       fetchVars, arrVars, storeVars, dbVars
<1>2. tip \in Int /\ tip' \in 0..ChainMax /\ tip <= tip'
  BY <1>1, BoundsAssumption DEF IInv, TypeOK
<1>3. TypeOK'
  BY <1>1, <1>2 DEF IInv, TypeOK
<1>4. InOrder' /\ TargetsReal'
  BY <1>1 DEF IInv, InOrder, TargetsReal
<1>5. OnlyReal'
  <2>1. buffer \in SUBSET Nat /\ height \in Nat
    BY DEF IInv, TypeOK
  <2> QED
    BY <1>1, <1>2, <2>1 DEF IInv, OnlyReal
<1>6. BelowHighest' /\ BatchShape' /\ GapIsNoticed' /\ TailFlushed'
  BY <1>1 DEF IInv, BelowHighest, BatchShape, GapIsNoticed, TailFlushed, LastRaw
<1> QED
  BY <1>3, <1>4, <1>5, <1>6 DEF IInv

\* A restart finds the database as it was, and nothing else.
LEMMA CrashIInv ==
  ASSUME IInv, Crash
  PROVE  IInv'
<1>1. /\ buffer' = {} /\ maxHeight' = lastIndex /\ nextHeight' = lastIndex
      /\ threadCnt' = 0 /\ wpc' = [w \in Workers |-> "new"]
      /\ target' = [w \in Workers |-> -1]
      /\ apc' = "pop" /\ height' = lastIndex + 1 /\ delay' = 0
      /\ queue' = <<>> /\ spc' = "recv" /\ rawBlocks' = <<>>
      /\ UNCHANGED <<tip, blocks, lastIndex>>
      /\ bestHeight' \in 0..tip /\ crashes' \in 0..MaxCrashes
  BY BoundsAssumption DEF Crash, dbVars, FirstHeight, IInv, TypeOK
<1>2. lastIndex \in Int /\ lastIndex >= -1 /\ tip \in 0..ChainMax
  BY DEF IInv, TypeOK, Heights
<1>3. TypeOK'
  <2>1. height' \in Nat /\ delay' \in 0..(MissingTicks - 1)
        /\ IsFiniteSet(buffer')
    BY <1>1, <1>2, BoundsAssumption, FS_EmptySet
  <2> QED
    BY <1>1, <1>2, <2>1, BoundsAssumption DEF IInv, TypeOK
<1>4. InOrder'
  BY <1>1, <1>2 DEF IInv, InOrder
<1>5. lastIndex <= tip
  <2>1. /\ Len(rawBlocks) \in Nat /\ Len(queue) \in Nat
        /\ height = lastIndex + Len(rawBlocks) + Len(queue) + 1
        /\ height - 1 <= tip /\ height \in Nat
    BY DEF IInv, TypeOK, InOrder, OnlyReal
  <2> QED
    BY <1>2, <2>1
<1>6. OnlyReal' /\ BelowHighest' /\ TargetsReal'
  BY <1>1, <1>2, <1>5 DEF OnlyReal, BelowHighest, TargetsReal
<1>7. BatchShape' /\ GapIsNoticed' /\ TailFlushed'
  BY <1>1, <1>2 DEF BatchShape, GapIsNoticed, TailFlushed
<1> QED
  BY <1>3, <1>4, <1>6, <1>7 DEF IInv

-----------------------------------------------------------------------------
\* Every step keeps the invariant.
LEMMA StepIInv == IInv /\ [Next]_vars => IInv'
<1> SUFFICES ASSUME IInv, [Next]_vars PROVE IInv'
  OBVIOUS
<1>1. CASE Next
  BY <1>1, FetchIInv, ArrangeIInv, StoreIInv, NetworkIInv, CrashIInv DEF Next
<1>2. CASE UNCHANGED vars
  BY <1>2 DEF vars, netVars, poolVars, fetchVars, arrVars, storeVars, dbVars,
     IInv, TypeOK, InOrder, TargetsReal, OnlyReal, BelowHighest, BatchShape,
     GapIsNoticed, TailFlushed, LastRaw
<1> QED
  BY <1>1, <1>2

\* IInv holds in every reachable state.
THEOREM Invariance == Spec => []IInv
BY InitIInv, StepIInv, PTL DEF Spec

\* The pipeline's variables keep their types, for every choice of constants.
THEOREM TypeCorrect == Spec => []TypeOK
<1>1. IInv => TypeOK
  BY DEF IInv
<1> QED
  BY Invariance, <1>1, PTL

\* Whatever the workers, the network and crashes do, blocks reach the database
\* in order, once each, with no gap.
THEOREM StoredInOrder == Spec => []InOrder
<1>1. IInv => InOrder
  BY DEF IInv
<1> QED
  BY Invariance, <1>1, PTL

\* A gap below the highest fetched block always leaves that block in the
\* buffer, so the arranger's delay runs and getMissingBlock comes due.
THEOREM GapsNoticed == Spec => []GapIsNoticed
<1>1. IInv => GapIsNoticed
  BY DEF IInv
<1> QED
  BY Invariance, <1>1, PTL

\* The storer never sits on the last blocks fetched.
THEOREM TailsFlushed == Spec => []TailFlushed
<1>1. IInv => TailFlushed
  BY DEF IInv
<1> QED
  BY Invariance, <1>1, PTL

-----------------------------------------------------------------------------
\* The pipeline implements ChainStore: each transaction appends the next run
\* of blocks, no further than the network and no further than the next
\* multiple of BatchSize; every other step is invisible in the database.
THEOREM Refinement == Spec => ImplementsStore
<1> USE DEF Store!vars
<1>1. Init => Store!Init
  BY DEF Init, Store!Init
<1>2. IInv /\ [Next]_vars => [Store!Next]_(Store!vars)
  <2> SUFFICES ASSUME IInv, [Next]_vars PROVE [Store!Next]_(Store!vars)
    OBVIOUS
  <2>1. ASSUME NEW w \in Workers, FetchStep(w)
        PROVE  UNCHANGED <<tip, blocks, lastIndex>>
    BY <2>1 DEF FetchStep, Start, LoadNext, StoreNext, ReturnNext, CheckSize,
       Fetched, NotFetched, ShouldQuit, ChooseNext, FollowHighest, netVars,
       dbVars
  <2>2. ArrangeStep => UNCHANGED <<tip, blocks, lastIndex>>
    BY DEF ArrangeStep, PopHit, PopMiss, Send, Poll, GotMissing, StillMissing,
       netVars, dbVars
  <2>3. Receive \/ Decide \/ CheckBest \/ RaiseBest
          => UNCHANGED <<tip, blocks, lastIndex>>
    BY DEF Receive, Decide, CheckBest, RaiseBest, netVars, dbVars
  <2>4. ASSUME InsertBlock
        PROVE  \E last \in (lastIndex + 1)..tip : Store!InsertBatch(last)
    <3>1. rawBlocks # <<>> /\ spc' = "best"
      BY <2>4 DEF InsertBlock, IInv, BatchShape
    <3>2. /\ Len(rawBlocks) \in Nat \ {0}
          /\ LastRaw = lastIndex + Len(rawBlocks)
          /\ LastRaw \in Nat /\ LastRaw <= tip
      BY <3>1, LastRawIs
    <3>3. lastIndex \in Int /\ lastIndex >= -1 /\ tip \in Int
      BY DEF IInv, TypeOK, Heights
    <3>4. LastRaw \in (lastIndex + 1)..tip
      BY <3>2, <3>3
    <3>5. ASSUME NEW h \in (lastIndex + 1)..(LastRaw - 1)
          PROVE  h % BatchSize # 0
      <4>1. h - lastIndex \in 1..(Len(rawBlocks) - 1)
        BY <3>2, <3>3
      <4>2. rawBlocks[h - lastIndex] = h
        BY <4>1, <3>2, <3>3 DEF IInv, InOrder
      <4> QED
        BY <4>1, <4>2 DEF IInv, BatchShape
    <3>6. IInv'
      BY <2>4, StoreIInv DEF StoreStep
    <3>7. lastIndex' = LastRaw /\ tip' = tip
      BY <2>4 DEF InsertBlock, netVars
    <3>8. blocks' = blocks \cup (lastIndex + 1)..LastRaw
      <4>1. blocks = 0..lastIndex /\ blocks' = 0..LastRaw
        BY <3>6, <3>7 DEF IInv, InOrder
      <4> QED
        BY <4>1, <3>2, <3>3
    <3>9. Store!InsertBatch(LastRaw)
      BY <3>5, <3>7, <3>8 DEF Store!InsertBatch
    <3> QED
      BY <3>4, <3>9
  <2>5. ChainGrows => Store!Produce
    BY DEF ChainGrows, Store!Produce, dbVars
  <2>6. RefreshServers \/ Crash => UNCHANGED <<tip, blocks, lastIndex>>
    BY DEF RefreshServers, Crash, dbVars
  <2>7. UNCHANGED vars => UNCHANGED <<tip, blocks, lastIndex>>
    BY DEF vars, netVars, dbVars
  <2> QED
    BY <2>1, <2>2, <2>3, <2>4, <2>5, <2>6, <2>7 DEF Next, StoreStep, Store!Next
<1> QED
  BY <1>1, <1>2, Invariance, PTL DEF Spec, Store!Spec, ImplementsStore

-----------------------------------------------------------------------------
\* The best height in use is real: between a commit and the raise it leads to,
\* the committed height is a block of the network.
BestInv == BestIsReal /\ (spc \in {"best", "raise"} => lastIndex >= 0)

THEOREM BestHeightReal == Spec => []BestIsReal
<1>1. Init => BestInv
  BY DEF Init, BestInv, BestIsReal
<1>2. IInv /\ BestInv /\ [Next]_vars => BestInv'
  <2> SUFFICES ASSUME IInv, BestInv, [Next]_vars PROVE BestInv'
    OBVIOUS
  <2> USE DEF BestInv, BestIsReal, netVars, poolVars, fetchVars, arrVars,
              storeVars, dbVars
  <2>1. ASSUME NEW w \in Workers, FetchStep(w) PROVE BestInv'
    <3>1. UNCHANGED <<tip, bestHeight, spc, lastIndex>>
      BY <2>1 DEF FetchStep, Start, LoadNext, StoreNext, ReturnNext, CheckSize,
         Fetched, NotFetched, ShouldQuit, ChooseNext, FollowHighest
    <3> QED
      BY <3>1
  <2>2. CASE ArrangeStep
    <3>1. UNCHANGED <<tip, bestHeight, spc, lastIndex>>
      BY <2>2 DEF ArrangeStep, PopHit, PopMiss, Send, Poll, GotMissing,
         StillMissing
    <3> QED
      BY <3>1
  <2>3. CASE Receive \/ Decide
    BY <2>3 DEF Receive, Decide
  <2>4. CASE InsertBlock
    <3>1. rawBlocks # <<>>
      BY <2>4 DEF InsertBlock, IInv, BatchShape
    <3>2. LastRaw \in Nat
      BY <3>1, LastRawIs
    <3> QED
      BY <2>4, <3>2 DEF InsertBlock
  <2>5. CASE CheckBest
    BY <2>5 DEF CheckBest
  <2>6. CASE RaiseBest
    <3>1. lastIndex <= tip
      <4>1. /\ Len(rawBlocks) \in Nat /\ Len(queue) \in Nat
            /\ height = lastIndex + Len(rawBlocks) + Len(queue) + 1
            /\ height - 1 <= tip /\ lastIndex \in Int /\ tip \in Int
        BY DEF IInv, TypeOK, InOrder, OnlyReal, Heights
      <4> QED
        BY <4>1
    <3>2. lastIndex \in 0..tip
      BY <2>6, <3>1 DEF RaiseBest, IInv, TypeOK, Heights
    <3> QED
      BY <2>6, <3>2 DEF RaiseBest, CommittedBest
  <2>7. CASE ChainGrows
    <3>1. tip \in Int
      BY DEF IInv, TypeOK
    <3> QED
      BY <2>7, <3>1 DEF ChainGrows
  <2>8. CASE RefreshServers
    BY <2>8 DEF RefreshServers
  <2>9. CASE Crash
    BY <2>9 DEF Crash
  <2>10. CASE UNCHANGED vars
    BY <2>10 DEF vars
  <2> QED
    BY <2>1, <2>2, <2>3, <2>4, <2>5, <2>6, <2>7, <2>8, <2>9, <2>10
    DEF Next, StoreStep
<1>3. BestInv => BestIsReal
  BY DEF BestInv
<1> QED
  BY <1>1, <1>2, <1>3, Invariance, PTL DEF Spec

-----------------------------------------------------------------------------
\* Moving one worker moves the set of running workers by at most that worker.
LEMMA RunningMoves ==
  ASSUME wpc \in [Workers -> PC], NEW w \in Workers, NEW pc \in PC,
         wpc' = [wpc EXCEPT ![w] = pc]
  PROVE  /\ wpc[w] \notin {"new", "done"} /\ pc # "new" /\ pc # "done"
              => Running' = Running
         /\ wpc[w] = "new" /\ pc # "new" /\ pc # "done"
              => w \notin Running /\ Running' = Running \cup {w}
         /\ wpc[w] \notin {"new", "done"} /\ pc = "done"
              => w \in Running /\ Running' = Running \ {w}
BY DEF Running, PC

\* threadCnt counts the running workers exactly, and one always survives:
\* uint8 is wide enough for fewer than 256 of them.
THEOREM OneWorkerSurvives == Spec => []WorkersSurvive
<1> USE DEF netVars, poolVars, fetchVars, arrVars, storeVars, dbVars
<1>1. Init => WorkersSurvive
  <2> SUFFICES ASSUME Init PROVE WorkersSurvive
    OBVIOUS
  <2>1. Running = {} /\ \A w \in Workers : wpc[w] # "done"
    BY DEF Init, Running
  <2> QED
    BY <2>1, FS_EmptySet DEF Init, WorkersSurvive
<1>2. IInv /\ WorkersSurvive /\ [Next]_vars => WorkersSurvive'
  <2> SUFFICES ASSUME IInv, WorkersSurvive, [Next]_vars PROVE WorkersSurvive'
    OBVIOUS
  <2>1. wpc \in [Workers -> PC]
    BY DEF IInv, TypeOK, PC
  <2>2. /\ IsFiniteSet(Running) /\ Cardinality(Running) \in Nat
        /\ threadCnt = Cardinality(Running)
    BY WorkersAssumption, FS_Subset, FS_CardinalityType
    DEF Running, WorkersSurvive
  <2>3. ASSUME NEW w \in Workers, Start(w) PROVE WorkersSurvive'
    <3>1. wpc[w] = "new" /\ wpc' = [wpc EXCEPT ![w] = "load"]
          /\ threadCnt' = (threadCnt + 1) % 256
      BY <2>3 DEF Start, WorkerAt
    <3>2. w \notin Running /\ Running' = Running \cup {w}
      BY <2>1, <3>1, RunningMoves DEF PC
    <3>3. Cardinality(Running') = Cardinality(Running) + 1
      BY <2>2, <3>2, FS_AddElement
    <3>4. Cardinality(Running') <= Cardinality(Workers)
      BY WorkersAssumption, FS_Subset DEF Running
    <3>5. threadCnt' = Cardinality(Running')
      BY <2>2, <3>1, <3>3, <3>4, WorkersAssumption
    <3> QED
      BY <3>2, <3>5 DEF WorkersSurvive
  <2>4. ASSUME NEW w \in Workers, ShouldQuit(w) PROVE WorkersSurvive'
    <3>1. CASE MayQuit
      <4>1. wpc[w] = "quit" /\ wpc' = [wpc EXCEPT ![w] = "done"]
            /\ threadCnt' = threadCnt - 1 /\ threadCnt > 1
        BY <2>4, <3>1 DEF ShouldQuit, WorkerAt, MayQuit
      <4>2. w \in Running /\ Running' = Running \ {w}
        BY <2>1, <4>1, RunningMoves DEF PC
      <4>3. /\ Cardinality(Running') = Cardinality(Running) - 1
            /\ IsFiniteSet(Running')
        BY <2>2, <4>2, FS_RemoveElement
      <4>4. Running' # {}
        BY <2>2, <4>1, <4>3, FS_EmptySet
      <4> QED
        BY <2>2, <4>1, <4>3, <4>4 DEF WorkersSurvive
    <3>2. CASE ~MayQuit
      <4>1. wpc[w] = "quit" /\ wpc' = [wpc EXCEPT ![w] = "highest"]
            /\ threadCnt' = threadCnt
        BY <2>4, <3>2 DEF ShouldQuit, WorkerAt
      <4>2. Running' = Running /\ Running # {}
        BY <2>1, <4>1, RunningMoves DEF PC, Running
      <4> QED
        BY <4>1, <4>2 DEF WorkersSurvive
    <3> QED
      BY <3>1, <3>2
  <2>5. ASSUME NEW w \in Workers,
               \/ LoadNext(w) \/ StoreNext(w) \/ ReturnNext(w) \/ CheckSize(w)
               \/ Fetched(w) \/ NotFetched(w) \/ ChooseNext(w)
               \/ FollowHighest(w)
        PROVE  WorkersSurvive'
    <3>1. \E pc \in PC \ {"new", "done"} : wpc' = [wpc EXCEPT ![w] = pc]
      BY <2>5 DEF LoadNext, StoreNext, ReturnNext, CheckSize, Fetched,
         NotFetched, ChooseNext, FollowHighest, WorkerAt, PC
    <3>2. wpc[w] \notin {"new", "done"} /\ threadCnt' = threadCnt
      BY <2>5 DEF LoadNext, StoreNext, ReturnNext, CheckSize, Fetched,
         NotFetched, ChooseNext, FollowHighest, WorkerAt
    <3>3. Running' = Running /\ Running # {}
      BY <2>1, <3>1, <3>2, RunningMoves DEF Running
    <3> QED
      BY <3>2, <3>3 DEF WorkersSurvive
  <2>6. CASE ArrangeStep \/ StoreStep \/ ChainGrows \/ RefreshServers
             \/ UNCHANGED vars
    <3>1. UNCHANGED <<threadCnt, wpc>>
      BY <2>6 DEF ArrangeStep, PopHit, PopMiss, Send, Poll, GotMissing,
         StillMissing, StoreStep, Receive, Decide, InsertBlock, CheckBest,
         RaiseBest, ChainGrows, RefreshServers, vars
    <3> QED
      BY <3>1 DEF WorkersSurvive, Running
  <2>7. CASE Crash
    <3>1. Running' = {} /\ threadCnt' = 0 /\ \A w \in Workers : wpc'[w] # "done"
      BY <2>7 DEF Crash, Running
    <3> QED
      BY <3>1, FS_EmptySet DEF WorkersSurvive
  <2> QED
    BY <2>3, <2>4, <2>5, <2>6, <2>7 DEF Next, FetchStep
<1> QED
  BY <1>1, <1>2, Invariance, PTL DEF Spec

-----------------------------------------------------------------------------
\* The buffer bound.
LEMMA PassedFinite ==
  /\ IsFiniteSet(Passed) /\ Cardinality(Passed) \in Nat
  /\ Cardinality(Passed) <= Cardinality(Workers)
  /\ Cardinality(Workers) \in Nat
<1>1. Passed \in SUBSET Workers
  BY DEF Passed
<1> QED
  BY <1>1, WorkersAssumption, FS_Subset, FS_CardinalityType

\* What holds after a step that adds no more to one side than it takes away
\* from the other.
LEMMA RoomKept ==
  ASSUME NEW b \in Nat, NEW p \in Nat, NEW s \in 0..1, NEW limit \in Nat,
         b + p <= limit + s,
         NEW b2 \in Nat, NEW p2 \in Nat, NEW s2 \in 0..1,
         b2 + p2 - s2 <= b + p - s
  PROVE  b2 + p2 <= limit + s2
OBVIOUS

LEMMA RoomStep ==
  ASSUME IInv, BufferBounded,
         IsFiniteSet(buffer'), IsFiniteSet(Passed'),
         Cardinality(buffer') + Cardinality(Passed') - Slack'
           <= Cardinality(buffer) + Cardinality(Passed) - Slack
  PROVE  BufferBounded'
<1>1. Cardinality(buffer) \in Nat /\ Cardinality(Passed) \in Nat
  BY FS_CardinalityType, PassedFinite DEF IInv, TypeOK
<1>2. Cardinality(buffer') \in Nat /\ Cardinality(Passed') \in Nat
  BY FS_CardinalityType
<1>3. Slack \in 0..1 /\ Slack' \in 0..1
  BY DEF Slack
<1>4. BufferSize + Cardinality(Workers) \in Nat
  BY PassedFinite, BoundsAssumption
<1> QED
  BY <1>1, <1>2, <1>3, <1>4, RoomKept DEF BufferBounded

\* The buffer overshoots its limit by at most one block per worker and one
\* for the arranger, for every limit and number of workers.
THEOREM BufferIsBounded == Spec => []BufferBounded
<1> USE DEF netVars, poolVars, fetchVars, arrVars, storeVars, dbVars
<1>1. Init => BufferBounded
  <2> SUFFICES ASSUME Init PROVE BufferBounded
    OBVIOUS
  <2>1. buffer = {} /\ Passed = {}
    BY DEF Init, Passed
  <2> QED
    BY <2>1, FS_EmptySet, PassedFinite, BoundsAssumption DEF BufferBounded, Slack
<1>2. IInv /\ BufferBounded /\ [Next]_vars => BufferBounded'
  <2> SUFFICES ASSUME IInv, BufferBounded, [Next]_vars PROVE BufferBounded'
    OBVIOUS
  <2>1. IInv'
    BY StepIInv
  <2>2. /\ IsFiniteSet(buffer) /\ IsFiniteSet(buffer')
        /\ Cardinality(buffer) \in Nat /\ Cardinality(buffer') \in Nat
        /\ wpc \in [Workers -> PC]
    BY <2>1, FS_CardinalityType DEF IInv, TypeOK, PC
  <2>3. /\ IsFiniteSet(Passed) /\ IsFiniteSet(Passed')
        /\ Cardinality(Passed) \in Nat /\ Cardinality(Passed') \in Nat
        /\ Cardinality(Passed') <= Cardinality(Workers)
        /\ Cardinality(Workers) \in Nat
    BY PassedFinite, WorkersAssumption, FS_Subset, FS_CardinalityType
    DEF Passed
  <2>4. Slack \in 0..1 /\ Slack' \in 0..1
    BY DEF Slack
  <2>5. ASSUME NEW w \in Workers, FetchStep(w) PROVE BufferBounded'
    <3>1. UNCHANGED <<apc, height>>
      BY <2>5 DEF FetchStep, Start, LoadNext, StoreNext, ReturnNext, CheckSize,
         Fetched, NotFetched, ShouldQuit, ChooseNext, FollowHighest
    <3>2. CASE CheckSize(w)
      <4>1. buffer' = buffer /\ Cardinality(buffer) <= BufferSize
        BY <3>2 DEF CheckSize, HasRoom
      <4> QED
        BY <4>1, <2>2, <2>3, <2>4, BoundsAssumption DEF BufferBounded
    <3>3. CASE Fetched(w)
      <4>1. /\ buffer' = buffer \cup {target[w]} /\ wpc[w] = "download"
            /\ wpc' = [wpc EXCEPT ![w] = "next"]
        BY <3>3 DEF Fetched, WorkerAt, Put
      <4>2. Cardinality(buffer') <= Cardinality(buffer) + 1
        BY <4>1, <2>2, FS_AddElement
      <4>3. Passed' = Passed \ {w} /\ w \in Passed
        BY <4>1, <2>2 DEF Passed
      <4>4. Cardinality(Passed') = Cardinality(Passed) - 1
        BY <4>3, <2>3, FS_RemoveElement
      <4>5. Slack <= Slack'
        BY <3>1, <4>1 DEF Slack
      <4>6. Cardinality(buffer') + Cardinality(Passed') - Slack'
              <= Cardinality(buffer) + Cardinality(Passed) - Slack
        BY <4>2, <4>4, <4>5, <2>2, <2>3, <2>4
      <4> QED
        BY <4>6, <2>2, <2>3, RoomStep
    <3>4. CASE NotFetched(w)
      <4>1. buffer' = buffer /\ wpc[w] = "download"
            /\ \E pc \in {"quit", "highest"} : wpc' = [wpc EXCEPT ![w] = pc]
        BY <3>4 DEF NotFetched, WorkerAt
      <4>2. Passed' = Passed \ {w} /\ w \in Passed
        BY <4>1, <2>2 DEF Passed
      <4>3. Cardinality(Passed') = Cardinality(Passed) - 1
        BY <4>2, <2>3, FS_RemoveElement
      <4>4. Slack' = Slack
        BY <3>1, <4>1 DEF Slack
      <4>5. Cardinality(buffer') + Cardinality(Passed') - Slack'
              <= Cardinality(buffer) + Cardinality(Passed) - Slack
        BY <4>1, <4>3, <4>4, <2>2, <2>3, <2>4
      <4> QED
        BY <4>5, <2>2, <2>3, RoomStep
    <3>5. CASE \/ Start(w) \/ LoadNext(w) \/ StoreNext(w) \/ ReturnNext(w)
               \/ ShouldQuit(w) \/ ChooseNext(w) \/ FollowHighest(w)
      <4>1. buffer' = buffer /\ wpc[w] # "download"
            /\ \E pc \in PC \ {"download"} : wpc' = [wpc EXCEPT ![w] = pc]
        BY <3>5 DEF Start, LoadNext, StoreNext, ReturnNext, ShouldQuit,
           ChooseNext, FollowHighest, WorkerAt, PC
      <4>2. Passed' = Passed
        BY <4>1, <2>2 DEF Passed
      <4> QED
        BY <3>1, <4>1, <4>2 DEF BufferBounded, Slack
    <3> QED
      BY <2>5, <3>2, <3>3, <3>4, <3>5 DEF FetchStep
  <2>6. CASE ArrangeStep
    <3>1. Passed' = Passed
      BY <2>6 DEF ArrangeStep, PopHit, PopMiss, Send, Poll, GotMissing,
         StillMissing, Passed
    <3>2. Cardinality(buffer') - Slack' <= Cardinality(buffer) - Slack
      <4>1. CASE PopHit
        <5>1. buffer' = buffer \ {height} /\ Slack = 1 /\ Slack' = 0
              /\ height \in buffer
          BY <4>1 DEF PopHit, Slack
        <5>2. Cardinality(buffer') = Cardinality(buffer) - 1
          BY <5>1, <2>2, FS_RemoveElement
        <5> QED
          BY <5>1, <5>2, <2>2
      <4>2. CASE GotMissing
        <5>1. buffer' = buffer \cup {height} /\ Slack = 0 /\ Slack' = 1
          BY <4>2 DEF GotMissing, Put, Slack
        <5>2. Cardinality(buffer') <= Cardinality(buffer) + 1
          BY <5>1, <2>2, FS_AddElement
        <5> QED
          BY <5>1, <5>2, <2>2
      <4>3. CASE PopMiss \/ Send \/ Poll \/ StillMissing
        <5>1. buffer' = buffer /\ Slack = 0
          BY <4>3 DEF PopMiss, Send, Poll, StillMissing, Slack
        <5> QED
          BY <5>1, <2>2, <2>4
      <4> QED
        BY <2>6, <4>1, <4>2, <4>3 DEF ArrangeStep
    <3>3. Cardinality(buffer') + Cardinality(Passed') - Slack'
            <= Cardinality(buffer) + Cardinality(Passed) - Slack
      BY <3>1, <3>2, <2>2, <2>3, <2>4
    <3> QED
      BY <3>3, <2>2, <2>3, RoomStep
  <2>7. CASE StoreStep \/ ChainGrows \/ RefreshServers \/ UNCHANGED vars
    <3>1. UNCHANGED <<buffer, wpc, apc, height>>
      BY <2>7 DEF StoreStep, Receive, Decide, InsertBlock, CheckBest, RaiseBest,
         ChainGrows, RefreshServers, vars
    <3> QED
      BY <3>1 DEF BufferBounded, Passed, Slack
  <2>8. CASE Crash
    <3>1. buffer' = {} /\ Passed' = {}
      BY <2>8 DEF Crash, Passed
    <3> QED
      BY <3>1, <2>3, <2>4, FS_EmptySet, BoundsAssumption DEF BufferBounded
  <2> QED
    BY <2>5, <2>6, <2>7, <2>8 DEF Next
<1> QED
  BY <1>1, <1>2, Invariance, PTL DEF Spec

=============================================================================
