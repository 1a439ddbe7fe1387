------------------------------ MODULE BlockSync ------------------------------
(***************************************************************************)
(* The block pipeline of neo/tasks: fetch workers (fetchBlock) download    *)
(* heights out of order into the shared BlockBuffer, one arranger          *)
(* (arrangeBlock) takes them out in order and sends them down a bounded    *)
(* channel, one storer (storeBlock) collects them in batches and commits   *)
(* each batch in one transaction with the counter last_block_index.        *)
(*                                                                         *)
(* A block is its height: the network has no forks to tell apart here.     *)
(* Everything but the database is lost in a crash.                         *)
(***************************************************************************)
EXTENDS Integers, Sequences, FiniteSets, Functions

CONSTANTS Workers,       \* the goroutines started by Run (config "workers")
          ChainMax,      \* the highest block the network ever produces
          BufferSize,    \* bufferSize as fetchBlock uses it (5000)
          ChanCap,       \* capacity of blockChannel (5000)
          BatchSize,     \* size in storeBlock (15)
          QuitDistance,  \* distance from the best height to quit at (50)
          MissingTicks,  \* polls between two getMissingBlock (40 s / 20 ms)
          MaxCrashes     \* bound on the number of crashes

\* uint8 threadCnt counts the workers: more of them than it can hold are not
\* considered (config.check sets no upper limit).
ASSUME WorkersAssumption ==
  /\ IsFiniteSet(Workers)
  /\ Cardinality(Workers) \in 1..255
ASSUME BoundsAssumption ==
  /\ ChainMax \in Nat
  /\ BufferSize \in Nat
  /\ ChanCap \in Nat \ {0}
  /\ BatchSize \in Nat \ {0}
  /\ QuitDistance \in Nat
  /\ MissingTicks \in Nat \ {0}
  /\ MaxCrashes \in Nat

VARIABLES
  tip,         \* the network's best block; every server is at most here
  bestHeight,  \* rpc.BestHeight
  buffer,      \* keys of BlockBuffer.buffer
  maxHeight,   \* BlockBuffer.maxHeight
  nextHeight,  \* BlockBuffer.nextHeight
  threadCnt,   \* Worker.threadCnt
  wpc,         \* where each worker stands in fetchBlock
  target,      \* its nextHeight (in GetNextPending: the value it has in hand)
  apc,         \* where the arranger stands in arrangeBlock
  height,      \* its height: the next block to send
  delay,       \* its delay, in polls since getMissingBlock was last due
  queue,       \* blockChannel
  spc,         \* where the storer stands in storeBlock and store
  rawBlocks,   \* its rawBlocks
  blocks,      \* database: heights of the rows of table block
  lastIndex,   \* database: counter.last_block_index
  crashes      \* crashes so far

poolVars  == <<buffer, maxHeight, nextHeight>>
fetchVars == <<threadCnt, wpc, target>>
arrVars   == <<apc, height, delay>>
storeVars == <<spc, rawBlocks>>
dbVars    == <<blocks, lastIndex>>
netVars   == <<tip, bestHeight>>
vars == <<netVars, poolVars, fetchVars, arrVars, queue, storeVars, dbVars,
          crashes>>

-----------------------------------------------------------------------------
\* Run and initTask on an empty database.  The first RefreshServers may find
\* any server lagging or unreachable.
Init ==
  /\ tip \in 0..ChainMax
  /\ bestHeight \in 0..tip
  /\ blocks = {}
  /\ lastIndex = -1
  /\ crashes = 0
  /\ buffer = {}
  /\ maxHeight = -1
  /\ nextHeight = -1
  /\ threadCnt = 0
  /\ wpc = [w \in Workers |-> "new"]
  /\ target = [w \in Workers |-> -1]
  /\ apc = "pop"
  /\ height = 0
  /\ delay = 0
  /\ queue = <<>>
  /\ spc = "recv"
  /\ rawBlocks = <<>>

-----------------------------------------------------------------------------
(* Slips the code might have made.  Nothing here uses them: each stands in   *)
(* for the definition its comment names to show that a property sees it.     *)

RaisedAlways(h) == h                    \* Raised: no comparison
RaisedByOne(h) == maxHeight + 1         \* Raised: counts blocks instead
HasRoomAlways == TRUE                   \* HasRoom: no size control
MayQuitLast == threadCnt > 0            \* MayQuit: the last one may quit too
ChannelUnbounded == TRUE                \* ChannelHasRoom: no back pressure
MissingNever(d) == FALSE                \* MissingDue: gaps never fetched
FlushAtHighest(h) == h = maxHeight      \* FlushDue: no batch limit
FirstStored == lastIndex                \* FirstHeight: starts one too low
CommittedCount == lastIndex + 1         \* CommittedBest: count, not height

-----------------------------------------------------------------------------
(* The tests and values the steps below turn on *)

\* Put: the highest existing height after h is put.
Raised(h) == IF maxHeight < h THEN h ELSE maxHeight

\* fetchBlock's size control.
HasRoom == Cardinality(buffer) <= BufferSize

\* fetchBlock after a nil answer: close enough to the best height to quit.
NearBest(h) == h > bestHeight - QuitDistance

\* shouldQuit.
MayQuit == threadCnt > 1

\* A send on blockChannel does not block.
ChannelHasRoom == Len(queue) < ChanCap

\* arrangeBlock: the delay has come to a multiple of 40 s.
MissingDue(d) == d = 0

\* storeBlock flushes at a multiple of the batch size, or at the highest
\* block fetched so far.
FlushDue(h) == h % BatchSize = 0 \/ h = maxHeight

\* arrangeBlock starts above the stored height.
FirstHeight == lastIndex + 1

\* store raises the best height to the height committed.
CommittedBest == lastIndex

-----------------------------------------------------------------------------
(* BlockBuffer *)

\* Put: overwrites, and raises maxHeight.
Put(h) ==
  /\ buffer' = buffer \cup {h}
  /\ maxHeight' = Raised(h)
  /\ UNCHANGED nextHeight

WorkerAt(w, from, to) == wpc[w] = from /\ wpc' = [wpc EXCEPT ![w] = to]

-----------------------------------------------------------------------------
(* fetchBlock, one goroutine per worker *)

\* worker.add().
Start(w) ==
  /\ WorkerAt(w, "new", "load")
  /\ threadCnt' = (threadCnt + 1) % 256
  /\ UNCHANGED <<netVars, poolVars, target, arrVars, queue, storeVars, dbVars,
                 crashes>>

\* GetNextPending increments under a read lock, which other readers share:
\* load, store and the read for the return value are separate steps.
LoadNext(w) ==
  /\ WorkerAt(w, "load", "store")
  /\ target' = [target EXCEPT ![w] = nextHeight]
  /\ UNCHANGED <<netVars, poolVars, threadCnt, arrVars, queue, storeVars,
                 dbVars, crashes>>

StoreNext(w) ==
  /\ WorkerAt(w, "store", "return")
  /\ nextHeight' = target[w] + 1
  /\ target' = [target EXCEPT ![w] = @ + 1]
  /\ UNCHANGED <<netVars, buffer, maxHeight, threadCnt, arrVars, queue,
                 storeVars, dbVars, crashes>>

\* The compiler may return the value it stored or read the field again.
ReturnNext(w) ==
  /\ WorkerAt(w, "return", "check")
  /\ \E h \in {target[w], nextHeight} : target' = [target EXCEPT ![w] = h]
  /\ UNCHANGED <<netVars, poolVars, threadCnt, arrVars, queue, storeVars,
                 dbVars, crashes>>

\* The size control; a worker that fails it sleeps and tries again.
CheckSize(w) ==
  /\ WorkerAt(w, "check", "download")
  /\ HasRoom
  /\ UNCHANGED <<netVars, poolVars, threadCnt, target, arrVars, queue,
                 storeVars, dbVars, crashes>>

\* DownloadBlock answers and the block is Put.  The chain never shrinks, so
\* the answer may be taken to arrive when it is Put, however late.
Fetched(w) ==
  /\ WorkerAt(w, "download", "next")
  /\ target[w] <= tip
  /\ Put(target[w])
  /\ UNCHANGED <<netVars, threadCnt, target, arrVars, queue, storeVars, dbVars,
                 crashes>>

\* DownloadBlock returns nil: no server known to be that high, or an answer
\* that holds no block.  The height is given up, whatever it was.
NotFetched(w) ==
  /\ IF NearBest(target[w])
       THEN WorkerAt(w, "download", "quit")
       ELSE WorkerAt(w, "download", "highest")
  /\ UNCHANGED <<netVars, poolVars, threadCnt, target, arrVars, queue,
                 storeVars, dbVars, crashes>>

\* worker.shouldQuit().
ShouldQuit(w) ==
  /\ \/ /\ MayQuit
        /\ WorkerAt(w, "quit", "done")
        /\ threadCnt' = threadCnt - 1
     \/ /\ ~MayQuit
        /\ WorkerAt(w, "quit", "highest")
        /\ UNCHANGED threadCnt
  /\ UNCHANGED <<netVars, poolVars, target, arrVars, queue, storeVars, dbVars,
                 crashes>>

\* worker.num() after a Put: the last worker follows the highest block.
ChooseNext(w) ==
  /\ WorkerAt(w, "next", IF threadCnt = 1 THEN "highest" ELSE "load")
  /\ UNCHANGED <<netVars, poolVars, threadCnt, target, arrVars, queue,
                 storeVars, dbVars, crashes>>

\* nextHeight = blockBuffer.GetHighest() + 1.
FollowHighest(w) ==
  /\ WorkerAt(w, "highest", "check")
  /\ target' = [target EXCEPT ![w] = maxHeight + 1]
  /\ UNCHANGED <<netVars, poolVars, threadCnt, arrVars, queue, storeVars,
                 dbVars, crashes>>

FetchStep(w) ==
  \/ Start(w)     \/ LoadNext(w) \/ StoreNext(w)  \/ ReturnNext(w)
  \/ CheckSize(w) \/ Fetched(w)  \/ NotFetched(w) \/ ShouldQuit(w)
  \/ ChooseNext(w) \/ FollowHighest(w)

-----------------------------------------------------------------------------
(* arrangeBlock *)

PopHit ==
  /\ apc = "pop" /\ height \in buffer
  /\ buffer' = buffer \ {height}
  /\ apc' = "send"
  /\ UNCHANGED <<netVars, maxHeight, nextHeight, fetchVars, height, delay,
                 queue, storeVars, dbVars, crashes>>

PopMiss ==
  /\ apc = "pop" /\ height \notin buffer
  /\ apc' = "wait"
  /\ UNCHANGED <<netVars, poolVars, fetchVars, height, delay, queue, storeVars,
                 dbVars, crashes>>

\* queue <- b blocks while the channel is full; then height++, delay = 0.
Send ==
  /\ apc = "send" /\ ChannelHasRoom
  /\ queue' = Append(queue, height)
  /\ height' = height + 1
  /\ delay' = 0
  /\ apc' = "pop"
  /\ UNCHANGED <<netVars, poolVars, fetchVars, storeVars, dbVars, crashes>>

\* After the sleep: an empty buffer is no delay; otherwise the delay grows,
\* and every MissingTicks polls the block counts as missing.
Poll ==
  /\ apc = "wait"
  /\ IF buffer = {}
       THEN apc' = "pop" /\ UNCHANGED delay
       ELSE /\ delay' = (delay + 1) % MissingTicks
            /\ apc' = IF MissingDue(delay') THEN "missing" ELSE "pop"
  /\ UNCHANGED <<netVars, poolVars, fetchVars, height, queue, storeVars,
                 dbVars, crashes>>

\* getMissingBlock: the block, put whatever the buffer's size, or nil.
GotMissing ==
  /\ apc = "missing" /\ height <= tip
  /\ Put(height)
  /\ apc' = "pop"
  /\ UNCHANGED <<netVars, fetchVars, height, delay, queue, storeVars, dbVars,
                 crashes>>

StillMissing ==
  /\ apc = "missing"
  /\ apc' = "pop"
  /\ UNCHANGED <<netVars, poolVars, fetchVars, height, delay, queue, storeVars,
                 dbVars, crashes>>

ArrangeStep ==
  PopHit \/ PopMiss \/ Send \/ Poll \/ GotMissing \/ StillMissing

-----------------------------------------------------------------------------
(* storeBlock and store *)

Receive ==
  /\ spc = "recv" /\ queue # <<>>
  /\ rawBlocks' = Append(rawBlocks, Head(queue))
  /\ queue' = Tail(queue)
  /\ spc' = "decide"
  /\ UNCHANGED <<netVars, poolVars, fetchVars, arrVars, dbVars, crashes>>

LastRaw == rawBlocks[Len(rawBlocks)]

Decide ==
  /\ spc = "decide"
  /\ spc' = IF FlushDue(LastRaw) THEN "insert" ELSE "recv"
  /\ UNCHANGED <<netVars, poolVars, fetchVars, arrVars, queue, rawBlocks,
                 dbVars, crashes>>

\* InsertBlock commits; when it fails, store panics, and that is Crash.
InsertBlock ==
  /\ spc = "insert"
  /\ blocks' = blocks \cup Range(rawBlocks)
  /\ lastIndex' = LastRaw
  /\ rawBlocks' = <<>>
  /\ spc' = "best"
  /\ UNCHANGED <<netVars, poolVars, fetchVars, arrVars, queue, crashes>>

\* BestHeight.Get() and BestHeight.Set() are two steps: RefreshServers may
\* come between.  maxIndex is the value just committed.
CheckBest ==
  /\ spc = "best"
  /\ spc' = IF bestHeight < lastIndex THEN "raise" ELSE "recv"
  /\ UNCHANGED <<netVars, poolVars, fetchVars, arrVars, queue, rawBlocks,
                 dbVars, crashes>>

RaiseBest ==
  /\ spc = "raise"
  /\ bestHeight' = CommittedBest
  /\ spc' = "recv"
  /\ UNCHANGED <<tip, poolVars, fetchVars, arrVars, queue, rawBlocks, dbVars,
                 crashes>>

StoreStep == Receive \/ Decide \/ InsertBlock \/ CheckBest \/ RaiseBest

-----------------------------------------------------------------------------
(* The network and crashes *)

ChainGrows ==
  /\ tip < ChainMax
  /\ tip' = tip + 1
  /\ UNCHANGED <<bestHeight, poolVars, fetchVars, arrVars, queue, storeVars,
                 dbVars, crashes>>

\* TraceBestHeight: servers lag or fail, so the best height may go back; it
\* is 0 when none answers.
RefreshServers ==
  /\ bestHeight' \in 0..tip
  /\ UNCHANGED <<tip, poolVars, fetchVars, arrVars, queue, storeVars, dbVars,
                 crashes>>

\* The process dies anywhere (InsertBlock is atomic: transact rolls back) and
\* Run starts again from last_block_index.
Crash ==
  /\ crashes < MaxCrashes
  /\ crashes' = crashes + 1
  /\ bestHeight' \in 0..tip
  /\ buffer' = {} /\ maxHeight' = lastIndex /\ nextHeight' = lastIndex
  /\ threadCnt' = 0
  /\ wpc' = [w \in Workers |-> "new"]
  /\ target' = [w \in Workers |-> -1]
  /\ apc' = "pop" /\ height' = FirstHeight /\ delay' = 0
  /\ queue' = <<>> /\ spc' = "recv" /\ rawBlocks' = <<>>
  /\ UNCHANGED <<tip, dbVars>>

Next ==
  \/ \E w \in Workers : FetchStep(w)
  \/ ArrangeStep
  \/ StoreStep
  \/ ChainGrows
  \/ RefreshServers
  \/ Crash

Spec == Init /\ [][Next]_vars

\* Goroutines are scheduled fairly.  A server that holds a block and is asked
\* for it again and again answers in the end; nothing is assumed of one
\* answer, of crashes, or of the best height.
Fairness ==
  /\ \A w \in Workers : WF_vars(FetchStep(w)) /\ SF_vars(Fetched(w))
  /\ WF_vars(ArrangeStep) /\ SF_vars(GotMissing)
  /\ WF_vars(StoreStep)

FairSpec == Spec /\ Fairness

-----------------------------------------------------------------------------
(* Properties *)

Heights == -1..ChainMax

\* Every variable of the block pipeline has its type.
TypeOK ==
  /\ tip \in 0..ChainMax /\ bestHeight \in Int
  /\ buffer \in SUBSET Nat /\ IsFiniteSet(buffer)
  /\ maxHeight \in Int /\ nextHeight \in Int
  /\ threadCnt \in 0..255
  /\ wpc \in [Workers -> {"new", "load", "store", "return", "check",
                          "download", "next", "quit", "highest", "done"}]
  /\ target \in [Workers -> Int]
  /\ apc \in {"pop", "wait", "send", "missing"}
  /\ height \in Nat /\ delay \in 0..(MissingTicks - 1)
  /\ queue \in Seq(Nat) /\ Len(queue) <= ChanCap
  /\ spc \in {"recv", "decide", "insert", "best", "raise"}
  /\ rawBlocks \in Seq(Nat)
  /\ blocks \in SUBSET Nat /\ lastIndex \in Heights
  /\ crashes \in 0..MaxCrashes

\* The database, the storer's batch, the channel and the arranger's height are
\* one unbroken ascending run of heights: whatever order the workers fetch in,
\* whichever heights they abandon or fetch twice, and wherever a crash falls,
\* no block is committed out of order, twice, or with a gap before it.
InOrder ==
  /\ blocks = 0..lastIndex
  /\ \A i \in 1..Len(rawBlocks) : rawBlocks[i] = lastIndex + i
  /\ \A i \in 1..Len(queue) :
       queue[i] = lastIndex + Len(rawBlocks) + i
  /\ height = lastIndex + Len(rawBlocks) + Len(queue) + 1

\* While a block below the highest one fetched is missing, the highest one is
\* still in the buffer: so Size() is not 0 when the arranger waits for a gap,
\* its delay grows, and getMissingBlock comes due (arrangeBlock).
GapIsNoticed ==
  maxHeight > (IF apc = "send" THEN height ELSE height - 1)
    => maxHeight \in buffer

\* The storer never waits on the channel holding blocks that only a block not
\* yet fetched could flush: a higher one is always in the pipeline or the
\* buffer (storeBlock's test against GetHighest).
TailFlushed ==
  spc = "recv" /\ rawBlocks # <<>> => LastRaw < maxHeight

Running == {w \in Workers : wpc[w] \notin {"new", "done"}}

\* threadCnt is the number of workers that have started and not quit, and
\* however many test it at once, they never all quit (shouldQuit).
WorkersSurvive ==
  /\ threadCnt = Cardinality(Running)
  /\ (\E w \in Workers : wpc[w] = "done") => Running # {}

\* The size test and the Put are apart, so the buffer overshoots bufferSize,
\* but each worker that has passed the test may Put one block, and the
\* arranger's own Put is taken out again by its next Pop: never more.
Passed == {w \in Workers : wpc[w] = "download"}
Slack  == IF apc = "pop" /\ height \in buffer THEN 1 ELSE 0
BufferBounded ==
  Cardinality(buffer) + Cardinality(Passed)
    <= BufferSize + Cardinality(Workers) + Slack

\* The best height shown and used to quit, raised by the storer and reset by
\* RefreshServers in any order, never passes what the network has.
BestIsReal == bestHeight \in 0..tip

\* The pipeline implements the block store its readers see.
Store == INSTANCE ChainStore
ImplementsStore == Store!Spec

\* Every block the network has is persisted in the end: no abandoned height,
\* full buffer, quitting worker or unflushed tail stops the pipeline.
CatchUp == \A h \in 0..ChainMax : (h <= tip) ~> (h \in blocks)

=============================================================================
