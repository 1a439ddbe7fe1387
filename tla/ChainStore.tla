----------------------------- MODULE ChainStore -----------------------------
(***************************************************************************)
(* What the block pipeline promises to every reader of the database: the   *)
(* block table always holds exactly the heights 0..last_block_index, grows *)
(* only by whole batches of consecutive blocks, never holds a block the    *)
(* network has not produced, and no batch reaches past the next multiple   *)
(* of BatchSize (the storer flushes there).  No worker, buffer, channel or *)
(* crash is visible here.                                                  *)
(***************************************************************************)
EXTENDS Integers

CONSTANTS ChainMax,    \* the highest block the network ever produces
          BatchSize    \* the storer flushes at every multiple of this height

VARIABLES tip,         \* height of the network's best block
          blocks,      \* heights of the rows of table block
          lastIndex    \* counter.last_block_index

vars == <<tip, blocks, lastIndex>>

Init ==
  /\ tip \in 0..ChainMax
  /\ blocks = {}
  /\ lastIndex = -1

Produce ==
  /\ tip < ChainMax
  /\ tip' = tip + 1
  /\ UNCHANGED <<blocks, lastIndex>>

\* One transaction of db.InsertBlock: rows and counter move together.
InsertBatch(last) ==
  /\ \A h \in (lastIndex + 1)..(last - 1) : h % BatchSize # 0
  /\ blocks' = blocks \cup (lastIndex + 1)..last
  /\ lastIndex' = last
  /\ UNCHANGED tip

Next == Produce \/ \E last \in (lastIndex + 1)..tip : InsertBatch(last)

Spec == Init /\ [][Next]_vars
=============================================================================
