----------------------------- MODULE AssetTxTask -----------------------------
(***************************************************************************)
(* The asset task (neo/tasks/asset_tx.go): fetchAssetTx pages through the  *)
(* transactions and sends them over a channel; handleAssetTx gathers the   *)
(* (address, asset) pairs they touch and writes them when enough have      *)
(* gathered or nothing arrived for two seconds.                            *)
(***************************************************************************)
EXTENDS TxTable, Sequences, SequencesExt

CONSTANTS Pairs,       \* (address, asset) pairs
          ChanSize,    \* assetTxChanSize (5000)
          BatchSize    \* pairs that trigger a write (100)

ASSUME AssetTxBounds == /\ ChanSize \in Nat \ {0} /\ BatchSize \in Nat \ {0}
                        /\ IsFiniteSet(Pairs)

VARIABLES
  touched,          \* the pairs of each transaction; none: no vin, no vout
  nextPK, page,     \* fetchAssetTx: start of its next query, what is to be sent
  assetTxChan,      \* the channel
  records, maxPK,   \* handleAssetTx: pairs to write, last transaction seen
  rows,             \* asset_tx: how many rows a transaction has for a pair
  lastAssetTxPk     \* counter.last_asset_tx_pk

netVars   == <<touched, txMax>>
fetchVars == <<nextPK, page>>
handVars  == <<records, maxPK>>
dbVars    == <<rows, lastAssetTxPk>>
vars == <<netVars, fetchVars, assetTxChan, handVars, dbVars, crashes>>

-----------------------------------------------------------------------------
(* Slips the code might have made, for the sensitivity of the properties. *)

Fetched(t) == nextPK - 1           \* WrittenUpTo: the last one fetched
OnlyFull == Cardinality(records) >= BatchSize   \* TimedOut: writes no rest

-----------------------------------------------------------------------------
\* GetTxs: a page of the transactions with a vin or a vout.
WithPairs(from) == {t \in from..txMax : touched[t] # {}}
GetTxs(from) == FirstPage(WithPairs(from))

HasRoom == Len(assetTxChan) < ChanSize

\* The counter value written with the records after transaction t.
WrittenUpTo(t) == t

\* The timer of two seconds is new in each round of the select, so that it
\* fires only while the channel is empty or just as something arrives.
TimedOut == records # {}

Resume == lastAssetTxPk + 1

Init ==
  /\ touched \in [Ids -> SUBSET Pairs]
  /\ txMax = 0
  /\ nextPK = 1 /\ page = {} /\ assetTxChan = <<>>
  /\ records = {} /\ maxPK = 0
  /\ rows = [t \in Ids |-> [p \in Pairs |-> 0]]
  /\ lastAssetTxPk = 0
  /\ crashes = 0

\* A query that finds nothing sleeps and asks again.
Fetch ==
  /\ page = {} /\ WithPairs(nextPK) # {}
  /\ page' = GetTxs(nextPK)
  /\ \E last \in page' : (\A t \in page' : t <= last) /\ nextPK' = last + 1
  /\ UNCHANGED <<netVars, assetTxChan, handVars, dbVars, crashes>>

\* The page is sent in the order of the ids.
SendTx ==
  /\ HasRoom
  /\ \E t \in page : /\ \A s \in page : t <= s
                     /\ assetTxChan' = Append(assetTxChan, t)
                     /\ page' = page \ {t}
  /\ UNCHANGED <<netVars, nextPK, handVars, dbVars, crashes>>

\* RecordAddrAssetIDTx: rows and counter in one transaction.  A repetition
\* after a lost connection does the same; an error makes the task panic.
Record(recs, pk) ==
  /\ rows' = [t \in Ids |-> [p \in Pairs |->
                rows[t][p] + (IF <<t, p>> \in recs THEN 1 ELSE 0)]]
  /\ lastAssetTxPk' = WrittenUpTo(pk)

\* processAssetTx.
Receive ==
  /\ assetTxChan # <<>>
  /\ assetTxChan' = Tail(assetTxChan)
  /\ maxPK' = Head(assetTxChan)
  /\ LET all == records \cup ({maxPK'} \X touched[maxPK'])
     IN  IF Cardinality(all) >= BatchSize
         THEN records' = {} /\ Record(all, maxPK')
         ELSE records' = all /\ UNCHANGED dbVars
  /\ UNCHANGED <<netVars, fetchVars, crashes>>

Timeout ==
  /\ TimedOut
  /\ Record(records, maxPK)
  /\ records' = {}
  /\ UNCHANGED <<netVars, fetchVars, assetTxChan, maxPK, crashes>>

\* InsertBlock commits one transaction more.
NewTx ==
  /\ txMax < MaxTx
  /\ txMax' = txMax + 1
  /\ UNCHANGED <<touched, fetchVars, assetTxChan, handVars, dbVars, crashes>>

\* The process dies, with what is in memory, and starts after the counter.
Crash ==
  /\ crashes < MaxCrashes
  /\ crashes' = crashes + 1
  /\ nextPK' = Resume /\ page' = {} /\ assetTxChan' = <<>>
  /\ records' = {} /\ maxPK' = 0
  /\ UNCHANGED <<netVars, dbVars>>

Next == Fetch \/ SendTx \/ Receive \/ Timeout \/ NewTx \/ Crash

Spec == Init /\ [][Next]_vars

FairSpec == /\ Spec /\ WF_vars(Fetch) /\ WF_vars(SendTx)
            /\ WF_vars(Receive) /\ WF_vars(Timeout)

-----------------------------------------------------------------------------
(* Properties *)

\* The variables of the asset task have their types; the channel is bounded.
TypeOK ==
  /\ touched \in [Ids -> SUBSET Pairs] /\ txMax \in 0..MaxTx
  /\ nextPK \in 1..(MaxTx + 1) /\ maxPK \in 0..MaxTx
  /\ page \subseteq Ids /\ Cardinality(page) <= PageSize
  /\ assetTxChan \in Seq(Ids) /\ Len(assetTxChan) <= ChanSize
  /\ records \subseteq Ids \X Pairs
  /\ rows \in [Ids -> [Pairs -> Nat]]
  /\ lastAssetTxPk \in 0..MaxTx /\ crashes \in 0..MaxCrashes

\* How often a transaction is in the table; -1 if only some of its pairs are.
\* One without pairs counts as handled when the counter has passed it.
Effect(t) ==
  IF touched[t] = {} THEN (IF t <= lastAssetTxPk THEN 1 ELSE 0)
  ELSE LET counts == {rows[t][p] : p \in touched[t]}
       IN  IF Cardinality(counts) = 1 THEN CHOOSE n \in counts : TRUE ELSE -1

\* However the writes by size and by timeout fall, and wherever the process
\* dies, every transaction is recorded whole and once, in order, and the counter
\* names the last one recorded.
Promise == INSTANCE Consumer WITH
  done <- lastAssetTxPk, effects <- [t \in Ids |-> Effect(t)]
ImplementsConsumer == Promise!CSpec

Gathered == {t \in Ids : \E p \in Pairs : <<t, p>> \in records}
Recorded == {t \in Ids : touched[t] # {} /\ t <= lastAssetTxPk}
Before(S, T) == \A s \in S, t \in T : s < t

\* The variables have their types, the channel is bounded, and what is recorded
\* and what is on its way (records, channel, page) make up all transactions with
\* pairs up to the next query, one behind the other and hence without overlap.
InFlightExact ==
  /\ TypeOK
  /\ Recorded \cup Gathered \cup ToSet(assetTxChan) \cup page =
       {t \in Ids : touched[t] # {} /\ t < nextPK}
  /\ Before(Recorded, Gathered)
  /\ Before(Recorded \cup Gathered, ToSet(assetTxChan) \cup page)
  /\ Before(ToSet(assetTxChan), page)
  /\ \A i, j \in DOMAIN assetTxChan : i < j => assetTxChan[i] < assetTxChan[j]

\* Every transaction is recorded in the end, although a batch that is never
\* filled waits for the timeout.
EventuallyRecorded ==
  \A t \in Ids : t <= txMax /\ touched[t] # {} ~> Effect(t) = 1
=============================================================================
