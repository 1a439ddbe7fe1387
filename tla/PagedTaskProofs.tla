--------------------------- MODULE PagedTaskProofs ---------------------------
(***************************************************************************)
(* Machine-checked proofs about the two tasks that page through table tx   *)
(* and write rows together with a counter.                                 *)
(*                                                                         *)
(* ScTask: whatever the page size, and however often the process dies or   *)
(* an insert fails, no contract is recorded twice, and none is missed but  *)
(* for the ids that a restart steps over and the pages that a failed       *)
(* insert drops.                                                           *)
(*                                                                         *)
(* AssetTxTask: where every transaction is on its way to the table, and    *)
(* that the task keeps the promise of Consumer.                            *)
(***************************************************************************)
EXTENDS ScTask, AssetTxTask, SequenceTheorems, FiniteSetTheorems,
        WellFoundedInduction, TLAPS

\* A page of a set of ids holds all of them up to any it holds, and is no larger
\* than the limit up to any of them.
LEMMA PageIsFirst ==
  ASSUME NEW S \in SUBSET Ids
  PROVE  /\ FirstPage(S) \subseteq S
         /\ \A t \in FirstPage(S) : \A s \in S : s <= t => s \in FirstPage(S)
         /\ \A t \in FirstPage(S) :
              /\ IsFiniteSet({s \in S : s <= t})
              /\ Cardinality({s \in S : s <= t}) <= PageSize
<1> DEFINE upTo(t) == {s \in S : s <= t}
<1>1. FirstPage(S) \subseteq S BY DEF FirstPage
<1>2. \A t \in FirstPage(S) : Cardinality(upTo(t)) <= PageSize BY DEF FirstPage
<1>3. IsFiniteSet(S)
  <2>1. IsFiniteSet(1..MaxTx) BY TxBounds, FS_Interval
  <2> QED BY <2>1, FS_Subset DEF Ids
<1>4. \A t : upTo(t) \subseteq S OBVIOUS
<1>5. \A t : IsFiniteSet(upTo(t)) /\ Cardinality(upTo(t)) \in Nat
  <2> HIDE DEF upTo
  <2> QED BY <1>3, <1>4, FS_Subset, FS_CardinalityType
<1>6. ASSUME NEW t \in FirstPage(S), NEW s \in S, s <= t
      PROVE  s \in FirstPage(S)
  <2>1. upTo(s) \subseteq upTo(t)
    <3>1. t \in S BY <1>1
    <3>2. \A x \in S : x \in Int BY TxBounds DEF Ids
    <3>3. ASSUME NEW x \in S, x <= s PROVE x <= t
      BY <3>1, <3>2, <3>3, <1>6
    <3> QED BY <3>3
  <2>2. Cardinality(upTo(s)) <= Cardinality(upTo(t))
    <3> HIDE DEF upTo
    <3> QED BY <2>1, <1>5, FS_Subset
  <2>3. Cardinality(upTo(s)) <= PageSize
    <3> HIDE DEF upTo
    <3> QED BY <2>2, <1>2, <1>5, TxBounds
  <2> QED BY <2>3 DEF FirstPage
<1> QED BY <1>1, <1>2, <1>5, <1>6
-----------------------------------------------------------------------------
(* The contract task. *)

InHand == scPage \cup batch

\* The batch is what an insert works on.
BatchInUse == hpc = "insert" <=> batch # {}

\* The ids pass in their order: recorded, counted, in handleScTx, in fetchSCTx,
\* to be queried.
InOrder ==
  /\ \A i \in RecordedSC : i < lastTxPkForSC
  /\ \A i \in InHand : lastTxPkForSC <= i /\ i < nextTxPK /\ i <= txMax
  /\ \A i \in batch : \A j \in scPage : i < j
  /\ lastTxPkForSC <= nextTxPK

\* The scan runs ahead of table tx only by an id that a restart stepped over.
AheadByExcused ==
  /\ lastTxPkForSC - 1 <= txMax
  /\ \A i \in Ids : txMax < i /\ i < nextTxPK => i \in excused

\* The inductive invariant.
ScIInv ==
  /\ ScTypeOK
  /\ \A i \in Ids : scRows[i] <= 1
  /\ RecordedSC \subseteq Deployed
  /\ BatchInUse /\ InOrder /\ AheadByExcused
  /\ NothingElseMissed
-----------------------------------------------------------------------------
\* A set of ids that is not empty has a greatest element.
LEMMA MaxIsMax ==
  ASSUME NEW S \in SUBSET Ids, S # {}
  PROVE  Max(S) \in S /\ \A x \in S : x <= Max(S)
<1> DEFINE R == {ss \in Nat \X Nat : ss[1] < ss[2]}
           T == {MaxTx - x : x \in S}
<1>1. IsWellFoundedOn(R, Nat)
  BY NatLessThanWellFounded, Zenon DEF OpToRel
<1>2. T \subseteq Nat /\ T # {}
  BY TxBounds, ScBounds DEF Ids
<1>3. PICK t \in T : \A u \in T : <<u, t>> \notin R
  <2> HIDE DEF R, T
  <2> QED BY <1>1, <1>2, WFMin
<1>4. PICK m \in S : t = MaxTx - m OBVIOUS
<1>5. ASSUME NEW x \in S PROVE x <= m
  <2>1. MaxTx - x \in T OBVIOUS
  <2>2. ~(MaxTx - x < t)
    <3>1. <<MaxTx - x, t>> \notin R BY <2>1, <1>3
    <3> QED BY <3>1, <2>1, <1>2
  <2> QED BY <2>2, <1>4, TxBounds, ScBounds DEF Ids
<1>6. \E z \in S : \A y \in S : z >= y
  BY <1>5 DEF Ids
<1>7. Max(S) \in S /\ \A y \in S : Max(S) >= y
  BY <1>6 DEF Max
<1> QED BY <1>7 DEF Ids

\* A page is made of invocations that are there; up to its last transaction it
\* leaves out only scripts that are too short.
LEMMA PageIsPrefix ==
  ASSUME ScTypeOK
  PROVE  /\ Kept(nextTxPK) \in SUBSET Ids
         /\ \A i \in Kept(nextTxPK) : nextTxPK <= i /\ i <= txMax
         /\ \A j \in Kept(nextTxPK) : \A i \in Deployed :
              nextTxPK <= i /\ i <= j => i \in Kept(nextTxPK)
<1> DEFINE n == nextTxPK
           S == Invocations(n)
<1>1. n \in Nat /\ n >= 1 /\ txMax \in Nat /\ txMax <= MaxTx
  BY TxBounds DEF ScTypeOK
<1>2. S \subseteq n..txMax /\ S \in SUBSET Ids
  BY <1>1, TxBounds DEF Invocations, Ids
<1>3. Kept(n) \subseteq FirstPage(S) /\ FirstPage(S) \subseteq S
  BY <1>2, PageIsFirst DEF Kept, GetInvocationTxs
<1>4. ASSUME NEW j \in Kept(n), NEW i \in Deployed, n <= i, i <= j
      PROVE  i \in Kept(n)
  <2>1. i \in n..txMax /\ kind[i] = "deploy"
    BY <1>1, <1>4 DEF Deployed
  <2>2. i \in S BY <2>1, <1>4 DEF Invocations
  <2>3. i \in FirstPage(S) BY <2>2, <1>2, <1>3, <1>4, PageIsFirst
  <2> QED BY <2>1, <2>3 DEF Kept, GetInvocationTxs
<1>5. \A i \in Kept(n) : i \in Ids /\ n <= i /\ i <= txMax
  BY <1>1, <1>2, <1>3
<1> QED BY <1>4, <1>5
-----------------------------------------------------------------------------
LEMMA ScInitIInv == ScInit => ScIInv
<1> SUFFICES ASSUME ScInit PROVE ScIInv OBVIOUS
<1> USE TxBounds, ScBounds
<1>1. ScTypeOK BY DEF ScInit, ScTypeOK, Ids
<1>2. RecordedSC = {} /\ Deployed = {} BY DEF ScInit, RecordedSC, Deployed
<1>3. \A i \in Ids : scRows[i] <= 1 BY DEF ScInit
<1>4. BatchInUse BY DEF ScInit, BatchInUse
<1>5. InOrder BY <1>2 DEF ScInit, InOrder, InHand
<1>6. AheadByExcused BY DEF ScInit, AheadByExcused, Ids
<1> QED BY <1>1, <1>2, <1>3, <1>4, <1>5, <1>6 DEF ScIInv, NothingElseMissed

\* fetchSCTx: the page begins where the query did, behind everything else.
LEMMA FetchSCStep == ASSUME ScIInv, FetchSC PROVE ScIInv'
<1> DEFINE p == Kept(nextTxPK)
<1>1. /\ fpc = "query" /\ fpc' = "send" /\ p # {}
      /\ scPage' = p /\ nextTxPK' = Max(p) + 1
      /\ UNCHANGED <<kind, txMax, hpc, batch, scRows, lastTxPkForSC, excused,
                     crashes, failures>>
  BY DEF FetchSC, NextAfter, scNetVars, scHandVars, scDbVars, bounds
<1>2. ScTypeOK BY DEF ScIInv
<1>3. /\ p \in SUBSET Ids /\ \A i \in p : nextTxPK <= i /\ i <= txMax
      /\ \A j \in p : \A i \in Deployed : nextTxPK <= i /\ i <= j => i \in p
  BY <1>2, PageIsPrefix
<1> HIDE DEF p
<1> DEFINE m == Max(p)
<1>4. m \in p /\ \A x \in p : x <= m BY <1>1, <1>3, MaxIsMax
<1> HIDE DEF m
<1>5. /\ nextTxPK' = m + 1 /\ m \in Ids /\ nextTxPK <= m /\ m <= txMax
      /\ nextTxPK \in Nat /\ txMax \in Nat /\ scPage = {}
  BY <1>1, <1>2, <1>3, <1>4, TxBounds, ScBounds DEF m, ScTypeOK
<1>6. ScTypeOK'
  BY <1>1, <1>2, <1>3, <1>5, TxBounds, ScBounds DEF ScTypeOK, Ids
<1>7. RecordedSC' = RecordedSC /\ Deployed' = Deployed
  BY <1>1 DEF RecordedSC, Deployed
<1>8. BatchInUse' BY <1>1 DEF BatchInUse, ScIInv
<1>9. InOrder'
  <2>1. ASSUME NEW i \in RecordedSC PROVE i < lastTxPkForSC
    BY DEF ScIInv, InOrder
  <2>2. ASSUME NEW i \in p
        PROVE  lastTxPkForSC <= i /\ i < nextTxPK' /\ i <= txMax
    BY <1>2, <1>3, <1>4, <1>5, TxBounds, ScBounds DEF ScIInv, InOrder, ScTypeOK, Ids
  <2>3. ASSUME NEW i \in batch
        PROVE  /\ lastTxPkForSC <= i /\ i < nextTxPK' /\ i <= txMax
               /\ i < nextTxPK
    BY <1>2, <1>5 DEF ScIInv, InOrder, InHand, ScTypeOK, Ids
  <2>4. ASSUME NEW i \in batch, NEW j \in p PROVE i < j
    BY <2>3, <1>2, <1>3, <1>5 DEF ScTypeOK, Ids
  <2>5. lastTxPkForSC <= nextTxPK'
    BY <1>2, <1>5, TxBounds, ScBounds DEF ScIInv, InOrder, ScTypeOK, Ids
  <2> QED BY <2>1, <2>2, <2>3, <2>4, <2>5, <1>1, <1>7 DEF InOrder, InHand
<1>10. AheadByExcused'
  BY <1>1, <1>5 DEF ScIInv, AheadByExcused, Ids
<1>11. NothingElseMissed'
  <2> SUFFICES ASSUME NEW i \in Deployed, i < nextTxPK'
               PROVE  i \in RecordedSC \cup scPage' \cup batch \cup excused
    BY <1>1, <1>7 DEF NothingElseMissed
  <2>1. i \in Int /\ i <= m BY <1>5 DEF Deployed, Ids
  <2>2. CASE i < nextTxPK
    BY <2>2, <1>5 DEF ScIInv, NothingElseMissed
  <2>3. CASE nextTxPK <= i
    BY <2>1, <2>3, <1>1, <1>3, <1>4
  <2> QED BY <2>1, <2>2, <2>3, <1>5
<1> QED BY <1>1, <1>6, <1>7, <1>8, <1>9, <1>10, <1>11 DEF ScIInv

\* The page goes to handleScTx, or is done because nothing on it is deployed.
LEMMA HandOverStep == ASSUME ScIInv, HandOver PROVE ScIInv'
<1>1. /\ fpc = "send" /\ fpc' = "query" /\ hpc = "idle" /\ scPage' = {}
      /\ UNCHANGED <<kind, txMax, nextTxPK, scRows, lastTxPkForSC, excused,
                     crashes, failures>>
  BY DEF HandOver, scNetVars, scDbVars, bounds
<1>2. ScTypeOK /\ batch = {} BY <1>1 DEF ScIInv, BatchInUse
<1>3. \/ filterSC(scPage) = {} /\ batch' = {} /\ hpc' = "idle"
      \/ hpc' = "insert" /\ batch' = scPage /\ scPage # {}
  BY <1>1, <1>2 DEF HandOver, scHandVars, ScTypeOK
<1>4. batch' \subseteq scPage BY <1>3
<1>5. ScTypeOK' BY <1>1, <1>2, <1>3 DEF ScTypeOK
<1>6. RecordedSC' = RecordedSC /\ Deployed' = Deployed
  BY <1>1 DEF RecordedSC, Deployed
<1>7. BatchInUse' BY <1>3 DEF BatchInUse
<1>8. InOrder' BY <1>1, <1>4, <1>6 DEF ScIInv, InOrder, InHand
<1>9. AheadByExcused' BY <1>1 DEF ScIInv, AheadByExcused
<1>10. NothingElseMissed'
  <2> SUFFICES ASSUME NEW i \in Deployed, i < nextTxPK
               PROVE  i \in RecordedSC \cup batch' \cup excused
    BY <1>1, <1>6 DEF NothingElseMissed
  <2>1. i \in RecordedSC \cup scPage \cup excused
    BY <1>2 DEF ScIInv, NothingElseMissed
  <2>2. i \in scPage => filterSC(scPage) # {}
    BY DEF filterSC, Deployed
  <2> QED BY <2>1, <2>2, <1>3
<1> QED BY <1>1, <1>5, <1>6, <1>7, <1>8, <1>9, <1>10 DEF ScIInv

\* InsertSCInfos: what it records was in hand, and so not recorded before.
LEMMA InsertStep == ASSUME ScIInv, InsertSCInfos PROVE ScIInv'
<1> DEFINE new == filterSC(batch)
           m == Max(batch)
<1>1. /\ hpc = "insert" /\ hpc' = "idle" /\ batch' = {}
      /\ scRows' = [i \in Ids |-> scRows[i] + (IF i \in new THEN 1 ELSE 0)]
      /\ lastTxPkForSC' = m + 1
      /\ UNCHANGED <<kind, txMax, fpc, nextTxPK, scPage, excused, crashes, failures>>
  BY DEF InsertSCInfos, CounterAfter, scNetVars, scFetchVars, bounds
<1>2. ScTypeOK /\ batch # {} /\ batch \in SUBSET Ids
  BY <1>1 DEF ScIInv, BatchInUse, ScTypeOK
<1>3. m \in batch /\ \A x \in batch : x <= m BY <1>2, MaxIsMax
<1>4. new = {i \in batch : kind[i] = "deploy"} BY DEF filterSC
<1> HIDE DEF new, m
<1>5. \A i \in batch : i < nextTxPK /\ i <= txMax /\ lastTxPkForSC <= i
  BY DEF ScIInv, InOrder, InHand
<1>6. /\ m \in Ids /\ m < nextTxPK /\ m <= txMax
      /\ nextTxPK \in Nat /\ txMax \in Nat
  BY <1>2, <1>3, <1>5, TxBounds, ScBounds DEF ScTypeOK
<1>7. \A i \in new : scRows[i] = 0
  <2> SUFFICES ASSUME NEW i \in new PROVE scRows[i] = 0 OBVIOUS
  <2>1. i \in Ids /\ lastTxPkForSC <= i BY <1>2, <1>4, <1>5
  <2>2. i \notin RecordedSC
    BY <2>1, <1>2 DEF ScIInv, InOrder, ScTypeOK, Ids
  <2> QED BY <2>1, <2>2, <1>2 DEF RecordedSC, ScTypeOK
<1>8. RecordedSC' = RecordedSC \cup new
  <2>1. \A i \in Ids : scRows[i] \in Nat BY <1>2 DEF ScTypeOK
  <2>2. new \subseteq Ids BY <1>2, <1>4
  <2>3. \A i \in Ids : scRows'[i] > 0 <=> scRows[i] > 0 \/ i \in new
    BY <1>1, <2>1
  <2> QED BY <2>2, <2>3 DEF RecordedSC
<1>9. ScTypeOK'
  <2>1. scRows' \in [Ids -> Nat] BY <1>1, <1>2 DEF ScTypeOK
  <2>2. lastTxPkForSC' \in 0..(MaxTx + 1)
    BY <1>1, <1>6, TxBounds, ScBounds DEF Ids
  <2> QED BY <2>1, <2>2, <1>1, <1>2 DEF ScTypeOK
<1>10. \A i \in Ids : scRows'[i] <= 1
  BY <1>1, <1>2, <1>7 DEF ScIInv, ScTypeOK
<1>11. Deployed' = Deployed BY <1>1 DEF Deployed
<1>12. RecordedSC' \subseteq Deployed'
  <2>1. ASSUME NEW i \in new PROVE i \in Deployed
    <3>1. i \in Ids /\ i <= txMax /\ kind[i] = "deploy"
      BY <1>2, <1>4, <1>5
    <3> QED BY <3>1, <1>6, TxBounds, ScBounds DEF Deployed, Ids
  <2> QED BY <2>1, <1>8, <1>11 DEF ScIInv
<1>13. BatchInUse' BY <1>1 DEF BatchInUse
<1>14. InOrder'
  <2>1. ASSUME NEW i \in RecordedSC' PROVE i < m + 1
    <3>1. CASE i \in new BY <3>1, <1>2, <1>3, <1>4, <1>6 DEF Ids
    <3>2. CASE i \in RecordedSC
      <4>1. i < lastTxPkForSC /\ lastTxPkForSC <= m /\ i \in Ids
        BY <3>2, <1>3, <1>5 DEF ScIInv, InOrder, RecordedSC
      <4> QED BY <4>1, <1>2, <1>6 DEF ScTypeOK, Ids
    <3> QED BY <3>1, <3>2, <1>8
  <2>2. ASSUME NEW i \in scPage
        PROVE  m + 1 <= i /\ i < nextTxPK /\ i <= txMax
    <3>1. m < i /\ i < nextTxPK /\ i <= txMax
      BY <1>3 DEF ScIInv, InOrder, InHand
    <3> QED BY <3>1, <1>2, <1>6 DEF ScTypeOK, Ids
  <2>3. m + 1 <= nextTxPK BY <1>6 DEF Ids
  <2> QED BY <2>1, <2>2, <2>3, <1>1 DEF InOrder, InHand
<1>15. AheadByExcused'
  BY <1>1, <1>6 DEF ScIInv, AheadByExcused, Ids
<1>16. NothingElseMissed'
  <2> SUFFICES ASSUME NEW i \in Deployed, i < nextTxPK
               PROVE  i \in RecordedSC' \cup scPage \cup excused
    BY <1>1, <1>11 DEF NothingElseMissed
  <2>1. i \in RecordedSC \cup scPage \cup batch \cup excused
    BY DEF ScIInv, NothingElseMissed
  <2>2. i \in batch => i \in new BY <1>4 DEF Deployed
  <2> QED BY <2>1, <2>2, <1>8
<1> QED BY <1>9, <1>10, <1>12, <1>13, <1>14, <1>15, <1>16 DEF ScIInv

\* A failed insert loses the page's deployments, and says so.
LEMMA InsertFailsStep == ASSUME ScIInv, InsertFails PROVE ScIInv'
<1>1. /\ hpc = "insert" /\ hpc' = "idle" /\ batch' = {}
      /\ excused' = excused \cup filterSC(batch)
      /\ failures < MaxFailures /\ failures' = failures + 1
      /\ UNCHANGED <<kind, txMax, fpc, nextTxPK, scPage, scRows, lastTxPkForSC, crashes>>
  BY DEF InsertFails, scNetVars, scFetchVars, scDbVars
<1>2. ScTypeOK /\ filterSC(batch) \subseteq batch BY DEF ScIInv, filterSC
<1>3. ScTypeOK' BY <1>1, <1>2, TxBounds, ScBounds DEF ScTypeOK
<1>4. RecordedSC' = RecordedSC /\ Deployed' = Deployed
  BY <1>1 DEF RecordedSC, Deployed
<1>5. BatchInUse' BY <1>1 DEF BatchInUse
<1>6. InOrder' BY <1>1, <1>4 DEF ScIInv, InOrder, InHand
<1>7. AheadByExcused' BY <1>1 DEF ScIInv, AheadByExcused
<1>8. NothingElseMissed'
  BY <1>1, <1>4 DEF ScIInv, NothingElseMissed, Deployed, filterSC
<1> QED BY <1>1, <1>3, <1>4, <1>5, <1>6, <1>7, <1>8 DEF ScIInv

\* A transaction that appears behind the scan is one that a restart stepped over.
LEMMA ScNewTxStep == ASSUME ScIInv, ScNewTx PROVE ScIInv'
<1>1. /\ txMax < MaxTx /\ txMax' = txMax + 1
      /\ UNCHANGED <<kind, fpc, nextTxPK, scPage, hpc, batch, scRows, lastTxPkForSC,
                     excused, crashes, failures>>
  BY DEF ScNewTx, scFetchVars, scHandVars, scDbVars, bounds
<1>2. ScTypeOK /\ txMax \in Nat BY TxBounds, ScBounds DEF ScIInv, ScTypeOK
<1>3. ScTypeOK' BY <1>1, <1>2, TxBounds, ScBounds DEF ScTypeOK
<1>4. RecordedSC' = RecordedSC BY <1>1 DEF RecordedSC
<1>5. /\ Deployed \subseteq Deployed'
      /\ \A i \in Deployed' : i \in Deployed \/ i = txMax + 1
  BY <1>1, <1>2 DEF Deployed
<1>6. BatchInUse' BY <1>1 DEF ScIInv, BatchInUse
<1>7. InOrder'
  <2>1. \A i \in InHand : i \in Nat /\ (i <= txMax => i <= txMax')
    BY <1>1, <1>2 DEF InHand, ScTypeOK, Ids
  <2>2. InHand' = InHand BY <1>1 DEF InHand
  <2> QED BY <2>1, <2>2, <1>1, <1>4 DEF ScIInv, InOrder
<1>8. AheadByExcused'
  BY <1>1, <1>2 DEF ScIInv, AheadByExcused, ScTypeOK, Ids
<1>9. NothingElseMissed'
  <2> SUFFICES ASSUME NEW i \in Deployed', i < nextTxPK
               PROVE  i \in RecordedSC \cup scPage \cup batch \cup excused
    BY <1>1, <1>4 DEF NothingElseMissed
  <2>1. CASE i \in Deployed BY <2>1 DEF ScIInv, NothingElseMissed
  <2>2. CASE i = txMax + 1
    <3>1. i \in Ids /\ txMax < i BY <2>2, <1>1, <1>2, TxBounds, ScBounds DEF Ids
    <3> QED BY <3>1 DEF ScIInv, AheadByExcused
  <2> QED BY <2>1, <2>2, <1>5
<1> QED BY <1>1, <1>3, <1>4, <1>5, <1>6, <1>7, <1>8, <1>9 DEF ScIInv

\* A restart forgets only what it asks for again, and the id it steps over.
LEMMA ScCrashStep == ASSUME ScIInv, ScCrash PROVE ScIInv'
<1>1. /\ fpc' = "query" /\ nextTxPK' = lastTxPkForSC + 1 /\ scPage' = {}
      /\ hpc' = "idle" /\ batch' = {}
      /\ excused' = excused \cup ({lastTxPkForSC} \cap Ids)
      /\ crashes < MaxCrashes /\ crashes' = crashes + 1
      /\ UNCHANGED <<kind, txMax, scRows, lastTxPkForSC, failures>>
  BY DEF ScCrash, scNetVars, scDbVars
<1>2. ScTypeOK /\ lastTxPkForSC \in Nat /\ txMax \in Nat /\ nextTxPK \in Nat
  BY TxBounds, ScBounds DEF ScIInv, ScTypeOK
<1>3. ScTypeOK' BY <1>1, <1>2, TxBounds, ScBounds DEF ScTypeOK
<1>4. RecordedSC' = RecordedSC /\ Deployed' = Deployed
  BY <1>1 DEF RecordedSC, Deployed
<1>5. BatchInUse' BY <1>1 DEF BatchInUse
<1>6. InOrder' BY <1>1, <1>2, <1>4 DEF ScIInv, InOrder, InHand
<1>7. AheadByExcused'
  BY <1>1, <1>2 DEF ScIInv, AheadByExcused, Ids
<1>8. NothingElseMissed'
  <2> SUFFICES ASSUME NEW i \in Deployed, i < lastTxPkForSC + 1
               PROVE  i \in RecordedSC \cup excused'
    BY <1>1, <1>4 DEF NothingElseMissed
  <2>1. i \in Ids BY <1>2, TxBounds, ScBounds DEF Deployed, Ids, ScTypeOK
  <2>2. CASE i = lastTxPkForSC BY <2>1, <2>2, <1>1
  <2>3. CASE i < lastTxPkForSC
    <3>1. i < nextTxPK
      BY <2>1, <2>3, <1>2 DEF ScIInv, InOrder, Ids
    <3>2. i \notin scPage \cup batch
      BY <2>1, <2>3, <1>2 DEF ScIInv, InOrder, InHand, Ids
    <3> QED BY <3>1, <3>2, <1>1 DEF ScIInv, NothingElseMissed
  <2> QED BY <2>1, <2>2, <2>3, <1>2 DEF Ids
<1> QED BY <1>1, <1>3, <1>4, <1>5, <1>6, <1>7, <1>8 DEF ScIInv

\* Every step keeps the inductive invariant.
LEMMA ScNextIInv == ASSUME ScIInv, [ScNext]_scVars PROVE ScIInv'
<1>1. CASE UNCHANGED scVars
  BY <1>1 DEF ScIInv, ScTypeOK, BatchInUse, InOrder, InHand, AheadByExcused,
     NothingElseMissed, RecordedSC, Deployed, scVars, scNetVars, scFetchVars, scHandVars,
     scDbVars, bounds
<1> QED
  BY <1>1, FetchSCStep, HandOverStep, InsertStep, InsertFailsStep, ScNewTxStep,
     ScCrashStep DEF ScNext
-----------------------------------------------------------------------------
\* The order of the ids on their way from the query to the counter holds in
\* every reachable state of fetchSCTx and handleScTx.
THEOREM ScInvariance == ScSpec => []ScIInv
<1>1. ScIInv /\ [ScNext]_scVars => ScIInv' BY ScNextIInv
<1> QED BY <1>1, ScInitIInv, PTL DEF ScSpec

\* No contract is ever recorded twice, and what is in hand is not recorded yet,
\* because rows and counter commit together and the scan resumes behind both.
THEOREM RecordedAtMostOnce == ScSpec => []AtMostOnce
<1>1. ASSUME ScIInv PROVE AtMostOnce
  <2>1. ScTypeOK /\ (\A i \in Ids : scRows[i] <= 1) /\ RecordedSC \subseteq Deployed
    BY <1>1 DEF ScIInv
  <2>2. ASSUME NEW i \in filterSC(scPage \cup batch), i \in RecordedSC PROVE FALSE
    <3>1. /\ i \in InHand /\ i \in Ids /\ lastTxPkForSC \in Nat
          /\ lastTxPkForSC <= i /\ i < lastTxPkForSC
      BY <2>2, <2>1, <1>1, TxBounds, ScBounds
      DEF ScIInv, InOrder, InHand, filterSC, ScTypeOK, RecordedSC
    <3> QED BY <3>1 DEF Ids
  <2> QED BY <2>1, <2>2 DEF AtMostOnce
<1> QED BY <1>1, ScInvariance, PTL

\* Every deployment that the scan has passed is recorded or in hand, unless a
\* restart stepped over it or a failed insert dropped it: the page limit, the
\* skipped scripts and the pages without deployments lose none.
THEOREM NoneMissed == ScSpec => []NothingElseMissed
<1>1. ScIInv => NothingElseMissed BY DEF ScIInv
<1> QED BY <1>1, ScInvariance, PTL
-----------------------------------------------------------------------------
(* The asset task. *)

\* The last transaction whose pairs are written or gathered.
UpTo == IF records = {} THEN lastAssetTxPk ELSE maxPK

Progress ==
  /\ records # {} => lastAssetTxPk < maxPK
  /\ UpTo < nextPK /\ nextPK - 1 <= txMax

\* The pairs of the transactions from-th, exclusive, to to-th.
Due(from, to) ==
  {r \in Ids \X Pairs : from < r[1] /\ r[1] <= to /\ r[2] \in touched[r[1]]}

\* What is written and what is gathered, pair by pair.
Written ==
  /\ records = Due(lastAssetTxPk, UpTo)
  /\ \A t \in Ids, p \in Pairs :
       rows[t][p] = IF t <= lastAssetTxPk /\ p \in touched[t] THEN 1 ELSE 0

\* What is on its way behind that, in order.
OnItsWay ==
  /\ ToSet(assetTxChan) \cup page = {t \in Ids : touched[t] # {} /\ UpTo < t /\ t < nextPK}
  /\ Before(ToSet(assetTxChan), page)
  /\ \A i, j \in DOMAIN assetTxChan : i < j => assetTxChan[i] < assetTxChan[j]

\* The inductive invariant.
IInv == TypeOK /\ Progress /\ Written /\ OnItsWay
-----------------------------------------------------------------------------
LEMMA ToSetAppend ==
  ASSUME NEW s \in Seq(Ids), NEW t \in Ids
  PROVE  /\ Append(s, t) \in Seq(Ids) /\ Len(Append(s, t)) = Len(s) + 1
         /\ ToSet(Append(s, t)) = ToSet(s) \cup {t}
         /\ (\A i, j \in DOMAIN s : i < j => s[i] < s[j]) /\ (\A x \in ToSet(s) : x < t) =>
              \A i, j \in DOMAIN Append(s, t) : i < j => Append(s, t)[i] < Append(s, t)[j]
<1>1. PICK z : z = Append(s, t) OBVIOUS
<1>2. PICK n : n = Len(s) OBVIOUS
<1>3. /\ z \in Seq(Ids) /\ n \in Nat /\ Len(z) = n + 1
      /\ DOMAIN s = 1..n /\ DOMAIN z = 1..(n + 1)
      /\ z[n + 1] = t /\ \A i \in 1..n : z[i] = s[i]
  BY <1>1, <1>2, AppendProperties, LenProperties
<1>4. \A i : i \in 1..(n + 1) <=> i \in 1..n \/ i = n + 1 BY <1>3
<1>5. \A x : x \in ToSet(z) <=> x \in ToSet(s) \/ x = t
  BY <1>3, <1>4 DEF ToSet
<1>6. ASSUME \A i, j \in DOMAIN s : i < j => s[i] < s[j], \A x \in ToSet(s) : x < t,
             NEW i \in DOMAIN z, NEW j \in DOMAIN z, i < j
      PROVE  z[i] < z[j]
  <2>1. i \in 1..n /\ z[i] = s[i] /\ s[i] \in ToSet(s) BY <1>3, <1>6 DEF ToSet
  <2>2. CASE j \in 1..n BY <2>1, <2>2, <1>3, <1>6
  <2>3. CASE j = n + 1 BY <2>1, <2>3, <1>3, <1>6
  <2> QED BY <2>2, <2>3, <1>3, <1>4
<1> QED BY <1>1, <1>2, <1>3, <1>5, <1>6

LEMMA ToSetTail ==
  ASSUME NEW s \in Seq(Ids), s # <<>>,
         \A i, j \in DOMAIN s : i < j => s[i] < s[j]
  PROVE  /\ Tail(s) \in Seq(Ids) /\ Len(Tail(s)) = Len(s) - 1
         /\ Head(s) \in Ids /\ Head(s) \in ToSet(s)
         /\ ToSet(Tail(s)) = ToSet(s) \ {Head(s)}
         /\ \A x \in ToSet(Tail(s)) : Head(s) < x
         /\ \A i, j \in DOMAIN Tail(s) : i < j => Tail(s)[i] < Tail(s)[j]
<1>1. PICK z : z = Tail(s) OBVIOUS
<1>2. PICK n : n = Len(s) OBVIOUS
<1>3. /\ n \in Nat \ {0} /\ DOMAIN s = 1..n /\ z \in Seq(Ids) /\ Len(z) = n - 1
      /\ DOMAIN z = 1..(n - 1) /\ \A i \in 1..(n - 1) : z[i] = s[i + 1]
      /\ Head(s) = s[1] /\ Head(s) \in Ids
  BY <1>1, <1>2, EmptySeq, HeadTailProperties, LenProperties
<1>4. \A i \in 1..n : s[i] \in Ids BY <1>2, <1>3, ElementOfSeq
<1>5. \A i \in 1..(n - 1) : i + 1 \in 1..n /\ 1 < i + 1 BY <1>3
<1>6. \A i \in 1..n : i = 1 \/ (i - 1 \in 1..(n - 1) /\ i = (i - 1) + 1) BY <1>3
<1>7. \A x \in ToSet(z) : x \in ToSet(s) /\ s[1] < x
  BY <1>3, <1>5 DEF ToSet
<1>8. ASSUME NEW x \in ToSet(s) PROVE x = s[1] \/ x \in ToSet(z)
  <2>1. PICK i \in 1..n : x = s[i] BY <1>3 DEF ToSet
  <2>2. CASE i = 1 BY <2>1, <2>2
  <2>3. CASE i - 1 \in 1..(n - 1) /\ i = (i - 1) + 1
    <3>1. z[i - 1] = x BY <2>1, <2>3, <1>3
    <3> QED BY <3>1, <2>3, <1>3 DEF ToSet
  <2> QED BY <2>2, <2>3, <1>6
<1>9. ToSet(z) = ToSet(s) \ {s[1]}
  <2>1. s[1] \in Nat BY <1>3, TxBounds, AssetTxBounds DEF Ids
  <2>2. s[1] \notin ToSet(z) BY <2>1, <1>7
  <2> QED BY <2>2, <1>7, <1>8
<1>10. \A i, j \in DOMAIN z : i < j => z[i] < z[j]
  <2> SUFFICES ASSUME NEW i \in 1..(n - 1), NEW j \in 1..(n - 1), i < j
               PROVE  z[i] < z[j]
    BY <1>3
  <2>1. i + 1 < j + 1 BY <1>3
  <2> QED BY <2>1, <1>3, <1>5
<1>11. s[1] \in ToSet(s) BY <1>3 DEF ToSet
<1> QED BY <1>1, <1>2, <1>3, <1>7, <1>9, <1>10, <1>11

\* A page holds every transaction with pairs from the start of the query to its
\* last one.
LEMMA PageIsRun ==
  ASSUME TypeOK, NEW n \in Nat \ {0}, NEW last \in GetTxs(n),
         \A t \in GetTxs(n) : t <= last
  PROVE  /\ last \in Ids /\ n <= last /\ last <= txMax
         /\ GetTxs(n) = {t \in Ids : touched[t] # {} /\ n <= t /\ t <= last}
         /\ Cardinality(GetTxs(n)) <= PageSize
<1> DEFINE W == WithPairs(n)
           upTo == {s \in W : s <= last}
<1>1. txMax \in Nat /\ txMax <= MaxTx BY TxBounds DEF TypeOK
<1>2. W \subseteq n..txMax /\ W \in SUBSET Ids
  BY <1>1, TxBounds DEF WithPairs, Ids
<1>3. /\ GetTxs(n) \subseteq W
      /\ \A s \in W : s <= last => s \in GetTxs(n)
      /\ Cardinality(upTo) <= PageSize
  BY <1>2, PageIsFirst DEF GetTxs
<1>4. last \in Ids /\ n <= last /\ last <= txMax BY <1>1, <1>2, <1>3
<1>5. upTo = {t \in Ids : touched[t] # {} /\ n <= t /\ t <= last}
  BY <1>1, <1>2, <1>4, TxBounds DEF WithPairs, Ids
<1>6. GetTxs(n) = upTo BY <1>3
<1> QED BY <1>3, <1>4, <1>5, <1>6

\* The pairs of one transaction more.
LEMMA RecordDue ==
  ASSUME TypeOK, Written, NEW pk \in Ids, lastAssetTxPk < pk,
         Record(Due(lastAssetTxPk, pk), pk)
  PROVE  /\ lastAssetTxPk' = pk
         /\ rows' \in [Ids -> [Pairs -> Nat]]
         /\ \A t \in Ids, p \in Pairs :
              rows'[t][p] = IF t <= pk /\ p \in touched[t] THEN 1 ELSE 0
<1> DEFINE d == Due(lastAssetTxPk, pk)
<1>1. /\ lastAssetTxPk' = pk
      /\ rows' = [t \in Ids |-> [p \in Pairs |->
                    rows[t][p] + (IF <<t, p>> \in d THEN 1 ELSE 0)]]
  BY DEF Record, WrittenUpTo
<1>2. ASSUME NEW t \in Ids, NEW p \in Pairs
      PROVE  <<t, p>> \in d <=> (lastAssetTxPk < t /\ t <= pk /\ p \in touched[t])
  BY DEF Due
<1>3. ASSUME NEW t \in Ids, NEW p \in Pairs
      PROVE  /\ rows[t][p] \in Nat
             /\ rows[t][p] = IF t <= lastAssetTxPk /\ p \in touched[t] THEN 1 ELSE 0
  BY DEF TypeOK, Written
<1>4. lastAssetTxPk \in Nat BY TxBounds, AssetTxBounds DEF TypeOK
<1> HIDE DEF d
<1>5. ASSUME NEW t \in Ids, NEW p \in Pairs
      PROVE  /\ rows'[t][p] \in Nat
             /\ rows'[t][p] = IF t <= pk /\ p \in touched[t] THEN 1 ELSE 0
  <2>1. rows'[t][p] = rows[t][p] + (IF <<t, p>> \in d THEN 1 ELSE 0) BY <1>1
  <2>2. t \in Nat /\ pk \in Nat BY DEF Ids
  <2> QED BY <2>1, <2>2, <1>2, <1>3, <1>4
<1>6. rows' \in [Ids -> [Pairs -> Nat]]
  <2>1. \A t \in Ids, p \in Pairs : rows[t][p] + (IF <<t, p>> \in d THEN 1 ELSE 0) \in Nat
    BY <1>3
  <2> QED BY <2>1, <1>1
<1> QED BY <1>1, <1>5, <1>6
-----------------------------------------------------------------------------
LEMMA InitIInv == Init => IInv
<1> SUFFICES ASSUME Init PROVE IInv OBVIOUS
<1> USE TxBounds, AssetTxBounds
<1>1. TypeOK
  <2>1. Cardinality({}) <= PageSize BY FS_EmptySet
  <2>2. <<>> \in Seq(Ids) /\ Len(<<>>) = 0 OBVIOUS
  <2> QED BY <2>1, <2>2 DEF Init, TypeOK, Ids
<1>2. UpTo = 0 BY DEF Init, UpTo
<1>3. Progress BY <1>2 DEF Init, Progress
<1>4. Written
  <2>1. Due(0, 0) = {} BY DEF Due, Ids
  <2>2. \A t \in Ids : ~(t <= 0) BY DEF Ids
  <2> QED BY <1>2, <2>1, <2>2 DEF Init, Written
<1>5. OnItsWay
  <2>1. ToSet(<<>>) = {} BY DEF ToSet
  <2>2. \A t \in Ids : ~(t < 1) BY DEF Ids
  <2> QED BY <1>2, <2>1, <2>2 DEF Init, OnItsWay, Before
<1> QED BY <1>1, <1>3, <1>4, <1>5 DEF IInv

\* GetTxs: the page goes on where everything else ended.
LEMMA FetchStep == ASSUME IInv, Fetch PROVE IInv'
<1> USE DEF IInv
<1>1. /\ page = {} /\ page' = GetTxs(nextPK)
      /\ UNCHANGED <<touched, txMax, assetTxChan, records, maxPK, rows, lastAssetTxPk, crashes>>
  BY DEF Fetch, netVars, handVars, dbVars
<1>2. PICK last \in page' : (\A t \in page' : t <= last) /\ nextPK' = last + 1
  BY DEF Fetch
<1>3. PICK n : n = nextPK OBVIOUS
<1>4. /\ n \in Nat \ {0} /\ UpTo < n /\ UpTo \in Nat /\ UpTo' = UpTo
      /\ txMax \in Nat /\ txMax <= MaxTx /\ MaxTx \in Nat
  BY <1>1, <1>3, TxBounds, AssetTxBounds DEF TypeOK, Progress, UpTo
<1>5. /\ last \in Ids /\ n <= last /\ last <= txMax /\ last \in Nat
      /\ page' = {t \in Ids : touched[t] # {} /\ n <= t /\ t <= last}
      /\ Cardinality(page') <= PageSize
  BY <1>1, <1>2, <1>3, <1>4, PageIsRun DEF Ids
<1>6. TypeOK' BY <1>1, <1>2, <1>4, <1>5 DEF TypeOK
<1>7. Progress' BY <1>1, <1>2, <1>4, <1>5 DEF Progress
<1>8. Written' BY <1>1, <1>4 DEF Written, Due
<1>9. OnItsWay'
  <2>1. ToSet(assetTxChan) = {t \in Ids : touched[t] # {} /\ UpTo < t /\ t < n}
    BY <1>1, <1>3 DEF OnItsWay
  <2>2. \A t \in Ids : t \in Nat BY DEF Ids
  <2>3. \A t \in Ids : (UpTo < t /\ t < last + 1) <=> ((UpTo < t /\ t < n) \/ (n <= t /\ t <= last))
    BY <2>2, <1>4, <1>5
  <2>4. ToSet(assetTxChan) \cup page' =
          {t \in Ids : touched[t] # {} /\ UpTo < t /\ t < last + 1}
    BY <2>1, <2>3, <1>5
  <2>5. ASSUME NEW s \in ToSet(assetTxChan), NEW t \in page' PROVE s < t
    <3>1. s \in Nat /\ s < n BY <2>1, <2>2
    <3>2. t \in Nat /\ n <= t BY <2>2, <1>5
    <3> QED BY <3>1, <3>2, <1>4
  <2> QED BY <2>4, <2>5, <1>1, <1>2, <1>4 DEF OnItsWay, Before
<1> QED BY <1>6, <1>7, <1>8, <1>9

LEMMA SendStep == ASSUME IInv, SendTx PROVE IInv'
<1> USE DEF IInv
<1>1. PICK t \in page : /\ \A s \in page : t <= s
                        /\ assetTxChan' = Append(assetTxChan, t)
                        /\ page' = page \ {t}
  BY DEF SendTx
<1>2. /\ UNCHANGED <<touched, txMax, nextPK, records, maxPK, rows, lastAssetTxPk, crashes>>
      /\ Len(assetTxChan) < ChanSize
  BY DEF SendTx, HasRoom, netVars, handVars, dbVars
<1>3. UpTo' = UpTo BY <1>2 DEF UpTo
<1>4. t \in Ids /\ assetTxChan \in Seq(Ids) /\ \A x \in ToSet(assetTxChan) : x < t
  BY DEF TypeOK, OnItsWay, Before
<1>5. /\ assetTxChan' \in Seq(Ids) /\ Len(assetTxChan') = Len(assetTxChan) + 1
      /\ ToSet(assetTxChan') = ToSet(assetTxChan) \cup {t}
      /\ \A i, j \in DOMAIN assetTxChan' : i < j => assetTxChan'[i] < assetTxChan'[j]
  BY <1>1, <1>4, ToSetAppend DEF OnItsWay
<1>6. TypeOK'
  <2>1. Len(assetTxChan') <= ChanSize BY <1>2, <1>5, TxBounds, AssetTxBounds, <1>4, LenProperties
  <2>2. Cardinality(page') <= PageSize
    <3>1. IsFiniteSet(page)
      <4>1. IsFiniteSet(1..MaxTx) BY TxBounds, AssetTxBounds, FS_Interval
      <4> QED BY <4>1, FS_Subset DEF TypeOK, Ids
    <3>2. Cardinality(page') = Cardinality(page) - 1 /\ Cardinality(page) \in Nat
      BY <3>1, <1>1, FS_RemoveElement, FS_CardinalityType
    <3> QED BY <3>2, TxBounds, AssetTxBounds DEF TypeOK
  <2> QED BY <2>1, <2>2, <1>1, <1>2, <1>5 DEF TypeOK
<1>7. Progress' BY <1>2, <1>3 DEF Progress
<1>8. Written' BY <1>2, <1>3 DEF Written, Due
<1>9. OnItsWay'
  <2>1. ToSet(assetTxChan') \cup page' = ToSet(assetTxChan) \cup page BY <1>1, <1>5
  <2>2. \A s \in page' : t < s
    BY <1>1 DEF TypeOK, Ids
  <2>3. \A s \in ToSet(assetTxChan'), u \in page' : s < u
    BY <2>2, <1>1, <1>5 DEF OnItsWay, Before
  <2> QED BY <2>1, <2>3, <1>2, <1>3, <1>5 DEF OnItsWay, Before
<1> QED BY <1>6, <1>7, <1>8, <1>9

\* Nothing with pairs lies between what is gathered and the head of the channel.
LEMMA HeadIsNext ==
  ASSUME IInv, assetTxChan # <<>>
  PROVE  /\ Head(assetTxChan) \in Ids /\ touched[Head(assetTxChan)] # {}
         /\ lastAssetTxPk < Head(assetTxChan) /\ Head(assetTxChan) < nextPK
         /\ records \cup ({Head(assetTxChan)} \X touched[Head(assetTxChan)])
              = Due(lastAssetTxPk, Head(assetTxChan))
         /\ Due(lastAssetTxPk, Head(assetTxChan)) # {}
         /\ ToSet(Tail(assetTxChan)) \cup page =
              {t \in Ids : touched[t] # {} /\ Head(assetTxChan) < t /\ t < nextPK}
<1> USE DEF IInv
<1>1. PICK h : h = Head(assetTxChan) OBVIOUS
<1>2. PICK rest : rest = ToSet(Tail(assetTxChan)) OBVIOUS
<1>3. /\ h \in Ids /\ h \in ToSet(assetTxChan)
      /\ rest = ToSet(assetTxChan) \ {h}
      /\ \A x \in rest : h < x
  BY <1>1, <1>2, ToSetTail DEF TypeOK, OnItsWay
<1>4. /\ touched[h] # {} /\ UpTo < h /\ h < nextPK
      /\ touched[h] \subseteq Pairs
  BY <1>3 DEF OnItsWay, TypeOK
<1>5. /\ lastAssetTxPk \in Nat /\ UpTo \in Nat /\ lastAssetTxPk <= UpTo
      /\ h \in Nat /\ \A t \in Ids : t \in Nat
  BY <1>3, TxBounds, AssetTxBounds DEF TypeOK, Progress, UpTo, Ids
<1>6. ASSUME NEW t \in Ids, touched[t] # {}, UpTo < t, t <= h
      PROVE  t = h
  <2>1. t < nextPK BY <1>4, <1>5, <1>6 DEF TypeOK
  <2>2. t \in ToSet(assetTxChan) \cup page BY <2>1, <1>6 DEF OnItsWay
  <2>3. CASE t \in page
    <3>1. h < t BY <2>3, <1>3 DEF OnItsWay, Before
    <3> QED BY <3>1, <1>5, <1>6
  <2>4. CASE t \in rest
    <3>1. h < t BY <2>4, <1>3
    <3> QED BY <3>1, <1>5, <1>6
  <2> QED BY <2>2, <2>3, <2>4, <1>3
<1>7. records \cup ({h} \X touched[h]) = Due(lastAssetTxPk, h)
  <2>1. ASSUME NEW r \in records PROVE r \in Due(lastAssetTxPk, h)
    <3>1. r \in Due(lastAssetTxPk, UpTo) BY DEF Written
    <3>2. r[1] \in Ids /\ r[1] <= UpTo BY <3>1 DEF Due
    <3>3. r[1] <= h BY <3>2, <1>4, <1>5
    <3> QED BY <3>1, <3>3 DEF Due
  <2>2. ASSUME NEW r \in {h} \X touched[h] PROVE r \in Due(lastAssetTxPk, h)
    <3>1. r \in Ids \X Pairs /\ r[1] = h /\ r[2] \in touched[h] BY <1>3, <1>4
    <3>2. lastAssetTxPk < r[1] /\ r[1] <= h BY <3>1, <1>4, <1>5
    <3> QED BY <3>1, <3>2 DEF Due
  <2>3. ASSUME NEW r \in Due(lastAssetTxPk, h)
        PROVE  r \in records \cup ({h} \X touched[h])
    <3>1. /\ r \in Ids \X Pairs /\ lastAssetTxPk < r[1] /\ r[1] <= h
          /\ r[2] \in touched[r[1]] BY DEF Due
    <3>2. CASE r[1] <= UpTo BY <3>1, <3>2 DEF Written, Due
    <3>3. CASE UpTo < r[1]
      <4>1. r[1] = h BY <3>1, <3>3, <1>6
      <4> QED BY <4>1, <3>1
    <3>4. r[1] \in Nat BY <3>1, <1>5
    <3> QED BY <3>2, <3>3, <3>4, <1>5
  <2> QED BY <2>1, <2>2, <2>3
<1>8. Due(lastAssetTxPk, h) # {}
  <2>1. PICK p \in touched[h] : TRUE BY <1>4
  <2>2. <<h, p>> \in {h} \X touched[h] OBVIOUS
  <2> QED BY <2>2, <1>7
<1>9. rest \cup page = {t \in Ids : touched[t] # {} /\ h < t /\ t < nextPK}
  <2>1. ASSUME NEW t \in rest \cup page
        PROVE  t \in Ids /\ touched[t] # {} /\ h < t /\ t < nextPK
    <3>1. t \in ToSet(assetTxChan) \cup page BY <1>3
    <3>2. t \in Ids /\ touched[t] # {} /\ t < nextPK BY <3>1 DEF OnItsWay
    <3>3. h < t BY <1>3 DEF OnItsWay, Before
    <3> QED BY <3>2, <3>3
  <2>2. ASSUME NEW t \in Ids, touched[t] # {}, h < t, t < nextPK
        PROVE  t \in rest \cup page
    <3>1. UpTo < t /\ t # h BY <2>2, <1>4, <1>5
    <3>2. t \in ToSet(assetTxChan) \cup page BY <3>1, <2>2 DEF OnItsWay
    <3> QED BY <3>1, <3>2, <1>3
  <2> QED BY <2>1, <2>2
<1>10. lastAssetTxPk < h BY <1>4, <1>5
<1> QED BY <1>1, <1>2, <1>3, <1>4, <1>7, <1>8, <1>9, <1>10

\* processAssetTx: the pairs of the next transaction, written with the others or
\* kept with them.
LEMMA ReceiveStep == ASSUME IInv, Receive PROVE IInv'
<1> USE DEF IInv
<1>1. /\ assetTxChan # <<>> /\ assetTxChan' = Tail(assetTxChan)
      /\ maxPK' = Head(assetTxChan)
      /\ UNCHANGED <<touched, txMax, nextPK, page, crashes>>
  BY DEF Receive, netVars, fetchVars
<1>2. PICK h : h = Head(assetTxChan) OBVIOUS
<1>3. PICK all : all = records \cup ({h} \X touched[h]) OBVIOUS
<1>4. /\ h \in Ids /\ lastAssetTxPk < h /\ h < nextPK
      /\ all = Due(lastAssetTxPk, h) /\ all # {}
      /\ ToSet(assetTxChan') \cup page' =
           {t \in Ids : touched[t] # {} /\ h < t /\ t < nextPK}
  BY <1>1, <1>2, <1>3, HeadIsNext
<1>5. /\ assetTxChan' \in Seq(Ids) /\ Len(assetTxChan') = Len(assetTxChan) - 1
      /\ ToSet(assetTxChan') \subseteq ToSet(assetTxChan)
      /\ \A i, j \in DOMAIN assetTxChan' : i < j => assetTxChan'[i] < assetTxChan'[j]
  BY <1>1, ToSetTail DEF TypeOK, OnItsWay
<1>6. maxPK' = h /\ UpTo' = h /\ lastAssetTxPk' \in 0..MaxTx
      /\ rows' \in [Ids -> [Pairs -> Nat]] /\ records' \subseteq Ids \X Pairs
      /\ (records' # {} => lastAssetTxPk' < h)
      /\ records' = Due(lastAssetTxPk', h)
      /\ \A t \in Ids, p \in Pairs :
           rows'[t][p] = IF t <= lastAssetTxPk' /\ p \in touched[t] THEN 1 ELSE 0
  <2>1. maxPK' = h BY <1>1, <1>2
  <2>2. h \in Nat /\ h <= MaxTx /\ MaxTx \in Nat BY <1>4, TxBounds, AssetTxBounds DEF Ids
  <2>3. CASE Cardinality(all) >= BatchSize
    <3>1. records' = {} /\ Record(all, h)
      BY <2>1, <2>3, <1>3 DEF Receive
    <3>2. lastAssetTxPk' = h /\ rows' \in [Ids -> [Pairs -> Nat]]
          /\ \A t \in Ids, p \in Pairs :
               rows'[t][p] = IF t <= h /\ p \in touched[t] THEN 1 ELSE 0
      BY <3>1, <1>4, RecordDue
    <3>3. UpTo' = h BY <3>1, <3>2 DEF UpTo
    <3>4. Due(h, h) = {} BY <2>2 DEF Due, Ids
    <3> QED BY <2>1, <2>2, <3>1, <3>2, <3>3, <3>4
  <2>4. CASE ~(Cardinality(all) >= BatchSize)
    <3>1. records' = all /\ rows' = rows /\ lastAssetTxPk' = lastAssetTxPk
      BY <2>1, <2>4, <1>3 DEF Receive, dbVars
    <3>2. UpTo' = h BY <3>1, <2>1, <1>4 DEF UpTo
    <3>3. all \subseteq Ids \X Pairs BY <1>4 DEF Due
    <3>4. records' = Due(lastAssetTxPk', h) BY <3>1, <1>4
    <3> QED BY <2>1, <3>1, <3>2, <3>3, <3>4, <1>4 DEF TypeOK, Written
  <2> QED BY <2>3, <2>4
<1>7. TypeOK'
  <2>1. Len(assetTxChan') <= ChanSize
    <3>1. Len(assetTxChan) \in Nat /\ Len(assetTxChan) <= ChanSize
      BY LenProperties DEF TypeOK
    <3> QED BY <3>1, <1>5, TxBounds, AssetTxBounds
  <2>2. maxPK' \in 0..MaxTx BY <1>4, <1>6, TxBounds, AssetTxBounds DEF Ids
  <2> QED BY <2>1, <2>2, <1>1, <1>5, <1>6 DEF TypeOK
<1>8. Progress' BY <1>1, <1>4, <1>6 DEF Progress
<1>9. Written'
  <2>1. Due(lastAssetTxPk, UpTo)' = Due(lastAssetTxPk', UpTo') BY <1>1 DEF Due
  <2> QED BY <2>1, <1>1, <1>6 DEF Written
<1>10. OnItsWay'
  <2>1. Before(ToSet(assetTxChan), page)' BY <1>1, <1>5 DEF Before, OnItsWay
  <2> QED BY <2>1, <1>1, <1>4, <1>5, <1>6 DEF OnItsWay
<1> QED BY <1>7, <1>8, <1>9, <1>10

\* What has gathered is written.
LEMMA TimeoutStep == ASSUME IInv, Timeout PROVE IInv'
<1> USE DEF IInv
<1>1. /\ records # {} /\ Record(records, maxPK) /\ records' = {}
      /\ UNCHANGED <<touched, txMax, nextPK, page, assetTxChan, maxPK, crashes>>
  BY DEF Timeout, TimedOut, netVars, fetchVars
<1>2. UpTo = maxPK /\ lastAssetTxPk < maxPK /\ records = Due(lastAssetTxPk, maxPK)
      /\ maxPK < nextPK
  BY <1>1 DEF UpTo, Progress, Written
<1>3. maxPK \in Ids /\ maxPK \in Nat BY <1>2, TxBounds, AssetTxBounds DEF TypeOK, Ids
<1>4. /\ lastAssetTxPk' = maxPK /\ rows' \in [Ids -> [Pairs -> Nat]]
      /\ \A t \in Ids, p \in Pairs :
           rows'[t][p] = IF t <= maxPK /\ p \in touched[t] THEN 1 ELSE 0
  BY <1>1, <1>2, <1>3, RecordDue
<1>5. UpTo' = maxPK BY <1>1, <1>4 DEF UpTo
<1>6. TypeOK' BY <1>1, <1>4 DEF TypeOK
<1>7. Progress' BY <1>1, <1>2, <1>5 DEF Progress
<1>8. Written'
  <2>1. Due(lastAssetTxPk, UpTo)' = {} BY <1>3, <1>4, <1>5 DEF Due, Ids
  <2> QED BY <2>1, <1>1, <1>4 DEF Written
<1>9. OnItsWay' BY <1>1, <1>2, <1>5 DEF OnItsWay, Before
<1> QED BY <1>6, <1>7, <1>8, <1>9

LEMMA NewTxStep == ASSUME IInv, NewTx PROVE IInv'
<1> USE DEF IInv
<1>1. /\ txMax < MaxTx /\ txMax' = txMax + 1
      /\ UNCHANGED <<touched, nextPK, page, assetTxChan, records, maxPK, rows,
                     lastAssetTxPk, crashes>>
  BY DEF NewTx, fetchVars, handVars, dbVars
<1>2. UpTo' = UpTo BY <1>1 DEF UpTo
<1>3. TypeOK' BY <1>1, TxBounds, AssetTxBounds DEF TypeOK
<1>4. Progress' BY <1>1, <1>2 DEF Progress, TypeOK
<1>5. Written' BY <1>1, <1>2 DEF Written, Due
<1>6. OnItsWay' BY <1>1, <1>2 DEF OnItsWay, Before
<1> QED BY <1>3, <1>4, <1>5, <1>6

\* The restart begins behind what is written.
LEMMA CrashStep == ASSUME IInv, Crash PROVE IInv'
<1> USE DEF IInv
<1>1. /\ crashes < MaxCrashes /\ crashes' = crashes + 1
      /\ nextPK' = lastAssetTxPk + 1 /\ page' = {} /\ assetTxChan' = <<>>
      /\ records' = {} /\ maxPK' = 0
      /\ UNCHANGED <<touched, txMax, rows, lastAssetTxPk>>
  BY DEF Crash, Resume, netVars, dbVars
<1>2. UpTo' = lastAssetTxPk BY <1>1 DEF UpTo
<1>3. /\ lastAssetTxPk \in 0..MaxTx /\ lastAssetTxPk <= UpTo /\ UpTo \in Nat
      /\ \A t \in Ids : t \in Nat
  BY TxBounds, AssetTxBounds DEF TypeOK, Progress, UpTo, Ids
<1>4. TypeOK'
  <2>1. Cardinality({}) <= PageSize BY FS_EmptySet, TxBounds, AssetTxBounds
  <2>2. <<>> \in Seq(Ids) /\ Len(<<>>) <= ChanSize BY TxBounds, AssetTxBounds
  <2> QED BY <2>1, <2>2, <1>1, TxBounds, AssetTxBounds DEF TypeOK
<1>5. Progress'
  <2>1. lastAssetTxPk <= txMax BY <1>3 DEF Progress, TypeOK
  <2> QED BY <2>1, <1>1, <1>2, <1>3 DEF Progress
<1>6. Written'
  <2>1. Due(lastAssetTxPk, UpTo)' = {} BY <1>1, <1>2, <1>3 DEF Due
  <2> QED BY <2>1, <1>1 DEF Written
<1>7. OnItsWay'
  <2>1. ToSet(<<>>) = {} BY DEF ToSet
  <2>2. \A t \in Ids : ~(lastAssetTxPk < t /\ t < lastAssetTxPk + 1) BY <1>3
  <2> QED BY <2>1, <2>2, <1>1, <1>2 DEF OnItsWay, Before
<1> QED BY <1>4, <1>5, <1>6, <1>7

LEMMA NextIInv == IInv /\ [Next]_vars => IInv'
<1> SUFFICES ASSUME IInv, [Next]_vars PROVE IInv' OBVIOUS
<1>1. CASE UNCHANGED vars
  <2>1. UNCHANGED <<touched, txMax, nextPK, page, assetTxChan, records, maxPK, rows,
                    lastAssetTxPk, crashes>>
    BY <1>1 DEF vars, netVars, fetchVars, handVars, dbVars
  <2>2. UpTo' = UpTo BY <2>1 DEF UpTo
  <2> QED BY <2>1, <2>2 DEF IInv, TypeOK, Progress, Written, Due, OnItsWay, Before
<1> QED BY <1>1, FetchStep, SendStep, ReceiveStep, TimeoutStep, NewTxStep, CrashStep
        DEF Next

\* The inductive invariant holds.
THEOREM AssetTxInvariance == Spec => []IInv
<1> QED BY InitIInv, NextIInv, PTL DEF Spec

\* Pairs that are gathered belong to the transactions between the counter and
\* UpTo.
LEMMA InFlight == IInv => InFlightExact
<1> SUFFICES ASSUME IInv PROVE InFlightExact OBVIOUS
<1> USE DEF IInv
<1>1. /\ lastAssetTxPk \in Nat /\ UpTo \in Nat /\ lastAssetTxPk <= UpTo
      /\ nextPK \in Nat /\ UpTo < nextPK /\ \A t \in Ids : t \in Nat
  BY TxBounds, AssetTxBounds DEF TypeOK, Progress, UpTo, Ids
<1>2. Gathered = {t \in Ids : touched[t] # {} /\ lastAssetTxPk < t /\ t <= UpTo}
  <2>1. ASSUME NEW t \in Gathered
        PROVE  t \in Ids /\ touched[t] # {} /\ lastAssetTxPk < t /\ t <= UpTo
    <3>1. PICK p \in Pairs : <<t, p>> \in records BY DEF Gathered
    <3>2. t \in Ids /\ <<t, p>> \in Due(lastAssetTxPk, UpTo) BY <3>1 DEF Gathered, Written
    <3> QED BY <3>2 DEF Due
  <2>2. ASSUME NEW t \in Ids, touched[t] # {}, lastAssetTxPk < t, t <= UpTo
        PROVE  t \in Gathered
    <3>1. PICK p \in touched[t] : p \in Pairs BY <2>2 DEF TypeOK
    <3>2. <<t, p>> \in records BY <2>2, <3>1 DEF Written, Due
    <3> QED BY <3>1, <3>2 DEF Gathered
  <2> QED BY <2>1, <2>2
<1>3. PICK way : way = ToSet(assetTxChan) \cup page OBVIOUS
<1>4. way = {t \in Ids : touched[t] # {} /\ UpTo < t /\ t < nextPK}
  BY <1>3 DEF OnItsWay
<1>5. \A t \in Ids : t < nextPK <=>
        (t <= lastAssetTxPk \/ (lastAssetTxPk < t /\ t <= UpTo) \/ (UpTo < t /\ t < nextPK))
  BY <1>1
<1>6. Recorded \cup Gathered \cup way = {t \in Ids : touched[t] # {} /\ t < nextPK}
  BY <1>2, <1>4, <1>5 DEF Recorded
<1>7. Before(Recorded, Gathered)
  <2> SUFFICES ASSUME NEW s \in Recorded, NEW t \in Gathered PROVE s < t
    BY DEF Before
  <2>1. s \in Nat /\ s <= lastAssetTxPk BY <1>1 DEF Recorded
  <2>2. t \in Nat /\ lastAssetTxPk < t BY <1>1, <1>2
  <2> QED BY <2>1, <2>2, <1>1
<1>8. Before(Recorded \cup Gathered, way)
  <2> SUFFICES ASSUME NEW s \in Recorded \cup Gathered, NEW t \in way PROVE s < t
    BY DEF Before
  <2>1. s \in Nat /\ s <= UpTo BY <1>1, <1>2 DEF Recorded
  <2>2. t \in Nat /\ UpTo < t BY <1>1, <1>4
  <2> QED BY <2>1, <2>2, <1>1
<1>9. Recorded \cup Gathered \cup ToSet(assetTxChan) \cup page = Recorded \cup Gathered \cup way
  BY <1>3
<1> QED BY <1>3, <1>6, <1>7, <1>8, <1>9 DEF InFlightExact, OnItsWay

\* What is recorded, gathered, in the channel and in the page are all the
\* transactions with pairs, each in one place and in order.
THEOREM InFlightIsExact == Spec => []InFlightExact
<1> QED BY AssetTxInvariance, InFlight, PTL
-----------------------------------------------------------------------------
\* The table holds all pairs of every transaction up to the counter once, and
\* none of the others.
EffectsExact == \A t \in Ids : Effect(t) = IF t <= lastAssetTxPk THEN 1 ELSE 0

LEMMA EffectsFollow == IInv => EffectsExact
<1> SUFFICES ASSUME IInv, NEW t \in Ids
             PROVE  Effect(t) = IF t <= lastAssetTxPk THEN 1 ELSE 0
  BY DEF EffectsExact
<1>1. CASE touched[t] = {} BY <1>1 DEF Effect
<1>2. CASE touched[t] # {}
  <2> DEFINE counts == {rows[t][p] : p \in touched[t]}
  <2>1. PICK n : n = IF t <= lastAssetTxPk THEN 1 ELSE 0 OBVIOUS
  <2>2. \A p \in touched[t] : rows[t][p] = n
    BY <2>1 DEF IInv, TypeOK, Written
  <2>3. counts = {n} BY <1>2, <2>2
  <2>4. Cardinality({n}) = 1 BY FS_Singleton
  <2>5. (CHOOSE m \in {n} : TRUE) = n OBVIOUS
  <2>6. Effect(t) = IF Cardinality(counts) = 1 THEN CHOOSE m \in counts : TRUE ELSE -1
    BY <1>2 DEF Effect
  <2> QED BY <2>1, <2>3, <2>4, <2>5, <2>6
<1> QED BY <1>1, <1>2

\* The counter of the task only moves to a transaction in table tx, and table tx
\* only grows when the counter stays.
Moves ==
  \/ lastAssetTxPk' \in (lastAssetTxPk + 1)..txMax /\ txMax' = txMax
  \/ lastAssetTxPk' = lastAssetTxPk /\ txMax < MaxTx /\ txMax' = txMax + 1
  \/ lastAssetTxPk' = lastAssetTxPk /\ txMax' = txMax

LEMMA StepMoves == IInv /\ [Next]_vars => Moves
<1> SUFFICES ASSUME IInv, [Next]_vars PROVE Moves OBVIOUS
<1> USE DEF IInv
<1>1. CASE Fetch \/ SendTx \/ Crash \/ UNCHANGED vars
  BY <1>1 DEF Fetch, SendTx, Crash, vars, netVars, dbVars, Moves
<1>2. CASE NewTx BY <1>2 DEF NewTx, dbVars, Moves
<1>3. /\ lastAssetTxPk \in Nat /\ txMax \in Nat /\ nextPK \in Nat /\ nextPK - 1 <= txMax
      /\ \A t \in Ids : t \in Nat
  BY TxBounds, AssetTxBounds DEF TypeOK, Progress, Ids
<1>4. CASE Receive
  <2>1. lastAssetTxPk' \in {lastAssetTxPk, Head(assetTxChan)} /\ txMax' = txMax
    BY <1>4 DEF Receive, Record, WrittenUpTo, dbVars, netVars
  <2>2. /\ Head(assetTxChan) \in Ids /\ lastAssetTxPk < Head(assetTxChan)
        /\ Head(assetTxChan) < nextPK
    BY <1>4, HeadIsNext DEF Receive
  <2>3. Head(assetTxChan) \in (lastAssetTxPk + 1)..txMax BY <1>3, <2>2
  <2> QED BY <2>1, <2>3 DEF Moves
<1>5. CASE Timeout
  <2>1. lastAssetTxPk' = maxPK /\ txMax' = txMax /\ records # {}
    BY <1>5 DEF Timeout, TimedOut, Record, WrittenUpTo, netVars
  <2>2. lastAssetTxPk < maxPK /\ maxPK < nextPK /\ maxPK \in Int
    BY <2>1 DEF TypeOK, Progress, UpTo
  <2>3. maxPK \in (lastAssetTxPk + 1)..txMax BY <1>3, <2>2
  <2> QED BY <2>1, <2>3 DEF Moves
<1> QED BY <1>1, <1>2, <1>4, <1>5 DEF Next

LEMMA StepRefines ==
  TypeOK /\ TypeOK' /\ EffectsExact /\ EffectsExact' /\ Moves
    => [Promise!Publish \/ Promise!Consume]_(Promise!vars)
<1> SUFFICES ASSUME TypeOK, TypeOK', EffectsExact, EffectsExact', Moves
             PROVE  [Promise!Publish \/ Promise!Consume]_(Promise!vars)
  OBVIOUS
<1>1. PICK d \in Nat : d = lastAssetTxPk BY DEF TypeOK
<1>2. PICK e \in Nat : e = lastAssetTxPk' BY DEF TypeOK
<1>3. PICK F : F = [t \in Ids |-> Effect(t)] OBVIOUS
<1>4. PICK G : G = [t \in Ids |-> Effect(t)]' OBVIOUS
<1>5. F = [t \in Ids |-> IF t <= d THEN 1 ELSE 0] BY <1>1, <1>3 DEF EffectsExact
<1>6. G = [t \in Ids |-> IF t <= e THEN 1 ELSE 0]
  <2>1. \A t \in Ids : Effect(t)' = IF t <= e THEN 1 ELSE 0
    BY <1>2 DEF EffectsExact
  <2> QED BY <2>1, <1>4
<1>7. CASE e \in (d + 1)..txMax /\ txMax' = txMax
  <2>1. ASSUME NEW t \in Ids
        PROVE  (IF t <= e THEN 1 ELSE 0)
                 = (IF t <= d THEN 1 ELSE 0) + (IF t \in (d + 1)..e THEN 1 ELSE 0)
    BY <1>7 DEF Ids
  <2>2. G = [t \in Ids |-> F[t] + (IF t \in (d + 1)..e THEN 1 ELSE 0)]
    BY <2>1, <1>5, <1>6
  <2>3. Promise!Consume BY <2>2, <1>1, <1>2, <1>3, <1>4, <1>7 DEF Promise!Consume, Ids
  <2> QED BY <2>3
<1>8. CASE e = d /\ txMax < MaxTx /\ txMax' = txMax + 1
  <2>1. Promise!Publish BY <1>1, <1>2, <1>3, <1>4, <1>5, <1>6, <1>8 DEF Promise!Publish
  <2> QED BY <2>1
<1>9. CASE e = d /\ txMax' = txMax
  BY <1>1, <1>2, <1>3, <1>4, <1>5, <1>6, <1>9 DEF Promise!vars
<1> QED BY <1>1, <1>2, <1>7, <1>8, <1>9 DEF Moves

LEMMA InitRefines == Init => Promise!CInit
<1> SUFFICES ASSUME Init PROVE Promise!CInit OBVIOUS
<1>1. IInv BY InitIInv
<1>2. EffectsExact BY <1>1, EffectsFollow
<1>3. \A t \in Ids : ~(t <= 0) BY DEF Ids
<1>4. [t \in Ids |-> Effect(t)] = [t \in Ids |-> 0]
  BY <1>2, <1>3 DEF EffectsExact, Init
<1> QED BY <1>4 DEF Init, Promise!CInit, Ids

\* The task keeps the promise of Consumer: every transaction takes effect
\* whole, once and in order, and the counter names the last one.
THEOREM TaskIsConsumer == Spec => ImplementsConsumer
<1>1. IInv /\ EffectsExact /\ IInv' /\ EffectsExact' /\ [Next]_vars
        => [Promise!Publish \/ Promise!Consume]_(Promise!vars)
  BY StepMoves, StepRefines DEF IInv
<1>2. Spec => []IInv BY AssetTxInvariance
<1>3. IInv => EffectsExact BY EffectsFollow
<1> QED BY <1>1, <1>2, <1>3, InitRefines, PTL DEF Spec, ImplementsConsumer, Promise!CSpec
=============================================================================
