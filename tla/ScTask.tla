------------------------------- MODULE ScTask -------------------------------
(***************************************************************************)
(* The contract task (neo/tasks/smart_contract.go): fetchSCTx pages        *)
(* through the invocation transactions by ascending id and hands each page *)
(* to handleScTx over an unbuffered channel; handleScTx records the        *)
(* contracts deployed on it, together with the counter from which a        *)
(* restart resumes.                                                        *)
(***************************************************************************)
EXTENDS TxTable, FiniteSetsExt

CONSTANT MaxFailures   \* bound on transactions that fail without a panic

ASSUME ScBounds == MaxFailures \in Nat

\* What the task tells transactions apart by: not an invocation (or no such
\* id), an invocation with a script too short for it (or the one it excludes),
\* any other invocation, and one that deploys a contract.
Kinds == {"other", "short", "plain", "deploy"}

VARIABLES
  kind,           \* the transactions the network will produce
  fpc, nextTxPK,  \* fetchSCTx: querying or sending; its nextTxPK
  scPage,         \* the ids it has in hand to send
  hpc, batch,     \* handleScTx: idle or inserting; the page it received
  scRows,         \* smartcontract_info: how many rows each transaction has
  lastTxPkForSC,  \* counter.last_tx_pk_for_sc
  excused,        \* history: ids a restart stepped over or a failure dropped
  failures

scNetVars   == <<kind, txMax>>
scFetchVars == <<fpc, nextTxPK, scPage>>
scHandVars  == <<hpc, batch>>
scDbVars    == <<scRows, lastTxPkForSC>>
bounds    == <<crashes, failures>>
scVars == <<scNetVars, scFetchVars, scHandVars, scDbVars, excused, bounds>>

-----------------------------------------------------------------------------
(* Slips the code might have made, for the sensitivity of the properties. *)

FirstOf(b) == Min(b)        \* CounterAfter: the first id instead of the last
SkipOne(b) == Max(b) + 2    \* CounterAfter, NextAfter: one too far
IdRange(from) == {i \in from..(from + PageSize - 1) :  \* GetInvocationTxs:
                    i <= txMax /\ kind[i] # "other"}   \* a range of ids

-----------------------------------------------------------------------------
Invocations(from) == {i \in from..txMax : kind[i] # "other"}

\* GetInvocationTxs: a page of the invocations from the given id on.
GetInvocationTxs(from) == FirstPage(Invocations(from))

\* The page without what cannot be a deployment.
Kept(from) == {i \in GetInvocationTxs(from) : kind[i] # "short"}

\* The counter value sent along with a page.
CounterAfter(b) == Max(b) + 1

\* Where the next query starts.
NextAfter(b) == Max(b) + 1

filterSC(b) == {i \in b : kind[i] = "deploy"}

ScInit ==
  /\ kind \in [Ids -> Kinds]
  /\ txMax = 0
  /\ fpc = "query" /\ nextTxPK = 1 /\ scPage = {}
  /\ hpc = "idle" /\ batch = {}
  /\ scRows = [i \in Ids |-> 0]
  /\ lastTxPkForSC = 0
  /\ excused = {}
  /\ crashes = 0 /\ failures = 0

\* fetchSCTx up to its send.  A page of which nothing is kept leads to a
\* sleep and the same query again.
FetchSC ==
  /\ fpc = "query" /\ Kept(nextTxPK) # {}
  /\ scPage' = Kept(nextTxPK)
  /\ nextTxPK' = NextAfter(scPage')
  /\ fpc' = "send"
  /\ UNCHANGED <<scNetVars, scHandVars, scDbVars, excused, bounds>>

\* The channel is unbuffered: the send waits for handleScTx to be ready.  A
\* page without deployments is done at once: no row, and no counter.
HandOver ==
  /\ fpc = "send" /\ hpc = "idle"
  /\ fpc' = "query" /\ scPage' = {}
  /\ IF filterSC(scPage) = {} THEN UNCHANGED scHandVars
                              ELSE hpc' = "insert" /\ batch' = scPage
  /\ UNCHANGED <<scNetVars, nextTxPK, scDbVars, excused, bounds>>

\* InsertSCInfos: rows and counter in one transaction.
InsertSCInfos ==
  /\ hpc = "insert"
  /\ scRows' = [i \in Ids |->
                  scRows[i] + (IF i \in filterSC(batch) THEN 1 ELSE 0)]
  /\ lastTxPkForSC' = CounterAfter(batch)
  /\ hpc' = "idle" /\ batch' = {}
  /\ UNCHANGED <<scNetVars, scFetchVars, excused, bounds>>

\* InsertSCInfos returns an error (begin, counter update or commit failed);
\* handleScTx does not look at it and takes the next page.
InsertFails ==
  /\ hpc = "insert" /\ failures < MaxFailures
  /\ failures' = failures + 1
  /\ excused' = excused \cup filterSC(batch)
  /\ hpc' = "idle" /\ batch' = {}
  /\ UNCHANGED <<scNetVars, scFetchVars, scDbVars, crashes>>

\* InsertBlock commits one transaction more.
ScNewTx ==
  /\ txMax < MaxTx
  /\ txMax' = txMax + 1
  /\ UNCHANGED <<kind, scFetchVars, scHandVars, scDbVars, excused, bounds>>

\* The process dies and resumes at last_tx_pk_for_sc + 1.
ScCrash ==
  /\ crashes < MaxCrashes
  /\ crashes' = crashes + 1
  /\ fpc' = "query" /\ nextTxPK' = lastTxPkForSC + 1 /\ scPage' = {}
  /\ hpc' = "idle" /\ batch' = {}
  /\ excused' = excused \cup ({lastTxPkForSC} \cap Ids)
  /\ UNCHANGED <<scNetVars, scDbVars, failures>>

ScNext == \/ FetchSC \/ HandOver \/ InsertSCInfos \/ InsertFails
          \/ ScNewTx \/ ScCrash

ScSpec == ScInit /\ [][ScNext]_scVars

ScFairSpec == /\ ScSpec /\ WF_scVars(FetchSC)
              /\ WF_scVars(HandOver) /\ WF_scVars(InsertSCInfos)

-----------------------------------------------------------------------------
(* Properties *)

\* The variables of the contract task have their types.
ScTypeOK ==
  /\ kind \in [Ids -> Kinds] /\ txMax \in 0..MaxTx
  /\ fpc \in {"query", "send"} /\ nextTxPK \in 1..(MaxTx + 2)
  /\ scPage \in SUBSET Ids /\ (fpc = "send" <=> scPage # {})
  /\ hpc \in {"idle", "insert"} /\ batch \in SUBSET Ids
  /\ scRows \in [Ids -> Nat]
  /\ lastTxPkForSC \in 0..(MaxTx + 1)
  /\ excused \in SUBSET Ids
  /\ crashes \in 0..MaxCrashes /\ failures \in 0..MaxFailures

Deployed == {i \in 1..txMax : kind[i] = "deploy"}
RecordedSC == {i \in Ids : scRows[i] > 0}

\* The variables have their types; and however often the process restarts, a
\* deployment gets at most one row, and what is in hand has none yet: rows and
\* counter commit together, so no page is handled twice once it was committed.
AtMostOnce ==
  /\ ScTypeOK
  /\ \A i \in Ids : scRows[i] <= 1
  /\ RecordedSC \subseteq Deployed
  /\ filterSC(scPage \cup batch) \cap RecordedSC = {}

\* Every deployment the scan has passed is recorded or in hand, except what a
\* restart stepped over or a failed insert dropped.
NothingElseMissed ==
  \A i \in Deployed :
    i < nextTxPK => i \in RecordedSC \cup scPage \cup batch \cup excused

\* db/counter.go: last_tx_pk_for_sc is the last processed transaction: so all
\* deployments up to it are recorded.  The code breaks it, because it stores
\* one past the last id and a restart then begins one further still: see the
\* run ScTask_resume.
CounterIsProcessed == \A i \in Deployed : i <= lastTxPkForSC => i \in RecordedSC

\* No page of the scan consists of PageSize scripts that are all too short: it
\* would be asked for over and over again.
NoDeadPage ==
  \A from \in Ids : \A to \in from..MaxTx :
    LET inv == {i \in from..to : kind[i] # "other"}
    IN  Cardinality(inv) = PageSize => \E i \in inv : kind[i] # "short"

\* Without such a page, every deployment is recorded in the end, unless a restart
\* stepped over it or a failed insert dropped it.
ContractsRecorded ==
  NoDeadPage =>
    \A i \in Ids : (i \in Deployed) ~> (i \in RecordedSC \cup excused)
=============================================================================
