-------------------------------- MODULE DBProofs --------------------------------
(***************************************************************************)
(* The theorems of DB.  A step of the store is a step of the transaction   *)
(* manager and a step of the files, so what TransactionManagerProofs and   *)
(* SsTableDataProofs show of their modules' steps holds here too; the      *)
(* memtable, the log and the calls between them are added.                 *)
(***************************************************************************)
EXTENDS DB, FiniteSetTheorems, WellFoundedInduction, TLAPS

TP == INSTANCE TransactionManagerProofs
        WITH FirstTxnId <- 2, StorageFaults <- FALSE

SP == INSTANCE SsTableDataProofs
        WITH IOFaults <- FALSE, MinActiveTxnIds <- Nat, MaxFlushes <- MaxTxnId

\* The assumptions of the two components.
LEMMA ManagerAssumption == TP!TxnIdAssumption
BY DBAssumption DEF TP!TxnIdAssumption

\* The bounds of the table layer within the store are what its proofs assume.
LEMMA FilesAssumption == SP!SsTableAssumption
BY DBAssumption DEF SP!SsTableAssumption

\* What a transaction does is a step of the transaction manager.
LEMMA ManagerStep ==
  ASSUME NEW t \in TxnIds, TransactionRuns(t)
  PROVE  TP!Next
<1>1. t \in TP!TxnIds
  BY DEF TxnIds, TM!TxnIds, TP!TxnIds
<1>2. ASSUME Begin(t) PROVE TP!Begin(t)
  BY <1>2 DEF Begin, TM!Begin, TP!Begin, TM!TxnIds, TP!TxnIds
<1>3. ASSUME CommitWal(t) PROVE TP!CommitWal(t)
  BY <1>3 DEF CommitWal, TM!CommitWal, TP!CommitWal
<1>4. ASSUME Rollback(t) PROVE TP!Rollback(t)
  BY <1>4 DEF Rollback, TM!Rollback, TP!Rollback
<1>5. ASSUME CommitApplied(t) PROVE TP!CommitApplied(t)
  BY <1>5 DEF CommitApplied, TM!CommitApplied, TP!CommitApplied, TM!Applied, TP!Applied,
                          TM!EntriesOf, TP!EntriesOf
<1>6. ASSUME Finish(t) PROVE TP!Finish(t)
  BY <1>6 DEF Finish, TM!Finish, TP!Finish, TM!NoWrites, TP!NoWrites
<1>7. ASSUME NEW k \in Keys, CommitPut(t, k) PROVE TP!CommitPut(t, k)
  BY <1>7 DEF CommitPut, TM!CommitPut, TP!CommitPut, TM!MemtablePut, TP!MemtablePut
<1>8. ASSUME NEW k \in Keys, releaseLock(t, k) PROVE TP!releaseLock(t, k)
  BY <1>8 DEF releaseLock, TM!releaseLock, TP!releaseLock
<1>9. ASSUME NEW k \in Keys, NEW v \in Values, Put(t, k, v) PROVE TP!Put(t, k, v)
  BY <1>9 DEF Put, TM!Put, TP!Put, TM!tryAcquireWriteLock, TP!tryAcquireWriteLock,
              TM!BufferWrite, TP!BufferWrite
<1> QED  BY <1>1, <1>2, <1>3, <1>4, <1>5, <1>6, <1>7, <1>8, <1>9
         DEF TransactionRuns, TP!Next, TP!CallStep

\* saveManifest, which does not fail here.
LEMMA SavedAlike == SST!saveManifest => SP!saveManifest
BY DEF SST!saveManifest, SP!saveManifest

\* What the files do is a step of SsTable.
LEMMA FlusherSteps ==
  ASSUME NEW f
  PROVE  /\ FlushStart(f) => SP!FlushWrite(f, memTable)
         /\ FlushInstall(f) => SP!FlushInstall(f)
         /\ FlushCheck(f) => SP!FlushCheck(f, minActiveTxnId)
<1>1. FlushStart(f) => SP!FlushWrite(f, memTable)
  BY DEF FlushStart, SST!FlushWrite, SP!FlushWrite, SST!WriteNewFile, SP!WriteNewFile,
         SST!TakeFileId, SP!TakeFileId, SST!FileIds, SP!FileIds, SST!Reused, SP!Reused,
         SST!lists, SP!lists, SST!history, SP!history, SST!manifestFile, SP!manifestFile
<1>2. FlushInstall(f) => SP!FlushInstall(f)
  <2>1. SST!saveManifest => SP!saveManifest
    BY SavedAlike
  <2> QED  BY <2>1 DEF FlushInstall, SST!FlushInstall, SP!FlushInstall, SST!files, SP!files
<1>3. FlushCheck(f) => SP!FlushCheck(f, minActiveTxnId)
  BY DEF FlushCheck, SST!FlushCheck, SP!FlushCheck, SST!ShouldRunCompaction,
         SP!ShouldRunCompaction, SST!Idle, SP!Idle, SST!NoCompaction, SP!NoCompaction,
         SST!lists, SP!lists, SST!files, SP!files, SST!manifestFile, SP!manifestFile
<1> QED  BY <1>1, <1>2, <1>3

\* A step of a compaction within the store is one of the table layer.
LEMMA CompactionSteps ==
  ASSUME NEW c \in Compactors, CompactionRuns(c)
  PROVE  SP!CompactStep(c)
<1> USE DEF SST!lists, SP!lists, SST!files, SP!files, SST!history, SP!history,
            SST!Range, SP!Range, SST!manifestFile, SP!manifestFile
<1>1. SST!CompactBegin(c) => SP!CompactBegin(c)
  BY DEF SST!CompactBegin, SP!CompactBegin
<1>2. SST!CompactCopy(c) => SP!CompactCopy(c)
  BY DEF SST!CompactCopy, SP!CompactCopy
<1>3. SST!CompactBuild(c) => SP!CompactBuild(c)
  <2>1. \A fs, min : SST!buildCompactedEntries(fs, min) = SP!buildCompactedEntries(fs, min)
    BY DEF SST!buildCompactedEntries, SP!buildCompactedEntries
  <2> QED  BY <2>1 DEF SST!CompactBuild, SP!CompactBuild, SST!Unreadable, SP!Unreadable
<1>4. SST!CompactBuildFails(c) => SP!CompactBuildFails(c)
  BY DEF SST!CompactBuildFails, SP!CompactBuildFails, SST!Unreadable, SP!Unreadable,
         SST!CompactReturns, SP!CompactReturns, SST!NoCompaction, SP!NoCompaction
<1>5. SST!CompactCreate(c) => SP!CompactCreate(c)
  BY DEF SST!CompactCreate, SP!CompactCreate, SST!WriteNewFile, SP!WriteNewFile,
         SST!TakeFileId, SP!TakeFileId, SST!FileIds, SP!FileIds, SST!Reused, SP!Reused
<1>6. SST!CompactSwap(c) => SP!CompactSwap(c)
  <2>1. \A s, old : SST!Kept(s, old) = SP!Kept(s, old)
    BY Zenon DEF SST!Kept, SP!Kept, SST!InOrder, SP!InOrder, SST!Cardinality, SP!Cardinality
  <2> QED  BY <2>1, SavedAlike DEF SST!CompactSwap, SP!CompactSwap
<1>7. SST!CompactDelete(c) => SP!CompactDelete(c)
  BY DEF SST!CompactDelete, SP!CompactDelete
<1>8. SST!CompactEnd(c) => SP!CompactEnd(c)
  BY DEF SST!CompactEnd, SP!CompactEnd, SST!CompactReturns, SP!CompactReturns,
         SST!NoCompaction, SP!NoCompaction
<1>9. SST!CompactBuildPart(c) => SP!CompactBuildPart(c)
  BY DEF SST!CompactBuildPart, SP!CompactBuildPart, SST!Unreadable, SP!Unreadable
<1> QED  BY <1>1, <1>2, <1>3, <1>4, <1>5, <1>6, <1>7, <1>8, <1>9
         DEF CompactionRuns, SP!CompactStep

\* When the process goes down, or NewDB starts it, so does the table layer.
LEMMA RestartSteps ==
  /\ Down => SP!Crash \/ SP!CrashInSave \/ \E c \in Compactors : SP!CompactPanics(c)
  /\ NewDB => SP!NewSsTable
<1> USE DEF SST!files, SP!files, SST!history, SP!history, SST!Range, SP!Range,
            SST!manifestFile, SP!manifestFile
<1>1. SST!GoDown => SP!GoDown
  BY DEF SST!GoDown, SP!GoDown, SST!EmptyManifest, SP!EmptyManifest, SST!Idle, SP!Idle,
         SST!NoCompaction, SP!NoCompaction
<1>2. SST!Crash => SP!Crash
  BY <1>1 DEF SST!Crash, SP!Crash
<1>3. \A c \in Compactors : SST!CompactPanics(c) => SP!CompactPanics(c)
  BY <1>1 DEF SST!CompactPanics, SP!CompactPanics
<1>4. NewDB => SP!NewSsTable
  BY DEF NewDB, SST!NewSsTable, SP!NewSsTable
<1>5. SST!CrashInSave => SP!CrashInSave
  BY <1>1 DEF SST!CrashInSave, SP!CrashInSave, SST!EmptyManifest, SP!EmptyManifest
<1> QED  BY <1>2, <1>3, <1>4, <1>5 DEF Down

\* Other steps leave the files alone.
LEMMA QuietFiles ==
  ASSUME UNCHANGED sstVars
  PROVE  UNCHANGED SP!vars
BY DEF sstVars, SP!vars, SP!lists, SP!files, SP!manifestFile, SP!history

-------------------------------------------------------------------------------
(***************************************************************************)
(* Types                                                                   *)
(***************************************************************************)
WalRecord == [txnId : TxnIds, writes : TP!WriteMaps]
Calls == {"none", "flushing", "memtable", "wal", "done"}

StoreTypes ==
  /\ memTable \subseteq SP!BoundedEntry
  /\ wal \in Seq(WalRecord)
  /\ call \in [Flushers -> Calls]
  /\ opened \in BOOLEAN
  /\ \A k \in Keys : lastCommitted[k] \subseteq Entry

Types == TP!Inv /\ SP!TypeInv /\ SP!ListsAgree /\ StoreTypes

\* The writes of a transaction, as entries.
LEMMA WriteTypes ==
  ASSUME NEW t \in TxnIds, NEW m \in TP!WriteMaps
  PROVE  EntriesOf(m, t) \subseteq SP!BoundedEntry
<1>1. \A k \in DOMAIN m : k \in Keys /\ m[k] \in Values
  BY DEF TP!WriteMaps
<1>2. t \in Nat /\ t \in 0 .. MaxTxnId
  BY DBAssumption DEF TxnIds, TM!TxnIds
<1> QED  BY <1>1, <1>2 DEF EntriesOf, SP!BoundedEntry, SP!Entry

\* The entries of the log.
LEMMA WalTypes ==
  ASSUME StoreTypes
  PROVE  WalEntries \subseteq SP!BoundedEntry
<1>1. \A r \in Range(wal) : r.txnId \in TxnIds /\ r.writes \in TP!WriteMaps
  <2> TAKE r \in Range(wal)
  <2>1. wal \in Seq(WalRecord)
    BY DEF StoreTypes
  <2>2. PICK i \in DOMAIN wal : r = wal[i]
    BY DEF Range
  <2>3. r \in WalRecord
    BY <2>1, <2>2
  <2> QED  BY <2>3 DEF WalRecord
<1>2. \A r \in Range(wal) : EntriesOf(r.writes, r.txnId) \subseteq SP!BoundedEntry
  BY <1>1, WriteTypes
<1> QED  BY <1>2 DEF WalEntries

\* A set of numbers has a smallest one.
LEMMA SmallestExists ==
  ASSUME NEW S \in SUBSET Nat, S # {}
  PROVE  Min(S) \in S
<1>1. PICK x \in S : \A y \in S : ~(<<y, x>> \in OpToRel(<, Nat))
  BY WFMin, NatLessThanWellFounded, Zenon
<1>2. \A y \in S : ~(y < x)
  BY <1>1, Zenon DEF OpToRel
<1>3. \A y \in S : x <= y
  BY <1>2
<1> QED  BY <1>3 DEF Min

\* minActiveTxnId is an id, or the value that stands for none.
LEMMA MinType ==
  ASSUME TP!Inv
  PROVE  minActiveTxnId \in Nat
<1>1. activeTransactionsMap \in SUBSET Nat
  BY DBAssumption DEF TP!Inv, TP!TypeOK, TP!TxnIds
<1>2. activeTransactionsMap # {} => Min(activeTransactionsMap) \in Nat
  BY <1>1, SmallestExists
<1>3. Infinity \in Nat
  BY DBAssumption DEF Infinity
<1> QED  BY <1>2, <1>3 DEF minActiveTxnId

\* The manager in NewDB is one that has begun the catalog's transaction.
LEMMA NewDBManager ==
  ASSUME NewDB
  PROVE  TP!Inv'
<1> DEFINE t == maxTxnId + 1
<1>1. /\ t \in TxnIds /\ nextTransactionId' = t + 1 /\ activeTransactionsMap' = {t}
      /\ keyVsLocksAcquiredMap' = [k \in Keys |-> 0]
      /\ phase' = [u \in TxnIds |-> IF u < t THEN "committed"
                                    ELSE IF u = t THEN "applying" ELSE "none"]
      /\ snapshot' = [u \in TxnIds |-> IF u = t THEN {t} ELSE {}]
      /\ bufferedWriteMap' = [u \in TxnIds |-> TM!NoWrites]
      /\ lockAcquiredKeys' = [u \in TxnIds |-> {}]
      /\ versions' = {}
  BY DEF NewDB
<1>2. TxnIds = 1 .. MaxTxnId /\ TP!TxnIds = 1 .. MaxTxnId /\ MaxTxnId \in Nat
  BY DBAssumption DEF TxnIds, TM!TxnIds, TP!TxnIds
<1>3. TM!NoWrites \in TP!WriteMaps /\ DOMAIN TM!NoWrites = {}
  <2>1. TM!NoWrites \in [{} -> Values]
    BY DEF TM!NoWrites
  <2> QED  BY <2>1 DEF TP!WriteMaps
<1> HIDE DEF t
<1>4. TP!TypeOK'
  BY <1>1, <1>2, <1>3 DEF TP!TypeOK, TP!Phases
<1>5. TP!LocksAgree' /\ TP!BufferedKeysLocked' /\ TP!FreshHandles'
  BY <1>1, <1>2, <1>3 DEF TP!LocksAgree, TP!BufferedKeysLocked, TP!FreshHandles
<1>6. TP!ActiveAgrees'
  BY <1>1, <1>2 DEF TP!ActiveAgrees, TP!Active
<1>7. TP!IdsInOrder'
  BY <1>1, <1>2 DEF TP!IdsInOrder
<1>8. TP!SeesOnlyFinished'
  BY <1>1, <1>2 DEF TP!SeesOnlyFinished, TP!CanSee, TP!Over
<1> QED  BY <1>4, <1>5, <1>6, <1>7, <1>8 DEF TP!Inv

\* Every step but NewDB is a step of the manager.
LEMMA ManagerNext ==
  ASSUME [Next]_vars, ~NewDB
  PROVE  [TP!Next]_(TP!vars)
<1>1. ASSUME UNCHANGED tmVars PROVE UNCHANGED TP!vars
  BY <1>1 DEF tmVars, TP!vars
<1>2. ASSUME NEW f \in Flushers, FlushRuns(f) PROVE UNCHANGED tmVars
  BY <1>2 DEF FlushRuns, FlushStart, FlushInstall, FlushCheck, ClearMemtable, ClearWal
<1>3. ASSUME NEW c \in Compactors, CompactionRuns(c) PROVE UNCHANGED tmVars
  BY <1>3 DEF CompactionRuns
<1>4. CASE Down \/ UNCHANGED vars
  BY <1>1, <1>4 DEF Down, vars
<1> QED  BY <1>1, <1>2, <1>3, <1>4, ManagerStep DEF Next

\* Every step of the store preserves the manager's invariant: it is a step of
\* the manager, or NewDB starts the manager afresh.
LEMMA ManagerInv ==
  ASSUME TP!Inv, [Next]_vars
  PROVE  TP!Inv'
<1>1. CASE NewDB
  BY <1>1, NewDBManager
<1>2. CASE ~NewDB
  BY <1>2, ManagerNext, ManagerAssumption, TP!NextInv
<1> QED  BY <1>1, <1>2

\* The steps of the files: no file operation fails.
LEMMA FilesWhole ==
  ASSUME TP!Inv, StoreTypes, [Next]_vars
  PROVE  [SP!WholeStep]_(SP!vars)
<1>1. ASSUME NEW t \in TxnIds, TransactionRuns(t) PROVE UNCHANGED sstVars
  BY <1>1 DEF TransactionRuns, Begin, CommitWal, Rollback, CommitApplied, Finish,
              CommitPut, releaseLock, Put
<1>2. ASSUME NEW f \in Flushers, FlushRuns(f) PROVE [SP!WholeStep]_(SP!vars)
  <2>1. CASE FlushStart(f)
    <3>1. SP!FlushWrite(f, memTable) /\ memTable \in SUBSET SP!BoundedEntry
      BY <2>1, FlusherSteps DEF StoreTypes
    <3> QED  BY <3>1 DEF SP!WholeStep
  <2>2. CASE FlushInstall(f)
    BY <2>2, FlusherSteps DEF SP!WholeStep
  <2>3. CASE FlushCheck(f)
    <3>1. SP!FlushCheck(f, minActiveTxnId) /\ minActiveTxnId \in Nat
      BY <2>3, FlusherSteps, MinType
    <3> QED  BY <3>1 DEF SP!WholeStep
  <2>4. CASE ClearMemtable(f) \/ ClearWal(f)
    BY <2>4, QuietFiles DEF ClearMemtable, ClearWal
  <2> QED  BY <1>2, <2>1, <2>2, <2>3, <2>4 DEF FlushRuns
<1>3. CASE UNCHANGED vars
  BY <1>3, QuietFiles DEF vars
<1>4. CASE Down \/ NewDB
  BY <1>4, RestartSteps DEF SP!WholeStep, SP!CompactStep
<1>5. ASSUME NEW c \in Compactors, CompactionRuns(c) PROVE [SP!WholeStep]_(SP!vars)
  BY <1>5, CompactionSteps DEF SP!WholeStep
<1> QED  BY <1>1, <1>2, <1>3, <1>4, <1>5, QuietFiles DEF Next

\* They are steps of SsTable.
LEMMA FilesNext ==
  ASSUME TP!Inv, StoreTypes, [Next]_vars
  PROVE  [SP!AnyStep]_(SP!vars)
BY FilesWhole DEF SP!WholeStep, SP!AnyStep, SP!AnyFlush

\* Every step of the store preserves the table layer's types and lists.
LEMMA FilesInv ==
  ASSUME Types, [Next]_vars
  PROVE  SP!TypeInv' /\ SP!ListsAgree'
<1>1. SP!TypeInv /\ SP!ListsAgree /\ [SP!AnyStep]_(SP!vars)
  BY FilesNext DEF Types
<1>2. SP!TypeInv'
  BY <1>1, FilesAssumption, SP!TypesStep
<1>3. SP!ListsAgree'
  BY <1>1, FilesAssumption, SP!ListsStep
<1> QED  BY <1>2, <1>3

\* What is stored keeps its types.
LEMMA StoreInv ==
  ASSUME Types, [Next]_vars
  PROVE  StoreTypes'
<1> USE DEF StoreTypes
<1>1. StoreTypes /\ \A t \in TxnIds : bufferedWriteMap[t] \in TP!WriteMaps
  BY DEF Types, TP!Inv, TP!TypeOK, TxnIds, TM!TxnIds, TP!TxnIds
<1>2. CASE UNCHANGED vars
  BY <1>1, <1>2 DEF vars
<1>3. ASSUME NEW t \in TxnIds, TransactionRuns(t) PROVE StoreTypes'
  <2>1. CASE \/ Begin(t) \/ Rollback(t) \/ Finish(t)
             \/ \E k \in Keys : releaseLock(t, k)
             \/ \E k \in Keys, v \in Values : Put(t, k, v)
    BY <1>1, <2>1 DEF Begin, Rollback, Finish, releaseLock, Put
  <2>2. CASE CommitApplied(t)
    BY <1>1, <2>2 DEF CommitApplied, Calls
  <2>3. CASE CommitWal(t)
    <3>1. [txnId |-> t, writes |-> bufferedWriteMap[t]] \in WalRecord
      BY <1>1 DEF WalRecord
    <3>2. wal' \in Seq(WalRecord)
      BY <1>1, <2>3, <3>1 DEF CommitWal
    <3>3. ASSUME NEW k \in Keys, k \in DOMAIN bufferedWriteMap[t]
          PROVE  [key |-> k, value |-> bufferedWriteMap[t][k], txnId |-> t] \in Entry
      <4>1. bufferedWriteMap[t][k] \in Values
        BY <1>1, <3>3 DEF TP!WriteMaps
      <4>2. t \in Nat
        BY DBAssumption DEF TxnIds, TM!TxnIds
      <4> QED  BY <4>1, <4>2 DEF Entry
    <3>4. ASSUME NEW k \in Keys PROVE lastCommitted'[k] \subseteq Entry
      <4>1. lastCommitted'[k] =
              IF k \in DOMAIN bufferedWriteMap[t]
              THEN {[key |-> k, value |-> bufferedWriteMap[t][k], txnId |-> t]}
              ELSE lastCommitted[k]
        BY <2>3 DEF CommitWal
      <4> QED  BY <1>1, <3>3, <4>1
    <3>5. memTable' = memTable /\ call' = call /\ opened' = opened
      BY <2>3 DEF CommitWal
    <3> QED  BY <1>1, <3>2, <3>4, <3>5
  <2>4. ASSUME NEW k \in Keys, CommitPut(t, k) PROVE StoreTypes'
    <3>1. k \in DOMAIN bufferedWriteMap[t]
      BY <2>4 DEF CommitPut, TM!CommitPut
    <3>2. [key |-> k, value |-> bufferedWriteMap[t][k], txnId |-> t]
            \in EntriesOf(bufferedWriteMap[t], t)
      BY <3>1 DEF EntriesOf
    <3>3. memTable' \subseteq SP!BoundedEntry
      BY <1>1, <2>4, <3>2, WriteTypes DEF CommitPut, MemtablePut
    <3> QED  BY <1>1, <2>4, <3>3 DEF CommitPut
  <2> QED  BY <1>3, <2>1, <2>2, <2>3, <2>4 DEF TransactionRuns
<1>4. ASSUME NEW f \in Flushers, FlushRuns(f) PROVE StoreTypes'
  <2>1. call' = call \/ \E p \in Calls : call' = [call EXCEPT ![f] = p]
    BY <1>4 DEF FlushRuns, FlushStart, FlushInstall, FlushCheck, ClearMemtable, ClearWal,
                Calls
  <2>2. call' \in [Flushers -> Calls]
    BY <1>1, <2>1
  <2>3. /\ memTable' = memTable \/ memTable' = {}
        /\ wal' = wal \/ wal' = <<>>
        /\ opened' = opened /\ lastCommitted' = lastCommitted
    BY <1>4 DEF FlushRuns, FlushStart, FlushInstall, FlushCheck, ClearMemtable, ClearWal
  <2>4. wal' \in Seq(WalRecord)
    <3>1. wal \in Seq(WalRecord) /\ <<>> \in Seq(WalRecord)
      BY <1>1
    <3> QED  BY <2>3, <3>1
  <2> QED  BY <1>1, <2>2, <2>3, <2>4
<1>5. ASSUME NEW c \in Compactors, CompactionRuns(c) PROVE StoreTypes'
  BY <1>1, <1>5 DEF CompactionRuns
<1>6. CASE Down
  BY <1>1, <1>6 DEF Down, Calls
<1>7. CASE NewDB
  <2>1. memTable' \subseteq SP!BoundedEntry
    BY <1>1, <1>7, WalTypes DEF NewDB
  <2>2. CatalogRecord(maxTxnId + 1) \in WalRecord
    <3>1. TM!NoWrites \in [{} -> Values]
      BY DEF TM!NoWrites
    <3>2. TM!NoWrites \in TP!WriteMaps
      BY <3>1 DEF TP!WriteMaps
    <3> QED  BY <1>7, <3>2 DEF NewDB, CatalogRecord, WalRecord
  <2>3. wal' = Append(wal, CatalogRecord(maxTxnId + 1))
        /\ call' = call /\ opened' = opened /\ lastCommitted' = lastCommitted
    BY <1>7 DEF NewDB
  <2>4. wal' \in Seq(WalRecord)
    BY <1>1, <2>2, <2>3
  <2> QED  BY <1>1, <2>1, <2>3, <2>4
<1> QED  BY <1>2, <1>3, <1>4, <1>5, <1>6, <1>7 DEF Next

\* The types hold when the first NewDB begins.
LEMMA TypesInitially ==
  ASSUME Init
  PROVE  Types
<1>1. TP!Inv
  <2>1. TM!Init
    BY DEF Init
  <2>2. TP!Init
    BY <2>1 DEF TM!Init, TP!Init, TM!TxnIds, TP!TxnIds, TM!NoWrites, TP!NoWrites
  <2> QED  BY <2>2, ManagerAssumption, TP!InitInv
<1>2. SP!TypeInv /\ SP!ListsAgree
  <2>1. SST!Init
    BY DEF Init
  <2>2. SP!Init
    BY <2>1 DEF SST!Init, SP!Init, SST!EmptyManifest, SP!EmptyManifest, SST!Idle, SP!Idle,
                SST!NoCompaction, SP!NoCompaction, SST!FileIds, SP!FileIds
  <2> QED  BY <2>2, FilesAssumption, SP!InitialLists
<1>3. StoreTypes
  <2>1. CatalogRecord(1) \in WalRecord
    <3>1. TM!NoWrites \in [{} -> Values]
      BY DEF TM!NoWrites
    <3>2. TM!NoWrites \in TP!WriteMaps
      BY <3>1 DEF TP!WriteMaps
    <3>3. 1 \in TxnIds
      BY DBAssumption DEF TxnIds, TM!TxnIds
    <3> QED  BY <3>2, <3>3 DEF CatalogRecord, WalRecord
  <2>2. wal \in Seq(WalRecord)
    BY <2>1 DEF Init
  <2> QED  BY <2>2 DEF Init, StoreTypes, Calls
<1> QED  BY <1>1, <1>2, <1>3 DEF Types

\* The types hold in every state.
LEMMA TypesInvariant == Spec => []Types
<1>1. Init => Types
  BY TypesInitially
<1>2. Types /\ [Next]_vars => Types'
  BY ManagerInv, FilesInv, StoreInv DEF Types
<1> QED  BY <1>1, <1>2, PTL DEF Spec

\* The manager, the files, the memtable, the log and the calls keep their
\* types in every interleaving, through crashes and through NewDB, which
\* builds the first two anew from the log and from manifest.json.
THEOREM StoreTypeCorrect == Spec => []TypeOK
<1>1. ASSUME Types PROVE TypeOK
  <2>1. TM!TypeOK
    BY <1>1 DEF Types, TP!Inv, TP!TypeOK, TM!TypeOK, TP!TxnIds, TM!TxnIds, TP!Phases,
                TM!Phases, TP!WriteMaps, TM!WriteMaps
  <2>2. SST!TypeOK
    BY <1>1 DEF Types, SP!TypeInv, SP!TypeOK, SST!TypeOK, SP!FileLists, SST!FileLists,
                SP!FileIds, SST!FileIds, SP!Entry, SST!Entry
  <2>3. memTable \subseteq Entry
    BY <1>1 DEF Types, StoreTypes, SP!BoundedEntry, SP!Entry, Entry
  <2> QED  BY <1>1, <2>1, <2>2, <2>3
           DEF Types, StoreTypes, TypeOK, WalRecord, Calls, TP!WriteMaps, TM!WriteMaps
<1> QED  BY <1>1, TypesInvariant, PTL

-------------------------------------------------------------------------------
(***************************************************************************)
(* Where the entries come from, in one run of the program                  *)
(***************************************************************************)

\* One version for a key and a transaction.
VersionsUnique ==
  \A e, f \in versions : e.key = f.key /\ e.txnId = f.txnId => e = f

\* Whatever the memtable, the files and the compactions hold was put into the
\* memtable by a Commit of this run.
Stored ==
  /\ TP!Owned /\ TP!StoredFromBuffer
  /\ VersionsUnique
  /\ memTable \subseteq versions
  /\ SP!HeldIn(versions)

\* Without Reopen the program runs once.
LEMMA OneRun == ASSUME ~Reopen PROVE ~NewDB
BY DEF NewDB

\* The manager's facts about versions.
LEMMA ManagerStored ==
  ASSUME ~NewDB, TP!Inv, TP!Owned, TP!StoredFromBuffer, [Next]_vars
  PROVE  TP!Owned' /\ TP!StoredFromBuffer'
<1>1. [TP!Next]_(TP!vars)
  BY ManagerNext
<1>2. TP!Owned'
  BY <1>1, ManagerAssumption, TP!NextOwned
<1>3. TP!StoredFromBuffer'
  BY <1>1, ManagerAssumption, TP!NextStoredFromBuffer
<1> QED  BY <1>2, <1>3

\* A version is added only by CommitPut, to the memtable as well.
LEMMA VersionsChange ==
  ASSUME ~NewDB, [Next]_vars
  PROVE  \/ versions' = versions
         \/ \E t \in TxnIds, k \in Keys : CommitPut(t, k)
<1>1. ASSUME NEW t \in TxnIds, TransactionRuns(t), ~\E k \in Keys : CommitPut(t, k)
      PROVE  versions' = versions
  BY <1>1 DEF TransactionRuns, Begin, TM!Begin, CommitWal, TM!CommitWal, Rollback,
              TM!Rollback, CommitApplied, TM!CommitApplied, Finish, TM!Finish,
              releaseLock, TM!releaseLock, Put, TM!Put
<1>2. ASSUME UNCHANGED tmVars PROVE versions' = versions
  BY <1>2 DEF tmVars
<1>3. ASSUME NEW f \in Flushers, FlushRuns(f) PROVE UNCHANGED tmVars
  BY <1>3 DEF FlushRuns, FlushStart, FlushInstall, FlushCheck, ClearMemtable, ClearWal
<1>4. ASSUME NEW c \in Compactors, CompactionRuns(c) PROVE UNCHANGED tmVars
  BY <1>4 DEF CompactionRuns
<1>5. CASE Down \/ UNCHANGED vars
  BY <1>2, <1>5 DEF Down, vars
<1> QED  BY <1>1, <1>2, <1>3, <1>4, <1>5 DEF Next

\* No version is lost when one is added.
LEMMA CommitPutAdds ==
  ASSUME TP!Inv, TP!StoredFromBuffer, NEW t \in TxnIds, NEW k \in Keys, CommitPut(t, k)
  PROVE  LET e == [key |-> k, value |-> bufferedWriteMap[t][k], txnId |-> t]
         IN  /\ phase[t] = "applying" /\ k \in DOMAIN bufferedWriteMap[t]
             /\ e \notin versions /\ versions' = versions \cup {e}
             /\ \A f \in versions : ~(f.key = k /\ f.txnId = t)
             /\ memTable' = { f \in memTable : ~(f.key = k /\ f.txnId = t) } \cup {e}
<1> DEFINE e == [key |-> k, value |-> bufferedWriteMap[t][k], txnId |-> t]
<1>1. /\ phase[t] = "applying" /\ k \in DOMAIN bufferedWriteMap[t] /\ e \notin versions
      /\ versions' = { f \in versions : ~(f.key = k /\ f.txnId = t) } \cup {e}
      /\ memTable' = { f \in memTable : ~(f.key = k /\ f.txnId = t) } \cup {e}
  BY DEF CommitPut, TM!CommitPut, TM!MemtablePut, MemtablePut
<1>2. t \in TP!TxnIds
  BY DEF TxnIds, TM!TxnIds, TP!TxnIds
<1>3. ASSUME NEW f \in versions, f.key = k, f.txnId = t PROVE FALSE
  <2>1. f \in TP!EntriesOf(bufferedWriteMap[t], t)
    BY <1>1, <1>2, <1>3 DEF TP!StoredFromBuffer
  <2>2. f = e
    BY <1>3, <2>1 DEF TP!EntriesOf
  <2> QED  BY <1>1, <2>2
<1>4. versions' = versions \cup {e}
  BY <1>1, <1>3
<1> QED  BY <1>1, <1>3, <1>4

\* The files hold what the memtable held.
LEMMA HeldStored ==
  ASSUME Types, NEW V, memTable \subseteq V, SP!HeldIn(V), [Next]_vars
  PROVE  /\ written' \subseteq V
         /\ \A i \in SP!FileIds : disk'[i] \subseteq V
         /\ \A c \in Compactors : compaction'[c].entries \subseteq V
<1>1. [SP!StepWithin(V)]_(SP!vars)
  <2>1. ASSUME NEW t \in TxnIds, TransactionRuns(t) PROVE UNCHANGED SP!vars
    BY <2>1, QuietFiles DEF TransactionRuns, Begin, CommitWal, Rollback, CommitApplied,
                            Finish, CommitPut, releaseLock, Put
  <2>2. ASSUME NEW f \in Flushers, FlushRuns(f) PROVE [SP!StepWithin(V)]_(SP!vars)
    <3>1. CASE FlushStart(f)
      <4>1. SP!FlushWrite(f, memTable) /\ memTable \in SUBSET SP!BoundedEntry
        BY <3>1, FlusherSteps DEF Types, StoreTypes
      <4> QED  BY <4>1 DEF SP!StepWithin
    <3>2. CASE FlushInstall(f)
      BY <3>2, FlusherSteps DEF SP!StepWithin
    <3>3. CASE FlushCheck(f)
      <4>1. SP!FlushCheck(f, minActiveTxnId) /\ minActiveTxnId \in Nat
        BY <3>3, FlusherSteps, MinType DEF Types
      <4> QED  BY <4>1 DEF SP!StepWithin
    <3>4. CASE ClearMemtable(f) \/ ClearWal(f)
      BY <3>4, QuietFiles DEF ClearMemtable, ClearWal
    <3> QED  BY <2>2, <3>1, <3>2, <3>3, <3>4 DEF FlushRuns
  <2>3. CASE UNCHANGED vars
    BY <2>3, QuietFiles DEF vars
  <2>4. CASE Down \/ NewDB
    BY <2>4, RestartSteps DEF SP!StepWithin, SP!CompactStep
  <2>5. ASSUME NEW c \in Compactors, CompactionRuns(c) PROVE [SP!StepWithin(V)]_(SP!vars)
    BY <2>5, CompactionSteps DEF SP!StepWithin
  <2> QED  BY <2>1, <2>2, <2>3, <2>4, <2>5 DEF Next
<1>2. SP!TypeInv
  BY DEF Types
<1> QED  BY <1>1, <1>2, FilesAssumption, SP!HeldStep

\* No step stores an entry that was not put into the memtable.
LEMMA StoredStep ==
  ASSUME ~NewDB, Types, Stored, [Next]_vars
  PROVE  Stored'
<1>1. TP!Owned' /\ TP!StoredFromBuffer'
  BY ManagerStored DEF Types, Stored
<1>2. /\ written' \subseteq versions
      /\ \A i \in SP!FileIds : disk'[i] \subseteq versions
      /\ \A c \in Compactors : compaction'[c].entries \subseteq versions
  BY HeldStored DEF Stored
<1>3. ASSUME NEW t \in TxnIds, NEW k \in Keys, CommitPut(t, k)
      PROVE  versions \subseteq versions' /\ VersionsUnique' /\ memTable' \subseteq versions'
  <2> DEFINE e == [key |-> k, value |-> bufferedWriteMap[t][k], txnId |-> t]
  <2>1. /\ versions' = versions \cup {e}
        /\ \A f \in versions : ~(f.key = k /\ f.txnId = t)
        /\ memTable' = { f \in memTable : ~(f.key = k /\ f.txnId = t) } \cup {e}
    BY <1>3, CommitPutAdds DEF Types, Stored
  <2>2. e.key = k /\ e.txnId = t
    OBVIOUS
  <2> HIDE DEF e
  <2>3. VersionsUnique'
    BY <2>1, <2>2 DEF Stored, VersionsUnique
  <2> QED  BY <2>1, <2>3 DEF Stored
<1>4. versions \subseteq versions' /\ VersionsUnique' /\ memTable' \subseteq versions'
  <2>1. CASE versions' = versions
    <3>1. memTable' \subseteq memTable \/ \E t \in TxnIds, k \in Keys : CommitPut(t, k)
      BY DEF Next, vars, TransactionRuns, Begin, CommitWal, Rollback,
         CommitApplied, Finish, releaseLock, Put, FlushRuns, FlushStart, FlushInstall,
         FlushCheck, ClearMemtable, ClearWal, CompactionRuns, Down
    <3> QED  BY <1>3, <2>1, <3>1 DEF Stored, VersionsUnique
  <2> QED  BY <1>3, <2>1, VersionsChange
<1>5. SP!HeldIn(versions)'
  BY <1>2, <1>4 DEF SP!HeldIn
<1> QED  BY <1>1, <1>4, <1>5 DEF Stored

\* At first nothing is stored.
LEMMA StoredInitially ==
  ASSUME Init
  PROVE  Stored
<1>1. /\ versions = {} /\ memTable = {} /\ written = {}
      /\ \A i \in SP!FileIds : disk[i] = {}
      /\ \A c \in Compactors : compaction[c].entries = {}
      /\ phase = [t \in TM!TxnIds |-> IF t < 2 THEN "committed" ELSE "none"]
  BY DEF Init, TM!Init, SST!Init, SST!FileIds, SP!FileIds, SST!NoCompaction
<1>2. TP!Owned /\ TP!StoredFromBuffer
  BY <1>1 DEF TP!Owned, TP!StoredFromBuffer, TM!TxnIds, TP!TxnIds
<1> QED  BY <1>1, <1>2 DEF Stored, VersionsUnique, SP!HeldIn

\* In a run without a restart every entry stored anywhere is a version.
LEMMA StoredInvariant ==
  ASSUME ~Reopen
  PROVE  Spec => [](Types /\ Stored)
<1>1. Init => Stored
  BY StoredInitially
<1>2. Types /\ Stored /\ [Next]_vars => Stored'
  BY OneRun, StoredStep
<1> QED  BY <1>1, <1>2, TypesInvariant, PTL DEF Spec

\* What SsTable.Get returns is in a file of the list and visible.
LEMMA FilesGet ==
  ASSUME Types, NEW k, NEW t, NEW A, NEW e \in SST!SsTableGet(k, t, A)
  PROVE  (\E i \in SP!FileIds : e \in disk[i]) /\ CanSee(e.txnId, t, A)
<1> DEFINE file(i) == disk[firstLevelFiles[i]]
           hit(i) == { x \in SST!FileGet(file(i), k, t, A) : x.value # EmptyValue }
           hits == { i \in DOMAIN firstLevelFiles : hit(i) # {} }
<1>1. hits # {} /\ e \in hit(SST!Max(hits))
  BY DEF SST!SsTableGet
<1>2. firstLevelFiles \in Seq(SP!FileIds)
  BY DEF Types, SP!TypeInv, SP!TypeOK, SP!FileLists
<1>3. SST!Max(hits) \in DOMAIN firstLevelFiles
  <2>1. hits \in SUBSET (0 .. Len(firstLevelFiles)) /\ Len(firstLevelFiles) \in Nat
    BY <1>2
  <2> HIDE DEF hits
  <2>2. PICK i \in hits : \A j \in hits : i >= j
    BY <1>1, <2>1, FilesAssumption, SP!LargestExists
  <2>3. SST!Max(hits) \in hits
    BY <2>2 DEF SST!Max
  <2> QED  BY <2>3 DEF hits
<1> HIDE DEF hits
<1>4. e \in SST!FileGet(file(SST!Max(hits)), k, t, A)
  BY <1>1
<1>5. e \in file(SST!Max(hits)) /\ CanSee(e.txnId, t, A)
  BY <1>4 DEF SST!FileGet, SST!Newest, SST!VisibleEntries, SST!CanSee, CanSee
<1> QED  BY <1>2, <1>3, <1>5

\* An open transaction reads, from the memtable or from any file, only
\* versions of transactions that had committed when it began, however
\* commits, flushes and compactions of other goroutines interleave: neither
\* moving a version into a file nor merging files shows it to more readers.
THEOREM ReadsAreCommitted ==
  ASSUME ~Reopen
  PROVE  Spec => []ReadsCommitted
<1>1. ASSUME Types, Stored PROVE ReadsCommitted
  <2> SUFFICES ASSUME NEW t \in TxnIds, NEW k \in Keys, phase[t] = "open",
                      NEW e \in getWithSnapshot(k, t, snapshot[t])
               PROVE  phase[e.txnId] = "committed" /\ e.txnId \notin snapshot[t]
    BY DEF ReadsCommitted
  <2>1. e \in versions /\ CanSee(e.txnId, t, snapshot[t])
    <3>1. CASE e \in MemtableGet(memTable, k, t, snapshot[t])
      BY <1>1, <3>1 DEF MemtableGet, Newest, VisibleEntries, Stored
    <3>2. CASE e \in SST!SsTableGet(k, t, snapshot[t])
      BY <1>1, <3>2, FilesGet DEF Stored, SP!HeldIn
    <3> QED  BY <3>1, <3>2 DEF getWithSnapshot
  <2>2. phase[e.txnId] \in {"applying", "releasing", "committed"}
    BY <1>1, <2>1 DEF Stored, TP!Owned
  <2>3. e.txnId # t
    BY <2>2
  <2>4. e.txnId \in TP!TxnIds /\ t \in TP!TxnIds
    BY <1>1, <2>1 DEF Types, TP!Inv, TP!TypeOK, TxnIds, TM!TxnIds, TP!TxnIds
  <2>5. TP!CanSee(e.txnId, t, snapshot[t])
    BY <2>1 DEF TP!CanSee, CanSee
  <2>6. phase[e.txnId] \in TP!Over
    BY <1>1, <2>3, <2>4, <2>5 DEF Types, TP!Inv, TP!SeesOnlyFinished
  <2> QED  BY <2>1, <2>2, <2>3, <2>6 DEF TP!Over, CanSee
<1> QED  BY <1>1, StoredInvariant, PTL

-------------------------------------------------------------------------------
(***************************************************************************)
(* One client: what the log, the memtable and the files hold together      *)
(***************************************************************************)
InsideCall == {"applying", "releasing", "undoing"}

\* One call at a time, and who flushes: a Commit that has stored its writes,
\* or FlushMemtable.
OneCall ==
  up => /\ \A t, u \in TxnIds :
             phase[t] \in InsideCall /\ phase[u] \in InsideCall => t = u
        /\ \A f \in Flushers : call[f] # "none" =>
             \/ f = 0 /\ \A t \in TxnIds : phase[t] \notin InsideCall
             \/ f \in TxnIds /\ phase[f] = "applying"
                /\ EntriesOf(bufferedWriteMap[f], f) \subseteq versions
        /\ \A f \in Flushers : flush[f].pc # "idle" => call[f] = "flushing"

\* A Commit that fills the memtable has its writes in the log.
LoggedFirst ==
  up => \A t \in TxnIds : phase[t] = "applying" /\ call[t] # "done" =>
          EntriesOf(bufferedWriteMap[t], t) \subseteq WalEntries

\* A version is in the log or was flushed; it is in the memtable or was
\* flushed; and the log and the memtable are cleared when all were flushed.
Flushed ==
  /\ versions \subseteq WalEntries \cup written
  /\ up => /\ versions \subseteq memTable \cup written
           /\ \A f \in Flushers :
                /\ flush[f].pc = "written" =>
                     versions \subseteq written \cup disk[flush[f].file]
                /\ flush[f].pc = "checking" \/ call[f] \in {"memtable", "wal"} =>
                     versions \subseteq written

FlushInv == OneCall /\ LoggedFirst /\ Flushed

\* What the steps of the manager do, read off their definitions.
LEMMA PhaseTypes ==
  ASSUME Types
  PROVE  /\ phase \in [TxnIds -> TP!Phases] /\ call \in [Flushers -> Calls]
         /\ TxnIds \subseteq Flushers /\ \A f \in Flushers : f # 0 => f \in TxnIds
         /\ 0 \notin TxnIds
         /\ bufferedWriteMap \in [TxnIds -> TP!WriteMaps]
         /\ flush \in [Flushers -> [pc : {"idle", "written", "checking"}, file : SP!FileIds]]
<1>1. TxnIds = 1 .. MaxTxnId /\ TP!TxnIds = 1 .. MaxTxnId /\ MaxTxnId \in Nat
  BY DBAssumption DEF TxnIds, TM!TxnIds, TP!TxnIds
<1>2. /\ phase \in [TxnIds -> TP!Phases] /\ call \in [Flushers -> Calls]
      /\ bufferedWriteMap \in [TxnIds -> TP!WriteMaps]
      /\ flush \in [Flushers -> [pc : {"idle", "written", "checking"}, file : SP!FileIds]]
  BY <1>1 DEF Types, TP!Inv, TP!TypeOK, StoreTypes, SP!TypeInv, SP!TypeOK
<1>3. /\ TxnIds \subseteq Flushers /\ \A f \in Flushers : f # 0 => f \in TxnIds
      /\ 0 \notin TxnIds
  BY <1>1 DEF Flushers
<1> QED  BY <1>2, <1>3

\* With one client a call begins when no other is under way.
LEMMA NobodyInside ==
  ASSUME ~Concurrent, MayCall
  PROVE  /\ up /\ \A t \in TxnIds : phase[t] \notin InsideCall
         /\ \A f \in Flushers : call[f] = "none"
BY DEF MayCall, InCall, InsideCall

\* A record is appended to the log.
LEMMA WalAppend ==
  ASSUME NEW t, NEW m, StoreTypes, wal' = Append(wal, [txnId |-> t, writes |-> m])
  PROVE  WalEntries' = WalEntries \cup EntriesOf(m, t)
<1> DEFINE r == [txnId |-> t, writes |-> m]
           s == Append(wal, r)
<1>1. wal \in Seq(WalRecord)
  BY DEF StoreTypes
<1>2. /\ DOMAIN s = 1 .. Len(wal) + 1 /\ s[Len(wal) + 1] = r
      /\ \A i \in DOMAIN wal : i \in DOMAIN s /\ s[i] = wal[i]
      /\ \A i \in DOMAIN s : i # Len(wal) + 1 => i \in DOMAIN wal
      /\ Len(wal) + 1 \in DOMAIN s
  BY <1>1
<1>3. r.txnId = t /\ r.writes = m
  OBVIOUS
<1> HIDE DEF r, s
<1>4. Range(s) = Range(wal) \cup {r}
  BY <1>2 DEF Range
<1>5. wal' = s
  BY DEF s, r
<1>6. WalEntries' = UNION { EntriesOf(x.writes, x.txnId) : x \in Range(wal) \cup {r} }
  BY <1>4, <1>5 DEF WalEntries
<1> QED  BY <1>3, <1>6 DEF WalEntries

\* Steps that leave log, memtable, files and flushes alone and change the
\* phase of one transaction, which is in no flush.
LEMMA PhaseFlush ==
  ASSUME Types, FlushInv, up, NEW t \in TxnIds,
         UNCHANGED <<sstVars, memTable, wal, call, versions>>,
         \A u \in TxnIds : u # t => /\ phase'[u] = phase[u]
                                    /\ bufferedWriteMap'[u] = bufferedWriteMap[u],
         phase'[t] # "applying",
         phase[t] = "applying" => call[t] = "none",
         phase'[t] \in InsideCall => phase[t] \in InsideCall
           \/ /\ \A u \in TxnIds : phase[u] \notin InsideCall
              /\ \A f \in Flushers : call[f] = "none"
  PROVE  FlushInv'
<1>1. /\ up' = up /\ flush' = flush /\ disk' = disk /\ written' = written
      /\ call' = call /\ memTable' = memTable /\ wal' = wal /\ versions' = versions
      /\ WalEntries' = WalEntries
  BY DEF sstVars, WalEntries
<1>2. Flushed'
  BY <1>1 DEF FlushInv, Flushed
<1>3. LoggedFirst'
  BY <1>1 DEF FlushInv, LoggedFirst
<1>4. OneCall'
  BY <1>1, PhaseTypes DEF FlushInv, OneCall
<1> QED  BY <1>2, <1>3, <1>4 DEF FlushInv

\* The steps of a transaction.
LEMMA TransactionFlush ==
  ASSUME ~Concurrent, Types, FlushInv, NEW t \in TxnIds,
         \/ Begin(t) \/ Rollback(t) \/ Finish(t)
         \/ \E k \in Keys : releaseLock(t, k)
         \/ \E k \in Keys, v \in Values : Put(t, k, v)
  PROVE  FlushInv'
<1> USE DEF InsideCall
<1>1. CASE Begin(t)
  <2>1. /\ up /\ UNCHANGED <<sstVars, memTable, wal, call, versions, bufferedWriteMap>>
        /\ phase' = [phase EXCEPT ![t] = "open"] /\ t = nextTransactionId
    BY <1>1, NobodyInside DEF Begin, TM!Begin
  <2>2. phase[t] = "none"
    BY <2>1, DBAssumption DEF Types, TP!Inv, TP!IdsInOrder, TP!TypeOK, TP!TxnIds,
                              TxnIds, TM!TxnIds
  <2> QED  BY <2>1, <2>2, PhaseTypes, PhaseFlush
<1>2. CASE Rollback(t)
  <2>1. /\ up /\ UNCHANGED <<sstVars, memTable, wal, call, versions, bufferedWriteMap>>
        /\ phase' = [phase EXCEPT ![t] = "undoing"] /\ phase[t] = "open"
        /\ \A u \in TxnIds : phase[u] \notin InsideCall
        /\ \A f \in Flushers : call[f] = "none"
    BY <1>2, NobodyInside DEF Rollback, TM!Rollback
  <2> QED  BY <2>1, PhaseTypes, PhaseFlush
<1>3. CASE Finish(t)
  <2>1. /\ up /\ UNCHANGED <<sstVars, memTable, wal, call, versions>>
        /\ bufferedWriteMap' = [bufferedWriteMap EXCEPT ![t] = TM!NoWrites]
        /\ phase' = [phase EXCEPT ![t] = IF @ = "releasing" THEN "committed" ELSE "aborted"]
        /\ phase[t] \in {"releasing", "undoing"}
    BY <1>3 DEF Finish, TM!Finish
  <2> QED  BY <2>1, PhaseTypes, PhaseFlush
<1>4. ASSUME NEW k \in Keys, releaseLock(t, k) PROVE FlushInv'
  <2>1. /\ up /\ UNCHANGED <<sstVars, memTable, wal, call, versions, bufferedWriteMap, phase>>
        /\ phase[t] \in {"releasing", "undoing"}
    BY <1>4 DEF releaseLock, TM!releaseLock
  <2> QED  BY <2>1, PhaseFlush
<1>5. ASSUME NEW k \in Keys, NEW v \in Values, Put(t, k, v) PROVE FlushInv'
  <2>1. /\ up /\ UNCHANGED <<sstVars, memTable, wal, call, versions, phase>>
        /\ phase[t] = "open"
        /\ \E m : bufferedWriteMap' = [bufferedWriteMap EXCEPT ![t] = m]
    BY <1>5, NobodyInside DEF Put, TM!Put
  <2> QED  BY <2>1, PhaseTypes, PhaseFlush
<1> QED  BY <1>1, <1>2, <1>3, <1>4, <1>5

\* The log is written first, with nobody else inside a call.
LEMMA CommitWalFlush ==
  ASSUME ~Concurrent, Types, FlushInv, NEW t \in TxnIds, CommitWal(t)
  PROVE  FlushInv'
<1>1. /\ up /\ UNCHANGED <<sstVars, memTable, call, versions, bufferedWriteMap>>
      /\ phase' = [phase EXCEPT ![t] = "applying"]
      /\ wal' = Append(wal, [txnId |-> t, writes |-> bufferedWriteMap[t]])
      /\ \A u \in TxnIds : phase[u] \notin InsideCall
      /\ \A f \in Flushers : call[f] = "none"
  BY NobodyInside DEF CommitWal, TM!CommitWal
<1>2. /\ up' = up /\ flush' = flush /\ disk' = disk /\ written' = written
      /\ call' = call /\ memTable' = memTable /\ versions' = versions
      /\ bufferedWriteMap' = bufferedWriteMap
  BY <1>1 DEF sstVars
<1>3. WalEntries' = WalEntries \cup EntriesOf(bufferedWriteMap[t], t)
  BY <1>1, WalAppend DEF Types
<1>4. phase'[t] = "applying" /\ \A u \in TxnIds : u # t => phase'[u] = phase[u]
  BY <1>1, PhaseTypes
<1>5. Flushed'
  BY <1>2, <1>3 DEF FlushInv, Flushed
<1>6. LoggedFirst'
  BY <1>1, <1>2, <1>3, <1>4 DEF LoggedFirst, InsideCall
<1>7. OneCall'
  BY <1>1, <1>2, <1>4 DEF FlushInv, OneCall
<1> QED  BY <1>5, <1>6, <1>7 DEF FlushInv

\* While Commit fills the memtable nobody flushes.
LEMMA CommitPutFlush ==
  ASSUME Types, TP!StoredFromBuffer, FlushInv, NEW t \in TxnIds, NEW k \in Keys, CommitPut(t, k)
  PROVE  FlushInv'
<1> DEFINE e == [key |-> k, value |-> bufferedWriteMap[t][k], txnId |-> t]
<1>1. /\ phase[t] = "applying" /\ k \in DOMAIN bufferedWriteMap[t]
      /\ e \notin versions /\ versions' = versions \cup {e}
      /\ \A f \in versions : ~(f.key = k /\ f.txnId = t)
      /\ memTable' = { f \in memTable : ~(f.key = k /\ f.txnId = t) } \cup {e}
  BY CommitPutAdds DEF Types
<1>2. /\ up /\ up' = up /\ flush' = flush /\ disk' = disk /\ written' = written
      /\ call' = call /\ phase' = phase /\ bufferedWriteMap' = bufferedWriteMap
      /\ WalEntries' = WalEntries
  BY DEF CommitPut, TM!CommitPut, sstVars, WalEntries
<1>3. e \in EntriesOf(bufferedWriteMap[t], t)
  BY <1>1 DEF EntriesOf
<1> HIDE DEF e
<1>4. \A f \in Flushers : call[f] = "none" /\ flush[f].pc = "idle"
  <2> TAKE f \in Flushers
  <2>1. call[f] = "none"
    BY <1>1, <1>2, <1>3 DEF FlushInv, OneCall, InsideCall
  <2> QED  BY <1>2, <2>1 DEF FlushInv, OneCall
<1>5. e \in WalEntries
  BY <1>1, <1>2, <1>3, <1>4, PhaseTypes DEF FlushInv, LoggedFirst
<1>6. Flushed'
  BY <1>1, <1>2, <1>4, <1>5 DEF FlushInv, Flushed
<1>7. LoggedFirst'
  BY <1>2 DEF FlushInv, LoggedFirst
<1>8. OneCall'
  BY <1>1, <1>2, <1>4 DEF FlushInv, OneCall
<1> QED  BY <1>6, <1>7, <1>8 DEF FlushInv

\* Commit goes on when its flush is over.
LEMMA CommitAppliedFlush ==
  ASSUME Types, FlushInv, NEW t \in TxnIds, CommitApplied(t)
  PROVE  FlushInv'
<1>1. /\ up /\ phase[t] = "applying" /\ phase' = [phase EXCEPT ![t] = "releasing"]
      /\ call[t] \in {"none", "done"} /\ call' = [call EXCEPT ![t] = "none"]
      /\ UNCHANGED <<versions, bufferedWriteMap>>
  BY DEF CommitApplied, TM!CommitApplied
<1>2. /\ up' = up /\ flush' = flush /\ disk' = disk /\ written' = written
      /\ memTable' = memTable /\ WalEntries' = WalEntries
  BY DEF CommitApplied, sstVars, WalEntries
<1>3. /\ phase'[t] = "releasing" /\ call'[t] = "none"
      /\ \A u \in TxnIds : u # t => phase'[u] = phase[u]
      /\ \A f \in Flushers : f # t => call'[f] = call[f]
  BY <1>1, PhaseTypes
<1>4. \A f \in Flushers : f # t => call[f] = "none"
  BY <1>1 DEF FlushInv, OneCall, InsideCall
<1>5. flush[t].pc = "idle"
  BY <1>1, PhaseTypes DEF FlushInv, OneCall
<1>6. Flushed'
  BY <1>1, <1>2, <1>3, <1>4 DEF FlushInv, Flushed
<1>7. LoggedFirst'
  BY <1>1, <1>2, <1>3, PhaseTypes DEF FlushInv, LoggedFirst
<1>8. OneCall'
  BY <1>1, <1>2, <1>3, <1>4, <1>5 DEF FlushInv, OneCall, InsideCall
<1> QED  BY <1>6, <1>7, <1>8 DEF FlushInv

\* The files of flushes that are not installed keep their entries.
LEMMA PendingKept ==
  ASSUME Types, SP!FileInv, [Next]_vars, NEW f \in Flushers, flush[f].pc = "written"
  PROVE  disk'[flush[f].file] = disk[flush[f].file]
<1>1. SP!TypeInv /\ [SP!AnyStep]_(SP!vars)
  BY FilesNext DEF Types
<1> QED  BY <1>1, FilesAssumption, SP!PendingStays

\* The memtable goes into a new file.
LEMMA FlushStartFlush ==
  ASSUME ~Concurrent, Types, SP!FileInv, FlushInv, NEW f \in Flushers, FlushStart(f)
  PROVE  FlushInv'
<1> DEFINE id == manifest.nextFileId
<1>1. /\ up /\ up' = up /\ call[f] = "none" /\ call' = [call EXCEPT ![f] = "flushing"]
      /\ flush' = [flush EXCEPT ![f] = [pc |-> "written", file |-> id]]
      /\ written' = written /\ memTable' = memTable /\ WalEntries' = WalEntries
      /\ phase' = phase /\ bufferedWriteMap' = bufferedWriteMap /\ versions' = versions
  BY DEF FlushStart, SST!FlushWrite, SST!history, tmVars, WalEntries
<1>2. memTable \subseteq disk'[id]
  <2>1. SP!WriteNewFile(memTable, TRUE) /\ SP!TypeInv
    BY FlusherSteps DEF SP!FlushWrite, Types
  <2>2. id \in SP!FileIds /\ DOMAIN disk = SP!FileIds
    BY <2>1 DEF SP!WriteNewFile, SP!TakeFileId, SP!TypeInv, SP!TypeOK
  <2>3. disk' = [disk EXCEPT ![id] = IF SP!Reused THEN @ \cup memTable ELSE memTable]
    BY <2>1 DEF SP!WriteNewFile
  <2>4. disk'[id] = IF SP!Reused THEN disk[id] \cup memTable ELSE memTable
    BY <2>2, <2>3
  <2> QED  BY <2>4
<1>3. \A g \in Flushers : flush[g].pc = "written" =>
        disk'[flush[g].file] = disk[flush[g].file]
  <2>1. [Next]_vars
    BY DEF Next, FlushRuns
  <2> QED  BY <2>1, PendingKept
<1>4. /\ call'[f] = "flushing" /\ flush'[f].pc = "written" /\ flush'[f].file = id
      /\ \A g \in Flushers : g # f => call'[g] = call[g] /\ flush'[g] = flush[g]
  BY <1>1, PhaseTypes
<1>5. \/ f = 0 /\ \A t \in TxnIds : phase[t] \notin InsideCall
      \/ f \in TxnIds /\ phase[f] = "applying"
         /\ EntriesOf(bufferedWriteMap[f], f) \subseteq versions
  <2>1. CASE f = 0
    BY <2>1, NobodyInside DEF FlushStart
  <2>2. CASE f # 0
    BY <2>2, PhaseTypes DEF FlushStart, TM!Applied, TM!EntriesOf, EntriesOf
  <2> QED  BY <2>1, <2>2
<1> HIDE DEF id
<1>6. Flushed'
  BY <1>1, <1>2, <1>3, <1>4 DEF FlushInv, Flushed
<1>7. LoggedFirst'
  BY <1>1, <1>4, PhaseTypes DEF FlushInv, LoggedFirst
<1>8. OneCall'
  BY <1>1, <1>4, <1>5 DEF FlushInv, OneCall
<1> QED  BY <1>6, <1>7, <1>8 DEF FlushInv

\* The file is installed.
LEMMA FlushInstallFlush ==
  ASSUME Types, FlushInv, NEW f \in Flushers, FlushInstall(f)
  PROVE  FlushInv'
<1>1. /\ up /\ up' = up /\ call' = call /\ flush[f].pc = "written"
      /\ flush' = [flush EXCEPT ![f].pc = "checking"]
      /\ written' = written \cup disk[flush[f].file] /\ disk' = disk
      /\ memTable' = memTable /\ WalEntries' = WalEntries
      /\ phase' = phase /\ bufferedWriteMap' = bufferedWriteMap /\ versions' = versions
  BY DEF FlushInstall, SST!FlushInstall, SST!files, tmVars, WalEntries
<1>2. flush'[f].pc = "checking" /\ \A g \in Flushers : g # f => flush'[g] = flush[g]
  BY <1>1, PhaseTypes
<1>3. versions \subseteq written'
  BY <1>1 DEF FlushInv, Flushed
<1>4. Flushed'
  BY <1>1, <1>2, <1>3 DEF FlushInv, Flushed
<1>5. LoggedFirst'
  BY <1>1 DEF FlushInv, LoggedFirst
<1>6. OneCall'
  BY <1>1, <1>2 DEF FlushInv, OneCall
<1> QED  BY <1>4, <1>5, <1>6 DEF FlushInv

\* The steps after it.
LEMMA FlushEndFlush ==
  ASSUME Types, FlushInv, NEW f \in Flushers,
         FlushCheck(f) \/ ClearMemtable(f) \/ ClearWal(f)
  PROVE  FlushInv'
<1>1. /\ up /\ up' = up /\ written' = written /\ disk' = disk
      /\ phase' = phase /\ bufferedWriteMap' = bufferedWriteMap /\ versions' = versions
  BY DEF FlushCheck, SST!FlushCheck, SST!files, ClearMemtable, ClearWal, sstVars, tmVars
<1>2. PICK p \in {"memtable", "wal", "none", "done"} : call' = [call EXCEPT ![f] = p]
  BY DEF FlushCheck, ClearMemtable, ClearWal
<1>3. call'[f] = p /\ \A g \in Flushers : g # f => call'[g] = call[g]
  BY <1>2, PhaseTypes
<1>4. call[f] \in {"flushing", "memtable", "wal"} /\ versions \subseteq written
  <2>1. CASE FlushCheck(f)
    <3>1. flush[f].pc = "checking"
      BY <2>1 DEF FlushCheck, SST!FlushCheck
    <3> QED  BY <1>1, <3>1 DEF FlushInv, OneCall, Flushed
  <2>2. CASE ClearMemtable(f) \/ ClearWal(f)
    BY <1>1, <2>2 DEF ClearMemtable, ClearWal, FlushInv, Flushed
  <2> QED  BY <2>1, <2>2
<1>5. \A g \in Flushers : flush'[g].pc # "idle" => flush'[g] = flush[g] /\ g # f
  <2>1. CASE FlushCheck(f)
    BY <2>1, PhaseTypes DEF FlushCheck, SST!FlushCheck, SST!Idle
  <2>2. CASE ClearMemtable(f) \/ ClearWal(f)
    <3>1. flush' = flush /\ call[f] # "flushing"
      BY <2>2 DEF ClearMemtable, ClearWal, sstVars
    <3> QED  BY <1>1, <3>1 DEF FlushInv, OneCall
  <2> QED  BY <2>1, <2>2
<1>6. \A g \in Flushers : g # f => call[g] = "none"
  BY <1>1, <1>4 DEF FlushInv, OneCall, InsideCall
<1>7. Flushed'
  BY <1>1, <1>4 DEF Flushed, FlushInv
<1>8. LoggedFirst'
  <2>1. CASE WalEntries' = WalEntries
    <3>1. \A t \in TxnIds : call'[t] # "done" /\ phase[t] = "applying" => call[t] # "done"
      BY <1>3, <1>4, PhaseTypes
    <3> QED  BY <1>1, <2>1, <3>1 DEF FlushInv, LoggedFirst
  <2>2. CASE ClearWal(f)
    <3>1. p = IF f = 0 THEN "none" ELSE "done"
      BY <1>2, <1>3, <2>2, PhaseTypes DEF ClearWal
    <3>2. \A t \in TxnIds : phase[t] = "applying" => t = f /\ f # 0
      BY <1>1, <1>4, PhaseTypes DEF FlushInv, OneCall, InsideCall
    <3> QED  BY <1>1, <1>3, <3>1, <3>2 DEF LoggedFirst
  <2>3. CASE FlushCheck(f) \/ ClearMemtable(f)
    <3>1. WalEntries' = WalEntries
      BY <2>3 DEF FlushCheck, ClearMemtable, WalEntries
    <3> QED  BY <2>1, <3>1
  <2> QED  BY <2>2, <2>3
<1>9. OneCall'
  BY <1>1, <1>3, <1>4, <1>5, <1>6 DEF FlushInv, OneCall
<1> QED  BY <1>7, <1>8, <1>9 DEF FlushInv

\* Compactions and the end of the process.
LEMMA BackgroundFlush ==
  ASSUME Types, SP!FileInv, FlushInv,
         \/ \E c \in Compactors : CompactionRuns(c)
         \/ Down \/ UNCHANGED vars
  PROVE  FlushInv'
<1>1. [Next]_vars
  BY DEF Next
<1>2. /\ wal' = wal /\ versions' = versions /\ written' = written
      /\ phase' = phase /\ bufferedWriteMap' = bufferedWriteMap
  <2>1. CASE Down
    BY <2>1 DEF Down, SST!Crash, SST!CrashInSave, SST!CompactPanics, SST!GoDown,
                SST!history, tmVars
  <2>2. CASE UNCHANGED vars
    BY <2>2 DEF vars, tmVars, sstVars
  <2>3. ASSUME NEW c \in Compactors, CompactionRuns(c)
        PROVE  UNCHANGED <<wal, versions, written, phase, bufferedWriteMap>>
    BY <2>3 DEF CompactionRuns, SST!CompactBegin, SST!CompactCopy, SST!CompactBuild,
                SST!CompactBuildPart, SST!CompactBuildFails, SST!CompactCreate,
                SST!CompactSwap, SST!CompactDelete, SST!CompactEnd, SST!history, tmVars
  <2> QED  BY <2>1, <2>2, <2>3
<1>3. WalEntries' = WalEntries
  BY <1>2 DEF WalEntries
<1>4. CASE Down
  <2>1. ~up'
    BY <1>4 DEF Down, SST!Crash, SST!CrashInSave, SST!CompactPanics, SST!GoDown
  <2> QED  BY <1>2, <1>3, <2>1 DEF FlushInv, OneCall, LoggedFirst, Flushed
<1>5. CASE ~Down
  <2>1. up' = up /\ flush' = flush /\ call' = call /\ memTable' = memTable
    <3>1. CASE UNCHANGED vars
      BY <3>1 DEF vars, sstVars
    <3>2. ASSUME NEW c \in Compactors, CompactionRuns(c)
          PROVE  UNCHANGED <<up, flush, call, memTable>>
      BY <3>2 DEF CompactionRuns, SST!CompactBegin, SST!CompactCopy, SST!CompactBuild,
                  SST!CompactBuildPart, SST!CompactBuildFails, SST!CompactCreate, SST!CompactSwap,
                  SST!CompactDelete, SST!CompactEnd
    <3> QED  BY <1>5, <3>1, <3>2
  <2>2. \A g \in Flushers : flush[g].pc = "written" =>
          disk'[flush[g].file] = disk[flush[g].file]
    BY <1>1, PendingKept
  <2>3. Flushed'
    BY <1>2, <1>3, <2>1, <2>2 DEF FlushInv, Flushed
  <2>4. LoggedFirst'
    BY <1>2, <1>3, <2>1 DEF FlushInv, LoggedFirst
  <2>5. OneCall'
    BY <1>2, <2>1 DEF FlushInv, OneCall
  <2> QED  BY <2>3, <2>4, <2>5 DEF FlushInv
<1> QED  BY <1>4, <1>5

\* Every step preserves the account of the flush under way.
LEMMA FlushStep ==
  ASSUME ~NewDB, ~Concurrent, Types, TP!StoredFromBuffer, SP!FileInv, FlushInv,
         [Next]_vars
  PROVE  FlushInv'
BY TransactionFlush, CommitWalFlush, CommitPutFlush, CommitAppliedFlush,
   FlushStartFlush, FlushInstallFlush, FlushEndFlush, BackgroundFlush
DEF Next, TransactionRuns, FlushRuns

\* Only new versions are flushed.
LEMMA FilesSafe ==
  ASSUME Types, Stored, [Next]_vars
  PROVE  [SP!SafeStep]_(SP!vars)
<1>1. ASSUME NEW t \in TxnIds, TransactionRuns(t) PROVE UNCHANGED sstVars
  BY <1>1 DEF TransactionRuns, Begin, CommitWal, Rollback, CommitApplied, Finish,
              CommitPut, releaseLock, Put
<1>2. SP!NewVersions(memTable)
  <2>1. existing \subseteq SP!FileIds
    BY DEF Types, SP!TypeInv, SP!TypeOK
  <2>2. memTable \cup written \cup UNION { disk[i] : i \in existing } \subseteq versions
    BY <2>1 DEF Stored, SP!HeldIn
  <2> QED  BY <2>2 DEF Stored, VersionsUnique, SP!NewVersions
<1>3. ASSUME NEW f \in Flushers, FlushRuns(f) PROVE [SP!SafeStep]_(SP!vars)
  <2>1. CASE FlushStart(f)
    <3>1. SP!FlushWrite(f, memTable) /\ memTable \in SUBSET SP!BoundedEntry
      BY <2>1, FlusherSteps DEF Types, StoreTypes
    <3> QED  BY <1>2, <3>1 DEF SP!SafeStep
  <2>2. CASE FlushInstall(f)
    BY <2>2, FlusherSteps DEF SP!SafeStep
  <2>3. CASE FlushCheck(f)
    <3>1. SP!FlushCheck(f, minActiveTxnId) /\ minActiveTxnId \in Nat
      BY <2>3, FlusherSteps, MinType DEF Types
    <3> QED  BY <3>1 DEF SP!SafeStep
  <2>4. CASE ClearMemtable(f) \/ ClearWal(f)
    BY <2>4, QuietFiles DEF ClearMemtable, ClearWal
  <2> QED  BY <1>3, <2>1, <2>2, <2>3, <2>4 DEF FlushRuns
<1>4. CASE UNCHANGED vars
  BY <1>4, QuietFiles DEF vars
<1>5. CASE Down \/ NewDB
  BY <1>5, RestartSteps DEF SP!SafeStep, SP!CompactStep
<1>6. ASSUME NEW c \in Compactors, CompactionRuns(c) PROVE [SP!SafeStep]_(SP!vars)
  BY <1>6, CompactionSteps DEF SP!SafeStep
<1> QED  BY <1>1, <1>3, <1>4, <1>5, <1>6, QuietFiles DEF Next

\* What the files keep.
LEMMA FilesKept ==
  ASSUME Types, Stored, SP!FileInv, SP!Intact => SP!DropInv, [Next]_vars
  PROVE  SP!FileInv' /\ (SP!Intact' => SP!DropInv')
<1>1. SP!TypeInv /\ SP!ListsAgree /\ [SP!AnyStep]_(SP!vars) /\ [SP!SafeStep]_(SP!vars)
  BY FilesNext, FilesSafe DEF Types
<1>2. SP!FileInv'
  BY <1>1, FilesAssumption, SP!FilesStep
<1>3. ASSUME SP!Intact' PROVE SP!DropInv'
  <2>1. SP!Intact
    BY <1>1, <1>3, FilesAssumption, SP!IntactStays
  <2> QED  BY <1>1, <1>3, <2>1, FilesAssumption, SP!DropStep
<1> QED  BY <1>2, <1>3

\* It holds when the first NewDB has returned.
LEMMA DurableInitially ==
  ASSUME Init
  PROVE  SP!FileInv /\ SP!DropInv /\ FlushInv
<1>1. /\ written = {} /\ existing = {} /\ diskManifest.fileNames = <<>> /\ up
      /\ firstLevelFiles = <<>> /\ versions = {}
      /\ \A c \in Compactors : compaction[c].pc = "idle" /\ compaction[c].files = <<>>
      /\ \A f \in Flushers : flush[f].pc = "idle" /\ call[f] = "none"
      /\ phase = [t \in TM!TxnIds |-> IF t < 2 THEN "committed" ELSE "none"]
  BY DEF Init, TM!Init, SST!Init, SST!EmptyManifest, SST!NoCompaction, SST!Idle
<1>2. SP!Range(<<>>) = {}
  BY DEF SP!Range
<1>3. SP!FileInv
  BY <1>1, <1>2
  DEF SP!FileInv, SP!ListedExist, SP!CopiedBelow, SP!FlushedFresh, SP!CompactedFresh,
      SP!SwappedGone, SP!DownIdle, SP!NamedBelow, SP!ManifestFilesExist
<1>4. SP!DropInv
  BY <1>1, <1>2
  DEF SP!DropInv, SP!NamedWritten, SP!CopiedWritten, SP!OneVersion, SP!MinBelow,
      SP!BuiltComplete, SP!NoneLost, SP!Names
<1>5. FlushInv
  BY <1>1 DEF FlushInv, OneCall, LoggedFirst, Flushed, InsideCall, TxnIds
<1> QED  BY <1>3, <1>4, <1>5

\* The invariant behind NewestIsDurable: the account of the compactions is
\* kept while nothing has damaged the directory or cut manifest.json short.
DurableInv == /\ Types /\ Stored /\ SP!FileInv /\ FlushInv
              /\ SP!Intact => SP!DropInv

\* It holds in every state.
LEMMA DurableInvariant ==
  ASSUME ~Reopen, ~Concurrent
  PROVE  Spec => []DurableInv
<1>1. Init => DurableInv
  BY TypesInitially, StoredInitially, DurableInitially DEF DurableInv
<1>2. DurableInv /\ Types' /\ [Next]_vars => DurableInv'
  BY OneRun, StoredStep, FilesKept, FlushStep DEF DurableInv, Stored
<1> QED  BY <1>1, <1>2, TypesInvariant, PTL DEF Spec

\* What is durable, from the account of the flushes and of the compactions.
LEMMA NewestDurable ==
  ASSUME Types, Stored, SP!Intact => SP!DropInv, FlushInv
  PROVE  DurableHoldsNewest
<1> SUFFICES ASSUME saved = "whole", ~damaged, NEW e \in NewestOf(Logged)
             PROVE  e \in Durable
  BY DEF DurableHoldsNewest
<1>4. SP!DropInv /\ SP!Names = diskManifest.fileNames
  BY DEF SP!Intact, SP!Names, Types, SP!ListsAgree
<1>1. /\ e \in versions /\ \A f \in Logged : f.key = e.key => f.txnId <= e.txnId
  BY DEF NewestOf, Logged
<1>2. CASE e \in WalEntries
  BY <1>2 DEF Durable
<1>3. CASE e \in written
  <2>1. ASSUME NEW f \in written, f.key = e.key, e.txnId < f.txnId PROVE FALSE
    <3>1. f \in versions
      BY <1>1 DEF Stored, SP!HeldIn
    <3>2. f \in Logged
      BY <3>1 DEF Logged, Stored, TP!Owned
    <3>3. f.txnId <= e.txnId
      BY <1>1, <2>1, <3>2
    <3>4. f.txnId \in Nat /\ e.txnId \in Nat
      BY <1>1, <3>1, DBAssumption DEF Types, TP!Inv, TP!TypeOK, TP!TxnIds
    <3> QED  BY <2>1, <3>3, <3>4
  <2>2. \E i \in SP!Range(diskManifest.fileNames) : e \in disk[i]
    BY <1>3, <1>4, <2>1 DEF SP!DropInv, SP!NoneLost, SP!Superseded
  <2> QED  BY <2>2 DEF Durable, SP!Range, Range
<1> QED  BY <1>1, <1>2, <1>3 DEF FlushInv, Flushed

\* With one client, between any two steps of the first run, and after a crash
\* at any of them that was not inside saveManifest, the newest logged version
\* of each key is in the log or in a file of manifest.json, whatever
\* compactions in the background do: the log is truncated only when the flush
\* has installed every version, and a compaction drops a version only for a
\* newer one, which is then the newest.
THEOREM NewestIsDurable ==
  ASSUME ~Reopen, ~Concurrent
  PROVE  Spec => []DurableHoldsNewest
<1>1. DurableInv => DurableHoldsNewest
  BY NewestDurable DEF DurableInv
<1> QED  BY <1>1, DurableInvariant, PTL

\* The first run of the program, or the time between its end and NewDB.
FirstRun == crashes = 0 \/ (crashes = 1 /\ ~up)

\* The invariant behind RecoveryComplete: what holds in a run without a restart
\* holds in the first one, and still when it has ended.
RestartInv ==
  /\ Types /\ SP!FileInv /\ SP!CopiedPrefix
  /\ up \/ crashes # 0
  /\ FirstRun => Stored /\ FlushInv /\ (SP!Intact => SP!DropInv)

\* The process ends only by a crash, and NewDB ends the first run.
LEMMA RunsCounted ==
  ASSUME \A c, d \in Compactors : c = d, RestartInv, [Next]_vars
  PROVE  /\ up' \/ crashes' # 0
         /\ FirstRun' => FirstRun /\ ~NewDB
<1>1. crashes \in Nat
  <2>1. crashes \in 0 .. MaxCrashes
    BY DEF RestartInv, Types, SP!TypeInv, SP!TypeOK
  <2> QED  BY <2>1, DBAssumption
<1>2. CASE Down
  <2>1. \A c \in Compactors : ~SP!CompactPanics(c)
    BY SP!NoPanic, FilesAssumption DEF RestartInv
  <2>2. crashes' = crashes + 1 /\ up
    BY <1>2, <2>1, RestartSteps DEF SP!Crash, SP!CrashInSave, SP!GoDown
  <2> QED  BY <1>1, <1>2, <2>2 DEF FirstRun, Down, NewDB, SST!NewSsTable
<1>3. CASE NewDB
  <2>1. ~up /\ up' /\ crashes' = crashes
    BY <1>3 DEF NewDB, SST!NewSsTable
  <2> QED  BY <2>1 DEF FirstRun, RestartInv
<1>4. CASE ~Down /\ ~NewDB
  <2>1. crashes' = crashes /\ up' = up
    <3>1. ASSUME NEW t \in TxnIds, TransactionRuns(t) PROVE UNCHANGED sstVars
      BY <3>1 DEF TransactionRuns, Begin, CommitWal, Rollback, CommitApplied, Finish,
                  CommitPut, releaseLock, Put
    <3>2. ASSUME NEW f \in Flushers, FlushRuns(f) PROVE crashes' = crashes /\ up' = up
      BY <3>2 DEF FlushRuns, FlushStart, SST!FlushWrite, FlushInstall, SST!FlushInstall,
                  FlushCheck, SST!FlushCheck, ClearMemtable, ClearWal, sstVars
    <3>3. ASSUME NEW c \in Compactors, CompactionRuns(c) PROVE crashes' = crashes /\ up' = up
      BY <3>3 DEF CompactionRuns, SST!CompactBegin, SST!CompactCopy, SST!CompactBuild,
                  SST!CompactBuildPart, SST!CompactBuildFails, SST!CompactCreate, SST!CompactSwap,
                  SST!CompactDelete, SST!CompactEnd
    <3> QED  BY <1>4, <3>1, <3>2, <3>3 DEF Next, vars, sstVars
  <2> QED  BY <1>4, <2>1 DEF FirstRun, RestartInv
<1> QED  BY <1>2, <1>3, <1>4

\* It holds in every state.
LEMMA RestartInvariant ==
  ASSUME ~Concurrent, \A c, d \in Compactors : c = d
  PROVE  Spec => []RestartInv
<1>1. Init => RestartInv
  <2> SUFFICES ASSUME Init PROVE RestartInv
    OBVIOUS
  <2>1. up /\ \A c \in Compactors : compaction[c].pc = "idle"
    BY DEF Init, SST!Init, SST!NoCompaction
  <2>2. SP!CopiedPrefix
    BY <2>1 DEF SP!CopiedPrefix
  <2> QED  BY <2>1, <2>2, TypesInitially, StoredInitially, DurableInitially DEF RestartInv
<1>2. RestartInv /\ [Next]_vars => RestartInv'
  <2> SUFFICES ASSUME RestartInv, [Next]_vars PROVE RestartInv'
    OBVIOUS
  <2>1. Types /\ SP!TypeInv /\ SP!ListsAgree /\ SP!FileInv /\ [SP!AnyStep]_(SP!vars)
    <3>1. Types /\ TP!Inv /\ StoreTypes /\ SP!TypeInv /\ SP!ListsAgree /\ SP!FileInv
      BY DEF RestartInv, Types
    <3>2. [SP!AnyStep]_(SP!vars)
      BY <3>1, FilesNext
    <3> QED  BY <3>1, <3>2
  <2>2. SP!FileInv'
    BY <2>1, FilesAssumption, SP!FilesStep
  <2>3. SP!CopiedPrefix'
    <3>1. SP!OneCompaction
      BY DEF SP!OneCompaction
    <3> QED  BY <2>1, <3>1, FilesAssumption, SP!CopiedStep DEF RestartInv
  <2>4. /\ up' \/ crashes' # 0
        /\ FirstRun' => FirstRun /\ ~NewDB
    BY RunsCounted
  <2>5. ASSUME FirstRun' PROVE Stored' /\ FlushInv' /\ (SP!Intact' => SP!DropInv')
    BY <2>4, <2>5, StoredStep, FilesKept, FlushStep DEF RestartInv, Stored
  <2>6. Types'
    <3>1. TP!Inv' /\ SP!TypeInv' /\ SP!ListsAgree'
      BY <2>1, ManagerInv, FilesInv DEF Types
    <3>2. StoreTypes'
      BY <2>1, StoreInv
    <3> QED  BY <3>1, <3>2 DEF Types
  <2> QED  BY <2>2, <2>3, <2>4, <2>5, <2>6 DEF RestartInv
<1> QED  BY <1>1, <1>2, PTL DEF Spec

\* With one client and one compaction, a NewDB after the first crash, wherever
\* outside saveManifest that came, finds the newest version of each key again,
\* in the log or in a file of manifest.json.  (After a crash inside
\* saveManifest the files are lost, and after later ones it need not be so:
\* NewDB starts the ids anew from the log.)
THEOREM RestartFindsNewest ==
  ASSUME ~Concurrent, \A c, d \in Compactors : c = d
  PROVE  Spec => RecoveryComplete
<1>1. ASSUME RestartInv, NewDB, crashes <= 1, ~damaged'
      PROVE  NewestOf(Logged) \subseteq Held'
  <2>1. ~up /\ disk' = disk /\ firstLevelFiles' = diskManifest.fileNames
        /\ memTable' = WalEntries /\ saved = "whole" /\ ~damaged
    BY <1>1 DEF NewDB, SST!NewSsTable
  <2>2. crashes \in Nat
    BY <1>1, DBAssumption DEF RestartInv, Types, SP!TypeInv, SP!TypeOK
  <2>3. FirstRun
    BY <1>1, <2>1, <2>2 DEF RestartInv, FirstRun
  <2>4. NewestOf(Logged) \subseteq Durable
    BY <1>1, <2>1, <2>3, NewestDurable DEF RestartInv, DurableHoldsNewest
  <2> QED  BY <2>1, <2>4 DEF Durable, Held
<1>2. RestartInv /\ [Next]_vars =>
        [NewDB /\ crashes <= 1 /\ ~damaged' => NewestOf(Logged) \subseteq Held']_vars
  BY <1>1
<1> QED  BY <1>2, RestartInvariant, PTL DEF Spec, RecoveryComplete

-------------------------------------------------------------------------------
(***************************************************************************)
(* One client and one transaction at a time: where the newest version is   *)
(***************************************************************************)

\* Every transaction began when no other was open, and only the last one may
\* still be.
Alone ==
  /\ activeTransactionsMap \subseteq {nextTransactionId - 1}
  /\ \A t \in activeTransactionsMap : snapshot[t] = {t}

\* What is in the memtable is as young as all that is not.
MemtableYoungest ==
  up => \A e \in versions \ memTable, f \in memTable : e.txnId <= f.txnId

\* Between two flushes the memtable holds nothing that was flushed.
Unflushed ==
  up /\ (\A f \in Flushers : flush[f].pc # "checking" /\ call[f] # "memtable")
    => memTable \cap written = {}

YoungInv == Alone /\ MemtableYoungest /\ Unflushed

\* Begin finds no other transaction open.
LEMMA BeginAlone ==
  ASSUME MaxActive = 1, Types, NEW t \in TxnIds, Begin(t)
  PROVE  activeTransactionsMap = {}
<1>1. /\ activeTransactionsMap \in SUBSET (1 .. MaxTxnId) /\ MaxTxnId \in Nat
      /\ Cardinality(activeTransactionsMap) < 1
  BY DBAssumption DEF Begin, Types, TP!Inv, TP!TypeOK, TP!TxnIds
<1>2. IsFiniteSet(activeTransactionsMap)
  <2>1. IsFiniteSet(1 .. MaxTxnId)
    BY <1>1, FS_Interval
  <2> QED  BY <1>1, <2>1, FS_Subset
<1>3. Cardinality(activeTransactionsMap) = 0
  <2>1. Cardinality(activeTransactionsMap) \in Nat
    BY <1>2, FS_CardinalityType
  <2> QED  BY <1>1, <2>1
<1> QED  BY <1>2, <1>3, FS_EmptySet

\* Of the manager's steps, only Begin and Finish concern this.
LEMMA AloneStep ==
  ASSUME ~NewDB, MaxActive = 1, Types, Alone, [Next]_vars
  PROVE  Alone'
<1>1. ASSUME NEW t \in TxnIds, Begin(t) PROVE Alone'
  <2>1. activeTransactionsMap = {}
    BY <1>1, BeginAlone
  <2>2. /\ t = nextTransactionId /\ nextTransactionId' = t + 1
        /\ activeTransactionsMap' = {t} /\ snapshot' = [snapshot EXCEPT ![t] = {t}]
    BY <1>1, <2>1 DEF Begin, TM!Begin
  <2>3. t \in Nat /\ snapshot \in [TxnIds -> SUBSET TxnIds]
    BY DEF Types, TP!Inv, TP!TypeOK, TxnIds, TM!TxnIds, TP!TxnIds
  <2> QED  BY <2>2, <2>3 DEF Alone
<1>2. ASSUME NEW t \in TxnIds, Finish(t) PROVE Alone'
  BY <1>2 DEF Finish, TM!Finish, Alone
<1>3. ASSUME UNCHANGED <<nextTransactionId, activeTransactionsMap, snapshot>>
      PROVE  Alone'
  BY <1>3 DEF Alone
<1>4. ASSUME NEW t \in TxnIds, TransactionRuns(t), ~Begin(t), ~Finish(t)
      PROVE  UNCHANGED <<nextTransactionId, activeTransactionsMap, snapshot>>
  BY <1>4 DEF TransactionRuns, CommitWal, TM!CommitWal, Rollback, TM!Rollback,
              CommitApplied, TM!CommitApplied, releaseLock, TM!releaseLock, Put, TM!Put,
              CommitPut, TM!CommitPut
<1>5. ASSUME UNCHANGED tmVars
      PROVE  UNCHANGED <<nextTransactionId, activeTransactionsMap, snapshot>>
  BY <1>5 DEF tmVars
<1>6. ASSUME NEW f \in Flushers, FlushRuns(f) PROVE UNCHANGED tmVars
  BY <1>6 DEF FlushRuns, FlushStart, FlushInstall, FlushCheck, ClearMemtable, ClearWal
<1>7. ASSUME NEW c \in Compactors, CompactionRuns(c) PROVE UNCHANGED tmVars
  BY <1>7 DEF CompactionRuns
<1>8. CASE Down \/ UNCHANGED vars
  BY <1>3, <1>5, <1>8 DEF Down, vars
<1> QED  BY <1>1, <1>2, <1>3, <1>4, <1>5, <1>6, <1>7, <1>8 DEF Next

\* A version is not younger than a transaction under way.
LEMMA VersionsOlder ==
  ASSUME Types, Stored, Alone, NEW t \in TxnIds, phase[t] \in TP!Active,
         NEW e \in versions
  PROVE  e.txnId \in Nat /\ t \in Nat /\ e.txnId <= t
<1>1. /\ e.txnId \in TxnIds /\ TxnIds \subseteq Nat /\ TP!TxnIds = TxnIds
      /\ nextTransactionId \in Nat
  BY DBAssumption DEF Types, TP!Inv, TP!TypeOK, TxnIds, TM!TxnIds, TP!TxnIds
<1>2. t = nextTransactionId - 1
  <2>1. t \in activeTransactionsMap
    BY <1>1 DEF Types, TP!Inv, TP!ActiveAgrees
  <2> QED  BY <2>1 DEF Alone
<1>3. ~(nextTransactionId <= e.txnId)
  <2>1. phase[e.txnId] # "none"
    BY DEF Stored, TP!Owned
  <2> QED  BY <1>1, <2>1 DEF Types, TP!Inv, TP!IdsInOrder
<1>4. e.txnId \in Nat /\ t \in Nat
  BY <1>1
<1> QED  BY <1>1, <1>2, <1>3, <1>4

\* Commit puts the youngest version of all into the memtable.
LEMMA YoungestStep ==
  ASSUME ~NewDB, Types, Stored, Alone, MemtableYoungest, Unflushed, [Next]_vars
  PROVE  MemtableYoungest' /\ Unflushed'
<1>1. ASSUME NEW t \in TxnIds, NEW k \in Keys, CommitPut(t, k)
      PROVE  MemtableYoungest' /\ Unflushed'
  <2> DEFINE e == [key |-> k, value |-> bufferedWriteMap[t][k], txnId |-> t]
  <2>1. /\ phase[t] = "applying" /\ e \notin versions /\ versions' = versions \cup {e}
        /\ \A f \in versions : ~(f.key = k /\ f.txnId = t)
        /\ memTable' = { f \in memTable : ~(f.key = k /\ f.txnId = t) } \cup {e}
    BY <1>1, CommitPutAdds DEF Types, Stored
  <2>2. /\ up' = up /\ flush' = flush /\ call' = call /\ written' = written
    BY <1>1 DEF CommitPut, sstVars
  <2>3. memTable' = memTable \cup {e}
    BY <2>1 DEF Stored
  <2>4. \A x \in versions : x.txnId <= e.txnId
    BY <2>1, VersionsOlder DEF TP!Active
  <2>5. e \notin written
    BY <2>1 DEF Stored, SP!HeldIn
  <2> HIDE DEF e
  <2>6. Unflushed'
    BY <2>2, <2>3, <2>5 DEF Unflushed
  <2>7. MemtableYoungest'
    BY <2>1, <2>2, <2>3, <2>4 DEF MemtableYoungest
  <2> QED  BY <2>6, <2>7
<1>2. ASSUME UNCHANGED <<up, versions, memTable, written, flush, call>>
      PROVE  MemtableYoungest' /\ Unflushed'
  BY <1>2 DEF MemtableYoungest, Unflushed
<1>3. ASSUME NEW t \in TxnIds, TransactionRuns(t), ~CommitApplied(t),
             \A k \in Keys : ~CommitPut(t, k)
      PROVE  UNCHANGED <<up, versions, memTable, written, flush, call>>
  BY <1>3 DEF TransactionRuns, Begin, TM!Begin, CommitWal, TM!CommitWal, Rollback,
              TM!Rollback, Finish, TM!Finish, releaseLock, TM!releaseLock, Put, TM!Put,
              sstVars
<1>4. ASSUME NEW t \in TxnIds, CommitApplied(t) PROVE MemtableYoungest' /\ Unflushed'
  <2>1. /\ UNCHANGED <<up, versions, memTable, written, flush>>
        /\ call[t] # "memtable" /\ call' = [call EXCEPT ![t] = "none"]
    BY <1>4 DEF CommitApplied, TM!CommitApplied, sstVars
  <2>2. \A f \in Flushers : call'[f] # "memtable" => call[f] # "memtable"
    BY <2>1, PhaseTypes
  <2> QED  BY <2>1, <2>2 DEF MemtableYoungest, Unflushed
<1>5. ASSUME NEW f \in Flushers, FlushRuns(f) PROVE MemtableYoungest' /\ Unflushed'
  <2>1. versions' = versions
    BY <1>5 DEF FlushRuns, FlushStart, FlushInstall, FlushCheck, ClearMemtable, ClearWal,
                tmVars
  <2>2. CASE FlushStart(f)
    <3>1. /\ up' = up /\ memTable' = memTable /\ written' = written
          /\ call' = [call EXCEPT ![f] = "flushing"] /\ call[f] = "none"
          /\ flush[f].pc = "idle"
          /\ \E id : flush' = [flush EXCEPT ![f] = [pc |-> "written", file |-> id]]
      BY <2>2 DEF FlushStart, SST!FlushWrite, SST!history
    <3>2. \A g \in Flushers : /\ call[g] = "memtable" => call'[g] = "memtable"
                              /\ flush[g].pc = "checking" => flush'[g].pc = "checking"
      BY <3>1, PhaseTypes
    <3> QED  BY <2>1, <3>1, <3>2 DEF MemtableYoungest, Unflushed
  <2>3. CASE FlushInstall(f)
    <3>1. up' = up /\ memTable' = memTable /\ flush' = [flush EXCEPT ![f].pc = "checking"]
      BY <2>3 DEF FlushInstall, SST!FlushInstall
    <3>2. flush'[f].pc = "checking"
      BY <3>1, PhaseTypes
    <3> QED  BY <2>1, <3>1, <3>2 DEF MemtableYoungest, Unflushed
  <2>4. CASE FlushCheck(f)
    <3>1. up' = up /\ memTable' = memTable /\ call' = [call EXCEPT ![f] = "memtable"]
      BY <2>4 DEF FlushCheck, SST!FlushCheck
    <3>2. call'[f] = "memtable"
      BY <3>1, PhaseTypes
    <3> QED  BY <2>1, <3>1, <3>2 DEF MemtableYoungest, Unflushed
  <2>5. CASE ClearMemtable(f)
    <3>1. memTable' = {}
      BY <2>5 DEF ClearMemtable
    <3> QED  BY <3>1 DEF MemtableYoungest, Unflushed
  <2>6. CASE ClearWal(f)
    <3>1. /\ UNCHANGED <<up, memTable, written, flush>> /\ call[f] = "wal"
          /\ \E p \in {"none", "done"} : call' = [call EXCEPT ![f] = p]
      BY <2>6 DEF ClearWal, sstVars
    <3>2. \A g \in Flushers : call[g] = "memtable" => call'[g] = "memtable"
      BY <3>1, PhaseTypes
    <3> QED  BY <2>1, <3>1, <3>2 DEF MemtableYoungest, Unflushed
  <2> QED  BY <1>5, <2>2, <2>3, <2>4, <2>5, <2>6 DEF FlushRuns
<1>6. ASSUME NEW c \in Compactors, CompactionRuns(c)
      PROVE  UNCHANGED <<up, versions, memTable, written, flush, call>>
  BY <1>6 DEF CompactionRuns, SST!CompactBegin, SST!CompactCopy, SST!CompactBuild,
              SST!CompactBuildPart, SST!CompactBuildFails, SST!CompactCreate, SST!CompactSwap,
              SST!CompactDelete, SST!CompactEnd, SST!history, tmVars
<1>7. CASE Down
  <2>1. ~up'
    BY <1>7 DEF Down, SST!Crash, SST!CrashInSave, SST!CompactPanics, SST!GoDown
  <2> QED  BY <2>1 DEF MemtableYoungest, Unflushed
<1>8. CASE UNCHANGED vars
  BY <1>2, <1>8 DEF vars, tmVars, sstVars
<1> QED  BY <1>1, <1>2, <1>3, <1>4, <1>5, <1>6, <1>7, <1>8 DEF Next

\* A flush begins, and its file is installed, with no other under way.
LEMMA OneFlush ==
  ASSUME ~Concurrent, Types, FlushInv, NEW f \in Flushers,
         FlushStart(f) \/ FlushInstall(f)
  PROVE  /\ \A g \in Flushers : g # f => flush[g].pc = "idle" /\ call[g] = "none"
         /\ FlushStart(f) => call[f] = "none" /\ flush[f].pc = "idle"
<1>1. CASE f = 0 /\ FlushStart(f)
  BY <1>1, NobodyInside DEF FlushStart, FlushInv, OneCall
<1>2. CASE f # 0 /\ FlushStart(f)
  <2>1. up /\ f \in TxnIds /\ phase[f] = "applying" /\ call[f] = "none"
    BY <1>2, PhaseTypes DEF FlushStart, SST!FlushWrite
  <2> QED  BY <2>1 DEF FlushInv, OneCall, InsideCall
<1>3. CASE FlushInstall(f)
  <2>1. up /\ flush[f].pc = "written"
    BY <1>3 DEF FlushInstall, SST!FlushInstall
  <2>2. call[f] = "flushing"
    BY <2>1 DEF FlushInv, OneCall
  <2>3. \A g \in Flushers : g # f => call[g] = "none"
    BY <2>1, <2>2 DEF FlushInv, OneCall, InsideCall
  <2>4. ~FlushStart(f)
    BY <2>2 DEF FlushStart
  <2> QED  BY <2>1, <2>3, <2>4 DEF FlushInv, OneCall
<1> QED  BY <1>1, <1>2, <1>3

\* Memtables are flushed one at a time, each younger than what was flushed.
LEMMA FilesOrdered ==
  ASSUME ~Concurrent, Types, Stored, SP!NamedWritten, FlushInv, MemtableYoungest,
         Unflushed, [Next]_vars
  PROVE  [SP!OrderedStep]_(SP!vars)
<1>1. ASSUME NEW t \in TxnIds, TransactionRuns(t) PROVE UNCHANGED sstVars
  BY <1>1 DEF TransactionRuns, Begin, CommitWal, Rollback, CommitApplied, Finish,
              CommitPut, releaseLock, Put
<1>2. ASSUME NEW f \in Flushers, FlushRuns(f) PROVE [SP!OrderedStep]_(SP!vars)
  <2>1. CASE FlushStart(f)
    <3>1. SP!FlushWrite(f, memTable) /\ memTable \in SUBSET SP!BoundedEntry /\ up
      BY <2>1, FlusherSteps DEF Types, StoreTypes, FlushStart, SST!FlushWrite
    <3>2. /\ \A g \in Flushers : flush[g].pc = "idle" /\ call[g] = "none"
      BY <2>1, OneFlush
    <3>3. memTable \cap written = {}
      BY <3>1, <3>2 DEF Unflushed
    <3>4. \A i \in SP!Range(firstLevelFiles) : SP!NotYounger(disk[i], memTable)
      <4> SUFFICES ASSUME NEW i \in SP!Range(firstLevelFiles),
                          NEW e \in disk[i], NEW g \in memTable
                   PROVE  e.txnId <= g.txnId
        BY DEF SP!NotYounger
      <4>2. e \in written
        BY <3>1 DEF SP!NamedWritten, SP!Names
      <4>3. e \in versions \ memTable
        BY <3>3, <4>2 DEF Stored, SP!HeldIn
      <4> QED  BY <3>1, <4>3 DEF MemtableYoungest
    <3> QED  BY <3>1, <3>2, <3>4 DEF SP!OrderedStep
  <2>2. CASE FlushInstall(f)
    <3>1. \A g \in Flushers : g # f => flush[g].pc # "written"
      BY <2>2, OneFlush
    <3> QED  BY <2>2, <3>1, FlusherSteps DEF SP!OrderedStep
  <2>3. CASE FlushCheck(f)
    <3>1. SP!FlushCheck(f, minActiveTxnId) /\ minActiveTxnId \in Nat
      BY <2>3, FlusherSteps, MinType DEF Types
    <3> QED  BY <3>1 DEF SP!OrderedStep
  <2>4. CASE ClearMemtable(f) \/ ClearWal(f)
    BY <2>4, QuietFiles DEF ClearMemtable, ClearWal
  <2> QED  BY <1>2, <2>1, <2>2, <2>3, <2>4 DEF FlushRuns
<1>3. CASE UNCHANGED vars
  BY <1>3, QuietFiles DEF vars
<1>4. CASE Down \/ NewDB
  BY <1>4, RestartSteps DEF SP!OrderedStep, SP!CompactStep
<1>5. ASSUME NEW c \in Compactors, CompactionRuns(c) PROVE [SP!OrderedStep]_(SP!vars)
  BY <1>5, CompactionSteps DEF SP!OrderedStep
<1> QED  BY <1>1, <1>2, <1>3, <1>4, <1>5, QuietFiles DEF Next

\* The conditions of a program that runs one transaction at a time over one
\* compaction at a time.
OneByOne == /\ ~Reopen /\ ~Concurrent /\ MaxActive = 1
            /\ \A c, d \in Compactors : c = d

\* In one run no id is used twice, and every file can be read.
Fresh == /\ ~damaged /\ garbled = {}
         /\ up => \A i \in existing : i < manifest.nextFileId

\* A new file has an id that no file has.
LEMMA NewFileFresh ==
  ASSUME SP!TypeInv, Fresh, up, up' = up, NEW S, SP!WriteNewFile(S, TRUE),
         damaged' = (damaged \/ SP!Reused)
  PROVE  Fresh'
<1> DEFINE id == manifest.nextFileId
<1>1. id \in Nat /\ manifest' = [manifest EXCEPT !.nextFileId = @ + 1]
      /\ existing' = existing \cup {id} /\ existing \subseteq Nat
  BY DBAssumption DEF SP!WriteNewFile, SP!TakeFileId, SP!TypeInv, SP!TypeOK, SP!FileIds
<1>2. ~SP!Reused
  <2>1. id \notin existing
    BY <1>1 DEF Fresh
  <2> QED  BY <2>1 DEF SP!Reused
<1>3. garbled' = {}
  BY <1>2 DEF Fresh, SP!WriteNewFile
<1>4. ~damaged'
  BY <1>2 DEF Fresh
<1>5. manifest'.nextFileId = id + 1
  <2>1. manifest \in [nextFileId : 0 .. MaxFileId + 1, fileNames : SP!FileLists]
    BY DEF SP!TypeInv, SP!TypeOK
  <2> QED  BY <1>1, <2>1
<1>6. \A i \in existing' : i < manifest'.nextFileId
  BY <1>1, <1>5 DEF Fresh
<1> QED  BY <1>3, <1>4, <1>6 DEF Fresh

\* What happens between the start and the end of the run keeps this.
LEMMA FreshStep ==
  ASSUME ~NewDB, Types, Fresh, [Next]_vars
  PROVE  Fresh'
<1>1. ASSUME UNCHANGED <<existing, garbled, damaged, up>>,
             manifest'.nextFileId = manifest.nextFileId
      PROVE  Fresh'
  BY <1>1 DEF Fresh
<1>2. ASSUME UNCHANGED sstVars PROVE Fresh'
  BY <1>1, <1>2 DEF sstVars
<1>3. ASSUME NEW t \in TxnIds, TransactionRuns(t) PROVE UNCHANGED sstVars
  BY <1>3 DEF TransactionRuns, Begin, CommitWal, Rollback, CommitApplied, Finish,
              CommitPut, releaseLock, Put
<1>4. manifest \in [nextFileId : 0 .. MaxFileId + 1, fileNames : SP!FileLists]
  BY DEF Types, SP!TypeInv, SP!TypeOK
<1>5. ASSUME NEW f \in Flushers, FlushRuns(f) PROVE Fresh'
  <2>1. CASE FlushStart(f)
    <3>1. /\ SP!WriteNewFile(memTable, TRUE) /\ up /\ up' = up
          /\ damaged' = (damaged \/ SP!Reused)
      BY <2>1, FlusherSteps DEF SP!FlushWrite
    <3> QED  BY <3>1, NewFileFresh DEF Types
  <2>2. CASE FlushInstall(f)
    <3>1. /\ UNCHANGED <<existing, garbled, damaged, up>>
          /\ manifest' = [manifest EXCEPT !.fileNames = Append(@, flush[f].file)]
      BY <2>2 DEF FlushInstall, SST!FlushInstall, SST!files
    <3> QED  BY <1>1, <1>4, <3>1
  <2>3. CASE FlushCheck(f)
    BY <1>1, <2>3 DEF FlushCheck, SST!FlushCheck, SST!files
  <2>4. CASE ClearMemtable(f) \/ ClearWal(f)
    BY <1>2, <2>4 DEF ClearMemtable, ClearWal
  <2> QED  BY <1>5, <2>1, <2>2, <2>3, <2>4 DEF FlushRuns
<1>6. ASSUME NEW c \in Compactors, CompactionRuns(c) PROVE Fresh'
  <2>1. CASE SST!CompactCreate(c)
    <3>1. SP!CompactCreate(c)
      BY <2>1 DEF SST!CompactCreate, SP!CompactCreate, SST!WriteNewFile, SP!WriteNewFile,
         SST!TakeFileId, SP!TakeFileId, SST!FileIds, SP!FileIds, SST!Reused, SP!Reused,
         SST!lists, SP!lists, SST!history, SP!history, SST!manifestFile, SP!manifestFile
    <3>2. /\ SP!WriteNewFile(compaction[c].entries, TRUE) /\ up /\ up' = up
          /\ damaged' = (damaged \/ SP!Reused)
      BY <3>1 DEF SP!CompactCreate
    <3> QED  BY <3>2, NewFileFresh DEF Types
  <2>2. CASE SST!CompactSwap(c)
    <3>1. /\ UNCHANGED <<existing, garbled, damaged, up>>
          /\ \E fs : manifest' = [manifest EXCEPT !.fileNames = fs]
      BY <2>2 DEF SST!CompactSwap, SST!files
    <3> QED  BY <1>1, <1>4, <3>1
  <2>3. CASE SST!CompactDelete(c)
    <3>1. /\ existing' \subseteq existing /\ garbled' \subseteq garbled
          /\ damaged' = damaged /\ manifest' = manifest /\ up' = up
      BY <2>3 DEF SST!CompactDelete
    <3> QED  BY <3>1 DEF Fresh
  <2>4. CASE SST!CompactBuildPart(c)
    BY <2>4 DEF SST!CompactBuildPart, SST!Unreadable, Fresh
  <2>5. CASE \/ SST!CompactBegin(c) \/ SST!CompactCopy(c) \/ SST!CompactBuild(c)
             \/ SST!CompactBuildFails(c) \/ SST!CompactEnd(c)
    <3>1. UNCHANGED <<manifest, existing, garbled, damaged, up>>
      BY <2>5 DEF SST!CompactBegin, SST!CompactCopy, SST!CompactBuild,
                  SST!CompactBuildFails, SST!CompactEnd, SST!files
    <3> QED  BY <1>1, <3>1
  <2> QED  BY <1>6, <2>1, <2>2, <2>3, <2>4, <2>5 DEF CompactionRuns
<1>7. CASE Down
  <2>1. ~up' /\ UNCHANGED <<garbled, damaged>>
    BY <1>7 DEF Down, SST!Crash, SST!CrashInSave, SST!CompactPanics, SST!GoDown, SST!files
  <2> QED  BY <2>1 DEF Fresh
<1>8. CASE UNCHANGED vars
  BY <1>2, <1>8 DEF vars
<1> QED  BY <1>2, <1>3, <1>5, <1>6, <1>7, <1>8 DEF Next

\* The invariant behind StorageTransparent.
ReadInv == /\ Types /\ Stored /\ SP!FileInv /\ FlushInv /\ YoungInv /\ Fresh
           /\ SP!Intact => SP!DropInv /\ SP!OrderInv

\* It holds in every state.
LEMMA ReadInvariant ==
  ASSUME OneByOne
  PROVE  Spec => []ReadInv
<1>1. Init => YoungInv /\ Fresh /\ SP!OrderInv
  <2> SUFFICES ASSUME Init PROVE YoungInv /\ Fresh /\ SP!OrderInv
    OBVIOUS
  <2>1. /\ diskManifest.fileNames = <<>> /\ firstLevelFiles = <<>>
        /\ memTable = {} /\ activeTransactionsMap = {}
        /\ \A c \in Compactors : compaction[c].pc = "idle" /\ compaction[c].files = <<>>
        /\ \A f \in Flushers : flush[f].pc = "idle"
    BY DEF Init, TM!Init, SST!Init, SST!EmptyManifest, SST!NoCompaction, SST!Idle
  <2>2. SP!OrderInv
    BY <2>1 DEF SP!OrderInv, SP!ListInOrder, SP!NamesInOrder, SP!PendingYoungest,
                SP!CopiedPrefix, SP!BuiltFromCopied
  <2>3. YoungInv
    BY <2>1 DEF YoungInv, Alone, MemtableYoungest, Unflushed
  <2>4. Fresh
    BY DEF Init, SST!Init, Fresh
  <2> QED  BY <2>2, <2>3, <2>4
<1>2. ReadInv /\ [Next]_vars => YoungInv' /\ Fresh' /\ (SP!Intact' => SP!OrderInv')
  <2> SUFFICES ASSUME ReadInv, [Next]_vars
               PROVE  YoungInv' /\ Fresh' /\ (SP!Intact' => SP!OrderInv')
    OBVIOUS
  <2>1. YoungInv'
    BY OneRun, AloneStep, YoungestStep DEF ReadInv, YoungInv, OneByOne
  <2>2. Fresh'
    BY OneRun, FreshStep DEF ReadInv, OneByOne
  <2>3. ASSUME SP!Intact' PROVE SP!OrderInv'
    <3>1. SP!Intact
      <4>1. SP!TypeInv /\ [SP!AnyStep]_(SP!vars)
        BY FilesNext DEF ReadInv, Types
      <4> QED  BY <2>3, <4>1, FilesAssumption, SP!IntactStays
    <3>2. SP!DropInv /\ SP!OrderInv
      BY <3>1 DEF ReadInv
    <3>3. [SP!OrderedStep]_(SP!vars)
      BY <3>2, FilesOrdered DEF ReadInv, YoungInv, OneByOne, SP!DropInv
    <3>4. SP!OneCompaction
      BY DEF OneByOne, SP!OneCompaction
    <3>5. ~damaged'
      BY <2>3 DEF SP!Intact
    <3> QED  BY <3>2, <3>3, <3>4, <3>5, FilesAssumption, SP!OrderStep DEF ReadInv, Types
  <2> QED  BY <2>1, <2>2, <2>3
<1>3. ~Reopen /\ ~Concurrent
  BY DEF OneByOne
<1>4. Init => ReadInv
  BY <1>1, TypesInitially, StoredInitially, DurableInitially DEF ReadInv
<1>5. ReadInv /\ DurableInv' /\ [Next]_vars => ReadInv'
  BY <1>2 DEF ReadInv, DurableInv
<1> QED  BY <1>3, <1>4, <1>5, DurableInvariant, PTL DEF Spec

\* The readers of the table layer are the ones of this module.
LEMMA SameReaders ==
  ASSUME NEW k, NEW t, NEW A
  PROVE  SST!SsTableGet(k, t, A) = SP!SsTableGet(k, t, A)
<1>1. \A S : SST!BlockStarts(S) = SP!BlockStarts(S)
  BY Zenon DEF SST!BlockStarts, SP!BlockStarts, SST!Rank, SP!Rank, SST!Before, SP!Before,
               SST!Cardinality, SP!Cardinality
<1>2. \A S : SST!LowerBound(S, k) = SP!LowerBound(S, k)
  BY <1>1, Zenon DEF SST!LowerBound, SP!LowerBound, SST!Before, SP!Before
<1>3. \A S : SST!FileGet(S, k, t, A) = SP!FileGet(S, k, t, A)
  <2>1. \A V : SST!Newest(V) = SP!Newest(V)
    BY Zenon DEF SST!Newest, SP!Newest
  <2>2. \A V : SST!VisibleEntries(V, k, t, A) = SP!VisibleEntries(V, k, t, A)
    BY Zenon DEF SST!VisibleEntries, SP!VisibleEntries, SST!CanSee, SP!CanSee
  <2>3. \A e, b : SST!Before(e, b) = SP!Before(e, b)
    BY Zenon DEF SST!Before, SP!Before
  <2> TAKE S
  <2>4. { e \in S : \E b \in SST!LowerBound(S, k) : ~SST!Before(e, b) }
          = { e \in S : \E b \in SP!LowerBound(S, k) : ~SP!Before(e, b) }
    BY <1>2, <2>3
  <2> QED  BY <2>1, <2>2, <2>4, Zenon DEF SST!FileGet, SP!FileGet
<1> QED  BY <1>3, Zenon DEF SST!SsTableGet, SP!SsTableGet, SST!Max, SP!Max

\* With every version visible to t, the manager's Get returns the newest one.
LEMMA OpenSeesAll ==
  ASSUME Types, Stored, Alone, NEW t \in TxnIds, NEW k, phase[t] = "open",
         k \notin DOMAIN bufferedWriteMap[t]
  PROVE  /\ \A e \in versions : CanSee(e.txnId, t, snapshot[t])
         /\ TM!Get(t, k) = SP!Newest({ e \in versions : e.key = k })
<1>1. snapshot[t] = {t}
  <2>1. t \in TP!TxnIds
    BY DEF TxnIds, TM!TxnIds, TP!TxnIds
  <2>2. t \in activeTransactionsMap
    BY <2>1 DEF Types, TP!Inv, TP!ActiveAgrees, TP!Active
  <2> QED  BY <2>2 DEF Alone
<1>2. ASSUME NEW e \in versions PROVE CanSee(e.txnId, t, snapshot[t])
  <2>1. e.txnId \in Nat /\ t \in Nat /\ e.txnId <= t
    BY VersionsOlder DEF TP!Active
  <2>2. e.txnId # t
    BY DEF Stored, TP!Owned
  <2> QED  BY <1>1, <2>1, <2>2 DEF CanSee
<1>3. TM!VisibleEntries(versions, k, t, snapshot[t]) = { e \in versions : e.key = k }
  BY <1>2 DEF TM!VisibleEntries, TM!CanSee, CanSee
<1> QED  BY <1>2, <1>3 DEF TM!Get, TM!MemtableGet, TM!Newest, SP!Newest

\* When the memtable has the key, it has the newest version.
LEMMA NewestInMemtable ==
  ASSUME Types, Stored, MemtableYoungest, up, NEW k,
         NEW e \in SP!Newest({ x \in versions : x.key = k }),
         NEW f \in memTable, f.key = k
  PROVE  e \in memTable
<1>1. /\ e \in versions /\ e.key = k /\ f \in versions
      /\ \A x \in versions : x.key = k => x.txnId <= e.txnId
  BY DEF SP!Newest, Stored
<1>2. e.txnId \in Nat /\ f.txnId \in Nat
  BY <1>1, DBAssumption DEF Types, TP!Inv, TP!TypeOK, TP!TxnIds
<1>3. ASSUME e \notin memTable PROVE FALSE
  <2>1. e.txnId <= f.txnId /\ f.txnId <= e.txnId
    BY <1>1, <1>3 DEF MemtableYoungest
  <2>2. e.txnId = f.txnId
    BY <1>2, <2>1
  <2> QED  BY <1>1, <1>3, <2>2 DEF Stored, VersionsUnique
<1> QED  BY <1>3

\* When it has not, the newest version is in a file of the list.
LEMMA NewestInFile ==
  ASSUME Types, Stored, SP!DropInv, Flushed, up, NEW k,
         \A f \in memTable : f.key # k,
         NEW e \in SP!Newest({ x \in versions : x.key = k })
  PROVE  \E i \in SP!Range(firstLevelFiles) : e \in disk[i]
<1>1. /\ e \in versions /\ e.key = k
      /\ \A x \in versions : x.key = k => x.txnId <= e.txnId
  BY DEF SP!Newest
<1>2. e \in written
  BY <1>1 DEF Flushed
<1>3. ASSUME NEW f \in written, f.key = e.key, e.txnId < f.txnId PROVE FALSE
  <2>1. f \in versions
    BY DEF Stored, SP!HeldIn
  <2>2. f.txnId \in Nat /\ e.txnId \in Nat
    BY <1>1, <2>1, DBAssumption DEF Types, TP!Inv, TP!TypeOK, TP!TxnIds
  <2> QED  BY <1>1, <1>3, <2>1, <2>2
<1>4. \E i \in SP!Range(SP!Names) : e \in disk[i]
  BY <1>2, <1>3 DEF SP!DropInv, SP!NoneLost, SP!Superseded
<1> QED  BY <1>4 DEF SP!Names

\* With one transaction open at a time and no empty values, the storage is
\* transparent for any threshold, block length, memtable size and any number
\* of keys and flushes: the memtable has the newest version or nothing of a
\* key, the flushes keep the files in order, compactions drop no newest
\* version, and the block index never skips one.
THEOREM StorageIsTransparent ==
  ASSUME OneByOne, EmptyValue \notin Values
  PROVE  Spec => []StorageTransparent
<1>1. ASSUME ReadInv PROVE StorageTransparent
  <2> USE <1>1 DEF ReadInv, YoungInv
  <2> SUFFICES ASSUME up, NEW t \in TxnIds, NEW k \in Keys, phase[t] = "open",
                      k \notin DOMAIN bufferedWriteMap[t]
               PROVE  getWithSnapshot(k, t, snapshot[t]) = TM!Get(t, k)
    BY DEF StorageTransparent
  <2>7. SP!DropInv /\ SP!OrderInv
    BY DEF Fresh, SP!Intact
  <2> DEFINE V == { e \in versions : e.key = k }
             M == { e \in memTable : e.key = k }
             F == { e \in SP!Listed : e.key = k }
  <2>1. /\ \A e \in versions : CanSee(e.txnId, t, snapshot[t])
        /\ TM!Get(t, k) = SP!Newest(V)
    BY OpenSeesAll
  <2>2. V \in SUBSET SP!BoundedEntry
    <3>1. \A e \in versions : e \in [key : Keys, value : Values, txnId : 1 .. MaxTxnId]
      BY DEF Types, TP!Inv, TP!TypeOK, TP!TxnIds
    <3>2. versions \subseteq SP!BoundedEntry
      BY <3>1, DBAssumption DEF SP!BoundedEntry, SP!Entry
    <3> QED  BY <3>2
  <2>3. MemtableGet(memTable, k, t, snapshot[t]) = SP!Newest(M)
    <3>1. VisibleEntries(memTable, k, t, snapshot[t]) = M
      BY <2>1 DEF VisibleEntries, Stored
    <3> QED  BY <3>1 DEF MemtableGet, Newest, SP!Newest
  <2>4. CASE M # {}
    <3>1. M \in SUBSET V /\ SP!Newest(V) \subseteq M
      <4>1. M \in SUBSET V
        BY DEF Stored
      <4>2. ASSUME NEW e \in SP!Newest(V) PROVE e \in M
        <5>1. e \in memTable
          BY <2>4, NewestInMemtable
        <5>2. e.key = k
          BY DEF SP!Newest
        <5> QED  BY <5>1, <5>2
      <4> QED  BY <4>1, <4>2
    <3> HIDE DEF M, V
    <3>2. SP!Newest(M) = SP!Newest(V)
      BY <2>2, <3>1, FilesAssumption, SP!NewestWithin
    <3>3. SP!Newest(M) # {}
      BY <2>2, <2>4, <3>1, FilesAssumption, SP!NewestExists
    <3> QED  BY <2>1, <2>3, <3>2, <3>3 DEF getWithSnapshot
  <2>5. CASE M = {}
    <3>1. SP!Listed \subseteq versions
      <4>1. \A i \in SP!Range(firstLevelFiles) : i \in SP!FileIds
        BY FilesAssumption, SP!ReferencedIds DEF Types, SP!Range
      <4> QED  BY <4>1 DEF SP!Listed, Stored, SP!HeldIn
    <3>2. SP!SsTableGet(k, t, snapshot[t]) = SP!Newest(F)
      <4>1. \A i, j \in DOMAIN firstLevelFiles :
              i < j => SP!NotYounger(disk[firstLevelFiles[i]], disk[firstLevelFiles[j]])
        BY <2>7 DEF SP!OrderInv, SP!ListInOrder
      <4>2. \A e \in SP!Listed : e.key = k => SP!CanSee(e.txnId, t, snapshot[t])
        BY <2>1, <3>1 DEF CanSee, SP!CanSee
      <4>3. \A e, f \in SP!Listed : e.key = f.key /\ e.txnId = f.txnId => e = f
        BY <3>1 DEF Stored, VersionsUnique
      <4>4. SP!TypeInv
        BY DEF Types
      <4> QED  BY <4>1, <4>2, <4>3, <4>4, FilesAssumption, SP!FilesGetNewest
    <3>3. F \in SUBSET V /\ SP!Newest(V) \subseteq F
      <4>1. F \in SUBSET V
        BY <3>1
      <4>2. ASSUME NEW e \in SP!Newest(V) PROVE e \in F
        <5>1. \E i \in SP!Range(firstLevelFiles) : e \in disk[i]
          BY <2>5, <2>7, NewestInFile DEF FlushInv
        <5>2. e.key = k
          BY DEF SP!Newest
        <5> QED  BY <5>1, <5>2 DEF SP!Listed
      <4> QED  BY <4>1, <4>2
    <3>4. SP!Newest(M) = {}
      BY <2>5 DEF SP!Newest
    <3> HIDE DEF F, V
    <3>5. SP!Newest(F) = SP!Newest(V)
      BY <2>2, <3>3, FilesAssumption, SP!NewestWithin
    <3> QED  BY <2>1, <2>3, <3>2, <3>4, <3>5, SameReaders DEF getWithSnapshot
  <2> QED  BY <2>4, <2>5
<1> QED  BY <1>1, ReadInvariant, PTL

-------------------------------------------------------------------------------
(***************************************************************************)
(* One client, any number of restarts: where the version committed last is *)
(***************************************************************************)

\* What the store says of calls and flushes, in every run of the program.
CallInv ==
  /\ TP!Owned /\ TP!StoredFromBuffer /\ FlushInv
  /\ ~up => \A f \in Flushers : call[f] = "none"

\* NewDB starts with nothing stored, no call under way, and the catalog's
\* transaction, which writes nothing.
LEMMA NewDBCalls ==
  ASSUME Types, SP!FileInv, CallInv, NewDB
  PROVE  CallInv'
<1> DEFINE t == maxTxnId + 1
<1>1. /\ ~up /\ up' /\ call' = call /\ flush' = flush /\ versions' = {}
      /\ phase' = [u \in TxnIds |-> IF u < t THEN "committed"
                                    ELSE IF u = t THEN "applying" ELSE "none"]
      /\ bufferedWriteMap' = [u \in TxnIds |-> TM!NoWrites]
  BY DEF NewDB, SST!NewSsTable
<1>2. \A f \in Flushers : call[f] = "none" /\ flush[f].pc = "idle"
  BY <1>1 DEF CallInv, SP!FileInv, SP!DownIdle
<1> HIDE DEF t
<1>3. \A u \in TxnIds : EntriesOf(bufferedWriteMap'[u], u) = {}
  <2>1. DOMAIN TM!NoWrites = {}
    BY DEF TM!NoWrites
  <2> QED  BY <1>1, <2>1 DEF EntriesOf
<1>4. \A u \in TxnIds : phase'[u] = "applying" => u = t
  BY <1>1
<1>5. \A u \in TxnIds : phase'[u] \in {"committed", "applying", "none"}
  BY <1>1
<1>6. TP!TxnIds = TxnIds
  BY DEF TP!TxnIds, TxnIds, TM!TxnIds
<1>7. TP!Owned' /\ TP!StoredFromBuffer'
  <2>1. TP!Owned'
    BY <1>1 DEF TP!Owned
  <2>2. TP!StoredFromBuffer'
    BY <1>1, <1>5, <1>6 DEF TP!StoredFromBuffer
  <2> QED  BY <2>1, <2>2
<1>8. OneCall'
  BY <1>1, <1>2, <1>4, <1>5 DEF OneCall, InsideCall
<1>9. LoggedFirst'
  BY <1>3 DEF LoggedFirst
<1>10. Flushed'
  BY <1>1 DEF Flushed
<1> QED  BY <1>1, <1>7, <1>8, <1>9, <1>10 DEF CallInv, FlushInv

\* No call is under way when the process is down.
LEMMA DownQuiet ==
  ASSUME ~NewDB, CallInv, [Next]_vars
  PROVE  ~up' => \A f \in Flushers : call'[f] = "none"
<1>1. CASE Down
  BY <1>1 DEF Down
<1>2. CASE ~Down /\ up
  <2>1. up' = up
    <3>1. ASSUME NEW t \in TxnIds, TransactionRuns(t) PROVE UNCHANGED sstVars
      BY <3>1 DEF TransactionRuns, Begin, CommitWal, Rollback, CommitApplied, Finish,
                  CommitPut, releaseLock, Put
    <3>2. ASSUME NEW f \in Flushers, FlushRuns(f) PROVE up' = up
      BY <3>2 DEF FlushRuns, FlushStart, SST!FlushWrite, FlushInstall, SST!FlushInstall,
                  FlushCheck, SST!FlushCheck, ClearMemtable, ClearWal, sstVars
    <3>3. ASSUME NEW c \in Compactors, CompactionRuns(c) PROVE up' = up
      BY <3>3 DEF CompactionRuns, SST!CompactBegin, SST!CompactCopy, SST!CompactBuild,
                  SST!CompactBuildPart, SST!CompactBuildFails, SST!CompactCreate, SST!CompactSwap,
                  SST!CompactDelete, SST!CompactEnd
    <3> QED  BY <1>2, <3>1, <3>2, <3>3 DEF Next, vars, sstVars
  <2> QED  BY <1>2, <2>1
<1>3. CASE ~Down /\ ~up
  <2>1. UNCHANGED vars
    BY <1>3 DEF Next, TransactionRuns, FlushRuns, CompactionRuns, Begin, CommitWal, Rollback,
       CommitApplied, Finish, CommitPut, releaseLock, Put, MayCall, FlushStart, FlushInstall,
       FlushCheck, ClearMemtable, ClearWal, SST!FlushWrite, SST!FlushInstall, SST!FlushCheck,
       SST!CompactBegin, SST!CompactCopy, SST!CompactBuild, SST!CompactBuildPart,
       SST!CompactBuildFails, SST!CompactCreate, SST!CompactSwap, SST!CompactDelete, SST!CompactEnd
  <2> QED  BY <1>3, <2>1 DEF vars, CallInv
<1> QED  BY <1>1, <1>2, <1>3

\* All of it is kept, by NewDB too.
LEMMA CallStep ==
  ASSUME ~Concurrent, Types, SP!FileInv, CallInv, [Next]_vars
  PROVE  CallInv'
<1>1. CASE NewDB
  BY <1>1, NewDBCalls
<1>2. CASE ~NewDB
  <2>1. TP!Owned' /\ TP!StoredFromBuffer'
    BY <1>2, ManagerStored DEF Types, CallInv
  <2>2. FlushInv'
    BY <1>2, FlushStep DEF CallInv
  <2>3. ~up' => \A f \in Flushers : call'[f] = "none"
    BY <1>2, DownQuiet
  <2> QED  BY <2>1, <2>2, <2>3 DEF CallInv
<1> QED  BY <1>1, <1>2

\* The versions that were committed last, and the entries of their keys.
Lasts == UNION { lastCommitted[k] : k \in Keys }
Known == { e \in SP!BoundedEntry : lastCommitted[e.key] # {} }

\* The files of the list, or those that manifest.json names while the process
\* is down, show this version.
Found(e) == SP!Shows(disk, SP!Names, e)

\* A Commit has logged this version and not yet put it into the memtable.
Pending(e) ==
  \E t \in TxnIds : /\ phase[t] = "applying" /\ e \notin versions
                    /\ e \in EntriesOf(bufferedWriteMap[t], t)

OneLast ==
  \A k \in Keys : /\ lastCommitted[k] \subseteq { e \in SP!BoundedEntry : e.key = k }
                  /\ \A e, f \in lastCommitted[k] : e = f

\* Nothing is held of a key before it is committed.
KnownOnly == memTable \cup WalEntries \subseteq Known /\ SP!HeldIn(Known)

\* What has the key has the version committed last, too.
LogHasLast == \A e \in Lasts : SP!HasKey(WalEntries, e) => e \in WalEntries
MemtableHasLast ==
  up => \A e \in Lasts : SP!HasKey(memTable, e) => e \in memTable \/ Pending(e)
AppliesLast ==
  up => \A t \in TxnIds :
          phase[t] = "applying" => EntriesOf(bufferedWriteMap[t], t) \subseteq Lasts

\* Where it is.
LastKept ==
  /\ \A e \in Lasts : e \in WalEntries \/ Found(e)
  /\ up => \A e \in Lasts : e \in memTable \/ Pending(e) \/ Found(e)

\* A flush under way has the memtable in its file, and when it has installed
\* that, the files show everything.
FlushHolds ==
  \A f \in Flushers :
    /\ flush[f].pc = "written" => disk[flush[f].file] = memTable
    /\ flush[f].pc = "checking" \/ call[f] \in {"memtable", "wal"} =>
         \A e \in Lasts : Found(e)

LastInv == /\ OneLast /\ KnownOnly /\ LogHasLast /\ MemtableHasLast /\ AppliesLast
           /\ LastKept /\ FlushHolds

\* Of a key there is at most one version that was committed last.
LEMMA LastOfKey ==
  ASSUME OneLast
  PROVE  \A e \in Lasts : /\ e \in SP!BoundedEntry /\ e.key \in Keys
                          /\ lastCommitted[e.key] = {e}
<1> TAKE e \in Lasts
<1>1. PICK k \in Keys : e \in lastCommitted[k]
  BY DEF Lasts
<1>2. e \in SP!BoundedEntry /\ e.key = k
  BY <1>1 DEF OneLast
<1>3. lastCommitted[k] = {e}
  BY <1>1 DEF OneLast
<1> QED  BY <1>2, <1>3

\* Nothing is pending while somebody flushes.
LEMMA NonePending ==
  ASSUME Types, SP!FileInv, CallInv, NEW f \in Flushers, flush[f].pc # "idle" \/ call[f] # "none"
  PROVE  up /\ call[f] # "none" /\ \A e : ~Pending(e)
<1>1. up
  BY DEF CallInv, SP!FileInv, SP!DownIdle
<1>2. call[f] # "none"
  BY <1>1 DEF CallInv, FlushInv, OneCall
<1>3. \/ f = 0 /\ \A t \in TxnIds : phase[t] \notin InsideCall
      \/ f \in TxnIds /\ phase[f] = "applying"
         /\ EntriesOf(bufferedWriteMap[f], f) \subseteq versions
  BY <1>1, <1>2 DEF CallInv, FlushInv, OneCall
<1>4. \A t \in TxnIds : phase[t] = "applying" => t = f
  BY <1>1, <1>3 DEF CallInv, FlushInv, OneCall, InsideCall
<1> QED  BY <1>1, <1>2, <1>3, <1>4 DEF Pending, InsideCall

\* The files keep showing the versions committed last: what a flush adds has
\* either nothing of the key or that version.
LEMMA FoundKept ==
  ASSUME SP!Intact', Types, SP!FileInv, SP!ShowInv, CallInv, LastInv, [Next]_vars,
         NEW e \in Lasts
  PROVE  Found(e) => Found(e)'
<1>1. e \in SP!BoundedEntry
  BY LastOfKey DEF LastInv
<1>2. \A f \in Flushers : flush[f].pc = "written" /\ SP!HasKey(disk[flush[f].file], e)
                            => e \in disk[flush[f].file]
  <2> SUFFICES ASSUME NEW f \in Flushers, flush[f].pc = "written",
                      SP!HasKey(disk[flush[f].file], e)
               PROVE  e \in disk[flush[f].file]
    OBVIOUS
  <2>1. up /\ ~Pending(e)
    BY NonePending
  <2>2. disk[flush[f].file] = memTable
    BY DEF LastInv, FlushHolds
  <2> QED  BY <2>1, <2>2 DEF LastInv, MemtableHasLast
<1>3. SP!TypeInv /\ SP!ListsAgree /\ [SP!WholeStep]_(SP!vars)
  BY FilesWhole DEF Types
<1> QED  BY <1>1, <1>2, <1>3, FilesAssumption, SP!ShowsStep DEF Found

\* What the steps below start from.
LastCtx == Types /\ SP!FileInv /\ SP!ShowInv /\ CallInv /\ LastInv

\* Nothing of another key comes in, if the log and the memtable stay so.
LEMMA KnownStep ==
  ASSUME Types, KnownOnly, [Next]_vars,
         \A k \in Keys : lastCommitted[k] # {} => lastCommitted'[k] # {},
         memTable' \cup WalEntries' \subseteq Known \/ memTable' \cup WalEntries' \subseteq Known'
  PROVE  KnownOnly'
<1>1. Known \subseteq Known'
  <2>1. \A e \in SP!BoundedEntry : e.key \in Keys
    BY DEF SP!BoundedEntry, SP!Entry
  <2> QED  BY <2>1 DEF Known
<1>2. /\ written' \subseteq Known
      /\ \A i \in SP!FileIds : disk'[i] \subseteq Known
      /\ \A c \in Compactors : compaction'[c].entries \subseteq Known
  <2>1. memTable \subseteq Known /\ SP!HeldIn(Known)
    BY DEF KnownOnly
  <2> QED  BY <2>1, HeldStored
<1>3. SP!HeldIn(Known)'
  BY <1>1, <1>2 DEF SP!HeldIn
<1> QED  BY <1>1, <1>3 DEF KnownOnly

\* Steps of the transactions that store nothing: one that stops applying has
\* everything in the memtable.
LEMMA QuietLast ==
  ASSUME LastCtx, [Next]_vars, UNCHANGED <<sstVars, memTable, wal, lastCommitted, versions>>,
         \A t \in TxnIds :
           /\ phase'[t] = "applying" =>
                phase[t] = "applying" /\ bufferedWriteMap'[t] = bufferedWriteMap[t]
           /\ phase[t] = "applying" /\ phase'[t] # "applying" =>
                EntriesOf(bufferedWriteMap[t], t) \subseteq versions,
         \A f \in Flushers : call'[f] \in {"memtable", "wal"} => call'[f] = call[f]
  PROVE  LastInv'
<1>1. /\ up' = up /\ memTable' = memTable /\ flush' = flush /\ disk' = disk
      /\ lastCommitted' = lastCommitted /\ SP!Names' = SP!Names
      /\ Lasts' = Lasts /\ WalEntries' = WalEntries
  BY DEF sstVars, Lasts, WalEntries, SP!Names
<1>2. \A e : Pending(e) => Pending(e)'
  BY DEF Pending
<1>3. \A e : Found(e)' <=> Found(e)
  BY <1>1 DEF Found
<1>4. KnownOnly'
  <2>1. memTable' \cup WalEntries' \subseteq Known
    BY <1>1 DEF LastCtx, LastInv, KnownOnly
  <2> QED  BY <1>1, <2>1, KnownStep DEF LastCtx, LastInv
<1>5. OneLast' /\ LogHasLast'
  BY <1>1 DEF LastCtx, LastInv, OneLast, LogHasLast
<1>6. MemtableHasLast' /\ LastKept'
  BY <1>1, <1>2, <1>3 DEF LastCtx, LastInv, MemtableHasLast, LastKept
<1>7. AppliesLast'
  BY <1>1 DEF LastCtx, LastInv, AppliesLast
<1>8. FlushHolds'
  BY <1>1, <1>3 DEF LastCtx, LastInv, FlushHolds
<1> QED  BY <1>4, <1>5, <1>6, <1>7, <1>8 DEF LastInv

\* The steps of a transaction but those that log or store.
LEMMA TransactionLast ==
  ASSUME LastCtx, [Next]_vars, NEW t \in TxnIds,
         \/ Begin(t) \/ Rollback(t) \/ Finish(t) \/ CommitApplied(t)
         \/ \E k \in Keys : releaseLock(t, k)
         \/ \E k \in Keys, v \in Values : Put(t, k, v)
  PROVE  LastInv'
<1> USE DEF LastCtx
<1>1. CASE Begin(t)
  <2>1. /\ UNCHANGED <<sstVars, memTable, wal, call, lastCommitted, versions, bufferedWriteMap>>
        /\ phase' = [phase EXCEPT ![t] = "open"] /\ t = nextTransactionId
    BY <1>1 DEF Begin, TM!Begin
  <2>2. phase[t] = "none"
    BY <2>1, DBAssumption DEF Types, TP!Inv, TP!IdsInOrder, TP!TypeOK, TP!TxnIds,
                              TxnIds, TM!TxnIds
  <2> QED  BY <2>1, <2>2, PhaseTypes, QuietLast
<1>2. CASE Rollback(t)
  <2>1. /\ UNCHANGED <<sstVars, memTable, wal, call, lastCommitted, versions, bufferedWriteMap>>
        /\ phase' = [phase EXCEPT ![t] = "undoing"] /\ phase[t] = "open"
    BY <1>2 DEF Rollback, TM!Rollback
  <2> QED  BY <2>1, PhaseTypes, QuietLast
<1>3. CASE Finish(t)
  <2>1. /\ UNCHANGED <<sstVars, memTable, wal, call, lastCommitted, versions>>
        /\ bufferedWriteMap' = [bufferedWriteMap EXCEPT ![t] = TM!NoWrites]
        /\ phase' = [phase EXCEPT ![t] = IF @ = "releasing" THEN "committed" ELSE "aborted"]
        /\ phase[t] \in {"releasing", "undoing"}
    BY <1>3 DEF Finish, TM!Finish
  <2> QED  BY <2>1, PhaseTypes, QuietLast
<1>4. ASSUME NEW k \in Keys, releaseLock(t, k) PROVE LastInv'
  <2>1. UNCHANGED <<sstVars, memTable, wal, call, lastCommitted, versions, bufferedWriteMap, phase>>
    BY <1>4 DEF releaseLock, TM!releaseLock
  <2> QED  BY <2>1, QuietLast
<1>5. ASSUME NEW k \in Keys, NEW v \in Values, Put(t, k, v) PROVE LastInv'
  <2>1. /\ UNCHANGED <<sstVars, memTable, wal, call, lastCommitted, versions, phase>>
        /\ phase[t] = "open"
        /\ \E m : bufferedWriteMap' = [bufferedWriteMap EXCEPT ![t] = m]
    BY <1>5 DEF Put, TM!Put
  <2> QED  BY <2>1, PhaseTypes, QuietLast
<1>6. CASE CommitApplied(t)
  <2>1. /\ UNCHANGED <<sstVars, memTable, wal, lastCommitted, versions, bufferedWriteMap>>
        /\ phase' = [phase EXCEPT ![t] = "releasing"]
        /\ call' = [call EXCEPT ![t] = "none"]
        /\ EntriesOf(bufferedWriteMap[t], t) \subseteq versions
    BY <1>6 DEF CommitApplied, TM!CommitApplied, TM!Applied, TM!EntriesOf, EntriesOf
  <2> QED  BY <2>1, PhaseTypes, QuietLast
<1> QED  BY <1>1, <1>2, <1>3, <1>4, <1>5, <1>6

\* Commit logs its writes: they are the last ones now, in the log and pending.
LEMMA CommitWalLast ==
  ASSUME ~Concurrent, LastCtx, [Next]_vars, NEW t \in TxnIds, CommitWal(t)
  PROVE  LastInv'
<1> USE DEF LastCtx
<1> DEFINE m == bufferedWriteMap[t]
           new(k) == [key |-> k, value |-> m[k], txnId |-> t]
<1>1. /\ up /\ UNCHANGED <<sstVars, memTable, call, versions, bufferedWriteMap>>
      /\ phase[t] = "open" /\ phase' = [phase EXCEPT ![t] = "applying"]
      /\ wal' = Append(wal, [txnId |-> t, writes |-> m])
      /\ \A u \in TxnIds : phase[u] \notin InsideCall
      /\ \A f \in Flushers : call[f] = "none"
      /\ lastCommitted' = [k \in Keys |-> IF k \in DOMAIN m THEN {new(k)} ELSE lastCommitted[k]]
  BY NobodyInside DEF CommitWal, TM!CommitWal
<1>2. /\ up' = up /\ flush' = flush /\ disk' = disk /\ SP!Names' = SP!Names
      /\ call' = call /\ memTable' = memTable /\ versions' = versions
      /\ bufferedWriteMap' = bufferedWriteMap
  BY <1>1 DEF sstVars, SP!Names
<1>3. WalEntries' = WalEntries \cup EntriesOf(m, t)
  BY <1>1, WalAppend DEF Types
<1>4. phase'[t] = "applying" /\ \A u \in TxnIds : u # t => phase'[u] # "applying"
  BY <1>1, PhaseTypes DEF InsideCall
<1>5. EntriesOf(m, t) \subseteq SP!BoundedEntry /\ DOMAIN m \subseteq Keys
  BY PhaseTypes, WriteTypes DEF TP!WriteMaps
<1>6. /\ \A e \in EntriesOf(m, t) : e.key \in DOMAIN m /\ e = new(e.key)
      /\ \A k \in DOMAIN m : new(k) \in EntriesOf(m, t) /\ new(k).key = k /\ new(k).txnId = t
      /\ \A e \in EntriesOf(m, t) : e.txnId = t
  BY DEF EntriesOf
<1> HIDE DEF m, new
<1>7. \A e : Pending(e)' <=> e \in EntriesOf(m, t) /\ e \notin versions
  BY <1>2, <1>4 DEF Pending, m
<1>8. EntriesOf(m, t) \cap versions = {}
  <2>1. \A e \in versions : e.txnId # t
    BY <1>1 DEF CallInv, TP!Owned
  <2> QED  BY <1>6, <2>1
<1>9. \A e : ~Pending(e)
  BY <1>1 DEF Pending, InsideCall
<1>10. /\ \A e \in Lasts' : \/ e \in EntriesOf(m, t)
                            \/ e \in Lasts /\ e.key \notin DOMAIN m
       /\ EntriesOf(m, t) \subseteq Lasts'
  <2>1. ASSUME NEW e \in Lasts'
        PROVE  e \in EntriesOf(m, t) \/ (e \in Lasts /\ e.key \notin DOMAIN m)
    <3>1. PICK k \in Keys : e \in lastCommitted'[k]
      BY <2>1 DEF Lasts
    <3>2. CASE k \in DOMAIN m
      BY <1>1, <1>6, <3>1, <3>2
    <3>3. CASE k \notin DOMAIN m
      <4>1. e \in lastCommitted[k]
        BY <1>1, <3>1, <3>3
      <4>2. e.key = k
        BY <4>1 DEF LastInv, OneLast
      <4> QED  BY <3>3, <4>1, <4>2 DEF Lasts
    <3> QED  BY <3>2, <3>3
  <2>2. ASSUME NEW e \in EntriesOf(m, t) PROVE e \in Lasts'
    <3>1. e.key \in Keys /\ e \in lastCommitted'[e.key]
      BY <1>1, <1>5, <1>6
    <3> QED  BY <3>1 DEF Lasts
  <2> QED  BY <2>1, <2>2
<1>11. \A e : Found(e)' <=> Found(e)
  BY <1>2 DEF Found
<1>12. OneLast'
  <2> SUFFICES ASSUME NEW k \in Keys
               PROVE  /\ lastCommitted'[k] \subseteq { e \in SP!BoundedEntry : e.key = k }
                      /\ \A e, f \in lastCommitted'[k] : e = f
    BY DEF OneLast
  <2>1. CASE k \in DOMAIN m
    BY <1>1, <1>5, <1>6, <2>1
  <2>2. CASE k \notin DOMAIN m
    BY <1>1, <2>2 DEF LastInv, OneLast
  <2> QED  BY <2>1, <2>2
<1>13. KnownOnly'
  <2>1. \A k \in Keys : lastCommitted[k] # {} => lastCommitted'[k] # {}
    BY <1>1
  <2>2. EntriesOf(m, t) \subseteq Known'
    <3>1. \A e \in EntriesOf(m, t) : lastCommitted'[e.key] # {}
      BY <1>1, <1>5, <1>6
    <3> QED  BY <1>5, <3>1 DEF Known
  <2>3. Known \subseteq Known'
    <3>1. \A e \in SP!BoundedEntry : e.key \in Keys
      BY DEF SP!BoundedEntry, SP!Entry
    <3> QED  BY <2>1, <3>1 DEF Known
  <2>4. memTable' \cup WalEntries' \subseteq Known'
    BY <1>2, <1>3, <2>2, <2>3 DEF LastInv, KnownOnly
  <2> QED  BY <2>1, <2>4, KnownStep DEF LastInv
<1>14. LogHasLast'
  <2> SUFFICES ASSUME NEW e \in Lasts', NEW x \in WalEntries', x.key = e.key
               PROVE  e \in WalEntries'
    BY DEF LogHasLast, SP!HasKey
  <2>1. CASE e \in EntriesOf(m, t)
    BY <1>3, <2>1
  <2>2. CASE e \in Lasts /\ e.key \notin DOMAIN m
    <3>1. x \in WalEntries
      BY <1>3, <1>6, <2>2
    <3> QED  BY <1>3, <2>2, <3>1 DEF LastInv, LogHasLast, SP!HasKey
  <2> QED  BY <1>10, <2>1, <2>2
<1>15. MemtableHasLast'
  <2> SUFFICES ASSUME NEW e \in Lasts', SP!HasKey(memTable', e)
               PROVE  e \in memTable' \/ Pending(e)'
    BY DEF MemtableHasLast
  <2>1. CASE e \in Lasts
    BY <1>1, <1>2, <1>9, <2>1 DEF LastInv, MemtableHasLast
  <2> QED  BY <1>7, <1>8, <1>10, <2>1
<1>16. AppliesLast'
  BY <1>2, <1>4, <1>10 DEF AppliesLast, m
<1>17. LastKept'
  <2> SUFFICES ASSUME NEW e \in Lasts'
               PROVE  /\ e \in WalEntries' \/ Found(e)'
                      /\ e \in memTable' \/ Pending(e)' \/ Found(e)'
    BY DEF LastKept
  <2>1. CASE e \in Lasts
    BY <1>1, <1>2, <1>3, <1>9, <1>11, <2>1 DEF LastInv, LastKept
  <2> QED  BY <1>3, <1>7, <1>8, <1>10, <2>1
<1>18. FlushHolds'
  <2>1. \A f \in Flushers : flush[f].pc = "idle"
    BY <1>1 DEF CallInv, FlushInv, OneCall
  <2> QED  BY <1>1, <1>2, <2>1 DEF FlushHolds
<1> QED  BY <1>12, <1>13, <1>14, <1>15, <1>16, <1>17, <1>18 DEF LastInv

\* Commit stores one of its writes.
LEMMA CommitPutLast ==
  ASSUME LastCtx, [Next]_vars, NEW t \in TxnIds, NEW k \in Keys, CommitPut(t, k)
  PROVE  LastInv'
<1> USE DEF LastCtx
<1> DEFINE n == [key |-> k, value |-> bufferedWriteMap[t][k], txnId |-> t]
<1>1. /\ phase[t] = "applying" /\ n \in EntriesOf(bufferedWriteMap[t], t)
      /\ versions' = versions \cup {n} /\ n.key = k
      /\ memTable' = { f \in memTable : ~(f.key = k /\ f.txnId = t) } \cup {n}
  <2>1. /\ phase[t] = "applying" /\ k \in DOMAIN bufferedWriteMap[t]
        /\ versions' = versions \cup {n}
        /\ memTable' = { f \in memTable : ~(f.key = k /\ f.txnId = t) } \cup {n}
    BY CommitPutAdds DEF Types, CallInv
  <2> QED  BY <2>1 DEF EntriesOf
<1>2. /\ up /\ up' = up /\ flush' = flush /\ disk' = disk /\ SP!Names' = SP!Names
      /\ call' = call /\ phase' = phase /\ bufferedWriteMap' = bufferedWriteMap
      /\ lastCommitted' = lastCommitted /\ Lasts' = Lasts /\ WalEntries' = WalEntries
      /\ Known' = Known
  BY DEF CommitPut, TM!CommitPut, sstVars, WalEntries, Lasts, Known, SP!Names
<1> HIDE DEF n
<1>3. \A f \in Flushers : call[f] = "none" /\ flush[f].pc = "idle"
  <2> TAKE f \in Flushers
  <2>1. n \in versions => FALSE
    BY DEF CommitPut, TM!CommitPut, n
  <2>2. Pending(n)
    BY <1>1, <2>1 DEF Pending
  <2> QED  BY <2>2, NonePending
<1>4. n \in Lasts /\ n \in Known
  <2>1. n \in Lasts
    BY <1>1, <1>2 DEF LastInv, AppliesLast
  <2>2. n \in SP!BoundedEntry /\ lastCommitted[n.key] = {n}
    BY <2>1, LastOfKey DEF LastInv
  <2> QED  BY <2>1, <2>2 DEF Known
<1>5. \A e \in Lasts : e.key = k => e = n
  <2>1. \A e \in Lasts : lastCommitted[e.key] = {e}
    BY LastOfKey DEF LastInv
  <2>2. lastCommitted[k] = {n}
    BY <1>1, <1>4, <2>1
  <2> QED  BY <2>1, <2>2
<1>6. \A e : Pending(e) => Pending(e)' \/ e = n
  BY <1>1, <1>2 DEF Pending
<1>7. \A e : Found(e)' <=> Found(e)
  BY <1>2 DEF Found
<1>8. n \in memTable' /\ \A e \in Lasts : e \in memTable => e \in memTable'
  BY <1>1, <1>5
<1>9. KnownOnly'
  <2>1. memTable' \cup WalEntries' \subseteq Known
    BY <1>1, <1>2, <1>4 DEF LastInv, KnownOnly
  <2> QED  BY <1>2, <2>1, KnownStep DEF LastInv
<1>10. OneLast' /\ LogHasLast'
  BY <1>2 DEF LastInv, OneLast, LogHasLast
<1>11. MemtableHasLast'
  <2> SUFFICES ASSUME NEW e \in Lasts, NEW x \in memTable', x.key = e.key
               PROVE  e \in memTable' \/ Pending(e)'
    BY <1>2 DEF MemtableHasLast, SP!HasKey
  <2>1. CASE e.key = k
    BY <1>5, <1>8, <2>1
  <2>2. CASE e.key # k
    <3>1. x \in memTable
      BY <1>1, <2>2
    <3>2. e \in memTable \/ Pending(e)
      BY <1>2, <3>1 DEF LastInv, MemtableHasLast, SP!HasKey
    <3> QED  BY <1>6, <1>8, <3>2
  <2> QED  BY <2>1, <2>2
<1>12. AppliesLast'
  BY <1>2 DEF LastInv, AppliesLast
<1>13. LastKept'
  BY <1>2, <1>6, <1>7, <1>8 DEF LastInv, LastKept
<1>14. FlushHolds'
  BY <1>2, <1>3 DEF FlushHolds
<1> QED  BY <1>9, <1>10, <1>11, <1>12, <1>13, <1>14 DEF LastInv

\* Steps that leave log, memtable and transactions alone, and keep the files
\* of flushes that are not installed.
LEMMA FilesLast ==
  ASSUME LastCtx, SP!Intact', [Next]_vars, up' => up,
         UNCHANGED <<tmVars, wal, lastCommitted>>, up' => memTable' = memTable,
         memTable' \subseteq memTable, FlushHolds'
  PROVE  LastInv'
<1> USE DEF LastCtx
<1>1. /\ Lasts' = Lasts /\ Known' = Known /\ WalEntries' = WalEntries
      /\ phase' = phase /\ bufferedWriteMap' = bufferedWriteMap /\ versions' = versions
      /\ lastCommitted' = lastCommitted
  BY DEF Lasts, Known, WalEntries, tmVars
<1>2. \A e : Pending(e) => Pending(e)'
  BY <1>1 DEF Pending
<1>3. \A e \in Lasts : Found(e) => Found(e)'
  BY FoundKept
<1>4. KnownOnly'
  <2>1. memTable' \cup WalEntries' \subseteq Known
    BY <1>1 DEF LastInv, KnownOnly
  <2> QED  BY <1>1, <2>1, KnownStep DEF LastInv
<1>5. OneLast' /\ LogHasLast'
  BY <1>1 DEF LastInv, OneLast, LogHasLast
<1>6. MemtableHasLast' /\ AppliesLast'
  BY <1>1, <1>2 DEF LastInv, MemtableHasLast, AppliesLast
<1>7. LastKept'
  BY <1>1, <1>2, <1>3 DEF LastInv, LastKept
<1> QED  BY <1>4, <1>5, <1>6, <1>7 DEF LastInv

\* The memtable goes into a new file.
LEMMA FlushStartLast ==
  ASSUME ~Concurrent, LastCtx, SP!Intact', [Next]_vars, NEW f \in Flushers, FlushStart(f)
  PROVE  LastInv'
<1> USE DEF LastCtx
<1> DEFINE id == manifest.nextFileId
<1>1. /\ up /\ up' = up /\ call' = [call EXCEPT ![f] = "flushing"]
      /\ flush' = [flush EXCEPT ![f] = [pc |-> "written", file |-> id]]
      /\ memTable' = memTable /\ UNCHANGED <<tmVars, wal, lastCommitted>>
  BY DEF FlushStart, SST!FlushWrite
<1>2. disk'[id] = memTable
  <2>1. SP!WriteNewFile(memTable, TRUE) /\ memTable \in SUBSET SP!BoundedEntry /\ SP!TypeInv
    BY FlusherSteps DEF SP!FlushWrite, Types, StoreTypes
  <2>2. damaged' = (damaged \/ SP!Reused)
    BY FlusherSteps DEF SP!FlushWrite
  <2>3. ~SP!Reused
    BY <2>2 DEF SP!Intact
  <2> QED  BY <2>1, <2>3, FilesAssumption, SP!NewFileDisk
<1>3. \A g \in Flushers : g # f => flush[g].pc = "idle" /\ call[g] = "none"
  BY OneFlush DEF CallInv
<1>4. /\ call'[f] = "flushing" /\ flush'[f].pc = "written" /\ flush'[f].file = id
      /\ \A g \in Flushers : g # f => call'[g] = call[g] /\ flush'[g] = flush[g]
  BY <1>1, PhaseTypes
<1> HIDE DEF id
<1>5. FlushHolds'
  BY <1>1, <1>2, <1>3, <1>4 DEF FlushHolds
<1> QED  BY <1>1, <1>5, FilesLast

\* The file is installed: now the files show all that was committed last.
LEMMA FlushInstallLast ==
  ASSUME ~Concurrent, LastCtx, SP!Intact', [Next]_vars, NEW f \in Flushers, FlushInstall(f)
  PROVE  LastInv'
<1> USE DEF LastCtx
<1>1. /\ up /\ up' = up /\ call' = call /\ flush[f].pc = "written"
      /\ flush' = [flush EXCEPT ![f].pc = "checking"]
      /\ memTable' = memTable /\ UNCHANGED <<tmVars, wal, lastCommitted>>
  BY DEF FlushInstall, SST!FlushInstall
<1>2. \A g \in Flushers : g # f => flush[g].pc = "idle" /\ call[g] = "none"
  BY OneFlush DEF CallInv
<1>3. flush'[f].pc = "checking" /\ \A g \in Flushers : g # f => flush'[g] = flush[g]
  BY <1>1, PhaseTypes
<1>4. Lasts' = Lasts
  BY <1>1 DEF Lasts
<1>5. ASSUME NEW e \in Lasts PROVE Found(e)'
  <2>1. CASE e \in memTable
    <3>1. e \in disk[flush[f].file]
      BY <1>1, <2>1 DEF LastInv, FlushHolds
    <3>2. SP!FlushInstall(f) /\ SP!TypeInv
      BY FlusherSteps DEF Types
    <3> QED  BY <3>1, <3>2, FilesAssumption, SP!InstallShows DEF Found
  <2>2. CASE e \notin memTable
    <3>1. ~Pending(e)
      BY <1>1, NonePending
    <3>2. Found(e)
      BY <1>1, <2>2, <3>1 DEF LastInv, LastKept
    <3> QED  BY <3>2, FoundKept
  <2> QED  BY <2>1, <2>2
<1>6. FlushHolds'
  BY <1>1, <1>2, <1>3, <1>4, <1>5 DEF FlushHolds
<1> QED  BY <1>1, <1>6, FilesLast

\* The compaction is created, or not; the memtable is cleared after that.
LEMMA FlushCheckLast ==
  ASSUME ~Concurrent, LastCtx, SP!Intact', [Next]_vars, NEW f \in Flushers, FlushCheck(f)
  PROVE  LastInv'
<1> USE DEF LastCtx
<1>1. /\ up /\ up' = up /\ call' = [call EXCEPT ![f] = "memtable"]
      /\ flush[f].pc = "checking" /\ flush' = [flush EXCEPT ![f] = SST!Idle]
      /\ disk' = disk /\ SP!Names' = SP!Names
      /\ memTable' = memTable /\ UNCHANGED <<tmVars, wal, lastCommitted>>
  BY DEF FlushCheck, SST!FlushCheck, SST!files, SST!lists, SP!Names
<1>2. /\ call'[f] = "memtable" /\ flush'[f].pc = "idle"
      /\ \A g \in Flushers : g # f => call'[g] = call[g] /\ flush'[g] = flush[g]
  BY <1>1, PhaseTypes DEF SST!Idle
<1>3. Lasts' = Lasts /\ \A e : Found(e)' <=> Found(e)
  BY <1>1 DEF Lasts, Found
<1>4. FlushHolds'
  BY <1>1, <1>2, <1>3 DEF LastInv, FlushHolds
<1> QED  BY <1>1, <1>4, FilesLast

\* The memtable and the log are cleared when the files show everything.
LEMMA ClearLast ==
  ASSUME LastCtx, [Next]_vars, NEW f \in Flushers, ClearMemtable(f) \/ ClearWal(f)
  PROVE  LastInv'
<1> USE DEF LastCtx
<1>1. /\ up /\ UNCHANGED <<tmVars, sstVars, lastCommitted>>
      /\ call[f] \in {"memtable", "wal"}
      /\ \E p \in {"wal", "none", "done"} : call' = [call EXCEPT ![f] = p]
  BY DEF ClearMemtable, ClearWal
<1>2. /\ up' = up /\ flush' = flush /\ disk' = disk /\ SP!Names' = SP!Names
      /\ phase' = phase /\ bufferedWriteMap' = bufferedWriteMap /\ versions' = versions
      /\ lastCommitted' = lastCommitted /\ Lasts' = Lasts /\ Known' = Known
  BY <1>1 DEF sstVars, tmVars, Lasts, Known, SP!Names
<1>3. \A e : (Found(e)' <=> Found(e)) /\ (Pending(e) => Pending(e)')
  BY <1>2 DEF Found, Pending
<1>4. \A e \in Lasts : Found(e)
  BY <1>1 DEF LastInv, FlushHolds
<1>5. memTable' \in {memTable, {}} /\ WalEntries' \in {WalEntries, {}}
  <2>1. CASE ClearMemtable(f)
    BY <2>1 DEF ClearMemtable, WalEntries
  <2>2. CASE ClearWal(f)
    <3>1. wal' = <<>> /\ memTable' = memTable
      BY <2>2 DEF ClearWal
    <3>2. Range(<<>>) = {}
      BY DEF Range
    <3>3. Range(wal') = {}
      BY <3>1, <3>2
    <3> QED  BY <3>1, <3>3 DEF WalEntries
  <2> QED  BY <2>1, <2>2
<1>6. KnownOnly'
  <2>1. memTable' \cup WalEntries' \subseteq Known
    BY <1>5 DEF LastInv, KnownOnly
  <2> QED  BY <1>2, <2>1, KnownStep DEF LastInv
<1>7. OneLast'
  BY <1>2 DEF LastInv, OneLast
<1>8. LogHasLast'
  <2>1. CASE WalEntries' = WalEntries
    BY <1>2, <2>1 DEF LastInv, LogHasLast
  <2>2. CASE WalEntries' = {}
    BY <2>2 DEF LogHasLast, SP!HasKey
  <2> QED  BY <1>5, <2>1, <2>2
<1>9. MemtableHasLast'
  <2>1. CASE memTable' = memTable
    BY <1>2, <1>3, <2>1 DEF LastInv, MemtableHasLast
  <2>2. CASE memTable' = {}
    BY <2>2 DEF MemtableHasLast, SP!HasKey
  <2> QED  BY <1>5, <2>1, <2>2
<1>10. AppliesLast'
  BY <1>2 DEF LastInv, AppliesLast
<1>11. LastKept'
  BY <1>2, <1>3, <1>4 DEF LastKept
<1>12. FlushHolds'
  <2> SUFFICES ASSUME NEW g \in Flushers, flush[g].pc = "written" PROVE FALSE
    BY <1>2, <1>3, <1>4 DEF FlushHolds
  <2>1. call[g] = "flushing"
    BY <1>1 DEF CallInv, FlushInv, OneCall
  <2>2. /\ \/ f = 0 /\ \A t \in TxnIds : phase[t] \notin InsideCall
           \/ f \in TxnIds /\ phase[f] \in InsideCall
        /\ \/ g = 0 /\ \A t \in TxnIds : phase[t] \notin InsideCall
           \/ g \in TxnIds /\ phase[g] \in InsideCall
    BY <1>1, <2>1 DEF CallInv, FlushInv, OneCall, InsideCall
  <2>3. f = g
    BY <1>1, <2>2 DEF CallInv, FlushInv, OneCall
  <2> QED  BY <1>1, <2>1, <2>3
<1> QED  BY <1>6, <1>7, <1>8, <1>9, <1>10, <1>11, <1>12 DEF LastInv

\* Compactions, and the end of the process, which keeps log and files.
LEMMA BackgroundLast ==
  ASSUME LastCtx, SP!Intact', [Next]_vars,
         \/ \E c \in Compactors : CompactionRuns(c)
         \/ Down \/ UNCHANGED vars
  PROVE  LastInv'
<1> USE DEF LastCtx
<1>1. CASE Down
  <2>1. /\ ~up' /\ memTable' = {} /\ UNCHANGED <<tmVars, wal, lastCommitted>>
        /\ \A f \in Flushers : call'[f] = "none" /\ flush'[f].pc = "idle"
    BY <1>1 DEF Down, SST!Crash, SST!CrashInSave, SST!CompactPanics, SST!GoDown, SST!Idle
  <2>2. FlushHolds'
    BY <2>1 DEF FlushHolds
  <2> QED  BY <2>1, <2>2, FilesLast
<1>2. CASE ~Down
  <2>1. UNCHANGED <<tmVars, up, flush, call, memTable, wal, lastCommitted>>
    <3>1. CASE UNCHANGED vars
      BY <3>1 DEF vars, sstVars
    <3>2. ASSUME NEW c \in Compactors, CompactionRuns(c)
          PROVE  UNCHANGED <<tmVars, up, flush, call, memTable, wal, lastCommitted>>
      BY <3>2 DEF CompactionRuns, SST!CompactBegin, SST!CompactCopy, SST!CompactBuild,
                  SST!CompactBuildPart, SST!CompactBuildFails, SST!CompactCreate, SST!CompactSwap,
                  SST!CompactDelete, SST!CompactEnd
    <3> QED  BY <1>2, <3>1, <3>2
  <2>2. \A g \in Flushers : flush[g].pc = "written" =>
          disk'[flush[g].file] = disk[flush[g].file]
    BY PendingKept
  <2>3. \A e \in Lasts : Found(e) => Found(e)'
    BY FoundKept
  <2>4. Lasts' = Lasts
    BY <2>1 DEF Lasts
  <2>5. FlushHolds'
    BY <2>1, <2>2, <2>3, <2>4 DEF LastInv, FlushHolds
  <2> QED  BY <2>1, <2>5, FilesLast
<1> QED  BY <1>1, <1>2

\* NewDB puts the log into the memtable.
LEMMA NewDBLast ==
  ASSUME LastCtx, [Next]_vars, NewDB
  PROVE  LastInv'
<1> USE DEF LastCtx
<1> DEFINE t == maxTxnId + 1
<1>1. /\ ~up /\ call' = call /\ flush' = flush /\ lastCommitted' = lastCommitted
      /\ disk' = disk /\ SP!Names' = SP!Names /\ memTable' = WalEntries
      /\ wal' = Append(wal, CatalogRecord(t))
      /\ bufferedWriteMap' = [u \in TxnIds |-> TM!NoWrites]
  BY RestartSteps, FilesAssumption, SP!UpNames DEF NewDB, SST!NewSsTable
<1> HIDE DEF t
<1>2. DOMAIN TM!NoWrites = {}
  BY DEF TM!NoWrites
<1>3. \A u : EntriesOf(TM!NoWrites, u) = {}
  BY <1>2 DEF EntriesOf
<1>4. WalEntries' = WalEntries
  BY <1>1, <1>3, WalAppend DEF CatalogRecord, Types
<1>5. Lasts' = Lasts /\ Known' = Known /\ \A e : Found(e)' <=> Found(e)
  BY <1>1 DEF Lasts, Known, Found
<1>6. KnownOnly'
  <2>1. memTable' \cup WalEntries' \subseteq Known
    BY <1>1, <1>4 DEF LastInv, KnownOnly
  <2> QED  BY <1>1, <2>1, KnownStep DEF LastInv
<1>7. OneLast' /\ LogHasLast'
  BY <1>1, <1>4, <1>5 DEF LastInv, OneLast, LogHasLast
<1>8. MemtableHasLast'
  BY <1>1, <1>5 DEF LastInv, LogHasLast, MemtableHasLast
<1>9. AppliesLast'
  BY <1>1, <1>3 DEF AppliesLast
<1>10. LastKept'
  BY <1>1, <1>4, <1>5 DEF LastInv, LastKept
<1>11. FlushHolds'
  <2>1. \A f \in Flushers : call[f] = "none" /\ flush[f].pc = "idle"
    BY <1>1 DEF CallInv, SP!FileInv, SP!DownIdle
  <2> QED  BY <1>1, <2>1 DEF FlushHolds
<1> QED  BY <1>6, <1>7, <1>8, <1>9, <1>10, <1>11 DEF LastInv

\* Every step keeps the versions committed last where they are found.
LEMMA LastStep ==
  ASSUME ~Concurrent, LastCtx, SP!Intact', [Next]_vars
  PROVE  LastInv'
<1>1. ASSUME NEW t \in TxnIds, TransactionRuns(t) PROVE LastInv'
  BY <1>1, TransactionLast, CommitWalLast, CommitPutLast DEF TransactionRuns
<1>2. ASSUME NEW f \in Flushers, FlushRuns(f) PROVE LastInv'
  BY <1>2, FlushStartLast, FlushInstallLast, FlushCheckLast, ClearLast DEF FlushRuns
<1> QED  BY <1>1, <1>2, BackgroundLast, NewDBLast DEF Next

\* It holds when the first NewDB has returned: nothing is committed yet.
LEMMA LastInitially ==
  ASSUME Init
  PROVE  LastCtx
<1>1. /\ up /\ memTable = {} /\ wal = <<CatalogRecord(1)>> /\ written = {}
      /\ firstLevelFiles = <<>> /\ diskManifest.fileNames = <<>>
      /\ lastCommitted = [k \in Keys |-> {}]
      /\ \A i \in SP!FileIds : disk[i] = {}
      /\ \A c \in Compactors : compaction[c].pc = "idle" /\ compaction[c].entries = {}
      /\ \A f \in Flushers : flush[f].pc = "idle" /\ call[f] = "none"
      /\ phase = [t \in TM!TxnIds |-> IF t < 2 THEN "committed" ELSE "none"]
  BY DEF Init, TM!Init, SST!Init, SST!EmptyManifest, SST!NoCompaction, SST!Idle,
         SST!FileIds, SP!FileIds
<1>2. Types /\ SP!FileInv
  BY TypesInitially, DurableInitially
<1>3. SP!ShowInv
  BY <1>1 DEF SP!Names, SP!ShowInv, SP!NamesDistinct, SP!CopiedPrefix, SP!BuiltStandsFor
<1>4. CallInv
  BY <1>1, StoredInitially, DurableInitially DEF CallInv, Stored
<1>5. Lasts = {}
  BY <1>1 DEF Lasts
<1>6. WalEntries = {}
  <2>1. \A r \in Range(wal) : r = CatalogRecord(1)
    BY <1>1 DEF Range
  <2>2. EntriesOf(CatalogRecord(1).writes, CatalogRecord(1).txnId) = {}
    <3>1. DOMAIN TM!NoWrites = {}
      BY DEF TM!NoWrites
    <3> QED  BY <3>1 DEF CatalogRecord, EntriesOf
  <2> QED  BY <2>1, <2>2 DEF WalEntries
<1>7. KnownOnly
  BY <1>1, <1>6 DEF KnownOnly, SP!HeldIn
<1>8. OneLast
  BY <1>1 DEF OneLast
<1>9. AppliesLast
  BY <1>1 DEF AppliesLast, TxnIds
<1>10. LogHasLast /\ MemtableHasLast /\ LastKept /\ FlushHolds
  BY <1>1, <1>5 DEF LogHasLast, MemtableHasLast, LastKept, FlushHolds
<1> QED  BY <1>2, <1>3, <1>4, <1>7, <1>8, <1>9, <1>10 DEF LastCtx, LastInv

\* The invariant behind LastVersionReadable: once the directory is damaged, or
\* the process died inside saveManifest, nothing is said of what is found.
ReadableInv == /\ Types /\ SP!FileInv /\ CallInv
               /\ SP!Intact => SP!ShowInv /\ LastInv

\* It holds in every state.
LEMMA LastInvariant ==
  ASSUME ~Concurrent, \A c, d \in Compactors : c = d
  PROVE  Spec => []ReadableInv
<1>1. ReadableInv /\ [Next]_vars => ReadableInv'
  <2> SUFFICES ASSUME ReadableInv, [Next]_vars PROVE ReadableInv'
    OBVIOUS
  <2>1. Types /\ TP!Inv /\ StoreTypes /\ SP!TypeInv /\ SP!ListsAgree /\ SP!FileInv
    BY DEF ReadableInv, Types
  <2>2. SP!TypeInv' /\ SP!ListsAgree'
    BY <2>1, FilesInv
  <2>3. Types'
    <3>1. TP!Inv'
      BY <2>1, ManagerInv
    <3>2. StoreTypes'
      BY <2>1, StoreInv
    <3> QED  BY <2>2, <3>1, <3>2 DEF Types
  <2>4. SP!FileInv'
    <3>1. [SP!AnyStep]_(SP!vars)
      BY <2>1, FilesNext
    <3> QED  BY <2>1, <3>1, FilesAssumption, SP!FilesStep
  <2>5. CallInv'
    BY CallStep DEF ReadableInv
  <2>6. ASSUME SP!Intact' PROVE SP!ShowInv' /\ LastInv'
    <3>1. [SP!AnyStep]_(SP!vars) /\ [SP!WholeStep]_(SP!vars)
      BY <2>1, FilesNext, FilesWhole
    <3>2. SP!Intact
      BY <2>1, <2>6, <3>1, FilesAssumption, SP!IntactStays
    <3>3. LastCtx
      BY <3>2 DEF ReadableInv, LastCtx
    <3>4. SP!ShowInv'
      <4>1. SP!OneCompaction
        BY DEF SP!OneCompaction
      <4> QED  BY <2>1, <2>6, <3>1, <3>3, <4>1, FilesAssumption, SP!ShowStep DEF LastCtx
    <3> QED  BY <2>6, <3>3, <3>4, LastStep
  <2> QED  BY <2>3, <2>4, <2>5, <2>6 DEF ReadableInv
<1>2. Init => ReadableInv
  BY LastInitially DEF LastCtx, ReadableInv
<1> QED  BY <1>1, <1>2, PTL DEF Spec

\* With one client and one compaction, as long as the ids follow the order of
\* the commits, a transaction that begins with none open reads the version of
\* each key that was committed last, or nothing if none was: through flushes,
\* compactions, any number of crashes between two steps, and restarts that
\* hand out ids anew.  It is not said of a directory that a crash has damaged:
\* one inside saveManifest, or one that left a file whose id is taken again.
THEOREM LastCommitIsRead ==
  ASSUME ~Concurrent, \A c, d \in Compactors : c = d, EmptyValue \notin Values
  PROVE  Spec => []LastVersionReadable
<1>1. ASSUME ReadableInv PROVE LastVersionReadable
  <2> DEFINE n == nextTransactionId
  <2> SUFFICES ASSUME up, activeTransactionsMap = {}, IdsGrow, ~damaged, NEW k \in Keys
               PROVE  getWithSnapshot(k, n, {n}) = lastCommitted[k]
    BY DEF LastVersionReadable
  <2>8. LastCtx
    BY <1>1 DEF ReadableInv, LastCtx, SP!Intact
  <2> USE <2>8 DEF LastCtx, LastInv
  <2> DEFINE M == { e \in memTable : e.key = k }
  <2>1. \A e : ~Pending(e)
    BY DEF Pending, Types, TP!Inv, TP!ActiveAgrees, TP!Active, TxnIds, TM!TxnIds, TP!TxnIds
  <2>2. /\ memTable \subseteq Held /\ SP!Listed \subseteq Held
        /\ memTable \subseteq Known /\ SP!Listed \subseteq Known
    <3>1. SP!Range(firstLevelFiles) = Range(firstLevelFiles)
      BY DEF SP!Range, Range
    <3>2. \A i \in SP!Range(firstLevelFiles) : i \in SP!FileIds
      BY FilesAssumption, SP!ReferencedIds DEF Types, SP!Range
    <3> QED  BY <3>1, <3>2 DEF Held, SP!Listed, KnownOnly, SP!HeldIn
  <2>3. n \in Nat /\ \A e \in Known : e.txnId \in Nat
    BY DBAssumption
       DEF Types, TP!Inv, TP!TypeOK, TP!TxnIds, Known, SP!BoundedEntry, SP!Entry
  <2>4. \A e \in memTable \cup SP!Listed : CanSee(e.txnId, n, {n})
    <3>1. \A e \in memTable \cup SP!Listed : e.txnId < n /\ e.txnId \in Nat
      BY <2>2, <2>3 DEF IdsGrow
    <3> QED  BY <2>3, <3>1 DEF CanSee
  <2> HIDE DEF n
  <2>5. MemtableGet(memTable, k, n, {n}) = Newest(M)
    <3>1. VisibleEntries(memTable, k, n, {n}) = M
      BY <2>4 DEF VisibleEntries
    <3> QED  BY <3>1 DEF MemtableGet
  <2>6. CASE lastCommitted[k] = {}
    <3>1. \A e \in Known : e.key # k
      BY <2>6 DEF Known
    <3>2. Newest(M) = {}
      BY <2>2, <3>1 DEF Newest
    <3>3. SP!SsTableGet(k, n, {n}) = {}
      <4>1. SP!TypeInv /\ \A f \in SP!Listed : f.key # k
        BY <2>2, <3>1 DEF Types
      <4> QED  BY <4>1, FilesAssumption, SP!GetNothing
    <3> QED  BY <2>5, <2>6, <3>2, <3>3, SameReaders DEF getWithSnapshot
  <2>7. ASSUME NEW e \in lastCommitted[k] PROVE getWithSnapshot(k, n, {n}) = lastCommitted[k]
    <3>1. e \in Lasts
      BY <2>7 DEF Lasts
    <3>2. e \in SP!BoundedEntry /\ lastCommitted[k] = {e} /\ e.key = k /\ e.txnId \in Nat
      <4>1. e \in SP!BoundedEntry /\ e.key = k /\ lastCommitted[k] = {e}
        BY <2>7 DEF OneLast
      <4> QED  BY <4>1 DEF SP!BoundedEntry, SP!Entry
    <3>3. \A f \in memTable \cup SP!Listed : f.key = k /\ f # e => f.txnId < e.txnId
      BY <2>2, <2>7 DEF IdsGrow
    <3>4. CASE M # {}
      <4>1. e \in M
        BY <2>1, <3>1, <3>2, <3>4 DEF MemtableHasLast, SP!HasKey
      <4>2. \A f \in M : f.txnId \in Nat /\ (f # e => f.txnId < e.txnId)
        BY <2>2, <2>3, <3>3
      <4> HIDE DEF M
      <4>3. e \in Newest(M)
        BY <3>2, <4>1, <4>2 DEF Newest
      <4>4. ASSUME NEW f \in Newest(M) PROVE f = e
        <5>1. f \in M /\ e.txnId <= f.txnId
          BY <4>1 DEF Newest
        <5> QED  BY <3>2, <4>2, <5>1
      <4>5. Newest(M) = {e}
        BY <4>3, <4>4
      <4> QED  BY <2>5, <3>2, <4>5 DEF getWithSnapshot
    <3>5. CASE M = {}
      <4>1. Newest(M) = {}
        BY <3>5 DEF Newest
      <4>2. Found(e)
        BY <2>1, <3>1, <3>2, <3>5 DEF LastKept
      <4>3. firstLevelFiles = SP!Names
        BY DEF SP!Names
      <4>4. \A i \in DOMAIN firstLevelFiles : disk[firstLevelFiles[i]] \subseteq SP!Listed
        BY DEF SP!Listed, SP!Range
      <4>5. SP!LastIn(disk, firstLevelFiles, e)
        <5>1. ASSUME SP!NewerIn(disk, firstLevelFiles, e) PROVE FALSE
          <6>1. PICK x \in SP!Listed : x.key = k /\ e.txnId < x.txnId
            BY <3>2, <4>4, <5>1 DEF SP!NewerIn, SP!HasNewer
          <6>2. x.txnId \in Nat
            BY <2>2, <2>3
          <6>3. x = e \/ x.txnId < e.txnId
            BY <3>3, <6>1
          <6> QED  BY <3>2, <6>1, <6>2, <6>3
        <5> QED  BY <4>2, <4>3, <5>1 DEF Found, SP!Shows
      <4>6. SP!SsTableGet(e.key, n, {n}) = {e}
        <5>1. \A f \in SP!Listed : f.key = e.key =>
                SP!CanSee(f.txnId, n, {n}) /\ (f # e => f.txnId < e.txnId)
          BY <2>4, <3>2, <3>3 DEF SP!CanSee, CanSee
        <5>2. SP!TypeInv
          BY DEF Types
        <5> QED  BY <3>2, <4>5, <5>1, <5>2, FilesAssumption, SP!GetLast
      <4> QED  BY <2>5, <3>2, <4>1, <4>6, SameReaders DEF getWithSnapshot
    <3> QED  BY <3>4, <3>5
  <2> QED  BY <2>6, <2>7
<1> QED  BY <1>1, LastInvariant, PTL
===============================================================================
