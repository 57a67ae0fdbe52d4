---------------------------------- MODULE DB ----------------------------------
(***************************************************************************)
(* The store as db/db.go puts it together: the transaction manager         *)
(* (TransactionManager), the files (SsTable), and between them the         *)
(* memtable and the write-ahead log.  Commit logs its writes, stores them  *)
(* in the memtable, and when that has grown to its limit writes it to a    *)
(* file, clears it and truncates the log.  No mutex guards any of this.    *)
(* NewDB rebuilds the memtable and the transaction manager from the log.   *)
(*                                                                         *)
(* I/O errors are modelled in the two components and not here.             *)
(***************************************************************************)
EXTENDS Versions, Sequences, FiniteSets, FiniteSetsExt, Functions

CONSTANTS MaxTxnId,            \* bound on the transaction ids handed out
          MaxActive,           \* bound on the transactions open at once
          Concurrent,          \* TRUE: clients call from several goroutines
          MemtableSizeLimit,   \* memtableSizeLimit, counted in entries
          FlushMemtableCalls,  \* TRUE: a client may call FlushMemtable
          Compactors, CompactionThreshold, EntriesPerBlock, EmptyValue,
          MaxFileId, MaxCrashes,  \* as in SsTable
          Reopen               \* TRUE: NewDB is called again after a crash

ASSUME DBAssumption == /\ Keys \subseteq Nat
                       /\ MaxTxnId \in Nat /\ 2 <= MaxTxnId
                       /\ CompactionThreshold \in Nat \ {0}
                       /\ EntriesPerBlock \in Nat \ {0}
                       /\ MaxFileId \in Nat /\ MaxCrashes \in Nat
                       /\ MaxActive \in Nat \ {0}
                       /\ MemtableSizeLimit \in Nat \ {0}
                       /\ Concurrent \in BOOLEAN
                       /\ FlushMemtableCalls \in BOOLEAN
                       /\ Reopen \in BOOLEAN

\* Every Commit may flush; 0 stands for a caller of FlushMemtable.
Flushers == IF FlushMemtableCalls THEN 0 .. MaxTxnId ELSE 1 .. MaxTxnId

VARIABLES
  nextTransactionId, activeTransactionsMap, keyVsLocksAcquiredMap, phase,
  snapshot, bufferedWriteMap, lockAcquiredKeys, versions,
  firstLevelFiles, indexBlocks, indexOffsets, manifest, compacting, flush,
  compaction, existing, disk, garbled, damaged, diskManifest, saved, up,
  crashes, written, maxMin,
  memTable,       \* the entries in the memtable's tree
  wal,            \* the records in the log: a transaction id and its writes
  call,           \* where each flusher is in createSsTableAndClearWalAndMemTable
  opened,         \* NewDB has returned
  lastCommitted   \* history: for each key, the write committed last

TM == INSTANCE TransactionManager WITH FirstTxnId <- 2, StorageFaults <- FALSE

SST == INSTANCE SsTable
         WITH IOFaults <- FALSE, MinActiveTxnIds <- Nat, MaxFlushes <- MaxTxnId

tmVars == <<nextTransactionId, activeTransactionsMap, keyVsLocksAcquiredMap,
            phase, snapshot, bufferedWriteMap, lockAcquiredKeys, versions>>

sstVars == <<firstLevelFiles, indexBlocks, indexOffsets, manifest, compacting,
             flush, compaction, existing, disk, garbled, damaged, diskManifest,
             saved, up, crashes, written, maxMin>>

vars == <<tmVars, sstVars, memTable, wal, call, opened, lastCommitted>>

TxnIds == TM!TxnIds

\* math.MaxUint64, as far as ids go.
Infinity == MaxTxnId + 1

TypeOK ==
  /\ TM!TypeOK
  /\ SST!TypeOK
  /\ memTable \subseteq Entry
  /\ wal \in Seq([txnId : TxnIds, writes : TM!WriteMaps])
  /\ call \in [Flushers -> {"none", "flushing", "memtable", "wal", "done"}]
  /\ opened \in BOOLEAN
  /\ \A k \in Keys : lastCommitted[k] \subseteq Entry

\* What the transaction in which NewDB reads the catalog logs: no writes.
CatalogRecord(t) == [txnId |-> t, writes |-> TM!NoWrites]

\* NewDB has opened an empty directory; its transaction had id 1.
Init ==
  /\ TM!Init
  /\ SST!Init
  /\ memTable = {}
  /\ wal = <<CatalogRecord(1)>>
  /\ call = [f \in Flushers |-> "none"]
  /\ opened = TRUE
  /\ lastCommitted = [k \in Keys |-> {}]

-------------------------------------------------------------------------------
\* Changed forms of operations below, each a slip this code could have had.
\* Nothing uses them; PROJECT.json names the property that rejects each.

\* the log is truncated before the file is installed
FlushStartClearsWal(f) ==
  /\ call[f] = "none" /\ up
  /\ f # 0
  /\ phase[f] = "applying" /\ TM!Applied(f)
  /\ Cardinality(memTable) >= MemtableSizeLimit
  /\ SST!FlushWrite(f, memTable)
  /\ call' = [call EXCEPT ![f] = "flushing"]
  /\ wal' = <<>>
  /\ UNCHANGED <<tmVars, memTable, opened, lastCommitted>>

\* the replay stops in front of the last record
WalWithoutLastRecord ==
  UNION { EntriesOf(wal[i].writes, wal[i].txnId) : i \in 1 .. Len(wal) - 1 }

\* NewDB hands out the largest id of the log again
NewDBReusesId ==
  LET ids == {0} \cup { r.txnId : r \in Range(wal) }
      new == UNION { EntriesOf(r.writes, r.txnId) : r \in Range(wal) }
  IN  /\ Reopen
      /\ SST!NewSsTable
      /\ memTable' = new
      /\ nextTransactionId' = Max(ids)
      /\ activeTransactionsMap' = {}
      /\ keyVsLocksAcquiredMap' = [k \in Keys |-> 0]
      /\ phase' = [u \in TxnIds |-> IF u < Max(ids) THEN "committed" ELSE "none"]
      /\ snapshot' = [u \in TxnIds |-> {}]
      /\ bufferedWriteMap' = [u \in TxnIds |-> TM!NoWrites]
      /\ lockAcquiredKeys' = [u \in TxnIds |-> {}]
      /\ versions' = {}
      /\ UNCHANGED <<wal, call, opened, lastCommitted>>

-------------------------------------------------------------------------------
\* With one client goroutine, as in main.go, a call returns before the next.
InCall ==
  \/ \E t \in TxnIds : phase[t] \in {"applying", "releasing", "undoing"}
  \/ \E f \in Flushers : call[f] # "none"
MayCall == up /\ opened /\ (Concurrent \/ ~InCall)

Begin(t) ==
  /\ MayCall
  /\ Cardinality(activeTransactionsMap) < MaxActive
  /\ TM!Begin(t)
  /\ UNCHANGED <<sstVars, memTable, wal, call, opened, lastCommitted>>

Put(t, k, v) ==
  /\ MayCall
  /\ TM!Put(t, k, v)
  /\ UNCHANGED <<sstVars, memTable, wal, call, opened, lastCommitted>>

Rollback(t) ==
  /\ MayCall
  /\ TM!Rollback(t)
  /\ UNCHANGED <<sstVars, memTable, wal, call, opened, lastCommitted>>

\* writeSingleWalEntryForCommit: one record holds all the writes.  From here
\* on the transaction counts as committed: a restart will find the record.
CommitWal(t) ==
  /\ MayCall
  /\ TM!CommitWal(t)
  /\ wal' = Append(wal, [txnId |-> t, writes |-> bufferedWriteMap[t]])
  /\ lastCommitted' =
       [k \in Keys |->
          IF k \in DOMAIN bufferedWriteMap[t]
          THEN {[key |-> k, value |-> bufferedWriteMap[t][k], txnId |-> t]}
          ELSE lastCommitted[k]]
  /\ UNCHANGED <<sstVars, memTable, call, opened>>

CommitPut(t, k) ==
  /\ up
  /\ TM!CommitPut(t, k)
  /\ memTable' = MemtablePut(memTable, k, bufferedWriteMap[t][k], t)
  /\ UNCHANGED <<sstVars, wal, call, opened, lastCommitted>>

ShouldFlush == Cardinality(memTable) >= MemtableSizeLimit

\* flushMemtableToSsTable up to the end of writeToFile: Iterate runs over the
\* memtable as it is.  The caller is a Commit whose loop is over, or
\* FlushMemtable.
FlushStart(f) ==
  /\ call[f] = "none"
  /\ \/ f = 0 /\ MayCall
     \/ f # 0 /\ phase[f] = "applying" /\ TM!Applied(f) /\ ShouldFlush
  /\ SST!FlushWrite(f, memTable)
  /\ call' = [call EXCEPT ![f] = "flushing"]
  /\ UNCHANGED <<tmVars, memTable, wal, opened, lastCommitted>>

FlushInstall(f) ==
  /\ SST!FlushInstall(f)
  /\ UNCHANGED <<tmVars, memTable, wal, call, opened, lastCommitted>>

\* The oldest id in activeTransactionsMap, the committing transaction's own
\* included, is computed once, when the compaction is created.
minActiveTxnId ==
  IF activeTransactionsMap = {} THEN Infinity ELSE Min(activeTransactionsMap)

FlushCheck(f) ==
  /\ SST!FlushCheck(f, minActiveTxnId)
  /\ call' = [call EXCEPT ![f] = "memtable"]
  /\ UNCHANGED <<tmVars, memTable, wal, opened, lastCommitted>>

ClearMemtable(f) ==
  /\ up /\ call[f] = "memtable"
  /\ memTable' = {}
  /\ call' = [call EXCEPT ![f] = "wal"]
  /\ UNCHANGED <<tmVars, sstVars, wal, opened, lastCommitted>>

ClearWal(f) ==
  /\ up /\ call[f] = "wal"
  /\ wal' = <<>>
  /\ call' = [call EXCEPT ![f] = IF f = 0 THEN "none" ELSE "done"]
  /\ UNCHANGED <<tmVars, sstVars, memTable, opened, lastCommitted>>

\* Commit goes on to releaseAllLocks, after the flush if there was one.
CommitApplied(t) ==
  /\ up
  /\ TM!CommitApplied(t)
  /\ call[t] = "done" \/ (call[t] = "none" /\ ~ShouldFlush)
  /\ call' = [call EXCEPT ![t] = "none"]
  /\ UNCHANGED <<sstVars, memTable, wal, opened, lastCommitted>>

releaseLock(t, k) ==
  /\ up
  /\ TM!releaseLock(t, k)
  /\ UNCHANGED <<sstVars, memTable, wal, call, opened, lastCommitted>>

Finish(t) ==
  /\ up
  /\ TM!Finish(t)
  /\ opened' = TRUE
  /\ UNCHANGED <<sstVars, memTable, wal, call, lastCommitted>>

-------------------------------------------------------------------------------
\* The process dies, between two steps or inside saveManifest.  The transaction
\* manager's variables keep their values until NewDB only as a record of what
\* had been committed.
Down ==
  /\ SST!Crash \/ SST!CrashInSave \/ \E c \in Compactors : SST!CompactPanics(c)
  /\ memTable' = {}
  /\ call' = [f \in Flushers |-> "none"]
  /\ opened' = FALSE
  /\ UNCHANGED <<tmVars, wal, lastCommitted>>

CompactionRuns(c) ==
  /\ \/ SST!CompactBegin(c) \/ SST!CompactCopy(c) \/ SST!CompactBuild(c)
     \/ SST!CompactBuildPart(c) \/ SST!CompactBuildFails(c)
     \/ SST!CompactCreate(c)
     \/ SST!CompactSwap(c) \/ SST!CompactDelete(c) \/ SST!CompactEnd(c)
  /\ UNCHANGED <<tmVars, memTable, wal, call, opened, lastCommitted>>

\* buildMemtableFromWal: the entries, and the largest id in the log.
WalEntries == UNION { EntriesOf(r.writes, r.txnId) : r \in Range(wal) }
maxTxnId == Max({0} \cup { r.txnId : r \in Range(wal) })

\* NewDB: the memtable and the next id come from the log alone.  The catalog
\* is read in a transaction of its own, which is left here inside its Commit:
\* like any other it may find that the memtable must be flushed.
NewDB ==
  LET t == maxTxnId + 1
  IN  /\ Reopen
      /\ SST!NewSsTable
      /\ t \in TxnIds
      /\ memTable' = WalEntries
      /\ wal' = Append(wal, CatalogRecord(t))
      /\ nextTransactionId' = t + 1
      /\ activeTransactionsMap' = {t}
      /\ keyVsLocksAcquiredMap' = [k \in Keys |-> 0]
      /\ phase' = [u \in TxnIds |-> IF u < t THEN "committed"
                                   ELSE IF u = t THEN "applying" ELSE "none"]
      /\ snapshot' = [u \in TxnIds |-> IF u = t THEN {t} ELSE {}]
      /\ bufferedWriteMap' = [u \in TxnIds |-> TM!NoWrites]
      /\ lockAcquiredKeys' = [u \in TxnIds |-> {}]
      /\ versions' = {}
      /\ UNCHANGED <<call, opened, lastCommitted>>

TransactionRuns(t) ==
  \/ Begin(t) \/ CommitWal(t) \/ Rollback(t) \/ CommitApplied(t) \/ Finish(t)
  \/ \E k \in Keys : CommitPut(t, k) \/ releaseLock(t, k)
  \/ \E k \in Keys, v \in Values : Put(t, k, v)

FlushRuns(f) ==
  \/ FlushStart(f) \/ FlushInstall(f) \/ FlushCheck(f)
  \/ ClearMemtable(f) \/ ClearWal(f)

Next ==
  \/ \E t \in TxnIds : TransactionRuns(t)
  \/ \E f \in Flushers : FlushRuns(f)
  \/ \E c \in Compactors : CompactionRuns(c)
  \/ Down \/ NewDB

Spec == Init /\ [][Next]_vars

-------------------------------------------------------------------------------
(***************************************************************************)
(* Properties                                                              *)
(***************************************************************************)

\* getWithSnapshot: the memtable, and only if it has nothing to show, the files.
getWithSnapshot(k, t, activeTxnMap) ==
  LET m == MemtableGet(memTable, k, t, activeTxnMap)
  IN  IF m # {} THEN m ELSE SST!SsTableGet(k, t, activeTxnMap)

Held == memTable \cup UNION { disk[i] : i \in Range(firstLevelFiles) }

\* What survives a crash now: the log and the files manifest.json names.
Durable == WalEntries \cup UNION { disk[i] : i \in Range(diskManifest.fileNames) }

Logged == { e \in versions :
              phase[e.txnId] \in {"applying", "releasing", "committed"} }
NewestOf(S) == { e \in S : \A f \in S : f.key = e.key => f.txnId <= e.txnId }

\* Between any two steps the newest logged version of each key is in the log
\* or in a file of the manifest: the flush installs the file before it
\* truncates the log, and no compaction in the background removes it.  Nothing
\* is said of a process that died inside saveManifest.
DurableHoldsNewest ==
  saved = "whole" /\ ~damaged => NewestOf(Logged) \subseteq Durable

\* The storage below the transaction manager is transparent: memtable, files,
\* block index, flushes and compactions return to every open transaction what
\* a memtable that never forgot anything would.
StorageTransparent ==
  up => \A t \in TxnIds, k \in Keys :
          phase[t] = "open" /\ k \notin DOMAIN bufferedWriteMap[t]
            => getWithSnapshot(k, t, snapshot[t]) = TM!Get(t, k)

\* A read of an open transaction, wherever it finds its version, returns one
\* that was committed before the transaction began.
ReadsCommitted ==
  up => \A t \in TxnIds, k \in Keys :
          phase[t] = "open" =>
            \A e \in getWithSnapshot(k, t, snapshot[t]) :
              phase[e.txnId] = "committed" /\ e.txnId \notin snapshot[t]

\* A transaction that begins now, with none open, reads the last value
\* committed for each key, also after crashes.
LastCommitReadable ==
  up /\ opened /\ activeTransactionsMap = {} =>
    \A k \in Keys :
      LET read == getWithSnapshot(k, nextTransactionId, {nextTransactionId})
      IN  { e.value : e \in read } = { e.value : e \in lastCommitted[k] }

\* The ids follow the order of the commits: of each key, the version committed
\* last has the largest id, and no other version has that id too.
IdsGrow ==
  /\ \A e \in Held : e.txnId < nextTransactionId
  /\ \A k \in Keys : \A e \in lastCommitted[k], f \in Held :
       f.key = k /\ f # e => f.txnId < e.txnId

\* Then a transaction that begins with none open reads the very version that
\* was committed last, through flushes, compactions, crashes and restarts,
\* unless a crash left an empty manifest.json or a file whose id was used again.
LastVersionReadable ==
  up /\ opened /\ activeTransactionsMap = {} /\ IdsGrow /\ ~damaged =>
    \A k \in Keys :
      getWithSnapshot(k, nextTransactionId, {nextTransactionId}) = lastCommitted[k]

\* NewDB finds the newest version of each key of the first run again, wherever
\* that was killed outside saveManifest.  (Later runs start the ids anew from
\* the log, so that a version of theirs may not be the newest any more.)
RecoveryComplete ==
  [][NewDB /\ crashes <= 1 /\ ~damaged' => NewestOf(Logged) \subseteq Held']_vars
===============================================================================
