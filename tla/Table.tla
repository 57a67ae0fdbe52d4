--------------------------------- MODULE Table ---------------------------------
(***************************************************************************)
(* INSERT and SELECT on one table: InsertIntoTable (db/db.go) puts a row   *)
(* and an entry for each secondary index in one transaction, and           *)
(* SelectFromTable (db/select.go) reads through an index, by primary key   *)
(* or by a scan of the whole table, in a transaction of its own.  Calls    *)
(* run in goroutines of their own over TransactionManager, a memtable and  *)
(* the list of files that Commit's flush appends to.  Reading the memtable *)
(* and reading the files are separate steps.                               *)
(*                                                                         *)
(* Rows have integer columns.  Compaction, crashes and I/O errors are in   *)
(* DB and SsTable and not here.                                            *)
(***************************************************************************)
EXTENDS Versions, Sequences, FiniteSets, SequencesExt, Functions

CONSTANTS MaxTxnId,           \* bound on the transaction ids handed out
          MaxSelects,         \* bound on the SELECTs among them
          MaxCalls,           \* bound on the calls under way at once
          PkColumn,           \* the primary key's column
          RowsToInsert,       \* rows that clients insert: column -> value
          StoredRows,         \* rows that an earlier run left in a file
          SecondaryIndexes,   \* the table's indexes: [name, columns]
          Queries,            \* sequences of conditions that clients ask for
          NoValue,            \* the value of an index entry: ""
          MemtableSizeLimit   \* memtableSizeLimit, counted in entries

ASSUME TableAssumption ==
  /\ \A r \in RowsToInsert \cup StoredRows : PkColumn \in DOMAIN r
  /\ \A r, s \in StoredRows : r[PkColumn] = s[PkColumn] => r = s
  /\ SecondaryIndexes \in Seq([name : STRING, columns : Seq(STRING)])
  /\ \A i \in DOMAIN SecondaryIndexes :
       SecondaryIndexes[i].name # "" /\ SecondaryIndexes[i].columns # <<>>
  /\ \A q \in Queries : q \in Seq(Range(q))
  /\ MaxTxnId \in Nat /\ 2 <= MaxTxnId
  /\ MemtableSizeLimit \in Nat \ {0}
  /\ MaxSelects \in Nat
  /\ MaxCalls \in Nat \ {0}

VARIABLES
  nextTransactionId, activeTransactionsMap, keyVsLocksAcquiredMap, phase,
  snapshot, bufferedWriteMap, lockAcquiredKeys, versions,
  memTable,   \* the entries in the memtable's tree
  files,      \* the entries of each file, oldest file first
  blockStarts,  \* for each file, see BlockOpenings
  op,         \* how far the INSERT or SELECT of each transaction is
  raced       \* history: two writers met (see InsertBegin and CommitPut)

TM == INSTANCE TransactionManager WITH FirstTxnId <- 2, StorageFaults <- FALSE

tmVars == <<nextTransactionId, activeTransactionsMap, keyVsLocksAcquiredMap,
            phase, snapshot, bufferedWriteMap, lockAcquiredKeys, versions>>
vars == <<tmVars, memTable, files, blockStarts, op, raced>>

TxnIds == TM!TxnIds

-------------------------------------------------------------------------------
(***************************************************************************)
(* Keys, conditions and the choice of an index                             *)
(***************************************************************************)

\* "<table>:<pk>"
RowKey(pk) == [index |-> "", values |-> <<>>, pk |-> pk]

\* "index:<table>:<index>:<value 1>:...:<value n>:<pk>"
IndexKey(index, r) ==
  [index |-> index.name,
   values |-> [j \in DOMAIN index.columns |-> r[index.columns[j]]],
   pk |-> r[PkColumn]]

\* The keys that start with the prefix for a scan of a table or of an index.
HasPrefix(k, index, values) == k.index = index /\ IsPrefix(values, k.values)

\* isQueryConditionApplicable.  A condition is [column, type, value].
Applicable(r, qc) ==
  \/ qc.type = "=" /\ r[qc.column] = qc.value
  \/ qc.type = "<" /\ r[qc.column] < qc.value
  \/ qc.type = "<=" /\ r[qc.column] <= qc.value
  \/ qc.type = ">" /\ r[qc.column] > qc.value
  \/ qc.type = ">=" /\ r[qc.column] >= qc.value

IsPointed(q) == Len(q) = 1 /\ q[1].column = PkColumn /\ q[1].type = "="
IsFullScan(q) == q = <<>>

\* The leading columns of an index that the query has conditions on.
Covered(index, q) ==
  LET asked == { qc.column : qc \in Range(q) }
      n == CHOOSE m \in 0 .. Len(index.columns) :
             /\ \A j \in 1 .. m : index.columns[j] \in asked
             /\ m < Len(index.columns) => index.columns[m + 1] \notin asked
  IN  SubSeq(index.columns, 1, n)

FullyCovered(index, q) == Covered(index, q) = index.columns

\* getSecondaryIndexForQueryIfApplicable: the first index that is covered to
\* its end, else the last one with a leading column covered, else none (0).
ChosenIndex(q) ==
  LET full    == { i \in DOMAIN SecondaryIndexes :
                     FullyCovered(SecondaryIndexes[i], q) }
      partial == { i \in DOMAIN SecondaryIndexes :
                     Covered(SecondaryIndexes[i], q) # <<>> }
  IN  IF full # {} THEN Min(full) ELSE IF partial # {} THEN Max(partial) ELSE 0

UsesIndex(q) == ~IsPointed(q) /\ ChosenIndex(q) # 0

\* The values behind the index name in the prefix: for each covered column,
\* those of all conditions on it, whatever their type.
PrefixValues(q) ==
  LET covered == Covered(SecondaryIndexes[ChosenIndex(q)], q)
      valuesOf(column) ==
        LET qcs == SelectSeq(q, LAMBDA qc : qc.column = column)
        IN  [j \in DOMAIN qcs |-> qcs[j].value]
  IN  FlattenSeq([j \in DOMAIN covered |-> valuesOf(covered[j])])

\* A slip (see PROJECT.json): the prefix is cut short and all keys match.
InScanAllKeys(k, q) == TRUE

InScan(k, q) ==
  IF UsesIndex(q)
  THEN HasPrefix(k, SecondaryIndexes[ChosenIndex(q)].name, PrefixValues(q))
  ELSE HasPrefix(k, "", <<>>)

\* The primary keys that appear in rows and pointed queries.
Rows == RowsToInsert \cup StoredRows
Pks  == { r[PkColumn] : r \in Rows }

ASSUME KeysAssumption ==
  /\ \A r \in Rows :
       /\ r \in Values /\ RowKey(r[PkColumn]) \in Keys
       /\ \A i \in DOMAIN SecondaryIndexes : IndexKey(SecondaryIndexes[i], r) \in Keys
  /\ NoValue \in Values
  /\ \A q \in Queries : IsPointed(q) => q[1].value \in Pks

\* filterQueryConditions on what the scan found, skipping the conditions on
\* columns that the index covers.  Behind an index covered to its end, and
\* behind a pointed query, nothing is filtered.
Filtered(rows, q) ==
  LET skipped == IF UsesIndex(q)
                 THEN Range(Covered(SecondaryIndexes[ChosenIndex(q)], q))
                 ELSE {}
  IN  IF \/ IsPointed(q) \/ IsFullScan(q)
         \/ UsesIndex(q) /\ FullyCovered(SecondaryIndexes[ChosenIndex(q)], q)
      THEN rows
      ELSE { r \in rows : \A qc \in Range(q) :
               qc.column \in skipped \/ Applicable(r, qc) }

\* PrefixScan of a set of entries: the newest visible one of each key.
PrefixScan(S, q, t) ==
  UNION { MemtableGet(S, k, t, snapshot[t])
            : k \in { e.key : e \in { f \in S : InScan(f.key, q) } } }

\* writeDataBlocks: a block that opens with a version of a row behind older
\* versions of it.  Which entries open a block depends on their lengths.
BlockOpenings(S) ==
  { e \in S : /\ e.key.index = ""
              /\ \E f \in S : f.key = e.key /\ f.txnId < e.txnId }

\* What Get reads of a row in file i: getLowerBound names the last block that
\* opens with the key, and the versions in earlier blocks are not read.
Searched(i, k) ==
  { e \in files[i] :
      \A b \in blockStarts[i] : b.key = k => b.txnId <= e.txnId }

\* A slip (see PROJECT.json): only the newest file is searched.
GetNewestFile(k, t) ==
  MemtableGet(Searched(Len(files), k), k, t, snapshot[t])

\* The files hold the row of a key in the newest file where Get meets a
\* visible version.
FilesGet(k, t) ==
  LET found == { i \in DOMAIN files :
                   VisibleEntries(Searched(i, k), k, t, snapshot[t]) # {} }
  IN  IF found = {} THEN {}
      ELSE MemtableGet(Searched(Max(found), k), k, t, snapshot[t])

-------------------------------------------------------------------------------
(***************************************************************************)
(*   idle         the id is not handed out                                 *)
(*   row, index   INSERT is about to put the row, the next index entry     *)
(*   scan, files  SELECT is about to scan the memtable, the files          *)
(*   get, getFiles  SELECT is about to look for a row in the memtable, in  *)
(*                the files                                                *)
(*   commit       Commit was called                                        *)
(*   clear        Commit's flush installed its file                        *)
(*   flushed      Commit's flush is over                                   *)
(*   failed       SELECT is in Rollback                                    *)
(*   returned     the call returned                                        *)
(***************************************************************************)
Pcs == {"idle", "row", "index", "scan", "files", "get", "getFiles", "commit",
        "clear", "flushed", "failed", "returned"}

IsInsert(t) == "row" \in DOMAIN op[t]
IsSelect(t) == "query" \in DOMAIN op[t]

TypeOK ==
  /\ memTable \subseteq Entry
  /\ \A i \in DOMAIN files : files[i] \subseteq Entry
  /\ DOMAIN blockStarts = DOMAIN files
  /\ \A i \in DOMAIN files : blockStarts[i] \subseteq BlockOpenings(files[i])
  /\ \A t \in TxnIds :
       /\ op[t].pc \in Pcs
       /\ IsInsert(t) => /\ op[t].row \in RowsToInsert
                         /\ op[t].next \in 1 .. Len(SecondaryIndexes) + 1
       /\ IsSelect(t) => /\ op[t].query \in Queries
                         /\ op[t].memTableMap \subseteq Entry
                         /\ op[t].primaryKeyIds \subseteq Pks
                         /\ op[t].queryResult \subseteq Rows
  /\ raced \in BOOLEAN

\* What an INSERT of row r by transaction t stores.
EntriesFor(r, t) ==
  {[key |-> RowKey(r[PkColumn]), value |-> r, txnId |-> t]}
    \cup { [key |-> IndexKey(SecondaryIndexes[i], r), value |-> NoValue,
            txnId |-> t] : i \in DOMAIN SecondaryIndexes }

Stored == UNION { EntriesFor(r, 1) : r \in StoredRows }

\* NewDB has opened a directory with one file.
Init ==
  /\ TM!Init
  /\ memTable = {}
  /\ files = <<Stored>> /\ blockStarts = <<{}>>
  /\ op = [t \in TxnIds |-> [pc |-> "idle"]]
  /\ raced = FALSE

Goto(t, pc) == op' = [op EXCEPT ![t].pc = pc]

UnderWay(t) == op[t].pc \notin {"idle", "returned"}

Begin(t) ==
  /\ Cardinality({ u \in TxnIds : UnderWay(u) }) < MaxCalls
  /\ TM!Begin(t)

-------------------------------------------------------------------------------
(***************************************************************************)
(* INSERT: InsertIntoTable and updateSecondaryIndexes                      *)
(***************************************************************************)

\* Two INSERTs of one primary key under way at once are a race: the write
\* lock makes one of them fail halfway, or is free again and does not help.
InsertBegin(t, r) ==
  /\ Begin(t)
  /\ op' = [op EXCEPT ![t] = [pc |-> "row", row |-> r, next |-> 1]]
  /\ raced' = (raced \/ \E u \in TxnIds : /\ IsInsert(u) /\ UnderWay(u)
                                          /\ op[u].row[PkColumn] = r[PkColumn])
  /\ UNCHANGED <<memTable, files, blockStarts>>

\* The number of values is wrong, or one is no integer: InsertIntoTable
\* returns the error and leaves its transaction open.
InsertRefused(t) ==
  /\ Begin(t)
  /\ Goto(t, "returned")
  /\ UNCHANGED <<memTable, files, blockStarts, raced>>

InsertRow(t) ==
  /\ op[t].pc = "row"
  /\ TM!Put(t, RowKey(op[t].row[PkColumn]), op[t].row)
  /\ Goto(t, "index")
  /\ UNCHANGED <<memTable, files, blockStarts, raced>>

Locked(t, k) == keyVsLocksAcquiredMap[k] \notin {0, t}

\* The Put of the row meets a lock.  InsertIntoTable calls Rollback, which
\* finds no lock and no write of t and removes its id, and then goes on.
InsertRowFails(t) ==
  /\ op[t].pc = "row"
  /\ Locked(t, RowKey(op[t].row[PkColumn]))
  /\ activeTransactionsMap' = activeTransactionsMap \ {t}
  /\ Goto(t, "index")
  /\ UNCHANGED <<nextTransactionId, keyVsLocksAcquiredMap, phase, snapshot,
                 bufferedWriteMap, lockAcquiredKeys, versions, memTable,
                 files, blockStarts, raced>>

\* A round of updateSecondaryIndexes.  The error of Put is dropped.
InsertIndexEntry(t) ==
  /\ op[t].pc = "index"
  /\ op[t].next \in DOMAIN SecondaryIndexes
  /\ LET k == IndexKey(SecondaryIndexes[op[t].next], op[t].row)
     IN  \/ TM!Put(t, k, NoValue)
         \/ Locked(t, k) /\ UNCHANGED tmVars
  /\ op' = [op EXCEPT ![t].next = @ + 1]
  /\ UNCHANGED <<memTable, files, blockStarts, raced>>

-------------------------------------------------------------------------------
(***************************************************************************)
(* SELECT: SelectFromTable                                                 *)
(***************************************************************************)
SelectBegin(t, q) ==
  /\ Cardinality({ u \in TxnIds : IsSelect(u) }) < MaxSelects
  /\ Begin(t)
  /\ op' = [op EXCEPT ![t] =
              [pc            |-> IF IsPointed(q) THEN "get" ELSE "scan",
               query         |-> q,
               memTableMap   |-> {},
               primaryKeyIds |-> IF IsPointed(q) THEN {q[1].value} ELSE {},
               pk            |-> NoValue,
               queryResult   |-> {}]]
  /\ UNCHANGED <<memTable, files, blockStarts, raced>>

\* memTable.PrefixScan in fullTableScan or secondaryIndexPrefixScan
ScanMemtable(t) ==
  /\ op[t].pc = "scan"
  /\ op' = [op EXCEPT ![t].pc = "files",
                      ![t].memTableMap = PrefixScan(memTable, op[t].query, t)]
  /\ UNCHANGED <<tmVars, memTable, files, blockStarts, raced>>

\* A slip (see PROJECT.json): what the memtable has makes the files look
\* superfluous, as it does in Get.
MergedLikeGet(m, f) == IF m # {} THEN m ELSE f

\* What the memtable had of a key hides what the files have.
Merged(m, f) == m \cup { e \in f : \A g \in m : g.key # e.key }

\* ssTable.PrefixScan over all files, and the merge of the two maps.
ScanFiles(t) ==
  /\ op[t].pc = "files"
  /\ LET found == Merged(op[t].memTableMap,
                       PrefixScan(UNION Range(files), op[t].query, t))
     IN  op' = IF UsesIndex(op[t].query)
               THEN [op EXCEPT ![t].pc = "get",
                               ![t].primaryKeyIds = { e.key.pk : e \in found }]
               ELSE [op EXCEPT ![t].pc = "get",
                               ![t].queryResult = { e.value : e \in found }]
  /\ UNCHANGED <<tmVars, memTable, files, blockStarts, raced>>

\* getRowForPrimaryKey found the row of a key.
Found(t, pk, e) ==
  op' = [op EXCEPT ![t].pc = "get",
                   ![t].primaryKeyIds = @ \ {pk},
                   ![t].pk = NoValue,
                   ![t].queryResult = @ \cup {e.value}]

\* getRowForPrimaryKey for the next key, as far as the memtable.  Go iterates
\* over pkSet in any order.
GetMemtable(t, pk) ==
  /\ op[t].pc = "get" /\ pk \in op[t].primaryKeyIds
  /\ LET m == MemtableGet(memTable, RowKey(pk), t, snapshot[t])
     IN  \/ m = {} /\ op' = [op EXCEPT ![t].pc = "getFiles", ![t].pk = pk]
         \/ \E e \in m : Found(t, pk, e)
  /\ UNCHANGED <<tmVars, memTable, files, blockStarts, raced>>

\* ... and its files.  A row that is not found is "", which
\* deserializeRowValues rejects: SELECT rolls back and returns the error.
GetFiles(t) ==
  /\ op[t].pc = "getFiles"
  /\ LET f == FilesGet(RowKey(op[t].pk), t)
     IN  \/ /\ f = {} /\ TM!Rollback(t) /\ Goto(t, "failed")
         \/ /\ \E e \in f : Found(t, op[t].pk, e)
            /\ UNCHANGED tmVars
  /\ UNCHANGED <<memTable, files, blockStarts, raced>>

-------------------------------------------------------------------------------
(***************************************************************************)
(* Commit, with the flush of the memtable, and Rollback                    *)
(***************************************************************************)

\* The last statement of both calls; SELECT's result is ready.
Commit(t) ==
  /\ \/ op[t].pc = "index" /\ op[t].next \notin DOMAIN SecondaryIndexes
     \/ op[t].pc = "get" /\ op[t].primaryKeyIds = {}
  /\ TM!CommitWal(t)
  /\ op' = IF IsSelect(t)
           THEN [op EXCEPT ![t].pc = "commit",
                           ![t].queryResult = Filtered(@, op[t].query)]
           ELSE [op EXCEPT ![t].pc = "commit"]
  /\ UNCHANGED <<memTable, files, blockStarts, raced>>

\* An entry put into the memtable between the Iterate and the Clear of
\* another transaction's flush is a race too: Clear removes it.
CommitPut(t, k) ==
  /\ TM!CommitPut(t, k)
  /\ memTable' = MemtablePut(memTable, k, bufferedWriteMap[t][k], t)
  /\ raced' = (raced \/ \E u \in TxnIds : op[u].pc = "clear")
  /\ UNCHANGED <<files, blockStarts, op>>

ShouldFlush == Cardinality(memTable) >= MemtableSizeLimit

\* createSsTableAndClearWalAndMemTable: the file is installed, ...
FlushInstall(t) ==
  /\ op[t].pc = "commit" /\ TM!Applied(t) /\ phase[t] = "applying" /\ ShouldFlush
  /\ files' = Append(files, memTable)
  /\ \E B \in SUBSET BlockOpenings(memTable) : blockStarts' = Append(blockStarts, B)
  /\ Goto(t, "clear")
  /\ UNCHANGED <<tmVars, memTable, raced>>

\* ... then the memtable is cleared.
FlushClear(t) ==
  /\ op[t].pc = "clear"
  /\ memTable' = {}
  /\ Goto(t, "flushed")
  /\ UNCHANGED <<tmVars, files, blockStarts, raced>>

CommitApplied(t) ==
  /\ TM!CommitApplied(t)
  /\ op[t].pc = "flushed" \/ (op[t].pc = "commit" /\ ~ShouldFlush)
  /\ UNCHANGED <<memTable, files, blockStarts, op, raced>>

releaseLock(t, k) ==
  /\ TM!releaseLock(t, k)
  /\ UNCHANGED <<memTable, files, blockStarts, op, raced>>

Finish(t) ==
  /\ TM!Finish(t)
  /\ Goto(t, "returned")
  /\ UNCHANGED <<memTable, files, blockStarts, raced>>

-------------------------------------------------------------------------------
CallStep(t) ==
  \/ InsertRow(t) \/ InsertRowFails(t) \/ InsertIndexEntry(t)
  \/ ScanMemtable(t) \/ ScanFiles(t) \/ GetFiles(t)
  \/ \E pk \in Pks : GetMemtable(t, pk)
  \/ Commit(t) \/ FlushInstall(t) \/ FlushClear(t) \/ CommitApplied(t)
  \/ \E k \in Keys : CommitPut(t, k) \/ releaseLock(t, k)
  \/ Finish(t)

Next ==
  \E t \in TxnIds :
    \/ \E r \in RowsToInsert : InsertBegin(t, r)
    \/ InsertRefused(t)
    \/ \E q \in Queries : SelectBegin(t, q)
    \/ CallStep(t)

Spec == Init /\ [][Next]_vars

-------------------------------------------------------------------------------
(***************************************************************************)
(* Properties                                                              *)
(***************************************************************************)

\* What transaction t reads of a key in a store that forgets nothing.
Read(t, k) == MemtableGet(Stored \cup versions, k, t, snapshot[t])

\* The rows committed before transaction t began, by the row keys alone.
RowsAt(t) == { e.value : e \in UNION { Read(t, RowKey(pk)) : pk \in Pks } }

Answer(t) == { r \in RowsAt(t) : \A qc \in Range(op[t].query) : Applicable(r, qc) }

\* What a table and its queries must be like for a SELECT through an index to
\* be right: the row of a primary key keeps its index entries, ...
RowsKeepIndexes ==
  \A r, s \in Rows : r[PkColumn] = s[PkColumn] =>
    \A i \in DOMAIN SecondaryIndexes :
      IndexKey(SecondaryIndexes[i], r) = IndexKey(SecondaryIndexes[i], s)

\* ... the covered columns have one value each, that of an equality, there is
\* no further condition behind an index covered to its end, and no other index
\* has the name of the chosen one.
QueriesFitIndexes ==
  \A q \in Queries : UsesIndex(q) =>
    LET chosen  == ChosenIndex(q)
        covered == Covered(SecondaryIndexes[chosen], q)
    IN  /\ PrefixValues(q) \in [DOMAIN covered -> { qc.value : qc \in Range(q) }]
        /\ \A qc \in Range(q), j \in DOMAIN covered :
             qc.column = covered[j]
               => qc.type = "=" /\ qc.value = PrefixValues(q)[j]
        /\ FullyCovered(SecondaryIndexes[chosen], q) =>
             \A qc \in Range(q) : qc.column \in Range(covered)
        /\ \A i \in DOMAIN SecondaryIndexes :
             SecondaryIndexes[i].name = SecondaryIndexes[chosen].name => i = chosen

\* ... and no block opens with a version of a row, behind older ones, that the
\* SELECT must not see: Get would start there and miss what it is to return.
SeesBlockStarts(t) ==
  \A i \in DOMAIN files : \A b \in blockStarts[i] : CanSee(b.txnId, t, snapshot[t])

\* The result of a SELECT is the set of rows that satisfy its conditions and
\* were committed when it began, whichever index it goes through and however
\* INSERTs and flushes run between its scan of the memtable, its scan of the
\* files and its lookups, unless two writers met or a data block opens with a
\* version that the SELECT must not see.
SelectMatchesSnapshot ==
  \A t \in TxnIds :
    /\ IsSelect(t) /\ op[t].pc \in {"commit", "clear", "flushed"}
    /\ ~raced /\ SeesBlockStarts(t)
    => op[t].queryResult = Answer(t)

\* SELECT returns an error only for a primary key that is not there: no index
\* entry it can see points to a row that it cannot find, unless two writers
\* met or a data block opens with a version that the SELECT must not see.
SelectFindsRows ==
  \A t \in TxnIds :
    op[t].pc = "failed" /\ ~raced /\ SeesBlockStarts(t)
      => IsPointed(op[t].query) /\ Answer(t) = {}

===============================================================================
