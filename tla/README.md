# A TLA+ verification of SaarDB

SaarDB is a small LSM-tree database in Go: multi-version transactions over a
memtable, a write-ahead log, SSTable files with background compaction, and a
first SQL layer. This directory holds TLA+ models of its transaction manager,
storage engine, write-ahead log, catalog, table layer and parser, TLC
configurations that check them on small instances, and TLAPS proofs about all of
them. `PROJECT.json` records, for every definition,
the source lines it models; for every property, a changed form of an operation
that the property rejects; and the hazards the properties are for.

## Inventory

| Component | State | Operations | Modelled in |
|---|---|---|---|
| Transaction manager (`db/transaction.go`, `db/db.go`) | `nextTransactionId`, `activeTransactionsMap`, `keyVsLocksAcquiredMap`; per handle `activeTransactionsSnapshot`, `bufferedWriteMap`, `lockAcquiredKeys` | Begin, Put, Get, Commit, Rollback | `TransactionManager`, `SnapshotIsolation` |
| Memtable (`memtable/memtable.go`) | a btree of (key, txnId, value), its size | Get, Put, Iterate, Clear, ShouldFlush, PrefixScan | `Versions`, `DB`; PrefixScan in `Table` |
| Write-ahead log (`wal/wal.go`) | one append-only file | NewWal, WriteEntry, ReadEntry, Clear | `Wal` (bytes), `DB` (whole records) |
| SSTable (`sstable/sstable.go`) | `firstLevelFiles`, `indexBlocks`, `indexOffsets`, the files | NewFile, Write, Get, PrefixScan, NewSsTable | `SsTable`; PrefixScan in `Table` |
| Compaction (`sstable/compaction.go`) | `compacting`; locals of RunCompaction | ShouldRunCompaction, RunCompaction, atomicSwap | `SsTable` |
| Manifest (`sstable/manifest.go`) | `NextFileId`, `FileNames`, and `manifest.json` | saveManifest, getManifest | `SsTable` |
| DB (`db/db.go`) | the parts above | NewDB, FlushMemtable, flush, recovery, getWithSnapshot | `DB` |
| Catalog (`db/create.go`, `db/db.go`) | `tableNameVsSchemaMap`, three kinds of catalog keys | CreateTable, getTableNameVsSchemaMap | `Catalog` |
| INSERT, SELECT, indexes (`db/db.go`, `db/select.go`) | rows and index entries as keys | InsertIntoTable, SelectFromTable | `Table` |
| SQL parser (`sql_parser/`) | token position, the tree being built | ParseCreateTable, ParseInsertIntoTable, ParseSelectFromTable | `SqlParser` |
| REPL (`main.go`) | none | one command after the other | its single goroutine only, in `DB` and `Wal` |
| Benchmark paths (`skipIndex`, `linearSearch`) | none | SSTable reads without the index | not modelled |

How they interact. A transaction buffers its writes and takes a write lock per
key, at once or with an error; nobody waits. Commit appends one log record,
stores the writes in the memtable one by one, and if the memtable has reached
its limit flushes it: a new file is written, installed in the list and in
`manifest.json`, perhaps a compaction goroutine is started, and then the
memtable and the log are cleared. Only then are the locks released, outside the
mutex, and the id leaves `activeTransactionsMap`. Reads look in the memtable,
then in the files from the newest to the oldest. NewDB replays the log into a
new memtable, opens the files of the manifest, takes the next transaction id
from the log, and reads the catalog in a transaction of its own. CREATE TABLE
is three separate Puts of catalog keys. INSERT puts a row and one key per
secondary index in one transaction; SELECT scans memtable and files by a key
prefix and looks the rows up one by one, in a transaction of its own.

Hard behaviour: client goroutines interleave inside Commit and Rollback (most of
it without a mutex); compactions run in the background and may overlap; a crash
may come between any two writes to log, files and manifest; file operations may
fail in the middle of a flush or a compaction; ids are ordered by Begin and
versions are stored in the order of Commit; a log write or a CREATE TABLE may
stop in the middle; a SELECT makes many reads while INSERTs commit and flush.

What makes each part correct:

- transactions: repeatable reads of committed data only, atomic commits, lock
  bookkeeping that survives the unlocked release, calls that return;
- files: parallel lists that stay aligned, a manifest whose files exist, an
  order by age that Get may rely on, no version dropped that is not superseded,
  a compaction flag that is reset;
- the log: a replay that takes whole transactions, all acknowledged ones, and
  refuses to open only for a reason;
- the whole: storage that is transparent to transactions, newest versions that
  are durable at every instant, recovery that finds them;
- catalog: tables that come back after a restart as they were created;
- table layer: a SELECT that returns the rows of its snapshot that satisfy its
  conditions, whichever index it goes through;
- parser: the trees of a grammar's sentences, and an end for every input.

## Modules

- **Versions**: entries, the visibility rule `CanSee` that is written out four
  times in the code, and the memtable as a set of entries. Reads return a set
  of at most one entry; the empty set is "not found".
- **SnapshotIsolation**: the abstract specification: atomic Begin, Write,
  Commit, Abort, and a Read that sees what was committed at Begin. It promises
  nothing about conflicting writers, because the code does not either.
- **TransactionManager**: one action per critical section of
  `transactionManager.mu` and per unlocked access to shared state.
  `phase[t]` is the position of a transaction's goroutine; fields of the handle
  belong to that goroutine. `versions` is every entry handed to `memTable.Put`.
  A failed lock attempt or a failed log write changes nothing and needs no
  action. A handle is taken not to be used after its call returned nil.
- **SsTable**: flush, compaction, manifest, crash and restart. A file is an id
  and a set of entries; the index block is the subset of entries that open a
  block of `EntriesPerBlock` entries (the code fills blocks by bytes).
  `indexBlocks` and `indexOffsets` record for each position the file they are
  about. `saveManifest` is part of the critical section of a flush and of the
  swap; with failing I/O it leaves manifest.json as it was, empty or torn
  (`saved`), and nobody looks. A file that was written in part, or under an id
  whose file was already there, is in `garbled`, and `disk` has all that a reader
  may find in it; a compaction may fail on it or take any part of it. `damaged`
  remembers that one of three things has happened: such a file was used or its
  id reused, a compaction could not write its file and went on, or a restart
  read a manifest that was not saved. `Compactors` bounds the compactions alive:
  a flush waits where the code would start one more. A crash is a crash of the
  process: finished system calls survive it (the code syncs the log and never
  the data files or the manifest, so a power failure could do more).
- **DB**: instances of both with the memtable and the log between them. Every
  action is an action of a component conjoined with what `db.go` adds. Clients
  call from one goroutine, as `main.go` does (`Concurrent = FALSE`), or from
  several. `lastCommitted` is a history variable. `versions` of the transaction
  manager starts empty in each run of the program, since it stands for what
  that run stored.
- **Wal**: the log as a file of cells. A record is a length field of
  `FieldCells` cells, one cell per length-prefixed item of the payload, and a
  checksum field, so that each of the three can be there in part. A cell
  remembers the record it was written for; a reader that takes cells of one
  field for another gets `Garbage`, which no checksum matches (checksums are
  taken to have no collisions). Write may stop anywhere, Sync may fail after
  the write, the caller retries Commit or gives up. A crash keeps what was
  synced and any part of the rest; a Truncate that succeeds is durable. One
  Commit at a time, as from `main.go`.
- **Catalog**: CREATE TABLE by several goroutines. The map entry is made first,
  then the three Puts follow, each of which takes a lock, meets one, commits, or
  fails, with its value stored or not, and then keeps its lock; createTable drops
  their errors. The codecs that turn index columns into positions and back are
  operators. The store below is abstract: it keeps the value whose Put took the
  lock last, also over a crash (`DB` shows when that is so). Begin and the lock
  are one step, so that ids grow in the order of the locks; in the code another
  Put may come between, and a value with a smaller id is then stored and not
  read. `made`, `rivals` and `lost` are history: the statement of the last call
  that ran to its end, whether another call on the same table overlapped with it,
  and which of its Puts stored nothing.
- **Table**: INSERT and SELECT in goroutines of their own, over an instance of
  `TransactionManager`, a memtable and a list of files. A key is a record
  (index, values, pk), which stands for the string with ":" between its parts.
  Scanning the memtable, scanning the files and each lookup are separate steps.
  A flush picks, among the versions of a row that have older ones in front of
  them, which of them open a data block (`blockStarts`): that depends on lengths
  the model does not have. The lookup of a row starts at the last block that
  opens with it (`Searched`).
- **SqlParser**: one step per consume, over tokens that are picked as they are
  read, so one behaviour is the parse of one input. A keyword stands for itself
  and a symbol is called by its name (`"open"`, `"comma"`). The grammar it is
  compared with is a set of sentences, each with its tree. A list keeps at most
  `MaxItems` items, which `ParserAssumption` ties to the length of the input: a
  row that is read to its end has no more.
- **MCTransactionManager, MCSsTable, MCDB, MCWal, MCCatalog, MCTable,
  MCSqlParser**: small instances.
- **TransactionManagerProofs, SsTableProofs, SsTableDataProofs, DBProofs,
  WalProofs, CatalogProofs, TableProofs, SqlParserProofs**: the theorems.
  `SsTableProofs` is about names and lists of files, `SsTableDataProofs` about
  what is in them.

## Runs that pass

No run checks for deadlock: a database with no client calling, no compaction
pending and all bounded ids used may stop, and that is no error.

| Run | Bounds | Shows |
|---|---|---|
| TM_isolation | 4 ids, the first used by NewDB; 2 keys, 1 value; no faults | TypeOK; `SeesOnlyFinished`, `RolledBackInvisible`, `ReadsMatch`; the manager refines `SnapshotIsolation` |
| TM_faults | 3 ids, the first used by NewDB; 2 keys, 2 values; the flush in Commit may fail, and the caller retries or rolls back; fair | `LocksAgree`, `BufferedKeysLocked`, `RepeatableRead`, `CallsReturn` |
| SST_overlap | 3 flushes by 2 flushers, 2 compactions at once, threshold 2, fair | `ListsAgree`, `ManifestFilesExist`, `OnlySupersededDropped`, `FlagReset`, `CompactionEnds` |
| SST_crash | 3 flushes, 1 compaction, I/O errors, those of saveManifest too, 2 crashes, also inside saveManifest | TypeOK, `ListsAgree`, `ManifestFilesExist`, `OldestFirst` |
| DB_sequential | 3 transactions one after the other, 2 keys, memtable limit 2, FlushMemtable calls, compaction in the background | `StorageTransparent`, `DurableHoldsNewest` |
| DB_snapshots | 4 transactions, 2 open at once, 1 key, every commit flushed, 2 compactions | `ReadsCommitted`, `DurableHoldsNewest` |
| DB_crash | ids up to 3, 1 value, one transaction at a time, 2 keys, memtable limit 2, 4 files; 2 crashes at any step, also inside saveManifest, NewDB after each, and up to 3 ids again | TypeOK, `RecoveryComplete`, `LastVersionReadable` |
| Wal_replay | ids up to 4, 2 keys, records of up to 7 payload cells with a limit of 5, 24 cells of file, 1 failing call, 2 crashes | TypeOK, `ReplayAtomic`, `AckedRecovered`, `RefusedOnlyIfTorn` |
| Catalog_restart | 2 tables, 3 statements by 2 goroutines (one with an unknown index column), 1 failing Commit that stored its value or not, 2 crashes | TypeOK, `RestoredAsCreated`, `RefusedOnlyIfDisturbed`, `MadeTablesListed` |
| Table_select | 3 calls, 2 at once, 1 SELECT with 5 queries, an index on two columns, memtable limit 3, any block boundaries between versions of a row | TypeOK, `SelectMatchesSnapshot`, `SelectFindsRows` |
| Parser_language | inputs of up to 13 tokens, limits of 2 columns and 2 conditions, fair | TypeOK, `AcceptsSentences`, `RejectsOnlyOthers`, `ParseEnds` |

Why the bounds are enough. The lock and visibility rules compare two
transactions, or two and a third that reads; three concurrent ones on two keys
give every pair and a bystander. A compaction needs two inputs and something
flushed while it runs; the threshold is 2 instead of 4 so that this happens
with few files, and a third flush lets a second compaction take in the output of
the first. Overlap needs two compactions. One key is enough where files are
compared as wholes, two where a file may lack a key. In the log, a record torn by
one fault or crash, one behind it, and one more after a second restart are what
ReadEntry can confuse; a transaction of two keys is above the size limit and one
of a single key is not. Three CREATE TABLEs are two that overlap and one after a
restart. A SELECT is independent of other SELECTs, so one among two INSERTs,
with one row replaced and one new, meets every order of commit and flush. Thirteen
tokens hold a SELECT with as many columns or conditions as the limits allow and
the beginning of one more, a CREATE TABLE with a column and a PRIMARY KEY clause
in either order, or with four columns, and an INSERT of up to seven values.

Fairness. `TM_faults` assumes weak fairness of `CallStep(t)`: the Go
scheduler runs a goroutine that is inside Commit or Rollback again and again,
and no step of these calls waits. Nothing obliges a client to Commit.
`SST_overlap` assumes weak fairness of `CompactStep(c)`, for the same reason;
nobody has to flush. `Parser_language` assumes weak fairness of `Next`: the
parser is a sequential function that goes on until it returns. The mutex steps
need no more than weak fairness: a lock request is part of a step that stays
enabled.

`SST_overlap` and `Wal_replay` say what holds of names and records; neither
states that nothing is lost when a file id is reused or a manifest truncated.
That is what the next section and the premises in the one after it are about.

## Statements the program does not satisfy

Each of these is one statement of a comment or a document, and TLC finds a
behaviour of the model that contradicts it. The first is a run of its own, with a
finding in `PROJECT.json`. The others are definitions that no run checks; a
configuration beside the modules checks each of the next five, and for the last
four it is that of a run with the definition in place of its properties.

| Definition, configuration | Statement | What happens |
|---|---|---|
| `LastCommitReadable`, DB_restart_ids | `docs/journal/part_7_transactions.md:6`: once committed, it stays committed even if the server crashes | NewDB takes the next transaction id from the log alone, so after a flush has emptied the log and a restart the ids start at 1 again, and the versions in the files count as future ones |
| `CommittedKept` (MCDB), DB_manifest_lost | the same | os.WriteFile truncates manifest.json before it writes: after a crash in between NewDB finds an empty manifest, and with it no files. Here the version is not only invisible, it is in nothing the program knows of |
| `FilesKeepFormat` (MCSsTable), SST_reuse | `sstable/sstable.go:81`, `:94`: NewFile creates a new file, which has the format of an SSTable file | after a crash between NewFile and saveManifest the id is handed out again, and O_APPEND puts the new blocks behind the remains of the former file, into which their offsets point |
| `LatestIsInLatestFile` (MCTable), Table_blocks | `sstable/sstable.go:469-470`, `:477`: the last version met in the newest file with one is the latest value | the search starts at the last block that opens with the key; if that version is one the reader must not see, those in the block before are missed, and an older file or none answers. No two writers need to meet: two INSERTs of one key, one after the other, and a SELECT that began between them |
| `RowAndIndexTogether` (MCTable), Table_index_alone | `docs/journal/part_8_sql_v2.md:81`: the row and its index entries are added together | after a failed Put of the row InsertIntoTable rolls back and goes on, and commits the index entries alone |
| `InsertWithColumnsTaken` (MCSqlParser), Parser_insert_columns | `sql_parser/parser.go:187-192`: INSERT INTO name (columns) VALUES (values) is the supported form | the parser requires VALUES behind the name and takes the other form only, as its tests and `README.md:61` do; so does the grammar of `SqlParser` |
| `NoLostUpdate` (MCTransactionManager) | `README.md:35`, `docs/journal/part_mvcc.md:5`: no lost updates | a transaction locks and overwrites a key that was committed after its snapshot |
| `OldestFirst` with two compactions (SsTable) | `sstable/manifest.go:13`, `sstable/compaction.go:171`: the oldest file comes first | `compacting` is tested by the flusher and set later by the new goroutine, so two compactions overlap and the second swap puts newer data in front |
| `NeededVersionHeld` (MCDB) | `sstable/compaction.go:39`, `docs/mvcc_compaction_intuition.md:129`: what minActiveTxnId does not need, nobody does | with 3 committing and 4 having 3 in its snapshot, version 2 is dropped for version 3 |
| `AbortsOnPartialWrite` (MCWal) | `db/db.go:281`, `docs/blog/part1.md:302`: the replay aborts on a partial write | a record that ends exactly between two fields reads as io.EOF, which is the normal end of the log |

## Under which conditions the passing runs pass

Some constants of the passing runs are conditions and not only bounds, and some
properties have premises: the code does not have the property without them. Each
line was tried by changing the constant in the cfg of the run, or by leaving the
premise out, and TLC gives a counterexample.

| Run and property | Condition | Without it |
|---|---|---|
| TM_isolation, `RolledBackInvisible` | `StorageFaults = FALSE` | Commit fails in its flush after filling the memtable; a Rollback of the same handle leaves the versions there |
| SST_crash, `OldestFirst` | one compaction alive | see above |
| DB_crash, `LastVersionReadable` | the directory is not damaged (`~damaged`, a premise) | see `FilesKeepFormat` and `CommittedKept`; a file of old bytes, or of part of its inputs, stands where younger versions should be |
| SST_crash, `OldestFirst` | the same | the same, but it takes two keys and five flushes (`TwoKeys`, `MaxFlushes = 5`), more than the run has: at the run's own bounds the premise makes no difference |
| SST_crash, `ListsAgree` and `ManifestFilesExist` | of manifest.json: the last saveManifest succeeded (`saved = "whole"`, a premise; of the lists in memory both hold with it or without) | its error is dropped, the lists go on without manifest.json, and RunCompaction removes files that it still names |
| SST_overlap, `OnlySupersededDropped` | `IOFaults = FALSE` | the error of writing the compacted file is only logged; the file is swapped in and the inputs are removed |
| DB_sequential, `StorageTransparent` | `MaxActive = 1` | the smaller id commits last and its version, in the newer file, hides the larger one; or the versions of a key span two blocks and the index search starts at the second (`MemtableSizeLimit = 1` or `2`, `CompactionThreshold = 4`, one key) |
| DB_sequential, `StorageTransparent` | `EmptyValue` is not in `Values` | an empty value in a file counts as absent, and an older file answers |
| DB_sequential, DB_snapshots, `DurableHoldsNewest` | `Concurrent = FALSE` | a Commit between another flush's Iterate and Clear loses its memtable entries and its log record |
| DB_crash, `LastVersionReadable` | the last version of each key has the largest id, and no other version has that id (`IdsGrow`, a premise of the property) | see DB_restart_ids |
| DB_crash, `RecoveryComplete` | the first crash, outside saveManifest (`crashes <= 1` and `~damaged`, premises) | see `CommittedKept`; the ids of the second run start at 1 again after a flush has emptied the log, and a compaction drops versions of that run for versions of the first that have larger ids; a second restart does not find them |
| Wal_replay, `AckedRecovered` | no record lies behind a torn one (`Buried`, a premise) | the torn record's length field takes in the record behind it, which is then lost or keeps NewDB from opening |
| Catalog_restart, `RestoredAsCreated` and `RefusedOnlyIfDisturbed` | no other createTable of the same table overlapped with the last one (`rivals`, a premise) | both run to their end and report success, but the schema of the one stays with the indexes of the other, or with positions computed from the other's columns: the table comes back as neither, or NewDB refuses for good |
| Catalog_restart, `RestoredAsCreated` and `RefusedOnlyIfDisturbed` | the schema and the indexes were stored (`lost`, a premise) | a lock that a failed Commit or another call holds, or a failed log write: the error is dropped and createTable returns nil, but the old schema, or none, is read back |
| Catalog_restart, `MadeTablesListed` | all three Puts were stored (`lost`, a premise) | the list of names lacks the table |
| Catalog_restart, `MadeTablesListed` | createTables do not overlap (`overlapped`, a premise) | both collect the names before either stores them, and the later list lacks the other's table |
| Table_select, both | two INSERTs of one key do not overlap, and none commits inside another's flush (`raced`, a premise) | an index entry without its row; a row hidden by a version with a smaller id; an entry lost in Clear |
| Table_select, both | no data block opens with a version of a row, behind older ones, that the SELECT must not see (`SeesBlockStarts`, a premise) | see `LatestIsInLatestFile`: an older row is returned, or a row is not found and the SELECT fails |
| Table_select, `SelectMatchesSnapshot` | `RowsKeepIndexes`: a row keeps the values of its indexed columns; `QueriesFitIndexes`: indexed columns have = conditions only, one each, and no further condition when an index is covered to its end | stale index entries find the new row; a range is looked up as an equality; the further condition is not applied |
| Parser_language, `ParseEnds` | no unsupported character inside VALUES (named in the property) | ParseInsertIntoTable appends empty values without end |

## What is proved

**Transaction manager** (`TransactionManagerProofs`), for every set of keys and
values and every number of transactions, from `TxnIdAssumption` (the first id is
positive and not above the bound):

- `TypeCorrect`, `LocksAlwaysAgree`, `WritersExclude`, `NoDirtyRead`: the
  invariants `TypeOK`, `LocksAgree`, `BufferedKeysLocked`, `SeesOnlyFinished`;
- `ReadsRepeat`: the action property `RepeatableRead`, flush failures included;
- `RollbackLeavesNothing`: `RolledBackInvisible` when no flush fails;
- `RefinesSnapshotIsolation`, `ReadsFromSnapshot`: the refinement
  `ImplementsSnapshotIsolation`, and `ReadsMatch`, when no flush fails.

None of the invariants is inductive alone. `Inv` joins them with three
bookkeeping facts: `ActiveAgrees` (the active map holds exactly the
transactions between Begin and the end of Commit or Rollback), `IdsInOrder`
(the ids handed out are those below `nextTransactionId`) and `FreshHandles` (no
writes buffered before Begin). `SeesOnlyFinished` needs the first two at Begin,
where the snapshot is copied: every smaller id that is not in the map is over.
`BufferedKeysLocked` needs `LocksAgree`: a lock can be cleared only by its
holder, who by then has left the phases the property speaks of. One lemma per
action shows that it preserves `Inv`. For `ReadsRepeat`, the only step that
changes `versions` adds an entry of a transaction that is still active, which by
`SeesOnlyFinished` nobody else can see. `RollbackLeavesNothing` adds that every
stored version belongs to a transaction past its log write, which without flush
failures never returns to the open phase (`Owned`).

The refinement rests on `RefInv`: `Inv`, `Owned`, `StoredFromBuffer` (what is
stored of a transaction inside Commit is part of its buffer, and all of it once
the locks are being released) and `EarlierOver` (ids of an earlier run are not
used). A transaction commits in the mapping when it leaves
`activeTransactionsMap`. At that step the store grows by exactly its buffer, and
no view changes, because by `SeesOnlyFinished` nobody began with a snapshot that
already shows it. One lemma per action says which abstract action it is, or that
it is a stutter.

**SSTable layer** (`SsTableProofs`), for any number of flushers, compactions,
files, failures and crashes, from `SsTableAssumption` (positive thresholds and
block sizes):

- `SsTableTypeCorrect`: `TypeOK`. Its inductive form `TypeInv` also bounds the
  versions in every set of entries, so that a merged file is well typed;
- `ListsStayAligned`: `ListsAgree`, a failing saveManifest included. It is
  inductive: an append changes the lists under one mutex, and atomicSwap keeps
  the same positions of each;
- `ManifestStaysReadable`: `ManifestFilesExist`, which says of manifest.json what
  is left of it when a saveManifest may have failed;
- `CompactionCanStartAgain`: `FlagReset`.

`ManifestFilesExist` needs an account of every file that is written but not yet
listed, or swapped out but not yet removed. `FileInv` gives it: listed files
exist (`ListedExist`); the files a compaction copied, the file a flusher has
written and the file a compaction has written have ids below `NextFileId`, and
the last two are in no list (`CopiedBelow`, `FlushedFresh`, `CompactedFresh`); a
file about to be removed is in no list and never will be (`SwappedGone`); after a
crash nobody is under way (`DownIdle`); the manifest on disk names only ids below
its own counter (`NamedBelow`). The hard case is a crash after NewFile and before
saveManifest: the restart hands out the same id again, and the file behind it
must then be neither listed nor about to be removed. After a failed saveManifest
manifest.json may name removed files, and a restart then refuses to open; if all
of them are still there it goes on from the older list, whose ids are below its
own counter. None of this is about what is in the files.

**Contents of the files** (`SsTableDataProofs`), on top of these invariants:

- `FilesStayOrdered`: `OldestFirst`, when one goroutine flushes and at most one
  compaction is alive (`OneOfEach`), with failures and crashes, until the
  directory is damaged. Without it the code does not have the property (see
  above);
- `NothingNeededDropped`: `OnlySupersededDropped`, for any number of flushers
  and overlapping compactions, failures and crashes, while the directory is not
  damaged and the last saveManifest succeeded.

`OrderInv` says that the list is in order of age (`ListInOrder`), and so is the
manifest on disk while no process runs, which a restart turns into the list
(`NamesInOrder`, if it was saved); the file a flush has written is as
young as everything listed (`PendingYoungest`); what a compaction copied is still
how the list begins, so that its output may take the place of those files
(`CopiedPrefix`); and what it built comes from what it copied
(`BuiltFromCopied`). It holds up to the step that damages the directory.
`DropInv` speaks of the list in force (`Names`: that of the process, or the one
of manifest.json while none runs) and holds as long as that is not damaged, and
saved if it is needed (`Intact`): a save that fails does no harm before a restart
reads it, so a later one that succeeds restores everything. It says that listed
and copied files hold entries that were installed (`NamedWritten`,
`CopiedWritten`), that key and id determine an entry (`OneVersion`), that no
compaction works with a minimum above the largest one so far (`MinBelow`), that
what it has built lacks only superseded entries of its inputs (`BuiltComplete`),
and so that what was installed is listed or superseded (`NoneLost`). The entry
that supersedes need not be in the same file, or in any file: it may itself be
superseded by then, by one that supersedes both.

**The whole store** (`DBProofs`), from `DBAssumption`:

- `StoreTypeCorrect`: `TypeOK`, over concurrent calls, compactions and restarts;
- `ReadsAreCommitted`: `ReadsCommitted`, in a run without restarts, for
  concurrent calls. A restart ends it: see DB_restart_ids;
- `NewestIsDurable`: `DurableHoldsNewest`, in a run without restarts and with
  one call at a time, the background compaction interleaved, and after the
  crash that ends it unless that came inside saveManifest;
- `RestartFindsNewest`: `RecoveryComplete`, for the first crash, at any instant
  that is not inside saveManifest, with one call and one compaction at a time;
- `StorageIsTransparent`: `StorageTransparent`, for a program that opens one
  transaction at a time over one compaction at a time and is not restarted
  (`OneByOne`), if the empty string is no value;
- `LastCommitIsRead`: `LastVersionReadable`, for any number of crashes and
  restarts and any number of open transactions, with one call and one compaction
  at a time, if the empty string is no value, until the directory is damaged: a
  crash inside saveManifest, or one that leaves a file whose id is used again,
  ends it.

Every action of `DB` other than NewDB is a step of the transaction manager
and a step of the table layer, or leaves one of them alone (`ManagerNext`,
`FilesNext`). With that the invariants of both hold in the composition, by the
lemmas of their own modules, which `DBProofs` takes in with INSTANCE; only NewDB,
which starts the manager anew at the id it finds in the log, needs an argument
of its own. `Stored` connects the two: whatever memtable, files and compactions
hold is a version that a Commit of this run stored, so that `SeesOnlyFinished`
applies to it. For durability `FlushInv` follows a flush through its steps: who
flushes is alone inside a call (`OneCall`), the log comes before the memtable
(`LoggedFirst`), and at each step of the flush every version is in the log or in
an installed file, also after the memtable is cleared and before the log is
(`Flushed`). An installed version that is then in no file was dropped by a
compaction, and `NothingNeededDropped` says that a newer one exists.

`RestartInv` carries this over one restart: what holds in a run without a restart
holds in the first run (`FirstRun`), and from its end until NewDB; the part that
needs manifest.json holds if the crash left it whole. With one compaction alive
`CompactPanics` cannot happen (`CopiedPrefix`: what was copied is still listed, so
it exists), so only a crash ends the run.

`StorageIsTransparent` needs to know where the newest version of a key is, and
that what a reader finds in a file is what was written there: in a run without
restart no file id is used twice (`Fresh`).
`YoungInv` says that a transaction begins alone and so sees everything
(`Alone`), that the memtable is as young as all that is not in it
(`MemtableYoungest`), and that between flushes nothing of it is in a file
(`Unflushed`). Hence a flush writes a file as young as the listed ones, which is
what `OrderInv` asks of the table layer, and the search that stops at the first
file with the key finds its newest version (`NewestInMemtable`, `NewestInFile`).
Inside a file the reader starts at a block that the index names. The index has
the first entry of each block, and the lemma `FileGetNewest` shows that the last
block that starts at or before the key is not behind the newest visible version
of the key: if everything is visible, a later entry of the key in the file has
the larger id.

After a restart ids are handed out anew, an older file may have larger ids than
a younger one, and none of this holds. `LastCommitIsRead` rests on what the list
*shows* of a version: the last file that has the key has the version, or some file
has a newer one. `ShowInv` says that what a compaction has built may stand for
the files it copied (`BuiltStandsFor`), whatever the ids are, that those files are
still how the list begins, and that no file is listed twice. `LastInv`
follows the versions committed last: if the log or the memtable holds a key, it
holds that version, or a Commit is between log and memtable with it
(`LogHasLast`, `MemtableHasLast`); it is in the log or shown by the files of
the manifest, and in the memtable or shown by them (`LastKept`); and when a flush
has installed its file, the files show them all (`FlushHolds`), so that Clear and
the emptied log lose none. All this holds whether or not ids grow. That they
do, `IdsGrow`, is used only at the read, as is that the directory is not damaged at
the steps that install, merge or read a file: then no file has a newer one, so what
the files show is what the search finds.

**Write-ahead log** (`WalProofs`), for any keys, values, field lengths, size
limit and number of crashes and failing calls, from `WalAssumption`:

- `WalTypeCorrect`: `TypeOK`;
- `ReplaysWholeTransactions`: `ReplayAtomic`;
- `AckedSurvive`: `AckedRecovered`;
- `RefusesOnlyTorn`: `RefusedOnlyIfTorn`.

The file is any sequence of cells in which a cell comes behind all cells of its
frame before it (`Framed`): each write appends a beginning of a frame, and a
crash cuts the file off. The lemma `RecordRead` shows that ReadEntry accepts
only what is a whole frame: its last cells are the checksum of the payload it has
read, a checksum cell ends its frame, and so the cells in front of it are that
frame and no other. Hence the replay stops at the first record that is not
whole (`FrameRead`, `FrameTorn`, the latter by looking at the first cell that is
not where it would be in a whole log). The invariant adds that the replay has
read whole records and the memtable is what they say (`ReadSoFar`), that an id
stands for one payload among the whole records (`IdsAgree`, with `IdsBelow`: ids
of new records are above those the replay saw), that the record being
committed is the last (`CommitIsLast`) and that what was acknowledged is in the
synced part (`AckedSynced`).

**Catalog** (`CatalogProofs`), for any tables, statements and goroutines, from
`CatalogAssumption` and `NoneAssumption` (the empty value is no table, statement
or encoding):

- `CatalogTypeCorrect`: `TypeOK`;
- `CreatedTablesRestored`: `RestoredAsCreated`;
- `OpensUnlessDisturbed`: `RefusedOnlyIfDisturbed`;
- `NoTableForgotten`: `MadeTablesListed`.

The first two speak of tables whose last createTable ran to its end with no
rival on the same table and with its schema and indexes stored; the conditions
table above says what two rivals, and a Put whose error is dropped, do to a table.
What is proved beyond the run is that nothing else disturbs a table: no call
on another table, no overlap of such calls, no crash, for any statements. A table
of which this can be said so far is `Sound`. `RestoreInv` says that what is stored
of a made and sound table is what its statement encodes to (`StoredAsMade`),
that a call without a rival is alone on its table, which is then not made
(`AloneCalls`), and that a call on a sound table has stored what it passed
(`SoundCalls`). With the lemma that decoding positions inverts encoding them,
this gives the first two results. `ListInv` adds that without overlap every table
that was made with nothing lost (`Complete`) is in the list of names, the stored
one and the one about to be stored (`Listed`).

**Table layer** (`TableProofs`), for any rows, indexes, queries, memtable limit
and number of calls, from `TableAssumption` and `KeysAssumption` (the constants
`Keys` and `Values` hold what the rows are stored as, stored rows differ in their
primary keys, an index has a name and a column):

- `TableTypeCorrect`: `TypeOK`;
- `IndexEntriesHaveRows`: `SelectFindsRows`;
- `SelectCorrect`: `SelectMatchesSnapshot`, for a table with `RowsKeepIndexes` and
  `QueriesFitIndexes`. The conditions table above says what goes wrong without
  them; MCTable assumes them, so TLC evaluates them for the run's table.

Both properties speak of states in which no two writers have met (`~raced`), and
of SELECTs that may see every version a data block opens with behind older ones
(`SeesBlockStarts`). So does the invariant behind them: `Inv` is the types, which
hold always, and `WriteInv /\ Readers` as long as `raced` is false, where
`Readers` speaks of such SELECTs. Then an INSERT meets no lock,
and every step is a step of the transaction manager (`ManagerNext`), whose
invariants are taken from `TransactionManagerProofs` with INSTANCE. `WriteInv`
adds what INSERTs and flushes leave behind: an INSERT has buffered the entries of
its row up to where it is (`Goroutines`); memtable and files hold all that was
stored, and a flush between its two steps has the memtable in a file already
(`Held`); of a key, later files are not older (`Ordered`), which needs that no two
INSERTs of a primary key are under way (`NoTwins`) and nothing younger is
stored of a row being inserted (`Youngest`); and a transaction that is over has
stored all entries of a row (`Complete`). `Readers` follows a SELECT: what the
memtable had of a key was the newest version its snapshot shows, else all
visible versions are in the files and stay there (`Scanned`), so that memtable
first, files second misses nothing, whichever flush runs in between; what is
looked up so far are the rows of the keys looked up so far (`LookedUp`). No step
changes what an open SELECT may see (`ViewStays`, from `SeesOnlyFinished`). The
lookup of a row in a file begins at a block (`Blocks`, `Searched`): the lemma
`SearchedRead` shows that it finds the newest version in view if the version that
opens the block is in view, and that it is, is `SeesBlockStarts`. With
`Complete`, an index entry in view has its row in view (`SeesWhole`), which gives
`IndexEntriesHaveRows`. For `SelectCorrect`, the scan of the chosen index finds
exactly the rows that satisfy the conditions on its covered columns
(`IndexScan`), and the filter applies the others.

**SQL parser** (`SqlParserProofs`), for any names, any limits on columns and
conditions and inputs of any length, from `ParserAssumption` and
`NamesAssumption` (a name is no keyword, symbol or type):

- `ParserTypeCorrect`: `TypeOK`;
- `ParserAccepts`: `AcceptsSentences`, what is accepted is a sentence and the
  tree is that sentence's;
- `ParserRejects`: `RejectsOnlyOthers`, an error is returned only for tokens that
  no sentence starts with, of the language the parser's tests and `README.md`
  show; the INSERT with columns of the parser's own comment is not in it
  (see above).

The types need two more facts to be inductive (`TypeInv`): the token behind the
bound is the end of the input, and a condition has been begun where its operator
is expected. `ParserInv` then says what the tokens read so far look like. For each
statement there is a form (`InsertForm`, `CreateForm`, `SelectForm`): the tokens
that consume has moved over are a head, a list of whole items and a part of one
more, place by place of the parser, and the syntax tree holds what these items
say. The other states are those in which the tokeniser does not move any more
(`Dead`) and those in which an error was returned for tokens that begin no
sentence (`Settled`). A form at the place "accepted" is a sentence, which gives
`ParserAccepts`.

For `ParserRejects` the tokens read have to determine the items. No item's tokens
begin another item's (`ItemsPrefixFree`, `ElementsPrefixFree`, `CondsPrefixFree`),
so of two texts of such words where one begins the other, the words of the one are
the first words of the other (`Decode`). Hence a sentence that starts with what was
read has the same items, and goes on with the part and the token that the parser
refuses; the lemmas `InsertRejects`, `CreateRejects` and `SelectRejects` show that
no item, and no end of the list, goes on so. The lengths of these texts are not
bounded: what the proofs need about concatenations of any number of texts
(`FlattenAppend`, `FlattenSplit`, `FlattenLen`) is shown by `Upwards`, induction
with a set of numbers in place of a predicate.

Only model-checked: liveness and everything with ENABLED (`CallsReturn`,
`CompactionEnds`, `ParseEnds`), which are out of the prover's reach. What the
lookup of an index is, `SelectCorrect` takes from `QueriesFitIndexes`: it speaks
of `PrefixValues` as it comes out of the concatenation in the code, and MCTable
evaluates it for the queries of the run.

## Not modelled

- Data races on the btree and on Go maps as such: shared accesses are atomic.
- The byte format of the data files, including block writes that fail one by
  one. Of a garbled file the model has all that a reader may find in it, not
  which of it a given offset leads to.
- The string, boolean and integer encodings of rows. Integers are below ten in
  `Table`: the code compares column values as strings, so "10" < "9", and stores
  32 bits, so larger and negative values do not come back. A row that is not
  found decodes as an error only if the first column is an INT; for the other
  types deserializeRowValues reads out of range.
- Column values and names with ":" in them, an empty primary key, and a table
  called "index", whose row keys start like index keys.
- Reads of a transaction's own writes in SELECT: scans do not look at
  `bufferedWriteMap`, and the SELECTs of the model write nothing.
- Failing I/O in `DB`, compaction and crashes in `Table`: they are in the
  components.
- `db.Get` as a call of its own: it is Begin and Get, and never ends its
  transaction.
- The benchmark paths `skipIndex` and `linearSearch`: no production path calls
  them, and linearSearchFile still reads the former text format.
- The text handling of the REPL, and the characters inside a token: the
  tokeniser is modelled by the tokens it can return.
