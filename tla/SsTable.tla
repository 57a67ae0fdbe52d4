-------------------------------- MODULE SsTable --------------------------------
(***************************************************************************)
(* package sstable: the list of first level files, the flush that adds one *)
(* (NewFile, Write), the background compaction that replaces a prefix of   *)
(* the list by one file (RunCompaction), and the manifest that lets        *)
(* NewSsTable find the files after a restart.                              *)
(*                                                                         *)
(* A step is one critical section of SsTable.mutex or one access to the    *)
(* file system between two of them.  A file is named by its id; its data   *)
(* blocks are the set of entries written, which the code keeps sorted by   *)
(* (key, txnId).  A crash is a crash of the process: completed system      *)
(* calls survive it.                                                       *)
(***************************************************************************)
EXTENDS Versions, Sequences, FiniteSets, FiniteSetsExt, Functions

CONSTANTS Flushers,             \* goroutines that may flush a memtable
          Compactors,           \* bound on compaction goroutines alive at once
          CompactionThreshold,  \* 4 in ShouldRunCompaction
          EntriesPerBlock,      \* entries that fill a data block (blockLength)
          EmptyValue,           \* the empty string, which Get takes for absent
          MinActiveTxnIds,      \* the minActiveTxnId a compaction may be given
          MaxFlushes,           \* bound on the memtables flushed
          MaxFileId,            \* bound on the file ids handed out: two for a
                                \* flush and its compaction are enough
          IOFaults,             \* TRUE: creating or writing a file may fail,
                                \* manifest.json included
          MaxCrashes            \* bound on the crashes

ASSUME SsTableAssumption ==
  /\ Keys \subseteq Nat                    \* keys are compared with <
  /\ CompactionThreshold \in Nat \ {0}
  /\ EntriesPerBlock \in Nat \ {0}
  /\ MinActiveTxnIds \subseteq Nat
  /\ MaxFlushes \in Nat /\ MaxFileId \in Nat /\ MaxCrashes \in Nat
  /\ IOFaults \in BOOLEAN

FileIds == 0 .. MaxFileId

VARIABLES
  firstLevelFiles,  \* oldest first
  indexBlocks,      \* for each position, the file its index block describes
  indexOffsets,     \* for each position, the file its index offset is from
  manifest,         \* st.manifest: nextFileId and fileNames
  compacting,
  flush,            \* where each flusher is, and its file
  compaction,       \* where each RunCompaction is, and its local variables
  existing,         \* ids of the log files in the directory
  disk,             \* the entries in each log file
  garbled,          \* files whose bytes do not parse: appended to an older
                    \* file's, or never completed
  damaged,          \* history: an id was used twice, a compaction went on
                    \* without its data, or NewSsTable found a manifest.json
                    \* that was not the last one saved
  diskManifest,     \* manifest.json
  saved,            \* whether manifest.json is what saveManifest was last
                    \* given, an older or empty one, or does not parse
  up,               \* the process runs
  crashes,          \* history: crashes so far
  written,          \* history: entries of every flush that was installed
  maxMin            \* history: largest minActiveTxnId a compaction was given

lists   == <<firstLevelFiles, indexBlocks, indexOffsets>>
files   == <<existing, disk, garbled, damaged>>
history == <<written, maxMin>>
manifestFile == <<diskManifest, saved>>
vars    == <<lists, manifest, compacting, flush, compaction, files,
             manifestFile, up, crashes, history>>

Idle == [pc |-> "idle", file |-> 0]
NoCompaction ==
  [pc |-> "idle", min |-> 0, files |-> <<>>, entries |-> {}, file |-> 0]
EmptyManifest == [nextFileId |-> 0, fileNames |-> <<>>]

FileLists == Seq(FileIds)

TypeOK ==
  /\ firstLevelFiles \in FileLists
  /\ indexBlocks \in FileLists
  /\ indexOffsets \in FileLists
  /\ manifest \in [nextFileId : 0 .. MaxFileId + 1, fileNames : FileLists]
  /\ diskManifest \in [nextFileId : 0 .. MaxFileId + 1, fileNames : FileLists]
  /\ compacting \in BOOLEAN
  /\ flush \in [Flushers -> [pc : {"idle", "written", "checking"},
                             file : FileIds]]
  /\ compaction \in [Compactors ->
       [pc : {"idle", "spawned", "flagged", "copied", "built", "created", "swapped"},
        min : Nat, files : FileLists, entries : SUBSET Entry, file : FileIds]]
  /\ existing \subseteq FileIds
  /\ garbled \subseteq existing
  /\ disk \in [FileIds -> SUBSET Entry]
  /\ damaged \in BOOLEAN
  /\ saved \in {"whole", "stale", "torn"}
  /\ up \in BOOLEAN
  /\ crashes \in 0 .. MaxCrashes
  /\ written \subseteq Entry
  /\ maxMin \in Nat

\* An empty directory: NewSsTable creates it and finds no manifest.
Init ==
  /\ firstLevelFiles = <<>> /\ indexBlocks = <<>> /\ indexOffsets = <<>>
  /\ manifest = EmptyManifest /\ diskManifest = EmptyManifest
  /\ compacting = FALSE
  /\ flush = [f \in Flushers |-> Idle]
  /\ compaction = [c \in Compactors |-> NoCompaction]
  /\ existing = {} /\ garbled = {} /\ disk = [i \in FileIds |-> {}]
  /\ damaged = FALSE /\ saved = "whole"
  /\ up = TRUE /\ crashes = 0
  /\ written = {} /\ maxMin = 0

\* saveManifest, whose error no caller looks at: the file is not opened, or it
\* is truncated and not, or only partly, written.
saveManifest ==
  \/ diskManifest' = manifest' /\ saved' = "whole"
  \/ /\ IOFaults
     /\ diskManifest' = diskManifest
     /\ saved' = IF saved = "torn" THEN "torn" ELSE "stale"
  \/ /\ IOFaults
     /\ diskManifest' = EmptyManifest
     /\ saved' \in {"stale", "torn"}

-------------------------------------------------------------------------------
\* Changed forms of operations below, each a slip this code could have had or
\* once had.  Nothing uses them; PROJECT.json names the property that rejects
\* each.

\* the oldest file with a value answers
GetOldestFileFirst(k, t, activeTxnMap) ==
  LET hit(i) == { e \in disk[firstLevelFiles[i]] :
                    /\ e.key = k /\ CanSee(e.txnId, t, activeTxnMap)
                    /\ \A f \in disk[firstLevelFiles[i]] :
                         f.key = k /\ CanSee(f.txnId, t, activeTxnMap)
                           => f.txnId <= e.txnId }
      hits   == { i \in DOMAIN firstLevelFiles : hit(i) # {} }
  IN  IF hits = {} THEN {} ELSE hit(Min(hits))

\* one version per key is kept, whatever minActiveTxnId is
CompactIgnoringMin(fs, min) ==
  LET all == UNION { disk[fs[i]] : i \in DOMAIN fs }
  IN  { e \in all : \A f \in all : f.key = e.key => f.txnId <= e.txnId }

\* the deferred function does not reset the flag
ReturnKeepsFlag(c) ==
  /\ compacting' = compacting
  /\ compaction' = [compaction EXCEPT ![c] = NoCompaction]

\* atomicSwap puts the compacted file behind the others
SwapAtEnd(c) ==
  LET kept == SelectSeq(firstLevelFiles,
                        LAMBDA i : i \notin Range(compaction[c].files))
      new  == Append(kept, compaction[c].file)
  IN  /\ up /\ compaction[c].pc = "created"
      /\ firstLevelFiles' = new /\ indexBlocks' = new /\ indexOffsets' = new
      /\ manifest' = [manifest EXCEPT !.fileNames = new]
      /\ saveManifest
      /\ compaction' = [compaction EXCEPT ![c].pc = "swapped"]
      /\ UNCHANGED <<compacting, flush, files, up, crashes, history>>

\* atomicSwap leaves indexOffsets as it was
SwapKeepsOffsets(c) ==
  LET kept == SelectSeq(firstLevelFiles,
                        LAMBDA i : i \notin Range(compaction[c].files))
      new  == <<compaction[c].file>> \o kept
  IN  /\ up /\ compaction[c].pc = "created"
      /\ firstLevelFiles' = new /\ indexBlocks' = new
      /\ manifest' = [manifest EXCEPT !.fileNames = new]
      /\ saveManifest
      /\ compaction' = [compaction EXCEPT ![c].pc = "swapped"]
      /\ UNCHANGED <<indexOffsets, compacting, flush, files, up, crashes,
                     history>>

\* the old files are removed before the swap
DeleteBeforeSwap(c) ==
  /\ up /\ compaction[c].pc \in {"created", "swapped"}
  /\ compaction[c].files # <<>>
  /\ existing' = existing \ {Head(compaction[c].files)}
  /\ garbled' = garbled \ {Head(compaction[c].files)}
  /\ damaged' = damaged
  /\ disk' = [disk EXCEPT ![Head(compaction[c].files)] = {}]
  /\ compaction' = [compaction EXCEPT ![c].files = Tail(@)]
  /\ UNCHANGED <<lists, manifest, compacting, flush, manifestFile, up,
                 crashes, history>>

\* RunCompaction waits for flushes before it returns
EndWaitsForFlush(c) ==
  /\ up /\ compaction[c].pc = "swapped"
  /\ compaction[c].files = <<>>
  /\ \A f \in Flushers : flush[f].pc = "idle"
  /\ compacting' = FALSE
  /\ compaction' = [compaction EXCEPT ![c] = NoCompaction]
  /\ UNCHANGED <<lists, manifest, flush, files, manifestFile, up, crashes,
                 history>>

\* the next id is taken from the number of files found
ReopenCountsFiles ==
  /\ ~up /\ up' = TRUE
  /\ saved # "torn" /\ saved' = "whole"
  /\ Range(diskManifest.fileNames) \subseteq existing
  /\ damaged' = (damaged \/ saved # "whole")
  /\ manifest' = [diskManifest EXCEPT !.nextFileId = Len(diskManifest.fileNames) - 1]
  /\ firstLevelFiles' = diskManifest.fileNames
  /\ indexBlocks' = diskManifest.fileNames
  /\ indexOffsets' = diskManifest.fileNames
  /\ UNCHANGED <<compacting, flush, compaction, existing, disk, garbled,
                 diskManifest, crashes, history>>

\* the index offsets are not kept when the indexes are rebuilt
ReopenWithoutOffsets ==
  /\ ~up /\ up' = TRUE
  /\ saved # "torn" /\ saved' = "whole"
  /\ Range(diskManifest.fileNames) \subseteq existing
  /\ damaged' = (damaged \/ saved # "whole")
  /\ manifest' = diskManifest
  /\ firstLevelFiles' = diskManifest.fileNames
  /\ indexBlocks' = diskManifest.fileNames
  /\ UNCHANGED <<indexOffsets, compacting, flush, compaction, existing, disk,
                 garbled, diskManifest, crashes, history>>

-------------------------------------------------------------------------------
(***************************************************************************)
(* Reading a file                                                          *)
(***************************************************************************)
Before(e, f) == e.key < f.key \/ (e.key = f.key /\ e.txnId < f.txnId)

\* Position of e in the file that holds S, from 0.
Rank(e, S) == Cardinality({ f \in S : Before(f, e) })

\* writeDataBlocks: the entries that open a data block, and so are in the index.
BlockStarts(S) == { e \in S : Rank(e, S) % EntriesPerBlock = 0 }

\* getLowerBound: the last block whose first key is not above k.
LowerBound(S, k) ==
  LET below == { e \in BlockStarts(S) : e.key <= k }
  IN  { e \in below : \A f \in below : ~Before(e, f) }

\* getValueFromSsTableDataBlock: from that block on, the last version of k
\* that the reader can see.
FileGet(S, k, t, activeTxnMap) ==
  LET scanned == { e \in S : \E b \in LowerBound(S, k) : ~Before(e, b) }
  IN  Newest(VisibleEntries(scanned, k, t, activeTxnMap))

\* SsTable.Get: the newest file with a non-empty value for k answers.
SsTableGet(k, t, activeTxnMap) ==
  LET hit(i) == { e \in FileGet(disk[firstLevelFiles[i]], k, t, activeTxnMap) :
                    e.value # EmptyValue }
      hits   == { i \in DOMAIN firstLevelFiles : hit(i) # {} }
  IN  IF hits = {} THEN {} ELSE hit(Max(hits))

-------------------------------------------------------------------------------
(***************************************************************************)
(* Flush                                                                   *)
(***************************************************************************)

\* NewFile: the id comes from the manifest in memory.
TakeFileId ==
  /\ manifest.nextFileId \in FileIds
  /\ manifest' = [manifest EXCEPT !.nextFileId = @ + 1]

\* The id is one of a file that is there: left by a run that ended before its
\* manifest was saved.
Reused == manifest.nextFileId \in existing

\* NewFile and writeToFile: data blocks, index block and footer.  The file is
\* opened for append, and the offsets count from 0: of a file that was already
\* there readers get the old bytes in front.  When a write fails, whole is
\* FALSE and the file ends somewhere.  Of a garbled file disk has all that a
\* reader may find in it.
WriteNewFile(S, whole) ==
  LET id == manifest.nextFileId
  IN  /\ TakeFileId
      /\ existing' = existing \cup {id}
      /\ garbled' = IF Reused \/ ~whole THEN garbled \cup {id} ELSE garbled
      /\ disk' = [disk EXCEPT ![id] = IF Reused THEN @ \cup S ELSE S]

\* A flush hands the content S of the memtable to Write.
FlushWrite(f, S) ==
  /\ up /\ flush[f].pc = "idle"
  /\ WriteNewFile(S, TRUE)
  /\ damaged' = (damaged \/ Reused)
  /\ flush' = [flush EXCEPT ![f] = [pc |-> "written",
                                    file |-> manifest.nextFileId]]
  /\ UNCHANGED <<lists, compacting, compaction, manifestFile, up, crashes,
                 history>>

\* The file cannot be opened: flushMemtableToSsTable returns at once.
FlushOpenFails(f) ==
  /\ IOFaults
  /\ up /\ flush[f].pc = "idle"
  /\ TakeFileId
  /\ UNCHANGED <<lists, compacting, flush, compaction, files, manifestFile, up,
                 crashes, history>>

\* A write fails: the list is not touched, but flushMemtableToSsTable goes on
\* to ShouldRunCompaction before it returns the error.
FlushWriteFails(f, S) ==
  /\ IOFaults
  /\ up /\ flush[f].pc = "idle"
  /\ WriteNewFile(S, FALSE)
  /\ damaged' = (damaged \/ Reused)
  /\ flush' = [flush EXCEPT ![f] = [pc |-> "checking",
                                    file |-> manifest.nextFileId]]
  /\ UNCHANGED <<lists, compacting, compaction, manifestFile, up, crashes,
                 history>>

\* The critical section of Write, saveManifest included.
FlushInstall(f) ==
  /\ up /\ flush[f].pc = "written"
  /\ firstLevelFiles' = Append(firstLevelFiles, flush[f].file)
  /\ indexBlocks' = Append(indexBlocks, flush[f].file)
  /\ indexOffsets' = Append(indexOffsets, flush[f].file)
  /\ manifest' = [manifest EXCEPT !.fileNames = Append(@, flush[f].file)]
  /\ saveManifest
  /\ flush' = [flush EXCEPT ![f].pc = "checking"]
  /\ written' = written \cup disk[flush[f].file]
  /\ UNCHANGED <<compacting, compaction, files, up, crashes, maxMin>>

ShouldRunCompaction ==
  ~compacting /\ Len(firstLevelFiles) >= CompactionThreshold

\* The end of flushMemtableToSsTable: with enough files a goroutine is
\* created, but nothing is recorded in st until it runs.  The code has no
\* bound on these goroutines: with all of Compactors alive the flush waits.
FlushCheck(f, min) ==
  /\ up /\ flush[f].pc = "checking"
  /\ flush' = [flush EXCEPT ![f] = Idle]
  /\ IF ShouldRunCompaction
     THEN /\ \E c \in Compactors :
               /\ compaction[c].pc = "idle"
               /\ compaction' = [compaction EXCEPT ![c] =
                     [NoCompaction EXCEPT !.pc = "spawned", !.min = min]]
          /\ maxMin' = IF min > maxMin THEN min ELSE maxMin
     ELSE UNCHANGED <<compaction, maxMin>>
  /\ UNCHANGED <<lists, manifest, compacting, files, manifestFile, up,
                 crashes, written>>

-------------------------------------------------------------------------------
(***************************************************************************)
(* RunCompaction                                                           *)
(***************************************************************************)
CompactBegin(c) ==
  /\ up /\ compaction[c].pc = "spawned"
  /\ compacting' = TRUE
  /\ compaction' = [compaction EXCEPT ![c].pc = "flagged"]
  /\ UNCHANGED <<lists, manifest, flush, files, manifestFile, up, crashes,
                 history>>

CompactCopy(c) ==
  /\ up /\ compaction[c].pc = "flagged"
  /\ compaction' = [compaction EXCEPT ![c].pc = "copied",
                                      ![c].files = firstLevelFiles]
  /\ UNCHANGED <<lists, manifest, compacting, flush, files, manifestFile, up,
                 crashes, history>>

\* buildCompactedEntries: all entries above min and, of those up to min, one
\* per key: the largest txnId, the newest file's if several have it.
buildCompactedEntries(fs, min) ==
  LET in(i) == disk[fs[i]]
      beats(f, j, e, i) == /\ f.key = e.key /\ f.txnId <= min
                           /\ \/ e.txnId < f.txnId
                              \/ e.txnId = f.txnId /\ i < j
  IN  UNION { { e \in in(i) :
                  \/ e.txnId > min
                  \/ \A j \in DOMAIN fs : \A f \in in(j) : ~beats(f, j, e, i) }
              : i \in DOMAIN fs }

Unreadable(c) == ~(Range(compaction[c].files) \subseteq existing \ garbled)

CompactBuild(c) ==
  /\ up /\ compaction[c].pc = "copied"
  /\ ~Unreadable(c)
  /\ compaction' =
       [compaction EXCEPT
          ![c].pc = "built",
          ![c].entries = buildCompactedEntries(compaction[c].files,
                                               compaction[c].min)]
  /\ UNCHANGED <<lists, manifest, compacting, flush, files, manifestFile, up,
                 crashes, history>>

\* What the deferred function does when RunCompaction returns.
CompactReturns(c) ==
  /\ compacting' = FALSE
  /\ compaction' = [compaction EXCEPT ![c] = NoCompaction]

\* Of a garbled file the entries may be read up to any of them.
CompactBuildPart(c) ==
  /\ up /\ compaction[c].pc = "copied"
  /\ Unreadable(c) /\ Range(compaction[c].files) \subseteq existing
  /\ \E S \in SUBSET UNION { disk[i] : i \in Range(compaction[c].files) } :
       compaction' = [compaction EXCEPT ![c].pc = "built", ![c].entries = S]
  /\ damaged' = TRUE
  /\ UNCHANGED <<lists, manifest, compacting, flush, existing, disk, garbled,
                 manifestFile, up, crashes, history>>

\* A file that another compaction closed, or whose bytes do not parse:
\* buildCompactedEntries returns an error and nothing else happens.
CompactBuildFails(c) ==
  /\ up /\ compaction[c].pc = "copied"
  /\ Unreadable(c)
  /\ CompactReturns(c)
  /\ UNCHANGED <<lists, manifest, flush, files, manifestFile, up, crashes,
                 history>>

\* The compacted file is created and written.
CompactCreate(c) ==
  /\ up /\ compaction[c].pc = "built"
  /\ WriteNewFile(compaction[c].entries, TRUE)
  /\ damaged' = (damaged \/ Reused)
  /\ compaction' = [compaction EXCEPT ![c].pc = "created", ![c].entries = {},
                                      ![c].file = manifest.nextFileId]
  /\ UNCHANGED <<lists, compacting, flush, manifestFile, up, crashes, history>>

\* Writing the file failed: the error is logged and the compaction goes on
\* with the file as it is and an empty index block.
CompactCreateFails(c) ==
  /\ IOFaults
  /\ up /\ compaction[c].pc = "built"
  /\ WriteNewFile(compaction[c].entries, FALSE)
  /\ damaged' = TRUE
  /\ compaction' = [compaction EXCEPT ![c].pc = "created", ![c].entries = {},
                                      ![c].file = manifest.nextFileId]
  /\ UNCHANGED <<lists, compacting, flush, manifestFile, up, crashes, history>>

\* The positions P of a list, in order.
InOrder(P) ==
  CHOOSE at \in [1 .. Cardinality(P) -> P] :
    \A i, j \in 1 .. Cardinality(P) : i < j => at[i] < at[j]

\* Of s, the positions whose file is not in old.
Kept(s, old) ==
  LET P == { i \in DOMAIN firstLevelFiles : firstLevelFiles[i] \notin old }
  IN  [j \in 1 .. Cardinality(P) |-> s[InOrder(P)[j]]]

\* atomicSwap: the compacted file first, then the files that were not
\* compacted; the manifest is saved before the lock is released.
CompactSwap(c) ==
  LET new == <<compaction[c].file>>
      old == Range(compaction[c].files)
  IN  /\ up /\ compaction[c].pc = "created"
      /\ firstLevelFiles' = new \o Kept(firstLevelFiles, old)
      /\ indexBlocks' = new \o Kept(indexBlocks, old)
      /\ indexOffsets' = new \o Kept(indexOffsets, old)
      /\ manifest' = [manifest EXCEPT
                        !.fileNames = new \o Kept(firstLevelFiles, old)]
      /\ saveManifest
      /\ compaction' = [compaction EXCEPT ![c].pc = "swapped"]
      /\ UNCHANGED <<compacting, flush, files, up, crashes, history>>

\* One round of the last loop; os.Remove's error is ignored.
CompactDelete(c) ==
  /\ up /\ compaction[c].pc = "swapped"
  /\ compaction[c].files # <<>>
  /\ existing' = existing \ {Head(compaction[c].files)}
  /\ garbled' = garbled \ {Head(compaction[c].files)}
  /\ damaged' = damaged
  /\ disk' = [disk EXCEPT ![Head(compaction[c].files)] = {}]
  /\ compaction' = [compaction EXCEPT ![c].files = Tail(@)]
  /\ UNCHANGED <<lists, manifest, compacting, flush, manifestFile, up,
                 crashes, history>>

CompactEnd(c) ==
  /\ up /\ compaction[c].pc = "swapped"
  /\ compaction[c].files = <<>>
  /\ CompactReturns(c)
  /\ UNCHANGED <<lists, manifest, flush, files, manifestFile, up, crashes,
                 history>>

-------------------------------------------------------------------------------
(***************************************************************************)
(* Crash and restart                                                       *)
(***************************************************************************)
GoDown ==
  /\ up /\ up' = FALSE
  /\ firstLevelFiles' = <<>> /\ indexBlocks' = <<>> /\ indexOffsets' = <<>>
  /\ manifest' = EmptyManifest
  /\ compacting' = FALSE
  /\ flush' = [f \in Flushers |-> Idle]
  /\ compaction' = [c \in Compactors |-> NoCompaction]
  /\ UNCHANGED <<files, history>>

\* Two nil dereferences end the process: getIndexOffset's FileInfo when a
\* file of the list is gone, and the Name of a compacted file that NewFile
\* could not open.
CompactPanics(c) ==
  /\ \/ /\ compaction[c].pc = "copied"
        /\ ~(Range(compaction[c].files) \subseteq existing)
     \/ IOFaults /\ compaction[c].pc = "built"
  /\ GoDown
  /\ UNCHANGED <<manifestFile, crashes>>

\* The process is killed between two steps.
Crash ==
  /\ crashes < MaxCrashes /\ crashes' = crashes + 1
  /\ GoDown
  /\ UNCHANGED manifestFile

\* The process is killed inside saveManifest: os.WriteFile has truncated the
\* file and not yet written it.
CrashInSave ==
  /\ crashes < MaxCrashes /\ crashes' = crashes + 1
  /\ \/ \E f \in Flushers : flush[f].pc = "written"
     \/ \E c \in Compactors : compaction[c].pc = "created"
  /\ GoDown
  /\ diskManifest' = EmptyManifest /\ saved' = "stale"

\* NewSsTable: the manifest is read, an empty file as one without entries, and
\* every file it names is opened.  It returns an error if one of these fails,
\* or if the index of a garbled file does not parse.
NewSsTable ==
  /\ ~up /\ up' = TRUE
  /\ saved # "torn" /\ saved' = "whole"
  /\ Range(diskManifest.fileNames) \subseteq existing
  /\ damaged' = (damaged \/ saved # "whole")
  /\ manifest' = diskManifest
  /\ firstLevelFiles' = diskManifest.fileNames
  /\ indexBlocks' = diskManifest.fileNames
  /\ indexOffsets' = diskManifest.fileNames
  /\ UNCHANGED <<compacting, flush, compaction, existing, disk, garbled,
                 diskManifest, crashes, history>>

CompactStep(c) ==
  \/ CompactBegin(c) \/ CompactCopy(c)
  \/ CompactBuild(c) \/ CompactBuildPart(c) \/ CompactBuildFails(c)
  \/ CompactPanics(c)
  \/ CompactCreate(c) \/ CompactCreateFails(c)
  \/ CompactSwap(c) \/ CompactDelete(c) \/ CompactEnd(c)

\* The memtables that arrive: each holds, for some keys, the version of one
\* transaction, younger than those flushed before.  A memtable in which a
\* transaction older than a flushed one commits is left to module DB.
Memtables(n) ==
  { { [key |-> k, value |-> v, txnId |-> n] : k \in K }
      : K \in SUBSET Keys \ {{}}, v \in Values }

NextTxn ==
  1 + Max({0} \cup { e.txnId : e \in written \cup UNION { disk[i] : i \in existing } })

Next ==
  \/ \E f \in Flushers :
       \/ /\ NextTxn <= MaxFlushes
          /\ \E S \in Memtables(NextTxn) :
               FlushWrite(f, S) \/ FlushWriteFails(f, S)
       \/ FlushOpenFails(f)
       \/ FlushInstall(f)
       \/ \E min \in MinActiveTxnIds : FlushCheck(f, min)
  \/ \E c \in Compactors : CompactStep(c)
  \/ Crash \/ CrashInSave \/ NewSsTable

Spec == Init /\ [][Next]_vars

\* Started goroutines are scheduled again and again; nobody has to flush.
FairSpec ==
  /\ Spec
  /\ \A c \in Compactors : WF_vars(CompactStep(c))

-------------------------------------------------------------------------------
(***************************************************************************)
(* Properties                                                              *)
(***************************************************************************)

\* The four parallel lists describe the same files in the same order: Get
\* pairs file, index block and index offset by position, through any mix of
\* Write, atomicSwap, failures and restarts.  manifest.json names these files
\* unless the last saveManifest failed.
ListsAgree ==
  up => /\ indexBlocks = firstLevelFiles /\ indexOffsets = firstLevelFiles
        /\ manifest.fileNames = firstLevelFiles
        /\ saved = "whole" => diskManifest.fileNames = firstLevelFiles

\* Every file of the list is in the directory, even when several compactions
\* overlap: no reader meets one that a compaction has removed.  So is every
\* file that manifest.json names, unless the last saveManifest failed:
\* getAllFiles fails for no other reason.
ManifestFilesExist ==
  /\ Range(firstLevelFiles) \subseteq existing
  /\ saved = "whole" => Range(diskManifest.fileNames) \subseteq existing

\* While nothing has damaged the directory, compaction drops a version only if
\* a newer one of the same key, not above the minActiveTxnId of some
\* compaction, supersedes it; in particular the newest version of a key is
\* always in a file that manifest.json names, if that was saved.
OnlySupersededDropped ==
  ~damaged /\ saved = "whole" => \A e \in written :
    \/ \E i \in Range(diskManifest.fileNames) : e \in disk[i]
    \/ \E f \in written : /\ f.key = e.key
                          /\ e.txnId < f.txnId /\ f.txnId <= maxMin

\* SsTable.Get stops at the newest file that has the key: no version of a key
\* in an earlier file is newer than the newest one in a later file, whatever
\* failed or crashed, while nothing has damaged the directory.
OldestFirst ==
  ~damaged => \A i, j \in DOMAIN firstLevelFiles :
    i < j => \A e \in disk[firstLevelFiles[i]] :
               \/ \A f \in disk[firstLevelFiles[j]] : f.key # e.key
               \/ \E f \in disk[firstLevelFiles[j]] :
                    f.key = e.key /\ f.txnId >= e.txnId

\* The compacting flag is not left behind: when no RunCompaction is alive a
\* later flush can start one, whatever way the last one returned.
FlagReset ==
  (\A c \in Compactors : compaction[c].pc \in {"idle", "spawned"}) => ~compacting

\* A compaction that was started comes to an end.
CompactionEnds ==
  \A c \in Compactors : compaction[c].pc # "idle" ~> compaction[c].pc = "idle"
===============================================================================
