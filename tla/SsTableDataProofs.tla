--------------------------- MODULE SsTableDataProofs ---------------------------
(***************************************************************************)
(* What the files hold: the order of the versions across the list, with    *)
(* one flusher and one compaction at a time, and what compactions may      *)
(* drop, for any number of both.                                           *)
(***************************************************************************)
EXTENDS SsTableProofs

\* What atomicSwap keeps of the list: all the files that are not compacted,
\* in the order they had.
LEMMA KeptPositions ==
  ASSUME firstLevelFiles \in Seq(FileIds), NEW old,
         NEW kept, kept = Kept(firstLevelFiles, old)
  PROVE  \E at :
           /\ \A j \in DOMAIN kept :
                /\ j \in Nat
                /\ at[j] \in DOMAIN firstLevelFiles
                /\ kept[j] = firstLevelFiles[at[j]]
                /\ kept[j] \notin old
           /\ \A i, j \in DOMAIN kept : i < j => at[i] < at[j]
           /\ Range(kept) = Range(firstLevelFiles) \ old
<1> DEFINE P == { i \in DOMAIN firstLevelFiles : firstLevelFiles[i] \notin old }
           at == InOrder(P)
           n == Cardinality(P)
<1>1. P \in SUBSET (1 .. Len(firstLevelFiles)) /\ Len(firstLevelFiles) \in Nat
  OBVIOUS
<1>2. at \in [1 .. n -> P] /\ \A i, j \in 1 .. n : i < j => at[i] < at[j]
  BY <1>1, Enumeration DEF InOrder
<1>3. IsFiniteSet(P) /\ n \in Nat
  <2>1. IsFiniteSet(1 .. Len(firstLevelFiles))
    BY <1>1, FS_Interval
  <2> QED  BY <1>1, <2>1, FS_Subset, FS_CardinalityType
<1>4. kept = [j \in 1 .. n |-> firstLevelFiles[at[j]]]
  BY DEF Kept
<1>5. \A i \in P : i \in DOMAIN firstLevelFiles /\ firstLevelFiles[i] \notin old /\ i \in Nat
  BY <1>1
<1>6. \A i \in Range(firstLevelFiles) \ old : \E p \in P : firstLevelFiles[p] = i
  BY DEF Range
<1> HIDE DEF P, at, n
<1>7. \A p \in P : \E j \in 1 .. n : at[j] = p
  <2>1. at \in Injection(1 .. n, P)
    <3>1. ASSUME NEW i \in 1 .. n, NEW j \in 1 .. n, at[i] = at[j]
          PROVE  i = j
      <4>1. at[i] \in Nat /\ at[j] \in Nat
        BY <1>2, <1>5
      <4>2. ~(i < j) /\ ~(j < i)
        BY <1>2, <3>1, <4>1
      <4> QED  BY <1>3, <4>2
    <3> QED  BY <1>2, <3>1 DEF Injection, IsInjective
  <2>2. Cardinality(1 .. n) = n
    BY <1>3, FS_Interval
  <2>3. at \in Surjection(1 .. n, P)
    BY <1>3, <2>1, <2>2, FS_Injection DEF n
  <2> QED  BY <2>3 DEF Surjection
<1>8. \A j \in DOMAIN kept : /\ j \in Nat /\ j \in 1 .. n
                             /\ at[j] \in P /\ at[j] \in DOMAIN firstLevelFiles
                             /\ kept[j] = firstLevelFiles[at[j]] /\ kept[j] \notin old
  BY <1>2, <1>3, <1>4, <1>5
<1>9. Range(kept) = Range(firstLevelFiles) \ old
  <2>1. ASSUME NEW i \in Range(kept) PROVE i \in Range(firstLevelFiles) \ old
    BY <1>8 DEF Range
  <2>2. ASSUME NEW i \in Range(firstLevelFiles) \ old PROVE i \in Range(kept)
    <3>1. PICK p \in P : firstLevelFiles[p] = i
      BY <1>6
    <3>2. PICK j \in 1 .. n : at[j] = p
      BY <1>7
    <3> QED  BY <1>4, <3>1, <3>2 DEF Range
  <2> QED  BY <2>1, <2>2
<1> QED  BY <1>2, <1>8, <1>9

\* A new file takes no id that anybody refers to, and holds what was written if
\* nothing was there.
LEMMA NewFileDisk ==
  ASSUME TypeInv, FileInv, NEW S \in SUBSET BoundedEntry, NEW whole,
         WriteNewFile(S, whole)
  PROVE  /\ ~Reused => disk'[manifest.nextFileId] = S
         /\ \A i : Referenced(i) \/ Fresh(i) =>
              i # manifest.nextFileId /\ i \in FileIds /\ disk'[i] = disk[i]
         /\ \A i \in FileIds : i # manifest.nextFileId => disk'[i] = disk[i]
<1> DEFINE id == manifest.nextFileId
<1>1. id \in FileIds /\ disk' = [disk EXCEPT ![id] = IF Reused THEN @ \cup S ELSE S]
  BY DEF WriteNewFile, TakeFileId
<1>2. disk \in [FileIds -> SUBSET Entry]
  BY Parts
<1>3. ASSUME NEW i, Referenced(i) \/ Fresh(i)
      PROVE  i \in Below(id)
  BY <1>3 DEF Fresh, Referenced, FileInv, ListedExist, CopiedBelow
<1>4. \A i \in Below(id) : i # id /\ i \in FileIds
  BY <1>1, NextId, SsTableAssumption DEF Below, FileIds
<1> HIDE DEF id
<1> QED  BY <1>1, <1>2, <1>3, <1>4 DEF id

\* The files of the list and of the copies are ids of files.
LEMMA ReferencedIds ==
  ASSUME TypeInv
  PROVE  /\ firstLevelFiles \in Seq(FileIds) /\ diskManifest.fileNames \in Seq(FileIds)
         /\ Range(firstLevelFiles) \subseteq FileIds
         /\ Range(diskManifest.fileNames) \subseteq FileIds
         /\ \A c \in Compactors : /\ compaction[c].files \in Seq(FileIds)
                                  /\ Range(compaction[c].files) \subseteq FileIds
                                  /\ compaction[c].file \in FileIds
         /\ \A f \in Flushers : flush[f].file \in FileIds
<1>1. \A s \in Seq(FileIds) : Range(s) \subseteq FileIds
  BY DEF Range
<1>2. firstLevelFiles \in Seq(FileIds) /\ diskManifest.fileNames \in Seq(FileIds)
  BY Parts DEF FileLists
<1>3. \A c \in Compactors : compaction[c].files \in Seq(FileIds) /\ compaction[c].file \in FileIds
  BY Parts DEF FileLists, CompactionRec
<1>4. \A f \in Flushers : flush[f].file \in FileIds
  BY Parts DEF FlushRec
<1> QED  BY <1>1, <1>2, <1>3, <1>4

\* The memtable of a new flush is younger than everything in the directory.
LEMMA MemtableYoungest ==
  ASSUME TypeInv, NextTxn <= MaxFlushes, NEW S \in Memtables(NextTxn), NEW f \in S
  PROVE  /\ \A e \in written : e.txnId < f.txnId
         /\ \A i \in existing : \A e \in disk[i] : e.txnId < f.txnId
         /\ \A g \in S : g.key = f.key => g = f
<1> DEFINE T == { e.txnId : e \in written \cup UNION { disk[i] : i \in existing } }
<1>1. T \in SUBSET (0 .. MaxFlushes)
  BY DEF TypeInv, TypeOK, EntriesBounded, BoundedEntry
<1>2. MaxFlushes \in Nat
  BY SsTableAssumption
<1>3. \A e \in written : e.txnId \in T
  OBVIOUS
<1>4. \A i \in existing : \A e \in disk[i] : e.txnId \in T
  OBVIOUS
<1>5. NextTxn = 1 + Max({0} \cup T)
  BY DEF NextTxn
<1>6. f.txnId = NextTxn /\ \A g \in S : g.key = f.key => g = f
  <2> HIDE DEF NextTxn
  <2> QED  BY DEF Memtables
<1> HIDE DEF T
<1>7. Max({0} \cup T) \in 0 .. MaxFlushes /\ \A t \in T : t <= Max({0} \cup T)
  BY <1>1, <1>2, MaxOfIds
<1>8. \A t \in T : t < f.txnId
  <2> TAKE t \in T
  <2> DEFINE m == Max({0} \cup T)
  <2>1. t \in 0 .. MaxFlushes /\ m \in 0 .. MaxFlushes /\ t <= m /\ f.txnId = 1 + m
    BY <1>1, <1>5, <1>6, <1>7
  <2> HIDE DEF m
  <2> QED  BY <1>2, <2>1
<1> QED  BY <1>3, <1>4, <1>6, <1>8

-------------------------------------------------------------------------------
(***************************************************************************)
(* The order of the files.  Everything that is listed, about to be listed  *)
(* or being compacted respects the order in which the memtables came.      *)
(***************************************************************************)

\* No entry of S is younger than an entry of T.
NotYounger(S, T) == \A e \in S : \A f \in T : e.txnId <= f.txnId

ListInOrder ==
  \A i, j \in DOMAIN firstLevelFiles :
    i < j => NotYounger(disk[firstLevelFiles[i]], disk[firstLevelFiles[j]])

\* While the process is down manifest.json stands for the list.
NamesInOrder ==
  ~up /\ saved = "whole" =>
    \A i, j \in DOMAIN diskManifest.fileNames :
      i < j => NotYounger(disk[diskManifest.fileNames[i]],
                          disk[diskManifest.fileNames[j]])

\* The file of a flush is as young as everything in the list it will end.
PendingYoungest ==
  \A f \in Flushers : flush[f].pc = "written" =>
    \A i \in Range(firstLevelFiles) : NotYounger(disk[i], disk[flush[f].file])

\* What a compaction copied is still how the list begins.
CopiedPrefix ==
  \A c \in Compactors : compaction[c].pc \in {"copied", "built", "created"} =>
    \A i \in DOMAIN compaction[c].files :
      /\ i \in DOMAIN firstLevelFiles
      /\ compaction[c].files[i] = firstLevelFiles[i]

\* What a compaction has built comes from the files it copied.
BuiltFromCopied ==
  \A c \in Compactors :
    /\ compaction[c].pc = "built" =>
         compaction[c].entries
           \subseteq UNION { disk[i] : i \in Range(compaction[c].files) }
    /\ compaction[c].pc = "created" =>
         disk[compaction[c].file]
           \subseteq UNION { disk[i] : i \in Range(compaction[c].files) }

OrderInv ==
  /\ ListInOrder /\ NamesInOrder
  /\ PendingYoungest /\ CopiedPrefix /\ BuiltFromCopied

\* A subset of the older entries, and of the younger ones.
LEMMA Shrink ==
  ASSUME NEW S, NEW T, NEW U \in SUBSET S, NEW V \in SUBSET T, NotYounger(S, T)
  PROVE  NotYounger(U, V)
BY DEF NotYounger

\* A step that changes neither the files nor the list, and takes goroutines
\* only out of the states in which they have something pending.
LEMMA QuietOrder ==
  ASSUME OrderInv, disk' = disk, firstLevelFiles' = firstLevelFiles,
         up' \/ UNCHANGED <<up, saved, diskManifest>>,
         \A f \in Flushers : flush'[f].pc = "written" =>
           flush[f].pc = "written" /\ flush'[f].file = flush[f].file,
         \A c \in Compactors :
           \/ compaction'[c] = compaction[c]
           \/ compaction'[c].pc \notin {"copied", "built", "created"}
  PROVE  OrderInv'
<1>1. ListInOrder' /\ NamesInOrder' /\ PendingYoungest'
  BY DEF OrderInv, ListInOrder, NamesInOrder, PendingYoungest
<1>2. CopiedPrefix'
  BY DEF OrderInv, CopiedPrefix
<1>3. BuiltFromCopied'
  <2> SUFFICES ASSUME NEW c \in Compactors,
                      compaction'[c].pc \in {"built", "created"},
                      compaction'[c] = compaction[c]
               PROVE  /\ compaction'[c].pc = "built" => compaction'[c].entries
                           \subseteq UNION { disk'[i] : i \in Range(compaction'[c].files) }
                      /\ compaction'[c].pc = "created" => disk'[compaction'[c].file]
                           \subseteq UNION { disk'[i] : i \in Range(compaction'[c].files) }
    BY DEF BuiltFromCopied
  <2> QED  BY DEF OrderInv, BuiltFromCopied
<1> QED  BY <1>1, <1>2, <1>3 DEF OrderInv

\* CompactCopy copies the whole list.
LEMMA CopyOrder ==
  ASSUME TypeInv, OrderInv, NEW c \in Compactors, CompactCopy(c)
  PROVE  OrderInv'
<1>1. /\ disk' = disk /\ firstLevelFiles' = firstLevelFiles /\ flush' = flush /\ up'
  BY DEF CompactCopy, lists, files
<1>2. /\ compaction'[c].pc = "copied" /\ compaction'[c].files = firstLevelFiles
      /\ \A d \in Compactors : d # c => compaction'[d] = compaction[d]
  BY Parts DEF CompactCopy, CompactionRec
<1>3. ListInOrder' /\ NamesInOrder' /\ PendingYoungest'
  BY <1>1 DEF OrderInv, ListInOrder, NamesInOrder, PendingYoungest
<1>4. CopiedPrefix'
  BY <1>1, <1>2 DEF OrderInv, CopiedPrefix
<1>5. BuiltFromCopied'
  BY <1>1, <1>2 DEF OrderInv, BuiltFromCopied
<1> QED  BY <1>3, <1>4, <1>5 DEF OrderInv

\* buildCompactedEntries takes its entries from the files.
LEMMA BuildOrder ==
  ASSUME TypeInv, OrderInv, NEW c \in Compactors, CompactBuild(c)
  PROVE  OrderInv'
<1> DEFINE fs == compaction[c].files
           E == buildCompactedEntries(fs, compaction[c].min)
<1>1. /\ disk' = disk /\ firstLevelFiles' = firstLevelFiles /\ flush' = flush /\ up'
      /\ compaction[c].pc = "copied"
  BY DEF CompactBuild, lists, files
<1>2. /\ compaction'[c].pc = "built" /\ compaction'[c].files = fs
      /\ compaction'[c].entries = E
      /\ \A d \in Compactors : d # c => compaction'[d] = compaction[d]
  BY Parts DEF CompactBuild, CompactionRec
<1>3. E \subseteq UNION { disk[i] : i \in Range(fs) }
  BY DEF buildCompactedEntries, Range
<1> HIDE DEF E
<1>4. ListInOrder' /\ NamesInOrder' /\ PendingYoungest'
  BY <1>1 DEF OrderInv, ListInOrder, NamesInOrder, PendingYoungest
<1>5. CopiedPrefix'
  BY <1>1, <1>2 DEF OrderInv, CopiedPrefix
<1>6. BuiltFromCopied'
  BY <1>1, <1>2, <1>3 DEF OrderInv, BuiltFromCopied
<1> QED  BY <1>4, <1>5, <1>6 DEF OrderInv

\* Removing a file leaves less to compare.
LEMMA DeleteOrder ==
  ASSUME TypeInv, OrderInv, NEW c \in Compactors, \A d \in Compactors : d = c,
         CompactDelete(c)
  PROVE  OrderInv'
<1>1. /\ up' /\ firstLevelFiles' = firstLevelFiles
      /\ flush' = flush /\ compaction[c].pc = "swapped" /\ compaction[c].files # <<>>
      /\ disk' = [disk EXCEPT ![Head(compaction[c].files)] = {}]
  BY DEF CompactDelete, lists
<1>2. compaction'[c].pc = "swapped"
  BY Parts DEF CompactDelete, CompactionRec
<1>3. \A i \in FileIds : disk'[i] \subseteq disk[i]
  BY <1>1, Parts
<1>4. ListInOrder' /\ NamesInOrder'
  <2> SUFFICES ASSUME NEW i \in DOMAIN firstLevelFiles,
                      NEW j \in DOMAIN firstLevelFiles, i < j
               PROVE  NotYounger(disk'[firstLevelFiles[i]], disk'[firstLevelFiles[j]])
    BY <1>1 DEF ListInOrder, NamesInOrder
  <2>1. firstLevelFiles[i] \in FileIds /\ firstLevelFiles[j] \in FileIds
    BY ReferencedIds
  <2>2. NotYounger(disk[firstLevelFiles[i]], disk[firstLevelFiles[j]])
    BY DEF OrderInv, ListInOrder
  <2> QED  BY <1>3, <2>1, <2>2, Shrink
<1>5. PendingYoungest'
  <2> SUFFICES ASSUME NEW f \in Flushers, flush[f].pc = "written",
                      NEW i \in Range(firstLevelFiles)
               PROVE  NotYounger(disk'[i], disk'[flush[f].file])
    BY <1>1 DEF PendingYoungest
  <2>1. i \in FileIds /\ flush[f].file \in FileIds
    BY ReferencedIds
  <2>2. NotYounger(disk[i], disk[flush[f].file])
    BY DEF OrderInv, PendingYoungest
  <2> QED  BY <1>3, <2>1, <2>2, Shrink
<1>6. CopiedPrefix' /\ BuiltFromCopied'
  BY <1>2 DEF CopiedPrefix, BuiltFromCopied
<1> QED  BY <1>4, <1>5, <1>6 DEF OrderInv

\* The content of a new file matters to nobody yet, but for the one who wrote
\* it.
LEMMA NewFileOrder ==
  ASSUME TypeInv, FileInv, OrderInv, up',
         NEW S \in SUBSET BoundedEntry, NEW whole, WriteNewFile(S, whole),
         firstLevelFiles' = firstLevelFiles
  PROVE  /\ ListInOrder' /\ NamesInOrder'
         /\ \A f \in Flushers : flush[f].pc = "written" =>
              \A i \in Range(firstLevelFiles) : NotYounger(disk'[i], disk'[flush[f].file])
         /\ \A c \in Compactors :
              /\ \A i \in Range(compaction[c].files) : disk'[i] = disk[i]
              /\ compaction[c].pc = "created" =>
                   disk'[compaction[c].file] = disk[compaction[c].file]
<1>1. \A i : Referenced(i) \/ Fresh(i) => disk'[i] = disk[i]
  BY NewFileDisk
<1>2. \A i \in Range(firstLevelFiles) : disk'[i] = disk[i]
  BY <1>1 DEF Referenced
<1>3. ListInOrder' /\ NamesInOrder'
  <2> SUFFICES ASSUME NEW i \in DOMAIN firstLevelFiles,
                      NEW j \in DOMAIN firstLevelFiles, i < j
               PROVE  NotYounger(disk'[firstLevelFiles[i]], disk'[firstLevelFiles[j]])
    BY DEF ListInOrder, NamesInOrder
  <2>1. firstLevelFiles[i] \in Range(firstLevelFiles)
        /\ firstLevelFiles[j] \in Range(firstLevelFiles)
    BY DEF Range
  <2>2. NotYounger(disk[firstLevelFiles[i]], disk[firstLevelFiles[j]])
    BY DEF OrderInv, ListInOrder
  <2> QED  BY <1>2, <2>1, <2>2
<1>4. ASSUME NEW f \in Flushers, flush[f].pc = "written", NEW i \in Range(firstLevelFiles)
      PROVE  NotYounger(disk'[i], disk'[flush[f].file])
  <2>1. disk'[flush[f].file] = disk[flush[f].file]
    BY <1>1, <1>4 DEF FileInv, FlushedFresh
  <2>2. NotYounger(disk[i], disk[flush[f].file])
    BY <1>4 DEF OrderInv, PendingYoungest
  <2> QED  BY <1>2, <2>1, <2>2
<1>5. ASSUME NEW c \in Compactors
      PROVE  /\ \A i \in Range(compaction[c].files) : disk'[i] = disk[i]
             /\ compaction[c].pc = "created" =>
                  disk'[compaction[c].file] = disk[compaction[c].file]
  BY <1>1 DEF Referenced, FileInv, CompactedFresh
<1> QED  BY <1>3, <1>4, <1>5

\* Two facts above carry BuiltFromCopied to the new files.
LEMMA SameBuilt ==
  ASSUME OrderInv, NEW c \in Compactors,
         \A i \in Range(compaction[c].files) : disk'[i] = disk[i],
         compaction[c].pc = "created" => disk'[compaction[c].file] = disk[compaction[c].file],
         compaction'[c] = compaction[c]
  PROVE  /\ compaction'[c].pc = "built" =>
              compaction'[c].entries
                \subseteq UNION { disk'[i] : i \in Range(compaction'[c].files) }
         /\ compaction'[c].pc = "created" =>
              disk'[compaction'[c].file]
                \subseteq UNION { disk'[i] : i \in Range(compaction'[c].files) }
<1>1. UNION { disk'[i] : i \in Range(compaction[c].files) }
        = UNION { disk[i] : i \in Range(compaction[c].files) }
  OBVIOUS
<1> QED  BY <1>1 DEF OrderInv, BuiltFromCopied

\* A flush writes the youngest memtable.
LEMMA FlushWriteOrder ==
  ASSUME TypeInv, FileInv, OrderInv, ~damaged',
         NEW f \in Flushers, \A g \in Flushers : g # f => flush[g].pc # "written",
         NEW S \in SUBSET BoundedEntry, FlushWrite(f, S),
         \A i \in Range(firstLevelFiles) : NotYounger(disk[i], S)
  PROVE  OrderInv'
<1> DEFINE id == manifest.nextFileId
<1>1. /\ WriteNewFile(S, TRUE) /\ up' /\ ~Reused
      /\ firstLevelFiles' = firstLevelFiles /\ compaction' = compaction
      /\ flush' = [flush EXCEPT ![f] = [pc |-> "written", file |-> id]]
  BY DEF FlushWrite, lists
<1>2. flush'[f].file = id /\ \A g \in Flushers : g # f => flush'[g].pc # "written"
  BY <1>1, Parts
<1>3. /\ disk'[id] = S
      /\ \A i : Referenced(i) \/ Fresh(i) => disk'[i] = disk[i]
  BY <1>1, NewFileDisk
<1> HIDE DEF id
<1>4. PendingYoungest'
  <2> SUFFICES ASSUME NEW i \in Range(firstLevelFiles) PROVE NotYounger(disk'[i], S)
    BY <1>1, <1>2, <1>3 DEF PendingYoungest
  <2>1. disk'[i] = disk[i]
    BY <1>3 DEF Referenced
  <2> QED  BY <2>1
<1>5. ListInOrder' /\ NamesInOrder'
  BY <1>1, NewFileOrder
<1>6. CopiedPrefix'
  BY <1>1 DEF OrderInv, CopiedPrefix
<1>7. BuiltFromCopied'
  <2> SUFFICES ASSUME NEW c \in Compactors
               PROVE  /\ compaction'[c].pc = "built" => compaction'[c].entries
                           \subseteq UNION { disk'[i] : i \in Range(compaction'[c].files) }
                      /\ compaction'[c].pc = "created" => disk'[compaction'[c].file]
                           \subseteq UNION { disk'[i] : i \in Range(compaction'[c].files) }
    BY DEF BuiltFromCopied
  <2> QED  BY <1>1, NewFileOrder, SameBuilt
<1> QED  BY <1>4, <1>5, <1>6, <1>7 DEF OrderInv

\* A flush that fails leaves a file that is never listed.
LEMMA FlushWriteFailsOrder ==
  ASSUME TypeInv, FileInv, OrderInv, NEW f \in Flushers,
         NEW S \in SUBSET BoundedEntry, FlushWriteFails(f, S)
  PROVE  OrderInv'
<1>1. /\ WriteNewFile(S, FALSE) /\ up'
      /\ firstLevelFiles' = firstLevelFiles /\ compaction' = compaction
      /\ flush' = [flush EXCEPT ![f] = [pc |-> "checking", file |-> manifest.nextFileId]]
  BY DEF FlushWriteFails, lists
<1>2. \A g \in Flushers : flush'[g].pc = "written" => flush'[g] = flush[g]
  BY <1>1, Parts
<1>4. PendingYoungest'
  BY <1>1, <1>2, NewFileOrder DEF PendingYoungest
<1>5. ListInOrder' /\ NamesInOrder'
  BY <1>1, NewFileOrder
<1>6. CopiedPrefix'
  BY <1>1 DEF OrderInv, CopiedPrefix
<1>7. BuiltFromCopied'
  <2> SUFFICES ASSUME NEW c \in Compactors
               PROVE  /\ compaction'[c].pc = "built" => compaction'[c].entries
                           \subseteq UNION { disk'[i] : i \in Range(compaction'[c].files) }
                      /\ compaction'[c].pc = "created" => disk'[compaction'[c].file]
                           \subseteq UNION { disk'[i] : i \in Range(compaction'[c].files) }
    BY DEF BuiltFromCopied
  <2> QED  BY <1>1, NewFileOrder, SameBuilt
<1> QED  BY <1>4, <1>5, <1>6, <1>7 DEF OrderInv

\* The compacted file holds what was built.
LEMMA CreateOrder ==
  ASSUME TypeInv, FileInv, OrderInv, ~damaged',
         NEW c \in Compactors, \A d \in Compactors : d = c, CompactCreate(c)
  PROVE  OrderInv'
<1> DEFINE id == manifest.nextFileId
           fs == compaction[c].files
           S == compaction[c].entries
<1>1. /\ up' /\ compaction[c].pc = "built" /\ ~Reused
      /\ firstLevelFiles' = firstLevelFiles /\ flush' = flush
  BY DEF CompactCreate, lists
<1>2. S \in SUBSET BoundedEntry /\ WriteNewFile(S, TRUE)
  BY Parts DEF CompactCreate
<1>3. /\ compaction'[c].pc = "created" /\ compaction'[c].file = id
      /\ compaction'[c].files = fs
  <2>1. compaction' = [compaction EXCEPT ![c].pc = "created", ![c].entries = {},
                                         ![c].file = id]
    BY Zenon DEF CompactCreate
  <2>2. compaction \in [Compactors -> CompactionRec]
    BY Parts
  <2> QED  BY <2>1, <2>2 DEF CompactionRec
<1> HIDE DEF S
<1>4. disk'[id] = S
  BY <1>1, <1>2, NewFileDisk
<1>5. /\ ListInOrder' /\ NamesInOrder'
      /\ \A f \in Flushers : flush[f].pc = "written" =>
           \A i \in Range(firstLevelFiles) : NotYounger(disk'[i], disk'[flush[f].file])
      /\ \A i \in Range(fs) : disk'[i] = disk[i]
  BY <1>1, <1>2, NewFileOrder
<1> HIDE DEF id
<1>6. PendingYoungest'
  BY <1>1, <1>5 DEF PendingYoungest
<1>7. CopiedPrefix'
  BY <1>1, <1>3 DEF OrderInv, CopiedPrefix
<1>8. BuiltFromCopied'
  <2>1. S \subseteq UNION { disk[i] : i \in Range(fs) }
    BY <1>1 DEF OrderInv, BuiltFromCopied, S
  <2>2. S \subseteq UNION { disk'[i] : i \in Range(fs) }
    BY <1>5, <2>1
  <2> QED  BY <1>3, <1>4, <2>2 DEF BuiltFromCopied
<1> QED  BY <1>5, <1>6, <1>7, <1>8 DEF OrderInv

\* Write puts the youngest file last.
LEMMA InstallOrder ==
  ASSUME TypeInv, OrderInv,
         NEW f \in Flushers, \A g \in Flushers : g # f => flush[g].pc # "written",
         FlushInstall(f)
  PROVE  OrderInv'
<1> DEFINE id == flush[f].file
           s == firstLevelFiles
           t == Append(s, id)
<1>1. /\ up' /\ flush[f].pc = "written" /\ compaction' = compaction /\ disk' = disk
      /\ firstLevelFiles' = t
      /\ flush' = [flush EXCEPT ![f] = [flush[f] EXCEPT !.pc = "checking"]]
  BY DEF FlushInstall, files
<1>2. \A g \in Flushers : flush'[g].pc # "written"
  BY <1>1, Parts DEF FlushRec
<1>4. s \in Seq(FileIds) /\ id \in FileIds
  BY ReferencedIds
<1>5. /\ DOMAIN t = 1 .. Len(s) + 1 /\ t[Len(s) + 1] = id /\ Len(s) \in Nat
      /\ DOMAIN s = 1 .. Len(s)
      /\ \A i \in DOMAIN s : i \in DOMAIN t /\ t[i] = s[i] /\ s[i] \in Range(s)
  BY <1>4 DEF Range
<1> HIDE DEF t
<1>6. ListInOrder' /\ NamesInOrder'
  <2> SUFFICES ASSUME NEW i \in DOMAIN t, NEW j \in DOMAIN t, i < j
               PROVE  NotYounger(disk[t[i]], disk[t[j]])
    BY <1>1 DEF ListInOrder, NamesInOrder
  <2>1. i \in DOMAIN s
    BY <1>5
  <2>2. CASE j \in DOMAIN s
    BY <1>5, <2>1, <2>2 DEF OrderInv, ListInOrder
  <2>3. CASE j = Len(s) + 1
    BY <1>1, <1>5, <2>1, <2>3 DEF OrderInv, PendingYoungest
  <2> QED  BY <1>5, <2>2, <2>3
<1>7. PendingYoungest'
  BY <1>2 DEF PendingYoungest
<1>8. CopiedPrefix'
  BY <1>1, <1>5 DEF OrderInv, CopiedPrefix
<1>9. BuiltFromCopied'
  BY <1>1 DEF OrderInv, BuiltFromCopied
<1> QED  BY <1>6, <1>7, <1>8, <1>9 DEF OrderInv

\* atomicSwap puts the compacted file where the files it replaces were.
LEMMA SwapOrder ==
  ASSUME TypeInv, OrderInv,
         NEW c \in Compactors, \A d \in Compactors : d = c, CompactSwap(c)
  PROVE  OrderInv'
<1> DEFINE id == compaction[c].file
           fs == compaction[c].files
           s == firstLevelFiles
           kept == Kept(firstLevelFiles, Range(fs))
           t == <<id>> \o kept
<1>1. /\ up' /\ compaction[c].pc = "created" /\ flush' = flush /\ disk' = disk
      /\ firstLevelFiles' = t
  BY DEF CompactSwap, files
<1>2. compaction'[c].pc = "swapped"
  BY Parts DEF CompactSwap, CompactionRec
<1>4. /\ s \in Seq(FileIds) /\ id \in FileIds /\ fs \in Seq(FileIds)
      /\ kept \in Seq(FileIds)
  BY ReferencedIds, KeptMembers
<1>5. PICK at :
        /\ \A j \in DOMAIN kept : /\ j \in Nat /\ at[j] \in DOMAIN s
                                  /\ kept[j] = s[at[j]] /\ kept[j] \notin Range(fs)
        /\ \A i, j \in DOMAIN kept : i < j => at[i] < at[j]
        /\ Range(kept) = Range(s) \ Range(fs)
  <2>1. ASSUME NEW k, k = kept, NEW old, old = Range(fs)
        PROVE  k = Kept(firstLevelFiles, old) /\ firstLevelFiles \in Seq(FileIds)
    BY <1>4, <2>1
  <2> HIDE DEF kept, fs
  <2> QED  BY <2>1, KeptPositions
<1> HIDE DEF id, kept
<1>6. /\ DOMAIN t = 1 .. Len(kept) + 1 /\ t[1] = id /\ Len(kept) \in Nat
      /\ \A i \in DOMAIN t : i # 1 => i - 1 \in DOMAIN kept /\ t[i] = kept[i - 1]
  BY <1>4
<1>7. Range(t) = Range(kept) \cup {id}
  BY <1>4, ListMembers
<1> HIDE DEF t
<1>8. \A e \in disk[id] : \E k \in DOMAIN fs : e \in disk[s[k]] /\ k \in DOMAIN s
  <2>1. disk[id] \subseteq UNION { disk[i] : i \in Range(fs) }
    BY <1>1 DEF OrderInv, BuiltFromCopied, id
  <2>2. \A i \in Range(fs) : \E k \in DOMAIN fs : i = fs[k]
    BY DEF Range
  <2>3. \A k \in DOMAIN fs : fs[k] = s[k] /\ k \in DOMAIN s
    BY <1>1 DEF OrderInv, CopiedPrefix
  <2> QED  BY <2>1, <2>2, <2>3
<1>9. \A k \in DOMAIN fs : \A j \in DOMAIN kept : k < at[j]
  <2> TAKE k \in DOMAIN fs
  <2> TAKE j \in DOMAIN kept
  <2>1. s[at[j]] \notin Range(fs) /\ at[j] \in DOMAIN s
    BY <1>5
  <2>2. at[j] \notin DOMAIN fs
    <3>1. \A p \in DOMAIN fs : fs[p] = s[p] /\ fs[p] \in Range(fs)
      BY <1>1 DEF OrderInv, CopiedPrefix, Range
    <3> QED  BY <2>1, <3>1
  <2>3. DOMAIN fs = 1 .. Len(fs) /\ Len(fs) \in Nat /\ at[j] \in 1 .. Len(s)
        /\ Len(s) \in Nat
    BY <1>4, <2>1
  <2> QED  BY <2>2, <2>3
<1>10. \A i, j \in DOMAIN s : i < j => NotYounger(disk[s[i]], disk[s[j]])
  BY DEF OrderInv, ListInOrder
<1>11. ASSUME NEW i \in DOMAIN t, NEW j \in DOMAIN t, i < j
       PROVE  NotYounger(disk[t[i]], disk[t[j]])
  <2>1. j # 1 /\ j - 1 \in DOMAIN kept /\ t[j] = s[at[j - 1]] /\ at[j - 1] \in DOMAIN s
    BY <1>5, <1>6, <1>11
  <2>2. CASE i = 1
    <3> SUFFICES ASSUME NEW e \in disk[id], NEW g \in disk[t[j]]
                 PROVE  e.txnId <= g.txnId
      BY <1>6, <2>2 DEF NotYounger
    <3>1. PICK k \in DOMAIN fs : e \in disk[s[k]] /\ k \in DOMAIN s
      BY <1>8
    <3>2. k < at[j - 1]
      BY <1>9, <2>1
    <3> QED  BY <1>10, <2>1, <3>1, <3>2 DEF NotYounger
  <2>3. CASE i # 1
    <3>1. /\ i - 1 \in DOMAIN kept /\ t[i] = s[at[i - 1]] /\ at[i - 1] \in DOMAIN s
      BY <1>5, <1>6, <2>3
    <3>2. i - 1 < j - 1
      BY <1>6, <1>11
    <3>3. at[i - 1] < at[j - 1]
      BY <1>5, <2>1, <3>1, <3>2
    <3> QED  BY <1>10, <2>1, <3>1, <3>3
  <2> QED  BY <2>2, <2>3
<1>12. ListInOrder' /\ NamesInOrder'
  BY <1>1, <1>11 DEF ListInOrder, NamesInOrder
<1>13. PendingYoungest'
  <2> SUFFICES ASSUME NEW f \in Flushers, flush[f].pc = "written", NEW i \in Range(t)
               PROVE  NotYounger(disk[i], disk[flush[f].file])
    BY <1>1 DEF PendingYoungest
  <2>1. \A k \in Range(s) : NotYounger(disk[k], disk[flush[f].file])
    BY DEF OrderInv, PendingYoungest
  <2>2. CASE i \in Range(kept)
    BY <1>5, <2>1, <2>2
  <2>3. CASE i = id
    <3>1. \A e \in disk[id] : \E k \in Range(s) : e \in disk[k]
      BY <1>8 DEF Range
    <3> QED  BY <2>1, <2>3, <3>1 DEF NotYounger
  <2> QED  BY <1>7, <2>2, <2>3
<1>14. CopiedPrefix' /\ BuiltFromCopied'
  BY <1>2 DEF CopiedPrefix, BuiltFromCopied
<1> QED  BY <1>12, <1>13, <1>14 DEF OrderInv

\* The process ends, with the manifest intact or emptied.
LEMMA GoDownOrder ==
  ASSUME ListsAgree, OrderInv, GoDown,
         saved' = "whole" => saved = "whole" /\ diskManifest' = diskManifest
  PROVE  OrderInv'
<1>1. /\ up /\ disk' = disk /\ firstLevelFiles' = <<>>
      /\ \A f \in Flushers : flush'[f].pc = "idle"
      /\ \A c \in Compactors : compaction'[c].pc = "idle"
  BY DEF GoDown, files, Idle, NoCompaction
<1>2. ListInOrder'
  BY <1>1 DEF ListInOrder
<1>3. NamesInOrder'
  BY <1>1 DEF OrderInv, ListInOrder, NamesInOrder, ListsAgree
<1> QED  BY <1>1, <1>2, <1>3 DEF OrderInv, PendingYoungest, CopiedPrefix, BuiltFromCopied

\* NewSsTable starts with nothing pending, from the manifest that was saved.
LEMMA NewSsTableOrder ==
  ASSUME FileInv, OrderInv, NewSsTable, ~damaged'
  PROVE  OrderInv'
<1>1. /\ ~up /\ up' /\ disk' = disk /\ firstLevelFiles' = diskManifest.fileNames
      /\ saved = "whole"
      /\ \A f \in Flushers : flush'[f].pc = "idle"
      /\ \A c \in Compactors : compaction'[c].pc = "idle"
  <2>1. /\ ~up /\ up' /\ disk' = disk /\ firstLevelFiles' = diskManifest.fileNames
        /\ flush' = flush /\ compaction' = compaction
    BY DEF NewSsTable
  <2>2. saved = "whole"
    BY DEF NewSsTable
  <2> QED  BY <2>1, <2>2 DEF FileInv, DownIdle, NoCompaction
<1>2. ListInOrder' /\ NamesInOrder'
  BY <1>1 DEF OrderInv, ListInOrder, NamesInOrder
<1> QED  BY <1>1, <1>2 DEF OrderInv, PendingYoungest, CopiedPrefix, BuiltFromCopied

OneCompaction == \A c, d \in Compactors : c = d
OneOfEach == OneCompaction /\ \A f, g \in Flushers : f = g

\* A step of the files below any store that flushes one memtable at a time,
\* each as young as everything in the list.
OrderedStep ==
  \/ \E f \in Flushers :
       /\ \A g \in Flushers : g # f => flush[g].pc # "written"
       /\ \/ FlushInstall(f)
          \/ \E S \in SUBSET BoundedEntry :
               /\ FlushWrite(f, S)
               /\ \A i \in Range(firstLevelFiles) : NotYounger(disk[i], S)
  \/ \E f \in Flushers :
       \/ FlushOpenFails(f)
       \/ \E S \in SUBSET BoundedEntry : FlushWriteFails(f, S)
       \/ \E min \in MinActiveTxnIds : FlushCheck(f, min)
  \/ \E c \in Compactors : CompactStep(c)
  \/ Crash \/ CrashInSave \/ NewSsTable

\* What has damaged the directory stays there.
LEMMA DamageStays ==
  ASSUME TypeInv, [AnyStep]_vars, ~damaged'
  PROVE  ~damaged
<1>1. damaged \in BOOLEAN
  BY Parts
<1>2. ASSUME NEW f \in Flushers, AnyFlush(f)
      PROVE  ~damaged
  BY <1>1, <1>2 DEF AnyFlush, FlushWrite, FlushWriteFails, FlushOpenFails, FlushInstall,
                    FlushCheck, files
<1>3. ASSUME NEW c \in Compactors, CompactStep(c)
      PROVE  ~damaged
  <2>1. damaged' = damaged \/ damaged' \/ damaged' = (damaged \/ Reused)
    BY <1>3, Zenon DEF CompactStep, CompactBegin, CompactCopy, CompactBuild,
         CompactBuildPart, CompactBuildFails, CompactPanics, GoDown, CompactCreate,
         CompactCreateFails, CompactSwap, CompactDelete, CompactEnd, files
  <2> QED  BY <1>1, <2>1
<1>4. CASE Crash \/ CrashInSave \/ NewSsTable
  BY <1>1, <1>4 DEF Crash, CrashInSave, NewSsTable, GoDown, files
<1>5. CASE UNCHANGED vars
  BY <1>5 DEF vars, files
<1> QED  BY <1>2, <1>3, <1>4, <1>5 DEF AnyStep

LEMMA OrderedIsAny ==
  ASSUME [OrderedStep]_vars
  PROVE  [AnyStep]_vars
BY DEF OrderedStep, AnyStep, AnyFlush

\* Every such step keeps the order.
LEMMA OrderStep ==
  ASSUME OneCompaction, TypeInv, ListsAgree, FileInv, OrderInv, ~damaged',
         [OrderedStep]_vars
  PROVE  OrderInv'
<1>2. \A c, d \in Compactors : d = c
  BY DEF OneCompaction
<1>3. ASSUME NEW f \in Flushers, \A g \in Flushers : g # f => flush[g].pc # "written",
             \/ FlushInstall(f)
             \/ \E S \in SUBSET BoundedEntry :
                  /\ FlushWrite(f, S)
                  /\ \A i \in Range(firstLevelFiles) : NotYounger(disk[i], S)
      PROVE  OrderInv'
  BY <1>3, FlushWriteOrder, InstallOrder
<1>4. ASSUME NEW f \in Flushers,
             FlushOpenFails(f) \/ \E min \in MinActiveTxnIds : FlushCheck(f, min)
      PROVE  OrderInv'
  <2>1. disk' = disk /\ firstLevelFiles' = firstLevelFiles /\ up'
    <3>1. up /\ UNCHANGED <<lists, files, up>>
      BY <1>4 DEF FlushOpenFails, FlushCheck
    <3> QED  BY <3>1 DEF files, lists
  <2>2. \A g \in Flushers : flush'[g].pc = "written" => flush'[g] = flush[g]
    <3>1. CASE FlushOpenFails(f)
      BY <3>1 DEF FlushOpenFails
    <3>2. ASSUME NEW min \in MinActiveTxnIds, FlushCheck(f, min)
          PROVE  \A g \in Flushers : flush'[g].pc = "written" => flush'[g] = flush[g]
      BY <3>2, Parts DEF FlushCheck, Idle
    <3> QED  BY <1>4, <3>1, <3>2
  <2>3. \A c \in Compactors : compaction'[c] = compaction[c] \/ compaction'[c].pc = "spawned"
    <3>1. CASE compaction' = compaction
      BY <3>1
    <3>2. CASE compaction' # compaction
      <4>1. PICK d \in Compactors, min \in MinActiveTxnIds :
              compaction' = [compaction EXCEPT ![d] =
                               [NoCompaction EXCEPT !.pc = "spawned", !.min = min]]
        BY <1>4, <3>2 DEF FlushOpenFails, FlushCheck
      <4>2. [NoCompaction EXCEPT !.pc = "spawned", !.min = min].pc = "spawned"
        BY DEF NoCompaction
      <4> QED  BY <4>1, <4>2, Parts
    <3> QED  BY <3>1, <3>2
  <2> QED  BY <2>1, <2>2, <2>3, QuietOrder
<1>5. ASSUME NEW c \in Compactors, CompactBegin(c) \/ CompactBuildFails(c) \/ CompactEnd(c)
      PROVE  OrderInv'
  <2>1. /\ disk' = disk /\ up'
        /\ firstLevelFiles' = firstLevelFiles /\ flush' = flush
    BY <1>5 DEF CompactBegin, CompactBuildFails, CompactEnd, files, lists
  <2>2. \A d \in Compactors :
          compaction'[d] = compaction[d] \/ compaction'[d].pc \in {"flagged", "idle"}
    BY <1>5, Parts DEF CompactBegin, CompactBuildFails, CompactEnd, CompactReturns,
                       NoCompaction, CompactionRec
  <2> QED  BY <2>1, <2>2, QuietOrder
<1>6. CASE UNCHANGED vars
  <2>1. /\ disk' = disk /\ diskManifest' = diskManifest /\ flush' = flush
        /\ firstLevelFiles' = firstLevelFiles /\ compaction' = compaction
        /\ up' = up /\ saved' = saved
    BY <1>6 DEF vars, files, lists, manifestFile
  <2> QED  BY <2>1, QuietOrder
<1>7. CASE \/ Crash \/ CrashInSave \/ NewSsTable
           \/ \E c \in Compactors : CompactPanics(c)
  <2>1. CASE NewSsTable
    BY <2>1, NewSsTableOrder
  <2>2. CASE Crash \/ CrashInSave \/ \E c \in Compactors : CompactPanics(c)
    <3>1. GoDown /\ (saved' = "whole" => saved = "whole" /\ diskManifest' = diskManifest)
      BY <2>2 DEF Crash, CrashInSave, CompactPanics, manifestFile
    <3> QED  BY <3>1, GoDownOrder
  <2> QED  BY <1>7, <2>1, <2>2
<1>8. ASSUME NEW f \in Flushers, NEW S \in SUBSET BoundedEntry, FlushWriteFails(f, S)
      PROVE  OrderInv'
  BY <1>8, FlushWriteFailsOrder
<1>9. ASSUME NEW c \in Compactors,
             \/ CompactCopy(c) \/ CompactBuild(c) \/ CompactDelete(c) \/ CompactSwap(c)
             \/ CompactCreate(c)
      PROVE  OrderInv'
  BY <1>2, <1>9, CopyOrder, BuildOrder, DeleteOrder, SwapOrder, CreateOrder
<1>10. \A c \in Compactors : ~CompactBuildPart(c) /\ ~CompactCreateFails(c)
  BY DEF CompactBuildPart, CompactCreateFails
<1> QED  BY <1>3, <1>4, <1>5, <1>6, <1>7, <1>8, <1>9, <1>10 DEF OrderedStep, CompactStep

\* With one flusher the steps of Next are such steps.
LEMMA NextIsOrdered ==
  ASSUME OneOfEach, TypeInv, ListsAgree, FileInv, [Next]_vars
  PROVE  [OrderedStep]_vars
<1>1. ASSUME NEW f \in Flushers, NextTxn <= MaxFlushes,
             NEW S \in Memtables(NextTxn), FlushWrite(f, S)
      PROVE  OrderedStep
  <2>1. S \in SUBSET BoundedEntry
    BY <1>1, MemtableTypes
  <2>2. \A i \in Range(firstLevelFiles) : NotYounger(disk[i], S)
    <3> SUFFICES ASSUME NEW i \in Range(firstLevelFiles), NEW e \in disk[i], NEW g \in S
                 PROVE  e.txnId <= g.txnId
      BY DEF NotYounger
    <3>1. i \in existing
      BY DEF FileInv, ListedExist
    <3>2. e.txnId < g.txnId
      BY <1>1, <3>1, MemtableYoungest
    <3>3. e \in BoundedEntry /\ g \in BoundedEntry
      BY <2>1, <3>1, Parts
    <3> QED  BY <3>2, <3>3 DEF BoundedEntry
  <2> QED  BY <1>1, <2>1, <2>2 DEF OneOfEach, OrderedStep
<1>2. ASSUME NEW f \in Flushers, NextTxn <= MaxFlushes,
             NEW S \in Memtables(NextTxn), FlushWriteFails(f, S)
      PROVE  OrderedStep
  <2>1. S \in SUBSET BoundedEntry
    BY <1>2, MemtableTypes
  <2> QED  BY <1>2, <2>1 DEF OrderedStep
<1> QED  BY <1>1, <1>2 DEF OneOfEach, Next, OrderedStep

\* With one flusher and one compaction at a time, the list stays in the order
\* in which the memtables came, through failed writes and saves, crashes and
\* restarts: SsTable.Get may stop at the newest file that has the key.  That
\* holds until a file id is used twice, a compaction goes on without its data
\* or a restart finds an older manifest.json.
\* (Overlapping flushes or compactions break the order: module DB.)
THEOREM FilesStayOrdered ==
  ASSUME OneOfEach
  PROVE  Spec => []OldestFirst
<1> DEFINE Sound == ~damaged => OrderInv
<1>1. Init => Sound
  BY DEF Init, EmptyManifest, Idle, NoCompaction, OrderInv, ListInOrder, NamesInOrder,
         PendingYoungest, CopiedPrefix, BuiltFromCopied
<1>2. TypeInv /\ ListsAgree /\ FileInv /\ Sound /\ [Next]_vars => Sound'
  <2> SUFFICES ASSUME TypeInv, ListsAgree, FileInv, Sound, [Next]_vars, ~damaged'
               PROVE  OrderInv'
    OBVIOUS
  <2>1. [OrderedStep]_vars
    BY NextIsOrdered
  <2>2. OrderInv
    BY <2>1, OrderedIsAny, DamageStays
  <2> QED  BY <2>1, <2>2, OrderStep DEF OneOfEach
<1>3. TypeInv /\ FileInv /\ Sound => OldestFirst
  <2> SUFFICES ASSUME TypeInv, FileInv, OrderInv,
                      NEW i \in DOMAIN firstLevelFiles, NEW j \in DOMAIN firstLevelFiles,
                      i < j, NEW e \in disk[firstLevelFiles[i]],
                      NEW f \in disk[firstLevelFiles[j]], f.key = e.key
               PROVE  f.txnId >= e.txnId
    BY DEF OldestFirst
  <2>1. e.txnId <= f.txnId
    BY DEF OrderInv, ListInOrder, NotYounger
  <2>2. firstLevelFiles[i] \in FileIds /\ firstLevelFiles[j] \in FileIds
    BY ReferencedIds DEF Range
  <2>3. e \in BoundedEntry /\ f \in BoundedEntry
    BY <2>2, Parts
  <2> QED  BY <2>1, <2>3 DEF BoundedEntry
<1> QED  BY <1>1, <1>2, <1>3, FilesInvariant, PTL DEF Spec

-------------------------------------------------------------------------------
(***************************************************************************)
(* What compactions drop.  The list in force is that of the process or,     *)
(* while none runs, the one of manifest.json, if that was saved.           *)
(***************************************************************************)
Names == IF up THEN firstLevelFiles ELSE diskManifest.fileNames
Intact == ~damaged /\ (up \/ saved = "whole")

\* A newer version of the key, which every reader is old enough for.
Superseded(e) ==
  \E f \in written : f.key = e.key /\ e.txnId < f.txnId /\ f.txnId <= maxMin

NamedWritten == \A i \in Range(Names) : disk[i] \subseteq written

\* A compaction handles installed entries only.
CopiedWritten ==
  \A c \in Compactors : compaction[c].pc \in {"copied", "built", "created"} =>
    /\ \A i \in Range(compaction[c].files) : disk[i] \subseteq written
    /\ compaction[c].pc = "built" => compaction[c].entries \subseteq written
    /\ compaction[c].pc = "created" => disk[compaction[c].file] \subseteq written

\* No two flushes wrote the same version of a key.
OneVersion ==
  \A e, f \in written \cup UNION { disk[i] : i \in existing } :
    e.key = f.key /\ e.txnId = f.txnId => e = f

MinBelow ==
  \A c \in Compactors : compaction[c].pc # "idle" => compaction[c].min <= maxMin

\* What a compaction will replace is in what it has built, or superseded.
BuiltComplete ==
  \A c \in Compactors : \A i \in Range(compaction[c].files) : \A e \in disk[i] :
    /\ compaction[c].pc = "built" => e \in compaction[c].entries \/ Superseded(e)
    /\ compaction[c].pc = "created" =>
         e \in disk[compaction[c].file] \/ Superseded(e)

\* S adds no second version to what the files hold.
NewVersions(S) ==
  \A e \in S : \A f \in S \cup written \cup UNION { disk[i] : i \in existing } :
    e.key = f.key /\ e.txnId = f.txnId => e = f

NoneLost ==
  \A e \in written : Superseded(e) \/ \E i \in Range(Names) : e \in disk[i]

DropInv ==
  /\ NamedWritten /\ CopiedWritten /\ OneVersion /\ MinBelow /\ BuiltComplete
  /\ NoneLost

\* Superseded stays so while entries are installed and compactions start.
LEMMA SupersededStays ==
  ASSUME TypeInv, TypeInv', written \subseteq written', maxMin <= maxMin'
  PROVE  \A e : Superseded(e) => \E f \in written' :
                  f.key = e.key /\ e.txnId < f.txnId /\ f.txnId <= maxMin'
<1>1. \A f \in written : f.txnId \in Nat
  BY Parts DEF BoundedEntry, Entry
<1>2. maxMin \in Nat /\ maxMin' \in Nat
  BY DEF TypeInv, TypeOK
<1>3. \A f \in written : f.txnId <= maxMin => f.txnId <= maxMin'
  BY <1>1, <1>2
<1> QED  BY <1>3 DEF Superseded

\* A step that at most removes files nobody lists and starts or ends
\* goroutines.
LEMMA QuietDrop ==
  ASSUME TypeInv, TypeInv', DropInv, written' = written, maxMin <= maxMin',
         Names' = Names, existing' \subseteq existing,
         \A i \in FileIds : disk'[i] \subseteq disk[i],
         \A i \in Range(Names) : disk'[i] = disk[i],
         \A c \in Compactors : compaction[c].pc = "created" =>
           disk'[compaction[c].file] = disk[compaction[c].file],
         \A c \in Compactors :
           \/ compaction'[c] = compaction[c]
           \/ compaction'[c].pc \notin {"copied", "built", "created"},
         \A c \in Compactors : compaction'[c].pc # "idle" =>
           compaction'[c].min <= maxMin'
  PROVE  DropInv'
<1>1. \A e : Superseded(e) => Superseded(e)'
  BY SupersededStays DEF Superseded
<1>2. NamedWritten' /\ MinBelow'
  BY DEF DropInv, NamedWritten, MinBelow
<1>3. \A c \in Compactors : compaction'[c] = compaction[c] =>
        \A i \in Range(compaction[c].files) : disk'[i] \subseteq disk[i]
  BY ReferencedIds
<1>4. CopiedWritten'
  <2> SUFFICES ASSUME NEW c \in Compactors,
                      compaction'[c].pc \in {"copied", "built", "created"},
                      compaction'[c] = compaction[c]
               PROVE  /\ \A i \in Range(compaction[c].files) : disk'[i] \subseteq written
                      /\ compaction[c].pc = "built" => compaction[c].entries \subseteq written
                      /\ compaction[c].pc = "created" =>
                           disk'[compaction[c].file] \subseteq written
    BY DEF CopiedWritten
  <2> QED  BY <1>3 DEF DropInv, CopiedWritten
<1>5. OneVersion'
  <2>1. \A i \in existing' : i \in existing /\ disk'[i] \subseteq disk[i]
    BY Parts
  <2>2. UNION { disk'[i] : i \in existing' } \subseteq UNION { disk[i] : i \in existing }
    BY <2>1
  <2> QED  BY <2>2 DEF DropInv, OneVersion
<1>6. BuiltComplete'
  <2> SUFFICES ASSUME NEW c \in Compactors, compaction'[c] = compaction[c],
                      NEW i \in Range(compaction[c].files), NEW e \in disk'[i]
               PROVE  /\ compaction[c].pc = "built" =>
                           e \in compaction[c].entries \/ Superseded(e)'
                      /\ compaction[c].pc = "created" =>
                           e \in disk'[compaction[c].file] \/ Superseded(e)'
    BY DEF BuiltComplete
  <2>1. e \in disk[i]
    BY <1>3
  <2> QED  BY <1>1, <2>1 DEF DropInv, BuiltComplete
<1>7. NoneLost'
  BY <1>1 DEF DropInv, NoneLost
<1> QED  BY <1>2, <1>4, <1>5, <1>6, <1>7 DEF DropInv

\* CompactCopy copies installed files.
LEMMA CopyDrop ==
  ASSUME TypeInv, DropInv, NEW c \in Compactors, CompactCopy(c)
  PROVE  DropInv'
<1>1. /\ disk' = disk /\ existing' = existing /\ Names' = Names
      /\ written' = written /\ maxMin' = maxMin /\ up /\ compaction[c].pc = "flagged"
  BY DEF CompactCopy, lists, files, history, Names
<1>2. /\ compaction'[c].pc = "copied" /\ compaction'[c].files = firstLevelFiles
      /\ compaction'[c].min = compaction[c].min
      /\ \A d \in Compactors : d # c => compaction'[d] = compaction[d]
  BY Parts DEF CompactCopy, CompactionRec
<1>3. NamedWritten' /\ OneVersion' /\ NoneLost'
  BY <1>1 DEF DropInv, NamedWritten, OneVersion, NoneLost, Superseded
<1>4. MinBelow'
  BY <1>1, <1>2 DEF DropInv, MinBelow
<1>5. CopiedWritten'
  <2>1. \A i \in Range(firstLevelFiles) : disk[i] \subseteq written
    BY <1>1 DEF DropInv, NamedWritten, Names
  <2> QED  BY <1>1, <1>2, <2>1 DEF DropInv, CopiedWritten
<1>6. BuiltComplete'
  BY <1>1, <1>2 DEF DropInv, BuiltComplete, Superseded
<1> QED  BY <1>3, <1>4, <1>5, <1>6 DEF DropInv

\* Of the versions that buildCompactedEntries leaves out, each is superseded.
LEMMA BuildKeeps ==
  ASSUME TypeInv, DropInv, NEW c \in Compactors, compaction[c].pc = "copied",
         Range(compaction[c].files) \subseteq existing,
         NEW i \in Range(compaction[c].files), NEW e \in disk[i],
         e \notin buildCompactedEntries(compaction[c].files, compaction[c].min)
  PROVE  Superseded(e)
<1> DEFINE fs == compaction[c].files
           min == compaction[c].min
           K == { k \in DOMAIN fs : e \in disk[fs[k]] }
<1>1. fs \in Seq(FileIds) /\ min \in Nat
  BY Parts DEF CompactionRec, FileLists
<1>2. PICK n \in Nat : DOMAIN fs = 1 .. n
  BY <1>1
<1>3. K # {} /\ K \in SUBSET (0 .. n)
  <2>1. PICK k \in DOMAIN fs : fs[k] = i
    BY DEF Range
  <2> QED  BY <1>2, <2>1
<1>4. PICK k \in K : \A j \in K : k >= j
  <2> HIDE DEF K
  <2> QED  BY <1>3, LargestExists
<1>5. k \in DOMAIN fs /\ e \in disk[fs[k]]
  BY <1>4
<1>6. PICK j \in DOMAIN fs : \E f \in disk[fs[j]] :
        /\ f.key = e.key /\ f.txnId <= min
        /\ e.txnId < f.txnId \/ (e.txnId = f.txnId /\ k < j)
  BY <1>5 DEF buildCompactedEntries
<1>7. PICK f \in disk[fs[j]] :
        /\ f.key = e.key /\ f.txnId <= min
        /\ e.txnId < f.txnId \/ (e.txnId = f.txnId /\ k < j)
  BY <1>6
<1>8. /\ fs[j] \in Range(fs) /\ fs[k] \in Range(fs)
      /\ \A p \in Range(fs) : disk[p] \subseteq written
  BY <1>5, <1>6 DEF Range, DropInv, CopiedWritten
<1>9. e \in written /\ f \in written
  BY <1>5, <1>7, <1>8
<1>10. e.txnId < f.txnId
  <2> SUFFICES ASSUME e.txnId = f.txnId, k < j PROVE FALSE
    BY <1>7
  <2>1. f = e
    BY <1>7, <1>9 DEF DropInv, OneVersion
  <2>2. j \in K
    BY <1>6, <1>7, <2>1
  <2>3. k >= j
    BY <1>4, <2>2
  <2> HIDE DEF K
  <2>4. k \in 1 .. n /\ j \in 1 .. n
    BY <1>2, <1>5, <1>6
  <2> QED  BY <2>3, <2>4
<1>11. f.txnId <= maxMin
  <2>1. f.txnId \in Nat /\ maxMin \in Nat
    BY <1>9, Parts DEF BoundedEntry, Entry
  <2>2. min <= maxMin
    BY DEF DropInv, MinBelow
  <2> QED  BY <1>1, <1>7, <2>1, <2>2
<1> QED  BY <1>7, <1>9, <1>10, <1>11 DEF Superseded

\* What buildCompactedEntries returns is complete.
LEMMA BuildDrop ==
  ASSUME TypeInv, DropInv, NEW c \in Compactors, CompactBuild(c)
  PROVE  DropInv'
<1> DEFINE fs == compaction[c].files
           E == buildCompactedEntries(fs, compaction[c].min)
<1>1. /\ disk' = disk /\ existing' = existing /\ Names' = Names
      /\ written' = written /\ maxMin' = maxMin /\ compaction[c].pc = "copied"
      /\ Range(fs) \subseteq existing
  <2>1. up /\ up' /\ compaction[c].pc = "copied" /\ Range(fs) \subseteq existing
    BY DEF CompactBuild, Unreadable
  <2>2. UNCHANGED <<lists, files, history>>
    BY DEF CompactBuild
  <2> QED  BY <2>1, <2>2 DEF lists, files, history, Names
<1>2. /\ compaction'[c].pc = "built" /\ compaction'[c].files = fs
      /\ compaction'[c].min = compaction[c].min /\ compaction'[c].entries = E
      /\ \A d \in Compactors : d # c => compaction'[d] = compaction[d]
  BY Parts DEF CompactBuild, CompactionRec
<1>3. \A i \in Range(fs) : \A e \in disk[i] : e \in E \/ Superseded(e)
  BY <1>1, BuildKeeps
<1>4. \A e \in E : \E i \in Range(fs) : e \in disk[i]
  BY DEF buildCompactedEntries, Range
<1> HIDE DEF E
<1>5. NamedWritten' /\ OneVersion' /\ NoneLost'
  BY <1>1 DEF DropInv, NamedWritten, OneVersion, NoneLost, Superseded
<1>6. MinBelow'
  BY <1>1, <1>2 DEF DropInv, MinBelow
<1>7. CopiedWritten'
  <2>1. \A i \in Range(fs) : disk[i] \subseteq written
    BY <1>1 DEF DropInv, CopiedWritten
  <2>2. E \subseteq written
    BY <1>4, <2>1
  <2> QED  BY <1>1, <1>2, <2>1, <2>2 DEF DropInv, CopiedWritten
<1>8. BuiltComplete'
  BY <1>1, <1>2, <1>3 DEF DropInv, BuiltComplete, Superseded
<1> QED  BY <1>5, <1>6, <1>7, <1>8 DEF DropInv

\* A new file changes nothing that is listed or copied.
LEMMA NewFileDrop ==
  ASSUME TypeInv, FileInv, DropInv, up, ~Reused,
         NEW S \in SUBSET BoundedEntry, NEW whole, WriteNewFile(S, whole),
         written' = written, maxMin' = maxMin, Names' = Names,
         NewVersions(S)
  PROVE  /\ NamedWritten' /\ OneVersion' /\ NoneLost'
         /\ \A c \in Compactors :
              /\ \A i \in Range(compaction[c].files) : disk'[i] = disk[i]
              /\ compaction[c].pc = "created" =>
                   disk'[compaction[c].file] = disk[compaction[c].file]
<1> DEFINE id == manifest.nextFileId
<1>1. /\ disk'[id] = S /\ \A i : Referenced(i) \/ Fresh(i) => disk'[i] = disk[i]
      /\ \A i \in FileIds : i # id => disk'[i] = disk[i]
  BY NewFileDisk
<1>2. existing' = existing \cup {id}
  BY NewFileTypes
<1>3. \A i \in Range(Names) : disk'[i] = disk[i]
  BY <1>1 DEF Names, Referenced
<1>4. NamedWritten'
  BY <1>3 DEF DropInv, NamedWritten
<1>5. NoneLost'
  BY <1>3 DEF DropInv, NoneLost, Superseded
<1>6. OneVersion'
  <2> DEFINE D == UNION { disk[i] : i \in existing }
  <2>1. ASSUME NEW e \in UNION { disk'[i] : i \in existing' }
        PROVE  e \in S \cup D
    <3>1. PICK i \in existing' : e \in disk'[i]
      OBVIOUS
    <3>2. CASE i = id
      BY <1>1, <3>1, <3>2
    <3>3. CASE i # id
      <4>1. i \in existing /\ i \in FileIds
        BY <1>2, <3>1, <3>3, Parts
      <4>2. disk'[i] = disk[i]
        BY <1>1, <3>3, <4>1
      <4> QED  BY <3>1, <4>1, <4>2
    <3> QED  BY <3>2, <3>3
  <2>2. written' \cup UNION { disk'[i] : i \in existing' } \subseteq S \cup written \cup D
    BY <2>1
  <2>3. \A e, f \in written \cup D : e.key = f.key /\ e.txnId = f.txnId => e = f
    BY DEF DropInv, OneVersion
  <2> HIDE DEF D
  <2>4. \A e \in S : \A f \in S \cup written \cup D :
          e.key = f.key /\ e.txnId = f.txnId => e = f
    BY DEF D, NewVersions
  <2>5. \A e, f \in S \cup written \cup D : e.key = f.key /\ e.txnId = f.txnId => e = f
    BY <2>3, <2>4
  <2> QED  BY <2>2, <2>5 DEF OneVersion
<1>7. ASSUME NEW c \in Compactors
      PROVE  /\ \A i \in Range(compaction[c].files) : disk'[i] = disk[i]
             /\ compaction[c].pc = "created" =>
                  disk'[compaction[c].file] = disk[compaction[c].file]
  BY <1>1 DEF Referenced, FileInv, CompactedFresh
<1> QED  BY <1>4, <1>5, <1>6, <1>7

\* The memtables of Next hold versions that nobody has written.
LEMMA MemtablesNew ==
  ASSUME TypeInv, NextTxn <= MaxFlushes, NEW S \in Memtables(NextTxn)
  PROVE  S \in SUBSET BoundedEntry /\ NewVersions(S)
<1>1. S \in SUBSET BoundedEntry
  BY MemtableTypes
<1>2. ASSUME NEW e \in S, NEW g \in S \cup written \cup UNION { disk[i] : i \in existing },
             e.key = g.key, e.txnId = g.txnId
      PROVE  e = g
  <2>1. CASE g \in S
    BY <1>2, <2>1, MemtableYoungest
  <2>2. CASE g \notin S
    <3>1. g.txnId < e.txnId
      BY <2>2, MemtableYoungest
    <3>2. e.txnId \in Nat
      BY <1>1 DEF BoundedEntry, Entry
    <3> QED  BY <1>2, <3>1, <3>2
  <2> QED  BY <2>1, <2>2
<1> QED  BY <1>1, <1>2 DEF NewVersions

\* A flush that writes such versions, all or some of them.
LEMMA FlushWriteDrop ==
  ASSUME TypeInv, FileInv, DropInv, ~damaged', NEW f \in Flushers,
         NEW S \in SUBSET BoundedEntry, NewVersions(S),
         FlushWrite(f, S) \/ FlushWriteFails(f, S)
  PROVE  DropInv'
<1>1. /\ WriteNewFile(S, TRUE) \/ WriteNewFile(S, FALSE)
      /\ up /\ ~Reused /\ Names' = Names
      /\ compaction' = compaction /\ written' = written /\ maxMin' = maxMin
  <2>1. /\ up /\ up' = up /\ UNCHANGED <<lists, compaction, history>>
        /\ WriteNewFile(S, TRUE) \/ WriteNewFile(S, FALSE)
    BY DEF FlushWrite, FlushWriteFails
  <2>2. ~Reused
    BY DEF FlushWrite, FlushWriteFails
  <2> QED  BY <2>1, <2>2 DEF lists, history, Names
<1>2. /\ NamedWritten' /\ OneVersion' /\ NoneLost'
      /\ \A c \in Compactors :
           /\ \A i \in Range(compaction[c].files) : disk'[i] = disk[i]
           /\ compaction[c].pc = "created" =>
                disk'[compaction[c].file] = disk[compaction[c].file]
  BY <1>1, NewFileDrop
<1>3. CopiedWritten'
  BY <1>1, <1>2 DEF DropInv, CopiedWritten
<1>4. MinBelow'
  BY <1>1 DEF DropInv, MinBelow
<1>5. BuiltComplete'
  BY <1>1, <1>2 DEF DropInv, BuiltComplete, Superseded
<1> QED  BY <1>2, <1>3, <1>4, <1>5 DEF DropInv

\* The compacted file holds what was built.
LEMMA CreateDrop ==
  ASSUME TypeInv, FileInv, DropInv, ~damaged', NEW c \in Compactors, CompactCreate(c)
  PROVE  DropInv'
<1> DEFINE id == manifest.nextFileId
           S == compaction[c].entries
           fs == compaction[c].files
<1>1. /\ WriteNewFile(S, TRUE) /\ up /\ ~Reused /\ Names' = Names
      /\ written' = written /\ maxMin' = maxMin /\ compaction[c].pc = "built"
  BY DEF CompactCreate, lists, history, Names
<1>2. /\ compaction'[c].pc = "created" /\ compaction'[c].file = id
      /\ compaction'[c].files = fs /\ compaction'[c].min = compaction[c].min
      /\ \A d \in Compactors : d # c => compaction'[d] = compaction[d]
  <2>1. compaction' = [compaction EXCEPT ![c].pc = "created", ![c].entries = {},
                                         ![c].file = id]
    BY Zenon DEF CompactCreate
  <2>2. compaction \in [Compactors -> CompactionRec]
    BY Parts
  <2> QED  BY <2>1, <2>2 DEF CompactionRec
<1>3. S \in SUBSET BoundedEntry /\ S \subseteq written
  BY <1>1, Parts DEF DropInv, CopiedWritten
<1>4. NewVersions(S)
  BY <1>3 DEF DropInv, OneVersion, NewVersions
<1>5. disk'[id] = S
  BY <1>1, <1>3, NewFileDisk
<1>6. /\ NamedWritten' /\ OneVersion' /\ NoneLost'
      /\ \A d \in Compactors :
           /\ \A i \in Range(compaction[d].files) : disk'[i] = disk[i]
           /\ compaction[d].pc = "created" =>
                disk'[compaction[d].file] = disk[compaction[d].file]
  <2> HIDE DEF S
  <2> QED  BY <1>1, <1>3, <1>4, NewFileDrop
<1> HIDE DEF id
<1>7. CopiedWritten'
  <2>1. \A i \in Range(fs) : disk'[i] \subseteq written
    BY <1>1, <1>6 DEF DropInv, CopiedWritten
  <2>2. \A d \in Compactors :
          d # c /\ compaction'[d].pc \in {"copied", "built", "created"} =>
            /\ \A i \in Range(compaction'[d].files) : disk'[i] \subseteq written
            /\ compaction'[d].pc = "built" => compaction'[d].entries \subseteq written
            /\ compaction'[d].pc = "created" => disk'[compaction'[d].file] \subseteq written
    BY <1>2, <1>6 DEF DropInv, CopiedWritten
  <2> QED  BY <1>1, <1>2, <1>3, <1>5, <2>1, <2>2 DEF CopiedWritten
<1>8. MinBelow'
  BY <1>1, <1>2 DEF DropInv, MinBelow
<1>9. BuiltComplete'
  <2>1. \A i \in Range(fs) : \A e \in disk'[i] : e \in S \/ Superseded(e)
    BY <1>1, <1>6 DEF DropInv, BuiltComplete
  <2>2. \A d \in Compactors : d # c =>
          \A i \in Range(compaction'[d].files) : \A e \in disk'[i] :
            /\ compaction'[d].pc = "built" =>
                 e \in compaction'[d].entries \/ Superseded(e)
            /\ compaction'[d].pc = "created" =>
                 e \in disk'[compaction'[d].file] \/ Superseded(e)
    BY <1>2, <1>6 DEF DropInv, BuiltComplete
  <2>3. \A e : Superseded(e) => Superseded(e)'
    BY <1>1 DEF Superseded
  <2> HIDE DEF S
  <2> QED  BY <1>2, <1>5, <2>1, <2>2, <2>3 DEF BuiltComplete
<1> QED  BY <1>6, <1>7, <1>8, <1>9 DEF DropInv

\* Write installs what it has written.
LEMMA InstallDrop ==
  ASSUME TypeInv, TypeInv', FileInv, DropInv, NEW f \in Flushers,
         FlushInstall(f)
  PROVE  DropInv'
<1> DEFINE id == flush[f].file
           s == firstLevelFiles
<1>1. /\ up /\ flush[f].pc = "written" /\ compaction' = compaction /\ disk' = disk
      /\ existing' = existing /\ maxMin' = maxMin
      /\ written' = written \cup disk[id]
      /\ up' /\ firstLevelFiles' = Append(s, id)
  BY DEF FlushInstall, files
<1>2. Names' = Append(s, id) /\ Names = s
  BY <1>1 DEF Names
<1>3. Range(Names') = Range(s) \cup {id}
  <2>1. s \in Seq(FileIds) /\ id \in FileIds
    BY ReferencedIds
  <2> HIDE DEF id, s
  <2>2. Range(Append(s, id)) = Range(s) \cup {id}
    BY <2>1, ListMembers
  <2> QED  BY <1>2, <2>2
<1>4. id \in existing
  BY <1>1 DEF FileInv, FlushedFresh, Fresh
<1>5. \A e : Superseded(e) => Superseded(e)'
  <2>1. maxMin <= maxMin'
    BY <1>1, Parts
  <2> QED  BY <1>1, <2>1, SupersededStays DEF Superseded
<1> HIDE DEF id, s
<1>6. NamedWritten'
  BY <1>1, <1>2, <1>3 DEF DropInv, NamedWritten
<1>7. CopiedWritten'
  BY <1>1 DEF DropInv, CopiedWritten
<1>8. OneVersion'
  <2>1. written' \cup UNION { disk'[i] : i \in existing' }
          = written \cup UNION { disk[i] : i \in existing }
    BY <1>1, <1>4
  <2> QED  BY <2>1 DEF DropInv, OneVersion
<1>9. MinBelow'
  BY <1>1 DEF DropInv, MinBelow
<1>10. BuiltComplete'
  BY <1>1, <1>5 DEF DropInv, BuiltComplete
<1>11. NoneLost'
  <2> SUFFICES ASSUME NEW e \in written', ~Superseded(e)'
               PROVE  \E i \in Range(Names') : e \in disk'[i]
    BY DEF NoneLost
  <2>1. CASE e \in disk[id]
    BY <1>1, <1>3, <2>1
  <2>2. CASE e \in written
    <3>1. ~Superseded(e)
      BY <1>5
    <3> QED  BY <1>1, <1>2, <1>3, <2>2, <3>1
             DEF DropInv, NoneLost
  <2> QED  BY <1>1, <2>1, <2>2
<1> QED  BY <1>6, <1>7, <1>8, <1>9, <1>10, <1>11 DEF DropInv

\* atomicSwap takes out the copied files, for which the compacted one stands.
LEMMA SwapDrop ==
  ASSUME TypeInv, DropInv, NEW c \in Compactors, CompactSwap(c)
  PROVE  DropInv'
<1> DEFINE id == compaction[c].file
           fs == compaction[c].files
           s == firstLevelFiles
           kept == Kept(firstLevelFiles, Range(fs))
<1>1. /\ up /\ up' /\ compaction[c].pc = "created" /\ disk' = disk
      /\ existing' = existing /\ written' = written /\ maxMin' = maxMin
      /\ firstLevelFiles' = <<id>> \o kept
  BY DEF CompactSwap, files, history
<1>2. /\ compaction'[c].pc = "swapped" /\ compaction'[c].min = compaction[c].min
      /\ \A d \in Compactors : d # c => compaction'[d] = compaction[d]
  BY Parts DEF CompactSwap, CompactionRec
<1>3. Names' = <<id>> \o kept /\ Names = s
  BY <1>1 DEF Names
<1>4. s \in Seq(FileIds) /\ id \in FileIds /\ kept \in Seq(FileIds)
  BY ReferencedIds, KeptMembers
<1>5. Range(kept) = Range(s) \ Range(fs)
  <2>1. ASSUME NEW k, k = kept, NEW old, old = Range(fs)
        PROVE  k = Kept(firstLevelFiles, old) /\ firstLevelFiles \in Seq(FileIds)
    BY <1>4, <2>1
  <2> HIDE DEF kept, fs
  <2> QED  BY <2>1, KeptPositions
<1> HIDE DEF id, kept
<1>6. Range(Names') = (Range(s) \ Range(fs)) \cup {id}
  BY <1>3, <1>4, <1>5, ListMembers
<1>7. NamedWritten'
  <2>1. disk[id] \subseteq written
    BY <1>1 DEF DropInv, CopiedWritten, id
  <2>2. \A i \in Range(s) : disk[i] \subseteq written
    BY <1>3 DEF DropInv, NamedWritten
  <2> QED  BY <1>1, <1>6, <2>1, <2>2 DEF NamedWritten
<1>8. CopiedWritten'
  BY <1>1, <1>2 DEF DropInv, CopiedWritten
<1>9. OneVersion' /\ MinBelow'
  <2>1. OneVersion'
    BY <1>1 DEF DropInv, OneVersion
  <2>2. MinBelow'
    BY <1>1, <1>2 DEF DropInv, MinBelow
  <2> QED  BY <2>1, <2>2
<1>10. BuiltComplete'
  BY <1>1, <1>2 DEF DropInv, BuiltComplete, Superseded
<1>11. NoneLost'
  <2> SUFFICES ASSUME NEW e \in written, ~Superseded(e)
               PROVE  \E i \in Range(Names') : e \in disk[i]
    BY <1>1 DEF NoneLost, Superseded
  <2>1. PICK i \in Range(s) : e \in disk[i]
    BY <1>3 DEF DropInv, NoneLost
  <2>2. CASE i \in Range(fs)
    <3>1. e \in disk[id]
      BY <1>1, <2>1, <2>2 DEF DropInv, BuiltComplete, id
    <3> QED  BY <1>6, <3>1
  <2>3. CASE i \notin Range(fs)
    BY <1>6, <2>1, <2>3
  <2> QED  BY <2>2, <2>3
<1> QED  BY <1>7, <1>8, <1>9, <1>10, <1>11 DEF DropInv

\* A file that is removed is neither listed nor about to be.
LEMMA DeleteDrop ==
  ASSUME TypeInv, TypeInv', FileInv, DropInv, NEW c \in Compactors, CompactDelete(c)
  PROVE  DropInv'
<1> DEFINE gone == Head(compaction[c].files)
<1>1. /\ up /\ compaction[c].pc = "swapped" /\ compaction[c].files # <<>>
      /\ Names' = Names /\ written' = written /\ maxMin' = maxMin
      /\ existing' \subseteq existing /\ disk' = [disk EXCEPT ![gone] = {}]
  BY DEF CompactDelete, lists, history, Names
<1>2. /\ compaction'[c].pc = "swapped" /\ compaction'[c].min = compaction[c].min
      /\ \A d \in Compactors : d # c => compaction'[d] = compaction[d]
  BY Parts DEF CompactDelete, CompactionRec
<1>3. gone \in Range(compaction[c].files)
  BY <1>1, ReferencedIds, ListMembers DEF Range
<1> HIDE DEF gone
<1>4. /\ \A i \in FileIds : disk'[i] \subseteq disk[i]
      /\ \A i \in FileIds : i # gone => disk'[i] = disk[i]
  BY <1>1, Parts
<1>5. \A i \in Range(Names) : disk'[i] = disk[i]
  <2>1. gone \notin Range(Names)
    BY <1>1, <1>3 DEF FileInv, SwappedGone, Names
  <2> QED  BY <1>4, <2>1, ReferencedIds DEF Names
<1>6. \A d \in Compactors : compaction[d].pc = "created" =>
        disk'[compaction[d].file] = disk[compaction[d].file]
  <2>1. \A d \in Compactors : compaction[d].pc = "created" => compaction[d].file # gone
    BY <1>3 DEF FileInv, CompactedFresh, Fresh, Referenced
  <2> QED  BY <1>4, <2>1, ReferencedIds
<1>7. \A d \in Compactors : compaction'[d].pc # "idle" => compaction'[d].min <= maxMin'
  BY <1>1, <1>2 DEF DropInv, MinBelow
<1>8. maxMin <= maxMin'
  BY <1>1, Parts
<1> QED  BY <1>1, <1>2, <1>4, <1>5, <1>6, <1>7, <1>8, QuietDrop

\* Goroutines that start, end or have nothing to do yet.
LEMMA SameFilesDrop ==
  ASSUME TypeInv, TypeInv', DropInv, written' = written, maxMin <= maxMin',
         Names' = Names, existing' = existing, disk' = disk,
         \A c \in Compactors :
           \/ compaction'[c] = compaction[c]
           \/ compaction'[c].pc \notin {"copied", "built", "created"},
         \A c \in Compactors : compaction'[c].pc # "idle" =>
           compaction'[c].min <= maxMin'
  PROVE  DropInv'
BY QuietDrop

\* A step of the files below any store that flushes new versions only.
SafeStep ==
  \/ \E f \in Flushers :
       \/ \E S \in SUBSET BoundedEntry :
            NewVersions(S) /\ (FlushWrite(f, S) \/ FlushWriteFails(f, S))
       \/ FlushOpenFails(f) \/ FlushInstall(f)
       \/ \E min \in MinActiveTxnIds : FlushCheck(f, min)
  \/ \E c \in Compactors : CompactStep(c)
  \/ Crash \/ CrashInSave \/ NewSsTable

\* An end of the process that leaves manifest.json whole leaves the list.
LEMMA DownNames ==
  ASSUME ListsAgree, Intact',
         Crash \/ CrashInSave \/ \E c \in Compactors : CompactPanics(c)
  PROVE  /\ up /\ ~up' /\ GoDown /\ Names' = Names
         /\ diskManifest' = diskManifest /\ saved' = saved
<1>1. GoDown /\ up /\ ~up'
  BY DEF Crash, CrashInSave, CompactPanics, GoDown
<1>2. saved' = "whole"
  BY <1>1 DEF Intact
<1>3. diskManifest' = diskManifest /\ saved' = saved
  BY <1>2 DEF Crash, CrashInSave, CompactPanics, manifestFile
<1> QED  BY <1>1, <1>2, <1>3 DEF Names, ListsAgree

\* NewSsTable takes the list over, and other steps do not bring back what was
\* damaged.
LEMMA UpNames ==
  ASSUME NewSsTable
  PROVE  Names' = Names
<1>1. ~up /\ up' /\ firstLevelFiles' = diskManifest.fileNames
  BY DEF NewSsTable
<1> QED  BY <1>1 DEF Names

LEMMA IntactStays ==
  ASSUME TypeInv, [AnyStep]_vars, Intact'
  PROVE  Intact
<1>1. ~damaged
  BY DamageStays DEF Intact
<1>2. ASSUME ~up PROVE saved = "whole"
  <2>1. CASE NewSsTable
    BY <2>1 DEF NewSsTable, Intact
  <2>2. CASE UNCHANGED vars
    <3>1. up' = up /\ saved' = saved
      BY <2>2 DEF vars, manifestFile
    <3> QED  BY <1>2, <3>1 DEF Intact
  <2>3. ASSUME NEW f \in Flushers, AnyFlush(f) PROVE FALSE
    BY <1>2, <2>3 DEF AnyFlush, FlushWrite, FlushWriteFails, FlushOpenFails, FlushInstall,
                      FlushCheck
  <2>4. ASSUME NEW c \in Compactors, CompactStep(c) PROVE FALSE
    BY <1>2, <2>4 DEF CompactStep, CompactBegin, CompactCopy, CompactBuild,
         CompactBuildPart, CompactBuildFails, CompactPanics, GoDown, CompactCreate,
         CompactCreateFails, CompactSwap, CompactDelete, CompactEnd
  <2>5. CASE Crash \/ CrashInSave
    BY <1>2, <2>5 DEF Crash, CrashInSave, GoDown
  <2> QED  BY <2>1, <2>2, <2>3, <2>4, <2>5 DEF AnyStep
<1> QED  BY <1>1, <1>2 DEF Intact

LEMMA SafeIsAny ==
  ASSUME [SafeStep]_vars
  PROVE  [AnyStep]_vars
BY DEF SafeStep, AnyStep, AnyFlush

\* Every such step keeps what is not superseded.
LEMMA DropStep ==
  ASSUME TypeInv, ListsAgree, FileInv, DropInv, Intact', [SafeStep]_vars
  PROVE  DropInv'
<1>1. TypeInv' /\ ~damaged'
  BY SafeIsAny, TypesStep DEF Intact
<1>2. maxMin \in Nat /\ \A c \in Compactors : compaction[c].min \in Nat
  BY Parts DEF CompactionRec
<1>3. ASSUME NEW f \in Flushers, NEW min \in MinActiveTxnIds, FlushCheck(f, min)
      PROVE  DropInv'
  <2>1. /\ disk' = disk /\ existing' = existing /\ Names' = Names
        /\ written' = written
    <3>1. up /\ up' = up /\ written' = written /\ UNCHANGED <<lists, files>>
      BY <1>3 DEF FlushCheck
    <3> QED  BY <3>1 DEF lists, files, Names
  <2>2. CASE compaction' = compaction /\ maxMin' = maxMin
    BY <1>1, <1>2, <2>1, <2>2, SameFilesDrop DEF DropInv, MinBelow
  <2>3. CASE ShouldRunCompaction
    <3> DEFINE r == [NoCompaction EXCEPT !.pc = "spawned", !.min = min]
    <3>1. PICK c \in Compactors : compaction' = [compaction EXCEPT ![c] = r]
      BY <1>3, <2>3 DEF FlushCheck
    <3>2. maxMin' = IF min > maxMin THEN min ELSE maxMin
      BY <1>3, <2>3 DEF FlushCheck
    <3>3. min \in Nat
      BY SsTableAssumption
    <3>4. maxMin <= maxMin' /\ min <= maxMin' /\ maxMin' \in Nat
      BY <1>2, <3>2, <3>3
    <3>5. r.pc = "spawned" /\ r.min = min
      BY DEF NoCompaction
    <3> HIDE DEF r
    <3>6. compaction'[c] = r /\ \A d \in Compactors : d # c => compaction'[d] = compaction[d]
      BY <3>1, Parts
    <3>7. \A d \in Compactors : compaction'[d].pc # "idle" => compaction'[d].min <= maxMin'
      <4> TAKE d \in Compactors
      <4>1. CASE d = c
        BY <3>4, <3>5, <3>6, <4>1
      <4>2. CASE d # c
        BY <1>2, <3>4, <3>6, <4>2 DEF DropInv, MinBelow
      <4> QED  BY <4>1, <4>2
    <3> QED  BY <1>1, <2>1, <3>4, <3>5, <3>6, <3>7, SameFilesDrop
  <2> QED  BY <1>3, <2>2, <2>3 DEF FlushCheck
<1>4. ASSUME NEW c \in Compactors, CompactBegin(c) \/ CompactBuildFails(c) \/ CompactEnd(c)
      PROVE  DropInv'
  <2>1. /\ disk' = disk /\ existing' = existing /\ Names' = Names
        /\ written' = written /\ maxMin' = maxMin
    <3>1. up /\ up' = up /\ UNCHANGED <<lists, files, history>>
      BY <1>4 DEF CompactBegin, CompactBuildFails, CompactEnd
    <3> QED  BY <3>1 DEF lists, files, history, Names
  <2>2. \A d \in Compactors :
          \/ compaction'[d] = compaction[d]
          \/ compaction'[d].pc = "idle"
          \/ /\ compaction'[d].pc = "flagged" /\ compaction[d].pc = "spawned"
             /\ compaction'[d].min = compaction[d].min
    BY <1>4, Parts DEF CompactBegin, CompactBuildFails, CompactEnd, CompactReturns,
                       NoCompaction, CompactionRec
  <2>3. \A d \in Compactors : compaction'[d].pc # "idle" => compaction'[d].min <= maxMin'
    BY <2>1, <2>2 DEF DropInv, MinBelow
  <2> QED  BY <1>1, <1>2, <2>1, <2>2, <2>3, SameFilesDrop
<1>5. CASE UNCHANGED vars \/ NewSsTable
  <2>1. /\ disk' = disk /\ existing' = existing /\ Names' = Names
        /\ written' = written /\ maxMin' = maxMin /\ compaction' = compaction
    <3>1. CASE UNCHANGED vars
      BY <3>1 DEF vars, lists, files, manifestFile, history, Names
    <3>2. CASE NewSsTable
      BY <3>2, UpNames DEF NewSsTable, history
    <3> QED  BY <1>5, <3>1, <3>2
  <2> QED  BY <1>1, <1>2, <2>1, SameFilesDrop DEF DropInv, MinBelow
<1>6. CASE Crash \/ CrashInSave \/ \E c \in Compactors : CompactPanics(c)
  <2>1. /\ disk' = disk /\ existing' = existing /\ Names' = Names
        /\ written' = written /\ maxMin' = maxMin
        /\ \A d \in Compactors : compaction'[d].pc = "idle"
    <3>1. GoDown /\ Names' = Names
      BY <1>6, DownNames
    <3> QED  BY <3>1 DEF GoDown, files, history, NoCompaction
  <2> QED  BY <1>1, <1>2, <2>1, SameFilesDrop
<1>7. ASSUME NEW f \in Flushers, FlushOpenFails(f)
      PROVE  DropInv'
  <2>1. /\ disk' = disk /\ existing' = existing /\ Names' = Names
        /\ written' = written /\ maxMin' = maxMin /\ compaction' = compaction
    BY <1>7 DEF FlushOpenFails, lists, files, history, Names
  <2> QED  BY <1>1, <1>2, <2>1, SameFilesDrop DEF DropInv, MinBelow
<1>8. ASSUME NEW c \in Compactors, CompactCreateFails(c) \/ CompactBuildPart(c)
      PROVE  FALSE
  BY <1>1, <1>8 DEF CompactCreateFails, CompactBuildPart
<1>9. ASSUME NEW c \in Compactors,
             \/ CompactCopy(c) \/ CompactBuild(c) \/ CompactCreate(c)
             \/ CompactSwap(c) \/ CompactDelete(c)
      PROVE  DropInv'
  BY <1>1, <1>9, CopyDrop, BuildDrop, CreateDrop, SwapDrop, DeleteDrop
<1>10. ASSUME NEW f \in Flushers,
              \/ \E S \in SUBSET BoundedEntry :
                   NewVersions(S) /\ (FlushWrite(f, S) \/ FlushWriteFails(f, S))
              \/ FlushInstall(f)
       PROVE  DropInv'
  BY <1>1, <1>10, FlushWriteDrop, InstallDrop
<1> QED  BY <1>3, <1>4, <1>5, <1>6, <1>7, <1>8, <1>9, <1>10 DEF SafeStep, CompactStep

\* The steps of Next are such steps.
LEMMA NextIsSafe ==
  ASSUME TypeInv, [Next]_vars
  PROVE  [SafeStep]_vars
<1>1. ASSUME NEW f \in Flushers, NextTxn <= MaxFlushes, NEW S \in Memtables(NextTxn),
             FlushWrite(f, S) \/ FlushWriteFails(f, S)
      PROVE  SafeStep
  BY <1>1, MemtablesNew DEF SafeStep
<1> QED  BY <1>1 DEF Next, SafeStep

\* However many flushes and compactions overlap, and whatever fails or
\* crashes, a version leaves the files only when a newer one that every reader
\* may use is installed; in particular the newest version of every key stays
\* in a file that manifest.json names.  That holds while manifest.json is
\* saved, until a file id is used twice, a compaction goes on without its data
\* or a restart finds an older manifest.json.
THEOREM NothingNeededDropped == Spec => []OnlySupersededDropped
<1> DEFINE Sound == Intact => DropInv
<1>1. Init => Sound
  <2> SUFFICES ASSUME Init PROVE DropInv
    OBVIOUS
  <2>1. /\ written = {} /\ existing = {} /\ Names = <<>>
        /\ \A c \in Compactors : compaction[c].pc = "idle" /\ compaction[c].files = <<>>
    BY DEF Init, NoCompaction, Names
  <2> QED  BY <2>1, EmptyList DEF DropInv, NamedWritten, CopiedWritten, OneVersion,
                                  MinBelow, BuiltComplete, NoneLost
<1>2. TypeInv /\ ListsAgree /\ FileInv /\ Sound /\ [Next]_vars => Sound'
  <2> SUFFICES ASSUME TypeInv, ListsAgree, FileInv, Sound, [Next]_vars, Intact'
               PROVE  DropInv'
    OBVIOUS
  <2>1. [SafeStep]_vars
    BY NextIsSafe
  <2>2. DropInv
    BY <2>1, SafeIsAny, IntactStays
  <2> QED  BY <2>1, <2>2, DropStep
<1>3. ListsAgree /\ Sound => OnlySupersededDropped
  <2> SUFFICES ASSUME ListsAgree, DropInv, saved = "whole"
               PROVE  OnlySupersededDropped
    BY DEF OnlySupersededDropped, Intact
  <2>1. Names = diskManifest.fileNames
    BY DEF Names, ListsAgree
  <2> QED  BY <2>1 DEF DropInv, NoneLost, Superseded, OnlySupersededDropped
<1> QED  BY <1>1, <1>2, <1>3, FilesInvariant, PTL DEF Spec

-------------------------------------------------------------------------------
(***************************************************************************)
(* Where the entries come from                                             *)
(***************************************************************************)

\* All the entries that the files and the compactions hold are of V.
HeldIn(V) ==
  /\ written \subseteq V
  /\ \A i \in FileIds : disk[i] \subseteq V
  /\ \A c \in Compactors : compaction[c].entries \subseteq V

\* A step that flushes entries of V.
StepWithin(V) ==
  \/ \E f \in Flushers :
       \/ \E S \in SUBSET BoundedEntry : S \subseteq V /\ FlushWrite(f, S)
       \/ FlushOpenFails(f) \/ FlushInstall(f)
       \/ \E S \in SUBSET BoundedEntry : S \subseteq V /\ FlushWriteFails(f, S)
       \/ \E min \in MinActiveTxnIds : FlushCheck(f, min)
  \/ \E c \in Compactors : CompactStep(c)
  \/ Crash \/ CrashInSave \/ NewSsTable

\* No entry comes from elsewhere than from a flush.
LEMMA HeldStep ==
  ASSUME TypeInv, NEW V, HeldIn(V), [StepWithin(V)]_vars
  PROVE  /\ written' \subseteq V
         /\ \A i \in FileIds : disk'[i] \subseteq V
         /\ \A c \in Compactors : compaction'[c].entries \subseteq V
<1> DEFINE Goal == /\ written' \subseteq V
                   /\ \A i \in FileIds : disk'[i] \subseteq V
                   /\ \A c \in Compactors : compaction'[c].entries \subseteq V
<1> USE DEF HeldIn
<1>1. /\ disk \in [FileIds -> SUBSET Entry]
      /\ compaction \in [Compactors -> CompactionRec] /\ flush \in [Flushers -> FlushRec]
  BY Parts
<1>2. ASSUME NEW S, S \subseteq V, NEW whole, WriteNewFile(S, whole)
      PROVE  \A i \in FileIds : disk'[i] \subseteq V
  BY <1>1, <1>2 DEF WriteNewFile
<1>3. NoCompaction.entries = {}
  BY DEF NoCompaction
<1>4. ASSUME NEW f \in Flushers, NEW S, S \subseteq V, FlushWrite(f, S) PROVE Goal
  BY <1>2, <1>4 DEF FlushWrite, history
<1>5. ASSUME NEW f \in Flushers,
             \/ FlushOpenFails(f)
             \/ \E S \in SUBSET BoundedEntry : S \subseteq V /\ FlushWriteFails(f, S)
      PROVE  Goal
  BY <1>2, <1>5 DEF FlushWriteFails, FlushOpenFails, files, history
<1>6. ASSUME NEW f \in Flushers, FlushInstall(f) PROVE Goal
  <2>1. flush[f].file \in FileIds
    BY <1>1 DEF FlushRec
  <2> QED  BY <1>6, <2>1 DEF FlushInstall, files
<1>7. ASSUME NEW f \in Flushers, NEW min, FlushCheck(f, min) PROVE Goal
  <2> DEFINE r == [NoCompaction EXCEPT !.pc = "spawned", !.min = min]
  <2>1. r.entries = {}
    BY DEF NoCompaction
  <2>2. compaction' = compaction \/ \E c \in Compactors : compaction' = [compaction EXCEPT ![c] = r]
    BY <1>7 DEF FlushCheck
  <2>3. written' = written /\ disk' = disk
    BY <1>7 DEF FlushCheck, files
  <2> HIDE DEF r
  <2>4. \A c \in Compactors : compaction'[c] = compaction[c] \/ compaction'[c] = r
    BY <1>1, <2>2
  <2> QED  BY <2>1, <2>3, <2>4
<1>8. ASSUME NEW c \in Compactors,
             CompactBegin(c) \/ CompactCopy(c) \/ CompactBuildFails(c) \/ CompactSwap(c)
               \/ CompactEnd(c)
      PROVE  Goal
  <2>1. written' = written /\ disk' = disk
    BY <1>8 DEF CompactBegin, CompactCopy, CompactBuildFails, CompactSwap, CompactEnd,
                files, history
  <2>2. \A d \in Compactors : \/ compaction'[d].entries = compaction[d].entries
                              \/ compaction'[d].entries = {}
    BY <1>1, <1>3, <1>8 DEF CompactBegin, CompactCopy, CompactBuildFails, CompactSwap,
                            CompactEnd, CompactReturns, CompactionRec
  <2> QED  BY <2>1, <2>2
<1>9. ASSUME NEW c \in Compactors, CompactBuild(c) PROVE Goal
  <2> DEFINE fs == compaction[c].files
             new == buildCompactedEntries(fs, compaction[c].min)
  <2>1. fs \in Seq(FileIds)
    BY <1>1 DEF CompactionRec, FileLists
  <2>2. new \subseteq UNION { disk[fs[i]] : i \in DOMAIN fs }
    BY DEF buildCompactedEntries
  <2>3. \A i \in DOMAIN fs : disk[fs[i]] \subseteq V
    BY <2>1
  <2>4. new \subseteq V
    BY <2>2, <2>3
  <2>5. /\ written' = written /\ disk' = disk
        /\ compaction' = [compaction EXCEPT ![c].pc = "built", ![c].entries = new]
    BY <1>9 DEF CompactBuild, files, history
  <2> HIDE DEF new, fs
  <2>6. \A d \in Compactors : compaction'[d].entries \in {compaction[d].entries, new}
    BY <1>1, <2>5 DEF CompactionRec
  <2> QED  BY <2>4, <2>5, <2>6
<1>14. ASSUME NEW c \in Compactors, CompactBuildPart(c) PROVE Goal
  <2> DEFINE fs == compaction[c].files
  <2>1. PICK new \in SUBSET UNION { disk[i] : i \in Range(fs) } :
          compaction' = [compaction EXCEPT ![c].pc = "built", ![c].entries = new]
    BY <1>14 DEF CompactBuildPart
  <2>2. new \subseteq V
    BY ReferencedIds
  <2>3. written' = written /\ disk' = disk
    BY <1>14 DEF CompactBuildPart, history
  <2> HIDE DEF fs
  <2>4. \A d \in Compactors : compaction'[d].entries \in {compaction[d].entries, new}
    BY <1>1, <2>1 DEF CompactionRec
  <2> QED  BY <2>2, <2>3, <2>4
<1>10. ASSUME NEW c \in Compactors, CompactCreate(c) \/ CompactCreateFails(c) PROVE Goal
  <2>1. written' = written
    BY <1>10 DEF CompactCreate, CompactCreateFails, history
  <2>2. \A i \in FileIds : disk'[i] \subseteq V
    BY <1>2, <1>10 DEF CompactCreate, CompactCreateFails
  <2>3. \A d \in Compactors : compaction'[d].entries \in {compaction[d].entries, {}}
    <3>1. compaction' = [compaction EXCEPT ![c].pc = "created", ![c].entries = {},
                                           ![c].file = manifest.nextFileId]
      BY <1>10, Zenon DEF CompactCreate, CompactCreateFails
    <3> QED  BY <1>1, <3>1 DEF CompactionRec
  <2> QED  BY <2>1, <2>2, <2>3
<1>11. ASSUME NEW c \in Compactors, CompactDelete(c) PROVE Goal
  <2>1. /\ written' = written /\ disk' = [disk EXCEPT ![Head(compaction[c].files)] = {}]
        /\ compaction' = [compaction EXCEPT ![c].files = Tail(@)]
    BY <1>11 DEF CompactDelete, history
  <2>2. \A d \in Compactors : compaction'[d].entries = compaction[d].entries
    BY <1>1, <2>1 DEF CompactionRec
  <2>3. \A i \in FileIds : disk'[i] \subseteq V
    BY <1>1, <2>1
  <2> QED  BY <2>1, <2>2, <2>3
<1>12. CASE Crash \/ CrashInSave \/ \E c \in Compactors : CompactPanics(c)
  BY <1>3, <1>12 DEF Crash, CrashInSave, CompactPanics, GoDown, files, history
<1>13. CASE NewSsTable \/ UNCHANGED vars
  BY <1>13 DEF NewSsTable, vars, files, history
<1> QED  BY <1>4, <1>5, <1>6, <1>7, <1>8, <1>9, <1>10, <1>11, <1>12, <1>13, <1>14
         DEF StepWithin, CompactStep

\* Until it is installed, the file of a flush keeps its entries.
LEMMA PendingStays ==
  ASSUME TypeInv, FileInv, [AnyStep]_vars, NEW f \in Flushers, flush[f].pc = "written"
  PROVE  disk'[flush[f].file] = disk[flush[f].file]
<1> DEFINE id == flush[f].file
<1>1. Fresh(id)
  BY DEF FileInv, FlushedFresh
<1>2. ASSUME NEW S \in SUBSET BoundedEntry, NEW whole, WriteNewFile(S, whole)
      PROVE  disk'[id] = disk[id]
  BY <1>1, <1>2, NewFileDisk
<1> HIDE DEF id
<1>3. ASSUME NEW g \in Flushers, AnyFlush(g) PROVE disk'[id] = disk[id]
  <2>1. ASSUME NEW S \in SUBSET BoundedEntry, FlushWrite(g, S) PROVE disk'[id] = disk[id]
    BY <1>2, <2>1 DEF FlushWrite
  <2>2. ASSUME NEW S \in SUBSET BoundedEntry, FlushWriteFails(g, S)
        PROVE  disk'[id] = disk[id]
    BY <1>2, <2>2 DEF FlushWriteFails
  <2>3. CASE FlushOpenFails(g) \/ FlushInstall(g)
    BY <2>3 DEF FlushOpenFails, FlushInstall, files
  <2>4. ASSUME NEW min, FlushCheck(g, min) PROVE disk'[id] = disk[id]
    BY <2>4 DEF FlushCheck, files
  <2> QED  BY <1>3, <2>1, <2>2, <2>3, <2>4 DEF AnyFlush
<1>4. ASSUME NEW c \in Compactors, CompactStep(c) PROVE disk'[id] = disk[id]
  <2>1. CASE CompactCreate(c)
    <3>1. WriteNewFile(compaction[c].entries, TRUE)
          /\ compaction[c].entries \in SUBSET BoundedEntry
      BY <2>1, Parts DEF CompactCreate
    <3> QED  BY <1>2, <3>1
  <2>2. CASE CompactCreateFails(c)
    <3>1. WriteNewFile(compaction[c].entries, FALSE)
          /\ compaction[c].entries \in SUBSET BoundedEntry
      BY <2>2, Parts DEF CompactCreateFails
    <3> QED  BY <1>2, <3>1
  <2>3. CASE CompactDelete(c)
    <3> DEFINE gone == Head(compaction[c].files)
    <3>1. disk' = [disk EXCEPT ![gone] = {}] /\ compaction[c].files # <<>>
      BY <2>3 DEF CompactDelete
    <3>2. gone \in Range(compaction[c].files)
      BY <3>1, ReferencedIds, EmptyList DEF Range
    <3>3. gone # id
      BY <1>1, <3>2 DEF Fresh, Referenced
    <3> HIDE DEF gone
    <3>4. id \in FileIds /\ disk \in [FileIds -> SUBSET Entry]
      BY Parts, ReferencedIds DEF id
    <3> QED  BY <3>1, <3>3, <3>4
  <2>4. CASE \/ CompactBegin(c) \/ CompactCopy(c) \/ CompactBuild(c)
             \/ CompactBuildPart(c) \/ CompactBuildFails(c) \/ CompactPanics(c)
             \/ CompactSwap(c) \/ CompactEnd(c)
    BY <2>4 DEF CompactBegin, CompactCopy, CompactBuild, CompactBuildPart,
                CompactBuildFails, CompactPanics, CompactSwap, CompactEnd, GoDown, files
  <2> QED  BY <1>4, <2>1, <2>2, <2>3, <2>4 DEF CompactStep
<1>5. CASE Crash \/ CrashInSave \/ NewSsTable \/ UNCHANGED vars
  BY <1>5 DEF Crash, CrashInSave, NewSsTable, GoDown, vars, files
<1> QED  BY <1>3, <1>4, <1>5 DEF AnyStep, id

-------------------------------------------------------------------------------
(***************************************************************************)
(* Reading a file                                                          *)
(***************************************************************************)

\* A set of numbers has one that no other is below.
LEMMA NoneBelow ==
  ASSUME NEW S \in SUBSET Nat, S # {}
  PROVE  \E i \in S : \A j \in S : ~(j < i)
<1>1. PICK x \in S : \A y \in S : ~(<<y, x>> \in OpToRel(<, Nat))
  BY WFMin, NatLessThanWellFounded, Zenon
<1>2. \A y \in S : ~(y < x)
  BY <1>1, Zenon DEF OpToRel
<1> QED  BY <1>2

\* An entry opens the file: the one with the smallest key and, for it, the
\* smallest txnId.
LEMMA FirstEntry ==
  ASSUME NEW S \in SUBSET BoundedEntry, S # {}
  PROVE  \E b \in S : \A f \in S : ~Before(f, b)
<1>1. \A e \in S : e.key \in Nat /\ e.txnId \in Nat
  BY SsTableAssumption DEF BoundedEntry, Entry
<1>2. PICK k \in { e.key : e \in S } : \A j \in { e.key : e \in S } : ~(j < k)
  <2>1. { e.key : e \in S } \in SUBSET Nat /\ { e.key : e \in S } # {}
    BY <1>1
  <2> QED  BY <2>1, NoneBelow
<1> DEFINE T == { e.txnId : e \in { f \in S : f.key = k } }
<1>3. PICK n \in T : \A m \in T : ~(m < n)
  <2>1. T \in SUBSET Nat /\ T # {}
    BY <1>1, <1>2
  <2> HIDE DEF T
  <2> QED  BY <2>1, NoneBelow
<1>4. PICK b \in S : b.key = k /\ b.txnId = n
  BY <1>3
<1>5. ASSUME NEW f \in S, Before(f, b) PROVE FALSE
  <2>1. f.key \in { e.key : e \in S }
    OBVIOUS
  <2>2. ~(f.key < k)
    BY <1>2, <2>1
  <2>3. f.key = k /\ f.txnId < b.txnId
    BY <1>4, <1>5, <2>2 DEF Before
  <2>4. f.txnId \in T
    BY <2>3
  <2> HIDE DEF T
  <2>5. ~(f.txnId < n)
    BY <1>3, <2>4
  <2> QED  BY <1>4, <2>3, <2>5
<1> QED  BY <1>5

\* Of the entries that start a block at or before a key, one is the last.
LEMMA LastEntry ==
  ASSUME NEW T \in SUBSET BoundedEntry, T # {}, NEW k \in Nat,
         \A e \in T : e.key <= k
  PROVE  \E b \in T : \A f \in T : ~Before(b, f)
<1>1. /\ \A e \in T : e.key \in 0 .. k /\ e.txnId \in 0 .. MaxFlushes
      /\ MaxFlushes \in Nat
  <2>1. \A e \in T : e.key \in Nat /\ e.txnId \in 0 .. MaxFlushes
    BY SsTableAssumption DEF BoundedEntry, Entry
  <2>2. \A e \in T : e.key \in 0 .. k
    BY <2>1
  <2> QED  BY <2>1, <2>2, SsTableAssumption
<1>2. PICK m \in { e.key : e \in T } : \A j \in { e.key : e \in T } : m >= j
  <2>1. { e.key : e \in T } \in SUBSET (0 .. k) /\ { e.key : e \in T } # {}
    BY <1>1
  <2> QED  BY <2>1, LargestExists
<1> DEFINE U == { e.txnId : e \in { f \in T : f.key = m } }
<1>3. PICK n \in U : \A j \in U : n >= j
  <2>1. U \in SUBSET (0 .. MaxFlushes) /\ U # {}
    BY <1>1, <1>2
  <2> HIDE DEF U
  <2> QED  BY <1>1, <2>1, LargestExists
<1>4. PICK b \in T : b.key = m /\ b.txnId = n
  BY <1>3
<1>5. ASSUME NEW f \in T, Before(b, f) PROVE FALSE
  <2>1. f.key \in { e.key : e \in T }
    OBVIOUS
  <2>2. m >= f.key
    BY <1>2, <2>1
  <2>3. /\ f.key \in Nat /\ f.txnId \in Nat
        /\ b.key \in Nat /\ b.txnId \in Nat
    BY <1>1
  <2>4. f.key = m /\ b.txnId < f.txnId
    BY <1>4, <1>5, <2>2, <2>3 DEF Before
  <2>5. f.txnId \in U
    BY <2>4
  <2> HIDE DEF U
  <2>6. n >= f.txnId
    BY <1>3, <2>5
  <2> QED  BY <1>4, <2>3, <2>4, <2>6
<1> QED  BY <1>5

\* Some entries have a newest one.
LEMMA NewestExists ==
  ASSUME NEW K \in SUBSET BoundedEntry, K # {}
  PROVE  Newest(K) # {}
<1> DEFINE U == { f.txnId : f \in K }
<1>1. MaxFlushes \in Nat /\ \A f \in K : f.txnId \in 0 .. MaxFlushes
  BY SsTableAssumption DEF BoundedEntry
<1>2. PICK n \in U : \A j \in U : n >= j
  <2>1. U \in SUBSET (0 .. MaxFlushes) /\ U # {}
    BY <1>1
  <2> HIDE DEF U
  <2> QED  BY <1>1, <2>1, LargestExists
<1>3. PICK e \in K : e.txnId = n
  BY <1>2
<1>4. \A f \in K : f.txnId <= e.txnId
  <2> TAKE f \in K
  <2>1. n >= f.txnId
    BY <1>2
  <2> QED  BY <1>1, <1>3, <2>1
<1> QED  BY <1>3, <1>4 DEF Newest

\* A part of some entries that has the newest of them all has no other newest.
LEMMA NewestWithin ==
  ASSUME NEW B \in SUBSET BoundedEntry, NEW A \in SUBSET B, Newest(B) \subseteq A
  PROVE  Newest(A) = Newest(B)
<1>1. \A e \in B : e.txnId \in Nat
  BY DEF BoundedEntry, Entry
<1>2. ASSUME NEW e \in Newest(A) PROVE e \in Newest(B)
  <2>1. e \in A /\ \A f \in A : f.txnId <= e.txnId
    BY <1>2 DEF Newest
  <2>2. PICK m \in Newest(B) : TRUE
    BY <2>1, NewestExists
  <2>3. m \in A /\ \A f \in B : f.txnId <= m.txnId
    BY <2>2 DEF Newest
  <2>4. \A f \in B : f.txnId <= e.txnId
    <3> TAKE f \in B
    <3>1. f.txnId <= m.txnId /\ m.txnId <= e.txnId
      BY <2>1, <2>3
    <3> QED  BY <1>1, <2>1, <2>3, <3>1
  <2> QED  BY <2>1, <2>4 DEF Newest
<1>3. Newest(B) \subseteq Newest(A)
  BY DEF Newest
<1> QED  BY <1>2, <1>3

\* A reader that can see every version of a key in a file gets the newest one,
\* whatever fits into a block: getLowerBound may start behind older versions
\* of the key, never behind the newest.  (A reader that cannot see the newest
\* ones may miss the older one it needs: module DB.)
LEMMA FileGetNewest ==
  ASSUME NEW S \in SUBSET BoundedEntry, NEW k \in Keys, NEW t, NEW A,
         \A e \in S : e.key = k => CanSee(e.txnId, t, A)
  PROVE  FileGet(S, k, t, A) = Newest({ e \in S : e.key = k })
<1> DEFINE K == { e \in S : e.key = k }
           below == { e \in BlockStarts(S) : e.key <= k }
           scanned == { e \in S : \E b \in LowerBound(S, k) : ~Before(e, b) }
           K2 == { e \in scanned : e.key = k }
<1>1. /\ k \in Nat /\ MaxFlushes \in Nat
      /\ \A e \in S : e.key \in Nat /\ e.txnId \in 0 .. MaxFlushes
  BY SsTableAssumption DEF BoundedEntry, Entry
<1>2. FileGet(S, k, t, A) = Newest(K2)
  <2>1. VisibleEntries(scanned, k, t, A) = K2
    BY DEF VisibleEntries
  <2> QED  BY <2>1 DEF FileGet
<1>3. ASSUME K # {} PROVE \E b \in LowerBound(S, k) : b \in S /\ b.key <= k
  <2>1. PICK e \in S : e.key = k
    BY <1>3
  <2>2. PICK b \in S : \A f \in S : ~Before(f, b)
    BY <2>1, FirstEntry
  <2>3. b \in BlockStarts(S)
    <3>1. { f \in S : Before(f, b) } = {}
      BY <2>2
    <3>2. Rank(b, S) = 0
      BY <3>1, FS_EmptySet DEF Rank
    <3>3. 0 % EntriesPerBlock = 0
      BY SsTableAssumption
    <3> QED  BY <3>2, <3>3 DEF BlockStarts
  <2>4. b.key <= k
    <3>1. ~(e.key < b.key)
      BY <2>1, <2>2 DEF Before
    <3> QED  BY <1>1, <2>1, <3>1
  <2>5. below \in SUBSET BoundedEntry /\ below # {} /\ \A x \in below : x.key <= k
    BY <2>3, <2>4 DEF BlockStarts
  <2>6. PICK c \in below : \A f \in below : ~Before(c, f)
    <3> HIDE DEF below
    <3> QED  BY <1>1, <2>5, LastEntry
  <2>7. c \in LowerBound(S, k)
    BY <2>6 DEF LowerBound
  <2> QED  BY <2>6, <2>7 DEF BlockStarts
<1>4. ASSUME NEW e \in Newest(K) PROVE e \in K2
  <2>1. e \in K /\ \A f \in K : f.txnId <= e.txnId
    BY DEF Newest
  <2>2. PICK b \in LowerBound(S, k) : b \in S /\ b.key <= k
    BY <1>3, <2>1
  <2>3. ~Before(e, b)
    <3>1. b.key = k => b.txnId <= e.txnId
      BY <2>1, <2>2
    <3> QED  BY <1>1, <2>1, <2>2, <3>1 DEF Before
  <2> QED  BY <2>1, <2>2, <2>3
<1>5. Newest(K2) = Newest(K)
  <2>1. K \in SUBSET BoundedEntry /\ K2 \in SUBSET K /\ Newest(K) \subseteq K2
    BY <1>4
  <2> HIDE DEF K, K2
  <2> QED  BY <2>1, NewestWithin
<1> QED  BY <1>2, <1>5

\* What the files of the list hold.
Listed == UNION { disk[i] : i \in Range(firstLevelFiles) }

\* With the files in order, SsTable.Get returns the newest version of the key
\* that any of them has to a reader that can see them all.
LEMMA FilesGetNewest ==
  ASSUME TypeInv, NEW k \in Keys, NEW t, NEW A, EmptyValue \notin Values,
         \A i, j \in DOMAIN firstLevelFiles :
           i < j => NotYounger(disk[firstLevelFiles[i]], disk[firstLevelFiles[j]]),
         \A e \in Listed : e.key = k => CanSee(e.txnId, t, A),
         \A e, f \in Listed : e.key = f.key /\ e.txnId = f.txnId => e = f
  PROVE  SsTableGet(k, t, A) = Newest({ e \in Listed : e.key = k })
<1> DEFINE D == DOMAIN firstLevelFiles
           file(i) == disk[firstLevelFiles[i]]
           K(i) == { e \in file(i) : e.key = k }
           hit(i) == { e \in FileGet(file(i), k, t, A) : e.value # EmptyValue }
           hits == { i \in D : hit(i) # {} }
           HK == { e \in Listed : e.key = k }
<1>1. /\ firstLevelFiles \in Seq(FileIds)
      /\ \A i \in D : i \in Nat /\ i \in 0 .. Len(firstLevelFiles)
                      /\ file(i) \in SUBSET BoundedEntry
      /\ Len(firstLevelFiles) \in Nat
  <2>1. firstLevelFiles \in Seq(FileIds)
    BY ReferencedIds
  <2>2. \A i \in D : firstLevelFiles[i] \in FileIds /\ i \in 0 .. Len(firstLevelFiles)
    BY <2>1
  <2> QED  BY <2>1, <2>2, Parts
<1>2. /\ \A i \in D : file(i) \subseteq Listed
      /\ \A e \in Listed : \E i \in D : e \in file(i)
  BY DEF Listed, Range
<1>3. \A e \in HK : e.value # EmptyValue /\ e.txnId \in Nat
  BY <1>1, <1>2 DEF BoundedEntry, Entry
<1>4. \A i \in D : hit(i) = Newest(K(i))
  <2> TAKE i \in D
  <2>1. FileGet(file(i), k, t, A) = Newest(K(i))
    BY <1>1, <1>2, FileGetNewest
  <2>2. K(i) \subseteq HK
    BY <1>2
  <2> QED  BY <1>3, <2>1, <2>2 DEF Newest
<1>5. \A i \in D : K(i) # {} => i \in hits
  BY <1>1, <1>4, NewestExists
<1>6. SsTableGet(k, t, A) = IF hits = {} THEN {} ELSE hit(Max(hits))
  BY DEF SsTableGet
<1>7. CASE hits = {}
  <2>1. HK = {}
    BY <1>2, <1>5, <1>7
  <2>2. SsTableGet(k, t, A) = {}
    BY <1>6, <1>7
  <2> QED  BY <2>1, <2>2 DEF Newest
<1>8. CASE hits # {}
  <2> DEFINE m == Max(hits)
  <2>1. m \in hits /\ \A i \in hits : m >= i
    <3>1. hits \in SUBSET (0 .. Len(firstLevelFiles))
      BY <1>1
    <3> HIDE DEF hits
    <3>2. PICK i \in hits : \A j \in hits : i >= j
      BY <1>1, <1>8, <3>1, LargestExists
    <3> QED  BY <3>2 DEF Max
  <2> HIDE DEF m
  <2>2. m \in D /\ hit(m) = Newest(K(m)) /\ hit(m) # {}
    BY <1>4, <2>1
  <2>3. ASSUME NEW e \in hit(m), NEW f \in HK PROVE f.txnId <= e.txnId
    <3>1. e \in K(m) /\ \A g \in K(m) : g.txnId <= e.txnId
      BY <2>2 DEF Newest
    <3>2. PICK i \in D : f \in file(i)
      BY <1>2
    <3>3. i \in hits
      BY <1>5, <3>2
    <3>4. i = m \/ i < m
      BY <1>1, <2>1, <2>2, <3>3
    <3>5. CASE i = m
      BY <3>1, <3>2, <3>5
    <3>6. CASE i < m
      BY <2>2, <3>1, <3>2, <3>6 DEF NotYounger
    <3> QED  BY <3>4, <3>5, <3>6
  <2>4. hit(m) \subseteq HK
    BY <1>2, <2>2 DEF Newest
  <2>5. ASSUME NEW x \in Newest(HK) PROVE x \in hit(m)
    <3>1. x \in HK /\ \A f \in HK : f.txnId <= x.txnId
      BY <2>4 DEF Newest
    <3>2. PICK e \in hit(m) : TRUE
      BY <2>2
    <3>3. e \in HK /\ e.txnId <= x.txnId /\ x.txnId <= e.txnId
      BY <2>3, <2>4, <3>1
    <3>4. e.txnId = x.txnId
      <4>1. e.txnId \in Nat /\ x.txnId \in Nat
        BY <1>3, <3>1, <3>3
      <4> HIDE DEF hit, HK, m
      <4> QED  BY <3>3, <4>1
    <3>5. e = x
      BY <3>1, <3>3, <3>4
    <3> QED  BY <3>5
  <2>6. hit(m) = Newest(HK)
    <3>1. hit(m) \subseteq Newest(HK)
      <4> HIDE DEF hit, HK
      <4> QED  BY <2>3, <2>4 DEF Newest
    <3> QED  BY <2>5, <3>1
  <2>7. SsTableGet(k, t, A) = hit(m)
    BY <1>6, <1>8 DEF m
  <2> QED  BY <2>6, <2>7
<1> QED  BY <1>7, <1>8

\* With one compaction no file is removed between the copy of the list and the
\* swap: what was copied stays the beginning of the list.
LEMMA CopiedStep ==
  ASSUME OneCompaction, TypeInv, FileInv, CopiedPrefix, [AnyStep]_vars
  PROVE  CopiedPrefix'
<1> DEFINE Quiet == /\ firstLevelFiles' = firstLevelFiles
                    /\ \A c \in Compactors :
                         compaction'[c].pc \in {"copied", "built", "created"} =>
                           /\ compaction[c].pc \in {"copied", "built", "created"}
                           /\ compaction'[c].files = compaction[c].files
<1>1. ASSUME Quiet PROVE CopiedPrefix'
  BY <1>1 DEF CopiedPrefix
<1>2. \A d, c \in Compactors : d = c
  BY DEF OneCompaction
<1>3. /\ compaction \in [Compactors -> CompactionRec]
      /\ firstLevelFiles \in Seq(FileIds)
  BY Parts, ReferencedIds
<1>4. ASSUME NEW f \in Flushers, FlushInstall(f) PROVE CopiedPrefix'
  <2> DEFINE t == Append(firstLevelFiles, flush[f].file)
  <2>1. firstLevelFiles' = t /\ compaction' = compaction
    BY <1>4 DEF FlushInstall
  <2>2. \A i \in DOMAIN firstLevelFiles : i \in DOMAIN t /\ t[i] = firstLevelFiles[i]
    BY <1>3
  <2> HIDE DEF t
  <2> QED  BY <2>1, <2>2 DEF CopiedPrefix
<1>5. ASSUME NEW f \in Flushers, NEW min, FlushCheck(f, min) PROVE Quiet
  <2> DEFINE r == [NoCompaction EXCEPT !.pc = "spawned", !.min = min]
  <2>1. r.pc = "spawned"
    BY DEF NoCompaction
  <2>2. compaction' = compaction \/ \E c \in Compactors : compaction' = [compaction EXCEPT ![c] = r]
    BY <1>5 DEF FlushCheck
  <2>3. firstLevelFiles' = firstLevelFiles
    BY <1>5 DEF FlushCheck, lists
  <2> HIDE DEF r
  <2>4. \A c \in Compactors : compaction'[c] = compaction[c] \/ compaction'[c] = r
    BY <1>3, <2>2
  <2> QED  BY <2>1, <2>3, <2>4
<1>6. ASSUME NEW f \in Flushers, AnyFlush(f), ~FlushInstall(f) PROVE CopiedPrefix'
  <2>1. CASE firstLevelFiles' = firstLevelFiles /\ compaction' = compaction
    BY <1>1, <2>1
  <2> QED  BY <1>1, <1>5, <1>6, <2>1
           DEF AnyFlush, FlushWrite, FlushOpenFails, FlushWriteFails, lists
<1>7. ASSUME NEW c \in Compactors, CompactCopy(c) PROVE CopiedPrefix'
  <2>1. /\ firstLevelFiles' = firstLevelFiles
        /\ compaction'[c].files = firstLevelFiles
    BY <1>3, <1>7 DEF CompactCopy, lists, CompactionRec
  <2> QED  BY <1>2, <2>1 DEF CopiedPrefix
<1>8. ASSUME NEW c \in Compactors, CompactSwap(c) PROVE CopiedPrefix'
  <2>1. compaction'[c].pc = "swapped"
    BY <1>3, <1>8 DEF CompactSwap, CompactionRec
  <2> QED  BY <1>2, <2>1 DEF CopiedPrefix
<1>9. ASSUME NEW c \in Compactors,
             \/ CompactBegin(c) \/ CompactBuildFails(c) \/ CompactDelete(c) \/ CompactEnd(c)
      PROVE  CopiedPrefix'
  <2>1. compaction'[c].pc \in {"flagged", "idle", "swapped"}
    BY <1>3, <1>9 DEF CompactBegin, CompactBuildFails, CompactDelete, CompactEnd,
                      CompactReturns, NoCompaction, CompactionRec
  <2> QED  BY <1>2, <2>1 DEF CopiedPrefix
<1>10. ASSUME NEW c \in Compactors, CompactBuild(c) \/ CompactBuildPart(c)
       PROVE  CopiedPrefix'
  <2>1. PICK new : compaction' = [compaction EXCEPT ![c].pc = "built", ![c].entries = new]
    BY <1>10, Zenon DEF CompactBuild, CompactBuildPart
  <2>3. compaction[c].pc = "copied" /\ firstLevelFiles' = firstLevelFiles
    BY <1>10 DEF CompactBuild, CompactBuildPart, lists
  <2>2. compaction'[c].files = compaction[c].files
    BY <1>3, <2>1 DEF CompactionRec
  <2> QED  BY <1>1, <1>2, <2>2, <2>3
<1>11. ASSUME NEW c \in Compactors, CompactCreate(c) \/ CompactCreateFails(c)
       PROVE  CopiedPrefix'
  <2>1. /\ compaction' = [compaction EXCEPT ![c].pc = "created", ![c].entries = {},
                                            ![c].file = manifest.nextFileId]
        /\ compaction[c].pc = "built" /\ UNCHANGED lists
    BY <1>11, Zenon DEF CompactCreate, CompactCreateFails
  <2>2. compaction'[c].files = compaction[c].files
    BY <1>3, <2>1 DEF CompactionRec
  <2> QED  BY <1>1, <1>2, <2>1, <2>2 DEF lists
<1>12. CASE Crash \/ CrashInSave \/ \E c \in Compactors : CompactPanics(c)
  <2>1. \A c \in Compactors : compaction'[c].pc = "idle"
    BY <1>12 DEF Crash, CrashInSave, CompactPanics, GoDown, NoCompaction
  <2> QED  BY <2>1 DEF CopiedPrefix
<1>13. CASE NewSsTable
  <2>1. \A c \in Compactors : compaction'[c].pc = "idle"
    BY <1>13 DEF NewSsTable, FileInv, DownIdle, NoCompaction
  <2> QED  BY <2>1 DEF CopiedPrefix
<1>14. CASE UNCHANGED vars
  BY <1>1, <1>14 DEF vars, lists
<1> QED  BY <1>4, <1>6, <1>7, <1>8, <1>9, <1>10, <1>11, <1>12, <1>13, <1>14
         DEF AnyStep, CompactStep

\* So a compaction never meets a file of its copy that is gone.
LEMMA NoPanic ==
  ASSUME ~IOFaults, FileInv, CopiedPrefix, NEW c \in Compactors
  PROVE  ~CompactPanics(c)
<1>1. SUFFICES ASSUME compaction[c].pc = "copied", NEW i \in Range(compaction[c].files)
               PROVE  i \in existing
  BY DEF CompactPanics
<1>2. PICK j \in DOMAIN compaction[c].files : compaction[c].files[j] = i
  BY <1>1 DEF Range
<1>3. i \in Range(firstLevelFiles)
  BY <1>1, <1>2 DEF CopiedPrefix, Range
<1> QED  BY <1>3 DEF FileInv, ListedExist

-------------------------------------------------------------------------------
(***************************************************************************)
(* What the list shows of a version, whatever the ids are: after a restart *)
(* they need not follow the order of the flushes.                          *)
(***************************************************************************)
HasKey(S, e) == \E x \in S : x.key = e.key
HasNewer(S, e) == \E x \in S : x.key = e.key /\ e.txnId < x.txnId

\* The last file of fs that has the key of e has e; and some file has a newer
\* version.  The files lie in d.
LastIn(d, fs, e) ==
  \E i \in DOMAIN fs : /\ e \in d[fs[i]]
                       /\ \A j \in DOMAIN fs : i < j => ~HasKey(d[fs[j]], e)
NewerIn(d, fs, e) == \E i \in DOMAIN fs : HasNewer(d[fs[i]], e)
Shows(d, fs, e) == LastIn(d, fs, e) \/ NewerIn(d, fs, e)

\* S may stand for the files of fs.
StandsFor(d, fs, S) ==
  \A e \in BoundedEntry :
    /\ NewerIn(d, fs, e) => HasNewer(S, e)
    /\ LastIn(d, fs, e) => e \in S \/ HasNewer(S, e)

\* What a compaction has built may stand for the files it copied.
BuiltStandsFor ==
  \A c \in Compactors :
    /\ compaction[c].pc = "built" =>
         StandsFor(disk, compaction[c].files, compaction[c].entries)
    /\ compaction[c].pc = "created" =>
         StandsFor(disk, compaction[c].files, disk[compaction[c].file])

\* No file is in the list twice.
NamesDistinct ==
  \A i, j \in DOMAIN Names :
    Names[i] = Names[j] => i = j

ShowInv == NamesDistinct /\ CopiedPrefix /\ BuiltStandsFor

\* All of this looks only at the files of the list.
LEMMA SameShows ==
  ASSUME NEW d, NEW dd, NEW fs, \A i \in DOMAIN fs : dd[fs[i]] = d[fs[i]], NEW e
  PROVE  /\ LastIn(dd, fs, e) <=> LastIn(d, fs, e)
         /\ NewerIn(dd, fs, e) <=> NewerIn(d, fs, e)
         /\ Shows(dd, fs, e) <=> Shows(d, fs, e)
<1>1. LastIn(dd, fs, e) <=> LastIn(d, fs, e)
  BY DEF LastIn
<1>2. NewerIn(dd, fs, e) <=> NewerIn(d, fs, e)
  BY DEF NewerIn
<1> QED  BY <1>1, <1>2 DEF Shows

\* The same of what stands for them.
LEMMA SameStandsFor ==
  ASSUME NEW d, NEW dd, NEW fs, \A i \in DOMAIN fs : dd[fs[i]] = d[fs[i]], NEW S
  PROVE  StandsFor(d, fs, S) => StandsFor(dd, fs, S)
BY SameShows DEF StandsFor

\* What buildCompactedEntries returns stands for the files: of a key it has all
\* versions above min, and the newest one of the others.
LEMMA BuildStandsFor ==
  ASSUME TypeInv, NEW fs \in Seq(FileIds), NEW min \in Nat
  PROVE  StandsFor(disk, fs, buildCompactedEntries(fs, min))
<1> DEFINE S == buildCompactedEntries(fs, min)
           in(i) == disk[fs[i]]
           beats(f, j, e, i) == /\ f.key = e.key /\ f.txnId <= min
                                /\ \/ e.txnId < f.txnId
                                   \/ e.txnId = f.txnId /\ i < j
<1>1. \A i \in DOMAIN fs : \A e \in in(i) :
        e \in S \/ (e.txnId <= min /\ \E j \in DOMAIN fs : \E f \in in(j) : beats(f, j, e, i))
  <2> TAKE i \in DOMAIN fs
  <2> TAKE e \in in(i)
  <2>1. e.txnId \in Nat
    BY Parts DEF BoundedEntry, Entry
  <2>2. e.txnId > min \/ e.txnId <= min
    BY <2>1
  <2> QED  BY <2>2 DEF buildCompactedEntries
<1>2. /\ MaxFlushes \in Nat /\ Len(fs) \in Nat /\ DOMAIN fs = 1 .. Len(fs)
      /\ \A i \in DOMAIN fs : in(i) \subseteq BoundedEntry
  <2>1. \A i \in DOMAIN fs : fs[i] \in FileIds
    OBVIOUS
  <2> QED  BY <2>1, Parts, SsTableAssumption
<1>3. ASSUME NEW i \in DOMAIN fs, NEW x \in in(i)
      PROVE  \E y \in S : y.key = x.key /\ x.txnId <= y.txnId
  <2> DEFINE Ids == { n \in 0 .. MaxFlushes :
                        n <= min /\ x.txnId <= n /\
                        \E j \in DOMAIN fs : \E f \in in(j) : f.key = x.key /\ f.txnId = n }
  <2>1. x.txnId \in 0 .. MaxFlushes /\ x.txnId \in Nat
    BY <1>2, SsTableAssumption DEF BoundedEntry
  <2>2. CASE x.txnId > min
    <3>1. x \in S
      BY <2>2 DEF buildCompactedEntries
    <3> QED  BY <2>1, <3>1
  <2>3. CASE x.txnId <= min
    <3>1. x.txnId \in Ids
      BY <2>1, <2>3
    <3>2. PICK n \in Ids : \A m \in Ids : n >= m
      <4> HIDE DEF in
      <4>1. Ids \in SUBSET (0 .. MaxFlushes) /\ Ids # {}
        BY <3>1
      <4> HIDE DEF Ids
      <4> QED  BY <1>2, <4>1, LargestExists
    <3> DEFINE At == { j \in DOMAIN fs : \E f \in in(j) : f.key = x.key /\ f.txnId = n }
    <3>3. PICK j \in At : \A k \in At : j >= k
      <4>1. At \in SUBSET (0 .. Len(fs)) /\ At # {}
        BY <1>2, <3>2
      <4> HIDE DEF At
      <4> QED  BY <1>2, <4>1, LargestExists
    <3>4. PICK y \in in(j) : y.key = x.key /\ y.txnId = n
      BY <3>3
    <3>5. n \in Nat /\ n <= min /\ x.txnId <= n /\ n \in 0 .. MaxFlushes
      BY <3>2
    <3>6. ASSUME NEW k \in DOMAIN fs, NEW f \in in(k), beats(f, k, y, j)
          PROVE  FALSE
      <4>1. f.key = x.key /\ f.txnId <= min /\ f.txnId \in 0 .. MaxFlushes
        BY <1>2, <3>4, <3>6 DEF BoundedEntry
      <4>2. n < f.txnId \/ (n = f.txnId /\ j < k)
        BY <3>4, <3>6
      <4>3. f.txnId \in Ids
        <5>1. x.txnId <= f.txnId
          BY <2>1, <3>5, <4>1, <4>2
        <5> QED  BY <4>1, <5>1
      <4>4. f.txnId = n /\ j < k
        <5>1. n >= f.txnId
          BY <3>2, <4>3
        <5> QED  BY <3>5, <4>1, <4>2, <5>1
      <4>5. k \in At
        BY <4>1, <4>4
      <4>6. j >= k
        BY <3>3, <4>5
      <4> QED  BY <1>2, <3>3, <4>4, <4>6
    <3>7. y \in S
      BY <1>1, <3>3, <3>4, <3>6
    <3> QED  BY <3>4, <3>5, <3>7
  <2> QED  BY <2>1, <2>2, <2>3
<1> HIDE DEF S
<1>4. ASSUME NEW e \in BoundedEntry, NewerIn(disk, fs, e)
      PROVE  HasNewer(S, e)
  <2>1. PICK i \in DOMAIN fs : \E x \in in(i) : x.key = e.key /\ e.txnId < x.txnId
    BY <1>4 DEF NewerIn, HasNewer
  <2>2. PICK x \in in(i) : x.key = e.key /\ e.txnId < x.txnId
    BY <2>1
  <2>3. PICK y \in S : y.key = x.key /\ x.txnId <= y.txnId
    BY <1>3
  <2>4. e.txnId \in Nat /\ x.txnId \in Nat
    BY <1>2 DEF BoundedEntry, Entry
  <2>5. y.txnId \in Nat
    BY <1>2 DEF S, buildCompactedEntries, BoundedEntry, Entry
  <2>6. e.txnId < y.txnId
    BY <2>2, <2>3, <2>4, <2>5
  <2> QED  BY <2>2, <2>3, <2>6 DEF HasNewer
<1>5. ASSUME NEW e \in BoundedEntry, LastIn(disk, fs, e), e \notin S
      PROVE  HasNewer(S, e)
  <2>1. PICK i \in DOMAIN fs : /\ e \in in(i)
                               /\ \A j \in DOMAIN fs : i < j => ~HasKey(in(j), e)
    BY <1>5 DEF LastIn
  <2>2. PICK j \in DOMAIN fs : \E f \in in(j) : beats(f, j, e, i)
    BY <1>1, <1>5, <2>1
  <2>3. PICK f \in in(j) : beats(f, j, e, i)
    BY <2>2
  <2>4. e.txnId < f.txnId
    BY <2>1, <2>3 DEF HasKey
  <2> QED  BY <1>4, <2>3, <2>4 DEF NewerIn, HasNewer
<1> QED  BY <1>4, <1>5 DEF StandsFor, S

\* Steps that leave the list alone show the same, if they keep its files.
LEMMA SameListShows ==
  ASSUME TypeInv, Names' = Names,
         \A i \in Range(Names) : disk'[i] = disk[i], NEW e
  PROVE  Shows(disk, Names, e) => Shows(disk', Names', e)
<1>1. \A i \in DOMAIN Names :
        disk'[Names[i]] = disk[Names[i]]
  BY DEF Range
<1> QED  BY <1>1, SameShows

\* Write puts a file behind the list: that shows what the file has, and else
\* what was shown, if the file has nothing of the key.
LEMMA InstallShows ==
  ASSUME TypeInv, NEW f \in Flushers, FlushInstall(f), NEW e
  PROVE  /\ e \in disk[flush[f].file] => Shows(disk', Names', e)
         /\ Shows(disk, Names, e) /\ ~HasKey(disk[flush[f].file], e)
              => Shows(disk', Names', e)
<1> DEFINE s == Names
           id == flush[f].file
           t == Append(s, id)
<1>1. /\ up /\ up' /\ disk' = disk /\ firstLevelFiles' = Append(firstLevelFiles, id)
  BY DEF FlushInstall, files
<1>2. Names' = t
  BY <1>1 DEF Names
<1>3. s \in Seq(FileIds)
  BY ReferencedIds DEF Names
<1>4. /\ DOMAIN t = 1 .. Len(s) + 1 /\ t[Len(s) + 1] = id /\ Len(s) \in Nat
      /\ DOMAIN s = 1 .. Len(s)
      /\ \A i \in DOMAIN s : i \in DOMAIN t /\ t[i] = s[i]
      /\ \A i \in DOMAIN t : i \in DOMAIN s \/ i = Len(s) + 1
  BY <1>3
<1>5. Len(s) + 1 \in DOMAIN t /\ \A j \in DOMAIN t : ~(Len(s) + 1 < j)
  BY <1>4
<1> HIDE DEF t, s, id
<1>6. ASSUME e \in disk[id] PROVE LastIn(disk, t, e)
  BY <1>4, <1>5, <1>6 DEF LastIn
<1>7. ASSUME NewerIn(disk, s, e) PROVE NewerIn(disk, t, e)
  BY <1>4, <1>7 DEF NewerIn
<1>8. ASSUME LastIn(disk, s, e), ~HasKey(disk[id], e) PROVE LastIn(disk, t, e)
  BY <1>4, <1>8 DEF LastIn
<1> QED  BY <1>1, <1>2, <1>6, <1>7, <1>8 DEF Shows, s, id

\* atomicSwap shows what was shown: the files that the compacted one stands for
\* were the first of the list, as it is now.
LEMMA SwapShows ==
  ASSUME TypeInv, ShowInv, NEW c \in Compactors, CompactSwap(c), NEW e \in BoundedEntry
  PROVE  Shows(disk, Names, e) => Shows(disk', Names', e)
<1> DEFINE id == compaction[c].file
           fs == compaction[c].files
           s == firstLevelFiles
           kept == Kept(firstLevelFiles, Range(fs))
           t == <<id>> \o kept
<1>1. /\ up /\ up' /\ compaction[c].pc = "created" /\ disk' = disk
      /\ firstLevelFiles' = t
  BY DEF CompactSwap, files
<1>2. Names' = t /\ Names = s
  BY <1>1 DEF Names
<1>3. /\ s \in Seq(FileIds) /\ id \in FileIds /\ fs \in Seq(FileIds)
      /\ kept \in Seq(FileIds)
  BY ReferencedIds, KeptMembers
<1>4. PICK at :
        /\ \A j \in DOMAIN kept : /\ j \in Nat /\ at[j] \in DOMAIN s
                                  /\ kept[j] = s[at[j]] /\ kept[j] \notin Range(fs)
        /\ \A i, j \in DOMAIN kept : i < j => at[i] < at[j]
        /\ Range(kept) = Range(s) \ Range(fs)
  <2>1. ASSUME NEW k, k = kept, NEW old, old = Range(fs)
        PROVE  k = Kept(firstLevelFiles, old) /\ firstLevelFiles \in Seq(FileIds)
    BY <1>3, <2>1
  <2> HIDE DEF kept, fs
  <2> QED  BY <2>1, KeptPositions
<1>5. StandsFor(disk, fs, disk[id])
  BY <1>1 DEF ShowInv, BuiltStandsFor
<1>6. \A k \in DOMAIN fs : k \in DOMAIN s /\ fs[k] = s[k] /\ fs[k] \in Range(fs)
  BY <1>1 DEF ShowInv, CopiedPrefix, Range
<1>7. \A i, j \in DOMAIN s : s[i] = s[j] => i = j
  BY <1>2 DEF ShowInv, NamesDistinct
<1> HIDE DEF id, kept
<1>8. /\ DOMAIN t = 1 .. Len(kept) + 1 /\ t[1] = id /\ 1 \in DOMAIN t /\ Len(kept) \in Nat
      /\ DOMAIN kept = 1 .. Len(kept)
      /\ \A q \in DOMAIN kept : q + 1 \in DOMAIN t /\ t[q + 1] = kept[q]
      /\ \A i \in DOMAIN t : i # 1 => i - 1 \in DOMAIN kept /\ t[i] = kept[i - 1]
  BY <1>3
<1> HIDE DEF t
<1>9. \A k \in DOMAIN fs : \A q \in DOMAIN kept : k < at[q]
  <2> TAKE k \in DOMAIN fs
  <2> TAKE q \in DOMAIN kept
  <2>1. s[at[q]] \notin Range(fs) /\ at[q] \in DOMAIN s
    BY <1>4
  <2>2. at[q] \notin DOMAIN fs
    BY <1>6, <2>1
  <2>3. DOMAIN fs = 1 .. Len(fs) /\ Len(fs) \in Nat /\ at[q] \in 1 .. Len(s)
        /\ Len(s) \in Nat
    BY <1>3, <2>1
  <2> QED  BY <2>2, <2>3
<1>10. \A i \in DOMAIN s : \/ i \in DOMAIN fs
                           \/ \E q \in DOMAIN kept : at[q] = i
  <2> TAKE i \in DOMAIN s
  <2>1. CASE s[i] \in Range(fs)
    <3>1. PICK k \in DOMAIN fs : fs[k] = s[i]
      BY <2>1 DEF Range
    <3> QED  BY <1>6, <1>7, <3>1
  <2>2. CASE s[i] \notin Range(fs)
    <3>1. s[i] \in Range(kept)
      BY <1>4, <2>2 DEF Range
    <3>2. PICK q \in DOMAIN kept : kept[q] = s[i]
      BY <3>1 DEF Range
    <3> QED  BY <1>4, <1>7, <3>2
  <2> QED  BY <2>1, <2>2
<1>11. HasNewer(disk[id], e) => NewerIn(disk, t, e)
  BY <1>8 DEF NewerIn
<1>12. ASSUME NewerIn(disk, s, e) PROVE NewerIn(disk, t, e)
  <2>1. PICK i \in DOMAIN s : HasNewer(disk[s[i]], e)
    BY <1>12 DEF NewerIn
  <2>2. CASE i \in DOMAIN fs
    <3>1. NewerIn(disk, fs, e)
      BY <1>6, <2>1, <2>2 DEF NewerIn
    <3> QED  BY <1>5, <1>11, <3>1 DEF StandsFor
  <2>3. ASSUME NEW q \in DOMAIN kept, at[q] = i PROVE NewerIn(disk, t, e)
    BY <1>4, <1>8, <2>1, <2>3 DEF NewerIn
  <2> QED  BY <1>10, <2>2, <2>3
<1>13. ASSUME LastIn(disk, s, e) PROVE Shows(disk, t, e)
  <2>1. PICK i \in DOMAIN s : /\ e \in disk[s[i]]
                              /\ \A j \in DOMAIN s : i < j => ~HasKey(disk[s[j]], e)
    BY <1>13 DEF LastIn
  <2>2. CASE i \in DOMAIN fs
    <3>1. LastIn(disk, fs, e)
      BY <1>6, <2>1, <2>2 DEF LastIn
    <3>2. CASE HasNewer(disk[id], e)
      BY <1>11, <3>2 DEF Shows
    <3>3. CASE e \in disk[id]
      <4>1. ASSUME NEW j \in DOMAIN t, 1 < j PROVE ~HasKey(disk[t[j]], e)
        <5>1. j - 1 \in DOMAIN kept /\ t[j] = s[at[j - 1]] /\ at[j - 1] \in DOMAIN s
          BY <1>4, <1>8, <4>1
        <5> QED  BY <1>9, <2>1, <2>2, <5>1
      <4> QED  BY <1>8, <3>3, <4>1 DEF Shows, LastIn
    <3> QED  BY <1>5, <3>1, <3>2, <3>3 DEF StandsFor
  <2>3. ASSUME NEW q \in DOMAIN kept, at[q] = i PROVE Shows(disk, t, e)
    <3>1. e \in disk[t[q + 1]] /\ q + 1 \in DOMAIN t
      BY <1>4, <1>8, <2>1, <2>3
    <3>2. ASSUME NEW j \in DOMAIN t, q + 1 < j PROVE ~HasKey(disk[t[j]], e)
      <4>1. j - 1 \in DOMAIN kept /\ t[j] = kept[j - 1] /\ q < j - 1
        BY <1>8, <3>2
      <4>2. at[q] < at[j - 1] /\ at[j - 1] \in DOMAIN s /\ t[j] = s[at[j - 1]]
        BY <1>4, <4>1
      <4> QED  BY <2>1, <2>3, <4>2
    <3> QED  BY <3>1, <3>2 DEF Shows, LastIn
  <2> QED  BY <1>10, <2>2, <2>3
<1> QED  BY <1>1, <1>2, <1>12, <1>13 DEF Shows

\* A step of the files when no flush fails.
WholeStep ==
  \/ \E f \in Flushers :
       \/ \E S \in SUBSET BoundedEntry : FlushWrite(f, S)
       \/ FlushInstall(f)
       \/ \E min \in MinActiveTxnIds : FlushCheck(f, min)
  \/ \E c \in Compactors : CompactStep(c)
  \/ Crash \/ CrashInSave \/ NewSsTable

\* Only Write and atomicSwap change the list, and its files keep their entries.
LEMMA ListedKept ==
  ASSUME Intact', TypeInv, ListsAgree, FileInv, [WholeStep]_vars
  PROVE  \/ \E f \in Flushers : FlushInstall(f)
         \/ \E c \in Compactors : CompactSwap(c)
         \/ /\ Names' = Names
            /\ \A i \in Range(Names) : disk'[i] = disk[i]
<1> DEFINE Same == /\ Names' = Names
                   /\ \A i \in Range(Names) : disk'[i] = disk[i]
<1>1. ASSUME NEW S \in SUBSET BoundedEntry, WriteNewFile(S, TRUE), up, up',
             firstLevelFiles' = firstLevelFiles
      PROVE  Same
  <2>1. \A i : Referenced(i) => disk'[i] = disk[i]
    BY <1>1, NewFileDisk
  <2>2. \A i \in Range(Names) : Referenced(i)
    BY <1>1 DEF Names, Referenced
  <2> QED  BY <1>1, <2>1, <2>2 DEF Names
<1>2. ASSUME NEW f \in Flushers, NEW S \in SUBSET BoundedEntry, FlushWrite(f, S) PROVE Same
  <2>1. WriteNewFile(S, TRUE) /\ up /\ up' /\ firstLevelFiles' = firstLevelFiles
    BY <1>2 DEF FlushWrite, lists
  <2> QED  BY <1>1, <2>1
<1>3. ASSUME NEW c \in Compactors, CompactCreate(c) PROVE Same
  <2>1. /\ WriteNewFile(compaction[c].entries, TRUE) /\ up /\ up'
        /\ firstLevelFiles' = firstLevelFiles
        /\ compaction[c].entries \in SUBSET BoundedEntry
    BY <1>3, Parts DEF CompactCreate, lists
  <2> QED  BY <1>1, <2>1
<1>4. ASSUME NEW c \in Compactors, CompactDelete(c) PROVE Same
  <2> DEFINE gone == Head(compaction[c].files)
  <2>1. /\ disk' = [disk EXCEPT ![gone] = {}] /\ compaction[c].files # <<>> /\ up
        /\ compaction[c].pc = "swapped" /\ Names' = Names
    BY <1>4 DEF CompactDelete, lists, Names
  <2>2. gone \in Range(compaction[c].files)
    BY <2>1, ReferencedIds, EmptyList DEF Range
  <2>3. gone \notin Range(Names)
    BY <2>1, <2>2 DEF FileInv, SwappedGone, Names
  <2> HIDE DEF gone
  <2>4. disk \in [FileIds -> SUBSET Entry] /\ Range(Names) \subseteq FileIds
    BY Parts, ReferencedIds DEF Names
  <2> QED  BY <2>1, <2>3, <2>4
<1>5. ASSUME NEW f \in Flushers, NEW min, FlushCheck(f, min) PROVE Same
  <2>1. up /\ up' = up /\ UNCHANGED <<lists, files>>
    BY <1>5 DEF FlushCheck
  <2> QED  BY <2>1 DEF lists, files, Names
<1>6. ASSUME NEW c \in Compactors,
             \/ CompactBegin(c) \/ CompactCopy(c) \/ CompactBuild(c)
             \/ CompactBuildFails(c) \/ CompactEnd(c)
      PROVE  Same
  <2>1. up /\ up' = up /\ UNCHANGED <<lists, files>>
    BY <1>6 DEF CompactBegin, CompactCopy, CompactBuild, CompactBuildFails, CompactEnd
  <2> QED  BY <2>1 DEF lists, files, Names
<1>7. ASSUME \/ Crash \/ CrashInSave \/ NewSsTable \/ UNCHANGED vars
             \/ \E c \in Compactors : CompactPanics(c)
      PROVE  Same
  <2>1. CASE NewSsTable
    BY <2>1, UpNames DEF NewSsTable
  <2>2. CASE UNCHANGED vars
    BY <2>2 DEF vars, lists, files, manifestFile, Names
  <2>3. CASE Crash \/ CrashInSave \/ \E c \in Compactors : CompactPanics(c)
    <3>1. GoDown /\ Names' = Names
      BY <2>3, DownNames
    <3> QED  BY <3>1 DEF GoDown, files
  <2> QED  BY <1>7, <2>1, <2>2, <2>3
<1>8. \A c \in Compactors : ~CompactCreateFails(c) /\ ~CompactBuildPart(c)
  BY DEF CompactCreateFails, CompactBuildPart, Intact
<1> HIDE DEF Same
<1>9. ASSUME NEW c \in Compactors, CompactStep(c) PROVE Same \/ CompactSwap(c)
  BY <1>3, <1>4, <1>6, <1>7, <1>8, <1>9, Zenon DEF CompactStep
<1>10. ASSUME NEW f \in Flushers, NEW S \in SUBSET BoundedEntry, FlushWrite(f, S) PROVE Same
  BY <1>2, <1>10
<1>11. ASSUME WholeStep
       PROVE  Same \/ (\E f \in Flushers : FlushInstall(f)) \/ \E c \in Compactors : CompactSwap(c)
  <2>1. CASE \E c \in Compactors : CompactStep(c)
    BY <1>9, <2>1, Zenon
  <2>2. CASE \E f \in Flushers : \/ \E S \in SUBSET BoundedEntry : FlushWrite(f, S)
                                 \/ \E min \in MinActiveTxnIds : FlushCheck(f, min)
    BY <1>5, <1>10, <2>2, Zenon
  <2>3. CASE \E f \in Flushers : FlushInstall(f)
    BY <2>3
  <2> QED  BY <1>7, <1>11, <2>1, <2>2, <2>3, Zenon DEF WholeStep
<1>12. Same \/ (\E f \in Flushers : FlushInstall(f)) \/ \E c \in Compactors : CompactSwap(c)
  BY <1>7, <1>11
<1> QED  BY <1>12 DEF Same

\* A file is installed once.
LEMMA DistinctStep ==
  ASSUME Intact', TypeInv, ListsAgree, FileInv, NamesDistinct, [WholeStep]_vars
  PROVE  NamesDistinct'
<1>1. CASE Names' = Names
  BY <1>1 DEF NamesDistinct
<1>2. ASSUME NEW f \in Flushers, FlushInstall(f) PROVE NamesDistinct'
  <2> DEFINE s == Names
             id == flush[f].file
             t == Append(s, id)
  <2>1. /\ up /\ up' /\ firstLevelFiles' = Append(firstLevelFiles, id)
        /\ flush[f].pc = "written"
    BY <1>2 DEF FlushInstall
  <2>2. Names' = t /\ s = firstLevelFiles
    BY <2>1 DEF Names
  <2>3. s \in Seq(FileIds) /\ \A i, j \in DOMAIN s : s[i] = s[j] => i = j
    BY <2>2, ReferencedIds DEF NamesDistinct
  <2>4. id \notin Range(s)
    BY <2>1, <2>2 DEF FileInv, FlushedFresh, Fresh, Referenced
  <2> HIDE DEF s, id
  <2>5. /\ t[Len(s) + 1] = id
        /\ \A i \in DOMAIN s : t[i] = s[i] /\ t[i] # id
        /\ \A i \in DOMAIN t : i \in DOMAIN s \/ i = Len(s) + 1
    BY <2>3, <2>4 DEF Range
  <2> HIDE DEF t
  <2>6. \A i, j \in DOMAIN t : t[i] = t[j] => i = j
    BY <2>3, <2>5
  <2> QED  BY <2>2, <2>6 DEF NamesDistinct
<1>3. ASSUME NEW c \in Compactors, CompactSwap(c) PROVE NamesDistinct'
  <2> DEFINE id == compaction[c].file
             fs == compaction[c].files
             s == firstLevelFiles
             kept == Kept(firstLevelFiles, Range(fs))
             t == <<id>> \o kept
  <2>1. /\ up /\ up' /\ compaction[c].pc = "created" /\ firstLevelFiles' = t
    BY <1>3 DEF CompactSwap
  <2>2. Names' = t /\ Names = s
    BY <2>1 DEF Names
  <2>3. s \in Seq(FileIds) /\ id \in FileIds /\ kept \in Seq(FileIds)
    BY ReferencedIds, KeptMembers
  <2>4. PICK at :
          /\ \A j \in DOMAIN kept : j \in Nat /\ at[j] \in DOMAIN s /\ kept[j] = s[at[j]]
          /\ \A i, j \in DOMAIN kept : i < j => at[i] < at[j]
    <3>1. ASSUME NEW k, k = kept, NEW old, old = Range(fs)
          PROVE  k = Kept(firstLevelFiles, old) /\ firstLevelFiles \in Seq(FileIds)
      BY <2>3, <3>1
    <3> HIDE DEF kept, fs
    <3> QED  BY <3>1, KeptPositions
  <2>5. id \notin Range(s)
    BY <2>1 DEF FileInv, CompactedFresh, Fresh, Referenced
  <2>6. \A i, j \in DOMAIN s : s[i] = s[j] => i = j
    BY <2>2 DEF NamesDistinct
  <2> HIDE DEF id, kept
  <2>7. \A i, j \in DOMAIN kept : kept[i] = kept[j] => i = j
    <3> SUFFICES ASSUME NEW i \in DOMAIN kept, NEW j \in DOMAIN kept, kept[i] = kept[j]
                 PROVE  i = j
      OBVIOUS
    <3>1. at[i] = at[j] /\ at[i] \in Nat
      BY <2>3, <2>4, <2>6
    <3>2. ~(i < j) /\ ~(j < i)
      BY <2>4, <3>1
    <3>3. i \in Nat /\ j \in Nat
      BY <2>4
    <3> QED  BY <3>2, <3>3
  <2>8. \A i \in DOMAIN kept : kept[i] # id
    BY <2>4, <2>5 DEF Range
  <2>9. /\ t[1] = id
        /\ \A i \in DOMAIN t : i # 1 => i \in Nat /\ i - 1 \in DOMAIN kept /\ t[i] = kept[i - 1]
    BY <2>3
  <2> HIDE DEF t
  <2>10. \A i, j \in DOMAIN t : t[i] = t[j] => i = j
    <3> SUFFICES ASSUME NEW i \in DOMAIN t, NEW j \in DOMAIN t, t[i] = t[j] PROVE i = j
      OBVIOUS
    <3>1. CASE i # 1 /\ j # 1
      <4>1. i - 1 = j - 1 /\ i \in Nat /\ j \in Nat
        BY <2>7, <2>9, <3>1
      <4> QED  BY <4>1
    <3>2. CASE i = 1 \/ j = 1
      BY <2>8, <2>9, <3>2
    <3> QED  BY <3>1, <3>2
  <2> QED  BY <2>2, <2>10 DEF NamesDistinct
<1> QED  BY <1>1, <1>2, <1>3, ListedKept

\* A step shows what was shown, if no file that waits to be installed has only
\* other versions of the key.
LEMMA ShowsStep ==
  ASSUME Intact', TypeInv, ListsAgree, FileInv, ShowInv, [WholeStep]_vars,
         NEW e \in BoundedEntry,
         \A f \in Flushers : flush[f].pc = "written" /\ HasKey(disk[flush[f].file], e)
                               => e \in disk[flush[f].file]
  PROVE  Shows(disk, Names, e) => Shows(disk', Names', e)
<1> DEFINE Stays == Shows(disk, Names, e)
                      => Shows(disk', Names', e)
<1>1. ASSUME NEW c \in Compactors, CompactSwap(c) PROVE Stays
  BY <1>1, SwapShows
<1>2. ASSUME Names' = Names,
             \A i \in Range(Names) : disk'[i] = disk[i]
      PROVE  Stays
  BY <1>2, SameListShows
<1>3. ASSUME NEW f \in Flushers, FlushInstall(f) PROVE Stays
  <2>1. flush[f].pc = "written"
    BY <1>3 DEF FlushInstall
  <2> QED  BY <1>3, <2>1, InstallShows
<1> HIDE DEF Stays
<1>4. Stays
  BY <1>1, <1>2, <1>3, ListedKept
<1> QED  BY <1>4 DEF Stays

\* What a compaction builds and writes keeps standing for the files it copied.
LEMMA BuiltStep ==
  ASSUME OneCompaction, ~damaged', TypeInv, FileInv, CopiedPrefix, BuiltStandsFor,
         [WholeStep]_vars
  PROVE  BuiltStandsFor'
<1> DEFINE Keeps == \A i : Referenced(i) \/ Fresh(i) => disk'[i] = disk[i]
           Quiet == /\ Keeps
                    /\ \A c \in Compactors : compaction'[c].pc \in {"built", "created"} =>
                         compaction'[c] = compaction[c]
<1>1. \A d, c \in Compactors : d = c
  BY DEF OneCompaction
<1>2. compaction \in [Compactors -> CompactionRec]
  BY Parts
<1>3. \A c \in Compactors : \A i \in DOMAIN compaction[c].files :
        Referenced(compaction[c].files[i])
  BY DEF Referenced, Range
<1>4. ASSUME Quiet PROVE BuiltStandsFor'
  <2> SUFFICES ASSUME NEW c \in Compactors
               PROVE  /\ compaction'[c].pc = "built" =>
                           StandsFor(disk', compaction'[c].files, compaction'[c].entries)
                      /\ compaction'[c].pc = "created" =>
                           StandsFor(disk', compaction'[c].files, disk'[compaction'[c].file])
    BY DEF BuiltStandsFor
  <2>1. \A i \in DOMAIN compaction[c].files :
          disk'[compaction[c].files[i]] = disk[compaction[c].files[i]]
    BY <1>3, <1>4
  <2>2. CASE compaction'[c].pc = "built"
    <3>1. compaction'[c] = compaction[c]
      BY <1>4, <2>2
    <3>2. StandsFor(disk, compaction[c].files, compaction[c].entries)
      BY <2>2, <3>1 DEF BuiltStandsFor
    <3>3. StandsFor(disk', compaction[c].files, compaction[c].entries)
      BY <2>1, <3>2, SameStandsFor
    <3> QED  BY <2>2, <3>1, <3>3
  <2>3. CASE compaction'[c].pc = "created"
    <3>1. compaction'[c] = compaction[c]
      BY <1>4, <2>3
    <3>2. StandsFor(disk, compaction[c].files, disk[compaction[c].file])
      BY <2>3, <3>1 DEF BuiltStandsFor
    <3>3. StandsFor(disk', compaction[c].files, disk[compaction[c].file])
      BY <2>1, <3>2, SameStandsFor
    <3>4. disk'[compaction[c].file] = disk[compaction[c].file]
      BY <1>4, <2>3, <3>1 DEF FileInv, CompactedFresh
    <3> QED  BY <2>3, <3>1, <3>3, <3>4
  <2> QED  BY <2>2, <2>3
<1>5. ASSUME NEW S \in SUBSET BoundedEntry, WriteNewFile(S, TRUE) PROVE Keeps
  BY <1>5, NewFileDisk
<1>6. ASSUME NEW f \in Flushers, NEW S \in SUBSET BoundedEntry, FlushWrite(f, S)
      PROVE  BuiltStandsFor'
  BY <1>4, <1>5, <1>6 DEF FlushWrite
<1>7. ASSUME NEW f \in Flushers, FlushInstall(f) PROVE BuiltStandsFor'
  BY <1>4, <1>7 DEF FlushInstall, files
<1>8. ASSUME NEW f \in Flushers, NEW min, FlushCheck(f, min) PROVE BuiltStandsFor'
  <2> DEFINE r == [NoCompaction EXCEPT !.pc = "spawned", !.min = min]
  <2>1. r.pc = "spawned"
    BY DEF NoCompaction
  <2>2. compaction' = compaction \/ \E c \in Compactors : compaction' = [compaction EXCEPT ![c] = r]
    BY <1>8 DEF FlushCheck
  <2>3. disk' = disk
    BY <1>8 DEF FlushCheck, files
  <2> HIDE DEF r
  <2>4. \A c \in Compactors : compaction'[c] = compaction[c] \/ compaction'[c] = r
    BY <1>2, <2>2
  <2> QED  BY <1>4, <2>1, <2>3, <2>4
<1>9. ASSUME NEW c \in Compactors,
             \/ CompactBegin(c) \/ CompactCopy(c) \/ CompactBuildFails(c)
             \/ CompactSwap(c) \/ CompactDelete(c) \/ CompactEnd(c)
      PROVE  BuiltStandsFor'
  <2>1. compaction'[c].pc \in {"flagged", "copied", "idle", "swapped"}
    BY <1>2, <1>9 DEF CompactBegin, CompactCopy, CompactBuildFails, CompactSwap, CompactDelete,
                      CompactEnd, CompactReturns, NoCompaction, CompactionRec
  <2> QED  BY <1>1, <2>1 DEF BuiltStandsFor
<1>10. ASSUME NEW c \in Compactors, CompactBuild(c) PROVE BuiltStandsFor'
  <2> DEFINE fs == compaction[c].files
             min == compaction[c].min
             new == buildCompactedEntries(fs, min)
  <2>1. /\ compaction' = [compaction EXCEPT ![c].pc = "built", ![c].entries = new]
        /\ disk' = disk
    BY <1>10 DEF CompactBuild, files
  <2>2. StandsFor(disk, fs, new)
    <3>1. fs \in Seq(FileIds) /\ min \in Nat
      BY <1>2, ReferencedIds DEF CompactionRec
    <3> HIDE DEF fs, min
    <3> QED  BY <3>1, BuildStandsFor
  <2> HIDE DEF new
  <2>3. /\ compaction'[c].files = fs /\ compaction'[c].entries = new
        /\ compaction'[c].pc = "built"
    BY <1>2, <2>1 DEF CompactionRec
  <2> QED  BY <1>1, <2>1, <2>2, <2>3 DEF BuiltStandsFor
<1>11. ASSUME NEW c \in Compactors, CompactCreate(c) PROVE BuiltStandsFor'
  <2> DEFINE fs == compaction[c].files
             new == compaction[c].entries
             id == manifest.nextFileId
  <2>1. /\ compaction' = [compaction EXCEPT ![c].pc = "created", ![c].entries = {},
                                            ![c].file = id]
        /\ compaction[c].pc = "built" /\ WriteNewFile(new, TRUE) /\ ~Reused
    BY <1>11 DEF CompactCreate
  <2>2. new \in SUBSET BoundedEntry
    BY Parts
  <2>3. disk'[id] = new /\ Keeps
    BY <2>1, <2>2, NewFileDisk
  <2>4. StandsFor(disk, fs, new)
    BY <2>1 DEF BuiltStandsFor
  <2>5. StandsFor(disk', fs, new)
    <3>1. \A i \in DOMAIN fs : disk'[fs[i]] = disk[fs[i]]
      BY <1>3, <2>3
    <3> HIDE DEF fs, new
    <3> QED  BY <2>4, <3>1, SameStandsFor
  <2>6. /\ compaction'[c].files = fs /\ compaction'[c].file = id
        /\ compaction'[c].pc = "created"
    BY <1>2, <2>1 DEF CompactionRec
  <2> QED  BY <1>1, <2>3, <2>5, <2>6 DEF BuiltStandsFor
<1>12. ASSUME Crash \/ CrashInSave \/ \E c \in Compactors : CompactPanics(c)
       PROVE  BuiltStandsFor'
  <2>1. \A c \in Compactors : compaction'[c].pc = "idle"
    BY <1>12 DEF Crash, CrashInSave, CompactPanics, GoDown, NoCompaction
  <2> QED  BY <2>1 DEF BuiltStandsFor
<1>13. ASSUME NewSsTable PROVE BuiltStandsFor'
  <2>1. \A c \in Compactors : compaction'[c].pc = "idle"
    BY <1>13 DEF NewSsTable, FileInv, DownIdle, NoCompaction
  <2> QED  BY <2>1 DEF BuiltStandsFor
<1>14. ASSUME UNCHANGED vars PROVE BuiltStandsFor'
  BY <1>4, <1>14 DEF vars, files
<1>15. \A c \in Compactors : ~CompactCreateFails(c) /\ ~CompactBuildPart(c)
  BY DEF CompactCreateFails, CompactBuildPart
<1>16. ASSUME NEW c \in Compactors, CompactStep(c) PROVE BuiltStandsFor'
  BY <1>9, <1>10, <1>11, <1>12, <1>15, <1>16, Zenon DEF CompactStep
<1>17. ASSUME WholeStep PROVE BuiltStandsFor'
  BY <1>6, <1>7, <1>8, <1>12, <1>13, <1>16, <1>17, Zenon DEF WholeStep
<1> QED  BY <1>14, <1>17

\* So the invariant of what is shown is kept.
LEMMA ShowStep ==
  ASSUME OneCompaction, Intact', TypeInv, ListsAgree, FileInv, ShowInv, [WholeStep]_vars
  PROVE  ShowInv'
<1>1. [AnyStep]_vars
  BY DEF WholeStep, AnyStep, AnyFlush
<1>2. CopiedPrefix'
  BY <1>1, CopiedStep DEF ShowInv
<1>3. NamesDistinct'
  BY DistinctStep DEF ShowInv
<1>4. BuiltStandsFor'
  BY BuiltStep DEF ShowInv, Intact
<1> QED  BY <1>2, <1>3, <1>4 DEF ShowInv

\* SsTable.Get returns the version that the last file with the key has, if no
\* file has a newer one and the reader can see all of them.
LEMMA GetLast ==
  ASSUME TypeInv, NEW e \in BoundedEntry, NEW t, NEW A, EmptyValue \notin Values,
         LastIn(disk, firstLevelFiles, e),
         \A f \in Listed : f.key = e.key =>
           CanSee(f.txnId, t, A) /\ (f # e => f.txnId < e.txnId)
  PROVE  SsTableGet(e.key, t, A) = {e}
<1> DEFINE k == e.key
           D == DOMAIN firstLevelFiles
           file(i) == disk[firstLevelFiles[i]]
           hit(i) == { f \in FileGet(file(i), k, t, A) : f.value # EmptyValue }
           hits == { i \in D : hit(i) # {} }
<1>1. /\ D = 1 .. Len(firstLevelFiles) /\ Len(firstLevelFiles) \in Nat
      /\ \A i \in D : file(i) \in SUBSET BoundedEntry /\ file(i) \subseteq Listed
      /\ k \in Keys /\ e.txnId \in Nat
  <2>1. firstLevelFiles \in Seq(FileIds)
    BY ReferencedIds
  <2>2. \A i \in D : firstLevelFiles[i] \in FileIds
    BY <2>1
  <2> QED  BY <2>1, <2>2, Parts DEF Listed, Range, BoundedEntry, Entry
<1>2. \A f \in Listed : f.key = k => CanSee(f.txnId, t, A) /\ (f # e => f.txnId < e.txnId)
  OBVIOUS
<1>3. PICK m \in D : e \in file(m) /\ \A j \in D : m < j => \A x \in file(j) : x.key # k
  BY DEF LastIn, HasKey
<1> HIDE DEF k
<1>4. \A i \in D : FileGet(file(i), k, t, A) = Newest({ f \in file(i) : f.key = k })
  BY <1>1, <1>2, FileGetNewest
<1>5. hit(m) = {e}
  <2> DEFINE K == { f \in file(m) : f.key = k }
  <2>1. e \in K /\ \A f \in K : f # e => f.txnId < e.txnId
    BY <1>1, <1>2, <1>3 DEF k
  <2>2. \A f \in K : f.txnId \in Nat
    BY <1>1 DEF BoundedEntry, Entry
  <2> HIDE DEF K
  <2>3. Newest(K) = {e}
    <3>1. e \in Newest(K)
      BY <1>1, <2>1, <2>2 DEF Newest
    <3>2. ASSUME NEW f \in Newest(K) PROVE f = e
      <4>1. e.txnId <= f.txnId /\ f \in K
        BY <2>1, <3>2 DEF Newest
      <4> QED  BY <1>1, <2>1, <2>2, <4>1
    <3> QED  BY <3>1, <3>2
  <2>4. e.value # EmptyValue
    BY DEF BoundedEntry, Entry
  <2> QED  BY <1>4, <2>3, <2>4 DEF K
<1>6. \A j \in hits : j \in D /\ j \in Nat /\ m \in Nat /\ ~(m < j)
  <2> SUFFICES ASSUME NEW j \in D, hit(j) # {}, m < j PROVE FALSE
    BY <1>1
  <2>1. { f \in file(j) : f.key = k } = {}
    BY <1>3
  <2>2. hit(j) \subseteq { f \in file(j) : f.key = k }
    BY <1>4 DEF Newest
  <2> QED  BY <2>1, <2>2
<1>7. m \in hits
  BY <1>5
<1>8. SsTableGet(k, t, A) = IF hits = {} THEN {} ELSE hit(Max(hits))
  BY DEF SsTableGet
<1> HIDE DEF hits
<1>9. \A j \in hits : (\A x \in hits : j >= x) => j = m
  BY <1>6, <1>7
<1>10. Max(hits) = m
  <2>1. m \in hits /\ \A x \in hits : m >= x
    BY <1>6, <1>7
  <2> QED  BY <1>9, <2>1 DEF Max
<1> QED  BY <1>5, <1>7, <1>8, <1>10 DEF k

\* What no file of the list has, it does not find.
LEMMA GetNothing ==
  ASSUME TypeInv, NEW k \in Keys, NEW t, NEW A, \A f \in Listed : f.key # k
  PROVE  SsTableGet(k, t, A) = {}
<1> DEFINE file(i) == disk[firstLevelFiles[i]]
<1>1. \A i \in DOMAIN firstLevelFiles : \A f \in file(i) : f.key # k
  BY DEF Listed, Range
<1>2. \A i \in DOMAIN firstLevelFiles : FileGet(file(i), k, t, A) = {}
  <2> TAKE i \in DOMAIN firstLevelFiles
  <2>1. \A x \in FileGet(file(i), k, t, A) : x \in file(i) /\ x.key = k
    BY DEF FileGet, Newest, VisibleEntries
  <2> QED  BY <1>1, <2>1
<1> QED  BY <1>2 DEF SsTableGet
===============================================================================
