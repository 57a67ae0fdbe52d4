----------------------------- MODULE SsTableProofs -----------------------------
(***************************************************************************)
(* The theorems of SsTable, for any number of flushers, compactions,       *)
(* files and crashes.                                                      *)
(***************************************************************************)
EXTENDS SsTable, FiniteSetTheorems, WellFoundedInduction, TLAPS

\* What Append, Head, Tail and a new first element do to the members of a list.
LEMMA ListMembers ==
  ASSUME NEW S, NEW s \in Seq(S), NEW x \in S
  PROVE  /\ Append(s, x) \in Seq(S) /\ Range(Append(s, x)) = Range(s) \cup {x}
         /\ <<x>> \o s \in Seq(S) /\ Range(<<x>> \o s) = Range(s) \cup {x}
         /\ s # <<>> => /\ Head(s) \in Range(s)
                        /\ Tail(s) \in Seq(S) /\ Range(Tail(s)) \subseteq Range(s)
<1>1. Range(Append(s, x)) = Range(s) \cup {x}
  <2> DEFINE t == Append(s, x)
  <2>1. /\ DOMAIN t = 1 .. Len(s) + 1 /\ t[Len(s) + 1] = x
        /\ \A i \in DOMAIN s : i \in DOMAIN t /\ t[i] = s[i]
        /\ \A i \in DOMAIN t : i # Len(s) + 1 => i \in DOMAIN s
        /\ Len(s) + 1 \in DOMAIN t
    OBVIOUS
  <2> HIDE DEF t
  <2>2. Range(t) = Range(s) \cup {x}
    BY <2>1 DEF Range
  <2> QED  BY <2>2 DEF t
<1>2. Range(<<x>> \o s) = Range(s) \cup {x}
  <2> DEFINE t == <<x>> \o s
  <2>1. /\ DOMAIN t = 1 .. Len(s) + 1 /\ t[1] = x
        /\ \A i \in DOMAIN s : i + 1 \in DOMAIN t /\ t[i + 1] = s[i]
        /\ \A i \in DOMAIN t : i # 1 => i - 1 \in DOMAIN s /\ t[i] = s[i - 1]
    OBVIOUS
  <2> HIDE DEF t
  <2>2. Range(t) = Range(s) \cup {x}
    BY <2>1 DEF Range
  <2> QED  BY <2>2 DEF t
<1>3. s # <<>> => Head(s) \in Range(s) /\ Range(Tail(s)) \subseteq Range(s)
  BY DEF Range
<1> QED  BY <1>1, <1>2, <1>3

\* A set of positions can be listed in order.
LEMMA Enumeration ==
  ASSUME NEW n \in Nat, NEW P \in SUBSET (1 .. n)
  PROVE  \E at \in [1 .. Cardinality(P) -> P] :
           \A i, j \in 1 .. Cardinality(P) : i < j => at[i] < at[j]
<1> DEFINE Listed(Q, m) == \E at \in [1 .. m -> Q] :
                             \A i, j \in 1 .. m : i < j => at[i] < at[j]
           Good(l) == \A Q \in SUBSET (1 .. l) : Listed(Q, Cardinality(Q))
           Bad == { l \in Nat : ~Good(l) }
<1>1. Good(0)
  <2> SUFFICES ASSUME NEW Q \in SUBSET (1 .. 0) PROVE Listed(Q, Cardinality(Q))
    OBVIOUS
  <2>1. Q = {} /\ Cardinality({}) = 0
    BY FS_EmptySet
  <2>2. [i \in 1 .. 0 |-> i] \in [1 .. 0 -> {}]
    OBVIOUS
  <2> QED  BY <2>1, <2>2
<1>2. ASSUME NEW l \in Nat, Good(l)
      PROVE  Good(l + 1)
  <2> SUFFICES ASSUME NEW Q \in SUBSET (1 .. l + 1) PROVE Listed(Q, Cardinality(Q))
    OBVIOUS
  <2> DEFINE R == Q \ {l + 1}
  <2>1. R \in SUBSET (1 .. l) /\ l + 1 \notin R
    OBVIOUS
  <2>2. PICK at \in [1 .. Cardinality(R) -> R] :
          \A i, j \in 1 .. Cardinality(R) : i < j => at[i] < at[j]
    BY <1>2, <2>1
  <2>3. IsFiniteSet(R) /\ Cardinality(R) \in Nat
    <3>1. IsFiniteSet(1 .. l)
      BY FS_Interval
    <3> QED  BY <3>1, <2>1, FS_Subset, FS_CardinalityType
  <2>4. CASE l + 1 \notin Q
    <3>1. R = Q
      BY <2>4
    <3> QED  BY <2>2, <3>1
  <2>5. CASE l + 1 \in Q
    <3>1. Q = R \cup {l + 1}
      BY <2>5
    <3>2. Cardinality(Q) = Cardinality(R) + 1
      BY <2>1, <2>3, <3>1, FS_AddElement
    <3> DEFINE m == Cardinality(R)
    <3>3. /\ m \in Nat /\ at \in [1 .. m -> R] /\ R \subseteq Q /\ R \subseteq 1 .. l
          /\ \A i, j \in 1 .. m : i < j => at[i] < at[j]
      BY <2>1, <2>2, <2>3
    <3> HIDE DEF R, m, Listed, Good
    <3> DEFINE new == [i \in 1 .. m + 1 |-> IF i <= m THEN at[i] ELSE l + 1]
    <3>4. new \in [1 .. m + 1 -> Q]
      <4>1. ASSUME NEW i \in 1 .. m + 1, i <= m
            PROVE  at[i] \in Q
        <5>1. i \in 1 .. m
          BY <3>3, <4>1
        <5>2. at[i] \in R
          BY <3>3, <5>1
        <5> QED  BY <3>3, <5>2
      <4> QED  BY <2>5, <3>3, <4>1
    <3>5. ASSUME NEW i \in 1 .. m + 1, NEW j \in 1 .. m + 1, i < j
          PROVE  new[i] < new[j]
      <4>1. i \in 1 .. m /\ new[i] = at[i] /\ at[i] \in 1 .. l
        <5>1. i \in 1 .. m /\ i <= m
          BY <3>5, <3>3
        <5>2. at[i] \in R
          BY <3>3, <5>1
        <5> QED  BY <3>3, <5>1, <5>2
      <4>2. CASE j \in 1 .. m
        BY <4>1, <4>2, <3>5, <3>3
      <4>3. CASE j = m + 1
        <5>1. new[j] = l + 1
          BY <3>3, <4>3
        <5> QED  BY <4>1, <5>1
      <4> QED  BY <3>3, <4>2, <4>3
    <3> QED  BY <3>2, <3>4, <3>5 DEF m, Listed
  <2> QED  BY <2>4, <2>5
<1>3. Bad = {}
  <2> SUFFICES ASSUME Bad # {} PROVE FALSE
    OBVIOUS
  <2>1. PICK l \in Bad : \A y \in Bad : ~(<<y, l>> \in OpToRel(<, Nat))
    <3>1. Bad \subseteq Nat
      OBVIOUS
    <3> HIDE DEF Bad
    <3> QED  BY <3>1, WFMin, NatLessThanWellFounded, Zenon
  <2>2. l \in Nat /\ ~Good(l)
    BY <2>1
  <2> HIDE DEF Good
  <2>3. l # 0
    BY <2>2, <1>1
  <2>4. l - 1 \in Nat /\ (l - 1) + 1 = l
    BY <2>2, <2>3
  <2>5. ~Good(l - 1)
    BY <2>2, <2>4, <1>2
  <2>6. <<l - 1, l>> \in OpToRel(<, Nat)
    <3>1. <<l - 1, l>> \in Nat \X Nat /\ l - 1 < l
      BY <2>2, <2>4
    <3> QED  BY <3>1, Zenon DEF OpToRel
  <2> QED  BY <2>1, <2>4, <2>5, <2>6
<1> QED  BY <1>3

\* What atomicSwap keeps of the list is a list of files that are not compacted.
LEMMA KeptMembers ==
  ASSUME firstLevelFiles \in Seq(FileIds), NEW old
  PROVE  LET kept == Kept(firstLevelFiles, old)
         IN  /\ kept \in Seq(FileIds)
             /\ Range(kept) \subseteq Range(firstLevelFiles) \ old
<1> DEFINE P == { i \in DOMAIN firstLevelFiles : firstLevelFiles[i] \notin old }
           at == InOrder(P)
           kept == Kept(firstLevelFiles, old)
<1>1. P \in SUBSET (1 .. Len(firstLevelFiles)) /\ Len(firstLevelFiles) \in Nat
  OBVIOUS
<1>2. at \in [1 .. Cardinality(P) -> P]
  BY <1>1, Enumeration DEF InOrder
<1>3. Cardinality(P) \in Nat
  <2>1. IsFiniteSet(1 .. Len(firstLevelFiles))
    BY <1>1, FS_Interval
  <2> QED  BY <1>1, <2>1, FS_Subset, FS_CardinalityType
<1>4. kept = [j \in 1 .. Cardinality(P) |-> firstLevelFiles[at[j]]]
  BY DEF Kept
<1>5. \A i \in P : firstLevelFiles[i] \in (Range(firstLevelFiles) \ old) \cap FileIds
  BY DEF Range
<1> HIDE DEF P, at, kept
<1>6. \A j \in 1 .. Cardinality(P) : kept[j] \in (Range(firstLevelFiles) \ old) \cap FileIds
  BY <1>2, <1>4, <1>5
<1>7. kept \in [1 .. Cardinality(P) -> FileIds]
  BY <1>4, <1>6
<1>8. kept \in Seq(FileIds)
  BY <1>3, <1>7
<1>9. Range(kept) \subseteq Range(firstLevelFiles) \ old
  BY <1>6, <1>7 DEF Range
<1> QED  BY <1>8, <1>9 DEF kept

\* A set of bounded numbers has a largest one.
LEMMA LargestExists ==
  ASSUME NEW n \in Nat, NEW S \in SUBSET (0 .. n), S # {}
  PROVE  \E i \in S : \A j \in S : i >= j
<1> DEFINE U == { m \in Nat : \E i \in S : m + i = n }
<1>1. U \subseteq Nat /\ U # {}
  <2>1. PICK i \in S : i \in 0 .. n
    OBVIOUS
  <2>2. n - i \in Nat /\ (n - i) + i = n
    BY <2>1
  <2> QED  BY <2>1, <2>2
<1>2. PICK x \in U : \A y \in U : ~(<<y, x>> \in OpToRel(<, Nat))
  <2> HIDE DEF U
  <2> QED  BY <1>1, WFMin, NatLessThanWellFounded, Zenon
<1>3. \A y \in U : ~(y < x)
  <2>1. U \subseteq Nat
    BY <1>1
  <2> HIDE DEF U
  <2> QED  BY <1>2, <2>1, Zenon DEF OpToRel
<1>4. PICK i \in S : x \in Nat /\ x + i = n
  BY <1>2
<1>5. \A j \in S : i >= j
  <2> TAKE j \in S
  <2>1. i \in 0 .. n /\ j \in 0 .. n /\ x = n - i
    BY <1>4
  <2>2. n - j \in Nat /\ (n - j) + j = n
    BY <2>1
  <2>3. n - j \in U
    BY <2>2
  <2> HIDE DEF U
  <2> QED  BY <1>3, <2>1, <2>3
<1> QED  BY <1>5

\* The largest id of a set of ids that are bounded.
LEMMA MaxOfIds ==
  ASSUME NEW n \in Nat, NEW T \in SUBSET (0 .. n)
  PROVE  Max({0} \cup T) \in 0 .. n /\ \A i \in T : i <= Max({0} \cup T)
<1> DEFINE S == {0} \cup T
<1>1. S \in SUBSET (0 .. n) /\ S # {}
  OBVIOUS
<1> HIDE DEF S
<1>2. PICK i \in S : \A j \in S : i >= j
  BY <1>1, LargestExists
<1>3. Max(S) \in S /\ \A j \in S : Max(S) >= j
  BY <1>2 DEF Max
<1>4. Max(S) \in 0 .. n /\ \A j \in T : j \in 0 .. n /\ j \in S
  BY <1>1, <1>3 DEF S
<1>5. \A j \in T : j <= Max(S)
  BY <1>3, <1>4
<1> QED  BY <1>4, <1>5 DEF S

-------------------------------------------------------------------------------
(***************************************************************************)
(* Types.  The ids of the flushed memtables are bounded, which makes the   *)
(* next one a number.                                                      *)
(***************************************************************************)
BoundedEntry == { e \in Entry : e.txnId \in 0 .. MaxFlushes }

EntriesBounded ==
  /\ written \subseteq BoundedEntry
  /\ \A i \in FileIds : disk[i] \subseteq BoundedEntry
  /\ \A c \in Compactors : compaction[c].entries \subseteq BoundedEntry

TypeInv == TypeOK /\ EntriesBounded

\* Idle values of the two kinds of goroutine, and the empty manifest.
LEMMA IdleTypes ==
  /\ Idle \in [pc : {"idle", "written", "checking"}, file : FileIds]
  /\ NoCompaction \in
       [pc : {"idle", "spawned", "flagged", "copied", "built", "created", "swapped"},
        min : Nat, files : FileLists, entries : SUBSET Entry, file : FileIds]
  /\ NoCompaction.entries = {} /\ NoCompaction.files = <<>> /\ NoCompaction.pc = "idle"
  /\ EmptyManifest \in [nextFileId : 0 .. MaxFileId + 1, fileNames : FileLists]
  /\ EmptyManifest.fileNames = <<>>
  /\ 0 \in FileIds
<1>1. 0 \in FileIds /\ 0 \in 0 .. MaxFileId + 1
  BY SsTableAssumption DEF FileIds
<1>2. <<>> \in FileLists
  BY DEF FileLists
<1> QED  BY <1>1, <1>2 DEF Idle, NoCompaction, EmptyManifest

\* A new file: its id, and the files afterwards.
LEMMA NewFileTypes ==
  ASSUME TypeInv, NEW S \in SUBSET BoundedEntry, NEW whole, WriteNewFile(S, whole)
  PROVE  /\ manifest.nextFileId \in FileIds
         /\ manifest' \in [nextFileId : 0 .. MaxFileId + 1, fileNames : FileLists]
         /\ manifest'.nextFileId = manifest.nextFileId + 1
         /\ manifest'.fileNames = manifest.fileNames
         /\ existing' = existing \cup {manifest.nextFileId}
         /\ existing' \subseteq FileIds /\ garbled' \subseteq existing'
         /\ disk' \in [FileIds -> SUBSET Entry]
         /\ \A i \in FileIds : disk'[i] \subseteq BoundedEntry
<1> USE DEF TypeInv
<1>1. /\ manifest.nextFileId \in FileIds
      /\ manifest' = [manifest EXCEPT !.nextFileId = manifest.nextFileId + 1]
      /\ existing' = existing \cup {manifest.nextFileId}
      /\ garbled' \subseteq garbled \cup {manifest.nextFileId}
  BY DEF WriteNewFile, TakeFileId
<1>2. manifest \in [nextFileId : 0 .. MaxFileId + 1, fileNames : FileLists]
  BY DEF TypeOK
<1>3. manifest.nextFileId + 1 \in 0 .. MaxFileId + 1
  BY <1>1, SsTableAssumption DEF FileIds
<1>4. BoundedEntry \subseteq Entry
  BY DEF BoundedEntry
<1>5. PICK T \in SUBSET BoundedEntry : disk' = [disk EXCEPT ![manifest.nextFileId] = T]
  <2>1. disk[manifest.nextFileId] \subseteq BoundedEntry
    BY <1>1 DEF EntriesBounded
  <2>2. disk' = [disk EXCEPT ![manifest.nextFileId] =
                   IF Reused THEN disk[manifest.nextFileId] \cup S ELSE S]
    BY DEF WriteNewFile
  <2> QED  BY <2>1, <2>2
<1>6. /\ disk' \in [FileIds -> SUBSET Entry]
      /\ \A i \in FileIds : disk'[i] \subseteq BoundedEntry
  BY <1>4, <1>5 DEF TypeOK, EntriesBounded
<1> QED  BY <1>1, <1>2, <1>3, <1>6 DEF TypeOK

\* The memtables that arrive hold bounded entries.
LEMMA MemtableTypes ==
  ASSUME TypeInv, NextTxn <= MaxFlushes, NEW S \in Memtables(NextTxn)
  PROVE  S \subseteq BoundedEntry
<1> DEFINE T == { e.txnId : e \in written \cup UNION { disk[i] : i \in existing } }
<1>1. T \in SUBSET (0 .. MaxFlushes)
  BY DEF TypeInv, TypeOK, EntriesBounded, BoundedEntry
<1>2. MaxFlushes \in Nat
  BY SsTableAssumption
<1>3. Max({0} \cup T) \in 0 .. MaxFlushes
  <2> HIDE DEF T
  <2> QED  BY <1>1, <1>2, MaxOfIds
<1>4. NextTxn = 1 + Max({0} \cup T)
  BY DEF NextTxn
<1> HIDE DEF T
<1>5. NextTxn \in 0 .. MaxFlushes
  BY <1>2, <1>3, <1>4
<1>6. NextTxn \in Nat
  BY <1>2, <1>5
<1> HIDE DEF NextTxn
<1> QED  BY <1>5, <1>6 DEF Memtables, BoundedEntry, Entry

SaveStates == {"whole", "stale", "torn"}
FlushRec == [pc : {"idle", "written", "checking"}, file : FileIds]
CompactionRec ==
  [pc : {"idle", "spawned", "flagged", "copied", "built", "created", "swapped"},
   min : Nat, files : FileLists, entries : SUBSET Entry, file : FileIds]

\* Replacing the record of one goroutine keeps the types of the others'.
LEMMA GoroutineTypes ==
  ASSUME TypeInv
  PROVE  /\ \A f \in Flushers : \A r \in FlushRec :
              [flush EXCEPT ![f] = r] \in [Flushers -> FlushRec]
         /\ \A c \in Compactors : \A r \in CompactionRec :
              /\ [compaction EXCEPT ![c] = r] \in [Compactors -> CompactionRec]
              /\ r.entries \subseteq BoundedEntry =>
                   \A d \in Compactors :
                     [compaction EXCEPT ![c] = r][d].entries \subseteq BoundedEntry
<1>1. flush \in [Flushers -> FlushRec] /\ compaction \in [Compactors -> CompactionRec]
  BY DEF TypeInv, TypeOK, FlushRec, CompactionRec
<1>2. \A d \in Compactors : compaction[d].entries \subseteq BoundedEntry
  BY DEF TypeInv, EntriesBounded
<1> QED  BY <1>1, <1>2

\* A step keeps the types when the parts that it changes keep theirs.
LEMMA TypesFromParts ==
  ASSUME TypeInv,
         flush' \in [Flushers -> FlushRec],
         compaction' \in [Compactors -> CompactionRec],
         \A c \in Compactors : compaction'[c].entries \subseteq BoundedEntry,
         firstLevelFiles' \in FileLists, indexBlocks' \in FileLists,
         indexOffsets' \in FileLists,
         manifest' \in [nextFileId : 0 .. MaxFileId + 1, fileNames : FileLists],
         diskManifest' \in [nextFileId : 0 .. MaxFileId + 1, fileNames : FileLists],
         existing' \subseteq FileIds, garbled' \subseteq existing',
         disk' \in [FileIds -> SUBSET Entry],
         \A i \in FileIds : disk'[i] \subseteq BoundedEntry,
         damaged' \in BOOLEAN, saved' \in SaveStates,
         compacting' \in BOOLEAN, up' \in BOOLEAN, crashes' \in 0 .. MaxCrashes,
         written' \subseteq BoundedEntry, maxMin' \in Nat
  PROVE  TypeInv'
<1>1. written' \subseteq Entry
  BY DEF BoundedEntry
<1>2. EntriesBounded'
  BY DEF EntriesBounded
<1>3. TypeOK'
  BY <1>1 DEF TypeOK, FlushRec, CompactionRec, SaveStates
<1> QED  BY <1>2, <1>3 DEF TypeInv

\* The same parts, of a state.
LEMMA Parts ==
  ASSUME TypeInv
  PROVE  /\ flush \in [Flushers -> FlushRec]
         /\ compaction \in [Compactors -> CompactionRec]
         /\ \A c \in Compactors : compaction[c].entries \subseteq BoundedEntry
         /\ firstLevelFiles \in FileLists /\ indexBlocks \in FileLists
         /\ indexOffsets \in FileLists
         /\ manifest \in [nextFileId : 0 .. MaxFileId + 1, fileNames : FileLists]
         /\ diskManifest \in [nextFileId : 0 .. MaxFileId + 1, fileNames : FileLists]
         /\ existing \subseteq FileIds /\ garbled \subseteq existing
         /\ disk \in [FileIds -> SUBSET Entry]
         /\ \A i \in FileIds : disk[i] \subseteq BoundedEntry
         /\ damaged \in BOOLEAN /\ saved \in SaveStates
         /\ compacting \in BOOLEAN /\ up \in BOOLEAN /\ crashes \in 0 .. MaxCrashes
         /\ written \subseteq BoundedEntry /\ maxMin \in Nat
BY DEF TypeInv, TypeOK, EntriesBounded, FlushRec, CompactionRec, SaveStates

\* What saveManifest leaves: only what it was given counts as whole.
LEMMA SavedManifest ==
  ASSUME saveManifest, saved \in SaveStates
  PROVE  /\ diskManifest' \in {manifest', diskManifest, EmptyManifest}
         /\ saved' = "whole" => diskManifest' = manifest'
         /\ saved' \in SaveStates
BY DEF saveManifest, SaveStates

\* A step of the files below any store: what is flushed is not restricted to
\* the memtables of Next.
AnyFlush(f) ==
  \/ \E S \in SUBSET BoundedEntry : FlushWrite(f, S) \/ FlushWriteFails(f, S)
  \/ FlushOpenFails(f) \/ FlushInstall(f)
  \/ \E min \in MinActiveTxnIds : FlushCheck(f, min)
AnyStep ==
  \/ \E f \in Flushers : AnyFlush(f)
  \/ \E c \in Compactors : CompactStep(c)
  \/ Crash \/ CrashInSave \/ NewSsTable

\* Every step of Next is a step of one flusher, one compaction, or a restart.
LEMMA NextIsAnyStep ==
  ASSUME TypeInv, [Next]_vars
  PROVE  [AnyStep]_vars
<1>1. ASSUME NEW f \in Flushers, NextTxn <= MaxFlushes,
             NEW S \in Memtables(NextTxn), FlushWrite(f, S) \/ FlushWriteFails(f, S)
      PROVE  AnyFlush(f)
  <2>1. S \in SUBSET BoundedEntry
    BY <1>1, MemtableTypes
  <2> QED  BY <1>1, <2>1 DEF AnyFlush
<1> QED  BY <1>1 DEF Next, AnyStep, AnyFlush

\* The flushes.
LEMMA FlushTypes ==
  ASSUME TypeInv, NEW f \in Flushers, AnyFlush(f)
  PROVE  TypeInv'
<1> USE Parts
<1>1. ASSUME NEW S \in SUBSET BoundedEntry, FlushWrite(f, S)
      PROVE  TypeInv'
  <2>1. WriteNewFile(S, TRUE)
    BY <1>1 DEF FlushWrite
  <2>2. S \in SUBSET BoundedEntry
    OBVIOUS
  <2>3. /\ manifest.nextFileId \in FileIds
        /\ manifest' \in [nextFileId : 0 .. MaxFileId + 1, fileNames : FileLists]
        /\ existing' \subseteq FileIds /\ garbled' \subseteq existing'
        /\ disk' \in [FileIds -> SUBSET Entry]
        /\ \A i \in FileIds : disk'[i] \subseteq BoundedEntry
    BY <2>1, <2>2, NewFileTypes
  <2>4. flush' \in [Flushers -> FlushRec]
    <3>1. [pc |-> "written", file |-> manifest.nextFileId] \in FlushRec
      BY <2>3 DEF FlushRec
    <3> QED  BY <1>1, <3>1, GoroutineTypes DEF FlushWrite
  <2> QED  BY <1>1, <2>3, <2>4, TypesFromParts DEF FlushWrite, lists, history, manifestFile
<1>2. CASE FlushOpenFails(f)
  <2>1. manifest' \in [nextFileId : 0 .. MaxFileId + 1, fileNames : FileLists]
    <3>1. manifest.nextFileId \in FileIds
      BY <1>2 DEF FlushOpenFails, TakeFileId
    <3>2. manifest.nextFileId + 1 \in 0 .. MaxFileId + 1
      BY <3>1, SsTableAssumption DEF FileIds
    <3>3. manifest' = [manifest EXCEPT !.nextFileId = manifest.nextFileId + 1]
      BY <1>2 DEF FlushOpenFails, TakeFileId
    <3> QED  BY <3>2, <3>3
  <2> QED  BY <1>2, <2>1, TypesFromParts DEF FlushOpenFails, lists, files, history, manifestFile
<1>3. ASSUME NEW S \in SUBSET BoundedEntry, FlushWriteFails(f, S)
      PROVE  TypeInv'
  <2>1. WriteNewFile(S, FALSE)
    BY <1>3 DEF FlushWriteFails
  <2>2. S \in SUBSET BoundedEntry
    OBVIOUS
  <2>3. /\ manifest.nextFileId \in FileIds
        /\ manifest' \in [nextFileId : 0 .. MaxFileId + 1, fileNames : FileLists]
        /\ existing' \subseteq FileIds /\ garbled' \subseteq existing'
        /\ disk' \in [FileIds -> SUBSET Entry]
        /\ \A i \in FileIds : disk'[i] \subseteq BoundedEntry
    BY <2>1, <2>2, NewFileTypes
  <2>4. flush' \in [Flushers -> FlushRec]
    <3>1. [pc |-> "checking", file |-> manifest.nextFileId] \in FlushRec
      BY <2>3 DEF FlushRec
    <3> QED  BY <1>3, <3>1, GoroutineTypes DEF FlushWriteFails
  <2> QED  BY <1>3, <2>3, <2>4, TypesFromParts DEF FlushWriteFails, lists, history, manifestFile
<1>4. CASE FlushInstall(f)
  <2>1. flush[f].file \in FileIds
    BY DEF FlushRec
  <2>2. /\ firstLevelFiles' \in FileLists /\ indexBlocks' \in FileLists
        /\ indexOffsets' \in FileLists
    BY <1>4, <2>1, ListMembers DEF FlushInstall, FileLists
  <2>3. manifest' \in [nextFileId : 0 .. MaxFileId + 1, fileNames : FileLists]
    <3>1. Append(manifest.fileNames, flush[f].file) \in FileLists
      BY <2>1, ListMembers DEF FileLists
    <3> QED  BY <1>4, <3>1 DEF FlushInstall
  <2>4. flush' \in [Flushers -> FlushRec]
    <3>1. flush' = [flush EXCEPT ![f].pc = "checking"]
      BY <1>4, Zenon DEF FlushInstall
    <3>2. flush \in [Flushers -> FlushRec]
      OBVIOUS
    <3> HIDE Parts
    <3> QED  BY <3>1, <3>2 DEF FlushRec
  <2>5. written' \subseteq BoundedEntry
    BY <1>4, <2>1 DEF FlushInstall
  <2>6. /\ diskManifest' \in {manifest', diskManifest, EmptyManifest}
        /\ saved' \in SaveStates
    BY <1>4, SavedManifest DEF FlushInstall
  <2> QED  BY <1>4, <2>2, <2>3, <2>4, <2>5, <2>6, IdleTypes, TypesFromParts
           DEF FlushInstall, files
<1>5. ASSUME NEW min \in MinActiveTxnIds, FlushCheck(f, min)
      PROVE  TypeInv'
  <2>1. min \in Nat
    BY SsTableAssumption
  <2>2. flush' \in [Flushers -> FlushRec]
    <3>1. Idle \in FlushRec
      BY IdleTypes DEF FlushRec
    <3> QED  BY <1>5, <3>1, GoroutineTypes DEF FlushCheck
  <2> DEFINE r == [NoCompaction EXCEPT !.pc = "spawned", !.min = min]
  <2>3. r \in CompactionRec /\ r.entries = {}
    BY <2>1, IdleTypes DEF CompactionRec
  <2>4. /\ compaction' \in [Compactors -> CompactionRec]
        /\ \A c \in Compactors : compaction'[c].entries \subseteq BoundedEntry
    <3>1. CASE ShouldRunCompaction
      <4>1. PICK c \in Compactors : compaction' = [compaction EXCEPT ![c] = r]
        BY <1>5, <3>1 DEF FlushCheck
      <4> HIDE DEF r
      <4> QED  BY <2>3, <4>1, GoroutineTypes
    <3>2. CASE ~ShouldRunCompaction
      BY <1>5, <3>2 DEF FlushCheck
    <3> QED  BY <3>1, <3>2
  <2>5. maxMin' \in Nat
    BY <1>5, <2>1 DEF FlushCheck
  <2> QED  BY <1>5, <2>2, <2>4, <2>5, TypesFromParts DEF FlushCheck, lists, files, manifestFile
<1> QED  BY <1>1, <1>2, <1>3, <1>4, <1>5 DEF AnyFlush

\* The compacted entries come from the files.
LEMMA BuiltTypes ==
  ASSUME TypeInv, NEW fs \in FileLists, NEW min
  PROVE  buildCompactedEntries(fs, min) \subseteq BoundedEntry
<1>1. \A i \in DOMAIN fs : disk[fs[i]] \subseteq BoundedEntry
  BY Parts DEF FileLists
<1> QED  BY <1>1 DEF buildCompactedEntries

\* The compactions.
LEMMA CompactionTypes ==
  ASSUME TypeInv, ListsAgree, NEW c \in Compactors,
         \/ CompactBegin(c) \/ CompactCopy(c) \/ CompactBuild(c)
         \/ CompactBuildPart(c) \/ CompactBuildFails(c)
         \/ CompactCreate(c) \/ CompactCreateFails(c)
         \/ CompactSwap(c) \/ CompactDelete(c) \/ CompactEnd(c)
  PROVE  TypeInv'
<1> USE Parts
<1> DEFINE r == compaction[c]
<1>r. /\ r \in CompactionRec /\ r.entries \subseteq BoundedEntry
      /\ r.files \in FileLists /\ r.file \in FileIds
  BY DEF CompactionRec
<1>1. CASE CompactBegin(c)
  <2>1. [r EXCEPT !.pc = "flagged"] \in CompactionRec
        /\ [r EXCEPT !.pc = "flagged"].entries = r.entries
    BY <1>r DEF CompactionRec
  <2>2. compaction' = [compaction EXCEPT ![c] = [r EXCEPT !.pc = "flagged"]]
    BY <1>1 DEF CompactBegin
  <2> QED  BY <1>1, <1>r, <2>1, <2>2, GoroutineTypes, TypesFromParts
           DEF CompactBegin, lists, files, history, manifestFile
<1>2. CASE CompactCopy(c)
  <2> DEFINE s == [r EXCEPT !.pc = "copied", !.files = firstLevelFiles]
  <2>1. s \in CompactionRec /\ s.entries = r.entries
    BY <1>r DEF CompactionRec
  <2>2. compaction' = [compaction EXCEPT ![c] = s]
    BY <1>2 DEF CompactCopy
  <2> HIDE DEF s
  <2>3. /\ compaction' \in [Compactors -> CompactionRec]
        /\ \A d \in Compactors : compaction'[d].entries \subseteq BoundedEntry
    BY <1>r, <2>1, <2>2, GoroutineTypes
  <2> QED  BY <1>2, <2>3, TypesFromParts
           DEF CompactCopy, lists, files, history, manifestFile
<1>3. CASE CompactBuild(c)
  <2> DEFINE E == buildCompactedEntries(r.files, r.min)
             s == [r EXCEPT !.pc = "built", !.entries = E]
  <2>1. E \subseteq BoundedEntry /\ BoundedEntry \subseteq Entry
    BY <1>r, BuiltTypes DEF BoundedEntry
  <2>2. compaction' = [compaction EXCEPT ![c] = s]
    BY <1>3 DEF CompactBuild
  <2> HIDE DEF E
  <2>3. s \in CompactionRec /\ s.entries \subseteq BoundedEntry
    BY <1>r, <2>1 DEF CompactionRec
  <2> HIDE DEF s
  <2>4. /\ compaction' \in [Compactors -> CompactionRec]
        /\ \A d \in Compactors : compaction'[d].entries \subseteq BoundedEntry
    BY <2>2, <2>3, GoroutineTypes
  <2> QED  BY <1>3, <2>4, TypesFromParts
           DEF CompactBuild, lists, files, history, manifestFile
<1>p. CASE CompactBuildPart(c)
  <2>1. PICK E \in SUBSET UNION { disk[i] : i \in Range(r.files) } :
          compaction' = [compaction EXCEPT ![c] = [r EXCEPT !.pc = "built", !.entries = E]]
    BY <1>p DEF CompactBuildPart
  <2>2. Range(r.files) \subseteq FileIds
    BY <1>r DEF FileLists, Range
  <2>3. E \subseteq BoundedEntry /\ BoundedEntry \subseteq Entry
    BY <2>2 DEF BoundedEntry
  <2> DEFINE s == [r EXCEPT !.pc = "built", !.entries = E]
  <2>4. s \in CompactionRec /\ s.entries \subseteq BoundedEntry
    BY <1>r, <2>3 DEF CompactionRec
  <2> HIDE DEF s
  <2>5. /\ compaction' \in [Compactors -> CompactionRec]
        /\ \A d \in Compactors : compaction'[d].entries \subseteq BoundedEntry
    BY <2>1, <2>4, GoroutineTypes DEF s
  <2> QED  BY <1>p, <2>5, TypesFromParts
           DEF CompactBuildPart, lists, history, manifestFile
<1>i. NoCompaction \in CompactionRec /\ NoCompaction.entries \subseteq BoundedEntry
  BY IdleTypes DEF CompactionRec
<1>4. CASE CompactBuildFails(c)
  BY <1>4, <1>i, GoroutineTypes, TypesFromParts
  DEF CompactBuildFails, CompactReturns, lists, files, history, manifestFile
<1>5. CASE CompactCreate(c) \/ CompactCreateFails(c)
  <2> DEFINE s == [r EXCEPT !.pc = "created", !.entries = {},
                            !.file = manifest.nextFileId]
  <2>1. PICK S \in SUBSET BoundedEntry : \E whole \in BOOLEAN : WriteNewFile(S, whole)
    BY <1>5, <1>r DEF CompactCreate, CompactCreateFails
  <2>3. /\ manifest.nextFileId \in FileIds
        /\ manifest' \in [nextFileId : 0 .. MaxFileId + 1, fileNames : FileLists]
        /\ existing' \subseteq FileIds /\ garbled' \subseteq existing'
        /\ disk' \in [FileIds -> SUBSET Entry]
        /\ \A i \in FileIds : disk'[i] \subseteq BoundedEntry
    BY <2>1, NewFileTypes
  <2>4. s \in CompactionRec /\ s.entries \subseteq BoundedEntry
    BY <1>r, <2>3 DEF CompactionRec
  <2>5. compaction' = [compaction EXCEPT ![c] = s]
    BY <1>5 DEF CompactCreate, CompactCreateFails
  <2> HIDE DEF s
  <2> QED  BY <1>5, <2>3, <2>4, <2>5, GoroutineTypes, TypesFromParts
           DEF CompactCreate, CompactCreateFails, lists, history, manifestFile
<1>6. CASE CompactSwap(c)
  <2> DEFINE s == [r EXCEPT !.pc = "swapped"]
             kept == Kept(firstLevelFiles, Range(r.files))
             new == <<r.file>> \o kept
  <2>1. s \in CompactionRec /\ s.entries = r.entries
    BY <1>r DEF CompactionRec
  <2>2. compaction' = [compaction EXCEPT ![c] = s]
    BY <1>6 DEF CompactSwap
  <2>3. new \in FileLists
    <3>1. kept \in Seq(FileIds)
      BY KeptMembers DEF FileLists
    <3> HIDE DEF kept
    <3> QED  BY <1>r, <3>1, ListMembers DEF FileLists
  <2>4. /\ firstLevelFiles' = new /\ indexBlocks' = new /\ indexOffsets' = new
        /\ manifest' = [manifest EXCEPT !.fileNames = new]
    BY <1>6 DEF CompactSwap, ListsAgree
  <2>7. /\ diskManifest' \in {manifest', diskManifest, EmptyManifest}
        /\ saved' \in SaveStates
    BY <1>6, SavedManifest DEF CompactSwap
  <2> HIDE DEF s, new
  <2>5. manifest' \in [nextFileId : 0 .. MaxFileId + 1, fileNames : FileLists]
    BY <2>3, <2>4
  <2>6. /\ compaction' \in [Compactors -> CompactionRec]
        /\ \A d \in Compactors : compaction'[d].entries \subseteq BoundedEntry
    BY <1>r, <2>1, <2>2, GoroutineTypes
  <2> QED  BY <1>6, <2>3, <2>4, <2>5, <2>6, <2>7, IdleTypes, TypesFromParts
           DEF CompactSwap, files, history
<1>7. CASE CompactDelete(c)
  <2> DEFINE s == [r EXCEPT !.files = Tail(r.files)]
  <2>1. Head(r.files) \in FileIds /\ Tail(r.files) \in FileLists
    BY <1>7, <1>r DEF CompactDelete, FileLists
  <2>2. s \in CompactionRec /\ s.entries = r.entries
    BY <1>r, <2>1 DEF CompactionRec
  <2>3. compaction' = [compaction EXCEPT ![c] = s]
    BY <1>7 DEF CompactDelete
  <2>4. /\ existing' \subseteq FileIds /\ garbled' \subseteq existing'
        /\ disk' \in [FileIds -> SUBSET Entry]
        /\ \A i \in FileIds : disk'[i] \subseteq BoundedEntry
    BY <1>7, <2>1 DEF CompactDelete
  <2> HIDE DEF s
  <2>5. /\ compaction' \in [Compactors -> CompactionRec]
        /\ \A d \in Compactors : compaction'[d].entries \subseteq BoundedEntry
    BY <1>r, <2>2, <2>3, GoroutineTypes
  <2> QED  BY <1>7, <2>4, <2>5, TypesFromParts
           DEF CompactDelete, lists, history, manifestFile
<1>8. CASE CompactEnd(c)
  BY <1>8, <1>i, GoroutineTypes, TypesFromParts
  DEF CompactEnd, CompactReturns, lists, files, history, manifestFile
<1> QED  BY <1>1, <1>2, <1>3, <1>p, <1>4, <1>5, <1>6, <1>7, <1>8

\* Crashes and restarts.
LEMMA RestartTypes ==
  ASSUME TypeInv,
         \/ Crash \/ CrashInSave \/ NewSsTable
         \/ \E c \in Compactors : CompactPanics(c)
  PROVE  TypeInv'
<1> USE Parts
<1>1. ASSUME GoDown, crashes' \in 0 .. MaxCrashes,
             diskManifest' = diskManifest \/ diskManifest' = EmptyManifest,
             saved' = saved \/ saved' = "stale"
      PROVE  TypeInv'
  <2>1. /\ flush' \in [Flushers -> FlushRec]
        /\ compaction' \in [Compactors -> CompactionRec]
        /\ \A c \in Compactors : compaction'[c].entries \subseteq BoundedEntry
    BY <1>1, IdleTypes DEF GoDown, FlushRec, CompactionRec
  <2>2. <<>> \in FileLists
    BY DEF FileLists
  <2>3. saved' \in SaveStates
    BY <1>1 DEF SaveStates
  <2> QED  BY <1>1, <2>1, <2>2, <2>3, IdleTypes, TypesFromParts
           DEF GoDown, files, history
<1>2. CASE Crash \/ CrashInSave
  BY <1>1, <1>2, SsTableAssumption DEF Crash, CrashInSave, manifestFile
<1>3. ASSUME NEW c \in Compactors, CompactPanics(c) PROVE TypeInv'
  BY <1>1, <1>3 DEF CompactPanics, manifestFile
<1>4. CASE NewSsTable
  <2>1. saved' \in SaveStates /\ damaged' \in BOOLEAN
    BY <1>4 DEF NewSsTable, SaveStates
  <2> QED  BY <1>4, <2>1, TypesFromParts DEF NewSsTable, history
<1> QED  BY <1>2, <1>3, <1>4

-------------------------------------------------------------------------------
(***************************************************************************)
(* The parallel lists                                                      *)
(***************************************************************************)

\* Every step keeps the four lists equal.
LEMMA ListsStep ==
  ASSUME TypeInv, ListsAgree, [AnyStep]_vars
  PROVE  ListsAgree'
<1>1. ASSUME UNCHANGED <<lists, manifest.fileNames, manifestFile, up>>
      PROVE  ListsAgree'
  BY <1>1 DEF ListsAgree, lists, manifestFile
<1>2. manifest \in [nextFileId : 0 .. MaxFileId + 1, fileNames : FileLists]
  BY Parts
<1>3. ASSUME NEW S, NEW whole, WriteNewFile(S, whole)
      PROVE  UNCHANGED manifest.fileNames
  BY <1>2, <1>3 DEF WriteNewFile, TakeFileId
<1>4. ASSUME NEW f \in Flushers,
             \/ \E S \in SUBSET BoundedEntry : FlushWrite(f, S) \/ FlushWriteFails(f, S)
             \/ FlushOpenFails(f)
             \/ \E min \in MinActiveTxnIds : FlushCheck(f, min)
      PROVE  ListsAgree'
  BY <1>1, <1>2, <1>3, <1>4
  DEF FlushWrite, FlushOpenFails, FlushWriteFails, FlushCheck, TakeFileId
<1>5. ASSUME NEW f \in Flushers, FlushInstall(f)
      PROVE  ListsAgree'
  <2>1. saved' = "whole" => diskManifest' = manifest'
    BY <1>5, Parts, SavedManifest DEF FlushInstall
  <2> QED  BY <1>2, <1>5, <2>1 DEF FlushInstall, ListsAgree
<1>6. ASSUME NEW c \in Compactors,
             \/ CompactBegin(c) \/ CompactCopy(c) \/ CompactBuild(c)
             \/ CompactBuildPart(c) \/ CompactBuildFails(c)
             \/ CompactCreate(c) \/ CompactCreateFails(c)
             \/ CompactDelete(c) \/ CompactEnd(c)
      PROVE  ListsAgree'
  BY <1>1, <1>3, <1>6
  DEF CompactBegin, CompactCopy, CompactBuild, CompactBuildPart, CompactBuildFails,
      CompactCreate, CompactCreateFails, CompactDelete, CompactEnd
<1>7. ASSUME NEW c \in Compactors, CompactSwap(c)
      PROVE  ListsAgree'
  <2> DEFINE new == <<compaction[c].file>>
                      \o Kept(firstLevelFiles, Range(compaction[c].files))
  <2>1. /\ firstLevelFiles' = new /\ indexBlocks' = new /\ indexOffsets' = new
        /\ manifest' = [manifest EXCEPT !.fileNames = new]
    BY <1>7 DEF CompactSwap, ListsAgree
  <2>2. saved' = "whole" => diskManifest' = manifest'
    BY <1>7, Parts, SavedManifest DEF CompactSwap
  <2> HIDE DEF new
  <2> QED  BY <1>2, <2>1, <2>2 DEF ListsAgree
<1>8. CASE \/ Crash \/ CrashInSave \/ NewSsTable
           \/ \E c \in Compactors : CompactPanics(c)
  BY <1>8 DEF Crash, CrashInSave, NewSsTable, CompactPanics, GoDown, ListsAgree
<1>9. CASE UNCHANGED vars
  BY <1>1, <1>9 DEF vars
<1> QED  BY <1>4, <1>5, <1>6, <1>7, <1>8, <1>9 DEF AnyStep, AnyFlush, CompactStep

\* A step keeps the types.
LEMMA TypesStep ==
  ASSUME TypeInv, ListsAgree, [AnyStep]_vars
  PROVE  TypeInv'
<1>1. CASE UNCHANGED vars
  BY <1>1, Parts, TypesFromParts DEF vars, lists, files, history, manifestFile
<1>2. CASE AnyStep
  BY <1>2, FlushTypes, CompactionTypes, RestartTypes DEF AnyStep, CompactStep
<1> QED  BY <1>1, <1>2

\* The types and the lists hold at first.
LEMMA InitialLists ==
  ASSUME Init
  PROVE  TypeInv /\ ListsAgree
<1>1. /\ flush \in [Flushers -> FlushRec] /\ compaction \in [Compactors -> CompactionRec]
      /\ \A c \in Compactors : compaction[c].entries \subseteq BoundedEntry
  BY IdleTypes DEF Init, FlushRec, CompactionRec
<1>2. <<>> \in FileLists
  BY DEF FileLists
<1>3. ListsAgree
  BY IdleTypes DEF Init, ListsAgree
<1>4. TypeOK
  <2>1. disk \in [FileIds -> SUBSET Entry] /\ 0 \in 0 .. MaxCrashes
    BY SsTableAssumption DEF Init
  <2>2. /\ manifest \in [nextFileId : 0 .. MaxFileId + 1, fileNames : FileLists]
        /\ diskManifest \in [nextFileId : 0 .. MaxFileId + 1, fileNames : FileLists]
    BY IdleTypes DEF Init
  <2> QED  BY <1>1, <1>2, <2>1, <2>2 DEF Init, TypeOK, FlushRec, CompactionRec
<1>5. EntriesBounded
  BY <1>1 DEF Init, EntriesBounded
<1> QED  BY <1>3, <1>4, <1>5 DEF TypeInv

\* The types and the lists together are inductive.
LEMMA ListsInvariant == Spec => [](TypeInv /\ ListsAgree)
<1>1. Init => TypeInv /\ ListsAgree
  BY InitialLists
<1>2. TypeInv /\ ListsAgree /\ [Next]_vars => (TypeInv /\ ListsAgree)'
  BY NextIsAnyStep, TypesStep, ListsStep
<1> QED  BY <1>1, <1>2, PTL DEF Spec

\* Every variable keeps its type through flushes, overlapping compactions,
\* failed writes, crashes and restarts; in particular no step leaves one of
\* the lists with a position that names no file.
THEOREM SsTableTypeCorrect == Spec => []TypeOK
<1>1. TypeInv /\ ListsAgree => TypeOK
  BY DEF TypeInv
<1> QED  BY <1>1, ListsInvariant, PTL

\* firstLevelFiles, indexBlocks, indexOffsets and the manifest in memory name
\* the same files in the same order, whatever fails: Write, atomicSwap and
\* NewSsTable update them together, however they interleave.  manifest.json
\* names them too, unless the last saveManifest failed; after one that
\* succeeds it does again.
THEOREM ListsStayAligned == Spec => []ListsAgree
<1>1. TypeInv /\ ListsAgree => ListsAgree
  OBVIOUS
<1> QED  BY <1>1, ListsInvariant, PTL

-------------------------------------------------------------------------------
(***************************************************************************)
(* The files that manifest.json names                                      *)
(***************************************************************************)

\* i is in the list, or in the list that a compaction copied and has still
\* to remove.
Referenced(i) ==
  \/ i \in Range(firstLevelFiles)
  \/ \E c \in Compactors : i \in Range(compaction[c].files)

Below(n) == 0 .. n - 1

\* A file that is written and not yet in the list: it is in the directory,
\* its id is used up and nobody refers to it.
Fresh(i) ==
  i \in existing /\ i \in Below(manifest.nextFileId) /\ ~Referenced(i)

ListedExist ==
  \A i \in Range(firstLevelFiles) : i \in existing /\ i \in Below(manifest.nextFileId)

CopiedBelow ==
  \A c \in Compactors : \A i \in Range(compaction[c].files) :
    i \in Below(manifest.nextFileId)

FlushedFresh ==
  \A f \in Flushers : flush[f].pc = "written" =>
    /\ Fresh(flush[f].file)
    /\ \A g \in Flushers : flush[g].pc = "written" /\ flush[g].file = flush[f].file
                            => g = f

CompactedFresh ==
  \A c \in Compactors : compaction[c].pc = "created" =>
    /\ Fresh(compaction[c].file)
    /\ \A d \in Compactors : compaction[d].pc = "created"
                              /\ compaction[d].file = compaction[c].file => d = c
    /\ \A f \in Flushers : flush[f].pc = "written" => flush[f].file # compaction[c].file

\* What a compaction removes is no longer in the list.
SwappedGone ==
  \A c \in Compactors : compaction[c].pc = "swapped" =>
    Range(compaction[c].files) \cap Range(firstLevelFiles) = {}

DownIdle ==
  ~up => /\ \A f \in Flushers : flush[f].pc = "idle"
         /\ \A c \in Compactors : compaction[c] = NoCompaction
         /\ firstLevelFiles = <<>>

NamedBelow == Range(diskManifest.fileNames) \subseteq Below(diskManifest.nextFileId)

FileInv ==
  /\ ListedExist /\ CopiedBelow /\ FlushedFresh /\ CompactedFresh
  /\ SwappedGone /\ DownIdle /\ NamedBelow /\ ManifestFilesExist

\* An empty list has no members.
LEMMA EmptyList == Range(<<>>) = {}
BY DEF Range

\* The next file id is a number.
LEMMA NextId ==
  ASSUME TypeInv
  PROVE  manifest.nextFileId \in Nat
BY Parts, SsTableAssumption

\* A step that at most uses up ids, creates files, takes goroutines out of
\* "written" and "created" and makes a compaction refer to listed files.
LEMMA QuietStep ==
  ASSUME TypeInv, TypeInv', FileInv, up, up', firstLevelFiles' = firstLevelFiles,
         diskManifest' = diskManifest, saved' = saved, existing \subseteq existing',
         manifest.nextFileId <= manifest'.nextFileId,
         \A c \in Compactors :
           /\ Range(compaction'[c].files)
                \subseteq Range(compaction[c].files) \cup Range(firstLevelFiles)
           /\ compaction'[c].pc = "created" =>
                compaction[c].pc = "created" /\ compaction'[c].file = compaction[c].file
           /\ compaction'[c].pc = "swapped" =>
                /\ compaction[c].pc = "swapped"
                /\ Range(compaction'[c].files) \subseteq Range(compaction[c].files),
         \A f \in Flushers : flush'[f].pc = "written" =>
           flush[f].pc = "written" /\ flush'[f].file = flush[f].file
  PROVE  FileInv'
<1>1. manifest.nextFileId \in Nat /\ manifest'.nextFileId \in Nat
  <2>1. \A n \in 0 .. MaxFileId + 1 : n \in Nat
    OBVIOUS
  <2>2. /\ manifest.nextFileId \in 0 .. MaxFileId + 1
        /\ manifest'.nextFileId \in 0 .. MaxFileId + 1
    BY DEF TypeInv, TypeOK
  <2> QED  BY <2>1, <2>2
<1>2. \A i : i \in Below(manifest.nextFileId) => i \in Below(manifest'.nextFileId)
  BY <1>1 DEF Below
<1> HIDE DEF Below
<1>3. ASSUME NEW i, Referenced(i)' PROVE Referenced(i)
  BY <1>3 DEF Referenced
<1>4. ASSUME NEW i, Fresh(i) PROVE Fresh(i)'
  BY <1>2, <1>3, <1>4 DEF Fresh
<1>5. ListedExist'
  BY <1>2 DEF FileInv, ListedExist
<1>6. CopiedBelow'
  BY <1>2 DEF FileInv, ListedExist, CopiedBelow
<1>7. FlushedFresh'
  BY <1>4 DEF FileInv, FlushedFresh
<1>8. CompactedFresh'
  BY <1>4 DEF FileInv, CompactedFresh
<1>9. SwappedGone'
  BY DEF FileInv, SwappedGone
<1>10. DownIdle' /\ NamedBelow' /\ ManifestFilesExist'
  BY DEF FileInv, DownIdle, NamedBelow, ManifestFilesExist
<1> QED  BY <1>5, <1>6, <1>7, <1>8, <1>9, <1>10 DEF FileInv

\* A new file is fresh, and no file that was pending has its id.
LEMMA NewFileIsFresh ==
  ASSUME TypeInv, FileInv, NEW S \in SUBSET BoundedEntry, NEW whole,
         WriteNewFile(S, whole), firstLevelFiles' = firstLevelFiles,
         \A c \in Compactors : compaction'[c].files = compaction[c].files
  PROVE  /\ \A i : i = manifest.nextFileId => Fresh(i)'
         /\ \A i : Fresh(i) => Fresh(i)' /\ i # manifest.nextFileId
         /\ ListedExist' /\ CopiedBelow'
<1> DEFINE id == manifest.nextFileId
<1>1. id \in Nat
  BY NextId
<1>2. manifest'.nextFileId = id + 1 /\ existing' = existing \cup {id}
  BY NewFileTypes
<1>3. /\ id \notin Below(id) /\ id \in Below(manifest'.nextFileId)
      /\ \A i : i \in Below(id) => i \in Below(manifest'.nextFileId)
  BY <1>1, <1>2 DEF Below
<1>4. \A i : Referenced(i)' <=> Referenced(i)
  BY DEF Referenced
<1>5. ~Referenced(id)
  BY <1>3 DEF FileInv, ListedExist, CopiedBelow, Referenced
<1> HIDE DEF Below
<1>6. /\ \A i : i = id => Fresh(i)'
      /\ \A i : Fresh(i) => Fresh(i)' /\ i # id
  BY <1>2, <1>3, <1>4, <1>5 DEF Fresh
<1>7. ListedExist' /\ CopiedBelow'
  BY <1>2, <1>3 DEF FileInv, ListedExist, CopiedBelow
<1> QED  BY <1>6, <1>7

\* The file a flush has written is pending.
LEMMA FlushWriteFiles ==
  ASSUME TypeInv, FileInv, NEW f \in Flushers, NEW S \in SUBSET BoundedEntry,
         FlushWrite(f, S)
  PROVE  FileInv'
<1> DEFINE id == manifest.nextFileId
<1>1. /\ WriteNewFile(S, TRUE) /\ up /\ up'
      /\ firstLevelFiles' = firstLevelFiles /\ compaction' = compaction
      /\ diskManifest' = diskManifest /\ saved' = saved
      /\ flush' = [flush EXCEPT ![f] = [pc |-> "written", file |-> id]]
  BY DEF FlushWrite, lists, manifestFile
<1>2. /\ ListedExist' /\ CopiedBelow'
      /\ \A i : i = id => Fresh(i)'
      /\ \A i : Fresh(i) => Fresh(i)' /\ i # id
  BY <1>1, NewFileIsFresh
<1>3. /\ flush'[f].pc = "written" /\ flush'[f].file = id
      /\ \A g \in Flushers : g # f => flush'[g] = flush[g]
  BY <1>1, Parts
<1> HIDE DEF id
<1>4. FlushedFresh'
  <2>1. \A g \in Flushers : g # f /\ flush'[g].pc = "written" =>
          Fresh(flush[g].file) /\ flush'[g].file = flush[g].file
    BY <1>3 DEF FileInv, FlushedFresh
  <2> QED  BY <1>2, <1>3, <2>1 DEF FileInv, FlushedFresh
<1>5. CompactedFresh'
  BY <1>1, <1>2, <1>3 DEF FileInv, CompactedFresh
<1>6. SwappedGone' /\ DownIdle' /\ NamedBelow'
  BY <1>1 DEF FileInv, SwappedGone, DownIdle, NamedBelow
<1>7. ManifestFilesExist'
  BY <1>1, NewFileTypes DEF FileInv, ManifestFilesExist
<1> QED  BY <1>2, <1>4, <1>5, <1>6, <1>7 DEF FileInv

\* The compacted file is pending.
LEMMA CompactCreateFiles ==
  ASSUME TypeInv, FileInv, NEW c \in Compactors,
         CompactCreate(c) \/ CompactCreateFails(c)
  PROVE  FileInv'
<1> DEFINE id == manifest.nextFileId
<1>1. /\ up /\ up' /\ compaction[c].pc = "built"
      /\ firstLevelFiles' = firstLevelFiles /\ flush' = flush
      /\ diskManifest' = diskManifest /\ saved' = saved
  <2>1. /\ up /\ compaction[c].pc = "built"
        /\ UNCHANGED <<lists, flush, manifestFile, up>>
    BY Zenon DEF CompactCreate, CompactCreateFails
  <2> QED  BY <2>1 DEF lists, manifestFile
<1>2. PICK S \in SUBSET BoundedEntry : \E whole \in BOOLEAN : WriteNewFile(S, whole)
  BY Parts DEF CompactCreate, CompactCreateFails
<1>3. /\ compaction'[c].pc = "created" /\ compaction'[c].file = id
      /\ compaction'[c].files = compaction[c].files
      /\ \A d \in Compactors : d # c => compaction'[d] = compaction[d]
  <2>1. compaction' = [compaction EXCEPT ![c].pc = "created", ![c].entries = {},
                                         ![c].file = id]
    BY Zenon DEF CompactCreate, CompactCreateFails
  <2>2. compaction \in [Compactors -> CompactionRec]
    BY Parts
  <2> QED  BY <2>1, <2>2 DEF CompactionRec
<1>4. \A d \in Compactors : compaction'[d].files = compaction[d].files
  BY <1>3
<1>5. /\ ListedExist' /\ CopiedBelow'
      /\ \A i : i = id => Fresh(i)'
      /\ \A i : Fresh(i) => Fresh(i)' /\ i # id
  BY <1>1, <1>2, <1>4, NewFileIsFresh
<1>6. existing \subseteq existing'
  BY <1>2, NewFileTypes
<1> HIDE DEF id
<1>7. FlushedFresh'
  BY <1>1, <1>5 DEF FileInv, FlushedFresh
<1>8. CompactedFresh'
  <2>1. \A d \in Compactors : d # c /\ compaction'[d].pc = "created" =>
          Fresh(compaction[d].file) /\ compaction'[d].file = compaction[d].file
    BY <1>3 DEF FileInv, CompactedFresh
  <2>2. \A f \in Flushers : flush'[f].pc = "written" => flush'[f].file # id
    BY <1>1, <1>5 DEF FileInv, FlushedFresh
  <2> QED  BY <1>1, <1>3, <1>4, <1>5, <2>1, <2>2 DEF FileInv, CompactedFresh
<1>9. SwappedGone'
  BY <1>1, <1>3, <1>4 DEF FileInv, SwappedGone
<1>10. DownIdle' /\ NamedBelow' /\ ManifestFilesExist'
  BY <1>1, <1>6 DEF FileInv, DownIdle, NamedBelow, ManifestFilesExist
<1> QED  BY <1>5, <1>7, <1>8, <1>9, <1>10 DEF FileInv

\* Write moves its pending file to the list.
LEMMA FlushInstallFiles ==
  ASSUME TypeInv, TypeInv', ListsAgree, FileInv, NEW f \in Flushers, FlushInstall(f)
  PROVE  FileInv'
<1> DEFINE id == flush[f].file
<1>1. /\ up /\ up' /\ flush[f].pc = "written"
      /\ compaction' = compaction /\ existing' = existing
      /\ firstLevelFiles' = Append(firstLevelFiles, id)
      /\ manifest' = [manifest EXCEPT !.fileNames = Append(manifest.fileNames, id)]
      /\ saveManifest
      /\ flush' = [flush EXCEPT ![f] = [flush[f] EXCEPT !.pc = "checking"]]
  BY DEF FlushInstall, files
<1>2. /\ flush'[f].pc = "checking"
      /\ \A g \in Flushers : g # f => flush'[g] = flush[g]
  BY <1>1, Parts DEF FlushRec
<1>3. manifest'.nextFileId = manifest.nextFileId
      /\ manifest'.fileNames = firstLevelFiles'
  BY <1>1, Parts DEF ListsAgree
<1>4. Range(firstLevelFiles') = Range(firstLevelFiles) \cup {id}
  <2>1. firstLevelFiles \in Seq(FileIds) /\ id \in FileIds
    BY Parts DEF FileLists, FlushRec
  <2> QED  BY <1>1, <2>1, ListMembers
<1>5. Fresh(id)
  BY <1>1 DEF FileInv, FlushedFresh
<1> HIDE DEF id
<1>6. \A i : Referenced(i)' <=> Referenced(i) \/ i = id
  BY <1>1, <1>4 DEF Referenced
<1>7. \A i : Fresh(i) /\ i # id => Fresh(i)'
  BY <1>1, <1>3, <1>6 DEF Fresh
<1>8. ListedExist'
  BY <1>1, <1>3, <1>4, <1>5 DEF FileInv, ListedExist, Fresh
<1>9. CopiedBelow'
  BY <1>1, <1>3 DEF FileInv, CopiedBelow
<1>10. FlushedFresh'
  BY <1>1, <1>2, <1>7 DEF FileInv, FlushedFresh, id
<1>11. CompactedFresh'
  <2>1. \A c \in Compactors : compaction[c].pc = "created" => compaction[c].file # id
    BY <1>1 DEF FileInv, CompactedFresh, id
  <2> QED  BY <1>1, <1>2, <1>7, <2>1 DEF FileInv, CompactedFresh
<1>12. SwappedGone'
  BY <1>1, <1>4, <1>5 DEF FileInv, SwappedGone, Fresh, Referenced
<1>13. DownIdle' /\ NamedBelow' /\ ManifestFilesExist'
  <2>1. /\ diskManifest' \in {manifest', diskManifest, EmptyManifest}
        /\ saved' = "whole" => diskManifest' = manifest'
    BY <1>1, Parts, SavedManifest
  <2>2. EmptyManifest.fileNames = <<>>
    BY DEF EmptyManifest
  <2>3. Range(manifest'.fileNames) \subseteq Below(manifest'.nextFileId) \cap existing'
    BY <1>3, <1>8 DEF ListedExist
  <2> QED  BY <1>1, <1>3, <1>8, <2>1, <2>2, <2>3, EmptyList
           DEF FileInv, DownIdle, NamedBelow, ManifestFilesExist, ListedExist
<1> QED  BY <1>8, <1>9, <1>10, <1>11, <1>12, <1>13 DEF FileInv

\* atomicSwap moves the compacted file to the list and takes the old ones out.
LEMMA CompactSwapFiles ==
  ASSUME TypeInv, TypeInv', ListsAgree', FileInv, NEW c \in Compactors, CompactSwap(c)
  PROVE  FileInv'
<1> DEFINE id == compaction[c].file
           old == Range(compaction[c].files)
           kept == Kept(firstLevelFiles, old)
<1>1. /\ up /\ up' /\ compaction[c].pc = "created"
      /\ flush' = flush /\ existing' = existing
      /\ firstLevelFiles' = <<id>> \o kept
      /\ saveManifest
      /\ manifest'.nextFileId = manifest.nextFileId
  BY Parts DEF CompactSwap, files
<1>2. /\ compaction'[c].pc = "swapped"
      /\ compaction'[c].files = compaction[c].files
      /\ \A d \in Compactors : d # c => compaction'[d] = compaction[d]
  BY Parts DEF CompactSwap, CompactionRec
<1>3. Range(firstLevelFiles') = Range(kept) \cup {id}
      /\ Range(kept) \subseteq Range(firstLevelFiles) \ old
  <2>1. firstLevelFiles \in Seq(FileIds) /\ id \in FileIds
    BY Parts DEF FileLists, CompactionRec
  <2>2. kept \in Seq(FileIds) /\ Range(kept) \subseteq Range(firstLevelFiles) \ old
    BY <2>1, KeptMembers
  <2> HIDE DEF id, kept
  <2> QED  BY <1>1, <2>1, <2>2, ListMembers
<1>4. Fresh(id)
  BY <1>1 DEF FileInv, CompactedFresh
<1>5. /\ manifest'.fileNames = firstLevelFiles'
      /\ diskManifest' \in {manifest', diskManifest, EmptyManifest}
      /\ saved' = "whole" => diskManifest' = manifest'
  BY <1>1, Parts, SavedManifest DEF ListsAgree
<1> HIDE DEF id, kept
<1>6. \A i : Referenced(i)' => Referenced(i) \/ i = id
  BY <1>2, <1>3 DEF Referenced
<1>7. \A i : Fresh(i) /\ i # id => Fresh(i)'
  BY <1>1, <1>6 DEF Fresh
<1>8. ListedExist'
  BY <1>1, <1>3, <1>4 DEF FileInv, ListedExist, Fresh
<1>9. CopiedBelow'
  BY <1>1, <1>2 DEF FileInv, CopiedBelow
<1>10. FlushedFresh'
  <2>1. \A f \in Flushers : flush[f].pc = "written" => flush[f].file # id
    BY <1>1 DEF FileInv, CompactedFresh, id
  <2> QED  BY <1>1, <1>7, <2>1 DEF FileInv, FlushedFresh
<1>11. CompactedFresh'
  <2>1. \A d \in Compactors : compaction'[d].pc = "created" =>
          d # c /\ compaction'[d] = compaction[d] /\ compaction[d].file # id
    BY <1>1, <1>2 DEF FileInv, CompactedFresh, id
  <2>2. \A d \in Compactors : compaction'[d].pc = "created" =>
          Fresh(compaction[d].file) /\ compaction'[d].file = compaction[d].file
    BY <2>1 DEF FileInv, CompactedFresh
  <2>3. \A d \in Compactors : \A i : i = compaction'[d].file =>
          (compaction'[d].pc = "created" => Fresh(i)')
    BY <1>7, <2>1, <2>2
  <2>4. \A d, e \in Compactors :
          compaction'[d].pc = "created" /\ compaction'[e].pc = "created"
            /\ compaction'[e].file = compaction'[d].file => e = d
    BY <2>1 DEF FileInv, CompactedFresh
  <2>5. \A d \in Compactors, f \in Flushers :
          compaction'[d].pc = "created" /\ flush'[f].pc = "written"
            => flush'[f].file # compaction'[d].file
    BY <1>1, <2>1 DEF FileInv, CompactedFresh
  <2> QED  BY <2>3, <2>4, <2>5 DEF CompactedFresh
<1>12. SwappedGone'
  <2>1. ASSUME NEW d \in Compactors, compaction'[d].pc = "swapped"
        PROVE  Range(compaction'[d].files) \cap Range(firstLevelFiles') = {}
    <3>1. id \notin Range(compaction[d].files)
      BY <1>4 DEF Fresh, Referenced
    <3>2. CASE d = c
      BY <1>2, <1>3, <3>1, <3>2
    <3>3. CASE d # c
      BY <1>2, <1>3, <2>1, <3>1, <3>3 DEF FileInv, SwappedGone
    <3> QED  BY <3>2, <3>3
  <2> QED  BY <2>1 DEF SwappedGone
<1>13. DownIdle' /\ NamedBelow' /\ ManifestFilesExist'
  <2>1. EmptyManifest.fileNames = <<>>
    BY DEF EmptyManifest
  <2>2. Range(manifest'.fileNames) \subseteq Below(manifest'.nextFileId) \cap existing'
    BY <1>5, <1>8 DEF ListedExist
  <2> QED  BY <1>1, <1>5, <1>8, <2>1, <2>2, EmptyList
           DEF FileInv, DownIdle, NamedBelow, ManifestFilesExist, ListedExist
<1> QED  BY <1>8, <1>9, <1>10, <1>11, <1>12, <1>13 DEF FileInv

\* A file that RunCompaction removes is neither listed nor pending.
LEMMA CompactDeleteFiles ==
  ASSUME TypeInv, ListsAgree, FileInv, NEW c \in Compactors, CompactDelete(c)
  PROVE  FileInv'
<1> DEFINE gone == Head(compaction[c].files)
<1>1. /\ up /\ up' /\ compaction[c].pc = "swapped" /\ compaction[c].files # <<>>
      /\ flush' = flush /\ existing' = existing \ {gone}
      /\ firstLevelFiles' = firstLevelFiles /\ manifest' = manifest
      /\ diskManifest' = diskManifest /\ saved' = saved
  BY DEF CompactDelete, lists, manifestFile
<1>2. compaction[c].files \in Seq(FileIds)
  BY Parts DEF FileLists, CompactionRec
<1>3. gone \in Range(compaction[c].files)
      /\ Range(Tail(compaction[c].files)) \subseteq Range(compaction[c].files)
  BY <1>1, <1>2 DEF Range
<1>4. /\ compaction'[c].pc = "swapped"
      /\ compaction'[c].files = Tail(compaction[c].files)
      /\ \A d \in Compactors : d # c => compaction'[d] = compaction[d]
  BY Parts DEF CompactDelete, CompactionRec
<1> HIDE DEF gone
<1>5. \A d \in Compactors : Range(compaction'[d].files) \subseteq Range(compaction[d].files)
  BY <1>3, <1>4
<1>6. \A i : Fresh(i) => Fresh(i)'
  BY <1>1, <1>3, <1>5 DEF Fresh, Referenced
<1>7. gone \notin Range(firstLevelFiles)
  BY <1>1, <1>3 DEF FileInv, SwappedGone
<1>8. ListedExist' /\ CopiedBelow'
  BY <1>1, <1>5, <1>7 DEF FileInv, ListedExist, CopiedBelow
<1>9. FlushedFresh'
  BY <1>1, <1>6 DEF FileInv, FlushedFresh
<1>10. CompactedFresh'
  <2>1. \A d \in Compactors : compaction'[d].pc = "created" =>
          d # c /\ compaction'[d] = compaction[d]
    BY <1>4
  <2> QED  BY <1>1, <1>6, <2>1 DEF FileInv, CompactedFresh
<1>11. SwappedGone'
  <2>1. \A d \in Compactors : compaction'[d].pc = "swapped" => compaction[d].pc = "swapped"
    BY <1>1, <1>4
  <2> QED  BY <1>1, <1>5, <2>1 DEF FileInv, SwappedGone
<1>12. DownIdle' /\ NamedBelow' /\ ManifestFilesExist'
  BY <1>1, <1>7 DEF FileInv, DownIdle, NamedBelow, ManifestFilesExist, ListsAgree
<1> QED  BY <1>8, <1>9, <1>10, <1>11, <1>12 DEF FileInv

\* The process ends, in whatever state its goroutines are, with the manifest
\* intact or emptied.
LEMMA GoDownFiles ==
  ASSUME TypeInv, FileInv, GoDown,
         diskManifest' = EmptyManifest \/ (diskManifest' = diskManifest /\ saved' = saved)
  PROVE  FileInv'
<1>1. /\ ~up' /\ firstLevelFiles' = <<>> /\ existing' = existing
      /\ \A f \in Flushers : flush'[f] = Idle
      /\ \A c \in Compactors : compaction'[c] = NoCompaction
  BY DEF GoDown, files
<1>2. Idle.pc = "idle" /\ NoCompaction.pc = "idle" /\ NoCompaction.files = <<>>
      /\ EmptyManifest.fileNames = <<>>
  BY DEF Idle, NoCompaction, EmptyManifest
<1>3. ListedExist' /\ CopiedBelow' /\ SwappedGone' /\ DownIdle'
  BY <1>1, <1>2, EmptyList DEF ListedExist, CopiedBelow, SwappedGone, DownIdle
<1>4. FlushedFresh' /\ CompactedFresh'
  BY <1>1, <1>2 DEF FlushedFresh, CompactedFresh
<1>5. NamedBelow' /\ ManifestFilesExist'
  BY <1>1, <1>2, EmptyList DEF FileInv, NamedBelow, ManifestFilesExist
<1> QED  BY <1>3, <1>4, <1>5 DEF FileInv

\* NewSsTable takes over the list of the manifest.
LEMMA NewSsTableFiles ==
  ASSUME TypeInv, FileInv, NewSsTable
  PROVE  FileInv'
<1>1. /\ ~up /\ up' /\ existing' = existing /\ flush' = flush
      /\ compaction' = compaction /\ manifest' = diskManifest
      /\ diskManifest' = diskManifest /\ firstLevelFiles' = diskManifest.fileNames
      /\ Range(diskManifest.fileNames) \subseteq existing
  BY DEF NewSsTable
<1>2. /\ \A f \in Flushers : flush'[f].pc = "idle"
      /\ \A c \in Compactors : compaction'[c] = NoCompaction
  BY <1>1 DEF FileInv, DownIdle
<1>3. NoCompaction.pc = "idle" /\ NoCompaction.files = <<>>
  BY DEF NoCompaction
<1>4. ListedExist'
  BY <1>1 DEF FileInv, ListedExist, NamedBelow
<1>5. CopiedBelow' /\ SwappedGone' /\ DownIdle'
  BY <1>1, <1>2, <1>3, EmptyList DEF CopiedBelow, SwappedGone, DownIdle
<1>6. FlushedFresh' /\ CompactedFresh'
  BY <1>2, <1>3 DEF FlushedFresh, CompactedFresh
<1>7. NamedBelow' /\ ManifestFilesExist'
  BY <1>1 DEF FileInv, NamedBelow, ManifestFilesExist
<1> QED  BY <1>4, <1>5, <1>6, <1>7 DEF FileInv

\* The other steps are quiet.
LEMMA QuietFlushes ==
  ASSUME TypeInv, TypeInv', FileInv, NEW f \in Flushers,
         \/ FlushOpenFails(f)
         \/ \E S \in SUBSET BoundedEntry : FlushWriteFails(f, S)
         \/ \E min \in MinActiveTxnIds : FlushCheck(f, min)
  PROVE  FileInv'
<1>1. CASE FlushOpenFails(f)
  <2>1. /\ up /\ up' /\ firstLevelFiles' = firstLevelFiles /\ existing' = existing
        /\ diskManifest' = diskManifest /\ saved' = saved
        /\ flush' = flush /\ compaction' = compaction
    BY <1>1 DEF FlushOpenFails, lists, files, manifestFile
  <2>2. manifest.nextFileId <= manifest'.nextFileId
    BY <1>1, NextId, Parts DEF FlushOpenFails, TakeFileId
  <2> QED  BY <2>1, <2>2, QuietStep
<1>2. ASSUME NEW S \in SUBSET BoundedEntry, FlushWriteFails(f, S) PROVE FileInv'
  <2>1. /\ up /\ up' /\ firstLevelFiles' = firstLevelFiles
        /\ diskManifest' = diskManifest /\ saved' = saved /\ compaction' = compaction
    BY <1>2 DEF FlushWriteFails, lists, manifestFile
  <2>2. manifest.nextFileId <= manifest'.nextFileId /\ existing \subseteq existing'
    <3>1. WriteNewFile(S, FALSE)
      BY <1>2 DEF FlushWriteFails
    <3>2. manifest'.nextFileId = manifest.nextFileId + 1
          /\ existing' = existing \cup {manifest.nextFileId}
      BY <3>1, NewFileTypes
    <3> QED  BY <3>2, NextId
  <2>3. \A g \in Flushers : flush'[g].pc = "written" =>
          flush[g].pc = "written" /\ flush'[g].file = flush[g].file
    BY <1>2, Parts DEF FlushWriteFails
  <2> QED  BY <2>1, <2>2, <2>3, QuietStep
<1>3. ASSUME NEW min \in MinActiveTxnIds, FlushCheck(f, min) PROVE FileInv'
  <2>1. /\ up /\ up' /\ firstLevelFiles' = firstLevelFiles /\ existing' = existing
        /\ diskManifest' = diskManifest /\ saved' = saved /\ manifest' = manifest
    BY <1>3 DEF FlushCheck, lists, files, manifestFile
  <2>2. \A g \in Flushers : flush'[g].pc = "written" =>
          flush[g].pc = "written" /\ flush'[g].file = flush[g].file
    BY <1>3, Parts DEF FlushCheck, Idle
  <2> DEFINE r == [NoCompaction EXCEPT !.pc = "spawned", !.min = min]
  <2>3. r.pc = "spawned" /\ r.files = <<>>
    BY DEF NoCompaction
  <2>4. compaction' = compaction \/ \E c \in Compactors : compaction' = [compaction EXCEPT ![c] = r]
    BY <1>3 DEF FlushCheck
  <2> HIDE DEF r
  <2>5. \A c \in Compactors : compaction'[c] = compaction[c] \/ compaction'[c] = r
    BY <2>4, Parts
  <2> QED  BY <2>1, <2>2, <2>3, <2>5, NextId, EmptyList, QuietStep
<1> QED  BY <1>1, <1>2, <1>3

\* So are the other steps of RunCompaction.
LEMMA QuietCompactions ==
  ASSUME TypeInv, TypeInv', FileInv, NEW c \in Compactors,
         \/ CompactBegin(c) \/ CompactCopy(c) \/ CompactBuild(c)
         \/ CompactBuildPart(c) \/ CompactBuildFails(c) \/ CompactEnd(c)
  PROVE  FileInv'
<1>1. /\ up /\ up' /\ firstLevelFiles' = firstLevelFiles /\ existing' = existing
      /\ diskManifest' = diskManifest /\ saved' = saved /\ manifest' = manifest
      /\ flush' = flush
  BY DEF CompactBegin, CompactCopy, CompactBuild, CompactBuildPart, CompactBuildFails,
         CompactEnd, lists, files, manifestFile
<1>2. \A d \in Compactors : d # c => compaction'[d] = compaction[d]
  BY Parts DEF CompactBegin, CompactCopy, CompactBuild, CompactBuildPart,
               CompactBuildFails, CompactEnd, CompactReturns
<1>3. /\ compaction'[c].pc \in {"idle", "flagged", "copied", "built"}
      /\ \/ compaction'[c].files = compaction[c].files
         \/ compaction'[c].files = firstLevelFiles
         \/ compaction'[c].files = <<>>
  BY Parts DEF CompactBegin, CompactCopy, CompactBuild, CompactBuildPart,
               CompactBuildFails, CompactEnd, CompactReturns, NoCompaction, CompactionRec
<1>4. \A d \in Compactors :
        /\ Range(compaction'[d].files)
             \subseteq Range(compaction[d].files) \cup Range(firstLevelFiles)
        /\ compaction'[d].pc = "created" =>
             compaction[d].pc = "created" /\ compaction'[d].file = compaction[d].file
        /\ compaction'[d].pc = "swapped" =>
             /\ compaction[d].pc = "swapped"
             /\ Range(compaction'[d].files) \subseteq Range(compaction[d].files)
  BY <1>2, <1>3, EmptyList
<1> QED  BY <1>1, <1>4, NextId, QuietStep

\* Every step keeps the files that are still needed.
LEMMA FilesStep ==
  ASSUME TypeInv, ListsAgree, FileInv, [AnyStep]_vars
  PROVE  FileInv'
<1>1. TypeInv' /\ ListsAgree'
  BY TypesStep, ListsStep
<1>2. ASSUME NEW f \in Flushers, NEW S \in SUBSET BoundedEntry, FlushWrite(f, S)
      PROVE  FileInv'
  BY <1>2, FlushWriteFiles
<1>3. CASE UNCHANGED vars
  <2>1. /\ firstLevelFiles' = firstLevelFiles /\ existing' = existing /\ up' = up
        /\ diskManifest' = diskManifest /\ saved' = saved /\ manifest' = manifest
        /\ flush' = flush /\ compaction' = compaction
    BY <1>3 DEF vars, lists, files, manifestFile
  <2> QED  BY <2>1 DEF FileInv, ListedExist, CopiedBelow, FlushedFresh, CompactedFresh,
              SwappedGone, DownIdle, NamedBelow, ManifestFilesExist, Fresh, Referenced
<1>4. CASE \/ Crash \/ CrashInSave \/ NewSsTable
           \/ \E c \in Compactors : CompactPanics(c)
  BY <1>4, GoDownFiles, NewSsTableFiles
  DEF Crash, CrashInSave, CompactPanics, manifestFile
<1> QED  BY <1>1, <1>2, <1>3, <1>4, FlushInstallFiles, CompactCreateFiles,
            CompactSwapFiles, CompactDeleteFiles, QuietFlushes, QuietCompactions
         DEF AnyStep, AnyFlush, CompactStep

\* What the files of Spec keep, as one invariant.
LEMMA FilesInvariant == Spec => [](TypeInv /\ ListsAgree /\ FileInv)
<1>1. Init => TypeInv /\ ListsAgree /\ FileInv
  <2>1. ASSUME Init PROVE FileInv
    <3>1. /\ up /\ firstLevelFiles = <<>> /\ diskManifest.fileNames = <<>>
          /\ \A f \in Flushers : flush[f].pc = "idle"
          /\ \A c \in Compactors : compaction[c].pc = "idle" /\ compaction[c].files = <<>>
      BY <2>1 DEF Init, Idle, NoCompaction, EmptyManifest
    <3> QED  BY <3>1, EmptyList
             DEF FileInv, ListedExist, CopiedBelow, FlushedFresh, CompactedFresh,
                 SwappedGone, DownIdle, NamedBelow, ManifestFilesExist
  <2> QED  BY <2>1, InitialLists
<1>2. TypeInv /\ ListsAgree /\ FileInv /\ [Next]_vars => (TypeInv /\ ListsAgree /\ FileInv)'
  BY NextIsAnyStep, TypesStep, ListsStep, FilesStep
<1> QED  BY <1>1, <1>2, PTL DEF Spec

\* Every listed file is in the directory, and so is every file that
\* manifest.json names unless the last saveManifest failed, for any number of
\* flushes and compactions that overlap, of failures and of crashes, one in
\* the middle of saveManifest included: RunCompaction removes only files that
\* atomicSwap has taken out of the list, and no file id that is still referred
\* to is handed out again.
THEOREM ManifestStaysReadable == Spec => []ManifestFilesExist
<1>1. TypeInv /\ ListsAgree /\ FileInv => ManifestFilesExist
  BY DEF FileInv
<1> QED  BY <1>1, FilesInvariant, PTL

-------------------------------------------------------------------------------
(***************************************************************************)
(* The compacting flag                                                     *)
(***************************************************************************)

\* The flag is reset whatever way RunCompaction returns: when none runs, the
\* next flush that finds enough files starts one, even after compactions that
\* overlapped, failed or were cut off by a crash.
THEOREM CompactionCanStartAgain == Spec => []FlagReset
<1> DEFINE Runs(c) == compaction[c].pc \notin {"idle", "spawned"}
<1>1. Init => FlagReset
  BY DEF Init, FlagReset
<1>2. ASSUME TypeInv, FlagReset, [Next]_vars
      PROVE  FlagReset'
  <2> SUFFICES ASSUME compacting' PROVE \E c \in Compactors : Runs(c)'
    BY DEF FlagReset
  <2>1. ASSUME compacting' = compacting, UNCHANGED compaction
        PROVE  \E c \in Compactors : Runs(c)'
    BY <1>2, <2>1 DEF FlagReset
  <2>2. ASSUME compacting' = compacting, NEW d \in Compactors,
               \A c \in Compactors : c # d => compaction'[c] = compaction[c],
               Runs(d) => Runs(d)'
        PROVE  \E c \in Compactors : Runs(c)'
    <3>1. PICK c \in Compactors : Runs(c)
      BY <1>2, <2>2 DEF FlagReset
    <3>2. CASE c = d
      BY <2>2, <3>1, <3>2
    <3>3. CASE c # d
      BY <2>2, <3>1, <3>3
    <3> QED  BY <3>2, <3>3
  <2>3. ASSUME NEW f \in Flushers,
               \/ \E S \in Memtables(NextTxn) : FlushWrite(f, S) \/ FlushWriteFails(f, S)
               \/ FlushOpenFails(f) \/ FlushInstall(f)
        PROVE  \E c \in Compactors : Runs(c)'
    BY <2>1, <2>3 DEF FlushWrite, FlushOpenFails, FlushWriteFails, FlushInstall
  <2>4. ASSUME NEW f \in Flushers, NEW min \in MinActiveTxnIds, FlushCheck(f, min)
        PROVE  \E c \in Compactors : Runs(c)'
    <3>1. compacting' = compacting
      BY <2>4 DEF FlushCheck
    <3>2. CASE UNCHANGED compaction
      BY <2>1, <3>1, <3>2
    <3>3. CASE ~UNCHANGED compaction
      <4>1. PICK d \in Compactors :
              /\ compaction[d].pc = "idle"
              /\ compaction' = [compaction EXCEPT ![d] =
                    [NoCompaction EXCEPT !.pc = "spawned", !.min = min]]
        BY <2>4, <3>3 DEF FlushCheck
      <4>2. \A c \in Compactors : c # d => compaction'[c] = compaction[c]
        BY <4>1, <1>2, Parts
      <4> QED  BY <2>2, <3>1, <4>1, <4>2
    <3> QED  BY <3>2, <3>3
  <2>5. ASSUME NEW d \in Compactors, CompactStep(d), ~CompactPanics(d)
        PROVE  \E c \in Compactors : Runs(c)'
    <3>1. CASE CompactBegin(d)
      <4>1. compaction'[d].pc = "flagged"
        BY <1>2, <3>1, Parts DEF CompactBegin, CompactionRec
      <4> QED  BY <4>1
    <3>2. CASE CompactBuildFails(d) \/ CompactEnd(d)
      BY <3>2 DEF CompactBuildFails, CompactEnd, CompactReturns
    <3>3. CASE \/ CompactCopy(d) \/ CompactBuild(d) \/ CompactBuildPart(d) \/ CompactCreate(d)
               \/ CompactCreateFails(d) \/ CompactSwap(d) \/ CompactDelete(d)
      <4>1. compaction'[d].pc \in {"copied", "built", "created", "swapped"}
        <5>1. CASE CompactCopy(d) \/ CompactSwap(d)
          BY <1>2, <5>1, Parts DEF CompactCopy, CompactSwap, CompactionRec
        <5>2. CASE CompactBuild(d) \/ CompactBuildPart(d)
          BY <1>2, <5>2, Parts DEF CompactBuild, CompactBuildPart, CompactionRec
        <5>3. CASE CompactCreate(d) \/ CompactCreateFails(d)
          BY <1>2, <5>3, Parts DEF CompactCreate, CompactCreateFails, CompactionRec
        <5>4. CASE CompactDelete(d)
          BY <1>2, <5>4, Parts DEF CompactDelete, CompactionRec
        <5> QED  BY <3>3, <5>1, <5>2, <5>3, <5>4
      <4> QED  BY <4>1
    <3> QED  BY <2>5, <3>1, <3>2, <3>3 DEF CompactStep
  <2>6. CASE Crash \/ CrashInSave \/ \E c \in Compactors : CompactPanics(c)
    BY <2>6 DEF Crash, CrashInSave, CompactPanics, GoDown
  <2>7. CASE NewSsTable \/ UNCHANGED vars
    BY <2>1, <2>7 DEF NewSsTable, vars
  <2> QED  BY <1>2, <2>3, <2>4, <2>5, <2>6, <2>7 DEF Next
<1>3. TypeInv /\ ListsAgree => TypeInv
  OBVIOUS
<1> QED  BY <1>1, <1>2, <1>3, ListsInvariant, PTL DEF Spec
===============================================================================
