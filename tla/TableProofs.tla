------------------------------ MODULE TableProofs ------------------------------
(***************************************************************************)
(* Proofs about Table: every state is well typed, and while no two writers *)
(* meet, a SELECT that may see what opens a data block returns the rows    *)
(* of its snapshot and fails only over a primary key that is not there,    *)
(* however INSERTs, flushes and the steps of the SELECT interleave.  The   *)
(* facts about transactions come from TransactionManagerProofs.            *)
(***************************************************************************)
EXTENDS Table, WellFoundedInduction, TLAPS

TP == INSTANCE TransactionManagerProofs WITH FirstTxnId <- 2, StorageFaults <- FALSE

\* What a store that forgets nothing holds, and what t may see of it.
All == Stored \cup versions
View(t) == { e \in All : CanSee(e.txnId, t, snapshot[t]) }
InFiles == UNION Range(files)

-------------------------------------------------------------------------------
(***************************************************************************)
(* Types                                                                   *)
(***************************************************************************)
OtherOps == [pc : {"idle", "returned"}]

InsertOps ==
  [pc   : {"row", "index", "commit", "clear", "flushed", "returned"},
   row  : RowsToInsert,
   next : 1 .. Len(SecondaryIndexes) + 1]

SelectOps ==
  [pc            : {"scan", "files", "get", "getFiles", "commit", "clear",
                    "flushed", "failed", "returned"},
   query         : Queries,
   memTableMap   : SUBSET Entry,
   primaryKeyIds : SUBSET Pks,
   pk            : Pks \cup {NoValue},
   queryResult   : SUBSET Rows]

\* An entry that an INSERT of one of the rows stores.
FromRow(e) == \E r \in Rows : e \in EntriesFor(r, e.txnId) /\ e.txnId \in TxnIds

Ops == OtherOps \cup InsertOps \cup SelectOps

Types ==
  /\ op \in [TxnIds -> Ops]
  /\ files \in Seq(SUBSET Entry)
  /\ bufferedWriteMap \in [TxnIds -> TP!WriteMaps]
  /\ raced \in BOOLEAN
  /\ \A e \in memTable \cup InFiles : FromRow(e)
  /\ \A t \in TxnIds : \A e \in EntriesOf(bufferedWriteMap[t], t) : FromRow(e)
  /\ \A t \in TxnIds : IsSelect(t) /\ op[t].pc = "files" =>
       \A e \in op[t].memTableMap : FromRow(e) /\ InScan(e.key, op[t].query)
  /\ \A t \in TxnIds : op[t].pc = "getFiles" => op[t].pk \in op[t].primaryKeyIds

\* Each file has its blocks.
Blocks ==
  /\ blockStarts \in Seq(SUBSET Entry) /\ DOMAIN blockStarts = DOMAIN files
  /\ \A i \in DOMAIN files : blockStarts[i] \subseteq BlockOpenings(files[i])

-------------------------------------------------------------------------------
(***************************************************************************)
(* Writers                                                                 *)
(***************************************************************************)
Inserting(t) == IsInsert(t) /\ UnderWay(t)

\* Where the goroutine of a transaction is, for the manager.
Position(t) ==
  /\ op[t].pc \in {"row", "index", "scan", "files", "get", "getFiles"}
       => phase[t] = "open"
  /\ op[t].pc \in {"commit", "clear", "flushed"}
       => phase[t] \in {"applying", "releasing"}
  /\ op[t].pc = "clear" => phase[t] = "applying"
  /\ op[t].pc = "failed" => phase[t] = "undoing"
  /\ op[t].pc = "idle" => phase[t] \in {"none", "committed"}
  /\ op[t].pc = "returned" => phase[t] \in {"open", "committed", "aborted"}

\* What an INSERT has put so far.
PutSoFar(t) ==
  { e \in EntriesFor(op[t].row, t) :
      /\ op[t].pc # "row"
      /\ \/ e.key = RowKey(op[t].row[PkColumn])
         \/ \E i \in DOMAIN SecondaryIndexes :
              i < op[t].next /\ e.key = IndexKey(SecondaryIndexes[i], op[t].row) }

\* Only INSERTs under way have locks and writes, those of their row.
Writer(t) ==
  IF Inserting(t)
  THEN /\ op[t].pc = "row" => op[t].next = 1
       /\ op[t].pc \notin {"row", "index"} => op[t].next \notin DOMAIN SecondaryIndexes
       /\ EntriesOf(bufferedWriteMap[t], t) = PutSoFar(t)
       /\ \A k \in lockAcquiredKeys[t] : k.pk = op[t].row[PkColumn]
  ELSE DOMAIN bufferedWriteMap[t] = {} /\ lockAcquiredKeys[t] = {}

Goroutines == \A t \in TxnIds : Position(t) /\ Writer(t)

\* No two INSERTs of a primary key are under way.
NoTwins ==
  \A t, u \in TxnIds :
    Inserting(t) /\ Inserting(u) /\ op[t].row[PkColumn] = op[u].row[PkColumn] => t = u

\* The memtable and the files hold what was stored, and what a flush is about
\* to clear is in a file.
Held ==
  /\ memTable \cup InFiles = All
  /\ (\E t \in TxnIds : op[t].pc = "clear") => memTable \subseteq InFiles

\* One version for a key and a transaction.
OneVersion == \A e, f \in All : e.key = f.key /\ e.txnId = f.txnId => e = f

\* Of a key, a later file has nothing older than an earlier one, except what
\* both have: a flush may find what another one has not cleared yet.
Follows(S, T) ==
  \A e \in S, f \in T : e.key = f.key => e.txnId <= f.txnId \/ e \in T

Ordered ==
  /\ \A i, j \in DOMAIN files : i < j => Follows(files[i], files[j])
  /\ Follows(InFiles, memTable)

\* Nothing younger than an INSERT under way is stored of its primary key.
Youngest ==
  \A t \in TxnIds : Inserting(t) =>
    \A e \in All : e.key.pk = op[t].row[PkColumn] => e.txnId <= t

\* Of a transaction that is over, everything is stored.
Complete ==
  \A e \in All : phase[e.txnId] = "committed" =>
    \E r \in Rows : e \in EntriesFor(r, e.txnId) /\ EntriesFor(r, e.txnId) \subseteq All

WriteInv ==
  /\ TP!Inv /\ TP!Owned /\ TP!StoredFromBuffer /\ TP!EarlierOver
  /\ Goroutines /\ NoTwins /\ Held /\ OneVersion /\ Ordered /\ Youngest /\ Complete

-------------------------------------------------------------------------------
(***************************************************************************)
(* Readers                                                                 *)
(***************************************************************************)
Of(S, k) == { e \in S : e.key = k }

\* The rows of primary keys that t reads.
RowsOf(t, pks) == { e.value : e \in UNION { Newest(Of(View(t), RowKey(pk))) : pk \in pks } }

\* The primary keys a SELECT looks up.
Wanted(t) ==
  IF IsPointed(op[t].query) THEN {op[t].query[1].value}
  ELSE IF UsesIndex(op[t].query)
       THEN { e.key.pk : e \in { f \in View(t) : InScan(f.key, op[t].query) } }
       ELSE Pks

\* What the memtable had of a key is what t reads; else it is in the files.
Scanned(t) ==
  /\ op[t].pc \in {"scan", "files"} =>
       ~IsPointed(op[t].query) /\ op[t].primaryKeyIds = {} /\ op[t].queryResult = {}
  /\ op[t].pc = "files" =>
       \A k \in Keys : InScan(k, op[t].query) =>
         IF Of(op[t].memTableMap, k) # {}
         THEN Of(op[t].memTableMap, k) = Newest(Of(View(t), k))
         ELSE Of(View(t), k) \subseteq InFiles

LookedUp(t) ==
  op[t].pc \in {"get", "getFiles"} =>
    /\ op[t].primaryKeyIds \subseteq Wanted(t)
    /\ op[t].queryResult = RowsOf(t, Wanted(t) \ op[t].primaryKeyIds)
    /\ op[t].pc = "getFiles" => Of(View(t), RowKey(op[t].pk)) \subseteq InFiles
    /\ op[t].primaryKeyIds # {} => IsPointed(op[t].query) \/ UsesIndex(op[t].query)

Returned(t) ==
  /\ op[t].pc \in {"commit", "clear", "flushed"} =>
       op[t].queryResult = Filtered(RowsOf(t, Wanted(t)), op[t].query)
  /\ op[t].pc = "failed" =>
       /\ op[t].pk \in Wanted(t) /\ Of(View(t), RowKey(op[t].pk)) = {}
       /\ IsPointed(op[t].query) \/ UsesIndex(op[t].query)

Reader(t) == Scanned(t) /\ LookedUp(t) /\ Returned(t)
Readers   == \A t \in TxnIds : IsSelect(t) /\ SeesBlockStarts(t) => Reader(t)

Inv == Types /\ (~raced => WriteInv /\ Readers)

-------------------------------------------------------------------------------
(***************************************************************************)
(* Basic facts                                                             *)
(***************************************************************************)

\* The assumption of TransactionManager.
LEMMA ManagerAssumption == TP!TxnIdAssumption
<1>1. MaxTxnId \in Nat /\ 2 <= MaxTxnId
  BY TableAssumption, Zenon
<1> QED  BY <1>1 DEF TP!TxnIdAssumption

\* The ids.
LEMMA Ids ==
  /\ TxnIds = 1 .. MaxTxnId /\ TP!TxnIds = TxnIds /\ TM!TxnIds = TxnIds
  /\ TxnIds \subseteq Nat /\ 1 \in TxnIds /\ 2 \in TxnIds /\ MaxTxnId \in Nat
<1>1. MaxTxnId \in Nat /\ 2 <= MaxTxnId
  BY TableAssumption, Zenon
<1> QED  BY <1>1 DEF TxnIds, TM!TxnIds, TP!TxnIds

\* A set of bounded numbers has a largest one.
LEMMA MaxIn ==
  ASSUME NEW n \in Nat, NEW S \in SUBSET (0 .. n), S # {}
  PROVE  Max(S) \in S /\ \A j \in S : Max(S) >= j
<1> DEFINE U == { m \in Nat : \E i \in S : m + i = n }
<1>1. U \subseteq Nat /\ U # {}
  <2>1. PICK i \in S : i \in 0 .. n
    OBVIOUS
  <2>2. n - i \in Nat /\ (n - i) + i = n
    BY <2>1
  <2> QED  BY <2>1, <2>2
<1>2. PICK x \in U : \A y \in U : ~(<<y, x>> \in OpToRel(<, Nat))
  <2> HIDE DEF U
  <2> QED  BY <1>1, WFMin, NatLessThanWellFounded, Zenon
<1>3. \A y \in U : ~(y < x)
  <2>1. U \subseteq Nat
    BY <1>1
  <2> HIDE DEF U
  <2> QED  BY <1>2, <2>1, Zenon DEF OpToRel
<1>4. PICK i \in S : x \in Nat /\ x + i = n
  BY <1>2
<1>5. \A j \in S : i >= j
  <2> TAKE j \in S
  <2>1. i \in 0 .. n /\ j \in 0 .. n /\ x = n - i
    BY <1>4
  <2>2. n - j \in Nat /\ (n - j) + j = n
    BY <2>1
  <2>3. n - j \in U
    BY <2>2
  <2> HIDE DEF U
  <2> QED  BY <1>3, <2>1, <2>3
<1> QED  BY <1>5 DEF Max

\* A set of numbers has a smallest one.
LEMMA MinIn ==
  ASSUME NEW S \in SUBSET Nat, S # {}
  PROVE  Min(S) \in S /\ \A j \in S : Min(S) <= j
<1>1. PICK x \in S : \A y \in S : ~(<<y, x>> \in OpToRel(<, Nat))
  BY WFMin, NatLessThanWellFounded, Zenon
<1>2. \A y \in S : ~(y < x)
  BY <1>1, Zenon DEF OpToRel
<1>3. \A y \in S : x <= y
  BY <1>2
<1> QED  BY <1>3 DEF Min

\* The three kinds of op, by their fields and by where they are.
LEMMA Kinds ==
  ASSUME NEW t \in TxnIds, op[t] \in Ops
  PROVE  /\ IsInsert(t) <=> op[t] \in InsertOps
         /\ IsSelect(t) <=> op[t] \in SelectOps
         /\ op[t].pc \in {"row", "index"} => op[t] \in InsertOps
         /\ op[t].pc \in {"scan", "files", "get", "getFiles", "failed"}
              => op[t] \in SelectOps
         /\ op[t].pc = "idle" => op[t] \in OtherOps
         /\ ~(op[t] \in InsertOps /\ op[t] \in SelectOps)
         /\ op[t].pc \in Pcs
<1>1. ASSUME op[t] \in OtherOps
      PROVE  ~IsInsert(t) /\ ~IsSelect(t) /\ op[t].pc \in {"idle", "returned"}
  BY <1>1 DEF OtherOps, IsInsert, IsSelect
<1>2. ASSUME op[t] \in InsertOps
      PROVE  /\ IsInsert(t) /\ ~IsSelect(t)
             /\ op[t].pc \in {"row", "index", "commit", "clear", "flushed", "returned"}
  BY <1>2 DEF InsertOps, IsInsert, IsSelect
<1>3. ASSUME op[t] \in SelectOps
      PROVE  /\ ~IsInsert(t) /\ IsSelect(t)
             /\ op[t].pc \in {"scan", "files", "get", "getFiles", "commit", "clear",
                              "flushed", "failed", "returned"}
  BY <1>3 DEF SelectOps, IsInsert, IsSelect
<1> QED  BY <1>1, <1>2, <1>3 DEF Pcs, Ops

\* What an INSERT stores.
LEMMA EntryFacts ==
  ASSUME NEW r \in Rows, NEW t \in TxnIds, NEW e \in EntriesFor(r, t)
  PROVE  /\ e \in Entry /\ e.txnId = t /\ e.key.pk = r[PkColumn] /\ r[PkColumn] \in Pks
         /\ e.key.index = "" => e.key = RowKey(r[PkColumn]) /\ e.value = r
         /\ e.key.index # "" => e.value = NoValue
<1>1. t \in Nat
  BY Ids
<1>2. CASE e = [key |-> RowKey(r[PkColumn]), value |-> r, txnId |-> t]
  BY <1>1, <1>2, KeysAssumption DEF Entry, RowKey, Pks
<1>3. CASE \E i \in DOMAIN SecondaryIndexes :
             e = [key |-> IndexKey(SecondaryIndexes[i], r), value |-> NoValue, txnId |-> t]
  <2> PICK i \in DOMAIN SecondaryIndexes :
             e = [key |-> IndexKey(SecondaryIndexes[i], r), value |-> NoValue, txnId |-> t]
    BY <1>3
  <2>1. IndexKey(SecondaryIndexes[i], r) \in Keys /\ NoValue \in Values
    BY KeysAssumption
  <2>2. /\ IndexKey(SecondaryIndexes[i], r).index = SecondaryIndexes[i].name
        /\ IndexKey(SecondaryIndexes[i], r).pk = r[PkColumn]
    BY DEF IndexKey
  <2>3. SecondaryIndexes[i].name # ""
    BY TableAssumption, Zenon
  <2> QED  BY <1>1, <2>1, <2>2, <2>3 DEF Entry, Pks
<1> QED  BY <1>2, <1>3 DEF EntriesFor

\* An entry of a row is an entry.
LEMMA FromRowFacts ==
  ASSUME NEW e, FromRow(e)
  PROVE  /\ e \in Entry /\ e.txnId \in TxnIds /\ e.key \in Keys /\ e.value \in Values
         /\ e.key.pk \in Pks
         /\ e.key.index = "" => /\ e.value \in Rows /\ e.value[PkColumn] = e.key.pk
                                /\ e.key = RowKey(e.key.pk)
<1> PICK r \in Rows : e \in EntriesFor(r, e.txnId) /\ e.txnId \in TxnIds
  BY DEF FromRow
<1>1. e \in Entry /\ e.txnId \in TxnIds /\ e.key.pk \in Pks
  <2>1. e \in Entry /\ e.txnId \in TxnIds /\ r[PkColumn] \in Pks /\ e.key.pk = r[PkColumn]
    BY EntryFacts, Zenon
  <2> QED  BY <2>1
<1>2. e.key \in Keys /\ e.value \in Values
  BY <1>1 DEF Entry
<1>3. /\ e.key.pk = r[PkColumn]
      /\ e.key.index = "" => e.key = RowKey(r[PkColumn]) /\ e.value = r
  BY EntryFacts, Zenon
<1> QED  BY <1>1, <1>2, <1>3

\* What an earlier run left.
LEMMA StoredFromRows == \A e \in Stored : FromRow(e) /\ e.txnId = 1
<1>1. ASSUME NEW r \in StoredRows, NEW t \in TxnIds, NEW e \in EntriesFor(r, t)
      PROVE  e.txnId = t /\ FromRow(e)
  <2>1. r \in Rows
    BY DEF Rows
  <2>2. e.txnId = t
    BY DEF EntriesFor
  <2> QED  BY <2>1, <2>2 DEF FromRow
<1>2. 1 \in TxnIds
  BY Ids
<1> QED  BY <1>1, <1>2 DEF Stored

\* What a scan of a set of entries returns is in it, and was asked for.
LEMMA ScanFinds ==
  ASSUME NEW S, NEW q, NEW t, NEW e \in PrefixScan(S, q, t)
  PROVE  e \in S /\ InScan(e.key, q) /\ CanSee(e.txnId, t, snapshot[t])
BY DEF PrefixScan, MemtableGet, Newest, VisibleEntries

\* A scan that goes through no index finds row keys.
LEMMA RowScan ==
  ASSUME NEW k, NEW q, InScan(k, q), ~UsesIndex(q)
  PROVE  k.index = ""
BY DEF InScan, HasPrefix

\* Where a goroutine goes next leaves its other fields alone.
LEMMA GotoOp ==
  ASSUME op \in [TxnIds -> Ops], NEW t \in TxnIds, NEW p, Goto(t, p)
  PROVE  LET x == [op[t] EXCEPT !.pc = p]
         IN  /\ op' = [op EXCEPT ![t] = x] /\ x.pc = p
             /\ op[t] \in InsertOps /\ p \in {"index", "commit", "clear", "flushed", "returned"}
                  => x \in InsertOps
             /\ op[t] \in SelectOps /\ p \in {"commit", "clear", "flushed", "failed", "returned"}
                  => x \in SelectOps
             /\ op[t] \in OtherOps /\ p = "returned" => x \in OtherOps
<1> DEFINE x == [op[t] EXCEPT !.pc = p]
<1>1. op' = [op EXCEPT ![t] = x]
  BY DEF Goto
<1>2. op[t] \in Ops
  OBVIOUS
<1>3. ASSUME op[t] \in InsertOps, p \in {"index", "commit", "clear", "flushed", "returned"}
      PROVE  x \in InsertOps
  BY <1>3 DEF InsertOps
<1>4. ASSUME op[t] \in SelectOps, p \in {"commit", "clear", "flushed", "failed", "returned"}
      PROVE  x \in SelectOps
  BY <1>4 DEF SelectOps
<1>5. ASSUME op[t] \in OtherOps, p = "returned" PROVE x \in OtherOps
  BY <1>5 DEF OtherOps
<1>6. x.pc = p
  BY <1>2 DEF Ops, OtherOps, InsertOps, SelectOps
<1> QED  BY <1>1, <1>3, <1>4, <1>5, <1>6

\* A step that leaves the entries alone and moves one goroutine.
LEMMA QuietTypes ==
  ASSUME Types, NEW t \in TxnIds, NEW x \in Ops, op' = [op EXCEPT ![t] = x],
         UNCHANGED <<memTable, files, bufferedWriteMap>>, raced' \in BOOLEAN,
         x \in SelectOps /\ x.pc = "files" =>
           \A e \in x.memTableMap : FromRow(e) /\ InScan(e.key, x.query),
         x.pc = "getFiles" => x.pk \in x.primaryKeyIds
  PROVE  Types'
<1>1. op' \in [TxnIds -> Ops]
  BY DEF Types
<1>2. op'[t] = x /\ \A u \in TxnIds : u # t => op'[u] = op[u]
  BY DEF Types
<1>3. InFiles' = InFiles
  BY DEF InFiles
<1>4. ASSUME NEW u \in TxnIds, IsSelect(u)', op'[u].pc = "files", NEW e \in op'[u].memTableMap
      PROVE  FromRow(e) /\ InScan(e.key, op'[u].query)
  <2>1. CASE u = t
    <3>1. "query" \in DOMAIN x
      BY <1>2, <1>4, <2>1 DEF IsSelect
    <3>2. x \in SelectOps
      BY <3>1 DEF Ops, OtherOps, InsertOps
    <3> QED  BY <1>2, <1>4, <2>1, <3>2
  <2>2. CASE u # t
    BY <1>2, <1>4, <2>2 DEF Types, IsSelect
  <2> QED  BY <2>1, <2>2
<1>5. \A u \in TxnIds : op'[u].pc = "getFiles" => op'[u].pk \in op'[u].primaryKeyIds
  BY <1>2 DEF Types
<1> QED  BY <1>1, <1>3, <1>4, <1>5 DEF Types

\* A Put of the manager.
LEMMA PutBuffer ==
  ASSUME bufferedWriteMap \in [TxnIds -> TP!WriteMaps],
         NEW t \in TxnIds, NEW k \in Keys, NEW v \in Values, TM!Put(t, k, v)
  PROVE  /\ bufferedWriteMap' \in [TxnIds -> TP!WriteMaps]
         /\ \A u \in TxnIds : u # t => bufferedWriteMap'[u] = bufferedWriteMap[u]
         /\ EntriesOf(bufferedWriteMap'[t], t) =
              { e \in EntriesOf(bufferedWriteMap[t], t) : e.key # k }
                \cup {[key |-> k, value |-> v, txnId |-> t]}
<1> DEFINE m == bufferedWriteMap[t]
           n == TM!BufferWrite(m, k, v)
<1>1. bufferedWriteMap' = [bufferedWriteMap EXCEPT ![t] = n]
  BY DEF TM!Put
<1>2. m \in TP!WriteMaps
  OBVIOUS
<1>3. n \in TP!WriteMaps
  <2>1. n = TP!BufferWrite(m, k, v)
    BY DEF TM!BufferWrite, TP!BufferWrite
  <2>2. TP!BufferWrite(m, k, v) \in TP!WriteMaps
    BY <1>2, ManagerAssumption, TP!BufferWriteType
  <2> QED  BY <2>1, <2>2
<1>4. /\ bufferedWriteMap'[t] = n /\ bufferedWriteMap' \in [TxnIds -> TP!WriteMaps]
      /\ \A u \in TxnIds : u # t => bufferedWriteMap'[u] = bufferedWriteMap[u]
  <2> HIDE DEF n
  <2> QED  BY <1>1, <1>3
<1>5. EntriesOf(n, t) = { e \in EntriesOf(m, t) : e.key # k }
                          \cup {[key |-> k, value |-> v, txnId |-> t]}
  <2>1. DOMAIN n = DOMAIN m \cup {k} /\ \A x \in DOMAIN n : n[x] = IF x = k THEN v ELSE m[x]
    BY DEF TM!BufferWrite
  <2> HIDE DEF n, m
  <2>2. ASSUME NEW e \in EntriesOf(n, t)
        PROVE  \/ e \in EntriesOf(m, t) /\ e.key # k
               \/ e = [key |-> k, value |-> v, txnId |-> t]
    BY <2>1 DEF EntriesOf
  <2>3. ASSUME NEW e \in EntriesOf(m, t), e.key # k PROVE e \in EntriesOf(n, t)
    BY <2>1, <2>3 DEF EntriesOf
  <2>4. [key |-> k, value |-> v, txnId |-> t] \in EntriesOf(n, t)
    BY <2>1 DEF EntriesOf
  <2> QED  BY <2>2, <2>3, <2>4
<1> QED  BY <1>4, <1>5

\* The step of an INSERT that puts something of its row.
LEMMA PutTypes ==
  ASSUME Types, NEW t \in TxnIds, NEW k \in Keys, NEW v \in Values, TM!Put(t, k, v),
         NEW r \in Rows, [key |-> k, value |-> v, txnId |-> t] \in EntriesFor(r, t),
         NEW x \in InsertOps, op' = [op EXCEPT ![t] = x], x.pc = "index",
         UNCHANGED <<memTable, files, raced>>
  PROVE  Types'
<1>1. op' \in [TxnIds -> Ops] /\ op'[t] = x /\ \A u \in TxnIds : u # t => op'[u] = op[u]
  BY DEF Types, Ops
<1>2. /\ bufferedWriteMap' \in [TxnIds -> TP!WriteMaps]
      /\ \A u \in TxnIds : u # t => bufferedWriteMap'[u] = bufferedWriteMap[u]
      /\ EntriesOf(bufferedWriteMap'[t], t) \subseteq
           EntriesOf(bufferedWriteMap[t], t) \cup {[key |-> k, value |-> v, txnId |-> t]}
  BY PutBuffer DEF Types
<1>3. FromRow([key |-> k, value |-> v, txnId |-> t])
  BY DEF FromRow
<1>4. ASSUME NEW u \in TxnIds, NEW e \in EntriesOf(bufferedWriteMap'[u], u)
      PROVE  FromRow(e)
  <2>1. CASE u = t
    BY <1>2, <1>3, <1>4, <2>1 DEF Types
  <2>2. CASE u # t
    BY <1>2, <1>4, <2>2 DEF Types
  <2> QED  BY <2>1, <2>2
<1>5. ASSUME NEW u \in TxnIds, IsSelect(u)', op'[u].pc = "files", NEW e \in op'[u].memTableMap
      PROVE  FromRow(e) /\ InScan(e.key, op'[u].query)
  BY <1>1, <1>5 DEF Types, IsSelect
<1>6. \A u \in TxnIds : op'[u].pc = "getFiles" => op'[u].pk \in op'[u].primaryKeyIds
  BY <1>1 DEF Types
<1>7. InFiles' = InFiles
  BY DEF InFiles
<1> QED  BY <1>1, <1>2, <1>4, <1>5, <1>6, <1>7 DEF Types

\* What is found under a row key is a row of that primary key.
LEMMA RowFound ==
  ASSUME NEW e, FromRow(e), NEW pk, e.key = RowKey(pk)
  PROVE  e.value \in Rows /\ e.value[PkColumn] = pk
<1>1. RowKey(pk).index = "" /\ RowKey(pk).pk = pk
  BY DEF RowKey
<1> QED  BY <1>1, FromRowFacts

\* Steps of an INSERT.
LEMMA InsertTypes ==
  ASSUME Types, NEW t \in TxnIds,
         \/ \E r \in RowsToInsert : InsertBegin(t, r)
         \/ InsertRefused(t) \/ InsertRow(t) \/ InsertRowFails(t) \/ InsertIndexEntry(t)
  PROVE  Types'
<1>1. op \in [TxnIds -> Ops] /\ op[t] \in Ops /\ Len(SecondaryIndexes) \in Nat
      /\ DOMAIN SecondaryIndexes = 1 .. Len(SecondaryIndexes)
  <2>1. SecondaryIndexes \in Seq([name : STRING, columns : Seq(STRING)])
    BY TableAssumption, Zenon
  <2> QED  BY <2>1 DEF Types
<1>2. ASSUME NEW r \in RowsToInsert, InsertBegin(t, r) PROVE Types'
  <2> DEFINE x == [pc |-> "row", row |-> r, next |-> 1]
  <2>1. x \in InsertOps
    BY <1>1 DEF InsertOps
  <2>2. /\ op' = [op EXCEPT ![t] = x] /\ UNCHANGED <<memTable, files, bufferedWriteMap>>
        /\ raced' \in BOOLEAN /\ x.pc = "row"
    BY <1>2 DEF InsertBegin, Begin, TM!Begin
  <2> HIDE DEF x
  <2> QED  BY <2>1, <2>2, QuietTypes DEF Ops
<1>3. ASSUME InsertRefused(t) PROVE Types'
  <2> DEFINE x == [op[t] EXCEPT !.pc = "returned"]
  <2>1. /\ Goto(t, "returned") /\ UNCHANGED <<memTable, files, bufferedWriteMap>>
        /\ raced' \in BOOLEAN
    BY <1>3 DEF InsertRefused, Begin, TM!Begin, Types
  <2>2. x \in Ops /\ x.pc = "returned" /\ op' = [op EXCEPT ![t] = x]
    BY <1>1, <2>1, GotoOp DEF Ops
  <2> HIDE DEF x
  <2> QED  BY <2>1, <2>2, QuietTypes
<1>4. ASSUME op[t].pc = "row", Goto(t, "index")
      PROVE  LET x == [op[t] EXCEPT !.pc = "index"]
             IN  x \in InsertOps /\ x.pc = "index" /\ op' = [op EXCEPT ![t] = x]
                 /\ op[t].row \in RowsToInsert
  <2>1. op[t] \in InsertOps
    BY <1>1, <1>4, Kinds
  <2> QED  BY <1>1, <1>4, <2>1, GotoOp DEF InsertOps
<1>5. ASSUME InsertRow(t) PROVE Types'
  <2> DEFINE x == [op[t] EXCEPT !.pc = "index"]
             r == op[t].row
  <2>1. /\ TM!Put(t, RowKey(r[PkColumn]), r) /\ UNCHANGED <<memTable, files, raced>>
        /\ x \in InsertOps /\ x.pc = "index" /\ op' = [op EXCEPT ![t] = x] /\ r \in Rows
    BY <1>4, <1>5 DEF InsertRow, Rows
  <2> HIDE DEF x, r
  <2>2. RowKey(r[PkColumn]) \in Keys /\ r \in Values
    BY <2>1, KeysAssumption
  <2>3. [key |-> RowKey(r[PkColumn]), value |-> r, txnId |-> t] \in EntriesFor(r, t)
    BY DEF EntriesFor
  <2> QED  BY <2>1, <2>2, <2>3, PutTypes
<1>6. ASSUME InsertRowFails(t) PROVE Types'
  <2> DEFINE x == [op[t] EXCEPT !.pc = "index"]
  <2>1. /\ UNCHANGED <<memTable, files, bufferedWriteMap>> /\ raced' \in BOOLEAN
        /\ x \in InsertOps /\ x.pc = "index" /\ op' = [op EXCEPT ![t] = x]
    BY <1>4, <1>6 DEF InsertRowFails, Types
  <2> HIDE DEF x
  <2> QED  BY <2>1, QuietTypes DEF Ops
<1>7. ASSUME InsertIndexEntry(t) PROVE Types'
  <2> DEFINE x == [op[t] EXCEPT !.next = @ + 1]
             r == op[t].row
             k == IndexKey(SecondaryIndexes[op[t].next], r)
  <2>1. op[t] \in InsertOps /\ op[t].next \in DOMAIN SecondaryIndexes /\ op[t].pc = "index"
    BY <1>1, <1>7, Kinds DEF InsertIndexEntry
  <2>2. x \in InsertOps /\ x.pc = "index" /\ r \in Rows
    BY <1>1, <2>1 DEF InsertOps, Rows
  <2>3. /\ op' = [op EXCEPT ![t] = x] /\ UNCHANGED <<memTable, files, raced>>
        /\ TM!Put(t, k, NoValue) \/ UNCHANGED tmVars
    BY <1>7 DEF InsertIndexEntry
  <2>4. k \in Keys /\ NoValue \in Values
    BY <2>1, <2>2, KeysAssumption
  <2>5. [key |-> k, value |-> NoValue, txnId |-> t] \in EntriesFor(r, t)
    BY <2>1 DEF EntriesFor
  <2>6. ASSUME UNCHANGED tmVars PROVE UNCHANGED bufferedWriteMap
    BY <2>6 DEF tmVars
  <2> HIDE DEF x, r, k
  <2>7. CASE UNCHANGED tmVars
    BY <2>2, <2>3, <2>6, <2>7, QuietTypes DEF Ops, Types
  <2> QED  BY <2>2, <2>3, <2>4, <2>5, <2>7, PutTypes
<1> QED  BY <1>2, <1>3, <1>5, <1>6, <1>7

\* A SELECT found a row.
LEMMA FoundOp ==
  ASSUME Types, NEW t \in TxnIds, op[t] \in SelectOps, NEW pk, NEW e,
         FromRow(e), e.key = RowKey(pk), Found(t, pk, e)
  PROVE  \E x \in SelectOps :
           /\ op' = [op EXCEPT ![t] = x] /\ x.pc = "get"
           /\ x.query = op[t].query /\ x.primaryKeyIds = op[t].primaryKeyIds \ {pk}
           /\ x.queryResult = op[t].queryResult \cup {e.value}
<1> DEFINE x == [op[t] EXCEPT !.pc = "get", !.primaryKeyIds = op[t].primaryKeyIds \ {pk},
                              !.pk = NoValue, !.queryResult = op[t].queryResult \cup {e.value}]
<1>1. op \in [TxnIds -> Ops] /\ e.value \in Rows
  BY RowFound DEF Types
<1>2. [op[t] EXCEPT !.pc = "get", !.primaryKeyIds = @ \ {pk}, !.pk = NoValue,
                    !.queryResult = @ \cup {e.value}] = x
  BY DEF SelectOps
<1>3. op' = [op EXCEPT ![t] = x]
  BY <1>1, <1>2 DEF Found
<1>4. /\ x \in SelectOps /\ x.pc = "get" /\ x.query = op[t].query
      /\ x.primaryKeyIds = op[t].primaryKeyIds \ {pk}
      /\ x.queryResult = op[t].queryResult \cup {e.value}
  BY <1>1 DEF SelectOps
<1> HIDE DEF x
<1> QED  BY <1>3, <1>4

\* What a SELECT reads from the memtable or the files.
LEMMA ReadFromRows ==
  ASSUME Types, NEW t, NEW k
  PROVE  /\ \A e \in MemtableGet(memTable, k, t, snapshot[t]) : FromRow(e) /\ e.key = k
         /\ \A e \in FilesGet(k, t) : FromRow(e) /\ e.key = k
<1>1. \A S : MemtableGet(S, k, t, snapshot[t]) \subseteq { e \in S : e.key = k }
  BY DEF MemtableGet, Newest, VisibleEntries
<1>2. ASSUME NEW e \in FilesGet(k, t) PROVE FromRow(e) /\ e.key = k
  <2> DEFINE found == { i \in DOMAIN files : VisibleEntries(Searched(i, k), k, t, snapshot[t]) # {} }
  <2>1. found # {} /\ e \in MemtableGet(Searched(Max(found), k), k, t, snapshot[t])
    BY <1>2 DEF FilesGet
  <2>2. Max(found) \in found
    <3>1. files \in Seq(SUBSET Entry)
      BY DEF Types
    <3>2. Len(files) \in Nat /\ DOMAIN files = 1 .. Len(files)
      BY <3>1
    <3>3. found \in SUBSET (0 .. Len(files))
      BY <3>2
    <3> HIDE DEF found
    <3> QED  BY <2>1, <3>2, <3>3, MaxIn
  <2>3. files[Max(found)] \in Range(files)
    BY <2>2 DEF Range
  <2>4. e \in files[Max(found)] /\ e.key = k
    <3>1. e \in Searched(Max(found), k) /\ e.key = k
      BY <1>1, <2>1, Zenon
    <3> QED  BY <3>1 DEF Searched
  <2> QED  BY <2>3, <2>4 DEF Types, InFiles
<1> QED  BY <1>1, <1>2 DEF Types

\* The fields of a SELECT when it begins.
LEMMA SelectBeginOp ==
  ASSUME Types, NEW t \in TxnIds, NEW q \in Queries, SelectBegin(t, q)
  PROVE  \E x \in SelectOps :
           /\ op' = [op EXCEPT ![t] = x] /\ x.query = q /\ x.queryResult = {}
           /\ IF IsPointed(q) THEN x.pc = "get" /\ x.primaryKeyIds = {q[1].value}
                              ELSE x.pc = "scan" /\ x.primaryKeyIds = {}
<1> DEFINE x == [pc            |-> IF IsPointed(q) THEN "get" ELSE "scan",
                 query         |-> q,
                 memTableMap   |-> {},
                 primaryKeyIds |-> IF IsPointed(q) THEN {q[1].value} ELSE {},
                 pk            |-> NoValue,
                 queryResult   |-> {}]
<1>1. op' = [op EXCEPT ![t] = x]
  BY DEF SelectBegin
<1>2. IsPointed(q) => q[1].value \in Pks
  BY KeysAssumption
<1>3. x \in SelectOps
  BY <1>2 DEF SelectOps
<1> QED  BY <1>1, <1>3

\* The fields of a SELECT after its scan of the memtable.
LEMMA ScanMemtableOp ==
  ASSUME Types, NEW t \in TxnIds, ScanMemtable(t)
  PROVE  \E x \in SelectOps :
           /\ op[t] \in SelectOps /\ op[t].pc = "scan"
           /\ op' = [op EXCEPT ![t] = x] /\ x.pc = "files" /\ x.query = op[t].query
           /\ x.memTableMap = PrefixScan(memTable, op[t].query, t)
           /\ x.primaryKeyIds = op[t].primaryKeyIds /\ x.queryResult = op[t].queryResult
<1> DEFINE m == PrefixScan(memTable, op[t].query, t)
           x == [op[t] EXCEPT !.pc = "files", !.memTableMap = m]
<1>1. op \in [TxnIds -> Ops] /\ op[t] \in SelectOps /\ op[t].pc = "scan"
  <2>1. op[t] \in Ops /\ op[t].pc = "scan"
    BY DEF Types, ScanMemtable
  <2> QED  BY <2>1, Kinds DEF Types
<1>2. op' = [op EXCEPT ![t] = x]
  BY DEF ScanMemtable
<1>3. m \subseteq Entry
  BY ScanFinds, FromRowFacts DEF Types
<1> HIDE DEF m
<1>4. /\ x \in SelectOps /\ x.pc = "files" /\ x.query = op[t].query /\ x.memTableMap = m
      /\ x.primaryKeyIds = op[t].primaryKeyIds /\ x.queryResult = op[t].queryResult
  BY <1>1, <1>3 DEF SelectOps
<1> QED  BY <1>1, <1>2, <1>4 DEF m

\* What the two scans found.
ScanResult(t) == Merged(op[t].memTableMap, PrefixScan(InFiles, op[t].query, t))

\* The fields of a SELECT after its scan of the files: an index gave primary
\* keys, the row keys gave rows.
LEMMA ScanFilesOp ==
  ASSUME Types, NEW t \in TxnIds, ScanFiles(t)
  PROVE  /\ \A e \in ScanResult(t) : FromRow(e) /\ InScan(e.key, op[t].query)
         /\ \E x \in SelectOps :
              /\ op[t] \in SelectOps /\ op[t].pc = "files"
              /\ op' = [op EXCEPT ![t] = x] /\ x.pc = "get" /\ x.query = op[t].query
              /\ IF UsesIndex(op[t].query)
                 THEN /\ x.primaryKeyIds = { e.key.pk : e \in ScanResult(t) }
                      /\ x.queryResult = op[t].queryResult
                 ELSE /\ x.primaryKeyIds = op[t].primaryKeyIds
                      /\ x.queryResult = { e.value : e \in ScanResult(t) }
<1> DEFINE pks  == { e.key.pk : e \in ScanResult(t) }
           rows == { e.value : e \in ScanResult(t) }
           x == [op[t] EXCEPT !.pc = "get", !.primaryKeyIds = pks]
           y == [op[t] EXCEPT !.pc = "get", !.queryResult = rows]
<1>1. op \in [TxnIds -> Ops] /\ op[t] \in SelectOps /\ op[t].pc = "files"
  <2>1. op[t] \in Ops /\ op[t].pc = "files"
    BY DEF Types, ScanFiles
  <2> QED  BY <2>1, Kinds DEF Types
<1>2. op' = IF UsesIndex(op[t].query) THEN [op EXCEPT ![t] = x] ELSE [op EXCEPT ![t] = y]
  BY DEF ScanFiles, ScanResult, InFiles
<1>3. ASSUME NEW e \in ScanResult(t) PROVE FromRow(e) /\ InScan(e.key, op[t].query)
  <2>1. CASE e \in op[t].memTableMap
    <3>1. IsSelect(t)
      BY <1>1, Kinds DEF Types
    <3> QED  BY <1>1, <2>1, <3>1 DEF Types
  <2>2. CASE e \in PrefixScan(InFiles, op[t].query, t)
    BY <2>2, ScanFinds DEF Types
  <2> QED  BY <1>3, <2>1, <2>2 DEF ScanResult, Merged
<1>4. pks \subseteq Pks
  BY <1>3, FromRowFacts
<1>5. ~UsesIndex(op[t].query) => rows \subseteq Rows
  BY <1>3, FromRowFacts, RowScan
<1> HIDE DEF pks, rows
<1>6. /\ x \in SelectOps /\ x.pc = "get" /\ x.query = op[t].query
      /\ x.primaryKeyIds = pks /\ x.queryResult = op[t].queryResult
  BY <1>1, <1>4 DEF SelectOps
<1>7. ~UsesIndex(op[t].query) =>
        /\ y \in SelectOps /\ y.pc = "get" /\ y.query = op[t].query
        /\ y.primaryKeyIds = op[t].primaryKeyIds /\ y.queryResult = rows
  BY <1>1, <1>5 DEF SelectOps
<1>8. CASE UsesIndex(op[t].query)
  <2> HIDE DEF x
  <2> QED  BY <1>1, <1>2, <1>3, <1>6, <1>8 DEF pks
<1>9. CASE ~UsesIndex(op[t].query)
  <2> HIDE DEF y
  <2> QED  BY <1>1, <1>2, <1>3, <1>7, <1>9 DEF rows
<1> QED  BY <1>8, <1>9

\* A lookup of a row in the memtable misses it or finds it.
LEMMA GetMemtableOp ==
  ASSUME Types, NEW t \in TxnIds, NEW pk \in Pks, GetMemtable(t, pk)
  PROVE  /\ op[t] \in SelectOps /\ op[t].pc = "get" /\ pk \in op[t].primaryKeyIds
         /\ \/ \E x \in SelectOps :
                 /\ MemtableGet(memTable, RowKey(pk), t, snapshot[t]) = {}
                 /\ op' = [op EXCEPT ![t] = x] /\ x.pc = "getFiles" /\ x.pk = pk
                 /\ x.query = op[t].query /\ x.primaryKeyIds = op[t].primaryKeyIds
                 /\ x.queryResult = op[t].queryResult
            \/ \E e \in MemtableGet(memTable, RowKey(pk), t, snapshot[t]) : Found(t, pk, e)
<1>1. op \in [TxnIds -> Ops] /\ op[t] \in SelectOps /\ op[t].pc = "get"
      /\ pk \in op[t].primaryKeyIds
  <2>1. op[t] \in Ops /\ op[t].pc = "get" /\ pk \in op[t].primaryKeyIds
    BY DEF Types, GetMemtable
  <2> QED  BY <2>1, Kinds DEF Types
<1> DEFINE x == [op[t] EXCEPT !.pc = "getFiles", !.pk = pk]
<1>2. /\ x \in SelectOps /\ x.pc = "getFiles" /\ x.pk = pk /\ x.query = op[t].query
      /\ x.primaryKeyIds = op[t].primaryKeyIds /\ x.queryResult = op[t].queryResult
  BY <1>1 DEF SelectOps
<1>3. \/ /\ MemtableGet(memTable, RowKey(pk), t, snapshot[t]) = {}
         /\ op' = [op EXCEPT ![t] = x]
      \/ \E e \in MemtableGet(memTable, RowKey(pk), t, snapshot[t]) : Found(t, pk, e)
  BY DEF GetMemtable
<1> HIDE DEF x
<1> QED  BY <1>1, <1>2, <1>3

\* A lookup of a row in the files fails the SELECT or finds it.
LEMMA GetFilesOp ==
  ASSUME Types, NEW t \in TxnIds, GetFiles(t)
  PROVE  /\ op[t] \in SelectOps /\ op[t].pc = "getFiles" /\ op[t].pk \in op[t].primaryKeyIds
         /\ \/ \E x \in SelectOps :
                 /\ FilesGet(RowKey(op[t].pk), t) = {} /\ TM!Rollback(t)
                 /\ op' = [op EXCEPT ![t] = x] /\ x.pc = "failed"
                 /\ x.pk = op[t].pk /\ x.query = op[t].query
            \/ \E e \in FilesGet(RowKey(op[t].pk), t) :
                 Found(t, op[t].pk, e) /\ UNCHANGED tmVars
<1>1. op \in [TxnIds -> Ops] /\ op[t] \in SelectOps /\ op[t].pc = "getFiles"
      /\ op[t].pk \in op[t].primaryKeyIds
  <2>1. op[t] \in Ops /\ op[t].pc = "getFiles"
    BY DEF Types, GetFiles
  <2> QED  BY <2>1, Kinds DEF Types
<1> DEFINE x == [op[t] EXCEPT !.pc = "failed"]
<1>2. x \in SelectOps /\ x.pc = "failed" /\ x.pk = op[t].pk /\ x.query = op[t].query
  BY <1>1 DEF SelectOps
<1>3. \/ /\ FilesGet(RowKey(op[t].pk), t) = {} /\ TM!Rollback(t)
         /\ op' = [op EXCEPT ![t] = x]
      \/ \E e \in FilesGet(RowKey(op[t].pk), t) : Found(t, op[t].pk, e) /\ UNCHANGED tmVars
  BY DEF GetFiles, Goto
<1> HIDE DEF x
<1> QED  BY <1>1, <1>2, <1>3

\* Commit is called.
LEMMA CommitOp ==
  ASSUME Types, NEW t \in TxnIds, Commit(t)
  PROVE  \/ \E x \in InsertOps :
              /\ op[t] \in InsertOps /\ op[t].pc = "index"
              /\ op[t].next \notin DOMAIN SecondaryIndexes
              /\ op' = [op EXCEPT ![t] = x] /\ x.pc = "commit"
              /\ x.row = op[t].row /\ x.next = op[t].next
         \/ \E x \in SelectOps :
              /\ op[t] \in SelectOps /\ op[t].pc = "get" /\ op[t].primaryKeyIds = {}
              /\ op' = [op EXCEPT ![t] = x] /\ x.pc = "commit" /\ x.query = op[t].query
              /\ x.queryResult = Filtered(op[t].queryResult, op[t].query)
<1>1. op \in [TxnIds -> Ops] /\ op[t] \in Ops
  BY DEF Types
<1>2. CASE op[t].pc = "index" /\ op[t].next \notin DOMAIN SecondaryIndexes
  <2> DEFINE x == [op[t] EXCEPT !.pc = "commit"]
  <2>1. op[t] \in InsertOps /\ ~IsSelect(t)
    BY <1>1, <1>2, Kinds
  <2>2. op' = [op EXCEPT ![t] = x]
    BY <2>1 DEF Commit
  <2>3. x \in InsertOps /\ x.pc = "commit" /\ x.row = op[t].row /\ x.next = op[t].next
    BY <2>1 DEF InsertOps
  <2> HIDE DEF x
  <2> QED  BY <1>2, <2>1, <2>2, <2>3
<1>3. CASE op[t].pc = "get" /\ op[t].primaryKeyIds = {}
  <2> DEFINE f == Filtered(op[t].queryResult, op[t].query)
             x == [op[t] EXCEPT !.pc = "commit", !.queryResult = f]
  <2>1. op[t] \in SelectOps /\ IsSelect(t)
    BY <1>1, <1>3, Kinds
  <2>2. op' = [op EXCEPT ![t] = x]
    BY <2>1 DEF Commit
  <2>3. f \subseteq op[t].queryResult
    BY DEF Filtered
  <2> HIDE DEF f
  <2>4. x \in SelectOps /\ x.pc = "commit" /\ x.query = op[t].query /\ x.queryResult = f
    BY <2>1, <2>3 DEF SelectOps
  <2> HIDE DEF x
  <2> QED  BY <1>3, <2>1, <2>2, <2>4 DEF f
<1> QED  BY <1>2, <1>3 DEF Commit

\* Steps of a SELECT.
LEMMA SelectTypes ==
  ASSUME Types, NEW t \in TxnIds,
         \/ \E q \in Queries : SelectBegin(t, q)
         \/ ScanMemtable(t) \/ ScanFiles(t) \/ GetFiles(t)
         \/ \E pk \in Pks : GetMemtable(t, pk)
  PROVE  Types'
<1>1. raced \in BOOLEAN
  BY DEF Types
<1>2. ASSUME NEW q \in Queries, SelectBegin(t, q) PROVE Types'
  <2>1. UNCHANGED <<memTable, files, bufferedWriteMap, raced>>
    BY <1>2 DEF SelectBegin, Begin, TM!Begin
  <2>2. PICK x \in SelectOps : op' = [op EXCEPT ![t] = x] /\ x.pc \in {"get", "scan"}
    BY <1>2, SelectBeginOp
  <2> QED  BY <1>1, <2>1, <2>2, QuietTypes DEF Ops
<1>3. ASSUME UNCHANGED <<tmVars, memTable, files, raced>>
      PROVE  UNCHANGED <<memTable, files, bufferedWriteMap>> /\ raced' \in BOOLEAN
  BY <1>1, <1>3 DEF tmVars
<1>4. ASSUME ScanMemtable(t) PROVE Types'
  <2>1. UNCHANGED <<memTable, files, bufferedWriteMap>> /\ raced' \in BOOLEAN
    BY <1>3, <1>4 DEF ScanMemtable
  <2>2. PICK x \in SelectOps :
          /\ op' = [op EXCEPT ![t] = x] /\ x.pc = "files" /\ x.query = op[t].query
          /\ x.memTableMap = PrefixScan(memTable, op[t].query, t)
    BY <1>4, ScanMemtableOp
  <2>3. \A e \in x.memTableMap : FromRow(e) /\ InScan(e.key, x.query)
    BY <2>2, ScanFinds DEF Types
  <2> QED  BY <2>1, <2>2, <2>3, QuietTypes DEF Ops
<1>5. ASSUME ScanFiles(t) PROVE Types'
  <2>1. UNCHANGED <<memTable, files, bufferedWriteMap>> /\ raced' \in BOOLEAN
    BY <1>3, <1>5 DEF ScanFiles
  <2>2. PICK x \in SelectOps : op' = [op EXCEPT ![t] = x] /\ x.pc = "get"
    BY <1>5, ScanFilesOp
  <2> QED  BY <2>1, <2>2, QuietTypes DEF Ops
<1>6. ASSUME NEW pk, NEW e, op[t] \in SelectOps, FromRow(e) /\ e.key = RowKey(pk), Found(t, pk, e),
             UNCHANGED <<tmVars, memTable, files, raced>>
      PROVE  Types'
  <2>1. PICK x \in SelectOps : op' = [op EXCEPT ![t] = x] /\ x.pc = "get"
    BY <1>6, FoundOp
  <2> QED  BY <1>3, <1>6, <2>1, QuietTypes DEF Ops
<1>7. ASSUME NEW pk \in Pks, GetMemtable(t, pk) PROVE Types'
  <2>1. UNCHANGED <<tmVars, memTable, files, raced>>
    BY <1>7 DEF GetMemtable
  <2>2. op[t] \in SelectOps /\ pk \in op[t].primaryKeyIds
    BY <1>7, GetMemtableOp
  <2>3. ASSUME NEW e \in MemtableGet(memTable, RowKey(pk), t, snapshot[t]), Found(t, pk, e)
        PROVE  Types'
    BY <1>6, <2>1, <2>2, <2>3, ReadFromRows
  <2>4. ASSUME NEW x \in SelectOps, op' = [op EXCEPT ![t] = x], x.pc = "getFiles", x.pk = pk,
               x.primaryKeyIds = op[t].primaryKeyIds
        PROVE  Types'
    BY <1>3, <2>1, <2>2, <2>4, QuietTypes DEF Ops
  <2> QED  BY <1>7, <2>3, <2>4, GetMemtableOp
<1>8. ASSUME GetFiles(t) PROVE Types'
  <2>1. UNCHANGED <<memTable, files, raced>>
    BY <1>8 DEF GetFiles
  <2>2. op[t] \in SelectOps
    BY <1>8, GetFilesOp
  <2>3. ASSUME NEW e \in FilesGet(RowKey(op[t].pk), t), Found(t, op[t].pk, e), UNCHANGED tmVars
        PROVE  Types'
    BY <1>6, <2>1, <2>2, <2>3, ReadFromRows
  <2>4. ASSUME NEW x \in SelectOps, op' = [op EXCEPT ![t] = x], x.pc = "failed", TM!Rollback(t)
        PROVE  Types'
    <3>1. UNCHANGED bufferedWriteMap
      BY <2>4 DEF TM!Rollback
    <3> QED  BY <1>1, <2>1, <2>4, <3>1, QuietTypes DEF Ops
  <2> QED  BY <1>8, <2>3, <2>4, GetFilesOp
<1> QED  BY <1>2, <1>4, <1>5, <1>7, <1>8

\* FlushInstall adds the memtable to the files.
LEMMA FilesGrow ==
  ASSUME files \in Seq(SUBSET Entry), memTable \subseteq Entry, files' = Append(files, memTable)
  PROVE  /\ files' \in Seq(SUBSET Entry) /\ InFiles' = InFiles \cup memTable
         /\ Len(files) \in Nat /\ Len(files') = Len(files) + 1
         /\ DOMAIN files = 1 .. Len(files) /\ DOMAIN files' = 1 .. Len(files')
         /\ \A i \in DOMAIN files : files'[i] = files[i]
         /\ files'[Len(files) + 1] = memTable
<1>1. /\ files' \in Seq(SUBSET Entry) /\ Len(files) \in Nat /\ Len(files') = Len(files) + 1
      /\ DOMAIN files = 1 .. Len(files) /\ DOMAIN files' = 1 .. Len(files')
      /\ \A i \in DOMAIN files : files'[i] = files[i]
      /\ files'[Len(files) + 1] = memTable
  OBVIOUS
<1>2. DOMAIN files' = DOMAIN files \cup {Len(files) + 1}
  BY <1>1
<1>3. Range(files') = Range(files) \cup {memTable}
  BY <1>1, <1>2 DEF Range
<1>4. Range(files)' = Range(files) \cup {memTable}
  BY <1>3 DEF Range
<1> QED  BY <1>1, <1>4 DEF InFiles

\* A step that moves one goroutine inside Commit, or behind it.
LEMMA GotoTypes ==
  ASSUME Types, NEW t \in TxnIds, NEW p \in {"clear", "flushed", "returned"}, Goto(t, p),
         p = "returned" \/ op[t].pc \in {"commit", "clear"}
  PROVE  /\ op' \in [TxnIds -> Ops] /\ op'[t] = [op[t] EXCEPT !.pc = p] /\ op'[t].pc = p
         /\ \A u \in TxnIds : u # t => op'[u] = op[u]
         /\ op[t] \in InsertOps => op'[t] \in InsertOps
         /\ op[t] \in SelectOps => op'[t] \in SelectOps
         /\ op[t] \in OtherOps => op'[t] \in OtherOps
<1> DEFINE x == [op[t] EXCEPT !.pc = p]
<1>1. op \in [TxnIds -> Ops] /\ op[t] \in Ops
  BY DEF Types
<1>2. op[t] \in OtherOps => p = "returned"
  BY DEF OtherOps
<1>3. /\ op' = [op EXCEPT ![t] = x] /\ x.pc = p
      /\ op[t] \in InsertOps => x \in InsertOps
      /\ op[t] \in SelectOps => x \in SelectOps
      /\ op[t] \in OtherOps => x \in OtherOps
  BY <1>1, <1>2, GotoOp
<1> HIDE DEF x
<1>4. x \in Ops
  BY <1>1, <1>3 DEF Ops
<1> QED  BY <1>1, <1>3, <1>4 DEF x

\* Steps of Commit and Rollback.
LEMMA CommitTypes ==
  ASSUME Types, NEW t \in TxnIds,
         \/ Commit(t) \/ FlushInstall(t) \/ FlushClear(t) \/ CommitApplied(t)
         \/ \E k \in Keys : CommitPut(t, k) \/ releaseLock(t, k)
         \/ Finish(t)
  PROVE  Types'
<1>1. raced \in BOOLEAN /\ memTable \subseteq Entry /\ files \in Seq(SUBSET Entry)
      /\ op \in [TxnIds -> Ops] /\ bufferedWriteMap \in [TxnIds -> TP!WriteMaps]
  BY FromRowFacts DEF Types
<1>2. ASSUME Commit(t) PROVE Types'
  <2>1. UNCHANGED <<memTable, files, bufferedWriteMap, raced>>
    BY <1>2 DEF Commit, TM!CommitWal
  <2>2. PICK x \in Ops : op' = [op EXCEPT ![t] = x] /\ x.pc = "commit"
    BY <1>2, CommitOp DEF Ops
  <2> QED  BY <1>1, <2>1, <2>2, QuietTypes
<1>3. ASSUME \A u \in TxnIds : op'[u] = op[u] \/ op'[u].pc \in {"clear", "flushed", "returned"}
      PROVE  /\ \A u \in TxnIds : IsSelect(u)' /\ op'[u].pc = "files" =>
                  \A e \in op'[u].memTableMap : FromRow(e) /\ InScan(e.key, op'[u].query)
             /\ \A u \in TxnIds : op'[u].pc = "getFiles" => op'[u].pk \in op'[u].primaryKeyIds
  BY <1>3 DEF Types, IsSelect
<1>4. ASSUME FlushInstall(t) PROVE Types'
  <2>1. /\ files' = Append(files, memTable) /\ Goto(t, "clear") /\ op[t].pc = "commit"
        /\ UNCHANGED <<bufferedWriteMap, memTable, raced>>
    BY <1>4 DEF FlushInstall, tmVars
  <2>2. /\ op' \in [TxnIds -> Ops]
        /\ \A u \in TxnIds : op'[u] = op[u] \/ op'[u].pc \in {"clear", "flushed", "returned"}
    BY <2>1, GotoTypes
  <2>3. files' \in Seq(SUBSET Entry) /\ InFiles' = InFiles \cup memTable
    BY <1>1, <2>1, FilesGrow
  <2>4. \A e \in memTable' \cup InFiles' : FromRow(e)
    BY <2>1, <2>3 DEF Types
  <2> QED  BY <1>1, <1>3, <2>1, <2>2, <2>3, <2>4 DEF Types
<1>5. ASSUME FlushClear(t) PROVE Types'
  <2>1. /\ memTable' = {} /\ Goto(t, "flushed") /\ op[t].pc = "clear"
        /\ UNCHANGED <<bufferedWriteMap, files, raced>>
    BY <1>5 DEF FlushClear, tmVars
  <2>2. /\ op' \in [TxnIds -> Ops]
        /\ \A u \in TxnIds : op'[u] = op[u] \/ op'[u].pc \in {"clear", "flushed", "returned"}
    BY <2>1, GotoTypes
  <2>3. InFiles' = InFiles
    BY <2>1 DEF InFiles
  <2>4. \A e \in memTable' \cup InFiles' : FromRow(e)
    BY <2>1, <2>3 DEF Types
  <2> QED  BY <1>1, <1>3, <2>1, <2>2, <2>4 DEF Types
<1>6. ASSUME UNCHANGED <<memTable, files, op, raced, bufferedWriteMap>> PROVE Types'
  <2>1. InFiles' = InFiles
    BY <1>6 DEF InFiles
  <2> QED  BY <1>3, <1>6, <2>1 DEF Types
<1>7. ASSUME NEW k \in Keys, CommitPut(t, k) PROVE Types'
  <2> DEFINE e == [key |-> k, value |-> bufferedWriteMap[t][k], txnId |-> t]
  <2>1. /\ k \in DOMAIN bufferedWriteMap[t] /\ memTable' \subseteq memTable \cup {e}
        /\ UNCHANGED <<files, op, bufferedWriteMap>> /\ raced' \in BOOLEAN
    BY <1>7 DEF CommitPut, TM!CommitPut, MemtablePut
  <2>2. e \in EntriesOf(bufferedWriteMap[t], t)
    BY <2>1 DEF EntriesOf
  <2>3. FromRow(e)
    BY <2>2 DEF Types
  <2> HIDE DEF e
  <2>4. InFiles' = InFiles
    BY <2>1 DEF InFiles
  <2>5. \A f \in memTable' \cup InFiles' : FromRow(f)
    BY <2>1, <2>3, <2>4 DEF Types
  <2> QED  BY <1>3, <2>1, <2>5 DEF Types
<1>8. ASSUME Finish(t) PROVE Types'
  <2>1. /\ Goto(t, "returned") /\ UNCHANGED <<memTable, files, raced>>
        /\ bufferedWriteMap' = [bufferedWriteMap EXCEPT ![t] = TM!NoWrites]
    BY <1>8 DEF Finish, TM!Finish
  <2>2. /\ op' \in [TxnIds -> Ops]
        /\ \A u \in TxnIds : op'[u] = op[u] \/ op'[u].pc \in {"clear", "flushed", "returned"}
    BY <2>1, GotoTypes
  <2>3. TM!NoWrites \in TP!WriteMaps /\ DOMAIN TM!NoWrites = {}
    <3>1. TM!NoWrites = TP!NoWrites
      BY DEF TM!NoWrites, TP!NoWrites
    <3>2. TP!NoWrites \in TP!WriteMaps /\ DOMAIN TP!NoWrites = {}
      BY ManagerAssumption, TP!NoWritesType
    <3> QED  BY <3>1, <3>2
  <2>4. /\ bufferedWriteMap' \in [TxnIds -> TP!WriteMaps]
        /\ \A u \in TxnIds : \/ bufferedWriteMap'[u] = bufferedWriteMap[u]
                             \/ DOMAIN bufferedWriteMap'[u] = {}
    BY <1>1, <2>1, <2>3
  <2>5. \A u \in TxnIds : \A e \in EntriesOf(bufferedWriteMap'[u], u) : FromRow(e)
    BY <2>4 DEF Types, EntriesOf
  <2>6. InFiles' = InFiles
    BY <2>1 DEF InFiles
  <2> QED  BY <1>3, <2>1, <2>2, <2>4, <2>5, <2>6 DEF Types
<1>9. ASSUME CommitApplied(t) \/ \E k \in Keys : releaseLock(t, k) PROVE Types'
  BY <1>6, <1>9 DEF CommitApplied, TM!CommitApplied, releaseLock, TM!releaseLock
<1> QED  BY <1>2, <1>4, <1>5, <1>7, <1>8, <1>9

\* Every step keeps the types.
LEMMA TypesStep == Types /\ [Next]_vars => Types'
<1> SUFFICES ASSUME Types, [Next]_vars PROVE Types'
  OBVIOUS
<1>1. CASE UNCHANGED vars
  <2>1. InFiles' = InFiles
    BY <1>1 DEF vars, InFiles
  <2> QED  BY <1>1, <2>1 DEF vars, tmVars, Types, IsSelect
<1>2. ASSUME NEW t \in TxnIds,
             \/ \E r \in RowsToInsert : InsertBegin(t, r)
             \/ InsertRefused(t) \/ (\E q \in Queries : SelectBegin(t, q)) \/ CallStep(t)
      PROVE  Types'
  BY <1>2, InsertTypes, SelectTypes, CommitTypes DEF CallStep
<1> QED  BY <1>1, <1>2 DEF Next

\* The first state.
LEMMA TypesInitially == Init => Types
<1> SUFFICES ASSUME Init PROVE Types
  OBVIOUS
<1>1. /\ op = [t \in TxnIds |-> [pc |-> "idle"]] /\ files = <<Stored>> /\ memTable = {}
      /\ raced = FALSE /\ bufferedWriteMap = [t \in TM!TxnIds |-> TM!NoWrites]
  BY DEF Init, TM!Init
<1>2. [pc |-> "idle"] \in OtherOps
  BY DEF OtherOps
<1>3. op \in [TxnIds -> Ops] /\ \A t \in TxnIds : op[t].pc = "idle"
  BY <1>1, <1>2 DEF Ops
<1>4. Stored \subseteq Entry
  BY StoredFromRows, FromRowFacts
<1>5. files \in Seq(SUBSET Entry) /\ InFiles = Stored
  BY <1>1, <1>4 DEF InFiles, Range
<1>6. /\ bufferedWriteMap \in [TxnIds -> TP!WriteMaps]
      /\ \A t \in TxnIds : DOMAIN bufferedWriteMap[t] = {}
  <2>1. TM!NoWrites = TP!NoWrites
    BY DEF TM!NoWrites, TP!NoWrites
  <2>2. TP!NoWrites \in TP!WriteMaps /\ DOMAIN TP!NoWrites = {}
    BY ManagerAssumption, TP!NoWritesType
  <2> QED  BY <1>1, <2>1, <2>2, Ids
<1>7. \A t \in TxnIds : EntriesOf(bufferedWriteMap[t], t) = {}
  BY <1>6 DEF EntriesOf
<1> QED  BY <1>1, <1>3, <1>5, <1>6, <1>7, StoredFromRows DEF Types

\* The types hold throughout.
LEMMA TypesInvariant == Spec => []Types
BY TypesInitially, TypesStep, PTL DEF Spec

\* Files and blocks are only added.
LEMMA BlocksGrow ==
  ASSUME Types, Blocks, [Next]_vars
  PROVE  /\ Blocks'
         /\ \A i \in DOMAIN files : i \in DOMAIN files' /\ blockStarts'[i] = blockStarts[i]
<1>1. ASSUME UNCHANGED <<files, blockStarts>>
      PROVE  /\ Blocks'
             /\ \A i \in DOMAIN files : i \in DOMAIN files' /\ blockStarts'[i] = blockStarts[i]
  BY <1>1 DEF Blocks
<1>2. ASSUME NEW t \in TxnIds, FlushInstall(t)
      PROVE  /\ Blocks'
             /\ \A i \in DOMAIN files : i \in DOMAIN files' /\ blockStarts'[i] = blockStarts[i]
  <2>1. PICK B \in SUBSET BlockOpenings(memTable) : blockStarts' = Append(blockStarts, B)
    BY <1>2 DEF FlushInstall
  <2>2. memTable \subseteq Entry /\ files \in Seq(SUBSET Entry) /\ files' = Append(files, memTable)
    BY <1>2, FromRowFacts DEF FlushInstall, Types
  <2>3. B \in SUBSET Entry
    BY <2>1, <2>2 DEF BlockOpenings
  <2>4. /\ Len(files) \in Nat /\ DOMAIN files = 1 .. Len(files) /\ DOMAIN files' = 1 .. Len(files) + 1
        /\ \A i \in DOMAIN files : files'[i] = files[i]
        /\ files'[Len(files) + 1] = memTable
    BY <2>2, FilesGrow
  <2>5. blockStarts \in Seq(SUBSET Entry) /\ DOMAIN blockStarts = DOMAIN files
    BY DEF Blocks
  <2>6. Len(blockStarts) = Len(files)
    BY <2>4, <2>5
  <2>7. /\ blockStarts' \in Seq(SUBSET Entry) /\ DOMAIN blockStarts' = 1 .. Len(files) + 1
        /\ \A i \in DOMAIN files : blockStarts'[i] = blockStarts[i]
        /\ blockStarts'[Len(files) + 1] = B
    BY <2>1, <2>3, <2>4, <2>5, <2>6
  <2>8. DOMAIN files' = DOMAIN files \cup {Len(files) + 1}
    BY <2>4
  <2>9. ASSUME NEW i \in DOMAIN files' PROVE blockStarts'[i] \subseteq BlockOpenings(files'[i])
    <3>1. CASE i \in DOMAIN files
      BY <2>4, <2>7, <3>1 DEF Blocks
    <3>2. CASE i = Len(files) + 1
      BY <2>1, <2>4, <2>7, <3>2
    <3> QED  BY <2>8, <3>1, <3>2
  <2>10. Blocks'
    BY <2>4, <2>7, <2>9 DEF Blocks, BlockOpenings
  <2> QED  BY <2>7, <2>8, <2>10
<1>3. ASSUME ~\E t \in TxnIds : FlushInstall(t) PROVE UNCHANGED <<files, blockStarts>>
  BY <1>3 DEF Next, CallStep, vars, InsertBegin, InsertRefused, SelectBegin, InsertRow,
         InsertRowFails, InsertIndexEntry, ScanMemtable, ScanFiles, GetFiles, GetMemtable, Commit,
         CommitPut, FlushClear, CommitApplied, releaseLock, Finish
<1> QED  BY <1>1, <1>2, <1>3

\* The blocks throughout.
LEMMA BlocksInvariant == Spec => []Blocks
<1>1. Init => Blocks
  <2> SUFFICES ASSUME Init PROVE Blocks
    OBVIOUS
  <2>1. files = <<Stored>> /\ blockStarts = <<{}>>
    BY DEF Init
  <2> QED  BY <2>1 DEF Blocks
<1>2. Types /\ Blocks /\ [Next]_vars => Blocks'
  BY BlocksGrow
<1> QED  BY <1>1, <1>2, TypesInvariant, PTL DEF Spec

\* Every reachable state of the table layer is well typed.
THEOREM TableTypeCorrect == Spec => []TypeOK
<1>1. Types /\ Blocks => TypeOK
  <2> SUFFICES ASSUME Types, Blocks PROVE TypeOK
    OBVIOUS
  <2>1. memTable \subseteq Entry
    BY FromRowFacts DEF Types
  <2>2. \A i \in DOMAIN files : files[i] \subseteq Entry
    <3>1. files \in Seq(SUBSET Entry)
      BY DEF Types
    <3> QED  BY <3>1
  <2>3. ASSUME NEW t \in TxnIds
        PROVE  /\ op[t].pc \in Pcs
               /\ IsInsert(t) => /\ op[t].row \in RowsToInsert
                                 /\ op[t].next \in 1 .. Len(SecondaryIndexes) + 1
               /\ IsSelect(t) => /\ op[t].query \in Queries
                                 /\ op[t].memTableMap \subseteq Entry
                                 /\ op[t].primaryKeyIds \subseteq Pks
                                 /\ op[t].queryResult \subseteq Rows
    <3>1. op[t] \in Ops
      BY DEF Types
    <3> QED  BY <3>1, Kinds DEF InsertOps, SelectOps
  <2> QED  BY <2>1, <2>2, <2>3 DEF TypeOK, Types, Blocks
<1> QED  BY <1>1, TypesInvariant, BlocksInvariant, PTL

-------------------------------------------------------------------------------
(***************************************************************************)
(* While no two writers meet                                               *)
(***************************************************************************)

\* An INSERT meets no lock.
LEMMA NotLocked ==
  ASSUME WriteInv, NEW t \in TxnIds, Inserting(t),
         NEW k \in Keys, k.pk = op[t].row[PkColumn]
  PROVE  ~Locked(t, k)
<1>1. keyVsLocksAcquiredMap[k] \in {0} \cup TxnIds
  BY Ids DEF WriteInv, TP!Inv, TP!TypeOK
<1>2. ASSUME NEW u \in TxnIds, keyVsLocksAcquiredMap[k] = u PROVE u = t
  <2>1. k \in lockAcquiredKeys[u]
    BY <1>2, Ids DEF WriteInv, TP!Inv, TP!LocksAgree
  <2>2. Inserting(u) /\ k.pk = op[u].row[PkColumn]
    BY <2>1 DEF WriteInv, Goroutines, Writer
  <2> QED  BY <2>2 DEF WriteInv, NoTwins
<1> QED  BY <1>1, <1>2 DEF Locked

\* The keys of an INSERT are those of its primary key.
LEMMA InsertKeys ==
  ASSUME Types, NEW t \in TxnIds, IsInsert(t)
  PROVE  /\ op[t] \in InsertOps /\ op[t].row \in Rows
         /\ RowKey(op[t].row[PkColumn]) \in Keys
         /\ RowKey(op[t].row[PkColumn]).pk = op[t].row[PkColumn]
         /\ \A i \in DOMAIN SecondaryIndexes :
              /\ IndexKey(SecondaryIndexes[i], op[t].row) \in Keys
              /\ IndexKey(SecondaryIndexes[i], op[t].row).pk = op[t].row[PkColumn]
<1>1. op[t] \in InsertOps
  BY Kinds DEF Types
<1>2. op[t].row \in Rows
  BY <1>1 DEF InsertOps, Rows
<1> QED  BY <1>1, <1>2, KeysAssumption DEF RowKey, IndexKey

\* So the two ways in which an INSERT fails halfway are not taken.
LEMMA InsertPuts ==
  ASSUME Types, WriteInv, NEW t \in TxnIds
  PROVE  /\ ~InsertRowFails(t)
         /\ InsertIndexEntry(t) =>
              TM!Put(t, IndexKey(SecondaryIndexes[op[t].next], op[t].row), NoValue)
<1>1. ASSUME op[t].pc \in {"row", "index"} PROVE IsInsert(t) /\ Inserting(t)
  <2>1. IsInsert(t)
    BY <1>1, Kinds DEF Types
  <2> QED  BY <1>1, <2>1 DEF Inserting, UnderWay
<1>2. ASSUME InsertRowFails(t) PROVE FALSE
  <2>1. op[t].pc = "row" /\ Locked(t, RowKey(op[t].row[PkColumn]))
    BY <1>2 DEF InsertRowFails
  <2> QED  BY <1>1, <2>1, InsertKeys, NotLocked
<1>3. ASSUME InsertIndexEntry(t)
      PROVE  TM!Put(t, IndexKey(SecondaryIndexes[op[t].next], op[t].row), NoValue)
  <2> DEFINE k == IndexKey(SecondaryIndexes[op[t].next], op[t].row)
  <2>1. /\ op[t].pc = "index" /\ op[t].next \in DOMAIN SecondaryIndexes
        /\ TM!Put(t, k, NoValue) \/ Locked(t, k)
    BY <1>3 DEF InsertIndexEntry
  <2>2. k \in Keys /\ k.pk = op[t].row[PkColumn]
    BY <1>1, <2>1, InsertKeys
  <2> HIDE DEF k
  <2>3. ~Locked(t, k)
    BY <1>1, <2>1, <2>2, NotLocked
  <2> QED  BY <2>1, <2>3 DEF k
<1> QED  BY <1>2, <1>3

\* The actions of the manager under their two names.
LEMMA ManagerActions ==
  ASSUME NEW t \in TxnIds
  PROVE  /\ TM!Begin(t) => TP!Begin(t)
         /\ TM!CommitWal(t) => TP!CommitWal(t)
         /\ TM!Rollback(t) => TP!Rollback(t)
         /\ TM!CommitApplied(t) => TP!CommitApplied(t)
         /\ TM!Finish(t) => TP!Finish(t)
         /\ \A k : TM!CommitPut(t, k) => TP!CommitPut(t, k)
         /\ \A k : TM!releaseLock(t, k) => TP!releaseLock(t, k)
         /\ \A k, v : TM!Put(t, k, v) => TP!Put(t, k, v)
<1>1. TM!Begin(t) => TP!Begin(t)
  BY DEF TM!Begin, TP!Begin, TM!TxnIds, TP!TxnIds
<1>2. TM!CommitWal(t) => TP!CommitWal(t)
  BY DEF TM!CommitWal, TP!CommitWal
<1>3. TM!Rollback(t) => TP!Rollback(t)
  BY DEF TM!Rollback, TP!Rollback
<1>4. TM!CommitApplied(t) => TP!CommitApplied(t)
  BY DEF TM!CommitApplied, TP!CommitApplied, TM!Applied, TP!Applied, TM!EntriesOf, TP!EntriesOf
<1>5. TM!Finish(t) => TP!Finish(t)
  BY DEF TM!Finish, TP!Finish, TM!NoWrites, TP!NoWrites
<1>6. \A k : TM!CommitPut(t, k) => TP!CommitPut(t, k)
  BY DEF TM!CommitPut, TP!CommitPut, TM!MemtablePut, TP!MemtablePut
<1>7. \A k : TM!releaseLock(t, k) => TP!releaseLock(t, k)
  BY DEF TM!releaseLock, TP!releaseLock
<1>8. \A k, v : TM!Put(t, k, v) => TP!Put(t, k, v)
  BY DEF TM!Put, TP!Put, TM!tryAcquireWriteLock, TP!tryAcquireWriteLock,
         TM!BufferWrite, TP!BufferWrite
<1> QED  BY <1>1, <1>2, <1>3, <1>4, <1>5, <1>6, <1>7, <1>8

\* Every step is one of the manager, or leaves it alone.
LEMMA ManagerNext ==
  ASSUME Types, WriteInv, [Next]_vars
  PROVE  [TP!Next]_(TP!vars)
<1>1. ASSUME UNCHANGED tmVars PROVE UNCHANGED TP!vars
  BY <1>1 DEF tmVars, TP!vars
<1>2. CASE UNCHANGED vars
  BY <1>1, <1>2 DEF vars
<1>3. ASSUME NEW t \in TxnIds,
             \/ TM!Begin(t) \/ TM!CommitWal(t) \/ TM!Rollback(t) \/ TM!CommitApplied(t)
             \/ TM!Finish(t)
             \/ \E k \in Keys : TM!CommitPut(t, k) \/ TM!releaseLock(t, k)
             \/ \E k \in Keys, v \in Values : TM!Put(t, k, v)
      PROVE  TP!Next
  BY <1>3, ManagerActions, Ids DEF TP!Next, TP!CallStep
<1>4. ASSUME NEW t \in TxnIds, InsertRow(t) \/ InsertIndexEntry(t)
      PROVE  \E k \in Keys, v \in Values : TM!Put(t, k, v)
  <2>1. op[t].pc \in {"row", "index"}
    BY <1>4 DEF InsertRow, InsertIndexEntry
  <2>2. IsInsert(t)
    BY <2>1, Kinds DEF Types
  <2>3. CASE InsertRow(t)
    BY <2>2, <2>3, InsertKeys, KeysAssumption DEF InsertRow
  <2>4. CASE InsertIndexEntry(t)
    <3>1. op[t].next \in DOMAIN SecondaryIndexes
      BY <2>4 DEF InsertIndexEntry
    <3> QED  BY <2>2, <2>4, <3>1, InsertKeys, InsertPuts, KeysAssumption
  <2> QED  BY <1>4, <2>3, <2>4
<1>5. ASSUME NEW t \in TxnIds,
             \/ \E r \in RowsToInsert : InsertBegin(t, r)
             \/ InsertRefused(t) \/ (\E q \in Queries : SelectBegin(t, q)) \/ CallStep(t)
      PROVE  [TP!Next]_(TP!vars)
  <2>1. CASE (\E r \in RowsToInsert : InsertBegin(t, r)) \/ InsertRefused(t)
             \/ (\E q \in Queries : SelectBegin(t, q))
    BY <1>3, <2>1 DEF InsertBegin, InsertRefused, SelectBegin, Begin
  <2>2. CASE InsertRow(t) \/ InsertIndexEntry(t)
    BY <1>3, <1>4, <2>2
  <2>3. CASE ScanMemtable(t) \/ ScanFiles(t) \/ (\E pk \in Pks : GetMemtable(t, pk))
             \/ FlushInstall(t) \/ FlushClear(t)
    BY <1>1, <2>3 DEF ScanMemtable, ScanFiles, GetMemtable, FlushInstall, FlushClear
  <2>4. CASE GetFiles(t)
    BY <1>1, <1>3, <2>4 DEF GetFiles
  <2>5. CASE Commit(t) \/ CommitApplied(t) \/ Finish(t)
             \/ \E k \in Keys : CommitPut(t, k) \/ releaseLock(t, k)
    BY <1>3, <2>5 DEF Commit, CommitApplied, Finish, CommitPut, releaseLock
  <2>6. ~InsertRowFails(t)
    BY InsertPuts
  <2> QED  BY <1>5, <2>1, <2>2, <2>3, <2>4, <2>5, <2>6 DEF CallStep
<1> QED  BY <1>2, <1>5 DEF Next

\* What TransactionManagerProofs knows of the manager goes on to hold.
LEMMA ManagerInvs ==
  ASSUME Types, WriteInv, [Next]_vars
  PROVE  TP!Inv' /\ TP!Owned' /\ TP!StoredFromBuffer' /\ TP!EarlierOver'
<1>1. [TP!Next]_(TP!vars)
  BY ManagerNext
<1>2. TP!Inv /\ TP!Owned /\ TP!StoredFromBuffer /\ TP!EarlierOver
  BY DEF WriteInv
<1>3. TP!Inv'
  BY <1>1, <1>2, ManagerAssumption, TP!NextInv
<1>4. TP!Owned'
  BY <1>1, <1>2, ManagerAssumption, TP!NextOwned
<1>5. TP!StoredFromBuffer'
  BY <1>1, <1>2, ManagerAssumption, TP!NextStoredFromBuffer
<1>6. TP!EarlierOver'
  BY <1>1, <1>2, ManagerAssumption, TP!NextEarlierOver
<1> QED  BY <1>3, <1>4, <1>5, <1>6

\* A step of one goroutine.
Step(t) ==
  \/ \E r \in RowsToInsert : InsertBegin(t, r)
  \/ InsertRefused(t)
  \/ \E q \in Queries : SelectBegin(t, q)
  \/ CallStep(t)

\* The kinds of step, without the one that is not taken.
LEMMA Steps ==
  ASSUME Types, WriteInv, NEW t \in TxnIds, Step(t)
  PROVE  \/ \E r \in RowsToInsert : InsertBegin(t, r)
         \/ InsertRefused(t) \/ (\E q \in Queries : SelectBegin(t, q))
         \/ InsertRow(t) \/ InsertIndexEntry(t)
         \/ ScanMemtable(t) \/ ScanFiles(t) \/ (\E pk \in Pks : GetMemtable(t, pk)) \/ GetFiles(t)
         \/ Commit(t) \/ FlushInstall(t) \/ FlushClear(t) \/ CommitApplied(t) \/ Finish(t)
         \/ \E k \in Keys : CommitPut(t, k) \/ releaseLock(t, k)
BY InsertPuts DEF Step, CallStep

\* A step of one goroutine is a step, and a step is one of a goroutine.
LEMMA StepNext ==
  /\ \A t \in TxnIds : Step(t) => [Next]_vars
  /\ [Next]_vars => (\E t \in TxnIds : Step(t)) \/ UNCHANGED vars
BY DEF Next, Step

\* The step of one goroutine leaves the handles of the others alone.
LEMMA Others ==
  ASSUME Types, WriteInv, NEW t \in TxnIds, Step(t), NEW u \in TxnIds, u # t
  PROVE  /\ op'[u] = op[u] /\ phase'[u] = phase[u] /\ snapshot'[u] = snapshot[u]
         /\ bufferedWriteMap'[u] = bufferedWriteMap[u]
         /\ lockAcquiredKeys'[u] = lockAcquiredKeys[u]
<1>1. /\ op \in [TxnIds -> Ops] /\ DOMAIN op = TxnIds
      /\ phase \in [TxnIds -> TP!Phases] /\ DOMAIN phase = TxnIds
      /\ DOMAIN bufferedWriteMap = TxnIds /\ DOMAIN lockAcquiredKeys = TxnIds
      /\ DOMAIN snapshot = TxnIds
  <2>1. TP!TypeOK
    BY DEF WriteInv, TP!Inv
  <2> QED  BY <2>1, Ids DEF TP!TypeOK, Types
<1>2. op'[u] = op[u]
  <2>1. \E x : op' = [op EXCEPT ![t] = x] \/ op' = op
    <3>1. CASE (\E r \in RowsToInsert : InsertBegin(t, r)) \/ (\E q \in Queries : SelectBegin(t, q))
      BY <3>1 DEF InsertBegin, SelectBegin
    <3>2. CASE InsertRefused(t) \/ InsertRow(t) \/ InsertIndexEntry(t) \/ FlushInstall(t)
               \/ FlushClear(t) \/ Finish(t)
      BY <3>2 DEF InsertRefused, InsertRow, InsertIndexEntry, FlushInstall, FlushClear, Finish, Goto
    <3>3. CASE ScanMemtable(t) \/ ScanFiles(t) \/ (\E pk \in Pks : GetMemtable(t, pk)) \/ GetFiles(t)
               \/ Commit(t)
      BY <3>3 DEF ScanMemtable, ScanFiles, GetMemtable, GetFiles, Commit, Found, Goto
    <3>4. CASE CommitApplied(t) \/ \E k \in Keys : CommitPut(t, k) \/ releaseLock(t, k)
      BY <3>4 DEF CommitApplied, CommitPut, releaseLock
    <3> QED  BY <3>1, <3>2, <3>3, <3>4, Steps
  <2> QED  BY <1>1, <2>1
<1>3. /\ phase'[u] = phase[u] /\ snapshot'[u] = snapshot[u]
      /\ bufferedWriteMap'[u] = bufferedWriteMap[u]
      /\ lockAcquiredKeys'[u] = lockAcquiredKeys[u]
  <2>1. ASSUME UNCHANGED tmVars
        PROVE  UNCHANGED <<phase, snapshot, bufferedWriteMap, lockAcquiredKeys>>
    BY <2>1 DEF tmVars
  <2>2. CASE (\E r \in RowsToInsert : InsertBegin(t, r)) \/ (\E q \in Queries : SelectBegin(t, q))
             \/ InsertRefused(t)
    BY <1>1, <2>2 DEF InsertBegin, SelectBegin, InsertRefused, Begin, TM!Begin
  <2>3. CASE InsertRow(t) \/ InsertIndexEntry(t)
    <3>1. PICK k, v : TM!Put(t, k, v)
      BY <2>3, InsertPuts DEF InsertRow
    <3> QED  BY <1>1, <3>1 DEF TM!Put, TM!tryAcquireWriteLock
  <2>4. CASE ScanMemtable(t) \/ ScanFiles(t) \/ (\E pk \in Pks : GetMemtable(t, pk))
             \/ FlushInstall(t) \/ FlushClear(t)
    BY <2>1, <2>4 DEF ScanMemtable, ScanFiles, GetMemtable, FlushInstall, FlushClear
  <2>5. CASE GetFiles(t)
    BY <1>1, <2>1, <2>5 DEF GetFiles, TM!Rollback
  <2>6. CASE Commit(t) \/ CommitApplied(t) \/ Finish(t)
    BY <1>1, <2>6 DEF Commit, CommitApplied, Finish, TM!CommitWal, TM!CommitApplied, TM!Finish
  <2>7. CASE \E k \in Keys : CommitPut(t, k) \/ releaseLock(t, k)
    BY <1>1, <2>7 DEF CommitPut, releaseLock, TM!CommitPut, TM!releaseLock
  <2> QED  BY <2>2, <2>3, <2>4, <2>5, <2>6, <2>7, Steps
<1> QED  BY <1>2, <1>3

\* They are where they were.
LEMMA OthersStay ==
  ASSUME Types, WriteInv, NEW t \in TxnIds, Step(t), NEW u \in TxnIds, u # t
  PROVE  /\ Position(u)' /\ Writer(u)'
         /\ Inserting(u)' <=> Inserting(u)
<1>1. /\ op'[u] = op[u] /\ phase'[u] = phase[u]
      /\ bufferedWriteMap'[u] = bufferedWriteMap[u] /\ lockAcquiredKeys'[u] = lockAcquiredKeys[u]
  BY Others
<1>2. Position(u) /\ Writer(u)
  BY DEF WriteInv, Goroutines
<1>3. Position(u)'
  BY <1>1, <1>2 DEF Position
<1>4. Inserting(u)' <=> Inserting(u)
  BY <1>1 DEF Inserting, IsInsert, UnderWay
<1>5. PutSoFar(u)' = PutSoFar(u)
  BY <1>1 DEF PutSoFar
<1>6. Writer(u)'
  BY <1>1, <1>2, <1>4, <1>5 DEF Writer
<1> QED  BY <1>3, <1>4, <1>6

\* A transaction that begins had no call and no writes.
LEMMA Fresh ==
  ASSUME Types, WriteInv, NEW t \in TxnIds, TM!Begin(t)
  PROVE  /\ phase[t] = "none" /\ op[t].pc = "idle" /\ op[t] \in OtherOps /\ ~Inserting(t)
         /\ DOMAIN bufferedWriteMap[t] = {} /\ lockAcquiredKeys[t] = {}
         /\ phase'[t] = "open" /\ UNCHANGED <<bufferedWriteMap, lockAcquiredKeys>>
<1>1. phase[t] = "none"
  <2>1. TP!TypeOK /\ TP!IdsInOrder
    BY DEF WriteInv, TP!Inv
  <2> QED  BY <2>1, Ids DEF TM!Begin, TP!TypeOK, TP!IdsInOrder
<1>2. phase'[t] = "open" /\ UNCHANGED <<bufferedWriteMap, lockAcquiredKeys>>
  BY Ids DEF TM!Begin, WriteInv, TP!Inv, TP!TypeOK
<1>3. op[t].pc = "idle"
  BY <1>1, Kinds DEF WriteInv, Goroutines, Position, Types, Pcs
<1>4. op[t] \in OtherOps /\ ~Inserting(t)
  BY <1>3, Kinds DEF Types, Inserting, UnderWay
<1>5. Writer(t)
  BY DEF WriteInv, Goroutines
<1> QED  BY <1>1, <1>2, <1>3, <1>4, <1>5 DEF Writer

\* An entry of a row is known by its key.
LEMMA EntryByKey ==
  ASSUME NEW r \in Rows, NEW t \in TxnIds, NEW e \in EntriesFor(r, t), NEW f \in EntriesFor(r, t),
         e.key = f.key
  PROVE  e = f
<1>1. \A g \in EntriesFor(r, t) : g = [key |-> g.key, value |-> g.value, txnId |-> t]
  BY DEF EntriesFor
<1>2. \A g \in EntriesFor(r, t) : g.value = IF g.key.index = "" THEN r ELSE NoValue
  BY EntryFacts, Zenon
<1>3. e.value = f.value
  BY <1>2
<1> QED  BY <1>1, <1>3

\* The first steps of a call.
LEMMA BeginStays ==
  ASSUME Types, WriteInv, NEW t \in TxnIds,
         \/ \E r \in RowsToInsert : InsertBegin(t, r)
         \/ InsertRefused(t) \/ \E q \in Queries : SelectBegin(t, q)
  PROVE  Position(t)' /\ Writer(t)'
<1>1. TM!Begin(t)
  BY DEF InsertBegin, InsertRefused, SelectBegin, Begin
<1>2. /\ DOMAIN bufferedWriteMap'[t] = {} /\ lockAcquiredKeys'[t] = {} /\ phase'[t] = "open"
      /\ op[t].pc = "idle" /\ op[t] \in OtherOps
  BY <1>1, Fresh
<1>3. EntriesOf(bufferedWriteMap'[t], t) = {}
  BY <1>2 DEF EntriesOf
<1>4. ASSUME NEW r \in RowsToInsert, InsertBegin(t, r) PROVE Position(t)' /\ Writer(t)'
  <2> DEFINE x == [pc |-> "row", row |-> r, next |-> 1]
  <2>1. op'[t] = x
    BY <1>4 DEF InsertBegin, Types
  <2>2. op'[t].pc = "row" /\ op'[t].next = 1
    BY <2>1
  <2>3. PutSoFar(t)' = {}
    BY <2>2 DEF PutSoFar
  <2> QED  BY <1>2, <1>3, <2>2, <2>3 DEF Position, Writer
<1>5. ASSUME op'[t].pc \in {"returned", "get", "scan"}, ~IsInsert(t)' PROVE Position(t)' /\ Writer(t)'
  BY <1>2, <1>5 DEF Position, Writer, Inserting
<1>6. ASSUME InsertRefused(t) PROVE op'[t].pc = "returned" /\ ~IsInsert(t)'
  <2>1. op'[t] \in OtherOps /\ op'[t].pc = "returned"
    BY <1>2, <1>6, GotoTypes DEF InsertRefused
  <2> QED  BY <2>1 DEF OtherOps, IsInsert
<1>7. ASSUME NEW q \in Queries, SelectBegin(t, q)
      PROVE  op'[t].pc \in {"get", "scan"} /\ ~IsInsert(t)'
  <2>1. PICK x \in SelectOps : op' = [op EXCEPT ![t] = x] /\ x.pc \in {"get", "scan"}
    BY <1>7, SelectBeginOp
  <2>2. op'[t] = x
    BY <2>1 DEF Types
  <2> QED  BY <2>1, <2>2 DEF SelectOps, IsInsert
<1> QED  BY <1>4, <1>5, <1>6, <1>7

\* A Put of an INSERT.
LEMMA PutStays ==
  ASSUME Types, WriteInv, NEW t \in TxnIds, InsertRow(t) \/ InsertIndexEntry(t)
  PROVE  Position(t)' /\ Writer(t)'
<1>1. op[t] \in InsertOps /\ IsInsert(t) /\ op[t].pc \in {"row", "index"} /\ Inserting(t)
  <2>1. op[t].pc \in {"row", "index"}
    BY DEF InsertRow, InsertIndexEntry
  <2> QED  BY <2>1, Kinds DEF Types, Inserting, UnderWay
<1> DEFINE r == op[t].row
           i == op[t].next
<1>2. r \in Rows /\ op \in [TxnIds -> Ops] /\ i \in 1 .. Len(SecondaryIndexes) + 1
  BY <1>1, InsertKeys DEF Types, InsertOps
<1>3. /\ i \in Nat /\ DOMAIN SecondaryIndexes = 1 .. Len(SecondaryIndexes)
      /\ Len(SecondaryIndexes) \in Nat
  <2>1. SecondaryIndexes \in Seq([name : STRING, columns : Seq(STRING)])
    BY TableAssumption, Zenon
  <2> QED  BY <1>2, <2>1
<1>4. /\ EntriesOf(bufferedWriteMap[t], t) = PutSoFar(t) /\ phase[t] = "open"
      /\ \A k \in lockAcquiredKeys[t] : k.pk = r[PkColumn]
      /\ op[t].pc = "row" => i = 1
  BY <1>1 DEF WriteInv, Goroutines, Writer, Position
<1>5. DOMAIN phase = TxnIds /\ DOMAIN lockAcquiredKeys = TxnIds
  BY Ids DEF WriteInv, TP!Inv, TP!TypeOK
<1>6. ASSUME NEW k \in Keys, NEW v \in Values, TM!Put(t, k, v), k.pk = r[PkColumn],
             NEW x \in InsertOps, op' = [op EXCEPT ![t] = x], x.pc = "index", x.row = r,
             PutSoFar(t)' = { e \in PutSoFar(t) : e.key # k }
                              \cup {[key |-> k, value |-> v, txnId |-> t]}
      PROVE  Position(t)' /\ Writer(t)'
  <2>1. op'[t] = x
    BY <1>2, <1>6
  <2>2. EntriesOf(bufferedWriteMap'[t], t) = PutSoFar(t)'
    BY <1>4, <1>6, PutBuffer DEF Types
  <2>3. lockAcquiredKeys'[t] = lockAcquiredKeys[t] \cup {k} /\ phase'[t] = "open"
    BY <1>4, <1>5, <1>6 DEF TM!Put, TM!tryAcquireWriteLock
  <2>4. Inserting(t)'
    BY <1>6, <2>1 DEF Inserting, IsInsert, UnderWay, InsertOps
  <2>5. Position(t)'
    BY <1>6, <2>1, <2>3 DEF Position
  <2>6. \A j \in lockAcquiredKeys'[t] : j.pk = op'[t].row[PkColumn]
    BY <1>4, <1>6, <2>1, <2>3
  <2>7. Writer(t)'
    <3> HIDE DEF r, i
    <3> QED  BY <1>6, <2>1, <2>2, <2>4, <2>6 DEF Writer
  <2> QED  BY <2>5, <2>7
<1>7. CASE InsertRow(t)
  <2> DEFINE x == [op[t] EXCEPT !.pc = "index"]
             k == RowKey(r[PkColumn])
             new == [key |-> k, value |-> r, txnId |-> t]
  <2>1. TM!Put(t, k, r) /\ Goto(t, "index") /\ op[t].pc = "row"
    BY <1>7 DEF InsertRow
  <2>2. x \in InsertOps /\ x.pc = "index" /\ x.row = r /\ x.next = 1
    BY <1>1, <1>4, <2>1 DEF InsertOps
  <2>3. op' = [op EXCEPT ![t] = x] /\ op'[t] = x
    BY <1>2, <2>1 DEF Goto
  <2>4. PutSoFar(t) = {}
    BY <2>1 DEF PutSoFar
  <2>5. new \in EntriesFor(r, t) /\ new.key = k
    BY DEF EntriesFor
  <2>6. PutSoFar(t)' = {new}
    <3>1. PutSoFar(t)' = { e \in EntriesFor(r, t) : e.key = k }
      <4>1. \A j \in DOMAIN SecondaryIndexes : ~(j < 1)
        BY <1>3
      <4> HIDE DEF x, r
      <4> QED  BY <2>2, <2>3, <4>1 DEF PutSoFar
    <3> HIDE DEF new, k, r
    <3> QED  BY <1>2, <2>5, <3>1, EntryByKey
  <2>7. k \in Keys /\ r \in Values /\ k.pk = r[PkColumn]
    BY <1>1, <1>2, InsertKeys, KeysAssumption
  <2>8. PutSoFar(t)' = { e \in PutSoFar(t) : e.key # k } \cup {new}
    BY <2>4, <2>6
  <2> HIDE DEF x, k, r
  <2> QED  BY <1>6, <2>1, <2>2, <2>3, <2>7, <2>8
<1>8. CASE InsertIndexEntry(t)
  <2> DEFINE x == [op[t] EXCEPT !.next = @ + 1]
             k == IndexKey(SecondaryIndexes[i], r)
             new == [key |-> k, value |-> NoValue, txnId |-> t]
  <2>1. /\ TM!Put(t, k, NoValue) /\ op' = [op EXCEPT ![t] = x] /\ op[t].pc = "index"
        /\ i \in DOMAIN SecondaryIndexes
    BY <1>8, InsertPuts DEF InsertIndexEntry
  <2>2. x \in InsertOps /\ x.pc = "index" /\ x.row = r /\ x.next = i + 1
    BY <1>1, <1>3, <2>1 DEF InsertOps
  <2>3. op'[t] = x
    BY <1>2, <2>1
  <2>4. k \in Keys /\ NoValue \in Values /\ k.pk = r[PkColumn]
    BY <1>1, <2>1, InsertKeys, KeysAssumption
  <2>5. new \in EntriesFor(r, t) /\ new.key = k
    BY <2>1 DEF EntriesFor
  <2>6. PutSoFar(t)' = PutSoFar(t) \cup { e \in EntriesFor(r, t) : e.key = k }
    <3>1. \A j \in DOMAIN SecondaryIndexes : j < i + 1 <=> j < i \/ j = i
      BY <1>3
    <3>2. ASSUME NEW e
          PROVE  (\E j \in DOMAIN SecondaryIndexes :
                    j < i + 1 /\ e.key = IndexKey(SecondaryIndexes[j], r))
                 <=> \/ \E j \in DOMAIN SecondaryIndexes :
                          j < i /\ e.key = IndexKey(SecondaryIndexes[j], r)
                     \/ e.key = k
      BY <2>1, <3>1
    <3> HIDE DEF x, k
    <3> QED  BY <2>1, <2>2, <2>3, <3>2 DEF PutSoFar
  <2>7. { e \in EntriesFor(r, t) : e.key = k } = {new}
    <3> HIDE DEF new, k, r
    <3> QED  BY <1>2, <2>5, EntryByKey
  <2>8. PutSoFar(t)' = { e \in PutSoFar(t) : e.key # k } \cup {new}
    <3>1. PutSoFar(t) \subseteq EntriesFor(r, t)
      BY DEF PutSoFar
    <3> HIDE DEF new, k, r
    <3> QED  BY <2>5, <2>6, <2>7, <3>1
  <2> HIDE DEF x, k, r
  <2> QED  BY <1>6, <2>1, <2>2, <2>4, <2>8
<1> QED  BY <1>7, <1>8

\* A SELECT has no writes; the steps of its own leave the manager alone, but
\* for the Rollback.
LEMMA SelectStays ==
  ASSUME Types, WriteInv, NEW t \in TxnIds,
         \/ ScanMemtable(t) \/ ScanFiles(t) \/ GetFiles(t) \/ \E pk \in Pks : GetMemtable(t, pk)
  PROVE  /\ Position(t)' /\ Writer(t)'
         /\ op[t] \in SelectOps /\ op'[t] \in SelectOps /\ op'[t].query = op[t].query
         /\ op'[t].pc \in {"files", "get", "getFiles", "failed"}
<1>1. op \in [TxnIds -> Ops]
  BY DEF Types
<1>2. /\ op[t] \in SelectOps /\ op[t].pc \in {"scan", "files", "get", "getFiles"}
      /\ \/ /\ UNCHANGED tmVars
            /\ \E x \in SelectOps : /\ op' = [op EXCEPT ![t] = x] /\ x.query = op[t].query
                                    /\ x.pc \in {"files", "get", "getFiles"}
         \/ /\ TM!Rollback(t)
            /\ \E x \in SelectOps : op' = [op EXCEPT ![t] = x] /\ x.query = op[t].query
                                    /\ x.pc = "failed"
  <2>1. CASE ScanMemtable(t)
    BY <2>1, ScanMemtableOp DEF ScanMemtable
  <2>2. CASE ScanFiles(t)
    BY <2>2, ScanFilesOp DEF ScanFiles
  <2>3. ASSUME NEW pk \in Pks, GetMemtable(t, pk)
        PROVE  /\ op[t] \in SelectOps /\ op[t].pc = "get" /\ UNCHANGED tmVars
               /\ \E x \in SelectOps : /\ op' = [op EXCEPT ![t] = x] /\ x.query = op[t].query
                                       /\ x.pc \in {"get", "getFiles"}
    <3>1. op[t] \in SelectOps /\ op[t].pc = "get" /\ UNCHANGED tmVars
      BY <2>3, GetMemtableOp DEF GetMemtable
    <3>2. ASSUME NEW e \in MemtableGet(memTable, RowKey(pk), t, snapshot[t]), Found(t, pk, e)
          PROVE  \E x \in SelectOps : /\ op' = [op EXCEPT ![t] = x] /\ x.query = op[t].query
                                      /\ x.pc = "get"
      <4>1. FromRow(e) /\ e.key = RowKey(pk)
        BY <3>2, ReadFromRows
      <4> QED  BY <3>1, <3>2, <4>1, FoundOp
    <3> QED  BY <2>3, <3>1, <3>2, GetMemtableOp
  <2>4. CASE GetFiles(t)
    <3>1. op[t] \in SelectOps /\ op[t].pc = "getFiles"
      BY <2>4, GetFilesOp
    <3>2. ASSUME NEW e \in FilesGet(RowKey(op[t].pk), t), Found(t, op[t].pk, e)
          PROVE  \E x \in SelectOps : /\ op' = [op EXCEPT ![t] = x] /\ x.query = op[t].query
                                      /\ x.pc = "get"
      <4>1. FromRow(e) /\ e.key = RowKey(op[t].pk)
        BY <3>2, ReadFromRows
      <4> QED  BY <3>1, <3>2, <4>1, FoundOp
    <3> QED  BY <2>4, <3>1, <3>2, GetFilesOp
  <2> QED  BY <2>1, <2>2, <2>3, <2>4
<1>3. /\ phase[t] = "open" /\ DOMAIN bufferedWriteMap[t] = {} /\ lockAcquiredKeys[t] = {}
      /\ ~IsInsert(t) /\ DOMAIN phase = TxnIds
  <2>1. ~IsInsert(t)
    BY <1>2, Kinds DEF Types
  <2> QED  BY <1>2, <2>1, Ids
           DEF WriteInv, Goroutines, Writer, Position, Inserting, TP!Inv, TP!TypeOK
<1>4. ASSUME op'[t] \in SelectOps PROVE ~IsInsert(t)'
  BY <1>4 DEF SelectOps, IsInsert
<1>5. CASE UNCHANGED tmVars
  <2>1. op'[t] \in SelectOps /\ op'[t].query = op[t].query /\ op'[t].pc \in {"files", "get", "getFiles"}
    <3>1. ~TM!Rollback(t)
      BY <1>3, <1>5 DEF TM!Rollback, tmVars
    <3> QED  BY <1>1, <1>2, <3>1
  <2>2. UNCHANGED <<phase, bufferedWriteMap, lockAcquiredKeys>>
    BY <1>5 DEF tmVars
  <2> QED  BY <1>2, <1>3, <1>4, <2>1, <2>2 DEF Position, Writer, Inserting
<1>6. CASE TM!Rollback(t)
  <2>1. op'[t] \in SelectOps /\ op'[t].query = op[t].query /\ op'[t].pc = "failed"
    <3>1. ~UNCHANGED tmVars
      BY <1>3, <1>6 DEF TM!Rollback, tmVars
    <3> QED  BY <1>1, <1>2, <3>1
  <2>2. UNCHANGED <<bufferedWriteMap, lockAcquiredKeys>> /\ phase'[t] = "undoing"
    BY <1>3, <1>6 DEF TM!Rollback
  <2> QED  BY <1>2, <1>3, <1>4, <2>1, <2>2 DEF Position, Writer, Inserting
<1> QED  BY <1>2, <1>5, <1>6

\* What an INSERT has put does not change once Commit is called.
LEMMA PutAll ==
  ASSUME NEW t \in TxnIds, op[t].pc # "row", op'[t].pc # "row",
         op'[t].row = op[t].row, op'[t].next = op[t].next
  PROVE  PutSoFar(t)' = PutSoFar(t)
BY DEF PutSoFar

\* The steps of Commit and of Rollback.
LEMMA CommitStays ==
  ASSUME Types, WriteInv, NEW t \in TxnIds,
         \/ Commit(t) \/ FlushInstall(t) \/ FlushClear(t) \/ CommitApplied(t)
         \/ \E k \in Keys : CommitPut(t, k) \/ releaseLock(t, k)
         \/ Finish(t)
  PROVE  /\ Position(t)' /\ Writer(t)'
         /\ IsInsert(t)' <=> IsInsert(t)
         /\ IsSelect(t)' <=> IsSelect(t)
         /\ IsInsert(t) => op'[t].row = op[t].row
         /\ IsSelect(t) => op'[t].query = op[t].query
         /\ Inserting(t)' => Inserting(t)
<1>1. /\ op \in [TxnIds -> Ops] /\ op[t] \in Ops /\ Position(t) /\ Writer(t)
      /\ DOMAIN phase = TxnIds /\ DOMAIN lockAcquiredKeys = TxnIds /\ DOMAIN bufferedWriteMap = TxnIds
  BY Ids DEF Types, WriteInv, Goroutines, TP!Inv, TP!TypeOK
<1>2. ASSUME NEW p, Goto(t, p) PROVE op'[t] = [op[t] EXCEPT !.pc = p] /\ op'[t].pc = p
  <2>1. op'[t] = [op[t] EXCEPT !.pc = p]
    BY <1>1, <1>2 DEF Goto
  <2> QED  BY <1>1, <2>1 DEF Ops, OtherOps, InsertOps, SelectOps
<1>3. ASSUME NEW p, op'[t] = [op[t] EXCEPT !.pc = p]
      PROVE  /\ IsInsert(t)' <=> IsInsert(t)
             /\ IsSelect(t)' <=> IsSelect(t)
             /\ IsInsert(t) => op'[t].row = op[t].row /\ op'[t].next = op[t].next
             /\ IsSelect(t) => op'[t].query = op[t].query
  BY <1>1, <1>3 DEF Ops, OtherOps, InsertOps, SelectOps, IsInsert, IsSelect
<1>4. CASE Commit(t)
  <2>1. /\ phase'[t] = "applying" /\ UNCHANGED <<bufferedWriteMap, lockAcquiredKeys>>
    BY <1>1, <1>4 DEF Commit, TM!CommitWal
  <2>2. ASSUME NEW x \in InsertOps, op[t] \in InsertOps, op[t].pc = "index",
               op[t].next \notin DOMAIN SecondaryIndexes, op' = [op EXCEPT ![t] = x],
               x.pc = "commit", x.row = op[t].row, x.next = op[t].next
        PROVE  /\ Position(t)' /\ Writer(t)' /\ IsInsert(t)' /\ IsInsert(t)
               /\ op'[t].row = op[t].row /\ Inserting(t) /\ ~IsSelect(t) /\ ~IsSelect(t)'
    <3>1. op'[t] = x
      BY <1>1, <2>2
    <3>2. IsInsert(t)' /\ Inserting(t)' /\ IsInsert(t) /\ Inserting(t) /\ ~IsSelect(t) /\ ~IsSelect(t)'
      BY <2>2, <3>1 DEF InsertOps, IsInsert, Inserting, UnderWay, IsSelect
    <3>3. PutSoFar(t)' = PutSoFar(t)
      BY <2>2, <3>1, PutAll
    <3>4. Position(t)'
      BY <2>1, <2>2, <3>1 DEF Position
    <3> QED  BY <1>1, <2>1, <2>2, <3>1, <3>2, <3>3, <3>4 DEF Writer
  <2>3. ASSUME NEW x \in SelectOps, op[t] \in SelectOps, op' = [op EXCEPT ![t] = x],
               x.pc = "commit", x.query = op[t].query
        PROVE  /\ Position(t)' /\ Writer(t)' /\ IsSelect(t)' /\ IsSelect(t)
               /\ op'[t].query = op[t].query /\ ~IsInsert(t) /\ ~IsInsert(t)' /\ ~Inserting(t)'
    <3>1. op'[t] = x
      BY <1>1, <2>3
    <3>2. IsSelect(t)' /\ IsSelect(t) /\ ~IsInsert(t) /\ ~IsInsert(t)' /\ ~Inserting(t) /\ ~Inserting(t)'
      BY <2>3, <3>1 DEF SelectOps, IsInsert, Inserting, IsSelect
    <3>3. Position(t)'
      BY <2>1, <2>3, <3>1 DEF Position
    <3> QED  BY <1>1, <2>1, <2>3, <3>1, <3>2, <3>3 DEF Writer
  <2> QED  BY <1>4, <2>2, <2>3, CommitOp
<1>5. ASSUME NEW p \in {"clear", "flushed"}, Goto(t, p), op[t].pc \in {"commit", "clear"},
             UNCHANGED tmVars, phase[t] = "applying"
      PROVE  Position(t)' /\ Writer(t)' /\ (Inserting(t)' => Inserting(t))
  <2>1. op'[t] = [op[t] EXCEPT !.pc = p] /\ op'[t].pc = p
    BY <1>2, <1>5
  <2>2. UNCHANGED <<phase, bufferedWriteMap, lockAcquiredKeys>>
    BY <1>5 DEF tmVars
  <2>3. Inserting(t)' <=> Inserting(t)
    BY <1>3, <1>5, <2>1 DEF Inserting, UnderWay
  <2>4. Position(t)'
    BY <1>5, <2>1, <2>2 DEF Position
  <2>5. CASE Inserting(t)
    <3>1. PutSoFar(t)' = PutSoFar(t) /\ op'[t].row = op[t].row /\ op'[t].next = op[t].next
      <4>1. op'[t].row = op[t].row /\ op'[t].next = op[t].next
        BY <1>3, <2>1, <2>5 DEF Inserting
      <4> QED  BY <1>5, <2>1, <4>1, PutAll
    <3> QED  BY <1>1, <1>5, <2>1, <2>2, <2>3, <2>4, <2>5, <3>1 DEF Writer
  <2> QED  BY <1>1, <2>2, <2>3, <2>4, <2>5 DEF Writer
<1>6. CASE FlushInstall(t)
  <2>1. Goto(t, "clear") /\ op[t].pc = "commit" /\ UNCHANGED tmVars /\ phase[t] = "applying"
    BY <1>6 DEF FlushInstall
  <2> QED  BY <1>2, <1>3, <1>5, <2>1
<1>7. CASE FlushClear(t)
  <2>1. Goto(t, "flushed") /\ op[t].pc = "clear" /\ UNCHANGED tmVars
    BY <1>7 DEF FlushClear
  <2>2. phase[t] = "applying"
    BY <1>1, <2>1 DEF Position
  <2> QED  BY <1>2, <1>3, <1>5, <2>1, <2>2
<1>8. ASSUME UNCHANGED <<op, bufferedWriteMap>>, lockAcquiredKeys'[t] \subseteq lockAcquiredKeys[t]
      PROVE  /\ Writer(t)' /\ (Inserting(t)' => Inserting(t))
             /\ IsInsert(t)' <=> IsInsert(t)
             /\ IsSelect(t)' <=> IsSelect(t)
  <2>1. /\ Inserting(t)' <=> Inserting(t)
        /\ IsInsert(t)' <=> IsInsert(t)
        /\ IsSelect(t)' <=> IsSelect(t)
        /\ PutSoFar(t)' = PutSoFar(t)
    BY <1>8 DEF Inserting, UnderWay, IsInsert, IsSelect, PutSoFar
  <2> QED  BY <1>1, <1>8, <2>1 DEF Writer
<1>9. CASE CommitApplied(t)
  <2>1. /\ UNCHANGED <<op, bufferedWriteMap, lockAcquiredKeys>> /\ phase'[t] = "releasing"
        /\ op[t].pc \in {"flushed", "commit"}
    BY <1>1, <1>9 DEF CommitApplied, TM!CommitApplied
  <2>2. Position(t)'
    BY <2>1 DEF Position
  <2> QED  BY <1>8, <2>1, <2>2
<1>10. ASSUME NEW k \in Keys, CommitPut(t, k) \/ releaseLock(t, k)
       PROVE  /\ Position(t)' /\ Writer(t)' /\ (Inserting(t)' => Inserting(t)) /\ op' = op
              /\ IsInsert(t)' <=> IsInsert(t)
              /\ IsSelect(t)' <=> IsSelect(t)
  <2>1. /\ UNCHANGED <<op, bufferedWriteMap, phase>>
        /\ lockAcquiredKeys'[t] \subseteq lockAcquiredKeys[t]
    BY <1>1, <1>10 DEF CommitPut, TM!CommitPut, releaseLock, TM!releaseLock
  <2>2. Position(t)'
    BY <1>1, <2>1 DEF Position
  <2> QED  BY <1>8, <2>1, <2>2
<1>11. CASE Finish(t)
  <2>1. /\ Goto(t, "returned") /\ lockAcquiredKeys'[t] = {} /\ bufferedWriteMap'[t] = TM!NoWrites
        /\ phase'[t] \in {"committed", "aborted"}
    BY <1>1, <1>11 DEF Finish, TM!Finish
  <2>2. DOMAIN TM!NoWrites = {}
    BY DEF TM!NoWrites
  <2>3. op'[t] = [op[t] EXCEPT !.pc = "returned"] /\ op'[t].pc = "returned"
    BY <1>2, <2>1
  <2>4. ~Inserting(t)'
    BY <2>3 DEF Inserting, UnderWay
  <2>5. Position(t)'
    BY <2>1, <2>3 DEF Position
  <2>6. Writer(t)'
    BY <2>1, <2>2, <2>4 DEF Writer
  <2> QED  BY <1>3, <2>3, <2>4, <2>5, <2>6
<1> QED  BY <1>4, <1>6, <1>7, <1>9, <1>10, <1>11

\* Every stored entry is of a row, and of a transaction whose Commit was called.
LEMMA AllFacts ==
  ASSUME Types, WriteInv, NEW e \in All
  PROVE  /\ FromRow(e) /\ e.txnId \in TxnIds
         /\ phase[e.txnId] \in {"applying", "releasing", "committed"}
         /\ e \in Stored => e.txnId = 1 /\ phase[1] = "committed"
<1>1. FromRow(e) /\ e.txnId \in TxnIds
  <2>1. e \in memTable \cup InFiles
    BY DEF WriteInv, Held
  <2> QED  BY <2>1, FromRowFacts DEF Types
<1>2. phase[1] = "committed"
  <2>1. 1 \in TP!TxnIds /\ 1 < 2
    BY Ids
  <2> QED  BY <2>1 DEF WriteInv, TP!EarlierOver
<1>3. e \in Stored => e.txnId = 1
  BY StoredFromRows
<1>4. e \in versions => phase[e.txnId] \in {"applying", "releasing", "committed"}
  BY DEF WriteInv, TP!Owned
<1> QED  BY <1>1, <1>2, <1>3, <1>4 DEF All

\* A round of Commit's loop stores an entry that an INSERT under way has put.
LEMMA StoresOne ==
  ASSUME Types, WriteInv, NEW t \in TxnIds, NEW k \in Keys, CommitPut(t, k)
  PROVE  \E new :
           /\ new \in PutSoFar(t) /\ new.txnId = t /\ new.key = k
           /\ Inserting(t) /\ phase[t] = "applying" /\ k.pk = op[t].row[PkColumn]
           /\ \A e \in All : ~(e.key = k /\ e.txnId = t)
           /\ memTable' = memTable \cup {new} /\ All' = All \cup {new}
           /\ UNCHANGED <<files, op, phase, snapshot>> /\ InFiles' = InFiles
<1> DEFINE new == [key |-> k, value |-> bufferedWriteMap[t][k], txnId |-> t]
<1>1. /\ phase[t] = "applying" /\ k \in DOMAIN bufferedWriteMap[t] /\ new \notin versions
      /\ versions' = { e \in versions : ~(e.key = k /\ e.txnId = t) } \cup {new}
      /\ memTable' = { e \in memTable : ~(e.key = k /\ e.txnId = t) } \cup {new}
      /\ UNCHANGED <<files, op, phase, snapshot>>
  BY DEF CommitPut, TM!CommitPut, MemtablePut, TM!MemtablePut
<1>2. new \in EntriesOf(bufferedWriteMap[t], t) /\ new.txnId = t /\ new.key = k
  BY <1>1 DEF EntriesOf
<1>3. Inserting(t) /\ new \in PutSoFar(t)
  <2>1. Writer(t)
    BY DEF WriteInv, Goroutines
  <2> QED  BY <1>1, <1>2, <2>1 DEF Writer
<1>4. k.pk = op[t].row[PkColumn]
  <2>1. op[t].row \in Rows /\ new \in EntriesFor(op[t].row, t)
    BY <1>3, InsertKeys DEF Inserting, PutSoFar
  <2>2. new.key.pk = op[t].row[PkColumn]
    <3> HIDE DEF new
    <3> QED  BY <2>1, EntryFacts
  <2> QED  BY <1>2, <2>2
<1>5. ASSUME NEW e \in All, e.key = k, e.txnId = t PROVE FALSE
  <2>1. CASE e \in Stored
    BY <1>1, <1>5, <2>1, AllFacts
  <2>2. CASE e \in versions
    <3>1. e \in EntriesOf(bufferedWriteMap[t], t)
      <4>1. TP!EntriesOf(bufferedWriteMap[t], t) = EntriesOf(bufferedWriteMap[t], t)
        BY DEF TP!EntriesOf, EntriesOf
      <4> QED  BY <1>1, <1>5, <2>2, <4>1, Ids DEF WriteInv, TP!StoredFromBuffer
    <3>2. e = new
      BY <1>5, <3>1 DEF EntriesOf
    <3> QED  BY <1>1, <2>2, <3>2
  <2> QED  BY <1>5, <2>1, <2>2 DEF All
<1> HIDE DEF new
<1>6. memTable \subseteq All /\ versions \subseteq All
  BY DEF WriteInv, Held, All
<1>7. memTable' = memTable \cup {new} /\ versions' = versions \cup {new}
  BY <1>1, <1>5, <1>6
<1>8. All' = All \cup {new}
  BY <1>7 DEF All
<1>9. InFiles' = InFiles
  BY <1>1 DEF InFiles
<1> QED  BY <1>1, <1>2, <1>3, <1>4, <1>5, <1>7, <1>8, <1>9

\* Every other step leaves the stored entries alone: a flush moves them.
LEMMA EntriesStay ==
  ASSUME Types, WriteInv, NEW t \in TxnIds, Step(t), ~\E k \in Keys : CommitPut(t, k)
  PROVE  /\ All' = All
         /\ ~FlushInstall(t) /\ ~FlushClear(t) =>
              UNCHANGED <<memTable, files>> /\ InFiles' = InFiles
<1>1. ASSUME UNCHANGED tmVars PROVE UNCHANGED versions
  BY <1>1 DEF tmVars
<1>2. UNCHANGED versions
  <2>1. CASE (\E r \in RowsToInsert : InsertBegin(t, r)) \/ (\E q \in Queries : SelectBegin(t, q))
             \/ InsertRefused(t)
    BY <2>1 DEF InsertBegin, SelectBegin, InsertRefused, Begin, TM!Begin
  <2>2. CASE InsertRow(t) \/ InsertIndexEntry(t)
    BY <2>2, InsertPuts DEF InsertRow, TM!Put
  <2>3. CASE ScanMemtable(t) \/ ScanFiles(t) \/ (\E pk \in Pks : GetMemtable(t, pk))
             \/ FlushInstall(t) \/ FlushClear(t)
    BY <1>1, <2>3 DEF ScanMemtable, ScanFiles, GetMemtable, FlushInstall, FlushClear
  <2>4. CASE GetFiles(t)
    BY <1>1, <2>4 DEF GetFiles, TM!Rollback
  <2>5. CASE Commit(t) \/ CommitApplied(t) \/ Finish(t) \/ \E k \in Keys : releaseLock(t, k)
    BY <2>5 DEF Commit, CommitApplied, Finish, releaseLock, TM!CommitWal, TM!CommitApplied,
                TM!Finish, TM!releaseLock
  <2> QED  BY <2>1, <2>2, <2>3, <2>4, <2>5, Steps
<1>3. ~FlushInstall(t) /\ ~FlushClear(t) => UNCHANGED <<memTable, files>>
  <2>1. CASE (\E r \in RowsToInsert : InsertBegin(t, r)) \/ (\E q \in Queries : SelectBegin(t, q))
             \/ InsertRefused(t) \/ InsertRow(t) \/ InsertIndexEntry(t)
    BY <2>1 DEF InsertBegin, SelectBegin, InsertRefused, InsertRow, InsertIndexEntry
  <2>2. CASE ScanMemtable(t) \/ ScanFiles(t) \/ (\E pk \in Pks : GetMemtable(t, pk)) \/ GetFiles(t)
    BY <2>2 DEF ScanMemtable, ScanFiles, GetMemtable, GetFiles
  <2>3. CASE Commit(t) \/ CommitApplied(t) \/ Finish(t) \/ \E k \in Keys : releaseLock(t, k)
    BY <2>3 DEF Commit, CommitApplied, Finish, releaseLock
  <2> QED  BY <2>1, <2>2, <2>3, Steps
<1>4. UNCHANGED files => InFiles' = InFiles
  BY DEF InFiles
<1> QED  BY <1>2, <1>3, <1>4 DEF All

\* Who inserts what: INSERTs begin, and end.
LEMMA WritersMove ==
  ASSUME Types, WriteInv, NEW t \in TxnIds, Step(t)
  PROVE  /\ Goroutines'
         /\ \/ \E r \in RowsToInsert :
                 /\ InsertBegin(t, r) /\ op'[t].row = r /\ phase[t] = "none"
                 /\ \A u \in TxnIds : u # t /\ Inserting(u)' => Inserting(u) /\ op'[u].row = op[u].row
            \/ \A u \in TxnIds : Inserting(u)' => Inserting(u) /\ op'[u].row = op[u].row
<1>1. \A u \in TxnIds : u # t => /\ Position(u)' /\ Writer(u)' /\ op'[u] = op[u]
                                 /\ Inserting(u)' <=> Inserting(u)
  BY Others, OthersStay
<1>2. ASSUME NEW r \in RowsToInsert, InsertBegin(t, r)
      PROVE  Position(t)' /\ Writer(t)' /\ op'[t].row = r /\ phase[t] = "none"
  <2>1. op'[t].row = r
    BY <1>2 DEF InsertBegin, Types
  <2> QED  BY <1>2, <2>1, BeginStays, Fresh DEF InsertBegin, Begin
<1>3. ASSUME InsertRefused(t) \/ \E q \in Queries : SelectBegin(t, q)
      PROVE  Position(t)' /\ Writer(t)' /\ ~Inserting(t)'
  <2>1. TM!Begin(t) /\ op[t] \in OtherOps
    BY <1>3, Fresh DEF InsertRefused, SelectBegin, Begin
  <2>2. CASE InsertRefused(t)
    <3>1. op'[t].pc = "returned"
      BY <2>2, GotoTypes DEF InsertRefused
    <3> QED  BY <2>2, <3>1, BeginStays DEF Inserting, UnderWay
  <2>3. ASSUME NEW q \in Queries, SelectBegin(t, q) PROVE ~Inserting(t)'
    <3>1. op'[t] \in SelectOps
      BY <2>3, SelectBeginOp DEF Types
    <3> QED  BY <3>1 DEF Inserting, IsInsert, SelectOps
  <2> QED  BY <1>3, <2>2, <2>3, BeginStays
<1>4. ASSUME InsertRow(t) \/ InsertIndexEntry(t)
      PROVE  Position(t)' /\ Writer(t)' /\ Inserting(t) /\ op'[t].row = op[t].row
  <2>1. op[t].pc \in {"row", "index"}
    BY <1>4 DEF InsertRow, InsertIndexEntry
  <2>2. op[t] \in InsertOps /\ Inserting(t)
    BY <2>1, Kinds DEF Types, Inserting, UnderWay
  <2>3. op'[t].row = op[t].row
    <3>1. op'[t] = [op[t] EXCEPT !.pc = "index"] \/ op'[t] = [op[t] EXCEPT !.next = @ + 1]
      BY <1>4 DEF InsertRow, InsertIndexEntry, Goto, Types
    <3> QED  BY <2>2, <3>1 DEF InsertOps
  <2> QED  BY <1>4, <2>2, <2>3, PutStays
<1>5. ASSUME \/ ScanMemtable(t) \/ ScanFiles(t) \/ GetFiles(t) \/ \E pk \in Pks : GetMemtable(t, pk)
      PROVE  Position(t)' /\ Writer(t)' /\ ~Inserting(t)'
  <2>1. Position(t)' /\ Writer(t)' /\ op'[t] \in SelectOps
    BY <1>5, SelectStays
  <2> QED  BY <2>1 DEF Inserting, IsInsert, SelectOps
<1>6. ASSUME \/ Commit(t) \/ FlushInstall(t) \/ FlushClear(t) \/ CommitApplied(t)
             \/ \E k \in Keys : CommitPut(t, k) \/ releaseLock(t, k)
             \/ Finish(t)
      PROVE  /\ Position(t)' /\ Writer(t)'
             /\ Inserting(t)' => Inserting(t) /\ op'[t].row = op[t].row
  <2>1. /\ Position(t)' /\ Writer(t)' /\ (Inserting(t)' => Inserting(t))
        /\ IsInsert(t) => op'[t].row = op[t].row
    BY <1>6, CommitStays
  <2> QED  BY <2>1 DEF Inserting
<1>7. Position(t)' /\ Writer(t)'
  BY <1>2, <1>3, <1>4, <1>5, <1>6, Steps
<1>8. Goroutines'
  <2>1. ASSUME NEW u \in TxnIds PROVE Position(u)' /\ Writer(u)'
    BY <1>1, <1>7
  <2>2. TxnIds' = TxnIds
    BY DEF TxnIds, TM!TxnIds
  <2> QED  BY <2>1, <2>2 DEF Goroutines
<1> QED  BY <1>1, <1>2, <1>3, <1>4, <1>5, <1>6, <1>8, Steps

\* Only FlushInstall brings a flush to its Clear.
LEMMA Clears ==
  ASSUME Types, WriteInv, NEW t \in TxnIds, Step(t), ~FlushInstall(t),
         NEW u \in TxnIds, op'[u].pc = "clear"
  PROVE  op[u].pc = "clear"
<1>1. CASE u # t
  BY <1>1, Others
<1>2. CASE u = t
  <2>1. op \in [TxnIds -> Ops] /\ op[t] \in Ops
    BY DEF Types
  <2>2. CASE \E r \in RowsToInsert : InsertBegin(t, r)
    <3>1. op'[t].pc = "row"
      BY <2>1, <2>2 DEF InsertBegin
    <3> QED  BY <1>2, <3>1
  <2>3. CASE \E q \in Queries : SelectBegin(t, q)
    <3>1. op'[t].pc \in {"get", "scan"}
      BY <2>1, <2>3, SelectBeginOp
    <3> QED  BY <1>2, <3>1
  <2>4. ASSUME NEW p, Goto(t, p) PROVE op'[t].pc = p
    BY <2>1, <2>4, GotoOp
  <2>5. CASE InsertRefused(t) \/ InsertRow(t) \/ FlushClear(t) \/ Finish(t)
    <3>1. op'[t].pc \in {"returned", "index", "flushed"}
      BY <2>4, <2>5 DEF InsertRefused, InsertRow, FlushClear, Finish
    <3> QED  BY <1>2, <3>1
  <2>6. CASE InsertIndexEntry(t)
    <3>1. op[t] \in InsertOps /\ op[t].pc = "index" /\ op'[t] = [op[t] EXCEPT !.next = @ + 1]
      BY <2>1, <2>6, Kinds DEF InsertIndexEntry
    <3>2. op'[t].pc = "index"
      BY <3>1 DEF InsertOps
    <3> QED  BY <1>2, <3>2
  <2>7. CASE ScanMemtable(t) \/ ScanFiles(t) \/ GetFiles(t) \/ \E pk \in Pks : GetMemtable(t, pk)
    <3>1. op'[t].pc \in {"files", "get", "getFiles", "failed"}
      BY <2>7, SelectStays
    <3> QED  BY <1>2, <3>1
  <2>8. CASE Commit(t)
    <3>1. op'[t].pc = "commit"
      BY <2>1, <2>8, CommitOp
    <3> QED  BY <1>2, <3>1
  <2>9. CASE CommitApplied(t) \/ \E k \in Keys : CommitPut(t, k) \/ releaseLock(t, k)
    BY <1>2, <2>9 DEF CommitApplied, CommitPut, releaseLock
  <2> QED  BY <2>2, <2>3, <2>5, <2>6, <2>7, <2>8, <2>9, Steps
<1> QED  BY <1>1, <1>2

\* No two INSERTs of a primary key are under way, and none finds something
\* younger of its primary key.
LEMMA NoTwinsStep ==
  ASSUME Types, WriteInv, NEW t \in TxnIds, Step(t), ~raced'
  PROVE  NoTwins' /\ Youngest'
<1>1. TxnIds' = TxnIds
  BY DEF TxnIds, TM!TxnIds
<1>2. CASE \E r \in RowsToInsert :
             /\ InsertBegin(t, r) /\ op'[t].row = r /\ phase[t] = "none"
             /\ \A u \in TxnIds : u # t /\ Inserting(u)' => Inserting(u) /\ op'[u].row = op[u].row
  <2> PICK r \in RowsToInsert :
             /\ InsertBegin(t, r) /\ op'[t].row = r /\ phase[t] = "none"
             /\ \A u \in TxnIds : u # t /\ Inserting(u)' => Inserting(u) /\ op'[u].row = op[u].row
    BY <1>2
  <2>1. \A u \in TxnIds : Inserting(u) => op[u].row[PkColumn] # r[PkColumn]
    BY DEF InsertBegin, Inserting
  <2>2. NoTwins'
    <3>1. \A u, v \in TxnIds :
            Inserting(u)' /\ Inserting(v)' /\ op'[u].row[PkColumn] = op'[v].row[PkColumn] => u = v
      BY <2>1 DEF WriteInv, NoTwins
    <3> QED  BY <1>1, <3>1 DEF NoTwins
  <2>3. All' = All
    <3>1. ~\E k \in Keys : CommitPut(t, k)
      BY DEF CommitPut, TM!CommitPut
    <3> QED  BY <3>1, EntriesStay
  <2>4. ASSUME NEW e \in All PROVE e.txnId <= t
    <3>1. e.txnId \in TxnIds /\ phase[e.txnId] # "none"
      BY AllFacts
    <3>2. e.txnId < nextTransactionId /\ t = nextTransactionId
      <4>1. t = nextTransactionId
        BY DEF InsertBegin, Begin, TM!Begin
      <4> QED  BY <3>1, <4>1, Ids DEF WriteInv, TP!Inv, TP!IdsInOrder
    <3> QED  BY <3>1, <3>2, Ids
  <2>5. \A u \in TxnIds : Inserting(u)' =>
          \A e \in All' : e.key.pk = op'[u].row[PkColumn] => e.txnId <= u
    BY <2>3, <2>4 DEF WriteInv, Youngest
  <2> QED  BY <1>1, <2>2, <2>5 DEF Youngest
<1>3. CASE \A u \in TxnIds : Inserting(u)' => Inserting(u) /\ op'[u].row = op[u].row
  <2>1. NoTwins'
    <3>1. \A u, v \in TxnIds :
            Inserting(u)' /\ Inserting(v)' /\ op'[u].row[PkColumn] = op'[v].row[PkColumn] => u = v
      BY <1>3 DEF WriteInv, NoTwins
    <3> QED  BY <1>1, <3>1 DEF NoTwins
  <2>2. ASSUME NEW u \in TxnIds, Inserting(u)', NEW e \in All', e.key.pk = op'[u].row[PkColumn]
        PROVE  e.txnId <= u
    <3>1. Inserting(u) /\ e.key.pk = op[u].row[PkColumn]
      BY <1>3, <2>2
    <3>2. CASE e \in All
      BY <3>1, <3>2 DEF WriteInv, Youngest
    <3>3. CASE e \notin All
      <4>1. PICK k \in Keys : CommitPut(t, k)
        BY <2>2, <3>3, EntriesStay
      <4>2. e.txnId = t /\ Inserting(t) /\ e.key.pk = op[t].row[PkColumn]
        BY <2>2, <3>3, <4>1, StoresOne
      <4>3. t = u
        BY <3>1, <4>2 DEF WriteInv, NoTwins
      <4> QED  BY <4>2, <4>3, Ids
    <3> QED  BY <3>2, <3>3
  <2> QED  BY <1>1, <2>1, <2>2 DEF Youngest
<1> QED  BY <1>2, <1>3, WritersMove

\* What the memtable and the files hold.
LEMMA HeldStep ==
  ASSUME Types, Types', WriteInv, NEW t \in TxnIds, Step(t), ~raced'
  PROVE  Held' /\ OneVersion' /\ Ordered'
<1>1. Held /\ OneVersion /\ Ordered
  BY DEF WriteInv
<1>2. TxnIds' = TxnIds
  BY DEF TxnIds, TM!TxnIds
<1>3. CASE \E k \in Keys : CommitPut(t, k)
  <2> PICK k \in Keys : CommitPut(t, k)
    BY <1>3
  <2>1. PICK new :
          /\ new.txnId = t /\ new.key = k /\ Inserting(t) /\ k.pk = op[t].row[PkColumn]
          /\ \A e \in All : ~(e.key = k /\ e.txnId = t)
          /\ memTable' = memTable \cup {new} /\ All' = All \cup {new}
          /\ UNCHANGED <<files, op>> /\ InFiles' = InFiles
    BY StoresOne
  <2>2. ~\E u \in TxnIds : op'[u].pc = "clear"
    BY <2>1 DEF CommitPut
  <2>3. Held'
    BY <1>1, <1>2, <2>1, <2>2 DEF Held
  <2>4. OneVersion'
    BY <1>1, <2>1 DEF OneVersion
  <2>5. Follows(InFiles', memTable')
    <3>1. ASSUME NEW e \in InFiles, e.key = k PROVE e.txnId <= t
      <4>1. e \in All
        BY <1>1 DEF Held
      <4> QED  BY <2>1, <3>1, <4>1 DEF WriteInv, Youngest
    <3> QED  BY <1>1, <2>1, <3>1 DEF Ordered, Follows
  <2>6. \A i, j \in DOMAIN files' : i < j => Follows(files'[i], files'[j])
    BY <1>1, <2>1 DEF Ordered
  <2>7. Ordered'
    BY <2>5, <2>6 DEF Ordered, Follows
  <2> QED  BY <2>3, <2>4, <2>7
<1>4. CASE ~\E k \in Keys : CommitPut(t, k)
  <2>1. All' = All /\ (~FlushInstall(t) /\ ~FlushClear(t) =>
                         UNCHANGED <<memTable, files>> /\ InFiles' = InFiles)
    BY <1>4, EntriesStay
  <2>2. OneVersion'
    BY <1>1, <2>1 DEF OneVersion
  <2>3. CASE FlushInstall(t)
    <3>1. files' = Append(files, memTable) /\ UNCHANGED memTable
      BY <2>3 DEF FlushInstall
    <3>2. memTable \subseteq Entry /\ files \in Seq(SUBSET Entry)
      BY FromRowFacts DEF Types
    <3>3. /\ InFiles' = InFiles \cup memTable
          /\ Len(files) \in Nat /\ Len(files') = Len(files) + 1
          /\ DOMAIN files = 1 .. Len(files) /\ DOMAIN files' = 1 .. Len(files')
          /\ \A i \in DOMAIN files : files'[i] = files[i]
          /\ files'[Len(files) + 1] = memTable
      BY <3>1, <3>2, FilesGrow
    <3>4. Held'
      BY <1>1, <2>1, <3>1, <3>3 DEF Held
    <3>5. ASSUME NEW i \in DOMAIN files', NEW j \in DOMAIN files', i < j
          PROVE  Follows(files'[i], files'[j])
      <4>1. i \in DOMAIN files /\ files'[i] = files[i]
        BY <3>3, <3>5
      <4>2. CASE j = Len(files) + 1
        <5>1. files[i] \subseteq InFiles
          BY <4>1 DEF InFiles, Range
        <5> QED  BY <1>1, <3>3, <4>1, <4>2, <5>1 DEF Ordered, Follows
      <4>3. CASE j # Len(files) + 1
        <5>1. j \in DOMAIN files /\ files'[j] = files[j]
          BY <3>3, <4>3
        <5> QED  BY <1>1, <3>5, <4>1, <5>1 DEF Ordered
      <4> QED  BY <4>2, <4>3
    <3>6. Follows(InFiles', memTable')
      BY <1>1, <3>1, <3>3 DEF Ordered, Follows
    <3>7. Ordered'
      BY <3>5, <3>6 DEF Ordered, Follows
    <3> QED  BY <2>2, <3>4, <3>7
  <2>4. CASE FlushClear(t)
    <3>1. UNCHANGED files /\ memTable' = {} /\ op[t].pc = "clear"
      BY <2>4 DEF FlushClear
    <3>2. InFiles' = InFiles
      BY <3>1 DEF InFiles
    <3>3. Held'
      BY <1>1, <2>1, <3>1, <3>2 DEF Held
    <3>4. Ordered'
      BY <1>1, <3>1, <3>2 DEF Ordered, Follows
    <3> QED  BY <2>2, <3>3, <3>4
  <2>5. CASE ~FlushInstall(t) /\ ~FlushClear(t)
    <3>1. (\E u \in TxnIds : op'[u].pc = "clear") => \E u \in TxnIds : op[u].pc = "clear"
      BY <2>5, Clears
    <3>2. Held'
      BY <1>1, <1>2, <2>1, <2>5, <3>1 DEF Held
    <3>3. Ordered'
      BY <1>1, <2>1, <2>5 DEF Ordered, Follows
    <3> QED  BY <2>2, <3>2, <3>3
  <2> QED  BY <2>3, <2>4, <2>5
<1> QED  BY <1>3, <1>4

\* Behind its last index, an INSERT has put everything of its row.
LEMMA EverythingPut ==
  ASSUME Types, NEW t \in TxnIds, IsInsert(t), op[t].pc # "row",
         op[t].next \notin DOMAIN SecondaryIndexes
  PROVE  PutSoFar(t) = EntriesFor(op[t].row, t)
<1>1. op[t] \in InsertOps
  BY InsertKeys
<1>2. /\ DOMAIN SecondaryIndexes = 1 .. Len(SecondaryIndexes) /\ Len(SecondaryIndexes) \in Nat
  <2>1. SecondaryIndexes \in Seq([name : STRING, columns : Seq(STRING)])
    BY TableAssumption, Zenon
  <2> QED  BY <2>1
<1>3. op[t].next = Len(SecondaryIndexes) + 1
  BY <1>1, <1>2 DEF InsertOps
<1>4. \A i \in DOMAIN SecondaryIndexes : i < op[t].next
  BY <1>2, <1>3
<1>5. ASSUME NEW e \in EntriesFor(op[t].row, t) PROVE e \in PutSoFar(t)
  <2>1. \/ e.key = RowKey(op[t].row[PkColumn])
        \/ \E i \in DOMAIN SecondaryIndexes : e.key = IndexKey(SecondaryIndexes[i], op[t].row)
    BY DEF EntriesFor
  <2> QED  BY <1>4, <2>1 DEF PutSoFar
<1> QED  BY <1>5 DEF PutSoFar

\* A transaction gets committed in Finish, behind the release of the locks.
LEMMA CommitsInFinish ==
  ASSUME Types, WriteInv, NEW t \in TxnIds, Step(t), phase[t] # "committed",
         phase'[t] = "committed"
  PROVE  phase[t] = "releasing" /\ Finish(t)
<1>1. DOMAIN phase = TxnIds
  BY Ids DEF WriteInv, TP!Inv, TP!TypeOK
<1>2. ASSUME UNCHANGED tmVars PROVE phase' = phase
  BY <1>2 DEF tmVars
<1>3. CASE (\E r \in RowsToInsert : InsertBegin(t, r)) \/ (\E q \in Queries : SelectBegin(t, q))
           \/ InsertRefused(t)
  BY <1>1, <1>3 DEF InsertBegin, SelectBegin, InsertRefused, Begin, TM!Begin
<1>4. CASE InsertRow(t) \/ InsertIndexEntry(t)
  BY <1>4, InsertPuts DEF InsertRow, TM!Put
<1>5. CASE ScanMemtable(t) \/ ScanFiles(t) \/ (\E pk \in Pks : GetMemtable(t, pk))
           \/ FlushInstall(t) \/ FlushClear(t)
  BY <1>2, <1>5 DEF ScanMemtable, ScanFiles, GetMemtable, FlushInstall, FlushClear
<1>6. CASE GetFiles(t)
  BY <1>1, <1>2, <1>6 DEF GetFiles, TM!Rollback
<1>7. CASE Commit(t) \/ CommitApplied(t)
  BY <1>1, <1>7 DEF Commit, CommitApplied, TM!CommitWal, TM!CommitApplied
<1>8. CASE \E k \in Keys : CommitPut(t, k) \/ releaseLock(t, k)
  BY <1>8 DEF CommitPut, releaseLock, TM!CommitPut, TM!releaseLock
<1>9. CASE Finish(t)
  BY <1>1, <1>9 DEF Finish, TM!Finish
<1> QED  BY <1>3, <1>4, <1>5, <1>6, <1>7, <1>8, <1>9, Steps

\* Of a transaction that is over everything is stored.
LEMMA CompleteStep ==
  ASSUME Types, WriteInv, NEW t \in TxnIds, Step(t)
  PROVE  Complete'
<1>1. All \subseteq All'
  <2>1. CASE \E k \in Keys : CommitPut(t, k)
    BY <2>1, StoresOne
  <2> QED  BY <2>1, EntriesStay
<1>2. ASSUME NEW e \in All', phase'[e.txnId] = "committed"
      PROVE  \E r \in Rows : e \in EntriesFor(r, e.txnId) /\ EntriesFor(r, e.txnId) \subseteq All'
  <2>1. e \in All
    <3> SUFFICES ASSUME e \notin All PROVE FALSE
      OBVIOUS
    <3>1. PICK k \in Keys : CommitPut(t, k)
      BY <1>2, EntriesStay
    <3>2. e.txnId = t /\ phase[t] = "applying" /\ phase' = phase
      BY <1>2, <3>1, StoresOne
    <3> QED  BY <1>2, <3>2
  <2>2. e.txnId \in TxnIds /\ (e \in Stored => phase[e.txnId] = "committed")
    BY <2>1, AllFacts
  <2>3. CASE phase[e.txnId] = "committed"
    BY <1>1, <2>1, <2>3 DEF WriteInv, Complete
  <2>4. CASE phase[e.txnId] # "committed"
    <3>1. e.txnId = t
      BY <1>2, <2>2, <2>4, Others
    <3>2. phase[t] = "releasing" /\ e \in versions
      BY <1>2, <2>1, <2>2, <2>4, <3>1, CommitsInFinish DEF All
    <3>3. /\ e \in EntriesOf(bufferedWriteMap[t], t)
          /\ EntriesOf(bufferedWriteMap[t], t) \subseteq versions
      <4>1. TP!EntriesOf(bufferedWriteMap[t], t) = EntriesOf(bufferedWriteMap[t], t)
        BY DEF TP!EntriesOf, EntriesOf
      <4> QED  BY <3>1, <3>2, <4>1, Ids DEF WriteInv, TP!StoredFromBuffer, TP!Applied
    <3>4. Position(t) /\ Writer(t)
      BY DEF WriteInv, Goroutines
    <3>5. Inserting(t)
      BY <3>3, <3>4 DEF Writer, EntriesOf
    <3>6. IsInsert(t) /\ op[t].pc \notin {"row", "index"}
      BY <3>2, <3>4, <3>5 DEF Position, Inserting
    <3>7. /\ EntriesOf(bufferedWriteMap[t], t) = PutSoFar(t)
          /\ op[t].next \notin DOMAIN SecondaryIndexes
      BY <3>4, <3>5, <3>6 DEF Writer
    <3>8. PutSoFar(t) = EntriesFor(op[t].row, t) /\ op[t].row \in Rows
      BY <3>6, <3>7, EverythingPut, InsertKeys
    <3>9. EntriesFor(op[t].row, t) \subseteq All'
      BY <1>1, <3>3, <3>7, <3>8 DEF All
    <3> QED  BY <3>1, <3>3, <3>7, <3>8, <3>9
  <2> QED  BY <2>3, <2>4
<1> QED  BY <1>2 DEF Complete

\* Unless two writers meet, every step keeps the facts about writers.
LEMMA WriteStep ==
  ASSUME Types, Types', WriteInv, [Next]_vars, ~raced'
  PROVE  WriteInv'
<1>1. TP!Inv' /\ TP!Owned' /\ TP!StoredFromBuffer' /\ TP!EarlierOver'
  BY ManagerInvs
<1>2. ASSUME NEW t \in TxnIds, Step(t) PROVE WriteInv'
  BY <1>1, <1>2, WritersMove, NoTwinsStep, HeldStep, CompleteStep DEF WriteInv
<1>3. CASE UNCHANGED vars
  <2>1. UNCHANGED <<memTable, files, op, raced, phase, snapshot, bufferedWriteMap,
                    lockAcquiredKeys, versions>> /\ TxnIds' = TxnIds
    BY <1>3 DEF vars, tmVars, TxnIds, TM!TxnIds
  <2>2. All' = All /\ InFiles' = InFiles
    BY <2>1 DEF All, InFiles
  <2>3. \A t \in TxnIds : /\ PutSoFar(t)' = PutSoFar(t)
                          /\ Inserting(t)' <=> Inserting(t)
    BY <2>1 DEF PutSoFar, Inserting, IsInsert, UnderWay
  <2>4. Goroutines'
    BY <2>1, <2>3 DEF WriteInv, Goroutines, Position, Writer
  <2>5. NoTwins' /\ Youngest'
    BY <2>1, <2>2, <2>3 DEF WriteInv, NoTwins, Youngest
  <2>6. Held' /\ OneVersion'
    BY <2>1, <2>2 DEF WriteInv, Held, OneVersion
  <2>7. Ordered' /\ Complete'
    BY <2>1, <2>2 DEF WriteInv, Ordered, Follows, Complete
  <2> QED  BY <1>1, <2>4, <2>5, <2>6, <2>7 DEF WriteInv
<1> QED  BY <1>2, <1>3, StepNext

\* They hold at first.
LEMMA WriteInitially == Init => WriteInv
<1> SUFFICES ASSUME Init PROVE WriteInv
  OBVIOUS
<1>1. /\ TM!Init /\ memTable = {} /\ files = <<Stored>> /\ op = [t \in TxnIds |-> [pc |-> "idle"]]
  BY DEF Init
<1>2. TP!Init
  BY <1>1 DEF TM!Init, TP!Init, TM!TxnIds, TP!TxnIds, TM!NoWrites, TP!NoWrites
<1>3. TP!Inv
  BY <1>2, ManagerAssumption, TP!InitInv
<1>4. TP!Owned /\ TP!StoredFromBuffer /\ TP!EarlierOver
  <2>1. /\ versions = {} /\ nextTransactionId = 2
        /\ phase = [t \in TP!TxnIds |-> IF t < 2 THEN "committed" ELSE "none"]
    BY <1>2 DEF TP!Init
  <2> QED  BY <2>1, Ids DEF TP!Owned, TP!StoredFromBuffer, TP!EarlierOver
<1>5. \A t \in TxnIds : op[t].pc = "idle" /\ ~IsInsert(t) /\ ~Inserting(t)
  BY <1>1 DEF IsInsert, Inserting
<1>6. Goroutines
  <2>1. DOMAIN TM!NoWrites = {}
    BY DEF TM!NoWrites
  <2>2. \A t \in TxnIds : /\ phase[t] \in {"none", "committed"} /\ lockAcquiredKeys[t] = {}
                          /\ DOMAIN bufferedWriteMap[t] = {}
    BY <1>1, <2>1, Ids DEF TM!Init
  <2> QED  BY <1>5, <2>2 DEF Goroutines, Position, Writer
<1>7. NoTwins /\ Youngest
  BY <1>5 DEF NoTwins, Youngest
<1>8. All = Stored /\ InFiles = Stored
  BY <1>1 DEF All, InFiles, Range, TM!Init
<1>9. Held
  BY <1>1, <1>8 DEF Held
<1>10. DOMAIN files = {1}
  BY <1>1
<1>11. Ordered
  BY <1>1, <1>10 DEF Ordered, Follows
<1>12. ASSUME NEW e \in Stored
       PROVE  \E r \in StoredRows : e \in EntriesFor(r, 1) /\ EntriesFor(r, 1) \subseteq Stored
  BY DEF Stored
<1>13. OneVersion
  <2> SUFFICES ASSUME NEW e \in Stored, NEW f \in Stored, e.key = f.key PROVE e = f
    BY <1>8 DEF OneVersion
  <2>1. PICK r \in StoredRows : e \in EntriesFor(r, 1)
    BY <1>12
  <2>2. PICK s \in StoredRows : f \in EntriesFor(s, 1)
    BY <1>12
  <2>3. r \in Rows /\ s \in Rows /\ 1 \in TxnIds
    BY Ids DEF Rows
  <2>4. e.key.pk = r[PkColumn] /\ f.key.pk = s[PkColumn]
    BY <2>1, <2>2, <2>3, EntryFacts
  <2>5. r = s
    <3>1. \A x, y \in StoredRows : x[PkColumn] = y[PkColumn] => x = y
      BY TableAssumption, Zenon
    <3> QED  BY <2>4, <3>1
  <2> QED  BY <2>1, <2>2, <2>3, <2>5, EntryByKey
<1>14. Complete
  <2> SUFFICES ASSUME NEW e \in Stored
               PROVE  \E r \in Rows : e \in EntriesFor(r, e.txnId) /\ EntriesFor(r, e.txnId) \subseteq Stored
    BY <1>8 DEF Complete
  <2>1. e.txnId = 1
    BY StoredFromRows
  <2> QED  BY <1>12, <2>1 DEF Rows
<1> QED  BY <1>3, <1>4, <1>6, <1>7, <1>9, <1>11, <1>13, <1>14 DEF WriteInv

-------------------------------------------------------------------------------
(***************************************************************************)
(* Reads of the memtable and of the files                                  *)
(***************************************************************************)

\* A set of entries with one entry of its largest transaction id.
LEMMA SameNewest ==
  ASSUME NEW W, NEW V \in SUBSET W, \A e \in W : e.txnId \in TxnIds,
         \A e, f \in W : e.txnId = f.txnId => e = f,
         NEW m \in V, \A e \in W : e.txnId <= m.txnId
  PROVE  Newest(V) = {m} /\ Newest(W) = {m}
<1>1. ASSUME NEW e \in W, m.txnId <= e.txnId PROVE e = m
  <2>1. e.txnId \in Nat /\ m.txnId \in Nat /\ e.txnId <= m.txnId
    BY Ids
  <2>2. e.txnId = m.txnId
    BY <1>1, <2>1
  <2> QED  BY <2>2
<1>2. m \in Newest(V) /\ m \in Newest(W)
  BY DEF Newest
<1>3. Newest(V) \subseteq {m} /\ Newest(W) \subseteq {m}
  BY <1>1 DEF Newest
<1> QED  BY <1>2, <1>3

\* Entries that are not none have a newest one.
LEMMA HasNewest ==
  ASSUME NEW V, V # {}, \A e \in V : e.txnId \in TxnIds
  PROVE  \E m \in V : \A e \in V : e.txnId <= m.txnId
<1> DEFINE S == { e.txnId : e \in V }
<1>1. S \in SUBSET (0 .. MaxTxnId) /\ S # {} /\ MaxTxnId \in Nat
  BY Ids
<1>2. Max(S) \in S /\ \A j \in S : Max(S) >= j
  <2> HIDE DEF S
  <2> QED  BY <1>1, MaxIn
<1>3. PICK m \in V : m.txnId = Max(S)
  BY <1>2
<1>4. ASSUME NEW e \in V PROVE e.txnId <= m.txnId
  <2>1. e.txnId \in S
    OBVIOUS
  <2>2. S \subseteq Nat
    BY Ids
  <2> HIDE DEF S
  <2> QED  BY <1>2, <1>3, <2>1, <2>2
<1> QED  BY <1>4

\* What t sees of a key.
LEMMA SeenOfKey ==
  ASSUME Types, WriteInv, NEW t, NEW k
  PROVE  /\ \A e \in Of(View(t), k) : e.txnId \in TxnIds
         /\ \A e, f \in Of(View(t), k) : e.txnId = f.txnId => e = f
         /\ Of(View(t), k) # {} => Newest(Of(View(t), k)) # {}
         /\ VisibleEntries(memTable, k, t, snapshot[t]) = Of(View(t), k) \cap memTable
         /\ VisibleEntries(InFiles, k, t, snapshot[t]) = Of(View(t), k) \cap InFiles
         /\ \A i \in DOMAIN files :
              VisibleEntries(files[i], k, t, snapshot[t]) = Of(View(t), k) \cap files[i]
         /\ Read(t, k) = Newest(Of(View(t), k))
<1>1. \A e \in Of(View(t), k) : e.txnId \in TxnIds
  BY AllFacts DEF Of, View
<1>2. \A e, f \in Of(View(t), k) : e.txnId = f.txnId => e = f
  BY DEF WriteInv, OneVersion, Of, View
<1>3. Of(View(t), k) # {} => Newest(Of(View(t), k)) # {}
  <2> DEFINE W == Of(View(t), k)
  <2>1. \A e \in W : e.txnId \in TxnIds
    BY <1>1
  <2> HIDE DEF W
  <2>2. W # {} => Newest(W) # {}
    BY <2>1, HasNewest DEF Newest
  <2> QED  BY <2>2 DEF W
<1>4. memTable \subseteq All /\ InFiles \subseteq All
  BY DEF WriteInv, Held
<1>5. \A i \in DOMAIN files : files[i] \subseteq InFiles
  BY DEF InFiles, Range
<1>6. /\ VisibleEntries(memTable, k, t, snapshot[t]) = Of(View(t), k) \cap memTable
      /\ VisibleEntries(InFiles, k, t, snapshot[t]) = Of(View(t), k) \cap InFiles
  BY <1>4 DEF VisibleEntries, Of, View
<1>7. \A i \in DOMAIN files :
        VisibleEntries(files[i], k, t, snapshot[t]) = Of(View(t), k) \cap files[i]
  BY <1>4, <1>5 DEF VisibleEntries, Of, View
<1>8. Read(t, k) = Newest(Of(View(t), k))
  <2>1. VisibleEntries(Stored \cup versions, k, t, snapshot[t]) = Of(View(t), k)
    BY DEF VisibleEntries, Of, View, All
  <2> QED  BY <2>1 DEF Read, MemtableGet
<1> QED  BY <1>1, <1>2, <1>3, <1>6, <1>7, <1>8

\* What the memtable has of a key is the newest; if it has nothing the files
\* have it all.
LEMMA MemtableRead ==
  ASSUME Types, WriteInv, NEW t, NEW k
  PROVE  LET m == MemtableGet(memTable, k, t, snapshot[t])
         IN  /\ m # {} => m = Newest(Of(View(t), k))
             /\ m = {} => Of(View(t), k) \subseteq InFiles
<1> DEFINE W == Of(View(t), k)
           V == W \cap memTable
<1>1. /\ \A e \in W : e.txnId \in TxnIds
      /\ \A e, f \in W : e.txnId = f.txnId => e = f
      /\ VisibleEntries(memTable, k, t, snapshot[t]) = V
  BY SeenOfKey, Zenon
<1>2. MemtableGet(memTable, k, t, snapshot[t]) = Newest(V)
  BY <1>1 DEF MemtableGet
<1>3. W \subseteq memTable \cup InFiles /\ \A e \in W : e.key = k
  BY DEF WriteInv, Held, Of, View
<1> HIDE DEF W
<1>4. ASSUME NEW m \in V, \A e \in V : e.txnId <= m.txnId PROVE Newest(V) = Newest(W)
  <2>1. ASSUME NEW e \in W PROVE e.txnId <= m.txnId
    <3>1. CASE e \in memTable
      BY <1>4, <3>1
    <3>2. CASE e \in InFiles
      <4>1. e.key = m.key
        BY <1>3
      <4>2. e.txnId <= m.txnId \/ e \in memTable
        BY <3>2, <4>1 DEF WriteInv, Ordered, Follows
      <4> QED  BY <3>1, <4>2
    <3> QED  BY <1>3, <3>1, <3>2
  <2>2. V \in SUBSET W
    OBVIOUS
  <2> HIDE DEF V
  <2> QED  BY <1>1, <2>1, <2>2, SameNewest
<1>5. V # {} => Newest(V) = Newest(W) /\ Newest(V) # {}
  <2>1. \A e \in V : e.txnId \in TxnIds
    BY <1>1
  <2>2. V # {} => \E m \in V : \A e \in V : e.txnId <= m.txnId
    <3> HIDE DEF V
    <3> QED  BY <2>1, HasNewest
  <2>3. \A m \in V : (\A e \in V : e.txnId <= m.txnId) => m \in Newest(V)
    BY DEF Newest
  <2> QED  BY <1>4, <2>2, <2>3
<1>6. V = {} => W \subseteq InFiles
  BY <1>3
<1>7. Newest({}) = {}
  BY DEF Newest
<1> QED  BY <1>2, <1>5, <1>6, <1>7 DEF W

\* The newest that t sees of a key in a file is behind the start of the last
\* block that opens with the key, if t sees what opens a block.
LEMMA SearchedRead ==
  ASSUME Types, WriteInv, Blocks, NEW t, SeesBlockStarts(t), NEW k, NEW i \in DOMAIN files
  PROVE  /\ VisibleEntries(Searched(i, k), k, t, snapshot[t]) = Of(View(t), k) \cap Searched(i, k)
         /\ Searched(i, k) \subseteq files[i]
         /\ Of(View(t), k) \cap files[i] # {} =>
              \E m \in Of(View(t), k) \cap Searched(i, k) :
                \A e \in Of(View(t), k) \cap files[i] : e.txnId <= m.txnId
<1> DEFINE W == Of(View(t), k)
           V == W \cap files[i]
<1>1. Searched(i, k) \subseteq files[i]
  BY DEF Searched
<1>2. files[i] \subseteq All
  BY DEF InFiles, Range, WriteInv, Held
<1>3. VisibleEntries(Searched(i, k), k, t, snapshot[t]) = W \cap Searched(i, k)
  BY <1>1, <1>2 DEF VisibleEntries, Of, View
<1>4. \A b \in blockStarts[i] : b \in files[i] /\ CanSee(b.txnId, t, snapshot[t])
  BY DEF Blocks, BlockOpenings, SeesBlockStarts
<1>5. \A b \in blockStarts[i] : b.key = k => b \in V
  BY <1>2, <1>4 DEF Of, View
<1>6. \A e \in V : e.txnId \in TxnIds
  BY SeenOfKey, Zenon
<1>7. ASSUME V # {} PROVE \E m \in V : \A e \in V : e.txnId <= m.txnId
  <2> HIDE DEF V
  <2> QED  BY <1>6, <1>7, HasNewest
<1>8. ASSUME NEW m \in V, \A e \in V : e.txnId <= m.txnId PROVE m \in W \cap Searched(i, k)
  BY <1>5, <1>8 DEF Searched
<1> QED  BY <1>1, <1>3, <1>7, <1>8

\* If the files have all of a key, the newest file with something of it has
\* the newest.
LEMMA FilesRead ==
  ASSUME Types, WriteInv, Blocks, NEW t, SeesBlockStarts(t), NEW k, Of(View(t), k) \subseteq InFiles
  PROVE  FilesGet(k, t) = Newest(Of(View(t), k))
<1> DEFINE W == Of(View(t), k)
           found == { i \in DOMAIN files : VisibleEntries(Searched(i, k), k, t, snapshot[t]) # {} }
<1>1. /\ \A e \in W : e.txnId \in TxnIds /\ e.key = k
      /\ \A e, f \in W : e.txnId = f.txnId => e = f
  <2>1. /\ \A e \in W : e.txnId \in TxnIds
        /\ \A e, f \in W : e.txnId = f.txnId => e = f
    BY SeenOfKey, Zenon
  <2>2. \A e \in W : e.key = k
    BY DEF Of
  <2> QED  BY <2>1, <2>2, Zenon
<1>2. \A e \in W : \E i \in DOMAIN files : e \in files[i]
  BY DEF InFiles, Range
<1>3. \A i \in DOMAIN files :
        /\ VisibleEntries(Searched(i, k), k, t, snapshot[t]) = W \cap Searched(i, k)
        /\ Searched(i, k) \subseteq files[i]
        /\ W \cap files[i] # {} =>
             \E m \in W \cap Searched(i, k) : \A e \in W \cap files[i] : e.txnId <= m.txnId
  BY SearchedRead, Zenon
<1>4. found = { i \in DOMAIN files : W \cap files[i] # {} }
  <2> HIDE DEF W
  <2> QED  BY <1>3
<1>5. found \subseteq DOMAIN files /\ DOMAIN files \subseteq Nat
      /\ (found # {} => Max(found) \in found /\ \A j \in found : Max(found) >= j)
  <2>1. files \in Seq(SUBSET Entry)
    BY DEF Types
  <2>2. Len(files) \in Nat /\ found \in SUBSET (0 .. Len(files)) /\ DOMAIN files \subseteq Nat
    BY <2>1
  <2>3. found \subseteq DOMAIN files
    OBVIOUS
  <2> HIDE DEF found
  <2> QED  BY <2>2, <2>3, MaxIn
<1>6. FilesGet(k, t) = IF found = {} THEN {} ELSE Newest(W \cap Searched(Max(found), k))
  <2> HIDE DEF W
  <2>1. found # {} =>
          VisibleEntries(Searched(Max(found), k), k, t, snapshot[t]) = W \cap Searched(Max(found), k)
    BY <1>3, <1>5
  <2> QED  BY <2>1 DEF FilesGet, MemtableGet
<1>7. CASE found = {}
  <2>1. W = {}
    BY <1>2, <1>4, <1>7
  <2>2. Newest(W) = {}
    BY <2>1 DEF Newest
  <2> QED  BY <1>6, <1>7, <2>2
<1>8. CASE found # {}
  <2> DEFINE n == Max(found)
             V == W \cap Searched(n, k)
  <2>1. n \in found /\ n \in DOMAIN files /\ (\A j \in found : n >= j)
    BY <1>5, <1>8
  <2> HIDE DEF found, n, W
  <2>2. PICK m \in V : \A e \in W \cap files[n] : e.txnId <= m.txnId
    BY <1>3, <1>4, <2>1
  <2>3. m \in files[n]
    BY <1>3, <2>1
  <2>4. ASSUME NEW e \in W PROVE e.txnId <= m.txnId
    <3>1. PICK i \in DOMAIN files : e \in files[i]
      BY <1>2
    <3>2. i \in found
      BY <1>4, <3>1
    <3>3. i < n \/ i = n
      BY <1>5, <2>1, <3>2
    <3>4. e.key = m.key
      BY <1>1
    <3>5. i < n => Follows(files[i], files[n])
      BY <2>1, <3>1 DEF WriteInv, Ordered
    <3>6. i < n => e.txnId <= m.txnId \/ e \in files[n]
      BY <2>3, <3>1, <3>4, <3>5 DEF Follows
    <3> QED  BY <2>2, <3>1, <3>3, <3>6
  <2>5. V \in SUBSET W
    OBVIOUS
  <2> HIDE DEF V
  <2>6. Newest(V) = Newest(W)
    BY <1>1, <2>2, <2>4, <2>5, SameNewest
  <2> QED  BY <1>6, <1>8, <2>6 DEF V, W, n
<1> QED  BY <1>7, <1>8

\* A scan of a set of entries reads each key it asks for.
LEMMA ScanOfKey ==
  ASSUME NEW S, NEW q, NEW t, NEW k, InScan(k, q)
  PROVE  Of(PrefixScan(S, q, t), k) = MemtableGet(S, k, t, snapshot[t])
<1>1. \A j : MemtableGet(S, j, t, snapshot[t]) \subseteq { e \in S : e.key = j }
  BY DEF MemtableGet, Newest, VisibleEntries
<1>2. ASSUME NEW e \in Of(PrefixScan(S, q, t), k) PROVE e \in MemtableGet(S, k, t, snapshot[t])
  BY <1>1 DEF Of, PrefixScan
<1>3. ASSUME NEW e \in MemtableGet(S, k, t, snapshot[t]) PROVE e \in Of(PrefixScan(S, q, t), k)
  <2>1. e \in S /\ e.key = k
    BY <1>1
  <2> QED  BY <2>1 DEF Of, PrefixScan
<1> QED  BY <1>2, <1>3

-------------------------------------------------------------------------------
(***************************************************************************)
(* The steps of a SELECT                                                   *)
(***************************************************************************)

\* Only Begin changes a snapshot.
LEMMA SnapshotStays ==
  ASSUME Types, WriteInv, NEW u \in TxnIds, Step(u), NEW t \in TxnIds, phase[t] # "none"
  PROVE  snapshot'[t] = snapshot[t]
<1>1. CASE t # u
  BY <1>1, Others
<1>2. CASE t = u
  <2>1. ASSUME UNCHANGED tmVars PROVE UNCHANGED snapshot
    BY <2>1 DEF tmVars
  <2>2. ~TM!Begin(u)
    BY <1>2, Fresh
  <2>3. CASE InsertRow(u) \/ InsertIndexEntry(u)
    BY <2>3, InsertPuts DEF InsertRow, TM!Put
  <2>4. CASE ScanMemtable(u) \/ ScanFiles(u) \/ (\E pk \in Pks : GetMemtable(u, pk))
             \/ FlushInstall(u) \/ FlushClear(u)
    BY <2>1, <2>4 DEF ScanMemtable, ScanFiles, GetMemtable, FlushInstall, FlushClear
  <2>5. CASE GetFiles(u)
    BY <2>1, <2>5 DEF GetFiles, TM!Rollback
  <2>6. CASE Commit(u) \/ CommitApplied(u) \/ Finish(u)
    BY <2>6 DEF Commit, CommitApplied, Finish, TM!CommitWal, TM!CommitApplied, TM!Finish
  <2>7. CASE \E k \in Keys : CommitPut(u, k) \/ releaseLock(u, k)
    BY <2>7 DEF CommitPut, releaseLock, TM!CommitPut, TM!releaseLock
  <2> QED  BY <2>2, <2>3, <2>4, <2>5, <2>6, <2>7, Steps DEF InsertBegin, InsertRefused, SelectBegin, Begin
<1> QED  BY <1>1, <1>2

\* What a SELECT may see does not change: what is stored meanwhile is of
\* transactions that it cannot see.  What is in a file stays there.
LEMMA ViewStays ==
  ASSUME Types, WriteInv, NEW u \in TxnIds, Step(u),
         NEW t \in TxnIds, phase[t] # "none", ~IsInsert(t)
  PROVE  View(t)' = View(t) /\ InFiles \subseteq InFiles'
<1>1. snapshot'[t] = snapshot[t]
  BY SnapshotStays
<1>2. ASSUME NEW k \in Keys, CommitPut(u, k) PROVE View(t)' = View(t) /\ InFiles \subseteq InFiles'
  <2>1. PICK new : /\ new.txnId = u /\ Inserting(u) /\ phase[u] = "applying"
                   /\ All' = All \cup {new} /\ InFiles' = InFiles
    BY <1>2, StoresOne
  <2>2. u # t
    BY <2>1 DEF Inserting
  <2>3. ~CanSee(u, t, snapshot[t])
    <3>1. CanSee(u, t, snapshot[t]) <=> TP!CanSee(u, t, snapshot[t])
      BY DEF CanSee, TP!CanSee
    <3> QED  BY <2>1, <2>2, <3>1, Ids DEF WriteInv, TP!Inv, TP!SeesOnlyFinished, TP!Over
  <2> QED  BY <1>1, <2>1, <2>3 DEF View
<1>3. ASSUME ~\E k \in Keys : CommitPut(u, k)
      PROVE  View(t)' = View(t) /\ InFiles \subseteq InFiles'
  <2>1. All' = All /\ (~FlushInstall(u) /\ ~FlushClear(u) => InFiles' = InFiles)
    BY <1>3, EntriesStay
  <2>2. FlushClear(u) => InFiles' = InFiles
    BY DEF FlushClear, InFiles
  <2>3. FlushInstall(u) => InFiles' = InFiles \cup memTable
    <3>1. memTable \subseteq Entry /\ files \in Seq(SUBSET Entry)
      BY FromRowFacts DEF Types
    <3> QED  BY <3>1, FilesGrow DEF FlushInstall
  <2> QED  BY <1>1, <2>1, <2>2, <2>3 DEF View
<1> QED  BY <1>2, <1>3

\* A SELECT that sees all block starts has seen those of the earlier files.
LEMMA SeesEarlier ==
  ASSUME Types, WriteInv, Blocks, NEW u \in TxnIds, Step(u),
         NEW t \in TxnIds, phase[t] # "none", SeesBlockStarts(t)'
  PROVE  SeesBlockStarts(t)
<1>1. snapshot'[t] = snapshot[t]
  BY SnapshotStays
<1>2. \A i \in DOMAIN files : i \in DOMAIN files' /\ blockStarts'[i] = blockStarts[i]
  BY BlocksGrow, StepNext
<1> QED  BY <1>1, <1>2 DEF SeesBlockStarts

\* A SELECT that makes no step.
LEMMA ReaderWaits ==
  ASSUME NEW t \in TxnIds, Reader(t), op'[t] = op[t], View(t)' = View(t), InFiles \subseteq InFiles'
  PROVE  Reader(t)'
<1>1. Wanted(t)' = Wanted(t)
  BY DEF Wanted
<1>3. Scanned(t)'
  <2>1. Scanned(t)
    BY DEF Reader
  <2> QED  BY <2>1 DEF Scanned
<1>4. LookedUp(t)'
  <2>1. LookedUp(t)
    BY DEF Reader
  <2>2. RowsOf(t, Wanted(t) \ op[t].primaryKeyIds)' = RowsOf(t, Wanted(t) \ op[t].primaryKeyIds)
    BY <1>1 DEF RowsOf
  <2> QED  BY <1>1, <2>1, <2>2 DEF LookedUp
<1>5. Returned(t)'
  <2>1. Returned(t)
    BY DEF Reader
  <2>2. RowsOf(t, Wanted(t))' = RowsOf(t, Wanted(t))
    BY <1>1 DEF RowsOf
  <2> QED  BY <1>1, <2>1, <2>2 DEF Returned
<1> QED  BY <1>3, <1>4, <1>5 DEF Reader

\* The rows of no primary key, and of one more.
LEMMA RowsOfMore ==
  ASSUME NEW t, NEW A, NEW pk
  PROVE  /\ RowsOf(t, {}) = {}
         /\ RowsOf(t, A \cup {pk}) =
              RowsOf(t, A) \cup { e.value : e \in Newest(Of(View(t), RowKey(pk))) }
BY DEF RowsOf

\* A SELECT begins.
LEMMA SelectBegins ==
  ASSUME Types, NEW t \in TxnIds, NEW q \in Queries, SelectBegin(t, q)
  PROVE  Reader(t)'
<1>1. PICK x \in SelectOps :
        /\ op' = [op EXCEPT ![t] = x] /\ x.query = q /\ x.queryResult = {}
        /\ IF IsPointed(q) THEN x.pc = "get" /\ x.primaryKeyIds = {q[1].value}
                           ELSE x.pc = "scan" /\ x.primaryKeyIds = {}
  BY SelectBeginOp
<1>2. op'[t] = x
  BY <1>1 DEF Types
<1>3. RowsOf(t, {})' = {}
  BY DEF RowsOf
<1>4. CASE IsPointed(q)
  <2>1. Wanted(t)' = {q[1].value}
    BY <1>1, <1>2, <1>4 DEF Wanted
  <2>2. RowsOf(t, Wanted(t) \ op[t].primaryKeyIds)' = {}
    <3>1. (Wanted(t) \ op[t].primaryKeyIds)' = {}
      BY <1>1, <1>2, <1>4, <2>1
    <3> QED  BY <3>1 DEF RowsOf
  <2>3. op'[t].pc = "get"
    BY <1>1, <1>2, <1>4
  <2>4. Scanned(t)' /\ Returned(t)'
    BY <2>3 DEF Scanned, Returned
  <2>5. LookedUp(t)'
    BY <1>1, <1>2, <1>4, <2>1, <2>2, <2>3 DEF LookedUp
  <2> QED  BY <2>4, <2>5 DEF Reader
<1>5. CASE ~IsPointed(q)
  <2>1. op'[t].pc = "scan" /\ op'[t].primaryKeyIds = {} /\ op'[t].queryResult = {} /\ op'[t].query = q
    BY <1>1, <1>2, <1>5
  <2> QED  BY <1>5, <2>1 DEF Reader, Scanned, LookedUp, Returned
<1> QED  BY <1>4, <1>5

\* It scans the memtable.
LEMMA ScansMemtable ==
  ASSUME Types, WriteInv, NEW t \in TxnIds, ScanMemtable(t), Reader(t),
         View(t)' = View(t), InFiles' = InFiles
  PROVE  Reader(t)'
<1>1. PICK x \in SelectOps :
        /\ op[t] \in SelectOps /\ op[t].pc = "scan"
        /\ op' = [op EXCEPT ![t] = x] /\ x.pc = "files" /\ x.query = op[t].query
        /\ x.memTableMap = PrefixScan(memTable, op[t].query, t)
        /\ x.primaryKeyIds = op[t].primaryKeyIds /\ x.queryResult = op[t].queryResult
  BY ScanMemtableOp
<1>2. op'[t] = x
  BY <1>1 DEF Types
<1>3. ~IsPointed(x.query) /\ x.primaryKeyIds = {} /\ x.queryResult = {}
  BY <1>1 DEF Reader, Scanned
<1>4. ASSUME NEW k \in Keys, InScan(k, x.query)
      PROVE  IF Of(x.memTableMap, k) # {}
             THEN Of(x.memTableMap, k) = Newest(Of(View(t), k))
             ELSE Of(View(t), k) \subseteq InFiles
  <2>1. Of(x.memTableMap, k) = MemtableGet(memTable, k, t, snapshot[t])
    BY <1>1, <1>4, ScanOfKey
  <2> QED  BY <2>1, MemtableRead
<1>5. Scanned(t)'
  BY <1>1, <1>2, <1>3, <1>4 DEF Scanned
<1>6. LookedUp(t)' /\ Returned(t)'
  BY <1>1, <1>2 DEF LookedUp, Returned
<1> QED  BY <1>5, <1>6 DEF Reader

\* The two scans together find what t reads of each key.
LEMMA ScansTogether ==
  ASSUME Types, WriteInv, NEW t \in TxnIds, op[t].pc = "files", Scanned(t),
         NEW k \in Keys, InScan(k, op[t].query)
  PROVE  Of(ScanResult(t), k) = Newest(Of(View(t), k))
<1> DEFINE m == op[t].memTableMap
           f == PrefixScan(InFiles, op[t].query, t)
<1>1. Of(f, k) = MemtableGet(InFiles, k, t, snapshot[t])
  BY ScanOfKey
<1>2. ScanResult(t) = m \cup { e \in f : \A g \in m : g.key # e.key }
  BY DEF ScanResult, Merged
<1> HIDE DEF m, f
<1>3. CASE Of(m, k) # {}
  <2>1. Of(ScanResult(t), k) = Of(m, k)
    BY <1>2, <1>3 DEF Of
  <2> QED  BY <1>3, <2>1 DEF Scanned, m
<1>4. CASE Of(m, k) = {}
  <2>1. Of(ScanResult(t), k) = Of(f, k)
    BY <1>2, <1>4 DEF Of
  <2>2. Of(View(t), k) \subseteq InFiles
    BY <1>4 DEF Scanned, m
  <2>3. VisibleEntries(InFiles, k, t, snapshot[t]) = Of(View(t), k)
    <3>1. VisibleEntries(InFiles, k, t, snapshot[t]) = Of(View(t), k) \cap InFiles
      BY SeenOfKey, Zenon
    <3> QED  BY <2>2, <3>1
  <2> QED  BY <1>1, <2>1, <2>3 DEF MemtableGet
<1> QED  BY <1>3, <1>4

\* The keys that a scan through no index asks for.
LEMMA RowKeysScanned ==
  ASSUME NEW q, ~UsesIndex(q), NEW pk \in Pks
  PROVE  RowKey(pk) \in Keys /\ InScan(RowKey(pk), q)
<1>1. PICK r \in Rows : pk = r[PkColumn]
  BY DEF Pks
<1>2. RowKey(pk) \in Keys
  BY <1>1, KeysAssumption
<1>3. RowKey(pk).index = "" /\ RowKey(pk).values = <<>>
  BY DEF RowKey
<1>4. IsPrefix(<<>>, <<>>)
  BY DEF IsPrefix
<1> QED  BY <1>2, <1>3, <1>4 DEF InScan, HasPrefix

\* A SELECT scans the files.
LEMMA ScansFiles ==
  ASSUME Types, WriteInv, NEW t \in TxnIds, ScanFiles(t), Reader(t),
         View(t)' = View(t), InFiles' = InFiles
  PROVE  Reader(t)'
<1>1. PICK x \in SelectOps :
        /\ op[t] \in SelectOps /\ op[t].pc = "files"
        /\ op' = [op EXCEPT ![t] = x] /\ x.pc = "get" /\ x.query = op[t].query
        /\ IF UsesIndex(op[t].query)
           THEN /\ x.primaryKeyIds = { e.key.pk : e \in ScanResult(t) }
                /\ x.queryResult = op[t].queryResult
           ELSE /\ x.primaryKeyIds = op[t].primaryKeyIds
                /\ x.queryResult = { e.value : e \in ScanResult(t) }
  BY ScanFilesOp
<1>2. op'[t] = x
  BY <1>1 DEF Types
<1>3. /\ ~IsPointed(op[t].query) /\ op[t].primaryKeyIds = {} /\ op[t].queryResult = {}
      /\ Scanned(t)
  BY <1>1 DEF Reader, Scanned
<1>4. \A e \in ScanResult(t) : FromRow(e) /\ InScan(e.key, op[t].query)
  BY ScanFilesOp
<1>5. \A k \in Keys : InScan(k, op[t].query) => Of(ScanResult(t), k) = Newest(Of(View(t), k))
  BY <1>1, <1>3, ScansTogether
<1>6. ASSUME NEW e \in ScanResult(t) PROVE e \in Newest(Of(View(t), e.key))
  <2>1. e.key \in Keys /\ e \in Of(ScanResult(t), e.key)
    BY <1>4, FromRowFacts DEF Of
  <2> QED  BY <1>4, <1>5, <2>1
<1>7. Wanted(t)' = Wanted(t)
  BY <1>1, <1>2 DEF Wanted
<1>8. Scanned(t)' /\ Returned(t)'
  BY <1>1, <1>2 DEF Scanned, Returned
<1>9. CASE UsesIndex(op[t].query)
  <2>1. x.primaryKeyIds = Wanted(t)
    <3>1. Wanted(t) = { e.key.pk : e \in { f \in View(t) : InScan(f.key, op[t].query) } }
      BY <1>3, <1>9 DEF Wanted
    <3>2. ASSUME NEW e \in ScanResult(t) PROVE e \in View(t) /\ InScan(e.key, op[t].query)
      BY <1>4, <1>6 DEF Newest, Of
    <3>3. ASSUME NEW e \in View(t), InScan(e.key, op[t].query)
          PROVE  \E f \in ScanResult(t) : f.key.pk = e.key.pk
      <4>1. e.key \in Keys
        BY AllFacts, FromRowFacts DEF View
      <4>2. e \in Of(View(t), e.key)
        BY DEF Of
      <4>3. PICK f : f \in Newest(Of(View(t), e.key))
        BY <4>2, SeenOfKey
      <4>4. f \in Of(ScanResult(t), e.key)
        BY <1>5, <3>3, <4>1, <4>3
      <4> QED  BY <4>4 DEF Of
    <3> QED  BY <1>1, <1>9, <3>1, <3>2, <3>3
  <2>2. x.queryResult = {}
    BY <1>1, <1>3, <1>9
  <2>3. RowsOf(t, Wanted(t) \ op[t].primaryKeyIds)' = {}
    <3>1. (Wanted(t) \ op[t].primaryKeyIds)' = {}
      BY <1>2, <1>7, <2>1
    <3> QED  BY <3>1 DEF RowsOf
  <2>4. LookedUp(t)'
    BY <1>1, <1>2, <1>7, <1>9, <2>1, <2>2, <2>3 DEF LookedUp
  <2> QED  BY <1>8, <2>4 DEF Reader
<1>10. CASE ~UsesIndex(op[t].query)
  <2>1. Wanted(t) = Pks /\ x.primaryKeyIds = {}
    BY <1>1, <1>3, <1>10 DEF Wanted
  <2>2. x.queryResult = RowsOf(t, Pks)
    <3>1. ASSUME NEW e \in ScanResult(t)
          PROVE  e.key.pk \in Pks /\ e \in Newest(Of(View(t), RowKey(e.key.pk)))
      <4>1. e.key.index = ""
        BY <1>4, <1>10, RowScan
      <4>2. e.key.pk \in Pks /\ e.key = RowKey(e.key.pk)
        BY <1>4, <4>1, FromRowFacts
      <4> QED  BY <1>6, <4>2
    <3>2. ASSUME NEW pk \in Pks, NEW e \in Newest(Of(View(t), RowKey(pk)))
          PROVE  e \in ScanResult(t)
      <4>1. RowKey(pk) \in Keys /\ InScan(RowKey(pk), op[t].query)
        BY <1>10, RowKeysScanned
      <4>2. e \in Of(ScanResult(t), RowKey(pk))
        BY <1>5, <3>2, <4>1
      <4> QED  BY <4>2 DEF Of
    <3> QED  BY <1>1, <1>10, <3>1, <3>2 DEF RowsOf
  <2>3. RowsOf(t, Wanted(t) \ op[t].primaryKeyIds)' = RowsOf(t, Pks)
    <3>1. (Wanted(t) \ op[t].primaryKeyIds)' = Pks
      BY <1>2, <1>7, <2>1
    <3> QED  BY <3>1 DEF RowsOf
  <2>4. LookedUp(t)'
    BY <1>1, <1>2, <1>7, <2>1, <2>2, <2>3 DEF LookedUp
  <2> QED  BY <1>8, <2>4 DEF Reader
<1> QED  BY <1>9, <1>10

\* It finds a row.
LEMMA FindsRow ==
  ASSUME Types, NEW t \in TxnIds, op[t] \in SelectOps, op[t].pc \in {"get", "getFiles"}, Reader(t),
         View(t)' = View(t), NEW pk \in op[t].primaryKeyIds,
         NEW e \in Newest(Of(View(t), RowKey(pk))), Newest(Of(View(t), RowKey(pk))) = {e},
         FromRow(e), Found(t, pk, e)
  PROVE  Reader(t)'
<1>1. e.key = RowKey(pk)
  BY DEF Newest, Of
<1>2. PICK x \in SelectOps :
        /\ op' = [op EXCEPT ![t] = x] /\ x.pc = "get"
        /\ x.query = op[t].query /\ x.primaryKeyIds = op[t].primaryKeyIds \ {pk}
        /\ x.queryResult = op[t].queryResult \cup {e.value}
  BY <1>1, FoundOp
<1>3. op'[t] = x
  BY <1>2 DEF Types
<1>4. Wanted(t)' = Wanted(t)
  BY <1>2, <1>3 DEF Wanted
<1>5. /\ op[t].primaryKeyIds \subseteq Wanted(t)
      /\ op[t].queryResult = RowsOf(t, Wanted(t) \ op[t].primaryKeyIds)
      /\ IsPointed(op[t].query) \/ UsesIndex(op[t].query)
  BY DEF Reader, LookedUp
<1>6. x.queryResult = RowsOf(t, Wanted(t) \ x.primaryKeyIds)
  <2>1. Wanted(t) \ x.primaryKeyIds = (Wanted(t) \ op[t].primaryKeyIds) \cup {pk}
    BY <1>2, <1>5
  <2>2. RowsOf(t, (Wanted(t) \ op[t].primaryKeyIds) \cup {pk})
          = RowsOf(t, Wanted(t) \ op[t].primaryKeyIds) \cup {e.value}
    BY RowsOfMore
  <2> QED  BY <1>2, <1>5, <2>1, <2>2
<1>7. RowsOf(t, Wanted(t) \ op[t].primaryKeyIds)' = RowsOf(t, Wanted(t) \ x.primaryKeyIds)
  <2>1. (Wanted(t) \ op[t].primaryKeyIds)' = Wanted(t) \ x.primaryKeyIds
    BY <1>3, <1>4
  <2> QED  BY <2>1 DEF RowsOf
<1>8. LookedUp(t)'
  BY <1>2, <1>3, <1>4, <1>5, <1>6, <1>7 DEF LookedUp
<1>9. Scanned(t)' /\ Returned(t)'
  BY <1>2, <1>3 DEF Scanned, Returned
<1> QED  BY <1>8, <1>9 DEF Reader

\* What t reads of a key is one entry at most.
LEMMA OneNewest ==
  ASSUME Types, WriteInv, NEW t, NEW k, NEW e \in Newest(Of(View(t), k))
  PROVE  Newest(Of(View(t), k)) = {e} /\ FromRow(e) /\ e.key = k
<1> DEFINE W == Of(View(t), k)
<1>1. (\A f \in W : f.txnId \in TxnIds) /\ \A f, g \in W : f.txnId = g.txnId => f = g
  BY SeenOfKey, Zenon
<1>2. e \in W /\ \A f \in W : f.txnId <= e.txnId
  BY DEF Newest
<1>3. FromRow(e) /\ e.key = k
  <2>1. e \in All /\ e.key = k
    BY <1>2 DEF Of, View
  <2> QED  BY <2>1, AllFacts
<1>4. Newest(W) = {e}
  <2> HIDE DEF W
  <2> QED  BY <1>1, <1>2, SameNewest
<1> QED  BY <1>3, <1>4

\* A SELECT looks for a row in the memtable.
LEMMA GetsMemtable ==
  ASSUME Types, WriteInv, NEW t \in TxnIds, NEW pk \in Pks, GetMemtable(t, pk), Reader(t),
         View(t)' = View(t), InFiles' = InFiles
  PROVE  Reader(t)'
<1> DEFINE m == MemtableGet(memTable, RowKey(pk), t, snapshot[t])
<1>1. op[t] \in SelectOps /\ op[t].pc = "get" /\ pk \in op[t].primaryKeyIds
  BY GetMemtableOp
<1>2. /\ m # {} => m = Newest(Of(View(t), RowKey(pk)))
      /\ m = {} => Of(View(t), RowKey(pk)) \subseteq InFiles
  BY MemtableRead
<1>3. ASSUME NEW e \in m, Found(t, pk, e) PROVE Reader(t)'
  <2>1. e \in Newest(Of(View(t), RowKey(pk)))
    BY <1>2, <1>3
  <2>2. Newest(Of(View(t), RowKey(pk))) = {e} /\ FromRow(e)
    BY <2>1, OneNewest
  <2> QED  BY <1>1, <1>3, <2>1, <2>2, FindsRow
<1>4. ASSUME NEW x \in SelectOps, m = {}, op' = [op EXCEPT ![t] = x], x.pc = "getFiles", x.pk = pk,
             x.query = op[t].query, x.primaryKeyIds = op[t].primaryKeyIds,
             x.queryResult = op[t].queryResult
      PROVE  Reader(t)'
  <2>1. op'[t] = x
    BY <1>4 DEF Types
  <2>2. Wanted(t)' = Wanted(t)
    BY <1>4, <2>1 DEF Wanted
  <2>3. RowsOf(t, Wanted(t) \ op[t].primaryKeyIds)' = RowsOf(t, Wanted(t) \ op[t].primaryKeyIds)
    BY <1>4, <2>1, <2>2 DEF RowsOf
  <2>4. LookedUp(t)
    BY DEF Reader
  <2>5. LookedUp(t)'
    BY <1>1, <1>2, <1>4, <2>1, <2>2, <2>3, <2>4 DEF LookedUp
  <2>6. Scanned(t)' /\ Returned(t)'
    BY <1>4, <2>1 DEF Scanned, Returned
  <2> QED  BY <2>5, <2>6 DEF Reader
<1> QED  BY <1>3, <1>4, GetMemtableOp

\* A lookup in the files keeps what a reader has looked up.
LEMMA GetsFiles ==
  ASSUME Types, WriteInv, Blocks, NEW t \in TxnIds, GetFiles(t), Reader(t), SeesBlockStarts(t),
         View(t)' = View(t), InFiles' = InFiles
  PROVE  Reader(t)'
<1> DEFINE pk == op[t].pk
           f  == FilesGet(RowKey(pk), t)
<1>1. op[t] \in SelectOps /\ op[t].pc = "getFiles" /\ pk \in op[t].primaryKeyIds
  BY GetFilesOp
<1>2. /\ Of(View(t), RowKey(pk)) \subseteq InFiles /\ pk \in Wanted(t)
      /\ IsPointed(op[t].query) \/ UsesIndex(op[t].query)
  BY <1>1 DEF Reader, LookedUp
<1>3. f = Newest(Of(View(t), RowKey(pk)))
  BY <1>2, FilesRead
<1>4. ASSUME NEW e \in f, Found(t, pk, e) PROVE Reader(t)'
  <2>1. e \in Newest(Of(View(t), RowKey(pk)))
    BY <1>3, <1>4
  <2>2. Newest(Of(View(t), RowKey(pk))) = {e} /\ FromRow(e)
    BY <2>1, OneNewest
  <2> QED  BY <1>1, <1>4, <2>1, <2>2, FindsRow
<1>5. ASSUME NEW x \in SelectOps, f = {}, op' = [op EXCEPT ![t] = x], x.pc = "failed", x.pk = pk,
             x.query = op[t].query
      PROVE  Reader(t)'
  <2>1. op'[t] = x
    BY <1>5 DEF Types
  <2>2. Wanted(t)' = Wanted(t)
    BY <1>5, <2>1 DEF Wanted
  <2>3. Of(View(t), RowKey(pk)) = {}
    BY <1>3, <1>5, SeenOfKey
  <2>4. Returned(t)'
    BY <1>2, <1>5, <2>1, <2>2, <2>3 DEF Returned
  <2>5. Scanned(t)' /\ LookedUp(t)'
    BY <1>5, <2>1 DEF Scanned, LookedUp
  <2> QED  BY <2>4, <2>5 DEF Reader
<1> QED  BY <1>4, <1>5, GetFilesOp

\* It commits, or goes on in Commit or Rollback.
LEMMA ReaderCommits ==
  ASSUME Types, NEW t \in TxnIds, op[t] \in SelectOps, Reader(t), View(t)' = View(t),
         \/ Commit(t) \/ FlushInstall(t) \/ FlushClear(t) \/ Finish(t)
  PROVE  Reader(t)'
<1>1. op \in [TxnIds -> Ops] /\ op[t] \notin InsertOps
  BY Kinds DEF Types
<1>2. CASE Commit(t)
  <2>1. PICK x \in SelectOps :
          /\ op[t].pc = "get" /\ op[t].primaryKeyIds = {}
          /\ op' = [op EXCEPT ![t] = x] /\ x.pc = "commit" /\ x.query = op[t].query
          /\ x.queryResult = Filtered(op[t].queryResult, op[t].query)
    BY <1>1, <1>2, CommitOp
  <2>2. op'[t] = x
    BY <1>1, <2>1
  <2>3. op[t].queryResult = RowsOf(t, Wanted(t))
    <3>1. Wanted(t) \ op[t].primaryKeyIds = Wanted(t)
      BY <2>1
    <3> QED  BY <2>1, <3>1 DEF Reader, LookedUp
  <2>4. Wanted(t)' = Wanted(t)
    BY <2>1, <2>2 DEF Wanted
  <2>5. RowsOf(t, Wanted(t))' = RowsOf(t, Wanted(t))
    BY <2>4 DEF RowsOf
  <2>6. Returned(t)'
    BY <2>1, <2>2, <2>3, <2>4, <2>5 DEF Returned
  <2>7. Scanned(t)' /\ LookedUp(t)'
    BY <2>1, <2>2 DEF Scanned, LookedUp
  <2> QED  BY <2>6, <2>7 DEF Reader
<1>3. CASE FlushInstall(t) \/ FlushClear(t)
  <2>1. PICK p \in {"clear", "flushed"} : Goto(t, p) /\ op[t].pc \in {"commit", "clear"}
    BY <1>3 DEF FlushInstall, FlushClear
  <2>2. op'[t] = [op[t] EXCEPT !.pc = p]
    BY <1>1, <2>1 DEF Goto
  <2>3. op'[t].pc = p /\ op'[t].query = op[t].query /\ op'[t].queryResult = op[t].queryResult
    BY <2>2 DEF SelectOps
  <2>4. Wanted(t)' = Wanted(t)
    BY <2>3 DEF Wanted
  <2>5. RowsOf(t, Wanted(t))' = RowsOf(t, Wanted(t))
    BY <2>4 DEF RowsOf
  <2>6. Returned(t)'
    BY <2>1, <2>3, <2>4, <2>5 DEF Reader, Returned
  <2>7. Scanned(t)' /\ LookedUp(t)'
    BY <2>3 DEF Scanned, LookedUp
  <2> QED  BY <2>6, <2>7 DEF Reader
<1>4. CASE Finish(t)
  <2>1. op'[t].pc = "returned"
    BY <1>4, GotoTypes DEF Finish
  <2> QED  BY <2>1 DEF Reader, Scanned, LookedUp, Returned
<1> QED  BY <1>2, <1>3, <1>4

\* Every step of any goroutine keeps the facts about the SELECTs.
LEMMA ReadersStep ==
  ASSUME Types, Types', WriteInv, Blocks, Readers, [Next]_vars
  PROVE  Readers'
<1>1. TxnIds' = TxnIds
  BY DEF TxnIds, TM!TxnIds
<1>2. ASSUME NEW t \in TxnIds, IsSelect(t)', SeesBlockStarts(t)' PROVE Reader(t)'
  <2>1. ASSUME op'[t] = op[t], View(t)' = View(t), InFiles \subseteq InFiles', SeesBlockStarts(t)
        PROVE  Reader(t)'
    <3>1. IsSelect(t)
      BY <1>2, <2>1 DEF IsSelect
    <3>2. Reader(t)
      BY <2>1, <3>1 DEF Readers
    <3> QED  BY <2>1, <3>2, ReaderWaits
  <2>2. CASE UNCHANGED vars
    <3>1. UNCHANGED <<op, files, blockStarts, snapshot, versions>>
      BY <2>2 DEF vars, tmVars
    <3>2. View(t)' = View(t) /\ InFiles' = InFiles /\ SeesBlockStarts(t)
      BY <1>2, <3>1 DEF View, All, InFiles, SeesBlockStarts
    <3> QED  BY <2>1, <3>1, <3>2
  <2>3. ASSUME IsSelect(t), NEW u \in TxnIds, Step(u)
        PROVE  /\ phase[t] # "none" /\ ~IsInsert(t) /\ Reader(t) /\ op[t] \in SelectOps
               /\ SeesBlockStarts(t)
    <3>1. op[t] \in SelectOps
      BY <2>3, Kinds DEF Types
    <3>2. op[t].pc # "idle" /\ op[t].pc \in Pcs /\ ~IsInsert(t)
      BY <3>1, Kinds DEF Types, SelectOps
    <3>3. phase[t] # "none"
      BY <3>2 DEF WriteInv, Goroutines, Position, Pcs
    <3>4. SeesBlockStarts(t)
      BY <1>2, <2>3, <3>3, SeesEarlier
    <3> QED  BY <2>3, <3>1, <3>2, <3>3, <3>4 DEF Readers
  <2>4. ASSUME NEW u \in TxnIds, Step(u), u # t PROVE Reader(t)'
    <3>1. op'[t] = op[t]
      BY <2>4, Others
    <3>2. IsSelect(t)
      BY <1>2, <3>1 DEF IsSelect
    <3>3. View(t)' = View(t) /\ InFiles \subseteq InFiles' /\ SeesBlockStarts(t)
      BY <2>3, <2>4, <3>2, ViewStays
    <3> QED  BY <2>1, <3>1, <3>3
  <2>5. ASSUME Step(t) PROVE Reader(t)'
    <3>1. ASSUME NEW q \in Queries, SelectBegin(t, q) PROVE Reader(t)'
      BY <3>1, SelectBegins
    <3>2. ASSUME InsertRefused(t) \/ (\E r \in RowsToInsert : InsertBegin(t, r))
                 \/ InsertRow(t) \/ InsertIndexEntry(t)
          PROVE  FALSE
      <4>1. CASE InsertRefused(t)
        <5>1. op[t] \in OtherOps
          BY <4>1, Fresh DEF InsertRefused, Begin
        <5>2. op'[t] \in OtherOps
          BY <4>1, <5>1, GotoTypes DEF InsertRefused
        <5> QED  BY <1>2, <5>2 DEF OtherOps, IsSelect
      <4>2. CASE \E r \in RowsToInsert : InsertBegin(t, r)
        <5>1. \E r : op'[t] = [pc |-> "row", row |-> r, next |-> 1]
          BY <4>2 DEF InsertBegin, Types
        <5> QED  BY <1>2, <5>1 DEF IsSelect
      <4>3. CASE InsertRow(t) \/ InsertIndexEntry(t)
        <5>1. op[t].pc \in {"row", "index"}
          BY <4>3 DEF InsertRow, InsertIndexEntry
        <5>2. op[t] \in InsertOps
          BY <5>1, Kinds DEF Types
        <5>3. op'[t] = [op[t] EXCEPT !.pc = "index"] \/ op'[t] = [op[t] EXCEPT !.next = @ + 1]
          BY <4>3 DEF InsertRow, InsertIndexEntry, Goto, Types
        <5> QED  BY <1>2, <5>2, <5>3 DEF IsSelect, InsertOps
      <4> QED  BY <3>2, <4>1, <4>2, <4>3
    <3>3. ASSUME \/ ScanMemtable(t) \/ ScanFiles(t) \/ GetFiles(t) \/ \E pk \in Pks : GetMemtable(t, pk)
          PROVE  Reader(t)'
      <4>1. op[t] \in SelectOps
        BY <3>3, SelectStays
      <4>2. IsSelect(t)
        BY <4>1, Kinds DEF Types
      <4>3. View(t)' = View(t) /\ Reader(t) /\ SeesBlockStarts(t)
        BY <2>3, <2>5, <4>2, ViewStays
      <4>4. InFiles' = InFiles
        BY <3>3 DEF ScanMemtable, ScanFiles, GetFiles, GetMemtable, InFiles
      <4> QED  BY <3>3, <4>3, <4>4, ScansMemtable, ScansFiles, GetsFiles, GetsMemtable
    <3>4. ASSUME \/ Commit(t) \/ FlushInstall(t) \/ FlushClear(t) \/ CommitApplied(t)
                 \/ \E k \in Keys : CommitPut(t, k) \/ releaseLock(t, k)
                 \/ Finish(t)
          PROVE  Reader(t)'
      <4>1. IsSelect(t)
        BY <1>2, <3>4, CommitStays
      <4>2. /\ View(t)' = View(t) /\ InFiles \subseteq InFiles' /\ Reader(t) /\ op[t] \in SelectOps
            /\ SeesBlockStarts(t)
        BY <2>3, <2>5, <4>1, ViewStays
      <4>3. CASE CommitApplied(t) \/ \E k \in Keys : CommitPut(t, k) \/ releaseLock(t, k)
        BY <2>1, <4>2, <4>3 DEF CommitApplied, CommitPut, releaseLock
      <4> QED  BY <3>4, <4>2, <4>3, ReaderCommits
    <3> QED  BY <2>5, <3>1, <3>2, <3>3, <3>4, Steps
  <2> QED  BY <2>2, <2>4, <2>5, StepNext
<1> QED  BY <1>1, <1>2 DEF Readers

\* The invariant.
LEMMA Invariance == Spec => []Inv
<1>1. Init => Inv
  <2> SUFFICES ASSUME Init PROVE Inv
    OBVIOUS
  <2>1. \A t \in TxnIds : ~IsSelect(t)
    BY DEF Init, IsSelect
  <2> QED  BY <2>1, TypesInitially, WriteInitially DEF Inv, Readers
<1>2. Inv /\ Blocks /\ [Next]_vars => Inv'
  <2> SUFFICES ASSUME Inv, Blocks, [Next]_vars PROVE Inv'
    OBVIOUS
  <2>1. Types /\ Types' /\ raced \in BOOLEAN
    <3>1. Types'
      BY TypesStep DEF Inv
    <3> QED  BY <3>1 DEF Inv, Types
  <2>2. raced => raced'
    <3>1. raced' = raced \/ (\E t \in TxnIds, r \in RowsToInsert : InsertBegin(t, r))
                         \/ \E t \in TxnIds, k \in Keys : CommitPut(t, k)
      BY DEF Next, CallStep, vars, InsertRefused, SelectBegin, InsertRow, InsertRowFails,
             InsertIndexEntry, ScanMemtable, ScanFiles, GetFiles, GetMemtable, Commit,
             FlushInstall, FlushClear, CommitApplied, releaseLock, Finish
    <3> QED  BY <3>1 DEF InsertBegin, CommitPut
  <2>3. ~raced' => WriteInv /\ Readers
    BY <2>2 DEF Inv
  <2>4. ~raced' => WriteInv'
    BY <2>1, <2>3, WriteStep
  <2>5. ~raced' => Readers'
    BY <2>1, <2>3, ReadersStep
  <2> QED  BY <2>1, <2>4, <2>5 DEF Inv
<1> QED  BY <1>1, <1>2, BlocksInvariant, PTL DEF Spec

-------------------------------------------------------------------------------
(***************************************************************************)
(* What SELECT returns                                                     *)
(***************************************************************************)

\* A SELECT sees all of a row, with its index entries, or nothing.
LEMMA SeesWhole ==
  ASSUME Types, WriteInv, NEW t \in TxnIds, IsSelect(t), UnderWay(t), NEW e \in View(t)
  PROVE  \E r \in Rows : e \in EntriesFor(r, e.txnId) /\ EntriesFor(r, e.txnId) \subseteq View(t)
<1>1. /\ e \in All /\ CanSee(e.txnId, t, snapshot[t]) /\ e.txnId \in TxnIds
      /\ phase[e.txnId] \in {"applying", "releasing", "committed"}
      /\ e \in Stored => phase[e.txnId] = "committed"
  BY AllFacts DEF View
<1>2. phase[t] \notin {"none", "committed"} /\ DOMAIN bufferedWriteMap[t] = {}
  <2>1. op[t] \in SelectOps /\ ~IsInsert(t)
    BY Kinds DEF Types
  <2>2. op[t].pc \in {"scan", "files", "get", "getFiles", "commit", "clear", "flushed", "failed"}
    BY <2>1 DEF SelectOps, UnderWay
  <2> QED  BY <2>1, <2>2 DEF WriteInv, Goroutines, Position, Writer, Inserting
<1>3. phase[e.txnId] = "committed"
  <2>1. CASE e.txnId = t
    <3>1. e \in versions
      BY <1>1, <1>2, <2>1 DEF All
    <3>2. e \in TP!EntriesOf(bufferedWriteMap[t], t)
      BY <1>1, <1>2, <2>1, <3>1, Ids DEF WriteInv, TP!StoredFromBuffer
    <3> QED  BY <1>2, <3>2 DEF TP!EntriesOf
  <2>2. CASE e.txnId # t
    <3>1. TP!CanSee(e.txnId, t, snapshot[t])
      BY <1>1 DEF CanSee, TP!CanSee
    <3>2. phase[e.txnId] \in TP!Over
      BY <1>1, <1>2, <2>2, <3>1, Ids DEF WriteInv, TP!Inv, TP!SeesOnlyFinished
    <3> QED  BY <1>1, <3>2 DEF TP!Over
  <2> QED  BY <2>1, <2>2
<1>4. PICK r \in Rows : e \in EntriesFor(r, e.txnId) /\ EntriesFor(r, e.txnId) \subseteq All
  BY <1>1, <1>3 DEF WriteInv, Complete
<1>5. \A f \in EntriesFor(r, e.txnId) : f.txnId = e.txnId
  BY DEF EntriesFor
<1> QED  BY <1>1, <1>4, <1>5 DEF View

\* The rows of the snapshot, each under its primary key.
LEMMA SnapshotRows ==
  ASSUME Types, WriteInv, NEW t
  PROVE  /\ RowsAt(t) = RowsOf(t, Pks)
         /\ \A A \in SUBSET Pks : RowsOf(t, A) = { r \in RowsAt(t) : r[PkColumn] \in A }
         /\ RowsAt(t) \subseteq Rows
         /\ \A r \in RowsAt(t) : r[PkColumn] \in Pks /\
              \E e \in Of(View(t), RowKey(r[PkColumn])) : e.value = r
<1>1. \A pk : Read(t, RowKey(pk)) = Newest(Of(View(t), RowKey(pk)))
  BY SeenOfKey, Zenon
<1>2. RowsAt(t) = RowsOf(t, Pks)
  BY <1>1 DEF RowsAt, RowsOf
<1>3. ASSUME NEW pk, NEW e \in Newest(Of(View(t), RowKey(pk)))
      PROVE  e.value \in Rows /\ e.value[PkColumn] = pk /\ e \in Of(View(t), RowKey(pk))
  <2>1. FromRow(e) /\ e.key = RowKey(pk)
    BY OneNewest
  <2> QED  BY <2>1, RowFound DEF Newest
<1>4. \A A : RowsOf(t, A) = { e.value : e \in UNION { Newest(Of(View(t), RowKey(pk))) : pk \in A } }
  BY DEF RowsOf
<1>5. ASSUME NEW A \in SUBSET Pks PROVE RowsOf(t, A) = { r \in RowsAt(t) : r[PkColumn] \in A }
  <2>1. ASSUME NEW r \in RowsOf(t, A) PROVE r \in RowsOf(t, Pks) /\ r[PkColumn] \in A
    <3>1. PICK pk \in A : \E e \in Newest(Of(View(t), RowKey(pk))) : r = e.value
      BY <1>4
    <3>2. r[PkColumn] = pk
      BY <1>3, <3>1
    <3> QED  BY <1>4, <3>1, <3>2
  <2>2. ASSUME NEW r \in RowsOf(t, Pks), r[PkColumn] \in A PROVE r \in RowsOf(t, A)
    <3>1. PICK pk \in Pks : \E e \in Newest(Of(View(t), RowKey(pk))) : r = e.value
      BY <1>4
    <3>2. r[PkColumn] = pk
      BY <1>3, <3>1
    <3> QED  BY <1>4, <2>2, <3>1, <3>2
  <2> QED  BY <1>2, <2>1, <2>2
<1>6. ASSUME NEW r \in RowsAt(t)
      PROVE  /\ r \in Rows /\ r[PkColumn] \in Pks
             /\ \E e \in Of(View(t), RowKey(r[PkColumn])) : e.value = r
  <2>1. PICK pk \in Pks : \E e \in Newest(Of(View(t), RowKey(pk))) : r = e.value
    BY <1>2, <1>4
  <2> QED  BY <1>3, <2>1
<1> QED  BY <1>2, <1>5, <1>6

\* A pointed query has one condition, which names a primary key.
LEMMA PointedAnswer ==
  ASSUME Types, WriteInv, NEW t \in TxnIds, NEW q \in Queries, q = op[t].query, IsPointed(q)
  PROVE  Answer(t) = RowsOf(t, {q[1].value})
<1>1. q[1].column = PkColumn /\ q[1].type = "=" /\ Range(q) = {q[1]}
  <2>1. q \in Seq(Range(q))
    BY TableAssumption, Zenon
  <2>2. Len(q) = 1 /\ q[1].column = PkColumn /\ q[1].type = "="
    BY DEF IsPointed
  <2>3. DOMAIN q = {1}
    BY <2>1, <2>2
  <2> QED  BY <2>2, <2>3 DEF Range
<1>2. \A r : Applicable(r, q[1]) <=> r[PkColumn] = q[1].value
  BY <1>1 DEF Applicable
<1>3. Answer(t) = { r \in RowsAt(t) : r[PkColumn] \in {q[1].value} }
  BY <1>1, <1>2 DEF Answer
<1>4. {q[1].value} \in SUBSET Pks
  BY KeysAssumption
<1> QED  BY <1>3, <1>4, SnapshotRows

\* An entry has the primary key of its row.
LEMMA PkOfEntry ==
  ASSUME NEW e, NEW r \in Rows, e \in EntriesFor(r, e.txnId), e.txnId \in TxnIds
  PROVE  e.key.pk = r[PkColumn]
<1>1. e \in Entry /\ e.txnId \in TxnIds /\ r[PkColumn] \in Pks /\ e.key.pk = r[PkColumn]
  BY EntryFacts, Zenon
<1> QED  BY <1>1

\* A SELECT fails only over a primary key that its snapshot does not have,
\* unless two writers met or a data block opens with a version that it must
\* not see: no index entry that it sees points to a row that it does not find,
\* in whatever order Commit stores the entries, however the files are cut into
\* blocks and however many flushes run between the scans and the lookups.
THEOREM IndexEntriesHaveRows == Spec => []SelectFindsRows
<1>1. Inv => SelectFindsRows
  <2> SUFFICES ASSUME Inv, NEW t \in TxnIds, op[t].pc = "failed", ~raced,
                      SeesBlockStarts(t)
               PROVE  IsPointed(op[t].query) /\ Answer(t) = {}
    BY DEF SelectFindsRows
  <2>1. Types /\ WriteInv /\ Readers
    BY DEF Inv
  <2>2. op[t] \in SelectOps /\ IsSelect(t) /\ UnderWay(t)
    BY <2>1, Kinds DEF Types, UnderWay
  <2>3. /\ op[t].pk \in Wanted(t) /\ Of(View(t), RowKey(op[t].pk)) = {}
        /\ IsPointed(op[t].query) \/ UsesIndex(op[t].query)
    BY <2>1, <2>2 DEF Readers, Reader, Returned
  <2>4. CASE IsPointed(op[t].query)
    <3> DEFINE q == op[t].query
    <3>1. op[t].pk = q[1].value /\ q \in Queries
      BY <2>2, <2>3, <2>4 DEF Wanted, SelectOps
    <3>2. Answer(t) = RowsOf(t, {q[1].value})
      BY <2>1, <2>4, <3>1, PointedAnswer
    <3>3. RowsOf(t, {q[1].value}) = {}
      BY <2>3, <3>1 DEF RowsOf, Newest
    <3> QED  BY <2>4, <3>2, <3>3
  <2>5. CASE ~IsPointed(op[t].query)
    <3>1. PICK e \in View(t) : e.key.pk = op[t].pk
      BY <2>3, <2>5 DEF Wanted
    <3>2. PICK r \in Rows : e \in EntriesFor(r, e.txnId) /\ EntriesFor(r, e.txnId) \subseteq View(t)
      BY <2>1, <2>2, SeesWhole
    <3>3. e.txnId \in TxnIds
      BY <2>1, AllFacts DEF View
    <3>4. e.key.pk = r[PkColumn]
      BY <3>2, <3>3, PkOfEntry
    <3> DEFINE f == [key |-> RowKey(r[PkColumn]), value |-> r, txnId |-> e.txnId]
    <3>5. f \in View(t) /\ f.key = RowKey(op[t].pk)
      BY <3>1, <3>2, <3>4 DEF EntriesFor
    <3> QED  BY <2>3, <3>5 DEF Of
  <2> QED  BY <2>4, <2>5
<1> QED  BY <1>1, Invariance, PTL

\* The columns of an index.
LEMMA IndexColumns ==
  ASSUME NEW i \in DOMAIN SecondaryIndexes
  PROVE  /\ SecondaryIndexes[i].columns \in Seq(STRING) /\ SecondaryIndexes[i].columns # <<>>
         /\ i \in Nat \ {0} /\ i <= Len(SecondaryIndexes) /\ Len(SecondaryIndexes) \in Nat
<1>1. SecondaryIndexes \in Seq([name : STRING, columns : Seq(STRING)])
  BY TableAssumption, Zenon
<1>2. SecondaryIndexes[i].columns # <<>>
  BY TableAssumption, Zenon
<1>3. Len(SecondaryIndexes) \in Nat /\ DOMAIN SecondaryIndexes = 1 .. Len(SecondaryIndexes)
  BY <1>1
<1>4. SecondaryIndexes[i] \in [name : STRING, columns : Seq(STRING)]
  <2> DEFINE T == [name : STRING, columns : Seq(STRING)]
  <2>1. SecondaryIndexes \in Seq(T)
    BY <1>1
  <2> HIDE DEF T
  <2>2. SecondaryIndexes[i] \in T
    BY <2>1
  <2> QED  BY <2>2 DEF T
<1>5. SecondaryIndexes[i].columns \in Seq(STRING)
  <2> DEFINE x == SecondaryIndexes[i]
  <2>1. x \in [name : STRING, columns : Seq(STRING)]
    BY <1>4
  <2> HIDE DEF x
  <2>2. x.columns \in Seq(STRING)
    BY <2>1
  <2> QED  BY <2>2 DEF x
<1>6. i \in 1 .. Len(SecondaryIndexes)
  BY <1>3
<1> QED  BY <1>2, <1>3, <1>5, <1>6

\* The covered columns are the leading ones that the query asks for.
LEMMA CoveredColumns ==
  ASSUME NEW i \in DOMAIN SecondaryIndexes, NEW q
  PROVE  LET columns == SecondaryIndexes[i].columns
         IN  \E n \in 0 .. Len(columns) :
               /\ Covered(SecondaryIndexes[i], q) = SubSeq(columns, 1, n)
               /\ \A j \in 1 .. n : \E qc \in Range(q) : columns[j] = qc.column
<1> DEFINE columns == SecondaryIndexes[i].columns
           asked == { qc.column : qc \in Range(q) }
           Fits(m) == /\ \A j \in 1 .. m : columns[j] \in asked
                      /\ m < Len(columns) => columns[m + 1] \notin asked
           M == { m \in 0 .. Len(columns) : \A j \in 1 .. m : columns[j] \in asked }
<1>1. columns \in Seq(STRING) /\ Len(columns) \in Nat
  BY IndexColumns
<1> HIDE DEF columns, asked
<1>2. 0 \in M /\ M \in SUBSET (0 .. Len(columns))
  BY <1>1
<1>3. Max(M) \in M /\ \A j \in M : Max(M) >= j
  <2> HIDE DEF M
  <2> QED  BY <1>1, <1>2, MaxIn
<1>4. \E m \in 0 .. Len(columns) : Fits(m)
  <2> DEFINE m == Max(M)
  <2>1. m \in M /\ \A j \in M : m >= j
    BY <1>3
  <2> HIDE DEF m
  <2>2. m \in 0 .. Len(columns) /\ \A j \in 1 .. m : columns[j] \in asked
    BY <2>1
  <2>3. ASSUME m < Len(columns), columns[m + 1] \in asked PROVE FALSE
    <3>1. m + 1 \in M
      BY <1>1, <2>2, <2>3
    <3>2. m >= m + 1
      BY <2>1, <3>1
    <3> QED  BY <2>2, <3>2
  <2> QED  BY <2>2, <2>3
<1> DEFINE n == CHOOSE m \in 0 .. Len(columns) : Fits(m)
<1>5. n \in 0 .. Len(columns) /\ Fits(n)
  BY <1>4
<1>6. Covered(SecondaryIndexes[i], q) = SubSeq(columns, 1, n)
  BY DEF Covered, columns, asked
<1> HIDE DEF n
<1>7. \A j \in 1 .. n : \E qc \in Range(q) : columns[j] = qc.column
  BY <1>5 DEF asked
<1> QED  BY <1>5, <1>6, <1>7 DEF columns

\* The chosen index is one of the table's, and the query has a condition on
\* its first column.
LEMMA ChosenColumns ==
  ASSUME NEW q, UsesIndex(q)
  PROVE  /\ ChosenIndex(q) \in DOMAIN SecondaryIndexes
         /\ Covered(SecondaryIndexes[ChosenIndex(q)], q) # <<>>
<1> DEFINE full == { i \in DOMAIN SecondaryIndexes : FullyCovered(SecondaryIndexes[i], q) }
           partial == { i \in DOMAIN SecondaryIndexes : Covered(SecondaryIndexes[i], q) # <<>> }
<1>1. /\ ChosenIndex(q) = IF full # {} THEN Min(full)
                          ELSE IF partial # {} THEN Max(partial) ELSE 0
      /\ ChosenIndex(q) # 0
  BY DEF ChosenIndex, UsesIndex
<1>2. full \in SUBSET Nat /\ partial \in SUBSET (0 .. Len(SecondaryIndexes))
      /\ Len(SecondaryIndexes) \in Nat
  <2>1. SecondaryIndexes \in Seq([name : STRING, columns : Seq(STRING)])
    BY TableAssumption, Zenon
  <2> QED  BY <2>1
<1>3. \A i \in full : Covered(SecondaryIndexes[i], q) # <<>>
  BY IndexColumns DEF FullyCovered
<1>4. \A i \in full \cup partial :
        i \in DOMAIN SecondaryIndexes /\ Covered(SecondaryIndexes[i], q) # <<>>
  BY <1>3
<1> HIDE DEF full, partial
<1>5. full # {} => Min(full) \in full
  BY <1>2, MinIn
<1>6. partial # {} => Max(partial) \in partial
  BY <1>2, MaxIn
<1> QED  BY <1>1, <1>4, <1>5, <1>6

\* The whole table is not read through an index.
LEMMA FullScanUsesNone ==
  ASSUME NEW q, IsFullScan(q)
  PROVE  ~UsesIndex(q) /\ Range(q) = {}
<1>1. Range(q) = {}
  BY DEF IsFullScan, Range
<1>2. ASSUME UsesIndex(q) PROVE FALSE
  <2> DEFINE i == ChosenIndex(q)
             columns == SecondaryIndexes[i].columns
  <2>1. i \in DOMAIN SecondaryIndexes /\ Covered(SecondaryIndexes[i], q) # <<>>
    BY <1>2, ChosenColumns
  <2> HIDE DEF i
  <2>2. PICK n \in 0 .. Len(columns) :
          /\ Covered(SecondaryIndexes[i], q) = SubSeq(columns, 1, n)
          /\ \A j \in 1 .. n : \E qc \in Range(q) : columns[j] = qc.column
    BY <2>1, CoveredColumns
  <2>3. columns \in Seq(STRING)
    BY <2>1, IndexColumns
  <2> HIDE DEF columns
  <2>4. n = 0
    BY <1>1, <2>2, <2>3
  <2>5. SubSeq(columns, 1, 0) = <<>>
    BY <2>3
  <2> QED  BY <2>1, <2>2, <2>4, <2>5
<1> QED  BY <1>1, <1>2

\* A key of the chosen index starts with the prefix of the query if its row
\* has the values that the query asks for in the covered columns.
LEMMA PrefixOfRow ==
  ASSUME QueriesFitIndexes, NEW q \in Queries, UsesIndex(q), NEW r
  PROVE  LET index   == SecondaryIndexes[ChosenIndex(q)]
             covered == Covered(index, q)
         IN  IsPrefix(PrefixValues(q), IndexKey(index, r).values)
               <=> \A j \in DOMAIN covered : PrefixValues(q)[j] = r[covered[j]]
<1> DEFINE i == ChosenIndex(q)
           columns == SecondaryIndexes[i].columns
           covered == Covered(SecondaryIndexes[i], q)
           prefix == PrefixValues(q)
           values == IndexKey(SecondaryIndexes[i], r).values
           asked == { qc.value : qc \in Range(q) }
<1>1. i \in DOMAIN SecondaryIndexes
  BY ChosenColumns
<1>2. prefix \in [DOMAIN covered -> asked]
  BY DEF QueriesFitIndexes
<1>3. values = [j \in DOMAIN columns |-> r[columns[j]]]
  BY DEF IndexKey
<1> HIDE DEF i, prefix, values, asked
<1>4. columns \in Seq(STRING)
  BY <1>1, IndexColumns
<1>5. PICK n \in 0 .. Len(columns) : covered = SubSeq(columns, 1, n)
  BY <1>1, CoveredColumns
<1> HIDE DEF columns, covered
<1>6. /\ Len(columns) \in Nat /\ DOMAIN columns = 1 .. Len(columns)
      /\ n \in Nat /\ n <= Len(columns)
  BY <1>4, <1>5
<1>7. /\ covered \in Seq(STRING) /\ Len(covered) = n
      /\ \A j \in 1 .. n : covered[j] = columns[j]
  BY <1>4, <1>5, <1>6
<1>8. DOMAIN covered = 1 .. n
  BY <1>7
<1>9. prefix \in Seq(asked) /\ Len(prefix) = n
  BY <1>2, <1>6, <1>8
<1> DEFINE cells == { r[columns[j]] : j \in DOMAIN columns }
<1>10. values \in Seq(cells) /\ Len(values) = Len(columns)
  BY <1>3, <1>6
<1>11. /\ SubSeq(prefix, 1, n) = [j \in 1 .. n |-> prefix[j]]
       /\ SubSeq(values, 1, n) = [j \in 1 .. n |-> values[j]]
  BY <1>6, <1>9, <1>10
<1>12. IsPrefix(prefix, values) <=> SubSeq(prefix, 1, n) = SubSeq(values, 1, n)
  BY <1>6, <1>9, <1>10 DEF IsPrefix
<1>13. SubSeq(prefix, 1, n) = SubSeq(values, 1, n) <=> \A j \in 1 .. n : prefix[j] = values[j]
  BY <1>11
<1>14. \A j \in 1 .. n : values[j] = r[covered[j]]
  BY <1>3, <1>6, <1>7
<1>15. IsPrefix(prefix, values) <=> \A j \in DOMAIN covered : prefix[j] = r[covered[j]]
  BY <1>8, <1>12, <1>13, <1>14
<1> QED  BY <1>15 DEF i, columns, covered, prefix, values

\* A key of the chosen index is in the scan if its row satisfies the conditions
\* on the covered columns.
LEMMA PrefixConditions ==
  ASSUME QueriesFitIndexes, NEW q \in Queries, UsesIndex(q), NEW r
  PROVE  LET index   == SecondaryIndexes[ChosenIndex(q)]
             covered == Covered(index, q)
         IN  InScan(IndexKey(index, r), q)
               <=> \A qc \in Range(q) : qc.column \in Range(covered) => Applicable(r, qc)
<1> DEFINE i == ChosenIndex(q)
           columns == SecondaryIndexes[i].columns
           covered == Covered(SecondaryIndexes[i], q)
           prefix == PrefixValues(q)
<1>1. \A qc \in Range(q), j \in DOMAIN covered :
        qc.column = covered[j] => qc.type = "=" /\ qc.value = prefix[j]
  BY DEF QueriesFitIndexes
<1>2. InScan(IndexKey(SecondaryIndexes[i], r), q)
        <=> \A j \in DOMAIN covered : prefix[j] = r[covered[j]]
  <2>1. InScan(IndexKey(SecondaryIndexes[i], r), q)
          <=> IsPrefix(prefix, IndexKey(SecondaryIndexes[i], r).values)
    BY DEF InScan, HasPrefix, IndexKey
  <2> QED  BY <2>1, PrefixOfRow
<1>3. \A j \in DOMAIN covered : \E qc \in Range(q) : covered[j] = qc.column
  <2>1. i \in DOMAIN SecondaryIndexes
    BY ChosenColumns
  <2> HIDE DEF i
  <2>2. columns \in Seq(STRING)
    BY <2>1, IndexColumns
  <2>3. PICK n \in 0 .. Len(columns) :
          /\ covered = SubSeq(columns, 1, n)
          /\ \A j \in 1 .. n : \E qc \in Range(q) : columns[j] = qc.column
    BY <2>1, CoveredColumns
  <2> HIDE DEF columns, covered
  <2>4. DOMAIN covered = 1 .. n /\ \A j \in 1 .. n : covered[j] = columns[j]
    BY <2>2, <2>3
  <2> QED  BY <2>3, <2>4
<1>4. \A qc \in Range(q), j \in DOMAIN covered :
        qc.column = covered[j] => (Applicable(r, qc) <=> prefix[j] = r[covered[j]])
  BY <1>1 DEF Applicable
<1> HIDE DEF i, covered, prefix
<1>5. (\A j \in DOMAIN covered : prefix[j] = r[covered[j]])
        <=> \A qc \in Range(q) : qc.column \in Range(covered) => Applicable(r, qc)
  BY <1>3, <1>4 DEF Range
<1> QED  BY <1>2, <1>5 DEF i, covered

\* The entry of a row, or that of the row in one of the indexes.
LEMMA KindsOfEntry ==
  ASSUME NEW e, NEW r \in Rows, NEW u, e \in EntriesFor(r, u)
  PROVE  /\ e.key.index = "" => e.value = r
         /\ e.key.index # "" =>
              \E i \in DOMAIN SecondaryIndexes : e.key = IndexKey(SecondaryIndexes[i], r)
<1>1. CASE e = [key |-> RowKey(r[PkColumn]), value |-> r, txnId |-> u]
  <2>1. e.key = RowKey(r[PkColumn]) /\ e.value = r
    BY <1>1
  <2>2. RowKey(r[PkColumn]).index = ""
    BY DEF RowKey
  <2> QED  BY <2>1, <2>2, Zenon
<1>2. CASE \E i \in DOMAIN SecondaryIndexes :
             e = [key |-> IndexKey(SecondaryIndexes[i], r), value |-> NoValue, txnId |-> u]
  <2>1. PICK i \in DOMAIN SecondaryIndexes :
             e = [key |-> IndexKey(SecondaryIndexes[i], r), value |-> NoValue, txnId |-> u]
    BY <1>2
  <2>2. e.key = IndexKey(SecondaryIndexes[i], r)
    BY <2>1
  <2>3. SecondaryIndexes[i].name # ""
    BY TableAssumption, Zenon
  <2>4. IndexKey(SecondaryIndexes[i], r).index = SecondaryIndexes[i].name
    BY DEF IndexKey
  <2>5. e.key.index # ""
    BY <2>2, <2>3, <2>4
  <2> QED  BY <2>2, <2>5, Zenon
<1> QED  BY <1>1, <1>2 DEF EntriesFor

\* A scan of the chosen index finds the primary key of a row of the snapshot
\* exactly if the row satisfies the conditions on the covered columns.
LEMMA IndexScan ==
  ASSUME RowsKeepIndexes, QueriesFitIndexes, Types, WriteInv,
         NEW t \in TxnIds, IsSelect(t), UnderWay(t),
         NEW q \in Queries, q = op[t].query, UsesIndex(q), NEW r \in RowsAt(t)
  PROVE  r[PkColumn] \in Wanted(t)
           <=> \A qc \in Range(q) :
                 qc.column \in Range(Covered(SecondaryIndexes[ChosenIndex(q)], q))
                   => Applicable(r, qc)
<1> DEFINE i == ChosenIndex(q)
           k == IndexKey(SecondaryIndexes[i], r)
<1>1. Wanted(t) = { e.key.pk : e \in { f \in View(t) : InScan(f.key, q) } }
  BY DEF Wanted, UsesIndex
<1>2. i \in DOMAIN SecondaryIndexes
  BY ChosenColumns
<1>3. InScan(k, q) <=> \A qc \in Range(q) :
                 qc.column \in Range(Covered(SecondaryIndexes[ChosenIndex(q)], q))
                   => Applicable(r, qc)
  BY PrefixConditions
<1>4. r \in Rows /\ \E e \in Of(View(t), RowKey(r[PkColumn])) : e.value = r
  BY SnapshotRows
<1>5. ASSUME InScan(k, q) PROVE r[PkColumn] \in Wanted(t)
  <2>1. PICK e \in View(t) : e.key = RowKey(r[PkColumn]) /\ e.value = r
    BY <1>4 DEF Of
  <2>2. PICK s \in Rows : e \in EntriesFor(s, e.txnId) /\ EntriesFor(s, e.txnId) \subseteq View(t)
    BY SeesWhole
  <2>3. RowKey(r[PkColumn]).index = ""
    BY DEF RowKey
  <2>4. e.key.index = "" => e.value = s
    BY <2>2, KindsOfEntry, Zenon
  <2>5. s = r
    BY <2>1, <2>3, <2>4
  <2> DEFINE f == [key |-> k, value |-> NoValue, txnId |-> e.txnId]
  <2>6. f \in View(t)
    BY <1>2, <2>2, <2>5 DEF EntriesFor
  <2>7. f.key = k /\ k.pk = r[PkColumn]
    BY DEF IndexKey
  <2> HIDE DEF f, k
  <2>8. f.key.pk = r[PkColumn] /\ InScan(f.key, q)
    BY <1>5, <2>7
  <2> QED  BY <1>1, <2>6, <2>8
<1>6. ASSUME r[PkColumn] \in Wanted(t) PROVE InScan(k, q)
  <2>1. PICK e \in View(t) : InScan(e.key, q) /\ e.key.pk = r[PkColumn]
    BY <1>1, <1>6
  <2>2. PICK s \in Rows : e \in EntriesFor(s, e.txnId)
    BY SeesWhole
  <2>3. e.txnId \in TxnIds
    BY AllFacts DEF View
  <2>4. s[PkColumn] = r[PkColumn]
    BY <2>1, <2>2, <2>3, PkOfEntry
  <2>5. e.key.index = SecondaryIndexes[i].name
    BY <2>1 DEF InScan, HasPrefix
  <2>6. SecondaryIndexes[i].name # ""
    BY <1>2, TableAssumption, Zenon
  <2>7. PICK j \in DOMAIN SecondaryIndexes : e.key = IndexKey(SecondaryIndexes[j], s)
    <3>1. e.key.index # ""
      BY <2>5, <2>6
    <3> QED  BY <2>2, <3>1, KindsOfEntry, Zenon
  <2>8. j = i
    <3>1. SecondaryIndexes[j].name = SecondaryIndexes[i].name
      BY <2>5, <2>7 DEF IndexKey
    <3> QED  BY <3>1 DEF QueriesFitIndexes
  <2>9. e.key = k
    BY <1>2, <1>4, <2>4, <2>7, <2>8 DEF RowsKeepIndexes
  <2> QED  BY <2>1, <2>9
<1> QED  BY <1>3, <1>5, <1>6

\* The rows that the calls found and the filter left are the answer.
LEMMA FilteredIsAnswer ==
  ASSUME RowsKeepIndexes, QueriesFitIndexes, Types, WriteInv,
         NEW t \in TxnIds, IsSelect(t), UnderWay(t)
  PROVE  Filtered(RowsOf(t, Wanted(t)), op[t].query) = Answer(t)
<1> DEFINE q == op[t].query
           index == SecondaryIndexes[ChosenIndex(q)]
           covered == Covered(index, q)
<1>1. q \in Queries
  <2>1. op[t] \in SelectOps
    BY Kinds DEF Types
  <2> QED  BY <2>1 DEF SelectOps
<1>2. CASE IsPointed(q)
  <2>1. Answer(t) = RowsOf(t, {q[1].value}) /\ Wanted(t) = {q[1].value}
    BY <1>1, <1>2, PointedAnswer DEF Wanted
  <2>2. Filtered(RowsOf(t, Wanted(t)), q) = RowsOf(t, Wanted(t))
    BY <1>2 DEF Filtered
  <2> QED  BY <2>1, <2>2
<1>3. CASE ~IsPointed(q) /\ ~UsesIndex(q)
  <2>1. RowsOf(t, Wanted(t)) = RowsAt(t)
    BY <1>3, SnapshotRows DEF Wanted
  <2>2. CASE IsFullScan(q)
    <3>1. Range(q) = {}
      BY <2>2, FullScanUsesNone
    <3>2. Filtered(RowsAt(t), q) = RowsAt(t)
      BY <2>2 DEF Filtered
    <3> QED  BY <2>1, <3>1, <3>2 DEF Answer
  <2>3. CASE ~IsFullScan(q)
    BY <1>3, <2>1, <2>3 DEF Filtered, Answer
  <2> QED  BY <2>2, <2>3
<1>4. CASE UsesIndex(q)
  <2>1. ~IsPointed(q) /\ ~IsFullScan(q)
    BY <1>4, FullScanUsesNone DEF UsesIndex
  <2>2. \A r \in RowsAt(t) :
          r[PkColumn] \in Wanted(t)
            <=> \A qc \in Range(q) : qc.column \in Range(covered) => Applicable(r, qc)
    BY <1>1, <1>4, IndexScan
  <2>3. Wanted(t) \in SUBSET Pks
    <3>1. \A e \in View(t) : e.key.pk \in Pks
      BY AllFacts, FromRowFacts DEF View
    <3> QED  BY <1>4, <2>1, <3>1 DEF Wanted
  <2>4. RowsOf(t, Wanted(t)) = { r \in RowsAt(t) : r[PkColumn] \in Wanted(t) }
    BY <2>3, SnapshotRows
  <2>5. Answer(t) = { r \in RowsAt(t) : \A qc \in Range(q) : Applicable(r, qc) }
    BY DEF Answer
  <2>6. CASE FullyCovered(index, q)
    <3>1. Filtered(RowsOf(t, Wanted(t)), q) = RowsOf(t, Wanted(t))
      BY <1>4, <2>6 DEF Filtered
    <3>2. \A qc \in Range(q) : qc.column \in Range(covered)
      BY <1>1, <1>4, <2>6 DEF QueriesFitIndexes
    <3> HIDE DEF q, covered
    <3>3. \A r \in RowsAt(t) :
            r[PkColumn] \in Wanted(t) <=> \A qc \in Range(q) : Applicable(r, qc)
      BY <2>2, <3>2
    <3> QED  BY <2>4, <2>5, <3>1, <3>3 DEF q
  <2>7. CASE ~FullyCovered(index, q)
    <3>1. Filtered(RowsOf(t, Wanted(t)), q) =
            { r \in RowsOf(t, Wanted(t)) : \A qc \in Range(q) :
                qc.column \in Range(covered) \/ Applicable(r, qc) }
      BY <1>4, <2>1, <2>7 DEF Filtered
    <3> HIDE DEF q, covered
    <3>2. \A r \in RowsAt(t) :
            /\ r[PkColumn] \in Wanted(t)
            /\ \A qc \in Range(q) : qc.column \in Range(covered) \/ Applicable(r, qc)
            <=> \A qc \in Range(q) : Applicable(r, qc)
      BY <2>2
    <3> QED  BY <2>4, <2>5, <3>1, <3>2 DEF q
  <2> QED  BY <2>6, <2>7
<1> QED  BY <1>2, <1>3, <1>4

\* The result of a SELECT is the set of rows that satisfy its conditions and
\* were committed when it began, unless two writers met or a data block opens
\* with a version that it must not see, for every table whose rows keep their
\* index entries and every set of queries that fit the indexes: through
\* whichever index it goes, in whatever order Commit stores the entries of a
\* row, however the files are cut into blocks, and however INSERTs and flushes
\* run between its scan of the memtable, its scan of the files and its lookups.
THEOREM SelectCorrect ==
  ASSUME RowsKeepIndexes, QueriesFitIndexes
  PROVE  Spec => []SelectMatchesSnapshot
<1>1. ASSUME Inv PROVE SelectMatchesSnapshot
  <2> SUFFICES ASSUME NEW t \in TxnIds, IsSelect(t), ~raced, SeesBlockStarts(t),
                      op[t].pc \in {"commit", "clear", "flushed"}
               PROVE  op[t].queryResult = Answer(t)
    BY DEF SelectMatchesSnapshot
  <2>1. Types /\ WriteInv /\ Readers
    BY <1>1 DEF Inv
  <2>2. op[t].queryResult = Filtered(RowsOf(t, Wanted(t)), op[t].query)
    BY <2>1 DEF Readers, Reader, Returned
  <2>3. UnderWay(t)
    BY DEF UnderWay
  <2> QED  BY <2>1, <2>2, <2>3, FilteredIsAnswer
<1> QED  BY <1>1, Invariance, PTL
===============================================================================
