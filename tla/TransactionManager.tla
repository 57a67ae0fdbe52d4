-------------------------- MODULE TransactionManager --------------------------
(***************************************************************************)
(* The transaction manager of db/db.go and db/transaction.go: Begin, Put,  *)
(* Commit and Rollback of transactions that run in goroutines of their     *)
(* own.  A goroutine step is what happens inside one critical section of   *)
(* transactionManager.mu, or one access to shared state made without it:   *)
(* releaseAllLocks runs outside the mutex, one key at a time, and Commit   *)
(* stores its writes in the memtable one key at a time.  The fields of a   *)
(* Transaction handle belong to its goroutine, so accesses to them join    *)
(* the neighbouring shared step.                                           *)
(*                                                                         *)
(* A Put that meets another writer's lock returns an error and changes     *)
(* nothing, so it needs no action.  A handle is not used after Commit or   *)
(* Rollback returned nil; nothing in the code enforces that.               *)
(***************************************************************************)
EXTENDS Versions

CONSTANTS MaxTxnId,      \* bound on the transaction ids handed out
          FirstTxnId,    \* nextTransactionId when NewDB returns
          StorageFaults  \* TRUE: the memtable flush inside Commit may fail

ASSUME TxnIdAssumption == /\ MaxTxnId \in Nat \ {0}
                          /\ FirstTxnId \in 1 .. MaxTxnId
                          /\ StorageFaults \in BOOLEAN

TxnIds == 1 .. MaxTxnId

VARIABLES
  nextTransactionId,
  activeTransactionsMap,   \* the set of its keys
  keyVsLocksAcquiredMap,   \* key -> writerTxnId, 0 when nobody holds it
                           \* (readerTxnIds is never filled by the code)
  phase,                   \* how far each transaction's goroutine has come
  snapshot,                \* activeTransactionsSnapshot of each handle
  bufferedWriteMap,        \* of each handle: a function on the keys written
  lockAcquiredKeys,        \* of each handle: the keys still to be released
  versions                 \* history: every entry handed to memTable.Put

vars == <<nextTransactionId, activeTransactionsMap, keyVsLocksAcquiredMap,
          phase, snapshot, bufferedWriteMap, lockAcquiredKeys, versions>>

(***************************************************************************)
(*   none       the id has not been handed out                             *)
(*   open       between Begin and Commit or Rollback                       *)
(*   applying   Commit wrote the WAL entry and is filling the memtable     *)
(*   releasing  Commit is in releaseAllLocks                               *)
(*   undoing    Rollback is in releaseAllLocks                             *)
(*   committed, aborted: the call returned                                 *)
(***************************************************************************)
Phases == {"none", "open", "applying", "releasing", "undoing",
           "committed", "aborted"}
Active == {"open", "applying", "releasing", "undoing"}
Over   == {"committed", "aborted"}

WriteMaps == UNION { [D -> Values] : D \in SUBSET Keys }
NoWrites  == [k \in {} |-> 0]

TypeOK ==
  /\ nextTransactionId \in 1 .. MaxTxnId + 1
  /\ activeTransactionsMap \in SUBSET TxnIds
  /\ keyVsLocksAcquiredMap \in [Keys -> {0} \cup TxnIds]
  /\ phase \in [TxnIds -> Phases]
  /\ snapshot \in [TxnIds -> SUBSET TxnIds]
  /\ bufferedWriteMap \in [TxnIds -> WriteMaps]
  /\ lockAcquiredKeys \in [TxnIds -> SUBSET Keys]
  /\ versions \in SUBSET [key : Keys, value : Values, txnId : TxnIds]

\* The manager NewDB builds: ids below FirstTxnId belong to transactions of
\* an earlier run of the program and to the one that read the catalog.
Init ==
  /\ nextTransactionId = FirstTxnId
  /\ activeTransactionsMap = {}
  /\ keyVsLocksAcquiredMap = [k \in Keys |-> 0]
  /\ phase = [t \in TxnIds |-> IF t < FirstTxnId THEN "committed" ELSE "none"]
  /\ snapshot = [t \in TxnIds |-> {}]
  /\ bufferedWriteMap = [t \in TxnIds |-> NoWrites]
  /\ lockAcquiredKeys = [t \in TxnIds |-> {}]
  /\ versions = {}

-------------------------------------------------------------------------------
\* Changed forms of the operations below, each a slip this code could have
\* had.  Nothing uses them; PROJECT.json names the property that rejects each.

\* the writer recorded is the manager's next id, not the transaction's
LockUnderNextId(t, k) ==
  /\ keyVsLocksAcquiredMap[k] \in {0, t}
  /\ keyVsLocksAcquiredMap' =
       [keyVsLocksAcquiredMap EXCEPT ![k] = nextTransactionId]
  /\ lockAcquiredKeys' = [lockAcquiredKeys EXCEPT ![t] = @ \cup {k}]

\* another writer's lock is not noticed
LockUnchecked(t, k) ==
  /\ keyVsLocksAcquiredMap' = [keyVsLocksAcquiredMap EXCEPT ![k] = t]
  /\ lockAcquiredKeys' = [lockAcquiredKeys EXCEPT ![t] = @ \cup {k}]

\* a read ignores what the transaction has written itself
GetIgnoresBuffer(t, k) == MemtableGet(versions, k, t, snapshot[t])

\* a read goes by who is active now, as READ COMMITTED would
GetReadCommitted(t, k) ==
  IF k \in DOMAIN bufferedWriteMap[t]
  THEN {[key |-> k, value |-> bufferedWriteMap[t][k], txnId |-> t]}
  ELSE MemtableGet(versions, k, t, activeTransactionsMap)

\* Commit leaves activeTransactionsMap before it fills the memtable
CommitWalLeavesEarly(t) ==
  /\ phase[t] = "open"
  /\ phase' = [phase EXCEPT ![t] = "applying"]
  /\ activeTransactionsMap' = activeTransactionsMap \ {t}
  /\ UNCHANGED <<nextTransactionId, keyVsLocksAcquiredMap, snapshot,
                 bufferedWriteMap, lockAcquiredKeys, versions>>

\* one stored write is taken for all of them
AppliedSome(t) ==
  DOMAIN bufferedWriteMap[t] = {}
    \/ EntriesOf(bufferedWriteMap[t], t) \cap versions # {}

\* a handle whose Commit is under way can be rolled back
RollbackAnyTime(t) ==
  /\ phase[t] \in {"open", "applying"}
  /\ phase' = [phase EXCEPT ![t] = "undoing"]
  /\ UNCHANGED <<nextTransactionId, activeTransactionsMap,
                 keyVsLocksAcquiredMap, snapshot, bufferedWriteMap,
                 lockAcquiredKeys, versions>>

\* locks are released while the memtable is being filled
ReleaseWhileApplying(t, k) ==
  /\ phase[t] \in {"applying", "releasing", "undoing"}
  /\ k \in lockAcquiredKeys[t]
  /\ lockAcquiredKeys' = [lockAcquiredKeys EXCEPT ![t] = @ \ {k}]
  /\ keyVsLocksAcquiredMap' =
       [keyVsLocksAcquiredMap EXCEPT ![k] = IF @ = t THEN 0 ELSE @]
  /\ UNCHANGED <<nextTransactionId, activeTransactionsMap, phase, snapshot,
                 bufferedWriteMap, versions>>

\* the end of the call waits until nobody holds a lock
FinishWaitsForLocks(t) ==
  /\ phase[t] \in {"releasing", "undoing"}
  /\ \A k \in Keys : keyVsLocksAcquiredMap[k] = 0
  /\ lockAcquiredKeys[t] = {}
  /\ bufferedWriteMap' = [bufferedWriteMap EXCEPT ![t] = NoWrites]
  /\ activeTransactionsMap' = activeTransactionsMap \ {t}
  /\ phase' = [phase EXCEPT ![t] = IF @ = "releasing" THEN "committed"
                                                      ELSE "aborted"]
  /\ UNCHANGED <<nextTransactionId, keyVsLocksAcquiredMap, snapshot,
                 lockAcquiredKeys, versions>>

-------------------------------------------------------------------------------
\* DB.Begin, one critical section.  The snapshot is copied after the new id
\* entered the map, so it contains the transaction itself.
Begin(t) ==
  /\ t = nextTransactionId
  /\ t \in TxnIds
  /\ activeTransactionsMap' = activeTransactionsMap \cup {t}
  /\ snapshot' = [snapshot EXCEPT ![t] = activeTransactionsMap \cup {t}]
  /\ nextTransactionId' = nextTransactionId + 1
  /\ phase' = [phase EXCEPT ![t] = "open"]
  /\ UNCHANGED <<keyVsLocksAcquiredMap, bufferedWriteMap, lockAcquiredKeys,
                 versions>>

\* Succeeds when nobody, or t itself, is the writer of k.
tryAcquireWriteLock(t, k) ==
  /\ keyVsLocksAcquiredMap[k] \in {0, t}
  /\ keyVsLocksAcquiredMap' = [keyVsLocksAcquiredMap EXCEPT ![k] = t]
  /\ lockAcquiredKeys' = [lockAcquiredKeys EXCEPT ![t] = @ \cup {k}]

BufferWrite(writeMap, k, v) ==
  [x \in DOMAIN writeMap \cup {k} |-> IF x = k THEN v ELSE writeMap[x]]

\* Transaction.Put when the lock is granted.
Put(t, k, v) ==
  /\ phase[t] = "open"
  /\ tryAcquireWriteLock(t, k)
  /\ bufferedWriteMap' =
       [bufferedWriteMap EXCEPT ![t] = BufferWrite(bufferedWriteMap[t], k, v)]
  /\ UNCHANGED <<nextTransactionId, activeTransactionsMap, phase, snapshot,
                 versions>>

\* Transaction.Get: the handle's own write, else what the snapshot shows of
\* the versions stored (getWithSnapshot; the files behind it are in SsTable).
Get(t, k) ==
  IF k \in DOMAIN bufferedWriteMap[t]
  THEN {[key |-> k, value |-> bufferedWriteMap[t][k], txnId |-> t]}
  ELSE MemtableGet(versions, k, t, snapshot[t])

\* Transaction.Commit up to the end of writeSingleWalEntryForCommit.  When
\* the write fails Commit returns the error with the handle as it was.
CommitWal(t) ==
  /\ phase[t] = "open"
  /\ phase' = [phase EXCEPT ![t] = "applying"]
  /\ UNCHANGED <<nextTransactionId, activeTransactionsMap,
                 keyVsLocksAcquiredMap, snapshot, bufferedWriteMap,
                 lockAcquiredKeys, versions>>

\* One round of Commit's loop over bufferedWriteMap.
CommitPut(t, k) ==
  /\ phase[t] = "applying"
  /\ k \in DOMAIN bufferedWriteMap[t]
  /\ [key |-> k, value |-> bufferedWriteMap[t][k], txnId |-> t] \notin versions
  /\ versions' = MemtablePut(versions, k, bufferedWriteMap[t][k], t)
  /\ UNCHANGED <<nextTransactionId, activeTransactionsMap,
                 keyVsLocksAcquiredMap, phase, snapshot, bufferedWriteMap,
                 lockAcquiredKeys>>

Applied(t) == EntriesOf(bufferedWriteMap[t], t) \subseteq versions

\* The loop is over, and the flush that ShouldFlush may have asked for too.
CommitApplied(t) ==
  /\ phase[t] = "applying"
  /\ Applied(t)
  /\ phase' = [phase EXCEPT ![t] = "releasing"]
  /\ UNCHANGED <<nextTransactionId, activeTransactionsMap,
                 keyVsLocksAcquiredMap, snapshot, bufferedWriteMap,
                 lockAcquiredKeys, versions>>

\* The flush failed: Commit returns its error, keeping locks, buffer and
\* activeTransactionsMap as they are, and the caller still has the handle.
CommitFails(t) ==
  /\ StorageFaults
  /\ phase[t] = "applying"
  /\ Applied(t)
  /\ phase' = [phase EXCEPT ![t] = "open"]
  /\ UNCHANGED <<nextTransactionId, activeTransactionsMap,
                 keyVsLocksAcquiredMap, snapshot, bufferedWriteMap,
                 lockAcquiredKeys, versions>>

\* Transaction.Rollback enters releaseAllLocks.
Rollback(t) ==
  /\ phase[t] = "open"
  /\ phase' = [phase EXCEPT ![t] = "undoing"]
  /\ UNCHANGED <<nextTransactionId, activeTransactionsMap,
                 keyVsLocksAcquiredMap, snapshot, bufferedWriteMap,
                 lockAcquiredKeys, versions>>

\* One round of releaseAllLocks, without the mutex: the lock is cleared
\* only if t is still its writer.
releaseLock(t, k) ==
  /\ phase[t] \in {"releasing", "undoing"}
  /\ k \in lockAcquiredKeys[t]
  /\ lockAcquiredKeys' = [lockAcquiredKeys EXCEPT ![t] = @ \ {k}]
  /\ keyVsLocksAcquiredMap' =
       [keyVsLocksAcquiredMap EXCEPT ![k] = IF @ = t THEN 0 ELSE @]
  /\ UNCHANGED <<nextTransactionId, activeTransactionsMap, phase, snapshot,
                 bufferedWriteMap, versions>>

\* cleanupBufferedWriteMap and the critical section that deletes the id.
Finish(t) ==
  /\ phase[t] \in {"releasing", "undoing"}
  /\ lockAcquiredKeys[t] = {}
  /\ bufferedWriteMap' = [bufferedWriteMap EXCEPT ![t] = NoWrites]
  /\ activeTransactionsMap' = activeTransactionsMap \ {t}
  /\ phase' = [phase EXCEPT ![t] = IF @ = "releasing" THEN "committed"
                                                      ELSE "aborted"]
  /\ UNCHANGED <<nextTransactionId, keyVsLocksAcquiredMap, snapshot,
                 lockAcquiredKeys, versions>>

\* What the goroutine inside Commit or Rollback does next.
CallStep(t) ==
  \/ \E k \in Keys : CommitPut(t, k) \/ releaseLock(t, k)
  \/ CommitApplied(t)
  \/ Finish(t)

Next ==
  \E t \in TxnIds :
    \/ Begin(t)
    \/ \E k \in Keys, v \in Values : Put(t, k, v)
    \/ CommitWal(t)
    \/ CommitFails(t)
    \/ Rollback(t)
    \/ CallStep(t)

Spec == Init /\ [][Next]_vars

\* A goroutine inside a call is scheduled again and again by the Go runtime.
\* Clients are not obliged to Begin, Put, Commit or Rollback.
FairSpec == Spec /\ \A t \in TxnIds : WF_vars(CallStep(t))

-------------------------------------------------------------------------------
(***************************************************************************)
(* Properties                                                              *)
(***************************************************************************)

\* releaseAllLocks prints INCONSISTENCY_OBSERVED when a key it acquired has
\* another writer; a key must be in lockAcquiredKeys of exactly the
\* transaction that keyVsLocksAcquiredMap names, at every point between the
\* unlocked rounds of releaseAllLocks, so that branch is dead and no
\* finished transaction leaves a lock behind.
LocksAgree ==
  \A t \in TxnIds, k \in Keys :
    keyVsLocksAcquiredMap[k] = t <=> k \in lockAcquiredKeys[t]

\* Until its writes are in the memtable, a transaction holds the lock of
\* every key it buffered: two writers never buffer the same key at once.
BufferedKeysLocked ==
  \A t \in TxnIds :
    phase[t] \in {"open", "applying"} =>
      \A k \in DOMAIN bufferedWriteMap[t] : keyVsLocksAcquiredMap[k] = t

\* A version that a transaction can see (CanSee) comes from a transaction
\* whose Commit has stored all its writes and left activeTransactionsMap:
\* no read sees a transaction that is still running or half applied.
SeesOnlyFinished ==
  \A t, u \in TxnIds :
    phase[t] # "none" /\ u # t /\ CanSee(u, t, snapshot[t])
      => phase[u] \in Over

\* Repeatable read, the isolation level the code implements: between two
\* reads of an open transaction only its own Put changes what Get returns,
\* whatever the other goroutines did in the meantime.
RepeatableRead ==
  [][\A t \in TxnIds, k \in Keys :
       /\ phase[t] = "open" /\ phase'[t] = "open"
       /\ bufferedWriteMap'[t] = bufferedWriteMap[t]
       => Get(t, k)' = Get(t, k)]_vars

\* Writes of rolled back transactions never become visible to anyone.
RolledBackInvisible ==
  \A e \in versions : phase[e.txnId] # "aborted"

\* A Commit or Rollback that started returns, with or without an error: no
\* step of it waits for a lock or for another transaction.
InsideCall == {"applying", "releasing", "undoing"}
CallsReturn ==
  \A t \in TxnIds : phase[t] \in InsideCall ~> phase[t] \notin InsideCall

-------------------------------------------------------------------------------
(***************************************************************************)
(* The manager implements SnapshotIsolation as long as no flush fails.  A  *)
(* transaction commits when it leaves activeTransactionsMap, whatever its  *)
(* goroutine stored before, and aborts when Rollback starts.               *)
(* The transactions of an earlier run have no view.                        *)
(***************************************************************************)
StatusBar ==
  [t \in TxnIds |->
     CASE phase[t] \in {"open", "applying", "releasing"} -> "open"
       [] phase[t] \in {"undoing", "aborted"}            -> "aborted"
       [] OTHER                                          -> phase[t]]

ViewBar ==
  [t \in TxnIds |->
     { u \in TxnIds : /\ FirstTxnId <= t /\ phase[t] # "none"
                      /\ u # t /\ CanSee(u, t, snapshot[t])
                      /\ phase[u] = "committed" }]

WritesBar ==
  [t \in TxnIds |->
     IF phase[t] = "undoing" THEN NoWrites ELSE bufferedWriteMap[t]]

StoreBar == { e \in versions : phase[e.txnId] = "committed" }

SI == INSTANCE SnapshotIsolation
        WITH status <- StatusBar, view <- ViewBar, writes <- WritesBar,
             store <- StoreBar

\* Every behaviour of the manager is one SnapshotIsolation allows: the
\* one-by-one memtable writes, the unlocked release of the locks and the
\* late removal from activeTransactionsMap look like one atomic Commit.
ImplementsSnapshotIsolation == SI!Spec

\* The visibility rule applied to all stored versions, half applied commits
\* included, returns what SnapshotIsolation's read returns.
ReadsMatch ==
  \A t \in TxnIds, k \in Keys : phase[t] = "open" => Get(t, k) = SI!Read(t, k)
===============================================================================
