----------------------- MODULE TransactionManagerProofs -----------------------
(***************************************************************************)
(* Proofs about TransactionManager, for any number of keys, values and     *)
(* transaction ids.  All of them rest on one inductive invariant, Inv: the *)
(* properties the model checker looks at, plus the bookkeeping facts that  *)
(* tie activeTransactionsMap and nextTransactionId to the phase of each    *)
(* transaction and say that a handle not in use has no writes buffered.    *)
(* The refinement of SnapshotIsolation needs RefInv on top of it: where    *)
(* the stored versions come from, as long as no flush fails.               *)
(***************************************************************************)
EXTENDS TransactionManager, TLAPS

\* activeTransactionsMap holds exactly the transactions inside their life.
ActiveAgrees ==
  \A t \in TxnIds : t \in activeTransactionsMap <=> phase[t] \in Active

\* The ids handed out are those below nextTransactionId.
IdsInOrder ==
  \A t \in TxnIds : phase[t] = "none" <=> nextTransactionId <= t

\* A transaction that has not begun has buffered nothing.
FreshHandles ==
  \A t \in TxnIds : phase[t] = "none" => DOMAIN bufferedWriteMap[t] = {}

Inv == /\ TypeOK
       /\ LocksAgree
       /\ BufferedKeysLocked
       /\ ActiveAgrees
       /\ IdsInOrder
       /\ FreshHandles
       /\ SeesOnlyFinished

\* Storing a value for a key in a write map gives a write map again.
LEMMA BufferWriteType ==
  ASSUME NEW m \in WriteMaps, NEW k \in Keys, NEW v \in Values
  PROVE  BufferWrite(m, k, v) \in WriteMaps
<1>1. PICK D \in SUBSET Keys : m \in [D -> Values]
  BY DEF WriteMaps
<1>2. BufferWrite(m, k, v) \in [D \cup {k} -> Values]
  BY <1>1 DEF BufferWrite
<1>3. D \cup {k} \in SUBSET Keys
  OBVIOUS
<1> QED
  BY <1>2, <1>3 DEF WriteMaps

\* The write map with no keys is one.
LEMMA NoWritesType == NoWrites \in WriteMaps /\ DOMAIN NoWrites = {}
<1>1. NoWrites \in [{} -> Values]
  BY DEF NoWrites
<1> QED
  BY <1>1 DEF WriteMaps, NoWrites

\* Write maps are functions from a set of keys to values.
LEMMA WriteMapsElim ==
  ASSUME NEW m \in WriteMaps
  PROVE  /\ DOMAIN m \subseteq Keys
         /\ \A k \in DOMAIN m : m[k] \in Values
BY DEF WriteMaps

\* NewDB's manager satisfies the invariant.
LEMMA InitInv == Init => Inv
<1> SUFFICES ASSUME Init PROVE Inv
  OBVIOUS
<1> USE TxnIdAssumption DEF Init, TxnIds
<1>1. TypeOK
  BY NoWritesType DEF TypeOK, Phases
<1>2. LocksAgree
  <2> SUFFICES ASSUME NEW t \in TxnIds, NEW k \in Keys
               PROVE  keyVsLocksAcquiredMap[k] # t /\ k \notin lockAcquiredKeys[t]
    BY DEF LocksAgree
  <2>1. t # 0
    BY DEF TxnIdAssumption
  <2> QED
    BY <2>1
<1>3. BufferedKeysLocked /\ FreshHandles
  BY NoWritesType DEF BufferedKeysLocked, FreshHandles
<1>4. ActiveAgrees /\ IdsInOrder
  BY DEF ActiveAgrees, IdsInOrder, Active
<1>5. SeesOnlyFinished
  BY DEF SeesOnlyFinished, CanSee, Over
<1> QED
  BY <1>1, <1>2, <1>3, <1>4, <1>5 DEF Inv

\* Begin preserves the invariant: the snapshot it copies names every
\* transaction below the new id that is not over.
LEMMA BeginInv ==
  ASSUME Inv, NEW t \in TxnIds, Begin(t)
  PROVE  Inv'
<1> USE TxnIdAssumption DEF Begin, TxnIds
<1>1. TypeOK'
  BY DEF Inv, TypeOK, Phases
<1>2. LocksAgree'
  BY DEF Inv, LocksAgree
<1>3. BufferedKeysLocked' /\ FreshHandles'
  <2>1. phase[t] = "none"
    BY DEF Inv, TypeOK, IdsInOrder
  <2> QED
    BY <2>1 DEF Inv, TypeOK, BufferedKeysLocked, FreshHandles
<1>4. ActiveAgrees'
  BY DEF Inv, TypeOK, ActiveAgrees, Active
<1>5. IdsInOrder'
  BY DEF Inv, TypeOK, IdsInOrder
<1>6. SeesOnlyFinished'
  <2> SUFFICES ASSUME NEW s \in TxnIds, NEW u \in TxnIds,
                      phase'[s] # "none", u # s, CanSee(u, s, snapshot'[s])
               PROVE  phase'[u] \in Over
    BY DEF SeesOnlyFinished
  <2>1. u < s /\ u \notin snapshot'[s]
    BY DEF CanSee
  <2>2. CASE s = t
    <3>1. u \notin activeTransactionsMap /\ u < nextTransactionId
      BY <2>1, <2>2 DEF Inv, TypeOK
    <3>2. phase[u] # "none" /\ phase[u] \notin Active
      BY <3>1 DEF Inv, TypeOK, IdsInOrder, ActiveAgrees
    <3>3. phase[u] \in Over
      BY <3>2 DEF Inv, TypeOK, Phases, Active, Over
    <3> QED
      BY <3>3, <2>2 DEF Inv, TypeOK
  <2>3. CASE s # t
    <3>1. phase[s] # "none" /\ snapshot'[s] = snapshot[s]
      BY <2>3 DEF Inv, TypeOK
    <3>2. phase[u] \in Over
      BY <2>1, <3>1 DEF Inv, SeesOnlyFinished, CanSee
    <3>3. u # t
      BY <3>2 DEF Inv, TypeOK, IdsInOrder, Over
    <3> QED
      BY <3>2, <3>3 DEF Inv, TypeOK
  <2> QED
    BY <2>2, <2>3
<1> QED
  BY <1>1, <1>2, <1>3, <1>4, <1>5, <1>6 DEF Inv

\* Put preserves the invariant: the lock it takes had no other owner.
LEMMA PutInv ==
  ASSUME Inv, NEW t \in TxnIds, NEW k \in Keys, NEW v \in Values,
         Put(t, k, v)
  PROVE  Inv'
<1> USE TxnIdAssumption DEF Put, tryAcquireWriteLock, TxnIds
<1>1. TypeOK'
  <2>1. BufferWrite(bufferedWriteMap[t], k, v) \in WriteMaps
    BY BufferWriteType DEF Inv, TypeOK
  <2> QED
    BY <2>1 DEF Inv, TypeOK
<1>2. LocksAgree'
  BY DEF Inv, TypeOK, LocksAgree
<1>3. BufferedKeysLocked'
  BY DEF Inv, TypeOK, BufferedKeysLocked, BufferWrite
<1>4. FreshHandles'
  BY DEF Inv, TypeOK, FreshHandles
<1>5. ActiveAgrees' /\ IdsInOrder' /\ SeesOnlyFinished'
  BY DEF Inv, ActiveAgrees, IdsInOrder, SeesOnlyFinished
<1> QED
  BY <1>1, <1>2, <1>3, <1>4, <1>5 DEF Inv

\* A step of one goroutine that only moves a transaction between phases of
\* its life, and not back from releasing or undoing, preserves the invariant.
LEMMA PhaseStepInv ==
  ASSUME Inv, NEW t \in TxnIds, NEW p \in Active,
         phase[t] \in {"open", "applying"},
         phase' = [phase EXCEPT ![t] = p],
         UNCHANGED <<nextTransactionId, activeTransactionsMap,
                     keyVsLocksAcquiredMap, snapshot, bufferedWriteMap,
                     lockAcquiredKeys, versions>>
  PROVE  Inv'
<1>1. TypeOK'
  BY DEF Inv, TypeOK, Phases, Active
<1>2. LocksAgree'
  BY DEF Inv, LocksAgree
<1>3. BufferedKeysLocked' /\ FreshHandles'
  BY DEF Inv, TypeOK, BufferedKeysLocked, FreshHandles, Active
<1>4. ActiveAgrees' /\ IdsInOrder'
  BY DEF Inv, TypeOK, ActiveAgrees, IdsInOrder, Active
<1>5. SeesOnlyFinished'
  BY DEF Inv, TypeOK, SeesOnlyFinished, Over
<1> QED
  BY <1>1, <1>2, <1>3, <1>4, <1>5 DEF Inv

\* A round of Commit's loop preserves the invariant.
LEMMA CommitPutInv ==
  ASSUME Inv, NEW t \in TxnIds, NEW k \in Keys, CommitPut(t, k)
  PROVE  Inv'
<1> USE DEF CommitPut
<1>1. bufferedWriteMap[t][k] \in Values
  BY WriteMapsElim DEF Inv, TypeOK
<1>2. TypeOK'
  BY <1>1 DEF Inv, TypeOK, MemtablePut
<1>3. LocksAgree' /\ BufferedKeysLocked' /\ FreshHandles'
  BY DEF Inv, LocksAgree, BufferedKeysLocked, FreshHandles
<1>4. ActiveAgrees' /\ IdsInOrder' /\ SeesOnlyFinished'
  BY DEF Inv, ActiveAgrees, IdsInOrder, SeesOnlyFinished
<1> QED
  BY <1>2, <1>3, <1>4 DEF Inv

\* A round of releaseAllLocks preserves the invariant: the lock it clears is
\* its own, and the keys of writers still at work keep their owner.
LEMMA ReleaseLockInv ==
  ASSUME Inv, NEW t \in TxnIds, NEW k \in Keys, releaseLock(t, k)
  PROVE  Inv'
<1> USE TxnIdAssumption DEF releaseLock, TxnIds
<1>1. TypeOK'
  BY DEF Inv, TypeOK
<1>2. keyVsLocksAcquiredMap[k] = t
  BY DEF Inv, LocksAgree
<1>3. LocksAgree'
  BY <1>2 DEF Inv, TypeOK, LocksAgree
<1>4. BufferedKeysLocked'
  BY <1>2 DEF Inv, TypeOK, BufferedKeysLocked
<1>5. FreshHandles' /\ ActiveAgrees' /\ IdsInOrder' /\ SeesOnlyFinished'
  BY DEF Inv, FreshHandles, ActiveAgrees, IdsInOrder, SeesOnlyFinished
<1> QED
  BY <1>1, <1>3, <1>4, <1>5 DEF Inv

\* The last critical section of Commit and Rollback preserves the invariant.
LEMMA FinishInv ==
  ASSUME Inv, NEW t \in TxnIds, Finish(t)
  PROVE  Inv'
<1> USE DEF Finish
<1>1. phase' = [phase EXCEPT ![t] = "committed"]
      \/ phase' = [phase EXCEPT ![t] = "aborted"]
  BY DEF Inv, TypeOK
<1>2. TypeOK'
  BY <1>1, NoWritesType DEF Inv, TypeOK, Phases
<1>3. LocksAgree'
  BY DEF Inv, LocksAgree
<1>4. BufferedKeysLocked' /\ FreshHandles'
  BY <1>1, NoWritesType DEF Inv, TypeOK, BufferedKeysLocked, FreshHandles
<1>5. ActiveAgrees' /\ IdsInOrder'
  BY <1>1 DEF Inv, TypeOK, ActiveAgrees, IdsInOrder, Active
<1>6. SeesOnlyFinished'
  BY <1>1 DEF Inv, TypeOK, SeesOnlyFinished, Over
<1> QED
  BY <1>2, <1>3, <1>4, <1>5, <1>6 DEF Inv

\* The invariant is inductive.
LEMMA NextInv == Inv /\ [Next]_vars => Inv'
<1> SUFFICES ASSUME Inv, [Next]_vars PROVE Inv'
  OBVIOUS
<1>1. CASE UNCHANGED vars
  BY <1>1 DEF vars, Inv, TypeOK, LocksAgree, BufferedKeysLocked,
              ActiveAgrees, IdsInOrder, FreshHandles, SeesOnlyFinished
<1>2. CASE Next
  <2> PICK t \in TxnIds :
        \/ Begin(t)
        \/ \E k \in Keys, v \in Values : Put(t, k, v)
        \/ CommitWal(t) \/ CommitFails(t) \/ Rollback(t)
        \/ CallStep(t)
    BY <1>2 DEF Next
  <2>1. CASE Begin(t)
    BY <2>1, BeginInv
  <2>2. CASE \E k \in Keys, v \in Values : Put(t, k, v)
    BY <2>2, PutInv
  <2>3. CASE CommitWal(t)
    BY <2>3, PhaseStepInv DEF CommitWal, Active
  <2>4. CASE CommitFails(t)
    BY <2>4, PhaseStepInv DEF CommitFails, Active
  <2>5. CASE Rollback(t)
    BY <2>5, PhaseStepInv DEF Rollback, Active
  <2>6. CASE CommitApplied(t)
    BY <2>6, PhaseStepInv DEF CommitApplied, Active
  <2>7. CASE \E k \in Keys : CommitPut(t, k) \/ releaseLock(t, k)
    BY <2>7, CommitPutInv, ReleaseLockInv
  <2>8. CASE Finish(t)
    BY <2>8, FinishInv
  <2> QED
    BY <2>1, <2>2, <2>3, <2>4, <2>5, <2>6, <2>7, <2>8 DEF CallStep
<1> QED
  BY <1>1, <1>2

\* Inv holds in every state.
LEMMA Invariance == Spec => []Inv
BY InitInv, NextInv, PTL DEF Spec

-------------------------------------------------------------------------------
\* Entries of a transaction that t cannot see do not change what t reads.
LEMMA UnseenPut ==
  ASSUME NEW S, NEW k, NEW j, NEW v, NEW t, NEW u, NEW A,
         ~CanSee(u, t, A)
  PROVE  MemtableGet(MemtablePut(S, j, v, u), k, t, A) = MemtableGet(S, k, t, A)
<1>1. VisibleEntries(MemtablePut(S, j, v, u), k, t, A) = VisibleEntries(S, k, t, A)
  BY DEF VisibleEntries, MemtablePut
<1> QED
  BY <1>1 DEF MemtableGet

\* The step of any goroutine leaves the reads of an open transaction alone.
LEMMA StepKeepsReads ==
  ASSUME Inv, [Next]_vars,
         NEW t \in TxnIds, NEW k \in Keys,
         phase[t] = "open", phase'[t] = "open",
         bufferedWriteMap'[t] = bufferedWriteMap[t]
  PROVE  Get(t, k)' = Get(t, k)
<1>1. snapshot'[t] = snapshot[t]
  <2>1. ASSUME NEW s \in TxnIds, Begin(s)
        PROVE  s # t
    BY <2>1 DEF Begin, Inv, TypeOK, IdsInOrder, TxnIds
  <2>2. ASSUME NEW s \in TxnIds, Begin(s)
        PROVE  snapshot'[t] = snapshot[t]
    BY <2>1, <2>2 DEF Begin, Inv, TypeOK
  <2> QED
    BY <2>2 DEF Next, CallStep, vars, Put, CommitWal, CommitPut, CommitApplied,
                CommitFails, Rollback, releaseLock, Finish
<1>2. CASE versions' = versions
  BY <1>1, <1>2 DEF Get
<1>3. CASE \E u \in TxnIds, j \in Keys : CommitPut(u, j)
  <2> PICK u \in TxnIds, j \in Keys : CommitPut(u, j)
    BY <1>3
  <2>1. u # t /\ phase[u] \notin Over
    BY DEF CommitPut, Over
  <2>2. ~CanSee(u, t, snapshot[t])
    BY <2>1 DEF Inv, SeesOnlyFinished
  <2>3. MemtableGet(versions', k, t, snapshot[t])
          = MemtableGet(versions, k, t, snapshot[t])
    BY <2>2, UnseenPut DEF CommitPut
  <2> QED
    BY <1>1, <2>3 DEF Get
<1>4. versions' = versions \/ \E u \in TxnIds, j \in Keys : CommitPut(u, j)
  BY DEF Next, CallStep, vars, Begin, Put, CommitWal, CommitApplied,
         CommitFails, Rollback, releaseLock, Finish
<1> QED
  BY <1>2, <1>3, <1>4

-------------------------------------------------------------------------------
\* Stored versions belong to transactions whose Commit has written the log.
Owned ==
  \A e \in versions : phase[e.txnId] \in {"applying", "releasing", "committed"}

\* With no flush failing, a transaction that has stored a version never gets
\* back to where it could be rolled back.
LEMMA NextOwned ==
  ASSUME ~StorageFaults, Inv, Owned, [Next]_vars
  PROVE  Owned'
<1>1. ASSUME NEW t \in TxnIds, Begin(t)
      PROVE  Owned'
  <2>1. phase[t] = "none"
    BY <1>1 DEF Begin, Inv, TypeOK, IdsInOrder, TxnIds
  <2> QED
    BY <1>1, <2>1 DEF Begin, Owned, Inv, TypeOK
<1>2. ASSUME NEW t \in TxnIds, NEW k \in Keys, CommitPut(t, k)
      PROVE  Owned'
  BY <1>2 DEF CommitPut, MemtablePut, Owned
<1>3. ASSUME NEW t \in TxnIds, CommitWal(t) \/ Rollback(t) \/ CommitApplied(t)
      PROVE  Owned'
  BY <1>3 DEF CommitWal, Rollback, CommitApplied, Owned, Inv, TypeOK
<1>4. ASSUME NEW t \in TxnIds, Finish(t)
      PROVE  Owned'
  BY <1>4 DEF Finish, Owned, Inv, TypeOK
<1>5. ASSUME UNCHANGED <<phase, versions>>
      PROVE  Owned'
  BY <1>5 DEF Owned
<1>6. \/ \E t \in TxnIds : \/ Begin(t) \/ CommitWal(t) \/ Rollback(t)
                           \/ CommitApplied(t) \/ Finish(t)
                           \/ \E k \in Keys : CommitPut(t, k)
      \/ UNCHANGED <<phase, versions>>
  BY DEF Next, CallStep, vars, Put, CommitFails, releaseLock
<1> QED
  BY <1>1, <1>2, <1>3, <1>4, <1>5, <1>6

-------------------------------------------------------------------------------
(***************************************************************************)
(* The refinement of SnapshotIsolation.                                    *)
(***************************************************************************)

\* What Commit has stored of a transaction is part of its buffer, and all of
\* it once the locks are being released: nothing changes the buffer between
\* the log write and the end.
StoredFromBuffer ==
  \A t \in TxnIds :
    /\ phase[t] \in {"applying", "releasing"} =>
         \A e \in versions : e.txnId = t => e \in EntriesOf(bufferedWriteMap[t], t)
    /\ phase[t] = "releasing" => Applied(t)

\* The transactions of an earlier run stay over.
EarlierOver ==
  /\ FirstTxnId <= nextTransactionId
  /\ \A t \in TxnIds : t < FirstTxnId => phase[t] = "committed"

\* The first id is not handed out again.
LEMMA NextEarlierOver ==
  ASSUME Inv, EarlierOver, [Next]_vars
  PROVE  EarlierOver'
<1>1. FirstTxnId <= nextTransactionId'
  <2>1. nextTransactionId' \in {nextTransactionId, nextTransactionId + 1}
    BY DEF Next, CallStep, vars, Begin, Put, CommitWal, CommitPut,
           CommitApplied, CommitFails, Rollback, releaseLock, Finish
  <2> QED
    BY <2>1, TxnIdAssumption DEF EarlierOver, Inv, TypeOK
<1>2. ASSUME NEW s \in TxnIds, Begin(s)
      PROVE  phase[s] # "committed"
  BY <1>2 DEF Begin, Inv, TypeOK, IdsInOrder, TxnIds
<1>3. \A t \in TxnIds : phase[t] = "committed" => phase'[t] = "committed"
  BY <1>2 DEF Next, CallStep, vars, Inv, TypeOK, Begin, Put, CommitWal,
     CommitPut, CommitApplied, CommitFails, Rollback, releaseLock, Finish
<1> QED
  BY <1>1, <1>3 DEF EarlierOver

\* What is stored of t is in its buffer: before the log write nothing is
\* stored, and afterwards Put is not called.
LEMMA NextStoredFromBuffer ==
  ASSUME ~StorageFaults, Inv, Owned, StoredFromBuffer, [Next]_vars
  PROVE  StoredFromBuffer'
<1>1. ASSUME NEW t \in TxnIds, Begin(t)
      PROVE  StoredFromBuffer'
  BY <1>1 DEF Begin, StoredFromBuffer, Applied, Inv, TypeOK
<1>2. ASSUME NEW t \in TxnIds, NEW k \in Keys, NEW v \in Values, Put(t, k, v)
      PROVE  StoredFromBuffer'
  BY <1>2 DEF Put, StoredFromBuffer, Applied, Inv, TypeOK
<1>3. ASSUME NEW t \in TxnIds, CommitWal(t)
      PROVE  StoredFromBuffer'
  <2>1. \A e \in versions : e.txnId # t
    BY <1>3 DEF CommitWal, Owned
  <2> QED
    BY <1>3, <2>1 DEF CommitWal, StoredFromBuffer, Applied, Inv, TypeOK
<1>4. ASSUME NEW t \in TxnIds, NEW k \in Keys, CommitPut(t, k)
      PROVE  StoredFromBuffer'
  <2> DEFINE new == [key |-> k, value |-> bufferedWriteMap[t][k], txnId |-> t]
  <2>1. /\ versions' = { e \in versions : ~(e.key = k /\ e.txnId = t) } \cup {new}
        /\ new \in EntriesOf(bufferedWriteMap[t], t)
        /\ new.txnId = t
    BY <1>4 DEF CommitPut, MemtablePut, EntriesOf
  <2>2. ASSUME NEW s \in TxnIds, phase[s] \in {"applying", "releasing"},
               NEW e \in versions', e.txnId = s
        PROVE  e \in EntriesOf(bufferedWriteMap[s], s)
    BY <2>1, <2>2 DEF StoredFromBuffer
  <2>3. ASSUME NEW s \in TxnIds, phase[s] = "releasing"
        PROVE  EntriesOf(bufferedWriteMap[s], s) \subseteq versions'
    <3>1. s # t
      BY <1>4, <2>3 DEF CommitPut
    <3>2. EntriesOf(bufferedWriteMap[s], s) \subseteq versions
      BY <2>3 DEF StoredFromBuffer, Applied
    <3>3. \A e \in EntriesOf(bufferedWriteMap[s], s) : e.txnId = s
      BY DEF EntriesOf
    <3> QED
      BY <2>1, <3>1, <3>2, <3>3
  <2> QED
    BY <1>4, <2>2, <2>3 DEF CommitPut, StoredFromBuffer, Applied
<1>5. ASSUME NEW t \in TxnIds, Rollback(t) \/ CommitApplied(t)
      PROVE  StoredFromBuffer'
  BY <1>5 DEF Rollback, CommitApplied, StoredFromBuffer, Applied, Inv, TypeOK
<1>6. ASSUME NEW t \in TxnIds, Finish(t)
      PROVE  StoredFromBuffer'
  BY <1>6 DEF Finish, StoredFromBuffer, Applied, Inv, TypeOK
<1>7. ASSUME UNCHANGED <<phase, bufferedWriteMap, versions>>
      PROVE  StoredFromBuffer'
  BY <1>7 DEF StoredFromBuffer, Applied
<1>8. \/ \E t \in TxnIds : \/ Begin(t) \/ CommitWal(t) \/ Rollback(t)
                           \/ CommitApplied(t) \/ Finish(t)
                           \/ \E k \in Keys : CommitPut(t, k)
                           \/ \E k \in Keys, v \in Values : Put(t, k, v)
      \/ UNCHANGED <<phase, bufferedWriteMap, versions>>
  BY DEF Next, CallStep, vars, CommitFails, releaseLock
<1> QED
  BY <1>1, <1>2, <1>3, <1>4, <1>5, <1>6, <1>7, <1>8

RefInv == Inv /\ Owned /\ StoredFromBuffer /\ EarlierOver

\* With no flush failing, the facts above hold together.
LEMMA RefInvariance ==
  ASSUME ~StorageFaults
  PROVE  Spec => []RefInv
<1>1. Init => Owned /\ StoredFromBuffer /\ EarlierOver
  BY TxnIdAssumption DEF Init, Owned, StoredFromBuffer, EarlierOver, TxnIds
<1>2. Inv /\ Owned /\ StoredFromBuffer /\ EarlierOver /\ [Next]_vars
        => Owned' /\ StoredFromBuffer' /\ EarlierOver'
  BY NextOwned, NextStoredFromBuffer, NextEarlierOver
<1> QED
  BY <1>1, <1>2, Invariance, PTL DEF Spec, RefInv

\* NewDB's manager maps to an initial state of SnapshotIsolation.
LEMMA InitRefines == Init => SI!Init
<1> SUFFICES ASSUME Init PROVE SI!Init
  OBVIOUS
<1> USE TxnIdAssumption DEF Init, TxnIds
<1>1. StatusBar = [t \in TxnIds |-> IF t < FirstTxnId THEN "committed" ELSE "none"]
  BY DEF StatusBar
<1>2. ViewBar = [t \in TxnIds |-> {}]
  <2>1. \A t \in TxnIds : FirstTxnId <= t => phase[t] = "none"
    OBVIOUS
  <2> QED
    BY <2>1 DEF ViewBar
<1>3. WritesBar = [t \in TxnIds |-> [k \in {} |-> 0]]
  BY DEF WritesBar, NoWrites
<1>4. StoreBar = {}
  BY DEF StoreBar
<1> QED
  BY <1>1, <1>2, <1>3, <1>4 DEF SI!Init

\* A step that leaves the mapped variables alone is a stutter.
LEMMA StutterRefines ==
  ASSUME UNCHANGED <<phase, snapshot, bufferedWriteMap, versions>>
  PROVE  UNCHANGED SI!vars
BY DEF SI!vars, StatusBar, ViewBar, WritesBar, StoreBar

\* Begin is Begin: the transactions not in the snapshot are those committed or
\* aborted so far.
LEMMA BeginRefines ==
  ASSUME RefInv, NEW t \in TxnIds, Begin(t)
  PROVE  SI!Begin(t)
<1> USE TxnIdAssumption DEF Begin, TxnIds
<1>1. /\ phase[t] = "none" /\ \A u \in TxnIds : u < t => phase[u] # "none"
      /\ FirstTxnId <= t
  BY DEF RefInv, Inv, TypeOK, IdsInOrder, EarlierOver
<1>2. /\ phase' = [phase EXCEPT ![t] = "open"] /\ phase'[t] = "open"
      /\ \A u \in TxnIds : u # t => phase'[u] = phase[u]
  BY DEF RefInv, Inv, TypeOK
<1>3. StatusBar[t] = "none" /\ \A u \in TxnIds : u < t => StatusBar[u] # "none"
  BY <1>1 DEF StatusBar, RefInv, Inv, TypeOK, Phases
<1>4. StatusBar' = [StatusBar EXCEPT ![t] = "open"]
  BY <1>2 DEF StatusBar
<1>5. { u \in TxnIds : StatusBar[u] = "committed" }
        = { u \in TxnIds : phase[u] = "committed" }
  BY DEF StatusBar, RefInv, Inv, TypeOK, Phases
<1>6. ViewBar'[t] = { u \in TxnIds : phase[u] = "committed" }
  <2>1. snapshot'[t] = activeTransactionsMap \cup {t}
    BY DEF RefInv, Inv, TypeOK
  <2>2. ViewBar'[t] = { u \in TxnIds : /\ FirstTxnId <= t /\ phase'[t] # "none"
                                       /\ u # t /\ CanSee(u, t, snapshot'[t])
                                       /\ phase'[u] = "committed" }
    BY DEF ViewBar
  <2>3. ASSUME NEW u \in TxnIds, phase[u] = "committed"
        PROVE  u # t /\ u < t /\ u \notin activeTransactionsMap
    BY <1>1, <2>3 DEF RefInv, Inv, TypeOK, IdsInOrder, ActiveAgrees, Active
  <2>4. \A u \in TxnIds : phase'[u] = "committed" <=> phase[u] = "committed"
    BY <1>1, <1>2
  <2> QED
    BY <1>1, <1>2, <2>1, <2>2, <2>3, <2>4 DEF CanSee
<1>7. ASSUME NEW s \in TxnIds, s # t
      PROVE  ViewBar'[s] = ViewBar[s]
  <2>1. snapshot'[s] = snapshot[s] /\ phase'[s] = phase[s]
    BY <1>2, <1>7 DEF RefInv, Inv, TypeOK
  <2>2. \A u \in TxnIds : phase'[u] = "committed" <=> phase[u] = "committed"
    BY <1>1, <1>2
  <2> QED
    BY <2>1, <2>2 DEF ViewBar
<1>8. ViewBar' = [ViewBar EXCEPT ![t] = { u \in TxnIds : StatusBar[u] = "committed" }]
  BY <1>5, <1>6, <1>7 DEF ViewBar
<1>9. WritesBar' = WritesBar
  BY <1>1, <1>2 DEF WritesBar
<1>10. StoreBar' = StoreBar
  <2>1. \A e \in versions : e.txnId \in TxnIds
    BY DEF RefInv, Inv, TypeOK
  <2> QED
    BY <1>1, <1>2, <2>1 DEF StoreBar
<1> QED
  BY <1>3, <1>4, <1>8, <1>9, <1>10 DEF SI!Begin

\* Put is Write.
LEMMA PutRefines ==
  ASSUME RefInv, NEW t \in TxnIds, NEW k \in Keys, NEW v \in Values,
         Put(t, k, v)
  PROVE  SI!Write(t, k, v)
<1> USE DEF Put
<1>1. StatusBar' = StatusBar /\ ViewBar' = ViewBar /\ StoreBar' = StoreBar
  BY DEF StatusBar, ViewBar, StoreBar
<1>2. StatusBar[t] = "open" /\ WritesBar[t] = bufferedWriteMap[t]
  BY DEF StatusBar, WritesBar
<1>3. WritesBar' = [WritesBar EXCEPT ![t] = BufferWrite(bufferedWriteMap[t], k, v)]
  BY DEF WritesBar, RefInv, Inv, TypeOK
<1> QED
  BY <1>1, <1>2, <1>3 DEF SI!Write, BufferWrite

\* A transaction that moves on inside Commit has not committed yet.
LEMMA CommitStepRefines ==
  ASSUME RefInv, NEW t \in TxnIds, NEW p \in {"applying", "releasing"},
         phase[t] \in {"open", "applying"},
         phase' = [phase EXCEPT ![t] = p],
         UNCHANGED <<snapshot, bufferedWriteMap, versions>>
  PROVE  UNCHANGED SI!vars
<1>1. /\ phase'[t] = p
      /\ \A u \in TxnIds : u # t => phase'[u] = phase[u]
  BY DEF RefInv, Inv, TypeOK
<1>2. \A e \in versions : e.txnId \in TxnIds
  BY DEF RefInv, Inv, TypeOK
<1>3. StatusBar' = StatusBar
  BY <1>1 DEF StatusBar
<1>4. ViewBar' = ViewBar
  <2>1. \A u \in TxnIds : /\ phase'[u] = "committed" <=> phase[u] = "committed"
                          /\ phase'[u] = "none" <=> phase[u] = "none"
    BY <1>1
  <2> QED
    BY <2>1 DEF ViewBar
<1>5. WritesBar' = WritesBar
  BY <1>1 DEF WritesBar
<1>6. StoreBar' = StoreBar
  BY <1>1, <1>2 DEF StoreBar
<1> QED
  BY <1>3, <1>4, <1>5, <1>6 DEF SI!vars

\* A version that Commit stores is not committed yet.
LEMMA CommitPutRefines ==
  ASSUME RefInv, NEW t \in TxnIds, NEW k \in Keys, CommitPut(t, k)
  PROVE  UNCHANGED SI!vars
<1> USE DEF CommitPut
<1>1. StatusBar' = StatusBar /\ ViewBar' = ViewBar /\ WritesBar' = WritesBar
  BY DEF StatusBar, ViewBar, WritesBar
<1>2. StoreBar' = StoreBar
  BY DEF StoreBar, MemtablePut
<1> QED
  BY <1>1, <1>2 DEF SI!vars

\* Rollback aborts when it starts.
LEMMA RollbackRefines ==
  ASSUME RefInv, NEW t \in TxnIds, Rollback(t)
  PROVE  SI!Abort(t)
<1> USE DEF Rollback
<1>1. /\ phase'[t] = "undoing"
      /\ \A u \in TxnIds : u # t => phase'[u] = phase[u]
  BY DEF RefInv, Inv, TypeOK
<1>2. \A e \in versions : e.txnId \in TxnIds
  BY DEF RefInv, Inv, TypeOK
<1>3. StatusBar[t] = "open" /\ StatusBar' = [StatusBar EXCEPT ![t] = "aborted"]
  BY <1>1 DEF StatusBar
<1>4. ViewBar' = ViewBar
  <2>1. \A u \in TxnIds : /\ phase'[u] = "committed" <=> phase[u] = "committed"
                          /\ phase'[u] = "none" <=> phase[u] = "none"
    BY <1>1
  <2> QED
    BY <2>1 DEF ViewBar
<1>5. WritesBar' = [WritesBar EXCEPT ![t] = [k \in {} |-> 0]]
  BY <1>1 DEF WritesBar, NoWrites
<1>6. StoreBar' = StoreBar
  BY <1>1, <1>2 DEF StoreBar
<1> QED
  BY <1>3, <1>4, <1>5, <1>6 DEF SI!Abort

\* The end of Rollback changes nothing that SnapshotIsolation knows of, and
\* the end of Commit is its Commit: all of the buffer is stored, and nobody
\* began with a snapshot that already shows it.
LEMMA FinishRefines ==
  ASSUME RefInv, NEW t \in TxnIds, Finish(t)
  PROVE  SI!Commit(t) \/ UNCHANGED SI!vars
<1> USE DEF Finish
<1>1. \A u \in TxnIds : u # t => /\ phase'[u] = phase[u]
                                 /\ bufferedWriteMap'[u] = bufferedWriteMap[u]
  BY DEF RefInv, Inv, TypeOK
<1>2. bufferedWriteMap'[t] = NoWrites
  BY DEF RefInv, Inv, TypeOK
<1>3. \A e \in versions : e.txnId \in TxnIds
  BY DEF RefInv, Inv, TypeOK
<1>4. CASE phase[t] = "undoing"
  <2>1. phase'[t] = "aborted"
    BY <1>4 DEF RefInv, Inv, TypeOK
  <2>2. StatusBar' = StatusBar
    BY <1>1, <1>4, <2>1 DEF StatusBar
  <2>3. ViewBar' = ViewBar
    <3>1. \A u \in TxnIds : /\ phase'[u] = "committed" <=> phase[u] = "committed"
                            /\ phase'[u] = "none" <=> phase[u] = "none"
      BY <1>1, <1>4, <2>1
    <3> QED
      BY <3>1 DEF ViewBar
  <2>4. WritesBar' = WritesBar
    BY <1>1, <1>2, <1>4, <2>1 DEF WritesBar
  <2>5. StoreBar' = StoreBar
    BY <1>1, <1>3, <1>4, <2>1 DEF StoreBar
  <2> QED
    BY <2>2, <2>3, <2>4, <2>5 DEF SI!vars
<1>5. CASE phase[t] = "releasing"
  <2>1. phase'[t] = "committed"
    BY <1>5 DEF RefInv, Inv, TypeOK
  <2>2. StatusBar[t] = "open" /\ StatusBar' = [StatusBar EXCEPT ![t] = "committed"]
    BY <1>1, <1>5, <2>1 DEF StatusBar
  <2>3. ViewBar' = ViewBar
    <3>1. \A s \in TxnIds : phase[s] # "none" /\ t # s
                              => ~CanSee(t, s, snapshot[s])
      BY <1>5 DEF RefInv, Inv, SeesOnlyFinished, Over
    <3>2. \A s \in TxnIds : phase'[s] = "none" <=> phase[s] = "none"
      BY <1>1, <1>5, <2>1
    <3>3. \A s, u \in TxnIds :
            (/\ phase'[s] # "none" /\ u # s /\ CanSee(u, s, snapshot[s])
             /\ phase'[u] = "committed")
            <=> (/\ phase[s] # "none" /\ u # s /\ CanSee(u, s, snapshot[s])
                 /\ phase[u] = "committed")
      BY <1>1, <1>5, <3>1, <3>2
    <3>4. snapshot' = snapshot
      OBVIOUS
    <3> QED
      BY <3>3, <3>4 DEF ViewBar
  <2>4. WritesBar' = [WritesBar EXCEPT ![t] = [k \in {} |-> 0]]
    BY <1>1, <1>2, <1>5, <2>1 DEF WritesBar, NoWrites
  <2>5. WritesBar[t] = bufferedWriteMap[t]
    BY <1>5 DEF WritesBar
  <2>6. StoreBar' = StoreBar \cup EntriesOf(bufferedWriteMap[t], t)
    <3>1. \A e : e \in EntriesOf(bufferedWriteMap[t], t)
                   <=> e \in versions /\ e.txnId = t
      <4>1. EntriesOf(bufferedWriteMap[t], t) \subseteq versions
        BY <1>5 DEF RefInv, StoredFromBuffer, Applied
      <4>2. \A e \in EntriesOf(bufferedWriteMap[t], t) : e.txnId = t
        BY DEF EntriesOf
      <4>3. \A e \in versions : e.txnId = t => e \in EntriesOf(bufferedWriteMap[t], t)
        BY <1>5 DEF RefInv, StoredFromBuffer
      <4> QED
        BY <4>1, <4>2, <4>3
    <3>2. \A e \in versions :
            phase'[e.txnId] = "committed" <=> phase[e.txnId] = "committed" \/ e.txnId = t
      BY <1>1, <1>3, <1>5, <2>1
    <3>3. StoreBar' = { e \in versions : phase'[e.txnId] = "committed" }
      BY DEF StoreBar
    <3> QED
      BY <3>1, <3>2, <3>3 DEF StoreBar
  <2> QED
    BY <2>2, <2>3, <2>4, <2>5, <2>6 DEF SI!Commit, SI!EntriesOf, EntriesOf
<1> QED
  BY <1>4, <1>5

\* Every step of the manager is a step of SnapshotIsolation or a stutter.
LEMMA NextRefines ==
  ASSUME ~StorageFaults, RefInv, [Next]_vars
  PROVE  [SI!Next]_(SI!vars)
<1>1. CASE UNCHANGED vars
  BY <1>1, StutterRefines DEF vars
<1>2. CASE Next
  <2> PICK t \in TxnIds :
        \/ Begin(t)
        \/ \E k \in Keys, v \in Values : Put(t, k, v)
        \/ CommitWal(t) \/ CommitFails(t) \/ Rollback(t)
        \/ CallStep(t)
    BY <1>2 DEF Next
  <2>1. CASE Begin(t)
    BY <2>1, BeginRefines DEF SI!Next
  <2>2. CASE \E k \in Keys, v \in Values : Put(t, k, v)
    BY <2>2, PutRefines DEF SI!Next
  <2>3. CASE CommitWal(t)
    <3>1. /\ phase[t] = "open" /\ phase' = [phase EXCEPT ![t] = "applying"]
          /\ UNCHANGED <<snapshot, bufferedWriteMap, versions>>
      BY <2>3 DEF CommitWal
    <3>2. UNCHANGED SI!vars
      BY <3>1, CommitStepRefines
    <3> QED
      BY <3>2
  <2>4. CASE CommitFails(t)
    BY <2>4 DEF CommitFails
  <2>5. CASE Rollback(t)
    BY <2>5, RollbackRefines DEF SI!Next
  <2>6. CASE CommitApplied(t)
    <3>1. /\ phase[t] = "applying" /\ phase' = [phase EXCEPT ![t] = "releasing"]
          /\ UNCHANGED <<snapshot, bufferedWriteMap, versions>>
      BY <2>6 DEF CommitApplied
    <3>2. UNCHANGED SI!vars
      BY <3>1, CommitStepRefines
    <3> QED
      BY <3>2
  <2>7. CASE \E k \in Keys : CommitPut(t, k)
    BY <2>7, CommitPutRefines
  <2>8. CASE \E k \in Keys : releaseLock(t, k)
    BY <2>8, StutterRefines DEF releaseLock
  <2>9. CASE Finish(t)
    BY <2>9, FinishRefines DEF SI!Next
  <2> QED
    BY <2>1, <2>2, <2>3, <2>4, <2>5, <2>6, <2>7, <2>8, <2>9 DEF CallStep
<1> QED
  BY <1>1, <1>2

\* What the visibility rule shows an open transaction is committed.
LEMMA ReadsAgree ==
  ASSUME RefInv
  PROVE  ReadsMatch
<1> SUFFICES ASSUME NEW t \in TxnIds, NEW k \in Keys, phase[t] = "open"
             PROVE  Get(t, k) = SI!Read(t, k)
  BY DEF ReadsMatch
<1>1. WritesBar[t] = bufferedWriteMap[t] /\ FirstTxnId <= t
  BY TxnIdAssumption DEF WritesBar, RefInv, EarlierOver, TxnIds
<1>2. ViewBar[t] = { u \in TxnIds : /\ u # t /\ CanSee(u, t, snapshot[t])
                                    /\ phase[u] = "committed" }
  BY <1>1 DEF ViewBar
<1>3. ASSUME NEW e \in versions
      PROVE  CanSee(e.txnId, t, snapshot[t])
               <=> phase[e.txnId] = "committed" /\ e.txnId \in ViewBar[t]
  <2>1. e.txnId \in TxnIds /\ e.txnId # t
    BY DEF RefInv, Inv, TypeOK, Owned
  <2>2. phase[e.txnId] \in Over => phase[e.txnId] = "committed"
    BY DEF RefInv, Owned, Over
  <2> QED
    BY <1>2, <2>1, <2>2 DEF RefInv, Inv, SeesOnlyFinished
<1>4. VisibleEntries(versions, k, t, snapshot[t])
        = { e \in StoreBar : e.key = k /\ e.txnId \in ViewBar[t] }
  BY <1>3 DEF VisibleEntries, StoreBar
<1> QED
  BY <1>1, <1>4 DEF Get, MemtableGet, SI!Read, SI!Newest, Newest

-------------------------------------------------------------------------------
\* Every variable of the manager keeps its type.
THEOREM TypeCorrect == Spec => []TypeOK
BY Invariance, PTL DEF Inv

\* The INCONSISTENCY_OBSERVED branch of releaseAllLocks is dead, and no
\* finished transaction leaves a lock behind.
THEOREM LocksAlwaysAgree == Spec => []LocksAgree
BY Invariance, PTL DEF Inv

\* Two writers never have the same key buffered, although locks are released
\* outside the mutex.
THEOREM WritersExclude == Spec => []BufferedKeysLocked
BY Invariance, PTL DEF Inv

\* No snapshot shows a transaction that is still running.
THEOREM NoDirtyRead == Spec => []SeesOnlyFinished
BY Invariance, PTL DEF Inv

\* Whatever the other goroutines do, flush failures included, a read that a
\* transaction repeats before its next Put returns the same.
THEOREM ReadsRepeat == Spec => RepeatableRead
<1>1. Inv /\ [Next]_vars
        => [\A t \in TxnIds, k \in Keys :
              /\ phase[t] = "open" /\ phase'[t] = "open"
              /\ bufferedWriteMap'[t] = bufferedWriteMap[t]
              => Get(t, k)' = Get(t, k)]_vars
  BY StepKeepsReads
<1> QED
  BY <1>1, Invariance, PTL DEF Spec, RepeatableRead

\* As long as no flush fails, nothing a rolled back transaction wrote was ever
\* stored.
THEOREM RollbackLeavesNothing ==
  ASSUME ~StorageFaults
  PROVE  Spec => []RolledBackInvisible
<1>1. Init => Owned
  BY DEF Init, Owned
<1>2. Inv /\ Owned /\ [Next]_vars => Owned'
  BY NextOwned
<1>3. Owned => RolledBackInvisible
  BY DEF Owned, RolledBackInvisible
<1> QED
  BY <1>1, <1>2, <1>3, Invariance, PTL DEF Spec

\* As long as no flush fails, the manager, with its one-by-one stores, its
\* unlocked release of the locks and its late removal from
\* activeTransactionsMap, is an atomic snapshot isolation store.
THEOREM RefinesSnapshotIsolation ==
  ASSUME ~StorageFaults
  PROVE  Spec => ImplementsSnapshotIsolation
<1>1. RefInv /\ [Next]_vars => [SI!Next]_(SI!vars)
  BY NextRefines
<1> QED
  BY <1>1, InitRefines, RefInvariance, PTL
     DEF Spec, ImplementsSnapshotIsolation, SI!Spec

\* As long as no flush fails, Get returns what a snapshot of the committed
\* transactions holds, half applied Commits notwithstanding.
THEOREM ReadsFromSnapshot ==
  ASSUME ~StorageFaults
  PROVE  Spec => []ReadsMatch
BY ReadsAgree, RefInvariance, PTL
===============================================================================
