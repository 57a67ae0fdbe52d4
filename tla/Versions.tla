------------------------------- MODULE Versions -------------------------------
(***************************************************************************)
(* The multi-version data every layer of SaarDB stores: an entry is a     *)
(* (key, value, txnId) triple (memtable.Entry, sstable.keyValueTxnId), and *)
(* a read on behalf of transaction t with the activeTransactionsSnapshot   *)
(* taken at Begin picks, among the entries of a key it can see, the one    *)
(* with the largest txnId.  Reads return a set with at most one entry:     *)
(* the empty set is the code's "not found".                                *)
(***************************************************************************)
EXTENDS Naturals

CONSTANTS Keys,    \* keys of the store
          Values   \* values a client may Put

Entry == [key : Keys, value : Values, txnId : Nat]

\* A slip: the snapshot is not consulted (see PROJECT.json).
CanSeeSmallerIds(u, t, activeTxnMap) == u <= t

\* The visibility test written out in Memtable.Get, Memtable.PrefixScan,
\* getValueFromSsTableDataBlock and sequentiallyScanTableAndUpdateMap.
CanSee(u, t, activeTxnMap) == u = t \/ (u < t /\ u \notin activeTxnMap)

VisibleEntries(S, k, t, activeTxnMap) ==
  { e \in S : e.key = k /\ CanSee(e.txnId, t, activeTxnMap) }

\* Both scans run in ascending txnId order and keep overwriting the value
\* found so far, so the largest visible txnId wins.
Newest(S) == { e \in S : \A f \in S : f.txnId <= e.txnId }

\* Memtable.Get
MemtableGet(memTable, k, t, activeTxnMap) ==
  Newest(VisibleEntries(memTable, k, t, activeTxnMap))

\* Memtable.Put: ReplaceOrInsert on a tree ordered by (Key, TxnId).
MemtablePut(memTable, k, v, t) ==
  { e \in memTable : ~(e.key = k /\ e.txnId = t) }
    \cup {[key |-> k, value |-> v, txnId |-> t]}

\* The entries that a bufferedWriteMap becomes when t commits.
EntriesOf(writeMap, t) ==
  { [key |-> k, value |-> writeMap[k], txnId |-> t] : k \in DOMAIN writeMap }
===============================================================================
