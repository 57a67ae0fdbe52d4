-------------------------- MODULE SnapshotIsolation ---------------------------
(***************************************************************************)
(* What the transaction API promises its users: a transaction reads its    *)
(* own writes and otherwise the versions of the transactions that were     *)
(* committed when it began, the largest id winning; its writes become      *)
(* visible all at once when it commits and never if it aborts.  Ids are    *)
(* handed out in order.  Nothing is said about conflicting writers: the    *)
(* code drops its locks before it leaves activeTransactionsMap, so two     *)
(* transactions that overlap can write the same key one after the other.   *)
(***************************************************************************)
EXTENDS Versions

CONSTANT TxnIds

VARIABLES status,   \* "none", "open", "committed" or "aborted"
          view,     \* the transactions that were committed at Begin
          writes,   \* uncommitted writes: a function on the keys written
          store     \* the committed versions

vars == <<status, view, writes, store>>

Init ==
  /\ status \in [TxnIds -> {"none", "committed"}]
  /\ \A t, u \in TxnIds : status[t] = "none" /\ t < u => status[u] = "none"
  /\ view = [t \in TxnIds |-> {}]
  /\ writes = [t \in TxnIds |-> [k \in {} |-> 0]]
  /\ store = {}

Begin(t) ==
  /\ status[t] = "none"
  /\ \A u \in TxnIds : u < t => status[u] # "none"
  /\ status' = [status EXCEPT ![t] = "open"]
  /\ view' = [view EXCEPT ![t] = { u \in TxnIds : status[u] = "committed" }]
  /\ UNCHANGED <<writes, store>>

Write(t, k, v) ==
  /\ status[t] = "open"
  /\ writes' = [writes EXCEPT ![t] =
                  [x \in DOMAIN @ \cup {k} |-> IF x = k THEN v ELSE @[x]]]
  /\ UNCHANGED <<status, view, store>>

Commit(t) ==
  /\ status[t] = "open"
  /\ status' = [status EXCEPT ![t] = "committed"]
  /\ store' = store \cup EntriesOf(writes[t], t)
  /\ writes' = [writes EXCEPT ![t] = [k \in {} |-> 0]]
  /\ UNCHANGED view

Abort(t) ==
  /\ status[t] = "open"
  /\ status' = [status EXCEPT ![t] = "aborted"]
  /\ writes' = [writes EXCEPT ![t] = [k \in {} |-> 0]]
  /\ UNCHANGED <<view, store>>

Next ==
  \E t \in TxnIds :
    \/ Begin(t)
    \/ \E k \in Keys, v \in Values : Write(t, k, v)
    \/ Commit(t)
    \/ Abort(t)

Spec == Init /\ [][Next]_vars

\* What a read of k by the open transaction t returns.
Read(t, k) ==
  IF k \in DOMAIN writes[t]
  THEN {[key |-> k, value |-> writes[t][k], txnId |-> t]}
  ELSE Newest({ e \in store : e.key = k /\ e.txnId \in view[t] })
===============================================================================
