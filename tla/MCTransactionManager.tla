------------------------- MODULE MCTransactionManager -------------------------
\* Small instances of TransactionManager.
EXTENDS TransactionManager, TLC

CONSTANTS k1, k2, v1, v2

TwoKeys  == {k1, k2}
OneValue == {v1}
TwoValues == {v1, v2}

\* Keys and values are interchangeable; transaction ids are ordered and not.
KeySymmetry == Permutations(TwoKeys)

\* A statement of the documents that the program does not satisfy (README.md):
\* a configuration that checks it gets a counterexample.
\*
\* No update is lost, which write locks held to the end of a transaction
\* would give: two committed transactions that wrote the same key did not
\* overlap.  If they did, every Get the younger one made of the key before it
\* wrote was blind to the older one's version, which its own then replaces.
NoLostUpdate ==
  \A e, f \in versions :
    /\ e.key = f.key /\ e.txnId < f.txnId
    /\ phase[e.txnId] = "committed" /\ phase[f.txnId] = "committed"
    => e.txnId \notin snapshot[f.txnId]
===============================================================================
