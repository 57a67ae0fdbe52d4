--------------------------------- MODULE MCDB ---------------------------------
\* Small instances of DB.
EXTENDS DB, TLC

CONSTANTS c1, c2, v1, v2, empty

OneCompactor  == {c1}
TwoCompactors == {c1, c2}
OneKey  == {1}
TwoKeys == {1, 2}
OneValue == {v1}
TwoValues == {v1, v2}

\* Compaction goroutines are interchangeable.
CompactorSymmetry == Permutations(TwoCompactors)

\* Statements of the documents and comments that the program does not satisfy
\* (README.md): a configuration that checks one gets a counterexample.

\* What was committed last is found again after a restart: "Once committed, it
\* stays committed even if the server crashes."
CommittedKept ==
  up /\ opened /\ activeTransactionsMap = {} =>
    \A k \in Keys : lastCommitted[k] \subseteq Held

\* The version that an open transaction must read is kept somewhere:
\* compaction removes only versions no living transaction needs.
NeededVersionHeld ==
  up => \A t \in TxnIds, k \in Keys :
          phase[t] = "open" /\ k \notin DOMAIN bufferedWriteMap[t]
            => TM!Get(t, k) \subseteq Held
===============================================================================
