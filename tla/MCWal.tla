--------------------------------- MODULE MCWal ---------------------------------
\* Small instances of Wal.
EXTENDS Wal

CONSTANTS k1, k2, v1, cmdTransaction, garbage

TwoKeys  == {k1, k2}
OneValue == {v1}

\* Keys are interchangeable.
KeySymmetry == Permutations(TwoKeys)

\* A statement of the documents that the program does not satisfy (README.md):
\* a configuration that checks it gets a counterexample.
\*
\* buildMemtableFromWal says that it aborts "even in case of partial write":
\* when the loop ends normally the log holds whole records only.
AbortsOnPartialWrite ==
  mode = "starting" /\ commit = NoCommit => WholeRecords
===============================================================================
