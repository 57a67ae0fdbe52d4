------------------------------- MODULE MCSsTable -------------------------------
\* Small instances of SsTable.
EXTENDS SsTable

CONSTANTS f1, f2, c1, c2, v1, empty

OneFlusher  == {f1}
TwoFlushers == {f1, f2}
OneCompactor  == {c1}
TwoCompactors == {c1, c2}
OneKey  == {1}
TwoKeys == {1, 2}
OneValue == {v1}

\* Nobody needs version 1, and nobody needs any superseded version.
SomeMins == {2, 9}

\* A statement of a comment that the program does not satisfy (README.md): a
\* configuration that checks it gets a counterexample.
\*
\* Every file that readers use is "as per the format of SSTable file": NewFile
\* creates a new one for each flush and each compaction.
FilesKeepFormat == Range(firstLevelFiles) \cap garbled = {}
===============================================================================
