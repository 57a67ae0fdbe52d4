-------------------------------- MODULE MCTable --------------------------------
\* A small instance of Table: columns id (the primary key), a, b and c, an
\* index on (a, c); row 1 is stored and can be inserted again with another b,
\* row 2 is new.
EXTENDS Table

CONSTANT noValue

Row(id, b) == [id |-> id, a |-> 1, b |-> b, c |-> id]
OldRows == {Row(1, 1)}
NewRows == {Row(1, 2), Row(2, 1)}

OneIndex == <<[name |-> "i1", columns |-> <<"a", "c">>]>>

Equals(column, value) == [column |-> column, type |-> "=", value |-> value]

\* Every way through SelectFromTable: by primary key, the whole table, no
\* index, an index covered in part and in full.
AllQueries ==
  { <<Equals("id", 2)>>, <<>>, <<[Equals("b", 2) EXCEPT !.type = "<"]>>,
    <<Equals("a", 1), Equals("b", 2)>>, <<Equals("a", 1), Equals("c", 1)>> }

AllKeys ==
  { RowKey(r.id) : r \in Rows }
    \cup { IndexKey(OneIndex[i], r) : i \in DOMAIN OneIndex, r \in Rows }

AllValues == Rows \cup {noValue}

ASSUME FitAssumption == RowsKeepIndexes /\ QueriesFitIndexes

\* Statements of the comments and documents that the program does not satisfy
\* (README.md): a configuration that checks one gets a counterexample.
\*
\* The comments on the lookup in the files say that the last version of the key
\* met in the newest file with a visible one is the latest value: a SELECT that
\* looks for a row gets the newest version in the files that it may see.
LatestIsInLatestFile ==
  \A t \in TxnIds :
    op[t].pc = "getFiles" /\ ~raced
      => FilesGet(RowKey(op[t].pk), t)
           = MemtableGet(UNION Range(files), RowKey(op[t].pk), t, snapshot[t])

\* The journal asks that the row and its index entries be added together: a
\* SELECT that sees an entry sees the row that it stands for.
RowAndIndexTogether ==
  \A t \in TxnIds :
    IsSelect(t) =>
      \A k \in Keys :
        k.index # "" /\ Read(t, k) # {} => Read(t, RowKey(k.pk)) # {}
===============================================================================
