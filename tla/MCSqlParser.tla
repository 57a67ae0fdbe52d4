------------------------------ MODULE MCSqlParser ------------------------------
\* A small instance of SqlParser: one name besides INT.
EXTENDS SqlParser

OneName == {"a"}

-------------------------------------------------------------------------------
\* What the comment on ParseInsertIntoTable (sql_parser/parser.go:187-192)
\* calls the supported form: INSERT INTO name (columns) VALUES (values).
CommaList(names) ==
  FlattenSeq([i \in DOMAIN names |-> ItemTokens([comma |-> i > 1, name |-> names[i]])])

InsertWithColumns(tb, columns, values) ==
  <<"INSERT", "INTO", tb, "open">> \o CommaList(columns)
    \o <<"close", "VALUES", "open">> \o CommaList(values) \o <<"close">>

\* An INSERT of that form is not an error.  (It is one: the table's name has to
\* be followed by VALUES.)
InsertWithColumnsTaken ==
  pc = "rejected" /\ statement = "INSERT" =>
    \A tb \in Idents, columns, values \in [1 .. MaxItems -> Idents] :
      ~IsPrefix(read, InsertWithColumns(tb, columns, values))
===============================================================================
