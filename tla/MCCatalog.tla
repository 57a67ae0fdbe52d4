------------------------------- MODULE MCCatalog -------------------------------
\* A small instance of Catalog: three statements, the last one with an index on
\* a column that the table does not have.
EXTENDS Catalog

CONSTANTS t1, t2, p1, p2, none

TwoTables   == {t1, t2}
TwoCreators == {p1, p2}

Index(columns) == <<[name |-> "i", columns |-> columns]>>

Statements ==
  { [primaryKey |-> 1, columns |-> <<"a", "b">>, indexes |-> Index(<<"b", "a">>)],
    [primaryKey |-> 1, columns |-> <<"b">>,      indexes |-> <<>>],
    [primaryKey |-> 1, columns |-> <<"b", "a">>, indexes |-> Index(<<"x">>)] }
===============================================================================
