-------------------------------- MODULE Catalog --------------------------------
(***************************************************************************)
(* CREATE TABLE and the catalog: createTable and the codecs of             *)
(* db/create.go, db.Put, and getTableNameVsSchemaMap, with which NewDB     *)
(* reads the catalog back (db/db.go).                                      *)
(*                                                                         *)
(* createTable enters the table into tableNameVsSchemaMap and then makes   *)
(* three separate Puts, whose errors it drops: the names of all tables,    *)
(* the schema and the secondary indexes.  The store below keeps the value  *)
(* whose Put took the lock last, also over a crash: Begin and the lock are *)
(* one step, so that transaction ids grow in the order of the locks.       *)
(***************************************************************************)
EXTENDS Naturals, Sequences, FiniteSets

CONSTANTS Creators,    \* goroutines that call createTable
          Tables,      \* table names
          Inputs,      \* parsed statements: [primaryKey, columns, indexes]
          None,        \* what a key without a value reads as: ""
          MaxCreates,  \* bound on the calls of createTable
          MaxCrashes,  \* bound on the crashes
          MaxFaults    \* bound on the Commits that fail

ASSUME CatalogAssumption ==
  /\ Inputs \subseteq [primaryKey : Nat, columns : Seq(STRING),
                       indexes : Seq([name : STRING, columns : Seq(STRING)])]
  /\ None \notin Inputs
  /\ None \notin Tables
  /\ MaxCreates \in Nat /\ MaxCrashes \in Nat /\ MaxFaults \in Nat

VARIABLES
  tableNameVsSchemaMap,  \* table -> statement, None where there is no entry
  catalog,               \* value of _calatog: a set of table names
  schema,                \* table -> value of _schema:<table>
  indexes,               \* table -> value of _secondary_indexes:<table>
  locks,                 \* keys whose write lock is held
  call,                  \* how far the createTable of each goroutine is
  buf,                   \* each call's secondaryIndexCatalogBuf, once it has it
  mode,                  \* "open", "down", or "refused": NewDB failed
  creates, crashes, faults,  \* history: counters for the bounds
  made,                  \* history: the statement of the last createTable of a
                         \* table that ran to its end, None if one began since
  rivals,                \* history: tables whose last createTables overlapped
  lost,                  \* history: table -> Puts of its last createTable that
                         \* stored nothing
  overlapped             \* history: two createTables ran at once

history == <<made, rivals, lost>>
vars == <<tableNameVsSchemaMap, catalog, schema, indexes, locks, call, buf,
          mode, creates, crashes, faults, history, overlapped>>

-------------------------------------------------------------------------------
(***************************************************************************)
(* Codecs                                                                  *)
(***************************************************************************)

\* A slip (see PROJECT.json): positions count from 0 on one side only.
PositionFromZero(columns, column) ==
  CHOOSE i \in 0 .. Len(columns) - 1 : columns[i + 1] = column

HasColumn(columns, column) == \E i \in DOMAIN columns : columns[i] = column

\* The position that the loop over the columns leaves in colIdx: the last.
Position(columns, column) ==
  CHOOSE i \in DOMAIN columns :
    /\ columns[i] = column
    /\ \A j \in DOMAIN columns : columns[j] = column => j <= i

\* serialiseCreateTableInput
serialiseCreateTableInput(input) ==
  [primaryKey |-> input.primaryKey, columns |-> input.columns]

\* serialiseSecondaryIndexCatalog returns an error for an unknown column.
Serialisable(columns, list) ==
  \A i \in DOMAIN list :
    \A j \in DOMAIN list[i].columns : HasColumn(columns, list[i].columns[j])

\* Columns of an index become positions in the table's list of columns.
serialiseSecondaryIndexCatalog(columns, list) ==
  [i \in DOMAIN list |->
     [name |-> list[i].name,
      positions |-> [j \in DOMAIN list[i].columns |->
                       Position(columns, list[i].columns[j])]]]

\* A stored value is never the empty string, which stands for none.
ASSUME NoneAssumption ==
  \A input \in Inputs :
    /\ None # serialiseCreateTableInput(input)
    /\ Serialisable(input.columns, input.indexes) =>
         None # serialiseSecondaryIndexCatalog(input.columns, input.indexes)

\* deserialiseSecondaryIndexCatalog returns an error for a missing value and
\* for a position behind the columns of the schema.
Deserialisable(tb) ==
  /\ schema[tb] # None /\ indexes[tb] # None
  /\ \A i \in DOMAIN indexes[tb] :
       \A j \in DOMAIN indexes[tb][i].positions :
         indexes[tb][i].positions[j] \in DOMAIN schema[tb].columns

\* A slip (see PROJECT.json): the loop variable is used for the position.
ColumnsInTableOrder(columns, stored) ==
  [i \in DOMAIN stored |->
     [name |-> stored[i].name,
      columns |-> [j \in DOMAIN stored[i].positions |-> columns[j]]]]

deserialiseSecondaryIndexCatalog(columns, stored) ==
  [i \in DOMAIN stored |->
     [name |-> stored[i].name,
      columns |-> [j \in DOMAIN stored[i].positions |->
                     columns[stored[i].positions[j]]]]]

\* deserialiseCreateTableInput, with the indexes filled in.
deserialised(tb) ==
  [primaryKey |-> schema[tb].primaryKey,
   columns    |-> schema[tb].columns,
   indexes    |-> deserialiseSecondaryIndexCatalog(schema[tb].columns, indexes[tb])]

-------------------------------------------------------------------------------
\* A call: the Put it is at and whether that holds its lock; the statement;
\* the names to store.
Idle == [pc |-> "idle", holds |-> FALSE, table |-> None, input |-> None,
         names |-> {}]

\* A slip (see PROJECT.json): the catalog's key is formatted with the table.
PutKeyPerTable(c) == <<call[c].pc, call[c].table>>

\* The key of the Put that a call is at.
CatalogKey == <<"catalog", None>>
PutKey(c) == IF call[c].pc = "catalog" THEN CatalogKey
                                       ELSE <<call[c].pc, call[c].table>>
PutPcs == {"catalog", "schema", "indexes"}
StoreKeys == {CatalogKey} \cup ({"schema", "indexes"} \X Tables)

CallType == [pc : {"idle"} \cup PutPcs, holds : BOOLEAN, table : Tables \cup {None},
             input : Inputs \cup {None}, names : SUBSET Tables]

TypeOK ==
  /\ DOMAIN tableNameVsSchemaMap = Tables
  /\ DOMAIN schema = Tables /\ DOMAIN indexes = Tables
  /\ catalog \in SUBSET Tables
  /\ locks \in SUBSET StoreKeys
  /\ call \in [Creators -> CallType]
  /\ DOMAIN buf = Creators
  /\ \A c \in Creators : call[c].pc # "idle" => /\ call[c].table \in Tables
                                                /\ call[c].input \in Inputs
  /\ mode \in {"open", "down", "refused"}
  /\ creates \in 0 .. MaxCreates
  /\ crashes \in 0 .. MaxCrashes
  /\ faults \in 0 .. MaxFaults
  /\ made \in [Tables -> Inputs \cup {None}]
  /\ rivals \in SUBSET Tables
  /\ lost \in [Tables -> SUBSET PutPcs]
  /\ overlapped \in BOOLEAN

\* NewDB has opened an empty directory.
Init ==
  /\ tableNameVsSchemaMap = [tb \in Tables |-> None]
  /\ catalog = {}
  /\ schema = [tb \in Tables |-> None]
  /\ indexes = [tb \in Tables |-> None]
  /\ locks = {}
  /\ call = [c \in Creators |-> Idle]
  /\ buf = [c \in Creators |-> None]
  /\ mode = "open"
  /\ creates = 0 /\ crashes = 0 /\ faults = 0
  /\ made = [tb \in Tables |-> None]
  /\ rivals = {}
  /\ lost = [tb \in Tables |-> {}]
  /\ overlapped = FALSE

UnderWay(c) == call[c].pc # "idle"
Present(map) == { tb \in Tables : map[tb] # None }

-------------------------------------------------------------------------------
(***************************************************************************)
(* createTable                                                             *)
(***************************************************************************)

\* A slip (see PROJECT.json): the catalog is given the new name alone.
OnlyNewName(map, tb) == {tb}

NamesToStore(map, tb) == Present(map)

\* The map is changed and the names are collected.
CreateTable(c, tb, input) ==
  LET map   == [tableNameVsSchemaMap EXCEPT ![tb] = input]
      alone == ~\E d \in Creators : UnderWay(d) /\ call[d].table = tb
  IN  /\ mode = "open" /\ ~UnderWay(c)
      /\ creates < MaxCreates /\ creates' = creates + 1
      /\ tableNameVsSchemaMap' = map
      /\ call' = [call EXCEPT ![c] =
                    [pc |-> "catalog", holds |-> FALSE, table |-> tb,
                     input |-> input, names |-> NamesToStore(map, tb)]]
      /\ made' = [made EXCEPT ![tb] = None]
      /\ rivals' = IF alone THEN rivals \ {tb} ELSE rivals \cup {tb}
      /\ lost' = [lost EXCEPT ![tb] = IF alone THEN {} ELSE @]
      /\ overlapped' = (overlapped \/ \E d \in Creators : UnderWay(d))
      /\ UNCHANGED <<catalog, schema, indexes, locks, buf, mode, crashes, faults>>

\* The columns that positions are taken from are those of the map, which a
\* rival's createTable may have changed.
Columns(c) == tableNameVsSchemaMap[call[c].table].columns

\* Where createTable goes after a Put, stored or not.
NextPc(c) ==
  CASE call[c].pc = "catalog" -> "schema"
    [] call[c].pc = "schema"  ->
         IF Serialisable(Columns(c), call[c].input.indexes) THEN "indexes" ELSE "idle"
    [] call[c].pc = "indexes" -> "idle"

Proceed(c, stored) ==
  LET tb == call[c].table
  IN  /\ buf' = [buf EXCEPT ![c] =
                   IF NextPc(c) = "indexes"
                   THEN serialiseSecondaryIndexCatalog(Columns(c), call[c].input.indexes)
                   ELSE None]
      /\ call' = [call EXCEPT ![c] =
                    IF NextPc(c) = "idle" THEN Idle
                    ELSE [call[c] EXCEPT !.pc = NextPc(c), !.holds = FALSE]]
      /\ made' = [made EXCEPT ![tb] =
                    IF call[c].pc = "indexes" THEN call[c].input ELSE @]
      /\ lost' = [lost EXCEPT ![tb] = IF stored THEN @ ELSE @ \cup {call[c].pc}]
      /\ UNCHANGED rivals

\* db.Put begins a transaction, whose Put takes the write lock, ...
PutLocks(c) ==
  /\ UnderWay(c) /\ ~call[c].holds
  /\ PutKey(c) \notin locks
  /\ locks' = locks \cup {PutKey(c)}
  /\ call' = [call EXCEPT ![c].holds = TRUE]
  /\ UNCHANGED <<tableNameVsSchemaMap, catalog, schema, indexes, buf, mode,
                 creates, crashes, faults, history, overlapped>>

\* ... or finds it taken: the error is dropped.
PutConflicts(c) ==
  /\ UnderWay(c) /\ ~call[c].holds
  /\ PutKey(c) \in locks
  /\ Proceed(c, FALSE)
  /\ UNCHANGED <<tableNameVsSchemaMap, catalog, schema, indexes, locks, mode,
                 creates, crashes, faults, overlapped>>

\* The value of the Put is in the log.
Store(c) ==
  LET tb == call[c].table
  IN  \/ /\ call[c].pc = "catalog"
         /\ catalog' = call[c].names
         /\ UNCHANGED <<schema, indexes>>
      \/ /\ call[c].pc = "schema"
         /\ schema' = [schema EXCEPT ![tb] = serialiseCreateTableInput(call[c].input)]
         /\ UNCHANGED <<catalog, indexes>>
      \/ /\ call[c].pc = "indexes"
         /\ indexes' = [indexes EXCEPT ![tb] = buf[c]]
         /\ UNCHANGED <<catalog, schema>>

\* Commit succeeds and releases the lock.
PutCommits(c) ==
  /\ UnderWay(c) /\ call[c].holds
  /\ Store(c)
  /\ locks' = locks \ {PutKey(c)}
  /\ Proceed(c, TRUE)
  /\ UNCHANGED <<tableNameVsSchemaMap, mode, creates, crashes, faults, overlapped>>

\* Commit returns an error with the lock held: the log was not written, or it
\* was and its sync or the flush behind it failed.  db.Put returns the error
\* without a Rollback and createTable drops it.
PutFails(c) ==
  /\ UnderWay(c) /\ call[c].holds
  /\ faults < MaxFaults /\ faults' = faults + 1
  /\ \/ Proceed(c, FALSE) /\ UNCHANGED <<catalog, schema, indexes>>
     \/ Proceed(c, TRUE) /\ Store(c)
  /\ UNCHANGED <<tableNameVsSchemaMap, locks, mode, creates, crashes, overlapped>>

-------------------------------------------------------------------------------
(***************************************************************************)
(* Crash and NewDB                                                         *)
(***************************************************************************)
Crash ==
  /\ mode = "open" /\ mode' = "down"
  /\ crashes < MaxCrashes /\ crashes' = crashes + 1
  /\ call' = [c \in Creators |-> Idle]
  /\ buf' = [c \in Creators |-> None]
  /\ locks' = {}
  /\ tableNameVsSchemaMap' = [tb \in Tables |-> None]
  /\ UNCHANGED <<catalog, schema, indexes, creates, faults, history, overlapped>>

\* getTableNameVsSchemaMap: an error for one table is an error of NewDB.
NewDB ==
  /\ mode = "down"
  /\ \/ /\ \A tb \in catalog : Deserialisable(tb)
        /\ mode' = "open"
        /\ tableNameVsSchemaMap' =
             [tb \in Tables |-> IF tb \in catalog THEN deserialised(tb) ELSE None]
     \/ /\ \E tb \in catalog : ~Deserialisable(tb)
        /\ mode' = "refused"
        /\ UNCHANGED tableNameVsSchemaMap
  /\ UNCHANGED <<catalog, schema, indexes, locks, call, buf, creates, crashes,
                 faults, history, overlapped>>

Next ==
  \/ \E c \in Creators :
       \/ \E tb \in Tables, input \in Inputs : CreateTable(c, tb, input)
       \/ PutLocks(c) \/ PutConflicts(c) \/ PutCommits(c) \/ PutFails(c)
  \/ Crash
  \/ NewDB

Spec == Init /\ [][Next]_vars

-------------------------------------------------------------------------------
(***************************************************************************)
(* Properties                                                              *)
(***************************************************************************)

\* The last createTable of the table ran to its end, no other one of the same
\* table overlapped with it, and its schema and its indexes were stored.
Undisturbed(tb) ==
  made[tb] # None /\ tb \notin rivals /\ lost[tb] \subseteq {"catalog"}

\* ShowCreateTable of such a table shows the statement that made it, before
\* and after any number of restarts, whatever calls of other tables overlapped
\* with it, and whichever calls failed or were cut short by a crash.
RestoredAsCreated ==
  \A tb \in Tables :
    tableNameVsSchemaMap[tb] # None /\ Undisturbed(tb)
      => tableNameVsSchemaMap[tb] = made[tb]

\* NewDB refuses to open only over a table whose last createTable was cut short
\* or returned an error, overlapped with another one of the table, or dropped
\* the error of a Put that stored nothing.  (Then it refuses for good: nothing
\* repairs the catalog.)
RefusedOnlyIfDisturbed ==
  mode = "refused" => \E tb \in catalog : ~Undisturbed(tb)

\* While createTables do not overlap, a table all of whose Puts were stored is
\* not forgotten, although every call writes the list of all names anew.
MadeTablesListed ==
  mode = "open" /\ ~overlapped =>
    \A tb \in Tables :
      made[tb] # None /\ lost[tb] = {} => tableNameVsSchemaMap[tb] # None
===============================================================================
