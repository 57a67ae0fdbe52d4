----------------------------- MODULE CatalogProofs -----------------------------
(***************************************************************************)
(* The theorems of Catalog, for any number of creators, tables, statements *)
(* and crashes.                                                            *)
(***************************************************************************)
EXTENDS Catalog, WellFoundedInduction, TLAPS

\* The indexes of a statement name its own columns, and how they are stored.
Indexable(input) == Serialisable(input.columns, input.indexes)
StoredIndexes(input) ==
  serialiseSecondaryIndexCatalog(input.columns, input.indexes)

\* No other createTable of the table overlapped with the last one, and what it
\* did of the schema and the indexes so far was stored.
Sound(tb) == tb \notin rivals /\ lost[tb] \subseteq {"catalog"}

\* The same of a table of this state, after the step.
SoundAfter(tb) == tb \notin rivals' /\ lost'[tb] \subseteq {"catalog"}

\* The stored values of an undisturbed table are those of the statement that
\* made it.
StoredAsMade ==
  \A tb \in Tables :
    made[tb] # None /\ Sound(tb) =>
      /\ Indexable(made[tb])
      /\ schema[tb] = serialiseCreateTableInput(made[tb])
      /\ indexes[tb] = StoredIndexes(made[tb])

\* A process that is not running has no calls.
CallsOpen == \A c \in Creators : UnderWay(c) => mode = "open"

\* Without rivals, a table with a call under way has no other and is not made.
AloneCalls ==
  \A c \in Creators :
    UnderWay(c) /\ call[c].table \notin rivals =>
      /\ \A d \in Creators \ {c} : UnderWay(d) => call[d].table # call[c].table
      /\ made[call[c].table] = None

\* What a call on a sound table did so far is there.
SoundCalls ==
  \A c \in Creators :
    UnderWay(c) /\ Sound(call[c].table) =>
      /\ tableNameVsSchemaMap[call[c].table] = call[c].input
      /\ call[c].pc = "indexes" =>
           /\ Indexable(call[c].input)
           /\ schema[call[c].table] = serialiseCreateTableInput(call[c].input)
           /\ buf[c] = StoredIndexes(call[c].input)

\* As long as no two calls overlapped: the list of names, stored or about to
\* be, has every table that was made and stored.
Complete(tb) == made[tb] # None /\ lost[tb] = {}

Names(c) ==
  /\ call[c].table \in call[c].names
  /\ \A tb \in Tables : Complete(tb) => tb \in call[c].names
  /\ call[c].pc # "catalog" /\ lost[call[c].table] = {} => call[c].table \in catalog

Listed ==
  ~overlapped =>
    /\ rivals = {}
    /\ \A c, d \in Creators : UnderWay(c) /\ UnderWay(d) => c = d
    /\ \A tb \in Tables : Complete(tb) => tb \in catalog
    /\ \A c \in Creators : UnderWay(c) => Names(c)

RestoreInv ==
  /\ TypeOK
  /\ StoredAsMade
  /\ CallsOpen
  /\ AloneCalls
  /\ SoundCalls
  /\ RestoredAsCreated
  /\ RefusedOnlyIfDisturbed

ListInv ==
  /\ RestoreInv
  /\ Listed
  /\ MadeTablesListed

-------------------------------------------------------------------------------
\* A nonempty set of positions has a largest one.
LEMMA Largest ==
  ASSUME NEW n \in Nat, NEW T \in SUBSET (1 .. n), T # {}
  PROVE  \E i \in T : \A j \in T : j <= i
<1> DEFINE U == { m \in Nat : \E i \in T : m + i = n }
<1>1. U \subseteq Nat /\ U # {}
  <2>1. PICK i \in T : i \in 1 .. n
    OBVIOUS
  <2>2. n - i \in Nat /\ (n - i) + i = n
    BY <2>1
  <2> QED  BY <2>2
<1>2. PICK x \in U : \A y \in U : ~(<<y, x>> \in OpToRel(<, Nat))
  BY <1>1, WFMin, NatLessThanWellFounded, Zenon
<1>3. \A y \in U : ~(y < x)
  BY <1>1, <1>2 DEF OpToRel
<1>4. PICK i \in T : x + i = n
  BY <1>2
<1>5. x \in Nat
  BY <1>2
<1>6. \A j \in T : j <= i
  <2> TAKE j \in T
  <2>1. i \in 1 .. n /\ j \in 1 .. n /\ x = n - i
    BY <1>5, <1>4
  <2>2. n - j \in U
    BY <2>1
  <2> QED  BY <1>3, <2>1, <2>2
<1> QED  BY <1>6

\* The loop over the columns finds a column that is there.
LEMMA PositionFinds ==
  ASSUME NEW columns \in Seq(STRING), NEW column, HasColumn(columns, column)
  PROVE  /\ Position(columns, column) \in DOMAIN columns
         /\ columns[Position(columns, column)] = column
<1> DEFINE T == { i \in DOMAIN columns : columns[i] = column }
<1>1. T \in SUBSET (1 .. Len(columns)) /\ T # {} /\ Len(columns) \in Nat
  BY DEF HasColumn
<1>2. \E i \in T : \A j \in T : j <= i
  BY <1>1, Largest
<1> QED  BY <1>2 DEF Position

\* What a sequence is made of.
LEMMA Elements ==
  ASSUME NEW S, NEW s \in Seq(S)
  PROVE  /\ \A i \in DOMAIN s : s[i] \in S
         /\ s = [i \in DOMAIN s |-> s[i]]
OBVIOUS

\* Reading back the stored indexes of a statement gives its indexes, in the
\* columns of its schema.
LEMMA CatalogRoundTrip ==
  ASSUME NEW input \in Inputs, Indexable(input)
  PROVE  LET stored == StoredIndexes(input)
         IN  /\ deserialiseSecondaryIndexCatalog(input.columns, stored) = input.indexes
             /\ \A i \in DOMAIN stored : \A j \in DOMAIN stored[i].positions :
                  stored[i].positions[j] \in DOMAIN input.columns
<1> DEFINE stored == StoredIndexes(input)
           pos(i, j) == Position(input.columns, input.indexes[i].columns[j])
           back == deserialiseSecondaryIndexCatalog(input.columns, stored)
<1>1. /\ input.columns \in Seq(STRING)
      /\ input.indexes \in Seq([name : STRING, columns : Seq(STRING)])
  BY CatalogAssumption
<1>2. \A i \in DOMAIN input.indexes :
        input.indexes[i] \in [name : STRING, columns : Seq(STRING)]
  BY <1>1, Elements, Zenon
<1>3. ASSUME NEW i \in DOMAIN input.indexes,
             NEW j \in DOMAIN input.indexes[i].columns
      PROVE  /\ pos(i, j) \in DOMAIN input.columns
             /\ input.columns[pos(i, j)] = input.indexes[i].columns[j]
  <2>1. HasColumn(input.columns, input.indexes[i].columns[j])
    BY DEF Indexable, Serialisable
  <2> QED  BY <1>1, <2>1, PositionFinds
<1>4. /\ DOMAIN stored = DOMAIN input.indexes
      /\ \A i \in DOMAIN input.indexes :
           /\ stored[i].name = input.indexes[i].name
           /\ DOMAIN stored[i].positions = DOMAIN input.indexes[i].columns
           /\ \A j \in DOMAIN input.indexes[i].columns :
                stored[i].positions[j] = pos(i, j)
  BY DEF StoredIndexes, serialiseSecondaryIndexCatalog
<1> HIDE DEF stored, pos
<1>5. ASSUME NEW i \in DOMAIN input.indexes
      PROVE  back[i] = input.indexes[i]
  <2>1. back[i] = [name |-> input.indexes[i].name,
                   columns |-> [j \in DOMAIN input.indexes[i].columns |->
                                  input.columns[stored[i].positions[j]]]]
    BY <1>4 DEF deserialiseSecondaryIndexCatalog
  <2>2. \A j \in DOMAIN input.indexes[i].columns :
          input.columns[stored[i].positions[j]] = input.indexes[i].columns[j]
    BY <1>3, <1>4
  <2>3. back[i] = [name |-> input.indexes[i].name,
                   columns |-> [j \in DOMAIN input.indexes[i].columns |->
                                  input.indexes[i].columns[j]]]
    BY <2>1, <2>2, Zenon
  <2> QED  BY <1>2, <2>3
<1>6. back = [i \in DOMAIN input.indexes |-> back[i]]
  BY <1>4 DEF deserialiseSecondaryIndexCatalog
<1>7. back = [i \in DOMAIN input.indexes |-> input.indexes[i]]
  BY <1>5, <1>6, Zenon
<1>8. back = input.indexes
  <2>1. input.indexes = [i \in DOMAIN input.indexes |-> input.indexes[i]]
    BY <1>1
  <2> HIDE DEF back
  <2> QED  BY <1>7, <2>1
<1> QED  BY <1>3, <1>4, <1>8 DEF stored

-------------------------------------------------------------------------------
\* A step from one Put to the next changes one call and nothing of its
\* statement, and what is remembered of its table.
LEMMA ProceedCalls ==
  ASSUME TypeOK, NEW c \in Creators, UnderWay(c), NEW stored \in BOOLEAN,
         Proceed(c, stored)
  PROVE  /\ call' \in [Creators -> CallType]
         /\ DOMAIN buf' = Creators
         /\ \A d \in Creators \ {c} : call'[d] = call[d] /\ buf'[d] = buf[d]
         /\ \/ call'[c] = Idle
            \/ /\ call'[c].pc = NextPc(c) /\ NextPc(c) \in {"schema", "indexes"}
               /\ NextPc(c) = "indexes" =>
                    /\ call[c].pc = "schema"
                    /\ Serialisable(Columns(c), call[c].input.indexes)
                    /\ buf'[c] = serialiseSecondaryIndexCatalog(
                                    Columns(c), call[c].input.indexes)
               /\ call'[c].table = call[c].table
               /\ call'[c].input = call[c].input
               /\ call'[c].names = call[c].names
<1>1. call[c] \in CallType /\ call[c].pc \in PutPcs
  BY DEF TypeOK, CallType, UnderWay
<1>2. NextPc(c) \in {"idle", "schema", "indexes"}
      /\ (NextPc(c) = "indexes" => /\ call[c].pc = "schema"
                                   /\ Serialisable(Columns(c), call[c].input.indexes))
  BY <1>1 DEF NextPc, PutPcs
<1>3. Idle \in CallType
  BY DEF Idle, CallType
<1>4. /\ DOMAIN buf' = Creators
      /\ \A d \in Creators \ {c} : buf'[d] = buf[d]
      /\ NextPc(c) = "indexes" =>
           buf'[c] = serialiseSecondaryIndexCatalog(Columns(c), call[c].input.indexes)
  BY DEF Proceed, TypeOK
<1>5. CASE NextPc(c) = "idle"
  <2>1. call' = [call EXCEPT ![c] = Idle]
    BY <1>5 DEF Proceed
  <2> QED  BY <2>1, <1>3, <1>4 DEF TypeOK
<1>6. CASE NextPc(c) # "idle"
  <2> DEFINE new == [call[c] EXCEPT !.pc = NextPc(c), !.holds = FALSE]
  <2>1. call' = [call EXCEPT ![c] = new]
    BY <1>6 DEF Proceed
  <2>2. /\ new \in CallType
        /\ new.pc = NextPc(c) /\ new.table = call[c].table
        /\ new.input = call[c].input /\ new.names = call[c].names
    BY <1>1, <1>2, <1>6 DEF CallType, PutPcs
  <2> HIDE DEF new
  <2>3. call \in [Creators -> CallType]
    BY DEF TypeOK
  <2>4. call'[c] = new /\ call' \in [Creators -> CallType]
        /\ \A d \in Creators \ {c} : call'[d] = call[d]
    BY <2>1, <2>2, <2>3
  <2> QED  BY <1>2, <1>6, <1>4, <2>2, <2>4
<1> QED  BY <1>5, <1>6

LEMMA ProceedHistory ==
  ASSUME TypeOK, NEW c \in Creators, UnderWay(c), NEW stored \in BOOLEAN,
         Proceed(c, stored)
  PROVE  /\ made' \in [Tables -> Inputs \cup {None}] /\ lost' \in [Tables -> SUBSET PutPcs]
         /\ rivals' = rivals
         /\ \A tb \in Tables \ {call[c].table} : made'[tb] = made[tb] /\ lost'[tb] = lost[tb]
         /\ IF call[c].pc = "indexes"
            THEN made'[call[c].table] = call[c].input /\ call'[c] = Idle
            ELSE made'[call[c].table] = made[call[c].table]
         /\ lost'[call[c].table] = IF stored THEN lost[call[c].table]
                                             ELSE lost[call[c].table] \cup {call[c].pc}
<1> DEFINE tb == call[c].table
<1>1. tb \in Tables /\ call[c].input \in Inputs /\ call[c].pc \in PutPcs
  BY DEF TypeOK, CallType, UnderWay
<1>2. /\ made \in [Tables -> Inputs \cup {None}] /\ lost \in [Tables -> SUBSET PutPcs]
      /\ call \in [Creators -> CallType]
  BY DEF TypeOK
<1>3. /\ made' = [made EXCEPT ![tb] = IF call[c].pc = "indexes" THEN call[c].input ELSE @]
      /\ lost' = [lost EXCEPT ![tb] = IF stored THEN @ ELSE @ \cup {call[c].pc}]
      /\ rivals' = rivals
  BY DEF Proceed
<1>4. call[c].pc = "indexes" => call'[c] = Idle
  BY <1>2 DEF Proceed, NextPc
<1> HIDE DEF tb
<1>5. made' \in [Tables -> Inputs \cup {None}]
      /\ (\A u \in Tables \ {tb} : made'[u] = made[u])
      /\ made'[tb] = IF call[c].pc = "indexes" THEN call[c].input ELSE made[tb]
  BY <1>1, <1>2, <1>3
<1>6. lost' \in [Tables -> SUBSET PutPcs]
      /\ (\A u \in Tables \ {tb} : lost'[u] = lost[u])
      /\ lost'[tb] = IF stored THEN lost[tb] ELSE lost[tb] \cup {call[c].pc}
  BY <1>1, <1>2, <1>3
<1> QED  BY <1>3, <1>4, <1>5, <1>6 DEF tb

-------------------------------------------------------------------------------
\* createTable begins: the table is no longer made, and if a rival's call is
\* under way it is not sound.
LEMMA CreateTableKeeps ==
  ASSUME RestoreInv, NEW c \in Creators, NEW tb \in Tables,
         NEW input \in Inputs, CreateTable(c, tb, input)
  PROVE  RestoreInv'
<1> USE DEF RestoreInv
<1> DEFINE alone == ~\E d \in Creators : UnderWay(d) /\ call[d].table = tb
           map   == [tableNameVsSchemaMap EXCEPT ![tb] = input]
           new   == [pc |-> "catalog", holds |-> FALSE, table |-> tb,
                     input |-> input, names |-> NamesToStore(map, tb)]
<1>1. /\ mode = "open" /\ mode' = mode
      /\ tableNameVsSchemaMap' = map
      /\ call' = [call EXCEPT ![c] = new] /\ ~UnderWay(c)
      /\ made' = [made EXCEPT ![tb] = None]
      /\ rivals' = IF alone THEN rivals \ {tb} ELSE rivals \cup {tb}
      /\ lost' = [lost EXCEPT ![tb] = IF alone THEN {} ELSE @]
      /\ UNCHANGED <<catalog, schema, indexes, locks, buf, crashes, faults>>
      /\ creates' = creates + 1 /\ creates < MaxCreates
      /\ overlapped' \in BOOLEAN
  BY DEF CreateTable
<1>2. /\ new \in CallType /\ new.pc = "catalog" /\ new.table = tb /\ new.input = input
  BY DEF CallType, PutPcs, NamesToStore, Present
<1>3. /\ call \in [Creators -> CallType] /\ DOMAIN tableNameVsSchemaMap = Tables
      /\ made \in [Tables -> Inputs \cup {None}] /\ lost \in [Tables -> SUBSET PutPcs]
      /\ rivals \in SUBSET Tables
  BY DEF TypeOK
<1> HIDE DEF new, alone
<1>4. /\ call' \in [Creators -> CallType] /\ call'[c] = new
      /\ \A d \in Creators \ {c} : call'[d] = call[d]
  BY <1>1, <1>2, <1>3
<1>5. /\ made' \in [Tables -> Inputs \cup {None}] /\ made'[tb] = None
      /\ \A u \in Tables \ {tb} : made'[u] = made[u]
  BY <1>1, <1>3
<1>6. /\ lost' \in [Tables -> SUBSET PutPcs]
      /\ \A u \in Tables \ {tb} : lost'[u] = lost[u]
  BY <1>1, <1>3
<1>7. /\ rivals' \in SUBSET Tables /\ (~alone => tb \in rivals')
      /\ \A u \in Tables \ {tb} : u \in rivals' <=> u \in rivals
  BY <1>1, <1>3
<1>8. /\ DOMAIN map = Tables /\ map[tb] = input
      /\ \A u \in Tables \ {tb} : map[u] = tableNameVsSchemaMap[u]
  BY <1>3
<1> HIDE DEF map
<1>9. \A u \in Tables \ {tb} : Sound(u)' <=> Sound(u)
  BY <1>6, <1>7 DEF Sound
<1>10. TypeOK'
  <2>1. creates' \in 0 .. MaxCreates
    BY <1>1, CatalogAssumption DEF TypeOK
  <2>2. \A d \in Creators : call'[d].pc # "idle" => /\ call'[d].table \in Tables
                                                   /\ call'[d].input \in Inputs
    BY <1>2, <1>4 DEF TypeOK
  <2>3. DOMAIN tableNameVsSchemaMap' = Tables
    BY <1>1, <1>8
  <2> QED  BY <1>1, <1>4, <1>5, <1>6, <1>7, <2>1, <2>2, <2>3 DEF TypeOK
<1>11. StoredAsMade'
  BY <1>1, <1>5, <1>9 DEF StoredAsMade
<1>12. CallsOpen'
  BY <1>1 DEF CallsOpen
<1>13. ASSUME NEW d \in Creators \ {c}, UnderWay(d)'
       PROVE  /\ UnderWay(d) /\ call'[d] = call[d] /\ call[d].table \in Tables
              /\ call[d].table = tb => tb \in rivals'
  <2>1. UnderWay(d) /\ call'[d] = call[d]
    BY <1>4, <1>13 DEF UnderWay
  <2>2. call[d].table = tb => ~alone
    BY <2>1 DEF alone
  <2> QED  BY <1>7, <2>1, <2>2 DEF TypeOK, UnderWay
<1>14. AloneCalls'
  <2> SUFFICES ASSUME NEW d \in Creators, UnderWay(d)', call'[d].table \notin rivals'
               PROVE  /\ \A e \in Creators \ {d} : UnderWay(e)' => call'[e].table # call'[d].table
                      /\ made'[call'[d].table] = None
    BY DEF AloneCalls
  <2>1. CASE d = c
    BY <1>2, <1>4, <1>5, <1>13, <2>1
  <2>2. CASE d # c
    <3>1. UnderWay(d) /\ call'[d] = call[d] /\ call[d].table \in Tables \ {tb}
      BY <1>13, <2>2
    <3>2. call[d].table \notin rivals
      BY <1>7, <3>1
    <3>3. /\ \A e \in Creators \ {d} : UnderWay(e) => call[e].table # call[d].table
          /\ made[call[d].table] = None
      BY <3>1, <3>2 DEF AloneCalls
    <3>4. ASSUME NEW e \in Creators \ {d}, UnderWay(e)' PROVE call'[e].table # call'[d].table
      BY <1>2, <1>4, <1>13, <3>1, <3>3, <3>4
    <3> QED  BY <1>5, <3>1, <3>3, <3>4
  <2> QED  BY <2>1, <2>2
<1>15. SoundCalls'
  <2> SUFFICES ASSUME NEW d \in Creators, UnderWay(d)', SoundAfter(call'[d].table)
               PROVE  /\ map[call'[d].table] = call'[d].input
                      /\ call'[d].pc = "indexes" =>
                           /\ Indexable(call'[d].input)
                           /\ schema[call'[d].table] = serialiseCreateTableInput(call'[d].input)
                           /\ buf[d] = StoredIndexes(call'[d].input)
    BY <1>1 DEF SoundCalls, Sound, SoundAfter
  <2>1. CASE d = c
    BY <1>2, <1>4, <1>8, <2>1
  <2>2. CASE d # c
    <3>1. UnderWay(d) /\ call'[d] = call[d] /\ call[d].table \in Tables \ {tb}
      BY <1>13, <2>2 DEF SoundAfter
    <3>2. Sound(call[d].table)
      BY <1>6, <1>7, <3>1 DEF Sound, SoundAfter
    <3> QED  BY <1>8, <3>1, <3>2 DEF SoundCalls
  <2> QED  BY <2>1, <2>2
<1>16. RestoredAsCreated'
  BY <1>1, <1>5, <1>6, <1>7, <1>8 DEF RestoredAsCreated, Undisturbed
<1>17. RefusedOnlyIfDisturbed'
  BY <1>1 DEF RefusedOnlyIfDisturbed
<1> QED  BY <1>10, <1>11, <1>12, <1>14, <1>15, <1>16, <1>17

\* A call goes on: it touches the schema and the history of its own table only,
\* and the table becomes made when the call ends.
LEMMA CallMoves ==
  ASSUME RestoreInv, NEW c \in Creators, UnderWay(c),
         mode' = mode, tableNameVsSchemaMap' = tableNameVsSchemaMap, rivals' = rivals,
         \A d \in Creators \ {c} : call'[d] = call[d] /\ buf'[d] = buf[d],
         \A tb \in Tables \ {call[c].table} : /\ schema'[tb] = schema[tb]
                                            /\ made'[tb] = made[tb] /\ lost'[tb] = lost[tb],
         lost[call[c].table] \subseteq lost'[call[c].table],
         made'[call[c].table] = made[call[c].table] \/ call'[c] = Idle,
         \/ call'[c] = Idle
         \/ /\ call'[c].table = call[c].table /\ call'[c].input = call[c].input
            /\ SoundAfter(call[c].table) /\ call'[c].pc = "indexes" =>
                 /\ Indexable(call[c].input)
                 /\ schema'[call[c].table] = serialiseCreateTableInput(call[c].input)
                 /\ buf'[c] = StoredIndexes(call[c].input)
  PROVE  CallsOpen' /\ AloneCalls' /\ SoundCalls'
<1> USE DEF RestoreInv
<1>1. \A d \in Creators : UnderWay(d) => call[d].table \in Tables
  BY DEF TypeOK, UnderWay
<1>2. Idle.pc = "idle"
  BY DEF Idle
<1>3. \A d \in Creators : UnderWay(d)' =>
        UnderWay(d) /\ call'[d].table = call[d].table /\ call'[d].input = call[d].input
  BY <1>2 DEF UnderWay
<1>4. CallsOpen'
  BY <1>3 DEF CallsOpen
<1>5. AloneCalls'
  <2> SUFFICES ASSUME NEW d \in Creators, UnderWay(d)', call[d].table \notin rivals
               PROVE  /\ \A e \in Creators \ {d} : UnderWay(e)' => call'[e].table # call[d].table
                      /\ made'[call[d].table] = None
    BY <1>3 DEF AloneCalls
  <2>1. UnderWay(d)
    BY <1>3
  <2>2. /\ \A e \in Creators \ {d} : UnderWay(e) => call[e].table # call[d].table
        /\ made[call[d].table] = None
    BY <2>1 DEF AloneCalls
  <2>3. \A e \in Creators \ {d} : UnderWay(e)' => call'[e].table # call[d].table
    BY <1>3, <2>2
  <2>4. CASE call[d].table # call[c].table
    BY <1>1, <2>1, <2>2, <2>3, <2>4
  <2>5. CASE call[d].table = call[c].table
    <3>1. d = c
      BY <2>2, <2>5
    <3>2. call'[c] # Idle
      BY <1>2, <3>1 DEF UnderWay
    <3> QED  BY <2>2, <2>3, <2>5, <3>2
  <2> QED  BY <2>4, <2>5
<1>6. SoundCalls'
  <2> SUFFICES ASSUME NEW d \in Creators, UnderWay(d)', SoundAfter(call[d].table)
               PROVE  /\ tableNameVsSchemaMap[call[d].table] = call[d].input
                      /\ call'[d].pc = "indexes" =>
                           /\ Indexable(call[d].input)
                           /\ schema'[call[d].table] = serialiseCreateTableInput(call[d].input)
                           /\ buf'[d] = StoredIndexes(call[d].input)
    BY <1>3 DEF SoundCalls, Sound, SoundAfter
  <2>1. UnderWay(d) /\ call[d].table \in Tables
    BY <1>1, <1>3
  <2>2. Sound(call[d].table)
    <3>1. lost[call[d].table] \subseteq lost'[call[d].table]
      BY <2>1
    <3> QED  BY <3>1 DEF Sound, SoundAfter
  <2>3. tableNameVsSchemaMap[call[d].table] = call[d].input
    BY <2>1, <2>2 DEF SoundCalls
  <2>4. CASE d = c
    BY <1>2, <2>3, <2>4 DEF UnderWay
  <2>5. CASE d # c
    <3>1. call[d].table # call[c].table
      BY <2>1, <2>2, <2>5 DEF AloneCalls, Sound
    <3> QED  BY <2>1, <2>2, <2>3, <2>5, <3>1 DEF SoundCalls
  <2> QED  BY <2>4, <2>5
<1> QED  BY <1>4, <1>5, <1>6

\* The history of a table that a call without rivals is about.
LEMMA UnmadeWhileUnderWay ==
  ASSUME RestoreInv, NEW c \in Creators, UnderWay(c), Sound(call[c].table)
  PROVE  made[call[c].table] = None
BY DEF RestoreInv, AloneCalls, Sound

\* The steps of a Put that store nothing: the lock is taken, is found taken, or
\* the log cannot be written.
StoresNothing(c) ==
  /\ UnderWay(c)
  /\ \/ /\ call' = [call EXCEPT ![c].holds = TRUE]
        /\ UNCHANGED <<buf, history>>
     \/ Proceed(c, FALSE)
  /\ UNCHANGED <<tableNameVsSchemaMap, catalog, schema, indexes, mode, creates,
                 crashes, overlapped>>

\* ... and those that store the value.
StoresValue(c) ==
  /\ UnderWay(c) /\ Store(c) /\ Proceed(c, TRUE)
  /\ UNCHANGED <<tableNameVsSchemaMap, mode, creates, crashes, overlapped>>

LEMMA PutSteps ==
  ASSUME TypeOK, NEW c \in Creators,
         PutLocks(c) \/ PutConflicts(c) \/ PutCommits(c) \/ PutFails(c)
  PROVE  /\ StoresNothing(c) \/ StoresValue(c)
         /\ locks' \subseteq StoreKeys /\ faults' \in 0 .. MaxFaults
<1>1. UnderWay(c)
  BY DEF PutLocks, PutConflicts, PutCommits, PutFails
<1>2. PutKey(c) \in StoreKeys
  BY <1>1 DEF PutKey, StoreKeys, TypeOK, CallType, UnderWay, PutPcs
<1>3. locks' \subseteq StoreKeys
  BY <1>2 DEF PutLocks, PutConflicts, PutCommits, PutFails, TypeOK
<1>4. faults' = faults \/ (faults < MaxFaults /\ faults' = faults + 1)
  BY DEF PutLocks, PutConflicts, PutCommits, PutFails
<1>5. faults' \in 0 .. MaxFaults
  BY <1>4, CatalogAssumption DEF TypeOK
<1>6. CASE PutLocks(c)
  <2>1. call' = [call EXCEPT ![c].holds = TRUE] /\ UNCHANGED <<buf, history>>
    BY <1>6 DEF PutLocks
  <2>2. UNCHANGED <<tableNameVsSchemaMap, catalog, schema, indexes, mode, creates,
                    crashes, overlapped>>
    BY <1>6 DEF PutLocks
  <2> QED  BY <1>1, <1>3, <1>5, <2>1, <2>2 DEF StoresNothing
<1>7. CASE PutConflicts(c)
  <2>1. /\ Proceed(c, FALSE)
        /\ UNCHANGED <<tableNameVsSchemaMap, catalog, schema, indexes, mode, creates,
                       crashes, overlapped>>
    BY <1>7 DEF PutConflicts
  <2> QED  BY <1>1, <1>3, <1>5, <2>1 DEF StoresNothing
<1>8. CASE PutCommits(c)
  <2>1. /\ Store(c) /\ Proceed(c, TRUE)
        /\ UNCHANGED <<tableNameVsSchemaMap, mode, creates, crashes, overlapped>>
    BY <1>8 DEF PutCommits
  <2> QED  BY <1>1, <1>3, <1>5, <2>1 DEF StoresValue
<1>9. CASE PutFails(c)
  <2>1. UNCHANGED <<tableNameVsSchemaMap, mode, creates, crashes, overlapped>>
    BY <1>9 DEF PutFails
  <2>2. \/ Proceed(c, FALSE) /\ UNCHANGED <<catalog, schema, indexes>>
        \/ Proceed(c, TRUE) /\ Store(c)
    BY <1>9 DEF PutFails
  <2>3. CASE Proceed(c, FALSE) /\ UNCHANGED <<catalog, schema, indexes>>
    BY <1>1, <1>3, <1>5, <2>1, <2>3 DEF StoresNothing
  <2>4. CASE Proceed(c, TRUE) /\ Store(c)
    BY <1>1, <1>3, <1>5, <2>1, <2>4 DEF StoresValue
  <2> QED  BY <2>2, <2>3, <2>4
<1> QED  BY <1>3, <1>5, <1>6, <1>7, <1>8, <1>9

LEMMA StoringNothingKeeps ==
  ASSUME RestoreInv, NEW c \in Creators, StoresNothing(c),
         locks' \subseteq StoreKeys, faults' \in 0 .. MaxFaults
  PROVE  RestoreInv'
<1> USE DEF RestoreInv
<1> DEFINE tb == call[c].table
<1>1. /\ UnderWay(c) /\ mode = "open"
      /\ UNCHANGED <<tableNameVsSchemaMap, catalog, schema, indexes, mode,
                     creates, crashes, overlapped>>
  BY DEF StoresNothing, CallsOpen
<1>2. /\ call' \in [Creators -> CallType] /\ DOMAIN buf' = Creators
      /\ made' \in [Tables -> Inputs \cup {None}] /\ lost' \in [Tables -> SUBSET PutPcs]
      /\ rivals' = rivals
      /\ \A d \in Creators \ {c} : call'[d] = call[d] /\ buf'[d] = buf[d]
      /\ \A u \in Tables \ {tb} : made'[u] = made[u] /\ lost'[u] = lost[u]
      /\ lost[tb] \subseteq lost'[tb]
      /\ \/ made'[tb] = made[tb]
         \/ call'[c] = Idle /\ "indexes" \in lost'[tb]
      /\ \/ call'[c] = Idle
         \/ /\ call'[c].table = tb /\ call'[c].input = call[c].input
            /\ call'[c].pc = "indexes" =>
                 \/ call[c].pc = "indexes" /\ buf'[c] = buf[c]
                 \/ "schema" \in lost'[tb]
  <2>1. CASE call' = [call EXCEPT ![c].holds = TRUE] /\ UNCHANGED <<buf, history>>
    <3>1. call \in [Creators -> CallType]
      BY DEF TypeOK
    <3>2. UNCHANGED <<buf, made, rivals, lost>>
      BY <2>1 DEF history
    <3>3. /\ call' \in [Creators -> CallType]
          /\ \A d \in Creators \ {c} : call'[d] = call[d]
          /\ call'[c].table = tb /\ call'[c].input = call[c].input /\ call'[c].pc = call[c].pc
      BY <2>1, <3>1 DEF CallType
    <3> QED  BY <3>2, <3>3 DEF TypeOK
  <2>2. CASE Proceed(c, FALSE)
    <3>1. /\ call' \in [Creators -> CallType] /\ DOMAIN buf' = Creators
          /\ \A d \in Creators \ {c} : call'[d] = call[d] /\ buf'[d] = buf[d]
          /\ \/ call'[c] = Idle
             \/ /\ call'[c].pc = NextPc(c) /\ (NextPc(c) = "indexes" => call[c].pc = "schema")
                /\ call'[c].table = tb /\ call'[c].input = call[c].input
      BY <1>1, <2>2, ProceedCalls
    <3>2. /\ made' \in [Tables -> Inputs \cup {None}] /\ lost' \in [Tables -> SUBSET PutPcs]
          /\ rivals' = rivals
          /\ \A u \in Tables \ {tb} : made'[u] = made[u] /\ lost'[u] = lost[u]
          /\ IF call[c].pc = "indexes" THEN call'[c] = Idle ELSE made'[tb] = made[tb]
          /\ lost'[tb] = lost[tb] \cup {call[c].pc}
      BY <1>1, <2>2, ProceedHistory
    <3> QED  BY <3>1, <3>2
  <2> QED  BY <2>1, <2>2 DEF StoresNothing
<1>3. TypeOK'
  <2>1. \A d \in Creators : call'[d].pc # "idle" => /\ call'[d].table \in Tables
                                                   /\ call'[d].input \in Inputs
    BY <1>1, <1>2 DEF TypeOK, UnderWay, Idle
  <2> QED  BY <1>1, <1>2, <2>1 DEF TypeOK
<1>4. CallsOpen' /\ AloneCalls' /\ SoundCalls'
  <2>1. SoundAfter(tb) => Sound(tb)
    BY <1>2 DEF Sound, SoundAfter
  <2>2. Sound(tb) /\ call[c].pc = "indexes" =>
          /\ Indexable(call[c].input)
          /\ schema[tb] = serialiseCreateTableInput(call[c].input)
          /\ buf[c] = StoredIndexes(call[c].input)
    BY <1>1 DEF SoundCalls
  <2>3. "schema" \in lost'[tb] => ~SoundAfter(tb)
    BY DEF SoundAfter
  <2>4. \/ call'[c] = Idle
        \/ /\ call'[c].table = tb /\ call'[c].input = call[c].input
           /\ SoundAfter(tb) /\ call'[c].pc = "indexes" =>
                /\ Indexable(call[c].input)
                /\ schema'[tb] = serialiseCreateTableInput(call[c].input)
                /\ buf'[c] = StoredIndexes(call[c].input)
    BY <1>1, <1>2, <2>1, <2>2, <2>3
  <2>5. made'[tb] = made[tb] \/ call'[c] = Idle
    BY <1>2
  <2> QED  BY <1>1, <1>2, <2>4, <2>5, CallMoves
<1>5. ASSUME NEW u \in Tables, made'[u] # None, Sound(u)'
      PROVE  made'[u] = made[u] /\ Sound(u)
  <2>1. Sound(u)
    BY <1>2, <1>5 DEF Sound
  <2>2. u = tb => "indexes" \notin lost'[tb]
    BY <1>5 DEF Sound
  <2> QED  BY <1>2, <2>1, <2>2
<1>6. StoredAsMade' /\ RestoredAsCreated'
  BY <1>1, <1>5 DEF StoredAsMade, RestoredAsCreated, Undisturbed, Sound
<1>7. RefusedOnlyIfDisturbed'
  BY <1>1 DEF RefusedOnlyIfDisturbed
<1> QED  BY <1>3, <1>4, <1>6, <1>7

LEMMA StoringValueKeeps ==
  ASSUME RestoreInv, NEW c \in Creators, StoresValue(c),
         locks' \subseteq StoreKeys, faults' \in 0 .. MaxFaults
  PROVE  RestoreInv'
<1> USE DEF RestoreInv
<1> DEFINE tb == call[c].table
           input == call[c].input
<1>1. /\ UnderWay(c) /\ Proceed(c, TRUE) /\ Store(c) /\ mode = "open"
      /\ UNCHANGED <<tableNameVsSchemaMap, mode, creates, crashes, overlapped>>
  BY DEF StoresValue, CallsOpen
<1>2. /\ tb \in Tables /\ input \in Inputs /\ call[c].names \subseteq Tables
      /\ DOMAIN schema = Tables /\ DOMAIN indexes = Tables
  BY <1>1 DEF TypeOK, CallType, UnderWay
<1>3. /\ call' \in [Creators -> CallType]
      /\ DOMAIN buf' = Creators
      /\ \A d \in Creators \ {c} : call'[d] = call[d] /\ buf'[d] = buf[d]
      /\ \/ call'[c] = Idle
         \/ /\ call'[c].pc = NextPc(c) /\ NextPc(c) \in {"schema", "indexes"}
            /\ NextPc(c) = "indexes" =>
                 /\ call[c].pc = "schema"
                 /\ Sound(tb) => Indexable(input) /\ buf'[c] = StoredIndexes(input)
            /\ call'[c].table = tb /\ call'[c].input = input
  <2>1. Sound(tb) => Columns(c) = input.columns
    BY <1>1 DEF SoundCalls, Columns
  <2> QED  BY <1>1, <2>1, ProceedCalls DEF Indexable, StoredIndexes
<1>4. /\ made' \in [Tables -> Inputs \cup {None}] /\ lost' = lost /\ rivals' = rivals
      /\ \A u \in Tables \ {tb} : made'[u] = made[u]
      /\ IF call[c].pc = "indexes" THEN made'[tb] = input /\ call'[c] = Idle
                                   ELSE made'[tb] = made[tb]
  <2>1. /\ lost \in [Tables -> SUBSET PutPcs] /\ lost' \in [Tables -> SUBSET PutPcs]
        /\ \A u \in Tables : lost'[u] = lost[u]
    BY <1>1, <1>2, ProceedHistory DEF TypeOK
  <2>2. lost' = lost
    BY <2>1
  <2> QED  BY <1>1, <2>2, ProceedHistory
<1>5. \A u : Sound(u)' <=> Sound(u)
  BY <1>4 DEF Sound
<1>6. TypeOK'
  <2>1. \A d \in Creators : call'[d].pc # "idle" => /\ call'[d].table \in Tables
                                                   /\ call'[d].input \in Inputs
    BY <1>2, <1>3 DEF TypeOK, UnderWay, Idle
  <2>2. /\ DOMAIN schema' = Tables /\ DOMAIN indexes' = Tables /\ catalog' \in SUBSET Tables
    BY <1>1, <1>2 DEF Store, TypeOK
  <2> QED  BY <1>1, <1>3, <1>4, <2>1, <2>2 DEF TypeOK
<1>7. Sound(tb) => made[tb] = None
  BY <1>1, UnmadeWhileUnderWay
<1>8. RefusedOnlyIfDisturbed'
  BY <1>1 DEF RefusedOnlyIfDisturbed
<1>9. ASSUME \A u \in Tables \ {tb} : schema'[u] = schema[u],
             NextPc(c) = "indexes" => schema'[tb] = serialiseCreateTableInput(input)
      PROVE  CallsOpen' /\ AloneCalls' /\ SoundCalls'
  <2>1. made'[tb] = made[tb] \/ call'[c] = Idle
    BY <1>4
  <2>2. \/ call'[c] = Idle
        \/ /\ call'[c].table = tb /\ call'[c].input = input
           /\ SoundAfter(tb) /\ call'[c].pc = "indexes" =>
                /\ Indexable(input)
                /\ schema'[tb] = serialiseCreateTableInput(input)
                /\ buf'[c] = StoredIndexes(input)
    BY <1>3, <1>4, <1>9 DEF Sound, SoundAfter
  <2> QED  BY <1>1, <1>3, <1>4, <1>9, <2>1, <2>2, CallMoves
<1>10. CASE call[c].pc = "catalog"
  <2>1. UNCHANGED <<schema, indexes>>
    BY <1>1, <1>10 DEF Store
  <2>2. \A u \in Tables : made'[u] = made[u]
    BY <1>4, <1>10
  <2>3. NextPc(c) # "indexes"
    BY <1>10 DEF NextPc
  <2>4. StoredAsMade' /\ RestoredAsCreated'
    BY <1>1, <1>4, <1>5, <2>1, <2>2 DEF StoredAsMade, RestoredAsCreated, Undisturbed
  <2> QED  BY <1>6, <1>8, <1>9, <2>1, <2>3, <2>4
<1>11. CASE call[c].pc = "schema"
  <2>1. /\ schema' = [schema EXCEPT ![tb] = serialiseCreateTableInput(input)]
        /\ UNCHANGED indexes
    BY <1>1, <1>11 DEF Store
  <2>2. \A u \in Tables : made'[u] = made[u]
    BY <1>4, <1>11
  <2>3. /\ schema'[tb] = serialiseCreateTableInput(input)
        /\ \A u \in Tables \ {tb} : schema'[u] = schema[u]
    BY <1>2, <2>1
  <2>4. StoredAsMade'
    BY <1>5, <1>7, <2>1, <2>2, <2>3 DEF StoredAsMade
  <2>5. RestoredAsCreated'
    BY <1>1, <1>4, <2>2 DEF RestoredAsCreated, Undisturbed
  <2> QED  BY <1>6, <1>8, <1>9, <2>3, <2>4, <2>5
<1>12. CASE call[c].pc = "indexes"
  <2>1. /\ indexes' = [indexes EXCEPT ![tb] = buf[c]] /\ UNCHANGED schema
        /\ made'[tb] = input
    BY <1>1, <1>4, <1>12 DEF Store
  <2>2. NextPc(c) # "indexes"
    BY <1>12 DEF NextPc
  <2>3. Sound(tb) => /\ Indexable(input) /\ buf[c] = StoredIndexes(input)
                     /\ schema[tb] = serialiseCreateTableInput(input)
                     /\ tableNameVsSchemaMap[tb] = input
    BY <1>1, <1>12 DEF SoundCalls
  <2>4. indexes'[tb] = buf[c] /\ \A u \in Tables \ {tb} : indexes'[u] = indexes[u]
    BY <1>2, <2>1
  <2>5. StoredAsMade'
    <3> SUFFICES ASSUME NEW u \in Tables, made'[u] # None, Sound(u)
                 PROVE  /\ Indexable(made'[u])
                        /\ schema[u] = serialiseCreateTableInput(made'[u])
                        /\ indexes'[u] = StoredIndexes(made'[u])
      BY <1>5, <2>1 DEF StoredAsMade
    <3> QED  BY <1>4, <2>1, <2>3, <2>4 DEF StoredAsMade
  <2>6. RestoredAsCreated'
    <3> SUFFICES ASSUME NEW u \in Tables, tableNameVsSchemaMap[u] # None, made'[u] # None, Sound(u)
                 PROVE  tableNameVsSchemaMap[u] = made'[u]
      BY <1>1, <1>4 DEF RestoredAsCreated, Undisturbed, Sound
    <3> QED  BY <1>4, <2>1, <2>3 DEF RestoredAsCreated, Undisturbed, Sound
  <2> QED  BY <1>6, <1>8, <1>9, <2>1, <2>2, <2>5, <2>6
<1> QED  BY <1>1, <1>10, <1>11, <1>12 DEF Store

\* What is stored of an undisturbed table reads back as its statement.
LEMMA MadeIsReadable ==
  ASSUME RestoreInv, NEW tb \in Tables, made[tb] # None, Sound(tb)
  PROVE  Deserialisable(tb) /\ deserialised(tb) = made[tb]
<1> USE DEF RestoreInv
<1> DEFINE input == made[tb]
           stored == StoredIndexes(input)
<1>1. input \in Inputs
  BY DEF TypeOK
<1>2. /\ Indexable(input) /\ schema[tb] = serialiseCreateTableInput(input)
      /\ indexes[tb] = stored
  BY DEF StoredAsMade
<1>3. /\ deserialiseSecondaryIndexCatalog(input.columns, stored) = input.indexes
      /\ \A i \in DOMAIN stored : \A j \in DOMAIN stored[i].positions :
           stored[i].positions[j] \in DOMAIN input.columns
  BY <1>1, <1>2, CatalogRoundTrip
<1>4. schema[tb].columns = input.columns /\ schema[tb].primaryKey = input.primaryKey
  BY <1>2 DEF serialiseCreateTableInput
<1>5. schema[tb] # None /\ indexes[tb] # None
  BY <1>1, <1>2, NoneAssumption DEF Indexable, StoredIndexes
<1>6. Deserialisable(tb)
  BY <1>2, <1>3, <1>4, <1>5 DEF Deserialisable
<1>7. input = [primaryKey |-> input.primaryKey, columns |-> input.columns,
               indexes |-> input.indexes]
  BY <1>1, CatalogAssumption
<1> QED  BY <1>2, <1>3, <1>4, <1>6, <1>7 DEF deserialised

\* NewDB reads back what was stored, and an undisturbed table is readable.
LEMMA NewDBKeeps ==
  ASSUME RestoreInv, NewDB
  PROVE  RestoreInv'
<1> USE DEF RestoreInv
<1>1. /\ mode = "down"
      /\ UNCHANGED <<catalog, schema, indexes, locks, call, buf, creates, crashes,
                     faults, made, rivals, lost, overlapped>>
  BY DEF NewDB, history
<1>2. mode' \in {"open", "refused"}
  BY DEF NewDB
<1>3. \A c \in Creators : ~UnderWay(c) /\ ~UnderWay(c)'
  BY <1>1 DEF CallsOpen, UnderWay
<1>4. \A tb \in Tables : Undisturbed(tb) =>
        Deserialisable(tb) /\ deserialised(tb) = made[tb]
  BY MadeIsReadable DEF Undisturbed, Sound
<1>5. tableNameVsSchemaMap' = tableNameVsSchemaMap \/
      tableNameVsSchemaMap' =
        [tb \in Tables |-> IF tb \in catalog THEN deserialised(tb) ELSE None]
  BY DEF NewDB
<1>6. TypeOK'
  BY <1>1, <1>2, <1>5 DEF TypeOK
<1>7. StoredAsMade' /\ CallsOpen' /\ AloneCalls' /\ SoundCalls'
  BY <1>1, <1>3 DEF StoredAsMade, CallsOpen, AloneCalls, SoundCalls, Sound
<1>8. \A tb : Undisturbed(tb)' <=> Undisturbed(tb)
  BY <1>1 DEF Undisturbed
<1>9. RestoredAsCreated'
  BY <1>1, <1>4, <1>5, <1>8 DEF RestoredAsCreated
<1>10. RefusedOnlyIfDisturbed'
  <2> SUFFICES ASSUME mode' = "refused"
               PROVE  \E tb \in catalog : ~Undisturbed(tb)
    BY <1>1, <1>8 DEF RefusedOnlyIfDisturbed
  <2>1. PICK tb \in catalog : ~Deserialisable(tb)
    BY DEF NewDB
  <2>2. tb \in Tables
    BY DEF TypeOK
  <2> QED  BY <1>4, <2>1, <2>2
<1> QED  BY <1>6, <1>7, <1>9, <1>10

\* A crash leaves the stored values.
LEMMA CrashKeeps ==
  ASSUME RestoreInv, Crash
  PROVE  RestoreInv'
<1> USE DEF RestoreInv
<1>1. /\ mode' = "down" /\ locks' = {}
      /\ call' = [c \in Creators |-> Idle] /\ buf' = [c \in Creators |-> None]
      /\ tableNameVsSchemaMap' = [tb \in Tables |-> None]
      /\ crashes < MaxCrashes /\ crashes' = crashes + 1
      /\ UNCHANGED <<catalog, schema, indexes, creates, faults, made, rivals, lost, overlapped>>
  BY DEF Crash, history
<1>2. Idle \in CallType /\ Idle.pc = "idle"
  BY DEF Idle, CallType
<1>3. crashes' \in 0 .. MaxCrashes
  BY <1>1, CatalogAssumption DEF TypeOK
<1>4. TypeOK'
  BY <1>1, <1>2, <1>3 DEF TypeOK
<1>5. \A c \in Creators : ~UnderWay(c)'
  BY <1>1, <1>2 DEF UnderWay
<1>6. StoredAsMade' /\ CallsOpen' /\ AloneCalls' /\ SoundCalls'
  BY <1>1, <1>5 DEF StoredAsMade, CallsOpen, AloneCalls, SoundCalls, Sound
<1> QED  BY <1>1, <1>4, <1>6 DEF RestoredAsCreated, RefusedOnlyIfDisturbed

\* A new database has made no table.
LEMMA RestoreInitially == Init => RestoreInv
<1> SUFFICES ASSUME Init PROVE RestoreInv
  OBVIOUS
<1>1. Idle \in CallType /\ Idle.pc = "idle"
  BY DEF Idle, CallType
<1>2. creates \in 0 .. MaxCreates /\ crashes \in 0 .. MaxCrashes /\ faults \in 0 .. MaxFaults
  BY CatalogAssumption DEF Init
<1>3. call \in [Creators -> CallType] /\ \A c \in Creators : call[c].pc = "idle"
  BY <1>1 DEF Init
<1>4. TypeOK
  BY <1>2, <1>3 DEF Init, TypeOK
<1> QED  BY <1>3, <1>4 DEF Init, RestoreInv, StoredAsMade, CallsOpen, AloneCalls, SoundCalls,
                           UnderWay, RestoredAsCreated, RefusedOnlyIfDisturbed

\* RestoreInv holds at first and every step keeps it.
LEMMA RestoreInvariant == Spec => []RestoreInv
<1>1. Init => RestoreInv
  BY RestoreInitially
<1>2. RestoreInv /\ [Next]_vars => RestoreInv'
  <2> SUFFICES ASSUME RestoreInv, [Next]_vars PROVE RestoreInv'
    OBVIOUS
  <2>1. ASSUME NEW c \in Creators, NEW tb \in Tables, NEW input \in Inputs,
               CreateTable(c, tb, input)
        PROVE  RestoreInv'
    BY <2>1, CreateTableKeeps
  <2>2. ASSUME NEW c \in Creators,
               PutLocks(c) \/ PutConflicts(c) \/ PutCommits(c) \/ PutFails(c)
        PROVE  RestoreInv'
    <3>1. /\ StoresNothing(c) \/ StoresValue(c)
          /\ locks' \subseteq StoreKeys /\ faults' \in 0 .. MaxFaults
      BY <2>2, PutSteps DEF RestoreInv
    <3> QED  BY <3>1, StoringNothingKeeps, StoringValueKeeps
  <2>3. CASE Crash
    BY <2>3, CrashKeeps
  <2>4. CASE NewDB
    BY <2>4, NewDBKeeps
  <2>5. CASE UNCHANGED vars
    BY <2>5 DEF vars, history, RestoreInv, TypeOK, StoredAsMade, CallsOpen, AloneCalls,
                SoundCalls, Sound, UnderWay, RestoredAsCreated, Undisturbed,
                RefusedOnlyIfDisturbed
  <2> QED  BY <2>1, <2>2, <2>3, <2>4, <2>5 DEF Next
<1> QED  BY <1>1, <1>2, PTL DEF Spec

-------------------------------------------------------------------------------
\* The list of names keeps every table that was made and stored, as long as
\* createTables do not overlap.
LEMMA ListStep ==
  ASSUME ListInv, RestoreInv', [Next]_vars
  PROVE  ListInv'
<1> USE DEF ListInv, RestoreInv
<1> SUFFICES ASSUME ~overlapped'
             PROVE  Listed' /\ MadeTablesListed'
  BY DEF Listed, MadeTablesListed
<1> DEFINE Alone == \A c, d \in Creators : UnderWay(c) /\ UnderWay(d) => c = d
           InCatalog == \A tb \in Tables : Complete(tb) => tb \in catalog
           InMap == \A tb \in Tables : Complete(tb) => tableNameVsSchemaMap[tb] # None
<1>1. rivals' = {} /\ Alone' /\ InCatalog' /\ (\A c \in Creators : UnderWay(c)' => Names(c)')
        /\ (mode' = "open" => InMap')
      => Listed' /\ MadeTablesListed'
  BY DEF Listed, MadeTablesListed, Complete
<1>2. overlapped \in BOOLEAN /\ None \notin Inputs
  BY CatalogAssumption DEF TypeOK
<1>3. ASSUME NEW c \in Creators, NEW tb \in Tables, NEW input \in Inputs,
             CreateTable(c, tb, input)
      PROVE  Listed' /\ MadeTablesListed'
  <2>1. ~overlapped /\ mode = "open" /\ \A d \in Creators : ~UnderWay(d)
    BY <1>2, <1>3 DEF CreateTable
  <2>2. rivals = {} /\ InCatalog /\ InMap
    BY <2>1 DEF Listed, MadeTablesListed, Complete
  <2>3. /\ tableNameVsSchemaMap' = [tableNameVsSchemaMap EXCEPT ![tb] = input]
        /\ made' = [made EXCEPT ![tb] = None] /\ catalog' = catalog
        /\ rivals' = {} /\ lost' = [lost EXCEPT ![tb] = {}]
        /\ DOMAIN tableNameVsSchemaMap = Tables /\ DOMAIN made = Tables /\ DOMAIN lost = Tables
    BY <1>3, <2>1, <2>2 DEF CreateTable, TypeOK
  <2>4. /\ call'[c].names = Present(tableNameVsSchemaMap')
        /\ call'[c].table = tb /\ call'[c].pc = "catalog"
        /\ \A d \in Creators \ {c} : call'[d] = call[d]
    <3> DEFINE new == [pc |-> "catalog", holds |-> FALSE, table |-> tb, input |-> input,
                       names |-> NamesToStore([tableNameVsSchemaMap EXCEPT ![tb] = input], tb)]
    <3>1. call' = [call EXCEPT ![c] = new] /\ DOMAIN call = Creators
      BY <1>3 DEF CreateTable, TypeOK
    <3>2. /\ new.names = Present(tableNameVsSchemaMap')
          /\ new.table = tb /\ new.pc = "catalog"
      BY <2>3 DEF NamesToStore
    <3> HIDE DEF new
    <3> QED  BY <3>1, <3>2
  <2>5. /\ made'[tb] = None /\ (\A u \in Tables \ {tb} : made'[u] = made[u] /\ lost'[u] = lost[u])
        /\ tableNameVsSchemaMap'[tb] = input
        /\ \A u \in Tables \ {tb} : tableNameVsSchemaMap'[u] = tableNameVsSchemaMap[u]
    BY <2>3
  <2>6. \A u \in Tables : Complete(u)' => u # tb /\ Complete(u)
    BY <2>5 DEF Complete
  <2>7. InMap' /\ InCatalog'
    BY <2>2, <2>3, <2>5, <2>6
  <2>8. \A d \in Creators : UnderWay(d)' => d = c
    BY <2>1, <2>4 DEF UnderWay
  <2>9. \A u \in Tables : tableNameVsSchemaMap'[u] # None => u \in call'[c].names
    BY <2>4 DEF Present
  <2>10. Names(c)'
    BY <1>2, <2>4, <2>5, <2>7, <2>9 DEF Names
  <2> QED  BY <1>1, <2>3, <2>7, <2>8, <2>10
<1>4. ASSUME NEW c \in Creators,
             PutLocks(c) \/ PutConflicts(c) \/ PutCommits(c) \/ PutFails(c)
      PROVE  Listed' /\ MadeTablesListed'
  <2> DEFINE tb == call[c].table
  <2>1. StoresNothing(c) \/ StoresValue(c)
    BY <1>4, PutSteps
  <2>2. /\ UnderWay(c) /\ mode = "open" /\ mode' = mode
        /\ overlapped' = overlapped
        /\ tableNameVsSchemaMap' = tableNameVsSchemaMap
        /\ tb \in Tables /\ call[c].input \in Inputs
        /\ call[c].pc \in PutPcs
    BY <2>1 DEF StoresNothing, StoresValue, CallsOpen, UnderWay, TypeOK, CallType
  <2>3. rivals = {} /\ Alone /\ InCatalog /\ InMap /\ Names(c)
    BY <2>2 DEF Listed, MadeTablesListed, Complete
  <2>4. ASSUME call' = [call EXCEPT ![c].holds = TRUE], UNCHANGED <<catalog, history>>
        PROVE  Listed' /\ MadeTablesListed'
    <3>1. call \in [Creators -> CallType]
      BY DEF TypeOK
    <3>2. /\ \A d \in Creators : call'[d].pc = call[d].pc
          /\ call'[c].table = tb /\ call'[c].names = call[c].names
      BY <2>4, <3>1 DEF CallType
    <3>3. \A d \in Creators : UnderWay(d)' => d = c
      BY <2>2, <2>3, <3>2 DEF UnderWay
    <3>4. UNCHANGED <<catalog, made, rivals, lost>>
      BY <2>4 DEF history
    <3>5. Names(c)' /\ InCatalog' /\ InMap'
      BY <2>2, <2>3, <3>2, <3>4 DEF Names, Complete
    <3> QED  BY <1>1, <2>3, <3>3, <3>4, <3>5
  <2>5. ASSUME NEW stored \in BOOLEAN, Proceed(c, stored),
               stored => Store(c), ~stored => UNCHANGED catalog
        PROVE  Listed' /\ MadeTablesListed'
    <3>1. /\ \A d \in Creators \ {c} : call'[d] = call[d]
          /\ \/ call'[c] = Idle
             \/ /\ call'[c].pc = NextPc(c)
                /\ call'[c].table = tb
                /\ call'[c].names = call[c].names
      BY <2>2, <2>5, ProceedCalls
    <3>2. /\ made' \in [Tables -> Inputs \cup {None}] /\ rivals' = {}
          /\ \A u \in Tables \ {tb} : made'[u] = made[u] /\ lost'[u] = lost[u]
          /\ IF call[c].pc = "indexes" THEN made'[tb] = call[c].input /\ call'[c] = Idle
                                       ELSE made'[tb] = made[tb]
          /\ lost'[tb] = IF stored THEN lost[tb] ELSE lost[tb] \cup {call[c].pc}
      BY <2>2, <2>3, <2>5, ProceedHistory
    <3>3. \A d \in Creators : UnderWay(d)' => d = c
      BY <2>2, <2>3, <3>1 DEF UnderWay
    <3>4. catalog' = IF stored /\ call[c].pc = "catalog" THEN call[c].names ELSE catalog
      BY <2>5 DEF Store
    <3>5. made[tb] = None
      <4>1. tb \notin rivals
        BY <2>3
      <4> QED  BY <2>2, <4>1 DEF AloneCalls
    <3>6. \A u \in Tables : Complete(u)' =>
            Complete(u) \/ (u = tb /\ lost[tb] = {} /\ stored /\ call[c].pc = "indexes")
      BY <3>2, <3>5 DEF Complete
    <3>7. InCatalog'
      <4> SUFFICES ASSUME NEW u \in Tables, Complete(u)' PROVE u \in catalog'
        OBVIOUS
      <4>1. CASE Complete(u)
        BY <2>3, <3>4, <4>1 DEF Names
      <4>2. CASE u = tb /\ lost[tb] = {} /\ stored /\ call[c].pc = "indexes"
        BY <2>3, <3>4, <4>2 DEF Names
      <4> QED  BY <3>6, <4>1, <4>2
    <3>8. InMap'
      <4> SUFFICES ASSUME NEW u \in Tables, Complete(u)' PROVE tableNameVsSchemaMap[u] # None
        BY <2>2
      <4>1. CASE Complete(u)
        BY <2>3, <4>1
      <4>2. CASE u = tb /\ lost[tb] = {}
        <5>1. Sound(tb)
          BY <2>3, <4>2 DEF Sound
        <5>2. tableNameVsSchemaMap[tb] = call[c].input
          BY <2>2, <5>1 DEF SoundCalls
        <5> QED  BY <1>2, <2>2, <4>2, <5>2
      <4> QED  BY <3>6, <4>1, <4>2
    <3>9. ASSUME UnderWay(c)' PROVE Names(c)'
      <4>1. /\ call'[c].pc = NextPc(c) /\ call[c].pc # "indexes"
            /\ call'[c].table = tb
            /\ call'[c].names = call[c].names
        <5>1. Idle.pc = "idle"
          BY DEF Idle
        <5> QED  BY <3>1, <3>9, <5>1 DEF UnderWay, NextPc
      <4>2. \A u \in Tables : Complete(u)' => u \in call[c].names
        BY <2>3, <3>6, <4>1 DEF Names
      <4>3. lost'[tb] = {} => stored /\ lost[tb] = {}
        BY <3>2
      <4>4. lost'[tb] = {} => tb \in catalog'
        BY <2>3, <3>4, <4>3 DEF Names
      <4>5. tb \in call[c].names
        BY <2>3 DEF Names
      <4> QED  BY <4>1, <4>2, <4>4, <4>5 DEF Names
    <3> QED  BY <1>1, <3>2, <3>3, <3>7, <3>8, <3>9
  <2>6. CASE StoresNothing(c)
    BY <2>4, <2>5, <2>6 DEF StoresNothing
  <2>7. CASE StoresValue(c)
    BY <2>5, <2>7 DEF StoresValue
  <2> QED  BY <2>1, <2>6, <2>7
<1>5. CASE Crash
  <2>1. /\ overlapped' = overlapped /\ mode' = "down"
        /\ UNCHANGED <<catalog, made, rivals, lost>>
        /\ \A c \in Creators : ~UnderWay(c)'
    BY <1>5 DEF Crash, Idle, UnderWay, history
  <2>2. rivals = {} /\ InCatalog
    BY <2>1 DEF Listed
  <2>3. InCatalog'
    BY <2>1, <2>2 DEF Complete
  <2> QED  BY <1>1, <2>1, <2>2, <2>3
<1>6. CASE NewDB
  <2>1. /\ overlapped' = overlapped /\ UNCHANGED <<catalog, made, rivals, lost, call>>
        /\ mode = "down"
    BY <1>6 DEF NewDB, history
  <2>2. rivals = {} /\ InCatalog /\ \A c \in Creators : ~UnderWay(c) /\ ~UnderWay(c)'
    BY <2>1 DEF Listed, CallsOpen, UnderWay
  <2>3. InCatalog' /\ \A u \in Tables : Complete(u)' <=> Complete(u)
    BY <2>1, <2>2 DEF Complete
  <2>4. ASSUME mode' = "open" PROVE InMap'
    <3> SUFFICES ASSUME NEW tb \in Tables, Complete(tb)
                 PROVE  tableNameVsSchemaMap'[tb] # None
      BY <2>3
    <3>1. tableNameVsSchemaMap'[tb] = deserialised(tb)
      BY <1>6, <2>2, <2>4 DEF NewDB
    <3>2. made[tb] # None /\ Sound(tb)
      BY <2>2 DEF Complete, Sound
    <3> QED  BY <3>1, <3>2, MadeIsReadable
  <2> QED  BY <1>1, <2>1, <2>2, <2>3, <2>4
<1>7. CASE UNCHANGED vars
  BY <1>7 DEF vars, history, Listed, MadeTablesListed, UnderWay, Names, Complete
<1> QED  BY <1>3, <1>4, <1>5, <1>6, <1>7 DEF Next

-------------------------------------------------------------------------------
\* Every value of the catalog's state has its type: what createTable, db.Put
\* and NewDB assign (db/create.go, db/db.go).
THEOREM CatalogTypeCorrect == Spec => []TypeOK
<1>1. RestoreInv => TypeOK
  BY DEF RestoreInv
<1> QED  BY <1>1, RestoreInvariant, PTL

\* createTable and NewDB: a table whose last createTable ran to its end, with no
\* rival on the same table and with its schema and indexes stored, is shown as
\* it was created, before and after any number of crashes, for any statements,
\* and whatever the calls of other tables did.
THEOREM CreatedTablesRestored == Spec => []RestoredAsCreated
<1>1. RestoreInv => RestoredAsCreated
  BY DEF RestoreInv
<1> QED  BY <1>1, RestoreInvariant, PTL

\* NewDB fails to read the catalog only over a table whose last createTable was
\* cut short or returned an error, had a rival, or dropped the error of a Put
\* of its schema or indexes that stored nothing.
THEOREM OpensUnlessDisturbed == Spec => []RefusedOnlyIfDisturbed
<1>1. RestoreInv => RefusedOnlyIfDisturbed
  BY DEF RestoreInv
<1> QED  BY <1>1, RestoreInvariant, PTL

\* The list of table names that every createTable writes anew loses no table
\* that was made and stored, as long as no two createTables overlap.
THEOREM NoTableForgotten == Spec => []MadeTablesListed
<1>1. Init => ListInv
  <2> SUFFICES ASSUME Init PROVE Listed /\ MadeTablesListed
    BY RestoreInitially DEF ListInv
  <2>1. \A c \in Creators : ~UnderWay(c)
    BY DEF Init, Idle, UnderWay
  <2> QED  BY <2>1 DEF Init, Listed, MadeTablesListed, Complete
<1>2. ListInv /\ RestoreInv' /\ [Next]_vars => ListInv'
  BY ListStep
<1>3. ListInv => MadeTablesListed
  BY DEF ListInv
<1> QED  BY <1>1, <1>2, <1>3, RestoreInvariant, PTL DEF Spec
===============================================================================
