------------------------------- MODULE SqlParser -------------------------------
(***************************************************************************)
(* The SQL parser (sql_parser/parser.go) on the tokens of its tokeniser    *)
(* (sql_parser/tokeniser.go), one step per consume.  The input is not      *)
(* fixed beforehand: NextToken picks any token, so one behaviour is the    *)
(* parse of one input.                                                     *)
(*                                                                         *)
(* A token is a string.  Each keyword stands for itself, each symbol is    *)
(* called by its name; "op" is a run of <, > and =; "lower" is a keyword   *)
(* not in capitals, which is of type KEYWORD and equals none;              *)
(* "unsupported" is a character that is none of these: the tokeniser       *)
(* returns IDENTIFIER "" for it and does not move.                         *)
(***************************************************************************)
EXTENDS Naturals, Sequences, SequencesExt

CONSTANTS Names,               \* identifiers that are no type
          ColumnsSelectLimit,  \* 10 in the code
          ConditionsLimit,     \* 11 in the code
          MaxTokens,           \* bound on the tokens of an input
          MaxItems             \* bound on the items kept of a list

\* An input has at most MaxItems items with the tokens that an INSERT needs
\* around them.
ASSUME ParserAssumption == /\ MaxItems \in Nat
                           /\ ColumnsSelectLimit \in 1 .. MaxItems
                           /\ ConditionsLimit \in 1 .. MaxItems
                           /\ MaxTokens \in 1 .. MaxItems + 6

Keywords == {"CREATE", "TABLE", "PRIMARY", "KEY", "INSERT", "INTO", "VALUES",
             "SELECT", "FROM", "WHERE", "AND", "lower"}
Symbols  == {"open", "close", "comma", "semicolon", "star"}
Types    == {"INT"}

\* What has type IDENTIFIER.
Identifiers == Names \cup Types \cup {"unsupported"}

Tokens == Keywords \cup Symbols \cup Identifiers \cup {"op", "eof"}

\* The tokeniser returns a keyword, a symbol, a type as such, never as a name.
ASSUME NamesAssumption ==
  Names \cap (Keywords \cup Symbols \cup Types \cup {"unsupported", "op", "eof"}) = {}

\* A name that is not set: the empty string.
Unset == ""

VARIABLES
  read,       \* the tokens returned by NextToken; the last is currentToken
  pc,         \* the statement about to be executed
  statement,  \* which Parse function was called
  tableName,
  items,      \* columnDetails, columnValues, or columnsRequired
  pkColumn,   \* Unset if there is none
  conditions  \* queryConditions: column and value of each

vars == <<read, pc, statement, tableName, items, pkColumn, conditions>>

currentToken == read[Len(read)]

-------------------------------------------------------------------------------
(***************************************************************************)
(* consume(type, value) at each place: the tokens that it takes, and where *)
(* the parser goes then.                                                   *)
(***************************************************************************)
Expected ==
  [CREATE       |-> {"CREATE"},   TABLE       |-> {"TABLE"},
   createName   |-> Identifiers,  createOpen  |-> {"open"},
   columnComma  |-> {"comma"},    columnName  |-> Identifiers,
   columnType   |-> Identifiers,  PRIMARY     |-> {"PRIMARY"},
   KEY          |-> {"KEY"},      pkOpen      |-> {"open"},
   pkName       |-> Identifiers,  pkClose     |-> {"close"},
   createClose  |-> {"close"},
   INSERT       |-> {"INSERT"},   INTO        |-> {"INTO"},
   insertName   |-> Identifiers,  VALUES      |-> {"VALUES"},
   insertOpen   |-> {"open"},     valueComma  |-> {"comma"},
   value        |-> Identifiers,  insertClose |-> {"close"},
   SELECT       |-> {"SELECT"},   fieldComma  |-> {"comma"},
   field        |-> Identifiers \cup {"star"},  FROM |-> {"FROM"},
   selectName   |-> Identifiers,  WHERE       |-> {"WHERE"},
   AND          |-> {"AND"},      condColumn  |-> Identifiers,
   condOp       |-> {"op"},       condValue   |-> Identifiers,
   semicolon    |-> {"semicolon"}]

Following ==
  [CREATE       |-> "TABLE",       TABLE      |-> "createName",
   createName   |-> "createOpen",  createOpen |-> "columns",
   columnComma  |-> "column",      columnName |-> "columnType",
   columnType   |-> "columns",     PRIMARY    |-> "KEY",
   KEY          |-> "pkOpen",      pkOpen     |-> "pkName",
   pkName       |-> "pkClose",     pkClose    |-> "columns",
   createClose  |-> "accepted",
   INSERT       |-> "INTO",        INTO       |-> "insertName",
   insertName   |-> "VALUES",      VALUES     |-> "insertOpen",
   insertOpen   |-> "row",         valueComma |-> "value",
   value        |-> "row",         insertClose |-> "accepted",
   SELECT       |-> "fields",      fieldComma |-> "fieldLimit",
   field        |-> "fields",      FROM       |-> "selectName",
   selectName   |-> "afterTable",  WHERE      |-> "conditions",
   AND          |-> "condLimit",   condColumn |-> "condOp",
   condOp       |-> "condValue",   condValue  |-> "conditions",
   semicolon    |-> "accepted"]

ConsumePcs == DOMAIN Expected
BranchPcs  == {"columns", "column", "row", "fields", "fieldLimit",
               "afterTable", "conditions", "condLimit"}
Ended      == {"accepted", "rejected"}

TypeOK ==
  /\ read \in Seq(Tokens) /\ Len(read) \in 1 .. MaxTokens + 1
  /\ pc \in ConsumePcs \cup BranchPcs \cup Ended
  /\ statement \in {"CREATE", "INSERT", "SELECT"}
  /\ tableName \in Identifiers \cup {Unset}
  /\ items \in Seq(Identifiers \cup {"star"}) /\ Len(items) <= MaxItems
  /\ pkColumn \in Identifiers \cup {Unset}
  /\ conditions \in Seq(Seq(Identifiers)) /\ Len(conditions) <= MaxItems

\* NewParser, and one of the three Parse functions.
Init ==
  /\ read \in { <<token>> : token \in Tokens }
  /\ statement \in {"CREATE", "INSERT", "SELECT"}
  /\ pc = statement
  /\ tableName = Unset /\ items = <<>> /\ pkColumn = Unset /\ conditions = <<>>

-------------------------------------------------------------------------------
\* The tokens that NextToken may return: at the end of the input, and at an
\* unsupported character, it stays where it is.
NextToken ==
  CASE currentToken \in {"eof", "unsupported"} -> {currentToken}
    [] currentToken \notin {"eof", "unsupported"} /\ Len(read) >= MaxTokens -> {"eof"}
    [] OTHER -> Tokens

Advance ==
  \E token \in NextToken :
    read' = IF token = currentToken /\ token \in {"eof", "unsupported"}
            THEN read ELSE Append(read, token)

\* Appending to a list of the syntax tree, up to the bound.
Appended(list, item) == IF Len(list) < MaxItems THEN Append(list, item) ELSE list

\* A slip (see PROJECT.json): the name is taken after consume, not before.
RecordedLate ==
  /\ tableName' = IF pc \in {"createName", "insertName", "selectName"}
                  THEN read'[Len(read')] ELSE tableName
  /\ UNCHANGED <<items, pkColumn, conditions>>

\* The identifier that a consume leaves in the syntax tree.
Recorded ==
  /\ tableName' = IF pc \in {"createName", "insertName", "selectName"}
                  THEN currentToken ELSE tableName
  /\ items' = IF pc \in {"columnName", "value", "field"}
              THEN Appended(items, currentToken) ELSE items
  /\ pkColumn' = IF pc = "pkName" THEN currentToken ELSE pkColumn
  /\ conditions' =
       CASE pc = "condColumn" -> Appended(conditions, <<currentToken>>)
         [] pc = "condValue"  ->
              [conditions EXCEPT ![Len(conditions)] = Append(@, currentToken)]
         [] OTHER -> conditions

\* consume, when the token is the expected one.  getDataTypeFromString
\* follows the one of a column's type.
Consume ==
  /\ pc \in ConsumePcs
  /\ currentToken \in Expected[pc]
  /\ Advance
  /\ Recorded
  /\ pc' = IF pc = "columnType" /\ currentToken \notin Types THEN "rejected"
                                                             ELSE Following[pc]
  /\ UNCHANGED statement

\* A slip (see PROJECT.json): the end of the input inside a row is no error.
SyntaxErrorDropped ==
  /\ pc \in ConsumePcs
  /\ currentToken \notin Expected[pc]
  /\ pc' = IF pc = "value" /\ currentToken = "eof" THEN "row" ELSE "rejected"
  /\ UNCHANGED <<read, statement, tableName, items, pkColumn, conditions>>

SyntaxError ==
  /\ pc \in ConsumePcs
  /\ currentToken \notin Expected[pc]
  /\ pc' = "rejected"
  /\ UNCHANGED <<read, statement, tableName, items, pkColumn, conditions>>

\* A slip (see PROJECT.json): a primary key that is no column is let through.
AtColumnsPkUnchecked ==
  CASE currentToken = "close" ->
         IF items = <<>> THEN "rejected" ELSE "createClose"
    [] currentToken = "comma" -> "columnComma"
    [] OTHER -> "column"

\* ParseCreateTable's loop and what follows it.
AtColumns ==
  CASE currentToken = "close" ->
         IF items = <<>> \/ (pkColumn # Unset /\ ~Contains(items, pkColumn))
         THEN "rejected" ELSE "createClose"
    [] currentToken = "comma" -> "columnComma"
    [] OTHER -> "column"
AtColumn == IF currentToken = "PRIMARY" THEN "PRIMARY" ELSE "columnName"

\* ParseInsertIntoTable's loop.
AtRow ==
  CASE currentToken = "close" -> "insertClose"
    [] currentToken = "comma" -> "valueComma"
    [] OTHER -> "value"

\* A slip (see PROJECT.json): the limit is tested one column too early.
EarlyFieldLimit ==
  IF Len(items) + 1 = ColumnsSelectLimit THEN "rejected" ELSE "field"

\* parseColumnsFromSelectQuery's loop, and its limit.
AtFields ==
  CASE currentToken = "FROM" -> IF items = <<>> THEN "rejected" ELSE "FROM"
    [] currentToken = "comma"    -> "fieldComma"
    [] OTHER                 -> "fieldLimit"
AtFieldLimit == IF Len(items) = ColumnsSelectLimit THEN "rejected" ELSE "field"

AtAfterTable == IF currentToken = "WHERE" THEN "WHERE" ELSE "semicolon"

\* parseQueryConditionsFromSelectQuery's loop, and its limit.
AtConditions ==
  CASE currentToken = "semicolon" /\ conditions = <<>> -> "rejected"
    [] currentToken = "semicolon" /\ conditions # <<>> -> "semicolon"
    [] currentToken # "semicolon" /\ conditions = <<>> -> "condLimit"
    [] OTHER -> "AND"
AtCondLimit ==
  IF Len(conditions) = ConditionsLimit THEN "rejected" ELSE "condColumn"

Branch ==
  /\ pc \in BranchPcs
  /\ pc' = CASE pc = "columns"    -> AtColumns
             [] pc = "column"     -> AtColumn
             [] pc = "row"        -> AtRow
             [] pc = "fields"     -> AtFields
             [] pc = "fieldLimit" -> AtFieldLimit
             [] pc = "afterTable" -> AtAfterTable
             [] pc = "conditions" -> AtConditions
             [] pc = "condLimit"  -> AtCondLimit
  /\ UNCHANGED <<read, statement, tableName, items, pkColumn, conditions>>

Next == Consume \/ SyntaxError \/ Branch

Spec == Init /\ [][Next]_vars

\* The parser runs until it returns.
FairSpec == Spec /\ WF_vars(Next)

-------------------------------------------------------------------------------
(***************************************************************************)
(* The language of the tests (sql_parser/parser_test.go) and of README.md, *)
(* as a set of sentences with what each one means.  An item of a list may  *)
(* or may not have one comma in front of it.  An INSERT gives all values:  *)
(* the form with a list of columns, which the comment on                   *)
(* ParseInsertIntoTable calls the supported one, is none of its sentences  *)
(* (InsertWithColumnsTaken in MCSqlParser states what that comment says).  *)
(***************************************************************************)
Idents == Names \cup Types

Lists(S, n) == UNION { [1 .. m -> S] : m \in 0 .. n }

Item(idents) == [comma : BOOLEAN, name : idents]
Comma(item) == IF item.comma THEN <<"comma">> ELSE <<>>
ItemTokens(item) == Comma(item) \o <<item.name>>
NamesOf(list) == [i \in DOMAIN list |-> list[i].name]

Sentence(kind, tokens, tb, list, pk, conds) ==
  [statement |-> kind, tokens |-> tokens, tableName |-> tb, items |-> list,
   pkColumn |-> pk, conditions |-> conds]

InsertSentence(tb, list) ==
  Sentence("INSERT",
           <<"INSERT", "INTO", tb, "VALUES", "open">>
             \o FlattenSeq([i \in DOMAIN list |-> ItemTokens(list[i])])
             \o <<"close">>,
           tb, NamesOf(list), Unset, <<>>)

InsertSentences ==
  { InsertSentence(tb, list) : tb \in Idents, list \in Lists(Item(Idents), MaxItems) }

\* A column, or a PRIMARY KEY clause.
Element == [comma : BOOLEAN, name : Idents, pk : BOOLEAN]
ElementTokens(e) ==
  Comma(e) \o IF e.pk THEN <<"PRIMARY", "KEY", "open", e.name, "close">>
                     ELSE <<e.name, "INT">>

\* The columns, or the names in PRIMARY KEY clauses.
NamesIn(list, pk) ==
  FlattenSeq([i \in DOMAIN list |-> IF list[i].pk = pk THEN <<list[i].name>> ELSE <<>>])

CreateSentence(tb, list) ==
  Sentence("CREATE",
           <<"CREATE", "TABLE", tb, "open">>
             \o FlattenSeq([i \in DOMAIN list |-> ElementTokens(list[i])])
             \o <<"close">>,
           tb,
           NamesIn(list, FALSE),
           LET pks == NamesIn(list, TRUE) IN IF pks = <<>> THEN Unset ELSE Last(pks),
           <<>>)

CreateSentences ==
  { CreateSentence(tb, list)
      : tb \in Idents, list \in Lists(Element, (MaxTokens - 5) \div 2) }

\* At least one column, and the primary key is one of them.
SoundCreateSentences ==
  { s \in CreateSentences :
      s.items # <<>> /\ (s.pkColumn = Unset \/ Contains(s.items, s.pkColumn)) }

ConditionTokens(conds) ==
  FlattenSeq([i \in DOMAIN conds |->
                <<IF i = 1 THEN "WHERE" ELSE "AND", conds[i][1], "op", conds[i][2]>>])

SelectSentence(tb, list, conds) ==
  Sentence("SELECT",
           <<"SELECT">>
             \o FlattenSeq([i \in DOMAIN list |-> ItemTokens(list[i])])
             \o <<"FROM", tb>> \o ConditionTokens(conds) \o <<"semicolon">>,
           tb, NamesOf(list), Unset, conds)

\* At least one field, and no conditions or some.
FieldLists     == Lists(Item(Idents \cup {"star"}), ColumnsSelectLimit) \ {<<>>}
ConditionLists == Lists(Idents \X Idents, ConditionsLimit)

SelectSentences ==
  { SelectSentence(tb, list, conds)
      : tb \in Idents, list \in FieldLists, conds \in ConditionLists }

Sentences == InsertSentences \cup SoundCreateSentences \cup SelectSentences

Beginnings ==
  { <<s.statement, SubSeq(s.tokens, 1, Min({n, Len(s.tokens)}))>>
      : n \in 1 .. MaxTokens, s \in Sentences }

-------------------------------------------------------------------------------
(***************************************************************************)
(* Properties                                                              *)
(***************************************************************************)

\* What the parser accepts is a sentence, and the syntax tree it returns is
\* that sentence's; what follows the sentence is not looked at.
AcceptsSentences ==
  pc = "accepted" =>
    Sentence(statement, Front(read), tableName, items, pkColumn, conditions)
      \in Sentences

\* An error is returned only when no sentence of this language starts with the
\* tokens read.
RejectsOnlyOthers == pc = "rejected" => <<statement, read>> \notin Beginnings

\* Every Parse function returns, at the end of the input and at a character
\* the tokeniser does not move over too.  The exception is the row of an
\* INSERT, where such a character is an endless list of empty values.
ParseEnds == <>(pc \in Ended \/ (pc = "row" /\ currentToken = "unsupported"))
===============================================================================
