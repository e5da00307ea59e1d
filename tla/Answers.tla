------------------------------- MODULE Answers ------------------------------
(***************************************************************************)
(* What a call of a database tool answers: the query that BuildQuery makes *)
(* of the tool and its arguments (internal/connector/mssql/sqlgen.go), the *)
(* rows the database returns for it, and the masks the values go through   *)
(* (internal/expression).  ToolServer has the goroutines and the manifest  *)
(* of the moment; here one goroutine makes one call of any tool, or masks  *)
(* one value of any row, for all inputs up to a size.                      *)
(*                                                                         *)
(* A text is a sequence of characters.  Identifiers and their quoting, the *)
(* operator LIKE, and the layouts of dates and money are left out.         *)
(***************************************************************************)
EXTENDS Places, Integers, Sequences, FiniteSetsExt

CONSTANTS
    Digit, Letter, At, Space, Star,     \* characters
    Name, Column, Datum,    \* of arguments; of a table; what its cells hold
    Table,                  \* the rows
    Limit,                  \* of tools
    defaultLimit, maxLimit, \* rows of a query whose tool has no limit; of any
    NoArg,                  \* no argument, null or ""
    MaxText, MaxFilters     \* bounds of the inputs

Char == Digit \cup Letter \cup {At, Space}

ASSUME CharactersAssumption ==
    Star \notin Char /\ At # Space /\ {At, Space} \cap (Digit \cup Letter) = {}
ASSUME DatumAssumption == Datum \subseteq Int /\ NoArg \notin Datum
ASSUME InputsAssumption ==
    /\ Limit \subseteq Int
    /\ maxLimit \in Nat /\ defaultLimit \in 1 .. maxLimit
    /\ Table \subseteq [Column -> Datum] /\ IsFiniteSet(Table)
    /\ MaxText \in Nat /\ MaxFilters \in Nat

-----------------------------------------------------------------------------
(* internal/expression.                                                    *)

digitsOnly(s) == Picked(s, {i \in DOMAIN s : s[i] \in Digit})
WithoutSpaces(s) == Picked(s, {i \in DOMAIN s : s[i] # Space})
TrimSpace(s) ==
    LET used == {i \in DOMAIN s : s[i] # Space}
    IN  IF used = {} THEN <<>> ELSE SubSeq(s, Min(used), Max(used))

\* The first `head` and the last `tail` characters of a text longer than both.
keepEndsOffByOne(s, head, tail) ==
    [i \in 1 .. Len(s) |->
        IF Len(s) < head + tail \/ (head < i /\ i <= Len(s) - tail) THEN Star ELSE s[i]]
keepEnds(s, head, tail) ==
    [i \in 1 .. Len(s) |->
        IF Len(s) <= head + tail \/ (head < i /\ i <= Len(s) - tail) THEN Star ELSE s[i]]

LastAt(s) == Max({0} \cup {i \in DOMAIN s : s[i] = At})

mask(kind, raw) ==
    LET s == TrimSpace(raw)
    IN  CASE kind \in {"tckn", "id"} -> keepEnds(digitsOnly(s), 3, 2)
          [] kind = "iban"  -> keepEnds(WithoutSpaces(s), 4, 4)
          [] kind = "phone" -> keepEnds(s, 0, 4)
          [] kind = "card"  -> keepEnds(digitsOnly(s), 0, 4)
          [] kind = "email" /\ LastAt(s) > 1 ->
                keepEnds(SubSeq(s, 1, LastAt(s) - 1), 1, 0) \o SubSeq(s, LastAt(s), Len(s))
          [] OTHER -> keepEnds(s, 1, 0)

\* Apply: what the part before the colon says.  "unknown" is any other word.
Applied(word, kind, text) ==
    CASE word = "mask" -> mask(kind, text)
      [] word = "" -> text
      [] OTHER -> mask("default", text)

-----------------------------------------------------------------------------
(* BuildQuery.                                                             *)

Given(args, f) == args[f.name] # NoArg
Missing(tool, args) ==
    \E i \in DOMAIN tool.filters : tool.filters[i].required /\ ~Given(args, tool.filters[i])

\* The loop over the filters takes those that are given: a condition and a
\* parameter for each.  A placeholder @pN is the number N; it names params[N + 1].
GivenFilters(tool, args) ==
    Picked(tool.filters, {i \in DOMAIN tool.filters : Given(args, tool.filters[i])})

ConditionsByPosition(tool, args) ==
    [k \in DOMAIN GivenFilters(tool, args) |->
        LET f == tool.filters[k] IN [column |-> f.column, op |-> f.op, ph |-> k - 1]]
Conditions(tool, args) ==
    [k \in DOMAIN GivenFilters(tool, args) |->
        LET f == GivenFilters(tool, args)[k]
        IN  [column |-> f.column, op |-> f.op, ph |-> k - 1]]

Clamped(limit) ==
    IF limit <= 0 THEN defaultLimit ELSE IF limit > maxLimit THEN maxLimit ELSE limit

BuildQuery(tool, args) ==
    LET given == GivenFilters(tool, args)
        params == [k \in DOMAIN given |-> args[given[k].name]]
    IN  [kind |-> tool.kind, where |-> Conditions(tool, args),
         params |-> IF tool.kind = "query" THEN Append(params, Clamped(tool.limit)) ELSE params,
         top |-> Len(params)]

-----------------------------------------------------------------------------
(* The database, and mssql.Call.                                           *)

Sat(op, cell, value) ==
    CASE op = "=" -> cell = value
      [] op = "!=" -> cell # value
      [] op = ">" -> cell > value
      [] op = ">=" -> cell >= value
      [] op = "<" -> cell < value
      [] op = "<=" -> cell <= value

Selected(q, table) ==
    {row \in table : \A i \in DOMAIN q.where :
        Sat(q.where[i].op, row[q.where[i].column], q.params[q.where[i].ph + 1])}

\* The answers a call may have: SELECT TOP has no ORDER BY.
Answers(q, table) ==
    IF q.kind = "count"
      THEN {Cardinality(Selected(q, table))}
      ELSE {s \in SUBSET Selected(q, table) :
              Cardinality(s) = Min({q.params[q.top + 1], Cardinality(Selected(q, table))})}

-----------------------------------------------------------------------------
(* A call, and a value of its answer.                                      *)

Filter == [name : Name, column : Column, op : {"=", "!=", ">", ">=", "<", "<="}, required : BOOLEAN]
Filters == UNION {[1 .. n -> Filter] : n \in 0 .. MaxFilters}
Tool == [filters : Filters, kind : {"count"}, limit : {0}] \cup
        [filters : Filters, kind : {"query"}, limit : Limit]

Texts == (UNION {[1 .. n -> Char] : n \in 0 .. MaxText}) \cup
         (UNION {[1 .. n -> Digit] : n \in 0 .. 10})
MaskKind == {"tckn", "id", "iban", "phone", "email", "card", "default", "unknown"}

VARIABLES
    step,   \* "asked", "queried", "answered", "refused"; "read", "shown"
    call,   \* the tool and its arguments, or the expression and its value
    query,  \* what BuildQuery made
    answer  \* the number, the rows, or the value shown
callVars == <<step, call, query, answer>>

None == "none"

CallInit ==
    /\ query = None /\ answer = None
    /\ \/ /\ step = "asked"
          /\ call \in [tool : Tool, args : [Name -> Datum \cup {NoArg}]]
       \/ /\ step = "read"
          /\ call \in [word : {"mask", "unknown", ""}, kind : MaskKind, text : Texts]

Ask ==
    /\ step = "asked"
    /\ IF Missing(call.tool, call.args)
         THEN step' = "refused" /\ UNCHANGED query
         ELSE step' = "queried" /\ query' = BuildQuery(call.tool, call.args)
    /\ UNCHANGED <<call, answer>>

Fetch ==
    /\ step = "queried"
    /\ step' = "answered" /\ answer' \in Answers(query, Table)
    /\ UNCHANGED <<call, query>>

Shape ==
    /\ step = "read"
    /\ step' = "shown" /\ answer' = Applied(call.word, call.kind, call.text)
    /\ UNCHANGED <<call, query>>

CallNext == Ask \/ Fetch \/ Shape

CallSpec == CallInit /\ [][CallNext]_callVars

-----------------------------------------------------------------------------
(* Properties.                                                             *)

\* The characters a mask is about, and how many of them it may show.
Secret(kind, s) ==
    CASE kind \in {"tckn", "id", "card"} -> digitsOnly(s)
      [] kind = "iban" -> WithoutSpaces(s)
      [] kind = "email" /\ LastAt(s) > 1 -> SubSeq(s, 1, LastAt(s) - 1)
      [] OTHER -> s
MayShow(kind) ==
    CASE kind \in {"tckn", "id"} -> 5 [] kind = "iban" -> 8
      [] kind \in {"phone", "card"} -> 4 [] OTHER -> 1

\* Whatever the value, its mask never shows all of it: of the characters it is
\* about one at least is hidden, no more are shown than the kind allows, and
\* none that is not there (expression.go:140 and 176: the middle is hidden, a
\* text that is too short all of it).  A word nobody knows masks, too (108).
MaskHides ==
    step = "shown" /\ call.word # "" =>
        LET kind == IF call.word = "mask" THEN call.kind ELSE "default"
            secret == Secret(kind, TrimSpace(call.text))
            shown == {i \in 1 .. Len(secret) : answer[i] # Star}
        IN  /\ Len(answer) >= Len(secret)
            /\ \A i \in shown : answer[i] = secret[i]
            /\ Cardinality(shown) <= MayShow(kind)
            /\ secret # <<>> => Cardinality(shown) < Len(secret)

\* A call answers for the filters it was given, each with its own argument,
\* whichever optional ones were left out: a count counts these rows, and a
\* query returns as many of them as its tool says, the default number if it
\* says none, and never more than the most there may be (sqlgen.go:65-72).
Wanted(row) ==
    \A i \in DOMAIN call.tool.filters :
        LET f == call.tool.filters[i]
        IN  Given(call.args, f) => Sat(f.op, row[f.column], call.args[f.name])
RowsAsked == IF call.tool.limit > 0 THEN call.tool.limit ELSE defaultLimit
AnswerIsExact ==
    step = "answered" =>
        LET wanted == {row \in Table : Wanted(row)}
        IN  IF call.tool.kind = "count"
              THEN answer = Cardinality(wanted)
              ELSE /\ answer \subseteq wanted
                   /\ Cardinality(answer) = Min({RowsAsked, maxLimit, Cardinality(wanted)})
=============================================================================
