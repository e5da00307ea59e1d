------------------------------- MODULE Onboard -------------------------------
(***************************************************************************)
(* The pure part of onboarding: the manifest suggested for a schema        *)
(* (internal/onboard/generate.go) and what a manifest must satisfy before  *)
(* it may become live (internal/manifest, Validate).                       *)
(*                                                                         *)
(* A name of the database is a sequence of parts, lower-case words and    *)
(* separators; a key of the manifest is the sequence of its words, which   *)
(* the program writes with "_" between them.  The name, label and database *)
(* block of a manifest never change here and are left out, and so is the   *)
(* order of its tools and of what they select: a manifest is a record of   *)
(* its entities, by key, and the set of its tools.                         *)
(***************************************************************************)
EXTENDS Places, Integers, FiniteSets, FiniteSetsExt, Sequences, SequencesExt, Functions

CONSTANTS
    Schema,         \* the tables, in the order Introspect lists them
    Part,           \* what names are made of: words, and what separates them
    Separator,      \* the parts that are not made of [a-z0-9]
    itoa            \* how the numbers that tell keys apart are written

Name == Seq(Part)
Key == Seq(Part)

Table == ToSet(Schema)
TableColumn == [name : Name, mask : STRING, format : STRING]

\* Two tables of a database have different identities, and no two numbers are
\* written alike.
ASSUME OnboardAssumption ==
    /\ {"x", "count", "list"} \subseteq Part
    /\ Schema \in Seq([id : STRING, name : Name, columns : Seq(TableColumn)])
    /\ \A i, j \in DOMAIN Schema : Schema[i].id = Schema[j].id => i = j
    /\ 2 .. Len(Schema) + 1 \subseteq DOMAIN itoa
    /\ \A t \in Table : 2 .. Len(t.columns) + 1 \subseteq DOMAIN itoa
    /\ DOMAIN itoa \subseteq Nat \ {0, 1}
    /\ IsInjective(itoa) /\ \A i \in DOMAIN itoa : itoa[i] \in Part

-----------------------------------------------------------------------------
(* Names.                                                                  *)

\* The words of a name, in their order.
slug(name) == Picked(name, {i \in DOMAIN name : name[i] \notin Separator})

numbered(base, i) == Append(base, itoa[i])

secondKey(slugged, used) ==
    IF slugged \notin used THEN slugged ELSE numbered(slugged, 2)
uniqueKey(slugged, used) ==
    LET base == IF slugged = <<>> THEN <<"x">> ELSE slugged
    IN  IF base \notin used
        THEN base
        ELSE numbered(base, Min({i \in DOMAIN itoa : numbered(base, i) \notin used}))

\* The keys of the named things at some places: each avoids those before it.
Keys(named, places) ==
    LET key[i \in places] ==
            uniqueKey(slug(named[i].name), {key[j] : j \in {j \in places : j < i}})
    IN  key

-----------------------------------------------------------------------------
(* Suggest.                                                                *)

\* A mask found in the column's name goes before the format of its type.
exprFor(column) == IF column.mask # "" THEN column.mask ELSE column.format

Fields(columns) ==
    LET key == Keys(columns, DOMAIN columns)
    IN  [f \in Range(key) |->
            LET column == columns[CHOOSE i \in DOMAIN columns : key[i] = f]
            IN  [column |-> column.name, expression |-> exprFor(column)]]

\* Their names are written count_<entity> and list_<entity>.
Tools(entity, fields) ==
    { [name |-> <<"count", entity>>, kind |-> "count", entity |-> entity,
       select |-> {}, filters |-> {}],
      [name |-> <<"list", entity>>, kind |-> "query", entity |-> entity,
       select |-> fields, filters |-> {}] }

\* No choice is every table; one without columns offers nothing to select.
Chosen(tables) ==
    {i \in DOMAIN Schema : /\ tables = {} \/ Schema[i].id \in tables
                           /\ Schema[i].columns # <<>>}

Suggest(tables) ==
    LET chosen == Chosen(tables)
        key == Keys(Schema, chosen)
    IN  [entities |->
            [e \in Range(key) |->
                LET t == Schema[CHOOSE i \in chosen : key[i] = e]
                IN  [table |-> t.id, fields |-> Fields(t.columns)]],
         tools |->
            UNION {Tools(key[i], DOMAIN Fields(Schema[i].columns)) : i \in chosen}]

-----------------------------------------------------------------------------
(* Validate.                                                               *)

ValidTool(m, t) ==
    /\ t.kind \in {"count", "query"}
    /\ t.entity \in DOMAIN m.entities
    /\ t.select \cup t.filters \subseteq DOMAIN m.entities[t.entity].fields
    /\ t.kind = "query" => t.select # {}

Validate(m) ==
    /\ m.tools # {}
    /\ \A t, u \in m.tools : t.name = u.name => t = u
    /\ \A t \in m.tools : ValidTool(m, t)

ToolNames(m) == {t.name : t \in m.tools}

\* The column a field reads, and the columns the tools of a valid manifest
\* return or compare, as the cloud sees them.
Column(m, ef) == <<m.entities[ef[1]].table, m.entities[ef[1]].fields[ef[2]].column>>

Exposed(m) ==
    UNION {{Column(m, <<t.entity, f>>) : f \in t.select \cup t.filters} : t \in m.tools}

=============================================================================
