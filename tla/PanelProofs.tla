---------------------------- MODULE PanelProofs ------------------------------
(***************************************************************************)
(* Proofs about the panel: the onboarding wizard (Wizard, with the pure    *)
(* part of onboarding in Onboard), for any schema, any names and any       *)
(* manifest it may start from, and its sessions (Session), for any number  *)
(* of tokens and of requests on their way.  The two share nothing.         *)
(***************************************************************************)
EXTENDS Wizard, Session, FiniteSetTheorems, WellFoundedInduction, TLAPS

-----------------------------------------------------------------------------
(* Numbers and sets.                                                       *)

\* A set of numbers that holds one holds a least one.
LEMMA Least ==
    ASSUME NEW T \in SUBSET Nat, T # {}
    PROVE  \E m \in T : \A n \in T : m <= n
<1> DEFINE Below == {0 .. m : m \in T}
<1>1. Below \subseteq FiniteSubsetsOf(Nat) /\ Below # {}
  <2>1. ASSUME NEW m \in T PROVE 0 .. m \in FiniteSubsetsOf(Nat)
      BY FS_Interval DEF FiniteSubsetsOf
  <2> QED
      BY <2>1
<1>2. PICK B \in Below : \A C \in Below : ~ (<<C, B>> \in StrictSubsetOrdering(Nat))
    BY <1>1, FS_StrictSubsetOrderingWellFounded, WFMin
<1>3. PICK m \in T : B = 0 .. m
    OBVIOUS
<1>4. ASSUME NEW n \in T, n < m PROVE FALSE
  <2>1. (0 .. n) \subseteq (0 .. m) /\ (0 .. n) # (0 .. m)
      BY <1>4
  <2>2. <<0 .. n, B>> \in StrictSubsetOrdering(Nat)
      BY <1>3, <2>1 DEF StrictSubsetOrdering
  <2> QED
      BY <1>2, <2>2
<1> QED
    BY <1>4

\* The image of a finite set has at most as many elements.
LEMMA Image ==
    ASSUME NEW f, IsFiniteSet(DOMAIN f)
    PROVE  IsFiniteSet(Range(f)) /\ Cardinality(Range(f)) <= Cardinality(DOMAIN f)
<1> DEFINE g == [x \in DOMAIN f |-> f[x]]
<1>1. g \in Surjection(DOMAIN f, Range(f))
    BY DEF Surjection, Range
<1> QED
    BY <1>1, FS_Surjection

\* A finite set of numbers has a k-th element, for every k up to its size:
\* the places of its elements are all different, so none is left out.
LEMMA Ranked ==
    ASSUME NEW S, IsFiniteSet(S), \A i \in S : i \in Nat, NEW k \in 1 .. Cardinality(S)
    PROVE  \E i \in S : Cardinality(UpTo(S, i)) = k
<1> DEFINE n == Cardinality(S)
           rank == [i \in S |-> Cardinality(UpTo(S, i))]
<1>1. n \in Nat
    BY FS_CardinalityType
<1>2. ASSUME NEW i \in S
      PROVE  rank[i] \in 1 .. n /\ IsFiniteSet(UpTo(S, i))
  <2>1. UpTo(S, i) \in SUBSET S /\ i \in UpTo(S, i)
      BY DEF UpTo
  <2>2. IsFiniteSet(UpTo(S, i)) /\ Cardinality(UpTo(S, i)) <= n
      BY <2>1, FS_Subset
  <2>3. Cardinality(UpTo(S, i)) \in Nat /\ Cardinality(UpTo(S, i)) # 0
      BY <2>1, <2>2, FS_CardinalityType, FS_EmptySet
  <2> QED
      BY <1>1, <2>2, <2>3
<1>3. ASSUME NEW i \in S, NEW j \in S, i < j
      PROVE  rank[i] # rank[j]
  <2>1. UpTo(S, i) \in SUBSET UpTo(S, j) /\ j \in UpTo(S, j) /\ j \notin UpTo(S, i)
      BY <1>3 DEF UpTo
  <2> QED
      BY <1>2, <2>1, FS_Subset
<1> SUFFICES ASSUME \A i \in S : rank[i] # k PROVE FALSE
    OBVIOUS
<1>4. IsFiniteSet((1 .. n) \ {k}) /\ Cardinality((1 .. n) \ {k}) < n
  <2> DEFINE D == 1 .. n
  <2>1. IsFiniteSet(D) /\ Cardinality(D) = n /\ k \in D
      BY <1>1, FS_Interval
  <2> HIDE DEF D
  <2>2. IsFiniteSet(D \ {k}) /\ Cardinality(D \ {k}) = Cardinality(D) - 1
      BY <2>1, FS_RemoveElement
  <2> QED
      BY <1>1, <2>1, <2>2 DEF D
<1>5. rank \in [S -> (1 .. n) \ {k}]
    BY <1>2
<1>6. PICK i, j \in S : i # j /\ rank[i] = rank[j]
  <2> HIDE DEF rank
  <2> QED
      BY <1>4, <1>5, FS_PigeonHole
<1>7. i < j \/ j < i
    BY <1>6
<1> HIDE DEF rank
<1> QED
    BY <1>3, <1>6, <1>7

\* The words of a name are a key.
LEMMA SlugType ==
    ASSUME NEW name \in Name
    PROVE  slug(name) \in Key
<1> DEFINE word == {i \in DOMAIN name : name[i] \notin Separator}
           place(k) == CHOOSE i \in word : Cardinality(UpTo(word, i)) = k
<1>1. (\A j \in word : j \in 1 .. Len(name)) /\ Len(name) \in Nat
    BY DEF Name
<1>2. IsFiniteSet(word) /\ Cardinality(word) \in Nat
  <2> HIDE DEF word
  <2>1. IsFiniteSet(1 .. Len(name))
      BY <1>1, FS_Interval
  <2> QED
      BY <1>1, <2>1, FS_Subset, FS_CardinalityType
<1>3. ASSUME NEW k \in 1 .. Cardinality(word) PROVE name[place(k)] \in Part
  <2>1. place(k) \in word
    <3> HIDE DEF word
    <3> QED
        BY <1>1, <1>2, Ranked
  <2> QED
      BY <2>1 DEF Name
<1>4. [k \in 1 .. Cardinality(word) |-> name[place(k)]] \in Seq(Part)
    <2> HIDE DEF place, word
    <2> QED
    BY <1>2, <1>3
<1> QED
    BY <1>4 DEF slug, Key, Picked

-----------------------------------------------------------------------------
(* Keys.                                                                   *)

\* Enough numbers to tell n names apart.
Enough(n) == 2 .. n + 1 \subseteq DOMAIN itoa

\* A key avoids those used, when numbers are left.
LEMMA UniqueKeyIsFresh ==
    ASSUME NEW slugged \in Key, NEW used, \A k \in used : k \in Key, IsFiniteSet(used),
           NEW n \in Nat, Enough(n), Cardinality(used) < n
    PROVE  uniqueKey(slugged, used) \in Key /\ uniqueKey(slugged, used) \notin used
<1> DEFINE base == IF slugged = <<>> THEN <<"x">> ELSE slugged
           free == {i \in DOMAIN itoa : numbered(base, i) \notin used}
<1>1. base \in Key
  <2>1. <<"x">> \in Seq(Part)
      BY OnboardAssumption
  <2> QED
      BY <2>1 DEF Key
<1>2. ASSUME NEW i \in DOMAIN itoa PROVE numbered(base, i) \in Key
  <2> HIDE DEF base
  <2> QED
      BY <1>1, OnboardAssumption DEF numbered, Key
<1>3. \E i \in 2 .. n + 1 : i \in free
  <2> SUFFICES ASSUME \A i \in 2 .. n + 1 : numbered(base, i) \in used PROVE FALSE
      BY DEF Enough
  <2> HIDE DEF base
  <2> DEFINE f == [i \in 2 .. n + 1 |-> numbered(base, i)]
  <2>1. f \in [2 .. n + 1 -> used]
      OBVIOUS
  <2>2. IsFiniteSet(2 .. n + 1) /\ Cardinality(2 .. n + 1) = n
      BY FS_Interval
  <2>3. PICK x, y \in 2 .. n + 1 : x # y /\ f[x] = f[y]
    <3> HIDE DEF f
    <3> QED
        BY <2>1, <2>2, FS_PigeonHole
  <2>4. Append(base, itoa[x]) = Append(base, itoa[y])
      BY <2>3 DEF numbered
  <2>5. itoa[x] = itoa[y]
      BY <1>1, <2>4, OnboardAssumption DEF Key, Enough
  <2> QED
      BY <2>3, <2>5, OnboardAssumption DEF IsInjective, Enough
<1>4. Min(free) \in free
  <2>1. free \in SUBSET Nat /\ free # {}
      BY <1>3, OnboardAssumption
  <2> HIDE DEF free
  <2> QED
      BY <2>1, Least DEF Min
<1>5. uniqueKey(slugged, used) = IF base \notin used THEN base ELSE numbered(base, Min(free))
    BY DEF uniqueKey
<1> HIDE DEF base, free
<1>6. Min(free) \in DOMAIN itoa /\ numbered(base, Min(free)) \notin used
    BY <1>4 DEF free
<1> QED
    BY <1>1, <1>2, <1>5, <1>6

\* The keys before a place, and the key of the place.
Before(key, places, i) == {key[j] : j \in {j \in places : j < i}}
KeyAt(named, key, places, i) == uniqueKey(slug(named[i].name), Before(key, places, i))

\* The recursion that gives the keys has a solution: each key is made from its
\* name and the keys before it.
LEMMA KeysOneByOne ==
    ASSUME NEW named, NEW n \in Nat, NEW places, \A i \in places : i \in 1 .. n
    PROVE  Keys(named, places) =
                [i \in places |-> KeyAt(named, Keys(named, places), places, i)]
<1> DEFINE P(key) == key = [i \in places |-> KeyAt(named, key, places, i)]
           upto(m) == {i \in places : i <= m}
           Solved(m) == \E key : key = [i \in upto(m) |-> KeyAt(named, key, upto(m), i)]
           T == {m \in 0 .. n : ~ Solved(m)}
<1>1. Solved(0)
  <2>1. upto(0) = {}
      OBVIOUS
  <2> DEFINE key == [i \in {} |-> 0]
  <2>2. key = [i \in {} |-> KeyAt(named, key, {}, i)]
      OBVIOUS
  <2> QED
      BY <2>1, <2>2
<1>2. ASSUME NEW m \in 1 .. n, Solved(m - 1) PROVE Solved(m)
  <2>1. PICK key : key = [i \in upto(m - 1) |-> KeyAt(named, key, upto(m - 1), i)]
      BY <1>2
  <2> DEFINE new == [i \in upto(m) |->
                        IF i = m THEN KeyAt(named, key, upto(m), m) ELSE key[i]]
  <2>2. ASSUME NEW i \in upto(m)
        PROVE  /\ Before(new, upto(m), i) = Before(key, upto(m), i)
               /\ i # m => i \in upto(m - 1) /\ Before(key, upto(m), i) = Before(key, upto(m - 1), i)
    <3>1. \A j : j \in upto(m) /\ j < i => new[j] = key[j]
        OBVIOUS
    <3> HIDE DEF new
    <3>2. i # m => {j \in upto(m) : j < i} = {j \in upto(m - 1) : j < i}
        OBVIOUS
    <3> QED
        BY <3>1, <3>2 DEF Before
  <2>3. ASSUME NEW i \in upto(m) PROVE new[i] = KeyAt(named, new, upto(m), i)
    <3>1. KeyAt(named, new, upto(m), i) = KeyAt(named, key, upto(m), i)
        BY <2>2 DEF KeyAt
    <3>2. i # m => key[i] = KeyAt(named, key, upto(m), i)
        BY <2>1, <2>2 DEF KeyAt
    <3> QED
        BY <3>1, <3>2
  <2>4. new = [i \in upto(m) |-> KeyAt(named, new, upto(m), i)]
      BY <2>3
  <2> QED
      BY <2>4
<1>3. Solved(n)
  <2> SUFFICES ASSUME ~ Solved(n) PROVE FALSE
      OBVIOUS
  <2> HIDE DEF Solved
  <2>1. T \in SUBSET Nat /\ T # {}
      OBVIOUS
  <2>2. PICK m \in T : \A k \in T : m <= k
    <3> HIDE DEF T
    <3> QED
        BY <2>1, Least
  <2> QED
      BY <1>1, <1>2, <2>2
<1>4. \E key : P(key)
  <2>1. upto(n) = places
      OBVIOUS
  <2> QED
      BY <1>3, <2>1
<1>5. Keys(named, places) = CHOOSE key : P(key)
    BY DEF Keys, KeyAt, Before
<1> HIDE DEF P
<1>6. P(Keys(named, places))
    BY <1>4, <1>5
<1> QED
    BY <1>6 DEF P

\* Keys are keys, and no two places get the same.
LEMMA KeysAreUnique ==
    ASSUME NEW named, NEW n \in Nat, Enough(n), NEW places, \A i \in places : i \in 1 .. n,
           \A i \in places : named[i].name \in Name
    PROVE  /\ DOMAIN Keys(named, places) = places
           /\ \A i \in places : Keys(named, places)[i] \in Key
           /\ \A i, j \in places : Keys(named, places)[i] = Keys(named, places)[j] => i = j
<1> DEFINE key == Keys(named, places)
           T == {i \in places : key[i] \notin Key}
<1>1. key = [i \in places |-> KeyAt(named, key, places, i)]
    BY KeysOneByOne
<1> HIDE DEF key
<1>2. ASSUME NEW i \in places, \A j \in places : j < i => key[j] \in Key
      PROVE  key[i] \in Key /\ key[i] \notin Before(key, places, i)
  <2> DEFINE earlier == {j \in places : j < i}
             f == [j \in earlier |-> key[j]]
  <2>1. IsFiniteSet(earlier) /\ Cardinality(earlier) < n
    <3>1. i \in 1 .. n
        OBVIOUS
    <3>2. IsFiniteSet(1 .. i - 1) /\ Cardinality(1 .. i - 1) = i - 1
        BY <3>1, FS_Interval
    <3>3. \A j \in earlier : j \in 1 .. i - 1
        BY <3>1
    <3> HIDE DEF earlier
    <3>4. IsFiniteSet(earlier) /\ Cardinality(earlier) <= i - 1 /\ Cardinality(earlier) \in Nat
        BY <3>2, <3>3, FS_Subset, FS_CardinalityType
    <3> QED
        BY <3>1, <3>4
  <2>2. Before(key, places, i) = Range(f) /\ DOMAIN f = earlier
      BY DEF Before, Range
  <2> HIDE DEF f, earlier
  <2>3. IsFiniteSet(Range(f)) /\ Cardinality(Range(f)) <= Cardinality(earlier)
      BY <2>1, <2>2, Image
  <2>4. /\ IsFiniteSet(Before(key, places, i)) /\ Cardinality(Before(key, places, i)) < n
        /\ \A k \in Before(key, places, i) : k \in Key
    <3>1. \A k \in Before(key, places, i) : k \in Key
        BY <1>2 DEF Before
    <3> QED
        BY <2>1, <2>2, <2>3, <3>1, FS_CardinalityType
  <2>5. slug(named[i].name) \in Key
      BY SlugType
  <2>6. key[i] = uniqueKey(slug(named[i].name), Before(key, places, i))
      BY <1>1 DEF KeyAt
  <2> QED
      BY <2>4, <2>5, <2>6, UniqueKeyIsFresh
<1>3. T = {}
  <2> SUFFICES ASSUME T # {} PROVE FALSE
      OBVIOUS
  <2>1. T \in SUBSET Nat
      OBVIOUS
  <2>2. PICK i \in T : \A j \in T : i <= j
    <3> HIDE DEF T
    <3> QED
        BY <2>1, Least
  <2>3. \A j \in places : j < i => key[j] \in Key
      BY <2>2
  <2> QED
      BY <1>2, <2>3
<1>4. ASSUME NEW i \in places, NEW j \in places, i < j PROVE key[i] # key[j]
    BY <1>2, <1>3, <1>4 DEF Before
<1>5. \A i, j \in places : i = j \/ i < j \/ j < i
    OBVIOUS
<1>6. DOMAIN key = places
    BY <1>1
<1>7. \A i, j \in places : key[i] = key[j] => i = j
    BY <1>4, <1>5
<1> QED
    BY <1>3, <1>6, <1>7 DEF key

-----------------------------------------------------------------------------
(* What is suggested.                                                      *)

\* What Introspect lists.
LEMMA SchemaType ==
    ASSUME NEW i \in DOMAIN Schema
    PROVE  /\ i \in 1 .. Len(Schema) /\ Schema[i] \in Table
           /\ Schema[i].id \in STRING /\ Schema[i].name \in Name
           /\ Schema[i].columns \in Seq(TableColumn)
           /\ Enough(Len(Schema[i].columns))
           /\ \A j \in DOMAIN Schema[i].columns : exprFor(Schema[i].columns[j]) \in Expression
<1> DEFINE Listed == [id : STRING, name : Name, columns : Seq(TableColumn)]
<1>1. Schema \in Seq(Listed)
    BY OnboardAssumption
<1>2. i \in 1 .. Len(Schema) /\ Schema[i] \in Listed
  <2> HIDE DEF Listed
  <2> QED
      BY <1>1
<1>3. Schema[i] \in Table
    BY DEF Table, ToSet
<1> QED
    BY <1>2, <1>3, OnboardAssumption, WizardAssumption DEF Enough

\* Every column has its field, and nothing else has.
LEMMA FieldsAreExact ==
    ASSUME NEW columns \in Seq(TableColumn), Enough(Len(columns)),
           \A i \in DOMAIN columns : exprFor(columns[i]) \in Expression
    PROVE  /\ DOMAIN Fields(columns) \subseteq Key
           /\ Fields(columns) \in [DOMAIN Fields(columns) -> Field]
           /\ {Fields(columns)[f].column : f \in DOMAIN Fields(columns)} =
                {columns[i].name : i \in DOMAIN columns}
           /\ columns # <<>> => DOMAIN Fields(columns) # {}
<1> DEFINE D == DOMAIN columns
           key == Keys(columns, D)
           place(f) == CHOOSE i \in D : key[i] = f
<1>1. Len(columns) \in Nat /\ \A i \in D : i \in 1 .. Len(columns) /\ columns[i] \in TableColumn
    OBVIOUS
<1>2. /\ DOMAIN key = D
      /\ \A i \in D : key[i] \in Key
      /\ \A i, j \in D : key[i] = key[j] => i = j
  <2>1. \A i \in D : columns[i].name \in Name
      BY <1>1 DEF TableColumn
  <2> QED
      BY <1>1, <2>1, KeysAreUnique
<1>3. Fields(columns) =
        [f \in Range(key) |-> [column |-> columns[place(f)].name,
                               expression |-> exprFor(columns[place(f)])]]
    BY DEF Fields
<1> HIDE DEF key
<1>4. Range(key) = {key[i] : i \in D}
    BY <1>2 DEF Range
<1>5. ASSUME NEW i \in D PROVE place(key[i]) = i
    BY <1>2
<1>6. ASSUME NEW i \in D
      PROVE  Fields(columns)[key[i]] = [column |-> columns[i].name, expression |-> exprFor(columns[i])]
  <2> HIDE DEF place
  <2> QED
      BY <1>3, <1>4, <1>5
<1>7. DOMAIN Fields(columns) = {key[i] : i \in D}
    BY <1>3, <1>4
<1> HIDE DEF place, D
<1>8. \A i \in D : columns[i].name \in Name /\ exprFor(columns[i]) \in Expression
    BY <1>1 DEF D, TableColumn
<1> DEFINE F == Fields(columns)
<1>9. /\ DOMAIN F = {key[i] : i \in D} /\ F = [f \in DOMAIN F |-> F[f]]
      /\ \A i \in D : F[key[i]] = [column |-> columns[i].name, expression |-> exprFor(columns[i])]
    BY <1>3, <1>6, <1>7
<1>10. columns # <<>> => D # {}
    BY DEF D
<1> HIDE DEF F
<1>11. DOMAIN F \subseteq Key /\ (columns # <<>> => DOMAIN F # {})
    BY <1>2, <1>9, <1>10 DEF D
<1>12. ASSUME NEW i \in D PROVE F[key[i]] \in Field /\ F[key[i]].column = columns[i].name
  <2>1. F[key[i]] = [column |-> columns[i].name, expression |-> exprFor(columns[i])]
      BY <1>9
  <2> QED
      BY <1>8, <2>1 DEF Field
<1>13. F \in [DOMAIN F -> Field]
    BY <1>9, <1>12
<1>14. {F[f].column : f \in DOMAIN F} = {columns[i].name : i \in D}
    BY <1>9, <1>12
<1> QED
    BY <1>11, <1>13, <1>14 DEF D, F

\* The keys of the tables that are chosen, and the fields of each.
EntityKey(tables) == Keys(Schema, Chosen(tables))
EntityFields(i) == Fields(Schema[i].columns)

\* The entities of a suggestion are the tables that are chosen.
LEMMA SuggestedEntities ==
    ASSUME NEW tables
    PROVE  /\ \A i \in Chosen(tables) : EntityKey(tables)[i] \in Key
           /\ \A i, j \in Chosen(tables) : EntityKey(tables)[i] = EntityKey(tables)[j] => i = j
           /\ DOMAIN Suggest(tables).entities = {EntityKey(tables)[i] : i \in Chosen(tables)}
           /\ \A i \in Chosen(tables) :
                Suggest(tables).entities[EntityKey(tables)[i]] =
                    [table |-> Schema[i].id, fields |-> EntityFields(i)]
<1> DEFINE chosen == Chosen(tables)
           key == EntityKey(tables)
           place(e) == CHOOSE i \in chosen : key[i] = e
<1>1. /\ DOMAIN key = chosen
      /\ \A i \in chosen : key[i] \in Key
      /\ \A i, j \in chosen : key[i] = key[j] => i = j
  <2>1. Len(Schema) \in Nat /\ \A i \in chosen : i \in 1 .. Len(Schema) /\ Schema[i].name \in Name
      BY OnboardAssumption, SchemaType DEF Chosen
  <2>2. Enough(Len(Schema))
      BY OnboardAssumption DEF Enough
  <2> QED
      BY <2>1, <2>2, KeysAreUnique DEF EntityKey
<1>2. Suggest(tables).entities =
        [e \in Range(key) |-> [table |-> Schema[place(e)].id,
                               fields |-> EntityFields(place(e))]]
    BY DEF Suggest, EntityKey, EntityFields
<1> HIDE DEF key, chosen
<1>3. Range(key) = {key[i] : i \in chosen}
    BY <1>1 DEF Range
<1>4. \A i \in chosen : place(key[i]) = i
    BY <1>1
<1> HIDE DEF place
<1> QED
    BY <1>1, <1>2, <1>3, <1>4 DEF key, chosen

\* The tools of a suggestion are those of its entities.
LEMMA SuggestedTools ==
    ASSUME NEW tables, NEW t
    PROVE  t \in Suggest(tables).tools <=>
                \E i \in Chosen(tables) : t \in Tools(EntityKey(tables)[i], DOMAIN EntityFields(i))
<1>1. Suggest(tables).tools =
        UNION {Tools(EntityKey(tables)[i], DOMAIN EntityFields(i)) : i \in Chosen(tables)}
    BY DEF Suggest, EntityKey, EntityFields
<1> QED
    BY <1>1

\* What an entity that is chosen is like.
LEMMA ChosenFields ==
    ASSUME NEW tables, NEW i \in Chosen(tables)
    PROVE  /\ i \in DOMAIN Schema
           /\ DOMAIN EntityFields(i) \subseteq Key /\ DOMAIN EntityFields(i) # {}
           /\ EntityFields(i) \in [DOMAIN EntityFields(i) -> Field]
           /\ {EntityFields(i)[f].column : f \in DOMAIN EntityFields(i)} =
                {Schema[i].columns[j].name : j \in DOMAIN Schema[i].columns}
<1>1. i \in DOMAIN Schema /\ Schema[i].columns # <<>>
    BY DEF Chosen
<1> QED
    BY <1>1, SchemaType, FieldsAreExact DEF EntityFields

\* Its tools are tools, told apart by their names, and valid.
LEMMA SuggestedIsWellFormed ==
    ASSUME NEW tables
    PROVE  WellFormed(Suggest(tables))
<1> DEFINE s == Suggest(tables)
           key == EntityKey(tables)
<1>1. s = [entities |-> s.entities, tools |-> s.tools]
    BY DEF Suggest
<1>2. ASSUME NEW e \in DOMAIN s.entities
      PROVE  s.entities[e] \in [table : STRING, fields : [DOMAIN s.entities[e].fields -> Field]]
  <2>1. PICK i \in Chosen(tables) :
            e = key[i] /\ s.entities[e] = [table |-> Schema[i].id, fields |-> EntityFields(i)]
      BY SuggestedEntities
  <2> QED
      BY <2>1, ChosenFields, SchemaType
<1>3. s.tools \subseteq Tool
  <2> SUFFICES ASSUME NEW t \in s.tools PROVE t \in Tool
      OBVIOUS
  <2>1. PICK i \in Chosen(tables) : t \in Tools(key[i], DOMAIN EntityFields(i))
      BY SuggestedTools
  <2>2. key[i] \in Key /\ DOMAIN EntityFields(i) \subseteq Key
      BY ChosenFields, SuggestedEntities
  <2> HIDE DEF key
  <2> QED
      BY <2>1, <2>2, OnboardAssumption DEF Tools, Tool
<1>4. ASSUME NEW t \in s.tools, NEW u \in s.tools, t.name = u.name PROVE t = u
  <2>1. PICK i \in Chosen(tables) : t \in Tools(key[i], DOMAIN EntityFields(i))
      BY SuggestedTools
  <2>2. PICK j \in Chosen(tables) : u \in Tools(key[j], DOMAIN EntityFields(j))
      BY SuggestedTools
  <2> HIDE DEF key
  <2>3. key[i] = key[j]
      BY <1>4, <2>1, <2>2 DEF Tools
  <2>4. i = j
      BY <2>3, SuggestedEntities DEF key
  <2> QED
      BY <1>4, <2>1, <2>2, <2>4 DEF Tools
<1> QED
    BY <1>1, <1>2, <1>3, <1>4 DEF WellFormed

\* Choosing a table with columns gives a manifest that may become live.
LEMMA SuggestedIsValid ==
    ASSUME NEW tables, Chosen(tables) # {}
    PROVE  Validate(Suggest(tables))
<1> DEFINE s == Suggest(tables)
           key == EntityKey(tables)
<1>1. s.tools # {}
    BY SuggestedTools DEF Tools
<1>2. \A t, u \in s.tools : t.name = u.name => t = u
    BY SuggestedIsWellFormed DEF WellFormed
<1>3. ASSUME NEW t \in s.tools PROVE ValidTool(s, t)
  <2>1. PICK i \in Chosen(tables) : t \in Tools(key[i], DOMAIN EntityFields(i))
      BY SuggestedTools
  <2>2. /\ DOMAIN s.entities = {key[j] : j \in Chosen(tables)}
        /\ s.entities[key[i]] = [table |-> Schema[i].id, fields |-> EntityFields(i)]
      BY SuggestedEntities
  <2>3. DOMAIN EntityFields(i) # {}
      BY ChosenFields
  <2> HIDE DEF key, s
  <2> QED
      BY <2>1, <2>2, <2>3 DEF Tools, ValidTool
<1> QED
    BY <1>1, <1>2, <1>3 DEF Validate

\* It reads the columns of the tables that are chosen, all of them, and its
\* tools return them all.
LEMMA SuggestedColumns ==
    ASSUME NEW tables
    PROVE  LET s == Suggest(tables)
           IN  /\ Columns(s, FieldsOf(s)) =
                    UNION {{Schema[i].id} \X {Schema[i].columns[j].name :
                                j \in DOMAIN Schema[i].columns} : i \in Chosen(tables)}
               /\ Exposed(s) = Columns(s, FieldsOf(s))
<1> DEFINE s == Suggest(tables)
           key == EntityKey(tables)
           Read(i) == {Schema[i].id} \X {EntityFields(i)[f].column : f \in DOMAIN EntityFields(i)}
<1>1. /\ DOMAIN s.entities = {key[i] : i \in Chosen(tables)}
      /\ \A i \in Chosen(tables) : /\ key[i] \in DOMAIN s.entities
                                    /\ s.entities[key[i]].table = Schema[i].id
                                    /\ s.entities[key[i]].fields = EntityFields(i)
  <2>1. /\ DOMAIN s.entities = {key[i] : i \in Chosen(tables)}
        /\ \A i \in Chosen(tables) :
                s.entities[key[i]] = [table |-> Schema[i].id, fields |-> EntityFields(i)]
      BY SuggestedEntities
  <2> HIDE DEF s, key
  <2>2. ASSUME NEW i \in Chosen(tables)
        PROVE  /\ key[i] \in DOMAIN s.entities
               /\ s.entities[key[i]].table = Schema[i].id
               /\ s.entities[key[i]].fields = EntityFields(i)
    <3>1. s.entities[key[i]] = [table |-> Schema[i].id, fields |-> EntityFields(i)]
        BY <2>1
    <3> QED
        BY <2>1, <3>1
  <2> QED
      BY <2>1, <2>2
<1>2. ASSUME NEW i \in Chosen(tables), NEW f
      PROVE  Column(s, <<key[i], f>>) = <<Schema[i].id, EntityFields(i)[f].column>>
  <2> HIDE DEF s, key
  <2>1. <<key[i], f>>[1] = key[i] /\ <<key[i], f>>[2] = f
      OBVIOUS
  <2> QED
      BY <1>1, <2>1 DEF Column
<1>3. Columns(s, FieldsOf(s)) = UNION {Read(i) : i \in Chosen(tables)}
  <2> HIDE DEF s, key
  <2>1. ASSUME NEW c \in Columns(s, FieldsOf(s))
        PROVE  \E i \in Chosen(tables) : c \in Read(i)
    <3>1. PICK e \in DOMAIN s.entities : \E f \in DOMAIN s.entities[e].fields : c = Column(s, <<e, f>>)
        BY DEF Columns, FieldsOf
    <3>2. PICK i \in Chosen(tables) : e = key[i]
        BY <1>1
    <3>3. s.entities[e].fields = EntityFields(i)
        BY <1>1, <3>2
    <3>4. PICK f \in DOMAIN EntityFields(i) : c = Column(s, <<key[i], f>>)
        BY <3>1, <3>2, <3>3
    <3> QED
        BY <1>2, <3>4
  <2>2. ASSUME NEW i \in Chosen(tables), NEW c \in Read(i)
        PROVE  c \in Columns(s, FieldsOf(s))
    <3>1. PICK f \in DOMAIN EntityFields(i) : c = <<Schema[i].id, EntityFields(i)[f].column>>
        OBVIOUS
    <3>2. <<key[i], f>> \in FieldsOf(s)
      <4>1. key[i] \in DOMAIN s.entities /\ f \in DOMAIN s.entities[key[i]].fields
          BY <1>1
      <4> QED
          BY <4>1 DEF FieldsOf
    <3> QED
        BY <1>2, <3>1, <3>2 DEF Columns
  <2> QED
      BY <2>1, <2>2
<1>4. Exposed(s) = UNION {Read(i) : i \in Chosen(tables)}
  <2>1. ASSUME NEW c \in Exposed(s)
        PROVE  \E i \in Chosen(tables) : c \in Read(i)
    <3>1. PICK t \in s.tools : \E f \in t.select \cup t.filters : c = Column(s, <<t.entity, f>>)
        BY DEF Exposed
    <3>2. PICK i \in Chosen(tables) : t \in Tools(key[i], DOMAIN EntityFields(i))
        BY SuggestedTools
    <3> HIDE DEF s, key
    <3>3. t.entity = key[i] /\ t.select \cup t.filters \subseteq DOMAIN EntityFields(i)
        BY <3>2 DEF Tools
    <3>4. PICK f \in DOMAIN EntityFields(i) : c = Column(s, <<key[i], f>>)
        BY <3>1, <3>3
    <3> QED
        BY <1>2, <3>4
  <2>2. ASSUME NEW i \in Chosen(tables), NEW c \in Read(i)
        PROVE  c \in Exposed(s)
    <3>1. PICK f \in DOMAIN EntityFields(i) : c = <<Schema[i].id, EntityFields(i)[f].column>>
        OBVIOUS
    <3> DEFINE t == [name |-> <<"list", key[i]>>, kind |-> "query", entity |-> key[i],
                     select |-> DOMAIN EntityFields(i), filters |-> {}]
    <3>2. t \in s.tools
        BY SuggestedTools DEF Tools
    <3>3. t.entity = key[i] /\ f \in t.select \cup t.filters
        OBVIOUS
    <3> HIDE DEF s, key, t
    <3> QED
        BY <1>2, <3>1, <3>2, <3>3 DEF Exposed
  <2> HIDE DEF s, key
  <2> QED
      BY <2>1, <2>2
<1>5. ASSUME NEW i \in Chosen(tables)
      PROVE  Read(i) = {Schema[i].id} \X {Schema[i].columns[j].name : j \in DOMAIN Schema[i].columns}
  <2>1. {EntityFields(i)[f].column : f \in DOMAIN EntityFields(i)} =
            {Schema[i].columns[j].name : j \in DOMAIN Schema[i].columns}
      BY ChosenFields
  <2> QED
      BY <2>1
<1> HIDE DEF s, Read
<1>6. UNION {Read(i) : i \in Chosen(tables)} =
        UNION {{Schema[i].id} \X {Schema[i].columns[j].name :
                    j \in DOMAIN Schema[i].columns} : i \in Chosen(tables)}
    BY <1>5
<1> QED
    BY <1>3, <1>4, <1>6 DEF s

\* Two sets that the places of the schema number alike have one size.
LEMMA SameSize ==
    ASSUME NEW S, IsFiniteSet(S), NEW f, DOMAIN f = S,
           \A i, j \in S : f[i] = f[j] => i = j
    PROVE  Cardinality({f[i] : i \in S}) = Cardinality(S)
<1> DEFINE T == {f[i] : i \in S}
           g == [i \in S |-> f[i]]
<1>1. g \in [S -> T] /\ (\A i, j \in S : g[i] = g[j] => i = j) /\ (\A t \in T : \E i \in S : g[i] = t)
    OBVIOUS
<1>2. g \in Bijection(S, T)
  <2> HIDE DEF g, T
  <2> QED
      BY <1>1 DEF Bijection, Injection, Surjection, IsInjective
<1>3. ExistsBijection(S, T)
    BY <1>2 DEF ExistsBijection
<1> QED
    BY <1>3, FS_Bijection

\* What SuggestionIsExact says, of whichever tables are chosen.
LEMMA SuggestedIsExact ==
    ASSUME NEW tables
    PROVE  LET m == Suggest(tables)
               chosen == {t \in Table : t.columns # <<>> /\ (tables = {} \/ t.id \in tables)}
           IN  /\ chosen # {} => Validate(m)
               /\ Cardinality(DOMAIN m.entities) = Cardinality(chosen)
               /\ Columns(m, FieldsOf(m)) = UNION {{t.id} \X {c.name : c \in ToSet(t.columns)} : t \in chosen}
               /\ Exposed(m) = Columns(m, FieldsOf(m))
<1> DEFINE m == Suggest(tables)
           chosen == {t \in Table : t.columns # <<>> /\ (tables = {} \/ t.id \in tables)}
           I == Chosen(tables)
           key == EntityKey(tables)
<1>1. chosen = {Schema[i] : i \in I}
    BY DEF Chosen, Table, ToSet
<1>2. IsFiniteSet(I)
  <2>1. IsFiniteSet(1 .. Len(Schema))
      BY OnboardAssumption, FS_Interval
  <2>2. I \subseteq 1 .. Len(Schema)
      BY SchemaType DEF Chosen
  <2> QED
      BY <2>1, <2>2, FS_Subset
<1>3. Cardinality(chosen) = Cardinality(I)
  <2> DEFINE f == [i \in I |-> Schema[i]]
  <2>1. \A i, j \in I : f[i] = f[j] => i = j
    <3>1. \A i, j \in DOMAIN Schema : Schema[i].id = Schema[j].id => i = j
        BY OnboardAssumption
    <3> QED
        BY <3>1 DEF Chosen
  <2>2. DOMAIN f = I /\ chosen = {f[i] : i \in I}
      BY <1>1
  <2> HIDE DEF f, I, chosen
  <2> QED
      BY <1>2, <2>1, <2>2, SameSize
<1>4. Cardinality(DOMAIN m.entities) = Cardinality(I)
  <2> DEFINE f == [i \in I |-> key[i]]
  <2>1. DOMAIN m.entities = {key[i] : i \in I} /\ \A i, j \in I : key[i] = key[j] => i = j
      BY SuggestedEntities
  <2>2. DOMAIN f = I /\ DOMAIN m.entities = {f[i] : i \in I} /\ \A i, j \in I : f[i] = f[j] => i = j
    <3> HIDE DEF I, key, m
    <3> QED
        BY <2>1
  <2> HIDE DEF f, I, m, key
  <2> QED
      BY <1>2, <2>2, SameSize
<1>5. chosen # {} => Validate(m)
    BY <1>1, SuggestedIsValid
<1>6. UNION {{t.id} \X {c.name : c \in ToSet(t.columns)} : t \in chosen} =
        UNION {{Schema[i].id} \X {Schema[i].columns[j].name :
                    j \in DOMAIN Schema[i].columns} : i \in I}
  <2> DEFINE R(t) == {t.id} \X {c.name : c \in ToSet(t.columns)}
             Q(i) == {Schema[i].id} \X {Schema[i].columns[j].name : j \in DOMAIN Schema[i].columns}
  <2>1. ASSUME NEW i \in I PROVE R(Schema[i]) = Q(i)
    <3>1. {c.name : c \in ToSet(Schema[i].columns)} =
            {Schema[i].columns[j].name : j \in DOMAIN Schema[i].columns}
        BY DEF ToSet
    <3> QED
        BY <3>1
  <2>2. UNION {R(t) : t \in chosen} = UNION {R(Schema[i]) : i \in I}
    <3> HIDE DEF R, chosen, I
    <3> QED
        BY <1>1
  <2>3. UNION {R(Schema[i]) : i \in I} = UNION {Q(i) : i \in I}
    <3> HIDE DEF R, Q, I
    <3> QED
        BY <2>1
  <2> QED
      BY <2>2, <2>3, Zenon
<1> HIDE DEF m, chosen
<1>7. /\ Columns(m, FieldsOf(m)) = UNION {{t.id} \X {c.name : c \in ToSet(t.columns)} : t \in chosen}
      /\ Exposed(m) = Columns(m, FieldsOf(m))
    BY <1>6, SuggestedColumns, Zenon DEF m
<1> QED
    BY <1>3, <1>4, <1>5, <1>7, Zenon DEF m, chosen

-----------------------------------------------------------------------------
(* The candidate stays well formed.                                        *)

\* What an entity is, read from a well-formed manifest and to be shown of one.
LEMMA EntityType ==
    ASSUME NEW m, WellFormed(m), NEW e \in DOMAIN m.entities
    PROVE  /\ m.entities[e].table \in STRING
           /\ m.entities[e].fields \in [DOMAIN m.entities[e].fields -> Field]
<1>1. m.entities[e] \in [table : STRING, fields : [DOMAIN m.entities[e].fields -> Field]]
    BY DEF WellFormed
<1> QED
    BY <1>1

EntityOK(x) == x \in [table : STRING, fields : [DOMAIN x.fields -> Field]]

\* An entity with typed fields is one.
LEMMA EntityMade ==
    ASSUME NEW table \in STRING, NEW F, NEW fields \in [F -> Field]
    PROVE  EntityOK([table |-> table, fields |-> fields])
BY DEF EntityOK

\* A manifest is well formed entity by entity, its tools told apart by name.
LEMMA WellFormedMade ==
    ASSUME NEW entities, NEW tools, tools \subseteq Tool,
           \A e \in DOMAIN entities : EntityOK(entities[e]),
           \A t, u \in tools : t.name = u.name => t = u
    PROVE  WellFormed([entities |-> entities, tools |-> tools])
BY DEF EntityOK, WellFormed

\* The converse.
LEMMA WellFormedEntity ==
    ASSUME NEW m, WellFormed(m)
    PROVE  /\ \A e \in DOMAIN m.entities : EntityOK(m.entities[e])
           /\ m.tools \subseteq Tool /\ \A t, u \in m.tools : t.name = u.name => t = u
BY DEF WellFormed, EntityOK

\* The candidate a failed export leaves.
LEMMA EmptyIsWellFormed == WellFormed([entities |-> <<>>, tools |-> {}])
BY WellFormedMade

\* A tool with closed fields taken out.
KeptTool(t) == IF t.kind = "query" THEN [t EXCEPT !.select = Open(t)] ELSE t

\* Only what a query returns is cut, and it stays a tool.
LEMMA KeptToolType ==
    ASSUME NEW t \in Tool
    PROVE  /\ KeptTool(t) \in Tool
           /\ KeptTool(t).name = t.name /\ KeptTool(t).kind = t.kind
           /\ KeptTool(t).entity = t.entity /\ KeptTool(t).filters = t.filters
           /\ KeptTool(t).select = IF t.kind = "query" THEN Open(t) ELSE t.select
<1>1. Open(t) \in SUBSET Key
    BY DEF Open, Tool
<1> QED
    BY <1>1 DEF KeptTool, Tool

\* What assemble keeps of an entity.
KeptFields(m, e) ==
    Restrict(m.entities[e].fields, {f \in DOMAIN m.entities[e].fields : <<e, f>> \notin excluded})

\* assemble, in the words of these proofs.
LEMMA Assembled ==
    ASSUME NEW m
    PROVE  Assemble(m) =
            [entities |-> [e \in DOMAIN m.entities |->
                                [table |-> m.entities[e].table, fields |-> KeptFields(m, e)]],
             tools |-> {KeptTool(t) : t \in Kept(m.tools)}]
BY DEF Assemble, KeptFields, KeptTool

\* assemble takes fields, tools and selected fields away.
LEMMA AssembleIsWellFormed ==
    ASSUME NEW m, WellFormed(m)
    PROVE  WellFormed(Assemble(m))
<1> DEFINE entities == [e \in DOMAIN m.entities |->
                            [table |-> m.entities[e].table, fields |-> KeptFields(m, e)]]
           tools == {KeptTool(t) : t \in Kept(m.tools)}
<1>1. ASSUME NEW e \in DOMAIN m.entities PROVE EntityOK(entities[e])
  <2>1. KeptFields(m, e) \in [DOMAIN KeptFields(m, e) -> Field]
      BY EntityType DEF KeptFields, Restrict
  <2> QED
      BY <2>1, EntityType, EntityMade
<1>2. ASSUME NEW t \in Kept(m.tools)
      PROVE  t \in m.tools /\ KeptTool(t) \in Tool /\ KeptTool(t).name = t.name
    BY WellFormedEntity, KeptToolType DEF Kept
<1>3. \A t, u \in tools : t.name = u.name => t = u
    BY <1>2, WellFormedEntity
<1>4. tools \subseteq Tool
    BY <1>2
<1>5. \A e \in DOMAIN entities : EntityOK(entities[e])
    BY <1>1
<1>6. Assemble(m) = [entities |-> entities, tools |-> tools]
    BY Assembled
<1> HIDE DEF entities, tools
<1> QED
    BY <1>3, <1>4, <1>5, <1>6, WellFormedMade

\* A suggestion is merged entity by entity; a tool's name is never taken twice.
LEMMA MergeIsWellFormed ==
    ASSUME NEW m, WellFormed(m), NEW s, WellFormed(s)
    PROVE  WellFormed(Merge(m, s))
<1> DEFINE entities == [e \in DOMAIN s.entities \cup DOMAIN m.entities |->
                            IF e \in DOMAIN s.entities THEN s.entities[e] ELSE m.entities[e]]
           tools == m.tools \cup NewTools(m, s)
<1>1. \A e \in DOMAIN entities : EntityOK(entities[e])
    BY WellFormedEntity
<1>2. tools \subseteq Tool
    BY WellFormedEntity DEF NewTools
<1>3. \A t, u \in tools : t.name = u.name => t = u
    BY WellFormedEntity DEF NewTools, ToolNames
<1>4. Merge(m, s) = [entities |-> entities, tools |-> tools]
    BY DEF Merge
<1> HIDE DEF entities, tools
<1> QED
    BY <1>1, <1>2, <1>3, <1>4, WellFormedMade

\* Advice changes expressions, and nothing else of a manifest.
AdvisedFields(m, advice, e) ==
    [f \in DOMAIN m.entities[e].fields |->
        TakenUp(m.entities[e].fields[f], Said(advice, Column(m, <<e, f>>)))]

\* What is taken up is a transformation the program knows.
LEMMA AdvisedIsWellFormed ==
    ASSUME NEW m, WellFormed(m), NEW advice \in Advice
    PROVE  WellFormed(Advised(m, advice))
<1> DEFINE entities == [e \in DOMAIN m.entities |->
                            [table |-> m.entities[e].table, fields |-> AdvisedFields(m, advice, e)]]
<1>1. ASSUME NEW field \in Field, NEW column PROVE TakenUp(field, Said(advice, column)) \in Field
  <2>1. \A said \in Said(advice, column) : said \in Expression
      BY WizardAssumption DEF Said
  <2> QED
      BY <2>1 DEF TakenUp, Field
<1>2. ASSUME NEW e \in DOMAIN m.entities PROVE EntityOK(entities[e])
  <2>1. AdvisedFields(m, advice, e) \in [DOMAIN m.entities[e].fields -> Field]
      BY <1>1, EntityType DEF AdvisedFields
  <2> QED
      BY <2>1, EntityType, EntityMade
<1>3. \A e \in DOMAIN entities : EntityOK(entities[e])
    BY <1>2
<1>4. Advised(m, advice) = [entities |-> entities, tools |-> m.tools]
    BY DEF Advised, AdvisedFields
<1> HIDE DEF entities
<1> QED
    BY <1>3, <1>4, WellFormedEntity, WellFormedMade

-----------------------------------------------------------------------------
(* Type correctness.                                                       *)

USE DEF Idle

\* Removing an entity removes its tools.
LEMMA RemovedIsWellFormed ==
    ASSUME NEW m, WellFormed(m), NEW e
    PROVE  WellFormed([entities |-> Restrict(m.entities, DOMAIN m.entities \ {e}),
                       tools |-> {t \in m.tools : t.entity # e}])
<1> DEFINE entities == Restrict(m.entities, DOMAIN m.entities \ {e})
           tools == {t \in m.tools : t.entity # e}
<1>1. \A x \in DOMAIN entities : EntityOK(entities[x])
    BY WellFormedEntity DEF Restrict
<1>2. tools \subseteq Tool /\ \A t, u \in tools : t.name = u.name => t = u
    BY WellFormedEntity
<1>3. WellFormed([entities |-> entities, tools |-> tools])
  <2> HIDE DEF entities, tools
  <2> QED
      BY <1>1, <1>2, WellFormedMade
<1> QED
    BY <1>3

\* setExpr changes the expression of one field.
LEMMA SetExprIsWellFormed ==
    ASSUME NEW m, WellFormed(m), NEW e \in DOMAIN m.entities, NEW f \in DOMAIN m.entities[e].fields,
           NEW x \in Expression
    PROVE  WellFormed([m EXCEPT !.entities[e].fields[f].expression = x])
<1> DEFINE fields == [m.entities[e].fields EXCEPT ![f].expression = x]
           entities == [m.entities EXCEPT ![e].fields = fields]
<1>1. m.entities[e] \in [table : STRING, fields : [DOMAIN m.entities[e].fields -> Field]]
    BY DEF WellFormed
<1>2. fields \in [DOMAIN m.entities[e].fields -> Field]
    BY <1>1 DEF Field
<1>3. ASSUME NEW d \in DOMAIN entities PROVE EntityOK(entities[d])
  <2>1. CASE d = e
    <3>1. entities[d] = [table |-> m.entities[e].table, fields |-> fields]
        BY <1>1, <2>1
    <3> HIDE DEF fields, entities
    <3> QED
        BY <1>1, <1>2, <3>1, EntityMade
  <2>2. CASE d # e
    <3>1. entities[d] = m.entities[d] /\ d \in DOMAIN m.entities
        BY <2>2
    <3> QED
        BY <3>1, WellFormedEntity
  <2> QED
      BY <2>1, <2>2
<1>4. m = [entities |-> m.entities, tools |-> m.tools]
    BY DEF WellFormed
<1>5. [m EXCEPT !.entities[e].fields[f].expression = x] = [entities |-> entities, tools |-> m.tools]
    BY <1>4
<1>6. \A d \in DOMAIN entities : EntityOK(entities[d])
    BY <1>3
<1>7. WellFormed([entities |-> entities, tools |-> m.tools])
  <2> HIDE DEF entities
  <2> QED
      BY <1>6, WellFormedEntity, WellFormedMade
<1> QED
    BY <1>5, <1>7

\* Nothing is on the page while it loads, and nothing runs behind busy then.
PageInv ==
    /\ loading.state # "done" => cand = None /\ current = None /\ request = Idle
    /\ request # Idle => WellFormed(cand)

\* The wizard opens on a manifest that is well formed.
LEMMA InitTypeOK == Init => TypeOK /\ PageInv
<1> SUFFICES ASSUME Init PROVE TypeOK /\ PageInv
    OBVIOUS
<1>1. WellFormed(live)
    BY WizardAssumption DEF Init
<1>2. loading.state = "sent"
    BY DEF Init
<1>3. step \in Steps /\ furthest \in step .. 4
    BY DEF Init, Steps
<1> QED
    BY <1>1, <1>2, <1>3 DEF Init, TypeOK, PageInv

\* The page between a click and the next.
LEMMA EditsTypeOK ==
    ASSUME TypeOK, PageInv, Edits
    PROVE  TypeOK' /\ PageInv'
<1>1. WellFormed(cand) /\ cand # None
    BY DEF Edits, TypeOK
<1>2. WellFormed(cand') /\ Edit
  <2>1. ASSUME NEW e \in DOMAIN cand.entities, removeEntity(e)
        PROVE  WellFormed(cand') /\ Edit
      BY <1>1, <2>1, RemovedIsWellFormed DEF removeEntity
  <2>2. ASSUME NEW ef \in FieldsOf(cand), toggleField(ef[1], ef[2])
        PROVE  WellFormed(cand') /\ Edit
      BY <1>1, <2>2 DEF toggleField
  <2>3. ASSUME NEW ef \in FieldsOf(cand), NEW x \in Expression, setExpr(ef[1], ef[2], x)
        PROVE  WellFormed(cand') /\ Edit
    <3>1. ef[1] \in DOMAIN cand.entities /\ ef[2] \in DOMAIN cand.entities[ef[1]].fields
        BY DEF FieldsOf
    <3> QED
        BY <1>1, <2>3, <3>1, SetExprIsWellFormed DEF setExpr
  <2>4. ASSUME NEW name \in ToolNames(cand), toggleTool(name)
        PROVE  WellFormed(cand') /\ Edit
      BY <1>1, <2>4 DEF toggleTool
  <2> QED
      BY <2>1, <2>2, <2>3, <2>4 DEF Edits
<1> QED
    BY <1>1, <1>2 DEF Edit, TypeOK, IsApply, PageInv

\* The three requests.
IsRequest(r) ==
    \/ r.kind = "suggest" /\ r.table \in STRING
    \/ r.kind = "advise"
    \/ IsApply(r)

\* A request starts.
LEMMA SendTypeOK ==
    ASSUME TypeOK, PageInv, NEW r, Send(r), cand # None, IsRequest(r)
    PROVE  TypeOK' /\ PageInv'
BY DEF TypeOK, PageInv, Send, IsApply, IsRequest

\* An answer the candidate takes up.
LEMMA AnsweredTypeOK ==
    ASSUME TypeOK, PageInv, request # Idle, NEW m, CandidateAnswered(m), WellFormed(m)
    PROVE  TypeOK' /\ PageInv'
BY DEF TypeOK, PageInv, CandidateAnswered, IsApply

\* Every step keeps the types.
LEMMA StepTypeOK == TypeOK /\ PageInv /\ [Next]_vars => TypeOK' /\ PageInv'
<1> SUFFICES ASSUME TypeOK, PageInv, [Next]_vars PROVE TypeOK' /\ PageInv'
    OBVIOUS
<1>1. CASE UNCHANGED vars
    BY <1>1 DEF vars, page, TypeOK, IsApply, PageInv
<1>2. CASE ExportServed
    BY <1>2 DEF ExportServed, TypeOK, IsApply, PageInv
<1>3. CASE ExportAnswered
    BY <1>3 DEF ExportAnswered, TypeOK, IsApply, PageInv
<1>4. CASE ExportFailed
    BY <1>4, EmptyIsWellFormed DEF ExportFailed, TypeOK, IsApply, PageInv
<1>5. ASSUME NEW i \in Steps, GoTo(i) PROVE TypeOK' /\ PageInv'
  <2>1. furthest' \in i .. 4
    <3>1. i \in Int /\ furthest \in Int
        BY DEF TypeOK, Steps
    <3>2. Max({furthest, i}) \in {furthest, i} /\ i <= Max({furthest, i})
        BY <3>1 DEF Max
    <3> QED
        BY <1>5, <3>2 DEF GoTo, TypeOK, Steps
  <2> QED
      BY <1>5, <2>1 DEF GoTo, TypeOK, IsApply, Steps, PageInv
<1>6. CASE Forward
  <2>1. step + 1 \in Steps
      BY <1>6 DEF Forward, TypeOK, Steps
  <2> QED
      BY <1>5, <1>6, <2>1 DEF Forward
<1>7. CASE Jump
    BY <1>5, <1>7 DEF Jump, TypeOK, Steps
<1>8. CASE Edits
    BY <1>8, EditsTypeOK
<1>9. ASSUME NEW table \in Table, addTable(table.id) PROVE TypeOK' /\ PageInv'
  <2>1. table.id \in STRING
      BY SchemaType DEF Table, ToSet
  <2> QED
      BY <1>9, <2>1, SendTypeOK DEF addTable, Shown, IsRequest
<1>10. CASE runAdvise
    BY <1>10, SendTypeOK DEF runAdvise, Shown, IsRequest
<1>11. CASE publish
  <2>1. WellFormed(Assemble(cand)) /\ cand # None
      BY <1>11, AssembleIsWellFormed DEF publish, Shown, TypeOK
  <2> QED
      BY <1>11, <2>1, SendTypeOK DEF publish, IsRequest, IsApply
<1>12. CASE TableAdded
    BY <1>12, AnsweredTypeOK, MergeIsWellFormed, SuggestedIsWellFormed DEF TableAdded, PageInv
<1>13. CASE AdviceTaken
    BY <1>13, AnsweredTypeOK, AdvisedIsWellFormed DEF AdviceTaken, PageInv
<1>14. CASE Failed
    BY <1>14, AnsweredTypeOK DEF Failed, PageInv
<1>15. CASE Applied
    BY <1>15 DEF Applied, SetLive, page, TypeOK, IsApply, PageInv
<1>16. CASE Published
    BY <1>16 DEF Published, Sent, TypeOK, IsApply, PageInv
<1>17. CASE AnswerLost
  <2>1. \A r \in stray' : IsApply(r) /\ r.state = "sent"
      BY <1>17 DEF AnswerLost, TypeOK, IsApply
  <2>2. unseen' \in BOOLEAN /\ request' = Idle /\ UNCHANGED <<live, page, edits>>
      BY <1>17 DEF AnswerLost, TypeOK
  <2> QED
      BY <2>1, <2>2 DEF page, TypeOK, PageInv
<1>18. CASE StrayApplied
    BY <1>18 DEF StrayApplied, SetLive, page, TypeOK, IsApply, PageInv
<1>19. CASE Reopen
  <2>1. \A r \in stray' : IsApply(r) /\ r.state = "sent"
      BY <1>19 DEF Reopen, TypeOK, IsApply
  <2>2. loading'.state = "sent" /\ step' \in Steps /\ furthest' \in step' .. 4
      BY <1>19 DEF Reopen, Steps
  <2> QED
      BY <1>19, <2>1, <2>2 DEF Reopen, TypeOK, PageInv
<1> QED
    BY <1>1, <1>2, <1>3, <1>4, <1>6, <1>7, <1>8, <1>9, <1>10, <1>11, <1>12, <1>13, <1>14,
       <1>15, <1>16, <1>17, <1>18, <1>19 DEF Next

\* Every manifest that is live, loading, edited or on its way is well formed
\* (Wizard, TypeOK).
THEOREM WizardTypeCorrect == Spec => [](TypeOK /\ PageInv)
<1>1. Init => TypeOK /\ PageInv
    BY InitTypeOK
<1>2. TypeOK /\ PageInv /\ [Next]_vars => TypeOK' /\ PageInv'
    BY StepTypeOK
<1> QED
    BY <1>1, <1>2, PTL DEF Spec

-----------------------------------------------------------------------------
(* A suggestion is exact, whatever the schema.                             *)

\* Every table with columns gets one entity and every column a field, under
\* keys that are all different, and the result is valid, for every database
\* Introspect may list (Wizard, SuggestionIsExact).
THEOREM SuggestionsAreExact == Spec => []SuggestionIsExact
<1>1. SuggestionIsExact
    BY SuggestedIsExact DEF SuggestionIsExact
<1> QED
    BY <1>1, PTL

-----------------------------------------------------------------------------
(* Assembling.                                                             *)

\* What is assembled, entity by entity and tool by tool.
LEMMA AssembledParts ==
    ASSUME NEW m, WellFormed(m)
    PROVE  LET a == Assemble(m)
           IN  /\ DOMAIN a.entities = DOMAIN m.entities
               /\ \A e \in DOMAIN m.entities :
                    /\ a.entities[e].table = m.entities[e].table
                    /\ DOMAIN a.entities[e].fields =
                            {f \in DOMAIN m.entities[e].fields : <<e, f>> \notin excluded}
                    /\ \A f \in DOMAIN a.entities[e].fields :
                            a.entities[e].fields[f] = m.entities[e].fields[f]
               /\ a.tools = {KeptTool(t) : t \in Kept(m.tools)}
<1> DEFINE a == Assemble(m)
<1>1. /\ a.entities = [e \in DOMAIN m.entities |->
                            [table |-> m.entities[e].table, fields |-> KeptFields(m, e)]]
      /\ a.tools = {KeptTool(t) : t \in Kept(m.tools)}
  <2>1. a = [entities |-> [e \in DOMAIN m.entities |->
                                [table |-> m.entities[e].table, fields |-> KeptFields(m, e)]],
             tools |-> {KeptTool(t) : t \in Kept(m.tools)}]
      BY Assembled
  <2> HIDE DEF a
  <2> QED
      BY <2>1
<1>2. ASSUME NEW e \in DOMAIN m.entities
      PROVE  /\ DOMAIN KeptFields(m, e) = {f \in DOMAIN m.entities[e].fields : <<e, f>> \notin excluded}
             /\ \A f \in DOMAIN KeptFields(m, e) : KeptFields(m, e)[f] = m.entities[e].fields[f]
    BY DEF KeptFields, Restrict
<1>3. DOMAIN a.entities = DOMAIN m.entities
  <2> HIDE DEF a
  <2> QED
      BY <1>1
<1>4. ASSUME NEW e \in DOMAIN m.entities
      PROVE  /\ a.entities[e].table = m.entities[e].table
             /\ a.entities[e].fields = KeptFields(m, e)
  <2> HIDE DEF a
  <2> QED
      BY <1>1
<1> HIDE DEF a
<1>5. ASSUME NEW e \in DOMAIN m.entities
      PROVE  /\ a.entities[e].table = m.entities[e].table
             /\ DOMAIN a.entities[e].fields =
                    {f \in DOMAIN m.entities[e].fields : <<e, f>> \notin excluded}
             /\ \A f \in DOMAIN a.entities[e].fields :
                    a.entities[e].fields[f] = m.entities[e].fields[f]
    BY <1>2, <1>4
<1>6. /\ DOMAIN a.entities = DOMAIN m.entities
      /\ \A e \in DOMAIN m.entities :
            /\ a.entities[e].table = m.entities[e].table
            /\ DOMAIN a.entities[e].fields =
                    {f \in DOMAIN m.entities[e].fields : <<e, f>> \notin excluded}
            /\ \A f \in DOMAIN a.entities[e].fields :
                    a.entities[e].fields[f] = m.entities[e].fields[f]
      /\ a.tools = {KeptTool(t) : t \in Kept(m.tools)}
    BY <1>1, <1>3, <1>5
<1> QED
    BY <1>6 DEF a

\* A valid manifest that was assembled exposes what the page shows as open.
LEMMA AssembledIsOpen ==
    ASSUME WellFormed(cand), Validate(Assemble(cand))
    PROVE  Exposed(Assemble(cand)) \subseteq OnPage.columns /\ ToolNames(Assemble(cand)) \subseteq OnPage.tools
<1> DEFINE a == Assemble(cand)
<1>1. /\ DOMAIN a.entities = DOMAIN cand.entities
      /\ \A e \in DOMAIN cand.entities :
            /\ a.entities[e].table = cand.entities[e].table
            /\ DOMAIN a.entities[e].fields =
                    {f \in DOMAIN cand.entities[e].fields : <<e, f>> \notin excluded}
            /\ \A f \in DOMAIN a.entities[e].fields :
                    a.entities[e].fields[f] = cand.entities[e].fields[f]
      /\ a.tools = {KeptTool(t) : t \in Kept(cand.tools)}
    BY AssembledParts
<1> HIDE DEF a
<1>2. ASSUME NEW c \in Exposed(a)
      PROVE  c \in OnPage.columns
  <2>1. PICK t \in a.tools : \E f \in t.select \cup t.filters : c = Column(a, <<t.entity, f>>)
      BY DEF Exposed
  <2>2. PICK f \in t.select \cup t.filters : c = Column(a, <<t.entity, f>>)
      BY <2>1
  <2> DEFINE e == t.entity
  <2>3. e \in DOMAIN a.entities /\ f \in DOMAIN a.entities[e].fields
      BY <2>2 DEF a, Validate, ValidTool
  <2> HIDE DEF e
  <2>4. /\ e \in DOMAIN cand.entities /\ f \in DOMAIN cand.entities[e].fields
        /\ <<e, f>> \notin excluded
      BY <1>1, <2>3
  <2>5. Column(a, <<e, f>>) = Column(cand, <<e, f>>)
    <3>1. a.entities[e].table = cand.entities[e].table
          /\ a.entities[e].fields[f] = cand.entities[e].fields[f]
        BY <1>1, <2>3, <2>4
    <3> QED
        BY <3>1 DEF Column
  <2>6. <<e, f>> \in FieldsOf(cand) \ excluded
      BY <2>4 DEF FieldsOf
  <2>7. Column(cand, <<e, f>>) \in OnPage.columns
      BY <2>6 DEF OnPage, Columns
  <2> QED
      BY <2>2, <2>5, <2>7 DEF e
<1>3. ASSUME NEW t \in a.tools
      PROVE  t.name \in OnPage.tools
  <2>1. PICK u \in Kept(cand.tools) : t = KeptTool(u)
      BY <1>1
  <2>2. u \in cand.tools /\ u \in Tool /\ u.name \notin disabledTools
      BY WellFormedEntity DEF Kept
  <2>3. t.name = u.name
      BY <2>1, <2>2, KeptToolType
  <2> QED
      BY <2>2, <2>3 DEF OnPage, ToolNames
<1> QED
    BY <1>2, <1>3 DEF a, ToolNames

\* Validate, part by part: the names are told apart as before, and a tool that
\* names no closed field finds all of its own.
LEMMA AssembleStaysValid ==
    ASSUME WellFormed(cand), Validate(cand)
    PROVE  LET m == Assemble(cand)
           IN  \/ Validate(m)
               \/ m.tools = {}
               \/ \E t \in m.tools : \E f \in t.select \cup t.filters : <<t.entity, f>> \in excluded
<1> DEFINE a == Assemble(cand)
<1> SUFFICES ASSUME a.tools # {},
                    \A t \in a.tools : \A f \in t.select \cup t.filters : <<t.entity, f>> \notin excluded
             PROVE  Validate(a)
    OBVIOUS
<1>1. /\ DOMAIN a.entities = DOMAIN cand.entities
      /\ \A e \in DOMAIN cand.entities :
            DOMAIN a.entities[e].fields =
                {f \in DOMAIN cand.entities[e].fields : <<e, f>> \notin excluded}
      /\ a.tools = {KeptTool(t) : t \in Kept(cand.tools)}
    BY AssembledParts
<1>2. \A t, u \in a.tools : t.name = u.name => t = u
    BY AssembleIsWellFormed, WellFormedEntity
<1> HIDE DEF a
<1>3. ASSUME NEW t \in a.tools PROVE ValidTool(a, t)
  <2>1. PICK u \in Kept(cand.tools) : t = KeptTool(u)
      BY <1>1
  <2>2. u \in cand.tools /\ u \in Tool /\ (u.kind = "query" => Open(u) # {})
      BY WellFormedEntity DEF Kept
  <2>3. /\ t.kind = u.kind /\ t.entity = u.entity /\ t.filters = u.filters
        /\ t.select \subseteq u.select
        /\ t.kind = "query" => t.select # {}
    <3>1. Open(u) \subseteq u.select
        BY DEF Open
    <3> QED
        BY <2>1, <2>2, <3>1, KeptToolType
  <2>4. ValidTool(cand, u)
      BY <2>2 DEF Validate
  <2>5. ASSUME NEW f \in t.select \cup t.filters PROVE f \in DOMAIN a.entities[t.entity].fields
    <3>1. f \in DOMAIN cand.entities[t.entity].fields /\ t.entity \in DOMAIN cand.entities
        BY <2>3, <2>4 DEF ValidTool
    <3> QED
        BY <1>1, <3>1
  <2>6. t.kind \in {"count", "query"} /\ t.entity \in DOMAIN a.entities
      BY <1>1, <2>3, <2>4 DEF ValidTool
  <2> QED
      BY <2>3, <2>5, <2>6 DEF ValidTool
<1> QED
    BY <1>2, <1>3 DEF Validate

\* Assembling a valid candidate gives a valid manifest, unless all its tools
\* went or one names a closed field other than to return it, for every
\* manifest the wizard may start from (Wizard, AssembleIsValid).
THEOREM AssembliesAreValid == Spec => []AssembleIsValid
<1>1. TypeOK /\ PageInv => AssembleIsValid
    BY AssembleStaysValid DEF AssembleIsValid, TypeOK
<1> QED
    BY <1>1, WizardTypeCorrect, PTL

-----------------------------------------------------------------------------
(* What is served was open.                                                *)

\* A publish exposes nothing that was closed on the page at its click.
IsOpen(r) ==
    Validate(r.m) => Exposed(r.m) \subseteq r.open.columns /\ ToolNames(r.m) \subseteq r.open.tools

OpenInv ==
    /\ OnlyOpenedIsServed
    /\ request.kind = "apply" => IsOpen(request)
    /\ \A r \in stray : IsOpen(r)

\* At the start the promise is what is live.
LEMMA InitOpen == Init => OpenInv
BY DEF Init, OpenInv, OnlyOpenedIsServed

\* An apply that is handled serves what its click promised.
LEMMA ServedIsOpen ==
    ASSUME NEW r, IsOpen(r), SetLive(r.m, r.open)
    PROVE  OnlyOpenedIsServed'
<1>1. Exposed(live') \subseteq promise'.columns /\ ToolNames(live') \subseteq promise'.tools
    BY DEF IsOpen, SetLive
<1> QED
    BY <1>1 DEF OnlyOpenedIsServed, Exposed, ToolNames, Column

\* No step serves more.
LEMMA StepOpen == TypeOK /\ OpenInv /\ [Next]_vars => OpenInv'
<1> SUFFICES ASSUME TypeOK, OpenInv, [Next]_vars PROVE OpenInv'
    OBVIOUS
<1>1. ASSUME UNCHANGED <<live, promise>> PROVE OnlyOpenedIsServed'
    BY <1>1 DEF OpenInv, OnlyOpenedIsServed, Exposed, ToolNames, Column
<1>2. ASSUME UNCHANGED <<live, promise, stray>>, request' \in {request, Idle} PROVE OpenInv'
    BY <1>1, <1>2 DEF OpenInv, IsOpen
<1>3. CASE \/ UNCHANGED vars \/ ExportServed \/ ExportAnswered \/ ExportFailed
           \/ Forward \/ Jump \/ Edits \/ TableAdded \/ AdviceTaken \/ Failed \/ Published
    BY <1>2, <1>3 DEF vars, page, ExportServed, ExportAnswered, ExportFailed, Forward, Jump, GoTo,
        Edits, removeEntity, setExpr, toggleField, toggleTool, Edit, TableAdded, AdviceTaken,
        Failed, CandidateAnswered, Published
<1>4. ASSUME NEW r, Send(r), r.kind = "apply" => IsOpen(r) PROVE OpenInv'
  <2>1. OnlyOpenedIsServed'
      BY <1>1, <1>4 DEF Send
  <2> QED
      BY <1>4, <2>1 DEF Send, OpenInv, IsOpen
<1>5. ASSUME NEW table \in Table, addTable(table.id) PROVE OpenInv'
    BY <1>4, <1>5 DEF addTable
<1>6. CASE runAdvise
    BY <1>4, <1>6 DEF runAdvise
<1>7. CASE publish
  <2>1. WellFormed(cand)
      BY <1>7 DEF publish, Shown, TypeOK
  <2>2. IsOpen([kind |-> "apply", state |-> "sent", m |-> Assemble(cand), open |-> OnPage])
      BY <2>1, AssembledIsOpen DEF IsOpen
  <2> QED
      BY <1>4, <1>7, <2>2 DEF publish
<1>8. CASE Applied
  <2>1. OnlyOpenedIsServed'
      BY <1>8, ServedIsOpen DEF Applied, OpenInv
  <2>2. request'.m = request.m /\ request'.open = request.open /\ stray' = stray
      BY <1>8 DEF Applied
  <2> QED
      BY <1>8, <2>1, <2>2 DEF Applied, OpenInv, IsOpen
<1>9. CASE AnswerLost
  <2>1. OnlyOpenedIsServed'
      BY <1>1, <1>9 DEF AnswerLost
  <2> QED
      BY <1>9, <2>1 DEF AnswerLost, OpenInv, IsOpen
<1>10. CASE StrayApplied
  <2>1. PICK r \in stray : SetLive(r.m, r.open) /\ stray' = stray \ {r}
      BY <1>10 DEF StrayApplied
  <2>2. OnlyOpenedIsServed'
      BY <2>1, ServedIsOpen DEF OpenInv
  <2> QED
      BY <1>10, <2>1, <2>2 DEF StrayApplied, OpenInv, IsOpen
<1>11. CASE Reopen
  <2>1. OnlyOpenedIsServed'
      BY <1>1, <1>11 DEF Reopen
  <2> QED
      BY <1>11, <2>1 DEF Reopen, OpenInv, IsOpen
<1> QED
    BY <1>3, <1>5, <1>6, <1>7, <1>8, <1>9, <1>10, <1>11 DEF Next

\* What the agent serves was open on the page when the operator published it,
\* whatever was edited, lost or left since (Wizard, OnlyOpenedIsServed).
THEOREM NothingClosedIsServed == Spec => []OnlyOpenedIsServed
<1>1. Init => OpenInv
    BY InitOpen
<1>2. TypeOK /\ OpenInv /\ [Next]_vars => OpenInv'
    BY StepOpen
<1>3. OpenInv => OnlyOpenedIsServed
    BY DEF OpenInv
<1> QED
    BY <1>1, <1>2, <1>3, WizardTypeCorrect, PTL DEF Spec

-----------------------------------------------------------------------------
(* What the review compares with.                                          *)

\* What was read, and what an answer that is still on its way says, is live
\* unless something was set live that the page was not told of.
DiffInv ==
    /\ DiffIsTrue
    /\ loading.state = "read" /\ ~unseen => loading.m = live
    /\ request.kind = "apply" /\ request.state = "live" /\ ~unseen
        => request.m = live

\* No step breaks it.
LEMMA StepDiff == TypeOK /\ PageInv /\ DiffInv /\ [Next]_vars => DiffInv'
<1> SUFFICES ASSUME TypeOK, PageInv, DiffInv, [Next]_vars PROVE DiffInv'
    OBVIOUS
<1> USE DEF DiffInv, DiffIsTrue, PageInv
<1>1. ASSUME UNCHANGED <<live, loading, current, request, unseen>> PROVE DiffInv'
    BY <1>1
<1>2. CASE UNCHANGED vars \/ Forward \/ Jump \/ Edits
  <2>1. UNCHANGED <<live, loading, current, request, unseen>>
      BY <1>2 DEF vars, page, Forward, Jump, GoTo, Edits, Edit, removeEntity, setExpr,
          toggleField, toggleTool
  <2> QED
      BY <1>1, <2>1
<1>3. CASE ExportServed \/ ExportAnswered \/ ExportFailed
    BY <1>3 DEF ExportServed, ExportAnswered, ExportFailed
<1>4. ASSUME NEW r, Send(r), r.kind = "apply" => r.state = "sent" PROVE DiffInv'
    BY <1>4 DEF Send
<1>5. ASSUME NEW table \in Table, addTable(table.id) PROVE DiffInv'
    BY <1>4, <1>5 DEF addTable
<1>6. CASE runAdvise
    BY <1>4, <1>6 DEF runAdvise
<1>7. CASE publish
    BY <1>4, <1>7 DEF publish
<1>8. ASSUME NEW m, CandidateAnswered(m), request # Idle,
             request.kind = "apply" => request.state = "sent"
      PROVE  DiffInv'
    BY <1>8 DEF CandidateAnswered
<1>9. CASE TableAdded \/ AdviceTaken \/ Failed
    BY <1>8, <1>9 DEF TableAdded, AdviceTaken, Failed
<1>10. CASE Applied
  <2>1. request'.m = request.m /\ request'.kind = "apply" /\ request'.state = "live"
      BY <1>10 DEF Applied, TypeOK, IsApply
  <2>2. live' = request.m /\ UNCHANGED page /\ request # Idle
      BY <1>10 DEF Applied, SetLive
  <2>3. loading'.state = "done" /\ current' = current /\ loading' = loading /\ unseen' = unseen
      BY <1>10, <2>2 DEF Applied, page
  <2> QED
      BY <2>1, <2>2, <2>3
<1>11. CASE Published
    BY <1>11 DEF Published, Sent
<1>12. CASE AnswerLost
    BY <1>12 DEF AnswerLost, page, TypeOK, IsApply
<1>13. CASE StrayApplied
    BY <1>13 DEF StrayApplied, page
<1>14. CASE Reopen
    BY <1>14 DEF Reopen
<1> QED
    BY <1>2, <1>3, <1>5, <1>6, <1>7, <1>9, <1>10, <1>11, <1>12, <1>13, <1>14 DEF Next

\* What the review shows as live is live, whatever was edited while a publish
\* ran, unless an answer never reached the page (Wizard, DiffIsTrue).
THEOREM ReviewIsTrue == Spec => []DiffIsTrue
<1>1. Init => DiffInv
    BY DEF Init, DiffInv, DiffIsTrue
<1>2. TypeOK /\ PageInv /\ DiffInv /\ [Next]_vars => DiffInv'
    BY StepDiff
<1>3. DiffInv => DiffIsTrue
    BY DEF DiffInv
<1> QED
    BY <1>1, <1>2, <1>3, WizardTypeCorrect, PTL DEF Spec

-----------------------------------------------------------------------------
(* Masks stay.                                                             *)

\* A table that is being added is read by no entity of the candidate: addTable
\* saw to it, and the edits made meanwhile only take entities away.
AddInv ==
    request.kind = "suggest" =>
        \A e \in DOMAIN cand.entities : cand.entities[e].table # request.table

\* An edit of the operator changes no table.
LEMMA EditsAddNothing ==
    ASSUME TypeOK, Edits
    PROVE  /\ DOMAIN cand'.entities \subseteq DOMAIN cand.entities
           /\ \A e \in DOMAIN cand'.entities : cand'.entities[e].table = cand.entities[e].table
           /\ request' = request
<1>1. WellFormed(cand)
    BY DEF Edits, TypeOK
<1>2. ASSUME NEW e, removeEntity(e)
      PROVE  /\ DOMAIN cand'.entities \subseteq DOMAIN cand.entities
             /\ \A d \in DOMAIN cand'.entities : cand'.entities[d] = cand.entities[d]
    BY <1>2 DEF removeEntity, Restrict
<1>3. ASSUME NEW e, NEW f, NEW x, setExpr(e, f, x)
      PROVE  /\ DOMAIN cand'.entities = DOMAIN cand.entities
             /\ \A d \in DOMAIN cand'.entities : cand'.entities[d].table = cand.entities[d].table
  <2>1. cand \in [entities : {cand.entities}, tools : SUBSET Tool]
        /\ \A d \in DOMAIN cand.entities : EntityOK(cand.entities[d])
      BY <1>1 DEF WellFormed, EntityOK
  <2>2. cand'.entities = [cand.entities EXCEPT ![e].fields[f].expression = x]
      BY <1>3, <2>1 DEF setExpr
  <2> QED
      BY <2>1, <2>2 DEF EntityOK
<1>4. ASSUME NEW e, NEW f, toggleField(e, f) PROVE cand' = cand
    BY <1>4 DEF toggleField
<1>5. ASSUME NEW name, toggleTool(name) PROVE cand' = cand
    BY <1>5 DEF toggleTool
<1>6. request' = request
    BY DEF Edits, Edit, removeEntity, setExpr, toggleField, toggleTool
<1> QED
    BY <1>2, <1>3, <1>4, <1>5, <1>6 DEF Edits

\* It stays true.
LEMMA StepAdd == TypeOK /\ PageInv /\ AddInv /\ [Next]_vars => AddInv'
<1> SUFFICES ASSUME TypeOK, PageInv, AddInv, [Next]_vars PROVE AddInv'
    OBVIOUS
<1> USE DEF AddInv
<1>1. CASE Edits
    BY <1>1, EditsAddNothing
<1>2. ASSUME NEW r, Send(r), r.kind = "apply" \/ r.kind = "advise" PROVE AddInv'
    BY <1>2 DEF Send
<1>3. CASE runAdvise \/ publish
    BY <1>2, <1>3 DEF runAdvise, publish
<1>4. ASSUME NEW table \in Table, addTable(table.id) PROVE AddInv'
    BY <1>4 DEF addTable, Send
<1>5. CASE TableAdded \/ AdviceTaken \/ Failed
    BY <1>5 DEF TableAdded, AdviceTaken, Failed, CandidateAnswered
<1>6. CASE UNCHANGED vars \/ ExportServed \/ Forward \/ Jump \/ StrayApplied
  <2>1. cand' = cand /\ request' = request
      BY <1>6 DEF vars, page, ExportServed, Forward, Jump, GoTo, StrayApplied
  <2> QED
      BY <2>1
<1>7. CASE ExportAnswered \/ ExportFailed
    BY <1>7 DEF ExportAnswered, ExportFailed, PageInv
<1>8. CASE Applied
    BY <1>8 DEF Applied
<1>9. CASE Published \/ AnswerLost \/ Reopen
    BY <1>9 DEF Published, AnswerLost, Reopen
<1> QED
    BY <1>1, <1>3, <1>4, <1>5, <1>6, <1>7, <1>8, <1>9 DEF Next
\* A field that lets its column be read.
IsBare(field) == field.expression \notin Mask

\* The columns of a manifest, entity by entity, and those that are bare.
LEMMA ColumnOf ==
    ASSUME NEW m, NEW c
    PROVE  /\ c \in Columns(m, FieldsOf(m)) <=>
                \E e \in DOMAIN m.entities : \E f \in DOMAIN m.entities[e].fields :
                    c = <<m.entities[e].table, m.entities[e].fields[f].column>>
           /\ c \in Bare(m) <=>
                \E e \in DOMAIN m.entities : \E f \in DOMAIN m.entities[e].fields :
                    /\ c = <<m.entities[e].table, m.entities[e].fields[f].column>>
                    /\ IsBare(m.entities[e].fields[f])
<1>1. ASSUME NEW e, NEW f
      PROVE  /\ Column(m, <<e, f>>) = <<m.entities[e].table, m.entities[e].fields[f].column>>
             /\ <<e, f>> \in FieldsOf(m) <=> e \in DOMAIN m.entities /\ f \in DOMAIN m.entities[e].fields
             /\ <<e, f>>[1] = e /\ <<e, f>>[2] = f
    BY DEF Column, FieldsOf
<1>2. ASSUME NEW ef \in FieldsOf(m)
      PROVE  \E e \in DOMAIN m.entities : \E f \in DOMAIN m.entities[e].fields : ef = <<e, f>>
    BY DEF FieldsOf
<1>3. c \in Columns(m, FieldsOf(m)) <=> \E ef \in FieldsOf(m) : c = Column(m, ef)
    BY DEF Columns
<1>4. c \in Bare(m) <=> \E ef \in FieldsOf(m) : /\ IsBare(m.entities[ef[1]].fields[ef[2]])
                                              /\ c = Column(m, ef)
  <2>1. Bare(m) = Columns(m, {ef \in FieldsOf(m) : IsBare(m.entities[ef[1]].fields[ef[2]])})
      BY DEF Bare, IsBare
  <2> QED
      BY <2>1 DEF Columns
<1> DEFINE At(e, f) == <<m.entities[e].table, m.entities[e].fields[f].column>>
           Opened(e, f) == IsBare(m.entities[e].fields[f])
<1>5. ASSUME NEW e, NEW f, NEW ef, ef = <<e, f>>
      PROVE  Column(m, ef) = At(e, f) /\ (IsBare(m.entities[ef[1]].fields[ef[2]]) <=> Opened(e, f))
    BY <1>1, <1>5
<1>6. ASSUME NEW e \in DOMAIN m.entities, NEW f \in DOMAIN m.entities[e].fields
      PROVE  \E ef \in FieldsOf(m) : ef = <<e, f>>
    BY <1>1
<1>7. c \in Columns(m, FieldsOf(m)) <=>
        \E e \in DOMAIN m.entities : \E f \in DOMAIN m.entities[e].fields : c = At(e, f)
  <2> HIDE DEF At
  <2> QED
      BY <1>2, <1>3, <1>5, <1>6
<1>8. c \in Bare(m) <=>
        \E e \in DOMAIN m.entities : \E f \in DOMAIN m.entities[e].fields :
            c = At(e, f) /\ Opened(e, f)
  <2> HIDE DEF At, Opened
  <2> QED
      BY <1>2, <1>4, <1>5, <1>6
<1> QED
    BY <1>7, <1>8

\* A table that is added takes the mask off no column the candidate has.
LEMMA MergeKeepsMasks ==
    ASSUME WellFormed(cand), NEW table \in STRING,
           \A e \in DOMAIN cand.entities : cand.entities[e].table # table,
           NEW c \in Bare(Merge(cand, Suggest({table}))), c \in Columns(cand, FieldsOf(cand))
    PROVE  c \in Bare(cand)
<1> DEFINE s == Suggest({table})
           m == Merge(cand, s)
<1>1. \A e \in DOMAIN s.entities : s.entities[e].table = table
  <2>1. \A i \in Chosen({table}) : Schema[i].id = table
      BY DEF Chosen
  <2>2. /\ DOMAIN s.entities = {EntityKey({table})[i] : i \in Chosen({table})}
        /\ \A i \in Chosen({table}) :
            s.entities[EntityKey({table})[i]] = [table |-> Schema[i].id, fields |-> EntityFields(i)]
      BY SuggestedEntities
  <2> HIDE DEF s
  <2>3. ASSUME NEW e \in DOMAIN s.entities PROVE s.entities[e].table = table
    <3>1. PICK i \in Chosen({table}) : e = EntityKey({table})[i]
        BY <2>2
    <3>2. s.entities[e] = [table |-> Schema[i].id, fields |-> EntityFields(i)]
        BY <2>2, <3>1
    <3> QED
        BY <2>1, <3>2
  <2> QED
      BY <2>3
<1>2. /\ DOMAIN m.entities = DOMAIN s.entities \cup DOMAIN cand.entities
      /\ \A e \in DOMAIN s.entities : m.entities[e] = s.entities[e]
      /\ \A e \in DOMAIN cand.entities \ DOMAIN s.entities : m.entities[e] = cand.entities[e]
  <2> HIDE DEF s
  <2> QED
      BY DEF Merge
<1> HIDE DEF s, m
<1>3. PICK e \in DOMAIN m.entities : \E f \in DOMAIN m.entities[e].fields :
            /\ c = <<m.entities[e].table, m.entities[e].fields[f].column>>
            /\ IsBare(m.entities[e].fields[f])
    BY ColumnOf DEF m, s
<1>4. PICK d \in DOMAIN cand.entities : c[1] = cand.entities[d].table
    BY ColumnOf
<1>5. m.entities[e].table # table
    BY <1>3, <1>4
<1>6. e \in DOMAIN cand.entities /\ m.entities[e] = cand.entities[e]
    BY <1>1, <1>2, <1>5
<1> QED
    BY <1>3, <1>6, ColumnOf

\* Something other than a mask that an answer of the assistant names for a
\* column.
Names(advice, c) ==
    \E a \in advice : <<a.table, a.column>> = c /\ a.expression \notin Mask \cup {""}

\* Advice takes the mask off no column but by such a name: what is taken up is
\* never empty.
LEMMA AdviceKeepsMasks ==
    ASSUME WellFormed(cand), NEW advice \in Advice, NEW c \in Bare(Advised(cand, advice))
    PROVE  c \in Bare(cand) \/ Names(advice, c)
<1> DEFINE m == Advised(cand, advice)
<1>1. /\ DOMAIN m.entities = DOMAIN cand.entities
      /\ \A e \in DOMAIN cand.entities :
            /\ m.entities[e].table = cand.entities[e].table
            /\ m.entities[e].fields = AdvisedFields(cand, advice, e)
  <2>1. m.entities = [e \in DOMAIN cand.entities |->
                        [table |-> cand.entities[e].table, fields |-> AdvisedFields(cand, advice, e)]]
      BY DEF Advised, AdvisedFields
  <2> HIDE DEF m
  <2> QED
      BY <2>1
<1> HIDE DEF m
<1>2. PICK e \in DOMAIN m.entities : \E f \in DOMAIN m.entities[e].fields :
            /\ c = <<m.entities[e].table, m.entities[e].fields[f].column>>
            /\ IsBare(m.entities[e].fields[f])
    BY ColumnOf DEF m
<1>3. PICK f \in DOMAIN m.entities[e].fields :
            /\ c = <<m.entities[e].table, m.entities[e].fields[f].column>>
            /\ IsBare(m.entities[e].fields[f])
    BY <1>2
<1> DEFINE field == cand.entities[e].fields[f]
           said == Said(advice, Column(cand, <<e, f>>))
<1>4. /\ e \in DOMAIN cand.entities /\ f \in DOMAIN cand.entities[e].fields
      /\ m.entities[e].fields[f] = TakenUp(field, said)
    BY <1>1 DEF AdvisedFields
<1>5. field \in Field
    BY <1>4, EntityType
<1>6. ASSUME NEW x \in said, x \notin Mask
      PROVE  Names(advice, Column(cand, <<e, f>>))
    BY <1>6 DEF Said, Names
<1>10. Column(cand, <<e, f>>) = <<cand.entities[e].table, field.column>>
    BY DEF Column
<1> HIDE DEF field, said
<1>7. TakenUp(field, said).column = field.column
    BY <1>5 DEF TakenUp, Field
<1>8. IsBare(TakenUp(field, said)) => IsBare(field) \/ Names(advice, Column(cand, <<e, f>>))
  <2>1. CASE said = {}
      BY <2>1 DEF TakenUp
  <2>2. CASE said # {}
    <3>1. (CHOOSE x \in said : TRUE) \in said
        BY <2>2
    <3>2. TakenUp(field, said).expression = CHOOSE x \in said : TRUE
        BY <1>5, <2>2 DEF TakenUp, Field
    <3> QED
        BY <1>6, <3>1, <3>2 DEF IsBare
  <2> QED
      BY <2>1, <2>2
<1>9. /\ c = <<cand.entities[e].table, cand.entities[e].fields[f].column>>
      /\ c = Column(cand, <<e, f>>)
    BY <1>1, <1>3, <1>4, <1>7, <1>10 DEF field
<1>11. IsBare(cand.entities[e].fields[f]) \/ Names(advice, c)
    BY <1>3, <1>4, <1>8, <1>9 DEF field
<1> QED
    BY <1>4, <1>9, <1>11, ColumnOf

\* No step but an edit, and an answer that names it, takes a mask off.
MasksKept ==
    edits' = edits /\ cand # None /\ cand' # None =>
        \/ Unmasked = {}
        \/ \E advice \in Advice :
            /\ cand' = Advised(cand, advice)
            /\ \A c \in Unmasked : \E a \in advice :
                <<a.table, a.column>> = c /\ a.expression \notin Mask \cup {""}

LEMMA StepKeepsMasks ==
    ASSUME TypeOK, PageInv, AddInv, [Next]_vars
    PROVE  MasksKept
<1> SUFFICES ASSUME edits' = edits, cand # None, cand' # None, Unmasked # {}
             PROVE  \E advice \in Advice :
                        /\ cand' = Advised(cand, advice)
                        /\ \A c \in Unmasked : Names(advice, c)
    BY DEF MasksKept, Names
<1>1. cand' # cand
    BY DEF Unmasked
<1>2. CASE Edits
  <2>1. edits \in Nat /\ edits' = edits + 1
    <3>1. Edit => edits' = edits + 1
        BY DEF Edit
    <3>2. Edit
        BY <1>2 DEF Edits, removeEntity, setExpr, toggleField, toggleTool
    <3> QED
        BY <3>1, <3>2 DEF TypeOK
  <2> QED
      BY <2>1
<1>3. CASE ExportAnswered \/ ExportFailed
    BY <1>3 DEF ExportAnswered, ExportFailed, PageInv
<1>4. CASE TableAdded
  <2>1. /\ WellFormed(cand) /\ request.table \in STRING
        /\ \A e \in DOMAIN cand.entities : cand.entities[e].table # request.table
        /\ cand' = Merge(cand, Suggest({request.table}))
      BY <1>4 DEF TableAdded, CandidateAnswered, TypeOK, AddInv, IsApply
  <2>2. Unmasked = {}
      BY <2>1, MergeKeepsMasks DEF Unmasked
  <2> QED
      BY <2>2
<1>5. CASE AdviceTaken
  <2>1. PICK advice \in Advice : cand' = Advised(cand, advice)
      BY <1>5 DEF AdviceTaken, CandidateAnswered
  <2>2. \A c \in Unmasked : Names(advice, c)
      BY <2>1, AdviceKeepsMasks DEF TypeOK, Unmasked
  <2> QED
      BY <2>1, <2>2
<1>6. CASE \/ UNCHANGED vars \/ ExportServed \/ Forward \/ Jump \/ runAdvise \/ publish
           \/ (\E table \in Table : addTable(table.id))
           \/ Failed \/ Applied \/ Published \/ AnswerLost \/ StrayApplied
  <2>1. cand' = cand
      BY <1>6 DEF vars, page, ExportServed, Forward, Jump, GoTo, runAdvise, publish, addTable,
          Send, Failed, CandidateAnswered, Applied, Published, AnswerLost, StrayApplied
  <2> QED
      BY <1>1, <2>1
<1>7. CASE Reopen
    BY <1>7 DEF Reopen
<1> QED
    BY <1>2, <1>3, <1>4, <1>5, <1>6, <1>7 DEF Next

\* Nothing but an edit of the operator takes a mask off a column, and an answer
\* of the assistant that names no mask for that very column, whatever the schema
\* and the advice (Wizard, UnmaskedOnlyByName).
THEOREM MasksStay == Spec => UnmaskedOnlyByName
<1>1. Init => AddInv
    BY DEF Init, AddInv
<1>2. TypeOK /\ PageInv /\ AddInv /\ [Next]_vars => AddInv'
    BY StepAdd
<1>3. TypeOK /\ PageInv /\ AddInv /\ [Next]_vars => [MasksKept]_vars
    BY StepKeepsMasks
<1> QED
    BY <1>1, <1>2, <1>3, WizardTypeCorrect, PTL DEF Spec, UnmaskedOnlyByName, MasksKept

-----------------------------------------------------------------------------
(* The sessions.                                                           *)


\* What the places hold, apart from where each token came from.
FlightOK == inFlight \in [Place -> Request \cup {Nothing}]
TokensOK == \A p \in Place : inFlight[p] # Nothing => inFlight[p].token \in issued \cup {Nothing}

\* A page that is loaded or sends a request holds only tokens it was given.
LEMMA SentHoldsGiven ==
    ASSUME SessionTypeOK, NEW p \in Place,
           NEW kind \in {"status", "health", "other", "login", "wrong"},
           inFlight' = SentTo(p, kind), issued' = issued
    PROVE  FlightOK' /\ TokensOK'
BY DEF SessionTypeOK, SentTo, Request, FlightOK, TokensOK

\* A page that was just loaded, and no sessions.
LEMMA InitSession == SessionInit => SessionTypeOK
<1> SUFFICES ASSUME SessionInit PROVE SessionTypeOK
    OBVIOUS
<1>1. FlightOK /\ TokensOK
    BY DEF SessionInit, Request, FlightOK, TokensOK, Place
<1> QED
    BY <1>1 DEF SessionInit, SessionTypeOK, FlightOK, TokensOK

\* The agent's answer.
LEMMA ServeSession ==
    ASSUME SessionTypeOK, NEW p \in Place, Serve(p)
    PROVE  SessionTypeOK'
<1> DEFINE r == inFlight[p]
<1>1. r \in Request /\ r.token \in issued \cup {Nothing}
    BY DEF SessionTypeOK, Serve
<1>2. CASE gated(p)
  <2>1. sessions' \in [Token -> {"none", "valid", "expired"}]
        /\ \A t \in Token : sessions'[t] # "none" => t \in issued
      BY <1>2, <1>1 DEF gated, AfterValid, SessionTypeOK
  <2>2. FlightOK' /\ TokensOK'
      BY <1>2, <1>1 DEF gated, SessionTypeOK, Request, FlightOK, TokensOK
  <2> QED
      BY <1>2, <2>1, <2>2 DEF gated, Serve, SessionTypeOK, app, FlightOK, TokensOK
<1>3. CASE authStatus(p)
  <2>1. FlightOK' /\ TokensOK'
      BY <1>3, <1>1 DEF authStatus, server, SessionTypeOK, Request, FlightOK, TokensOK
  <2> QED
      BY <1>3, <2>1 DEF authStatus, server, Serve, SessionTypeOK, app, FlightOK, TokensOK
<1>4. CASE login(p)
  <2>1. CASE ~auth /\ UNCHANGED server
    <3>1. inFlight' = [inFlight EXCEPT ![p].answer = "error"]
        BY <1>4, <2>1 DEF login
    <3>2. FlightOK' /\ TokensOK'
        BY <3>1, <2>1, <1>1 DEF server, SessionTypeOK, Request, FlightOK, TokensOK
    <3> QED
        BY <2>1, <3>2 DEF server, Serve, SessionTypeOK, app, FlightOK, TokensOK
  <2>2. CASE auth
    <3>1. PICK t \in Token \ issued :
            /\ issued' = issued \cup {t}
            /\ sessions' = Collected([sessions EXCEPT ![t] = "valid"])
            /\ inFlight' = [inFlight EXCEPT ![p].answer = "ok", ![p].token = t]
        BY <1>4, <2>2 DEF login
    <3>2. auth' = auth
        BY <1>4, <2>2 DEF login
    <3>3. /\ sessions' \in [Token -> {"none", "valid", "expired"}]
          /\ issued' \subseteq Token
          /\ \A u \in Token : sessions'[u] # "none" => u \in issued'
        BY <3>1 DEF Collected, SessionTypeOK
    <3>4. FlightOK' /\ TokensOK'
        BY <3>1, <1>1 DEF SessionTypeOK, Request, FlightOK, TokensOK
    <3> QED
        BY <3>1, <3>2, <3>3, <3>4 DEF Serve, SessionTypeOK, app, FlightOK, TokensOK
  <2> QED
      BY <1>4, <2>1, <2>2 DEF login
<1>5. CASE wrongPassword(p)
  <2>1. FlightOK' /\ TokensOK'
      BY <1>5, <1>1 DEF wrongPassword, server, SessionTypeOK, Request, FlightOK, TokensOK
  <2> QED
      BY <1>5, <2>1 DEF wrongPassword, server, Serve, SessionTypeOK, app, FlightOK, TokensOK
<1> QED
    BY <1>2, <1>3, <1>4, <1>5 DEF Serve

\* The page's reaction.
LEMMA AnsweredSession ==
    ASSUME SessionTypeOK, NEW p \in Place, Answered(p)
    PROVE  SessionTypeOK'
<1> DEFINE r == inFlight[p]
<1>1. r \in Request /\ r.token \in issued \cup {Nothing}
    BY DEF SessionTypeOK, Answered
<1>2. FlightOK' /\ TokensOK'
    BY DEF Answered, server, SessionTypeOK, FlightOK, TokensOK
<1>3. /\ authRequired' \in {"unknown", "yes", "no"}
      /\ authed' \in BOOLEAN
      /\ authToken' \in issued \cup {Nothing}
  <2>1. CASE StatusTaken(r)
      BY <2>1 DEF StatusTaken, Required, SessionTypeOK
  <2>2. CASE HealthTaken(r)
      BY <2>2 DEF HealthTaken, TokenAfter, SessionTypeOK
  <2>3. CASE OtherTaken(r)
      BY <2>3 DEF OtherTaken, TokenAfter, SessionTypeOK
  <2>4. CASE LoginTaken(r)
      BY <2>4, <1>1 DEF LoginTaken, SessionTypeOK
  <2> QED
      BY <2>1, <2>2, <2>3, <2>4 DEF Answered
<1> QED
    BY <1>2, <1>3 DEF Answered, server, SessionTypeOK, FlightOK, TokensOK

\* Every step keeps the types.
LEMMA StepSession == SessionTypeOK /\ [SessionNext]_sessionVars => SessionTypeOK'
<1> SUFFICES ASSUME SessionTypeOK, [SessionNext]_sessionVars PROVE SessionTypeOK'
    OBVIOUS
<1> USE DEF server, app, counters
<1>1. CASE UNCHANGED sessionVars
    BY <1>1 DEF sessionVars, SessionTypeOK
<1>2. ASSUME NEW p \in Place, Serve(p) PROVE SessionTypeOK'
    BY <1>2, ServeSession
<1>3. ASSUME NEW p \in Place, Lose(p) PROVE SessionTypeOK'
  <2>1. FlightOK' /\ TokensOK'
      BY <1>3 DEF Lose, SessionTypeOK, Request, FlightOK, TokensOK
  <2> QED
      BY <1>3, <2>1 DEF Lose, SessionTypeOK, FlightOK, TokensOK
<1>4. ASSUME NEW p \in Place, Answered(p) PROVE SessionTypeOK'
    BY <1>4, AnsweredSession
<1>5. ASSUME NEW t \in Token, Expire(t) PROVE SessionTypeOK'
    BY <1>5 DEF Expire, SessionTypeOK
<1>6. CASE Restart
  <2>1. FlightOK' /\ TokensOK'
      BY <1>6 DEF Restart, SessionTypeOK, Request, FlightOK, TokensOK
  <2> QED
      BY <1>6, <2>1 DEF Restart, SessionTypeOK, FlightOK, TokensOK
<1>7. ASSUME NEW p \in Place, NEW kind \in {"health", "other", "login", "wrong"}, Requested(p, kind)
      PROVE  SessionTypeOK'
    BY <1>7, SentHoldsGiven DEF Requested, SessionTypeOK, FlightOK, TokensOK
<1>8. CASE tick
    BY <1>7, <1>8 DEF tick, Place
<1>9. CASE Operate
    BY <1>7, <1>9 DEF Operate, Place
<1>10. CASE submit
    BY <1>7, <1>10 DEF submit, Place
<1>11. CASE Reload
  <2>1. PICK p \in Call : Loaded(p)
      BY <1>11 DEF Reload
  <2>2. FlightOK' /\ TokensOK'
      BY <1>11, <2>1 DEF Reload, Loaded, SessionTypeOK, Request, FlightOK, TokensOK
  <2> QED
      BY <1>11, <2>1, <2>2 DEF Reload, Loaded, SessionTypeOK, FlightOK, TokensOK
<1> QED
    BY <1>1, <1>2, <1>3, <1>4, <1>5, <1>6, <1>8, <1>9, <1>10, <1>11 DEF SessionNext

\* Sessions, tokens and requests keep their types (Session,
\* SessionTypeOK).
THEOREM SessionTypeCorrect == SessionSpec => []SessionTypeOK
<1>1. SessionInit => SessionTypeOK
    BY InitSession
<1>2. SessionTypeOK /\ [SessionNext]_sessionVars => SessionTypeOK'
    BY StepSession
<1> QED
    BY <1>1, <1>2, PTL DEF SessionSpec

\* A refusal on its way to the page is of a token that has no valid session,
\* and will never have one again.
Refused ==
    \A p \in Place :
        (/\ inFlight[p] # Nothing /\ inFlight[p].kind \in {"health", "other"}
         /\ inFlight[p].answer = "401" /\ inFlight[p].token # Nothing)
            => sessions[inFlight[p].token] # "valid"

\* And a login that was let in brings a token.
RefusedInv ==
    /\ \A p \in Place :
        (/\ inFlight[p] # Nothing /\ inFlight[p].kind \in {"login", "wrong"}
         /\ inFlight[p].answer = "ok")
            => inFlight[p].token # Nothing
    /\ Refused

\* A step makes a token valid only by handing it out to a login.
LEMMA StepRevival ==
    ASSUME SessionTypeOK, [SessionNext]_sessionVars, NEW t \in Token,
           sessions[t] # "valid", sessions'[t] = "valid"
    PROVE  t \notin issued
<1>1. sessions' # sessions
    OBVIOUS
<1>2. ~ \E u \in Token : Expire(u)
    BY DEF Expire, SessionTypeOK
<1>3. ~ Restart
    BY DEF Restart
<1>4. PICK p \in Place : Serve(p)
    BY <1>1, <1>2, <1>3 DEF SessionNext, sessionVars, server, Lose, Answered, tick,
        Operate, submit, Requested, Reload
<1>5. ~ gated(p)
    BY DEF gated, AfterValid, SessionTypeOK
<1>6. login(p)
    BY <1>1, <1>4, <1>5 DEF Serve, authStatus, wrongPassword, server
<1>7. PICK u \in Token \ issued : sessions' = Collected([sessions EXCEPT ![u] = "valid"])
    BY <1>1, <1>6 DEF login, server
<1>8. t = u
    BY <1>7 DEF Collected, SessionTypeOK
<1> QED
    BY <1>7, <1>8

\* What a step makes of a request on its way: the agent answers it, it is lost,
\* or it stays.
LEMMA StepAnswer ==
    ASSUME SessionTypeOK, [SessionNext]_sessionVars, NEW p \in Place,
           inFlight'[p] # inFlight[p], inFlight'[p] # Nothing,
           inFlight'[p].answer \notin {"none", "error"}
    PROVE  Serve(p)
<1>1. inFlight \in [Place -> Request \cup {Nothing}]
    BY DEF SessionTypeOK
<1>2. ASSUME NEW q \in Place, Lose(q) PROVE FALSE
  <2>1. q = p /\ inFlight[q] \in Request
      BY <1>1, <1>2 DEF Lose
  <2> QED
      BY <1>1, <1>2, <2>1 DEF Lose, Request
<1>3. ASSUME NEW q \in Place, Answered(q) PROVE FALSE
    BY <1>1, <1>3 DEF Answered
<1>4. ~ Restart
    BY <1>1 DEF Restart, Request
<1>5. \A q \in Place, kind \in {"health", "other", "login", "wrong"} : ~ Requested(q, kind)
    BY <1>1 DEF Requested, SentTo
<1>6. ~ tick /\ ~ Operate /\ ~ submit
    BY <1>5 DEF tick, Operate, submit, Place
<1>7. ~ Reload
    BY <1>1 DEF Reload, Loaded
<1>8. PICK q \in Place : Serve(q)
    BY <1>2, <1>3, <1>4, <1>6, <1>7 DEF SessionNext, sessionVars, Expire
<1>9. q = p
    BY <1>1, <1>8 DEF Serve, gated, authStatus, login, wrongPassword
<1> QED
    BY <1>8, <1>9

\* The agent refuses only a token without a valid session.
LEMMA StepRefused ==
    SessionTypeOK /\ RefusedInv /\ [SessionNext]_sessionVars => RefusedInv'
<1> SUFFICES ASSUME SessionTypeOK, RefusedInv, [SessionNext]_sessionVars PROVE RefusedInv'
    OBVIOUS
<1>1. ASSUME NEW p \in Place,
             inFlight'[p] # Nothing, inFlight'[p].kind \in {"health", "other"},
             inFlight'[p].answer = "401", inFlight'[p].token # Nothing
      PROVE  sessions'[inFlight'[p].token] # "valid"
  <2>1. CASE inFlight'[p] = inFlight[p]
    <3>1. inFlight[p].token \in issued /\ inFlight[p].token \in Token
        BY <1>1, <2>1 DEF SessionTypeOK
    <3>2. sessions[inFlight[p].token] # "valid"
        BY <1>1, <2>1 DEF RefusedInv, Refused
    <3> QED
        BY <2>1, <3>1, <3>2, StepRevival
  <2>2. CASE inFlight'[p] # inFlight[p]
    <3>1. Serve(p)
        BY <1>1, <2>2, StepAnswer
    <3>2. inFlight \in [Place -> Request \cup {Nothing}] /\ inFlight[p] \in Request
        BY <3>1 DEF SessionTypeOK, Serve
    <3>3. gated(p)
        BY <1>1, <2>2, <3>1, <3>2 DEF Serve, authStatus, login, wrongPassword, Request
    <3>4. auth /\ ~Valid(inFlight[p].token) /\ inFlight'[p].token = inFlight[p].token
        BY <1>1, <3>2, <3>3 DEF gated, Request
    <3>5. sessions[inFlight[p].token] # "valid" /\ sessions' = AfterValid(inFlight[p].token)
        BY <1>1, <3>3, <3>4 DEF gated, Valid
    <3>6. inFlight[p] # Nothing
        BY <3>1 DEF Serve
    <3>7. inFlight[p].token \in Token
        BY <1>1, <3>4, <3>6 DEF SessionTypeOK
    <3> QED
        BY <1>1, <3>4, <3>5, <3>7 DEF AfterValid, SessionTypeOK
  <2> QED
      BY <2>1, <2>2
<1>2. ASSUME NEW p \in Place,
             inFlight'[p] # Nothing, inFlight'[p].kind \in {"login", "wrong"},
             inFlight'[p].answer = "ok"
      PROVE  inFlight'[p].token # Nothing
  <2>1. CASE inFlight'[p] = inFlight[p]
      BY <1>2, <2>1 DEF RefusedInv
  <2>2. CASE inFlight'[p] # inFlight[p]
    <3>1. Serve(p)
        BY <1>2, <2>2, StepAnswer
    <3>2. inFlight \in [Place -> Request \cup {Nothing}] /\ inFlight[p] \in Request
        BY <3>1 DEF SessionTypeOK, Serve
    <3>3. auth /\ login(p)
        BY <1>2, <3>1, <3>2 DEF Serve, gated, authStatus, login, wrongPassword, Request
    <3>4. PICK t \in Token \ issued :
                inFlight' = [inFlight EXCEPT ![p].answer = "ok", ![p].token = t]
        BY <3>3 DEF login
    <3>5. inFlight'[p].token = t
        BY <3>2, <3>4 DEF Request
    <3> QED
        BY <3>5, SessionAssumption
  <2> QED
      BY <2>1, <2>2
<1> QED
    BY <1>1, <1>2 DEF RefusedInv, Refused

\* What takes a valid token from the page.
StaleRefusal ==
    (/\ authToken # Nothing /\ sessions[authToken] = "valid"
     /\ authToken' = Nothing)
        => \E p \in Place :
            /\ inFlight[p] # Nothing /\ inFlight'[p] = Nothing
            /\ inFlight[p].answer = "401" /\ inFlight[p].token # authToken

LEMMA StepLogsOut ==
    SessionTypeOK /\ RefusedInv /\ [SessionNext]_sessionVars => StaleRefusal
<1> SUFFICES ASSUME SessionTypeOK, RefusedInv, [SessionNext]_sessionVars,
                    authToken # Nothing, sessions[authToken] = "valid", authToken' = Nothing
             PROVE  \E p \in Place :
                        /\ inFlight[p] # Nothing /\ inFlight'[p] = Nothing
                        /\ inFlight[p].answer = "401" /\ inFlight[p].token # authToken
    BY DEF StaleRefusal
<1>1. PICK p \in Place : Answered(p)
    BY DEF SessionNext, sessionVars, app, Serve, Lose, Expire, Restart, tick, Operate, submit,
        Requested, Reload
<1> DEFINE r == inFlight[p]
<1>2. r # Nothing /\ inFlight'[p] = Nothing
    BY <1>1 DEF Answered, SessionTypeOK
<1>3. ~ StatusTaken(r)
    BY DEF StatusTaken
<1>4. ~ LoginTaken(r)
  <2>1. ASSUME LoginTaken(r) PROVE r.kind \in {"login", "wrong"} /\ r.answer = "ok" /\ r.token = Nothing
      BY <2>1 DEF LoginTaken
  <2> QED
      BY <1>2, <2>1 DEF RefusedInv
<1>5. r.kind \in {"health", "other"} /\ r.answer = "401"
    BY <1>1, <1>3, <1>4 DEF Answered, HealthTaken, OtherTaken, TokenAfter
<1>6. r.token # authToken
    BY <1>2, <1>5 DEF RefusedInv, Refused
<1> QED
    BY <1>2, <1>5, <1>6

\* A page loses the token of a valid session only to a refusal of a request it
\* had sent with another, for any number of tokens, requests and faults
\* (Session, OnlyStaleRefusalsLogOut).
THEOREM ValidTokensStay == SessionSpec => OnlyStaleRefusalsLogOut
<1>1. SessionInit => RefusedInv
    BY DEF SessionInit, RefusedInv, Refused
<1>2. SessionTypeOK /\ RefusedInv /\ [SessionNext]_sessionVars => RefusedInv'
    BY StepRefused
<1>3. SessionTypeOK /\ RefusedInv /\ [SessionNext]_sessionVars => [StaleRefusal]_sessionVars
    BY StepLogsOut
<1> QED
    BY <1>1, <1>2, <1>3, SessionTypeCorrect, PTL DEF SessionSpec, OnlyStaleRefusalsLogOut, StaleRefusal
=============================================================================
