----------------------------- MODULE CallProofs -----------------------------
(***************************************************************************)
(* What a call of a tool leaves behind and what it answers.                *)
(*                                                                         *)
(* Of Audit, for any number of runs, records and failed writes, and any    *)
(* size of the window: the types, that the chain tells of a record lost    *)
(* before another, and that the window is the end of the records.  Of      *)
(* Answers, for any finite table, any tools and texts: that an answer is   *)
(* that of the filters given, and that a mask hides.                       *)
(***************************************************************************)
EXTENDS Audit, Answers, Integers, SequenceTheorems, FiniteSetTheorems, TLAPS

-----------------------------------------------------------------------------
(* Places.                                                                 *)

\* More are up to the later of two.
LEMMA LaterHasMore ==
    ASSUME NEW S, IsFiniteSet(S), \A i \in S : i \in Nat, NEW i \in S, NEW j \in S, i < j
    PROVE  /\ Cardinality(UpTo(S, i)) \in Nat /\ Cardinality(UpTo(S, j)) \in Nat
           /\ Cardinality(UpTo(S, i)) < Cardinality(UpTo(S, j))
<1>1. /\ UpTo(S, i) \in SUBSET UpTo(S, j) /\ UpTo(S, j) \in SUBSET S
      /\ j \in UpTo(S, j) /\ j \notin UpTo(S, i)
  BY DEF UpTo
<1>2. IsFiniteSet(UpTo(S, i)) /\ IsFiniteSet(UpTo(S, j))
  BY <1>1, FS_Subset
<1>3. Cardinality(UpTo(S, i)) \in Nat /\ Cardinality(UpTo(S, j)) \in Nat
  BY <1>2, FS_CardinalityType
<1> QED
  BY <1>1, <1>2, <1>3, FS_Subset

\* The rank of a place among the others is one of as many as there are.
LEMMA RankType ==
    ASSUME NEW S, IsFiniteSet(S), NEW i \in S, i \in Nat
    PROVE  Cardinality(UpTo(S, i)) \in 1 .. Cardinality(S)
<1>1. UpTo(S, i) \in SUBSET S /\ i \in UpTo(S, i)
  BY DEF UpTo
<1>2. /\ IsFiniteSet(UpTo(S, i)) /\ Cardinality(UpTo(S, i)) <= Cardinality(S)
      /\ Cardinality(S) \in Nat
  BY <1>1, FS_Subset, FS_CardinalityType
<1>3. Cardinality(UpTo(S, i)) \in Nat /\ Cardinality(UpTo(S, i)) # 0
  BY <1>1, <1>2, FS_CardinalityType, FS_EmptySet
<1> QED
  BY <1>2, <1>3

\* There is a k-th place for every k: the ranks are as many as the places, no
\* two of which share one.
LEMMA Ranked ==
    ASSUME NEW S, IsFiniteSet(S), \A i \in S : i \in Nat, NEW k \in 1 .. Cardinality(S)
    PROVE  \E i \in S : Cardinality(UpTo(S, i)) = k
<1> DEFINE n == Cardinality(S)
           rank == [i \in S |-> Cardinality(UpTo(S, i))]
<1>1. n \in Nat
  BY FS_CardinalityType
<1> SUFFICES ASSUME \A i \in S : rank[i] # k PROVE FALSE
    OBVIOUS
<1>2. IsFiniteSet((1 .. n) \ {k}) /\ Cardinality((1 .. n) \ {k}) < n
  <2> DEFINE D == 1 .. n
  <2>1. IsFiniteSet(D) /\ Cardinality(D) = n /\ k \in D
    BY <1>1, FS_Interval
  <2> HIDE DEF D
  <2>2. IsFiniteSet(D \ {k}) /\ Cardinality(D \ {k}) = Cardinality(D) - 1
    BY <2>1, FS_RemoveElement
  <2> QED
    BY <1>1, <2>1, <2>2 DEF D
<1>3. rank \in [S -> (1 .. n) \ {k}]
  BY RankType
<1>4. PICK i, j \in S : i # j /\ rank[i] = rank[j]
  <2> HIDE DEF rank
  <2> QED
    BY <1>2, <1>3, FS_PigeonHole
<1>5. i < j \/ j < i
  BY <1>4
<1> QED
  BY <1>4, <1>5, LaterHasMore

\* The places in their order: from the first to the last, and all of them.
Enumerates(place, S) ==
    /\ place \in [1 .. Cardinality(S) -> S]
    /\ \A k \in 1 .. Cardinality(S) : Cardinality(UpTo(S, place[k])) = k
    /\ \A k, l \in 1 .. Cardinality(S) : k < l => place[k] < place[l]
    /\ \A i \in S : \E k \in 1 .. Cardinality(S) : place[k] = i

\* What is picked is read at these places.
Reads(place, s, S) ==
    /\ Enumerates(place, S)
    /\ Picked(s, S) = [k \in 1 .. Cardinality(S) |-> s[place[k]]]

\* A picked sequence reads the places from the first to the last.
LEMMA PickedInOrder ==
    ASSUME NEW S, IsFiniteSet(S), \A i \in S : i \in Nat, NEW s
    PROVE  \E place : Reads(place, s, S)
<1> DEFINE n == Cardinality(S)
           rank(i) == Cardinality(UpTo(S, i))
           spot(k) == CHOOSE i \in S : rank(i) = k
           place == [k \in 1 .. n |-> spot(k)]
<1>1. ASSUME NEW k \in 1 .. n PROVE spot(k) \in S /\ rank(spot(k)) = k
  <2>1. \E i \in S : rank(i) = k
    BY Ranked
  <2> QED
    BY <2>1
<1>2. Picked(s, S) = [k \in 1 .. n |-> s[spot(k)]]
  BY DEF Picked
<1>3. \A i, j \in S : i < j => rank(i) < rank(j) /\ rank(i) \in Nat /\ rank(j) \in Nat
  BY LaterHasMore
<1>4. \A i \in S : rank(i) \in 1 .. n
  BY RankType
<1>5. n \in Nat
  BY FS_CardinalityType
<1> HIDE DEF spot, rank
<1>6. Picked(s, S) = [k \in 1 .. n |-> s[place[k]]]
  BY <1>2
<1>7. place \in [1 .. n -> S] /\ \A k \in 1 .. n : rank(place[k]) = k
  BY <1>1
<1> HIDE DEF place
<1>8. ASSUME NEW k \in 1 .. n, NEW l \in 1 .. n, k < l
      PROVE  place[k] < place[l]
  <2>1. place[k] \in S /\ place[l] \in S /\ rank(place[k]) = k /\ rank(place[l]) = l
    BY <1>7
  <2>2. ~(place[l] < place[k]) /\ place[k] # place[l]
    BY <1>3, <1>5, <1>8, <2>1
  <2> QED
    BY <2>1, <2>2
<1>9. ASSUME NEW i \in S
      PROVE  \E k \in 1 .. n : place[k] = i
  <2>1. rank(i) \in 1 .. n
    BY <1>4
  <2>2. place[rank(i)] \in S /\ rank(place[rank(i)]) = rank(i)
    BY <1>7, <2>1
  <2>3. ~(place[rank(i)] < i) /\ ~(i < place[rank(i)])
    BY <1>3, <2>1, <2>2
  <2>4. place[rank(i)] = i
    BY <2>2, <2>3
  <2> QED
    BY <2>1, <2>4
<1> QED
  BY <1>6, <1>7, <1>8, <1>9 DEF Reads, Enumerates, rank

-----------------------------------------------------------------------------
(* What is recorded.                                                       *)

\* A run's last hash is that of its last record.
PrevInv == \A p \in Run : prev[p] = IF count[p] = 0 THEN Genesis ELSE <<p, count[p]>>

\* A line is a record of its run, linked to the one before.
LinesInv ==
    \A i \in Lines : \E q \in Run, n \in 1 .. MaxRecords :
        /\ n <= count[q] /\ file[i].hash = <<q, n>>
        /\ file[i].prev = IF n = 1 THEN Genesis ELSE <<q, n - 1>>

\* Every record is in a line or lost, never both.
InLine(h) == \E i \in Lines : file[i].hash = h
AccountInv ==
    \A q \in Run, n \in 1 .. MaxRecords :
        /\ n <= count[q] => InLine(<<q, n>>) \/ <<q, n>> \in lost
        /\ <<q, n>> \in lost => n <= count[q] /\ ~InLine(<<q, n>>)

\* LossIsNoticed speaks of all lost records before a line; an induction along
\* the chain is avoided by the one gap that the first line after them leaves.
GapInv ==
    \A q \in Run, m \in 1 .. MaxRecords :
        <<q, m>> \in lost /\ FollowedByLine(<<q, m>>) =>
            \E n \in 2 .. MaxRecords : InLine(<<q, n>>) /\ <<q, n - 1>> \in lost

\* No false alarm: what is not linked has lost its predecessor.
AlarmInv ==
    /\ \A i \in Lines : LinkedAt(i) \/ file[i].prev \in lost
    /\ lost = {} => ~ragged /\ Lines = 1 .. Len(file)

TInv == TypeOK /\ PrevInv
IInv == LinesInv /\ AccountInv /\ GapInv /\ AlarmInv

-----------------------------------------------------------------------------
(* The types.                                                              *)

\* Before the first run nothing is chained.
LEMMA TypeInit == Init => TInv
<1> SUFFICES ASSUME Init PROVE TInv
    OBVIOUS
<1>1. /\ run \in [Run -> {"new", "open", "closed", "dead"}] /\ prev \in [Run -> Hash \cup {Genesis}]
      /\ count \in [Run -> 0 .. MaxRecords] /\ failures \in 0 .. MaxFailures /\ lost \subseteq Hash
  BY AuditAssumption DEF Init
<1>2. /\ recent \in [Run -> Seq([hash : Hash, server : Server])]
      /\ \A p \in Run : Len(recent[p]) <= recentCap
  BY AuditAssumption DEF Init
<1>3. file \in Seq(Line \cup {Garbled})
  BY DEF Init
<1>4. ragged \in BOOLEAN
  BY Zenon DEF Init
<1> QED
  BY <1>1, <1>2, <1>3, <1>4 DEF Init, TInv, TypeOK, PrevInv

\* A trimmed window is a window, and fits.
LEMMA TrimmedType ==
    ASSUME NEW S, NEW s \in Seq(S), NEW e \in S, Len(s) <= recentCap
    PROVE  Trimmed(Append(s, e)) \in Seq(S) /\ Len(Trimmed(Append(s, e))) <= recentCap
<1> DEFINE t == Append(s, e)
<1>1. t \in Seq(S) /\ Len(t) = Len(s) + 1 /\ Len(s) \in Nat
  OBVIOUS
<1> HIDE DEF t
<1>2. CASE Len(t) > recentCap
  <2>1. SubSeq(t, Len(t) - recentCap + 1, Len(t)) \in Seq(S)
        /\ Len(SubSeq(t, Len(t) - recentCap + 1, Len(t))) = recentCap
    BY <1>1, <1>2, AuditAssumption
  <2> QED
    BY <1>2, <2>1, AuditAssumption DEF Trimmed, t
<1>3. CASE ~(Len(t) > recentCap)
  BY <1>1, <1>3, AuditAssumption DEF Trimmed, t
<1> QED
  BY <1>2, <1>3

\* What Record does, told apart by what becomes of its line.
NewHash(p) == <<p, count[p] + 1>>
NewLine(p) == [hash |-> NewHash(p), prev |-> prev[p]]

\* A record has a number, a hash and a line, which is written, cut short or lost.
LEMMA RecordCases ==
    ASSUME TInv, NEW p \in Run, NEW s \in Server, Record(p, s)
    PROVE  /\ count[p] + 1 \in 1 .. MaxRecords /\ count' = [count EXCEPT ![p] = @ + 1]
           /\ NewLine(p) \in Line /\ NewHash(p) \in Hash
           /\ \/ ~ragged /\ file' = Append(file, NewLine(p)) /\ lost' = lost /\ ragged' = FALSE
              \/ /\ lost' = lost \cup {NewHash(p)}
                 /\ \/ file' = file \/ (file' = Append(file, Garbled) /\ ragged')
<1>1. count[p] + 1 \in 1 .. MaxRecords /\ count' = [count EXCEPT ![p] = @ + 1]
  BY AuditAssumption DEF Record, TInv, TypeOK
<1>2. NewLine(p) \in Line /\ NewHash(p) \in Hash
  BY <1>1 DEF TInv, TypeOK, NewLine, NewHash, Line, Hash
<1> QED
  BY <1>1, <1>2 DEF Record, Written, CutShort, NotWritten, NewLine, NewHash, TInv, TypeOK

\* A record's hash follows the last of its run.
LEMMA TypeStep == TInv /\ [Next]_vars => TInv'
<1> SUFFICES ASSUME TInv, [Next]_vars PROVE TInv'
    OBVIOUS
<1> USE AuditAssumption DEF TInv, TypeOK, PrevInv
<1>1. ASSUME NEW p \in Run, New(p) \/ Close(p) \/ Die(p) PROVE TInv'
  BY <1>1 DEF New, Close, Die
<1>2. ASSUME NEW p \in Run, NEW s \in Server, Record(p, s) PROVE TInv'
  <2>1. /\ count[p] + 1 \in 1 .. MaxRecords /\ count' = [count EXCEPT ![p] = @ + 1]
        /\ NewLine(p) \in Line /\ NewHash(p) \in Hash
    BY <1>2, RecordCases
  <2>2. prev' = [prev EXCEPT ![p] = NewHash(p)] /\ prev' \in [Run -> Hash \cup {Genesis}]
    BY <1>2, <2>1 DEF Record, NewHash
  <2>3. PrevInv'
    <3> TAKE q \in Run
    <3>1. CASE q = p
      BY <2>1, <2>2, <3>1 DEF NewHash
    <3>2. CASE q # p
      BY <2>1, <2>2, <3>2
    <3> QED
      BY <3>1, <3>2
  <2>4. /\ recent' \in [Run -> Seq([hash : Hash, server : Server])]
        /\ \A q \in Run : Len(recent'[q]) <= recentCap
    <3> DEFINE e == [hash |-> NewHash(p), server |-> s]
               t == Trimmed(Append(recent[p], e))
    <3>1. e \in [hash : Hash, server : Server]
      BY <2>1
    <3>2. t \in Seq([hash : Hash, server : Server]) /\ Len(t) <= recentCap
      BY <3>1, TrimmedType
    <3>3. recent' = [recent EXCEPT ![p] = t]
      BY <1>2 DEF Record, NewHash
    <3> HIDE DEF t
    <3> QED
      BY <3>2, <3>3
  <2>5. file' \in Seq(Line \cup {Garbled}) /\ lost' \subseteq Hash
    <3>1. file' \in {file, Append(file, NewLine(p)), Append(file, Garbled)}
          /\ lost' \subseteq lost \cup {NewHash(p)}
      BY <1>2, RecordCases
    <3>2. lost' \subseteq Hash
      BY <2>1, <3>1
    <3> DEFINE S == Line \cup {Garbled}
    <3>3. file \in Seq(S) /\ NewLine(p) \in S /\ Garbled \in S
      BY <2>1
    <3> HIDE DEF S
    <3>4. Append(file, NewLine(p)) \in Seq(S) /\ Append(file, Garbled) \in Seq(S)
      BY <3>3, AppendProperties
    <3>5. file' \in Seq(S)
      BY <3>1, <3>3, <3>4, Zenon
    <3> QED
      BY <3>2, <3>5 DEF S
  <2>6. ragged' \in BOOLEAN
    BY <1>2, Zenon DEF Record, Written, CutShort, NotWritten
  <2>7. failures' \in 0 .. MaxFailures /\ run' = run /\ count' \in [Run -> 0 .. MaxRecords]
    BY <1>2, <2>1 DEF Record, Fails
  <2> QED
    BY <2>2, <2>3, <2>4, <2>5, <2>6, <2>7
<1>3. CASE UNCHANGED vars
  BY <1>3 DEF vars
<1> QED
  BY <1>1, <1>2, <1>3 DEF Next

-----------------------------------------------------------------------------
(* The chain.                                                              *)

\* The lines of a file that one was appended to.
LEMMA Appended ==
    ASSUME TInv, NEW x \in Line \cup {Garbled}, file' = Append(file, x)
    PROVE  /\ Len(file') = Len(file) + 1 /\ Len(file) \in Nat /\ file'[Len(file) + 1] = x
           /\ \A i \in 1 .. Len(file) : file'[i] = file[i]
           /\ Lines' = Lines \cup (IF x = Garbled THEN {} ELSE {Len(file) + 1})
<1>1. file \in Seq(Line \cup {Garbled})
  BY DEF TInv, TypeOK
<1>2. /\ Len(file') = Len(file) + 1 /\ Len(file) \in Nat /\ file'[Len(file) + 1] = x
      /\ \A i \in 1 .. Len(file) : file'[i] = file[i]
  BY <1>1, AppendProperties
<1> QED
  BY <1>2 DEF Lines

\* A record is written, or it is lost and the lines are the same.
Wrote(p) ==
    /\ Lines' = Lines \cup {Len(file) + 1} /\ Len(file') = Len(file) + 1
    /\ file'[Len(file) + 1] = NewLine(p) /\ lost' = lost /\ ~ragged /\ ragged' = FALSE
Lost(p) == Lines' = Lines /\ lost' = lost \cup {NewHash(p)}

\* There is no third way.
LEMMA RecordIsWroteOrLost ==
    ASSUME TInv, NEW p \in Run, NEW s \in Server, Record(p, s)
    PROVE  /\ Wrote(p) \/ Lost(p)
           /\ \A i \in Lines : file'[i] = file[i]
           /\ count[p] + 1 \in 1 .. MaxRecords /\ count' = [count EXCEPT ![p] = @ + 1]
<1>1. /\ count[p] + 1 \in 1 .. MaxRecords /\ count' = [count EXCEPT ![p] = @ + 1]
      /\ NewLine(p) \in Line /\ NewLine(p) # Garbled
  BY RecordCases, NamesAssumption
<1>2. CASE ~ragged /\ file' = Append(file, NewLine(p)) /\ lost' = lost /\ ragged' = FALSE
  BY <1>1, <1>2, Appended DEF Wrote, Lines
<1>3. CASE lost' = lost \cup {NewHash(p)} /\ file' = Append(file, Garbled)
  BY <1>1, <1>3, Appended DEF Lost, Lines
<1>4. CASE lost' = lost \cup {NewHash(p)} /\ file' = file
  BY <1>1, <1>4 DEF Lost, Lines
<1> QED
  BY <1>2, <1>3, <1>4, RecordCases

\* No line is of a record that is still to come.
LEMMA NewIsNew ==
    ASSUME TInv, LinesInv, NEW p \in Run, NEW i \in Lines
    PROVE  /\ file[i].hash # NewHash(p)
           /\ file[i].hash[1] = p => file[i].hash[2] <= count[p] /\ file[i].hash[2] \in Nat
<1>1. PICK q \in Run, n \in 1 .. MaxRecords : n <= count[q] /\ file[i].hash = <<q, n>>
  BY DEF LinesInv
<1>2. <<q, n>>[1] = q /\ <<q, n>>[2] = n /\ n \in Nat /\ count[p] \in Nat
  BY DEF TInv, TypeOK
<1>3. q = p => n # count[p] + 1
  BY <1>1, <1>2
<1> QED
  BY <1>1, <1>2, <1>3 DEF NewHash

\* A line written whole keeps the account.
LEMMA WroteStep ==
    ASSUME TInv, IInv, NEW p \in Run, Wrote(p), \A i \in Lines : file'[i] = file[i],
           count[p] + 1 \in 1 .. MaxRecords, count' = [count EXCEPT ![p] = @ + 1]
    PROVE  IInv'
<1> DEFINE L == Len(file) + 1
           c == count[p]
<1> USE DEF TInv, TypeOK
<1>0. /\ Len(file) \in Nat /\ c \in Nat /\ \A q \in Run : count[q] <= count'[q] /\ count[q] \in Nat
      /\ count'[p] = c + 1 /\ \A q \in Run \ {p} : count'[q] = count[q]
  OBVIOUS
<1>1. /\ Lines' = Lines \cup {L} /\ lost' = lost /\ file'[L].hash = <<p, c + 1>>
      /\ file'[L].prev = IF c = 0 THEN Genesis ELSE <<p, c>>
  BY DEF Wrote, NewLine, NewHash, PrevInv
<1>2. \A h : InLine(h)' <=> InLine(h) \/ h = <<p, c + 1>>
  BY <1>1 DEF InLine
<1>3. LinesInv'
  <2> SUFFICES ASSUME NEW i \in Lines'
               PROVE  \E q \in Run, n \in 1 .. MaxRecords :
                        /\ n <= count'[q] /\ file'[i].hash = <<q, n>>
                        /\ file'[i].prev = IF n = 1 THEN Genesis ELSE <<q, n - 1>>
      BY DEF LinesInv
  <2>1. CASE i \in Lines
    <3>1. PICK q \in Run, n \in 1 .. MaxRecords :
            /\ n <= count[q] /\ file[i].hash = <<q, n>>
            /\ file[i].prev = IF n = 1 THEN Genesis ELSE <<q, n - 1>>
      BY <2>1 DEF IInv, LinesInv
    <3>2. n <= count'[q]
      BY <1>0, <3>1
    <3> QED
      BY <2>1, <3>1, <3>2
  <2>2. CASE i = L
    <3>0. PICK n \in 1 .. MaxRecords : n = c + 1
      OBVIOUS
    <3>2. n <= count'[p] /\ (n = 1 <=> c = 0) /\ n - 1 = c
      <4>1. c \in Nat /\ count'[p] = c + 1 /\ n = c + 1
        BY <1>0, <3>0
      <4> HIDE DEF c, TInv, TypeOK
      <4> QED
        BY <4>1
    <3>1. /\ n \in 1 .. MaxRecords /\ n <= count'[p] /\ file'[i].hash = <<p, n>>
          /\ file'[i].prev = IF n = 1 THEN Genesis ELSE <<p, n - 1>>
      BY <1>1, <2>2, <3>0, <3>2
    <3> QED
      BY <3>1
  <2> QED
    BY <1>1, <2>1, <2>2
<1>4. AccountInv'
  <2> SUFFICES ASSUME NEW q \in Run, NEW n \in 1 .. MaxRecords
               PROVE  /\ n <= count'[q] => InLine(<<q, n>>)' \/ <<q, n>> \in lost'
                      /\ <<q, n>> \in lost' => n <= count'[q] /\ ~InLine(<<q, n>>)'
      BY DEF AccountInv
  <2>1. n <= count'[q] => n <= count[q] \/ <<q, n>> = <<p, c + 1>>
    BY <1>0
  <2>2. n <= count[q] => <<q, n>> # <<p, c + 1>>
    BY <1>0
  <2>3. /\ n <= count[q] => InLine(<<q, n>>) \/ <<q, n>> \in lost
        /\ <<q, n>> \in lost => n <= count[q] /\ ~InLine(<<q, n>>)
    BY DEF IInv, AccountInv
  <2>4. n <= count[q] => n <= count'[q]
    BY <1>0
  <2> QED
    BY <1>1, <1>2, <2>1, <2>2, <2>3, <2>4
<1>5. GapInv'
  <2> SUFFICES ASSUME NEW q \in Run, NEW m \in 1 .. MaxRecords,
                      <<q, m>> \in lost, FollowedByLine(<<q, m>>)'
               PROVE  \E n \in 2 .. MaxRecords : InLine(<<q, n>>)' /\ <<q, n - 1>> \in lost
      BY <1>1 DEF GapInv
  <2>1. CASE FollowedByLine(<<q, m>>)
    BY <1>2, <2>1 DEF IInv, GapInv
  <2>2. CASE ~FollowedByLine(<<q, m>>)
    <3>1. q = p /\ m < c + 1
      <4>1. PICK i \in Lines' : file'[i].hash[1] = <<q, m>>[1] /\ file'[i].hash[2] > <<q, m>>[2]
        BY DEF FollowedByLine
      <4>2. i \notin Lines
        BY <2>2, <4>1 DEF FollowedByLine
      <4>3. file'[i].hash = <<p, c + 1>>
        BY <1>1, <4>2
      <4> QED
        BY <1>0, <4>1, <4>3
    <3>2. c \in 1 .. MaxRecords
      BY <1>0, <3>1
    <3>3. ~InLine(<<p, c>>)
      <4>1. CASE m = c
        BY <3>1, <3>2, <4>1 DEF IInv, AccountInv
      <4>2. CASE m < c
        <5>1. ASSUME NEW i \in Lines, file[i].hash = <<p, c>>
              PROVE  file[i].hash[1] = <<q, m>>[1] /\ file[i].hash[2] > <<q, m>>[2]
          BY <1>0, <3>1, <4>2, <5>1
        <5> QED
          BY <2>2, <5>1 DEF InLine, FollowedByLine
      <4> QED
        BY <1>0, <3>1, <4>1, <4>2
    <3>4. <<p, c>> \in lost
      BY <1>0, <3>2, <3>3 DEF IInv, AccountInv
    <3>5. PICK n \in 1 .. MaxRecords : n = c + 1
      OBVIOUS
    <3>6. n \in 2 .. MaxRecords /\ n - 1 = c
      BY <1>0, <3>2, <3>5, AuditAssumption
    <3>7. InLine(<<q, n>>)'
      BY <1>2, <3>1, <3>5
    <3> QED
      BY <3>1, <3>4, <3>6, <3>7
  <2> QED
    BY <2>1, <2>2
<1>6. AlarmInv'
  <2>1. ASSUME NEW i \in Lines' PROVE LinkedAt(i)' \/ file'[i].prev \in lost'
    <3>1. CASE i \in Lines
      <4>1. LinkedAt(i) => LinkedAt(i)'
        BY <1>1, <3>1 DEF LinkedAt
      <4> QED
        BY <1>1, <3>1, <4>1 DEF IInv, AlarmInv
    <3>2. CASE i = L /\ c = 0
      BY <1>1, <3>2 DEF LinkedAt
    <3>3. CASE i = L /\ c # 0
      <4>1. InLine(<<p, c>>) \/ <<p, c>> \in lost
        BY <1>0, <3>3 DEF IInv, AccountInv
      <4>2. ASSUME InLine(<<p, c>>) PROVE LinkedAt(i)'
        <5>1. PICK j \in Lines : file[j].hash = <<p, c>>
          BY <4>2 DEF InLine
        <5>2. j < i /\ j \in Lines' /\ file'[j].hash = <<p, c>>
          BY <1>0, <1>1, <3>3, <5>1 DEF Lines
        <5> QED
          BY <1>1, <3>3, <5>2 DEF LinkedAt
      <4> QED
        BY <1>1, <3>3, <4>1, <4>2
    <3> QED
      BY <1>1, <3>1, <3>2, <3>3
  <2>2. lost' = {} => ~ragged' /\ Lines' = 1 .. Len(file')
    BY <1>0, <1>1 DEF IInv, AlarmInv, Wrote
  <2> QED
    BY <2>1, <2>2 DEF AlarmInv
<1> QED
  BY <1>3, <1>4, <1>5, <1>6 DEF IInv

\* So does a record lost: the next line of its run will show the gap.
LEMMA LostStep ==
    ASSUME TInv, IInv, NEW p \in Run, Lost(p), \A i \in Lines : file'[i] = file[i],
           count[p] + 1 \in 1 .. MaxRecords, count' = [count EXCEPT ![p] = @ + 1]
    PROVE  IInv'
<1> DEFINE c == count[p]
<1> USE DEF TInv, TypeOK
<1>0. /\ c \in Nat /\ \A q \in Run : count[q] <= count'[q] /\ count[q] \in Nat
      /\ count'[p] = c + 1 /\ \A q \in Run \ {p} : count'[q] = count[q]
  OBVIOUS
<1>1. Lines' = Lines /\ lost' = lost \cup {<<p, c + 1>>}
  BY DEF Lost, NewHash
<1>2. \A h : (InLine(h)' <=> InLine(h)) /\ (FollowedByLine(h)' <=> FollowedByLine(h))
  BY <1>1 DEF InLine, FollowedByLine
<1>3. ~InLine(<<p, c + 1>>) /\ ~FollowedByLine(<<p, c + 1>>)
  <2>1. ASSUME NEW i \in Lines
        PROVE  /\ file[i].hash # <<p, c + 1>>
               /\ ~(file[i].hash[1] = <<p, c + 1>>[1] /\ file[i].hash[2] > <<p, c + 1>>[2])
    <3>1. /\ file[i].hash # <<p, c + 1>>
          /\ file[i].hash[1] = p => file[i].hash[2] <= c /\ file[i].hash[2] \in Nat
      BY NewIsNew DEF IInv, NewHash
    <3> QED
      BY <1>0, <3>1
  <2> QED
    BY <2>1 DEF InLine, FollowedByLine
<1>4. LinesInv'
  <2> SUFFICES ASSUME NEW i \in Lines
               PROVE  \E q \in Run, n \in 1 .. MaxRecords :
                        /\ n <= count'[q] /\ file'[i].hash = <<q, n>>
                        /\ file'[i].prev = IF n = 1 THEN Genesis ELSE <<q, n - 1>>
      BY <1>1 DEF LinesInv
  <2>1. PICK q \in Run, n \in 1 .. MaxRecords :
          /\ n <= count[q] /\ file[i].hash = <<q, n>>
          /\ file[i].prev = IF n = 1 THEN Genesis ELSE <<q, n - 1>>
    BY DEF IInv, LinesInv
  <2>2. n <= count'[q]
    BY <1>0, <2>1
  <2> QED
    BY <2>1, <2>2
<1>5. AccountInv'
  <2> SUFFICES ASSUME NEW q \in Run, NEW n \in 1 .. MaxRecords
               PROVE  /\ n <= count'[q] => InLine(<<q, n>>)' \/ <<q, n>> \in lost'
                      /\ <<q, n>> \in lost' => n <= count'[q] /\ ~InLine(<<q, n>>)'
      BY DEF AccountInv
  <2>1. n <= count'[q] => n <= count[q] \/ <<q, n>> = <<p, c + 1>>
    BY <1>0
  <2>2. <<q, n>> = <<p, c + 1>> => n <= count'[q]
    BY <1>0
  <2>3. n <= count[q] => n <= count'[q]
    BY <1>0
  <2> QED
    BY <1>1, <1>2, <1>3, <2>1, <2>2, <2>3 DEF IInv, AccountInv
<1>6. GapInv'
  <2> SUFFICES ASSUME NEW q \in Run, NEW m \in 1 .. MaxRecords,
                      <<q, m>> \in lost', FollowedByLine(<<q, m>>)'
               PROVE  \E n \in 2 .. MaxRecords : InLine(<<q, n>>)' /\ <<q, n - 1>> \in lost'
      BY DEF GapInv
  <2>1. <<q, m>> \in lost /\ FollowedByLine(<<q, m>>)
    BY <1>1, <1>2, <1>3
  <2> QED
    BY <1>1, <1>2, <2>1 DEF IInv, GapInv
<1>7. AlarmInv'
  <2>1. lost' # {}
    BY <1>1
  <2>2. \A i \in Lines' : LinkedAt(i)' \/ file'[i].prev \in lost'
    BY <1>1 DEF IInv, AlarmInv, LinkedAt
  <2> QED
    BY <2>1, <2>2 DEF AlarmInv
<1> QED
  BY <1>4, <1>5, <1>6, <1>7 DEF IInv

\* No step breaks the chain's account.
LEMMA ChainStep == TInv /\ IInv /\ [Next]_vars => IInv'
<1> SUFFICES ASSUME TInv, IInv, [Next]_vars PROVE IInv'
    OBVIOUS
<1>1. ASSUME UNCHANGED <<count, file, ragged, lost>> PROVE IInv'
  BY <1>1 DEF IInv, LinesInv, AccountInv, GapInv, AlarmInv, InLine, FollowedByLine, LinkedAt, Lines
<1>2. ASSUME NEW p \in Run, NEW s \in Server, Record(p, s) PROVE IInv'
  BY <1>2, RecordIsWroteOrLost, WroteStep, LostStep
<1>3. ASSUME NEW p \in Run, New(p) \/ Close(p) \/ Die(p) PROVE IInv'
  BY <1>1, <1>3 DEF New, Close, Die
<1> QED
  BY <1>1, <1>2, <1>3 DEF Next, vars

-----------------------------------------------------------------------------
\* Both invariants hold of every state.
LEMMA Invariance == Spec => []TInv /\ []IInv
<1>1. Init => IInv
  <2> SUFFICES ASSUME Init PROVE IInv
      OBVIOUS
  <2>1. Lines = {} /\ lost = {} /\ ~ragged /\ Len(file) = 0 /\ \A q \in Run : count[q] = 0
    BY DEF Init, Lines
  <2> QED
    BY <2>1 DEF IInv, LinesInv, AccountInv, GapInv, AlarmInv
<1> QED
  BY <1>1, TypeInit, TypeStep, ChainStep, PTL DEF Spec

\* Every variable has its type (audit.go).
THEOREM Types == Spec => []TypeOK
<1>1. TInv => TypeOK
  BY DEF TInv
<1> QED
  BY <1>1, Invariance, PTL

\* Whatever runs share the file and whichever writes fail or are cut short,
\* the chain tells of a record lost before another of its run, and when none
\* is lost it verifies (audit.go, Record).
THEOREM Losses == Spec => []LossIsNoticed
<1>1. TInv /\ IInv => LossIsNoticed
  <2> SUFFICES ASSUME TInv, IInv PROVE LossIsNoticed
      OBVIOUS
  <2>1. ASSUME NEW h \in lost, FollowedByLine(h) PROVE ~Verifies
    <3>1. PICK q \in Run, m \in 1 .. MaxRecords : h = <<q, m>>
      BY DEF TInv, TypeOK, Hash
    <3>2. PICK n \in 2 .. MaxRecords : InLine(<<q, n>>) /\ <<q, n - 1>> \in lost
      BY <2>1, <3>1 DEF IInv, GapInv
    <3>3. PICK i \in Lines : file[i].hash = <<q, n>>
      BY <3>2 DEF InLine
    <3>4. file[i].prev = <<q, n - 1>>
      <4>1. PICK r \in Run, k \in 1 .. MaxRecords :
              /\ file[i].hash = <<r, k>>
              /\ file[i].prev = IF k = 1 THEN Genesis ELSE <<r, k - 1>>
        BY DEF IInv, LinesInv
      <4>2. r = q /\ k = n
        BY <3>3, <4>1
      <4> QED
        BY <4>1, <4>2
    <3>5. n - 1 \in 1 .. MaxRecords /\ <<q, n - 1>> \in Hash
      BY AuditAssumption DEF Hash
    <3>6. ~InLine(<<q, n - 1>>)
      BY <3>2, <3>5 DEF IInv, AccountInv
    <3>7. ~LinkedAt(i)
      BY <3>4, <3>5, <3>6, NamesAssumption DEF LinkedAt, InLine
    <3> QED
      BY <3>7 DEF Verifies
  <2>2. lost = {} => Verifies
    BY DEF IInv, AlarmInv, Verifies
  <2> QED
    BY <2>1, <2>2 DEF LossIsNoticed
<1> QED
  BY <1>1, Invariance, PTL

-----------------------------------------------------------------------------
(* The window.                                                             *)

\* It holds the last records of its run, oldest first.
WindowInv ==
    \A p \in Run :
        /\ Len(recent[p]) = IF count[p] > recentCap THEN recentCap ELSE count[p]
        /\ \A i \in DOMAIN recent[p] :
              recent[p][i].hash = <<p, count[p] - Len(recent[p]) + i>>

Entry == [hash : Hash, server : Server]

\* Trimming drops the oldest, and one at most.
LEMMA TrimmedIsTail ==
    ASSUME NEW s \in Seq(Entry), NEW e \in Entry, Len(s) <= recentCap,
           NEW d \in {0, 1}, d = 1 <=> Len(s) = recentCap
    PROVE  LET tail == Trimmed(Append(s, e)) IN
           /\ tail \in Seq(Entry) /\ Len(tail) = Len(s) + 1 - d
           /\ \A i \in 1 .. Len(tail) : tail[i] = IF i = Len(tail) THEN e ELSE s[i + d]
<1> DEFINE t == Append(s, e)
<1>1. /\ t \in Seq(Entry) /\ Len(t) = Len(s) + 1 /\ Len(s) \in Nat
      /\ t[Len(s) + 1] = e /\ \A i \in 1 .. Len(s) : t[i] = s[i]
  OBVIOUS
<1> HIDE DEF t
<1>2. CASE Len(s) = recentCap
  <2> DEFINE u == SubSeq(t, 2, recentCap + 1)
  <2>1. Trimmed(t) = u
    BY <1>1, <1>2, AuditAssumption DEF Trimmed
  <2>2. u \in Seq(Entry) /\ Len(u) = recentCap /\ \A i \in 1 .. recentCap : u[i] = t[i + 1]
    BY <1>1, <1>2, AuditAssumption
  <2> HIDE DEF u
  <2>3. \A i \in 1 .. recentCap : u[i] = IF i = recentCap THEN e ELSE s[i + 1]
    BY <1>1, <1>2, <2>2, AuditAssumption
  <2> QED
    BY <1>2, <2>1, <2>2, <2>3, AuditAssumption DEF t
<1>3. CASE Len(s) < recentCap
  <2>1. Trimmed(t) = t
    BY <1>1, <1>3, AuditAssumption DEF Trimmed
  <2>2. \A i \in 1 .. Len(t) : t[i] = IF i = Len(t) THEN e ELSE s[i + 0]
    BY <1>1
  <2> QED
    BY <1>1, <1>3, <2>1, <2>2, AuditAssumption DEF t
<1> QED
  BY <1>1, <1>2, <1>3, AuditAssumption

\* The window is empty before the first record.
LEMMA WindowInit == Init => WindowInv
  BY AuditAssumption DEF Init, WindowInv

\* A record goes to the end of its run's window; nothing else touches one.
LEMMA WindowStep == TInv /\ WindowInv /\ [Next]_vars => WindowInv'
<1> SUFFICES ASSUME TInv, WindowInv, [Next]_vars PROVE WindowInv'
    OBVIOUS
<1>1. ASSUME NEW p \in Run, New(p) \/ Close(p) \/ Die(p) PROVE WindowInv'
  BY <1>1 DEF New, Close, Die, WindowInv
<1>2. ASSUME NEW p \in Run, NEW s \in Server, Record(p, s) PROVE WindowInv'
  <2> DEFINE e == [hash |-> <<p, count[p] + 1>>, server |-> s]
             t == Trimmed(Append(recent[p], e))
             d == IF Len(recent[p]) = recentCap THEN 1 ELSE 0
  <2>1. /\ count[p] + 1 \in 1 .. MaxRecords /\ count' = [count EXCEPT ![p] = @ + 1]
        /\ <<p, count[p] + 1>> \in Hash
    BY <1>2, RecordCases DEF NewHash
  <2>2. recent' = [recent EXCEPT ![p] = t]
    BY <1>2 DEF Record
  <2>3. e \in Entry /\ recent[p] \in Seq(Entry) /\ Len(recent[p]) <= recentCap
    BY <2>1 DEF TInv, TypeOK, Entry
  <2>4. e.hash = <<p, count[p] + 1>>
    OBVIOUS
  <2> HIDE DEF e
  <2>5. d \in {0, 1} /\ (d = 1 <=> Len(recent[p]) = recentCap)
    OBVIOUS
  <2> HIDE DEF d
  <2>6. /\ t \in Seq(Entry) /\ Len(t) = Len(recent[p]) + 1 - d
        /\ \A i \in 1 .. Len(t) : t[i] = IF i = Len(t) THEN e ELSE recent[p][i + d]
    BY <2>3, <2>5, TrimmedIsTail, ZenonT(30)
  <2> HIDE DEF t
  <2>7. /\ count \in [Run -> Nat] /\ DOMAIN recent = Run
        /\ count' \in [Run -> Nat] /\ recent' \in [Run -> Seq(Entry)]
    <3>1. TInv'
      BY TypeStep
    <3>2. recent' \in [Run -> Seq(Entry)] /\ recent \in [Run -> Seq(Entry)]
      BY <3>1 DEF TInv, TypeOK, Entry
    <3>3. count' \in [Run -> 0 .. MaxRecords] /\ count \in [Run -> 0 .. MaxRecords]
      BY <3>1 DEF TInv, TypeOK
    <3> QED
      BY <3>2, <3>3, AuditAssumption
  <2>8. Len(recent[p]) = IF count[p] > recentCap THEN recentCap ELSE count[p]
    BY DEF WindowInv
  <2>9. Len(t) = IF count[p] + 1 > recentCap THEN recentCap ELSE count[p] + 1
    BY <2>3, <2>5, <2>6, <2>7, <2>8, AuditAssumption
  <2>10. ASSUME NEW i \in DOMAIN t PROVE t[i].hash = <<p, count[p] + 1 - Len(t) + i>>
    <3>1. i \in 1 .. Len(t) /\ Len(t) \in Nat
      BY <2>6
    <3>2. CASE i = Len(t)
      <4>1. count[p] + 1 - Len(t) + i = count[p] + 1
        BY <2>7, <3>1, <3>2
      <4>2. t[i] = e
        BY <2>6, <3>1, <3>2
      <4> QED
        BY <2>4, <4>1, <4>2
    <3>3. CASE i # Len(t)
      <4>1. t[i] = recent[p][i + d]
        BY <2>6, <3>1, <3>3
      <4>2. i + d \in DOMAIN recent[p]
        BY <2>3, <2>5, <2>6, <3>1, <3>3
      <4>3. t[i].hash = <<p, count[p] - Len(recent[p]) + (i + d)>>
        BY <4>1, <4>2 DEF WindowInv
      <4>4. count[p] - Len(recent[p]) + (i + d) = count[p] + 1 - Len(t) + i
        BY <2>3, <2>5, <2>6, <2>7, <3>1
      <4> QED
        BY <4>3, <4>4
    <3> QED
      BY <3>2, <3>3
  <2>11. ASSUME NEW q \in Run
         PROVE  /\ Len(recent'[q]) = IF count'[q] > recentCap THEN recentCap ELSE count'[q]
                /\ \A i \in DOMAIN recent'[q] :
                      recent'[q][i].hash = <<q, count'[q] - Len(recent'[q]) + i>>
    <3>1. CASE q = p
      <4>1. recent'[q] = t /\ count'[q] = count[p] + 1
        BY <2>1, <2>2, <2>7, <3>1
      <4>2. \A i \in DOMAIN t : t[i].hash = <<p, count[p] + 1 - Len(t) + i>>
        BY <2>10
      <4>3. Len(recent'[q]) = IF count'[q] > recentCap THEN recentCap ELSE count'[q]
        BY <2>9, <4>1
      <4>4. ASSUME NEW i \in DOMAIN recent'[q]
            PROVE  recent'[q][i].hash = <<q, count'[q] - Len(recent'[q]) + i>>
        <5>1. t[i].hash = <<p, count[p] + 1 - Len(t) + i>>
          BY <4>1, <4>2
        <5>2. recent'[q][i] = t[i]
          BY <4>1, Zenon
        <5>3. count'[q] - Len(recent'[q]) + i = count[p] + 1 - Len(t) + i
          BY <2>7, <2>6, <4>1
        <5> QED
          BY <3>1, <5>1, <5>2, <5>3
      <4> QED
        BY <4>3, <4>4
    <3>2. CASE q # p
      <4>1. recent'[q] = recent[q] /\ count'[q] = count[q]
        BY <2>1, <2>2, <2>7, <3>2
      <4> QED
        BY <4>1 DEF WindowInv
    <3> QED
      BY <3>1, <3>2
  <2> QED
    BY <2>11 DEF WindowInv
<1>3. CASE UNCHANGED vars
  BY <1>3 DEF vars, WindowInv
<1> QED
  BY <1>1, <1>2, <1>3 DEF Next

-----------------------------------------------------------------------------
(* Recent.                                                                 *)

\* The places asked for are some of the window's.
LEMMA AskedType ==
    ASSUME TInv, NEW p \in Run, NEW server
    PROVE  /\ IsFiniteSet(Asked(p, server)) /\ Cardinality(Asked(p, server)) \in Nat
           /\ \A i \in Asked(p, server) : i \in DOMAIN recent[p] /\ i \in Nat
<1> DEFINE asked == Asked(p, server)
<1>1. Len(recent[p]) \in Nat /\ DOMAIN recent[p] = 1 .. Len(recent[p])
  BY DEF TInv, TypeOK
<1>2. asked \in SUBSET (1 .. Len(recent[p]))
  BY <1>1 DEF Asked
<1>3. IsFiniteSet(1 .. Len(recent[p]))
  BY <1>1, FS_Interval
<1> HIDE DEF asked
<1>4. IsFiniteSet(asked)
  BY <1>2, <1>3, FS_Subset
<1> QED
  BY <1>1, <1>2, <1>4, FS_CardinalityType DEF asked

\* Recent answers from the last place asked for to the first, or until it has
\* as many as the limit says.
AnswersFrom(place, p, limit, server) ==
    LET all == Cardinality(Asked(p, server)) IN
    /\ Enumerates(place, Asked(p, server))
    /\ Recent(p, limit, server) =
         [k \in 1 .. IF limit = 0 \/ all <= limit THEN all ELSE limit |->
             recent[p][place[all + 1 - k]]]

\* There are such places, and Recent answers from them.
LEMMA RecentAnswers ==
    ASSUME TInv, NEW p \in Run, NEW limit \in Nat, NEW server
    PROVE  \E place : AnswersFrom(place, p, limit, server)
<1> DEFINE A == Asked(p, server)
           all == Cardinality(A)
           asked == Picked(recent[p], A)
           m == IF limit = 0 \/ all <= limit THEN all ELSE limit
<1>1. IsFiniteSet(A) /\ all \in Nat /\ \A i \in A : i \in Nat
  BY AskedType
<1> HIDE DEF A, all
<1>2. PICK place : Reads(place, recent[p], A)
  BY <1>1, PickedInOrder
<1>3. Enumerates(place, A) /\ asked = [k \in 1 .. all |-> recent[p][place[k]]]
  BY <1>2 DEF Reads, all
<1>4. Len(asked) = all
  <2> DEFINE f == [k \in 1 .. all |-> recent[p][place[k]]]
             V == {recent[p][place[k]] : k \in 1 .. all}
  <2>1. f \in [1 .. all -> V]
    OBVIOUS
  <2>2. asked = f
    BY <1>3
  <2> HIDE DEF f, V, asked
  <2>3. f \in Seq(V) /\ Len(f) = all
    BY <1>1, <2>1
  <2> QED
    BY <2>2, <2>3
<1>5. Recent(p, limit, server) = [k \in 1 .. m |-> asked[all + 1 - k]]
  BY <1>4 DEF Recent, A
<1>6. ASSUME NEW k \in 1 .. m
      PROVE  asked[all + 1 - k] = recent[p][place[all + 1 - k]]
  <2>1. all + 1 - k \in 1 .. all
    BY <1>1
  <2> QED
    BY <1>3, <2>1
<1> HIDE DEF asked, m
<1>7. Recent(p, limit, server) = [k \in 1 .. m |-> recent[p][place[all + 1 - k]]]
  BY <1>5, <1>6
<1> QED
  BY <1>3, <1>7 DEF AnswersFrom, A, all, m

\* The whole window is answered from its end.
LEMMA WholeWindow ==
    ASSUME TInv, WindowInv, NEW p \in Run
    PROVE  /\ Len(Recent(p, 0, AnyServer)) = Len(recent[p])
           /\ Recent(p, 0, AnyServer) \in Seq(Entry)
           /\ \A k \in 1 .. Len(recent[p]) :
                 Recent(p, 0, AnyServer)[k] = recent[p][Len(recent[p]) + 1 - k]
<1> DEFINE n == Len(recent[p])
<1>1. recent \in [Run -> Seq(Entry)]
  BY DEF TInv, TypeOK, Entry
<1>2. n \in Nat /\ recent[p] \in Seq(Entry) /\ DOMAIN recent[p] = 1 .. n
  BY <1>1
<1>3. Asked(p, AnyServer) = 1 .. n
  BY <1>2, Zenon DEF Asked
<1> HIDE DEF n
<1>4. Cardinality(1 .. n) = n
  BY <1>2, FS_Interval
<1>5. PICK place : AnswersFrom(place, p, 0, AnyServer)
  BY RecentAnswers
<1>6. /\ Enumerates(place, 1 .. n)
      /\ Recent(p, 0, AnyServer) = [k \in 1 .. n |-> recent[p][place[n + 1 - k]]]
  BY <1>3, <1>4, <1>5 DEF AnswersFrom
<1>7. ASSUME NEW i \in 1 .. n
      PROVE  place[i] = i
  <2>1. place[i] \in 1 .. n /\ Cardinality(UpTo(1 .. n, place[i])) = i
    BY <1>4, <1>6 DEF Enumerates
  <2>2. UpTo(1 .. n, place[i]) = 1 .. place[i]
    BY <1>2, <2>1 DEF UpTo
  <2> DEFINE j == place[i]
  <2>3. j \in 1 .. n
    BY <2>1
  <2> HIDE DEF j
  <2>4. Cardinality(1 .. j) = j
    BY <1>2, <2>3, FS_Interval
  <2> QED
    BY <2>1, <2>2, <2>4 DEF j
<1>8. \A k \in 1 .. n : place[n + 1 - k] = n + 1 - k
  BY <1>2, <1>7
<1>9. Recent(p, 0, AnyServer) = [k \in 1 .. n |-> recent[p][n + 1 - k]]
  BY <1>6, <1>8
<1>10. \A k \in 1 .. n : recent[p][n + 1 - k] \in Entry
  BY <1>2
<1> DEFINE shown == Recent(p, 0, AnyServer)
<1>11. shown \in [1 .. n -> Entry]
  BY <1>9, <1>10
<1>12. \A k \in 1 .. n : shown[k] = recent[p][n + 1 - k]
  BY <1>9
<1> HIDE DEF shown
<1>13. shown \in Seq(Entry) /\ Len(shown) = n
  BY <1>2, <1>11
<1> QED
  BY <1>12, <1>13 DEF shown, n

\* A later place of the window holds a later record.
LEMMA LaterIsNewer ==
    ASSUME TInv, WindowInv, NEW p \in Run, NEW i \in DOMAIN recent[p], NEW j \in DOMAIN recent[p]
    PROVE  /\ i < j => recent[p][j].hash[2] > recent[p][i].hash[2]
           /\ i \in Nat /\ j \in Nat /\ recent[p][i].hash[2] \in Int
<1>1. /\ recent[p][i].hash = <<p, count[p] - Len(recent[p]) + i>>
      /\ recent[p][j].hash = <<p, count[p] - Len(recent[p]) + j>>
  BY DEF WindowInv
<1>2. count[p] \in Nat /\ Len(recent[p]) \in Nat /\ i \in Nat /\ j \in Nat
  BY DEF TInv, TypeOK
<1> QED
  BY <1>1, <1>2

\* What the panel is shown is the end of the records.
LEMMA ShownIsTail ==
    ASSUME TInv, WindowInv, NEW p \in Run
    PROVE  IsTail(p, Recent(p, 0, AnyServer))
<1> DEFINE shown == Recent(p, 0, AnyServer)
           n == Len(recent[p])
<1>1. /\ Len(shown) = n /\ shown \in Seq(Entry)
      /\ \A k \in 1 .. n : shown[k] = recent[p][n + 1 - k]
  BY WholeWindow
<1>2. n \in Nat /\ count[p] \in Nat /\ n = IF count[p] > recentCap THEN recentCap ELSE count[p]
  BY DEF TInv, TypeOK, WindowInv
<1> HIDE DEF shown
<1>3. ASSUME NEW k \in 1 .. n
      PROVE  shown[k].hash = <<p, count[p] + 1 - k>>
  <2>1. n + 1 - k \in DOMAIN recent[p]
    BY <1>2 DEF TInv, TypeOK
  <2>2. recent[p][n + 1 - k].hash = <<p, count[p] - n + (n + 1 - k)>>
    BY <2>1 DEF WindowInv
  <2>3. count[p] - n + (n + 1 - k) = count[p] + 1 - k
    BY <1>2
  <2> QED
    BY <1>1, <2>2, <2>3
<1>4. ASSUME shown # <<>>
      PROVE  shown[1].hash = prev[p]
  <2>1. 1 \in 1 .. n
    BY <1>1, <1>2, <1>4
  <2>2. shown[1].hash = <<p, count[p]>>
    BY <1>2, <1>3, <2>1
  <2>3. count[p] # 0
    BY <1>2, <2>1, AuditAssumption
  <2> QED
    BY <2>2, <2>3 DEF TInv, PrevInv
<1> QED
  BY <1>1, <1>2, <1>3, <1>4 DEF IsTail, shown

\* Of the records of one server the newest are answered, and nothing else.
LEMMA AskedAreNewest ==
    ASSUME TInv, WindowInv, NEW p \in Run, NEW s \in Server \ {AnyServer},
           NEW limit \in 1 .. recentCap
    PROVE  IsNewestOf(Recent(p, limit, s), Recent(p, 0, AnyServer), s, limit)
<1> DEFINE A == Asked(p, s)
           all == Cardinality(A)
           n == Len(recent[p])
           shown == Recent(p, 0, AnyServer)
           asked == Recent(p, limit, s)
           m == IF limit = 0 \/ all <= limit THEN all ELSE limit
<1>1. all \in Nat /\ \A i \in A : i \in DOMAIN recent[p] /\ i \in Nat
  BY AskedType
<1>2. limit \in Nat /\ limit # 0
  BY AuditAssumption
<1>3. /\ Len(shown) = n /\ shown \in Seq(Entry)
      /\ \A k \in 1 .. n : shown[k] = recent[p][n + 1 - k]
  BY WholeWindow
<1>4. n \in Nat /\ DOMAIN recent[p] = 1 .. n
  BY DEF TInv, TypeOK
<1>5. PICK from : /\ Enumerates(from, A)
                  /\ asked = [k \in 1 .. m |-> recent[p][from[all + 1 - k]]]
  BY <1>2, RecentAnswers DEF AnswersFrom
<1>6. \A i \in A : recent[p][i].server = s
  BY Zenon DEF Asked
<1>7. \A i \in DOMAIN recent[p] : recent[p][i].server = s => i \in A
  BY DEF Asked
<1>8. m \in Nat /\ m <= limit /\ m <= all /\ (m = limit \/ m = all)
  BY <1>1, <1>2
<1> DEFINE place == [k \in 1 .. m |-> from[all + 1 - k]]
<1>9. /\ \A k \in 1 .. m : place[k] \in A
      /\ \A k, l \in 1 .. m : k < l => place[l] < place[k]
  <2> SUFFICES ASSUME NEW k \in 1 .. m
               PROVE  /\ place[k] \in A
                      /\ \A l \in 1 .. m : k < l => place[l] < place[k]
      BY Zenon
  <2> HIDE DEF A, m
  <2>1. all + 1 - k \in 1 .. all /\ place[k] = from[all + 1 - k]
    BY <1>1, <1>8
  <2>2. place[k] \in A
    BY <1>5, <2>1 DEF Enumerates
  <2>3. ASSUME NEW l \in 1 .. m, k < l PROVE place[l] < place[k]
    <3>1. all + 1 - l \in 1 .. all /\ all + 1 - l < all + 1 - k /\ place[l] = from[all + 1 - l]
      BY <1>1, <1>8, <2>3
    <3> QED
      BY <1>5, <2>1, <3>1 DEF Enumerates
  <2> QED
    BY <2>2, <2>3
<1>10. ASSUME NEW x \in A, \A k \in 1 .. m : place[k] # x
       PROVE  m = limit /\ \A k \in 1 .. m : x < place[k]
  <2> HIDE DEF A, m
  <2>1. PICK r \in 1 .. all : from[r] = x
    BY <1>5 DEF Enumerates
  <2>2. all + 1 - r \notin 1 .. m
    <3>1. all + 1 - (all + 1 - r) = r
      BY <1>1
    <3>2. all + 1 - r \in 1 .. m => place[all + 1 - r] = from[r]
      BY <3>1
    <3> QED
      BY <1>10, <2>1, <3>2
  <2>3. m = limit /\ all + 1 - r > m
    BY <1>1, <1>8, <2>1, <2>2
  <2>4. ASSUME NEW k \in 1 .. m PROVE x < place[k]
    <3>1. all + 1 - k \in 1 .. all /\ r < all + 1 - k /\ place[k] = from[all + 1 - k]
      BY <1>1, <1>8, <2>3
    <3> QED
      BY <1>5, <2>1, <3>1 DEF Enumerates
  <2> QED
    BY <2>3, <2>4
<1> HIDE DEF m, A, shown, asked, n, place
<1>11. Len(asked) = m /\ (\A k \in 1 .. m : asked[k] = recent[p][place[k]])
  <2> DEFINE f == [k \in 1 .. m |-> recent[p][from[all + 1 - k]]]
             V == {recent[p][from[all + 1 - k]] : k \in 1 .. m}
  <2>1. f \in [1 .. m -> V]
    OBVIOUS
  <2>2. \A k \in 1 .. m : f[k] = recent[p][place[k]]
    BY DEF place
  <2> HIDE DEF f, V
  <2>3. f \in Seq(V) /\ Len(f) = m
    BY <1>8, <2>1
  <2> QED
    BY <1>5, <2>2, <2>3 DEF f
<1>12. ASSUME NEW k \in 1 .. m
       PROVE  asked[k].server = s /\ asked[k] \in Range(shown)
  <2>1. place[k] \in 1 .. n /\ asked[k] = recent[p][place[k]]
    BY <1>1, <1>4, <1>9, <1>11
  <2>2. n + 1 - place[k] \in 1 .. n /\ n + 1 - (n + 1 - place[k]) = place[k]
    BY <1>4, <2>1
  <2>3. shown[n + 1 - place[k]] = asked[k] /\ n + 1 - place[k] \in DOMAIN shown
    BY <1>3, <2>1, <2>2
  <2> QED
    BY <1>6, <1>9, <2>1, <2>3 DEF Range
<1>13. ASSUME NEW i \in 1 .. m, NEW j \in 1 .. m, i < j
       PROVE  asked[i].hash[2] > asked[j].hash[2]
  <2>1. place[j] < place[i] /\ place[i] \in DOMAIN recent[p] /\ place[j] \in DOMAIN recent[p]
    BY <1>1, <1>9, <1>13
  <2> QED
    BY <1>11, <2>1, LaterIsNewer
<1>14. ASSUME NEW e \in Range(shown) \ Range(asked), e.server = s
       PROVE  m = limit /\ \A i \in 1 .. limit : asked[i].hash[2] > e.hash[2]
  <2>1. PICK k \in 1 .. n : e = shown[k]
    BY <1>3, <1>4 DEF Range
  <2>2. PICK x \in DOMAIN recent[p] : e = recent[p][x]
    <3>1. n + 1 - k \in 1 .. n /\ e = recent[p][n + 1 - k]
      BY <1>3, <1>4, <2>1
    <3> QED
      BY <1>4, <3>1
  <2>3. x \in A
    BY <1>7, <1>14, <2>2
  <2>4. \A i \in 1 .. m : place[i] # x
    BY <1>5, <1>11, <1>14, <2>2 DEF Range
  <2>5. m = limit /\ \A i \in 1 .. m : x < place[i]
    BY <1>10, <2>3, <2>4
  <2>6. ASSUME NEW i \in 1 .. m
        PROVE  asked[i].hash[2] > e.hash[2]
    <3>1. place[i] \in DOMAIN recent[p] /\ x < place[i] /\ asked[i] = recent[p][place[i]]
      BY <1>1, <1>9, <1>11, <2>5
    <3> QED
      BY <2>2, <3>1, LaterIsNewer
  <2> QED
    BY <2>5, <2>6
<1> QED
  BY <1>8, <1>11, <1>12, <1>13, <1>14 DEF IsNewestOf, shown, asked

\* The panel's window is the end of the run's records whatever the file took,
\* newest first, and of one server's it answers the newest and no other
\* (audit.go, Record and Recent).
THEOREM Windows == Spec => []WindowIsTail
<1>1. TInv /\ WindowInv => WindowIsTail
  BY ShownIsTail, AskedAreNewest, Zenon DEF WindowIsTail
<1>2. Init => TInv /\ WindowInv
  BY TypeInit, WindowInit
<1>3. TInv /\ WindowInv /\ [Next]_vars => (TInv /\ WindowInv)'
  BY TypeStep, WindowStep
<1> QED
  BY <1>1, <1>2, <1>3, PTL DEF Spec

-----------------------------------------------------------------------------
(* Masks.                                                                  *)

\* A finite set of places that holds one has a first and a last.
LEMMA FirstAndLast ==
    ASSUME NEW S, IsFiniteSet(S), \A i \in S : i \in Nat, S # {}
    PROVE  /\ \E i \in S : \A j \in S : i <= j
           /\ \E i \in S : \A j \in S : i >= j
<1> DEFINE n == Cardinality(S)
<1>1. PICK place : Reads(place, <<>>, S)
  BY PickedInOrder
<1>2. n \in Nat /\ n # 0
  BY FS_CardinalityType, FS_EmptySet
<1>3. /\ place[1] \in S /\ place[n] \in S /\ 1 \in 1 .. n /\ n \in 1 .. n
      /\ \A k, l \in 1 .. n : k < l => place[k] < place[l]
  BY <1>1, <1>2 DEF Reads, Enumerates
<1>4. ASSUME NEW j \in S
      PROVE  place[1] <= j /\ place[n] >= j
  <2>1. PICK k \in 1 .. n : place[k] = j
    BY <1>1 DEF Reads, Enumerates
  <2>2. k = 1 \/ place[1] < j
    BY <1>2, <1>3, <2>1
  <2>3. k = n \/ j < place[n]
    BY <1>2, <1>3, <2>1
  <2> QED
    BY <1>3, <2>1, <2>2, <2>3
<1> QED
  BY <1>3, <1>4

\* What is picked from a text is a text.
LEMMA PickedType ==
    ASSUME NEW C, NEW s \in Seq(C), NEW S \in SUBSET DOMAIN s
    PROVE  /\ Picked(s, S) \in Seq(C) /\ IsFiniteSet(S) /\ \A i \in S : i \in Nat
           /\ Len(Picked(s, S)) = Cardinality(S) /\ Cardinality(S) \in Nat
<1> DEFINE n == Cardinality(S)
           q == Picked(s, S)
<1>1. Len(s) \in Nat /\ DOMAIN s = 1 .. Len(s) /\ \A i \in DOMAIN s : s[i] \in C
  OBVIOUS
<1>2. IsFiniteSet(1 .. Len(s))
  BY <1>1, FS_Interval
<1>3. IsFiniteSet(S) /\ n \in Nat /\ \A i \in S : i \in Nat
  BY <1>1, <1>2, FS_Subset, FS_CardinalityType
<1>4. PICK place : Reads(place, s, S)
  BY <1>3, PickedInOrder
<1>5. q = [k \in 1 .. n |-> s[place[k]]] /\ place \in [1 .. n -> S]
  BY <1>4 DEF Reads, Enumerates
<1> HIDE DEF n, q
<1>6. q \in [1 .. n -> C]
  BY <1>1, <1>5
<1>7. q \in Seq(C) /\ Len(q) = n
  BY <1>3, <1>6
<1> QED
  BY <1>3, <1>7 DEF n, q

\* What shows x hides some of it, and shows n characters at most.
Hides(shows, x, n) ==
    LET shown == {i \in 1 .. Len(x) : shows[i] # Star}
    IN  /\ Len(shows) >= Len(x)
        /\ \A i \in shown : shows[i] = x[i]
        /\ Cardinality(shown) <= n
        /\ x # <<>> => Cardinality(shown) < Len(x)

\* What keepEnds keeps is its ends, and never all.
LEMMA EndsHide ==
    ASSUME NEW C, NEW x \in Seq(C), NEW head \in Nat, NEW tail \in Nat
    PROVE  /\ Hides(keepEnds(x, head, tail), x, head + tail)
           /\ keepEnds(x, head, tail) \in Seq(C \cup {Star})
           /\ Len(keepEnds(x, head, tail)) = Len(x)
<1> DEFINE n == Len(x)
           k == keepEnds(x, head, tail)
           shown == {i \in 1 .. n : k[i] # Star}
<1>1. n \in Nat /\ (\A i \in 1 .. n : x[i] \in C) /\ (x # <<>> => n # 0)
  OBVIOUS
<1>2. k = [i \in 1 .. n |-> IF n <= head + tail \/ (head < i /\ i <= n - tail) THEN Star ELSE x[i]]
  BY DEF keepEnds
<1> HIDE DEF n, k
<1>3. k \in [1 .. n -> C \cup {Star}]
  BY <1>1, <1>2
<1>4. k \in Seq(C \cup {Star}) /\ Len(k) = n
  BY <1>1, <1>3
<1>5. \A i \in 1 .. n : k[i] # Star => k[i] = x[i] /\ ~(n <= head + tail) /\ ~(head < i /\ i <= n - tail)
  BY <1>2
<1>6. Cardinality(shown) <= head + tail /\ (n # 0 => Cardinality(shown) < n)
  <2>1. CASE n <= head + tail
    <3>1. shown = {}
      BY <1>5, <2>1
    <3>2. Cardinality(shown) = 0
      BY <3>1, FS_EmptySet
    <3> QED
      BY <1>1, <3>2
  <2>2. CASE ~(n <= head + tail)
    <3> DEFINE H == 1 .. head
               T == n - tail + 1 .. n
    <3>1. IsFiniteSet(H) /\ Cardinality(H) = head
      BY FS_Interval
    <3>2. IsFiniteSet(T) /\ Cardinality(T) = tail
      <4>1. n - tail + 1 \in Int /\ n \in Int
        BY <1>1
      <4> QED
        BY <1>1, <4>1, FS_Interval
    <3>3. shown \in SUBSET (H \cup T)
      BY <1>1, <1>5
    <3> HIDE DEF H, T, shown
    <3>4. /\ IsFiniteSet(H \cup T) /\ IsFiniteSet(H \cap T)
          /\ Cardinality(H \cup T) = Cardinality(H) + Cardinality(T) - Cardinality(H \cap T)
      BY <3>1, <3>2, FS_Union, FS_Intersection
    <3>5. Cardinality(H \cap T) \in Nat /\ Cardinality(H \cup T) \in Nat
      BY <3>4, FS_CardinalityType
    <3>6. IsFiniteSet(shown) /\ Cardinality(shown) <= Cardinality(H \cup T)
      BY <3>3, <3>4, FS_Subset
    <3>7. Cardinality(shown) \in Nat
      BY <3>6, FS_CardinalityType
    <3> QED
      BY <1>1, <2>2, <3>1, <3>2, <3>4, <3>5, <3>6, <3>7
  <2> QED
    BY <2>1, <2>2
<1> QED
  BY <1>1, <1>4, <1>5, <1>6 DEF Hides, n, k

\* Trimming a text leaves a text.
LEMMA TrimType ==
    ASSUME NEW C, NEW s \in Seq(C)
    PROVE  TrimSpace(s) \in Seq(C)
<1> DEFINE used == {i \in DOMAIN s : s[i] # Space}
           lo == Min(used)
           hi == Max(used)
<1>1. Len(s) \in Nat /\ DOMAIN s = 1 .. Len(s)
  OBVIOUS
<1>2. used \in SUBSET DOMAIN s
  OBVIOUS
<1>3. TrimSpace(s) = IF used = {} THEN <<>> ELSE SubSeq(s, lo, hi)
  BY DEF TrimSpace
<1>4. CASE used = {}
  BY <1>3, <1>4
<1>5. CASE used # {}
  <2> HIDE DEF used
  <2>1. IsFiniteSet(used) /\ \A i \in used : i \in Nat
    BY <1>2, PickedType
  <2>2. lo \in used /\ hi \in used
    BY <1>5, <2>1, FirstAndLast DEF Min, Max
  <2> HIDE DEF lo, hi
  <2>3. lo \in 1 .. Len(s) /\ hi \in 1 .. Len(s)
    BY <1>1, <1>2, <2>2
  <2>4. SubSeq(s, lo, hi) \in Seq(C)
    BY <1>1, <2>3
  <2> QED
    BY <1>3, <1>5, <2>4
<1> QED
  BY <1>4, <1>5

\* The last "@" is in the text, if there is one.
LEMMA LastAtType ==
    ASSUME NEW C, NEW s \in Seq(C)
    PROVE  LastAt(s) \in 0 .. Len(s)
<1> DEFINE ats == {0} \cup {i \in DOMAIN s : s[i] = At}
<1>1. Len(s) \in Nat /\ DOMAIN s = 1 .. Len(s)
  OBVIOUS
<1>2. IsFiniteSet(0 .. Len(s))
  BY <1>1, FS_Interval
<1>3. ats \in SUBSET (0 .. Len(s)) /\ ats # {}
  BY <1>1
<1>4. LastAt(s) = Max(ats)
  BY DEF LastAt
<1> HIDE DEF ats
<1>5. IsFiniteSet(ats)
  BY <1>2, <1>3, FS_Subset
<1>6. \A i \in ats : i \in Nat
  BY <1>1, <1>3
<1>7. Max(ats) \in ats
  BY <1>3, <1>5, <1>6, FirstAndLast DEF Max
<1> QED
  BY <1>3, <1>4, <1>7

\* What is appended to a mask takes nothing from it.
LEMMA HidesBefore ==
    ASSUME NEW C, NEW k \in Seq(C), NEW rest \in Seq(C), NEW x, Len(k) = Len(x), NEW n,
           Hides(k, x, n)
    PROVE  Hides(k \o rest, x, n)
<1>1. Len(k \o rest) = Len(k) + Len(rest) /\ Len(k) \in Nat /\ Len(rest) \in Nat
  OBVIOUS
<1>2. \A i \in 1 .. Len(x) : (k \o rest)[i] = k[i]
  OBVIOUS
<1> DEFINE m == k \o rest
<1>3. {i \in 1 .. Len(x) : m[i] # Star} = {i \in 1 .. Len(x) : k[i] # Star}
  BY <1>2
<1>4. Len(m) >= Len(x)
  BY <1>1
<1>5. \A i \in 1 .. Len(x) : m[i] = k[i]
  BY <1>2
<1> HIDE DEF m
<1> QED
  BY <1>3, <1>4, <1>5 DEF Hides, m

\* Each kind of mask hides some of what it is about.
LEMMA EveryKindHides ==
    ASSUME NEW C, NEW raw \in Seq(C), NEW kind
    PROVE  Hides(mask(kind, raw), Secret(kind, TrimSpace(raw)), MayShow(kind))
<1> DEFINE s == TrimSpace(raw)
           at == LastAt(s)
<1>1. s \in Seq(C)
  BY TrimType
<1> HIDE DEF s
<1>2. digitsOnly(s) \in Seq(C) /\ WithoutSpaces(s) \in Seq(C)
  <2> DEFINE digits == {i \in DOMAIN s : s[i] \in Digit}
             used == {i \in DOMAIN s : s[i] # Space}
  <2>1. digitsOnly(s) = Picked(s, digits) /\ WithoutSpaces(s) = Picked(s, used)
    BY DEF digitsOnly, WithoutSpaces
  <2>2. digits \in SUBSET DOMAIN s /\ used \in SUBSET DOMAIN s
    OBVIOUS
  <2> HIDE DEF digits, used
  <2> QED
    BY <1>1, <2>1, <2>2, PickedType
<1>3. at \in 0 .. Len(s) /\ Len(s) \in Nat
  BY <1>1, LastAtType
<1> HIDE DEF at
<1>4. CASE kind \in {"tckn", "id"}
  <2>1. Hides(keepEnds(digitsOnly(s), 3, 2), digitsOnly(s), 3 + 2)
    BY <1>2, EndsHide
  <2>2. /\ mask(kind, raw) = keepEnds(digitsOnly(s), 3, 2)
        /\ Secret(kind, s) = digitsOnly(s) /\ MayShow(kind) = 3 + 2
    BY <1>4 DEF mask, Secret, MayShow, s
  <2> QED
    BY <2>1, <2>2 DEF s
<1>5. CASE kind = "iban"
  <2>1. Hides(keepEnds(WithoutSpaces(s), 4, 4), WithoutSpaces(s), 4 + 4)
    BY <1>2, EndsHide
  <2>2. /\ mask(kind, raw) = keepEnds(WithoutSpaces(s), 4, 4)
        /\ Secret(kind, s) = WithoutSpaces(s) /\ MayShow(kind) = 4 + 4
    BY <1>5 DEF mask, Secret, MayShow, s
  <2> QED
    BY <2>1, <2>2 DEF s
<1>6. CASE kind = "phone"
  <2>1. Hides(keepEnds(s, 0, 4), s, 0 + 4)
    BY <1>1, EndsHide
  <2>2. /\ mask(kind, raw) = keepEnds(s, 0, 4)
        /\ Secret(kind, s) = s /\ MayShow(kind) = 0 + 4
    BY <1>6 DEF mask, Secret, MayShow, s
  <2> QED
    BY <2>1, <2>2 DEF s
<1>7. CASE kind = "card"
  <2>1. Hides(keepEnds(digitsOnly(s), 0, 4), digitsOnly(s), 0 + 4)
    BY <1>2, EndsHide
  <2>2. /\ mask(kind, raw) = keepEnds(digitsOnly(s), 0, 4)
        /\ Secret(kind, s) = digitsOnly(s) /\ MayShow(kind) = 0 + 4
    BY <1>7 DEF mask, Secret, MayShow, s
  <2> QED
    BY <2>1, <2>2 DEF s
<1>8. CASE kind = "email" /\ at > 1
  <2> DEFINE x == SubSeq(s, 1, at - 1)
             rest == SubSeq(s, at, Len(s))
             k == keepEnds(x, 1, 0)
  <2>1. x \in Seq(C) /\ rest \in Seq(C)
    BY <1>1, <1>3, <1>8
  <2> DEFINE D == C \cup {Star}
  <2>2. MayShow(kind) = 1 + 0
    BY <1>8 DEF MayShow
  <2>3. Secret(kind, s) = x
    BY <1>8 DEF Secret, at
  <2>4. mask(kind, raw) = k \o rest
    BY <1>8, Zenon DEF mask, s, at
  <2> HIDE DEF x, rest
  <2>5. Hides(k, x, 1 + 0) /\ k \in Seq(D) /\ Len(k) = Len(x)
    BY <2>1, EndsHide
  <2>6. rest \in Seq(D)
    BY <2>1
  <2> HIDE DEF k, D
  <2>7. Hides(k \o rest, x, 1 + 0)
    BY <2>5, <2>6, HidesBefore
  <2> QED
    BY <2>2, <2>7, <2>3, <2>4 DEF s
<1>9. CASE kind \notin {"tckn", "id", "iban", "phone", "card"} /\ ~(kind = "email" /\ at > 1)
  <2>1. Hides(keepEnds(s, 1, 0), s, 1 + 0)
    BY <1>1, EndsHide
  <2>2. /\ mask(kind, raw) = keepEnds(s, 1, 0)
        /\ Secret(kind, s) = s /\ MayShow(kind) = 1 + 0
    BY <1>9 DEF mask, Secret, MayShow, s, at
  <2> QED
    BY <2>1, <2>2 DEF s
<1> QED
  BY <1>4, <1>5, <1>6, <1>7, <1>8, <1>9

\* A text is a sequence of characters, and what is shown is its mask.
MaskInv ==
    /\ step \in {"read", "shown"} => call.text \in Seq(Char)
    /\ step = "shown" => answer = Applied(call.word, call.kind, call.text)

\* Whatever the texts, a mask hides at least one character of what it is about
\* and shows no more than its kind may, and an unknown word masks, too
\* (expression.go, Apply and mask).
THEOREM Masks == CallSpec => []MaskHides
<1>1. CallInit => MaskInv
  <2> SUFFICES ASSUME CallInit, step = "read" PROVE call.text \in Seq(Char)
      BY DEF CallInit, MaskInv
  <2>1. call.text \in Texts
    BY DEF CallInit
  <2>2. ASSUME NEW n \in Nat, NEW t \in [1 .. n -> Char] PROVE t \in Seq(Char)
    OBVIOUS
  <2>3. Digit \subseteq Char
    BY DEF Char
  <2>4. \A n \in 0 .. 10 : \A t \in [1 .. n -> Digit] : t \in [1 .. n -> Char] /\ n \in Nat
    BY <2>3
  <2>5. \E n \in Nat : call.text \in [1 .. n -> Char]
    <3>1. CASE \E n \in 0 .. MaxText : call.text \in [1 .. n -> Char]
      BY <3>1, InputsAssumption
    <3>2. CASE \E n \in 0 .. 10 : call.text \in [1 .. n -> Digit]
      <4>1. PICK n \in 0 .. 10 : call.text \in [1 .. n -> Digit]
        BY <3>2
      <4>2. call.text \in [1 .. n -> Char] /\ n \in Nat
        BY <2>4, <4>1, Zenon
      <4> QED
        BY <4>2
    <3> QED
      BY <2>1, <3>1, <3>2, Zenon DEF Texts
  <2> QED
    BY <2>2, <2>5
<1>2. MaskInv /\ [CallNext]_callVars => MaskInv'
  <2> SUFFICES ASSUME MaskInv, [CallNext]_callVars PROVE MaskInv'
      OBVIOUS
  <2>1. CASE Ask \/ Fetch
    BY <2>1 DEF Ask, Fetch, MaskInv
  <2>2. CASE Shape
    BY <2>2 DEF Shape, MaskInv
  <2>3. CASE UNCHANGED callVars
    BY <2>3 DEF callVars, MaskInv
  <2> QED
    BY <2>1, <2>2, <2>3 DEF CallNext
<1>3. MaskInv => MaskHides
  <2> SUFFICES ASSUME MaskInv, step = "shown", call.word # "" PROVE MaskHides
      BY DEF MaskHides
  <2> DEFINE kind == IF call.word = "mask" THEN call.kind ELSE "default"
  <2>1. answer = mask(kind, call.text)
    BY DEF MaskInv, Applied
  <2>2. Hides(answer, Secret(kind, TrimSpace(call.text)), MayShow(kind))
    BY <2>1, EveryKindHides DEF MaskInv
  <2> QED
    BY <2>2 DEF MaskHides, Hides
<1> QED
  BY <1>1, <1>2, <1>3, PTL DEF CallSpec

-----------------------------------------------------------------------------
(* Queries.                                                                *)

\* The rows a tool's given filters ask for.
RowsFor(tool, args) ==
    {row \in Table : \A i \in DOMAIN tool.filters :
        LET f == tool.filters[i]
        IN  Given(args, f) => Sat(f.op, row[f.column], args[f.name])}

\* The least of three, when one of the first two is the least of them.
LEMMA LeastOfThree ==
    ASSUME NEW a \in Nat, NEW b \in Nat, NEW c \in Nat
    PROVE  Min({a, b, c}) = Min({IF a <= b THEN a ELSE b, c})
<1> DEFINE l == IF a <= b THEN a ELSE b
           m == IF l <= c THEN l ELSE c
<1>1. m \in {a, b, c} /\ m \in {l, c} /\ (\A y \in {a, b, c} : m <= y) /\ \A y \in {l, c} : m <= y
  BY SMT
<1>2. Min({a, b, c}) = m
  <2>1. \A x \in {a, b, c} : (\A y \in {a, b, c} : x <= y) => x = m
    BY <1>1, SMT
  <2> HIDE DEF m
  <2> QED
    BY <1>1, <2>1, SMT DEF Min
<1>3. Min({l, c}) = m
  <2>1. \A x \in {l, c} : (\A y \in {l, c} : x <= y) => x = m
    BY <1>1, SMT
  <2> HIDE DEF m
  <2> QED
    BY <1>1, <2>1, SMT DEF Min
<1> QED
  BY <1>2, <1>3

\* A limit that a query has: one at least and maxLimit at most.
LEMMA ClampedType ==
    ASSUME NEW limit \in Int
    PROVE  Clamped(limit) \in 1 .. maxLimit
  BY InputsAssumption DEF Clamped

\* A filter of a tool.
LEMMA FiltersType ==
    ASSUME NEW tool \in Tool
    PROVE  tool.filters \in Seq(Filter)
<1>1. PICK n \in 0 .. MaxFilters : tool.filters \in [1 .. n -> Filter]
  BY InputsAssumption DEF Tool, Filters
<1> QED
  BY <1>1, InputsAssumption

\* A query's conditions are the filters given, each with its own argument; its
\* limit comes after them.
LEMMA QueryIsExact ==
    ASSUME NEW tool \in Tool, NEW args
    PROVE  LET q == BuildQuery(tool, args)
           IN  /\ q.kind = tool.kind
               /\ Selected(q, Table) = RowsFor(tool, args)
               /\ tool.kind = "query" => q.params[q.top + 1] = Clamped(tool.limit)
<1> DEFINE fs == tool.filters
           P == {i \in DOMAIN fs : Given(args, fs[i])}
           n == Cardinality(P)
           given == GivenFilters(tool, args)
           q == BuildQuery(tool, args)
<1>1. fs \in Seq(Filter)
  BY FiltersType
<1>2. given = Picked(fs, P)
  BY DEF GivenFilters
<1>3. P \in SUBSET DOMAIN fs
  OBVIOUS
<1>4. \A i \in DOMAIN fs : Given(args, fs[i]) <=> i \in P
  OBVIOUS
<1> HIDE DEF fs, P
<1>5. IsFiniteSet(P) /\ n \in Nat /\ Len(given) = n /\ \A i \in P : i \in Nat
  BY <1>1, <1>2, <1>3, PickedType
<1>6. PICK place : Reads(place, fs, P)
  BY <1>5, PickedInOrder
<1>7. /\ given = [k \in 1 .. n |-> fs[place[k]]]
      /\ \A k \in 1 .. n : place[k] \in P
      /\ \A i \in P : \E k \in 1 .. n : place[k] = i
  BY <1>2, <1>6 DEF Reads, Enumerates
<1> DEFINE params == [k \in DOMAIN given |-> args[given[k].name]]
<1>8. /\ q.kind = tool.kind /\ q.where = Conditions(tool, args) /\ q.top = Len(params)
      /\ q.params = IF tool.kind = "query" THEN Append(params, Clamped(tool.limit)) ELSE params
  BY DEF BuildQuery
<1> HIDE DEF n, given, q
<1>9. /\ DOMAIN q.where = 1 .. n
      /\ \A k \in 1 .. n : q.where[k] = [column |-> fs[place[k]].column,
                                          op |-> fs[place[k]].op, ph |-> k - 1]
  BY <1>7, <1>8 DEF Conditions, given
<1>10. Len(params) = n /\ (\A k \in 1 .. n : params[k] = args[fs[place[k]].name])
       /\ \E V : params \in Seq(V)
  <2> DEFINE V == {args[given[k].name] : k \in 1 .. n}
  <2>1. DOMAIN given = 1 .. n
    BY <1>7
  <2>2. params \in [1 .. n -> V]
    BY <2>1
  <2>3. \A k \in 1 .. n : params[k] = args[fs[place[k]].name]
    BY <1>7, <2>1
  <2> HIDE DEF params, V
  <2>4. params \in Seq(V) /\ Len(params) = n
    BY <1>5, <2>2
  <2> QED
    BY <2>3, <2>4
<1> HIDE DEF params
<1>11. /\ \A k \in 1 .. n : q.params[k] = args[fs[place[k]].name]
       /\ tool.kind = "query" => q.params[n + 1] = Clamped(tool.limit)
  <2>1. PICK V : params \in Seq(V)
    BY <1>10
  <2> DEFINE limit == Clamped(tool.limit)
             W == V \cup {limit}
  <2>2. params \in Seq(W) /\ limit \in W
    BY <2>1
  <2> HIDE DEF limit, W
  <2>3. /\ \A k \in 1 .. Len(params) : Append(params, limit)[k] = params[k]
        /\ Append(params, limit)[Len(params) + 1] = limit
    BY <2>2, AppendProperties
  <2> QED
    BY <1>8, <1>10, <2>3 DEF limit
<1>12. ASSUME NEW row \in Table
       PROVE  (row \in Selected(q, Table)) <=> (row \in RowsFor(tool, args))
  <2> DEFINE Meets(i) == Sat(fs[i].op, row[fs[i].column], args[fs[i].name])
  <2>1. row \in RowsFor(tool, args) <=> \A i \in DOMAIN fs : Given(args, fs[i]) => Meets(i)
    BY DEF RowsFor, fs
  <2>2. row \in RowsFor(tool, args) <=> \A i \in P : Meets(i)
    BY <1>3, <1>4, <2>1
  <2>3. ASSUME NEW k \in 1 .. n
        PROVE  Sat(q.where[k].op, row[q.where[k].column], q.params[q.where[k].ph + 1])
               <=> Meets(place[k])
    <3>1. /\ q.where[k].op = fs[place[k]].op /\ q.where[k].column = fs[place[k]].column
          /\ q.where[k].ph + 1 = k
      <4>1. q.where[k] = [column |-> fs[place[k]].column, op |-> fs[place[k]].op, ph |-> k - 1]
        BY <1>9
      <4>2. k - 1 + 1 = k
        BY <1>5
      <4> DEFINE c == fs[place[k]].column
                 o == fs[place[k]].op
                 h == k - 1
                 w == q.where[k]
      <4>3. w = [column |-> c, op |-> o, ph |-> h]
        BY <4>1
      <4> HIDE DEF c, o, h, w
      <4>4. w.column = c /\ w.op = o /\ w.ph = h
        BY <4>3
      <4>5. w.ph + 1 = k
        BY <4>2, <4>4 DEF h
      <4> QED
        BY <4>4, <4>5 DEF w, c, o
    <3> QED
      BY <1>11, <3>1
  <2>4. row \in Selected(q, Table) <=> \A k \in 1 .. n : Meets(place[k])
    <3> HIDE DEF Meets
    <3> QED
      BY <1>9, <2>3 DEF Selected
  <2> HIDE DEF Meets
  <2> QED
    BY <1>7, <2>2, <2>4
<1>13. Selected(q, Table) = RowsFor(tool, args)
  <2>1. \A row \in Selected(q, Table) : row \in Table
    BY DEF Selected
  <2>2. \A row \in RowsFor(tool, args) : row \in Table
    BY DEF RowsFor
  <2> QED
    BY <1>12, <2>1, <2>2
<1> QED
  BY <1>8, <1>10, <1>11, <1>13 DEF q

\* A call on its way is one of a tool, its query the one BuildQuery makes, and
\* its answer one the database may give.
AskInv ==
    /\ step \in {"asked", "queried", "answered"} => call.tool \in Tool
    /\ step \in {"queried", "answered"} => query = BuildQuery(call.tool, call.args)
    /\ step = "answered" => answer \in Answers(query, Table)

\* Whatever is given and left out, for any finite table and any tools, a count
\* counts the rows of the filters given, and a query returns these rows or as
\* many of them as its limit says (sqlgen.go, BuildQuery; mssql.go, Call).
THEOREM Exactness == CallSpec => []AnswerIsExact
<1>1. CallInit => AskInv
  BY DEF CallInit, AskInv
<1>2. AskInv /\ [CallNext]_callVars => AskInv'
  <2> SUFFICES ASSUME AskInv, [CallNext]_callVars PROVE AskInv'
      OBVIOUS
  <2>1. CASE Ask
    BY <2>1 DEF Ask, AskInv
  <2>2. CASE Fetch
    BY <2>2 DEF Fetch, AskInv
  <2>3. CASE Shape
    BY <2>3 DEF Shape, AskInv
  <2>4. CASE UNCHANGED callVars
    BY <2>4 DEF callVars, AskInv
  <2> QED
    BY <2>1, <2>2, <2>3, <2>4 DEF CallNext
<1>3. AskInv => AnswerIsExact
  <2> SUFFICES ASSUME AskInv, step = "answered" PROVE AnswerIsExact
      BY DEF AnswerIsExact
  <2> DEFINE wanted == {row \in Table : Wanted(row)}
             limit == Clamped(call.tool.limit)
  <2>1. call.tool \in Tool /\ query = BuildQuery(call.tool, call.args)
        /\ answer \in Answers(query, Table)
    BY DEF AskInv
  <2>2. wanted = RowsFor(call.tool, call.args)
    BY Zenon DEF Wanted, RowsFor
  <2>3. /\ query.kind = call.tool.kind /\ Selected(query, Table) = wanted
        /\ call.tool.kind = "query" => query.params[query.top + 1] = limit
    BY <2>1, <2>2, QueryIsExact
  <2>4. IsFiniteSet(wanted) /\ Cardinality(wanted) \in Nat
    <3>1. wanted \in SUBSET Table
      OBVIOUS
    <3> HIDE DEF wanted
    <3> QED
      BY <3>1, InputsAssumption, FS_Subset, FS_CardinalityType
  <2> HIDE DEF wanted
  <2>5. CASE call.tool.kind = "count"
    <3>1. answer = Cardinality(wanted)
      BY <2>1, <2>3, <2>5 DEF Answers
    <3> QED
      BY <2>5, <3>1 DEF AnswerIsExact, wanted
  <2>6. CASE call.tool.kind # "count"
    <3>1. call.tool.kind = "query" /\ call.tool.limit \in Int
      BY <2>1, <2>6, InputsAssumption DEF Tool
    <3>2. limit \in 1 .. maxLimit
      BY <3>1, ClampedType
    <3> HIDE DEF limit
    <3>3. answer \in SUBSET wanted /\ Cardinality(answer) = Min({limit, Cardinality(wanted)})
      BY <2>1, <2>3, <3>1 DEF Answers
    <3>4. limit = IF RowsAsked <= maxLimit THEN RowsAsked ELSE maxLimit
      BY <3>1, InputsAssumption, SMT DEF Clamped, RowsAsked, limit
    <3>5. RowsAsked \in Nat /\ maxLimit \in Nat
      BY <3>1, InputsAssumption, SMT DEF RowsAsked
    <3>6. Min({RowsAsked, maxLimit, Cardinality(wanted)}) = Min({limit, Cardinality(wanted)})
      BY <2>4, <3>4, <3>5, LeastOfThree, SMT
    <3> QED
      BY <2>6, <3>3, <3>6, SMT DEF AnswerIsExact, wanted
  <2> QED
    BY <2>5, <2>6
<1> QED
  BY <1>1, <1>2, <1>3, PTL DEF CallSpec
=============================================================================
