---------------------------- MODULE DocSyncProofs ---------------------------
(***************************************************************************)
(* What holds of DocSync for any number of files, edits and faults: the    *)
(* types, how many documents can leak into the server, what a watcher at   *)
(* rest has made of the knowledge base, and that a mirrored file stays so. *)
(***************************************************************************)
EXTENDS DocSync, FiniteSetTheorems, TLAPS

\* A scan that is past a step holds what the step has read.
HeldInv ==
    /\ pc \in {"extract", "unlink", "delete", "upload", "add", "purgeDelete"} => cur \in File
    /\ pc \in {"extract", "unlink", "delete", "upload", "add"} => hash \in Content
    /\ pc \in {"unlink", "delete", "upload", "add"} => text \in Content
    /\ pc = "add" => newId \in Id
    /\ pc \in {"unlink", "delete", "purgeDelete"} => state[cur] # NoEntry
    /\ pc \in {"purge", "purgeDelete"} => todo \subseteq Entries
    /\ pc = "purgeDelete" => cur \notin todo

TInv == TypeOK /\ HeldInv

\* An object is solid when an entry names it, the knowledge base has it and no
\* upload is about to replace it; it is in hand between two calls about it.
\* LeakBound is not inductive: an entry may keep, or be about to drop, an
\* object that an earlier failure has left behind.  What is neither solid nor
\* in hand has been paid for by a failure or a crash.
Solid == {state[f].id : f \in {g \in Entries :
             state[g].id \in kb /\ ~(g = cur /\ pc \in {"upload", "add"})}}
InHand == IF pc = "add" THEN {newId}
          ELSE IF pc \in {"delete", "purgeDelete"} THEN {state[cur].id} ELSE {}
Loose == files \ (Solid \cup InHand)
LooseInv == Cardinality(Loose) <= failures + crashes * Cardinality(File)

-----------------------------------------------------------------------------
(* The types.                                                              *)

LEMMA TypeInit == Init => TInv
<1> SUFFICES ASSUME Init PROVE TInv
    OBVIOUS
<1> USE NamesAssumption, BoundsAssumption DEF Init
<1>1. disk \in [File -> Content \cup {Absent}] /\ reachable \in BOOLEAN
  OBVIOUS
<1>2. written \in [File -> SUBSET Content] /\ restored \subseteq File
  OBVIOUS
<1>3. /\ state \in [File -> Entry \cup {NoEntry}] /\ saved \in [File -> Entry \cup {NoEntry}]
      /\ pc = "boot" /\ cur \in File \cup {NoFile}
      /\ hash \in Content \cup {Absent} /\ text \in Content \cup {Absent}
      /\ newId \in 0 .. MaxUploads /\ todo \subseteq File /\ seen \subseteq File
  OBVIOUS
<1>4. {first, watching, event, armed, token, missed} \subseteq BOOLEAN
  BY Zenon
<1>5. /\ kb \subseteq Id /\ files \subseteq Id /\ doc \in [Id -> Doc \cup {NoDoc}]
      /\ uploads \in 0 .. MaxUploads /\ {edits, failures, crashes, drops, outages} \subseteq Nat
  OBVIOUS
<1> QED
  BY <1>1, <1>2, <1>3, <1>4, <1>5 DEF TInv, TypeOK, HeldInv

LEMMA TypeStep == TInv /\ [Next]_vars => TInv'
<1> SUFFICES ASSUME TInv, [Next]_vars PROVE TInv'
    OBVIOUS
<1> USE NamesAssumption, BoundsAssumption
    DEF TInv, TypeOK, HeldInv, MayHappen, Fails, dirVars, localVars, watchVars, remoteVars, envVars
<1>1. CASE Boot
  BY <1>1 DEF Boot, ScanBegin, Listing
<1>2. ASSUME NEW f \in File, Visit(f) PROVE TInv'
  BY <1>2 DEF Visit
<1>3. CASE Extract
  BY <1>3 DEF Extract
<1>4. CASE UnlinkOld
  BY <1>4 DEF UnlinkOld, Remove, Entries
<1>5. CASE DeleteOld
  BY <1>5 DEF DeleteOld, Remove
<1>6. CASE Upload
  <2>1. CASE Stored
    <3>1. uploads + 1 \in Id /\ uploads' = uploads + 1 /\ uploads' \in 0 .. MaxUploads
      BY <2>1 DEF Stored, Id
    <3>2. files' \subseteq Id /\ doc' \in [Id -> Doc \cup {NoDoc}]
      BY <1>6, <2>1, <3>1 DEF Stored, Upload, Doc
    <3>3. newId' \in 0 .. MaxUploads /\ (pc' = "add" => newId' \in Id)
      BY <1>6, <3>1 DEF Upload, Id
    <3> QED
      BY <1>6, <3>1, <3>2, <3>3 DEF Upload
  <2>2. CASE UNCHANGED <<uploads, files, doc>> /\ pc' = "walk"
    BY <1>6, <2>2 DEF Upload
  <2> QED
    BY <1>6, <2>1, <2>2 DEF Upload
<1>7. CASE Add
  <2>1. state' \in [File -> Entry \cup {NoEntry}]
    BY <1>7 DEF Add, Entry
  <2> QED
    BY <1>7, <2>1 DEF Add
<1>8. CASE WalkEnds
  BY <1>8 DEF WalkEnds, Entries
<1>9. ASSUME NEW f \in File, PurgeUnlink(f) PROVE TInv'
  BY <1>9 DEF PurgeUnlink, Remove, Entries
<1>10. CASE PurgeDelete
  BY <1>10 DEF PurgeDelete, Remove, Entries
<1>11. CASE Save
  BY <1>11 DEF Save, Entries
<1>12. CASE StartWatching \/ HandleEvent \/ TimerFires
  BY <1>12 DEF StartWatching, HandleEvent, TimerFires, Entries
<1>13. CASE Debounced
  BY <1>13 DEF Debounced, ScanBegin, Listing
<1>14. ASSUME NEW f \in File, NEW c \in Content \cup {Absent}, Edit(f, c) PROVE TInv'
  <2>1. /\ disk' \in [File -> Content \cup {Absent}] /\ written' \in [File -> SUBSET Content]
        /\ restored' \subseteq File
    BY <1>14 DEF Edit
  <2>2. {event', missed'} \subseteq BOOLEAN
    BY <1>14, Zenon DEF Edit, Seen, Unseen
  <2>3. /\ edits' \in Nat /\ drops' \in Nat
        /\ UNCHANGED <<reachable, state, saved, pc, localVars, first, watching,
                       armed, token, remoteVars, failures, crashes, outages>>
    BY <1>14 DEF Edit, Seen, Unseen
  <2> QED
    BY <2>1, <2>2, <2>3 DEF Entries
<1>15. CASE Outage
  <2>1. {event', missed', reachable'} \subseteq BOOLEAN
    BY <1>15, Zenon DEF Outage
  <2>2. /\ outages' \in Nat
        /\ UNCHANGED <<disk, written, restored, state, saved, pc, localVars, first, watching,
                       armed, token, remoteVars, edits, failures, crashes, drops>>
    BY <1>15 DEF Outage
  <2> QED
    BY <2>1, <2>2 DEF Entries
<1>16. CASE Crash
  <2>1. /\ state' \in [File -> Entry \cup {NoEntry}] /\ failures' \in Nat /\ crashes' \in Nat
        /\ UNCHANGED <<dirVars, saved, remoteVars, edits, drops, outages, missed>>
    BY <1>16 DEF Crash
  <2>2. {first', watching', event', armed', token'} \subseteq BOOLEAN
    BY <1>16, Zenon DEF Crash
  <2>3. /\ pc' = "boot" /\ cur' = NoFile /\ hash' = Absent /\ text' = Absent
        /\ newId' = 0 /\ todo' = {} /\ seen' = {}
    BY <1>16 DEF Crash
  <2> QED
    BY <2>1, <2>2, <2>3
<1>17. CASE UNCHANGED vars
  BY <1>17 DEF vars, Entries
<1> QED
  BY <1>1, <1>2, <1>3, <1>4, <1>5, <1>6, <1>7, <1>8, <1>9, <1>10, <1>11, <1>12, <1>13,
     <1>14, <1>15, <1>16, <1>17 DEF Next, Scan, Read, Call, Watch, Environment

-----------------------------------------------------------------------------
(* What leaks.                                                             *)

LEMMA LooseFinite == TInv => IsFiniteSet(files) /\ IsFiniteSet(Loose) /\ Cardinality(Loose) \in Nat
<1> SUFFICES ASSUME TInv PROVE IsFiniteSet(files) /\ IsFiniteSet(Loose) /\ Cardinality(Loose) \in Nat
    OBVIOUS
<1>1. IsFiniteSet(Id)
  BY BoundsAssumption, FS_Interval DEF Id
<1>2. IsFiniteSet(files)
  BY <1>1, FS_Subset DEF TInv, TypeOK
<1>3. IsFiniteSet(Loose)
  BY <1>2, FS_Subset DEF Loose
<1> QED
  BY <1>2, <1>3, FS_CardinalityType

\* A step that makes nothing loose is free ...
LEMMA LooseStays ==
    ASSUME TInv, TInv', LooseInv, Loose' \subseteq Loose,
           failures' \in {failures, failures + 1}, crashes' = crashes
    PROVE  LooseInv'
<1>1. Cardinality(Loose') <= Cardinality(Loose) /\ Cardinality(Loose') \in Nat
  BY LooseFinite, FS_Subset, FS_CardinalityType
<1>2. crashes * Cardinality(File) \in Nat
  BY FilesAssumption, FS_CardinalityType DEF TInv, TypeOK
<1> QED
  BY <1>1, <1>2, LooseFinite DEF LooseInv, TInv, TypeOK

\* ... and one that makes an object loose pays for it with a failure.
LEMMA LooseGrows ==
    ASSUME TInv, TInv', LooseInv, NEW i, Loose' \subseteq Loose \cup {i},
           failures' = failures + 1, crashes' = crashes
    PROVE  LooseInv'
<1>1. /\ IsFiniteSet(Loose \cup {i})
      /\ Cardinality(Loose \cup {i}) <= Cardinality(Loose) + 1
      /\ Cardinality(Loose \cup {i}) \in Nat
  <2> DEFINE L == Loose
  <2>1. IsFiniteSet(L) /\ Cardinality(L) \in Nat
    BY LooseFinite
  <2> HIDE DEF L
  <2>2. /\ IsFiniteSet(L \cup {i})
        /\ Cardinality(L \cup {i}) = IF i \in L THEN Cardinality(L) ELSE Cardinality(L) + 1
    BY <2>1, FS_AddElement
  <2>3. /\ IsFiniteSet(L \cup {i}) /\ Cardinality(L \cup {i}) <= Cardinality(L) + 1
        /\ Cardinality(L \cup {i}) \in Nat
    BY <2>1, <2>2
  <2> QED
    BY <2>3 DEF L
<1>2. Cardinality(Loose') <= Cardinality(Loose \cup {i}) /\ Cardinality(Loose') \in Nat
  BY <1>1, FS_Subset, FS_CardinalityType
<1>3. crashes * Cardinality(File) \in Nat
  BY FilesAssumption, FS_CardinalityType DEF TInv, TypeOK
<1> QED
  BY <1>1, <1>2, <1>3, LooseFinite DEF LooseInv, TInv, TypeOK

\* A crash forgets what was solid or in hand: at most one object per file.
LEMMA LooseCrash ==
    ASSUME TInv, TInv', LooseInv, Crash
    PROVE  LooseInv'
<1> DEFINE Name == [f \in File |-> IF pc = "add" /\ f = cur THEN newId ELSE state[f].id]
           Named == {Name[f] : f \in File}
<1>1. Solid \cup InHand \subseteq Named
  BY DEF TInv, HeldInv, Solid, InHand, Entries
<1>2. IsFiniteSet(Named) /\ Cardinality(Named) <= Cardinality(File)
  <2>1. Name \in Surjection(File, Named)
    BY DEF Surjection
  <2> HIDE DEF Name, Named
  <2> QED
    BY <2>1, FilesAssumption, FS_Surjection
<1>3. Loose' \subseteq Loose \cup Named /\ crashes' = crashes + 1 /\ failures' \in {failures, failures + 1}
  <2>1. files' = files /\ crashes' = crashes + 1 /\ failures' \in {failures, failures + 1}
    BY DEF Crash, Fails, remoteVars
  <2> HIDE DEF Named
  <2> QED
    BY <1>1, <2>1 DEF Loose
<1> HIDE DEF Named
<1>4. /\ IsFiniteSet(Loose \cup Named)
      /\ Cardinality(Loose \cup Named) <= Cardinality(Loose) + Cardinality(Named)
  <2> DEFINE L == Loose
  <2>1. IsFiniteSet(L) /\ IsFiniteSet(Named) /\ IsFiniteSet(L \cap Named)
    BY <1>2, LooseFinite, FS_Intersection
  <2> HIDE DEF L
  <2>2. /\ IsFiniteSet(L \cup Named)
        /\ Cardinality(L \cup Named) = Cardinality(L) + Cardinality(Named) - Cardinality(L \cap Named)
    BY <2>1, FS_Union
  <2>3. Cardinality(L) \in Nat /\ Cardinality(Named) \in Nat /\ Cardinality(L \cap Named) \in Nat
    BY <2>1, FS_CardinalityType
  <2>4. IsFiniteSet(L \cup Named) /\ Cardinality(L \cup Named) <= Cardinality(L) + Cardinality(Named)
    BY <2>2, <2>3
  <2> QED
    BY <2>4 DEF L
<1>5. Cardinality(Loose') <= Cardinality(Loose \cup Named) /\ IsFiniteSet(Loose')
  BY <1>3, <1>4, FS_Subset
<1>6. /\ Cardinality(Loose) \in Nat /\ Cardinality(Named) \in Nat /\ Cardinality(File) \in Nat
      /\ Cardinality(Loose') \in Nat /\ Cardinality(Loose \cup Named) \in Nat
  BY <1>2, <1>4, <1>5, LooseFinite, FilesAssumption, FS_CardinalityType
<1>7. (crashes + 1) * Cardinality(File) = crashes * Cardinality(File) + Cardinality(File)
      /\ crashes * Cardinality(File) \in Nat /\ crashes \in Nat /\ failures \in Nat
  BY <1>6 DEF TInv, TypeOK
<1> QED
  BY <1>2, <1>3, <1>4, <1>5, <1>6, <1>7 DEF LooseInv

\* Each step keeps the bound.
LEMMA LooseStep == TInv /\ TInv' /\ LooseInv /\ [Next]_vars => LooseInv'
<1> SUFFICES ASSUME TInv, TInv', LooseInv, [Next]_vars PROVE LooseInv'
    OBVIOUS
<1>1. ASSUME UNCHANGED <<files, kb, state, failures, crashes>>,
             \/ pc' = pc /\ cur' = cur /\ newId' = newId
             \/ pc \notin {"delete", "add", "purgeDelete"}
                /\ pc' \notin {"upload", "delete", "add", "purgeDelete"}
      PROVE  LooseInv'
  <2>1. Loose' \subseteq Loose
    BY <1>1 DEF Loose, Solid, InHand, Entries
  <2> QED
    BY <1>1, <2>1, LooseStays
<1>2. CASE Boot \/ Debounced \/ WalkEnds \/ Save \/ StartWatching \/ HandleEvent \/ TimerFires
  <2>1. CASE Save /\ failures' = failures + 1
    <3>1. Loose' \subseteq Loose
      BY <2>1 DEF Save, Loose, Solid, InHand, Entries, localVars, remoteVars
    <3> QED
      BY <2>1, <3>1, LooseStays DEF Save, envVars
  <2> QED
    BY <1>1, <1>2, <2>1 DEF Boot, Debounced, ScanBegin, WalkEnds, Save, StartWatching, HandleEvent,
       TimerFires, Fails, remoteVars, localVars, envVars
<1>3. ASSUME NEW f \in File, Visit(f) PROVE LooseInv'
  BY <1>1, <1>3 DEF Visit, remoteVars, envVars
<1>4. CASE Extract
  <2>1. Loose' \subseteq Loose
    BY <1>4 DEF Extract, Loose, Solid, InHand, Entries, remoteVars
  <2> QED
    BY <1>4, <2>1, LooseStays DEF Extract, envVars
<1>5. CASE UnlinkOld
  <2>1. /\ pc = "unlink" /\ UNCHANGED <<files, state, cur, crashes>>
        /\ \/ pc' = "delete" /\ kb' = kb \ {state[cur].id} /\ failures' = failures
           \/ pc' = "upload" /\ kb' \in {kb, kb \ {state[cur].id}} /\ failures' = failures + 1
           \/ pc' = "upload" /\ kb' = kb /\ state[cur].id \notin kb /\ failures' = failures
    BY <1>5 DEF UnlinkOld, Remove, Fails, localVars, envVars
  <2>2. CASE failures' = failures
    <3>1. Loose' \subseteq Loose
      BY <2>1, <2>2 DEF Loose, Solid, InHand, Entries, TInv, TypeOK
    <3> QED
      BY <2>1, <2>2, <3>1, LooseStays
  <2>3. CASE failures' = failures + 1
    <3>1. Loose' \subseteq Loose \cup {state[cur].id}
      BY <2>1, <2>3 DEF Loose, Solid, InHand, Entries, TInv, TypeOK
    <3> QED
      BY <2>1, <2>3, <3>1, LooseGrows
  <2> QED
    BY <2>1, <2>2, <2>3
<1>6. CASE DeleteOld
  <2>1. /\ pc = "delete" /\ pc' = "upload" /\ UNCHANGED <<kb, state, cur, crashes>>
        /\ \/ files' = files \ {state[cur].id} /\ failures' = failures
           \/ files' \in {files, files \ {state[cur].id}} /\ failures' = failures + 1
           \/ files' = files /\ state[cur].id \notin files /\ failures' = failures
    BY <1>6 DEF DeleteOld, Remove, Fails, localVars, envVars
  <2>2. Loose' \subseteq Loose \cup {state[cur].id}
    BY <2>1 DEF Loose, Solid, InHand, Entries
  <2>3. CASE failures' = failures
    <3>1. Loose' \subseteq Loose
      BY <2>1, <2>2, <2>3 DEF Loose, TInv, TypeOK
    <3> QED
      BY <2>1, <2>3, <3>1, LooseStays
  <2>4. CASE failures' = failures + 1
    BY <2>1, <2>2, <2>4, LooseGrows
  <2> QED
    BY <2>1, <2>3, <2>4
<1>7. CASE Upload
  <2>1. /\ pc = "upload" /\ UNCHANGED <<kb, state, cur, crashes>>
        /\ \/ /\ pc' = "add" /\ files' = files \cup {uploads + 1}
              /\ newId' = uploads + 1 /\ failures' = failures
           \/ /\ pc' = "walk" /\ files' \in {files, files \cup {uploads + 1}}
              /\ failures' = failures + 1
    BY <1>7 DEF Upload, Stored, Fails, envVars
  <2>2. CASE failures' = failures
    <3>1. Loose' \subseteq Loose
      BY <2>1, <2>2 DEF Loose, Solid, InHand, Entries, TInv, TypeOK
    <3> QED
      BY <2>1, <2>2, <3>1, LooseStays
  <2>3. CASE failures' = failures + 1
    <3>1. Loose' \subseteq Loose \cup {uploads + 1}
      BY <2>1, <2>3 DEF Loose, Solid, InHand, Entries, TInv, TypeOK
    <3> QED
      BY <2>1, <2>3, <3>1, LooseGrows
  <2> QED
    BY <2>1, <2>2, <2>3
<1>8. CASE Add
  <2>1. /\ pc = "add" /\ pc' = "walk" /\ UNCHANGED <<files, cur, crashes>>
        /\ \/ kb' = kb \cup {newId} /\ failures' = failures
              /\ state' = [state EXCEPT ![cur] = [hash |-> hash, id |-> newId]]
           \/ kb' \in {kb, kb \cup {newId}} /\ state' = state /\ failures' = failures + 1
    BY <1>8 DEF Add, Fails, localVars, envVars
  <2>2. CASE failures' = failures
    <3>1. cur \in File /\ state'[cur] = [hash |-> hash, id |-> newId] /\ newId \in kb'
          /\ \A f \in File \ {cur} : state'[f] = state[f]
      BY <2>1, <2>2 DEF TInv, TypeOK, HeldInv
    <3>2. state'[cur] # NoEntry
      BY <2>1, <3>1, EntryAssumption DEF TInv, TypeOK, HeldInv, Entry
    <3>3. Solid \cup {newId} \subseteq Solid'
      BY <2>1, <3>1, <3>2 DEF Solid, Entries
    <3>4. Loose' \subseteq Loose
      BY <2>1, <3>3 DEF Loose, InHand
    <3> QED
      BY <2>1, <2>2, <3>4, LooseStays
  <2>3. CASE failures' = failures + 1
    <3>1. Loose' \subseteq Loose \cup {newId}
      BY <2>1, <2>3 DEF Loose, Solid, InHand, Entries, TInv, TypeOK
    <3> QED
      BY <2>1, <2>3, <3>1, LooseGrows
  <2> QED
    BY <2>1, <2>2, <2>3 DEF TInv, TypeOK
<1>9. ASSUME NEW f \in File, PurgeUnlink(f) PROVE LooseInv'
  <2>1. /\ pc = "purge" /\ cur' = f /\ UNCHANGED <<files, state, crashes>>
        /\ \/ pc' = "purgeDelete" /\ kb' = kb \ {state[f].id} /\ failures' = failures
           \/ pc' = "purge" /\ kb' \in {kb, kb \ {state[f].id}} /\ failures' = failures + 1
           \/ pc' = "purge" /\ kb' = kb /\ failures' = failures
    BY <1>9 DEF PurgeUnlink, Remove, Fails, envVars
  <2>2. CASE failures' = failures
    <3>1. Loose' \subseteq Loose
      BY <2>1, <2>2 DEF Loose, Solid, InHand, Entries, TInv, TypeOK
    <3> QED
      BY <2>1, <2>2, <3>1, LooseStays
  <2>3. CASE failures' = failures + 1
    <3>1. Loose' \subseteq Loose \cup {state[f].id}
      BY <2>1, <2>3 DEF Loose, Solid, InHand, Entries, TInv, TypeOK
    <3> QED
      BY <2>1, <2>3, <3>1, LooseGrows
  <2> QED
    BY <2>1, <2>2, <2>3
<1>10. CASE PurgeDelete
  <2>1. /\ pc = "purgeDelete" /\ pc' = "purge" /\ UNCHANGED <<kb, cur, crashes>> /\ cur \in File
        /\ \/ /\ files' = files \ {state[cur].id} /\ failures' = failures
              /\ state' \in {state, [state EXCEPT ![cur] = NoEntry]}
           \/ /\ files' \in {files, files \ {state[cur].id}} /\ failures' = failures + 1
              /\ state' = state
           \/ /\ files' = files /\ state[cur].id \notin files /\ failures' = failures
              /\ state' = state
    BY <1>10 DEF PurgeDelete, Remove, Fails, localVars, envVars, TInv, HeldInv
  <2>2. Solid \subseteq Solid' \cup {state[cur].id}
    BY <2>1 DEF Solid, Entries, TInv, TypeOK
  <2>3. Loose' \subseteq Loose \cup {state[cur].id}
    BY <2>1, <2>2 DEF Loose, InHand
  <2>4. CASE failures' = failures
    <3>1. Loose' \subseteq Loose
      BY <2>1, <2>3, <2>4 DEF Loose, TInv, TypeOK
    <3> QED
      BY <2>1, <2>4, <3>1, LooseStays
  <2>5. CASE failures' = failures + 1
    BY <2>1, <2>3, <2>5, LooseGrows
  <2> QED
    BY <2>1, <2>4, <2>5
<1>11. ASSUME NEW f \in File, NEW c \in Content \cup {Absent}, Edit(f, c) PROVE LooseInv'
  BY <1>1, <1>11 DEF Edit, remoteVars, localVars
<1>12. CASE Outage \/ UNCHANGED vars
  BY <1>1, <1>12 DEF Outage, vars, remoteVars, localVars, envVars
<1>13. CASE Crash
  BY <1>13, LooseCrash
<1> QED
  BY <1>2, <1>3, <1>4, <1>5, <1>6, <1>7, <1>8, <1>9, <1>10, <1>11, <1>12, <1>13
  DEF Next, Scan, Read, Call, Watch, Environment

-----------------------------------------------------------------------------
LEMMA Invariance == Spec => []TInv /\ []LooseInv
<1>1. Init => LooseInv
  <2> SUFFICES ASSUME Init PROVE LooseInv
      OBVIOUS
  <2>1. Loose = {} /\ failures = 0 /\ crashes = 0
    BY DEF Init, Loose
  <2>2. Cardinality({}) = 0 /\ Cardinality(File) \in Nat
    BY FilesAssumption, FS_EmptySet, FS_CardinalityType
  <2> QED
    BY <2>1, <2>2 DEF LooseInv
<1> QED
  BY <1>1, TypeInit, TypeStep, LooseStep, PTL DEF Spec

\* Every variable has its type (watch.go, sync.go, state.go).
THEOREM Types == Spec => []TypeOK
<1>1. TInv => TypeOK
  BY DEF TInv
<1> QED
  BY <1>1, Invariance, PTL

\* However edits, failed calls, lost answers and crashes fall between the
\* steps of the scans, no more documents are left behind on the server than
\* one per failed call and one per file and crash, besides the one on its way.
THEOREM Leaks == Spec => []LeakBound
<1>1. TInv /\ LooseInv => LeakBound
  <2> SUFFICES ASSUME TInv, LooseInv PROVE LeakBound
      OBVIOUS
  <2> DEFINE Way == IF pc = "add" THEN {newId} ELSE {}
             L == Loose
  <2>1. files \ Referenced \subseteq L \cup Way
    BY DEF Loose, Solid, InHand, Referenced, Entries, TInv, HeldInv
  <2>2. IsFiniteSet(L) /\ Cardinality(L) \in Nat
    BY LooseFinite
  <2> HIDE DEF L
  <2>3. /\ IsFiniteSet(L \cup {newId})
        /\ Cardinality(L \cup {newId}) <= Cardinality(L) + 1
        /\ Cardinality(L \cup {newId}) \in Nat
    <3>1. /\ IsFiniteSet(L \cup {newId})
          /\ Cardinality(L \cup {newId}) = IF newId \in L THEN Cardinality(L) ELSE Cardinality(L) + 1
      BY <2>2, FS_AddElement
    <3> QED
      BY <2>2, <3>1
  <2>6. failures \in Nat /\ crashes * Cardinality(File) \in Nat
    BY FilesAssumption, FS_CardinalityType DEF TInv, TypeOK
  <2>4. CASE pc = "add"
    <3>1. files \ Referenced \subseteq L \cup {newId}
      BY <2>1, <2>4
    <3>2. Cardinality(files \ Referenced) <= Cardinality(L) + 1
      BY <2>2, <2>3, <3>1, FS_Subset, FS_CardinalityType
    <3>3. Cardinality(files \ Referenced) \in Nat
      BY <2>3, <3>1, FS_Subset, FS_CardinalityType
    <3> QED
      BY <2>2, <2>4, <2>6, <3>2, <3>3 DEF LooseInv, LeakBound, L
  <2>5. CASE pc # "add"
    <3>1. files \ Referenced \subseteq L
      BY <2>1, <2>5
    <3>2. Cardinality(files \ Referenced) <= Cardinality(L)
      BY <2>2, <3>1, FS_Subset
    <3>3. Cardinality(files \ Referenced) \in Nat
      BY <2>2, <3>1, FS_Subset, FS_CardinalityType
    <3> QED
      BY <2>2, <2>5, <2>6, <3>2, <3>3 DEF LooseInv, LeakBound, L
  <2> QED
    BY <2>4, <2>5
<1> QED
  BY <1>1, Invariance, PTL
-----------------------------------------------------------------------------
(* Names: what entries say of files and of objects.                        *)

Named(s) ==
    \A f \in File : s[f] # NoEntry =>
        /\ s[f].hash \in written[f]
        /\ s[f].id \in 1 .. uploads /\ doc[s[f].id].file = f

Holding == {"extract", "unlink", "delete", "upload", "add"}

\* An entry, in memory or saved, has the hash of a content its file has had
\* and the id of an object that was uploaded for it.
NameInv ==
    /\ kb \subseteq 1 .. uploads /\ files \subseteq 1 .. uploads
    /\ Named(state) /\ Named(saved)
    /\ \A f \in File : disk[f] # Absent => disk[f] \in written[f]
    /\ pc \in Holding => hash \in written[cur] /\ cur \in seen
    /\ pc \in Holding \cup {"walk"} => todo \subseteq seen
    /\ pc \in {"purge", "purgeDelete"} => todo \cap seen = {}
    /\ pc = "purgeDelete" => cur \notin seen
    /\ pc = "add" => newId \in 1 .. uploads /\ doc[newId] = [file |-> cur, content |-> text]

LEMMA NameInit == Init => NameInv
BY NamesAssumption DEF Init, NameInv, Named, Holding

\* A file keeps the contents it has had, and an object what it was uploaded for.
LEMMA NamesStay ==
    ASSUME TInv, NEW s, Named(s),
           \A f \in File : written[f] \subseteq written'[f],
           uploads' \in {uploads, uploads + 1},
           \A i \in 1 .. uploads : doc'[i] = doc[i]
    PROVE  /\ \A f \in File : s[f] # NoEntry =>
                /\ s[f].hash \in written'[f]
                /\ s[f].id \in 1 .. uploads' /\ doc'[s[f].id].file = f
BY DEF Named, TInv, TypeOK

LEMMA NameStep == TInv /\ TInv' /\ NameInv /\ [Next]_vars => NameInv'
<1> SUFFICES ASSUME TInv, TInv', NameInv, [Next]_vars PROVE NameInv'
    OBVIOUS
<1> USE NamesAssumption, BoundsAssumption
    DEF NameInv, Holding, dirVars, localVars, watchVars, remoteVars, envVars
<1>a. uploads \in Nat /\ \A i \in 1 .. uploads : i \in Id
  BY DEF TInv, TypeOK, Id
<1>1. CASE Boot \/ Debounced
  BY <1>1 DEF Boot, Debounced, ScanBegin, Named
<1>2. ASSUME NEW f \in File, Visit(f) PROVE NameInv'
  BY <1>2 DEF Visit, Named, TInv, HeldInv
<1>3. CASE Extract
  BY <1>3 DEF Extract, Named
<1>4. CASE UnlinkOld
  BY <1>4 DEF UnlinkOld, Remove, Fails, Named
<1>5. CASE DeleteOld
  BY <1>5 DEF DeleteOld, Remove, Fails, Named
<1>6. CASE Upload
  <2>1. CASE Stored
    <3>1. /\ uploads' = uploads + 1 /\ uploads + 1 \in Id
          /\ files' = files \cup {uploads + 1}
          /\ doc' = [doc EXCEPT ![uploads + 1] = [file |-> cur, content |-> text]]
          /\ UNCHANGED <<kb, state, saved, disk, written, cur, hash, text, todo, seen>>
      BY <1>6, <1>a, <2>1 DEF Stored, Upload, Id
    <3>2. /\ \A i \in 1 .. uploads : doc'[i] = doc[i]
          /\ doc'[uploads + 1] = [file |-> cur, content |-> text]
      BY <3>1, <1>a DEF TInv, TypeOK
    <3>3. Named(state)' /\ Named(saved)'
      BY <3>1, <3>2, NamesStay DEF Named
    <3>4. kb' \subseteq 1 .. uploads' /\ files' \subseteq 1 .. uploads'
      <4>1. kb \subseteq 1 .. uploads /\ files \subseteq 1 .. uploads
        OBVIOUS
      <4> HIDE DEF NameInv
      <4> QED
        BY <3>1, <4>1, <1>a
    <3>5. pc' = "add" => newId' = uploads + 1
      BY <1>6 DEF Upload
    <3>6. pc = "upload" /\ pc' \in {"add", "walk"}
      BY <1>6 DEF Upload
    <3> QED
      BY <3>1, <3>2, <3>3, <3>4, <3>5, <3>6, <1>a
  <2>2. CASE UNCHANGED <<uploads, files, doc>> /\ pc' = "walk"
    BY <1>6, <2>2 DEF Upload, Named
  <2> QED
    BY <1>6, <2>1, <2>2 DEF Upload
<1>7. CASE Add
  <2>1. /\ pc = "add" /\ pc' = "walk" /\ kb' \subseteq kb \cup {newId}
        /\ UNCHANGED <<files, uploads, doc, written, disk, saved>>
        /\ state' \in {state, [state EXCEPT ![cur] = [hash |-> hash, id |-> newId]]}
    BY <1>7 DEF Add, Fails
  <2>2. Named(state)'
    <3>1. \A g \in File \ {cur} : state'[g] = state[g]
      BY <2>1 DEF TInv, TypeOK
    <3>2. cur \in File /\ (state'[cur] = state[cur] \/ state'[cur] = [hash |-> hash, id |-> newId])
      BY <2>1 DEF TInv, TypeOK, HeldInv
    <3>3. /\ hash \in written[cur] /\ newId \in 1 .. uploads /\ doc[newId].file = cur
      BY <2>1
    <3>4. ASSUME NEW g \in File, state'[g] # NoEntry
          PROVE  /\ state'[g].hash \in written[g]
                 /\ state'[g].id \in 1 .. uploads /\ doc[state'[g].id].file = g
      <4>1. CASE g = cur /\ state'[cur] = [hash |-> hash, id |-> newId]
        BY <3>3, <4>1
      <4>2. CASE state'[g] = state[g]
        BY <3>4, <4>2 DEF Named
      <4> QED
        BY <3>1, <3>2, <4>1, <4>2
    <3> QED
      BY <2>1, <3>4 DEF Named
  <2> QED
    BY <2>1, <2>2, <1>7 DEF Named, Add
<1>8. CASE WalkEnds
  BY <1>8 DEF WalkEnds, Named
<1>9. ASSUME NEW f \in File, PurgeUnlink(f) PROVE NameInv'
  BY <1>9 DEF PurgeUnlink, Remove, Fails, Named
<1>10. CASE PurgeDelete
  <2>1. /\ pc = "purgeDelete" /\ pc' = "purge" /\ files' \subseteq files
        /\ UNCHANGED <<todo, seen, kb, uploads, doc, written, disk, saved>>
        /\ state' \in {state, [state EXCEPT ![cur] = NoEntry]}
    BY <1>10 DEF PurgeDelete, Remove, Fails
  <2>2. Named(state)'
    BY <2>1 DEF Named, TInv, TypeOK
  <2> QED
    BY <2>1, <2>2 DEF Named
<1>11. CASE Save
  BY <1>11 DEF Save, Fails, Named
<1>12. CASE StartWatching \/ HandleEvent \/ TimerFires \/ Outage \/ UNCHANGED vars
  BY <1>12 DEF StartWatching, HandleEvent, TimerFires, Outage, vars, Named
<1>13. ASSUME NEW f \in File, NEW c \in Content \cup {Absent}, Edit(f, c) PROVE NameInv'
  <2>1. /\ disk' = [disk EXCEPT ![f] = c]
        /\ written' = [written EXCEPT ![f] = @ \cup ({c} \ {Absent})]
        /\ UNCHANGED <<state, saved, pc, localVars, remoteVars>>
    BY <1>13 DEF Edit
  <2>2. \A g \in File : written[g] \subseteq written'[g]
    BY <2>1 DEF TInv, TypeOK
  <2>3. Named(state)' /\ Named(saved)'
    BY <2>1, <2>2, NamesStay DEF Named
  <2>4. \A g \in File : disk'[g] # Absent => disk'[g] \in written'[g]
    BY <2>1 DEF TInv, TypeOK
  <2> QED
    BY <2>1, <2>2, <2>3, <2>4 DEF TInv, HeldInv
<1>14. CASE Crash
  BY <1>14 DEF Crash, Fails, Named
<1> QED
  BY <1>1, <1>2, <1>3, <1>4, <1>5, <1>6, <1>7, <1>8, <1>9, <1>10, <1>11, <1>12, <1>13, <1>14
  DEF Next, Scan, Read, Call, Watch, Environment

-----------------------------------------------------------------------------
(* What an edit cannot make untrue of a file, unless it restores an earlier  *)
(* content.                                                                *)

Scanning == Holding \cup {"walk", "purge", "purgeDelete"}

\* The object a scan is about to remove is not the one of the content it has
\* read, nor of the current one: the entry is of another content the file has
\* had, and that has not returned.
StaleInv ==
    /\ pc \in {"extract", "unlink"} /\ state[cur] # NoEntry =>
        /\ state[cur].hash # hash
        /\ cur \in restored \/ state[cur].hash # disk[cur]
    /\ outages = 0 => reachable
    /\ pc \in Scanning /\ outages = 0 =>
        \A f \in (Entries \ seen) \ restored : state[f].hash # disk[f]

LEMMA StaleInit == Init => StaleInv
BY DEF Init, StaleInv, Scanning, Holding, Entries

LEMMA StaleStep ==
    TInv /\ NameInv /\ StaleInv /\ [Next]_vars => StaleInv'
<1> SUFFICES ASSUME TInv, NameInv, StaleInv, [Next]_vars PROVE StaleInv'
    OBVIOUS
<1> USE NamesAssumption
    DEF StaleInv, Scanning, Holding, dirVars, localVars, watchVars, remoteVars, envVars
<1>1. CASE Boot \/ Debounced
  <2>1. /\ pc' = "walk" /\ seen' = Listing /\ UNCHANGED <<state, disk, reachable, outages>>
    BY <1>1 DEF Boot, Debounced, ScanBegin
  <2>2. \A f \in Entries : state[f].hash # Absent
    BY DEF Entries, TInv, TypeOK, Entry
  <2> QED
    BY <2>1, <2>2 DEF Listing, Entries
<1>2. ASSUME NEW f \in File, Visit(f) PROVE StaleInv'
  BY <1>2 DEF Visit, Unchanged, Entries
<1>3. CASE Extract
  BY <1>3 DEF Extract, Entries
<1>4. CASE UnlinkOld
  BY <1>4 DEF UnlinkOld, Entries
<1>5. CASE DeleteOld
  BY <1>5 DEF DeleteOld, Entries
<1>6. CASE Upload
  BY <1>6 DEF Upload, Entries
<1>7. CASE Add
  <2>1. /\ pc = "add" /\ pc' = "walk" /\ UNCHANGED <<disk, restored, seen, reachable, outages>>
        /\ state' \in {state, [state EXCEPT ![cur] = [hash |-> hash, id |-> newId]]}
    BY <1>7 DEF Add
  <2>2. cur \in seen
    BY <2>1 DEF NameInv
  <2> QED
    BY <2>1, <2>2 DEF Entries, TInv, TypeOK
<1>8. CASE WalkEnds
  BY <1>8 DEF WalkEnds, Entries
<1>9. ASSUME NEW f \in File, PurgeUnlink(f) PROVE StaleInv'
  BY <1>9 DEF PurgeUnlink, Entries
<1>10. CASE PurgeDelete
  <2>1. /\ pc = "purgeDelete" /\ pc' = "purge" /\ UNCHANGED <<disk, restored, todo, seen, reachable, outages>>
        /\ state' \in {state, [state EXCEPT ![cur] = NoEntry]}
    BY <1>10 DEF PurgeDelete
  <2> QED
    BY <2>1 DEF Entries, TInv, TypeOK
<1>11. CASE Save
  BY <1>11 DEF Save
<1>12. CASE StartWatching \/ HandleEvent \/ TimerFires \/ Crash \/ UNCHANGED vars
  BY <1>12 DEF StartWatching, HandleEvent, TimerFires, Crash, vars, Entries
<1>13. ASSUME NEW f \in File, NEW c \in Content \cup {Absent}, Edit(f, c) PROVE StaleInv'
  <2>1. /\ disk' = [disk EXCEPT ![f] = c] /\ restored \subseteq restored'
        /\ c \in written[f] => f \in restored'
        /\ UNCHANGED <<state, pc, localVars, reachable, outages>>
    BY <1>13 DEF Edit
  <2>2. \A g \in File \ restored' :
            state[g] # NoEntry /\ state[g].hash # disk[g] => state[g].hash # disk'[g]
    BY <2>1 DEF NameInv, Named, TInv, TypeOK
  <2>3. pc \in {"extract", "unlink"} => cur \in File
    BY DEF TInv, HeldInv
  <2> QED
    BY <2>1, <2>2, <2>3 DEF Entries
<1>14. CASE Outage
  <2>1. outages' # 0 /\ UNCHANGED <<disk, restored, state, pc, localVars>>
    BY <1>14 DEF Outage, TInv, TypeOK
  <2> QED
    BY <2>1
<1> QED
  BY <1>1, <1>2, <1>3, <1>4, <1>5, <1>6, <1>7, <1>8, <1>9, <1>10, <1>11, <1>12, <1>13, <1>14
  DEF Next, Scan, Read, Call, Watch, Environment

-----------------------------------------------------------------------------
(* Entries that tell the truth.                                            *)

\* An entry may lie, when the file is edited between hash and extraction; its
\* hash is then of a content the file has no more, and the next scan meets it,
\* unless an edit restores that content.
TrueNow(s) ==
    \A f \in File \ restored : s[f] # NoEntry /\ s[f].hash = disk[f] => doc[s[f].id].content = disk[f]
TruthInv ==
    /\ TrueNow(state) /\ TrueNow(saved)
    /\ pc \in Holding \ {"extract"} /\ cur \notin restored /\ hash = disk[cur] => text = disk[cur]

LEMMA UploadKeepsDocs ==
    ASSUME TInv, Upload
    PROVE  \A i \in 1 .. uploads : doc'[i] = doc[i]
<1>1. CASE Stored
  <2>1. doc' = [doc EXCEPT ![uploads + 1] = [file |-> cur, content |-> text]]
    BY <1>1 DEF Stored
  <2>2. \A i \in 1 .. uploads : i # uploads + 1
    BY DEF TInv, TypeOK
  <2>3. \A i \in 1 .. uploads : i \in Id
    BY BoundsAssumption DEF TInv, TypeOK, Id
  <2> QED
    BY <2>1, <2>2, <2>3 DEF TInv, TypeOK
<1> QED
  BY <1>1 DEF Upload

LEMMA TruthInit == Init => TruthInv
BY DEF Init, TruthInv, TrueNow, Holding

LEMMA TruthStep ==
    TInv /\ NameInv /\ TruthInv /\ [Next]_vars => TruthInv'
<1> SUFFICES ASSUME TInv, NameInv, TruthInv, [Next]_vars PROVE TruthInv'
    OBVIOUS
<1> USE NamesAssumption
    DEF TruthInv, Holding, dirVars, localVars, watchVars, remoteVars, envVars
<1>1. CASE Boot \/ Debounced \/ WalkEnds \/ StartWatching \/ HandleEvent \/ TimerFires
           \/ Outage \/ UNCHANGED vars
  BY <1>1 DEF Boot, Debounced, ScanBegin, WalkEnds, StartWatching, HandleEvent, TimerFires,
     Outage, vars, TrueNow
<1>2. ASSUME NEW f \in File, Visit(f) PROVE TruthInv'
  BY <1>2 DEF Visit, TrueNow
<1>3. CASE Extract
  BY <1>3 DEF Extract, TrueNow
<1>4. CASE UnlinkOld \/ DeleteOld
  BY <1>4 DEF UnlinkOld, DeleteOld, TrueNow
<1>5. CASE Upload
  <2>1. /\ pc = "upload" /\ UNCHANGED <<disk, restored, state, saved, cur, hash, text>>
        /\ \A i \in 1 .. uploads : doc'[i] = doc[i]
    BY <1>5, UploadKeepsDocs DEF Upload
  <2>2. \A f \in File :
          /\ state[f] # NoEntry => doc'[state[f].id] = doc[state[f].id]
          /\ saved[f] # NoEntry => doc'[saved[f].id] = doc[saved[f].id]
    BY <2>1 DEF NameInv, Named
  <2>3. TrueNow(state)' /\ TrueNow(saved)'
    BY <2>1, <2>2 DEF TrueNow
  <2> QED
    BY <2>1, <2>3, <1>5 DEF Upload
<1>6. CASE Add
  <2>1. /\ pc = "add" /\ pc' = "walk" /\ UNCHANGED <<disk, restored, saved, doc, cur, hash, text>>
        /\ state' \in {state, [state EXCEPT ![cur] = [hash |-> hash, id |-> newId]]}
    BY <1>6 DEF Add
  <2>2. doc[newId].content = text
    BY <2>1 DEF NameInv
  <2>3. TrueNow(state)'
    BY <2>1, <2>2 DEF TrueNow, TInv, TypeOK, HeldInv
  <2> QED
    BY <2>1, <2>3 DEF TrueNow
<1>7. ASSUME NEW f \in File, PurgeUnlink(f) PROVE TruthInv'
  BY <1>7 DEF PurgeUnlink, TrueNow
<1>8. CASE PurgeDelete
  <2>1. /\ pc' = "purge" /\ UNCHANGED <<disk, restored, saved, doc>>
        /\ state' \in {state, [state EXCEPT ![cur] = NoEntry]}
    BY <1>8 DEF PurgeDelete
  <2> QED
    BY <2>1 DEF TrueNow, TInv, TypeOK
<1>9. CASE Save
  BY <1>9 DEF Save, TrueNow
<1>10. ASSUME NEW f \in File, NEW c \in Content \cup {Absent}, Edit(f, c) PROVE TruthInv'
  <2>1. /\ disk' = [disk EXCEPT ![f] = c] /\ restored \subseteq restored'
        /\ c \in written[f] => f \in restored'
        /\ UNCHANGED <<state, saved, pc, localVars, doc>>
    BY <1>10 DEF Edit
  <2>2. \A g \in File \ restored' : disk'[g] = disk[g] \/ (g = f /\ disk'[g] \notin written[g])
    BY <2>1 DEF TInv, TypeOK
  <2>3. TrueNow(state)' /\ TrueNow(saved)'
    BY <2>1, <2>2 DEF TrueNow, NameInv, Named
  <2>4. pc \in Holding \ {"extract"} /\ cur \notin restored' /\ hash = disk'[cur] => text = disk'[cur]
    BY <2>1, <2>2 DEF NameInv, TInv, HeldInv
  <2> QED
    BY <2>1, <2>3, <2>4
<1>11. CASE Crash
  BY <1>11 DEF Crash, TrueNow
<1> QED
  BY <1>1, <1>2, <1>3, <1>4, <1>5, <1>6, <1>7, <1>8, <1>9, <1>10, <1>11
  DEF Next, Scan, Read, Call, Watch, Environment

-----------------------------------------------------------------------------
(* What a scan has done without a failed call or a crash.                  *)

\* An object leaves the knowledge base, and the next one enters it, before the
\* entry tells.
Empty(f) == f = cur /\ pc \in {"delete", "upload", "add", "purgeDelete"}
OnItsWay == CASE pc = "add" -> {newId}
              [] pc \in {"delete", "purgeDelete"} -> {state[cur].id}
              [] OTHER -> {}
DocInv ==
    /\ \A i \in kb : LET f == doc[i].file
                     IN  f \in Entries /\ state[f].id = i /\ ~Empty(f)
    /\ \A f \in Entries : Empty(f) \/ state[f].id \in kb
    /\ files = kb \cup OnItsWay

\* Nothing tells the watcher to scan again, and nothing should have: then the
\* directory is what the scan has seen of it.
Pending == missed \/ ~reachable \/ event \/ armed \/ token
Recorded(f) == Usable(f) => state[f] # NoEntry /\ state[f].hash = disk[f]
ScanInv ==
    pc # "boot" =>
        /\ seen = {f \in File : disk[f] # Absent}
        /\ pc \in Holding => hash = disk[cur] /\ cur \notin todo
        /\ \A f \in File :
            \/ Recorded(f)
            \/ f \in todo /\ pc \in Holding \cup {"walk"}
            \/ f = cur /\ pc \in Holding
        /\ pc \in {"purge", "purgeDelete"} =>
            \A f \in Entries \ seen : f \in todo \/ (f = cur /\ pc = "purgeDelete")
        /\ pc \in {"watch", "idle"} => Entries \subseteq seen

QuietInv == Faultless => DocInv /\ (~Pending => ScanInv)

LEMMA QuietInit == Init => QuietInv
BY DEF Init, QuietInv, DocInv, ScanInv, OnItsWay, Entries

LEMMA DocStep ==
    ASSUME TInv, TInv', NameInv, DocInv, [Next]_vars, Faultless, Faultless'
    PROVE  DocInv'
<1> USE DEF Faultless, dirVars, localVars, watchVars, remoteVars, envVars
<1>a. /\ \A f \in Entries : f \in File /\ state[f].id \in 1 .. uploads /\ doc[state[f].id].file = f
      /\ \A f \in File : f \in Entries <=> state[f] # NoEntry
  BY DEF NameInv, Named, Entries
<1>b. failures = 0 /\ failures' = 0 /\ failures' # failures + 1
  OBVIOUS
<1>1. ASSUME UNCHANGED <<state, kb, files, doc>>,
             \/ UNCHANGED <<cur, pc, newId>>
             \/ {pc, pc'} \cap {"delete", "upload", "add", "purgeDelete"} = {}
      PROVE  DocInv'
  BY <1>1 DEF DocInv, OnItsWay, Empty, Entries
<1>2. CASE Boot \/ Debounced \/ WalkEnds \/ StartWatching \/ HandleEvent \/ TimerFires
           \/ Outage \/ Save \/ UNCHANGED vars
  BY <1>1, <1>2 DEF Boot, Debounced, ScanBegin, WalkEnds, StartWatching, HandleEvent, TimerFires,
     Outage, Save, vars
<1>3. ASSUME NEW f \in File, Visit(f) PROVE DocInv'
  BY <1>1, <1>3 DEF Visit
<1>4. CASE Extract
  <2>1. /\ pc = "extract" /\ pc' \in {"walk", "unlink", "upload"}
        /\ UNCHANGED <<state, kb, files, doc, cur>>
        /\ pc' = "upload" => cur \notin Entries
    BY <1>4 DEF Extract, Entries
  <2> QED
    BY <2>1, <1>a DEF DocInv, OnItsWay, Empty, Entries
<1>5. CASE UnlinkOld
  <2>1. /\ pc = "unlink" /\ pc' \in {"delete", "upload"}
        /\ UNCHANGED <<state, files, doc, cur>> /\ cur \in Entries
        /\ \/ pc' = "delete" /\ kb' = kb \ {state[cur].id}
           \/ pc' = "upload" /\ state[cur].id \notin kb
    BY <1>5, <1>b DEF UnlinkOld, Remove, Fails, TInv, HeldInv, Entries
  <2>2. pc' = "delete" /\ kb' = kb \ {state[cur].id} /\ state[cur].id \in kb
    BY <2>1 DEF DocInv, Empty
  <2>3. \A f \in Entries : f = cur \/ state[f].id # state[cur].id
    BY <2>1, <1>a
  <2> QED
    BY <2>1, <2>2, <2>3 DEF DocInv, OnItsWay, Empty, Entries
<1>6. CASE DeleteOld
  <2>1. /\ pc = "delete" /\ pc' = "upload"
        /\ UNCHANGED <<state, kb, doc, cur>> /\ cur \in Entries
        /\ files' = files \ {state[cur].id}
    BY <1>6, <1>b DEF DeleteOld, Remove, Fails, TInv, HeldInv, Entries
  <2>2. state[cur].id \notin kb
    BY <2>1, <1>a DEF DocInv, Empty
  <2> QED
    BY <2>1, <2>2 DEF DocInv, OnItsWay, Empty, Entries
<1>7. CASE Upload
  <2>1. /\ pc = "upload" /\ pc' = "add" /\ newId' = uploads + 1
        /\ UNCHANGED <<state, kb, cur>>
        /\ files' = files \cup {uploads + 1}
        /\ \A i \in 1 .. uploads : doc'[i] = doc[i]
    BY <1>7, <1>b, UploadKeepsDocs DEF Upload, Stored, Fails
  <2>2. \A i \in kb : doc'[i] = doc[i]
    BY <2>1 DEF NameInv
  <2> QED
    BY <2>1, <2>2 DEF DocInv, OnItsWay, Empty, Entries
<1>8. CASE Add
  <2>1. /\ pc = "add" /\ pc' = "walk" /\ kb' = kb \cup {newId} /\ cur \in File
        /\ UNCHANGED <<files, doc, cur>>
        /\ state' = [state EXCEPT ![cur] = [hash |-> hash, id |-> newId]]
    BY <1>8, <1>b DEF Add, Fails, TInv, HeldInv
  <2>2. doc[newId].file = cur /\ \A i \in kb : doc[i].file # cur
    BY <2>1 DEF NameInv, DocInv, Empty
  <2>3. state'[cur] # NoEntry /\ state'[cur].id = newId /\ \A f \in File \ {cur} : state'[f] = state[f]
    BY <2>1, EntryAssumption DEF TInv, TypeOK, HeldInv, Entry
  <2> QED
    BY <2>1, <2>2, <2>3 DEF DocInv, OnItsWay, Empty, Entries
<1>9. ASSUME NEW f \in File, PurgeUnlink(f) PROVE DocInv'
  <2>1. /\ pc = "purge" /\ pc' \in {"purge", "purgeDelete"} /\ cur' = f /\ f \in Entries
        /\ UNCHANGED <<state, files, doc>>
        /\ \/ pc' = "purgeDelete" /\ kb' = kb \ {state[f].id}
           \/ pc' = "purge" /\ state[f].id \notin kb
    BY <1>9, <1>b DEF PurgeUnlink, Remove, Fails, TInv, HeldInv
  <2>2. pc' = "purgeDelete" /\ kb' = kb \ {state[f].id} /\ state[f].id \in kb
    BY <2>1 DEF DocInv, Empty
  <2>3. \A g \in Entries : g = f \/ state[g].id # state[f].id
    BY <2>1, <1>a
  <2> QED
    BY <2>1, <2>2, <2>3 DEF DocInv, OnItsWay, Empty, Entries
<1>10. CASE PurgeDelete
  <2>1. /\ pc = "purgeDelete" /\ pc' = "purge" /\ cur \in Entries /\ state[cur].id \in files
        /\ UNCHANGED <<kb, doc, cur>>
    BY <1>10 DEF PurgeDelete, TInv, HeldInv, Entries, DocInv, OnItsWay
  <2>2. files' = files \ {state[cur].id} /\ state' = [state EXCEPT ![cur] = NoEntry]
    BY <1>10, <1>b, <2>1 DEF PurgeDelete, Remove, Fails
  <2>3. \A i \in kb : doc[i].file # cur
    BY <2>1 DEF DocInv, Empty
  <2>4. state[cur].id \notin kb
    BY <2>1, <2>3, <1>a
  <2>5. state'[cur] = NoEntry /\ \A f \in File \ {cur} : state'[f] = state[f]
    BY <2>2 DEF TInv, TypeOK
  <2> QED
    BY <2>1, <2>2, <2>3, <2>4, <2>5 DEF DocInv, OnItsWay, Empty, Entries
<1>11. ASSUME NEW f \in File, NEW c \in Content \cup {Absent}, Edit(f, c) PROVE DocInv'
  BY <1>1, <1>11 DEF Edit
<1>12. CASE Crash
  BY <1>12 DEF Crash
<1> QED
  BY <1>2, <1>3, <1>4, <1>5, <1>6, <1>7, <1>8, <1>9, <1>10, <1>11, <1>12
  DEF Next, Scan, Read, Call, Watch, Environment

LEMMA ScanStep ==
    ASSUME TInv, TInv', NameInv, DocInv, ~Pending => ScanInv, [Next]_vars,
           Faultless, Faultless', ~Pending'
    PROVE  ScanInv'
<1> USE DEF Faultless, dirVars, localVars, watchVars, remoteVars, envVars
<1>b. failures = 0 /\ failures' = 0 /\ failures' # failures + 1
  OBVIOUS
<1>1. CASE Boot \/ Debounced
  <2>1. /\ pc' = "walk" /\ seen' = Listing /\ todo' = Listing /\ UNCHANGED <<disk, reachable>>
    BY <1>1 DEF Boot, Debounced, ScanBegin
  <2>2. reachable
    BY <2>1 DEF Pending
  <2> QED
    BY <2>1, <2>2 DEF Listing, ScanInv, Holding, Recorded, Usable
<1>2. ASSUME UNCHANGED <<disk, state, pc, seen, todo, cur, hash, text>>, ~Pending
      PROVE  ScanInv'
  BY <1>2 DEF ScanInv, Recorded, Usable, Entries
<1>3. CASE HandleEvent \/ TimerFires \/ Outage
  BY <1>3 DEF HandleEvent, TimerFires, Outage, Pending
<1>4. CASE UNCHANGED vars
  BY <1>2, <1>4 DEF vars, Pending
<1>5. ASSUME NEW f \in File, NEW c \in Content \cup {Absent}, Edit(f, c) PROVE ScanInv'
  BY <1>5 DEF Edit, Seen, Unseen, Pending
<1>6. CASE Crash
  BY <1>6 DEF Crash
<1>7. CASE StartWatching
  <2>1. pc = "watch" /\ pc' = "idle" /\ UNCHANGED <<disk, state, seen, todo, cur, hash, text>> /\ ~Pending
    BY <1>7 DEF StartWatching, Pending
  <2> QED
    BY <2>1 DEF ScanInv, Holding, Recorded, Usable, Entries
<1>8. ASSUME NEW f \in File, Visit(f) PROVE ScanInv'
  <2>1. /\ pc = "walk" /\ f \in todo /\ todo' = todo \ {f}
        /\ UNCHANGED <<disk, state, seen>>
        /\ reachable /\ ~Pending
        /\ \/ pc' = "walk" /\ UNCHANGED <<cur, hash>> /\ (disk[f] = Absent \/ Unchanged(f))
           \/ pc' = "extract" /\ cur' = f /\ hash' = disk[f]
    BY <1>8 DEF Visit, Pending
  <2> QED
    BY <2>1 DEF ScanInv, Holding, Recorded, Usable, Entries, Unchanged
<1>9. CASE Extract
  <2>1. /\ pc = "extract" /\ UNCHANGED <<disk, state, seen, todo, cur, hash>>
        /\ reachable /\ ~Pending
        /\ \/ pc' = "walk" /\ ~Usable(cur)
           \/ pc' \in {"unlink", "upload"}
    BY <1>9 DEF Extract, Pending, Usable
  <2> QED
    BY <2>1 DEF ScanInv, Holding, Recorded, Usable, Entries
<1>10. CASE UnlinkOld \/ DeleteOld
  <2>1. /\ pc \in {"unlink", "delete"} /\ pc' \in {"delete", "upload"}
        /\ UNCHANGED <<disk, state, seen, todo, cur, hash>> /\ ~Pending
    BY <1>10 DEF UnlinkOld, DeleteOld, Pending
  <2> QED
    BY <2>1 DEF ScanInv, Holding, Recorded, Usable, Entries
<1>11. CASE Upload
  <2>1. /\ pc = "upload" /\ pc' = "add"
        /\ UNCHANGED <<disk, state, seen, todo, cur, hash>> /\ ~Pending
    BY <1>11, <1>b DEF Upload, Fails, Pending
  <2> QED
    BY <2>1 DEF ScanInv, Holding, Recorded, Usable, Entries
<1>12. CASE Add
  <2>1. /\ pc = "add" /\ pc' = "walk" /\ cur \in File
        /\ UNCHANGED <<disk, seen, todo, cur, hash>> /\ ~Pending
        /\ state' = [state EXCEPT ![cur] = [hash |-> hash, id |-> newId]]
    BY <1>12, <1>b DEF Add, Fails, TInv, HeldInv, Pending
  <2>2. /\ state'[cur] # NoEntry /\ state'[cur].hash = hash
        /\ \A f \in File \ {cur} : state'[f] = state[f]
    BY <2>1, EntryAssumption DEF TInv, TypeOK, HeldInv, Entry
  <2> QED
    BY <2>1, <2>2 DEF ScanInv, Holding, Recorded, Usable
<1>13. CASE WalkEnds
  <2>1. /\ pc = "walk" /\ todo = {} /\ todo' = Entries \ seen /\ pc' = "purge"
        /\ UNCHANGED <<disk, state, seen>> /\ ~Pending
    BY <1>13 DEF WalkEnds, Pending
  <2> QED
    BY <2>1 DEF ScanInv, Holding, Recorded, Usable, Entries
<1>14. ASSUME NEW f \in File, PurgeUnlink(f) PROVE ScanInv'
  <2>1. /\ pc = "purge" /\ todo' = todo \ {f} /\ cur' = f /\ f \in Entries
        /\ UNCHANGED <<disk, state, seen>> /\ ~Pending
        /\ pc' = "purgeDelete" \/ (pc' = "purge" /\ state[f].id \notin kb)
    BY <1>14, <1>b DEF PurgeUnlink, Remove, Fails, TInv, HeldInv, Pending
  <2>2. pc' = "purgeDelete"
    BY <2>1 DEF DocInv, Empty
  <2> QED
    BY <2>1, <2>2 DEF ScanInv, Holding, Recorded, Usable, Entries
<1>15. CASE PurgeDelete
  <2>1. /\ pc = "purgeDelete" /\ pc' = "purge" /\ cur \in Entries /\ state[cur].id \in files
        /\ UNCHANGED <<disk, seen, todo, cur>> /\ ~Pending
    BY <1>15 DEF PurgeDelete, TInv, HeldInv, Entries, DocInv, OnItsWay, Pending
  <2>2. state' = [state EXCEPT ![cur] = NoEntry]
    BY <1>15, <1>b, <2>1 DEF PurgeDelete, Remove, Fails
  <2>3. state'[cur] = NoEntry /\ \A f \in File \ {cur} : state'[f] = state[f]
    BY <2>1, <2>2 DEF TInv, TypeOK, Entries
  <2>4. cur \notin seen
    BY <2>1 DEF NameInv
  <2> QED
    BY <2>1, <2>3, <2>4 DEF ScanInv, Holding, Recorded, Usable, Entries
<1>16. CASE Save
  <2>1. /\ pc = "purge" /\ todo = {} /\ pc' \in {"watch", "idle"}
        /\ UNCHANGED <<disk, state, seen>> /\ ~Pending
    BY <1>16 DEF Save, Pending
  <2> QED
    BY <2>1 DEF ScanInv, Holding, Recorded, Usable, Entries
<1> QED
  BY <1>1, <1>3, <1>4, <1>5, <1>6, <1>7, <1>8, <1>9, <1>10, <1>11, <1>12, <1>13, <1>14, <1>15, <1>16
  DEF Next, Scan, Read, Call, Watch, Environment

-----------------------------------------------------------------------------
(* The watcher at rest, and documents that stay.                           *)

LEMMA QuietStep == TInv /\ TInv' /\ NameInv /\ QuietInv /\ [Next]_vars => QuietInv'
<1> SUFFICES ASSUME TInv, TInv', NameInv, QuietInv, [Next]_vars, Faultless'
             PROVE  DocInv' /\ (~Pending' => ScanInv')
    BY DEF QuietInv
<1>1. Faultless
  <2> USE DEF Fails, TInv, TypeOK, Faultless, envVars
  <2>1. ASSUME failures' \in {failures, failures + 1}, crashes' = crashes PROVE Faultless
    BY <2>1
  <2>2. CASE Scan
    BY <2>1, <2>2 DEF Scan, Read, Call, Boot, Visit, Extract, UnlinkOld, DeleteOld, Remove, Upload, Add,
       WalkEnds, PurgeUnlink, PurgeDelete, Save
  <2>3. CASE Watch
    BY <2>1, <2>3 DEF Watch, StartWatching, HandleEvent, TimerFires, Debounced
  <2>4. CASE Environment
    <3>1. CASE Crash
      BY <3>1 DEF Crash
    <3> QED
      BY <2>1, <2>4, <3>1 DEF Environment, Edit, Outage
  <2>5. CASE UNCHANGED vars
    BY <2>1, <2>5 DEF vars
  <2> QED
    BY <2>2, <2>3, <2>4, <2>5 DEF Next
<1>2. DocInv /\ (~Pending => ScanInv)
  BY <1>1 DEF QuietInv
<1> QED
  BY <1>1, <1>2, DocStep, ScanStep

\* What the watcher knows at rest, whatever the edits were: a file with text
\* has an entry of its current content's hash and the one object of the entry,
\* a file that is gone has none, and nothing else is stored.
QuietMeansRecorded ==
    (Quiet /\ ~missed /\ reachable /\ Faultless) =>
        /\ \A f \in File :
            /\ Usable(f) => /\ state[f] # NoEntry /\ state[f].hash = disk[f]
                            /\ DocsOf(f) = {state[f].id}
            /\ disk[f] = Absent => DocsOf(f) = {}
        /\ files = kb

LEMMA QuietRecorded == TInv /\ NameInv /\ QuietInv => QuietMeansRecorded
<1> SUFFICES ASSUME TInv, NameInv, QuietInv, Quiet, ~missed, reachable, Faultless
             PROVE  /\ \A f \in File :
                        /\ Usable(f) => /\ state[f] # NoEntry /\ state[f].hash = disk[f]
                                        /\ DocsOf(f) = {state[f].id}
                        /\ disk[f] = Absent => DocsOf(f) = {}
                    /\ files = kb
    BY DEF QuietMeansRecorded
<1>1. DocInv /\ ScanInv /\ pc = "idle"
  BY DEF QuietInv, Pending, Quiet
<1>2. ASSUME NEW f \in File, state[f] # NoEntry PROVE DocsOf(f) = {state[f].id}
  BY <1>1, <1>2 DEF DocInv, DocsOf, Empty, Entries, NameInv, Named
<1>3. ASSUME NEW f \in File, state[f] = NoEntry PROVE DocsOf(f) = {}
  BY <1>1, <1>3 DEF DocInv, DocsOf, Entries
<1>4. \A f \in File : disk[f] = Absent => state[f] = NoEntry
  BY <1>1 DEF ScanInv, Entries
<1>5. \A f \in File : Recorded(f)
  BY <1>1 DEF ScanInv, Holding
<1> QED
  BY <1>1, <1>2, <1>3, <1>4, <1>5 DEF DocInv, OnItsWay, Recorded

LEMMA NameInvariance == Spec => []TInv /\ []NameInv /\ []QuietInv
BY TypeInit, TypeStep, NameInit, NameStep, QuietInit, QuietStep, PTL DEF Spec

LEMMA StaleInvariance == Spec => []StaleInv /\ []TruthInv
BY StaleInit, StaleStep, TruthInit, TruthStep, NameInvariance, PTL DEF Spec

\* However the user's edits fall between the steps of the scans and restore
\* what they like: a watcher at rest has recorded the directory as it is.
THEOREM RestIsRecorded == Spec => []QuietMeansRecorded
BY QuietRecorded, NameInvariance, PTL

\* A watcher at rest has made the knowledge base equal to the directory, for
\* any files, contents and edits, save the files that only look unchanged:
\* sync.go reads a file for its hash and again for its text, an edit between
\* the two makes the entry lie, and a later edit can make its hash right again.
THEOREM RestIsExact == Spec => []QuietMeansExact
<1>1. TInv /\ NameInv /\ QuietInv /\ TruthInv => QuietMeansExact
  <2> SUFFICES ASSUME TInv, NameInv, QuietInv, TruthInv, Quiet, ~missed, reachable, Faultless
               PROVE  Exact
      BY DEF QuietMeansExact
  <2>1. /\ \A f \in File :
            /\ Usable(f) => /\ state[f] # NoEntry /\ state[f].hash = disk[f]
                            /\ DocsOf(f) = {state[f].id}
            /\ disk[f] = Absent => DocsOf(f) = {}
        /\ files = kb
    BY QuietRecorded DEF QuietMeansRecorded
  <2>2. ASSUME NEW f \in File, Usable(f)
        PROVE  Cardinality(DocsOf(f)) = 1 /\ (Mirrored(f) \/ LooksUnchanged(f))
    <3>1. Cardinality({state[f].id}) = 1
      BY FS_Singleton
    <3>2. CASE Truthful(f) \/ f \notin restored
      <4>1. doc[state[f].id].content = disk[f]
        BY <2>1, <2>2, <3>2 DEF Truthful, TruthInv, TrueNow
      <4> QED
        BY <2>1, <2>2, <3>1, <4>1 DEF Mirrored
    <3> QED
      BY <2>1, <2>2, <3>1, <3>2 DEF LooksUnchanged
  <2> QED
    BY <2>1, <2>2 DEF Exact
<1> QED
  BY <1>1, NameInvariance, StaleInvariance, PTL

MirrorStays ==
    \A f \in File :
        (/\ Usable(f) /\ Mirrored(f) /\ Truthful(f) /\ ~Overtaken(f)
         /\ disk'[f] = disk[f] /\ outages = 0)
            => Mirrored(f)'

LEMMA MirrorStep == TInv /\ NameInv /\ StaleInv /\ [Next]_vars => MirrorStays
<1> SUFFICES ASSUME TInv, NameInv, StaleInv, [Next]_vars, NEW f \in File,
                    Usable(f), Mirrored(f), Truthful(f), ~Overtaken(f), disk'[f] = disk[f], outages = 0
             PROVE  Mirrored(f)'
    BY DEF MirrorStays
<1> USE DEF dirVars, localVars, watchVars, remoteVars, envVars
<1>1. PICK i \in kb : doc[i].file = f /\ doc[i].content = disk[f]
  BY DEF Mirrored, DocsOf
<1>2. ASSUME i \in kb', doc'[i] = doc[i] PROVE Mirrored(f)'
  BY <1>1, <1>2 DEF Mirrored, DocsOf
<1>3. ASSUME NEW g \in Entries, state[g].id = i PROVE g = f /\ state[g].hash = disk[f]
  <2>1. g = f
    BY <1>1, <1>3 DEF NameInv, Named, Entries
  <2> QED
    BY <1>1, <1>3, <2>1 DEF Truthful, Entries
<1>4. CASE UNCHANGED <<kb, doc>>
  BY <1>2, <1>4
<1>5. CASE UnlinkOld
  <2>1. pc = "unlink" /\ cur \in Entries /\ doc' = doc /\ kb \ {state[cur].id} \subseteq kb'
    BY <1>5 DEF UnlinkOld, Remove, TInv, HeldInv, Entries
  <2>2. cur = f => state[cur].hash # disk[cur]
    BY <2>1 DEF StaleInv, Entries, Overtaken
  <2> QED
    BY <1>1, <1>2, <1>3, <2>1, <2>2
<1>6. CASE Upload
  <2>1. kb' = kb /\ doc'[i] = doc[i]
    BY <1>6, <1>1, UploadKeepsDocs DEF Upload, NameInv
  <2> QED
    BY <1>2, <2>1
<1>7. CASE Add
  BY <1>2, <1>7 DEF Add
<1>8. ASSUME NEW g \in File, PurgeUnlink(g) PROVE Mirrored(f)'
  <2>1. pc = "purge" /\ g \in todo /\ g \in Entries \ seen /\ doc' = doc /\ kb \ {state[g].id} \subseteq kb'
    BY <1>8 DEF PurgeUnlink, Remove, TInv, HeldInv, NameInv
  <2>2. g = f => state[g].hash # disk[g]
    BY <2>1 DEF StaleInv, Scanning, Overtaken
  <2> QED
    BY <1>1, <1>2, <1>3, <2>1, <2>2
<1> QED
  BY <1>4, <1>5, <1>6, <1>7, <1>8
  DEF Next, Scan, Read, Call, Watch, Environment, vars, Boot, Visit, Extract, DeleteOld, WalkEnds, PurgeDelete,
      Save, StartWatching, HandleEvent, TimerFires, Debounced, Edit, Outage, Crash

\* A document of a file's current text stays until the file is edited,
\* whatever calls fail and whenever the agent crashes, for any number of files,
\* contents and edits, unless an edit that restored an earlier content has
\* overtaken the scan that is about to remove it.
THEOREM MirrorsStay == Spec => StaysMirrored
<1>1. TInv /\ NameInv /\ StaleInv /\ [Next]_vars => [MirrorStays]_vars
  BY MirrorStep
<1> QED
  BY <1>1, NameInvariance, StaleInvariance, PTL DEF Spec, StaysMirrored, MirrorStays
=============================================================================
