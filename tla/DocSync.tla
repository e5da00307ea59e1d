------------------------------ MODULE DocSync -------------------------------
(***************************************************************************)
(* The document source (internal/connector/documents): the Watcher of      *)
(* watch.go runs the Syncer of sync.go over one local directory and pushes *)
(* every file, as text, to a knowledge base of Open WebUI (owui.go); what  *)
(* was pushed is remembered in a state file (state.go).                    *)
(*                                                                         *)
(* One goroutine runs it all, but it is interleaved with the user's edits, *)
(* the file events, the debounce timer, the remote server and crashes of   *)
(* the agent, so every read of the directory and every remote call is an   *)
(* action of its own.  A content stands for the bytes of a file, for their *)
(* hash and for their (masked) text: the three tell the same files apart.  *)
(* The directory is flat, and a scan visits its files in any order.        *)
(***************************************************************************)
EXTENDS Naturals, FiniteSets

CONSTANTS
    File, NoFile,
    Content,
    Skipped,        \* contents ExtractText refuses: type, 25MB limit, corrupt
    Absent,         \* the content of a file that is not there
    NoEntry,        \* no FileState in the map
    NoDoc,
    MaxUploads,     \* bound: ids the server hands out
    Trouble,        \* what may happen: edits and the kinds of faults
    MaxTroubles     \* bound on their number

ASSUME NamesAssumption ==
    /\ NoFile \notin File /\ Absent \notin Content /\ Skipped \subseteq Content
ASSUME FilesAssumption == IsFiniteSet(File)
ASSUME BoundsAssumption ==
    /\ MaxUploads \in Nat /\ MaxTroubles \in Nat
    /\ Trouble \subseteq {"edit", "failure", "crash", "drop", "outage"}

Id == 1 .. MaxUploads
Entry == [hash : Content, id : Id]
ASSUME EntryAssumption == NoEntry \notin Entry
Doc == [file : File, content : Content]

VARIABLES
    disk,       \* the directory: file -> content or Absent
    reachable,  \* whether the directory can be listed and read
    written,    \* history: contents each file has had
    restored,   \* history: files some edit gave an earlier content back
    state,      \* State.Files in memory
    saved,      \* the state file
    pc,         \* where the watcher goroutine is
    cur,        \* the file being synced or purged
    hash,       \* hashHex of cur
    text,       \* text of cur
    newId,      \* fileID answered by UploadFile
    todo,       \* files the walk has listed and not visited
    seen,       \* files the walk has listed
    first,      \* TRUE during the SyncOnce that Run makes before it watches
    watching,   \* fsnotify watches the directory
    event,      \* an event is queued in fw.Events
    armed,      \* the debounce timer runs
    token,      \* the debounced channel holds its one element
    files,      \* remote: uploaded objects that exist
    kb,         \* remote: objects that are in the knowledge base
    doc,        \* remote: what each id was uploaded for
    uploads, edits, failures, crashes, drops, outages,   \* counters
    missed      \* history: an edit no event tells of since the last scan began

dirVars    == <<disk, reachable, written, restored>>
localVars  == <<cur, hash, text, newId, todo, seen>>
watchVars  == <<first, watching, event, armed, token>>
remoteVars == <<files, kb, doc, uploads>>
envVars    == <<edits, crashes, drops, outages>>
vars == <<dirVars, state, saved, pc, localVars, watchVars, remoteVars,
          envVars, failures, missed>>

\* Edits and faults of each kind are counted, and bounded together.
MayHappen(kind) ==
    kind \in Trouble /\ edits + failures + crashes + drops + outages < MaxTroubles

Entries == {f \in File : state[f] # NoEntry}

Init ==
    /\ disk \in [File -> (Content \ Skipped) \cup {Absent}]
    /\ reachable = TRUE
    /\ written = [f \in File |-> {disk[f]} \ {Absent}] /\ restored = {}
    /\ state = [f \in File |-> NoEntry] /\ saved = state
    /\ pc = "boot" /\ cur = NoFile /\ hash = Absent /\ text = Absent
    /\ newId = 0 /\ todo = {} /\ seen = {}
    /\ first = TRUE /\ watching = FALSE
    /\ event = FALSE /\ armed = FALSE /\ token = FALSE
    /\ files = {} /\ kb = {} /\ doc = [i \in Id |-> NoDoc] /\ uploads = 0
    /\ edits = 0 /\ failures = 0 /\ crashes = 0 /\ drops = 0 /\ outages = 0
    /\ missed = FALSE

-----------------------------------------------------------------------------
(* SyncOnce: the walk.                                                     *)

\* WalkDir lists the directory; one it cannot read only adds to rep.Errors,
\* and none of its files is seen.
Listing == IF reachable THEN {f \in File : disk[f] # Absent} ELSE {}

ScanBegin ==
    /\ seen' = Listing /\ todo' = Listing
    /\ missed' = FALSE
    /\ pc' = "walk"

\* Run: the first scan comes before anything is watched.
BootWithoutScan ==
    /\ pc = "boot" /\ pc' = "watch"
    /\ UNCHANGED <<dirVars, state, saved, localVars, watchVars, remoteVars,
                   envVars, failures, missed>>
Boot ==
    /\ pc = "boot"
    /\ ScanBegin
    /\ UNCHANGED <<dirVars, state, saved, cur, hash, text, newId, watchVars,
                   remoteVars, envVars, failures>>

\* syncFile up to the dedup: read, hash, compare with the entry.
VisitNoDedup(f) ==
    /\ pc = "walk" /\ f \in todo
    /\ todo' = todo \ {f}
    /\ IF ~reachable \/ disk[f] = Absent
         THEN UNCHANGED <<pc, cur, hash>>
         ELSE cur' = f /\ hash' = disk[f] /\ pc' = "extract"
    /\ UNCHANGED <<dirVars, state, saved, text, newId, seen, watchVars,
                   remoteVars, envVars, failures, missed>>
Unchanged(f) == state[f] # NoEntry /\ state[f].hash = disk[f]
Visit(f) ==
    /\ pc = "walk" /\ f \in todo
    /\ todo' = todo \ {f}
    /\ IF ~reachable \/ disk[f] = Absent \/ Unchanged(f)
         THEN UNCHANGED <<pc, cur, hash>>
         ELSE cur' = f /\ hash' = disk[f] /\ pc' = "extract"
    /\ UNCHANGED <<dirVars, state, saved, text, newId, seen, watchVars,
                   remoteVars, envVars, failures, missed>>

\* ExtractText opens the file again.
Extract ==
    /\ pc = "extract"
    /\ IF ~reachable \/ disk[cur] \in Skipped \cup {Absent}
         THEN pc' = "walk" /\ UNCHANGED text
         ELSE /\ text' = disk[cur]
              /\ pc' = IF state[cur] # NoEntry THEN "unlink" ELSE "upload"
    /\ UNCHANGED <<dirVars, state, saved, cur, hash, newId, todo, seen,
                   watchVars, remoteVars, envVars, failures, missed>>

-----------------------------------------------------------------------------
(* Remote calls.  A call takes effect or not, and its caller sees success  *)
(* or an error: a refusal, a lost request, or a lost answer.               *)

Fails == MayHappen("failure") /\ failures' = failures + 1

\* Taking an object out of a set, `sees` being what the caller learns: the
\* server may call a missing object done or an error.
Remove(set, id, sees) ==
    \/ sees /\ set' = set \ {id} /\ UNCHANGED failures
    \/ ~sees /\ Fails /\ set' \in {set, set \ {id}}
    \/ ~sees /\ id \notin set /\ UNCHANGED <<set, failures>>

\* The old version of a changed file: removeFile(prev), errors only logged.
UnlinkOld ==
    /\ pc = "unlink"
    /\ \E ok \in BOOLEAN :
        /\ Remove(kb, state[cur].id, ok)
        /\ pc' = IF ok THEN "delete" ELSE "upload"
    /\ UNCHANGED <<dirVars, state, saved, localVars, watchVars, files, doc,
                   uploads, envVars, missed>>

DeleteForgotten ==
    /\ pc = "delete" /\ pc' = "upload"
    /\ UNCHANGED <<dirVars, state, saved, localVars, watchVars, remoteVars,
                   envVars, failures, missed>>
DeleteOld ==
    /\ pc = "delete"
    /\ \E ok \in BOOLEAN : Remove(files, state[cur].id, ok)
    /\ pc' = "upload"
    /\ UNCHANGED <<dirVars, state, saved, localVars, watchVars, kb, doc,
                   uploads, envVars, missed>>

\* UploadFile stores the text under a new id.
Stored ==
    /\ uploads < MaxUploads
    /\ uploads' = uploads + 1
    /\ files' = files \cup {uploads + 1}
    /\ doc' = [doc EXCEPT ![uploads + 1] = [file |-> cur, content |-> text]]

Upload ==
    /\ pc = "upload"
    /\ \/ /\ Stored
          /\ newId' = uploads + 1 /\ pc' = "add"
          /\ UNCHANGED failures
       \/ /\ Fails
          /\ Stored \/ UNCHANGED <<uploads, files, doc>>
          /\ pc' = "walk"
          /\ UNCHANGED newId
    /\ UNCHANGED <<dirVars, state, saved, cur, hash, text, todo, seen,
                   watchVars, kb, envVars, missed>>

\* AddFileToKnowledge; the entry is written only when it succeeds.
AddReadsHashLate ==
    /\ pc = "add"
    /\ \/ /\ kb' = kb \cup {newId}
          /\ state' = [state EXCEPT ![cur] =
                [hash |-> IF disk[cur] = Absent THEN hash ELSE disk[cur], id |-> newId]]
          /\ UNCHANGED failures
       \/ Fails /\ kb' \in {kb, kb \cup {newId}} /\ UNCHANGED state
    /\ pc' = "walk"
    /\ UNCHANGED <<dirVars, saved, localVars, watchVars, files, doc, uploads,
                   envVars, missed>>
Add ==
    /\ pc = "add"
    /\ \/ /\ kb' = kb \cup {newId}
          /\ state' = [state EXCEPT ![cur] = [hash |-> hash, id |-> newId]]
          /\ UNCHANGED failures
       \/ Fails /\ kb' \in {kb, kb \cup {newId}} /\ UNCHANGED state
    /\ pc' = "walk"
    /\ UNCHANGED <<dirVars, saved, localVars, watchVars, files, doc, uploads,
                   envVars, missed>>

-----------------------------------------------------------------------------
(* SyncOnce: entries whose file was not seen, then the state file.         *)

WalkEnds ==
    /\ pc = "walk" /\ todo = {}
    /\ todo' = Entries \ seen
    /\ pc' = "purge"
    /\ UNCHANGED <<dirVars, state, saved, cur, hash, text, newId, seen,
                   watchVars, remoteVars, envVars, failures, missed>>

\* removeFile: out of the knowledge base, then deleted; an error keeps the
\* entry for the next scan.
PurgeUnlink(f) ==
    /\ pc = "purge" /\ f \in todo
    /\ cur' = f
    /\ todo' = todo \ {f}
    /\ \E ok \in BOOLEAN :
        /\ Remove(kb, state[f].id, ok)
        /\ pc' = IF ok THEN "purgeDelete" ELSE "purge"
    /\ UNCHANGED <<dirVars, state, saved, hash, text, newId, seen, watchVars,
                   files, doc, uploads, envVars, missed>>

PurgeEmptiesId ==
    /\ pc = "purgeDelete"
    /\ \E ok \in BOOLEAN :
        /\ Remove(files, state[cur].id, ok)
        /\ state' = IF ok THEN [state EXCEPT ![cur].id = 0] ELSE state
    /\ pc' = "purge"
    /\ UNCHANGED <<dirVars, saved, localVars, watchVars, kb, doc, uploads,
                   envVars, missed>>
PurgeDelete ==
    /\ pc = "purgeDelete"
    /\ \E ok \in BOOLEAN :
        /\ Remove(files, state[cur].id, ok)
        /\ state' = IF ok THEN [state EXCEPT ![cur] = NoEntry] ELSE state
    /\ pc' = "purge"
    /\ UNCHANGED <<dirVars, saved, localVars, watchVars, kb, doc, uploads,
                   envVars, missed>>

\* State.Save: written aside and renamed, so the file is the old or the new.
Save ==
    /\ pc = "purge" /\ todo = {}
    /\ \/ saved' = state /\ UNCHANGED failures
       \/ Fails /\ UNCHANGED saved
    /\ pc' = IF first THEN "watch" ELSE "idle"
    /\ UNCHANGED <<dirVars, state, localVars, watchVars, remoteVars, envVars,
                   missed>>

-----------------------------------------------------------------------------
(* Run: the watch, its events, the debounce timer.                         *)

\* addRecursive adds nothing, and says nothing, when the directory cannot be
\* read.
StartWatching ==
    /\ pc = "watch"
    /\ watching' = reachable /\ first' = FALSE
    /\ pc' = "idle"
    /\ UNCHANGED <<dirVars, state, saved, localVars, event, armed, token,
                   remoteVars, envVars, failures, missed>>

\* fw.Events: (re)arm the timer.
HandleEventForgotten ==
    /\ pc = "idle" /\ event
    /\ event' = FALSE
    /\ UNCHANGED <<dirVars, state, saved, pc, localVars, first, watching,
                   armed, token, remoteVars, envVars, failures, missed>>
HandleEvent ==
    /\ pc = "idle" /\ event
    /\ event' = FALSE /\ armed' = TRUE
    /\ UNCHANGED <<dirVars, state, saved, pc, localVars, first, watching,
                   token, remoteVars, envVars, failures, missed>>

\* The AfterFunc: a send that gives up when the channel is full.
TimerFires ==
    /\ armed
    /\ armed' = FALSE /\ token' = TRUE
    /\ UNCHANGED <<dirVars, state, saved, pc, localVars, first, watching,
                   event, remoteVars, envVars, failures, missed>>

Debounced ==
    /\ pc = "idle" /\ token
    /\ token' = FALSE
    /\ ScanBegin
    /\ UNCHANGED <<dirVars, state, saved, cur, hash, text, newId, first,
                   watching, event, armed, remoteVars, envVars, failures>>

-----------------------------------------------------------------------------
(* The environment: edits, lost events, an unreachable directory, crashes. *)

Seen == watching /\ event' = TRUE /\ UNCHANGED <<drops, missed>>
Unseen ==
    /\ UNCHANGED event
    /\ IF watching
         THEN MayHappen("drop") /\ drops' = drops + 1
         ELSE UNCHANGED drops
    /\ missed' = TRUE

\* Create, write, rename into place or delete; the event queue may overflow.
Edit(f, c) ==
    /\ MayHappen("edit") /\ reachable /\ c # disk[f]
    /\ disk' = [disk EXCEPT ![f] = c]
    /\ written' = [written EXCEPT ![f] = @ \cup ({c} \ {Absent})]
    /\ restored' = IF c \in written[f] THEN restored \cup {f} ELSE restored
    /\ edits' = edits + 1
    /\ Seen \/ Unseen
    /\ UNCHANGED <<reachable, state, saved, pc, localVars, first, watching,
                   armed, token, remoteVars, failures, crashes, outages>>

\* The directory is unmounted or its permissions change, and comes back.
Outage ==
    /\ reachable => MayHappen("outage")
    /\ reachable' = ~reachable
    /\ outages' = IF reachable THEN outages + 1 ELSE outages
    /\ watching => event' \in {event, TRUE}
    /\ ~watching => UNCHANGED event
    /\ missed' = TRUE
    /\ UNCHANGED <<disk, written, restored, state, saved, pc, localVars, first,
                   watching, armed, token, remoteVars, edits, failures, crashes, drops>>

\* The agent dies (or is shut down: nobody waits for the watcher) and is
\* started again: the map is what the state file holds, or empty when that
\* cannot be read.
Crash ==
    /\ MayHappen("crash") /\ crashes' = crashes + 1
    /\ \/ state' = saved /\ UNCHANGED failures
       \/ Fails /\ state' = [f \in File |-> NoEntry]
    /\ pc' = "boot" /\ cur' = NoFile /\ hash' = Absent /\ text' = Absent
    /\ newId' = 0 /\ todo' = {} /\ seen' = {}
    /\ first' = TRUE /\ watching' = FALSE
    /\ event' = FALSE /\ armed' = FALSE /\ token' = FALSE
    /\ UNCHANGED <<dirVars, saved, remoteVars, edits, drops, outages, missed>>

-----------------------------------------------------------------------------
Read ==
    \/ Boot \/ (\E f \in File : Visit(f)) \/ Extract \/ WalkEnds \/ Save
Call ==
    \/ UnlinkOld \/ DeleteOld \/ Upload \/ Add
    \/ (\E f \in File : PurgeUnlink(f)) \/ PurgeDelete
Scan == Read \/ Call
Watch == StartWatching \/ HandleEvent \/ TimerFires \/ Debounced
Environment ==
    \/ \E f \in File, c \in Content \cup {Absent} : Edit(f, c)
    \/ Outage \/ Crash

Next == Scan \/ Watch \/ Environment

Spec == Init /\ [][Next]_vars

\* The goroutine and the timer are scheduled.  The remote server owes nothing,
\* not even an answer (the HTTP client has no timeout), nor does the
\* environment.
FairSpec == Spec /\ WF_vars(Read) /\ WF_vars(Watch) /\ WF_vars(TimerFires)

-----------------------------------------------------------------------------
(* Properties.                                                             *)

\* Every variable has its type.
TypeOK ==
    /\ disk \in [File -> Content \cup {Absent}]
    /\ reachable \in BOOLEAN
    /\ written \in [File -> SUBSET Content] /\ restored \subseteq File
    /\ state \in [File -> Entry \cup {NoEntry}]
    /\ saved \in [File -> Entry \cup {NoEntry}]
    /\ pc \in {"boot", "walk", "extract", "unlink", "delete", "upload", "add",
               "purge", "purgeDelete", "watch", "idle"}
    /\ cur \in File \cup {NoFile}
    /\ hash \in Content \cup {Absent} /\ text \in Content \cup {Absent}
    /\ newId \in 0 .. MaxUploads
    /\ todo \subseteq File /\ seen \subseteq File
    /\ {first, watching, event, armed, token, missed} \subseteq BOOLEAN
    /\ kb \subseteq Id /\ files \subseteq Id
    /\ doc \in [Id -> Doc \cup {NoDoc}]
    /\ uploads \in 0 .. MaxUploads
    /\ {edits, failures, crashes, drops, outages} \subseteq Nat

Usable(f) == disk[f] \notin Skipped \cup {Absent}
DocsOf(f) == {i \in kb : doc[i].file = f}
Mirrored(f) == \E i \in DocsOf(f) : doc[i].content = disk[f]
Referenced == {state[f].id : f \in Entries}

\* An entry lies when its file was edited between hash and extraction.
Truthful(f) == state[f] # NoEntry => doc[state[f].id].content = state[f].hash

\* The lie nothing corrects: a later edit has brought the content of the hash
\* back, so that the file looks unchanged, and the text of another is pushed.
LooksUnchanged(f) == f \in restored /\ ~Truthful(f) /\ state[f].hash = disk[f]

\* The knowledge base is the directory: one document for each file that has
\* text, of its current text unless the file only looks unchanged, none for a
\* file that is gone, nothing else stored.
Exact ==
    /\ \A f \in File :
        /\ Usable(f) => /\ Cardinality(DocsOf(f)) = 1
                        /\ Mirrored(f) \/ LooksUnchanged(f)
        /\ disk[f] = Absent => DocsOf(f) = {}
    /\ files = kb

\* When the watcher has nothing left to do (no scan, event, timer or token)
\* the knowledge base is the directory, wherever the edits fell between the
\* steps of the scans.  Not so after an edit that no event told of, in an
\* outage, after a failed call or a crash; and a file that lied when an edit
\* gave it an earlier content back keeps the wrong text (UnchangedIsMirrored).
Quiet == pc = "idle" /\ ~event /\ ~armed /\ ~token
Faultless == failures = 0 /\ crashes = 0
QuietMeansExact == (Quiet /\ ~missed /\ reachable /\ Faultless) => Exact

\* A document leaks only by a failed call or a crash: one per failed call,
\* one per file for a crash (everything since the last Save is forgotten),
\* and the one that is on its way into the knowledge base.
LeakBound ==
    Cardinality(files \ Referenced) <=
        failures + crashes * Cardinality(File) + (IF pc = "add" THEN 1 ELSE 0)

\* A file whose current text is in the knowledge base keeps it there until
\* the file is edited, whatever fails and whenever the agent crashes: the old
\* version is removed before the new one is uploaded, and a call can fail in
\* between.  It takes a truthful entry, a directory that stays readable, and a
\* scan that an edit has not overtaken by bringing an earlier content back: it
\* still acts on the content, or the absence, that it has read before.
Overtaken(f) ==
    /\ f \in restored
    /\ \/ pc = "unlink" /\ cur = f /\ hash # disk[f]
       \/ pc = "purge" /\ f \in todo
StaysMirrored ==
    [][\A f \in File :
         (/\ Usable(f) /\ Mirrored(f) /\ Truthful(f) /\ ~Overtaken(f)
          /\ disk'[f] = disk[f] /\ outages = 0)
            => Mirrored(f)']_vars

\* A remote call is under way.  Nothing ends it when no answer comes.
Calling == \/ pc \in {"unlink", "delete", "upload", "add", "purgeDelete"}
           \/ pc = "purge" /\ todo # {}
Answered == []<>~Calling

\* If the server answers every call at last, every event the watcher receives
\* is followed by a knowledge base that is the directory, however the edits
\* fall between the steps of a scan (without a failed call, a crash, an outage,
\* or an event that is lost).
Disturbed == ~Faultless \/ outages > 0 \/ drops > 0
EventLeadsToExact == Answered => (event ~> (Exact \/ Disturbed))

\* A crash loses nothing for good, not even with the state file: once restarted,
\* if its calls are answered and none fails from then on, the agent pushes every
\* file that has text (unless an edit fell into the time it was not watching, or
\* gave the file an earlier content back, which the entry may already have; and
\* an outage makes it purge, also what the state file still names).
Healed == \A f \in File \ restored : Usable(f) => Mirrored(f)
CrashHeals ==
    Answered => \A n \in 0 .. MaxTroubles :
        (pc = "boot" /\ failures = n) ~> (Healed \/ missed \/ outages > 0 \/ failures > n)

\* sync.go:106: a file whose hash is the entry's is "unchanged, leave it
\* alone": what was pushed for it is its text.
UnchangedIsMirrored ==
    \A f \in todo :
        (pc = "walk" /\ reachable /\ Usable(f) /\ Unchanged(f)) => Mirrored(f)

\* sync.go:77: the entries purged from the knowledge base are those "in the
\* state but no longer on disk".
PurgesOnlyDeleted == pc = "purgeDelete" => disk[cur] = Absent
=============================================================================
