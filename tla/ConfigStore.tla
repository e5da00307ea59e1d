----------------------------- MODULE ConfigStore -----------------------------
(***************************************************************************)
(* How the agent keeps what is entered in the local panel.  The manifest:  *)
(* /onboard/apply writes it beside its place and renames it there, then    *)
(* publishes it (main.go, apply and writeManifestAtomic).  Credentials of  *)
(* the database, and of ErpNext alike: /db/connect publishes them (Connect *)
(* answers a ping first), then writes and renames (main.go, dbConnect;     *)
(* internal/creds in file mode).  A restart loads the file again.          *)
(*                                                                         *)
(* Every request is a goroutine of net/http and no lock is held, so each   *)
(* system call is an action.  A path names an inode; a handler that has    *)
(* opened an inode keeps it, whatever a rename does to the path.           *)
(***************************************************************************)
EXTENDS Naturals, FiniteSets

CONSTANTS
    Applier, Connector,     \* goroutines serving apply, and connect, each once
    Inode, NoInode,
    Value, NoValue, \* manifests or credentials entered
    Size,           \* length of a value's JSON
    MaxFailures, MaxRestarts    \* bounds on what the environment does

ASSUME ValuesAssumption ==
    Size \in [Value -> Nat \ {0}] /\ NoValue \notin Value
ASSUME InodesAssumption == NoInode \notin Inode
ASSUME HandlersAssumption == Applier \cap Connector = {}
ASSUME SettingsAssumption == {MaxFailures, MaxRestarts} \subseteq Nat

Handler == Applier \cup Connector
Store == {"manifest", "credentials"}
StoreOf(h) == IF h \in Applier THEN "manifest" ELSE "credentials"

\* The bytes of a file: the value they begin with, if they hold all of one,
\* and their length, which exceeds that value's when older bytes follow it.
Bytes == [begins : Value \cup {NoValue}, len : Nat]
Empty == [begins |-> NoValue, len |-> 0]

VARIABLES
    up,         \* the process runs; a fatal start-up error clears it
    live,       \* per store: live.Manifest.p; the credentials of the open handle
    path, tmp,  \* per store: the inodes of <path> and <path>.tmp
    data,       \* the bytes of each inode
    pc, val, fd,    \* per handler: step, its value, the file it opened
    failures, restarts, \* counters
    company,    \* history: the handlers that served while another of their kind did
    met         \* history: per store, whether any did since one that was alone saved

dir == <<path, tmp>>
history == <<company, met>>
vars == <<up, live, dir, data, pc, val, fd, failures, restarts, history>>

Init ==
    /\ up = TRUE /\ live = [k \in Store |-> NoValue]
    /\ path = [k \in Store |-> NoInode] /\ tmp = [k \in Store |-> NoInode]
    /\ data = [i \in Inode |-> Empty]
    /\ pc = [h \in Handler |-> "idle"]
    /\ val = [h \in Handler |-> NoValue]
    /\ fd = [h \in Handler |-> NoInode]
    /\ failures = 0 /\ restarts = 0
    /\ company = {} /\ met = [k \in Store |-> FALSE]

Goto(h, where) == pc' = [pc EXCEPT ![h] = where]

\* One of the failures the bound allows.
Fails == failures < MaxFailures /\ failures' = failures + 1

\* An error: of the manifest, answered 500; of credentials, logged, and the
\* answer is "connected".
Unsaved(h) == Goto(h, IF h \in Connector THEN "unsaved" ELSE "error")
SaveFails(h) == Fails /\ Unsaved(h)

-----------------------------------------------------------------------------
Ended == {"idle", "saved", "unsaved", "error"}

\* A request arrives, among others of its kind or alone.
Others(h) == {g \in Handler : StoreOf(g) = StoreOf(h) /\ pc[g] \notin Ended}
Meets(h) ==
    \/ Others(h) = {} /\ UNCHANGED history
    \/ /\ Others(h) # {}
       /\ company' = company \cup Others(h) \cup {h}
       /\ met' = [met EXCEPT ![StoreOf(h)] = TRUE]

Begin(h) ==
    /\ up /\ pc[h] = "idle"
    /\ Meets(h)
    /\ \E v \in Value : val' = [val EXCEPT ![h] = v]
    /\ Goto(h, IF h \in Connector THEN "connect" ELSE "open")
    /\ UNCHANGED <<up, live, dir, data, fd, failures, restarts>>

\* Connect: the ping, then the swap of the handle.
PingErrorIgnored(h) ==
    /\ pc[h] = "connect"
    /\ \/ live' = [live EXCEPT ![StoreOf(h)] = val[h]] /\ UNCHANGED failures
       \/ Fails /\ UNCHANGED live
    /\ Goto(h, "open")
    /\ UNCHANGED <<up, dir, data, val, fd, restarts, history>>
Connect(h) ==
    /\ pc[h] = "connect"
    /\ \/ live' = [live EXCEPT ![StoreOf(h)] = val[h]]
          /\ Goto(h, "open") /\ UNCHANGED failures
       \/ Fails /\ Goto(h, "error") /\ UNCHANGED live
    /\ UNCHANGED <<up, dir, data, val, fd, restarts, history>>

\* os.WriteFile opens with O_CREATE and O_TRUNC ...
Unused == Inode \ UNION {{path[k] : k \in Store}, {tmp[k] : k \in Store},
                          {fd[h] : h \in Handler}}
Truncated(h) ==
    \E i \in IF tmp[StoreOf(h)] = NoInode THEN Unused ELSE {tmp[StoreOf(h)]} :
        /\ tmp' = [tmp EXCEPT ![StoreOf(h)] = i] /\ fd' = [fd EXCEPT ![h] = i]
        /\ data' = [data EXCEPT ![i] = Empty]
OpenErrorIgnored(h) ==
    /\ pc[h] = "open"
    /\ \/ Truncated(h) /\ UNCHANGED failures
       \/ Fails /\ UNCHANGED <<tmp, fd, data>>
    /\ Goto(h, "write")
    /\ UNCHANGED <<up, live, path, val, restarts, history>>
Open(h) ==
    /\ pc[h] = "open"
    /\ \/ Truncated(h) /\ Goto(h, "write") /\ UNCHANGED failures
       \/ SaveFails(h) /\ UNCHANGED <<tmp, fd, data>>
    /\ UNCHANGED <<up, live, path, val, restarts, history>>

\* ... and writes from the start of the file, over what is there.
Over(old, v) == [begins |-> v, len |-> IF old.len > Size[v] THEN old.len ELSE Size[v]]
Part(old) == [begins |-> NoValue, len |-> IF old.len = 0 THEN 1 ELSE old.len]

WriteErrorIgnored(h) ==
    /\ pc[h] = "write"
    /\ \/ data' = [data EXCEPT ![fd[h]] = Over(@, val[h])] /\ UNCHANGED failures
       \/ data' = [data EXCEPT ![fd[h]] = Part(@)] /\ Fails
    /\ Goto(h, "rename")
    /\ UNCHANGED <<up, live, dir, val, fd, restarts, history>>
Write(h) ==
    /\ pc[h] = "write"
    /\ \/ /\ data' = [data EXCEPT ![fd[h]] = Over(@, val[h])]
          /\ Goto(h, "rename") /\ UNCHANGED failures
       \/ /\ data' \in {data, [data EXCEPT ![fd[h]] = Part(@)]}
          /\ SaveFails(h)
    /\ UNCHANGED <<up, live, dir, val, fd, restarts, history>>

\* os.Rename moves what tmp names now; an error when it names nothing.
Saved(h) ==
    /\ Goto(h, IF h \in Connector THEN "saved" ELSE "publish")
    /\ met' = [met EXCEPT ![StoreOf(h)] = @ /\ h \in company]
Moved(k) ==
    /\ tmp[k] # NoInode
    /\ path' = [path EXCEPT ![k] = tmp[k]] /\ tmp' = [tmp EXCEPT ![k] = NoInode]
RenameErrorIgnored(h) ==
    /\ pc[h] = "rename"
    /\ \/ Moved(StoreOf(h)) /\ UNCHANGED failures
       \/ Fails /\ UNCHANGED dir
    /\ Saved(h)
    /\ UNCHANGED <<up, live, data, val, fd, restarts, company>>
Rename(h) ==
    /\ pc[h] = "rename"
    /\ \/ Moved(StoreOf(h)) /\ Saved(h) /\ UNCHANGED failures
       \/ tmp[StoreOf(h)] = NoInode /\ Unsaved(h) /\ UNCHANGED <<dir, failures, met>>
       \/ SaveFails(h) /\ UNCHANGED <<dir, met>>
    /\ UNCHANGED <<up, live, data, val, fd, restarts, company>>

\* live.Set.
Publish(h) ==
    /\ pc[h] = "publish"
    /\ live' = [live EXCEPT !["manifest"] = val[h]]
    /\ Goto(h, "saved")
    /\ UNCHANGED <<up, dir, data, val, fd, failures, restarts, history>>

-----------------------------------------------------------------------------
(* The agent dies at any moment and is started again.                      *)

\* manifest.Load decodes the first JSON value and looks no further; LoadJSON
\* refuses a file that goes on after its value.
Decodes(k, b) ==
    /\ b.begins # NoValue
    /\ k = "credentials" => b.len = Size[b.begins]
Loads(k) == path[k] # NoInode => Decodes(k, data[path[k]])
\* What a start-up would load: nothing when there is no file.
Loaded(k) ==
    IF path[k] # NoInode /\ Decodes(k, data[path[k]])
      THEN data[path[k]].begins ELSE NoValue

\* A manifest that is there and does not load is fatal; credentials that do
\* not load are as good as none.
Restart ==
    /\ restarts < MaxRestarts /\ restarts' = restarts + 1
    /\ up' = Loads("manifest")
    /\ live' = [k \in Store |-> IF up' THEN Loaded(k) ELSE NoValue]
    /\ pc' = [h \in Handler |-> IF pc[h] \in Ended THEN pc[h] ELSE "error"]
    /\ fd' = [h \in Handler |-> NoInode]
    /\ UNCHANGED <<dir, data, val, failures, history>>

-----------------------------------------------------------------------------
ApplyStep(h) == Begin(h) \/ Open(h) \/ Write(h) \/ Rename(h) \/ Publish(h)
ConnectStep(h) == Begin(h) \/ Connect(h) \/ Open(h) \/ Write(h) \/ Rename(h)
Next ==
    \/ \E h \in Applier : ApplyStep(h)
    \/ \E h \in Connector : ConnectStep(h)
    \/ Restart

Spec == Init /\ [][Next]_vars

-----------------------------------------------------------------------------
(* Properties.                                                             *)

\* Every variable has its type, and a handler that writes has a file open.
TypeOK ==
    /\ up \in BOOLEAN /\ live \in [Store -> Value \cup {NoValue}]
    /\ path \in [Store -> Inode \cup {NoInode}]
    /\ tmp \in [Store -> Inode \cup {NoInode}]
    /\ data \in [Inode -> Bytes]
    /\ pc \in [Handler -> {"idle", "connect", "open", "write", "rename",
                           "publish", "saved", "unsaved", "error"}]
    /\ val \in [Handler -> Value \cup {NoValue}]
    /\ fd \in [Handler -> Inode \cup {NoInode}]
    /\ \A h \in Handler : pc[h] \in {"write", "rename"} => fd[h] # NoInode
    /\ failures \in 0 .. MaxFailures /\ restarts \in 0 .. MaxRestarts
    /\ company \subseteq Handler /\ met \in [Store -> BOOLEAN]

\* A file that is there loads, at every moment: an error or a crash between
\* any two steps leaves the old value or the new one (main.go:160, "temp +
\* rename; leaves no half file").  Requests that meet share one temporary
\* name and may spoil the file; the next one to save alone mends it.
NoHalfFile == \A k \in Store : ~met[k] => Loads(k)

\* What is live, or would be if the agent that is down could start.
Serving(k) == IF up THEN live[k] ELSE Loaded(k)

\* The manifest is the register: an apply keeps the new one and then makes it
\* live, whatever fails in between, and a restart makes live what was kept
\* (main.go, apply).  Applies that meet upset it, until one saves alone.
Manifest == INSTANCE SettingsRegister
    WITH kept <- Loaded("manifest"), live <- Serving("manifest"),
         upset <- met["manifest"], LiveFirst <- FALSE
ManifestIsRegister == Manifest!Spec

\* So are the credentials, which go live when they have answered a ping and
\* are kept afterwards, or not (main.go, dbConnect).
Credentials == INSTANCE SettingsRegister
    WITH kept <- Loaded("credentials"), live <- Serving("credentials"),
         upset <- met["credentials"], LiveFirst <- TRUE
CredentialsAreRegister == Credentials!Spec
=============================================================================
