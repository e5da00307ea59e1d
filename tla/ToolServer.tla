----------------------------- MODULE ToolServer -----------------------------
(***************************************************************************)
(* How a tool call is served: the cloud door (internal/toolserver) and the *)
(* `try` door of the local panel (internal/webui), over the registry's two *)
(* connectors: the database (connector/mssql, whose tools are those of the *)
(* live manifest, internal/live) and ErpNext (connector/erpnext).  Beside  *)
(* the requests run the handlers that change what they read: /onboard/apply*)
(* publishes a manifest, /db/connect swaps the database handle.            *)
(*                                                                         *)
(* Each request and each handler is a goroutine.  A load or a swap of an   *)
(* atomic pointer is an action of its own; a query starts or finds its     *)
(* handle closed in one action (sql.DB waits for started queries).         *)
(***************************************************************************)
EXTENDS Naturals, FiniteSets, Sequences

CONSTANTS
    Req,            \* requests
    Connector,      \* goroutines serving /db/connect, each once (one may stand
                    \* for the start-up that opened the first handle)
    Manifest,
    Tool,           \* names of database tools
    ToolsOf,        \* the tools a manifest defines
    WriteNamed,     \* tools whose name contains one of writeVerbs
    ErpWrite,       \* MASHA_ERPNEXT_WRITE: SetWrite's `enabled`
    NoHandle, NoManifest,
    MaxApplies      \* bound: manifests published

ASSUME ToolsAssumption ==
    ToolsOf \in [Manifest -> SUBSET Tool] /\ WriteNamed \subseteq Tool
ASSUME NilAssumption == NoHandle \notin Connector /\ NoManifest \notin Manifest
ASSUME SettingsAssumption == ErpWrite \in BOOLEAN /\ MaxApplies \in Nat

\* The handle a goroutine opens is named after it.
Handle == Connector

ErpTool == {"get_documents", "create_document"}
ErpRead == {"get_documents"}        \* readTools, one for all of them

VARIABLES
    live,       \* live.Manifest.p
    applies,
    db,         \* mssql.Connector.db
    closed,     \* handles Close was called on
    cpc,        \* /db/connect goroutines
    old,        \* what their Swap returned
    pc,         \* requests
    door,       \* the server they came in by
    target,     \* the connector the registry gave
    tool,
    snap,       \* the manifest Call took
    hnd,        \* the handle Call took
    ran,        \* history: the query's rows were returned
    created,    \* ErpNext: documents created for the request
    decision,   \* outcome to be recorded, if any
    log         \* audit records of this process, in the order of Record

handlerVars == <<live, applies, db, closed, cpc, old>>
inputVars == <<door, target, tool>>
callVars  == <<snap, hnd, ran, created>>
vars == <<handlerVars, pc, inputVars, callVars, decision, log>>

None == "none"

Init ==
    /\ live \in Manifest /\ applies = 0
    /\ db \in Handle \cup {NoHandle} /\ closed = {}  \* openConnector: a DSN or none
    /\ cpc = [c \in Connector |-> IF c = db THEN "done" ELSE "idle"]
    /\ old = [c \in Connector |-> NoHandle]
    /\ pc = [r \in Req |-> "idle"]
    /\ door = [r \in Req |-> None]
    /\ target = [r \in Req |-> None]
    /\ tool = [r \in Req |-> None]
    /\ snap = [r \in Req |-> NoManifest]
    /\ hnd = [r \in Req |-> NoHandle]
    /\ ran = [r \in Req |-> FALSE]
    /\ created = [r \in Req |-> 0]
    /\ decision = [r \in Req |-> None]
    /\ log = <<>>

-----------------------------------------------------------------------------
(* Moving a request on.                                                    *)

Goto(r, where) == pc' = [pc EXCEPT ![r] = where] /\ UNCHANGED decision

\* Decide, record the decision, then answer.
Decide(r, d) ==
    /\ pc' = [pc EXCEPT ![r] = "record"]
    /\ decision' = [decision EXCEPT ![r] = d]

\* Answer with no record.
Refuse(r) == Goto(r, "answer")

-----------------------------------------------------------------------------
(* ServeHTTP: authentication, path shape, registry, discovery, method.     *)

\* A refused request keeps no input.
TunnelRefused(r) ==
    /\ pc[r] = "idle"
    /\ door' = [door EXCEPT ![r] = "tunnel"]
    /\ \/ Decide(r, "deny")                 \* 401: not authenticated
                                            \* 403: path shape, unknown label
       \/ Refuse(r)                         \* 200: GET openapi.json; 405: no POST
    /\ UNCHANGED <<handlerVars, target, tool, callVars, log>>

Targets == [target : {"db"}, tool : Tool] \cup [target : {"erp"}, tool : ErpTool]

TunnelCall(r) ==
    /\ pc[r] = "idle"
    /\ \E t \in Targets :
        /\ target' = [target EXCEPT ![r] = t.target]
        /\ tool' = [tool EXCEPT ![r] = t.tool]
    /\ door' = [door EXCEPT ![r] = "tunnel"]
    /\ Goto(r, "allow")
    /\ UNCHANGED <<handlerVars, callVars, log>>

(* try: method, body and connection are refused before anything is done.   *)

PanelRefused(r) ==
    /\ pc[r] = "idle"
    /\ door' = [door EXCEPT ![r] = "panel"]
    /\ Refuse(r)                            \* 405, 400 or 404
    /\ UNCHANGED <<handlerVars, target, tool, callVars, log>>

PanelCall(r) ==
    /\ pc[r] = "idle"
    /\ \E t \in Targets :
        /\ target' = [target EXCEPT ![r] = t.target]
        /\ tool' = [tool EXCEPT ![r] = t.tool]
    /\ door' = [door EXCEPT ![r] = "panel"]
    /\ Goto(r, "allow")
    /\ UNCHANGED <<handlerVars, callVars, log>>

-----------------------------------------------------------------------------
(* AllowTool of the two connectors.                                        *)

DbAllows(m, t) == t \in ToolsOf[m] /\ t \notin WriteNamed
ErpAllows(t) == t \in ErpRead \/ (ErpWrite /\ t = "create_document")

Allowed(r) == IF target[r] = "db" THEN DbAllows(live, tool[r]) ELSE ErpAllows(tool[r])

AllowTool(r) ==
    /\ pc[r] = "allow"
    /\ IF ~Allowed(r)
         THEN IF door[r] = "tunnel" THEN Decide(r, "deny") ELSE Refuse(r)
         ELSE \/ Goto(r, IF target[r] = "db" THEN "manifest" ELSE "erp")
              \/ door[r] = "tunnel" /\ Refuse(r)     \* 400: body is no JSON
    /\ UNCHANGED <<handlerVars, inputVars, callVars, log>>

-----------------------------------------------------------------------------
(* Call of the database connector: one manifest, then one handle.          *)

CallManifestUnchecked(r) ==
    /\ pc[r] = "manifest"
    /\ snap' = [snap EXCEPT ![r] = live]
    /\ Goto(r, "handle")
    /\ UNCHANGED <<handlerVars, inputVars, hnd, ran, created, log>>
CallManifest(r) ==
    /\ pc[r] = "manifest"
    /\ snap' = [snap EXCEPT ![r] = live]
    /\ IF tool[r] \in ToolsOf[live] THEN Goto(r, "handle") ELSE Decide(r, "error")
    /\ UNCHANGED <<handlerVars, inputVars, hnd, ran, created, log>>

CallHandle(r) ==
    /\ pc[r] = "handle"
    /\ hnd' = [hnd EXCEPT ![r] = db]
    /\ IF db # NoHandle THEN Goto(r, "query") ELSE Decide(r, "error")
    /\ UNCHANGED <<handlerVars, inputVars, snap, ran, created, log>>

\* A closed handle refuses; the query itself may fail or time out.
Query(r) ==
    /\ pc[r] = "query"
    /\ \/ /\ hnd[r] \notin closed
          /\ ran' = [ran EXCEPT ![r] = TRUE]
          /\ Decide(r, "allow")
       \/ Decide(r, "error") /\ UNCHANGED ran
    /\ UNCHANGED <<handlerVars, inputVars, snap, hnd, created, log>>

\* Call of the ErpNext connector: one REST request.  An error may hide a
\* document that was created (timeout, lost or unreadable answer).
ErpCall(r) ==
    /\ pc[r] = "erp"
    /\ \/ Decide(r, "allow") /\ created' =
            [created EXCEPT ![r] = IF tool[r] = "create_document" THEN 1 ELSE 0]
       \/ Decide(r, "error") /\ UNCHANGED created
       \/ Decide(r, "error") /\ tool[r] = "create_document"
            /\ created' = [created EXCEPT ![r] = 1]
    /\ UNCHANGED <<handlerVars, inputVars, snap, hnd, ran, log>>

-----------------------------------------------------------------------------
(* audit.Record, then the answer.                                          *)

RecordSuccesses(r) ==
    log' = IF decision[r] = "error" THEN log
             ELSE Append(log, [req |-> r, decision |-> decision[r]])
AppendRecord(r) == log' = Append(log, [req |-> r, decision |-> decision[r]])
Record(r) ==
    /\ pc[r] = "record"
    /\ AppendRecord(r)
    /\ Goto(r, "answer")
    /\ UNCHANGED <<handlerVars, inputVars, callVars>>

Answer(r) ==
    /\ pc[r] = "answer"
    /\ Goto(r, "done")
    /\ UNCHANGED <<handlerVars, inputVars, callVars, log>>

-----------------------------------------------------------------------------
(* The handlers that change what calls read.                               *)

\* live.Set, the last step of an apply.
Apply ==
    /\ applies < MaxApplies
    /\ \E m \in Manifest \ {live} : live' = m
    /\ applies' = applies + 1
    /\ UNCHANGED <<db, closed, cpc, old, pc, inputVars, callVars, decision, log>>

\* Connect: a new handle answers a ping or is closed again.
ConnectPing(c) ==
    /\ cpc[c] = "idle"
    /\ \/ cpc' = [cpc EXCEPT ![c] = "swap"] /\ UNCHANGED closed
       \/ cpc' = [cpc EXCEPT ![c] = "done"] /\ closed' = closed \cup {c}
    /\ UNCHANGED <<live, applies, db, old, pc, inputVars, callVars, decision, log>>

ConnectStoreOnly(c) ==
    /\ cpc[c] = "swap"
    /\ db' = c
    /\ cpc' = [cpc EXCEPT ![c] = "close"]
    /\ UNCHANGED <<live, applies, closed, old, pc, inputVars, callVars, decision, log>>
ConnectSwap(c) ==
    /\ cpc[c] = "swap"
    /\ old' = [old EXCEPT ![c] = db]
    /\ db' = c
    /\ cpc' = [cpc EXCEPT ![c] = "close"]
    /\ UNCHANGED <<live, applies, closed, pc, inputVars, callVars, decision, log>>

ConnectCloseNil(c) ==
    /\ cpc[c] = "close"
    /\ closed' = closed \cup {old[c]}
    /\ cpc' = [cpc EXCEPT ![c] = "done"]
    /\ UNCHANGED <<live, applies, db, old, pc, inputVars, callVars, decision, log>>
ConnectClose(c) ==
    /\ cpc[c] = "close"
    /\ closed' = closed \cup ({old[c]} \ {NoHandle})
    /\ cpc' = [cpc EXCEPT ![c] = "done"]
    /\ UNCHANGED <<live, applies, db, old, pc, inputVars, callVars, decision, log>>

-----------------------------------------------------------------------------
RequestStep(r) ==
    \/ TunnelRefused(r) \/ TunnelCall(r) \/ PanelRefused(r) \/ PanelCall(r)
    \/ AllowTool(r) \/ CallManifest(r) \/ CallHandle(r) \/ Query(r)
    \/ ErpCall(r) \/ Record(r) \/ Answer(r)
ConnectStep(c) == ConnectPing(c) \/ ConnectSwap(c) \/ ConnectClose(c)

Next ==
    \/ \E r \in Req : RequestStep(r)
    \/ \E c \in Connector : ConnectStep(c)
    \/ Apply

Spec == Init /\ [][Next]_vars

-----------------------------------------------------------------------------
(* Properties.                                                             *)

\* Every variable has its type.
TypeOK ==
    /\ live \in Manifest /\ applies \in 0 .. MaxApplies
    /\ db \in Handle \cup {NoHandle} /\ closed \subseteq Handle
    /\ cpc \in [Connector -> {"idle", "swap", "close", "done"}]
    /\ old \in [Connector -> Handle \cup {NoHandle}]
    /\ pc \in [Req -> {"idle", "allow", "manifest", "handle", "query", "erp",
                       "record", "answer", "done"}]
    /\ door \in [Req -> {None, "tunnel", "panel"}]
    /\ target \in [Req -> {None, "db", "erp"}]
    /\ tool \in [Req -> Tool \cup ErpTool \cup {None}]
    /\ snap \in [Req -> Manifest \cup {NoManifest}]
    /\ hnd \in [Req -> Handle \cup {NoHandle}]
    /\ ran \in [Req -> BOOLEAN]
    /\ created \in [Req -> {0, 1}]
    /\ decision \in [Req -> {None, "allow", "deny", "error"}]
    /\ log \in Seq([req : Req, decision : {"allow", "deny", "error"}])

\* A query is run only for a tool of the manifest that shapes its answer (the
\* masks are that manifest's), and never for a write-named tool, although the
\* tool was allowed under a manifest that may have been replaced since.
RunsOnlyAllowed ==
    \A r \in Req : ran[r] =>
        /\ snap[r] # NoManifest /\ tool[r] \in ToolsOf[snap[r]]
        /\ tool[r] \notin WriteNamed

\* An answer that reports a decision has exactly one record, written before
\* it and saying the same; so has every document created and query run.
RecordsOf(r) == {i \in 1 .. Len(log) : log[i].req = r}
Audited(r) ==
    \E i \in 1 .. Len(log) : RecordsOf(r) = {i} /\ log[i].decision = decision[r]
AnsweredIsAudited ==
    \A r \in Req : pc[r] \in {"answer", "done"} =>
        /\ decision[r] # None => Audited(r)
        /\ decision[r] = None => RecordsOf(r) = {} /\ ~ran[r] /\ created[r] = 0

\* Handles neither leak nor die in use: the current one is open, and an open
\* one is current, not yet published, or about to be closed by the goroutine
\* that swapped it out.
HandlesAccounted ==
    /\ db # NoHandle => db \notin closed
    /\ \A h \in Handle \ closed :
        \/ h = db
        \/ cpc[h] \in {"idle", "swap"}
        \/ \E c \in Connector : cpc[c] = "close" /\ old[c] = h
=============================================================================
