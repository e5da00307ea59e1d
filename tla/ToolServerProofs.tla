-------------------------- MODULE ToolServerProofs --------------------------
(***************************************************************************)
(* Proofs about ToolServer, for any number of requests, reconnects,        *)
(* manifests and tools.                                                    *)
(***************************************************************************)
EXTENDS ToolServer, TLAPS

Undecided == {"idle", "allow", "manifest", "handle", "query", "erp"}
Unrecorded == Undecided \cup {"record"}

\* What a request has fixed by the time it stands at each step.
RequestsInv ==
    \A r \in Req :
        /\ pc[r] \in Undecided => decision[r] = None
        /\ pc[r] = "record" => decision[r] # None
        /\ ran[r] \/ created[r] > 0 => decision[r] # None
        /\ pc[r] = "manifest" => tool[r] \notin WriteNamed
        /\ pc[r] \in {"handle", "query"} \/ ran[r] =>
             /\ snap[r] # NoManifest /\ tool[r] \in ToolsOf[snap[r]]
             /\ tool[r] \notin WriteNamed

\* No record before Record, one record after it.
LogInv ==
    \A r \in Req :
        /\ pc[r] \in Unrecorded \/ decision[r] = None => RecordsOf(r) = {}
        /\ pc[r] \notin Unrecorded /\ decision[r] # None => Audited(r)

\* A handle is fresh until it is published by Swap; what a Swap returned was
\* published, and is not published again.
Fresh(c) == cpc[c] \in {"idle", "swap"}
HandlesInv ==
    /\ \A c \in Connector : Fresh(c) => c \notin closed /\ c # db
    /\ \A c, d \in Connector : Fresh(c) => old[d] # c
    /\ \A c \in Connector : cpc[c] = "close" => old[c] # db \/ db = NoHandle

IInv == TypeOK /\ RequestsInv /\ LogInv /\ HandlesInv /\ HandlesAccounted
-----------------------------------------------------------------------------
LEMMA InitIInv == Init => IInv
<1> SUFFICES ASSUME Init PROVE IInv
  OBVIOUS
<1> USE SettingsAssumption, NilAssumption DEF Init
<1>1. TypeOK
  <2>1. /\ live \in Manifest /\ applies \in 0 .. MaxApplies
        /\ db \in Handle \cup {NoHandle} /\ closed \subseteq Handle
        /\ cpc \in [Connector -> {"idle", "swap", "close", "done"}]
        /\ old \in [Connector -> Handle \cup {NoHandle}]
    OBVIOUS
  <2>2. /\ pc \in [Req -> {"idle", "allow", "manifest", "handle", "query", "erp",
                           "record", "answer", "done"}]
        /\ door \in [Req -> {None, "tunnel", "panel"}]
        /\ target \in [Req -> {None, "db", "erp"}]
        /\ tool \in [Req -> Tool \cup ErpTool \cup {None}]
    OBVIOUS
  <2>3. /\ snap \in [Req -> Manifest \cup {NoManifest}]
        /\ hnd \in [Req -> Handle \cup {NoHandle}]
        /\ ran \in [Req -> BOOLEAN] /\ created \in [Req -> {0, 1}]
        /\ decision \in [Req -> {None, "allow", "deny", "error"}]
        /\ log \in Seq([req : Req, decision : {"allow", "deny", "error"}])
    OBVIOUS
  <2>4. QED
    BY <2>1, <2>2, <2>3 DEF TypeOK
<1>2. RequestsInv
  BY DEF RequestsInv, Undecided, None
<1>3. LogInv
  BY DEF LogInv, RecordsOf, Unrecorded, Undecided
<1>4. HandlesInv /\ HandlesAccounted
  BY DEF HandlesInv, HandlesAccounted, Fresh, Handle
<1>5. QED
  BY <1>1, <1>2, <1>3, <1>4 DEF IInv

\* A step that writes no record keeps LogInv when it takes no request past
\* its record, unless it goes on without a decision.
LEMMA LogKept ==
  ASSUME LogInv, UNCHANGED log, NEW r \in Req,
         \A s \in Req \ {r} : pc'[s] = pc[s] /\ decision'[s] = decision[s],
         \/ pc[r] \in Unrecorded /\ (pc'[r] \in Unrecorded \/ decision'[r] = None)
         \/ pc[r] \notin Unrecorded /\ pc'[r] \notin Unrecorded
            /\ decision'[r] = decision[r]
  PROVE  LogInv'
<1>1. \A s \in Req : RecordsOf(s)' = RecordsOf(s)
  BY DEF RecordsOf
<1>2. ASSUME NEW s \in Req, s # r
      PROVE  /\ (pc[s] \in Unrecorded \/ decision[s] = None => RecordsOf(s) = {})'
             /\ (pc[s] \notin Unrecorded /\ decision[s] # None => Audited(s))'
  BY <1>1, <1>2 DEF LogInv, Audited
<1>3. /\ (pc[r] \in Unrecorded \/ decision[r] = None => RecordsOf(r) = {})'
      /\ (pc[r] \notin Unrecorded /\ decision[r] # None => Audited(r))'
  BY <1>1 DEF LogInv, Audited
<1>4. QED
  BY <1>2, <1>3 DEF LogInv

LEMMA StepIInv == IInv /\ [Next]_vars => IInv'
<1> SUFFICES ASSUME IInv, [Next]_vars PROVE IInv'
  OBVIOUS
<1> USE NilAssumption, ToolsAssumption, SettingsAssumption
<1>a. ASSUME UNCHANGED <<log, pc, decision>> PROVE LogInv'
  BY <1>a DEF IInv, LogInv, Audited, RecordsOf
<1> USE DEF IInv, TypeOK, RequestsInv, Undecided, Unrecorded, None, Handle,
            HandlesInv, HandlesAccounted, Fresh,
            Goto, Decide, Refuse, handlerVars, inputVars, callVars
<1>1. ASSUME NEW r \in Req, TunnelRefused(r) PROVE IInv'
  <2>1. (TypeOK /\ RequestsInv)'
    BY <1>1 DEF TunnelRefused
  <2>2. LogInv'
    <3>1. /\ UNCHANGED log
          /\ \A q \in Req \ {r} : pc'[q] = pc[q] /\ decision'[q] = decision[q]
          /\ pc[r] \in Unrecorded
          /\ pc'[r] \in Unrecorded \/ decision'[r] = None
      BY <1>1 DEF TunnelRefused
    <3>2. QED
      BY <3>1, LogKept
  <2>3. (HandlesInv /\ HandlesAccounted)'
    BY <1>1 DEF TunnelRefused
  <2>4. QED
    BY <2>1, <2>2, <2>3
<1>2. ASSUME NEW r \in Req, TunnelCall(r) PROVE IInv'
  <2>1. (TypeOK /\ RequestsInv)'
    BY <1>2 DEF TunnelCall, Targets, ErpTool
  <2>2. LogInv'
    <3>1. /\ UNCHANGED log
          /\ \A q \in Req \ {r} : pc'[q] = pc[q] /\ decision'[q] = decision[q]
          /\ pc[r] \in Unrecorded
          /\ pc'[r] \in Unrecorded \/ decision'[r] = None
      BY <1>2 DEF TunnelCall
    <3>2. QED
      BY <3>1, LogKept
  <2>3. (HandlesInv /\ HandlesAccounted)'
    BY <1>2 DEF TunnelCall
  <2>4. QED
    BY <2>1, <2>2, <2>3
<1>3. ASSUME NEW r \in Req, PanelRefused(r) PROVE IInv'
  <2>1. (TypeOK /\ RequestsInv)'
    BY <1>3 DEF PanelRefused
  <2>2. LogInv'
    <3>1. /\ UNCHANGED log
          /\ \A q \in Req \ {r} : pc'[q] = pc[q] /\ decision'[q] = decision[q]
          /\ pc[r] \in Unrecorded
          /\ pc'[r] \in Unrecorded \/ decision'[r] = None
      BY <1>3 DEF PanelRefused
    <3>2. QED
      BY <3>1, LogKept
  <2>3. (HandlesInv /\ HandlesAccounted)'
    BY <1>3 DEF PanelRefused
  <2>4. QED
    BY <2>1, <2>2, <2>3
<1>4. ASSUME NEW r \in Req, PanelCall(r) PROVE IInv'
  <2>1. (TypeOK /\ RequestsInv)'
    BY <1>4 DEF PanelCall, Targets, ErpTool
  <2>2. LogInv'
    <3>1. /\ UNCHANGED log
          /\ \A q \in Req \ {r} : pc'[q] = pc[q] /\ decision'[q] = decision[q]
          /\ pc[r] \in Unrecorded
          /\ pc'[r] \in Unrecorded \/ decision'[r] = None
      BY <1>4 DEF PanelCall
    <3>2. QED
      BY <3>1, LogKept
  <2>3. (HandlesInv /\ HandlesAccounted)'
    BY <1>4 DEF PanelCall
  <2>4. QED
    BY <2>1, <2>2, <2>3
<1>5. ASSUME NEW r \in Req, AllowTool(r) PROVE IInv'
  <2>1. (TypeOK /\ RequestsInv)'
    <3>1. CASE Decide(r, "deny")
      BY <1>5, <3>1 DEF AllowTool
    <3>2. CASE Refuse(r)
      BY <1>5, <3>2 DEF AllowTool
    <3>3. CASE Goto(r, "manifest") /\ target[r] = "db" /\ Allowed(r)
      BY <1>5, <3>3 DEF AllowTool, Allowed, DbAllows
    <3>4. CASE Goto(r, "erp")
      BY <1>5, <3>4 DEF AllowTool
    <3>5. QED
      BY <1>5, <3>1, <3>2, <3>3, <3>4 DEF AllowTool
  <2>2. LogInv'
    <3>1. /\ UNCHANGED log
          /\ \A q \in Req \ {r} : pc'[q] = pc[q] /\ decision'[q] = decision[q]
          /\ pc[r] \in Unrecorded
          /\ pc'[r] \in Unrecorded \/ decision'[r] = None
      BY <1>5 DEF AllowTool
    <3>2. QED
      BY <3>1, LogKept
  <2>3. (HandlesInv /\ HandlesAccounted)'
    BY <1>5 DEF AllowTool
  <2>4. QED
    BY <2>1, <2>2, <2>3
<1>6. ASSUME NEW r \in Req, CallManifest(r) PROVE IInv'
  <2>1. (TypeOK /\ RequestsInv)'
    BY <1>6 DEF CallManifest
  <2>2. LogInv'
    <3>1. /\ UNCHANGED log
          /\ \A q \in Req \ {r} : pc'[q] = pc[q] /\ decision'[q] = decision[q]
          /\ pc[r] \in Unrecorded
          /\ pc'[r] \in Unrecorded \/ decision'[r] = None
      BY <1>6 DEF CallManifest
    <3>2. QED
      BY <3>1, LogKept
  <2>3. (HandlesInv /\ HandlesAccounted)'
    BY <1>6 DEF CallManifest
  <2>4. QED
    BY <2>1, <2>2, <2>3
<1>7. ASSUME NEW r \in Req, CallHandle(r) PROVE IInv'
  <2>1. (TypeOK /\ RequestsInv)'
    <3>1. CASE Goto(r, "query")
      BY <1>7, <3>1 DEF CallHandle
    <3>2. CASE Decide(r, "error")
      BY <1>7, <3>2 DEF CallHandle
    <3>3. QED
      BY <1>7, <3>1, <3>2 DEF CallHandle
  <2>2. LogInv'
    <3>1. /\ UNCHANGED log
          /\ \A q \in Req \ {r} : pc'[q] = pc[q] /\ decision'[q] = decision[q]
          /\ pc[r] \in Unrecorded
          /\ pc'[r] \in Unrecorded \/ decision'[r] = None
      BY <1>7 DEF CallHandle
    <3>2. QED
      BY <3>1, LogKept
  <2>3. (HandlesInv /\ HandlesAccounted)'
    BY <1>7 DEF CallHandle
  <2>4. QED
    BY <2>1, <2>2, <2>3
<1>8. ASSUME NEW r \in Req, Query(r) PROVE IInv'
  <2>1. (TypeOK /\ RequestsInv)'
    <3>1. CASE /\ hnd[r] \notin closed /\ ran' = [ran EXCEPT ![r] = TRUE]
               /\ Decide(r, "allow")
      BY <1>8, <3>1 DEF Query
    <3>2. CASE Decide(r, "error") /\ UNCHANGED ran
      BY <1>8, <3>2 DEF Query
    <3>3. QED
      BY <1>8, <3>1, <3>2 DEF Query
  <2>2. LogInv'
    <3>1. /\ UNCHANGED log
          /\ \A q \in Req \ {r} : pc'[q] = pc[q] /\ decision'[q] = decision[q]
          /\ pc[r] \in Unrecorded
          /\ pc'[r] \in Unrecorded \/ decision'[r] = None
      BY <1>8 DEF Query
    <3>2. QED
      BY <3>1, LogKept
  <2>3. (HandlesInv /\ HandlesAccounted)'
    BY <1>8 DEF Query
  <2>4. QED
    BY <2>1, <2>2, <2>3
<1>9. ASSUME NEW r \in Req, ErpCall(r) PROVE IInv'
  <2>1. (TypeOK /\ RequestsInv)'
    <3>1. PICK d \in {"allow", "error"}, n \in {0, 1} :
            /\ Decide(r, d)
            /\ created' = created \/ created' = [created EXCEPT ![r] = n]
      BY <1>9 DEF ErpCall
    <3>2. CASE UNCHANGED created
      BY <1>9, <3>1, <3>2 DEF ErpCall
    <3>3. CASE created' = [created EXCEPT ![r] = n]
      BY <1>9, <3>1, <3>3 DEF ErpCall
    <3>4. QED
      BY <3>1, <3>2, <3>3
  <2>2. LogInv'
    <3>1. /\ UNCHANGED log
          /\ \A q \in Req \ {r} : pc'[q] = pc[q] /\ decision'[q] = decision[q]
          /\ pc[r] \in Unrecorded
          /\ pc'[r] \in Unrecorded \/ decision'[r] = None
      BY <1>9 DEF ErpCall
    <3>2. QED
      BY <3>1, LogKept
  <2>3. (HandlesInv /\ HandlesAccounted)'
    BY <1>9 DEF ErpCall
  <2>4. QED
    BY <2>1, <2>2, <2>3
<1>10. ASSUME NEW r \in Req, Record(r) PROVE IInv'
  <2>1. (RequestsInv /\ HandlesInv /\ HandlesAccounted)'
    BY <1>10 DEF Record
  <2>2. decision[r] \in {"allow", "deny", "error"} /\ pc[r] = "record"
    BY <1>10 DEF Record
  <2>3. /\ log' = Append(log, [req |-> r, decision |-> decision[r]])
        /\ decision' = decision
    BY <1>10 DEF Record, AppendRecord
  <2>4. log' \in Seq([req : Req, decision : {"allow", "deny", "error"}])
    BY <2>2, <2>3
  <2>5. TypeOK'
    BY <1>10, <2>4 DEF Record
  <2>6. LogInv'
    <3>1. /\ Len(log') = Len(log) + 1 /\ Len(log) \in Nat
          /\ \A i \in 1 .. Len(log) : log'[i] = log[i]
          /\ log'[Len(log) + 1] = [req |-> r, decision |-> decision[r]]
      BY <2>2, <2>3
    <3>2. \A s \in Req \ {r} : RecordsOf(s)' = RecordsOf(s)
      BY <3>1 DEF RecordsOf
    <3>3. RecordsOf(r)' = {Len(log) + 1}
      <4>1. RecordsOf(r) = {}
        BY <2>2 DEF LogInv
      <4>2. QED
        BY <3>1, <4>1 DEF RecordsOf
    <3>4. Audited(r)'
      BY <2>3, <3>1, <3>3 DEF Audited
    <3>5. ASSUME NEW s \in Req, s # r
          PROVE  /\ (pc[s] \in Unrecorded \/ decision[s] = None => RecordsOf(s) = {})'
                 /\ (pc[s] \notin Unrecorded /\ decision[s] # None => Audited(s))'
      <4>1. pc'[s] = pc[s] /\ decision'[s] = decision[s]
        BY <1>10, <3>5 DEF Record
      <4>2. Audited(s) => Audited(s)'
        BY <2>3, <3>1, <3>2, <3>5 DEF Audited
      <4>3. QED
        BY <3>2, <3>5, <4>1, <4>2 DEF LogInv
    <3>6. pc'[r] = "answer" /\ decision'[r] # None
      BY <1>10, <2>2, <2>3 DEF Record
    <3>7. QED
      BY <3>4, <3>5, <3>6 DEF LogInv
  <2>7. QED
    BY <2>1, <2>5, <2>6
<1>11. ASSUME NEW r \in Req, Answer(r) PROVE IInv'
  <2>1. (TypeOK /\ RequestsInv)'
    BY <1>11 DEF Answer
  <2>2. LogInv'
    <3>1. /\ UNCHANGED log
          /\ \A q \in Req \ {r} : pc'[q] = pc[q] /\ decision'[q] = decision[q]
          /\ pc[r] \notin Unrecorded /\ pc'[r] \notin Unrecorded
          /\ decision'[r] = decision[r]
      BY <1>11 DEF Answer
    <3>2. QED
      BY <3>1, LogKept
  <2>3. (HandlesInv /\ HandlesAccounted)'
    BY <1>11 DEF Answer
  <2>4. QED
    BY <2>1, <2>2, <2>3
<1>12. ASSUME NEW c \in Connector, ConnectPing(c) PROVE IInv'
  <2>1. (TypeOK /\ RequestsInv)'
    BY <1>12 DEF ConnectPing
  <2>2. LogInv'
    BY <1>12, <1>a DEF ConnectPing
  <2>3. (HandlesInv /\ HandlesAccounted)'
    BY <1>12 DEF ConnectPing
  <2>4. QED
    BY <2>1, <2>2, <2>3
<1>13. ASSUME NEW c \in Connector, ConnectSwap(c) PROVE IInv'
  <2>1. (TypeOK /\ RequestsInv)'
    BY <1>13 DEF ConnectSwap
  <2>2. LogInv'
    BY <1>13, <1>a DEF ConnectSwap
  <2>3. (HandlesInv /\ HandlesAccounted)'
    BY <1>13 DEF ConnectSwap
  <2>4. QED
    BY <2>1, <2>2, <2>3
<1>14. ASSUME NEW c \in Connector, ConnectClose(c) PROVE IInv'
  <2>1. (TypeOK /\ RequestsInv)'
    BY <1>14 DEF ConnectClose
  <2>2. LogInv'
    BY <1>14, <1>a DEF ConnectClose
  <2>3. (HandlesInv /\ HandlesAccounted)'
    BY <1>14 DEF ConnectClose
  <2>4. QED
    BY <2>1, <2>2, <2>3
<1>15. ASSUME Apply PROVE IInv'
  <2>1. (TypeOK /\ RequestsInv)'
    BY <1>15 DEF Apply
  <2>2. LogInv'
    BY <1>15, <1>a DEF Apply
  <2>3. (HandlesInv /\ HandlesAccounted)'
    BY <1>15 DEF Apply
  <2>4. QED
    BY <2>1, <2>2, <2>3
<1>16. ASSUME UNCHANGED vars PROVE IInv'
  BY <1>16, <1>a DEF vars
<1>17. QED
  BY <1>1, <1>2, <1>3, <1>4, <1>5, <1>6, <1>7, <1>8, <1>9, <1>10, <1>11, <1>12, <1>13, <1>14, <1>15, <1>16 DEF Next, RequestStep, ConnectStep

LEMMA Invariance == Spec => []IInv
<1>1. IInv /\ [Next]_vars => IInv'
  BY StepIInv
<1>2. QED
  BY InitIInv, <1>1, PTL DEF Spec

-----------------------------------------------------------------------------
(* What the runs check on a small instance, for every instance.            *)

\* Requests, handles and records stay well formed.
THEOREM TypeCorrect == Spec => []TypeOK
<1>1. IInv => TypeOK
  BY DEF IInv
<1>2. QED
  BY Invariance, <1>1, PTL

\* However applies and calls interleave, a query runs only for a tool of the
\* manifest it took its statement and masks from, and never a write-named one.
THEOREM OnlyAllowedRuns == Spec => []RunsOnlyAllowed
<1>1. IInv => RunsOnlyAllowed
  BY DEF IInv, RequestsInv, RunsOnlyAllowed
<1>2. QED
  BY Invariance, <1>1, PTL

\* However requests interleave, an answer that reports a decision has its one
\* record, and one without a record did nothing.
THEOREM AnswersAudited == Spec => []AnsweredIsAudited
<1>1. IInv => AnsweredIsAudited
  BY DEF IInv, TypeOK, RequestsInv, LogInv, AnsweredIsAudited, Unrecorded, Undecided
<1>2. QED
  BY Invariance, <1>1, PTL

\* However reconnects interleave, no handle leaks and none is closed in use as
\* the current one.
THEOREM NoHandleLeak == Spec => []HandlesAccounted
<1>1. IInv => HandlesAccounted
  BY DEF IInv
<1>2. QED
  BY Invariance, <1>1, PTL
=============================================================================
