------------------------------- MODULE Wizard --------------------------------
(***************************************************************************)
(* The onboarding wizard of the panel (web/src/pages/Wizard.tsx) and the   *)
(* two handlers it works with (webui: onboardSuggest, onboardApply).       *)
(*                                                                         *)
(* The operator edits a candidate manifest; closed fields and tools are    *)
(* kept beside it and taken out when it is assembled.  One button starts a *)
(* request at a time (busy), but the editor stays usable while it runs,    *)
(* answers may be lost, and leaving the page leaves the request behind.    *)
(***************************************************************************)
EXTENDS Onboard

CONSTANTS
    Initial,        \* manifests that may be live when the wizard is opened
    Expression,     \* what a field's transformation can be chosen from
    Mask,           \* those that hide the value, whatever it is: no format does
    Advice,         \* what the assistant may answer: sets of
                    \* [table, column, expression]
    None,
    MaxDeeds,       \* bound: edits and requests of the operator
    MaxMounts       \* bound: times the wizard is opened

Field == [column : Name, expression : Expression]
Tool == [name : Part \X Key, kind : {"count", "query"}, entity : Key,
         select : SUBSET Key, filters : SUBSET Key]

WellFormed(m) ==
    /\ m \in [entities : {m.entities}, tools : SUBSET Tool]
    /\ \A e \in DOMAIN m.entities :
        m.entities[e] \in [table : STRING, fields : [DOMAIN m.entities[e].fields -> Field]]
    /\ \A t, u \in m.tools : t.name = u.name => t = u

\* What is suggested, for a column or by the assistant (parseAdvice drops what
\* is not), is a transformation the program knows.
ASSUME WizardAssumption ==
    /\ \A t \in Table : \A i \in DOMAIN t.columns : exprFor(t.columns[i]) \in Expression
    /\ \A advice \in Advice : \A a \in advice : a.expression \in Expression
    /\ Mask \subseteq Expression \ {""}
    /\ \A m \in Initial : WellFormed(m)
    /\ MaxDeeds \in Nat /\ MaxMounts \in Nat

VARIABLES
    live,           \* live.Manifest of the agent
    loading,        \* exportManifest: "sent", "read" with the manifest m, "done"
    current, cand, excluded, disabledTools, step, furthest, published,
    request,        \* the request behind busy
    stray,          \* applies nobody waits for, not handled yet
    promise,        \* history: what was open on the page when live was sent
    unseen,         \* history: live was set since loading read it, and the
                    \* page was not told
    edits, requests, mounts     \* counters

page == <<loading, current, cand, excluded, disabledTools, step, furthest, published>>
vars == <<live, page, request, stray, promise, unseen, edits, requests, mounts>>

Steps == 0 .. 4

Idle == [kind |-> "none"]       \* busy is off

-----------------------------------------------------------------------------
(* The candidate.                                                          *)

FieldsOf(m) == UNION {{e} \X DOMAIN m.entities[e].fields : e \in DOMAIN m.entities}

Columns(m, fields) == {Column(m, ef) : ef \in fields}

\* The fields and tools the page shows as open.
OnPage == [columns |-> Columns(cand, FieldsOf(cand) \ excluded),
           tools   |-> ToolNames(cand) \ disabledTools]

\* assemble: closed fields and tools go, and queries with nothing to select.
Open(t) == {f \in t.select : <<t.entity, f>> \notin excluded}

KeptWhenEmpty(tools) == {t \in tools : t.name \notin disabledTools}
Kept(tools) == {t \in tools : /\ t.name \notin disabledTools
                              /\ t.kind = "query" => Open(t) # {}}

Assemble(m) ==
    [entities |->
        [e \in DOMAIN m.entities |->
            [table  |-> m.entities[e].table,
             fields |-> Restrict(m.entities[e].fields,
                                 {f \in DOMAIN m.entities[e].fields : <<e, f>> \notin excluded})]],
     tools |->
        {IF t.kind = "query" THEN [t EXCEPT !.select = Open(t)] ELSE t : t \in Kept(m.tools)}]

\* addTable: entities of a suggestion replace those of the same key, tools
\* are added unless their name is taken.
EveryTool(m, s) == s.tools
NewTools(m, s) == {t \in s.tools : t.name \notin ToolNames(m)}

Merge(m, s) ==
    [entities |-> [e \in DOMAIN s.entities \cup DOMAIN m.entities |->
                        IF e \in DOMAIN s.entities THEN s.entities[e] ELSE m.entities[e]],
     tools    |-> m.tools \cup NewTools(m, s)]

\* runAdvise: an empty expression changes nothing.
SaidEvenNothing(advice, column) ==
    {a.expression : a \in {a \in advice : <<a.table, a.column>> = column}}
Said(advice, column) ==
    {a.expression : a \in {a \in advice : <<a.table, a.column>> = column}} \ {""}

TakenUp(field, said) ==
    IF said = {} THEN field ELSE [field EXCEPT !.expression = CHOOSE x \in said : TRUE]

Advised(m, advice) ==
    [entities |->
        [e \in DOMAIN m.entities |->
            [table  |-> m.entities[e].table,
             fields |-> [f \in DOMAIN m.entities[e].fields |->
                TakenUp(m.entities[e].fields[f], Said(advice, Column(m, <<e, f>>)))]]],
     tools |-> m.tools]

-----------------------------------------------------------------------------
(* Opening the wizard.                                                     *)

Init ==
    /\ live \in Initial
    /\ loading = [state |-> "sent"] /\ current = None /\ cand = None
    /\ excluded = {} /\ disabledTools = {}
    /\ step = 0 /\ furthest = 0 /\ published = FALSE
    /\ request = Idle /\ stray = {}
    /\ promise = [columns |-> Exposed(live), tools |-> ToolNames(live)]
    /\ unseen = FALSE
    /\ edits = 0 /\ requests = 0 /\ mounts = 1

\* onboardExport reads the live manifest.
ExportServed ==
    /\ loading.state = "sent"
    /\ loading' = [state |-> "read", m |-> live] /\ unseen' = FALSE
    /\ UNCHANGED <<live, current, cand, excluded, disabledTools, step, furthest,
                   published, request, stray, promise, edits, requests, mounts>>

ExportAnswered ==
    /\ loading.state = "read"
    /\ loading' = [state |-> "done"]
    /\ current' = loading.m /\ cand' = loading.m
    /\ UNCHANGED <<live, excluded, disabledTools, step, furthest, published,
                   request, stray, promise, unseen, edits, requests, mounts>>

\* Whatever the error, the wizard goes on with an empty candidate.
ExportFailed ==
    /\ loading.state # "done"
    /\ loading' = [state |-> "done"] /\ current' = None
    /\ cand' = [entities |-> <<>>, tools |-> {}]
    /\ UNCHANGED <<live, excluded, disabledTools, step, furthest, published,
                   request, stray, promise, unseen, edits, requests, mounts>>

-----------------------------------------------------------------------------
(* Walking through the steps.                                              *)

Shown(i) == step = i /\ cand # None

GoTo(i) ==
    /\ step' = i
    /\ furthest' = Max({furthest, i})
    /\ UNCHANGED <<live, loading, current, cand, excluded, disabledTools, published,
                   request, stray, promise, unseen, edits, requests, mounts>>

\* Devam; the database is connected.
Forward ==
    /\ step < 4
    /\ step = 1 => cand # None /\ DOMAIN cand.entities # {}
    /\ step = 2 => cand # None
    /\ GoTo(step + 1)

\* The stepper and Geri.
Jump == \E i \in 0 .. furthest : i # step /\ GoTo(i)

-----------------------------------------------------------------------------
(* Edits.  None waits for a request that runs.                             *)

Edit ==
    /\ edits + requests < MaxDeeds /\ edits' = edits + 1
    /\ UNCHANGED <<live, loading, current, step, furthest, published, request,
                   stray, promise, unseen, requests, mounts>>

removeEntity(e) ==
    /\ Shown(1) /\ Edit
    /\ cand' = [entities |-> Restrict(cand.entities, DOMAIN cand.entities \ {e}),
                tools    |-> {t \in cand.tools : t.entity # e}]
    /\ UNCHANGED <<excluded, disabledTools>>

setExpr(e, f, expression) ==
    /\ Shown(1) /\ Edit
    /\ <<e, f>> \notin excluded
    /\ cand' = [cand EXCEPT !.entities[e].fields[f].expression = expression]
    /\ cand' # cand
    /\ UNCHANGED <<excluded, disabledTools>>

toggleField(e, f) ==
    /\ Shown(1) /\ Edit
    /\ excluded' = SymDiff(excluded, {<<e, f>>})
    /\ UNCHANGED <<cand, disabledTools>>

toggleTool(name) ==
    /\ Shown(2) /\ Edit
    /\ disabledTools' = SymDiff(disabledTools, {name})
    /\ UNCHANGED <<cand, excluded>>

Edits ==
    /\ cand # None
    /\ \/ \E e \in DOMAIN cand.entities : removeEntity(e)
       \/ \E ef \in FieldsOf(cand) : \/ toggleField(ef[1], ef[2])
                                     \/ \E x \in Expression : setExpr(ef[1], ef[2], x)
       \/ \E name \in ToolNames(cand) : toggleTool(name)

-----------------------------------------------------------------------------
(* Requests.                                                               *)

Send(r) ==
    /\ request = Idle                                   \* not busy
    /\ edits + requests < MaxDeeds /\ requests' = requests + 1
    /\ request' = r
    /\ UNCHANGED <<live, loading, current, cand, excluded, disabledTools, step, furthest,
                   published, stray, promise, unseen, edits, mounts>>

\* Ekle: offered for a table no entity of the candidate reads.
addTable(table) ==
    /\ Shown(1)
    /\ \A e \in DOMAIN cand.entities : cand.entities[e].table # table
    /\ Send([kind |-> "suggest", table |-> table])

runAdvise == Shown(1) /\ Send([kind |-> "advise"])

publishCandidate ==
    /\ Shown(4) /\ ~published
    /\ Send([kind |-> "apply", state |-> "sent", m |-> cand, open |-> OnPage])
publish ==
    /\ Shown(4) /\ ~published
    /\ Send([kind |-> "apply", state |-> "sent", m |-> Assemble(cand), open |-> OnPage])

\* The answer is taken up by the candidate as it is by then.
CandidateAnswered(answered) ==
    /\ request' = Idle
    /\ cand' = answered
    /\ UNCHANGED <<live, loading, current, excluded, disabledTools, step, furthest,
                   published, stray, promise, unseen, edits, requests, mounts>>

TableAdded ==
    /\ request.kind = "suggest"
    /\ CandidateAnswered(Merge(cand, Suggest({request.table})))

AdviceTaken ==
    /\ request.kind = "advise"
    /\ \E advice \in Advice : CandidateAnswered(Advised(cand, advice))

\* Introspect, the assistant, Validate or the save failed, or no answer came.
Failed ==
    /\ request # Idle
    /\ request.kind = "apply" => request.state = "sent"
    /\ CandidateAnswered(cand)

\* onboardApply: validated, saved and made live.
SetLive(m, open) == Validate(m) /\ live' = m /\ promise' = open

Applied ==
    /\ request.kind = "apply" /\ request.state = "sent"
    /\ SetLive(request.m, request.open)
    /\ request' = [request EXCEPT !.state = "live"]
    /\ UNCHANGED <<page, stray, unseen, edits, requests, mounts>>

\* setCurrent takes the manifest of the click, not that of the moment.
SentLate == Assemble(cand)
Sent == request.m

Published ==
    /\ request.kind = "apply" /\ request.state = "live"
    /\ request' = Idle
    /\ published' = TRUE /\ current' = Sent
    /\ UNCHANGED <<live, loading, cand, excluded, disabledTools, step, furthest, stray,
                   promise, unseen, edits, requests, mounts>>

\* The connection breaks: the page shows an error, whatever the agent does.
AnswerLost ==
    /\ request.kind = "apply"
    /\ request' = Idle
    /\ \/ request.state = "sent" /\ stray' = stray \cup {request} /\ UNCHANGED unseen
       \/ request.state = "live" /\ unseen' = TRUE /\ UNCHANGED stray
    /\ UNCHANGED <<live, page, promise, edits, requests, mounts>>

StrayApplied ==
    /\ \E r \in stray : SetLive(r.m, r.open) /\ stray' = stray \ {r}
    /\ unseen' = TRUE
    /\ UNCHANGED <<page, request, edits, requests, mounts>>

\* The page is left, by Bitir or otherwise, and opened again.
Reopen ==
    /\ mounts < MaxMounts /\ mounts' = mounts + 1
    /\ loading' = [state |-> "sent"] /\ current' = None /\ cand' = None
    /\ excluded' = {} /\ disabledTools' = {}
    /\ step' = 0 /\ furthest' = 0 /\ published' = FALSE
    /\ request' = Idle
    /\ stray' = IF request.kind = "apply" /\ request.state = "sent"
                THEN stray \cup {request} ELSE stray
    /\ UNCHANGED <<live, promise, unseen, edits, requests>>

Next ==
    \/ ExportServed \/ ExportAnswered \/ ExportFailed
    \/ Forward \/ Jump
    \/ Edits
    \/ \E table \in Table : addTable(table.id)
    \/ runAdvise \/ publish
    \/ TableAdded \/ AdviceTaken \/ Failed
    \/ Applied \/ Published \/ AnswerLost \/ StrayApplied
    \/ Reopen

Spec == Init /\ [][Next]_vars

-----------------------------------------------------------------------------
(* Properties.                                                             *)

IsApply(r) ==
    /\ r \in [kind : {"apply"}, state : {"sent", "live"}, m : {r.m}, open : {r.open}]
    /\ WellFormed(r.m)

\* Every manifest on its way is well formed, its tools told apart by their
\* names; what runs behind busy is one of the three requests.
TypeOK ==
    /\ WellFormed(live)
    /\ loading.state \in {"sent", "read", "done"}
    /\ loading.state = "read" => WellFormed(loading.m)
    /\ cand # None => WellFormed(cand)
    /\ current # None => WellFormed(current)
    /\ step \in Steps /\ furthest \in step .. 4
    /\ published \in BOOLEAN /\ unseen \in BOOLEAN
    /\ \/ request = Idle
       \/ request.kind = "suggest" /\ request.table \in STRING
       \/ request.kind = "advise"
       \/ IsApply(request)
    /\ \A r \in stray : IsApply(r) /\ r.state = "sent"
    /\ edits \in Nat

\* Every table with columns has one entity and every column one field, under
\* keys that are all different, whichever tables are chosen, and the result
\* is valid (generate.go:6); a lone suggestion exposes what its table has.
SuggestionIsExact ==
    request.kind = "suggest" =>
        \A tables \in {{request.table}, {}} :
            LET m == Suggest(tables)
                chosen == {t \in Table : t.columns # <<>> /\ (tables = {} \/ t.id \in tables)}
            IN  /\ chosen # {} => Validate(m)
                /\ Cardinality(DOMAIN m.entities) = Cardinality(chosen)
                /\ Columns(m, FieldsOf(m)) = UNION {{t.id} \X {c.name : c \in ToSet(t.columns)} : t \in chosen}
                /\ Exposed(m) = Columns(m, FieldsOf(m))

\* What the agent serves was open on the page when Yayina al was clicked:
\* Wizard.tsx says of what is closed that it can never be reached.
OnlyOpenedIsServed ==
    /\ Exposed(live) \subseteq promise.columns
    /\ ToolNames(live) \subseteq promise.tools

\* The columns some field lets be read: expression.Apply returns a value as it
\* is for an empty expression, and for a format that does not fit it.
Bare(m) ==
    Columns(m, {ef \in FieldsOf(m) : m.entities[ef[1]].fields[ef[2]].expression \notin Mask})
Unmasked == (Bare(cand') \cap Columns(cand, FieldsOf(cand))) \ Bare(cand)

\* A column of the candidate that was masked stays so, however late the answers
\* come and whatever was edited meanwhile: a table that is added never takes
\* the mask of another off, and the assistant's answer only where it names, for
\* that very column, something that is no mask (a format, Wizard.tsx:181).
UnmaskedOnlyByName ==
    [][ edits' = edits /\ cand # None /\ cand' # None =>
            \/ Unmasked = {}
            \/ \E advice \in Advice :
                /\ cand' = Advised(cand, advice)
                /\ \A c \in Unmasked : \E a \in advice :
                    <<a.table, a.column>> = c /\ a.expression \notin Mask \cup {""} ]_vars

\* The review compares with what is really live: an answered publish leaves
\* the page and the agent agreed, whatever was edited meanwhile.  Excepted are
\* applies whose answer the page never saw.
DiffIsTrue ==
    /\ current # None /\ ~unseen
    /\ ~(request.kind = "apply" /\ request.state = "live")
    => current = live

\* Assembling a valid candidate gives a valid manifest (Wizard.tsx:199) unless
\* all its tools went or one names a closed field other than to return it: in
\* a filter, or in the select of a count.
AssembleIsValid ==
    LET m == Assemble(cand)
    IN  cand # None /\ Validate(cand) =>
            \/ Validate(m)
            \/ m.tools = {}
            \/ \E t \in m.tools : \E f \in t.select \cup t.filters : <<t.entity, f>> \in excluded
=============================================================================
