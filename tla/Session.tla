------------------------------- MODULE Session -------------------------------
(***************************************************************************)
(* Logging in to the local panel: the sessions of the agent                *)
(* (internal/webui/auth.go) and the page that holds a token                *)
(* (web/src: lib/api.ts, App.tsx, components/Login.tsx).                   *)
(*                                                                         *)
(* Requests of a page run side by side and are answered in any order.      *)
(* Every refused one drops the page's token, whichever token it was sent   *)
(* with; only the health check of every ten seconds brings the login back. *)
(***************************************************************************)
EXTENDS Naturals, FiniteSets

CONSTANTS
    Token,          \* random session tokens; bounds the logins
    Tick,           \* places for health checks on their way
    Call,           \* places for the other requests of the page
    Nothing,
    MaxLost,        \* bound: requests that get no answer
    MaxRestarts,    \* bound: restarts of the agent
    MaxReloads      \* bound: reloads of the page

ASSUME SessionAssumption ==
    /\ Nothing \notin Token
    /\ Tick \cap Call = {}
    /\ MaxLost \in Nat /\ MaxRestarts \in Nat /\ MaxReloads \in Nat

Place == Tick \cup Call

VARIABLES
    auth,           \* a password is set (newAuth)
    sessions,       \* auth.sessions: "none", "valid", "expired" of each token
    issued,         \* tokens drawn so far
    authRequired,   \* App: "unknown", "yes", "no"
    authed,         \* App
    authToken,      \* api.ts, and sessionStorage
    inFlight,       \* the request at each place
    lost, restarts, reloads     \* counters

server == <<auth, sessions, issued>>
app == <<authRequired, authed, authToken>>
counters == <<lost, restarts, reloads>>
sessionVars == <<server, app, inFlight, counters>>

Request ==
    [kind : {"status", "health", "other", "login", "wrong"},
     token : Token \cup {Nothing},
     answer : {"none", "ok", "yes", "no", "401", "error"}]

\* What App renders.
Screen == CASE authRequired = "unknown"            -> "blank"
            [] authRequired = "yes" /\ ~authed     -> "login"
            [] OTHER                               -> "main"

SentTo(p, kind) == [inFlight EXCEPT ![p] = [kind |-> kind, token |-> authToken, answer |-> "none"]]

\* A page just loaded asks whether it must log in.
Loaded(p) ==
    /\ authRequired' = "unknown" /\ authed' = FALSE
    /\ inFlight' = [q \in Place |->
            IF q = p THEN [kind |-> "status", token |-> authToken, answer |-> "none"] ELSE Nothing]

SessionInit ==
    /\ auth \in BOOLEAN
    /\ sessions = [t \in Token |-> "none"] /\ issued = {}
    /\ authRequired = "unknown" /\ authed = FALSE /\ authToken = Nothing
    /\ \E p \in Call : inFlight = [q \in Place |->
            IF q = p THEN [kind |-> "status", token |-> Nothing, answer |-> "none"] ELSE Nothing]
    /\ lost = 0 /\ restarts = 0 /\ reloads = 0

-----------------------------------------------------------------------------
(* The agent.                                                              *)

\* valid: an expired session is deleted when it is met.
Valid(token) == token # Nothing /\ sessions[token] = "valid"

AfterValid(token) ==
    IF token # Nothing /\ sessions[token] = "expired"
    THEN [sessions EXCEPT ![token] = "none"] ELSE sessions

gated(p) ==
    /\ inFlight[p].kind \in {"health", "other"}
    /\ sessions' = IF auth THEN AfterValid(inFlight[p].token) ELSE sessions
    /\ inFlight' = [inFlight EXCEPT ![p].answer =
                        IF auth /\ ~Valid(inFlight[p].token) THEN "401" ELSE "ok"]
    /\ UNCHANGED <<auth, issued>>

authStatus(p) ==
    /\ inFlight[p].kind = "status"
    /\ inFlight' = [inFlight EXCEPT ![p].answer = IF auth THEN "yes" ELSE "no"]
    /\ UNCHANGED server

\* gcLocked
Collected(s) == [t \in Token |-> IF s[t] = "expired" THEN "none" ELSE s[t]]

login(p) ==
    /\ inFlight[p].kind = "login"
    /\ \/ /\ ~auth
          /\ inFlight' = [inFlight EXCEPT ![p].answer = "error"]
          /\ UNCHANGED server
       \/ /\ auth
          /\ \E t \in Token \ issued :
                /\ issued' = issued \cup {t}
                /\ sessions' = Collected([sessions EXCEPT ![t] = "valid"])
                /\ inFlight' = [inFlight EXCEPT ![p].answer = "ok", ![p].token = t]
          /\ UNCHANGED auth

wrongPassword(p) ==
    /\ inFlight[p].kind = "wrong"
    /\ inFlight' = [inFlight EXCEPT ![p].answer = IF auth THEN "401" ELSE "error"]
    /\ UNCHANGED server

Serve(p) ==
    /\ inFlight[p] # Nothing /\ inFlight[p].answer = "none"
    /\ gated(p) \/ authStatus(p) \/ login(p) \/ wrongPassword(p)
    /\ UNCHANGED <<app, counters>>

\* sessionTTL passes.
Expire(t) ==
    /\ sessions[t] = "valid"
    /\ sessions' = [sessions EXCEPT ![t] = "expired"]
    /\ UNCHANGED <<auth, issued, app, inFlight, counters>>

\* Sessions live in the agent's memory; requests it had not answered fail.  The
\* password is read at every start.
Restart ==
    /\ restarts < MaxRestarts /\ restarts' = restarts + 1
    /\ auth' \in BOOLEAN
    /\ sessions' = [t \in Token |-> "none"]
    /\ inFlight' = [p \in Place |-> IF inFlight[p] # Nothing /\ inFlight[p].answer = "none"
                                    THEN [inFlight[p] EXCEPT !.answer = "error"] ELSE inFlight[p]]
    /\ UNCHANGED <<issued, app, lost, reloads>>

Lose(p) ==
    /\ inFlight[p] # Nothing /\ inFlight[p].answer # "error"
    /\ lost < MaxLost /\ lost' = lost + 1
    /\ inFlight' = [inFlight EXCEPT ![p].answer = "error"]
    /\ UNCHANGED <<server, app, restarts, reloads>>

-----------------------------------------------------------------------------
(* The page.                                                               *)

Requested(p, kind) ==
    /\ inFlight[p] = Nothing
    /\ inFlight' = SentTo(p, kind)
    /\ UNCHANGED <<server, app, counters>>

\* setInterval, while the effect of authed is mounted.
tick == authed /\ \E p \in Tick : Requested(p, "health")

Operate == Screen = "main" /\ \E p \in Call : Requested(p, "other")

submit ==
    /\ Screen = "login"
    /\ \A p \in Place : inFlight[p] # Nothing => inFlight[p].kind \notin {"login", "wrong"}
    /\ \E p \in Call, kind \in {"login", "wrong"} :
            Requested(p, kind) /\ (kind = "login" => issued # Token)

\* j: any 401 drops the token there is now.
TokenAfterError(r) == IF r.answer \in {"401", "error"} THEN Nothing ELSE authToken
TokenAfter(r) == IF r.answer = "401" THEN Nothing ELSE authToken

\* An error counts as a panel without password.
RequiredUncaught(r) == r.answer
Required(r) == IF r.answer = "yes" THEN "yes" ELSE "no"

StatusTaken(r) ==
    /\ r.kind = "status"
    /\ authRequired' = Required(r)
    /\ authed' = (authed \/ r.answer = "no" \/ (r.answer = "yes" /\ authToken # Nothing))
    /\ UNCHANGED authToken

HealthTakenAsOther(r) ==
    /\ r.kind = "health"
    /\ authToken' = TokenAfter(r)
    /\ UNCHANGED <<authRequired, authed>>
HealthTaken(r) ==
    /\ r.kind = "health"
    /\ authToken' = TokenAfter(r)
    /\ authed' = (authed /\ r.answer # "401")
    /\ UNCHANGED authRequired

OtherTaken(r) ==
    /\ r.kind = "other"
    /\ authToken' = TokenAfter(r)
    /\ UNCHANGED <<authRequired, authed>>

\* The login does not go through j: a wrong password drops nothing.
LoginTaken(r) ==
    /\ r.kind \in {"login", "wrong"}
    /\ IF r.answer = "ok" THEN authToken' = r.token /\ authed' = TRUE
                          ELSE UNCHANGED <<authToken, authed>>
    /\ UNCHANGED authRequired

Answered(p) ==
    /\ inFlight[p] # Nothing /\ inFlight[p].answer # "none"
    /\ LET r == inFlight[p]
       IN  StatusTaken(r) \/ HealthTaken(r) \/ OtherTaken(r) \/ LoginTaken(r)
    /\ inFlight' = [inFlight EXCEPT ![p] = Nothing]
    /\ UNCHANGED <<server, counters>>

\* The token survives in sessionStorage.
Reload ==
    /\ reloads < MaxReloads /\ reloads' = reloads + 1
    /\ \E p \in Call : Loaded(p)
    /\ UNCHANGED <<server, authToken, lost, restarts>>

SessionNext ==
    \/ \E p \in Place : Serve(p) \/ Lose(p) \/ Answered(p)
    \/ \E t \in Token : Expire(t)
    \/ Restart
    \/ tick \/ Operate \/ submit
    \/ Reload

Fairness ==
    /\ \A p \in Place : WF_sessionVars(Serve(p)) /\ WF_sessionVars(Answered(p))
    /\ WF_sessionVars(tick)

SessionSpec == SessionInit /\ [][SessionNext]_sessionVars /\ Fairness

-----------------------------------------------------------------------------
(* Properties.                                                             *)

\* Types; only tokens that were handed out have a session, are held by the page
\* or are on their way.
SessionTypeOK ==
    /\ auth \in BOOLEAN /\ authed \in BOOLEAN
    /\ sessions \in [Token -> {"none", "valid", "expired"}]
    /\ authRequired \in {"unknown", "yes", "no"}
    /\ authToken \in issued \cup {Nothing}
    /\ inFlight \in [Place -> Request \cup {Nothing}]
    /\ issued \subseteq Token
    /\ \A t \in Token : sessions[t] # "none" => t \in issued
    /\ \A p \in Place : inFlight[p] # Nothing => inFlight[p].token \in issued \cup {Nothing}

\* A page loses the token of a session that is still valid only to a refusal of
\* a request it had sent with another token (api.ts:164 drops the token there is
\* by then): no lost answer, wrong password, restart or refusal of its own token
\* takes it away, in whichever order the answers come.
OnlyStaleRefusalsLogOut ==
    [][ (/\ authToken # Nothing /\ sessions[authToken] = "valid"
         /\ authToken' = Nothing)
            => \E p \in Place :
                /\ inFlight[p] # Nothing /\ inFlight'[p] = Nothing
                /\ inFlight[p].answer = "401" /\ inFlight[p].token # authToken ]_sessionVars

\* A page that shows the application without a valid session comes back to
\* the login, or has a session again (api.ts:139: on a 401 the token is
\* dropped and App returns to the login).
BackToLogin ==
    auth /\ authRequired = "yes" /\ authed /\ ~Valid(authToken)
        ~> Screen = "login" \/ Valid(authToken) \/ authRequired # "yes" \/ ~auth

=============================================================================
