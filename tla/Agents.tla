------------------------------- MODULE Agents -------------------------------
(***************************************************************************)
(* The life of the agent processes that the tray starts (runServe in       *)
(* main.go), as many at a time as OneChild allows: their two listeners,    *)
(* their tunnel (internal/tunnel, an frpc process or frp's client in the   *)
(* agent) and their orderly end on a signal.  Outside are the ports of the *)
(* machine and the edge (frps), which gives the tunnel's slot to one       *)
(* session and refuses the others.                                         *)
(*                                                                         *)
(* A killed agent runs on until it dies.  Its ports are free then, and its *)
(* frpc process stays behind: it keeps the slot, or goes on trying for it. *)
(* What frpc prints is read at once; the pipe and its lines are left out.  *)
(***************************************************************************)
EXTENDS Naturals

CONSTANTS
    Child,                          \* names of agent processes
    Free, Ghost, Other, Orphan,     \* the slot: free, held by a session whose end the
                                    \* edge has not noticed, by another machine, by an
                                    \* frpc whose agent is gone
    MaxKills, MaxTroubles           \* bounds

ASSUME SlotAssumption == {Free, Ghost, Other, Orphan} \cap Child = {}
ASSUME BoundsAssumption == {MaxKills, MaxTroubles} \subseteq Nat

Port == {"upstream", "web"}

VARIABLES
    running, dying, closed,     \* OneChild
    mode,       \* MASHA_TUNNEL_MODE
    config,     \* MASHA_FRPC_CONFIG: "none", "bad" (missing or invalid), "good"
    pc,         \* per agent: runServe
    done,       \* ctx is done
    listener,   \* per agent and port: its `go serve`
    client,     \* the frpc process, or svr.Run
    state,      \* SidecarFrpc.state, or what EmbeddedFrpc knows: loadErr, the phase
    slot,       \* the edge: who holds the slot
    orphan,     \* an frpc is alive whose agent is gone
    kills, troubles     \* counters

OC == INSTANCE OneChild
children == <<running, dying, closed>>
settings == <<mode, config>>
agent == <<pc, done, listener, client, state>>
edge == <<slot, orphan>>
vars == <<children, settings, agent, edge, kills, troubles>>

Init ==
    /\ OC!Init
    /\ mode \in {"sidecar", "embed"} /\ config \in {"none", "bad", "good"}
    /\ pc = [a \in Child |-> "none"] /\ done = [a \in Child |-> FALSE]
    /\ listener = [a \in Child |-> [p \in Port |-> "none"]]
    /\ client = [a \in Child |-> "none"]
    /\ state = [a \in Child |-> "connecting"]
    /\ slot = Free /\ orphan = FALSE
    /\ kills = 0 /\ troubles = 0

Alive(a) == a \in running \cup dying
Trouble == troubles < MaxTroubles /\ troubles' = troubles + 1
Set(f, a, v) == [f EXCEPT ![a] = v]
Bound(p) == \E a \in Child : listener[a][p] = "bound"

-----------------------------------------------------------------------------
(* Birth and death.                                                        *)

Start(a) ==
    /\ OC!Birth(a)
    /\ pc' = Set(pc, a, "boot") /\ done' = Set(done, a, FALSE)
    /\ state' = Set(state, a, "connecting")
    /\ UNCHANGED <<settings, listener, client, edge, kills, troubles>>

\* The process is gone: the system closes its sockets; frp's client in it is
\* gone too, an frpc process is not.
GonePortsKept(a) ==
    /\ pc' = Set(pc, a, "none")
    /\ client' = Set(client, a, "none")
    /\ slot' = IF slot = a THEN Ghost ELSE slot
    /\ UNCHANGED <<settings, listener, done, state, orphan>>
Gone(a) ==
    /\ pc' = Set(pc, a, "none")
    /\ listener' = Set(listener, a, [p \in Port |-> "none"])
    /\ client' = Set(client, a, "none")
    /\ orphan' = (orphan \/ (mode = "sidecar" /\ client[a] = "alive"))
    /\ slot' = IF slot # a THEN slot
               ELSE IF mode = "sidecar" /\ client[a] = "alive" THEN Orphan ELSE Ghost
    /\ UNCHANGED <<settings, done, state>>

\* The tray's Restart, or its end.
Kill(a) ==
    /\ OC!Kill(a)
    /\ kills < MaxKills /\ kills' = kills + 1
    /\ UNCHANGED <<settings, agent, edge, troubles>>
Dies(a) == OC!Dies(a) /\ Gone(a) /\ UNCHANGED <<kills, troubles>>

\* The agent exits, for whatever reason; a killed one may be about to.
Exit(a) == (OC!Ends(a) \/ OC!Dies(a)) /\ Gone(a)

Crash(a) == Trouble /\ Exit(a) /\ UNCHANGED kills

TrayCloses == OC!Close /\ UNCHANGED <<settings, agent, edge, kills, troubles>>

\* SIGINT or SIGTERM, by whoever sends it; before NotifyContext it is a crash.
Signal(a) ==
    /\ Alive(a) /\ pc[a] \notin {"none", "boot"} /\ ~done[a]
    /\ Trouble
    /\ done' = Set(done, a, TRUE)
    /\ UNCHANGED <<children, settings, pc, listener, client, state, edge, kills>>

-----------------------------------------------------------------------------
(* runServe.                                                               *)

quiet == <<children, settings, kills, troubles>>

\* Up to the two `go serve`.
Boot(a) ==
    /\ Alive(a) /\ pc[a] = "boot"
    /\ pc' = Set(pc, a, "tunnel")
    /\ listener' = Set(listener, a, [p \in Port |-> "starting"])
    /\ UNCHANGED <<quiet, done, client, state, edge>>

\* ListenAndServe: bound, or ErrServerClosed after a Shutdown, or log.Fatalf.
BindFailureLogged(a, p) ==
    /\ Alive(a) /\ listener[a][p] = "starting"
    /\ listener' = [listener EXCEPT ![a][p] = IF Bound(p) THEN "closed" ELSE "bound"]
    /\ UNCHANGED <<quiet, pc, done, client, state, edge>>
Listen(a, p) ==
    /\ Alive(a) /\ listener[a][p] = "starting"
    /\ IF Bound(p)
         THEN Exit(a) /\ UNCHANGED <<kills, troubles>>
         ELSE /\ listener' = [listener EXCEPT ![a][p] = "bound"]
              /\ UNCHANGED <<quiet, pc, done, client, state, edge>>

\* tun.Start: its errors are warnings, and leave the embedded client's loadErr.
StartTunnel(a) ==
    /\ Alive(a) /\ pc[a] = "tunnel"
    /\ pc' = Set(pc, a, "ready")
    /\ client' = IF config = "good" /\ (mode = "embed" \/ ~done[a])
                   THEN Set(client, a, "alive") ELSE client
    /\ state' = IF config = "bad" /\ mode = "embed" THEN Set(state, a, "error") ELSE state
    /\ UNCHANGED <<quiet, done, listener, edge>>

\* <-ctx.Done, then Shutdown of one server after the other.
StopPort(p, from, to, a) ==
    /\ Alive(a) /\ pc[a] = from /\ done[a]
    /\ pc' = Set(pc, a, to)
    /\ listener' = [listener EXCEPT ![a][p] = "closed"]
    /\ UNCHANGED <<quiet, done, client, state, edge>>
StopUpstream(a) == StopPort("upstream", "ready", "stopWeb", a)
StopWeb(a) == StopPort("web", "stopWeb", "stopTunnel", a)

\* An frpc that is killed is gone at once for the slot's sake; its session is
\* closed by the system, that of frp's client by its Close.
EndClient(a, c) ==
    /\ client' = Set(client, a, c)
    /\ slot' = IF slot = a THEN Ghost ELSE slot
    /\ UNCHANGED orphan

\* CommandContext and svr.Run watch ctx themselves.
ContextEndsClient(a) ==
    /\ Alive(a) /\ done[a] /\ client[a] = "alive"
    /\ EndClient(a, "ended")
    /\ state' = IF mode = "embed" THEN Set(state, a, "off") ELSE state
    /\ UNCHANGED <<quiet, pc, done, listener>>

\* tun.Stop, the last statement before the process ends.
StopTunnelNot(a) ==
    /\ Alive(a) /\ pc[a] = "stopTunnel"
    /\ pc' = Set(pc, a, "end")
    /\ UNCHANGED <<quiet, client, edge, done, listener, state>>
StopTunnel(a) ==
    /\ Alive(a) /\ pc[a] = "stopTunnel"
    /\ pc' = Set(pc, a, "end")
    /\ IF client[a] = "alive" THEN EndClient(a, "ended") ELSE UNCHANGED <<client, edge>>
    /\ UNCHANGED <<quiet, done, listener, state>>
End(a) == pc[a] = "end" /\ Exit(a) /\ UNCHANGED <<kills, troubles>>

-----------------------------------------------------------------------------
(* The tunnel's client and the edge.                                       *)

\* "start proxy success" or "already exists" (inspectLine); the phase running
\* or start error (mapPhase).
SuccessIgnored(a) ==
    /\ client[a] = "alive" /\ slot = Free
    /\ slot' = a /\ state' = IF state[a] = "conflict" THEN state ELSE Set(state, a, "connected")
Success(a) ==
    /\ client[a] = "alive" /\ slot = Free
    /\ slot' = a /\ state' = Set(state, a, "connected")
Refusal(a) ==
    /\ client[a] = "alive" /\ slot \notin {Free, a}
    /\ state' = Set(state, a, "conflict") /\ UNCHANGED slot
Try(a) ==
    /\ Success(a) \/ Refusal(a)
    /\ UNCHANGED <<quiet, pc, done, listener, client, orphan>>

\* The connection breaks; the client tries again.  No line tells the sidecar.
Break(a) ==
    /\ slot = a /\ slot' = Ghost /\ Trouble
    /\ state' = IF mode = "embed" THEN Set(state, a, "connecting") ELSE state
    /\ UNCHANGED <<children, settings, pc, done, listener, client, orphan, kills>>

\* frpc exits, or svr.Run cannot log in; nobody waits for it, or starts it again.
ClientEnds(a) ==
    /\ client[a] = "alive" /\ (mode = "sidecar" \/ state[a] = "connecting")
    /\ Trouble
    /\ EndClient(a, "ended")
    /\ UNCHANGED <<children, settings, pc, done, listener, state, kills>>

\* The edge notices that a session is gone.
DropGhost == slot = Ghost /\ slot' = Free /\ UNCHANGED <<quiet, agent, orphan>>

\* Another machine takes the slot and leaves it.
OtherMachine ==
    /\ \/ slot = Free /\ slot' = Other /\ Trouble
       \/ slot = Other /\ slot' = Free /\ UNCHANGED troubles
    /\ UNCHANGED <<children, settings, agent, orphan, kills>>

\* An frpc without agent takes the slot; the last of them ends, or another.
OrphanStep ==
    /\ orphan
    /\ \/ slot = Free /\ slot' = Orphan /\ UNCHANGED orphan
       \/ orphan' \in BOOLEAN /\ slot' = (IF slot = Orphan THEN Ghost ELSE slot)
    /\ UNCHANGED <<quiet, agent>>

-----------------------------------------------------------------------------
RunServe(a) ==
    Boot(a) \/ StartTunnel(a) \/ StopUpstream(a) \/ StopWeb(a) \/ StopTunnel(a) \/ End(a)
Work(a) == RunServe(a) \/ ContextEndsClient(a) \/ \E p \in Port : Listen(a, p)

Next ==
    \/ \E a \in Child :
        \/ Start(a) \/ Work(a) \/ Dies(a) \/ Try(a)
        \/ Kill(a) \/ Crash(a) \/ Signal(a) \/ Break(a) \/ ClientEnds(a)
    \/ TrayCloses \/ DropGhost \/ OtherMachine \/ OrphanStep

Spec == Init /\ [][Next]_vars

\* OneChild gives birth and lets the killed die, threads run, frpc tries again
\* and again, the edge notices.  Nobody has to kill, and orphans need not end.
Fairness ==
    /\ WF_vars(\E a \in Child : Start(a))
    /\ \A a \in Child :
        /\ WF_vars(RunServe(a)) /\ WF_vars(Dies(a)) /\ WF_vars(Try(a))
        /\ \A p \in Port : WF_vars(Listen(a, p))
    /\ WF_vars(DropGhost)

FairSpec == Spec /\ Fairness

-----------------------------------------------------------------------------
(* Properties.                                                             *)

\* What /healthz and the panel show of the tunnel (Status of either client).
Status(a) == IF config = "none" THEN "off" ELSE state[a]

\* Every variable has its type, and a name without a process holds nothing.
TypeOK ==
    /\ running \subseteq Child /\ dying \subseteq Child /\ closed \in BOOLEAN
    /\ mode \in {"sidecar", "embed"} /\ config \in {"none", "bad", "good"}
    /\ pc \in [Child -> {"none", "boot", "tunnel", "ready", "stopWeb", "stopTunnel", "end"}]
    /\ done \in [Child -> BOOLEAN]
    /\ listener \in [Child -> [Port -> {"none", "starting", "bound", "closed"}]]
    /\ client \in [Child -> {"none", "alive", "ended"}]
    /\ state \in [Child -> {"connecting", "connected", "conflict", "error", "off"}]
    /\ slot \in Child \cup {Free, Ghost, Other, Orphan} /\ orphan \in BOOLEAN
    /\ kills \in 0 .. MaxKills /\ troubles \in 0 .. MaxTroubles
    /\ \A a \in Child \ (running \cup dying) :
        pc[a] = "none" /\ client[a] = "none" /\ slot # a /\ \A p \in Port : listener[a][p] = "none"

\* The agent that Restart starts may find the ports of the killed one taken,
\* and log.Fatalf ends it; another follows, and at last one serves on both
\* ports for good, if nobody kills it and the tray stays open.
Serves(a) == a \in running /\ pc[a] = "ready" /\ \A p \in Port : listener[a][p] = "bound"
ServesAtLast == <>[](closed \/ \E a \in Child : Serves(a))

\* A conflict is not shown for good over a slot that nobody else holds: the
\* success that follows clears it (tunnel.go:71).
ConflictClears ==
    \A a \in Child :
        (Status(a) = "conflict" /\ slot \in {Free, Ghost})
            ~> \/ Status(a) # "conflict" \/ client[a] # "alive" \/ slot \in {Other, Orphan}

\* An agent that ends in order, on a signal, leaves no frpc behind and no port
\* bound; only a kill, a crash or log.Fatalf does (main.go:406-410).
EndIsTidy ==
    \A a \in Child : pc[a] = "end" =>
        client[a] # "alive" /\ \A p \in Port : listener[a][p] = "closed"
=============================================================================
