----------------------------- MODULE Supervisor -----------------------------
(***************************************************************************)
(* The child-process supervisor of `masha-agent tray` (supervisor.go) and  *)
(* the threads of the tray that call it (tray.go).                         *)
(*                                                                         *)
(* Threads.  The main thread calls Start, then blocks in systray.Run; when *)
(* the tray ends it runs onTrayExit and the process exits, taking every    *)
(* goroutine with it.  The menu goroutine serves the clicks Restart and    *)
(* Quit, one at a time.  Each child has a monitor goroutine blocked in     *)
(* cmd.Wait, and each scheduled respawn is a goroutine sleeping for the    *)
(* backoff.                                                                *)
(*                                                                         *)
(* The fields cmd, shuttingDown and generation are only touched with s.mu  *)
(* held, and no lock region waits for another thread, so each region is    *)
(* one action.  Kill is outside the lock, and is its own action.           *)
(***************************************************************************)
EXTENDS Naturals, FiniteSets

CONSTANTS
    Child,          \* names for operating-system processes; a name is used
                    \* again once nothing refers to its dead process
    NoChild,        \* the nil *exec.Cmd
    MaxGeneration   \* bound: generations the tray may start (Start, Restarts)

ASSUME NoChildAssumption == NoChild \notin Child
ASSUME MaxGenerationAssumption == MaxGeneration \in Nat \ {0}

VARIABLES
    cmd,            \* Supervisor.cmd
    shuttingDown,   \* Supervisor.shuttingDown
    generation,     \* Supervisor.generation
    proc,           \* what the operating system knows of each child
    monitor,        \* the goroutine blocked in Wait on each child
    childGen,       \* the `gen` that goroutine captured
    sleeping,       \* per generation, respawn goroutines in time.Sleep
    mainPC, mainGen, mainCmd,   \* main thread: gen of Start, cmd of Shutdown
    menuPC, menuGen, menuCmd    \* menu goroutine: gen and old of Restart,
                                \* cmd of Shutdown

fields   == <<cmd, shuttingDown, generation>>
children == <<proc, monitor, childGen>>
mainVars == <<mainPC, mainGen, mainCmd>>
menuVars == <<menuPC, menuGen, menuCmd>>
vars == <<fields, children, sleeping, mainVars, menuVars>>

Generation == 1 .. MaxGeneration

\* "running" has not been sent a SIGKILL; "killed" has, and has not died yet.
ProcState == {"unborn", "running", "killed", "dead"}

Init ==
    /\ cmd = NoChild /\ shuttingDown = FALSE /\ generation = 0
    /\ proc = [c \in Child |-> "unborn"]
    /\ monitor = [c \in Child |-> "none"]
    /\ childGen = [c \in Child |-> 0]
    /\ sleeping = [g \in Generation |-> 0]
    /\ mainPC = "start" /\ mainGen = 0 /\ mainCmd = NoChild
    /\ menuPC = "notReady" /\ menuGen = 0 /\ menuCmd = NoChild

-----------------------------------------------------------------------------
(* Helpers.                                                                *)

\* Goroutines run until the tray process is gone.
Alive == mainPC # "exited"

\* A name no pointer of the program and no goroutine refers to.
Free(c) ==
    /\ proc[c] \in {"unborn", "dead"}
    /\ monitor[c] = "none"
    /\ c \notin {cmd, mainCmd, menuCmd}

\* Process.Kill: an error, ignored, when the process has ended already.
Kill(c) ==
    proc' = IF c # NoChild /\ proc[c] = "running"
              THEN [proc EXCEPT ![c] = "killed"]
              ELSE proc

\* spawnAndWatch(gen): its lock region, for a caller that leaves the bag of
\* sleeping goroutines as `resting`.
Stale(gen) == shuttingDown \/ gen # generation

SpawnAbandoned(gen, resting) ==
    /\ Stale(gen)
    /\ sleeping' = resting
    /\ UNCHANGED <<fields, children>>

SpawnFailed(gen, resting) ==
    /\ ~Stale(gen)
    /\ sleeping' = [resting EXCEPT ![gen] = @ + 1]
    /\ UNCHANGED <<fields, children>>

SpawnStartedUnchecked(gen, resting) ==
    /\ \E c \in Child :
        /\ Free(c)
        /\ cmd' = c
        /\ proc' = [proc EXCEPT ![c] = "running"]
        /\ monitor' = [monitor EXCEPT ![c] = "waiting"]
        /\ childGen' = [childGen EXCEPT ![c] = gen]
    /\ sleeping' = resting
    /\ UNCHANGED <<shuttingDown, generation>>
SpawnStarted(gen, resting) ==
    /\ ~Stale(gen)
    /\ \E c \in Child :
        /\ Free(c)
        /\ cmd' = c
        /\ proc' = [proc EXCEPT ![c] = "running"]
        /\ monitor' = [monitor EXCEPT ![c] = "waiting"]
        /\ childGen' = [childGen EXCEPT ![c] = gen]
    /\ sleeping' = resting
    /\ UNCHANGED <<shuttingDown, generation>>

SpawnAndWatch(gen, resting) ==
    \/ SpawnAbandoned(gen, resting)
    \/ SpawnFailed(gen, resting)
    \/ SpawnStarted(gen, resting)

-----------------------------------------------------------------------------
(* The main thread: runTray, then onTrayExit.                              *)

StartBegin ==
    /\ mainPC = "start"
    /\ generation' = generation + 1
    /\ mainGen' = generation + 1
    /\ mainPC' = "startSpawn"
    /\ UNCHANGED <<cmd, shuttingDown, mainCmd, children, sleeping, menuVars>>

StartSpawn ==
    /\ mainPC = "startSpawn"
    /\ SpawnAndWatch(mainGen, sleeping)
    /\ mainPC' = "loop"
    /\ UNCHANGED <<mainGen, mainCmd, menuVars>>

\* systray.Run returns: Quit was called, or the desktop closed the tray.
TrayEnds ==
    /\ mainPC = "loop"
    /\ mainPC' = "onExit"
    /\ UNCHANGED <<fields, children, sleeping, mainGen, mainCmd, menuVars>>

\* Shutdown called by onTrayExit: the lock region, then the kill.
ExitShutdown ==
    /\ mainPC = "onExit"
    /\ IF shuttingDown
         THEN mainPC' = "exited" /\ UNCHANGED <<shuttingDown, mainCmd>>
         ELSE mainPC' = "exitKill" /\ shuttingDown' = TRUE /\ mainCmd' = cmd
    /\ UNCHANGED <<cmd, generation, children, sleeping, mainGen, menuVars>>

ExitKillForgotten ==
    /\ mainPC = "exitKill"
    /\ mainPC' = "exited"
    /\ UNCHANGED <<fields, children, sleeping, mainGen, mainCmd, menuVars>>
ExitKill ==
    /\ mainPC = "exitKill"
    /\ Kill(mainCmd)
    /\ mainPC' = "exited"
    /\ UNCHANGED <<fields, monitor, childGen, sleeping, mainGen, mainCmd, menuVars>>

-----------------------------------------------------------------------------
(* The menu goroutine, started by onTrayReady.                             *)

MenuReady ==
    /\ mainPC = "loop" /\ menuPC = "notReady"
    /\ menuPC' = "idle"
    /\ UNCHANGED <<fields, children, sleeping, mainVars, menuGen, menuCmd>>

RestartSameGeneration ==
    /\ Alive /\ menuPC = "idle" /\ ~shuttingDown
    /\ menuCmd' = cmd
    /\ menuGen' = generation
    /\ menuPC' = "restartKill"
    /\ UNCHANGED <<fields, children, sleeping, mainVars>>
RestartBegin ==
    /\ Alive /\ menuPC = "idle" /\ ~shuttingDown
    /\ generation < MaxGeneration
    /\ menuCmd' = cmd
    /\ generation' = generation + 1
    /\ menuGen' = generation + 1
    /\ menuPC' = "restartKill"
    /\ UNCHANGED <<cmd, shuttingDown, children, sleeping, mainVars>>

RestartKill ==
    /\ Alive /\ menuPC = "restartKill"
    /\ Kill(menuCmd)
    /\ menuPC' = "restartSpawn"
    /\ UNCHANGED <<fields, monitor, childGen, sleeping, mainVars, menuGen, menuCmd>>

RestartSpawn ==
    /\ Alive /\ menuPC = "restartSpawn"
    /\ SpawnAndWatch(menuGen, sleeping)
    /\ menuPC' = "idle"
    /\ menuCmd' = NoChild
    /\ UNCHANGED <<mainVars, menuGen>>

\* Quit clicked: Shutdown, then systray.Quit, then the goroutine returns.
QuitShutdown ==
    /\ Alive /\ menuPC = "idle"
    /\ IF shuttingDown
         THEN menuPC' = "quit" /\ UNCHANGED <<shuttingDown, menuCmd>>
         ELSE menuPC' = "quitKill" /\ shuttingDown' = TRUE /\ menuCmd' = cmd
    /\ UNCHANGED <<cmd, generation, children, sleeping, mainVars, menuGen>>

QuitKill ==
    /\ Alive /\ menuPC = "quitKill"
    /\ Kill(menuCmd)
    /\ menuPC' = "quit"
    /\ UNCHANGED <<fields, monitor, childGen, sleeping, mainVars, menuGen, menuCmd>>

-----------------------------------------------------------------------------
(* Children, monitors and respawn goroutines.                              *)

\* A running child ends by itself: crash, fatal configuration error, exit.
ChildCrash(c) ==
    /\ proc[c] = "running"
    /\ proc' = [proc EXCEPT ![c] = "dead"]
    /\ UNCHANGED <<fields, monitor, childGen, sleeping, mainVars, menuVars>>

\* The SIGKILL takes effect.
ChildDies(c) ==
    /\ proc[c] = "killed"
    /\ proc' = [proc EXCEPT ![c] = "dead"]
    /\ UNCHANGED <<fields, monitor, childGen, sleeping, mainVars, menuVars>>

\* cmd.Wait returns: read the flag and the generation, respawn or go away.
MonitorNeverRespawns(c) ==
    /\ Alive
    /\ monitor[c] = "waiting" /\ proc[c] = "dead"
    /\ monitor' = [monitor EXCEPT ![c] = "none"]
    /\ UNCHANGED <<fields, proc, childGen, sleeping, mainVars, menuVars>>
MonitorReturns(c) ==
    /\ Alive
    /\ monitor[c] = "waiting" /\ proc[c] = "dead"
    /\ monitor' = [monitor EXCEPT ![c] = "none"]
    /\ sleeping' = IF Stale(childGen[c])
                     THEN sleeping
                     ELSE [sleeping EXCEPT ![childGen[c]] = @ + 1]
    /\ UNCHANGED <<fields, proc, childGen, mainVars, menuVars>>

\* The sleep of scheduleRespawn ends.
Wake(g) == [sleeping EXCEPT ![g] = @ - 1]

RespawnWakes(g) ==
    /\ Alive /\ sleeping[g] > 0
    /\ SpawnAndWatch(g, Wake(g))
    /\ UNCHANGED <<mainVars, menuVars>>

\* A respawn whose process does start (used by the fairness condition only).
RespawnStarts(g) == RespawnWakes(g) /\ cmd' # cmd

-----------------------------------------------------------------------------
MainStep == StartBegin \/ StartSpawn \/ ExitShutdown \/ ExitKill
MenuStep == MenuReady \/ RestartKill \/ RestartSpawn \/ QuitKill
MenuClick == RestartBegin \/ QuitShutdown
ChildStep(c) == ChildCrash(c) \/ ChildDies(c) \/ MonitorReturns(c)

\* Quit was called, or the desktop decides to: after QuitKill the tray ends.
Next ==
    \/ MainStep \/ TrayEnds \/ MenuStep \/ MenuClick
    \/ \E c \in Child : ChildStep(c)
    \/ \E g \in Generation : RespawnWakes(g)

Spec == Init /\ [][Next]_vars

\* Goroutines are scheduled, a SIGKILL ends a process, systray.Quit ends the
\* tray, and a process that is started again and again starts at last.
\* Nobody has to click, to close the tray or to crash.
Fairness ==
    /\ WF_vars(MainStep)
    /\ WF_vars(MenuStep)
    /\ WF_vars(menuPC = "quit" /\ TrayEnds)
    /\ \A c \in Child : WF_vars(ChildDies(c)) /\ WF_vars(MonitorReturns(c))
    /\ \A g \in Generation : WF_vars(RespawnWakes(g)) /\ SF_vars(RespawnStarts(g))

FairSpec == Spec /\ Fairness

-----------------------------------------------------------------------------
(* Properties.                                                             *)

\* Every variable has its type.
TypeOK ==
    /\ cmd \in Child \cup {NoChild}
    /\ shuttingDown \in BOOLEAN
    /\ generation \in 0 .. MaxGeneration
    /\ proc \in [Child -> ProcState]
    /\ monitor \in [Child -> {"none", "waiting"}]
    /\ childGen \in [Child -> 0 .. MaxGeneration]
    /\ sleeping \in [Generation -> Nat]
    /\ mainPC \in {"start", "startSpawn", "loop", "onExit", "exitKill", "exited"}
    /\ mainGen \in 0 .. MaxGeneration
    /\ mainCmd \in Child \cup {NoChild}
    /\ menuPC \in {"notReady", "idle", "restartKill", "restartSpawn",
                   "quitKill", "quit"}
    /\ menuGen \in 0 .. MaxGeneration
    /\ menuCmd \in Child \cup {NoChild}

\* Threads that hold the right to spawn for generation g: the caller of Start
\* or Restart, the monitor of a child, or a sleeping respawn.
MainHolds(g) == mainPC = "startSpawn" /\ mainGen = g
MenuHolds(g) == menuPC \in {"restartKill", "restartSpawn"} /\ menuGen = g
MonitorHolds(c, g) == monitor[c] = "waiting" /\ childGen[c] = g

\* No double birth (supervisor.go:21-22 and 98-100): at most one of those
\* threads holds the right to spawn for a generation.
OneRespawnChain ==
    \A g \in Generation :
        /\ sleeping[g] <= 1
        /\ MainHolds(g) =>
             /\ ~MenuHolds(g) /\ sleeping[g] = 0
             /\ \A c \in Child : ~MonitorHolds(c, g)
        /\ MenuHolds(g) =>
             sleeping[g] = 0 /\ \A c \in Child : ~MonitorHolds(c, g)
        /\ \A c \in Child : MonitorHolds(c, g) =>
             sleeping[g] = 0 /\ \A d \in Child : MonitorHolds(d, g) => d = c

\* Two children that nobody has killed never run side by side, whatever the
\* order of crashes, respawns, restarts and shutdown, and the one that runs
\* is the one the supervisor knows and can kill.
OneRunningChild == \A c \in Child : proc[c] = "running" => c = cmd

\* The supervisor never loses its child: while the tray is in its loop and
\* not shutting down, some thread holds the right to respawn the current
\* generation, whatever failed.
NeverUnwatched ==
    (mainPC = "loop" /\ ~shuttingDown) =>
        \/ MenuHolds(generation)
        \/ sleeping[generation] > 0
        \/ \E c \in Child : MonitorHolds(c, generation)

\* After Shutdown has returned no child runs.  It has not returned while the
\* menu goroutine or the main thread is between the flag and the kill.
ShutdownKills ==
    (shuttingDown /\ menuPC # "quitKill" /\ mainPC # "exitKill") =>
        \A c \in Child : proc[c] # "running"

\* Once the flag is up no process is ever started: a process is born only
\* into a tray that is alive and not shutting down, even by a respawn that
\* was already past its sleep, and always for the newest generation.
BirthIsCurrent ==
    \A c \in Child :
        (proc[c] # "running" /\ proc'[c] = "running") =>
            Alive /\ ~shuttingDown /\ childGen'[c] = generation
BirthsAreCurrent == [][BirthIsCurrent]_vars

\* To the agents the supervisor is OneChild: whatever its threads do, a birth
\* only follows the death or the kill of the one before and never the flag of
\* Shutdown, there is always another birth, and a kill ends in a death.
AsOneChild == INSTANCE OneChild WITH
    running <- {c \in Child : proc[c] = "running"},
    dying <- {c \in Child : proc[c] = "killed"},
    closed <- shuttingDown
IsOneChild == AsOneChild!FairSpec

\* The child comes back: while the tray stays open a child of the newest
\* generation runs again and again (after a crash, after failed starts, after
\* a Restart).
Serving == \E c \in Child : proc[c] = "running" /\ childGen[c] = generation
ComesBack == []((mainPC = "loop" /\ ~shuttingDown) =>
                    <>(Serving \/ shuttingDown \/ mainPC = "onExit"))

\* A shutdown ends with every child dead, unless the tray process exits
\* under a menu goroutine that has raised the flag and not killed yet.
ShutdownEndsChildren ==
    shuttingDown ~> \/ \A c \in Child : proc[c] \in {"unborn", "dead"}
                    \/ mainPC = "exited" /\ menuPC = "quitKill"
=============================================================================
