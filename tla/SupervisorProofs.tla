-------------------------- MODULE SupervisorProofs --------------------------
(***************************************************************************)
(* Proofs about Supervisor, for any number of processes and generations.   *)
(***************************************************************************)
EXTENDS Supervisor, TLAPS

Restarting == menuPC \in {"restartKill", "restartSpawn"}

\* Where the threads are tells what they hold.
ThreadsInv ==
    /\ mainPC = "start" => generation = 0 /\ ~shuttingDown
    /\ mainPC = "startSpawn" => mainGen = generation /\ generation \in Generation
    /\ mainPC \in {"start", "startSpawn"} => menuPC = "notReady"
    /\ Restarting => menuGen = generation /\ generation \in Generation
    /\ menuPC = "restartKill" => menuCmd = cmd
    /\ menuPC = "quitKill" => shuttingDown /\ menuCmd = cmd
    /\ mainPC = "exitKill" => shuttingDown /\ mainCmd = cmd
    /\ mainPC = "exited" => shuttingDown

\* Generations in use have been started; a child that lives is watched, and
\* one of an older generation is about to be killed by Restart.
ChainsInv ==
    /\ \A g \in Generation : sleeping[g] > 0 => g <= generation
    /\ \A c \in Child : monitor[c] = "waiting" =>
         childGen[c] \in Generation /\ childGen[c] <= generation
    /\ \A c \in Child : proc[c] \in {"running", "killed"} => monitor[c] = "waiting"
    /\ \A c \in Child : proc[c] = "running" =>
         childGen[c] = generation \/ menuPC = "restartKill"

\* Neither OneRunningChild nor ShutdownKills is inductive alone: that a spawn
\* finds no running child rests on the chain of its generation being unique.
IInv ==
    /\ TypeOK
    /\ ThreadsInv
    /\ ChainsInv
    /\ OneRespawnChain
    /\ OneRunningChild
    /\ ShutdownKills
    /\ NeverUnwatched

-----------------------------------------------------------------------------
LEMMA InitIInv == Init => IInv
<1> SUFFICES ASSUME Init PROVE IInv
  OBVIOUS
<1> USE MaxGenerationAssumption DEF Init
<1>1. TypeOK
  <2>1. /\ proc \in [Child -> ProcState]
        /\ monitor \in [Child -> {"none", "waiting"}]
        /\ childGen \in [Child -> 0 .. MaxGeneration]
        /\ sleeping \in [Generation -> Nat]
    BY DEF ProcState
  <2>2. /\ cmd \in Child \cup {NoChild} /\ mainCmd \in Child \cup {NoChild}
        /\ menuCmd \in Child \cup {NoChild} /\ shuttingDown \in BOOLEAN
    OBVIOUS
  <2>3. /\ generation \in 0 .. MaxGeneration
        /\ mainGen \in 0 .. MaxGeneration /\ menuGen \in 0 .. MaxGeneration
    OBVIOUS
  <2>4. QED
    BY <2>1, <2>2, <2>3 DEF TypeOK
<1>2. ThreadsInv /\ ChainsInv
  BY DEF ThreadsInv, ChainsInv, Restarting, Generation
<1>3. OneRespawnChain
  BY DEF OneRespawnChain, MainHolds, MenuHolds, MonitorHolds, Generation
<1>4. OneRunningChild /\ ShutdownKills /\ NeverUnwatched
  BY DEF OneRunningChild, ShutdownKills, NeverUnwatched
<1>5. QED
  BY <1>1, <1>2, <1>3, <1>4 DEF IInv

\* A thread that is about to spawn for the current generation finds no child
\* running and no monitor of that generation: it holds the only chain.
LEMMA SpawnFindsNoChild ==
  ASSUME IInv, NEW gen \in Generation, ~Stale(gen),
         \/ MainHolds(gen)
         \/ MenuHolds(gen) /\ menuPC = "restartSpawn"
         \/ sleeping[gen] > 0
  PROVE  /\ gen = generation
         /\ menuPC # "restartKill"
         /\ \A c \in Child : proc[c] # "running" /\ ~MonitorHolds(c, gen)
<1>1. gen = generation
  BY DEF Stale
<1>2. \A c \in Child : ~MonitorHolds(c, gen)
  BY DEF IInv, OneRespawnChain, TypeOK, Generation
<1>3. menuPC # "restartKill"
  BY <1>1 DEF IInv, OneRespawnChain, ThreadsInv, TypeOK, MainHolds, MenuHolds,
              Restarting, Generation
<1>4. \A c \in Child : proc[c] # "running"
  BY <1>1, <1>2, <1>3 DEF IInv, ChainsInv, MonitorHolds
<1>5. QED
  BY <1>1, <1>2, <1>3, <1>4

LEMMA StepIInv == IInv /\ [Next]_vars => IInv'
<1> SUFFICES ASSUME IInv, [Next]_vars PROVE IInv'
  OBVIOUS
<1> USE NoChildAssumption, MaxGenerationAssumption
<1> USE DEF IInv, TypeOK, ThreadsInv, ChainsInv, OneRespawnChain, OneRunningChild,
            ShutdownKills, NeverUnwatched, MainHolds, MenuHolds, MonitorHolds,
            Restarting, Generation, ProcState, Stale, Alive,
            fields, children, mainVars, menuVars
<1>1. ASSUME StartBegin PROVE IInv'
  BY <1>1 DEF StartBegin
<1>2. ASSUME StartSpawn PROVE IInv'
  <2>0. mainGen \in Generation /\ MainHolds(mainGen)
    BY <1>2 DEF StartSpawn
  <2>1. CASE SpawnAbandoned(mainGen, sleeping)
    BY <1>2, <2>0, <2>1 DEF StartSpawn, SpawnAbandoned, Wake
  <2>2. CASE SpawnFailed(mainGen, sleeping)
    BY <1>2, <2>0, <2>2 DEF StartSpawn, SpawnFailed, Wake
  <2>3. CASE SpawnStarted(mainGen, sleeping)
    <3>1. PICK c \in Child :
            /\ Free(c) /\ cmd' = c
            /\ proc' = [proc EXCEPT ![c] = "running"]
            /\ monitor' = [monitor EXCEPT ![c] = "waiting"]
            /\ childGen' = [childGen EXCEPT ![c] = mainGen]
      BY <2>3 DEF SpawnStarted
    <3>2. /\ mainGen = generation /\ ~shuttingDown
          /\ menuPC # "restartKill"
          /\ \A d \in Child : proc[d] # "running" /\ ~MonitorHolds(d, mainGen)
      BY <1>2, <2>0, <2>3, SpawnFindsNoChild DEF SpawnStarted, StartSpawn
    <3>3. TypeOK'
      BY <1>2, <2>0, <2>3, <3>1, <3>2 DEF StartSpawn, SpawnStarted, Free, Wake
    <3>4. ThreadsInv'
      BY <1>2, <2>0, <2>3, <3>1, <3>2 DEF StartSpawn, SpawnStarted, Free, Wake
    <3>5. ChainsInv'
      BY <1>2, <2>0, <2>3, <3>1, <3>2 DEF StartSpawn, SpawnStarted, Free, Wake
    <3>6. OneRespawnChain'
      BY <1>2, <2>0, <2>3, <3>1, <3>2 DEF StartSpawn, SpawnStarted, Free, Wake
    <3>7. (OneRunningChild /\ ShutdownKills /\ NeverUnwatched)'
      BY <1>2, <2>0, <2>3, <3>1, <3>2 DEF StartSpawn, SpawnStarted, Free, Wake
    <3>8. QED
      BY <3>3, <3>4, <3>5, <3>6, <3>7
  <2>4. QED
    BY <1>2, <2>1, <2>2, <2>3 DEF StartSpawn, SpawnAndWatch
<1>3. ASSUME TrayEnds PROVE IInv'
  BY <1>3 DEF TrayEnds
<1>4. ASSUME ExitShutdown PROVE IInv'
  <2>1. CASE shuttingDown
    BY <1>4, <2>1 DEF ExitShutdown
  <2>2. CASE ~shuttingDown
    BY <1>4, <2>2 DEF ExitShutdown
  <2>3. QED
    BY <2>1, <2>2
<1>5. ASSUME ExitKill PROVE IInv'
  BY <1>5 DEF ExitKill, Kill
<1>6. ASSUME MenuReady PROVE IInv'
  BY <1>6 DEF MenuReady
<1>7. ASSUME RestartBegin PROVE IInv'
  BY <1>7 DEF RestartBegin
<1>8. ASSUME RestartKill PROVE IInv'
  BY <1>8 DEF RestartKill, Kill
<1>9. ASSUME RestartSpawn PROVE IInv'
  <2>0. menuGen \in Generation /\ MenuHolds(menuGen) /\ menuPC = "restartSpawn"
    BY <1>9 DEF RestartSpawn
  <2>1. CASE SpawnAbandoned(menuGen, sleeping)
    BY <1>9, <2>0, <2>1 DEF RestartSpawn, SpawnAbandoned, Wake
  <2>2. CASE SpawnFailed(menuGen, sleeping)
    BY <1>9, <2>0, <2>2 DEF RestartSpawn, SpawnFailed, Wake
  <2>3. CASE SpawnStarted(menuGen, sleeping)
    <3>1. PICK c \in Child :
            /\ Free(c) /\ cmd' = c
            /\ proc' = [proc EXCEPT ![c] = "running"]
            /\ monitor' = [monitor EXCEPT ![c] = "waiting"]
            /\ childGen' = [childGen EXCEPT ![c] = menuGen]
      BY <2>3 DEF SpawnStarted
    <3>2. /\ menuGen = generation /\ ~shuttingDown
          /\ menuPC # "restartKill"
          /\ \A d \in Child : proc[d] # "running" /\ ~MonitorHolds(d, menuGen)
      BY <1>9, <2>0, <2>3, SpawnFindsNoChild DEF SpawnStarted, RestartSpawn
    <3>3. TypeOK'
      BY <1>9, <2>0, <2>3, <3>1, <3>2 DEF RestartSpawn, SpawnStarted, Free, Wake
    <3>4. ThreadsInv'
      BY <1>9, <2>0, <2>3, <3>1, <3>2 DEF RestartSpawn, SpawnStarted, Free, Wake
    <3>5. ChainsInv'
      BY <1>9, <2>0, <2>3, <3>1, <3>2 DEF RestartSpawn, SpawnStarted, Free, Wake
    <3>6. OneRespawnChain'
      BY <1>9, <2>0, <2>3, <3>1, <3>2 DEF RestartSpawn, SpawnStarted, Free, Wake
    <3>7. (OneRunningChild /\ ShutdownKills /\ NeverUnwatched)'
      BY <1>9, <2>0, <2>3, <3>1, <3>2 DEF RestartSpawn, SpawnStarted, Free, Wake
    <3>8. QED
      BY <3>3, <3>4, <3>5, <3>6, <3>7
  <2>4. QED
    BY <1>9, <2>1, <2>2, <2>3 DEF RestartSpawn, SpawnAndWatch
<1>10. ASSUME QuitShutdown PROVE IInv'
  <2>1. CASE shuttingDown
    BY <1>10, <2>1 DEF QuitShutdown
  <2>2. CASE ~shuttingDown
    BY <1>10, <2>2 DEF QuitShutdown
  <2>3. QED
    BY <2>1, <2>2
<1>11. ASSUME QuitKill PROVE IInv'
  BY <1>11 DEF QuitKill, Kill
<1>12. ASSUME NEW c \in Child, ChildCrash(c) PROVE IInv'
  BY <1>12 DEF ChildCrash
<1>13. ASSUME NEW c \in Child, ChildDies(c) PROVE IInv'
  BY <1>13 DEF ChildDies
<1>14. ASSUME NEW c \in Child, MonitorReturns(c) PROVE IInv'
  BY <1>14 DEF MonitorReturns
<1>15. ASSUME NEW g \in Generation, RespawnWakes(g) PROVE IInv'
  <2>0. sleeping[g] > 0
    BY <1>15 DEF RespawnWakes
  <2>1. CASE SpawnAbandoned(g, Wake(g))
    BY <1>15, <2>0, <2>1 DEF RespawnWakes, SpawnAbandoned, Wake
  <2>2. CASE SpawnFailed(g, Wake(g))
    BY <1>15, <2>0, <2>2 DEF RespawnWakes, SpawnFailed, Wake
  <2>3. CASE SpawnStarted(g, Wake(g))
    <3>1. PICK c \in Child :
            /\ Free(c) /\ cmd' = c
            /\ proc' = [proc EXCEPT ![c] = "running"]
            /\ monitor' = [monitor EXCEPT ![c] = "waiting"]
            /\ childGen' = [childGen EXCEPT ![c] = g]
      BY <2>3 DEF SpawnStarted
    <3>2. /\ g = generation /\ ~shuttingDown
          /\ menuPC # "restartKill"
          /\ \A d \in Child : proc[d] # "running" /\ ~MonitorHolds(d, g)
      BY <1>15, <2>0, <2>3, SpawnFindsNoChild DEF SpawnStarted, RespawnWakes
    <3>3. TypeOK'
      BY <1>15, <2>0, <2>3, <3>1, <3>2 DEF RespawnWakes, SpawnStarted, Free, Wake
    <3>4. ThreadsInv'
      BY <1>15, <2>0, <2>3, <3>1, <3>2 DEF RespawnWakes, SpawnStarted, Free, Wake
    <3>5. ChainsInv'
      BY <1>15, <2>0, <2>3, <3>1, <3>2 DEF RespawnWakes, SpawnStarted, Free, Wake
    <3>6. OneRespawnChain'
      BY <1>15, <2>0, <2>3, <3>1, <3>2 DEF RespawnWakes, SpawnStarted, Free, Wake
    <3>7. (OneRunningChild /\ ShutdownKills /\ NeverUnwatched)'
      BY <1>15, <2>0, <2>3, <3>1, <3>2 DEF RespawnWakes, SpawnStarted, Free, Wake
    <3>8. QED
      BY <3>3, <3>4, <3>5, <3>6, <3>7
  <2>4. QED
    BY <1>15, <2>1, <2>2, <2>3 DEF RespawnWakes, SpawnAndWatch
<1>16. ASSUME UNCHANGED vars PROVE IInv'
  BY <1>16 DEF vars
<1>17. QED
  BY <1>1, <1>2, <1>3, <1>4, <1>5, <1>6, <1>7, <1>8,
     <1>9, <1>10, <1>11, <1>12, <1>13, <1>14, <1>15, <1>16
  DEF Next, MainStep, MenuStep, MenuClick, ChildStep

-----------------------------------------------------------------------------
LEMMA Invariance == Spec => []IInv
  BY InitIInv, StepIInv, PTL DEF Spec

\* Every variable keeps its type.
THEOREM TypeCorrect == Spec => []TypeOK
<1>1. IInv => TypeOK
  BY DEF IInv
<1>2. QED
  BY <1>1, Invariance, PTL

\* supervisor.go:98-100, no double birth: one respawn chain per generation.
THEOREM NoDoubleBirth == Spec => []OneRespawnChain
<1>1. IInv => OneRespawnChain
  BY DEF IInv
<1>2. QED
  BY <1>1, Invariance, PTL

\* At most one child that nobody has killed runs, and it is s.cmd.
THEOREM SingleChild == Spec => []OneRunningChild
<1>1. IInv => OneRunningChild
  BY DEF IInv
<1>2. QED
  BY <1>1, Invariance, PTL

\* The supervisor always has somebody who will bring the child back.
THEOREM AlwaysWatched == Spec => []NeverUnwatched
<1>1. IInv => NeverUnwatched
  BY DEF IInv
<1>2. QED
  BY <1>1, Invariance, PTL

\* supervisor.go:119: when Shutdown is over no child runs.
THEOREM ShutdownIsFinal == Spec => []ShutdownKills
<1>1. IInv => ShutdownKills
  BY DEF IInv
<1>2. QED
  BY <1>1, Invariance, PTL

\* A process is born only into a tray that lives and is not shutting down,
\* and for the newest generation.
THEOREM BirthsCurrent == Spec => BirthsAreCurrent
<1>1. IInv /\ [Next]_vars => [BirthIsCurrent]_vars
  <2> SUFFICES ASSUME IInv, Next, NEW c \in Child,
                      proc[c] # "running", proc'[c] = "running"
               PROVE  Alive /\ ~shuttingDown /\ childGen'[c] = generation
    BY DEF BirthIsCurrent
  <2> USE DEF IInv, TypeOK
  <2>1. ASSUME NEW gen \in Generation, NEW resting, SpawnStarted(gen, resting)
        PROVE  ~shuttingDown /\ childGen'[c] = generation
    BY <2>1 DEF SpawnStarted, Stale
  <2>2. CASE StartSpawn
    BY <2>1, <2>2 DEF StartSpawn, SpawnAndWatch, SpawnAbandoned, SpawnFailed,
                      children, ThreadsInv, Alive
  <2>3. CASE RestartSpawn
    BY <2>1, <2>3 DEF RestartSpawn, SpawnAndWatch, SpawnAbandoned, SpawnFailed,
                      children, ThreadsInv, Restarting, Alive
  <2>4. CASE \E g \in Generation : RespawnWakes(g)
    BY <2>1, <2>4 DEF RespawnWakes, SpawnAndWatch, SpawnAbandoned, SpawnFailed,
                      children, Alive
  <2>5. CASE RestartKill \/ ExitKill \/ QuitKill
    BY <2>5 DEF RestartKill, ExitKill, QuitKill, Kill
  <2>6. CASE \E d \in Child : ChildStep(d)
    BY <2>6 DEF ChildStep, ChildCrash, ChildDies, MonitorReturns
  <2>7. CASE StartBegin \/ TrayEnds \/ ExitShutdown \/ MenuReady \/ MenuClick
    BY <2>7 DEF StartBegin, TrayEnds, ExitShutdown, MenuReady, MenuClick,
                RestartBegin, QuitShutdown, children
  <2>8. QED
    BY <2>2, <2>3, <2>4, <2>5, <2>6, <2>7 DEF Next, MainStep, MenuStep
<1>2. QED
  BY <1>1, Invariance, PTL DEF Spec, BirthsAreCurrent

-----------------------------------------------------------------------------
(* The supervisor implements OneChild.                                     *)

\* What each kind of step does to the processes.
LEMMA SpawnIsBirth ==
  ASSUME IInv, NEW gen \in Generation, NEW resting, SpawnAndWatch(gen, resting),
         \/ MainHolds(gen)
         \/ MenuHolds(gen) /\ menuPC = "restartSpawn"
         \/ sleeping[gen] > 0
  PROVE  \/ UNCHANGED <<proc, shuttingDown>>
         \/ \E c \in Child : AsOneChild!Birth(c)
<1>1. CASE SpawnAbandoned(gen, resting) \/ SpawnFailed(gen, resting)
  BY <1>1 DEF SpawnAbandoned, SpawnFailed, fields, children
<1>2. CASE SpawnStarted(gen, resting)
  <2>1. PICK c \in Child : Free(c) /\ proc' = [proc EXCEPT ![c] = "running"]
    BY <1>2 DEF SpawnStarted
  <2>2. \A d \in Child : proc[d] # "running"
    BY <1>2, SpawnFindsNoChild DEF SpawnStarted
  <2>3. ~shuttingDown /\ UNCHANGED shuttingDown
    BY <1>2 DEF SpawnStarted, Stale
  <2>4. /\ {d \in Child : proc[d] = "running"} = {}
        /\ {d \in Child : proc'[d] = "running"} = {c}
        /\ {d \in Child : proc'[d] = "killed"} = {d \in Child : proc[d] = "killed"}
        /\ proc[c] # "killed"
    BY <2>1, <2>2 DEF Free, IInv, TypeOK
  <2>5. AsOneChild!Birth(c)
    BY <2>3, <2>4 DEF AsOneChild!Birth
  <2> QED
    BY <2>5
<1> QED
  BY <1>1, <1>2 DEF SpawnAndWatch

LEMMA KillIsKill ==
  ASSUME IInv, NEW c \in Child \cup {NoChild}, Kill(c), shuttingDown' = shuttingDown
  PROVE  \/ UNCHANGED <<proc, shuttingDown>>
         \/ AsOneChild!Kill(c) /\ c \in Child
BY NoChildAssumption DEF Kill, AsOneChild!Kill, IInv, TypeOK

LEMMA StepIsOneChild ==
  IInv /\ [Next]_vars => [AsOneChild!Next]_AsOneChild!children
<1> SUFFICES ASSUME IInv, [Next]_vars
             PROVE  UNCHANGED <<proc, shuttingDown>> \/ AsOneChild!Next
  BY DEF AsOneChild!children
<1> USE DEF IInv, TypeOK, AsOneChild!Next
<1>1. CASE StartSpawn
  <2>1. mainGen \in Generation /\ MainHolds(mainGen)
    BY <1>1 DEF StartSpawn, ThreadsInv, MainHolds
  <2> QED
    BY <1>1, <2>1, SpawnIsBirth DEF StartSpawn
<1>2. CASE RestartSpawn
  <2>1. menuGen \in Generation /\ MenuHolds(menuGen) /\ menuPC = "restartSpawn"
    BY <1>2 DEF RestartSpawn, ThreadsInv, MenuHolds, Restarting
  <2> QED
    BY <1>2, <2>1, SpawnIsBirth DEF RestartSpawn
<1>3. ASSUME NEW g \in Generation, RespawnWakes(g)
      PROVE  UNCHANGED <<proc, shuttingDown>> \/ AsOneChild!Next
  BY <1>3, SpawnIsBirth DEF RespawnWakes
<1>4. CASE RestartKill \/ QuitKill
  BY <1>4, KillIsKill DEF RestartKill, QuitKill, fields
<1>5. CASE ExitKill
  BY <1>5, KillIsKill DEF ExitKill, fields
<1>6. ASSUME NEW c \in Child, ChildStep(c)
      PROVE  UNCHANGED <<proc, shuttingDown>> \/ AsOneChild!Next
  <2>1. CASE ChildCrash(c)
    <3>1. AsOneChild!Ends(c)
      BY <2>1 DEF ChildCrash, AsOneChild!Ends, fields
    <3> QED
      BY <3>1
  <2>2. CASE ChildDies(c)
    <3>1. AsOneChild!Dies(c)
      BY <2>2 DEF ChildDies, AsOneChild!Dies, fields
    <3> QED
      BY <3>1
  <2>3. CASE MonitorReturns(c)
    BY <2>3 DEF MonitorReturns, fields
  <2> QED
    BY <1>6, <2>1, <2>2, <2>3 DEF ChildStep
<1>7. CASE ExitShutdown \/ QuitShutdown
  BY <1>7 DEF ExitShutdown, QuitShutdown, AsOneChild!Close, children
<1>8. CASE StartBegin \/ TrayEnds \/ MenuReady \/ RestartBegin
  BY <1>8 DEF StartBegin, TrayEnds, MenuReady, RestartBegin, children, fields
<1>9. CASE UNCHANGED vars
  BY <1>9 DEF vars, fields, children
<1> QED
  BY <1>1, <1>2, <1>3, <1>4, <1>5, <1>6, <1>7, <1>8, <1>9
  DEF Next, MainStep, MenuStep, MenuClick

\* For any number of processes and restarts the tray shows its agents the
\* births and deaths of OneChild (supervisor.go:45-134).
THEOREM Refinement == Spec => AsOneChild!Spec
<1>1. Init => AsOneChild!Init
  BY DEF Init, AsOneChild!Init
<1> QED
  BY <1>1, Invariance, StepIsOneChild, PTL DEF Spec, AsOneChild!Spec
=============================================================================
