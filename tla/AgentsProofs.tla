---------------------------- MODULE AgentsProofs ----------------------------
(***************************************************************************)
(* What holds of Agents for any number of processes: the types, the        *)
(* orderly end of an agent, and that its processes are those of OneChild.  *)
(***************************************************************************)
EXTENDS Agents, TLAPS

\* What an agent that is ending has closed so far; no action opens it again.
OrderInv ==
    \A a \in Child :
        /\ pc[a] \in {"stopWeb", "stopTunnel", "end"} => listener[a]["upstream"] = "closed"
        /\ pc[a] \in {"stopTunnel", "end"} => listener[a]["web"] = "closed"
        /\ pc[a] = "end" => client[a] # "alive"

IInv == TypeOK /\ OrderInv

-----------------------------------------------------------------------------
\* The end of a process clears what its name held and nothing else.
LEMMA GoneTypes ==
    ASSUME TypeOK, NEW a \in Child, Exit(a), UNCHANGED <<kills, troubles>> \/ (Trouble /\ UNCHANGED kills)
    PROVE  TypeOK'
<1> USE SlotAssumption, BoundsAssumption DEF TypeOK, Port
<1>1. /\ running' \subseteq running /\ dying' \subseteq dying /\ closed' = closed
      /\ running' \cup dying' \subseteq Child
      /\ (running \cup dying) \ {a} \subseteq running' \cup dying'
  BY DEF Exit, OC!Ends, OC!Dies
<1>2. /\ pc' = [pc EXCEPT ![a] = "none"] /\ client' = [client EXCEPT ![a] = "none"]
      /\ listener' = [listener EXCEPT ![a] = [p \in Port |-> "none"]]
      /\ UNCHANGED <<mode, config, done, state>>
  BY DEF Exit, Gone, Set, settings
<1>3. /\ slot' \in {slot, Ghost, Orphan} /\ slot' # a /\ orphan' \in BOOLEAN
  BY DEF Exit, Gone
<1>4. kills' \in 0 .. MaxKills /\ troubles' \in 0 .. MaxTroubles
  BY DEF Trouble
<1>5. \A b \in Child \ (running' \cup dying') :
        pc'[b] = "none" /\ client'[b] = "none" /\ slot' # b
        /\ \A p \in Port : listener'[b][p] = "none"
  <2> SUFFICES ASSUME NEW b \in Child \ (running' \cup dying')
               PROVE  pc'[b] = "none" /\ client'[b] = "none" /\ slot' # b
                      /\ \A p \in Port : listener'[b][p] = "none"
    OBVIOUS
  <2>1. CASE b = a
    BY <1>2, <1>3, <2>1
  <2>2. CASE b # a
    <3>1. b \in Child \ (running \cup dying)
      BY <1>1, <2>2
    <3> QED
      BY <1>2, <1>3, <2>2, <3>1
  <2> QED
    BY <2>1, <2>2
<1> QED
  BY <1>1, <1>2, <1>3, <1>4, <1>5

\* A living agent's listener changes, and it may move on.
LEMMA ListenerTypes ==
    ASSUME TypeOK, NEW a \in running \cup dying, NEW p \in Port, NEW v \in {"bound", "closed"},
           listener' = [listener EXCEPT ![a][p] = v],
           NEW w \in {"tunnel", "ready", "stopWeb", "stopTunnel"}, pc' \in {pc, [pc EXCEPT ![a] = w]},
           UNCHANGED <<quiet, done, client, state, edge>>
    PROVE  TypeOK'
<1> USE DEF TypeOK, quiet, children, settings, edge
<1>1. listener' \in [Child -> [Port -> {"none", "starting", "bound", "closed"}]]
  BY Zenon
<1>2. pc' \in [Child -> {"none", "boot", "tunnel", "ready", "stopWeb", "stopTunnel", "end"}]
  OBVIOUS
<1>3. \A b \in Child : b # a => listener'[b] = listener[b] /\ pc'[b] = pc[b]
  OBVIOUS
<1> QED
  BY <1>1, <1>2, <1>3

\* Each step keeps the types.
LEMMA TypeStep == TypeOK /\ [Next]_vars => TypeOK'
<1> SUFFICES ASSUME TypeOK, [Next]_vars PROVE TypeOK'
    OBVIOUS
<1> USE SlotAssumption, BoundsAssumption
    DEF TypeOK, Port, Set, quiet, children, settings, agent, edge, Trouble, Alive
<1>1. ASSUME NEW a \in Child, Start(a) PROVE TypeOK'
  BY <1>1 DEF Start, OC!Birth
<1>2. ASSUME NEW a \in Child, Kill(a) PROVE TypeOK'
  BY <1>2 DEF Kill, OC!Kill
<1>3. ASSUME NEW a \in Child, Dies(a) \/ Crash(a) \/ End(a) PROVE TypeOK'
  BY <1>3, GoneTypes DEF Dies, Crash, End, Exit
<1>4. ASSUME NEW a \in Child, Signal(a) PROVE TypeOK'
  BY <1>4 DEF Signal
<1>5. ASSUME NEW a \in Child, Boot(a) PROVE TypeOK'
  BY <1>5 DEF Boot
<1>6. ASSUME NEW a \in Child, NEW p \in Port, Listen(a, p) PROVE TypeOK'
  <2>1. CASE Bound(p)
    BY <1>6, <2>1, GoneTypes DEF Listen
  <2>2. CASE ~Bound(p)
    BY <1>6, <2>2, ListenerTypes DEF Listen
  <2> QED
    BY <2>1, <2>2
<1>7. ASSUME NEW a \in Child, StartTunnel(a) PROVE TypeOK'
  BY <1>7 DEF StartTunnel
<1>8. ASSUME NEW a \in Child, StopUpstream(a) \/ StopWeb(a) PROVE TypeOK'
  <2>1. CASE StopUpstream(a)
    BY <1>8, <2>1, ListenerTypes DEF StopUpstream, StopPort
  <2>2. CASE StopWeb(a)
    BY <1>8, <2>2, ListenerTypes DEF StopWeb, StopPort
  <2> QED
    BY <1>8, <2>1, <2>2
<1>9. ASSUME NEW a \in Child, StopTunnel(a) PROVE TypeOK'
  BY <1>9 DEF StopTunnel, EndClient
<1>10. ASSUME NEW a \in Child, ContextEndsClient(a) PROVE TypeOK'
  BY <1>10 DEF ContextEndsClient, EndClient
<1>11. ASSUME NEW a \in Child, Try(a) PROVE TypeOK'
  BY <1>11 DEF Try, Success, Refusal
<1>12. ASSUME NEW a \in Child, Break(a) PROVE TypeOK'
  BY <1>12 DEF Break
<1>13. ASSUME NEW a \in Child, ClientEnds(a) PROVE TypeOK'
  BY <1>13 DEF ClientEnds, EndClient
<1>14. ASSUME TrayCloses \/ DropGhost \/ OtherMachine \/ OrphanStep PROVE TypeOK'
  <2>1. CASE TrayCloses
    BY <2>1 DEF TrayCloses, OC!Close
  <2>2. CASE DropGhost
    BY <2>2 DEF DropGhost
  <2>3. CASE OtherMachine
    BY <2>3 DEF OtherMachine
  <2>4. CASE OrphanStep
    BY <2>4 DEF OrphanStep
  <2> QED
    BY <1>14, <2>1, <2>2, <2>3, <2>4
<1>15. ASSUME UNCHANGED vars PROVE TypeOK'
  BY <1>15 DEF vars
<1> QED
  BY <1>1, <1>2, <1>3, <1>4, <1>5, <1>6, <1>7, <1>8, <1>9, <1>10, <1>11, <1>12, <1>13,
     <1>14, <1>15 DEF Next, Work, RunServe

\* Each step keeps the order: only Shutdown moves an agent on, and a listener
\* that is closed, or a client that has ended, stays so.
LEMMA OrderStep == IInv /\ [Next]_vars => OrderInv'
<1> SUFFICES ASSUME TypeOK, OrderInv, [Next]_vars PROVE OrderInv'
    BY DEF IInv
<1> USE DEF TypeOK, OrderInv, Port, Set, quiet, children, settings, agent, edge
<1>1. ASSUME NEW a \in Child, Start(a) PROVE OrderInv'
  BY <1>1 DEF Start
<1>2. ASSUME NEW a \in Child, Exit(a) PROVE OrderInv'
  BY <1>2 DEF Exit, Gone
<1>3. ASSUME NEW a \in Child, Kill(a) \/ Signal(a) \/ Break(a) PROVE OrderInv'
  BY <1>3 DEF Kill, Signal, Break
<1>4. ASSUME NEW a \in Child, Boot(a) PROVE OrderInv'
  BY <1>4 DEF Boot
<1>5. ASSUME NEW a \in Child, NEW p \in Port, Listen(a, p) PROVE OrderInv'
  <2>1. CASE Bound(p)
    BY <1>2, <1>5, <2>1 DEF Listen
  <2>2. CASE ~Bound(p)
    BY <1>5, <2>2 DEF Listen
  <2> QED
    BY <2>1, <2>2
<1>6. ASSUME NEW a \in Child, StartTunnel(a) PROVE OrderInv'
  BY <1>6 DEF StartTunnel
<1>7. ASSUME NEW a \in Child, StopUpstream(a) PROVE OrderInv'
  BY <1>7 DEF StopUpstream, StopPort
<1>8. ASSUME NEW a \in Child, StopWeb(a) PROVE OrderInv'
  BY <1>8 DEF StopWeb, StopPort
<1>9. ASSUME NEW a \in Child, StopTunnel(a) PROVE OrderInv'
  BY <1>9 DEF StopTunnel, EndClient
<1>10. ASSUME NEW a \in Child, ContextEndsClient(a) \/ ClientEnds(a) PROVE OrderInv'
  BY <1>10 DEF ContextEndsClient, ClientEnds, EndClient
<1>11. ASSUME NEW a \in Child, Try(a) PROVE OrderInv'
  BY <1>11 DEF Try
<1>12. ASSUME TrayCloses \/ DropGhost \/ OtherMachine \/ OrphanStep PROVE OrderInv'
  BY <1>12 DEF TrayCloses, DropGhost, OtherMachine, OrphanStep
<1>13. ASSUME UNCHANGED vars PROVE OrderInv'
  BY <1>13 DEF vars
<1> QED
  BY <1>1, <1>2, <1>3, <1>4, <1>5, <1>6, <1>7, <1>8, <1>9, <1>10, <1>11, <1>12, <1>13
  DEF Next, Work, RunServe, Dies, Crash, End, Exit

-----------------------------------------------------------------------------
\* The invariant holds of every behaviour.
THEOREM Invariance == Spec => []IInv
<1>1. Init => IInv
  <2> SUFFICES ASSUME Init PROVE TypeOK /\ OrderInv
      BY DEF IInv
  <2>1. \A a \in Child :
          /\ pc[a] = "none" /\ client[a] = "none" /\ slot # a
          /\ \A p \in Port : listener[a][p] = "none"
    BY SlotAssumption DEF Init
  <2>2. kills \in 0 .. MaxKills /\ troubles \in 0 .. MaxTroubles
    BY BoundsAssumption DEF Init
  <2>3. listener \in [Child -> [Port -> {"none", "starting", "bound", "closed"}]]
    BY DEF Init
  <2>4. TypeOK
    BY <2>1, <2>2, <2>3 DEF Init, OC!Init, TypeOK
  <2> QED
    BY <2>1, <2>4 DEF OrderInv
<1>2. IInv /\ [Next]_vars => IInv'
  BY TypeStep, OrderStep DEF IInv
<1> QED
  BY <1>1, <1>2, PTL DEF Spec

\* Every variable has its type, and a name without a process holds no port, no
\* client and no slot (main.go, runServe).
THEOREM Types == Spec => []TypeOK
BY Invariance, PTL DEF IInv

\* An agent that ends in order leaves no frpc and no port behind, however its
\* end meets a kill, an error of the tunnel or another agent (main.go:406-410).
THEOREM Tidy == Spec => []EndIsTidy
<1>1. IInv => EndIsTidy
  BY DEF IInv, OrderInv, EndIsTidy, Port
<1> QED
  BY <1>1, Invariance, PTL

\* The agents are born, killed and ended as the supervisor promises: what
\* Supervisor is proved to implement is all that Agents supposes.
THEOREM AgentsAreChildren == Spec => OC!Spec
<1>1. Init => OC!Init
  BY DEF Init
<1>2. [Next]_vars => [OC!Next]_(OC!children)
  <2> SUFFICES ASSUME [Next]_vars PROVE OC!Next \/ UNCHANGED OC!children
      OBVIOUS
  <2> USE DEF OC!children, children, quiet
  <2>1. ASSUME NEW a \in Child, Exit(a) PROVE OC!Next
    BY <2>1 DEF Exit, OC!Next
  <2>2. ASSUME NEW a \in Child, Start(a) \/ Kill(a) \/ Dies(a) PROVE OC!Next
    BY <2>2 DEF Start, Kill, Dies, OC!Next
  <2>3. ASSUME NEW a \in Child, NEW p \in Port, Listen(a, p)
        PROVE  OC!Next \/ UNCHANGED OC!children
    BY <2>1, <2>3 DEF Listen
  <2>4. ASSUME NEW a \in Child, RunServe(a) \/ ContextEndsClient(a)
        PROVE  OC!Next \/ UNCHANGED OC!children
    BY <2>1, <2>4 DEF RunServe, Boot, StartTunnel, StopUpstream, StopWeb, StopPort,
                      StopTunnel, End, ContextEndsClient
  <2>5. ASSUME NEW a \in Child, Try(a) \/ Crash(a) \/ Signal(a) \/ Break(a) \/ ClientEnds(a)
        PROVE  OC!Next \/ UNCHANGED OC!children
    BY <2>1, <2>5 DEF Try, Crash, Signal, Break, ClientEnds
  <2>6. ASSUME TrayCloses \/ DropGhost \/ OtherMachine \/ OrphanStep
        PROVE  OC!Next \/ UNCHANGED OC!children
    BY <2>6 DEF TrayCloses, DropGhost, OtherMachine, OrphanStep, OC!Next
  <2>7. ASSUME UNCHANGED vars PROVE UNCHANGED OC!children
    BY <2>7 DEF vars
  <2> QED
    BY <2>2, <2>3, <2>4, <2>5, <2>6, <2>7 DEF Next, Work
<1> QED
  BY <1>1, <1>2, PTL DEF Spec, OC!Spec
=============================================================================
