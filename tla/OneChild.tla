------------------------------ MODULE OneChild ------------------------------
(***************************************************************************)
(* What the tray's supervisor (supervisor.go) promises about the agent     *)
(* processes, without its locks, goroutines, backoffs and generations: at  *)
(* most one that nobody has killed, a new one whenever there is none, and  *)
(* none any more once it is closed.  A killed process lives until the      *)
(* SIGKILL takes effect, and its successor may be born before.             *)
(*                                                                         *)
(* Supervisor implements it; Agents is built on it.                        *)
(***************************************************************************)
CONSTANT Child  \* names of processes, used again after their death

VARIABLES
    running,    \* processes nobody has killed
    dying,      \* killed ones that still live
    closed      \* the tray is shutting down
children == <<running, dying, closed>>

Init == running = {} /\ dying = {} /\ closed = FALSE

Birth(c) ==
    /\ ~closed /\ running = {} /\ c \notin dying
    /\ running' = {c}
    /\ UNCHANGED <<dying, closed>>

\* Restart, or the end of the tray.
Kill(c) ==
    /\ c \in running
    /\ running' = running \ {c} /\ dying' = dying \cup {c}
    /\ UNCHANGED closed

\* A process ends by itself; a killed one ends.
Ends(c) == c \in running /\ running' = running \ {c} /\ UNCHANGED <<dying, closed>>
Dies(c) == c \in dying /\ dying' = dying \ {c} /\ UNCHANGED <<running, closed>>

Close == ~closed /\ closed' = TRUE /\ UNCHANGED <<running, dying>>

Next == Close \/ \E c \in Child : Birth(c) \/ Kill(c) \/ Ends(c) \/ Dies(c)

Spec == Init /\ [][Next]_children

\* A birth follows when there is no process, and a killed process dies.
Lively ==
    /\ []<>(running # {} \/ closed)
    /\ \A c \in Child : []<>(c \notin dying)
FairSpec == Spec /\ Lively
=============================================================================
