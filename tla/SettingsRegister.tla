-------------------------- MODULE SettingsRegister ---------------------------
(***************************************************************************)
(* What a stored setting promises, as a register of two cells: the value   *)
(* that is kept across restarts and the one that is live.  A manifest is   *)
(* kept first and then goes live (main.go, apply); credentials go live     *)
(* first and are then kept (main.go, dbConnect and erpnextConnect).  A     *)
(* restart makes live what is kept.                                        *)
(*                                                                         *)
(* Requests that meet may upset it: nothing is promised from then on, but  *)
(* that no value is made up, until one saves alone.  A lone save keeps the *)
(* value it is given, or the one it made live, and all is promised again.  *)
(***************************************************************************)
CONSTANTS Value, NoValue,
          LiveFirst     \* whether a value goes live before it is kept

VARIABLES kept, live, upset

Init == kept = NoValue /\ live = NoValue /\ upset = FALSE

Enter(v) ==
    \/ LiveFirst /\ live' = v /\ UNCHANGED kept
    \/ ~LiveFirst /\ kept' = v /\ UNCHANGED live

Follow ==
    \/ LiveFirst /\ kept' = live /\ UNCHANGED live
    \/ ~LiveFirst /\ live' = kept /\ UNCHANGED kept

Restart == live' = kept /\ UNCHANGED kept

Calm ==
    /\ ~upset /\ UNCHANGED upset
    /\ (\E v \in Value : Enter(v)) \/ Follow \/ Restart

Meet == upset' /\ UNCHANGED <<kept, live>>

Upset ==
    /\ upset /\ UNCHANGED upset
    /\ {kept', live'} \subseteq Value \cup {NoValue}

\* The save of a request that met no other.
Settle ==
    /\ upset /\ ~upset'
    /\ \/ LiveFirst /\ Follow
       \/ ~LiveFirst /\ \E v \in Value : Enter(v)

Next == Calm \/ Meet \/ Upset \/ Settle

Spec == Init /\ [][Next]_<<kept, live, upset>>
=============================================================================
