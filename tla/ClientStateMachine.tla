--------------------------- MODULE ClientStateMachine ---------------------------
(***************************************************************************)
(* The published life cycle of a client: the states of client_types.py and *)
(* the table of transitions of client_state_machine.py.  On its own it is  *)
(* the abstract specification of a client: whatever tasks run inside, the  *)
(* value of client._state only ever moves along this table.  Supervisor    *)
(* is shown to implement it.                                               *)
(***************************************************************************)
VARIABLE state      \* client._state

ClientState == {"CLOSED", "CONNECTING", "CONNECTED", "RECONNECTING", "SHUTTING_DOWN"}

AllowedTransitions ==
  [s \in ClientState |->
     CASE s = "CLOSED"        -> {"CONNECTING"}
       [] s = "CONNECTING"    -> {"CONNECTED", "RECONNECTING", "SHUTTING_DOWN", "CLOSED"}
       [] s = "CONNECTED"     -> {"RECONNECTING", "SHUTTING_DOWN", "CLOSED"}
       [] s = "RECONNECTING"  -> {"CONNECTED", "SHUTTING_DOWN", "CLOSED"}
       [] s = "SHUTTING_DOWN" -> {"CLOSED"}]

\* transition_client_state raises unless this holds; staying put is always allowed.
MayTransition(from, to) == to = from \/ to \in AllowedTransitions[from]

Init == state = "CLOSED"
Next == \E to \in AllowedTransitions[state] : state' = to
Spec == Init /\ [][Next]_state
=================================================================================
