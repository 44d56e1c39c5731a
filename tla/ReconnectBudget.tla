----------------------------- MODULE ReconnectBudget -----------------------------
(***************************************************************************)
(* What the reconnect policy promises, without clocks: every disconnect    *)
(* and every failed attempt adds at most one to the rapid disconnects, the *)
(* client gives up with the very one that meets the threshold, and in all  *)
(* other cases it waits and tries again, unless the close was final.       *)
(* Supervisor counts rapid disconnects in this way; ReconnectController    *)
(* shows that the code, with its clock, window and delays, does so too.    *)
(***************************************************************************)
EXTENDS Integers

VARIABLES
  limit,   \* policy.rapid_suppress_disconnect_count, 0 = never give up
  phase,   \* "connecting", "connected", "waiting", or why the loop was left
  count    \* rapid disconnects that count

Met(n) == limit > 0 /\ n >= limit

Init == limit \in Nat /\ phase = "connecting" /\ count = 0

Connect == phase = "connecting" /\ phase' = "connected" /\ UNCHANGED count
Resume  == phase = "waiting" /\ phase' = "connecting" /\ UNCHANGED count

\* An attempt that failed or a connection that was lost, and counts.
Retry ==
  /\ phase \in {"connecting", "connected"} /\ phase' = "waiting"
  /\ count' \in 0..(count + 1) /\ ~Met(count')

GiveUp ==
  /\ phase \in {"connecting", "connected"} /\ phase' = "suppressed"
  /\ count' = count + 1 /\ count' = limit

\* Only a connection can be closed for good; the delay may be beyond a float.
Final == phase = "connected" /\ phase' \in {"stopped", "terminal"} /\ UNCHANGED count
Fails ==
  /\ phase \in {"connecting", "connected"} /\ phase' = "error"
  /\ count' \in 0..(count + 1) /\ ~Met(count')

Next ==
  /\ Connect \/ Resume \/ Retry \/ GiveUp \/ Final \/ Fails
  /\ UNCHANGED limit
Spec == Init /\ [][Next]_<<limit, phase, count>>
=================================================================================
