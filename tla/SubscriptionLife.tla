---------------------------- MODULE SubscriptionLife ----------------------------
(***************************************************************************)
(* What a user may rely on for each call of subscribe_to_topic, whatever   *)
(* happens to the connection: callbacks start only between a successful    *)
(* join and the request to leave, one at a time; a reconnect joins again   *)
(* only when the callback of the old connection has ended; what is gone    *)
(* stays gone.  TopicRuntime, with its queues, futures and tasks, is shown *)
(* to implement this.                                                      *)
(***************************************************************************)
CONSTANT Subs   \* subscriptions

VARIABLES
  phase,    \* "none", "joining", "joined", "leaving" or "gone"
  running   \* one of its callbacks runs

Init == phase = [x \in Subs |-> "none"] /\ running = [x \in Subs |-> FALSE]

Become(x, p) == phase' = [phase EXCEPT ![x] = p] /\ UNCHANGED running

\* A join that cannot even be sent fails at once.
Subscribe(x) == phase[x] = "none" /\ (Become(x, "joining") \/ Become(x, "gone"))
Join(x)      == phase[x] = "joining" /\ Become(x, "joined")
Rejoin(x)    == phase[x] = "joined" /\ ~running[x] /\ Become(x, "joining")

\* shutdown leaves all there are at once, and removes them at once.
BecomeAll(S, p) ==
  /\ phase' = [x \in Subs |-> IF x \in S THEN p ELSE phase[x]]
  /\ UNCHANGED running

Leave ==
  \E S \in SUBSET {x \in Subs : phase[x] \in {"joining", "joined"}} : BecomeAll(S, "leaving")

\* Left, refused, given up.
Remove ==
  \E S \in SUBSET {x \in Subs : phase[x] \in {"joining", "joined", "leaving"}} :
    BecomeAll(S, "gone")

CallbackStarts(x) ==
  /\ phase[x] = "joined" /\ ~running[x]
  /\ running' = [running EXCEPT ![x] = TRUE] /\ UNCHANGED phase
CallbackEnds(x) ==
  /\ running[x]
  /\ running' = [running EXCEPT ![x] = FALSE] /\ UNCHANGED phase

Next ==
  \/ Leave \/ Remove
  \/ \E x \in Subs : \/ Subscribe(x) \/ Join(x) \/ Rejoin(x)
                     \/ CallbackStarts(x) \/ CallbackEnds(x)

Spec == Init /\ [][Next]_<<phase, running>>
=================================================================================
