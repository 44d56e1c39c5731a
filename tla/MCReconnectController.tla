-------------------------- MODULE MCReconnectController --------------------------
(***************************************************************************)
(* ReconnectController with the default policy and variations of it.       *)
(***************************************************************************)
EXTENDS ReconnectController

\* Gives up early, retries after a normal close, waits ever shorter, and takes a connection
\* for stable before it counts as one that was not rapid.
ImpatientPolicy ==
  [DefaultPolicy EXCEPT !.factor = [num |-> 1, den |-> 2], !.base_delay = 20,
                        !.rapid_suppress_disconnect_count = 3, !.stable_reset = 16,
                        !.reconnect_on_normal_close = TRUE,
                        !.policy_violation_is_terminal = FALSE,
                        !.rapid_second_min_delay = 8]

\* No backoff of its own: only rapid disconnects and close codes make it wait.
SteadyPolicy ==
  [DefaultPolicy EXCEPT !.factor = [num |-> 1, den |-> 1], !.base_delay = 0,
                        !.rapid_suppress_disconnect_count = 4, !.rapid_first_min_delay = 0]

ThreePolicies == {DefaultPolicy, ImpatientPolicy, SteadyPolicy}
PowersOfTwo == [b \in {1, 2} |-> [n \in 0..AttemptCap |-> b ^ n]]
=================================================================================
