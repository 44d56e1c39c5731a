--------------------------- MODULE ReconnectController ---------------------------
(***************************************************************************)
(* How long the supervisor waits before it connects again: the clocked     *)
(* part of _supervisor_loop, with ReconnectPolicy and                      *)
(* ReconnectControllerMixin.  The other half of the loop is Supervisor,    *)
(* which has no clock; auto_reconnect is on and nobody shuts down here.    *)
(*                                                                         *)
(* Times are ticks, ratios percent, the factor is a fraction.  A tick is a *)
(* quarter of a second where the policy is the default one, so that all    *)
(* its values are whole; a delay is rounded down to ticks.  The deque of   *)
(* timestamps is a sequence of ages, oldest first; an age beyond the       *)
(* window stays one tick beyond it.                                        *)
(***************************************************************************)
EXTENDS Integers, Sequences

\* ReconnectPolicy(), in ticks of 0.25 s.
DefaultPolicy ==
  [base_delay |-> 2, factor |-> [num |-> 2, den |-> 1], max_delay |-> 120,
   stable_reset |-> 240,
   reconnect_on_normal_close |-> FALSE, policy_violation_is_terminal |-> TRUE,
   service_restart_min_delay |-> 4, service_restart_max_delay |-> 20,
   try_again_later_min_delay |-> 120, try_again_later_max_delay |-> 240,
   rapid_disconnect_uptime |-> 20, rapid_window |-> 240,
   rapid_first_min_delay |-> 8, rapid_second_min_delay |-> 40,
   rapid_cooldown_base |-> 240, rapid_cooldown_step |-> 120, rapid_cooldown_max |-> 1200,
   rapid_suppress_disconnect_count |-> 10,
   rapid_hold_down_jitter_low_ratio |-> 25, rapid_hold_down_jitter_high_ratio |-> 100]

\* The types of the fields, and validate_reconnect_policy.
PolicyTyped(p) ==
  /\ {p.reconnect_on_normal_close, p.policy_violation_is_terminal} \subseteq BOOLEAN
  /\ p.factor \in [num : Int, den : Nat \ {0}]
  /\ \A f \in (DOMAIN p) \ {"factor", "reconnect_on_normal_close",
                            "policy_violation_is_terminal"} : p[f] \in Int

ValidPolicy(p) ==
  /\ p.base_delay >= 0 /\ p.factor.num > 0 /\ p.max_delay >= 0 /\ p.stable_reset > 0
  /\ p.service_restart_min_delay >= 0
  /\ p.service_restart_max_delay >= p.service_restart_min_delay
  /\ p.try_again_later_min_delay >= 0
  /\ p.try_again_later_max_delay >= p.try_again_later_min_delay
  /\ p.rapid_disconnect_uptime >= 0 /\ p.rapid_window > 0
  /\ p.rapid_first_min_delay >= 0 /\ p.rapid_second_min_delay >= 0
  /\ p.rapid_cooldown_base >= 0 /\ p.rapid_cooldown_step >= 0
  /\ p.rapid_cooldown_max >= p.rapid_cooldown_base
  /\ p.rapid_suppress_disconnect_count >= 0
  /\ p.rapid_hold_down_jitter_low_ratio >= 0
  /\ p.rapid_hold_down_jitter_high_ratio >= p.rapid_hold_down_jitter_low_ratio

CONSTANTS
  Policies,       \* the policies a client may be made with
  Draws,          \* values a random draw may take besides the two ends of its range
  ConnectTimes,   \* how long connect() may take
  Uptimes,        \* how long a connection may last
  Power,          \* Power[b][n] is b ** n
  MaxFloat,       \* no float is larger
  AttemptCap      \* bound: attempts counted

ASSUME PolicyAssumption ==
  /\ \A p \in Policies : DOMAIN p = DOMAIN DefaultPolicy /\ PolicyTyped(p) /\ ValidPolicy(p)
  /\ Draws \subseteq Nat /\ ConnectTimes \subseteq Nat /\ Uptimes \subseteq Nat
  /\ MaxFloat \in Nat /\ AttemptCap \in Nat

ASSUME PowerAssumption ==
  \A p \in Policies : \A b \in {p.factor.num, p.factor.den} :
    /\ Power[b] \in [0..AttemptCap -> Nat \ {0}] /\ Power[b][0] = 1
    /\ \A n \in 1..AttemptCap : Power[b][n] = b * Power[b][n - 1]

VARIABLES
  policy,   \* reconnect_policy
  phase,    \* where the loop is, or why it was left
  attempt,  \* attempt
  rapid,    \* _rapid_disconnects, as ages
  wait,     \* the delay the loop waits for
  lost,     \* history: the last disconnect or failed attempt
  outage    \* history: setbacks since a connection was stable

vars == <<policy, phase, attempt, rapid, wait, lost, outage>>

CloseCodes == {"none", "normal", "policy_violation", "service_restart", "try_again_later",
               "other"}                \* "normal": 1000 or 1001
Lesser(a, b)  == IF a <= b THEN a ELSE b
Greater(a, b) == IF a >= b THEN a ELSE b

Init ==
  /\ policy \in Policies
  /\ phase = "connecting" /\ attempt = 0 /\ rapid = <<>> /\ wait = 0
  /\ lost = [uptime |-> 0, code |-> "none", forced |-> FALSE] /\ outage = 0

---------------------------------------------------------------------------------
(***************************************************************************)
(* The window of rapid disconnects.                                        *)
(***************************************************************************)
Beyond == policy.rapid_window + 1
\* Time passes.
Aged(ages, t) == [i \in DOMAIN ages |-> Lesser(ages[i] + t, Beyond)]

KeepAll(ages) == {ages}                                         \* mutant
\* _prune_rapid_disconnects: from the left, as long as the oldest is out of the window.
Pruned(ages) ==
  {SubSeq(ages, n + 1, Len(ages)) :
     n \in {k \in 0..Len(ages) : /\ \A i \in 1..k : ages[i] > policy.rapid_window
                                 /\ k < Len(ages) => ages[k + 1] <= policy.rapid_window}}

\* _record_disconnect, for a connection that has lasted uptime.
Recorded(ages, uptime) ==
  Pruned(IF uptime < policy.rapid_disconnect_uptime THEN Append(ages, 0) ELSE ages)

SuppressLate(ages) ==                                           \* mutant
  /\ policy.rapid_suppress_disconnect_count > 0
  /\ Len(ages) > policy.rapid_suppress_disconnect_count
SuppressByAttempts(ages) ==                                     \* mutant
  /\ policy.rapid_suppress_disconnect_count > 0
  /\ attempt >= policy.rapid_suppress_disconnect_count
\* _should_suppress_reconnect.
ShouldSuppress(ages) ==
  /\ policy.rapid_suppress_disconnect_count > 0
  /\ Len(ages) >= policy.rapid_suppress_disconnect_count

---------------------------------------------------------------------------------
(***************************************************************************)
(* The delay.                                                              *)
(***************************************************************************)
\* _random_between; a draw below the upper end may come as close to it as one likes.
RandomBetween(min, max) ==
  LET low  == Greater(0, min)
      high == Greater(low, max)
  IN {low, high} \cup {d \in Draws : low <= d /\ d <= high}

\* factor ** n, as a fraction.
FactorPower(n) ==
  [num |-> Power[policy.factor.num][n], den |-> Power[policy.factor.den][n]]

\* min(max_delay_s, base_delay_s * factor ** attempt).
BaseDelay(n) ==
  Lesser(policy.max_delay, (policy.base_delay * FactorPower(n).num) \div FactorPower(n).den)

\* min_delay, for a number of rapid disconnects.
RapidFloor(count) ==
  CASE count = 0 -> 0
    [] count = 1 -> policy.rapid_first_min_delay
    [] count = 2 -> policy.rapid_second_min_delay
    [] OTHER -> Lesser(policy.rapid_cooldown_base + policy.rapid_cooldown_step * (count - 3),
                       policy.rapid_cooldown_max)

Percent(n, ratio) == (n * ratio) \div 100

\* _compute_reconnect_delay: hold-down jitter from the third rapid disconnect on, equal
\* jitter before.
Jitter(delay, count) ==
  IF count >= 3
  THEN RandomBetween(Percent(delay, policy.rapid_hold_down_jitter_low_ratio),
                     Percent(delay, policy.rapid_hold_down_jitter_high_ratio))
  ELSE RandomBetween(delay \div 2, delay)

ComputedDelays(n, count) ==
  LET delay == Greater(BaseDelay(n), RapidFloor(count))
  IN IF delay <= 0 THEN {0} ELSE Jitter(delay, count)

\* factor ** attempt is evaluated before min() and raises OverflowError.
Overflows(n) == FactorPower(n).num > MaxFloat * FactorPower(n).den

\* A ReconnectDecision; a maximum of 0 stands for a decision without delays of its own.
Decision(reconnect, terminal, min, max) ==
  [reconnect |-> reconnect, terminal |-> terminal, min |-> min, max |-> max]
Plain == Decision(TRUE, FALSE, 0, 0)

\* _classify_disconnect.
ClassifyDisconnect(code) ==
  CASE code = "normal" /\ ~policy.reconnect_on_normal_close -> Decision(FALSE, FALSE, 0, 0)
    [] code = "policy_violation" /\ policy.policy_violation_is_terminal ->
         Decision(FALSE, TRUE, 0, 0)
    [] code = "service_restart" ->
         Decision(TRUE, FALSE, policy.service_restart_min_delay,
                  policy.service_restart_max_delay)
    [] code = "try_again_later" ->
         Decision(TRUE, FALSE, policy.try_again_later_min_delay,
                  policy.try_again_later_max_delay)
    [] OTHER -> Plain

\* A close the client forced is not classified.
DecisionFor(code, forced) == IF forced THEN Plain ELSE ClassifyDisconnect(code)

OverrideWins(delay, decision) ==                                \* mutant
  IF decision.max > 0 THEN RandomBetween(decision.min, decision.max) ELSE {delay}
\* _apply_disconnect_delay_override.
Overridden(delay, decision) ==
  IF decision.max > 0
  THEN {Greater(delay, d) : d \in RandomBetween(decision.min, decision.max)}
  ELSE {delay}

---------------------------------------------------------------------------------
(***************************************************************************)
(* The loop.                                                               *)
(***************************************************************************)
CountUp(n) == Lesser(n + 1, AttemptCap)

\* Wait, before attempt n, with ages in the window; or fail to compute how long.
Backoff(n, ages, decision) ==
  IF Overflows(n) THEN phase' = "error" /\ wait' = 0
  ELSE /\ phase' = "waiting"
       /\ \E delay \in ComputedDelays(n, Len(ages)) : wait' \in Overridden(delay, decision)

\* A refused or timed out connect(): a disconnect with uptime 0.
ConnectFails(t) ==
  /\ phase = "connecting"
  /\ lost' = [uptime |-> 0, code |-> "none", forced |-> FALSE] /\ UNCHANGED policy
  /\ rapid' \in Recorded(Aged(rapid, t), 0)
  /\ IF ShouldSuppress(rapid')
     THEN phase' = "suppressed" /\ wait' = 0 /\ UNCHANGED attempt
     ELSE Backoff(attempt, rapid', Plain) /\ attempt' = CountUp(attempt)
  /\ outage' = CountUp(outage)

ConnectSucceeds(t) ==
  /\ phase = "connecting"
  /\ phase' = "connected"
  /\ rapid' = Aged(rapid, t)
  /\ UNCHANGED <<policy, attempt, wait, lost, outage>>

WaitEnds ==
  /\ phase = "waiting"
  /\ phase' = "connecting"
  /\ rapid' = Aged(rapid, wait) /\ wait' = 0
  /\ UNCHANGED <<policy, attempt, lost, outage>>

NeverReset(uptime) == CountUp(attempt)                          \* mutant
\* A stable connection starts counting afresh.
AttemptAfter(uptime) == IF uptime >= policy.stable_reset THEN 0 ELSE CountUp(attempt)

\* The connection has ended.  Its uptime is measured after the clean-up and on_disconnect.
Disconnects(uptime, code, forced) ==
  LET decision == DecisionFor(code, forced)
  IN /\ phase = "connected"
     /\ lost' = [uptime |-> uptime, code |-> code, forced |-> forced] /\ UNCHANGED policy
     /\ outage' = IF uptime >= policy.stable_reset THEN 0 ELSE CountUp(outage)
     /\ IF ~decision.reconnect
        THEN /\ phase' = IF decision.terminal THEN "terminal" ELSE "stopped"
             /\ UNCHANGED <<attempt, rapid, wait>>
        ELSE \E ages \in Recorded(Aged(rapid, uptime), uptime) :
               IF ShouldSuppress(ages)
               THEN phase' = "suppressed" /\ rapid' = ages /\ UNCHANGED <<attempt, wait>>
               ELSE /\ attempt' = AttemptAfter(uptime)
                    /\ rapid' = IF uptime >= policy.stable_reset THEN <<>> ELSE ages
                    /\ Backoff(attempt', rapid', decision)

Next ==
  \/ \E t \in ConnectTimes : ConnectFails(t) \/ ConnectSucceeds(t)
  \/ WaitEnds
  \/ \E u \in Uptimes, code \in CloseCodes, forced \in BOOLEAN : Disconnects(u, code, forced)

Spec == Init /\ [][Next]_vars
---------------------------------------------------------------------------------
Phases == {"connecting", "connected", "waiting", "suppressed", "stopped", "terminal", "error"}

\* The ranges of the variables: no delay is negative, and no more rapid disconnects are
\* kept than it takes to give up.
TypeOK ==
  /\ policy \in Policies /\ phase \in Phases /\ attempt \in 0..AttemptCap /\ wait \in Nat
  /\ rapid \in Seq(0..Beyond)
  /\ policy.rapid_suppress_disconnect_count > 0
       => Len(rapid) <= policy.rapid_suppress_disconnect_count
  /\ lost \in [uptime : Nat, code : CloseCodes, forced : BOOLEAN] /\ outage \in 0..AttemptCap

\* A server that restarts, or asks to be tried later, is left alone for the time its policy
\* says, whatever backoff and jitter would have allowed; and from the third rapid disconnect
\* on the wait never falls below the jittered cooldown, whatever the server says.
ServerSpared ==
  phase = "waiting" =>
    /\ wait >= DecisionFor(lost.code, lost.forced).min
    /\ Len(rapid) >= 3
         => wait >= Percent(RapidFloor(Len(rapid)), policy.rapid_hold_down_jitter_low_ratio)

\* The hold-down outgrows the window: with the default policy no more than five rapid
\* disconnects ever count at a time, half of what makes the client give up; it never does.
HoldDownWins == policy = DefaultPolicy => Len(rapid) <= 5 /\ phase # "suppressed"

\* The connection that ends after stable_reset_s is followed by no longer a wait than the
\* first one of a session, or the one its close code asks for, whatever came before it.
StableForgets ==
  [][phase = "connected" /\ phase' = "waiting" /\ lost'.uptime >= policy.stable_reset
       => wait' <= Greater(BaseDelay(0), DecisionFor(lost'.code, lost'.forced).max)]_vars

\* Only an outage can end the retries with an error: one with enough setbacks in a row, and
\* no stable connection between them, for a power of the factor that is no float, however
\* many there were before.
RetriesGoOn == phase = "error" => \E n \in 0..outage : Overflows(n)

\* The clock, the window and the delays keep the promise of ReconnectBudget.
Budget == INSTANCE ReconnectBudget WITH
            limit <- policy.rapid_suppress_disconnect_count, count <- Len(rapid)
BudgetSpec == Budget!Spec
=================================================================================
