------------------------ MODULE ReconnectControllerProofs ------------------------
(***************************************************************************)
(* What the reconnect policy guarantees for every valid policy, however    *)
(* long attempts and connections last and whatever is drawn at random.     *)
(***************************************************************************)
EXTENDS ReconnectController, SequenceTheorems, TLAPS

LEMMA Fields ==
  ASSUME NEW p \in Policies
  PROVE  /\ ValidPolicy(p)
         /\ {p.reconnect_on_normal_close, p.policy_violation_is_terminal} \subseteq BOOLEAN
         /\ p.base_delay \in Nat /\ p.max_delay \in Nat
         /\ p.stable_reset \in Nat
         /\ p.service_restart_min_delay \in Nat /\ p.service_restart_max_delay \in Nat
         /\ p.try_again_later_min_delay \in Nat /\ p.try_again_later_max_delay \in Nat
         /\ p.rapid_disconnect_uptime \in Nat /\ p.rapid_window \in Nat
         /\ p.rapid_first_min_delay \in Nat /\ p.rapid_second_min_delay \in Nat
         /\ p.rapid_cooldown_base \in Nat /\ p.rapid_cooldown_step \in Nat
         /\ p.rapid_cooldown_max \in Nat /\ p.rapid_suppress_disconnect_count \in Nat
         /\ p.rapid_hold_down_jitter_low_ratio \in Nat
         /\ p.rapid_hold_down_jitter_high_ratio \in Nat
<1>1. DOMAIN p = DOMAIN DefaultPolicy /\ PolicyTyped(p) /\ ValidPolicy(p)
  BY PolicyAssumption
<1>2. DOMAIN p = {"base_delay", "factor", "max_delay", "stable_reset",
         "reconnect_on_normal_close", "policy_violation_is_terminal",
         "service_restart_min_delay", "service_restart_max_delay",
         "try_again_later_min_delay", "try_again_later_max_delay",
         "rapid_disconnect_uptime", "rapid_window", "rapid_first_min_delay",
         "rapid_second_min_delay", "rapid_cooldown_base", "rapid_cooldown_step",
         "rapid_cooldown_max", "rapid_suppress_disconnect_count",
         "rapid_hold_down_jitter_low_ratio", "rapid_hold_down_jitter_high_ratio"}
  BY <1>1 DEF DefaultPolicy
<1>3. \A f \in (DOMAIN p) \ {"factor", "reconnect_on_normal_close",
                            "policy_violation_is_terminal"} : p[f] \in Int
  BY <1>1 DEF PolicyTyped
<1> QED
  BY <1>1, <1>2, <1>3 DEF PolicyTyped, ValidPolicy

---------------------------------------------------------------------------------
(***************************************************************************)
(* Delays.                                                                 *)
(***************************************************************************)
LEMMA Draw ==
  ASSUME NEW min \in Nat, NEW max \in Nat, NEW d \in RandomBetween(min, max)
  PROVE  d \in Nat /\ d >= min /\ d <= Greater(min, max)
BY PolicyAssumption DEF RandomBetween, Greater

LEMMA FactorPowerType ==
  ASSUME policy \in Policies, NEW n \in 0..AttemptCap
  PROVE  FactorPower(n).num \in Nat /\ FactorPower(n).den \in Nat \ {0}
<1>1. \A b \in {policy.factor.num, policy.factor.den} :
        Power[b] \in [0..AttemptCap -> Nat \ {0}]
  <2>1. \A p \in Policies : \A b \in {p.factor.num, p.factor.den} :
          Power[b] \in [0..AttemptCap -> Nat \ {0}]
    BY PowerAssumption
  <2> QED
    BY <2>1
<1>2. \A b \in {policy.factor.num, policy.factor.den} : Power[b][n] \in Nat \ {0}
  BY <1>1
<1> QED
  BY <1>2 DEF FactorPower

LEMMA BaseDelayType ==
  ASSUME policy \in Policies, NEW n \in 0..AttemptCap
  PROVE  BaseDelay(n) \in Nat /\ BaseDelay(n) <= policy.max_delay
<1> DEFINE base == policy.base_delay
           max  == policy.max_delay
           num  == FactorPower(n).num
           den  == FactorPower(n).den
<1>1. base \in Nat /\ max \in Nat
  BY Fields
<1>2. num \in Nat /\ den \in Nat \ {0}
  BY FactorPowerType
<1>3. BaseDelay(n) = Lesser(max, (base * num) \div den)
  BY DEF BaseDelay
<1> HIDE DEF base, max, num, den
<1>4. base * num \in Nat
  BY <1>1, <1>2
<1>5. (base * num) \div den \in Nat
  BY <1>2, <1>4
<1>6. Lesser(max, (base * num) \div den) \in Nat /\ Lesser(max, (base * num) \div den) <= max
  BY <1>1, <1>5 DEF Lesser
<1> QED
  BY <1>3, <1>6 DEF max

LEMMA FloorType ==
  ASSUME policy \in Policies, NEW count \in Nat
  PROVE  RapidFloor(count) \in Nat
<1>1. CASE count < 3
  <2>1. count = 0 \/ count = 1 \/ count = 2
    BY <1>1
  <2>2. policy.rapid_first_min_delay \in Nat /\ policy.rapid_second_min_delay \in Nat
    BY Fields
  <2> QED
    BY <2>1, <2>2 DEF RapidFloor
<1>2. CASE count >= 3
  <2>1. policy.rapid_cooldown_step * (count - 3) \in Nat
    BY <1>2, Fields
  <2> QED
    BY <1>2, <2>1, Fields DEF RapidFloor, Lesser
<1> QED
  BY <1>1, <1>2

LEMMA PercentGrows ==
  ASSUME NEW a \in Nat, NEW b \in Nat, a <= b, NEW r \in Nat
  PROVE  Percent(a, r) \in Nat /\ Percent(b, r) \in Nat /\ Percent(a, r) <= Percent(b, r)
<1>1. a * r \in Nat /\ b * r \in Nat
  OBVIOUS
<1>2. a * r <= b * r
  OBVIOUS
<1> QED
  BY <1>1, <1>2 DEF Percent

\* The least a computed delay can be.
Least(count) ==
  IF count >= 3 THEN Percent(RapidFloor(count), policy.rapid_hold_down_jitter_low_ratio)
  ELSE RapidFloor(count) \div 2

LEMMA DelayAtLeast ==
  ASSUME policy \in Policies, NEW n \in 0..AttemptCap, NEW count \in Nat,
         NEW d \in ComputedDelays(n, count)
  PROVE  d \in Nat /\ Least(count) \in Nat /\ d >= Least(count)
<1> DEFINE delay == Greater(BaseDelay(n), RapidFloor(count))
           low   == policy.rapid_hold_down_jitter_low_ratio
           high  == policy.rapid_hold_down_jitter_high_ratio
<1>1. delay \in Nat /\ RapidFloor(count) \in Nat /\ RapidFloor(count) <= delay
  BY BaseDelayType, FloorType DEF Greater
<1>2. low \in Nat /\ high \in Nat /\ low <= high
  BY Fields DEF ValidPolicy
<1>3. Percent(RapidFloor(count), low) \in Nat /\ Percent(delay, low) \in Nat
      /\ Percent(RapidFloor(count), low) <= Percent(delay, low)
  <2> HIDE DEF delay, low
  <2> QED
    BY <1>1, <1>2, PercentGrows
<1>high. Percent(delay, high) \in Nat
  BY <1>1, <1>2, PercentGrows
<1>4. CASE delay <= 0
  <2>1. d = 0 /\ RapidFloor(count) = 0
    BY <1>1, <1>4 DEF ComputedDelays
  <2>2. Percent(0, low) = 0
    BY <1>2 DEF Percent
  <2> QED
    BY <2>1, <2>2 DEF Least
<1>5. CASE delay > 0 /\ count >= 3
  <2>1. d \in RandomBetween(Percent(delay, low), Percent(delay, high))
    BY <1>1, <1>5 DEF ComputedDelays, Jitter
  <2> QED
    BY <2>1, <1>3, <1>high, <1>5, Draw DEF Least
<1>6. CASE delay > 0 /\ ~(count >= 3)
  <2>1. d \in RandomBetween(delay \div 2, delay)
    BY <1>1, <1>6 DEF ComputedDelays, Jitter
  <2>2. delay \div 2 \in Nat /\ RapidFloor(count) \div 2 \in Nat
        /\ RapidFloor(count) \div 2 <= delay \div 2
    BY <1>1
  <2> QED
    BY <2>1, <2>2, <1>1, <1>6, Draw DEF Least
<1> QED
  BY <1>1, <1>4, <1>5, <1>6

LEMMA DecisionType ==
  ASSUME policy \in Policies, NEW code, NEW forced \in BOOLEAN
  PROVE  /\ DecisionFor(code, forced).min \in Nat /\ DecisionFor(code, forced).max \in Nat
         /\ DecisionFor(code, forced).min <= DecisionFor(code, forced).max
<1> DEFINE Proper(d) == d.min \in Nat /\ d.max \in Nat /\ d.min <= d.max
<1>2. /\ policy.service_restart_min_delay \in Nat /\ policy.service_restart_max_delay \in Nat
      /\ policy.service_restart_min_delay <= policy.service_restart_max_delay
      /\ policy.try_again_later_min_delay \in Nat /\ policy.try_again_later_max_delay \in Nat
      /\ policy.try_again_later_min_delay <= policy.try_again_later_max_delay
  BY Fields DEF ValidPolicy
<1>3. Proper(Plain)
  BY DEF Plain, Decision
<1>4. Proper(ClassifyDisconnect(code))
  <2>1. CASE code = "service_restart"
    BY <1>2, <2>1 DEF ClassifyDisconnect, Decision
  <2>2. CASE code = "try_again_later"
    BY <1>2, <2>2 DEF ClassifyDisconnect, Decision
  <2>3. CASE code \notin {"service_restart", "try_again_later"}
    BY <1>3, <2>3 DEF ClassifyDisconnect, Decision
  <2> QED
    BY <2>1, <2>2, <2>3
<1> QED
  BY <1>3, <1>4 DEF DecisionFor

LEMMA OverrideAtLeast ==
  ASSUME policy \in Policies, NEW code, NEW forced \in BOOLEAN, NEW delay \in Nat,
         NEW d \in Overridden(delay, DecisionFor(code, forced))
  PROVE  /\ d \in Nat /\ d >= delay
         /\ d >= DecisionFor(code, forced).min
         /\ d <= Greater(delay, DecisionFor(code, forced).max)
<1> DEFINE decision == DecisionFor(code, forced)
<1>1. decision.min \in Nat /\ decision.max \in Nat /\ decision.min <= decision.max
  BY DecisionType
<1>2. CASE decision.max > 0
  <2>1. PICK o \in RandomBetween(decision.min, decision.max) : d = Greater(delay, o)
    BY <1>2 DEF Overridden
  <2>2. o \in Nat /\ o >= decision.min /\ o <= decision.max
    BY <1>1, Draw DEF Greater
  <2> QED
    BY <1>1, <2>1, <2>2 DEF Greater
<1>3. CASE ~(decision.max > 0)
  BY <1>1, <1>3 DEF Overridden, Greater
<1> QED
  BY <1>2, <1>3

---------------------------------------------------------------------------------
(***************************************************************************)
(* The window.                                                             *)
(***************************************************************************)
LEMMA AgedType ==
  ASSUME policy \in Policies, NEW ages \in Seq(0..Beyond), NEW t \in Nat
  PROVE  /\ Aged(ages, t) \in Seq(0..Beyond) /\ Len(Aged(ages, t)) = Len(ages)
         /\ \A i \in 1..Len(ages) : Aged(ages, t)[i] = Lesser(ages[i] + t, Beyond)
<1>1. Beyond \in Nat
  BY Fields DEF Beyond
<1>2. /\ DOMAIN ages = 1..Len(ages) /\ Len(ages) \in Nat
      /\ \A i \in 1..Len(ages) : ages[i] \in 0..Beyond
  BY LenProperties, ElementOfSeq
<1>3. \A i \in 1..Len(ages) : Lesser(ages[i] + t, Beyond) \in 0..Beyond
  BY <1>1, <1>2 DEF Lesser
<1>4. Aged(ages, t) \in [1..Len(ages) -> 0..Beyond]
  BY <1>2, <1>3 DEF Aged
<1> QED
  BY <1>2, <1>4, SeqDef, LenProperties DEF Aged

LEMMA PrunedType ==
  ASSUME policy \in Policies, NEW ages \in Seq(0..Beyond), NEW kept \in Pruned(ages)
  PROVE  /\ kept \in Seq(0..Beyond)
         /\ \E n \in 0..Len(ages) :
              /\ Len(kept) = Len(ages) - n
              /\ \A i \in 1..Len(kept) : kept[i] = ages[i + n]
         /\ Len(kept) > 0 => kept[1] <= policy.rapid_window
<1>1. PICK n \in 0..Len(ages) :
        /\ kept = SubSeq(ages, n + 1, Len(ages))
        /\ n < Len(ages) => ages[n + 1] <= policy.rapid_window
  BY DEF Pruned
<1>2. /\ kept \in Seq(0..Beyond) /\ Len(kept) = Len(ages) - n
      /\ \A i \in 1..Len(kept) : kept[i] = ages[i + n]
  <2>1. Len(ages) \in Nat /\ \A i \in (n + 1)..Len(ages) : ages[i] \in 0..Beyond
    <3>1. Len(ages) \in Nat
      BY LenProperties
    <3>2. \A i \in 1..Len(ages) : ages[i] \in 0..Beyond
      BY ElementOfSeq
    <3> QED
      BY <3>1, <3>2
  <2> DEFINE m == n + 1
             k == Len(ages)
  <2>2. m \in Int /\ k \in Int /\ \A i \in m..k : ages[i] \in 0..Beyond
    BY <2>1
  <2> HIDE DEF m, k
  <2>3. /\ SubSeq(ages, m, k) \in Seq(0..Beyond)
        /\ Len(SubSeq(ages, m, k)) = IF m <= k THEN k - m + 1 ELSE 0
        /\ \A i \in 1..(k - m + 1) : SubSeq(ages, m, k)[i] = ages[m + i - 1]
    BY <2>2, SubSeqProperties
  <2>4. kept = SubSeq(ages, m, k) /\ m = n + 1 /\ k = Len(ages)
    BY <1>1 DEF m, k
  <2>5. Len(kept) = k - m + 1
    BY <2>1, <2>2, <2>3, <2>4
  <2>6. \A i \in 1..Len(kept) : kept[i] = ages[i + n]
    BY <2>1, <2>3, <2>4, <2>5
  <2> QED
    BY <2>1, <2>3, <2>4, <2>5, <2>6
<1>3. Len(kept) > 0 => kept[1] = ages[n + 1]
  BY <1>2
<1> QED
  BY <1>1, <1>2, <1>3

LEMMA RecordedType ==
  ASSUME policy \in Policies, NEW ages \in Seq(0..Beyond), NEW t \in Nat, NEW uptime \in Nat,
         NEW kept \in Recorded(Aged(ages, t), uptime)
  PROVE  /\ kept \in Seq(0..Beyond) /\ Len(kept) <= Len(ages) + 1
         /\ Len(kept) > 0 => kept[1] <= policy.rapid_window
<1>1. Aged(ages, t) \in Seq(0..Beyond) /\ Len(Aged(ages, t)) = Len(ages)
  BY AgedType
<1>2. Beyond \in Nat
  BY Fields DEF Beyond
<1> DEFINE more == IF uptime < policy.rapid_disconnect_uptime THEN Append(Aged(ages, t), 0)
                   ELSE Aged(ages, t)
<1>3. more \in Seq(0..Beyond) /\ Len(more) <= Len(ages) + 1
  <2>1. /\ Append(Aged(ages, t), 0) \in Seq(0..Beyond)
        /\ Len(Append(Aged(ages, t), 0)) = Len(ages) + 1
    BY <1>1, <1>2, AppendProperties
  <2>2. Len(ages) \in Nat
    BY LenProperties
  <2>3. CASE uptime < policy.rapid_disconnect_uptime
    BY <2>1, <2>2, <2>3
  <2>4. CASE ~(uptime < policy.rapid_disconnect_uptime)
    BY <1>1, <2>2, <2>4
  <2> QED
    BY <2>3, <2>4
<1>4. kept \in Pruned(more)
  BY DEF Recorded
<1> HIDE DEF more
<1>5. kept \in Seq(0..Beyond) /\ Len(kept) <= Len(more) /\ Len(more) \in Nat
      /\ (Len(kept) > 0 => kept[1] <= policy.rapid_window)
  BY <1>3, <1>4, PrunedType
<1> QED
  BY <1>3, <1>5

---------------------------------------------------------------------------------
(***************************************************************************)
(* Every step of the loop, in the terms of the properties: which phase it  *)
(* leads to, with how many rapid disconnects and how long a wait.          *)
(***************************************************************************)
Threshold == policy.rapid_suppress_disconnect_count

\* As long as the loop goes on the threshold is not met.
Below(count) == Threshold > 0 => count < Threshold

IInv == TypeOK /\ (phase # "suppressed" => Below(Len(rapid)))

LEMMA BackoffType ==
  ASSUME policy \in Policies, NEW n \in 0..AttemptCap, NEW ages \in Seq(0..Beyond), NEW code,
         NEW forced \in BOOLEAN, Backoff(n, ages, DecisionFor(code, forced))
  PROVE  /\ phase' \in {"waiting", "error"} /\ wait' \in Nat
         /\ phase' = "waiting" => /\ wait' >= DecisionFor(code, forced).min
                                /\ Least(Len(ages)) \in Nat /\ wait' >= Least(Len(ages))
<1> DEFINE decision == DecisionFor(code, forced)
<1>1. CASE Overflows(n)
  BY <1>1 DEF Backoff
<1>2. CASE ~Overflows(n)
  <2>1. PICK delay \in ComputedDelays(n, Len(ages)) : wait' \in Overridden(delay, decision)
    BY <1>2 DEF Backoff
  <2>2. Len(ages) \in Nat
    BY LenProperties
  <2>3. delay \in Nat /\ Least(Len(ages)) \in Nat /\ delay >= Least(Len(ages))
    BY <2>2, DelayAtLeast
  <2>4. decision.min \in Nat
    BY DecisionType
  <2>5. wait' \in Nat /\ wait' >= delay /\ wait' >= decision.min
    <3> HIDE DEF decision
    <3>1. \A d \in Overridden(delay, decision) : d \in Nat /\ d >= delay /\ d >= decision.min
      BY <2>3, OverrideAtLeast DEF decision
    <3> QED
      BY <2>1, <3>1
  <2> QED
    BY <1>2, <2>3, <2>4, <2>5 DEF Backoff
<1> QED
  BY <1>1, <1>2

\* A disconnect that is followed by a retry, or meets the threshold.
Setback(uptime, code, forced) ==
  /\ phase \in {"connecting", "connected"}
  /\ lost' = [uptime |-> uptime, code |-> code, forced |-> forced] /\ policy' = policy
  /\ uptime \in Nat /\ code \in CloseCodes /\ forced \in BOOLEAN
  /\ rapid' \in Seq(0..Beyond) /\ attempt' \in 0..AttemptCap /\ wait' \in Nat
  /\ outage' \in 0..AttemptCap
  /\ Len(rapid') <= Len(rapid) + 1
  /\ \/ /\ phase' = "suppressed" /\ Threshold > 0 /\ Len(rapid') >= Threshold
     \/ /\ phase' \in {"waiting", "error"} /\ Below(Len(rapid'))
        /\ phase' = "waiting" => /\ wait' >= DecisionFor(code, forced).min
                               /\ Least(Len(rapid')) \in Nat
                               /\ wait' >= Least(Len(rapid'))

LEMMA SuppressType ==
  ASSUME policy \in Policies, NEW ages \in Seq(0..Beyond)
  PROVE  /\ ShouldSuppress(ages) => Threshold > 0 /\ Len(ages) >= Threshold
         /\ ~ShouldSuppress(ages) => Below(Len(ages))
<1>1. Len(ages) \in Nat /\ Threshold \in Nat
  BY LenProperties, Fields DEF Threshold
<1> QED
  BY <1>1 DEF ShouldSuppress, Below, Threshold

LEMMA AttemptType ==
  ASSUME policy \in Policies, NEW uptime \in Nat, attempt \in 0..AttemptCap,
         outage \in 0..AttemptCap
  PROVE  /\ CountUp(attempt) \in 0..AttemptCap /\ AttemptAfter(uptime) \in 0..AttemptCap
         /\ CountUp(outage) \in 0..AttemptCap
         /\ (IF uptime >= policy.stable_reset THEN 0 ELSE CountUp(outage)) \in 0..AttemptCap
BY PolicyAssumption DEF CountUp, AttemptAfter, Lesser

LEMMA ConnectFailsSteps ==
  ASSUME TypeOK, NEW t \in ConnectTimes, ConnectFails(t)
  PROVE  Setback(0, "none", FALSE)
<1>1. policy \in Policies /\ rapid \in Seq(0..Beyond) /\ t \in Nat /\ wait \in Nat
      /\ attempt \in 0..AttemptCap /\ attempt \in Nat /\ outage \in 0..AttemptCap
  BY PolicyAssumption DEF TypeOK
<1>2. rapid' \in Seq(0..Beyond) /\ Len(rapid') <= Len(rapid) + 1
  BY <1>1, RecordedType DEF ConnectFails
<1>3. Plain = DecisionFor("none", FALSE)
  BY DEF DecisionFor, ClassifyDisconnect
<1>4. CountUp(attempt) \in 0..AttemptCap /\ outage' \in 0..AttemptCap
  BY <1>1, AttemptType DEF ConnectFails
<1>5. CASE ShouldSuppress(rapid')
  BY <1>1, <1>2, <1>4, <1>5, SuppressType DEF ConnectFails, Setback, CloseCodes
<1>6. CASE ~ShouldSuppress(rapid')
  <2>1. Backoff(attempt, rapid', DecisionFor("none", FALSE)) /\ attempt' = CountUp(attempt)
    BY <1>3, <1>6 DEF ConnectFails
  <2>2. /\ phase' \in {"waiting", "error"} /\ wait' \in Nat
        /\ phase' = "waiting" => /\ wait' >= DecisionFor("none", FALSE).min
                               /\ Least(Len(rapid')) \in Nat /\ wait' >= Least(Len(rapid'))
    BY <1>1, <1>2, <2>1, BackoffType
  <2>3. Below(Len(rapid'))
    BY <1>1, <1>2, <1>6, SuppressType
  <2> QED
    BY <1>2, <1>4, <2>1, <2>2, <2>3 DEF ConnectFails, Setback, CloseCodes
<1> QED
  BY <1>5, <1>6

LEMMA DisconnectsSteps ==
  ASSUME TypeOK, NEW u \in Uptimes, NEW code \in CloseCodes, NEW forced \in BOOLEAN,
         Disconnects(u, code, forced)
  PROVE  \/ Setback(u, code, forced)
         \/ /\ phase' \in {"terminal", "stopped"} /\ UNCHANGED <<policy, attempt, rapid, wait>>
            /\ lost' = [uptime |-> u, code |-> code, forced |-> forced]
            /\ outage' \in 0..AttemptCap
<1>1. policy \in Policies /\ rapid \in Seq(0..Beyond) /\ u \in Nat /\ wait \in Nat
      /\ attempt \in 0..AttemptCap /\ outage \in 0..AttemptCap
  BY PolicyAssumption DEF TypeOK
<1>o. outage' \in 0..AttemptCap
  BY <1>1, AttemptType DEF Disconnects
<1> DEFINE decision == DecisionFor(code, forced)
<1>2. CASE ~decision.reconnect
  BY <1>2, <1>o DEF Disconnects
<1>3. CASE decision.reconnect
  <2>1. PICK ages \in Recorded(Aged(rapid, u), u) :
          IF ShouldSuppress(ages)
          THEN phase' = "suppressed" /\ rapid' = ages /\ UNCHANGED <<attempt, wait>>
          ELSE /\ attempt' = AttemptAfter(u)
               /\ rapid' = IF u >= policy.stable_reset THEN <<>> ELSE ages
               /\ Backoff(attempt', rapid', decision)
    BY <1>3 DEF Disconnects
  <2>2. ages \in Seq(0..Beyond) /\ Len(ages) <= Len(rapid) + 1
    BY <1>1, RecordedType
  <2>3. lost' = [uptime |-> u, code |-> code, forced |-> forced] /\ policy' = policy
    BY DEF Disconnects
  <2>4. CASE ShouldSuppress(ages)
    <3>1. Threshold > 0 /\ Len(ages) >= Threshold
      BY <1>1, <2>2, <2>4, SuppressType
    <3>2. /\ phase = "connected" /\ phase' = "suppressed" /\ rapid' = ages
          /\ UNCHANGED <<attempt, wait>>
      BY <2>1, <2>4 DEF Disconnects
    <3> QED
      BY <1>1, <1>o, <2>2, <2>3, <3>1, <3>2 DEF Setback
  <2>5. CASE ~ShouldSuppress(ages)
    <3>1. attempt' \in 0..AttemptCap /\ attempt' \in Nat
      BY <1>1, <2>1, <2>5, AttemptType
    <3>2. /\ rapid' \in Seq(0..Beyond) /\ Len(rapid') <= Len(rapid) + 1
          /\ Below(Len(rapid'))
      <4>1. Len(ages) \in Nat /\ Len(rapid) \in Nat
        BY <1>1, <2>2, LenProperties
      <4>2. CASE u >= policy.stable_reset
        <5>1. rapid' = <<>>
          BY <2>1, <2>5, <4>2
        <5>2. <<>> \in Seq(0..Beyond) /\ Len(<<>>) = 0
          BY EmptySeq
        <5> QED
          BY <4>1, <5>1, <5>2 DEF Below
      <4>3. CASE ~(u >= policy.stable_reset)
        BY <1>1, <2>1, <2>2, <2>5, <4>3, SuppressType
      <4> QED
        BY <4>2, <4>3
    <3>3. Backoff(attempt', rapid', DecisionFor(code, forced))
      BY <2>1, <2>5
    <3>4. /\ phase' \in {"waiting", "error"} /\ wait' \in Nat
          /\ phase' = "waiting" => /\ wait' >= DecisionFor(code, forced).min
                                 /\ Least(Len(rapid')) \in Nat /\ wait' >= Least(Len(rapid'))
      BY <1>1, <3>1, <3>2, <3>3, BackoffType
    <3>5. phase = "connected"
      BY DEF Disconnects
    <3> QED
      BY <1>1, <1>o, <2>3, <3>1, <3>2, <3>4, <3>5 DEF Setback
  <2> QED
    BY <2>4, <2>5
<1> QED
  BY <1>2, <1>3

---------------------------------------------------------------------------------
LEMMA Start == Init => IInv
<1> SUFFICES ASSUME Init PROVE IInv
  OBVIOUS
<1>1. policy \in Policies /\ Beyond \in Nat /\ Threshold \in Nat
  BY Fields DEF Init, Beyond, Threshold
<1>2. rapid = <<>> /\ rapid \in Seq(0..Beyond) /\ Len(rapid) = 0
  BY EmptySeq DEF Init
<1> QED
  BY <1>1, <1>2, PolicyAssumption DEF Init, IInv, TypeOK, Phases, CloseCodes, Below, Threshold

LEMMA SetbackTyped ==
  ASSUME IInv, NEW u, NEW code, NEW forced, Setback(u, code, forced)
  PROVE  IInv'
<1>1. policy \in Policies /\ policy' = policy /\ Threshold \in Nat
      /\ Len(rapid) \in Nat /\ Len(rapid') \in Nat
  BY Fields, LenProperties DEF IInv, TypeOK, Setback, Threshold
<1>2. Beyond' = Beyond /\ Threshold' = Threshold
  BY <1>1 DEF Beyond, Threshold
<1>3. /\ policy' \in Policies /\ phase' \in Phases /\ attempt' \in 0..AttemptCap
      /\ wait' \in Nat /\ rapid' \in Seq(0..Beyond')
      /\ lost' \in [uptime : Nat, code : CloseCodes, forced : BOOLEAN]
      /\ outage' \in 0..AttemptCap
  BY <1>1, <1>2 DEF Setback, Phases
<1>4. CASE phase' = "suppressed"
  BY <1>1, <1>2, <1>3, <1>4 DEF IInv, TypeOK, Setback, Below, Threshold
<1>5. CASE phase' # "suppressed"
  BY <1>1, <1>2, <1>3, <1>5 DEF IInv, TypeOK, Setback, Below, Threshold
<1> QED
  BY <1>4, <1>5

LEMMA Step == IInv /\ [Next]_vars => IInv'
<1> SUFFICES ASSUME IInv, [Next]_vars PROVE IInv'
  OBVIOUS
<1>1. ASSUME NEW t \in ConnectTimes, ConnectFails(t) PROVE IInv'
  BY <1>1, ConnectFailsSteps, SetbackTyped DEF IInv
<1>2. ASSUME NEW t \in ConnectTimes, ConnectSucceeds(t) PROVE IInv'
  <2>1. Aged(rapid, t) \in Seq(0..Beyond) /\ Len(Aged(rapid, t)) = Len(rapid)
    BY PolicyAssumption, AgedType DEF IInv, TypeOK
  <2> QED
    BY <1>2, <2>1 DEF ConnectSucceeds, IInv, TypeOK, Phases, Below, Beyond, Threshold
<1>3. CASE WaitEnds
  <2>1. Aged(rapid, wait) \in Seq(0..Beyond) /\ Len(Aged(rapid, wait)) = Len(rapid)
    BY AgedType DEF IInv, TypeOK
  <2> QED
    BY <1>3, <2>1 DEF WaitEnds, IInv, TypeOK, Phases, Below, Beyond, Threshold
<1>4. ASSUME NEW u \in Uptimes, NEW code \in CloseCodes, NEW forced \in BOOLEAN,
             Disconnects(u, code, forced)
      PROVE  IInv'
  <2>1. CASE Setback(u, code, forced)
    BY <2>1, SetbackTyped
  <2>2. CASE /\ phase' \in {"terminal", "stopped"} /\ UNCHANGED <<policy, attempt, rapid, wait>>
             /\ lost' = [uptime |-> u, code |-> code, forced |-> forced]
             /\ outage' \in 0..AttemptCap
    <3>1. phase # "suppressed" /\ u \in Nat
      BY <1>4, PolicyAssumption DEF Disconnects
    <3> QED
      BY <2>2, <3>1 DEF IInv, TypeOK, Phases, Below, Beyond, Threshold
  <2> QED
    BY <1>4, <2>1, <2>2, DisconnectsSteps DEF IInv
<1>5. CASE UNCHANGED vars
  BY <1>5 DEF vars, IInv, TypeOK, Phases, Below, Beyond, Threshold
<1> QED
  BY <1>1, <1>2, <1>3, <1>4, <1>5 DEF Next

\* The loop keeps its types, and the rapid disconnects stay below the threshold of the
\* policy until the one that meets it.
THEOREM Invariant == Spec => []IInv
BY Start, Step, PTL DEF Spec

\* Type correctness, for every policy validate_reconnect_policy accepts whose times are whole
\* ticks and whose jitter ratios are whole percents.
THEOREM TypeCorrect == Spec => []TypeOK
<1>1. IInv => TypeOK
  BY DEF IInv
<1> QED
  BY <1>1, Invariant, PTL

---------------------------------------------------------------------------------
\* The window, the clock and the delays keep what ReconnectBudget promises.
THEOREM ImplementsBudget == Spec => BudgetSpec
<1>1. Init => Budget!Init
  <2> SUFFICES ASSUME Init PROVE Budget!Init
    OBVIOUS
  <2>1. policy.rapid_suppress_disconnect_count \in Nat
    BY Fields DEF Init
  <2>2. Len(rapid) = 0
    BY EmptySeq DEF Init
  <2> QED
    BY <2>1, <2>2 DEF Init, Budget!Init
<1>2. IInv /\ [Next]_vars
        => [Budget!Next]_<<policy.rapid_suppress_disconnect_count, phase, Len(rapid)>>
  <2> SUFFICES ASSUME IInv, [Next]_vars
               PROVE  [Budget!Next]_<<policy.rapid_suppress_disconnect_count, phase, Len(rapid)>>
    OBVIOUS
  <2> USE DEF Budget!Next
  <2>1. /\ policy \in Policies /\ rapid \in Seq(0..Beyond) /\ wait \in Nat
        /\ Len(rapid) \in Nat /\ Threshold \in Nat
    BY Fields, LenProperties DEF IInv, TypeOK, Threshold
  <2>2. ASSUME NEW u, NEW code, NEW forced, Setback(u, code, forced)
        PROVE  Budget!Next
    <3>1. Len(rapid') \in Nat /\ policy' = policy
      BY <2>2, LenProperties DEF Setback
    <3>2. Below(Len(rapid))
      BY <2>2 DEF IInv, Setback
    <3>3. CASE phase' = "suppressed"
      BY <2>1, <2>2, <3>1, <3>2, <3>3 DEF Setback, Below, Threshold, Budget!GiveUp
    <3>4. CASE phase' = "waiting"
      BY <2>1, <2>2, <3>1, <3>4 DEF Setback, Below, Threshold, Budget!Retry, Budget!Met
    <3>5. CASE phase' = "error"
      BY <2>1, <2>2, <3>1, <3>5 DEF Setback, Below, Threshold, Budget!Fails, Budget!Met
    <3> QED
      BY <2>2, <3>3, <3>4, <3>5 DEF Setback
  <2>3. ASSUME NEW t \in ConnectTimes, ConnectFails(t) PROVE Budget!Next
    BY <2>2, <2>3, ConnectFailsSteps DEF IInv, ConnectFails
  <2>4. ASSUME NEW t \in ConnectTimes, ConnectSucceeds(t) PROVE Budget!Next
    <3>1. Len(Aged(rapid, t)) = Len(rapid)
      BY <2>1, PolicyAssumption, AgedType
    <3> QED
      BY <2>4, <3>1 DEF ConnectSucceeds, Budget!Connect
  <2>5. CASE WaitEnds
    <3>1. Len(Aged(rapid, wait)) = Len(rapid)
      BY <2>1, AgedType
    <3> QED
      BY <2>5, <3>1 DEF WaitEnds, Budget!Resume
  <2>6. ASSUME NEW u \in Uptimes, NEW code \in CloseCodes, NEW forced \in BOOLEAN,
               Disconnects(u, code, forced)
        PROVE  Budget!Next
    <3>1. phase = "connected"
      BY <2>6 DEF Disconnects
    <3>2. CASE Setback(u, code, forced)
      BY <2>2, <3>1, <3>2
    <3>3. CASE /\ phase' \in {"terminal", "stopped"} /\ UNCHANGED <<policy, attempt, rapid, wait>>
               /\ lost' = [uptime |-> u, code |-> code, forced |-> forced]
      BY <3>1, <3>3 DEF Budget!Final
    <3> QED
      BY <2>6, <3>2, <3>3, DisconnectsSteps DEF IInv
  <2>7. CASE UNCHANGED vars
    BY <2>7 DEF vars
  <2> QED
    BY <2>3, <2>4, <2>5, <2>6, <2>7 DEF Next
<1> QED
  BY <1>1, <1>2, Invariant, PTL DEF Spec, BudgetSpec, Budget!Spec

---------------------------------------------------------------------------------
\* No jitter, backoff or cooldown makes the client come back earlier than a restarting or
\* overloaded server asked for, and no server makes it skip the cooldown.
THEOREM SparesServer == Spec => []ServerSpared
<1>1. Init => ServerSpared
  BY DEF Init, ServerSpared
<1>2. IInv /\ ServerSpared /\ [Next]_vars => ServerSpared'
  <2> SUFFICES ASSUME IInv, ServerSpared, [Next]_vars, phase' = "waiting"
               PROVE  ServerSpared'
    BY DEF ServerSpared
  <2>1. ASSUME NEW u, NEW code, NEW forced, Setback(u, code, forced) PROVE ServerSpared'
    <3>1. /\ policy' = policy /\ lost'.code = code /\ lost'.forced = forced
          /\ wait' >= DecisionFor(code, forced).min /\ wait' >= Least(Len(rapid'))
      BY <2>1 DEF Setback
    <3>2. DecisionFor(lost.code, lost.forced)' = DecisionFor(code, forced)
      BY <3>1 DEF DecisionFor, Plain, ClassifyDisconnect, Decision
    <3>3. RapidFloor(Len(rapid))' = RapidFloor(Len(rapid'))
      BY <3>1 DEF RapidFloor
    <3>4. wait' >= DecisionFor(lost.code, lost.forced)'.min
      BY <3>1, <3>2
    <3>5. Len(rapid') >= 3
            => wait' >= Percent(RapidFloor(Len(rapid')), policy.rapid_hold_down_jitter_low_ratio)
      BY <3>1 DEF Least
    <3>6. (Len(rapid) >= 3
             => wait >= Percent(RapidFloor(Len(rapid)),
                                policy.rapid_hold_down_jitter_low_ratio))'
      BY <3>1, <3>3, <3>5 DEF Percent
    <3> QED
      BY <3>4, <3>6 DEF ServerSpared
  <2>2. ASSUME NEW t \in ConnectTimes, ConnectFails(t) PROVE ServerSpared'
    BY <2>1, <2>2, ConnectFailsSteps DEF IInv
  <2>3. ASSUME NEW t \in ConnectTimes, ConnectSucceeds(t) PROVE FALSE
    BY <2>3 DEF ConnectSucceeds
  <2>4. CASE WaitEnds
    BY <2>4 DEF WaitEnds
  <2>5. ASSUME NEW u \in Uptimes, NEW code \in CloseCodes, NEW forced \in BOOLEAN,
               Disconnects(u, code, forced)
        PROVE  ServerSpared'
    BY <2>1, <2>5, DisconnectsSteps DEF IInv
  <2>6. CASE UNCHANGED vars
    BY <2>6 DEF vars, ServerSpared, DecisionFor, Plain, ClassifyDisconnect, Decision,
                RapidFloor
  <2> QED
    BY <2>2, <2>3, <2>4, <2>5, <2>6 DEF Next
<1> QED
  BY <1>1, <1>2, Invariant, PTL DEF Spec

---------------------------------------------------------------------------------
LEMMA FirstDelay ==
  ASSUME policy \in Policies, NEW d \in ComputedDelays(0, 0)
  PROVE  d \in Nat /\ d <= BaseDelay(0)
<1>1. BaseDelay(0) \in Nat
  BY BaseDelayType, PolicyAssumption
<1>2. RapidFloor(0) = 0
  BY DEF RapidFloor
<1>3. Greater(BaseDelay(0), RapidFloor(0)) = BaseDelay(0)
  BY <1>1, <1>2 DEF Greater
<1>4. CASE BaseDelay(0) <= 0
  BY <1>1, <1>3, <1>4 DEF ComputedDelays
<1>5. CASE BaseDelay(0) > 0
  <2>1. d \in RandomBetween(BaseDelay(0) \div 2, BaseDelay(0))
    BY <1>1, <1>3, <1>5 DEF ComputedDelays, Jitter
  <2> DEFINE b == BaseDelay(0)
             h == BaseDelay(0) \div 2
  <2>2. b \in Nat /\ h \in Nat /\ h <= b
    BY <1>1
  <2> HIDE DEF b, h
  <2>3. d \in RandomBetween(h, b)
    BY <2>1 DEF b, h
  <2>4. d \in Nat /\ d <= Greater(h, b)
    BY <2>2, <2>3, Draw
  <2>5. d \in Nat /\ d <= b
    BY <2>2, <2>4 DEF Greater
  <2> QED
    BY <2>5 DEF b
<1> QED
  BY <1>1, <1>4, <1>5

\* Whatever came before it, a stable connection leaves no backoff and no cooldown behind.
THEOREM StableStartsAfresh == Spec => StableForgets
<1>1. ASSUME IInv, [Next]_vars, phase = "connected", phase' = "waiting",
             lost'.uptime >= policy.stable_reset
      PROVE  wait' <= Greater(BaseDelay(0), DecisionFor(lost'.code, lost'.forced).max)
  <2>1. policy \in Policies
    BY <1>1 DEF IInv, TypeOK
  <2>2. PICK u \in Uptimes, code \in CloseCodes, forced \in BOOLEAN :
          Disconnects(u, code, forced)
    BY <1>1 DEF Next, ConnectFails, ConnectSucceeds, WaitEnds, vars
  <2> DEFINE decision == DecisionFor(code, forced)
  <2>3. lost' = [uptime |-> u, code |-> code, forced |-> forced] /\ u >= policy.stable_reset
    BY <1>1, <2>2 DEF Disconnects
  <2>4. /\ attempt' = AttemptAfter(u) /\ rapid' = <<>> /\ Backoff(attempt', rapid', decision)
    BY <1>1, <2>2, <2>3 DEF Disconnects
  <2>5. attempt' = 0 /\ Len(rapid') = 0
    BY <2>3, <2>4, EmptySeq DEF AttemptAfter
  <2>6. PICK delay \in ComputedDelays(0, 0) : wait' \in Overridden(delay, decision)
    BY <1>1, <2>4, <2>5 DEF Backoff
  <2>7. delay \in Nat /\ delay <= BaseDelay(0) /\ BaseDelay(0) \in Nat
    BY <2>1, FirstDelay, BaseDelayType, PolicyAssumption
  <2>8. decision.max \in Nat
    BY <2>1, DecisionType
  <2>9. wait' \in Nat /\ wait' <= Greater(delay, decision.max)
    <3> HIDE DEF decision
    <3>1. \A d \in Overridden(delay, decision) : d \in Nat /\ d <= Greater(delay, decision.max)
      BY <2>1, <2>7, OverrideAtLeast DEF decision
    <3> QED
      BY <2>6, <3>1
  <2>10. wait' <= Greater(BaseDelay(0), decision.max)
    BY <2>7, <2>8, <2>9 DEF Greater
  <2> QED
    BY <2>3, <2>10
<1>2. IInv /\ [Next]_vars =>
        [phase = "connected" /\ phase' = "waiting" /\ lost'.uptime >= policy.stable_reset
           => wait' <= Greater(BaseDelay(0), DecisionFor(lost'.code, lost'.forced).max)]_vars
  BY <1>1
<1> QED
  BY <1>2, Invariant, PTL DEF Spec, StableForgets

---------------------------------------------------------------------------------
(***************************************************************************)
(* With the default policy the hold-down outgrows the window: every wait   *)
(* is at least the jittered floor for the rapid disconnects that count, so *)
(* the i-th of them is at least Gap(i) older than the next, and six of     *)
(* them do not fit into the window.                                        *)
(***************************************************************************)
Gap(i) ==
  IF i = 1 THEN 4 ELSE IF i = 2 THEN 20 ELSE IF i = 3 THEN 60 ELSE IF i = 4 THEN 90 ELSE 120

Apart(ages) ==
  \A i \in 1..(Len(ages) - 1) : ages[i] = 241 \/ ages[i] - ages[i + 1] >= Gap(i)
Rested(ages) ==
  Len(ages) > 0 => ages[Len(ages)] = 241 \/ ages[Len(ages)] >= Gap(Len(ages))

Held ==
  policy = DefaultPolicy =>
    /\ Len(rapid) <= 5 /\ Apart(rapid) /\ phase # "suppressed"
    /\ phase = "waiting" /\ Len(rapid) > 0 => wait >= Gap(Len(rapid))
    /\ phase \in {"connecting", "connected"} => Rested(rapid)

LEMMA GapGrows ==
  ASSUME NEW i \in Nat, i > 0, NEW j \in Nat, i <= j
  PROVE  Gap(i) \in Nat /\ Gap(j) \in Nat /\ Gap(i) <= Gap(j)
BY DEF Gap

\* Waiting for as long as the policy says keeps the ages apart.
LEMMA AgedApart ==
  ASSUME policy \in Policies, policy = DefaultPolicy, NEW ages \in Seq(0..Beyond),
         NEW t \in Nat, Apart(ages)
  PROVE  /\ Apart(Aged(ages, t))
         /\ Rested(ages) => Rested(Aged(ages, t))
         /\ (Len(ages) > 0 => t >= Gap(Len(ages))) => Rested(Aged(ages, t))
<1> DEFINE old == Aged(ages, t)
<1>1. Beyond = 241
  BY DEF Beyond, DefaultPolicy
<1>2. /\ Len(old) = Len(ages) /\ Len(ages) \in Nat
      /\ \A i \in 1..Len(ages) : old[i] = Lesser(ages[i] + t, 241)
      /\ \A i \in 1..Len(ages) : ages[i] \in 0..241
  BY <1>1, AgedType, LenProperties, ElementOfSeq
<1> HIDE DEF old
<1>3. ASSUME NEW i \in 1..(Len(ages) - 1)
      PROVE  old[i] = 241 \/ old[i] - old[i + 1] >= Gap(i)
  <2>1. i \in 1..Len(ages) /\ i + 1 \in 1..Len(ages) /\ i \in Nat /\ i > 0
    BY <1>2
  <2>2. Gap(i) \in Nat
    BY <2>1, GapGrows
  <2>3. ages[i] = 241 \/ ages[i] - ages[i + 1] >= Gap(i)
    BY <1>3 DEF Apart
  <2>4. /\ ages[i] \in 0..241 /\ ages[i + 1] \in 0..241
        /\ old[i] = Lesser(ages[i] + t, 241) /\ old[i + 1] = Lesser(ages[i + 1] + t, 241)
    BY <1>2, <2>1
  <2> DEFINE a == ages[i]
             b == ages[i + 1]
             g == Gap(i)
  <2>5. a \in 0..241 /\ b \in 0..241 /\ g \in Nat /\ (a = 241 \/ a - b >= g)
    BY <2>2, <2>3, <2>4
  <2> HIDE DEF a, b, g
  <2>6. Lesser(a + t, 241) = 241 \/ Lesser(a + t, 241) - Lesser(b + t, 241) >= g
    BY <2>5 DEF Lesser
  <2> QED
    BY <2>4, <2>6 DEF a, b, g
<1>4. Apart(old)
  BY <1>2, <1>3 DEF Apart
<1>5. CASE Len(ages) = 0
  BY <1>2, <1>4, <1>5 DEF Rested, old
<1>6. CASE Len(ages) > 0
  <2> DEFINE k == Len(ages)
  <2>1. k \in 1..Len(ages) /\ k \in Nat /\ k > 0
    BY <1>2, <1>6
  <2>2. Gap(k) \in Nat
    BY <2>1, GapGrows
  <2>3. ages[k] \in 0..241 /\ old[k] = Lesser(ages[k] + t, 241)
    BY <1>2, <2>1
  <2>4. (ages[k] = 241 \/ ages[k] >= Gap(k)) \/ t >= Gap(k)
          => old[k] = 241 \/ old[k] >= Gap(k)
    <3> DEFINE a == ages[k]
               g == Gap(k)
    <3>1. a \in 0..241 /\ g \in Nat
      BY <2>2, <2>3
    <3> HIDE DEF a, g
    <3>2. a = 241 \/ a >= g \/ t >= g
            => Lesser(a + t, 241) = 241 \/ Lesser(a + t, 241) >= g
      BY <3>1 DEF Lesser
    <3> QED
      BY <2>3, <3>2 DEF a, g
  <2> QED
    BY <1>2, <1>4, <1>6, <2>4 DEF Rested, old
<1> QED
  BY <1>2, <1>5, <1>6

\* Six entries that are apart would take longer than the window.
LEMMA RecordedApart ==
  ASSUME policy \in Policies, policy = DefaultPolicy, NEW ages \in Seq(0..Beyond),
         NEW t \in Nat, NEW uptime \in Nat, NEW kept \in Recorded(Aged(ages, t), uptime),
         Len(ages) <= 5, Apart(ages), Rested(ages)
  PROVE  Len(kept) <= 5 /\ Apart(kept)
<1> DEFINE old  == Aged(ages, t)
           more == IF uptime < policy.rapid_disconnect_uptime THEN Append(old, 0) ELSE old
<1>1. /\ Beyond = 241 /\ policy.rapid_window = 240
  BY DEF Beyond, DefaultPolicy
<1>2. /\ old \in Seq(0..241) /\ Len(old) <= 5 /\ Apart(old) /\ Rested(old)
  BY <1>1, AgedType, AgedApart
<1>3. kept \in Pruned(more)
  BY DEF Recorded
<1> HIDE DEF old
<1>4. more \in Seq(0..241) /\ Len(more) <= 6 /\ Apart(more)
  <2>1. CASE ~(uptime < policy.rapid_disconnect_uptime)
    <3>1. Len(old) \in Nat
      BY <1>2, LenProperties
    <3> QED
      BY <1>2, <2>1, <3>1
  <2>2. CASE uptime < policy.rapid_disconnect_uptime
    <3>1. /\ Append(old, 0) \in Seq(0..241) /\ Len(Append(old, 0)) = Len(old) + 1
          /\ \A i \in 1..Len(old) : Append(old, 0)[i] = old[i]
          /\ Append(old, 0)[Len(old) + 1] = 0
      BY <1>2, AppendProperties
    <3>2. Len(old) \in Nat /\ \A i \in 1..Len(old) : old[i] \in 0..241
      BY <1>2, LenProperties, ElementOfSeq
    <3> DEFINE new == Append(old, 0)
    <3>3. more = new
      BY <2>2
    <3> HIDE DEF new
    <3>4. ASSUME NEW i \in 1..(Len(new) - 1)
          PROVE  new[i] = 241 \/ new[i] - new[i + 1] >= Gap(i)
      <4>1. i \in 1..Len(old) /\ Len(new) = Len(old) + 1 /\ new[i] = old[i]
        BY <3>1, <3>2 DEF new
      <4>2. CASE i = Len(old)
        <5>1. new[i + 1] = 0
          BY <3>1, <4>2 DEF new
        <5>2. old[i] = 241 \/ old[i] >= Gap(i)
          BY <1>2, <4>1, <4>2 DEF Rested
        <5> DEFINE a == new[i]
                   b == new[i + 1]
                   g == Gap(i)
        <5>3. a \in 0..241 /\ b = 0 /\ (a = 241 \/ a >= g)
          BY <3>2, <4>1, <5>1, <5>2
        <5>4. g \in Nat
          BY <3>2, <4>1, GapGrows
        <5> HIDE DEF a, b, g
        <5>5. a = 241 \/ a - b >= g
          BY <5>3, <5>4
        <5> QED
          BY <5>5 DEF a, b, g
      <4>3. CASE i # Len(old)
        <5>1. i + 1 \in 1..Len(old) /\ i \in 1..(Len(old) - 1)
          BY <3>2, <4>1, <4>3
        <5>2. new[i + 1] = old[i + 1]
          BY <3>1, <5>1 DEF new
        <5>3. old[i] = 241 \/ old[i] - old[i + 1] >= Gap(i)
          BY <1>2, <5>1 DEF Apart
        <5> QED
          BY <4>1, <5>2, <5>3
      <4> QED
        BY <4>2, <4>3
    <3>5. Apart(new)
      BY <3>4 DEF Apart
    <3>6. new \in Seq(0..241) /\ Len(new) <= 6
      BY <1>2, <3>1, <3>2 DEF new
    <3> QED
      BY <3>3, <3>5, <3>6
  <2> QED
    BY <2>1, <2>2
<1> HIDE DEF more
<1>5. PICK n \in 0..Len(more) : /\ Len(kept) = Len(more) - n
                                /\ \A i \in 1..Len(kept) : kept[i] = more[i + n]
  BY <1>1, <1>3, <1>4, PrunedType
<1>6. Len(kept) > 0 => kept[1] <= 240
  BY <1>1, <1>3, <1>4, PrunedType
<1>7. Len(more) \in Nat /\ \A i \in 1..Len(more) : more[i] \in 0..241
  BY <1>4, LenProperties, ElementOfSeq
<1>8. Len(kept) \in Nat /\ \A i \in 1..Len(kept) : i + n \in 1..Len(more) /\ kept[i] \in 0..241
  <2>1. Len(kept) \in Nat /\ \A i \in 1..Len(kept) : i + n \in 1..Len(more)
    BY <1>5, <1>7
  <2>2. ASSUME NEW i \in 1..Len(kept) PROVE kept[i] \in 0..241
    BY <1>5, <1>7, <2>1
  <2> QED
    BY <2>1, <2>2
<1>9. ASSUME NEW i \in 1..(Len(kept) - 1)
      PROVE  kept[i] = 241 \/ kept[i] - kept[i + 1] >= Gap(i)
  <2>1. i + n \in 1..(Len(more) - 1) /\ i \in Nat /\ i > 0 /\ i + n \in Nat
    BY <1>5, <1>7, <1>8
  <2>2. more[i + n] = 241 \/ more[i + n] - more[i + n + 1] >= Gap(i + n)
    BY <1>4, <2>1 DEF Apart
  <2>3. Gap(i) \in Nat /\ Gap(i + n) \in Nat /\ Gap(i) <= Gap(i + n)
    BY <2>1, GapGrows, SMTT(30)
  <2>4. i \in 1..Len(kept) /\ i + 1 \in 1..Len(kept) /\ (i + 1) + n = i + n + 1
    BY <1>8
  <2>5. /\ kept[i] = more[i + n] /\ kept[i + 1] = more[i + n + 1]
        /\ kept[i] \in 0..241 /\ kept[i + 1] \in 0..241
    BY <1>5, <1>8, <2>4
  <2> DEFINE a == kept[i]
             b == kept[i + 1]
             g == Gap(i)
             h == Gap(i + n)
  <2>6. /\ a \in 0..241 /\ b \in 0..241 /\ g \in Nat /\ h \in Nat /\ g <= h
        /\ a = 241 \/ a - b >= h
    BY <2>2, <2>3, <2>5
  <2> HIDE DEF a, b, g, h
  <2>7. a = 241 \/ a - b >= g
    BY <2>6
  <2> QED
    BY <2>7 DEF a, b, g
<1>10. Apart(kept)
  BY <1>9 DEF Apart
<1>11. Len(kept) <= 5
  <2>1. SUFFICES ASSUME Len(kept) = 6 PROVE FALSE
    BY <1>4, <1>5, <1>7, <1>8
  <2>2. \A i \in 1..6 : kept[i] \in 0..241
    BY <1>8, <2>1
  <2>3. kept[1] <= 240
    BY <1>6, <2>1
  <2>4. \A i \in 1..5 : kept[i] = 241 \/ kept[i] - kept[i + 1] >= Gap(i)
    BY <1>10, <2>1 DEF Apart
  <2>5. /\ kept[1] = 241 \/ kept[1] - kept[2] >= Gap(1)
        /\ kept[2] = 241 \/ kept[2] - kept[3] >= Gap(2)
        /\ kept[3] = 241 \/ kept[3] - kept[4] >= Gap(3)
        /\ kept[4] = 241 \/ kept[4] - kept[5] >= Gap(4)
        /\ kept[5] = 241 \/ kept[5] - kept[6] >= Gap(5)
    BY <2>4
  <2>6. Gap(1) = 4 /\ Gap(2) = 20 /\ Gap(3) = 60 /\ Gap(4) = 90 /\ Gap(5) = 120
    BY DEF Gap
  <2> DEFINE a == kept[1]
             b == kept[2]
             c == kept[3]
             d == kept[4]
             e == kept[5]
             f == kept[6]
  <2>7. /\ a \in 0..241 /\ a <= 240 /\ b \in 0..241 /\ c \in 0..241
        /\ d \in 0..241 /\ e \in 0..241 /\ f \in 0..241
    BY <2>2, <2>3
  <2>8. /\ a = 241 \/ a - b >= 4
        /\ b = 241 \/ b - c >= 20
        /\ c = 241 \/ c - d >= 60
        /\ d = 241 \/ d - e >= 90
        /\ e = 241 \/ e - f >= 120
    BY <2>5, <2>6
  <2> HIDE DEF a, b, c, d, e, f
  <2>9. a \in 0..240 /\ a - b >= 4
    BY <2>7, <2>8
  <2>10. b <= 236 /\ b - c >= 20
    BY <2>7, <2>8, <2>9
  <2>11. c <= 216 /\ c - d >= 60
    BY <2>7, <2>8, <2>10
  <2>12. d <= 156 /\ d - e >= 90
    BY <2>7, <2>8, <2>11
  <2>13. e <= 66 /\ e - f >= 120
    BY <2>7, <2>8, <2>12
  <2> QED
    BY <2>7, <2>13
<1> QED
  BY <1>10, <1>11

LEMMA LeastIsGap ==
  ASSUME policy = DefaultPolicy, NEW count \in 1..5
  PROVE  Least(count) = Gap(count)
<1>1. /\ policy.rapid_first_min_delay = 8 /\ policy.rapid_second_min_delay = 40
      /\ policy.rapid_cooldown_base = 240 /\ policy.rapid_cooldown_step = 120
      /\ policy.rapid_cooldown_max = 1200 /\ policy.rapid_hold_down_jitter_low_ratio = 25
  BY DEF DefaultPolicy
<1>2. RapidFloor(1) = 8 /\ RapidFloor(2) = 40 /\ RapidFloor(3) = 240 /\ RapidFloor(4) = 360
      /\ RapidFloor(5) = 480
  BY <1>1 DEF RapidFloor, Lesser
<1>3. Percent(240, 25) = 60 /\ Percent(360, 25) = 90 /\ Percent(480, 25) = 120
  BY DEF Percent
<1>4. Least(1) = 4 /\ Least(2) = 20 /\ Least(3) = 60 /\ Least(4) = 90 /\ Least(5) = 120
  BY <1>1, <1>2, <1>3 DEF Least
<1>5. Gap(1) = 4 /\ Gap(2) = 20 /\ Gap(3) = 60 /\ Gap(4) = 90 /\ Gap(5) = 120
  BY DEF Gap
<1>6. count = 1 \/ count = 2 \/ count = 3 \/ count = 4 \/ count = 5
  OBVIOUS
<1> QED
  BY <1>4, <1>5, <1>6

LEMMA SetbackHeld ==
  ASSUME IInv, policy = DefaultPolicy, NEW u, NEW code, NEW forced, Setback(u, code, forced),
         Len(rapid') <= 5, Apart(rapid')
  PROVE  Held'
<1>1. policy' = DefaultPolicy /\ Threshold = 10 /\ Len(rapid') \in Nat
  BY LenProperties DEF Setback, Threshold, DefaultPolicy
<1>2. phase' \in {"waiting", "error"} /\ (phase' = "waiting" => wait' >= Least(Len(rapid')))
  BY <1>1 DEF Setback
<1>3. ASSUME phase' = "waiting", Len(rapid') > 0 PROVE wait' >= Gap(Len(rapid'))
  <2> DEFINE count == Len(rapid')
  <2>1. count \in Nat /\ count <= 5 /\ count > 0
    BY <1>1, <1>3
  <2> HIDE DEF count
  <2>2. count \in 1..5
    BY <2>1
  <2>3. Least(count) = Gap(count)
    BY <2>2, LeastIsGap
  <2> QED
    BY <1>2, <1>3, <2>3 DEF count
<1>4. Apart(rapid)' = Apart(rapid') /\ Gap(Len(rapid))' = Gap(Len(rapid'))
  BY DEF Apart, Gap
<1> QED
  BY <1>1, <1>2, <1>3, <1>4 DEF Held

LEMMA HeldStep == IInv /\ Held /\ [Next]_vars => Held'
<1> SUFFICES ASSUME IInv, Held, [Next]_vars, policy' = DefaultPolicy PROVE Held'
  BY DEF Held
<1>1. policy = DefaultPolicy
  BY DEF Next, ConnectFails, ConnectSucceeds, WaitEnds, Disconnects, vars
<1>2. /\ policy \in Policies /\ rapid \in Seq(0..Beyond) /\ wait \in Nat
      /\ Len(rapid) <= 5 /\ Apart(rapid) /\ phase # "suppressed"
      /\ phase \in {"connecting", "connected"} => Rested(rapid)
      /\ phase = "waiting" /\ Len(rapid) > 0 => wait >= Gap(Len(rapid))
  BY <1>1 DEF IInv, TypeOK, Held
<1>3. ASSUME NEW t \in ConnectTimes, ConnectFails(t) PROVE Held'
  <2>1. rapid' \in Recorded(Aged(rapid, t), 0) /\ t \in Nat /\ phase = "connecting"
    BY <1>3, PolicyAssumption DEF ConnectFails
  <2>2. Len(rapid') <= 5 /\ Apart(rapid')
    BY <1>1, <1>2, <2>1, RecordedApart
  <2>3. Setback(0, "none", FALSE)
    BY <1>3, ConnectFailsSteps DEF IInv
  <2> QED
    BY <1>1, <2>2, <2>3, SetbackHeld
<1>4. ASSUME NEW t \in ConnectTimes, ConnectSucceeds(t) PROVE Held'
  <2>1. rapid' = Aged(rapid, t) /\ t \in Nat /\ phase = "connecting" /\ phase' = "connected"
    BY <1>4, PolicyAssumption DEF ConnectSucceeds
  <2>2. Apart(rapid') /\ Rested(rapid') /\ Len(rapid') = Len(rapid)
    BY <1>1, <1>2, <2>1, AgedApart, AgedType
  <2>3. Apart(rapid)' = Apart(rapid') /\ Rested(rapid)' = Rested(rapid')
    BY DEF Apart, Rested, Gap
  <2> QED
    BY <1>2, <2>1, <2>2, <2>3 DEF Held
<1>5. CASE WaitEnds
  <2>1. rapid' = Aged(rapid, wait) /\ phase = "waiting" /\ phase' = "connecting"
    BY <1>5 DEF WaitEnds
  <2>2. Apart(rapid') /\ Rested(rapid') /\ Len(rapid') = Len(rapid)
    BY <1>1, <1>2, <2>1, AgedApart, AgedType
  <2>3. Apart(rapid)' = Apart(rapid') /\ Rested(rapid)' = Rested(rapid')
    BY DEF Apart, Rested, Gap
  <2> QED
    BY <1>2, <2>1, <2>2, <2>3 DEF Held
<1>6. ASSUME NEW u \in Uptimes, NEW code \in CloseCodes, NEW forced \in BOOLEAN,
             Disconnects(u, code, forced)
      PROVE  Held'
  <2>1. phase = "connected" /\ u \in Nat
    BY <1>6, PolicyAssumption DEF Disconnects
  <2>2. CASE ~DecisionFor(code, forced).reconnect
    <3>1. phase' \in {"terminal", "stopped"} /\ rapid' = rapid /\ policy' = policy
      BY <1>6, <2>2 DEF Disconnects
    <3>2. Apart(rapid)' = Apart(rapid)
      BY <3>1 DEF Apart, Gap
    <3> QED
      BY <1>2, <3>1, <3>2 DEF Held
  <2>3. CASE DecisionFor(code, forced).reconnect
    <3>1. PICK ages \in Recorded(Aged(rapid, u), u) : rapid' \in {ages, <<>>}
      BY <1>6, <2>3 DEF Disconnects
    <3>2. Len(ages) <= 5 /\ Apart(ages)
      BY <1>1, <1>2, <2>1, RecordedApart
    <3>3. Len(<<>>) = 0 /\ Apart(<<>>)
      BY EmptySeq DEF Apart
    <3>4. Len(rapid') <= 5 /\ Apart(rapid')
      BY <3>1, <3>2, <3>3
    <3>5. Setback(u, code, forced)
      <4>1. phase' \notin {"terminal", "stopped"}
        BY <1>6, <2>3 DEF Disconnects, Backoff
      <4> QED
        BY <1>6, <4>1, DisconnectsSteps DEF IInv
    <3> QED
      BY <1>1, <3>4, <3>5, SetbackHeld
  <2> QED
    BY <2>2, <2>3
<1>7. CASE UNCHANGED vars
  BY <1>7 DEF vars, Held, Apart, Rested, Gap
<1> QED
  BY <1>3, <1>4, <1>5, <1>6, <1>7 DEF Next

\* With its default policy the client never gives up because of rapid disconnects: at most
\* five of them are in the window at a time.
THEOREM HoldDown == Spec => []HoldDownWins
<1>1. Init => Held
  <2> SUFFICES ASSUME Init PROVE Held
    OBVIOUS
  <2>1. rapid = <<>> /\ Len(rapid) = 0 /\ phase = "connecting"
    BY EmptySeq DEF Init
  <2> QED
    BY <2>1 DEF Held, Apart, Rested
<1>2. Held => HoldDownWins
  BY DEF Held, HoldDownWins
<1> QED
  BY <1>1, <1>2, HeldStep, Invariant, PTL DEF Spec

---------------------------------------------------------------------------------
(***************************************************************************)
(* Errors.                                                                 *)
(***************************************************************************)
\* As long as the loop goes on the attempts counted are those of this outage.
Counted == phase \in {"connecting", "connected", "waiting"} => attempt = outage

LEMMA CountedStep ==
  IInv /\ Counted /\ RetriesGoOn /\ [Next]_vars => Counted' /\ RetriesGoOn'
<1> SUFFICES ASSUME IInv, Counted, RetriesGoOn, [Next]_vars PROVE Counted' /\ RetriesGoOn'
  OBVIOUS
<1>1. attempt \in 0..AttemptCap /\ outage \in 0..AttemptCap /\ AttemptCap \in Nat
  BY PolicyAssumption DEF IInv, TypeOK
<1>2. CountUp(attempt) >= attempt /\ CountUp(attempt) \in Nat
  BY <1>1 DEF CountUp, Lesser
<1>3. ASSUME NEW n, NEW ages, NEW decision, Backoff(n, ages, decision), policy' = policy
      PROVE  phase' = "error" => Overflows(n) /\ \A k : Overflows(k)' <=> Overflows(k)
  <2>1. \A k : FactorPower(k)' = FactorPower(k)
    BY <1>3 DEF FactorPower
  <2> QED
    BY <1>3, <2>1 DEF Backoff, Overflows
<1>4. ASSUME NEW t \in ConnectTimes, ConnectFails(t) PROVE Counted' /\ RetriesGoOn'
  <2>1. attempt = outage /\ outage' = CountUp(attempt)
    BY <1>4 DEF Counted, ConnectFails
  <2>2. CASE ShouldSuppress(rapid')
    BY <1>4, <2>2 DEF ConnectFails, Counted, RetriesGoOn
  <2>3. CASE ~ShouldSuppress(rapid')
    <3>1. /\ Backoff(attempt, rapid', Plain) /\ attempt' = CountUp(attempt)
          /\ policy' = policy
      BY <1>4, <2>3 DEF ConnectFails
    <3>2. attempt \in 0..outage'
      BY <1>1, <1>2, <2>1
    <3>3. phase' = "error" => Overflows(attempt) /\ \A k : Overflows(k)' <=> Overflows(k)
      BY <3>1, <1>3
    <3> QED
      BY <2>1, <3>1, <3>2, <3>3 DEF Counted, RetriesGoOn
  <2> QED
    BY <2>2, <2>3
<1>5. ASSUME NEW t \in ConnectTimes, ConnectSucceeds(t) PROVE Counted' /\ RetriesGoOn'
  BY <1>5 DEF ConnectSucceeds, Counted, RetriesGoOn
<1>6. CASE WaitEnds
  BY <1>6 DEF WaitEnds, Counted, RetriesGoOn
<1>7. ASSUME NEW u \in Uptimes, NEW code \in CloseCodes, NEW forced \in BOOLEAN,
             Disconnects(u, code, forced)
      PROVE  Counted' /\ RetriesGoOn'
  <2>1. /\ attempt = outage
        /\ outage' = IF u >= policy.stable_reset THEN 0 ELSE CountUp(outage)
    BY <1>7 DEF Counted, Disconnects
  <2>2. CASE phase' \notin {"waiting", "error"}
    <3>1. phase' \in {"terminal", "stopped", "suppressed"}
      BY <1>7, <2>2 DEF Disconnects, Backoff
    <3> QED
      BY <3>1 DEF Counted, RetriesGoOn
  <2>3. CASE phase' \in {"waiting", "error"}
    <3>1. /\ attempt' = AttemptAfter(u) /\ policy' = policy
          /\ \E ages, decision : Backoff(attempt', ages, decision)
      BY <1>7, <2>3 DEF Disconnects
    <3>2. PICK n : n = attempt'
      OBVIOUS
    <3>3. n = outage' /\ n \in 0..outage'
      BY <1>1, <1>2, <2>1, <3>1, <3>2 DEF AttemptAfter
    <3>4. phase' = "error" => Overflows(n) /\ \A k : Overflows(k)' <=> Overflows(k)
      BY <1>3, <3>1, <3>2
    <3> QED
      BY <2>3, <3>2, <3>3, <3>4 DEF Counted, RetriesGoOn
  <2> QED
    BY <2>2, <2>3
<1>8. CASE UNCHANGED vars
  BY <1>8 DEF vars, Counted, RetriesGoOn, Overflows, FactorPower
<1> QED
  BY <1>4, <1>5, <1>6, <1>7, <1>8 DEF Next

\* The retries end with an error only in an outage with as many setbacks in a row as it takes
\* for a power of the factor that is no float, whatever there was before the last stable
\* connection.
THEOREM OnlyOutagesFail == Spec => []RetriesGoOn
<1>1. Init => Counted /\ RetriesGoOn
  BY DEF Init, Counted, RetriesGoOn
<1> QED
  BY <1>1, CountedStep, Invariant, PTL DEF Spec
=================================================================================
