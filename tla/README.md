# A verified model of phoenix-channels-python-client

TLA+ modules, TLC configurations and TLAPS proofs for the asyncio client of
Phoenix channels in `src/phoenix_channels_python_client`. The client keeps one
websocket alive, reconnects it, and multiplexes topic subscriptions over it. It
runs in one thread: asyncio runs one task at a time and changes task only at an
`await`. Nearly everything that is hard about it is what other tasks may do
during an `await`, so that is what the models are made of: one action is the code
a task runs between two awaits, and every await that may really suspend is a
place where the others run.

## 1. Inventory

| Part | Source | State | Operations |
| --- | --- | --- | --- |
| Life cycle | `client_state_machine.py`, `client_types.py` | `_state` | `transition_client_state` |
| Sessions | `client.py` | `_shutdown_event`, `_initial_connection_future`, `_supervisor_task`, `_terminal_error` | `__aenter__`, `__aexit__`, `shutdown` |
| Connection supervisor | `supervisor.py` | `connection`, `_conn_generation`, `_connected_event`, `_message_routing_task`, `_heartbeat_task`, `_forced_close_pending` | `_supervisor_loop`, `_cleanup_connection`, `close_connection`, `run_forever` |
| Reconnect policy | `reconnect_controller.py` | `_rapid_disconnects` | `_record_disconnect`, `_should_suppress_reconnect`, `_compute_reconnect_delay`, `_classify_disconnect`, policy validation |
| Heartbeat | `supervisor.py` | `_pending_heartbeat_ref` | `_heartbeat_loop`, `_handle_heartbeat_response` |
| Topic runtime | `topic_runtime.py`, `topic_subscription.py` | `_topic_subscriptions`, `_ref_counter`, per subscription: queue, futures, join_ref, generation, processor and callback tasks | `subscribe_to_topic`, `unsubscribe_from_topic`, `_process_topic_messages`, `_rejoin_topics`, `_unregister_topic`, handler registration |
| Routing | `protocol_handler.py` | none of its own | `process_websocket_messages` |
| Wire formats | `protocol_handler.py`, `phx_messages.py`, `utils.py` | none | `parse_message`, `serialize_message`, `make_message` |
| Rest | `exceptions.py`, `__init__.py`, URL building, logging, `src/examples` | none | none |

How they interact. `__aenter__` creates the supervisor task and awaits a future
the supervisor resolves. The supervisor connects, starts the routing and heartbeat
tasks, awaits `_rejoin_topics`, resolves that future, calls `on_reconnect`, and
awaits the routing task; when that ends it cleans up, calls `on_disconnect` and
either sleeps and retries or leaves its loop. The routing task puts messages in
the queue of a subscription; its processor task takes them out, resolves the
futures that `subscribe_to_topic`, `unsubscribe_from_topic` and `_rejoin_topics`
wait for, or runs a callback as yet another task. `shutdown` unsubscribes every
topic, cancels the supervisor, awaits it, and runs the same `_cleanup_connection`
the supervisor runs. All of this communicates through fields of one object, read
before an await and used after it.

What is hard, and what makes each part correct:

* *Life cycle*: several tasks set `_state`, each from what it last saw. It must
  move only along the table, and tell truly whether a supervisor is alive.
* *Sessions*: entering must be answered however the supervisor ends; `shutdown`
  must return and leave no socket, task or topic; a second session must not see
  anything of the first.
* *Supervisor*: it is cancelled at any await, also within its own clean-up. No
  socket or task is lost, a lost connection is noticed, `on_reconnect` follows
  `on_disconnect`.
* *Reconnect policy*: final closes stay final; the rapid-disconnect threshold ends
  the loop exactly when it is met; no jitter and no close code makes the client come
  back sooner than the policy allows; a stable connection starts the backoff afresh.
* *Topic runtime*: objects are looked up by name before and after awaits;
  calls, processors and rejoin race on them. One processor per subscription, no
  message of an old connection after the move to a new one, every call ends,
  events stay in order, a rejoin leaves out no topic.
* *Routing*: the generation and join_ref filters and the drop-oldest queue may drop
  the very reply someone waits for.
* *Heartbeat*: an answer that is late, missing or of an earlier connection must not
  count; a connection that works is never without its heartbeat.
* *Wire formats*: what one version writes, it must read back; what it accepts must be
  usable by everything behind it.

The hazards behind each of these are listed one by one, at their source lines, in
`PROJECT.json`.

## 2. Modules

| Module | Role |
| --- | --- |
| `ClientStateMachine` | The abstract specification: the five states and the table of `transition_client_state`. |
| `Supervisor` | Sessions, supervisor, clean-up, classification of closes. Refines `ClientStateMachine`. |
| `SupervisorProofs` | Theorems about `Supervisor`. |
| `SubscriptionLife` | The abstract specification of one `subscribe_to_topic`: when callbacks may start, when it may be joined again. |
| `TopicRuntime` | Subscriptions, processors, callbacks, handlers, routing, rejoin, shutdown of the topics, with an external server and network. Implements `SubscriptionLife`. |
| `TopicRuntimeProofs` | Theorems about `TopicRuntime`: what its tasks, calls and rejoins refer to; every action's effect as a lemma. |
| `TopicOrderProofs` | The same: ranges, order of events, completeness of a rejoin. |
| `TopicProcessorProofs` | The same: one processor, nothing left after a leave, a failure or a shutdown, no stale callback. |
| `TopicLifeProofs` | The same: a joined topic is joined on the server; the refinement of `SubscriptionLife`. |
| `MCTopicRuntime` | The symmetry of topics, for the run with two of them. |
| `ReconnectBudget` | The abstract specification of the reconnect loop: the count of rapid disconnects and when the client gives up. |
| `ReconnectController` | Policy, validation, window, delays and close codes, with a clock. Implements `ReconnectBudget`. |
| `ReconnectControllerProofs` | Theorems about `ReconnectController`. |
| `MCReconnectController` | Three policies and a table of powers, for TLC. |
| `ProtocolHandler` | The V1 and V2 wire formats as operators on decoded JSON. |
| `ProtocolHandlerProofs` | Theorems about them. |
| `Heartbeat` | Heartbeat loop, acknowledgement, forced close, and their part of the supervisor; its frames are those of `ProtocolHandler`. |
| `HeartbeatProofs` | Theorems about `Heartbeat`. |

### Supervisor

`pc[Sup]` is the await of `_supervisor_loop` the supervisor is at; `pc[c]` that of
task `c` in `__aenter__`, `run_forever`, `shutdown` or `_cleanup_connection`.
`Main` owns the `async with` block; the other `Callers` may call `shutdown` and
`close_connection`. `held[a]` is the local `connection` of task `a` in
`_cleanup_connection`: the code takes the socket out of `self` before it awaits.
`link[g]` is the websocket of generation `g`: from `connection.close()` until that returns it
is "closing". When a supervisor is cancelled there, it stays so: the shutdown that cancelled it
finds no connection in `self`, and returns. `ClosingAwaited` says that this is the only way a
handshake is left to nobody.

| Code | Actions |
| --- | --- |
| `_supervisor_loop` | `SupervisorStarts`, `ConnectFails`, `ConnectSucceeds`, `BackoffEnds`, `ConnectionLost`, `AfterDisconnect`, `OnReconnectReturns`; its `finally` is `Finish`, its future-resolving exits `LeaveLoop` |
| `_rejoin_topics`, seen from the loop | `Rejoin` and the actions of `Rejoining` |
| `cancel()` of the supervisor | `supCancel` until the next await, then `SupervisorCancelled`, or `SwallowCancel` at an await under `suppress(CancelledError)` |
| `wait_for`, when what it waits for is done | `WaitOver`: Python 3.11 may drop a `cancel()` that comes in between, 3.12 and later deliver it |
| `_cleanup_connection` | `BeginCleanup`, `TasksCleanedUp`, `CloseSocket`, `SocketClosed` |
| `shutdown` | `Shutdown`, `TopicsUnsubscribed`, `StopSupervisor`, `SupervisorJoined`, `ReturnFromShutdown` |
| `__aenter__`, `__aexit__` | `Enter`, `EnterReturns`, `EnterFails`, `Exit` |
| `run_forever` | `RunForever`, `RunForeverEnds`, `Signal`, `SignalHandled` |
| `close_connection` | `CloseConnection` |
| `_record_disconnect`, `_should_suppress_reconnect`, `_classify_disconnect` | `RapidAfter`, `Suppressed`, `Classify` |

Topics are a number here. Time is not modelled: whether a connection was short or
stable, and how many old entries leave the window of rapid disconnects, is a free
choice; that the clocked code makes no other choice is what `ReconnectController`
shows by implementing `ReconnectBudget`. `Supervisor` takes for granted that the delay
can be computed (see section 4).

### TopicRuntime

`registry` is `_topic_subscriptions`; `sub` holds the `TopicSubscription` objects,
which outlive their registry entry while tasks still refer to them; `task` holds
the processors. Every join makes one join_ref and one processor, so a processor
has the number of its join_ref, and `sub[x].ref` names both. A processor records
the object it found by name when it first ran. `sub[x].first` is the future
`subscribe_to_topic` waits for; after a rejoin it is not `current_join_ready` any
more. `rejoin` is `_rejoin_topics` with its snapshot. The server answers joins and
leaves, pushes events and keeps their order; the link breaks at any time and loses
a suffix of what was on its way.

| Code | Actions |
| --- | --- |
| `process_websocket_messages` | `Route`, `CurrentJoin`, `Enqueue` |
| `subscribe_to_topic` | `Subscribe`, `SubscribeReturns`, `SubscribeFails`, `SubscribeTimesOut`, `SubscribeRaises` |
| `unsubscribe_from_topic` | `Unsubscribe`, `LeaveEnds`, `LeaveTimesOut`, `UnsubscribeReturns`; called by the topic's own callback, `CallbackLeaves`; by `shutdown`, `ShutdownAsks` and `ShutdownUnregisters`, for all topics at once |
| `set_message_handler`, `add_event_handler` and their removal | `ChangeHandlers`; `Snapshot` is what a message uses of them |
| `shutdown` | `ShutdownBegins` (the state), the two above in the turns after it, `ShutdownCancels`, `ShutdownEnds` |
| `_unregister_topic` | `Unregister`, `Awaited` |
| `_process_topic_messages` and its modes | `ProcessorStarts`, `Dispatch` (`Mode`, `JoinResponse`, `LeaveResponse`), `ProcessorStops` |
| callbacks | `NextMessage`, `CallbackReturns`, `CallbackRaises`, `CallbackCancelled` |
| `_rejoin_topics` | `Connect`, `Continue`, `StopProcessor`, `Join`, and the actions of `Rejoining` |

The calls `shutdown` gathers run in step: all start in one turn of the loop, and all go on to
`_unregister_topic` in one. From Python 3.12 on the two turns are one, a case of what the
model allows unless another task runs in between; so the model is that of 3.11.

Where the model allows more than the code: a processor may be interrupted between
two messages of a queue that is not empty (`Queue.get` does not suspend there), and
after a join that could not be sent or timed out the rejoin takes a step of its
own before it goes on. Both add behaviours; the properties hold, and the
counterexamples below do not need them. What becomes of the supervisor after a
cancellation that a `with suppress` block swallows is in `Supervisor`; here
`ShutdownCancels` only lets such a rejoin go on, and one whose `wait_for` is just over.

### SubscriptionLife

The mapping (`Phase`, in `TopicRuntime`): a subscription is *gone* when its object is no
longer the registered one, *leaving* once `leave_requested` is set, *joined* while
`current_join_ready` has a result, and *joining* otherwise; a callback runs while a processor
of the object is in one, cancelled or not. So the abstract step `Rejoin`, which needs
that no callback runs, stands for the drain, the cancellations and the awaits of
`_rejoin_topics`; `CallbackStarts`, which needs *joined*, for the futures and flags the
processor reads.

### ReconnectController

One action per turn of the loop: `ConnectFails`, `ConnectSucceeds`, `Disconnects`,
`WaitEnds`. A tick is a quarter of a second, ratios are percent, the deque of
timestamps is the sequence of their ages. How long a `connect()` or a connection
lasts, the random draws, and the largest float are parameters. The factor of a policy is a
fraction; a power of it that is larger than `MaxFloat` is an OverflowError. The counters `attempt`
and `outage` stop at `AttemptCap`, a bound of the model: from there on the delay stays what it is.

### ProtocolHandler and Heartbeat

A frame is a decoded JSON value; `ParseMessage` gives a message or `Malformed`.
`Heartbeat` has one `_heartbeat_loop` per connection, since a cancelled one may still run
while its connection is cleaned up; `pending` is the one field all of them write. The
network may stall, close, or deliver frames that are no messages; the server answers
what it gets, in order, late. `Watchdog` is an application that calls
`close_connection` while a heartbeat is unanswered.

## 3. Runs

"pass": TLC checks every reachable state. "violation": TLC finds a
counterexample to something the repository's tests say; section 4 explains each.

| Run | Configuration | Question |
| --- | --- | --- |
| `supervisor_session` | `SupervisorSession` | Two tasks, one session, two connections, two topics: is anything orphaned, is `_state` truthful and within its table, are final closes final, callbacks paired, closing handshakes awaited? |
| `supervisor_live` | `SupervisorLive` | Two sessions of one task under fairness: is a loss noticed, is `__aenter__` answered, does `shutdown` return, does the second session start clean? |
| `supervisor_stale_force` | `SupervisorStaleForce` | Is a final close final in a second session as well? (no) |
| `supervisor_lost_cancel` | `SupervisorLostCancel` | Does `shutdown` always return? (no) |
| `topic_rejoin` | `TopicRejoin` | Two topics across a reconnect: does a rejoin that goes through move every topic, with one processor each? |
| `topic_resubscribe` | `TopicResubscribe` | A topic left and subscribed again on one V2 connection: do late or dropped replies of the first subscription confuse the second; do events stay in order, also when handlers change? |
| `topic_calls` | `TopicCalls` | Calls that straddle a reconnect or a shutdown, under fairness: do they end, is a loss during a rejoin noticed, does a callback outlive the move, does anything outlive a shutdown, is `SubscriptionLife` implemented? |
| `topic_stale_messages` | `TopicStaleMessages` | Are queued messages of the old connection dropped? (no) |
| `topic_leave_rejoined` | `TopicLeaveRejoined` | Is a topic that is being left kept out of a rejoin? (no) |
| `topic_leave_in_callback` | `TopicLeaveInCallback` | Does `unsubscribe_from_topic` end when a callback calls it for its own topic? (no) |
| `reconnect_backoff` | `ReconnectBackoff` | Any sequence of failures, uptimes and closes under three policies, one that backs off ever less and one that does not: are the promised waits kept, is the past forgotten after a stable connection, is `ReconnectBudget` implemented? |
| `heartbeat_watch` | `HeartbeatWatch` | Two connections, three heartbeats: are acknowledgements exact, does one loop beat while the connection works, does a watchdog get rid of a silent one? |

Every property of a passing run has a mutant in `PROJECT.json`: a plausible bug in
one definition with which the same run fails.

**Bounds.** `MaxGen = 2` connections give a first connection, its loss, a
reconnect, and the loss of that one during its rejoin; the supervisor keeps
nothing about a connection but the last one, so a third repeats the second. Two
callers are enough for a shutdown to overtake another at each await. Two sessions
show what one leaves to the next. `SuppressCount = 2` reaches the threshold, from
below and through the pruning of the window. Two topics show what one topic's
failure does to the next; one name used for two objects (`MaxSubs = 2`) shows what
an object that outlives its entry does. A queue of one or two entries overflows with
the second or third message, so that replies are dropped. Constants that only bound
a run (`MaxSubs`, `MaxGen`, `MaxEvents`, `MaxLeaves`, `MaxChanges`, `MaxSessions`) stop the
environment or the application, never a task of the client, except that no
connection succeeds after `MaxGen`, and that no heartbeat is due after `MaxBeats`.
A callback leaves its own topic (`CallbackMayLeave`) only on one connection, with no other
call that could cancel it there.

`reconnect_backoff` takes the uptimes 0, just below `rapid_disconnect_uptime_s`, equal to
it, and `stable_reset_s`; failed attempts take no time or ten seconds; the draws are the ends
of their intervals. No float is larger than 63, so that the sixth power of the default factor
overflows as its 1024th does in the program; the counters stop there. The theorems have no such
bounds. `heartbeat_watch` has three
heartbeats: one answered after the next is due, and one on the next connection.

`Reuse` decides whether a name may be subscribed again. `topic_resubscribe` has it
on one connection. With reuse and a reconnect together, `OneProcessor`,
`ReadyMeansJoined`, `UnregisteredQuiet`, `FailedSubscribeGone` and `ShutdownQuiet` fail:
a rejoin that holds the old object of a name starts its processor by name, and it
finds the new object. No document of the repository promises anything for that
case, so it is a hazard in `PROJECT.json`, not a finding. `NoNameClash`, the
hypothesis of the theorems (section 5), says what an application has to avoid.

**Fairness.** The event loop runs every task that can go on: weak fairness of the
supervisor, of each caller, of the routing task and of each processor. Everything
the client awaits from outside has a timeout (connect, join, leave, drain, close) or is a
user callback, assumed to return. No fairness is assumed of the server, the
network or the application, but for `WatchdogRecovers`: it is about an application
that, while a heartbeat stays unanswered, does call `close_connection` (weak fairness of
`Watchdog`); without one the client keeps a silent connection, which it only logs
(`supervisor.py:152`). Time-outs are always enabled, so no liveness property
depends on when they fire. `CHECK_DEADLOCK FALSE` is set in every run because the client
really may come to rest: the sessions are over, or nothing more happens.

## 4. Disagreements with the tests

* *A forced close outlives its session* (`supervisor.py:135`, `:290`).
  `close_connection` sets `_forced_close_pending`; if the session is shut down before
  the supervisor reads it, the next session treats its first close as forced and
  reconnects after a close that is terminal.
* *A lost cancellation* (`supervisor.py:382`, `topic_runtime.py:278, 505, 510`).
  `with suppress(CancelledError): await task` cannot tell the task's cancellation
  from the awaiter's own. A `shutdown` that cancels the supervisor at such an await
  then waits for a supervisor that goes on to wait for its connection to end. The run takes
  Python 3.12 or later, where `wait_for` drops no `cancel()`; in 3.11 a `wait_for` that is just over
  (`topic_runtime.py:495, 536`) can lose it as well, and the passing runs allow that.
  `ShutdownReturns` states what does hold: `shutdown` returns unless that happened.
* *Old messages after a reconnect* (`topic_runtime.py:493`). While `_rejoin_topics`
  drains a callback the processor is alive and its queue not yet emptied; a callback that
  returns in time lets it hand the next old message to the callback. What holds is
  `NoStaleCallback`: once the subscription has been moved, none runs.
* *A topic rejoined while it is left* (`topic_runtime.py:488`). `leave_requested` is
  read before the awaits and not after them.
* *A callback that leaves its own topic* (`topic_runtime.py:279`). The reply cannot be
  read while the callback runs; after the timeout `_unregister_topic` awaits the
  processor, which awaits the callback that awaits it. Neither the call nor the
  callback ever ends. `CallsEnd` holds for calls from anywhere else.

Three more differences that no run shows. `factor ** attempt` is computed before the cap
(`reconnect_controller.py:68`): with the default factor the delay of attempt 1024 raises
OverflowError, and the supervisor ends with it; `RetriesGoOn` states, and a theorem proves, that this
needs an unbroken outage of that length. With the default policy the
suppression of reconnects is out of reach (`HoldDownWins`, also a theorem): the
cooldowns are so long that old disconnects leave the 60 s window first, and at most five
count of the ten it takes. And `phx_close` and `phx_error`, which README.md:76-84 of the
repository says are handled, are given to the callbacks like any event; the topic
counts as joined until the next reconnect.

## 5. Proofs

`SupervisorProofs` proves, for every number of callers, topics and connections and
every policy, from `SupervisorAssumption` (the types of the constants) and
`OneSupervisor`:

| Theorem | Says |
| --- | --- |
| `TypeCorrect` | `[]TypeOK`, and with it that rapid disconnects never pass the threshold |
| `Invariant` | `[]IInv`, the inductive invariant |
| `StateTellsSupervisor` | `[]Supervised` |
| `ClosesAwaited` | one session: `[]ClosingAwaited` |
| `SocketsOwned`, `TasksNeverOrphaned`, `SignalIsTrue` | `[]SocketOwned`, `[]TasksOwned`, `[]ConnectedSignal` |
| `SessionsEndClean` | `[]SessionEndsClean` |
| `ImplementsLifecycle` | `Supervisor` refines `ClientStateMachine` |
| `TerminalErrorsEndIt` | `[]TerminalErrorIsFinal` |
| `FinalCloseObeyed` | one session: `[]FinalCloseStops` |
| `CallbacksPaired` | one session: `[]ReconnectFollowsDisconnect` |
| `EnterAnswered` | one caller: `[]EnterNeverStranded` |

`OneSupervisor` says that either there is one session or only `Main` uses the
client. The model follows one supervisor task; with a second task still inside
`shutdown` while `Main` enters again, the code can have two (a listed hazard).

The properties are not inductive by themselves. That `_state` is truthful depends
on where the supervisor stands in its loop, which decides which transitions come
next; that in turn depends on what a shutdown in progress has already done: it has
set `_shutdown_event`, or moved the state to SHUTTING_DOWN, or waits for a supervisor
it has cancelled. So `IInv` is

* `TypeOK` and `RapidOK`: while the supervisor is alive the threshold is not met
  (the step that meets it leaves the loop), which is what bounds `rapid`;
* `LoopInv`: at the awaits where the supervisor cannot have a connection there is
  none, and the state tells that it is alive;
* `CallerInv`: while a shutdown is under way the state is SHUTTING_DOWN or CLOSED,
  and none cleans up beside a live supervisor;
* `MainInv`: the shutdown of the task that owns the context joins a supervisor that
  cannot end in an error, and leaves neither topics nor a connection;
* `OwnInv`: each socket and task belongs to `client.connection` or to a clean-up.

Each part has one lemma saying that it survives a step, with one proof step per
action. `ForceInv`, `NotifyInv`, `EnterInv` and `ClosingInv` are four further inductive
invariants on top of `IInv`, for the theorems with a hypothesis in the table. The first three fail
without theirs: TLC's counterexamples are `supervisor_stale_force` for `FinalCloseObeyed`,
`_conn_generation` not being reset between sessions for `CallbacksPaired`, a `shutdown` by another
task during `__aenter__` for `EnterAnswered`. `ClosesAwaited` needs one session because the supervisor of a
second one is no longer the one that was cancelled.
`ImplementsLifecycle` shows that every step moves `state` along the table or leaves it
alone, also where the code assigns it without asking (`Finish`, `ReturnFromShutdown`).
`TerminalErrorIsFinal` is preserved as it stands, given `IInv`.

`ReconnectControllerProofs` proves, for every finite or infinite set of policies, connect times,
uptimes and draws, every largest float and every bound on the attempts, from the
module's assumptions: the policies
have the fields and types of `ReconnectPolicy` and pass `validate_reconnect_policy`, times
and draws are natural numbers (`PolicyAssumption`), and `Power` tabulates the powers of the
numerator and denominator of each policy's factor (`PowerAssumption`). These are the policies the
code accepts whose times are whole ticks and whose jitter ratios are whole percents; a factor
of one or less, and a `base_delay_s` of zero, are among them. Infinite times are not.

| Theorem | Says |
| --- | --- |
| `Invariant` | `[]IInv`: `TypeOK`, and unless reconnects are suppressed the threshold is not met |
| `TypeCorrect` | `[]TypeOK` |
| `ImplementsBudget` | `ReconnectController` refines `ReconnectBudget` |
| `SparesServer` | `[]ServerSpared` |
| `StableStartsAfresh` | `StableForgets` |
| `HoldDown` | `[]HoldDownWins` |
| `OnlyOutagesFail` | `[]RetriesGoOn` |

The hard one is `HoldDown`: that five rapid disconnects are the most needs the times between
those still in the window. Its invariant `Held` says that the i-th is at least `Gap(i)`
ticks older than the next, and that the newest is that old before the next connection
starts. `Gap` is the least wait after the i-th: 4, 20, 60, 90 and 120 ticks of a quarter of
a second. They add up to 294, so a sixth does not fit in the 240 ticks of the
window.

`ProtocolHandlerProofs` proves that V2 messages survive serializing and parsing
(`RoundTripV2`), that V1 messages do but for `join_ref` (`RoundTripV1`), and that every
frame is rejected or becomes a message with a topic, an event and an object as payload
(`ParsedIsUsable`).

`HeartbeatProofs` proves, for every number of connections and heartbeats, `TypeCorrect`,
`NoLoopOutlives` (`[]OneLoop`), `HeartbeatGoesOn` (`[]BeatsWhileUp`) and `AcksAreExact`
(`AckExact`), from an invariant that ties the supervisor's place to the loop that may
live (`Phases`), the pending ref to the newest heartbeat (`PendingOK`), and says which frames may be
on their way (`FramesOK`): to the server heartbeats with refs of those sent so far, back from it
frames that cannot be parsed and answers to such heartbeats, neither before the first heartbeat
of the connection, and none from a loop but with the newest ref. Refs are never used twice, so an
answer with the pending ref can only be to the newest heartbeat.

The four `Topic...Proofs` modules prove, for every number of topics, subscriptions, connections,
events and leaves, every queue size, both protocol versions and every choice of the
switches in the constants, from `TopicAssumption` (their types):

| Theorem | Says |
| --- | --- |
| `TopicStructure` | `[]TypeInv`, the inductive invariant all others rest on |
| `TypeCorrect` | `[]TypeOK` |
| `EventsInOrder` | `OrderedDelivery` |
| `RejoinsComplete` | `[]RejoinComplete` |
| `ProcessorAlone` | `[]OneProcessor` (\*) |
| `UnregisteredStops`, `FailedSubscribeStops`, `ShutdownStops` | `[]UnregisteredQuiet`, `[]FailedSubscribeGone`, `[]ShutdownQuiet` (\*) |
| `MessagesFresh` | `[]NoStaleCallback` (\*) |
| `JoinedInFact` | `[]ReadyMeansJoined` (\*) |
| `ImplementsLife` | `TopicRuntime` refines `SubscriptionLife` (\*) |
| `NamesApart` | `[]NoNameClash`, if no topic is subscribed again or there is one connection |

(\*) of every behaviour with `[]NoNameClash`: no topic is subscribed again while a rejoin
still holds the object it had, or before that object's processor has run. That is a condition
on the application, for which the code has no guard. Without it the theorem is
false of `OneProcessor`, `ReadyMeansJoined` and the three about what is left, as TLC shows with
`Reuse = TRUE`, `MaxGen = 2` and two subscriptions. `NamesApart` gives two classes of
applications that meet it whatever else happens; for them nothing is assumed of the behaviour.

The invariants, from the bottom up:

* `TypeInv`: the ranges, and what refers to what. Each join has a number of its own and
  belongs to one object (`Numbered`), which makes "the processor of x" well defined; the registry
  maps a name to an object of that name (`Named`); tasks, callers and the rejoin hold
  objects that were made (`TasksMade`, `LeaversMade`, `RejoinMade`). That the numbers do not run
  out needs counting: each connection joins an object at most once, since a rejoin holds
  only objects of an earlier connection, so `refs` is at most `MaxSubs` per earlier
  connection plus what this one has joined (`RefsBounded`).
* `Ordered`: what a callback has seen, the queue, and the wire are one increasing line. A
  queue that drops its oldest entry, a lost connection and a rejoin that empties the
  queue only shorten it.
* `RejoinInv`: a registered topic of an earlier connection, which nobody asked to leave, is
  still before the rejoin, or that was broken off, or there is no connection.
* `AllWork`: a task that has found its object is that object's one processor, and takes messages only
  while the object is registered; one that has not yet run will find its own name. It is here that the
  lookup by name needs `NoNameClash`. With `Raised` and `Closed` (a call that failed, and a
  shutdown from its `ShutdownUnregisters` on, have unregistered what they were about) it gives the theorems
  about what is left.
* `Fresh`: the wire, and the queue of every object, hold messages of one connection only; the
  rejoin empties a queue in the step that moves its object.
* `JoinInForce`: not only an object that counts as joined, also one whose positive answer is on
  the wire or in its queue, is joined on the server, unless it was asked to leave; and no join that
  was not yet sent has an answer under way.

Since nearly every theorem goes through all actions, their effects are stated once: `Aside`
collects the actions that make no object, join none and move no message, with what they
leave alone (`KeepsJoins`, `KeepsRejoin`, `StepsAside`); `Moving` those of a rejoin
(`MovesOn`); and `Route`, `Push`, `Dispatch` and `Subscribe` have a lemma each. The refinement shows
of every step that it starts or ends one callback, moves one object along its phases, or takes any
number of objects to *leaving* or to *gone*; that a callback starts only where *joined* is true comes
from the processor's own checks, and that a join finds no callback from the drain: the old
processor is no longer alive, and by `AllWork` no other task runs that object's callbacks.

Only model-checked: the liveness properties (`LossNoticed`, `ShutdownReturns`,
`CallsEnd`, `WatchdogRecovers`), which are out of the prover's reach; and the runs that find a
violation. Every other property of a run is a theorem.

## 6. Not modelled

* Cancellation of the application's own calls, and calls of the client from inside
  its callbacks other than a topic leaving itself.
* A processor that fails with an error of its own (`topic_runtime.py:129-131`): by
  `ParsedIsUsable` nothing it does with a message raises.
* Topics in `Heartbeat` and `ReconnectController`, heartbeats in `TopicRuntime`: the parts
  share `_ref_counter`, the socket and the supervisor, and nothing else.
* The text of JSON and the websocket itself: external, modelled as they are used.
* URL building, logging, exceptions, exports, the example: no state.

## 7. Plan

Written: `Supervisor`, `TopicRuntime`, `ReconnectController`, `ProtocolHandler` and `Heartbeat`
with their abstract specifications, runs and proofs. Still open:
`PHXClient`, the supervisor and the topics together, on a very small instance.
