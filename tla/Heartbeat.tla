-------------------------------- MODULE Heartbeat --------------------------------
(***************************************************************************)
(* The heartbeat of a connection: _heartbeat_loop, the routing of answers  *)
(* to _handle_heartbeat_response, what the supervisor does with both tasks *)
(* when a connection begins and ends, and an application that closes a     *)
(* connection whose heartbeats go unanswered.                              *)
(*                                                                         *)
(* An action is the code one task runs between two awaits.  Frames are     *)
(* those of ProtocolHandler; the frames of topics are left to TopicRuntime,*)
(* shutdown and failed attempts to Supervisor.  _ref_counter counts        *)
(* heartbeats only.                                                        *)
(***************************************************************************)
EXTENDS ProtocolHandler

CONSTANTS
  MaxGen,    \* bound: connections
  MaxBeats,  \* bound: heartbeats
  MaxWire    \* bound: frames on their way from the server before it adds a malformed one

ASSUME BoundAssumption == MaxGen \in Nat /\ MaxBeats \in Nat /\ MaxWire \in Nat

VARIABLES
  gen,         \* _conn_generation
  connection,  \* connection: the generation that opened it, 0 = None
  link,        \* per generation, the websocket: see LinkStatus
  sup,         \* where the supervisor is suspended
  routing,     \* _message_routing_task
  loop,        \* per generation, its _heartbeat_loop: at, and the local ref
  pending,     \* _pending_heartbeat_ref
  counter,     \* _ref_counter
  forced,      \* _forced_close_pending
  outbox,      \* heartbeats the server has not looked at
  wire,        \* frames on their way from the server
  newest,      \* history: the last heartbeat, its connection, and whether it was acknowledged
  acks         \* history: calls of on_heartbeat_ack

beats   == <<loop, pending, counter, newest, acks>>
sockets == <<gen, connection, link, outbox, wire>>
vars    == <<sockets, sup, routing, beats, forced>>

Generations == 1..MaxGen
\* "stalled": open, but the peer is silent; "closing": close_connection has sent its close
\* frame; the rest: closed, with 1000 or 1001 or in another way.
LinkStatus == {"none", "up", "stalled", "closing", "normal", "other"}
Open       == {"up", "stalled", "closing"}
Live       == {"waiting", "sending", "draining", "cancelled"}
Ref(n)     == Text(ToString(n))

Init ==
  /\ gen = 0 /\ connection = 0 /\ link = [g \in Generations |-> "none"]
  /\ sup = "connecting" /\ routing = "none"
  /\ loop = [g \in Generations |-> [at |-> "none", ref |-> 0]]
  /\ pending = Null /\ counter = 0 /\ forced = FALSE
  /\ outbox = <<>> /\ wire = <<>>
  /\ newest = [ref |-> 0, gen |-> 0, acked |-> FALSE] /\ acks = 0

---------------------------------------------------------------------------------
(***************************************************************************)
(* _heartbeat_loop of connection g.                                        *)
(***************************************************************************)
KeepOldest(ref) == IF pending = Null THEN ref ELSE pending       \* mutant
\* An unanswered heartbeat is only logged, and forgotten.
MarkPending(ref) == ref

BreakUnanswered(g) == IF pending = Null THEN "sending" ELSE "done"   \* mutant
AfterInterval(g) == "sending"

\* The interval is over: the ref is pending before the heartbeat is sent.
BeatDue(g) ==
  /\ loop[g].at = "waiting" /\ counter < MaxBeats
  /\ counter' = counter + 1
  /\ pending' = MarkPending(Ref(counter + 1))
  /\ loop' = [loop EXCEPT ![g] = [at |-> AfterInterval(g), ref |-> counter + 1]]
  /\ newest' = [ref |-> counter + 1, gen |-> g, acked |-> FALSE]
  /\ UNCHANGED <<sockets, sup, routing, forced, acks>>

HeartbeatMessage(n) ==
  MakeMessage("phoenix", "heartbeat", Object(NoFields), Ref(n), Null)

\* send() has written the frame and waits for the buffer to drain; the answer may be
\* there before it returns.
BeatWritten(g) ==
  /\ loop[g].at = "sending" /\ link[g] \in {"up", "stalled"}
  /\ loop' = [loop EXCEPT ![g].at = "draining"]
  /\ outbox' = IF link[g] = "up"
               THEN Append(outbox, SerializeMessage(HeartbeatMessage(loop[g].ref)))
               ELSE outbox
  /\ UNCHANGED <<gen, connection, link, wire, sup, routing, pending, counter, newest, acks,
                 forced>>

BeatSent(g) ==
  /\ loop[g].at = "draining" /\ link[g] \in {"up", "stalled"}
  /\ loop' = [loop EXCEPT ![g].at = "waiting"]
  /\ UNCHANGED <<sockets, sup, routing, pending, counter, newest, acks, forced>>

\* send() raises: the loop is left; the ref stays pending.
BeatFails(g) ==
  /\ loop[g].at \in {"sending", "draining"} /\ link[g] \notin {"up", "stalled"}
  /\ loop' = [loop EXCEPT ![g].at = "done"]
  /\ UNCHANGED <<sockets, sup, routing, pending, counter, newest, acks, forced>>

LoopCancelled(g) ==
  /\ loop[g].at = "cancelled"
  /\ loop' = [loop EXCEPT ![g].at = "done"]
  /\ UNCHANGED <<sockets, sup, routing, pending, counter, newest, acks, forced>>

---------------------------------------------------------------------------------
(***************************************************************************)
(* process_websocket_messages and _handle_heartbeat_response.              *)
(***************************************************************************)
AnyRef(m) == m.ref # Null                                        \* mutant
\* The message answers the pending heartbeat, whatever its event and status are.
Acknowledges(m) == m.ref # Null /\ m.ref = pending

\* A frame that cannot be parsed ends the task.
Route ==
  /\ routing = "running" /\ wire # <<>>
  /\ wire' = Tail(wire)
  /\ LET m == ParseMessage(Head(wire))
     IN IF m # Malformed /\ m.topic = "phoenix" /\ Acknowledges(m)
        THEN /\ pending' = Null
             /\ acks' = acks + 1 /\ newest' = [newest EXCEPT !.acked = TRUE]
             /\ UNCHANGED routing
        ELSE /\ routing' = IF m = Malformed THEN "done" ELSE routing
             /\ UNCHANGED <<pending, acks, newest>>
  /\ UNCHANGED <<gen, connection, link, outbox, sup, loop, counter, forced>>

\* What was received is read first, then the end of the connection.
RoutingEnds ==
  /\ routing = "running" /\ wire = <<>> /\ link[gen] \notin Open
  /\ routing' = "done"
  /\ UNCHANGED <<sockets, sup, beats, forced>>

---------------------------------------------------------------------------------
(***************************************************************************)
(* The supervisor.                                                         *)
(***************************************************************************)
Connect ==
  /\ sup = "connecting" /\ gen < MaxGen
  /\ gen' = gen + 1 /\ connection' = gen + 1
  /\ link' = [link EXCEPT ![gen + 1] = "up"]
  /\ outbox' = <<>> /\ wire' = <<>>
  /\ pending' = Null
  /\ routing' = "running"
  /\ loop' = [loop EXCEPT ![gen + 1].at = "waiting"]
  /\ sup' = "rejoining"
  /\ UNCHANGED <<counter, forced, newest, acks>>

\* _rejoin_topics and on_reconnect are done.
Rejoined ==
  /\ sup = "rejoining"
  /\ sup' = "routing"
  /\ UNCHANGED <<sockets, routing, beats, forced>>

\* The decision of Supervisor, with reconnect_on_normal_close off: a close of ours is
\* followed by a reconnect whatever code came back; so is the end of the routing task
\* with the link still open.
Verdict == IF forced \/ link[gen] # "normal" THEN "reconnect" ELSE "stop"

StopAtOnce(g) ==                                                 \* mutant
  sup' = Verdict /\ loop' = [loop EXCEPT ![g].at = IF @ \in Live THEN "cancelled" ELSE @]
\* _cleanup_connection cancels a live heartbeat loop and waits for it.
StopLoop(g) ==
  IF loop[g].at \in Live
  THEN /\ loop' = [loop EXCEPT ![g].at = "cancelled"]
       /\ sup' = IF Verdict = "stop" THEN "stopping" ELSE "restarting"
  ELSE sup' = Verdict /\ UNCHANGED loop

ConnectionLost ==
  /\ sup = "routing" /\ routing = "done"
  /\ forced' = FALSE
  /\ connection' = 0
  /\ StopLoop(gen)
  /\ UNCHANGED <<gen, link, outbox, wire, routing, pending, counter, newest, acks>>

LoopStopped ==
  /\ sup \in {"stopping", "restarting"} /\ loop[gen].at \notin Live
  /\ sup' = IF sup = "stopping" THEN "stop" ELSE "reconnect"
  /\ UNCHANGED <<sockets, routing, beats, forced>>

\* The rest of the clean-up, on_disconnect and the delay.
CleanedUp ==
  /\ sup \in {"stop", "reconnect"}
  /\ pending' = Null /\ routing' = "none"
  /\ link' = [link EXCEPT ![gen] = IF @ \in Open THEN "other" ELSE @]
  /\ sup' = IF sup = "stop" THEN "ended" ELSE "connecting"
  /\ UNCHANGED <<gen, connection, outbox, wire, loop, counter, newest, acks, forced>>

---------------------------------------------------------------------------------
(***************************************************************************)
(* close_connection.                                                       *)
(***************************************************************************)
FlagOnly == UNCHANGED link                                       \* mutant
SendClose ==
  link' = [link EXCEPT ![connection] = IF @ \in {"up", "stalled"} THEN "closing" ELSE @]

CloseConnection ==
  /\ connection # 0
  /\ forced' = TRUE
  /\ SendClose
  /\ UNCHANGED <<gen, connection, outbox, wire, sup, routing, beats>>

\* The peer echoes some code, or close_timeout is over.
CloseEnds(g) ==
  /\ link[g] = "closing"
  /\ \E code \in {"normal", "other"} : link' = [link EXCEPT ![g] = code]
  /\ UNCHANGED <<gen, connection, outbox, wire, sup, routing, beats, forced>>

\* The application gives up on a connection that has not acknowledged for too long.
Watchdog == pending # Null /\ CloseConnection

---------------------------------------------------------------------------------
(***************************************************************************)
(* The server and the network.                                             *)
(***************************************************************************)
Answer ==
  /\ outbox # <<>> /\ link[gen] = "up"
  /\ LET m == ParseMessage(Head(outbox))
     IN wire' = Append(wire, SerializeMessage(
                  MakeMessage(m.topic, "phx_reply", Object(NoFields), m.ref, m.join_ref)))
  /\ outbox' = Tail(outbox)
  /\ UNCHANGED <<gen, connection, link, sup, routing, beats, forced>>

\* Not JSON, an array or an object that is no message, a topic that is no string.
MalformedFrames ==
  {Garbage, Array(<<Null, Null>>), Object(NoFields),
   Array(<<Null, Null, Null, Text("phx_reply"), Object(NoFields)>>)}

SendMalformed ==
  /\ link[gen] = "up" /\ Len(wire) < MaxWire
  /\ \E f \in MalformedFrames : wire' = Append(wire, f)
  /\ UNCHANGED <<gen, connection, link, outbox, sup, routing, beats, forced>>

Stall ==
  /\ link[gen] = "up"
  /\ link' = [link EXCEPT ![gen] = "stalled"]
  /\ UNCHANGED <<gen, connection, outbox, wire, sup, routing, beats, forced>>

PeerCloses ==
  /\ link[gen] \in {"up", "stalled"}
  /\ \E code \in {"normal", "other"} : link' = [link EXCEPT ![gen] = code]
  /\ \E n \in 0..Len(wire) : wire' = SubSeq(wire, 1, n)
  /\ UNCHANGED <<gen, connection, outbox, sup, routing, beats, forced>>

Peer == gen > 0 /\ (Answer \/ SendMalformed \/ Stall \/ PeerCloses)

---------------------------------------------------------------------------------
SupervisorStep == Connect \/ Rejoined \/ ConnectionLost \/ LoopStopped \/ CleanedUp

LoopStep(g) ==
  BeatDue(g) \/ BeatWritten(g) \/ BeatSent(g) \/ BeatFails(g) \/ LoopCancelled(g)

Next ==
  \/ SupervisorStep \/ Route \/ RoutingEnds \/ CloseConnection \/ Peer
  \/ \E g \in Generations : LoopStep(g) \/ CloseEnds(g)

(***************************************************************************)
(* Fairness: the tasks of the client go on when they can, a close ends at  *)
(* the latest with its timeout, and the application has a watchdog.        *)
(***************************************************************************)
Fairness ==
  /\ WF_vars(SupervisorStep) /\ WF_vars(Route) /\ WF_vars(RoutingEnds) /\ WF_vars(Watchdog)
  /\ \A g \in Generations : WF_vars(LoopStep(g)) /\ WF_vars(CloseEnds(g))

Spec == Init /\ [][Next]_vars
FairSpec == Spec /\ Fairness
---------------------------------------------------------------------------------
\* The ranges; a pending ref is that of the newest heartbeat.
TypeOK ==
  /\ gen \in 0..MaxGen /\ connection \in {0, gen}
  /\ link \in [Generations -> LinkStatus]
  /\ sup \in {"connecting", "rejoining", "routing", "stopping", "restarting", "stop",
              "reconnect", "ended"}
  /\ routing \in {"none", "running", "done"}
  /\ loop \in [Generations -> [at : Live \cup {"none", "done"}, ref : 0..MaxBeats]]
  /\ counter \in 0..MaxBeats /\ pending \in {Null, Ref(newest.ref)}
  /\ forced \in BOOLEAN
  /\ newest \in [ref : 0..counter, gen : 0..gen, acked : BOOLEAN] /\ acks \in 0..counter

\* The routing task takes the next frame.
Routed == gen' = gen /\ link' = link /\ wire # <<>> /\ wire' = Tail(wire)

\* on_heartbeat_ack tells the truth: it is called for every answer to the newest heartbeat
\* of the connection that is read, once, and for nothing else: not for a late answer to an
\* earlier heartbeat, and never for one of an earlier connection.
AckExact ==
  [][acks' # acks <=>
       /\ Routed /\ ParseMessage(Head(wire)).topic = "phoenix"
       /\ ParseMessage(Head(wire)).ref = Ref(newest.ref)
       /\ newest.gen = gen /\ ~newest.acked]_vars

\* No heartbeat loop outlives its connection: when the client connects again the old one
\* can no longer overwrite the pending ref.
OneLoop ==
  \A g \in Generations :
    loop[g].at \in Live => g = gen /\ sup \in {"rejoining", "routing", "stopping", "restarting"}

\* As long as a connection works its heartbeat goes on, answered or not.
BeatsWhileUp ==
  connection # 0 /\ link[connection] \in {"up", "stalled"} => loop[connection].at \in Live

\* A silent connection does not last, given an application that watches the
\* acknowledgements and a heartbeat that is still to come within the bound; nor does one
\* whose routing task has failed on a frame.
WatchdogRecovers ==
  \A g \in Generations :
    connection = g /\ ((link[g] = "stalled" /\ counter < MaxBeats) \/ routing = "done")
      ~> connection # g
=================================================================================
