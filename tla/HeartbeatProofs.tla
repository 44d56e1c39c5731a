----------------------------- MODULE HeartbeatProofs -----------------------------
(***************************************************************************)
(* What holds of Heartbeat for any number of connections and heartbeats,   *)
(* whatever frames the server sends and whenever the link stalls, breaks   *)
(* or is closed.                                                           *)
(***************************************************************************)
EXTENDS Heartbeat, ProtocolHandlerProofs

HeartbeatFrame(n) == SerializeMessage(HeartbeatMessage(n))
AnswerFrame(n) ==
  SerializeMessage(MakeMessage("phoenix", "phx_reply", Object(NoFields), Ref(n), Null))

Beats   == {HeartbeatFrame(n) : n \in 1..counter}
Answers == {AnswerFrame(n) : n \in 1..counter}

\* What is on its way to the server is a heartbeat with a ref this client has made; what is
\* on its way back is malformed or the answer to such a heartbeat, with the same ref.  Until
\* the first heartbeat of a connection is due neither is there; and the loop sends no other
\* heartbeat than the newest.
FramesOK ==
  /\ outbox \in Seq(Beats) /\ wire \in Seq(MalformedFrames \cup Answers)
  /\ newest.gen # gen => outbox = <<>> /\ wire \in Seq(MalformedFrames)
  /\ newest.ref = counter
  /\ \A g \in Generations :
       loop[g].at \in {"sending", "draining"} =>
         loop[g].ref = counter /\ newest.gen = g /\ counter > 0

\* Where the supervisor is tells what there is of the connection.
Phases ==
  /\ (connection # 0) <=> (sup \in {"rejoining", "routing"})
  /\ connection # 0 => routing # "none"
  /\ sup \in {"stopping", "restarting", "stop", "reconnect"} => routing = "done"
  /\ sup \in {"connecting", "ended"} => routing = "none"
  /\ gen = 0 => sup = "connecting"
  /\ \A g \in Generations : loop[g].at = "cancelled" => connection = 0

\* The pending ref is that of the newest heartbeat, sent on this connection and not
\* acknowledged; and as long as answers are read, every such heartbeat is pending.
PendingOK ==
  /\ pending # Null => newest.gen = gen /\ ~newest.acked /\ acks < counter
  /\ routing = "running" /\ newest.gen = gen /\ ~newest.acked => pending # Null

ConnectionOK == TypeOK /\ Phases /\ OneLoop /\ BeatsWhileUp /\ PendingOK

Inv == ConnectionOK /\ FramesOK

LEMMA RefNotNull == ASSUME NEW n PROVE Ref(n) # Null
BY DEF Ref, Text, Null, Json

LEMMA InitInv == Init => Inv
<1> SUFFICES ASSUME Init PROVE Inv
  OBVIOUS
<1> USE BoundAssumption DEF Init
<1>1. TypeOK
  <2>1. link \in [Generations -> LinkStatus]
    BY DEF LinkStatus
  <2>2. loop \in [Generations -> [at : Live \cup {"none", "done"}, ref : 0..MaxBeats]]
    OBVIOUS
  <2>3. newest \in [ref : 0..counter, gen : 0..gen, acked : BOOLEAN] /\ acks \in 0..counter
    <3>1. 0 \in 0..counter /\ 0 \in 0..gen
      OBVIOUS
    <3> QED
      BY <3>1
  <2>4. gen \in 0..MaxGen /\ counter \in 0..MaxBeats
    OBVIOUS
  <2>5. /\ connection \in {0, gen} /\ forced \in BOOLEAN /\ pending \in {Null, Ref(newest.ref)}
        /\ sup = "connecting" /\ routing = "none"
    OBVIOUS
  <2> HIDE DEF Init
  <2> QED
    BY <2>1, <2>2, <2>3, <2>4, <2>5 DEF TypeOK
<1>2. FramesOK
  <2>1. \A S : <<>> \in Seq(S)
    OBVIOUS
  <2> QED
    BY <2>1 DEF FramesOK
<1>3. Phases /\ OneLoop /\ BeatsWhileUp /\ PendingOK
  BY DEF Phases, OneLoop, BeatsWhileUp, PendingOK, Live
<1> QED
  BY <1>1, <1>2, <1>3 DEF Inv, ConnectionOK

LEMMA SeqSteps ==
  ASSUME NEW S, NEW s \in Seq(S)
  PROVE  /\ \A e \in S : Append(s, e) \in Seq(S)
         /\ s # <<>> => Head(s) \in S /\ Tail(s) \in Seq(S) /\ Tail(s) # s
         /\ s # <<>> => \A e : Append(s, e) # Tail(s)
         /\ \A n \in 0..Len(s) : SubSeq(s, 1, n) \in Seq(S)
         /\ \A T : S \subseteq T => s \in Seq(T)
<1>1. \A e \in S : Append(s, e) \in Seq(S)
  OBVIOUS
<1>2. ASSUME s # <<>>
      PROVE  Head(s) \in S /\ Tail(s) \in Seq(S) /\ Len(Tail(s)) = Len(s) - 1 /\ Len(s) \in Nat
  BY <1>2
<1>3. ASSUME NEW e PROVE Len(Append(s, e)) = Len(s) + 1
  <2>1. s \in Seq(S \cup {e})
    OBVIOUS
  <2> QED
    BY <2>1
<1>4. \A n \in 0..Len(s) : SubSeq(s, 1, n) \in Seq(S)
  OBVIOUS
<1>5. \A T : S \subseteq T => s \in Seq(T)
  OBVIOUS
<1> QED
  BY <1>1, <1>2, <1>3, <1>4, <1>5

LEMMA ConnectionStep == Inv /\ [Next]_vars => ConnectionOK'
<1> SUFFICES ASSUME Inv, [Next]_vars PROVE ConnectionOK'
  OBVIOUS
<1> USE BoundAssumption DEF Generations
<1> USE DEF Inv, ConnectionOK
<1>a. \A n : Ref(n) # Null
  BY RefNotNull
<1>1. ASSUME NEW g \in Generations, BeatDue(g) PROVE ConnectionOK'
  <2> USE <1>1 DEF BeatDue, sockets, AfterInterval, MarkPending
  <2>1. g = gen
    BY DEF OneLoop, Live
  <2>2. TypeOK'
    <3>1. loop' \in [Generations -> [at : Live \cup {"none", "done"}, ref : 0..MaxBeats]]
      BY DEF TypeOK, Live
    <3>2. newest' \in [ref : 0..counter', gen : 0..gen', acked : BOOLEAN]
      <4>1. counter + 1 \in 0..counter' /\ g \in 0..gen'
        BY <2>1 DEF TypeOK
      <4> QED
        BY <4>1
    <3>3. newest'.ref = counter + 1
      OBVIOUS
    <3> QED
      BY <3>1, <3>2, <3>3 DEF TypeOK
  <2>3. Phases' /\ OneLoop' /\ BeatsWhileUp'
    BY <2>1 DEF Phases, OneLoop, BeatsWhileUp, Live, TypeOK
  <2>4. PendingOK'
    BY <2>1, <1>a DEF PendingOK, TypeOK
  <2> QED
    BY <2>2, <2>3, <2>4
<1>2. ASSUME NEW g \in Generations, BeatWritten(g) \/ BeatSent(g) \/ BeatFails(g) \/ LoopCancelled(g)
      PROVE  ConnectionOK'
  <2>1. /\ UNCHANGED <<gen, connection, link, wire, sup, routing, pending, counter, newest, acks,
                       forced>>
        /\ loop[g].at \in Live
        /\ \E at \in {"draining", "waiting", "done"} :
             /\ loop' = [loop EXCEPT ![g].at = at]
             /\ at = "done" => link[g] \notin {"up", "stalled"} \/ loop[g].at = "cancelled"
    BY <1>2 DEF BeatWritten, BeatSent, BeatFails, LoopCancelled, sockets, Live
  <2>2. TypeOK'
    BY <2>1 DEF TypeOK, Live
  <2>3. Phases' /\ OneLoop' /\ PendingOK'
    BY <2>1 DEF Phases, OneLoop, PendingOK, Live, TypeOK
  <2>4. BeatsWhileUp'
    BY <2>1 DEF BeatsWhileUp, Phases, Live, TypeOK
  <2> QED
    BY <2>2, <2>3, <2>4
<1>3. CASE Route
  <2> USE <1>3 DEF Route, Acknowledges
  <2>2. TypeOK' /\ PendingOK'
    <3>1. CASE UNCHANGED <<pending, acks, newest>>
      BY <3>1 DEF TypeOK, PendingOK
    <3>2. CASE ~UNCHANGED <<pending, acks, newest>>
      <4>1. /\ pending # Null /\ pending' = Null /\ acks' = acks + 1
            /\ newest' = [newest EXCEPT !.acked = TRUE] /\ UNCHANGED routing
        BY <3>2
      <4>2. UNCHANGED <<gen, connection, link, sup, loop, counter, forced>>
        OBVIOUS
      <4>3. acks + 1 \in 0..counter /\ newest' \in [ref : 0..counter, gen : 0..gen, acked : BOOLEAN]
              /\ newest'.acked
        <5>1. acks + 1 \in 0..counter
          BY <4>1 DEF TypeOK, PendingOK
        <5>2. newest \in [ref : 0..counter, gen : 0..gen, acked : BOOLEAN]
          BY DEF TypeOK
        <5> HIDE DEF Route, Inv, ConnectionOK
        <5> QED
          BY <4>1, <5>1, <5>2
      <4> HIDE DEF Route
      <4>4. TypeOK'
        BY <4>1, <4>2, <4>3 DEF TypeOK
      <4>5. PendingOK'
        BY <4>1, <4>2, <4>3 DEF PendingOK
      <4> QED
        BY <4>4, <4>5
    <3> QED
      BY <3>1, <3>2
  <2>3. Phases' /\ OneLoop' /\ BeatsWhileUp'
    BY DEF Phases, OneLoop, BeatsWhileUp, TypeOK
  <2> QED
    BY <2>2, <2>3
<1>4. CASE RoutingEnds
  BY <1>4 DEF RoutingEnds, sockets, beats, TypeOK, Phases, OneLoop, BeatsWhileUp,
     PendingOK, Live
<1>5. CASE Connect
  <2> USE <1>5 DEF Connect
  <2>1. gen + 1 \in Generations
    BY DEF TypeOK
  <2>2. TypeOK'
    <3>1. gen \in Nat /\ MaxGen \in Nat /\ gen < MaxGen
      BY DEF TypeOK
    <3>2. link' \in [Generations -> LinkStatus]
      BY <2>1 DEF TypeOK, LinkStatus
    <3>3. loop' \in [Generations -> [at : Live \cup {"none", "done"}, ref : 0..MaxBeats]]
      <4> HIDE DEF Connect, Inv, ConnectionOK
      <4>1. loop \in [Generations -> [at : Live \cup {"none", "done"}, ref : 0..MaxBeats]]
        BY DEF Inv, ConnectionOK, TypeOK
      <4>2. loop' = [loop EXCEPT ![gen + 1].at = "waiting"]
        BY DEF Connect
      <4>3. "waiting" \in Live
        BY DEF Live
      <4> QED
        BY <2>1, <4>1, <4>2, <4>3
    <3>4. newest' \in [ref : 0..counter', gen : 0..gen', acked : BOOLEAN]
      <4>1. newest \in [ref : 0..counter, gen : 0..gen, acked : BOOLEAN]
        BY DEF TypeOK
      <4>2. 0..gen \subseteq 0..gen' /\ counter' = counter /\ newest' = newest
        BY <3>1
      <4> QED
        BY <4>1, <4>2
    <3>5. gen' \in 0..MaxGen /\ connection' \in {0, gen'}
      BY <3>1
    <3>6. /\ sup' = "rejoining" /\ routing' = "running" /\ pending' = Null
          /\ counter' \in 0..MaxBeats /\ forced' \in BOOLEAN /\ acks' \in 0..counter'
      BY DEF TypeOK
    <3> QED
      BY <3>2, <3>3, <3>4, <3>5, <3>6 DEF TypeOK
  <2>4. Phases' /\ OneLoop' /\ BeatsWhileUp' /\ PendingOK'
    BY <2>1 DEF Phases, OneLoop, BeatsWhileUp, PendingOK, Live, TypeOK
  <2> QED
    BY <2>2, <2>4
<1>6. CASE Rejoined
  BY <1>6 DEF Rejoined, sockets, beats, TypeOK, Phases, OneLoop, BeatsWhileUp,
     PendingOK, Live
<1>7. CASE ConnectionLost
  <2> USE <1>7 DEF ConnectionLost, StopLoop, Verdict
  <2>1. gen \in Generations
    BY DEF TypeOK, Phases
  <2>2. CASE loop[gen].at \in Live
    <3>1. TypeOK'
      <4>1. loop' \in [Generations -> [at : Live \cup {"none", "done"}, ref : 0..MaxBeats]]
        BY <2>1, <2>2 DEF TypeOK, Live
      <4> QED
        BY <2>2, <4>1 DEF TypeOK
    <3>2. Phases' /\ OneLoop' /\ BeatsWhileUp' /\ PendingOK'
      BY <2>1, <2>2 DEF Phases, OneLoop, BeatsWhileUp, PendingOK, Live, TypeOK
    <3> QED
      BY <3>1, <3>2
  <2>3. CASE loop[gen].at \notin Live
    <3>1. TypeOK'
      BY <2>1, <2>3 DEF TypeOK
    <3>2. Phases' /\ OneLoop' /\ BeatsWhileUp' /\ PendingOK'
      BY <2>1, <2>3 DEF Phases, OneLoop, BeatsWhileUp, PendingOK, TypeOK
    <3> QED
      BY <3>1, <3>2
  <2> QED
    BY <2>2, <2>3
<1>8. CASE LoopStopped
  BY <1>8 DEF LoopStopped, sockets, beats, TypeOK, Phases, OneLoop, BeatsWhileUp,
     PendingOK, Live
<1>9. CASE CleanedUp
  BY <1>9 DEF CleanedUp, TypeOK, Phases, OneLoop, BeatsWhileUp, PendingOK, Live,
     LinkStatus
<1>10. CASE CloseConnection
  BY <1>10 DEF CloseConnection, SendClose, beats, TypeOK, Phases, OneLoop,
     BeatsWhileUp, PendingOK, Live, LinkStatus
<1>11. ASSUME NEW g \in Generations, CloseEnds(g) PROVE ConnectionOK'
  BY <1>11 DEF CloseEnds, beats, TypeOK, Phases, OneLoop, BeatsWhileUp, PendingOK,
     Live, LinkStatus
<1>12. CASE Peer
  <2>2. /\ gen \in Generations
        /\ UNCHANGED <<gen, connection, sup, routing, loop, pending, counter, newest, acks,
                       forced>>
        /\ \/ UNCHANGED link
           \/ /\ link[gen] \in {"up", "stalled"}
              /\ \E status \in LinkStatus : link' = [link EXCEPT ![gen] = status]
    <3>1. gen > 0
      BY <1>12 DEF Peer
    <3>2. gen \in Generations
      BY <3>1 DEF TypeOK
    <3>3. CASE Answer \/ SendMalformed
      BY <3>2, <3>3 DEF Answer, SendMalformed, beats
    <3>4. CASE Stall \/ PeerCloses
      BY <3>2, <3>4 DEF Stall, PeerCloses, beats, LinkStatus
    <3> QED
      BY <1>12, <3>3, <3>4 DEF Peer
  <2>3. TypeOK'
    BY <2>2 DEF TypeOK
  <2>4. Phases' /\ OneLoop' /\ PendingOK'
    BY <2>2 DEF Phases, OneLoop, PendingOK
  <2>5. BeatsWhileUp'
    BY <2>2 DEF BeatsWhileUp, TypeOK
  <2> QED
    BY <2>3, <2>4, <2>5
<1>13. CASE UNCHANGED vars
  BY <1>13 DEF vars, sockets, beats, TypeOK, Phases, OneLoop, BeatsWhileUp, PendingOK
<1> QED
  BY <1>1, <1>2, <1>3, <1>4, <1>5, <1>6, <1>7, <1>8, <1>9, <1>10, <1>11, <1>12, <1>13
     DEF Next, SupervisorStep, LoopStep

\* The server's answer to a heartbeat has the ref of that heartbeat, in either version.
LEMMA AnswerIs ==
  ASSUME NEW n
  PROVE  LET m == ParseMessage(HeartbeatFrame(n))
         IN SerializeMessage(MakeMessage(m.topic, "phx_reply", Object(NoFields), m.ref,
                                         m.join_ref)) = AnswerFrame(n)
<1>1. IsRef(Ref(n)) /\ IsRef(Null) /\ IsObject(Object(NoFields))
  <2>1. IsRef(Ref(n)) /\ IsRef(Null)
    BY DEF IsRef, Ref
  <2>2. IsObject(Object(NoFields))
    BY DEF IsObject, Object, Json
  <2> QED
    BY <2>1, <2>2
<1>n. "phoenix" # "" /\ "heartbeat" # ""
  OBVIOUS
<1>2. ParseMessage(HeartbeatFrame(n)) = HeartbeatMessage(n)
  <2>1. CASE V2
    BY <1>1, <1>n, <2>1, RoundTripV2 DEF HeartbeatFrame, HeartbeatMessage
  <2>2. CASE ~V2
    BY <1>1, <1>n, <2>2, RoundTripV1 DEF HeartbeatFrame, HeartbeatMessage
  <2> QED
    BY <2>1, <2>2
<1>3. /\ HeartbeatMessage(n).topic = "phoenix" /\ HeartbeatMessage(n).ref = Ref(n)
      /\ HeartbeatMessage(n).join_ref = Null
  BY DEF HeartbeatMessage, MakeMessage
<1> QED
  BY <1>2, <1>3 DEF AnswerFrame

LEMMA FramesStep == Inv /\ [Next]_vars => FramesOK'
<1> SUFFICES ASSUME Inv, [Next]_vars PROVE FramesOK'
  OBVIOUS
<1> USE DEF Generations
<1>1. /\ TypeOK /\ OneLoop /\ gen \in Nat /\ counter \in Nat
      /\ outbox \in Seq(Beats) /\ wire \in Seq(MalformedFrames \cup Answers)
      /\ newest.gen # gen => outbox = <<>> /\ wire \in Seq(MalformedFrames)
      /\ newest.ref = counter
      /\ \A g \in Generations :
           loop[g].at \in {"sending", "draining"} =>
             loop[g].ref = counter /\ newest.gen = g /\ counter > 0
  BY BoundAssumption DEF Inv, ConnectionOK, FramesOK, TypeOK
<1>2. ASSUME counter' = counter PROVE Beats' = Beats /\ Answers' = Answers
  BY <1>2 DEF Beats, Answers
<1>3. ASSUME NEW g \in Generations, BeatDue(g) PROVE FramesOK'
  <2>1. /\ counter' = counter + 1 /\ UNCHANGED <<gen, outbox, wire>>
        /\ newest' = [ref |-> counter + 1, gen |-> g, acked |-> FALSE]
    BY <1>3 DEF BeatDue, sockets
  <2>2. g = gen
    BY <1>1, <1>3 DEF BeatDue, OneLoop, Live
  <2>3. Beats \subseteq Beats' /\ Answers \subseteq Answers'
    <3>1. \A n \in 1..counter : n \in 1..(counter + 1)
      BY <1>1
    <3> QED
      BY <2>1, <3>1 DEF Beats, Answers
  <2>4. outbox' \in Seq(Beats') /\ wire' \in Seq(MalformedFrames \cup Answers')
    BY <1>1, <2>1, <2>3, SeqSteps
  <2>5. ASSUME NEW h \in Generations, loop'[h].at \in {"sending", "draining"} PROVE h = g
    <3>1. CASE h # g
      <4>1. loop'[h] = loop[h]
        BY <1>1, <1>3, <3>1 DEF BeatDue, TypeOK
      <4>2. h = gen
        BY <1>1, <2>5, <4>1 DEF OneLoop, Live
      <4> QED
        BY <2>2, <4>2
    <3> QED
      BY <3>1
  <2>6. loop'[g].ref = counter + 1
    BY <1>1, <1>3 DEF BeatDue, TypeOK
  <2> QED
    BY <1>1, <2>1, <2>2, <2>4, <2>5, <2>6 DEF FramesOK
<1>4. ASSUME NEW g \in Generations, BeatWritten(g) PROVE FramesOK'
  <2>1. /\ UNCHANGED <<gen, wire, counter, newest>> /\ loop[g].at = "sending"
        /\ loop' = [loop EXCEPT ![g].at = "draining"]
        /\ outbox' \in {outbox, Append(outbox, HeartbeatFrame(loop[g].ref))}
    BY <1>4 DEF BeatWritten, HeartbeatFrame
  <2>2. g = gen /\ loop[g].ref = counter /\ newest.gen = gen
    BY <1>1, <2>1 DEF OneLoop, Live
  <2>3. outbox' \in Seq(Beats)
    <3>1. counter \in 1..counter
      BY <1>1, <2>1
    <3>2. HeartbeatFrame(loop[g].ref) \in Beats
      BY <1>1, <2>2, <3>1 DEF Beats
    <3> QED
      BY <1>1, <2>1, <3>2, SeqSteps
  <2>4. \A h \in Generations : loop'[h].at \in {"sending", "draining"} =>
          loop'[h].ref = loop[h].ref /\ loop[h].at \in {"sending", "draining"}
    BY <1>1, <2>1 DEF TypeOK
  <2> QED
    BY <1>1, <1>2, <2>1, <2>2, <2>3, <2>4 DEF FramesOK
\* The other steps send no heartbeat.
<1>5. ASSUME UNCHANGED counter, newest'.ref = newest.ref, newest'.gen = newest.gen,
             \A g \in Generations : loop'[g].at \in {"sending", "draining"} => loop'[g] = loop[g],
             outbox' \in Seq(Beats), wire' \in Seq(MalformedFrames \cup Answers),
             newest.gen # gen' => outbox' = <<>> /\ wire' \in Seq(MalformedFrames)
      PROVE  FramesOK'
  BY <1>1, <1>2, <1>5 DEF FramesOK
<1> DEFINE Idle == \A g \in Generations :
                     loop'[g].at \in {"sending", "draining"} => loop'[g] = loop[g]
<1>6. CASE Connect
  <2>1. Idle
    BY <1>1, <1>6 DEF Connect, TypeOK
  <2>2. \A S : <<>> \in Seq(S)
    OBVIOUS
  <2> QED
    BY <1>5, <1>6, <2>1, <2>2 DEF Connect
<1>7. CASE Route
  <2>1. UNCHANGED <<gen, outbox, counter, loop>> /\ wire # <<>> /\ wire' = Tail(wire)
    BY <1>7 DEF Route
  <2>2. newest'.ref = newest.ref /\ newest'.gen = newest.gen
    BY <1>1, <1>7 DEF Route, TypeOK
  <2>3. \A S : wire \in Seq(S) => wire' \in Seq(S)
    BY <2>1, SeqSteps
  <2> QED
    BY <1>1, <1>5, <2>1, <2>2, <2>3
<1>8. CASE Answer /\ gen > 0
  <2>1. UNCHANGED <<gen, loop, counter, newest>> /\ outbox # <<>> /\ outbox' = Tail(outbox)
    BY <1>8 DEF Answer, beats
  <2>2. Head(outbox) \in Beats /\ outbox' \in Seq(Beats) /\ newest.gen = gen
    BY <1>1, <2>1, SeqSteps
  <2>3. PICK n \in 1..counter : Head(outbox) = HeartbeatFrame(n)
    BY <2>2 DEF Beats
  <2>4. wire' = Append(wire, AnswerFrame(n))
    BY <1>8, <2>3, AnswerIs DEF Answer
  <2>5. wire' \in Seq(MalformedFrames \cup Answers)
    BY <1>1, <2>4, SeqSteps DEF Answers
  <2> QED
    BY <1>5, <2>1, <2>2, <2>5
<1>9. CASE SendMalformed
  <2>1. UNCHANGED <<gen, outbox, loop, counter, newest>>
    BY <1>9 DEF SendMalformed, beats
  <2>2. PICK f \in MalformedFrames : wire' = Append(wire, f)
    BY <1>9 DEF SendMalformed
  <2>3. /\ wire' \in Seq(MalformedFrames \cup Answers)
        /\ wire \in Seq(MalformedFrames) => wire' \in Seq(MalformedFrames)
    BY <1>1, <2>2, SeqSteps
  <2> QED
    BY <1>1, <1>5, <2>1, <2>3
<1>10. CASE PeerCloses
  <2>1. UNCHANGED <<gen, outbox, loop, counter, newest>>
    BY <1>10 DEF PeerCloses, beats
  <2>2. \A S : wire \in Seq(S) => wire' \in Seq(S)
    BY <1>10, SeqSteps DEF PeerCloses
  <2> QED
    BY <1>1, <1>5, <2>1, <2>2
<1>11. ASSUME NEW g \in Generations, BeatSent(g) \/ BeatFails(g) \/ LoopCancelled(g)
       PROVE  FramesOK'
  <2>1. /\ UNCHANGED <<gen, outbox, wire, counter, newest>>
        /\ \E at \in {"waiting", "done"} : loop' = [loop EXCEPT ![g].at = at]
    BY <1>11 DEF BeatSent, BeatFails, LoopCancelled, sockets
  <2>2. Idle
    BY <1>1, <2>1 DEF TypeOK
  <2> QED
    BY <1>1, <1>5, <2>1, <2>2
<1>12. CASE ConnectionLost
  <2>1. UNCHANGED <<gen, outbox, wire, counter, newest>>
    BY <1>12 DEF ConnectionLost
  <2>2. UNCHANGED loop \/ loop' = [loop EXCEPT ![gen].at = "cancelled"]
    BY <1>12 DEF ConnectionLost, StopLoop
  <2>3. ASSUME NEW g \in Generations, loop'[g].at \in {"sending", "draining"}
        PROVE  loop'[g] = loop[g]
    <3>1. loop \in [Generations -> [at : Live \cup {"none", "done"}, ref : 0..MaxBeats]]
      BY <1>1 DEF TypeOK
    <3>2. CASE g = gen
      <4>1. loop' # [loop EXCEPT ![gen].at = "cancelled"]
        BY <2>3, <3>1, <3>2
      <4> QED
        BY <2>2, <4>1
    <3>3. CASE g # gen
      BY <2>2, <3>1, <3>3
    <3> QED
      BY <3>2, <3>3
  <2> QED
    BY <1>1, <1>5, <2>1, <2>3
<1>13. CASE \/ RoutingEnds \/ Rejoined \/ LoopStopped \/ CleanedUp \/ CloseConnection \/ Stall
            \/ (\E g \in Generations : CloseEnds(g)) \/ UNCHANGED vars
  <2>1. UNCHANGED <<gen, outbox, wire, counter, newest, loop>>
    BY <1>13 DEF RoutingEnds, Rejoined, LoopStopped, CleanedUp, CloseConnection, Stall,
       CloseEnds, vars, sockets, beats
  <2> QED
    BY <1>1, <1>5, <2>1
<1> QED
  BY <1>3, <1>4, <1>6, <1>7, <1>8, <1>9, <1>10, <1>11, <1>12, <1>13
     DEF Next, SupervisorStep, LoopStep, Peer

\* The inductive invariant.
THEOREM Invariant == Spec => []Inv
<1>1. Inv /\ [Next]_vars => Inv'
  BY ConnectionStep, FramesStep DEF Inv
<1> QED
  BY <1>1, InitInv, PTL DEF Spec

\* Every variable keeps its range, and the pending ref is that of the newest heartbeat.
THEOREM TypeCorrect == Spec => []TypeOK
<1>1. Inv => TypeOK
  BY DEF Inv, ConnectionOK
<1> QED
  BY Invariant, <1>1, PTL

\* When the client connects again the heartbeat loop of the connection before is over:
\* _cleanup_connection cancels it and waits for it.
THEOREM NoLoopOutlives == Spec => []OneLoop
<1>1. Inv => OneLoop
  BY DEF Inv, ConnectionOK
<1> QED
  BY Invariant, <1>1, PTL

\* A heartbeat that is not answered does not end the heartbeat.
THEOREM HeartbeatGoesOn == Spec => []BeatsWhileUp
<1>1. Inv => BeatsWhileUp
  BY DEF Inv, ConnectionOK
<1> QED
  BY Invariant, <1>1, PTL

LEMMA AckStep ==
  Inv /\ [Next]_vars =>
    (acks' # acks <=>
       /\ Routed /\ ParseMessage(Head(wire)).topic = "phoenix"
       /\ ParseMessage(Head(wire)).ref = Ref(newest.ref)
       /\ newest.gen = gen /\ ~newest.acked)
<1> SUFFICES ASSUME Inv, [Next]_vars
             PROVE  acks' # acks <=>
                      /\ Routed /\ ParseMessage(Head(wire)).topic = "phoenix"
                      /\ ParseMessage(Head(wire)).ref = Ref(newest.ref)
                      /\ newest.gen = gen /\ ~newest.acked
  OBVIOUS
<1> USE DEF Inv, ConnectionOK
<1>1. CASE Route
  <2>2. Routed /\ routing = "running"
    BY <1>1 DEF Route, Routed
  <2>3. newest.gen = gen /\ ~newest.acked <=> pending # Null
    BY <2>2 DEF PendingOK
  <2>4. Ref(newest.ref) # Null /\ pending \in {Null, Ref(newest.ref)} /\ acks \in Nat
    BY RefNotNull DEF TypeOK
  <2>5. ParseMessage(Head(wire)) # Malformed \/ ParseMessage(Head(wire)).topic # "phoenix"
    <3>1. Malformed.topic = ""
      BY DEF Malformed, MakeMessage
    <3> QED
      BY <3>1
  <2> DEFINE m == ParseMessage(Head(wire))
  <2>6. acks' # acks <=> m # Malformed /\ m.topic = "phoenix" /\ m.ref # Null /\ m.ref = pending
    BY <1>1, <2>4 DEF Route, Acknowledges
  <2> HIDE DEF m
  <2>7. m # Malformed \/ m.topic # "phoenix"
    BY <2>5 DEF m
  <2>8. acks' # acks <=> /\ m.topic = "phoenix" /\ m.ref = Ref(newest.ref)
                         /\ newest.gen = gen /\ ~newest.acked
    BY <2>3, <2>4, <2>6, <2>7
  <2> QED
    BY <2>2, <2>8 DEF m
<1>2. CASE ~Route
  <2>1. UNCHANGED acks
    BY <1>2 DEF Next, SupervisorStep, LoopStep, Peer, Connect, Rejoined, ConnectionLost,
       LoopStopped, CleanedUp, RoutingEnds, CloseConnection, Answer, SendMalformed, Stall,
       PeerCloses, BeatDue, BeatWritten, BeatSent, BeatFails, LoopCancelled, CloseEnds, beats,
       vars
  <2>2. ASSUME Routed PROVE FALSE
    <3>1. wire # <<>> /\ wire' = Tail(wire) /\ gen' = gen /\ link' = link
      BY <2>2 DEF Routed
    <3>2. Tail(wire) # wire /\ \A e : Append(wire, e) # Tail(wire)
      BY <3>1, SeqSteps DEF FramesOK
    <3>3. gen \in Int /\ gen + 1 # gen
      BY DEF TypeOK
    <3>4. ASSUME PeerCloses, gen > 0 PROVE FALSE
      <4>1. gen \in Generations /\ link \in [Generations -> LinkStatus]
        BY <3>4 DEF TypeOK, Generations
      <4> QED
        BY <3>1, <3>4, <4>1 DEF PeerCloses
    <3> QED
      BY <1>2, <3>1, <3>2, <3>3, <3>4 DEF Next, SupervisorStep, LoopStep, Peer, Connect,
         Rejoined, ConnectionLost, LoopStopped, CleanedUp, RoutingEnds, CloseConnection, Answer,
         SendMalformed, Stall, BeatDue, BeatWritten, BeatSent, BeatFails, LoopCancelled,
         CloseEnds, sockets, vars
  <2> QED
    BY <2>1, <2>2
<1> QED
  BY <1>1, <1>2

\* on_heartbeat_ack is called for every answer to the newest heartbeat of the connection,
\* once, and for nothing else.
THEOREM AcksAreExact == Spec => AckExact
<1> QED
  BY Invariant, AckStep, PTL DEF Spec, AckExact
=================================================================================
