---------------------------- MODULE ObserverProofs ----------------------------
(***************************************************************************)
(* Proofs about Observer (meshStore.newObserver) for every set of nodes,   *)
(* keys, threshold and bounds that satisfy ObserverAssumption.             *)
(***************************************************************************)
EXTENDS Observer, SequenceTheorems, TLAPS

USE ObserverAssumption

\* A leader observation waiting in the channel.
IsLeaderObs(o) == o.type = "leader"

\* Every leader observation waiting in a channel q reports the leader
\* history h records for the term it carries.
LeadersElected(q, h) ==
    \A i \in DOMAIN q : IsLeaderObs(q[i]) =>
       /\ q[i].term \in 1..Len(h)
       /\ q[i].leader = h[q[i].term]

\* Raft delivers leader changes in log order: the waiting ones have
\* increasing terms.
LeadersOrdered(q) ==
    \A i, j \in DOMAIN q :
       i < j /\ IsLeaderObs(q[i]) /\ IsLeaderObs(q[j]) => q[i].term < q[j].term

\* Every LEADER_CHANGE event in ev is for an earlier term than every leader
\* observation still waiting in q.
EmittedBefore(ev, q) ==
    \A i \in DOMAIN ev, j \in DOMAIN q :
       ev[i].type = "leader" /\ IsLeaderObs(q[j]) => ev[i].term < q[j].term

\* LeaderEventsFollowElections for an event sequence ev and a history h.
EventsFollow(ev, h) ==
    \A i \in DOMAIN ev : ev[i].type = "leader" =>
       /\ ev[i].term \in DOMAIN h
       /\ ev[i].node = h[ev[i].term]
       /\ \A j \in 1..(i - 1) : ev[j].type = "leader" => ev[j].term < ev[i].term

QueuedLeadersElected == LeadersElected(evq, hist)
QueuedLeadersOrdered == LeadersOrdered(evq)
EmittedBeforeQueued == EmittedBefore(events, evq)

\* The inductive invariant behind LeaderEventsFollowElections.
LeaderInv ==
    /\ TypeOK
    /\ QueuedLeadersElected /\ QueuedLeadersOrdered /\ EmittedBeforeQueued
    /\ LeaderEventsFollowElections

-----------------------------------------------------------------------------
(* Type correctness.                                                       *)

\* Queueing an observation keeps the channel a sequence of observations.
LEMMA ObservePreservesType ==
  ASSUME TypeOK, NEW o \in Observation, Observe(o)
  PROVE  evq' \in Seq(Observation) /\ obs' \in 0..MaxObs
BY AppendProperties DEF TypeOK, Observe

\* The head of a non-empty channel is an observation and its tail is a
\* channel.
LEMMA HeadObservation ==
  ASSUME TypeOK, evq # <<>>
  PROVE  Head(evq) \in Observation /\ Tail(evq) \in Seq(Observation)
BY HeadTailProperties DEF TypeOK

\* The peer of a heartbeat or peer-change observation is a server.
LEMMA ObservationPeer ==
  ASSUME NEW o \in Observation, o.type \in {"failed", "resumed", "peer"}
  PROVE  o.peer \in Node
BY DEF Observation

LEMMA InitTypeOK == Init => TypeOK
<1> SUFFICES ASSUME Init PROVE TypeOK
  OBVIOUS
<1>1. PICK k \in [InitMembers -> Key] :
        records = [n \in Node |-> IF n \in InitMembers THEN k[n] ELSE Absent]
  BY DEF Init
<1>2. records \in [Node -> Key \cup {Absent}]
  BY <1>1
<1>3. QED
  BY <1>2, EmptySeq DEF Init, TypeOK

LEMMA NextTypeOK == TypeOK /\ [Next]_vars => TypeOK'
<1> SUFFICES ASSUME TypeOK, [Next]_vars PROVE TypeOK'
  OBVIOUS
<1>1. ASSUME NEW l \in Node \cup {NoNode}, Elect(l) PROVE TypeOK'
  <2>1. [type |-> "leader", leader |-> l, term |-> Len(hist) + 1] \in Observation
    BY DEF TypeOK, Observation
  <2>2. hist' \in Seq(Node \cup {NoNode})
    BY <1>1, AppendProperties DEF Elect, TypeOK
  <2>3. QED
    BY <1>1, <2>1, <2>2, ObservePreservesType DEF Elect, TypeOK
<1>2. ASSUME NEW n \in Node, NEW k \in Key, Register(n, k) PROVE TypeOK'
  BY <1>2 DEF Register, TypeOK
<1>3. ASSUME NEW n \in Node, NEW sf \in {"voter", "nonvoter"}, AddMember(n, sf)
      PROVE TypeOK'
  <2>1. [type |-> "peer", peer |-> n, suffrage |-> sf, removed |-> FALSE]
          \in Observation
    BY DEF Observation
  <2>2. QED
    BY <1>3, <2>1, ObservePreservesType DEF AddMember, TypeOK
<1>4. ASSUME NEW p \in Node, NEW t \in {"failed", "resumed"}, Heartbeat(p, t)
      PROVE TypeOK'
  <2>1. [type |-> t, peer |-> p, term |-> Len(hist)] \in Observation
    BY DEF TypeOK, Observation
  <2>2. QED
    BY <1>4, <2>1, ObservePreservesType DEF Heartbeat, TypeOK
<1>5. ASSUME NEW p \in Node, RemoteRemove(p) PROVE TypeOK'
  <2>1. members[p] \in {"voter", "nonvoter"}
    BY <1>5 DEF RemoteRemove, TypeOK
  <2>2. [type |-> "peer", peer |-> p, suffrage |-> members[p], removed |-> TRUE]
          \in Observation
    BY <2>1 DEF Observation
  <2>3. QED
    BY <1>5, <2>2, ObservePreservesType DEF RemoteRemove, TypeOK
<1>6. ASSUME NEW p \in Node, RemoteDelete(p) PROVE TypeOK'
  BY <1>6 DEF RemoteDelete, TypeOK
<1>7. CASE OnFailedHeartbeat
  <2> DEFINE o == Head(evq)
             p == o.peer
             count == IF failed[p] < MaxFailures THEN failed[p] + 1
                                                 ELSE MaxFailures
  <2>1. evq # <<>> /\ o.type = "failed"
    BY <1>7 DEF OnFailedHeartbeat, Ready
  <2>2. o \in Observation /\ Tail(evq) \in Seq(Observation)
    BY <2>1, HeadObservation
  <2>3. p \in Node
    BY <2>1, <2>2, ObservationPeer
  <2>4. count \in 0..MaxFailures
    BY <2>3 DEF TypeOK
  <2>5. members[p] # "none" =>
          [type |-> "peer", peer |-> p, suffrage |-> members[p],
           removed |-> TRUE] \in Observation
    BY <2>3 DEF TypeOK, Observation
  <2>6. Append(Tail(evq), [type |-> "peer", peer |-> p,
                           suffrage |-> members[p], removed |-> TRUE])
          \in Seq(Observation) \/ members[p] = "none"
    BY <2>2, <2>5, AppendProperties
  <2>7. CASE Threshold <= 0
    BY <1>7, <2>2, <2>7 DEF OnFailedHeartbeat, TypeOK
  <2>8. CASE Threshold > 0
    <3>1. failed' = [failed EXCEPT ![p] = count]
      BY <1>7, <2>8 DEF OnFailedHeartbeat
    <3>2. failed' \in [Node -> 0..MaxFailures]
      BY <3>1, <2>3, <2>4 DEF TypeOK
    <3>4. /\ evq' \in Seq(Observation)
          /\ members' \in [Node -> {"voter", "nonvoter", "none"}]
          /\ purging' \in Node \cup {NoNode}
      BY <1>7, <2>8, <2>2, <2>3, <2>6 DEF OnFailedHeartbeat, TypeOK
    <3>5. QED
      BY <1>7, <3>2, <3>4 DEF OnFailedHeartbeat, TypeOK
  <2>9. QED
    BY <2>7, <2>8 DEF ObserverAssumption
<1>8. CASE OnPurgeDelete
  BY <1>8 DEF OnPurgeDelete, TypeOK
<1>9. CASE OnResumedHeartbeat
  <2>1. evq # <<>> /\ Head(evq).type = "resumed"
    BY <1>9 DEF OnResumedHeartbeat, Ready
  <2>2. Head(evq).peer \in Node /\ Tail(evq) \in Seq(Observation)
    BY <2>1, HeadObservation, ObservationPeer
  <2>3. failed' \in [Node -> 0..MaxFailures]
    BY <1>9, <2>2 DEF OnResumedHeartbeat, TypeOK
  <2>5. QED
    BY <1>9, <2>2, <2>3 DEF OnResumedHeartbeat, TypeOK
<1>10. CASE OnPeerChange
  <2> DEFINE o == Head(evq)
  <2>1. evq # <<>> /\ o.type = "peer"
    BY <1>10 DEF OnPeerChange, Ready
  <2>2. o \in Observation /\ Tail(evq) \in Seq(Observation)
    BY <2>1, HeadObservation
  <2>3. o.peer \in Node /\ o.suffrage \in {"voter", "nonvoter"}
        /\ o.removed \in BOOLEAN
    BY <2>1, <2>2 DEF Observation
  <2>4. [type |-> IF o.removed THEN "leave" ELSE "join", node |-> o.peer,
         status |-> IF o.removed THEN "unknown" ELSE o.suffrage, term |-> 0]
          \in Event
    BY <2>3 DEF Event
  <2>5. RegistryView \in [Node -> Key \cup {Absent}]
    BY DEF RegistryView, TypeOK
  <2>6. wg' \in [Node -> Key \cup {Absent}]
    BY <1>10, <2>5 DEF OnPeerChange, TypeOK
  <2>7. events' \in Seq(Event)
    <3> DEFINE e == [type |-> IF o.removed THEN "leave" ELSE "join",
                     node |-> o.peer,
                     status |-> IF o.removed THEN "unknown" ELSE o.suffrage,
                     term |-> 0]
    <3>1. Append(events, e) \in Seq(Event)
      BY <2>4, AppendProperties DEF TypeOK
    <3>2. events' \in {events, Append(events, e)}
      BY <1>10 DEF OnPeerChange, o, e
    <3>3. QED
      BY <3>1, <3>2 DEF TypeOK
  <2>8. QED
    BY <1>10, <2>2, <2>6, <2>7 DEF OnPeerChange, TypeOK
<1>11. CASE OnLeaderChange
  <2> DEFINE o == Head(evq)
  <2>1. evq # <<>> /\ o.type = "leader"
    BY <1>11 DEF OnLeaderChange, Ready
  <2>2. o \in Observation /\ Tail(evq) \in Seq(Observation)
    BY <2>1, HeadObservation
  <2>3. o.term \in Nat
    BY <2>1, <2>2 DEF Observation
  <2>4. o.leader \in Node =>
          [type |-> "leader", node |-> o.leader, status |-> "leader",
           term |-> o.term] \in Event
    BY <2>3 DEF Event
  <2>5. QED
    BY <1>11, <2>2, <2>4, AppendProperties DEF OnLeaderChange, TypeOK
<1>12. CASE UNCHANGED vars
  BY <1>12 DEF vars, TypeOK
<1>13. QED
  BY <1>1, <1>2, <1>3, <1>4, <1>5, <1>6, <1>7, <1>8, <1>9, <1>10, <1>11,
     <1>12 DEF Next

\* The observer and its environment keep every variable in its type: the
\* failure counters stay within their saturation bound and every queued
\* observation and emitted event is well formed.
THEOREM ObserverTypeCorrect == Spec => []TypeOK
BY InitTypeOK, NextTypeOK, PTL DEF Spec

-----------------------------------------------------------------------------
(* LEADER_CHANGE events follow raft's elections.                           *)

\* The property is EventsFollow of the variables.
LEMMA FollowIsProperty ==
  LeaderEventsFollowElections <=> EventsFollow(events, hist)
BY DEF LeaderEventsFollowElections, EventsFollow

\* Queueing an observation that is not a leader change (a heartbeat or a
\* peer change) keeps what the invariant says of the channel.
LEMMA PushOther ==
  ASSUME NEW q \in Seq(Observation), NEW o \in Observation, ~IsLeaderObs(o),
         NEW h, NEW ev
  PROVE  /\ LeadersElected(q, h) => LeadersElected(Append(q, o), h)
         /\ LeadersOrdered(q) => LeadersOrdered(Append(q, o))
         /\ EmittedBefore(ev, q) => EmittedBefore(ev, Append(q, o))
<1>1. /\ DOMAIN Append(q, o) = 1..(Len(q) + 1)
      /\ \A i \in 1..Len(q) : Append(q, o)[i] = q[i]
      /\ Append(q, o)[Len(q) + 1] = o
  BY AppendProperties
<1>2. QED
  BY <1>1 DEF LeadersElected, LeadersOrdered, EmittedBefore

\* Taking the head off the channel keeps what the invariant says of it.
LEMMA Pop ==
  ASSUME NEW q \in Seq(Observation), q # <<>>, NEW h, NEW ev
  PROVE  /\ LeadersElected(q, h) => LeadersElected(Tail(q), h)
         /\ LeadersOrdered(q) => LeadersOrdered(Tail(q))
         /\ EmittedBefore(ev, q) => EmittedBefore(ev, Tail(q))
<1>1. /\ Tail(q) \in Seq(Observation)
      /\ DOMAIN Tail(q) = 1..(Len(q) - 1)
      /\ \A i \in 1..(Len(q) - 1) : Tail(q)[i] = q[i + 1]
  BY HeadTailProperties
<1>2. QED
  BY <1>1 DEF LeadersElected, LeadersOrdered, EmittedBefore

\* Raft only ever extends its history of leaders, so what was elected in a
\* term stays elected in it.
LEMMA GrowHist ==
  ASSUME NEW S, NEW h \in Seq(S), NEW l \in S, NEW q, NEW ev
  PROVE  /\ LeadersElected(q, h) => LeadersElected(q, Append(h, l))
         /\ EventsFollow(ev, h) => EventsFollow(ev, Append(h, l))
<1>1. /\ Len(Append(h, l)) = Len(h) + 1
      /\ DOMAIN Append(h, l) = 1..(Len(h) + 1)
      /\ \A t \in 1..Len(h) : Append(h, l)[t] = h[t]
  BY AppendProperties
<1>2. DOMAIN h = 1..Len(h)
  OBVIOUS
<1>3. QED
  BY <1>1, <1>2 DEF LeadersElected, EventsFollow

\* An election appends the new leader to the history and queues its
\* observation with the next term: it is elected in that term and later
\* than everything queued or emitted before.
LEMMA ElectPush ==
  ASSUME NEW q \in Seq(Observation), NEW h \in Seq(Node \cup {NoNode}),
         NEW ev \in Seq(Event), NEW l \in Node \cup {NoNode},
         NEW o, o = [type |-> "leader", leader |-> l, term |-> Len(h) + 1],
         LeadersElected(q, h), LeadersOrdered(q), EmittedBefore(ev, q),
         EventsFollow(ev, h)
  PROVE  /\ LeadersElected(Append(q, o), Append(h, l))
         /\ LeadersOrdered(Append(q, o))
         /\ EmittedBefore(ev, Append(q, o))
         /\ EventsFollow(ev, Append(h, l))
<1>1. LeadersElected(q, Append(h, l)) /\ EventsFollow(ev, Append(h, l))
  BY GrowHist
<1>2. /\ DOMAIN Append(q, o) = 1..(Len(q) + 1)
      /\ \A i \in 1..Len(q) : Append(q, o)[i] = q[i]
      /\ Append(q, o)[Len(q) + 1] = o
      /\ Len(Append(h, l)) = Len(h) + 1
      /\ Append(h, l)[Len(h) + 1] = l
  BY AppendProperties
<1>3. \A i \in 1..Len(q) : IsLeaderObs(q[i]) => q[i].term \in 1..Len(h)
  BY DEF LeadersElected
<1>4. \A i \in DOMAIN ev : ev[i].type = "leader" => ev[i].term \in 1..Len(h)
  BY DEF EventsFollow
<1>5. LeadersElected(Append(q, o), Append(h, l))
  BY <1>1, <1>2 DEF LeadersElected, IsLeaderObs
<1>6. LeadersOrdered(Append(q, o))
  BY <1>2, <1>3 DEF LeadersOrdered, IsLeaderObs
<1>7. EmittedBefore(ev, Append(q, o))
  BY <1>2, <1>4 DEF EmittedBefore, IsLeaderObs
<1>8. QED
  BY <1>1, <1>5, <1>6, <1>7

\* Emitting a NODE_JOIN or NODE_LEAVE event keeps what the invariant says
\* of the LEADER_CHANGE events.
LEMMA EmitOther ==
  ASSUME NEW ev \in Seq(Event), NEW e \in Event, e.type # "leader",
         NEW h, NEW q
  PROVE  /\ EventsFollow(ev, h) => EventsFollow(Append(ev, e), h)
         /\ EmittedBefore(ev, q) => EmittedBefore(Append(ev, e), q)
<1>1. /\ DOMAIN Append(ev, e) = 1..(Len(ev) + 1)
      /\ \A i \in 1..Len(ev) : Append(ev, e)[i] = ev[i]
      /\ Append(ev, e)[Len(ev) + 1] = e
  BY AppendProperties
<1>2. QED
  BY <1>1 DEF EventsFollow, EmittedBefore

\* Emitting the LEADER_CHANGE of the observation at the head of the
\* channel: its leader is the one elected in its term, its term is later
\* than every LEADER_CHANGE before it and earlier than every leader
\* observation behind it.
LEMMA EmitLeader ==
  ASSUME NEW q \in Seq(Observation), q # <<>>, IsLeaderObs(Head(q)),
         NEW h, NEW ev \in Seq(Event),
         LeadersElected(q, h), LeadersOrdered(q), EmittedBefore(ev, q),
         EventsFollow(ev, h),
         NEW e, e = [type |-> "leader", node |-> Head(q).leader,
                     status |-> "leader", term |-> Head(q).term]
  PROVE  /\ EventsFollow(Append(ev, e), h)
         /\ EmittedBefore(Append(ev, e), Tail(q))
<1>1. /\ DOMAIN Append(ev, e) = 1..(Len(ev) + 1)
      /\ \A i \in 1..Len(ev) : Append(ev, e)[i] = ev[i]
      /\ Append(ev, e)[Len(ev) + 1] = e
  BY AppendProperties
<1>2. /\ Head(q) = q[1] /\ 1 \in DOMAIN q
      /\ DOMAIN Tail(q) = 1..(Len(q) - 1)
      /\ \A k \in 1..(Len(q) - 1) : Tail(q)[k] = q[k + 1]
  BY HeadTailProperties
<1>3. e.term \in DOMAIN h /\ e.node = h[e.term]
  BY <1>2 DEF LeadersElected
<1>4. \A j \in 1..Len(ev) : ev[j].type = "leader" => ev[j].term < e.term
  BY <1>2 DEF EmittedBefore
<1>5. \A k \in 1..(Len(q) - 1) :
         IsLeaderObs(q[k + 1]) => e.term < q[k + 1].term
  BY <1>2 DEF LeadersOrdered
<1>6. EventsFollow(Append(ev, e), h)
  BY <1>1, <1>3, <1>4 DEF EventsFollow
<1>7. EmittedBefore(Append(ev, e), Tail(q))
  <2>1. EmittedBefore(ev, Tail(q))
    BY Pop
  <2>2. QED
    BY <1>1, <1>2, <1>5, <2>1 DEF EmittedBefore
<1>8. QED
  BY <1>6, <1>7

LEMMA InitLeaderInv == Init => LeaderInv
<1> SUFFICES ASSUME Init PROVE LeaderInv
  OBVIOUS
<1>1. TypeOK
  BY InitTypeOK
<1>2. evq = <<>> /\ events = <<>>
  BY DEF Init
<1>3. QED
  BY <1>1, <1>2 DEF LeaderInv, QueuedLeadersElected, QueuedLeadersOrdered,
     EmittedBeforeQueued, LeadersElected, LeadersOrdered, EmittedBefore,
     LeaderEventsFollowElections

LEMMA NextLeaderInv == LeaderInv /\ [Next]_vars => LeaderInv'
<1> SUFFICES ASSUME LeaderInv, [Next]_vars PROVE LeaderInv'
  OBVIOUS
<1> USE DEF LeaderInv, QueuedLeadersElected, QueuedLeadersOrdered,
            EmittedBeforeQueued
<1>1. TypeOK'
  BY NextTypeOK
<1>2. EventsFollow(events, hist)
  BY FollowIsProperty
<1>3. SUFFICES /\ LeadersElected(evq', hist') /\ LeadersOrdered(evq')
               /\ EmittedBefore(events', evq') /\ EventsFollow(events', hist')
  BY <1>1 DEF LeaderEventsFollowElections, EventsFollow
<1>4. ASSUME NEW l \in Node \cup {NoNode}, Elect(l) PROVE <1>3!1
  <2> DEFINE o == [type |-> "leader", leader |-> l, term |-> Len(hist) + 1]
  <2>1. evq' = Append(evq, o) /\ hist' = Append(hist, l) /\ events' = events
    BY <1>4 DEF Elect, Observe
  <2>2. /\ LeadersElected(Append(evq, o), Append(hist, l))
        /\ LeadersOrdered(Append(evq, o))
        /\ EmittedBefore(events, Append(evq, o))
        /\ EventsFollow(events, Append(hist, l))
    BY <1>2, ElectPush DEF TypeOK
  <2>3. QED
    BY <2>1, <2>2
<1>5. ASSUME NEW o \in Observation, ~IsLeaderObs(o),
             evq' = Append(evq, o), hist' = hist, events' = events
      PROVE  <1>3!1
  BY <1>2, <1>5, PushOther DEF TypeOK
<1>6. ASSUME NEW n \in Node, NEW sf \in {"voter", "nonvoter"}, AddMember(n, sf)
      PROVE <1>3!1
  <2>1. [type |-> "peer", peer |-> n, suffrage |-> sf, removed |-> FALSE]
          \in Observation
    BY DEF Observation
  <2>2. QED
    BY <1>6, <2>1, <1>5 DEF AddMember, Observe, IsLeaderObs
<1>7. ASSUME NEW p \in Node, NEW t \in {"failed", "resumed"}, Heartbeat(p, t)
      PROVE <1>3!1
  <2>1. [type |-> t, peer |-> p, term |-> Len(hist)] \in Observation
    BY DEF TypeOK, Observation
  <2>2. QED
    BY <1>7, <2>1, <1>5 DEF Heartbeat, Observe, IsLeaderObs
<1>8. ASSUME NEW p \in Node, RemoteRemove(p) PROVE <1>3!1
  <2>1. [type |-> "peer", peer |-> p, suffrage |-> members[p], removed |-> TRUE]
          \in Observation
    BY <1>8 DEF RemoteRemove, TypeOK, Observation
  <2>2. QED
    BY <1>8, <2>1, <1>5 DEF RemoteRemove, Observe, IsLeaderObs
<1>9. ASSUME evq # <<>>, evq' = Tail(evq), hist' = hist, events' = events
      PROVE  <1>3!1
  BY <1>2, <1>9, Pop DEF TypeOK
<1>10. CASE OnFailedHeartbeat
  <2> DEFINE p == Head(evq).peer
             r == [type |-> "peer", peer |-> p, suffrage |-> members[p],
                   removed |-> TRUE]
  <2>1. evq # <<>> /\ p \in Node /\ Tail(evq) \in Seq(Observation)
    BY <1>10, HeadObservation, ObservationPeer DEF OnFailedHeartbeat, Ready
  <2>2. CASE evq' = Tail(evq)
    BY <1>9, <1>10, <2>1, <2>2 DEF OnFailedHeartbeat
  <2>3. CASE evq' = Append(Tail(evq), r) /\ members[p] # "none"
    <3>1. r \in Observation /\ ~IsLeaderObs(r)
      BY <2>1, <2>3 DEF TypeOK, Observation, IsLeaderObs
    <3>2. /\ LeadersElected(Tail(evq), hist) /\ LeadersOrdered(Tail(evq))
          /\ EmittedBefore(events, Tail(evq))
      BY <2>1, Pop DEF TypeOK
    <3>3. QED
      BY <1>2, <1>10, <2>1, <2>3, <3>1, <3>2, PushOther DEF OnFailedHeartbeat
  <2>4. QED
    BY <1>10, <2>2, <2>3 DEF OnFailedHeartbeat
<1>11. CASE OnPeerChange
  <2> DEFINE o == Head(evq)
             e == [type |-> IF o.removed THEN "leave" ELSE "join",
                   node |-> o.peer,
                   status |-> IF o.removed THEN "unknown" ELSE o.suffrage,
                   term |-> 0]
  <2>1. evq # <<>> /\ o.type = "peer" /\ o \in Observation
        /\ Tail(evq) \in Seq(Observation)
    BY <1>11, HeadObservation DEF OnPeerChange, Ready
  <2>2. e \in Event /\ e.type # "leader"
    BY <2>1 DEF Observation, Event
  <2>3. /\ LeadersElected(Tail(evq), hist) /\ LeadersOrdered(Tail(evq))
        /\ EmittedBefore(events, Tail(evq))
    BY <2>1, Pop DEF TypeOK
  <2>4. events' \in {events, Append(events, e)}
    BY <1>11 DEF OnPeerChange
  <2>5. EventsFollow(Append(events, e), hist)
        /\ EmittedBefore(Append(events, e), Tail(evq))
    BY <1>2, <2>2, <2>3, EmitOther DEF TypeOK
  <2>6. QED
    BY <1>2, <1>11, <2>3, <2>4, <2>5 DEF OnPeerChange
<1>12. CASE OnLeaderChange
  <2> DEFINE o == Head(evq)
             e == [type |-> "leader", node |-> o.leader, status |-> "leader",
                   term |-> o.term]
  <2>1. evq # <<>> /\ IsLeaderObs(o)
    BY <1>12 DEF OnLeaderChange, Ready, IsLeaderObs
  <2>2. /\ LeadersElected(Tail(evq), hist) /\ LeadersOrdered(Tail(evq))
        /\ EmittedBefore(events, Tail(evq))
    BY <2>1, Pop DEF TypeOK
  <2>3. EventsFollow(Append(events, e), hist)
        /\ EmittedBefore(Append(events, e), Tail(evq))
    BY <1>2, <2>1, EmitLeader DEF TypeOK
  <2>4. events' \in {events, Append(events, e)}
    BY <1>12 DEF OnLeaderChange
  <2>5. QED
    BY <1>2, <1>12, <2>2, <2>3, <2>4 DEF OnLeaderChange
<1>13. QED
  <2>1. CASE \E n \in Node, k \in Key : Register(n, k)
    BY <1>2, <2>1 DEF Register
  <2>2. CASE \E p \in Node : RemoteDelete(p)
    BY <1>2, <2>2 DEF RemoteDelete
  <2>3. CASE OnPurgeDelete
    BY <1>2, <2>3 DEF OnPurgeDelete
  <2>4. CASE OnResumedHeartbeat
    BY <1>9, <2>4 DEF OnResumedHeartbeat, Ready
  <2>5. CASE UNCHANGED vars
    BY <1>2, <2>5 DEF vars
  <2>6. QED
    BY <1>4, <1>6, <1>7, <1>8, <1>10, <1>11, <1>12, <2>1, <2>2, <2>3, <2>4,
       <2>5 DEF Next

\* Spec 4.2 and scenario 6 for every instance: the LEADER_CHANGE events
\* the observer emits name, in order, the leaders raft elected, each the
\* leader of the term it reports, however long leader observations wait in
\* the channel behind heartbeats and peer changes.
THEOREM LeaderEventsSafe == Spec => []LeaderEventsFollowElections
<1>1. LeaderInv => LeaderEventsFollowElections
  BY DEF LeaderInv
<1>2. QED
  BY InitLeaderInv, NextLeaderInv, <1>1, PTL DEF Spec

=============================================================================
