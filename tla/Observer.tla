------------------------------ MODULE Observer ------------------------------
(***************************************************************************)
(* The raft observer callback of one replica, Self (meshStore.newObserver, *)
(* src/unnamed/part_001), with every case of its type switch: failed and   *)
(* resumed heartbeats with the purge, peer changes (WireGuard refresh and  *)
(* NODE_JOIN/NODE_LEAVE events) and leader changes (LEADER_CHANGE).        *)
(*                                                                         *)
(* Raft, the registry, the WireGuard reconciler and the other replicas are *)
(* not under src/ and are modelled from the spec (sections 4.2 and 4.3):   *)
(* every membership change and leadership change is queued, in log order, *)
(* on Self's observation channel; heartbeat observations reach only the    *)
(* leader's observer.  The callback handles one observation at a time.     *)
(***************************************************************************)
EXTENDS Integers, Sequences

CONSTANTS
    Node,         \* raft server ids; Self is the replica whose observer runs
    Self,
    InitMembers,  \* voters with a registry record when the run starts
    Key,          \* WireGuard keys a record may carry
    Threshold,    \* Mesh.HeartbeatPurgeThreshold
    HasWatchers,  \* s.plugins.HasWatchers()
    TestStore,    \* s.testStore
    MaxFailures,  \* bound: the failed-heartbeat counter saturates here
    MaxObs,       \* bound: observations the environment produces
    NoNode, Absent

ASSUME ObserverAssumption ==
    /\ Self \in InitMembers /\ InitMembers \subseteq Node
    /\ NoNode \notin Node /\ Absent \notin Key /\ Key # {}
    /\ Threshold \in Int /\ MaxFailures \in Nat /\ MaxFailures >= Threshold
    /\ MaxObs \in Nat
    /\ HasWatchers \in BOOLEAN /\ TestStore \in BOOLEAN

VARIABLES
    leader,   \* the raft leader, or NoNode during an election
    members,  \* raft configuration: id -> "voter" | "nonvoter" | "none"
    records,  \* the registry: id -> WireGuard key, or Absent
    evq,      \* Self's observation channel
    obs,      \* observations produced by the environment so far
    failed,   \* Self's failedHeartBeats map
    purging,  \* the peer whose peers.Delete Self still owes, or NoNode
    wg,       \* Self's WireGuard peer table after the last RefreshPeers
    events,   \* the events passed to plugins.Emit, in order
    hist      \* ghost: the leaders in the order raft elected them

vars == <<leader, members, records, evq, obs, failed, purging, wg, events,
          hist>>

Observation ==
    [type : {"failed", "resumed"}, peer : Node, term : Nat]
    \cup [type : {"peer"}, peer : Node, suffrage : {"voter", "nonvoter"},
          removed : BOOLEAN]
    \cup [type : {"leader"}, leader : Node \cup {NoNode}, term : Nat]

Event == [type : {"join", "leave", "leader"}, node : Node,
          status : {"voter", "nonvoter", "unknown", "leader"}, term : Nat]

\* What RefreshPeers drives the tunnel table to: the registry's other nodes.
RegistryView == [n \in Node |-> IF n = Self THEN Absent ELSE records[n]]

Init ==
    /\ leader = Self
    /\ members = [n \in Node |-> IF n \in InitMembers THEN "voter" ELSE "none"]
    /\ \E k \in [InitMembers -> Key] :
          records = [n \in Node |-> IF n \in InitMembers THEN k[n] ELSE Absent]
    /\ evq = <<>> /\ obs = 0
    /\ failed = [n \in Node |-> 0] /\ purging = NoNode
    /\ wg = [n \in Node |-> IF n = Self \/ n \notin InitMembers THEN Absent
                                                              ELSE records[n]]
    /\ events = <<>> /\ hist = <<Self>>

\* Raft queues an observation for Self (environment-produced ones count).
Observe(o) == /\ obs < MaxObs /\ evq' = Append(evq, o) /\ obs' = obs + 1

-----------------------------------------------------------------------------
(* The environment: raft, Join RPCs and the other replicas' purges.        *)

Elect(l) ==
    /\ l \in {n \in Node : members[n] = "voter"} \cup {NoNode} /\ l # leader
    /\ leader' = l /\ hist' = Append(hist, l)
    /\ Observe([type |-> "leader", leader |-> l, term |-> Len(hist) + 1])
    /\ UNCHANGED <<members, records, failed, purging, wg, events>>

\* A Join's peers.Create or peers.Update on the leader.
Register(n, k) ==
    /\ leader # NoNode /\ n # Self
    /\ records' = [records EXCEPT ![n] = k]
    /\ UNCHANGED <<leader, members, evq, obs, failed, purging, wg, events,
                   hist>>

\* A Join's AddVoter or AddNonvoter, after its record write.
AddMember(n, s) ==
    /\ leader # NoNode /\ n # Self /\ records[n] # Absent
    /\ members' = [members EXCEPT ![n] = s]
    /\ Observe([type |-> "peer", peer |-> n, suffrage |-> s, removed |-> FALSE])
    /\ UNCHANGED <<leader, records, failed, purging, wg, events, hist>>

\* The leader's replication to p fails or resumes.
Heartbeat(p, type) ==
    /\ leader = Self /\ p # Self /\ members[p] # "none"
    /\ Observe([type |-> type, peer |-> p, term |-> Len(hist)])
    /\ UNCHANGED <<leader, members, records, failed, purging, wg, events,
                   hist>>

\* Another leader's purge: RemoveServer, and later its peers.Delete.
RemoteRemove(p) ==
    /\ leader \notin {Self, NoNode} /\ p \notin {Self, leader}
    /\ members[p] # "none"
    /\ members' = [members EXCEPT ![p] = "none"]
    /\ Observe([type |-> "peer", peer |-> p, suffrage |-> members[p],
                removed |-> TRUE])
    /\ UNCHANGED <<leader, records, failed, purging, wg, events, hist>>

RemoteDelete(p) ==
    /\ leader \notin {Self, NoNode} /\ p # Self
    /\ members[p] = "none" /\ records[p] # Absent
    /\ records' = [records EXCEPT ![p] = Absent]
    /\ UNCHANGED <<leader, members, evq, obs, failed, purging, wg, events,
                   hist>>

-----------------------------------------------------------------------------
(* The observer callback of Self.                                          *)

Ready(type) == purging = NoNode /\ evq # <<>> /\ Head(evq).type = type

\* The purge condition on the incremented counter.
ReachedThreshold(c) == c >= Threshold

\* FailedHeartbeatObservation; RemoveServer's own peer change is queued
\* behind the observations already waiting.
OnFailedHeartbeat ==
    /\ Ready("failed")
    /\ LET o == Head(evq)
           p == o.peer
           count == IF failed[p] < MaxFailures THEN failed[p] + 1 ELSE MaxFailures
       IN IF Threshold <= 0
          THEN /\ evq' = Tail(evq)
               /\ UNCHANGED <<members, failed, purging>>
          ELSE /\ failed' = [failed EXCEPT ![p] = count]
               /\ IF ReachedThreshold(count) /\ leader = Self
                  THEN \/ /\ members[p] # "none"
                          /\ members' = [members EXCEPT ![p] = "none"]
                          /\ evq' = Append(Tail(evq),
                                [type |-> "peer", peer |-> p,
                                 suffrage |-> members[p], removed |-> TRUE])
                          /\ purging' = p
                       \/ /\ members[p] = "none"  \* already gone: no change
                          /\ evq' = Tail(evq) /\ purging' = p
                          /\ UNCHANGED members
                       \/ /\ evq' = Tail(evq)  \* RemoveServer failed
                          /\ UNCHANGED <<members, purging>>
                  ELSE /\ evq' = Tail(evq)
                       /\ UNCHANGED <<members, purging>>
    /\ UNCHANGED <<leader, records, obs, wg, events, hist>>

\* peers.Delete, refused unless Self still leads; the counter is deleted
\* either way.
OnPurgeDelete ==
    /\ purging # NoNode
    /\ records' = IF leader = Self THEN [records EXCEPT ![purging] = Absent]
                                   ELSE records
    /\ failed' = [failed EXCEPT ![purging] = 0]
    /\ purging' = NoNode
    /\ UNCHANGED <<leader, members, evq, obs, wg, events, hist>>

OnResumedHeartbeat ==
    /\ Ready("resumed")
    /\ evq' = Tail(evq)
    /\ failed' = IF Threshold > 0 THEN [failed EXCEPT ![Head(evq).peer] = 0]
                                  ELSE failed
    /\ UNCHANGED <<leader, members, records, obs, purging, wg, events, hist>>

\* PeerObservation: ignored in a test store and about Self; otherwise
\* RefreshPeers (which may fail), then, with watchers, peers.Get and Emit.
OnPeerChange ==
    /\ Ready("peer")
    /\ evq' = Tail(evq)
    /\ LET o == Head(evq) IN
       IF TestStore \/ o.peer = Self
       THEN UNCHANGED <<wg, events>>
       ELSE /\ wg' \in {RegistryView, wg}
            /\ events' =
                 IF HasWatchers /\ records[o.peer] # Absent
                 THEN Append(events,
                        [type |-> IF o.removed THEN "leave" ELSE "join",
                         node |-> o.peer,
                         status |-> IF o.removed THEN "unknown" ELSE o.suffrage,
                         term |-> 0])
                 ELSE events
    /\ UNCHANGED <<leader, members, records, obs, failed, purging, hist>>

\* Mutant: the LEADER_CHANGE event is emitted even when peers.Get fails.
OnLeaderChangeNoLookup ==
    /\ Ready("leader")
    /\ evq' = Tail(evq)
    /\ LET o == Head(evq) IN
       events' = IF HasWatchers
                 THEN Append(events, [type |-> "leader", node |-> o.leader,
                                      status |-> "leader", term |-> o.term])
                 ELSE events
    /\ UNCHANGED <<leader, members, records, obs, failed, purging, wg, hist>>

\* Mutant: the event names the current leader, not the observation's.
OnLeaderChangeCurrent ==
    /\ Ready("leader")
    /\ evq' = Tail(evq)
    /\ LET o == Head(evq) IN
       events' = IF HasWatchers /\ leader \in Node /\ records[leader] # Absent
                 THEN Append(events, [type |-> "leader", node |-> leader,
                                      status |-> "leader", term |-> o.term])
                 ELSE events
    /\ UNCHANGED <<leader, members, records, obs, failed, purging, wg, hist>>

\* LeaderObservation: with watchers, peers.Get(LeaderID) and Emit; a
\* failed lookup (no leader, or a fresh cluster) emits nothing.
OnLeaderChange ==
    /\ Ready("leader")
    /\ evq' = Tail(evq)
    /\ LET o == Head(evq) IN
       events' = IF HasWatchers /\ o.leader \in Node /\ records[o.leader] # Absent
                 THEN Append(events, [type |-> "leader", node |-> o.leader,
                                      status |-> "leader", term |-> o.term])
                 ELSE events
    /\ UNCHANGED <<leader, members, records, obs, failed, purging, wg, hist>>

-----------------------------------------------------------------------------

Next ==
    \/ \E l \in Node \cup {NoNode} : Elect(l)
    \/ \E n \in Node, k \in Key : Register(n, k)
    \/ \E n \in Node, s \in {"voter", "nonvoter"} : AddMember(n, s)
    \/ \E p \in Node, t \in {"failed", "resumed"} : Heartbeat(p, t)
    \/ \E p \in Node : RemoteRemove(p) \/ RemoteDelete(p)
    \/ OnFailedHeartbeat \/ OnPurgeDelete \/ OnResumedHeartbeat
    \/ OnPeerChange \/ OnLeaderChange

Spec == Init /\ [][Next]_vars

-----------------------------------------------------------------------------
(* Properties.                                                             *)

TypeOK ==
    /\ leader \in Node \cup {NoNode}
    /\ members \in [Node -> {"voter", "nonvoter", "none"}]
    /\ records \in [Node -> Key \cup {Absent}]
    /\ evq \in Seq(Observation) /\ obs \in 0..MaxObs
    /\ failed \in [Node -> 0..MaxFailures] /\ purging \in Node \cup {NoNode}
    /\ wg \in [Node -> Key \cup {Absent}]
    /\ events \in Seq(Event)
    /\ hist \in Seq(Node \cup {NoNode})

\* Spec 4.2 and scenario 6: the LEADER_CHANGE events Self emits name, in
\* order, leaders raft elected, each the leader of the change it reports,
\* however leadership moves while observations wait in the channel.
LeaderEventsFollowElections ==
    \A i \in DOMAIN events : events[i].type = "leader" =>
       /\ events[i].term \in DOMAIN hist
       /\ events[i].node = hist[events[i].term]
       /\ \A j \in 1..(i - 1) :
             events[j].type = "leader" => events[j].term < events[i].term

\* Spec 4.3: every peer change about another node is reported to plugin
\* watchers; in particular a node that leaves the configuration gets its
\* NODE_LEAVE event.
NodeLeaveEmitted ==
    [][\A p \in Node :
         /\ HasWatchers /\ ~TestStore /\ p # Self
         /\ evq # <<>> /\ Head(evq).type = "peer" /\ Head(evq).peer = p
         /\ Head(evq).removed /\ evq' = Tail(evq)
         => Len(events') = Len(events) + 1]_vars

=============================================================================
