----------------------------- MODULE MeshStore -----------------------------
(***************************************************************************)
(* The mesh control plane of webmesh: the Join admission RPC              *)
(* (pkg/services/node/server_join.go) and the raft observer of the mesh    *)
(* store (newObserver, src/unnamed/part_001) acting on the replicated      *)
(* state they share: the raft configuration, the peer registry and the    *)
(* IPAM leases.                                                            *)
(*                                                                         *)
(* Raft itself, the peers registry and the IPAM allocator are not under   *)
(* src/; they are modelled from the spec by the contract the two handlers *)
(* rely on: a write is accepted only on the current leader and is then    *)
(* linearizable, so the replicated state is one copy.                     *)
(*                                                                         *)
(* Each Join RPC runs on its own gRPC goroutine (a Handler slot); its     *)
(* storage and raft calls are separate steps, so joins interleave with    *)
(* each other and with the observer.  Observations reach a replica's      *)
(* observer through a bounded FIFO channel and are handled one at a time. *)
(***************************************************************************)
EXTENDS Integers, Sequences, FiniteSets

CONSTANTS
    Server,          \* node ids of the mesh (every node is a raft server)
    Bootstrap,       \* the node that bootstrapped the cluster
    InitMembers,     \* nodes that had already joined when the run starts
    Key,             \* WireGuard public keys a joiner may present
    Endpoint,        \* primary endpoints a joiner may present
    IPv6Addr,        \* host addresses util.Random64 can draw in the ULA prefix
    IPv4Addr,        \* host addresses of the mesh IPv4 prefix
    StaticLease,     \* configured static IPv4 assignments: id -> addr
    Handler,         \* concurrent Join RPC goroutines
    Threshold,       \* Mesh.HeartbeatPurgeThreshold (<= 0 disables purging)
    MaxFailures,     \* bound: a failed-heartbeat counter saturates here
    QueueBound,      \* bound: capacity of a replica's observation channel
    NoServer, NoEndpoint, NoLease, Absent   \* sentinels (model values)

ASSUME ServerAssumption ==
    /\ Bootstrap \in Server
    /\ Bootstrap \in InitMembers
    /\ InitMembers \subseteq Server
    /\ NoServer \notin Server

ASSUME LeaseAssumption ==
    /\ NoLease \notin IPv4Addr
    /\ IsFiniteSet(DOMAIN StaticLease)
    /\ \A i \in DOMAIN StaticLease : StaticLease[i] \in IPv4Addr
    /\ \A i, k \in DOMAIN StaticLease : i # k => StaticLease[i] # StaticLease[k]

ASSUME BoundAssumption ==
    /\ Threshold \in Int
    /\ MaxFailures \in Nat /\ MaxFailures >= Threshold
    /\ QueueBound \in Nat

VARIABLES
    leader,     \* the current raft leader, or NoServer during an election
    members,    \* raft configuration: id -> "voter" | "nonvoter" | "none"
    records,    \* peers registry: id -> node record or Absent
    leases,     \* IPAM: id -> IPv4 lease or NoLease
    failed,     \* failedHeartBeats map of each replica's observer
    evq,        \* each replica's observation channel
    purging,    \* the peer whose registry delete the observer still owes
    join        \* the state of each Join goroutine

vars == <<leader, members, records, leases, failed, evq, purging, join>>

Suffrage == {"voter", "nonvoter", "none"}

\* A peers.Node record, abstracted to the fields Join writes.
NodeRecord == [key : Key, ep : Endpoint \cup {NoEndpoint}, v6 : IPv6Addr]

Observation == [type : {"failed", "resumed"}, peer : Server]

JoinPc == {"idle", "get", "write", "lease", "add"}

JoinState ==
    [pc : JoinPc, at : Server \cup {NoServer}, id : Server \cup {NoServer},
     key : Key \cup {NoServer}, ep : Endpoint \cup {NoEndpoint},
     assignIPv4 : BOOLEAN, asVoter : BOOLEAN, snap : NodeRecord \cup {Absent}]

IdleJoin ==
    [pc |-> "idle", at |-> NoServer, id |-> NoServer, key |-> NoServer,
     ep |-> NoEndpoint, assignIPv4 |-> FALSE, asVoter |-> FALSE, snap |-> Absent]

Voters == {n \in Server : members[n] = "voter"}

IsLeader(r) == leader = r

\* The configured static lease of id n (the ids need not be mesh nodes yet).
StaticFor(n) == IF n \in DOMAIN StaticLease THEN StaticLease[n] ELSE NoLease

Reserved == {StaticLease[i] : i \in DOMAIN StaticLease}

\* Addresses the IPAM allocator may hand out: neither held nor reserved.
FreeIPv4 ==
    IPv4Addr \ ({leases[n] : n \in Server} \cup Reserved)

\* The registry's "no record" sentinel is not itself a node record.
ASSUME RecordAssumption == Absent \notin NodeRecord

-----------------------------------------------------------------------------
(* Initial state: a bootstrapped cluster led by Bootstrap whose members    *)
(* have registry records; the lease map holds the static assignments.     *)

Init ==
    /\ leader = Bootstrap
    /\ members = [n \in Server |-> IF n \in InitMembers THEN "voter" ELSE "none"]
    /\ records \in [Server -> NodeRecord \cup {Absent}]
    /\ \A n \in Server : records[n] # Absent <=> n \in InitMembers
    /\ leases = [n \in Server |-> StaticFor(n)]
    /\ failed = [r \in Server |-> [p \in Server |-> 0]]
    /\ evq = [r \in Server |-> <<>>]
    /\ purging = [r \in Server |-> NoServer]
    /\ join = [h \in Handler |-> IdleJoin]

-----------------------------------------------------------------------------
(* Raft environment.                                                       *)

\* Leadership moves to a voter, or is lost during an election.
LeaderChange ==
    /\ \E l \in Voters \cup {NoServer} : leader' = l /\ l # leader
    /\ UNCHANGED <<members, records, leases, failed, evq, purging, join>>

\* The leader's replication to peer p fails or resumes; the observation is
\* queued on the leader's own observer channel.
Heartbeat(r, p, type) ==
    /\ IsLeader(r)
    /\ p # r /\ members[p] # "none"
    /\ Len(evq[r]) < QueueBound
    /\ evq' = [evq EXCEPT ![r] = Append(@, [type |-> type, peer |-> p])]
    /\ UNCHANGED <<leader, members, records, leases, failed, purging, join>>

-----------------------------------------------------------------------------
(* The observer callback of replica r (newObserver).                       *)

\* The purge condition on the incremented counter.
ReachedThreshold(c) == c >= Threshold

\* Mutant: a failed RemoveServer is logged but not returned from, so the
\* registry delete still follows.
ObserveFailedHeartbeatNoReturn(r) ==
    /\ purging[r] = NoServer
    /\ evq[r] # <<>> /\ Head(evq[r]).type = "failed"
    /\ evq' = [evq EXCEPT ![r] = Tail(@)]
    /\ LET p == Head(evq[r]).peer
           count == IF failed[r][p] < MaxFailures THEN failed[r][p] + 1
                                                   ELSE MaxFailures
       IN IF Threshold <= 0
          THEN UNCHANGED <<members, failed, purging>>
          ELSE /\ failed' = [failed EXCEPT ![r][p] = count]
               /\ IF ReachedThreshold(count) /\ IsLeader(r)
                  THEN /\ purging' = [purging EXCEPT ![r] = p]
                       /\ \/ members' = [members EXCEPT ![p] = "none"]
                          \/ UNCHANGED members
                  ELSE UNCHANGED <<members, purging>>
    /\ UNCHANGED <<leader, records, leases, join>>

\* FailedHeartbeatObservation: count, and at the threshold on the leader
\* call RemoveServer; on its success the registry delete is the next step.
ObserveFailedHeartbeat(r) ==
    /\ purging[r] = NoServer
    /\ evq[r] # <<>> /\ Head(evq[r]).type = "failed"
    /\ evq' = [evq EXCEPT ![r] = Tail(@)]
    /\ LET p == Head(evq[r]).peer
           count == IF failed[r][p] < MaxFailures THEN failed[r][p] + 1
                                                   ELSE MaxFailures
       IN IF Threshold <= 0
          THEN UNCHANGED <<members, failed, purging>>
          ELSE /\ failed' = [failed EXCEPT ![r][p] = count]
               /\ IF ReachedThreshold(count) /\ IsLeader(r)
                  THEN \/ /\ members' = [members EXCEPT ![p] = "none"]
                          /\ purging' = [purging EXCEPT ![r] = p]
                       \/ UNCHANGED <<members, purging>>  \* RemoveServer failed
                  ELSE UNCHANGED <<members, purging>>
    /\ UNCHANGED <<leader, records, leases, join>>

\* peers.Delete after a successful RemoveServer; refused unless r still
\* leads.  The counter is cleared whether or not the delete succeeded.
ObservePurgeDelete(r) ==
    /\ purging[r] # NoServer
    /\ LET p == purging[r] IN
         /\ IF IsLeader(r)
            THEN /\ records' = [records EXCEPT ![p] = Absent]
                 /\ leases' = [leases EXCEPT ![p] = StaticFor(p)]
            ELSE UNCHANGED <<records, leases>>
         /\ failed' = [failed EXCEPT ![r][p] = 0]
         /\ purging' = [purging EXCEPT ![r] = NoServer]
    /\ UNCHANGED <<leader, members, evq, join>>

\* ResumedHeartbeatObservation clears the counter when purging is enabled.
ObserveResumedHeartbeat(r) ==
    /\ purging[r] = NoServer
    /\ evq[r] # <<>> /\ Head(evq[r]).type = "resumed"
    /\ evq' = [evq EXCEPT ![r] = Tail(@)]
    /\ failed' = IF Threshold > 0
                 THEN [failed EXCEPT ![r][Head(evq[r]).peer] = 0]
                 ELSE failed
    /\ UNCHANGED <<leader, members, records, leases, purging, join>>

-----------------------------------------------------------------------------
(* The Join RPC (Server.Join), one step per storage or raft call.  Every   *)
(* write is refused once the handler's node `at` has lost leadership, and  *)
(* the RPC then returns an error.                                          *)

JoinFails(h) ==
    /\ join' = [join EXCEPT ![h] = IdleJoin]
    /\ UNCHANGED <<leader, members, records, leases, failed, evq, purging>>

\* The leader check and input validation; a request is admitted on the
\* leader only.
JoinStart(h, id, key, ep, assignIPv4, asVoter) ==
    /\ join[h].pc = "idle"
    /\ leader # NoServer
    /\ join' = [join EXCEPT ![h] =
                  [pc |-> "get", at |-> leader, id |-> id, key |-> key, ep |-> ep,
                   assignIPv4 |-> assignIPv4, asVoter |-> asVoter, snap |-> Absent]]
    /\ UNCHANGED <<leader, members, records, leases, failed, evq, purging>>

\* s.peers.Get: the record is read into the handler, or a database error
\* other than NotFound returns Internal.
JoinGetPeer(h) ==
    /\ join[h].pc = "get"
    /\ \/ JoinFails(h)
       \/ /\ join' = [join EXCEPT ![h].snap = records[join[h].id], ![h].pc = "write"]
          /\ UNCHANGED <<leader, members, records, leases, failed, evq, purging>>

\* Mutant: the existing-peer branch keeps the stored key.
UpdatedRecordKeepKey(snap, j) ==
    [snap EXCEPT !.ep = IF j.ep # NoEndpoint THEN j.ep ELSE @]

\* The record the existing-peer branch writes back: the request's key, its
\* primary endpoint only when one was given, the snapshot's IPv6 address.
UpdatedRecord(snap, j) ==
    [snap EXCEPT !.key = j.key, !.ep = IF j.ep # NoEndpoint THEN j.ep ELSE @]

\* Mutant: a refused write is not treated as an error.
JoinWritePeerIgnoringError(h) ==
    LET j == join[h] IN
    /\ j.pc = "write"
    /\ IF IsLeader(j.at)
       THEN IF j.snap # Absent
            THEN records' = [records EXCEPT ![j.id] = UpdatedRecord(j.snap, j)]
            ELSE \E a \in IPv6Addr :
                   records' = [records EXCEPT ![j.id] =
                                 [key |-> j.key, ep |-> j.ep, v6 |-> a]]
       ELSE UNCHANGED records
    /\ join' = [join EXCEPT ![h].pc = IF j.assignIPv4 THEN "lease" ELSE "add"]
    /\ UNCHANGED <<leader, members, leases, failed, evq, purging>>

\* s.peers.Update of the snapshot, or util.Random64 and s.peers.Create.
JoinWritePeer(h) ==
    LET j == join[h] IN
    /\ j.pc = "write"
    /\ \/ /\ ~IsLeader(j.at)
          /\ JoinFails(h)
       \/ /\ IsLeader(j.at)
          /\ IF j.snap # Absent
             THEN records' = [records EXCEPT ![j.id] = UpdatedRecord(j.snap, j)]
             ELSE \E a \in IPv6Addr :
                    records' = [records EXCEPT ![j.id] =
                                  [key |-> j.key, ep |-> j.ep, v6 |-> a]]
          /\ join' = [join EXCEPT ![h].pc = IF j.assignIPv4 THEN "lease" ELSE "add"]
          /\ UNCHANGED <<leader, members, leases, failed, evq, purging>>

\* s.ipam.Acquire: the held lease, else a free address, else an error.
JoinAcquire(h) ==
    LET j == join[h] IN
    /\ j.pc = "lease"
    /\ \/ /\ ~IsLeader(j.at) \/ (leases[j.id] = NoLease /\ FreeIPv4 = {})
          /\ JoinFails(h)
       \/ /\ IsLeader(j.at)
          /\ \/ leases[j.id] # NoLease /\ UNCHANGED leases
             \/ leases[j.id] = NoLease /\
                \E a \in FreeIPv4 : leases' = [leases EXCEPT ![j.id] = a]
          /\ join' = [join EXCEPT ![h].pc = "add"]
          /\ UNCHANGED <<leader, members, records, failed, evq, purging>>

\* The suffrage raft gives id after AddVoter / AddNonvoter: AddNonvoter
\* leaves an existing voter a voter.
AddedSuffrage(old, asVoter) ==
    IF asVoter \/ old = "voter" THEN "voter" ELSE "nonvoter"

\* s.peers.ListPeers (a read that can fail), then s.store.AddVoter or
\* AddNonVoter, refused off the leader.
JoinAddMember(h) ==
    LET j == join[h] IN
    /\ j.pc = "add"
    /\ \/ JoinFails(h)
       \/ /\ IsLeader(j.at)
          /\ members' = [members EXCEPT ![j.id] = AddedSuffrage(@, j.asVoter)]
          /\ join' = [join EXCEPT ![h] = IdleJoin]
          /\ UNCHANGED <<leader, records, leases, failed, evq, purging>>

-----------------------------------------------------------------------------

Next ==
    \/ LeaderChange
    \/ \E r, p \in Server, type \in {"failed", "resumed"} : Heartbeat(r, p, type)
    \/ \E r \in Server :
          \/ ObserveFailedHeartbeat(r)
          \/ ObservePurgeDelete(r)
          \/ ObserveResumedHeartbeat(r)
    \/ \E h \in Handler :
          \/ \E id \in Server, key \in Key, ep \in Endpoint \cup {NoEndpoint},
                v4, voter \in BOOLEAN :
                JoinStart(h, id, key, ep, v4, voter)
          \/ JoinGetPeer(h)
          \/ JoinWritePeer(h)
          \/ JoinAcquire(h)
          \/ JoinAddMember(h)

Spec == Init /\ [][Next]_vars

-----------------------------------------------------------------------------
(* Properties.                                                             *)

TypeOK ==
    /\ leader \in Server \cup {NoServer}
    /\ members \in [Server -> Suffrage]
    /\ records \in [Server -> NodeRecord \cup {Absent}]
    /\ leases \in [Server -> IPv4Addr \cup {NoLease}]
    /\ failed \in [Server -> [Server -> 0..MaxFailures]]
    /\ evq \in [Server -> Seq(Observation)]
    /\ \A r \in Server : Len(evq[r]) <= QueueBound
    /\ purging \in [Server -> Server \cup {NoServer}]
    /\ join \in [Handler -> JoinState]

\* A busy Join goroutine carries an admitted request (the strengthening
\* TypeOK needs to be inductive).
JoinWellFormed ==
    \A h \in Handler : join[h].pc # "idle" =>
        /\ join[h].at \in Server /\ join[h].id \in Server /\ join[h].key \in Key

\* Every raft member has a registry record: Join writes the record before
\* it calls AddVoter, and only the purge deletes records.
MembersRegistered ==
    \A n \in Server : members[n] # "none" => records[n] # Absent

\* A node's overlay IPv6 address never changes while its record exists
\* (spec 3: assigned at first join, fixed for the lifetime of the id), even
\* when its Join is retried.
V6Stable ==
    [][\A n \in Server :
         records[n] # Absent /\ records'[n] # Absent =>
            records'[n].v6 = records[n].v6]_vars

\* A step of the handler out of AddVoter/AddNonVoter that made the raft
\* change, i.e. the success return.
JoinReturnsOK(h) ==
    /\ join[h].pc = "add" /\ IsLeader(join[h].at) /\ join'[h].pc = "idle"
    /\ members'[join[h].id] = AddedSuffrage(members[join[h].id], join[h].asVoter)

\* Spec 8, invariant 5: when Join returns success, the leader's record of
\* the id carries the request's key and, if one was given, its endpoint.

JoinReflectsRequest ==
    [][\A h \in Handler :
         JoinReturnsOK(h) =>
            LET j == join[h] IN
            /\ records[j.id] # Absent
            /\ records[j.id].key = j.key
            /\ j.ep # NoEndpoint => records[j.id].ep = j.ep]_vars

\* Spec 8, invariant 1: no two registry records share an overlay IPv6.
V6Unique ==
    \A a, b \in Server :
        a # b /\ records[a] # Absent /\ records[b] # Absent =>
            records[a].v6 # records[b].v6

\* The heartbeat purge leaves no registry record behind: a node that is no
\* raft member has a record only while a Join or the purge of it is in
\* flight.
NoOrphanRecords ==
    \A n \in Server :
        records[n] # Absent /\ members[n] = "none" =>
            \/ \E h \in Handler : join[h].id = n
            \/ \E r \in Server : purging[r] = n

=============================================================================
