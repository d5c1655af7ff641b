------------------------- MODULE MeshStoreJoinProofs -------------------------
(***************************************************************************)
(* Proofs about the raft configuration and the peer registry of MeshStore: *)
(* every raft member has a registry record, with purging disabled and any  *)
(* number of Join goroutines, and with purging enabled and no Join; and a  *)
(* successful Join, the only one in flight with purging disabled, leaves   *)
(* the requested key and endpoint in the registry.                        *)
(***************************************************************************)
EXTENDS MeshStoreProofs

USE ServerAssumption, LeaseAssumption, BoundAssumption

-----------------------------------------------------------------------------
(* The registry with purging disabled (Threshold <= 0).                    *)

\* No registry delete is owed: the observer only counts when purging is on.
NoPurgeOwed == \A r \in Server : purging[r] = NoServer

\* A Join past its registry write finds the record there.
RecordBeforeAdd ==
    \A h \in Handler : join[h].pc \in {"lease", "add"} => records[join[h].id] # Absent

\* A Join's successful registry write (s.peers.Update of the snapshot, or
\* util.Random64 and s.peers.Create) stores a node record carrying the
\* request's key and given endpoint, keeps the snapshot's IPv6 address,
\* touches no other record and moves only this goroutine past the write.
LEMMA WrittenRecord ==
    ASSUME TypeInv, NEW h \in Handler, JoinWritePeer(h), IsLeader(join[h].at)
    PROVE  LET j == join[h] IN
           /\ records' = [records EXCEPT ![j.id] = records'[j.id]]
           /\ records'[j.id] \in NodeRecord
           /\ records'[j.id].key = j.key
           /\ j.ep # NoEndpoint => records'[j.id].ep = j.ep
           /\ j.snap # Absent => records'[j.id].v6 = j.snap.v6
           /\ join' = [join EXCEPT ![h].pc = join'[h].pc]
           /\ join'[h].pc \in {"lease", "add"}
           /\ UNCHANGED <<leader, members, leases, failed, evq, purging>>
<1> DEFINE j == join[h]
<1>1. j \in JoinState /\ j.pc = "write" /\ j.id \in Server /\ j.key \in Key
  BY DEF JoinWritePeer, TypeInv, TypeOK, JoinWellFormed, j
<1>2. records \in [Server -> NodeRecord \cup {Absent}]
  BY DEF TypeInv, TypeOK
<1>3. /\ join' = [join EXCEPT ![h].pc = IF j.assignIPv4 THEN "lease" ELSE "add"]
      /\ UNCHANGED <<leader, members, leases, failed, evq, purging>>
  BY DEF JoinWritePeer, JoinFails, j
<1>7. /\ join' = [join EXCEPT ![h].pc = join'[h].pc]
      /\ join'[h].pc \in {"lease", "add"}
  <2>1. join \in [Handler -> JoinState]
    BY DEF TypeInv, TypeOK
  <2>2. QED
    BY <1>3, <2>1 DEF j
<1>4. CASE j.snap # Absent
  <2>1. j.snap \in NodeRecord
    BY <1>1, <1>4 DEF JoinState
  <2>2. records' = [records EXCEPT ![j.id] = UpdatedRecord(j.snap, j)]
    BY <1>4 DEF JoinWritePeer, JoinFails, j
  <2>3. UpdatedRecord(j.snap, j) \in NodeRecord
        /\ UpdatedRecord(j.snap, j).key = j.key
        /\ (j.ep # NoEndpoint => UpdatedRecord(j.snap, j).ep = j.ep)
        /\ UpdatedRecord(j.snap, j).v6 = j.snap.v6
    BY <1>1, <2>1 DEF UpdatedRecord, NodeRecord, JoinState
  <2>4. QED
    BY <1>1, <1>2, <1>3, <1>7, <2>2, <2>3 DEF j
<1>5. CASE j.snap = Absent
  <2>1. PICK a \in IPv6Addr :
          records' = [records EXCEPT ![j.id] = [key |-> j.key, ep |-> j.ep, v6 |-> a]]
    BY <1>5 DEF JoinWritePeer, JoinFails, j
  <2>2. [key |-> j.key, ep |-> j.ep, v6 |-> a] \in NodeRecord
    BY <1>1 DEF NodeRecord, JoinState
  <2>3. QED
    BY <1>1, <1>2, <1>3, <1>7, <1>5, <2>1, <2>2 DEF j
<1>6. QED
  BY <1>4, <1>5

\* The inductive invariant behind MembersRegistered.
RegInv == TypeInv /\ NoPurgeOwed /\ RecordBeforeAdd /\ MembersRegistered

LEMMA InitRegInv == Init => RegInv
<1> SUFFICES ASSUME Init PROVE RegInv
  OBVIOUS
<1>1. TypeInv
  BY InitTypeInv
<1>2. NoPurgeOwed /\ RecordBeforeAdd
  BY DEF Init, IdleJoin, NoPurgeOwed, RecordBeforeAdd
<1>3. MembersRegistered
  BY DEF Init, MembersRegistered
<1>4. QED
  BY <1>1, <1>2, <1>3 DEF RegInv

\* A step that moves Join goroutine h only by the given pc (or back to idle)
\* and leaves the registry and configuration alone keeps RegInv.
LEMMA JoinPcStep ==
    ASSUME RegInv, TypeInv', NEW h \in Handler,
           \A g \in Handler : g # h => join'[g] = join[g],
           join'[h].pc \in {"idle", "get", "write"}
             \/ (join'[h].pc = "add" /\ join[h].pc = "lease" /\ join'[h].id = join[h].id),
           UNCHANGED <<members, records, purging>>
    PROVE  RegInv'
<1>1. RecordBeforeAdd'
  BY DEF RegInv, RecordBeforeAdd
<1>2. QED
  BY <1>1 DEF RegInv, NoPurgeOwed, MembersRegistered

LEMMA NextRegInv ==
    ASSUME Threshold <= 0
    PROVE  RegInv /\ [Next]_vars => RegInv'
<1> SUFFICES ASSUME RegInv, [Next]_vars PROVE RegInv'
  OBVIOUS
<1> USE RecordAssumption
<1>1. TypeInv'
  BY NextTypeInv DEF RegInv
<1>2. join \in [Handler -> JoinState] /\ records \in [Server -> NodeRecord \cup {Absent}]
  BY DEF RegInv, TypeInv, TypeOK
<1>3. CASE \E r \in Server : ObserveFailedHeartbeat(r)
  BY <1>1, <1>3 DEF ObserveFailedHeartbeat, RegInv, NoPurgeOwed, RecordBeforeAdd,
                    MembersRegistered
<1>4. CASE \E r \in Server : ObservePurgeDelete(r)
  BY <1>4 DEF ObservePurgeDelete, RegInv, NoPurgeOwed
<1>5. CASE \/ LeaderChange
          \/ \E r, p \in Server, type \in {"failed", "resumed"} : Heartbeat(r, p, type)
          \/ \E s \in Server : ObserveResumedHeartbeat(s)
          \/ UNCHANGED vars
  BY <1>1, <1>5 DEF LeaderChange, Heartbeat, ObserveResumedHeartbeat, vars,
                    RegInv, NoPurgeOwed, RecordBeforeAdd, MembersRegistered
<1>6. ASSUME NEW h \in Handler, JoinFails(h) PROVE RegInv'
  <2>1. \A g \in Handler : g # h => join'[g] = join[g]
    BY <1>2, <1>6 DEF JoinFails
  <2>2. join'[h].pc = "idle" /\ UNCHANGED <<members, records, purging>>
    BY <1>2, <1>6 DEF JoinFails, IdleJoin
  <2>3. QED
    BY <1>1, <2>1, <2>2, JoinPcStep
<1>7. CASE \E h \in Handler :
             \E id \in Server, key \in Key, ep \in Endpoint \cup {NoEndpoint},
                v4, voter \in BOOLEAN : JoinStart(h, id, key, ep, v4, voter)
  <2>1. PICK h \in Handler, id \in Server, key \in Key, ep \in Endpoint \cup {NoEndpoint},
             v4, voter \in BOOLEAN : JoinStart(h, id, key, ep, v4, voter)
    BY <1>7
  <2>2. \A g \in Handler : g # h => join'[g] = join[g]
    BY <1>2, <2>1 DEF JoinStart
  <2>3. join'[h].pc = "get" /\ UNCHANGED <<members, records, purging>>
    BY <1>2, <2>1 DEF JoinStart
  <2>4. QED
    BY <1>1, <2>2, <2>3, JoinPcStep
<1>8. CASE \E h \in Handler : JoinGetPeer(h)
  <2>1. PICK h \in Handler : JoinGetPeer(h)
    BY <1>8
  <2>5. CASE JoinFails(h)
    BY <2>5, <1>6
  <2>6. CASE join' = [join EXCEPT ![h].snap = records[join[h].id], ![h].pc = "write"]
             /\ UNCHANGED <<leader, members, records, leases, failed, evq, purging>>
    <3>2. \A g \in Handler : g # h => join'[g] = join[g]
      BY <1>2, <2>6
    <3>3. join'[h].pc = "write" /\ UNCHANGED <<members, records, purging>>
      BY <1>2, <2>6 DEF JoinState
    <3>4. QED
      BY <1>1, <3>2, <3>3, JoinPcStep
  <2>7. QED
    BY <2>1, <2>5, <2>6 DEF JoinGetPeer
<1>9. CASE \E h \in Handler : JoinAcquire(h)
  <2>1. PICK h \in Handler : JoinAcquire(h)
    BY <1>9
  <2>2. CASE ~IsLeader(join[h].at) \/ (leases[join[h].id] = NoLease /\ FreeIPv4 = {})
    BY <2>1, <2>2, <1>6 DEF JoinAcquire
  <2>3. CASE IsLeader(join[h].at) /\ join' = [join EXCEPT ![h].pc = "add"]
             /\ UNCHANGED <<leader, members, records, failed, evq, purging>>
    <3>1. \A g \in Handler : g # h => join'[g] = join[g]
      BY <1>2, <2>3
    <3>2. join'[h].pc = "add" /\ join[h].pc = "lease" /\ join'[h].id = join[h].id
      BY <1>2, <2>1, <2>3 DEF JoinAcquire
    <3>3. QED
      BY <1>1, <2>3, <3>1, <3>2, JoinPcStep
  <2>4. QED
    BY <2>1, <2>2, <2>3 DEF JoinAcquire
<1>10. CASE \E h \in Handler : JoinWritePeer(h)
  <2>1. PICK h \in Handler : JoinWritePeer(h)
    BY <1>10
  <2>2. CASE ~IsLeader(join[h].at)
    BY <2>1, <2>2, <1>6 DEF JoinWritePeer
  <2>3. CASE IsLeader(join[h].at)
    <3> DEFINE j == join[h]
    <3>1. /\ records' = [records EXCEPT ![j.id] = records'[j.id]]
          /\ records'[j.id] \in NodeRecord
          /\ join' = [join EXCEPT ![h].pc = join'[h].pc]
          /\ join'[h].pc \in {"lease", "add"}
          /\ UNCHANGED <<members, purging>>
      BY <2>1, <2>3, WrittenRecord DEF RegInv
    <3>2. \A n \in Server : records'[n] # Absent
             \/ (records'[n] = records[n] /\ n # j.id)
      BY <1>2, <3>1
    <3>3. RecordBeforeAdd'
      <4>1. join'[h].pc \in {"lease", "add"} /\ records'[join'[h].id] # Absent
        <5>1. join'[h].id = j.id
          BY <1>2, <3>1 DEF j, JoinState
        <5>2. records'[j.id] # Absent
          BY <3>1, RecordAssumption
        <5>3. QED
          BY <3>1, <5>1, <5>2
      <4>2. ASSUME NEW g \in Handler \ {h}, join'[g].pc \in {"lease", "add"}
            PROVE  records'[join'[g].id] # Absent
        <5>1. join'[g] = join[g] /\ join[g].id \in Server
          BY <1>2, <3>1, <4>2 DEF RegInv, TypeInv, JoinWellFormed
        <5>2. records[join[g].id] # Absent
          BY <4>2, <5>1 DEF RegInv, RecordBeforeAdd
        <5>3. QED
          BY <3>2, <5>1, <5>2
      <4>3. QED
        BY <4>1, <4>2 DEF RecordBeforeAdd
    <3>4. MembersRegistered'
      BY <3>1, <3>2 DEF RegInv, MembersRegistered
    <3>5. QED
      BY <1>1, <3>1, <3>3, <3>4 DEF RegInv, NoPurgeOwed
  <2>4. QED
    BY <2>2, <2>3
<1>11. CASE \E h \in Handler : JoinAddMember(h)
  <2>1. PICK h \in Handler : JoinAddMember(h)
    BY <1>11
  <2>2. CASE JoinFails(h)
    BY <2>2, <1>6
  <2>3. CASE /\ members' = [members EXCEPT ![join[h].id] = AddedSuffrage(@, join[h].asVoter)]
             /\ join' = [join EXCEPT ![h] = IdleJoin]
             /\ UNCHANGED <<leader, records, leases, failed, evq, purging>>
    <3>1. /\ members' = [members EXCEPT ![join[h].id] = AddedSuffrage(@, join[h].asVoter)]
          /\ join' = [join EXCEPT ![h] = IdleJoin]
          /\ UNCHANGED <<records, purging>>
          /\ join[h].pc = "add"
      BY <2>1, <2>3 DEF JoinAddMember
    <3>2. records[join[h].id] # Absent
      BY <3>1 DEF RegInv, RecordBeforeAdd
    <3>3. MembersRegistered'
      BY <3>1, <3>2 DEF RegInv, MembersRegistered
    <3>4. RecordBeforeAdd'
      BY <1>2, <3>1 DEF RegInv, RecordBeforeAdd, IdleJoin
    <3>5. QED
      BY <1>1, <3>1, <3>3, <3>4 DEF RegInv, NoPurgeOwed
  <2>4. QED
    BY <2>1, <2>2, <2>3 DEF JoinAddMember
<1>12. QED
  BY <1>3, <1>4, <1>5, <1>7, <1>8, <1>9, <1>10, <1>11 DEF Next

\* With heartbeat purging disabled (HeartbeatPurgeThreshold <= 0), for any
\* number of concurrent Join goroutines: every raft member has a registry
\* record, because Join writes the record before AddVoter or AddNonvoter
\* and nothing else deletes one.
THEOREM MembersAlwaysRegistered ==
    ASSUME Threshold <= 0
    PROVE  Spec => []MembersRegistered
<1>1. RegInv /\ [Next]_vars => RegInv'
  BY NextRegInv
<1>2. QED
  BY InitRegInv, <1>1, PTL DEF Spec, RegInv

-----------------------------------------------------------------------------
(* The heartbeat purge with no Join in flight (Handler = {}).              *)

\* A registry delete is owed only for a node already out of the raft
\* configuration: the observer reaches peers.Delete only after
\* RemoveServer succeeded, and returns on its error.
PurgeOfNonMember ==
    \A r \in Server : purging[r] # NoServer => members[purging[r]] = "none"

\* The inductive invariant behind MembersRegistered under purging.
PurgeInv == TypeInv /\ PurgeOfNonMember /\ MembersRegistered

LEMMA InitPurgeInv == Init => PurgeInv
<1> SUFFICES ASSUME Init PROVE PurgeInv
  OBVIOUS
<1>1. TypeInv
  BY InitTypeInv
<1>2. PurgeOfNonMember /\ MembersRegistered
  BY DEF Init, PurgeOfNonMember, MembersRegistered
<1>3. QED
  BY <1>1, <1>2 DEF PurgeInv

LEMMA NextPurgeInv ==
    ASSUME Handler = {}
    PROVE  PurgeInv /\ [Next]_vars => PurgeInv'
<1> SUFFICES ASSUME PurgeInv, [Next]_vars PROVE PurgeInv'
  OBVIOUS
<1>1. TypeInv'
  BY NextTypeInv DEF PurgeInv
<1>2. members \in [Server -> Suffrage] /\ purging \in [Server -> Server \cup {NoServer}]
  BY DEF PurgeInv, TypeInv, TypeOK
<1>3. ASSUME NEW r \in Server, ObserveFailedHeartbeat(r) PROVE PurgeInv'
  <2> DEFINE p == Head(evq[r]).peer
  <2>1. p \in Server
    <3>1. /\ evq[r] \in Seq(Observation) /\ evq[r] # <<>>
          /\ Len(evq[r]) <= QueueBound
      BY <1>3 DEF ObserveFailedHeartbeat, PurgeInv, TypeInv, TypeOK
    <3>2. Head(evq[r]) \in Observation
      BY <3>1, QueuePop
    <3>3. QED
      BY <3>2 DEF Observation
  <2>2. purging[r] = NoServer /\ UNCHANGED records
    BY <1>3 DEF ObserveFailedHeartbeat
  <2>3. CASE members' = [members EXCEPT ![p] = "none"]
             /\ purging' = [purging EXCEPT ![r] = p]
    <3>1. PurgeOfNonMember'
      BY <1>2, <2>1, <2>3 DEF PurgeInv, PurgeOfNonMember
    <3>2. MembersRegistered'
      BY <1>2, <2>2, <2>3 DEF PurgeInv, MembersRegistered
    <3>3. QED
      BY <1>1, <3>1, <3>2 DEF PurgeInv
  <2>4. CASE UNCHANGED <<members, purging>>
    BY <1>1, <2>2, <2>4 DEF PurgeInv, PurgeOfNonMember, MembersRegistered
  <2>5. QED
    BY <1>3, <2>3, <2>4 DEF ObserveFailedHeartbeat
<1>4. ASSUME NEW r \in Server, ObservePurgeDelete(r) PROVE PurgeInv'
  <2> DEFINE p == purging[r]
  <2>1. p # NoServer /\ members[p] = "none"
    BY <1>4 DEF ObservePurgeDelete, PurgeInv, PurgeOfNonMember
  <2>2. /\ UNCHANGED members
        /\ purging' = [purging EXCEPT ![r] = NoServer]
        /\ \A n \in Server : n # p => records'[n] = records[n]
    <3>1. records \in [Server -> NodeRecord \cup {Absent}]
      BY DEF PurgeInv, TypeInv, TypeOK
    <3>2. QED
      BY <1>4, <3>1 DEF ObservePurgeDelete
  <2>3. PurgeOfNonMember'
    <3>1. \A s \in Server : purging'[s] # NoServer => purging'[s] = purging[s]
      BY <1>2, <2>2
    <3>2. QED
      BY <2>2, <3>1 DEF PurgeInv, PurgeOfNonMember
  <2>4. MembersRegistered'
    BY <2>1, <2>2 DEF PurgeInv, MembersRegistered
  <2>5. QED
    BY <1>1, <2>3, <2>4 DEF PurgeInv
<1>5. CASE \/ LeaderChange
          \/ \E r, q \in Server, type \in {"failed", "resumed"} : Heartbeat(r, q, type)
          \/ \E s \in Server : ObserveResumedHeartbeat(s)
          \/ UNCHANGED vars
  BY <1>1, <1>5 DEF LeaderChange, Heartbeat, ObserveResumedHeartbeat, vars,
                    PurgeInv, PurgeOfNonMember, MembersRegistered
<1>6. QED
  BY <1>3, <1>4, <1>5 DEF Next

\* With no Join in flight and purging enabled or not, for every threshold:
\* every raft member keeps its registry record, because the observer
\* deletes a record only after RemoveServer took the node out of the
\* configuration and returns without deleting when RemoveServer fails.
THEOREM MembersRegisteredWithoutJoins ==
    ASSUME Handler = {}
    PROVE  Spec => []MembersRegistered
<1>1. PurgeInv /\ [Next]_vars => PurgeInv'
  BY NextPurgeInv
<1>2. QED
  BY InitPurgeInv, <1>1, PTL DEF Spec, PurgeInv

-----------------------------------------------------------------------------
(* A single Join goroutine (Handler = {h0}).                               *)

\* A Join past its registry write finds there the key and endpoint it wrote.
RecordMatchesRequest ==
    \A h \in Handler :
        join[h].pc \in {"lease", "add"} =>
            LET j == join[h] IN
            /\ records[j.id] \in NodeRecord
            /\ records[j.id].key = j.key
            /\ j.ep # NoEndpoint => records[j.id].ep = j.ep

ReflectInv == TypeInv /\ NoPurgeOwed /\ RecordMatchesRequest

LEMMA InitReflectInv == Init => ReflectInv
BY InitTypeInv DEF Init, IdleJoin, ReflectInv, NoPurgeOwed, RecordMatchesRequest

LEMMA NextReflectInv ==
    ASSUME NEW h0, Handler = {h0}, Threshold <= 0
    PROVE  ReflectInv /\ [Next]_vars => ReflectInv'
<1> SUFFICES ASSUME ReflectInv, [Next]_vars PROVE ReflectInv'
  OBVIOUS
<1> DEFINE j == join[h0]
<1>1. TypeInv'
  BY NextTypeInv DEF ReflectInv
<1>2. join \in [Handler -> JoinState]
  BY DEF ReflectInv, TypeInv, TypeOK
<1>3. NoPurgeOwed'
  <2>1. CASE \E r \in Server : ObserveFailedHeartbeat(r)
    BY <2>1 DEF ObserveFailedHeartbeat, ReflectInv, NoPurgeOwed
  <2>2. CASE \E r \in Server : ObservePurgeDelete(r)
    BY <2>2 DEF ObservePurgeDelete, ReflectInv, NoPurgeOwed
  <2>3. CASE UNCHANGED purging
    BY <2>3 DEF ReflectInv, NoPurgeOwed
  <2>4. QED
    BY <2>1, <2>2, <2>3 DEF Next, vars, LeaderChange, Heartbeat,
       ObserveResumedHeartbeat, JoinStart, JoinGetPeer, JoinWritePeer,
       JoinAcquire, JoinAddMember, JoinFails
<1>4. SUFFICES ASSUME join'[h0].pc \in {"lease", "add"}
               PROVE  /\ records'[join'[h0].id] \in NodeRecord
                      /\ records'[join'[h0].id].key = join'[h0].key
                      /\ join'[h0].ep # NoEndpoint =>
                            records'[join'[h0].id].ep = join'[h0].ep
  BY <1>1, <1>3 DEF ReflectInv, RecordMatchesRequest
<1>5. CASE UNCHANGED <<records, join>>
  BY <1>4, <1>5 DEF ReflectInv, RecordMatchesRequest
<1>6. CASE JoinWritePeer(h0) /\ IsLeader(join[h0].at)
  <2>1. /\ records'[j.id] \in NodeRecord
        /\ records'[j.id].key = j.key
        /\ j.ep # NoEndpoint => records'[j.id].ep = j.ep
        /\ join' = [join EXCEPT ![h0].pc = join'[h0].pc]
    BY <1>6, WrittenRecord DEF ReflectInv
  <2>2. join'[h0].id = j.id /\ join'[h0].key = j.key /\ join'[h0].ep = j.ep
    BY <1>2, <2>1 DEF JoinState
  <2>3. QED
    BY <2>1, <2>2
<1>7. CASE JoinAcquire(h0) /\ IsLeader(join[h0].at)
                          /\ join' = [join EXCEPT ![h0].pc = "add"]
                          /\ UNCHANGED records
  <2>1. j.pc = "lease"
    BY <1>7 DEF JoinAcquire
  <2>2. join'[h0].id = j.id /\ join'[h0].key = j.key /\ join'[h0].ep = j.ep
    BY <1>2, <1>7 DEF JoinState
  <2>3. QED
    BY <1>7, <2>1, <2>2 DEF ReflectInv, RecordMatchesRequest
<1>8. ASSUME NEW h \in Handler,
             \/ JoinFails(h)
             \/ \E id \in Server, key \in Key, ep \in Endpoint \cup {NoEndpoint},
                   v4, voter \in BOOLEAN : JoinStart(h, id, key, ep, v4, voter)
             \/ JoinGetPeer(h)
             \/ JoinAddMember(h) /\ IsLeader(join[h].at)
      PROVE  join'[h0].pc \notin {"lease", "add"}
  BY <1>2, <1>8 DEF JoinFails, JoinStart, JoinGetPeer, JoinAddMember, IdleJoin,
                    JoinState
<1>9. CASE \E r \in Server : ObservePurgeDelete(r)
  BY <1>9 DEF ObservePurgeDelete, ReflectInv, NoPurgeOwed
<1>10. QED
  <2>1. CASE \E h \in Handler : JoinWritePeer(h)
    BY <2>1, <1>4, <1>6, <1>8 DEF JoinWritePeer
  <2>2. CASE \E h \in Handler : JoinAcquire(h)
    BY <2>2, <1>4, <1>7, <1>8 DEF JoinAcquire
  <2>3. CASE \E h \in Handler : JoinAddMember(h)
    BY <2>3, <1>4, <1>8 DEF JoinAddMember
  <2>4. CASE \E h \in Handler :
               \/ \E id \in Server, key \in Key, ep \in Endpoint \cup {NoEndpoint},
                     v4, voter \in BOOLEAN : JoinStart(h, id, key, ep, v4, voter)
               \/ JoinGetPeer(h)
    BY <2>4, <1>4, <1>8
  <2>5. CASE \/ LeaderChange
             \/ \E r, p \in Server, type \in {"failed", "resumed"} : Heartbeat(r, p, type)
             \/ \E s \in Server : ObserveFailedHeartbeat(s) \/ ObserveResumedHeartbeat(s)
             \/ UNCHANGED vars
    BY <2>5, <1>5 DEF LeaderChange, Heartbeat, ObserveFailedHeartbeat,
                      ObserveResumedHeartbeat, vars
  <2>6. QED
    BY <1>9, <2>1, <2>2, <2>3, <2>4, <2>5 DEF Next

\* With one Join goroutine and purging disabled: when Join returns success
\* (AddVoter or AddNonvoter accepted on the leader) the registry record of
\* the id carries the request's key and, if one was given, its primary
\* endpoint (spec 8, invariant 5).  A second Join of the same id, or the
\* purge's delete, can overwrite the record between the write and the
\* return; TLC's retry and purge-race runs cover those cases.
THEOREM JoinReflectsRequestSingleJoin ==
    ASSUME NEW h0, Handler = {h0}, Threshold <= 0
    PROVE  Spec => JoinReflectsRequest
<1>1. ReflectInv /\ [Next]_vars => ReflectInv'
  BY NextReflectInv
<1>2. ReflectInv => \A h \in Handler :
          JoinReturnsOK(h) =>
             LET j == join[h] IN
             /\ records[j.id] # Absent
             /\ records[j.id].key = j.key
             /\ j.ep # NoEndpoint => records[j.id].ep = j.ep
  BY RecordAssumption DEF ReflectInv, RecordMatchesRequest, JoinReturnsOK
<1>3. QED
  BY InitReflectInv, <1>1, <1>2, PTL DEF Spec, JoinReflectsRequest

=============================================================================
