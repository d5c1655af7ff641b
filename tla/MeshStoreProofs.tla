--------------------------- MODULE MeshStoreProofs ---------------------------
(***************************************************************************)
(* Proofs about MeshStore for every value of its constants: type           *)
(* correctness, through the interleaving of concurrent Joins, heartbeat    *)
(* purges and leadership changes.  The invariants built on it are in       *)
(* MeshStoreJoinProofs.                                                    *)
(***************************************************************************)
EXTENDS MeshStore, SequenceTheorems, TLAPS

\* The inductive invariant behind TypeOK.
TypeInv == TypeOK /\ JoinWellFormed

USE ServerAssumption, LeaseAssumption, BoundAssumption

-----------------------------------------------------------------------------
(* The observation channel as a bounded FIFO queue.                        *)

LEMMA QueuePush ==
    ASSUME NEW q \in Seq(Observation), NEW o \in Observation, Len(q) < QueueBound
    PROVE  Append(q, o) \in Seq(Observation) /\ Len(Append(q, o)) <= QueueBound
BY AppendProperties

LEMMA QueuePop ==
    ASSUME NEW q \in Seq(Observation), q # <<>>, Len(q) <= QueueBound
    PROVE  /\ Head(q) \in Observation
           /\ Tail(q) \in Seq(Observation) /\ Len(Tail(q)) <= QueueBound
BY HeadTailProperties

(* A per-replica counter table stays typed under a single update.         *)
LEMMA CounterUpdate ==
    ASSUME NEW S, NEW T, NEW f \in [S -> [S -> T]], NEW a \in S, NEW b \in S,
           NEW v \in T
    PROVE  [f EXCEPT ![a][b] = v] \in [S -> [S -> T]]
BY Zenon

(* Replacing one handler's state by a well-typed one keeps the table typed. *)
LEMMA JoinSlot ==
    ASSUME NEW f \in [Handler -> JoinState], NEW h \in Handler, NEW s \in JoinState
    PROVE  [f EXCEPT ![h] = s] \in [Handler -> JoinState]
BY Zenon

-----------------------------------------------------------------------------
(* Type correctness.                                                       *)

LEMMA InitTypeInv == Init => TypeInv
<1> SUFFICES ASSUME Init PROVE TypeInv
  OBVIOUS
<1>1. leader \in Server \cup {NoServer}
  BY DEF Init
<1>2. members \in [Server -> Suffrage]
  BY DEF Init, Suffrage
<1>3. records \in [Server -> NodeRecord \cup {Absent}]
  BY DEF Init
<1>4. leases \in [Server -> IPv4Addr \cup {NoLease}]
  BY DEF Init, StaticFor
<1>5. failed \in [Server -> [Server -> 0..MaxFailures]]
  BY DEF Init
<1>6. evq \in [Server -> Seq(Observation)] /\ \A r \in Server : Len(evq[r]) <= QueueBound
  BY DEF Init
<1>7. purging \in [Server -> Server \cup {NoServer}]
  BY DEF Init
<1>8. join \in [Handler -> JoinState]
  BY DEF Init, IdleJoin, JoinState, JoinPc
<1>9. JoinWellFormed
  BY DEF Init, IdleJoin, JoinWellFormed
<1>10. QED
  BY <1>1, <1>2, <1>3, <1>4, <1>5, <1>6, <1>7, <1>8, <1>9 DEF TypeInv, TypeOK

LEMMA NextTypeInv == TypeInv /\ [Next]_vars => TypeInv'
<1> SUFFICES ASSUME TypeInv, [Next]_vars PROVE TypeInv'
  OBVIOUS
<1>1. CASE LeaderChange
  BY <1>1 DEF LeaderChange, TypeInv, TypeOK, JoinWellFormed, Voters
<1>2. ASSUME NEW r \in Server, NEW p \in Server,
             NEW type \in {"failed", "resumed"}, Heartbeat(r, p, type)
      PROVE TypeInv'
  <2>0. [type |-> type, peer |-> p] \in Observation
    BY DEF Observation
  <2>1. evq' \in [Server -> Seq(Observation)]
    BY <1>2, <2>0, QueuePush DEF Heartbeat, TypeInv, TypeOK
  <2>2. \A q \in Server : Len(evq'[q]) <= QueueBound
    BY <1>2, <2>0, QueuePush DEF Heartbeat, TypeInv, TypeOK
  <2>3. QED
    BY <1>2, <2>1, <2>2 DEF Heartbeat, TypeInv, TypeOK, JoinWellFormed
<1>3. ASSUME NEW r \in Server, ObserveFailedHeartbeat(r) PROVE TypeInv'
  <2>0. Head(evq[r]) \in Observation /\ Tail(evq[r]) \in Seq(Observation)
        /\ Len(Tail(evq[r])) <= QueueBound
    BY <1>3, QueuePop DEF ObserveFailedHeartbeat, TypeInv, TypeOK
  <2>1. evq' \in [Server -> Seq(Observation)]
        /\ \A q \in Server : Len(evq'[q]) <= QueueBound
    BY <1>3, <2>0 DEF ObserveFailedHeartbeat, TypeInv, TypeOK
  <2> DEFINE p == Head(evq[r]).peer
  <2>2. p \in Server
    BY <2>0 DEF Observation
  <2> DEFINE count == IF failed[r][p] < MaxFailures THEN failed[r][p] + 1
                      ELSE MaxFailures
  <2>6. count \in 0..MaxFailures
    <3>1. failed[r][p] \in 0..MaxFailures
      BY <2>2 DEF TypeInv, TypeOK
    <3>2. QED
      BY <3>1 DEF count
  <2>7. [failed EXCEPT ![r][p] = count] \in [Server -> [Server -> 0..MaxFailures]]
    <3>1. failed \in [Server -> [Server -> 0..MaxFailures]]
      BY DEF TypeInv, TypeOK
    <3>2. QED
      BY <2>2, <2>6, <3>1, CounterUpdate
  <2>8. [members EXCEPT ![p] = "none"] \in [Server -> Suffrage]
        /\ [purging EXCEPT ![r] = p] \in [Server -> Server \cup {NoServer}]
    BY <2>2 DEF TypeInv, TypeOK, Suffrage
  <2>3. failed' \in [Server -> [Server -> 0..MaxFailures]]
    BY <1>3, <2>7 DEF ObserveFailedHeartbeat, TypeInv, TypeOK, p, count
  <2>4. members' \in [Server -> Suffrage] /\ purging' \in [Server -> Server \cup {NoServer}]
    BY <1>3, <2>8 DEF ObserveFailedHeartbeat, TypeInv, TypeOK, p, count
  <2>5. QED
    BY <1>3, <2>1, <2>3, <2>4 DEF ObserveFailedHeartbeat, TypeInv, TypeOK,
                                  JoinWellFormed
<1>4. ASSUME NEW r \in Server, ObservePurgeDelete(r) PROVE TypeInv'
  <2>1. purging[r] \in Server
    BY <1>4 DEF ObservePurgeDelete, TypeInv, TypeOK
  <2>2. records' \in [Server -> NodeRecord \cup {Absent}]
        /\ leases' \in [Server -> IPv4Addr \cup {NoLease}]
    BY <1>4, <2>1 DEF ObservePurgeDelete, StaticFor, TypeInv, TypeOK
  <2>5. [failed EXCEPT ![r][purging[r]] = 0] \in [Server -> [Server -> 0..MaxFailures]]
    <3>1. 0 \in 0..MaxFailures
      OBVIOUS
    <3>2. failed \in [Server -> [Server -> 0..MaxFailures]]
      BY DEF TypeInv, TypeOK
    <3>3. QED
      BY <2>1, <3>1, <3>2, CounterUpdate
  <2>3. failed' \in [Server -> [Server -> 0..MaxFailures]]
        /\ purging' \in [Server -> Server \cup {NoServer}]
    BY <1>4, <2>5 DEF ObservePurgeDelete, TypeInv, TypeOK
  <2>4. QED
    BY <1>4, <2>2, <2>3 DEF ObservePurgeDelete, TypeInv, TypeOK, JoinWellFormed
<1>5. ASSUME NEW r \in Server, ObserveResumedHeartbeat(r) PROVE TypeInv'
  <2>0. Head(evq[r]) \in Observation /\ Tail(evq[r]) \in Seq(Observation)
        /\ Len(Tail(evq[r])) <= QueueBound
    BY <1>5, QueuePop DEF ObserveResumedHeartbeat, TypeInv, TypeOK
  <2>1. evq' \in [Server -> Seq(Observation)]
        /\ \A q \in Server : Len(evq'[q]) <= QueueBound
    BY <1>5, <2>0 DEF ObserveResumedHeartbeat, TypeInv, TypeOK
  <2>2. Head(evq[r]).peer \in Server
    BY <2>0 DEF Observation
  <2>5. [failed EXCEPT ![r][Head(evq[r]).peer] = 0]
          \in [Server -> [Server -> 0..MaxFailures]]
    <3>1. 0 \in 0..MaxFailures
      OBVIOUS
    <3>2. failed \in [Server -> [Server -> 0..MaxFailures]]
      BY DEF TypeInv, TypeOK
    <3>3. QED
      BY <2>2, <3>1, <3>2, CounterUpdate
  <2>3. failed' \in [Server -> [Server -> 0..MaxFailures]]
    BY <1>5, <2>5 DEF ObserveResumedHeartbeat, TypeInv, TypeOK
  <2>4. QED
    BY <1>5, <2>1, <2>3 DEF ObserveResumedHeartbeat, TypeInv, TypeOK,
                            JoinWellFormed
<1>6. ASSUME NEW h \in Handler, NEW id \in Server, NEW key \in Key,
             NEW ep \in Endpoint \cup {NoEndpoint}, NEW v4 \in BOOLEAN,
             NEW voter \in BOOLEAN, JoinStart(h, id, key, ep, v4, voter)
      PROVE TypeInv'
  <2>1. join' \in [Handler -> JoinState]
    BY <1>6 DEF JoinStart, TypeInv, TypeOK, JoinState, JoinPc
  <2>2. JoinWellFormed'
    BY <1>6 DEF JoinStart, TypeInv, TypeOK, JoinWellFormed
  <2>3. QED
    BY <1>6, <2>1, <2>2 DEF JoinStart, TypeInv, TypeOK
<1>7. ASSUME NEW h \in Handler, JoinGetPeer(h) PROVE TypeInv'
  <2> DEFINE j == join[h]
  <2> DEFINE new == [j EXCEPT !.snap = records[j.id], !.pc = "write"]
  <2>6. CASE JoinFails(h)
    BY <2>6 DEF JoinFails, IdleJoin, TypeInv, TypeOK, JoinWellFormed, JoinState,
                JoinPc
  <2>7. CASE join' = [join EXCEPT ![h] = new]
             /\ UNCHANGED <<leader, members, records, leases, failed, evq, purging>>
    <3>0. j \in JoinState /\ j.at \in Server /\ j.id \in Server /\ j.key \in Key
      BY <1>7 DEF JoinGetPeer, TypeInv, TypeOK, JoinWellFormed
    <3>3. new \in JoinState /\ new.at = j.at /\ new.id = j.id /\ new.key = j.key
      BY <3>0 DEF TypeInv, TypeOK, JoinState, JoinPc
    <3>1. join' \in [Handler -> JoinState]
      BY <2>7, <3>3, JoinSlot DEF TypeInv, TypeOK
    <3>2. JoinWellFormed'
      BY <2>7, <3>0, <3>3 DEF TypeInv, TypeOK, JoinWellFormed
    <3>5. QED
      BY <2>7, <3>1, <3>2 DEF TypeInv, TypeOK
  <2>8. QED
    BY <1>7, <2>6, <2>7 DEF JoinGetPeer
<1>8. ASSUME NEW h \in Handler, JoinWritePeer(h) PROVE TypeInv'
  <2> DEFINE j == join[h]
  <2>1. CASE ~IsLeader(j.at) /\ JoinFails(h)
    BY <2>1 DEF JoinFails, IdleJoin, TypeInv, TypeOK, JoinWellFormed, JoinState,
                JoinPc
  <2>2. CASE IsLeader(j.at) /\ j.pc = "write"
    <3> DEFINE new == [j EXCEPT !.pc = IF j.assignIPv4 THEN "lease" ELSE "add"]
    <3>1. /\ j \in JoinState
          /\ j.at \in Server /\ j.id \in Server /\ j.key \in Key
          /\ j.ep \in Endpoint \cup {NoEndpoint}
      BY <2>2 DEF TypeInv, TypeOK, JoinWellFormed, JoinState
    <3>2. records' \in [Server -> NodeRecord \cup {Absent}]
      <4>1. CASE j.snap # Absent
        <5>1. UpdatedRecord(j.snap, j) \in NodeRecord
          BY <3>1, <4>1 DEF UpdatedRecord, JoinState, NodeRecord
        <5>2. QED
          BY <1>8, <2>2, <4>1, <5>1, <3>1 DEF JoinWritePeer, TypeInv, TypeOK
      <4>2. CASE j.snap = Absent
        <5>1. PICK a \in IPv6Addr :
                records' = [records EXCEPT ![j.id] = [key |-> j.key, ep |-> j.ep, v6 |-> a]]
          BY <1>8, <2>2, <4>2 DEF JoinWritePeer
        <5>2. QED
          BY <5>1, <3>1 DEF TypeInv, TypeOK, NodeRecord
      <4>3. QED
        BY <4>1, <4>2
    <3>3. new \in JoinState /\ new.at = j.at /\ new.id = j.id /\ new.key = j.key
      BY <3>1 DEF JoinState, JoinPc
    <3>4. join' = [join EXCEPT ![h] = new]
      BY <1>8, <2>2 DEF JoinWritePeer
    <3>5. join' \in [Handler -> JoinState] /\ JoinWellFormed'
      BY <3>1, <3>3, <3>4, JoinSlot DEF TypeInv, TypeOK, JoinWellFormed
    <3>6. QED
      BY <1>8, <2>2, <3>2, <3>5 DEF JoinWritePeer, TypeInv, TypeOK
  <2>3. QED
    BY <1>8, <2>1, <2>2 DEF JoinWritePeer
<1>9. ASSUME NEW h \in Handler, JoinAcquire(h) PROVE TypeInv'
  <2> DEFINE j == join[h]
  <2>1. CASE JoinFails(h)
    BY <2>1 DEF JoinFails, IdleJoin, TypeInv, TypeOK, JoinWellFormed, JoinState,
                JoinPc
  <2>2. CASE IsLeader(j.at) /\ j.pc = "lease" /\ ~JoinFails(h)
    <3> DEFINE new == [j EXCEPT !.pc = "add"]
    <3>1. j \in JoinState /\ j.at \in Server /\ j.id \in Server /\ j.key \in Key
      BY <2>2 DEF TypeInv, TypeOK, JoinWellFormed
    <3>2. leases' \in [Server -> IPv4Addr \cup {NoLease}]
      <4>1. CASE leases' = leases
        BY <4>1 DEF TypeInv, TypeOK
      <4>2. CASE leases' # leases
        <5>1. PICK a \in FreeIPv4 : leases' = [leases EXCEPT ![j.id] = a]
          BY <1>9, <2>2, <4>2 DEF JoinAcquire
        <5>2. QED
          BY <5>1, <3>1 DEF FreeIPv4, TypeInv, TypeOK
      <4>3. QED
        BY <4>1, <4>2
    <3>3. new \in JoinState /\ new.at = j.at /\ new.id = j.id /\ new.key = j.key
      BY <3>1 DEF JoinState, JoinPc
    <3>4. join' = [join EXCEPT ![h] = new]
      BY <1>9, <2>2 DEF JoinAcquire
    <3>5. join' \in [Handler -> JoinState] /\ JoinWellFormed'
      BY <3>1, <3>3, <3>4, JoinSlot DEF TypeInv, TypeOK, JoinWellFormed
    <3>6. QED
      BY <1>9, <2>2, <3>2, <3>5 DEF JoinAcquire, TypeInv, TypeOK
  <2>3. QED
    BY <1>9, <2>1, <2>2 DEF JoinAcquire
<1>10. ASSUME NEW h \in Handler, JoinAddMember(h) PROVE TypeInv'
  <2> DEFINE j == join[h]
  <2>1. CASE JoinFails(h)
    BY <2>1 DEF JoinFails, IdleJoin, TypeInv, TypeOK, JoinWellFormed, JoinState,
                JoinPc
  <2>2. CASE IsLeader(j.at) /\ j.pc = "add" /\ ~JoinFails(h)
    <3>1. j.id \in Server
      BY <2>2 DEF TypeInv, JoinWellFormed
    <3>2. members' \in [Server -> Suffrage]
      BY <1>10, <2>2, <3>1 DEF JoinAddMember, AddedSuffrage, TypeInv, TypeOK,
                               Suffrage
    <3>3. IdleJoin \in JoinState /\ IdleJoin.pc = "idle"
      BY DEF IdleJoin, JoinState, JoinPc
    <3>4. join' = [join EXCEPT ![h] = IdleJoin]
      BY <1>10, <2>2 DEF JoinAddMember
    <3>5. join' \in [Handler -> JoinState] /\ JoinWellFormed'
      BY <3>3, <3>4, JoinSlot DEF TypeInv, TypeOK, JoinWellFormed
    <3>6. QED
      BY <1>10, <2>2, <3>2, <3>5 DEF JoinAddMember, TypeInv, TypeOK
  <2>3. QED
    BY <1>10, <2>1, <2>2 DEF JoinAddMember
<1>11. CASE UNCHANGED vars
  BY <1>11 DEF vars, TypeInv, TypeOK, JoinWellFormed
<1>12. CASE Next
  <2>1. CASE \E r, p \in Server, type \in {"failed", "resumed"} : Heartbeat(r, p, type)
    BY <2>1, <1>2
  <2>2. CASE \E r \in Server : \/ ObserveFailedHeartbeat(r)
                              \/ ObservePurgeDelete(r)
                              \/ ObserveResumedHeartbeat(r)
    BY <2>2, <1>3, <1>4, <1>5
  <2>3. CASE \E h \in Handler :
               \/ \E id \in Server, key \in Key, ep \in Endpoint \cup {NoEndpoint},
                     v4, voter \in BOOLEAN : JoinStart(h, id, key, ep, v4, voter)
               \/ JoinGetPeer(h)
               \/ JoinWritePeer(h)
               \/ JoinAcquire(h)
               \/ JoinAddMember(h)
    BY <2>3, <1>6, <1>7, <1>8, <1>9, <1>10
  <2>4. QED
    BY <1>12, <1>1, <2>1, <2>2, <2>3 DEF Next
<1>13. QED
  BY <1>11, <1>12

\* MeshStore is type correct: every reachable state satisfies TypeOK.
THEOREM TypeCorrect == Spec => []TypeOK
<1>1. Spec => []TypeInv
  BY InitTypeInv, NextTypeInv, PTL DEF Spec
<1>2. QED
  BY <1>1, PTL DEF TypeInv

====
