# TLA+ models of webmesh

This directory holds TLA+ models of the concurrent parts of webmesh (`src/`),
checked with TLC and, where it matters most, proved with TLAPS.
`PROJECT.json` records:

- the components and their status;
- every TLC run and the mutant that each passing property must catch;
- the source lines each definition translates (`map`);
- the findings, the hazards and the theorems.

## The system and its parts

A webmesh node joins a mesh by calling the **Join** RPC on the raft leader
(`pkg/services/node/server_join.go`). The handler makes these calls in order:

1. It checks leadership.
2. It reads the peer record from the **registry**.
3. It creates the record (with a random IPv6 from `util.Random64`) or updates it.
4. It acquires an IPv4 lease from **IPAM**.
5. It adds the node to the **raft** configuration as a voter or a non-voter.

Each call is a separate replicated write, refused once the handler's node has
lost leadership. Several Join RPCs run at once, on gRPC goroutines.

Each replica also runs the **observer** of raft events (`newObserver`,
`src/unnamed/part_001`). It counts failed heartbeats per peer. At
`HeartbeatPurgeThreshold`, on the leader, it removes the peer with
`RemoveServer` and then deletes its registry record and lease. Join and the
purge act on the same state: the raft configuration, the registry and the
leases.

Peers behind NAT connect their WireGuard interfaces through a **WebRTC data
channel proxy** (`pkg/net/datachannels/wireguard_proxy.go`). The server side
and the client side each register pion callbacks, which run on pion's
goroutines:

- ICE candidates;
- ICE state changes;
- data channel open;
- data channel close.

These callbacks coordinate through channels (`candidatec`, `readyc`, `errc`,
`closec`) and a mutex. The **campfire** (`pkg/campfire/campfire.go`) is a
rendezvous connection built the same way from a pre-shared key.

## Modules

| Module | Models | State | Actions |
|---|---|---|---|
| `MeshStore` | Join, the observer, and the raft/registry/IPAM contract they rely on | `leader`, `members` (suffrage), `records`, `leases`, `failed` (each replica's `failedHeartBeats`), `evq` (each replica's observation channel), `purging`, `join` (a program counter and request per Join goroutine) | `LeaderChange`, `Heartbeat`, `ObserveFailedHeartbeat`, `ObservePurgeDelete`, `ObserveResumedHeartbeat`, `JoinStart`, `JoinGetPeer`, `JoinWritePeer`, `JoinAcquire`, `JoinAddMember`, `JoinFails` |
| `MCMeshStore` | Model values and small sets for `MeshStore` | — | — |
| `MeshStoreProofs` | The TLAPS proof of type correctness of `MeshStore` | — | — |
| `MeshStoreJoinProofs` | The TLAPS proofs about the registry under Joins and under the purge | — | — |
| `WGProxyServer` | `NewWireGuardProxyServer`, its four callbacks, the relay of `Candidates()` | `mu`, `queued`/`sent` candidates, channel states, data channel, proxy copy, `crashed` | `CandLock`, `CandSend`, `StateHandler`, `DcOpen`, `DcRemoteClose`, `CopyEnds`, `Relay`, `RelayFails`, ICE environment |
| `WGProxyServerProofs` | The TLAPS proofs about `WGProxyServer` | — | — |
| `WGProxyClient` | `NewWireGuardProxyClient` | The constructor's progress `ctor`, the negotiation stream, the UDP conn, candidates, `errs`, channels, `crashed` | Every fallible setup step (`Negotiate`, `Build`, `Describe`, `Answer`), the lock-free candidate callbacks, the receive loop, the final select (`Wait`), `UserClose` |
| `WGProxyClientProofs` | The TLAPS proofs about `WGProxyClient` | — | — |
| `Campfire` | `campfire.New` and `CampFire.Close` | `ctor`, `conn`, `ice`, the data channel, `errc`/`readyc`, the caller | `Find`, `CreateChannel`, `Describe`, `IceChange`, `StateHandler`, `DcOpen`, `DcReady`, `UserClose`, `AwaitResult` |
| `CampfireSession` | The abstract contract of `campfire.New` (spec 4.7) | `result` (pending, ok, err), `conn` | `Connect`, `Fail`, `Establish`, `Teardown` |
| `CampfireProofs` | The TLAPS proofs about `Campfire`, including its refinement of `CampfireSession` | — | — |
| `Observer` | The whole observer of `newObserver`: failed, resumed, peer and leader observations | `leader`, `members`, `records`, `evq`, `failed`, `purging`, `wg` (the local WireGuard view), `events` (what watchers receive); ghost `hist` (the leaders in election order) | `OnFailedHeartbeat`, `OnPurgeDelete`, `OnResumedHeartbeat`, `OnPeerChange`, `OnLeaderChange`; environment `Elect`, `Register`, `AddMember`, `Heartbeat`, `RemoteRemove`, `RemoteDelete` |
| `MCObserver` | Model values and symmetry for `Observer` | — | — |
| `ObserverProofs` | The TLAPS proofs about `Observer` | — | — |

The actions follow the code as follows:

- **Fallible calls.** A call that can fail is a disjunction: one branch for
  the error return and one for the continuation. Deferred closes are part of
  the error branch.
- **Panics.** A Go panic (close of a closed or nil channel, send on a closed
  channel) ends the process. It sets `crashed`, and `Next` then has no
  further step.
- **Outside src/.** Raft, the registry, IPAM, the ICE agent and the caller of
  `campfire.New` are not under `src/`. They are modelled from `spec.md` and
  marked `spec_modelled` in the map.
- **Data abstraction.** Node ids, keys, endpoints and addresses are model
  values. Candidates are counted, not named. Byte copies are abstracted to
  how they end.

## Runs

| Run | Question | Bounds | Distinct states |
|---|---|---|---|
| `join` (pass) | Every member keeps a registry record, and a successful Join leaves the requested key and endpoint in it. Every storage and raft call of Join can fail, and leadership can change before any step. Purge disabled. | 2 servers, 2 keys, 2 IPv6 and 3 IPv4 addresses, a static lease for a third node, 1 handler | 2.9 M |
| `purge` (pass) | Every member keeps a registry record under the heartbeat purge: the record is deleted only after `RemoveServer` succeeded, and a failed `RemoveServer` returns. | Threshold 2 = `MaxFailures`, both servers members, no Join, no primary endpoints | 1.3 k |
| `retry_v6` (violation) | Is a node's IPv6 stable under a retried Join? | 2 handlers | |
| `purge_join_race` (violation) | Does every raft member have a record? | Threshold 1 | |
| `wg_server` (pass) | No candidate is forwarded after `readyc` closes. | The real `candidatec` capacity 10, 11 candidates (one more than fits), 2 ICE connects | 221 k |
| `wg_mutex_leak` (violation) | Is `mu` always released (liveness under `FairSpec`)? | | |
| `wg_double_close` (violation) | Is `readyc` closed at most once? | | |
| `wg_send_on_closed` (violation) | Is nothing sent on a closed `candidatec`? | | |
| `wg_client` (pass) | The client never sends a candidate after `readyc` closes, through every constructor failure point. | 2 candidates, 10 remote candidates (fill `errs`), 2 connects | 494 k |
| `campfire` (pass) | Every error return after `NewPeerConnection` closes the connection, and `Campfire` implements `CampfireSession` (`ImplementsSession`). | 4 ICE changes (enough for connect, disconnect, reconnect) | 181 |
| `observer` (pass) | Every LEADER_CHANGE event sent to watchers names, in election order, the leader elected in the term it reports. | 3 voters, threshold 2, 2 failures per peer, 4 observations in flight | 302 k |
| `observer_node_leave` (violation) | Does a removed peer reach the watchers as NODE_LEAVE? | as `observer`, without symmetry | |

The bounds are the smallest that reach each interesting case:

- **MeshStore.** Two servers give a leader and a peer to purge or to join.
- **retry_v6.** Two handlers give the client retry the violation needs.
- **join.** Three IPv4 addresses with one reserved statically reach both
  the static-override case and exhaustion. Two IPv6 addresses are enough,
  since no property of the run compares addresses.
- **purge.** `MaxFailures` equal to the threshold reaches the purge and the
  counter's cap. Without a Join the run isolates the purge's own ordering.
  The race with a Join is `purge_join_race`.
- **Observer.** Three voters let leadership move away from `Self` and come
  back. Four observations in flight are
  enough for two failures, an election and a peer change to wait in the
  channel together. Symmetry permutes the two peers and the keys; `Self` is
  fixed.
- **Channel capacities.** These are the code's own values: `candidatec` is
  10 and `errs` is 10. The interesting cases are the ones at capacity.

Every passing property has a mutant in `PROJECT.json`. A mutant changes one
mapped definition the way a plausible bug would:

- a failed `RemoveServer` that does not return;
- a refused registry write treated as success;
- the missing `closeNeg`;
- a dropped deferred `Close`.

TLC finds each mutant's property violated under the run's own cfg.

### Fairness

- **`WGProxyServer`.** `FairSpec` assumes weak fairness of the candidate and
  state callbacks. Pion delivers each callback on a goroutine, and the Go
  scheduler runs every runnable goroutine eventually.
- **`Campfire`.** `FairSpec` does the same for the state callback, `OnOpen`
  and the waiting caller.
- **Not assumed.** No fairness is assumed of the ICE agent, the remote peer
  or the user, since any of them may stop.

Passing runs set `CHECK_DEADLOCK FALSE` because every model can legitimately
stop. A proxy whose peer is gone, or a mesh with no leader and no pending
request, takes no further step.

## Findings

Each violation run is a trace of what the code does. The details are in
`PROJECT.json` `findings`.

- **retry_v6.** Two concurrent Joins of a new id both miss the record, and
  both `Create` it with their own random IPv6.
- **purge_join_race.** A Join can re-add a node between the purge's
  `RemoveServer` and its `peers.Delete`. The node is then a member without a
  record.
- **wg_mutex_leak.** `OnICECandidate` returns with `mu` held once `readyc` is
  closed.
- **wg_double_close.** `readyc` is closed on every `Connected` transition, so
  an ICE reconnect panics. The client has the same bug.
- **wg_send_on_closed.** `OnOpen` closes `candidatec` without taking `mu`,
  racing a candidate send.
- **observer_node_leave.** The observer looks a removed peer up in the
  registry before emitting NODE_LEAVE, and returns when the lookup fails.
  Every removal is followed by the record's delete (the purge deletes it in
  the same callback), so the event is lost whenever the delete lands first.
  Spec 4.3 allows a failed lookup only for LEADER_CHANGE.

The modules state other properties that TLC also finds violated, but no run
checks them. Each of these questions is answered by the same root cause as a
listed run, or is a plain consequence of one. The hazards in `PROJECT.json`
record them:

- `V6Unique`: `Random64` is not checked against existing addresses.
- `NoOrphanRecords`: the counter is cleared after a refused `peers.Delete`,
  and a Join refused at `AddVoter` leaves its record and lease.
- `ErrorReturnReleasesResources`: the client's error returns leave the peer
  connection open.
- `SetupResolves`: campfire setup has no deadline.
- `ReadyConnectionReturned` (`WGProxyClient`): the constructor's final
  `select` can return the timer or a queued error although `readyc` is
  closed.
- `NoCloseOfNilChannel` (`Campfire`): `readyc` is never made, so `OnOpen`
  panics.

## Proofs

`MeshStoreProofs` proves type correctness of `MeshStore` for every value of
the constants that satisfies `ServerAssumption`, `LeaseAssumption` and
`BoundAssumption`.

**`TypeCorrect`: `Spec => []TypeOK`.**

- `TypeOK` alone is not inductive. A busy Join handler's fields are read
  as servers and keys, so the proof uses `TypeInv == TypeOK /\
  JoinWellFormed`.
- `InitTypeInv` and `NextTypeInv` show `TypeInv` holds initially and is
  preserved, with one step per action.
- They rest on small lemmas about appending to and popping the bounded
  observation queue (`QueuePush`, `QueuePop`) and about updating the nested
  counter map (`CounterUpdate`).

The other MeshStore proofs use `TypeInv`. No run checks `TypeOK` itself.

`CampfireProofs` proves three theorems about `Campfire` for every
`MaxIceChanges` (`IceBound`):

- **`CampfireTypeCorrect`: `Spec => []TypeOK`.** `TypeOK` is inductive as
  it stands. The one buffered error fits in `errc` because `OnOpen` sends at
  most once.
- **`ErrorReturnsClose`: `Spec => []ErrorReturnClosesConn`.** The property
  alone is not inductive, because `Find`'s error branch keeps `conn`. The
  invariant `CloseInv` adds `NoConnBeforeFind`: before `NewPeerConnection`
  there is no connection.
- **`CampfireRefinesSession`: `Spec => ImplementsSession`.** The mapping
  sends `ctor` to the call's result (`find`, `channel` and `describe` are
  pending) and keeps `conn`. Each step is a `CampfireSession` step or a
  stutter (`StepRefines`). This rests on `SessionInv`:
  - no connection before `Find`;
  - the connection is open while New is between `NewPeerConnection` and its
    return;
  - ICE notifications exist only once New has returned.

  So a `Disconnected` notification can only tear down a session that was
  already returned.

`MeshStoreJoinProofs` extends `MeshStoreProofs` and uses its `TypeInv`.
It proves three theorems about the registry. Each holds under a hypothesis,
stated in its `ASSUME`, that a violation run shows is needed:

- **`MembersAlwaysRegistered`**: under `Threshold <= 0` and for any number
  of Join goroutines, `Spec => []MembersRegistered`. This also needs
  `RecordAssumption` (the sentinel `Absent` is not a node record). The
  inductive invariant `RegInv` adds:
  - `NoPurgeOwed`: with purging off, no registry delete is ever owed;
  - `RecordBeforeAdd`: a Join past its write finds its record.

  The lemma `WrittenRecord` states what a successful write stores. The
  `purge_join_race` run shows the property fails once purging runs beside a
  Join.
- **`MembersRegisteredWithoutJoins`**: under `Handler = {}` and for every
  threshold, `Spec => []MembersRegistered`. The inductive invariant
  `PurgeInv` adds `PurgeOfNonMember`: a delete is owed only for a node that
  `RemoveServer` already took out of the configuration. That holds because
  the observer returns when `RemoveServer` fails. The `purge` run checks the
  same property, and its mutant drops that `return`.
- **`JoinReflectsRequestSingleJoin`**: under `Handler = {h0}` and
  `Threshold <= 0`, `Spec => JoinReflectsRequest`. The invariant
  `RecordMatchesRequest` says that a Join past its write finds its key and
  endpoint in the record. The `join` run checks the same property with
  these bounds.

`ObserverProofs` proves two theorems about `Observer` for every value of
the constants (`ObserverAssumption`):

- **`ObserverTypeCorrect`: `Spec => []TypeOK`.**
- **`LeaderEventsSafe`: `Spec => []LeaderEventsFollowElections`.** The
  property is not inductive: a leader observation waits in the channel
  while leadership moves on. `LeaderInv` adds three facts about the queued
  observations:
  - every queued leader observation names the leader raft elected in its
    term (`QueuedLeadersElected`);
  - queued terms increase (`QueuedLeadersOrdered`);
  - every emitted leader event precedes them in term order
    (`EmittedBeforeQueued`).

  The lemmas `ElectPush`, `EmitLeader` and `EmitOther` cover the election
  and the observer's emission. `LeaderEventsFollowElections` is stated with
  quantifiers over the event log rather than with `SelectSeq`: the
  quantified form is the same property, and the provers cannot unfold the
  recursive definition behind `SelectSeq`.

`WGProxyServerProofs` and `WGProxyClientProofs` prove type correctness of
the two proxy modules. They also prove that no candidate is sent after
`readyc` is closed (`NoCandidateAfterReadyClosed`, one theorem per side),
for every bound:

- **Server.** `ServerInv` adds `CandBudget` (the candidates pending, sent
  and in flight fit within `MaxCandidates`). It also adds
  `SendSawReadyOpen`: a send in progress passed its `readyc` check while
  `readyc` was open, and the state handler waits for the candidate lock
  before closing it.
- **Client.** `ClientInv` adds:
  - `QuietBeforeIce`: nothing ICE-related happens before the constructor
    has negotiated;
  - `ReadyAfterCloseSend`: `neg.CloseSend` runs before `readyc` is closed,
    so no later `neg.Send` succeeds;
  - `CountersNat`: the counters are natural numbers.

The rest is model-checked only:

- **All liveness properties.** The prover does not reason about fairness or
  `ENABLED`.
- **The properties of the violation runs.** They do not hold.
- **`MembersRegistered` and `JoinReflectsRequest` outside the proved
  hypotheses** (purging beside a Join, or two Join goroutines). There the
  violation runs show `MembersRegistered` and `V6Stable` fail.
- **IPAM.** The allocator is not under `src/`. It is modelled from the spec
  as one atomic allocation, so no property about lease disjointness is
  checked.
- **The properties that are stated but not run** (listed above), such as
  `ErrorReturnReleasesResources`.

## Not modelled

- **Mesh state queries and local database queries.** They only read. The
  database code is sqlc-generated.
- **DNS options and OS route/interface code.** This is configuration
  parsing and platform I/O.
- **The raft stream layer.** It is network I/O.
- **The Wait side of campfire** (`Accept`, `Expired`).
- **The admin RPCs' ACL deletion** (`DeleteNetworkACL`: leader, name, RBAC
  and system-ACL checks).

The next module to add is `AdminDelete`. Its RBAC check runs before the
system-ACL check, while spec 4.3 rejects reserved names first.
