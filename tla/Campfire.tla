------------------------------ MODULE Campfire ------------------------------
(***************************************************************************)
(* campfire.New (pkg/campfire/campfire.go): the rendezvous connection      *)
(* to a peer that shares the pre-shared key.                               *)
(*                                                                         *)
(* New derives the location (FindCampFire), creates the peer connection,   *)
(* registers an ICE state callback (Disconnected closes the connection),   *)
(* creates the data channel with an OnOpen callback (Detach; on error the  *)
(* error goes to errc, else errc and then readyc are closed), then builds  *)
(* the offer, the local description and a synthesised answer.  Every      *)
(* error after the connection exists closes it (deferred Close).           *)
(*                                                                         *)
(* The CampFire literal makes errc (capacity 1) and closec but not readyc, *)
(* so readyc is a nil channel: Ready() never fires and close(readyc)       *)
(* panics.  The caller of New waits on Errors() and Ready().               *)
(***************************************************************************)
EXTENDS Naturals, Sequences

CONSTANT MaxIceChanges  \* ICE state changes explored

ASSUME IceBound == MaxIceChanges \in Nat

VARIABLES
    ctor,      \* New's progress: "find", "channel", "describe", "ok", "err"
    conn,      \* the peer connection: "none", "open", "closed"
    ice,       \* the ICE agent's state
    changes,   \* ICE state changes so far
    iceEvents, \* state notifications not yet delivered, in order
    dc,        \* the data channel: "none", "connecting", "opening", "detached",
               \* "failed", "closed"
    errq,      \* errors buffered in errc
    errc,      \* errc: "open" or "closed"
    readyc,    \* readyc: "nil" (never made), "open" or "closed"
    waiter,    \* New's caller: "none", "waiting", "ready", "error"
    crashed    \* "none", or the panic that ended the process

vars == <<ctor, conn, ice, changes, iceEvents, dc, errq, errc, readyc, waiter,
          crashed>>

ErrCap == 1  \* make(chan error, 1)

IceState == {"new", "checking", "connected", "disconnected", "failed", "closed"}

Init ==
    /\ ctor = "find" /\ conn = "none"
    /\ ice = "new" /\ changes = 0 /\ iceEvents = <<>>
    /\ dc = "none"
    /\ errq = 0 /\ errc = "open"
    /\ readyc = "nil"
    /\ waiter = "none" /\ crashed = "none"

\* PeerConnection.Close (idempotent): ends ICE and the data channel.
CloseAll ==
    /\ conn' = IF conn = "open" THEN "closed" ELSE conn
    /\ ice' = IF conn = "open" THEN "closed" ELSE ice
    /\ dc' = IF dc \in {"connecting", "opening", "detached"} THEN "closed" ELSE dc

-----------------------------------------------------------------------------
(* New.                                                                    *)

\* FindCampFire, then NewPeerConnection; the callbacks are registered.
Find ==
    /\ ctor = "find"
    /\ \/ ctor' = "err" /\ UNCHANGED conn
       \/ ctor' = "channel" /\ conn' = "open"
    /\ UNCHANGED <<ice, changes, iceEvents, dc, errq, errc, readyc, waiter, crashed>>

\* Mutant: a failed CreateDataChannel returns without closing the connection.
CreateChannelLeaky ==
    /\ ctor = "channel"
    /\ \/ ctor' = "err" /\ UNCHANGED <<conn, ice, dc>>
       \/ ctor' = "describe" /\ dc' = "connecting" /\ UNCHANGED <<conn, ice>>
    /\ UNCHANGED <<changes, iceEvents, errq, errc, readyc, waiter, crashed>>

\* CreateDataChannel and OnOpen.
CreateChannel ==
    /\ ctor = "channel"
    /\ \/ ctor' = "err" /\ CloseAll
       \/ ctor' = "describe" /\ dc' = "connecting" /\ UNCHANGED <<conn, ice>>
    /\ UNCHANGED <<changes, iceEvents, errq, errc, readyc, waiter, crashed>>

\* Mutant: an error after CreateOffer returns without the deferred Close.
DescribeLeaky ==
    /\ ctor = "describe"
    /\ \/ ctor' = "err" /\ UNCHANGED <<conn, ice, dc, waiter>>
       \/ ctor' = "ok" /\ waiter' = "waiting" /\ UNCHANGED <<conn, ice, dc>>
    /\ UNCHANGED <<changes, iceEvents, errq, errc, readyc, crashed>>

\* CreateOffer, SetLocalDescription, Unmarshal, the answer's Marshal and
\* SetRemoteDescription: an error closes the connection and returns.
Describe ==
    /\ ctor = "describe"
    /\ \/ ctor' = "err" /\ CloseAll /\ UNCHANGED waiter
       \/ ctor' = "ok" /\ waiter' = "waiting" /\ UNCHANGED <<conn, ice, dc>>
    /\ UNCHANGED <<changes, iceEvents, errq, errc, readyc, crashed>>

-----------------------------------------------------------------------------
(* The pion library and the callbacks.                                     *)

\* The ICE agent's transitions once both descriptions are set; each is
\* notified to OnICEConnectionStateChange, in order.
IceMoves ==
    {<<"new", "checking">>, <<"checking", "connected">>, <<"checking", "failed">>,
     <<"connected", "disconnected">>, <<"disconnected", "connected">>,
     <<"disconnected", "failed">>}

IceChange ==
    /\ ctor = "ok" /\ conn = "open" /\ changes < MaxIceChanges
    /\ \E m \in IceMoves :
          /\ m[1] = ice /\ ice' = m[2]
          /\ iceEvents' = Append(iceEvents, m[2])
    /\ changes' = changes + 1
    /\ UNCHANGED <<ctor, conn, dc, errq, errc, readyc, waiter, crashed>>

\* OnICEConnectionStateChange: Disconnected closes the connection.
StateHandler ==
    /\ iceEvents # <<>>
    /\ iceEvents' = Tail(iceEvents)
    /\ IF Head(iceEvents) = "disconnected"
       THEN CloseAll
       ELSE UNCHANGED <<conn, ice, dc>>
    /\ UNCHANGED <<ctor, changes, errq, errc, readyc, waiter, crashed>>

\* OnOpen: Detach fails (errc <- err), or succeeds and close(errc) runs.
DcOpen ==
    /\ dc = "connecting" /\ ice = "connected"
    /\ \/ dc' = "failed" /\ errq < ErrCap /\ errq' = errq + 1 /\ UNCHANGED errc
       \/ dc' = "opening" /\ errc' = "closed" /\ UNCHANGED errq
    /\ UNCHANGED <<ctor, conn, ice, changes, iceEvents, readyc, waiter, crashed>>

\* OnOpen, last statement: close(cf.readyc).
DcReady ==
    /\ dc = "opening"
    /\ dc' = "detached"
    /\ IF readyc = "open"
       THEN readyc' = "closed" /\ UNCHANGED crashed
       ELSE crashed' = "closeOfNilChannel" /\ UNCHANGED readyc
    /\ UNCHANGED <<ctor, conn, ice, changes, iceEvents, errq, errc, waiter>>

\* CampFire.Close.
UserClose ==
    /\ ctor = "ok" /\ conn = "open"
    /\ CloseAll
    /\ UNCHANGED <<ctor, changes, iceEvents, errq, errc, readyc, waiter, crashed>>

-----------------------------------------------------------------------------
(* The caller: select on Errors() and Ready().  A closed errc yields a nil *)
(* error.                                                                   *)

AwaitResult ==
    /\ waiter = "waiting"
    /\ \/ errq > 0 /\ errq' = errq - 1 /\ waiter' = "error"
       \/ errq = 0 /\ errc = "closed" /\ waiter' = "error" /\ UNCHANGED errq
       \/ readyc = "closed" /\ waiter' = "ready" /\ UNCHANGED errq
    /\ UNCHANGED <<ctor, conn, ice, changes, iceEvents, dc, errc, readyc, crashed>>

-----------------------------------------------------------------------------

Next ==
    /\ crashed = "none"
    /\ \/ Find \/ CreateChannel \/ Describe
       \/ IceChange \/ StateHandler \/ DcOpen \/ DcReady \/ UserClose
       \/ AwaitResult

Spec == Init /\ [][Next]_vars

\* The callbacks and the caller are goroutines the Go scheduler runs
\* whenever they can proceed.
FairSpec ==
    /\ Spec
    /\ WF_vars(StateHandler) /\ WF_vars(DcOpen) /\ WF_vars(DcReady)
    /\ WF_vars(AwaitResult)

-----------------------------------------------------------------------------
(* Properties.                                                             *)

TypeOK ==
    /\ ctor \in {"find", "channel", "describe", "ok", "err"}
    /\ conn \in {"none", "open", "closed"}
    /\ ice \in IceState /\ changes \in 0..MaxIceChanges
    /\ iceEvents \in Seq(IceState)
    /\ dc \in {"none", "connecting", "opening", "detached", "failed", "closed"}
    /\ errq \in 0..ErrCap /\ errc \in {"open", "closed"}
    /\ readyc \in {"nil", "open", "closed"}
    /\ waiter \in {"none", "waiting", "ready", "error"}
    /\ crashed \in {"none", "closeOfNilChannel"}

\* Every error return of New after NewPeerConnection closes the peer
\* connection (spec: campfire sessions release all underlying transport).
ErrorReturnClosesConn == ctor = "err" => conn # "open"

\* OnOpen's close(cf.readyc) never runs on a nil channel (a Go panic).
NoCloseOfNilChannel == crashed # "closeOfNilChannel"

\* Spec 4.7: campfire setup reaches Open or fails by a deadline, so the
\* caller waiting on a campfire that New returned is eventually told one
\* or the other.
SetupResolves ==
    (waiter = "waiting") ~> (waiter \in {"ready", "error"} \/ crashed # "none")

-----------------------------------------------------------------------------
(* Refinement: campfire.New implements CampfireSession.  New's progress   *)
(* maps to the call's result; the peer connection is the transport.      *)

SessionResult ==
    CASE ctor = "ok"  -> "ok"
      [] ctor = "err" -> "err"
      [] OTHER        -> "pending"

Session == INSTANCE CampfireSession WITH result <- SessionResult

\* New, its pion callbacks and CampFire.Close together only ever open the
\* connection before New returns, close it on every error return, and
\* close a returned session only after returning it (spec 4.7).
ImplementsSession == Session!Spec

=============================================================================
