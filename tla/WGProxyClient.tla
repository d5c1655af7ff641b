--------------------------- MODULE WGProxyClient ---------------------------
(***************************************************************************)
(* The client side of the WireGuard data-channel proxy                     *)
(* (NewWireGuardProxyClient, pkg/net/datachannels/wireguard_proxy.go).     *)
(*                                                                         *)
(* The constructor negotiates over a bidirectional RPC stream `neg`:       *)
(* request, offer, peer connection, data channel, local UDP socket,        *)
(* remote and local descriptions, answer; every step can fail and return   *)
(* an error.  It then starts a goroutine that feeds remote candidates from *)
(* the stream into the connection, and waits in one select for the first  *)
(* of: an error on `errs`, a 15 s timer, or readyc.                         *)
(* Meanwhile the pion callbacks run on the library's goroutines without    *)
(* any lock: OnICECandidate checks readyc and closec, then sends the       *)
(* candidate on the stream; OnICEConnectionStateChange, on Connected,      *)
(* half-closes the stream and closes readyc.  The data channel's OnOpen    *)
(* copies between the channel and the UDP socket and closes the            *)
(* connection when a copy ends.                                            *)
(*                                                                         *)
(* A send on a half-closed stream fails (gRPC refuses SendMsg after        *)
(* CloseSend).  A Go panic ends the process (`crashed`).                   *)
(***************************************************************************)
EXTENDS Naturals, Sequences

CONSTANTS
    ErrCap,         \* capacity of errs (make(chan error, 10))
    MaxCandidates,  \* local candidates the gatherer reports
    MaxRemote,      \* remote candidates the stream delivers
    MaxConnects     \* ICE transitions into "connected" explored

ASSUME ClientBounds ==
    /\ ErrCap \in Nat \ {0} /\ MaxCandidates \in Nat /\ MaxRemote \in Nat
    /\ MaxConnects \in Nat \ {0}

VARIABLES
    ctor,         \* the constructor's progress, then "ok" or "err"
    neg,          \* the stream's send side: "none", "open", "closed"
    conn,         \* the peer connection: "none", "open", "closed"
    udp,          \* the local UDP socket wgiface: "none", "open", "closed"
    ice,          \* the ICE transport's state
    connects,     \* transitions into "connected" so far
    iceEvents,    \* state notifications not yet delivered
    iceOn,        \* the local description is set: ICE is running
    gathered,     \* local candidates reported so far
    checking,     \* candidate callbacks not yet past the select
    sending,      \* candidate callbacks past the select, before neg.Send
    sentOK,       \* local candidates the stream accepted
    remote,       \* remote candidates received so far
    recvLoop,     \* the candidate-receiving goroutine: "none", "running", "done"
    errs,         \* errors buffered in errs
    readyClosed,  \* close(pc.readyc) has run
    closecClosed, \* close(pc.closec) has run
    dc,           \* the data channel: "connecting", "open", "closed"
    crashed       \* "none", or the panic that ended the process

vars == <<ctor, neg, conn, udp, ice, connects, iceEvents, iceOn, gathered,
          checking, sending, sentOK, remote, recvLoop, errs, readyClosed,
          closecClosed, dc, crashed>>

IceState == {"checking", "connected", "disconnected", "closed"}

Ctor == {"negotiate", "build", "describe", "answer", "waiting", "ok", "err"}

Init ==
    /\ ctor = "negotiate"
    /\ neg = "none" /\ conn = "none" /\ udp = "none"
    /\ ice = "checking" /\ connects = 0 /\ iceEvents = <<>> /\ iceOn = FALSE
    /\ gathered = 0 /\ checking = 0 /\ sending = 0 /\ sentOK = 0
    /\ remote = 0 /\ recvLoop = "none" /\ errs = 0
    /\ readyClosed = FALSE /\ closecClosed = FALSE
    /\ dc = "connecting" /\ crashed = "none"

\* closeNeg: neg.CloseSend (a second call only logs its error).
CloseNeg == IF neg = "open" THEN "closed" ELSE neg

\* errs <- err from a goroutine: a full buffer blocks the sender for good
\* once the constructor has stopped reading, so the error is not queued.
PushErr == IF errs < ErrCap THEN errs + 1 ELSE errs

-----------------------------------------------------------------------------
(* The constructor, up to the select.                                      *)

\* StartDataChannel, Send(request), Recv(offer), Unmarshal, NewPeerConnection.
Negotiate ==
    /\ ctor = "negotiate"
    /\ \/ ctor' = "err" /\ UNCHANGED <<neg, conn>>           \* StartDataChannel
       \/ ctor' = "err" /\ neg' = "closed" /\ UNCHANGED conn  \* later steps: closeNeg
       \/ ctor' = "build" /\ neg' = "open" /\ conn' = "open"
    /\ UNCHANGED <<udp, ice, connects, iceEvents, gathered, checking, sending,
                   sentOK, iceOn, remote, recvLoop, errs, readyClosed, closecClosed, dc, crashed>>

\* CreateDataChannel, DialUDP: their errors return without closeNeg and
\* without closing the peer connection.
Build ==
    /\ ctor = "build"
    /\ \/ ctor' = "err" /\ UNCHANGED udp
       \/ ctor' = "describe" /\ udp' = "open"
    /\ UNCHANGED <<neg, conn, ice, connects, iceEvents, gathered, checking,
                   sending, sentOK, iceOn, remote, recvLoop, errs, readyClosed, closecClosed,
                   dc, crashed>>

\* SetRemoteDescription, CreateAnswer, Marshal, SetLocalDescription.  ICE
\* starts with the local description.
Describe ==
    /\ ctor = "describe"
    /\ \/ ctor' = "err" /\ neg' = CloseNeg      \* with closeNeg
       \/ ctor' = "err" /\ UNCHANGED neg        \* Marshal: no closeNeg
       \/ ctor' = "answer" /\ UNCHANGED neg
    /\ iceOn' = (ctor' = "answer")
    /\ UNCHANGED <<conn, udp, ice, connects, iceEvents, gathered, checking,
                   sending, sentOK, remote, recvLoop, errs, readyClosed, closecClosed,
                   dc, crashed>>

\* neg.Send(answer), then go the receive loop.
Answer ==
    /\ ctor = "answer"
    /\ \/ ctor' = "err" /\ UNCHANGED recvLoop
       \/ ctor' = "waiting" /\ recvLoop' = "running"
    /\ UNCHANGED <<neg, conn, udp, ice, connects, iceEvents, gathered, checking,
                   sending, sentOK, iceOn, remote, errs, readyClosed, closecClosed, dc, crashed>>

\* The select: Go picks uniformly among the cases that are ready.
Wait ==
    /\ ctor = "waiting"
    /\ \/ errs > 0 /\ errs' = errs - 1 /\ ctor' = "err"
       \/ ctor' = "err" /\ UNCHANGED errs              \* time.After(15s)
       \/ readyClosed /\ ctor' = "ok" /\ UNCHANGED errs
    /\ UNCHANGED <<neg, conn, udp, ice, connects, iceEvents, gathered, checking,
                   sending, sentOK, iceOn, remote, recvLoop, readyClosed, closecClosed, dc,
                   crashed>>

-----------------------------------------------------------------------------
(* The pion library: ICE transitions and candidate gathering, once the     *)
(* local description is set and until the connection is closed.           *)

IceConnect ==
    /\ iceOn /\ conn = "open"
    /\ ice \in {"checking", "disconnected"} /\ connects < MaxConnects
    /\ ice' = "connected" /\ connects' = connects + 1
    /\ iceEvents' = Append(iceEvents, "connected")
    /\ UNCHANGED <<ctor, neg, conn, udp, iceOn, gathered, checking, sending,
                   sentOK, remote, recvLoop, errs, readyClosed, closecClosed,
                   dc, crashed>>

IceDisconnect ==
    /\ ice = "connected"
    /\ ice' = "disconnected"
    /\ iceEvents' = Append(iceEvents, "disconnected")
    /\ UNCHANGED <<ctor, neg, conn, udp, connects, iceOn, gathered, checking,
                   sending, sentOK, remote, recvLoop, errs, readyClosed,
                   closecClosed, dc, crashed>>

Gather ==
    /\ iceOn /\ conn = "open" /\ gathered < MaxCandidates
    /\ gathered' = gathered + 1 /\ checking' = checking + 1
    /\ UNCHANGED <<ctor, neg, conn, udp, ice, connects, iceEvents, iceOn,
                   sending, sentOK, remote, recvLoop, errs, readyClosed,
                   closecClosed, dc, crashed>>

-----------------------------------------------------------------------------
(* OnICECandidate: the select on readyc and closec, then neg.Send; a       *)
(* failed send runs closeNeg and queues the error.                         *)

CandCheck ==
    /\ checking > 0
    /\ checking' = checking - 1
    /\ sending' = IF readyClosed \/ closecClosed THEN sending ELSE sending + 1
    /\ UNCHANGED <<ctor, neg, conn, udp, ice, connects, iceEvents, iceOn,
                   gathered, sentOK, remote, recvLoop, errs, readyClosed,
                   closecClosed, dc, crashed>>

CandSend ==
    /\ sending > 0
    /\ sending' = sending - 1
    /\ \/ neg = "open" /\ sentOK' = sentOK + 1 /\ UNCHANGED <<neg, errs>>
       \/ neg # "open" /\ errs' = PushErr /\ neg' = CloseNeg /\ UNCHANGED sentOK
    /\ UNCHANGED <<ctor, conn, udp, ice, connects, iceEvents, iceOn, gathered,
                   checking, remote, recvLoop, readyClosed, closecClosed, dc,
                   crashed>>

-----------------------------------------------------------------------------
(* OnICEConnectionStateChange: on Connected, closeNeg then close(readyc).  *)

\* Mutant: Connected does not half-close the stream.
StateHandlerKeepNeg ==
    /\ iceEvents # <<>>
    /\ iceEvents' = Tail(iceEvents)
    /\ IF Head(iceEvents) = "connected"
       THEN IF readyClosed
            THEN crashed' = "closeOfClosedChannel" /\ UNCHANGED <<neg, readyClosed>>
            ELSE readyClosed' = TRUE /\ UNCHANGED <<neg, crashed>>
       ELSE UNCHANGED <<neg, readyClosed, crashed>>
    /\ UNCHANGED <<ctor, conn, udp, ice, connects, iceOn, gathered, checking,
                   sending, sentOK, remote, recvLoop, errs, closecClosed, dc>>

StateHandler ==
    /\ iceEvents # <<>>
    /\ iceEvents' = Tail(iceEvents)
    /\ IF Head(iceEvents) = "connected"
       THEN /\ neg' = CloseNeg
            /\ IF readyClosed
               THEN crashed' = "closeOfClosedChannel" /\ UNCHANGED readyClosed
               ELSE readyClosed' = TRUE /\ UNCHANGED crashed
       ELSE UNCHANGED <<neg, readyClosed, crashed>>
    /\ UNCHANGED <<ctor, conn, udp, ice, connects, iceOn, gathered, checking,
                   sending, sentOK, remote, recvLoop, errs, closecClosed, dc>>

-----------------------------------------------------------------------------
(* The receive loop: neg.Recv until EOF or an error, AddICECandidate.      *)

RecvCandidate ==
    /\ recvLoop = "running"
    /\ \/ recvLoop' = "done" /\ UNCHANGED <<remote, errs>>           \* io.EOF
       \/ recvLoop' = "done" /\ errs' = PushErr /\ UNCHANGED remote  \* Recv error
       \/ /\ remote < MaxRemote /\ remote' = remote + 1
          /\ \/ UNCHANGED errs                                       \* added
             \/ errs' = PushErr                                      \* add failed
          /\ UNCHANGED recvLoop
    /\ UNCHANGED <<ctor, neg, conn, udp, ice, connects, iceEvents, iceOn,
                   gathered, checking, sending, sentOK, readyClosed,
                   closecClosed, dc, crashed>>

-----------------------------------------------------------------------------
(* The data channel.                                                       *)

\* OnOpen: Detach (on error it returns, nothing is copied), then the copies.
DcOpen ==
    /\ dc = "connecting" /\ ice = "connected" /\ conn = "open"
    /\ dc' \in {"open", "copying"}
    /\ UNCHANGED <<ctor, neg, conn, udp, ice, connects, iceEvents, iceOn,
                   gathered, checking, sending, sentOK, remote, recvLoop, errs,
                   readyClosed, closecClosed, crashed>>

\* A copy ends: the deferred pc.conn.Close, and wgiface.Close in the other
\* copy; closing the connection closes the channel (OnClose: close(closec)).
CopyEnds ==
    /\ dc = "copying"
    /\ dc' = "closed" /\ conn' = "closed" /\ udp' = "closed"
    /\ ice' = "closed" /\ iceEvents' = Append(iceEvents, "closed")
    /\ closecClosed' = TRUE
    /\ UNCHANGED <<ctor, neg, connects, iceOn, gathered, checking, sending,
                   sentOK, remote, recvLoop, errs, readyClosed, crashed>>

\* The remote side closes the channel: OnClose closes closec; a running
\* copy then ends too.
DcRemoteClose ==
    /\ dc \in {"open", "copying"} /\ ~closecClosed
    /\ closecClosed' = TRUE
    /\ UNCHANGED <<ctor, neg, conn, udp, ice, connects, iceEvents, iceOn,
                   gathered, checking, sending, sentOK, remote, recvLoop, errs,
                   readyClosed, dc, crashed>>

\* The caller of a returned proxy calls Close.
UserClose ==
    /\ ctor = "ok" /\ conn = "open"
    /\ conn' = "closed" /\ ice' = "closed"
    /\ iceEvents' = Append(iceEvents, "closed")
    /\ closecClosed' = (dc # "connecting" \/ closecClosed)
    /\ dc' = IF dc = "connecting" THEN dc ELSE "closed"
    /\ UNCHANGED <<ctor, neg, udp, connects, iceOn, gathered, checking, sending,
                   sentOK, remote, recvLoop, errs, readyClosed, crashed>>

-----------------------------------------------------------------------------

Next ==
    /\ crashed = "none"
    /\ \/ Negotiate \/ Build \/ Describe \/ Answer \/ Wait
       \/ IceConnect \/ IceDisconnect \/ Gather
       \/ CandCheck \/ CandSend \/ StateHandler \/ RecvCandidate
       \/ DcOpen \/ CopyEnds \/ DcRemoteClose \/ UserClose

Spec == Init /\ [][Next]_vars

-----------------------------------------------------------------------------
(* Properties.                                                             *)

TypeOK ==
    /\ ctor \in Ctor
    /\ neg \in {"none", "open", "closed"}
    /\ conn \in {"none", "open", "closed"} /\ udp \in {"none", "open", "closed"}
    /\ ice \in IceState /\ connects \in 0..MaxConnects
    /\ iceEvents \in Seq(IceState) /\ iceOn \in BOOLEAN
    /\ gathered \in 0..MaxCandidates
    /\ checking + sending + sentOK <= gathered
    /\ remote \in 0..MaxRemote
    /\ recvLoop \in {"none", "running", "done"}
    /\ errs \in 0..ErrCap
    /\ readyClosed \in BOOLEAN /\ closecClosed \in BOOLEAN
    /\ dc \in {"connecting", "open", "copying", "closed"}
    /\ crashed \in {"none", "closeOfClosedChannel"}

\* Once readyc is closed the server is sent no further local candidate:
\* OnICEConnectionStateChange half-closes the stream before it closes
\* readyc, so a candidate callback that passed its readyc check just
\* before fails its neg.Send.
NoCandidateAfterReady == [][readyClosed => sentOK' = sentOK]_vars

\* A constructor that returns an error has released the peer connection
\* and the UDP socket it created: the caller, which gets nil, cannot.
ErrorReturnReleasesResources == ctor = "err" => conn # "open" /\ udp # "open"

\* A connection that became ready while the constructor waits is handed
\* to the caller: the select does not then return an error.
ReadyConnectionReturned ==
    [][ctor = "waiting" /\ readyClosed => ctor' # "err"]_vars

\* close(pc.readyc) never runs twice (a Go panic).
NoDoubleCloseReady == crashed # "closeOfClosedChannel"

=============================================================================
