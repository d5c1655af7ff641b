--------------------------- MODULE WGProxyServer ---------------------------
(***************************************************************************)
(* The server side of the WireGuard data-channel proxy                     *)
(* (NewWireGuardProxyServer, pkg/net/datachannels/wireguard_proxy.go).     *)
(*                                                                         *)
(* Four callbacks registered on the pion peer connection run on the        *)
(* library's goroutines and share the proxy's state:                       *)
(*   - OnICECandidate, once per gathered local candidate, possibly          *)
(*     concurrently: takes mu, returns if readyc is closed, else sends the  *)
(*     candidate on the buffered channel candidatec and unlocks;            *)
(*   - OnICEConnectionStateChange, in order, one notification at a time:    *)
(*     under mu, on "connected" it reads the selected candidate pair and    *)
(*     closes readyc;                                                       *)
(*   - the data channel's OnOpen: closes candidatec, dials the local        *)
(*     WireGuard port and copies in both directions until one side ends,    *)
(*     then closes the peer connection;                                     *)
(*   - the data channel's OnClose: closes closec.                           *)
(* The RPC handler that relays Candidates() to the remote peer reads       *)
(* candidatec until it is closed, or stops when its stream fails.          *)
(*                                                                         *)
(* Candidates carry no data the properties distinguish, so they are        *)
(* counted.  A Go runtime panic (close of a closed channel, send on a      *)
(* closed channel) ends the process: `crashed` records it and no step      *)
(* follows.                                                                 *)
(***************************************************************************)
EXTENDS Naturals, Sequences

CONSTANTS
    CandCap,        \* capacity of candidatec (make(chan string, 10))
    MaxCandidates,  \* local candidates the gatherer reports
    MaxConnects     \* ICE transitions into "connected" explored

ASSUME ProxyBounds ==
    CandCap \in Nat \ {0} /\ MaxCandidates \in Nat /\ MaxConnects \in Nat \ {0}

VARIABLES
    ice,          \* the ICE transport's state
    connects,     \* transitions into "connected" so far
    iceEvents,    \* state notifications not yet delivered to the handler
    mu,           \* the callbacks' mutex: "free" or held by a candidate callback
    pending,      \* candidate callbacks started and not yet past mu.Lock
    inSend,       \* the holder of mu is at the send on candidatec
    queued,       \* candidates buffered in candidatec
    sent,         \* candidates ever put on candidatec
    candClosed,   \* close(pc.candidatec) has run
    readyClosed,  \* close(readyc) has run
    closecClosed, \* close(pc.closec) has run
    dc,           \* the data channel: "connecting", "open", "closed"
    proxy,        \* OnOpen's progress: "none", "copying", "done"
    reader,       \* the relay of Candidates(): "reading", "stopped", "done"
    crashed       \* "none", or the panic that ended the process

vars == <<ice, connects, iceEvents, mu, pending, inSend, queued, sent,
          candClosed, readyClosed, closecClosed, dc, proxy, reader, crashed>>

IceState == {"checking", "connected", "disconnected", "closed"}

Init ==
    /\ ice = "checking"
    /\ connects = 0
    /\ iceEvents = <<>>
    /\ mu = "free"
    /\ pending = 0
    /\ inSend = FALSE
    /\ queued = 0
    /\ sent = 0
    /\ candClosed = FALSE
    /\ readyClosed = FALSE
    /\ closecClosed = FALSE
    /\ dc = "connecting"
    /\ proxy = "none"
    /\ reader = "reading"
    /\ crashed = "none"

-----------------------------------------------------------------------------
(* The pion library: ICE transitions, candidate gathering.                 *)

IceConnect ==
    /\ ice \in {"checking", "disconnected"}
    /\ connects < MaxConnects
    /\ ice' = "connected"
    /\ connects' = connects + 1
    /\ iceEvents' = Append(iceEvents, "connected")
    /\ UNCHANGED <<mu, pending, inSend, queued, sent, candClosed, readyClosed,
                   closecClosed, dc, proxy, reader, crashed>>

IceDisconnect ==
    /\ ice = "connected"
    /\ ice' = "disconnected"
    /\ iceEvents' = Append(iceEvents, "disconnected")
    /\ UNCHANGED <<connects, mu, pending, inSend, queued, sent, candClosed,
                   readyClosed, closecClosed, dc, proxy, reader, crashed>>

\* The gatherer reports a local candidate (trickle ICE keeps gathering
\* after the connection is up).
Gather ==
    /\ ice # "closed"
    /\ pending + sent + (IF inSend THEN 1 ELSE 0) < MaxCandidates
    /\ pending' = pending + 1
    /\ UNCHANGED <<ice, connects, iceEvents, mu, inSend, queued, sent,
                   candClosed, readyClosed, closecClosed, dc, proxy, reader,
                   crashed>>

-----------------------------------------------------------------------------
(* OnICECandidate.                                                         *)

\* mu.Lock and the select: with readyc closed the callback returns still
\* holding mu; with closec closed, or neither, it goes on to the send.
CandLock ==
    /\ pending > 0 /\ mu = "free"
    /\ mu' = "cand"
    /\ pending' = pending - 1
    /\ inSend' = ~readyClosed
    /\ UNCHANGED <<ice, connects, iceEvents, queued, sent, candClosed,
                   readyClosed, closecClosed, dc, proxy, reader, crashed>>

\* pc.candidatec <- candidate, then mu.Unlock; blocks while the buffer is
\* full, panics once the channel is closed.
CandSend ==
    /\ inSend
    /\ \/ /\ candClosed
          /\ crashed' = "sendOnClosedChannel"
          /\ UNCHANGED <<mu, inSend, queued, sent>>
       \/ /\ ~candClosed /\ queued < CandCap
          /\ queued' = queued + 1 /\ sent' = sent + 1
          /\ inSend' = FALSE /\ mu' = "free"
          /\ UNCHANGED crashed
    /\ UNCHANGED <<ice, connects, iceEvents, pending, candClosed, readyClosed,
                   closecClosed, dc, proxy, reader>>

-----------------------------------------------------------------------------
(* OnICEConnectionStateChange: mu.Lock, body, deferred mu.Unlock.          *)

\* Mutant: the state callback does not take mu.
StateHandlerUnlocked ==
    /\ iceEvents # <<>>
    /\ iceEvents' = Tail(iceEvents)
    /\ IF Head(iceEvents) = "connected"
       THEN \/ UNCHANGED <<readyClosed, crashed>>
            \/ /\ readyClosed /\ crashed' = "closeOfClosedChannel"
               /\ UNCHANGED readyClosed
            \/ /\ ~readyClosed /\ readyClosed' = TRUE
               /\ UNCHANGED crashed
       ELSE UNCHANGED <<readyClosed, crashed>>
    /\ UNCHANGED <<ice, connects, mu, pending, inSend, queued, sent, candClosed,
                   closecClosed, dc, proxy, reader>>

StateHandler ==
    /\ iceEvents # <<>> /\ mu = "free"
    /\ iceEvents' = Tail(iceEvents)
    /\ IF Head(iceEvents) = "connected"
       THEN \/ UNCHANGED <<readyClosed, crashed>>    \* candidate pair error
            \/ /\ readyClosed /\ crashed' = "closeOfClosedChannel"
               /\ UNCHANGED readyClosed
            \/ /\ ~readyClosed /\ readyClosed' = TRUE
               /\ UNCHANGED crashed
       ELSE UNCHANGED <<readyClosed, crashed>>
    /\ UNCHANGED <<ice, connects, mu, pending, inSend, queued, sent, candClosed,
                   closecClosed, dc, proxy, reader>>

-----------------------------------------------------------------------------
(* The data channel's OnOpen and OnClose.                                  *)

\* The channel opens once the ICE transport is connected; OnOpen closes
\* candidatec without taking mu, then either fails to dial the local
\* WireGuard port (rw.Close closes the channel) or starts the copies.
DcOpen ==
    /\ dc = "connecting" /\ ice = "connected"
    /\ candClosed' = TRUE
    /\ \/ /\ proxy' = "copying" /\ dc' = "open"
          /\ UNCHANGED closecClosed
       \/ /\ proxy' = "done" /\ dc' = "closed"
          /\ closecClosed' = TRUE
    /\ UNCHANGED <<ice, connects, iceEvents, mu, pending, inSend, queued, sent,
                   readyClosed, reader, crashed>>

\* The remote side closes the channel; OnClose closes closec.
DcRemoteClose ==
    /\ dc = "open"
    /\ dc' = "closed" /\ closecClosed' = TRUE
    /\ UNCHANGED <<ice, connects, iceEvents, mu, pending, inSend, queued, sent,
                   candClosed, readyClosed, proxy, reader, crashed>>

\* A copy loop ends (EOF, closed connection or error); the deferred
\* pc.conn.Close closes the ICE transport and the data channel.
CopyEnds ==
    /\ proxy = "copying"
    /\ proxy' = "done"
    /\ ice' = "closed"
    /\ iceEvents' = Append(iceEvents, "closed")
    /\ dc' = "closed" /\ closecClosed' = TRUE
    /\ UNCHANGED <<connects, mu, pending, inSend, queued, sent, candClosed,
                   readyClosed, reader, crashed>>

-----------------------------------------------------------------------------
(* The relay of Candidates() to the remote peer: for c := range ch.        *)

Relay ==
    /\ reader = "reading"
    /\ \/ queued > 0 /\ queued' = queued - 1 /\ UNCHANGED reader
       \/ queued = 0 /\ candClosed /\ reader' = "done" /\ UNCHANGED queued
    /\ UNCHANGED <<ice, connects, iceEvents, mu, pending, inSend, sent,
                   candClosed, readyClosed, closecClosed, dc, proxy, crashed>>

RelayFails ==
    /\ reader = "reading"
    /\ reader' = "stopped"
    /\ UNCHANGED <<ice, connects, iceEvents, mu, pending, inSend, queued, sent,
                   candClosed, readyClosed, closecClosed, dc, proxy, crashed>>

-----------------------------------------------------------------------------

Next ==
    /\ crashed = "none"
    /\ \/ IceConnect \/ IceDisconnect \/ Gather
       \/ CandLock \/ CandSend \/ StateHandler
       \/ DcOpen \/ DcRemoteClose \/ CopyEnds
       \/ Relay \/ RelayFails

Spec == Init /\ [][Next]_vars

-----------------------------------------------------------------------------
(* Properties.                                                             *)

TypeOK ==
    /\ ice \in IceState
    /\ connects \in 0..MaxConnects
    /\ iceEvents \in Seq(IceState)
    /\ mu \in {"free", "cand"}
    /\ pending \in 0..MaxCandidates /\ sent \in 0..MaxCandidates
    /\ inSend \in BOOLEAN /\ (inSend => mu = "cand")
    /\ queued \in 0..CandCap /\ queued <= sent
    /\ candClosed \in BOOLEAN /\ readyClosed \in BOOLEAN /\ closecClosed \in BOOLEAN
    /\ dc \in {"connecting", "open", "closed"}
    /\ proxy \in {"none", "copying", "done"}
    /\ reader \in {"reading", "stopped", "done"}
    /\ crashed \in {"none", "sendOnClosedChannel", "closeOfClosedChannel"}

\* mu orders OnICECandidate against OnICEConnectionStateChange: once the
\* state callback has closed readyc, no candidate callback puts another
\* candidate on candidatec (the readyc check and the send are one critical
\* section, and readyc is closed only inside the other).
CandidatesBeforeReady == [][readyClosed => sent' = sent]_vars

\* The Go scheduler runs every runnable goroutine: a callback that can
\* take mu, or a send that has room, eventually proceeds.
FairSpec ==
    /\ Spec
    /\ WF_vars(CandLock) /\ WF_vars(CandSend) /\ WF_vars(StateHandler)

\* Whoever takes mu eventually releases it (or the process has died), so
\* OnICECandidate and OnICEConnectionStateChange never wait on it forever.
MutexEventuallyReleased == (mu = "cand") ~> (mu = "free" \/ crashed # "none")

\* close(readyc) never runs on an already closed readyc (a Go panic).
NoDoubleCloseReady == crashed # "closeOfClosedChannel"

\* No candidate callback sends on candidatec after OnOpen has closed it
\* (a Go panic).
NoSendOnClosedCandidates == crashed # "sendOnClosedChannel"

=============================================================================
