------------------------- MODULE WGProxyServerProofs -------------------------
(***************************************************************************)
(* Proofs about WGProxyServer (NewWireGuardProxyServer) for every buffer   *)
(* capacity and bound that satisfy ProxyBounds.                            *)
(***************************************************************************)
EXTENDS WGProxyServer, SequenceTheorems, TLAPS

USE ProxyBounds DEF ProxyBounds

\* Each reported candidate is waiting for mu, at the send, or sent: the
\* gatherer's bound covers all three.
CandBudget == pending + sent + (IF inSend THEN 1 ELSE 0) <= MaxCandidates

\* The holder of mu that is about to send saw readyc open, and readyc is
\* closed only by the state callback, which needs mu.
SendSawReadyOpen == inSend => ~readyClosed

\* The inductive invariant of the server proxy.
ServerInv == TypeOK /\ CandBudget /\ SendSawReadyOpen

-----------------------------------------------------------------------------

LEMMA InitServerInv == Init => ServerInv
<1> SUFFICES ASSUME Init PROVE ServerInv
  OBVIOUS
<1>1. iceEvents \in Seq(IceState)
  BY EmptySeq DEF Init
<1>2. ice \in IceState /\ connects \in 0..MaxConnects
  BY DEF Init, IceState
<1>3. pending \in 0..MaxCandidates /\ sent \in 0..MaxCandidates
      /\ queued \in 0..CandCap /\ queued <= sent
  BY DEF Init
<1>4. /\ mu \in {"free", "cand"} /\ inSend \in BOOLEAN /\ (inSend => mu = "cand")
      /\ candClosed \in BOOLEAN /\ readyClosed \in BOOLEAN
      /\ closecClosed \in BOOLEAN
  BY DEF Init
<1>5. /\ dc \in {"connecting", "open", "closed"}
      /\ proxy \in {"none", "copying", "done"}
      /\ reader \in {"reading", "stopped", "done"}
      /\ crashed \in {"none", "sendOnClosedChannel", "closeOfClosedChannel"}
  BY DEF Init
<1>6. QED
  BY <1>1, <1>2, <1>3, <1>4, <1>5 DEF Init, ServerInv, TypeOK, CandBudget,
                                      SendSawReadyOpen

LEMMA NextServerInv == ServerInv /\ [Next]_vars => ServerInv'
<1> SUFFICES ASSUME ServerInv, [Next]_vars PROVE ServerInv'
  OBVIOUS
<1> USE DEF ServerInv, TypeOK, CandBudget, SendSawReadyOpen
<1>1. CASE IceConnect
  BY <1>1, AppendProperties DEF IceConnect, IceState
<1>2. CASE IceDisconnect
  BY <1>2, AppendProperties DEF IceDisconnect, IceState
<1>3. CASE Gather
  BY <1>3 DEF Gather
<1>4. CASE CandLock
  BY <1>4 DEF CandLock
<1>5. CASE CandSend
  <2>1. inSend /\ mu = "cand"
    BY <1>5 DEF CandSend
  <2>2. CASE candClosed /\ crashed' = "sendOnClosedChannel"
             /\ UNCHANGED <<mu, inSend, queued, sent>>
    BY <1>5, <2>2 DEF CandSend
  <2>3. CASE /\ ~candClosed /\ queued < CandCap
             /\ queued' = queued + 1 /\ sent' = sent + 1
             /\ inSend' = FALSE /\ mu' = "free" /\ UNCHANGED crashed
    <3>1. sent + 1 <= MaxCandidates
      BY <2>1
    <3>2. /\ sent' \in 0..MaxCandidates /\ queued' \in 0..CandCap
          /\ queued' <= sent'
      BY <2>3, <3>1
    <3>3. /\ inSend' \in BOOLEAN /\ (inSend' => mu' = "cand")
          /\ mu' \in {"free", "cand"} /\ crashed' = crashed
      BY <2>3
    <3>4. TypeOK'
      BY <1>5, <3>2, <3>3 DEF CandSend
    <3>5. QED
      BY <1>5, <2>3, <3>1, <3>4 DEF CandSend
  <2>4. QED
    BY <1>5, <2>2, <2>3 DEF CandSend
<1>6. CASE StateHandler
  <2>1. iceEvents' \in Seq(IceState)
    BY <1>6, HeadTailProperties DEF StateHandler
  <2>2. QED
    BY <1>6, <2>1 DEF StateHandler
<1>7. CASE DcOpen
  BY <1>7 DEF DcOpen
<1>8. CASE DcRemoteClose
  BY <1>8 DEF DcRemoteClose
<1>9. CASE CopyEnds
  BY <1>9, AppendProperties DEF CopyEnds, IceState
<1>10. CASE Relay \/ RelayFails
  BY <1>10 DEF Relay, RelayFails
<1>11. CASE UNCHANGED vars
  BY <1>11 DEF vars
<1>12. QED
  BY <1>1, <1>2, <1>3, <1>4, <1>5, <1>6, <1>7, <1>8, <1>9, <1>10, <1>11
     DEF Next

\* Type correctness of the server proxy: candidatec never holds more than
\* its capacity, and never more candidates than were sent.
THEOREM ServerTypeCorrect == Spec => []TypeOK
BY InitServerInv, NextServerInv, PTL DEF Spec, ServerInv

\* No step sends a candidate once readyc is closed: the readyc check and
\* the send of OnICECandidate are one critical section under mu, and
\* OnICEConnectionStateChange closes readyc only while holding mu.
LEMMA StepKeepsSent ==
  ServerInv /\ [Next]_vars => (readyClosed => sent' = sent)
<1> SUFFICES ASSUME ServerInv, [Next]_vars, readyClosed PROVE sent' = sent
  OBVIOUS
<1>1. ~inSend
  BY DEF ServerInv, SendSawReadyOpen
<1>2. QED
  BY <1>1 DEF Next, vars, IceConnect, IceDisconnect, Gather, CandLock,
     CandSend, StateHandler, DcOpen, DcRemoteClose, CopyEnds, Relay,
     RelayFails

\* OnICECandidate never forwards a candidate after the state callback has
\* closed readyc, for every capacity of candidatec.
THEOREM NoCandidateAfterReadyClosed == Spec => CandidatesBeforeReady
<1>1. ServerInv /\ [Next]_vars => [readyClosed => sent' = sent]_vars
  BY StepKeepsSent
<1>2. QED
  BY InitServerInv, NextServerInv, <1>1, PTL DEF Spec, CandidatesBeforeReady

=============================================================================
