------------------------- MODULE WGProxyClientProofs -------------------------
(***************************************************************************)
(* Proofs about WGProxyClient (NewWireGuardProxyClient) for every buffer   *)
(* capacity and bound that satisfy ClientBounds.                           *)
(***************************************************************************)
EXTENDS WGProxyClient, SequenceTheorems, TLAPS

USE ClientBounds DEF ClientBounds

\* The candidate callbacks' counters are natural numbers.
CountersNat == checking \in Nat /\ sending \in Nat /\ sentOK \in Nat

\* Before SetLocalDescription nothing of ICE has happened: no
\* notification, no connection, readyc still open, no data channel.
QuietBeforeIce ==
    ctor \in {"negotiate", "build", "describe"} =>
       /\ ~iceOn /\ ice = "checking" /\ iceEvents = <<>>
       /\ ~readyClosed /\ dc = "connecting"

\* The state callback half-closes the stream before it closes readyc, and
\* nothing reopens the stream once ICE runs.
ReadyAfterCloseSend == readyClosed => neg # "open"

\* The inductive invariant of the client proxy.
ClientInv == TypeOK /\ CountersNat /\ QuietBeforeIce /\ ReadyAfterCloseSend

-----------------------------------------------------------------------------

LEMMA InitClientInv == Init => ClientInv
<1> SUFFICES ASSUME Init PROVE ClientInv
  OBVIOUS
<1>1. iceEvents \in Seq(IceState)
  BY EmptySeq DEF Init
<1>2. ctor \in Ctor /\ ice \in IceState
  BY DEF Init, Ctor, IceState
<1>3. /\ neg \in {"none", "open", "closed"}
      /\ conn \in {"none", "open", "closed"} /\ udp \in {"none", "open", "closed"}
      /\ iceOn \in BOOLEAN /\ recvLoop \in {"none", "running", "done"}
  BY DEF Init
<1>7. /\ connects = 0 /\ gathered = 0 /\ checking = 0 /\ sending = 0
      /\ sentOK = 0 /\ remote = 0 /\ errs = 0
  BY DEF Init
<1>8. /\ connects \in 0..MaxConnects
      /\ gathered \in 0..MaxCandidates /\ checking + sending + sentOK <= gathered
      /\ remote \in 0..MaxRemote /\ errs \in 0..ErrCap
  BY <1>7
<1>4. /\ readyClosed \in BOOLEAN /\ closecClosed \in BOOLEAN
      /\ dc \in {"connecting", "open", "copying", "closed"}
      /\ crashed \in {"none", "closeOfClosedChannel"}
  BY DEF Init
<1>5. TypeOK
  BY <1>1, <1>2, <1>3, <1>4, <1>8 DEF TypeOK
<1>6. QED
  BY <1>5, <1>7 DEF Init, ClientInv, CountersNat, QuietBeforeIce, ReadyAfterCloseSend

\* errs <- err keeps errs within its capacity.
LEMMA PushErrBound == errs \in 0..ErrCap => PushErr \in 0..ErrCap
BY DEF PushErr

LEMMA NextClientInv == ClientInv /\ [Next]_vars => ClientInv'
<1> SUFFICES ASSUME ClientInv, [Next]_vars PROVE ClientInv'
  OBVIOUS
<1> USE DEF ClientInv, TypeOK, CountersNat, QuietBeforeIce,
            ReadyAfterCloseSend, Ctor, IceState
<1>1. CASE Negotiate
  BY <1>1 DEF Negotiate
<1>2. CASE Build
  BY <1>2 DEF Build
<1>3. CASE Describe
  BY <1>3 DEF Describe, CloseNeg
<1>4. CASE Answer
  BY <1>4 DEF Answer
<1>5. CASE Wait
  BY <1>5 DEF Wait
<1>6. CASE IceConnect
  <2>1. iceEvents' \in Seq(IceState)
    BY <1>6, AppendProperties DEF IceConnect
  <2>2. QED
    BY <1>6, <2>1 DEF IceConnect
<1>7. CASE IceDisconnect
  <2>1. iceEvents' \in Seq(IceState)
    BY <1>7, AppendProperties DEF IceDisconnect
  <2>2. QED
    BY <1>7, <2>1 DEF IceDisconnect
<1>8. CASE Gather
  BY <1>8 DEF Gather
<1>9. CASE CandCheck
  BY <1>9 DEF CandCheck
<1>10. CASE CandSend
  <2>1. PushErr \in 0..ErrCap
    BY PushErrBound
  <2>2. QED
    BY <1>10, <2>1 DEF CandSend, CloseNeg
<1>11. CASE StateHandler
  <2>1. iceEvents' \in Seq(IceState)
    BY <1>11, HeadTailProperties DEF StateHandler
  <2>2. iceEvents # <<>> /\ ctor \notin {"negotiate", "build", "describe"}
    BY <1>11 DEF StateHandler
  <2>3. CASE Head(iceEvents) = "connected" /\ readyClosed
    BY <1>11, <2>1, <2>2, <2>3 DEF StateHandler, CloseNeg
  <2>4. CASE Head(iceEvents) = "connected" /\ ~readyClosed
    BY <1>11, <2>1, <2>2, <2>4 DEF StateHandler, CloseNeg
  <2>5. CASE Head(iceEvents) # "connected"
    BY <1>11, <2>1, <2>2, <2>5 DEF StateHandler
  <2>6. QED
    BY <2>3, <2>4, <2>5
<1>12. CASE RecvCandidate
  <2>1. PushErr \in 0..ErrCap
    BY PushErrBound
  <2>2. QED
    BY <1>12, <2>1 DEF RecvCandidate
<1>13. CASE DcOpen
  BY <1>13 DEF DcOpen
<1>14. CASE CopyEnds
  <2>1. iceEvents' \in Seq(IceState)
    BY <1>14, AppendProperties DEF CopyEnds
  <2>2. QED
    BY <1>14, <2>1 DEF CopyEnds
<1>15. CASE DcRemoteClose
  BY <1>15 DEF DcRemoteClose
<1>16. CASE UserClose
  <2>1. iceEvents' \in Seq(IceState)
    BY <1>16, AppendProperties DEF UserClose
  <2>2. QED
    BY <1>16, <2>1 DEF UserClose
<1>17. CASE UNCHANGED vars
  BY <1>17 DEF vars
<1>18. QED
  BY <1>1, <1>2, <1>3, <1>4, <1>5, <1>6, <1>7, <1>8, <1>9, <1>10, <1>11,
     <1>12, <1>13, <1>14, <1>15, <1>16, <1>17 DEF Next

\* Type correctness of the client proxy: errs never holds more than its
\* capacity, and no more candidates are in flight or sent than gathered.
THEOREM ClientTypeCorrect == Spec => []TypeOK
BY InitClientInv, NextClientInv, PTL DEF Spec, ClientInv

\* A step taken once readyc is closed sends no candidate to the server:
\* the stream is half-closed by then, so neg.Send fails.
LEMMA StepSendsNothing ==
  ClientInv /\ [Next]_vars => (readyClosed => sentOK' = sentOK)
<1> SUFFICES ASSUME ClientInv, [Next]_vars, readyClosed PROVE sentOK' = sentOK
  OBVIOUS
<1>1. neg # "open"
  BY DEF ClientInv, ReadyAfterCloseSend
<1>2. QED
  BY <1>1 DEF Next, vars, Negotiate, Build, Describe, Answer, Wait,
     IceConnect, IceDisconnect, Gather, CandCheck, CandSend, StateHandler,
     RecvCandidate, DcOpen, CopyEnds, DcRemoteClose, UserClose

\* NewWireGuardProxyClient never sends a local candidate to the server
\* after readyc is closed, through every constructor failure point, for
\* every capacity of errs and every bound on candidates.
THEOREM NoCandidateAfterReadyClosed == Spec => NoCandidateAfterReady
<1>1. ClientInv /\ [Next]_vars => [readyClosed => sentOK' = sentOK]_vars
  BY StepSendsNothing
<1>2. QED
  BY InitClientInv, NextClientInv, <1>1, PTL DEF Spec, NoCandidateAfterReady

=============================================================================
