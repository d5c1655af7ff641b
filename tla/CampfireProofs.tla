--------------------------- MODULE CampfireProofs ---------------------------
(***************************************************************************)
(* Proofs about Campfire (campfire.New) for every MaxIceChanges.           *)
(***************************************************************************)
EXTENDS Campfire, SequenceTheorems, TLAPS

USE IceBound

\* Until FindCampFire and NewPeerConnection have run there is no connection.
NoConnBeforeFind == ctor = "find" => conn = "none"

\* The inductive invariant behind ErrorReturnClosesConn.
CloseInv == TypeOK /\ NoConnBeforeFind /\ ErrorReturnClosesConn

-----------------------------------------------------------------------------

\* campfire.New and its callbacks keep every variable in its type:
\* errc never holds more than its one buffered error and the ICE
\* notifications are states of the agent.
LEMMA InitTypeOK == Init => TypeOK
BY DEF Init, TypeOK, IceState, ErrCap

LEMMA NextTypeOK == TypeOK /\ [Next]_vars => TypeOK'
<1> SUFFICES ASSUME TypeOK, [Next]_vars PROVE TypeOK'
  OBVIOUS
<1>1. CASE Find
  BY <1>1 DEF Find, TypeOK
<1>2. CASE CreateChannel
  BY <1>2 DEF CreateChannel, CloseAll, TypeOK, IceState
<1>3. CASE Describe
  BY <1>3 DEF Describe, CloseAll, TypeOK, IceState
<1>4. CASE IceChange
  <2>1. PICK m \in IceMoves : m[1] = ice /\ ice' = m[2]
                              /\ iceEvents' = Append(iceEvents, m[2])
    BY <1>4 DEF IceChange
  <2>2. m[2] \in IceState
    BY DEF IceMoves, IceState
  <2>3. iceEvents' \in Seq(IceState)
    BY <2>1, <2>2, AppendProperties DEF TypeOK
  <2>4. QED
    BY <1>4, <2>1, <2>2, <2>3 DEF IceChange, TypeOK
<1>5. CASE StateHandler
  <2>1. iceEvents' \in Seq(IceState) /\ Head(iceEvents) \in IceState
    BY <1>5, HeadTailProperties DEF StateHandler, TypeOK
  <2>2. QED
    BY <1>5, <2>1 DEF StateHandler, CloseAll, TypeOK, IceState
<1>6. CASE DcOpen
  BY <1>6 DEF DcOpen, TypeOK, ErrCap
<1>7. CASE DcReady
  BY <1>7 DEF DcReady, TypeOK
<1>8. CASE UserClose
  BY <1>8 DEF UserClose, CloseAll, TypeOK, IceState
<1>9. CASE AwaitResult
  BY <1>9 DEF AwaitResult, TypeOK, ErrCap
<1>10. CASE UNCHANGED vars
  BY <1>10 DEF vars, TypeOK
<1>11. QED
  BY <1>1, <1>2, <1>3, <1>4, <1>5, <1>6, <1>7, <1>8, <1>9, <1>10 DEF Next

\* Type correctness of the campfire model.
THEOREM CampfireTypeCorrect == Spec => []TypeOK
BY InitTypeOK, NextTypeOK, PTL DEF Spec

-----------------------------------------------------------------------------

\* Every error return of New leaves the peer connection closed (or never
\* opened): each error branch after NewPeerConnection runs the deferred
\* PeerConnection.Close, and nothing reopens a connection.
LEMMA InitCloseInv == Init => CloseInv
BY InitTypeOK DEF Init, CloseInv, NoConnBeforeFind, ErrorReturnClosesConn

LEMMA NextCloseInv == CloseInv /\ [Next]_vars => CloseInv'
<1> SUFFICES ASSUME CloseInv, [Next]_vars PROVE CloseInv'
  OBVIOUS
<1>1. TypeOK'
  BY NextTypeOK DEF CloseInv
<1>2. NoConnBeforeFind'
  <2>1. CASE Find
    BY <2>1 DEF Find, NoConnBeforeFind
  <2>2. CASE CreateChannel \/ Describe \/ UserClose
    BY <2>2 DEF CreateChannel, Describe, UserClose, NoConnBeforeFind
  <2>3. CASE StateHandler
    BY <2>3 DEF StateHandler, CloseAll, CloseInv, NoConnBeforeFind
  <2>4. CASE IceChange \/ DcOpen \/ DcReady \/ AwaitResult \/ UNCHANGED vars
    BY <2>4 DEF IceChange, DcOpen, DcReady, AwaitResult, vars, CloseInv,
                NoConnBeforeFind
  <2>5. QED
    BY <2>1, <2>2, <2>3, <2>4 DEF Next
<1>3. ErrorReturnClosesConn'
  <2>1. CASE Find
    BY <2>1 DEF Find, CloseInv, NoConnBeforeFind, ErrorReturnClosesConn
  <2>2. CASE CreateChannel
    BY <2>2 DEF CreateChannel, CloseAll, CloseInv, TypeOK, ErrorReturnClosesConn
  <2>3. CASE Describe
    BY <2>3 DEF Describe, CloseAll, CloseInv, TypeOK, ErrorReturnClosesConn
  <2>4. CASE StateHandler
    BY <2>4 DEF StateHandler, CloseAll, CloseInv, ErrorReturnClosesConn
  <2>5. CASE UserClose
    BY <2>5 DEF UserClose, CloseAll, CloseInv, ErrorReturnClosesConn
  <2>6. CASE IceChange \/ DcOpen \/ DcReady \/ AwaitResult \/ UNCHANGED vars
    BY <2>6 DEF IceChange, DcOpen, DcReady, AwaitResult, vars, CloseInv,
                ErrorReturnClosesConn
  <2>7. QED
    BY <2>1, <2>2, <2>3, <2>4, <2>5, <2>6 DEF Next
<1>4. QED
  BY <1>1, <1>2, <1>3 DEF CloseInv

\* campfire.New never returns an error with its peer connection still open.
THEOREM ErrorReturnsClose == Spec => []ErrorReturnClosesConn
<1>1. Init => CloseInv
  BY InitCloseInv
<1>2. CloseInv /\ [Next]_vars => CloseInv'
  BY NextCloseInv
<1>3. CloseInv => ErrorReturnClosesConn
  BY DEF CloseInv
<1>4. QED
  BY <1>1, <1>2, <1>3, PTL DEF Spec

-----------------------------------------------------------------------------
(* Refinement of CampfireSession.                                          *)

\* While New is between NewPeerConnection and its return the connection is
\* open: only the state callback and Close can close it, and both act on
\* a returned session.
SetupConnOpen == ctor \in {"channel", "describe"} => conn = "open"

\* ICE notifications exist only once New has returned (both descriptions set).
EventsAfterReturn == iceEvents # <<>> => ctor = "ok"

SessionInv == TypeOK /\ NoConnBeforeFind /\ SetupConnOpen /\ EventsAfterReturn

LEMMA InitSessionInv == Init => SessionInv
BY InitTypeOK DEF Init, SessionInv, NoConnBeforeFind, SetupConnOpen,
                  EventsAfterReturn

LEMMA NextSessionInv == SessionInv /\ [Next]_vars => SessionInv'
<1> SUFFICES ASSUME SessionInv, [Next]_vars PROVE SessionInv'
  OBVIOUS
<1>1. TypeOK'
  BY NextTypeOK DEF SessionInv
<1>2. CASE Find
  BY <1>1, <1>2 DEF Find, SessionInv, NoConnBeforeFind, SetupConnOpen,
              EventsAfterReturn
<1>3. CASE CreateChannel
  BY <1>1, <1>3 DEF CreateChannel, CloseAll, SessionInv, NoConnBeforeFind,
              SetupConnOpen, EventsAfterReturn
<1>4. CASE Describe
  BY <1>1, <1>4 DEF Describe, CloseAll, SessionInv, NoConnBeforeFind,
              SetupConnOpen, EventsAfterReturn
<1>5. CASE IceChange
  BY <1>1, <1>5 DEF IceChange, SessionInv, NoConnBeforeFind, SetupConnOpen,
              EventsAfterReturn
<1>6. CASE StateHandler
  BY <1>1, <1>6 DEF StateHandler, CloseAll, SessionInv, NoConnBeforeFind,
              SetupConnOpen, EventsAfterReturn
<1>7. CASE UserClose
  BY <1>1, <1>7 DEF UserClose, CloseAll, SessionInv, NoConnBeforeFind,
              SetupConnOpen, EventsAfterReturn
<1>8. CASE DcOpen \/ DcReady \/ AwaitResult \/ UNCHANGED vars
  BY <1>1, <1>8 DEF DcOpen, DcReady, AwaitResult, vars, SessionInv,
              NoConnBeforeFind, SetupConnOpen, EventsAfterReturn
<1>9. QED
  BY <1>1, <1>2, <1>3, <1>4, <1>5, <1>6, <1>7, <1>8 DEF Next, SessionInv

\* Each step of New, of its callbacks and of Close is a step of
\* CampfireSession under the mapping, or leaves the mapped state alone.
LEMMA StepRefines ==
  SessionInv /\ [Next]_vars => [Session!Next]_Session!vars
<1> SUFFICES ASSUME SessionInv, [Next]_vars
             PROVE  [Session!Next]_Session!vars
  OBVIOUS
<1> USE DEF SessionResult, Session!vars, Session!Next
<1>1. CASE Find
  BY <1>1 DEF Find, SessionInv, NoConnBeforeFind, Session!Connect,
              Session!Fail
<1>2. CASE CreateChannel
  BY <1>2 DEF CreateChannel, CloseAll, SessionInv, SetupConnOpen,
              Session!Fail
<1>3. CASE Describe
  BY <1>3 DEF Describe, CloseAll, SessionInv, SetupConnOpen,
              Session!Fail, Session!Establish
<1>4. CASE StateHandler
  BY <1>4 DEF StateHandler, CloseAll, SessionInv, EventsAfterReturn,
              Session!Teardown
<1>5. CASE UserClose
  BY <1>5 DEF UserClose, CloseAll, Session!Teardown
<1>6. CASE IceChange \/ DcOpen \/ DcReady \/ AwaitResult \/ UNCHANGED vars
  BY <1>6 DEF IceChange, DcOpen, DcReady, AwaitResult, vars
<1>7. QED
  BY <1>1, <1>2, <1>3, <1>4, <1>5, <1>6 DEF Next

\* campfire.New with its callbacks and Close implements the session
\* contract of spec 4.7 for every MaxIceChanges.
THEOREM CampfireRefinesSession == Spec => ImplementsSession
<1>1. Init => Session!Init
  BY DEF Init, Session!Init, SessionResult
<1>2. SessionInv /\ [Next]_vars => [Session!Next]_Session!vars
  BY StepRefines
<1>3. QED
  BY <1>1, <1>2, InitSessionInv, NextSessionInv, PTL
     DEF Spec, ImplementsSession, Session!Spec

=============================================================================
