-------------------------- MODULE ShieldPortProofs --------------------------
(***************************************************************************)
(* The invariants of the communication port, for any number of clients,    *)
(* messages and loads of the driver.                                       *)
(***************************************************************************)
EXTENDS ShieldPort, SequenceTheorems, TLAPS

\* Taking from and adding to an inbox keep it one.
LEMMA InboxUpdate ==
    ASSUME NEW S, NEW boxes \in [Client -> Seq(S)], NEW c \in Client
    PROVE  /\ \A m \in S : [boxes EXCEPT ![c] = Append(@, m)]
                             \in [Client -> Seq(S)]
           /\ boxes[c] # <<>> => [boxes EXCEPT ![c] = Tail(@)]
                             \in [Client -> Seq(S)]
           /\ [boxes EXCEPT ![c] = <<>>] \in [Client -> Seq(S)]
<1>1. boxes[c] \in Seq(S)
  OBVIOUS
<1>2. \A m \in S : Append(boxes[c], m) \in Seq(S)
  BY <1>1
<1>3. boxes[c] # <<>> => Tail(boxes[c]) \in Seq(S)
  BY <1>1
<1>4. <<>> \in Seq(S)
  OBVIOUS
<1> QED
  BY <1>2, <1>3, <1>4

\* The operators CloseClientPort is made of have the types its steps need.
LEMMA CloserTypes ==
    ASSUME PortTypeOK, NEW k \in Closer
    PROVE  /\ AfterClose(k) \in ClosingStep
           /\ CloseClientPort(k) => closing' \in [Closer -> ClosingStep]
           /\ \A s \in ClosingStep :
                [closing EXCEPT ![k] = s] \in [Closer -> ClosingStep]
           /\ Released(k) \in [Client -> Connection]
           /\ \A connections \in [Client -> Connection],
                 c \in Client \cup {NoPort} :
                Sever(connections, c) \in [Client -> Connection]
BY PortAssumption
   DEF PortTypeOK, AfterClose, CloseClientPort, ClosingStep, Released, Sever,
       Connection

\* A closer's steps keep the types.
LEMMA CloserStepTypes ==
    ASSUME PortTypeOK, NEW k \in Closer, CloserStep(k)
    PROVE  PortTypeOK'
<1>1. CASE FltCloseClientPort(k)
  <2>1. Released(k) \in [Client -> Connection]
    BY CloserTypes
  <2>2. Sever(Released(k), gClientPort) \in [Client -> Connection]
    BY <2>1, CloserTypes DEF PortTypeOK
  <2>3. closing' \in [Closer -> ClosingStep]
    BY <1>1, CloserTypes DEF FltCloseClientPort, ClosingStep
  <2> QED
    BY <1>1, <2>2, <2>3 DEF PortTypeOK, FltCloseClientPort
<1>2. CASE MarkClientPortClosed(k)
  BY <1>2 DEF PortTypeOK, MarkClientPortClosed, ClosingStep, PORT_STATE
<1>3. CASE ClearClientPort(k)
  BY <1>3, CloserTypes DEF PortTypeOK, ClearClientPort
<1> QED
  BY <1>1, <1>2, <1>3 DEF CloserStep

\* Every step of the port, whoever takes it, keeps the types.
LEMMA PortStepTypes ==
    ASSUME PortTypeOK, [PortNext]_portVars
    PROVE  PortTypeOK'
<1> USE DEF PORT_STATE
<1>1. CASE DriverEntry
  BY <1>1, PortAssumption DEF PortTypeOK, DriverEntry
<1>2. CASE DfUnload
  <2>1. Driver \in Closer
    BY DEF Closer
  <2>2. CASE gServerPortState = "Initialized"
    <3>1. closing' \in [Closer -> ClosingStep]
      BY <1>2, <2>1, <2>2, CloserTypes DEF DfUnload
    <3> QED
      BY <1>2, <3>1 DEF PortTypeOK, DfUnload
  <2> QED
    BY <1>2, <2>2 DEF PortTypeOK, DfUnload
<1>3. CASE FltCloseCommunicationPort
  BY <1>3, CloserTypes
     DEF PortTypeOK, FltCloseCommunicationPort, ClosingStep, Closer
<1>4. CASE FltUnregisterFilter
  BY <1>4 DEF PortTypeOK, FltUnregisterFilter, Connection
<1>5. ASSUME NEW k \in Closer, CloserStep(k)
      PROVE  PortTypeOK'
  BY <1>5, CloserStepTypes
<1>7. ASSUME NEW c \in Client, ShieldDisconnect(c)
      PROVE  PortTypeOK'
  <2>1. c \in Closer
    BY DEF Closer
  <2>2. /\ Released(c) \in [Client -> Connection]
        /\ closing' \in [Closer -> ClosingStep]
    BY <1>7, <2>1, CloserTypes DEF ShieldDisconnect
  <2> QED
    BY <1>7, <2>2 DEF PortTypeOK, ShieldDisconnect
<1>8. ASSUME NEW c \in Client, ShieldConnect(c)
      PROVE  PortTypeOK'
  BY <1>8 DEF PortTypeOK, ShieldConnect, Connection
<1>9. ASSUME NEW c \in Client, ClientHangup(c)
      PROVE  PortTypeOK'
  <2>1. reads' \in [Client -> 0 .. MaxReads]
    BY <1>9, PortAssumption DEF PortTypeOK, ClientHangup
  <2> QED
    BY <1>9, <2>1, InboxUpdate DEF PortTypeOK, ClientHangup, Connection
<1>10. ASSUME NEW c \in Client,
              FilterGetMessage(c) \/ GetQueuedCompletionStatus(c)
       PROVE  PortTypeOK'
  <2>1. CASE FilterGetMessage(c)
    <3>1. inbox[c] \in Seq(Message) /\ Len(inbox[c]) \in Nat
      BY DEF PortTypeOK
    <3>2. reads' \in [Client -> 0 .. MaxReads]
      BY <2>1, <3>1, PortAssumption DEF PortTypeOK, FilterGetMessage
    <3> QED
      BY <2>1, <3>2 DEF PortTypeOK, FilterGetMessage
  <2>2. CASE GetQueuedCompletionStatus(c)
    BY <2>2, InboxUpdate DEF PortTypeOK, GetQueuedCompletionStatus
  <2> QED
    BY <1>10, <2>1, <2>2
<1>11. ASSUME NEW m \in Message, SendMessageToClient(m)
       PROVE  PortTypeOK'
  <2>1. CASE /\ CanDeliver
             /\ reads' = [reads EXCEPT ![gClientPort] = @ - 1]
             /\ inbox' = [inbox EXCEPT ![gClientPort] = Append(@, m)]
    <3>1. gClientPort \in Client
      BY <2>1 DEF PortTypeOK, CanDeliver
    <3>2. inbox' \in [Client -> Seq(Message)]
      BY <2>1, <3>1, InboxUpdate DEF PortTypeOK
    <3>3. reads' \in [Client -> 0 .. MaxReads]
      BY <2>1, <3>1, PortAssumption DEF PortTypeOK, CanDeliver
    <3> QED
      BY <1>11, <3>2, <3>3 DEF PortTypeOK, SendMessageToClient
  <2> QED
    BY <1>11, <2>1 DEF PortTypeOK, SendMessageToClient
<1>12. ASSUME NEW c \in Client, MarkClientPortConnected(c)
       PROVE  PortTypeOK'
  BY <1>12 DEF PortTypeOK, MarkClientPortConnected
<1>13. CASE UNCHANGED portVars
  BY <1>13 DEF PortTypeOK, portVars
<1> QED
  <2>1. CASE DriverStep
    BY <2>1, <1>1, <1>2, <1>3, <1>5, <1>7, <1>12 DEF DriverStep
  <2>2. CASE PortNext
    BY <2>1, <2>2, <1>4, <1>8, <1>9, <1>10, <1>11 DEF PortNext, ClientPortStep
  <2> QED
    BY <2>2, <1>13

\* The port's variables keep their types.
THEOREM PortTypeCorrect == PortSpec => []PortTypeOK
<1>1. PortInit => PortTypeOK
  BY PortAssumption
     DEF PortInit, PortTypeOK, PORT_STATE, ClosingStep, Connection
<1>2. PortTypeOK /\ [PortNext]_portVars => PortTypeOK'
  BY PortStepTypes
<1> QED
  BY <1>1, <1>2, PTL DEF PortSpec

-----------------------------------------------------------------------------
\* Only ShieldConnect tracks a port; what else changes a connection is a
\* client that hangs up, and its port stays one the driver has yet to close.
LEMMA PortStepIsOpen ==
    ASSUME PortTypeOK, PortIsOpen, [PortNext]_portVars
    PROVE  PortIsOpen'
<1>1. ASSUME gClientPort' = NoPort
      PROVE  PortIsOpen'
  BY <1>1 DEF PortIsOpen
<1>2. ASSUME UNCHANGED <<gClientPort, conn>>
      PROVE  PortIsOpen'
  BY <1>2 DEF PortIsOpen
<1>3. CASE DriverEntry
  BY <1>2, <1>3 DEF DriverEntry
<1>4. CASE DfUnload
  BY <1>2, <1>4 DEF DfUnload
<1>5. CASE FltCloseCommunicationPort
  BY <1>2, <1>5 DEF FltCloseCommunicationPort
<1>6. CASE FltUnregisterFilter
  BY <1>1, <1>6 DEF FltUnregisterFilter
<1>7. ASSUME NEW k \in Closer, FltCloseClientPort(k) \/ ClearClientPort(k)
      PROVE  PortIsOpen'
  BY <1>1, <1>7 DEF FltCloseClientPort, ClearClientPort
<1>8. ASSUME NEW k \in Closer, MarkClientPortClosed(k)
      PROVE  PortIsOpen'
  BY <1>2, <1>8 DEF MarkClientPortClosed
<1>9. ASSUME NEW c \in Client, ShieldDisconnect(c)
      PROVE  PortIsOpen'
  <2>1. CASE gClientPort = NoPort
    BY <1>1, <1>9, <2>1 DEF ShieldDisconnect
  <2>2. CASE gClientPort # NoPort
    BY <1>2, <1>9, <2>2 DEF ShieldDisconnect
  <2> QED
    BY <2>1, <2>2
<1>10. ASSUME NEW c \in Client, ShieldConnect(c)
       PROVE  PortIsOpen'
  BY <1>10, PortAssumption DEF PortTypeOK, PortIsOpen, ShieldConnect
<1>11. ASSUME NEW c \in Client, ClientHangup(c)
       PROVE  PortIsOpen'
  BY <1>11, PortAssumption DEF PortTypeOK, PortIsOpen, ClientHangup
<1>12. ASSUME NEW c \in Client,
              FilterGetMessage(c) \/ GetQueuedCompletionStatus(c)
       PROVE  PortIsOpen'
  BY <1>2, <1>12 DEF FilterGetMessage, GetQueuedCompletionStatus
<1>13. ASSUME NEW m \in Message, SendMessageToClient(m)
       PROVE  PortIsOpen'
  BY <1>2, <1>13 DEF SendMessageToClient
<1>14. ASSUME NEW c \in Client, MarkClientPortConnected(c)
       PROVE  PortIsOpen'
  BY <1>14 DEF MarkClientPortConnected, PortIsOpen
<1>15. CASE UNCHANGED portVars
  BY <1>2, <1>15 DEF portVars
<1>16. CASE DriverStep
  BY <1>3, <1>4, <1>5, <1>7, <1>8, <1>9, <1>14, <1>16 DEF DriverStep, CloserStep
<1>17. CASE PortNext
  BY <1>6, <1>10, <1>11, <1>12, <1>13, <1>16, <1>17 DEF PortNext, ClientPortStep
<1> QED
  BY <1>15, <1>17

\* gClientPort never dangles.
THEOREM PortNeverDangles == PortSpec => []PortIsOpen
<1>1. PortInit => PortIsOpen
  BY DEF PortInit, PortIsOpen
<1> QED
  BY <1>1, PortTypeCorrect, PortStepIsOpen, PTL DEF PortSpec

-----------------------------------------------------------------------------
\* The closer that makes a tracked client invisible goes on to untrack it; no
\* other closer, and no step before that one's, gets in the way.
LEMMA PortStepIsVisible ==
    ASSUME PortTypeOK, TrackedClientIsVisible, [PortNext]_portVars
    PROVE  TrackedClientIsVisible'
<1>1. ASSUME gClientPort' = NoPort
      PROVE  TrackedClientIsVisible'
  BY <1>1 DEF TrackedClientIsVisible
<1>2. ASSUME UNCHANGED <<gClientPort, gClientPortState, connecting,
                         closing>>
      PROVE  TrackedClientIsVisible'
  BY <1>2 DEF TrackedClientIsVisible
<1>3. CASE DriverEntry
  BY <1>2, <1>3 DEF DriverEntry
<1>4. CASE DfUnload
  <2>1. CASE gServerPortState = "Initialized"
    BY <1>4, <2>1 DEF DfUnload, CloseClientPort, PortTypeOK,
                      TrackedClientIsVisible
  <2>2. CASE gServerPortState # "Initialized"
    BY <1>2, <1>4, <2>2 DEF DfUnload
  <2> QED
    BY <2>1, <2>2
<1>5. CASE FltCloseCommunicationPort
  BY <1>5 DEF FltCloseCommunicationPort, PortTypeOK, TrackedClientIsVisible
<1>6. CASE FltUnregisterFilter
  BY <1>1, <1>6 DEF FltUnregisterFilter
<1>7. ASSUME NEW k \in Closer, MarkClientPortClosed(k)
      PROVE  TrackedClientIsVisible'
  BY <1>7 DEF MarkClientPortClosed, PortTypeOK, TrackedClientIsVisible
<1>8. ASSUME NEW k \in Closer, FltCloseClientPort(k) \/ ClearClientPort(k)
      PROVE  TrackedClientIsVisible'
  BY <1>1, <1>8 DEF FltCloseClientPort, ClearClientPort
<1>9. ASSUME NEW c \in Client, ShieldDisconnect(c)
      PROVE  TrackedClientIsVisible'
  BY <1>9 DEF ShieldDisconnect, CloseClientPort, PortTypeOK,
              TrackedClientIsVisible
<1>10. ASSUME NEW c \in Client, ShieldConnect(c)
       PROVE  TrackedClientIsVisible'
  BY <1>10 DEF ShieldConnect, TrackedClientIsVisible
<1>11. ASSUME NEW c \in Client, ClientHangup(c)
       PROVE  TrackedClientIsVisible'
  BY <1>2, <1>11 DEF ClientHangup
<1>12. ASSUME NEW c \in Client,
              FilterGetMessage(c) \/ GetQueuedCompletionStatus(c)
       PROVE  TrackedClientIsVisible'
  BY <1>2, <1>12 DEF FilterGetMessage, GetQueuedCompletionStatus
<1>13. ASSUME NEW m \in Message, SendMessageToClient(m)
       PROVE  TrackedClientIsVisible'
  BY <1>2, <1>13 DEF SendMessageToClient
<1>14. ASSUME NEW c \in Client, MarkClientPortConnected(c)
       PROVE  TrackedClientIsVisible'
  BY <1>14 DEF MarkClientPortConnected, TrackedClientIsVisible
<1>15. CASE UNCHANGED portVars
  BY <1>2, <1>15 DEF portVars
<1>16. CASE DriverStep
  BY <1>3, <1>4, <1>5, <1>7, <1>8, <1>9, <1>14, <1>16 DEF DriverStep, CloserStep
<1>17. CASE PortNext
  BY <1>6, <1>10, <1>11, <1>12, <1>13, <1>16, <1>17 DEF PortNext, ClientPortStep
<1> QED
  BY <1>15, <1>17

\* A client whose port is set is seen, or about to be dropped.
THEOREM TrackedClientIsSeen == PortSpec => []TrackedClientIsVisible
<1>1. PortInit => TrackedClientIsVisible
  BY DEF PortInit, TrackedClientIsVisible
<1> QED
  BY <1>1, PortTypeCorrect, PortStepIsVisible, PTL DEF PortSpec
=============================================================================
