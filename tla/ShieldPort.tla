----------------------------- MODULE ShieldPort -----------------------------
(***************************************************************************)
(* The communication port of the minifilter (communication.cpp), and as    *)
(* much of DriverEntry and DfUnload as concerns it.                        *)
(*                                                                         *)
(* The port accepts up to MAX_CLIENTS connections, but the driver keeps    *)
(* one gClientPort and one gClientPortState for all of them, written by    *)
(* callbacks that take no lock.  CloseClientPort is a test and three       *)
(* writes and ShieldConnect two writes, and they are as many steps here;   *)
(* the other handlers touch shared state once.                             *)
(***************************************************************************)
EXTENDS Naturals, FiniteSets, Sequences

CONSTANTS
    Client,         \* user processes that may connect
    Driver,         \* the thread that runs DfUnload
    NoPort,         \* gClientPort = NULL
    Message,        \* what the driver sends
    MAX_CLIENTS,    \* connections the filter manager accepts at a time
    MaxReads,       \* bound: reads of a client, outstanding and answered
    MaxLoad         \* bound: how often the driver is loaded

ASSUME PortAssumption ==
    /\ NoPort \notin Client
    /\ Driver \notin Client
    /\ MAX_CLIENTS \in Nat \ {0}
    /\ MaxReads \in Nat
    /\ MaxLoad \in Nat \ {0}

Closer == Client \cup {Driver}

VARIABLES
    driver,             \* "unloaded", "loaded" or "unloading"
    loads,              \* how often it was loaded
    gServerPortState,
    gClientPort,
    gClientPortState,
    connecting,         \* clients whose ShieldConnect is between its writes
    closing,            \* closing[k]: where k is in CloseClientPort
    conn,               \* conn[c]: the connection as the filter manager has it
    reads,              \* reads[c]: reads c has outstanding
    inbox               \* inbox[c]: messages that answered c's reads

portVars == <<driver, loads, gServerPortState, gClientPort, gClientPortState,
              connecting, closing, conn, reads, inbox>>

PORT_STATE == {"UnInitialized", "Initialized", "Connected"}

\* "close": a port was seen; "closed": FltCloseClientPort returned; "marked":
\* the state is written too; "server": DisconnectServerPort is about to close
\* the server port.
ClosingStep == {"idle", "close", "closed", "marked", "server"}

\* "open"; "severed": closed by the driver, handle still held; "hungup":
\* handle closed, the driver not called back yet.
Connection == {"none", "open", "severed", "hungup"}

PortTypeOK ==
    /\ driver \in {"unloaded", "loaded", "unloading"}
    /\ loads \in 0 .. MaxLoad
    /\ gServerPortState \in PORT_STATE
    /\ gClientPort \in Client \cup {NoPort}
    /\ gClientPortState \in PORT_STATE
    /\ closing \in [Closer -> ClosingStep]
    /\ connecting \subseteq Client
    /\ conn \in [Client -> Connection]
    /\ reads \in [Client -> 0 .. MaxReads]
    /\ inbox \in [Client -> Seq(Message)]

PortInit ==
    /\ driver = "unloaded"
    /\ loads = 0
    /\ gServerPortState = "UnInitialized"
    /\ gClientPort = NoPort
    /\ gClientPortState = "UnInitialized"
    /\ closing = [k \in Closer |-> "idle"]
    /\ connecting = {}
    /\ conn = [c \in Client |-> "none"]
    /\ reads = [c \in Client |-> 0]
    /\ inbox = [c \in Client |-> <<>>]

-----------------------------------------------------------------------------
IsUserAppConnected == gClientPortState = "Connected"

ConnectionCount == Cardinality({c \in Client : conn[c] \in {"open", "hungup"}})

\* The filter manager accepts c and calls ShieldConnect, which overwrites
\* whichever client was there ...
ShieldConnect(c) ==
    /\ gServerPortState = "Initialized"
    /\ conn[c] = "none"
    /\ ConnectionCount < MAX_CLIENTS
    /\ conn' = [conn EXCEPT ![c] = "open"]
    /\ gClientPort' = c
    /\ connecting' = connecting \cup {c}
    /\ UNCHANGED <<driver, loads, gServerPortState, gClientPortState, closing,
                   reads, inbox>>

\* ... and then writes the state.
MarkClientPortConnected(c) ==
    /\ c \in connecting
    /\ gClientPortState' = "Connected"
    /\ connecting' = connecting \ {c}
    /\ UNCHANGED <<driver, loads, gServerPortState, gClientPort, closing, conn,
                   reads, inbox>>

\* Client c closes its handle, or exits.
ClientHangup(c) ==
    /\ conn[c] \in {"open", "severed"}
    /\ c \notin connecting
    /\ \/ conn' = [conn EXCEPT ![c] = "hungup"]
       \/ conn[c] = "severed" /\ conn' = [conn EXCEPT ![c] = "none"]
    /\ reads' = [reads EXCEPT ![c] = 0]
    /\ inbox' = [inbox EXCEPT ![c] = <<>>]
    /\ UNCHANGED <<driver, loads, gServerPortState, gClientPort,
                   gClientPortState, connecting, closing>>

\* What a closer does after CloseClientPort.
AfterClose(k) == IF k = Driver THEN "server" ELSE "idle"

Sever(connections, c) ==
    IF c # NoPort /\ connections[c] = "open"
    THEN [connections EXCEPT ![c] = "severed"]
    ELSE connections

\* CloseClientPort looks whether there is a port ...
CloseClientPort(k) ==
    /\ closing[k] = "idle"
    /\ closing' = [closing EXCEPT ![k] =
                     IF gClientPort = NoPort THEN AfterClose(k) ELSE "close"]

\* The connection of a client whose disconnect callback closes a port is gone.
Released(k) == IF k \in Client THEN [conn EXCEPT ![k] = "none"] ELSE conn

\* ... FltCloseClientPort closes whichever port gClientPort is by now, if any,
\* and nulls it ...
FltCloseClientPort(k) ==
    /\ closing[k] = "close"
    /\ closing' = [closing EXCEPT ![k] = "closed"]
    /\ conn' = Sever(Released(k), gClientPort)
    /\ gClientPort' = NoPort
    /\ UNCHANGED <<driver, loads, gServerPortState, gClientPortState,
                   connecting, reads, inbox>>

\* ... and the two writes that follow.
MarkClientPortClosed(k) ==
    /\ closing[k] = "closed"
    /\ gClientPortState' = "UnInitialized"
    /\ closing' = [closing EXCEPT ![k] = "marked"]
    /\ UNCHANGED <<driver, loads, gServerPortState, gClientPort, connecting,
                   conn, reads, inbox>>

\* Mutant: the last write forgotten.
ClearClientPortForgotten(k) ==
    /\ closing[k] = "marked"
    /\ closing' = [closing EXCEPT ![k] = AfterClose(k)]
    /\ UNCHANGED <<driver, loads, gServerPortState, gClientPort,
                   gClientPortState, connecting, conn, reads, inbox>>

ClearClientPort(k) ==
    /\ closing[k] = "marked"
    /\ gClientPort' = NoPort
    /\ closing' = [closing EXCEPT ![k] = AfterClose(k)]
    /\ UNCHANGED <<driver, loads, gServerPortState, gClientPortState,
                   connecting, conn, reads, inbox>>

\* Mutant: a disconnect callback that does not close the port.
ShieldDisconnectKeepsPort(c) ==
    /\ conn[c] = "hungup"
    /\ closing[c] = "idle"
    /\ conn' = [conn EXCEPT ![c] = "none"]
    /\ UNCHANGED <<driver, loads, gServerPortState, gClientPort,
                   gClientPortState, connecting, closing, reads, inbox>>

\* The callback for the handle c closed.  It ignores the cookie that tells
\* which client that is.
ShieldDisconnect(c) ==
    /\ conn[c] = "hungup"
    /\ CloseClientPort(c)
    /\ conn' = IF gClientPort = NoPort THEN Released(c) ELSE conn
    /\ UNCHANGED <<driver, loads, gServerPortState, gClientPort,
                   gClientPortState, connecting, reads, inbox>>

-----------------------------------------------------------------------------
\* DriverEntry: a fresh image, with or without a port.  The result of
\* InitializeServerPort is logged, not checked.
DriverEntry ==
    /\ driver = "unloaded"
    /\ loads < MaxLoad
    /\ driver' = "loaded"
    /\ loads' = loads + 1
    /\ gServerPortState' \in {"Initialized", "UnInitialized"}
    /\ UNCHANGED <<gClientPort, gClientPortState, connecting, closing, conn,
                   reads, inbox>>

\* DfUnload up to CloseClientPort.  Bound: the driver is only unloaded to be
\* loaded again.
DfUnload ==
    /\ driver = "loaded"
    /\ loads < MaxLoad
    /\ driver' = "unloading"
    /\ IF gServerPortState = "Initialized"
       THEN CloseClientPort(Driver)
       ELSE UNCHANGED closing
    /\ UNCHANGED <<loads, gServerPortState, gClientPort, gClientPortState,
                   connecting, conn, reads, inbox>>

\* The rest of DisconnectServerPort: connections stay until the filter goes.
FltCloseCommunicationPort ==
    /\ closing[Driver] = "server"
    /\ closing' = [closing EXCEPT ![Driver] = "idle"]
    /\ gServerPortState' = "UnInitialized"
    /\ UNCHANGED <<driver, loads, gClientPort, gClientPortState, connecting,
                   conn, reads, inbox>>

\* The end of DfUnload.  The filter manager waits for callbacks, closes what
\* connections are left, and the image goes, with its globals.
FltUnregisterFilter ==
    /\ driver = "unloading"
    /\ connecting = {}
    /\ \A k \in Closer : closing[k] = "idle"
    /\ gServerPortState = "UnInitialized"
    /\ driver' = "unloaded"
    /\ gClientPort' = NoPort
    /\ gClientPortState' = "UnInitialized"
    /\ conn' = [c \in Client |-> CASE conn[c] = "open"   -> "severed"
                                   [] conn[c] = "hungup" -> "none"
                                   [] OTHER              -> conn[c]]
    /\ UNCHANGED <<loads, gServerPortState, connecting, closing, reads, inbox>>

-----------------------------------------------------------------------------
CanDeliver ==
    /\ IsUserAppConnected
    /\ gClientPort # NoPort
    /\ conn[gClientPort] = "open"
    /\ reads[gClientPort] > 0

\* Its timeout, +1000, is a time long past: a client without a read
\* outstanding is not waited for, and STATUS_TIMEOUT counts as success.
SendMessageToClient(m) ==
    /\ \/ /\ CanDeliver
          /\ reads' = [reads EXCEPT ![gClientPort] = @ - 1]
          /\ inbox' = [inbox EXCEPT ![gClientPort] = Append(@, m)]
       \/ UNCHANGED <<reads, inbox>>
    /\ UNCHANGED <<driver, loads, gServerPortState, gClientPort,
                   gClientPortState, connecting, closing, conn>>

\* Client c posts another read; those it has posted stay outstanding.
FilterGetMessage(c) ==
    /\ conn[c] = "open"
    /\ c \notin connecting
    /\ reads' = IF reads[c] + Len(inbox[c]) < MaxReads
                THEN [reads EXCEPT ![c] = @ + 1]
                ELSE reads
    /\ UNCHANGED <<driver, loads, gServerPortState, gClientPort,
                   gClientPortState, connecting, closing, conn, inbox>>

\* Client c takes the answer to its oldest read.
GetQueuedCompletionStatus(c) ==
    /\ inbox[c] # <<>>
    /\ inbox' = [inbox EXCEPT ![c] = Tail(@)]
    /\ UNCHANGED <<driver, loads, gServerPortState, gClientPort,
                   gClientPortState, connecting, closing, conn, reads>>

CloserStep(k) ==
    FltCloseClientPort(k) \/ MarkClientPortClosed(k) \/ ClearClientPort(k)

\* Steps that are neither a client's nor a filtered request's.
DriverStep ==
    \/ DriverEntry
    \/ DfUnload
    \/ FltCloseCommunicationPort
    \/ \E k \in Closer : CloserStep(k)
    \/ \E c \in Client : MarkClientPortConnected(c) \/ ShieldDisconnect(c)

\* What a process that connects to the port does.
ClientPortStep(c) ==
    \/ ShieldConnect(c)
    \/ ClientHangup(c)
    \/ FilterGetMessage(c)
    \/ GetQueuedCompletionStatus(c)

PortNext ==
    \/ DriverStep
    \/ FltUnregisterFilter
    \/ \E c \in Client : ClientPortStep(c)
    \/ \E m \in Message : SendMessageToClient(m)

PortSpec == PortInit /\ [][PortNext]_portVars

-----------------------------------------------------------------------------
\* gClientPort, when set, is the port of a connection the filter manager still
\* has: a callback never leaves it dangling, whichever client hung up
\* (communication.cpp:140, 162).
PortIsOpen == gClientPort # NoPort => conn[gClientPort] \in {"open", "hungup"}

\* A client whose port is set but who is not seen as connected is about to be
\* seen, or to lose its port too: between callbacks the two globals never
\* disagree that way round (communication.cpp:140-145, 162-165).
TrackedClientIsVisible ==
    gClientPort # NoPort /\ gClientPortState # "Connected" =>
        gClientPort \in connecting \/ \E k \in Closer : closing[k] = "marked"

\* No callback and no unload is in progress.
Quiescent ==
    /\ driver = "loaded"
    /\ connecting = {}
    /\ \A k \in Closer : closing[k] = "idle"

\* "Return true if a client is connected" (communication.cpp:16).
ConnectedClientIsSeen ==
    Quiescent /\ (\E c \in Client : conn[c] = "open") => IsUserAppConnected
=============================================================================
