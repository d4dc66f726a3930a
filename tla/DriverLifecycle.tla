--------------------------- MODULE DriverLifecycle ---------------------------
(***************************************************************************)
(* The driver from DriverEntry to the end of DfUnload (minifilter          *)
(* main.cpp): what it allocates and registers, in which order, and what    *)
(* runs meanwhile: connections (ShieldPort), instance setup and teardown,  *)
(* image-load notifications, and callbacks that read gVolumeGUID on their  *)
(* way to a notification of the client.                                    *)
(*                                                                         *)
(* One thread at a time is in DriverEntry or DfUnload; "life" says where.  *)
(* Every call that can fail does, or not.  When the image goes its globals *)
(* go with it, and what was not given back is left behind.                 *)
(***************************************************************************)
EXTENDS ShieldPort

CONSTANTS
    Thread,     \* threads with requests that pass the shield
    Vol,        \* volumes
    Writable,   \* those that are writable and have NTFS or ReFS
    NoVol,      \* the empty name
    Torn,       \* a name that is being overwritten
    Garbage     \* what is read from memory that was freed

ASSUME LifecycleAssumption ==
    /\ Writable \subseteq Vol
    /\ NoVol \notin Vol /\ Torn \notin Vol /\ Garbage \notin Vol
    /\ Garbage # NoVol /\ Garbage # Torn

VARIABLES
    life,           \* where DriverEntry or DfUnload is
    gCurrentProcess,    \* its buffer: "none", "pool" or "freed"
    gVolumeGUID,    \* its buffer, whether its Length is set, and its text
    notify,         \* OnImageLoadNoitify is registered
    imageLoad,      \* "copying": a call of OnImageLoadNoitify is in progress
    setup,          \* setup[v]: DfInstanceSetup for v
    attached,       \* volumes with an instance
    everAttached,   \* history: those that had one since the driver was loaded
    cb,             \* cb[t]: the callback of thread t
    entryFailed,    \* history: a DriverEntry has failed
    leftBehind      \* what images that are gone have left

lifeVars == <<life, gCurrentProcess, gVolumeGUID, notify, imageLoad, setup,
              attached, everAttached, cb, entryFailed, leftBehind>>

driverVars == <<portVars, lifeVars>>

EntryStep == {"process", "volume", "image", "register", "port", "start"}
UnloadStep == {"remove", "removing", "disconnect", "freeProcess",
               "freeVolume", "unregister"}

Text == Vol \cup {NoVol, Torn, Garbage}

Callback == [pc : {"idle", "length", "copy", "send"}, vol : Vol \cup {NoVol},
             name : Text]

NoCallback == [pc |-> "idle", vol |-> NoVol, name |-> NoVol]

NoGUID == [buffer |-> "none", length |-> FALSE, text |-> NoVol]

LifeTypeOK ==
    /\ life \in {"none", "loaded", "stuck"} \cup EntryStep \cup UnloadStep
    /\ gCurrentProcess \in {"none", "pool", "freed"}
    /\ gVolumeGUID \in [buffer : {"none", "pool", "freed"}, length : BOOLEAN,
                        text : Text]
    /\ notify \in BOOLEAN
    /\ imageLoad \in {"idle", "copying"}
    /\ setup \in [Vol -> {"idle", "name", "write"}]
    /\ attached \subseteq Vol
    /\ everAttached \subseteq Vol
    /\ cb \in [Thread -> Callback]
    /\ entryFailed \in BOOLEAN
    /\ leftBehind \subseteq {"process", "volume", "notify"}

LifeInit ==
    /\ PortInit
    /\ gCurrentProcess = "none"
    /\ gVolumeGUID = NoGUID
    /\ notify = FALSE
    /\ setup = [v \in Vol |-> "idle"]
    /\ attached = {}
    /\ everAttached = {}
    /\ life = "none"
    /\ imageLoad = "idle"
    /\ cb = [t \in Thread |-> NoCallback]
    /\ entryFailed = FALSE
    /\ leftBehind = {}

-----------------------------------------------------------------------------
(* DriverEntry *)

\* What the others have to do with is out of this step.
OnlyEntry == UNCHANGED <<imageLoad, setup, attached, everAttached, cb>>

GoTo(step) == life' = step

Load ==
    /\ life = "none"
    /\ driver = "unloaded"
    /\ loads < MaxLoad
    /\ GoTo("process")
    /\ OnlyEntry
    /\ UNCHANGED <<portVars, gCurrentProcess, gVolumeGUID, notify, entryFailed,
                   leftBehind>>

\* The image goes.  What was not given back stays: pool memory and the address
\* of OnImageLoadNoitify.
ImageGone ==
    /\ GoTo("none")
    /\ leftBehind' = leftBehind
         \cup (IF gCurrentProcess = "pool" THEN {"process"} ELSE {})
         \cup (IF gVolumeGUID.buffer = "pool" THEN {"volume"} ELSE {})
         \cup (IF notify THEN {"notify"} ELSE {})
    /\ gCurrentProcess' = "none"
    /\ gVolumeGUID' = NoGUID
    /\ notify' = FALSE
    /\ setup' = [v \in Vol |-> "idle"]
    /\ attached' = {}
    /\ everAttached' = {}

\* CleanUp of DriverEntry, as long as the filter is not registered: nothing is
\* freed, and the image callback is not removed.
EntryFails ==
    /\ ImageGone
    /\ entryFailed' = TRUE
    /\ UNCHANGED <<portVars, imageLoad, cb>>

AllocateCurrentProcess ==
    /\ life = "process"
    /\ \/ EntryFails
       \/ /\ gCurrentProcess' = "pool"
          /\ GoTo("volume")
          /\ OnlyEntry
          /\ UNCHANGED <<portVars, gVolumeGUID, notify, entryFailed, leftBehind>>

AllocateVolumeGUID ==
    /\ life = "volume"
    /\ \/ EntryFails
       \/ /\ gVolumeGUID' = [NoGUID EXCEPT !.buffer = "pool"]
          /\ GoTo("image")
          /\ OnlyEntry
          /\ UNCHANGED <<portVars, gCurrentProcess, notify, entryFailed,
                         leftBehind>>

\* A failure is logged, and forgotten: gImageNotifyRoutineLoaded is true in any
\* case.
PsSetLoadImageNotifyRoutine ==
    /\ life = "image"
    /\ notify' \in BOOLEAN
    /\ GoTo("register")
    /\ OnlyEntry
    /\ UNCHANGED <<portVars, gCurrentProcess, gVolumeGUID, entryFailed,
                   leftBehind>>

FltRegisterFilter ==
    /\ life = "register"
    /\ \/ EntryFails
       \/ /\ GoTo("port")
          /\ OnlyEntry
          /\ UNCHANGED <<portVars, gCurrentProcess, gVolumeGUID, notify,
                         entryFailed, leftBehind>>

InitializeServerPort ==
    /\ life = "port"
    /\ DriverEntry
    /\ GoTo("start")
    /\ OnlyEntry
    /\ UNCHANGED <<gCurrentProcess, gVolumeGUID, notify, entryFailed, leftBehind>>

FltStartFiltering ==
    /\ life = "start"
    /\ GoTo("loaded")
    /\ OnlyEntry
    /\ UNCHANGED <<portVars, gCurrentProcess, gVolumeGUID, notify, entryFailed,
                   leftBehind>>

\* Instances are being set up and callbacks run while FltStartFiltering does.
Drained ==
    /\ \A t \in Thread : cb[t].pc = "idle"
    /\ \A v \in Vol : setup[v] = "idle"

\* FltStartFiltering fails, and FltUnregisterFilter is called.  With the port
\* still open it does not return.
StartFails ==
    /\ life = "start"
    /\ Drained
    /\ \/ /\ gServerPortState = "Initialized"
          /\ GoTo("stuck")
          /\ OnlyEntry
          /\ UNCHANGED <<portVars, gCurrentProcess, gVolumeGUID, notify,
                         leftBehind>>
       \/ /\ gServerPortState # "Initialized"
          /\ ImageGone
          /\ driver' = "unloaded"
          /\ UNCHANGED <<loads, gServerPortState, gClientPort, gClientPortState,
                         connecting, closing, conn, reads, inbox, imageLoad, cb>>
    /\ entryFailed' = TRUE

-----------------------------------------------------------------------------
(* DfUnload *)

BeginUnload ==
    /\ life = "loaded"
    /\ loads < MaxLoad
    /\ GoTo("remove")
    /\ OnlyEntry
    /\ UNCHANGED <<portVars, gCurrentProcess, gVolumeGUID, notify, entryFailed,
                   leftBehind>>

\* Mutant: the buffer freed before the callback that writes to it is gone.
FreeBeforeRemove ==
    /\ life = "remove"
    /\ notify' = FALSE
    /\ gCurrentProcess' = "freed"
    /\ GoTo("removing")
    /\ OnlyEntry
    /\ UNCHANGED <<portVars, gVolumeGUID, entryFailed, leftBehind>>

\* PsRemoveLoadImageNotifyRoutine: no call is made from now on ...
RemoveLoadImageNotifyRoutine ==
    /\ life = "remove"
    /\ notify' = FALSE
    /\ GoTo("removing")
    /\ OnlyEntry
    /\ UNCHANGED <<portVars, gCurrentProcess, gVolumeGUID, entryFailed,
                   leftBehind>>

\* ... and one in progress is waited for.
LoadImageNotifyRoutineRemoved ==
    /\ life = "removing"
    /\ imageLoad = "idle"
    /\ GoTo("disconnect")
    /\ OnlyEntry
    /\ UNCHANGED <<portVars, gCurrentProcess, gVolumeGUID, notify, entryFailed,
                   leftBehind>>

\* Mutant: the volume's name freed before the port is closed.
FreeBeforeDisconnect ==
    /\ life = "disconnect"
    /\ gVolumeGUID' = [gVolumeGUID EXCEPT !.buffer = "freed"]
    /\ DfUnload
    /\ GoTo("freeProcess")
    /\ OnlyEntry
    /\ UNCHANGED <<gCurrentProcess, notify, entryFailed, leftBehind>>

\* Mutant: the port left open.
DisconnectServerPortForgotten ==
    /\ life = "disconnect"
    /\ driver' = "unloading"
    /\ GoTo("freeProcess")
    /\ OnlyEntry
    /\ UNCHANGED <<loads, gServerPortState, gClientPort, gClientPortState,
                   connecting, closing, conn, reads, inbox, gCurrentProcess,
                   gVolumeGUID, notify, entryFailed, leftBehind>>

\* DfUnload of ShieldPort: CloseClientPort, and what follows it in
\* DisconnectServerPort, when there is a port.
DisconnectServerPort ==
    /\ life = "disconnect"
    /\ DfUnload
    /\ GoTo("freeProcess")
    /\ OnlyEntry
    /\ UNCHANGED <<gCurrentProcess, gVolumeGUID, notify, entryFailed, leftBehind>>

FreeCurrentProcess ==
    /\ life = "freeProcess"
    /\ closing[Driver] = "idle"
    /\ gCurrentProcess' = "freed"
    /\ GoTo("freeVolume")
    /\ OnlyEntry
    /\ UNCHANGED <<portVars, gVolumeGUID, notify, entryFailed, leftBehind>>

\* Mutant: the volume's name forgotten.
FreeVolumeGUIDForgotten ==
    /\ life = "freeVolume"
    /\ GoTo("unregister")
    /\ OnlyEntry
    /\ UNCHANGED <<portVars, gCurrentProcess, gVolumeGUID, notify, entryFailed,
                   leftBehind>>

FreeVolumeGUID ==
    /\ life = "freeVolume"
    /\ gVolumeGUID' = [gVolumeGUID EXCEPT !.buffer = "freed", !.length = FALSE]
    /\ GoTo("unregister")
    /\ OnlyEntry
    /\ UNCHANGED <<portVars, gCurrentProcess, notify, entryFailed, leftBehind>>

\* Its instances are torn down, and it waits for its callbacks.
UnregisterFilter ==
    /\ life = "unregister"
    /\ Drained
    /\ FltUnregisterFilter
    /\ ImageGone
    /\ UNCHANGED <<imageLoad, cb, entryFailed>>

LifeStep ==
    \/ AllocateCurrentProcess \/ AllocateVolumeGUID
    \/ PsSetLoadImageNotifyRoutine \/ FltRegisterFilter
    \/ InitializeServerPort \/ FltStartFiltering \/ StartFails
    \/ RemoveLoadImageNotifyRoutine \/ LoadImageNotifyRoutineRemoved
    \/ DisconnectServerPort
    \/ FreeCurrentProcess \/ FreeVolumeGUID \/ UnregisterFilter

-----------------------------------------------------------------------------
(* What runs meanwhile *)

\* The filter manager calls the driver from FltStartFiltering until
\* FltUnregisterFilter is called.
Filtering == life \in {"start", "loaded"} \cup (UnloadStep \ {"unregister"})

\* Mutant: the name queried before the volume is looked at.
DfInstanceSetupNamesFirst(v) ==
    /\ Filtering
    /\ v \notin attached
    /\ setup[v] = "idle"
    /\ IF v \in Writable
       THEN setup' = [setup EXCEPT ![v] = "name"] /\ UNCHANGED gVolumeGUID
       ELSE /\ gVolumeGUID.buffer = "pool"
            /\ gVolumeGUID' = [gVolumeGUID EXCEPT !.text = v, !.length = TRUE]
            /\ UNCHANGED setup
    /\ UNCHANGED <<portVars, life, gCurrentProcess, notify, imageLoad, attached,
                   everAttached, cb, entryFailed, leftBehind>>

\* A volume that is read-only or of another file system is not attached to.
DfInstanceSetup(v) ==
    /\ Filtering
    /\ v \in Writable \ attached
    /\ setup[v] = "idle"
    /\ setup' = [setup EXCEPT ![v] = "name"]
    /\ UNCHANGED <<portVars, life, gCurrentProcess, gVolumeGUID, notify,
                   imageLoad, attached, everAttached, cb, entryFailed,
                   leftBehind>>

\* FltGetVolumeGuidName fails, as it does when there is no buffer, or starts
\* to write over the name that is there ...
FltGetVolumeGuidName(v) ==
    /\ setup[v] = "name"
    /\ \/ /\ setup' = [setup EXCEPT ![v] = "idle"]
          /\ UNCHANGED <<gVolumeGUID, everAttached>>
       \/ /\ gVolumeGUID.buffer = "pool"
          /\ setup' = [setup EXCEPT ![v] = "write"]
          /\ gVolumeGUID' = [gVolumeGUID EXCEPT
                               !.text = IF @ = v THEN @ ELSE Torn]
          /\ everAttached' = everAttached \cup {v}
    /\ UNCHANGED <<portVars, life, gCurrentProcess, notify, imageLoad, attached,
                   cb, entryFailed, leftBehind>>

\* ... and is done, together with whichever volume's name it was mixed with.
VolumeNamed(v) ==
    /\ setup[v] = "write"
    /\ setup' = [setup EXCEPT ![v] = "idle"]
    /\ attached' = attached \cup {v}
    /\ gVolumeGUID' = IF gVolumeGUID.buffer # "pool" THEN gVolumeGUID ELSE
         [gVolumeGUID EXCEPT
            !.length = TRUE,
            !.text = IF \E w \in Vol \ {v} : setup[w] = "write" THEN Torn ELSE v]
    /\ UNCHANGED <<portVars, life, gCurrentProcess, notify, imageLoad,
                   everAttached, cb, entryFailed, leftBehind>>

\* The teardown callbacks only log.
InstanceTeardown(v) ==
    /\ v \in attached
    /\ \A t \in Thread : cb[t].vol # v
    /\ attached' = attached \ {v}
    /\ UNCHANGED <<portVars, life, gCurrentProcess, gVolumeGUID, notify,
                   imageLoad, setup, everAttached, cb, entryFailed, leftBehind>>

\* An image is mapped, and its name copied to gCurrentProcess.
OnImageLoadNoitify ==
    /\ notify
    /\ imageLoad = "idle"
    /\ imageLoad' = "copying"
    /\ UNCHANGED <<portVars, life, gCurrentProcess, gVolumeGUID, notify, setup,
                   attached, everAttached, cb, entryFailed, leftBehind>>

ImageNameCopied ==
    /\ imageLoad = "copying"
    /\ imageLoad' = "idle"
    /\ UNCHANGED <<portVars, life, gCurrentProcess, gVolumeGUID, notify, setup,
                   attached, everAttached, cb, entryFailed, leftBehind>>

\* A file on v was renamed, and the callback goes on to SendReanmeInfoToClient.
FileRenamed(t, v) ==
    /\ Filtering
    /\ cb[t].pc = "idle"
    /\ v \in attached
    /\ cb' = [cb EXCEPT ![t] = [pc |-> "length", vol |-> v, name |-> NoVol]]
    /\ UNCHANGED <<portVars, life, gCurrentProcess, gVolumeGUID, notify,
                   imageLoad, setup, attached, everAttached, entryFailed,
                   leftBehind>>

\* RtlAppendUnicodeStringToString looks at the Length ...
ReadLength(t) ==
    /\ cb[t].pc = "length"
    /\ cb' = [cb EXCEPT ![t].pc = IF gVolumeGUID.length THEN "copy" ELSE "send"]
    /\ UNCHANGED <<portVars, life, gCurrentProcess, gVolumeGUID, notify,
                   imageLoad, setup, attached, everAttached, entryFailed,
                   leftBehind>>

\* ... and copies the buffer.
CopyName(t) ==
    /\ cb[t].pc = "copy"
    /\ cb' = [cb EXCEPT ![t].pc = "send",
                        ![t].name = IF gVolumeGUID.buffer = "pool"
                                    THEN gVolumeGUID.text ELSE Garbage]
    /\ UNCHANGED <<portVars, life, gCurrentProcess, gVolumeGUID, notify,
                   imageLoad, setup, attached, everAttached, entryFailed,
                   leftBehind>>

SendName(t) ==
    /\ cb[t].pc = "send"
    /\ \E m \in Message : SendMessageToClient(m)
    /\ cb' = [cb EXCEPT ![t] = NoCallback]
    /\ UNCHANGED <<life, gCurrentProcess, gVolumeGUID, notify, imageLoad, setup,
                   attached, everAttached, entryFailed, leftBehind>>

PortCallback ==
    \/ \E k \in Closer : CloserStep(k)
    \/ \E c \in Client : MarkClientPortConnected(c) \/ ShieldDisconnect(c)
    \/ FltCloseCommunicationPort

LifeNext ==
    \/ Load \/ BeginUnload \/ LifeStep
    \/ \E v \in Vol : \/ DfInstanceSetup(v) \/ FltGetVolumeGuidName(v)
                      \/ VolumeNamed(v) \/ InstanceTeardown(v)
    \/ OnImageLoadNoitify \/ ImageNameCopied
    \/ \E t \in Thread : \/ \E v \in Vol : FileRenamed(t, v)
                         \/ ReadLength(t) \/ CopyName(t) \/ SendName(t)
    \/ PortCallback /\ UNCHANGED lifeVars
    \/ (\E c \in Client : ClientPortStep(c)) /\ UNCHANGED lifeVars

LifeSpec == LifeInit /\ [][LifeNext]_driverVars

\* The threads that are in the driver's code run; a call in progress of
\* OnImageLoadNoitify ends.
LifeFairness ==
    /\ WF_driverVars(LifeStep)
    /\ WF_driverVars(ImageNameCopied)
    /\ \A v \in Vol : WF_driverVars(FltGetVolumeGuidName(v) \/ VolumeNamed(v))
    /\ \A t \in Thread : WF_driverVars(ReadLength(t) \/ CopyName(t) \/ SendName(t))
    /\ \A k \in Closer : WF_driverVars(CloserStep(k) /\ UNCHANGED lifeVars)
    /\ \A c \in Client : WF_driverVars(
         MarkClientPortConnected(c) /\ UNCHANGED lifeVars)
    /\ WF_driverVars(FltCloseCommunicationPort /\ UNCHANGED lifeVars)

LifeFairSpec == LifeSpec /\ LifeFairness

-----------------------------------------------------------------------------
\* A notification names the volume its file is on, as long as the filter has
\* had one volume only since it was loaded and DfUnload has not freed the name:
\* volumes that are not attached to leave no trace in gVolumeGUID, nor do
\* volumes that are detached and attached again (main.cpp:271-272, 310-346,
\* communication.cpp:312).
NotificationNamesVolume ==
    \A t \in Thread : cb[t].pc = "send" =>
        \/ cb[t].name = cb[t].vol
        \/ everAttached # {cb[t].vol}
        \/ gVolumeGUID.buffer = "freed"

\* An image-load notification in progress has its buffer, and the driver's
\* code: only a DriverEntry that failed leaves one to run in an image that is
\* gone (main.cpp:81-91, 157-164, 247-268).
ImageCallbackHasBuffer ==
    imageLoad = "copying" => gCurrentProcess = "pool" \/ entryFailed

\* A driver that is loaded and unloaded again and again leaves nothing behind,
\* neither memory nor a callback, but for the times DriverEntry failed
\* (main.cpp:157-170, 230-234, 267-284).
NothingLeftBehind == leftBehind # {} => entryFailed

\* Memory that was freed is read by callbacks during an unload and at no other
\* time, and no callback outlives the image (main.cpp:271-285).
FreedNameOnlyInUnload ==
    \A t \in Thread :
        /\ cb[t].name = Garbage => life = "unregister"
        /\ cb[t].pc # "idle" => Filtering \/ life = "unregister"

\* An unload ends, whichever connections, callbacks and instances there are
\* when it begins (main.cpp:237-285, communication.cpp:255-265).
UnloadEnds == life = "remove" ~> life = "none"
=============================================================================
