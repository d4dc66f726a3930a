------------------------ MODULE DriverLifecycleProofs ------------------------
(***************************************************************************)
(* The safety properties of DriverLifecycle for any number of volumes,     *)
(* threads, connections and loads.                                         *)
(*                                                                         *)
(* None is inductive alone.  StepInv says what is allocated and registered *)
(* at each step of DriverEntry and DfUnload, NameInv what gVolumeGUID says *)
(* when one volume only has been attached, CallbackInv ties callbacks in   *)
(* progress to both.                                                       *)
(***************************************************************************)
EXTENDS DriverLifecycle, ShieldPortProofs

StepInv ==
    /\ life \notin {"none", "process", "freeVolume", "unregister"} =>
         gCurrentProcess = "pool"
    /\ life \in {"freeVolume", "unregister"} => gCurrentProcess # "pool"
    /\ notify => gCurrentProcess = "pool"
    /\ life \in UnloadStep \ {"remove"} => ~notify
    /\ life \in UnloadStep \ {"remove", "removing"} => imageLoad = "idle"
    /\ Filtering \/ life \in {"image", "register", "port"} =>
         gVolumeGUID.buffer = "pool"
    /\ life = "unregister" => gVolumeGUID.buffer = "freed"

\* Before FltStartFiltering.
Early == {"none"} \cup (EntryStep \ {"start"})

NameInv ==
    /\ life \in Early => everAttached = {}
    /\ attached \subseteq everAttached
    /\ \A v \in Vol : setup[v] # "idle" => Filtering \/ life = "unregister"
    /\ \A v \in Vol : setup[v] = "write" => v \in everAttached
    /\ everAttached = {} => ~gVolumeGUID.length
    /\ attached # {} => gVolumeGUID.length \/ gVolumeGUID.buffer = "freed"
    /\ gVolumeGUID.text # Garbage
    /\ \A v \in Vol :
         everAttached = {v} /\ gVolumeGUID.length => gVolumeGUID.text = v

CallbackInv ==
    \A t \in Thread :
        /\ cb[t].pc = "idle" => cb[t] = NoCallback
        /\ cb[t].pc # "idle" =>
             /\ Filtering \/ life = "unregister"
             /\ cb[t].vol \in everAttached
             /\ gVolumeGUID.length \/ gVolumeGUID.buffer = "freed"
        /\ cb[t].name = Garbage => life = "unregister"

LifeInv == /\ LifeTypeOK /\ StepInv /\ NameInv /\ CallbackInv
           /\ NotificationNamesVolume /\ ImageCallbackHasBuffer
           /\ NothingLeftBehind

LEMMA InitLifeInv == LifeInit => LifeInv
<1> SUFFICES ASSUME LifeInit
             PROVE  LifeInv
  OBVIOUS
<1> USE LifecycleAssumption DEF LifeInit, NoCallback, NoGUID
<1>1. LifeTypeOK
  BY DEF LifeTypeOK, Callback, Text
<1>2. StepInv
  BY DEF StepInv, Filtering, UnloadStep
<1>3. NameInv
  BY DEF NameInv
<1>4. CallbackInv
  BY DEF CallbackInv
<1>5. NotificationNamesVolume /\ ImageCallbackHasBuffer /\ NothingLeftBehind
  BY DEF NotificationNamesVolume, ImageCallbackHasBuffer, NothingLeftBehind
<1> QED
  BY <1>1, <1>2, <1>3, <1>4, <1>5 DEF LifeInv

\* Connections are no business of these properties.
LEMMA PortStepKeepsLifeInv ==
    ASSUME LifeInv, UNCHANGED lifeVars
    PROVE  LifeInv'
<1> USE DEF lifeVars
<1>1. LifeTypeOK'
  BY DEF LifeInv, LifeTypeOK
<1>2. StepInv'
  BY DEF LifeInv, StepInv, Filtering
<1>3. NameInv'
  BY DEF LifeInv, NameInv, Filtering
<1>4. CallbackInv'
  BY DEF LifeInv, CallbackInv, Filtering
<1>5. (NotificationNamesVolume /\ ImageCallbackHasBuffer /\ NothingLeftBehind)'
  BY DEF LifeInv, NotificationNamesVolume, ImageCallbackHasBuffer,
         NothingLeftBehind
<1> QED
  BY <1>1, <1>2, <1>3, <1>4, <1>5 DEF LifeInv

-----------------------------------------------------------------------------
(* DriverEntry and DfUnload *)

\* Where no callback and no setup is in progress, the image may go.
LEMMA ImageGoneKeepsLifeInv ==
    ASSUME LifeInv, ImageGone, Drained, UNCHANGED cb,
           \/ entryFailed' = TRUE
           \/ life = "unregister" /\ UNCHANGED <<imageLoad, entryFailed>>,
           imageLoad' = imageLoad
    PROVE  LifeInv'
<1> USE LifecycleAssumption DEF LifeInv, ImageGone, GoTo
<1>1. \A t \in Thread : cb[t] = NoCallback
  BY DEF Drained, CallbackInv
<1>2. LifeTypeOK'
  BY DEF LifeTypeOK, NoGUID, Text
<1>3. StepInv'
  BY DEF StepInv, Filtering, UnloadStep
<1>4. NameInv'
  BY DEF NameInv, NoGUID
<1>5. CallbackInv'
  BY <1>1 DEF CallbackInv, NoCallback
<1>6. NotificationNamesVolume'
  BY <1>1 DEF NotificationNamesVolume, NoCallback
<1>7. ImageCallbackHasBuffer' /\ NothingLeftBehind'
  BY DEF ImageCallbackHasBuffer, NothingLeftBehind, StepInv, UnloadStep,
         LifeTypeOK
<1> QED
  BY <1>2, <1>3, <1>4, <1>5, <1>6, <1>7

LEMMA LifeStepKeepsLifeInv ==
    ASSUME LifeInv, Load \/ BeginUnload \/ LifeStep
    PROVE  LifeInv'
<1> USE LifecycleAssumption DEF GoTo, OnlyEntry
<1>1. ASSUME ~Filtering, life # "unregister"
      PROVE  Drained
  BY <1>1 DEF LifeInv, Drained, NameInv, CallbackInv, LifeTypeOK, Callback
<1>2. ASSUME life \in {"process", "volume", "register"}, EntryFails
      PROVE  LifeInv'
  BY <1>1, <1>2, ImageGoneKeepsLifeInv DEF EntryFails, Filtering, UnloadStep
<1>3. ASSUME LifeTypeOK', StepInv',
             UNCHANGED <<gVolumeGUID, setup, attached, everAttached, cb,
                         leftBehind>>,
             Filtering \/ life = "unregister" =>
               (Filtering \/ life = "unregister")',
             life # "unregister",
             life' \in Early => life \in Early,
             entryFailed => entryFailed',
             ImageCallbackHasBuffer'
      PROVE  LifeInv'
  <2>1. NameInv'
    BY <1>3 DEF LifeInv, NameInv
  <2>2. CallbackInv'
    BY <1>3 DEF LifeInv, CallbackInv
  <2>3. NotificationNamesVolume' /\ NothingLeftBehind'
    BY <1>3 DEF LifeInv, NotificationNamesVolume, NothingLeftBehind
  <2> QED
    BY <1>3, <2>1, <2>2, <2>3 DEF LifeInv
<1>4. ASSUME \/ Load \/ BeginUnload
             \/ AllocateCurrentProcess /\ ~EntryFails
             \/ PsSetLoadImageNotifyRoutine
             \/ FltRegisterFilter /\ ~EntryFails
             \/ InitializeServerPort \/ FltStartFiltering
      PROVE  LifeInv'
  <2> USE DEF Load, BeginUnload, AllocateCurrentProcess, FltRegisterFilter,
              PsSetLoadImageNotifyRoutine, InitializeServerPort,
              FltStartFiltering
  <2>1. LifeTypeOK'
    BY <1>4 DEF LifeInv, LifeTypeOK, EntryStep, UnloadStep
  <2>2. StepInv'
    <3> USE DEF LifeInv, StepInv, Filtering, UnloadStep
    <3>1. CASE Load \/ BeginUnload
      BY <3>1
    <3>2. CASE AllocateCurrentProcess /\ ~EntryFails
      BY <3>2
    <3>3. CASE PsSetLoadImageNotifyRoutine
      BY <3>3
    <3>4. CASE FltRegisterFilter /\ ~EntryFails
      BY <3>4
    <3>5. CASE InitializeServerPort
      BY <3>5
    <3>6. CASE FltStartFiltering
      BY <3>6
    <3> QED
      BY <1>4, <3>1, <3>2, <3>3, <3>4, <3>5, <3>6
  <2>3. ImageCallbackHasBuffer'
    BY <1>4 DEF LifeInv, StepInv, ImageCallbackHasBuffer
  <2>4. (Filtering => Filtering') /\ (life' \in Early => life \in Early)
    BY <1>4 DEF Filtering, UnloadStep, Early, EntryStep
  <2> QED
    BY <1>3, <1>4, <2>1, <2>2, <2>3, <2>4
<1>5. ASSUME \/ RemoveLoadImageNotifyRoutine \/ LoadImageNotifyRoutineRemoved
             \/ DisconnectServerPort \/ FreeCurrentProcess
      PROVE  LifeInv'
  <2> USE DEF RemoveLoadImageNotifyRoutine, LoadImageNotifyRoutineRemoved,
              DisconnectServerPort, FreeCurrentProcess
  <2>1. LifeTypeOK'
    BY <1>5 DEF LifeInv, LifeTypeOK, UnloadStep
  <2>2. StepInv'
    BY <1>5 DEF LifeInv, StepInv, Filtering, UnloadStep
  <2>3. ImageCallbackHasBuffer'
    BY <1>5 DEF LifeInv, StepInv, ImageCallbackHasBuffer, UnloadStep
  <2>4. Filtering' /\ life' \notin Early
    BY <1>5 DEF Filtering, UnloadStep, Early, EntryStep
  <2> QED
    BY <1>3, <1>5, <2>1, <2>2, <2>3, <2>4
<1>6. ASSUME AllocateVolumeGUID, ~EntryFails
      PROVE  LifeInv'
  <2> USE <1>6 DEF AllocateVolumeGUID, NoGUID
  <2>0. gVolumeGUID' = [buffer |-> "pool", length |-> FALSE, text |-> NoVol]
    OBVIOUS
  <2>1. ~Filtering /\ ~Filtering' /\ life # "unregister"
    BY DEF Filtering, UnloadStep
  <2>2. LifeTypeOK'
    BY <2>0 DEF LifeInv, LifeTypeOK, EntryStep, Text
  <2>3. StepInv'
    BY <2>0, <2>1 DEF LifeInv, StepInv, UnloadStep
  <2>4. NameInv'
    <3>1. \A v \in Vol : setup[v] = "idle"
      BY <1>1, <2>1 DEF Drained
    <3>2. everAttached = {} /\ attached = {}
      BY DEF LifeInv, NameInv, Early, EntryStep
    <3> QED
      BY <2>0, <3>1, <3>2 DEF LifeInv, NameInv
  <2>5. CallbackInv' /\ NotificationNamesVolume'
    <3>1. \A t \in Thread : cb[t] = NoCallback
      BY <1>1, <2>1 DEF Drained, LifeInv, CallbackInv
    <3> QED
      BY <3>1 DEF CallbackInv, NotificationNamesVolume, NoCallback
  <2>6. ImageCallbackHasBuffer' /\ NothingLeftBehind'
    BY DEF LifeInv, ImageCallbackHasBuffer, NothingLeftBehind
  <2> QED
    BY <2>2, <2>3, <2>4, <2>5, <2>6 DEF LifeInv
<1>7. ASSUME FreeVolumeGUID
      PROVE  LifeInv'
  <2> USE <1>7 DEF FreeVolumeGUID
  <2>0. /\ gVolumeGUID' = [gVolumeGUID EXCEPT !.buffer = "freed",
                                              !.length = FALSE]
        /\ gVolumeGUID \in [buffer : {"none", "pool", "freed"},
                            length : BOOLEAN, text : Text]
    BY DEF LifeInv, LifeTypeOK
  <2>1. /\ gVolumeGUID'.buffer = "freed" /\ gVolumeGUID'.length = FALSE
        /\ gVolumeGUID'.text = gVolumeGUID.text
    BY <2>0
  <2>2. LifeTypeOK'
    BY <2>0 DEF LifeInv, LifeTypeOK, UnloadStep
  <2>3. StepInv'
    BY <2>1 DEF LifeInv, StepInv, Filtering, UnloadStep
  <2>4. NameInv'
    BY <2>1 DEF LifeInv, NameInv, Early, EntryStep
  <2>5. CallbackInv' /\ NotificationNamesVolume'
    BY <2>1 DEF LifeInv, CallbackInv, NotificationNamesVolume
  <2>6. ImageCallbackHasBuffer' /\ NothingLeftBehind'
    BY DEF LifeInv, ImageCallbackHasBuffer, NothingLeftBehind
  <2> QED
    BY <2>2, <2>3, <2>4, <2>5, <2>6 DEF LifeInv
<1>8. ASSUME StartFails
      PROVE  LifeInv'
  <2>1. CASE gServerPortState # "Initialized"
    BY <1>8, <2>1, ImageGoneKeepsLifeInv DEF StartFails
  <2>2. CASE gServerPortState = "Initialized"
    <3> USE <1>8, <2>2 DEF StartFails
    <3>1. LifeTypeOK'
      BY DEF LifeInv, LifeTypeOK
    <3>2. StepInv'
      BY DEF LifeInv, StepInv, Filtering, UnloadStep
    <3>3. \A t \in Thread : cb[t] = NoCallback
      BY DEF Drained, LifeInv, CallbackInv
    <3>4. NameInv'
      BY DEF LifeInv, NameInv, Early, EntryStep, Drained
    <3>5. CallbackInv' /\ NotificationNamesVolume'
      BY <3>3 DEF CallbackInv, NotificationNamesVolume, NoCallback
    <3>6. ImageCallbackHasBuffer' /\ NothingLeftBehind'
      BY DEF LifeInv, ImageCallbackHasBuffer, NothingLeftBehind
    <3> QED
      BY <3>1, <3>2, <3>4, <3>5, <3>6 DEF LifeInv
  <2> QED
    BY <2>1, <2>2
<1>9. ASSUME UnregisterFilter
      PROVE  LifeInv'
  BY <1>9, ImageGoneKeepsLifeInv DEF UnregisterFilter
<1> QED
  <2>1. ASSUME EntryFails, \/ AllocateCurrentProcess \/ AllocateVolumeGUID
                           \/ FltRegisterFilter
        PROVE  LifeInv'
    BY <1>2, <2>1 DEF AllocateCurrentProcess, AllocateVolumeGUID,
                      FltRegisterFilter
  <2> QED
    BY <1>4, <1>5, <1>6, <1>7, <1>8, <1>9, <2>1 DEF LifeStep

-----------------------------------------------------------------------------
(* What runs meanwhile *)

LEMMA InstanceStepKeepsLifeInv ==
    ASSUME LifeInv, NEW v \in Vol,
           \/ DfInstanceSetup(v) \/ FltGetVolumeGuidName(v)
           \/ VolumeNamed(v) \/ InstanceTeardown(v)
    PROVE  LifeInv'
<1> USE LifecycleAssumption
<1> DEFINE g == gVolumeGUID
<1>1. /\ UNCHANGED <<life, gCurrentProcess, notify, imageLoad, cb, entryFailed,
                     leftBehind>>
      /\ everAttached \subseteq everAttached'
      /\ g'.buffer = g.buffer
      /\ g.length => g'.length
  BY DEF DfInstanceSetup, FltGetVolumeGuidName, VolumeNamed, InstanceTeardown,
         LifeInv, LifeTypeOK
<1>2. LifeTypeOK'
  <2>1. /\ setup' \in [Vol -> {"idle", "name", "write"}]
        /\ attached' \subseteq Vol /\ everAttached' \subseteq Vol
    BY DEF DfInstanceSetup, FltGetVolumeGuidName, VolumeNamed,
           InstanceTeardown, LifeInv, LifeTypeOK
  <2>2. g' \in [buffer : {"none", "pool", "freed"}, length : BOOLEAN,
                text : Text]
    <3> g \in [buffer : {"none", "pool", "freed"}, length : BOOLEAN,
               text : Text]
      BY DEF LifeInv, LifeTypeOK
    <3>1. CASE DfInstanceSetup(v) \/ InstanceTeardown(v)
      BY <3>1 DEF DfInstanceSetup, InstanceTeardown
    <3>2. CASE FltGetVolumeGuidName(v)
      BY <3>2 DEF FltGetVolumeGuidName, Text
    <3>3. CASE VolumeNamed(v)
      BY <3>3 DEF VolumeNamed, Text
    <3> QED
      BY <3>1, <3>2, <3>3
  <2> QED
    BY <1>1, <2>1, <2>2 DEF LifeInv, LifeTypeOK
<1>3. StepInv' /\ ImageCallbackHasBuffer' /\ NothingLeftBehind'
  BY <1>1 DEF LifeInv, StepInv, Filtering, ImageCallbackHasBuffer,
              NothingLeftBehind
<1>4. setup[v] # "idle" => Filtering \/ life = "unregister"
  BY DEF LifeInv, NameInv
<1>5. NameInv'
  <2> USE DEF LifeInv, NameInv, LifeTypeOK
  <2>1. CASE DfInstanceSetup(v)
    BY <2>1 DEF DfInstanceSetup, Filtering
  <2>2. CASE InstanceTeardown(v)
    BY <2>2 DEF InstanceTeardown, Filtering
  <2>3. CASE FltGetVolumeGuidName(v)
    <3>1. life \notin Early
      BY <1>4, <2>3 DEF FltGetVolumeGuidName, Filtering, Early, EntryStep,
                        UnloadStep
    <3>2. CASE UNCHANGED <<gVolumeGUID, everAttached>>
      BY <2>3, <3>2 DEF FltGetVolumeGuidName, Filtering
    <3>3. CASE /\ setup' = [setup EXCEPT ![v] = "write"]
               /\ g'.length = g.length
               /\ g'.text = IF g.text = v THEN g.text ELSE Torn
               /\ everAttached' = everAttached \cup {v}
      BY <2>3, <3>1, <3>3 DEF FltGetVolumeGuidName, Filtering
    <3> QED
      BY <2>3, <3>2, <3>3 DEF FltGetVolumeGuidName
  <2>4. CASE VolumeNamed(v)
    <3>1. v \in everAttached
      BY <2>4 DEF VolumeNamed
    <3>2. CASE g.buffer # "pool"
      <4>1. g.buffer = "freed"
        BY <1>4, <2>4, <3>2 DEF VolumeNamed, StepInv
      <4> QED
        BY <2>4, <3>1, <3>2, <4>1 DEF VolumeNamed, Filtering
    <3>3. CASE g.buffer = "pool"
      <4>1. /\ g'.length = TRUE
            /\ g'.text = IF \E w \in Vol \ {v} : setup[w] = "write"
                         THEN Torn ELSE v
        BY <2>4, <3>3 DEF VolumeNamed
      <4>2. ASSUME NEW u \in Vol, everAttached' = {u}
            PROVE  g'.text = u
        <5>1. u = v /\ \A w \in Vol \ {v} : setup[w] # "write"
          BY <2>4, <3>1, <4>2 DEF VolumeNamed
        <5> QED
          BY <4>1, <5>1
      <4> QED
        BY <2>4, <3>1, <4>1, <4>2 DEF VolumeNamed, Filtering
    <3> QED
      BY <3>2, <3>3
  <2> QED
    BY <2>1, <2>2, <2>3, <2>4
<1>6. CallbackInv'
  BY <1>1 DEF LifeInv, CallbackInv, Filtering
<1>7. NotificationNamesVolume'
  <2> SUFFICES ASSUME NEW t \in Thread, cb[t].pc = "send",
                      cb[t].name # cb[t].vol, g.buffer # "freed"
               PROVE  everAttached' # {cb[t].vol}
    BY <1>1 DEF NotificationNamesVolume
  <2>1. everAttached # {cb[t].vol} /\ cb[t].vol \in everAttached
    BY DEF LifeInv, NotificationNamesVolume, CallbackInv
  <2> QED
    BY <1>1, <2>1
<1> QED
  BY <1>2, <1>3, <1>5, <1>6, <1>7 DEF LifeInv

LEMMA ImageLoadKeepsLifeInv ==
    ASSUME LifeInv, OnImageLoadNoitify \/ ImageNameCopied
    PROVE  LifeInv'
<1>1. UNCHANGED <<life, gCurrentProcess, gVolumeGUID, notify, setup, attached,
                  everAttached, cb, entryFailed, leftBehind>>
  BY DEF OnImageLoadNoitify, ImageNameCopied
<1>2. LifeTypeOK'
  BY DEF OnImageLoadNoitify, ImageNameCopied, LifeInv, LifeTypeOK
<1>3. StepInv'
  BY DEF OnImageLoadNoitify, ImageNameCopied, LifeInv, StepInv, Filtering
<1>4. NameInv' /\ CallbackInv' /\ NotificationNamesVolume'
  BY <1>1 DEF LifeInv, NameInv, CallbackInv, NotificationNamesVolume, Filtering
<1>5. ImageCallbackHasBuffer' /\ NothingLeftBehind'
  BY DEF OnImageLoadNoitify, ImageNameCopied, LifeInv, StepInv,
         ImageCallbackHasBuffer, NothingLeftBehind
<1> QED
  BY <1>2, <1>3, <1>4, <1>5 DEF LifeInv

LEMMA CallbackStepKeepsLifeInv ==
    ASSUME LifeInv, NEW t \in Thread,
           \/ \E v \in Vol : FileRenamed(t, v)
           \/ ReadLength(t) \/ CopyName(t) \/ SendName(t)
    PROVE  LifeInv'
<1> USE LifecycleAssumption
<1>1. UNCHANGED <<life, gCurrentProcess, gVolumeGUID, notify, imageLoad, setup,
                  attached, everAttached, entryFailed, leftBehind>>
  BY DEF FileRenamed, ReadLength, CopyName, SendName
<1>2. StepInv' /\ NameInv' /\ ImageCallbackHasBuffer' /\ NothingLeftBehind'
  BY <1>1 DEF LifeInv, StepInv, NameInv, Filtering, ImageCallbackHasBuffer,
              NothingLeftBehind
<1>3. PICK c \in Callback : cb' = [cb EXCEPT ![t] = c]
  <2> USE DEF LifeInv, LifeTypeOK, Callback, NoCallback, Text
  <2>1. CASE \E v \in Vol : FileRenamed(t, v)
    BY <2>1 DEF FileRenamed
  <2>2. CASE ReadLength(t)
    BY <2>2 DEF ReadLength
  <2>3. CASE CopyName(t)
    <3> DEFINE text == IF gVolumeGUID.buffer = "pool"
                       THEN gVolumeGUID.text ELSE Garbage
               d == [cb[t] EXCEPT !.pc = "send", !.name = text]
    <3>1. gVolumeGUID.text \in Text /\ cb[t] \in Callback
      OBVIOUS
    <3>2. text \in Text
      BY <3>1
    <3>3. d \in Callback
      BY <3>1, <3>2
    <3>4. cb' = [cb EXCEPT ![t] = d]
      BY <2>3 DEF CopyName
    <3> QED
      BY <3>3, <3>4
  <2>4. CASE SendName(t)
    BY <2>4 DEF SendName
  <2> QED
    BY <2>1, <2>2, <2>3, <2>4
<1>4. cb \in [Thread -> Callback] /\ cb' \in [Thread -> Callback]
  BY <1>3 DEF LifeInv, LifeTypeOK
<1>5. LifeTypeOK'
  BY <1>1, <1>4 DEF LifeInv, LifeTypeOK
<1>6. ASSUME NEW u \in Thread, u # t
      PROVE  cb'[u] = cb[u]
  BY <1>3, <1>4, <1>6
<1> DEFINE Kept ==
           /\ cb'[t].pc = "idle" => cb'[t] = NoCallback
           /\ cb'[t].pc # "idle" =>
                /\ Filtering \/ life = "unregister"
                /\ cb'[t].vol \in everAttached
                /\ gVolumeGUID.length \/ gVolumeGUID.buffer = "freed"
           /\ cb'[t].name = Garbage => life = "unregister"
           /\ cb'[t].pc = "send" =>
                \/ cb'[t].name = cb'[t].vol
                \/ everAttached # {cb'[t].vol}
                \/ gVolumeGUID.buffer = "freed"
<1>7. Kept
  <2> USE <1>4 DEF LifeInv, CallbackInv, Callback, NoCallback
  <2>1. ASSUME NEW v \in Vol, FileRenamed(t, v)
        PROVE  Kept
    BY <2>1 DEF FileRenamed, NameInv
  <2>2. CASE ReadLength(t)
    BY <2>2 DEF ReadLength
  <2>3. CASE CopyName(t)
    <3>1. /\ cb'[t].pc = "send" /\ cb'[t].vol = cb[t].vol
          /\ cb'[t].name = IF gVolumeGUID.buffer = "pool"
                           THEN gVolumeGUID.text ELSE Garbage
      BY <2>3 DEF CopyName
    <3>2. /\ Filtering \/ life = "unregister"
          /\ cb[t].vol \in everAttached
          /\ gVolumeGUID.length \/ gVolumeGUID.buffer = "freed"
      BY <2>3 DEF CopyName
    <3>3. gVolumeGUID.buffer # "pool" =>
            life = "unregister" /\ gVolumeGUID.buffer = "freed"
      BY <3>2 DEF StepInv
    <3>4. cb[t].vol \in Vol
      BY <3>2 DEF LifeTypeOK
    <3> QED
      BY <3>1, <3>2, <3>3, <3>4 DEF NameInv
  <2>4. CASE SendName(t)
    BY <2>4 DEF SendName
  <2> QED
    BY <2>1, <2>2, <2>3, <2>4
<1>8. CallbackInv' /\ NotificationNamesVolume'
  BY <1>1, <1>6, <1>7 DEF LifeInv, CallbackInv, NotificationNamesVolume, Filtering
<1> QED
  BY <1>2, <1>5, <1>8 DEF LifeInv

LEMMA LifeInvariant == LifeSpec => []LifeInv
<1>1. LifeInv /\ [LifeNext]_driverVars => LifeInv'
  <2> SUFFICES ASSUME LifeInv, [LifeNext]_driverVars
               PROVE  LifeInv'
    OBVIOUS
  <2>1. CASE UNCHANGED lifeVars
    BY <2>1, PortStepKeepsLifeInv
  <2>2. CASE Load \/ BeginUnload \/ LifeStep
    BY <2>2, LifeStepKeepsLifeInv
  <2>3. CASE OnImageLoadNoitify \/ ImageNameCopied
    BY <2>3, ImageLoadKeepsLifeInv
  <2> QED
    BY <2>1, <2>2, <2>3, InstanceStepKeepsLifeInv, CallbackStepKeepsLifeInv
       DEF LifeNext, driverVars
<1> QED
  BY <1>1, InitLifeInv, PTL DEF LifeSpec

-----------------------------------------------------------------------------
\* As long as one volume has been attached since the driver was loaded, what is
\* sent names it, whatever is set up, refused, detached and attached again
\* between the reads of gVolumeGUID (main.cpp:310-346, communication.cpp:312).
THEOREM NotificationsNameTheVolume == LifeSpec => []NotificationNamesVolume
  BY LifeInvariant, PTL DEF LifeInv

\* OnImageLoadNoitify has the buffer it writes to, until a DriverEntry fails
\* (main.cpp:81-91, 247-268).
THEOREM ImageCallbacksHaveBuffer == LifeSpec => []ImageCallbackHasBuffer
  BY LifeInvariant, PTL DEF LifeInv

\* Loading and unloading leaves nothing behind until a DriverEntry fails
\* (main.cpp:157-170, 230-234, 267-284).
THEOREM UnloadLeavesNothing == LifeSpec => []NothingLeftBehind
  BY LifeInvariant, PTL DEF LifeInv

\* What DfUnload has freed is read by callbacks only while FltUnregisterFilter
\* waits for them, and none outlives the image (main.cpp:271-285).
THEOREM FreedNamesOnlyInUnload == LifeSpec => []FreedNameOnlyInUnload
<1>1. LifeInv => FreedNameOnlyInUnload
  BY DEF LifeInv, CallbackInv, FreedNameOnlyInUnload
<1> QED
  BY <1>1, LifeInvariant, PTL

-----------------------------------------------------------------------------
(* The port while the driver is loaded, unloaded and fails to start.         *)

\* A start that fails unregisters the filter before there were connections.
StartUndone ==
    /\ driver' = "unloaded"
    /\ UNCHANGED <<loads, gServerPortState, gClientPort, gClientPortState,
                   connecting, closing, conn, reads, inbox>>

\* What the driver's threads do to the port are steps of ShieldPort, or undo a
\* DriverEntry.
LEMMA LifeStepOfPort ==
    ASSUME [LifeNext]_driverVars
    PROVE  [PortNext]_portVars \/ StartUndone
<1>1. CASE UNCHANGED driverVars
  BY <1>1 DEF driverVars
<1>2. CASE Load \/ BeginUnload
  BY <1>2 DEF Load, BeginUnload
<1>3. CASE LifeStep
  <2>1. CASE AllocateCurrentProcess \/ AllocateVolumeGUID \/ FltRegisterFilter
    BY <2>1 DEF AllocateCurrentProcess, AllocateVolumeGUID, FltRegisterFilter,
                EntryFails
  <2>2. CASE PsSetLoadImageNotifyRoutine \/ FltStartFiltering
    BY <2>2 DEF PsSetLoadImageNotifyRoutine, FltStartFiltering
  <2>3. CASE InitializeServerPort
    BY <2>3 DEF InitializeServerPort, PortNext, DriverStep
  <2>4. CASE StartFails
    BY <2>4 DEF StartFails, StartUndone
  <2>5. CASE RemoveLoadImageNotifyRoutine \/ LoadImageNotifyRoutineRemoved
    BY <2>5 DEF RemoveLoadImageNotifyRoutine, LoadImageNotifyRoutineRemoved
  <2>6. CASE DisconnectServerPort
    BY <2>6 DEF DisconnectServerPort, PortNext, DriverStep
  <2>7. CASE FreeCurrentProcess \/ FreeVolumeGUID
    BY <2>7 DEF FreeCurrentProcess, FreeVolumeGUID
  <2>8. CASE UnregisterFilter
    BY <2>8 DEF UnregisterFilter, PortNext
  <2>9. QED
    BY <1>3, <2>1, <2>2, <2>3, <2>4, <2>5, <2>6, <2>7, <2>8 DEF LifeStep
<1>4. ASSUME NEW v \in Vol,
             \/ DfInstanceSetup(v) \/ FltGetVolumeGuidName(v)
             \/ VolumeNamed(v) \/ InstanceTeardown(v)
      PROVE  UNCHANGED portVars
  BY <1>4 DEF DfInstanceSetup, FltGetVolumeGuidName, VolumeNamed,
              InstanceTeardown
<1>5. CASE OnImageLoadNoitify \/ ImageNameCopied
  BY <1>5 DEF OnImageLoadNoitify, ImageNameCopied
<1>6. ASSUME NEW t \in Thread, NEW v \in Vol, FileRenamed(t, v)
      PROVE  UNCHANGED portVars
  BY <1>6 DEF FileRenamed
<1>7. ASSUME NEW t \in Thread, ReadLength(t) \/ CopyName(t)
      PROVE  UNCHANGED portVars
  BY <1>7 DEF ReadLength, CopyName
<1>8. ASSUME NEW t \in Thread, SendName(t)
      PROVE  PortNext
  BY <1>8 DEF SendName, PortNext
<1>9. CASE PortCallback
  BY <1>9 DEF PortCallback, PortNext, DriverStep
<1>10. CASE \E c \in Client : ClientPortStep(c)
  BY <1>10 DEF PortNext
<1>11. QED
  BY <1>1, <1>2, <1>3, <1>4, <1>5, <1>6, <1>7, <1>8, <1>9, <1>10 DEF LifeNext

PortInv == PortTypeOK /\ PortIsOpen /\ TrackedClientIsVisible

LEMMA PortInvariant == LifeSpec => []PortInv
<1>1. LifeInit => PortInv
  BY PortAssumption
     DEF LifeInit, PortInit, PortInv, PortTypeOK, PORT_STATE, ClosingStep,
         Connection, PortIsOpen, TrackedClientIsVisible
<1>2. PortInv /\ [LifeNext]_driverVars => PortInv'
  <2> SUFFICES ASSUME PortInv, [LifeNext]_driverVars PROVE PortInv'
    OBVIOUS
  <2>1. CASE [PortNext]_portVars
    BY <2>1, PortStepTypes, PortStepIsOpen, PortStepIsVisible DEF PortInv
  <2>2. CASE StartUndone
    BY <2>2 DEF StartUndone, PortInv, PortTypeOK, PortIsOpen,
                TrackedClientIsVisible
  <2>3. QED
    BY <2>1, <2>2, LifeStepOfPort
<1>3. QED
  BY <1>1, <1>2, PTL DEF LifeSpec

\* gClientPort is null or a connection the filter manager still has, in every
\* step of DriverEntry and DfUnload, when either fails too, and while callbacks
\* send (communication.cpp:140, 162, main.cpp:220-234, 271-285).
THEOREM PortIsOpenInLifecycle == LifeSpec => []PortIsOpen
  BY PortInvariant, PTL DEF PortInv

\* Nor does any of these steps leave a tracked client unseen for good
\* (communication.cpp:140-145, 162-165).
THEOREM TrackedClientIsSeenInLifecycle == LifeSpec => []TrackedClientIsVisible
  BY PortInvariant, PTL DEF PortInv
=============================================================================
