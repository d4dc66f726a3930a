------------------------ MODULE BackupOnDeleteProofs ------------------------
(***************************************************************************)
(* Safety of the whole system, for every number of files, names, threads,  *)
(* clients, restarts and reloads, and for lists of any length.             *)
(***************************************************************************)
EXTENDS BackupOnDelete, ShieldPortProofs

\* A file on disk has a path.
DiskInv == \A f \in disk : at[f] # NoPath

\* A request under way is for a file that was created; from HideFile on it
\* has the name it queried.
RequestInv ==
    \A t \in Thread :
        /\ req[t].pc # "idle" => /\ req[t].file \in File
                                 /\ at[req[t].file] \in Path
        /\ req[t].pc \in {"hide", "rename", "send"} => req[t].name \in Path

BasicInv == TypeOK /\ DiskInv /\ RequestInv /\ RunHoldsFront

-----------------------------------------------------------------------------
(* The volume *)

LEMMA PathTypes ==
    /\ \A d \in Dir, n \in Name : Original(d, n) \in Path /\ Held(d, n) \in Path
    /\ \A p \in Path : p.dir \in Dir /\ p.name \in Name
    /\ \A p \in Path, d \in Dir : [p EXCEPT !.dir = d] \in Path
    /\ NoPath \notin Path
BY NoPathAssumption DEF Path, Original, Held

\* How any step may change the volume: a file that is off the disk stays off
\* it, and keeps its path if it ever had one.
VolumeStep ==
    /\ VolumeTypeOK'
    /\ DiskInv'
    /\ \A f \in File : at[f] # NoPath => at'[f] # NoPath
    /\ \A f \in File \ disk : at[f] # NoPath => f \notin disk' /\ at'[f] = at[f]

LEMMA CreateFileStep ==
    ASSUME VolumeTypeOK, DiskInv, NEW f \in File, NEW d \in Dir, NEW n \in Name,
           CreateFile(f, d, n)
    PROVE  VolumeStep
BY PathTypes DEF VolumeTypeOK, DiskInv, CreateFile, VolumeStep

\* A directory takes along only the files on disk.
LEMMA RenameDirectoryStep ==
    ASSUME VolumeTypeOK, DiskInv, NEW d \in Dir, NEW e \in Dir,
           RenameDirectory(d, e)
    PROVE  VolumeStep
<1>1. \A f \in disk : at[f] \in Path
  BY DEF VolumeTypeOK, DiskInv
<1> QED
  BY <1>1, PathTypes
     DEF VolumeTypeOK, DiskInv, RenameDirectory, VolumeStep

LEMMA RemoveStep ==
    ASSUME VolumeTypeOK, DiskInv, NEW gone \in SUBSET File,
           NEW who \in Remover, Remove(gone, who), UNCHANGED at
    PROVE  VolumeStep
BY DEF VolumeTypeOK, DiskInv, Remove, VolumeStep

LEMMA MoveFileStep ==
    ASSUME VolumeTypeOK, DiskInv, NEW f \in File, NEW p \in Path,
           NEW who \in Remover, MoveFile(f, p, who)
    PROVE  VolumeStep
<1>1. Occupant(p) \ {f} \in SUBSET File
  BY DEF VolumeTypeOK, Occupant
<1>2. p # NoPath
  BY PathTypes
<1> QED
  BY <1>1, <1>2 DEF VolumeTypeOK, DiskInv, Remove, MoveFile, VolumeStep

LEMMA UnchangedVolumeStep ==
    ASSUME VolumeTypeOK, DiskInv, UNCHANGED volVars
    PROVE  VolumeStep
BY DEF VolumeTypeOK, DiskInv, volVars, VolumeStep

\* HideFile only marks a file that is on disk.
LEMMA HideFileStep ==
    ASSUME VolumeTypeOK, DiskInv, NEW t \in Thread, HideFile(t)
    PROVE  VolumeStep
BY DEF VolumeTypeOK, DiskInv, HideFile, VolumeStep

-----------------------------------------------------------------------------
(* What the steps of the client, and the others, leave alone *)

LEMMA ClientStepFrame ==
    ASSUME ClientStep
    PROVE  /\ UNCHANGED shieldVars
           /\ RunNotify \/ UNCHANGED volVars
           /\ UNCHANGED portVars \/ ClientPortStep(App)
<1> USE DEF ClientPortStep
<1>1. CASE ConnectStep
  BY <1>1 DEF ConnectStep, Launch, OpenPort, CompletionPortCreated,
              CompletionPortFails, ConnectFails
<1>2. CASE ClientExit
  BY <1>2 DEF ClientExit
<1>3. CASE ReaderStep
  BY <1>3 DEF ReaderStep, PostRead, GetMessageFails, ReadTimesOut, GetMessage,
              PushBack
<1>4. CASE RunStep
  BY <1>4 DEF RunStep, RunFront, RunExists, RunFileSize, RunReadFile,
              RunPost, RunUpload, RunUploadFails, RunNotify, RunNotifyFails,
              RunPopFront
<1>5. CASE PushRacesPop
  BY <1>5 DEF PushRacesPop
<1> QED
  BY <1>1, <1>2, <1>3, <1>4, <1>5 DEF ClientStep

\* The steps that are not the client's change of its variables only dropped.
LEMMA OtherStepFrame ==
    ASSUME [Next]_vars
    PROVE  ClientStep \/ UNCHANGED clientVarsButDropped
<1> USE DEF clientVars, clientVarsButDropped
<1>1. CASE UserStep
  BY <1>1 DEF UserStep
<1>2. ASSUME NEW t \in Thread, CallbackStep(t)
      PROVE  UNCHANGED clientVarsButDropped
  BY <1>2 DEF CallbackStep, TakeOver, Announce, PassOn
<1>3. CASE FilterUnregistered \/ OtherClientStep
  BY <1>3 DEF FilterUnregistered, OtherClientStep
<1>4. CASE UNCHANGED vars
  BY <1>4 DEF vars
<1> QED
  BY <1>1, <1>2, <1>3, <1>4 DEF Next

-----------------------------------------------------------------------------
(* Every step, seen from the port, is a step of the port *)

LEMMA CallbackPortStep ==
    ASSUME BasicInv, NEW t \in Thread, CallbackStep(t)
    PROVE  [PortNext]_portVars
<1>1. CASE Announce(t)
  <2>1. HeldPath(t) \in Message
    BY <1>1, PathTypes, ShieldAssumption
       DEF BasicInv, RequestInv, Announce, SendReanmeInfoToClient, HeldPath
  <2> QED
    BY <1>1, <2>1 DEF Announce, SendReanmeInfoToClient, PortNext
<1>2. CASE ~Announce(t)
  BY <1>2 DEF CallbackStep, Check, QueryName, HideFile, PassOn, LowerDriver,
              TakeOver, RenameOnDelete
<1> QED
  BY <1>1, <1>2

LEMMA NextIsPortNext ==
    ASSUME BasicInv, [Next]_vars
    PROVE  [PortNext]_portVars
<1>1. CASE UserStep
  BY <1>1 DEF UserStep, Issue
<1>2. CASE \E t \in Thread : CallbackStep(t)
  BY <1>2, CallbackPortStep
<1>3. CASE DriverStep
  BY <1>3 DEF PortNext
<1>4. CASE FilterUnregistered
  BY <1>4 DEF FilterUnregistered, PortNext
<1>5. CASE ClientStep
  BY <1>5, ClientStepFrame, ClientAssumption DEF PortNext
<1>6. CASE OtherClientStep
  BY <1>6 DEF OtherClientStep, PortNext
<1>7. CASE UNCHANGED vars
  BY <1>7 DEF vars
<1> QED
  BY <1>1, <1>2, <1>3, <1>4, <1>5, <1>6, <1>7 DEF Next

-----------------------------------------------------------------------------
(* The volume, whoever changes it *)

LEMMA CallbackVolumeStep ==
    ASSUME BasicInv, NEW t \in Thread, CallbackStep(t)
    PROVE  VolumeStep
<1> USE DEF BasicInv, TypeOK
<1>1. CASE Check(t) \/ QueryName(t) \/ Announce(t)
  BY <1>1, UnchangedVolumeStep
     DEF Check, QueryName, Announce, SendReanmeInfoToClient
<1>2. CASE HideFile(t)
  BY <1>2, HideFileStep
<1>3. CASE TakeOver(t)
  <2> DEFINE p == Held(at[req[t].file].dir, req[t].name.name)
  <2>1. UNCHANGED volVars \/ MoveFile(req[t].file, p, "shield")
    BY <1>3 DEF TakeOver, RenameOnDelete
  <2>2. p \in Path /\ req[t].file \in File
    BY <1>3, PathTypes DEF TakeOver, RenameOnDelete, RequestInv
  <2> QED
    BY <2>1, <2>2, UnchangedVolumeStep, MoveFileStep DEF Remover
<1>4. CASE PassOn(t)
  <2> DEFINE f == req[t].file
  <2>1. f \in File /\ at[f] \in Path
    BY <1>4 DEF PassOn, LowerDriver, RequestInv
  <2>2. {f} \cap disk \in SUBSET File
    BY <2>1
  <2>3. \A p \in NewPaths(at[f]) : MoveFile(f, p, "request") => VolumeStep
    BY <2>1, PathTypes, MoveFileStep DEF Remover, NewPaths
  <2>4. Remove({f} \cap disk, "request") /\ UNCHANGED at => VolumeStep
    BY <2>2, RemoveStep DEF Remover
  <2> QED
    BY <1>4, <2>3, <2>4, UnchangedVolumeStep DEF PassOn, LowerDriver
<1> QED
  BY <1>1, <1>2, <1>3, <1>4 DEF CallbackStep

LEMMA NextIsVolumeStep ==
    ASSUME BasicInv, [Next]_vars
    PROVE  VolumeStep
<1> USE DEF BasicInv, TypeOK
<1>1. CASE UserStep
  BY <1>1, CreateFileStep, RenameDirectoryStep, UnchangedVolumeStep
     DEF UserStep, Issue
<1>2. CASE \E t \in Thread : CallbackStep(t)
  BY <1>2, CallbackVolumeStep
<1>3. CASE UNCHANGED volVars
  BY <1>3, UnchangedVolumeStep
<1>4. CASE ClientStep
  <2>1. CASE RunNotify
    <3>1. Occupant(run.path) \in SUBSET File
      BY DEF VolumeTypeOK, Occupant
    <3> QED
      BY <2>1, <3>1, RemoveStep DEF RunNotify, Remover
  <2> QED
    BY <1>4, <2>1, <1>3, ClientStepFrame
<1> QED
  BY <1>1, <1>2, <1>3, <1>4
     DEF Next, FilterUnregistered, OtherClientStep, vars

-----------------------------------------------------------------------------
(* Requests *)

\* What a thread's request has to be in the next state.
RequestOK(t) ==
    /\ req'[t] \in Request
    /\ req'[t].pc # "idle" => /\ req'[t].file \in File
                              /\ at[req'[t].file] \in Path
    /\ req'[t].pc \in {"hide", "rename", "send"} => req'[t].name \in Path

LEMMA RequestsOK ==
    ASSUME VolumeTypeOK, VolumeStep, DOMAIN req' = Thread,
           req' = [t \in Thread |-> req'[t]],
           \A t \in Thread : RequestOK(t)
    PROVE  (ShieldTypeOK /\ RequestInv)'
<1>1. ShieldTypeOK'
  BY DEF ShieldTypeOK, RequestOK
<1>2. \A f \in File : at[f] \in Path => at'[f] \in Path
  BY PathTypes DEF VolumeStep, VolumeTypeOK
<1> QED
  BY <1>1, <1>2 DEF RequestInv, RequestOK

LEMMA CallbackRequestStep ==
    ASSUME BasicInv, NEW t \in Thread, CallbackStep(t)
    PROVE  /\ req' = [req EXCEPT ![t] = req'[t]]
           /\ RequestOK(t)
<1> USE DEF BasicInv, TypeOK, ShieldTypeOK, Request, RequestStep, Operation
<1>1. req[t] \in Request
  OBVIOUS
<1>2. ASSUME Finish(t)
      PROVE  req' = [req EXCEPT ![t] = req'[t]] /\ RequestOK(t)
  BY <1>2 DEF Finish, NoRequest, RequestOK
<1>3. ASSUME NEW pc \in RequestStep, req[t].pc # "idle", Continue(t, pc),
             pc \in {"check", "query", "pass"} \/ req[t].pc \in {"hide", "rename"}
      PROVE  req' = [req EXCEPT ![t] = req'[t]] /\ RequestOK(t)
  BY <1>1, <1>3 DEF Continue, RequestInv, RequestOK
<1>4. CASE Check(t)
  BY <1>3, <1>4 DEF Check
<1>5. CASE QueryName(t)
  <2>1. CASE req' = [req EXCEPT ![t].pc = "hide", ![t].name = at[req[t].file]]
    BY <1>1, <1>5, <2>1 DEF QueryName, RequestInv, RequestOK
  <2> QED
    BY <1>2, <1>3, <1>5, <2>1 DEF QueryName
<1>6. CASE HideFile(t)
  BY <1>3, <1>6 DEF HideFile
<1>7. CASE PassOn(t) \/ Announce(t)
  BY <1>2, <1>7 DEF PassOn, LowerDriver, Announce, SendReanmeInfoToClient
<1>8. CASE TakeOver(t)
  BY <1>2, <1>3, <1>8 DEF TakeOver, RenameOnDelete
<1> QED
  BY <1>4, <1>5, <1>6, <1>7, <1>8 DEF CallbackStep

LEMMA NextIsRequestStep ==
    ASSUME BasicInv, [Next]_vars
    PROVE  (ShieldTypeOK /\ RequestInv)'
<1> USE DEF BasicInv, TypeOK, ShieldTypeOK
<1>1. VolumeStep
  BY NextIsVolumeStep
<1>2. ASSUME NEW t \in Thread
      PROVE  req[t] \in Request
               /\ (req[t].pc # "idle" => req[t].file \in File /\ at[req[t].file] \in Path)
               /\ (req[t].pc \in {"hide", "rename", "send"} => req[t].name \in Path)
  BY DEF RequestInv
<1>3. CASE UNCHANGED req
  BY <1>1, <1>2, <1>3, RequestsOK DEF RequestOK
<1>4. ASSUME NEW t \in Thread, req' = [req EXCEPT ![t] = req'[t]], RequestOK(t)
      PROVE  (ShieldTypeOK /\ RequestInv)'
  <2>1. \A u \in Thread \ {t} : RequestOK(u)
    BY <1>2, <1>4 DEF RequestOK
  <2> QED
    BY <1>1, <1>4, <2>1, RequestsOK
<1>5. ASSUME NEW t \in Thread, NEW f \in File, NEW op \in Op, NEW mode \in Mode,
             Issue(t, f, op, mode)
      PROVE  (ShieldTypeOK /\ RequestInv)'
  <2>1. req'[t] = [pc   |-> IF driver = "unloaded" THEN "pass" ELSE "check",
                   file |-> f, op |-> op, mode |-> mode, name |-> NoPath]
    BY <1>5 DEF Issue
  <2>2. at[f] \in Path
    BY <1>5 DEF Issue, VolumeTypeOK, DiskInv
  <2>3. op \in Operation /\ mode \in {"UserMode", "KernelMode"}
    BY ShieldAssumption
  <2>4. RequestOK(t)
    BY <2>1, <2>2, <2>3 DEF RequestOK, Request, RequestStep
  <2>5. req' = [req EXCEPT ![t] = req'[t]]
    BY <1>5 DEF Issue
  <2> QED
    BY <1>4, <2>4, <2>5
<1>6. CASE UserStep
  BY <1>3, <1>5, <1>6 DEF UserStep, shieldVars
<1>7. CASE \E t \in Thread : CallbackStep(t)
  BY <1>4, <1>7, CallbackRequestStep
<1>8. CASE ClientStep
  BY <1>3, <1>8, ClientStepFrame DEF shieldVars
<1> QED
  BY <1>3, <1>6, <1>7, <1>8
     DEF Next, FilterUnregistered, OtherClientStep, vars, shieldVars

-----------------------------------------------------------------------------
(* The client's variables *)

LEMMA QueueTypes ==
    ASSUME NEW S, NEW q \in Seq(S)
    PROVE  /\ QueuedPaths(q) \subseteq S
           /\ \A i \in 1 .. Len(q) : q[i] \in S
           /\ q # <<>> => Head(q) \in S /\ Tail(q) \in Seq(S)
           /\ \A e \in S : Append(q, e) \in Seq(S)
BY DEF QueuedPaths

\* A collision leaves a list of the entries there were, and garbage.
LEMMA RacedTypes ==
    ASSUME NEW S, NEW q \in Seq(S), q # <<>>, NEW e \in S, NoPath \in S,
           NEW r \in RacedDeques(q, e)
    PROVE  r \in Seq(S)
<1>1. Tail(q) \in Seq(S) /\ Append(Tail(q), e) \in Seq(S)
  BY QueueTypes
<1>2. Append(Append(Tail(q), e), NoPath) \in Seq(S)
  BY <1>1
<1>3. <<NoPath>> \in Seq(S) /\ <<e, NoPath>> \in Seq(S)
  OBVIOUS
<1>4. Len(q) # 1 => SubSeq(q, 2, Len(q) - 1) \in Seq(S)
  OBVIOUS
<1>5. Len(q) # 1 => SubSeq(q, 2, Len(q) - 1) \o <<e, NoPath>> \in Seq(S)
  BY <1>3, <1>4
<1> QED
  BY <1>1, <1>2, <1>3, <1>5 DEF RacedDeques

LEMMA ConnectStepTypes ==
    ASSUME BasicInv, ConnectStep
    PROVE  ClientTypeOK' /\ RunHoldsFront'
<1> USE DEF BasicInv, TypeOK, ClientTypeOK, RunHoldsFront
<1>1. QueuedPaths(inbox[App]) \subseteq Path
  BY QueueTypes, ShieldAssumption, ClientAssumption DEF PortTypeOK
<1>2. CASE Launch
  BY <1>2, ClientAssumption DEF Launch
<1>3. CASE OpenPort
  BY <1>3 DEF OpenPort
<1>4. CASE CompletionPortCreated
  BY <1>4 DEF CompletionPortCreated
<1>5. TryAgain => /\ proc' \in {"starting", "running"}
                  /\ tries' \in 0 .. MAX_NUM_TRIES
  BY ClientAssumption DEF TryAgain
<1>6. CASE CompletionPortFails
  BY <1>1, <1>5, <1>6 DEF CompletionPortFails
<1>7. CASE ConnectFails
  BY <1>5, <1>7 DEF ConnectFails
<1> QED
  BY <1>2, <1>3, <1>4, <1>6, <1>7 DEF ConnectStep

LEMMA ClientExitTypes ==
    ASSUME BasicInv, ClientExit
    PROVE  ClientTypeOK' /\ RunHoldsFront'
<1> USE DEF BasicInv, TypeOK, ClientTypeOK
<1>1. QueuedPaths(inbox[App]) \subseteq Path
  BY QueueTypes, ShieldAssumption, ClientAssumption DEF PortTypeOK
<1>2. QueuedPaths(Unfinished) \subseteq Path \cup {NoPath}
  <2>1. QueuedPaths(files_to_backup_) \subseteq Path \cup {NoPath}
    BY QueueTypes
  <2>2. CASE run.pc = "pop"
    <3>1. /\ Unfinished = Tail(files_to_backup_)
          /\ Tail(files_to_backup_) \in Seq(Path \cup {NoPath})
      BY <2>2, QueueTypes DEF Unfinished, RunHoldsFront
    <3> QED
      BY <3>1, QueueTypes
  <2> QED
    BY <2>1, <2>2 DEF Unfinished
<1>3. IdleReader \in Reader /\ IdleRunner \in Runner
  BY DEF IdleReader, IdleRunner, Reader, Runner, Contents
<1>4. reader.path \in Path \cup {NoPath}
  BY DEF Reader
<1>5. RunHoldsFront'
  BY DEF ClientExit, RunHoldsFront, IdleRunner
<1>6. files_to_backup_' \in Seq(Path \cup {NoPath}) /\ tries' \in 0 .. MAX_NUM_TRIES
  BY ClientAssumption DEF ClientExit
<1>7. dropped' \subseteq Path \cup {NoPath}
  BY <1>1, <1>2, <1>4 DEF ClientExit
<1> QED
  BY <1>3, <1>5, <1>6, <1>7 DEF ClientExit

LEMMA ReaderStepTypes ==
    ASSUME BasicInv, ReaderStep
    PROVE  ClientTypeOK' /\ RunHoldsFront'
<1> USE DEF BasicInv, TypeOK, ClientTypeOK
<1>1. IdleReader \in Reader
  BY DEF IdleReader, Reader
<1>2. CASE PostRead
  BY <1>2 DEF PostRead, Reader, RunHoldsFront
<1>3. CASE GetMessageFails
  BY <1>3 DEF GetMessageFails, RunHoldsFront
<1>4. CASE ReadTimesOut
  BY <1>1, <1>4 DEF ReadTimesOut, RunHoldsFront
<1>5. CASE GetMessage
  <2>1. Head(inbox[App]) \in Path
    BY <1>5, QueueTypes, ShieldAssumption, ClientAssumption
       DEF GetMessage, GetQueuedCompletionStatus, PortTypeOK
  <2>2. PathsRead(Head(inbox[App])) \subseteq Path \cup {NoPath}
    BY <2>1 DEF PathsRead
  <2>3. reader' \in Reader
    BY <1>1, <1>5, <2>2 DEF GetMessage, Reader
  <2>4. dropped' \subseteq Path \cup {NoPath}
    BY <1>5, <2>1 DEF GetMessage
  <2> QED
    BY <1>5, <2>3, <2>4 DEF GetMessage, RunHoldsFront
<1>6. CASE PushBack
  <2>1. files_to_backup_' \in Seq(Path \cup {NoPath})
    BY <1>6 DEF PushBack, Reader
  <2>2. RunHoldsFront'
    BY <1>6 DEF PushBack, RunHoldsFront, Reader
  <2> QED
    BY <1>1, <1>6, <2>1, <2>2 DEF PushBack
<1> QED
  BY <1>2, <1>3, <1>4, <1>5, <1>6 DEF ReaderStep

LEMMA RunStepTypes ==
    ASSUME BasicInv, RunStep \/ PushRacesPop
    PROVE  ClientTypeOK' /\ RunHoldsFront'
<1> USE DEF BasicInv, TypeOK, ClientTypeOK, RunHoldsFront
<1>1. IdleReader \in Reader /\ IdleRunner \in Runner /\ IdleRunner.pc = "loop"
  BY DEF IdleReader, IdleRunner, Reader, Runner, Contents
<1>2. \A pc \in {"size", "notify", "pop"} : GoTo(pc) =>
        /\ run' \in Runner
        /\ run'.path = run.path
  BY DEF GoTo, Runner
<1>3. CASE RunFront
  <2>1. Head(files_to_backup_) \in Path \cup {NoPath}
    BY <1>3 DEF RunFront
  <2> QED
    BY <1>3, <2>1 DEF RunFront, Runner
<1>4. CASE RunExists
  BY <1>2, <1>4 DEF RunExists
<1>5. CASE RunFileSize
  <2>1. Occupant(run.path) \subseteq Contents
    BY DEF VolumeTypeOK, Occupant, Contents
  <2> QED
    BY <1>1, <1>5, <2>1 DEF RunFileSize, Runner
<1>6. CASE RunReadFile
  BY <1>6 DEF RunReadFile, Runner
<1>7. CASE RunUpload
  <2>1. run.data \in Contents /\ run.path \in Path \cup {NoPath}
    BY DEF Runner
  <2>2. run' \in Runner /\ run'.path = run.path
    BY <1>7 DEF RunUpload, Runner, Contents
  <2> QED
    BY <1>7, <2>1, <2>2 DEF RunUpload
<1>8. CASE RunPost \/ RunUploadFails \/ RunNotifyFails
  <2>1. run.data \in Contents /\ run.path \in Path \cup {NoPath}
    BY DEF Runner
  <2> QED
    BY <1>1, <1>8, <2>1 DEF RunPost, RunUploadFails, RunNotifyFails
<1>9. CASE RunNotify
  BY <1>2, <1>9 DEF RunNotify
<1>10. CASE RunPopFront
  <2>1. files_to_backup_' \in Seq(Path \cup {NoPath})
    BY <1>10 DEF RunPopFront
  <2> QED
    BY <1>1, <1>10, <2>1 DEF RunPopFront
<1>11. CASE PushRacesPop
  <2>1. reader.path \in Path \cup {NoPath}
    BY DEF Reader
  <2>2. files_to_backup_' \in Seq(Path \cup {NoPath})
    BY <1>11, <2>1, RacedTypes DEF PushRacesPop
  <2>3. dropped' \subseteq Path \cup {NoPath}
    <3>1. files_to_backup_ # <<>>
      BY <1>11 DEF PushRacesPop
    <3>2. Tail(files_to_backup_) \in Seq(Path \cup {NoPath})
      BY <3>1
    <3>3. QueuedPaths(Tail(files_to_backup_)) \subseteq Path \cup {NoPath}
      BY <3>2, QueueTypes
    <3> QED
      BY <1>11, <2>1, <3>3 DEF PushRacesPop
  <2> QED
    BY <1>1, <1>11, <2>2, <2>3 DEF PushRacesPop
<1> QED
  BY <1>3, <1>4, <1>5, <1>6, <1>7, <1>8, <1>9, <1>10, <1>11 DEF RunStep

LEMMA NextIsClientTyped ==
    ASSUME BasicInv, [Next]_vars
    PROVE  ClientTypeOK' /\ RunHoldsFront'
<1> USE DEF BasicInv, TypeOK
<1>1. CASE ClientStep
  BY <1>1, ConnectStepTypes, ClientExitTypes, ReaderStepTypes, RunStepTypes
     DEF ClientStep
<1>2. ASSUME UNCHANGED clientVarsButDropped,
             dropped' \subseteq Path \cup {NoPath}
      PROVE  ClientTypeOK' /\ RunHoldsFront'
  BY <1>2 DEF clientVarsButDropped, ClientTypeOK, RunHoldsFront
<1>3. CASE UNCHANGED clientVars
  BY <1>2, <1>3 DEF clientVars, clientVarsButDropped, ClientTypeOK
<1>4. dropped \subseteq Path \cup {NoPath}
  BY DEF ClientTypeOK
<1>5. VolumeTypeOK'
  BY NextIsVolumeStep DEF VolumeStep
<1>6. CarriedOff \subseteq Path \cup {NoPath}
  BY <1>5 DEF CarriedOff, VolumeTypeOK
<1>7. ASSUME NEW t \in Thread, CallbackStep(t)
      PROVE  ClientTypeOK' /\ RunHoldsFront'
  <2>1. req[t].pc # "idle" => at'[req[t].file] \in Path \cup {NoPath}
    BY <1>5 DEF VolumeTypeOK, RequestInv
  <2>2. req[t].pc \in {"rename", "send"} => HeldPath(t) \in Path
    BY PathTypes DEF RequestInv, HeldPath
  <2>3. CASE TakeOver(t)
    BY <1>2, <1>4, <2>1, <2>3 DEF TakeOver, RenameOnDelete
  <2>4. CASE Announce(t)
    BY <1>2, <1>4, <2>2, <2>4 DEF Announce, SendReanmeInfoToClient
  <2>5. CASE PassOn(t)
    BY <1>2, <1>4, <1>6, <2>5 DEF PassOn
  <2> QED
    BY <1>3, <1>7, <2>3, <2>4, <2>5 DEF CallbackStep
<1>8. CASE UserStep
  BY <1>2, <1>3, <1>4, <1>6, <1>8 DEF UserStep
<1> QED
  BY <1>1, <1>3, <1>7, <1>8
     DEF Next, FilterUnregistered, OtherClientStep, vars

-----------------------------------------------------------------------------
\* Types, and what the two threads of the client and the requests know.
THEOREM BasicInvariant == Spec => []BasicInv
<1>1. Init => BasicInv
  <2> USE DEF Init, BasicInv, TypeOK
  <2>1. Init => VolumeTypeOK /\ DiskInv
    BY DEF VolumeInit, VolumeTypeOK, DiskInv, Remover
  <2>2. Init => PortTypeOK
    BY PortAssumption
       DEF PortInit, PortTypeOK, PORT_STATE, ClosingStep, Connection
  <2>3. Init => ShieldTypeOK /\ RequestInv
    BY DEF ShieldInit, ShieldTypeOK, RequestInv, NoRequest, Request,
           RequestStep, Operation
  <2>4. Init => ClientTypeOK /\ RunHoldsFront
    <3>1. IdleReader \in Reader /\ IdleRunner \in Runner
      BY DEF IdleReader, IdleRunner, Reader, Runner, Contents
    <3>2. ClientInit => RunHoldsFront
      BY DEF ClientInit, Forgotten, IdleRunner, RunHoldsFront
    <3>3. 0 \in 0 .. MAX_NUM_TRIES /\ 0 \in 0 .. MaxLaunch
      BY ClientAssumption
    <3>4. <<>> \in Seq(Path \cup {NoPath})
      OBVIOUS
    <3>5. ClientInit => ClientTypeOK
      BY <3>1, <3>3, <3>4, Zenon DEF ClientInit, Forgotten, ClientTypeOK
    <3> QED
      BY <3>2, <3>5
  <2> QED
    BY <2>1, <2>2, <2>3, <2>4
<1>2. BasicInv /\ [Next]_vars => BasicInv'
  <2> SUFFICES ASSUME BasicInv, [Next]_vars
               PROVE  BasicInv'
    OBVIOUS
  <2>1. VolumeTypeOK' /\ DiskInv'
    BY NextIsVolumeStep DEF VolumeStep
  <2>2. PortTypeOK'
    BY NextIsPortNext, PortStepTypes DEF BasicInv, TypeOK
  <2> QED
    BY <2>1, <2>2, NextIsRequestStep, NextIsClientTyped DEF BasicInv, TypeOK
<1> QED
  BY <1>1, <1>2, PTL DEF Spec

\* Every variable of the system keeps its type.
THEOREM TypeCorrect == Spec => []TypeOK
<1>1. BasicInv => TypeOK
  BY DEF BasicInv
<1> QED
  BY <1>1, BasicInvariant, PTL

\* The client always works on the head of its list, and pops what it worked
\* on.
THEOREM RunWorksOnFront == Spec => []RunHoldsFront
<1>1. BasicInv => RunHoldsFront
  BY DEF BasicInv
<1> QED
  BY <1>1, BasicInvariant, PTL

\* The system implements the port's own specification, so the port's
\* invariants hold in it.
THEOREM SystemRunsPort == Spec => PortSpec
<1>1. Init => PortInit
  BY DEF Init
<1>2. BasicInv /\ [Next]_vars => [PortNext]_portVars
  BY NextIsPortNext
<1> QED
  BY <1>1, <1>2, BasicInvariant, PTL DEF Spec, PortSpec

\* gClientPort never dangles, whatever the requests, the volume and the client
\* do meanwhile (communication.cpp:140, 162).
THEOREM SystemPortIsOpen == Spec => []PortIsOpen
  BY SystemRunsPort, PortNeverDangles, PTL

\* A client whose port is set is seen, or about to be dropped
\* (communication.cpp:140-145, 162-165).
THEOREM SystemSeesTrackedClient == Spec => []TrackedClientIsVisible
  BY SystemRunsPort, TrackedClientIsSeen, PTL

-----------------------------------------------------------------------------
(* What the client works on: paths the shield gave, and the garbage a        *)
(* collision of push_back and pop_front may leave.                           *)

HeldOrGarbage == {p \in Path : p.held} \cup {NoPath}

HeldInv ==
    /\ inbox[App] \in Seq(HeldOrGarbage)
    /\ reader.path \in HeldOrGarbage
    /\ run.path \in HeldOrGarbage
    /\ files_to_backup_ \in Seq(HeldOrGarbage)

LEMMA HeldInbox ==
    ASSUME BasicInv, HeldInv, [Next]_vars
    PROVE  inbox'[App] \in Seq(HeldOrGarbage)
<1> USE DEF BasicInv, TypeOK, PortTypeOK, HeldInv
<1>1. <<>> \in Seq(HeldOrGarbage)
  OBVIOUS
<1>2. inbox[App] # <<>> => Tail(inbox[App]) \in Seq(HeldOrGarbage)
  BY QueueTypes
<1>3. App \in Client
  BY ClientAssumption
<1>4. ASSUME NEW t \in Thread, Announce(t)
      PROVE  inbox'[App] \in Seq(HeldOrGarbage)
  <2>1. HeldPath(t) \in HeldOrGarbage
    BY <1>4, PathTypes
       DEF Announce, SendReanmeInfoToClient, RequestInv, HeldPath,
           HeldOrGarbage, Held
  <2>2. Append(inbox[App], HeldPath(t)) \in Seq(HeldOrGarbage)
    BY <2>1
  <2>3. gClientPort # NoPort => gClientPort \in Client
    OBVIOUS
  <2> QED
    BY <1>3, <1>4, <2>2, <2>3
       DEF Announce, SendReanmeInfoToClient, SendMessageToClient, CanDeliver
<1>5. ASSUME NEW c \in Client, ClientPortStep(c)
      PROVE  inbox'[App] \in Seq(HeldOrGarbage)
  BY <1>1, <1>2, <1>3, <1>5
     DEF ClientPortStep, ShieldConnect, ClientHangup, FilterGetMessage,
         GetQueuedCompletionStatus
<1>6. CASE UNCHANGED inbox
  BY <1>6
<1>7. ASSUME NEW t \in Thread, CallbackStep(t)
      PROVE  inbox'[App] \in Seq(HeldOrGarbage)
  BY <1>4, <1>6, <1>7
     DEF CallbackStep, Check, QueryName, HideFile, PassOn, LowerDriver,
         TakeOver, RenameOnDelete, portVars
<1>8. CASE ClientStep
  BY <1>3, <1>5, <1>6, <1>8, ClientStepFrame DEF portVars
<1>9. CASE DriverStep
  BY <1>6, <1>9
     DEF DriverStep, DriverEntry, DfUnload, FltCloseCommunicationPort,
         MarkClientPortConnected, CloserStep, FltCloseClientPort,
         MarkClientPortClosed, ClearClientPort, ShieldDisconnect
<1>10. CASE UserStep \/ FilterUnregistered \/ OtherClientStep \/ UNCHANGED vars
  BY <1>5, <1>6, <1>10
     DEF UserStep, Issue, FilterUnregistered, FltUnregisterFilter,
         OtherClientStep, vars, portVars
<1> QED
  BY <1>7, <1>8, <1>9, <1>10 DEF Next

LEMMA HeldStep ==
    ASSUME BasicInv, HeldInv, [Next]_vars
    PROVE  HeldInv'
<1> USE DEF BasicInv, TypeOK, ClientTypeOK, HeldInv
<1>1. inbox'[App] \in Seq(HeldOrGarbage)
  BY HeldInbox
<1>2. IdleReader.path \in HeldOrGarbage /\ IdleRunner.path \in HeldOrGarbage
  BY DEF IdleReader, IdleRunner, HeldOrGarbage
<1>3. CASE UNCHANGED clientVarsButDropped
  BY <1>1, <1>3 DEF clientVarsButDropped
<1>4. CASE ConnectStep
  BY <1>1, <1>4 DEF ConnectStep, Launch, OpenPort, CompletionPortCreated,
                    CompletionPortFails, ConnectFails
<1>5. CASE ClientExit
  BY <1>1, <1>2, <1>5 DEF ClientExit
<1>6. CASE ReaderStep
  <2>1. CASE PostRead \/ GetMessageFails \/ ReadTimesOut
    BY <1>1, <1>2, <2>1 DEF PostRead, GetMessageFails, ReadTimesOut, Reader
  <2>2. CASE GetMessage
    <3>1. Head(inbox[App]) \in HeldOrGarbage
      BY <2>2, QueueTypes DEF GetMessage, GetQueuedCompletionStatus
    <3>2. PathsRead(Head(inbox[App])) \subseteq HeldOrGarbage
      BY <3>1 DEF PathsRead, HeldOrGarbage
    <3> QED
      BY <1>1, <1>2, <2>2, <3>2 DEF GetMessage
  <2>3. CASE PushBack
    BY <1>1, <1>2, <2>3, QueueTypes DEF PushBack
  <2> QED
    BY <1>6, <2>1, <2>2, <2>3 DEF ReaderStep
<1>7. CASE RunStep
  <2>1. CASE RunFront
    BY <1>1, <2>1, QueueTypes DEF RunFront, Runner
  <2>2. CASE RunPopFront
    BY <1>1, <1>2, <2>2, QueueTypes DEF RunPopFront, RunHoldsFront
  <2>3. CASE RunStep /\ ~RunFront /\ ~RunPopFront
    BY <1>1, <1>2, <2>3
       DEF RunStep, RunExists, RunFileSize, RunReadFile, RunPost, RunUpload,
           RunUploadFails, RunNotify, RunNotifyFails, GoTo, Runner
  <2> QED
    BY <1>7, <2>1, <2>2, <2>3
<1>8. CASE PushRacesPop
  <2>1. files_to_backup_' \in Seq(HeldOrGarbage)
    BY <1>8, RacedTypes DEF PushRacesPop, RunHoldsFront, HeldOrGarbage
  <2> QED
    BY <1>1, <1>2, <1>8, <2>1 DEF PushRacesPop
<1> QED
  BY <1>3, <1>4, <1>5, <1>6, <1>7, <1>8, OtherStepFrame DEF ClientStep

-----------------------------------------------------------------------------
(* What was deleted at the client's command *)

DeletedInv ==
    \A f \in File : removedBy[f] = "client" =>
        /\ f \notin disk
        /\ at[f] \in Path
        /\ at[f].held
        /\ \E data \in Contents : <<data, at[f]>> \in cloud

\* The command is given only for a path that something was uploaded from.
NotifyInv ==
    run.pc = "notify" => \E data \in Contents : <<data, run.path>> \in cloud

\* The cloud keeps what it has.
LEMMA CloudGrows ==
    ASSUME [Next]_vars
    PROVE  cloud \subseteq cloud'
<1>1. CASE UNCHANGED clientVarsButDropped
  BY <1>1 DEF clientVarsButDropped
<1>2. CASE ClientStep
  BY <1>2 DEF ClientStep, ConnectStep, Launch, OpenPort, CompletionPortCreated,
       CompletionPortFails, ConnectFails, ClientExit, ReaderStep, PostRead,
       GetMessageFails, ReadTimesOut, GetMessage, PushBack, RunStep, RunFront,
       RunExists, RunFileSize, RunReadFile, RunPost, RunUpload, RunUploadFails,
       RunNotify, RunNotifyFails, RunPopFront, PushRacesPop
<1> QED
  BY <1>1, <1>2, OtherStepFrame

\* Only RunNotify removes a file for the client.
LEMMA OnlyRunNotifyDeletes ==
    ASSUME BasicInv, [Next]_vars, NEW f \in File, removedBy'[f] = "client"
    PROVE  removedBy[f] = "client" \/ (RunNotify /\ f \in Occupant(run.path))
<1> USE DEF BasicInv, TypeOK, VolumeTypeOK
<1>1. CASE UNCHANGED removedBy
  BY <1>1
<1>2. ASSUME NEW gone, NEW who, who # "client", Remove(gone, who)
      PROVE  removedBy[f] = "client"
  BY <1>2 DEF Remove
<1>3. ASSUME NEW t \in Thread, CallbackStep(t)
      PROVE  removedBy[f] = "client"
  BY <1>1, <1>2, <1>3
     DEF CallbackStep, Check, QueryName, HideFile, PassOn, LowerDriver,
         TakeOver, RenameOnDelete, Announce, SendReanmeInfoToClient, MoveFile,
         volVars
<1>4. CASE ClientStep
  BY <1>1, <1>4, ClientStepFrame DEF RunNotify, Remove, volVars
<1>5. CASE UserStep
  BY <1>1, <1>5 DEF UserStep, CreateFile, RenameDirectory, Issue, volVars
<1>6. CASE UNCHANGED volVars
  BY <1>1, <1>6 DEF volVars
<1> QED
  BY <1>3, <1>4, <1>5, <1>6
     DEF Next, FilterUnregistered, OtherClientStep, vars

LEMMA RunFileSizeNext ==
    ASSUME BasicInv, RunFileSize
    PROVE  run'.pc \in {"open", "loop"}
<1>1. run \in Runner
  BY DEF BasicInv, TypeOK, ClientTypeOK
<1>2. ASSUME NEW f \in Occupant(run.path),
             run' = [run EXCEPT !.pc = "open", !.data = f]
      PROVE  run'.pc = "open"
  BY <1>1, <1>2 DEF Runner
<1>3. IdleRunner.pc = "loop"
  BY DEF IdleRunner
<1> QED
  BY <1>2, <1>3 DEF RunFileSize

LEMMA NotifyStep ==
    ASSUME BasicInv, NotifyInv, [Next]_vars
    PROVE  NotifyInv'
<1> USE DEF BasicInv, TypeOK, ClientTypeOK, NotifyInv
<1>1. CASE UNCHANGED run
  BY <1>1, CloudGrows
<1>2. CASE RunUpload
  BY <1>2 DEF RunUpload, Runner
<1>3. CASE run'.pc # "notify"
  BY <1>3
<1>4. CASE RunStep
  <2>1. CASE RunFront \/ RunExists \/ RunFileSize \/ RunReadFile \/ RunNotify
    <3>1. RunFront => run'.pc = "exists"
      BY DEF RunFront, Runner
    <3>2. RunExists => run'.pc \in {"size", "pop"}
      BY DEF RunExists, GoTo, Runner
    <3>3. RunFileSize => run'.pc \in {"open", "loop"}
      BY RunFileSizeNext
    <3>4. RunReadFile => run'.pc = "post"
      BY DEF RunReadFile, Runner
    <3>5. RunNotify => run'.pc = "pop"
      BY DEF RunNotify, GoTo, Runner
    <3> QED
      BY <1>3, <2>1, <3>1, <3>2, <3>3, <3>4, <3>5
  <2>2. CASE RunUploadFails \/ RunNotifyFails \/ RunPopFront
    BY <2>2 DEF RunUploadFails, RunNotifyFails, RunPopFront, IdleRunner
  <2>3. CASE RunPost
    BY <2>3 DEF RunPost
  <2> QED
    BY <1>2, <1>4, <2>1, <2>2, <2>3 DEF RunStep
<1>5. CASE ClientStep /\ ~RunStep
  BY <1>1, <1>3, <1>5
     DEF ClientStep, ConnectStep, Launch, OpenPort, CompletionPortCreated,
         CompletionPortFails, ConnectFails, ClientExit, ReaderStep, PostRead,
         GetMessageFails, ReadTimesOut, GetMessage, PushBack, PushRacesPop,
         IdleRunner
<1> QED
  BY <1>1, <1>4, <1>5, OtherStepFrame DEF clientVarsButDropped

LEMMA DeletedStep ==
    ASSUME BasicInv, HeldInv, NotifyInv, DeletedInv, [Next]_vars
    PROVE  DeletedInv'
<1> USE DEF BasicInv, TypeOK, VolumeTypeOK
<1> SUFFICES ASSUME NEW f \in File, removedBy'[f] = "client"
             PROVE  /\ f \notin disk'
                    /\ at'[f] \in Path
                    /\ at'[f].held
                    /\ \E data \in Contents : <<data, at'[f]>> \in cloud'
  BY DEF DeletedInv
<1>1. CASE removedBy[f] = "client"
  <2>1. /\ f \in File \ disk
        /\ at[f] \in Path
        /\ at[f].held
        /\ \E data \in Contents : <<data, at[f]>> \in cloud
    BY <1>1 DEF DeletedInv
  <2>2. f \notin disk' /\ at'[f] = at[f]
    BY <2>1, PathTypes, NextIsVolumeStep DEF VolumeStep
  <2> QED
    BY <2>1, <2>2, CloudGrows
<1>2. CASE RunNotify /\ f \in Occupant(run.path)
  <2>1. f \in disk /\ at[f] = run.path
    BY <1>2 DEF Occupant
  <2>2. at[f] \in Path /\ at[f].held
    BY <2>1 DEF DiskInv, HeldInv, HeldOrGarbage
  <2>3. f \notin disk' /\ at'[f] = at[f] /\ cloud' = cloud
    BY <1>2 DEF RunNotify, Remove
  <2> QED
    BY <1>2, <2>1, <2>2, <2>3 DEF NotifyInv, RunNotify
<1> QED
  BY <1>1, <1>2, OnlyRunNotifyDeletes

SafetyInv == BasicInv /\ HeldInv /\ NotifyInv /\ DeletedInv

THEOREM SafetyInvariant == Spec => []SafetyInv
<1>1. Init => HeldInv /\ NotifyInv /\ DeletedInv
  <2>1. Init => HeldInv
    BY ClientAssumption
       DEF Init, PortInit, ClientInit, Forgotten, HeldInv, HeldOrGarbage,
           IdleReader, IdleRunner
  <2>2. Init => NotifyInv
    BY DEF Init, ClientInit, Forgotten, NotifyInv, IdleRunner
  <2>3. Init => DeletedInv
    BY DEF Init, VolumeInit, DeletedInv
  <2> QED
    BY <2>1, <2>2, <2>3
<1>2. BasicInv /\ HeldInv /\ NotifyInv /\ DeletedInv /\ [Next]_vars
        => HeldInv' /\ NotifyInv' /\ DeletedInv'
  BY HeldStep, NotifyStep, DeletedStep
<1> QED
  BY <1>1, <1>2, BasicInvariant, PTL DEF Spec, SafetyInv

\* Nothing is deleted for the client at a path it uploaded nothing from.
THEOREM DeletesOnlyUploadedPaths == Spec => []ClientDeletesOnlyUploadedPaths
<1>1. SafetyInv => ClientDeletesOnlyUploadedPaths
  BY DEF SafetyInv, DeletedInv, ClientDeletesOnlyUploadedPaths
<1> QED
  BY <1>1, SafetyInvariant, PTL

\* Nothing is deleted for the client that the shield does not hold.
THEOREM DeletesOnlyHeldFiles == Spec => []ClientDeletesOnlyHeldFiles
<1>1. SafetyInv => ClientDeletesOnlyHeldFiles
  BY PathTypes
     DEF SafetyInv, DeletedInv, ClientDeletesOnlyHeldFiles, IsHeld
<1> QED
  BY <1>1, SafetyInvariant, PTL

-----------------------------------------------------------------------------
(* No held file is forgotten *)

\* Only a push is about a path.
ReaderInv == reader.pc # "push" => reader.path = NoPath

\* A notification of p is on its way, or is known to be lost.
Remembered(p) == InFlight(p) \/ p \in dropped

CustodyInv == SafetyInv /\ ReaderInv /\ NoStrandedFile

LEMMA ReaderIdle ==
    ASSUME BasicInv, ReaderInv, [Next]_vars
    PROVE  ReaderInv'
<1> USE DEF BasicInv, TypeOK, ClientTypeOK, ReaderInv
<1>1. CASE UNCHANGED reader
  BY <1>1
<1>2. CASE reader' = IdleReader
  BY <1>2 DEF IdleReader
<1>3. CASE ReaderStep
  <2>1. CASE PostRead
    BY <2>1 DEF PostRead, Reader
  <2>2. CASE GetMessage
    BY <2>2 DEF GetMessage, IdleReader
  <2> QED
    BY <1>1, <1>2, <1>3, <2>1, <2>2
       DEF ReaderStep, GetMessageFails, ReadTimesOut, PushBack
<1>4. CASE RunStep
  BY <1>1, <1>4
     DEF RunStep, RunFront, RunExists, RunFileSize, RunReadFile, RunPost,
         RunUpload, RunUploadFails, RunNotify, RunNotifyFails, RunPopFront
<1>5. CASE ConnectStep \/ ClientExit \/ PushRacesPop
  BY <1>1, <1>2, <1>5
     DEF ConnectStep, Launch, OpenPort, CompletionPortCreated,
         CompletionPortFails, ConnectFails, ClientExit, PushRacesPop
<1> QED
  BY <1>1, <1>3, <1>4, <1>5, OtherStepFrame
     DEF ClientStep, clientVarsButDropped

\* Where a held file comes from: it was held there, or it was taken, or it was
\* moved along with its name and is counted as lost.
LEMMA HeldBefore ==
    ASSUME BasicInv, [Next]_vars, NEW f \in File, f \in disk', IsHeld(f)'
    PROVE  \/ f \in disk /\ IsHeld(f) /\ at'[f] = at[f]
           \/ \E t \in Thread : /\ TakeOver(t)
                               /\ req'[t].pc = "send"
                               /\ at'[f] = HeldPath(t)
           \/ at'[f] \in dropped'
<1> USE DEF BasicInv, TypeOK, VolumeTypeOK, IsHeld
<1>1. CASE disk' \subseteq disk /\ UNCHANGED at
  BY <1>1
<1>2. ASSUME NEW g \in File, NEW d \in Dir, NEW n \in Name, CreateFile(g, d, n)
      PROVE  f \in disk /\ IsHeld(f) /\ at'[f] = at[f]
  BY <1>2 DEF CreateFile, Original
<1>3. CASE f \in disk /\ dropped' = dropped \cup CarriedOff
  BY <1>3 DEF CarriedOff
<1>4. ASSUME NEW t \in Thread, TakeOver(t)
      PROVE  \/ f \in disk /\ IsHeld(f) /\ at'[f] = at[f]
             \/ req'[t].pc = "send" /\ at'[f] = HeldPath(t)
             \/ at'[f] \in dropped'
  <2> DEFINE g == req[t].file
             q == Held(at[g].dir, req[t].name.name)
  <2>1. CASE UNCHANGED volVars
    BY <1>1, <2>1 DEF volVars
  <2>2. CASE MoveFile(g, q, "shield") /\ Continue(t, "send")
    <3>1. req'[t].pc = "send"
      BY <2>2 DEF Continue, ShieldTypeOK, Request
    <3>2. /\ at' = [at EXCEPT ![g] = q]
          /\ f \in disk
          /\ g \in File
      BY <2>2 DEF MoveFile, Remove
    <3>3. CASE f # g
      BY <3>2, <3>3
    <3>4. CASE f = g
      <4>1. at'[f] = q /\ at'[g] = q
        BY <3>2, <3>4
      <4>2. q = HeldPath(t) \/ q \in dropped'
        BY <1>4, <3>1, <4>1 DEF TakeOver
      <4> QED
        BY <3>1, <4>1, <4>2
    <3> QED
      BY <3>3, <3>4
  <2> QED
    BY <1>4, <2>1, <2>2 DEF TakeOver, RenameOnDelete
<1>5. ASSUME NEW t \in Thread, PassOn(t)
      PROVE  f \in disk /\ dropped' = dropped \cup CarriedOff
  BY <1>5 DEF PassOn, LowerDriver, MoveFile, Remove, volVars
<1>6. ASSUME NEW t \in Thread, CallbackStep(t), ~TakeOver(t), ~PassOn(t)
      PROVE  f \in disk /\ IsHeld(f) /\ at'[f] = at[f]
  BY <1>1, <1>6
     DEF CallbackStep, Check, QueryName, HideFile, Announce,
         SendReanmeInfoToClient, volVars
<1>7. CASE ClientStep
  BY <1>1, <1>7, ClientStepFrame DEF RunNotify, Remove, volVars
<1>8. CASE UserStep
  BY <1>1, <1>2, <1>3, <1>8 DEF UserStep, RenameDirectory, Issue, volVars
<1> QED
  BY <1>1, <1>3, <1>4, <1>5, <1>6, <1>7, <1>8
     DEF Next, FilterUnregistered, OtherClientStep, vars, volVars

\* Only Announce and the client touch the messages of App.
LEMMA OtherInbox ==
    ASSUME BasicInv, [Next]_vars
    PROVE  \/ ClientStep
           \/ \E t \in Thread : Announce(t)
           \/ inbox'[App] = inbox[App]
<1> USE DEF BasicInv, TypeOK, PortTypeOK
<1>1. ASSUME NEW c \in Client \ {App}, ClientPortStep(c)
      PROVE  inbox'[App] = inbox[App]
  BY <1>1, ClientAssumption
     DEF ClientPortStep, ShieldConnect, ClientHangup, FilterGetMessage,
         GetQueuedCompletionStatus
<1>2. CASE DriverStep
  BY <1>2
     DEF DriverStep, DriverEntry, DfUnload, FltCloseCommunicationPort,
         MarkClientPortConnected, CloserStep, FltCloseClientPort,
         MarkClientPortClosed, ClearClientPort, ShieldDisconnect
<1>3. ASSUME NEW t \in Thread, CallbackStep(t), ~Announce(t)
      PROVE  inbox'[App] = inbox[App]
  BY <1>3 DEF CallbackStep, Check, QueryName, HideFile, PassOn, LowerDriver,
              TakeOver, RenameOnDelete, portVars
<1> QED
  BY <1>1, <1>2, <1>3
     DEF Next, UserStep, Issue, FilterUnregistered, FltUnregisterFilter,
         OtherClientStep, vars, portVars

\* A notification that is to be sent stays so until Announce.
LEMMA StillSent ==
    ASSUME BasicInv, [Next]_vars, NEW u \in Thread, req[u].pc = "send"
    PROVE  Announce(u) \/ req'[u] = req[u]
<1> USE DEF BasicInv, TypeOK, ShieldTypeOK
<1>1. CASE UNCHANGED req
  BY <1>1
<1>2. ASSUME NEW t \in Thread, CallbackStep(t)
      PROVE  Announce(u) \/ req'[u] = req[u]
  <2>1. CASE t = u
    BY <1>2, <2>1
       DEF CallbackStep, Check, QueryName, HideFile, PassOn, LowerDriver,
           TakeOver, RenameOnDelete
  <2>2. CASE t # u
    BY <1>2, <2>2, CallbackRequestStep
  <2> QED
    BY <2>1, <2>2
<1>3. CASE UserStep
  BY <1>1, <1>3 DEF UserStep, Issue, shieldVars
<1>4. CASE ClientStep
  BY <1>1, <1>4, ClientStepFrame DEF shieldVars
<1> QED
  BY <1>1, <1>2, <1>3, <1>4
     DEF Next, FilterUnregistered, OtherClientStep, vars, shieldVars

\* A lost notification is remembered until its path is taken again.
LEMMA StillDropped ==
    ASSUME BasicInv, [Next]_vars, NEW p \in dropped
    PROVE  \/ p \in dropped'
           \/ \E t \in Thread : req'[t].pc = "send" /\ HeldPath(t)' = p
<1> USE DEF BasicInv, TypeOK, ShieldTypeOK
<1>1. CASE dropped \subseteq dropped'
  BY <1>1
<1>2. ASSUME NEW t \in Thread, TakeOver(t), req'[t].pc = "send"
      PROVE  p \in dropped' \/ HeldPath(t)' = p
  <2>1. req'[t].name = req[t].name
    BY <1>2 DEF TakeOver, RenameOnDelete, Finish, Continue, NoRequest, Request
  <2> QED
    BY <1>2, <2>1 DEF TakeOver, HeldPath
<1>3. ASSUME NEW t \in Thread, CallbackStep(t)
      PROVE  dropped \subseteq dropped' \/ (TakeOver(t) /\ req'[t].pc = "send")
  BY <1>3 DEF CallbackStep, TakeOver, Announce, PassOn, clientVars
<1>4. CASE ClientStep
  BY <1>1, <1>4 DEF ClientStep, ConnectStep, Launch, OpenPort,
       CompletionPortCreated, CompletionPortFails, ConnectFails, ClientExit,
       ReaderStep, PostRead, GetMessageFails, ReadTimesOut, GetMessage,
       PushBack, RunStep, RunFront, RunExists, RunFileSize, RunReadFile,
       RunPost, RunUpload, RunUploadFails, RunNotify, RunNotifyFails,
       RunPopFront, PushRacesPop
<1> QED
  BY <1>1, <1>2, <1>3, <1>4
     DEF Next, UserStep, FilterUnregistered, OtherClientStep, vars, clientVars

\* A message to App is in its inbox until the client takes it.
LEMMA StillQueued ==
    ASSUME BasicInv, [Next]_vars, NEW p \in QueuedPaths(inbox[App]), ~ClientStep
    PROVE  p \in QueuedPaths(inbox'[App])
<1> USE DEF BasicInv, TypeOK, PortTypeOK
<1>1. CASE inbox'[App] = inbox[App]
  BY <1>1
<1>2. ASSUME NEW t \in Thread, Announce(t)
      PROVE  p \in QueuedPaths(inbox'[App])
  <2>1. PICK i \in 1 .. Len(inbox[App]) : inbox[App][i] = p
    BY DEF QueuedPaths
  <2>2. App \in Client /\ inbox[App] \in Seq(Message)
    BY ClientAssumption
  <2>3. CASE inbox'[App] = Append(inbox[App], HeldPath(t))
    <3>1. /\ i \in 1 .. Len(inbox'[App])
          /\ inbox'[App][i] = p
      BY <2>1, <2>2, <2>3
    <3> QED
      BY <3>1 DEF QueuedPaths
  <2> QED
    BY <1>1, <1>2, <2>2, <2>3
       DEF Announce, SendReanmeInfoToClient, SendMessageToClient, HeldPath
<1> QED
  BY <1>1, <1>2, OtherInbox

\* An entry of the list that is not about to be popped.
InList(p) ==
    \E i \in 1 .. Len(files_to_backup_) :
        files_to_backup_[i] = p /\ (i = 1 => run.pc # "pop")

LEMMA QueuedTail ==
    ASSUME NEW S, NEW q \in Seq(S), NEW i \in 1 .. Len(q), i # 1
    PROVE  /\ i - 1 \in 1 .. Len(Tail(q))
           /\ Tail(q)[i - 1] = q[i]
OBVIOUS

LEMMA UnfinishedPaths ==
    ASSUME BasicInv, NEW p
    PROVE  p \in QueuedPaths(Unfinished) <=> InList(p)
<1> USE DEF BasicInv, TypeOK, ClientTypeOK
<1> DEFINE q == files_to_backup_
<1>1. CASE run.pc # "pop"
  BY <1>1 DEF Unfinished, QueuedPaths, InList
<1>2. CASE run.pc = "pop"
  <2>1. q # <<>> /\ Unfinished = Tail(q)
    BY <1>2 DEF RunHoldsFront, Unfinished
  <2>2. ASSUME InList(p)
        PROVE  p \in QueuedPaths(Tail(q))
    <3>1. PICK i \in 1 .. Len(q) : q[i] = p /\ i # 1
      BY <1>2, <2>2 DEF InList
    <3> QED
      BY <3>1, QueuedTail DEF QueuedPaths
  <2>3. ASSUME p \in QueuedPaths(Tail(q))
        PROVE  InList(p)
    <3>1. PICK i \in 1 .. Len(Tail(q)) : Tail(q)[i] = p
      BY <2>3 DEF QueuedPaths
    <3>2. /\ i + 1 \in 1 .. Len(q)
          /\ i + 1 # 1
          /\ q[i + 1] = p
      BY <2>1, <3>1
    <3> QED
      BY <3>2 DEF InList
  <2> QED
    BY <2>1, <2>2, <2>3
<1> QED
  BY <1>1, <1>2

\* An entry stays on the list until it is popped, or the process ends, or a
\* push collides with a pop; it is popped only after the path was found empty.
LEMMA StillListed ==
    ASSUME BasicInv, [Next]_vars, NEW p, InList(p),
           NEW f \in disk', at'[f] = p
    PROVE  InList(p)' \/ p \in dropped'
<1> USE DEF BasicInv, TypeOK, ClientTypeOK, VolumeTypeOK
<1> DEFINE q == files_to_backup_
<1>1. PICK i \in 1 .. Len(q) : q[i] = p /\ (i = 1 => run.pc # "pop")
  BY DEF InList
<1>2. CASE UNCHANGED files_to_backup_ /\ (run'.pc = "pop" => run.pc = "pop")
  BY <1>1, <1>2 DEF InList
<1>3. CASE UNCHANGED files_to_backup_ /\ i # 1
  BY <1>1, <1>3 DEF InList
<1>4. i = 1 /\ run.pc # "loop" => run.path = p
  BY <1>1 DEF RunHoldsFront
<1>5. CASE RunExists
  <2>1. CASE i = 1
    <3>1. f \in disk
      BY <1>5, <2>1 DEF RunExists, volVars
    <3>2. OnDisk(run.path)
      BY <1>4, <1>5, <2>1, <3>1 DEF RunExists, OnDisk, Occupant, volVars
    <3>3. run' = [run EXCEPT !.pc = "size"]
      BY <1>5, <3>2 DEF RunExists, GoTo
    <3>4. run'.pc = "size"
      BY <3>3 DEF Runner
    <3> QED
      BY <1>2, <1>5, <3>4 DEF RunExists
  <2> QED
    BY <1>3, <1>5, <2>1 DEF RunExists
<1>6. CASE RunNotify
  <2>1. CASE i = 1
    <3>1. f \in disk /\ f \notin Occupant(run.path) /\ at[f] = p
      BY <1>6 DEF RunNotify, Remove
    <3> QED
      BY <1>4, <1>6, <2>1, <3>1 DEF RunNotify, Occupant
  <2> QED
    BY <1>3, <1>6, <2>1 DEF RunNotify
<1>7. CASE RunPopFront
  <2>1. i # 1
    BY <1>1, <1>7 DEF RunPopFront
  <2>2. /\ i - 1 \in 1 .. Len(Tail(q))
        /\ Tail(q)[i - 1] = p
    BY <1>1, <2>1, QueuedTail
  <2>3. run'.pc = "loop" /\ files_to_backup_' = Tail(q)
    BY <1>7 DEF RunPopFront, IdleRunner
  <2> QED
    BY <2>2, <2>3 DEF InList
<1>8. CASE PushBack
  <2>1. reader.path \in Path \cup {NoPath} /\ UNCHANGED run
    BY <1>8 DEF PushBack, Reader
  <2>2. /\ i \in 1 .. Len(files_to_backup_')
        /\ files_to_backup_'[i] = p
    BY <1>1, <1>8, <2>1 DEF PushBack
  <2> QED
    BY <1>1, <2>1, <2>2 DEF InList
<1>9. CASE PushRacesPop
  <2>1. i # 1
    BY <1>1, <1>9 DEF PushRacesPop
  <2>2. p \in QueuedPaths(Tail(q))
    BY <1>1, <2>1, QueuedTail DEF QueuedPaths
  <2>3. CASE p \in QueuedPaths(files_to_backup_')
    BY <1>9, <2>3 DEF PushRacesPop, IdleRunner, QueuedPaths, InList
  <2> QED
    BY <1>9, <2>2, <2>3 DEF PushRacesPop
<1>10. CASE ClientExit
  BY <1>10, UnfinishedPaths DEF ClientExit
<1>11. CASE ConnectStep
  BY <1>2, <1>11 DEF ConnectStep, Launch, OpenPort, CompletionPortCreated,
                     CompletionPortFails, ConnectFails
<1>12. CASE ReaderStep /\ ~PushBack
  BY <1>2, <1>12
     DEF ReaderStep, PostRead, GetMessageFails, ReadTimesOut, GetMessage
<1>13. CASE \/ RunFront \/ RunFileSize \/ RunReadFile \/ RunPost \/ RunUpload
            \/ RunUploadFails \/ RunNotifyFails
  <2>1. RunFront => run'.pc = "exists"
    BY DEF RunFront, Runner
  <2>2. RunFileSize => run'.pc \in {"open", "loop"}
    BY RunFileSizeNext
  <2>3. RunReadFile => run'.pc = "post"
    BY DEF RunReadFile, Runner
  <2>4. RunUpload => run'.pc = "notify"
    BY DEF RunUpload, Runner
  <2>5. RunUploadFails \/ RunNotifyFails => run'.pc = "loop"
    BY DEF RunUploadFails, RunNotifyFails, IdleRunner
  <2>6. RunPost => run'.pc = "post"
    BY DEF RunPost
  <2>7. run'.pc # "pop"
    BY <1>13, <2>1, <2>2, <2>3, <2>4, <2>5, <2>6
  <2> QED
    BY <1>2, <1>13, <2>7 DEF RunFront, RunFileSize, RunReadFile,
                             RunPost, RunUpload, RunUploadFails, RunNotifyFails
<1>14. CASE UNCHANGED clientVarsButDropped
  BY <1>2, <1>14 DEF clientVarsButDropped
<1> QED
  BY <1>5, <1>6, <1>7, <1>8, <1>9, <1>10, <1>11, <1>12, <1>13, <1>14,
     OtherStepFrame DEF ClientStep, ReaderStep, RunStep

\* A notification sent is a message of App, or is lost.
LEMMA SentIsRemembered ==
    ASSUME BasicInv, NEW u \in Thread, Announce(u)
    PROVE  HeldPath(u) \in QueuedPaths(inbox'[App]) \cup dropped'
<1> USE DEF BasicInv, TypeOK, PortTypeOK
<1>1. App \in Client /\ inbox[App] \in Seq(Message)
  BY ClientAssumption
<1>2. inbox'[App] \in {inbox[App], Append(inbox[App], HeldPath(u))}
  BY <1>1 DEF Announce, SendReanmeInfoToClient, SendMessageToClient, HeldPath
<1>3. CASE inbox'[App] = Append(inbox[App], HeldPath(u))
  <2>1. /\ Len(inbox[App]) + 1 \in 1 .. Len(inbox'[App])
        /\ inbox'[App][Len(inbox[App]) + 1] = HeldPath(u)
    BY <1>1, <1>3
  <2> QED
    BY <2>1 DEF QueuedPaths
<1> QED
  BY <1>2, <1>3 DEF Announce

\* A message the client takes is about to be pushed, or is not valid, or there
\* is nothing at its path.
LEMMA TakenIsRemembered ==
    ASSUME BasicInv, ClientStep, NEW p \in QueuedPaths(inbox[App]),
           NEW f \in disk', at'[f] = p
    PROVE  \/ p \in QueuedPaths(inbox'[App])
           \/ reader'.path = p
           \/ p \in dropped'
<1> USE DEF BasicInv, TypeOK, PortTypeOK
<1>1. App \in Client /\ inbox[App] \in Seq(Message)
  BY ClientAssumption
<1>2. CASE inbox'[App] = inbox[App]
  BY <1>2
<1>3. CASE ClientExit \/ CompletionPortFails
  BY <1>3 DEF ClientExit, CompletionPortFails
<1>4. CASE GetMessage
  <2>1. PICK i \in 1 .. Len(inbox[App]) : inbox[App][i] = p
    BY DEF QueuedPaths
  <2>2. inbox'[App] = Tail(inbox[App])
    BY <1>1, <1>4 DEF GetMessage, GetQueuedCompletionStatus
  <2>3. CASE i # 1
    <3>1. /\ i - 1 \in 1 .. Len(inbox'[App])
          /\ inbox'[App][i - 1] = p
      BY <1>1, <2>1, <2>2, <2>3, QueuedTail
    <3> QED
      BY <3>1 DEF QueuedPaths
  <2>4. CASE i = 1
    <3>1. Head(inbox[App]) = p
      BY <1>1, <2>1, <2>4
    <3>2. OnDisk(p)
      BY <1>4 DEF GetMessage, OnDisk, Occupant, volVars
    <3>3. CASE p.name \notin TooLong
      <4>1. reader' = [pc |-> "push", path |-> p]
        BY <1>4, <3>1, <3>2, <3>3 DEF GetMessage, PathsRead
      <4> QED
        BY <4>1
    <3>4. CASE p.name \in TooLong
      BY <1>4, <3>1, <3>4 DEF GetMessage
    <3> QED
      BY <3>3, <3>4
  <2> QED
    BY <2>3, <2>4
<1>5. CASE OpenPort \/ PostRead
  BY <1>2, <1>5 DEF OpenPort, PostRead, ShieldConnect, FilterGetMessage
<1>6. CASE UNCHANGED portVars
  BY <1>2, <1>6 DEF portVars
<1> QED
  BY <1>3, <1>4, <1>5, <1>6
     DEF ClientStep, ConnectStep, Launch, CompletionPortCreated, ConnectFails,
         ReaderStep, GetMessageFails, ReadTimesOut, PushBack, RunStep, RunFront,
         RunExists, RunFileSize, RunReadFile, RunPost, RunUpload,
         RunUploadFails, RunNotify, RunNotifyFails, RunPopFront, PushRacesPop

\* A path that is to be pushed is pushed, or collides with a pop.
LEMMA PushedIsRemembered ==
    ASSUME BasicInv, ReaderInv, [Next]_vars, NEW p \in Path, reader.path = p
    PROVE  reader'.path = p \/ InList(p)' \/ p \in dropped'
<1> USE DEF BasicInv, TypeOK, ClientTypeOK
<1>1. reader.pc = "push"
  BY PathTypes DEF ReaderInv
<1>2. CASE UNCHANGED reader
  BY <1>2
<1>3. CASE ClientExit
  BY <1>3 DEF ClientExit
<1>4. CASE PushBack
  <2>1. CASE files_to_backup_ = <<>>
    <3>1. run'.pc # "pop"
      BY <1>4, <2>1 DEF PushBack, RunHoldsFront
    <3>2. /\ 1 \in 1 .. Len(files_to_backup_')
          /\ files_to_backup_'[1] = p
      BY <1>4, <2>1 DEF PushBack
    <3> QED
      BY <3>1, <3>2 DEF InList
  <2>2. CASE files_to_backup_ # <<>>
    <3> DEFINE n == Len(files_to_backup_) + 1
    <3>1. /\ n \in 1 .. Len(files_to_backup_')
          /\ files_to_backup_'[n] = p
          /\ n # 1
      BY <1>4, <2>2 DEF PushBack
    <3> QED
      BY <3>1 DEF InList
  <2> QED
    BY <2>1, <2>2
<1>5. CASE PushRacesPop
  <2>1. CASE p \in QueuedPaths(files_to_backup_')
    BY <1>5, <2>1 DEF PushRacesPop, IdleRunner, QueuedPaths, InList
  <2> QED
    BY <1>5, <2>1 DEF PushRacesPop
<1>6. CASE ReaderStep /\ ~PushBack
  BY <1>1, <1>2, <1>6
     DEF ReaderStep, PostRead, GetMessageFails, ReadTimesOut, GetMessage
<1>7. CASE ConnectStep
  BY <1>2, <1>7 DEF ConnectStep, Launch, OpenPort, CompletionPortCreated,
                    CompletionPortFails, ConnectFails
<1>8. CASE RunStep
  BY <1>2, <1>8
     DEF RunStep, RunFront, RunExists, RunFileSize, RunReadFile, RunPost,
         RunUpload, RunUploadFails, RunNotify, RunNotifyFails, RunPopFront
<1> QED
  BY <1>2, <1>3, <1>4, <1>5, <1>6, <1>7, <1>8, OtherStepFrame
     DEF ClientStep, clientVarsButDropped

LEMMA StillRemembered ==
    ASSUME BasicInv, ReaderInv, [Next]_vars, NEW p \in Path, Remembered(p),
           NEW f \in disk', at'[f] = p
    PROVE  Remembered(p)'
<1> USE DEF Remembered, InFlight
<1>1. ASSUME NEW u \in Thread, req[u].pc = "send", HeldPath(u) = p
      PROVE  Remembered(p)'
  <2>1. CASE req'[u] = req[u]
    BY <1>1, <2>1 DEF HeldPath
  <2> QED
    BY <1>1, <2>1, StillSent, SentIsRemembered
<1>2. CASE p \in QueuedPaths(inbox[App])
  BY <1>2, StillQueued, TakenIsRemembered
<1>3. CASE reader.path = p
  BY <1>3, PushedIsRemembered DEF InList
<1>4. CASE InList(p)
  BY <1>4, StillListed DEF InList
<1>5. CASE p \in dropped
  BY <1>5, StillDropped
<1> QED
  BY <1>1, <1>2, <1>3, <1>4, <1>5 DEF InList

\* A file that is held is remembered: it was before, or it was just taken.
LEMMA CustodyStep ==
    ASSUME CustodyInv, [Next]_vars
    PROVE  NoStrandedFile'
<1> USE DEF CustodyInv, SafetyInv, BasicInv, TypeOK
<1> SUFFICES ASSUME NEW f \in disk', IsHeld(f)'
             PROVE  (InFlight(at[f]) \/ at[f] \in dropped)'
  BY DEF NoStrandedFile
<1>1. /\ f \in File
      /\ at'[f] \in Path
  BY NextIsVolumeStep DEF VolumeStep, VolumeTypeOK, IsHeld
<1>2. CASE f \in disk /\ IsHeld(f) /\ at'[f] = at[f]
  <2>1. Remembered(at[f])
    BY <1>2 DEF NoStrandedFile, Remembered
  <2>2. PICK p \in Path : p = at[f] /\ p = at'[f]
    BY <1>1, <1>2
  <2>3. Remembered(p)'
    BY <2>1, <2>2, StillRemembered DEF Remembered, InFlight
  <2> QED
    BY <2>2, <2>3 DEF Remembered, InFlight
<1>3. CASE \E t \in Thread : /\ TakeOver(t)
                             /\ req'[t].pc = "send"
                             /\ at'[f] = HeldPath(t)
  <2>1. PICK t \in Thread : /\ TakeOver(t)
                            /\ req'[t].pc = "send"
                            /\ at'[f] = HeldPath(t)
    BY <1>3
  <2>2. req'[t].name = req[t].name
    BY <2>1 DEF TakeOver, RenameOnDelete, Finish, Continue, NoRequest,
                ShieldTypeOK, Request
  <2>3. HeldPath(t)' = at'[f]
    BY <2>1, <2>2 DEF HeldPath
  <2> QED
    BY <2>1, <2>3 DEF InFlight
<1>4. CASE at'[f] \in dropped'
  BY <1>4
<1> QED
  BY <1>1, <1>2, <1>3, <1>4, HeldBefore

\* Nothing the shield holds is forgotten without being counted as lost.
THEOREM NoFileIsStranded == Spec => []NoStrandedFile
<1>1. Init => ReaderInv /\ NoStrandedFile
  BY DEF Init, VolumeInit, ClientInit, Forgotten, IdleReader, ReaderInv,
         NoStrandedFile
<1>2. SafetyInv /\ ReaderInv /\ NoStrandedFile /\ [Next]_vars
        => ReaderInv' /\ NoStrandedFile'
  BY ReaderIdle, CustodyStep DEF CustodyInv, SafetyInv
<1> QED
  BY <1>1, <1>2, SafetyInvariant, PTL DEF Spec
=============================================================================
