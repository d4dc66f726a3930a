--------------------- MODULE BackupRefinesCustodyProofs ---------------------
(***************************************************************************)
(* BackupOnDelete implements Custody, for every number of files, names,    *)
(* threads, clients, restarts and reloads.                                 *)
(***************************************************************************)
EXTENDS BackupRefinesCustody, BackupOnDeleteProofs

\* The step that takes a file to p.
Takes(p) == \E t \in Thread : /\ TakeOver(t)
                              /\ req'[t].pc = "send"
                              /\ HeldPath(t) = p

-----------------------------------------------------------------------------
(* A notification that is under way was so before, or a file is just taken *)

LEMMA SentBefore ==
    ASSUME BasicInv, [Next]_vars, NEW u \in Thread, req'[u].pc = "send"
    PROVE  \/ req[u] = req'[u]
           \/ TakeOver(u) /\ HeldPath(u)' = HeldPath(u)
<1> USE DEF BasicInv, TypeOK, ShieldTypeOK
<1>1. CASE UNCHANGED req
  BY <1>1
<1>2. ASSUME NEW t \in Thread, CallbackStep(t)
      PROVE  req[u] = req'[u] \/ (TakeOver(u) /\ HeldPath(u)' = HeldPath(u))
  <2>1. CASE t # u
    BY <1>2, <2>1, CallbackRequestStep
  <2>2. CASE TakeOver(u)
    BY <2>2 DEF TakeOver, RenameOnDelete, Finish, Continue, NoRequest,
                Request, HeldPath
  <2>3. CASE t = u /\ (Check(u) \/ QueryName(u) \/ HideFile(u))
    <3>1. Check(u) => req'[u].pc \in {"pass", "query"}
      BY DEF Check, Continue, Request
    <3>2. QueryName(u) => req'[u].pc \in {"pass", "idle", "hide"}
      BY DEF QueryName, Continue, Finish, NoRequest, Request
    <3>3. HideFile(u) => req'[u].pc = "rename"
      BY DEF HideFile, Continue, Request
    <3> QED
      BY <2>3, <3>1, <3>2, <3>3
  <2>4. CASE t = u /\ (PassOn(u) \/ Announce(u))
    BY <2>4 DEF PassOn, LowerDriver, Announce, SendReanmeInfoToClient, Finish,
                NoRequest
  <2> QED
    BY <1>2, <2>1, <2>2, <2>3, <2>4 DEF CallbackStep
<1>3. CASE UserStep
  <2>1. ASSUME NEW t \in Thread, NEW f \in File, NEW op \in Op,
               NEW mode \in Mode, Issue(t, f, op, mode)
        PROVE  req[u] = req'[u]
    <3>1. req'[t].pc \in {"pass", "check"}
      BY <2>1 DEF Issue
    <3>2. t # u => req'[u] = req[u]
      BY <2>1 DEF Issue
    <3> QED
      BY <3>1, <3>2
  <2> QED
    BY <1>1, <1>3, <2>1 DEF UserStep, shieldVars
<1>4. CASE ClientStep
  BY <1>1, <1>4, ClientStepFrame DEF shieldVars
<1> QED
  BY <1>1, <1>2, <1>3, <1>4
     DEF Next, FilterUnregistered, OtherClientStep, vars, shieldVars

LEMMA TailPaths ==
    ASSUME NEW S, NEW q \in Seq(S), q # <<>>, NEW p \in QueuedPaths(Tail(q))
    PROVE  p \in QueuedPaths(q)
<1>1. PICK i \in 1 .. Len(Tail(q)) : Tail(q)[i] = p
  BY DEF QueuedPaths
<1>2. i + 1 \in 1 .. Len(q) /\ q[i + 1] = p
  BY <1>1
<1> QED
  BY <1>2 DEF QueuedPaths

LEMMA HeadPath ==
    ASSUME NEW S, NEW q \in Seq(S), q # <<>>
    PROVE  Head(q) \in QueuedPaths(q)
<1>1. 1 \in 1 .. Len(q) /\ q[1] = Head(q)
  OBVIOUS
<1> QED
  BY <1>1 DEF QueuedPaths

LEMMA AppendedPaths ==
    ASSUME NEW S, NEW q \in Seq(S), NEW e \in S,
           NEW p \in QueuedPaths(Append(q, e))
    PROVE  p \in QueuedPaths(q) \/ p = e
<1>1. PICK i \in 1 .. Len(Append(q, e)) : Append(q, e)[i] = p
  BY DEF QueuedPaths
<1>2. CASE i \in 1 .. Len(q)
  BY <1>1, <1>2 DEF QueuedPaths
<1>3. CASE i = Len(q) + 1
  BY <1>1, <1>3
<1> QED
  BY <1>1, <1>2, <1>3

LEMMA InboxBefore ==
    ASSUME BasicInv, [Next]_vars, NEW p \in QueuedPaths(inbox'[App])
    PROVE  \/ p \in QueuedPaths(inbox[App])
           \/ \E u \in Thread : req[u].pc = "send" /\ HeldPath(u) = p
<1> USE DEF BasicInv, TypeOK, PortTypeOK
<1>1. App \in Client /\ inbox[App] \in Seq(Message)
  BY ClientAssumption
<1>2. CASE inbox'[App] = inbox[App]
  BY <1>2
<1>3. ASSUME NEW u \in Thread, Announce(u)
      PROVE  \/ p \in QueuedPaths(inbox[App])
             \/ req[u].pc = "send" /\ HeldPath(u) = p
  <2>1. req[u].pc = "send" /\ HeldPath(u) \in Message
    BY <1>3, PathTypes, ShieldAssumption
       DEF Announce, SendReanmeInfoToClient, RequestInv, HeldPath
  <2>2. inbox'[App] \in {inbox[App], Append(inbox[App], HeldPath(u))}
    BY <1>1, <1>3
       DEF Announce, SendReanmeInfoToClient, SendMessageToClient, HeldPath
  <2>3. CASE inbox'[App] = Append(inbox[App], HeldPath(u))
    <3> HIDE DEF BasicInv, TypeOK, PortTypeOK
    <3>1. p \in QueuedPaths(Append(inbox[App], HeldPath(u)))
      BY <2>3
    <3>2. p \in QueuedPaths(inbox[App]) \/ p = HeldPath(u)
      BY <1>1, <2>1, <3>1, AppendedPaths
    <3> QED
      BY <2>1, <3>2
  <2> QED
    BY <1>2, <2>1, <2>2, <2>3
<1>4. CASE ClientStep
  <2>1. CASE UNCHANGED portVars
    BY <1>2, <2>1 DEF portVars
  <2>2. CASE ClientPortStep(App)
    <3>1. QueuedPaths(<<>>) = {}
      BY DEF QueuedPaths
    <3>2. CASE ShieldConnect(App) \/ FilterGetMessage(App)
      BY <1>2, <3>2 DEF ShieldConnect, FilterGetMessage
    <3>3. CASE ClientHangup(App)
      BY <1>1, <3>1, <3>3 DEF ClientHangup
    <3>4. CASE GetQueuedCompletionStatus(App)
      BY <1>1, <3>4, TailPaths DEF GetQueuedCompletionStatus
    <3> QED
      BY <2>2, <3>2, <3>3, <3>4 DEF ClientPortStep
  <2> QED
    BY <1>4, <2>1, <2>2, ClientStepFrame
<1> QED
  BY <1>2, <1>3, <1>4, OtherInbox

\* What the reader is about to push was a message, or was read out of what an
\* earlier message had left, and is the path of a held file.
LEMMA ReaderBefore ==
    ASSUME BasicInv, [Next]_vars, NEW p \in Path, reader'.path = p
    PROVE  \/ reader.path = p
           \/ p \in QueuedPaths(inbox[App])
           \/ p.held /\ OnDisk(p)
<1> USE DEF BasicInv, TypeOK, PortTypeOK, ClientTypeOK
<1>1. CASE UNCHANGED reader
  BY <1>1
<1>2. reader' # IdleReader
  BY PathTypes DEF IdleReader
<1>3. CASE ReaderStep
  <2>1. CASE PostRead
    BY <2>1 DEF PostRead, Reader
  <2>2. CASE GetMessage
    <3>1. App \in Client /\ inbox[App] \in Seq(Message) /\ inbox[App] # <<>>
      BY <2>2, ClientAssumption DEF GetMessage, GetQueuedCompletionStatus
    <3>2. PICK q \in PathsRead(Head(inbox[App])) :
            /\ OnDisk(q)
            /\ reader' = [pc |-> "push", path |-> q]
      BY <1>2, <2>2 DEF GetMessage
    <3>3. p \in PathsRead(Head(inbox[App])) /\ OnDisk(p)
      BY <3>2
    <3>4. p = Head(inbox[App]) \/ p.held
      BY <3>3, PathTypes DEF PathsRead
    <3> QED
      BY <3>1, <3>3, <3>4, HeadPath
  <2> QED
    BY <1>1, <1>2, <1>3, <2>1, <2>2
       DEF ReaderStep, GetMessageFails, ReadTimesOut, PushBack
<1>4. CASE RunStep
  BY <1>1, <1>4
     DEF RunStep, RunFront, RunExists, RunFileSize, RunReadFile, RunPost,
         RunUpload, RunUploadFails, RunNotify, RunNotifyFails, RunPopFront
<1>5. CASE ConnectStep \/ ClientExit \/ PushRacesPop
  BY <1>1, <1>2, <1>5
     DEF ConnectStep, Launch, OpenPort, CompletionPortCreated,
         CompletionPortFails, ConnectFails, ClientExit, PushRacesPop
<1> QED
  BY <1>1, <1>3, <1>4, <1>5, OtherStepFrame
     DEF ClientStep, clientVarsButDropped

LEMMA RacedPaths ==
    ASSUME NEW S, NEW q \in Seq(S), q # <<>>, NEW e \in S, NoPath \in S,
           NEW r \in RacedDeques(q, e), NEW p \in QueuedPaths(r), p # NoPath
    PROVE  p \in QueuedPaths(Tail(q)) \/ p = e
<1>1. Tail(q) \in Seq(S) /\ Append(Tail(q), e) \in Seq(S)
  OBVIOUS
<1>2. CASE r = Tail(q) \/ r = Append(Tail(q), e)
  BY <1>1, <1>2, AppendedPaths
<1>3. CASE r = Append(Append(Tail(q), e), NoPath)
  <2>1. p \in QueuedPaths(Append(Tail(q), e))
    BY <1>1, <1>3, AppendedPaths
  <2> QED
    BY <1>1, <2>1, AppendedPaths
<1>4. CASE r = <<NoPath>>
  BY <1>4 DEF QueuedPaths
<1>5. CASE Len(q) # 1 /\ r = SubSeq(q, 2, Len(q) - 1) \o <<e, NoPath>>
  <2> DEFINE m == SubSeq(q, 2, Len(q) - 1)
  <2> HIDE DEF m
  <2>1. Len(q) \in Nat /\ Len(q) >= 2
    <3>1. Len(q) \in Nat /\ Len(q) # 0 /\ Len(q) # 1
      BY <1>5
    <3>2. \A n \in Nat : n # 0 /\ n # 1 => n >= 2
      OBVIOUS
    <3> QED
      BY <3>1, <3>2
  <2>2. /\ m \in Seq(S)
        /\ Len(m) = Len(q) - 2
        /\ \A i \in 1 .. Len(m) : m[i] = q[i + 1]
    <3>1. \A i \in 2 .. Len(q) - 1 : q[i] \in S
      BY <2>1
    <3>2. /\ m \in Seq(S)
          /\ Len(m) = IF 2 <= Len(q) - 1 THEN Len(q) - 2 ELSE 0
          /\ \A i \in 1 .. Len(q) - 2 : m[i] = q[i + 1]
      BY <2>1, <3>1, SubSeqProperties DEF m
    <3>3. Len(m) = Len(q) - 2
      <4>1. \A n \in Nat : n >= 2 =>
              (IF 2 <= n - 1 THEN n - 2 ELSE 0) = n - 2
        OBVIOUS
      <4> QED
        BY <2>1, <3>2, <4>1
    <3> QED
      BY <3>2, <3>3
  <2>3. p \in QueuedPaths(m) \/ p = e
    <3>1. r = m \o <<e, NoPath>>
      BY <1>5 DEF m
    <3>2. PICK i \in 1 .. Len(r) : r[i] = p
      BY DEF QueuedPaths
    <3>3. CASE i \in 1 .. Len(m)
      BY <2>2, <3>1, <3>2, <3>3 DEF QueuedPaths
    <3>4. CASE i \notin 1 .. Len(m)
      BY <2>2, <3>1, <3>2, <3>4
    <3> QED
      BY <3>3, <3>4
  <2>4. ASSUME p \in QueuedPaths(m)
        PROVE  p \in QueuedPaths(Tail(q))
    <3>1. PICK i \in 1 .. Len(m) : m[i] = p
      BY <2>4 DEF QueuedPaths
    <3>2. i \in 1 .. Len(Tail(q)) /\ Tail(q)[i] = p
      BY <2>1, <2>2, <3>1
    <3> QED
      BY <3>2 DEF QueuedPaths
  <2> QED
    BY <2>3, <2>4
<1> QED
  BY <1>2, <1>3, <1>4, <1>5 DEF RacedDeques

LEMMA TailListed ==
    ASSUME BasicInv, files_to_backup_ # <<>>, NEW p,
           p \in QueuedPaths(Tail(files_to_backup_))
    PROVE  InList(p)
<1> USE DEF BasicInv, TypeOK, ClientTypeOK
<1>1. PICK i \in 1 .. Len(Tail(files_to_backup_)) :
        Tail(files_to_backup_)[i] = p
  BY DEF QueuedPaths
<1>2. /\ i + 1 \in 1 .. Len(files_to_backup_)
      /\ i + 1 # 1
      /\ files_to_backup_[i + 1] = p
  BY <1>1
<1> QED
  BY <1>2 DEF InList

LEMMA ListedBefore ==
    ASSUME BasicInv, [Next]_vars, NEW p \in Path, InList(p)'
    PROVE  InList(p) \/ reader.path = p
<1> USE DEF BasicInv, TypeOK, ClientTypeOK
<1> DEFINE q == files_to_backup_
<1>1. PICK i \in 1 .. Len(q') : q'[i] = p /\ (i = 1 => run'.pc # "pop")
  BY DEF InList
<1>2. CASE UNCHANGED files_to_backup_ /\ (run.pc = "pop" => run'.pc = "pop")
  BY <1>1, <1>2 DEF InList
<1>3. CASE RunPopFront
  <2>1. q # <<>> /\ q' = Tail(q)
    BY <1>3 DEF RunPopFront, RunHoldsFront
  <2> QED
    BY <1>1, <2>1, TailListed DEF QueuedPaths
<1>4. CASE ClientExit
  BY <1>1, <1>4 DEF ClientExit
<1>5. CASE PushBack
  <2>1. /\ q' = Append(q, reader.path)
        /\ reader.path \in Path \cup {NoPath}
        /\ UNCHANGED run
    BY <1>5 DEF PushBack, Reader
  <2>2. CASE i = Len(q) + 1
    BY <1>1, <2>1, <2>2
  <2>3. CASE i \in 1 .. Len(q)
    BY <1>1, <2>1, <2>3 DEF InList
  <2> QED
    BY <1>1, <2>1, <2>2, <2>3
<1>6. CASE PushRacesPop
  <2>1. /\ q # <<>>
        /\ q' \in RacedDeques(q, reader.path)
        /\ reader.path \in Path \cup {NoPath}
    BY <1>6 DEF PushRacesPop, RunHoldsFront, Reader
  <2>2. p \in QueuedPaths(q') /\ p # NoPath
    BY <1>1, PathTypes DEF QueuedPaths
  <2>3. p \in QueuedPaths(Tail(q)) \/ p = reader.path
    BY <2>1, <2>2, RacedPaths
  <2> QED
    BY <2>1, <2>3, TailListed
<1>7. CASE ConnectStep
  BY <1>2, <1>7 DEF ConnectStep, Launch, OpenPort, CompletionPortCreated,
                    CompletionPortFails, ConnectFails
<1>8. CASE ReaderStep /\ ~PushBack
  BY <1>2, <1>8
     DEF ReaderStep, PostRead, GetMessageFails, ReadTimesOut, GetMessage
<1>9. CASE RunStep /\ ~RunPopFront
  BY <1>2, <1>9
     DEF RunStep, RunFront, RunExists, RunFileSize, RunReadFile, RunPost,
         RunUpload, RunUploadFails, RunNotify, RunNotifyFails
<1>10. CASE UNCHANGED clientVarsButDropped
  BY <1>2, <1>10 DEF clientVarsButDropped
<1> QED
  BY <1>3, <1>4, <1>5, <1>6, <1>7, <1>8, <1>9, <1>10, OtherStepFrame
     DEF ClientStep, ReaderStep

\* What is under way was under way, or was just taken, or a file is held there.
LEMMA InFlightBefore ==
    ASSUME BasicInv, [Next]_vars, NEW p \in Path, InFlight(p)'
    PROVE  InFlight(p) \/ Takes(p) \/ (p.held /\ OnDisk(p))
<1> USE DEF InFlight
<1>1. ASSUME NEW u \in Thread, req'[u].pc = "send", HeldPath(u)' = p
      PROVE  InFlight(p) \/ Takes(p)
  <2>1. CASE req[u] = req'[u]
    BY <1>1, <2>1 DEF HeldPath
  <2>2. CASE TakeOver(u) /\ HeldPath(u)' = HeldPath(u)
    BY <1>1, <2>2 DEF Takes
  <2> QED
    BY <1>1, <2>1, <2>2, SentBefore
<1>2. ASSUME p \in QueuedPaths(inbox'[App])
      PROVE  InFlight(p)
  BY <1>2, InboxBefore
<1>3. ASSUME reader'.path = p
      PROVE  InFlight(p) \/ (p.held /\ OnDisk(p))
  BY <1>3, ReaderBefore
<1>4. ASSUME InList(p)'
      PROVE  InFlight(p)
  BY <1>4, ListedBefore DEF InList
<1> QED
  BY <1>1, <1>2, <1>3, <1>4 DEF InList

\* Where no file moves and none is taken, what is lost was lost, or was under
\* way.
LEMMA LostBefore ==
    ASSUME BasicInv, [Next]_vars, UNCHANGED at,
           \A t \in Thread : ~(TakeOver(t) /\ req'[t].pc = "send"),
           NEW p \in Path, p \in dropped'
    PROVE  p \in dropped \/ InFlight(p)
<1> USE DEF BasicInv, TypeOK, ClientTypeOK, PortTypeOK
<1>1. CASE dropped' \subseteq dropped
  BY <1>1
<1>2. CarriedOff = {}
  BY DEF CarriedOff
<1>3. ASSUME NEW t \in Thread, CallbackStep(t)
      PROVE  p \in dropped \/ InFlight(p)
  <2>1. CASE Announce(t)
    BY <2>1 DEF Announce, SendReanmeInfoToClient, InFlight
  <2> QED
    BY <1>1, <1>3, <1>2, <2>1 DEF CallbackStep, TakeOver, PassOn, clientVars
<1>4. CASE CompletionPortFails
  BY <1>4 DEF CompletionPortFails, InFlight
<1>5. CASE ClientExit
  BY <1>5, UnfinishedPaths DEF ClientExit, InFlight, InList
<1>6. CASE GetMessage
  <2>1. App \in Client /\ inbox[App] \in Seq(Message) /\ inbox[App] # <<>>
    BY <1>6, ClientAssumption DEF GetMessage, GetQueuedCompletionStatus
  <2>2. dropped' \subseteq dropped \cup {Head(inbox[App])}
    BY <1>6 DEF GetMessage
  <2> QED
    BY <2>1, <2>2, HeadPath DEF InFlight
<1>7. CASE PushRacesPop
  <2>1. files_to_backup_ # <<>>
    BY <1>7 DEF PushRacesPop, RunHoldsFront
  <2>2. \/ p \in dropped
        \/ p \in QueuedPaths(Tail(files_to_backup_))
        \/ reader.path = p
    BY <1>7 DEF PushRacesPop
  <2> QED
    BY <2>1, <2>2, TailListed DEF InFlight, InList
<1>8. CASE ConnectStep /\ ~CompletionPortFails
  BY <1>1, <1>8 DEF ConnectStep, Launch, OpenPort, CompletionPortCreated,
                    ConnectFails
<1>9. CASE ReaderStep /\ ~GetMessage
  BY <1>1, <1>9 DEF ReaderStep, PostRead, GetMessageFails, ReadTimesOut,
                    PushBack
<1>10. CASE RunStep
  BY <1>1, <1>10
     DEF RunStep, RunFront, RunExists, RunFileSize, RunReadFile, RunPost,
         RunUpload, RunUploadFails, RunNotify, RunNotifyFails, RunPopFront
<1> QED
  BY <1>1, <1>3, <1>4, <1>5, <1>6, <1>7, <1>8, <1>9, <1>10, <1>2
     DEF Next, UserStep, FilterUnregistered, OtherClientStep, ClientStep,
         ConnectStep, ReaderStep, vars, clientVars

-----------------------------------------------------------------------------
(* The steps *)

LEMMA InitIsCustodyInit == Init => C!CustodyInit
<1> SUFFICES ASSUME Init
             PROVE  C!CustodyInit
  OBVIOUS
<1>1. at = [f \in File |-> NoPath] /\ disk = {} /\ dropped = {} /\ cloud = {}
  BY DEF Init, VolumeInit, ClientInit
<1>2. ASSUME NEW p \in Path
      PROVE  ~InFlight(p)
  <2>1. \A t \in Thread : req[t].pc = "idle"
    BY DEF Init, ShieldInit, NoRequest
  <2>2. inbox[App] = <<>> /\ reader.path = NoPath /\ files_to_backup_ = <<>>
    BY ClientAssumption DEF Init, PortInit, ClientInit, Forgotten, IdleReader
  <2> QED
    BY <2>1, <2>2, PathTypes DEF InFlight, QueuedPaths
<1>3. Owed = {} /\ Lost = {} /\ Saved = {}
  BY <1>1, <1>2 DEF Owed, Lost, Saved, HeldPaths
<1> QED
  BY <1>1, <1>3 DEF C!CustodyInit

\* Every step that leaves the files and the cloud where they are, takes over
\* included that only fail, is one that Custody does not see or a Settle.
LEMMA SettleStep ==
    ASSUME CustodyInv, [Next]_vars, UNCHANGED <<at, disk, Saved>>,
           dropped \subseteq dropped',
           \A t \in Thread : ~(TakeOver(t) /\ req'[t].pc = "send")
    PROVE  C!Settle
<1> USE DEF CustodyInv, SafetyInv, Owed, Lost, HeldPaths
<1>1. Owed' \subseteq Owed \cup Lost
  <2>1. ASSUME NEW p \in Path, p.held, OnDisk(p)
        PROVE  InFlight(p) \/ p \in dropped
    <3>1. PICK f \in disk : at[f] = p
      BY <2>1 DEF OnDisk, Occupant
    <3> QED
      BY <2>1, <3>1, PathTypes DEF NoStrandedFile, IsHeld
  <2> QED
    BY <2>1, InFlightBefore DEF Takes
<1>2. Lost \subseteq Lost' /\ Lost' \subseteq Lost \cup Owed
  BY LostBefore
<1>3. ASSUME NEW p \in Owed \ (Owed' \cup Lost'), NEW f \in disk, at[f] = p
      PROVE  FALSE
  <2>1. f \in disk' /\ at'[f] = p /\ p \in Path /\ p.held
    BY <1>3
  <2>2. IsHeld(f)'
    BY <2>1, PathTypes DEF IsHeld
  <2>3. InFlight(p)' \/ p \in dropped'
    BY <2>1, <2>2, CustodyStep DEF NoStrandedFile, InFlight
  <2> QED
    BY <1>3, <2>1, <2>3
<1> QED
  BY <1>1, <1>2, <1>3 DEF C!Settle, C!Occupant

LEMMA TakeOverIsTake ==
    ASSUME CustodyInv, [Next]_vars, NEW t \in Thread, TakeOver(t),
           req'[t].pc = "send"
    PROVE  \E f \in File, p, q \in Path : C!Take(f, p, q)
<1> USE DEF CustodyInv, SafetyInv, BasicInv, TypeOK, ShieldTypeOK
<1> DEFINE f == req[t].file
           p == HeldPath(t)
           q == Held(at[f].dir, req[t].name.name)
<1>1. /\ req[t].pc = "rename"
      /\ MoveFile(f, q, "shield")
      /\ Continue(t, "send")
  BY DEF TakeOver, RenameOnDelete, Finish, NoRequest
<1>2. f \in File /\ at[f] \in Path /\ req[t].name \in Path
  BY <1>1 DEF RequestInv
<1>3. {p, q} \subseteq HeldPaths /\ p \in Path /\ q \in Path
  BY <1>2, PathTypes DEF HeldPath, Held, HeldPaths
<1>4. C!Move(f, q)
  BY <1>1 DEF MoveFile, Remove, Occupant, C!Move, C!Occupant
<1>5. req' = [req EXCEPT ![t].pc = "send"] /\ HeldPath(t)' = p
  BY <1>1 DEF Continue, HeldPath, Request
<1>6. Owed' = Owed \cup {p}
  <2>1. ASSUME NEW r \in HeldPaths
        PROVE  InFlight(r)' <=> InFlight(r) \/ r = p
    <3>1. (\E u \in Thread : req'[u].pc = "send" /\ HeldPath(u)' = r)
            <=> \/ \E u \in Thread : req[u].pc = "send" /\ HeldPath(u) = r
                \/ r = p
      BY <1>1, <1>5 DEF HeldPath, Request
    <3>2. UNCHANGED <<inbox, reader, run, files_to_backup_>>
      BY DEF TakeOver, RenameOnDelete, portVars, clientVarsButDropped
    <3> QED
      BY <3>1, <3>2 DEF InFlight, QueuedPaths
  <2> QED
    BY <1>3, <2>1 DEF Owed, HeldPaths
<1>7. Lost' = IF p = q THEN Lost \ {p} ELSE Lost \cup {q}
  <2>1. at'[f] = q
    BY <1>1, <1>2 DEF MoveFile, VolumeTypeOK
  <2>2. dropped' = IF q = p THEN dropped \ {q} ELSE dropped \cup {q}
    BY <2>1 DEF TakeOver
  <2> HIDE DEF p, q
  <2>3. CASE p = q
    BY <2>2, <2>3 DEF Lost
  <2>4. CASE p # q
    <3>1. Lost' = Lost \cup {q}
      BY <1>3, <2>2, <2>4 DEF Lost
    <3> QED
      BY <2>4, <3>1
  <2> QED
    BY <2>3, <2>4
<1>8. Saved' = Saved
  BY DEF TakeOver, Saved, clientVarsButDropped
<1>9. C!Take(f, p, q)
  <2> HIDE DEF f, p, q
  <2> QED
    BY ONLY <1>3, <1>4, <1>6, <1>7, <1>8 DEF C!Take
<1> HIDE DEF f, p, q
<1> QED
  BY ONLY <1>2, <1>3, <1>9

\* Steps that do not touch what a notification goes through.
LEMMA PromisesUnchanged ==
    ASSUME CustodyInv, [Next]_vars, UNCHANGED clientVarsButDropped,
           UNCHANGED inbox,
           \A u \in Thread : \/ req'[u] = req[u]
                             \/ req[u].pc # "send" /\ req'[u].pc # "send"
    PROVE  UNCHANGED <<Owed, Saved>>
<1>1. ASSUME NEW p
      PROVE  InFlight(p)' <=> InFlight(p)
  BY DEF InFlight, HeldPath, QueuedPaths, clientVarsButDropped
<1> QED
  BY <1>1 DEF Owed, Saved, clientVarsButDropped

\* The paths that files are carried off to are the same for Custody.
LEMMA CarriedOffIsLost ==
    ASSUME CustodyInv, [Next]_vars, dropped' = dropped \cup CarriedOff
    PROVE  Lost' = Lost \cup C!CarriedOff
<1>1. \A f \in disk : at'[f] \in Path
  BY NextIsVolumeStep
     DEF CustodyInv, SafetyInv, BasicInv, TypeOK, VolumeStep, VolumeTypeOK,
         DiskInv
<1>2. HeldPaths \cap CarriedOff = C!CarriedOff
  BY <1>1 DEF HeldPaths, CarriedOff, C!CarriedOff
<1> QED
  BY <1>2 DEF Lost

LEMMA CreateIsCreate ==
    ASSUME CustodyInv, [Next]_vars, NEW f \in File, NEW d \in Dir,
           NEW n \in Name, CreateFile(f, d, n),
           UNCHANGED <<portVars, shieldVars, clientVars>>
    PROVE  \E p \in Path \ HeldPaths : C!Create(f, p)
<1>1. UNCHANGED <<Owed, Saved>>
  BY PromisesUnchanged
     DEF portVars, shieldVars, clientVars, clientVarsButDropped
<1>2. UNCHANGED Lost
  BY DEF Lost, clientVars
<1>3. Original(d, n) \in Path \ HeldPaths
  BY PathTypes DEF Original, HeldPaths
<1>4. C!Create(f, Original(d, n))
  BY <1>1, <1>2 DEF CreateFile, C!Create, C!Promises
<1> QED
  BY <1>3, <1>4

LEMMA RenameDirectoryIsUsers ==
    ASSUME CustodyInv, [Next]_vars, NEW d \in Dir, NEW e \in Dir,
           RenameDirectory(d, e), dropped' = dropped \cup CarriedOff,
           UNCHANGED <<portVars, shieldVars, clientVarsButDropped>>
    PROVE  C!UserMovesDirectory
<1>1. UNCHANGED <<Owed, Saved>>
  BY PromisesUnchanged DEF portVars, shieldVars
<1>2. at' \in [File -> Path \cup {NoPath}]
  BY NextIsVolumeStep DEF CustodyInv, SafetyInv, VolumeStep, VolumeTypeOK
<1>3. \A f \in File \ disk : at'[f] = at[f]
  BY DEF RenameDirectory
<1>4. ASSUME NEW f \in disk, NEW g \in disk, at'[f] = at'[g]
      PROVE  at[f] = at[g]
  <2>1. f \in File /\ g \in File /\ at[f] \in Path /\ at[g] \in Path
    BY DEF CustodyInv, SafetyInv, BasicInv, TypeOK, VolumeTypeOK, DiskInv
  <2>2. at[f].dir # e /\ at[g].dir # e
    BY DEF RenameDirectory
  <2>3. \A h \in {f, g} :
          at'[h] = IF at[h].dir = d THEN [at[h] EXCEPT !.dir = e] ELSE at[h]
    BY <2>1 DEF RenameDirectory
  <2>4. \A p \in Path : [p EXCEPT !.dir = e].dir = e
    BY DEF Path
  <2>5. ASSUME NEW p \in Path, NEW q \in Path, p.dir = q.dir,
               [p EXCEPT !.dir = e] = [q EXCEPT !.dir = e]
        PROVE  p = q
    <3>1. p.held = [p EXCEPT !.dir = e].held /\ p.name = [p EXCEPT !.dir = e].name
      BY DEF Path
    <3>2. q.held = [q EXCEPT !.dir = e].held /\ q.name = [q EXCEPT !.dir = e].name
      BY DEF Path
    <3>3. p.held = q.held /\ p.name = q.name
      BY <2>5, <3>1, <3>2
    <3>4. /\ p = [dir |-> p.dir, held |-> p.held, name |-> p.name]
          /\ q = [dir |-> q.dir, held |-> q.held, name |-> q.name]
      BY DEF Path
    <3> QED
      BY <2>5, <3>3, <3>4
  <2>6. CASE at[f].dir = d /\ at[g].dir = d
    <3>1. [at[f] EXCEPT !.dir = e] = [at[g] EXCEPT !.dir = e]
      BY <1>4, <2>3, <2>6
    <3> QED
      BY <2>1, <2>5, <2>6, <3>1
  <2>7. CASE at[f].dir # d \/ at[g].dir # d
    <3>1. at'[f].dir = e => at[f].dir = d
      BY <2>2, <2>3
    <3>2. at'[g].dir = e => at[g].dir = d
      BY <2>2, <2>3
    <3>3. at[f].dir = d => at'[f].dir = e
      BY <2>1, <2>3, <2>4
    <3>4. at[g].dir = d => at'[g].dir = e
      BY <2>1, <2>3, <2>4
    <3>5. at[f].dir # d /\ at[g].dir # d
      BY <1>4, <2>7, <3>1, <3>2, <3>3, <3>4
    <3> QED
      BY <1>4, <2>3, <3>5
  <2> QED
    BY <2>6, <2>7
<1> QED
  BY <1>1, <1>2, <1>3, <1>4, CarriedOffIsLost
     DEF RenameDirectory, C!UserMovesDirectory

LEMMA PassOnIsUsers ==
    ASSUME CustodyInv, [Next]_vars, NEW t \in Thread, PassOn(t)
    PROVE  \/ UNCHANGED C!custodyVars
           \/ \E f \in File, p \in Path : C!UserMoves(f, p)
           \/ \E f \in File : C!UserRemoves(f)
<1> USE DEF CustodyInv, SafetyInv, BasicInv, TypeOK, ShieldTypeOK
<1> DEFINE f == req[t].file
<1>1. f \in File /\ NewPaths(at[f]) \subseteq Path
  BY PathTypes DEF PassOn, LowerDriver, RequestInv, NewPaths
<1>2. UNCHANGED <<Owed, Saved>>
  <2>1. req[t].pc = "pass" /\ req' = [req EXCEPT ![t] = NoRequest]
    BY DEF PassOn, LowerDriver, Finish
  <2>2. UNCHANGED inbox /\ UNCHANGED clientVarsButDropped
    BY DEF PassOn, LowerDriver, portVars
  <2> QED
    BY <2>1, <2>2, PromisesUnchanged DEF NoRequest
<1>3. UNCHANGED at => UNCHANGED Lost
  BY DEF PassOn, CarriedOff, Lost
<1>4. CASE UNCHANGED volVars
  BY <1>2, <1>3, <1>4 DEF volVars, C!custodyVars
<1>5. CASE Remove({f} \cap disk, "request") /\ UNCHANGED at
  <2>1. C!UserRemoves(f)
    BY <1>2, <1>3, <1>5 DEF Remove, C!UserRemoves, C!Promises
  <2> QED
    BY <1>1, <2>1
<1>6. ASSUME NEW p \in NewPaths(at[f]), MoveFile(f, p, "request")
      PROVE  C!UserMoves(f, p)
  <2>1. C!Move(f, p)
    BY <1>6 DEF MoveFile, Remove, Occupant, C!Move, C!Occupant
  <2>2. Lost' = Lost \cup C!CarriedOff
    BY CarriedOffIsLost DEF PassOn
  <2> QED
    BY <1>2, <2>1, <2>2 DEF C!UserMoves
<1> QED
  BY <1>1, <1>4, <1>5, <1>6 DEF PassOn, LowerDriver

\* What the backup loop is working on is owed, until it is popped.
LEMMA RunPathOwed ==
    ASSUME CustodyInv, run.pc \in {"post", "notify"}, run.path \in HeldPaths
    PROVE  run.path \in Owed
<1> USE DEF CustodyInv, SafetyInv, BasicInv, TypeOK, ClientTypeOK
<1>1. files_to_backup_ # <<>> /\ Head(files_to_backup_) = run.path
  BY DEF RunHoldsFront
<1>2. 1 \in 1 .. Len(files_to_backup_) /\ files_to_backup_[1] = run.path
  BY <1>1
<1> QED
  BY <1>2 DEF Owed, InFlight

\* A post is one when the service stores it, whatever upload() comes to know of
\* that.
LEMMA UploadIsSave ==
    ASSUME CustodyInv, [Next]_vars, RunPost \/ RunUpload \/ RunUploadFails
    PROVE  UNCHANGED C!custodyVars \/ \E p \in HeldPaths : C!Save(p)
<1> USE DEF CustodyInv, SafetyInv, BasicInv, TypeOK, ClientTypeOK
<1>1. run.pc = "post" /\ run'.pc \in {"post", "notify", "loop"}
  <2>1. CASE RunUpload
    BY <2>1 DEF RunUpload, Runner
  <2>2. CASE RunUploadFails
    BY <2>2 DEF RunUploadFails, IdleRunner
  <2>3. CASE RunPost
    BY <2>3 DEF RunPost
  <2> QED
    BY <2>1, <2>2, <2>3
<1>2. UNCHANGED <<at, disk, Owed, Lost>>
  <2>1. UNCHANGED <<volVars, inbox, req, reader, files_to_backup_, dropped>>
    BY DEF RunPost, RunUpload, RunUploadFails, portVars, shieldVars
  <2>2. ASSUME NEW p
        PROVE  InFlight(p)' <=> InFlight(p)
    BY <1>1, <2>1 DEF InFlight, HeldPath, QueuedPaths
  <2> QED
    BY <2>1, <2>2 DEF Owed, Lost, volVars
<1>3. /\ cloud' = cloud \/ cloud' = cloud \cup {<<run.data, run.path>>}
      /\ run.data \in Contents
  BY DEF RunPost, RunUpload, RunUploadFails, Runner
<1>4. CASE cloud' = cloud
  BY <1>2, <1>4 DEF Saved, C!custodyVars
<1>5. CASE run.path \in HeldPaths /\ cloud' # cloud
  <2>1. Saved' = Saved \cup {run.path}
    BY <1>3, <1>5 DEF Saved
  <2>2. run.path \in Owed
    BY <1>1, <1>5, RunPathOwed
  <2> QED
    BY <1>2, <1>5, <2>1, <2>2 DEF C!Save
<1>6. CASE run.path \notin HeldPaths /\ cloud' # cloud
  <2>1. Saved' = Saved
    BY <1>3, <1>6 DEF Saved
  <2> QED
    BY <1>2, <2>1 DEF C!custodyVars
<1> QED
  BY <1>5, <1>6, <1>4

LEMMA RunNotifyIsRelease ==
    ASSUME CustodyInv, [Next]_vars, RunNotify
    PROVE  \E p \in HeldPaths : C!Release(p)
<1> USE DEF CustodyInv, SafetyInv, BasicInv, TypeOK, ClientTypeOK
<1> DEFINE p == run.path
           q == files_to_backup_
<1>1. run.pc = "notify" /\ run'.pc = "pop"
  BY DEF RunNotify, GoTo, Runner
<1>2. p \in HeldPaths
  <2>1. PICK f \in disk : at[f] = p
    BY DEF RunNotify, OnDisk, Occupant
  <2> QED
    BY <2>1 DEF DiskInv, HeldInv, HeldOrGarbage, HeldPaths
<1>3. p \in Owed
  BY <1>1, <1>2, RunPathOwed
<1>4. p \in Saved
  BY <1>1, <1>2 DEF NotifyInv, Saved
<1>5. UNCHANGED <<at, inbox, req, reader, files_to_backup_, cloud, dropped>>
  BY DEF RunNotify, portVars, shieldVars
<1>6. disk' = disk \ C!Occupant(p)
  BY DEF RunNotify, Remove, Occupant, C!Occupant
<1>7. ASSUME NEW r \in HeldPaths, r # p
      PROVE  InFlight(r)' <=> InFlight(r)
  <2>1. q # <<>> => q[1] = Head(q)
    OBVIOUS
  <2>2. ASSUME NEW i \in 1 .. Len(q), q[i] = r
        PROVE  i # 1
    BY <1>1, <1>7, <2>1, <2>2 DEF RunHoldsFront
  <2> QED
    BY <1>1, <1>5, <2>2 DEF InFlight, HeldPath, QueuedPaths
<1>8. Owed' \in {Owed, Owed \ {p}}
  <2>1. \A r : r # p => (r \in Owed' <=> r \in Owed)
    BY <1>7 DEF Owed
  <2>2. CASE p \in Owed'
    <3>1. \A r : r \in Owed' <=> r \in Owed
      BY <1>3, <2>1, <2>2
    <3> QED
      BY <3>1, Zenon
  <2>3. CASE p \notin Owed'
    <3>1. \A r : r \in Owed' <=> r \in Owed \ {p}
      BY <1>3, <2>1, <2>3
    <3> QED
      BY <3>1, Zenon
  <2> QED
    BY <2>2, <2>3
<1>9. UNCHANGED <<at, Lost, Saved>>
  BY <1>5 DEF Lost, Saved
<1> QED
  BY <1>2, <1>3, <1>4, <1>6, <1>8, <1>9 DEF C!Release

\* Steps that neither move a file nor upload anything.
LEMMA OtherStepSettles ==
    ASSUME CustodyInv, [Next]_vars, UNCHANGED <<at, disk, cloud>>,
           \A t \in Thread : ~(TakeOver(t) /\ req'[t].pc = "send")
    PROVE  C!Settle
<1> USE DEF CustodyInv, SafetyInv, BasicInv, TypeOK
<1>1. UNCHANGED Saved
  BY DEF Saved
<1>2. dropped \subseteq dropped'
  <2>1. ASSUME NEW t \in Thread, CallbackStep(t)
        PROVE  dropped \subseteq dropped'
    BY <2>1 DEF CallbackStep, TakeOver, Announce, PassOn, clientVars
  <2>2. CASE ClientStep
    BY <2>2 DEF ClientStep, ConnectStep, Launch, OpenPort,
         CompletionPortCreated, CompletionPortFails, ConnectFails, ClientExit,
         ReaderStep, PostRead, GetMessageFails, ReadTimesOut, GetMessage,
         PushBack, RunStep, RunFront, RunExists, RunFileSize, RunReadFile,
         RunPost, RunUpload, RunUploadFails, RunNotify, RunNotifyFails,
         RunPopFront, PushRacesPop
  <2> QED
    BY <2>1, <2>2 DEF Next, UserStep, FilterUnregistered, OtherClientStep,
                      vars, clientVars
<1> QED
  BY <1>1, <1>2, SettleStep

LEMMA StepIsCustodyStep ==
    ASSUME CustodyInv, [Next]_vars
    PROVE  [C!CustodyNext]_(C!custodyVars)
<1> USE DEF C!CustodyNext
<1>1. CASE UNCHANGED <<at, disk, cloud>>
           /\ \A t \in Thread : ~(TakeOver(t) /\ req'[t].pc = "send")
  BY <1>1, OtherStepSettles
<1>2. ASSUME NEW t \in Thread, TakeOver(t), req'[t].pc = "send"
      PROVE  C!CustodyNext
  BY <1>2, TakeOverIsTake
<1>3. ASSUME NEW t \in Thread, TakeOver(t), req'[t].pc # "send"
      PROVE  UNCHANGED <<at, disk, cloud>>
  <2>1. ~Continue(t, "send")
    BY <1>3 DEF Continue, CustodyInv, SafetyInv, BasicInv, TypeOK,
                ShieldTypeOK, Request
  <2> QED
    BY <1>3, <2>1 DEF TakeOver, RenameOnDelete, volVars, clientVarsButDropped
<1>4. ASSUME NEW t \in Thread, PassOn(t)
      PROVE  [C!CustodyNext]_(C!custodyVars)
  BY <1>4, PassOnIsUsers
<1>5. ASSUME NEW f \in File, NEW d \in Dir, NEW n \in Name,
             CreateFile(f, d, n),
             UNCHANGED <<portVars, shieldVars, clientVars>>
      PROVE  C!CustodyNext
  BY <1>5, CreateIsCreate
<1>6. ASSUME NEW d \in Dir, NEW e \in Dir, RenameDirectory(d, e),
              dropped' = dropped \cup CarriedOff,
              UNCHANGED <<portVars, shieldVars, clientVarsButDropped>>
       PROVE  C!CustodyNext
  BY <1>6, RenameDirectoryIsUsers
<1>7. CASE RunPost \/ RunUpload \/ RunUploadFails
  BY <1>7, UploadIsSave
<1>8. CASE RunNotify
  BY <1>8, RunNotifyIsRelease
<1>9. ASSUME NEW t \in Thread, CallbackStep(t), ~TakeOver(t), ~PassOn(t)
      PROVE  UNCHANGED <<at, disk, cloud>>
  BY <1>9 DEF CallbackStep, Check, QueryName, HideFile, Announce,
              SendReanmeInfoToClient, volVars, clientVars, clientVarsButDropped
<1>10. ASSUME ClientStep, ~RunPost, ~RunUpload, ~RunUploadFails, ~RunNotify
      PROVE  UNCHANGED <<at, disk, cloud, req>>
  <2>1. UNCHANGED <<at, disk, req>>
    BY <1>10, ClientStepFrame DEF volVars, shieldVars
  <2>2. UNCHANGED cloud
    BY <1>10 DEF ClientStep, ConnectStep, Launch, OpenPort,
         CompletionPortCreated, CompletionPortFails, ConnectFails, ClientExit,
         ReaderStep, PostRead, GetMessageFails, ReadTimesOut, GetMessage,
         PushBack, RunStep, RunFront, RunExists, RunFileSize, RunReadFile,
         RunNotifyFails, RunPopFront, PushRacesPop
  <2> QED
    BY <2>1, <2>2
<1>11. CASE UserStep
  BY <1>1, <1>2, <1>5, <1>11, <1>6 DEF UserStep, Issue, volVars, clientVars
<1>12. CASE FilterUnregistered \/ OtherClientStep \/ UNCHANGED vars
            \/ (DriverStep /\ UNCHANGED <<volVars, shieldVars, clientVars>>)
  BY <1>1, <1>2, <1>12
     DEF FilterUnregistered, OtherClientStep, vars, volVars, clientVars
<1>13. ASSUME NEW t \in Thread, CallbackStep(t)
       PROVE  [C!CustodyNext]_(C!custodyVars)
  BY <1>1, <1>2, <1>3, <1>4, <1>9, <1>13
     DEF CallbackStep, TakeOver, RenameOnDelete, Check, QueryName, HideFile,
         Announce, SendReanmeInfoToClient
<1>14. CASE ClientStep
  BY <1>1, <1>2, <1>7, <1>8, <1>10, <1>14
<1> QED
  BY <1>11, <1>12, <1>13, <1>14 DEF Next

\* BackupOnDelete does what Custody promises: no callback, message, collision,
\* retry, restart or second client makes a step that Custody does not allow.
THEOREM BackupImplementsCustody == Spec => ImplementsCustody
<1>1. Init => C!CustodyInit
  BY InitIsCustodyInit
<1>2. SafetyInv /\ ReaderInv /\ NoStrandedFile /\ [Next]_vars
        => [C!CustodyNext]_(C!custodyVars)
  BY StepIsCustodyStep DEF CustodyInv
<1>3. Spec => [](ReaderInv /\ NoStrandedFile)
  <2>1. Init => ReaderInv
    BY DEF Init, ClientInit, Forgotten, IdleReader, ReaderInv
  <2>2. SafetyInv /\ ReaderInv /\ [Next]_vars => ReaderInv'
    BY ReaderIdle DEF SafetyInv
  <2> QED
    BY <2>1, <2>2, SafetyInvariant, NoFileIsStranded, PTL DEF Spec
<1> QED
  BY <1>1, <1>2, <1>3, SafetyInvariant, PTL
     DEF Spec, ImplementsCustody, C!CustodySpec
=============================================================================
