---------------------------- MODULE ShieldClient ----------------------------
(***************************************************************************)
(* The backup client (app/src/main.cpp, ShieldClient.cpp): main connects   *)
(* and calls run(), which starts the thread of get_message() and works     *)
(* through files_to_backup_ itself.  The deque has no lock.                *)
(*                                                                         *)
(* A file that is backed up is read by its path: what is uploaded is the   *)
(* file that is there when it is opened, and what the delete command then  *)
(* removes is the file that is there when the driver carries it out.       *)
(***************************************************************************)
EXTENDS Shield

CONSTANTS
    App,            \* the client process
    MAX_NUM_TRIES,  \* connection attempts of main
    MaxLaunch,      \* bound: how often the process is started
    MaxQueue,       \* bound: length of files_to_backup_
    TooLong         \* names that the message has no room for

ASSUME ClientAssumption ==
    /\ App \in Client
    /\ MAX_NUM_TRIES \in Nat
    /\ MaxLaunch \in Nat
    /\ MaxQueue \in Nat
    /\ TooLong \subseteq Name

VARIABLES
    proc,               \* "off", "starting", "opened" or "running"
    tries,              \* failed connection attempts
    launches,
    connected_,
    reader,             \* the thread of get_message
    run,                \* the thread of run
    files_to_backup_,
    cloud,              \* what the service stored or said it stored: a
                        \* file's contents, under a path
    dropped             \* history: paths whose notification was lost

clientVars == <<proc, tries, launches, connected_, reader, run,
                files_to_backup_, cloud, dropped>>

\* What read_file returns: a file's contents, or NoFile, which is zeros or a
\* file cut or padded to the size of another.
Contents == File \cup {NoFile}

Reader == [pc : {"post", "wait", "push"}, path : Path \cup {NoPath}]
Runner == [pc   : {"loop", "exists", "size", "open", "post", "notify", "pop"},
           path : Path \cup {NoPath},
           data : Contents]

IdleReader == [pc |-> "post", path |-> NoPath]
IdleRunner == [pc |-> "loop", path |-> NoPath, data |-> NoFile]

ClientTypeOK ==
    /\ proc \in {"off", "starting", "opened", "running"}
    /\ tries \in 0 .. MAX_NUM_TRIES
    /\ launches \in 0 .. MaxLaunch
    /\ connected_ \in BOOLEAN
    /\ reader \in Reader
    /\ run \in Runner
    /\ files_to_backup_ \in Seq(Path \cup {NoPath})
    /\ cloud \subseteq Contents \X (Path \cup {NoPath})
    /\ dropped \subseteq Path \cup {NoPath}

Forgotten ==
    /\ proc = "off"
    /\ tries = 0
    /\ connected_ = FALSE
    /\ reader = IdleReader
    /\ run = IdleRunner
    /\ files_to_backup_ = <<>>

ClientInit ==
    /\ Forgotten
    /\ launches = 0
    /\ cloud = {}
    /\ dropped = {}

QueuedPaths(q) == {q[i] : i \in 1 .. Len(q)}

\* The entries that are not dealt with: all but one about to be popped.
Unfinished == IF run.pc = "pop" THEN Tail(files_to_backup_)
                                ELSE files_to_backup_

-----------------------------------------------------------------------------
(* Connecting *)

Launch ==
    /\ proc = "off"
    /\ launches < MaxLaunch
    /\ proc' = "starting"
    /\ launches' = launches + 1
    /\ UNCHANGED <<volVars, portVars, shieldVars, tries, connected_, reader,
                   run, files_to_backup_, cloud, dropped>>

\* connect(): FilterConnectCommunicationPort.
OpenPort ==
    /\ proc = "starting"
    /\ ShieldConnect(App)
    /\ proc' = "opened"
    /\ UNCHANGED <<volVars, shieldVars, tries, launches, connected_, reader,
                   run, files_to_backup_, cloud, dropped>>

\* CreateIoCompletionPort, and main goes on to run().
CompletionPortCreated ==
    /\ proc = "opened"
    /\ App \notin connecting
    /\ proc' = "running"
    /\ connected_' = TRUE
    /\ UNCHANGED <<volVars, portVars, shieldVars, tries, launches, reader, run,
                   files_to_backup_, cloud, dropped>>

\* After a failure main tries again, MAX_NUM_TRIES times in all; then it goes
\* on to run(), which tries a last time and starts its threads regardless.
TryAgain ==
    IF tries < MAX_NUM_TRIES
    THEN tries' = tries + 1 /\ proc' = "starting"
    ELSE UNCHANGED tries /\ proc' = "running"

CompletionPortFails ==
    /\ proc = "opened"
    /\ ClientHangup(App)
    /\ TryAgain
    /\ dropped' = dropped \cup QueuedPaths(inbox[App])
    /\ UNCHANGED <<volVars, shieldVars, launches, connected_, reader, run,
                   files_to_backup_, cloud>>

ConnectFails ==
    /\ proc = "starting"
    /\ TryAgain
    /\ UNCHANGED <<volVars, portVars, shieldVars, launches, connected_, reader,
                   run, files_to_backup_, cloud, dropped>>

\* The process ends: killed, or by an exception out of run().  Everything it
\* held in memory is lost.
ClientExit ==
    /\ proc # "off"
    /\ IF conn[App] \in {"open", "severed"}
       THEN ClientHangup(App)
       ELSE UNCHANGED portVars
    /\ proc' = "off"
    /\ tries' = 0
    /\ connected_' = FALSE
    /\ reader' = IdleReader
    /\ run' = IdleRunner
    /\ files_to_backup_' = <<>>
    /\ dropped' = dropped \cup QueuedPaths(Unfinished)
                    \cup QueuedPaths(inbox[App])
                    \cup {reader.path}
    /\ UNCHANGED <<volVars, shieldVars, launches, cloud>>

-----------------------------------------------------------------------------
(* get_message *)

\* FilterGetMessage leaves another read outstanding ...
PostRead ==
    /\ proc = "running"
    /\ reader.pc = "post"
    /\ FilterGetMessage(App)
    /\ reader' = [reader EXCEPT !.pc = "wait"]
    /\ UNCHANGED <<volVars, shieldVars, proc, tries, launches, connected_, run,
                   files_to_backup_, cloud, dropped>>

\* ... or fails with E_HANDLE, on a port the driver has closed.  The loop goes
\* on with the same port.
GetMessageFails ==
    /\ proc = "running"
    /\ reader.pc = "post"
    /\ conn[App] # "open"
    /\ connected_' = FALSE
    /\ UNCHANGED <<volVars, portVars, shieldVars, proc, tries, launches,
                   reader, run, files_to_backup_, cloud, dropped>>

ReadTimesOut ==
    /\ reader.pc = "wait"
    /\ inbox[App] = <<>>
    /\ reader' = IdleReader
    /\ UNCHANGED <<volVars, portVars, shieldVars, proc, tries, launches,
                   connected_, run, files_to_backup_, cloud, dropped>>

\* What buffer_to_paths may read of a message about p.  One that has lost its
\* name is no path or, with what an earlier message has left behind it in the
\* block, the path of any held file.
PathsRead(p) == IF p.name \notin TooLong THEN {p}
                ELSE {q \in Path : q.held} \cup {NoPath}

\* Mutant: a path that is on the list already is skipped too.
GetMessageOnce ==
    /\ reader.pc = "wait"
    /\ GetQueuedCompletionStatus(App)
    /\ LET p == Head(inbox[App])
       IN  /\ \E q \in PathsRead(p) :
                reader' = IF /\ OnDisk(q)
                             /\ q \notin QueuedPaths(files_to_backup_)
                          THEN [pc |-> "push", path |-> q]
                          ELSE IdleReader
           /\ dropped' = IF p.name \in TooLong THEN dropped \cup {p}
                         ELSE dropped
    /\ UNCHANGED <<volVars, shieldVars, proc, tries, launches, connected_, run,
                   files_to_backup_, cloud>>

\* A message is taken and its path checked; what is no path, or not on disk, is
\* skipped.
GetMessage ==
    /\ reader.pc = "wait"
    /\ GetQueuedCompletionStatus(App)
    /\ LET p == Head(inbox[App])
       IN  /\ \E q \in PathsRead(p) :
                reader' = IF OnDisk(q) THEN [pc |-> "push", path |-> q]
                                       ELSE IdleReader
           /\ dropped' = IF p.name \in TooLong THEN dropped \cup {p}
                         ELSE dropped
    /\ UNCHANGED <<volVars, shieldVars, proc, tries, launches, connected_, run,
                   files_to_backup_, cloud>>

\* Mutant: push_front.
PushFront ==
    /\ reader.pc = "push"
    /\ Len(files_to_backup_) < MaxQueue
    /\ files_to_backup_' = <<reader.path>> \o files_to_backup_
    /\ reader' = IdleReader
    /\ UNCHANGED <<volVars, portVars, shieldVars, proc, tries, launches,
                   connected_, run, cloud, dropped>>

PushBack ==
    /\ reader.pc = "push"
    /\ Len(files_to_backup_) < MaxQueue
    /\ files_to_backup_' = Append(files_to_backup_, reader.path)
    /\ reader' = IdleReader
    /\ UNCHANGED <<volVars, portVars, shieldVars, proc, tries, launches,
                   connected_, run, cloud, dropped>>

-----------------------------------------------------------------------------
(* run *)

GoTo(pc) == run' = [run EXCEPT !.pc = pc]

RunFront ==
    /\ proc = "running"
    /\ run.pc = "loop"
    /\ files_to_backup_ # <<>>
    /\ run' = [run EXCEPT !.pc = "exists", !.path = Head(files_to_backup_)]
    /\ UNCHANGED <<volVars, portVars, shieldVars, proc, tries, launches,
                   connected_, reader, files_to_backup_, cloud, dropped>>

\* A path that is no longer on disk is taken off the list.
RunExists ==
    /\ run.pc = "exists"
    /\ GoTo(IF OnDisk(run.path) THEN "size" ELSE "pop")
    /\ UNCHANGED <<volVars, portVars, shieldVars, proc, tries, launches,
                   connected_, reader, files_to_backup_, cloud, dropped>>

\* upload() up to file_size: a path that has gone by now is a failed backup.
RunFileSize ==
    /\ run.pc = "size"
    /\ \/ \E f \in Occupant(run.path) :
            run' = [run EXCEPT !.pc = "open", !.data = f]
       \/ ~OnDisk(run.path) /\ run' = IdleRunner
    /\ UNCHANGED <<volVars, portVars, shieldVars, proc, tries, launches,
                   connected_, reader, files_to_backup_, cloud, dropped>>

\* read_file reads, of what is at the path now, as much as there was when
\* file_size looked: of the same file all of it, of another one all or not, of
\* nothing zeros.
RunReadFile ==
    /\ run.pc = "open"
    /\ \E data \in Contents :
         /\ \/ data \in Occupant(run.path)
            \/ data = NoFile /\ run.data \notin Occupant(run.path)
         /\ run' = [run EXCEPT !.pc = "post", !.data = data]
    /\ UNCHANGED <<volVars, portVars, shieldVars, proc, tries, launches,
                   connected_, reader, files_to_backup_, cloud, dropped>>

\* The service stores what is posted, and upload() does not know yet: it tries
\* again when the answer is lost, and the process may end before it returns.
RunPost ==
    /\ run.pc = "post"
    /\ cloud' = cloud \cup {<<run.data, run.path>>}
    /\ UNCHANGED <<volVars, portVars, shieldVars, proc, tries, launches,
                   connected_, reader, run, files_to_backup_, dropped>>

\* upload() returns true: the service stored what was posted, or gave an answer
\* that is taken to say so.
RunUpload ==
    /\ run.pc = "post"
    /\ cloud' = cloud \cup {<<run.data, run.path>>}
    /\ run' = [run EXCEPT !.pc = "notify", !.data = NoFile]
    /\ UNCHANGED <<volVars, portVars, shieldVars, proc, tries, launches,
                   connected_, reader, files_to_backup_, dropped>>

\* Mutants: the result of backup() ignored; the entry given up.
RunUploadFailsUnnoticed ==
    /\ run.pc = "post"
    /\ GoTo("notify")
    /\ UNCHANGED <<volVars, portVars, shieldVars, proc, tries, launches,
                   connected_, reader, files_to_backup_, cloud, dropped>>

RunUploadGivenUp ==
    /\ run.pc = "post"
    /\ GoTo("pop")
    /\ UNCHANGED <<volVars, portVars, shieldVars, proc, tries, launches,
                   connected_, reader, files_to_backup_, cloud, dropped>>

\* upload() returns false: the entry stays at the head of the list, to be
\* tried again.  A post whose answer was lost was stored.
RunUploadFails ==
    /\ run.pc = "post"
    /\ cloud' \in {cloud, cloud \cup {<<run.data, run.path>>}}
    /\ run' = IdleRunner
    /\ UNCHANGED <<volVars, portVars, shieldVars, proc, tries, launches,
                   connected_, reader, files_to_backup_, dropped>>

\* The delete command, as ShieldMessage carries it out: ZwDeleteFile, a
\* kernel request the shield lets pass, deletes the file at the path.  The
\* driver serves any open connection.
RunNotify ==
    /\ run.pc = "notify"
    /\ conn[App] = "open"
    /\ OnDisk(run.path)
    /\ Remove(Occupant(run.path), "client")
    /\ GoTo("pop")
    /\ UNCHANGED <<at, portVars, shieldVars, proc, tries, launches, connected_,
                   reader, files_to_backup_, cloud, dropped>>

\* Mutant: the entry is removed whatever the answer.
RunNotifyFailsUnnoticed ==
    /\ run.pc = "notify"
    /\ GoTo("pop")
    /\ UNCHANGED <<volVars, portVars, shieldVars, proc, tries, launches,
                   connected_, reader, files_to_backup_, cloud, dropped>>

\* The command is not delivered, or ZwDeleteFile fails: the entry stays.
RunNotifyFails ==
    /\ run.pc = "notify"
    /\ run' = IdleRunner
    /\ UNCHANGED <<volVars, portVars, shieldVars, proc, tries, launches,
                   connected_, reader, files_to_backup_, cloud, dropped>>

\* Mutant: pop_back.
RunPopBack ==
    /\ run.pc = "pop"
    /\ files_to_backup_' =
         SubSeq(files_to_backup_, 1, Len(files_to_backup_) - 1)
    /\ run' = IdleRunner
    /\ UNCHANGED <<volVars, portVars, shieldVars, proc, tries, launches,
                   connected_, reader, cloud, dropped>>

RunPopFront ==
    /\ run.pc = "pop"
    /\ files_to_backup_' = Tail(files_to_backup_)
    /\ run' = IdleRunner
    /\ UNCHANGED <<volVars, portVars, shieldVars, proc, tries, launches,
                   connected_, reader, cloud, dropped>>

\* push_back and pop_front on the deque at the same time.  Both read and
\* write its size and offset: the new entry is lost; or the size comes out one
\* too large, with garbage at the end, and the new entry may have been written
\* over the last one; or the offset was reset under the new entry.
RacedDeques(q, e) ==
    {Append(Tail(q), e), Tail(q), Append(Append(Tail(q), e), NoPath)}
    \cup IF Len(q) = 1 THEN {<<NoPath>>}
                       ELSE {SubSeq(q, 2, Len(q) - 1) \o <<e, NoPath>>}

PushRacesPop ==
    /\ reader.pc = "push"
    /\ run.pc = "pop"
    /\ Len(files_to_backup_) <= MaxQueue
    /\ files_to_backup_' \in RacedDeques(files_to_backup_, reader.path)
    /\ dropped' = dropped \cup
         ((QueuedPaths(Tail(files_to_backup_)) \cup {reader.path})
            \ QueuedPaths(files_to_backup_'))
    /\ reader' = IdleReader
    /\ run' = IdleRunner
    /\ UNCHANGED <<volVars, portVars, shieldVars, proc, tries, launches,
                   connected_, cloud>>

ReaderStep == PostRead \/ GetMessageFails \/ ReadTimesOut \/ GetMessage
                \/ PushBack

RunStep == RunFront \/ RunExists \/ RunFileSize \/ RunReadFile \/ RunPost
             \/ RunUpload \/ RunUploadFails
             \/ RunNotify \/ RunNotifyFails \/ RunPopFront

ConnectStep == Launch \/ OpenPort \/ CompletionPortCreated
                 \/ CompletionPortFails \/ ConnectFails

ClientStep == ConnectStep \/ ClientExit \/ ReaderStep \/ RunStep
                \/ PushRacesPop
=============================================================================
