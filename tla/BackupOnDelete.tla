--------------------------- MODULE BackupOnDelete ---------------------------
(***************************************************************************)
(* The whole: applications create, delete and rename files, the shield     *)
(* renames what they delete and tells the client, the client uploads it    *)
(* and has the driver delete it; driver and client come and go, and other  *)
(* processes may connect to the port.                                      *)
(***************************************************************************)
EXTENDS ShieldClient

vars == <<volVars, portVars, shieldVars, clientVars>>

TypeOK == VolumeTypeOK /\ PortTypeOK /\ ShieldTypeOK /\ ClientTypeOK

Init == VolumeInit /\ PortInit /\ ShieldInit /\ ClientInit

-----------------------------------------------------------------------------
clientVarsButDropped == <<proc, tries, launches, connected_, reader, run,
                          files_to_backup_, cloud>>

\* RenameOnDelete; the notification of an earlier file under the same path
\* matters no more, this request owes a new one.  A file that was moved to
\* another directory since its name was queried goes to a path that nobody is
\* told of.
TakeOver(t) ==
    /\ RenameOnDelete(t)
    /\ LET q == at'[req[t].file]
       IN  dropped' = IF req'[t].pc # "send" THEN dropped
                      ELSE IF q = HeldPath(t) THEN dropped \ {q}
                      ELSE dropped \cup {q}
    /\ UNCHANGED clientVarsButDropped

\* The held paths that files have come to in a step, moved with the name the
\* shield gave them.
CarriedOff == {at'[f] : f \in {g \in disk : at'[g] # at[g] /\ at'[g].held}}

\* LowerDriver; a held file that is moved to another directory is not looked
\* for there.
PassOn(t) ==
    /\ LowerDriver(t)
    /\ dropped' = dropped \cup CarriedOff
    /\ UNCHANGED clientVarsButDropped

\* SendReanmeInfoToClient; anything but a delivery to App loses the path.
Announce(t) ==
    /\ SendReanmeInfoToClient(t)
    /\ dropped' = IF inbox'[App] = inbox[App] THEN dropped \cup {HeldPath(t)}
                                              ELSE dropped
    /\ UNCHANGED clientVarsButDropped

CallbackStep(t) ==
    \/ /\ Check(t) \/ QueryName(t) \/ HideFile(t)
       /\ UNCHANGED clientVars
    \/ TakeOver(t)
    \/ Announce(t)
    \/ PassOn(t)

UserStep ==
    \/ /\ \E f \in File, d \in Dir, n \in Name : CreateFile(f, d, n)
       /\ UNCHANGED <<portVars, shieldVars, clientVars>>
    \/ /\ \E d, e \in Dir : RenameDirectory(d, e)
       /\ dropped' = dropped \cup CarriedOff
       /\ UNCHANGED <<portVars, shieldVars, clientVarsButDropped>>
    \/ /\ \E t \in Thread, f \in File, op \in Op, mode \in Mode :
             Issue(t, f, op, mode)
       /\ UNCHANGED clientVars

FilterUnregistered ==
    /\ CallbacksDrained
    /\ FltUnregisterFilter
    /\ UNCHANGED <<volVars, shieldVars, clientVars>>

OtherClientStep ==
    /\ \E c \in Client \ {App} : ClientPortStep(c)
    /\ UNCHANGED <<volVars, shieldVars, clientVars>>

Next ==
    \/ UserStep
    \/ \E t \in Thread : CallbackStep(t)
    \/ DriverStep /\ UNCHANGED <<volVars, shieldVars, clientVars>>
    \/ FilterUnregistered
    \/ ClientStep
    \/ OtherClientStep

Spec == Init /\ [][Next]_vars

\* Threads that can run do run: callbacks in progress, the client's threads
\* and what remains of a connection attempt.  An upload and a delete command
\* that are tried again and again succeed in the end.  Nothing is fair about
\* users, about processes that start and end, or about loading the driver.
Fairness ==
    /\ WF_vars(MarkClientPortConnected(App)
                 /\ UNCHANGED <<volVars, shieldVars, clientVars>>)
    /\ \A t \in Thread : WF_vars(CallbackStep(t))
    /\ WF_vars(OpenPort \/ ConnectFails)
    /\ WF_vars(CompletionPortCreated \/ CompletionPortFails)
    /\ WF_vars(ReaderStep)
    /\ WF_vars(RunStep)
    /\ SF_vars(RunUpload)
    /\ SF_vars(RunNotify)

FairSpec == Spec /\ Fairness

-----------------------------------------------------------------------------
IsHeld(f) == at[f] # NoPath /\ at[f].held

\* A file the client had deleted was under a path the client had uploaded
\* something from, whatever was renamed, replaced, retried or restarted in
\* between (ShieldClient.cpp:396-405, communication.cpp:96).
ClientDeletesOnlyUploadedPaths ==
    \A f \in File : removedBy[f] = "client" =>
        \E data \in Contents : <<data, at[f]>> \in cloud

\* The client never deletes a file that the shield does not hold: not a file
\* that a user has put in place meanwhile, under the name the deleted file had
\* (communication.cpp:312, ShieldClient.cpp:301, 404).
ClientDeletesOnlyHeldFiles ==
    \A f \in File : removedBy[f] = "client" => IsHeld(f)

\* The entry pop_front removes is the one that was uploaded: while the other
\* thread pushes, and even where the two collide, the head of the list is the
\* path being worked on (ShieldClient.cpp:373-406).
RunHoldsFront ==
    run.pc # "loop" =>
        files_to_backup_ # <<>> /\ Head(files_to_backup_) = run.path

\* Notifications of path p still on their way to being acted on.
InFlight(p) ==
    \/ \E t \in Thread : req[t].pc = "send" /\ HeldPath(t) = p
    \/ p \in QueuedPaths(inbox[App])
    \/ reader.path = p
    \/ \E i \in 1 .. Len(files_to_backup_) :
         files_to_backup_[i] = p /\ (i = 1 => run.pc # "pop")

\* A file the shield holds is on its way to the client, or its notification
\* was lost in one of the places that are counted in "dropped": no send in
\* time, a message that does not parse, a process that ended, a push that
\* collided, a file that was in another directory than its notification says or
\* was carried off to one.  No order of the threads forgets a file otherwise:
\* not a path that is skipped or popped because nothing was there when it was
\* looked at (files.cpp:252-274, ShieldClient.cpp:191-197, 378-382, 405-406).
NoStrandedFile ==
    \A f \in disk : IsHeld(f) => InFlight(at[f]) \/ at[f] \in dropped

\* Every file the shield takes is dealt with: uploaded and deleted, replaced,
\* given back or removed by a request that passed, unless its notification was
\* lost (main.cpp:580-633, ShieldClient.cpp:366-416).
HeldFileIsResolved ==
    \A f \in File :
        (f \in disk /\ IsHeld(f)) ~>
            (f \notin disk \/ ~IsHeld(f) \/ at[f] \in dropped)

-----------------------------------------------------------------------------
(* What comments and documentation say and the code does not do. *)

\* "it backs it up onto an S3 bucket and then asks the minifilter to delete
\* it" (README.md:11-12): the file that is deleted is the one backed up.
DeletedFileWasUploaded ==
    \A f \in File : removedBy[f] = "client" => <<f, at[f]>> \in cloud

\* "We retry connecting" (ShieldClient.cpp:125): a client that saw its handle
\* become invalid connects again once the port is back.
ClientReconnects ==
    (/\ proc = "running"
     /\ conn[App] = "severed"
     /\ ~connected_
     /\ gServerPortState = "Initialized") ~>
        (connected_ \/ proc = "off" \/ gServerPortState # "Initialized")
=============================================================================
