------------------------------- MODULE Shield -------------------------------
(***************************************************************************)
(* The pre-operation callback BackupOnDeleteShield (minifilter main.cpp)   *)
(* with the file operations it calls (files.cpp), one request per thread.  *)
(*                                                                         *)
(* The callback reads gClientPortState, the file's name and the volume at  *)
(* different moments and holds no lock between them, so each is a step:    *)
(* Check, QueryName, HideFile, RenameOnDelete, SendReanmeInfoToClient, and *)
(* LowerDriver for a request that is passed on.  Requests of several       *)
(* threads, on the same file too, interleave freely.                       *)
(***************************************************************************)
EXTENDS Volume, ShieldPort

CONSTANTS
    Thread,     \* threads that issue requests
    NoFile,
    Op,         \* the operations they issue
    Mode,       \* the modes they issue them in
    Protected,  \* names with a protected word
    ProtectedWhenHeld,  \* names whose held form has one
    Ignored,    \* names that get no backup
    IgnoredDir  \* directories whose files get none

\* IRP_MJ_CREATE with and without FILE_DELETE_ON_CLOSE; the disposition
\* classes with the DeleteFile flag set and clear; the rename classes, with
\* the access check and bypassing it; any other IRP_MJ_SET_INFORMATION.
Operation == {"CreateDeleteOnClose", "CreateOther", "Disposition",
              "DispositionClear", "Rename", "RenameBypass", "SetOther"}

DeleteOperation == {"CreateDeleteOnClose", "Disposition"}

RenameOperation == {"Rename", "RenameBypass"}

ASSUME ShieldAssumption ==
    /\ NoFile \notin File
    /\ Op \subseteq Operation
    /\ Mode \subseteq {"UserMode", "KernelMode"}
    /\ Protected \subseteq ProtectedWhenHeld
    /\ ProtectedWhenHeld \subseteq Name
    /\ Ignored \subseteq Name
    /\ IgnoredDir \subseteq Dir
    /\ Message = Path

VARIABLE req    \* req[t]: the request of thread t

shieldVars == <<req>>

RequestStep == {"idle", "check", "query", "hide", "rename", "send", "pass"}

Request == [pc   : RequestStep,
            file : File \cup {NoFile},
            op   : Operation,
            mode : {"UserMode", "KernelMode"},
            name : Path \cup {NoPath}]

NoRequest == [pc |-> "idle", file |-> NoFile, op |-> "SetOther",
              mode |-> "KernelMode", name |-> NoPath]

ShieldTypeOK == req \in [Thread -> Request]

ShieldInit == req = [t \in Thread |-> NoRequest]

-----------------------------------------------------------------------------
\* A protected word is looked for with a dot on either side.  The marks add
\* dots at both ends of the name, so the held form may have one when the name
\* has none ("protected.txt").
HasProtectedWord(p) ==
    p.name \in IF p.held THEN ProtectedWhenHeld ELSE Protected

HasRenamePrefix(p) == p.held

IsRenameAllowed(p) == ~HasProtectedWord(p) /\ ~HasRenamePrefix(p)

IsDeletionAllowed(p) == ~HasProtectedWord(p)

\* The extension of a held path is "^^^", which is not ignored; what the path
\* has in its directories is.
IsBackupAllowed(p) ==
    p.dir \notin IgnoredDir /\ (p.held \/ p.name \notin Ignored)

-----------------------------------------------------------------------------
Continue(t, pc) == req' = [req EXCEPT ![t].pc = pc]

Finish(t) == req' = [req EXCEPT ![t] = NoRequest]

\* A process with a handle on f issues an operation.  The filter sees it as
\* long as it is registered.
Issue(t, f, op, mode) ==
    /\ req[t].pc = "idle"
    /\ f \in disk
    /\ req' = [req EXCEPT ![t] =
                 [pc   |-> IF driver = "unloaded" THEN "pass" ELSE "check",
                  file |-> f, op |-> op, mode |-> mode, name |-> NoPath]]
    /\ UNCHANGED <<volVars, portVars>>

\* The callback up to the name query: kernel requests, requests while no
\* client is connected and operations of no interest pass.
Check(t) ==
    /\ req[t].pc = "check"
    /\ Continue(t, IF \/ req[t].mode = "KernelMode"
                      \/ ~IsUserAppConnected
                      \/ req[t].op \in {"CreateOther", "SetOther"}
                   THEN "pass"
                   ELSE "query")
    /\ UNCHANGED <<volVars, portVars>>

\* Where the callback goes with name p.  What IsRename is not set for is a
\* delete: both disposition flags, and the renames that bypass the check.
Verdict(op, p) ==
    CASE op = "Rename" /\ IsRenameAllowed(p)          -> "pass"
      [] op = "Rename" /\ ~IsRenameAllowed(p)         -> "deny"
      [] op # "Rename" /\ ~IsDeletionAllowed(p)       -> "deny"
      [] op # "Rename" /\ IsDeletionAllowed(p) /\ ~IsBackupAllowed(p) -> "pass"
      [] OTHER                                        -> "hide"

\* FltGetFileNameInformation: on failure the request passes.
QueryName(t) ==
    /\ req[t].pc = "query"
    /\ LET p == at[req[t].file]
           verdict == Verdict(req[t].op, p)
       IN  \/ Continue(t, "pass")
           \/ verdict = "deny" /\ Finish(t)
           \/ verdict = "pass" /\ Continue(t, "pass")
           \/ /\ verdict = "hide"
              /\ req' = [req EXCEPT ![t].pc = "hide", ![t].name = p]
    /\ UNCHANGED <<volVars, portVars>>

\* Mutant: a file that is gone is hidden too.
HideFileAlways(t) ==
    /\ req[t].pc = "hide"
    /\ Continue(t, "rename")
    /\ hidden' = hidden \cup {req[t].file}
    /\ UNCHANGED <<at, disk, removedBy, portVars>>

\* HideFile: its result is not looked at.
HideFile(t) ==
    /\ req[t].pc = "hide"
    /\ Continue(t, "rename")
    /\ \/ req[t].file \in disk /\ hidden' = hidden \cup {req[t].file}
       \/ UNCHANGED hidden
    /\ UNCHANGED <<at, disk, removedBy, portVars>>

\* RenameOnDelete: the test and the new name are from the name queried before;
\* the rename is of the file object, in the directory where the file is by
\* now.  A file that exists under the held name is replaced.  Whether the
\* rename succeeds or fails, the requester is told STATUS_SUCCESS and the
\* delete goes no further; a file that is being backed up already is denied.
RenameOnDelete(t) ==
    LET p == req[t].name IN
    /\ req[t].pc = "rename"
    /\ \/ HasRenamePrefix(p) /\ Finish(t) /\ UNCHANGED volVars
       \/ ~HasRenamePrefix(p) /\ Finish(t) /\ UNCHANGED volVars
       \/ /\ ~HasRenamePrefix(p)
          /\ MoveFile(req[t].file, Held(at[req[t].file].dir, p.name), "shield")
          /\ Continue(t, "send")
    /\ UNCHANGED portVars

\* Mutant: the client is told the old path.
SendOldName(t) ==
    /\ req[t].pc = "send"
    /\ SendMessageToClient(req[t].name)
    /\ Finish(t)
    /\ UNCHANGED volVars

\* The path of the file as it was queried, with the new name.
HeldPath(t) == Held(req[t].name.dir, req[t].name.name)

\* It goes to the client, or is lost; the result is not looked at.
SendReanmeInfoToClient(t) ==
    /\ req[t].pc = "send"
    /\ SendMessageToClient(HeldPath(t))
    /\ Finish(t)
    /\ UNCHANGED volVars

\* A request that was passed on reaches NTFS, which carries it out or fails
\* it.  A rename is to a name of the user's, or to another directory under the
\* name the file has, over what is there if anything.
NewPaths(p) == {Original(d, n) : d \in Dir, n \in Name}
                 \cup {[p EXCEPT !.dir = d] : d \in Dir}

LowerDriver(t) ==
    LET f == req[t].file IN
    /\ req[t].pc = "pass"
    /\ Finish(t)
    /\ \/ UNCHANGED volVars
       \/ /\ req[t].op \in DeleteOperation
          /\ Remove({f} \cap disk, "request")
          /\ UNCHANGED at
       \/ /\ req[t].op \in RenameOperation
          /\ \E p \in NewPaths(at[f]) : MoveFile(f, p, "request")
    /\ UNCHANGED portVars

\* FltUnregisterFilter also waits for the callbacks of requests.
CallbacksDrained == \A t \in Thread : req[t].pc \in {"idle", "pass"}
=============================================================================
