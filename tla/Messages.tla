------------------------------ MODULE Messages ------------------------------
(***************************************************************************)
(* A held file's name on its way: the driver renames the file and writes   *)
(* the new path into a read the client has posted; the client takes the    *)
(* completed reads, makes two paths of each text, uploads the file and     *)
(* sends the path back for the driver to delete.                           *)
(*                                                                         *)
(* The client's reads live in blocks of its heap.  A block is not cleared: *)
(* a message that is shorter than the last one in the same block leaves    *)
(* the rest of that in place, and buffer_to_paths looks at the whole       *)
(* buffer.  Memory the process used for other things is not modelled: a    *)
(* block that never held a message holds zeros.                            *)
(*                                                                         *)
(* The order of steps among threads and processes is the business of       *)
(* BackupOnDelete: here the rename and the message about it are one step,  *)
(* and so are the upload and the delete command.                           *)
(***************************************************************************)
EXTENDS Names, FiniteSets

CONSTANTS
    Block,      \* bound: blocks of the client's heap
    UserFile,   \* files that users make, as paths
    MaxFiles    \* bound: how many of them there are at a time

\* A path with the prefix somewhere and the suffix at its end, after it.
LooksHeld(p) ==
    LET text == FullPath(p)
        last == Len(text)
    IN  /\ EndsAt(text, last, RenameSuffix)
        /\ \E i \in 5 .. last - 1 : EndsAt(text, i, RenamePrefix)

\* Names are as long as NTFS allows, and no user makes files that look like
\* the shield's.  (Such a file is taken for a held one when the text of an
\* earlier message, or a mark in a directory's name, leads the client to it.)
ASSUME MessagesAssumption ==
    /\ MaxFiles \in Nat
    /\ UserFile \subseteq Path
    /\ \A p \in UserFile : Len(p.name) <= MaxComponent /\ ~LooksHeld(p)

VARIABLES
    disk,               \* the files on the volume
    held,               \* history: files renamed instead of deleted
    bypassed,           \* history: held paths removed by a request the shield
                        \* does not judge
    cloud,              \* <<path, name>>: that file's contents, so named
    port,               \* "open" or "closed"
    heap,               \* heap[b]: the text in block b's buffer
    allocated,          \* the blocks that are allocated
    posted,             \* reads that wait for a message, oldest first
    completed,          \* reads that are over, in the completion port
    letter,             \* history: the file the last message in b is about
    reader,             \* get_message: "post" or "wait"
    files_to_backup_

vars == <<disk, held, bypassed, cloud, port, heap, allocated, posted, completed,
          letter, reader, files_to_backup_>>

driverVars == <<disk, held, bypassed, port>>
readVars == <<heap, allocated, posted, completed, letter, reader>>

Nobody == [dir |-> <<>>, name |-> <<>>]

Init ==
    /\ disk \in {D \in SUBSET UserFile : Cardinality(D) <= MaxFiles}
    /\ held = {}
    /\ bypassed = {}
    /\ cloud = {}
    /\ port = "open"
    /\ heap = [b \in Block |-> <<>>]
    /\ allocated = {}
    /\ posted = <<>>
    /\ completed = <<>>
    /\ letter = [b \in Block |-> Nobody]
    /\ reader = "post"
    /\ files_to_backup_ = <<>>

OnDisk(text) == \E p \in disk : FullPath(p) = text

-----------------------------------------------------------------------------
(* The driver *)

\* What is in the buffer once the message is: the rest is what was there.
Overwrite(old, message) ==
    message \o SubSeq(old, Len(message) + 1, Len(old))

\* SendReanmeInfoToClient: the oldest posted read is completed, or the
\* message is lost.
Send(p) ==
    IF posted = <<>>
    THEN UNCHANGED readVars
    ELSE LET b == Head(posted)
         IN  /\ heap' = [heap EXCEPT ![b] = Overwrite(@, RenameInfo(p))]
             /\ letter' = [letter EXCEPT ![b] = p]
             /\ posted' = Tail(posted)
             /\ completed' = Append(completed, [block |-> b, ok |-> TRUE])
             /\ UNCHANGED <<allocated, reader>>

\* A request to delete p that the shield judges, or to rename it with a class
\* that bypasses the access check, which is judged as a delete.  The rename
\* fails when the held name is too long for NTFS, and then the file stays.
Delete(p) ==
    /\ port = "open"
    /\ p \in disk
    /\ CASE ~IsDeletionAllowed(p) ->
              UNCHANGED <<disk, held, bypassed, readVars>>
         [] IsDeletionAllowed(p) /\ ~IsBackupAllowed(p) ->
              /\ disk' = disk \ {p}
              /\ UNCHANGED <<held, bypassed, readVars>>
         [] OTHER ->
              IF HasRenamePrefix(p.name) \/ ~CanBeHeld(p)
              THEN UNCHANGED <<disk, held, bypassed, readVars>>
              ELSE /\ disk' = (disk \ {p}) \cup {HeldPath(p)}
                   /\ held' = held \cup {p}
                   /\ bypassed' = bypassed \ {HeldPath(p)}
                   /\ Send(p)
    /\ UNCHANGED <<cloud, port, files_to_backup_>>

\* Mutant: held files may be renamed.
RenameAny(p) ==
    /\ port = "open"
    /\ p \in disk
    /\ disk' = disk \ {p}
    /\ UNCHANGED <<held, bypassed, cloud, port, readVars, files_to_backup_>>

\* A request to rename p that the shield judges, to a name that is none of
\* UserFile.
Rename(p) ==
    /\ port = "open"
    /\ p \in disk
    /\ IsRenameAllowed(p)
    /\ disk' = disk \ {p}
    /\ UNCHANGED <<held, bypassed, cloud, port, readVars, files_to_backup_>>

\* A request to delete or rename p that the shield lets pass without a look at
\* the name: it comes from kernel mode, no client is connected, or the name
\* cannot be had.
Pass(p) ==
    /\ p \in disk
    /\ disk' = disk \ {p}
    /\ bypassed' = bypassed \cup {q \in {p} : \E r \in held : q = HeldPath(r)}
    /\ UNCHANGED <<held, cloud, port, readVars, files_to_backup_>>

\* The driver closes the port: the posted reads fail.
ClosePort ==
    /\ port = "open"
    /\ port' = "closed"
    /\ completed' = completed \o
         [i \in 1 .. Len(posted) |-> [block |-> posted[i], ok |-> FALSE]]
    /\ posted' = <<>>
    /\ UNCHANGED <<disk, held, bypassed, cloud, heap, allocated, letter, reader,
                   files_to_backup_>>

-----------------------------------------------------------------------------
(* get_message *)

\* A block is allocated and its read posted.  With no block to be had, or on
\* a port that is closed, the loop begins again: the block is freed at once.
PostRead ==
    /\ reader = "post"
    /\ port = "open"
    /\ \E b \in Block \ allocated :
         /\ allocated' = allocated \cup {b}
         /\ posted' = Append(posted, b)
    /\ reader' = "wait"
    /\ UNCHANGED <<driverVars, cloud, heap, completed, letter,
                   files_to_backup_>>

\* After 10 ms the loop begins again; the read stays posted.
ReadTimesOut ==
    /\ reader = "wait"
    /\ completed = <<>>
    /\ reader' = "post"
    /\ UNCHANGED <<driverVars, cloud, heap, allocated, posted, completed,
                   letter, files_to_backup_>>

Take ==
    /\ reader = "wait"
    /\ completed # <<>>
    /\ completed' = Tail(completed)
    /\ reader' = "post"

\* A failed read, a text that is not valid and a file that does not exist are
\* skipped, and their block is never freed.
SkipMessage ==
    /\ Take
    /\ LET e == Head(completed)
           paths == BufferToPaths(heap[e.block])
       IN  ~e.ok \/ ~paths.valid \/ ~OnDisk(paths.from)
    /\ UNCHANGED <<driverVars, cloud, heap, allocated, posted, letter,
                   files_to_backup_>>

\* Mutant: pMsg, the read posted last, is freed and not message.
QueueMessageFreesPosted ==
    /\ Take
    /\ LET e == Head(completed)
           paths == BufferToPaths(heap[e.block])
       IN  /\ e.ok
           /\ paths.valid
           /\ OnDisk(paths.from)
           /\ files_to_backup_' = Append(files_to_backup_,
                                         [from |-> paths.from,
                                          to   |-> paths.to])
           /\ allocated' =
                allocated \ {IF posted = <<>> THEN e.block
                             ELSE posted[Len(posted)]}
    /\ UNCHANGED <<driverVars, cloud, heap, posted, letter>>

\* Mutant: the existence of the file is not looked at.
QueueMessageUnchecked ==
    /\ Take
    /\ LET e == Head(completed)
           paths == BufferToPaths(heap[e.block])
       IN  /\ e.ok
           /\ paths.valid
           /\ files_to_backup_' = Append(files_to_backup_,
                                         [from |-> paths.from,
                                          to   |-> paths.to])
           /\ allocated' = allocated \ {e.block}
    /\ UNCHANGED <<driverVars, cloud, heap, posted, letter>>

\* A message that names a file is put on the list and its block freed.  The
\* driver sends no message of another kind: SendHeartBeatToClient is never
\* called.
QueueMessage ==
    /\ Take
    /\ LET e == Head(completed)
           paths == BufferToPaths(heap[e.block])
       IN  /\ e.ok
           /\ paths.valid
           /\ OnDisk(paths.from)
           /\ files_to_backup_' = Append(files_to_backup_,
                                         [from |-> paths.from,
                                          to   |-> paths.to])
           /\ allocated' = allocated \ {e.block}
    /\ UNCHANGED <<driverVars, cloud, heap, posted, letter>>

-----------------------------------------------------------------------------
(* run *)

ForgetMissing ==
    /\ files_to_backup_ # <<>>
    /\ ~OnDisk(Head(files_to_backup_).from)
    /\ files_to_backup_' = Tail(files_to_backup_)
    /\ UNCHANGED <<driverVars, cloud, readVars>>

\* The file is uploaded under its original path.  The command fails on a port
\* that is closed, or when there is no such file, and the entry stays.
BackUp ==
    /\ files_to_backup_ # <<>>
    /\ LET e == Head(files_to_backup_)
           sent == CommandFileName(DeleteCode \o e.from)
           gone == {p \in disk : FullPath(p) = sent}
       IN  /\ OnDisk(e.from)
           /\ cloud' = cloud \cup {<<e.from, e.to>>}
           /\ IF port = "open" /\ gone # {}
              THEN /\ disk' = disk \ gone
                   /\ files_to_backup_' = Tail(files_to_backup_)
              ELSE UNCHANGED <<disk, files_to_backup_>>
    /\ UNCHANGED <<held, bypassed, port, readVars>>

-----------------------------------------------------------------------------
DriverStep ==
    ClosePort \/ \E p \in disk : Delete(p) \/ Rename(p) \/ Pass(p)

ReaderStep == PostRead \/ ReadTimesOut \/ SkipMessage \/ QueueMessage

RunStep == ForgetMissing \/ BackUp

Next == DriverStep \/ ReaderStep \/ RunStep

Spec == Init /\ [][Next]_vars
-----------------------------------------------------------------------------
(* Properties *)

\* The path of a held file fits the message with both marks ...
Whole(p) ==
    Len(CodeBackupFile) + Len(FullPath(p)) + Len(RenamePrefix)
      + Len(RenameSuffix) <= DF_FILENAME_SIZE

\* ... and has no mark but the two that were put on.
Unmarked(p) ==
    /\ ~FindSubString(Volume \o p.dir \o <<".">>, RenamePrefix)
    /\ ~FindSubString(<<".">> \o p.name, RenameSuffix)

\* The reads that are posted and those that are over and not looked at yet
\* are in different blocks, and all of these are allocated: get_message frees
\* and skips blocks in another order than it posts them, and the driver never
\* writes into a block that was freed or over a message that was not read.
ReadsOwnTheirBlocks ==
    /\ \A i \in 1 .. Len(posted) : posted[i] \in allocated
    /\ \A j \in 1 .. Len(completed) : completed[j].block \in allocated
    /\ \A i, k \in 1 .. Len(posted) : i # k => posted[i] # posted[k]
    /\ \A j, k \in 1 .. Len(completed) :
         j # k => completed[j].block # completed[k].block
    /\ \A i \in 1 .. Len(posted), j \in 1 .. Len(completed) :
         posted[i] # completed[j].block

\* Whatever earlier messages left in the block, buffer_to_paths finds in a
\* message that is whole and has no other marks the path the file was given
\* and the one it had.
MessageIsRead ==
    \A i \in 1 .. Len(completed) :
      LET b == completed[i].block
          p == letter[b]
      IN  completed[i].ok /\ Whole(p) /\ Unmarked(p) =>
            BufferToPaths(heap[b]) = [valid |-> TRUE,
                                      from  |-> FullPath(HeldPath(p)),
                                      to    |-> FullPath(p)]

\* Every entry of files_to_backup_ is a file that was held, with the path it
\* had: a message whose name was left out for want of room, text of an earlier
\* message, or a name with marks of its own never puts another file on the
\* list, or one under another's name.
ListedFilesAreHeld ==
    \A i \in 1 .. Len(files_to_backup_) :
      \E p \in held : files_to_backup_[i] = [from |-> FullPath(HeldPath(p)),
                                             to   |-> FullPath(p)]

\* A file whose delete was turned into a rename is on the volume under its
\* held name until it is in the cloud under its own, unless a request that the
\* shield does not judge removes it there: no request that is judged gets it
\* past the name filters, and no delete command names it before.
HeldFilesAreKept ==
    \A p \in held :
      \/ HeldPath(p) \in disk
      \/ HeldPath(p) \in bypassed
      \/ <<FullPath(HeldPath(p)), FullPath(p)>> \in cloud

\* "Searching for last .^^^ at the end" (ShieldClient.cpp, buffer_to_paths):
\* the path read from a whole message is the path the file was given, whatever
\* marks its name has (one that begins with "^^^" makes a suffix with the dot
\* of the prefix, and is left out here).
PathEndsAtLastSuffix ==
    \A i \in 1 .. Len(completed) :
      LET b == completed[i].block
          p == letter[b]
      IN  /\ completed[i].ok
          /\ Whole(p)
          /\ ~FindSubString(Volume \o p.dir \o <<".">>, RenamePrefix)
          /\ ~EndsAt(<<".">> \o p.name, Len(RenameSuffix), RenameSuffix)
          => BufferToPaths(heap[b]).from = FullPath(HeldPath(p))
=============================================================================
