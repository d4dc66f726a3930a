-------------------------------- MODULE Names --------------------------------
(***************************************************************************)
(* What the driver and the client do with the text of names: the filters   *)
(* of files.cpp, the name a held file gets (RenameOnDelete), the message   *)
(* that names it (SendReanmeInfoToClient), the client's reading of that    *)
(* message (buffer_to_paths) and the driver's reading of the delete        *)
(* command (ShieldMessage).                                                *)
(*                                                                         *)
(* A text is a sequence of characters.  Case is left out: the words are    *)
(* compared without regard to it, the marks have none.  A text in a buffer *)
(* ends where the buffer has its first zero character.                     *)
(***************************************************************************)
EXTENDS Integers, Sequences, SequencesExt, FiniteSetsExt

CONSTANTS
    Char,                   \* the characters of names
    DF_FILENAME_SIZE,       \* capacity of the driver's strings
    MESSAGE_LENGTH,         \* size of the client's message buffer
    MaxComponent,           \* NTFS: the longest name of a file
    Volume,                 \* gVolumeGUID
    ProtectedWords,
    BackupExtentionsIgnore,
    IgnoreSubdirInPath

ASSUME NamesAssumption ==
    /\ DF_FILENAME_SIZE \in Nat
    /\ MESSAGE_LENGTH \in Nat
    /\ DF_FILENAME_SIZE <= MESSAGE_LENGTH
    /\ MaxComponent \in Nat
    /\ {".", "^", "~", "B", "D"} \subseteq Char
    /\ Volume \in Seq(Char)

RenamePrefix == <<".", "^", "^", "^", ".">>    \* gSUBCOM_RENAME_PREFIX
RenameSuffix == <<".", "^", "^", "^">>         \* gSUBCOM_RENAME_SUFFIX
CodeBackupFile == <<"B">>
DeleteCode == <<"D">>

Text == Seq(Char)

\* What is so of the constants as the code has them: a name NTFS takes has room
\* for the prefix in the driver's strings (255 + 5 <= 260); the held files'
\* extension is not one that gets no backup (files.cpp:22-25); the directories
\* that get none (files.cpp:31-36) have no mark's character in them.
ASSUME MarksAssumption ==
    /\ MaxComponent + Len(RenamePrefix) <= DF_FILENAME_SIZE
    /\ <<"^", "^", "^">> \notin BackupExtentionsIgnore
    /\ ProtectedWords \subseteq Text
    /\ IgnoreSubdirInPath \subseteq Text
    /\ \A w \in IgnoreSubdirInPath :
         \A i \in 1 .. Len(w) : w[i] \notin {".", "^"}

\* A file by its directory (ParentDir, with its separators) and its name
\* (FinalComponent).
Path == [dir : Text, name : Text]

FullPath(p) == Volume \o p.dir \o p.name

-----------------------------------------------------------------------------
(* The filters *)

FindSubString(text, word) ==
    \E i \in 0 .. Len(text) - Len(word) :
      SubSeq(text, i + 1, i + Len(word)) = word

\* FltParseFileNameInformation: what follows the last dot.
Extension(name) ==
    LET dots == {i \in 1 .. Len(name) : name[i] = "."}
    IN  IF dots = {} THEN <<>> ELSE SubSeq(name, Max(dots) + 1, Len(name))

HasProtectedWord(name) == \E w \in ProtectedWords : FindSubString(name, w)

HasRenamePrefix(name) == IsPrefix(RenamePrefix, name)

IsRenameAllowed(p) == ~HasProtectedWord(p.name) /\ ~HasRenamePrefix(p.name)

IsDeletionAllowed(p) == ~HasProtectedWord(p.name)

\* "Length <= 2" is in bytes: a name of one character.
IsBackupAllowed(p) ==
    /\ Extension(p.name) # <<>>
    /\ Len(p.name) > 1
    /\ p.name[Len(p.name)] # "~"
    /\ Extension(p.name) \notin BackupExtentionsIgnore
    /\ \A w \in IgnoreSubdirInPath : ~FindSubString(p.dir \o p.name, w)

-----------------------------------------------------------------------------
(* The name of a held file and the message about it *)

\* RtlAppendUnicodeStringToString appends all of it or, when the string is
\* too small, nothing; its result is not looked at.
AppendString(text, more) ==
    IF Len(text) + Len(more) <= DF_FILENAME_SIZE THEN text \o more ELSE text

HeldName(name) ==
    AppendString(AppendString(AppendString(<<>>, RenamePrefix), name),
                 RenameSuffix)

HeldPath(p) == [dir |-> p.dir, name |-> HeldName(p.name)]

\* NTFS takes the new name if it is not too long.
CanBeHeld(p) == Len(HeldName(p.name)) <= MaxComponent

RenameInfo(p) ==
    AppendString(AppendString(AppendString(CodeBackupFile, Volume), p.dir),
                 HeldName(p.name))

-----------------------------------------------------------------------------
(* The client's reading of a message *)

EndsAt(text, i, mark) ==
    i >= Len(mark) /\ SubSeq(text, i - Len(mark) + 1, i) = mark

\* append(text, from, count): a negative count is a huge one.
Characters(text, first, count) ==
    SubSeq(text, first, IF count < 0 THEN Len(text) ELSE first + count - 1)

AfterCode(text) == SubSeq(text, 2, Len(text))

NoPaths == [valid |-> FALSE, from |-> <<>>, to |-> <<>>]

PathsUpTo(limit, buf) ==
    LET last == IF Len(buf) < limit THEN Len(buf) ELSE limit
        starts == {i \in 5 .. last : EndsAt(buf, i, RenamePrefix)}
        pre == Min(starts)
        ends == {i \in pre + 1 .. last : EndsAt(buf, i, RenameSuffix)}
        post == Min(ends)
    IN  IF starts = {} THEN NoPaths
        ELSE IF ends = {} THEN NoPaths
        ELSE [valid |-> TRUE,
              from  |-> SubSeq(buf, 1, post),
              to    |-> SubSeq(buf, 1, pre - 5)
                          \o Characters(buf, pre + 1, post - pre - 4)]

\* Mutant: the loop stops before the last character of a full message.
BufferToPathsShort(buffer) == PathsUpTo(MESSAGE_LENGTH - 2, AfterCode(buffer))

\* buffer_to_paths on message->buffer + 1.  The last place it looks at is past
\* the end of the buffer: the status of the completed read, which is zero.
BufferToPaths(buffer) == PathsUpTo(MESSAGE_LENGTH, AfterCode(buffer))

\* ShieldMessage: what follows the code.  The message is the client's own
\* string, which a zero ends.
CommandFileName(message) == AfterCode(message)
=============================================================================
