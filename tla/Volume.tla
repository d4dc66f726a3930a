------------------------------- MODULE Volume -------------------------------
(***************************************************************************)
(* The volume the shield filters and the client reads: which file is on    *)
(* disk, and under which path.  NTFS is not part of the repository; it is  *)
(* modelled from the calls the driver and the client make of it:           *)
(* FltSetInformationFile (files.cpp), ZwDeleteFile (communication.cpp) and *)
(* fs::exists / ifstream (ShieldClient.cpp, utility.cpp).                  *)
(*                                                                         *)
(* A file of CONSTANT File is one life of a file: it is created once, and  *)
(* once removed it never comes back.  A path is a directory and a name in  *)
(* it, which is as the user gave it or between the shield's marks          *)
(* (".^^^." name ".^^^").                                                  *)
(***************************************************************************)
EXTENDS Naturals, FiniteSets

CONSTANTS
    File,       \* files that may be created
    Dir,        \* the directories
    Name,       \* the names users give to them
    NoPath      \* where a file is that does not exist yet

Path == [dir : Dir, held : BOOLEAN, name : Name]

\* The path a user gives a file.
Original(d, n) == [dir |-> d, held |-> FALSE, name |-> n]

\* The path RenameOnDelete gives it.
Held(d, n) == [dir |-> d, held |-> TRUE, name |-> n]

ASSUME NoPathAssumption == NoPath \notin Path

\* Who took a file off the disk.
Remover == {"nobody", "request", "shield", "client"}

VARIABLES
    at,         \* at[f]: the path of f; a removed file keeps its last one
    disk,       \* the files on disk
    hidden,     \* the files on disk with the hidden attribute
    removedBy   \* history: who removed the file, for the properties only

volVars == <<at, disk, hidden, removedBy>>

VolumeTypeOK ==
    /\ at \in [File -> Path \cup {NoPath}]
    /\ disk \subseteq File
    /\ hidden \subseteq disk
    /\ removedBy \in [File -> Remover]

VolumeInit ==
    /\ at = [f \in File |-> NoPath]
    /\ disk = {}
    /\ hidden = {}
    /\ removedBy = [f \in File |-> "nobody"]

-----------------------------------------------------------------------------
\* The files at path p: at most one.
Occupant(p) == {f \in disk : at[f] = p}

OnDisk(p) == Occupant(p) # {}

\* A user creates a file.  Users are taken not to invent held names.
CreateFile(f, d, n) ==
    /\ at[f] = NoPath
    /\ ~OnDisk(Original(d, n))
    /\ at' = [at EXCEPT ![f] = Original(d, n)]
    /\ disk' = disk \cup {f}
    /\ UNCHANGED <<hidden, removedBy>>

\* The files in gone leave the disk, by the hand of who.
Remove(gone, who) ==
    /\ disk' = disk \ gone
    /\ hidden' = hidden \ gone
    /\ removedBy' = [g \in File |-> IF g \in gone THEN who ELSE removedBy[g]]

\* FileRenameInformation with ReplaceIfExists: the file at p, if any, is lost.
MoveFile(f, p, who) ==
    /\ f \in disk
    /\ at' = [at EXCEPT ![f] = p]
    /\ Remove(Occupant(p) \ {f}, who)

\* A user renames directory d to e, where no file is, and what is in it goes
\* along.
RenameDirectory(d, e) ==
    /\ \A f \in disk : at[f].dir # e
    /\ at' = [f \in File |-> IF f \in disk /\ at[f].dir = d
                             THEN [at[f] EXCEPT !.dir = e] ELSE at[f]]
    /\ UNCHANGED <<disk, hidden, removedBy>>
=============================================================================
