------------------------------- MODULE Custody -------------------------------
(***************************************************************************)
(* What the shield and its client promise together for the files that are  *)
(* deleted, without saying how: no callback, port, message or list.        *)
(*                                                                         *)
(* A file whose deletion is caught goes to a held path and is owed a       *)
(* backup.  The path is saved when something was uploaded from it; only    *)
(* then, and only while it is owed, may the file there be deleted for the  *)
(* client.  What is owed may be lost, but it is never simply forgotten     *)
(* while a file is there.                                                  *)
(***************************************************************************)
CONSTANTS
    File,
    Path,       \* where files can be
    ShieldPath,   \* the paths of the shield's own
    NoPath      \* where a file is that does not exist yet

VARIABLES
    at,         \* at[f]: the path of f
    disk,       \* the files that exist
    owed,       \* held paths on their way to be backed up
    lost,       \* held paths of which the way was lost
    saved       \* held paths something was uploaded from

custodyVars == <<at, disk, owed, lost, saved>>

CustodyTypeOK ==
    /\ at \in [File -> Path \cup {NoPath}]
    /\ disk \subseteq File
    /\ owed \subseteq ShieldPath
    /\ lost \subseteq ShieldPath
    /\ saved \subseteq ShieldPath

CustodyInit ==
    /\ at = [f \in File |-> NoPath]
    /\ disk = {}
    /\ owed = {}
    /\ lost = {}
    /\ saved = {}

-----------------------------------------------------------------------------
Occupant(p) == {f \in disk : at[f] = p}

Promises == <<owed, lost, saved>>

\* What users and what is not the shield's business do: a file is created or
\* removed, or moved, over what is there, or its directory is.  A file that
\* comes to a held path that way is lost.
Create(f, p) ==
    /\ at[f] = NoPath
    /\ at' = [at EXCEPT ![f] = p]
    /\ disk' = disk \cup {f}
    /\ UNCHANGED Promises

Move(f, p) ==
    /\ f \in disk
    /\ at' = [at EXCEPT ![f] = p]
    /\ disk' = disk \ (Occupant(p) \ {f})

CarriedOff == {at'[f] : f \in {g \in disk : at'[g] # at[g]}} \cap ShieldPath

UserMoves(f, p) ==
    /\ Move(f, p)
    /\ lost' = lost \cup CarriedOff
    /\ UNCHANGED <<owed, saved>>

UserMovesDirectory ==
    /\ at' \in [File -> Path \cup {NoPath}]
    /\ \A f \in File \ disk : at'[f] = at[f]
    /\ \A f, g \in disk : at'[f] = at'[g] => at[f] = at[g]
    /\ lost' = lost \cup CarriedOff
    /\ UNCHANGED <<disk, owed, saved>>

UserRemoves(f) ==
    /\ disk' = disk \ {f}
    /\ UNCHANGED <<at, Promises>>

\* A file is taken, and held path p is owed from now on.  When the file itself
\* came to another path, q, it is lost.
Take(f, p, q) ==
    /\ {p, q} \subseteq ShieldPath
    /\ Move(f, q)
    /\ owed' = owed \cup {p}
    /\ lost' = IF p = q THEN lost \ {p} ELSE lost \cup {q}
    /\ UNCHANGED saved

\* Something is uploaded from p.
Save(p) ==
    /\ p \in owed
    /\ saved' = saved \cup {p}
    /\ UNCHANGED <<at, disk, owed, lost>>

\* The file at p is deleted for the client; p stays owed only to a file that
\* may follow.
Release(p) ==
    /\ p \in owed \cap saved
    /\ disk' = disk \ Occupant(p)
    /\ owed' \in {owed, owed \ {p}}
    /\ UNCHANGED <<at, lost, saved>>

\* What is owed is dropped where no file is left, or counted as lost; what was
\* lost may be found.
Settle ==
    /\ owed' \subseteq owed \cup lost
    /\ lost \subseteq lost' /\ lost' \subseteq lost \cup owed
    /\ \A p \in owed \ (owed' \cup lost') : Occupant(p) = {}
    /\ UNCHANGED <<at, disk, saved>>

CustodyNext ==
    \/ \E f \in File :
         \/ \E p \in Path \ ShieldPath : Create(f, p)
         \/ \E p \in Path : UserMoves(f, p) \/ \E q \in Path : Take(f, p, q)
         \/ UserRemoves(f)
    \/ UserMovesDirectory
    \/ \E p \in ShieldPath : Save(p) \/ Release(p)
    \/ Settle

CustodySpec == CustodyInit /\ [][CustodyNext]_custodyVars

-----------------------------------------------------------------------------
\* A file at a held path is owed its backup, or that was lost: nobody takes a
\* file away from its user and then forgets it.
NothingForgotten ==
    \A f \in disk : at[f] \in ShieldPath => at[f] \in owed \cup lost
=============================================================================
