------------------------ MODULE BackupRefinesCustody ------------------------
(***************************************************************************)
(* BackupOnDelete does what Custody promises.                              *)
(*                                                                         *)
(* A path is owed while a notification of it is under way, in a callback,  *)
(* an inbox, the reader or the list; it is saved when the cloud has        *)
(* anything under it.  Connecting, loading, checking, failing and retrying *)
(* are steps that Custody does not see.                                    *)
(***************************************************************************)
EXTENDS BackupOnDelete

HeldPaths == {p \in Path : p.held}

Owed == {p \in HeldPaths : InFlight(p)}

Lost == HeldPaths \cap dropped

Saved == {p \in HeldPaths : \E data \in Contents : <<data, p>> \in cloud}

C == INSTANCE Custody WITH ShieldPath <- HeldPaths, owed <- Owed,
                           lost <- Lost, saved <- Saved

\* Every step of the whole is one that Custody allows, or one it does not see:
\* files leave the disk for the client only under paths owed and saved, what is
\* owed is never forgotten while a file is there, and nothing is owed that was
\* neither taken nor lost, across collisions, retries, leftovers of messages,
\* files moved in between, second clients, unloads and restarts
\* (files.cpp:246-274, main.cpp:580-633,
\* communication.cpp:270-287, ShieldClient.cpp:158-203, 366-416).
ImplementsCustody == C!CustodySpec
=============================================================================
