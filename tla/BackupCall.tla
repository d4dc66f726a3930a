------------------------------ MODULE BackupCall ------------------------------
(***************************************************************************)
(* What the backup loop takes for granted about a call of upload(), as     *)
(* ShieldClient has it in RunFileSize, RunReadFile, RunPost, RunUpload,    *)
(* RunUploadFails and ClientExit: no service, token or trial.              *)
(*                                                                         *)
(* A call finds a file or returns false, reads once what is there, and     *)
(* from then on offers that and nothing else to the cloud.  It returns     *)
(* true only for what the cloud has or has said to have, and false when it *)
(* found no file or has posted in vain, as far as it can tell.  It may     *)
(* last for ever, and the process may end anywhere.                        *)
(***************************************************************************)
VARIABLES
    stage,      \* "down": no process; "idle": no call; else where the call is
    present,    \* there is a file at the path
    read,       \* what the call has read
    stored,     \* the cloud has that from this call, or said it has
    answer      \* what the last call has returned

callVars == <<stage, present, read, stored, answer>>

Calling == stage \in {"size", "open", "post"}

CallInit ==
    /\ stage = "down"
    /\ present \in BOOLEAN
    /\ read = "none"
    /\ stored = FALSE
    /\ answer = "none"

FileComesOrGoes ==
    /\ present' = ~present
    /\ UNCHANGED <<stage, read, stored, answer>>

Start ==
    /\ stage = "down"
    /\ stage' = "idle"
    /\ UNCHANGED <<present, read, stored, answer>>

Begin ==
    /\ stage = "idle"
    /\ present
    /\ stage' = "size"
    /\ read' = "none"
    /\ stored' = FALSE
    /\ answer' = "none"
    /\ UNCHANGED present

FileSize ==
    /\ stage = "size"
    /\ IF present THEN stage' = "open" /\ UNCHANGED answer
                  ELSE stage' = "idle" /\ answer' = "false"
    /\ UNCHANGED <<present, read, stored>>

ReadFile ==
    /\ stage = "open"
    /\ stage' = "post"
    /\ read' = IF present THEN "file" ELSE "zeros"
    /\ UNCHANGED <<present, stored, answer>>

\* The cloud has it, and the call does not know yet.
Store ==
    /\ stage = "post"
    /\ stored' = TRUE
    /\ UNCHANGED <<stage, present, read, answer>>

Succeed ==
    /\ stage = "post"
    /\ stage' = "idle"
    /\ stored' = TRUE
    /\ answer' = "true"
    /\ UNCHANGED <<present, read>>

\* With the last answer lost, what was posted may be stored.
Fail ==
    /\ stage = "post"
    /\ stage' = "idle"
    /\ stored' \in {stored, TRUE}
    /\ answer' = "false"
    /\ UNCHANGED <<present, read>>

\* Wherever the process ends; while it posts that may be stored too.
End ==
    /\ stage # "down"
    /\ stage' = "down"
    /\ read' = "none"
    /\ stored' \in {stored, stored \/ stage = "post"}
    /\ answer' = "none"
    /\ UNCHANGED present

CallNext ==
    \/ FileComesOrGoes \/ Start \/ Begin \/ FileSize \/ ReadFile \/ Store
    \/ Succeed \/ Fail \/ End

CallSpec == CallInit /\ [][CallNext]_callVars
=============================================================================
