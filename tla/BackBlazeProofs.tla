--------------------------- MODULE BackBlazeProofs ---------------------------
(***************************************************************************)
(* What holds of a call of upload() for every number of trials and of      *)
(* restarts.                                                               *)
(*                                                                         *)
(* CallIsBounded is not inductive: it has to be known how many requests    *)
(* may have been made by each step of the call, and that is what Budget    *)
(* adds.  The trial a loop is in bounds what the loop has sent.            *)
(***************************************************************************)
EXTENDS BackBlaze, TLAPS

Budget ==
    /\ pc \notin {"get", "post", "stalled"} => i = 1
    /\ pc = "authenticate" => requests = 0
    /\ pc \in {"authenticate", "exists", "get", "size", "open"} => copies = 0
    /\ pc = "exists" => requests <= 1
    /\ pc = "get" => requests <= i
    /\ pc \in {"size", "open"} => requests <= MAX_TRIALS + 1
    /\ pc = "post" => requests <= MAX_TRIALS + i /\ copies < i /\ data # "none"

CallInv == BBTypeOK /\ Budget /\ CallIsBounded /\ TrueMeansStored

LEMMA InitCallInv == BBInit => CallInv
<1> SUFFICES ASSUME BBInit
             PROVE  CallInv
  OBVIOUS
<1>1. authenticated_ \in BOOLEAN /\ misled \in BOOLEAN
  BY DEF BBInit
<1> QED
  BY <1>1, BackBlazeAssumption
     DEF BBInit, CallInv, BBTypeOK, Budget, CallIsBounded, TrueMeansStored

\* A step of the process that is not one of a call.
LEMMA OtherKeepsCallInv ==
    ASSUME CallInv, Expire \/ FileComesOrGoes \/ Construct \/ Upload
    PROVE  CallInv'
<1> USE BackBlazeAssumption
    DEF CallInv, BBTypeOK, Budget, CallIsBounded, TrueMeansStored, memory,
        history
<1>1. CASE Expire
  BY <1>1 DEF Expire
<1>2. CASE FileComesOrGoes
  BY <1>2 DEF FileComesOrGoes
<1>3. CASE Construct
  <2>1. authenticated_' \in BOOLEAN
    BY <1>3 DEF Construct, authenticate, Throw
  <2> QED
    BY <1>3, <2>1 DEF Construct, authenticate, Throw, GoOn
<1>4. CASE Upload
  <2>1. misled' \in BOOLEAN
    BY <1>4 DEF Upload
  <2> QED
    BY <1>4, <2>1 DEF Upload
<1> QED
  BY <1>1, <1>2, <1>3, <1>4

\* The call up to the first post.
LEMMA AskingKeepsCallInv ==
    ASSUME CallInv,
           \/ Authenticate \/ Exists \/ NoAccount \/ UploadFile \/ ReadFile
           \/ UrlGiven \/ UrlRefused \/ UrlAnswerUseless \/ UrlAnswerUnreadable
    PROVE  CallInv'
<1> USE BackBlazeAssumption
    DEF CallInv, BBTypeOK, Budget, CallIsBounded, TrueMeansStored, memory,
        Throw, Return, GoOn
<1>1. CASE Authenticate
  <2>1. authenticated_' \in BOOLEAN
    BY <1>1 DEF Authenticate, authenticate
  <2> QED
    BY <1>1, <2>1 DEF Authenticate, authenticate
<1>2. CASE Exists
  BY <1>2 DEF Exists
<1>3. CASE NoAccount
  <2>1. authenticated_' \in BOOLEAN
    BY <1>3 DEF NoAccount
  <2> QED
    BY <1>3, <2>1 DEF NoAccount
<1>4. CASE UploadFile
  BY <1>4 DEF UploadFile
<1>5. CASE ReadFile
  BY <1>5 DEF ReadFile
<1>6. CASE UrlGiven \/ UrlAnswerUseless
  BY <1>6 DEF UrlGiven, UrlAnswerUseless, AskForUrl
<1>7. CASE UrlRefused
  BY <1>7 DEF UrlRefused, AskForUrl
<1>8. CASE UrlAnswerUnreadable
  <2>1. authenticated_' \in BOOLEAN
    BY <1>8 DEF UrlAnswerUnreadable
  <2> QED
    BY <1>8, <2>1 DEF UrlAnswerUnreadable
<1> QED
  BY <1>1, <1>2, <1>3, <1>4, <1>5, <1>6, <1>7, <1>8

\* The posts: each uses up a trial, and stores one copy at most.
LEMMA PostKeepsCallInv ==
    ASSUME CallInv,
           PostAnswered \/ PostAnswerTaken \/ PostFails \/ PostAnswerUseless
    PROVE  CallInv'
<1> USE BackBlazeAssumption
    DEF CallInv, BBTypeOK, Budget, CallIsBounded, TrueMeansStored, memory,
        Throw, Return, GoOn, Post
<1>1. CASE PostAnswered
  BY <1>1 DEF PostAnswered
<1>2. CASE PostFails
  BY <1>2 DEF PostFails
<1>3. CASE PostAnswerUseless
  <2>1. authenticated_' \in BOOLEAN
    BY <1>3 DEF PostAnswerUseless
  <2> QED
    BY <1>3, <2>1 DEF PostAnswerUseless
<1>4. CASE PostAnswerTaken
  <2>1. CASE copies' = copies
    <3>1. misled' = TRUE
      BY <1>4, <2>1, Zenon DEF PostAnswerTaken
    <3> QED
      BY <1>4, <2>1, <3>1 DEF PostAnswerTaken
  <2>2. CASE copies' = copies + 1
    <3>1. misled' \in BOOLEAN
      BY <1>4, Zenon DEF PostAnswerTaken
    <3> QED
      BY <1>4, <2>2, <3>1 DEF PostAnswerTaken
  <2> QED
    BY <1>4, <2>1, <2>2 DEF PostAnswerTaken
<1> QED
  BY <1>1, <1>2, <1>3, <1>4

\* A request that does not end is the last of its call, and counts.
LEMMA StallKeepsCallInv ==
    ASSUME CallInv, Stall
    PROVE  CallInv'
<1>1. copies' = copies \/ (pc = "post" /\ copies' = copies + 1)
  BY DEF Stall
<1> QED
  BY <1>1, BackBlazeAssumption
     DEF CallInv, BBTypeOK, Budget, CallIsBounded, TrueMeansStored, memory,
         Stall

LEMMA CallInvariant == BBSpec => []CallInv
<1>1. CallInv /\ [BBNext]_bbVars => CallInv'
  <2> SUFFICES ASSUME CallInv, [BBNext]_bbVars
               PROVE  CallInv'
    OBVIOUS
  <2>1. CASE UNCHANGED bbVars
    BY <2>1 DEF bbVars, memory, history, CallInv, BBTypeOK, Budget,
                CallIsBounded, TrueMeansStored
  <2>2. CASE BBNext
    BY <2>2, OtherKeepsCallInv, AskingKeepsCallInv, PostKeepsCallInv,
       StallKeepsCallInv DEF BBNext, CallStep
  <2> QED
    BY <2>1, <2>2
<1> QED
  BY <1>1, InitCallInv, PTL DEF BBSpec

-----------------------------------------------------------------------------
\* Whatever is answered, whatever is lost and however often the process starts
\* again, upload() says that a file was uploaded only when the service has
\* stored what this call read, or has answered as if it had
\* (BackBlazeClient.cpp:98-116, 149-157).
THEOREM TrueIsTrue == BBSpec => []TrueMeansStored
  BY CallInvariant, PTL DEF CallInv

\* A call makes at most 2 * MAX_TRIALS + 1 requests and leaves at most
\* MAX_TRIALS copies (BackBlazeClient.cpp:57, 98, 126).
THEOREM UploadIsBounded == BBSpec => []CallIsBounded
  BY CallInvariant, PTL DEF CallInv

\* The variables of a call have the values upload() and what it calls give
\* them, and no trial is made beyond the last (BackBlazeClient.cpp:57, 98).
THEOREM CallTypesCorrect == BBSpec => []BBTypeOK
  BY CallInvariant, PTL DEF CallInv

-----------------------------------------------------------------------------
(* A call as the backup loop takes it                                        *)

\* A process that has ended has neither read a file nor an answer to give, and
\* a call has read nothing until it has opened the file.
DownIsEmpty ==
    /\ pc = "down" => data = "none" /\ result \in {"none", "thrown"}
    /\ pc \in {"authenticate", "exists", "get", "size", "open"} =>
         data = "none"

RefineInv == CallInv /\ DownIsEmpty

LEMMA RefineInvariant == BBSpec => []RefineInv
<1>1. BBInit => DownIsEmpty
  BY DEF BBInit, DownIsEmpty
<1>2. RefineInv /\ [BBNext]_bbVars => DownIsEmpty'
  <2> SUFFICES ASSUME RefineInv, [BBNext]_bbVars PROVE DownIsEmpty'
    OBVIOUS
  <2> USE DEF RefineInv, DownIsEmpty
  <2>1. CASE Expire \/ FileComesOrGoes \/ Construct \/ Upload
    BY <2>1 DEF Expire, FileComesOrGoes, Construct, Upload, authenticate, GoOn,
                Throw, memory, history
  <2>2. CASE \/ Authenticate \/ Exists \/ NoAccount \/ UploadFile \/ ReadFile
             \/ UrlGiven \/ UrlRefused \/ UrlAnswerUseless
             \/ UrlAnswerUnreadable
    BY <2>2 DEF Authenticate, authenticate, Exists, NoAccount, UploadFile,
                ReadFile, UrlGiven, UrlRefused, UrlAnswerUseless, AskForUrl,
                UrlAnswerUnreadable, GoOn, Throw, Return, memory
  <2>3. CASE \/ PostAnswered \/ PostAnswerTaken \/ PostFails
             \/ PostAnswerUseless \/ Stall
    BY <2>3 DEF PostAnswered, PostAnswerTaken, PostFails, PostAnswerUseless,
                Stall, Post, GoOn, Throw, Return, memory
  <2>4. CASE UNCHANGED bbVars
    BY <2>4 DEF bbVars, memory, history
  <2>5. QED
    BY <2>1, <2>2, <2>3, <2>4 DEF BBNext, CallStep
<1>3. QED
  BY <1>1, <1>2, CallInvariant, PTL DEF BBSpec, RefineInv

\* What a process that ends does to a call, whatever stage it is in; one that
\* ends while it starts has no call.
LEMMA ThrowIsEnd ==
    ASSUME RefineInv, Throw, onDisk' = onDisk,
           (copies' > 0 \/ misled') \in
             {copies > 0 \/ misled, (copies > 0 \/ misled) \/ pc = "post"}
    PROVE  [B!CallNext]_(B!callVars)
<1>1. CASE pc = "down"
  BY <1>1 DEF RefineInv, DownIsEmpty, Throw, Stage, B!callVars
<1>2. CASE pc # "down"
  <2>1. Stage # "down" /\ (pc = "post" => Stage = "post")
    BY <1>2 DEF Stage
  <2>2. Stage' = "down"
    BY DEF Throw, Stage
  <2>3. ((copies > 0 \/ misled) \/ pc = "post") \in
          {(copies > 0 \/ misled), (copies > 0 \/ misled) \/ Stage = "post"}
    BY <2>1, Zenon
  <2> QED
    BY <2>1, <2>2, <2>3 DEF Throw, B!CallNext, B!End
<1>3. QED
  BY <1>1, <1>2

\* Each step of upload() is one of the call, or one that is not seen.
LEMMA BBStepIsCallStep ==
    ASSUME RefineInv, [BBNext]_bbVars
    PROVE  [B!CallNext]_(B!callVars)
<1> USE DEF Stage, B!callVars
<1>1. BBTypeOK
  BY DEF RefineInv, CallInv
<1>2. ASSUME Throw, UNCHANGED <<onDisk, copies, misled>>
      PROVE  [B!CallNext]_(B!callVars)
  BY <1>2, ThrowIsEnd
<1>3. ASSUME UNCHANGED <<data, onDisk, result, copies, misled>>,
             \/ pc' = pc
             \/ /\ pc \in {"authenticate", "exists", "get", "size"}
                /\ pc' \in {"authenticate", "exists", "get", "size"}
      PROVE  UNCHANGED B!callVars
  BY <1>3
<1>4. CASE Expire
  BY <1>3, <1>4 DEF Expire, history
<1>5. CASE FileComesOrGoes
  BY <1>5 DEF FileComesOrGoes, memory, history, B!CallNext, B!FileComesOrGoes
<1>6. CASE Construct
  <2>1. CASE Throw
    BY <1>2, <1>6, <2>1 DEF Construct
  <2>2. CASE authenticate("idle")
    BY <1>6, <2>2 DEF Construct, authenticate, GoOn, B!CallNext, B!Start
  <2>3. QED
    BY <1>6, <2>1, <2>2 DEF Construct
<1>7. CASE Upload
  BY <1>7 DEF Upload, B!CallNext, B!Begin
<1>8. CASE Authenticate
  <2>1. CASE Throw
    BY <1>2, <1>8, <2>1 DEF Authenticate
  <2>2. CASE authenticate("exists")
    BY <1>3, <1>8, <2>2 DEF Authenticate, authenticate, GoOn
  <2>3. QED
    BY <1>8, <2>1, <2>2 DEF Authenticate
<1>9. CASE Exists
  <2>1. CASE onDisk
    BY <1>3, <1>9, <2>1 DEF Exists, GoOn, memory
  <2>2. CASE ~onDisk
    BY <1>9, <2>2 DEF Exists, Return, memory, B!CallNext, B!FileSize
  <2>3. QED
    BY <2>1, <2>2
<1>10. CASE NoAccount
  BY <1>2, <1>10 DEF NoAccount
<1>11. CASE UrlGiven \/ UrlRefused \/ UrlAnswerUseless
  BY <1>3, <1>11 DEF UrlGiven, UrlRefused, UrlAnswerUseless, AskForUrl, GoOn
<1>12. CASE UrlAnswerUnreadable
  BY <1>2, <1>12 DEF UrlAnswerUnreadable
<1>13. CASE UploadFile
  <2>1. CASE Throw
    BY <1>2, <1>13, <2>1 DEF UploadFile
  <2>2. CASE onDisk /\ GoOn("open") /\ UNCHANGED memory
    BY <1>13, <2>2 DEF UploadFile, GoOn, memory, B!CallNext, B!FileSize
  <2>3. QED
    BY <1>13, <2>1, <2>2 DEF UploadFile
<1>14. CASE ReadFile
  BY <1>14 DEF ReadFile, GoOn, B!CallNext, B!ReadFile
<1>15. copies \in Nat
  BY <1>1 DEF BBTypeOK
<1>16. CASE PostAnswered
  <2>1. copies' > 0
    BY <1>15, <1>16 DEF PostAnswered
  <2>2. QED
    BY <1>16, <2>1
       DEF PostAnswered, Post, Return, memory, B!CallNext, B!Succeed
<1>17. ASSUME copies' \in {copies, copies + 1}
       PROVE  (copies' > 0) \in {copies > 0, TRUE}
  <2>1. CASE copies' = copies
    BY <2>1
  <2>2. CASE copies' = copies + 1
    <3>1. copies' > 0
      BY <1>15, <2>2
    <3>2. QED
      BY <3>1, Zenon
  <2>3. QED
    BY <1>17, <2>1, <2>2
<1>18. CASE PostFails
  <2>1. (copies' > 0) \in {copies > 0, TRUE}
    BY <1>17, <1>18 DEF PostFails
  <2>2. CASE GoOn("post") /\ UNCHANGED memory
    BY <1>18, <2>1, <2>2
       DEF PostFails, Post, GoOn, memory, B!CallNext, B!Store
  <2>3. CASE Return("false")
    BY <1>18, <2>1, <2>3
       DEF PostFails, Post, Return, memory, B!CallNext, B!Fail
  <2>4. QED
    BY <1>18, <2>2, <2>3 DEF PostFails
<1>19. CASE PostAnswerUseless
  <2>1. (copies' > 0) \in {copies > 0, TRUE} /\ pc = "post"
    BY <1>17, <1>19 DEF PostAnswerUseless, Post
  <2>2. CASE Throw
    <3>1. (copies > 0 \/ pc = "post") = TRUE
      BY <2>1
    <3>2. QED
      BY <1>19, <2>1, <2>2, <3>1, ThrowIsEnd DEF PostAnswerUseless, Post
  <2>3. CASE Return("false")
    BY <1>19, <2>1, <2>3
       DEF PostAnswerUseless, Post, Return, memory, B!CallNext, B!Fail
  <2>4. QED
    BY <1>19, <2>2, <2>3 DEF PostAnswerUseless
<1>20. CASE UNCHANGED bbVars
  BY <1>3, <1>20 DEF bbVars, memory, history
<1>21. CASE PostAnswerTaken
  <2>1. copies' > 0 \/ misled'
    <3>1. CASE copies' = copies
      BY <1>21, <3>1 DEF PostAnswerTaken
    <3>2. CASE copies' = copies + 1
      BY <1>15, <3>2
    <3> QED
      BY <1>21, <3>1, <3>2 DEF PostAnswerTaken
  <2>2. (copies' > 0 \/ misled') = TRUE
    BY <2>1
  <2> QED
    BY <1>21, <2>2
       DEF PostAnswerTaken, Post, Return, memory, B!CallNext, B!Succeed
<1>22. CASE Stall
  <2>1. CASE pc # "post"
    <3>1. pc \in {"authenticate", "get"} /\ copies' = copies
      BY <1>22, <2>1 DEF Stall
    <3> QED
      BY <1>22, <3>1 DEF Stall, RefineInv, DownIsEmpty, memory
  <2>2. CASE pc = "post"
    <3>1. copies' \in {copies, copies + 1} /\ misled' = misled
      BY <1>22, <2>2 DEF Stall
    <3>2. data # "none" /\ data' = data
      BY <1>22, <2>2 DEF Stall, RefineInv, CallInv, Budget, memory
    <3>3. CASE copies' = copies
      BY <1>22, <2>2, <3>1, <3>2, <3>3 DEF Stall
    <3>4. CASE copies' = copies + 1
      <4>1. (copies' > 0 \/ misled') = TRUE
        BY <1>15, <3>4
      <4> QED
        BY <1>22, <2>2, <3>2, <4>1 DEF Stall, B!CallNext, B!Store
    <3> QED
      BY <3>1, <3>3, <3>4
  <2> QED
    BY <2>1, <2>2
<1>23. QED
  BY <1>4, <1>5, <1>6, <1>7, <1>8, <1>9, <1>10, <1>11, <1>12, <1>13, <1>14,
     <1>16, <1>18, <1>19, <1>20, <1>21, <1>22 DEF BBNext, CallStep

\* upload() is the call the backup loop takes it for, for every number of
\* trials: its requests, retries, tokens and exceptions come to a call that
\* finds no file, posts what it has read once, or ends with its process
\* (BackBlazeClient.cpp:119-158, ShieldClient.cpp:396-412).
THEOREM UploadImplementsBackupCall == BBSpec => ImplementsBackupCall
<1>1. BBInit => B!CallInit
  BY DEF BBInit, B!CallInit, Stage
<1>2. RefineInv /\ [BBNext]_bbVars => [B!CallNext]_(B!callVars)
  BY BBStepIsCallStep
<1>3. QED
  BY <1>1, <1>2, RefineInvariant, PTL
     DEF BBSpec, ImplementsBackupCall, B!CallSpec
=============================================================================
