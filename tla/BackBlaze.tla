------------------------------ MODULE BackBlaze ------------------------------
(***************************************************************************)
(* BackBlazeClient::upload and the loop of ShieldClient::run that calls it *)
(* for the file at the head of its list, again until it returns true.      *)
(*                                                                         *)
(* Each request to the service is a step; its answer, or that it fails, is *)
(* chosen.  No request has a time limit: it may also last for ever.  The   *)
(* file may come and go, or be another, between any two steps.  What is    *)
(* thrown is not caught before main, so it ends the process.               *)
(***************************************************************************)
EXTENDS Naturals

CONSTANTS
    MAX_TRIALS,     \* requests for an upload URL, and of an upload
    MaxStart        \* bound: how often the process is started

ASSUME BackBlazeAssumption ==
    /\ MAX_TRIALS \in Nat \ {0}
    /\ MaxStart \in Nat

VARIABLES
    pc,             \* where upload() is; "idle": between calls; "stalled":
                    \* in a request that does not end
    i,              \* the trial of the loop it is in
    authenticated_,
    auth_headers_,  \* "bare": JSON without the fields that are asked for
    rjson,          \* what get_upload_url returned
    data,           \* what read_file returned; "file": what was at the path,
                    \* as much of it as there was at file_size
    onDisk,         \* there is a file at the path
    starts,
    result,         \* history: how the last call ended
    requests,       \* history: requests made in this call
    copies,         \* history: what the service has stored in this call
    misled          \* history: it stored nothing and its answer passes for one
                    \* that says it did

\* What the process has in memory, and what counts for its properties.
memory == <<authenticated_, auth_headers_, rjson, data>>
history == <<result, requests, copies, misled>>
bbVars == <<pc, i, memory, onDisk, starts, history>>

InCall == pc \notin {"down", "idle"}

BBTypeOK ==
    /\ pc \in {"down", "idle", "authenticate", "exists", "get", "size",
               "open", "post", "stalled"}
    /\ i \in 1 .. MAX_TRIALS
    /\ authenticated_ \in BOOLEAN
    /\ auth_headers_ \in {"bare", "fresh", "stale"}
    /\ rjson \in {"bare", "url"}
    /\ data \in {"none", "file", "zeros"}
    /\ onDisk \in BOOLEAN
    /\ starts \in 0 .. MaxStart
    /\ result \in {"none", "true", "false", "thrown"}
    /\ requests \in Nat
    /\ copies \in Nat
    /\ misled \in BOOLEAN

BBInit ==
    /\ pc = "down"
    /\ i = 1
    /\ authenticated_ = FALSE
    /\ auth_headers_ = "bare"
    /\ rjson = "bare"
    /\ data = "none"
    /\ onDisk \in BOOLEAN
    /\ starts = 0
    /\ result = "none"
    /\ requests = 0
    /\ copies = 0
    /\ misled = FALSE

-----------------------------------------------------------------------------
(* The service, and what the file system does meanwhile *)

\* An authorization token lasts for a day.
Expire ==
    /\ auth_headers_ = "fresh"
    /\ auth_headers_' = "stale"
    /\ UNCHANGED <<pc, i, authenticated_, rjson, data, onDisk, starts, history>>

FileComesOrGoes ==
    /\ onDisk' = ~onDisk
    /\ UNCHANGED <<pc, i, memory, starts, history>>

-----------------------------------------------------------------------------
Throw ==
    /\ pc' = "down"
    /\ i' = 1
    /\ authenticated_' = FALSE
    /\ auth_headers_' = "bare"
    /\ rjson' = "bare"
    /\ data' = "none"
    /\ result' = "thrown"

Return(r) ==
    /\ pc' = "idle"
    /\ i' = 1
    /\ result' = r
    /\ UNCHANGED memory

GoOn(step) == pc' = step /\ UNCHANGED result

\* authenticate().  The answer is an account, other JSON, no JSON at all with
\* status 200, or another status.  Key and secret are always set.
authenticate(next) ==
    /\ \/ authenticated_' = TRUE /\ auth_headers_' \in {"fresh", "bare"}
       \/ authenticated_' = FALSE /\ UNCHANGED auth_headers_
    /\ GoOn(next)
    /\ UNCHANGED <<i, rjson, data>>

\* main makes a ShieldClient, the constructor authenticates.  A process whose
\* first request does not end is as good as none.
Construct ==
    /\ pc = "down"
    /\ starts < MaxStart
    /\ starts' = starts + 1
    /\ authenticate("idle") \/ Throw
    /\ UNCHANGED <<onDisk, requests, copies, misled>>

\* run() calls upload() for its first entry, which is there when it looks.
Upload ==
    /\ pc = "idle"
    /\ onDisk
    /\ pc' = IF authenticated_ THEN "exists" ELSE "authenticate"
    /\ rjson' = "bare"
    /\ data' = "none"
    /\ result' = "none"
    /\ requests' = 0
    /\ copies' = 0
    /\ misled' = FALSE
    /\ UNCHANGED <<i, authenticated_, auth_headers_, onDisk, starts>>

\* Its result is not looked at.
Authenticate ==
    /\ pc = "authenticate"
    /\ requests' = requests + 1
    /\ authenticate("exists") \/ Throw
    /\ UNCHANGED <<onDisk, starts, copies, misled>>

Exists ==
    /\ pc = "exists"
    /\ \/ onDisk /\ GoOn("get") /\ UNCHANGED <<i, memory>>
       \/ ~onDisk /\ Return("false")
    /\ UNCHANGED <<onDisk, starts, requests, copies, misled>>

\* Without the fields of an account there is nothing to ask with: at() throws.
NoAccount ==
    /\ pc = "get"
    /\ auth_headers_ = "bare"
    /\ Throw
    /\ UNCHANGED <<onDisk, starts, requests, copies, misled>>

AskForUrl ==
    /\ pc = "get"
    /\ auth_headers_ # "bare"
    /\ requests' = requests + 1
    /\ UNCHANGED <<authenticated_, auth_headers_, data, onDisk, starts, copies,
                   misled>>

UrlGiven ==
    /\ AskForUrl
    /\ auth_headers_ = "fresh"
    /\ rjson' = "url"
    /\ i' = 1
    /\ GoOn("size")

\* Mutant: a trial too many.
UrlRefusedOnceMore ==
    /\ AskForUrl
    /\ UNCHANGED rjson
    /\ IF i <= MAX_TRIALS THEN i' = i + 1 /\ GoOn("get")
                          ELSE i' = 1 /\ GoOn("size")

\* An answer of another status: one trial less.  After the last one the
\* warning says that it gives up, but upload() goes on.
UrlRefused ==
    /\ AskForUrl
    /\ UNCHANGED rjson
    /\ IF i < MAX_TRIALS THEN i' = i + 1 /\ GoOn("get")
                         ELSE i' = 1 /\ GoOn("size")

\* Other JSON ...
UrlAnswerUseless ==
    /\ AskForUrl
    /\ UNCHANGED rjson
    /\ i' = 1
    /\ GoOn("size")

\* ... or none.
UrlAnswerUnreadable ==
    /\ pc = "get"
    /\ auth_headers_ # "bare"
    /\ requests' = requests + 1
    /\ Throw
    /\ UNCHANGED <<onDisk, starts, copies, misled>>

\* Mutant: what the warning says, when there is no URL.
UploadFileGivesUp ==
    /\ pc = "size"
    /\ \/ rjson = "url" /\ onDisk /\ GoOn("open") /\ UNCHANGED <<i, memory>>
       \/ rjson = "bare" /\ Return("false")
       \/ rjson = "url" /\ ~onDisk /\ Throw
    /\ UNCHANGED <<onDisk, starts, requests, copies, misled>>

\* upload_file() up to file_size: without a URL at() throws, and without a
\* file file_size() does.
UploadFile ==
    /\ pc = "size"
    /\ \/ rjson = "url" /\ onDisk /\ GoOn("open") /\ UNCHANGED <<i, memory>>
       \/ (rjson = "bare" \/ ~onDisk) /\ Throw
    /\ UNCHANGED <<onDisk, starts, requests, copies, misled>>

\* A stream that does not open leaves the zeros resize() put there.
ReadFile ==
    /\ pc = "open"
    /\ data' = IF onDisk THEN "file" ELSE "zeros"
    /\ GoOn("post")
    /\ UNCHANGED <<i, authenticated_, auth_headers_, rjson, onDisk, starts,
                   requests, copies, misled>>

Post ==
    /\ pc = "post"
    /\ requests' = requests + 1
    /\ UNCHANGED <<onDisk, starts>>

PostAnswered ==
    /\ Post
    /\ copies' = copies + 1
    /\ UNCHANGED misled
    /\ Return("true")

\* Other JSON with status 200, unless it is empty, is taken for the same.
PostAnswerTaken ==
    /\ Post
    /\ copies' \in {copies, copies + 1}
    /\ misled' = (copies' = copies)
    /\ Return("true")

\* Mutant: the empty result of the last trial not looked at.
PostFailsUnnoticed ==
    /\ Post
    /\ copies' \in {copies, copies + 1}
    /\ UNCHANGED misled
    /\ \/ i < MAX_TRIALS /\ i' = i + 1 /\ GoOn("post") /\ UNCHANGED memory
       \/ i = MAX_TRIALS /\ Return("true")

\* The request or its answer is lost, or the service refuses it.
PostFails ==
    /\ Post
    /\ copies' \in {copies, copies + 1}
    /\ UNCHANGED misled
    /\ \/ i < MAX_TRIALS /\ i' = i + 1 /\ GoOn("post") /\ UNCHANGED memory
       \/ i = MAX_TRIALS /\ Return("false")

\* An empty answer, or one that is not JSON.
PostAnswerUseless ==
    /\ Post
    /\ copies' \in {copies, copies + 1}
    /\ UNCHANGED misled
    /\ Return("false") \/ Throw

\* Neither answer nor error: cpr has no time limit of its own, and none is set.
Stall ==
    /\ \/ pc \in {"authenticate", "post"}
       \/ pc = "get" /\ auth_headers_ # "bare"
    /\ pc' = "stalled"
    /\ requests' = requests + 1
    /\ copies' \in {copies} \cup {copies + 1 : p \in {pc} \cap {"post"}}
    /\ UNCHANGED <<i, memory, onDisk, starts, result, misled>>

CallStep ==
    \/ Authenticate \/ Exists \/ NoAccount \/ UploadFile \/ ReadFile
    \/ UrlGiven \/ UrlRefused \/ UrlAnswerUseless \/ UrlAnswerUnreadable
    \/ PostAnswered \/ PostAnswerTaken \/ PostFails \/ PostAnswerUseless

BBNext == Expire \/ FileComesOrGoes \/ Construct \/ Upload \/ CallStep \/ Stall

\* The thread of run() runs, unless a request holds it for ever, and a service
\* that is asked again and again, and answers, gives what it is asked for in
\* the end.
BBFairness ==
    /\ WF_bbVars(Upload)
    /\ WF_bbVars(CallStep)
    /\ SF_bbVars(UrlGiven)
    /\ SF_bbVars(PostAnswered)

BBSpec == BBInit /\ [][BBNext]_bbVars

BBFairSpec == BBSpec /\ BBFairness

-----------------------------------------------------------------------------
\* upload() returns true only when the service has stored, in this very call,
\* what was read in it, or has given an answer that says so as far as the code
\* looks: not after trials that all failed, nor for what an earlier call had
\* read (BackBlazeClient.cpp:98-116, 149-157).
TrueMeansStored == result = "true" => (copies > 0 \/ misled) /\ data # "none"

\* The main thread is held up for a bounded number of requests, and a file is
\* stored at most once per trial, however answers are lost
\* (BackBlazeClient.cpp:57, 98, 126).
CallIsBounded ==
    /\ requests <= 2 * MAX_TRIALS + 1
    /\ copies <= MAX_TRIALS

\* A token that has expired is never asked with for ever: nothing renews it,
\* since authenticated_ is never cleared, but the call that is refused it ends
\* the process, by way of the exception of upload_file, unless a request
\* stalls (BackBlazeClient.cpp:78, 126, 141-149).
ExpiredTokenEndsProcess ==
    pc = "get" /\ auth_headers_ = "stale" ~> pc \in {"down", "stalled"}

\* A file that stays where it is gets uploaded, or the process ends, or a
\* request stalls: calls that return false do not repeat for ever
\* (ShieldClient.cpp:366-412).
RetriedUploadSucceeds ==
    InCall ~> (result = "true" \/ pc \in {"down", "stalled"} \/ ~onDisk)

\* How far the call is for the loop that waits for it.
Stage == CASE pc \in {"authenticate", "exists", "get", "size"} -> "size"
           [] pc = "stalled" -> IF data = "none" THEN "size" ELSE "post"
           [] OTHER          -> pc

B == INSTANCE BackupCall WITH
       stage   <- Stage,
       present <- onDisk,
       read    <- data,
       stored  <- copies > 0 \/ misled,
       answer  <- IF result = "thrown" THEN "none" ELSE result

\* Every call is one as the backup loop takes it: false is returned only when
\* there was no file or a post has failed, true only for what was read in this
\* call and is stored or said to be, and anything else ends the process or
\* lasts for ever (BackBlazeClient.cpp:119-158, ShieldClient.cpp:396-412).
ImplementsBackupCall == B!CallSpec
=============================================================================
