# Verification of Backup on Delete

The repository is a Windows minifilter driver (`minifilter/`) and a user-space
client (`app/`).  When an application deletes a file the driver hides it,
renames it to `.^^^.<name>.^^^` and sends the new path to the client.  The
client uploads the file and sends the path back; the driver deletes what is
there.  This directory holds TLA+ models of that, TLC configurations that check
them on small instances, and proofs, checked by TLAPS, of what holds for every
instance.

Some words used below: a file is *held* when its path is between the shield's
marks; a *notification* is the message with a held path, from the moment it is
owed until the entry it became is popped from the client's list.

## 1. Inventory

| Component | Code | State | Operations |
|---|---|---|---|
| Communication port | `minifilter/src/communication.cpp` | `gServerPort`, `gServerPortState`, `gClientPort`, `gClientPortState` (globals without a lock) | `InitializeServerPort`, `ShieldConnect`, `ShieldDisconnect`, `CloseClientPort`, `DisconnectServerPort`, `SendMessageToClient`, `ShieldMessage` |
| Pre-operation callback | `minifilter/src/main.cpp:395-649` | a request per thread | `BackupOnDeleteShield` |
| File operations | `minifilter/src/files.cpp` | none of its own; the volume | `HideFile`, `RenameOnDelete` |
| Name filters | `minifilter/src/files.cpp`, `globals.cpp` | none; the word lists | `IsRenameAllowed`, `IsDeletionAllowed`, `IsBackupAllowed`, `FindSubString` |
| Driver load and unload | `minifilter/src/main.cpp:143-285` | `gFilterHandle`, `gServerPortStatus`, `gVolumeGUID`, `gCurrentProcess` | `DriverEntry`, `DfUnload` |
| Instance setup and teardown | `minifilter/src/main.cpp:292-379` | `gVolumeGUID`, one for all volumes | `DfInstanceSetup`, the teardown callbacks |
| Image-load notification | `minifilter/src/main.cpp:81-91` | `gCurrentProcess` | `OnImageLoadNoitify` |
| Message format | `communication.cpp:291-334`, `buffer_to_paths` | a string of 260 characters, the client's buffers | `SendReanmeInfoToClient`, `buffer_to_paths`, `ShieldMessage` |
| Connecting client | `app/src/main.cpp`, `ShieldClient::connect` | `port_`, `completion_port_`, `connected_` | `main`, `connect` |
| Message reader | `ShieldClient::get_message` (own thread) | outstanding reads and their heap blocks, the message in hand | `get_message` |
| Backup loop | `ShieldClient::run` (main thread) | `files_to_backup_`, shared with the reader without a lock | `run`, `backup`, `notify_minifilter` |
| BackBlaze client | `app/clients/BackBlazeClient.cpp` | `authenticated_`, `auth_headers_` | `upload`, `upload_file`, `get_upload_url`, `authenticate` |
| Volume | NTFS, external | files, paths, attributes | create, rename, delete |
| Upload database, configuration file, control-C handler | `app/database/`, `app/src/config.cpp`, `app/thirdparty/` | a SQLite table | never called (section 5) |

How they interact:

* callback -> file operations -> port: `RenameOnDelete` calls
  `SendReanmeInfoToClient`, which reads `gVolumeGUID`, that instance setup and
  unload write, and the two client-port globals, that connect and disconnect
  callbacks write, all at the same time;
* port -> reader: a message answers a read that the client has posted, in a
  block of the client's heap;
* reader -> backup loop: `push_back` and `front`/`pop_front` of one `std::deque`;
* backup loop -> BackBlaze client: a blocking call, tried again until it
  returns true;
* backup loop -> port: a delete command, carried out by `ZwDeleteFile`;
* everything -> volume: by path in the client and in `ZwDeleteFile`, by file
  object in the callback.

What is hard about it:

* the callback reads the connection state, the file's name and the volume at
  three different moments; other threads, users and the client act in between;
* two files of one name share one held path, so the file a notification is
  about, the file that is uploaded and the file that is deleted may be three
  different ones;
* the port's globals are written by callbacks that take no lock, by up to three
  clients and the unload routine;
* messages are lost (a send times out at once when nobody listens, a client
  ends with its list in memory, a second client takes the port), uploads and
  deletions fail and are retried, a token expires and nothing renews it, a
  request that stalls holds the main thread;
* files move while they are being deleted: the rename acts on the file where it
  is by now, the message names the directory it was in before;
* the deque is shared by two threads without a lock;
* `DfUnload` frees buffers while callbacks that read them may run, and every
  call of `DriverEntry` can fail with something already allocated or registered;
* texts are put together in strings that drop what does not fit, are sent into
  memory that is not cleared, and are taken apart by looking for marks that a
  user's own names may contain.

What makes each component correct:

* port: never a dangling `gClientPort`; the state and the port agree between
  callbacks as far as the code makes them (section 3);
* driver: what is allocated and registered is used while it is there and given
  back when the driver goes;
* callback and file operations: a file that is taken is a file the client is
  told of, or the notification is lost in a way that can be named;
* texts: what the client reads is the path the file was given and the one it
  had, or nothing;
* client: what it works on is the head of its list; it asks for the deletion
  of held paths only, and only of those it has uploaded something from; no read
  is posted into a block that was freed;
* BackBlaze client: "true" means stored, as far as the service's answer says so;
  a call makes a bounded number of requests, and trying again succeeds in the
  end, unless a request stalls;
* the whole: every held file is on its way to being dealt with, and, with fair
  threads, is dealt with.

## 2. Modules

`Volume` <- `Shield` -> `ShieldPort`; `ShieldClient` extends `Shield`;
`BackupOnDelete` composes them and `BackupRefinesCustody` maps that to the
abstract `Custody`.  `DriverLifecycle` extends `ShieldPort` with the rest of the
driver's life.  `Messages` extends `Names`.  `BackBlaze` implements the abstract
`BackupCall`.  Each module declares its own variables, its initial predicate and one action per
operation or per step of an operation that others can come between.

The system is cut in four because the parts that are crossed meet in little: the
order of threads and processes (`BackupOnDelete`) needs of a name only its
class, of an upload only that it succeeds or not, and of the driver only that it
is there.  What it takes for granted about those is stated and proved of the
other three: the classes of held names (`HeldNamesKeepTheirClass`), that a held
path stands for one path (`HeldPathsDiffer`), what a call of `upload` may do
(`UploadImplementsBackupCall`), and that the port's globals are written as in
`ShieldPort` while the driver comes and goes (`PortIsOpenInLifecycle`).

**Custody** (abstract).  Files `at` paths, `owed` and `lost` notifications and
`saved` paths.  `Take(f, p, q)` moves a file to held path `q` and owes `p` a
backup; when the two differ nobody will look at `q`, which is lost.  `Save`
uploads something from an owed path; `Release` deletes the file of a path that
is owed and saved; `Settle` drops what is owed where no file is left, or counts
it as lost, or finds again what was lost.  Users move files and directories
(`UserMoves`, `UserMovesDirectory`): a held path that a file comes to that way is
lost too.  Nothing else touches the promises.

**Volume** (external).  A member of `File` is one life of a file: `at[f]` is its
path, `disk` the files that exist, `hidden` those with the attribute.
`removedBy[f]` is a history variable for properties.  `MoveFile` is a rename
with ReplaceIfExists, `Remove` a deletion, `RenameDirectory` what a user does to a
directory with all that is in it.  A path is a directory, a name and whether it
is held.

**ShieldPort**.  `conn[c]` is what the filter manager knows of client `c`;
`gClientPort`, `gClientPortState` and `gServerPortState` are the globals.
`ShieldConnect` is two writes (communication.cpp:140, 145), itself and
`MarkClientPortConnected`, with the client in `connecting` between them.
`CloseClientPort` is a test and three writes (157, 162, 164, 165): the action of
the caller (`ShieldDisconnect`, `DfUnload`), `FltCloseClientPort`, which closes
whichever port is there by then, `MarkClientPortClosed` and `ClearClientPort`.
`closing[k]` says where each caller is, so any number of connect and disconnect
callbacks and the unload interleave.  `reads[c]` counts the reads client `c` has
outstanding (`FilterGetMessage`); `SendMessageToClient` answers one of whichever
client is tracked, into its `inbox`, or does nothing: with its timeout a client
without an outstanding read is not waited for.
`GetQueuedCompletionStatus` takes the oldest answer.  Sending is one action
although it reads the state and then the port: `FltSendMessage` validates the port
itself, and a state that has changed in between only means that nothing is
delivered, which any send may come to.  `PortSpec` is the port alone.

**Shield**.  `req[t]` is the request of thread `t` and how far the callback has
come: `Check` (mode, connection, operation), `QueryName` (the name, and the
verdict of the three filters), `HideFile`, `RenameOnDelete`,
`SendReanmeInfoToClient`; or `LowerDriver` when the request is passed on.  Calls
that may fail do so nondeterministically.  The rename is relative to the
directory the file is in when it happens (files.cpp:246-256), the message has the
one of the name queried earlier (`HeldPath`; files.cpp:274).  The rename classes
that bypass the access check leave `IsRename` unset (main.cpp:468-469) and are an
operation of their own, `RenameBypass`, judged as a delete and carried out as a
rename.  Names are classified, not spelled:
`Protected` and `Ignored` are the sets of names the filters catch,
`ProtectedWhenHeld` those that have a protected word once the marks are on (the
prefix supplies the dot before `protected.txt`), `TooLong` those whose message
loses its name; `IgnoredDir` are the directories whose files get no backup.

**ShieldClient**.  `proc` follows `main` (`Launch`, `OpenPort`,
`CompletionPortCreated`, and the failures with `TryAgain`); `reader` is the
thread of `get_message`; `run` the main thread, cut where it looks at or
changes the volume, the cloud, the port or the list: the existence tests at
ShieldClient.cpp:378 and utility.cpp:73, the read, the POST, the delete command,
the pop.  What is posted may be stored (`RunPost`) before `upload` knows it or the
process ends, and before it returns true or false.  `cloud` is the set of
(contents, path) that the service stored or said it stored, with `NoFile` for what
is no file's contents: the zeros of one that went between `file_size` and the
read, or another one cut or padded to its size.  A message that lost its name is
read as no path or, with text that an earlier message left in the block, as any
held path (`PathsRead`); which of them it can be is the business of `Messages`.
`ClientExit` may come at any step and stands for being killed and for exceptions
out of `run`.
`PushRacesPop` is the collision of the two threads on the deque, as the
outcomes in `RacedDeques`: an entry lost, or garbage (`NoPath`) at the end.
Races of `empty()` and `front()` with `push_back` are taken to read the state
before or after it.  `dropped` is a history variable (below).

**BackupOnDelete**.  `Next` interleaves users (`UserStep`: files created,
directories renamed, requests issued), callbacks of all threads, the driver's
callbacks and unload, the client, and other processes on the port.  `FltUnregisterFilter` waits for callbacks of requests, hence
`FilterUnregistered`.

**BackupRefinesCustody** is the refinement mapping: a held path is owed while a
notification of it is in a callback, an inbox, the reader or the list
(`InFlight`), lost while it is in `dropped`, saved when the cloud has anything
under it.

**DriverLifecycle**.  `life` is the place in `DriverEntry` or `DfUnload`, one
action per call, each of which can fail where the code looks at its result or
not.  `gVolumeGUID` is a buffer that is there, freed or not allocated, a Length
that is set or not, and a text: a volume, nothing, or `Torn` while it is being
written.  `DfInstanceSetup` and `FltGetVolumeGuidName` run for several volumes at once; a
callback looks at the Length (`ReadLength`) and then copies (`CopyName`), and
what it copies of a freed buffer is `Garbage`.  `ImageGone` collects in
`leftBehind` what an image leaves that was not given back.

**Names** is the text: the filters, the held name, the message and its reading,
as operators on sequences of characters.  `AppendString` is
`RtlAppendUnicodeStringToString`, which appends all or nothing.
`PathsUpTo` is the loop of `buffer_to_paths`, as the positions at which it sets
`valid` and at which it breaks; `Characters` is `append(text, from, count)` with
the unsigned wrap of a negative count.

**Messages** sends those texts.  `heap[b]` is what a block of the client's heap
has in it, and keeps when the block is freed and allocated again; `Overwrite`
leaves the rest of an earlier, longer message in place.  `posted` and `completed`
are the reads that wait and those that are over; `letter[b]` says, for
properties, which file the last message in a block is about.  `Delete` and
`Rename` are the requests that the shield judges; `Pass` is one that it does not,
from kernel mode, without a client or with a name that cannot be had
(main.cpp:416-430, 479-496), which deletes or renames a held file too:
`bypassed` records that for the property.

**BackBlaze** is `upload` request by request: `authenticate`, the existence
test, `get_upload_url` and its trials, `file_size`, `read_file`, the POST and its
trials.  An answer is what was asked for, an error status, JSON without the
fields, or no JSON; `auth_headers_` may be empty of them, fresh or expired.  Of
the answer to a POST the code looks only whether it has status 200 and JSON that
is not empty (BackBlazeClient.cpp:110-111, 150): `PostAnswerTaken` is such an
answer of a service that need not have stored anything, and `misled` records that
it had not.  No request has a time limit (59, 101, 171): `Stall` is one that does
not end, and the process stays "stalled".
`Throw` is an exception, which nothing catches before `main`.

**BackupCall** (abstract) is a call of `upload` as the backup loop of
`ShieldClient` has it: it finds a file or returns false, reads once what is there,
and from then on offers that and nothing else to the cloud; it returns true for
what is stored or said to be, false after posting in vain; it may last for ever,
and the process may end anywhere.
In the mapping all of `authenticate`, the existence test and `get_upload_url` is
the wait for `file_size`, a first copy in the service is `Store` (`RunPost`), and
what is thrown is the end of the process.

`MCShieldPort`, `MCBackupOnDelete`, `MCDriverLifecycle` and `MCMessages` name
model values, texts and symmetry sets for TLC.  The proofs of a module `M` are
in `MProofs`; those of `Messages` and `Names` are in two, `MessagesProofs` for the
blocks and what is read from them and `HeldFilesProofs` for what comes of it.

Definitions marked "Mutant" in the modules are faulty versions of the one that
follows.  No specification uses them; put in its place, each breaks the property
it is paired with in `PROJECT.json`, which shows that the property can fail.

`dropped` records where a notification was lost: a send that did not reach the
client, a message that has lost its name, the end of the process, an entry lost in
a collision, a file that was moved to another directory between the query of its
name and its rename (`TakeOver`), a held file that is carried to another
directory by a request that passed or with its directory (`CarriedOff`).
`NoStrandedFile`, `HeldFileIsResolved` and `Custody` excuse a file whose path is
in it, and nothing else; in particular they do not excuse a
path that was skipped or popped because nothing was on disk there, nor a file that
replaced another.  A new request for the path takes it out again, since it owes
a notification of its own.

## 3. Runs

What holds:

| Run | Instance (distinct states) | Properties and what they show |
|---|---|---|
| `threads` | 2 files, 2 names, 2 threads, list of 2 (2.4 million) | `NoStrandedFile`, `RunHoldsFront`, `ClientDeletesOnlyHeldFiles` under every order of two callbacks, the reader, the backup loop and their collisions; `ImplementsCustody`: every step is one that `Custody` allows. |
| `operations` | 1 file, a plain and a protected name in 2 directories, one of them without backup, all operations, both modes (907 thousand) | `TypeOK`; `ClientDeletesOnlyHeldFiles`: a file renamed from or back to a user's name meanwhile is not deleted for the client. `NoStrandedFile`, `ImplementsCustody`: a file moved between its name query and its rename, or carried off once it is held, is the only one held where nobody was told of. |
| `restarts` | 2 files, 1 name, client started twice, driver loaded twice (3.1 million) | `ClientDeletesOnlyUploadedPaths`, `NoStrandedFile`, `ImplementsCustody` across ends of the process and unloads between any two steps. |
| `clients` | a second process, client started twice, a name too long for a message that is protected once held (2.4 million) | `PortIsOpen`: `gClientPort` never dangles. `TrackedClientIsVisible`: port set but state not `Connected` only between two writes of its own connect or of a closer. `NoStrandedFile` when the port is taken over or closed by another client. |
| `liveness` | 2 files of 2 names, one too long for its message, one start, one load (419 thousand) | `HeldFileIsResolved` under `FairSpec`; `NoStrandedFile`, `ImplementsCustody` with a message that lost its name and is read as any held path or none. |
| `driver` | 2 loads, 2 writable volumes and a read-only one, a thread, a client (538 thousand) | `NotificationNamesVolume`: only several volumes, or an unload that has freed the name, make a notification name another volume than its file's. `ImageCallbackHasBuffer`, `FreedNameOnlyInUnload`, `NothingLeftBehind`: nothing is used after it was freed but the volume's name in an unload, nothing is left but by a failed `DriverEntry`. `UnloadEnds` under `LifeFairSpec`. |
| `messages` | 20 names on both sides of every limit and filter, 3 files at a time, 2 blocks (3.8 million) | `ReadsOwnTheirBlocks`: frees, skips and timeouts never give a posted or unread block to another read. `MessageIsRead`: a whole, unmarked path survives whatever is left in its block. `ListedFilesAreHeld`: truncated, stale or marked text never puts another file on the list. `HeldFilesAreKept`: no delete command and no request the shield judges removes a held file before its upload; the requests it does not judge do, and are excused. |
| `backblaze` | 3 trials, 2 starts (2.4 thousand) | `TrueMeansStored`: true comes of nothing less than a copy or an answer that passes for one. `CallIsBounded`; `ExpiredTokenEndsProcess`: an expired token is not asked with for ever; `RetriedUploadSucceeds`: calls that return false do not repeat for ever. `ImplementsBackupCall`: a call is one that the backup loop's model allows. `BBTypeOK`. |

Disagreements with comments and documentation, each a counterexample TLC finds:

| Run | Property | Said | What the code does |
|---|---|---|---|
| `port_invisible` | `ConnectedClientIsSeen` | "Return true if a client is connected." (communication.cpp:16) | One client's disconnect callback closes another's port. |
| `wrong_file` | `DeletedFileWasUploaded` | "it backs it up ... and then asks the minifilter to delete it" (README.md:11) | A file that took the path after the upload is deleted. |
| `last_suffix` | `PathEndsAtLastSuffix` | "Searching for last .^^^ at the end." (ShieldClient.cpp:275) | The loop stops at the first one; of a held file whose own name ends with the suffix a shorter path is read than it was given, and the message is skipped when nothing is there; `ReadIffUnmarked` says for which names. |
| `reconnect` | `ClientReconnects` | "We retry connecting." (ShieldClient.cpp:125) | The same handle is read again for ever. |

Three more can be read off the actions and have no run of their own: a file that
is deleted under the name of a held one replaces it (`RenameOnDelete`,
`MoveFile`; files.cpp:245 against main.cpp:598-600); when the rename fails the
requester is told success and the file stays (`RenameOnDelete` to "idle";
main.cpp:640 against the comment at 617); a rename of a file whose name was
queried before it was held moves it from its held path (`QueryName`,
`LowerDriver`; main.cpp:511-522).

### Bounds

* Two files of one name are what it takes for one to replace another at their
  held path, two threads for a check to be stale; a second name gives the list
  two different entries.  `MaxQueue` 2 (3 after a collision) has a front, a back
  and something between; `MaxReads` bounds the reads a client has outstanding or
  answered: 1 or 2 lets one message wait while another is handled.  A read
  posted beyond it is not counted, so that a later send may be lost, which any
  send may be; `MaxQueue` only delays pushes.
* A file is created once, so a run ends when the files are used up; a thread
  issues any number of requests.
* `MaxLaunch`, `MaxLoad`: two starts of the client and two loads give one
  restart of each.  The driver is only unloaded to be loaded again.  `clients`
  has one load, since two clients and two loads have 12 million states; what it
  checks of the port is proved for any number of both (section 4).
* `MAX_NUM_TRIES` is 1024 in the code and 0 or 1 here; attempts do not differ.
  `MAX_CLIENTS` is 3 in the code; `port_invisible` uses 2 so that three
  processes meet the limit.
* `operations` has two directories, for files to be moved from one to the other;
  the other runs have one.  Two threads there, one renaming what the other
  deletes, have more states than a run can visit: between the steps of a request
  come renames of directories, and for requests of several threads the theorems
  stand (section 4), which say the same properties for any number of them.
* Users do not create names with the shield's marks in `BackupOnDelete`; in
  `Messages` they create names with one of them, but no path that ends with the
  suffix and has the prefix before it (`LooksHeld`): such a file could be taken
  for a held one, when the text of an earlier message leads the client to it.  In
  `BackupOnDelete` a user's rename goes to a user's name or, under the name the
  file has, to another directory; in `Messages` to a name that no user's file of
  the run has.
* `driver`: one client and no reads (`MaxReads` 0), since `clients` has the
  messages; one thread is enough for a callback that meets every step of an
  unload.
* `messages`: strings of 24 characters instead of 260, NTFS names of 19 instead
  of 255 (five less than the string, as in Windows), a command as long as a
  message.  The names lie one below, at and one above each limit.  Three files
  make a truncated message, a longer one left in its block and a third with the
  same held path possible; with two blocks one read is posted while another is
  over or its block leaked, and a block is used again for a second message.
* `backblaze`: 3 trials instead of 5: a first, a middle and a last one.
* `CHECK_DEADLOCK FALSE` where the system may stop: files, starts and loads are
  used up, an idle system with no files has nothing to do, and a `DriverEntry`
  that fails at `FltStartFiltering` with its port open stays in
  `FltUnregisterFilter` ("stuck").  In `messages` the blocks leak until
  no read can be posted.  `port_invisible` checks deadlock.
* Symmetry is used where all properties are invariants, and for
  `ImplementsCustody`, which constrains initial states and single steps, is
  symmetric in files and names, and has no fairness.

### Fairness

`liveness` and `reconnect` use `FairSpec`.  Weak fairness for each thread's
callback, for connecting (both writes of `ShieldConnect`), for the reader and for
the backup loop says that Windows schedules threads that can run.  Strong fairness for `RunUpload` and
`RunNotify` says that an upload and a delete command that are retried for ever
succeed in the end: the code retries for ever and cannot do more, and without
the assumption one path at the head of the list starves the rest.  For the
upload `RetriedUploadSucceeds` supports it from assumptions on the service
alone.  Both this and the weak fairness of the backup loop assume that no request
to the service lasts for ever, which the code does not see to: with one that
does, no held file is resolved any more.  Nothing is assumed of users, of processes starting or ending, or of the
driver's loading.  The liveness run has one load of the driver: after a reload
the client does not come back (`reconnect`), and held files then stay until the
process ends.

`backblaze` uses `BBFairSpec`: the thread of `run` runs (weak fairness of
`Upload` and `CallStep`), and a service that is asked again and again gives a URL,
and stores a file, in the end (strong fairness of `UrlGiven` and `PostAnswered`).
The second is enabled only with a token that has not expired.  That requests end
is not assumed: `Stall` may come instead of any answer, nothing follows it, and
the two liveness properties say "unless a request stalls".

`driver` uses `LifeFairSpec`: the threads that are in the driver's code run, each
with weak fairness.  That volumes are attached, images loaded, clients come or
the driver is unloaded is not assumed.

## 4. Proofs

The proofs assume the named assumptions on the constants, `NoPathAssumption`,
`PortAssumption`, `ShieldAssumption`, `ClientAssumption`, `LifecycleAssumption`,
`BackBlazeAssumption`, `NamesAssumption`, `MarksAssumption` and
`MessagesAssumption`.  Most say that the special values are not members of the
sets they are added to and that bounds are natural numbers.  Those about text say
that the driver's string is not longer than the client's buffer and has room for
an NTFS name and the prefix (255 + 5 characters in 260), that the word lists of
`files.cpp:22-36` have neither the held files' extension among the extensions nor
a mark's character in the directories, and that no user makes a file that
`LooksHeld`.  Sets of files, names, threads, clients, volumes, blocks and
characters may be of any size, and texts of any length.

**ShieldPortProofs.**  `PortTypeCorrect`; on it rest `PortNeverDangles`
(`PortIsOpen`) and `TrackedClientIsSeen` (`TrackedClientIsVisible`).  Both are
inductive with the types: each is proved action by action.  For the second, the
one delicate step is `MarkClientPortClosed`, which makes a client that connected
in between invisible: the closer itself is then the witness.  The same two hold
with the rest of the driver around the port: in the whole system, since
`SystemRunsPort` below (`SystemPortIsOpen`, `SystemSeesTrackedClient`), and in
`DriverLifecycle`, where one step is not a step of the port's specification: a
failed `FltStartFiltering` of a driver whose port could not be opened, which is
gone at once (`StartUndone`).  It leaves the port's variables alone and so keeps
the invariant; all others are steps of the port, by `LifeStepOfPort`
(`PortIsOpenInLifecycle`, `TrackedClientIsSeenInLifecycle`).

**BackupOnDeleteProofs.**

* `BasicInvariant`: `BasicInv == TypeOK /\ DiskInv /\ RequestInv /\
  RunHoldsFront`.  Types alone are not inductive: `Announce` sends a path only
  because a request in "send" has a name (`RequestInv`), which it has because
  files on disk have paths (`DiskInv`); the pop keeps the list a sequence only
  because the list is not empty then (`RunHoldsFront`).  From it `TypeCorrect`
  and `RunWorksOnFront`.
* `VolumeStep` says what any step may do to the volume (`NextIsVolumeStep`): no
  file loses its path, and a removed file stays removed and where it was.
* `SystemRunsPort`: `Spec => PortSpec`, so what is proved of the port alone
  holds of the whole.
* `SafetyInvariant`: `SafetyInv` adds `HeldInv` (every path in the inbox, in
  the reader, in the list and in the backup loop is held, or the garbage of a
  collision), `NotifyInv` (a delete command is about to be given only for a
  path something was uploaded from) and `DeletedInv` (both, carried over to the
  files that were removed).  From it `DeletesOnlyUploadedPaths` and
  `DeletesOnlyHeldFiles`.
* `NoFileIsStranded`: `NoStrandedFile` is inductive together with `SafetyInv` and
  `ReaderInv` (the reader has a path only while it is pushing one).  Two lemmas
  carry it.  `HeldBefore`: a file that is held after a step was held there
  before, or a `TakeOver` of this step has moved it there and owes its
  notification, or it has come there otherwise and the path is counted in
  `dropped` (`CarriedOff`, or a `TakeOver` of a file that had been moved).  `StillRemembered`: a notification of a path with a file at it
  moves from one place to the next, from a thread to the inbox
  (`SentIsRemembered`), to the reader (`TakenIsRemembered`), to the list
  (`PushedIsRemembered`), and leaves the list only when the path is empty
  (`StillListed`, which needs `RunHoldsFront`: what is popped is what was looked
  at or deleted), or it is counted in `dropped`.

**CustodyProofs.**  `NothingIsForgotten`: in the abstract system a file at a held
path is owed or lost.  Its inductive invariant is `CustodyInv`, the types and the
property itself.

**BackupRefinesCustodyProofs.**  `BackupImplementsCustody`: `Spec =>
ImplementsCustody`.  `SafetyInv` and `ReaderInv` hold of every state, and under
them `StepIsCustodyStep` maps each action.  `TakeOverIsTake`, `UploadIsSave` and
`RunNotifyIsRelease` are the three that matter; `PassOnIsUsers` and
`RenameDirectoryIsUsers` map what users move, and `CarriedOffIsLost` says that the
held files among it are counted as lost.  For the rest `InFlightBefore`
and `LostBefore` say that no other step invents something owed or
something lost: a held path that is read from the leftovers of an earlier message
gets on the list only with a file at it, and was owed or lost already.
`SettleStep` with `StillRemembered` above says that what goes was lost, or was
owed where no file is left.

**BackBlazeProofs.**  `TrueIsTrue` and `UploadIsBounded` from `CallInv`, which
counts: `Budget` is what the place in the call and the trial allow of requests
and stored copies so far, and no step exceeds the next one's budget.
`CallTypesCorrect` is part of it.  `UploadImplementsBackupCall`: each action maps to a
step of `BackupCall` or is not seen (`BBStepIsCallStep`), under `RefineInv`, which
adds that a process that is down has neither read a file nor an answer
(`DownIsEmpty`), since `BackupCall` forgets both when a process ends.

**DriverLifecycleProofs.**  `LifeInv == LifeTypeOK /\ StepInv /\ NameInv /\
CallbackInv /\ NothingLeftBehind`: what is allocated and registered at each place
of `DriverEntry` and `DfUnload` (`StepInv`), what text `gVolumeGUID` can have while
one volume only was seen (`NameInv`), and what a callback has copied
(`CallbackInv`).  From it the four safety properties of `driver`.

**MessagesProofs.**

* `WholeMessageIsRead`, about the operators alone: a message that fits, with no
  marks but the shield's, is taken apart into the two paths, whatever follows
  it in the buffer.  `Layout` says where each part of it lies, `FirstPrefix` and
  `FirstSuffix` that the loop finds its marks there and not before,
  `Reading` what is cut out.
* `ReadsAreOwned` and `MessagesAreRead` from `ReadInv == ReadTypes /\
  ReadsOwnTheirBlocks /\ Delivered`: every block of a read that is over begins
  with the message about its file, because nobody else writes to the block.

**HeldFilesProofs.**

* Held names: `HeldNameIsWhole`, that one NTFS takes has both marks, since a
  string too short for the suffix would hold a name too long for a file; with it
  `HeldNamesKeepTheirClass` (`WordIsKept`, `WordIsNotAdded`, `HeldExtension`) and
  `HeldPathsDiffer`.
* What is read: `HeldTextIsRead`, that a text read as a held path is read with
  that file's name and directory and no other, since a prefix found earlier
  would have the suffix end within the shield's own prefix; `ReadingLooksHeld`,
  that whatever is read looks held.  `ReadIffUnmarked` is the converse of
  `WholeMessageIsRead`: with a mark that the search meets first the client looks
  for another file than the held one.
* `ListHasHeldFiles` and `HeldFilesStay`, the second with the requests that the
  shield does not judge (`bypassed`) excused, from `KeepInv == HeldFrom /\ DiskFrom /\
  ListIsRead /\ ListedFilesAreHeld /\ HeldFilesAreKept`: files that are held come
  from users' files, every file on disk is a user's or a held one, and every
  entry of the list was read from some text.  Nothing is said of the blocks: by
  `ReadOnDisk` a path on the volume that is read from any text at all, truncated,
  stale or both, is a held file's, together with the path that file had.  That is
  why what is left in a block cannot do harm, and where `LooksHeld` is needed.

Model-checked only: `HeldFileIsResolved`, `UnloadEnds`, `ExpiredTokenEndsProcess` and `RetriedUploadSucceeds`, since liveness under
fairness is outside what the prover handles.  Every invariant and action property
of the passing runs is proved.

## 5. What is not modelled

* The database: its two calls are inside `#ifdef ENABLE_DATABASE`, which no build
  file defines; the constructor creates a table nobody reads.  The
  configuration file, the control-C handler and the heartbeat: never called.
* The JSON library (`app/thirdparty/nlohmann/json.hpp`) is most of the
  repository's lines, is not the program's own and is used for three fields of
  two answers; `BackBlaze` has what its callers see of it, a parse and a lookup
  that throw.  That is why only a small share of all lines is modelled.
* SHA-1, URL encoding and logging: functions of their arguments, without state.
* Upper and lower case in names; directories that are deleted (those that are
  renamed are modelled);
  what a disposition with the DeleteFile flag clear meant to its caller (the
  driver treats it as a delete, and so does `Shield`); access rights; a file that
  is deleted while others have it open.
* Whether NTFS carries out the driver's attribute change and rename for a file
  that is only being opened (a create with delete-on-close, seen before the
  create is) is left open: `HideFile` and `RenameOnDelete` may succeed or fail.
* What a block of the client's heap held before it first held a message, when
  the process used it for something else: here it holds zeros.
* A failure of `PsRemoveLoadImageNotifyRoutine`, which is only logged, and the
  uninitialised `SecurityDescriptor` that is freed when its construction failed.
* Build files, installer, control tool, tests.

## 6. What the plan has left

1. Liveness of `Custody` (what is owed and not lost is released), as the
   abstract form of `HeldFileIsResolved`.
2. The user's side of an undone delete: what a disposition with the DeleteFile
   flag clear meant (main.cpp:466), and a hidden file whose rename failed
   (main.cpp:592).
