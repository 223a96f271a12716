# Aika: formal models of its transfers, servers and sessions

Aika is a LocalSend derivative: a Flutter application (`src/app`) on top of a Rust core
(`src/packages/core`), glued together by Dart isolates and a Rust bridge
(`src/packages/localsend_isolates`), plus a small public signaling server (`src/server`).
This directory holds TLA+ models of the parts whose correctness depends on the order in which
concurrent things happen, TLC configurations that check them on small instances, and proofs,
checked by TLAPS, of what matters most for every instance.

Paths below are relative to the repository; `core/` is `src/packages/core/src/`, `isolates/` is
`src/packages/localsend_isolates/`, `app/` is `src/app/lib/`.

To run a check: `tlc -config MCUploadServer.cfg MCUploadServer`; to check the proofs:
`tlapm UploadServerProofs.tla`.

## 1. Inventory

### The parts and what they keep

| Part | State | Operations | What makes it correct |
|---|---|---|---|
| **Upload slot** `core/http/server/v2.rs`, `common/session.rs` | one slot for the whole server: free, claimed (`Pending`) or an active session with file statuses and an activity time | prepare-upload, upload, cancel; guards that clean up after a dropped request; takeover of an abandoned session; cancellation by the application | one session at a time; no claim or file lost or taken by a late task; the application hears of every end, once |
| **Saving** `core/http/server/common/save.rs`, `core/model/transfer.rs`, the upload of `core/http/client/` | a reader, a request, a handler and a writer with a channel between each two | stream, forward, write, progress, results | "sent" implies "saved" implies every byte written; the first reason of a failure survives |
| **Receive bridge** `isolates/rust/src/api/server.rs` | the responder of one undecided request, the responders of unanswered uploads and downloads | forwards server events; answers by command | every request that waits can still be answered, and by the right answer |
| **Receive controller** `app/provider/network/server/controller/receive_controller.dart` | the session shown to the user | reacts to server events and to the user, awaiting directories, permission, storage | nothing is stored that was not asked for; what is shown is what happened |
| **Web share** `core/http/server/web.rs`, `web_zip.rs`, `common/pin.rs`, `app/.../send_controller.dart` | sessions by client address, shared files, failed PINs | prepare-download, download, archive, file list, web upload, change of the files | only who was accepted is served; sessions neither leak nor vanish; an archive is exactly what was announced |
| **Sending** `app/provider/network/send_provider.dart`, `isolates/lib/src/isolate/child/upload_isolate.dart`, `isolates/rust/src/api/http.rs` | send sessions, tasks of the upload isolate, cancel tokens | start, PIN, upload, retry, cancel, close | what is shown as sent was received; a cancel stops; a session ends |
| **Server lifecycle** `core/http/server/mod.rs`, `isolates/lib/.../server_isolate.dart`, `app/.../server_provider.dart`, `receive_watchdog.dart` | the state shown, the server of the isolate, listeners, connections | start, stop, restart, accept with back-off, upgrade; the watchdog's probe | no listener is lost; what is shown is served; reception comes back |
| **Signaling server** `src/server/src/controller/ws_controller.rs`, `config/` | rooms by address group, a bounded queue per connection, request counts | join, update, offer/answer, leave, hourly reset | everyone in a room knows everyone else; rooms do not mix; limits hold |
| **WebRTC transfer** `core/webrtc/webrtc.rs`, `signaling.rs`, `isolates/rust/src/api/webrtc.rs` | a signaling connection, a data channel, a protocol task on each side | connect, offer, answer, nonces, tokens, PINs, file list, files, results | nothing is shown or taken before its proof; files are kept apart; both sides return |
| **Chat hub** `core/chat/mod.rs`, `core/http/server/chat_ws.rs`, `isolates/rust/src/api/chat.rs` | map of connections, a queue per connection, one event queue | connect, accept, send, close, shutdown, listen; a loop per connection | events in order, no stale entries, accepted messages written, dead links noticed |
| Protocol v3, internal endpoints `core/http/server/v3.rs`, `internal.rs` | nonces | nonce exchange, show | - |
| Discovery `nearby_devices_provider.dart`, `multicast_discovery.dart`, scans | found devices | announce, answer, scan | - |
| Chat in the app `app/provider/chat/` | links, history | reconnection policy | one usable link per peer |
| Link downloads, persistence, cryptography, UI, CLI, browser extension, generated bindings | - | - | no protocol of their own |

`PROJECT.json` ("components") has the same list with the files and what is modelled.

### How they interact

A sender's HTTP request runs as a task of the Rust server. The task claims or looks at the slot
under a mutex, sends an event with a one-shot responder into a bounded channel (16), and awaits the
answer. The bridge takes the events off the channel, keeps the responder and forwards the event to
the server isolate, which passes it to the main isolate, where the controller shows it. The user's
decision goes back as a command, handled by an independent task of the isolate, which looks up the
responder. If the sender disconnects, hyper drops the handler's future at its await point; guards
then spawn clean-up tasks. Everything is concurrent with everything, except that Dart runs a handler
undisturbed between two awaits.

On the sending device the main isolate talks to the upload isolate through two queues of messages,
and the upload isolate to the Rust client, whose requests may fail anywhere. A WebRTC transfer
finds its peer through the signaling server and then speaks a protocol of its own over one data
channel. The web share and the chat hub are served by the same HTTP server; the chat hub also
connects outwards, and reports through one channel to the application. The signaling server is a
program of its own.

### What is hard here

Drops of a future at any await; state read before an await and used after it; notices sent after the
lock they report about was released; one responder kept for many requests; queues that are full;
tasks aborted late or detached and still running; results matched by their order; callbacks that are
registered after the message they wait for; peers that stall; calls of a service that nothing makes
wait for one another. `PROJECT.json` ("hazards") lists each at its line, with the property that
covers it or the reason why none does.

## 2. Modules

| Module | Models | Extends / uses |
|---|---|---|
| `SessionSlot` | the promise of the slot: reserve, refuse, open, close, at most one at a time | - |
| `UploadServer` | v2.rs in full: handlers, guards, clean-up tasks, event channel | refines `SessionSlot` |
| `ReceiveApp` | slot (coarser), bridge and controller together | refines `SessionSlot` |
| `SaveUpload` | one accepted file from the sender's disk to the receiver's | what `UploadServer` calls "saving the body" |
| `SendSession` | one sending session of the application | the receiver reduced to its slot |
| `WebZip` | the layout of an archive as functions of the list of files, the CRC-32 and the date of its entries | - |
| `WebShare` | browsers, the web routes, the bridge, the app's controller | extends `WebZip` |
| `ServerLifecycle` | the application's server service, the isolate, the Rust server, the watchdog | - |
| `SignalingServer` | ws_controller.rs | - |
| `RtcTransfer` | signaling client and both ends of a transfer over WebRTC | - |
| `ChatHub` | chat/mod.rs, chat_ws.rs, api/chat.rs | - |
| `...Proofs` | the theorems about a module; `SendingProofs` those about `SendSession` and `SaveUpload`, whose `SaveInit`, `SaveNext`, ... share no name with the former | that module, TLAPS |
| `MC...` | the instance for TLC | the module named |

The map from every definition to the lines it stands for is in `PROJECT.json` ("map"). Definitions
introduced by a comment "Faulty" are plausible mistakes; each is put in the place of the definition
it distorts to see that a property notices ("mutants").

### 2.1 UploadServer

A handler is a process whose phase names the await it is suspended at: `pc` for prepare-upload,
`upc` for upload, `cpc` for cancel. The mutex of the slot is held only between two awaits, so a
critical section is one step. A future is dropped only at an await (`HangUp`, `HangUpUpload`,
`HangUpCancel`); what then happens depends on which guard is armed, and the spawned task is a phase
of its own (`orphaned`, `aborting`, `orphan_ending`). Phases without anybody left to act are
explicit: `leaked` (a claim nobody frees), `stuck` (a file nobody settles), `silent` (a notice
nobody sends).

| Code | Model |
|---|---|
| `V2State.session` | `slot`, `files`, `quiet` (60 s without progress) |
| `event_tx` | `events`, `open`; a send waits for room (`HasRoom`) or fails when the receiver is gone |
| `prepare_upload` | `Claim`, `Refuse`, `NotifyReplaced`, `Announce`, `TakeDecision`, `FreeSlot`, `OpenSession` |
| `PendingSessionGuard` | `HangUp`, `Cleanup`, `TellAborted` |
| `upload`, `UploadGuard`, `finalize_file` | `StartUpload`, `RefuseUpload`, `AnnounceUpload`, `TakeTarget`, `SaveBody`, `FinalizeFile`, `TellFinished`, `HangUpUpload` |
| `cancel` | `Cancel`, `TellCancelled`, `HangUpCancel` |
| `cancel_v2_session` | `CancelSession` |
| the application | `Receive...`, `Accept`, `TurnDown`, `AnswerUpload`, `LeaveServer` (an environment that may do anything the interfaces allow) |

Abstractions: the session id is the request that opened it (the code draws a fresh UUID); the
address and token checks are one bit `genuine`; refusals before the slot is looked at (PIN, JSON, no
files) change nothing and are left out; all requests offer the same files and the application may
accept any subset; saving a body is a choice of outcome. `SessionSlot` is the abstract specification;
the refinement maps a request to `reserved` while its handler or its clean-up still owes the slot an
outcome.

### 2.2 SignalingServer

A connection is a main process (`phase`: joining, serving, closing, leaving) and a receive task
(`recv`). Rooms are changed under one lock in one step; what is told to others is sent afterwards,
one peer at a time in any order a hash map may yield (`todo`, `rtodo`), each send waiting for room in
that peer's queue. A connection in `joining` has registered but nothing drains its queue yet.
`Deliver` is the send task: it takes the head of the queue to the client, whose view is `known`. An
aborted receive task may still finish the send it is in (`late`). The description of a peer is a
version number; offers and answers are one message, "signal". A request over the limit ends the
connection (`error`); `ResetCounts` is the hourly task. Not modelled: the empty room left behind by
a refused first connection, and the text of messages.

### 2.3 ChatHub

A connection's `stage` is the await it is at: connecting, announcing (the only await with the lock
held), running, emitting (a message waits for room), writing, closing, removing, telling. `link` is
the peer's side: up, stalled, failed. `quiet` stands for `last_seen.elapsed() > IDLE_TIMEOUT`, which
counts from what the loop reads, so a loop that is writing or emitting also falls quiet. `select!`
picks among ready branches, so every ready branch is a disjunct. The outgoing queue is dropped only
after `sink.close`. Reasons are reduced to stopped, broken, closed locally. TLS, the fingerprint
check and the frames' text are left out.

### 2.4 ReceiveApp

Server, bridge and controller together; this is where an answer can go astray. Events travel in
order server -> bridge (`events`) -> controller (`inbox`); `commands` is a set, since
`server_isolate.dart` handles each command in a task of its own. A Dart handler is split at its
awaits: `OnPrepareUpload` / `ShowRequest` (directories), `AcceptFileRequest` / `SendDecision`
(storage permission), `OnFileUpload` / `PrepareSaveTarget` / `KeepFile` or `Fail` / `RecordHistory`.
The decision carries no session: the model records whom it was meant for (`from`) only to state
`AnswersItsRequest`. What the code applies to "the session shown" is applied to whatever `session` is
at that step, and an update of a file that session does not have throws, which skips the rest of the
handler.

Abstractions: the server half is coarser than `UploadServer` (its channel never fills, a handler that
frees the slot owes one notice) and is checked against `SessionSlot` again; quick save and its delayed
close may happen at any time since settings change; the user may close or cancel whatever is shown;
directory lookups end in the order they began, being the same chain of platform calls. Left out: web
uploads and chat envelopes (which answer without asking), server stop and restart, progress, favorites
and notifications.

### 2.5 SaveUpload

Four tasks work on one file: the sender's reader (or an application that feeds chunks), the request
that streams the body, the handler that forwards it and the writer. `queued` and `chunks` are the two
bounded channels between them, `net` is what the connection holds, `open` the ends of the channels
that are still held, since what a task sees first when another one fails is a channel that closed.
Content is counted in chunks; the file may have another length than was announced (`left`).

| Code | Model |
|---|---|
| `transfer.rs`, `api/stream.rs`, `client/v2.rs` upload | `ReadChunk`, `EndReading`, `SourceFails`, `SendFrame`, `TakeAnswer`, `TakeRefusal`, `NoticeBreak`, `Cancel` |
| the handler of `save.rs` | `Respond`, `Reject`, `ForwardChunk`, `EndBody`, `BodyFails`, `Await`, `AnswerResult`, `AnswerTimeout`, `DropHandler` |
| the writer of `save.rs` | `OpenFile`, `WriteChunk`, `EndWriting`, `Report`; for a target that is a stream, `ConsumeChunk` and `ReportStream` |
| the result the two applications are told | `ReportUpload`, `app` |

Left out: progress, the checksum of a body (there is none in the code), creation of directories.

### 2.6 SendSession

The main isolate (`session`, `files`, `sendingTasks`), the upload isolate (`running`, `work`,
`request`, `tokens`) and the queues between them (`inbox`, `events`). The receiver is the slot of its
server with the status of each file, and may drop, cancel or refuse at any moment. An upload is a
request that is sent, taken, and saved or refused; its answer may be lost after the file was stored.
`Retry` adds a task that runs beside the transfer.

Left out: progress, the history of sent files, notifications and the page that shows the session.

### 2.7 WebShare and WebZip

`pc[r]` is the await a request is suspended at, `zip[r]` the archive it streams, `reply[r]` what its
responder delivers. Sessions are keyed by the address of the client, as in the code; the guard of
prepare-download is the set `clears` of clean-up tasks that have not run. `decisions` and `downloads`
are the bridge's maps of responders, `commands` a set because commands are handled by independent
tasks. `WebZip` computes the plan of an archive (entry names, offsets, ZIP64 records, total length)
from the list of files with small limits in place of 2^32 and 2^16, so that both sides of each limit
occur. The sizes of the records are the format's. The checksum is the table-driven CRC-32 of the code on
words that are sets of bits; the content of a file repeats one byte. The model checks the table against
the division by the CRC-32 polynomial, and both against the published check value (an assumption of
`MCWebShare` that TLC evaluates); `DosDate` is checked on each day from 1980 to 2107. The static page
and the time of day are left out.

### 2.8 ServerLifecycle

Calls of users and of the watchdog go through the application's service, two queues to and from the
server isolate, and the Rust server. `server[s]` is a listener: up, waiting out an error of accept,
deaf (the system took its socket away), stopping (told to stop, port still held), draining (port free, connections
not yet over). A connection is a handshake, serving, or upgraded to a chat, which a stop does not wait
for. Another program may take the port whenever it is free. A restart is a stop followed by a start;
the watchdog probes, probes again and restarts.

Left out: TLS (the accept loop ends if the TLS configuration cannot be built, but the application's
own certificate always parses), the IPv6 listener (whose failure to bind is not an error), routes,
and settings that change while a restart is underway.

### 2.9 RtcTransfer

Both sides of one transfer. Before the link: the signaling connection of each side (`socket`,
`reading`, `channel`, `signal`), with messages of other peers that may come ahead of the Hello, the
offer, the answer and its callback. On the link: `pc[s]` is the await of the protocol task of a side,
`main[s]` the function that spawned it and waits for it or for the end of the connection, `wire` the
messages in flight, which are lost with the link. Keys and PINs are reduced to whether they verify
(`setup`); every combination is an initial state. A file is counted in chunks, and the app may hand
over fewer or more than it announced.

Left out: pairing, which nothing in the repository starts; SDP, ICE and buffering inside the library.

## 3. Runs

| Run | Instance | Shows |
|---|---|---|
| `upload_slot` | 2 requests, 2 uploads, 1 cancel, 2 files, channel of 2 | one writer per file, statuses earned, ends told once and in order, no takeover of a running transfer, refinement of `SessionSlot` |
| `upload_settles` | 2 requests, 1 upload, 1 cancel, 1 file, channel of 1 | liveness: an accepted request opens or is reported aborted, dropped handlers clean up, ends are told |
| `upload_claim_leak` | as above | **violated**: a request dropped at v2.rs:300 leaks the slot |
| `save_upload` | 1 file of 5 chunks that may have 0 to 6, channels of 2 | sent means saved, the writer's reason reaches the sender, everybody is told |
| `receive_app` | 2 requests, 2 file ids, 2 files offered in total | nothing written unasked, responders reachable, "received" means saved, uploads answered, ends shown, refinement of `SessionSlot` |
| `receive_stale_answer` | as above | **violated**: a decision answers a request the user has not seen |
| `send_session` | 2 files, 1 retry, 1 PIN | shown as sent means received, a cancelled task begins nothing more, no session is sending for ever |
| `web_share` | 2 browsers, 3 requests, 2 files, 1 change, one PIN attempt, channel of 1 | only accepted browsers are served, sessions are true, archives exact, requests end |
| `server_lifecycle` | 2 users and the watchdog, 3 Rust servers, 1 connection | no listener lost, shown means served, reception repaired |
| `signaling_settles` | 2 connections, 1 room, queues of 1, 2 versions | nobody missed, departed forgotten, descriptions up to date; without a jam everyone is served and leaves properly |
| `rtc_transfer` | 2 files of one chunk, 2 PIN attempts, up to 3 chunks given, up to 2 messages ahead of the Hello | proof before trust, files kept apart, results match, both functions return |
| `chat_ends` | 1 connection, 2 calls of send, queues of 1 | events in order, a local close flushes, ends are told, silent peers noticed, sends return |

**Bounds.** Two requests are enough for takeover, a late clean-up and a stale answer, two uploads for
the race for a file and for a late upload of an old session, two files for a session that is not
complete after one. Queues of capacity one or two are the tightest: every wait for room happens. With
two files offered in total, `receive_app` covers two requests for one file each, with the same and
with distinct file ids, and one request for two files with a partial selection. In `save_upload` the
file is longer than two neighbouring channels hold together, so that each is full at some time, and one
chunk more than announced stands for every excess. Three requests of `web_share` are a session, one that replaces or races it, and a
download; its first and last request are of one browser, the one between of either, so that sessions
meet both at one address and at two. One retry of two files runs beside the transfer or after it. Two
users and the watchdog make every pair of calls overlap, with a third to repair what they left; a
Rust server's name is used again once it has ended, and three can exist at a time. In
`rtc_transfer` two messages ahead of a Hello are what fills the reader and its channel; two files are
the least that could be confused, and an app that gives three chunks of a file of one is cut after
the first. `chat_ends` has one connection: the limits of the hub and the lock between connections are
the subject of the proofs, which hold for any number. Symmetry is used only in runs without liveness
properties.

Deadlock is checked in `server_lifecycle`, whose watchdog never ends. Elsewhere requests, connections,
calls and files are finite, and a system that has served them all stops.

**Fairness.** `upload_settles`: weak fairness for every step of a server task and for the application
taking events; none for clients, for the user's decision or for the arrival of bodies.
`signaling_settles`: strong fairness for sends (tokio's channel serves waiting senders in order, so one
whose queue has room again and again gets it), weak for the rest; clients read their socket or lose
it. `chat_ends`: strong fairness where `select!` chooses at random or a tokio lock or channel queues
its waiters; weak for time and the listener. `Writes(c)` (no write waits for ever for a stalled peer)
is a premise: without it nothing bounds `sink.send`, which is the hazard at `chat/mod.rs:355`.
`save_upload`: weak fairness for each of the four parties; none for the consumer of a stream, for
cancels or for the network's failures. `send_session`: weak fairness for the two isolates, and for the
end of each request, since the keep-alive of the client finds a dead connection; none for users and
receiver. `server_lifecycle`: weak fairness for the isolates, for each bind, stop and listener that
closes, for the watchdog and for the end of every connection of a server that stops, which its
cancellation token drops; none for users, networks and other programs.
`web_share` and `rtc_transfer`: the weakest that makes sense, weak fairness of "something is done that
the program or a user in front of a dialog has to do"; both are finite, so that one step after the
other is enough. `receive_app` needs none: nothing in it repeats for ever, so `UploadIsAnswered` and
`EndIsShown` are invariants over the states in which nothing is in transit (`Quiet`).

## 4. What the runs say

### Violations

1. *Claim leak* (`v2.rs:300`). The slot is claimed, the end of the abandoned session is announced, and
   only then is the guard made. A request dropped while the channel is full leaves `Pending` behind:
   every later prepare-upload gets 409 until a restart.
2. *Stale answer* (`api/server.rs:371`). `respond_prepare_upload` answers the pending request, which may
   not be the one shown. `NothingWrittenUnasked` shows why this stays harmless on the disk: the
   controller checks every upload against the session shown and its selection.

### Premises

A property with a premise does not hold without it, and TLC shows the behaviour:

- `EndIsShown` (for opened sessions, and as long as every answer reached its request): an aborted request
  may be shown for ever if the abort arrived while the directories were looked up.
- `UploadIsAnswered` (as long as every answer reached its request). The two requests of `receive_app` do
  not break it without the premise, but its proof showed what three do. The answer to the first opens
  the second, whose upload is refused by the app, since it is not shown as accepted, with a cancel of that
  session; the user accepts the second, and another upload of it is announced and its target looked for
  when the cancel is carried out; the third request is shown meanwhile. Without its file the update of
  the status throws, and so does the one in the catch clause, before it rejects the upload (673), so that
  its responder stays with the bridge.
- `ReceivedIsSaved` (distinct file ids, which the sender draws at random).
- `Forgotten` (no straggling receive task): an update sent after its Left brings a peer back.
- `Settles` of `SignalingServer` (no queue full before its Hello): the Hello goes through a queue nobody
  drains yet (`ws_controller.rs:158`); four messages of peers fill it, and the connection and all who
  send to it wait.
- `EndIsTold` of `UploadServer` (no handler dropped while it waited for room).
- `SessionsAreTrue` (no two overlapping requests of one address): `web.rs:889`.
- `Settles` of `RtcTransfer`: the answer did not overtake its callback (registered after the offer was
  sent, 576 and 586), no two messages came ahead of the Hello, and no task failed (an error path
  returns without closing the connection, so that the other side may wait for ever).
- `FilesAreKeptApart`, its last part (no file cut for being longer than announced): a cut file's result is
  taken for that of the next one (892).
- `ReceptionIsRepaired`: no transfer or share link (the watchdog leaves them alone), the port not taken, and
  application and isolate not apart. They come apart when a stop that is overtaken by a start reports
  last: then every start fails with "Server already running".
- `EverybodyIsTold`: a consumer of a stream may stop reading.

### Behaviour worth knowing

Not violations of anything the repository says, but visible in the models:

- Upload: `clear()` and `finish()` (v2.rs 559, 613) disarm their guard before they take the lock.
- Saving: a certificate of the receiver that expires between the last byte and the answer makes a saved
  file "failed" at the sender; a file that an application feeds is accepted before the feed can fail.
- Sending: a cancel while the receiver still decides is not told to it, since there is no remote session
  id yet (send_provider.dart:542); closing all sessions does not cancel their tasks; a retry beside
  the transfer is not counted when the session is judged, so that a finished session may hold a file
  that fails later; such a session is closed without cancelling the retry.
- Web share: a file the user removes is declined to the browser that asks for it although other
  downloads of it go on (send_controller.dart:171).
- Lifecycle: a transfer that begins between the watchdog's look at the session and the answer to its
  probe is cut (receive_watchdog.dart:245); a user's stop while a start is in flight is lost; a second
  stop returns before the port is released.
- WebRTC: the sender takes one response (559); a user that declines is not waited for until the buffer is
  empty (842-857), so that its answer may be lost; the PIN responder of a receiver outlives its
  controller; a PIN sent before the relay stored its responder is answered "already sent"; a lost
  connection also shows as finished.
- Signaling: `connect` hangs behind two messages ahead of the Hello (signaling.rs 239-269) and panics when
  the socket ends before it; offers carry the description the connection began with.
- Chat: the limits are checked before the handshake and not again (chat/mod.rs:276), so that overlapping
  handshakes of a peer exceed `MAX_CONNECTIONS_PER_PEER`.

## 5. Proofs

For all values of the constants that satisfy the named assumptions (finitely many connections for
signaling; non-empty capacities; the markers, such as `None`, are no ids and no files):

| Module | Invariant | Theorems |
|---|---|---|
| `UploadServerProofs` | `IInv` = `TypeOK`, `Bindings`, `SessionOpened`, `OneHolder`, `UploadHoldsItsFile`, `OneWriterPerFile`; on top of it `StatusEarned`, `EndIsOnePlace`, `EndGoesFirst` | `Invariance`, `TypeCorrect`, `SlotHasOneHolder`, `SingleWriter`, `UploadKeepsItsFile`, `NoTakeover`, `StatusesAreEarned`, `EndToldOnce`, `ReplacedToldFirst`, `SlotRefinement` |
| `SignalingServerProofs` | `IInv` = `TypeOK`, `Registered`, `Addressed`, `Requesting`, `NobodyMissed`, with `RoomLimit`; on top of it `TellingInv` = `OneRequest`, `Unplugged`, `LeftIsLast`, with `Forgotten` and `UpToDate` | `RoomInvariant`, `RoomTypeCorrect`, `NobodyIsMissed`, `RoomsStaySeparate`, `RoomsAreBounded`, `TellingInvariant`, `WhoLeftIsForgotten`, `DescriptionsAreCurrent` |
| `ReceiveAppProofs` | `IInv` = `TypeOK`, `Announced`, `Selected`, `Holders`, `Uploading`, `HandledOnce`, `Written`, `Notified`, `Responder`, `LastCall`, `Reachable`, `FilesFirst`, `Rejected`, `Answering`, `Ends` | `TypeCorrect`, `NothingIsWrittenUnasked`, `DecisionsAreReachable`, `WhatIsReceivedIsSaved`, `UploadsAreAnswered`, `EndsAreShown`, `SlotIsRefined` |
| `ChatHubProofs` | `IInv` = `TypeOK`, `EventOrder`, `EntriesAreServed`, `CloseFlushes`, `Reported`, `Flushed` | `HubInvariant`, `HubTypeCorrect`, `EventsAreOrdered`, `NoStaleEntry`, `ClosingFlushes` |
| `SendingProofs`, on `SendSession` | `IInv` = `TypeOK`, `Beginning`, `TasksInOrder`, `Named`, `OneTaker`, `Truthful` | `TypeCorrect`, `ShownFilesAreSaved`, `CancelledTasksStop` |
| `SendingProofs`, on `SaveUpload` | `SaveIInv` = `SaveTypeOK`, `Phases`, `Verdict` | `SaveTypeCorrect`, `SentMeansSaved`, `ReasonSurvives` |
| `WebShareProofs` | `IInv` = `TypeOK`, `Addressed`, `Granting`, `Passed`, `Concluded`, `Latest`, `Alone`, `Pending`, `Streaming` | `TypeCorrect`, `NothingWithoutConsent`, `SessionsKeepTheirWord`, `ArchivesAreExact`; on the operators of `WebZip` `LayoutIsExact`, `EntryNamesAreDistinct`, `ChecksumIsCrc32`, `DateIsCalendarDate` |
| `RtcTransferProofs` | `IInv` = `TypeOK`, `Offers`, `Trust`, `Linked`, `Handing`, `Streams`, `Framing`, `Kept`, `Answers` | `TypeCorrect`, `NothingBeforeItsProof`, `FilesStayApart` |
| `ServerLifecycleProofs` | `IInv` = `TypeOK`, `OnePlace`, `Known`, `Owed` | `TypeCorrect`, `NoListenerIsLost`, `ShownServersServe` |

**Upload slot.** `OneHolder` is inductive only with `SessionOpened` (the session in the slot belongs to
a request whose handler is done) and `Bindings` (whoever still owes a notice or a final status names a
session that was opened): they exclude that a clean-up meets a claim that is not its own. One writer
per file follows because an upload that works on a file of the active session finds it `in_progress`
(`UploadHoldsItsFile`) and `Admissible` needs `pending`. The refinement maps each handler step to a
step of `SessionSlot` or a stutter. `EndIsOnePlace`: the end of a session is owed by the upload that
emptied the slot, by a cancel, by the request that took the session's place, is in the channel, or was
heard, and never two of these; each step that empties the slot finds all five places empty because the
session it ends is still in the slot. `EndGoesFirst` follows the announcement of a request through
handler, channel and application and says that the end of the session it replaced is ahead of it; a
request that could not send the end has found the channel closed and cannot send its announcement either.

**Rooms.** For each ordered pair in a room, `NobodyMissed` names the four places where the information
may be: at the client, in its queue, in a to-do list, in a snapshot with the Hello owed. The proof
follows how a step moves it. `Addressed` and `Requesting` say that queues and to-do lists speak of
members of the room and that a Left is final. `RoomLimit` counts a finite set that registration
enlarges by one under the guard. `UpToDate` needs `OneRequest`, which says that what an Update is telling
is still what the table holds: a connection makes one request at a time. `Forgotten` needs `LeftIsLast`: once
a connection has left and no straggler of it is sending, nothing about it is queued behind its Left.

**Receive app.** The invariant follows what is on its way between server, bridge and app. A queue is
described by what it holds and what comes before what (`Once`, `Ahead`, `FollowedBy`), and the two
queues of events are one pipe. `Announced`: a request comes through the pipe once, and whoever has
passed it cannot come again. `Selected`: of each request the app says nothing or what was chosen, also
when the answer opens another session, and no choice changes after it was said. `Holders` and `Uploading` tie the
slot to the phases of requests and uploads. With `HandledOnce` (an upload is announced, prepared, given
a target and written once each, and only if its file was chosen) `NothingWrittenUnasked` follows whatever
session an answer opens. `Written` holds because a file is marked as finished after a write,
though perhaps of another session's file with that id; hence the premise of `ReceivedIsSaved`. `LastCall`: the
request that waits, or holds the slot, is the last that was announced, in each place; a responder is therefore
replaced only when nobody waits for it (`Responder`, `Reachable`). `Answering`: for an upload that waits,
the responder is with the bridge or on the way to it, and onFileUpload, a command or the end of the session will
get at it; `FilesFirst` (uploads of a session are announced before its end) excludes that an end drops
the responders before the last one is there. `Ends` does the same for the end of a session: a session
shown as running is in the slot, or its end is on the way to the app, or all uploads of its chosen files
are over; then each of its files is accounted for, and the last one to become final concludes it.

**Hub.** `Reported` ties the stage of a connection to what it has put into the event channel, so that
a Disconnected can be neither early nor repeated. `Flushed` says that a queued frame is in the queue
and that a local close finds the queue empty with no sender left.

**Saving.** `Phases` ties where the handler and the writer are to the channel's ends they hold, so that
a closed channel means what the code takes it to mean. `Verdict` is what an answer, a result and
what the applications were told say about the file; with it `SentIsSaved` and `FailureIsNamed` follow for
every size, every capacity and every length the source turns out to have.

**Sending.** The word "finished" passes from the receiver through the answer of a request and the queue
of events to the session. `Truthful` says that it is true at each of these places. It stays true
because no upload takes a finished file: the receiver admits an upload only of a pending file, tasks are
distinct (`TasksInOrder`) and hence each file has at most one taker (`OneTaker`). `TasksInOrder` also
says that a task which was cancelled has left the map of tokens, from which `CancelStops` follows.

**Lifecycle.** `OnePlace`: a call is on its way to the isolate, binding, waiting for an end or on its way
back, never two of these, so that no stop overwrites the server another stop waits for. `Known`: the
server the isolate keeps is the one that is listening, and each that is ending has a stop of its own, so that
the assignment of a new server, made without looking, overwrites nothing: it needs the port, which
the one it would overwrite still holds. `Owed`: if the isolate has no server while one is shown, or
"started" is on its way, then a "stopped" will arrive after it; this is why a queue that keeps the order
is enough for `ShownIsServed`, though the calls themselves overlap.

**WebRTC.** `Offers`: there is one offer, to a receiver that has not begun. `Trust` says which proofs a phase
of a task presupposes (`Entitled`), that the right PIN is in flight only from a side that has proved
itself, and the list only to a receiver that is cleared. The selection answers the list, and `TrustFirst`
follows. The files need more. The channel to the
receiver is what it has received and not read, followed by the wire, and `Framing` describes it as one
stream: a file is announced by one header at most (`Once`, `Untouched`), only if it was chosen
(`Chosen`), and behind its header, or at the front if it is the one being written, come chunks of that
file only (`Pieces`). What was written of it and what is still in the channel add up to what the app
gave while the connection is up, and to no more once it ended; `Linked` says that it comes up once. `Kept`
then makes a stream that ended complete. `Answers`: as long as no file was cut there is at most one
result on its way, and it is of the one file that is sent and not settled.

**Web share.** A session is accepted only by a decision, and `Granting` follows that decision from the
command over the responder to the session. What is underway carries no more than a client and a
request, and responders of two kinds share one table of replies; `Addressed` says that a decision only
reaches a prepare request of the client it is filed under, and content only a request of another
kind. It has to say so of the events as well, in both directions: a content request that was announced as a
decision would leave a session pending for ever. `Passed`: a download, archive or upload got past
the check while its session was accepted, and consent, once given, is not taken back. For
`SessionsAreTrue`, a request is `Busy` as long as it, or the task its guard starts, may still remove what
its client has pending. `Pending` says that a pending session has a busy request, `Latest` that the
session is the one of the last request that inserted one, and `Alone` that no other request of the client is
busy if that one met none. A prepare request removes a pending session only while it is busy, whoever
inserted it; this is why overlapping requests of one address are excluded (`crowded`) in the first
part, and why a browser that leaves during its own decline is in the second: then nobody is busy and the
session stays.

**Archives.** `Streaming` says of each archive that what was written is what its plan says, up to the
byte reached: where the headers are, which checksums are complete, and that the register of the one
underway is the value after the bytes written. An archive that is broken off is shorter than announced
because every phase but the last has records still to come. The rest are facts about operators, for lists, names
and contents of any length:

- `LayoutIsExact`: offsets are partial sums of what each entry takes; that the lengths the layout counts
  are the widths of the fields written is a lemma for each record, with and without ZIP64. A plan without
  ZIP64 is shorter than `Limit32`, so that no offset or size in it exceeds its field (`PlansAreSound`).
- `EntryNamesAreDistinct`: a file's candidates differ in their suffix and are one more than the names in
  use, so that one of them is free; and `clean_entry_name` leaves no part that leads out.
- `ChecksumIsCrc32`: a step of the division takes the dividend's next term; `Dividend` says that the
  register holds its next 32 terms, reflected. The table does eight steps on the low byte while the rest of the
  register waits, since the divisor is subtracted bit by bit without carry (`BitStepIsTableStep`).
- `DateIsCalendarDate`: in years that begin in March the leap day comes last; the days before a month are
  those of groups of five months with 153 days, and the year is found from the day since its centuries,
  four-year cycles and years are cut off in turn (`YearOfDay`).

These are inductions over lists. Instead of the library's theorems, which take an operator, they use
`Induction`, which is about a set of numbers and follows from the pigeonhole principle; that each
recursive function exists is proved the same way before it is unfolded. Two things in
`ArchivesAreExact` are those of the model: contents repeat a byte (`ChecksumIsCrc32` does not need this),
and lower case is that of the letters `Lower` maps.

Only model-checked: every liveness property (fairness and ENABLED are out of the prover's reach here), and
the check value of CRC-32. The action properties and invariants of the runs are all proved, but for those
of the two runs that expect a violation.

No module a proof uses has a recursive operator.

## 6. Plan

The core of the plan is built: the receive path, saving, sending, the web share, the lifecycle, WebRTC
and the chat hub have a module each. What is left, in order:

1. The premises of `ReceiveApp` as explicit faults of the repository, should the code change.
2. Chat in the application: which of two links between the same peers stays.
3. The registry of nearby devices, as soon as something depends on the order of its events.
4. `v3.rs`, when the application begins to use its transfers.

## 7. Not modelled

- *Protocol v3 and nonces* (`v3.rs`, `client/v3.rs`): a nonce is stored per client and read back; the
  application's own transfers use v2, so that nothing depends on the exchange.
- *Internal endpoints* (`internal.rs`): single requests of a second instance that change no state of
  the core.
- *Discovery and the registry of devices*: every step replaces or removes one entry of a map.
- *Chat in the application*: the reconnection policy and the stored history on top of the hub.
- *Link downloads*: platform downloaders and the parsing of pages.
- *Cryptography, TLS, DTOs, URLs*: data and formatting over libraries.
- *Persistence and settings, user interface, command line, browser extension, generated bindings*: no
  protocol of their own. What a user can do to a modelled part is an action of its module.

In the modelled parts: logging, wording, comparison of addresses and tokens (a bit each), timers as "time
may have passed", and the bytes of files.
