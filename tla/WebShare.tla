------------------------------ MODULE WebShare ------------------------------
(***************************************************************************)
(* The web share: browsers that opened the link download the offered files *)
(* one by one or as a ZIP archive, and upload files of their own           *)
(* (http/server/web.rs, web_zip.rs), the bridge that holds the responders  *)
(* of unanswered requests (localsend_isolates/rust/src/api/server.rs) and  *)
(* the app that answers them (send_controller.dart).                       *)
(*                                                                         *)
(* The key of a session is the address of its client.  Every lock of the   *)
(* code is held without an await, so a locked section is one step.  Events *)
(* travel server -> bridge -> app in order; the app's commands are handled *)
(* by independent tasks, in any order.  A responder is known by the        *)
(* request that waits for it: reply[r] is what that request will read.     *)
(*                                                                         *)
(* `listen` keeps the receiver of the channel as long as the server runs,  *)
(* so the 500 of a closed channel cannot happen and is left out.  Left out *)
(* are also a server without web send, which answers 403 to everything,    *)
(* the static page and headers.  The cache of PIN attempts (200 addresses) *)
(* is taken to hold all Clients.  An upload request ends here when it is   *)
(* handed to the upload flow, which UploadServer models.                   *)
(***************************************************************************)
EXTENDS WebZip

CONSTANTS
  Clients,      \* addresses of browsers; also the ids of their sessions
  MaxRequests,  \* bound: HTTP requests, numbered in the order of their arrival
  Asks,         \* bound: the clients and kinds of the n-th request
  Files,        \* ids of files the host shares
  FileName,     \* their names
  FileSize,     \* their announced sizes
  FileByte,     \* the byte their contents repeat
  Selections,   \* the file lists an archive is asked for
  Announced,    \* the file maps web uploads announce
  MaxUploadFiles, \* WEB_UPLOAD_MAX_FILES
  MaxPinAttempts, \* MAX_PIN_ATTEMPTS
  PinRequired,  \* whether the share has a PIN
  EventCapacity, \* capacity of the event channel
  MaxChanges    \* bound: how often the host changes the shared files

Requests == 1 .. MaxRequests
Kinds == {"prepare", "download", "zip", "upload", "files"}

ASSUME ShareAssumption ==
  /\ MaxRequests \in Nat
  /\ Asks \in [Requests -> SUBSET (Clients \X Kinds)]
  /\ FileName \in [Files -> Seq(STRING)]
  /\ FileSize \in [Files -> Nat]
  /\ FileByte \in [Files -> Byte]
  /\ Selections \subseteq Seq(Files)
  /\ PinRequired \in BOOLEAN
  /\ {MaxUploadFiles, MaxPinAttempts, EventCapacity, MaxChanges} \subseteq Nat
  /\ EventCapacity > 0

VARIABLES
  offered,    \* the files the server offers
  sessions,   \* the download session of each client: "none", "pending", "accepted"
  attempts,   \* failed PIN attempts of each client
  req,        \* what each request asks for, NoRequest before it arrives
  pc,         \* await point of each request
  answer,     \* its answer
  reply,      \* what the responder of the request delivers
  clears,     \* dropped guards whose clear_pending_session task has not run
  zip,        \* the archive each request is sent
  events,     \* the event channel
  decisions,  \* pending_download_decisions: the request each client's responder is of
  downloads,  \* pending_downloads: the request each responder is of
  inbox,      \* events from the bridge to the app
  commands,   \* commands of the app the bridge has not handled yet
  app,        \* the web sessions of the app
  shared,     \* the files of the app's web send state
  changes,    \* how often they changed
  granted,    \* history: clients a user (or auto accept) accepted
  last,       \* history: the request that inserted the session of each client
  crowded     \* history: requests that overlapped another one of their client

serverVars == <<offered, sessions, attempts, req, pc, answer, reply, clears, zip>>
bridgeVars == <<events, decisions, downloads, inbox, commands>>
appVars    == <<app, shared, changes>>
history    == <<granted, last, crowded>>
vars       == <<serverVars, bridgeVars, appVars, history>>

None == "none"
Nobody == 0
NoRequest == [kind |-> None, ip |-> None]
NoSession == [state |-> None, of |-> Nobody]
NoZip == [phase |-> None]

Init ==
  /\ offered = Files /\ shared = Files /\ changes = 0
  /\ sessions = [c \in Clients |-> None]
  /\ attempts = [c \in Clients |-> 0]
  /\ req = [r \in Requests |-> NoRequest]
  /\ pc = [r \in Requests |-> "idle"]
  /\ answer = [r \in Requests |-> None]
  /\ reply = [r \in Requests |-> None]
  /\ clears = {} /\ crowded = {} /\ granted = {} /\ commands = {}
  /\ zip = [r \in Requests |-> NoZip]
  /\ events = <<>> /\ inbox = <<>>
  /\ decisions = [c \in Clients |-> Nobody] /\ last = [c \in Clients |-> Nobody]
  /\ downloads = [d \in Clients \X Files |-> Nobody]
  /\ app = [c \in Clients |-> NoSession]

-----------------------------------------------------------------------------
(* Handlers *)

Ip(r) == req[r].ip

\* Faulty: the address of the caller is not compared.
ValidAnyAddress(sid, ip) == sid \in Clients /\ sessions[sid] = "accepted"

\* The access rule of every handler: an accepted session of this very address.
Valid(sid, ip) == sid \in Clients /\ sessions[sid] = "accepted" /\ sid = ip

Arrive(r, record, next, ans) ==
  /\ <<record.ip, record.kind>> \in Asks[r]
  /\ pc[r] = "idle" /\ \A q \in 1 .. r - 1 : pc[q] # "idle"
  /\ req' = [req EXCEPT ![r] = IF next = "done" THEN [kind |-> record.kind, ip |-> record.ip]
                             ELSE record]
  /\ pc' = [pc EXCEPT ![r] = next]
  /\ answer' = [answer EXCEPT ![r] = ans]

\* A request that is answered keeps no locals.
Finish(r, ans) ==
  /\ pc' = [pc EXCEPT ![r] = "done"]
  /\ answer' = [answer EXCEPT ![r] = ans]
  /\ req' = [req EXCEPT ![r] = [kind |-> req[r].kind, ip |-> req[r].ip]]
  /\ reply' = [reply EXCEPT ![r] = None]

\* `check_pin`: the count is read before the PIN is compared; a missing PIN does
\* not count and the right one forgets the failures.
CheckPin(c, pin) ==
  IF ~PinRequired THEN [ans |-> None, count |-> attempts[c]]
  ELSE IF attempts[c] >= MaxPinAttempts THEN [ans |-> "refused", count |-> attempts[c]]
  ELSE CASE pin = "right" -> [ans |-> None, count |-> 0]
         [] pin = "wrong" -> [ans |-> "refused", count |-> attempts[c] + 1]
         [] pin = None    -> [ans |-> "refused", count |-> attempts[c]]

\* `prepare_download` up to the insertion: an accepted client gets the list at
\* once, any other has to know the PIN.
PrepareDownload(r, c, sid, pin) ==
  LET check == CheckPin(c, pin) IN
  /\ IF Valid(sid, c)
     THEN /\ Arrive(r, [kind |-> "prepare", ip |-> c], "done", "list")
          /\ UNCHANGED attempts
     ELSE /\ Arrive(r, [kind |-> "prepare", ip |-> c],
                    IF check.ans = None THEN "checked" ELSE "done", check.ans)
          /\ attempts' = [attempts EXCEPT ![c] = check.count]
  /\ UNCHANGED <<offered, sessions, reply, clears, zip, bridgeVars, appVars, history>>

\* The new session replaces whatever session the client had.
InsertSession(r) ==
  LET others == {q \in Requests \ {r} :
                   /\ req[q].kind = "prepare" /\ Ip(q) = Ip(r)
                   /\ q \in clears \/ pc[q] \in {"sending", "asking", "clearing"}}
  IN
  /\ pc[r] = "checked"
  /\ sessions' = [sessions EXCEPT ![Ip(r)] = "pending"]
  /\ pc' = [pc EXCEPT ![r] = "sending"]
  /\ crowded' = crowded \cup others \cup {q \in {r} : others # {}}
  /\ last' = [last EXCEPT ![Ip(r)] = r]
  /\ UNCHANGED <<offered, attempts, req, answer, reply, clears, zip, bridgeVars, appVars,
                 granted>>

\* `event_tx.send(event).await` waits for room.
Send(event) == Len(events) < EventCapacity /\ events' = Append(events, event)

AskApp(r) ==
  /\ pc[r] = "sending"
  /\ Send(IF req[r].kind = "prepare" THEN [kind |-> "prepare", of |-> r]
          ELSE [kind |-> "download", of |-> r, file |-> req[r].file])
  /\ pc' = [pc EXCEPT ![r] = "asking"]
  /\ reply' = [reply EXCEPT ![r] = "open"]
  /\ UNCHANGED <<offered, sessions, attempts, req, answer, clears, zip, decisions,
                 downloads, inbox, commands, appVars, history>>

\* Faulty: the guard has no Drop.
DropGuardSilently(r) == UNCHANGED clears

\* The guard of a prepare request that ends without a decision is still armed:
\* its drop starts a task that clears the session.
DropGuard(r) == clears' = clears \cup {q \in {r} : req[r].kind = "prepare"}

AskFails(r) ==
  /\ pc[r] = "asking" /\ reply[r] = "dropped"
  /\ Finish(r, "failed")
  /\ DropGuard(r)
  /\ UNCHANGED <<offered, sessions, attempts, zip, bridgeVars, appVars, history>>

\* The app accepted: the session is marked, if there is one.
Accepted(r) ==
  /\ pc[r] = "asking" /\ reply[r] = "yes"
  /\ sessions' = [sessions EXCEPT ![Ip(r)] = IF @ = None THEN None ELSE "accepted"]
  /\ Finish(r, "list")
  /\ UNCHANGED <<offered, attempts, clears, zip, bridgeVars, appVars, history>>

\* The app declined: the guard is disarmed, then `clear` waits for the lock.
Declined(r) ==
  /\ pc[r] = "asking" /\ reply[r] = "no"
  /\ pc' = [pc EXCEPT ![r] = "clearing"]
  /\ UNCHANGED <<offered, sessions, attempts, req, answer, reply, clears, zip, bridgeVars,
                 appVars, history>>

\* `clear_pending_session`: removes what is pending, whoever inserted it.
ClearPendingSession(c) ==
  sessions' = [sessions EXCEPT ![c] = IF @ = "pending" THEN None ELSE @]

ClearDeclined(r) ==
  /\ pc[r] = "clearing"
  /\ ClearPendingSession(Ip(r))
  /\ Finish(r, "refused")
  /\ UNCHANGED <<offered, attempts, clears, zip, bridgeVars, appVars, history>>

ClearDropped(r) ==
  /\ r \in clears
  /\ ClearPendingSession(Ip(r))
  /\ clears' = clears \ {r}
  /\ UNCHANGED <<offered, attempts, req, pc, answer, reply, zip, bridgeVars, appVars, history>>

\* The browser goes away: the handler is dropped where it waits.
ClientGone(r) ==
  /\ pc[r] \in {"checked", "sending", "asking", "clearing", "body"}
  /\ Finish(r, IF pc[r] = "clearing" THEN "gone declined" ELSE "gone")
  /\ IF pc[r] \in {"sending", "asking"} THEN DropGuard(r) ELSE UNCHANGED clears
  /\ UNCHANGED <<offered, sessions, attempts, zip, bridgeVars, appVars, history>>

\* `download`
Download(r, c, sid, f) ==
  LET allowed == Valid(sid, c) /\ f \in offered IN
  /\ Arrive(r, [kind |-> "download", ip |-> c, file |-> f],
            IF allowed THEN "sending" ELSE "done", IF allowed THEN None ELSE "refused")
  /\ UNCHANGED <<offered, sessions, attempts, reply, clears, zip, bridgeVars, appVars, history>>

ContentArrives(r) ==
  /\ pc[r] = "asking" /\ reply[r] = "content"
  /\ Finish(r, "content")
  /\ UNCHANGED <<offered, sessions, attempts, clears, zip, bridgeVars, appVars,
                 history>>

\* `files`: the current list, never a new request to the host.
FileList(r, c, sid) ==
  /\ Arrive(r, [kind |-> "files", ip |-> c], "done", IF Valid(sid, c) THEN "list" ELSE "refused")
  /\ UNCHANGED <<offered, sessions, attempts, reply, clears, zip, bridgeVars, appVars, history>>

\* `download_zip` and the web's `prepare_upload` check the session, then read the body.
BeginBody(r, c, sid, record) ==
  Arrive(r, record, IF Valid(sid, c) THEN "body" ELSE "done",
         IF Valid(sid, c) THEN None ELSE "refused")

BodyFrame ==
  UNCHANGED <<offered, sessions, attempts, reply, clears, zip, bridgeVars, appVars, history>>

DownloadZip(r, c, sid, fs) ==
  BeginBody(r, c, sid, [kind |-> "zip", ip |-> c, files |-> fs]) /\ BodyFrame

PrepareUpload(r, c, sid, batch) ==
  BeginBody(r, c, sid, [kind |-> "upload", ip |-> c, batch |-> batch]) /\ BodyFrame

\* Only the first of equal ids counts.
Dedup(fs) ==
  LET firsts == {i \in DOMAIN fs : \A j \in 1 .. i - 1 : fs[j] # fs[i]}
      Rank(i) == Cardinality({j \in firsts : j <= i})
  IN  [k \in 1 .. Cardinality(firsts) |-> fs[CHOOSE i \in firsts : Rank(i) = k]]

\* The archive of each list of files, planned when the request is answered.
Plan ==
  LET Name(fs) == ZipEntryNames([i \in DOMAIN fs |-> FileName[fs[i]]])
      Entries(fs) == LET name == Name(fs) IN
                     [i \in DOMAIN fs |-> [name |-> name[i], size |-> FileSize[fs[i]]]]
  IN  [fs \in {Dedup(s) : s \in Selections} |-> ZipPlan(Entries(fs))]

\* The rest of `download_zip`: the length is announced and the task started.
StartZip(r) ==
  LET fs == Dedup(req[r].files) IN
  /\ pc[r] = "body" /\ req[r].kind = "zip"
  /\ IF Len(fs) \in 1 .. MaxZipFiles /\ Range(fs) \subseteq offered
     THEN /\ Finish(r, "archive")
          /\ zip' = [zip EXCEPT ![r] = [files |-> fs, phase |-> "header", index |-> 1,
                                        written |-> 0, crc |-> CrcNew, crcs |-> <<>>,
                                        pos |-> 0, heads |-> <<>>]]
     ELSE /\ Finish(r, "refused")
          /\ UNCHANGED zip
  /\ UNCHANGED <<offered, sessions, attempts, clears, bridgeVars, appVars, history>>

\* `is_valid_upload_file_name`: a single part that names a file.
IsValidUploadFileName(name) == Len(name) = 1 /\ name[1] \notin Meaningless

\* `validate_web_upload_files`
ValidateWebUploadFiles(batch) ==
  /\ Cardinality(DOMAIN batch) \in 1 .. MaxUploadFiles
  /\ \A k \in DOMAIN batch : k = batch[k].id /\ IsValidUploadFileName(batch[k].name)

FinishUpload(r) ==
  /\ pc[r] = "body" /\ req[r].kind = "upload"
  /\ Finish(r, IF ValidateWebUploadFiles(req[r].batch) THEN "handed" ELSE "refused")
  /\ UNCHANGED <<offered, sessions, attempts, clears, zip, bridgeVars, appVars,
                 history>>

-----------------------------------------------------------------------------
(* `stream_zip`: one task per archive.  A chunk is one byte. *)

\* The response ends with an error: the browser keeps no part of it.
AbortZip(r) == [zip EXCEPT ![r].phase = "aborted"]

ZipAt(r, phase) == zip[r].phase = phase

PlanOf(r) == Plan[zip[r].files]
ZipSize(r) == PlanOf(r).entries[zip[r].index].size

ZipFrame == UNCHANGED <<offered, sessions, attempts, req, pc, answer, clears, appVars, history>>

ZipHeader(r) ==
  /\ ZipAt(r, "header")
  /\ zip' = [zip EXCEPT ![r].phase = "ask",
                        ![r].heads = Append(@, zip[r].pos),
                        ![r].pos = @ + Bytes(LocalHeader(PlanOf(r), zip[r].index))]
  /\ UNCHANGED <<reply, bridgeVars>> /\ ZipFrame

\* The content of each file is asked for like that of a single download.
ZipAsk(r) ==
  /\ ZipAt(r, "ask")
  /\ Send([kind |-> "download", of |-> r, file |-> zip[r].files[zip[r].index]])
  /\ zip' = [zip EXCEPT ![r].phase = "wait"]
  /\ reply' = [reply EXCEPT ![r] = "open"]
  /\ UNCHANGED <<decisions, downloads, inbox, commands>> /\ ZipFrame

ZipContent(r) ==
  /\ ZipAt(r, "wait") /\ reply[r] \in {"content", "dropped"}
  /\ zip' = IF reply[r] = "dropped" THEN AbortZip(r)
            ELSE [zip EXCEPT ![r].phase = "copy", ![r].written = 0, ![r].crc = CrcNew]
  /\ UNCHANGED <<reply, bridgeVars>> /\ ZipFrame

\* Faulty: the size is compared at the end only.
ZipChunkUnchecked(r) ==
  /\ ZipAt(r, "copy") /\ zip[r].written <= ZipSize(r)
  /\ LET n == IF zip[r].written < ZipSize(r) THEN 1 ELSE 100 IN \* a long last chunk
     zip' = [zip EXCEPT ![r].written = @ + n, ![r].pos = @ + n]
  /\ UNCHANGED <<reply, bridgeVars>> /\ ZipFrame

\* A chunk that exceeds the announced size is not forwarded.
ZipChunk(r) ==
  /\ ZipAt(r, "copy")
  /\ zip' = IF zip[r].written + 1 > ZipSize(r)
            THEN AbortZip(r)
            ELSE [zip EXCEPT
                    ![r].written = @ + 1,
                    ![r].pos = @ + 1,
                    ![r].crc = CrcUpdate(@, FileByte[zip[r].files[zip[r].index]])]
  /\ UNCHANGED <<reply, bridgeVars>> /\ ZipFrame

\* End of the content, or an error of the reader, which looks the same.
ZipEof(r) ==
  /\ ZipAt(r, "copy")
  /\ zip' = IF zip[r].written # ZipSize(r)
            THEN AbortZip(r)
            ELSE [zip EXCEPT
                    ![r].crcs = Append(@, CrcFinish(zip[r].crc)),
                    ![r].pos = @ + Bytes(DataDescriptor(PlanOf(r))),
                    ![r].index = @ + 1,
                    ![r].phase = IF zip[r].index = Len(zip[r].files) THEN "central" ELSE "header"]
  /\ UNCHANGED <<reply, bridgeVars>> /\ ZipFrame

ZipCentral(r) ==
  /\ ZipAt(r, "central")
  /\ zip' = [zip EXCEPT ![r].pos = @ + CentralDirectory(PlanOf(r)), ![r].phase = "complete"]
  /\ UNCHANGED <<reply, bridgeVars>> /\ ZipFrame

\* The browser is gone: the task notices at its next send.
ZipGone(r) ==
  /\ zip[r].phase \in {"header", "copy", "central"}
  /\ zip' = [zip EXCEPT ![r].phase = "gone"]
  /\ UNCHANGED <<reply, bridgeVars>> /\ ZipFrame

-----------------------------------------------------------------------------
(* The bridge: RsHttpServer *)

BridgeFrame == UNCHANGED <<offered, sessions, attempts, req, pc, answer, clears, zip, history>>

\* The request still waits for what its responder delivers.
Waits(r) == pc[r] = "asking" \/ ZipAt(r, "wait")

Deliver(r, value) ==
  reply' = IF r # Nobody /\ Waits(r) /\ reply[r] = "open"
           THEN [reply EXCEPT ![r] = value] ELSE reply

\* Faulty: the first responder of a key is kept, the newer one neither stored nor dropped.
HandleWebEventKeepingFirst ==
  /\ events # <<>>
  /\ LET e == Head(events) IN
     /\ events' = Tail(events)
     /\ inbox' = Append(inbox, e)
     /\ decisions' = IF e.kind = "prepare" /\ decisions[Ip(e.of)] = Nobody
                     THEN [decisions EXCEPT ![Ip(e.of)] = e.of] ELSE decisions
     /\ downloads' = IF e.kind = "download"
                     THEN [downloads EXCEPT ![<<Ip(e.of), e.file>>] = e.of] ELSE downloads
  /\ UNCHANGED <<reply, commands, appVars>> /\ BridgeFrame

\* `handle_web_event`: a newer responder replaces, and thereby drops, the older.
HandleWebEvent ==
  /\ events # <<>>
  /\ LET e == Head(events) IN
     /\ events' = Tail(events)
     /\ inbox' = Append(inbox, e)
     /\ \/ /\ e.kind = "prepare"
           /\ Deliver(decisions[Ip(e.of)], "dropped")
           /\ decisions' = [decisions EXCEPT ![Ip(e.of)] = e.of]
           /\ UNCHANGED downloads
        \/ /\ e.kind = "download"
           /\ Deliver(downloads[<<Ip(e.of), e.file>>], "dropped")
           /\ downloads' = [downloads EXCEPT ![<<Ip(e.of), e.file>>] = e.of]
           /\ UNCHANGED decisions
  /\ UNCHANGED <<commands, appVars>> /\ BridgeFrame

RespondPrepareDownload(cmd) ==
  /\ cmd \in commands /\ cmd.kind \in {"yes", "no"}
  /\ commands' = commands \ {cmd}
  /\ Deliver(decisions[cmd.ip], cmd.kind)
  /\ decisions' = [decisions EXCEPT ![cmd.ip] = Nobody]
  /\ UNCHANGED <<events, downloads, inbox, appVars>> /\ BridgeFrame

\* `respond_file_download` and `reject_file_download`
RespondFileDownload(cmd) ==
  /\ cmd \in commands /\ cmd.kind \in {"content", "dropped"}
  /\ commands' = commands \ {cmd}
  /\ Deliver(downloads[<<cmd.ip, cmd.file>>], cmd.kind)
  /\ downloads' = [downloads EXCEPT ![<<cmd.ip, cmd.file>>] = Nobody]
  /\ UNCHANGED <<events, decisions, inbox, appVars>> /\ BridgeFrame

\* `set_web_send_files`
SetFiles(cmd) ==
  /\ cmd \in commands /\ cmd.kind = "files"
  /\ commands' = commands \ {cmd}
  /\ offered' = cmd.files
  /\ UNCHANGED <<events, decisions, downloads, inbox, sessions, attempts, req, pc, answer,
                 reply, clears, zip, appVars, history>>

-----------------------------------------------------------------------------
(* The app: SendController *)

AppFrame == UNCHANGED <<serverVars, events, decisions, downloads, last, crowded>>

\* Auto accept is AcceptRequest right after it.
OnPrepareDownload ==
  /\ inbox # <<>> /\ Head(inbox).kind = "prepare"
  /\ LET r == Head(inbox).of IN
     app' = [app EXCEPT ![Ip(r)] = [state |-> "pending", of |-> r]]
  /\ inbox' = Tail(inbox)
  /\ UNCHANGED <<commands, shared, changes, granted>> /\ AppFrame

AcceptRequest(c) ==
  /\ app[c].state = "pending"
  /\ app' = [app EXCEPT ![c].state = "accepted"]
  /\ commands' = commands \cup {[kind |-> "yes", ip |-> c, of |-> app[c].of]}
  /\ granted' = granted \cup {c}
  /\ UNCHANGED <<inbox, shared, changes>> /\ AppFrame

DeclineRequest(c) ==
  /\ app[c].state = "pending"
  /\ app' = [app EXCEPT ![c] = NoSession]
  /\ commands' = commands \cup {[kind |-> "no", ip |-> c, of |-> app[c].of]}
  /\ UNCHANGED <<inbox, shared, changes, granted>> /\ AppFrame

\* `onFileDownload`: a file that is no longer shared, or whose source cannot be
\* resolved, is rejected.
OnFileDownload ==
  /\ inbox # <<>> /\ Head(inbox).kind = "download"
  /\ LET e == Head(inbox) IN
     \E kind \in {"dropped"} \cup {"content" : f \in {e.file} \cap shared} :
       commands' = commands \cup {[kind |-> kind, ip |-> Ip(e.of), file |-> e.file, of |-> e.of]}
  /\ inbox' = Tail(inbox)
  /\ UNCHANGED <<app, shared, changes, granted>> /\ AppFrame

\* `addFiles` and `removeFile`
ChangeFiles(f) ==
  LET files == IF f \in shared THEN shared \ {f} ELSE shared \cup {f} IN
  /\ changes < MaxChanges
  /\ shared' = files /\ changes' = changes + 1
  /\ commands' = commands \cup {[kind |-> "files", files |-> files]}
  /\ UNCHANGED <<inbox, app, granted>> /\ AppFrame

-----------------------------------------------------------------------------
Serve(r) ==
  \/ InsertSession(r) \/ AskApp(r) \/ AskFails(r) \/ Accepted(r) \/ Declined(r)
  \/ ClearDeclined(r) \/ ClearDropped(r) \/ ContentArrives(r) \/ StartZip(r) \/ FinishUpload(r)

StreamZip(r) ==
  ZipHeader(r) \/ ZipAsk(r) \/ ZipContent(r) \/ ZipEof(r) \/ ZipCentral(r)

Respond(cmd) == RespondPrepareDownload(cmd) \/ RespondFileDownload(cmd) \/ SetFiles(cmd)

Browser ==
  \E r \in Requests, c, sid \in Clients :
    \/ \E pin \in {"right", "wrong", None} : PrepareDownload(r, c, sid, pin)
    \/ \E f \in Files : Download(r, c, sid, f)
    \/ \E fs \in Selections : DownloadZip(r, c, sid, fs)
    \/ \E batch \in Announced : PrepareUpload(r, c, sid, batch)
    \/ FileList(r, c, sid)

\* What the server, the bridge, the app and its user do on their own.
Progress ==
  \/ \E r \in Requests : Serve(r) \/ StreamZip(r)
  \/ HandleWebEvent
  \/ \E cmd \in commands : Respond(cmd)
  \/ OnPrepareDownload \/ OnFileDownload
  \/ \E c \in Clients : AcceptRequest(c) \/ DeclineRequest(c)

Next ==
  \/ Browser
  \/ Progress
  \/ \E r \in Requests : ClientGone(r) \/ ZipChunk(r) \/ ZipGone(r)
  \/ \E f \in Files : ChangeFiles(f)

\* As long as the server, the bridge, the app or a user with a request on the screen
\* has something to do, one of them does something.
Fairness == WF_vars(Progress)

Spec == Init /\ [][Next]_vars /\ Fairness

-----------------------------------------------------------------------------
(* Properties *)

\* Content is asked of the app, an archive streamed and an upload handed on only for a
\* browser somebody accepted, by its address (web.rs: every handler checks the session
\* once, before it waits).
OnlyAcceptedIsServed ==
  \A r \in Requests :
    /\ req[r].kind \in {"download", "zip", "upload"}
    /\ Waits(r) \/ zip[r] # NoZip \/ answer[r] \in {"content", "handed"}
    => Ip(r) \in granted

\* A session means what its state says: a browser that was given the file list may
\* download until it asks again, unless two requests of its address overlapped, and
\* a pending session belongs to a request that still waits or whose guard will remove
\* it, unless a browser left while its decline was carried out (the guard of
\* prepare_download and the map keyed by address, web.rs).
SessionsAreTrue ==
  /\ \A r \in Requests :
       answer[r] = "list" /\ r \notin crowded /\ last[Ip(r)] = r
       => sessions[Ip(r)] = "accepted"
  /\ \A c \in Clients :
       /\ sessions[c] = "pending"
       /\ \A r \in Requests : answer[r] # "gone declined"
       => \E r \in Requests : /\ req[r].kind = "prepare" /\ Ip(r) = c
                              /\ r \in clears \/ pc[r] \in {"sending", "asking", "clearing"}

\* What an archive announces and lists: distinct names that stay inside, in whatever case
\* they are read, and no number beyond its field.
PlanIsSound(plan) ==
  LET names == {plan.entries[i].name : i \in DOMAIN plan.entries} IN
  /\ Cardinality({Lower(n) : n \in names}) = Len(plan.entries)
  /\ \A n \in names : n.path # <<>> /\ Range(n.path) \cap Meaningless = {}
  /\ \A v \in NarrowFields(plan) : v <= Limit32

Content(f) == [k \in 1 .. FileSize[f] |-> FileByte[f]]

\* What is streamed: a complete archive has the announced length, its local headers where
\* the central directory says, and for each entry the CRC-32 of its whole content, never
\* of the entry before; one that was broken off never reaches the announced length.
StreamIsExact(z, plan) ==
  /\ z.phase = "complete" =>
       /\ z.pos = plan.totalLen /\ z.heads = plan.offsets
       /\ z.crcs = [i \in DOMAIN z.files |-> CrcOf(Content(z.files[i]))]
  /\ z.phase # "complete" => z.pos < plan.totalLen

\* An archive is what its Content-Length and its central directory promise, and the date
\* of its entries is the one of the calendar (ZipPlan, stream_zip and dos_date_time,
\* web_zip.rs).
ArchiveIsExact ==
  \A r \in Requests : zip[r] # NoZip =>
    /\ PlanIsSound(PlanOf(r)) /\ StreamIsExact(zip[r], PlanOf(r))
    /\ ChecksumsAreCrc32 /\ DatesAreCalendarDates

\* Every request is answered or given up, and every archive ends: again and again
\* nobody waits.
RequestIsAnswered ==
  []<>\A r \in Requests : /\ pc[r] \in {"idle", "done"}
                          /\ zip[r].phase \in {None, "complete", "aborted", "gone"}
=============================================================================
