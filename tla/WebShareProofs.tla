--------------------------- MODULE WebShareProofs ---------------------------
(***************************************************************************)
(* Proofs about the web share: for any clients, files, selections and      *)
(* number of requests, content is only asked for and uploads only handed   *)
(* on for a client somebody accepted, a session means what its state says, *)
(* and an archive is what its length and its central directory promise.    *)
(*                                                                         *)
(* Consent travels from the app's session over a command, a responder and  *)
(* a request to the session of the server; on that way it is told from the *)
(* answers to other requests by the client a responder is filed under,     *)
(* which is why the invariant says whom everything underway is about.  A   *)
(* session is pending as long as the request that inserted it, or its      *)
(* guard, is busy; a request that met no other one of its client is the    *)
(* only one that can change it.                                            *)
(*                                                                         *)
(* An archive is laid out before its first byte is sent.  That the layout  *)
(* is right, no two names are one, a checksum is the CRC-32 and a date one *)
(* of the calendar are facts about operators; the invariant says that what *)
(* has been written is what was laid out, up to the byte reached.          *)
(***************************************************************************)
EXTENDS WebShare, SequenceTheorems, FiniteSetTheorems, TLAPS

-----------------------------------------------------------------------------
(* Types *)

Phases == {"idle", "checked", "sending", "asking", "clearing", "body", "done"}
Replies == {None, "open", "yes", "no", "content", "dropped"}

\* What a request keeps: its kind and its address, and its locals as long as it runs.
Record ==
  {NoRequest} \cup [kind : Kinds, ip : Clients]
    \cup [kind : {"download"}, ip : Clients, file : Files]
    \cup [kind : {"zip"}, ip : Clients, files : Selections]
    \cup [kind : {"upload"}, ip : Clients, batch : Announced]

Event ==
  [kind : {"prepare"}, of : Requests] \cup [kind : {"download"}, of : Requests, file : Files]

Command ==
  [kind : {"yes", "no"}, ip : Clients, of : Requests]
    \cup [kind : {"content", "dropped"}, ip : Clients, file : Files, of : Requests]
    \cup [kind : {"files"}, files : SUBSET Files]

RequestType ==
  /\ req \in [Requests -> Record]
  /\ pc \in [Requests -> Phases]
  /\ answer \in [Requests -> {None, "list", "refused", "failed", "gone", "gone declined",
                              "content", "archive", "handed"}]
  /\ reply \in [Requests -> Replies]
  /\ clears \in SUBSET Requests
  /\ \A r \in Requests :
       /\ pc[r] = "idle" <=> req[r].kind = None
       /\ pc[r] = "checked" => req[r].kind = "prepare"
       /\ pc[r] \in {"sending", "asking"} => req[r].kind \in {"prepare", "download"}
       /\ pc[r] = "sending" /\ req[r].kind = "download" => req[r].file \in Files
       /\ pc[r] = "body" => req[r].kind \in {"zip", "upload"}
       /\ pc[r] = "body" /\ req[r].kind = "zip" => req[r].files \in Selections

SessionType ==
  /\ offered \in SUBSET Files /\ shared \in SUBSET Files /\ changes \in Nat
  /\ sessions \in [Clients -> {None, "pending", "accepted"}]
  /\ attempts \in [Clients -> Nat]
  /\ app \in [Clients -> {NoSession} \cup [state : {"pending", "accepted"}, of : Requests]]
  /\ granted \in SUBSET Clients /\ crowded \in SUBSET Requests
  /\ last \in [Clients -> Requests \cup {Nobody}]

BridgeType ==
  /\ events \in Seq(Event) /\ inbox \in Seq(Event)
  /\ commands \in SUBSET Command
  /\ decisions \in [Clients -> Requests \cup {Nobody}]
  /\ downloads \in [Clients \X Files -> Requests \cup {Nobody}]

\* Where an archive is: it has a next file as long as it is not at its end.
ZipType ==
  /\ DOMAIN zip = Requests
  /\ \A r \in Requests :
       /\ zip[r].phase \in {None, "header", "ask", "wait", "copy", "central", "complete", "aborted", "gone"}
       /\ zip[r].phase = None <=> zip[r] = NoZip
       /\ zip[r] # NoZip => /\ {"files", "phase", "index"} \subseteq DOMAIN zip[r]
                            /\ req[r].kind = "zip"
                            /\ zip[r].files \in Seq(Files)
                            /\ zip[r].index \in Nat
       /\ zip[r].phase \in {"header", "ask", "wait", "copy"} => zip[r].index \in DOMAIN zip[r].files

TypeOK == RequestType /\ SessionType /\ BridgeType /\ ZipType

-----------------------------------------------------------------------------
(* Who is meant *)

\* Events and responders are of requests that arrived, a decision is one about a prepare
\* request of the client it is filed under, and content goes to requests of other kinds.
Addressed ==
  /\ \A i \in DOMAIN events :
       /\ req[events[i].of].kind # None
       /\ events[i].kind = "prepare" <=> req[events[i].of].kind = "prepare"
  /\ \A i \in DOMAIN inbox : req[inbox[i].of].kind # None
  /\ \A c \in Clients : decisions[c] # Nobody =>
       req[decisions[c]].kind = "prepare" /\ Ip(decisions[c]) = c
  /\ \A d \in Clients \X Files : downloads[d] # Nobody =>
       req[downloads[d]].kind \notin {None, "prepare"}
  /\ \A r \in Requests :
       /\ reply[r] \in {"yes", "no"} \/ pc[r] = "clearing" \/ r \in clears => req[r].kind = "prepare"
       /\ reply[r] = "content" => req[r].kind \notin {None, "prepare"}

\* The acceptance of a client, on its way from the app to its session.
Granting ==
  /\ \A cmd \in commands : cmd.kind = "yes" => cmd.ip \in granted
  /\ \A r \in Requests : reply[r] = "yes" => Ip(r) \in granted
  /\ \A c \in Clients : sessions[c] = "accepted" => c \in granted

\* A request for content got past the check of its session.
Passed ==
  \A r \in Requests :
    /\ req[r].kind \in {"download", "zip", "upload"}
    /\ pc[r] # "done" \/ zip[r] # NoZip \/ answer[r] \in {"content", "handed"}
    => Ip(r) \in granted

-----------------------------------------------------------------------------
(* Sessions *)

\* The request may still change the session it inserted.
Busy(r) ==
  /\ req[r].kind = "prepare"
  /\ r \in clears \/ pc[r] \in {"sending", "asking", "clearing"}

\* A request is answered when it is done, and its guard runs after that.
Concluded ==
  \A r \in Requests :
    /\ pc[r] # "done" => answer[r] = None
    /\ r \in clears => pc[r] = "done" /\ answer[r] # "list"

\* The session of a client is the one its last request inserted.
Latest ==
  \A c \in Clients : last[c] # Nobody =>
    /\ req[last[c]].kind = "prepare" /\ Ip(last[c]) = c
    /\ pc[last[c]] \notin {"idle", "checked"}

\* If it met no other one of its client, none is left that would change its session.
Alone ==
  \A c \in Clients : last[c] # Nobody /\ last[c] \notin crowded =>
    /\ \A q \in Requests \ {last[c]} : Ip(q) = c => ~Busy(q)
    /\ pc[last[c]] \in {"sending", "asking"} => sessions[c] = "pending"
    /\ answer[last[c]] = "list" => sessions[c] = "accepted"

\* A pending session has somebody who will end it.
Pending ==
  \A c \in Clients :
    /\ sessions[c] = "pending"
    /\ \A r \in Requests : answer[r] # "gone declined"
    => \E r \in Requests : Busy(r) /\ Ip(r) = c

-----------------------------------------------------------------------------
(* Archives *)

\* What is kept of an archive.
ZipFields == {"files", "phase", "index", "written", "crc", "crcs", "pos", "heads"}

\* The checksums of the entries.
CrcsOf(files) == [i \in 1 .. Len(files) |-> CrcOf(Content(files[i]))]

\* The first k elements of a sequence.
First(s, k) == [i \in 1 .. k |-> s[i]]

\* Where the content of the entry that is written begins.
ContentAt(z) ==
  Plan[z.files].offsets[z.index] + LocalHeaderLen(Plan[z.files].entries[z.index], Plan[z.files].zip64)

\* What has been written of an archive is what its plan says: the bytes up to pos, the local
\* headers heads at the offsets, and the checksums crcs of the contents that are complete.
Streamed(z) ==
  LET p == Plan[z.files]
      n == Len(z.files)
  IN
  /\ DOMAIN z = ZipFields
  /\ z.files \in {Dedup(s) : s \in Selections} /\ z.files \in Seq(Files)
  /\ z.phase \in {"header", "ask", "wait", "copy"} => z.index \in 1 .. n
  /\ z.phase \in {"central", "complete"} => z.index = n + 1
  /\ z.phase \notin {"aborted", "gone"} => z.crcs = First(CrcsOf(z.files), z.index - 1)
  /\ z.phase \in {"header", "central", "complete"} => z.heads = First(p.offsets, z.index - 1)
  /\ z.phase \in {"ask", "wait", "copy"} => z.heads = First(p.offsets, z.index)
  /\ z.phase = "header" => z.pos = p.offsets[z.index]
  /\ z.phase \in {"ask", "wait"} => z.pos = ContentAt(z)
  /\ z.phase = "copy" => /\ z.written \in 0 .. FileSize[z.files[z.index]]
                         /\ z.crc = CrcAfter(Content(z.files[z.index]))[z.written]
                         /\ z.pos = ContentAt(z) + z.written
  /\ z.phase = "central" => z.pos = p.centralOffset
  /\ z.phase = "complete" => z.pos = p.totalLen
  /\ z.phase \in {"aborted", "gone"} => z.pos < p.totalLen

\* So it is for every archive underway.
Streaming == \A r \in Requests : zip[r] # NoZip => Streamed(zip[r])

IInv ==
  /\ TypeOK /\ Addressed /\ Granting /\ Passed
  /\ Concluded /\ Latest /\ Alone /\ Pending /\ Streaming

-----------------------------------------------------------------------------
(* Steps of requests *)

\* A request arrives: nobody else is concerned.
LEMMA ArriveFacts ==
  ASSUME RequestType, NEW r \in Requests, NEW record, NEW next, NEW ans,
         Arrive(r, record, next, ans), record.kind \in Kinds, record.ip \in Clients
  PROVE  /\ pc[r] = "idle" /\ req[r].kind = None
         /\ pc' = [pc EXCEPT ![r] = next] /\ answer' = [answer EXCEPT ![r] = ans]
         /\ req' = [req EXCEPT ![r] = req'[r]]
         /\ req'[r].kind = record.kind /\ req'[r].ip = record.ip
         /\ next # "done" => req'[r] = record
         /\ next = "done" => req'[r] \in [kind : Kinds, ip : Clients]
<1>1. pc[r] = "idle" /\ req[r].kind = None
  BY DEF Arrive, RequestType
<1>2. PICK kept : kept = IF next = "done" THEN [kind |-> record.kind, ip |-> record.ip] ELSE record
  OBVIOUS
<1>3. req' = [req EXCEPT ![r] = kept]
  BY <1>2 DEF Arrive
<1>4. req'[r] = kept
  BY <1>3 DEF RequestType
<1>5. kept.kind = record.kind /\ kept.ip = record.ip
  BY <1>2
<1>6. next = "done" => kept \in [kind : Kinds, ip : Clients]
  BY <1>2
<1>7. QED
  BY <1>1, <1>2, <1>3, <1>4, <1>5, <1>6 DEF Arrive

LEMMA FinishFacts ==
  ASSUME RequestType, NEW r \in Requests, NEW ans, Finish(r, ans), pc[r] # "idle"
  PROVE  /\ pc' = [pc EXCEPT ![r] = "done"] /\ answer' = [answer EXCEPT ![r] = ans]
         /\ reply' = [reply EXCEPT ![r] = None]
         /\ req' = [req EXCEPT ![r] = req'[r]]
         /\ req'[r] \in [kind : Kinds, ip : Clients]
         /\ req'[r].kind = req[r].kind /\ req'[r].ip = req[r].ip
<1>1. PICK kept : kept = [kind |-> req[r].kind, ip |-> req[r].ip]
  OBVIOUS
<1>2. req[r].kind \in Kinds /\ req[r].ip \in Clients
  <2>1. req[r] \in Record /\ req[r].kind # None
    BY DEF RequestType
  <2>2. QED
    BY <2>1 DEF Record, Kinds, NoRequest
<1>3. req' = [req EXCEPT ![r] = kept]
  BY <1>1 DEF Finish
<1>4. req'[r] = kept
  BY <1>3 DEF RequestType
<1>5. kept \in [kind : Kinds, ip : Clients] /\ kept.kind = req[r].kind /\ kept.ip = req[r].ip
  BY <1>1, <1>2
<1>6. QED
  BY <1>3, <1>4, <1>5 DEF Finish

Answers ==
  {None, "list", "refused", "failed", "gone", "gone declined", "content", "archive", "handed"}

\* What a request at an await point knows.
Fits(phase, record) ==
  /\ phase = "idle" <=> record.kind = None
  /\ phase = "checked" => record.kind = "prepare"
  /\ phase \in {"sending", "asking"} => record.kind \in {"prepare", "download"}
  /\ phase = "sending" /\ record.kind = "download" => record.file \in Files
  /\ phase = "body" => record.kind \in {"zip", "upload"}
  /\ phase = "body" /\ record.kind = "zip" => record.files \in Selections

\* What a step that concerns one request has to see to.
LEMMA OneRequest ==
  ASSUME RequestType, NEW r \in Requests, NEW next \in Phases, NEW ans \in Answers,
         pc' = [pc EXCEPT ![r] = next], answer' = [answer EXCEPT ![r] = ans],
         req' = [req EXCEPT ![r] = req'[r]], req'[r] \in Record, Fits(next, req'[r]),
         reply' \in [Requests -> Replies], clears' \in SUBSET Requests
  PROVE  RequestType'
<1>1. PICK record \in Record : record = req'[r]
  OBVIOUS
<1>2. req' = [req EXCEPT ![r] = record] /\ Fits(next, record)
  BY <1>1
<1>3. /\ req' \in [Requests -> Record] /\ pc' \in [Requests -> Phases]
      /\ answer' \in [Requests -> Answers]
  BY <1>2 DEF RequestType, Answers
<1>4. ASSUME NEW q \in Requests PROVE Fits(pc'[q], req'[q])
  <2>1. CASE q = r
    BY <2>1, <1>2 DEF RequestType, Fits
  <2>2. CASE q # r
    <3>1. pc'[q] = pc[q] /\ req'[q] = req[q]
      BY <2>2, <1>2 DEF RequestType
    <3>2. Fits(pc[q], req[q])
      BY DEF RequestType, Fits
    <3>3. QED
      BY <3>1, <3>2
  <2>3. QED
    BY <2>1, <2>2
<1>5. QED
  BY <1>3, <1>4 DEF RequestType, Answers, Fits

LEMMA ArriveType ==
  ASSUME RequestType, NEW r \in Requests, NEW record \in Record \ {NoRequest},
         NEW next \in Phases \ {"idle"}, NEW ans \in Answers,
         Arrive(r, record, next, ans), Fits(next, record), UNCHANGED <<reply, clears>>
  PROVE  RequestType'
<1>1. record.kind \in Kinds /\ record.ip \in Clients /\ record.kind # None
  BY DEF Record, Kinds, None
<1>2. req'[r] \in Record /\ Fits(next, req'[r])
  <2>1. CASE next = "done"
    <3>1. req'[r] \in [kind : Kinds, ip : Clients] /\ req'[r].kind = record.kind
      BY <2>1, <1>1, ArriveFacts
    <3>2. QED
      BY <2>1, <3>1, <1>1 DEF Fits, Record
  <2>2. CASE next # "done"
    <3>1. req'[r] = record
      BY <2>2, <1>1, ArriveFacts
    <3>2. QED
      BY <3>1
  <2>3. QED
    BY <2>1, <2>2
<1>3. /\ pc' = [pc EXCEPT ![r] = next] /\ answer' = [answer EXCEPT ![r] = ans]
      /\ req' = [req EXCEPT ![r] = req'[r]]
  BY <1>1, ArriveFacts
<1>4. reply' \in [Requests -> Replies] /\ clears' \in SUBSET Requests
  BY DEF RequestType
<1>5. QED
  BY <1>2, <1>3, <1>4, OneRequest

LEMMA FinishType ==
  ASSUME RequestType, NEW r \in Requests, NEW ans \in Answers, pc[r] # "idle",
         Finish(r, ans), clears' \in SUBSET Requests
  PROVE  RequestType'
<1>1. /\ pc' = [pc EXCEPT ![r] = "done"] /\ answer' = [answer EXCEPT ![r] = ans]
      /\ req' = [req EXCEPT ![r] = req'[r]] /\ req'[r] \in [kind : Kinds, ip : Clients]
  BY FinishFacts
<1>2. req'[r] \in Record /\ Fits("done", req'[r])
  BY <1>1 DEF Record, Fits, Kinds, None
<1>3. reply' \in [Requests -> Replies] /\ "done" \in Phases
  BY FinishFacts DEF RequestType, Phases, Replies
<1>4. QED
  BY <1>1, <1>2, <1>3, OneRequest

\* A step from one await point to another.
LEMMA MoveType ==
  ASSUME RequestType, NEW r \in Requests, NEW next \in Phases,
         pc' = [pc EXCEPT ![r] = next], Fits(next, req[r]),
         reply' \in [Requests -> Replies], UNCHANGED <<req, answer, clears>>
  PROVE  RequestType'
<1>1. answer' = [answer EXCEPT ![r] = answer[r]] /\ answer[r] \in Answers
  BY DEF RequestType, Answers
<1>2. req' = [req EXCEPT ![r] = req'[r]] /\ req'[r] = req[r] /\ req[r] \in Record
  BY DEF RequestType
<1>3. clears' \in SUBSET Requests
  BY DEF RequestType
<1>4. QED
  BY <1>1, <1>2, <1>3, OneRequest

LEMMA DeliverType ==
  ASSUME reply \in [Requests -> Replies], NEW r, NEW value \in Replies, Deliver(r, value)
  PROVE  reply' \in [Requests -> Replies]
  BY DEF Deliver

requestVars == <<req, pc, answer, reply, clears>>

LEMMA BrowserType == RequestType /\ Browser => RequestType'
<1> SUFFICES ASSUME RequestType, NEW r \in Requests, NEW c \in Clients, NEW sid \in Clients,
                    \/ \E pin \in {"right", "wrong", None} : PrepareDownload(r, c, sid, pin)
                    \/ \E f \in Files : Download(r, c, sid, f)
                    \/ \E fs \in Selections : DownloadZip(r, c, sid, fs)
                    \/ \E batch \in Announced : PrepareUpload(r, c, sid, batch)
                    \/ FileList(r, c, sid)
             PROVE  RequestType'
  BY DEF Browser
<1>0. /\ {"checked", "sending", "body", "done"} \subseteq Phases \ {"idle"}
      /\ {None, "list", "refused"} \subseteq Answers
  BY DEF Phases, Answers
<1>1. ASSUME NEW pin \in {"right", "wrong", None}, PrepareDownload(r, c, sid, pin) PROVE RequestType'
  <2>1. PICK record : record = [kind |-> "prepare", ip |-> c]
    OBVIOUS
  <2>2. record \in Record \ {NoRequest} /\ Fits("done", record) /\ Fits("checked", record)
    BY <2>1 DEF Record, Kinds, NoRequest, None, Fits
  <2>3. CheckPin(c, pin).ans \in {None, "refused"}
    BY DEF CheckPin
  <2>4. \E next \in {"checked", "done"}, ans \in {None, "list", "refused"} : Arrive(r, record, next, ans)
    <3>1. CASE Valid(sid, c)
      BY <1>1, <2>1, <3>1 DEF PrepareDownload
    <3>2. CASE ~Valid(sid, c)
      BY <1>1, <2>1, <2>3, <3>2 DEF PrepareDownload
    <3>3. QED
      BY <3>1, <3>2
  <2>5. UNCHANGED <<reply, clears>>
    BY <1>1 DEF PrepareDownload
  <2>6. QED
    BY <1>0, <2>2, <2>4, <2>5, ArriveType
<1>2. ASSUME NEW f \in Files, Download(r, c, sid, f) PROVE RequestType'
  <2>1. PICK record : record = [kind |-> "download", ip |-> c, file |-> f]
    OBVIOUS
  <2>2. record \in Record \ {NoRequest} /\ Fits("done", record) /\ Fits("sending", record)
    BY <2>1 DEF Record, Kinds, NoRequest, None, Fits
  <2>3. \E next \in {"sending", "done"}, ans \in {None, "refused"} : Arrive(r, record, next, ans)
    BY <1>2, <2>1 DEF Download
  <2>4. UNCHANGED <<reply, clears>>
    BY <1>2 DEF Download
  <2>5. QED
    BY <1>0, <2>2, <2>3, <2>4, ArriveType
<1>3. ASSUME NEW record \in Record \ {NoRequest}, BeginBody(r, c, sid, record), BodyFrame,
             Fits("body", record), Fits("done", record)
      PROVE  RequestType'
  <2>1. \E next \in {"body", "done"}, ans \in {None, "refused"} : Arrive(r, record, next, ans)
    BY <1>3 DEF BeginBody
  <2>2. UNCHANGED <<reply, clears>>
    BY <1>3 DEF BodyFrame
  <2>3. QED
    BY <1>0, <1>3, <2>1, <2>2, ArriveType
<1>4. ASSUME NEW fs \in Selections, DownloadZip(r, c, sid, fs) PROVE RequestType'
  <2>1. PICK record : record = [kind |-> "zip", ip |-> c, files |-> fs]
    OBVIOUS
  <2>2. record \in Record \ {NoRequest} /\ Fits("done", record) /\ Fits("body", record)
    BY <2>1 DEF Record, Kinds, NoRequest, None, Fits
  <2>3. QED
    BY <1>3, <1>4, <2>1, <2>2 DEF DownloadZip
<1>5. ASSUME NEW batch \in Announced, PrepareUpload(r, c, sid, batch) PROVE RequestType'
  <2>1. PICK record : record = [kind |-> "upload", ip |-> c, batch |-> batch]
    OBVIOUS
  <2>2. record \in Record \ {NoRequest} /\ Fits("done", record) /\ Fits("body", record)
    BY <2>1 DEF Record, Kinds, NoRequest, None, Fits
  <2>3. QED
    BY <1>3, <1>5, <2>1, <2>2 DEF PrepareUpload
<1>6. ASSUME FileList(r, c, sid) PROVE RequestType'
  <2>1. PICK record : record = [kind |-> "files", ip |-> c]
    OBVIOUS
  <2>2. record \in Record \ {NoRequest} /\ Fits("done", record)
    BY <2>1 DEF Record, Kinds, NoRequest, None, Fits
  <2>3. \E ans \in {"list", "refused"} : Arrive(r, record, "done", ans)
    BY <1>6, <2>1 DEF FileList
  <2>4. UNCHANGED <<reply, clears>>
    BY <1>6 DEF FileList
  <2>5. QED
    BY <1>0, <2>2, <2>3, <2>4, ArriveType
<1>7. QED
  BY <1>1, <1>2, <1>4, <1>5, <1>6

LEMMA ServeType ==
  ASSUME RequestType, Addressed, NEW r \in Requests, Serve(r) \/ ClientGone(r)
  PROVE  RequestType'
<1>0. /\ \A q \in Requests : reply[q] \in Replies /\ req[q] \in Record /\ Fits(pc[q], req[q])
      /\ reply \in [Requests -> Replies]
      /\ {"sending", "asking", "clearing"} \subseteq Phases /\ "open" \in Replies
  <2>1. ASSUME NEW q \in Requests PROVE reply[q] \in Replies /\ req[q] \in Record /\ Fits(pc[q], req[q])
    BY DEF RequestType, Fits
  <2>2. QED
    BY <2>1 DEF RequestType, Phases, Replies
<1>1. ASSUME NEW ans \in Answers, Finish(r, ans), pc[r] # "idle", clears' \in SUBSET Requests
      PROVE  RequestType'
  BY <1>1, FinishType
<1>2. CASE InsertSession(r)
  <2>1. Fits("sending", req[r])
    BY <1>0, <1>2 DEF InsertSession, Fits
  <2>2. QED
    BY <1>0, <1>2, <2>1, MoveType DEF InsertSession
<1>3. CASE AskApp(r)
  <2>1. Fits("asking", req[r])
    BY <1>0, <1>3 DEF AskApp, Fits
  <2>2. reply' \in [Requests -> Replies]
    BY <1>0, <1>3 DEF AskApp
  <2>3. QED
    BY <1>0, <1>3, <2>1, <2>2, MoveType DEF AskApp
<1>4. CASE Declined(r)
  <2>1. Fits("clearing", req[r])
    BY <1>0, <1>4 DEF Declined, Fits
  <2>2. QED
    BY <1>0, <1>4, <2>1, MoveType DEF Declined
<1>5. CASE AskFails(r)
  <2>1. clears' \in SUBSET Requests
    BY <1>5 DEF AskFails, DropGuard, RequestType
  <2>2. QED
    BY <1>1, <1>5, <2>1 DEF AskFails, Answers
<1>6. CASE Accepted(r) \/ ClearDeclined(r) \/ ContentArrives(r) \/ StartZip(r) \/ FinishUpload(r)
  <2>1. clears' \in SUBSET Requests /\ pc[r] # "idle"
    BY <1>6 DEF Accepted, ClearDeclined, ContentArrives, StartZip, FinishUpload, RequestType
  <2>2. \E ans \in {"list", "refused", "content", "archive", "handed"} : Finish(r, ans)
    <3>1. CASE Accepted(r) \/ ClearDeclined(r) \/ ContentArrives(r)
      BY <3>1 DEF Accepted, ClearDeclined, ContentArrives
    <3>2. CASE StartZip(r)
      BY <3>2 DEF StartZip
    <3>3. CASE FinishUpload(r)
      BY <3>3 DEF FinishUpload
    <3>4. QED
      BY <1>6, <3>1, <3>2, <3>3
  <2>3. QED
    BY <1>1, <2>1, <2>2 DEF Answers
<1>7. CASE ClearDropped(r)
  <2>1. clears' \in SUBSET Requests
    BY <1>7 DEF ClearDropped, RequestType
  <2>2. QED
    BY <1>7, <2>1 DEF ClearDropped, RequestType
<1>8. CASE ClientGone(r)
  <2>1. clears' \in SUBSET Requests /\ pc[r] # "idle"
    BY <1>8 DEF ClientGone, DropGuard, RequestType
  <2>2. \E ans \in {"gone", "gone declined"} : Finish(r, ans)
    BY <1>8 DEF ClientGone
  <2>3. QED
    BY <1>1, <2>1, <2>2 DEF Answers
<1>9. \/ InsertSession(r) \/ AskApp(r) \/ Declined(r) \/ AskFails(r) \/ ClearDropped(r) \/ ClientGone(r)
      \/ Accepted(r) \/ ClearDeclined(r) \/ ContentArrives(r) \/ StartZip(r) \/ FinishUpload(r)
  BY DEF Serve
<1>10. QED
  BY <1>2, <1>3, <1>4, <1>5, <1>6, <1>7, <1>8, <1>9

\* The kinds of steps.
Quiet ==
  \/ \E r \in Requests : StreamZip(r) \/ ZipChunk(r) \/ ZipGone(r)
  \/ HandleWebEvent
  \/ \E cmd \in commands : Respond(cmd)
  \/ OnPrepareDownload \/ OnFileDownload
  \/ \E c \in Clients : AcceptRequest(c) \/ DeclineRequest(c)
  \/ \E f \in Files : ChangeFiles(f)

LEMMA StepKinds ==
  [Next]_vars => \/ Browser \/ Quiet \/ UNCHANGED vars
                 \/ \E r \in Requests : Serve(r) \/ ClientGone(r)
  BY DEF Next, Progress, Quiet

\* The steps that only change what a responder delivers, and those that do not concern
\* requests at all.
LEMMA QuietSteps ==
  ASSUME TypeOK, Quiet
  PROVE  /\ UNCHANGED <<sessions, attempts, req, pc, answer, clears, last, crowded>>
         /\ reply' \in [Requests -> Replies]
<1>0. reply \in [Requests -> Replies] /\ {"yes", "no", "content", "dropped", "open"} \subseteq Replies
  BY DEF TypeOK, RequestType, Replies
<1>1. ASSUME NEW r \in Requests, StreamZip(r) \/ ZipChunk(r) \/ ZipGone(r)
      PROVE  UNCHANGED <<sessions, attempts, req, pc, answer, clears, last, crowded>>
             /\ reply' \in [Requests -> Replies]
  <2>1. UNCHANGED <<sessions, attempts, req, pc, answer, clears, last, crowded>>
    BY <1>1 DEF StreamZip, ZipHeader, ZipAsk, ZipContent, ZipEof, ZipCentral, ZipChunk, ZipGone,
                ZipFrame, history
  <2>2. UNCHANGED reply \/ reply' = [reply EXCEPT ![r] = "open"]
    BY <1>1 DEF StreamZip, ZipHeader, ZipAsk, ZipContent, ZipEof, ZipCentral, ZipChunk, ZipGone
  <2>3. QED
    BY <1>0, <2>1, <2>2
<1>2. CASE HandleWebEvent
  <2>1. UNCHANGED <<sessions, attempts, req, pc, answer, clears, last, crowded>>
    BY <1>2 DEF HandleWebEvent, BridgeFrame, history
  <2>2. \E r : Deliver(r, "dropped")
    BY <1>2 DEF HandleWebEvent
  <2>3. QED
    BY <1>0, <2>1, <2>2, DeliverType
<1>3. ASSUME NEW cmd \in commands, Respond(cmd)
      PROVE  UNCHANGED <<sessions, attempts, req, pc, answer, clears, last, crowded>>
             /\ reply' \in [Requests -> Replies]
  <2>1. UNCHANGED <<sessions, attempts, req, pc, answer, clears, last, crowded>>
    BY <1>3 DEF Respond, RespondPrepareDownload, RespondFileDownload, SetFiles, BridgeFrame, history
  <2>2. \/ UNCHANGED reply
        \/ \E value \in {"yes", "no", "content", "dropped"} : \E r : Deliver(r, value)
    <3>1. CASE RespondPrepareDownload(cmd)
      BY <3>1 DEF RespondPrepareDownload
    <3>2. CASE RespondFileDownload(cmd)
      BY <3>2 DEF RespondFileDownload
    <3>3. CASE SetFiles(cmd)
      BY <3>3 DEF SetFiles
    <3>4. QED
      BY <1>3, <3>1, <3>2, <3>3 DEF Respond
  <2>3. QED
    BY <1>0, <2>1, <2>2, DeliverType
<1>4. CASE \/ OnPrepareDownload \/ OnFileDownload
           \/ \E c \in Clients : AcceptRequest(c) \/ DeclineRequest(c)
           \/ \E f \in Files : ChangeFiles(f)
  <2>1. UNCHANGED serverVars /\ UNCHANGED <<last, crowded>>
    BY <1>4 DEF OnPrepareDownload, OnFileDownload, AcceptRequest, DeclineRequest, ChangeFiles, AppFrame
  <2>2. QED
    BY <1>0, <2>1 DEF serverVars
<1>5. QED
  BY <1>1, <1>2, <1>3, <1>4 DEF Quiet

LEMMA RequestTypeStep ==
  ASSUME TypeOK, Addressed, [Next]_vars
  PROVE  RequestType'
<1>1. ASSUME UNCHANGED <<req, pc, answer, clears>>, reply' \in [Requests -> Replies] PROVE RequestType'
  BY <1>1 DEF TypeOK, RequestType
<1>2. CASE Browser
  BY <1>2, BrowserType DEF TypeOK
<1>3. ASSUME NEW r \in Requests, Serve(r) \/ ClientGone(r) PROVE RequestType'
  BY <1>3, ServeType DEF TypeOK
<1>4. CASE UNCHANGED vars
  BY <1>1, <1>4 DEF vars, serverVars, TypeOK, RequestType
<1>5. CASE Quiet
  BY <1>1, <1>5, QuietSteps
<1>6. QED
  BY <1>2, <1>3, <1>4, <1>5, StepKinds

\* A request arrives from a client: of everything but the count of failed PINs only its
\* own entries change.
ArrivesFrom(r, c) ==
  /\ pc[r] = "idle" /\ req[r].kind = None
  /\ pc' = [pc EXCEPT ![r] = pc'[r]] /\ answer' = [answer EXCEPT ![r] = answer'[r]]
  /\ req' = [req EXCEPT ![r] = req'[r]] /\ req'[r].ip = c
  /\ UNCHANGED <<offered, sessions, reply, clears, zip, bridgeVars, appVars, history>>

LEMMA BrowserSteps ==
  ASSUME RequestType, Browser
  PROVE  \E r \in Requests, c \in Clients :
           /\ ArrivesFrom(r, c)
           /\ \/ /\ req'[r].kind = "prepare"
                 /\ \/ pc'[r] = "checked" /\ answer'[r] = None
                    \/ pc'[r] = "done" /\ answer'[r] \in {"list", "refused"}
              \/ /\ req'[r].kind \in {"download", "zip", "upload", "files"}
                 /\ \/ pc'[r] \in {"sending", "body"} /\ answer'[r] = None /\ sessions[c] = "accepted"
                    \/ pc'[r] = "done" /\ answer'[r] \in {"list", "refused"}
<1>1. PICK r \in Requests, c \in Clients, sid \in Clients :
        \/ \E pin \in {"right", "wrong", None} : PrepareDownload(r, c, sid, pin)
        \/ \E f \in Files : Download(r, c, sid, f)
        \/ \E fs \in Selections : DownloadZip(r, c, sid, fs)
        \/ \E batch \in Announced : PrepareUpload(r, c, sid, batch)
        \/ FileList(r, c, sid)
  BY DEF Browser
<1>2. UNCHANGED <<offered, sessions, reply, clears, zip, bridgeVars, appVars, history>>
  BY <1>1 DEF PrepareDownload, Download, DownloadZip, PrepareUpload, BeginBody, BodyFrame, FileList
<1>3. ASSUME NEW record, NEW next, NEW ans, Arrive(r, record, next, ans),
             record.kind \in Kinds, record.ip = c
      PROVE  /\ ArrivesFrom(r, c) /\ req'[r].kind = record.kind
             /\ pc'[r] = next /\ answer'[r] = ans
  <2>1. /\ pc[r] = "idle" /\ req[r].kind = None
        /\ pc' = [pc EXCEPT ![r] = next] /\ answer' = [answer EXCEPT ![r] = ans]
        /\ req' = [req EXCEPT ![r] = req'[r]]
        /\ req'[r].kind = record.kind /\ req'[r].ip = c
    BY <1>3, ArriveFacts
  <2>2. pc'[r] = next /\ answer'[r] = ans
    BY <2>1 DEF RequestType
  <2>3. QED
    BY <1>2, <2>1, <2>2 DEF ArrivesFrom
<1>4. ASSUME NEW pin \in {"right", "wrong", None}, PrepareDownload(r, c, sid, pin)
      PROVE  /\ ArrivesFrom(r, c) /\ req'[r].kind = "prepare"
             /\ \/ pc'[r] = "checked" /\ answer'[r] = None
                \/ pc'[r] = "done" /\ answer'[r] \in {"list", "refused"}
  <2>1. PICK record : record = [kind |-> "prepare", ip |-> c]
    OBVIOUS
  <2>2. CheckPin(c, pin).ans \in {None, "refused"}
    BY DEF CheckPin
  <2>3. \E next \in {"checked", "done"}, ans \in {None, "list", "refused"} :
          Arrive(r, record, next, ans) /\ (next = "checked" <=> ans = None)
    <3>1. CASE Valid(sid, c)
      BY <1>4, <2>1, <3>1 DEF PrepareDownload, None
    <3>2. CASE ~Valid(sid, c)
      BY <1>4, <2>1, <2>2, <3>2 DEF PrepareDownload, None
    <3>3. QED
      BY <3>1, <3>2
  <2>4. record.kind \in Kinds /\ record.kind = "prepare" /\ record.ip = c
    BY <2>1 DEF Kinds
  <2>5. QED
    BY <1>3, <2>3, <2>4
<1>5. ASSUME NEW record, NEW allowed \in BOOLEAN, NEW next \in {"sending", "body"},
             Arrive(r, record, IF allowed THEN next ELSE "done", IF allowed THEN None ELSE "refused"),
             record.kind \in {"download", "zip", "upload"}, record.ip = c, allowed => Valid(sid, c)
      PROVE  /\ ArrivesFrom(r, c) /\ req'[r].kind \in {"download", "zip", "upload"}
             /\ \/ pc'[r] \in {"sending", "body"} /\ answer'[r] = None /\ sessions[c] = "accepted"
                \/ pc'[r] = "done" /\ answer'[r] \in {"list", "refused"}
  <2>1. record.kind \in Kinds
    BY <1>5 DEF Kinds
  <2>2. CASE allowed
    <3>1. sessions[c] = "accepted"
      BY <1>5, <2>2 DEF Valid
    <3>2. Arrive(r, record, next, None)
      BY <1>5, <2>2
    <3>3. QED
      BY <1>3, <1>5, <2>1, <3>1, <3>2
  <2>3. CASE ~allowed
    <3>1. Arrive(r, record, "done", "refused")
      BY <1>5, <2>3
    <3>2. QED
      BY <1>3, <1>5, <2>1, <3>1
  <2>4. QED
    BY <2>2, <2>3
<1>6. ASSUME NEW f \in Files, Download(r, c, sid, f)
      PROVE  /\ ArrivesFrom(r, c) /\ req'[r].kind \in {"download", "zip", "upload"}
             /\ \/ pc'[r] \in {"sending", "body"} /\ answer'[r] = None /\ sessions[c] = "accepted"
                \/ pc'[r] = "done" /\ answer'[r] \in {"list", "refused"}
  <2>1. PICK record : record = [kind |-> "download", ip |-> c, file |-> f]
    OBVIOUS
  <2>2. PICK allowed \in BOOLEAN : allowed <=> Valid(sid, c) /\ f \in offered
    OBVIOUS
  <2>3. Arrive(r, record, IF allowed THEN "sending" ELSE "done", IF allowed THEN None ELSE "refused")
    BY <1>6, <2>1, <2>2 DEF Download
  <2>4. record.kind = "download" /\ record.ip = c
    BY <2>1
  <2>5. QED
    BY <1>5, <2>2, <2>3, <2>4
<1>7. ASSUME NEW record, BeginBody(r, c, sid, record), record.kind \in {"zip", "upload"}, record.ip = c
      PROVE  /\ ArrivesFrom(r, c) /\ req'[r].kind \in {"download", "zip", "upload"}
             /\ \/ pc'[r] \in {"sending", "body"} /\ answer'[r] = None /\ sessions[c] = "accepted"
                \/ pc'[r] = "done" /\ answer'[r] \in {"list", "refused"}
  <2>1. PICK allowed \in BOOLEAN : allowed <=> Valid(sid, c)
    OBVIOUS
  <2>2. Arrive(r, record, IF allowed THEN "body" ELSE "done", IF allowed THEN None ELSE "refused")
    BY <1>7, <2>1 DEF BeginBody
  <2>3. QED
    BY <1>5, <1>7, <2>1, <2>2
<1>8. ASSUME NEW fs \in Selections, DownloadZip(r, c, sid, fs)
      PROVE  /\ ArrivesFrom(r, c) /\ req'[r].kind \in {"download", "zip", "upload"}
             /\ \/ pc'[r] \in {"sending", "body"} /\ answer'[r] = None /\ sessions[c] = "accepted"
                \/ pc'[r] = "done" /\ answer'[r] \in {"list", "refused"}
  BY <1>7, <1>8 DEF DownloadZip
<1>9. ASSUME NEW batch \in Announced, PrepareUpload(r, c, sid, batch)
      PROVE  /\ ArrivesFrom(r, c) /\ req'[r].kind \in {"download", "zip", "upload"}
             /\ \/ pc'[r] \in {"sending", "body"} /\ answer'[r] = None /\ sessions[c] = "accepted"
                \/ pc'[r] = "done" /\ answer'[r] \in {"list", "refused"}
  BY <1>7, <1>9 DEF PrepareUpload
<1>10. ASSUME FileList(r, c, sid)
       PROVE  ArrivesFrom(r, c) /\ req'[r].kind = "files" /\ pc'[r] = "done" /\ answer'[r] \in {"list", "refused"}
  <2>1. PICK record : record = [kind |-> "files", ip |-> c]
    OBVIOUS
  <2>2. \E ans \in {"list", "refused"} : Arrive(r, record, "done", ans)
    BY <1>10, <2>1 DEF FileList
  <2>3. record.kind \in Kinds /\ record.kind = "files" /\ record.ip = c
    BY <2>1 DEF Kinds
  <2>4. QED
    BY <1>3, <2>2, <2>3
<1>11. QED
  BY <1>1, <1>4, <1>6, <1>8, <1>9, <1>10

\* A request is served: only its own entries change, and it stays who it is.
LEMMA ServeSteps ==
  ASSUME TypeOK, NEW r \in Requests, Serve(r) \/ ClientGone(r)
  PROVE  /\ pc[r] # "idle" \/ r \in clears
         /\ pc' = [pc EXCEPT ![r] = pc'[r]] /\ answer' = [answer EXCEPT ![r] = answer'[r]]
         /\ req' = [req EXCEPT ![r] = req'[r]]
         /\ reply' = [reply EXCEPT ![r] = reply'[r]] /\ reply'[r] \in {reply[r], None, "open"}
         /\ req'[r].kind = req[r].kind /\ req'[r].ip = req[r].ip
         /\ UNCHANGED <<offered, attempts, decisions, downloads, inbox, commands, appVars, granted>>
<1>0. /\ pc \in [Requests -> Phases] /\ answer \in [Requests -> Answers]
      /\ req \in [Requests -> Record] /\ reply \in [Requests -> Replies]
  BY DEF TypeOK, RequestType, Answers
<1>1. UNCHANGED <<offered, attempts, decisions, downloads, inbox, commands, appVars, granted>>
  BY DEF Serve, InsertSession, AskApp, AskFails, Accepted, Declined, ClearDeclined, ClearDropped,
         ClientGone, ContentArrives, StartZip, FinishUpload, bridgeVars, history
<1>2. ASSUME NEW ans, Finish(r, ans), pc[r] # "idle"
      PROVE  /\ pc' = [pc EXCEPT ![r] = pc'[r]] /\ answer' = [answer EXCEPT ![r] = answer'[r]]
             /\ req' = [req EXCEPT ![r] = req'[r]]
             /\ reply' = [reply EXCEPT ![r] = reply'[r]] /\ reply'[r] \in {reply[r], None, "open"}
             /\ req'[r].kind = req[r].kind /\ req'[r].ip = req[r].ip
  <2>1. /\ pc' = [pc EXCEPT ![r] = "done"] /\ answer' = [answer EXCEPT ![r] = ans]
        /\ reply' = [reply EXCEPT ![r] = None] /\ req' = [req EXCEPT ![r] = req'[r]]
        /\ req'[r].kind = req[r].kind /\ req'[r].ip = req[r].ip
    BY <1>2, FinishFacts DEF TypeOK
  <2>2. QED
    BY <1>0, <2>1
<1>3. CASE InsertSession(r) \/ AskApp(r) \/ Declined(r) \/ ClearDropped(r)
  <2>1. UNCHANGED <<req, answer>> /\ (pc[r] # "idle" \/ r \in clears)
    BY <1>3 DEF InsertSession, AskApp, Declined, ClearDropped
  <2>2. /\ UNCHANGED pc \/ \E next : pc' = [pc EXCEPT ![r] = next]
        /\ UNCHANGED reply \/ reply' = [reply EXCEPT ![r] = "open"]
    BY <1>3 DEF InsertSession, AskApp, Declined, ClearDropped
  <2>3. pc' = [pc EXCEPT ![r] = pc'[r]] /\ answer' = [answer EXCEPT ![r] = answer'[r]]
    BY <1>0, <2>1, <2>2
  <2>4. reply' = [reply EXCEPT ![r] = reply'[r]] /\ reply'[r] \in {reply[r], None, "open"}
    BY <1>0, <2>2
  <2>5. req' = [req EXCEPT ![r] = req'[r]] /\ req'[r].kind = req[r].kind /\ req'[r].ip = req[r].ip
    BY <1>0, <2>1
  <2>6. QED
    BY <1>1, <2>1, <2>3, <2>4, <2>5
<1>4. CASE AskFails(r) \/ Accepted(r) \/ ClearDeclined(r) \/ ContentArrives(r) \/ StartZip(r)
           \/ FinishUpload(r) \/ ClientGone(r)
  <2>1. pc[r] # "idle" /\ \E ans : Finish(r, ans)
    BY <1>4 DEF AskFails, Accepted, ClearDeclined, ContentArrives, StartZip, FinishUpload, ClientGone
  <2>2. QED
    BY <1>1, <1>2, <2>1
<1>5. QED
  BY <1>3, <1>4 DEF Serve

\* Once a request arrived it stays who it is.
LEMMA StaysItself ==
  ASSUME TypeOK, [Next]_vars, NEW r \in Requests, req[r].kind # None
  PROVE  req'[r].kind = req[r].kind /\ req'[r].ip = req[r].ip
<1>0. req \in [Requests -> Record]
  BY DEF TypeOK, RequestType
<1>1. CASE Browser
  <2>1. PICK q \in Requests : req[q].kind = None /\ req' = [req EXCEPT ![q] = req'[q]]
    BY <1>1, BrowserSteps DEF TypeOK, ArrivesFrom
  <2>2. q # r
    BY <2>1
  <2>3. req'[r] = req[r]
    BY <1>0, <2>1, <2>2
  <2>4. QED
    BY <2>3
<1>2. CASE Quiet
  BY <1>2, QuietSteps
<1>3. CASE UNCHANGED vars
  BY <1>3 DEF vars, serverVars
<1>4. ASSUME NEW q \in Requests, Serve(q) \/ ClientGone(q)
      PROVE  req'[r].kind = req[r].kind /\ req'[r].ip = req[r].ip
  <2>1. req' = [req EXCEPT ![q] = req'[q]] /\ req'[q].kind = req[q].kind /\ req'[q].ip = req[q].ip
    BY <1>4, ServeSteps
  <2>2. CASE q = r
    BY <2>1, <2>2
  <2>3. CASE q # r
    <3>1. req'[r] = req[r]
      BY <1>0, <2>1, <2>3
    <3>2. QED
      BY <3>1
  <2>4. QED
    BY <2>2, <2>3
<1>5. QED
  BY <1>1, <1>2, <1>3, <1>4, StepKinds

LEMMA SessionTypeStep ==
  ASSUME TypeOK, Addressed, [Next]_vars
  PROVE  SessionType'
<1> USE DEF SessionType
<1>0. SessionType /\ Nobody \notin Requests
  BY DEF TypeOK, Nobody, Requests
<1>1. CASE Browser
  <2>1. UNCHANGED <<offered, sessions, bridgeVars, appVars, history>>
    BY <1>1, BrowserSteps DEF TypeOK, ArrivesFrom
  <2>2. attempts' \in [Clients -> Nat]
    <3>1. PICK r \in Requests, c \in Clients, sid \in Clients :
            \/ \E pin \in {"right", "wrong", None} : PrepareDownload(r, c, sid, pin)
            \/ UNCHANGED attempts
      <4>1. PICK r \in Requests, c \in Clients, sid \in Clients :
              \/ \E pin \in {"right", "wrong", None} : PrepareDownload(r, c, sid, pin)
              \/ \E f \in Files : Download(r, c, sid, f)
              \/ \E fs \in Selections : DownloadZip(r, c, sid, fs)
              \/ \E batch \in Announced : PrepareUpload(r, c, sid, batch)
              \/ FileList(r, c, sid)
        BY <1>1 DEF Browser
      <4>2. \/ \E pin \in {"right", "wrong", None} : PrepareDownload(r, c, sid, pin)
            \/ UNCHANGED attempts
        BY <4>1 DEF Download, DownloadZip, PrepareUpload, BeginBody, BodyFrame, FileList
      <4>3. QED
        BY <4>2
    <3>2. ASSUME NEW pin \in {"right", "wrong", None} PROVE CheckPin(c, pin).count \in Nat
      <4>1. attempts[c] \in Nat
        BY <1>0
      <4>2. CheckPin(c, pin).count \in {attempts[c], 0, attempts[c] + 1}
        BY DEF CheckPin, None
      <4>3. QED
        BY <4>1, <4>2
    <3>3. ASSUME NEW pin \in {"right", "wrong", None}, PrepareDownload(r, c, sid, pin)
          PROVE  attempts' \in [Clients -> Nat]
      <4>1. PICK n \in Nat : n = CheckPin(c, pin).count
        BY <3>2
      <4>2. UNCHANGED attempts \/ attempts' = [attempts EXCEPT ![c] = n]
        BY <3>3, <4>1 DEF PrepareDownload
      <4>3. QED
        BY <1>0, <4>2
    <3>4. QED
      BY <1>0, <3>1, <3>3
  <2>3. QED
    BY <1>0, <2>1, <2>2 DEF appVars, history
<1>2. ASSUME NEW r \in Requests, Serve(r) \/ ClientGone(r) PROVE SessionType'
  <2>1. UNCHANGED <<offered, attempts, appVars, granted>>
    BY <1>2, ServeSteps
  <2>2. \/ UNCHANGED <<sessions, last, crowded>>
        \/ \E state \in {None, "pending", "accepted"} :
             sessions' = [sessions EXCEPT ![Ip(r)] = state] /\ UNCHANGED <<last, crowded>>
        \/ InsertSession(r)
    <3>1. sessions[Ip(r)] \in {None, "pending", "accepted"} \/ Ip(r) \notin Clients
      BY <1>0
    <3>2. CASE Accepted(r) \/ ClearDeclined(r) \/ ClearDropped(r)
      <4>1. UNCHANGED history
        BY <3>2 DEF Accepted, ClearDeclined, ClearDropped
      <4>2. \E state : /\ sessions' = [sessions EXCEPT ![Ip(r)] = state]
                       /\ state \in {None, "accepted", sessions[Ip(r)]}
        BY <3>2 DEF Accepted, ClearDeclined, ClearDropped, ClearPendingSession
      <4>3. CASE Ip(r) \in Clients
        BY <3>1, <4>1, <4>2, <4>3 DEF history
      <4>4. CASE Ip(r) \notin Clients
        BY <1>0, <4>1, <4>2, <4>4 DEF history
      <4>5. QED
        BY <4>3, <4>4
    <3>3. CASE AskApp(r) \/ AskFails(r) \/ Declined(r) \/ ContentArrives(r) \/ StartZip(r)
               \/ FinishUpload(r) \/ ClientGone(r)
      BY <3>3 DEF AskApp, AskFails, Declined, ContentArrives, StartZip, FinishUpload, ClientGone, history
    <3>4. QED
      BY <1>2, <3>2, <3>3 DEF Serve
  <2>3. CASE InsertSession(r)
    <3>1. PICK others \in SUBSET Requests : crowded' = crowded \cup others \cup {q \in {r} : others # {}}
      <4>1. {q \in Requests \ {r} : /\ req[q].kind = "prepare" /\ Ip(q) = Ip(r)
                                    /\ q \in clears \/ pc[q] \in {"sending", "asking", "clearing"}}
              \in SUBSET Requests
        OBVIOUS
      <4>2. QED
        BY <2>3, <4>1 DEF InsertSession
    <3>2. /\ sessions' = [sessions EXCEPT ![Ip(r)] = "pending"]
          /\ last' = [last EXCEPT ![Ip(r)] = r]
      BY <2>3 DEF InsertSession
    <3>3. QED
      BY <1>0, <2>1, <3>1, <3>2 DEF appVars
  <2>4. QED
    BY <1>0, <2>1, <2>2, <2>3 DEF appVars
<1>3. CASE Quiet
  <2>1. UNCHANGED <<sessions, attempts, last, crowded>>
    BY <1>3, QuietSteps
  <2>2. ASSUME NEW r \in Requests, StreamZip(r) \/ ZipChunk(r) \/ ZipGone(r)
        PROVE  UNCHANGED <<offered, appVars, granted>>
    BY <2>2 DEF StreamZip, ZipHeader, ZipAsk, ZipContent, ZipEof, ZipCentral, ZipChunk, ZipGone,
                ZipFrame, history
  <2>3. CASE HandleWebEvent
    BY <2>3, <1>0, <2>1 DEF HandleWebEvent, BridgeFrame, history, appVars
  <2>4. ASSUME NEW cmd \in commands, Respond(cmd)
        PROVE  UNCHANGED <<appVars, granted>> /\ offered' \in SUBSET Files
    <3>1. UNCHANGED <<appVars, granted>> /\ (UNCHANGED offered \/ SetFiles(cmd))
      BY <2>4 DEF Respond, RespondPrepareDownload, RespondFileDownload, SetFiles, BridgeFrame, history
    <3>2. SetFiles(cmd) => offered' \in SUBSET Files
      <4>1. cmd \in Command
        BY DEF TypeOK, BridgeType
      <4>2. cmd.kind = "files" => cmd.files \in SUBSET Files
        BY <4>1 DEF Command
      <4>3. QED
        BY <4>2 DEF SetFiles
    <3>3. QED
      BY <1>0, <3>1, <3>2
  <2>5. CASE OnFileDownload
    BY <2>5, <1>0, <2>1 DEF OnFileDownload, AppFrame, serverVars
  <2>6. CASE OnPrepareDownload
    <3>1. Head(inbox).of \in Requests
      <4>1. Head(inbox) \in Event
        BY <2>6 DEF OnPrepareDownload, TypeOK, BridgeType
      <4>2. QED
        BY <4>1 DEF Event
    <3>2. PICK session \in [state : {"pending", "accepted"}, of : Requests] :
            app' = [app EXCEPT ![Ip(Head(inbox).of)] = session]
      BY <2>6, <3>1 DEF OnPrepareDownload
    <3>3. UNCHANGED <<offered, shared, changes, granted>>
      BY <2>6 DEF OnPrepareDownload, AppFrame, serverVars
    <3>4. QED
      BY <1>0, <2>1, <3>2, <3>3
  <2>7. ASSUME NEW c \in Clients, AcceptRequest(c) PROVE SessionType'
    <3>1. app[c] \in [state : {"pending", "accepted"}, of : Requests]
      BY <2>7, <1>0 DEF AcceptRequest, NoSession, None
    <3>2. PICK session \in [state : {"pending", "accepted"}, of : Requests] :
            app' = [app EXCEPT ![c] = session]
      BY <2>7, <3>1 DEF AcceptRequest
    <3>3. UNCHANGED <<offered, shared, changes>> /\ granted' = granted \cup {c}
      BY <2>7 DEF AcceptRequest, AppFrame, serverVars
    <3>4. QED
      BY <1>0, <2>1, <3>2, <3>3
  <2>8. ASSUME NEW c \in Clients, DeclineRequest(c) PROVE SessionType'
    BY <2>8, <1>0, <2>1 DEF DeclineRequest, AppFrame, serverVars
  <2>9. ASSUME NEW f \in Files, ChangeFiles(f) PROVE SessionType'
    <3>1. UNCHANGED <<offered, app, granted>> /\ changes' = changes + 1
      BY <2>9 DEF ChangeFiles, AppFrame, serverVars
    <3>2. shared' \in {shared \ {f}, shared \cup {f}}
      BY <2>9 DEF ChangeFiles
    <3>3. QED
      BY <1>0, <2>1, <3>1, <3>2
  <2>10. QED
    BY <1>0, <1>3, <2>1, <2>2, <2>3, <2>4, <2>5, <2>6, <2>7, <2>8, <2>9 DEF Quiet, appVars
<1>4. CASE UNCHANGED vars
  BY <1>0, <1>4 DEF vars, serverVars, appVars, history
<1>5. QED
  BY <1>1, <1>2, <1>3, <1>4, StepKinds

\* Steps that put nothing on the way between server, bridge and app.
LEMMA NoEvents ==
  ASSUME \/ Browser
         \/ \E r \in Requests :
              \/ InsertSession(r) \/ AskFails(r) \/ Accepted(r) \/ Declined(r) \/ ClearDeclined(r)
              \/ ClearDropped(r) \/ ContentArrives(r) \/ StartZip(r) \/ FinishUpload(r) \/ ClientGone(r)
              \/ ZipHeader(r) \/ ZipContent(r) \/ ZipEof(r) \/ ZipCentral(r) \/ ZipChunk(r) \/ ZipGone(r)
         \/ UNCHANGED vars
  PROVE  UNCHANGED bridgeVars
<1>1. CASE Browser
  <2>1. PICK r \in Requests, c \in Clients, sid \in Clients :
          \/ \E pin \in {"right", "wrong", None} : PrepareDownload(r, c, sid, pin)
          \/ \E f \in Files : Download(r, c, sid, f)
          \/ \E fs \in Selections : DownloadZip(r, c, sid, fs)
          \/ \E batch \in Announced : PrepareUpload(r, c, sid, batch)
          \/ FileList(r, c, sid)
    BY <1>1 DEF Browser
  <2>2. QED
    BY <2>1 DEF PrepareDownload, Download, DownloadZip, PrepareUpload, BeginBody, BodyFrame, FileList
<1>2. CASE UNCHANGED vars
  BY <1>2 DEF vars
<1>3. ASSUME NEW r \in Requests,
             \/ InsertSession(r) \/ AskFails(r) \/ Accepted(r) \/ Declined(r) \/ ClearDeclined(r)
             \/ ClearDropped(r) \/ ContentArrives(r) \/ StartZip(r) \/ FinishUpload(r) \/ ClientGone(r)
      PROVE  UNCHANGED bridgeVars
  BY <1>3 DEF InsertSession, AskFails, Accepted, Declined, ClearDeclined, ClearDropped, ContentArrives,
       StartZip, FinishUpload, ClientGone
<1>4. ASSUME NEW r \in Requests,
             ZipHeader(r) \/ ZipContent(r) \/ ZipEof(r) \/ ZipCentral(r) \/ ZipChunk(r) \/ ZipGone(r)
      PROVE  UNCHANGED bridgeVars
  BY <1>4 DEF ZipHeader, ZipContent, ZipEof, ZipCentral, ZipChunk, ZipGone
<1>5. QED
  BY <1>1, <1>2, <1>3, <1>4

\* The others.
LEMMA EventSteps ==
  [Next]_vars =>
    \/ UNCHANGED bridgeVars
    \/ \E r \in Requests : AskApp(r) \/ ZipAsk(r)
    \/ HandleWebEvent
    \/ \E cmd \in commands : Respond(cmd)
    \/ OnPrepareDownload \/ OnFileDownload
    \/ \E c \in Clients : AcceptRequest(c) \/ DeclineRequest(c)
    \/ \E f \in Files : ChangeFiles(f)
  BY NoEvents DEF Next, Progress, Serve, StreamZip

\* The bridge takes the first event.
LEMMA WebEvent ==
  ASSUME BridgeType, HandleWebEvent
  PROVE  \E e \in Event :
           /\ events # <<>> /\ e = Head(events) /\ e = events[1] /\ 1 \in DOMAIN events
           /\ events' = Tail(events) /\ inbox' = Append(inbox, e) /\ UNCHANGED commands
           /\ \/ /\ e.kind = "prepare" /\ UNCHANGED downloads
                 /\ Deliver(decisions[Ip(e.of)], "dropped")
                 /\ decisions' = [decisions EXCEPT ![Ip(e.of)] = e.of]
              \/ /\ e.kind = "download" /\ UNCHANGED decisions
                 /\ Deliver(downloads[<<Ip(e.of), e.file>>], "dropped")
                 /\ downloads' = [downloads EXCEPT ![<<Ip(e.of), e.file>>] = e.of]
<1>1. events \in Seq(Event) /\ events # <<>>
  BY DEF BridgeType, HandleWebEvent
<1>2. PICK e : e = Head(events)
  OBVIOUS
<1>3. e \in Event /\ e = events[1] /\ 1 \in DOMAIN events
  BY <1>1, <1>2
<1>4. /\ events' = Tail(events) /\ inbox' = Append(inbox, e) /\ UNCHANGED commands
      /\ \/ /\ e.kind = "prepare" /\ UNCHANGED downloads
            /\ Deliver(decisions[Ip(e.of)], "dropped")
            /\ decisions' = [decisions EXCEPT ![Ip(e.of)] = e.of]
         \/ /\ e.kind = "download" /\ UNCHANGED decisions
            /\ Deliver(downloads[<<Ip(e.of), e.file>>], "dropped")
            /\ downloads' = [downloads EXCEPT ![<<Ip(e.of), e.file>>] = e.of]
  BY <1>2 DEF HandleWebEvent
<1>5. QED
  BY <1>1, <1>2, <1>3, <1>4

LEMMA BridgeTypeStep ==
  ASSUME TypeOK, Addressed, [Next]_vars
  PROVE  BridgeType'
<1> USE DEF BridgeType
<1>0. BridgeType
  BY DEF TypeOK
<1>1. CASE UNCHANGED bridgeVars
  BY <1>0, <1>1 DEF bridgeVars
<1>2. ASSUME NEW event \in Event, Send(event), UNCHANGED <<decisions, downloads, inbox, commands>>
      PROVE  BridgeType'
  BY <1>0, <1>2 DEF Send
<1>3. ASSUME NEW r \in Requests, AskApp(r) PROVE BridgeType'
  <2>1. CASE req[r].kind = "prepare"
    <3>1. PICK event : event = [kind |-> "prepare", of |-> r]
      OBVIOUS
    <3>2. event \in Event
      BY <3>1 DEF Event
    <3>3. QED
      BY <1>2, <1>3, <2>1, <3>1, <3>2 DEF AskApp
  <2>2. CASE req[r].kind # "prepare"
    <3>1. PICK event : event = [kind |-> "download", of |-> r, file |-> req[r].file]
      OBVIOUS
    <3>2. req[r].file \in Files
      BY <1>3, <2>2 DEF AskApp, TypeOK, RequestType
    <3>3. event \in Event
      BY <3>1, <3>2 DEF Event
    <3>4. QED
      BY <1>2, <1>3, <2>2, <3>1, <3>3 DEF AskApp
  <2>3. QED
    BY <2>1, <2>2
<1>4. ASSUME NEW r \in Requests, ZipAsk(r) PROVE BridgeType'
  <2>1. PICK event : event = [kind |-> "download", of |-> r, file |-> zip[r].files[zip[r].index]]
    OBVIOUS
  <2>2. zip[r].files \in Seq(Files) /\ zip[r].index \in DOMAIN zip[r].files
    BY <1>4 DEF ZipAsk, ZipAt, TypeOK, ZipType, NoZip, None
  <2>3. event \in Event
    BY <2>1, <2>2 DEF Event
  <2>4. QED
    BY <1>2, <1>4, <2>1, <2>3 DEF ZipAsk
<1>5. CASE HandleWebEvent
  <2>1. PICK e \in Event :
          /\ events # <<>> /\ events' = Tail(events) /\ inbox' = Append(inbox, e) /\ UNCHANGED commands
          /\ \/ UNCHANGED downloads /\ decisions' = [decisions EXCEPT ![Ip(e.of)] = e.of]
             \/ UNCHANGED decisions /\ downloads' = [downloads EXCEPT ![<<Ip(e.of), e.file>>] = e.of]
    BY <1>0, <1>5, WebEvent
  <2>2. e.of \in Requests
    BY DEF Event
  <2>3. events' \in Seq(Event) /\ inbox' \in Seq(Event)
    BY <1>0, <2>1
  <2>4. QED
    BY <1>0, <2>1, <2>2, <2>3
<1>6. ASSUME NEW cmd \in commands, Respond(cmd) PROVE BridgeType'
  <2>1. UNCHANGED <<events, inbox>> /\ commands' = commands \ {cmd}
    BY <1>6 DEF Respond, RespondPrepareDownload, RespondFileDownload, SetFiles
  <2>2. UNCHANGED decisions \/ decisions' = [decisions EXCEPT ![cmd.ip] = Nobody]
    BY <1>6 DEF Respond, RespondPrepareDownload, RespondFileDownload, SetFiles
  <2>3. UNCHANGED downloads \/ downloads' = [downloads EXCEPT ![<<cmd.ip, cmd.file>>] = Nobody]
    BY <1>6 DEF Respond, RespondPrepareDownload, RespondFileDownload, SetFiles
  <2>4. QED
    BY <1>0, <2>1, <2>2, <2>3
<1>7. ASSUME NEW cmd \in Command, commands' = commands \cup {cmd},
             UNCHANGED <<events, decisions, downloads>>, inbox' = inbox \/ (inbox # <<>> /\ inbox' = Tail(inbox))
      PROVE  BridgeType'
  <2>1. inbox' \in Seq(Event)
    <3>1. inbox \in Seq(Event)
      BY <1>0
    <3>2. inbox # <<>> => Tail(inbox) \in Seq(Event)
      BY <3>1
    <3>3. QED
      BY <1>7, <3>1, <3>2
  <2>2. commands' \in SUBSET Command
    BY <1>0, <1>7
  <2>3. QED
    BY <1>0, <1>7, <2>1, <2>2
<1>8. CASE OnPrepareDownload
  BY <1>0, <1>8 DEF OnPrepareDownload, AppFrame
<1>9. CASE OnFileDownload
  <2>1. PICK e : e = Head(inbox)
    OBVIOUS
  <2>2. e \in Event /\ e = inbox[1] /\ 1 \in DOMAIN inbox
    BY <1>0, <1>9, <2>1 DEF OnFileDownload
  <2>3. e.of \in Requests /\ e.file \in Files
    BY <1>9, <2>1, <2>2 DEF OnFileDownload, Event
  <2>4. Ip(e.of) \in Clients
    <3>1. req[e.of] \in Record /\ req[e.of].kind # None
      BY <2>2, <2>3 DEF Addressed, TypeOK, RequestType
    <3>2. QED
      BY <3>1 DEF Record, NoRequest, Ip
  <2>5. PICK kind \in {"dropped", "content"} :
          commands' = commands \cup {[kind |-> kind, ip |-> Ip(e.of), file |-> e.file, of |-> e.of]}
    BY <1>9, <2>1 DEF OnFileDownload
  <2>6. [kind |-> kind, ip |-> Ip(e.of), file |-> e.file, of |-> e.of] \in Command
    BY <2>3, <2>4 DEF Command
  <2>7. UNCHANGED <<events, decisions, downloads>> /\ inbox' = Tail(inbox) /\ inbox # <<>>
    BY <1>9 DEF OnFileDownload, AppFrame
  <2>8. QED
    BY <1>7, <2>5, <2>6, <2>7
<1>10. ASSUME NEW c \in Clients, AcceptRequest(c) \/ DeclineRequest(c) PROVE BridgeType'
  <2>1. app[c] \in [state : {"pending", "accepted"}, of : Requests]
    BY <1>10 DEF AcceptRequest, DeclineRequest, NoSession, None, TypeOK, SessionType
  <2>2. PICK kind \in {"yes", "no"} : commands' = commands \cup {[kind |-> kind, ip |-> c, of |-> app[c].of]}
    BY <1>10 DEF AcceptRequest, DeclineRequest
  <2>3. [kind |-> kind, ip |-> c, of |-> app[c].of] \in Command
    BY <2>1 DEF Command
  <2>4. UNCHANGED <<events, decisions, downloads, inbox>>
    BY <1>10 DEF AcceptRequest, DeclineRequest, AppFrame
  <2>5. QED
    BY <1>7, <2>2, <2>3, <2>4
<1>11. ASSUME NEW f \in Files, ChangeFiles(f) PROVE BridgeType'
  <2>1. PICK files : files = IF f \in shared THEN shared \ {f} ELSE shared \cup {f}
    OBVIOUS
  <2>2. files \in SUBSET Files
    BY <2>1 DEF TypeOK, SessionType
  <2>3. commands' = commands \cup {[kind |-> "files", files |-> files]}
    BY <1>11, <2>1 DEF ChangeFiles
  <2>4. [kind |-> "files", files |-> files] \in Command
    BY <2>2 DEF Command
  <2>5. UNCHANGED <<events, decisions, downloads, inbox>>
    BY <1>11 DEF ChangeFiles, AppFrame
  <2>6. QED
    BY <1>7, <2>3, <2>4, <2>5
<1>12. QED
  BY <1>1, <1>3, <1>4, <1>5, <1>6, <1>8, <1>9, <1>10, <1>11, EventSteps

\* A decision reaches the request its responder is of.
LEMMA DecisionArrives ==
  ASSUME BridgeType, reply \in [Requests -> Replies], Quiet,
         NEW r \in Requests, reply'[r] # reply[r], reply'[r] \in {"yes", "no"}
  PROVE  \E cmd \in commands : /\ cmd.kind = reply'[r] /\ cmd.ip \in Clients
                               /\ decisions[cmd.ip] = r /\ r # Nobody
<1>1. \/ UNCHANGED reply
      \/ \E x : reply' = [reply EXCEPT ![x] = "open"]
      \/ \E x : Deliver(x, "dropped") \/ Deliver(x, "content")
      \/ \E cmd \in commands : RespondPrepareDownload(cmd)
  <2>1. ASSUME NEW x \in Requests, StreamZip(x) \/ ZipChunk(x) \/ ZipGone(x)
        PROVE  UNCHANGED reply \/ reply' = [reply EXCEPT ![x] = "open"]
    BY <2>1 DEF StreamZip, ZipHeader, ZipAsk, ZipContent, ZipEof, ZipCentral, ZipChunk, ZipGone
  <2>2. HandleWebEvent => \E x : Deliver(x, "dropped")
    BY WebEvent
  <2>3. ASSUME NEW cmd \in commands, Respond(cmd)
        PROVE  \/ UNCHANGED reply
               \/ \E x : Deliver(x, "dropped") \/ Deliver(x, "content")
               \/ RespondPrepareDownload(cmd)
    <3>1. CASE RespondFileDownload(cmd)
      BY <3>1 DEF RespondFileDownload
    <3>2. CASE SetFiles(cmd)
      BY <3>2 DEF SetFiles
    <3>3. QED
      BY <2>3, <3>1, <3>2 DEF Respond
  <2>4. ASSUME \/ OnPrepareDownload \/ OnFileDownload
               \/ \E c \in Clients : AcceptRequest(c) \/ DeclineRequest(c)
               \/ \E f \in Files : ChangeFiles(f)
        PROVE  UNCHANGED reply
    BY <2>4 DEF OnPrepareDownload, OnFileDownload, AcceptRequest, DeclineRequest, ChangeFiles,
                AppFrame, serverVars
  <2>5. QED
    BY <2>1, <2>2, <2>3, <2>4 DEF Quiet
<1>2. \A x : /\ reply' # [reply EXCEPT ![x] = "open"]
             /\ ~Deliver(x, "dropped") /\ ~Deliver(x, "content")
  BY DEF Deliver
<1>3. PICK cmd \in commands : RespondPrepareDownload(cmd)
  BY <1>1, <1>2
<1>4. cmd.ip \in Clients
  <2>1. cmd \in Command /\ cmd.kind \in {"yes", "no"}
    BY <1>3 DEF RespondPrepareDownload, BridgeType
  <2>2. QED
    BY <2>1 DEF Command
<1>5. decisions[cmd.ip] = r /\ r # Nobody /\ reply'[r] = cmd.kind
  BY <1>3 DEF RespondPrepareDownload, Deliver
<1>6. QED
  BY <1>4, <1>5

\* So does content.
LEMMA ContentIsDelivered ==
  ASSUME BridgeType, reply \in [Requests -> Replies], Quiet,
         NEW r \in Requests, reply'[r] # reply[r], reply'[r] = "content"
  PROVE  r # Nobody /\ \E d \in Clients \X Files : downloads[d] = r
<1>1. \/ UNCHANGED reply
      \/ \E x : reply' = [reply EXCEPT ![x] = "open"]
      \/ \E x : Deliver(x, "dropped") \/ Deliver(x, "yes") \/ Deliver(x, "no")
      \/ \E cmd \in commands : RespondFileDownload(cmd)
  <2>1. ASSUME NEW x \in Requests, StreamZip(x) \/ ZipChunk(x) \/ ZipGone(x)
        PROVE  UNCHANGED reply \/ reply' = [reply EXCEPT ![x] = "open"]
    BY <2>1 DEF StreamZip, ZipHeader, ZipAsk, ZipContent, ZipEof, ZipCentral, ZipChunk, ZipGone
  <2>2. HandleWebEvent => \E x : Deliver(x, "dropped")
    BY WebEvent
  <2>3. ASSUME NEW cmd \in commands, Respond(cmd)
        PROVE  \/ UNCHANGED reply
               \/ \E x : Deliver(x, "dropped") \/ Deliver(x, "yes") \/ Deliver(x, "no")
               \/ RespondFileDownload(cmd)
    <3>1. CASE RespondPrepareDownload(cmd)
      BY <3>1 DEF RespondPrepareDownload
    <3>2. CASE SetFiles(cmd)
      BY <3>2 DEF SetFiles
    <3>3. QED
      BY <2>3, <3>1, <3>2 DEF Respond
  <2>4. ASSUME \/ OnPrepareDownload \/ OnFileDownload
               \/ \E c \in Clients : AcceptRequest(c) \/ DeclineRequest(c)
               \/ \E f \in Files : ChangeFiles(f)
        PROVE  UNCHANGED reply
    BY <2>4 DEF OnPrepareDownload, OnFileDownload, AcceptRequest, DeclineRequest, ChangeFiles,
                AppFrame, serverVars
  <2>5. QED
    BY <2>1, <2>2, <2>3, <2>4 DEF Quiet
<1>2. \A x : /\ reply' # [reply EXCEPT ![x] = "open"]
             /\ ~Deliver(x, "dropped") /\ ~Deliver(x, "yes") /\ ~Deliver(x, "no")
  BY DEF Deliver
<1>3. PICK cmd \in commands : RespondFileDownload(cmd)
  BY <1>1, <1>2
<1>4. PICK d : d = <<cmd.ip, cmd.file>>
  OBVIOUS
<1>5. d \in Clients \X Files
  <2>1. cmd \in Command /\ cmd.kind \in {"content", "dropped"}
    BY <1>3 DEF RespondFileDownload, BridgeType
  <2>2. cmd.ip \in Clients /\ cmd.file \in Files
    BY <2>1 DEF Command
  <2>3. QED
    BY <1>4, <2>2
<1>6. downloads[d] = r /\ r # Nobody
  BY <1>3, <1>4 DEF RespondFileDownload, Deliver
<1>7. QED
  BY <1>5, <1>6

LEMMA AddressedStep ==
  ASSUME TypeOK, Addressed, [Next]_vars
  PROVE  Addressed'
<1>0. /\ BridgeType /\ BridgeType' /\ RequestType /\ RequestType' /\ Nobody \notin Requests
      /\ \A r \in Requests : req[r].kind # None =>
           req'[r].kind = req[r].kind /\ req'[r].ip = req[r].ip
  BY BridgeTypeStep, RequestTypeStep, StaysItself DEF TypeOK, Nobody, Requests
<1>1. /\ \A i \in DOMAIN events : events[i] \in Event /\ events[i].of \in Requests
      /\ \A i \in DOMAIN inbox : inbox[i] \in Event /\ inbox[i].of \in Requests
  <2>1. \A e \in Event : e.of \in Requests
    BY DEF Event
  <2>2. QED
    BY <1>0, <2>1 DEF BridgeType
<1>2. \A i \in DOMAIN events' :
        /\ req'[events'[i].of].kind # None
        /\ events'[i].kind = "prepare" <=> req'[events'[i].of].kind = "prepare"
  <2>1. CASE UNCHANGED events
    BY <1>0, <1>1, <2>1 DEF Addressed
  <2>2. CASE events # <<>> /\ events' = Tail(events)
    <3>1. ASSUME NEW i \in DOMAIN events' PROVE i + 1 \in DOMAIN events /\ events'[i] = events[i + 1]
      BY <1>0, <2>2 DEF BridgeType
    <3>2. QED
      BY <1>0, <1>1, <3>1 DEF Addressed, None
  <2>3. ASSUME NEW event, event.of \in Requests, Send(event), req[event.of].kind # None,
               event.kind = "prepare" <=> req[event.of].kind = "prepare"
        PROVE  \A i \in DOMAIN events' :
                 /\ req'[events'[i].of].kind # None
                 /\ events'[i].kind = "prepare" <=> req'[events'[i].of].kind = "prepare"
    <3>1. ASSUME NEW i \in DOMAIN events'
          PROVE  events'[i] = event \/ (i \in DOMAIN events /\ events'[i] = events[i])
      BY <1>0, <2>3 DEF Send, BridgeType
    <3>2. QED
      BY <1>0, <1>1, <2>3, <3>1 DEF Addressed, None
  <2>4. ASSUME NEW r \in Requests, AskApp(r) PROVE req[r].kind \in {"prepare", "download"}
    BY <1>0, <2>4 DEF AskApp, RequestType
  <2>5. ASSUME NEW r \in Requests, AskApp(r)
        PROVE  \E event : /\ event.of = r /\ Send(event)
                          /\ event.kind = "prepare" <=> req[r].kind = "prepare"
    <3>1. CASE req[r].kind = "prepare"
      BY <2>5, <3>1 DEF AskApp
    <3>2. CASE req[r].kind # "prepare"
      BY <2>5, <3>2 DEF AskApp
    <3>3. QED
      BY <3>1, <3>2
  <2>6. ASSUME NEW r \in Requests, ZipAsk(r)
        PROVE  /\ req[r].kind = "zip"
               /\ \E event : event.of = r /\ Send(event) /\ event.kind = "download"
    BY <2>6 DEF ZipAsk, ZipAt, TypeOK, ZipType, NoZip, None
  <2>7. \/ UNCHANGED events
        \/ events # <<>> /\ events' = Tail(events)
        \/ \E r \in Requests : AskApp(r) \/ ZipAsk(r)
    <3>1. HandleWebEvent => events # <<>> /\ events' = Tail(events)
      BY <1>0, WebEvent
    <3>2. ASSUME NEW cmd \in commands, Respond(cmd) PROVE UNCHANGED events
      BY <3>2 DEF Respond, RespondPrepareDownload, RespondFileDownload, SetFiles
    <3>3. ASSUME \/ OnPrepareDownload \/ OnFileDownload
                 \/ \E c \in Clients : AcceptRequest(c) \/ DeclineRequest(c)
                 \/ \E f \in Files : ChangeFiles(f)
          PROVE  UNCHANGED events
      BY <3>3 DEF OnPrepareDownload, OnFileDownload, AcceptRequest, DeclineRequest, ChangeFiles, AppFrame
    <3>4. UNCHANGED bridgeVars => UNCHANGED events
      BY DEF bridgeVars
    <3>5. \/ UNCHANGED bridgeVars
          \/ \E r \in Requests : AskApp(r) \/ ZipAsk(r)
          \/ HandleWebEvent
          \/ \E cmd \in commands : Respond(cmd)
          \/ OnPrepareDownload \/ OnFileDownload
          \/ \E c \in Clients : AcceptRequest(c) \/ DeclineRequest(c)
          \/ \E f \in Files : ChangeFiles(f)
      BY EventSteps
    <3>6. QED
      BY <3>1, <3>2, <3>3, <3>4, <3>5
  <2>8. QED
    BY <2>1, <2>2, <2>3, <2>4, <2>5, <2>6, <2>7 DEF None
<1>3. \A i \in DOMAIN inbox' : req'[inbox'[i].of].kind # None
  <2>1. CASE UNCHANGED inbox
    BY <1>0, <1>1, <2>1 DEF Addressed
  <2>2. CASE inbox # <<>> /\ inbox' = Tail(inbox)
    <3>1. ASSUME NEW i \in DOMAIN inbox' PROVE i + 1 \in DOMAIN inbox /\ inbox'[i] = inbox[i + 1]
      BY <1>0, <2>2 DEF BridgeType
    <3>2. QED
      BY <1>0, <1>1, <3>1 DEF Addressed, None
  <2>3. CASE HandleWebEvent
    <3>1. PICK e \in Event : e = events[1] /\ 1 \in DOMAIN events /\ inbox' = Append(inbox, e)
      BY <1>0, <2>3, WebEvent
    <3>2. inbox \in Seq(Event)
      BY <1>0 DEF BridgeType
    <3>3. e.of \in Requests /\ req'[e.of].kind # None
      BY <1>0, <1>1, <3>1 DEF Addressed
    <3>4. ASSUME NEW i \in DOMAIN inbox'
          PROVE  inbox'[i] = e \/ (i \in DOMAIN inbox /\ inbox'[i] = inbox[i])
      BY <3>1, <3>2
    <3>5. QED
      BY <1>0, <1>1, <3>3, <3>4 DEF Addressed
  <2>4. \/ UNCHANGED inbox
        \/ inbox # <<>> /\ inbox' = Tail(inbox)
        \/ HandleWebEvent
    <3>1. ASSUME NEW r \in Requests, AskApp(r) \/ ZipAsk(r) PROVE UNCHANGED inbox
      BY <3>1 DEF AskApp, ZipAsk
    <3>2. ASSUME NEW cmd \in commands, Respond(cmd) PROVE UNCHANGED inbox
      BY <3>2 DEF Respond, RespondPrepareDownload, RespondFileDownload, SetFiles
    <3>3. OnPrepareDownload \/ OnFileDownload => inbox # <<>> /\ inbox' = Tail(inbox)
      BY DEF OnPrepareDownload, OnFileDownload
    <3>4. ASSUME \/ \E c \in Clients : AcceptRequest(c) \/ DeclineRequest(c)
                 \/ \E f \in Files : ChangeFiles(f)
          PROVE  UNCHANGED inbox
      BY <3>4 DEF AcceptRequest, DeclineRequest, ChangeFiles
    <3>5. UNCHANGED bridgeVars => UNCHANGED inbox
      BY DEF bridgeVars
    <3>6. \/ UNCHANGED bridgeVars
          \/ \E r \in Requests : AskApp(r) \/ ZipAsk(r)
          \/ HandleWebEvent
          \/ \E cmd \in commands : Respond(cmd)
          \/ OnPrepareDownload \/ OnFileDownload
          \/ \E c \in Clients : AcceptRequest(c) \/ DeclineRequest(c)
          \/ \E f \in Files : ChangeFiles(f)
      BY EventSteps
    <3>7. QED
      BY <3>1, <3>2, <3>3, <3>4, <3>5, <3>6
  <2>5. QED
    BY <2>1, <2>2, <2>3, <2>4
<1>4. \A c \in Clients : decisions'[c] # Nobody =>
        req'[decisions'[c]].kind = "prepare" /\ req'[decisions'[c]].ip = c
  <2>0. \A c \in Clients : decisions[c] # Nobody =>
          /\ decisions[c] \in Requests
          /\ req[decisions[c]].kind = "prepare" /\ req[decisions[c]].ip = c
    BY <1>0 DEF Addressed, Ip, BridgeType
  <2>1. CASE UNCHANGED decisions
    BY <1>0, <2>0, <2>1 DEF None
  <2>2. ASSUME NEW x, decisions' = [decisions EXCEPT ![x] = Nobody]
        PROVE  \A c \in Clients : decisions'[c] # Nobody =>
                 req'[decisions'[c]].kind = "prepare" /\ req'[decisions'[c]].ip = c
    <3>1. ASSUME NEW c \in Clients, decisions'[c] # Nobody PROVE decisions'[c] = decisions[c]
      BY <1>0, <2>2, <3>1 DEF BridgeType
    <3>2. QED
      BY <1>0, <2>0, <3>1 DEF None
  <2>3. CASE HandleWebEvent
    <3>2. PICK e \in Event :
            /\ e = events[1] /\ 1 \in DOMAIN events
            /\ \/ UNCHANGED decisions
               \/ e.kind = "prepare" /\ decisions' = [decisions EXCEPT ![Ip(e.of)] = e.of]
      BY <1>0, <2>3, WebEvent
    <3>3. \/ UNCHANGED decisions
          \/ e.kind = "prepare" /\ decisions' = [decisions EXCEPT ![Ip(e.of)] = e.of]
      BY <3>2
    <3>4. CASE e.kind = "prepare" /\ decisions' = [decisions EXCEPT ![Ip(e.of)] = e.of]
      <4>1. PICK r \in Requests : r = e.of
        BY <3>2, <1>1
      <4>2. req[r].kind = "prepare" /\ Ip(r) = req[r].ip
        BY <3>2, <3>4, <4>1 DEF Addressed, Ip
      <4>3. decisions' = [decisions EXCEPT ![req[r].ip] = r]
        BY <3>4, <4>1, <4>2
      <4>4. ASSUME NEW c \in Clients
            PROVE  decisions'[c] = decisions[c] \/ (c = req[r].ip /\ decisions'[c] = r)
        BY <1>0, <4>3 DEF BridgeType
      <4>5. req'[r].kind = "prepare" /\ req'[r].ip = req[r].ip
        BY <1>0, <4>2 DEF None
      <4>6. QED
        BY <1>0, <2>0, <4>4, <4>5 DEF None
    <3>5. QED
      BY <2>1, <3>3, <3>4
  <2>4. \/ UNCHANGED decisions \/ HandleWebEvent
        \/ \E x : decisions' = [decisions EXCEPT ![x] = Nobody]
    <3>1. ASSUME NEW r \in Requests, AskApp(r) \/ ZipAsk(r) PROVE UNCHANGED decisions
      BY <3>1 DEF AskApp, ZipAsk
    <3>2. ASSUME NEW cmd \in commands, Respond(cmd)
          PROVE  UNCHANGED decisions \/ decisions' = [decisions EXCEPT ![cmd.ip] = Nobody]
      BY <3>2 DEF Respond, RespondPrepareDownload, RespondFileDownload, SetFiles
    <3>3. ASSUME \/ OnPrepareDownload \/ OnFileDownload
                 \/ \E c \in Clients : AcceptRequest(c) \/ DeclineRequest(c)
                 \/ \E f \in Files : ChangeFiles(f)
          PROVE  UNCHANGED decisions
      BY <3>3 DEF OnPrepareDownload, OnFileDownload, AcceptRequest, DeclineRequest, ChangeFiles, AppFrame
    <3>4. QED
      BY <3>1, <3>2, <3>3, EventSteps DEF bridgeVars
  <2>5. QED
    BY <2>1, <2>2, <2>3, <2>4
<1>5. \A d \in Clients \X Files : downloads'[d] # Nobody =>
        req'[downloads'[d]].kind \notin {None, "prepare"}
  <2>0. \A d \in Clients \X Files : downloads[d] # Nobody =>
          downloads[d] \in Requests /\ req[downloads[d]].kind \notin {None, "prepare"}
    BY <1>0 DEF Addressed, BridgeType
  <2>1. CASE UNCHANGED downloads
    BY <1>0, <2>0, <2>1
  <2>2. ASSUME NEW x, downloads' = [downloads EXCEPT ![x] = Nobody]
        PROVE  \A d \in Clients \X Files : downloads'[d] # Nobody =>
                 req'[downloads'[d]].kind \notin {None, "prepare"}
    <3>1. ASSUME NEW d \in Clients \X Files, downloads'[d] # Nobody PROVE downloads'[d] = downloads[d]
      BY <1>0, <2>2, <3>1 DEF BridgeType
    <3>2. QED
      BY <1>0, <2>0, <3>1
  <2>3. CASE HandleWebEvent
    <3>1. PICK e \in Event :
            /\ e = events[1] /\ 1 \in DOMAIN events
            /\ \/ UNCHANGED downloads
               \/ /\ e.kind = "download"
                  /\ downloads' = [downloads EXCEPT ![<<Ip(e.of), e.file>>] = e.of]
      BY <1>0, <2>3, WebEvent
    <3>2. PICK r \in Requests : r = e.of
      BY <3>1, <1>1
    <3>3. PICK x : x = <<Ip(e.of), e.file>>
      OBVIOUS
    <3>4. CASE e.kind = "download" /\ downloads' = [downloads EXCEPT ![x] = r]
      <4>1. req[r].kind \notin {None, "prepare"}
        BY <3>1, <3>2, <3>4 DEF Addressed
      <4>2. ASSUME NEW d \in Clients \X Files PROVE downloads'[d] = downloads[d] \/ downloads'[d] = r
        BY <1>0, <3>4 DEF BridgeType
      <4>3. req'[r].kind \notin {None, "prepare"}
        BY <1>0, <4>1
      <4>4. QED
        BY <1>0, <2>0, <4>2, <4>3
    <3>5. QED
      BY <2>1, <3>1, <3>2, <3>3, <3>4
  <2>4. \/ UNCHANGED downloads \/ HandleWebEvent
        \/ \E x : downloads' = [downloads EXCEPT ![x] = Nobody]
    <3>1. ASSUME NEW r \in Requests, AskApp(r) \/ ZipAsk(r) PROVE UNCHANGED downloads
      BY <3>1 DEF AskApp, ZipAsk
    <3>2. ASSUME NEW cmd \in commands, Respond(cmd)
          PROVE  UNCHANGED downloads \/ downloads' = [downloads EXCEPT ![<<cmd.ip, cmd.file>>] = Nobody]
      BY <3>2 DEF Respond, RespondPrepareDownload, RespondFileDownload, SetFiles
    <3>3. ASSUME \/ OnPrepareDownload \/ OnFileDownload
                 \/ \E c \in Clients : AcceptRequest(c) \/ DeclineRequest(c)
                 \/ \E f \in Files : ChangeFiles(f)
          PROVE  UNCHANGED downloads
      BY <3>3 DEF OnPrepareDownload, OnFileDownload, AcceptRequest, DeclineRequest, ChangeFiles, AppFrame
    <3>4. QED
      BY <3>1, <3>2, <3>3, EventSteps DEF bridgeVars
  <2>5. QED
    BY <2>1, <2>2, <2>3, <2>4
<1>6. ASSUME NEW r \in Requests, reply'[r] = "content" PROVE req'[r].kind \notin {None, "prepare"}
  <2>0. reply \in [Requests -> Replies]
    BY <1>0 DEF RequestType
  <2>1. CASE reply[r] = "content"
    BY <1>0, <2>1 DEF Addressed
  <2>2. CASE reply[r] # "content"
    <3>1. Browser => UNCHANGED reply
      BY <1>0, BrowserSteps DEF ArrivesFrom
    <3>2. ASSUME NEW q \in Requests, Serve(q) \/ ClientGone(q) PROVE reply'[r] \in {reply[r], None, "open"}
      <4>1. reply' = [reply EXCEPT ![q] = reply'[q]] /\ reply'[q] \in {reply[q], None, "open"}
        BY <3>2, ServeSteps
      <4>2. QED
        BY <2>0, <4>1
    <3>3. UNCHANGED vars => UNCHANGED reply
      BY DEF vars, serverVars
    <3>4. Quiet
      BY <1>6, <2>2, <3>1, <3>2, <3>3, StepKinds DEF None
    <3>5. PICK d \in Clients \X Files : downloads[d] = r /\ r # Nobody
      BY <1>0, <1>6, <2>0, <2>2, <3>4, ContentIsDelivered
    <3>6. req[r].kind \notin {None, "prepare"}
      BY <3>5 DEF Addressed
    <3>7. QED
      BY <1>0, <3>6
  <2>3. QED
    BY <2>1, <2>2
<1>7. ASSUME NEW r \in Requests, reply'[r] \in {"yes", "no"} \/ pc'[r] = "clearing" \/ r \in clears'
      PROVE  req'[r].kind = "prepare"
  <2>0. /\ reply \in [Requests -> Replies] /\ pc \in [Requests -> Phases]
        /\ reply[r] \in {"yes", "no"} \/ pc[r] = "clearing" \/ r \in clears => req[r].kind = "prepare"
    BY <1>0 DEF Addressed, RequestType
  <2>1. ASSUME req[r].kind = "prepare" PROVE req'[r].kind = "prepare"
    BY <1>0, <2>1 DEF None
  <2>2. CASE Browser
    <3>1. PICK q \in Requests : /\ pc' = [pc EXCEPT ![q] = pc'[q]] /\ UNCHANGED <<reply, clears>>
                                /\ pc'[q] # "clearing"
      BY <2>2, BrowserSteps, <1>0 DEF ArrivesFrom
    <3>2. reply[r] \in {"yes", "no"} \/ pc[r] = "clearing" \/ r \in clears
      BY <1>7, <2>0, <3>1
    <3>3. QED
      BY <2>0, <2>1, <3>2
  <2>3. ASSUME NEW q \in Requests, Serve(q) \/ ClientGone(q) PROVE req'[r].kind = "prepare"
    <3>1. /\ pc' = [pc EXCEPT ![q] = pc'[q]] /\ reply' = [reply EXCEPT ![q] = reply'[q]]
          /\ reply'[q] \in {reply[q], None, "open"}
      BY <2>3, ServeSteps
    <3>2. pc'[q] # "clearing" \/ (pc[q] = "asking" /\ reply[q] = "no") \/ pc'[q] = pc[q]
      BY <2>0, <2>3 DEF Serve, InsertSession, AskApp, AskFails, Accepted, Declined, ClearDeclined, ClearDropped,
           ClientGone, ContentArrives, StartZip, FinishUpload, Finish
    <3>3. clears' \subseteq clears \cup {x \in {q} : req[q].kind = "prepare"}
      BY <2>3 DEF Serve, InsertSession, AskApp, AskFails, Accepted, Declined, ClearDeclined, ClearDropped,
           ClientGone, ContentArrives, StartZip, FinishUpload, DropGuard
    <3>4. reply[r] \in {"yes", "no"} \/ pc[r] = "clearing" \/ r \in clears \/ req[r].kind = "prepare"
      BY <1>7, <2>0, <3>1, <3>2, <3>3 DEF None
    <3>5. QED
      BY <2>0, <2>1, <3>4
  <2>4. CASE Quiet
    <3>1. UNCHANGED <<pc, clears>>
      BY <2>4, QuietSteps
    <3>2. CASE reply'[r] = reply[r]
      BY <1>7, <2>0, <2>1, <3>1, <3>2
    <3>3. CASE reply'[r] # reply[r] /\ reply'[r] \in {"yes", "no"}
      <4>1. PICK cmd \in commands : cmd.ip \in Clients /\ decisions[cmd.ip] = r /\ r # Nobody
        BY <1>0, <2>0, <2>4, <3>3, DecisionArrives
      <4>2. req[r].kind = "prepare"
        BY <4>1 DEF Addressed
      <4>3. QED
        BY <2>1, <4>2
    <3>4. QED
      BY <1>7, <2>0, <2>1, <3>1, <3>2, <3>3
  <2>5. CASE UNCHANGED vars
    BY <1>7, <2>0, <2>1, <2>5 DEF vars, serverVars
  <2>6. QED
    BY <2>2, <2>3, <2>4, <2>5, StepKinds
<1>8. QED
  BY <1>2, <1>3, <1>4, <1>5, <1>6, <1>7 DEF Addressed, Ip

\* The archive is planned for a list of files.
LEMMA DedupIsSequence ==
  ASSUME NEW fs \in Seq(Files), Range(Dedup(fs)) \subseteq Files
  PROVE  Dedup(fs) \in Seq(Files)
<1>1. PICK firsts : firsts = {i \in DOMAIN fs : \A j \in 1 .. i - 1 : fs[j] # fs[i]}
  OBVIOUS
<1>2. Cardinality(firsts) \in Nat
  <2>1. IsFiniteSet(1 .. Len(fs))
    BY FS_Interval
  <2>2. firsts \subseteq 1 .. Len(fs)
    BY <1>1
  <2>3. IsFiniteSet(firsts)
    BY <2>1, <2>2, FS_Subset
  <2>4. QED
    BY <2>3, FS_CardinalityType
<1>3. DOMAIN Dedup(fs) = 1 .. Cardinality(firsts)
  BY <1>1 DEF Dedup
<1>4. \A k \in DOMAIN Dedup(fs) : Dedup(fs)[k] \in Files
  BY DEF Range
<1>5. Dedup(fs) = [k \in 1 .. Cardinality(firsts) |-> Dedup(fs)[k]]
  BY <1>1 DEF Dedup
<1>6. QED
  BY <1>2, <1>3, <1>4, <1>5

ZipPhases == {"header", "ask", "wait", "copy", "central", "complete", "aborted", "gone"}

\* What a step of an archive has to see to.
LEMMA ZipKept ==
  ASSUME TypeOK, UNCHANGED req, NEW r \in Requests, zip[r] # NoZip,
         DOMAIN zip' = Requests, \A q \in Requests : q # r => zip'[q] = zip[q],
         DOMAIN zip'[r] = DOMAIN zip[r],
         zip'[r].phase \in ZipPhases, zip'[r].files = zip[r].files, zip'[r].index \in Nat,
         zip'[r].phase \in {"header", "ask", "wait", "copy"} => zip'[r].index \in DOMAIN zip[r].files
  PROVE  ZipType'
<1>1. ZipType
  BY DEF TypeOK
<1>2. zip'[r] # NoZip /\ zip'[r].phase # None
  BY DEF ZipPhases, NoZip, None
<1>3. QED
  BY <1>1, <1>2 DEF ZipType, ZipPhases

\* Archives change when one begins or goes on.
LEMMA ZipSteps ==
  ASSUME TypeOK, [Next]_vars
  PROVE  \/ UNCHANGED zip
         \/ \E r \in Requests : StartZip(r) \/ StreamZip(r) \/ ZipChunk(r) \/ ZipGone(r)
<1>1. Browser => UNCHANGED zip
  BY BrowserSteps DEF TypeOK, ArrivesFrom
<1>2. ASSUME NEW r \in Requests, Serve(r) \/ ClientGone(r) PROVE UNCHANGED zip \/ StartZip(r)
  BY <1>2 DEF Serve, InsertSession, AskApp, AskFails, Accepted, Declined, ClearDeclined, ClearDropped,
              ClientGone, ContentArrives, FinishUpload
<1>3. UNCHANGED vars => UNCHANGED zip
  BY DEF vars, serverVars
<1>4. HandleWebEvent => UNCHANGED zip
  BY DEF HandleWebEvent, BridgeFrame
<1>5. ASSUME NEW cmd \in commands, Respond(cmd) PROVE UNCHANGED zip
  BY <1>5 DEF Respond, RespondPrepareDownload, RespondFileDownload, SetFiles, BridgeFrame
<1>6. ASSUME \/ OnPrepareDownload \/ OnFileDownload
             \/ \E c \in Clients : AcceptRequest(c) \/ DeclineRequest(c)
             \/ \E f \in Files : ChangeFiles(f)
      PROVE  UNCHANGED zip
  BY <1>6 DEF OnPrepareDownload, OnFileDownload, AcceptRequest, DeclineRequest, ChangeFiles,
              AppFrame, serverVars
<1>7. \/ Browser \/ Quiet \/ UNCHANGED vars
      \/ \E r \in Requests : Serve(r) \/ ClientGone(r)
  BY StepKinds
<1>8. QED
  BY <1>1, <1>2, <1>3, <1>4, <1>5, <1>6, <1>7 DEF Quiet

LEMMA ZipTypeStep ==
  ASSUME TypeOK, [Next]_vars
  PROVE  ZipType'
<1>0. ZipType
  BY DEF TypeOK
<1>1. ASSUME UNCHANGED zip PROVE ZipType'
  <2>1. \A r \in Requests : req[r].kind = "zip" => req'[r].kind = "zip"
    BY StaysItself DEF None
  <2>2. QED
    BY <1>0, <1>1, <2>1 DEF ZipType
<1>2. ASSUME NEW r \in Requests, StartZip(r), zip' # zip PROVE ZipType'
  <2>1. PICK fs : fs = Dedup(req[r].files)
    OBVIOUS
  <2>2. /\ Len(fs) \in 1 .. MaxZipFiles /\ Range(fs) \subseteq offered
        /\ pc[r] = "body" /\ req[r].kind = "zip"
        /\ zip' = [zip EXCEPT ![r] = [files |-> fs, phase |-> "header", index |-> 1,
                                      written |-> 0, crc |-> CrcNew, crcs |-> <<>>,
                                      pos |-> 0, heads |-> <<>>]]
    BY <1>2, <2>1 DEF StartZip
  <2>3. fs \in Seq(Files)
    <3>1. req[r].files \in Seq(Files)
      BY <2>2, ShareAssumption DEF ShareAssumption, TypeOK, RequestType
    <3>2. Range(Dedup(req[r].files)) \subseteq Files
      BY <2>1, <2>2 DEF TypeOK, SessionType
    <3>3. QED
      BY <2>1, <3>1, <3>2, DedupIsSequence
  <2>4. 1 \in DOMAIN fs
    BY <2>2, <2>3
  <2>5. PICK z : z = [files |-> fs, phase |-> "header", index |-> 1,
                      written |-> 0, crc |-> CrcNew, crcs |-> <<>>, pos |-> 0, heads |-> <<>>]
    OBVIOUS
  <2>6. /\ z.phase = "header" /\ z.files = fs /\ z.index = 1
        /\ {"files", "phase", "index"} \subseteq DOMAIN z
    BY <2>5
  <2>7. z # NoZip
    BY <2>6 DEF NoZip, None
  <2>8. DOMAIN zip' = Requests /\ zip'[r] = z /\ \A q \in Requests : q # r => zip'[q] = zip[q]
    BY <1>0, <2>2, <2>5 DEF ZipType
  <2>9. \A q \in Requests : req[q].kind = "zip" => req'[q].kind = "zip"
    BY StaysItself DEF None
  <2>10. QED
    BY <1>0, <2>2, <2>3, <2>4, <2>6, <2>7, <2>8, <2>9 DEF ZipType, None
<1>3. ASSUME NEW r \in Requests, StreamZip(r) \/ ZipChunk(r) \/ ZipGone(r), zip' # zip PROVE ZipType'
  <2>0. UNCHANGED req
    BY <1>3 DEF StreamZip, ZipHeader, ZipAsk, ZipContent, ZipEof, ZipCentral, ZipChunk, ZipGone, ZipFrame
  <2>1. zip[r].phase # None
    BY <1>3 DEF StreamZip, ZipHeader, ZipAsk, ZipContent, ZipEof, ZipCentral, ZipChunk, ZipGone, ZipAt, None
  <2>2. /\ zip[r] # NoZip /\ {"files", "phase", "index"} \subseteq DOMAIN zip[r] /\ DOMAIN zip = Requests
        /\ zip[r].files \in Seq(Files) /\ zip[r].index \in Nat
        /\ zip[r].phase \in {"header", "ask", "wait", "copy"} => zip[r].index \in DOMAIN zip[r].files
    BY <1>0, <2>1 DEF ZipType
  <2>3. ASSUME NEW phase \in ZipPhases, zip' = [zip EXCEPT ![r].phase = phase],
               phase \in {"header", "ask", "wait", "copy"} => zip[r].index \in DOMAIN zip[r].files
        PROVE  ZipType'
    <3>1. /\ DOMAIN zip' = Requests /\ \A q \in Requests : q # r => zip'[q] = zip[q]
          /\ DOMAIN zip'[r] = DOMAIN zip[r] /\ zip'[r].phase = phase
          /\ zip'[r].files = zip[r].files /\ zip'[r].index = zip[r].index
      BY <2>2, <2>3
    <3>2. QED
      BY <2>0, <2>2, <2>3, <3>1, ZipKept
  <2>4. CASE ZipAsk(r)
    BY <2>2, <2>3, <2>4 DEF ZipAsk, ZipAt, ZipPhases
  <2>5. CASE ZipGone(r)
    BY <2>3, <2>5 DEF ZipGone, ZipPhases
  <2>6. CASE ZipHeader(r)
    <3>1. /\ DOMAIN zip' = Requests /\ \A q \in Requests : q # r => zip'[q] = zip[q]
          /\ DOMAIN zip'[r] = DOMAIN zip[r] /\ zip'[r].phase = "ask"
          /\ zip'[r].files = zip[r].files /\ zip'[r].index = zip[r].index
      BY <2>2, <2>6 DEF ZipHeader
    <3>2. zip[r].phase = "header"
      BY <2>6 DEF ZipHeader, ZipAt
    <3>3. QED
      BY <2>0, <2>2, <3>1, <3>2, ZipKept DEF ZipPhases
  <2>7. CASE ZipCentral(r)
    <3>1. /\ DOMAIN zip' = Requests /\ \A q \in Requests : q # r => zip'[q] = zip[q]
          /\ DOMAIN zip'[r] = DOMAIN zip[r] /\ zip'[r].phase = "complete"
          /\ zip'[r].files = zip[r].files /\ zip'[r].index = zip[r].index
      BY <2>2, <2>7 DEF ZipCentral
    <3>2. QED
      BY <2>0, <2>2, <3>1, ZipKept DEF ZipPhases
  <2>8. CASE ZipContent(r)
    <3>1. CASE zip' = AbortZip(r)
      BY <2>3, <3>1 DEF AbortZip, ZipPhases
    <3>2. CASE zip' = [zip EXCEPT ![r].phase = "copy", ![r].written = 0, ![r].crc = CrcNew]
      <4>1. /\ DOMAIN zip' = Requests /\ \A q \in Requests : q # r => zip'[q] = zip[q]
            /\ DOMAIN zip'[r] = DOMAIN zip[r] /\ zip'[r].phase = "copy"
            /\ zip'[r].files = zip[r].files /\ zip'[r].index = zip[r].index
        BY <2>2, <3>2
      <4>2. zip[r].phase = "wait"
        BY <2>8 DEF ZipContent, ZipAt
      <4>3. QED
        BY <2>0, <2>2, <4>1, <4>2, ZipKept DEF ZipPhases
    <3>3. QED
      BY <2>8, <3>1, <3>2 DEF ZipContent
  <2>9. CASE ZipChunk(r)
    <3>1. CASE zip' = AbortZip(r)
      BY <2>3, <3>1 DEF AbortZip, ZipPhases
    <3>2. CASE zip' # AbortZip(r)
      <4>1. PICK b : zip' = [zip EXCEPT ![r].written = @ + 1, ![r].pos = @ + 1, ![r].crc = CrcUpdate(@, b)]
        BY <2>9, <3>2 DEF ZipChunk
      <4>2. /\ DOMAIN zip' = Requests /\ \A q \in Requests : q # r => zip'[q] = zip[q]
            /\ DOMAIN zip'[r] = DOMAIN zip[r] /\ zip'[r].phase = zip[r].phase
            /\ zip'[r].files = zip[r].files /\ zip'[r].index = zip[r].index
        BY <2>2, <4>1
      <4>3. zip[r].phase = "copy"
        BY <2>9 DEF ZipChunk, ZipAt
      <4>4. QED
        BY <2>0, <2>2, <4>2, <4>3, ZipKept DEF ZipPhases
    <3>3. QED
      BY <3>1, <3>2
  <2>10. CASE ZipEof(r)
    <3>0. zip[r].phase = "copy"
      BY <2>10 DEF ZipEof, ZipAt
    <3>1. CASE zip' = AbortZip(r)
      BY <2>3, <3>1 DEF AbortZip, ZipPhases
    <3>2. CASE zip' # AbortZip(r)
      <4>1. PICK phase : phase = IF zip[r].index = Len(zip[r].files) THEN "central" ELSE "header"
        OBVIOUS
      <4>2. zip' = [zip EXCEPT ![r].crcs = Append(@, CrcFinish(zip[r].crc)),
                               ![r].pos = @ + Bytes(DataDescriptor(PlanOf(r))),
                               ![r].index = @ + 1,
                               ![r].phase = phase]
        BY <2>10, <3>2, <4>1 DEF ZipEof
      <4>3. /\ DOMAIN zip' = Requests /\ \A q \in Requests : q # r => zip'[q] = zip[q]
            /\ DOMAIN zip'[r] = DOMAIN zip[r] /\ zip'[r].phase = phase
            /\ zip'[r].files = zip[r].files /\ zip'[r].index = zip[r].index + 1
        BY <2>2, <4>2
      <4>4. phase = "header" => zip[r].index + 1 \in DOMAIN zip[r].files
        BY <2>2, <3>0, <4>1
      <4>5. QED
        BY <2>0, <2>2, <4>1, <4>3, <4>4, ZipKept DEF ZipPhases
    <3>3. QED
      BY <3>1, <3>2
  <2>11. QED
    BY <1>3, <2>4, <2>5, <2>6, <2>7, <2>8, <2>9, <2>10 DEF StreamZip
<1>4. \/ UNCHANGED zip
      \/ \E r \in Requests : StartZip(r) \/ StreamZip(r) \/ ZipChunk(r) \/ ZipGone(r)
  BY ZipSteps
<1>5. QED
  BY <1>1, <1>2, <1>3, <1>4

LEMMA TypeStep ==
  ASSUME TypeOK, Addressed, [Next]_vars
  PROVE  TypeOK' /\ Addressed'
  BY RequestTypeStep, SessionTypeStep, BridgeTypeStep, ZipTypeStep, AddressedStep DEF TypeOK

-----------------------------------------------------------------------------
(* Acceptance *)

\* Nobody who was accepted is forgotten.
LEMMA GrantedGrows ==
  ASSUME TypeOK, [Next]_vars
  PROVE  granted \subseteq granted'
<1>1. Browser => UNCHANGED granted
  BY BrowserSteps DEF TypeOK, ArrivesFrom, history
<1>2. ASSUME NEW r \in Requests, Serve(r) \/ ClientGone(r) PROVE UNCHANGED granted
  BY <1>2, ServeSteps
<1>3. ASSUME NEW r \in Requests, StreamZip(r) \/ ZipChunk(r) \/ ZipGone(r) PROVE UNCHANGED granted
  BY <1>3 DEF StreamZip, ZipHeader, ZipAsk, ZipContent, ZipEof, ZipCentral, ZipChunk, ZipGone,
              ZipFrame, history
<1>4. HandleWebEvent => UNCHANGED granted
  BY DEF HandleWebEvent, BridgeFrame, history
<1>5. ASSUME NEW cmd \in commands, Respond(cmd) PROVE UNCHANGED granted
  BY <1>5 DEF Respond, RespondPrepareDownload, RespondFileDownload, SetFiles, BridgeFrame, history
<1>6. ASSUME \/ OnPrepareDownload \/ OnFileDownload
             \/ \E c \in Clients : AcceptRequest(c) \/ DeclineRequest(c)
             \/ \E f \in Files : ChangeFiles(f)
      PROVE  granted \subseteq granted'
  BY <1>6 DEF OnPrepareDownload, OnFileDownload, AcceptRequest, DeclineRequest, ChangeFiles
<1>7. UNCHANGED vars => UNCHANGED granted
  BY DEF vars, history
<1>8. QED
  BY <1>1, <1>2, <1>3, <1>4, <1>5, <1>6, <1>7, StepKinds DEF Quiet

LEMMA GrantingStep ==
  ASSUME TypeOK, Addressed, Granting, [Next]_vars
  PROVE  Granting'
<1>0. /\ reply \in [Requests -> Replies] /\ sessions \in [Clients -> {None, "pending", "accepted"}]
      /\ BridgeType /\ granted \subseteq Clients
  BY DEF TypeOK, RequestType, SessionType
<1>1. granted \subseteq granted'
  BY GrantedGrows
<1>2. ASSUME NEW cmd \in commands', cmd.kind = "yes" PROVE cmd.ip \in granted'
  <2>1. CASE cmd \in commands
    BY <1>1, <1>2, <2>1 DEF Granting
  <2>2. CASE cmd \notin commands
    <3>1. ASSUME NEW c \in Clients, AcceptRequest(c) PROVE cmd.ip \in granted'
      <4>1. cmd = [kind |-> "yes", ip |-> c, of |-> app[c].of]
        BY <1>2, <2>2, <3>1 DEF AcceptRequest
      <4>2. cmd.ip = c
        BY <4>1
      <4>3. QED
        BY <3>1, <4>2 DEF AcceptRequest
    <3>2. ASSUME \/ UNCHANGED bridgeVars
                 \/ \E r \in Requests : AskApp(r) \/ ZipAsk(r)
                 \/ OnPrepareDownload
                 \/ \E x \in commands : Respond(x)
          PROVE  FALSE
      BY <1>2, <2>2, <3>2 DEF bridgeVars, AskApp, ZipAsk, OnPrepareDownload, Respond,
           RespondPrepareDownload, RespondFileDownload, SetFiles
    <3>3. ~HandleWebEvent
      BY <1>0, <1>2, <2>2, WebEvent
    <3>4. ~OnFileDownload
      <4>1. ASSUME OnFileDownload PROVE FALSE
        <5>1. PICK e : e = Head(inbox)
          OBVIOUS
        <5>2. PICK kind \in {"dropped", "content"} :
                commands' = commands \cup {[kind |-> kind, ip |-> Ip(e.of), file |-> e.file, of |-> e.of]}
          BY <4>1, <5>1 DEF OnFileDownload
        <5>3. cmd.kind = kind
          BY <1>2, <2>2, <5>2
        <5>4. QED
          BY <1>2, <5>3
      <4>2. QED
        BY <4>1
    <3>5. ASSUME NEW c \in Clients, DeclineRequest(c) PROVE FALSE
      <4>1. cmd = [kind |-> "no", ip |-> c, of |-> app[c].of]
        BY <1>2, <2>2, <3>5 DEF DeclineRequest
      <4>2. QED
        BY <1>2, <4>1
    <3>6. ASSUME NEW f \in Files, ChangeFiles(f) PROVE FALSE
      <4>1. \E files : cmd = [kind |-> "files", files |-> files]
        BY <1>2, <2>2, <3>6 DEF ChangeFiles
      <4>2. QED
        BY <1>2, <4>1
    <3>7. QED
      BY <3>1, <3>2, <3>3, <3>4, <3>5, <3>6, EventSteps
  <2>3. QED
    BY <2>1, <2>2
<1>3. ASSUME NEW r \in Requests, reply'[r] = "yes" PROVE req'[r].ip \in granted'
  <2>1. ASSUME req[r].kind = "prepare", req[r].ip \in granted PROVE req'[r].ip \in granted'
    BY <1>1, <2>1, StaysItself DEF None
  <2>2. CASE reply[r] = "yes"
    BY <2>1, <2>2 DEF Granting, Addressed, Ip
  <2>3. CASE reply[r] # "yes"
    <3>1. Quiet
      <4>1. Browser => UNCHANGED reply
        BY BrowserSteps DEF TypeOK, ArrivesFrom
      <4>2. ASSUME NEW q \in Requests, Serve(q) \/ ClientGone(q) PROVE reply'[r] \in {reply[r], None, "open"}
        <5>1. reply' = [reply EXCEPT ![q] = reply'[q]] /\ reply'[q] \in {reply[q], None, "open"}
          BY <4>2, ServeSteps
        <5>2. QED
          BY <1>0, <5>1
      <4>3. UNCHANGED vars => UNCHANGED reply
        BY DEF vars, serverVars
      <4>4. QED
        BY <1>3, <2>3, <4>1, <4>2, <4>3, StepKinds DEF None
    <3>2. PICK cmd \in commands : /\ cmd.kind = "yes" /\ cmd.ip \in Clients
                                  /\ decisions[cmd.ip] = r /\ r # Nobody
      BY <1>0, <1>3, <2>3, <3>1, DecisionArrives
    <3>3. req[r].kind = "prepare" /\ req[r].ip = cmd.ip
      BY <3>2 DEF Addressed, Ip
    <3>4. cmd.ip \in granted
      BY <3>2 DEF Granting
    <3>5. QED
      BY <2>1, <3>3, <3>4
  <2>4. QED
    BY <2>2, <2>3
<1>4. ASSUME NEW c \in Clients, sessions'[c] = "accepted" PROVE c \in granted'
  <2>1. CASE sessions[c] = "accepted"
    BY <1>1, <2>1 DEF Granting
  <2>2. CASE sessions[c] # "accepted"
    <3>1. PICK r \in Requests : Accepted(r)
      <4>1. Browser => UNCHANGED sessions
        BY BrowserSteps DEF TypeOK, ArrivesFrom
      <4>2. Quiet => UNCHANGED sessions
        BY QuietSteps
      <4>3. UNCHANGED vars => UNCHANGED sessions
        BY DEF vars, serverVars
      <4>4. ASSUME NEW r \in Requests, InsertSession(r) PROVE sessions'[c] \in {sessions[c], "pending"}
        BY <1>0, <4>4 DEF InsertSession
      <4>5. ASSUME NEW r \in Requests, ClearDeclined(r) \/ ClearDropped(r)
            PROVE  sessions'[c] \in {sessions[c], None}
        BY <1>0, <4>5 DEF ClearDeclined, ClearDropped, ClearPendingSession
      <4>6. ASSUME NEW r \in Requests, \/ AskApp(r) \/ AskFails(r) \/ Declined(r) \/ ContentArrives(r)
                                       \/ StartZip(r) \/ FinishUpload(r) \/ ClientGone(r)
            PROVE  UNCHANGED sessions
        BY <4>6 DEF AskApp, AskFails, Declined, ContentArrives, StartZip, FinishUpload, ClientGone
      <4>7. \/ Browser \/ Quiet \/ UNCHANGED vars
            \/ \E r \in Requests : Serve(r) \/ ClientGone(r)
        BY StepKinds
      <4>8. QED
        BY <1>4, <2>2, <4>1, <4>2, <4>3, <4>4, <4>5, <4>6, <4>7 DEF Serve, None
    <3>2. c = Ip(r)
      BY <1>0, <1>4, <2>2, <3>1 DEF Accepted
    <3>3. Ip(r) \in granted
      BY <3>1 DEF Accepted, Granting
    <3>4. QED
      BY <1>1, <3>2, <3>3
  <2>3. QED
    BY <2>1, <2>2
<1>5. QED
  BY <1>2, <1>3, <1>4 DEF Granting, Ip

\* An archive begins with a request for it.
LEMMA ArchiveBegins ==
  ASSUME TypeOK, [Next]_vars, NEW r \in Requests, zip[r] = NoZip, zip'[r] # NoZip
  PROVE  pc[r] = "body" /\ req[r].kind = "zip"
<1>0. DOMAIN zip = Requests
  BY DEF TypeOK, ZipType
<1>1. ASSUME NEW q \in Requests, \E z : zip' = [zip EXCEPT ![q] = z] PROVE q = r
  BY <1>0, <1>1
<1>2. ASSUME NEW q \in Requests, StreamZip(q) \/ ZipChunk(q) \/ ZipGone(q) PROVE FALSE
  <2>1. zip[q].phase # None
    BY <1>2 DEF StreamZip, ZipHeader, ZipAsk, ZipContent, ZipEof, ZipCentral, ZipChunk, ZipGone, ZipAt, None
  <2>2. q # r
    BY <2>1 DEF NoZip
  <2>3. zip'[r] = zip[r]
    BY <1>0, <1>2, <2>2 DEF StreamZip, ZipHeader, ZipAsk, ZipContent, ZipEof, ZipCentral, ZipChunk, ZipGone,
                            AbortZip
  <2>4. QED
    BY <2>3
<1>3. ASSUME NEW q \in Requests, StartZip(q) PROVE pc[r] = "body" /\ req[r].kind = "zip"
  <2>1. UNCHANGED zip \/ \E z : zip' = [zip EXCEPT ![q] = z]
    BY <1>3 DEF StartZip
  <2>2. q = r
    BY <1>1, <2>1
  <2>3. QED
    BY <1>3, <2>2 DEF StartZip
<1>4. \/ UNCHANGED zip
      \/ \E q \in Requests : StartZip(q) \/ StreamZip(q) \/ ZipChunk(q) \/ ZipGone(q)
  BY ZipSteps
<1>5. QED
  BY <1>2, <1>3, <1>4

LEMMA PassedStep ==
  ASSUME TypeOK, Granting, Passed, [Next]_vars
  PROVE  Passed'
<1> SUFFICES ASSUME NEW r \in Requests, req'[r].kind \in {"download", "zip", "upload"},
                    \/ pc'[r] # "done" \/ zip'[r] # NoZip \/ answer'[r] \in {"content", "handed"}
             PROVE  req'[r].ip \in granted'
  BY DEF Passed, Ip
<1>0. /\ pc \in [Requests -> Phases] /\ answer \in [Requests -> Answers] /\ req \in [Requests -> Record]
      /\ pc[r] = "idle" <=> req[r].kind = None
      /\ zip[r] # NoZip => req[r].kind = "zip"
      /\ granted \subseteq granted'
  BY GrantedGrows DEF TypeOK, RequestType, ZipType, Answers
<1>1. ASSUME req[r].kind # None, pc[r] # "done" \/ zip[r] # NoZip \/ answer[r] \in {"content", "handed"}
      PROVE  req'[r].ip \in granted'
  <2>1. req'[r].kind = req[r].kind /\ req'[r].ip = req[r].ip
    BY <1>1, StaysItself
  <2>2. req[r].ip \in granted
    BY <1>1, <2>1 DEF Passed, Ip
  <2>3. QED
    BY <1>0, <2>1, <2>2
<1>2. ASSUME req[r].kind # None, UNCHANGED <<pc, answer>> PROVE req'[r].ip \in granted'
  BY <1>1, <1>2, ArchiveBegins
<1>3. CASE req[r].kind = None
  <2>1. Browser
    <3>1. Quiet => UNCHANGED req
      BY QuietSteps
    <3>2. UNCHANGED vars => UNCHANGED req
      BY DEF vars, serverVars
    <3>3. ASSUME NEW q \in Requests, Serve(q) \/ ClientGone(q) PROVE req'[r].kind = None
      <4>1. req' = [req EXCEPT ![q] = req'[q]] /\ req'[q].kind = req[q].kind
        BY <3>3, ServeSteps
      <4>2. QED
        BY <1>0, <1>3, <4>1
    <3>4. QED
      BY <1>3, <3>1, <3>2, <3>3, StepKinds DEF None
  <2>2. PICK q \in Requests, c \in Clients :
          /\ ArrivesFrom(q, c)
          /\ \/ req'[q].kind \in {"prepare", "files"}
             \/ /\ pc'[q] \in {"sending", "body"} /\ sessions[c] = "accepted"
             \/ pc'[q] = "done" /\ answer'[q] \in {"list", "refused"}
    BY <2>1, BrowserSteps DEF TypeOK
  <2>3. q = r
    BY <1>0, <1>3, <2>2 DEF ArrivesFrom, None
  <2>4. zip'[r] = NoZip
    BY <1>0, <1>3, <2>2 DEF ArrivesFrom, None
  <2>5. sessions[c] = "accepted"
    BY <2>2, <2>3, <2>4
  <2>6. c \in granted /\ req'[r].ip = c
    BY <2>2, <2>3, <2>5 DEF Granting, ArrivesFrom
  <2>7. QED
    BY <1>0, <2>6
<1>4. CASE req[r].kind # None
  <2>1. CASE Browser
    <3>1. PICK q \in Requests : /\ pc[q] = "idle" /\ pc' = [pc EXCEPT ![q] = pc'[q]]
                                /\ answer' = [answer EXCEPT ![q] = answer'[q]] /\ UNCHANGED zip
      BY <2>1, BrowserSteps DEF TypeOK, ArrivesFrom
    <3>2. q # r
      BY <1>0, <1>4, <3>1
    <3>3. pc'[r] = pc[r] /\ answer'[r] = answer[r] /\ zip'[r] = zip[r]
      BY <1>0, <3>1, <3>2
    <3>4. QED
      BY <1>1, <1>4, <3>3
  <2>2. CASE Quiet
    <3>1. UNCHANGED <<pc, answer>>
      BY <2>2, QuietSteps
    <3>2. QED
      BY <1>2, <1>4, <3>1
  <2>3. ASSUME NEW q \in Requests, Serve(q) \/ ClientGone(q) PROVE req'[r].ip \in granted'
    <3>1. pc' = [pc EXCEPT ![q] = pc'[q]] /\ answer' = [answer EXCEPT ![q] = answer'[q]]
      BY <2>3, ServeSteps
    <3>2. CASE q # r
      <4>1. pc'[r] = pc[r] /\ answer'[r] = answer[r]
        BY <1>0, <3>1, <3>2
      <4>2. QED
        BY <1>1, <1>4, <4>1, ArchiveBegins
    <3>3. CASE q = r /\ ~ClearDropped(r)
      <4>1. pc[r] # "done"
        BY <2>3, <3>3 DEF Serve, InsertSession, AskApp, AskFails, Accepted, Declined, ClearDeclined,
                          ClientGone, ContentArrives, StartZip, FinishUpload
      <4>2. QED
        BY <1>1, <1>4, <4>1
    <3>4. CASE ClearDropped(r)
      BY <1>2, <1>4, <3>4 DEF ClearDropped
    <3>5. QED
      BY <3>2, <3>3, <3>4
  <2>4. CASE UNCHANGED vars
    BY <1>2, <1>4, <2>4 DEF vars, serverVars
  <2>5. QED
    BY <2>1, <2>2, <2>3, <2>4, StepKinds
<1>5. QED
  BY <1>3, <1>4

-----------------------------------------------------------------------------
(* The sessions *)

\* What a step of a request does to the table of sessions.
LEMMA SessionSteps ==
  ASSUME TypeOK, Addressed, Concluded, NEW r \in Requests, Serve(r) \/ ClientGone(r)
  PROVE  \/ InsertSession(r)
         \/ \* goes on
            /\ UNCHANGED <<sessions, answer, clears, last, crowded>>
            /\ \/ pc[r] = "sending" /\ pc'[r] = "asking"
               \/ pc[r] = "asking" /\ pc'[r] = "clearing"
         \/ \* the session of its client is the one it asked for
            /\ pc[r] = "asking" /\ pc'[r] = "done" /\ req[r].kind = "prepare"
            /\ answer'[r] = "list" /\ UNCHANGED <<clears, last, crowded>>
            /\ sessions' = [sessions EXCEPT ![Ip(r)] = IF @ = None THEN None ELSE "accepted"]
         \/ \* is declined, or its guard runs
            /\ UNCHANGED <<last, crowded>> /\ ClearPendingSession(Ip(r)) /\ req[r].kind = "prepare"
            /\ \/ /\ pc[r] = "clearing" /\ pc'[r] = "done" /\ answer'[r] = "refused" /\ UNCHANGED clears
               \/ /\ r \in clears /\ UNCHANGED <<pc, answer>> /\ clears' = clears \ {r}
         \/ \* ends without a decision
            /\ pc[r] \notin {"idle", "done"} /\ pc'[r] = "done"
            /\ answer'[r] \notin {None, "list"} /\ UNCHANGED <<sessions, last, crowded>>
            /\ clears' \subseteq clears \cup {r} /\ clears \subseteq clears'
            /\ pc[r] = "clearing" => answer'[r] = "gone declined"
            /\ pc[r] = "checked" => UNCHANGED clears
            /\ req[r].kind = "prepare" => pc[r] = "checked" \/ pc[r] = "clearing" \/ r \in clears'
<1>0. /\ pc \in [Requests -> Phases] /\ answer \in [Requests -> Answers] /\ req \in [Requests -> Record]
      /\ reply \in [Requests -> Replies] /\ RequestType
  BY DEF TypeOK, RequestType, Answers
<1>1. ASSUME NEW ans, Finish(r, ans) PROVE pc'[r] = "done" /\ answer'[r] = ans
  BY <1>0, <1>1 DEF Finish
<1>2. CASE AskApp(r)
  <2>1. UNCHANGED <<sessions, answer, clears, last, crowded>> /\ pc[r] = "sending" /\ pc'[r] = "asking"
    BY <1>0, <1>2 DEF AskApp, history
  <2>2. QED
    BY <2>1
<1>3. CASE Declined(r)
  <2>1. UNCHANGED <<sessions, answer, clears, last, crowded>> /\ pc[r] = "asking" /\ pc'[r] = "clearing"
    BY <1>0, <1>3 DEF Declined, history
  <2>2. QED
    BY <2>1
<1>4. CASE Accepted(r)
  <2>1. req[r].kind = "prepare"
    BY <1>4 DEF Accepted, Addressed
  <2>2. pc'[r] = "done" /\ answer'[r] = "list"
    BY <1>1, <1>4 DEF Accepted
  <2>3. /\ pc[r] = "asking" /\ UNCHANGED <<clears, last, crowded>>
        /\ sessions' = [sessions EXCEPT ![Ip(r)] = IF @ = None THEN None ELSE "accepted"]
    BY <1>4 DEF Accepted, history
  <2>4. QED
    BY <2>1, <2>2, <2>3
<1>5. CASE ClearDeclined(r)
  <2>1. req[r].kind = "prepare"
    BY <1>5 DEF ClearDeclined, Addressed
  <2>2. pc'[r] = "done" /\ answer'[r] = "refused"
    BY <1>1, <1>5 DEF ClearDeclined
  <2>3. pc[r] = "clearing" /\ UNCHANGED <<clears, last, crowded>> /\ ClearPendingSession(Ip(r))
    BY <1>5 DEF ClearDeclined, history
  <2>4. QED
    BY <2>1, <2>2, <2>3
<1>6. CASE ClearDropped(r)
  <2>1. req[r].kind = "prepare"
    BY <1>6 DEF ClearDropped, Addressed
  <2>2. /\ r \in clears /\ UNCHANGED <<pc, answer, last, crowded>> /\ ClearPendingSession(Ip(r))
        /\ clears' = clears \ {r}
    BY <1>6 DEF ClearDropped, history
  <2>3. QED
    BY <2>1, <2>2
<1>7. CASE AskFails(r)
  <2>1. pc'[r] = "done" /\ answer'[r] = "failed"
    BY <1>1, <1>7 DEF AskFails
  <2>2. /\ pc[r] = "asking" /\ UNCHANGED <<sessions, last, crowded>>
        /\ clears' = clears \cup {q \in {r} : req[r].kind = "prepare"}
    BY <1>7 DEF AskFails, DropGuard, history
  <2>3. QED
    BY <2>1, <2>2 DEF None
<1>8. CASE ContentArrives(r) \/ StartZip(r) \/ FinishUpload(r)
  <2>1. PICK ans \in {"content", "archive", "handed", "refused"} : Finish(r, ans)
    <3>1. CASE ContentArrives(r)
      BY <3>1 DEF ContentArrives
    <3>2. CASE StartZip(r)
      BY <3>2 DEF StartZip
    <3>3. CASE FinishUpload(r)
      BY <3>3 DEF FinishUpload
    <3>4. QED
      BY <1>8, <3>1, <3>2, <3>3
  <2>2. pc'[r] = "done" /\ answer'[r] = ans
    BY <1>1, <2>1
  <2>3. pc[r] \in {"asking", "body"} /\ UNCHANGED <<sessions, clears, last, crowded>>
    BY <1>8 DEF ContentArrives, StartZip, FinishUpload, history
  <2>4. req[r].kind # "prepare"
    BY <1>0, <1>8 DEF ContentArrives, StartZip, FinishUpload, RequestType, Addressed
  <2>5. QED
    BY <2>2, <2>3, <2>4 DEF None
<1>9. CASE ClientGone(r)
  <2>1. PICK ans : ans = IF pc[r] = "clearing" THEN "gone declined" ELSE "gone"
    OBVIOUS
  <2>2. pc'[r] = "done" /\ answer'[r] = ans
    BY <1>1, <1>9, <2>1 DEF ClientGone
  <2>3. /\ pc[r] \in {"checked", "sending", "asking", "clearing", "body"}
        /\ UNCHANGED <<sessions, last, crowded>>
        /\ IF pc[r] \in {"sending", "asking"}
           THEN clears' = clears \cup {q \in {r} : req[r].kind = "prepare"} ELSE UNCHANGED clears
    BY <1>9 DEF ClientGone, DropGuard, history
  <2>4. pc[r] = "body" => req[r].kind # "prepare"
    BY <1>0 DEF RequestType
  <2>5. QED
    BY <2>1, <2>2, <2>3, <2>4 DEF None
<1>10. QED
  BY <1>2, <1>3, <1>4, <1>5, <1>6, <1>7, <1>8, <1>9 DEF Serve

\* What a step of a request leaves alone.
LEMMA OthersStay ==
  ASSUME TypeOK, Addressed, Concluded, NEW r \in Requests, Serve(r) \/ ClientGone(r),
         NEW q \in Requests, q # r
  PROVE  /\ pc'[q] = pc[q] /\ answer'[q] = answer[q] /\ req'[q] = req[q]
         /\ q \in clears' <=> q \in clears
<1>1. /\ pc \in [Requests -> Phases] /\ answer \in [Requests -> Answers] /\ req \in [Requests -> Record]
      /\ pc' = [pc EXCEPT ![r] = pc'[r]] /\ answer' = [answer EXCEPT ![r] = answer'[r]]
      /\ req' = [req EXCEPT ![r] = req'[r]]
  BY ServeSteps DEF TypeOK, RequestType, Answers
<1>2. pc'[q] = pc[q] /\ answer'[q] = answer[q] /\ req'[q] = req[q]
  BY <1>1
<1>3. clears' \ {r} = clears \ {r}
  BY SessionSteps DEF InsertSession
<1>4. QED
  BY <1>2, <1>3

\* The session of another client is not touched.
LEMMA SessionStays ==
  ASSUME TypeOK, Addressed, Concluded, NEW r \in Requests, Serve(r) \/ ClientGone(r),
         NEW c \in Clients, Ip(r) # c
  PROVE  sessions'[c] = sessions[c] /\ last'[c] = last[c]
<1>1. sessions \in [Clients -> {None, "pending", "accepted"}] /\ DOMAIN last = Clients
  BY DEF TypeOK, SessionType
<1>2. CASE InsertSession(r)
  BY <1>1, <1>2 DEF InsertSession
<1>3. CASE UNCHANGED <<sessions, last>>
  BY <1>3
<1>4. CASE UNCHANGED last /\ \E state : sessions' = [sessions EXCEPT ![Ip(r)] = state]
  BY <1>1, <1>4
<1>5. QED
  BY <1>2, <1>3, <1>4, SessionSteps DEF ClearPendingSession

LEMMA InsertFacts ==
  ASSUME TypeOK, NEW r \in Requests, InsertSession(r)
  PROVE  /\ pc[r] = "checked" /\ pc'[r] = "sending" /\ req[r].kind = "prepare" /\ Ip(r) \in Clients
         /\ UNCHANGED <<req, answer, clears>> /\ crowded \subseteq crowded'
         /\ sessions'[Ip(r)] = "pending" /\ last'[Ip(r)] = r
         /\ r \notin crowded' => \A q \in Requests \ {r} : Ip(q) = Ip(r) => ~Busy(q)
<1>1. /\ pc[r] = "checked" /\ pc'[r] = "sending" /\ UNCHANGED <<req, answer, clears>>
      /\ crowded \subseteq crowded'
  BY DEF InsertSession, TypeOK, RequestType
<1>2. req[r].kind = "prepare" /\ req[r] \in Record
  BY <1>1 DEF TypeOK, RequestType
<1>3. Ip(r) \in Clients
  BY <1>2 DEF Record, NoRequest, Ip, None
<1>4. sessions'[Ip(r)] = "pending" /\ last'[Ip(r)] = r
  BY <1>3 DEF InsertSession, TypeOK, SessionType
<1>5. ASSUME r \notin crowded', NEW q \in Requests \ {r}, Ip(q) = Ip(r), Busy(q) PROVE FALSE
  BY <1>5 DEF InsertSession, Busy
<1>6. QED
  BY <1>1, <1>2, <1>3, <1>4, <1>5

LEMMA ConcludedStep ==
  ASSUME TypeOK, Addressed, Concluded, [Next]_vars
  PROVE  Concluded'
<1> SUFFICES ASSUME NEW r \in Requests
             PROVE  /\ pc'[r] # "done" => answer'[r] = None
                    /\ r \in clears' => pc'[r] = "done" /\ answer'[r] # "list"
  BY DEF Concluded
<1>0. /\ pc[r] # "done" => answer[r] = None
      /\ r \in clears => pc[r] = "done" /\ answer[r] # "list"
  BY DEF Concluded
<1>1. CASE Browser
  <2>1. PICK q \in Requests : /\ pc[q] = "idle" /\ UNCHANGED clears
                              /\ pc' = [pc EXCEPT ![q] = pc'[q]] /\ answer' = [answer EXCEPT ![q] = answer'[q]]
                              /\ pc'[q] # "done" => answer'[q] = None
    BY <1>1, BrowserSteps DEF TypeOK, ArrivesFrom
  <2>2. DOMAIN pc = Requests /\ DOMAIN answer = Requests
    BY DEF TypeOK, RequestType
  <2>3. QED
    BY <1>0, <2>1, <2>2
<1>2. CASE Quiet
  <2>1. UNCHANGED <<pc, answer, clears>>
    BY <1>2, QuietSteps
  <2>2. QED
    BY <1>0, <2>1
<1>3. CASE UNCHANGED vars
  BY <1>0, <1>3 DEF vars, serverVars
<1>4. ASSUME NEW q \in Requests, Serve(q) \/ ClientGone(q)
      PROVE  /\ pc'[r] # "done" => answer'[r] = None
             /\ r \in clears' => pc'[r] = "done" /\ answer'[r] # "list"
  <2>1. CASE q # r
    BY <1>0, <1>4, <2>1, OthersStay
  <2>2. CASE q = r
    <3>1. CASE InsertSession(r)
      BY <1>0, <3>1, InsertFacts
    <3>2. CASE ~InsertSession(r)
      BY <1>0, <1>4, <2>2, <3>2, SessionSteps
    <3>3. QED
      BY <3>1, <3>2
  <2>3. QED
    BY <2>1, <2>2
<1>5. QED
  BY <1>1, <1>2, <1>3, <1>4, StepKinds

LEMMA LatestStep ==
  ASSUME TypeOK, Addressed, Concluded, Latest, [Next]_vars
  PROVE  Latest'
<1> SUFFICES ASSUME NEW c \in Clients, last'[c] # Nobody
             PROVE  /\ req'[last'[c]].kind = "prepare" /\ req'[last'[c]].ip = c
                    /\ pc'[last'[c]] \notin {"idle", "checked"}
  BY DEF Latest, Ip
<1>1. ASSUME NEW l \in Requests, last[c] = l, last'[c] = l, pc'[l] \notin {"idle", "checked"}
      PROVE  /\ req'[l].kind = "prepare" /\ req'[l].ip = c
             /\ pc'[l] \notin {"idle", "checked"}
  <2>1. l # Nobody
    BY DEF Requests, Nobody
  <2>2. req[l].kind = "prepare" /\ req[l].ip = c
    BY <1>1, <2>1 DEF Latest, Ip
  <2>3. req'[l].kind = "prepare" /\ req'[l].ip = c
    BY <2>2, StaysItself DEF None
  <2>4. QED
    BY <1>1, <2>3
<1>2. ASSUME last'[c] = last[c] PROVE last[c] \in Requests /\ pc[last[c]] \notin {"idle", "checked"}
  BY <1>2 DEF Latest, TypeOK, SessionType
<1>3. CASE Browser
  <2>1. PICK q \in Requests : /\ pc[q] = "idle" /\ UNCHANGED last /\ pc' = [pc EXCEPT ![q] = pc'[q]]
    BY <1>3, BrowserSteps DEF TypeOK, ArrivesFrom, history
  <2>2. DOMAIN pc = Requests
    BY DEF TypeOK, RequestType
  <2>3. last[c] # q /\ pc'[last[c]] = pc[last[c]]
    BY <1>2, <2>1, <2>2
  <2>4. QED
    BY <1>1, <1>2, <2>1, <2>3
<1>4. CASE Quiet
  <2>1. UNCHANGED <<pc, last>>
    BY <1>4, QuietSteps
  <2>2. QED
    BY <1>1, <1>2, <2>1
<1>5. CASE UNCHANGED vars
  BY <1>1, <1>2, <1>5 DEF vars, serverVars, history
<1>6. ASSUME NEW q \in Requests, Serve(q) \/ ClientGone(q)
      PROVE  /\ req'[last'[c]].kind = "prepare" /\ req'[last'[c]].ip = c
             /\ pc'[last'[c]] \notin {"idle", "checked"}
  <2>1. CASE InsertSession(q) /\ Ip(q) = c
    <3>1. last'[c] = q /\ pc'[q] = "sending" /\ req'[q].kind = "prepare" /\ req'[q].ip = c
      BY <2>1, InsertFacts DEF Ip
    <3>2. QED
      BY <3>1
  <2>2. CASE ~(InsertSession(q) /\ Ip(q) = c)
    <3>1. last'[c] = last[c]
      BY <1>6, <2>2, SessionStays, SessionSteps
    <3>2. PICK l \in Requests : l = last[c] /\ pc[l] \notin {"idle", "checked"}
      BY <1>2, <3>1
    <3>3. pc'[l] \notin {"idle", "checked"}
      <4>1. CASE q # l
        BY <1>6, <3>2, <4>1, OthersStay
      <4>2. CASE q = l
        <5>1. ~InsertSession(l)
          BY <3>2 DEF InsertSession
        <5>2. QED
          BY <1>6, <3>2, <4>2, <5>1, SessionSteps
      <4>3. QED
        BY <4>1, <4>2
    <3>4. QED
      BY <1>1, <3>1, <3>2, <3>3
  <2>3. QED
    BY <2>1, <2>2
<1>7. QED
  BY <1>3, <1>4, <1>5, <1>6, StepKinds

\* A step of another request of the client that is not busy leaves the session alone and
\* does not make it busy, unless it inserts a session.
LEMMA IdleStep ==
  ASSUME TypeOK, Addressed, Concluded, NEW r \in Requests, Serve(r) \/ ClientGone(r),
         ~Busy(r), ~InsertSession(r)
  PROVE  ~Busy(r)' /\ UNCHANGED <<sessions, last, crowded>>
<1>1. req'[r].kind = req[r].kind
  BY ServeSteps
<1>2. CASE req[r].kind = "prepare"
  <2>1. r \notin clears /\ pc[r] \notin {"sending", "asking", "clearing"}
    BY <1>2 DEF Busy
  <2>2. /\ pc[r] = "checked" /\ pc'[r] = "done" /\ UNCHANGED <<clears, sessions, last, crowded>>
    <3>1. pc[r] \in {"idle", "checked", "done"}
      BY <1>2, <2>1 DEF TypeOK, RequestType, Phases
    <3>2. QED
      BY <1>2, <2>1, <3>1, SessionSteps
  <2>3. QED
    BY <2>1, <2>2 DEF Busy
<1>3. CASE req[r].kind # "prepare"
  <2>1. ~Busy(r)'
    BY <1>1, <1>3 DEF Busy
  <2>2. UNCHANGED <<sessions, last, crowded>>
    BY <1>3, SessionSteps
  <2>3. QED
    BY <2>1, <2>2
<1>4. QED
  BY <1>2, <1>3

LEMMA AloneStep ==
  ASSUME TypeOK, Addressed, Concluded, Latest, Alone, [Next]_vars
  PROVE  Alone'
<1> SUFFICES ASSUME NEW c \in Clients, last'[c] # Nobody, last'[c] \notin crowded'
             PROVE  /\ \A q \in Requests \ {last'[c]} : req'[q].ip = c => ~Busy(q)'
                    /\ pc'[last'[c]] \in {"sending", "asking"} => sessions'[c] = "pending"
                    /\ answer'[last'[c]] = "list" => sessions'[c] = "accepted"
  BY DEF Alone, Ip
<1>0. /\ DOMAIN pc = Requests /\ DOMAIN answer = Requests /\ DOMAIN req = Requests
      /\ DOMAIN sessions = Clients
  BY DEF TypeOK, RequestType, SessionType
<1>1. ASSUME last'[c] = last[c], last[c] \notin crowded
      PROVE  /\ last[c] \in Requests /\ pc[last[c]] \notin {"idle", "checked"}
             /\ req[last[c]].kind = "prepare" /\ req[last[c]].ip = c
             /\ \A q \in Requests \ {last[c]} : req[q].ip = c => ~Busy(q)
             /\ pc[last[c]] \in {"sending", "asking"} => sessions[c] = "pending"
             /\ answer[last[c]] = "list" => sessions[c] = "accepted"
  BY <1>1 DEF Latest, Alone, TypeOK, SessionType, Ip
<1>2. CASE Browser
  <2>1. PICK q \in Requests :
          /\ pc[q] = "idle" /\ UNCHANGED <<clears, sessions, last, crowded>>
          /\ pc' = [pc EXCEPT ![q] = pc'[q]] /\ answer' = [answer EXCEPT ![q] = answer'[q]]
          /\ req' = [req EXCEPT ![q] = req'[q]]
          /\ req'[q].kind = "prepare" => pc'[q] \in {"checked", "done"}
    BY <1>2, BrowserSteps DEF TypeOK, ArrivesFrom, history
  <2>2. PICK l \in Requests : l = last[c]
    BY <1>1, <2>1
  <2>3. q # l
    BY <1>1, <2>1, <2>2
  <2>4. pc'[l] = pc[l] /\ answer'[l] = answer[l]
    BY <1>0, <2>1, <2>3
  <2>5. ~Busy(q)'
    <3>1. q \notin clears
      BY <2>1 DEF Concluded
    <3>2. QED
      BY <2>1, <3>1 DEF Busy
  <2>6. ASSUME NEW x \in Requests \ {l}, req'[x].ip = c PROVE ~Busy(x)'
    <3>1. CASE x # q
      <4>1. pc'[x] = pc[x] /\ req'[x] = req[x]
        BY <1>0, <2>1, <3>1
      <4>2. QED
        BY <1>1, <2>1, <2>2, <2>6, <4>1 DEF Busy
    <3>2. QED
      BY <2>5, <3>1
  <2>7. QED
    BY <1>1, <2>1, <2>2, <2>4, <2>6
<1>3. CASE Quiet
  <2>1. UNCHANGED <<sessions, req, pc, answer, clears, last, crowded>>
    BY <1>3, QuietSteps
  <2>2. QED
    BY <1>1, <2>1 DEF Busy
<1>4. CASE UNCHANGED vars
  <2>1. UNCHANGED <<sessions, req, pc, answer, clears, last, crowded>>
    BY <1>4 DEF vars, serverVars, history
  <2>2. QED
    BY <1>1, <2>1 DEF Busy
<1>5. ASSUME NEW r \in Requests, Serve(r) \/ ClientGone(r)
      PROVE  /\ \A q \in Requests \ {last'[c]} : req'[q].ip = c => ~Busy(q)'
             /\ pc'[last'[c]] \in {"sending", "asking"} => sessions'[c] = "pending"
             /\ answer'[last'[c]] = "list" => sessions'[c] = "accepted"
  <2>0. req'[r].ip = req[r].ip
    BY <1>5, ServeSteps
  <2>1. ASSUME NEW q \in Requests, q # r, ~Busy(q) PROVE ~Busy(q)'
    <3>1. pc'[q] = pc[q] /\ req'[q] = req[q] /\ (q \in clears' <=> q \in clears)
      BY <1>5, <2>1, OthersStay
    <3>2. QED
      BY <2>1, <3>1 DEF Busy
  <2>2. ASSUME NEW q \in Requests, q # r PROVE req'[q] = req[q]
    BY <1>5, <2>2, OthersStay
  <2>3. CASE InsertSession(r) /\ Ip(r) = c
    <3>1. /\ last'[c] = r /\ sessions'[c] = "pending" /\ answer'[r] = answer[r] /\ pc[r] = "checked"
          /\ \A q \in Requests \ {r} : Ip(q) = c => ~Busy(q)
      BY <2>3, InsertFacts
    <3>2. answer'[r] = None
      BY <3>1 DEF Concluded
    <3>3. \A q \in Requests \ {r} : req'[q].ip = c => ~Busy(q)'
      BY <2>1, <2>2, <3>1 DEF Ip
    <3>4. QED
      BY <3>1, <3>2, <3>3 DEF None
  <2>4. CASE ~(InsertSession(r) /\ Ip(r) = c)
    <3>1. last'[c] = last[c] /\ last[c] \notin crowded
      <4>1. last'[c] = last[c]
        BY <1>5, <2>4, SessionStays, SessionSteps
      <4>2. crowded \subseteq crowded'
        BY <1>5, InsertFacts, SessionSteps
      <4>3. QED
        BY <4>1, <4>2
    <3>2. PICK l \in Requests : l = last[c]
      BY <1>1, <3>1
    <3>3. CASE Ip(r) # c
      <4>1. sessions'[c] = sessions[c] /\ l # r
        BY <1>1, <1>5, <3>1, <3>2, <3>3, SessionStays DEF Ip
      <4>2. pc'[l] = pc[l] /\ answer'[l] = answer[l]
        BY <1>5, <4>1, OthersStay
      <4>3. \A q \in Requests \ {l} : req'[q].ip = c => ~Busy(q)'
        BY <1>1, <2>0, <2>1, <2>2, <3>1, <3>2, <3>3 DEF Ip
      <4>4. QED
        BY <1>1, <3>1, <3>2, <4>1, <4>2, <4>3
    <3>4. CASE Ip(r) = c /\ r # l
      <4>1. ~Busy(r)
        BY <1>1, <3>1, <3>2, <3>4 DEF Ip
      <4>2. ~Busy(r)' /\ UNCHANGED sessions
        BY <1>5, <2>4, <3>4, <4>1, IdleStep
      <4>3. pc'[l] = pc[l] /\ answer'[l] = answer[l]
        BY <1>5, <3>4, OthersStay
      <4>4. \A q \in Requests \ {l} : req'[q].ip = c => ~Busy(q)'
        BY <1>1, <2>1, <2>2, <3>1, <3>2, <4>2
      <4>5. QED
        BY <1>1, <3>1, <3>2, <4>2, <4>3, <4>4
    <3>5. CASE r = l
      <4>1. \A q \in Requests \ {l} : req'[q].ip = c => ~Busy(q)'
        BY <1>1, <2>1, <2>2, <3>1, <3>2, <3>5
      <4>2. Ip(l) = c /\ ~InsertSession(l)
        BY <1>1, <2>4, <3>1, <3>2, <3>5 DEF Ip
      <4>3. /\ pc[l] # "done" => answer[l] = None
            /\ l \in clears => pc[l] = "done" /\ answer[l] # "list"
        BY DEF Concluded
      <4>4. /\ pc'[l] \in {"sending", "asking"} => sessions'[c] = "pending"
            /\ answer'[l] = "list" => sessions'[c] = "accepted"
        <5>1. \/ /\ UNCHANGED <<sessions, answer>> /\ pc[l] = "sending" /\ pc'[l] = "asking"
              \/ /\ UNCHANGED <<sessions, answer>> /\ pc[l] = "asking" /\ pc'[l] = "clearing"
              \/ /\ pc[l] = "asking" /\ pc'[l] = "done"
                 /\ sessions' = [sessions EXCEPT ![c] = IF @ = None THEN None ELSE "accepted"]
              \/ pc'[l] = "done" /\ answer'[l] = "refused"
              \/ l \in clears /\ UNCHANGED <<pc, answer>>
              \/ pc'[l] = "done" /\ answer'[l] # "list"
          BY <1>5, <3>5, <4>2, SessionSteps
        <5>2. pc[l] \in {"sending", "asking"} => sessions[c] = "pending"
          BY <1>1, <3>1, <3>2
        <5>3. QED
          BY <1>0, <4>3, <5>1, <5>2 DEF None
      <4>5. QED
        BY <3>1, <3>2, <4>1, <4>4
    <3>6. QED
      BY <3>3, <3>4, <3>5
  <2>5. QED
    BY <2>3, <2>4
<1>6. QED
  BY <1>2, <1>3, <1>4, <1>5, StepKinds

LEMMA PendingStep ==
  ASSUME TypeOK, Addressed, Concluded, Pending, [Next]_vars
  PROVE  Pending'
<1> SUFFICES ASSUME NEW c \in Clients, sessions'[c] = "pending",
                    \A r \in Requests : answer'[r] # "gone declined"
             PROVE  \E r \in Requests : Busy(r)' /\ req'[r].ip = c
  BY DEF Pending, Ip
<1>0. /\ DOMAIN pc = Requests /\ DOMAIN answer = Requests /\ DOMAIN req = Requests
      /\ DOMAIN sessions = Clients
  BY DEF TypeOK, RequestType, SessionType
<1>1. ASSUME sessions[c] = "pending", \A r \in Requests : answer[r] # "gone declined"
      PROVE  \E b \in Requests : Busy(b) /\ req[b].ip = c
  BY <1>1 DEF Pending, Ip
<1>2. ASSUME UNCHANGED <<sessions, req, pc, answer, clears>>
      PROVE  \E r \in Requests : Busy(r)' /\ req'[r].ip = c
  BY <1>1, <1>2 DEF Busy
<1>3. CASE Browser
  <2>1. PICK q \in Requests :
          /\ pc[q] = "idle" /\ req[q].kind = None /\ UNCHANGED <<clears, sessions>>
          /\ pc' = [pc EXCEPT ![q] = pc'[q]] /\ answer' = [answer EXCEPT ![q] = answer'[q]]
          /\ req' = [req EXCEPT ![q] = req'[q]]
    BY <1>3, BrowserSteps DEF TypeOK, ArrivesFrom
  <2>2. \A r \in Requests : answer[r] # "gone declined"
    <3>1. answer[q] = None
      BY <2>1 DEF Concluded
    <3>2. QED
      BY <1>0, <2>1, <3>1 DEF None
  <2>3. PICK b \in Requests : Busy(b) /\ req[b].ip = c
    BY <1>1, <2>1, <2>2
  <2>4. b # q
    BY <2>1, <2>3 DEF Busy, None
  <2>5. pc'[b] = pc[b] /\ req'[b] = req[b]
    BY <1>0, <2>1, <2>4
  <2>6. QED
    BY <2>1, <2>3, <2>5 DEF Busy
<1>4. CASE Quiet
  BY <1>2, <1>4, QuietSteps
<1>5. CASE UNCHANGED vars
  BY <1>2, <1>5 DEF vars, serverVars
<1>6. ASSUME NEW r \in Requests, Serve(r) \/ ClientGone(r)
      PROVE  \E q \in Requests : Busy(q)' /\ req'[q].ip = c
  <2>0. req'[r].kind = req[r].kind /\ req'[r].ip = req[r].ip
    BY <1>6, ServeSteps
  <2>1. CASE InsertSession(r) /\ Ip(r) = c
    <3>1. pc'[r] = "sending" /\ req[r].kind = "prepare" /\ req[r].ip = c
      BY <2>1, InsertFacts DEF Ip
    <3>2. QED
      BY <2>0, <3>1 DEF Busy
  <2>2. CASE ~(InsertSession(r) /\ Ip(r) = c)
    <3>1. \A q \in Requests : answer[q] # "gone declined"
      <4>1. ASSUME NEW q \in Requests, answer[q] = "gone declined" PROVE answer'[q] = answer[q]
        <5>1. CASE q # r
          BY <1>6, <5>1, OthersStay
        <5>2. CASE q = r
          <6>1. pc[r] = "done"
            BY <4>1, <5>2 DEF Concluded, None
          <6>2. ~InsertSession(r)
            BY <6>1 DEF InsertSession
          <6>3. QED
            BY <1>6, <5>2, <6>1, <6>2, SessionSteps
        <5>3. QED
          BY <5>1, <5>2
      <4>2. QED
        BY <4>1
    <3>2. sessions[c] = "pending"
      <4>1. CASE Ip(r) # c
        BY <1>6, <4>1, SessionStays
      <4>2. CASE Ip(r) = c
        <5>1. \/ UNCHANGED sessions
              \/ sessions' = [sessions EXCEPT ![c] = IF @ = None THEN None ELSE "accepted"]
              \/ sessions' = [sessions EXCEPT ![c] = IF @ = "pending" THEN None ELSE @]
          BY <1>6, <2>2, <4>2, SessionSteps DEF ClearPendingSession
        <5>2. QED
          BY <1>0, <5>1 DEF None
      <4>3. QED
        BY <4>1, <4>2
    <3>3. PICK b \in Requests : Busy(b) /\ req[b].ip = c
      BY <1>1, <3>1, <3>2
    <3>4. CASE b # r
      <4>1. pc'[b] = pc[b] /\ req'[b] = req[b] /\ (b \in clears' <=> b \in clears)
        BY <1>6, <3>4, OthersStay
      <4>2. QED
        BY <3>3, <4>1 DEF Busy
    <3>5. CASE b = r
      <4>1. Ip(r) = c /\ ~InsertSession(r) /\ req[r].kind = "prepare"
        BY <2>2, <3>3, <3>5 DEF Ip, Busy
      <4>2. r \in clears \/ pc[r] \in {"sending", "asking", "clearing"}
        BY <3>3, <3>5 DEF Busy
      <4>3. /\ sessions' # [sessions EXCEPT ![c] = IF @ = None THEN None ELSE "accepted"]
            /\ ~ClearPendingSession(c)
        BY <1>0, <3>2 DEF ClearPendingSession, None
      <4>4. answer'[r] # "gone declined" /\ (r \in clears => pc[r] = "done")
        BY DEF Concluded
      <4>5. \/ pc'[r] \in {"asking", "clearing"}
            \/ r \in clears'
        BY <1>6, <4>1, <4>2, <4>3, <4>4, SessionSteps
      <4>6. QED
        BY <2>0, <3>3, <3>5, <4>1, <4>5 DEF Busy
    <3>6. QED
      BY <3>4, <3>5
  <2>3. QED
    BY <2>1, <2>2
<1>7. QED
  BY <1>3, <1>4, <1>5, <1>6, StepKinds

-----------------------------------------------------------------------------
(* Induction and sums *)

\* Induction over the numbers, for a set instead of an operator: were n missing from S, each
\* number up to n that S misses would have a predecessor that S misses too, and these are one
\* fewer.
LEMMA Induction ==
  ASSUME NEW S, 0 \in S, \A n \in Nat : n \in S => n + 1 \in S
  PROVE  \A n \in Nat : n \in S
<1>1. SUFFICES ASSUME NEW n \in Nat, n \notin S PROVE FALSE
  OBVIOUS
<1> DEFINE T == {k \in 0 .. n : k \notin S}
           U == T \ {n}
           f == [k \in T |-> k - 1]
<1>2. IsFiniteSet(T) /\ Cardinality(T) \in Nat
  <2>1. T \in SUBSET (0 .. n)  OBVIOUS
  <2>2. IsFiniteSet(0 .. n)  BY FS_Interval
  <2> HIDE DEF T
  <2> QED BY <2>1, <2>2, FS_Subset, FS_CardinalityType
<1>3. n \in T
  BY <1>1
<1>4. f \in [T -> U]
  <2>1. ASSUME NEW k \in T PROVE k - 1 \in U
    <3>1. k \in Nat /\ k <= n /\ k \notin S  OBVIOUS
    <3>2. k # 0  BY <3>1
    <3>3. k - 1 \in Nat /\ k - 1 <= n /\ k - 1 # n  BY <3>1, <3>2
    <3>4. k - 1 \notin S  BY <3>1, <3>3
    <3> QED BY <3>3, <3>4
  <2> HIDE DEF U
  <2> QED BY <2>1
<1>5. IsFiniteSet(U) /\ Cardinality(U) = Cardinality(T) - 1
  <2> HIDE DEF T
  <2> QED BY <1>2, <1>3, FS_RemoveElement
<1>6. PICK x, y \in T : x # y /\ f[x] = f[y]
  <2>1. Cardinality(U) < Cardinality(T)  BY <1>2, <1>5
  <2> HIDE DEF T, U, f
  <2> QED BY <1>2, <1>4, <1>5, <2>1, FS_PigeonHole
<1> QED BY <1>6

\* A set of numbers has a least one.
LEMMA LeastNumber ==
  ASSUME NEW T \in SUBSET Nat, T # {}
  PROVE  \E m \in T : \A k \in T : m <= k
<1>1. SUFFICES ASSUME \A m \in T : \E k \in T : k < m PROVE FALSE
  OBVIOUS
<1> DEFINE S == {n \in Nat : \A k \in 0 .. n : k \notin T}
<1>2. 0 \in S
  BY <1>1
<1>3. ASSUME NEW n \in Nat, n \in S PROVE n + 1 \in S
  <2>1. n + 1 \notin T  BY <1>1, <1>3
  <2> QED BY <1>3, <2>1
<1>4. \A n \in Nat : n \in S
  <2> HIDE DEF S
  <2> QED BY <1>2, <1>3, Induction
<1>5. PICK m \in T : TRUE
  OBVIOUS
<1>6. m \in S /\ m \in 0 .. m
  <2> HIDE DEF S
  <2> QED BY <1>4
<1> QED BY <1>5, <1>6

\* The recursive function of PartialSums exists.
LEMMA SumsExist ==
  ASSUME NEW s \in Seq(Nat)
  PROVE  \E g : g = [i \in 0 .. Len(s) |-> IF i = 0 THEN 0 ELSE g[i - 1] + s[i]]
<1> DEFINE S == {n \in Nat : n <= Len(s) =>
                   \E g : g = [i \in 0 .. n |-> IF i = 0 THEN 0 ELSE g[i - 1] + s[i]]}
<1>1. 0 \in S
  <2> DEFINE g == [i \in 0 .. 0 |-> 0]
  <2>1. g = [i \in 0 .. 0 |-> IF i = 0 THEN 0 ELSE g[i - 1] + s[i]]
    OBVIOUS
  <2> QED BY <2>1
<1>2. ASSUME NEW n \in Nat, n \in S PROVE n + 1 \in S
  <2> SUFFICES ASSUME n + 1 <= Len(s)
               PROVE  \E g : g = [i \in 0 .. n + 1 |-> IF i = 0 THEN 0 ELSE g[i - 1] + s[i]]
    OBVIOUS
  <2>1. PICK g : g = [i \in 0 .. n |-> IF i = 0 THEN 0 ELSE g[i - 1] + s[i]]
    BY <1>2
  <2> DEFINE h == [i \in 0 .. n + 1 |-> IF i <= n THEN g[i] ELSE g[n] + s[n + 1]]
  <2>2. ASSUME NEW i \in 0 .. n + 1
        PROVE  h[i] = IF i = 0 THEN 0 ELSE h[i - 1] + s[i]
    <3>1. CASE i = 0  BY <2>1, <3>1
    <3>2. CASE i \in 1 .. n
      <4>1. h[i] = g[i] /\ h[i - 1] = g[i - 1]  BY <3>2
      <4>2. g[i] = g[i - 1] + s[i]  BY <2>1, <3>2
      <4> QED BY <3>2, <4>1, <4>2
    <3>3. CASE i = n + 1
      <4>1. h[n + 1] = g[n] + s[n + 1] /\ h[n] = g[n]  OBVIOUS
      <4> QED BY <3>3, <4>1
    <3> QED BY <3>1, <3>2, <3>3
  <2>3. h = [i \in 0 .. n + 1 |-> IF i = 0 THEN 0 ELSE h[i - 1] + s[i]]
    <3>1. h = [i \in 0 .. n + 1 |-> h[i]]  OBVIOUS
    <3> HIDE DEF h
    <3> QED BY <2>2, <3>1
  <2> QED BY <2>3
<1>3. \A n \in Nat : n \in S
  <2> HIDE DEF S
  <2> QED BY <1>1, <1>2, Induction
<1> QED BY <1>3

\* Each partial sum adds one number to the one before it.
LEMMA PartialSumsStep ==
  ASSUME NEW s \in Seq(Nat)
  PROVE  /\ PartialSums(s)[0] = 0
         /\ \A i \in 1 .. Len(s) : PartialSums(s)[i] = PartialSums(s)[i - 1] + s[i]
<1>1. PartialSums(s) =
        [i \in 0 .. Len(s) |-> IF i = 0 THEN 0 ELSE PartialSums(s)[i - 1] + s[i]]
  BY SumsExist, Zenon DEF PartialSums
<1> QED BY <1>1

\* A partial sum of numbers is a number.
LEMMA PartialSumsType ==
  ASSUME NEW s \in Seq(Nat)
  PROVE  \A i \in 0 .. Len(s) : PartialSums(s)[i] \in Nat
<1> DEFINE S == {n \in Nat : n <= Len(s) => PartialSums(s)[n] \in Nat}
<1>1. 0 \in S
  BY PartialSumsStep
<1>2. ASSUME NEW n \in Nat, n \in S PROVE n + 1 \in S
  <2>1. ASSUME n + 1 <= Len(s) PROVE PartialSums(s)[n + 1] \in Nat
    <3>1. PartialSums(s)[n + 1] = PartialSums(s)[(n + 1) - 1] + s[n + 1]
      BY <2>1, PartialSumsStep
    <3>2. PartialSums(s)[n] \in Nat /\ s[n + 1] \in Nat
      BY <1>2, <2>1
    <3> QED BY <3>1, <3>2
  <2> QED BY <2>1
<1>3. \A n \in Nat : n \in S
  <2> HIDE DEF S
  <2> QED BY <1>1, <1>2, Induction
<1> QED BY <1>3

\* Partial sums never decrease.
LEMMA PartialSumsGrow ==
  ASSUME NEW s \in Seq(Nat), NEW i \in 0 .. Len(s)
  PROVE  \A j \in 0 .. i : PartialSums(s)[j] <= PartialSums(s)[i]
<1> DEFINE S == {n \in Nat : n <= Len(s) =>
                              \A j \in 0 .. n : PartialSums(s)[j] <= PartialSums(s)[n]}
<1>1. 0 \in S
  BY PartialSumsStep
<1>2. ASSUME NEW n \in Nat, n \in S PROVE n + 1 \in S
  <2>1. ASSUME n + 1 <= Len(s), NEW j \in 0 .. n + 1
        PROVE  PartialSums(s)[j] <= PartialSums(s)[n + 1]
    <3>1. PartialSums(s)[n + 1] = PartialSums(s)[n] + s[n + 1]
      BY <2>1, PartialSumsStep
    <3>2. /\ PartialSums(s)[n] \in Nat /\ s[n + 1] \in Nat
          /\ PartialSums(s)[j] \in Nat /\ PartialSums(s)[n + 1] \in Nat
      BY <2>1, PartialSumsType
    <3>3. j <= n => PartialSums(s)[j] <= PartialSums(s)[n]
      BY <1>2, <2>1
    <3> QED BY <3>1, <3>2, <3>3
  <2> QED BY <2>1
<1>3. \A n \in Nat : n \in S
  <2> HIDE DEF S
  <2> QED BY <1>1, <1>2, Induction
<1> QED BY <1>3

-----------------------------------------------------------------------------
(* The widths of the records *)

\* The total of two sequences is that of one after the other.
LEMMA TotalOfBoth ==
  ASSUME NEW s \in Seq(Nat), NEW t \in Seq(Nat)
  PROVE  Total(s \o t) = Total(s) + Total(t)
<1> DEFINE st == s \o t
           P == PartialSums(st)
           S == {n \in Nat : n <= Len(s) => P[n] = PartialSums(s)[n]}
           T == {n \in Nat : n <= Len(t) => P[Len(s) + n] = Total(s) + PartialSums(t)[n]}
<1>1. /\ st \in Seq(Nat) /\ Len(st) = Len(s) + Len(t)
      /\ Len(s) \in Nat /\ Len(t) \in Nat
      /\ \A i \in 1 .. Len(s) : st[i] = s[i]
      /\ \A i \in 1 .. Len(t) : st[Len(s) + i] = t[i]
  OBVIOUS
<1>2. P[0] = 0 /\ \A i \in 1 .. Len(st) : P[i] = P[i - 1] + st[i]
  BY <1>1, PartialSumsStep
<1> HIDE DEF P, st
<1>3. \A n \in Nat : n \in S
  <2>1. 0 \in S
    BY <1>2, PartialSumsStep
  <2>2. ASSUME NEW n \in Nat, n \in S PROVE n + 1 \in S
    <3>1. ASSUME n + 1 <= Len(s) PROVE P[n + 1] = PartialSums(s)[n + 1]
      <4>1. P[n + 1] = P[n] + st[n + 1] /\ st[n + 1] = s[n + 1]
        BY <1>1, <1>2, <3>1
      <4>2. PartialSums(s)[n + 1] = PartialSums(s)[n] + s[n + 1]
        BY <3>1, PartialSumsStep
      <4> QED BY <2>2, <3>1, <4>1, <4>2
    <3> QED BY <3>1
  <2> HIDE DEF S
  <2> QED BY <2>1, <2>2, Induction
<1>4. \A n \in Nat : n \in T
  <2>1. 0 \in T
    <3>1. P[Len(s)] = PartialSums(s)[Len(s)]  BY <1>1, <1>3
    <3>2. PartialSums(s)[Len(s)] \in Nat  BY <1>1, PartialSumsType
    <3> QED BY <1>1, <3>1, <3>2, PartialSumsStep DEF Total
  <2>2. ASSUME NEW n \in Nat, n \in T PROVE n + 1 \in T
    <3>1. ASSUME n + 1 <= Len(t) PROVE P[Len(s) + (n + 1)] = Total(s) + PartialSums(t)[n + 1]
      <4>1. P[Len(s) + (n + 1)] = P[Len(s) + n] + t[n + 1]
        <5> DEFINE m == Len(s) + (n + 1)
        <5>1. m \in 1 .. Len(st) /\ m - 1 = Len(s) + n /\ st[m] = t[n + 1]
          <6>1. n + 1 \in 1 .. Len(t)  BY <3>1
          <6>2. st[Len(s) + (n + 1)] = t[n + 1]  BY <1>1, <6>1
          <6>3. m \in 1 .. Len(st) /\ m - 1 = Len(s) + n  BY <1>1, <6>1
          <6> QED BY <6>2, <6>3
        <5> HIDE DEF m
        <5>2. P[m] = P[m - 1] + st[m]
          BY <1>2, <5>1
        <5> QED BY <5>1, <5>2 DEF m
      <4>2. PartialSums(t)[n + 1] = PartialSums(t)[n] + t[n + 1]
        BY <3>1, PartialSumsStep
      <4>3. /\ PartialSums(t)[n] \in Nat /\ t[n + 1] \in Nat /\ Total(s) \in Nat
            /\ P[Len(s) + n] = Total(s) + PartialSums(t)[n]
        <5>1. n \in 0 .. Len(t) /\ n + 1 \in 1 .. Len(t)  BY <1>1, <3>1
        <5>2. PartialSums(t)[n] \in Nat /\ t[n + 1] \in Nat  BY <5>1, PartialSumsType
        <5>3. Total(s) \in Nat  BY <1>1, PartialSumsType DEF Total
        <5> QED BY <2>2, <3>1, <5>2, <5>3
      <4> QED BY <4>1, <4>2, <4>3
    <3> QED BY <3>1
  <2> HIDE DEF T
  <2> QED BY <2>1, <2>2, Induction
<1>5. P[Len(st)] = Total(s) + PartialSums(t)[Len(t)]
  BY <1>1, <1>4
<1> QED BY <1>5 DEF Total, P, st

\* The total of four numbers.
LEMMA TotalOfFour ==
  ASSUME NEW a \in Nat, NEW b \in Nat, NEW c \in Nat, NEW d \in Nat
  PROVE  Total(<<a, b, c, d>>) = a + b + c + d
<1> DEFINE s == <<a, b, c, d>>
<1>1. s \in Seq(Nat) /\ Len(s) = 4
  OBVIOUS
<1>2. s[1] = a /\ s[2] = b /\ s[3] = c /\ s[4] = d
  OBVIOUS
<1> HIDE DEF s
<1>3. /\ PartialSums(s)[0] = 0
      /\ \A i \in 1 .. 4 : PartialSums(s)[i] = PartialSums(s)[i - 1] + s[i]
  BY <1>1, PartialSumsStep
<1>4. PartialSums(s)[1] = a /\ PartialSums(s)[2] = a + b
  BY <1>2, <1>3
<1>5. PartialSums(s)[4] = a + b + c + d
  BY <1>2, <1>3, <1>4
<1> QED BY <1>1, <1>5 DEF Total, s

\* The total of one number.
LEMMA TotalOfOne ==
  ASSUME NEW a \in Nat
  PROVE  Total(<<a>>) = a
<1> DEFINE s == <<a>>
<1>1. s \in Seq(Nat) /\ Len(s) = 1 /\ s[1] = a
  OBVIOUS
<1> HIDE DEF s
<1>2. /\ PartialSums(s)[0] = 0
      /\ \A i \in 1 .. 1 : PartialSums(s)[i] = PartialSums(s)[i - 1] + s[i]
  BY <1>1, PartialSumsStep
<1>3. PartialSums(s)[1] = a
  BY <1>1, <1>2
<1> QED BY <1>1, <1>3 DEF Total, s

\* The total of two numbers.
LEMMA TotalOfTwo ==
  ASSUME NEW a \in Nat, NEW b \in Nat
  PROVE  Total(<<a, b>>) = a + b
<1> DEFINE s == <<a, b>>
<1>1. s \in Seq(Nat) /\ Len(s) = 2 /\ s[1] = a /\ s[2] = b
  OBVIOUS
<1> HIDE DEF s
<1>2. /\ PartialSums(s)[0] = 0
      /\ \A i \in 1 .. 2 : PartialSums(s)[i] = PartialSums(s)[i - 1] + s[i]
  BY <1>1, PartialSumsStep
<1>3. PartialSums(s)[2] = a + b
  BY <1>1, <1>2
<1> QED BY <1>1, <1>3 DEF Total, s

\* The fields of a local header take as many bytes as the layout counts for it
\* (local_header_len, write_local_header).
LEMMA LocalHeaderBytes ==
  ASSUME NEW plan, NEW i, NameLen(plan.entries[i].name) \in Nat, plan.zip64 \in BOOLEAN
  PROVE  Bytes(LocalHeader(plan, i)) = LocalHeaderLen(plan.entries[i], plan.zip64)
<1> DEFINE n == NameLen(plan.entries[i].name)
           s == <<4, 2, 2, 2, 2, 2, 4, 4>>
           t == <<4, 2, 2, n>>
           u == <<2, 2, 8, 8>>
<1>1. /\ s \in Seq(Nat) /\ t \in Seq(Nat) /\ u \in Seq(Nat) /\ s \o t \in Seq(Nat)
      /\ <<4, 2, 2, 2, 2, 2, 4, 4, 4, 2, 2, n>> = s \o t
      /\ (s \o t) \o <<>> = s \o t
  OBVIOUS
<1>2. LocalHeader(plan, i) = IF plan.zip64 THEN (s \o t) \o u ELSE s \o t
  <2> HIDE DEF s, t, n
  <2>1. LocalHeader(plan, i) = (s \o t) \o IF plan.zip64 THEN u ELSE <<>>
    BY <1>1 DEF LocalHeader, n
  <2> QED BY <1>1, <2>1
<1>3. Total(s) = 22 /\ Total(t) = 8 + n /\ Total(u) = 20
  <2> HIDE DEF n
  <2>1. n \in Nat  BY DEF n
  <2>2. Total(s) = 22
    <3> DEFINE a == <<4, 2, 2, 2>>
               b == <<2, 2, 4, 4>>
    <3>1. a \in Seq(Nat) /\ b \in Seq(Nat) /\ s = a \o b
      OBVIOUS
    <3>2. Total(a) = 4 + 2 + 2 + 2 /\ Total(b) = 2 + 2 + 4 + 4
      BY TotalOfFour
    <3> HIDE DEF a, b, s
    <3> QED BY <3>1, <3>2, TotalOfBoth
  <2>3. Total(t) = 4 + 2 + 2 + n /\ Total(u) = 2 + 2 + 8 + 8  BY <2>1, TotalOfFour
  <2> HIDE DEF s, t, u
  <2> QED BY <2>1, <2>2, <2>3
<1>4. Total(s \o t) = 30 + n /\ Total((s \o t) \o u) = 50 + n
  <2> HIDE DEF s, t, u, n
  <2>1. Total(s \o t) = Total(s) + Total(t)  BY <1>1, TotalOfBoth
  <2>2. Total((s \o t) \o u) = Total(s \o t) + Total(u)  BY <1>1, TotalOfBoth
  <2>3. n \in Nat  BY DEF n
  <2> QED BY <1>3, <2>1, <2>2, <2>3
<1>5. LocalHeaderLen(plan.entries[i], plan.zip64) = 30 + n + IF plan.zip64 THEN 20 ELSE 0
  BY DEF LocalHeaderLen
<1> HIDE DEF s, t, u, n
<1> QED BY <1>2, <1>4, <1>5 DEF Bytes, n

\* So do those of a data descriptor (descriptor_len, write_data_descriptor).
LEMMA DataDescriptorBytes ==
  ASSUME NEW plan, plan.zip64 \in BOOLEAN
  PROVE  Bytes(DataDescriptor(plan)) = DescriptorLen(plan.zip64)
<1>1. Total(<<4, 4, 8, 8>>) = 4 + 4 + 8 + 8 /\ Total(<<4, 4, 4, 4>>) = 4 + 4 + 4 + 4
  BY TotalOfFour
<1>2. DataDescriptor(plan) = IF plan.zip64 THEN <<4, 4, 8, 8>> ELSE <<4, 4, 4, 4>>
  BY DEF DataDescriptor
<1> QED BY <1>1, <1>2 DEF Bytes, DescriptorLen

\* So do those of a central header (central_header_len, write_central_header).
LEMMA CentralHeaderBytes ==
  ASSUME NEW plan, NEW i, NameLen(plan.entries[i].name) \in Nat, plan.zip64 \in BOOLEAN
  PROVE  Bytes(CentralHeader(plan, i)) = CentralHeaderLen(plan.entries[i], plan.zip64)
<1> DEFINE n == NameLen(plan.entries[i].name)
           s == <<4, 2, 2, 2, 2, 2, 2, 4>>
           t == <<4, 4, 2, 2, 2, 2, 2, 4>>
           u == <<4, n>>
           v == <<2, 2, 8, 8>>
           w == <<8>>
<1>1. /\ s \in Seq(Nat) /\ t \in Seq(Nat) /\ s \o t \in Seq(Nat)
      /\ u \in Seq(Nat) /\ v \in Seq(Nat) /\ w \in Seq(Nat) /\ v \o w \in Seq(Nat)
  OBVIOUS
<1>2. /\ <<4, 2, 2, 2, 2, 2, 2, 4, 4, 4, 2, 2, 2, 2, 2, 4, 4, n>> = (s \o t) \o u
      /\ <<2, 2, 8, 8, 8>> = v \o w
  OBVIOUS
<1>3. (s \o t) \o u \in Seq(Nat) /\ ((s \o t) \o u) \o <<>> = (s \o t) \o u
  <2> HIDE DEF s, t, u
  <2> QED BY <1>1
<1>4. CentralHeader(plan, i) =
        IF plan.zip64 THEN ((s \o t) \o u) \o (v \o w) ELSE (s \o t) \o u
  <2> HIDE DEF s, t, u, v, w, n
  <2>1. CentralHeader(plan, i) = ((s \o t) \o u) \o IF plan.zip64 THEN v \o w ELSE <<>>
    BY <1>2 DEF CentralHeader, n
  <2> QED BY <1>3, <2>1
<1>5. /\ Total(s) = 20 /\ Total(t) = 22 /\ Total(u) = 4 + n
      /\ Total(v) = 20 /\ Total(w) = 8
  <2> HIDE DEF n
  <2>1. n \in Nat  BY DEF n
  <2>2. Total(s) = 20
    <3> DEFINE a == <<4, 2, 2, 2>>
               b == <<2, 2, 2, 4>>
    <3>1. a \in Seq(Nat) /\ b \in Seq(Nat) /\ s = a \o b
      OBVIOUS
    <3>2. Total(a) = 4 + 2 + 2 + 2 /\ Total(b) = 2 + 2 + 2 + 4
      BY TotalOfFour
    <3> HIDE DEF a, b, s
    <3> QED BY <3>1, <3>2, TotalOfBoth
  <2>6. Total(t) = 22
    <3> DEFINE a == <<4, 4, 2, 2>>
               b == <<2, 2, 2, 4>>
    <3>1. a \in Seq(Nat) /\ b \in Seq(Nat) /\ t = a \o b
      OBVIOUS
    <3>2. Total(a) = 4 + 4 + 2 + 2 /\ Total(b) = 2 + 2 + 2 + 4
      BY TotalOfFour
    <3> HIDE DEF a, b, t
    <3> QED BY <3>1, <3>2, TotalOfBoth
  <2>3. Total(u) = 4 + n  BY <2>1, TotalOfTwo
  <2>4. Total(v) = 2 + 2 + 8 + 8  BY TotalOfFour
  <2>5. Total(w) = 8  BY TotalOfOne
  <2> HIDE DEF s, t, u, v, w
  <2> QED BY <2>1, <2>2, <2>3, <2>4, <2>5, <2>6
<1>6. Total((s \o t) \o u) = 46 + n /\ Total(((s \o t) \o u) \o (v \o w)) = 74 + n
  <2> HIDE DEF s, t, u, v, w, n
  <2>1. Total(s \o t) = Total(s) + Total(t)  BY <1>1, TotalOfBoth
  <2>2. Total((s \o t) \o u) = Total(s \o t) + Total(u)  BY <1>1, TotalOfBoth
  <2>3. Total(v \o w) = Total(v) + Total(w)  BY <1>1, TotalOfBoth
  <2>4. Total(((s \o t) \o u) \o (v \o w)) = Total((s \o t) \o u) + Total(v \o w)
    BY <1>1, <1>3, TotalOfBoth
  <2>5. n \in Nat  BY DEF n
  <2> QED BY <1>5, <2>1, <2>2, <2>3, <2>4, <2>5
<1>7. CentralHeaderLen(plan.entries[i], plan.zip64) = 46 + n + IF plan.zip64 THEN 28 ELSE 0
  BY DEF CentralHeaderLen
<1> HIDE DEF s, t, u, v, w, n
<1> QED BY <1>4, <1>6, <1>7 DEF Bytes, n

\* So do the records at the end (write_end_records).
LEMMA EndRecordsBytes ==
  ASSUME NEW plan, plan.zip64 \in BOOLEAN
  PROVE  Bytes(EndRecords(plan)) = IF plan.zip64 THEN 56 + 20 + 22 ELSE 22
<1> DEFINE s == <<4, 8, 2, 2, 4, 4, 8, 8>>
           t == <<8, 8>>
           u == <<4, 4, 8, 4>>
           v == <<4, 2, 2, 2, 2, 4, 4, 2>>
<1>1. /\ s \in Seq(Nat) /\ t \in Seq(Nat) /\ u \in Seq(Nat) /\ v \in Seq(Nat)
      /\ s \o t \in Seq(Nat) /\ (s \o t) \o u \in Seq(Nat)
      /\ <<4, 8, 2, 2, 4, 4, 8, 8, 8, 8>> = s \o t
      /\ <<>> \o v = v
  OBVIOUS
<1>2. EndRecords(plan) = IF plan.zip64 THEN ((s \o t) \o u) \o v ELSE v
  <2> HIDE DEF s, t, u, v
  <2>1. EndRecords(plan) = (IF plan.zip64 THEN (s \o t) \o u ELSE <<>>) \o v
    BY <1>1 DEF EndRecords, u, v
  <2> QED BY <1>1, <2>1
<1>3. Total(s) = 40 /\ Total(t) = 16 /\ Total(u) = 20 /\ Total(v) = 22
  <2>1. Total(s) = 40
    <3> DEFINE a == <<4, 8, 2, 2>>
               b == <<4, 4, 8, 8>>
    <3>1. a \in Seq(Nat) /\ b \in Seq(Nat) /\ s = a \o b
      OBVIOUS
    <3>2. Total(a) = 4 + 8 + 2 + 2 /\ Total(b) = 4 + 4 + 8 + 8
      BY TotalOfFour
    <3> HIDE DEF a, b, s
    <3> QED BY <3>1, <3>2, TotalOfBoth
  <2>4. Total(v) = 22
    <3> DEFINE a == <<4, 2, 2, 2>>
               b == <<2, 4, 4, 2>>
    <3>1. a \in Seq(Nat) /\ b \in Seq(Nat) /\ v = a \o b
      OBVIOUS
    <3>2. Total(a) = 4 + 2 + 2 + 2 /\ Total(b) = 2 + 4 + 4 + 2
      BY TotalOfFour
    <3> HIDE DEF a, b, v
    <3> QED BY <3>1, <3>2, TotalOfBoth
  <2>2. Total(t) = 8 + 8  BY TotalOfTwo
  <2>3. Total(u) = 4 + 4 + 8 + 4  BY TotalOfFour
  <2> HIDE DEF s, t, u, v
  <2> QED BY <2>1, <2>2, <2>3, <2>4
<1>4. Total(((s \o t) \o u) \o v) = 98
  <2> HIDE DEF s, t, u, v
  <2>1. Total(s \o t) = Total(s) + Total(t)  BY <1>1, TotalOfBoth
  <2>2. Total((s \o t) \o u) = Total(s \o t) + Total(u)  BY <1>1, TotalOfBoth
  <2>3. Total(((s \o t) \o u) \o v) = Total((s \o t) \o u) + Total(v)
    BY <1>1, TotalOfBoth
  <2> QED BY <1>3, <2>1, <2>2, <2>3
<1> HIDE DEF s, t, u, v
<1> QED BY <1>2, <1>3, <1>4 DEF Bytes

-----------------------------------------------------------------------------
(* The layout of an archive *)

\* What an entry takes between its offset and the next one.
StoredLen(e, zip64) == LocalHeaderLen(e, zip64) + e.size + DescriptorLen(zip64)

\* What a plan says of its entries: they follow one another from the first byte, up to the
\* central directory, which is as long as the plan says.
LaidOut(p, entries, zip64) ==
  LET n == Len(entries)
      next(i) == IF i = n THEN p.centralOffset ELSE p.offsets[i + 1]
  IN  /\ p.entries = entries /\ p.zip64 = zip64
      /\ p.offsets \in [1 .. n -> Nat] /\ p.centralOffset \in Nat
      /\ next(0) = 0
      /\ \A i \in 1 .. n : /\ next(i) = p.offsets[i] + StoredLen(entries[i], zip64)
                           /\ next(i) <= p.centralOffset
      /\ p.centralSize \in Nat
      /\ p.totalLen = p.centralOffset + p.centralSize + IF zip64 THEN 56 + 20 + 22 ELSE 22
      /\ p.totalLen = p.centralOffset + CentralDirectory(p)

\* The layout of any list of entries is exact: the entries follow one another without a gap,
\* and the records written are as long as announced (ZipPlan::layout, web_zip.rs).
THEOREM LayoutIsExact ==
  ASSUME NEW E, \A e \in E : e.size \in Nat /\ NameLen(e.name) \in Nat,
         NEW entries \in Seq(E), NEW zip64 \in BOOLEAN
  PROVE  LaidOut(Layout(entries, zip64), entries, zip64)
<1> DEFINE n == Len(entries)
           stored == [i \in DOMAIN entries |-> LocalHeaderLen(entries[i], zip64)
                                                 + entries[i].size + DescriptorLen(zip64)]
           central == [i \in DOMAIN entries |-> CentralHeaderLen(entries[i], zip64)]
           offset == PartialSums(stored)
           p == Layout(entries, zip64)
           next(i) == IF i = n THEN p.centralOffset ELSE p.offsets[i + 1]
<1>1. n \in Nat /\ DOMAIN entries = 1 .. n
      /\ \A i \in 1 .. n : /\ entries[i] \in E /\ entries[i].size \in Nat
                           /\ NameLen(entries[i].name) \in Nat
  OBVIOUS
<1>2. \A i \in 1 .. n : /\ StoredLen(entries[i], zip64) \in Nat
                        /\ CentralHeaderLen(entries[i], zip64) \in Nat
  <2>1. ASSUME NEW e, e.size \in Nat, NameLen(e.name) \in Nat
        PROVE  StoredLen(e, zip64) \in Nat /\ CentralHeaderLen(e, zip64) \in Nat
    <3>1. LocalHeaderLen(e, zip64) \in Nat  BY <2>1 DEF LocalHeaderLen
    <3>2. DescriptorLen(zip64) \in Nat  BY DEF DescriptorLen
    <3>3. CentralHeaderLen(e, zip64) \in Nat  BY <2>1 DEF CentralHeaderLen
    <3>4. LocalHeaderLen(e, zip64) + e.size + DescriptorLen(zip64) \in Nat
      BY <2>1, <3>1, <3>2
    <3> QED BY <3>3, <3>4 DEF StoredLen
  <2> QED BY <1>1, <2>1
<1>3. /\ stored \in Seq(Nat) /\ Len(stored) = n
      /\ \A i \in 1 .. n : stored[i] = StoredLen(entries[i], zip64)
  <2> HIDE DEF n
  <2>1. stored = [i \in 1 .. n |-> StoredLen(entries[i], zip64)]
    BY <1>1 DEF StoredLen
  <2> HIDE DEF stored
  <2> QED BY <1>1, <1>2, <2>1
<1>4. central \in Seq(Nat) /\ Len(central) = n
  <2> HIDE DEF n
  <2>1. central = [i \in 1 .. n |-> CentralHeaderLen(entries[i], zip64)]
    BY <1>1
  <2>2. \A i \in 1 .. n : CentralHeaderLen(entries[i], zip64) \in Nat
    BY <1>2
  <2> HIDE DEF central
  <2> QED BY <1>1, <2>1, <2>2
<1>5. /\ p.entries = entries /\ p.zip64 = zip64
      /\ p.offsets = [i \in DOMAIN entries |-> offset[i - 1]]
      /\ p.centralOffset = offset[n] /\ p.centralSize = Total(central)
      /\ p.totalLen = offset[n] + Total(central) + IF zip64 THEN 56 + 20 + 22 ELSE 22
  BY DEF Layout
<1> HIDE DEF p, stored, central, n
<1>6. /\ offset[0] = 0
      /\ \A i \in 1 .. n : offset[i] = offset[i - 1] + StoredLen(entries[i], zip64)
  BY <1>1, <1>3, PartialSumsStep
<1>7. \A i \in 0 .. n : offset[i] \in Nat /\ offset[i] <= offset[n]
  BY <1>1, <1>3, PartialSumsType, PartialSumsGrow
<1>8. Total(central) \in Nat
  BY <1>1, <1>4, PartialSumsType DEF Total
<1> HIDE DEF offset
<1>9. p.offsets \in [1 .. n -> Nat]
  BY <1>1, <1>5, <1>7
<1>10. next(0) = 0
  BY <1>1, <1>5, <1>6
<1>11. ASSUME NEW i \in 1 .. n
       PROVE  /\ next(i) = p.offsets[i] + StoredLen(entries[i], zip64)
              /\ next(i) <= p.centralOffset
  <2>1. next(i) = offset[i]
    <3>1. CASE i = n  BY <1>5, <3>1
    <3>2. CASE i # n
      <4>1. i + 1 \in 1 .. n /\ (i + 1) - 1 = i  BY <1>1, <3>2
      <4> QED BY <1>1, <1>5, <3>2, <4>1
    <3> QED BY <3>1, <3>2
  <2>2. p.offsets[i] = offset[i - 1]
    BY <1>1, <1>5
  <2> QED BY <1>1, <1>5, <1>6, <1>7, <2>1, <2>2
<1>12. p.totalLen = p.centralOffset + CentralDirectory(p)
  <2>1. central = [i \in DOMAIN p.entries |-> Bytes(CentralHeader(p, i))]
    <3>1. ASSUME NEW i \in 1 .. n
          PROVE  Bytes(CentralHeader(p, i)) = CentralHeaderLen(entries[i], zip64)
      <4>1. NameLen(p.entries[i].name) \in Nat /\ p.zip64 \in BOOLEAN
        BY <1>1, <1>5
      <4> QED BY <1>5, <4>1, CentralHeaderBytes
    <3> QED BY <1>1, <1>5, <3>1 DEF central
  <2>2. Bytes(EndRecords(p)) = IF zip64 THEN 56 + 20 + 22 ELSE 22
    BY <1>5, EndRecordsBytes
  <2>3. CentralDirectory(p) = Total(central) + Bytes(EndRecords(p))
    BY <2>1 DEF CentralDirectory
  <2>4. PICK records : records = Bytes(EndRecords(p))
    OBVIOUS
  <2>5. p.totalLen = p.centralOffset + p.centralSize + records
    <3> HIDE DEF p
    <3> QED BY <1>5, <2>2, <2>4
  <2>6. p.centralSize = Total(central)
    BY <1>5
  <2>7. p.centralOffset \in Nat /\ p.centralSize \in Nat /\ records \in Nat
    BY <1>1, <1>5, <1>7, <1>8, <2>2, <2>4
  <2>8. CentralDirectory(p) = p.centralSize + records
    BY <2>3, <2>4, <2>6
  <2> HIDE DEF p
  <2> QED BY <2>5, <2>7, <2>8
<1>13. /\ p.centralSize \in Nat /\ p.centralOffset \in Nat
       /\ p.totalLen = p.centralOffset + p.centralSize + IF zip64 THEN 56 + 20 + 22 ELSE 22
  BY <1>1, <1>5, <1>7, <1>8
<1> QED BY <1>5, <1>9, <1>10, <1>11, <1>12, <1>13 DEF p, n, LaidOut

\* The length of a plan is a number.
LEMMA LayoutLength ==
  ASSUME NEW E, \A e \in E : e.size \in Nat /\ NameLen(e.name) \in Nat,
         NEW entries \in Seq(E), NEW zip64 \in BOOLEAN
  PROVE  Layout(entries, zip64).totalLen \in Nat
<1>1. PICK p : p = Layout(entries, zip64)
  OBVIOUS
<1>2. LaidOut(p, entries, zip64)
  BY <1>1, LayoutIsExact
<1>3. p.totalLen \in Nat
  BY <1>2 DEF LaidOut
<1> QED BY <1>1, <1>3

-----------------------------------------------------------------------------
(* The names of the entries *)

\* A part of a path, or the name of a nameless file.
PathPart == STRING \cup {"file"}

\* The candidates for the name of an entry: its clean name, and that with a number.
NameOf(parts, n) ==
  LET clean == [path |-> CleanEntryName(parts), suffix |-> <<>>]
  IN  IF n = 1 THEN clean ELSE WithSuffix(clean, n)

\* What a name of an entry is made of.
Names == [path : Seq(PathPart), suffix : Seq(Nat)]

\* A name that has a part, and none that is empty or leads elsewhere.
Meaningful(name) ==
  /\ name \in Names /\ name.path # <<>> /\ Len(name.suffix) \in Nat
  /\ \A k \in 1 .. Len(name.path) : name.path[k] \notin Meaningless

\* The meaningful parts among the first i, when g holds those of fewer.
KeptNext(g, parts, i) ==
  IF i = 0 THEN <<>>
  ELSE IF parts[i] \in Meaningless THEN g[i - 1] ELSE Append(g[i - 1], parts[i])

\* The recursive function of CleanEntryName exists.
LEMMA KeptExists ==
  ASSUME NEW parts \in Seq(PathPart)
  PROVE  \E g : g = [i \in 0 .. Len(parts) |-> KeptNext(g, parts, i)]
<1> DEFINE S == {n \in Nat : n <= Len(parts) => \E g : g = [i \in 0 .. n |-> KeptNext(g, parts, i)]}
<1>1. 0 \in S
  <2> DEFINE g == [i \in 0 .. 0 |-> <<>>]
  <2>1. g = [i \in 0 .. 0 |-> KeptNext(g, parts, i)]
    BY DEF KeptNext
  <2> HIDE DEF g
  <2> QED BY <2>1
<1>2. ASSUME NEW n \in Nat, n \in S PROVE n + 1 \in S
  <2> SUFFICES ASSUME n + 1 <= Len(parts)
               PROVE  \E g : g = [i \in 0 .. n + 1 |-> KeptNext(g, parts, i)]
    OBVIOUS
  <2>1. PICK g : g = [i \in 0 .. n |-> KeptNext(g, parts, i)]
    BY <1>2
  <2> DEFINE h == [i \in 0 .. n + 1 |-> IF i <= n THEN g[i] ELSE KeptNext(g, parts, i)]
  <2>2. ASSUME NEW i \in 0 .. n + 1
        PROVE  h[i] = KeptNext(h, parts, i)
    <3>1. i > 0 => h[i - 1] = g[i - 1]
      OBVIOUS
    <3>2. h[i] = KeptNext(g, parts, i)
      <4>1. i <= n => g[i] = KeptNext(g, parts, i)
        <5> HIDE DEF h
        <5> QED BY <2>1
      <4> QED BY <4>1
    <3> HIDE DEF h
    <3> QED BY <3>1, <3>2 DEF KeptNext
  <2>3. h = [i \in 0 .. n + 1 |-> KeptNext(h, parts, i)]
    <3>1. h = [i \in 0 .. n + 1 |-> h[i]]  OBVIOUS
    <3> HIDE DEF h
    <3> QED BY <2>2, <3>1
  <2> HIDE DEF h
  <2> QED BY <2>3
<1>3. \A n \in Nat : n \in S
  <2> HIDE DEF S
  <2> QED BY <1>1, <1>2, Induction
<1>4. Len(parts) \in S /\ Len(parts) <= Len(parts)
  <2> HIDE DEF S
  <2>1. Len(parts) \in Nat  OBVIOUS
  <2> QED BY <1>3, <2>1
<1> QED BY <1>4

\* A sequence of one element.
LEMMA OnePart ==
  ASSUME NEW T, NEW x \in T
  PROVE  /\ <<x>> \in Seq(T) /\ <<x>> # <<>>
         /\ Len(<<x>>) = 1 /\ <<x>>[1] = x
OBVIOUS

\* clean_entry_name: what is left of any name is a path that stays inside.
LEMMA CleanNameIsMeaningful ==
  ASSUME NEW parts \in Seq(PathPart)
  PROVE  /\ CleanEntryName(parts) \in Seq(PathPart) /\ CleanEntryName(parts) # <<>>
         /\ \A k \in 1 .. Len(CleanEntryName(parts)) :
              CleanEntryName(parts)[k] \notin Meaningless
<1> DEFINE kept == CHOOSE g : g = [i \in 0 .. Len(parts) |->
                       IF i = 0 THEN <<>>
                       ELSE IF parts[i] \in Meaningless THEN g[i - 1]
                       ELSE Append(g[i - 1], parts[i])]
           Clean(s) == s \in Seq(PathPart) /\ \A k \in 1 .. Len(s) : s[k] \notin Meaningless
           S == {n \in Nat : n <= Len(parts) => Clean(kept[n])}
<1>1. kept = [i \in 0 .. Len(parts) |->
                       IF i = 0 THEN <<>>
                       ELSE IF parts[i] \in Meaningless THEN kept[i - 1]
                       ELSE Append(kept[i - 1], parts[i])]
  BY KeptExists, Zenon DEF KeptNext
<1>2. CleanEntryName(parts) = IF kept[Len(parts)] = <<>> THEN <<"file">> ELSE kept[Len(parts)]
  BY Zenon DEF CleanEntryName
<1> HIDE DEF kept
<1>3. \A n \in Nat : n \in S
  <2>1. 0 \in S
    <3>1. kept[0] = <<>>  BY <1>1
    <3>2. Clean(<<>>)  OBVIOUS
    <3> HIDE DEF Clean
    <3> QED BY <3>1, <3>2
  <2>2. ASSUME NEW n \in Nat, n \in S PROVE n + 1 \in S
    <3>1. ASSUME n + 1 <= Len(parts) PROVE Clean(kept[n + 1])
      <4>1. kept[n + 1] = IF parts[n + 1] \in Meaningless THEN kept[n]
                          ELSE Append(kept[n], parts[n + 1])
        <5>1. n + 1 \in 0 .. Len(parts) /\ n + 1 # 0 /\ (n + 1) - 1 = n  BY <3>1
        <5> QED BY <1>1, <5>1
      <4>2. Clean(kept[n]) /\ parts[n + 1] \in PathPart
        <5>1. n <= Len(parts) /\ n + 1 \in 1 .. Len(parts)  BY <3>1
        <5>2. parts[n + 1] \in PathPart  BY <5>1
        <5> HIDE DEF Clean
        <5> QED BY <2>2, <5>1, <5>2
      <4>3. CASE parts[n + 1] \in Meaningless
        BY <4>1, <4>2, <4>3
      <4>4. CASE parts[n + 1] \notin Meaningless
        <5> DEFINE s == kept[n]
                   t == Append(s, parts[n + 1])
        <5>1. kept[n + 1] = t  BY <4>1, <4>4
        <5>2. t \in Seq(PathPart) /\ Len(t) = Len(s) + 1
          BY <4>2
        <5>3. ASSUME NEW k \in 1 .. Len(t) PROVE t[k] \notin Meaningless
          <6>1. t[k] = IF k <= Len(s) THEN s[k] ELSE parts[n + 1]  BY <4>2
          <6>2. k <= Len(s) => k \in 1 .. Len(s)  BY <4>2, <5>2
          <6> HIDE DEF s, t
          <6> QED BY <4>2, <4>4, <6>1, <6>2 DEF s
        <5> HIDE DEF t
        <5> QED BY <5>1, <5>2, <5>3
      <4> QED BY <4>3, <4>4
    <3> HIDE DEF Clean
    <3> QED BY <3>1
  <2> HIDE DEF S
  <2> QED BY <2>1, <2>2, Induction
<1>4. Clean(kept[Len(parts)])
  <2>1. Len(parts) \in Nat  OBVIOUS
  <2> HIDE DEF Clean
  <2> QED BY <1>3, <2>1
<1>5. Clean(<<"file">>) /\ <<"file">> # <<>>
  <2>1. "file" \notin Meaningless  BY DEF Meaningless
  <2>2. "file" \in PathPart
    BY DEF PathPart
  <2> QED BY <2>1, <2>2, OnePart
<1> QED BY <1>2, <1>4, <1>5

\* So is a candidate, and two of them differ in their suffix.
LEMMA CandidatesAreNames ==
  ASSUME NEW parts \in Seq(PathPart), NEW n \in Nat
  PROVE  /\ Meaningful(NameOf(parts, n))
         /\ NameLen(NameOf(parts, n)) \in Nat
         /\ NameOf(parts, n).suffix = IF n = 1 THEN <<>> ELSE <<n>>
<1> DEFINE c == CleanEntryName(parts)
<1>1. /\ c \in Seq(PathPart) /\ c # <<>> /\ Len(c) \in Nat \ {0}
      /\ \A k \in 1 .. Len(c) : c[k] \notin Meaningless
  <2>1. c \in Seq(PathPart) /\ c # <<>> /\ \A k \in 1 .. Len(c) : c[k] \notin Meaningless
    BY CleanNameIsMeaningful
  <2> HIDE DEF c
  <2> QED BY <2>1
<1>2. NameOf(parts, n) = [path |-> c, suffix |-> IF n = 1 THEN <<>> ELSE <<n>>]
  BY DEF NameOf, WithSuffix
<1> HIDE DEF c
<1> QED BY <1>1, <1>2 DEF Meaningful, Names, NameLen

\* Lower case tells two suffixes apart as well.
LEMMA LowerKeepsSuffix ==
  ASSUME NEW parts \in Seq(PathPart), NEW n \in Nat
  PROVE  Lower(NameOf(parts, n)).suffix = NameOf(parts, n).suffix
BY CandidatesAreNames DEF Lower, Meaningful, Names

\* entry_name: some candidate is not used yet, and one that is not used is chosen.
LEMMA EntryNameIsNew ==
  ASSUME NEW parts \in Seq(PathPart), NEW used, IsFiniteSet(used)
  PROVE  /\ Lower(EntryName(parts, used)) \notin used
         /\ \E n \in Nat : EntryName(parts, used) = NameOf(parts, n)
<1> DEFINE c == Cardinality(used)
           free == {n \in 1 .. c + 1 : Lower(NameOf(parts, n)) \notin used}
           f == [n \in 1 .. c + 1 |-> Lower(NameOf(parts, n))]
<1>1. c \in Nat
  BY FS_CardinalityType
<1>2. free # {}
  <2>1. SUFFICES ASSUME free = {} PROVE FALSE
    OBVIOUS
  <2>2. f \in [1 .. c + 1 -> used]
    BY <2>1
  <2>3. IsFiniteSet(1 .. c + 1) /\ Cardinality(1 .. c + 1) = c + 1
    <3>1. 1 \in Int /\ c + 1 \in Int /\ ~ (1 > c + 1) /\ (c + 1) - 1 + 1 = c + 1
      BY <1>1
    <3> HIDE DEF c
    <3> QED BY <3>1, FS_Interval
  <2>4. PICK x \in 1 .. c + 1, y \in 1 .. c + 1 : x # y /\ f[x] = f[y]
    <3>1. c < c + 1  BY <1>1
    <3> HIDE DEF f
    <3> QED BY <2>2, <2>3, <3>1, FS_PigeonHole
  <2>5. Lower(NameOf(parts, x)).suffix = Lower(NameOf(parts, y)).suffix
    BY <2>4
  <2>6. x \in Nat /\ y \in Nat
    BY <1>1
  <2>7. (IF x = 1 THEN <<>> ELSE <<x>>) = (IF y = 1 THEN <<>> ELSE <<y>>)
    BY <2>5, <2>6, LowerKeepsSuffix, CandidatesAreNames
  <2> QED BY <2>4, <2>6, <2>7
<1>3. Min(free) \in free
  <2>1. free \in SUBSET Nat  OBVIOUS
  <2> HIDE DEF free
  <2>2. \E m \in free : \A k \in free : m <= k
    BY <1>2, <2>1, LeastNumber
  <2> QED BY <2>2 DEF Min
<1>4. EntryName(parts, used) = NameOf(parts, Min(free))
  BY DEF EntryName, NameOf
<1>5. Min(free) \in Nat /\ Lower(NameOf(parts, Min(free))) \notin used
  BY <1>3
<1> HIDE DEF free
<1> QED BY <1>4, <1>5

\* What ZipEntryNames puts in place i when g holds the names before it.
NameAt(g, files, i) == EntryName(files[i], {Lower(g[j]) : j \in 1 .. i - 1})

\* The recursive function of ZipEntryNames exists.
LEMMA EntryNamesExist ==
  ASSUME NEW files, Len(files) \in Nat
  PROVE  \E g : g = [i \in 1 .. Len(files) |-> NameAt(g, files, i)]
<1> DEFINE S == {n \in Nat : \E g : g = [i \in 1 .. n |-> NameAt(g, files, i)]}
<1>1. 0 \in S
  <2> DEFINE g == [i \in 1 .. 0 |-> 0]
  <2>1. g = [i \in 1 .. 0 |-> NameAt(g, files, i)]
    OBVIOUS
  <2> HIDE DEF g
  <2> QED BY <2>1
<1>2. ASSUME NEW n \in Nat, n \in S PROVE n + 1 \in S
  <2>1. PICK g : g = [i \in 1 .. n |-> NameAt(g, files, i)]
    BY <1>2
  <2> DEFINE h == [i \in 1 .. n + 1 |-> IF i <= n THEN g[i] ELSE NameAt(g, files, i)]
  <2>2. ASSUME NEW i \in 1 .. n + 1
        PROVE  h[i] = NameAt(h, files, i)
    <3>1. {Lower(h[j]) : j \in 1 .. i - 1} = {Lower(g[j]) : j \in 1 .. i - 1}
      <4>1. \A j \in 1 .. i - 1 : h[j] = g[j]
        OBVIOUS
      <4> HIDE DEF h
      <4> QED BY <4>1
    <3>2. h[i] = NameAt(g, files, i)
      <4>1. i <= n => g[i] = NameAt(g, files, i)
        <5> HIDE DEF h
        <5> QED BY <2>1
      <4> QED BY <4>1
    <3> HIDE DEF h
    <3> QED BY <3>1, <3>2 DEF NameAt
  <2>3. h = [i \in 1 .. n + 1 |-> NameAt(h, files, i)]
    <3>1. h = [i \in 1 .. n + 1 |-> h[i]]  OBVIOUS
    <3> HIDE DEF h
    <3> QED BY <2>2, <3>1
  <2> HIDE DEF h
  <2> QED BY <2>3
<1>3. \A n \in Nat : n \in S
  <2> HIDE DEF S
  <2> QED BY <1>1, <1>2, Induction
<1>4. Len(files) \in S
  <2> HIDE DEF S
  <2> QED BY <1>3
<1> QED BY <1>4

\* Each name is chosen against the ones before it.
LEMMA EntryNamesStep ==
  ASSUME NEW files, Len(files) \in Nat
  PROVE  ZipEntryNames(files) =
           [i \in 1 .. Len(files) |-> NameAt(ZipEntryNames(files), files, i)]
BY EntryNamesExist, Zenon DEF ZipEntryNames, NameAt

\* zip_entry_names: no two entries of an archive share a name, in whatever case
\* they are written, and every name is a path of parts that stay inside.
THEOREM EntryNamesAreDistinct ==
  ASSUME NEW files \in Seq(Seq(STRING))
  PROVE  /\ \A i \in 1 .. Len(files) :
              /\ Meaningful(ZipEntryNames(files)[i])
              /\ NameLen(ZipEntryNames(files)[i]) \in Nat
         /\ \A i, j \in 1 .. Len(files) :
              i # j => Lower(ZipEntryNames(files)[i]) # Lower(ZipEntryNames(files)[j])
<1> DEFINE names == ZipEntryNames(files)
           Used(i) == {Lower(names[j]) : j \in 1 .. i - 1}
<1>1. Len(files) \in Nat /\ \A i \in 1 .. Len(files) : files[i] \in Seq(PathPart)
  <2>1. \A i \in 1 .. Len(files) : files[i] \in Seq(STRING)
    OBVIOUS
  <2>2. ASSUME NEW s \in Seq(STRING) PROVE s \in Seq(PathPart)
    BY DEF PathPart
  <2> QED BY <2>1, <2>2
<1>2. \A i \in 1 .. Len(files) : names[i] = EntryName(files[i], Used(i))
  BY <1>1, EntryNamesStep DEF NameAt
<1> HIDE DEF names
<1>3. ASSUME NEW i \in 1 .. Len(files)
      PROVE  IsFiniteSet(Used(i))
  <2> DEFINE f == [j \in 1 .. i - 1 |-> Lower(names[j])]
  <2>1. IsFiniteSet(1 .. i - 1)
    <3>1. 1 \in Int /\ i - 1 \in Int  BY <1>1
    <3> QED BY <3>1, FS_Interval
  <2>2. f \in Surjection(1 .. i - 1, Used(i))
    BY DEF Surjection
  <2> HIDE DEF f
  <2> QED BY <2>1, <2>2, FS_Surjection
<1>4. ASSUME NEW i \in 1 .. Len(files)
      PROVE  /\ Meaningful(names[i]) /\ NameLen(names[i]) \in Nat
             /\ Lower(names[i]) \notin Used(i)
  <2>1. files[i] \in Seq(PathPart) /\ IsFiniteSet(Used(i)) /\ names[i] = EntryName(files[i], Used(i))
    BY <1>1, <1>2, <1>3
  <2> HIDE DEF Used
  <2>2. /\ Lower(names[i]) \notin Used(i)
        /\ \E n \in Nat : names[i] = NameOf(files[i], n)
    BY <2>1, EntryNameIsNew
  <2> QED BY <2>1, <2>2, CandidatesAreNames
<1>5. ASSUME NEW i \in 1 .. Len(files), NEW j \in 1 .. Len(files), i < j
      PROVE  Lower(names[i]) # Lower(names[j])
  <2>1. i \in 1 .. j - 1  BY <1>1, <1>5
  <2>2. Lower(names[i]) \in Used(j)  BY <2>1
  <2> HIDE DEF Used
  <2> QED BY <1>4, <2>2
<1>6. ASSUME NEW i \in 1 .. Len(files), NEW j \in 1 .. Len(files), i # j
      PROVE  Lower(names[i]) # Lower(names[j])
  <2>1. i < j \/ j < i  BY <1>1, <1>6
  <2> QED BY <1>5, <2>1
<1> QED BY <1>4, <1>6 DEF names

-----------------------------------------------------------------------------
(* The checksum *)

\* A register of 32 bits, as the set of those that are 1.
Word == SUBSET (0 .. 31)

\* The bits of an exclusive or.
LEMMA InSymDiff ==
  ASSUME NEW A, NEW B, NEW e
  PROVE  e \in SymDiff(A, B) <=> (e \in A /\ e \notin B) \/ (e \notin A /\ e \in B)
BY DEF SymDiff

\* The bits of a shifted register.
LEMMA InShiftRight ==
  ASSUME NEW w \in SUBSET Nat, NEW n \in Nat, NEW j \in Int
  PROVE  j \in ShiftRight(w, n) <=> j \in Nat /\ j + n \in w
<1>1. ASSUME j \in ShiftRight(w, n) PROVE j \in Nat /\ j + n \in w
  <2>1. PICK b \in w : b >= n /\ j = b - n  BY <1>1 DEF ShiftRight
  <2> QED BY <2>1
<1>2. ASSUME j \in Nat, j + n \in w PROVE j \in ShiftRight(w, n)
  <2>1. j = (j + n) - n /\ j + n >= n  BY <1>2
  <2> QED BY <1>2, <2>1 DEF ShiftRight
<1> QED BY <1>1, <1>2

\* A shifted register is a register.
LEMMA ShiftedIsWord ==
  ASSUME NEW w \in Word, NEW n \in Nat
  PROVE  ShiftRight(w, n) \in Word
<1>1. ASSUME NEW j \in ShiftRight(w, n) PROVE j \in 0 .. 31
  <2>1. PICK b \in w : b >= n /\ j = b - n  BY <1>1 DEF ShiftRight
  <2> QED BY <2>1 DEF Word
<1> QED BY <1>1 DEF Word

\* The constant of the table is the generator of CRC-32, its bits reflected.
LEMMA DivisorIsReflected ==
  /\ CrcDivisor \in Word
  /\ \A j \in Nat : j \in CrcDivisor <=> 31 - j \in Generator
  /\ 32 \in Generator /\ \A g \in Generator : g \in 0 .. 32
<1>1. ASSUME NEW j \in Nat PROVE j \in CrcDivisor <=> 31 - j \in Generator
  BY DEF CrcDivisor, Generator
<1> QED BY <1>1 DEF CrcDivisor, Generator, Word

\* One bit of the message: the register is shifted, and the divisor subtracted
\* if the bit that leaves it differs from bit e of the message.
BitStep(c, e, bits) ==
  IF ~ (0 \in c <=> e \in bits) THEN SymDiff(CrcDivisor, ShiftRight(c, 1)) ELSE ShiftRight(c, 1)

\* The steps stay within the register.
LEMMA CrcStepIsWord ==
  ASSUME NEW c \in Word, NEW e, NEW bits
  PROVE  CrcStep(c) \in Word /\ BitStep(c, e, bits) \in Word
<1>1. ShiftRight(c, 1) \in Word
  BY ShiftedIsWord
<1>2. SymDiff(CrcDivisor, ShiftRight(c, 1)) \in Word
  BY <1>1, DivisorIsReflected DEF SymDiff, Word
<1> QED BY <1>1, <1>2 DEF CrcStep, BitStep

\* The bits after one step of the division, bit by bit of the message.
LEMMA InBitStep ==
  ASSUME NEW c \in Word, NEW e, NEW bits, NEW j \in Nat
  PROVE  j \in BitStep(c, e, bits) <=>
           ~ (j + 1 \in c <=> j \in CrcDivisor /\ ~ (0 \in c <=> e \in bits))
<1>1. j \in ShiftRight(c, 1) <=> j + 1 \in c
  <2>1. c \in SUBSET Nat  BY DEF Word
  <2> QED BY <2>1, InShiftRight
<1>2. j \in SymDiff(CrcDivisor, ShiftRight(c, 1)) <=>
        ~ (j \in CrcDivisor <=> j + 1 \in c)
  BY <1>1, InSymDiff
<1>3. CASE ~ (0 \in c <=> e \in bits)
  BY <1>2, <1>3 DEF BitStep
<1>4. CASE 0 \in c <=> e \in bits
  BY <1>1, <1>4 DEF BitStep
<1> QED BY <1>3, <1>4

\* The bits after one step of the table's computation.
LEMMA InCrcStep ==
  ASSUME NEW c \in Word, NEW j \in Nat
  PROVE  j \in CrcStep(c) <=> ~ (j + 1 \in c <=> j \in CrcDivisor /\ 0 \in c)
<1>1. CrcStep(c) = BitStep(c, 0, {})
  BY DEF CrcStep, BitStep
<1> QED BY <1>1, InBitStep

\* One bit of a byte in both forms: the bits of the byte still to come are added
\* to the register c in one, and were added before the first step in the other,
\* where the rest of the register waits in h.
LEMMA BitStepIsTableStep ==
  ASSUME NEW c \in Word, NEW x \in Word, NEW h \in SUBSET (8 .. 31),
         NEW byte \in Byte, NEW t \in 0 .. 7,
         SymDiff(c, ShiftRight(byte, t)) = SymDiff(x, ShiftRight(h, t))
  PROVE  SymDiff(BitStep(c, t, byte), ShiftRight(byte, t + 1))
           = SymDiff(CrcStep(x), ShiftRight(h, t + 1))
<1>1. byte \in SUBSET Nat /\ h \in SUBSET Nat /\ t \in Nat /\ t + 1 \in Nat
  BY DEF Byte
<1>2. ASSUME NEW j \in Nat
      PROVE  ~ (j \in c <=> j + t \in byte) <=> ~ (j \in x <=> j + t \in h)
  <2>1. j \in ShiftRight(byte, t) <=> j + t \in byte
    BY <1>1, InShiftRight
  <2>2. j \in ShiftRight(h, t) <=> j + t \in h
    BY <1>1, InShiftRight
  <2>3. j \in SymDiff(c, ShiftRight(byte, t)) <=> ~ (j \in c <=> j + t \in byte)
    BY <2>1, InSymDiff
  <2>4. j \in SymDiff(x, ShiftRight(h, t)) <=> ~ (j \in x <=> j + t \in h)
    BY <2>2, InSymDiff
  <2> QED BY <2>3, <2>4
<1>3. ~ (0 \in c <=> t \in byte) <=> 0 \in x
  <2>1. t \notin h  OBVIOUS
  <2>2. 0 + t = t  BY <1>1
  <2> QED BY <1>2, <2>1, <2>2
<1>4. ASSUME NEW j \in Nat
      PROVE  j \in SymDiff(BitStep(c, t, byte), ShiftRight(byte, t + 1)) <=>
               j \in SymDiff(CrcStep(x), ShiftRight(h, t + 1))
  <2>1. /\ j \in ShiftRight(byte, t + 1) <=> (j + 1) + t \in byte
        /\ j \in ShiftRight(h, t + 1) <=> (j + 1) + t \in h
    <3>1. j + (t + 1) = (j + 1) + t  BY <1>1
    <3>2. j \in ShiftRight(byte, t + 1) <=> j + (t + 1) \in byte
      BY <1>1, InShiftRight
    <3>3. j \in ShiftRight(h, t + 1) <=> j + (t + 1) \in h
      <4>1. j \in Int  OBVIOUS
      <4> QED BY <1>1, <4>1, InShiftRight, Zenon
    <3> QED BY <3>1, <3>2, <3>3
  <2>2. j \in BitStep(c, t, byte) <=> ~ (j + 1 \in c <=> j \in CrcDivisor /\ 0 \in x)
    BY <1>3, InBitStep
  <2>3. j \in CrcStep(x) <=> ~ (j + 1 \in x <=> j \in CrcDivisor /\ 0 \in x)
    BY InCrcStep
  <2>4. ~ (j + 1 \in c <=> (j + 1) + t \in byte) <=> ~ (j + 1 \in x <=> (j + 1) + t \in h)
    <3>1. j + 1 \in Nat  OBVIOUS
    <3> QED BY <1>2, <3>1
  <2> QED BY <2>1, <2>2, <2>3, <2>4, InSymDiff
<1>5. /\ SymDiff(BitStep(c, t, byte), ShiftRight(byte, t + 1)) \in SUBSET Nat
      /\ SymDiff(CrcStep(x), ShiftRight(h, t + 1)) \in SUBSET Nat
  <2>1. BitStep(c, t, byte) \in Word /\ CrcStep(x) \in Word
    BY CrcStepIsWord
  <2>2. byte \in Word /\ h \in Word
    BY DEF Byte, Word
  <2>3. ShiftRight(byte, t + 1) \in Word /\ ShiftRight(h, t + 1) \in Word
    BY <1>1, <2>2, ShiftedIsWord
  <2> QED BY <2>1, <2>3 DEF SymDiff, Word
<1> QED BY <1>4, <1>5

\* The dividend p when its terms above `top` are gone: the message below, with the
\* register subtracted from its first 32 terms.
Dividend(p, message, top, c) ==
  /\ p \in SUBSET Int
  /\ \A d \in Int : d \in p <=> d <= top /\ ~ (d \in message <=> top - d \in c)

\* One step of the division of CrcOf: the generator is subtracted below term d, if p has it.
Reduced(p, d) ==
  IF d \in p THEN SymDiff(p, {d - 32 + g : g \in Generator}) ELSE p

\* One step of the division is one step of the register.
LEMMA ReduceIsBitStep ==
  ASSUME NEW message \in SUBSET Int, NEW top \in Int, NEW c \in Word, NEW p,
         Dividend(p, message, top, c)
  PROVE  Dividend(Reduced(p, top), message, top - 1, BitStep(c, top, message))
<1> DEFINE shifted == {top - 32 + g : g \in Generator}
           v == ~ (0 \in c <=> top \in message)
<1>1. top \in p <=> v
  <2>1. top - top = 0  OBVIOUS
  <2> QED BY <2>1 DEF Dividend
<1>2. \A d \in Int : d \in shifted <=> d - top + 32 \in Generator
  <2>1. ASSUME NEW d \in Int, d \in shifted PROVE d - top + 32 \in Generator
    <3>1. PICK g \in Generator : d = top - 32 + g  BY <2>1
    <3>2. g \in Int  BY DivisorIsReflected
    <3>3. d - top + 32 = g  BY <3>1, <3>2
    <3> QED BY <3>3
  <2>2. ASSUME NEW d \in Int, d - top + 32 \in Generator PROVE d \in shifted
    <3>1. d = top - 32 + (d - top + 32)  OBVIOUS
    <3> QED BY <2>2, <3>1
  <2> QED BY <2>1, <2>2
<1>3. shifted \in SUBSET Int
  <2>1. \A g \in Generator : g \in Int  BY DivisorIsReflected
  <2> QED BY <2>1
<1> HIDE DEF shifted
<1>4. Reduced(p, top) = IF top \in p THEN SymDiff(p, shifted) ELSE p
  BY DEF Reduced, shifted
<1>5. ASSUME NEW d \in Int
      PROVE  d \in Reduced(p, top) <=> ~ (d \in p <=> v /\ d - top + 32 \in Generator)
  BY <1>1, <1>2, <1>4, InSymDiff
<1>6. Reduced(p, top) \in SUBSET Int
  BY <1>3, <1>4 DEF Dividend, SymDiff
<1>7. ASSUME NEW d \in Int
      PROVE  d \in Reduced(p, top) <=>
               /\ d <= top - 1
               /\ ~ (d \in message <=> (top - 1) - d \in BitStep(c, top, message))
  <2>1. CASE d > top
    <3>1. d \notin p  BY <2>1 DEF Dividend
    <3>2. d - top + 32 \notin Generator
      <4>1. d - top + 32 > 32  BY <2>1
      <4> QED BY <4>1, DivisorIsReflected
    <3> QED BY <1>5, <2>1, <3>1, <3>2
  <2>2. CASE d = top
    <3>1. d - top + 32 = 32  BY <2>2
    <3> QED BY <1>1, <1>5, <2>2, <3>1, DivisorIsReflected
  <2>3. CASE d < top
    <3> DEFINE j == (top - 1) - d
    <3>1. j \in Nat /\ j + 1 = top - d /\ 31 - j = d - top + 32 /\ d <= top - 1 /\ d <= top
      BY <2>3
    <3> HIDE DEF j
    <3>2. j \in CrcDivisor <=> d - top + 32 \in Generator
      BY <3>1, DivisorIsReflected
    <3>3. d \in p <=> ~ (d \in message <=> j + 1 \in c)
      BY <3>1 DEF Dividend
    <3>4. j \in BitStep(c, top, message) <=> ~ (j + 1 \in c <=> j \in CrcDivisor /\ v)
      BY <3>1, InBitStep
    <3> QED BY <1>5, <3>1, <3>2, <3>3, <3>4 DEF j
  <2> QED BY <2>1, <2>2, <2>3
<1> QED BY <1>6, <1>7 DEF Dividend

\* The message of CrcOf: bit t of byte k + 1 is its term n + 31 - (8 * k + t).
MessageOf(bytes) ==
  UNION {{8 * Len(bytes) + 31 - (8 * (i - 1) + b) : b \in bytes[i]} : i \in DOMAIN bytes}

\* Which bit of which byte a term of the message is.
LEMMA InMessage ==
  ASSUME NEW bytes \in Seq(Byte), NEW k \in Nat, k < Len(bytes), NEW t \in 0 .. 7
  PROVE  8 * Len(bytes) + 31 - (8 * k + t) \in MessageOf(bytes) <=> t \in bytes[k + 1]
<1> DEFINE n == 8 * Len(bytes)
           d == n + 31 - (8 * k + t)
<1>1. Len(bytes) \in Nat /\ DOMAIN bytes = 1 .. Len(bytes) /\ k + 1 \in 1 .. Len(bytes)
  OBVIOUS
<1>2. \A i \in 1 .. Len(bytes) : \A b \in bytes[i] : b \in 0 .. 7
  BY DEF Byte
<1>3. ASSUME d \in MessageOf(bytes) PROVE t \in bytes[k + 1]
  <2>1. PICK i \in 1 .. Len(bytes) : \E b \in bytes[i] : d = n + 31 - (8 * (i - 1) + b)
    BY <1>1, <1>3 DEF MessageOf
  <2>2. PICK b \in bytes[i] : d = n + 31 - (8 * (i - 1) + b)
    BY <2>1
  <2>3. b \in 0 .. 7 /\ i \in Nat
    BY <1>1, <1>2
  <2>5. 8 * k + t = 8 * (i - 1) + b
    <3>1. n \in Nat  BY <1>1
    <3>2. n + 31 - (8 * k + t) = n + 31 - (8 * (i - 1) + b)  BY <2>2
    <3> HIDE DEF n
    <3> QED BY <2>3, <3>1, <3>2
  <2>4. i = k + 1 /\ b = t
    BY <2>3, <2>5
  <2> QED BY <2>2, <2>4
<1>4. ASSUME t \in bytes[k + 1] PROVE d \in MessageOf(bytes)
  <2>1. d = n + 31 - (8 * ((k + 1) - 1) + t)
    BY <1>1
  <2>2. d \in {n + 31 - (8 * ((k + 1) - 1) + b) : b \in bytes[k + 1]}
    BY <1>4, <2>1
  <2> QED BY <1>1, <2>2 DEF MessageOf
<1> QED BY <1>3, <1>4

\* The terms of a message lie above the 32 of the remainder.
LEMMA MessageTerms ==
  ASSUME NEW bytes \in Seq(Byte), NEW d \in MessageOf(bytes)
  PROVE  d \in Int /\ 32 <= d /\ d <= 8 * Len(bytes) + 31
<1>0. PICK i \in 1 .. Len(bytes) :
        \E b \in bytes[i] : d = 8 * Len(bytes) + 31 - (8 * (i - 1) + b)
  BY DEF MessageOf
<1>1. PICK b \in bytes[i] : d = 8 * Len(bytes) + 31 - (8 * (i - 1) + b)
  BY <1>0
<1>2. b \in 0 .. 7
  BY DEF Byte
<1>3. Len(bytes) \in Nat /\ i \in Nat /\ 1 <= i /\ i <= Len(bytes)
  OBVIOUS
<1> QED BY <1>1, <1>2, <1>3

\* Both forms in the middle of a byte, t bits done.
Midway(p, message, top, c, x, h, byte, t) ==
  /\ c \in Word /\ x \in Word
  /\ Dividend(p, message, top - t, c)
  /\ SymDiff(c, ShiftRight(byte, t)) = SymDiff(x, ShiftRight(h, t))

\* One more bit of a byte.
LEMMA MidwayStep ==
  ASSUME NEW message \in SUBSET Int, NEW top \in Int, NEW h \in SUBSET (8 .. 31),
         NEW byte \in Byte, NEW t \in 0 .. 7, top - t \in message <=> t \in byte,
         NEW p, NEW c, NEW x, Midway(p, message, top, c, x, h, byte, t)
  PROVE  Midway(Reduced(p, top - t), message, top, BitStep(c, t, byte), CrcStep(x),
                h, byte, t + 1)
<1>1. c \in Word /\ x \in Word /\ top - t \in Int
      /\ SymDiff(c, ShiftRight(byte, t)) = SymDiff(x, ShiftRight(h, t))
      /\ Dividend(p, message, top - t, c)
  BY DEF Midway
<1>2. BitStep(c, top - t, message) = BitStep(c, t, byte)
  BY DEF BitStep
<1>3. Dividend(Reduced(p, top - t), message, (top - t) - 1, BitStep(c, t, byte))
  BY <1>1, <1>2, ReduceIsBitStep
<1>4. BitStep(c, t, byte) \in Word /\ CrcStep(x) \in Word
  BY <1>1, CrcStepIsWord
<1>5. SymDiff(BitStep(c, t, byte), ShiftRight(byte, t + 1))
        = SymDiff(CrcStep(x), ShiftRight(h, t + 1))
  BY <1>1, BitStepIsTableStep
<1>6. (top - t) - 1 = top - (t + 1)
  OBVIOUS
<1> QED BY <1>3, <1>4, <1>5, <1>6 DEF Midway

\* A word is split into the byte the table is looked up with and the rest.
LEMMA SplitWord ==
  ASSUME NEW c \in Word, NEW byte \in Byte
  PROVE  LET x == SymDiff(c, byte) \cap (0 .. 7)
             h == c \ (0 .. 7)
         IN  /\ x \in Byte /\ x \in Word /\ h \in SUBSET (8 .. 31)
             /\ SymDiff(c, ShiftRight(byte, 0)) = SymDiff(x, ShiftRight(h, 0))
             /\ ShiftRight(byte, 8) = {}
             /\ ShiftRight(h, 8) = ShiftRight(c, 8)
<1> DEFINE x == SymDiff(c, byte) \cap (0 .. 7)
           h == c \ (0 .. 7)
<1>1. x \in Byte /\ x \in Word /\ h \in SUBSET (8 .. 31) /\ c \in SUBSET Nat
      /\ byte \in SUBSET (0 .. 7) /\ byte \in SUBSET Nat /\ h \in SUBSET Nat
  BY DEF Byte, Word
<1>2. ShiftRight(byte, 0) = byte /\ ShiftRight(h, 0) = h
  <2>1. ASSUME NEW w \in SUBSET Nat PROVE ShiftRight(w, 0) = w
    <3>1. ASSUME NEW j \in ShiftRight(w, 0) PROVE j \in w
      BY <3>1 DEF ShiftRight
    <3>2. ASSUME NEW j \in w PROVE j \in ShiftRight(w, 0)
      <4>1. j \in Int /\ j \in Nat /\ j + 0 = j  OBVIOUS
      <4> QED BY <4>1, InShiftRight
    <3> QED BY <3>1, <3>2
  <2> HIDE DEF h
  <2> QED BY <1>1, <2>1
<1>3. SymDiff(c, byte) = SymDiff(x, h)
  <2>1. ASSUME NEW j PROVE j \in SymDiff(c, byte) <=> j \in SymDiff(x, h)
    <3>1. j \in x <=> ~ (j \in c <=> j \in byte) /\ j \in 0 .. 7
      BY InSymDiff
    <3>2. j \in h <=> j \in c /\ j \notin 0 .. 7
      OBVIOUS
    <3>3. j \in byte => j \in 0 .. 7
      BY <1>1
    <3> HIDE DEF x, h
    <3> QED BY <3>1, <3>2, <3>3, InSymDiff
  <2> HIDE DEF x, h
  <2> QED BY <2>1
<1>4. ShiftRight(byte, 8) = {}
  BY <1>1 DEF ShiftRight
<1>5. ShiftRight(h, 8) = ShiftRight(c, 8)
  <2>1. \A b \in c : b >= 8 <=> b \notin 0 .. 7
    BY <1>1
  <2>2. {b \in h : b >= 8} = {b \in c : b >= 8}
    BY <2>1
  <2> QED BY <2>2 DEF ShiftRight
<1> QED BY <1>1, <1>2, <1>3, <1>4, <1>5

\* Crc32::update with one byte is eight steps of the division.
LEMMA EightSteps ==
  ASSUME NEW message \in SUBSET Int, NEW top \in Int, NEW c \in Word, NEW byte \in Byte,
         \A t \in 0 .. 7 : top - t \in message <=> t \in byte,
         NEW p0, Dividend(p0, message, top, c),
         NEW p1, p1 = Reduced(p0, top), NEW p2, p2 = Reduced(p1, top - 1),
         NEW p3, p3 = Reduced(p2, top - 2), NEW p4, p4 = Reduced(p3, top - 3),
         NEW p5, p5 = Reduced(p4, top - 4), NEW p6, p6 = Reduced(p5, top - 5),
         NEW p7, p7 = Reduced(p6, top - 6), NEW p8, p8 = Reduced(p7, top - 7)
  PROVE  /\ CrcUpdate(c, byte) \in Word
         /\ Dividend(p8, message, top - 8, CrcUpdate(c, byte))
<1> DEFINE x == SymDiff(c, byte) \cap (0 .. 7)
           h == c \ (0 .. 7)
           At(t, p, y) == \E d : Midway(p, message, top, d, y, h, byte, t)
<1>1. /\ x \in Byte /\ x \in Word /\ h \in SUBSET (8 .. 31)
      /\ SymDiff(c, ShiftRight(byte, 0)) = SymDiff(x, ShiftRight(h, 0))
      /\ ShiftRight(byte, 8) = {}
      /\ ShiftRight(h, 8) = ShiftRight(c, 8)
  BY SplitWord
<1>2. At(0, p0, x)
  <2>1. top - 0 = top  OBVIOUS
  <2> HIDE DEF x, h
  <2>2. Midway(p0, message, top, c, x, h, byte, 0)
    BY <1>1, <2>1 DEF Midway
  <2> QED BY <2>2
<1> HIDE DEF x, h
<1>3. ASSUME NEW t \in 0 .. 7, NEW p, NEW y, At(t, p, y)
      PROVE  At(t + 1, Reduced(p, top - t), CrcStep(y))
  BY <1>1, <1>3, MidwayStep
<1> HIDE DEF At
<1>4. top - 0 = top /\ 0 + 1 = 1 /\ 1 + 1 = 2 /\ 2 + 1 = 3 /\ 3 + 1 = 4 /\ 4 + 1 = 5
      /\ 5 + 1 = 6 /\ 6 + 1 = 7 /\ 7 + 1 = 8
  OBVIOUS
<1> DEFINE y1 == CrcStep(x)  y2 == CrcStep(y1)  y3 == CrcStep(y2)  y4 == CrcStep(y3)
           y5 == CrcStep(y4) y6 == CrcStep(y5)  y7 == CrcStep(y6)  y8 == CrcStep(y7)
<1>5. CrcTable[x] = y8
  BY <1>1 DEF CrcTable
<1> HIDE DEF y1, y2, y3, y4, y5, y6, y7, y8
<1>6. At(1, p1, y1)  BY <1>2, <1>3, <1>4 DEF y1
<1>7. At(2, p2, y2)  BY <1>6, <1>3, <1>4 DEF y2
<1>8. At(3, p3, y3)  BY <1>7, <1>3, <1>4 DEF y3
<1>9. At(4, p4, y4)  BY <1>8, <1>3, <1>4 DEF y4
<1>10. At(5, p5, y5)  BY <1>9, <1>3, <1>4 DEF y5
<1>11. At(6, p6, y6)  BY <1>10, <1>3, <1>4 DEF y6
<1>12. At(7, p7, y7)  BY <1>11, <1>3, <1>4 DEF y7
<1>13. At(8, p8, y8)  BY <1>12, <1>3, <1>4 DEF y8
<1>14. PICK d : Midway(p8, message, top, d, y8, h, byte, 8)
  BY <1>13 DEF At
<1>15. d \in Word /\ Dividend(p8, message, top - 8, d)
       /\ SymDiff(d, {}) = SymDiff(y8, ShiftRight(c, 8))
  BY <1>1, <1>14 DEF Midway
<1>16. SymDiff(d, {}) = d
  BY DEF SymDiff
<1>17. CrcUpdate(c, byte) = d
  BY <1>5, <1>15, <1>16 DEF CrcUpdate, x
<1> QED BY <1>15, <1>17

\* The division term by term, and the register byte by byte: the recursive functions
\* of CrcOf and CrcAfter exist.
RestNext(g, bytes, k) ==
  IF k = 0 THEN SymDiff(MessageOf(bytes), 8 * Len(bytes) .. 8 * Len(bytes) + 31)
  ELSE Reduced(g[k - 1], 8 * Len(bytes) + 32 - k)

\* What CrcAfter holds after k bytes, when g holds it after fewer.
CrcNext(g, bytes, k) == IF k = 0 THEN CrcNew ELSE CrcUpdate(g[k - 1], bytes[k])

\* The recursive function of CrcOf exists.
LEMMA RestExists ==
  ASSUME NEW bytes, NEW m \in Nat
  PROVE  \E g : g = [k \in 0 .. m |-> RestNext(g, bytes, k)]
<1> DEFINE S == {n \in Nat : \E g : g = [k \in 0 .. n |-> RestNext(g, bytes, k)]}
<1>1. 0 \in S
  <2> DEFINE g == [k \in 0 .. 0 |-> RestNext(0, bytes, 0)]
  <2>1. g = [k \in 0 .. 0 |-> RestNext(g, bytes, k)]
    BY DEF RestNext
  <2> HIDE DEF g
  <2> QED BY <2>1
<1>2. ASSUME NEW n \in Nat, n \in S PROVE n + 1 \in S
  <2>1. PICK g : g = [k \in 0 .. n |-> RestNext(g, bytes, k)]
    BY <1>2
  <2> DEFINE h == [k \in 0 .. n + 1 |-> IF k <= n THEN g[k] ELSE RestNext(g, bytes, k)]
  <2>2. ASSUME NEW k \in 0 .. n + 1 PROVE h[k] = RestNext(h, bytes, k)
    <3>1. k > 0 => h[k - 1] = g[k - 1]
      OBVIOUS
    <3>2. h[k] = RestNext(g, bytes, k)
      <4>1. k <= n => g[k] = RestNext(g, bytes, k)
        <5> HIDE DEF h
        <5> QED BY <2>1
      <4> QED BY <4>1
    <3> HIDE DEF h
    <3> QED BY <3>1, <3>2 DEF RestNext
  <2>3. h = [k \in 0 .. n + 1 |-> RestNext(h, bytes, k)]
    <3>1. h = [k \in 0 .. n + 1 |-> h[k]]  OBVIOUS
    <3> HIDE DEF h
    <3> QED BY <2>2, <3>1
  <2> HIDE DEF h
  <2> QED BY <2>3
<1>3. \A n \in Nat : n \in S
  <2> HIDE DEF S
  <2> QED BY <1>1, <1>2, Induction
<1>4. m \in S
  <2> HIDE DEF S
  <2> QED BY <1>3
<1> QED BY <1>4

\* The recursive function of CrcAfter exists.
LEMMA CrcExists ==
  ASSUME NEW bytes, NEW m \in Nat
  PROVE  \E g : g = [k \in 0 .. m |-> CrcNext(g, bytes, k)]
<1> DEFINE S == {n \in Nat : \E g : g = [k \in 0 .. n |-> CrcNext(g, bytes, k)]}
<1>1. 0 \in S
  <2> DEFINE g == [k \in 0 .. 0 |-> CrcNext(0, bytes, 0)]
  <2>1. g = [k \in 0 .. 0 |-> CrcNext(g, bytes, k)]
    BY DEF CrcNext
  <2> HIDE DEF g
  <2> QED BY <2>1
<1>2. ASSUME NEW n \in Nat, n \in S PROVE n + 1 \in S
  <2>1. PICK g : g = [k \in 0 .. n |-> CrcNext(g, bytes, k)]
    BY <1>2
  <2> DEFINE h == [k \in 0 .. n + 1 |-> IF k <= n THEN g[k] ELSE CrcNext(g, bytes, k)]
  <2>2. ASSUME NEW k \in 0 .. n + 1 PROVE h[k] = CrcNext(h, bytes, k)
    <3>1. k > 0 => h[k - 1] = g[k - 1]
      OBVIOUS
    <3>2. h[k] = CrcNext(g, bytes, k)
      <4>1. k <= n => g[k] = CrcNext(g, bytes, k)
        <5> HIDE DEF h
        <5> QED BY <2>1
      <4> QED BY <4>1
    <3> HIDE DEF h
    <3> QED BY <3>1, <3>2 DEF CrcNext
  <2>3. h = [k \in 0 .. n + 1 |-> CrcNext(h, bytes, k)]
    <3>1. h = [k \in 0 .. n + 1 |-> h[k]]  OBVIOUS
    <3> HIDE DEF h
    <3> QED BY <2>2, <3>1
  <2> HIDE DEF h
  <2> QED BY <2>3
<1>3. \A n \in Nat : n \in S
  <2> HIDE DEF S
  <2> QED BY <1>1, <1>2, Induction
<1>4. m \in S
  <2> HIDE DEF S
  <2> QED BY <1>3
<1> QED BY <1>4

\* Crc32::update over a sequence: the register starts as CrcNew and takes one byte
\* after the other.
LEMMA CrcAfterStep ==
  ASSUME NEW bytes \in Seq(Byte)
  PROVE  CrcAfter(bytes) = [k \in 0 .. Len(bytes) |-> CrcNext(CrcAfter(bytes), bytes, k)]
<1>1. Len(bytes) \in Nat
  OBVIOUS
<1> QED BY <1>1, CrcExists, Zenon DEF CrcAfter, CrcNext

\* For contents of any length the checksum that is updated byte by byte through the
\* table is the remainder of the division by the generator (Crc32::update, CRC_TABLE).
THEOREM ChecksumIsCrc32 ==
  ASSUME NEW bytes \in Seq(Byte)
  PROVE  Checksum(bytes) = CrcOf(bytes)
<1> DEFINE n == 8 * Len(bytes)
           M == MessageOf(bytes)
           crc == CrcAfter(bytes)
           rest == CHOOSE g : g = [k \in 0 .. n |-> RestNext(g, bytes, k)]
           S == {k \in Nat : k <= Len(bytes) =>
                   crc[k] \in Word /\ Dividend(rest[8 * k], M, n + 31 - 8 * k, crc[k])}
<1>1. Len(bytes) \in Nat /\ n \in Nat /\ n + 31 \in Int
  OBVIOUS
<1>2. rest = [k \in 0 .. n |-> RestNext(rest, bytes, k)]
  <2> HIDE DEF n
  <2> QED BY <1>1, RestExists, Zenon
<1>3. CrcOf(bytes) = (0 .. 31) \ {31 - e : e \in rest[n]}
  BY Zenon DEF CrcOf, RestNext, Reduced, MessageOf
<1>4. crc = [k \in 0 .. Len(bytes) |-> CrcNext(crc, bytes, k)]
  BY CrcAfterStep
<1>5. M \in SUBSET Int /\ \A d \in M : 32 <= d /\ d <= n + 31
  BY MessageTerms
<1> HIDE DEF rest, crc, M
<1>6. 0 \in S
  <2>1. crc[0] = 0 .. 31
    BY <1>1, <1>4 DEF CrcNext, CrcNew
  <2>2. rest[8 * 0] = SymDiff(M, n .. n + 31)
    <3>1. 8 * 0 = 0 /\ 0 \in 0 .. n  BY <1>1
    <3> HIDE DEF n
    <3>2. rest[0] = RestNext(rest, bytes, 0)  BY <1>2, <3>1
    <3> QED BY <3>1, <3>2 DEF RestNext, M, n
  <2>3. ASSUME NEW d \in Int
        PROVE  d \in SymDiff(M, n .. n + 31) <=>
                 d <= n + 31 /\ ~ (d \in M <=> (n + 31) - d \in 0 .. 31)
    <3> HIDE DEF n
    <3>1. d \in n .. n + 31 <=> (n + 31) - d \in 0 .. 31
      BY <1>1
    <3>2. d \in n .. n + 31 \/ d \in M => d <= n + 31
      BY <1>1, <1>5
    <3>3. ASSUME NEW W PROVE d \in SymDiff(M, W) <=> ~ (d \in M <=> d \in W)
      BY InSymDiff
    <3>4. d \in SymDiff(M, n .. n + 31) <=> ~ (d \in M <=> d \in n .. n + 31)
      BY <3>3, Zenon
    <3> QED BY <3>1, <3>2, <3>4
  <2>4. SymDiff(M, n .. n + 31) \in SUBSET Int
    <3>1. n .. n + 31 \in SUBSET Int  BY <1>1
    <3> HIDE DEF n
    <3> QED BY <1>5, <3>1 DEF SymDiff
  <2>5. n + 31 - 8 * 0 = n + 31
    BY <1>1
  <2>6. crc[0] \in Word /\ Dividend(rest[8 * 0], M, n + 31 - 8 * 0, crc[0])
    <3> HIDE DEF n
    <3> QED BY <2>1, <2>2, <2>3, <2>4, <2>5 DEF Dividend, Word
  <2> HIDE DEF n
  <2> QED BY <2>6
<1>7. ASSUME NEW k \in Nat, k \in S PROVE k + 1 \in S
  <2> SUFFICES ASSUME k + 1 <= Len(bytes)
               PROVE  /\ crc[k + 1] \in Word
                      /\ Dividend(rest[8 * (k + 1)], M, n + 31 - 8 * (k + 1), crc[k + 1])
    <3> HIDE DEF n
    <3> QED OBVIOUS
  <2> DEFINE top == n + 31 - 8 * k
             byte == bytes[k + 1]
             p(t) == rest[8 * k + t]
  <2>1. crc[k] \in Word /\ Dividend(rest[8 * k], M, top, crc[k])
    BY <1>1, <1>7
  <2>2. byte \in Byte /\ top \in Int
    BY <1>1
  <2>3. \A t \in 0 .. 7 : top - t \in M <=> t \in byte
    <3>1. ASSUME NEW t \in 0 .. 7 PROVE top - t \in M <=> t \in byte
      <4>1. top - t = 8 * Len(bytes) + 31 - (8 * k + t)
        BY <1>1
      <4>2. k < Len(bytes)
        BY <1>1
      <4> QED BY <4>1, <4>2, InMessage DEF M
    <3> QED BY <3>1
  <2>4. crc[k + 1] = CrcUpdate(crc[k], byte)
    BY <1>1, <1>4 DEF CrcNext
  <2>5. ASSUME NEW t \in 0 .. 7 PROVE p(t + 1) = Reduced(p(t), top - t)
    <3> DEFINE q == 8 * k + (t + 1)
    <3>1. q \in 0 .. n /\ q # 0 /\ q - 1 = 8 * k + t /\ n + 32 - q = top - t
      BY <1>1
    <3>2. rest[q] = RestNext(rest, bytes, q)
      <4> HIDE DEF q, n
      <4> QED BY <1>2, <3>1
    <3>3. rest[q] = Reduced(rest[q - 1], n + 32 - q)
      <4> HIDE DEF q
      <4> QED BY <3>1, <3>2 DEF RestNext
    <3> QED BY <3>1, <3>3
  <2>6. 8 * k + 0 = 8 * k /\ 8 * k + 8 = 8 * (k + 1) /\ top - 8 = n + 31 - 8 * (k + 1)
    BY <1>1
  <2>7. /\ p(0) = rest[8 * k] /\ p(8) = rest[8 * (k + 1)]
        /\ p(1) = Reduced(p(0), top) /\ p(2) = Reduced(p(1), top - 1)
        /\ p(3) = Reduced(p(2), top - 2) /\ p(4) = Reduced(p(3), top - 3)
        /\ p(5) = Reduced(p(4), top - 4) /\ p(6) = Reduced(p(5), top - 5)
        /\ p(7) = Reduced(p(6), top - 6) /\ p(8) = Reduced(p(7), top - 7)
    <3>1. top - 0 = top /\ 0 + 1 = 1 /\ 1 + 1 = 2 /\ 2 + 1 = 3 /\ 3 + 1 = 4 /\ 4 + 1 = 5
          /\ 5 + 1 = 6 /\ 6 + 1 = 7 /\ 7 + 1 = 8
      BY <2>2
    <3> HIDE DEF p, top
    <3>2. p(0 + 1) = Reduced(p(0), top - 0) /\ p(1 + 1) = Reduced(p(1), top - 1)
          /\ p(2 + 1) = Reduced(p(2), top - 2) /\ p(3 + 1) = Reduced(p(3), top - 3)
          /\ p(4 + 1) = Reduced(p(4), top - 4) /\ p(5 + 1) = Reduced(p(5), top - 5)
          /\ p(6 + 1) = Reduced(p(6), top - 6) /\ p(7 + 1) = Reduced(p(7), top - 7)
      BY <2>5
    <3>3. p(0) = rest[8 * k] /\ p(8) = rest[8 * (k + 1)]
      BY <2>6 DEF p
    <3> QED BY <3>1, <3>2, <3>3
  <2>8. /\ CrcUpdate(crc[k], byte) \in Word
        /\ Dividend(p(8), M, top - 8, CrcUpdate(crc[k], byte))
    <3> HIDE DEF p, top, byte
    <3> QED BY <1>5, <2>1, <2>2, <2>3, <2>7, EightSteps
  <2> HIDE DEF p, byte, n
  <2> QED BY <2>4, <2>6, <2>7, <2>8
<1>8. \A k \in Nat : k \in S
  <2> HIDE DEF S
  <2> QED BY <1>6, <1>7, Induction
<1> DEFINE c == crc[Len(bytes)]
<1>9. c \in Word /\ Dividend(rest[n], M, 31, c)
  <2>1. 8 * Len(bytes) = n /\ n + 31 - 8 * Len(bytes) = 31
    BY <1>1
  <2>2. Len(bytes) \in S
    <3> HIDE DEF S
    <3> QED BY <1>1, <1>8
  <2>3. c \in Word /\ Dividend(rest[8 * Len(bytes)], M, n + 31 - 8 * Len(bytes), c)
    BY <1>1, <2>2
  <2> HIDE DEF n, c
  <2> QED BY <2>1, <2>3
<1>10. \A e \in Int : e \in rest[n] <=> e <= 31 /\ 31 - e \in c
  <2> HIDE DEF n, c
  <2>1. ASSUME NEW e \in Int, e <= 31 PROVE e \notin M
    BY <1>5, <2>1
  <2> QED BY <1>9, <2>1 DEF Dividend
<1> HIDE DEF n, c
<1>11. ASSUME NEW j \in 0 .. 31
       PROVE  j \in {31 - e : e \in rest[n]} <=> j \in c
  <2>1. ASSUME j \in c PROVE j \in {31 - e : e \in rest[n]}
    <3>1. 31 - j \in Int /\ 31 - j <= 31 /\ 31 - (31 - j) = j  OBVIOUS
    <3>2. 31 - j \in rest[n]  BY <1>10, <2>1, <3>1
    <3> QED BY <3>1, <3>2
  <2>2. ASSUME j \in {31 - e : e \in rest[n]} PROVE j \in c
    <3>1. PICK e \in rest[n] : j = 31 - e  BY <2>2
    <3>2. e \in Int  BY <1>9 DEF Dividend
    <3> QED BY <1>10, <3>1, <3>2
  <2> QED BY <2>1, <2>2
<1>12. CrcFinish(c) = (0 .. 31) \ c
  BY <1>9 DEF CrcFinish, SymDiff, Word
<1>13. Checksum(bytes) = CrcFinish(c)
  BY DEF Checksum, c, crc
<1> QED BY <1>3, <1>11, <1>12, <1>13

-----------------------------------------------------------------------------
(* The calendar *)

\* The leap years from 1970 on, counted by the rule.
LEMMA LeapYearsBefore ==
  ASSUME NEW y \in Nat, y >= 1970
  PROVE  Cardinality({k \in 1970 .. y - 1 : LeapYear(k)})
           = (y - 1) \div 4 - (y - 1) \div 100 + (y - 1) \div 400 - 477
<1> DEFINE L(n) == {k \in 1970 .. 1970 + n - 1 : LeapYear(k)}
           C(z) == (z - 1) \div 4 - (z - 1) \div 100 + (z - 1) \div 400 - 477
           S == {n \in Nat : IsFiniteSet(L(n)) /\ Cardinality(L(n)) = C(1970 + n)}
<1>1. 0 \in S
  <2>1. L(0) = {}  OBVIOUS
  <2>2. C(1970 + 0) = 0  OBVIOUS
  <2> HIDE DEF L, C
  <2> QED BY <2>1, <2>2, FS_EmptySet
<1>2. ASSUME NEW n \in Nat, n \in S PROVE n + 1 \in S
  <2> DEFINE z == 1970 + n
  <2>1. IsFiniteSet(L(n)) /\ Cardinality(L(n)) = C(z)
    BY <1>2
  <2>2. CASE LeapYear(z)
    <3>1. L(n + 1) = L(n) \cup {z} /\ z \notin L(n)
      BY <2>2
    <3>2. C(1970 + (n + 1)) = C(z) + 1
      BY <2>2 DEF LeapYear
    <3>3. C(z) \in Int
      OBVIOUS
    <3> HIDE DEF L, C, z
    <3>4. IsFiniteSet(L(n + 1)) /\ Cardinality(L(n + 1)) = Cardinality(L(n)) + 1
      BY <2>1, <3>1, FS_AddElement
    <3> QED BY <2>1, <3>2, <3>4
  <2>3. CASE ~ LeapYear(z)
    <3>1. L(n + 1) = L(n)
      BY <2>3
    <3>2. C(1970 + (n + 1)) = C(z)
      BY <2>3 DEF LeapYear
    <3> HIDE DEF L, C, z
    <3> QED BY <2>1, <3>1, <3>2
  <2> QED BY <2>2, <2>3
<1>3. \A n \in Nat : n \in S
  <2> HIDE DEF S
  <2> QED BY <1>1, <1>2, Induction
<1>4. y - 1970 \in S /\ 1970 + (y - 1970) = y
  <2> HIDE DEF S
  <2> QED BY <1>3
<1> QED BY <1>4

\* The days of a year before a month, by the 153 days of five months.
LEMMA DaysBeforeMonth ==
  ASSUME NEW y \in Nat, NEW m \in 1 .. 12
  PROVE  PartialSums([k \in 1 .. 12 |-> DaysIn(y, k)])[m - 1] =
           IF m <= 2 THEN 31 * (m - 1)
           ELSE 59 + (153 * (m - 3) + 2) \div 5 + IF LeapYear(y) THEN 1 ELSE 0
<1> DEFINE f == IF LeapYear(y) THEN 1 ELSE 0
           s == [k \in 1 .. 12 |-> DaysIn(y, k)]
           P == PartialSums(s)
<1>1. f \in {0, 1} /\ f \in Nat
  OBVIOUS
<1>2. \A k \in 1 .. 12 : s[k] = IF k = 2 THEN 28 + f ELSE IF k \in {4, 6, 9, 11} THEN 30 ELSE 31
  BY DEF DaysIn
<1>3. s \in Seq(Nat) /\ Len(s) = 12
  <2>1. \A k \in 1 .. 12 : DaysIn(y, k) \in Nat  BY DEF DaysIn
  <2> QED BY <2>1
<1> HIDE DEF s, f
<1>4. P[0] = 0 /\ \A k \in 1 .. 12 : P[k] = P[k - 1] + s[k]
  BY <1>3, PartialSumsStep
<1> HIDE DEF P
<1>5. P[1] = 31 /\ P[2] = 59 + f
  BY <1>1, <1>2, <1>4
<1>6. P[3] = 90 + f /\ P[4] = 120 + f
  BY <1>1, <1>2, <1>4, <1>5
<1>7. P[5] = 151 + f /\ P[6] = 181 + f
  BY <1>1, <1>2, <1>4, <1>6
<1>8. P[7] = 212 + f /\ P[8] = 243 + f
  BY <1>1, <1>2, <1>4, <1>7
<1>9. P[9] = 273 + f /\ P[10] = 304 + f
  BY <1>1, <1>2, <1>4, <1>8
<1>10. P[11] = 334 + f
  BY <1>1, <1>2, <1>4, <1>9
<1>11. CASE m <= 2
  BY <1>4, <1>5, <1>11 DEF P, s
<1>12. CASE m > 2
  <2>1. P[m - 1] = 59 + (153 * (m - 3) + 2) \div 5 + f
    <3>1. m \in {3, 4, 5, 6, 7, 8, 9, 10, 11, 12}  BY <1>12
    <3> QED BY <1>1, <1>5, <1>6, <1>7, <1>8, <1>9, <1>10, <3>1
  <2> QED BY <1>12, <2>1 DEF P, s, f
<1> QED BY <1>11, <1>12

\* The numbers dos_date_time computes one after the other.
DateParts(days, e, doe, yoe, doy, mp) ==
  /\ days \in Int /\ e \in Int /\ doe \in Int /\ yoe \in Int /\ doy \in Int /\ mp \in Int
  /\ e = (days + 719468) \div 146097 /\ doe = (days + 719468) % 146097
  /\ yoe = YearOfEra(doe) /\ doy = DayOfYear(doe) /\ mp = MonthOfYear(doy)

\* The date that dos_date_time makes of them.
DateOf(e, yoe, doy, mp) ==
  LET month == IF mp < 10 THEN mp + 3 ELSE mp - 9
      year == yoe + e * 400 + IF month <= 2 THEN 1 ELSE 0
  IN  IF year < 1980 THEN <<1980, 1, 1>>
      ELSE <<Min({year, 2107}), month, doy - (153 * mp + 2) \div 5 + 1>>

\* dos_date_time, one number after the other.
LEMMA DosDateSteps ==
  ASSUME NEW days, NEW e, NEW doe, NEW yoe, NEW doy, NEW mp,
         DateParts(days, e, doe, yoe, doy, mp)
  PROVE  DosDate(days) = DateOf(e, yoe, doy, mp)
BY SMT DEF DosDate, DateParts, DateOf

\* The year of the era and the day of the year that dos_date_time finds.
YearFound(doe, yoe, doy) ==
  /\ doe \in Int /\ 0 <= doe /\ doe <= 146096
  /\ yoe = YearOfEra(doe) /\ doy = DayOfYear(doe)

\* A day of the era, by the centuries, four-year cycles and years before it.
YearParts(c, q, r, doy, yoe, doe) ==
  /\ c \in 0 .. 3 /\ q \in 0 .. 24 /\ r \in 0 .. 3 /\ doy \in 0 .. 365
  /\ doy = 365 => r = 3 /\ (q = 24 => c = 3)
  /\ yoe = 100 * c + 4 * q + r
  /\ doe = 36524 * c + 1461 * q + 365 * r + doy

\* The days of 400 years are counted from a first of March, so that the leap day is the
\* last of its year: year yoe of them is the one dos_date_time finds.
LEMMA YearOfDay ==
  ASSUME NEW century, NEW four, NEW rest, NEW dayOf, NEW yearOf, NEW day,
         YearParts(century, four, rest, dayOf, yearOf, day)
  PROVE  YearFound(day, yearOf, dayOf)
<1> USE DEF YearParts
<1>1. day \in Int /\ 0 <= day /\ day <= 146096
  BY SMT
<1>2. dayOf = day - (365 * yearOf + yearOf \div 4 - yearOf \div 100)
  BY SMT
<1>3. yearOf = (day - day \div 1460 + day \div 36524 - day \div 146096) \div 365
  <2>1. CASE dayOf \in 0 .. 364
    BY <2>1, SMT
  <2>2. CASE dayOf = 365 /\ four \in 0 .. 23
    <3>1. rest = 3  BY <2>2, SMT
    <3> QED BY <2>2, <3>1, SMT
  <2>3. CASE dayOf = 365 /\ four = 24
    <3>1. rest = 3 /\ century = 3  BY <2>3, SMT
    <3> QED BY <2>3, <3>1, SMT
  <2>4. dayOf \in 0 .. 364 \/ (dayOf = 365 /\ four \in 0 .. 23) \/ (dayOf = 365 /\ four = 24)
    BY SMT
  <2> QED BY <2>1, <2>2, <2>3, <2>4
<1> QED BY <1>1, <1>2, <1>3, SMT DEF YearFound, YearOfEra, DayOfYear

\* The smaller of two numbers.
LEMMA MinOfTwo ==
  ASSUME NEW a \in Int, NEW b \in Int, a <= b
  PROVE  Min({a, b}) = a
BY DEF Min

\* dos_date_time: a day of the calendar is written as its date, for every day that DOS
\* can date.
THEOREM DateIsCalendarDate ==
  ASSUME NEW y \in DosYears, NEW m \in 1 .. 12, NEW d \in 1 .. DaysIn(y, m)
  PROVE  DosDate(DaysUntil(y, m, d)) = <<y, m, d>>
<1> DEFINE f == IF LeapYear(y) THEN 1 ELSE 0
           Y == IF m <= 2 THEN y - 1 ELSE y
           mp == IF m <= 2 THEN m + 9 ELSE m - 3
           before == IF m <= 2 THEN 31 * (m - 1) ELSE 59 + (153 * (m - 3) + 2) \div 5
           doy == (153 * mp + 2) \div 5 + d - 1
           e == Y \div 400
           c == (Y % 400) \div 100
           q == (Y % 100) \div 4
           r == Y % 4
           yoe == 100 * c + 4 * q + r
           doe == 36524 * c + 1461 * q + 365 * r + doy
           leaps == Y \div 4 - Y \div 100 + Y \div 400
           month1 == (153 * mp + 2) \div 5
           days == DaysUntil(y, m, d)
<1>1. /\ Y \in 1979 .. 2107 /\ mp \in 0 .. 11 /\ d \in 1 .. 31
      /\ m = IF mp < 10 THEN mp + 3 ELSE mp - 9
      /\ y = Y + IF m <= 2 THEN 1 ELSE 0
      /\ m \in 1 .. 12 /\ y \in 1980 .. 2107
  BY SMT DEF DaysIn, DosYears
<1>2. d <= (IF m = 2 THEN 28 + f ELSE IF m \in {4, 6, 9, 11} THEN 30 ELSE 31) /\ f \in {0, 1}
  BY SMT DEF DaysIn
<1>3. f = 1 <=> y % 4 = 0 /\ (y % 100 # 0 \/ y % 400 = 0)
  BY SMT DEF LeapYear
<1>4. days = 365 * (y - 1970) + ((y - 1) \div 4 - (y - 1) \div 100 + (y - 1) \div 400 - 477)
               + (before + IF m <= 2 THEN 0 ELSE f) + d - 1
  <2>1. Cardinality({k \in 1970 .. y - 1 : LeapYear(k)})
          = (y - 1) \div 4 - (y - 1) \div 100 + (y - 1) \div 400 - 477
    <3>1. y \in Nat /\ y >= 1970  BY <1>1, SMT
    <3> QED BY <3>1, LeapYearsBefore, SMT
  <2>2. PartialSums([k \in 1 .. 12 |-> DaysIn(y, k)])[m - 1] = before + IF m <= 2 THEN 0 ELSE f
    <3>1. y \in Nat  BY <1>1, SMT
    <3>2. PartialSums([k \in 1 .. 12 |-> DaysIn(y, k)])[m - 1] =
            IF m <= 2 THEN 31 * (m - 1) ELSE 59 + (153 * (m - 3) + 2) \div 5 + f
      BY <3>1, DaysBeforeMonth, SMT
    <3> QED BY <1>1, <1>2, <3>2, SMT
  <2> HIDE DEF before, f
  <2> QED BY <2>1, <2>2, SMT DEF DaysUntil
<1> HIDE DEF f
<1>5. /\ e \in 4 .. 5 /\ c \in 0 .. 3 /\ q \in 0 .. 24 /\ r \in 0 .. 3
      /\ Y = 400 * e + yoe
      /\ Y \div 4 = 100 * e + 25 * c + q /\ Y \div 100 = 4 * e + c
  <2> HIDE DEF Y
  <2> QED BY <1>1, SMT
<1>6. /\ doy \in 0 .. 365 /\ mp = (5 * doy + 2) \div 153
      /\ d = doy - (153 * mp + 2) \div 5 + 1
      /\ doy = 365 => mp = 11 /\ d = 29
  <2>1. mp = 11 => d <= 29
    BY <1>1, <1>2, SMT
  <2>2. mp \in {1, 3, 6, 8} => d <= 30
    BY <1>1, <1>2, SMT
  <2> HIDE DEF mp
  <2> QED BY <1>1, <2>1, <2>2, SMT
<1>7. doy = 365 => r = 3 /\ (q = 24 => c = 3)
  <2>1. mp = 11 /\ d = 29 => f = 1 /\ m = 2 /\ y = Y + 1
    BY <1>1, <1>2, SMT
  <2>2. f = 1 => y % 4 = 0 /\ (y % 100 # 0 \/ y % 400 = 0)
    BY <1>3
  <2> HIDE DEF Y, mp, doy
  <2> QED BY <1>1, <1>6, <2>1, <2>2, SMT
<1>8. days + 719468 = 146097 * e + doe
  <2>1. days = 365 * (y - 1970) + (leaps - 477) + before + d - 1
    <3>1. CASE m <= 2  BY <1>1, <1>4, <3>1, SMT
    <3>2. CASE m > 2
      <4>1. (y - 1) \div 4 - (y - 1) \div 100 + (y - 1) \div 400 + f
              = y \div 4 - y \div 100 + y \div 400
        BY <1>1, <1>2, <1>3, SMT
      <4> QED BY <1>1, <1>2, <1>4, <3>2, <4>1, SMT
    <3> QED BY <1>1, <3>1, <3>2, SMT
  <2>2. 365 * (y - 1970) + before = 365 * (Y - 1970) + (153 * mp + 2) \div 5 + 59
    BY <1>1, SMT
  <2>3. Y \div 4 - Y \div 100 + Y \div 400 = 97 * e + 24 * c + q
    <3> HIDE DEF Y, c, q
    <3> QED BY <1>1, <1>5, SMT
  <2>4. Y = 400 * e + 100 * c + 4 * q + r
    <3> HIDE DEF Y, c, q, r, e
    <3> QED BY <1>1, <1>5, SMT
  <2>5. before \in Int /\ (153 * mp + 2) \div 5 \in Int
    BY <1>1, SMT
  <2>6. doe = 36524 * c + 1461 * q + 365 * r + (month1 + d - 1)
    OBVIOUS
  <2> HIDE DEF days, before, mp, Y, c, q, r, e, month1, leaps, doe
  <2> QED BY <1>1, <1>5, <2>2, <2>3, <2>4, <2>5, <2>6, <2>1, SMT DEF month1, leaps
<1>9. YearFound(doe, yoe, doy)
  <2>1. yoe = 100 * c + 4 * q + r /\ doe = 36524 * c + 1461 * q + 365 * r + doy
    OBVIOUS
  <2>2. c \in 0 .. 3 /\ q \in 0 .. 24 /\ r \in 0 .. 3  BY <1>5
  <2>3. doy \in 0 .. 365  BY <1>6
  <2> HIDE DEF c, q, r, doy, yoe, doe, before, days, Y, mp, e
  <2>4. YearParts(c, q, r, doy, yoe, doe)
    BY <1>7, <2>1, <2>2, <2>3, SMT DEF YearParts
  <2> QED BY <2>4, YearOfDay, SMT
<1>16. doe \in Int /\ 0 <= doe /\ doe <= 146096 /\ days \in Int
  <2>1. doe \in Int /\ 0 <= doe /\ doe <= 146096
    <3> HIDE DEF doe, yoe, doy
    <3> QED BY <1>9, SMT DEF YearFound
  <2>2. y \in Int /\ m \in Int /\ d \in Int /\ before \in Int /\ f \in Int
    BY <1>1, <1>2, SMT
  <2> HIDE DEF doe, days, before
  <2> QED BY <1>4, <2>1, <2>2, SMT
<1>10. e = (days + 719468) \div 146097 /\ doe = (days + 719468) % 146097
  <2>1. e \in Int  BY <1>5
  <2> HIDE DEF e, doe, days
  <2> QED BY <1>8, <1>16, <2>1, SMT
<1>11. yoe = YearOfEra(doe) /\ doy = DayOfYear(doe)
  <2> HIDE DEF doe, yoe, doy
  <2> QED BY <1>9, SMT DEF YearFound
<1>12. yoe + e * 400 + (IF m <= 2 THEN 1 ELSE 0) = y
  <2>1. Y = 400 * e + yoe /\ y = Y + (IF m <= 2 THEN 1 ELSE 0)
    BY <1>1, <1>5
  <2>2. yoe \in Int /\ e \in Int
    <3> HIDE DEF c, q, r, e
    <3> QED BY <1>5, SMT
  <2> HIDE DEF Y, e, yoe
  <2> QED BY <1>1, <2>1, <2>2, SMT
<1>13. Min({y, 2107}) = y
  <2>1. y \in Int /\ 2107 \in Int /\ y <= 2107  BY <1>1, SMT
  <2> QED BY <2>1, MinOfTwo, SMT
<1> DEFINE month == IF mp < 10 THEN mp + 3 ELSE mp - 9
           year == yoe + e * 400 + IF month <= 2 THEN 1 ELSE 0
<1>14. DosDate(days) = IF year < 1980 THEN <<1980, 1, 1>>
                       ELSE <<Min({year, 2107}), month, doy - (153 * mp + 2) \div 5 + 1>>
  <2>1. days \in Int /\ e \in Int /\ doe \in Int /\ yoe \in Int /\ doy \in Int /\ mp \in Int
    <3> HIDE DEF c, q, r, e, days, doy, mp, doe
    <3> QED BY <1>1, <1>5, <1>6, <1>16, SMT
  <2> HIDE DEF e, doe, yoe, doy, mp, days
  <2>2. DateParts(days, e, doe, yoe, doy, mp)
    <3>1. mp = MonthOfYear(doy)  BY <1>6, SMT DEF MonthOfYear
    <3> QED BY <1>10, <1>11, <2>1, <3>1, SMT DEF DateParts
  <2>3. DosDate(days) = DateOf(e, yoe, doy, mp)
    BY <2>2, DosDateSteps, Zenon
  <2> QED BY <2>3, SMT DEF DateOf
<1>15. month = m /\ year = y
  <2> HIDE DEF mp, yoe, e
  <2> QED BY <1>1, <1>12, SMT
<1> HIDE DEF month, year, doy, mp
<1> QED BY <1>1, <1>6, <1>13, <1>14, <1>15, SMT

-----------------------------------------------------------------------------
(* The plans *)

\* Where entry i + 1 begins, or the central directory after the last one.
Following(p, i) == IF i = Len(p.entries) THEN p.centralOffset ELSE p.offsets[i + 1]

\* A plan for a list of files.
PlanFor(p, files) ==
  /\ Len(p.entries) = Len(files) /\ DOMAIN p.entries = 1 .. Len(files)
  /\ p.zip64 \in BOOLEAN
  /\ p.offsets \in [1 .. Len(files) -> Nat] /\ p.centralOffset \in Nat
  /\ Following(p, 0) = 0
  /\ \A i \in 1 .. Len(files) :
       /\ p.entries[i].size = FileSize[files[i]] /\ NameLen(p.entries[i].name) \in Nat
       /\ Following(p, i) = p.offsets[i] + StoredLen(p.entries[i], p.zip64)
       /\ Following(p, i) <= p.centralOffset
  /\ p.totalLen \in Nat /\ p.centralSize \in Nat
  /\ p.centralOffset < p.totalLen
  /\ p.totalLen = p.centralOffset + CentralDirectory(p)

\* The entries that Plan lays out.
EntriesOf(files) ==
  LET name == ZipEntryNames([i \in DOMAIN files |-> FileName[files[i]]]) IN
  [i \in DOMAIN files |-> [name |-> name[i], size |-> FileSize[files[i]]]]

\* What is known of an entry.
EntryRecord == [name : {n \in Names : Meaningful(n) /\ NameLen(n) \in Nat}, size : Nat]

\* Every file has an entry with its size, and a name of its own in any case of letters.
LEMMA EntriesAreNamed ==
  ASSUME NEW files \in Seq(Files)
  PROVE  /\ EntriesOf(files) \in Seq(EntryRecord) /\ Len(EntriesOf(files)) = Len(files)
         /\ \A i \in 1 .. Len(files) : EntriesOf(files)[i].size = FileSize[files[i]]
         /\ \A i, j \in 1 .. Len(files) : i # j =>
              Lower(EntriesOf(files)[i].name) # Lower(EntriesOf(files)[j].name)
<1> DEFINE parts == [i \in DOMAIN files |-> FileName[files[i]]]
           name == ZipEntryNames(parts)
           n == Len(files)
<1>1. n \in Nat /\ DOMAIN files = 1 .. n /\ \A i \in 1 .. n : files[i] \in Files
  OBVIOUS
<1>2. parts \in Seq(Seq(STRING)) /\ Len(parts) = n
  <2>1. \A i \in 1 .. n : FileName[files[i]] \in Seq(STRING)
    BY <1>1, ShareAssumption DEF ShareAssumption
  <2> HIDE DEF n
  <2>2. parts = [i \in 1 .. n |-> FileName[files[i]]]
    BY <1>1
  <2> HIDE DEF parts
  <2> QED BY <1>1, <2>1, <2>2
<1> HIDE DEF parts
<1>3. \A i \in 1 .. n : Meaningful(name[i]) /\ NameLen(name[i]) \in Nat
  BY <1>2, EntryNamesAreDistinct
<1>4. \A i, j \in 1 .. n : i # j => Lower(name[i]) # Lower(name[j])
  BY <1>2, EntryNamesAreDistinct
<1>5. EntriesOf(files) = [i \in 1 .. n |-> [name |-> name[i], size |-> FileSize[files[i]]]]
  BY <1>1 DEF EntriesOf, parts
<1> HIDE DEF name, n
<1>6. ASSUME NEW i \in 1 .. n
      PROVE  [name |-> name[i], size |-> FileSize[files[i]]] \in EntryRecord
  <2>1. FileSize[files[i]] \in Nat
    BY <1>1, ShareAssumption DEF ShareAssumption
  <2>2. name[i] \in {m \in Names : Meaningful(m) /\ NameLen(m) \in Nat}
    BY <1>3 DEF Meaningful
  <2> QED BY <2>1, <2>2 DEF EntryRecord
<1>7. EntriesOf(files) \in Seq(EntryRecord) /\ Len(EntriesOf(files)) = n
  BY <1>1, <1>5, <1>6
<1>8. \A i \in 1 .. n : /\ EntriesOf(files)[i].size = FileSize[files[i]]
                        /\ EntriesOf(files)[i].name = name[i]
  BY <1>5
<1> QED BY <1>4, <1>7, <1>8 DEF n

\* zip_plan: a plan is a layout, and one with narrow fields only if it is short enough.
LEMMA PlanIsLayout ==
  ASSUME NEW files \in {Dedup(s) : s \in Selections}, files \in Seq(Files)
  PROVE  \E zip64 \in BOOLEAN :
           /\ Plan[files] = Layout(EntriesOf(files), zip64)
           /\ ~ zip64 => Plan[files].totalLen < Limit32
<1>1. Plan[files] = ZipPlan(EntriesOf(files))
  BY DEF Plan, EntriesOf
<1>2. PICK entries : entries = EntriesOf(files)
  OBVIOUS
<1> DEFINE classic == Layout(entries, FALSE)
           zip64 == Len(entries) >= Limit16 \/ classic.totalLen >= Limit32
<1>3. Plan[files] = IF zip64 THEN Layout(entries, TRUE) ELSE classic
  BY <1>1, <1>2 DEF ZipPlan
<1>4. classic.totalLen \in Nat
  <2>1. entries \in Seq(EntryRecord)
    BY <1>2, EntriesAreNamed
  <2>2. \A e \in EntryRecord : e.size \in Nat /\ NameLen(e.name) \in Nat
    BY DEF EntryRecord
  <2> QED BY <2>1, <2>2, LayoutLength
<1>5. Limit32 \in Nat
  BY ZipAssumption DEF ZipAssumption
<1>6. CASE zip64
  BY <1>2, <1>3, <1>6
<1>7. CASE ~ zip64
  <2>1. Plan[files] = classic
    BY <1>3, <1>7
  <2>2. classic.totalLen < Limit32
    <3> HIDE DEF classic
    <3> QED BY <1>4, <1>5, <1>7
  <2>3. Plan[files] = Layout(EntriesOf(files), FALSE)
    BY <1>2, <2>1
  <2>4. Plan[files].totalLen < Limit32
    BY <2>1, <2>2
  <2> HIDE DEF classic, zip64
  <2> QED BY <2>3, <2>4
<1> HIDE DEF zip64
<1> QED BY <1>6, <1>7

\* The plan of a list of files describes them, one after the other, and is sound.
LEMMA PlansAreSound ==
  ASSUME NEW files \in {Dedup(s) : s \in Selections}, files \in Seq(Files)
  PROVE  PlanFor(Plan[files], files) /\ PlanIsSound(Plan[files])
<1> DEFINE n == Len(files)
<1>1. PICK zip64 \in BOOLEAN : /\ Plan[files] = Layout(EntriesOf(files), zip64)
                               /\ ~ zip64 => Plan[files].totalLen < Limit32
  BY PlanIsLayout
<1>2. PICK entries : entries = EntriesOf(files)
  OBVIOUS
<1>3. PICK p : p = Plan[files] /\ p = Layout(entries, zip64)
  BY <1>1, <1>2
<1>4. /\ entries \in Seq(EntryRecord) /\ Len(entries) = n /\ n \in Nat
      /\ DOMAIN entries = 1 .. n
      /\ \A i \in 1 .. n : entries[i].size = FileSize[files[i]]
      /\ \A i, j \in 1 .. n : i # j => Lower(entries[i].name) # Lower(entries[j].name)
  <2>1. entries \in Seq(EntryRecord) /\ Len(entries) = n
    BY <1>2, EntriesAreNamed
  <2>2. \A i, j \in 1 .. n : i # j => Lower(entries[i].name) # Lower(entries[j].name)
    BY <1>2, EntriesAreNamed
  <2>3. \A i \in 1 .. n : entries[i].size = FileSize[files[i]]
    BY <1>2, EntriesAreNamed
  <2>4. n \in Nat
    OBVIOUS
  <2> HIDE DEF n
  <2> QED BY <2>1, <2>2, <2>3, <2>4
<1>5. \A i \in 1 .. n : /\ entries[i].name \in Names /\ Meaningful(entries[i].name)
                        /\ NameLen(entries[i].name) \in Nat /\ entries[i].size \in Nat
  <2> HIDE DEF n
  <2>1. ASSUME NEW e \in EntryRecord
        PROVE  /\ e.name \in Names /\ Meaningful(e.name)
               /\ NameLen(e.name) \in Nat /\ e.size \in Nat
    BY DEF EntryRecord
  <2>2. \A i \in 1 .. n : entries[i] \in EntryRecord
    BY <1>4
  <2> QED BY <2>1, <2>2
<1> HIDE DEF n
<1> DEFINE next(i) == IF i = n THEN p.centralOffset ELSE p.offsets[i + 1]
<1>6. /\ p.entries = entries /\ p.zip64 = zip64
      /\ p.offsets \in [1 .. n -> Nat] /\ p.centralOffset \in Nat
      /\ next(0) = 0
      /\ \A i \in 1 .. n : /\ next(i) = p.offsets[i] + StoredLen(entries[i], zip64)
                           /\ next(i) <= p.centralOffset
      /\ p.centralSize \in Nat
      /\ p.totalLen = p.centralOffset + p.centralSize + IF zip64 THEN 56 + 20 + 22 ELSE 22
      /\ p.totalLen = p.centralOffset + CentralDirectory(p)
  <2>1. \A e \in EntryRecord : e.size \in Nat /\ NameLen(e.name) \in Nat
    BY DEF EntryRecord
  <2>2. LaidOut(p, entries, zip64)
    BY <1>3, <1>4, <2>1, LayoutIsExact
  <2> QED BY <1>4, <2>2 DEF LaidOut
<1>7. p.totalLen \in Nat /\ p.centralOffset < p.totalLen
  BY <1>6
<1>8. \A i \in 0 .. n : Following(p, i) = next(i)
  BY <1>4, <1>6 DEF Following
<1>9. PlanFor(p, files)
  <2>1. Len(p.entries) = n /\ DOMAIN p.entries = 1 .. n /\ p.zip64 \in BOOLEAN
    BY <1>4, <1>6
  <2>2. Following(p, 0) = 0
    BY <1>4, <1>6, <1>8
  <2>3. ASSUME NEW i \in 1 .. n
        PROVE  /\ p.entries[i].size = FileSize[files[i]] /\ NameLen(p.entries[i].name) \in Nat
               /\ Following(p, i) = p.offsets[i] + StoredLen(p.entries[i], p.zip64)
               /\ Following(p, i) <= p.centralOffset
    <3>1. Following(p, i) = next(i)
      BY <1>4, <1>8
    <3> HIDE DEF next
    <3> QED BY <1>4, <1>5, <1>6, <3>1
  <2> HIDE DEF next
  <2> QED BY <1>6, <1>7, <2>1, <2>2, <2>3 DEF PlanFor, n
<1> DEFINE names == {p.entries[i].name : i \in DOMAIN p.entries}
           f == [i \in 1 .. n |-> Lower(entries[i].name)]
           lower == {Lower(m) : m \in names}
<1>10. \A m \in names : \E i \in 1 .. n : m = entries[i].name
  BY <1>4, <1>6
<1>11. Cardinality(lower) = Len(p.entries)
  <2>1. f \in Bijection(1 .. n, lower)
    <3>1. \A x, y \in 1 .. n : f[x] = f[y] => x = y
      BY <1>4
    <3>2. \A x \in 1 .. n : f[x] \in lower
      BY <1>4, <1>6
    <3>3. ASSUME NEW y \in lower PROVE \E x \in 1 .. n : f[x] = y
      <4>1. PICK m \in names : y = Lower(m)
        OBVIOUS
      <4>2. PICK x \in 1 .. n : m = entries[x].name
        BY <1>10
      <4>3. f[x] = y
        BY <4>1, <4>2
      <4> QED BY <4>3
    <3>4. f \in [1 .. n -> lower]
      BY <3>2
    <3> HIDE DEF f, lower
    <3>5. f \in Injection(1 .. n, lower)
      BY <3>1, <3>4 DEF Injection, IsInjective
    <3>6. f \in Surjection(1 .. n, lower)
      BY <3>3, <3>4 DEF Surjection
    <3> QED BY <3>5, <3>6 DEF Bijection
  <2>2. IsFiniteSet(1 .. n) /\ Cardinality(1 .. n) = n
    <3>1. 1 \in Int /\ n \in Int /\ (1 > n => n = 0)
      BY <1>4
    <3> QED BY <1>4, <3>1, FS_Interval
  <2> HIDE DEF f, lower
  <2>3. Cardinality(lower) = n
    <3> DEFINE I == 1 .. n
    <3>1. IsFiniteSet(I) /\ Cardinality(I) = n /\ f \in Bijection(I, lower)
      BY <2>1, <2>2
    <3> HIDE DEF I
    <3> QED BY <3>1, FS_Bijection DEF ExistsBijection
  <2> QED BY <1>4, <1>6, <2>3
<1>12. ASSUME NEW m \in names PROVE m.path # <<>> /\ Range(m.path) \cap Meaningless = {}
  <2>1. PICK i \in 1 .. n : m = entries[i].name
    BY <1>10
  <2>2. m \in Names /\ m.path # <<>> /\ \A k \in 1 .. Len(m.path) : m.path[k] \notin Meaningless
    BY <1>5, <2>1 DEF Meaningful
  <2>3. DOMAIN m.path = 1 .. Len(m.path)
    BY <2>2 DEF Names
  <2> QED BY <2>2, <2>3 DEF Range
<1>13. ASSUME NEW v \in NarrowFields(p) PROVE v <= Limit32
  <2>0. Limit32 \in Nat
    BY ZipAssumption DEF ZipAssumption
  <2>1. CASE zip64
    <3>1. NarrowFields(p) = {Limit32}
      BY <1>6, <2>1 DEF NarrowFields
    <3> QED BY <2>0, <3>1
  <2>2. CASE ~ zip64
    <3>1. p.totalLen < Limit32
      BY <1>1, <1>3, <2>2
    <3>2. p.centralSize <= Limit32 /\ p.centralOffset <= Limit32
      BY <1>6, <1>7, <2>0, <3>1
    <3>3. \A i \in 1 .. n : entries[i].size <= Limit32 /\ p.offsets[i] <= Limit32
      <4> TAKE i \in 1 .. n
      <4>1. /\ next(i) = p.offsets[i] + StoredLen(entries[i], zip64)
            /\ next(i) <= p.centralOffset /\ p.offsets[i] \in Nat
        BY <1>6
      <4>2. PICK e : e = entries[i]
        OBVIOUS
      <4>3. e.size \in Nat /\ NameLen(e.name) \in Nat
        BY <1>5, <4>2
      <4>4. /\ StoredLen(e, zip64) \in Nat
            /\ e.size <= StoredLen(e, zip64)
        <5>1. LocalHeaderLen(e, zip64) \in Nat
          BY <4>3 DEF LocalHeaderLen
        <5>2. DescriptorLen(zip64) \in Nat
          BY DEF DescriptorLen
        <5> QED BY <4>3, <5>1, <5>2 DEF StoredLen
      <4>5. next(i) \in Int
        BY <4>1, <4>2, <4>4
      <4>6. PICK stored \in Nat : stored = StoredLen(e, zip64)
        BY <4>4
      <4>7. PICK offset \in Nat : offset = p.offsets[i]
        BY <4>1
      <4>8. p.centralOffset \in Nat
        BY <1>6
      <4> HIDE DEF next
      <4>9. e.size <= stored /\ offset + stored <= p.centralOffset
        BY <4>1, <4>2, <4>4, <4>6, <4>7
      <4>10. e.size <= Limit32 /\ offset <= Limit32
        BY <2>0, <3>2, <4>3, <4>8, <4>9
      <4> QED BY <4>2, <4>7, <4>10
    <3>4. Range(p.offsets) = {p.offsets[i] : i \in 1 .. n}
      BY <1>6 DEF Range
    <3>5. NarrowFields(p) = {entries[i].size : i \in 1 .. n} \cup {p.offsets[i] : i \in 1 .. n}
                              \cup {p.centralSize, p.centralOffset}
      <4>1. /\ ~ p.zip64 /\ DOMAIN p.entries = 1 .. n /\ p.entries = entries
        BY <1>4, <1>6, <2>2
      <4>2. NarrowFields(p) = {p.entries[i].size : i \in DOMAIN p.entries} \cup Range(p.offsets)
                              \cup {p.centralSize, p.centralOffset}
        BY <4>1 DEF NarrowFields
      <4> HIDE DEF n
      <4> QED BY <3>4, <4>1, <4>2
    <3> QED BY <3>2, <3>3, <3>5
  <2> QED BY <2>1, <2>2
<1>14. PlanIsSound(p)
  BY <1>11, <1>12, <1>13 DEF PlanIsSound
<1> QED BY <1>3, <1>9, <1>14

-----------------------------------------------------------------------------
(* What is streamed *)

\* One more element of a sequence.
LEMMA FirstGrows ==
  ASSUME NEW s, NEW k \in Nat
  PROVE  Append(First(s, k), s[k + 1]) = First(s, k + 1)
<1>1. First(s, k) \in Seq({s[i] : i \in 1 .. k}) /\ Len(First(s, k)) = k
  BY DEF First
<1>2. \A i \in 1 .. k : First(s, k)[i] = s[i]
  BY DEF First
<1> QED BY <1>1, <1>2 DEF First

\* The content of a file is as long as the file, and the same byte again and again.
LEMMA ContentIsBytes ==
  ASSUME NEW f \in Files
  PROVE  /\ Content(f) \in Seq(Byte) /\ Len(Content(f)) = FileSize[f] /\ FileSize[f] \in Nat
         /\ \A k \in 1 .. FileSize[f] : Content(f)[k] = FileByte[f]
<1>1. FileSize[f] \in Nat /\ FileByte[f] \in Byte
  BY ShareAssumption DEF ShareAssumption
<1> QED BY <1>1 DEF Content

\* The parts of the stored entry follow one another up to the next one.
LEMMA EntryParts ==
  ASSUME NEW z, Streamed(z), z.phase \in {"header", "ask", "wait", "copy"}
  PROVE  LET p == Plan[z.files]
             e == p.entries[z.index]
         IN  /\ z.index \in 1 .. Len(z.files) /\ z.files[z.index] \in Files
             /\ e.size = FileSize[z.files[z.index]] /\ e.size \in Nat
             /\ p.offsets[z.index] \in Nat
             /\ Bytes(LocalHeader(p, z.index)) \in Nat /\ Bytes(DataDescriptor(p)) \in Nat
             /\ ContentAt(z) = p.offsets[z.index] + Bytes(LocalHeader(p, z.index))
             /\ Following(p, z.index) = ContentAt(z) + e.size + Bytes(DataDescriptor(p))
             /\ Following(p, z.index) < p.totalLen
             /\ p.totalLen \in Nat
<1>1. PICK p : p = Plan[z.files]
  OBVIOUS
<1>2. PICK i : i = z.index
  OBVIOUS
<1>3. PICK e : e = p.entries[i]
  OBVIOUS
<1>4. PICK files : files = z.files
  OBVIOUS
<1>5. PlanFor(p, files)
  BY <1>1, <1>4, PlansAreSound DEF Streamed
<1>6. i \in 1 .. Len(files) /\ files \in Seq(Files)
  BY <1>2, <1>4 DEF Streamed
<1>7. files[i] \in Files /\ FileSize[files[i]] \in Nat
  BY <1>6, ShareAssumption DEF ShareAssumption
<1>8. /\ e.size = FileSize[files[i]] /\ NameLen(e.name) \in Nat
      /\ Following(p, i) = p.offsets[i] + StoredLen(e, p.zip64)
      /\ Following(p, i) <= p.centralOffset
      /\ p.offsets[i] \in Nat /\ p.centralOffset \in Nat /\ p.totalLen \in Nat
      /\ p.centralOffset < p.totalLen /\ p.zip64 \in BOOLEAN
  BY <1>3, <1>5, <1>6 DEF PlanFor
<1>9. /\ Bytes(LocalHeader(p, i)) = LocalHeaderLen(e, p.zip64)
      /\ Bytes(DataDescriptor(p)) = DescriptorLen(p.zip64)
  BY <1>3, <1>8, LocalHeaderBytes, DataDescriptorBytes
<1>10. LocalHeaderLen(e, p.zip64) \in Nat /\ DescriptorLen(p.zip64) \in Nat
  BY <1>8 DEF LocalHeaderLen, DescriptorLen
<1>11. ContentAt(z) = p.offsets[i] + LocalHeaderLen(e, p.zip64)
  BY <1>1, <1>2, <1>3 DEF ContentAt
<1>12. Following(p, i) = ContentAt(z) + e.size + Bytes(DataDescriptor(p))
  BY <1>7, <1>8, <1>9, <1>10, <1>11 DEF StoredLen
<1>13. Following(p, i) < p.totalLen
  BY <1>7, <1>8, <1>9, <1>10, <1>11, <1>12
<1> QED BY <1>1, <1>2, <1>3, <1>4, <1>6, <1>7, <1>8, <1>9, <1>10, <1>11, <1>12, <1>13

\* As long as an archive is streamed, less than the announced length was written.
LEMMA ShortOfTheEnd ==
  ASSUME NEW z, Streamed(z), z.phase \in ZipPhases \ {"complete"}
  PROVE  z.pos < Plan[z.files].totalLen
<1>1. CASE z.phase \in {"header", "ask", "wait", "copy"}
  <2>1. PICK p, e : p = Plan[z.files] /\ e = p.entries[z.index]
    OBVIOUS
  <2>2. /\ e.size = FileSize[z.files[z.index]] /\ e.size \in Nat
        /\ p.offsets[z.index] \in Nat
        /\ Bytes(LocalHeader(p, z.index)) \in Nat /\ Bytes(DataDescriptor(p)) \in Nat
        /\ ContentAt(z) = p.offsets[z.index] + Bytes(LocalHeader(p, z.index))
        /\ Following(p, z.index) = ContentAt(z) + e.size + Bytes(DataDescriptor(p))
        /\ Following(p, z.index) < p.totalLen
        /\ p.totalLen \in Nat
    BY <1>1, <2>1, EntryParts
  <2>3. \/ z.pos = p.offsets[z.index] \/ z.pos = ContentAt(z)
        \/ z.written \in 0 .. e.size /\ z.pos = ContentAt(z) + z.written
    BY <1>1, <2>1, <2>2 DEF Streamed
  <2> QED BY <2>1, <2>2, <2>3
<1>2. CASE z.phase = "central"
  <2>1. z.pos = Plan[z.files].centralOffset /\ PlanFor(Plan[z.files], z.files)
    BY <1>2, PlansAreSound DEF Streamed
  <2> QED BY <2>1 DEF PlanFor
<1>3. CASE z.phase \in {"aborted", "gone"}
  BY <1>3 DEF Streamed
<1> QED BY <1>1, <1>2, <1>3 DEF ZipPhases

\* What is streamed is exact.
LEMMA StreamedIsExact ==
  ASSUME NEW z, Streamed(z), z.phase \in ZipPhases
  PROVE  StreamIsExact(z, Plan[z.files])
<1>1. CASE z.phase = "complete"
  <2>1. PICK files, p : files = z.files /\ p = Plan[files]
    OBVIOUS
  <2>2. PlanFor(p, files) /\ files \in Seq(Files)
    BY <2>1, PlansAreSound DEF Streamed
  <2>3. /\ z.pos = p.totalLen /\ z.index - 1 = Len(files)
        /\ z.crcs = First(CrcsOf(files), z.index - 1) /\ z.heads = First(p.offsets, z.index - 1)
    <3>1. z.index = Len(files) + 1 /\ Len(files) \in Nat
      BY <1>1, <2>1, <2>2 DEF Streamed
    <3> QED BY <1>1, <2>1, <3>1 DEF Streamed
  <2>4. z.heads = p.offsets
    <3>1. p.offsets \in [1 .. Len(files) -> Nat]
      BY <2>2 DEF PlanFor
    <3> QED BY <2>3, <3>1 DEF First
  <2>5. z.crcs = [i \in DOMAIN files |-> CrcOf(Content(files[i]))]
    <3>1. DOMAIN files = 1 .. Len(files)
      BY <2>2
    <3> QED BY <2>3, <3>1 DEF First, CrcsOf
  <2> QED BY <1>1, <2>1, <2>3, <2>4, <2>5 DEF StreamIsExact
<1>2. CASE z.phase # "complete"
  BY <1>2, ShortOfTheEnd DEF StreamIsExact
<1> QED BY <1>1, <1>2

\* An archive begins with its first entry.
LEMMA FirstEntry ==
  ASSUME NEW files \in {Dedup(s) : s \in Selections}, files \in Seq(Files), Len(files) > 0
  PROVE  Streamed([files |-> files, phase |-> "header", index |-> 1, written |-> 0,
                   crc |-> CrcNew, crcs |-> <<>>, pos |-> 0, heads |-> <<>>])
<1> DEFINE z == [files |-> files, phase |-> "header", index |-> 1, written |-> 0,
                 crc |-> CrcNew, crcs |-> <<>>, pos |-> 0, heads |-> <<>>]
<1>1. PICK p : p = Plan[files]
  OBVIOUS
<1>2. Len(files) \in Nat /\ 1 \in 1 .. Len(files)
  OBVIOUS
<1>3. p.offsets[1] = 0
  <2>1. PlanFor(p, files)
    BY <1>1, PlansAreSound
  <2>2. Following(p, 0) = 0 /\ Len(p.entries) = Len(files)
    BY <2>1 DEF PlanFor
  <2> QED BY <1>2, <2>2 DEF Following
<1>4. \A s : First(s, 0) = <<>>
  BY DEF First
<1>5. DOMAIN z = ZipFields
  BY DEF ZipFields
<1>6. /\ z.files = files /\ z.phase = "header" /\ z.index = 1 /\ z.crcs = <<>> /\ z.pos = 0
      /\ z.heads = <<>> /\ z.index - 1 = 0
  OBVIOUS
<1> HIDE DEF z
<1>7. Streamed(z)
  BY <1>1, <1>2, <1>3, <1>4, <1>5, <1>6 DEF Streamed
<1> QED BY <1>7 DEF z

\* The local header is written where the entry begins.
LEMMA HeaderStep ==
  ASSUME NEW z, Streamed(z), z.phase = "header"
  PROVE  Streamed([z EXCEPT !.phase = "ask", !.heads = Append(@, z.pos),
                            !.pos = @ + Bytes(LocalHeader(Plan[z.files], z.index))])
<1> DEFINE y == [z EXCEPT !.phase = "ask", !.heads = Append(@, z.pos),
                          !.pos = @ + Bytes(LocalHeader(Plan[z.files], z.index))]
<1>1. /\ DOMAIN y = ZipFields /\ y.files = z.files /\ y.phase = "ask" /\ y.index = z.index
      /\ y.crcs = z.crcs /\ y.heads = Append(z.heads, z.pos)
      /\ y.pos = z.pos + Bytes(LocalHeader(Plan[z.files], z.index))
  BY DEF Streamed, ZipFields
<1> HIDE DEF y
<1>2. /\ z.index \in 1 .. Len(z.files)
      /\ z.pos = Plan[z.files].offsets[z.index]
      /\ z.heads = First(Plan[z.files].offsets, z.index - 1)
      /\ z.crcs = First(CrcsOf(z.files), z.index - 1)
      /\ z.files \in {Dedup(s) : s \in Selections} /\ z.files \in Seq(Files)
  BY DEF Streamed
<1>3. y.pos = ContentAt(z) /\ ContentAt(y) = ContentAt(z)
  <2>1. ContentAt(z) = Plan[z.files].offsets[z.index] + Bytes(LocalHeader(Plan[z.files], z.index))
    BY EntryParts
  <2> QED BY <1>1, <1>2, <2>1 DEF ContentAt
<1>4. y.heads = First(Plan[z.files].offsets, z.index)
  <2>1. z.index - 1 \in Nat /\ (z.index - 1) + 1 = z.index
    BY <1>2
  <2> QED BY <1>1, <1>2, <2>1, FirstGrows
<1>5. Streamed(y)
  BY <1>1, <1>2, <1>3, <1>4 DEF Streamed
<1> QED BY <1>5 DEF y

\* Asking the app for a content writes nothing.
LEMMA AskStep ==
  ASSUME NEW z, Streamed(z), z.phase = "ask"
  PROVE  Streamed([z EXCEPT !.phase = "wait"])
<1> DEFINE y == [z EXCEPT !.phase = "wait"]
<1>1. /\ DOMAIN y = ZipFields /\ y.files = z.files /\ y.phase = "wait" /\ y.index = z.index
      /\ y.crcs = z.crcs /\ y.heads = z.heads /\ y.pos = z.pos
  BY DEF Streamed, ZipFields
<1> HIDE DEF y
<1>2. ContentAt(y) = ContentAt(z)
  BY <1>1 DEF ContentAt
<1>3. Streamed(y)
  BY <1>1, <1>2 DEF Streamed
<1> QED BY <1>3 DEF y

\* A response that is broken off stays shorter than announced.
LEMMA BrokenOff ==
  ASSUME NEW z, Streamed(z), z.phase \in {"header", "wait", "copy", "central"},
         NEW phase \in {"aborted", "gone"}
  PROVE  Streamed([z EXCEPT !.phase = phase])
<1> DEFINE y == [z EXCEPT !.phase = phase]
<1>1. DOMAIN y = ZipFields /\ y.files = z.files /\ y.phase = phase /\ y.pos = z.pos
  BY DEF Streamed, ZipFields
<1> HIDE DEF y
<1>2. y.pos < Plan[y.files].totalLen
  BY <1>1, ShortOfTheEnd DEF ZipPhases
<1>3. z.files \in {Dedup(s) : s \in Selections} /\ z.files \in Seq(Files)
  BY DEF Streamed
<1>4. Streamed(y)
  BY <1>1, <1>2, <1>3 DEF Streamed
<1> QED BY <1>4 DEF y

\* Each content starts with a checksum of its own.
LEMMA ContentStep ==
  ASSUME NEW z, Streamed(z), z.phase = "wait"
  PROVE  Streamed([z EXCEPT !.phase = "copy", !.written = 0, !.crc = CrcNew])
<1> DEFINE y == [z EXCEPT !.phase = "copy", !.written = 0, !.crc = CrcNew]
<1>1. /\ DOMAIN y = ZipFields /\ y.files = z.files /\ y.phase = "copy" /\ y.index = z.index
      /\ y.crcs = z.crcs /\ y.heads = z.heads /\ y.pos = z.pos
      /\ y.written = 0 /\ y.crc = CrcNew
  BY DEF Streamed, ZipFields
<1> HIDE DEF y
<1>2. PICK f \in Files : f = z.files[z.index]
  BY EntryParts
<1>3. /\ ContentAt(y) = ContentAt(z) /\ y.pos = ContentAt(y) + y.written
      /\ ContentAt(z) \in Int
  <2>1. ContentAt(y) = ContentAt(z)
    BY <1>1 DEF ContentAt
  <2>2. z.pos = ContentAt(z)
    BY DEF Streamed
  <2>3. ContentAt(z) \in Int
    <3>1. /\ Plan[z.files].offsets[z.index] \in Nat
          /\ Bytes(LocalHeader(Plan[z.files], z.index)) \in Nat
          /\ ContentAt(z) = Plan[z.files].offsets[z.index] + Bytes(LocalHeader(Plan[z.files], z.index))
      BY EntryParts
    <3> QED BY <3>1
  <2> QED BY <1>1, <2>1, <2>2, <2>3
<1>4. y.written \in 0 .. FileSize[f] /\ y.crc = CrcAfter(Content(f))[y.written]
  <2>1. FileSize[f] \in Nat /\ Content(f) \in Seq(Byte) /\ Len(Content(f)) = FileSize[f]
    BY ContentIsBytes
  <2>2. CrcAfter(Content(f)) =
          [k \in 0 .. Len(Content(f)) |-> CrcNext(CrcAfter(Content(f)), Content(f), k)]
    BY <2>1, CrcAfterStep
  <2>3. CrcAfter(Content(f))[0] = CrcNew
    BY <2>1, <2>2 DEF CrcNext
  <2> QED BY <1>1, <2>1, <2>3
<1>5. /\ y.index \in 1 .. Len(y.files) /\ y.heads = First(Plan[y.files].offsets, y.index)
      /\ y.crcs = First(CrcsOf(y.files), y.index - 1)
      /\ y.files \in {Dedup(s) : s \in Selections} /\ y.files \in Seq(Files)
  BY <1>1 DEF Streamed
<1>6. Streamed(y)
  BY <1>1, <1>2, <1>3, <1>4, <1>5 DEF Streamed
<1> QED BY <1>6 DEF y

\* A chunk that fits goes into the checksum.
LEMMA ChunkStep ==
  ASSUME NEW z, Streamed(z), z.phase = "copy",
         ~ (z.written + 1 > Plan[z.files].entries[z.index].size)
  PROVE  Streamed([z EXCEPT !.written = @ + 1, !.pos = @ + 1,
                            !.crc = CrcUpdate(@, FileByte[z.files[z.index]])])
<1> DEFINE y == [z EXCEPT !.written = @ + 1, !.pos = @ + 1,
                          !.crc = CrcUpdate(@, FileByte[z.files[z.index]])]
<1>1. /\ DOMAIN y = ZipFields /\ y.files = z.files /\ y.phase = "copy" /\ y.index = z.index
      /\ y.crcs = z.crcs /\ y.heads = z.heads /\ y.pos = z.pos + 1
      /\ y.written = z.written + 1 /\ y.crc = CrcUpdate(z.crc, FileByte[z.files[z.index]])
  BY DEF Streamed, ZipFields
<1> HIDE DEF y
<1>2. PICK f \in Files : f = z.files[z.index]
  BY EntryParts
<1>3. /\ z.written \in 0 .. FileSize[f] /\ z.crc = CrcAfter(Content(f))[z.written]
      /\ z.pos = ContentAt(z) + z.written
  BY <1>2 DEF Streamed
<1>4. FileSize[f] \in Nat /\ Content(f) \in Seq(Byte) /\ Len(Content(f)) = FileSize[f]
  BY ContentIsBytes
<1>5. z.written + 1 \in 1 .. FileSize[f]
  <2>1. Plan[z.files].entries[z.index].size = FileSize[f]
    BY <1>2, EntryParts
  <2> QED BY <1>3, <1>4, <2>1
<1>6. ContentAt(y) = ContentAt(z) /\ y.pos = ContentAt(y) + y.written
  <2>1. ContentAt(y) = ContentAt(z)
    BY <1>1 DEF ContentAt
  <2>3. ContentAt(z) \in Int
    <3>1. /\ Plan[z.files].offsets[z.index] \in Nat
          /\ Bytes(LocalHeader(Plan[z.files], z.index)) \in Nat
          /\ ContentAt(z) = Plan[z.files].offsets[z.index] + Bytes(LocalHeader(Plan[z.files], z.index))
      BY EntryParts
    <3> QED BY <3>1
  <2> QED BY <1>1, <1>3, <1>4, <2>1, <2>3
<1>7. y.crc = CrcAfter(Content(f))[y.written]
  <2>1. CrcAfter(Content(f)) =
          [k \in 0 .. Len(Content(f)) |-> CrcNext(CrcAfter(Content(f)), Content(f), k)]
    BY <1>4, CrcAfterStep
  <2>2. Content(f)[z.written + 1] = FileByte[f]
    BY <1>5, ContentIsBytes
  <2>3. z.written + 1 \in 0 .. Len(Content(f)) /\ z.written + 1 # 0 /\ (z.written + 1) - 1 = z.written
    BY <1>3, <1>4, <1>5
  <2>4. CrcAfter(Content(f))[z.written + 1] =
          CrcUpdate(CrcAfter(Content(f))[z.written], Content(f)[z.written + 1])
    BY <2>1, <2>3 DEF CrcNext
  <2> QED BY <1>1, <1>2, <1>3, <2>2, <2>4
<1>8. /\ y.index \in 1 .. Len(y.files) /\ y.heads = First(Plan[y.files].offsets, y.index)
      /\ y.crcs = First(CrcsOf(y.files), y.index - 1)
      /\ y.files \in {Dedup(s) : s \in Selections} /\ y.files \in Seq(Files)
  BY <1>1 DEF Streamed
<1>9. y.written \in 0 .. FileSize[f]
  BY <1>1, <1>4, <1>5
<1>10. Streamed(y)
  BY <1>1, <1>2, <1>6, <1>7, <1>8, <1>9 DEF Streamed
<1> QED BY <1>10 DEF y

\* A whole content ends with its CRC-32, and the next entry, or the central directory,
\* begins where it was announced.
LEMMA EofStep ==
  ASSUME NEW z, Streamed(z), z.phase = "copy",
         z.written = Plan[z.files].entries[z.index].size,
         NEW phase, phase = IF z.index = Len(z.files) THEN "central" ELSE "header"
  PROVE  Streamed([z EXCEPT !.crcs = Append(@, CrcFinish(z.crc)),
                            !.pos = @ + Bytes(DataDescriptor(Plan[z.files])),
                            !.index = @ + 1, !.phase = phase])
<1> DEFINE y == [z EXCEPT !.crcs = Append(@, CrcFinish(z.crc)),
                          !.pos = @ + Bytes(DataDescriptor(Plan[z.files])),
                          !.index = @ + 1, !.phase = phase]
<1>0. PICK p : p = Plan[z.files]
  OBVIOUS
<1>1. /\ DOMAIN y = ZipFields /\ y.files = z.files /\ y.phase = phase /\ y.index = z.index + 1
      /\ y.crcs = Append(z.crcs, CrcFinish(z.crc)) /\ y.heads = z.heads
      /\ y.pos = z.pos + Bytes(DataDescriptor(p))
  BY <1>0 DEF Streamed, ZipFields
<1> HIDE DEF y
<1>2. PICK f \in Files : f = z.files[z.index]
  BY EntryParts
<1>3. /\ z.index \in 1 .. Len(z.files) /\ z.heads = First(p.offsets, z.index)
      /\ z.crcs = First(CrcsOf(z.files), z.index - 1)
      /\ z.files \in {Dedup(s) : s \in Selections} /\ z.files \in Seq(Files)
      /\ z.crc = CrcAfter(Content(f))[z.written] /\ z.pos = ContentAt(z) + z.written
  BY <1>0, <1>2 DEF Streamed
<1>4. Len(z.files) \in Nat
  BY <1>3
<1>5. CrcFinish(z.crc) = CrcsOf(z.files)[z.index]
  <2>1. z.written = FileSize[f]
    BY <1>2, EntryParts
  <2>2. Content(f) \in Seq(Byte) /\ Len(Content(f)) = FileSize[f]
    BY ContentIsBytes
  <2>3. CrcFinish(z.crc) = Checksum(Content(f))
    BY <1>3, <2>1, <2>2 DEF Checksum
  <2>4. Checksum(Content(f)) = CrcOf(Content(f))
    BY <2>2, ChecksumIsCrc32
  <2> QED BY <1>2, <1>3, <2>3, <2>4 DEF CrcsOf
<1>6. y.crcs = First(CrcsOf(z.files), z.index)
  <2>1. z.index - 1 \in Nat /\ (z.index - 1) + 1 = z.index
    BY <1>3, <1>4
  <2> QED BY <1>1, <1>3, <1>5, <2>1, FirstGrows
<1>7. y.index - 1 = z.index /\ y.index \in Int
  BY <1>1, <1>3, <1>4
<1>8. y.pos = Following(p, z.index)
  BY <1>0, <1>1, <1>3, EntryParts
<1>9. CASE z.index = Len(z.files)
  <2>1. phase = "central" /\ y.index = Len(y.files) + 1
    BY <1>1, <1>9
  <2>2. y.pos = p.centralOffset
    <3>1. Len(p.entries) = Len(z.files)
      BY <1>0, <1>3, PlansAreSound DEF PlanFor
    <3> QED BY <1>8, <1>9, <3>1 DEF Following
  <2>3. Streamed(y)
    BY <1>0, <1>1, <1>3, <1>6, <1>7, <2>1, <2>2 DEF Streamed
  <2> QED BY <2>3 DEF y
<1>10. CASE z.index # Len(z.files)
  <2>1. phase = "header" /\ y.index \in 1 .. Len(y.files)
    BY <1>1, <1>3, <1>4, <1>10
  <2>2. y.pos = p.offsets[y.index]
    <3>1. Len(p.entries) = Len(z.files)
      BY <1>0, <1>3, PlansAreSound DEF PlanFor
    <3> QED BY <1>1, <1>8, <1>10, <3>1 DEF Following
  <2>3. Streamed(y)
    BY <1>0, <1>1, <1>3, <1>6, <1>7, <2>1, <2>2 DEF Streamed
  <2> QED BY <2>3 DEF y
<1> QED BY <1>9, <1>10

\* The central directory takes what is left of the announced length.
LEMMA CentralStep ==
  ASSUME NEW z, Streamed(z), z.phase = "central"
  PROVE  Streamed([z EXCEPT !.pos = @ + CentralDirectory(Plan[z.files]), !.phase = "complete"])
<1> DEFINE y == [z EXCEPT !.pos = @ + CentralDirectory(Plan[z.files]), !.phase = "complete"]
<1>1. /\ DOMAIN y = ZipFields /\ y.files = z.files /\ y.phase = "complete" /\ y.index = z.index
      /\ y.crcs = z.crcs /\ y.heads = z.heads
      /\ y.pos = z.pos + CentralDirectory(Plan[z.files])
  BY DEF Streamed, ZipFields
<1> HIDE DEF y
<1>2. PlanFor(Plan[z.files], z.files)
  BY PlansAreSound DEF Streamed
<1>3. y.pos = Plan[z.files].totalLen
  BY <1>1, <1>2 DEF Streamed, PlanFor
<1>4. Streamed(y)
  BY <1>1, <1>3 DEF Streamed
<1> QED BY <1>4 DEF y

\* An archive is streamed as it was planned, whatever the others do.
LEMMA StreamingStep ==
  ASSUME TypeOK, Streaming, [Next]_vars
  PROVE  Streaming'
<1>0. DOMAIN zip = Requests /\ \A r \in Requests : zip[r].phase # None => zip[r] # NoZip
  BY DEF TypeOK, ZipType, NoZip
<1>1. ASSUME NEW r \in Requests, NEW z, zip' = [zip EXCEPT ![r] = z], Streamed(z)
      PROVE  Streaming'
  <2>1. ASSUME NEW q \in Requests, zip'[q] # NoZip PROVE Streamed(zip'[q])
    <3>1. zip'[q] = IF q = r THEN z ELSE zip[q]
      BY <1>0, <1>1
    <3> QED BY <1>1, <2>1, <3>1 DEF Streaming
  <2> QED BY <2>1 DEF Streaming
<1>2. ASSUME UNCHANGED zip PROVE Streaming'
  BY <1>2 DEF Streaming
<1>3. ASSUME NEW r \in Requests, StartZip(r) PROVE Streaming'
  <2>1. PICK fs : fs = Dedup(req[r].files)
    OBVIOUS
  <2>2. CASE Len(fs) \in 1 .. MaxZipFiles /\ Range(fs) \subseteq offered
    <3>1. /\ pc[r] = "body" /\ req[r].kind = "zip"
          /\ zip' = [zip EXCEPT ![r] = [files |-> fs, phase |-> "header", index |-> 1,
                                        written |-> 0, crc |-> CrcNew, crcs |-> <<>>,
                                        pos |-> 0, heads |-> <<>>]]
      BY <1>3, <2>1, <2>2 DEF StartZip
    <3>2. req[r].files \in Selections
      BY <3>1 DEF TypeOK, RequestType
    <3>3. fs \in {Dedup(s) : s \in Selections}
      BY <2>1, <3>2
    <3>4. fs \in Seq(Files)
      <4>1. req[r].files \in Seq(Files)
        BY <3>2, ShareAssumption DEF ShareAssumption
      <4>2. Range(Dedup(req[r].files)) \subseteq Files
        BY <2>1, <2>2 DEF TypeOK, SessionType
      <4> QED BY <2>1, <4>1, <4>2, DedupIsSequence
    <3>5. Len(fs) > 0
      BY <2>2
    <3> QED BY <1>1, <3>1, <3>3, <3>4, <3>5, FirstEntry
  <2>3. CASE ~ (Len(fs) \in 1 .. MaxZipFiles /\ Range(fs) \subseteq offered)
    BY <1>2, <1>3, <2>1, <2>3 DEF StartZip
  <2> QED BY <2>2, <2>3
<1>4. ASSUME NEW r \in Requests, StreamZip(r) \/ ZipChunk(r) \/ ZipGone(r) PROVE Streaming'
  <2>1. PICK z : z = zip[r]
    OBVIOUS
  <2>2. z.phase # None
    BY <1>4, <2>1 DEF StreamZip, ZipHeader, ZipAsk, ZipContent, ZipEof, ZipCentral, ZipChunk,
                      ZipGone, ZipAt, None
  <2>3. Streamed(z)
    BY <1>0, <2>1, <2>2 DEF Streaming
  <2>4. CASE ZipHeader(r)
    <3>1. /\ z.phase = "header"
          /\ zip' = [zip EXCEPT ![r] =
               [z EXCEPT !.phase = "ask", !.heads = Append(@, z.pos),
                         !.pos = @ + Bytes(LocalHeader(Plan[z.files], z.index))]]
      BY <2>1, <2>4 DEF ZipHeader, ZipAt, PlanOf
    <3> QED BY <1>1, <2>3, <3>1, HeaderStep
  <2>5. CASE ZipAsk(r)
    <3>1. z.phase = "ask" /\ zip' = [zip EXCEPT ![r] = [z EXCEPT !.phase = "wait"]]
      BY <2>1, <2>5 DEF ZipAsk, ZipAt
    <3> QED BY <1>1, <2>3, <3>1, AskStep
  <2>6. ASSUME zip' = AbortZip(r), z.phase \in {"wait", "copy"} PROVE Streaming'
    <3>1. zip' = [zip EXCEPT ![r] = [z EXCEPT !.phase = "aborted"]]
      BY <2>1, <2>6 DEF AbortZip
    <3>2. Streamed([z EXCEPT !.phase = "aborted"])
      BY <2>3, <2>6, BrokenOff
    <3> QED BY <1>1, <3>1, <3>2
  <2>7. CASE ZipContent(r)
    <3>1. z.phase = "wait"
      BY <2>1, <2>7 DEF ZipContent, ZipAt
    <3>2. CASE zip' = AbortZip(r)
      BY <2>6, <3>1, <3>2
    <3>3. CASE zip' # AbortZip(r)
      <4>1. zip' = [zip EXCEPT ![r] = [z EXCEPT !.phase = "copy", !.written = 0, !.crc = CrcNew]]
        BY <2>1, <2>7, <3>3 DEF ZipContent
      <4> QED BY <1>1, <2>3, <3>1, <4>1, ContentStep
    <3> QED BY <3>2, <3>3
  <2>8. CASE ZipChunk(r)
    <3>1. z.phase = "copy"
      BY <2>1, <2>8 DEF ZipChunk, ZipAt
    <3>2. CASE zip' = AbortZip(r)
      BY <2>6, <3>1, <3>2
    <3>3. CASE zip' # AbortZip(r)
      <4>1. /\ ~ (z.written + 1 > Plan[z.files].entries[z.index].size)
            /\ zip' = [zip EXCEPT ![r] =
                 [z EXCEPT !.written = @ + 1, !.pos = @ + 1,
                           !.crc = CrcUpdate(@, FileByte[z.files[z.index]])]]
        BY <2>1, <2>8, <3>3 DEF ZipChunk, ZipSize, PlanOf
      <4> QED BY <1>1, <2>3, <3>1, <4>1, ChunkStep
    <3> QED BY <3>2, <3>3
  <2>9. CASE ZipEof(r)
    <3>1. z.phase = "copy"
      BY <2>1, <2>9 DEF ZipEof, ZipAt
    <3>2. CASE zip' = AbortZip(r)
      BY <2>6, <3>1, <3>2
    <3>3. CASE zip' # AbortZip(r)
      <4>1. PICK phase : phase = IF z.index = Len(z.files) THEN "central" ELSE "header"
        OBVIOUS
      <4>2. /\ z.written = Plan[z.files].entries[z.index].size
            /\ zip' = [zip EXCEPT ![r] =
                 [z EXCEPT !.crcs = Append(@, CrcFinish(z.crc)),
                           !.pos = @ + Bytes(DataDescriptor(Plan[z.files])),
                           !.index = @ + 1, !.phase = phase]]
        BY <2>1, <2>9, <3>3, <4>1 DEF ZipEof, ZipSize, PlanOf
      <4> QED BY <1>1, <2>3, <3>1, <4>1, <4>2, EofStep
    <3> QED BY <3>2, <3>3
  <2>10. CASE ZipCentral(r)
    <3>1. /\ z.phase = "central"
          /\ zip' = [zip EXCEPT ![r] =
               [z EXCEPT !.pos = @ + CentralDirectory(Plan[z.files]), !.phase = "complete"]]
      BY <2>1, <2>10 DEF ZipCentral, ZipAt, PlanOf
    <3> QED BY <1>1, <2>3, <3>1, CentralStep
  <2>11. CASE ZipGone(r)
    <3>1. /\ z.phase \in {"header", "copy", "central"}
          /\ zip' = [zip EXCEPT ![r] = [z EXCEPT !.phase = "gone"]]
      BY <2>1, <2>11 DEF ZipGone
    <3>2. Streamed([z EXCEPT !.phase = "gone"])
      BY <2>3, <3>1, BrokenOff
    <3> QED BY <1>1, <3>1, <3>2
  <2> QED BY <1>4, <2>4, <2>5, <2>7, <2>8, <2>9, <2>10, <2>11 DEF StreamZip
<1>5. \/ UNCHANGED zip
      \/ \E r \in Requests : StartZip(r) \/ StreamZip(r) \/ ZipChunk(r) \/ ZipGone(r)
  BY ZipSteps
<1> QED BY <1>2, <1>3, <1>4, <1>5

-----------------------------------------------------------------------------
(* The theorems *)

\* The invariant holds initially.
LEMMA InitInv == Init => IInv
<1> SUFFICES ASSUME Init PROVE IInv
  OBVIOUS
<1>0. Nobody \notin Requests
  BY DEF Nobody, Requests
<1>1. \A r \in Requests : req[r] = NoRequest /\ pc[r] = "idle" /\ answer[r] = None /\ reply[r] = None
                          /\ zip[r] = NoZip
  BY DEF Init
<1>2. RequestType
  <2>1. NoRequest \in Record /\ NoRequest.kind = None
    BY DEF Record, NoRequest
  <2>2. QED
    BY <1>1, <2>1 DEF Init, RequestType, Phases, Replies, None
<1>3. SessionType
  BY DEF Init, SessionType
<1>4. BridgeType
  BY DEF Init, BridgeType
<1>5. ZipType
  BY <1>1 DEF Init, ZipType, NoZip, None
<1>6. Addressed
  BY <1>1 DEF Init, Addressed, None
<1>7. Granting /\ Passed
  BY <1>1 DEF Init, Granting, Passed, NoRequest, None
<1>8. Concluded /\ Latest /\ Alone /\ Pending
  BY <1>1 DEF Init, Concluded, Latest, Alone, Pending, None
<1>9. Streaming
  BY <1>1 DEF Streaming
<1>10. QED
  BY <1>2, <1>3, <1>4, <1>5, <1>6, <1>7, <1>8, <1>9 DEF IInv, TypeOK

\* Every step preserves it.
LEMMA NextInv == IInv /\ [Next]_vars => IInv'
  BY TypeStep, AddressedStep, GrantingStep, PassedStep, ConcludedStep, LatestStep, AloneStep,
     PendingStep, StreamingStep DEF IInv

\* So it always holds.
LEMMA Inductive == Spec => []IInv
  BY InitInv, NextInv, PTL DEF Spec

\* Type correctness: every request is where its kind may be, and what travels between
\* server, bridge and app is of one that arrived (web.rs, api/server.rs).
THEOREM TypeCorrect == Spec => []TypeOK
  BY Inductive, PTL DEF IInv

\* Content is asked of the app, and an upload handed on, only for a browser that a user
\* accepted (the access check of every handler of web.rs).
THEOREM NothingWithoutConsent == Spec => []OnlyAcceptedIsServed
<1>1. IInv => OnlyAcceptedIsServed
  <2> SUFFICES ASSUME IInv, NEW r \in Requests, req[r].kind \in {"download", "zip", "upload"},
                      Waits(r) \/ zip[r] # NoZip \/ answer[r] \in {"content", "handed"}
               PROVE  Ip(r) \in granted
    BY DEF OnlyAcceptedIsServed
  <2>1. ZipAt(r, "wait") => zip[r] # NoZip
    BY DEF ZipAt, NoZip, None
  <2>2. QED
    BY <2>1 DEF Waits, IInv, Passed
<1>2. QED
  BY <1>1, Inductive, PTL

\* A session means what its state says, and a pending one is ended by somebody (the
\* guard of prepare_download and the map of sessions, web.rs).
THEOREM SessionsKeepTheirWord == Spec => []SessionsAreTrue
<1>1. IInv => SessionsAreTrue
  <2> SUFFICES ASSUME IInv PROVE SessionsAreTrue
    OBVIOUS
  <2>1. ASSUME NEW r \in Requests, answer[r] = "list", r \notin crowded, last[Ip(r)] = r
        PROVE  sessions[Ip(r)] = "accepted"
    <3>1. req[r] \in Record /\ req[r].kind # None
      BY <2>1 DEF IInv, TypeOK, RequestType, Concluded, None
    <3>2. Ip(r) \in Clients /\ r # Nobody
      BY <3>1 DEF Record, NoRequest, Ip, Nobody, Requests
    <3>3. QED
      BY <2>1, <3>2 DEF IInv, Alone
  <2>2. ASSUME NEW c \in Clients, sessions[c] = "pending",
               \A r \in Requests : answer[r] # "gone declined"
        PROVE  \E r \in Requests : /\ req[r].kind = "prepare" /\ Ip(r) = c
                                   /\ r \in clears \/ pc[r] \in {"sending", "asking", "clearing"}
    BY <2>2 DEF IInv, Pending, Busy
  <2>3. QED
    BY <2>1, <2>2 DEF SessionsAreTrue
<1>2. QED
  BY <1>1, Inductive, PTL

\* The incremental checksum of every short content is its CRC-32 (Crc32, web_zip.rs).
LEMMA ChecksumsHold == ChecksumsAreCrc32
<1>1. ASSUME NEW a \in {{}, 0 .. 7}, NEW b \in Byte, NEW s \in {<<b>>, <<a, b>>, <<a, b, a>>}
      PROVE  Checksum(s) = CrcOf(s)
  <2>1. a \in Byte
    BY DEF Byte
  <2>2. <<b>> \in Seq(Byte) /\ <<a, b>> \in Seq(Byte) /\ <<a, b, a>> \in Seq(Byte)
    BY <2>1
  <2> QED BY <2>2, ChecksumIsCrc32
<1>2. <<>> \in Seq(Byte) /\ Len(<<>>) = 0
  OBVIOUS
<1>3. Checksum(<<>>) = {}
  <2>1. CrcAfter(<<>>) = [k \in 0 .. Len(<<>>) |-> CrcNext(CrcAfter(<<>>), <<>>, k)]
    BY <1>2, CrcAfterStep
  <2>2. CrcAfter(<<>>)[0] = CrcNew
    BY <1>2, <2>1 DEF CrcNext
  <2> QED BY <1>2, <2>2 DEF Checksum, CrcFinish, CrcNew, SymDiff
<1>4. CrcOf(<<>>) = {}
  BY <1>2, <1>3, ChecksumIsCrc32
<1> QED BY <1>1, <1>3, <1>4 DEF ChecksumsAreCrc32

\* Every day that DOS can date is written as its date (dos_date_time, web_zip.rs).
LEMMA DatesHold == DatesAreCalendarDates
  BY DateIsCalendarDate, Zenon DEF DatesAreCalendarDates

\* An archive is what its Content-Length and its central directory promise: its entries
\* where and as long as they were announced, under names no two of which are one on any
\* file system, with the CRC-32 of their whole contents, and with dates of the calendar
\* (ZipPlan, stream_zip, Crc32 and dos_date_time, web_zip.rs).
THEOREM ArchivesAreExact == Spec => []ArchiveIsExact
<1>1. IInv => ArchiveIsExact
  <2> SUFFICES ASSUME IInv, NEW r \in Requests, zip[r] # NoZip
               PROVE  PlanIsSound(PlanOf(r)) /\ StreamIsExact(zip[r], PlanOf(r))
    BY ChecksumsHold, DatesHold DEF ArchiveIsExact
  <2>1. PICK z : z = zip[r]
    OBVIOUS
  <2>2. Streamed(z) /\ z.phase \in ZipPhases
    BY <2>1 DEF IInv, Streaming, TypeOK, ZipType, ZipPhases
  <2>3. PlanIsSound(Plan[z.files])
    BY <2>2, PlansAreSound DEF Streamed
  <2>4. StreamIsExact(z, Plan[z.files])
    BY <2>2, StreamedIsExact
  <2> QED BY <2>1, <2>3, <2>4 DEF PlanOf
<1> QED BY <1>1, Inductive, PTL
=============================================================================
