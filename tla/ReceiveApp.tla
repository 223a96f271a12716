----------------------------- MODULE ReceiveApp -----------------------------
(***************************************************************************)
(* How the application answers the receive server: the upload slot, the    *)
(* bridge that holds the responders of unanswered requests                 *)
(* (localsend_isolates/rust/src/api/server.rs) and the receive controller  *)
(* of the app (receive_controller.dart).                                   *)
(*                                                                         *)
(* Events travel server -> bridge -> app in order.  The app's commands are *)
(* handled by independent tasks of the server isolate, in any order.  The  *)
(* app is single-threaded: a handler runs undisturbed from one await to    *)
(* the next, and what it read before an await may be stale after it.       *)
(*                                                                         *)
(* The slot is coarser than in UploadServer: the event channel never fills *)
(* up here and a handler that frees the slot owes the app one notice.  A   *)
(* session's id is the request that created it; a job is the upload of one *)
(* file of one session.  Web uploads and chat envelopes, which answer      *)
(* prepare-upload without asking the user, are left out.                   *)
(***************************************************************************)
EXTENDS Naturals, Sequences, FiniteSets

CONSTANTS
  Sessions,   \* prepare-upload requests; also the ids of the sessions they open
  Files,      \* file ids
  MaxOffer    \* bound: how many files all requests together offer

ASSUME AppAssumption ==
  /\ {"free", "pending", "none"} \cap Sessions = {}
  /\ MaxOffer \in Nat \ {0}

Jobs == Sessions \X Files
SessionOf(j) == j[1]
FileOf(j) == j[2]

VARIABLES
  offer,      \* the files each request offers
  slot,       \* the session slot: "free", "pending" or the active session
  status,     \* the file statuses of the active session
  pc,         \* phase of each prepare-upload handler
  verdict,    \* the answer each request was given: who it was meant for, and files
  owed,       \* the notice the server still has to send about each session
  up,         \* phase of each upload handler
  result,     \* what the target of each job reports to the app
  events,     \* events from the server to the bridge
  decision,   \* the request whose responder pending_decision holds
  targets,    \* jobs whose responder pending_uploads holds
  inbox,      \* events from the bridge to the app
  commands,   \* commands of the app the bridge has not handled yet
  session,    \* the session the app shows, NoSession when none
  lookups,    \* requests whose onPrepareUpload awaits the directories, in order
  permitting, \* requests whose acceptFileRequest awaits the storage permission
  saving,     \* await point of each onFileUpload
  closing,    \* sessions whose end has scheduled a delayed closeSession
  chosen      \* the files the user selected (or quick save) for each request

serverVars == <<offer, slot, status, pc, verdict, owed, up, result>>
bridgeVars == <<events, decision, targets, inbox, commands>>
appVars    == <<session, lookups, permitting, saving, closing, chosen>>
vars       == <<serverVars, bridgeVars, appVars>>

Offered == {j \in Jobs : FileOf(j) \in offer[SessionOf(j)]}
NoSession == [id |-> "none", status |-> "none", files |-> <<>>]
Shown == session # NoSession
Final == {"skipped", "finished", "failed"}
Allowed == {"sending", "finishedWithErrors"}

Prepare(s) == [kind |-> "prepare", session |-> s]
FileUpload(j) == [kind |-> "file", job |-> j]
Notice(k, s) == [kind |-> k, session |-> s]
Notices == {"aborted", "finished", "cancelled"}

\* The bridge's decision task carries no session: "from" only records which
\* request the app meant.
Decide(s, chosenFiles) == [op |-> "decide", from |-> s, files |-> chosenFiles]
GiveTarget(j) == [op |-> "target", job |-> j]
RejectUpload(j) == [op |-> "reject", job |-> j]
CancelSession(s) == [op |-> "cancel", session |-> s]
NoAnswer == [from |-> "none", files |-> {}]

Init ==
  /\ offer = [s \in Sessions |-> {}]
  /\ slot = "free" /\ status = [f \in Files |-> "absent"]
  /\ pc = [s \in Sessions |-> "new"]
  /\ verdict = [s \in Sessions |-> NoAnswer]
  /\ owed = [s \in Sessions |-> "none"]
  /\ up = [j \in Jobs |-> "none"] /\ result = [j \in Jobs |-> "none"]
  /\ events = <<>> /\ inbox = <<>>
  /\ decision = "none" /\ targets = {} /\ commands = {}
  /\ session = NoSession
  /\ lookups = <<>> /\ permitting = {}
  /\ saving = [j \in Jobs |-> "none"]
  /\ closing = {} /\ chosen = [s \in Sessions |-> {}]

-----------------------------------------------------------------------------
(* The server.                                                             *)

Vacate == slot' = "free" /\ status' = [f \in Files |-> "absent"]

\* No file is being received and 60 s may have passed.
Abandoned == slot \in Sessions /\ \A f \in Files : status[f] # "in_progress"

\* prepare-upload claims the slot and announces the request, after the end of
\* an abandoned session it replaces.
Request(s) ==
  /\ pc[s] = "new"
  /\ slot = "free" \/ Abandoned
  /\ \E F \in (SUBSET Files) \ {{}} : offer' = [offer EXCEPT ![s] = F]
  /\ Cardinality(Offered') <= MaxOffer
  /\ pc' = [pc EXCEPT ![s] = "waiting"]
  /\ slot' = "pending" /\ status' = [f \in Files |-> "absent"]
  /\ events' = events \o (IF slot = "free" THEN <<>> ELSE <<Notice("cancelled", slot)>>)
                      \o <<Prepare(s)>>
  /\ UNCHANGED <<verdict, owed, up, result, decision, targets, inbox, commands, appVars>>

\* 409: blocked by another session.
Refuse(s) ==
  /\ pc[s] = "new" /\ slot # "free"
  /\ pc' = [pc EXCEPT ![s] = "over"]
  /\ UNCHANGED <<offer, slot, status, verdict, owed, up, result, bridgeVars, appVars>>

\* The sender leaves before a session exists.
HangUp(s) ==
  /\ pc[s] = "waiting"
  /\ pc' = [pc EXCEPT ![s] = "over"]
  /\ Vacate
  /\ owed' = [owed EXCEPT ![s] = "aborted"]
  /\ UNCHANGED <<offer, verdict, up, result, bridgeVars, appVars>>

\* The answer opens a session, unless it accepts no offered file.
Respond(s) ==
  LET accepted == verdict[s].files \cap offer[s] IN
  /\ pc[s] = "waiting" /\ verdict[s] # NoAnswer
  /\ IF accepted = {}
       THEN Vacate /\ pc' = [pc EXCEPT ![s] = "over"]
       ELSE /\ slot' = s
            /\ status' = [f \in Files |-> IF f \in accepted THEN "pending" ELSE "absent"]
            /\ pc' = [pc EXCEPT ![s] = "opened"]
  /\ UNCHANGED <<offer, verdict, owed, up, result, bridgeVars, appVars>>

StartUpload(j) ==
  /\ slot = SessionOf(j) /\ status[FileOf(j)] = "pending"
  /\ status' = [status EXCEPT ![FileOf(j)] = "in_progress"]
  /\ up' = [up EXCEPT ![j] = "asked"]
  /\ events' = Append(events, FileUpload(j))
  /\ UNCHANGED <<offer, slot, pc, verdict, owed, result, decision, targets, inbox, commands, appVars>>

\* The sender leaves while the app has not named a target yet.
HangUpUpload(j) ==
  /\ up[j] = "asked"
  /\ up' = [up EXCEPT ![j] = "ending"]
  /\ UNCHANGED <<offer, slot, status, pc, verdict, owed, result, bridgeVars, appVars>>

\* The file is written completely, or the transfer or the disk fails; the
\* writer tells the app, then the handler.
SaveBody(j) ==
  /\ up[j] = "saving"
  /\ up' = [up EXCEPT ![j] = "ending"]
  /\ \E r \in {"saved", "failed"} : result' = [result EXCEPT ![j] = r]
  /\ UNCHANGED <<offer, slot, status, pc, verdict, owed, bridgeVars, appVars>>

\* The file of a session that is still active is settled; the last one ends
\* the session.
FinalizeFile(j) ==
  LET settled == [status EXCEPT ![FileOf(j)] = "settled"]
      complete == \A f \in Files : settled[f] \in {"absent", "settled"}
  IN
  /\ up[j] = "ending"
  /\ up' = [up EXCEPT ![j] = "over"]
  /\ IF slot # SessionOf(j)
       THEN UNCHANGED <<slot, status, owed>>
       ELSE IF complete
         THEN Vacate /\ owed' = [owed EXCEPT ![SessionOf(j)] = "finished"]
         ELSE status' = settled /\ UNCHANGED <<slot, owed>>
  /\ UNCHANGED <<offer, pc, verdict, result, bridgeVars, appVars>>

SenderCancels(s) ==
  /\ slot = s
  /\ Vacate
  /\ owed' = [owed EXCEPT ![s] = "cancelled"]
  /\ UNCHANGED <<offer, pc, verdict, up, result, bridgeVars, appVars>>

\* Notices are sent after the slot was unlocked: another request may have
\* claimed it, and announced itself, in between.
Notify(s) ==
  /\ owed[s] # "none"
  /\ events' = Append(events, Notice(owed[s], s))
  /\ owed' = [owed EXCEPT ![s] = "none"]
  /\ UNCHANGED <<offer, slot, status, pc, verdict, up, result, decision, targets, inbox, commands, appVars>>

-----------------------------------------------------------------------------
(* The bridge.                                                             *)

\* Dropping the responder of an upload that still waits fails the upload.
Drop(jobs) ==
  /\ targets' = targets \ jobs
  /\ up' = [j \in Jobs |-> IF j \in jobs \cap targets /\ up[j] = "asked" THEN "ending" ELSE up[j]]

OfSession(s) == {j \in Jobs : SessionOf(j) = s}

\* Faulty: drops the responder of a newer request.
DecisionAfterAbortCleared(s) == "none"
\* A newer request may have replaced the responder of the aborted one.
DecisionAfterAbort(s) == IF decision = s THEN "none" ELSE decision

\* handle_server_event: keeps the responder, drops those that ended, and
\* passes the event on.
Forward ==
  /\ events # <<>>
  /\ LET e == Head(events) IN
     /\ CASE e.kind = "prepare" -> decision' = e.session /\ UNCHANGED <<targets, up>>
          [] e.kind = "file" -> targets' = targets \cup {e.job} /\ UNCHANGED <<decision, up>>
          [] e.kind = "aborted" ->
               /\ decision' = DecisionAfterAbort(e.session)
               /\ UNCHANGED <<targets, up>>
          [] OTHER -> Drop(OfSession(e.session)) /\ UNCHANGED decision
     /\ inbox' = Append(inbox, e)
  /\ events' = Tail(events)
  /\ UNCHANGED <<offer, slot, status, pc, verdict, owed, result, commands, appVars>>

\* respond_prepare_upload answers whatever request is pending.
RespondPrepareUpload(c) ==
  /\ c \in commands /\ c.op = "decide"
  /\ commands' = commands \ {c}
  /\ decision' = "none"
  /\ IF decision \in Sessions /\ pc[decision] = "waiting"
       THEN verdict' = [verdict EXCEPT ![decision] = [from |-> c.from, files |-> c.files]]
       ELSE UNCHANGED verdict
  /\ UNCHANGED <<offer, slot, status, pc, owed, up, result, events, targets, inbox, appVars>>

\* respond_file_upload: an error when the responder or the request is gone.
RespondFileUpload(c) ==
  /\ c \in commands /\ c.op = "target"
  /\ commands' = commands \ {c}
  /\ targets' = targets \ {c.job}
  /\ IF c.job \in targets /\ up[c.job] = "asked"
       THEN up' = [up EXCEPT ![c.job] = "saving"] /\ UNCHANGED result
       ELSE result' = [result EXCEPT ![c.job] = "failed"] /\ UNCHANGED up
  /\ UNCHANGED <<offer, slot, status, pc, verdict, owed, events, decision, inbox, appVars>>

RejectFileUpload(c) ==
  /\ c \in commands /\ c.op = "reject"
  /\ commands' = commands \ {c}
  /\ Drop({c.job})
  /\ UNCHANGED <<offer, slot, status, pc, verdict, owed, result, events, decision, inbox, appVars>>

\* Faulty: cancels whatever session holds the slot.
CancelAnySession(c) ==
  /\ c \in commands /\ c.op = "cancel"
  /\ commands' = commands \ {c}
  /\ Vacate
  /\ Drop(OfSession(c.session))
  /\ UNCHANGED <<offer, pc, verdict, owed, result, events, decision, inbox, appVars>>

\* cancel_session frees the slot without a notice and drops the responders.
CancelUploadSession(c) ==
  /\ c \in commands /\ c.op = "cancel"
  /\ commands' = commands \ {c}
  /\ IF slot = c.session THEN Vacate ELSE UNCHANGED <<slot, status>>
  /\ Drop(OfSession(c.session))
  /\ UNCHANGED <<offer, pc, verdict, owed, result, events, decision, inbox, appVars>>

-----------------------------------------------------------------------------
(* The receive controller.                                                 *)

Take(kind) == inbox # <<>> /\ Head(inbox).kind = kind /\ inbox' = Tail(inbox)
Current == Head(inbox).session
Issue(c) == commands' = commands \cup {c}

\* closeSession clears whatever session is shown.
CloseShown == session' = NoSession

NewSession(s) ==
  [id |-> s, status |-> "waiting", files |-> [f \in offer[s] |-> "queue"]]
Accepted(view, selected) ==
  [view EXCEPT !.status = "sending",
               !.files = [f \in DOMAIN @ |-> IF f \in selected THEN "queue" ELSE "skipped"]]
WithFile(view, f, st) == [view EXCEPT !.files = [@ EXCEPT ![f] = st]]

\* onPrepareUpload up to its first await: a new request ends the old session.
OnPrepareUpload ==
  /\ Take("prepare")
  /\ CloseShown
  /\ lookups' = Append(lookups, Current)
  /\ UNCHANGED <<serverVars, events, decision, targets, commands,
                 permitting, saving, closing, chosen>>

\* The directories are known: the request is shown, or, with quick save,
\* accepted at once.  Every lookup is the same chain of calls over one platform
\* channel, so they end in the order they began.
ShowRequest ==
  /\ lookups # <<>>
  /\ lookups' = Tail(lookups)
  /\ LET s == Head(lookups) IN
     \/ /\ session' = NewSession(s)
        /\ UNCHANGED <<chosen, permitting>>
     \/ /\ session' = Accepted(NewSession(s), offer[s])
        /\ chosen' = [chosen EXCEPT ![s] = offer[s]]
        /\ permitting' = permitting \cup {s}
  /\ UNCHANGED <<serverVars, bridgeVars, saving, closing>>

\* acceptFileRequest up to the permission request.
AcceptFileRequest(selected) ==
  /\ Shown /\ session.status = "waiting"
  /\ selected \in (SUBSET offer[session.id]) \ {{}}
  /\ session' = Accepted(session, selected)
  /\ chosen' = [chosen EXCEPT ![session.id] = selected]
  /\ permitting' = permitting \cup {session.id}
  /\ UNCHANGED <<serverVars, bridgeVars, lookups, saving, closing>>

\* The permission dialog is over: the decision is sent without another look
\* at the session.
SendDecision(s) ==
  /\ s \in permitting
  /\ permitting' = permitting \ {s}
  /\ Issue(Decide(s, chosen[s]))
  /\ UNCHANGED <<serverVars, events, decision, targets, inbox,
                 session, lookups, saving, closing, chosen>>

\* The user declines, or accepts a message, which has nothing to download.
DeclineFileRequest ==
  /\ Shown /\ session.status = "waiting"
  /\ Issue(Decide(session.id, {}))
  /\ CloseShown
  /\ UNCHANGED <<serverVars, events, decision, targets, inbox,
                 lookups, permitting, saving, closing, chosen>>

\* Faulty: accepts an upload while the user is still asked.
ExpectedWhileWaiting(j) == Shown /\ session.id = SessionOf(j)
\* The upload's session is the one shown, is running and has selected the file
\* (a file that was not selected has no desired name).
Expected(j) ==
  /\ Shown /\ session.id = SessionOf(j) /\ session.status \in Allowed
  /\ FileOf(j) \in chosen[session.id]

\* onFileUpload up to its first await: an unexpected upload cancels its session
\* at the server.
OnFileUpload ==
  /\ Take("file")
  /\ LET j == Head(inbox).job IN
        IF Expected(j)
          THEN /\ session' = [WithFile(session, FileOf(j), "sending") EXCEPT !.status = "sending"]
               /\ saving' = [saving EXCEPT ![j] = "preparing"]
               /\ UNCHANGED commands
          ELSE /\ Issue(CancelSession(SessionOf(j)))
               /\ UNCHANGED <<session, saving>>
  /\ UNCHANGED <<serverVars, events, decision, targets, lookups, permitting, closing, chosen>>

\* The end of onFileUpload: once every file of the session shown is final the
\* session ends; with quick save it is closed a moment later.
Concluded(view) ==
  IF view # NoSession /\ view.status \in Allowed
       /\ \A f \in DOMAIN view.files : view.files[f] \in Final
    THEN [view EXCEPT !.status = IF \E f \in DOMAIN view.files : view.files[f] = "failed"
                                   THEN "finishedWithErrors" ELSE "finished"]
    ELSE view

Conclude(view) ==
  /\ session' = Concluded(view)
  /\ \/ Concluded(view) # view /\ closing' = closing \cup {view.id}
     \/ UNCHANGED closing

\* Faulty: leaves the responder with the bridge.
FailQuietly(j) ==
  /\ saving' = [saving EXCEPT ![j] = "over"]
  /\ Conclude(IF Shown /\ FileOf(j) \in offer[session.id]
                THEN WithFile(session, FileOf(j), "failed") ELSE session)
  /\ UNCHANGED <<serverVars, events, decision, targets, inbox, commands,
                 lookups, permitting, chosen>>

\* The catch clause marks the file failed in whatever session is shown (its
\* update of a file the session does not have throws) and rejects the upload.
Fail(j) ==
  /\ saving' = [saving EXCEPT ![j] = "over"]
  /\ IF Shown /\ FileOf(j) \notin offer[session.id]
       THEN UNCHANGED <<commands, session, closing>>
       ELSE /\ Issue(RejectUpload(j))
            /\ Conclude(IF Shown THEN WithFile(session, FileOf(j), "failed") ELSE session)
  /\ UNCHANGED <<serverVars, events, decision, targets, inbox, lookups, permitting, chosen>>

PrepareSaveTarget(j) ==
  /\ saving[j] = "preparing"
  /\ Issue(GiveTarget(j))
  /\ saving' = [saving EXCEPT ![j] = "receiving"]
  /\ UNCHANGED <<serverVars, events, decision, targets, inbox,
                 session, lookups, permitting, closing, chosen>>

\* The save target cannot be prepared.
PrepareSaveTargetFails(j) == saving[j] = "preparing" /\ Fail(j)

\* Saving failed, or the size check, moving the file to the gallery or writing
\* the history entry did.
ReceiveFails(j) ==
  /\ saving[j] = "recording" \/ (saving[j] = "receiving" /\ result[j] # "none")
  /\ Fail(j)

\* Faulty: the end of the progress stream counts as success.
KeepWhateverArrived(j) ==
  /\ saving[j] = "receiving" /\ result[j] # "none"
  /\ IF Shown /\ session.status \in Allowed /\ FileOf(j) \in offer[session.id]
       THEN /\ session' = WithFile(session, FileOf(j), "finished")
            /\ saving' = [saving EXCEPT ![j] = "recording"]
       ELSE /\ saving' = [saving EXCEPT ![j] = "over"]
            /\ UNCHANGED session
  /\ UNCHANGED <<serverVars, bridgeVars, lookups, permitting, closing, chosen>>

\* The file was written and checked: it is marked in whatever session is shown
\* by now.  (An update of a file that session does not have throws.)
KeepFile(j) ==
  /\ saving[j] = "receiving" /\ result[j] = "saved"
  /\ IF Shown /\ session.status \in Allowed /\ FileOf(j) \in offer[session.id]
       THEN /\ session' = WithFile(session, FileOf(j), "finished")
            /\ saving' = [saving EXCEPT ![j] = "recording"]
       ELSE /\ saving' = [saving EXCEPT ![j] = "over"]
            /\ UNCHANGED session
  /\ UNCHANGED <<serverVars, bridgeVars, lookups, permitting, closing, chosen>>

\* The history entry is written; meanwhile the session may have changed.
RecordHistory(j) ==
  /\ saving[j] = "recording"
  /\ saving' = [saving EXCEPT ![j] = "over"]
  /\ Conclude(session)
  /\ UNCHANGED <<serverVars, bridgeVars, lookups, permitting, chosen>>

\* _cancelBySender
CancelBySender == session' = [session EXCEPT !.status = "canceledBySender"]

\* Faulty: only a request that still waits is cancelled.
EndedIfWaiting(s) == session.id = s /\ session.status = "waiting"
Ended(s) == session.id = s

OnSessionEnd ==
  /\ \/ /\ Take("cancelled")
        /\ IF Ended(Current) THEN CancelBySender ELSE UNCHANGED session
     \/ Take("finished") /\ UNCHANGED session
  /\ UNCHANGED <<serverVars, events, decision, targets, commands,
                 lookups, permitting, saving, closing, chosen>>

OnPrepareUploadAborted ==
  /\ Take("aborted")
  /\ IF session.id = Current /\ session.status = "waiting"
       THEN CancelBySender ELSE UNCHANGED session
  /\ UNCHANGED <<serverVars, events, decision, targets, commands,
                 lookups, permitting, saving, closing, chosen>>

\* The closeSession scheduled by quick save.
DelayedClose(s) ==
  /\ s \in closing
  /\ closing' = closing \ {s}
  /\ CloseShown
  /\ UNCHANGED <<serverVars, bridgeVars, lookups, permitting, saving, chosen>>

\* The user closes the page of the session shown.
UserCloses ==
  /\ Shown
  /\ CloseShown
  /\ UNCHANGED <<serverVars, bridgeVars, lookups, permitting, saving, closing, chosen>>

\* cancelSession
UserCancels ==
  /\ Shown
  /\ Issue(CancelSession(session.id))
  /\ CloseShown
  /\ UNCHANGED <<serverVars, events, decision, targets, inbox,
                 lookups, permitting, saving, closing, chosen>>

-----------------------------------------------------------------------------
Handle(c) ==
  RespondPrepareUpload(c) \/ RespondFileUpload(c) \/ RejectFileUpload(c) \/ CancelUploadSession(c)

Deliver == OnPrepareUpload \/ OnFileUpload \/ OnSessionEnd \/ OnPrepareUploadAborted

\* An awaiting onFileUpload goes on.
Continue(j) ==
  \/ PrepareSaveTarget(j) \/ PrepareSaveTargetFails(j)
  \/ KeepFile(j) \/ ReceiveFails(j)
  \/ RecordHistory(j)

Server ==
  \/ \E s \in Sessions : \/ Request(s) \/ Refuse(s) \/ HangUp(s) \/ Respond(s)
                         \/ SenderCancels(s) \/ Notify(s)
  \/ \E j \in Jobs : StartUpload(j) \/ HangUpUpload(j) \/ SaveBody(j) \/ FinalizeFile(j)

Bridge == Forward \/ \E c \in commands : Handle(c)

App ==
  \/ Deliver
  \/ ShowRequest
  \/ \E s \in Sessions : SendDecision(s) \/ DelayedClose(s)
  \/ \E j \in Jobs : Continue(j)

User ==
  \/ \E selected \in SUBSET Files : AcceptFileRequest(selected)
  \/ DeclineFileRequest \/ UserCloses \/ UserCancels

Next == Server \/ Bridge \/ App \/ User

Spec == Init /\ [][Next]_vars

-----------------------------------------------------------------------------
(* Properties.                                                             *)

\* Nothing is written to disk that the user (or quick save) did not select for
\* that very request: although respond_prepare_upload may answer the wrong
\* request, onFileUpload checks the session again.
NothingWrittenUnasked ==
  \A j \in Jobs : up[j] = "saving" \/ result[j] = "saved" => FileOf(j) \in chosen[SessionOf(j)]

\* The bridge never loses the responder of a request that still waits for its
\* answer, whatever aborts and later requests do to pending_decision.
DecisionIsReachable ==
  \A s \in Sessions :
    pc[s] = "waiting" /\ verdict[s] = NoAnswer
      => \/ decision = s
         \/ \E i \in 1..Len(events) : events[i] = Prepare(s)

\* Where every request has file ids of its own, a file the app shows as
\* received was written completely for the session shown, although its upload
\* may outlive the session and end while another one is shown.
ReceivedIsSaved ==
  Shown /\ (\A s, t \in Sessions : s # t => offer[s] \cap offer[t] = {}) =>
           \A f \in DOMAIN session.files :
             session.files[f] = "finished" => result[<<session.id, f>>] = "saved"

\* An answer reaches the request it was given for, or none.
AnswersItsRequest ==
  \A s \in Sessions : verdict[s] # NoAnswer => verdict[s].from = s

\* The stage of a session's life, as the abstract slot tells them apart.
life == [s \in Sessions |->
           IF slot = s THEN "open"
           ELSE IF pc[s] = "waiting" THEN "reserved"
           ELSE IF pc[s] = "new" THEN "new" ELSE "closed"]

\* The slot still keeps its promise with the real application around it.
Slot == INSTANCE SessionSlot WITH life <- life
SlotSpec == Slot!Spec

\* Nothing is in transit between the server, the bridge and the app, and every
\* handler waits for its sender, for the bytes of a file or for the user.
Quiet ==
  /\ events = <<>> /\ inbox = <<>> /\ commands = {}
  /\ \A s \in Sessions : owed[s] = "none" /\ (pc[s] = "waiting" => verdict[s] = NoAnswer)
  /\ lookups = <<>> /\ permitting = {} /\ closing = {}
  /\ \A j \in Jobs : /\ up[j] # "ending"
                     /\ saving[j] \in {"none", "receiving", "over"}
                     /\ saving[j] = "receiving" => result[j] = "none"

\* As long as every answer reached its request, no upload is left waiting for
\* its target, whatever was closed, cancelled or failed in the meantime: it gets
\* one or its responder is dropped.
UploadIsAnswered == Quiet /\ AnswersItsRequest => \A j \in Jobs : up[j] # "asked"

\* As long as every answer reached its request, the app does not go on showing
\* a transfer as running once its session is over at the server.
EndIsShown ==
  Quiet /\ AnswersItsRequest =>
    \A s \in Sessions :
      pc[s] = "opened" /\ slot # s => ~(session.id = s /\ session.status = "sending")
=============================================================================
