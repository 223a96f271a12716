---------------------------- MODULE SendSession ----------------------------
(***************************************************************************)
(* One sending session of the application over HTTP: the request that asks *)
(* the receiver, the PIN dialog, the task of the upload isolate that sends *)
(* the accepted files one after another, the tasks that send failed files  *)
(* again, and everybody who may end the session meanwhile.  The main       *)
(* isolate and the upload isolate only know each other by two queues of    *)
(* messages, the two devices by requests that may fail anywhere.           *)
(*                                                                         *)
(* The receiver is reduced to the session its server keeps; UploadServer   *)
(* is the model of that server.                                            *)
(***************************************************************************)
EXTENDS Naturals, Sequences, FiniteSets, SequencesExt

CONSTANTS Files,
          MaxRetries,  \* bound on the number of files sent again
          MaxPins,     \* bound on the number of PINs entered
          None

ASSUME SendAssumption ==
    /\ MaxRetries \in Nat /\ MaxPins \in Nat
    /\ IsFiniteSet(Files) /\ Files # {} /\ None \notin Files

(* The first task is that of the transfer, every other one is of a retry.  *)
Tasks == 1 .. MaxRetries + 1

VARIABLES session,     \* its status; "closed" once it is removed from the provider
          background,
          asking,      \* where startSession is
          remote,      \* whether the session id of the receiver is stored
          files,       \* the status of each file, as shown
          sendingTasks,
          nextTask,
          pins,        \* PINs entered (bounded)
          inbox,       \* messages to the upload isolate
          running,     \* the handlers that run in the upload isolate ...
          work,        \* ... with the files they still have to send ...
          request,     \* ... and the request they await
          tokens,      \* the map of cancel tokens
          cancelled,   \* the tokens that are cancelled
          events,      \* messages to the main isolate
          receiver,    \* the session of the receiver's server ...
          received,    \* ... and the status of each of its files
          notices      \* the cancel requests underway

sessionVars  == <<session, background, asking, remote, files>>
taskVars     == <<sendingTasks, nextTask>>
isolateVars  == <<running, work, request, tokens, cancelled>>
receiverVars == <<receiver, received>>
vars == <<sessionVars, taskVars, pins, inbox, isolateVars, events, receiverVars, notices>>

Ended    == {"finished", "finishedWithErrors", "canceledByReceiver"}
Rejected == {"declined", "recipientBusy", "tooManyAttempts", "finishedWithErrors"}
Statuses == {"none", "waiting", "sending", "canceledBySender", "closed"} \cup Ended \cup Rejected
Final    == {"finished", "failed"}

IsOpen == session \notin {"none", "closed"}

Accepted == {f \in Files : received[f] # "none"}

Init ==
    /\ session = "none" /\ background = FALSE /\ asking = "no" /\ remote = FALSE
    /\ files = [f \in Files |-> "queue"]
    /\ sendingTasks = {} /\ nextTask = 1 /\ pins = 0
    /\ inbox = <<>> /\ running = {} /\ work = [t \in Tasks |-> <<>>]
    /\ request = [t \in Tasks |-> "none"] /\ tokens = {} /\ cancelled = {}
    /\ events = <<>>
    /\ receiver = "none" /\ received = [f \in Files |-> "none"] /\ notices = {}

-----------------------------------------------------------------------------
(* Asking the receiver                                                     *)

StartSession ==
    /\ session = "none"
    /\ session' = "waiting" /\ asking' = "request"
    /\ background' \in BOOLEAN
    /\ UNCHANGED <<remote, files, taskVars, pins, inbox, isolateVars, events,
                   receiverVars, notices>>

(* What prepare_upload returns: the receiver's decision, or any other      *)
(* status, no response at all, or one that cannot be read.                 *)
Responses == {"accepted", "nothing", "pin", "declined", "recipientBusy", "tooManyAttempts", "error"}

(* The request is never cancelled: whatever becomes of the session, the    *)
(* receiver decides about it, and its session exists before the sender     *)
(* hears of it.                                                            *)
PrepareUpload ==
    /\ asking = "request"
    /\ \/ asking' \in Responses \ {"accepted"} /\ UNCHANGED receiverVars
       \/ /\ receiver = "none" /\ receiver' = "open"
          /\ \E A \in (SUBSET Files) \ {{}} :
                 received' = [f \in Files |-> IF f \in A THEN "pending" ELSE "none"]
          /\ asking' \in {"accepted", "error"}
    /\ UNCHANGED <<session, background, remote, files, taskVars, pins, inbox,
                   isolateVars, events, notices>>

RequestFails ==
    /\ asking \in {"declined", "recipientBusy", "tooManyAttempts", "error"}
    /\ asking' = "over"
    /\ session' = IF ~IsOpen THEN session
                  ELSE IF asking = "error" THEN "finishedWithErrors" ELSE asking
    /\ UNCHANGED <<background, remote, files, taskVars, pins, inbox, isolateVars,
                   events, receiverVars, notices>>

(* 204: taken as "read and close".                                         *)
NothingSelected ==
    /\ asking = "nothing"
    /\ asking' = "over" /\ session' = "closed"
    /\ UNCHANGED <<background, remote, files, taskVars, pins, inbox, isolateVars,
                   events, receiverVars, notices>>

PinRequired ==
    /\ asking = "pin" /\ asking' = "dialog"
    /\ UNCHANGED <<session, background, remote, files, taskVars, pins, inbox,
                   isolateVars, events, receiverVars, notices>>

(* The session is not looked at: the request goes out again although the   *)
(* session may be closed.                                                  *)
EnterPin ==
    /\ asking = "dialog" /\ pins < MaxPins
    /\ asking' = "request" /\ pins' = pins + 1
    /\ UNCHANGED <<session, background, remote, files, taskVars, inbox, isolateVars,
                   events, receiverVars, notices>>

DismissPin ==
    /\ asking = "dialog" /\ asking' = "over"
    /\ session' = IF IsOpen THEN "canceledBySender" ELSE session
    /\ UNCHANGED <<background, remote, files, taskVars, pins, inbox, isolateVars,
                   events, receiverVars, notices>>

(* One task of the upload isolate for the given files.                     *)
SendFiles(list) ==
    /\ inbox' = Append(inbox, [kind |-> "task", task |-> nextTask])
    /\ work' = [work EXCEPT ![nextTask] = list]
    /\ sendingTasks' = sendingTasks \cup {nextTask}
    /\ nextTask' = nextTask + 1

(* The acceptance of a request whose session was closed meanwhile is       *)
(* dropped; nobody tells the receiver.                                     *)
StartTransfer ==
    /\ asking = "accepted" /\ asking' = "over"
    /\ IF IsOpen
       THEN /\ remote' = TRUE /\ session' = "sending"
            /\ files' = [f \in Files |-> IF f \in Accepted THEN "queue" ELSE "skipped"]
            /\ \E list \in SetToSeqs(Accepted) : SendFiles(list)
       ELSE UNCHANGED <<remote, session, files, inbox, work, taskVars>>
    /\ UNCHANGED <<background, pins, running, request, tokens, cancelled, events,
                   receiverVars, notices>>

-----------------------------------------------------------------------------
(* The upload isolate: a handler per task, the queue is never blocked      *)

BeginTask ==
    /\ inbox # <<>> /\ Head(inbox).kind = "task"
    /\ LET t == Head(inbox).task
       IN  /\ inbox' = Tail(inbox)
           /\ running' = running \cup {t} /\ tokens' = tokens \cup {t}
           /\ request' = [request EXCEPT ![t] = "sent"]
           /\ events' = Append(events, [kind |-> "sending", task |-> t, file |-> Head(work[t])])
    /\ UNCHANGED <<sessionVars, taskVars, pins, work, cancelled, receiverVars, notices>>

(* A token that is not there any more cancels nothing.                     *)
CancelToken(t) == cancelled' = cancelled \cup ({t} \cap tokens)

\* Faulty: the token is cancelled and stays in the map.
CancelTokenOnly ==
    /\ inbox # <<>> /\ Head(inbox).kind = "cancel"
    /\ inbox' = Tail(inbox)
    /\ CancelToken(Head(inbox).task)
    /\ UNCHANGED <<sessionVars, taskVars, pins, running, work, request, tokens, events,
                   receiverVars, notices>>

HandleCancel ==
    /\ inbox # <<>> /\ Head(inbox).kind = "cancel"
    /\ inbox' = Tail(inbox)
    /\ CancelToken(Head(inbox).task)
    /\ tokens' = tokens \ {Head(inbox).task}
    /\ UNCHANGED <<sessionVars, taskVars, pins, running, work, request, events,
                   receiverVars, notices>>

(* What follows the end of an upload, up to the next await: the report,    *)
(* then the next file or, after the last one or a cancel, the end.         *)
NextFile(t, outcome) ==
    LET report == [kind |-> outcome, task |-> t, file |-> Head(work[t])]
        rest   == Tail(work[t])
        goesOn == rest # <<>> /\ t \in tokens
    IN  /\ work' = [work EXCEPT ![t] = IF goesOn THEN rest ELSE <<>>]
        /\ request' = [request EXCEPT ![t] = IF goesOn THEN "sent" ELSE "none"]
        /\ events' = events \o IF goesOn
               THEN <<report, [kind |-> "sending", task |-> t, file |-> Head(rest)]>>
               ELSE <<report, [kind |-> "done", task |-> t, file |-> None]>>
        /\ running' = IF goesOn THEN running ELSE running \ {t}
        /\ tokens' = IF goesOn THEN tokens ELSE tokens \ {t}
        /\ UNCHANGED cancelled

UploadSucceeds(t) ==
    /\ t \in running /\ request[t] = "saved"
    /\ NextFile(t, "finished")
    /\ UNCHANGED <<sessionVars, taskVars, pins, inbox, receiverVars, notices>>

\* Faulty: an error of the request ends the progress stream without an error.
ErrorIsDropped(t) ==
    /\ t \in running
    /\ NextFile(t, "finished")
    /\ UNCHANGED <<sessionVars, taskVars, pins, inbox, receiverVars, notices>>

(* The file cannot be read, the connection fails before or after the       *)
(* receiver has the file, the receiver refuses, or the token is cancelled. *)
UploadFails(t) ==
    /\ t \in running
    /\ NextFile(t, "failed")
    /\ UNCHANGED <<sessionVars, taskVars, pins, inbox, receiverVars, notices>>

-----------------------------------------------------------------------------
(* The receiver                                                            *)

(* The session is over with its last file.                                 *)
Settle(f, outcome) ==
    /\ received' = [received EXCEPT ![f] = outcome]
    /\ receiver' = IF \A g \in Accepted : received'[g] \in Final THEN "ended" ELSE receiver

(* A token is good for one upload, so a file that failed here is refused   *)
(* for ever: only one that never got this far can be sent again.           *)
TakeUpload(t) ==
    /\ t \in running /\ request[t] = "sent" /\ t \notin cancelled
    /\ LET f == Head(work[t])
       IN  IF receiver = "open" /\ received[f] = "pending"
           THEN /\ received' = [received EXCEPT ![f] = "inProgress"]
                /\ request' = [request EXCEPT ![t] = "taken"]
           ELSE request' = [request EXCEPT ![t] = "refused"] /\ UNCHANGED received
    /\ UNCHANGED <<sessionVars, taskVars, pins, inbox, running, work, tokens, cancelled,
                   events, receiver, notices>>

EndUpload(t) ==
    /\ t \in running /\ request[t] = "taken"
    /\ \/ Settle(Head(work[t]), "finished") /\ request' = [request EXCEPT ![t] = "saved"]
       \/ Settle(Head(work[t]), "failed") /\ request' = [request EXCEPT ![t] = "refused"]
    /\ UNCHANGED <<sessionVars, taskVars, pins, inbox, running, work, tokens, cancelled,
                   events, notices>>

(* The sender has given up, at whatever point of the upload.               *)
DropUpload(f) ==
    /\ received[f] = "inProgress"
    /\ ~\E t \in running : request[t] = "taken" /\ Head(work[t]) = f
    /\ \E outcome \in Final : Settle(f, outcome)
    /\ UNCHANGED <<sessionVars, taskVars, pins, inbox, isolateVars, events, notices>>

ReceiverCancels ==
    /\ receiver = "open"
    /\ receiver' = "ended" /\ notices' = notices \cup {"toSender"}
    /\ UNCHANGED <<sessionVars, taskVars, pins, inbox, isolateVars, events, received>>

CancelIsReceived ==
    /\ "toReceiver" \in notices /\ notices' = notices \ {"toReceiver"}
    /\ receiver' = "ended"
    /\ UNCHANGED <<sessionVars, taskVars, pins, inbox, isolateVars, events, received>>

(* A notice that is lost is not repeated.                                  *)
LoseNotice ==
    /\ \E n \in notices : notices' = notices \ {n}
    /\ UNCHANGED <<sessionVars, taskVars, pins, inbox, isolateVars, events, receiverVars>>

-----------------------------------------------------------------------------
(* The main isolate hears of its tasks                                     *)

(* _finish takes a file that is being sent again for one that did not      *)
(* fail.                                                                   *)
Finish ==
    LET hasError == \E f \in Files : files[f] = "failed"
    IN  session' = IF session # "sending" THEN session
                   ELSE IF hasError THEN "finishedWithErrors"
                   ELSE IF background THEN "closed" ELSE "finished"

FileReported ==
    /\ events # <<>> /\ Head(events).kind # "done"
    /\ events' = Tail(events)
    /\ files' = IF IsOpen THEN [files EXCEPT ![Head(events).file] = Head(events).kind] ELSE files
    /\ UNCHANGED <<session, background, asking, remote, taskVars, pins, inbox,
                   isolateVars, receiverVars, notices>>

TaskDone ==
    /\ events # <<>> /\ Head(events).kind = "done"
    /\ events' = Tail(events)
    /\ sendingTasks' = sendingTasks \ {Head(events).task}
    /\ UNCHANGED <<background, asking, remote, files, nextTask, pins, inbox, isolateVars,
                   receiverVars, notices>>

(* The task of the transfer always finishes the session ...                *)
TransferEnds == TaskDone /\ Head(events).task = 1 /\ Finish

\* Faulty: a retry leaves the session to the task of the transfer.
RetryIsOver == TaskDone /\ Head(events).task # 1 /\ UNCHANGED session

(* ... that of a retry only when no other file is underway.                *)
RetryEnds ==
    /\ TaskDone /\ Head(events).task # 1
    /\ IF \A f \in Files : files[f] \in Final \cup {"skipped"}
       THEN Finish
       ELSE UNCHANGED session

-----------------------------------------------------------------------------
(* The user, and the receiver's notice                                     *)

Retry(f) ==
    /\ session \in {"sending", "finishedWithErrors"} /\ files[f] = "failed"
    /\ nextTask \in Tasks
    /\ session' = "sending" /\ files' = [files EXCEPT ![f] = "queue"]
    /\ SendFiles(<<f>>)
    /\ UNCHANGED <<background, asking, remote, pins, running, request, tokens, cancelled,
                   events, receiverVars, notices>>

CancelRunningRequests ==
    \E order \in SetToSeqs(sendingTasks) :
        inbox' = inbox \o [i \in DOMAIN order |-> [kind |-> "cancel", task |-> order[i]]]

(* cancelSession: without the receiver's session id there is nobody to     *)
(* tell.                                                                   *)
CancelSession ==
    /\ session \in {"waiting", "sending"}
    /\ CancelRunningRequests
    /\ session' = "closed"
    /\ notices' = IF remote THEN notices \cup {"toReceiver"} ELSE notices
    /\ UNCHANGED <<background, asking, remote, files, taskVars, pins, isolateVars,
                   events, receiverVars>>

CloseSession ==
    /\ session \in Ended \cup Rejected \cup {"canceledBySender"}
    /\ session' = "closed"
    /\ UNCHANGED <<background, asking, remote, files, taskVars, pins, inbox,
                   isolateVars, events, receiverVars, notices>>

(* Choosing another mode of sending forgets the session; its tasks go on.  *)
ClearAllSessions ==
    /\ IsOpen /\ session' = "closed"
    /\ UNCHANGED <<background, asking, remote, files, taskVars, pins, inbox,
                   isolateVars, events, receiverVars, notices>>

SetBackground ==
    /\ session \in {"waiting", "sending", "finishedWithErrors"}
    /\ background' = ~background
    /\ UNCHANGED <<session, asking, remote, files, taskVars, pins, inbox, isolateVars,
                   events, receiverVars, notices>>

(* onCancelReceived: the notice is dropped unless a transfer runs.         *)
CancelByReceiver ==
    /\ "toSender" \in notices /\ notices' = notices \ {"toSender"}
    /\ IF session = "sending" /\ remote
       THEN CancelRunningRequests /\ session' = "canceledByReceiver"
       ELSE UNCHANGED <<session, inbox>>
    /\ UNCHANGED <<background, asking, remote, files, taskVars, pins, isolateVars,
                   events, receiverVars>>

-----------------------------------------------------------------------------
Ask == StartSession \/ PrepareUpload \/ RequestFails \/ NothingSelected
       \/ PinRequired \/ EnterPin \/ DismissPin \/ StartTransfer

Isolate == BeginTask \/ HandleCancel

Upload(t) == UploadSucceeds(t) \/ UploadFails(t) \/ TakeUpload(t) \/ EndUpload(t)

Receiver == (\E f \in Files : DropUpload(f)) \/ ReceiverCancels \/ CancelIsReceived \/ LoseNotice

Main == FileReported \/ TransferEnds \/ RetryEnds

User == (\E f \in Files : Retry(f)) \/ CancelSession \/ CloseSession
        \/ ClearAllSessions \/ SetBackground

Next == Ask \/ Isolate \/ (\E t \in Tasks : Upload(t)) \/ Receiver \/ Main \/ User
        \/ CancelByReceiver

Spec == Init /\ [][Next]_vars

(* The isolates handle their messages, and a request for a file ends: a    *)
(* dead connection is found by the keep-alive of the client.  Nothing is   *)
(* assumed of the user or of the receiver.                                 *)
Fairness ==
    /\ WF_vars(Isolate)
    /\ WF_vars(Main)
    /\ \A t \in Tasks : WF_vars(UploadSucceeds(t) \/ UploadFails(t))

FairSpec == Spec /\ Fairness

-----------------------------------------------------------------------------
(* Every variable has a value of its type: what a message stands for       *)
(* exists, and no task runs without a file to send.                        *)
TypeOK ==
    /\ session \in Statuses /\ background \in BOOLEAN /\ remote \in BOOLEAN
    /\ asking \in {"no", "request", "dialog", "over"} \cup Responses
    /\ files \in [Files -> {"queue", "skipped", "sending"} \cup Final]
    /\ sendingTasks \subseteq Tasks /\ nextTask \in 1 .. MaxRetries + 2 /\ pins \in 0 .. MaxPins
    /\ inbox \in Seq([kind : {"task", "cancel"}, task : Tasks])
    /\ running \subseteq Tasks /\ tokens \subseteq running /\ cancelled \subseteq Tasks
    /\ work \in [Tasks -> Seq(Files)] /\ \A t \in running : work[t] # <<>>
    /\ request \in [Tasks -> {"none", "sent", "taken", "saved", "refused"}]
    /\ events \in Seq([kind : {"sending", "done"} \cup Final, task : Tasks, file : Files \cup {None}])
    /\ receiver \in {"none", "open", "ended"} /\ notices \subseteq {"toSender", "toReceiver"}
    /\ received \in [Files -> {"none", "pending", "inProgress"} \cup Final]

(* A file that is shown as sent was received completely, however often it  *)
(* was tried, whoever cancelled and whichever answer was lost: an upload   *)
(* that was cancelled or failed is never reported as sent (the comment in  *)
(* api/http.rs at 101).                                                    *)
ShownIsSaved == \A f \in Files : IsOpen /\ files[f] = "finished" => received[f] = "finished"

(* Once the upload isolate has handled the cancel of a task, that task     *)
(* begins no further file: the end of its current one is its end.          *)
CancelStops ==
    [][\A t \in cancelled : work'[t] # work[t] => t \notin running']_vars

(* No session is shown as sending for ever: when the last of its tasks has *)
(* ended the session has, in whatever order the transfer and the files     *)
(* sent again come to their end.                                           *)
SendingEnds == <>[](session # "sending")

=============================================================================
