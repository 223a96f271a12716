---------------------------- MODULE UploadServer ----------------------------
(***************************************************************************)
(* The v2 upload endpoints of the Rust receive server                      *)
(* (packages/core/src/http/server/v2.rs): one session slot shared by every *)
(* prepare-upload, upload and cancel request, the guards that clean up     *)
(* after a request whose future is dropped, and the bounded event channel  *)
(* to the application.                                                     *)
(*                                                                         *)
(* A request handler is a process whose phase names the await point it is  *)
(* suspended at.  The slot's mutex is held only between two awaits, so a   *)
(* critical section is one step.  A handler's future is dropped (hang-up   *)
(* of the client, stop of the server) only at an await point.  A session's *)
(* id is the request that created it.                                      *)
(***************************************************************************)
EXTENDS Naturals, Sequences, FiniteSets

CONSTANTS
  Requests,   \* prepare-upload requests; also the ids of the sessions they open
  Uploads,    \* upload requests
  Cancels,    \* cancel requests
  Files,      \* file ids, all of them offered by every prepare-upload
  EventCap    \* capacity of the event channel

ASSUME ServerAssumption ==
  /\ EventCap \in Nat \ {0}
  /\ {"free", "pending", "none"} \cap Requests = {}
  /\ "none" \notin Files

VARIABLES
  slot,       \* the session slot: "free", "pending" or the active session
  files,      \* file statuses of the active session, "absent" when not accepted
  quiet,      \* 60 s have passed since the active session's last activity
  events,     \* the event channel to the application
  open,       \* whether the application still holds the receiving end
  pc,         \* phase of each prepare-upload handler
  replaced,   \* the abandoned session a prepare-upload took the slot from
  upc,        \* phase of each upload handler
  job,        \* session and file each upload handler works on
  saved,      \* whether the upload's body was saved completely
  cpc,        \* phase of each cancel handler
  cjob,       \* the session each cancel handler names
  verdict,    \* the decision channel of each prepare-upload
  chosen,     \* the files the application accepted
  target,     \* the target channel of each upload
  heard       \* notices the application has received, per session

slotVars == <<slot, files, quiet>>
chanVars == <<events, open>>
reqVars  == <<pc, replaced>>
upVars   == <<upc, job, saved>>
canVars  == <<cpc, cjob>>
appVars  == <<verdict, chosen, target, heard>>
vars     == <<slotVars, chanVars, reqVars, upVars, canVars, appVars>>

Status == {"absent", "pending", "in_progress", "finished", "failed"}
NoFiles == [f \in Files |-> "absent"]
NoJob == [session |-> "none", file |-> "none"]

\* Phases in which the PendingSessionGuard is armed.
Guarded == {"announcing", "deciding", "opening"}
\* Phases in which a handler, or the task its guard spawned, still owes the
\* slot an outcome.
Claiming == Guarded \cup {"notifying", "freeing", "orphaned"}
\* Phases in which the UploadGuard is armed.
Transferring == {"announcing", "waiting", "saving"}
\* Phases in which an upload still owes its file a final status.
Working == Transferring \cup {"finishing", "orphaned"}

Notices == {"aborted", "finished", "cancelled", "foreign_cancel"}
Event == [kind : Notices \cup {"prepare"}, session : Requests]
           \cup [kind : {"file"}, upload : Uploads]

RequestPhase == Claiming \cup {"idle", "opened", "closed", "aborting", "leaked"}
UploadPhase == Working \cup {"idle", "ending", "orphan_ending", "done", "stuck", "silent"}
Job == [session : Requests \cup {"none"}, file : Files \cup {"none"}]

SlotType ==
  /\ slot \in {"free", "pending"} \cup Requests
  /\ files \in [Files -> Status]
  /\ quiet \in BOOLEAN
  /\ slot \notin Requests => files = NoFiles /\ ~quiet

ChannelType == events \in Seq(Event) /\ open \in BOOLEAN

RequestType ==
  /\ pc \in [Requests -> RequestPhase]
  /\ replaced \in [Requests -> Requests \cup {"none"}]

UploadType ==
  /\ upc \in [Uploads -> UploadPhase]
  /\ job \in [Uploads -> Job]
  /\ saved \in [Uploads -> BOOLEAN]

CancelType ==
  /\ cpc \in [Cancels -> {"idle", "telling", "forwarding", "done", "silent"}]
  /\ cjob \in [Cancels -> Requests \cup {"none"}]

AppType ==
  /\ verdict \in [Requests -> {"none", "asked", "accepted", "declined", "dropped"}]
  /\ chosen \in [Requests -> SUBSET Files]
  /\ target \in [Uploads -> {"none", "asked", "given", "dropped"}]
  /\ heard \in [Requests -> SUBSET (Notices \cup {"prepare"})]

\* Every variable has its type, and nothing of a session survives in a slot
\* that holds none.
TypeOK == SlotType /\ ChannelType /\ RequestType /\ UploadType /\ CancelType /\ AppType

Init ==
  /\ slot = "free" /\ files = NoFiles /\ quiet = FALSE
  /\ events = <<>> /\ open = TRUE
  /\ pc = [r \in Requests |-> "idle"]
  /\ replaced = [r \in Requests |-> "none"]
  /\ upc = [u \in Uploads |-> "idle"]
  /\ job = [u \in Uploads |-> NoJob]
  /\ saved = [u \in Uploads |-> FALSE]
  /\ cpc = [c \in Cancels |-> "idle"]
  /\ cjob = [c \in Cancels |-> "none"]
  /\ verdict = [r \in Requests |-> "none"]
  /\ chosen = [r \in Requests |-> {}]
  /\ target = [u \in Uploads |-> "none"]
  /\ heard = [r \in Requests |-> {}]

-----------------------------------------------------------------------------
(* The event channel.  A send waits for room; once the application is gone *)
(* it fails at once.                                                       *)

Notice(k, s) == [kind |-> k, session |-> s]
FileUpload(u) == [kind |-> "file", upload |-> u]

HasRoom == open /\ Len(events) < EventCap
Blocked == open /\ Len(events) >= EventCap

\* A send whose failure the caller ignores (let _ = ...).
Tell(e) ==
  \/ HasRoom /\ events' = Append(events, e)
  \/ ~open /\ UNCHANGED events

-----------------------------------------------------------------------------
(* The slot.                                                               *)

Receiving == \E f \in Files : files[f] = "in_progress"
\* Faulty: only looks at the clock.
AbandonedByClock == slot \in Requests /\ quiet
Abandoned == slot \in Requests /\ ~Receiving /\ quiet
Complete(status) == \A f \in Files : status[f] \in {"absent", "finished", "failed"}

\* 60 s pass without a file of the active session starting or ending.
FallQuiet ==
  /\ slot \in Requests /\ ~quiet
  /\ quiet' = TRUE
  /\ UNCHANGED <<slot, files, chanVars, reqVars, upVars, canVars, appVars>>

VacateSlot ==
  /\ slot' = "free"
  /\ files' = NoFiles
  /\ quiet' = FALSE

ClearPending == IF slot = "pending" THEN VacateSlot ELSE UNCHANGED slotVars

-----------------------------------------------------------------------------
(* POST prepare-upload.                                                    *)

\* The slot is free, or its session was abandoned and must be announced as
\* cancelled first.
Claim(r) ==
  /\ pc[r] = "idle"
  /\ \/ /\ slot = "free"
        /\ pc' = [pc EXCEPT ![r] = "announcing"]
        /\ UNCHANGED replaced
     \/ /\ Abandoned
        /\ pc' = [pc EXCEPT ![r] = "notifying"]
        /\ replaced' = [replaced EXCEPT ![r] = slot]
  /\ slot' = "pending" /\ files' = NoFiles /\ quiet' = FALSE
  /\ UNCHANGED <<chanVars, upVars, canVars, appVars>>

\* Faulty: refuses although the slot is free.
RefuseBlindly(r) ==
  /\ pc[r] = "idle" /\ ~Abandoned
  /\ pc' = [pc EXCEPT ![r] = "closed"]
  /\ UNCHANGED <<slotVars, chanVars, replaced, upVars, canVars, appVars>>

\* 409: blocked by another session.
Refuse(r) ==
  /\ pc[r] = "idle"
  /\ slot # "free" /\ ~Abandoned
  /\ pc' = [pc EXCEPT ![r] = "closed"]
  /\ UNCHANGED <<slotVars, chanVars, replaced, upVars, canVars, appVars>>

\* Faulty: does not tell that the abandoned session is over.
ReplaceSilently(r) ==
  /\ pc[r] = "notifying"
  /\ pc' = [pc EXCEPT ![r] = "announcing"]
  /\ UNCHANGED <<slotVars, chanVars, replaced, upVars, canVars, appVars>>

NotifyReplaced(r) ==
  /\ pc[r] = "notifying"
  /\ Tell(Notice("cancelled", replaced[r]))
  /\ pc' = [pc EXCEPT ![r] = "announcing"]
  /\ UNCHANGED <<slotVars, open, replaced, upVars, canVars, appVars>>

\* The guard is armed from here on; a failed send returns with it armed.
Announce(r) ==
  /\ pc[r] = "announcing"
  /\ \/ /\ HasRoom
        /\ events' = Append(events, Notice("prepare", r))
        /\ pc' = [pc EXCEPT ![r] = "deciding"]
     \/ /\ ~open
        /\ pc' = [pc EXCEPT ![r] = "orphaned"]
        /\ UNCHANGED events
  /\ UNCHANGED <<slotVars, open, replaced, upVars, canVars, appVars>>

\* The handler is woken by the decision channel.  Nothing accepted means
\* nothing to transfer (204), which frees the slot as a decline does.
TakeDecision(r) ==
  /\ pc[r] = "deciding"
  /\ \/ /\ verdict[r] = "accepted" /\ chosen[r] # {}
        /\ pc' = [pc EXCEPT ![r] = "opening"]
     \/ /\ verdict[r] = "declined" \/ (verdict[r] = "accepted" /\ chosen[r] = {})
        /\ pc' = [pc EXCEPT ![r] = "freeing"]
     \/ /\ verdict[r] = "dropped"
        /\ pc' = [pc EXCEPT ![r] = "orphaned"]
  /\ UNCHANGED <<slotVars, chanVars, replaced, upVars, canVars, appVars>>

\* guard.clear(): already disarmed while it waits for the slot's lock.
FreeSlot(r) ==
  /\ pc[r] = "freeing"
  /\ ClearPending
  /\ pc' = [pc EXCEPT ![r] = "closed"]
  /\ UNCHANGED <<chanVars, replaced, upVars, canVars, appVars>>

OpenSession(r) ==
  /\ pc[r] = "opening"
  /\ slot' = r
  /\ files' = [f \in Files |-> IF f \in chosen[r] THEN "pending" ELSE "absent"]
  /\ quiet' = FALSE
  /\ pc' = [pc EXCEPT ![r] = "opened"]
  /\ UNCHANGED <<chanVars, replaced, upVars, canVars, appVars>>

\* Faulty: no guard.
HangUpSilently(r) ==
  /\ pc[r] \in Guarded
  /\ pc' = [pc EXCEPT ![r] = "closed"]
  /\ UNCHANGED <<slotVars, chanVars, replaced, upVars, canVars, appVars>>

\* The request future is dropped.  With the guard armed, its cleanup task
\* is spawned; before the guard exists, or after clear() disarmed it,
\* nobody is left to free the slot.
HangUp(r) ==
  /\ \/ pc[r] \in Guarded /\ pc' = [pc EXCEPT ![r] = "orphaned"]
     \/ /\ pc[r] = "freeing" \/ (pc[r] = "notifying" /\ Blocked)
        /\ pc' = [pc EXCEPT ![r] = "leaked"]
  /\ UNCHANGED <<slotVars, chanVars, replaced, upVars, canVars, appVars>>

\* Faulty: frees the slot without a word.
CleanupSilently(r) ==
  /\ pc[r] = "orphaned"
  /\ ClearPending
  /\ pc' = [pc EXCEPT ![r] = "closed"]
  /\ UNCHANGED <<chanVars, replaced, upVars, canVars, appVars>>

\* The task spawned by PendingSessionGuard::drop.
Cleanup(r) ==
  /\ pc[r] = "orphaned"
  /\ ClearPending
  /\ pc' = [pc EXCEPT ![r] = "aborting"]
  /\ UNCHANGED <<chanVars, replaced, upVars, canVars, appVars>>

TellAborted(r) ==
  /\ pc[r] = "aborting"
  /\ Tell(Notice("aborted", r))
  /\ pc' = [pc EXCEPT ![r] = "closed"]
  /\ UNCHANGED <<slotVars, open, replaced, upVars, canVars, appVars>>

-----------------------------------------------------------------------------
(* POST upload.                                                            *)

\* `genuine`: the request comes from the session's address with the file's
\* token.  Faulty: takes a file whose upload has begun.
AdmissibleAnyStatus(s, f, genuine) == slot = s /\ genuine /\ files[f] # "absent"
Admissible(s, f, genuine) == slot = s /\ genuine /\ files[f] = "pending"

StartUpload(u, s, f, genuine) ==
  /\ upc[u] = "idle"
  /\ Admissible(s, f, genuine)
  /\ files' = [files EXCEPT ![f] = "in_progress"]
  /\ quiet' = FALSE
  /\ upc' = [upc EXCEPT ![u] = "announcing"]
  /\ job' = [job EXCEPT ![u] = [session |-> s, file |-> f]]
  /\ UNCHANGED <<slot, chanVars, reqVars, saved, canVars, appVars>>

\* 403: invalid token or IP address.
RefuseUpload(u, s, f, genuine) ==
  /\ upc[u] = "idle"
  /\ ~Admissible(s, f, genuine)
  /\ upc' = [upc EXCEPT ![u] = "done"]
  /\ UNCHANGED <<slotVars, chanVars, reqVars, job, saved, canVars, appVars>>

AnnounceUpload(u) ==
  /\ upc[u] = "announcing"
  /\ \/ /\ HasRoom
        /\ events' = Append(events, FileUpload(u))
        /\ upc' = [upc EXCEPT ![u] = "waiting"]
     \/ /\ ~open
        /\ upc' = [upc EXCEPT ![u] = "finishing"]
        /\ UNCHANGED events
  /\ UNCHANGED <<slotVars, open, reqVars, job, saved, canVars, appVars>>

TakeTarget(u) ==
  /\ upc[u] = "waiting"
  /\ \/ target[u] = "given" /\ upc' = [upc EXCEPT ![u] = "saving"]
     \/ target[u] = "dropped" /\ upc' = [upc EXCEPT ![u] = "finishing"]
  /\ UNCHANGED <<slotVars, chanVars, reqVars, job, saved, canVars, appVars>>

\* The body was read and saved, or failed: finish() disarms the guard.
SaveBody(u, ok) ==
  /\ upc[u] = "saving"
  /\ saved' = [saved EXCEPT ![u] = ok]
  /\ upc' = [upc EXCEPT ![u] = "finishing"]
  /\ UNCHANGED <<slotVars, chanVars, reqVars, job, canVars, appVars>>

\* Faulty: a failed upload counts as finished.
FinalStatusUnearned(u) == [files EXCEPT ![job[u].file] = "finished"]

\* The status the files have once the upload u has ended.
FinalStatus(u) ==
  LET success == upc[u] = "finishing" /\ saved[u]
  IN  [files EXCEPT ![job[u].file] =
         IF @ # "in_progress" THEN @ ELSE IF success THEN "finished" ELSE "failed"]

OwnsSlot(u) == slot = job[u].session

\* finalize_file is due: in the handler, or in the task UploadGuard::drop
\* spawned.
Finalizing == {"finishing", "orphaned"}

\* Faulty: the spawned task does not tell that the session is over.
AfterLastFileSilent(u) == IF upc[u] = "orphaned" THEN "done" ELSE "ending"

\* Whoever ends the last file tells the application.
AfterLastFile(u) == IF upc[u] = "orphaned" THEN "orphan_ending" ELSE "ending"

FinalizeFile(u) ==
  /\ upc[u] \in Finalizing
  /\ \/ /\ ~OwnsSlot(u)
        /\ upc' = [upc EXCEPT ![u] = "done"]
        /\ UNCHANGED slotVars
     \/ /\ OwnsSlot(u)
        /\ ~Complete(FinalStatus(u))
        /\ files' = FinalStatus(u)
        /\ quiet' = FALSE
        /\ upc' = [upc EXCEPT ![u] = "done"]
        /\ UNCHANGED slot
     \/ /\ OwnsSlot(u)
        /\ Complete(FinalStatus(u))
        /\ VacateSlot
        /\ upc' = [upc EXCEPT ![u] = AfterLastFile(u)]
  /\ UNCHANGED <<chanVars, reqVars, job, saved, canVars, appVars>>

TellFinished(u) ==
  /\ upc[u] \in {"ending", "orphan_ending"}
  /\ Tell(Notice("finished", job[u].session))
  /\ upc' = [upc EXCEPT ![u] = "done"]
  /\ UNCHANGED <<slotVars, open, reqVars, job, saved, canVars, appVars>>

\* Dropped mid-transfer the guard spawns the finalization as a failure.
\* finish() has disarmed it before it waits for the lock, and nobody repeats
\* a SessionEnd whose send was dropped.
HangUpUpload(u) ==
  /\ \/ upc[u] \in Transferring /\ upc' = [upc EXCEPT ![u] = "orphaned"]
     \/ upc[u] = "finishing" /\ upc' = [upc EXCEPT ![u] = "stuck"]
     \/ upc[u] = "ending" /\ Blocked /\ upc' = [upc EXCEPT ![u] = "silent"]
  /\ UNCHANGED <<slotVars, chanVars, reqVars, job, saved, canVars, appVars>>

-----------------------------------------------------------------------------
(* POST cancel.                                                            *)

\* Faulty: tells, but leaves the session in the slot.
CancelInName(c, s, genuine) ==
  /\ cpc[c] = "idle"
  /\ cjob' = [cjob EXCEPT ![c] = s]
  /\ cpc' = [cpc EXCEPT ![c] = IF slot = s /\ genuine THEN "telling" ELSE "forwarding"]
  /\ UNCHANGED <<slotVars, chanVars, reqVars, upVars, appVars>>

\* `genuine`: the request comes from the session's address.
Cancel(c, s, genuine) ==
  /\ cpc[c] = "idle"
  /\ cjob' = [cjob EXCEPT ![c] = s]
  /\ IF slot = s /\ genuine
       THEN VacateSlot /\ cpc' = [cpc EXCEPT ![c] = "telling"]
       ELSE UNCHANGED slotVars /\ cpc' = [cpc EXCEPT ![c] = "forwarding"]
  /\ UNCHANGED <<chanVars, reqVars, upVars, appVars>>

TellCancelled(c) ==
  /\ \/ cpc[c] = "telling" /\ Tell(Notice("cancelled", cjob[c]))
     \/ cpc[c] = "forwarding" /\ Tell(Notice("foreign_cancel", cjob[c]))
  /\ cpc' = [cpc EXCEPT ![c] = "done"]
  /\ UNCHANGED <<slotVars, open, reqVars, upVars, cjob, appVars>>

HangUpCancel(c) ==
  /\ cpc[c] \in {"telling", "forwarding"} /\ Blocked
  /\ cpc' = [cpc EXCEPT ![c] = "silent"]
  /\ UNCHANGED <<slotVars, chanVars, reqVars, upVars, cjob, appVars>>

-----------------------------------------------------------------------------
(* The application, as far as the server sees it: it takes events in order *)
(* and answers the channels they carry whenever it likes, or drops them.   *)

ReceivePrepare(r) ==
  /\ events # <<>> /\ Head(events) = Notice("prepare", r)
  /\ events' = Tail(events)
  /\ heard' = [heard EXCEPT ![r] = @ \cup {"prepare"}]
  /\ verdict' = [verdict EXCEPT ![r] = "asked"]
  /\ UNCHANGED <<slotVars, open, reqVars, upVars, canVars, chosen, target>>

ReceiveFile(u) ==
  /\ events # <<>> /\ Head(events) = FileUpload(u)
  /\ events' = Tail(events)
  /\ target' = [target EXCEPT ![u] = "asked"]
  /\ UNCHANGED <<slotVars, open, reqVars, upVars, canVars, verdict, chosen, heard>>

ReceiveNotice(k, s) ==
  /\ events # <<>> /\ Head(events) = Notice(k, s)
  /\ events' = Tail(events)
  /\ heard' = [heard EXCEPT ![s] = @ \cup {k}]
  /\ UNCHANGED <<slotVars, open, reqVars, upVars, canVars, verdict, chosen, target>>

Accept(r, ids) ==
  /\ verdict[r] = "asked"
  /\ verdict' = [verdict EXCEPT ![r] = "accepted"]
  /\ chosen' = [chosen EXCEPT ![r] = ids]
  /\ UNCHANGED <<slotVars, chanVars, reqVars, upVars, canVars, target, heard>>

\* Decline, or drop the decision channel.
TurnDown(r) ==
  /\ verdict[r] = "asked"
  /\ \E v \in {"declined", "dropped"} : verdict' = [verdict EXCEPT ![r] = v]
  /\ UNCHANGED <<slotVars, chanVars, reqVars, upVars, canVars, chosen, target, heard>>

AnswerUpload(u) ==
  /\ target[u] = "asked"
  /\ \E t \in {"given", "dropped"} : target' = [target EXCEPT ![u] = t]
  /\ UNCHANGED <<slotVars, chanVars, reqVars, upVars, canVars, verdict, chosen, heard>>

\* cancel_v2_session: no SessionEnd is emitted for the application's own
\* cancellation.  Uploads in progress run on.
CancelSession(s) ==
  /\ slot = s
  /\ VacateSlot
  /\ heard' = [heard EXCEPT ![s] = @ \cup {"cancelled"}]
  /\ UNCHANGED <<chanVars, reqVars, upVars, canVars, verdict, chosen, target>>

\* The application drops the receiving end, with the channels it still holds
\* and those of the events it never took.
LeaveServer ==
  /\ open
  /\ open' = FALSE
  /\ events' = <<>>
  /\ verdict' = [r \in Requests |->
       IF pc[r] = "deciding" /\ verdict[r] \in {"none", "asked"} THEN "dropped" ELSE verdict[r]]
  /\ target' = [u \in Uploads |->
       IF upc[u] = "waiting" /\ target[u] \in {"none", "asked"} THEN "dropped" ELSE target[u]]
  /\ UNCHANGED <<slotVars, reqVars, upVars, canVars, chosen, heard>>

-----------------------------------------------------------------------------
PrepareStep(r) ==
  \/ Claim(r) \/ Refuse(r) \/ NotifyReplaced(r) \/ Announce(r) \/ TakeDecision(r)
  \/ FreeSlot(r) \/ OpenSession(r) \/ HangUp(r) \/ Cleanup(r) \/ TellAborted(r)

UploadStep(u) ==
  \/ \E s \in Requests, f \in Files, genuine \in BOOLEAN :
       StartUpload(u, s, f, genuine) \/ RefuseUpload(u, s, f, genuine)
  \/ AnnounceUpload(u) \/ TakeTarget(u)
  \/ \E ok \in BOOLEAN : SaveBody(u, ok)
  \/ FinalizeFile(u) \/ TellFinished(u) \/ HangUpUpload(u)

CancelStep(c) ==
  \/ \E s \in Requests, genuine \in BOOLEAN : Cancel(c, s, genuine)
  \/ TellCancelled(c) \/ HangUpCancel(c)

AppStep ==
  \/ \E r \in Requests : ReceivePrepare(r) \/ TurnDown(r) \/ CancelSession(r)
  \/ \E r \in Requests, ids \in SUBSET Files : Accept(r, ids)
  \/ \E u \in Uploads : ReceiveFile(u) \/ AnswerUpload(u)
  \/ \E k \in Notices, s \in Requests : ReceiveNotice(k, s)
  \/ LeaveServer

Next ==
  \/ \E r \in Requests : PrepareStep(r)
  \/ \E u \in Uploads : UploadStep(u)
  \/ \E c \in Cancels : CancelStep(c)
  \/ AppStep
  \/ FallQuiet

Spec == Init /\ [][Next]_vars

\* The runtime polls every task that is ready and the application drains the
\* channel.  Nothing forces a client to go on or a user to decide.
ServerProgress(r) ==
  NotifyReplaced(r) \/ Announce(r) \/ TakeDecision(r) \/ FreeSlot(r)
    \/ OpenSession(r) \/ Cleanup(r) \/ TellAborted(r)
UploadProgress(u) == AnnounceUpload(u) \/ TakeTarget(u) \/ FinalizeFile(u) \/ TellFinished(u)
Drain ==
  \/ \E r \in Requests : ReceivePrepare(r)
  \/ \E u \in Uploads : ReceiveFile(u)
  \/ \E k \in Notices, s \in Requests : ReceiveNotice(k, s)

Fairness ==
  /\ \A r \in Requests : WF_vars(ServerProgress(r))
  /\ \A u \in Uploads : WF_vars(UploadProgress(u))
  /\ \A c \in Cancels : WF_vars(TellCancelled(c))
  /\ WF_vars(Drain)

FairSpec == Spec /\ Fairness

-----------------------------------------------------------------------------
(* Safety.                                                                 *)

\* The request still holds, or has lost for good, the claimed slot.
Holding(r) == pc[r] \in Claiming \cup {"leaked"}

\* A claimed slot has exactly one prepare-upload behind it, and every
\* prepare-upload that has claimed the slot still finds its claim there: no
\* late cleanup task, cancellation or finalization ever takes it away.
OneHolder ==
  /\ slot = "pending" <=> \E r \in Requests : Holding(r)
  /\ \A r, q \in Requests : Holding(r) /\ Holding(q) => r = q

\* PendingSessionGuard's promise (v2.rs:533-537): the slot is not leaked when
\* the request future is cancelled while the application has not decided.
\* So a slot claimed for an undecided request has a handler, or a spawned
\* cleanup task, that will free it.
UndecidedClaimIsOwed ==
  slot = "pending" => \E r \in Requests :
    pc[r] \in Claiming \/ (pc[r] = "leaked" /\ verdict[r] # "none")

\* Two uploads never write the same file of the same session, whatever the
\* order in which they, their clean-ups and other sessions run.
OneWriterPerFile ==
  \A u, v \in Uploads :
    u # v /\ upc[u] \in Working /\ upc[v] \in Working => job[u] # job[v]

\* An upload that has not ended finds its file in progress as long as its
\* session holds the slot: no other session's upload ended it in its place.
UploadHoldsItsFile ==
  \A u \in Uploads :
    upc[u] \in Working /\ slot = job[u].session => files[job[u].file] = "in_progress"

\* An upload of the active session has ended the file f with its status.
Earned(f) ==
  \E u \in Uploads : /\ upc[u] = "done"
                     /\ job[u] = [session |-> slot, file |-> f]
                     /\ files[f] = "finished" => saved[u]

\* A file of the active session counts as finished only if an upload of this
\* very session saved its whole body, and as failed only if one did not.
StatusEarned == \A f \in Files : files[f] \in {"finished", "failed"} => Earned(f)

Endings(s) == {Notice("finished", s), Notice("cancelled", s)}

\* The places the end of s may be at: the channel, the handlers about to send
\* it, the application.
QueuedEnds(s) == {i \in DOMAIN events : events[i] \in Endings(s)}
Replacing(s) == {r \in Requests : pc[r] = "notifying" /\ replaced[r] = s}
Ending(s) == {u \in Uploads : upc[u] \in {"ending", "orphan_ending"} /\ job[u].session = s}
Cancelling(s) == {c \in Cancels : cpc[c] = "telling" /\ cjob[c] = s}
KnownEnds(s) == heard[s] \cap {"finished", "cancelled"}

\* The end of a session is told at most once and only after the session left
\* the slot, although a completion, a cancellation by either side and a
\* replacement may race: whoever emptied the slot tells.
ToldOnce ==
  \A s \in Requests :
    LET told == Cardinality(QueuedEnds(s)) + Cardinality(Replacing(s)) + Cardinality(Ending(s))
                  + Cardinality(Cancelling(s)) + Cardinality(KnownEnds(s))
    IN  told <= (IF slot = s THEN 0 ELSE 1)

\* The application hears that an abandoned session is over before it is asked
\* about the request that replaced it (v2.rs:295-307).
ReplacedIsToldFirst ==
  \A r \in Requests :
    replaced[r] # "none" /\ "prepare" \in heard[r] => "cancelled" \in heard[replaced[r]]

\* A new request never takes the slot from a session that is still receiving
\* a file, however long that file takes.
NoTakeoverMidTransfer ==
  [][(slot \in Requests /\ slot' = "pending") =>
       \A u \in Uploads : ~(upc[u] \in Working /\ job[u].session = slot)]_vars

\* The slot implements SessionSlot.
life == [r \in Requests |->
  IF pc[r] = "idle" THEN "new"
  ELSE IF Holding(r) THEN "reserved"
  ELSE IF slot = r THEN "open" ELSE "closed"]

Abstract == INSTANCE SessionSlot WITH Sessions <- Requests
SlotSpec == Abstract!Spec

-----------------------------------------------------------------------------
(* The inductive invariant behind the safety properties.                   *)

\* The session in the slot was opened by its request.
SessionOpened == \A r \in Requests : slot = r => pc[r] = "opened"

\* What a handler that still has something to send or to finalize refers to.
Bindings ==
  /\ \A r \in Requests : pc[r] = "notifying" => replaced[r] \in Requests
  /\ \A u \in Uploads : upc[u] \notin {"idle", "done"} =>
       job[u].session \in Requests /\ job[u].file \in Files /\ pc[job[u].session] = "opened"
  /\ \A c \in Cancels : cpc[c] \in {"telling", "forwarding"} => cjob[c] \in Requests

IInv ==
  /\ TypeOK
  /\ Bindings
  /\ SessionOpened
  /\ OneHolder
  /\ UploadHoldsItsFile
  /\ OneWriterPerFile

EndPlaces(s) ==
  <<QueuedEnds(s), Replacing(s), Ending(s), Cancelling(s), KnownEnds(s)>>

\* The end of a session is at one place at most, and only of a session that
\* was opened and has left the slot for good.
OneEnd(s) ==
  /\ \A i, j \in 1..5 : \A x \in EndPlaces(s)[i], y \in EndPlaces(s)[j] : i = j /\ x = y
  /\ \A i \in 1..5 : EndPlaces(s)[i] # {} => slot # s /\ pc[s] = "opened"

EndIsOnePlace == \A s \in Requests : OneEnd(s)

\* The application was not yet asked about r.
Unasked(r) ==
  "prepare" \notin heard[r] /\ \A i \in DOMAIN events : events[i] # Notice("prepare", r)

\* The end of the session r replaced was told, or is ahead of the n-th event.
EndAhead(r, n) ==
  \/ "cancelled" \in heard[replaced[r]]
  \/ \E j \in DOMAIN events : j < n /\ events[j] = Notice("cancelled", replaced[r])

\* The announcement of r is never ahead of the end of the session it replaced,
\* in the handler, in the channel or at the application.
EndFirst(r) ==
  /\ pc[r] = "idle" => replaced[r] = "none"
  /\ pc[r] \in {"idle", "notifying", "announcing"} => Unasked(r)
  /\ replaced[r] # "none" =>
       /\ pc[r] = "announcing" /\ open => EndAhead(r, Len(events) + 1)
       /\ \A i \in DOMAIN events : events[i] = Notice("prepare", r) => EndAhead(r, i)
       /\ "prepare" \in heard[r] => "cancelled" \in heard[replaced[r]]

EndGoesFirst == \A r \in Requests : EndFirst(r)

-----------------------------------------------------------------------------
(* Liveness, under FairSpec.                                               *)

\* The application that accepted some files gets its session, or hears that
\* the request was aborted: it is never left waiting for uploads that cannot
\* come.
AcceptedIsSettled ==
  <>[](\A r \in Requests :
          verdict[r] = "accepted" /\ chosen[r] # {}
            => pc[r] = "opened" \/ "aborted" \in heard[r] \/ ~open)

\* A request dropped with its guard armed frees the slot and is reported.
AbortIsTold ==
  \A r \in Requests : pc[r] = "orphaned" ~> (pc[r] = "closed" /\ ("aborted" \in heard[r] \/ ~open))

\* Once a session has left the slot the application learns that it is over,
\* unless the handler that had to say so was dropped while it waited for
\* room in the channel.
EndIsTold ==
  <>[](\A s \in Requests : pc[s] = "opened" /\ slot # s =>
          \/ heard[s] \cap {"finished", "cancelled"} # {}
          \/ ~open
          \/ \E r \in Requests : pc[r] = "leaked" /\ replaced[r] = s
          \/ \E u \in Uploads : upc[u] = "silent" /\ job[u].session = s
          \/ \E c \in Cancels : cpc[c] = "silent" /\ cjob[c] = s)
=============================================================================
