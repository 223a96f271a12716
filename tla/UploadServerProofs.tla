------------------------- MODULE UploadServerProofs -------------------------
(***************************************************************************)
(* Proofs about the upload slot of the receive server, for any sets of     *)
(* requests, uploads, cancels and files and any channel capacity.          *)
(***************************************************************************)
EXTENDS UploadServer, SequenceTheorems, FiniteSetTheorems, TLAPS

LEMMA EventType ==
  /\ \A k \in Notices \cup {"prepare"}, s \in Requests : Notice(k, s) \in Event
  /\ \A u \in Uploads : FileUpload(u) \in Event
  BY DEF Event, Notice, FileUpload

\* A send or a receive leaves a channel of events.
LEMMA SendType ==
  ASSUME ChannelType, NEW e \in Event, UNCHANGED open
  PROVE  /\ Tell(e) => ChannelType'
         /\ events' = Append(events, e) => ChannelType'
         /\ UNCHANGED events => ChannelType'
  BY DEF ChannelType, Tell

LEMMA TakeType ==
  ASSUME ChannelType, events # <<>>, events' = Tail(events), UNCHANGED open
  PROVE  ChannelType'
  BY DEF ChannelType

\* The critical sections that empty the slot.
LEMMA VacateType ==
  ASSUME SlotType, VacateSlot \/ ClearPending \/ UNCHANGED slotVars
  PROVE  SlotType'
<1>1. CASE VacateSlot
  BY <1>1 DEF SlotType, VacateSlot, NoFiles, Status
<1>2. CASE UNCHANGED slotVars
  BY <1>2 DEF SlotType, slotVars
<1>3. QED
  BY <1>1, <1>2 DEF ClearPending

\* A variable group an action leaves alone keeps its type.
LEMMA UnchangedType ==
  ASSUME TypeOK
  PROVE  /\ UNCHANGED slotVars => SlotType'
         /\ UNCHANGED chanVars => ChannelType'
         /\ UNCHANGED reqVars => RequestType'
         /\ UNCHANGED upVars => UploadType'
         /\ UNCHANGED canVars => CancelType'
         /\ UNCHANGED appVars => AppType'
  BY DEF TypeOK, SlotType, ChannelType, RequestType, UploadType, CancelType, AppType,
         slotVars, chanVars, reqVars, upVars, canVars, appVars

LEMMA TypeInit == Init => TypeOK
<1> SUFFICES ASSUME Init PROVE TypeOK
  OBVIOUS
<1> USE DEF Init
<1>1. SlotType
  BY ServerAssumption DEF SlotType, NoFiles, Status
<1>2. ChannelType
  BY DEF ChannelType
<1>3. RequestType
  BY DEF RequestType, RequestPhase
<1>4. UploadType
  BY DEF UploadType, UploadPhase, Job, NoJob
<1>5. CancelType
  BY DEF CancelType
<1>6. AppType
  BY DEF AppType
<1>7. QED
  BY <1>1, <1>2, <1>3, <1>4, <1>5, <1>6 DEF TypeOK

LEMMA PrepareType ==
  ASSUME TypeOK, Bindings, NEW r \in Requests, PrepareStep(r)
  PROVE  TypeOK'
<1> USE UnchangedType, ServerAssumption
<1> DEFINE Move(a) == pc' = [pc EXCEPT ![r] = a]
<1>0. \A a \in RequestPhase : Move(a) /\ UNCHANGED replaced => RequestType'
  BY DEF TypeOK, RequestType
<1>1. CASE Claim(r)
  <2>1. SlotType'
    BY <1>1 DEF Claim, TypeOK, SlotType, NoFiles, Status
  <2>2. RequestType'
    BY <1>1 DEF Claim, TypeOK, RequestType, RequestPhase, Claiming, Guarded, Abandoned
  <2>3. QED
    BY <1>1, <2>1, <2>2 DEF Claim, TypeOK
<1>2. CASE Refuse(r)
  BY <1>2, <1>0 DEF Refuse, TypeOK, RequestPhase
<1>3. CASE NotifyReplaced(r)
  <2>1. Notice("cancelled", replaced[r]) \in Event
    BY <1>3, EventType DEF NotifyReplaced, Bindings, Notices
  <2>2. ChannelType'
    BY <1>3, <2>1, SendType DEF NotifyReplaced, TypeOK
  <2>3. QED
    BY <1>3, <1>0, <2>2 DEF NotifyReplaced, TypeOK, RequestPhase, Claiming, Guarded
<1>4. CASE Announce(r)
  <2>1. Notice("prepare", r) \in Event
    BY EventType
  <2>2. ChannelType'
    BY <1>4, <2>1, SendType DEF Announce, TypeOK
  <2>3. QED
    BY <1>4, <1>0, <2>2 DEF Announce, TypeOK, RequestPhase, Claiming, Guarded
<1>5. CASE TakeDecision(r)
  BY <1>5, <1>0 DEF TakeDecision, TypeOK, RequestPhase, Claiming, Guarded
<1>6. CASE FreeSlot(r)
  BY <1>6, <1>0, VacateType DEF FreeSlot, TypeOK, RequestPhase
<1>7. CASE OpenSession(r)
  <2>1. SlotType'
    BY <1>7 DEF OpenSession, TypeOK, SlotType, Status
  <2>2. QED
    BY <1>7, <1>0, <2>1 DEF OpenSession, TypeOK, RequestPhase
<1>8. CASE HangUp(r)
  BY <1>8, <1>0 DEF HangUp, TypeOK, RequestPhase, Claiming
<1>9. CASE Cleanup(r)
  BY <1>9, <1>0, VacateType DEF Cleanup, TypeOK, RequestPhase
<1>10. CASE TellAborted(r)
  <2>1. Notice("aborted", r) \in Event
    BY EventType DEF Notices
  <2>2. ChannelType'
    BY <1>10, <2>1, SendType DEF TellAborted, TypeOK
  <2>3. QED
    BY <1>10, <1>0, <2>2 DEF TellAborted, TypeOK, RequestPhase
<1>11. QED
  BY <1>1, <1>2, <1>3, <1>4, <1>5, <1>6, <1>7, <1>8, <1>9, <1>10 DEF PrepareStep

LEMMA UploadStepType ==
  ASSUME TypeOK, Bindings, NEW u \in Uploads, UploadStep(u)
  PROVE  TypeOK'
<1> USE UnchangedType
<1> DEFINE Move(a) == upc' = [upc EXCEPT ![u] = a]
<1>0. \A a \in UploadPhase : Move(a) /\ UNCHANGED job /\ UNCHANGED saved => UploadType'
  BY DEF TypeOK, UploadType
<1>1. ASSUME NEW s \in Requests, NEW f \in Files, NEW genuine \in BOOLEAN,
             StartUpload(u, s, f, genuine)
      PROVE  TypeOK'
  <2>1. SlotType'
    BY <1>1 DEF StartUpload, Admissible, TypeOK, SlotType, Status
  <2>2. UploadType'
    BY <1>1 DEF StartUpload, TypeOK, UploadType, UploadPhase, Working, Transferring, Job
  <2>3. QED
    BY <1>1, <2>1, <2>2 DEF StartUpload, TypeOK
<1>2. ASSUME NEW s \in Requests, NEW f \in Files, NEW genuine \in BOOLEAN,
             RefuseUpload(u, s, f, genuine)
      PROVE  TypeOK'
  BY <1>2, <1>0 DEF RefuseUpload, TypeOK, UploadPhase
<1>3. CASE AnnounceUpload(u)
  <2>1. ChannelType'
    BY <1>3, EventType, SendType DEF AnnounceUpload, TypeOK
  <2>2. QED
    BY <1>3, <1>0, <2>1 DEF AnnounceUpload, TypeOK, UploadPhase, Working, Transferring
<1>4. CASE TakeTarget(u)
  BY <1>4, <1>0 DEF TakeTarget, TypeOK, UploadPhase, Working, Transferring
<1>5. ASSUME NEW ok \in BOOLEAN, SaveBody(u, ok) PROVE TypeOK'
  <2>1. UploadType'
    BY <1>5 DEF SaveBody, TypeOK, UploadType, UploadPhase, Working
  <2>2. QED
    BY <1>5, <2>1 DEF SaveBody, TypeOK
<1>6. CASE FinalizeFile(u)
  <2>1. FinalStatus(u) \in [Files -> Status]
    BY DEF TypeOK, SlotType, FinalStatus, Status
  <2>2. OwnsSlot(u) => slot \in Requests
    BY <1>6 DEF OwnsSlot, FinalizeFile, Bindings, Finalizing
  <2>3. SlotType'
    BY <1>6, <2>1, <2>2, VacateType DEF FinalizeFile, TypeOK, SlotType
  <2>4. UploadType'
    BY <1>6, <1>0 DEF FinalizeFile, AfterLastFile, UploadPhase
  <2>5. QED
    BY <1>6, <2>3, <2>4 DEF FinalizeFile, TypeOK
<1>7. CASE TellFinished(u)
  <2>1. Notice("finished", job[u].session) \in Event
    BY <1>7, EventType DEF TellFinished, Bindings, Notices
  <2>2. ChannelType'
    BY <1>7, <2>1, SendType DEF TellFinished, TypeOK
  <2>3. QED
    BY <1>7, <1>0, <2>2 DEF TellFinished, TypeOK, UploadPhase
<1>8. CASE HangUpUpload(u)
  BY <1>8, <1>0 DEF HangUpUpload, TypeOK, UploadPhase, Working
<1>9. QED
  BY <1>1, <1>2, <1>3, <1>4, <1>5, <1>6, <1>7, <1>8 DEF UploadStep

LEMMA CancelStepType ==
  ASSUME TypeOK, Bindings, NEW c \in Cancels, CancelStep(c)
  PROVE  TypeOK'
<1> USE UnchangedType
<1>1. ASSUME NEW s \in Requests, NEW genuine \in BOOLEAN, Cancel(c, s, genuine)
      PROVE  TypeOK'
  <2>1. SlotType'
    BY <1>1, VacateType DEF Cancel, TypeOK
  <2>2. CancelType'
    BY <1>1 DEF Cancel, TypeOK, CancelType
  <2>3. QED
    BY <1>1, <2>1, <2>2 DEF Cancel, TypeOK
<1>2. CASE TellCancelled(c)
  <2>1. ChannelType'
    BY <1>2, EventType, SendType DEF TellCancelled, Bindings, Notices, TypeOK
  <2>2. CancelType'
    BY <1>2 DEF TellCancelled, TypeOK, CancelType
  <2>3. QED
    BY <1>2, <2>1, <2>2 DEF TellCancelled, TypeOK
<1>3. CASE HangUpCancel(c)
  <2>1. CancelType'
    BY <1>3 DEF HangUpCancel, TypeOK, CancelType
  <2>2. QED
    BY <1>3, <2>1 DEF HangUpCancel, TypeOK
<1>4. QED
  BY <1>1, <1>2, <1>3 DEF CancelStep

LEMMA AppStepType ==
  ASSUME TypeOK, AppStep
  PROVE  TypeOK'
<1> USE UnchangedType DEF AppType
<1>1. ASSUME NEW r \in Requests, ReceivePrepare(r) PROVE TypeOK'
  BY <1>1, TakeType DEF ReceivePrepare, TypeOK, slotVars, reqVars, upVars, canVars
<1>2. ASSUME NEW r \in Requests, TurnDown(r) PROVE TypeOK'
  BY <1>2 DEF TurnDown, TypeOK
<1>3. ASSUME NEW s \in Requests, CancelSession(s) PROVE TypeOK'
  <2>1. SlotType'
    BY <1>3, VacateType DEF CancelSession, TypeOK
  <2>2. AppType'
    BY <1>3 DEF CancelSession, TypeOK, Notices
  <2>3. QED
    BY <1>3, <2>1, <2>2 DEF CancelSession, TypeOK
<1>4. ASSUME NEW r \in Requests, NEW ids \in SUBSET Files, Accept(r, ids) PROVE TypeOK'
  BY <1>4 DEF Accept, TypeOK
<1>5. ASSUME NEW u \in Uploads, ReceiveFile(u) PROVE TypeOK'
  BY <1>5, TakeType DEF ReceiveFile, TypeOK
<1>6. ASSUME NEW u \in Uploads, AnswerUpload(u) PROVE TypeOK'
  BY <1>6 DEF AnswerUpload, TypeOK
<1>7. ASSUME NEW k \in Notices, NEW s \in Requests, ReceiveNotice(k, s) PROVE TypeOK'
  BY <1>7, TakeType DEF ReceiveNotice, TypeOK
<1>8. CASE LeaveServer
  <2>1. ChannelType'
    <3>1. <<>> \in Seq(Event)
      OBVIOUS
    <3>2. QED
      BY <1>8, <3>1 DEF LeaveServer, ChannelType
  <2>2. AppType'
    BY <1>8 DEF LeaveServer, TypeOK
  <2>3. QED
    BY <1>8, <2>1, <2>2 DEF LeaveServer, TypeOK
<1>9. QED
  BY <1>1, <1>2, <1>3, <1>4, <1>5, <1>6, <1>7, <1>8 DEF AppStep

LEMMA TypeStep == TypeOK /\ Bindings /\ [Next]_vars => TypeOK'
<1> SUFFICES ASSUME TypeOK, Bindings, [Next]_vars PROVE TypeOK'
  OBVIOUS
<1>1. CASE FallQuiet
  <2>1. SlotType'
    BY <1>1 DEF FallQuiet, TypeOK, SlotType
  <2>2. QED
    BY <1>1, <2>1, UnchangedType DEF FallQuiet, TypeOK
<1>2. CASE UNCHANGED vars
  BY <1>2, UnchangedType DEF vars, TypeOK
<1>3. QED
  BY <1>1, <1>2, PrepareType, UploadStepType, CancelStepType, AppStepType DEF Next

-----------------------------------------------------------------------------
(* Who may touch what.                                                     *)

\* Only a prepare-upload claims the slot or opens a session in it; every other
\* step leaves the slot alone or empties it of an active session.
LEMMA OutsidePrepare ==
  ASSUME IInv, [Next]_vars, \A r \in Requests : ~PrepareStep(r)
  PROVE  /\ UNCHANGED <<pc, replaced>>
         /\ UNCHANGED slot \/ (slot \in Requests /\ slot' = "free")
<1> DEFINE Goal == /\ UNCHANGED <<pc, replaced>>
                   /\ UNCHANGED slot \/ (slot \in Requests /\ slot' = "free")
<1> USE DEF reqVars, slotVars
<1>1. ASSUME NEW u \in Uploads, UploadStep(u) PROVE Goal
  <2>1. CASE FinalizeFile(u)
    BY <2>1 DEF FinalizeFile, OwnsSlot, Finalizing, VacateSlot, IInv, Bindings
  <2>2. CASE ~FinalizeFile(u)
    BY <1>1, <2>2 DEF UploadStep, StartUpload, RefuseUpload, AnnounceUpload, TakeTarget,
                      SaveBody, TellFinished, HangUpUpload
  <2>3. QED
    BY <2>1, <2>2
<1>2. ASSUME NEW c \in Cancels, CancelStep(c) PROVE Goal
  BY <1>2 DEF CancelStep, Cancel, TellCancelled, HangUpCancel, VacateSlot
<1>3. CASE AppStep
  BY <1>3 DEF AppStep, ReceivePrepare, TurnDown, CancelSession, Accept, ReceiveFile,
              AnswerUpload, ReceiveNotice, LeaveServer, VacateSlot
<1>4. CASE FallQuiet
  BY <1>4 DEF FallQuiet
<1>5. CASE UNCHANGED vars
  BY <1>5 DEF vars
<1>6. QED
  BY <1>1, <1>2, <1>3, <1>4, <1>5 DEF Next

\* An upload's phase, job and outcome are its own handler's.
LEMMA OutsideUpload ==
  ASSUME [Next]_vars, \A u \in Uploads : ~UploadStep(u)
  PROVE  /\ UNCHANGED <<upc, job, saved>>
         /\ UNCHANGED <<slot, files>> \/ slot' \notin Requests
              \/ \E r \in Requests : OpenSession(r)
<1> DEFINE Goal == /\ UNCHANGED <<upc, job, saved>>
                   /\ UNCHANGED <<slot, files>> \/ slot' \notin Requests
                        \/ \E r \in Requests : OpenSession(r)
<1> USE ServerAssumption DEF upVars, slotVars
<1>1. ASSUME NEW r \in Requests, PrepareStep(r) PROVE Goal
  <2>1. CASE OpenSession(r)
    BY <2>1 DEF OpenSession
  <2>2. CASE ~OpenSession(r)
    BY <1>1, <2>2 DEF PrepareStep, Claim, Refuse, NotifyReplaced, Announce, TakeDecision,
                      FreeSlot, HangUp, Cleanup, TellAborted, ClearPending, VacateSlot
  <2>3. QED
    BY <2>1, <2>2
<1>2. ASSUME NEW c \in Cancels, CancelStep(c) PROVE Goal
  BY <1>2 DEF CancelStep, Cancel, TellCancelled, HangUpCancel, VacateSlot
<1>3. CASE AppStep
  BY <1>3 DEF AppStep, ReceivePrepare, TurnDown, CancelSession, Accept, ReceiveFile,
              AnswerUpload, ReceiveNotice, LeaveServer, VacateSlot
<1>4. CASE FallQuiet
  BY <1>4 DEF FallQuiet
<1>5. CASE UNCHANGED vars
  BY <1>5 DEF vars
<1>6. QED
  BY <1>1, <1>2, <1>3, <1>4, <1>5 DEF Next

-----------------------------------------------------------------------------
(* One holder for a claimed slot.                                          *)

LEMMA HolderStep == IInv /\ [Next]_vars => SessionOpened' /\ OneHolder'
<1> SUFFICES ASSUME IInv, [Next]_vars PROVE SessionOpened' /\ OneHolder'
  OBVIOUS
<1> USE ServerAssumption DEF IInv, TypeOK, RequestType, SessionOpened, OneHolder, Holding, Claiming, Guarded
<1>1. ASSUME NEW r \in Requests, PrepareStep(r) PROVE SessionOpened' /\ OneHolder'
  <2>1. CASE Claim(r)
    BY <2>1 DEF Claim, Abandoned
  <2>2. CASE Refuse(r)
    BY <2>2 DEF Refuse, slotVars
  <2>3. CASE NotifyReplaced(r) \/ Announce(r) \/ TakeDecision(r) \/ HangUp(r)
    <3>1. /\ UNCHANGED slot /\ slot = "pending"
          /\ \E a \in Claiming \cup {"leaked"} : pc' = [pc EXCEPT ![r] = a]
          /\ Holding(r)
      BY <2>3 DEF NotifyReplaced, Announce, TakeDecision, HangUp, slotVars
    <3>2. QED
      BY <3>1
  <2>4. CASE FreeSlot(r) \/ Cleanup(r)
    <3>1. /\ slot' = "free" /\ slot = "pending" /\ Holding(r)
          /\ \E a \in {"closed", "aborting"} : pc' = [pc EXCEPT ![r] = a]
      BY <2>4 DEF FreeSlot, Cleanup, ClearPending, VacateSlot
    <3>2. QED
      BY <3>1
  <2>5. CASE OpenSession(r)
    BY <2>5 DEF OpenSession
  <2>6. CASE TellAborted(r)
    BY <2>6 DEF TellAborted, slotVars
  <2>7. QED
    BY <1>1, <2>1, <2>2, <2>3, <2>4, <2>5, <2>6 DEF PrepareStep
<1>2. CASE \A r \in Requests : ~PrepareStep(r)
  BY <1>2, OutsidePrepare
<1>3. QED
  BY <1>1, <1>2

-----------------------------------------------------------------------------
(* One upload for a file in progress.                                      *)

LEMMA BindingsStep == IInv /\ [Next]_vars => Bindings'
<1> SUFFICES ASSUME IInv, [Next]_vars PROVE Bindings'
  OBVIOUS
<1> USE DEF IInv, TypeOK
<1>1. \A r \in Requests : pc[r] = "opened" => pc'[r] = "opened"
  <2>1. ASSUME NEW q \in Requests, PrepareStep(q) PROVE \A r \in Requests : pc[r] = "opened" => pc'[r] = "opened"
    BY <2>1 DEF PrepareStep, Claim, Refuse, NotifyReplaced, Announce, TakeDecision, FreeSlot,
                OpenSession, HangUp, Cleanup, TellAborted, RequestType, Guarded
  <2>2. QED
    BY <2>1, OutsidePrepare
<1>2. ASSUME NEW r \in Requests, pc'[r] = "notifying" PROVE replaced'[r] \in Requests
  <2>1. ASSUME NEW q \in Requests, PrepareStep(q) PROVE replaced'[r] \in Requests
    BY <1>2, <2>1 DEF PrepareStep, Claim, Refuse, NotifyReplaced, Announce, TakeDecision, FreeSlot,
                OpenSession, HangUp, Cleanup, TellAborted, RequestType, Bindings, Abandoned
  <2>2. QED
    BY <1>2, <2>1, OutsidePrepare DEF Bindings
<1>3. ASSUME NEW u \in Uploads, upc'[u] \notin {"idle", "done"}
      PROVE  job'[u].session \in Requests /\ job'[u].file \in Files /\ pc'[job'[u].session] = "opened"
  <2>1. ASSUME NEW v \in Uploads, NEW s \in Requests, NEW f \in Files, NEW genuine \in BOOLEAN,
               StartUpload(v, s, f, genuine)
        PROVE  job'[u].session \in Requests /\ job'[u].file \in Files /\ pc'[job'[u].session] = "opened"
    BY <1>1, <1>3, <2>1 DEF StartUpload, Admissible, UploadType, Bindings, SessionOpened
  <2>2. ASSUME NEW v \in Uploads, UploadStep(v),
               \A s \in Requests, f \in Files, genuine \in BOOLEAN : ~StartUpload(v, s, f, genuine)
        PROVE  UNCHANGED job /\ upc[u] \notin {"idle", "done"}
    BY <1>3, <2>2 DEF UploadStep, RefuseUpload, AnnounceUpload, TakeTarget, SaveBody,
                FinalizeFile, TellFinished, HangUpUpload, UploadType, Finalizing, Transferring
  <2>3. QED
    BY <1>1, <1>3, <2>1, <2>2, OutsideUpload DEF Bindings
<1>4. ASSUME NEW c \in Cancels, cpc'[c] \in {"telling", "forwarding"} PROVE cjob'[c] \in Requests
  <2>1. ASSUME NEW d \in Cancels, CancelStep(d) PROVE cjob'[c] \in Requests
    BY <1>4, <2>1 DEF CancelStep, Cancel, TellCancelled, HangUpCancel, CancelType, Bindings
  <2>2. CASE UNCHANGED canVars
    BY <1>4, <2>2 DEF canVars, Bindings
  <2>3. (\A d \in Cancels : ~CancelStep(d)) => UNCHANGED canVars
    BY DEF Next, vars, FallQuiet, PrepareStep, Claim, Refuse, NotifyReplaced, Announce, TakeDecision,
           FreeSlot, OpenSession, HangUp, Cleanup, TellAborted, UploadStep, StartUpload, RefuseUpload,
           AnnounceUpload, TakeTarget, SaveBody, FinalizeFile, TellFinished, HangUpUpload, AppStep,
           ReceivePrepare, TurnDown, CancelSession, Accept, ReceiveFile, AnswerUpload, ReceiveNotice,
           LeaveServer
  <2>4. QED
    BY <2>1, <2>2, <2>3
<1>5. QED
  BY <1>2, <1>3, <1>4 DEF Bindings

LEMMA WriterStep == IInv /\ [Next]_vars => UploadHoldsItsFile' /\ OneWriterPerFile'
<1> SUFFICES ASSUME IInv, [Next]_vars PROVE UploadHoldsItsFile' /\ OneWriterPerFile'
  OBVIOUS
<1> USE DEF IInv, TypeOK, UploadType, Working, Transferring
<1>1. ASSUME NEW u \in Uploads, UploadStep(u) PROVE UploadHoldsItsFile' /\ OneWriterPerFile'
  <2>1. ASSUME NEW s \in Requests, NEW f \in Files, NEW genuine \in BOOLEAN,
               StartUpload(u, s, f, genuine)
        PROVE  UploadHoldsItsFile' /\ OneWriterPerFile'
    <3>1. \A v \in Uploads \ {u} : upc[v] \in Working => job[v] # [session |-> s, file |-> f]
      BY <2>1 DEF StartUpload, Admissible, UploadHoldsItsFile
    <3>2. OneWriterPerFile'
      BY <2>1, <3>1 DEF StartUpload, OneWriterPerFile
    <3>3. UploadHoldsItsFile'
      BY <2>1, <3>1 DEF StartUpload, Admissible, UploadHoldsItsFile, SlotType, Status
    <3>4. QED
      BY <3>2, <3>3
  <2>2. CASE FinalizeFile(u)
    <3>1. upc[u] \in Working /\ upc'[u] \notin Working /\ UNCHANGED job
          /\ \A v \in Uploads \ {u} : upc'[v] = upc[v]
      BY <2>2 DEF FinalizeFile, Finalizing, AfterLastFile
    <3>2. OneWriterPerFile'
      BY <3>1 DEF OneWriterPerFile
    <3>3. ASSUME NEW v \in Uploads, upc'[v] \in Working, slot' = job'[v].session
          PROVE  files'[job'[v].file] = "in_progress"
      <4>1. v # u /\ upc[v] \in Working /\ job[v].session \in Requests /\ job[v].file \in Files
        BY <3>1, <3>3 DEF Bindings
      <4>2. slot' = slot
        BY <2>2, <3>1, <3>3, <4>1, ServerAssumption DEF FinalizeFile, VacateSlot, slotVars
      <4>3. files[job[v].file] = "in_progress" /\ job[v] # job[u]
        BY <3>1, <3>3, <4>1, <4>2 DEF UploadHoldsItsFile, OneWriterPerFile
      <4>4. CASE UNCHANGED files
        BY <3>1, <4>3, <4>4
      <4>5. CASE files' = FinalStatus(u) /\ OwnsSlot(u)
        <5>1. job[v].session = job[u].session
          BY <3>1, <3>3, <4>2, <4>5 DEF OwnsSlot
        <5>2. job[v].file # job[u].file
          BY <4>3, <5>1 DEF Job
        <5>3. QED
          BY <3>1, <4>1, <4>3, <4>5, <5>2 DEF FinalStatus, SlotType
      <4>6. QED
        BY <2>2, <4>1, <4>2, <4>4, <4>5, <3>1, <3>3, ServerAssumption DEF FinalizeFile, VacateSlot, slotVars
    <3>4. QED
      BY <3>2, <3>3 DEF UploadHoldsItsFile
  <2>3. CASE /\ UNCHANGED <<slotVars, job>>
             /\ \A v \in Uploads \ {u} : upc'[v] = upc[v]
             /\ upc'[u] \in Working => upc[u] \in Working
    BY <2>3 DEF slotVars, UploadHoldsItsFile, OneWriterPerFile
  <2>4. QED
    <3>1. \/ \E s \in Requests, f \in Files, genuine \in BOOLEAN : StartUpload(u, s, f, genuine)
          \/ FinalizeFile(u)
          \/ /\ UNCHANGED <<slotVars, job>>
             /\ \A v \in Uploads \ {u} : upc'[v] = upc[v]
             /\ upc'[u] \in Working => upc[u] \in Working
      BY <1>1 DEF UploadStep, RefuseUpload, AnnounceUpload, TakeTarget, SaveBody, TellFinished, HangUpUpload
    <3>2. QED
      BY <2>1, <2>2, <2>3, <3>1
<1>2. CASE \A u \in Uploads : ~UploadStep(u)
  <2>1. UNCHANGED <<upc, job>>
    BY <1>2, OutsideUpload
  <2>2. CASE UNCHANGED <<slot, files>>
    BY <2>1, <2>2 DEF UploadHoldsItsFile, OneWriterPerFile
  <2>3. CASE slot' \notin Requests
    BY <2>1, <2>3 DEF UploadHoldsItsFile, OneWriterPerFile, Bindings
  <2>4. ASSUME NEW r \in Requests, OpenSession(r) PROVE UploadHoldsItsFile' /\ OneWriterPerFile'
    <3>1. slot' = r /\ pc[r] = "opening"
      BY <2>4 DEF OpenSession
    <3>2. \A u \in Uploads : upc[u] \in Working => job[u].session # r
      BY <3>1 DEF Bindings
    <3>3. QED
      BY <2>1, <3>1, <3>2 DEF UploadHoldsItsFile, OneWriterPerFile
  <2>5. QED
    BY <1>2, <2>2, <2>3, <2>4, OutsideUpload
<1>3. QED
  BY <1>1, <1>2

-----------------------------------------------------------------------------
(* The theorems.                                                           *)

LEMMA InvariantInit == Init => IInv
<1> SUFFICES ASSUME Init PROVE IInv
  OBVIOUS
<1>1. TypeOK
  BY TypeInit
<1>2. Bindings /\ SessionOpened /\ OneHolder /\ UploadHoldsItsFile /\ OneWriterPerFile
  BY ServerAssumption DEF Init, Bindings, SessionOpened, OneHolder, Holding, Claiming, Guarded,
                          UploadHoldsItsFile, OneWriterPerFile, Working, Transferring
<1>3. QED
  BY <1>1, <1>2 DEF IInv

LEMMA InvariantStep == IInv /\ [Next]_vars => IInv'
  BY TypeStep, BindingsStep, HolderStep, WriterStep DEF IInv

\* The inductive invariant holds in every state of every behaviour.
THEOREM Invariance == Spec => []IInv
<1>1. QED
  BY InvariantInit, InvariantStep, PTL DEF Spec

\* Every variable keeps its type and a slot without a session keeps nothing of
\* the last one (v2.rs, SessionStateV2).
THEOREM TypeCorrect == Spec => []TypeOK
<1>1. IInv => TypeOK
  BY DEF IInv
<1>2. QED
  BY <1>1, Invariance, PTL

\* A claimed slot belongs to exactly one prepare-upload, which finds its claim
\* untouched by every late clean-up, cancellation or finalization.
THEOREM SlotHasOneHolder == Spec => []OneHolder
<1>1. IInv => OneHolder
  BY DEF IInv
<1>2. QED
  BY <1>1, Invariance, PTL

\* Two uploads never write the same file of a session.
THEOREM SingleWriter == Spec => []OneWriterPerFile
<1>1. IInv => OneWriterPerFile
  BY DEF IInv
<1>2. QED
  BY <1>1, Invariance, PTL

\* An upload that has not ended finds its file in progress while its session
\* holds the slot.
THEOREM UploadKeepsItsFile == Spec => []UploadHoldsItsFile
<1>1. IInv => UploadHoldsItsFile
  BY DEF IInv
<1>2. QED
  BY <1>1, Invariance, PTL

\* A request never takes over the slot of a session that still receives a
\* file (is_abandoned, session.rs:47-53).
THEOREM NoTakeover == Spec => NoTakeoverMidTransfer
<1> DEFINE Step == (slot \in Requests /\ slot' = "pending") =>
                      \A u \in Uploads : ~(upc[u] \in Working /\ job[u].session = slot)
<1>1. IInv /\ [Next]_vars => Step
  <2> SUFFICES ASSUME IInv, [Next]_vars, slot \in Requests, slot' = "pending",
                      NEW u \in Uploads, upc[u] \in Working, job[u].session = slot
               PROVE  FALSE
    OBVIOUS
  <2> USE ServerAssumption
  <2>1. PICK r \in Requests : PrepareStep(r)
    BY OutsidePrepare
  <2>2. slot # "pending" /\ ~Holding(r)
    BY DEF IInv, OneHolder
  <2>3. Claim(r)
    BY <2>1, <2>2 DEF PrepareStep, Refuse, NotifyReplaced, Announce, TakeDecision, FreeSlot,
           OpenSession, HangUp, Cleanup, TellAborted, Holding, Claiming, Guarded, slotVars
  <2>4. ~Receiving
    BY <2>3 DEF Claim, Abandoned
  <2>5. job[u].file \in Files /\ files[job[u].file] = "in_progress"
    BY DEF IInv, Bindings, UploadHoldsItsFile, Working, Transferring
  <2>6. QED
    BY <2>4, <2>5 DEF Receiving
<1>2. IInv /\ [Next]_vars => [Step]_vars
  BY <1>1
<1>3. QED
  BY <1>2, Invariance, PTL DEF Spec, NoTakeoverMidTransfer

-----------------------------------------------------------------------------
(* Final statuses are earned.                                              *)

\* An upload that is over is never touched again.
LEMMA DoneStays ==
  ASSUME IInv, [Next]_vars, NEW v \in Uploads, upc[v] = "done"
  PROVE  upc'[v] = "done" /\ job'[v] = job[v] /\ saved'[v] = saved[v]
<1> USE DEF IInv, TypeOK, UploadType
<1>1. ASSUME NEW u \in Uploads, UploadStep(u)
      PROVE  upc'[v] = "done" /\ job'[v] = job[v] /\ saved'[v] = saved[v]
  BY <1>1 DEF UploadStep, StartUpload, RefuseUpload, AnnounceUpload, TakeTarget, SaveBody,
              FinalizeFile, Finalizing, TellFinished, HangUpUpload, Transferring
<1>2. QED
  BY <1>1, OutsideUpload

LEMMA EarnedStep == IInv /\ IInv' /\ StatusEarned /\ [Next]_vars => StatusEarned'
<1> SUFFICES ASSUME IInv, IInv', StatusEarned, [Next]_vars PROVE StatusEarned'
  OBVIOUS
<1>0. SUFFICES ASSUME NEW f \in Files, files'[f] \in {"finished", "failed"} PROVE Earned(f)'
  BY DEF StatusEarned
<1>1. files' \in [Files -> Status] /\ slot' \in Requests
  BY <1>0 DEF IInv, TypeOK, SlotType, NoFiles
<1>2. ASSUME slot' = slot, files'[f] = files[f] PROVE Earned(f)'
  <2>1. PICK v \in Uploads : /\ upc[v] = "done"
                             /\ job[v] = [session |-> slot, file |-> f]
                             /\ files[f] = "finished" => saved[v]
    BY <1>0, <1>2 DEF StatusEarned, Earned
  <2>2. QED
    BY <1>2, <2>1, DoneStays DEF Earned
<1>3. ASSUME NEW u \in Uploads, FinalizeFile(u), slot' = slot, files' = FinalStatus(u),
             OwnsSlot(u), upc'[u] = "done", f = job[u].file
      PROVE  Earned(f)'
  <2>1. upc[u] \in Working /\ slot = job[u].session
    BY <1>3 DEF FinalizeFile, Finalizing, Working, OwnsSlot
  <2>2. files[f] = "in_progress"
    BY <1>3, <2>1 DEF IInv, UploadHoldsItsFile
  <2>3. files'[f] = IF upc[u] = "finishing" /\ saved[u] THEN "finished" ELSE "failed"
    BY <1>3, <2>2 DEF FinalStatus, IInv, TypeOK, SlotType
  <2>4. job[u] = [session |-> slot, file |-> f]
    BY <1>3, <2>1 DEF IInv, TypeOK, UploadType, Job
  <2>5. job'[u] = job[u] /\ saved'[u] = saved[u]
    BY <1>3 DEF FinalizeFile
  <2>6. QED
    BY <1>3, <2>3, <2>4, <2>5 DEF Earned
<1>4. ASSUME NEW u \in Uploads, FinalizeFile(u) PROVE Earned(f)'
  <2>1. CASE slot' = slot /\ files'[f] = files[f]
    BY <1>2, <2>1
  <2>2. CASE slot' = slot /\ files' = FinalStatus(u) /\ OwnsSlot(u) /\ upc'[u] = "done"
    <3>1. f # job[u].file => files'[f] = files[f]
      BY <2>2 DEF FinalStatus, IInv, TypeOK, SlotType
    <3>2. QED
      BY <1>2, <1>3, <1>4, <2>2, <3>1
  <2>3. ~VacateSlot
    BY <1>1, ServerAssumption DEF VacateSlot
  <2>4. upc' = [upc EXCEPT ![u] = "done"] => upc'[u] = "done"
    BY DEF IInv, TypeOK, UploadType
  <2>5. QED
    BY <1>4, <2>1, <2>2, <2>3, <2>4 DEF FinalizeFile, slotVars
<1>5. ASSUME NEW u \in Uploads, UploadStep(u), ~FinalizeFile(u) PROVE slot' = slot /\ files'[f] = files[f]
  <2>1. ASSUME NEW s \in Requests, NEW g \in Files, NEW genuine \in BOOLEAN,
               StartUpload(u, s, g, genuine)
        PROVE  slot' = slot /\ files'[f] = files[f]
    BY <1>0, <2>1 DEF StartUpload, IInv, TypeOK, SlotType
  <2>2. QED
    BY <1>5, <2>1 DEF UploadStep, RefuseUpload, AnnounceUpload, TakeTarget, SaveBody,
                      TellFinished, HangUpUpload, slotVars
<1>6. ASSUME NEW r \in Requests, OpenSession(r) PROVE FALSE
  BY <1>0, <1>6 DEF OpenSession
<1>7. ASSUME \A u \in Uploads : ~UploadStep(u) PROVE slot' = slot /\ files'[f] = files[f]
  <2>1. UNCHANGED <<slot, files>>
    BY <1>1, <1>6, <1>7, OutsideUpload
  <2>2. QED
    BY <2>1
<1>8. QED
  BY <1>2, <1>4, <1>5, <1>7

\* A file of the active session counts as finished only if an upload of this
\* very session saved its whole body, and as failed only if one did not
\* (finalize_file, v2.rs).
THEOREM StatusesAreEarned == Spec => []StatusEarned
<1>1. Init => StatusEarned
  BY DEF Init, StatusEarned, NoFiles
<1>2. QED
  BY <1>1, EarnedStep, Invariance, PTL DEF Spec

-----------------------------------------------------------------------------
(* The end of a session is told once.                                      *)

LEMMA EndingOf ==
  ASSUME NEW s \in Requests
  PROVE  /\ \A k, t : Notice(k, t) \in Endings(s) <=> t = s /\ k \in {"finished", "cancelled"}
         /\ \A u : FileUpload(u) \notin Endings(s)
<1>1. \A k, t : Notice(k, t) \in Endings(s) <=> t = s /\ k \in {"finished", "cancelled"}
  BY DEF Endings, Notice
<1>2. \A e \in Endings(s) : e.kind \in {"finished", "cancelled"}
  BY DEF Endings, Notice
<1>3. \A u : FileUpload(u).kind = "file"
  BY DEF FileUpload
<1>4. QED
  BY <1>1, <1>2, <1>3

\* What a send or a receive does to the ends in the channel.
LEMMA QueueMoves ==
  ASSUME ChannelType, NEW s \in Requests
  PROVE  /\ UNCHANGED events => QueuedEnds(s)' = QueuedEnds(s)
         /\ events' = <<>> => QueuedEnds(s)' = {}
         /\ \A e \in Event : events' = Append(events, e) =>
              QueuedEnds(s)' = QueuedEnds(s) \cup (IF e \in Endings(s) THEN {Len(events) + 1} ELSE {})
         /\ events # <<>> /\ events' = Tail(events) =>
              QueuedEnds(s)' = {i \in 1..Len(events) - 1 : i + 1 \in QueuedEnds(s)}
<1> USE DEF ChannelType, QueuedEnds
<1>1. UNCHANGED events => QueuedEnds(s)' = QueuedEnds(s)
  OBVIOUS
<1>2. events' = <<>> => QueuedEnds(s)' = {}
  OBVIOUS
<1>3. ASSUME NEW e \in Event, events' = Append(events, e)
      PROVE  QueuedEnds(s)' = QueuedEnds(s) \cup (IF e \in Endings(s) THEN {Len(events) + 1} ELSE {})
  <2>1. /\ DOMAIN events' = DOMAIN events \cup {Len(events) + 1}
        /\ \A i \in DOMAIN events : events'[i] = events[i] /\ i # Len(events) + 1
        /\ events'[Len(events) + 1] = e
    BY <1>3
  <2>2. Endings(s)' = Endings(s)
    BY DEF Endings, Notice
  <2>3. QED
    BY <2>1, <2>2
<1>4. ASSUME events # <<>>, events' = Tail(events)
      PROVE  QueuedEnds(s)' = {i \in 1..Len(events) - 1 : i + 1 \in QueuedEnds(s)}
  <2>1. /\ DOMAIN events' = 1..Len(events) - 1
        /\ \A i \in 1..Len(events) - 1 : events'[i] = events[i + 1] /\ i + 1 \in DOMAIN events
    BY <1>4
  <2>2. Endings(s)' = Endings(s)
    BY DEF Endings, Notice
  <2>3. QED
    BY <2>1, <2>2
<1>5. QED
  BY <1>1, <1>2, <1>3, <1>4

LEMMA QueueKept ==
  ASSUME ChannelType, NEW s \in Requests, NEW e \in Event, e \notin Endings(s),
         UNCHANGED events \/ events' = Append(events, e)
  PROVE  QueuedEnds(s)' = QueuedEnds(s)
<1>1. CASE UNCHANGED events
  BY <1>1, QueueMoves
<1>2. CASE events' = Append(events, e)
  <2>1. QueuedEnds(s)' = QueuedEnds(s) \cup {}
    BY <1>2, QueueMoves
  <2>2. QED
    BY <2>1
<1>3. QED
  BY <1>1, <1>2

LEMMA QueueGets ==
  ASSUME ChannelType, NEW s \in Requests, NEW e \in Event, QueuedEnds(s) = {},
         UNCHANGED events \/ events' = Append(events, e)
  PROVE  \E y : QueuedEnds(s)' \subseteq {y}
<1>1. CASE UNCHANGED events
  BY <1>1, QueueMoves
<1>2. CASE events' = Append(events, e)
  <2>1. QueuedEnds(s)' \subseteq {Len(events) + 1}
    BY <1>2, QueueMoves
  <2>2. QED
    BY <2>1
<1>3. QED
  BY <1>1, <1>2

\* What is not touched stays where it is.
LEMMA OtherPlaces ==
  ASSUME NEW s \in Requests
  PROVE  /\ UNCHANGED <<pc, replaced>> => Replacing(s)' = Replacing(s)
         /\ UNCHANGED <<upc, job>> => Ending(s)' = Ending(s)
         /\ UNCHANGED <<cpc, cjob>> => Cancelling(s)' = Cancelling(s)
         /\ UNCHANGED heard => KnownEnds(s)' = KnownEnds(s)
  BY DEF Replacing, Ending, Cancelling, KnownEnds

\* An opened session that left the slot does not come back.
LEMMA OpenedOnce ==
  ASSUME IInv, [Next]_vars, NEW s \in Requests, pc[s] = "opened"
  PROVE  pc'[s] = "opened" /\ (slot # s => slot' # s)
<1> USE ServerAssumption DEF IInv, TypeOK
<1>1. ASSUME NEW q \in Requests, PrepareStep(q) PROVE pc'[s] = "opened" /\ (slot # s => slot' # s)
  BY <1>1 DEF PrepareStep, Claim, Refuse, NotifyReplaced, Announce, TakeDecision, FreeSlot,
              OpenSession, HangUp, Cleanup, TellAborted, RequestType, Guarded, ClearPending,
              VacateSlot, slotVars
<1>2. QED
  BY <1>1, OutsidePrepare

\* Nothing of the end of s is anywhere but y at the n-th place.
OnlyAt(s, n, y) == \A i \in 1..5 : \A x \in EndPlaces(s)[i] : i = n /\ x = y

LEMMA OnlyAtOf ==
  ASSUME NEW s \in Requests, NEW y
  PROVE  /\ OnlyAt(s, 1, y)' <=> /\ QueuedEnds(s)' \subseteq {y} /\ Replacing(s)' = {}
                                /\ Ending(s)' = {} /\ Cancelling(s)' = {} /\ KnownEnds(s)' = {}
         /\ OnlyAt(s, 2, y)' <=> /\ QueuedEnds(s)' = {} /\ Replacing(s)' \subseteq {y}
                                /\ Ending(s)' = {} /\ Cancelling(s)' = {} /\ KnownEnds(s)' = {}
         /\ OnlyAt(s, 3, y)' <=> /\ QueuedEnds(s)' = {} /\ Replacing(s)' = {}
                                /\ Ending(s)' \subseteq {y} /\ Cancelling(s)' = {} /\ KnownEnds(s)' = {}
         /\ OnlyAt(s, 4, y)' <=> /\ QueuedEnds(s)' = {} /\ Replacing(s)' = {}
                                /\ Ending(s)' = {} /\ Cancelling(s)' \subseteq {y} /\ KnownEnds(s)' = {}
         /\ OnlyAt(s, 5, y)' <=> /\ QueuedEnds(s)' = {} /\ Replacing(s)' = {}
                                /\ Ending(s)' = {} /\ Cancelling(s)' = {} /\ KnownEnds(s)' \subseteq {y}
<1>1. ASSUME NEW n \in 1..5
      PROVE  OnlyAt(s, n, y)' <=>
               /\ \A x \in QueuedEnds(s)' : n = 1 /\ x = y
               /\ \A x \in Replacing(s)' : n = 2 /\ x = y
               /\ \A x \in Ending(s)' : n = 3 /\ x = y
               /\ \A x \in Cancelling(s)' : n = 4 /\ x = y
               /\ \A x \in KnownEnds(s)' : n = 5 /\ x = y
  BY DEF OnlyAt, EndPlaces
<1>2. QED
  BY <1>1

\* The five places of an end that is at one place at most.
LEMMA OneEndOf ==
  ASSUME NEW s \in Requests, OneEnd(s)
  PROVE  LET Q == QueuedEnds(s)  R == Replacing(s)  E == Ending(s)
             C == Cancelling(s)  K == KnownEnds(s)
         IN  /\ \A x \in Q : Q = {x} /\ R = {} /\ E = {} /\ C = {} /\ K = {}
             /\ \A x \in R : Q = {} /\ R = {x} /\ E = {} /\ C = {} /\ K = {}
             /\ \A x \in E : Q = {} /\ R = {} /\ E = {x} /\ C = {} /\ K = {}
             /\ \A x \in C : Q = {} /\ R = {} /\ E = {} /\ C = {x} /\ K = {}
             /\ \A x \in K : Q = {} /\ R = {} /\ E = {} /\ C = {} /\ K = {x}
             /\ \A x \in Q \cup R \cup E \cup C \cup K : slot # s /\ pc[s] = "opened"
<1> DEFINE P == EndPlaces(s)
<1>1. /\ P[1] = QueuedEnds(s) /\ P[2] = Replacing(s) /\ P[3] = Ending(s)
      /\ P[4] = Cancelling(s) /\ P[5] = KnownEnds(s)
  BY DEF EndPlaces
<1>2. \A i, j \in 1..5 : \A x \in P[i], y \in P[j] : i = j /\ x = y
  BY DEF OneEnd
<1>3. \A i \in 1..5 : P[i] # {} => slot # s /\ pc[s] = "opened"
  BY DEF OneEnd
<1> HIDE DEF P
<1>4. \A n \in 1..5 : \A x \in P[n] : P[n] = {x} /\ \A i \in 1..5 \ {n} : P[i] = {}
  BY <1>2
<1>5. /\ \A x \in P[1] : P[1] = {x} /\ P[2] = {} /\ P[3] = {} /\ P[4] = {} /\ P[5] = {}
      /\ \A x \in P[2] : P[1] = {} /\ P[2] = {x} /\ P[3] = {} /\ P[4] = {} /\ P[5] = {}
      /\ \A x \in P[3] : P[1] = {} /\ P[2] = {} /\ P[3] = {x} /\ P[4] = {} /\ P[5] = {}
      /\ \A x \in P[4] : P[1] = {} /\ P[2] = {} /\ P[3] = {} /\ P[4] = {x} /\ P[5] = {}
      /\ \A x \in P[5] : P[1] = {} /\ P[2] = {} /\ P[3] = {} /\ P[4] = {} /\ P[5] = {x}
  BY <1>4
<1>6. \A x \in P[1] \cup P[2] \cup P[3] \cup P[4] \cup P[5] : slot # s /\ pc[s] = "opened"
  BY <1>3
<1>7. QED
  BY <1>1, <1>5, <1>6

\* An end at one place at most after a step, of a session that was opened and
\* has left the slot.
LEMMA Settled ==
  ASSUME IInv, [Next]_vars, NEW s \in Requests, NEW n, NEW y, OnlyAt(s, n, y)',
         pc[s] = "opened", slot' # s
  PROVE  OneEnd(s)'
<1>1. pc'[s] = "opened"
  BY OpenedOnce
<1>2. QED
  BY <1>1 DEF OnlyAt, OneEnd

\* A step that brings the end of s nowhere new.
LEMMA NotSpread ==
  ASSUME IInv, [Next]_vars, NEW s \in Requests, OneEnd(s),
         QueuedEnds(s)' \subseteq QueuedEnds(s), Replacing(s)' \subseteq Replacing(s),
         Ending(s)' \subseteq Ending(s), Cancelling(s)' \subseteq Cancelling(s),
         KnownEnds(s)' \subseteq KnownEnds(s)
  PROVE  OneEnd(s)'
<1>1. \A i \in 1..5 : EndPlaces(s)'[i] \subseteq EndPlaces(s)[i]
  BY DEF EndPlaces
<1>2. slot # s /\ pc[s] = "opened" => slot' # s /\ pc'[s] = "opened"
  BY OpenedOnce
<1>3. QED
  BY <1>1, <1>2 DEF OneEnd

LEMMA EndingsCount ==
  ASSUME NEW s \in Requests, OneEnd(s)
  PROVE  Cardinality(QueuedEnds(s)) + Cardinality(Replacing(s)) + Cardinality(Ending(s))
           + Cardinality(Cancelling(s)) + Cardinality(KnownEnds(s)) <= (IF slot = s THEN 0 ELSE 1)
<1> DEFINE Q == QueuedEnds(s)
           R == Replacing(s)
           E == Ending(s)
           C == Cancelling(s)
           K == KnownEnds(s)
<1>1. Cardinality({}) = 0 /\ \A x : Cardinality({x}) = 1
  BY FS_EmptySet, FS_Singleton
<1>2. \/ Q = {} /\ R = {} /\ E = {} /\ C = {} /\ K = {}
      \/ /\ slot # s
         /\ \/ (\E x : Q = {x}) /\ R = {} /\ E = {} /\ C = {} /\ K = {}
            \/ Q = {} /\ (\E x : R = {x}) /\ E = {} /\ C = {} /\ K = {}
            \/ Q = {} /\ R = {} /\ (\E x : E = {x}) /\ C = {} /\ K = {}
            \/ Q = {} /\ R = {} /\ E = {} /\ (\E x : C = {x}) /\ K = {}
            \/ Q = {} /\ R = {} /\ E = {} /\ C = {} /\ (\E x : K = {x})
  BY OneEndOf
<1> DEFINE Sum == Cardinality(Q) + Cardinality(R) + Cardinality(E) + Cardinality(C) + Cardinality(K)
<1> HIDE DEF Q, R, E, C, K
<1>3. CASE Q = {} /\ R = {} /\ E = {} /\ C = {} /\ K = {}
  <2>1. Sum = 0
    BY <1>1, <1>3
  <2>2. QED
    BY <2>1 DEF Q, R, E, C, K
<1>4. CASE slot # s /\ Sum = 1
  BY <1>4 DEF Q, R, E, C, K
<1>5. ASSUME NEW x, Q = {x}, R = {}, E = {}, C = {}, K = {} PROVE Sum = 1
  <2>1. Cardinality(Q) = 1 /\ Cardinality(R) = 0 /\ Cardinality(E) = 0 /\ Cardinality(C) = 0 /\ Cardinality(K) = 0
    BY <1>1, <1>5
  <2>2. QED
    BY <2>1
<1>6. ASSUME NEW x, Q = {}, R = {x}, E = {}, C = {}, K = {} PROVE Sum = 1
  <2>1. Cardinality(Q) = 0 /\ Cardinality(R) = 1 /\ Cardinality(E) = 0 /\ Cardinality(C) = 0 /\ Cardinality(K) = 0
    BY <1>1, <1>6
  <2>2. QED
    BY <2>1
<1>7. ASSUME NEW x, Q = {}, R = {}, E = {x}, C = {}, K = {} PROVE Sum = 1
  <2>1. Cardinality(Q) = 0 /\ Cardinality(R) = 0 /\ Cardinality(E) = 1 /\ Cardinality(C) = 0 /\ Cardinality(K) = 0
    BY <1>1, <1>7
  <2>2. QED
    BY <2>1
<1>8. ASSUME NEW x, Q = {}, R = {}, E = {}, C = {x}, K = {} PROVE Sum = 1
  <2>1. Cardinality(Q) = 0 /\ Cardinality(R) = 0 /\ Cardinality(E) = 0 /\ Cardinality(C) = 1 /\ Cardinality(K) = 0
    BY <1>1, <1>8
  <2>2. QED
    BY <2>1
<1>9. ASSUME NEW x, Q = {}, R = {}, E = {}, C = {}, K = {x} PROVE Sum = 1
  <2>1. Cardinality(Q) = 0 /\ Cardinality(R) = 0 /\ Cardinality(E) = 0 /\ Cardinality(C) = 0 /\ Cardinality(K) = 1
    BY <1>1, <1>9
  <2>2. QED
    BY <2>1
<1> HIDE DEF Sum
<1>10. QED
  BY <1>2, <1>3, <1>4, <1>5, <1>6, <1>7, <1>8, <1>9

\* The application takes an event that does not end s.
LEMMA QueueShifts ==
  ASSUME IInv, [Next]_vars, NEW s \in Requests, OneEnd(s), events # <<>>, events' = Tail(events),
         UNCHANGED <<pc, replaced, upc, job, cpc, cjob>>, KnownEnds(s)' = KnownEnds(s)
  PROVE  OneEnd(s)'
<1>1. QueuedEnds(s)' = {i \in 1..Len(events) - 1 : i + 1 \in QueuedEnds(s)}
  BY QueueMoves DEF IInv, TypeOK
<1>2. CASE QueuedEnds(s) = {}
  <2>1. QueuedEnds(s)' = {}
    BY <1>1, <1>2
  <2>2. QED
    BY <2>1, NotSpread, OtherPlaces
<1>3. ASSUME NEW x \in QueuedEnds(s) PROVE OneEnd(s)'
  <2>1. /\ QueuedEnds(s) = {x} /\ slot # s /\ pc[s] = "opened"
        /\ Replacing(s) = {} /\ Ending(s) = {} /\ Cancelling(s) = {} /\ KnownEnds(s) = {}
    BY OneEndOf
  <2>2. x \in Int
    BY DEF QueuedEnds, IInv, TypeOK, ChannelType
  <2>3. QueuedEnds(s)' \subseteq {x - 1}
    BY <1>1, <2>1, <2>2
  <2>4. OnlyAt(s, 1, x - 1)'
    BY <2>1, <2>3, OnlyAtOf, OtherPlaces
  <2>5. slot' # s
    BY <2>1, OpenedOnce
  <2>6. QED
    BY <2>1, <2>4, <2>5, Settled
<1>4. QED
  BY <1>2, <1>3

LEMMA EndPrepareStep ==
  ASSUME IInv, [Next]_vars, NEW s \in Requests, OneEnd(s), NEW r \in Requests, PrepareStep(r)
  PROVE  OneEnd(s)'
<1>0. /\ ChannelType /\ pc \in [Requests -> RequestPhase]
      /\ replaced \in [Requests -> Requests \cup {"none"}]
  BY DEF IInv, TypeOK, RequestType
<1>1. Ending(s)' = Ending(s) /\ Cancelling(s)' = Cancelling(s) /\ KnownEnds(s)' = KnownEnds(s)
  <2>1. UNCHANGED <<upc, job, cpc, cjob, heard>>
    BY DEF PrepareStep, Claim, Refuse, NotifyReplaced, Announce, TakeDecision, FreeSlot,
           OpenSession, HangUp, Cleanup, TellAborted, upVars, canVars, appVars
  <2>2. QED
    BY <2>1, OtherPlaces
<1>2. ASSUME QueuedEnds(s)' = QueuedEnds(s), UNCHANGED replaced,
             \E a \in RequestPhase : a # "notifying" /\ pc' = [pc EXCEPT ![r] = a]
      PROVE  OneEnd(s)'
  <2>1. Replacing(s)' \subseteq Replacing(s)
    BY <1>0, <1>2 DEF Replacing
  <2>2. QED
    BY <1>1, <1>2, <2>1, NotSpread
<1>3. CASE Claim(r)
  <2>1. QueuedEnds(s)' = QueuedEnds(s)
    BY <1>0, <1>3, QueueMoves DEF Claim, chanVars
  <2>2. CASE Abandoned /\ slot = s /\ pc' = [pc EXCEPT ![r] = "notifying"]
               /\ replaced' = [replaced EXCEPT ![r] = slot]
    <3>1. /\ QueuedEnds(s) = {} /\ Replacing(s) = {} /\ Ending(s) = {}
          /\ Cancelling(s) = {} /\ KnownEnds(s) = {}
      BY <2>2, OneEndOf
    <3>2. Replacing(s)' \subseteq {r}
      BY <1>0, <2>2, <3>1 DEF Replacing
    <3>3. OnlyAt(s, 2, r)'
      BY <1>1, <2>1, <3>1, <3>2, OnlyAtOf
    <3>4. pc[s] = "opened" /\ slot' # s
      BY <1>3, <2>2, ServerAssumption DEF Claim, IInv, SessionOpened
    <3>5. QED
      BY <3>3, <3>4, Settled
  <2>3. CASE slot # s /\ pc' = [pc EXCEPT ![r] = "notifying"]
               /\ replaced' = [replaced EXCEPT ![r] = slot]
    <3>1. Replacing(s)' \subseteq Replacing(s)
      BY <1>0, <2>3 DEF Replacing
    <3>2. QED
      BY <1>1, <2>1, <3>1, NotSpread
  <2>4. CASE UNCHANGED replaced /\ pc' = [pc EXCEPT ![r] = "announcing"]
    BY <1>2, <2>1, <2>4 DEF RequestPhase, Claiming, Guarded
  <2>5. QED
    BY <1>3, <2>2, <2>3, <2>4 DEF Claim
<1>4. CASE NotifyReplaced(r)
  <2>1. /\ pc[r] = "notifying" /\ pc' = [pc EXCEPT ![r] = "announcing"]
        /\ UNCHANGED <<slot, replaced>>
        /\ UNCHANGED events \/ events' = Append(events, Notice("cancelled", replaced[r]))
    BY <1>4 DEF NotifyReplaced, Tell, slotVars
  <2>2. replaced[r] \in Requests /\ Notice("cancelled", replaced[r]) \in Event
    BY <2>1, EventType DEF IInv, Bindings, Notices
  <2>3. CASE replaced[r] = s
    <3>1. r \in Replacing(s)
      BY <2>1, <2>3 DEF Replacing
    <3>2. /\ QueuedEnds(s) = {} /\ Replacing(s) = {r} /\ Ending(s) = {} /\ slot # s
          /\ Cancelling(s) = {} /\ KnownEnds(s) = {} /\ pc[s] = "opened"
      BY <3>1, OneEndOf
    <3>3. Replacing(s)' = {}
      BY <1>0, <2>1, <3>2 DEF Replacing
    <3>4. PICK y : QueuedEnds(s)' \subseteq {y}
      BY <1>0, <2>1, <2>2, <3>2, QueueGets
    <3>5. OnlyAt(s, 1, y)'
      BY <1>1, <3>2, <3>3, <3>4, OnlyAtOf
    <3>6. QED
      BY <2>1, <3>2, <3>5, Settled
  <2>4. CASE replaced[r] # s
    <3>1. QueuedEnds(s)' = QueuedEnds(s)
      BY <1>0, <2>1, <2>2, <2>4, QueueKept, EndingOf
    <3>2. QED
      BY <1>2, <2>1, <3>1 DEF RequestPhase, Claiming, Guarded
  <2>5. QED
    BY <2>3, <2>4
<1>5. CASE Announce(r) \/ TellAborted(r)
  <2>1. PICK k \in {"prepare", "aborted"} : UNCHANGED events \/ events' = Append(events, Notice(k, r))
    BY <1>5 DEF Announce, TellAborted, Tell
  <2>2. Notice(k, r) \in Event /\ Notice(k, r) \notin Endings(s)
    BY EndingOf, EventType DEF Notices
  <2>3. QueuedEnds(s)' = QueuedEnds(s)
    BY <1>0, <2>1, <2>2, QueueKept
  <2>4. QED
    BY <1>2, <1>5, <2>3 DEF Announce, TellAborted, RequestPhase, Claiming, Guarded
<1>6. CASE Refuse(r) \/ TakeDecision(r) \/ FreeSlot(r) \/ OpenSession(r) \/ HangUp(r) \/ Cleanup(r)
  <2>1. UNCHANGED <<events, replaced>>
    BY <1>6 DEF Refuse, TakeDecision, FreeSlot, OpenSession, HangUp, Cleanup, chanVars
  <2>2. \E a \in RequestPhase : a # "notifying" /\ pc' = [pc EXCEPT ![r] = a]
    BY <1>6 DEF Refuse, TakeDecision, FreeSlot, OpenSession, HangUp, Cleanup, RequestPhase, Claiming, Guarded
  <2>3. QED
    BY <1>0, <1>2, <2>1, <2>2, QueueMoves
<1>7. QED
  BY <1>3, <1>4, <1>5, <1>6 DEF PrepareStep

LEMMA EndUploadStep ==
  ASSUME IInv, [Next]_vars, NEW s \in Requests, OneEnd(s), NEW u \in Uploads, UploadStep(u)
  PROVE  OneEnd(s)'
<1>0. ChannelType /\ upc \in [Uploads -> UploadPhase] /\ job \in [Uploads -> Job]
  BY DEF IInv, TypeOK, UploadType
<1>1. Replacing(s)' = Replacing(s) /\ Cancelling(s)' = Cancelling(s) /\ KnownEnds(s)' = KnownEnds(s)
  <2>1. UNCHANGED <<pc, replaced, cpc, cjob, heard>>
    BY DEF UploadStep, StartUpload, RefuseUpload, AnnounceUpload, TakeTarget, SaveBody,
           FinalizeFile, TellFinished, HangUpUpload, reqVars, canVars, appVars
  <2>2. QED
    BY <2>1, OtherPlaces
<1>2. ASSUME QueuedEnds(s)' = QueuedEnds(s), \A v \in Uploads \ {u} : job'[v] = job[v],
             \E a \in UploadPhase : a \notin {"ending", "orphan_ending"} /\ upc' = [upc EXCEPT ![u] = a]
      PROVE  OneEnd(s)'
  <2>1. Ending(s)' \subseteq Ending(s)
    BY <1>0, <1>2 DEF Ending
  <2>2. QED
    BY <1>1, <1>2, <2>1, NotSpread
<1>3. ASSUME UNCHANGED events, \A v \in Uploads \ {u} : job'[v] = job[v],
             \E a \in UploadPhase : a \notin {"ending", "orphan_ending"} /\ upc' = [upc EXCEPT ![u] = a]
      PROVE  OneEnd(s)'
  BY <1>0, <1>2, <1>3, QueueMoves
<1>4. ASSUME NEW t \in Requests, NEW f \in Files, NEW genuine \in BOOLEAN,
             StartUpload(u, t, f, genuine)
      PROVE  OneEnd(s)'
  BY <1>0, <1>3, <1>4 DEF StartUpload, chanVars, UploadPhase, Working, Transferring
<1>5. CASE AnnounceUpload(u)
  <2>1. FileUpload(u) \in Event /\ FileUpload(u) \notin Endings(s)
    BY EndingOf, EventType
  <2>2. QueuedEnds(s)' = QueuedEnds(s)
    BY <1>0, <1>5, <2>1, QueueKept DEF AnnounceUpload
  <2>3. QED
    BY <1>2, <1>5, <2>2 DEF AnnounceUpload, UploadPhase, Working, Transferring
<1>6. CASE FinalizeFile(u)
  <2>1. UNCHANGED <<events, job>>
    BY <1>6 DEF FinalizeFile, chanVars
  <2>2. CASE upc' = [upc EXCEPT ![u] = "done"]
    BY <1>3, <2>1, <2>2 DEF UploadPhase
  <2>3. ASSUME slot = job[u].session, slot' = "free",
               \E a \in {"ending", "orphan_ending"} : upc' = [upc EXCEPT ![u] = a]
        PROVE  OneEnd(s)'
    <3>1. QueuedEnds(s)' = QueuedEnds(s)
      BY <1>0, <2>1, QueueMoves
    <3>2. CASE slot = s
      <4>1. /\ QueuedEnds(s) = {} /\ Replacing(s) = {} /\ Ending(s) = {}
            /\ Cancelling(s) = {} /\ KnownEnds(s) = {}
        BY <3>2, OneEndOf
      <4>2. Ending(s)' \subseteq {u}
        BY <1>0, <2>1, <2>3, <4>1 DEF Ending
      <4>3. OnlyAt(s, 3, u)'
        BY <1>1, <3>1, <4>1, <4>2, OnlyAtOf
      <4>4. pc[s] = "opened" /\ slot' # s
        BY <2>3, <3>2, ServerAssumption DEF IInv, SessionOpened
      <4>5. QED
        BY <4>3, <4>4, Settled
    <3>3. CASE slot # s
      <4>1. Ending(s)' \subseteq Ending(s)
        BY <1>0, <2>1, <2>3, <3>3 DEF Ending
      <4>2. QED
        BY <1>1, <3>1, <4>1, NotSpread
    <3>4. QED
      BY <3>2, <3>3
  <2>4. QED
    BY <1>6, <2>2, <2>3 DEF FinalizeFile, OwnsSlot, VacateSlot, AfterLastFile
<1>7. CASE TellFinished(u)
  <2>1. /\ upc[u] \in {"ending", "orphan_ending"} /\ upc' = [upc EXCEPT ![u] = "done"]
        /\ UNCHANGED <<slot, job>>
        /\ UNCHANGED events \/ events' = Append(events, Notice("finished", job[u].session))
    BY <1>7 DEF TellFinished, Tell, slotVars
  <2>2. job[u].session \in Requests /\ Notice("finished", job[u].session) \in Event
    BY <2>1, EventType DEF IInv, Bindings, Notices
  <2>3. CASE job[u].session = s
    <3>1. u \in Ending(s)
      BY <2>1, <2>3 DEF Ending
    <3>2. /\ QueuedEnds(s) = {} /\ Replacing(s) = {} /\ Ending(s) = {u} /\ slot # s
          /\ Cancelling(s) = {} /\ KnownEnds(s) = {} /\ pc[s] = "opened"
      BY <3>1, OneEndOf
    <3>3. Ending(s)' = {}
      BY <1>0, <2>1, <3>2 DEF Ending
    <3>4. PICK y : QueuedEnds(s)' \subseteq {y}
      BY <1>0, <2>1, <2>2, <3>2, QueueGets
    <3>5. OnlyAt(s, 1, y)'
      BY <1>1, <3>2, <3>3, <3>4, OnlyAtOf
    <3>6. QED
      BY <2>1, <3>2, <3>5, Settled
  <2>4. CASE job[u].session # s
    <3>1. QueuedEnds(s)' = QueuedEnds(s)
      BY <1>0, <2>1, <2>2, <2>4, QueueKept, EndingOf
    <3>2. QED
      BY <1>2, <2>1, <3>1 DEF UploadPhase
  <2>5. QED
    BY <2>3, <2>4
<1>8. ASSUME NEW t \in Requests, NEW f \in Files, NEW genuine \in BOOLEAN,
             RefuseUpload(u, t, f, genuine)
      PROVE  OneEnd(s)'
  BY <1>3, <1>8 DEF RefuseUpload, chanVars, UploadPhase
<1>9. ASSUME NEW ok \in BOOLEAN, SaveBody(u, ok) PROVE OneEnd(s)'
  BY <1>3, <1>9 DEF SaveBody, chanVars, UploadPhase, Working
<1>10. CASE TakeTarget(u) \/ HangUpUpload(u)
  BY <1>3, <1>10 DEF TakeTarget, HangUpUpload, chanVars, UploadPhase, Working, Transferring
<1>11. QED
  BY <1>4, <1>5, <1>6, <1>7, <1>8, <1>9, <1>10 DEF UploadStep

LEMMA EndCancelStep ==
  ASSUME IInv, [Next]_vars, NEW s \in Requests, OneEnd(s), NEW c \in Cancels, CancelStep(c)
  PROVE  OneEnd(s)'
<1>0. ChannelType /\ CancelType
  BY DEF IInv, TypeOK
<1>1. Replacing(s)' = Replacing(s) /\ Ending(s)' = Ending(s) /\ KnownEnds(s)' = KnownEnds(s)
  <2>1. UNCHANGED <<pc, replaced, upc, job, heard>>
    BY DEF CancelStep, Cancel, TellCancelled, HangUpCancel, reqVars, upVars, appVars
  <2>2. QED
    BY <2>1, OtherPlaces
<1>2. ASSUME NEW t \in Requests, NEW genuine \in BOOLEAN, Cancel(c, t, genuine) PROVE OneEnd(s)'
  <2>1. QueuedEnds(s)' = QueuedEnds(s)
    BY <1>0, <1>2, QueueMoves DEF Cancel, chanVars
  <2>2. CASE t = s /\ slot = s /\ slot' = "free"
    <3>1. /\ QueuedEnds(s) = {} /\ Replacing(s) = {} /\ Ending(s) = {}
          /\ Cancelling(s) = {} /\ KnownEnds(s) = {}
      BY <2>2, OneEndOf
    <3>2. Cancelling(s)' \subseteq {c}
      BY <1>0, <1>2, <3>1 DEF Cancel, Cancelling, CancelType
    <3>3. OnlyAt(s, 4, c)'
      BY <1>1, <2>1, <3>1, <3>2, OnlyAtOf
    <3>4. pc[s] = "opened" /\ slot' # s
      BY <2>2, ServerAssumption DEF IInv, SessionOpened
    <3>5. QED
      BY <3>3, <3>4, Settled
  <2>3. CASE cpc' = [cpc EXCEPT ![c] = "forwarding"] \/ t # s
    <3>1. Cancelling(s)' \subseteq Cancelling(s)
      BY <1>0, <1>2, <2>3 DEF Cancel, Cancelling, CancelType
    <3>2. QED
      BY <1>1, <2>1, <3>1, NotSpread
  <2>4. QED
    BY <1>2, <2>2, <2>3 DEF Cancel, VacateSlot
<1>3. CASE TellCancelled(c)
  <2>1. /\ cpc[c] \in {"telling", "forwarding"} /\ cpc' = [cpc EXCEPT ![c] = "done"]
        /\ UNCHANGED <<slot, cjob>>
    BY <1>3 DEF TellCancelled, slotVars
  <2>2. PICK k \in {"cancelled", "foreign_cancel"} :
          /\ UNCHANGED events \/ events' = Append(events, Notice(k, cjob[c]))
          /\ cpc[c] = "telling" <=> k = "cancelled"
    BY <1>3 DEF TellCancelled, Tell
  <2>3. cjob[c] \in Requests /\ Notice(k, cjob[c]) \in Event
    BY <2>1, EventType DEF IInv, Bindings, Notices
  <2>4. Cancelling(s)' = Cancelling(s) \ {c}
    BY <1>0, <2>1 DEF Cancelling, CancelType
  <2>5. CASE cjob[c] = s /\ k = "cancelled"
    <3>1. c \in Cancelling(s)
      BY <2>2, <2>5 DEF Cancelling
    <3>2. /\ QueuedEnds(s) = {} /\ Replacing(s) = {} /\ Ending(s) = {} /\ slot # s
          /\ Cancelling(s) = {c} /\ KnownEnds(s) = {} /\ pc[s] = "opened"
      BY <3>1, OneEndOf
    <3>3. PICK y : QueuedEnds(s)' \subseteq {y}
      BY <1>0, <2>2, <2>3, <3>2, QueueGets
    <3>4. OnlyAt(s, 1, y)'
      BY <1>1, <2>4, <3>2, <3>3, OnlyAtOf
    <3>5. QED
      BY <2>1, <3>2, <3>4, Settled
  <2>6. CASE cjob[c] # s \/ k # "cancelled"
    <3>1. QueuedEnds(s)' = QueuedEnds(s)
      BY <1>0, <2>2, <2>3, <2>6, QueueKept, EndingOf
    <3>2. QED
      BY <1>1, <2>4, <3>1, NotSpread
  <2>7. QED
    BY <2>5, <2>6
<1>4. CASE HangUpCancel(c)
  <2>1. Cancelling(s)' \subseteq Cancelling(s)
    BY <1>0, <1>4 DEF HangUpCancel, Cancelling, CancelType
  <2>2. QueuedEnds(s)' = QueuedEnds(s)
    BY <1>0, <1>4, QueueMoves DEF HangUpCancel, chanVars
  <2>3. QED
    BY <1>1, <2>1, <2>2, NotSpread
<1>5. QED
  BY <1>2, <1>3, <1>4 DEF CancelStep

LEMMA EndAppStep ==
  ASSUME IInv, [Next]_vars, NEW s \in Requests, OneEnd(s), AppStep
  PROVE  OneEnd(s)'
<1>0. ChannelType /\ heard \in [Requests -> SUBSET (Notices \cup {"prepare"})]
  BY DEF IInv, TypeOK, AppType
<1>1. UNCHANGED <<pc, replaced, upc, job, cpc, cjob>>
  BY DEF AppStep, ReceivePrepare, TurnDown, CancelSession, Accept, ReceiveFile, AnswerUpload,
         ReceiveNotice, LeaveServer, reqVars, upVars, canVars
<1>2. /\ Replacing(s)' = Replacing(s) /\ Ending(s)' = Ending(s) /\ Cancelling(s)' = Cancelling(s)
      /\ UNCHANGED heard => KnownEnds(s)' = KnownEnds(s)
  BY <1>1, OtherPlaces
<1>3. ASSUME UNCHANGED <<events, heard>> PROVE OneEnd(s)'
  BY <1>0, <1>2, <1>3, QueueMoves, NotSpread
<1>4. ASSUME NEW r \in Requests, ReceivePrepare(r) PROVE OneEnd(s)'
  <2>1. KnownEnds(s)' = KnownEnds(s)
    BY <1>0, <1>4 DEF ReceivePrepare, KnownEnds
  <2>2. QED
    BY <1>1, <1>4, <2>1, QueueShifts DEF ReceivePrepare
<1>5. ASSUME NEW u \in Uploads, ReceiveFile(u) PROVE OneEnd(s)'
  BY <1>1, <1>2, <1>5, QueueShifts DEF ReceiveFile
<1>6. ASSUME NEW k \in Notices, NEW t \in Requests, ReceiveNotice(k, t) PROVE OneEnd(s)'
  <2>1. CASE t = s /\ k \in {"finished", "cancelled"}
    <3>1. 1 \in QueuedEnds(s)
      BY <1>0, <1>6, <2>1, EndingOf DEF ReceiveNotice, QueuedEnds, ChannelType
    <3>2. /\ QueuedEnds(s) = {1} /\ Replacing(s) = {} /\ Ending(s) = {} /\ slot # s
          /\ Cancelling(s) = {} /\ KnownEnds(s) = {} /\ pc[s] = "opened"
      BY <3>1, OneEndOf
    <3>3. QueuedEnds(s)' = {}
      <4>1. QueuedEnds(s)' = {i \in 1..Len(events) - 1 : i + 1 \in QueuedEnds(s)}
        BY <1>0, <1>6, QueueMoves DEF ReceiveNotice
      <4>2. QED
        BY <3>2, <4>1
    <3>4. KnownEnds(s)' \subseteq {k}
      BY <1>0, <1>6, <2>1, <3>2 DEF ReceiveNotice, KnownEnds
    <3>5. OnlyAt(s, 5, k)'
      BY <1>2, <3>2, <3>3, <3>4, OnlyAtOf
    <3>6. slot' # s
      BY <3>2, OpenedOnce
    <3>7. QED
      BY <3>2, <3>5, <3>6, Settled
  <2>2. CASE t # s \/ k \notin {"finished", "cancelled"}
    <3>1. KnownEnds(s)' = KnownEnds(s)
      BY <1>0, <1>6, <2>2 DEF ReceiveNotice, KnownEnds
    <3>2. QED
      BY <1>1, <1>6, <3>1, QueueShifts DEF ReceiveNotice
  <2>3. QED
    BY <2>1, <2>2
<1>7. ASSUME NEW t \in Requests, CancelSession(t) PROVE OneEnd(s)'
  <2>1. QueuedEnds(s)' = QueuedEnds(s)
    BY <1>0, <1>7, QueueMoves DEF CancelSession, chanVars
  <2>2. CASE t = s
    <3>1. slot = s /\ slot' # s /\ pc[s] = "opened"
      BY <1>7, <2>2, ServerAssumption DEF CancelSession, VacateSlot, IInv, SessionOpened
    <3>2. /\ QueuedEnds(s) = {} /\ Replacing(s) = {} /\ Ending(s) = {}
          /\ Cancelling(s) = {} /\ KnownEnds(s) = {}
      BY <3>1, OneEndOf
    <3>3. KnownEnds(s)' \subseteq {"cancelled"}
      BY <1>0, <1>7, <2>2, <3>2 DEF CancelSession, KnownEnds
    <3>4. OnlyAt(s, 5, "cancelled")'
      BY <1>2, <2>1, <3>2, <3>3, OnlyAtOf
    <3>5. QED
      BY <3>1, <3>4, Settled
  <2>3. CASE t # s
    <3>1. KnownEnds(s)' = KnownEnds(s)
      BY <1>0, <1>7, <2>3 DEF CancelSession, KnownEnds
    <3>2. QED
      BY <1>2, <2>1, <3>1, NotSpread
  <2>4. QED
    BY <2>2, <2>3
<1>8. CASE LeaveServer
  <2>1. QueuedEnds(s)' = {} /\ UNCHANGED heard
    BY <1>0, <1>8, QueueMoves DEF LeaveServer
  <2>2. QED
    BY <1>2, <2>1, NotSpread
<1>9. ASSUME \/ \E r \in Requests : TurnDown(r) \/ \E ids \in SUBSET Files : Accept(r, ids)
             \/ \E u \in Uploads : AnswerUpload(u)
      PROVE  OneEnd(s)'
  BY <1>3, <1>9 DEF TurnDown, Accept, AnswerUpload, chanVars
<1>10. QED
  BY <1>4, <1>5, <1>6, <1>7, <1>8, <1>9 DEF AppStep

LEMMA EndStep == IInv /\ EndIsOnePlace /\ [Next]_vars => EndIsOnePlace'
<1> SUFFICES ASSUME IInv, EndIsOnePlace, [Next]_vars, NEW s \in Requests PROVE OneEnd(s)'
  BY DEF EndIsOnePlace
<1>1. OneEnd(s)
  BY DEF EndIsOnePlace
<1>2. ASSUME UNCHANGED <<chanVars, reqVars, upVars, canVars, appVars>> PROVE OneEnd(s)'
  <2>1. UNCHANGED <<events, pc, replaced, upc, job, cpc, cjob, heard>>
    BY <1>2 DEF chanVars, reqVars, upVars, canVars, appVars
  <2>2. QED
    BY <1>1, <2>1, QueueMoves, OtherPlaces, NotSpread DEF IInv, TypeOK
<1>3. FallQuiet \/ UNCHANGED vars => UNCHANGED <<chanVars, reqVars, upVars, canVars, appVars>>
  BY DEF FallQuiet, vars
<1>4. QED
  BY <1>1, <1>2, <1>3, EndPrepareStep, EndUploadStep, EndCancelStep, EndAppStep DEF Next

LEMMA EndInit == Init => EndIsOnePlace
  BY DEF Init, EndIsOnePlace, OneEnd, EndPlaces, QueuedEnds, Replacing, Ending, Cancelling, KnownEnds

\* The end of a session is told at most once, and only after the session has
\* left the slot, whichever of its last upload, a cancel of either side and a
\* request that replaces it empties the slot (v2.rs).
THEOREM EndToldOnce == Spec => []ToldOnce
<1>1. EndIsOnePlace => ToldOnce
  BY EndingsCount DEF EndIsOnePlace, ToldOnce
<1>2. QED
  BY <1>1, EndInit, EndStep, Invariance, PTL DEF Spec

-----------------------------------------------------------------------------
(* The end of a replaced session is told before its replacement.           *)

LEMMA PrepareOf ==
  /\ \A k, r, q : Notice(k, q) = Notice("prepare", r) <=> k = "prepare" /\ q = r
  /\ \A u, r : FileUpload(u) # Notice("prepare", r)
<1>1. \A k, r : Notice(k, r).kind = k /\ Notice(k, r).session = r
  BY DEF Notice
<1>2. \A u : FileUpload(u).kind = "file"
  BY DEF FileUpload
<1>3. QED
  BY <1>1, <1>2

\* What the order of r depends on, apart from the channel, is untouched, or r
\* is past its announcement.
Calm(r) ==
  /\ pc'[r] = pc[r] \/ pc'[r] \notin {"idle", "notifying", "announcing"}
  /\ replaced'[r] = replaced[r]
  /\ replaced[r] # "none" /\ "cancelled" \in heard[replaced[r]] => "cancelled" \in heard'[replaced[r]]
  /\ open' => open

LEMMA FirstStays ==
  ASSUME ChannelType, NEW r \in Requests, EndFirst(r), Calm(r), NEW e \in Event,
         e # Notice("prepare", r), "prepare" \in heard'[r] => "prepare" \in heard[r],
         \/ UNCHANGED events
         \/ events' = Append(events, e)
         \/ events' = <<>> /\ ~open'
  PROVE  EndFirst(r)'
<1> DEFINE P == Notice("prepare", r)
           End == Notice("cancelled", replaced[r])
<1>1. /\ P' = P /\ End' = End
  BY DEF Calm, Notice
<1>2. CASE events' = <<>> /\ ~open'
  BY <1>2 DEF EndFirst, Calm, Unasked
<1>3. CASE \/ UNCHANGED events
           \/ events' = Append(events, e)
  <2>0. /\ DOMAIN events \subseteq Nat /\ DOMAIN events' \subseteq Nat
        /\ Len(events) \in Nat /\ Len(events') \in Nat /\ Len(events) <= Len(events')
    BY <1>3 DEF ChannelType
  <2>1. /\ \A i \in DOMAIN events : i \in DOMAIN events' /\ events'[i] = events[i]
        /\ \A i \in DOMAIN events' : i \in DOMAIN events \/ events'[i] # P
    BY <1>3 DEF ChannelType
  <2> HIDE DEF P, End
  <2>2. ASSUME NEW n \in Nat, NEW m \in Nat, n <= m, EndAhead(r, n), replaced[r] # "none"
        PROVE  \/ "cancelled" \in heard'[replaced'[r]]
               \/ \E j \in DOMAIN events' : j < m /\ events'[j] = End
    <3>1. CASE "cancelled" \in heard[replaced[r]]
      BY <2>2, <3>1 DEF Calm
    <3>2. ASSUME NEW j \in DOMAIN events, j < n, events[j] = End
          PROVE  j \in DOMAIN events' /\ j < m /\ events'[j] = End
      <4>1. j \in Nat /\ j < m
        BY <2>0, <2>2, <3>2
      <4>2. j \in DOMAIN events' /\ events'[j] = End
        BY <2>1, <3>2
      <4>3. QED
        BY <4>1, <4>2
    <3>3. QED
      BY <2>2, <3>1, <3>2 DEF EndAhead, End
  <2>3. pc'[r] = "idle" => replaced'[r] = "none"
    BY DEF EndFirst, Calm
  <2>4. pc'[r] \in {"idle", "notifying", "announcing"} => Unasked(r)'
    <3>1. Unasked(r) => Unasked(r)'
      BY <1>1, <2>1 DEF Unasked, P, Calm
    <3>2. QED
      BY <3>1 DEF EndFirst, Calm
  <2>5. ASSUME replaced'[r] # "none", pc'[r] = "announcing", open' PROVE EndAhead(r, Len(events) + 1)'
    <3>1. EndAhead(r, Len(events) + 1) /\ replaced[r] # "none"
      BY <2>5 DEF EndFirst, Calm
    <3>2. \/ "cancelled" \in heard'[replaced'[r]]
          \/ \E j \in DOMAIN events' : j < Len(events') + 1 /\ events'[j] = End
      <4>1. PICK n \in Nat, m \in Nat : n = Len(events) + 1 /\ m = Len(events') + 1 /\ n <= m
        BY <2>0
      <4>2. EndAhead(r, n)
        BY <3>1, <4>1
      <4>3. QED
        BY <2>2, <3>1, <4>1, <4>2
    <3>3. QED
      BY <1>1, <3>2 DEF EndAhead, End
  <2>6. ASSUME replaced'[r] # "none", NEW i \in DOMAIN events', events'[i] = P PROVE EndAhead(r, i)'
    <3>1. i \in Nat /\ i \in DOMAIN events /\ events[i] = P
      BY <2>0, <2>1, <2>6
    <3>2. EndAhead(r, i) /\ replaced[r] # "none"
      BY <2>6, <3>1 DEF EndFirst, Calm, P
    <3>3. \/ "cancelled" \in heard'[replaced'[r]]
          \/ \E j \in DOMAIN events' : j < i /\ events'[j] = End
      BY <2>2, <3>1, <3>2
    <3>4. QED
      BY <1>1, <3>3 DEF EndAhead, End
  <2>7. replaced'[r] # "none" /\ "prepare" \in heard'[r] => "cancelled" \in heard'[replaced'[r]]
    BY DEF EndFirst, Calm
  <2>8. QED
    BY <1>1, <2>3, <2>4, <2>5, <2>6, <2>7 DEF EndFirst, P
<1>4. QED
  BY <1>2, <1>3

LEMMA FirstShifts ==
  ASSUME ChannelType, NEW r \in Requests, EndFirst(r), Calm(r), pc'[r] = pc[r],
         events # <<>>, events' = Tail(events),
         "prepare" \in heard'[r] => "prepare" \in heard[r] \/ Head(events) = Notice("prepare", r),
         replaced[r] # "none" /\ Head(events) = Notice("cancelled", replaced[r])
           => "cancelled" \in heard'[replaced[r]]
  PROVE  EndFirst(r)'
<1> DEFINE P == Notice("prepare", r)
           End == Notice("cancelled", replaced[r])
<1>1. /\ P' = P /\ End' = End
  BY DEF Calm, Notice
<1>2. /\ Len(events) \in Nat /\ Len(events') = Len(events) - 1
      /\ DOMAIN events = 1..Len(events) /\ DOMAIN events' = 1..Len(events')
      /\ \A i \in DOMAIN events' : i + 1 \in DOMAIN events /\ events'[i] = events[i + 1]
      /\ 1 \in DOMAIN events /\ Head(events) = events[1]
  BY DEF ChannelType
<1>3. ASSUME NEW n \in Nat, EndAhead(r, n + 1), replaced[r] # "none"
      PROVE  \/ "cancelled" \in heard'[replaced'[r]]
             \/ \E j \in DOMAIN events' : j < n /\ events'[j] = End
  <2>1. CASE "cancelled" \in heard[replaced[r]]
    BY <1>3, <2>1 DEF Calm
  <2>2. ASSUME NEW j \in DOMAIN events, j < n + 1, events[j] = End
        PROVE  \/ "cancelled" \in heard'[replaced'[r]]
               \/ \E i \in DOMAIN events' : i < n /\ events'[i] = End
    <3>1. CASE j = 1
      BY <1>2, <1>3, <2>2, <3>1 DEF Calm
    <3>2. CASE j # 1
      <4>1. j - 1 \in DOMAIN events' /\ j - 1 < n /\ (j - 1) + 1 = j
        BY <1>2, <2>2, <3>2
      <4>2. events'[j - 1] = End
        BY <1>2, <2>2, <4>1
      <4>3. QED
        BY <4>1, <4>2
    <3>3. QED
      BY <3>1, <3>2
  <2>3. QED
    BY <1>3, <2>1, <2>2 DEF EndAhead
<1>4. pc'[r] = "idle" => replaced'[r] = "none"
  BY DEF EndFirst, Calm
<1>5. pc'[r] \in {"idle", "notifying", "announcing"} => Unasked(r)'
  <2>1. Unasked(r) => Unasked(r)'
    BY <1>1, <1>2 DEF Unasked
  <2>2. QED
    BY <2>1 DEF EndFirst
<1>6. ASSUME replaced'[r] # "none", pc'[r] = "announcing", open' PROVE EndAhead(r, Len(events) + 1)'
  <2>1. EndAhead(r, Len(events) + 1) /\ replaced[r] # "none"
    BY <1>6 DEF EndFirst, Calm
  <2>2. \/ "cancelled" \in heard'[replaced'[r]]
        \/ \E j \in DOMAIN events' : j < Len(events) /\ events'[j] = End
    BY <1>2, <1>3, <2>1
  <2>3. QED
    BY <1>1, <1>2, <2>2 DEF EndAhead
<1>7. ASSUME replaced'[r] # "none", NEW i \in DOMAIN events', events'[i] = P PROVE EndAhead(r, i)'
  <2>1. i \in Nat /\ EndAhead(r, i + 1) /\ replaced[r] # "none"
    BY <1>2, <1>7 DEF EndFirst, Calm
  <2>2. \/ "cancelled" \in heard'[replaced'[r]]
        \/ \E j \in DOMAIN events' : j < i /\ events'[j] = End
    BY <1>3, <2>1
  <2>3. QED
    BY <1>1, <2>2 DEF EndAhead
<1>8. ASSUME replaced'[r] # "none", "prepare" \in heard'[r] PROVE "cancelled" \in heard'[replaced'[r]]
  <2>1. replaced[r] # "none" /\ replaced'[r] = replaced[r]
    BY <1>8 DEF Calm
  <2>2. CASE "prepare" \in heard[r]
    BY <2>1, <2>2 DEF EndFirst, Calm
  <2>3. CASE Head(events) = P
    <3>1. EndAhead(r, 1)
      BY <1>2, <2>1, <2>3 DEF EndFirst
    <3>2. "cancelled" \in heard[replaced[r]]
      BY <1>2, <3>1 DEF EndAhead
    <3>3. QED
      BY <2>1, <3>2 DEF Calm
  <2>4. QED
    BY <1>8, <2>2, <2>3
<1>9. QED
  BY <1>1, <1>4, <1>5, <1>6, <1>7, <1>8 DEF EndFirst

LEMMA FirstPrepareStep ==
  ASSUME IInv, NEW r \in Requests, EndFirst(r), PrepareStep(r)
  PROVE  EndFirst(r)'
<1>0. /\ ChannelType /\ pc \in [Requests -> RequestPhase]
      /\ replaced \in [Requests -> Requests \cup {"none"}]
      /\ Notice("aborted", r) \in Event /\ Notice("aborted", r) # Notice("prepare", r)
  BY EventType, PrepareOf DEF IInv, TypeOK, RequestType, Notices
<1>1. UNCHANGED <<heard, open>>
  BY DEF PrepareStep, Claim, Refuse, NotifyReplaced, Announce, TakeDecision, FreeSlot,
         OpenSession, HangUp, Cleanup, TellAborted, appVars, chanVars
<1>2. CASE Claim(r)
  <2>1. replaced[r] = "none" /\ Unasked(r) /\ UNCHANGED events
    BY <1>2 DEF Claim, EndFirst, chanVars
  <2>2. Unasked(r)'
    BY <1>1, <2>1 DEF Unasked, Notice
  <2>3. /\ pc'[r] \in {"announcing", "notifying"}
        /\ pc'[r] = "announcing" => replaced'[r] = "none"
    BY <1>0, <1>2, <2>1 DEF Claim
  <2>4. \A i \in DOMAIN events' : events'[i] # Notice("prepare", r)'
    BY <2>2 DEF Unasked
  <2>5. "prepare" \notin heard'[r]
    BY <2>2 DEF Unasked
  <2>6. QED
    BY <2>2, <2>3, <2>4, <2>5 DEF EndFirst
<1>3. CASE NotifyReplaced(r)
  <2>1. /\ pc[r] = "notifying" /\ pc'[r] = "announcing" /\ UNCHANGED replaced /\ Unasked(r)
        /\ open => events' = Append(events, Notice("cancelled", replaced[r]))
        /\ ~open => UNCHANGED events
    BY <1>0, <1>3 DEF NotifyReplaced, Tell, HasRoom, EndFirst
  <2>2. Notice("cancelled", replaced[r]) \in Event
    BY <2>1, EventType DEF IInv, Bindings, Notices
  <2>3. Notice("cancelled", replaced[r])' = Notice("cancelled", replaced[r])
    BY <2>1 DEF Notice
  <2>4. Unasked(r)'
    <3>1. \A i \in DOMAIN events' : \/ i \in DOMAIN events /\ events'[i] = events[i]
                                    \/ events'[i] = Notice("cancelled", replaced[r])
      BY <1>0, <2>1, <2>2 DEF ChannelType
    <3>2. \A i \in DOMAIN events' : events'[i] # Notice("prepare", r)
      BY <2>1, <3>1, PrepareOf DEF Unasked
    <3>3. Notice("prepare", r)' = Notice("prepare", r)
      BY DEF Notice
    <3>4. QED
      BY <1>1, <2>1, <3>2, <3>3 DEF Unasked
  <2>5. open' => EndAhead(r, Len(events) + 1)'
    <3>1. SUFFICES ASSUME open PROVE EndAhead(r, Len(events) + 1)'
      BY <1>1
    <3>2. /\ Len(events') \in DOMAIN events' /\ Len(events') < Len(events') + 1
          /\ events'[Len(events')] = Notice("cancelled", replaced[r])
      BY <1>0, <2>1, <2>2, <3>1 DEF ChannelType
    <3>3. QED
      BY <2>3, <3>2 DEF EndAhead
  <2>6. QED
    BY <2>1, <2>4, <2>5 DEF EndFirst, Unasked
<1>4. CASE Announce(r) /\ open
  <2>1. /\ pc[r] = "announcing" /\ pc'[r] = "deciding" /\ UNCHANGED replaced /\ Unasked(r)
        /\ events' = Append(events, Notice("prepare", r))
        /\ replaced[r] # "none" => EndAhead(r, Len(events) + 1)
    BY <1>0, <1>4 DEF Announce, EndFirst
  <2>2. Notice("prepare", r) \in Event
    BY EventType
  <2>3. /\ Notice("prepare", r)' = Notice("prepare", r)
        /\ Notice("cancelled", replaced[r])' = Notice("cancelled", replaced[r])
    BY <2>1 DEF Notice
  <2>4. /\ \A i \in DOMAIN events : i \in DOMAIN events' /\ events'[i] = events[i]
        /\ \A i \in DOMAIN events' : i = Len(events) + 1 \/ (i \in DOMAIN events /\ events'[i] = events[i])
    BY <1>0, <2>1, <2>2 DEF ChannelType
  <2>5. ASSUME replaced[r] # "none", NEW i \in DOMAIN events', events'[i] = Notice("prepare", r)
        PROVE  EndAhead(r, i)'
    <3>1. i = Len(events) + 1
      BY <2>1, <2>4, <2>5 DEF Unasked
    <3>2. EndAhead(r, i)
      BY <2>1, <2>5, <3>1
    <3>3. QED
      BY <1>1, <2>1, <2>3, <2>4, <3>2 DEF EndAhead
  <2>6. "prepare" \notin heard'[r]
    BY <1>1, <2>1 DEF Unasked
  <2>7. QED
    BY <2>1, <2>3, <2>5, <2>6 DEF EndFirst
<1>5. CASE \/ Announce(r) /\ ~open
           \/ Refuse(r) \/ TakeDecision(r) \/ FreeSlot(r) \/ OpenSession(r) \/ HangUp(r)
           \/ Cleanup(r) \/ TellAborted(r)
  <2>1. /\ \E a \in RequestPhase \ {"idle", "notifying", "announcing"} : pc' = [pc EXCEPT ![r] = a]
        /\ UNCHANGED replaced
    BY <1>5 DEF Announce, HasRoom, Refuse, TakeDecision, FreeSlot, OpenSession, HangUp, Cleanup,
                TellAborted, RequestPhase, Claiming, Guarded
  <2>2. UNCHANGED events \/ events' = Append(events, Notice("aborted", r))
    BY <1>5 DEF Announce, HasRoom, Refuse, TakeDecision, FreeSlot, OpenSession, HangUp, Cleanup,
                TellAborted, Tell, chanVars
  <2>3. Calm(r)
    BY <1>0, <1>1, <2>1 DEF Calm
  <2>4. QED
    BY <1>0, <1>1, <2>2, <2>3, FirstStays
<1>6. QED
  BY <1>2, <1>3, <1>4, <1>5 DEF PrepareStep

LEMMA FirstStep == IInv /\ EndGoesFirst /\ [Next]_vars => EndGoesFirst'
<1> SUFFICES ASSUME IInv, EndGoesFirst, [Next]_vars, NEW r \in Requests PROVE EndFirst(r)'
  BY DEF EndGoesFirst
<1>0. /\ ChannelType /\ EndFirst(r)
      /\ heard \in [Requests -> SUBSET (Notices \cup {"prepare"})]
      /\ replaced[r] \in Requests \cup {"none"}
      /\ Notice("aborted", r) \in Event /\ Notice("aborted", r) # Notice("prepare", r)
  BY EventType, PrepareOf DEF EndGoesFirst, IInv, TypeOK, AppType, RequestType, Notices
<1>1. ASSUME UNCHANGED <<pc, replaced, open, heard>>, NEW e \in Event, e # Notice("prepare", r),
             UNCHANGED events \/ events' = Append(events, e)
      PROVE  EndFirst(r)'
  BY <1>0, <1>1, FirstStays DEF Calm
<1>2. ASSUME UNCHANGED <<pc, replaced, open, heard, events>> PROVE EndFirst(r)'
  BY <1>0, <1>1, <1>2
<1>3. ASSUME NEW q \in Requests, q # r, PrepareStep(q) PROVE EndFirst(r)'
  <2>1. /\ UNCHANGED <<open, heard>> /\ pc'[r] = pc[r] /\ replaced'[r] = replaced[r]
    BY <1>3 DEF PrepareStep, Claim, Refuse, NotifyReplaced, Announce, TakeDecision, FreeSlot,
         OpenSession, HangUp, Cleanup, TellAborted, appVars, chanVars, IInv, TypeOK, RequestType
  <2>2. Calm(r)
    BY <2>1 DEF Calm
  <2>3. \/ UNCHANGED events
        \/ pc[q] = "notifying" /\ events' = Append(events, Notice("cancelled", replaced[q]))
        \/ \E k \in {"prepare", "aborted"} : events' = Append(events, Notice(k, q))
    BY <1>3 DEF PrepareStep, Claim, Refuse, NotifyReplaced, Announce, TakeDecision, FreeSlot,
         OpenSession, HangUp, Cleanup, TellAborted, chanVars, Tell
  <2>4. CASE UNCHANGED events
    BY <1>0, <2>1, <2>2, <2>4, FirstStays
  <2>5. CASE pc[q] = "notifying" /\ events' = Append(events, Notice("cancelled", replaced[q]))
    <3>1. Notice("cancelled", replaced[q]) \in Event /\ Notice("cancelled", replaced[q]) # Notice("prepare", r)
      BY <2>5, EventType, PrepareOf DEF IInv, Bindings, Notices
    <3>2. QED
      BY <1>0, <2>1, <2>2, <2>5, <3>1, FirstStays
  <2>6. ASSUME NEW k \in {"prepare", "aborted"}, events' = Append(events, Notice(k, q)) PROVE EndFirst(r)'
    <3>1. Notice(k, q) \in Event /\ Notice(k, q) # Notice("prepare", r)
      BY <1>3, EventType, PrepareOf DEF Notices
    <3>2. QED
      BY <1>0, <2>1, <2>2, <2>6, <3>1, FirstStays
  <2>7. QED
    BY <2>3, <2>4, <2>5, <2>6
<1>4. ASSUME NEW u \in Uploads, UploadStep(u) PROVE EndFirst(r)'
  <2>1. UNCHANGED <<pc, replaced, open, heard>>
    BY <1>4 DEF UploadStep, StartUpload, RefuseUpload, AnnounceUpload, TakeTarget, SaveBody,
           FinalizeFile, TellFinished, HangUpUpload, reqVars, chanVars, appVars
  <2>2. \/ UNCHANGED events
        \/ events' = Append(events, FileUpload(u))
        \/ upc[u] \in {"ending", "orphan_ending"} /\ events' = Append(events, Notice("finished", job[u].session))
    BY <1>4 DEF UploadStep, StartUpload, RefuseUpload, AnnounceUpload, TakeTarget, SaveBody,
           FinalizeFile, TellFinished, HangUpUpload, chanVars, Tell
  <2>3. CASE events' = Append(events, FileUpload(u))
    <3>1. FileUpload(u) \in Event /\ FileUpload(u) # Notice("prepare", r)
      BY EventType, PrepareOf
    <3>2. QED
      BY <1>1, <2>1, <2>3, <3>1
  <2>4. CASE upc[u] \in {"ending", "orphan_ending"} /\ events' = Append(events, Notice("finished", job[u].session))
    <3>1. /\ Notice("finished", job[u].session) \in Event
          /\ Notice("finished", job[u].session) # Notice("prepare", r)
      BY <2>4, EventType, PrepareOf DEF IInv, Bindings, Notices
    <3>2. QED
      BY <1>1, <2>1, <2>4, <3>1
  <2>5. QED
    BY <1>2, <2>1, <2>2, <2>3, <2>4
<1>5. ASSUME NEW c \in Cancels, CancelStep(c) PROVE EndFirst(r)'
  <2>1. UNCHANGED <<pc, replaced, open, heard>>
    BY <1>5 DEF CancelStep, Cancel, TellCancelled, HangUpCancel, reqVars, chanVars, appVars
  <2>2. \/ UNCHANGED events
        \/ /\ cpc[c] \in {"telling", "forwarding"}
           /\ \E k \in {"cancelled", "foreign_cancel"} : events' = Append(events, Notice(k, cjob[c]))
    BY <1>5 DEF CancelStep, Cancel, TellCancelled, HangUpCancel, chanVars, Tell
  <2>3. ASSUME NEW k \in {"cancelled", "foreign_cancel"}, cpc[c] \in {"telling", "forwarding"},
               events' = Append(events, Notice(k, cjob[c]))
        PROVE  EndFirst(r)'
    <3>1. Notice(k, cjob[c]) \in Event /\ Notice(k, cjob[c]) # Notice("prepare", r)
      BY <2>3, EventType, PrepareOf DEF IInv, Bindings, Notices
    <3>2. QED
      BY <1>1, <2>1, <2>3, <3>1
  <2>4. QED
    BY <1>2, <2>1, <2>2, <2>3
<1>6. CASE AppStep
  <2>1. /\ UNCHANGED <<pc, replaced>> /\ (open' => open)
        /\ \A s \in Requests : heard[s] \subseteq heard'[s]
    BY <1>0, <1>6 DEF AppStep, ReceivePrepare, TurnDown, CancelSession, Accept, ReceiveFile,
           AnswerUpload, ReceiveNotice, LeaveServer, reqVars, chanVars
  <2>2. Calm(r)
    BY <1>0, <2>1 DEF Calm
  <2>3. ASSUME NEW q \in Requests, ReceivePrepare(q) PROVE EndFirst(r)'
    <3>1. /\ events # <<>> /\ events' = Tail(events) /\ Head(events) = Notice("prepare", q)
          /\ "prepare" \in heard'[r] => "prepare" \in heard[r] \/ q = r
      BY <1>0, <2>3 DEF ReceivePrepare
    <3>2. Head(events) # Notice("cancelled", replaced[r])
      BY <3>1, PrepareOf
    <3>3. QED
      BY <1>0, <2>1, <2>2, <3>1, <3>2, FirstShifts
  <2>4. ASSUME NEW u \in Uploads, ReceiveFile(u) PROVE EndFirst(r)'
    <3>1. /\ events # <<>> /\ events' = Tail(events) /\ Head(events) = FileUpload(u)
          /\ UNCHANGED heard
      BY <2>4 DEF ReceiveFile
    <3>2. Head(events) # Notice("cancelled", replaced[r])
      <4>1. Notice("cancelled", replaced[r]).kind = "cancelled" /\ FileUpload(u).kind = "file"
        BY DEF Notice, FileUpload
      <4>2. QED
        BY <3>1, <4>1
    <3>3. QED
      BY <1>0, <2>1, <2>2, <3>1, <3>2, FirstShifts
  <2>5. ASSUME NEW k \in Notices, NEW s \in Requests, ReceiveNotice(k, s) PROVE EndFirst(r)'
    <3>1. /\ events # <<>> /\ events' = Tail(events) /\ Head(events) = Notice(k, s)
          /\ k \in heard'[s] /\ ("prepare" \in heard'[r] => "prepare" \in heard[r])
      BY <1>0, <2>5 DEF ReceiveNotice, Notices
    <3>2. Head(events) = Notice("cancelled", replaced[r]) => k = "cancelled" /\ s = replaced[r]
      BY <3>1 DEF Notice
    <3>3. QED
      BY <1>0, <2>1, <2>2, <3>1, <3>2, FirstShifts
  <2>6. ASSUME NEW s \in Requests, CancelSession(s) PROVE EndFirst(r)'
    <3>1. UNCHANGED events /\ ("prepare" \in heard'[r] => "prepare" \in heard[r])
      BY <1>0, <2>6 DEF CancelSession, chanVars
    <3>2. QED
      BY <1>0, <2>2, <3>1, FirstStays
  <2>7. CASE LeaveServer
    <3>1. events' = <<>> /\ ~open' /\ UNCHANGED heard
      BY <2>7 DEF LeaveServer
    <3>2. QED
      BY <1>0, <2>2, <3>1, FirstStays
  <2>8. ASSUME \/ \E q \in Requests : TurnDown(q) \/ \E ids \in SUBSET Files : Accept(q, ids)
               \/ \E u \in Uploads : AnswerUpload(u)
        PROVE  EndFirst(r)'
    <3>1. UNCHANGED <<pc, replaced, open, heard, events>>
      BY <2>1, <2>8 DEF TurnDown, Accept, AnswerUpload, chanVars
    <3>2. QED
      BY <1>2, <3>1
  <2>9. QED
    BY <1>6, <2>3, <2>4, <2>5, <2>6, <2>7, <2>8 DEF AppStep
<1>7. CASE FallQuiet \/ UNCHANGED vars
  <2>1. UNCHANGED <<pc, replaced, open, heard, events>>
    BY <1>7 DEF FallQuiet, vars, reqVars, chanVars, appVars
  <2>2. QED
    BY <1>2, <2>1
<1>8. QED
  BY <1>0, <1>3, <1>4, <1>5, <1>6, <1>7, FirstPrepareStep DEF Next

LEMMA FirstInit == Init => EndGoesFirst
  BY DEF Init, EndGoesFirst, EndFirst, Unasked

\* The application hears that an abandoned session is over before it is asked
\* about the request that replaced it (v2.rs:295-307).
THEOREM ReplacedToldFirst == Spec => []ReplacedIsToldFirst
<1>1. EndGoesFirst => ReplacedIsToldFirst
  BY DEF EndGoesFirst, EndFirst, ReplacedIsToldFirst
<1>2. QED
  BY <1>1, FirstInit, FirstStep, Invariance, PTL DEF Spec

-----------------------------------------------------------------------------
(* The slot implements SessionSlot.                                        *)

LEMMA RefinesInit == Init => Abstract!Init
  BY ServerAssumption DEF Init, Abstract!Init, life

\* A step that moves neither a phase nor the slot stutters in the abstract
\* slot.
LEMMA Stutter ==
  ASSUME UNCHANGED <<pc, slot>>
  PROVE  UNCHANGED life
  BY DEF life, Holding

LEMMA LifeOf ==
  ASSUME IInv, NEW r \in Requests
  PROVE  /\ life[r] = "new" <=> pc[r] = "idle"
         /\ life[r] = "reserved" <=> Holding(r)
         /\ life[r] = "open" <=> slot = r
         /\ life[r] = "closed" <=> pc[r] # "idle" /\ ~Holding(r) /\ slot # r
  BY DEF life, IInv, SessionOpened, Holding, Claiming, Guarded

LEMMA RefinesStep == IInv /\ IInv' /\ [Next]_vars => [Abstract!Next]_life
<1> SUFFICES ASSUME IInv, IInv', [Next]_vars PROVE [Abstract!Next]_life
  OBVIOUS
<1> USE ServerAssumption DEF IInv, TypeOK, RequestType
<1>0. DOMAIN life = Requests /\ DOMAIN life' = Requests
  BY DEF life
<1>1. ASSUME NEW r \in Requests, PrepareStep(r) PROVE [Abstract!Next]_life
  <2>1. CASE Claim(r)
    <3>1. /\ pc' = [pc EXCEPT ![r] = pc'[r]] /\ pc'[r] \in Claiming
          /\ pc[r] = "idle" /\ slot # "pending" /\ slot' = "pending"
      BY <2>1 DEF Claim, Abandoned, Claiming, Guarded
    <3>2. \A q \in Requests : life[q] # "reserved"
      BY <3>1, LifeOf DEF OneHolder
    <3>3. life[r] = "new"
      BY <3>1, LifeOf
    <3>4. ASSUME NEW q \in Requests
          PROVE  life'[q] = IF q = r THEN "reserved" ELSE IF life[q] = "open" THEN "closed" ELSE life[q]
      BY <3>1, <3>2 DEF life, Holding, Claiming, Guarded, SessionOpened
    <3>5. life' = [q \in Requests |->
                     IF q = r THEN "reserved" ELSE IF life[q] = "open" THEN "closed" ELSE life[q]]
      BY <3>4 DEF life
    <3>6. QED
      BY <3>2, <3>3, <3>5 DEF Abstract!Next, Abstract!Reserve
  <2>2. CASE Refuse(r)
    <3>1. life[r] = "new" /\ life' = [life EXCEPT ![r] = "closed"]
      <4>1. pc' = [pc EXCEPT ![r] = pc'[r]] /\ pc[r] = "idle" /\ pc'[r] = "closed" /\ slot' = slot
        BY <2>2 DEF Refuse, slotVars
      <4>2. ASSUME NEW q \in Requests PROVE life'[q] = IF q = r THEN "closed" ELSE life[q]
        BY <4>1, LifeOf DEF life, Holding, Claiming, Guarded, SessionOpened
      <4> QED
        BY <4>1, <4>2, LifeOf DEF life
    <3>2. \E t \in Requests : life[t] \in {"reserved", "open"}
      BY <2>2, LifeOf DEF Refuse, SlotType, OneHolder
    <3>3. QED
      BY <3>1, <3>2 DEF Abstract!Next, Abstract!Refuse
  <2>3. CASE NotifyReplaced(r) \/ Announce(r) \/ TakeDecision(r) \/ HangUp(r)
    BY <2>3 DEF NotifyReplaced, Announce, TakeDecision, HangUp, slotVars, life, Holding, Claiming, Guarded
  <2>4. CASE FreeSlot(r) \/ Cleanup(r)
    <3>1. /\ Holding(r) /\ slot = "pending" /\ slot' = "free"
          /\ pc' = [pc EXCEPT ![r] = pc'[r]] /\ pc'[r] \in {"closed", "aborting"}
      BY <2>4 DEF FreeSlot, Cleanup, ClearPending, VacateSlot, OneHolder, Holding, Claiming
    <3>2. life[r] = "reserved" /\ \A q \in Requests : slot # q /\ slot' # q
      BY <3>1, LifeOf DEF SlotType
    <3>3. ASSUME NEW q \in Requests
          PROVE  life'[q] = IF q = r THEN "closed" ELSE life[q]
      BY <3>1, <3>2 DEF life, Holding, Claiming, Guarded
    <3>4. life' = [life EXCEPT ![r] = "closed"]
      BY <3>3 DEF life
    <3>5. QED
      BY <3>2, <3>4 DEF Abstract!Next, Abstract!Close
  <2>5. CASE OpenSession(r)
    <3>1. /\ Holding(r) /\ slot = "pending" /\ slot' = r
          /\ pc' = [pc EXCEPT ![r] = "opened"]
      BY <2>5 DEF OpenSession, OneHolder, Holding, Claiming, Guarded
    <3>2. life[r] = "reserved" /\ life' = [life EXCEPT ![r] = "open"]
      BY <3>1, LifeOf DEF life, Holding, Claiming, Guarded
    <3>3. QED
      BY <3>2 DEF Abstract!Next, Abstract!Open
  <2>6. CASE TellAborted(r)
    BY <2>6 DEF TellAborted, slotVars, life, Holding, Claiming, Guarded
  <2>7. QED
    BY <1>1, <2>1, <2>2, <2>3, <2>4, <2>5, <2>6 DEF PrepareStep
<1>2. CASE \A r \in Requests : ~PrepareStep(r)
  <2>1. UNCHANGED pc
    BY <1>2, OutsidePrepare
  <2>2. CASE UNCHANGED slot
    BY <2>1, <2>2, Stutter
  <2>3. CASE slot \in Requests /\ slot' = "free"
    <3>1. life' = [life EXCEPT ![slot] = "closed"]
      BY <2>1, <2>3, LifeOf DEF life, Holding, SessionOpened, Claiming, Guarded
    <3>2. Abstract!Close(slot)
      BY <2>3, <3>1, LifeOf DEF Abstract!Close
    <3>3. QED
      BY <2>3, <3>2 DEF Abstract!Next
  <2>4. QED
    BY <1>2, <2>2, <2>3, OutsidePrepare
<1>3. QED
  BY <1>1, <1>2

\* Behind all handlers, guards and clean-up tasks the slot behaves like the
\* abstract one: sessions are reserved, opened and closed once each, one at a
\* time.
THEOREM SlotRefinement == Spec => SlotSpec
<1>1. QED
  BY RefinesInit, RefinesStep, Invariance, PTL DEF Spec, SlotSpec, Abstract!Spec
=============================================================================
