---------------------------- MODULE SendingProofs ----------------------------
(***************************************************************************)
(* What is proved about sending over HTTP, first about the session of the  *)
(* sender, then about the content of one of its files.  The two models     *)
(* share no symbol.                                                        *)
(*                                                                         *)
(* For every set of files and any number of retries: a file is shown as    *)
(* sent only if the receiver has it, and a cancelled task begins nothing.  *)
(* The word "finished" travels from the receiver's server over the answer  *)
(* of a request and the queue of events to the session; the invariant says *)
(* that it is true wherever it is met, and that no later upload takes it   *)
(* back: a file is taken by one upload at most, because tasks are distinct *)
(* and an upload is taken only while its file is pending.                  *)
(*                                                                         *)
(* For every size and every capacity of the channels: a sender is told     *)
(* "sent" only of a file that was saved completely, and the reason of a    *)
(* failure reaches it.  The properties relate the two ends, the sender's   *)
(* result and the application's; the invariant that carries them follows   *)
(* the verdict on its way: the writer is done exactly when it reported, a  *)
(* good report means that the channel was closed and empty and the size    *)
(* right, and the handler holds its end of the channel while the body      *)
(* comes in.                                                               *)
(***************************************************************************)
EXTENDS SendSession, SaveUpload, FiniteSetTheorems, SequenceTheorems, TLAPS

-----------------------------------------------------------------------------
(* The session: SendSession                                                *)

\* Before the transfer starts nothing was reported, and an acceptance names files.
Beginning ==
    /\ session = "none" => asking = "no"
    /\ nextTask = 1 => events = <<>> /\ \A f \in Files : files[f] = "queue"
    /\ asking # "over" => nextTask = 1
    /\ asking = "accepted" => Accepted # {}

\* A task in the queue of the upload isolate is announced there once and has not
\* begun; a token that was cancelled is not in the map any more.
TasksInOrder ==
    /\ \A t \in running \cup cancelled : t < nextTask
    /\ tokens \cap cancelled = {}
    /\ \A i \in DOMAIN inbox : inbox[i].kind = "task" =>
          /\ inbox[i].task < nextTask
          /\ inbox[i].task \notin running \cup cancelled
          /\ work[inbox[i].task] # <<>>
          /\ \A j \in DOMAIN inbox :
                inbox[j].kind = "task" /\ inbox[j].task = inbox[i].task => j = i

\* The report of an upload names its file.
Named == \A i \in DOMAIN events : events[i].kind # "done" => events[i].file \in Files

\* A file is taken by one upload only ...
OneTaker ==
    /\ \A t \in running : request[t] = "taken" => received[Head(work[t])] = "inProgress"
    /\ \A t, u \in running :
          request[t] = "taken" /\ request[u] = "taken" /\ Head(work[t]) = Head(work[u]) => t = u

\* ... and whoever says that it was sent is right.
Truthful ==
    /\ receiver = "none" => \A f \in Files : received[f] = "none"
    /\ \A t \in running : request[t] = "saved" => received[Head(work[t])] = "finished"
    /\ \A i \in DOMAIN events :
          events[i].kind = "finished" => received[events[i].file] = "finished"
    /\ \A f \in Files : files[f] = "finished" => received[f] = "finished"

IInv == TypeOK /\ Beginning /\ TasksInOrder /\ Named /\ OneTaker /\ Truthful

Message == [kind : {"task", "cancel"}, task : Tasks]
Event   == [kind : {"sending", "done"} \cup Final, task : Tasks, file : Files \cup {None}]

-----------------------------------------------------------------------------
(* The orders a set of tasks or files can be put into.                     *)

LEMMA OrderOf ==
  ASSUME NEW S, IsFiniteSet(S), NEW order \in SetToSeqs(S)
  PROVE  order \in Seq(S) /\ (S # {} => order # <<>>)
<1>1. Cardinality(S) \in Nat
  BY FS_CardinalityType
<1>2. order \in [1 .. Cardinality(S) -> S]
  BY DEF SetToSeqs
<1>3. S # {} => Cardinality(S) # 0
  BY FS_EmptySet
<1> QED
  BY <1>1, <1>2, <1>3

LEMMA TasksAreFinite ==
  ASSUME NEW S \in SUBSET Tasks
  PROVE  IsFiniteSet(S)
<1>1. IsFiniteSet(Tasks)
  BY SendAssumption, FS_Interval DEF Tasks, SendAssumption
<1> QED
  BY <1>1, FS_Subset

\* Cancelling the tasks of a session announces no task.
LEMMA CancelsOnly ==
  ASSUME TypeOK, CancelRunningRequests
  PROVE  /\ inbox' \in Seq(Message)
         /\ \A i \in DOMAIN inbox : i \in DOMAIN inbox' /\ inbox'[i] = inbox[i]
         /\ \A i \in DOMAIN inbox' : inbox'[i].kind = "task" => i \in DOMAIN inbox
<1>1. PICK order \in SetToSeqs(sendingTasks) :
         inbox' = inbox \o [i \in DOMAIN order |-> [kind |-> "cancel", task |-> order[i]]]
  BY DEF CancelRunningRequests
<1>2. order \in Seq(Tasks)
  <2>1. sendingTasks \in SUBSET Tasks
    BY DEF TypeOK
  <2>2. order \in Seq(sendingTasks)
    BY <2>1, OrderOf, TasksAreFinite
  <2> QED
    BY <2>1, <2>2
<1> DEFINE added == [i \in DOMAIN order |-> [kind |-> "cancel", task |-> order[i]]]
<1>3. added \in Seq(Message) /\ \A i \in DOMAIN added : added[i].kind = "cancel"
  <2>1. DOMAIN order = 1 .. Len(order) /\ Len(order) \in Nat /\ \A i \in DOMAIN order : order[i] \in Tasks
    BY <1>2
  <2>2. added \in [1 .. Len(order) -> Message]
    BY <2>1 DEF Message
  <2>3. \A i \in DOMAIN added : added[i].kind = "cancel"
    OBVIOUS
  <2> QED
    BY <2>1, <2>2, <2>3
<1>4. inbox \in Seq(Message)
  BY DEF TypeOK, Message
<1> HIDE DEF added
<1>5. inbox' = inbox \o added
  BY <1>1 DEF added
<1> QED
  BY <1>3, <1>4, <1>5, ConcatProperties, LenProperties

-----------------------------------------------------------------------------
(* The beginning                                                           *)

LEMMA InitInv == Init => IInv
<1> SUFFICES ASSUME Init PROVE IInv
  OBVIOUS
<1> USE SendAssumption DEF SendAssumption, Init
<1>1. TypeOK
  <2>1. session \in Statuses /\ files \in [Files -> {"queue", "skipped", "sending"} \cup Final]
    BY DEF Statuses
  <2>2. nextTask \in 1 .. MaxRetries + 2 /\ pins \in 0 .. MaxPins
    OBVIOUS
  <2>3. inbox \in Seq([kind : {"task", "cancel"}, task : Tasks])
        /\ events \in Seq([kind : {"sending", "done"} \cup Final, task : Tasks, file : Files \cup {None}])
    OBVIOUS
  <2>4. work \in [Tasks -> Seq(Files)] /\ request \in [Tasks -> {"none", "sent", "taken", "saved", "refused"}]
    OBVIOUS
  <2> QED
    BY <2>1, <2>2, <2>3, <2>4 DEF TypeOK
<1>2. Beginning
  BY DEF Beginning
<1>3. TasksInOrder
  BY DEF TasksInOrder
<1>4. Named /\ OneTaker /\ Truthful
  BY DEF Named, OneTaker, Truthful
<1> QED
  BY <1>1, <1>2, <1>3, <1>4 DEF IInv

-----------------------------------------------------------------------------
(* The first transfer, a retry and the messages of a task                  *)

\* A new task can be named and queued: the first for what was accepted ...
LEMMA FirstTask ==
  ASSUME TypeOK, Beginning, asking = "accepted"
  PROVE  /\ nextTask \in Tasks /\ Accepted # {}
         /\ \A list \in SetToSeqs(Accepted) : list \in Seq(Files) /\ list # <<>>
<1>1. nextTask \in Tasks /\ Accepted # {}
  BY SendAssumption DEF Beginning, Tasks, SendAssumption
<1>2. IsFiniteSet(Accepted)
  BY SendAssumption, FS_Subset DEF Accepted, SendAssumption
<1>3. \A list \in SetToSeqs(Accepted) : list \in Seq(Accepted) /\ list # <<>>
  BY <1>1, <1>2, OrderOf
<1> QED
  BY <1>1, <1>3 DEF Accepted

\* What queueing a task changes.
LEMMA NewTask ==
  ASSUME TypeOK, TasksInOrder, nextTask \in Tasks,
         NEW list \in Seq(Files), list # <<>>, SendFiles(list)
  PROVE  /\ inbox' \in Seq(Message) /\ work' \in [Tasks -> Seq(Files)]
         /\ sendingTasks' \subseteq Tasks
         /\ nextTask' = nextTask + 1 /\ nextTask' \in 1 .. MaxRetries + 2
         /\ nextTask \notin running \cup cancelled
         /\ work'[nextTask] = list /\ \A t \in Tasks : t # nextTask => work'[t] = work[t]
         /\ \A i \in DOMAIN inbox : i \in DOMAIN inbox' /\ inbox'[i] = inbox[i]
         /\ \A i \in DOMAIN inbox' : i \notin DOMAIN inbox =>
               i = Len(inbox) + 1 /\ inbox'[i].task = nextTask
<1> DEFINE m == [kind |-> "task", task |-> nextTask]
<1>1. m \in Message /\ inbox \in Seq(Message)
  BY DEF Message, TypeOK
<1>2. inbox' = Append(inbox, m)
  BY DEF SendFiles
<1>3. /\ inbox' \in Seq(Message)
      /\ \A i \in DOMAIN inbox : i \in DOMAIN inbox' /\ inbox'[i] = inbox[i]
      /\ \A i \in DOMAIN inbox' : i \notin DOMAIN inbox =>
            i = Len(inbox) + 1 /\ inbox'[i].task = nextTask
  <2> HIDE DEF m
  <2>1. inbox' \in Seq(Message) /\ Len(inbox') = Len(inbox) + 1 /\ inbox'[Len(inbox) + 1] = m
        /\ \A i \in DOMAIN inbox : inbox'[i] = inbox[i]
    BY <1>1, <1>2
  <2>2. DOMAIN inbox' = 1 .. Len(inbox') /\ DOMAIN inbox = 1 .. Len(inbox) /\ Len(inbox) \in Nat
    BY <2>1, <1>1
  <2>3. m.task = nextTask
    BY DEF m
  <2> QED
    BY <2>1, <2>2, <2>3
<1>4. /\ work' \in [Tasks -> Seq(Files)] /\ work'[nextTask] = list
      /\ \A t \in Tasks : t # nextTask => work'[t] = work[t]
  BY DEF SendFiles, TypeOK
<1>5. sendingTasks' \subseteq Tasks /\ nextTask' = nextTask + 1 /\ nextTask' \in 1 .. MaxRetries + 2
  BY SendAssumption DEF SendFiles, TypeOK, Tasks, SendAssumption
<1>6. nextTask \notin running \cup cancelled
  BY DEF TasksInOrder, TypeOK, Tasks
<1> QED
  BY <1>3, <1>4, <1>5, <1>6

\* The head of the queue of the upload isolate, and what is left without it.
LEMMA Dequeue ==
  ASSUME TypeOK, inbox # <<>>, inbox' = Tail(inbox)
  PROVE  /\ Head(inbox) \in Message /\ inbox' \in Seq(Message)
         /\ 1 \in DOMAIN inbox /\ inbox[1] = Head(inbox)
         /\ \A i \in DOMAIN inbox' : i + 1 \in DOMAIN inbox /\ inbox'[i] = inbox[i + 1]
                                     /\ i + 1 # 1 /\ i \in Nat
<1>1. inbox \in Seq(Message)
  BY DEF TypeOK, Message
<1>2. DOMAIN Tail(inbox) = 1 .. (Len(inbox) - 1) /\ Len(inbox) \in Nat
  BY <1>1, HeadTailProperties, LenProperties
<1> QED
  BY <1>1, <1>2, HeadTailProperties, LenProperties

LEMMA Messages ==
  ASSUME TypeOK
  PROVE  inbox \in Seq(Message) /\ \A i \in DOMAIN inbox : inbox[i].task \in Tasks
<1>1. inbox \in Seq(Message)
  BY DEF TypeOK, Message
<1>2. \A i \in DOMAIN inbox : inbox[i] \in Message
  BY <1>1
<1> QED
  BY <1>1, <1>2 DEF Message

\* What the end of an upload changes: the report, and the next file of the task.
LEMMA Reported ==
  ASSUME TypeOK, NEW t \in running, NEW outcome \in Final, NextFile(t, outcome)
  PROVE  /\ work' \in [Tasks -> Seq(Files)]
         /\ request' \in [Tasks -> {"none", "sent", "taken", "saved", "refused"}]
         /\ request'[t] \in {"none", "sent"}
         /\ \A u \in Tasks : u # t => work'[u] = work[u] /\ request'[u] = request[u]
         /\ running' \subseteq running /\ tokens' \subseteq tokens /\ tokens' \subseteq running'
         /\ t \in running' => work'[t] # <<>> /\ t \in tokens
         /\ \A u \in running : u # t => u \in running'
         /\ Head(work[t]) \in Files
         /\ events' \in Seq(Event)
         /\ \A i \in DOMAIN events : i \in DOMAIN events' /\ events'[i] = events[i]
         /\ \A i \in DOMAIN events' : i \notin DOMAIN events =>
               /\ events'[i].kind # "done" => events'[i].file \in Files
               /\ events'[i].kind = "finished" =>
                     outcome = "finished" /\ events'[i].file = Head(work[t])
<1> DEFINE report == [kind |-> outcome, task |-> t, file |-> Head(work[t])]
           rest   == Tail(work[t])
           goesOn == rest # <<>> /\ t \in tokens
           next   == IF goesOn THEN [kind |-> "sending", task |-> t, file |-> Head(rest)]
                               ELSE [kind |-> "done", task |-> t, file |-> None]
<1>1. t \in Tasks /\ work[t] \in Seq(Files) /\ work[t] # <<>>
  BY DEF TypeOK
<1>2. Head(work[t]) \in Files /\ rest \in Seq(Files) /\ (goesOn => Head(rest) \in Files)
  BY <1>1
<1>3. /\ work' = [work EXCEPT ![t] = IF goesOn THEN rest ELSE <<>>]
      /\ request' = [request EXCEPT ![t] = IF goesOn THEN "sent" ELSE "none"]
      /\ running' = IF goesOn THEN running ELSE running \ {t}
      /\ tokens' = IF goesOn THEN tokens ELSE tokens \ {t}
  BY DEF NextFile
<1>4. events' = events \o <<report, next>>
  BY DEF NextFile
<1>5. report \in Event /\ next \in Event
  BY <1>1, <1>2 DEF Event, Final
<1>6. /\ report.kind = outcome /\ report.file = Head(work[t])
      /\ next.kind \in {"sending", "done"} /\ (next.kind # "done" => next.file \in Files)
  BY <1>2
<1>7. events \in Seq(Event)
  BY DEF TypeOK, Event
<1>8. /\ events' \in Seq(Event)
      /\ \A i \in DOMAIN events : i \in DOMAIN events' /\ events'[i] = events[i]
      /\ \A i \in DOMAIN events' : i \notin DOMAIN events => events'[i] \in {report, next}
  <2> HIDE DEF report, next
  <2>1. <<report, next>> \in Seq(Event) /\ Len(<<report, next>>) = 2
        /\ <<report, next>>[1] = report /\ <<report, next>>[2] = next
    BY <1>5
  <2> DEFINE both == <<report, next>>
  <2> HIDE DEF both
  <2>2. both \in Seq(Event) /\ Len(both) = 2 /\ both[1] = report /\ both[2] = next
    BY <2>1 DEF both
  <2>3. events' = events \o both
    BY <1>4 DEF both
  <2> QED
    BY <1>7, <2>2, <2>3, ConcatProperties, LenProperties
<1>9. work' \in [Tasks -> Seq(Files)]
  BY <1>1, <1>2, <1>3 DEF TypeOK
<1>10. request' \in [Tasks -> {"none", "sent", "taken", "saved", "refused"}]
       /\ request'[t] \in {"none", "sent"}
  BY <1>1, <1>3 DEF TypeOK
<1>11. \A u \in Tasks : u # t => work'[u] = work[u] /\ request'[u] = request[u]
  BY <1>1, <1>3 DEF TypeOK
<1>12. t \in running' => work'[t] # <<>> /\ t \in tokens
  BY <1>1, <1>2, <1>3 DEF TypeOK
<1>13. running' \subseteq running /\ tokens' \subseteq tokens /\ tokens' \subseteq running'
       /\ \A u \in running : u # t => u \in running'
  BY <1>3 DEF TypeOK
<1>14. \A i \in DOMAIN events' : i \notin DOMAIN events =>
               /\ events'[i].kind # "done" => events'[i].file \in Files
               /\ events'[i].kind = "finished" =>
                     outcome = "finished" /\ events'[i].file = Head(work[t])
  BY <1>2, <1>6, <1>8
<1> HIDE DEF report, next, rest, goesOn
<1> QED
  BY <1>2, <1>8, <1>9, <1>10, <1>11, <1>12, <1>13, <1>14

-----------------------------------------------------------------------------
(* Types                                                                   *)

LEMMA TypeStep == IInv /\ Next => TypeOK'
<1> SUFFICES ASSUME IInv, Next PROVE TypeOK'
  OBVIOUS
<1> USE DEF IInv
<1>a. CASE StartSession \/ PrepareUpload \/ RequestFails \/ NothingSelected
           \/ PinRequired \/ EnterPin \/ DismissPin
  <2> USE SendAssumption DEF SendAssumption, TypeOK, Statuses, Ended, Rejected, Final, Responses,
          sessionVars, taskVars, isolateVars, receiverVars
  <2>1. CASE StartSession
    BY <2>1 DEF StartSession
  <2>2. CASE PrepareUpload
    BY <2>2 DEF PrepareUpload
  <2>3. CASE RequestFails
    BY <2>3 DEF RequestFails
  <2>4. CASE NothingSelected
    BY <2>4 DEF NothingSelected
  <2>5. CASE PinRequired
    BY <2>5 DEF PinRequired
  <2>6. CASE EnterPin
    BY <2>6 DEF EnterPin
  <2>7. CASE DismissPin
    BY <2>7 DEF DismissPin
  <2> QED
    BY <1>a, <2>1, <2>2, <2>3, <2>4, <2>5, <2>6, <2>7
<1>b. CASE StartTransfer
  <2>1. CASE IsOpen
    <3>1. PICK list \in SetToSeqs(Accepted) : SendFiles(list)
      BY <1>b, <2>1 DEF StartTransfer
    <3>2. nextTask \in Tasks /\ list \in Seq(Files) /\ list # <<>>
      BY <1>b, FirstTask DEF StartTransfer
    <3>3. /\ inbox' \in Seq(Message) /\ work' \in [Tasks -> Seq(Files)]
          /\ sendingTasks' \subseteq Tasks /\ nextTask' \in 1 .. MaxRetries + 2
          /\ \A t \in running : work'[t] = work[t]
      BY <3>1, <3>2, NewTask DEF TypeOK
    <3>4. files' \in [Files -> {"queue", "skipped", "sending"} \cup Final]
      BY <1>b, <2>1 DEF StartTransfer
    <3> QED
      BY <1>b, <2>1, <3>3, <3>4
      DEF StartTransfer, TypeOK, Statuses, Message, taskVars, receiverVars
  <2>2. CASE ~IsOpen
    BY <1>b, <2>2 DEF StartTransfer, TypeOK, taskVars, receiverVars
  <2> QED
    BY <2>1, <2>2
<1>c. CASE BeginTask
  <2> DEFINE t == Head(inbox).task
             sending == [kind |-> "sending", task |-> t, file |-> Head(work[t])]
  <2>1. Head(inbox) \in Message /\ inbox' \in Seq(Message) /\ inbox[1] = Head(inbox)
        /\ 1 \in DOMAIN inbox
    BY <1>c, Dequeue DEF BeginTask
  <2>2. t \in Tasks /\ work[t] # <<>>
    BY <1>c, <2>1 DEF BeginTask, TasksInOrder, Message
  <2>3. sending \in Event
    BY <2>2 DEF Event, TypeOK
  <2>4. events' \in Seq(Event)
    BY <1>c, <2>3 DEF BeginTask, TypeOK, Event
  <2>5. /\ running' = running \cup {t} /\ tokens' = tokens \cup {t}
        /\ request' \in [Tasks -> {"none", "sent", "taken", "saved", "refused"}]
    BY <1>c DEF BeginTask, TypeOK
  <2> HIDE DEF t, sending
  <2> QED
    BY <1>c, <2>1, <2>2, <2>4, <2>5
    DEF BeginTask, TypeOK, Message, Event, sessionVars, taskVars, receiverVars
<1>d. CASE HandleCancel
  <2>1. Head(inbox) \in Message /\ inbox' \in Seq(Message)
    BY <1>d, Dequeue DEF HandleCancel
  <2> QED
    BY <1>d, <2>1
    DEF HandleCancel, CancelToken, TypeOK, Message, sessionVars, taskVars, receiverVars
<1>e. CASE \E t \in Tasks : UploadSucceeds(t) \/ UploadFails(t)
  <2>1. PICK t \in running, outcome \in Final : NextFile(t, outcome)
    BY <1>e DEF UploadSucceeds, UploadFails, Final
  <2>2. /\ work' \in [Tasks -> Seq(Files)] /\ events' \in Seq(Event)
        /\ request' \in [Tasks -> {"none", "sent", "taken", "saved", "refused"}]
        /\ running' \subseteq running /\ tokens' \subseteq running'
        /\ \A u \in Tasks : u # t => work'[u] = work[u]
        /\ t \in running' => work'[t] # <<>>
    BY <2>1, Reported
  <2>3. UNCHANGED <<sessionVars, taskVars, pins, inbox, receiverVars, notices, cancelled>>
    BY <1>e DEF UploadSucceeds, UploadFails, NextFile
  <2>4. running' \subseteq Tasks /\ \A u \in running' : work'[u] # <<>>
    BY <2>1, <2>2 DEF TypeOK
  <2> QED
    BY <2>2, <2>3, <2>4 DEF TypeOK, Event, sessionVars, taskVars, receiverVars
<1>f. CASE \E t \in Tasks : TakeUpload(t) \/ EndUpload(t)
  <2>1. request' \in [Tasks -> {"none", "sent", "taken", "saved", "refused"}]
    BY <1>f DEF TakeUpload, EndUpload, TypeOK
  <2>2. received' \in [Files -> {"none", "pending", "inProgress"} \cup Final]
    BY <1>f DEF TakeUpload, EndUpload, Settle, TypeOK, Final
  <2>3. receiver' \in {"none", "open", "ended"}
    BY <1>f DEF TakeUpload, EndUpload, Settle, TypeOK
  <2>4. UNCHANGED <<sessionVars, taskVars, pins, inbox, running, work, tokens, cancelled,
                    events, notices>>
    BY <1>f DEF TakeUpload, EndUpload
  <2> QED
    BY <2>1, <2>2, <2>3, <2>4 DEF TypeOK, sessionVars, taskVars
<1>g. CASE Receiver
  <2>1. received' \in [Files -> {"none", "pending", "inProgress"} \cup Final]
    BY <1>g DEF Receiver, DropUpload, Settle, ReceiverCancels, CancelIsReceived, LoseNotice,
                receiverVars, TypeOK, Final
  <2>2. receiver' \in {"none", "open", "ended"} /\ notices' \subseteq {"toSender", "toReceiver"}
    BY <1>g DEF Receiver, DropUpload, Settle, ReceiverCancels, CancelIsReceived, LoseNotice,
                receiverVars, TypeOK
  <2>3. UNCHANGED <<sessionVars, taskVars, pins, inbox, isolateVars, events>>
    BY <1>g DEF Receiver, DropUpload, ReceiverCancels, CancelIsReceived, LoseNotice
  <2> QED
    BY <2>1, <2>2, <2>3 DEF TypeOK, sessionVars, taskVars, isolateVars
<1>h. CASE Main
  <2>1. events \in Seq(Event) /\ events # <<>>
    BY <1>h DEF Main, FileReported, TransferEnds, RetryEnds, TaskDone, TypeOK, Event
  <2>2. events' \in Seq(Event) /\ Head(events) \in Event /\ events[1] = Head(events)
        /\ 1 \in DOMAIN events
    BY <1>h, <2>1, HeadTailProperties, LenProperties DEF Main, FileReported, TransferEnds, RetryEnds, TaskDone
  <2>3. CASE FileReported
    BY <2>2, <2>3 DEF FileReported, TypeOK, Event, Named, taskVars, isolateVars, receiverVars
  <2>4. CASE TaskDone /\ (Finish \/ UNCHANGED session)
    BY <2>2, <2>4 DEF TaskDone, Finish, TypeOK, Event, Statuses, Ended, isolateVars, receiverVars
  <2> QED
    BY <1>h, <2>3, <2>4 DEF Main, TransferEnds, RetryEnds
<1>i. CASE User
  <2>1. CASE \E f \in Files : Retry(f)
    <3>1. PICK f \in Files : Retry(f)
      BY <2>1
    <3>2. SendFiles(<<f>>) /\ nextTask \in Tasks /\ <<f>> \in Seq(Files) /\ <<f>> # <<>>
      BY <3>1 DEF Retry
    <3>3. /\ inbox' \in Seq(Message) /\ work' \in [Tasks -> Seq(Files)]
          /\ sendingTasks' \subseteq Tasks /\ nextTask' \in 1 .. MaxRetries + 2
          /\ \A t \in running : work'[t] = work[t]
      BY <3>2, NewTask DEF TypeOK
    <3>4. files' \in [Files -> {"queue", "skipped", "sending"} \cup Final] /\ session' \in Statuses
      BY <3>1 DEF Retry, TypeOK, Statuses
    <3> QED
      BY <3>1, <3>3, <3>4 DEF Retry, TypeOK, Message, receiverVars
  <2>2. CASE CancelSession
    <3>1. inbox' \in Seq(Message)
      BY <2>2, CancelsOnly DEF CancelSession
    <3> QED
      BY <2>2, <3>1 DEF CancelSession, TypeOK, Statuses, Message, taskVars, isolateVars, receiverVars
  <2>3. CASE CloseSession \/ ClearAllSessions \/ SetBackground
    BY <2>3 DEF CloseSession, ClearAllSessions, SetBackground, TypeOK, Statuses,
                taskVars, isolateVars, receiverVars
  <2> QED
    BY <1>i, <2>1, <2>2, <2>3 DEF User
<1>j. CASE CancelByReceiver
  <2>1. inbox' \in Seq(Message)
    BY <1>j, CancelsOnly DEF CancelByReceiver, TypeOK, Message
  <2> QED
    BY <1>j, <2>1 DEF CancelByReceiver, TypeOK, Statuses, Ended, Message,
                      taskVars, isolateVars, receiverVars
<1> QED
  BY <1>a, <1>b, <1>c, <1>d, <1>e, <1>f, <1>g, <1>h, <1>i, <1>j DEF Next, Ask, Isolate, Upload

-----------------------------------------------------------------------------
(* The beginning and the order of tasks                                    *)

\* Before the transfer nothing runs in the upload isolate.
LEMMA NothingRuns ==
  ASSUME TypeOK, Beginning, TasksInOrder, nextTask = 1
  PROVE  /\ running = {} /\ events = <<>> /\ \A f \in Files : files[f] = "queue"
         /\ \A i \in DOMAIN inbox : inbox[i].kind # "task"
<1>1. \A t \in Tasks : ~(t < 1)
  BY DEF Tasks
<1> QED
  BY <1>1, Messages DEF Beginning, TasksInOrder, TypeOK

LEMMA BeginningStep == IInv /\ Next => Beginning'
<1> SUFFICES ASSUME IInv, Next PROVE Beginning'
  OBVIOUS
<1> USE DEF IInv
<1>a. CASE Ask
  <2>1. CASE PrepareUpload
    <3>1. asking = "request" /\ UNCHANGED <<nextTask, events, files, session>>
      BY <2>1 DEF PrepareUpload, taskVars
    <3>2. asking' = "accepted" => Accepted' # {}
      <4> SUFFICES ASSUME asking' = "accepted" PROVE Accepted' # {}
        OBVIOUS
      <4>1. PICK A \in (SUBSET Files) \ {{}} :
               received' = [f \in Files |-> IF f \in A THEN "pending" ELSE "none"]
        BY <2>1 DEF PrepareUpload
      <4>2. PICK f \in Files : f \in A
        OBVIOUS
      <4> QED
        BY <4>1, <4>2 DEF Accepted
    <3> QED
      BY <3>1, <3>2 DEF Beginning
  <2>2. CASE StartTransfer
    <3>1. CASE IsOpen
      <4>1. /\ nextTask' = nextTask + 1 /\ nextTask \in Nat \ {0}
            /\ asking' = "over" /\ session' = "sending"
        BY <2>2, <3>1 DEF StartTransfer, SendFiles, TypeOK
      <4> QED
        BY <4>1 DEF Beginning
    <3>2. CASE ~IsOpen
      BY <2>2, <3>2 DEF StartTransfer, Beginning, taskVars
    <3> QED
      BY <3>1, <3>2
  <2>3. CASE Ask /\ ~PrepareUpload /\ ~StartTransfer
    <3>1. /\ UNCHANGED <<nextTask, events, files, received>>
          /\ asking # "over" /\ asking' # "accepted" /\ session' # "none"
      BY <2>3 DEF Ask, StartSession, RequestFails, NothingSelected, PinRequired, EnterPin,
                  DismissPin, Beginning, IsOpen, taskVars, receiverVars
    <3> QED
      BY <3>1 DEF Beginning
  <2> QED
    BY <1>a, <2>1, <2>2, <2>3
<1>b. CASE Isolate
  <2>1. nextTask # 1 \/ ~BeginTask
    <3>1. ASSUME BeginTask, nextTask = 1 PROVE FALSE
      BY <3>1, NothingRuns, Dequeue DEF BeginTask
    <3> QED
      BY <3>1
  <2> QED
    BY <1>b, <2>1 DEF Isolate, BeginTask, HandleCancel, Beginning, Accepted,
                      sessionVars, taskVars, receiverVars
<1>c. CASE \E t \in Tasks : Upload(t)
  <2>1. PICK t \in Tasks : Upload(t)
    BY <1>c
  <2>2. nextTask # 1
    BY <2>1, NothingRuns DEF Upload, UploadSucceeds, UploadFails, TakeUpload, EndUpload
  <2> QED
    BY <2>1, <2>2 DEF Upload, UploadSucceeds, UploadFails, TakeUpload, EndUpload, Beginning,
                      sessionVars, taskVars
<1>d. CASE Receiver
  <2>1. Accepted # {} => Accepted' # {}
    BY <1>d DEF Receiver, DropUpload, Settle, ReceiverCancels, CancelIsReceived, LoseNotice,
                Accepted, Final, TypeOK, receiverVars
  <2> QED
    BY <1>d, <2>1 DEF Receiver, DropUpload, ReceiverCancels, CancelIsReceived, LoseNotice,
                      Beginning, sessionVars, taskVars, isolateVars
<1>e. CASE Main
  <2>1. events # <<>>
    BY <1>e DEF Main, FileReported, TransferEnds, RetryEnds, TaskDone
  <2>2. session' = "none" => session = "none"
    BY <1>e DEF Main, FileReported, TransferEnds, RetryEnds, TaskDone, Finish
  <2> QED
    BY <1>e, <2>1, <2>2 DEF Main, FileReported, TransferEnds, RetryEnds, TaskDone, Beginning,
                            Accepted, taskVars, receiverVars
<1>f. CASE User \/ CancelByReceiver
  <2>1. CASE \E f \in Files : Retry(f)
    <3>1. nextTask' = nextTask + 1 /\ nextTask \in Nat \ {0}
      BY <2>1 DEF Retry, SendFiles, TypeOK
    <3>2. asking = "over"
      BY <2>1 DEF Retry, Beginning
    <3> QED
      BY <2>1, <3>1, <3>2 DEF Retry, Beginning
  <2>2. CASE CancelSession \/ CloseSession \/ ClearAllSessions \/ SetBackground \/ CancelByReceiver
    BY <2>2 DEF CancelSession, CloseSession, ClearAllSessions, SetBackground, CancelByReceiver,
                Beginning, Accepted, taskVars, receiverVars
  <2> QED
    BY <1>f, <2>1, <2>2 DEF User
<1> QED
  BY <1>a, <1>b, <1>c, <1>d, <1>e, <1>f DEF Next

\* Whatever only adds messages that announce no task leaves the tasks in order.
LEMMA SameTasks ==
  ASSUME TypeOK, TasksInOrder,
         nextTask' = nextTask, cancelled' = cancelled,
         running' \subseteq running, tokens' \subseteq tokens,
         \A i \in DOMAIN inbox' : inbox'[i].kind = "task" =>
            i \in DOMAIN inbox /\ inbox'[i] = inbox[i],
         \A i \in DOMAIN inbox : inbox[i].kind = "task" => work'[inbox[i].task] = work[inbox[i].task]
  PROVE  TasksInOrder'
BY DEF TasksInOrder

LEMMA TasksStep == IInv /\ Next => TasksInOrder'
<1> SUFFICES ASSUME IInv, Next PROVE TasksInOrder'
  OBVIOUS
<1> USE DEF IInv
<1>a. ASSUME NEW list \in Seq(Files), list # <<>>, SendFiles(list), nextTask \in Tasks,
             UNCHANGED <<running, tokens, cancelled>>
      PROVE  TasksInOrder'
  <2>1. /\ nextTask' = nextTask + 1 /\ nextTask \in Nat
        /\ nextTask \notin running \cup cancelled
        /\ work'[nextTask] # <<>> /\ \A t \in Tasks : t # nextTask => work'[t] = work[t]
        /\ \A i \in DOMAIN inbox : i \in DOMAIN inbox' /\ inbox'[i] = inbox[i]
        /\ \A i \in DOMAIN inbox' : i \notin DOMAIN inbox =>
              i = Len(inbox) + 1 /\ inbox'[i].task = nextTask
    <3>1. nextTask \in Nat /\ nextTask' = nextTask + 1
      BY <1>a, SendAssumption DEF Tasks, SendFiles
    <3>2. nextTask \notin running \cup cancelled
          /\ work'[nextTask] # <<>> /\ \A t \in Tasks : t # nextTask => work'[t] = work[t]
      BY <1>a, NewTask
    <3>3. /\ \A i \in DOMAIN inbox : i \in DOMAIN inbox' /\ inbox'[i] = inbox[i]
          /\ \A i \in DOMAIN inbox' : i \notin DOMAIN inbox =>
                i = Len(inbox) + 1 /\ inbox'[i].task = nextTask
      BY <1>a, NewTask
    <3> QED
      BY <3>1, <3>2, <3>3
  <2>2. running \subseteq Nat /\ cancelled \subseteq Nat
        /\ \A i \in DOMAIN inbox : inbox[i].task \in Tasks /\ inbox[i].task \in Nat
    <3>1. Tasks \subseteq Nat
      BY SendAssumption DEF Tasks, SendAssumption
    <3>2. running \subseteq Tasks /\ cancelled \subseteq Tasks
      BY DEF TypeOK
    <3> QED
      BY <3>1, <3>2, Messages
  <2>3. \A i \in DOMAIN inbox : inbox[i].kind = "task" => inbox[i].task < nextTask
    BY DEF TasksInOrder
  <2>4. \A t \in running' \cup cancelled' : t < nextTask'
    BY <1>a, <2>1, <2>2 DEF TasksInOrder
  <2>5. ASSUME NEW i \in DOMAIN inbox', inbox'[i].kind = "task"
        PROVE  /\ inbox'[i].task < nextTask'
               /\ inbox'[i].task \notin running' \cup cancelled'
               /\ work'[inbox'[i].task] # <<>>
               /\ \A j \in DOMAIN inbox' :
                     inbox'[j].kind = "task" /\ inbox'[j].task = inbox'[i].task => j = i
    <3>1. CASE i \in DOMAIN inbox
      <4>1. inbox'[i] = inbox[i] /\ inbox[i].task < nextTask /\ inbox[i].task # nextTask
        BY <2>1, <2>2, <2>3, <2>5, <3>1
      <4>2. \A j \in DOMAIN inbox' :
               inbox'[j].kind = "task" /\ inbox'[j].task = inbox'[i].task => j = i
        BY <2>1, <2>5, <3>1, <4>1 DEF TasksInOrder
      <4> QED
        BY <1>a, <2>1, <2>2, <2>5, <3>1, <4>1, <4>2 DEF TasksInOrder
    <3>2. CASE i \notin DOMAIN inbox
      <4>1. i = Len(inbox) + 1 /\ inbox'[i].task = nextTask
        BY <2>1, <3>2
      <4>2. \A j \in DOMAIN inbox' :
               inbox'[j].kind = "task" /\ inbox'[j].task = inbox'[i].task => j = i
        <5> SUFFICES ASSUME NEW j \in DOMAIN inbox', inbox'[j].kind = "task",
                            inbox'[j].task = nextTask
                     PROVE  j = i
          BY <4>1
        <5>1. CASE j \in DOMAIN inbox
          BY <2>1, <2>2, <2>3, <5>1
        <5>2. CASE j \notin DOMAIN inbox
          BY <2>1, <4>1, <5>2
        <5> QED
          BY <5>1, <5>2
      <4> QED
        BY <1>a, <2>1, <4>1, <4>2
    <3> QED
      BY <3>1, <3>2
  <2>6. tokens' \cap cancelled' = {}
    BY <1>a DEF TasksInOrder
  <2> QED
    BY <2>4, <2>5, <2>6 DEF TasksInOrder
<1>b. CASE StartTransfer
  <2>1. CASE IsOpen
    <3>1. PICK list \in SetToSeqs(Accepted) : SendFiles(list)
      BY <1>b, <2>1 DEF StartTransfer
    <3>2. nextTask \in Tasks /\ list \in Seq(Files) /\ list # <<>>
      BY <1>b, FirstTask DEF StartTransfer
    <3> QED
      BY <1>a, <1>b, <3>1, <3>2 DEF StartTransfer
  <2>2. CASE ~IsOpen
    BY <1>b, <2>2, SameTasks DEF StartTransfer, taskVars
  <2> QED
    BY <2>1, <2>2
<1>c. CASE \E f \in Files : Retry(f)
  <2>1. PICK f \in Files : Retry(f)
    BY <1>c
  <2>2. SendFiles(<<f>>) /\ nextTask \in Tasks /\ <<f>> \in Seq(Files) /\ <<f>> # <<>>
    BY <2>1 DEF Retry
  <2> QED
    BY <1>a, <2>1, <2>2 DEF Retry
<1>d. CASE Isolate
  <2>1. /\ Head(inbox) \in Message /\ inbox[1] = Head(inbox) /\ 1 \in DOMAIN inbox
        /\ \A i \in DOMAIN inbox' : i + 1 \in DOMAIN inbox /\ inbox'[i] = inbox[i + 1]
                                    /\ i + 1 # 1 /\ i \in Nat
    BY <1>d, Dequeue DEF Isolate, BeginTask, HandleCancel
  <2>2. ASSUME NEW i \in DOMAIN inbox', inbox'[i].kind = "task"
        PROVE  \A j \in DOMAIN inbox' :
                  inbox'[j].kind = "task" /\ inbox'[j].task = inbox'[i].task => j = i
    <3> SUFFICES ASSUME NEW j \in DOMAIN inbox', inbox'[j].kind = "task",
                        inbox'[j].task = inbox'[i].task
                 PROVE  j = i
      OBVIOUS
    <3>1. j + 1 = i + 1
      BY <2>1, <2>2 DEF TasksInOrder
    <3> QED
      BY <2>1, <3>1
  <2>3. CASE BeginTask
    <3> DEFINE t == Head(inbox).task
    <3>1. /\ t < nextTask /\ t \notin cancelled
          /\ \A i \in DOMAIN inbox' : inbox'[i].kind = "task" => inbox'[i].task # t
      BY <2>1, <2>3 DEF BeginTask, TasksInOrder
    <3>2. running' = running \cup {t} /\ tokens' = tokens \cup {t}
          /\ UNCHANGED <<nextTask, cancelled, work>>
      BY <2>3 DEF BeginTask, taskVars
    <3> HIDE DEF t
    <3> QED
      BY <2>1, <2>2, <3>1, <3>2 DEF TasksInOrder
  <2>4. CASE HandleCancel
    <3>1. /\ cancelled' \subseteq cancelled \cup tokens /\ tokens' \subseteq tokens
          /\ UNCHANGED <<nextTask, running, work>>
          /\ tokens' \cap cancelled' = {}
      BY <2>4 DEF HandleCancel, CancelToken, TasksInOrder, taskVars
    <3>2. tokens \subseteq running
      BY DEF TypeOK
    <3> QED
      BY <2>1, <2>2, <3>1, <3>2 DEF TasksInOrder
  <2> QED
    BY <1>d, <2>3, <2>4 DEF Isolate
<1>e. CASE \E t \in Tasks : UploadSucceeds(t) \/ UploadFails(t)
  <2>1. PICK t \in running, outcome \in Final : NextFile(t, outcome)
    BY <1>e DEF UploadSucceeds, UploadFails, Final
  <2>2. /\ running' \subseteq running /\ tokens' \subseteq tokens
        /\ \A u \in Tasks : u # t => work'[u] = work[u]
    BY <2>1, Reported
  <2>3. \A i \in DOMAIN inbox : inbox[i].kind = "task" => inbox[i].task # t /\ inbox[i].task \in Tasks
    BY <2>1, Messages DEF TasksInOrder
  <2>4. UNCHANGED <<nextTask, cancelled, inbox>>
    BY <1>e DEF UploadSucceeds, UploadFails, NextFile, taskVars
  <2> QED
    BY <2>2, <2>3, <2>4, SameTasks
<1>f. CASE CancelSession \/ CancelByReceiver
  <2>1. CASE CancelRunningRequests
    BY <1>f, <2>1, CancelsOnly, SameTasks
    DEF CancelSession, CancelByReceiver, taskVars, isolateVars
  <2>2. CASE ~CancelRunningRequests
    BY <1>f, <2>2, SameTasks DEF CancelSession, CancelByReceiver, taskVars, isolateVars
  <2> QED
    BY <2>1, <2>2
<1>g. CASE UNCHANGED <<nextTask, cancelled, running, tokens, inbox, work>>
  BY <1>g, SameTasks
<1>h. Ask /\ ~StartTransfer => UNCHANGED <<nextTask, cancelled, running, tokens, inbox, work>>
  BY DEF Ask, StartSession, PrepareUpload, RequestFails, NothingSelected, PinRequired, EnterPin,
         DismissPin, taskVars, isolateVars
<1>i. (\E t \in Tasks : TakeUpload(t) \/ EndUpload(t)) \/ Receiver \/ Main =>
      UNCHANGED <<nextTask, cancelled, running, tokens, inbox, work>>
  BY DEF TakeUpload, EndUpload, Receiver, DropUpload, ReceiverCancels, CancelIsReceived,
         LoseNotice, Main, FileReported, TransferEnds, RetryEnds, TaskDone, taskVars, isolateVars
<1>j. CloseSession \/ ClearAllSessions \/ SetBackground =>
      UNCHANGED <<nextTask, cancelled, running, tokens, inbox, work>>
  BY DEF CloseSession, ClearAllSessions, SetBackground, taskVars, isolateVars
<1> QED
  BY <1>b, <1>c, <1>d, <1>e, <1>f, <1>g, <1>h, <1>i, <1>j DEF Next, Ask, Upload, User

-----------------------------------------------------------------------------
(* What is said about a file is true                                       *)

\* A file the receiver has stays there, and what is said is said by the same messages.
LEMMA StillTrue ==
  ASSUME Truthful,
         receiver' = "none" => receiver = "none" /\ received' = received,
         \A f \in Files : received[f] = "finished" => received'[f] = "finished",
         UNCHANGED <<events, files, running, work, request>>,
         Named, \A t \in running : Head(work[t]) \in Files
  PROVE  Truthful'
BY DEF Truthful, Named

LEMMA TruthStep == IInv /\ Next => Named' /\ OneTaker' /\ Truthful'
<1> SUFFICES ASSUME IInv, Next PROVE Named' /\ OneTaker' /\ Truthful'
  OBVIOUS
<1> USE DEF IInv
<1>1. \A t \in running : t \in Tasks /\ work[t] \in Seq(Files) /\ work[t] # <<>> /\ Head(work[t]) \in Files
  <2>1. \A t \in running : t \in Tasks /\ work[t] \in Seq(Files) /\ work[t] # <<>>
    BY DEF TypeOK
  <2> QED
    BY <2>1
<1>a. CASE UNCHANGED <<receiverVars, events, files, running, work, request>>
  BY <1>a DEF Named, OneTaker, Truthful, receiverVars
<1>b. CASE PrepareUpload
  <2>1. CASE UNCHANGED receiverVars
    BY <1>a, <1>b, <2>1 DEF PrepareUpload, isolateVars
  <2>2. CASE receiver = "none" /\ receiver' = "open"
    <3>1. nextTask = 1
      BY <1>b DEF PrepareUpload, Beginning
    <3>2. running = {} /\ events = <<>> /\ \A f \in Files : files[f] = "queue"
      BY <3>1, NothingRuns
    <3>3. running' = {} /\ events' = <<>> /\ \A f \in Files : files'[f] = "queue"
      BY <1>b, <3>2 DEF PrepareUpload, isolateVars
    <3> QED
      BY <2>2, <3>3 DEF Named, OneTaker, Truthful
  <2> QED
    BY <1>b, <2>1, <2>2 DEF PrepareUpload
<1>c. CASE StartTransfer
  <2>1. UNCHANGED <<receiverVars, events, running, request>>
        /\ \A f \in Files : files'[f] = "finished" => files[f] = "finished"
    BY <1>c DEF StartTransfer, TypeOK
  <2>2. \A t \in running : work'[t] = work[t]
    <3>1. CASE IsOpen
      <4>1. PICK list \in SetToSeqs(Accepted) : SendFiles(list)
        BY <1>c, <3>1 DEF StartTransfer
      <4>2. nextTask \in Tasks /\ list \in Seq(Files) /\ list # <<>>
        BY <1>c, FirstTask DEF StartTransfer
      <4> QED
        BY <1>1, <4>1, <4>2, NewTask
    <3>2. CASE ~IsOpen
      BY <1>c, <3>2 DEF StartTransfer
    <3> QED
      BY <3>1, <3>2
  <2> QED
    BY <2>1, <2>2 DEF Named, OneTaker, Truthful, receiverVars
<1>d. CASE \E f \in Files : Retry(f)
  <2>1. PICK g \in Files : Retry(g)
    BY <1>d
  <2>2. UNCHANGED <<receiverVars, events, running, request>>
        /\ \A f \in Files : files'[f] = "finished" => files[f] = "finished"
    BY <2>1 DEF Retry, TypeOK
  <2>3. SendFiles(<<g>>) /\ nextTask \in Tasks /\ <<g>> \in Seq(Files) /\ <<g>> # <<>>
    BY <2>1 DEF Retry
  <2>4. \A t \in running : work'[t] = work[t]
    BY <1>1, <2>3, NewTask
  <2> QED
    BY <2>2, <2>4 DEF Named, OneTaker, Truthful, receiverVars
<1>e. CASE BeginTask
  <2> DEFINE t == Head(inbox).task
             m == [kind |-> "sending", task |-> t, file |-> Head(work[t])]
  <2>1. Head(inbox) \in Message /\ inbox[1] = Head(inbox) /\ 1 \in DOMAIN inbox
    BY <1>e, Dequeue DEF BeginTask
  <2>2. t \in Tasks /\ t \notin running /\ work[t] \in Seq(Files) /\ work[t] # <<>>
    BY <1>e, <2>1 DEF BeginTask, TasksInOrder, Message, TypeOK
  <2>3. Head(work[t]) \in Files
    BY <2>2
  <2>4. m \in Event /\ m.kind = "sending" /\ m.file \in Files
    BY <2>2, <2>3 DEF Event
  <2>5. /\ events' = Append(events, m) /\ running' = running \cup {t}
        /\ request' = [request EXCEPT ![t] = "sent"]
        /\ UNCHANGED <<receiver, received, files, work>>
    BY <1>e DEF BeginTask, sessionVars, receiverVars
  <2>6. request'[t] = "sent" /\ \A u \in running : request'[u] = request[u]
    BY <1>1, <2>2, <2>5 DEF TypeOK
  <2>7. events \in Seq(Event)
    BY DEF TypeOK, Event
  <2> HIDE DEF t, m
  <2>8. /\ DOMAIN events' = 1 .. (Len(events) + 1) /\ DOMAIN events = 1 .. Len(events)
        /\ \A i \in DOMAIN events : events'[i] = events[i]
        /\ events'[Len(events) + 1] = m /\ Len(events) \in Nat
    BY <2>4, <2>5, <2>7, AppendProperties, LenProperties
  <2>9. \A i \in DOMAIN events' : i \in DOMAIN events \/ events'[i] = m
    BY <2>8
  <2>10. Named'
    BY <2>4, <2>8, <2>9 DEF Named
  <2>11. OneTaker'
    BY <2>2, <2>5, <2>6 DEF OneTaker
  <2>12. Truthful'
    BY <2>2, <2>4, <2>5, <2>6, <2>8, <2>9 DEF Truthful
  <2> QED
    BY <2>10, <2>11, <2>12
<1>f. CASE \E t \in Tasks : UploadSucceeds(t) \/ UploadFails(t)
  <2>1. PICK t \in running, outcome \in Final :
           /\ NextFile(t, outcome) /\ UNCHANGED <<receiver, received, files>>
           /\ outcome = "finished" => request[t] = "saved"
    BY <1>f DEF UploadSucceeds, UploadFails, Final, sessionVars, receiverVars
  <2>2. /\ request'[t] \in {"none", "sent"} /\ running' \subseteq running
        /\ \A u \in Tasks : u # t => work'[u] = work[u] /\ request'[u] = request[u]
        /\ \A i \in DOMAIN events : i \in DOMAIN events' /\ events'[i] = events[i]
        /\ \A i \in DOMAIN events' : i \notin DOMAIN events =>
               /\ events'[i].kind # "done" => events'[i].file \in Files
               /\ events'[i].kind = "finished" =>
                     outcome = "finished" /\ events'[i].file = Head(work[t])
    BY <2>1, Reported
  <2>3. Named'
    BY <2>2 DEF Named
  <2>4. OneTaker'
    BY <1>1, <2>1, <2>2 DEF OneTaker
  <2>5. Truthful'
    BY <1>1, <2>1, <2>2 DEF Truthful
  <2> QED
    BY <2>3, <2>4, <2>5
<1>g. CASE \E t \in Tasks : TakeUpload(t)
  <2>1. PICK t \in running : TakeUpload(t)
    BY <1>g DEF TakeUpload
  <2> DEFINE f == Head(work[t])
  <2>2. f \in Files /\ t \in Tasks
    BY <1>1, <2>1
  <2>3. UNCHANGED <<receiver, events, files, running, work>>
    BY <2>1 DEF TakeUpload, sessionVars
  <2>4. CASE receiver = "open" /\ received[f] = "pending"
    <3>1. received' = [received EXCEPT ![f] = "inProgress"] /\ request' = [request EXCEPT ![t] = "taken"]
      BY <2>1, <2>4 DEF TakeUpload
    <3>2. /\ received'[f] = "inProgress" /\ \A g \in Files : g # f => received'[g] = received[g]
          /\ request'[t] = "taken" /\ \A u \in Tasks : u # t => request'[u] = request[u]
      BY <2>2, <3>1 DEF TypeOK
    <3>3. \A u \in running : request[u] = "taken" => Head(work[u]) # f
      BY <2>4 DEF OneTaker
    <3>4. OneTaker'
      BY <1>1, <2>2, <2>3, <3>2, <3>3 DEF OneTaker
    <3>5. Truthful'
      BY <1>1, <2>2, <2>3, <2>4, <3>2 DEF Truthful, Named
    <3> QED
      BY <2>3, <3>4, <3>5 DEF Named
  <2>5. CASE ~(receiver = "open" /\ received[f] = "pending")
    <3>1. received' = received /\ request' = [request EXCEPT ![t] = "refused"]
      BY <2>1, <2>5 DEF TakeUpload
    <3>2. request'[t] = "refused" /\ \A u \in Tasks : u # t => request'[u] = request[u]
      BY <2>2, <3>1 DEF TypeOK
    <3> QED
      BY <1>1, <2>3, <3>1, <3>2 DEF Named, OneTaker, Truthful
  <2> QED
    BY <2>4, <2>5
<1>h. CASE \E t \in Tasks : EndUpload(t)
  <2>1. PICK t \in running : EndUpload(t)
    BY <1>h DEF EndUpload
  <2> DEFINE f == Head(work[t])
  <2>2. f \in Files /\ t \in Tasks /\ request[t] = "taken" /\ received[f] = "inProgress"
    BY <1>1, <2>1 DEF EndUpload, OneTaker
  <2>3. UNCHANGED <<events, files, running, work>>
    BY <2>1 DEF EndUpload, sessionVars
  <2>4. PICK outcome \in Final :
           /\ Settle(f, outcome)
           /\ request' = [request EXCEPT ![t] = IF outcome = "finished" THEN "saved" ELSE "refused"]
    BY <2>1 DEF EndUpload, Final
  <2>5. /\ received'[f] = outcome /\ \A g \in Files : g # f => received'[g] = received[g]
        /\ request'[t] = IF outcome = "finished" THEN "saved" ELSE "refused"
        /\ \A u \in Tasks : u # t => request'[u] = request[u]
    BY <2>2, <2>4 DEF Settle, TypeOK
  <2>6. receiver' # "none"
    BY <2>2, <2>4 DEF Settle, Truthful
  <2>7. \A u \in running : u # t /\ request[u] = "taken" => Head(work[u]) # f
    BY <2>1, <2>2 DEF OneTaker
  <2> HIDE DEF f
  <2>8. OneTaker'
    BY <1>1, <2>2, <2>3, <2>5, <2>7 DEF OneTaker
  <2>9. Truthful'
    <3>1. \A u \in running' : request'[u] = "saved" => received'[Head(work'[u])] = "finished"
      BY <1>1, <2>2, <2>3, <2>5 DEF Truthful, f
    <3>2. \A g \in Files : received[g] = "finished" => received'[g] = "finished"
      BY <2>2, <2>5
    <3>3. \A i \in DOMAIN events' : events'[i].kind = "finished" => received'[events'[i].file] = "finished"
      BY <2>3, <3>2 DEF Truthful, Named
    <3> QED
      BY <2>3, <2>6, <3>1, <3>2, <3>3 DEF Truthful
  <2> QED
    BY <2>3, <2>8, <2>9 DEF Named
<1>i. CASE Receiver
  <2>1. UNCHANGED <<events, files, running, work, request>>
    BY <1>i DEF Receiver, DropUpload, ReceiverCancels, CancelIsReceived, LoseNotice,
                sessionVars, isolateVars
  <2>2. CASE received' = received /\ receiver' \in {receiver, "ended"}
    BY <1>1, <2>1, <2>2 DEF Named, OneTaker, Truthful
  <2>3. CASE \E f \in Files : DropUpload(f)
    <3>1. PICK f \in Files, outcome \in Final :
             /\ received[f] = "inProgress" /\ Settle(f, outcome)
             /\ ~\E t \in running : request[t] = "taken" /\ Head(work[t]) = f
      BY <2>3 DEF DropUpload
    <3>2. received'[f] = outcome /\ \A g \in Files : g # f => received'[g] = received[g]
      BY <3>1 DEF Settle, TypeOK
    <3>3. OneTaker'
      BY <1>1, <2>1, <3>1, <3>2 DEF OneTaker
    <3>4. \A g \in Files : received[g] = "finished" => received'[g] = "finished"
      BY <3>1, <3>2
    <3>5. receiver' # "none"
      BY <3>1 DEF Settle, Truthful
    <3>6. Truthful'
      BY <1>1, <2>1, <3>4, <3>5, StillTrue
    <3> QED
      BY <2>1, <3>3, <3>6 DEF Named
  <2> QED
    BY <1>i, <2>2, <2>3 DEF Receiver, ReceiverCancels, CancelIsReceived, LoseNotice, receiverVars
<1>j. CASE Main
  <2>1. events \in Seq(Event) /\ events # <<>> /\ events' = Tail(events)
        /\ UNCHANGED <<receiver, received, running, work, request>>
    BY <1>j DEF Main, FileReported, TransferEnds, RetryEnds, TaskDone, TypeOK, Event,
                isolateVars, receiverVars
  <2>2. /\ Head(events) \in Event /\ events[1] = Head(events) /\ 1 \in DOMAIN events
        /\ \A i \in DOMAIN events' : i + 1 \in DOMAIN events /\ events'[i] = events[i + 1]
    BY <2>1, HeadTailProperties, LenProperties
  <2>3. \A f \in Files : files'[f] = "finished" => received[f] = "finished"
    <3>1. CASE FileReported
      <4>1. Head(events).file \in Files
        BY <2>2, <3>1 DEF FileReported, Named
      <4>2. Head(events).kind = "finished" => received[Head(events).file] = "finished"
        BY <2>2 DEF Truthful
      <4> QED
        BY <3>1, <4>1, <4>2 DEF FileReported, Truthful, TypeOK
    <3>2. CASE TaskDone
      BY <3>2 DEF TaskDone, Truthful
    <3> QED
      BY <1>j, <3>1, <3>2 DEF Main, TransferEnds, RetryEnds
  <2> QED
    BY <2>1, <2>2, <2>3 DEF Named, OneTaker, Truthful
<1>k. CASE Ask /\ ~PrepareUpload /\ ~StartTransfer
  BY <1>a, <1>k DEF Ask, StartSession, RequestFails, NothingSelected, PinRequired, EnterPin,
                    DismissPin, isolateVars
<1>l. CASE HandleCancel
  BY <1>a, <1>l DEF HandleCancel, sessionVars
<1>m. CASE CancelSession \/ CloseSession \/ ClearAllSessions \/ SetBackground \/ CancelByReceiver
  BY <1>a, <1>m DEF CancelSession, CloseSession, ClearAllSessions, SetBackground,
                    CancelByReceiver, isolateVars
<1> QED
  BY <1>b, <1>c, <1>d, <1>e, <1>f, <1>g, <1>h, <1>i, <1>j, <1>k, <1>l, <1>m
  DEF Next, Ask, Isolate, Upload, User

-----------------------------------------------------------------------------
(* The theorems                                                            *)

LEMMA StepInv == IInv /\ [Next]_vars => IInv'
<1> SUFFICES ASSUME IInv, [Next]_vars PROVE IInv'
  OBVIOUS
<1>1. CASE Next
  BY <1>1, TypeStep, BeginningStep, TasksStep, TruthStep DEF IInv
<1>2. CASE UNCHANGED vars
  BY <1>2 DEF vars, sessionVars, taskVars, isolateVars, receiverVars, IInv, TypeOK, Beginning,
              Accepted, TasksInOrder, Named, OneTaker, Truthful
<1> QED
  BY <1>1, <1>2

\* The invariant holds in every behaviour of a session.
LEMMA Invariance == Spec => []IInv
<1> QED
  BY InitInv, StepInv, PTL DEF Spec

\* Every variable of a sending session keeps its type.
THEOREM TypeCorrect == Spec => []TypeOK
<1>1. IInv => TypeOK
  BY DEF IInv
<1> QED
  BY <1>1, Invariance, PTL

\* A file is shown as sent only if the receiver has it, whatever is cancelled, sent
\* again, refused or lost (upload_isolate.dart, send_provider.dart).
THEOREM ShownFilesAreSaved == Spec => []ShownIsSaved
<1>1. IInv => ShownIsSaved
  BY DEF IInv, Truthful, ShownIsSaved
<1> QED
  BY <1>1, Invariance, PTL

\* A task of the upload isolate whose token was cancelled begins no further file.
THEOREM CancelledTasksStop == Spec => CancelStops
<1>1. IInv /\ [Next]_vars => \A t \in cancelled : work'[t] # work[t] => t \notin running'
  <2> SUFFICES ASSUME IInv, [Next]_vars, NEW t \in cancelled, work'[t] # work[t]
               PROVE  t \notin running'
    OBVIOUS
  <2> USE DEF IInv
  <2>1. t \in Tasks /\ t < nextTask /\ t # nextTask /\ t \notin tokens
    BY DEF TypeOK, TasksInOrder, Tasks
  <2>2. CASE \E u \in Tasks : UploadSucceeds(u) \/ UploadFails(u)
    <3>1. PICK u \in running, outcome \in Final : NextFile(u, outcome)
      BY <2>2 DEF UploadSucceeds, UploadFails, Final
    <3>2. u = t
      BY <2>1, <3>1, Reported
    <3> QED
      BY <2>1, <3>1, <3>2 DEF NextFile
  <2>3. CASE StartTransfer \/ \E f \in Files : Retry(f)
    <3>1. ASSUME NEW list, SendFiles(list) PROVE FALSE
      BY <2>1, <3>1 DEF SendFiles, TypeOK
    <3> QED
      BY <2>3, <3>1 DEF StartTransfer, Retry
  <2>4. CASE UNCHANGED work
    BY <2>4
  <2> QED
    BY <2>2, <2>3, <2>4 DEF Next, Ask, Isolate, Upload, Receiver, Main, User, vars, StartSession,
       PrepareUpload, RequestFails, NothingSelected, PinRequired, EnterPin, DismissPin, BeginTask,
       HandleCancel, TakeUpload, EndUpload, DropUpload, ReceiverCancels, CancelIsReceived,
       LoseNotice, FileReported, TransferEnds, RetryEnds, TaskDone, CancelSession, CloseSession,
       ClearAllSessions, SetBackground, CancelByReceiver, isolateVars
<1> QED
  BY <1>1, Invariance, PTL DEF Spec, CancelStops

-----------------------------------------------------------------------------
(* The content of a file: SaveUpload                                       *)

Early == {"asking", "forward"}

(* Where the handler and the writer can be at the same time.               *)
Phases ==
    /\ handler \in Early => "handler" \in open
    /\ handler = "asking" => writer = "idle" /\ target = Unset
    /\ app = "asked" => writer = "idle" /\ target = Unset
    /\ writer = "idle" => target = Unset
    /\ handler \in {"forward", "await", "bounded"} => target # Unset
    /\ writer = "done" <=> result # Unset
    /\ "writer" \notin open => writer = "done"

(* The writer's verdict, and what the two ends make of it.                 *)
Verdict ==
    /\ result = "ok" => app = "ok" /\ written = Size /\ chunks = 0
                      /\ "handler" \notin open
    /\ app = "ok" => result = "ok"
    /\ answer # Unset => handler = "done"
    /\ answer = 200 => result = "ok"
    /\ client = "ok" => answer = 200
    /\ shown = "sent" => client = "ok"
    /\ handler = "bounded" /\ link = "up" => result \in Failures
    /\ handler = "done" /\ target # Unset /\ link = "up" =>
           result # Unset /\ answer = Status(result)

SaveIInv == SaveTypeOK /\ Phases /\ Verdict

LEMMA SaveInitInv == SaveInit => SaveIInv
<1> SUFFICES ASSUME SaveInit PROVE SaveIInv
  OBVIOUS
<1> USE SaveAssumption DEF SaveAssumption, SaveInit
<1>1. SaveTypeOK
  BY DEF SaveTypeOK, Answers, Failures, Sources, SourceCap, Targets
<1>2. Phases
  BY DEF Phases, Early
<1>3. Verdict
  BY DEF Verdict, Failures
<1> QED
  BY <1>1, <1>2, <1>3 DEF SaveIInv

LEMMA StatusFacts ==
    /\ Status("ok") = 200 /\ Status("full") = 507
    /\ Status("large") = 413 /\ Status("other") = 500
  BY DEF Status

(* What a step does to the frames underway.                                *)
LEMMA NetFacts ==
  ASSUME net \in Seq({"chunk", "end"}), Len(net) <= NetCap, NetCap \in Nat
  PROVE  /\ \A f \in {"chunk", "end"} : Len(net) < NetCap =>
               /\ Append(net, f) \in Seq({"chunk", "end"})
               /\ Len(Append(net, f)) <= NetCap
         /\ net # <<>> => /\ Tail(net) \in Seq({"chunk", "end"})
                         /\ Len(Tail(net)) <= NetCap
  OBVIOUS

(* What a report leaves behind.                                            *)
LEMMA ReportFacts ==
  ASSUME SaveTypeOK, \E r \in {"ok"} \cup Failures : Report(r)
  PROVE  /\ writer' \in {"idle", "opening", "writing", "done"}
         /\ result' \in {"ok", Unset} \cup Failures
         /\ open' \subseteq {"reader", "handler", "writer"}
         /\ app' \in {"asked", "waiting", "ok", "failed"}
  BY DEF SaveTypeOK, Report, Failures

(* Types.                                                                  *)
LEMMA SaveTypeStep == SaveTypeOK /\ SaveNext => SaveTypeOK'
<1> SUFFICES ASSUME SaveTypeOK, SaveNext PROVE SaveTypeOK'
  OBVIOUS
<1> USE SaveAssumption DEF SaveAssumption, SaveTypeOK, Answers, Failures, Sources, SourceCap, Targets,
        sourceVars, senderVars, wireVars, handlerVars, channelVars, writerVars
<1>1. CASE ReadChunk
  BY <1>1 DEF ReadChunk, ClientRuns
<1>2. CASE EndReading
  BY <1>2 DEF EndReading
<1>3. CASE SendFrame
  <2>1. net' \in Seq({"chunk", "end"}) /\ Len(net') <= NetCap
    <3>1. PICK f \in {"chunk", "end"} : net' = Append(net, f)
      BY <1>3 DEF SendFrame
    <3>2. Append(net, f) \in Seq({"chunk", "end"}) /\ Len(Append(net, f)) <= NetCap
      BY <1>3, NetFacts DEF SendFrame
    <3> QED
      BY <3>1, <3>2
  <2>2. queued' \in Nat /\ queued' <= queued
    BY <1>3 DEF SendFrame
  <2>3. client' = client \/ client' = "sent"
    BY <1>3 DEF SendFrame
  <2> QED
    BY <1>3, <2>1, <2>2, <2>3 DEF SendFrame, ClientRuns
<1>4. CASE TakeAnswer
  BY <1>4 DEF TakeAnswer, ClientRuns
<1>5. CASE NoticeBreak
  BY <1>5 DEF NoticeBreak, ClientRuns
<1>6. CASE Cancel
  BY <1>6 DEF Cancel, ClientRuns
<1>7. CASE Break
  BY <1>7 DEF Break
<1>8. CASE Reject
  BY <1>8 DEF Reject
<1>9. ASSUME NEW t \in Targets, Respond(t) PROVE SaveTypeOK'
  BY <1>9 DEF Respond, WriterOf
<1>10. CASE ForwardChunk
  <2>1. net' \in Seq({"chunk", "end"}) /\ Len(net') <= NetCap
    BY <1>10, NetFacts DEF ForwardChunk
  <2>2. chunks' \in 0 .. UploadCap /\ handler' \in {"forward", "bounded"}
    BY <1>10 DEF ForwardChunk, Await
  <2>3. open' \in {open, open \ {"handler"}}
    BY <1>10 DEF ForwardChunk, Await
  <2> QED
    BY <1>10, <2>1, <2>2, <2>3 DEF ForwardChunk
<1>11. CASE EndBody
  BY <1>11, NetFacts DEF EndBody, Await
<1>12. CASE BodyFails
  BY <1>12 DEF BodyFails, Await
<1>13. CASE AnswerResult
  BY <1>13, StatusFacts DEF AnswerResult
<1>14. CASE AnswerTimeout
  BY <1>14 DEF AnswerTimeout
<1>15. CASE DropHandler
  BY <1>15 DEF DropHandler, Await
<1>16. CASE OpenFile
  <2>1. UNCHANGED <<chunks, written>>
    BY <1>16 DEF OpenFile
  <2>2. \/ writer' = "writing" /\ UNCHANGED <<result, open, app>>
       \/ \E r \in Failures : Report(r)
    BY <1>16 DEF OpenFile
  <2>3. CASE writer' = "writing" /\ UNCHANGED <<result, open, app>>
    BY <1>16, <2>1, <2>3 DEF OpenFile
  <2>4. CASE \E r \in Failures : Report(r)
    <3>1. \E r \in {"ok"} \cup Failures : Report(r)
      BY <2>4
    <3> QED
      BY <1>16, <2>1, <3>1, ReportFacts DEF OpenFile
  <2> QED
    BY <2>2, <2>3, <2>4
<1>17. CASE WriteChunk
  <2>1. chunks' \in 0 .. UploadCap /\ written' \in 0 .. Size
    BY <1>17 DEF WriteChunk
  <2>2. UNCHANGED <<writer, result, open, app>> \/ \E r \in Failures : Report(r)
    BY <1>17 DEF WriteChunk
  <2>3. CASE UNCHANGED <<writer, result, open, app>>
    BY <1>17, <2>1, <2>3 DEF WriteChunk
  <2>4. CASE \E r \in Failures : Report(r)
    <3>1. \E r \in {"ok"} \cup Failures : Report(r)
      BY <2>4
    <3> QED
      BY <1>17, <2>1, <3>1, ReportFacts DEF WriteChunk
  <2> QED
    BY <2>2, <2>3, <2>4
<1>18. CASE EndWriting
  <2>1. \E r \in {"ok"} \cup Failures : Report(r)
    BY <1>18 DEF EndWriting
  <2> QED
    BY <1>18, <2>1, ReportFacts DEF EndWriting
<1>19. CASE ConsumeChunk
  BY <1>19 DEF ConsumeChunk
<1>20. CASE ReportStream
  BY <1>20 DEF ReportStream, Report
<1>21. CASE TakeRefusal
  BY <1>21 DEF TakeRefusal, ClientRuns
<1>22. CASE SourceFails
  BY <1>22 DEF SourceFails, ClientRuns
<1>23. CASE ReportUpload
  <2>1. UNCHANGED <<source, left, queued, client, net, link, handler, answer, target, chunks,
                    writer, written, result, app>>
    BY <1>23 DEF ReportUpload
  <2>2. shown' \in {"sent", "failed"} /\ open' \in {open, open \ {"reader"}}
    BY <1>23 DEF ReportUpload
  <2> QED
    BY <2>1, <2>2
<1> QED
  BY <1>1, <1>2, <1>3, <1>4, <1>5, <1>6, <1>7, <1>8, <1>9, <1>10, <1>11,
     <1>12, <1>13, <1>14, <1>15, <1>16, <1>17, <1>18, <1>19, <1>20,
     <1>21, <1>22, <1>23
     DEF SaveNext, Sender, Application, Handler, Writer

(* Phases.                                                                 *)
LEMMA PhaseStep == SaveTypeOK /\ Phases /\ SaveNext => Phases'
<1> SUFFICES ASSUME SaveTypeOK /\ Phases, SaveNext PROVE Phases'
  OBVIOUS
<1> USE SaveAssumption DEF SaveAssumption, SaveTypeOK, Phases, Early, Failures, Targets,
        sourceVars, senderVars, wireVars, handlerVars, channelVars, writerVars
<1>1. CASE ReadChunk
  BY <1>1 DEF ReadChunk, ClientRuns
<1>2. CASE EndReading
  BY <1>2 DEF EndReading
<1>3. CASE SendFrame
  BY <1>3 DEF SendFrame, ClientRuns
<1>4. CASE TakeAnswer
  BY <1>4 DEF TakeAnswer, ClientRuns
<1>5. CASE NoticeBreak
  BY <1>5 DEF NoticeBreak, ClientRuns
<1>6. CASE Cancel
  BY <1>6 DEF Cancel, ClientRuns
<1>7. CASE Break
  BY <1>7 DEF Break
<1>8. CASE Reject
  BY <1>8 DEF Reject
<1>9. ASSUME NEW t \in Targets, Respond(t) PROVE Phases'
  BY <1>9 DEF Respond, WriterOf
<1>10. CASE ForwardChunk
  BY <1>10 DEF ForwardChunk, Await
<1>11. CASE EndBody
  BY <1>11 DEF EndBody, Await
<1>12. CASE BodyFails
  BY <1>12 DEF BodyFails, Await
<1>13. CASE AnswerResult
  BY <1>13 DEF AnswerResult
<1>14. CASE AnswerTimeout
  BY <1>14 DEF AnswerTimeout
<1>15. CASE DropHandler
  BY <1>15 DEF DropHandler, Await
<1>16. CASE OpenFile
  BY <1>16 DEF OpenFile, Report
<1>17. CASE WriteChunk
  BY <1>17 DEF WriteChunk, Report
<1>18. CASE EndWriting
  BY <1>18 DEF EndWriting, Report, SizeMatches
<1>19. CASE ConsumeChunk
  BY <1>19 DEF ConsumeChunk
<1>20. CASE ReportStream
  BY <1>20 DEF ReportStream, Report
<1>21. CASE TakeRefusal
  BY <1>21 DEF TakeRefusal, ClientRuns
<1>22. CASE SourceFails
  BY <1>22 DEF SourceFails, ClientRuns
<1>23. CASE ReportUpload
  BY <1>23 DEF ReportUpload, ClientRuns
<1> QED
  BY <1>1, <1>2, <1>3, <1>4, <1>5, <1>6, <1>7, <1>8, <1>9, <1>10, <1>11,
     <1>12, <1>13, <1>14, <1>15, <1>16, <1>17, <1>18, <1>19, <1>20,
     <1>21, <1>22, <1>23
     DEF SaveNext, Sender, Application, Handler, Writer

(* The verdict.                                                            *)
LEMMA VerdictStep == SaveIInv /\ SaveNext => Verdict'
<1> SUFFICES ASSUME SaveIInv, SaveNext PROVE Verdict'
  OBVIOUS
<1> USE SaveAssumption DEF SaveAssumption, SaveIInv, SaveTypeOK, Phases, Verdict, Early, Failures, Answers, Targets,
        sourceVars, senderVars, wireVars, handlerVars, channelVars, writerVars
<1>1. CASE ReadChunk
  BY <1>1 DEF ReadChunk, ClientRuns
<1>2. CASE EndReading
  BY <1>2 DEF EndReading
<1>3. CASE SendFrame
  BY <1>3 DEF SendFrame, ClientRuns
<1>4. CASE TakeAnswer
  BY <1>4 DEF TakeAnswer, ClientRuns
<1>5. CASE NoticeBreak
  BY <1>5 DEF NoticeBreak, ClientRuns
<1>6. CASE Cancel
  BY <1>6 DEF Cancel, ClientRuns
<1>7. CASE Break
  BY <1>7 DEF Break
<1>8. CASE Reject
  BY <1>8 DEF Reject
<1>9. ASSUME NEW t \in Targets, Respond(t) PROVE Verdict'
  BY <1>9 DEF Respond, WriterOf
<1>10. CASE ForwardChunk
  BY <1>10 DEF ForwardChunk, Await
<1>11. CASE EndBody
  BY <1>11 DEF EndBody, Await
<1>12. CASE BodyFails
  BY <1>12 DEF BodyFails, Await
<1>13. CASE AnswerResult
  BY <1>13, StatusFacts DEF AnswerResult
<1>14. CASE AnswerTimeout
  BY <1>14 DEF AnswerTimeout
<1>15. CASE DropHandler
  BY <1>15 DEF DropHandler, Await
<1>16. CASE OpenFile
  BY <1>16 DEF OpenFile, Report
<1>17. CASE WriteChunk
  BY <1>17 DEF WriteChunk, Report
<1>18. CASE EndWriting
  BY <1>18 DEF EndWriting, Report, SizeMatches
<1>19. CASE ConsumeChunk
  BY <1>19 DEF ConsumeChunk
<1>20. CASE ReportStream
  BY <1>20 DEF ReportStream, Report
<1>21. CASE TakeRefusal
  BY <1>21 DEF TakeRefusal, ClientRuns
<1>22. CASE SourceFails
  BY <1>22 DEF SourceFails, ClientRuns
<1>23. CASE ReportUpload
  BY <1>23 DEF ReportUpload, ClientRuns
<1> QED
  BY <1>1, <1>2, <1>3, <1>4, <1>5, <1>6, <1>7, <1>8, <1>9, <1>10, <1>11,
     <1>12, <1>13, <1>14, <1>15, <1>16, <1>17, <1>18, <1>19, <1>20,
     <1>21, <1>22, <1>23
     DEF SaveNext, Sender, Application, Handler, Writer

LEMMA SaveStepInv == SaveIInv /\ [SaveNext]_saveVars => SaveIInv'
<1> SUFFICES ASSUME SaveIInv, [SaveNext]_saveVars PROVE SaveIInv'
  OBVIOUS
<1>1. CASE SaveNext
  BY <1>1, SaveTypeStep, PhaseStep, VerdictStep DEF SaveIInv
<1>2. CASE UNCHANGED saveVars
  BY <1>2 DEF saveVars, sourceVars, senderVars, wireVars, handlerVars, channelVars, writerVars,
     SaveIInv, SaveTypeOK, Phases, Verdict, Early, Answers, Failures, Sources, SourceCap, Targets
<1> QED
  BY <1>1, <1>2

LEMMA SaveInvariance == SaveSpec => []SaveIInv
  BY SaveInitInv, SaveStepInv, PTL DEF SaveSpec

(* SaveTypeCorrect: every variable always has a value of its type; no channel  *)
(* holds more than its capacity and no file grows beyond its size.         *)
THEOREM SaveTypeCorrect == SaveSpec => []SaveTypeOK
<1>1. SaveIInv => SaveTypeOK
  BY DEF SaveIInv
<1> QED
  BY <1>1, SaveInvariance, PTL

(* SentMeansSaved: the agreement of the two ends, for every size of the    *)
(* file, every length it really has and every capacity.                    *)
THEOREM SentMeansSaved == SaveSpec => []SentIsSaved
<1>1. SaveIInv => SentIsSaved
  BY DEF SaveIInv, Verdict, SentIsSaved
<1> QED
  BY <1>1, SaveInvariance, PTL

(* ReasonSurvives: the answer is the writer's verdict with its class.      *)
THEOREM ReasonSurvives == SaveSpec => []FailureIsNamed
<1>1. SaveIInv => FailureIsNamed
  BY DEF SaveIInv, Verdict, FailureIsNamed
<1> QED
  BY <1>1, SaveInvariance, PTL
=============================================================================
