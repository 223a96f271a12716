------------------------- MODULE RtcTransferProofs -------------------------
(***************************************************************************)
(* What RtcTransfer promises for every number of files and of attempts:    *)
(* nothing is shown or taken before its proof, and the framing of a        *)
(* channel without message boundaries keeps files and results apart.       *)
(***************************************************************************)
EXTENDS RtcTransfer, SequenceTheorems, TLAPS

-----------------------------------------------------------------------------
(* Types *)

SignalKind == {"join", "hello", "offer", "answer"}
PlainKind ==
  {"nonce", "token", "token ok", "token pin", "invalid", "pin required", "ok", "too many", "list",
   "declined", "delimiter", "response"}
Msg ==
  [kind : PlainKind, of : {None}] \cup [kind : {"pin"}, of : BOOLEAN]
    \cup [kind : {"tokens"}, of : SUBSET Files] \cup [kind : {"header", "chunk"}, of : Files]

SharedPhase ==
  {"idle", "channel", "nonce", "token", "verify", "pin", "pin asked", "pin sent", "failing", "failed",
   "ok"}
SenderPhase ==
  SharedPhase \cup {"offer", "offered", "answer", "selection", "sending", "closing", "response"}
ReceiverPhase ==
  SharedPhase \cup {"asked", "accepting", "status", "select", "selected", "declining", "receive",
                    "result", "header", "last status"}
\* Before a task, or the signaling, has got as far as the channel.
EarlyPhase == {"idle", "offer", "offered", "answer", "asked", "accepting"}
Phase(s) == IF s = "sender" THEN SenderPhase ELSE ReceiverPhase

SignalType ==
  /\ socket \in [Sides -> Seq(SignalKind)]
  /\ reading \in [Sides -> SignalKind \cup {None}]
  /\ channel \in [Sides -> SignalKind \cup {None}]
  /\ signal \in [Sides -> {"connecting", "hello", "up", "lost", "done", "failed"}]

LinkType ==
  /\ setup \in [pin : SUBSET Sides, known : SUBSET Sides]
  /\ link \in {None, "open", "lost", "closed"}
  /\ main \in [Sides -> {"running", "finished", "failed"}]
  /\ proved \in SUBSET Sides
  /\ wire \in [Sides -> Seq(Msg)] /\ inbox \in [Sides -> Seq(Msg)]

\* A task that handles a header, or sends the result before one, holds it.
PhaseType ==
  /\ pc \in [Sides -> SenderPhase \cup ReceiverPhase]
  /\ \A s \in Sides : pc[s] \in Phase(s)
  /\ pc["receiver"] = "result" => held.kind # None
  /\ pc["receiver"] = "header" => held.kind = "header"

FileType ==
  /\ selection \in SUBSET Files /\ sent \in SUBSET Files /\ reported \in SUBSET Files
  /\ handed \in Files \cup {None} /\ source \in Files \cup {None} /\ current \in Files \cup {None}
  /\ held \in [kind : {None, "header", "delimiter"}, of : Files \cup {None}, last : Files \cup {None}]
  /\ held.kind = "header" => held.of \in Files
  /\ given \in [Files -> Nat]
  /\ stream \in [Files -> {None, "open", "dropped", "ended", "cut"}]
  /\ got \in [Files -> Seq(Files)]
  /\ results \in Seq(Files)
  /\ responses \in SUBSET ((Files \cup {None}) \X Files)

TypeOK == SignalType /\ LinkType /\ PhaseType /\ FileType

\* The messages a task sends have the types of messages.
LEMMA MessageTypes ==
  /\ \A k \in PlainKind : Message(k) \in Msg
  /\ \A x \in BOOLEAN : About("pin", x) \in Msg
  /\ \A f \in Files : About("header", f) \in Msg /\ About("chunk", f) \in Msg
  /\ \A X \in SUBSET Files : About("tokens", X) \in Msg
  BY DEF Msg, Message, About

\* A message has what its kind calls for.
LEMMA MessageParts ==
  ASSUME NEW m \in Msg
  PROVE  /\ m.kind \in PlainKind => m = Message(m.kind)
         /\ m.kind = "pin" => m.of \in BOOLEAN /\ m = About("pin", m.of)
         /\ m.kind \in {"header", "chunk"} => m.of \in Files /\ m = About(m.kind, m.of)
         /\ m.kind \in PlainKind \cup {"pin", "tokens", "header", "chunk"}
  BY DEF Msg, Message, About, PlainKind

LEMMA OtherSide ==
  /\ \A s \in Sides : Peer(s) \in Sides /\ Peer(s) # s /\ Peer(Peer(s)) = s
  /\ \A s, t \in Sides : s # t => t = Peer(s)
  BY DEF Sides, Peer

-----------------------------------------------------------------------------
(* What a step does *)

\* A step by which a task talks to its peer about what is not a file.
Conversation(s) ==
  \/ s = "sender" /\ (SenderNonce \/ SendToken \/ SenderToken \/ SenderPassed \/ Selected
                        \/ SendDelimiter \/ TakeResponse)
  \/ s = "receiver" /\ (ReceiverOpens \/ ReceiverNonce \/ ReceiverToken \/ ReceiverPassed
                          \/ ReceiverStatus \/ SendTokens \/ Decline \/ SendDecline \/ LastStatus)
  \/ StorePin(s) \/ EnterPin(s) \/ PinAnswer(s) \/ VerifyPin(s) \/ Flush(s) \/ Unwanted(s)

\* A step that has to do with the files.
FileStep ==
  \/ Select \/ StartFile \/ SendChunk \/ EndFile \/ EndSending
  \/ TakeString \/ AnswerFile \/ StartReceiving \/ TakeChunk
  \/ \E f \in Files : HandOver(f) \/ ReportResult(f) \/ DropStream(f)

\* A step of the functions that spawned the tasks, or of the connection.
LinkStep == Lose \/ \E s \in Sides : Deliver(s) \/ Finish(s) \/ Fail(s) \/ Disconnect(s)

SignalStep == Signaling \/ \E s \in Sides : LoseSignal(s)

LEMMA StepKinds ==
  [Next]_vars => \/ \E s \in Sides : Conversation(s)
                 \/ FileStep \/ LinkStep \/ SignalStep \/ UNCHANGED vars
  BY DEF Next, Progress, Whim, Handshake, Transfer, Conversation, FileStep, LinkStep, SignalStep,
         Sides

\* It takes a message at most, and sends one at most.
Takes(s) == UNCHANGED inbox \/ (inbox[s] # <<>> /\ inbox' = [inbox EXCEPT ![s] = Tail(@)])
Talks(s) == \E next \in Phase(s) \ ({"result", "header"} \cup EarlyPhase) :
              Shake(s, <<>>, next) \/ \E m \in Msg : Shake(s, <<m>>, next)

LEMMA ConversationForm ==
  ASSUME TypeOK, NEW s \in Sides, Conversation(s)
  PROVE  /\ Takes(s) /\ Talks(s)
         /\ proved' \in {proved, proved \cup {s}}
         /\ pc[s] \notin EarlyPhase
<1> USE MessageTypes DEF Phase, SenderPhase, ReceiverPhase, SharedPhase, PlainKind, EarlyPhase
<1>0. Sides = {"sender", "receiver"}
  BY DEF Sides
<1>1. CASE s = "sender" /\ (SenderNonce \/ SendToken \/ SenderToken \/ SenderPassed \/ Selected
                             \/ SendDelimiter \/ TakeResponse)
  BY <1>1 DEF SenderNonce, SendToken, SenderToken, SenderPassed, Selected, SendDelimiter,
              TakeResponse, SenderProceeds, TakeNonce, Receive, Takes, Talks
<1>2. CASE s = "receiver" /\ (ReceiverOpens \/ ReceiverNonce \/ ReceiverToken \/ ReceiverPassed
                               \/ ReceiverStatus \/ SendTokens \/ Decline \/ SendDecline \/ LastStatus)
  BY <1>2 DEF ReceiverOpens, ReceiverNonce, ReceiverToken, ReceiverPassed, ReceiverStatus,
              SendTokens, Decline, SendDecline, LastStatus, TakeNonce, Receive, Takes, Talks, TypeOK,
              FileType
<1>3. CASE StorePin(s) \/ EnterPin(s) \/ PinAnswer(s) \/ Flush(s)
  BY <1>0, <1>3 DEF StorePin, EnterPin, PinAnswer, Flush, Receive, Takes, Talks
<1>4. CASE VerifyPin(s)
  BY <1>0, <1>4 DEF VerifyPin, Accept, Receive, Takes, Talks
<1>5. CASE Unwanted(s)
  BY <1>0, <1>5 DEF Unwanted, Receive, Takes, Talks
<1>6. QED
  BY <1>1, <1>2, <1>3, <1>4, <1>5 DEF Conversation

LEMMA TypeInit == Init => TypeOK
<1> SUFFICES ASSUME Init PROVE TypeOK
  OBVIOUS
<1>1. SignalType
  <2>1. \A n \in 0..MaxAhead : [i \in 1..n |-> "join"] \in Seq(SignalKind)
    BY RtcAssumption DEF SignalKind
  <2>2. QED
    BY <2>1 DEF Init, SignalType, SignalKind
<1>2. LinkType
  BY DEF Init, LinkType
<1>3. PhaseType
  BY DEF Init, PhaseType, Phase, SenderPhase, ReceiverPhase, SharedPhase, Sides
<1>4. FileType
  BY DEF Init, FileType, Handled, None
<1>5. QED
  BY <1>1, <1>2, <1>3, <1>4 DEF TypeOK

LEMMA SendThenTypes ==
  ASSUME TypeOK, NEW s \in Sides, NEW msgs, msgs = <<>> \/ \E m \in Msg : msgs = <<m>>,
         NEW next \in Phase(s), SendThen(s, msgs, next)
  PROVE  /\ wire' \in [Sides -> Seq(Msg)]
         /\ pc' \in [Sides -> SenderPhase \cup ReceiverPhase]
         /\ pc'[s] \in {next, "failed"} /\ \A t \in Sides : t # s => pc'[t] = pc[t]
         /\ \A t \in Sides : pc'[t] \in Phase(t)
<1>1. msgs \in Seq(Msg)
  <2>1. ASSUME NEW m \in Msg PROVE <<m>> \in Seq(Msg)
    OBVIOUS
  <2>2. <<>> \in Seq(Msg)
    OBVIOUS
  <2>3. QED
    BY <2>1, <2>2
<1>2. wire[s] \o msgs \in Seq(Msg)
  BY <1>1, ConcatProperties DEF TypeOK, LinkType
<1>3. wire' \in [Sides -> Seq(Msg)]
  BY <1>2 DEF SendThen, TypeOK, LinkType
<1>4. /\ pc' \in [Sides -> SenderPhase \cup ReceiverPhase]
      /\ pc'[s] \in {next, "failed"} /\ \A t \in Sides : t # s => pc'[t] = pc[t]
  BY DEF SendThen, TypeOK, PhaseType, Phase, SharedPhase, SenderPhase
<1>5. \A t \in Sides : "failed" \in Phase(t)
  BY DEF Phase, SenderPhase, ReceiverPhase, SharedPhase
<1>6. QED
  BY <1>3, <1>4, <1>5 DEF TypeOK, PhaseType

\* A step of the transfer leaves the signaling connections alone, and the files
\* are no business of the steps of the connection.
LEMMA Frames ==
  /\ \A s \in Sides : TypeOK /\ Conversation(s)
       => UNCHANGED <<setup, signalVars, answer, link, main, fileVars>>
  /\ FileStep => UNCHANGED handshakeVars
  /\ LinkStep => UNCHANGED <<setup, signalVars, answer, tries, proved, pc, fileVars>>
  /\ SignalStep => UNCHANGED <<setup, main, tries, proved, wire, inbox, fileVars>>
<1>1. ASSUME TypeOK, NEW s \in Sides, Conversation(s)
      PROVE  UNCHANGED <<setup, signalVars, answer, link, main, fileVars>>
  BY <1>1, ConversationForm DEF Talks, Shake
<1>2. FileStep => UNCHANGED handshakeVars
  BY DEF FileStep, Select, StartFile, SendChunk, EndFile, EndSending, TakeString, AnswerFile,
         StartReceiving, TakeChunk, HandOver, ReportResult, DropStream
<1>3. LinkStep => UNCHANGED <<setup, signalVars, answer, tries, proved, pc, fileVars>>
  BY DEF LinkStep, Lose, Deliver, Finish, Fail, Disconnect, EndLink, handshakeVars
<1>4. SignalStep => UNCHANGED <<setup, main, tries, proved, wire, inbox, fileVars>>
  <2>1. ASSUME NEW s \in Sides, Greet(s) \/ ReadSocket(s) \/ PassOn(s) \/ Connect(s) \/ LoseSignal(s)
        PROVE  UNCHANGED <<setup, main, tries, proved, wire, inbox, fileVars>>
    BY <2>1 DEF Greet, ReadSocket, PassOn, Connect, LoseSignal
  <2>2. ASSUME NEW s \in Sides, Listen(s)
        PROVE  UNCHANGED <<setup, main, tries, proved, wire, inbox, fileVars>>
    BY <2>2 DEF Listen
  <2>3. ASSUME SendOffer \/ SendAnswer \/ UserSends \/ OnAnswer \/ AcceptOffer
        PROVE  UNCHANGED <<setup, main, tries, proved, wire, inbox, fileVars>>
    BY <2>3 DEF SendOffer, SendAnswer, Signal, UserSends, OnAnswer, AcceptOffer, handshakeVars
  <2>4. QED
    BY <2>1, <2>2, <2>3 DEF SignalStep, Signaling
<1>5. QED
  BY <1>1, <1>2, <1>3, <1>4

LEMMA SignalTypeStep ==
  ASSUME TypeOK, [Next]_vars
  PROVE  SignalType'
<1> USE DEF SignalType
<1>0. /\ \A s \in Sides, k \in SignalKind : Append(socket[s], k) \in Seq(SignalKind)
      /\ \A s \in Sides : socket[s] # <<>> =>
           Head(socket[s]) \in SignalKind /\ Tail(socket[s]) \in Seq(SignalKind)
  BY AppendProperties, HeadTailProperties DEF TypeOK
<1>1. CASE UNCHANGED signalVars
  BY <1>1 DEF TypeOK, signalVars
<1>2. ASSUME NEW s \in Sides, Greet(s) PROVE SignalType'
  BY <1>0, <1>2 DEF Greet, TypeOK, SignalKind
<1>3. ASSUME NEW s \in Sides, ReadSocket(s) PROVE SignalType'
  BY <1>0, <1>3 DEF ReadSocket, TypeOK
<1>4. ASSUME NEW s \in Sides, PassOn(s) \/ Connect(s) PROVE SignalType'
  BY <1>4 DEF PassOn, Connect, TypeOK
<1>5. ASSUME NEW s \in Sides, Listen(s) PROVE SignalType'
  <2>1. UNCHANGED <<socket, reading>> /\ channel' = [channel EXCEPT ![s] = None]
    BY <1>5 DEF Listen
  <2>2. channel[s] \in SignalKind
    BY <1>5 DEF Listen, TypeOK
  <2>3. signal' = signal \/ signal' = [t \in Sides |-> "done"]
    BY <1>5, <2>2 DEF Listen, UseAnswer, SignalKind
  <2>4. QED
    BY <2>1, <2>3 DEF TypeOK
<1>6. ASSUME NEW s \in Sides, LoseSignal(s) PROVE SignalType'
  <2>1. <<>> \in Seq(SignalKind)
    OBVIOUS
  <2>2. QED
    BY <1>6, <2>1 DEF LoseSignal, TypeOK
<1>7. ASSUME NEW s \in Sides, NEW k \in SignalKind, NEW next, Signal(s, k, next) PROVE SignalType'
  BY <1>0, <1>7, OtherSide DEF Signal, TypeOK
<1>8. ASSUME SendOffer \/ SendAnswer \/ UserSends \/ OnAnswer \/ AcceptOffer PROVE SignalType'
  <2>1. CASE SendOffer \/ SendAnswer
    BY <1>7, <2>1 DEF SendOffer, SendAnswer, SignalKind, Sides
  <2>2. CASE UserSends \/ OnAnswer \/ AcceptOffer
    BY <1>1, <2>2 DEF UserSends, OnAnswer, AcceptOffer, handshakeVars
  <2>3. QED
    BY <1>8, <2>1, <2>2
<1>9. QED
  BY <1>1, <1>2, <1>3, <1>4, <1>5, <1>6, <1>8, StepKinds, Frames
     DEF SignalStep, Signaling, handshakeVars, vars

LEMMA LinkTypeStep ==
  ASSUME TypeOK, [Next]_vars
  PROVE  LinkType'
<1> USE DEF LinkType
<1>0. /\ \A s \in Sides, m \in Msg : Append(wire[s], m) \in Seq(Msg)
      /\ \A s \in Sides, m \in Msg : Append(inbox[s], m) \in Seq(Msg)
      /\ \A s \in Sides : wire[s] # <<>> => Head(wire[s]) \in Msg /\ Tail(wire[s]) \in Seq(Msg)
      /\ \A s \in Sides : inbox[s] # <<>> => Head(inbox[s]) \in Msg /\ Tail(inbox[s]) \in Seq(Msg)
  BY AppendProperties, HeadTailProperties DEF TypeOK
<1>1. ASSUME NEW s \in Sides, Conversation(s) PROVE LinkType'
  <2>1. wire' \in [Sides -> Seq(Msg)]
    BY <1>1, ConversationForm, SendThenTypes DEF Talks, Shake
  <2>2. inbox' \in [Sides -> Seq(Msg)]
    <3>1. Takes(s)
      BY <1>1, ConversationForm
    <3>2. QED
      BY <1>0, <3>1 DEF Takes, TypeOK
  <2>3. QED
    BY <1>1, <2>1, <2>2, ConversationForm, Frames DEF TypeOK
<1>2. CASE FileStep
  <2>1. wire' \in [Sides -> Seq(Msg)]
    <3>1. CASE UNCHANGED wire
      BY <3>1 DEF TypeOK
    <3>2. ASSUME NEW m \in Msg, Put(m) PROVE wire' \in [Sides -> Seq(Msg)]
      BY <1>0, <3>2 DEF Put, TypeOK, Sides
    <3>3. CASE StartFile
      BY <3>1, <3>2, <3>3, MessageTypes DEF StartFile, TypeOK, FileType
    <3>4. CASE SendChunk
      BY <3>2, <3>4, MessageTypes DEF SendChunk, TypeOK, FileType
    <3>5. CASE AnswerFile
      <4>1. Message("response") \in Msg /\ "receiver" \in Sides
        BY MessageTypes DEF PlainKind, Sides
      <4>2. \A next \in {"last status", "header"} : next \in Phase("receiver")
        BY DEF Phase, ReceiverPhase
      <4>3. QED
        BY <3>5, <4>1, <4>2, SendThenTypes DEF AnswerFile
    <3>6. QED
      BY <1>2, <3>1, <3>3, <3>4, <3>5
         DEF FileStep, Select, EndFile, EndSending, TakeString, StartReceiving, TakeChunk, HandOver,
             ReportResult, DropStream
  <2>2. inbox' \in [Sides -> Seq(Msg)]
    <3>1. CASE UNCHANGED inbox
      BY <3>1 DEF TypeOK
    <3>2. ASSUME NEW kind, Receive("receiver", kind) PROVE inbox' \in [Sides -> Seq(Msg)]
      BY <1>0, <3>2 DEF Receive, TypeOK, Sides
    <3>3. QED
      BY <1>2, <3>1, <3>2
         DEF FileStep, Select, StartFile, SendChunk, AnswerFile, EndFile, EndSending, TakeString,
             StartReceiving, TakeChunk, HandOver, ReportResult, DropStream
  <2>3. QED
    BY <1>2, <2>1, <2>2, Frames DEF TypeOK, handshakeVars
<1>3. CASE LinkStep
  <2>1. UNCHANGED <<setup, proved>>
    BY <1>3, Frames
  <2>2. ASSUME NEW s \in Sides, Deliver(s) PROVE LinkType'
    BY <1>0, <2>2, OtherSide DEF Deliver, TypeOK, handshakeVars
  <2>3. ASSUME NEW how \in {"lost", "closed"}, EndLink(how)
        PROVE  link' \in {None, "open", "lost", "closed"} /\ wire' \in [Sides -> Seq(Msg)]
    <3>1. <<>> \in Seq(Msg)
      OBVIOUS
    <3>2. QED
      BY <2>3, <3>1 DEF EndLink, TypeOK
  <2>4. CASE Lose
    BY <2>3, <2>4 DEF Lose, TypeOK
  <2>5. ASSUME NEW s \in Sides, Finish(s) PROVE LinkType'
    BY <2>3, <2>5 DEF Finish, TypeOK
  <2>6. ASSUME NEW s \in Sides, Fail(s) \/ Disconnect(s) PROVE LinkType'
    BY <2>6 DEF Fail, Disconnect, TypeOK
  <2>7. QED
    BY <1>3, <2>2, <2>4, <2>5, <2>6 DEF LinkStep
<1>4. CASE SignalStep
  <2>1. link' \in {link, "open"}
    <3>1. ASSUME NEW s \in Sides, Listen(s) PROVE link' \in {link, "open"}
      <4>1. channel[s] \in SignalKind
        BY <3>1 DEF Listen, TypeOK, SignalType
      <4>2. QED
        BY <3>1, <4>1 DEF Listen, UseAnswer, SignalKind
    <3>2. QED
      BY <1>4, <3>1
         DEF SignalStep, Signaling, Greet, ReadSocket, PassOn, Connect, LoseSignal, SendOffer,
             SendAnswer, Signal, UserSends, OnAnswer, AcceptOffer, handshakeVars
  <2>2. QED
    BY <1>4, <2>1, Frames DEF TypeOK
<1>5. CASE UNCHANGED vars
  BY <1>5 DEF vars, handshakeVars, TypeOK
<1>6. QED
  BY <1>1, <1>2, <1>3, <1>4, <1>5, StepKinds

LEMMA FileTypeStep ==
  ASSUME TypeOK, [Next]_vars
  PROVE  FileType'
<1> USE DEF FileType
<1>1. CASE UNCHANGED fileVars
  BY <1>1 DEF fileVars, sendVars, receiveVars, resultVars, TypeOK
<1>2. CASE FileStep
  <2>0. "receiver" \in Sides /\ "sender" \in Sides
    BY DEF Sides
  <2>h. ASSUME NEW kind, Receive("receiver", kind)
        PROVE  /\ Head(inbox["receiver"]) \in Msg /\ Head(inbox["receiver"]).kind = kind
    BY <2>0, <2>h, HeadTailProperties DEF Receive, TypeOK, LinkType
  <2>1. CASE Select \/ EndFile \/ EndSending \/ \E f \in Files : HandOver(f)
    BY <2>1 DEF Select, EndFile, EndSending, HandOver, receiveVars, resultVars, sendVars, fileVars, TypeOK
  <2>2. CASE StartFile \/ SendChunk
    BY <2>2 DEF StartFile, SendChunk, receiveVars, resultVars, TypeOK
  <2>3. CASE TakeString
    <3>1. PICK kind \in {"header", "delimiter"} : Receive("receiver", kind)
      BY <2>3 DEF TakeString
    <3>2. DEFINE m == Head(inbox["receiver"])
    <3>3. m \in Msg /\ m.kind = kind
      BY <2>h, <3>1
    <3>5. held' = Handled(kind, m.of, current) /\ current' = None
      BY <2>3, <3>3 DEF TakeString
    <3> HIDE DEF m
    <3>4. m.of \in Files \cup {None} /\ (kind = "header" => m.of \in Files)
      <4>1. kind = "delimiter" => m = Message("delimiter")
        BY <3>3, MessageParts DEF PlainKind
      <4>2. kind = "header" => m.of \in Files
        BY <3>3, MessageParts
      <4>3. QED
        BY <3>1, <4>1, <4>2 DEF Message
    <3>6. stream' \in [Files -> {None, "open", "dropped", "ended", "cut"}]
      BY <2>3 DEF TakeString, TypeOK
    <3>7. UNCHANGED <<sendVars, selection, got, resultVars>>
      BY <2>3 DEF TakeString
    <3>8. held' \in [kind : {None, "header", "delimiter"}, of : Files \cup {None}, last : Files \cup {None}]
          /\ (held'.kind = "header" => held'.of \in Files)
      BY <3>1, <3>4, <3>5 DEF Handled, TypeOK
    <3>9. QED
      BY <3>5, <3>6, <3>7, <3>8 DEF sendVars, resultVars, TypeOK
  <2>4. CASE AnswerFile
    <3>1. results # <<>> /\ results' = Tail(results) /\ responses' = responses \cup {<<held.last, Head(results)>>}
      BY <2>4 DEF AnswerFile
    <3>2. Tail(results) \in Seq(Files) /\ Head(results) \in Files
      BY <3>1, HeadTailProperties DEF TypeOK
    <3>3. held.last \in Files \cup {None}
      BY DEF TypeOK
    <3>4. <<held.last, Head(results)>> \in (Files \cup {None}) \X Files
      BY <3>2, <3>3
    <3>5. responses' \in SUBSET ((Files \cup {None}) \X Files)
      BY <3>1, <3>4 DEF TypeOK
    <3>6. QED
      BY <2>4, <3>1, <3>2, <3>5 DEF AnswerFile, sendVars, receiveVars, TypeOK
  <2>5. CASE StartReceiving
    <3>1. held.of \in Files
      BY <2>5 DEF StartReceiving, TypeOK, PhaseType
    <3>2. current' = held.of /\ held' = Handled(None, None, None) /\ stream' = [stream EXCEPT ![held.of] = "open"]
      BY <2>5 DEF StartReceiving
    <3>3. QED
      BY <2>5, <3>1, <3>2 DEF StartReceiving, sendVars, resultVars, Handled, TypeOK, None
  <2>6. CASE TakeChunk
    <3>1. Receive("receiver", "chunk")
      BY <2>6 DEF TakeChunk
    <3>2. DEFINE f == Head(inbox["receiver"]).of
    <3>3. f \in Files
      BY <2>h, <3>1, MessageParts
    <3> HIDE DEF f
    <3>4. ASSUME current # None PROVE current \in Files /\ Append(got[current], f) \in Seq(Files)
      BY <3>3, <3>4, AppendProperties DEF TypeOK
    <3>5. got' = got \/ (current # None /\ got' = [got EXCEPT ![current] = Append(@, f)])
      BY <2>6 DEF TakeChunk, f
    <3>6. stream' = stream \/ stream' = [stream EXCEPT ![current] = "cut"]
      BY <2>6 DEF TakeChunk
    <3>7. current' \in {None, current}
      BY <2>6 DEF TakeChunk
    <3>8. got' \in [Files -> Seq(Files)]
      BY <3>4, <3>5 DEF TypeOK
    <3>9. stream' \in [Files -> {None, "open", "dropped", "ended", "cut"}]
      BY <3>6 DEF TypeOK
    <3>10. QED
      BY <2>6, <3>7, <3>8, <3>9 DEF TakeChunk, sendVars, resultVars, TypeOK
  <2>7. ASSUME NEW f \in Files, ReportResult(f) PROVE FileType'
    <3>1. <<f>> \in Seq(Files)
      OBVIOUS
    <3>2. QED
      BY <2>7, <3>1 DEF ReportResult, sendVars, receiveVars, TypeOK
  <2>8. ASSUME NEW f \in Files, DropStream(f) PROVE FileType'
    BY <2>8 DEF DropStream, sendVars, resultVars, TypeOK
  <2>9. QED
    BY <1>2, <2>1, <2>2, <2>3, <2>4, <2>5, <2>6, <2>7, <2>8 DEF FileStep
<1>3. QED
  BY <1>1, <1>2, StepKinds, Frames DEF vars

-----------------------------------------------------------------------------
(* The offer *)

NoOffer(s) ==
  (\A i \in DOMAIN socket[s] : socket[s][i] # "offer") /\ reading[s] # "offer" /\ channel[s] # "offer"

\* One offer is made, to a receiver that is idle until it gets it.
Offers ==
  /\ NoOffer("sender")
  /\ pc["sender"] \in {"idle", "offer"} => NoOffer("receiver") /\ pc["receiver"] = "idle"
  /\ pc["receiver"] # "idle" => NoOffer("receiver")
  /\ \A i, j \in DOMAIN socket["receiver"] :
       socket["receiver"][i] = "offer" /\ socket["receiver"][j] = "offer" => i = j
  /\ (\E i \in DOMAIN socket["receiver"] : socket["receiver"][i] = "offer")
       => reading["receiver"] # "offer" /\ channel["receiver"] # "offer"
  /\ reading["receiver"] = "offer" => channel["receiver"] # "offer"

LEMMA PhaseTypeStep ==
  ASSUME TypeOK, Offers, [Next]_vars
  PROVE  PhaseType'
<1> USE DEF PhaseType
<1>0. "receiver" \in Sides /\ "sender" \in Sides /\ "receiver" # "sender"
  BY DEF Sides
<1>p. /\ \A q \in {"channel", "failed", "offer", "offered", "answer", "sending", "closing"} : q \in Phase("sender")
      /\ \A q \in ReceiverPhase : q \in Phase("receiver")
      /\ \A q \in {"channel", "failed", "asked", "accepting"} : q \in Phase("receiver") \ {"result", "header"}
      /\ \A s \in Sides : Phase(s) \subseteq SenderPhase \cup ReceiverPhase
  BY DEF Phase, SenderPhase, ReceiverPhase, SharedPhase
<1>1. CASE UNCHANGED <<pc, held>>
  BY <1>1 DEF TypeOK
<1>2. ASSUME NEW s \in Sides, NEW q \in Phase(s), q \notin {"result", "header"},
             pc' = [pc EXCEPT ![s] = q], UNCHANGED held
      PROVE  PhaseType'
  BY <1>0, <1>2, <1>p DEF TypeOK
<1>3. ASSUME NEW s \in Sides, Conversation(s) PROVE PhaseType'
  <2>1. PICK next \in Phase(s) \ {"result", "header"} : 
           Shake(s, <<>>, next) \/ \E m \in Msg : Shake(s, <<m>>, next)
    BY <1>3, ConversationForm DEF Talks
  <2>2. /\ pc' \in [Sides -> SenderPhase \cup ReceiverPhase]
        /\ pc'[s] \in {next, "failed"} /\ \A t \in Sides : t # s => pc'[t] = pc[t]
        /\ \A t \in Sides : pc'[t] \in Phase(t)
    BY <2>1, SendThenTypes DEF Shake
  <2>3. UNCHANGED held
    BY <1>3, Frames DEF fileVars, receiveVars
  <2>4. QED
    BY <1>0, <2>2, <2>3 DEF TypeOK
<1>4. CASE FileStep
  <2>1. CASE \/ Select \/ StartFile \/ SendChunk \/ EndFile \/ EndSending \/ TakeChunk
             \/ \E f \in Files : HandOver(f) \/ ReportResult(f) \/ DropStream(f)
    <3>1. UNCHANGED held
      BY <2>1 DEF Select, StartFile, SendChunk, EndFile, EndSending, TakeChunk, HandOver, ReportResult,
                  DropStream, fileVars, receiveVars
    <3>2. \/ UNCHANGED pc
          \/ pc' = [pc EXCEPT !["receiver"] = "selected"] \/ pc' = [pc EXCEPT !["receiver"] = "failed"]
          \/ pc' = [pc EXCEPT !["sender"] = "closing"]
      BY <2>1 DEF Select, StartFile, SendChunk, EndFile, EndSending, TakeChunk, HandOver, ReportResult,
                  DropStream
    <3>3. QED
      BY <1>0, <1>1, <1>2, <1>p, <3>1, <3>2 DEF ReceiverPhase, SharedPhase
  <2>2. CASE TakeString
    <3>1. PICK kind \in {"header", "delimiter"} :
             /\ Receive("receiver", kind)
             /\ pc' = [pc EXCEPT !["receiver"] =
                         IF current # None THEN "result"
                         ELSE IF kind = "header" THEN "header" ELSE "failed"]
      BY <2>2 DEF TakeString
    <3>2. held'.kind = kind
      BY <2>2, <3>1 DEF TakeString, Receive, Handled
    <3>3. QED
      BY <1>0, <1>p, <3>1, <3>2 DEF TypeOK, ReceiverPhase, SharedPhase, None
  <2>3. CASE AnswerFile
    <3>1. PICK next \in {"last status", "header"} :
             /\ SendThen("receiver", <<Message("response")>>, next)
             /\ next = "header" => held.kind # "delimiter"
      BY <2>3 DEF AnswerFile
    <3>2. held.kind # None /\ held' = held
      BY <2>3 DEF AnswerFile, TypeOK, receiveVars
    <3>3. Message("response") \in Msg /\ next \in Phase("receiver")
      BY MessageTypes, <1>p DEF PlainKind, ReceiverPhase
    <3>4. /\ pc' \in [Sides -> SenderPhase \cup ReceiverPhase]
          /\ pc'["receiver"] \in {next, "failed"}
          /\ \A t \in Sides : pc'[t] \in Phase(t)
      BY <1>0, <3>1, <3>3, SendThenTypes
    <3>5. next = "header" => held.kind = "header"
      BY <3>1, <3>2 DEF TypeOK, FileType
    <3>6. QED
      BY <3>2, <3>4, <3>5
  <2>4. CASE StartReceiving
    BY <1>0, <1>p, <2>4 DEF StartReceiving, TypeOK, ReceiverPhase
  <2>5. QED
    BY <1>4, <2>1, <2>2, <2>3, <2>4 DEF FileStep
<1>5. CASE SignalStep
  <2>1. UNCHANGED held
    BY <1>5, Frames DEF fileVars, receiveVars
  <2>2. ASSUME NEW s \in Sides, Listen(s) PROVE PhaseType'
    <3>1. channel[s] \in SignalKind
      BY <2>2 DEF Listen, TypeOK, SignalType
    <3>2. CASE channel[s] = "offer"
      <4>1. s = "receiver"
        BY <3>2 DEF Offers, NoOffer, Sides
      <4>2. QED
        BY <1>0, <1>2, <1>p, <2>1, <2>2, <3>2, <4>1 DEF Listen
    <3>3. CASE channel[s] # "offer"
      BY <1>0, <1>1, <1>2, <1>p, <2>1, <2>2, <3>1, <3>3 DEF Listen, UseAnswer, SignalKind
    <3>4. QED
      BY <3>2, <3>3
  <2>3. ASSUME NEW s \in Sides, NEW k, NEW next \in Phase(s), next \notin {"result", "header"},
               Signal(s, k, next)
        PROVE  PhaseType'
    <3>1. "failed" \in Phase(s)
      BY DEF Phase, SenderPhase, ReceiverPhase, SharedPhase
    <3>2. QED
      BY <1>2, <2>1, <2>3, <3>1 DEF Signal
  <2>4. CASE SendOffer \/ SendAnswer
    BY <1>0, <1>p, <2>3, <2>4 DEF SendOffer, SendAnswer
  <2>5. CASE UserSends \/ OnAnswer \/ AcceptOffer
    BY <1>0, <1>2, <1>p, <2>1, <2>5 DEF UserSends, OnAnswer, AcceptOffer
  <2>6. ASSUME NEW s \in Sides, Greet(s) \/ ReadSocket(s) \/ PassOn(s) \/ Connect(s) \/ LoseSignal(s)
        PROVE  UNCHANGED pc
    BY <2>6 DEF Greet, ReadSocket, PassOn, Connect, LoseSignal
  <2>7. QED
    BY <1>1, <1>5, <2>1, <2>2, <2>4, <2>5, <2>6 DEF SignalStep, Signaling
<1>6. QED
  BY <1>1, <1>3, <1>4, <1>5, StepKinds, Frames DEF vars, fileVars, receiveVars

LEMMA TypeStep ==
  ASSUME TypeOK, Offers, [Next]_vars
  PROVE  TypeOK'
  BY SignalTypeStep, LinkTypeStep, PhaseTypeStep, FileTypeStep DEF TypeOK

\* Once the channel is open nobody goes back to making an offer.
LEMMA Underway ==
  ASSUME TypeOK, (\E s \in Sides : Conversation(s)) \/ FileStep \/ LinkStep
  PROVE  \A s \in Sides, q \in EarlyPhase : pc'[s] = q <=> pc[s] = q
<1>1. ASSUME NEW s \in Sides, Conversation(s)
      PROVE  \A t \in Sides, q \in EarlyPhase : pc'[t] = q <=> pc[t] = q
  <2>1. PICK next \in Phase(s) \ ({"result", "header"} \cup EarlyPhase) :
           Shake(s, <<>>, next) \/ \E m \in Msg : Shake(s, <<m>>, next)
    BY <1>1, ConversationForm DEF Talks
  <2>2. pc'[s] \in {next, "failed"} /\ \A t \in Sides : t # s => pc'[t] = pc[t]
    BY <2>1, SendThenTypes DEF Shake
  <2>3. pc[s] \notin EarlyPhase
    BY <1>1, ConversationForm
  <2>4. pc'[s] \notin EarlyPhase
    BY <2>1, <2>2 DEF EarlyPhase
  <2>5. QED
    BY <2>2, <2>3, <2>4
<1>2. CASE FileStep
  <2>1. \/ UNCHANGED pc
        \/ \E s \in Sides, q \in SenderPhase \cup ReceiverPhase :
             pc' = [pc EXCEPT ![s] = q] /\ q \notin EarlyPhase /\ pc[s] \notin EarlyPhase
    <3>1. CASE Select \/ EndSending
      BY <3>1 DEF Select, EndSending, Sides, EarlyPhase, SenderPhase, ReceiverPhase
    <3>2. CASE TakeString \/ StartReceiving \/ TakeChunk
      BY <3>2 DEF TakeString, StartReceiving, TakeChunk, Sides, EarlyPhase, SenderPhase, ReceiverPhase, SharedPhase
    <3>3. CASE AnswerFile
      BY <3>3 DEF AnswerFile, SendThen, Sides, EarlyPhase, SenderPhase, ReceiverPhase, SharedPhase
    <3>4. QED
      BY <1>2, <3>1, <3>2, <3>3
         DEF FileStep, StartFile, SendChunk, EndFile, HandOver, ReportResult, DropStream
  <2>2. QED
    BY <2>1 DEF TypeOK, PhaseType
<1>3. CASE LinkStep
  BY <1>3, Frames
<1>4. QED
  BY <1>1, <1>2, <1>3

LEMMA OffersInit == Init => Offers
<1> SUFFICES ASSUME Init PROVE Offers
  OBVIOUS
<1>1. \A s \in Sides : NoOffer(s)
  BY DEF Init, NoOffer, None
<1>2. QED
  BY <1>1 DEF Init, Offers, NoOffer, Sides

LEMMA OffersStep ==
  ASSUME TypeOK, Offers, [Next]_vars
  PROVE  Offers'
<1> DEFINE S == "sender"
           R == "receiver"
           Idle == pc[S] \in {"idle", "offer"}
           Queued == \E i \in DOMAIN socket[R] : socket[R][i] = "offer"
<1>s. S \in Sides /\ R \in Sides /\ S # R /\ \A s \in Sides : s \in {S, R}
  BY DEF Sides
<1>0. /\ \A s \in Sides : DOMAIN socket[s] = 1..Len(socket[s]) /\ Len(socket[s]) \in Nat
      /\ \A s \in Sides, k \in SignalKind :
           \A i \in DOMAIN Append(socket[s], k) :
             \/ i \in DOMAIN socket[s] /\ Append(socket[s], k)[i] = socket[s][i]
             \/ i = Len(socket[s]) + 1 /\ Append(socket[s], k)[i] = k
      /\ \A s \in Sides : socket[s] # <<>> =>
           /\ 1 \in DOMAIN socket[s] /\ socket[s][1] = Head(socket[s])
           /\ \A i \in DOMAIN Tail(socket[s]) :
                i \in Nat \ {0} /\ i + 1 \in DOMAIN socket[s] /\ Tail(socket[s])[i] = socket[s][i + 1]
  BY AppendProperties, HeadTailProperties, LenProperties DEF TypeOK, SignalType
<1>1. ASSUME UNCHANGED <<socket, reading, channel>>,
             pc'[S] \in {"idle", "offer"} => Idle, pc'[R] = "idle" <=> pc[R] = "idle"
      PROVE  Offers'
  BY <1>1 DEF Offers, NoOffer
<1>2. CASE (\E s \in Sides : Conversation(s)) \/ FileStep \/ LinkStep
  <2>1. UNCHANGED <<socket, reading, channel>>
    BY <1>2, Frames DEF signalVars, handshakeVars
  <2>2. \A s \in Sides, q \in {"idle", "offer"} : pc'[s] = q <=> pc[s] = q
    BY <1>2, Underway DEF EarlyPhase
  <2>3. QED
    BY <1>1, <1>s, <2>1, <2>2
<1>3. ASSUME NEW s \in Sides, Greet(s) PROVE Offers'
  <2>1. /\ UNCHANGED <<reading, channel, pc>>
        /\ \A t \in Sides : t # s => socket'[t] = socket[t]
        /\ socket'[s] = Append(socket[s], "hello")
    BY <1>3 DEF Greet, TypeOK, SignalType
  <2>2. \A t \in Sides : \A i \in DOMAIN socket'[t] :
           socket'[t][i] = "offer" => i \in DOMAIN socket[t] /\ socket[t][i] = "offer"
    <3>1. "hello" \in SignalKind
      BY DEF SignalKind
    <3>2. \A i \in DOMAIN socket'[s] :
            socket'[s][i] = "offer" => i \in DOMAIN socket[s] /\ socket[s][i] = "offer"
      BY <1>0, <2>1, <3>1
    <3>3. QED
      BY <2>1, <3>2
  <2>3. QED
    BY <1>s, <2>1, <2>2 DEF Offers, NoOffer
<1>4. ASSUME NEW s \in Sides, ReadSocket(s) PROVE Offers'
  <2>1. /\ UNCHANGED <<channel, pc>> /\ socket[s] # <<>> /\ reading[s] = None
        /\ \A t \in Sides : t # s => socket'[t] = socket[t] /\ reading'[t] = reading[t]
        /\ socket'[s] = Tail(socket[s]) /\ reading'[s] = socket[s][1]
    BY <1>0, <1>4 DEF ReadSocket, TypeOK, SignalType
  <2>2. \A t \in Sides : \A i \in DOMAIN socket'[t] :
           \/ t # s /\ i \in DOMAIN socket[t] /\ socket'[t][i] = socket[t][i]
           \/ t = s /\ i + 1 \in DOMAIN socket[t] /\ socket'[t][i] = socket[t][i + 1] /\ i \in Nat \ {0}
    <3>1. \A i \in DOMAIN socket'[s] :
            i + 1 \in DOMAIN socket[s] /\ socket'[s][i] = socket[s][i + 1] /\ i \in Nat \ {0}
      BY <1>0, <2>1
    <3>2. QED
      BY <2>1, <3>1
  <2>3. CASE s = S
    BY <1>0, <1>s, <2>1, <2>2, <2>3 DEF Offers, NoOffer
  <2>4. CASE s = R
    <3>1. /\ \A i \in DOMAIN socket'[R] : i + 1 \in DOMAIN socket[R] /\ socket'[R][i] = socket[R][i + 1] /\ i \in Nat \ {0}
          /\ socket'[S] = socket[S] /\ reading'[S] = reading[S] /\ 1 \in DOMAIN socket[R]
      BY <1>0, <1>s, <2>1, <2>2, <2>4
    <3>2. \A i, j \in DOMAIN socket'[R] : socket'[R][i] = "offer" /\ socket'[R][j] = "offer" => i = j
      BY <3>1 DEF Offers
    <3>3. \A i \in DOMAIN socket'[R] : socket'[R][i] = "offer" => reading'[R] # "offer" /\ channel[R] # "offer"
      BY <2>1, <2>4, <3>1 DEF Offers
    <3>4. reading'[R] = "offer" => Queued
      BY <2>1, <2>4, <3>1
    <3>5. \A i \in DOMAIN socket'[R] : socket'[R][i] = "offer" => Queued
      BY <3>1
    <3>6. NoOffer(R) => NoOffer(R)'
      BY <2>1, <3>4, <3>5 DEF NoOffer
    <3>7. NoOffer(S)'
      BY <2>1, <3>1 DEF Offers, NoOffer
    <3>8. QED
      BY <2>1, <3>2, <3>3, <3>4, <3>6, <3>7 DEF Offers
  <2>5. QED
    BY <1>s, <2>3, <2>4
<1>5. ASSUME NEW s \in Sides, PassOn(s) PROVE Offers'
  <2>1. /\ UNCHANGED <<socket, pc>> /\ channel[s] = None /\ channel'[s] = reading[s] /\ reading'[s] = None
        /\ \A t \in Sides : t # s => channel'[t] = channel[t] /\ reading'[t] = reading[t]
    BY <1>5 DEF PassOn, TypeOK, SignalType
  <2>2. QED
    BY <1>s, <2>1 DEF Offers, NoOffer, None
<1>6. ASSUME NEW s \in Sides, Connect(s) PROVE Offers'
  BY <1>1, <1>6 DEF Connect
<1>7. ASSUME NEW s \in Sides, Listen(s) PROVE Offers'
  <2>1. /\ UNCHANGED <<socket, reading>> /\ channel'[s] = None
        /\ \A t \in Sides : t # s => channel'[t] = channel[t]
    BY <1>7 DEF Listen, TypeOK, SignalType
  <2>2. channel[s] \in SignalKind
    BY <1>7 DEF Listen, TypeOK, SignalType
  <2>3. CASE channel[s] = "offer"
    <3>1. s = R /\ pc'[R] = "asked" /\ pc'[S] = pc[S]
      BY <1>7, <1>s, <2>3 DEF Offers, NoOffer, Listen, TypeOK, PhaseType
    <3>2. /\ ~Queued /\ reading[R] # "offer" /\ ~Idle
      BY <2>3, <3>1 DEF Offers, NoOffer
    <3>3. QED
      BY <1>s, <2>1, <3>1, <3>2 DEF Offers, NoOffer, None
  <2>4. CASE channel[s] # "offer"
    <3>1. pc' = pc \/ (pc[s] = "answer" /\ pc' = [pc EXCEPT ![S] = "channel"])
      BY <1>7, <2>2, <2>4 DEF Listen, UseAnswer, SignalKind
    <3>2. s = R => pc[s] # "answer"
      BY DEF TypeOK, PhaseType, Phase, ReceiverPhase, SharedPhase
    <3>3. pc'[R] = pc[R] /\ (pc'[S] \in {"idle", "offer"} => Idle)
      BY <1>s, <3>1, <3>2 DEF TypeOK, PhaseType
    <3>4. QED
      BY <1>s, <2>1, <2>4, <3>3 DEF Offers, NoOffer, None
  <2>5. QED
    BY <2>3, <2>4
<1>8. ASSUME NEW s \in Sides, LoseSignal(s) PROVE Offers'
  <2>1. /\ UNCHANGED <<reading, channel, pc>> /\ socket'[s] = <<>>
        /\ \A t \in Sides : t # s => socket'[t] = socket[t]
    BY <1>8 DEF LoseSignal, TypeOK, SignalType
  <2>2. \A t \in Sides : \A i \in DOMAIN socket'[t] : i \in DOMAIN socket[t] /\ socket'[t][i] = socket[t][i]
    <3>1. DOMAIN socket'[s] = {}
      BY <2>1
    <3>2. QED
      BY <2>1, <3>1
  <2>3. QED
    BY <1>s, <2>1, <2>2 DEF Offers, NoOffer
<1>9. ASSUME SendOffer PROVE Offers'
  <2>1. /\ UNCHANGED <<reading, channel>> /\ pc[S] = "offer" /\ pc'[S] \in {"offered", "failed"}
        /\ pc'[R] = pc[R] /\ socket'[S] = socket[S] /\ socket'[R] \in {socket[R], Append(socket[R], "offer")}
    BY <1>9, <1>s DEF SendOffer, Signal, Peer, TypeOK, PhaseType, SignalType
  <2>2. NoOffer(R) /\ NoOffer(S) /\ pc[R] = "idle"
    BY <2>1 DEF Offers
  <2>3. \A i \in DOMAIN socket'[R] : socket'[R][i] = "offer" => i = Len(socket[R]) + 1
    BY <1>0, <1>s, <2>1, <2>2 DEF NoOffer, SignalKind
  <2>4. QED
    BY <2>1, <2>2, <2>3 DEF Offers, NoOffer
<1>10. ASSUME SendAnswer PROVE Offers'
  <2>1. /\ UNCHANGED <<reading, channel>> /\ pc[R] = "accepting" /\ pc'[R] \in {"channel", "failed"}
        /\ pc'[S] = pc[S] /\ socket'[R] = socket[R] /\ socket'[S] \in {socket[S], Append(socket[S], "answer")}
    BY <1>10, <1>s DEF SendAnswer, Signal, Peer, TypeOK, PhaseType, SignalType
  <2>2. \A i \in DOMAIN socket'[S] : socket'[S][i] # "offer"
    <3>1. \A i \in DOMAIN socket[S] : socket[S][i] # "offer"
      BY DEF Offers, NoOffer
    <3>2. \A i \in DOMAIN Append(socket[S], "answer") : Append(socket[S], "answer")[i] # "offer"
      BY <1>0, <1>s, <3>1 DEF SignalKind
    <3>3. QED
      BY <2>1, <3>1, <3>2
  <2>3. QED
    BY <2>1, <2>2 DEF Offers, NoOffer
<1>11. ASSUME UserSends \/ OnAnswer \/ AcceptOffer PROVE Offers'
  <2>1. UNCHANGED <<socket, reading, channel>>
    BY <1>11 DEF UserSends, OnAnswer, AcceptOffer, handshakeVars, signalVars
  <2>2. /\ pc'[S] \in {"idle", "offer"} => Idle
        /\ pc'[R] = "idle" <=> pc[R] = "idle"
    BY <1>11, <1>s DEF UserSends, OnAnswer, AcceptOffer, TypeOK, PhaseType
  <2>3. QED
    BY <1>1, <2>1, <2>2
<1>12. CASE UNCHANGED vars
  BY <1>1, <1>12 DEF vars, handshakeVars, signalVars
<1>13. QED
  BY <1>2, <1>3, <1>4, <1>5, <1>6, <1>7, <1>8, <1>9, <1>10, <1>11, <1>12, StepKinds
     DEF SignalStep, Signaling

-----------------------------------------------------------------------------
(* Messages on their way *)

Elements(q) == {q[i] : i \in DOMAIN q}

\* What a side sent and its peer did not take yet.
InFlight(s) == Elements(inbox[Peer(s)]) \cup Elements(wire[s])

LEMMA ElementFacts ==
  ASSUME NEW M, NEW q \in Seq(M)
  PROVE  /\ \A m \in M : Elements(Append(q, m)) = Elements(q) \cup {m}
         /\ \A m \in M : Elements(q \o <<m>>) = Elements(q) \cup {m}
         /\ q \o <<>> = q
         /\ q # <<>> => /\ Head(q) \in Elements(q) /\ Elements(Tail(q)) \subseteq Elements(q)
                        /\ Elements(q) = Elements(Tail(q)) \cup {Head(q)}
<1>0. DOMAIN q = 1 .. Len(q) /\ Len(q) \in Nat
  BY LenProperties
<1>1. \A m \in M : Elements(Append(q, m)) = Elements(q) \cup {m}
  <2> SUFFICES ASSUME NEW m \in M PROVE Elements(Append(q, m)) = Elements(q) \cup {m}
    OBVIOUS
  <2> DEFINE r == Append(q, m)
  <2>1. /\ DOMAIN r = 1 .. (Len(q) + 1) /\ r[Len(q) + 1] = m
        /\ \A i \in 1 .. Len(q) : r[i] = q[i]
    BY AppendProperties, LenProperties
  <2> HIDE DEF r
  <2>2. Elements(r) \subseteq Elements(q) \cup {m}
    BY <1>0, <2>1 DEF Elements
  <2>3. \A i \in DOMAIN q : i \in DOMAIN r /\ r[i] = q[i]
    BY <1>0, <2>1
  <2>4. Elements(q) \subseteq Elements(r)
    BY <2>3 DEF Elements
  <2>5. m \in Elements(r)
    BY <1>0, <2>1 DEF Elements
  <2>6. QED
    BY <2>2, <2>4, <2>5 DEF r
<1>2. \A m \in M : q \o <<m>> = Append(q, m)
  BY AppendIsConcat
<1>3. ASSUME q # <<>>
      PROVE  /\ Head(q) \in Elements(q) /\ Elements(Tail(q)) \subseteq Elements(q)
             /\ Elements(q) = Elements(Tail(q)) \cup {Head(q)}
  <2> DEFINE r == Tail(q)
  <2>1. /\ 1 \in DOMAIN q /\ q[1] = Head(q)
        /\ DOMAIN r = 1 .. (Len(q) - 1)
        /\ \A i \in DOMAIN r : r[i] = q[i + 1]
    BY <1>3, HeadTailProperties, LenProperties
  <2> HIDE DEF r
  <2>2. Head(q) \in Elements(q)
    BY <2>1 DEF Elements
  <2>3. \A i \in DOMAIN r : i + 1 \in DOMAIN q
    BY <1>0, <2>1
  <2>4. Elements(r) \subseteq Elements(q)
    BY <2>1, <2>3 DEF Elements
  <2>5. \A i \in DOMAIN q : i # 1 => i - 1 \in DOMAIN r /\ r[i - 1] = q[i]
    BY <1>0, <2>1
  <2>6. Elements(q) \subseteq Elements(r) \cup {Head(q)}
    BY <2>1, <2>5 DEF Elements
  <2>7. QED
    BY <2>2, <2>4, <2>6 DEF r
<1>4. q \o <<>> = q
  BY ConcatEmptySeq
<1>5. QED
  BY <1>1, <1>2, <1>3, <1>4

\* A side says at most what is in M, its peer nothing.
Says(s, M) ==
  InFlight(s)' \subseteq InFlight(s) \cup M /\ InFlight(Peer(s))' \subseteq InFlight(Peer(s))

LEMMA SendThenSays ==
  ASSUME TypeOK, NEW s \in Sides, Takes(s), NEW next
  PROVE  /\ SendThen(s, <<>>, next) => Says(s, {})
         /\ \A m \in Msg : SendThen(s, <<m>>, next) => Says(s, {m})
<1>1. inbox'[Peer(s)] = inbox[Peer(s)] /\ Elements(inbox'[s]) \subseteq Elements(inbox[s])
  <2>1. inbox[s] \in Seq(Msg) /\ Peer(s) \in Sides /\ Peer(s) # s
    BY OtherSide DEF TypeOK, LinkType
  <2>2. inbox'[Peer(s)] = inbox[Peer(s)]
    BY <2>1 DEF Takes, TypeOK, LinkType
  <2>3. inbox'[s] = inbox[s] \/ (inbox[s] # <<>> /\ inbox'[s] = Tail(inbox[s]))
    BY DEF Takes, TypeOK, LinkType
  <2>4. inbox[s] # <<>> => Elements(Tail(inbox[s])) \subseteq Elements(inbox[s])
    BY <2>1, ElementFacts
  <2>5. QED
    BY <2>2, <2>3, <2>4
<1>2. ASSUME NEW msgs, SendThen(s, msgs, next)
      PROVE  wire'[Peer(s)] = wire[Peer(s)] /\ wire'[s] \in {wire[s], wire[s] \o msgs}
  BY <1>2, OtherSide DEF SendThen, TypeOK, LinkType
<1>3. ASSUME SendThen(s, <<>>, next) PROVE Says(s, {})
  BY <1>1, <1>2, <1>3, OtherSide, ElementFacts DEF Says, InFlight, TypeOK, LinkType
<1>4. ASSUME NEW m \in Msg, SendThen(s, <<m>>, next) PROVE Says(s, {m})
  <2>1. Elements(wire[s] \o <<m>>) = Elements(wire[s]) \cup {m}
    BY ElementFacts DEF TypeOK, LinkType
  <2>2. QED
    BY <1>1, <1>2, <1>4, <2>1, OtherSide DEF Says, InFlight
<1>5. QED
  BY <1>3, <1>4

\* What a message taken says, its sender said.
LEMMA Taken ==
  ASSUME TypeOK, NEW s \in Sides, NEW kind, Receive(s, kind)
  PROVE  /\ Takes(s) /\ Head(inbox[s]) \in Msg /\ Head(inbox[s]).kind = kind
         /\ Head(inbox[s]) \in InFlight(Peer(s))
  BY OtherSide, ElementFacts, HeadTailProperties DEF Receive, Takes, InFlight, TypeOK, LinkType

\* On the way nothing comes to what was sent.
LEMMA LinkSays ==
  ASSUME TypeOK, LinkStep \/ SignalStep \/ UNCHANGED vars, NEW s \in Sides
  PROVE  InFlight(s)' \subseteq InFlight(s)
<1>1. CASE UNCHANGED <<wire, inbox>>
  BY <1>1 DEF InFlight
<1>2. ASSUME NEW t \in Sides, Deliver(t) PROVE InFlight(s)' \subseteq InFlight(s)
  <2>1. CASE t = s
    <3>1. /\ wire[s] # <<>> /\ wire'[s] = Tail(wire[s])
          /\ inbox'[Peer(s)] = Append(inbox[Peer(s)], Head(wire[s]))
          /\ wire[s] \in Seq(Msg) /\ inbox[Peer(s)] \in Seq(Msg) /\ Head(wire[s]) \in Msg
      BY <1>2, <2>1, OtherSide, HeadTailProperties DEF Deliver, TypeOK, LinkType
    <3>2. /\ Elements(inbox'[Peer(s)]) = Elements(inbox[Peer(s)]) \cup {Head(wire[s])}
          /\ Elements(wire'[s]) \subseteq Elements(wire[s]) /\ Head(wire[s]) \in Elements(wire[s])
      BY <3>1, ElementFacts
    <3>3. QED
      BY <3>2 DEF InFlight
  <2>2. CASE t # s
    <3>1. wire'[s] = wire[s] /\ inbox'[Peer(s)] = inbox[Peer(s)]
      BY <1>2, <2>2, OtherSide DEF Deliver, TypeOK, LinkType
    <3>2. QED
      BY <3>1 DEF InFlight
  <2>3. QED
    BY <2>1, <2>2
<1>3. ASSUME NEW how, EndLink(how), UNCHANGED inbox PROVE InFlight(s)' \subseteq InFlight(s)
  <2>1. Elements(wire'[s]) = {}
    <3>1. wire'[s] = <<>>
      BY <1>3 DEF EndLink
    <3>2. DOMAIN <<>> = {}
      OBVIOUS
    <3>3. QED
      BY <3>1, <3>2 DEF Elements
  <2>2. QED
    BY <1>3, <2>1 DEF InFlight
<1>4. CASE LinkStep
  BY <1>1, <1>2, <1>3, <1>4 DEF LinkStep, Lose, Finish, Fail, Disconnect
<1>5. QED
  BY <1>1, <1>4, Frames DEF vars

-----------------------------------------------------------------------------
(* Trust *)

\* The side has shown its peer what the peer asks for.
Cleared(s) == s \in setup.known /\ (Peer(s) \in setup.pin => s \in proved)

\* The receiver has selected, or never will.
After == {"selected", "receive", "result", "header", "last status", "ok", "failed"}

\* Where a task may be, given what its peer has shown.
Entitled(s, phase) ==
  /\ s = "sender" /\ phase \in {"pin", "pin asked", "pin sent", "verify"} => "receiver" \in setup.known
  /\ s = "receiver" /\ phase = "verify" => "sender" \in setup.known
  /\ s = "receiver" /\ phase \in {"status", "pin", "pin asked", "pin sent", "select"} => Cleared("sender")
  /\ s = "receiver" /\ phase = "select" => Cleared("receiver")

\* The right PIN is only said by who proves it, the list only to who is cleared.
Trust ==
  /\ \A s \in Sides : About("pin", TRUE) \in InFlight(s) => s \in proved
  /\ Message("list") \in InFlight("sender") => Cleared("receiver")
  /\ \A s \in Sides : Entitled(s, pc[s])
  /\ selection # {} => Cleared("sender") /\ Cleared("receiver") /\ pc["receiver"] \in After

\* A task goes on to a phase, or fails.
Goes(s, next) == pc'[s] \in {next, "failed"} /\ \A t \in Sides : t # s => pc'[t] = pc[t]

\* What a step has to see to.
LEMMA TrustStays ==
  ASSUME TypeOK, Trust, NEW s \in Sides, NEW M, NEW next, Says(s, M), Goes(s, next),
         proved \subseteq proved', UNCHANGED <<setup, selection>>,
         About("pin", TRUE) \in M => s \in proved',
         Message("list") \in M => s = "receiver" \/ Cleared("receiver"),
         Entitled(s, next),
         s = "receiver" /\ pc[s] \in After => next \in After
  PROVE  Trust'
<1>0. "sender" \in Sides /\ "receiver" \in Sides
  BY DEF Sides
<1>1. \A t \in Sides : Cleared(t) => Cleared(t)'
  BY DEF Cleared
<1>2. \A t \in Sides : About("pin", TRUE) \in InFlight(t)' => t \in proved'
  BY OtherSide DEF Trust, Says
<1>3. Message("list") \in InFlight("sender")' => Cleared("receiver")
  <2>1. CASE s = "sender"
    BY <2>1 DEF Trust, Says
  <2>2. CASE s = "receiver"
    BY <2>2 DEF Trust, Says, Peer
  <2>3. QED
    BY <2>1, <2>2 DEF Sides
<1>4. \A t \in Sides : \A phase : Entitled(t, phase) => Entitled(t, phase)'
  BY <1>0, <1>1 DEF Entitled
<1>5. Entitled(s, "failed")
  BY DEF Entitled
<1>6. \A t \in Sides : Entitled(t, pc'[t])
  BY <1>5 DEF Trust, Goes
<1>7. selection # {} => pc'["receiver"] \in After
  BY <1>0 DEF Trust, Goes, After
<1>8. \A t \in Sides : Entitled(t, pc[t])'
  <2>1. ASSUME NEW t \in Sides PROVE Entitled(t, pc[t])'
    <3>1. PICK phase : phase = pc'[t]
      OBVIOUS
    <3>2. Entitled(t, phase)'
      BY <1>4, <1>6, <3>1
    <3>3. QED
      BY <3>1, <3>2 DEF Entitled
  <2>2. QED
    BY <2>1
<1>9. QED
  BY <1>0, <1>1, <1>2, <1>3, <1>7, <1>8 DEF Trust

\* The steps of a conversation, in these terms.
LEMMA ShakeStays ==
  ASSUME TypeOK, Trust, NEW s \in Sides, NEW msgs, NEW next \in Phase(s), Takes(s), Shake(s, msgs, next),
         msgs = <<>> \/ \E m \in Msg : msgs = <<m>> /\
           /\ m = About("pin", TRUE) => s \in proved'
           /\ m = Message("list") => s = "receiver" \/ Cleared("receiver"),
         proved \subseteq proved',
         Entitled(s, next),
         s = "receiver" /\ pc[s] \in After => next \in After
  PROVE  Trust'
<1>1. Goes(s, next)
  BY SendThenTypes DEF Shake, Goes
<1>2. UNCHANGED <<setup, selection>>
  BY DEF Shake, fileVars, receiveVars
<1>3. CASE msgs = <<>>
  BY <1>1, <1>2, <1>3, SendThenSays, TrustStays DEF Shake
<1>4. ASSUME NEW m \in Msg, msgs = <<m>>, m = About("pin", TRUE) => s \in proved',
             m = Message("list") => s = "receiver" \/ Cleared("receiver")
      PROVE  Trust'
  <2>1. Says(s, {m})
    BY <1>4, SendThenSays DEF Shake
  <2>2. QED
    BY <1>1, <1>2, <1>4, <2>1, TrustStays
<1>5. QED
  BY <1>3, <1>4

\* Which messages are told apart here.
LEMMA Distinct ==
  /\ \A k \in PlainKind : Message(k) # About("pin", TRUE) /\ (Message(k) = Message("list") <=> k = "list")
  /\ \A x : About("pin", x) # Message("list") /\ (About("pin", x) = About("pin", TRUE) <=> x = TRUE)
  /\ \A f : \A k \in {"header", "chunk", "tokens"} :
       About(k, f) # About("pin", TRUE) /\ About(k, f) # Message("list")
  BY DEF Message, About, PlainKind

LEMMA QuietShake ==
  ASSUME TypeOK, Trust, NEW s \in Sides, Takes(s), UNCHANGED proved, NEW next \in Phase(s),
         Entitled(s, next), s = "receiver" /\ pc[s] \in After => next \in After
  PROVE  /\ Shake(s, <<>>, next) => Trust'
         /\ \A k \in PlainKind : Shake(s, <<Message(k)>>, next) /\ k # "list" => Trust'
         /\ \A X \in SUBSET Files : Shake(s, <<About("tokens", X)>>, next) => Trust'
         /\ Cleared("receiver") => (Shake(s, <<Message("list")>>, next) => Trust')
<1>1. Shake(s, <<>>, next) => Trust'
  BY ShakeStays
<1>2. ASSUME NEW k \in PlainKind, Shake(s, <<Message(k)>>, next), k # "list" PROVE Trust'
  <2>1. Message(k) \in Msg /\ Message(k) # About("pin", TRUE) /\ Message(k) # Message("list")
    BY <1>2, MessageTypes, Distinct
  <2>2. QED
    BY <1>2, <2>1, ShakeStays
<1>3. ASSUME NEW X \in SUBSET Files, Shake(s, <<About("tokens", X)>>, next) PROVE Trust'
  <2>1. /\ About("tokens", X) \in Msg /\ About("tokens", X) # About("pin", TRUE)
        /\ About("tokens", X) # Message("list")
    BY MessageTypes, Distinct
  <2>2. QED
    BY <1>3, <2>1, ShakeStays
<1>4. ASSUME Cleared("receiver"), Shake(s, <<Message("list")>>, next) PROVE Trust'
  <2>1. Message("list") \in Msg /\ Message("list") # About("pin", TRUE)
    BY MessageTypes, Distinct DEF PlainKind
  <2>2. QED
    BY <1>4, <2>1, ShakeStays
<1>5. QED
  BY <1>1, <1>2, <1>3, <1>4

LEMMA SenderProceedsStays ==
  ASSUME TypeOK, Trust, Takes("sender"), UNCHANGED proved, "receiver" \in setup.known, SenderProceeds
  PROVE  Trust'
<1>0. "sender" \in Sides /\ "verify" \in Phase("sender") /\ "selection" \in Phase("sender")
  BY DEF Sides, Phase, SenderPhase, SharedPhase
<1>1. CASE "sender" \in setup.pin /\ Shake("sender", <<Message("pin required")>>, "verify")
  <2>1. Entitled("sender", "verify")
    BY DEF Entitled
  <2>2. QED
    BY <1>0, <1>1, <2>1, QuietShake DEF PlainKind
<1>2. CASE "sender" \notin setup.pin /\ Shake("sender", <<Message("list")>>, "selection")
  <2>1. Cleared("receiver")
    BY <1>2 DEF Cleared, Peer
  <2>2. Entitled("sender", "selection")
    BY DEF Entitled
  <2>3. QED
    BY <1>0, <1>2, <2>1, <2>2, QuietShake
<1>3. QED
  BY <1>1, <1>2 DEF SenderProceeds

LEMMA ConversationTrust ==
  ASSUME TypeOK, Trust, NEW s \in Sides, Conversation(s)
  PROVE  Trust'
<1> DEFINE S == "sender"
           R == "receiver"
<1>0. S \in Sides /\ R \in Sides /\ Peer(S) = R /\ Peer(R) = S /\ S # R /\ (s = S \/ s = R)
  BY DEF Sides, Peer
<1>t. Takes(s)
  BY ConversationForm
<1>p. /\ {"nonce", "token", "verify", "pin", "pin asked", "pin sent", "failing", "failed", "ok", "selection", "sending", "response"}
           \subseteq Phase(S)
      /\ {"nonce", "token", "verify", "pin", "pin asked", "pin sent", "failing", "failed", "ok", "status", "select", "receive",
          "declining"} \subseteq Phase(R)
      /\ {"nonce", "token", "token ok", "token pin", "invalid", "pin required", "ok", "too many", "list", "declined",
          "delimiter"} \subseteq PlainKind
  BY DEF Phase, SenderPhase, ReceiverPhase, SharedPhase, PlainKind
<1>e. /\ \A q \in {"nonce", "token", "failing", "failed", "ok", "selection", "sending", "response", "receive", "declining"} :
           Entitled(S, q) /\ Entitled(R, q)
      /\ Entitled(S, pc[S]) /\ Entitled(R, pc[R])
  BY <1>0 DEF Entitled, Trust
<1>1. CASE s = S /\ (SenderNonce \/ SendToken \/ Selected \/ SendDelimiter \/ TakeResponse)
  BY <1>0, <1>1, <1>t, <1>p, <1>e, QuietShake
     DEF SenderNonce, SendToken, Selected, SendDelimiter, TakeResponse
<1>2. CASE s = S /\ SenderToken
  <2>1. PICK response \in {"token ok", "token pin", "invalid"} :
           IF response = "invalid" \/ R \notin setup.known
           THEN Shake(S, <<>>, "failed")
           ELSE IF response = "token pin" THEN Shake(S, <<>>, "pin")
           ELSE SenderProceeds
    BY <1>2 DEF SenderToken
  <2>2. UNCHANGED proved
    BY <1>2 DEF SenderToken
  <2>3. R \in setup.known => Entitled(S, "pin")
    BY DEF Entitled
  <2>4. QED
    BY <1>0, <1>2, <1>t, <1>p, <1>e, <2>1, <2>2, <2>3, QuietShake, SenderProceedsStays
<1>3. CASE s = S /\ SenderPassed
  <2>1. R \in setup.known
    BY <1>0, <1>3, <1>e DEF SenderPassed, Entitled
  <2>2. QED
    BY <1>3, <1>t, <2>1, SenderProceedsStays DEF SenderPassed
<1>4. CASE s = R /\ (ReceiverOpens \/ ReceiverNonce)
  BY <1>0, <1>4, <1>t, <1>p, <1>e, QuietShake DEF ReceiverOpens, ReceiverNonce, After, TakeNonce
<1>5. CASE s = R /\ (SendTokens \/ Decline \/ SendDecline \/ LastStatus)
  <2>1. selection \in SUBSET Files /\ \A q \in {"receive", "failed", "ok", "declining"} : Entitled(R, q)
    BY <1>e DEF TypeOK, FileType
  <2>2. CASE SendTokens
    BY <1>0, <1>5, <1>t, <1>p, <2>1, <2>2, QuietShake DEF SendTokens, After
  <2>3. CASE Decline
    BY <1>0, <1>5, <1>t, <1>p, <2>1, <2>3, QuietShake DEF Decline, After
  <2>4. CASE SendDecline \/ LastStatus
    BY <1>0, <1>5, <1>t, <1>p, <2>1, <2>4, QuietShake DEF SendDecline, LastStatus, After
  <2>5. QED
    BY <1>5, <2>2, <2>3, <2>4
<1>6. CASE s = R /\ ReceiverToken
  <2>1. pc[R] \notin After /\ UNCHANGED proved
    BY <1>6 DEF ReceiverToken, After
  <2>2. CASE S \notin setup.known /\ Shake(R, <<Message("invalid")>>, "failing")
    BY <1>0, <1>6, <1>t, <1>p, <1>e, <2>1, <2>2, QuietShake
  <2>3. CASE S \in setup.known /\ Shake(R, <<Message("token pin")>>, "verify")
    <3>1. Entitled(R, "verify")
      BY <1>0, <2>3 DEF Entitled
    <3>2. QED
      BY <1>0, <1>6, <1>t, <1>p, <2>1, <2>3, <3>1, QuietShake
  <2>4. CASE S \in setup.known /\ R \notin setup.pin /\ Shake(R, <<Message("token ok")>>, "status")
    <3>1. Entitled(R, "status")
      BY <1>0, <2>4 DEF Entitled, Cleared
    <3>2. QED
      BY <1>0, <1>6, <1>t, <1>p, <2>1, <2>4, <3>1, QuietShake
  <2>5. QED
    BY <1>6, <2>2, <2>3, <2>4 DEF ReceiverToken
<1>7. CASE s = R /\ (ReceiverPassed \/ ReceiverStatus)
  <2>1. Cleared(S) /\ pc[R] \notin After /\ UNCHANGED proved
    BY <1>0, <1>7, <1>e DEF ReceiverPassed, ReceiverStatus, Entitled, After
  <2>2. ASSUME Receive(R, "list") PROVE Entitled(R, "select")
    <3>1. Head(inbox[R]) = Message("list") /\ Head(inbox[R]) \in InFlight(S)
      <4>1. Head(inbox[R]) \in Msg /\ Head(inbox[R]).kind = "list" /\ Head(inbox[R]) \in InFlight(S)
        BY <1>0, <2>2, Taken
      <4>2. "list" \in PlainKind
        BY <1>p
      <4>3. QED
        BY <4>1, <4>2, MessageParts
    <3>2. Cleared(R)
      BY <3>1 DEF Trust
    <3>3. QED
      BY <1>0, <2>1, <3>2 DEF Entitled
  <2>3. Entitled(R, "pin")
    BY <1>0, <2>1 DEF Entitled
  <2>4. QED
    BY <1>0, <1>7, <1>t, <1>p, <2>1, <2>2, <2>3, QuietShake DEF ReceiverPassed, ReceiverStatus
<1>8. CASE StorePin(s) \/ PinAnswer(s) \/ Flush(s)
  <2>1. pc[s] \notin After /\ UNCHANGED proved
    BY <1>8 DEF StorePin, PinAnswer, Flush, After
  <2>2. pc[s] \in {"pin", "pin sent"} => \A q \in {"pin", "pin asked"} : Entitled(s, q)
    BY <1>0, <1>e DEF Entitled
  <2>3. Entitled(s, "failed")
    BY <1>0, <1>e
  <2>4. {"pin", "pin asked", "failed"} \subseteq Phase(s)
    BY <1>0, <1>p
  <2>5. QED
    BY <1>8, <1>t, <2>1, <2>2, <2>3, <2>4, QuietShake DEF StorePin, PinAnswer, Flush
<1>9. CASE EnterPin(s)
  <2>1. PICK right \in BOOLEAN :
           Shake(s, <<About("pin", right)>>, "pin sent") /\ proved' = IF right THEN proved \cup {s} ELSE proved
    BY <1>9 DEF EnterPin
  <2>2. /\ About("pin", right) \in Msg /\ About("pin", right) # Message("list")
        /\ About("pin", right) = About("pin", TRUE) => s \in proved'
    BY <2>1, MessageTypes, Distinct
  <2>3. pc[s] = "pin asked"
    BY <1>9 DEF EnterPin
  <2>4. Entitled(s, "pin sent") /\ pc[s] \notin After /\ "pin sent" \in Phase(s)
    BY <1>0, <1>e, <1>p, <2>3 DEF Entitled, After
  <2>5. proved \subseteq proved'
    BY <2>1
  <2>6. QED
    BY <1>t, <2>1, <2>2, <2>4, <2>5, ShakeStays
<1>10. CASE VerifyPin(s)
  <2>1. pc[s] = "verify" /\ pc[s] \notin After /\ UNCHANGED proved /\ Receive(s, "pin")
    BY <1>10 DEF VerifyPin, After
  <2>2. Entitled(s, "verify")
    BY <1>0, <1>e, <2>1
  <2>3. ASSUME Head(inbox[s]).of PROVE Peer(s) \in proved
    <3>1. Head(inbox[s]) = About("pin", TRUE) /\ Head(inbox[s]) \in InFlight(Peer(s))
      BY <2>1, <2>3, Taken, MessageParts
    <3>2. QED
      BY <1>0, <3>1 DEF Trust
  <2>4. CASE ~Head(inbox[s]).of
    <3>1. \/ Shake(s, <<Message("too many")>>, "failing") \/ Shake(s, <<Message("pin required")>>, "verify")
      BY <1>10, <2>4 DEF VerifyPin
    <3>2. Entitled(s, "failing") /\ {"failing", "verify"} \subseteq Phase(s)
      BY <1>0, <1>e, <1>p
    <3>3. QED
      BY <1>t, <1>p, <2>1, <2>2, <3>1, <3>2, QuietShake
  <2>5. CASE Head(inbox[s]).of /\ s = S
    <3>1. Shake(S, <<Message("list")>>, "selection")
      BY <1>10, <2>5 DEF VerifyPin, Accept
    <3>2. Cleared(R)
      BY <1>0, <2>2, <2>3, <2>5 DEF Cleared, Entitled
    <3>3. QED
      BY <1>0, <1>t, <1>p, <1>e, <2>1, <2>5, <3>1, <3>2, QuietShake
  <2>6. CASE Head(inbox[s]).of /\ s = R
    <3>1. Shake(R, <<Message("ok")>>, "status")
      BY <1>0, <1>10, <2>6 DEF VerifyPin, Accept
    <3>2. Entitled(R, "status")
      BY <1>0, <2>2, <2>3, <2>6 DEF Cleared, Entitled
    <3>3. QED
      BY <1>0, <1>t, <1>p, <2>1, <2>6, <3>1, <3>2, QuietShake
  <2>7. QED
    BY <1>0, <2>4, <2>5, <2>6
<1>11. CASE Unwanted(s)
  <2>1. pc[s] \notin After /\ UNCHANGED proved /\ Shake(s, <<>>, "failed")
    BY <1>11 DEF Unwanted, After
  <2>2. Entitled(s, "failed") /\ "failed" \in Phase(s)
    BY <1>0, <1>e, <1>p
  <2>3. QED
    BY <1>t, <2>1, <2>2, QuietShake
<1>12. QED
  BY <1>1, <1>2, <1>3, <1>4, <1>5, <1>6, <1>7, <1>8, <1>9, <1>10, <1>11 DEF Conversation

\* What is on its way after a step that has to do with the files.
LEMMA FileSays ==
  ASSUME TypeOK, FileStep, NEW t \in Sides, NEW m, m \in InFlight(t)'
  PROVE  \/ m \in InFlight(t)
         \/ m = Message("response") /\ t = "receiver"
         \/ t = "sender" /\ \E f \in Files : m = About("header", f) /\ StartFile /\ f = handed /\ f \in selection
         \/ t = "sender" /\ \E f \in Files : m = About("chunk", f) /\ SendChunk /\ f = source
<1>0. "sender" \in Sides /\ "receiver" \in Sides /\ Peer("sender") = "receiver" /\ Peer("receiver") = "sender"
  BY DEF Sides, Peer
<1>1. CASE UNCHANGED <<wire, inbox>>
  BY <1>1 DEF InFlight
<1>2. ASSUME NEW msg \in Msg, Put(msg), UNCHANGED inbox
      PROVE  m \in InFlight(t) \/ (t = "sender" /\ m = msg)
  <2>1. wire'[t] = wire[t] \/ (t = "sender" /\ wire'[t] = Append(wire[t], msg))
    BY <1>2, <1>0 DEF Put, TypeOK, LinkType
  <2>2. Elements(Append(wire[t], msg)) = Elements(wire[t]) \cup {msg}
    BY ElementFacts DEF TypeOK, LinkType
  <2>3. QED
    BY <1>2, <2>1, <2>2 DEF InFlight
<1>3. ASSUME NEW kind, Receive("receiver", kind), UNCHANGED wire PROVE m \in InFlight(t)
  <2>1. /\ inbox'[Peer(t)] = inbox[Peer(t)]
           \/ (inbox[Peer(t)] # <<>> /\ inbox'[Peer(t)] = Tail(inbox[Peer(t)]))
        /\ inbox[Peer(t)] \in Seq(Msg)
    BY <1>0, <1>3, OtherSide DEF Receive, TypeOK, LinkType
  <2>2. Elements(inbox'[Peer(t)]) \subseteq Elements(inbox[Peer(t)])
    BY <2>1, ElementFacts
  <2>3. QED
    BY <1>3, <2>2 DEF InFlight
<1>4. CASE StartFile
  <2>1. CASE handed \in selection /\ Put(About("header", handed)) /\ UNCHANGED inbox
    <3>1. handed \in Files /\ About("header", handed) \in Msg
      BY <2>1, MessageTypes DEF TypeOK, FileType
    <3>2. QED
      BY <1>2, <1>4, <2>1, <3>1
  <2>2. QED
    BY <1>1, <1>4, <2>1 DEF StartFile
<1>5. CASE SendChunk
  <2>1. source \in Files /\ About("chunk", source) \in Msg /\ Put(About("chunk", source)) /\ UNCHANGED inbox
    BY <1>5, MessageTypes DEF SendChunk, TypeOK, FileType
  <2>2. QED
    BY <1>2, <1>5, <2>1
<1>6. CASE AnswerFile
  <2>1. PICK next : SendThen("receiver", <<Message("response")>>, next) /\ UNCHANGED inbox
    BY <1>6 DEF AnswerFile
  <2>2. Message("response") \in Msg
    BY MessageTypes DEF PlainKind
  <2>3. Says("receiver", {Message("response")})
    BY <1>0, <2>1, <2>2, SendThenSays DEF Takes
  <2>4. QED
    BY <1>0, <2>3 DEF Says, Sides
<1>7. CASE TakeString \/ TakeChunk
  BY <1>3, <1>7 DEF TakeString, TakeChunk
<1>8. QED
  BY <1>1, <1>4, <1>5, <1>6, <1>7
     DEF FileStep, Select, EndFile, EndSending, StartReceiving, HandOver, ReportResult, DropStream

LEMMA TrustStep ==
  ASSUME TypeOK, Offers, Trust, [Next]_vars
  PROVE  Trust'
<1>0. "sender" \in Sides /\ "receiver" \in Sides /\ \A s \in Sides : s \in {"sender", "receiver"}
  BY DEF Sides
<1>1. ASSUME NEW s \in Sides, Conversation(s) PROVE Trust'
  BY <1>1, ConversationTrust
<1>2. ASSUME \A s \in Sides : About("pin", TRUE) \in InFlight(s)' => About("pin", TRUE) \in InFlight(s),
             Message("list") \in InFlight("sender")' => Message("list") \in InFlight("sender"),
             UNCHANGED <<setup, proved>>,
             \A s \in Sides : Entitled(s, pc'[s]),
             selection' # {} => Cleared("sender") /\ Cleared("receiver") /\ pc'["receiver"] \in After
      PROVE  Trust'
  <2>1. \A s \in Sides : Cleared(s)' <=> Cleared(s)
    BY <1>2 DEF Cleared
  <2>2. \A s \in Sides : Entitled(s, pc[s])' <=> Entitled(s, pc'[s])
    BY <1>0, <1>2, <2>1 DEF Entitled
  <2>3. QED
    BY <1>0, <1>2, <2>1, <2>2 DEF Trust
<1>3. CASE FileStep
  <2>1. UNCHANGED <<setup, proved>>
    BY <1>3, Frames DEF handshakeVars
  <2>2. /\ \A s \in Sides : About("pin", TRUE) \in InFlight(s)' => About("pin", TRUE) \in InFlight(s)
        /\ Message("list") \in InFlight("sender")' => Message("list") \in InFlight("sender")
    <3>1. /\ About("pin", TRUE) # Message("response") /\ Message("list") # Message("response")
          /\ \A f : \A k \in {"header", "chunk"} : About("pin", TRUE) # About(k, f) /\ Message("list") # About(k, f)
      BY Distinct DEF PlainKind
    <3>2. QED
      BY <1>0, <1>3, <3>1, FileSays
  <2>3. CASE Select
    <3>1. pc["receiver"] = "select" /\ pc' = [pc EXCEPT !["receiver"] = "selected"]
      BY <2>3 DEF Select
    <3>2. Cleared("sender") /\ Cleared("receiver")
      BY <1>0, <3>1 DEF Trust, Entitled
    <3>3. \A s \in Sides : Entitled(s, pc'[s])
      BY <1>0, <3>1 DEF Trust, Entitled, TypeOK, PhaseType
    <3>4. pc'["receiver"] \in After
      BY <1>0, <3>1 DEF After, TypeOK, PhaseType
    <3>5. QED
      BY <1>2, <2>1, <2>2, <3>2, <3>3, <3>4
  <2>4. CASE ~Select
    <3>1. UNCHANGED selection
      BY <1>3, <2>4 DEF FileStep, StartFile, SendChunk, EndFile, EndSending, TakeString, AnswerFile,
                        StartReceiving, TakeChunk, HandOver, ReportResult, DropStream, fileVars, receiveVars
    <3>2. /\ pc'["sender"] \in {pc["sender"], "closing"}
          /\ pc'["receiver"] = pc["receiver"] \/ pc'["receiver"] \in {"result", "header", "failed", "last status", "receive"}
      BY <1>0, <1>3, <2>4
         DEF FileStep, StartFile, SendChunk, EndFile, EndSending, TakeString, AnswerFile, SendThen,
             StartReceiving, TakeChunk, HandOver, ReportResult, DropStream, TypeOK, PhaseType
    <3>3. \A s \in Sides : Entitled(s, pc'[s])
      BY <1>0, <3>2 DEF Trust, Entitled
    <3>4. pc["receiver"] \in After => pc'["receiver"] \in After
      BY <3>2 DEF After
    <3>5. QED
      BY <1>2, <2>1, <2>2, <3>1, <3>3, <3>4 DEF Trust
  <2>5. QED
    BY <2>3, <2>4
<1>4. CASE LinkStep \/ UNCHANGED vars
  <2>1. \A s \in Sides : InFlight(s)' \subseteq InFlight(s)
    BY <1>4, LinkSays
  <2>2. UNCHANGED <<setup, proved, pc, selection>>
    BY <1>4, Frames DEF fileVars, receiveVars, vars, handshakeVars
  <2>3. QED
    BY <1>0, <1>2, <2>1, <2>2 DEF Trust
<1>5. CASE SignalStep
  <2>1. \A s \in Sides : InFlight(s)' \subseteq InFlight(s)
    BY <1>5, LinkSays
  <2>2. UNCHANGED <<setup, proved, selection>>
    BY <1>5, Frames DEF fileVars, receiveVars
  <2>3. /\ pc'["sender"] \in {pc["sender"], "offer", "offered", "failed", "answer", "channel"}
        /\ \/ pc'["receiver"] = pc["receiver"]
           \/ /\ pc["receiver"] \in {"idle", "asked", "accepting"}
              /\ pc'["receiver"] \in {"asked", "accepting", "failed", "channel"}
    <3>1. ASSUME NEW s \in Sides, Listen(s)
          PROVE  \/ UNCHANGED pc
                 \/ s = "receiver" /\ pc["receiver"] = "idle" /\ pc' = [pc EXCEPT !["receiver"] = "asked"]
                 \/ pc' = [pc EXCEPT !["sender"] = "channel"]
      <4>1. channel[s] \in SignalKind
        BY <3>1 DEF Listen, TypeOK, SignalType
      <4>2. channel[s] = "offer" => s = "receiver" /\ pc["receiver"] = "idle"
        BY <1>0 DEF Offers, NoOffer
      <4>3. QED
        BY <3>1, <4>1, <4>2 DEF Listen, UseAnswer, SignalKind
    <3>2. CASE \E s \in Sides : Listen(s)
      BY <1>0, <3>1, <3>2 DEF TypeOK, PhaseType
    <3>3. CASE SendOffer \/ SendAnswer \/ UserSends \/ OnAnswer \/ AcceptOffer
      BY <1>0, <3>3 DEF SendOffer, SendAnswer, Signal, UserSends, OnAnswer, AcceptOffer, TypeOK, PhaseType
    <3>4. QED
      BY <1>5, <3>2, <3>3 DEF SignalStep, Signaling, Greet, ReadSocket, PassOn, Connect, LoseSignal
  <2>4. \A s \in Sides : Entitled(s, pc'[s])
    BY <1>0, <2>3 DEF Trust, Entitled
  <2>5. pc["receiver"] \in After => pc'["receiver"] \in After
    BY <2>3 DEF After
  <2>6. QED
    BY <1>0, <1>2, <2>1, <2>2, <2>4, <2>5 DEF Trust
<1>6. QED
  BY <1>1, <1>3, <1>4, <1>5, StepKinds

-----------------------------------------------------------------------------
(* Segments of the channel *)

\* What ends the chunks of a file.
Cuts == {"header", "delimiter"}

Clear(q, h, k) == \A i \in DOMAIN q : h < i /\ i < k => q[i].kind \notin Cuts

\* From position h of q come the chunks of g, of which n came before and all were given,
\* and nothing else until the next cut; what src reads may still follow at the end.
Piece(q, h, g, n, all, src, live) ==
  \A k \in (h + 1) .. (Len(q) + 1) : Clear(q, h, k) =>
    /\ n + k - h - 1 <= all
    /\ k <= Len(q) => \/ q[k] = About("chunk", g)
                      \/ q[k].kind \in Cuts /\ src # g /\ n + k - h - 1 = all
    /\ k > Len(q) /\ live => n + k - h - 1 = all /\ src \in {g, None}

\* The sender stops reading, reads another file, or what it reads is lost.
LEMMA PieceWeaker ==
  ASSUME NEW q \in Seq(Msg), NEW h \in Nat, NEW g \in Files, NEW n \in Nat,
         NEW all \in Nat, NEW all2 \in Nat, NEW src, NEW src2,
         NEW live \in BOOLEAN, NEW live2 \in BOOLEAN,
         Piece(q, h, g, n, all, src, live),
         all2 = all \/ (all <= all2 /\ src = g /\ ~live2),
         src2 \in {src, None} \/ (src2 # g /\ ~live2),
         live2 => live
  PROVE  Piece(q, h, g, n, all2, src2, live2)
<1>0. Len(q) \in Nat /\ None # g
  BY LenProperties, RtcAssumption DEF None
<1> SUFFICES ASSUME NEW k \in (h + 1) .. (Len(q) + 1), Clear(q, h, k)
             PROVE  /\ n + k - h - 1 <= all2
                    /\ k <= Len(q) => \/ q[k] = About("chunk", g)
                                      \/ q[k].kind \in Cuts /\ src2 # g /\ n + k - h - 1 = all2
                    /\ k > Len(q) /\ live2 => n + k - h - 1 = all2 /\ src2 \in {g, None}
  BY DEF Piece
<1>1. /\ n + k - h - 1 <= all
      /\ k <= Len(q) => \/ q[k] = About("chunk", g)
                        \/ q[k].kind \in Cuts /\ src # g /\ n + k - h - 1 = all
      /\ k > Len(q) /\ live => n + k - h - 1 = all /\ src \in {g, None}
  BY DEF Piece
<1>2. QED
  BY <1>0, <1>1

\* The next chunk of the file that is read.
LEMMA PieceChunk ==
  ASSUME NEW q \in Seq(Msg), NEW h \in 0 .. Len(q), NEW g \in Files, NEW n \in Nat, NEW all \in Nat,
         NEW src \in Files, Piece(q, h, g, n, all, src, TRUE)
  PROVE  Piece(Append(q, About("chunk", src)), h, g, n, IF g = src THEN all + 1 ELSE all, src, TRUE)
<1> DEFINE r == Append(q, About("chunk", src))
           more == IF g = src THEN all + 1 ELSE all
<1>m. About("chunk", src) \in Msg
  BY MessageTypes
<1>0. /\ Len(q) \in Nat /\ DOMAIN q = 1 .. Len(q) /\ None \notin Files /\ more \in Nat
      /\ About("chunk", src).kind \notin Cuts
  BY LenProperties, RtcAssumption DEF None, About, Cuts
<1>1. /\ Len(r) = Len(q) + 1 /\ DOMAIN r = 1 .. (Len(q) + 1)
      /\ r[Len(q) + 1] = About("chunk", src) /\ \A i \in 1 .. Len(q) : r[i] = q[i]
  BY <1>0, <1>m, AppendProperties, LenProperties
<1>2. \A k : Clear(r, h, k) => Clear(q, h, k)
  BY <1>0, <1>1 DEF Clear
<1> HIDE DEF r
<1> SUFFICES ASSUME NEW k \in (h + 1) .. (Len(r) + 1), Clear(r, h, k)
             PROVE  /\ n + k - h - 1 <= more
                    /\ k <= Len(r) => \/ r[k] = About("chunk", g)
                                      \/ r[k].kind \in Cuts /\ src # g /\ n + k - h - 1 = more
                    /\ k > Len(r) => n + k - h - 1 = more /\ src \in {g, None}
  BY DEF Piece, r
<1>3. CASE k <= Len(q)
  <2>1. /\ n + k - h - 1 <= all
        /\ \/ q[k] = About("chunk", g)
           \/ q[k].kind \in Cuts /\ src # g /\ n + k - h - 1 = all
    BY <1>0, <1>1, <1>2, <1>3 DEF Piece
  <2>2. QED
    BY <1>0, <1>1, <1>3, <2>1
<1>4. CASE k > Len(q)
  <2>1. Clear(q, h, Len(q) + 1)
    BY <1>0, <1>1, <1>2, <1>4 DEF Clear
  <2>2. n + (Len(q) + 1) - h - 1 = all /\ src \in {g, None}
    BY <1>0, <2>1 DEF Piece
  <2>3. g = src
    BY <1>0, <2>2
  <2>4. k = Len(q) + 1 \/ k = Len(q) + 2
    BY <1>0, <1>1, <1>4
  <2>5. QED
    BY <1>0, <1>1, <2>2, <2>3, <2>4
<1>5. QED
  BY <1>0, <1>1, <1>3, <1>4

\* A cut, which only comes between files.
LEMMA PieceCut ==
  ASSUME NEW q \in Seq(Msg), NEW h \in 0 .. Len(q), NEW g \in Files, NEW n \in Nat, NEW all \in Nat,
         NEW m \in Msg, m.kind \in Cuts, NEW src2, src2 # g, Piece(q, h, g, n, all, None, TRUE)
  PROVE  Piece(Append(q, m), h, g, n, all, src2, TRUE)
<1> DEFINE r == Append(q, m)
<1>0. Len(q) \in Nat /\ DOMAIN q = 1 .. Len(q)
  BY LenProperties
<1>1. /\ Len(r) = Len(q) + 1 /\ DOMAIN r = 1 .. (Len(q) + 1)
      /\ r[Len(q) + 1] = m /\ \A i \in 1 .. Len(q) : r[i] = q[i]
  BY <1>0, AppendProperties, LenProperties
<1>2. \A k : Clear(r, h, k) => Clear(q, h, k)
  BY <1>0, <1>1 DEF Clear
<1> HIDE DEF r
<1> SUFFICES ASSUME NEW k \in (h + 1) .. (Len(r) + 1), Clear(r, h, k)
             PROVE  /\ n + k - h - 1 <= all
                    /\ k <= Len(r) => \/ r[k] = About("chunk", g)
                                      \/ r[k].kind \in Cuts /\ src2 # g /\ n + k - h - 1 = all
                    /\ k > Len(r) => n + k - h - 1 = all /\ src2 \in {g, None}
  BY DEF Piece, r
<1>3. k <= Len(q) + 1
  <2>1. Len(q) + 1 \in DOMAIN r /\ h < Len(q) + 1
    BY <1>0, <1>1
  <2>2. QED
    BY <1>0, <1>1, <2>1 DEF Clear
<1>4. /\ n + k - h - 1 <= all
      /\ k <= Len(q) => \/ q[k] = About("chunk", g)
                        \/ q[k].kind \in Cuts /\ n + k - h - 1 = all
      /\ k > Len(q) => n + k - h - 1 = all
  BY <1>0, <1>2, <1>3 DEF Piece
<1>5. QED
  BY <1>0, <1>1, <1>3, <1>4

\* The receiver takes the head: the chunks of a file move up, or are one less.
LEMMA PieceTail ==
  ASSUME NEW q \in Seq(Msg), q # <<>>, NEW g \in Files, NEW n \in Nat, NEW all \in Nat, NEW src,
         NEW live \in BOOLEAN
  PROVE  /\ \A h \in Nat : Piece(q, h + 1, g, n, all, src, live) => Piece(Tail(q), h, g, n, all, src, live)
         /\ Piece(q, 0, g, n, all, src, live) /\ Head(q).kind = "chunk"
              => /\ Head(q) = About("chunk", g) /\ n + 1 <= all
                 /\ Piece(Tail(q), 0, g, n + 1, all, src, live)
         /\ Piece(q, 0, g, n, all, src, live) /\ Head(q).kind \in Cuts => n = all /\ src # g
<1> DEFINE r == Tail(q)
<1>0. /\ Len(q) \in Nat \ {0} /\ DOMAIN q = 1 .. Len(q) /\ q[1] = Head(q)
      /\ Len(r) = Len(q) - 1 /\ DOMAIN r = 1 .. (Len(q) - 1)
      /\ \A i \in DOMAIN r : r[i] = q[i + 1]
  BY LenProperties, HeadTailProperties, EmptySeq
<1> HIDE DEF r
<1>1. ASSUME NEW h \in Nat, Piece(q, h + 1, g, n, all, src, live) PROVE Piece(r, h, g, n, all, src, live)
  <2> SUFFICES ASSUME NEW k \in (h + 1) .. (Len(r) + 1), Clear(r, h, k)
               PROVE  /\ n + k - h - 1 <= all
                      /\ k <= Len(r) => \/ r[k] = About("chunk", g)
                                        \/ r[k].kind \in Cuts /\ src # g /\ n + k - h - 1 = all
                      /\ k > Len(r) /\ live => n + k - h - 1 = all /\ src \in {g, None}
    BY DEF Piece
  <2>1. k + 1 \in (h + 2) .. (Len(q) + 1) /\ k \in Nat
    BY <1>0
  <2>2. Clear(q, h + 1, k + 1)
    <3> SUFFICES ASSUME NEW i \in DOMAIN q, h + 1 < i, i < k + 1 PROVE q[i].kind \notin Cuts
      BY DEF Clear
    <3>1. i - 1 \in DOMAIN r /\ h < i - 1 /\ i - 1 < k /\ r[i - 1] = q[i]
      BY <1>0, <2>1
    <3>2. QED
      BY <3>1 DEF Clear
  <2>3. /\ n + (k + 1) - (h + 1) - 1 <= all
        /\ k + 1 <= Len(q) => \/ q[k + 1] = About("chunk", g)
                              \/ q[k + 1].kind \in Cuts /\ src # g /\ n + (k + 1) - (h + 1) - 1 = all
        /\ k + 1 > Len(q) /\ live => n + (k + 1) - (h + 1) - 1 = all /\ src \in {g, None}
    BY <1>1, <2>1, <2>2 DEF Piece
  <2>4. k <= Len(r) => r[k] = q[k + 1] /\ k + 1 <= Len(q)
    BY <1>0, <2>1
  <2>5. QED
    BY <1>0, <2>1, <2>3, <2>4
<1>2. ASSUME Piece(q, 0, g, n, all, src, live)
      PROVE  /\ Head(q).kind \in Cuts => n = all /\ src # g
             /\ Head(q).kind = "chunk" => Head(q) = About("chunk", g)
  <2>1. Clear(q, 0, 1) /\ 1 \in (0 + 1) .. (Len(q) + 1) /\ 1 <= Len(q)
    BY <1>0 DEF Clear
  <2>2. \/ q[1] = About("chunk", g)
        \/ q[1].kind \in Cuts /\ src # g /\ n + 1 - 0 - 1 = all
    BY <1>2, <2>1 DEF Piece
  <2>3. QED
    BY <1>0, <2>2 DEF About, Cuts
<1>3. ASSUME Piece(q, 0, g, n, all, src, live), Head(q).kind = "chunk"
      PROVE  n + 1 <= all /\ Piece(r, 0, g, n + 1, all, src, live)
  <2>0. q[1].kind \notin Cuts
    BY <1>0, <1>3 DEF Cuts
  <2>1. ASSUME NEW k \in (0 + 1) .. (Len(r) + 1), Clear(r, 0, k)
        PROVE  /\ (n + 1) + k - 0 - 1 <= all
               /\ k <= Len(r) => \/ r[k] = About("chunk", g)
                                 \/ r[k].kind \in Cuts /\ src # g /\ (n + 1) + k - 0 - 1 = all
               /\ k > Len(r) /\ live => (n + 1) + k - 0 - 1 = all /\ src \in {g, None}
    <3>1. k + 1 \in (0 + 1) .. (Len(q) + 1) /\ k \in Nat
      BY <1>0
    <3>2. Clear(q, 0, k + 1)
      <4> SUFFICES ASSUME NEW i \in DOMAIN q, 0 < i, i < k + 1 PROVE q[i].kind \notin Cuts
        BY DEF Clear
      <4>1. i # 1 => i - 1 \in DOMAIN r /\ 0 < i - 1 /\ i - 1 < k /\ r[i - 1] = q[i]
        BY <1>0, <3>1
      <4>2. QED
        BY <2>0, <2>1, <4>1 DEF Clear
    <3>3. /\ n + (k + 1) - 0 - 1 <= all
          /\ k + 1 <= Len(q) => \/ q[k + 1] = About("chunk", g)
                                \/ q[k + 1].kind \in Cuts /\ src # g /\ n + (k + 1) - 0 - 1 = all
          /\ k + 1 > Len(q) /\ live => n + (k + 1) - 0 - 1 = all /\ src \in {g, None}
      BY <1>3, <3>1, <3>2 DEF Piece
    <3>4. k <= Len(r) => r[k] = q[k + 1] /\ k + 1 <= Len(q)
      BY <1>0, <3>1
    <3>5. QED
      BY <1>0, <3>1, <3>3, <3>4
  <2>2. Clear(r, 0, 1) /\ 1 \in (0 + 1) .. (Len(r) + 1)
    BY <1>0 DEF Clear
  <2>3. QED
    BY <2>1, <2>2 DEF Piece
<1>4. QED
  BY <1>1, <1>2, <1>3 DEF r

\* What it takes is a chunk of the file, unless there is no more.
LEMMA PieceHead ==
  ASSUME NEW q \in Seq(Msg), q # <<>>, NEW g \in Files, NEW n \in Nat, NEW all \in Nat, NEW src,
         NEW live \in BOOLEAN, Piece(q, 0, g, n, all, src, live)
  PROVE  Head(q).kind = "chunk" => Head(q) = About("chunk", g) /\ n + 1 <= all
  BY PieceTail

LEMMA PieceEnds ==
  ASSUME NEW q \in Seq(Msg), q # <<>>, NEW g \in Files, NEW n \in Nat, NEW all \in Nat, NEW src,
         NEW live \in BOOLEAN, Piece(q, 0, g, n, all, src, live), Head(q).kind \in Cuts
  PROVE  n = all /\ src # g
  BY PieceTail

\* The end of the connection leaves the beginning of what was on its way.
LEMMA PiecePrefix ==
  ASSUME NEW p \in Seq(Msg), NEW r \in Seq(Msg), NEW h \in 0 .. Len(p), NEW g \in Files, NEW n \in Nat,
         NEW all \in Nat, NEW src, NEW live \in BOOLEAN, Piece(p \o r, h, g, n, all, src, live)
  PROVE  Piece(p, h, g, n, all, src, FALSE)
<1> DEFINE q == p \o r
<1>0. /\ Len(p) \in Nat /\ Len(q) \in Nat /\ Len(p) <= Len(q)
      /\ DOMAIN p = 1 .. Len(p) /\ DOMAIN q = 1 .. Len(q)
      /\ \A i \in DOMAIN p : q[i] = p[i]
  BY LenProperties, ConcatProperties
<1> HIDE DEF q
<1> SUFFICES ASSUME NEW k \in (h + 1) .. (Len(p) + 1), Clear(p, h, k)
             PROVE  /\ n + k - h - 1 <= all
                    /\ k <= Len(p) => \/ p[k] = About("chunk", g)
                                      \/ p[k].kind \in Cuts /\ src # g /\ n + k - h - 1 = all
  BY DEF Piece
<1>1. Clear(q, h, k) /\ k \in (h + 1) .. (Len(q) + 1)
  BY <1>0 DEF Clear
<1>2. /\ n + k - h - 1 <= all
      /\ k <= Len(q) => \/ q[k] = About("chunk", g)
                        \/ q[k].kind \in Cuts /\ src # g /\ n + k - h - 1 = all
  BY <1>1 DEF Piece, q
<1>3. QED
  BY <1>0, <1>2

-----------------------------------------------------------------------------
(* The channel to the receiver *)

\* What the sender sent and the receiver did not take.
Flow == inbox["receiver"] \o wire["sender"]

LEMMA Queues ==
  ASSUME NEW p \in Seq(Msg), NEW q \in Seq(Msg)
  PROVE  /\ p \o q \in Seq(Msg)
         /\ \A m \in Msg : p \o Append(q, m) = Append(p \o q, m)
         /\ p # <<>> => p \o q # <<>> /\ Head(p \o q) = Head(p) /\ Tail(p \o q) = Tail(p) \o q
         /\ q # <<>> => Append(p, Head(q)) \o Tail(q) = p \o q
<1>1. p \o q \in Seq(Msg)
  BY ConcatProperties
<1>2. ASSUME NEW m \in Msg PROVE p \o Append(q, m) = Append(p \o q, m)
  <2>1. <<m>> \in Seq(Msg)
    OBVIOUS
  <2>2. Append(q, m) = q \o <<m>> /\ Append(p \o q, m) = (p \o q) \o <<m>>
    BY <1>1, AppendIsConcat
  <2>3. QED
    BY <2>1, <2>2, ConcatAssociative
<1>3. ASSUME NEW q1 \in Seq(Msg), q1 # <<>>
      PROVE  Head(q1) \in Msg /\ Tail(q1) \in Seq(Msg) /\ q1 = <<Head(q1)>> \o Tail(q1)
  <2>1. Head(q1) \in Msg /\ Tail(q1) \in Seq(Msg) /\ Len(Tail(q1)) = Len(q1) - 1
        /\ \A i \in 1 .. Len(Tail(q1)) : Tail(q1)[i] = q1[i + 1]
    BY <1>3, HeadTailProperties
  <2>2. Len(q1) \in Nat \ {0} /\ q1[1] = Head(q1)
    BY <1>3, EmptySeq
  <2> DEFINE a == <<Head(q1)>>
             b == Tail(q1)
  <2>3. a \in Seq(Msg) /\ b \in Seq(Msg) /\ Len(a) = 1 /\ a[1] = Head(q1)
    BY <2>1
  <2>b. Len(b) \in Nat
    BY <2>3, LenProperties
  <2> HIDE DEF a, b
  <2>4. /\ a \o b \in Seq(Msg) /\ Len(a \o b) = Len(a) + Len(b)
        /\ \A i \in 1 .. Len(a) + Len(b) : (a \o b)[i] = IF i <= Len(a) THEN a[i] ELSE b[i - Len(a)]
    <3>1. \A x, y \in Seq(Msg) :
             /\ x \o y \in Seq(Msg) /\ Len(x \o y) = Len(x) + Len(y)
             /\ \A i \in 1 .. Len(x) + Len(y) : (x \o y)[i] = IF i <= Len(x) THEN x[i] ELSE y[i - Len(x)]
      BY ConcatProperties
    <3>2. a \in Seq(Msg) /\ b \in Seq(Msg)
      BY <2>3
    <3>3. QED
      BY <3>1, <3>2
  <2>5. Len(a \o b) = Len(q1) /\ \A i \in 1 .. Len(q1) : q1[i] = (a \o b)[i]
    BY <2>b, <2>1, <2>2, <2>3, <2>4 DEF b
  <2>6. q1 = a \o b
    BY <2>4, <2>5, SeqEqual
  <2>7. QED
    BY <2>1, <2>6 DEF a, b
<1>4. ASSUME p # <<>>
      PROVE  p \o q # <<>> /\ Head(p \o q) = Head(p) /\ Tail(p \o q) = Tail(p) \o q
  <2> DEFINE r == p \o q
  <2>1. /\ r # <<>> /\ r[1] = p[1] /\ Len(r) = Len(p) + Len(q) /\ Len(p) \in Nat \ {0} /\ Len(q) \in Nat
        /\ \A i \in 1 .. Len(r) : r[i] = IF i <= Len(p) THEN p[i] ELSE q[i - Len(p)]
    <3>1. Len(p) \in Nat \ {0} /\ Len(q) \in Nat
      BY <1>4, EmptySeq, LenProperties
    <3>2. /\ Len(r) = Len(p) + Len(q)
          /\ \A i \in 1 .. Len(r) : r[i] = IF i <= Len(p) THEN p[i] ELSE q[i - Len(p)]
      BY ConcatProperties
    <3> HIDE DEF r
    <3>3. r # <<>>
      BY <3>1, <3>2, EmptySeq
    <3>4. QED
      BY <3>1, <3>2, <3>3
  <2>2. /\ Tail(r) \in Seq(Msg) /\ Len(Tail(r)) = Len(r) - 1
        /\ \A i \in 1 .. Len(Tail(r)) : Tail(r)[i] = r[i + 1]
        /\ Tail(p) \in Seq(Msg) /\ Len(Tail(p)) = Len(p) - 1
        /\ \A i \in 1 .. Len(Tail(p)) : Tail(p)[i] = p[i + 1]
    BY <1>1, <1>4, <2>1, HeadTailProperties
  <2>3. /\ Tail(p) \o q \in Seq(Msg) /\ Len(Tail(p) \o q) = Len(p) - 1 + Len(q)
        /\ \A i \in 1 .. Len(p) - 1 + Len(q) :
             (Tail(p) \o q)[i] = IF i <= Len(p) - 1 THEN Tail(p)[i] ELSE q[i - (Len(p) - 1)]
    BY <2>2, ConcatProperties
  <2> DEFINE t == Tail(p)
             u == Tail(r)
             v == t \o q
  <2> HIDE DEF r, t, u, v
  <2>4. Len(u) = Len(v) /\ \A i \in 1 .. Len(u) : u[i] = v[i]
    BY <2>1, <2>2, <2>3 DEF t, u, v
  <2>5. u = v
    BY <2>2, <2>3, <2>4, SeqEqual DEF t, u, v
  <2>6. \A x \in Seq(Msg) : x # <<>> => Head(x) = x[1]
    OBVIOUS
  <2>7. QED
    BY <1>1, <1>4, <2>1, <2>5, <2>6 DEF r, t, u, v
<1>5. ASSUME q # <<>> PROVE Append(p, Head(q)) \o Tail(q) = p \o q
  <2>1. Head(q) \in Msg /\ Tail(q) \in Seq(Msg) /\ q = <<Head(q)>> \o Tail(q) /\ <<Head(q)>> \in Seq(Msg)
    BY <1>3, <1>5
  <2>2. Append(p, Head(q)) = p \o <<Head(q)>>
    BY <2>1, AppendIsConcat
  <2>3. (p \o <<Head(q)>>) \o Tail(q) = p \o (<<Head(q)>> \o Tail(q))
    BY <2>1, ConcatAssociative
  <2>4. QED
    BY <2>1, <2>2, <2>3
<1>6. QED
  BY <1>1, <1>2, <1>4, <1>5

LEMMA FlowType ==
  ASSUME TypeOK
  PROVE  /\ Flow \in Seq(Msg) /\ Len(Flow) \in Nat /\ DOMAIN Flow = 1 .. Len(Flow)
         /\ \A h \in DOMAIN Flow : Flow[h] \in Msg
<1>1. inbox["receiver"] \in Seq(Msg) /\ wire["sender"] \in Seq(Msg)
  BY DEF TypeOK, LinkType, Sides
<1>2. Flow \in Seq(Msg)
  BY <1>1, Queues DEF Flow
<1>3. QED
  BY <1>2, LenProperties

\* The receiver takes the head.
LEMMA FlowTakes ==
  ASSUME TypeOK, NEW kind, Receive("receiver", kind), UNCHANGED wire
  PROVE  /\ Flow # <<>> /\ Head(Flow) = Head(inbox["receiver"]) /\ Flow' = Tail(Flow)
         /\ Head(Flow) \in Msg /\ Head(Flow).kind = kind
<1>1. /\ inbox["receiver"] \in Seq(Msg) /\ wire["sender"] \in Seq(Msg)
      /\ inbox["receiver"] # <<>> /\ inbox'["receiver"] = Tail(inbox["receiver"])
      /\ Head(inbox["receiver"]).kind = kind
  BY DEF Receive, TypeOK, LinkType, Sides
<1> DEFINE p == inbox["receiver"]
           q == wire["sender"]
<1>2. /\ p \o q # <<>> /\ Head(p \o q) = Head(p) /\ Tail(p \o q) = Tail(p) \o q /\ Head(p) \in Msg
  <2> HIDE DEF p, q
  <2>1. p \in Seq(Msg) /\ q \in Seq(Msg) /\ p # <<>>
    BY <1>1 DEF p, q
  <2>2. QED
    BY <2>1, Queues, HeadTailProperties
<1>3. Flow' = Tail(p) \o q
  BY <1>1 DEF Flow
<1>4. QED
  BY <1>1, <1>2, <1>3 DEF Flow

\* A message of the sender comes last, unless the connection has ended.
LEMMA FlowPuts ==
  ASSUME TypeOK, NEW m \in Msg, Put(m), UNCHANGED inbox
  PROVE  Flow' = IF link = "open" THEN Append(Flow, m) ELSE Flow
<1>1. /\ inbox["receiver"] \in Seq(Msg) /\ wire["sender"] \in Seq(Msg)
      /\ inbox'["receiver"] = inbox["receiver"]
      /\ wire'["sender"] = IF link = "open" THEN Append(wire["sender"], m) ELSE wire["sender"]
  BY DEF Put, TypeOK, LinkType, Sides
<1>2. inbox["receiver"] \o Append(wire["sender"], m) = Append(inbox["receiver"] \o wire["sender"], m)
  BY <1>1, Queues
<1>3. QED
  BY <1>1, <1>2 DEF Flow

\* What the connection does to it: nothing, or it loses what is on the wire.
LEMMA FlowLinks ==
  ASSUME TypeOK, LinkStep
  PROVE  \/ Flow' = Flow /\ (link' = "open" => link = "open")
         \/ \E r \in Seq(Msg) : Flow = inbox["receiver"] \o r /\ Flow' = inbox["receiver"] /\ link' # "open"
<1>0. inbox["receiver"] \in Seq(Msg) /\ wire["sender"] \in Seq(Msg)
  BY DEF TypeOK, LinkType, Sides
<1>1. ASSUME NEW s \in Sides, Deliver(s) PROVE Flow' = Flow /\ UNCHANGED link
  <2>1. CASE s = "sender"
    <3>1. /\ wire["sender"] # <<>> /\ wire'["sender"] = Tail(wire["sender"])
          /\ inbox'["receiver"] = Append(inbox["receiver"], Head(wire["sender"]))
      BY <1>1, <2>1 DEF Deliver, TypeOK, LinkType, Peer, Sides
    <3>2. QED
      <4>1. Append(inbox["receiver"], Head(wire["sender"])) \o Tail(wire["sender"])
              = inbox["receiver"] \o wire["sender"]
        BY <1>0, <3>1, Queues
      <4>2. QED
        BY <1>1, <3>1, <4>1 DEF Flow, Deliver, handshakeVars
  <2>2. CASE s = "receiver"
    BY <1>1, <2>2 DEF Deliver, TypeOK, LinkType, Peer, Sides, Flow, handshakeVars
  <2>3. QED
    BY <2>1, <2>2 DEF Sides
<1>2. ASSUME NEW how \in {"lost", "closed"}, EndLink(how), UNCHANGED inbox
      PROVE  Flow = inbox["receiver"] \o wire["sender"] /\ Flow' = inbox["receiver"] /\ link' # "open"
  <2>1. wire'["sender"] = <<>> /\ link' # "open"
    BY <1>2 DEF EndLink, Sides
  <2>2. inbox["receiver"] \o <<>> = inbox["receiver"]
    BY <1>0, ConcatEmptySeq
  <2>3. QED
    BY <1>2, <2>1, <2>2 DEF Flow
<1>3. ASSUME NEW s \in Sides, Fail(s) \/ Disconnect(s) PROVE Flow' = Flow /\ UNCHANGED link
  BY <1>3 DEF Fail, Disconnect, Flow
<1>4. CASE Lose
  BY <1>0, <1>2, <1>4 DEF Lose
<1>5. ASSUME NEW s \in Sides, Finish(s)
      PROVE  \E r \in Seq(Msg) : Flow = inbox["receiver"] \o r /\ Flow' = inbox["receiver"] /\ link' # "open"
  BY <1>0, <1>2, <1>5 DEF Finish
<1>6. QED
  BY <1>0, <1>1, <1>2, <1>3, <1>4, <1>5 DEF LinkStep, Lose

\* Where the sender has to do with files, or had.
Late == {"sending", "closing", "response", "ok", "failed"}

\* What the tasks say and take beside the files.
LEMMA SenderSays ==
  ASSUME TypeOK, Conversation("sender")
  PROVE  \/ /\ pc["sender"] \notin Late
            /\ \E next : \/ SendThen("sender", <<>>, next)
                         \/ \E m \in Msg : m.kind # "header" /\ SendThen("sender", <<m>>, next)
         \/ pc["sender"] = "closing" /\ SendThen("sender", <<Message("delimiter")>>, "response")
         \/ pc["sender"] = "response" /\ SendThen("sender", <<>>, "ok")
<1> DEFINE Speaks == \E next : \/ Shake("sender", <<>>, next)
                                \/ \E m \in Msg : m.kind # "header" /\ Shake("sender", <<m>>, next)
<1>m. /\ \A k \in PlainKind : Message(k) \in Msg /\ Message(k).kind # "header"
      /\ \A x \in BOOLEAN : About("pin", x) \in Msg /\ About("pin", x).kind # "header"
  <2>1. /\ \A k \in PlainKind : Message(k).kind # "header"
        /\ \A x \in BOOLEAN : About("pin", x).kind # "header"
    BY DEF PlainKind, Message, About
  <2>2. QED
    BY <2>1, MessageTypes
<1>3. CASE SenderNonce \/ SendToken \/ SenderToken \/ SenderPassed \/ Selected
  <2>1. pc["sender"] \notin Late
    BY <1>3 DEF SenderNonce, SendToken, SenderToken, SenderPassed, Selected, TakeNonce, Late
  <2>2. Speaks
    BY <1>3, <1>m
       DEF SenderNonce, SendToken, SenderToken, SenderPassed, Selected, SenderProceeds, PlainKind
  <2>3. QED
    BY <2>1, <2>2 DEF Shake
<1>4. CASE StorePin("sender") \/ EnterPin("sender") \/ PinAnswer("sender") \/ Flush("sender") \/ Unwanted("sender")
  <2>1. pc["sender"] \notin Late
    BY <1>4 DEF StorePin, EnterPin, PinAnswer, Flush, Unwanted, Late
  <2>2. Speaks
    BY <1>4, <1>m DEF StorePin, EnterPin, PinAnswer, Flush, Unwanted
  <2>3. QED
    BY <2>1, <2>2 DEF Shake
<1>5. CASE VerifyPin("sender")
  <2>1. pc["sender"] \notin Late
    BY <1>5 DEF VerifyPin, Late
  <2>2. Speaks
    BY <1>5, <1>m DEF VerifyPin, Accept, PlainKind
  <2>3. QED
    BY <2>1, <2>2 DEF Shake
<1>6. CASE SendDelimiter \/ TakeResponse
  BY <1>6 DEF SendDelimiter, TakeResponse, Shake
<1>7. QED
  BY <1>3, <1>4, <1>5, <1>6 DEF Conversation

LEMMA ReceiverSays ==
  ASSUME TypeOK, Conversation("receiver")
  PROVE  pc["receiver"] \notin {"receive", "result", "header", "failed"}
  BY DEF Conversation, ReceiverOpens, ReceiverNonce, ReceiverToken, ReceiverPassed, ReceiverStatus,
         SendTokens, Decline, SendDecline, LastStatus, TakeNonce, StorePin, EnterPin, PinAnswer,
         VerifyPin, Flush, Unwanted

-----------------------------------------------------------------------------
(* Files apart *)

\* A header the receiver holds while it has not begun the file.
Awaited(g) == held.kind = "header" /\ held.of = g /\ pc["receiver"] \in {"result", "header"}

\* The file whose chunks come next.
Writing(g) == (pc["receiver"] = "receive" /\ current = g) \/ Awaited(g)

Coming(g) == \E h \in DOMAIN Flow : Flow[h] = About("header", g)

\* Not handed over, or not begun.
Fresh(f) == f \notin sent \/ f = handed

\* The link never comes up a second time.
Linked ==
  /\ \A s \in Sides : main[s] = "finished" => link \notin {None, "open"}
  /\ link = None => \A s \in Sides : pc[s] \in EarlyPhase \cup {"channel", "failed"}
  /\ pc["sender"] \in EarlyPhase => link = None

\* The sender has one file to begin at most, and one that it reads.
Handing ==
  /\ handed # None \/ source # None => pc["sender"] = "sending"
  /\ sent # {} => pc["sender"] \in Late
  /\ handed # None => handed \in sent
  /\ source # None => source \in sent /\ source # handed

\* Nothing was said of a file that was not begun.
Untouched ==
  \A f \in Files : Fresh(f) =>
    given[f] = 0 /\ stream[f] = None /\ got[f] = <<>> /\ ~Writing(f) /\ ~Coming(f)

\* A file is announced once.
Once ==
  \A f \in Files :
    /\ \A h, k \in DOMAIN Flow : Flow[h] = About("header", f) /\ Flow[k] = About("header", f) => h = k
    /\ Coming(f) => ~Writing(f)
    /\ Coming(f) \/ Awaited(f) => stream[f] = None /\ got[f] = <<>>

\* Only what the user selected is announced, and written.
Chosen == \A f \in Files : Coming(f) \/ Writing(f) \/ stream[f] # None => f \in selection

\* Behind a header, and at the front of what the receiver is going to take, comes
\* one file, whole.
Pieces ==
  \A g \in Files :
    /\ Writing(g) => Piece(Flow, 0, g, Len(got[g]), given[g], source, link = "open")
    /\ \A h \in DOMAIN Flow : Flow[h] = About("header", g) =>
         Piece(Flow, h, g, 0, given[g], source, link = "open")

Framing == Untouched /\ Once /\ Chosen /\ Pieces

\* What a step has to see to that neither takes from the channel nor puts into it.
LEMMA FlowKept ==
  ASSUME TypeOK, Framing, Flow' = Flow, UNCHANGED got, selection \subseteq selection',
         \A f \in Files :
           /\ Fresh(f)' => Fresh(f)
           /\ Writing(f)' => Writing(f)
           /\ Awaited(f)' => Awaited(f)
           /\ stream'[f] = stream[f] \/ (Writing(f) /\ ~Awaited(f)') \/ stream[f] # None
           /\ given'[f] = given[f] \/ ~Fresh(f),
         \A g \in Files, h, n \in Nat :
           Piece(Flow, h, g, n, given[g], source, link = "open") /\ (Coming(g) \/ Writing(g))
             => Piece(Flow, h, g, n, given'[g], source', link' = "open")
  PROVE  Framing'
<1>0. DOMAIN Flow = 1 .. Len(Flow) /\ Len(Flow) \in Nat /\ \A g \in Files : got[g] \in Seq(Files)
  BY FlowType DEF TypeOK, FileType
<1>1. \A f \in Files : Coming(f)' <=> Coming(f)
  BY DEF Coming
<1>2. Untouched'
  BY <1>1 DEF Framing, Untouched
<1>3. Once'
  BY <1>1 DEF Framing, Once
<1>4. Chosen'
  BY <1>1 DEF Framing, Chosen
<1>5. Pieces'
  <2> SUFFICES ASSUME NEW g \in Files
               PROVE  /\ Writing(g)' => Piece(Flow, 0, g, Len(got[g]), given'[g], source', link' = "open")
                      /\ \A h \in DOMAIN Flow : Flow[h] = About("header", g) =>
                           Piece(Flow, h, g, 0, given'[g], source', link' = "open")
    BY DEF Pieces
  <2>1. Len(got[g]) \in Nat
    BY <1>0, LenProperties
  <2>2. Writing(g)' => Piece(Flow, 0, g, Len(got[g]), given'[g], source', link' = "open")
    BY <2>1 DEF Framing, Pieces
  <2>3. ASSUME NEW h \in DOMAIN Flow, Flow[h] = About("header", g)
        PROVE  Piece(Flow, h, g, 0, given'[g], source', link' = "open")
    <3>1. Coming(g) /\ Piece(Flow, h, g, 0, given[g], source, link = "open") /\ h \in Nat /\ 0 \in Nat
      BY <1>0, <2>3 DEF Framing, Pieces, Coming
    <3>2. QED
      BY <3>1
  <2>4. QED
    BY <2>2, <2>3
<1>6. QED
  BY <1>2, <1>3, <1>4, <1>5 DEF Framing

\* What a step has to see to that puts a message into it.
LEMMA FlowAppended ==
  ASSUME TypeOK, Framing, NEW m \in Msg, Flow' = Append(Flow, m),
         UNCHANGED <<got, selection, stream, link, current, held>>, pc'["receiver"] = pc["receiver"],
         \A f \in Files :
           /\ Fresh(f)' => Fresh(f)
           /\ given'[f] = given[f] \/ ~Fresh(f)
           /\ m = About("header", f) =>
                /\ Fresh(f) /\ ~Fresh(f)' /\ f \in selection
                /\ Piece(Flow', Len(Flow) + 1, f, 0, given'[f], source', link = "open"),
         \A g \in Files, h \in 0 .. Len(Flow), n \in Nat :
           Piece(Flow, h, g, n, given[g], source, link = "open") /\ (Coming(g) \/ Writing(g))
             => Piece(Flow', h, g, n, given'[g], source', link = "open")
  PROVE  Framing'
<1>0. /\ DOMAIN Flow = 1 .. Len(Flow) /\ Len(Flow) \in Nat /\ \A g \in Files : Len(got[g]) \in Nat
      /\ DOMAIN Flow' = 1 .. (Len(Flow) + 1) /\ Flow'[Len(Flow) + 1] = m
      /\ \A i \in DOMAIN Flow : Flow'[i] = Flow[i]
  <2>1. \A g \in Files : got[g] \in Seq(Files)
    BY DEF TypeOK, FileType
  <2>2. /\ Flow \in Seq(Msg) /\ Append(Flow, m) \in Seq(Msg) /\ Len(Append(Flow, m)) = Len(Flow) + 1
        /\ Append(Flow, m)[Len(Flow) + 1] = m
        /\ \A i \in 1 .. Len(Flow) : Append(Flow, m)[i] = Flow[i]
    BY FlowType, AppendProperties
  <2>3. DOMAIN Append(Flow, m) = 1 .. (Len(Flow) + 1)
    BY <2>2, LenProperties
  <2>4. QED
    BY <2>1, <2>2, <2>3, FlowType, LenProperties
<1>1. \A f \in Files : /\ Coming(f)' <=> Coming(f) \/ m = About("header", f)
                       /\ Writing(f)' <=> Writing(f)
                       /\ Awaited(f)' <=> Awaited(f)
  <2>1. \A f \in Files : Coming(f)' <=> Coming(f) \/ m = About("header", f)
    BY <1>0 DEF Coming
  <2>2. QED
    BY <2>1 DEF Writing, Awaited
<1>2. Untouched'
  BY <1>1 DEF Framing, Untouched
<1>3. Once'
  <2> SUFFICES ASSUME NEW f \in Files
               PROVE  /\ \A h, k \in DOMAIN Flow' : Flow'[h] = About("header", f) /\ Flow'[k] = About("header", f) => h = k
                      /\ Coming(f)' => ~Writing(f)'
                      /\ Coming(f)' \/ Awaited(f)' => stream[f] = None /\ got[f] = <<>>
    BY DEF Once
  <2>1. CASE m = About("header", f)
    BY <1>0, <1>1, <2>1 DEF Framing, Untouched, Once, Coming
  <2>2. CASE m # About("header", f)
    BY <1>0, <1>1, <2>2 DEF Framing, Once
  <2>3. QED
    BY <2>1, <2>2
<1>4. Chosen'
  BY <1>1 DEF Framing, Chosen
<1>5. Pieces'
  <2> SUFFICES ASSUME NEW g \in Files
               PROVE  /\ Writing(g)' => Piece(Flow', 0, g, Len(got[g]), given'[g], source', link = "open")
                      /\ \A h \in DOMAIN Flow' : Flow'[h] = About("header", g) =>
                           Piece(Flow', h, g, 0, given'[g], source', link = "open")
    BY DEF Pieces
  <2>1. Writing(g) => Piece(Flow', 0, g, Len(got[g]), given'[g], source', link = "open")
    BY <1>0 DEF Framing, Pieces
  <2>2. \A h \in DOMAIN Flow : Flow[h] = About("header", g) =>
                           Piece(Flow', h, g, 0, given'[g], source', link = "open")
    BY <1>0 DEF Framing, Pieces, Coming
  <2>3. QED
    BY <1>0, <1>1, <2>1, <2>2
<1>6. QED
  BY <1>2, <1>3, <1>4, <1>5 DEF Framing

\* What a step has to see to that takes the head of it.
LEMMA FlowTaken ==
  ASSUME TypeOK, Framing, Flow # <<>>, Flow' = Tail(Flow),
         UNCHANGED <<selection, sent, handed, given, source, link>>, got' \in [Files -> Seq(Files)],
         \A f \in Files :
           /\ Writing(f)' => Writing(f) \/ Head(Flow) = About("header", f)
           /\ Awaited(f)' => Head(Flow) = About("header", f)
           /\ (stream'[f] = stream[f] /\ got'[f] = got[f]) \/ (Writing(f) /\ ~Awaited(f)')
           /\ Writing(f)' => Piece(Flow', 0, f, Len(got'[f]), given[f], source, link = "open")
  PROVE  Framing'
<1>0. /\ DOMAIN Flow = 1 .. Len(Flow) /\ Len(Flow) \in Nat /\ Head(Flow) = Flow[1] /\ 1 \in DOMAIN Flow
      /\ DOMAIN Flow' = 1 .. (Len(Flow) - 1) /\ Flow \in Seq(Msg)
      /\ \A i \in DOMAIN Flow' : Flow'[i] = Flow[i + 1] /\ i + 1 \in DOMAIN Flow /\ i \in Nat \ {0}
  <2>1. Flow \in Seq(Msg) /\ Len(Flow) \in Nat \ {0} /\ DOMAIN Flow = 1 .. Len(Flow) /\ Head(Flow) = Flow[1]
    BY FlowType, EmptySeq
  <2>2. Tail(Flow) \in Seq(Msg) /\ Len(Tail(Flow)) = Len(Flow) - 1
        /\ \A i \in 1 .. Len(Tail(Flow)) : Tail(Flow)[i] = Flow[i + 1]
    BY <2>1, HeadTailProperties
  <2>3. DOMAIN Tail(Flow) = 1 .. (Len(Flow) - 1)
    BY <2>2, LenProperties
  <2>4. QED
    BY <2>1, <2>2, <2>3
<1>1. \A f \in Files : /\ Coming(f)' => Coming(f)
                       /\ Head(Flow) = About("header", f) => Coming(f) /\ ~Coming(f)'
                       /\ Fresh(f)' <=> Fresh(f)
  BY <1>0 DEF Coming, Fresh, Framing, Once
<1>2. Untouched'
  BY <1>1 DEF Framing, Untouched
<1>3. Once'
  <2> SUFFICES ASSUME NEW f \in Files
               PROVE  /\ \A h, k \in DOMAIN Flow' : Flow'[h] = About("header", f) /\ Flow'[k] = About("header", f) => h = k
                      /\ Coming(f)' => ~Writing(f)'
                      /\ Coming(f)' \/ Awaited(f)' => stream'[f] = None /\ got'[f] = <<>>
    BY DEF Once
  <2>1. \A h, k \in DOMAIN Flow' : Flow'[h] = About("header", f) /\ Flow'[k] = About("header", f) => h = k
    BY <1>0 DEF Framing, Once
  <2>2. Coming(f)' => ~Writing(f)'
    BY <1>1 DEF Framing, Once
  <2>3. Coming(f)' \/ Awaited(f)' => stream'[f] = None /\ got'[f] = <<>>
    BY <1>1 DEF Framing, Once
  <2>4. QED
    BY <2>1, <2>2, <2>3
<1>4. Chosen'
  BY <1>1 DEF Framing, Chosen
<1>5. Pieces'
  <2> SUFFICES ASSUME NEW g \in Files, NEW h \in DOMAIN Flow', Flow'[h] = About("header", g)
               PROVE  Piece(Flow', h, g, 0, given[g], source, link = "open")
    BY DEF Pieces
  <2>1. Piece(Flow, h + 1, g, 0, given[g], source, link = "open")
    BY <1>0 DEF Framing, Pieces
  <2>2. h \in Nat /\ given[g] \in Nat /\ (link = "open") \in BOOLEAN
    BY <1>0 DEF TypeOK, FileType
  <2>3. QED
    BY <1>0, <2>1, <2>2, PieceTail
<1>6. QED
  BY <1>2, <1>3, <1>4, <1>5 DEF Framing

\* The connection ends: some of it is lost.
LEMMA FlowLost ==
  ASSUME TypeOK, Framing, NEW p \in Seq(Msg), NEW r \in Seq(Msg), Flow = p \o r, Flow' = p, link' # "open",
         UNCHANGED <<pc, fileVars>>
  PROVE  Framing'
<1>0. /\ DOMAIN Flow = 1 .. Len(Flow) /\ Len(Flow) \in Nat /\ \A g \in Files : Len(got[g]) \in Nat /\ given[g] \in Nat
      /\ DOMAIN p = 1 .. Len(p) /\ Len(p) \in Nat
      /\ \A i \in DOMAIN p : i \in DOMAIN Flow /\ p[i] = Flow[i]
  <2>1. \A g \in Files : got[g] \in Seq(Files) /\ given[g] \in Nat
    BY DEF TypeOK, FileType
  <2>2. \A g \in Files : Len(got[g]) \in Nat
    BY <2>1, LenProperties
  <2>3. Len(p \o r) = Len(p) + Len(r) /\ \A i \in 1 .. Len(p) + Len(r) : (p \o r)[i] = IF i <= Len(p) THEN p[i] ELSE r[i - Len(p)]
    BY ConcatProperties
  <2>4. Len(p) \in Nat /\ Len(r) \in Nat /\ DOMAIN p = 1 .. Len(p)
    BY LenProperties
  <2>5. QED
    BY <2>1, <2>2, <2>3, <2>4, FlowType
<1>1. /\ UNCHANGED <<sent, handed, given, source, selection, stream, got, current, held, pc>>
      /\ \A f \in Files : (Coming(f)' => Coming(f)) /\ (Writing(f)' <=> Writing(f))
                          /\ (Awaited(f)' <=> Awaited(f)) /\ (Fresh(f)' <=> Fresh(f))
  <2>1. UNCHANGED <<sent, handed, given, source, selection, stream, got, current, held, pc>>
    BY DEF fileVars, sendVars, receiveVars
  <2>2. \A f \in Files : Coming(f)' => Coming(f)
    BY <1>0 DEF Coming
  <2>3. QED
    BY <2>1, <2>2 DEF Writing, Awaited, Fresh
<1>2. Untouched'
  BY <1>1 DEF Framing, Untouched
<1>3. Once'
  <2>1. \A f \in Files, h, k \in DOMAIN p : p[h] = About("header", f) /\ p[k] = About("header", f) => h = k
    BY <1>0 DEF Framing, Once
  <2>2. QED
    BY <1>1, <2>1 DEF Framing, Once
<1>4. Chosen'
  BY <1>1 DEF Framing, Chosen
<1>5. Pieces'
  <2>1. ASSUME NEW g \in Files, NEW h \in 0 .. Len(p), NEW n \in Nat, Piece(Flow, h, g, n, given[g], source, link = "open")
        PROVE  Piece(p, h, g, n, given[g], source, FALSE)
    <3>1. (link = "open") \in BOOLEAN /\ given[g] \in Nat
      BY <1>0
    <3>2. QED
      BY <2>1, <3>1, PiecePrefix
  <2> SUFFICES ASSUME NEW g \in Files
               PROVE  /\ Writing(g) => Piece(p, 0, g, Len(got[g]), given[g], source, FALSE)
                      /\ \A h \in DOMAIN p : p[h] = About("header", g) =>
                           Piece(p, h, g, 0, given[g], source, FALSE)
    <3>1. (link' = "open") = FALSE
      OBVIOUS
    <3>2. QED
      BY <1>1, <3>1 DEF Pieces
  <2>2. /\ Writing(g) => Piece(Flow, 0, g, Len(got[g]), given[g], source, link = "open")
        /\ \A h \in DOMAIN p : p[h] = About("header", g) =>
             h \in 0 .. Len(p) /\ Piece(Flow, h, g, 0, given[g], source, link = "open")
    BY <1>0 DEF Framing, Pieces
  <2>3. 0 \in 0 .. Len(p) /\ Len(got[g]) \in Nat /\ 0 \in Nat
    BY <1>0
  <2>4. QED
    BY <2>1, <2>2, <2>3
<1>6. QED
  BY <1>2, <1>3, <1>4, <1>5 DEF Framing

\* What the signaling does to the tasks.
LEMMA SignalPhases ==
  ASSUME TypeOK, Offers, SignalStep
  PROVE  /\ \A s \in Sides : \/ pc'[s] = pc[s]
                             \/ pc[s] \in EarlyPhase /\ pc'[s] \in EarlyPhase \cup {"channel", "failed"}
         /\ link' = link \/ (pc["sender"] = "answer" /\ pc'["sender"] = "channel" /\ link' = "open")
<1> DEFINE Goal == /\ \A s \in Sides : \/ pc'[s] = pc[s]
                                       \/ pc[s] \in EarlyPhase /\ pc'[s] \in EarlyPhase \cup {"channel", "failed"}
                   /\ link' = link \/ (pc["sender"] = "answer" /\ pc'["sender"] = "channel" /\ link' = "open")
<1>0. "sender" \in Sides /\ "receiver" \in Sides
  BY DEF Sides
<1>1. ASSUME NEW s \in Sides, NEW next \in EarlyPhase \cup {"channel", "failed"}, pc[s] \in EarlyPhase,
             pc' = [pc EXCEPT ![s] = next], UNCHANGED link
      PROVE  Goal
  BY <1>1 DEF TypeOK, PhaseType
<1>2. ASSUME NEW s \in Sides, Listen(s) PROVE Goal
  <2>1. channel[s] \in SignalKind
    BY <1>2 DEF Listen, TypeOK, SignalType
  <2>2. CASE channel[s] = "offer"
    <3>1. pc[s] = "idle" /\ pc' = [pc EXCEPT ![s] = "asked"] /\ UNCHANGED link
      BY <1>0, <1>2, <2>2 DEF Listen, Offers, NoOffer, Sides
    <3>2. QED
      BY <1>1, <3>1 DEF EarlyPhase
  <2>3. CASE channel[s] = "answer" /\ pc[s] = "answer"
    <3>1. s = "sender"
      BY <2>3 DEF TypeOK, PhaseType, Phase, ReceiverPhase, SharedPhase, Sides
    <3>2. pc' = [pc EXCEPT !["sender"] = "channel"] /\ link' = "open"
      BY <1>2, <2>3 DEF Listen, UseAnswer
    <3>3. QED
      BY <1>0, <2>3, <3>1, <3>2 DEF TypeOK, PhaseType, EarlyPhase
  <2>4. CASE channel[s] \in {"join", "hello"} \/ (channel[s] = "answer" /\ pc[s] # "answer")
    BY <1>2, <2>4 DEF Listen
  <2>5. QED
    BY <2>1, <2>2, <2>3, <2>4 DEF SignalKind
<1>3. CASE SendOffer \/ SendAnswer \/ UserSends \/ OnAnswer \/ AcceptOffer
  <2>1. /\ UNCHANGED link
        /\ \E s \in Sides, next \in EarlyPhase \cup {"channel", "failed"} :
             pc[s] \in EarlyPhase /\ pc' = [pc EXCEPT ![s] = next]
    BY <1>0, <1>3 DEF SendOffer, SendAnswer, Signal, UserSends, OnAnswer, AcceptOffer, EarlyPhase, handshakeVars
  <2>2. QED
    BY <1>1, <2>1
<1>4. QED
  BY <1>2, <1>3 DEF SignalStep, Signaling, Greet, ReadSocket, PassOn, Connect, LoseSignal

LEMMA ChannelUp ==
  ASSUME TypeOK, Linked, NEW s \in Sides, Conversation(s)
  PROVE  link # None
<1>1. pc[s] # "failed" /\ (pc[s] = "channel" => link # None)
  BY DEF Conversation, SenderNonce, SendToken, SenderToken, SenderPassed, Selected, SendDelimiter,
         TakeResponse, ReceiverOpens, ReceiverNonce, ReceiverToken, ReceiverPassed, ReceiverStatus,
         SendTokens, Decline, SendDecline, LastStatus, TakeNonce, StorePin, EnterPin, PinAnswer,
         VerifyPin, Flush, Unwanted
<1>2. pc[s] \notin EarlyPhase
  BY ConversationForm
<1>3. QED
  BY <1>1, <1>2 DEF Linked

\* What a step that has to do with the files does to the tasks.
LEMMA FilePhases ==
  ASSUME TypeOK, FileStep
  PROVE  \/ UNCHANGED pc
         \/ EndSending
         \/ /\ pc["receiver"] \in {"select", "receive", "result", "header"} /\ pc'["sender"] = pc["sender"]
            /\ pc'["receiver"] \in {"selected", "receive", "result", "header", "last status", "failed"}
<1>1. CASE Select \/ TakeString \/ StartReceiving \/ TakeChunk
  BY <1>1 DEF Select, TakeString, StartReceiving, TakeChunk, TypeOK, PhaseType, Sides
<1>2. CASE AnswerFile
  BY <1>2 DEF AnswerFile, SendThen, TypeOK, PhaseType, Sides
<1>3. QED
  BY <1>1, <1>2 DEF FileStep, StartFile, SendChunk, EndFile, HandOver, ReportResult, DropStream

LEMMA LinkedStep ==
  ASSUME TypeOK, Offers, Linked, [Next]_vars
  PROVE  Linked'
<1>0. "sender" \in Sides
  BY DEF Sides
<1>1. ASSUME NEW s \in Sides, Conversation(s) PROVE Linked'
  <2>1. link # None /\ UNCHANGED <<link, main>>
    BY <1>1, ChannelUp, Frames
  <2>2. pc'["sender"] \in EarlyPhase => pc["sender"] \in EarlyPhase
    BY <1>0, <1>1, Underway
  <2>3. QED
    BY <2>1, <2>2 DEF Linked
<1>2. CASE FileStep
  <2>1. UNCHANGED <<link, main>>
    BY <1>2, Frames DEF handshakeVars
  <2>2. pc'["sender"] \in EarlyPhase => pc["sender"] \in EarlyPhase
    BY <1>0, <1>2, Underway
  <2>3. link = None => UNCHANGED pc
    <3>1. pc["sender"] = "sending" \/ pc["receiver"] \in {"select", "receive", "result", "header"} => link # None
      BY DEF Linked, Sides, EarlyPhase
    <3>2. QED
      BY <1>2, <3>1, FilePhases DEF EndSending
  <2>4. QED
    BY <2>1, <2>2, <2>3 DEF Linked
<1>3. CASE LinkStep
  <2>1. UNCHANGED pc
    BY <1>3, Frames
  <2>2. ASSUME NEW s \in Sides, Finish(s) PROVE Linked'
    <3>1. link # None
      BY <2>2 DEF Finish, Linked, EarlyPhase
    <3>2. link' \notin {None, "open"}
      BY <2>2, <3>1 DEF Finish, EndLink, None
    <3>3. QED
      BY <2>1, <3>1, <3>2 DEF Linked
  <2>3. CASE Lose
    BY <2>1, <2>3 DEF Lose, EndLink, Linked, None
  <2>4. ASSUME NEW s \in Sides, Deliver(s) \/ Fail(s) \/ Disconnect(s) PROVE Linked'
    <3>1. /\ UNCHANGED link
          /\ \A t \in Sides : main'[t] = "finished" => main[t] = "finished" \/ link \in {"closed", "lost"}
      BY <2>4 DEF Deliver, Fail, Disconnect, handshakeVars, TypeOK, LinkType
    <3>2. QED
      BY <2>1, <3>1 DEF Linked, None
  <2>5. QED
    BY <1>3, <2>2, <2>3, <2>4 DEF LinkStep
<1>4. CASE SignalStep
  <2>1. UNCHANGED main
    BY <1>4, Frames
  <2>2. /\ \A s \in Sides : \/ pc'[s] = pc[s]
                            \/ pc[s] \in EarlyPhase /\ pc'[s] \in EarlyPhase \cup {"channel", "failed"}
        /\ link' = link \/ (pc["sender"] = "answer" /\ pc'["sender"] = "channel" /\ link' = "open")
    BY <1>4, SignalPhases
  <2>3. CASE link' = link
    BY <1>0, <2>1, <2>2, <2>3 DEF Linked
  <2>4. CASE pc["sender"] = "answer" /\ pc'["sender"] = "channel" /\ link' = "open"
    BY <1>0, <2>1, <2>4 DEF Linked, EarlyPhase, None
  <2>5. QED
    BY <2>2, <2>3, <2>4
<1>5. CASE UNCHANGED vars
  BY <1>5 DEF vars, handshakeVars, Linked
<1>6. QED
  BY <1>1, <1>2, <1>3, <1>4, <1>5, StepKinds

LEMMA HandingStep ==
  ASSUME TypeOK, Offers, Handing, [Next]_vars
  PROVE  Handing'
<1>0. "sender" \in Sides /\ "receiver" \in Sides /\ None \notin Files
  BY RtcAssumption DEF Sides, None
<1>1. ASSUME UNCHANGED sendVars, pc'["sender"] = pc["sender"] PROVE Handing'
  BY <1>1 DEF Handing, sendVars
<1>2. ASSUME UNCHANGED sendVars, pc["sender"] \notin Late PROVE Handing'
  <2>1. sent = {} /\ handed = None /\ source = None
    BY <1>2 DEF Handing, Late
  <2>2. QED
    BY <1>2, <2>1 DEF Handing, sendVars
<1>3. CASE Conversation("sender")
  <2>1. UNCHANGED sendVars
    BY <1>0, <1>3, Frames DEF fileVars
  <2>2. CASE pc["sender"] \notin Late
    BY <1>2, <2>1, <2>2
  <2>3. CASE /\ pc["sender"] \in {"closing", "response"}
             /\ \E msgs : \E next \in {"response", "ok"} : SendThen("sender", msgs, next)
    <3>1. pc'["sender"] \in {"response", "ok", "failed"}
      BY <1>0, <2>3 DEF SendThen, TypeOK, PhaseType
    <3>2. handed = None /\ source = None
      BY <2>3 DEF Handing
    <3>3. QED
      BY <2>1, <3>1, <3>2 DEF Handing, sendVars, Late
  <2>4. QED
    BY <1>3, <2>2, <2>3, SenderSays
<1>4. CASE Conversation("receiver")
  <2>1. UNCHANGED sendVars
    BY <1>0, <1>4, Frames DEF fileVars
  <2>2. PICK msgs, next : SendThen("receiver", msgs, next)
    BY <1>0, <1>4, ConversationForm DEF Talks, Shake
  <2>3. pc'["sender"] = pc["sender"]
    BY <1>0, <2>2 DEF SendThen, TypeOK, PhaseType
  <2>4. QED
    BY <1>1, <2>1, <2>3
<1>5. CASE FileStep
  <2>1. ASSUME NEW f \in Files, HandOver(f) PROVE Handing'
    BY <1>0, <2>1 DEF HandOver, Handing, Late
  <2>2. CASE StartFile
    BY <1>0, <2>2 DEF StartFile, Handing, TypeOK, FileType
  <2>3. CASE SendChunk \/ EndFile
    BY <2>3 DEF SendChunk, EndFile, Handing
  <2>4. CASE EndSending
    <3>1. pc'["sender"] = "closing" /\ handed = None /\ source = None /\ UNCHANGED sendVars
      BY <1>0, <2>4 DEF EndSending, fileVars, TypeOK, PhaseType
    <3>2. QED
      BY <3>1 DEF Handing, Late, sendVars
  <2>5. CASE \/ Select \/ TakeString \/ AnswerFile \/ StartReceiving \/ TakeChunk
             \/ \E f \in Files : ReportResult(f) \/ DropStream(f)
    <3>1. UNCHANGED sendVars
      BY <2>5 DEF Select, TakeString, AnswerFile, StartReceiving, TakeChunk, ReportResult, DropStream
    <3>2. pc'["sender"] = pc["sender"]
      BY <1>0, <2>5 DEF Select, TakeString, AnswerFile, SendThen, StartReceiving, TakeChunk, ReportResult,
                        DropStream, TypeOK, PhaseType
    <3>3. QED
      BY <1>1, <3>1, <3>2
  <2>6. QED
    BY <1>5, <2>1, <2>2, <2>3, <2>4, <2>5 DEF FileStep
<1>6. CASE SignalStep
  <2>1. UNCHANGED sendVars
    BY <1>6, Frames DEF fileVars
  <2>2. pc'["sender"] = pc["sender"] \/ pc["sender"] \in EarlyPhase
    BY <1>0, <1>6, SignalPhases
  <2>3. QED
    BY <1>1, <1>2, <2>1, <2>2 DEF EarlyPhase, Late
<1>7. CASE LinkStep \/ UNCHANGED vars
  BY <1>1, <1>7, Frames DEF vars, fileVars
<1>8. QED
  BY <1>3, <1>4, <1>5, <1>6, <1>7, StepKinds DEF Sides

\* The receiver writes one file at a time.
Streams ==
  /\ current # None => pc["receiver"] \in {"receive", "failed"} /\ stream[current] \in {"open", "dropped"}
  /\ \A f \in Files : stream[f] = "open" => f = current

LEMMA StreamsStep ==
  ASSUME TypeOK, Offers, Streams, [Next]_vars
  PROVE  Streams'
<1>0. "sender" \in Sides /\ "receiver" \in Sides /\ None \notin Files
  BY RtcAssumption DEF Sides, None
<1>1. ASSUME UNCHANGED receiveVars,
             pc'["receiver"] = pc["receiver"] \/ pc["receiver"] \notin {"receive", "failed"}
      PROVE  Streams'
  BY <1>1 DEF Streams, receiveVars
<1>2. ASSUME NEW s \in Sides, Conversation(s) PROVE Streams'
  <2>1. UNCHANGED receiveVars
    BY <1>2, Frames DEF fileVars
  <2>2. s = "receiver" => pc["receiver"] \notin {"receive", "failed"}
    BY <1>2, ReceiverSays
  <2>3. PICK msgs, next : SendThen(s, msgs, next)
    BY <1>2, ConversationForm DEF Talks, Shake
  <2>4. s # "receiver" => pc'["receiver"] = pc["receiver"]
    BY <1>0, <2>3 DEF SendThen, TypeOK, PhaseType
  <2>5. QED
    BY <1>1, <2>1, <2>2, <2>4
<1>3. CASE FileStep
  <2>1. CASE StartFile \/ SendChunk \/ EndFile \/ EndSending \/ AnswerFile \/ \E f \in Files : HandOver(f) \/ ReportResult(f)
    <3>1. UNCHANGED receiveVars
      BY <2>1 DEF StartFile, SendChunk, EndFile, EndSending, AnswerFile, HandOver, ReportResult, fileVars
    <3>2. pc'["receiver"] = pc["receiver"] \/ pc["receiver"] \notin {"receive", "failed"}
      BY <1>0, <2>1 DEF StartFile, SendChunk, EndFile, EndSending, AnswerFile, HandOver, ReportResult,
                        TypeOK, PhaseType
    <3>3. QED
      BY <1>1, <3>1, <3>2
  <2>2. CASE Select
    BY <2>2 DEF Select, Streams
  <2>3. CASE TakeString
    BY <1>0, <2>3 DEF TakeString, Streams, TypeOK, FileType, None
  <2>4. CASE StartReceiving
    <3>1. held.of \in Files /\ current = None
      BY <2>4 DEF StartReceiving, TypeOK, FileType, PhaseType, Streams
    <3>2. QED
      BY <1>0, <2>4, <3>1 DEF StartReceiving, Streams, TypeOK, FileType, PhaseType
  <2>5. CASE TakeChunk
    <3>1. CASE UNCHANGED <<current, stream>> /\ pc'["receiver"] \in {pc["receiver"], "failed"}
      BY <3>1 DEF Streams
    <3>2. CASE current' = None /\ stream' = [stream EXCEPT ![current] = "cut"]
      BY <1>0, <3>2 DEF Streams, TypeOK, FileType
    <3>3. QED
      BY <1>0, <2>5, <3>1, <3>2 DEF TakeChunk, TypeOK, PhaseType
  <2>6. ASSUME NEW f \in Files, DropStream(f) PROVE Streams'
    BY <1>0, <2>6 DEF DropStream, Streams, TypeOK, FileType
  <2>7. QED
    BY <1>3, <2>1, <2>2, <2>3, <2>4, <2>5, <2>6 DEF FileStep
<1>4. CASE SignalStep
  <2>1. UNCHANGED receiveVars
    BY <1>4, Frames DEF fileVars
  <2>2. pc'["receiver"] = pc["receiver"] \/ pc["receiver"] \in EarlyPhase
    BY <1>0, <1>4, SignalPhases
  <2>3. QED
    BY <1>1, <2>1, <2>2 DEF EarlyPhase
<1>5. CASE LinkStep \/ UNCHANGED vars
  BY <1>1, <1>5, Frames DEF vars, fileVars
<1>6. QED
  BY <1>2, <1>3, <1>4, <1>5, StepKinds

LEMMA FramingConversation ==
  ASSUME TypeOK, Handing, Streams, Framing, NEW s \in Sides, Conversation(s)
  PROVE  Framing'
<1>0. "sender" \in Sides /\ "receiver" \in Sides /\ None \notin Files
      /\ inbox["receiver"] \in Seq(Msg) /\ wire["sender"] \in Seq(Msg)
  BY RtcAssumption DEF Sides, None, TypeOK, LinkType
<1>1. UNCHANGED <<link, selection, sent, handed, given, source, current, held, stream, got>>
  BY Frames DEF fileVars, sendVars, receiveVars
<1>f. \A f \in Files : Fresh(f)' <=> Fresh(f)
  BY <1>1 DEF Fresh
<1>2. CASE s = "sender"
  <2>0. inbox'["receiver"] = inbox["receiver"]
    BY <1>0, <1>2, ConversationForm DEF Takes, TypeOK, LinkType
  <2>1. ASSUME NEW next, SendThen("sender", <<>>, next) PROVE Framing'
    <3>1. wire'["sender"] = wire["sender"]
      <4>1. wire["sender"] \o <<>> = wire["sender"]
        BY <1>0, ConcatEmptySeq
      <4>2. QED
        BY <1>0, <2>1, <4>1 DEF SendThen, TypeOK, LinkType
    <3>2. Flow' = Flow
      BY <2>0, <3>1 DEF Flow
    <3>3. pc'["receiver"] = pc["receiver"]
      BY <1>0, <2>1 DEF SendThen, TypeOK, PhaseType
    <3>4. \A f \in Files : (Writing(f)' <=> Writing(f)) /\ (Awaited(f)' <=> Awaited(f))
      BY <1>1, <3>3 DEF Writing, Awaited
    <3>5. QED
      BY <1>1, <1>f, <3>2, <3>4, FlowKept
  <2>2. ASSUME NEW next, NEW m \in Msg, m.kind # "header", SendThen("sender", <<m>>, next),
               \A g \in Files, h \in 0 .. Len(Flow), n \in Nat :
                 link = "open" /\ Piece(Flow, h, g, n, given[g], source, TRUE) /\ (Coming(g) \/ Writing(g))
                   => Piece(Append(Flow, m), h, g, n, given[g], source, TRUE)
        PROVE  Framing'
    <3>0. pc'["receiver"] = pc["receiver"]
      BY <1>0, <2>2 DEF SendThen, TypeOK, PhaseType
    <3>1. \A f \in Files : (Writing(f)' <=> Writing(f)) /\ (Awaited(f)' <=> Awaited(f))
      BY <1>1, <3>0 DEF Writing, Awaited
    <3>2. wire["sender"] \o <<m>> = Append(wire["sender"], m)
      BY <1>0, AppendIsConcat
    <3>3. wire'["sender"] = IF link = "open" THEN Append(wire["sender"], m) ELSE wire["sender"]
      BY <1>0, <2>2, <3>2 DEF SendThen, TypeOK, LinkType
    <3>4. CASE link = "open"
      <4>1. Flow' = Append(Flow, m)
        <5>1. inbox["receiver"] \o Append(wire["sender"], m) = Append(inbox["receiver"] \o wire["sender"], m)
          BY <1>0, Queues
        <5>2. QED
          BY <2>0, <3>3, <3>4, <5>1 DEF Flow
      <4>2. \A f : m # About("header", f)
        BY <2>2 DEF About
      <4>3. (link = "open") = TRUE
        BY <3>4
      <4>4. \A g \in Files, h \in 0 .. Len(Flow), n \in Nat :
              Piece(Flow, h, g, n, given[g], source, link = "open") /\ (Coming(g) \/ Writing(g))
                => Piece(Flow', h, g, n, given'[g], source', link' = "open")
        BY <1>1, <2>2, <4>1, <4>3
      <4>5. \A f \in Files :
              /\ Fresh(f)' => Fresh(f)
              /\ given'[f] = given[f] \/ ~Fresh(f)
              /\ m # About("header", f)
        BY <1>1, <1>f, <4>2
      <4>6. QED
        BY <1>1, <3>0, <4>1, <4>4, <4>5, FlowAppended
    <3>5. CASE link # "open"
      <4>1. Flow' = Flow
        BY <2>0, <3>3, <3>5 DEF Flow
      <4>2. QED
        BY <1>1, <1>f, <3>1, <4>1, FlowKept
    <3>6. QED
      BY <3>4, <3>5
  <2>3. CASE pc["sender"] \notin Late
    <3>1. \A f \in Files : ~Coming(f) /\ ~Writing(f)
      BY <2>3 DEF Handing, Fresh, Framing, Untouched
    <3>2. ASSUME NEW next, NEW m \in Msg, m.kind # "header", SendThen("sender", <<m>>, next) PROVE Framing'
      BY <2>2, <3>1, <3>2
    <3>3. QED
      BY <1>2, <2>1, <2>3, <3>2, SenderSays DEF Late
  <2>4. CASE pc["sender"] = "closing" /\ SendThen("sender", <<Message("delimiter")>>, "response")
    <3>1. source = None
      BY <2>4 DEF Handing
    <3>2. Message("delimiter") \in Msg
      BY MessageTypes DEF PlainKind
    <3>3. Message("delimiter").kind # "header" /\ Message("delimiter").kind \in Cuts
      BY DEF Message, Cuts
    <3>4. \A g \in Files : given[g] \in Nat /\ source # g
      BY <1>0, <3>1 DEF TypeOK, FileType
    <3>5. Flow \in Seq(Msg)
      BY FlowType
    <3>6. ASSUME NEW g \in Files, NEW h \in 0 .. Len(Flow), NEW n \in Nat,
                 Piece(Flow, h, g, n, given[g], source, TRUE)
          PROVE  Piece(Append(Flow, Message("delimiter")), h, g, n, given[g], source, TRUE)
      BY <3>1, <3>2, <3>3, <3>4, <3>5, <3>6, PieceCut
    <3>7. QED
      BY <2>2, <2>4, <3>2, <3>3, <3>6
  <2>5. QED
    BY <1>2, <2>1, <2>3, <2>4, SenderSays
<1>3. CASE s = "receiver"
  <2>1. PICK next \in Phase("receiver") \ {"result", "header"} :
          Shake("receiver", <<>>, next) \/ \E m \in Msg : Shake("receiver", <<m>>, next)
    BY <1>3, ConversationForm DEF Talks
  <2>2. wire'["sender"] = wire["sender"] /\ pc'["receiver"] \in {next, "failed"}
    BY <1>0, <2>1 DEF Shake, SendThen, TypeOK, LinkType, PhaseType
  <2>3. pc["receiver"] \notin {"receive", "result", "header", "failed"}
    BY <1>3, ReceiverSays
  <2>4. \A f \in Files : ~Writing(f) /\ ~Writing(f)' /\ ~Awaited(f)'
    <3>1. current = None
      BY <2>3 DEF Streams
    <3>2. QED
      BY <1>0, <1>1, <2>1, <2>2, <2>3, <3>1 DEF Writing, Awaited
  <2>5. inbox'["receiver"] = inbox["receiver"]
        \/ (inbox["receiver"] # <<>> /\ inbox'["receiver"] = Tail(inbox["receiver"]))
    BY <1>0, <1>3, ConversationForm DEF Takes, TypeOK, LinkType
  <2>6. CASE inbox'["receiver"] = inbox["receiver"]
    <3>1. Flow' = Flow
      BY <2>2, <2>6 DEF Flow
    <3>2. QED
      BY <1>1, <1>f, <2>4, <3>1, FlowKept
  <2>7. CASE inbox["receiver"] # <<>> /\ inbox'["receiver"] = Tail(inbox["receiver"])
    <3>1. /\ inbox["receiver"] \o wire["sender"] # <<>>
          /\ Tail(inbox["receiver"] \o wire["sender"]) = Tail(inbox["receiver"]) \o wire["sender"]
      BY <1>0, <2>7, Queues
    <3>2. Flow # <<>> /\ Flow' = Tail(Flow)
      BY <2>2, <2>7, <3>1 DEF Flow
    <3>3. got' \in [Files -> Seq(Files)]
      BY <1>1 DEF TypeOK, FileType
    <3>4. QED
      BY <1>1, <2>4, <3>2, <3>3, FlowTaken
  <2>8. QED
    BY <2>5, <2>6, <2>7
<1>4. QED
  BY <1>2, <1>3 DEF Sides

LEMMA FramingSend ==
  ASSUME TypeOK, Linked, Handing, Framing,
         (\E f \in Files : HandOver(f)) \/ StartFile \/ SendChunk \/ EndFile \/ EndSending
  PROVE  Framing'
<1>0. /\ "sender" \in Sides /\ "receiver" \in Sides /\ None \notin Files
      /\ (link = "open") \in BOOLEAN /\ \A f \in Files : given[f] \in Nat
      /\ Flow \in Seq(Msg) /\ Len(Flow) \in Nat
  BY RtcAssumption, FlowType DEF Sides, None, TypeOK, FileType
<1>1. UNCHANGED <<inbox, link, selection, stream, got, current, held>> /\ pc'["receiver"] = pc["receiver"]
  BY <1>0 DEF HandOver, StartFile, SendChunk, EndFile, EndSending, fileVars, receiveVars, handshakeVars,
              TypeOK, PhaseType
<1>2. \A f \in Files : (Writing(f)' <=> Writing(f)) /\ (Awaited(f)' <=> Awaited(f))
  BY <1>1 DEF Writing, Awaited
<1>3. ASSUME UNCHANGED <<wire, given>>, \A f \in Files : Fresh(f)' => Fresh(f),
             source' \in {source, None} \/ (link # "open" /\ source' \in Files /\ Fresh(source'))
      PROVE  Framing'
  <2>1. Flow' = Flow
    BY <1>1, <1>3 DEF Flow
  <2>2. ASSUME NEW g \in Files, NEW h \in Nat, NEW n \in Nat,
               Piece(Flow, h, g, n, given[g], source, link = "open"), Coming(g) \/ Writing(g)
        PROVE  Piece(Flow, h, g, n, given[g], source', link = "open")
    <3>1. source' \in {source, None} \/ (source' # g /\ ~(link = "open"))
      BY <1>3, <2>2 DEF Framing, Untouched
    <3>2. QED
      BY <1>0, <2>2, <3>1, PieceWeaker
  <2>3. QED
    BY <1>1, <1>2, <1>3, <2>1, <2>2, FlowKept
<1>4. ASSUME NEW f \in Files, HandOver(f) PROVE Framing'
  <2>1. UNCHANGED <<wire, given, source>> /\ handed' = f /\ sent' = sent \cup {f} /\ f \notin sent
    BY <1>4 DEF HandOver
  <2>2. \A x \in Files : Fresh(x)' => Fresh(x)
    BY <2>1 DEF Fresh
  <2>3. QED
    BY <1>3, <2>1, <2>2
<1>5. CASE StartFile
  <2>1. UNCHANGED <<sent, given>> /\ handed' = None /\ handed \in Files /\ source = None
    BY <1>5 DEF StartFile, TypeOK, FileType
  <2>2. \A x \in Files : (Fresh(x)' => Fresh(x)) /\ (x = handed => Fresh(x) /\ ~Fresh(x)')
    BY <1>0, <2>1 DEF Fresh, Handing
  <2>3. CASE UNCHANGED <<source, wire>>
    BY <1>3, <2>1, <2>2, <2>3
  <2>4. CASE handed \in selection /\ source' = handed /\ Put(About("header", handed))
    <3> DEFINE m == About("header", handed)
    <3>1. m \in Msg /\ m.kind \in Cuts /\ \A f : m = About("header", f) => f = handed
      <4>1. m \in Msg
        BY <2>1, MessageTypes
      <4>2. m.kind \in Cuts /\ \A f : m = About("header", f) => f = handed
        BY DEF About, Cuts
      <4>3. QED
        BY <4>1, <4>2
    <3>2. Flow' = IF link = "open" THEN Append(Flow, m) ELSE Flow
      BY <1>1, <2>4, <3>1, FlowPuts
    <3> HIDE DEF m
    <3>3. CASE link = "open"
      <4>0. (link = "open") = TRUE /\ Flow' = Append(Flow, m) /\ given[handed] = 0
        BY <2>1, <2>2, <3>2, <3>3 DEF Framing, Untouched
      <4>1. ASSUME NEW g \in Files, NEW h \in 0 .. Len(Flow), NEW n \in Nat,
                   Piece(Flow, h, g, n, given[g], source, link = "open"), Coming(g) \/ Writing(g)
            PROVE  Piece(Flow', h, g, n, given'[g], source', link' = "open")
        <5>1. g # handed
          BY <2>1, <2>2, <4>1 DEF Framing, Untouched
        <5>2. Piece(Flow, h, g, n, given[g], None, TRUE)
          BY <2>1, <4>0, <4>1
        <5>3. Piece(Append(Flow, m), h, g, n, given[g], handed, TRUE)
          BY <1>0, <3>1, <5>1, <5>2, PieceCut
        <5>4. QED
          BY <1>1, <2>1, <2>4, <4>0, <5>3
      <4>2. Piece(Flow', Len(Flow) + 1, handed, 0, given'[handed], source', link = "open")
        <5>1. Len(Flow') = Len(Flow) + 1
          BY <1>0, <3>1, <4>0, AppendProperties
        <5>2. given'[handed] = 0 /\ source' = handed
          BY <2>1, <2>4, <4>0
        <5>3. QED
          BY <1>0, <5>1, <5>2 DEF Piece
      <4>3. \A f \in Files :
              /\ Fresh(f)' => Fresh(f)
              /\ given'[f] = given[f] \/ ~Fresh(f)
              /\ m = About("header", f) =>
                   /\ Fresh(f) /\ ~Fresh(f)' /\ f \in selection
                   /\ Piece(Flow', Len(Flow) + 1, f, 0, given'[f], source', link = "open")
        BY <2>1, <2>2, <2>4, <3>1, <4>2
      <4>4. QED
        BY <1>1, <3>1, <4>0, <4>1, <4>3, FlowAppended
    <3>4. CASE link # "open"
      <4>1. UNCHANGED wire
        BY <2>4, <3>4 DEF Put
      <4>2. QED
        BY <1>3, <2>1, <2>2, <2>4, <3>4, <4>1
    <3>5. QED
      BY <3>3, <3>4
  <2>5. QED
    BY <1>5, <2>3, <2>4 DEF StartFile
<1>6. CASE SendChunk
  <2>1. /\ source \in Files /\ given' = [given EXCEPT ![source] = @ + 1] /\ UNCHANGED <<handed, sent>>
        /\ source' = (IF CanSend THEN source ELSE None) /\ Put(About("chunk", source)) /\ ~Fresh(source)
    BY <1>0, <1>6 DEF SendChunk, TypeOK, FileType, Handing, Fresh
  <2>2. \A f \in Files : /\ Fresh(f)' <=> Fresh(f)
                         /\ given'[f] = IF f = source THEN given[f] + 1 ELSE given[f]
    BY <2>1 DEF Fresh, TypeOK, FileType
  <2>3. About("chunk", source) \in Msg
    BY <2>1, MessageTypes
  <2>4. Flow' = IF link = "open" THEN Append(Flow, About("chunk", source)) ELSE Flow
    BY <1>1, <2>1, <2>3, FlowPuts
  <2>5. CASE link = "open"
    <3>1. source' = source /\ (link = "open") = TRUE
      BY <1>0, <2>1, <2>5 DEF Linked, CanSend
    <3>2. ASSUME NEW g \in Files, NEW h \in 0 .. Len(Flow), NEW n \in Nat,
                 Piece(Flow, h, g, n, given[g], source, link = "open")
          PROVE  Piece(Flow', h, g, n, given'[g], source', link' = "open")
      <4>1. Piece(Flow, h, g, n, given[g], source, TRUE)
        BY <3>1, <3>2
      <4>2. Piece(Append(Flow, About("chunk", source)), h, g, n,
                  IF g = source THEN given[g] + 1 ELSE given[g], source, TRUE)
        BY <1>0, <2>1, <4>1, PieceChunk
      <4>3. given'[g] = IF g = source THEN given[g] + 1 ELSE given[g]
        BY <2>2
      <4>4. QED
        BY <1>1, <2>4, <2>5, <3>1, <4>2, <4>3
    <3>3. \A f : About("chunk", source) # About("header", f)
      BY DEF About
    <3>4. QED
      BY <1>1, <2>1, <2>2, <2>3, <2>4, <2>5, <3>2, <3>3, FlowAppended
  <2>6. CASE link # "open"
    <3>1. ASSUME NEW g \in Files, NEW h \in Nat, NEW n \in Nat,
                 Piece(Flow, h, g, n, given[g], source, link = "open")
          PROVE  Piece(Flow, h, g, n, given'[g], source', link' = "open")
      <4>1. given'[g] = given[g] \/ (given[g] <= given'[g] /\ source = g /\ ~(link = "open"))
        BY <1>0, <2>2, <2>6
      <4>2. given'[g] \in Nat /\ source' \in {source, None}
        BY <1>0, <2>1, <2>2
      <4>3. Piece(Flow, h, g, n, given'[g], source', link = "open")
        BY <1>0, <3>1, <4>1, <4>2, PieceWeaker
      <4>4. QED
        BY <1>1, <4>3
    <3>2. QED
      BY <1>1, <1>2, <2>1, <2>2, <2>4, <2>6, <3>1, FlowKept
  <2>7. QED
    BY <2>5, <2>6
<1>7. CASE EndFile \/ EndSending
  <2>1. UNCHANGED <<wire, given, handed, sent>> /\ source' \in {source, None}
    BY <1>7 DEF EndFile, EndSending, fileVars, sendVars
  <2>2. QED
    BY <1>3, <2>1 DEF Fresh
<1>8. QED
  BY <1>4, <1>5, <1>6, <1>7

LEMMA FramingReceive ==
  ASSUME TypeOK, Trust, Streams, Framing,
         Select \/ TakeString \/ AnswerFile \/ StartReceiving \/ TakeChunk
           \/ \E f \in Files : ReportResult(f) \/ DropStream(f)
  PROVE  Framing'
<1>0. /\ "sender" \in Sides /\ "receiver" \in Sides /\ None \notin Files
      /\ (link = "open") \in BOOLEAN /\ \A f \in Files : given[f] \in Nat
      /\ Flow \in Seq(Msg) /\ Len(Flow) \in Nat
  BY RtcAssumption, FlowType DEF Sides, None, TypeOK, FileType
<1>1. UNCHANGED <<sent, handed, given, source, link>>
  BY DEF Select, TakeString, AnswerFile, StartReceiving, TakeChunk, ReportResult, DropStream,
         sendVars, handshakeVars
<1>f. \A f \in Files : Fresh(f)' <=> Fresh(f)
  BY <1>1 DEF Fresh
<1>2. CASE Select
  <2>1. selection = {}
    BY <1>2 DEF Select, Trust, After
  <2>2. UNCHANGED <<inbox, wire, stream, got, current, held>> /\ pc'["receiver"] = "selected"
    BY <1>0, <1>2 DEF Select, TypeOK, PhaseType
  <2>3. Flow' = Flow
    BY <2>2 DEF Flow
  <2>4. \A f \in Files : ~Writing(f)' /\ ~Awaited(f)'
    BY <2>2 DEF Writing, Awaited
  <2>5. QED
    BY <1>1, <1>f, <2>1, <2>2, <2>3, <2>4, FlowKept
<1>3. CASE AnswerFile
  <2>1. UNCHANGED <<inbox, stream, got, current, held, selection>> /\ wire'["sender"] = wire["sender"]
    BY <1>0, <1>3 DEF AnswerFile, SendThen, receiveVars, TypeOK, LinkType
  <2>2. pc["receiver"] = "result" /\ pc'["receiver"] \in {"last status", "header", "failed"}
    BY <1>0, <1>3 DEF AnswerFile, SendThen, TypeOK, PhaseType
  <2>3. Flow' = Flow
    BY <2>1 DEF Flow
  <2>4. \A f \in Files : (Writing(f)' => Writing(f)) /\ (Awaited(f)' => Awaited(f))
    BY <2>1, <2>2 DEF Writing, Awaited
  <2>5. QED
    BY <1>1, <1>f, <2>1, <2>3, <2>4, FlowKept
<1>4. CASE StartReceiving
  <2>1. /\ UNCHANGED <<inbox, wire, got, selection>> /\ current' = held.of /\ held.of \in Files
        /\ pc["receiver"] = "header" /\ held.kind = "header" /\ pc'["receiver"] = "receive"
        /\ \A f \in Files : f # held.of => stream'[f] = stream[f]
    BY <1>0, <1>4 DEF StartReceiving, TypeOK, PhaseType, FileType
  <2>2. Flow' = Flow
    BY <2>1 DEF Flow
  <2>3. \A f \in Files : (Writing(f)' => Writing(f)) /\ ~Awaited(f)' /\ (f = held.of => Writing(f))
    BY <2>1 DEF Writing, Awaited
  <2>4. QED
    BY <1>1, <1>f, <2>1, <2>2, <2>3, FlowKept
<1>5. ASSUME NEW f \in Files, ReportResult(f) \/ DropStream(f) PROVE Framing'
  <2>1. /\ UNCHANGED <<inbox, wire, pc, got, selection, current, held>>
        /\ \A g \in Files : stream'[g] = stream[g] \/ stream[g] # None
    BY <1>5 DEF ReportResult, DropStream, receiveVars, TypeOK, FileType, None
  <2>2. Flow' = Flow
    BY <2>1 DEF Flow
  <2>3. \A g \in Files : (Writing(g)' <=> Writing(g)) /\ (Awaited(g)' <=> Awaited(g))
    BY <2>1 DEF Writing, Awaited
  <2>4. QED
    BY <1>1, <1>f, <2>1, <2>2, <2>3, FlowKept
<1>6. CASE TakeString
  <2>1. PICK kind \in {"header", "delimiter"} :
           /\ Receive("receiver", kind)
           /\ pc'["receiver"] \in {"result", "failed"} \cup (IF kind = "header" THEN {"header"} ELSE {})
    BY <1>0, <1>6 DEF TakeString, TypeOK, PhaseType
  <2>2. /\ UNCHANGED <<wire, selection, got>> /\ current' = None
        /\ pc["receiver"] = "receive"
        /\ held' = Handled(Head(inbox["receiver"]).kind, Head(inbox["receiver"]).of, current)
        /\ \A f \in Files : stream'[f] = stream[f] \/ f = current
    BY <1>6 DEF TakeString, TypeOK, FileType
  <2>3. /\ Flow # <<>> /\ Head(Flow) = Head(inbox["receiver"]) /\ Flow' = Tail(Flow)
        /\ Head(Flow) \in Msg /\ Head(Flow).kind = kind
    BY <2>1, <2>2, FlowTakes
  <2>4. 1 \in DOMAIN Flow /\ Flow[1] = Head(Flow)
    BY <2>3, FlowType, EmptySeq
  <2>5. \A f \in Files : Writing(f)' => Awaited(f)' /\ Head(Flow) = About("header", f)
    <3>1. held'.kind = "header" => Head(Flow) = About("header", held'.of)
      BY <2>2, <2>3, MessageParts DEF Handled
    <3>2. QED
      BY <2>1, <2>2, <3>1 DEF Writing, Awaited
  <2>6. \A f \in Files : Head(Flow) = About("header", f) => Coming(f) /\ ~Writing(f)
    BY <2>4 DEF Coming, Framing, Once
  <2>7. \A f \in Files : (stream'[f] = stream[f] /\ got'[f] = got[f]) \/ (Writing(f) /\ ~Awaited(f)')
    BY <2>2, <2>5, <2>6 DEF Writing
  <2>8. ASSUME NEW f \in Files, Writing(f)'
        PROVE  Piece(Flow', 0, f, Len(got'[f]), given[f], source, link = "open")
    <3>1. Head(Flow) = About("header", f) /\ Coming(f)
      BY <2>5, <2>6, <2>8
    <3>2. got'[f] = <<>>
      BY <2>2, <3>1 DEF Framing, Once
    <3>3. Piece(Flow, 0 + 1, f, 0, given[f], source, link = "open")
      BY <2>4, <3>1 DEF Framing, Pieces
    <3>4. Piece(Tail(Flow), 0, f, 0, given[f], source, link = "open")
      BY <1>0, <2>3, <3>3, PieceTail
    <3>5. QED
      BY <2>3, <3>2, <3>4
  <2>9. got' \in [Files -> Seq(Files)]
    BY <2>2 DEF TypeOK, FileType
  <2>10. \A f \in Files : Awaited(f)' => Writing(f)'
    BY DEF Writing
  <2>11. QED
    BY <1>1, <2>2, <2>3, <2>5, <2>7, <2>8, <2>9, <2>10, FlowTaken
<1>7. CASE TakeChunk
  <2>1. Receive("receiver", "chunk") /\ UNCHANGED <<wire, selection, held>> /\ pc["receiver"] = "receive"
    BY <1>7 DEF TakeChunk
  <2>2. /\ Flow # <<>> /\ Head(Flow) = Head(inbox["receiver"]) /\ Flow' = Tail(Flow)
        /\ Head(Flow) \in Msg /\ Head(Flow).kind = "chunk"
    BY <2>1, FlowTakes
  <2>3. /\ pc'["receiver"] \in {"receive", "failed"}
        /\ current' \in {current, None}
        /\ \A f \in Files : f # current => stream'[f] = stream[f] /\ got'[f] = got[f]
        /\ \/ pc'["receiver"] = "failed"
           \/ current' = None
           \/ current \in Files /\ got' = [got EXCEPT ![current] = Append(@, Head(inbox["receiver"]).of)]
    BY <1>0, <1>7, <2>1 DEF TakeChunk, TypeOK, PhaseType, FileType
  <2>4. \A f \in Files : ~Awaited(f)' /\ (Writing(f)' => Writing(f)) /\ (f = current => Writing(f))
    BY <1>0, <2>1, <2>3 DEF Writing, Awaited
  <2>5. Head(Flow).of \in Files
    BY <2>2, MessageParts
  <2>6. got' \in [Files -> Seq(Files)]
    <3>1. got \in [Files -> Seq(Files)] /\ \A f \in Files : Append(got[f], Head(Flow).of) \in Seq(Files)
      BY <2>5, AppendProperties DEF TypeOK, FileType
    <3>2. \/ got' = got \/ (current \in Files /\ got' = [got EXCEPT ![current] = Append(@, Head(Flow).of)])
      BY <1>7, <2>2 DEF TakeChunk, TypeOK, FileType
    <3>3. QED
      BY <3>1, <3>2
  <2>7. ASSUME NEW f \in Files, Writing(f)'
        PROVE  Piece(Flow', 0, f, Len(got'[f]), given[f], source, link = "open")
    <3>1. f = current /\ current' # None /\ pc'["receiver"] # "failed"
      BY <1>0, <2>3, <2>4, <2>7 DEF Writing
    <3>2. got'[f] = Append(got[f], Head(Flow).of)
      BY <2>2, <2>3, <3>1 DEF TypeOK, FileType
    <3>3. Len(got'[f]) = Len(got[f]) + 1 /\ Len(got[f]) \in Nat
      BY <2>5, <3>2, AppendProperties, LenProperties DEF TypeOK, FileType
    <3>4. Piece(Flow, 0, f, Len(got[f]), given[f], source, link = "open")
      BY <2>4, <2>7 DEF Framing, Pieces
    <3>5. Piece(Tail(Flow), 0, f, Len(got[f]) + 1, given[f], source, link = "open")
      BY <1>0, <2>2, <3>3, <3>4, PieceTail
    <3>6. QED
      BY <2>2, <3>3, <3>5
  <2>8. QED
    BY <1>1, <2>1, <2>2, <2>3, <2>4, <2>6, <2>7, FlowTaken
<1>8. QED
  BY <1>2, <1>3, <1>4, <1>5, <1>6, <1>7

LEMMA FramingStep ==
  ASSUME TypeOK, Offers, Linked, Handing, Trust, Streams, Framing, [Next]_vars
  PROVE  Framing'
<1>0. "sender" \in Sides /\ "receiver" \in Sides /\ \A f \in Files : given[f] \in Nat
  BY DEF Sides, TypeOK, FileType
<1>1. ASSUME Flow' = Flow, UNCHANGED fileVars,
             \A f \in Files : (Writing(f)' => Writing(f)) /\ (Awaited(f)' => Awaited(f)),
             link' = "open" => link = "open" \/ sent = {}
      PROVE  Framing'
  <2>1. UNCHANGED <<sent, handed, given, source, selection, stream, got, current, held>>
    BY <1>1 DEF fileVars, sendVars, receiveVars
  <2>2. \A f \in Files : Fresh(f)' => Fresh(f)
    BY <2>1 DEF Fresh
  <2>3. ASSUME NEW g \in Files, NEW h \in Nat, NEW n \in Nat,
               Piece(Flow, h, g, n, given[g], source, link = "open"), Coming(g) \/ Writing(g)
        PROVE  Piece(Flow, h, g, n, given'[g], source', link' = "open")
    <3>1. g \in sent
      BY <2>3 DEF Framing, Untouched, Fresh
    <3>2. link' = "open" => link = "open"
      BY <1>1, <3>1
    <3>3. (link = "open") \in BOOLEAN /\ (link' = "open") \in BOOLEAN /\ Flow \in Seq(Msg)
      BY FlowType
    <3>4. Piece(Flow, h, g, n, given[g], source, link' = "open")
      BY <1>0, <2>3, <3>2, <3>3, PieceWeaker
    <3>5. QED
      BY <2>1, <3>4
  <2>4. QED
    BY <1>1, <2>1, <2>2, <2>3, FlowKept
<1>2. CASE FileStep
  BY <1>2, FramingSend, FramingReceive DEF FileStep
<1>3. CASE LinkStep
  <2>1. UNCHANGED <<pc, fileVars>> /\ UNCHANGED <<current, held>>
    BY <1>3, Frames DEF fileVars, receiveVars
  <2>2. \A f \in Files : (Writing(f)' => Writing(f)) /\ (Awaited(f)' => Awaited(f))
    BY <2>1 DEF Writing, Awaited
  <2>3. CASE Flow' = Flow /\ (link' = "open" => link = "open")
    BY <1>1, <2>1, <2>2, <2>3
  <2>4. CASE \E r \in Seq(Msg) : Flow = inbox["receiver"] \o r /\ Flow' = inbox["receiver"] /\ link' # "open"
    <3>1. inbox["receiver"] \in Seq(Msg)
      BY <1>0 DEF TypeOK, LinkType
    <3>2. QED
      BY <2>1, <2>4, <3>1, FlowLost
  <2>5. QED
    BY <1>3, <2>3, <2>4, FlowLinks
<1>4. CASE SignalStep
  <2>1. UNCHANGED <<wire, inbox, fileVars>> /\ UNCHANGED <<current, held>>
    BY <1>4, Frames DEF fileVars, receiveVars
  <2>2. /\ \/ pc'["receiver"] = pc["receiver"]
           \/ pc'["receiver"] \in EarlyPhase \cup {"channel", "failed"}
        /\ link' = link \/ pc["sender"] = "answer"
    BY <1>0, <1>4, SignalPhases
  <2>3. Flow' = Flow
    BY <2>1 DEF Flow
  <2>4. \A f \in Files : (Writing(f)' => Writing(f)) /\ (Awaited(f)' => Awaited(f))
    BY <2>1, <2>2 DEF Writing, Awaited, EarlyPhase
  <2>5. pc["sender"] = "answer" => sent = {}
    BY DEF Handing, Late
  <2>6. QED
    BY <1>1, <2>1, <2>2, <2>3, <2>4, <2>5
<1>5. CASE UNCHANGED vars
  <2>1. UNCHANGED <<wire, inbox, link, pc, fileVars>> /\ UNCHANGED <<current, held>>
    BY <1>5 DEF vars, handshakeVars, fileVars, receiveVars
  <2>2. Flow' = Flow
    BY <2>1 DEF Flow
  <2>3. \A f \in Files : (Writing(f)' => Writing(f)) /\ (Awaited(f)' => Awaited(f))
    BY <2>1 DEF Writing, Awaited
  <2>4. QED
    BY <1>1, <2>1, <2>2, <2>3
<1>6. QED
  BY <1>2, <1>3, <1>4, <1>5, StepKinds, FramingConversation

\* What the receiving app gets is what the sending app gave, file by file.
Kept ==
  \A f \in Files :
    /\ \A i \in DOMAIN got[f] : got[f][i] = f
    /\ Len(got[f]) <= given[f]
    /\ stream[f] = "ended" => Len(got[f]) = given[f] /\ source # f

LEMMA KeptStep ==
  ASSUME TypeOK, Framing, Kept, [Next]_vars
  PROVE  Kept'
<1>0. /\ "receiver" \in Sides /\ None \notin Files
      /\ \A f \in Files : given[f] \in Nat /\ got[f] \in Seq(Files) /\ Len(got[f]) \in Nat
      /\ (link = "open") \in BOOLEAN /\ Flow \in Seq(Msg)
  <2>1. \A f \in Files : given[f] \in Nat /\ got[f] \in Seq(Files)
    BY DEF TypeOK, FileType
  <2>2. QED
    BY <2>1, RtcAssumption, FlowType, LenProperties DEF Sides, None
<1>1. ASSUME UNCHANGED <<given, got>>, \A f \in Files : stream'[f] = "ended" => stream[f] = "ended" /\ source' # f
      PROVE  Kept'
  BY <1>1 DEF Kept
<1>2. CASE FileStep
  <2>1. CASE \/ Select \/ EndFile \/ EndSending \/ AnswerFile \/ StartReceiving
             \/ \E f \in Files : HandOver(f) \/ ReportResult(f) \/ DropStream(f)
    <3>1. UNCHANGED <<given, got>> /\ source' \in {source, None}
      BY <2>1 DEF Select, EndFile, EndSending, AnswerFile, StartReceiving, HandOver, ReportResult, DropStream,
                  fileVars, sendVars, receiveVars
    <3>2. \A f \in Files : stream'[f] = "ended" => stream[f] = "ended"
      BY <2>1 DEF Select, EndFile, EndSending, AnswerFile, StartReceiving, HandOver, ReportResult, DropStream,
                  fileVars, receiveVars, TypeOK, FileType
    <3>3. \A f \in Files : stream[f] = "ended" => source' # f
      BY <1>0, <3>1 DEF Kept
    <3>4. QED
      BY <1>1, <3>1, <3>2, <3>3
  <2>2. CASE StartFile
    <3>1. UNCHANGED <<given, got, stream>> /\ source' \in {source, handed} /\ handed # None
      BY <2>2 DEF StartFile, receiveVars
    <3>2. \A f \in Files : f = handed => stream[f] # "ended"
      BY DEF Framing, Untouched, Fresh, None
    <3>3. \A f \in Files : stream[f] = "ended" => source # f
      BY DEF Kept
    <3>4. QED
      BY <1>1, <3>1, <3>2, <3>3
  <2>3. CASE SendChunk
    <3>1. /\ UNCHANGED <<got, stream>> /\ source' \in {source, None} /\ source \in Files
          /\ \A f \in Files : given'[f] = IF f = source THEN given[f] + 1 ELSE given[f]
      BY <2>3 DEF SendChunk, receiveVars, TypeOK, FileType
    <3>2. QED
      BY <1>0, <3>1 DEF Kept
  <2>4. CASE TakeString
    <3>1. /\ UNCHANGED <<given, got, source, wire>> /\ pc["receiver"] = "receive"
          /\ \A f \in Files : stream'[f] = "ended" => stream[f] = "ended" \/ f = current
          /\ \E kind \in Cuts : Receive("receiver", kind)
      BY <2>4 DEF TakeString, TypeOK, FileType, sendVars, Cuts
    <3>2. Flow # <<>> /\ Head(Flow).kind \in Cuts
      BY <3>1, FlowTakes
    <3>3. ASSUME NEW f \in Files, f = current PROVE Len(got[f]) = given[f] /\ source # f
      <4>1. Piece(Flow, 0, f, Len(got[f]), given[f], source, link = "open")
        BY <3>1, <3>3 DEF Framing, Pieces, Writing
      <4>2. Len(got[f]) \in Nat /\ given[f] \in Nat /\ (link = "open") \in BOOLEAN /\ Flow \in Seq(Msg)
        BY <1>0
      <4>3. Flow # <<>> /\ Head(Flow).kind \in Cuts
        BY <3>2
      <4>4. QED
        BY <4>1, <4>2, <4>3, PieceEnds
    <3>4. QED
      BY <3>1, <3>3 DEF Kept
  <2>5. CASE TakeChunk
    <3>1. /\ UNCHANGED <<given, source, wire>> /\ Receive("receiver", "chunk") /\ pc["receiver"] = "receive"
          /\ \A f \in Files : stream'[f] = "ended" => stream[f] = "ended"
          /\ \/ UNCHANGED got
             \/ /\ current \in Files /\ stream' = stream /\ stream[current] # "dropped"
                /\ got' = [got EXCEPT ![current] = Append(@, Head(inbox["receiver"]).of)]
      BY <1>0, <2>5 DEF TakeChunk, TypeOK, FileType, sendVars
    <3>2. CASE UNCHANGED got
      BY <3>1, <3>2 DEF Kept
    <3>3. CASE UNCHANGED stream /\ current \in Files /\ got' = [got EXCEPT ![current] = Append(@, Head(inbox["receiver"]).of)]
      <4>1. Flow # <<>> /\ Head(Flow) = Head(inbox["receiver"]) /\ Head(Flow).kind = "chunk"
        BY <3>1, FlowTakes
      <4>2. Piece(Flow, 0, current, Len(got[current]), given[current], source, link = "open")
        BY <3>1, <3>3 DEF Framing, Pieces, Writing
      <4>3. Head(Flow) = About("chunk", current) /\ Len(got[current]) + 1 <= given[current]
        <5>1. Len(got[current]) \in Nat /\ given[current] \in Nat /\ (link = "open") \in BOOLEAN /\ Flow \in Seq(Msg)
          BY <1>0, <3>3
        <5>2. Head(Flow).kind = "chunk"
                => Head(Flow) = About("chunk", current) /\ Len(got[current]) + 1 <= given[current]
          BY <3>3, <4>1, <4>2, <5>1, PieceHead
        <5>3. QED
          BY <4>1, <5>2
      <4>4. \A f \in Files : got'[f] = IF f = current THEN Append(got[f], f) ELSE got[f]
        BY <3>3, <4>1, <4>3 DEF About, TypeOK, FileType
      <4>5. ASSUME NEW f \in Files, f = current
            PROVE  /\ \A i \in DOMAIN got'[f] : got'[f][i] = f
                   /\ Len(got'[f]) = Len(got[f]) + 1
        <5>1. /\ Append(got[f], f) \in Seq(Files) /\ Len(Append(got[f], f)) = Len(got[f]) + 1
              /\ \A i \in 1 .. Len(got[f]) : Append(got[f], f)[i] = got[f][i]
              /\ Append(got[f], f)[Len(got[f]) + 1] = f
          BY <1>0, AppendProperties
        <5>2. DOMAIN Append(got[f], f) = 1 .. (Len(got[f]) + 1) /\ DOMAIN got[f] = 1 .. Len(got[f])
          BY <1>0, <5>1, LenProperties
        <5>3. \A i \in DOMAIN got[f] : got[f][i] = f
          BY DEF Kept
        <5>4. got'[f] = Append(got[f], f)
          BY <4>4, <4>5
        <5>5. \A i \in DOMAIN Append(got[f], f) : Append(got[f], f)[i] = f
          <6> SUFFICES ASSUME NEW i \in 1 .. (Len(got[f]) + 1) PROVE Append(got[f], f)[i] = f
            BY <5>2
          <6>1. CASE i \in 1 .. Len(got[f])
            BY <5>1, <5>2, <5>3, <6>1
          <6>2. CASE i = Len(got[f]) + 1
            BY <5>1, <6>2
          <6>3. QED
            BY <1>0, <6>1, <6>2
        <5>6. QED
          BY <5>1, <5>4, <5>5
      <4>6. ASSUME NEW f \in Files, f = current PROVE stream[f] # "ended"
        <5>1. Len(got[f]) + 1 <= given[f]
          BY <4>3, <4>6
        <5>2. QED
          BY <1>0, <5>1 DEF Kept
      <4>7. ASSUME NEW f \in Files
            PROVE  /\ \A i \in DOMAIN got'[f] : got'[f][i] = f
                   /\ Len(got'[f]) <= given[f]
                   /\ stream[f] = "ended" => Len(got'[f]) = given[f] /\ source # f
        <5>1. CASE f = current
          BY <1>0, <4>3, <4>5, <4>6, <5>1
        <5>2. CASE f # current
          BY <4>4, <5>2 DEF Kept
        <5>3. QED
          BY <5>1, <5>2
      <4>8. QED
        BY <3>1, <3>3, <4>7 DEF Kept
    <3>4. QED
      BY <3>1, <3>2, <3>3
  <2>6. QED
    BY <1>2, <2>1, <2>2, <2>3, <2>4, <2>5 DEF FileStep
<1>3. ASSUME UNCHANGED fileVars PROVE Kept'
  BY <1>3 DEF Kept, fileVars, sendVars, receiveVars
<1>4. QED
  BY <1>2, <1>3, StepKinds, Frames DEF vars

\* The file whose result the receiver waits for, or is going to.
Unsettled(f) == f = current \/ (pc["receiver"] = "result" /\ held.last = f)

\* As long as no file was cut, the one result under way is that of the unsettled file.
Answers ==
  /\ Len(results) <= 1
  /\ (\A f \in Files : stream[f] # "cut") =>
       /\ \A r \in responses : r[1] = r[2]
       /\ \A i \in DOMAIN results : results[i] \in reported /\ Unsettled(results[i])
       /\ \A f \in Files : stream[f] \in {"dropped", "ended"} /\ f \notin reported => Unsettled(f)

LEMMA AnswersStep ==
  ASSUME TypeOK, Offers, Streams, Framing, Answers, [Next]_vars
  PROVE  Answers'
<1>0. /\ "sender" \in Sides /\ "receiver" \in Sides /\ None \notin Files
      /\ \A i \in DOMAIN results : results[i] \in Files
      /\ DOMAIN results = 1 .. Len(results) /\ Len(results) \in Nat
  <2>1. results \in Seq(Files)
    BY DEF TypeOK, FileType
  <2>2. \A i \in 1 .. Len(results) : results[i] \in Files
    BY <2>1, ElementOfSeq
  <2>3. QED
    BY <2>1, <2>2, RtcAssumption, LenProperties DEF Sides, None
<1>1. ASSUME UNCHANGED resultVars,
             \A f \in Files : stream[f] = "cut" => stream'[f] = "cut",
             \A f \in Files : Unsettled(f) => Unsettled(f)',
             \A f \in Files : stream'[f] \in {"dropped", "ended"}
                                => stream[f] \in {"dropped", "ended"} \/ Unsettled(f)'
      PROVE  Answers'
  <2>1. UNCHANGED <<results, reported, responses>>
    BY <1>1 DEF resultVars
  <2>2. QED
    BY <1>0, <1>1, <2>1 DEF Answers
<1>2. ASSUME UNCHANGED resultVars, UNCHANGED <<stream, current, held>>,
             pc'["receiver"] = pc["receiver"] \/ pc["receiver"] # "result"
      PROVE  Answers'
  BY <1>1, <1>2 DEF Unsettled
<1>3. ASSUME NEW s \in Sides, Conversation(s) PROVE Answers'
  <2>1. UNCHANGED <<resultVars, stream, current, held>>
    BY <1>3, Frames DEF fileVars, receiveVars
  <2>2. s = "receiver" => pc["receiver"] # "result"
    BY <1>3, ReceiverSays
  <2>3. PICK msgs, next : SendThen(s, msgs, next)
    BY <1>3, ConversationForm DEF Talks, Shake
  <2>4. s # "receiver" => pc'["receiver"] = pc["receiver"]
    BY <1>0, <2>3 DEF SendThen, TypeOK, PhaseType
  <2>5. QED
    BY <1>2, <2>1, <2>2, <2>4
<1>4. CASE FileStep
  <2>1. CASE Select \/ StartFile \/ SendChunk \/ EndFile \/ EndSending \/ \E f \in Files : HandOver(f)
    <3>1. UNCHANGED <<resultVars, stream, current, held>>
      BY <2>1 DEF Select, StartFile, SendChunk, EndFile, EndSending, HandOver, fileVars, receiveVars
    <3>2. pc'["receiver"] = pc["receiver"] \/ pc["receiver"] # "result"
      BY <1>0, <2>1 DEF Select, StartFile, SendChunk, EndFile, EndSending, HandOver, TypeOK, PhaseType
    <3>3. QED
      BY <1>2, <3>1, <3>2
  <2>2. CASE TakeString
    <3>1. /\ UNCHANGED resultVars /\ current' = None /\ held'.last = current
          /\ pc["receiver"] = "receive" /\ (current # None => pc'["receiver"] = "result")
          /\ \A f \in Files : stream'[f] = stream[f] \/ (stream[f] = "open" /\ f = current)
      BY <1>0, <2>2 DEF TakeString, Handled, TypeOK, PhaseType, FileType
    <3>2. \A f \in Files : (Unsettled(f) => f = current) /\ (f = current => Unsettled(f)')
      BY <1>0, <3>1 DEF Unsettled
    <3>3. QED
      BY <1>1, <3>1, <3>2
  <2>3. CASE AnswerFile
    <3>1. /\ UNCHANGED <<stream, current, held, reported>> /\ pc["receiver"] = "result"
          /\ results # <<>> /\ results' = Tail(results)
          /\ responses' = responses \cup {<<held.last, Head(results)>>}
      BY <2>3 DEF AnswerFile, receiveVars
    <3>2. Len(results) = 1 /\ results[1] = Head(results) /\ Head(results) \in Files /\ results' = <<>>
      <4>1. results \in Seq(Files) /\ Len(results) <= 1
        BY DEF TypeOK, FileType, Answers
      <4>2. Len(results) \in Nat \ {0}
        BY <3>1, <4>1, EmptySeq
      <4>3. Head(results) \in Files /\ Tail(results) \in Seq(Files) /\ Len(Tail(results)) = Len(results) - 1
        BY <3>1, <4>1, HeadTailProperties
      <4>4. Tail(results) = <<>>
        BY <4>1, <4>2, <4>3, EmptySeq
      <4>5. QED
        BY <3>1, <4>1, <4>2, <4>3, <4>4
    <3>3. current = None
      BY <3>1 DEF Streams
    <3>4. ASSUME \A f \in Files : stream[f] # "cut"
          PROVE  /\ held.last = Head(results) /\ Head(results) \in reported
                 /\ \A f \in Files : stream[f] \in {"dropped", "ended"} => f \in reported
                 /\ \A r \in responses : r[1] = r[2]
      <4>1. 1 \in DOMAIN results
        BY <1>0, <3>2
      <4>2. Head(results) \in reported /\ Unsettled(Head(results))
        BY <3>2, <3>4, <4>1 DEF Answers
      <4>3. held.last = Head(results)
        BY <1>0, <3>2, <3>3, <4>2 DEF Unsettled
      <4>4. \A f \in Files : Unsettled(f) => f = Head(results)
        BY <1>0, <3>3, <4>3 DEF Unsettled
      <4>5. QED
        BY <3>4, <4>2, <4>3, <4>4 DEF Answers
    <3>5. Len(<<>>) = 0 /\ DOMAIN <<>> = {}
      OBVIOUS
    <3>6. QED
      BY <3>1, <3>2, <3>4, <3>5 DEF Answers
  <2>4. CASE StartReceiving
    <3>1. /\ UNCHANGED resultVars /\ held.of \in Files /\ held.kind = "header" /\ pc["receiver"] = "header"
          /\ \A f \in Files : stream'[f] = IF f = held.of THEN "open" ELSE stream[f]
      BY <2>4 DEF StartReceiving, TypeOK, PhaseType, FileType
    <3>2. \A f \in Files : f = held.of => stream[f] = None
      BY <3>1 DEF Framing, Once, Awaited
    <3>3. \A f \in Files : ~Unsettled(f)
      BY <1>0, <3>1 DEF Unsettled, Streams
    <3>4. QED
      BY <1>1, <3>1, <3>2, <3>3 DEF None
  <2>5. CASE TakeChunk
    <3>1. UNCHANGED <<resultVars, held>> /\ pc["receiver"] = "receive"
      BY <2>5 DEF TakeChunk
    <3>2. CASE UNCHANGED <<current, stream>>
      BY <1>2, <3>1, <3>2
    <3>3. CASE current # None /\ stream' = [stream EXCEPT ![current] = "cut"]
      <4>1. current \in Files /\ stream'[current] = "cut"
        BY <3>3 DEF TypeOK, FileType
      <4>2. \E f \in Files : stream'[f] = "cut"
        BY <4>1
      <4>3. UNCHANGED results
        BY <3>1 DEF resultVars
      <4>4. QED
        BY <4>2, <4>3 DEF Answers
    <3>4. QED
      BY <2>5, <3>2, <3>3 DEF TakeChunk
  <2>6. ASSUME NEW f \in Files, ReportResult(f) PROVE Answers'
    <3>1. /\ UNCHANGED <<pc, stream, current, held, responses>> /\ results' = <<f>>
          /\ reported' = reported \cup {f} /\ stream[f] \in {"ended", "cut", "dropped"} /\ f \notin reported
      BY <2>6 DEF ReportResult, receiveVars
    <3>2. Len(<<f>>) = 1 /\ DOMAIN <<f>> = {1} /\ <<f>>[1] = f
      OBVIOUS
    <3>3. \A g \in Files : Unsettled(g)' <=> Unsettled(g)
      BY <3>1 DEF Unsettled
    <3>4. ASSUME \A g \in Files : stream[g] # "cut" PROVE Unsettled(f)
      BY <3>1, <3>4 DEF Answers
    <3>5. ASSUME \A g \in Files : stream[g] # "cut"
          PROVE  \A i \in DOMAIN results' : results'[i] \in reported' /\ Unsettled(results[i])'
      <4>1. Unsettled(f)'
        BY <3>3, <3>4, <3>5
      <4>2. \A i \in DOMAIN results' : i = 1 /\ results'[i] = f
        BY <3>1, <3>2
      <4>3. QED
        BY <3>1, <4>1, <4>2 DEF Unsettled
    <3>6. QED
      BY <3>1, <3>2, <3>3, <3>5 DEF Answers
  <2>7. ASSUME NEW f \in Files, DropStream(f) PROVE Answers'
    <3>1. /\ UNCHANGED <<resultVars, pc, current, held>> /\ f = current
          /\ \A g \in Files : stream'[g] = IF g = f THEN "dropped" ELSE stream[g]
          /\ stream[f] = "open"
      BY <2>7 DEF DropStream, Streams, TypeOK, FileType
    <3>2. \A g \in Files : (Unsettled(g) => Unsettled(g)') /\ (g = f => Unsettled(g)')
      BY <3>1 DEF Unsettled
    <3>3. QED
      BY <1>1, <3>1, <3>2
  <2>8. QED
    BY <1>4, <2>1, <2>2, <2>3, <2>4, <2>5, <2>6, <2>7 DEF FileStep
<1>5. CASE SignalStep
  <2>1. UNCHANGED <<resultVars, stream, current, held>>
    BY <1>5, Frames DEF fileVars, receiveVars
  <2>2. pc'["receiver"] = pc["receiver"] \/ pc["receiver"] \in EarlyPhase
    BY <1>0, <1>5, SignalPhases
  <2>3. QED
    BY <1>2, <2>1, <2>2 DEF EarlyPhase
<1>6. CASE LinkStep \/ UNCHANGED vars
  <2>1. UNCHANGED <<pc, fileVars>>
    BY <1>6, Frames DEF vars
  <2>2. QED
    BY <1>2, <2>1 DEF fileVars, receiveVars
<1>7. QED
  BY <1>3, <1>4, <1>5, <1>6, StepKinds

-----------------------------------------------------------------------------
(* Theorems *)

IInv ==
  /\ TypeOK /\ Offers /\ Trust
  /\ Linked /\ Handing /\ Streams /\ Framing
  /\ Kept /\ Answers

LEMMA IInvInit == Init => IInv
<1> SUFFICES ASSUME Init PROVE IInv
  OBVIOUS
<1>0. /\ inbox["receiver"] = <<>> /\ wire["sender"] = <<>> /\ Elements(<<>>) = {}
      /\ \A s \in Sides : inbox[s] = <<>> /\ wire[s] = <<>> /\ pc[s] = "idle" /\ main[s] = "running"
      /\ \A s \in Sides : Peer(s) \in Sides
  BY OtherSide DEF Init, Elements, Sides
<1>1. Trust
  <2>1. \A s \in Sides : InFlight(s) = {}
    BY <1>0 DEF InFlight
  <2>2. \A s \in Sides : Entitled(s, pc[s])
    BY <1>0 DEF Entitled
  <2>3. selection = {} /\ "sender" \in Sides
    BY DEF Init, Sides
  <2>4. QED
    BY <2>1, <2>2, <2>3 DEF Trust
<1>2. Linked
  BY <1>0 DEF Init, Linked, EarlyPhase
<1>3. Handing
  BY DEF Init, Handing
<1>4. Streams
  BY DEF Init, Streams, None
<1>5. Framing
  <2>1. Flow = <<>> /\ DOMAIN <<>> = {}
    <3>1. <<>> \o <<>> = <<>>
      OBVIOUS
    <3>2. QED
      BY <1>0, <3>1 DEF Flow
  <2>2. \A f \in Files : ~Coming(f)
    BY <2>1 DEF Coming
  <2>3. \A f \in Files : ~Writing(f) /\ ~Awaited(f)
    BY DEF Init, Writing, Awaited, Sides
  <2>4. \A f \in Files : given[f] = 0 /\ stream[f] = None /\ got[f] = <<>>
    BY DEF Init
  <2>5. QED
    BY <2>1, <2>2, <2>3, <2>4 DEF Framing, Untouched, Once, Chosen, Pieces
<1>6. Kept
  BY DEF Init, Kept, None
<1>7. Answers
  BY DEF Init, Answers, None
<1>8. QED
  BY <1>1, <1>2, <1>3, <1>4, <1>5, <1>6, <1>7, TypeInit, OffersInit DEF IInv

LEMMA IInvStep == IInv /\ [Next]_vars => IInv'
<1> SUFFICES ASSUME IInv, [Next]_vars PROVE IInv'
  OBVIOUS
<1>0. TypeOK /\ Offers /\ Trust /\ Linked /\ Handing /\ Streams /\ Framing /\ Kept /\ Answers
  BY DEF IInv
<1>1. TypeOK' /\ Offers' /\ Trust'
  BY <1>0, TypeStep, OffersStep, TrustStep
<1>2. Linked' /\ Handing' /\ Streams'
  BY <1>0, LinkedStep, HandingStep, StreamsStep
<1>3. Framing' /\ Kept' /\ Answers'
  BY <1>0, FramingStep, KeptStep, AnswersStep
<1>4. QED
  BY <1>1, <1>2, <1>3 DEF IInv

\* Every variable has its type: the tasks are at await points of their own function,
\* and what is on its way is made of messages that send_offer and accept_offer know.
THEOREM TypeCorrect == Spec => []TypeOK
<1>1. IInv => TypeOK
  BY DEF IInv
<1>2. QED
  BY <1>1, IInvInit, IInvStep, PTL DEF Spec

\* Whatever the number of attempts, and whatever is lost or dropped: the list is shown
\* and a file is written only to who has shown the key and the PIN asked for.
THEOREM NothingBeforeItsProof == Spec => []TrustFirst
<1>1. IInv => TrustFirst
  <2> SUFFICES ASSUME IInv PROVE TrustFirst
    OBVIOUS
  <2>0. "sender" \in Sides /\ "receiver" \in Sides
    BY DEF Sides
  <2>1. pc["receiver"] = "select" \/ selection # {} => Cleared("receiver")
    BY <2>0 DEF IInv, Trust, Entitled
  <2>2. \A f \in Files : stream[f] # None => f \in selection /\ Cleared("sender")
    BY DEF IInv, Framing, Chosen, Trust
  <2>3. QED
    BY <2>1, <2>2 DEF TrustFirst, Cleared, Peer
<1>2. QED
  BY <1>1, IInvInit, IInvStep, PTL DEF Spec

\* Whatever the number of files and their sizes, and wherever the connection ends: a
\* stream carries its own file, and a response the result of the file it is about.
THEOREM FilesStayApart == Spec => []FilesAreKeptApart
<1>1. IInv => FilesAreKeptApart
  BY DEF IInv, Kept, Answers, FilesAreKeptApart
<1>2. QED
  BY <1>1, IInvInit, IInvStep, PTL DEF Spec
=============================================================================
