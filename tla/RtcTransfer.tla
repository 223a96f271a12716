---------------------------- MODULE RtcTransfer ----------------------------
(***************************************************************************)
(* A transfer over WebRTC: `send_offer` and `accept_offer` of              *)
(* core/src/webrtc/webrtc.rs, the client of the signaling server they      *)
(* speak through (webrtc/signaling.rs) and the controllers of              *)
(* localsend_isolates/rust/src/api/webrtc.rs.                              *)
(*                                                                         *)
(* Both sides are registered at the signaling server from the start; what  *)
(* other peers do is a number of messages that reach a side before its     *)
(* Hello.  The end of a signaling connection matters until the link is up. *)
(* Both functions spawn a task that follows the protocol and wait for it   *)
(* or for the end of the connection; a task that is not waited for any     *)
(* more keeps running.  A message is on the wire until the buffer of its   *)
(* channel gave it to the peer, in order; whatever is on the wire when the *)
(* connection ends is lost.  The receive stream of a task ends only with   *)
(* the task (`to_receive_stream`), so its None is left out, and so are     *)
(* messages no `send_offer` or `accept_offer` sends: pairing, a wrong file *)
(* token, text that does not parse.  A string sent in chunks and its       *)
(* delimiter are one message, as nothing is sent between them.             *)
(***************************************************************************)
EXTENDS Naturals, Sequences, FiniteSets

CONSTANTS
  Files,    \* files of the offer
  Size,     \* announced size of each file, in chunks
  MaxTries, \* `max_tries` of both PIN configurations
  MaxGiven, \* bound: chunks the sending app gives for a file
  MaxAhead  \* bound: messages of peers that reach a side before its Hello

ASSUME RtcAssumption ==
  /\ IsFiniteSet(Files)
  /\ Size \in [Files -> Nat]
  /\ MaxTries \in Nat \ {0}
  /\ MaxGiven \in Nat
  /\ MaxAhead \in Nat
  /\ "none" \notin Files

Sides == {"sender", "receiver"}
Peer(s) == IF s = "sender" THEN "receiver" ELSE "sender"
None == "none"

VARIABLES
  setup,     \* which sides ask for a PIN, which keys verify
  socket,    \* messages of the signaling server each side did not read yet
  greeted,   \* sides the server sent their Hello
  reading,   \* the message the reader of the socket passes on
  channel,   \* `receive_rx`, of capacity one
  signal,    \* `connect`, and the connection it returned
  answer,    \* what became of the SDP answer
  link,      \* the connection
  wire,      \* messages each side sent that its peer did not get yet
  inbox,     \* `receive_rx` of each side
  pc,        \* await point of the task of each side
  main,      \* the function that spawned it
  tries,     \* `pin_try` of each side
  selection, \* the files the receiving user selected
  handed,    \* `sending_rx`: the file the app hands over
  source,    \* the file the sender reads, None between files
  sent,      \* the files the sending app handed over
  given,     \* chunks it gave for each file
  current,   \* `file_state`: the file the receiver writes
  held,      \* the string message the receiver handles
  stream,    \* the stream of each file to the receiving app
  got,       \* its chunks, each by the file it was cut from
  results,   \* `user_error_tx`: results of the receiving app
  reported,  \* the files it reported
  proved,    \* history: sides that sent the right PIN
  responses  \* history: responses sent, with the file the result is of

signalVars    == <<socket, greeted, reading, channel, signal>>
handshakeVars == <<setup, signalVars, answer, link, main, tries, proved>>
sendVars      == <<handed, source, sent, given>>
receiveVars   == <<selection, current, held, stream, got>>
resultVars    == <<results, reported, responses>>
fileVars      == <<sendVars, receiveVars, resultVars>>
vars          == <<handshakeVars, wire, inbox, pc, fileVars>>

Message(kind) == [kind |-> kind, of |-> None]
About(kind, f) == [kind |-> kind, of |-> f]
Handled(kind, f, last) == [kind |-> kind, of |-> f, last |-> last]

Init ==
  /\ setup \in [pin : SUBSET Sides, known : SUBSET Sides]
  /\ socket \in [Sides -> {[i \in 1..n |-> "join"] : n \in 0..MaxAhead}]
  /\ greeted = {} /\ signal = [s \in Sides |-> "connecting"]
  /\ reading = [s \in Sides |-> None] /\ channel = [s \in Sides |-> None]
  /\ answer = None /\ link = None
  /\ wire = [s \in Sides |-> <<>>] /\ inbox = [s \in Sides |-> <<>>]
  /\ pc = [s \in Sides |-> "idle"]
  /\ main = [s \in Sides |-> "running"]
  /\ tries = [s \in Sides |-> 0]
  /\ selection = {} /\ sent = {} /\ proved = {} /\ responses = {}
  /\ handed = None /\ source = None /\ current = None /\ held = Handled(None, None, None)
  /\ given = [f \in Files |-> 0]
  /\ stream = [f \in Files |-> None]
  /\ got = [f \in Files |-> <<>>]
  /\ results = <<>> /\ reported = {}

-----------------------------------------------------------------------------
(* The client of the signaling server *)

Connected(s) == signal[s] \in {"connecting", "hello", "up"}

\* The server completes the connection of a side (SignalingServer).
Greet(s) ==
  /\ s \notin greeted /\ Connected(s)
  /\ greeted' = greeted \cup {s}
  /\ socket' = [socket EXCEPT ![s] = Append(@, "hello")]
  /\ UNCHANGED <<setup, reading, channel, signal, answer, link, main, tries, proved, wire, inbox,
                 pc, fileVars>>

\* The reading task that `connect` spawns takes a message; the Hello goes to
\* `connect` as well.
ReadSocket(s) ==
  /\ socket[s] # <<>> /\ reading[s] = None
  /\ socket' = [socket EXCEPT ![s] = Tail(@)]
  /\ reading' = [reading EXCEPT ![s] = Head(socket[s])]
  /\ signal' = IF Head(socket[s]) = "hello" THEN [signal EXCEPT ![s] = "hello"] ELSE signal
  /\ UNCHANGED <<setup, greeted, channel, answer, link, main, tries, proved, wire, inbox, pc,
                 fileVars>>

PassOn(s) ==
  /\ reading[s] # None /\ channel[s] = None
  /\ channel' = [channel EXCEPT ![s] = reading[s]]
  /\ reading' = [reading EXCEPT ![s] = None]
  /\ UNCHANGED <<setup, socket, greeted, signal, answer, link, main, tries, proved, wire, inbox,
                 pc, fileVars>>

\* `connect` returns: the bridge starts the listener and gives the app its connection.
Connect(s) ==
  /\ signal[s] = "hello"
  /\ signal' = [signal EXCEPT ![s] = "up"]
  /\ UNCHANGED <<setup, socket, greeted, reading, channel, answer, link, main, tries, proved, wire,
                 inbox, pc, fileVars>>

\* Nobody takes from the channel before the Hello, which is behind what fills it.
Overtaken(s) == signal[s] = "connecting" /\ reading[s] # None /\ channel[s] # None

\* The callback has the answer: both sides have what they need to connect, and the
\* end of the signaling connections does not matter any more.
UseAnswer ==
  /\ pc' = [pc EXCEPT !["sender"] = "channel"] /\ answer' = "taken" /\ link' = "open"
  /\ signal' = [t \in Sides |-> "done"]

\* `start_listener`, whose messages the bridge gives to the app: an offer is
\* accepted, an answer nobody registered for is not used.
Listen(s) ==
  /\ signal[s] \in {"up", "lost", "done"} /\ channel[s] # None
  /\ channel' = [channel EXCEPT ![s] = None]
  /\ CASE channel[s] = "offer" ->
            pc' = [pc EXCEPT ![s] = "asked"] /\ UNCHANGED <<signal, answer, link>>
       [] channel[s] = "answer" /\ pc[s] = "answer" ->
            UseAnswer
       [] channel[s] = "answer" /\ pc[s] # "answer" ->
            answer' = "ignored" /\ UNCHANGED <<pc, signal, link>>
       [] channel[s] \in {"join", "hello"} -> UNCHANGED <<pc, signal, answer, link>>
  /\ UNCHANGED <<setup, socket, greeted, reading, main, tries, proved, wire, inbox,
                 fileVars>>

\* The socket ends: `connect` panics if it still waits for the Hello.
LoseSignal(s) ==
  /\ link = None /\ signal[s] \in {"connecting", "up"} /\ reading[s] = None
  /\ socket' = [socket EXCEPT ![s] = <<>>]
  /\ signal' = [signal EXCEPT ![s] = IF @ = "up" THEN "lost" ELSE "failed"]
  /\ UNCHANGED <<setup, greeted, reading, channel, answer, link, main, tries, proved, wire, inbox,
                 pc, fileVars>>

\* A message to the other side.  Without a connection it is lost or refused.
Signal(s, msg, next) ==
  /\ \/ pc' = [pc EXCEPT ![s] = next]
     \/ signal[s] = "lost" /\ pc' = [pc EXCEPT ![s] = "failed"]
  /\ socket' = IF signal[s] = "up" /\ Connected(Peer(s))
               THEN [socket EXCEPT ![Peer(s)] = Append(@, msg)] ELSE socket
  /\ UNCHANGED <<setup, greeted, reading, channel, signal, answer, link, main, tries, proved, wire,
                 inbox, fileVars>>

-----------------------------------------------------------------------------
(* Offer and answer *)

\* The user picks a peer the app has heard of: the bridge spawns `send_offer`.
UserSends ==
  /\ pc["sender"] = "idle" /\ signal["sender"] = "up" /\ "sender" \in greeted
  /\ socket["sender"] = <<>> /\ reading["sender"] = None /\ channel["sender"] = None
  /\ pc' = [pc EXCEPT !["sender"] = "offer"]
  /\ UNCHANGED <<handshakeVars, wire, inbox, fileVars>>

SendOffer == pc["sender"] = "offer" /\ Signal("sender", "offer", "offered")

\* The callback is registered after the offer was sent.
OnAnswer ==
  /\ pc["sender"] = "offered"
  /\ pc' = [pc EXCEPT !["sender"] = "answer"]
  /\ UNCHANGED <<handshakeVars, wire, inbox, fileVars>>

AcceptOffer ==
  /\ pc["receiver"] = "asked"
  /\ pc' = [pc EXCEPT !["receiver"] = "accepting"]
  /\ UNCHANGED <<handshakeVars, wire, inbox, fileVars>>

SendAnswer == pc["receiver"] = "accepting" /\ Signal("receiver", "answer", "channel")

-----------------------------------------------------------------------------
(* The data channel *)

Deliver(s) ==
  /\ wire[s] # <<>>
  /\ inbox' = [inbox EXCEPT ![Peer(s)] = Append(@, Head(wire[s]))]
  /\ wire' = [wire EXCEPT ![s] = Tail(@)]
  /\ UNCHANGED <<handshakeVars, pc, fileVars>>

EndLink(how) ==
  /\ link' = IF link = "open" THEN how ELSE link
  /\ wire' = [s \in Sides |-> <<>>]

Lose ==
  /\ link = "open" /\ EndLink("lost")
  /\ UNCHANGED <<setup, signalVars, answer, main, tries, proved, inbox, pc, fileVars>>

Receive(s, kind) ==
  /\ inbox[s] # <<>> /\ Head(inbox[s]).kind = kind
  /\ inbox' = [inbox EXCEPT ![s] = Tail(@)]

\* Sending fails once the connection was closed at this side.
SendThen(s, msgs, next) ==
  /\ wire' = IF link = "open" THEN [wire EXCEPT ![s] = @ \o msgs] ELSE wire
  /\ pc' = [pc EXCEPT ![s] = IF msgs # <<>> /\ main[s] = "finished" THEN "failed" ELSE next]

\* A step of the handshake.
Shake(s, msgs, next) ==
  /\ SendThen(s, msgs, next)
  /\ UNCHANGED <<setup, signalVars, answer, link, main, fileVars>>

-----------------------------------------------------------------------------
(* Nonces and tokens *)

SenderNonce ==
  /\ pc["sender"] = "channel" /\ link # None
  /\ Shake("sender", <<Message("nonce")>>, "nonce")
  /\ UNCHANGED <<inbox, tries, proved>>

ReceiverOpens ==
  /\ pc["receiver"] = "channel" /\ link # None
  /\ Shake("receiver", <<>>, "nonce")
  /\ UNCHANGED <<inbox, tries, proved>>

TakeNonce(s) == pc[s] = "nonce" /\ Receive(s, "nonce")

ReceiverNonce ==
  /\ TakeNonce("receiver")
  /\ Shake("receiver", <<Message("nonce")>>, "token")
  /\ UNCHANGED <<tries, proved>>

\* The token is made of both nonces.
SendToken ==
  /\ TakeNonce("sender")
  /\ Shake("sender", <<Message("token")>>, "token")
  /\ UNCHANGED <<tries, proved>>

ReceiverToken ==
  /\ pc["receiver"] = "token" /\ Receive("receiver", "token")
  /\ IF "sender" \notin setup.known
     THEN Shake("receiver", <<Message("invalid")>>, "failing")
     ELSE IF "receiver" \in setup.pin
     THEN Shake("receiver", <<Message("token pin")>>, "verify")
     ELSE Shake("receiver", <<Message("token ok")>>, "status")
  /\ UNCHANGED <<tries, proved>>

\* Faulty: the challenge is not announced.
SenderProceedsSilently ==
  IF "sender" \in setup.pin THEN Shake("sender", <<>>, "verify")
  ELSE Shake("sender", <<Message("list")>>, "selection")

\* What follows when the sender owes no PIN: its own challenge, or the list.
SenderProceeds ==
  IF "sender" \in setup.pin THEN Shake("sender", <<Message("pin required")>>, "verify")
  ELSE Shake("sender", <<Message("list")>>, "selection")

SenderToken ==
  /\ pc["sender"] = "token"
  /\ \E response \in {"token ok", "token pin", "invalid"} :
       /\ Receive("sender", response)
       /\ IF response = "invalid" \/ "receiver" \notin setup.known
          THEN Shake("sender", <<>>, "failed")
          ELSE IF response = "token pin" THEN Shake("sender", <<>>, "pin")
          ELSE SenderProceeds
  /\ UNCHANGED <<tries, proved>>

-----------------------------------------------------------------------------
(* PIN challenges, the same at both sides *)

\* `handle_pin` asks for a PIN; a task of the bridge keeps the responder, and
\* while the user does not answer nobody drops it.
StorePin(s) ==
  /\ pc[s] = "pin"
  /\ Shake(s, <<>>, "pin asked")
  /\ UNCHANGED <<inbox, tries, proved>>

\* `send_pin`
EnterPin(s) ==
  /\ pc[s] = "pin asked"
  /\ \E right \in BOOLEAN :
       /\ Shake(s, <<About("pin", right)>>, "pin sent")
       /\ proved' = IF right THEN proved \cup {s} ELSE proved
  /\ UNCHANGED <<inbox, tries>>

PinAnswer(s) ==
  /\ pc[s] = "pin sent"
  /\ \/ Receive(s, "pin required") /\ Shake(s, <<>>, "pin")
     \/ Receive(s, "too many") /\ Shake(s, <<>>, "failed")
  /\ UNCHANGED <<tries, proved>>

SenderPassed ==
  /\ pc["sender"] = "pin sent" /\ Receive("sender", "ok")
  /\ SenderProceeds
  /\ UNCHANGED <<tries, proved>>

\* The answer to the right PIN of the receiver is the list.
ReceiverPassed ==
  /\ pc["receiver"] = "pin sent" /\ Receive("receiver", "list")
  /\ Shake("receiver", <<>>, "select")
  /\ UNCHANGED <<tries, proved>>

\* Faulty: the attempts are counted but not limited.
VerifyPinForever(s) ==
  /\ pc[s] = "verify" /\ Receive(s, "pin")
  /\ IF Head(inbox[s]).of \/ tries[s] + 1 >= MaxTries
     THEN Shake(s, <<Message(IF s = "sender" THEN "list" ELSE "ok")>>,
                IF s = "sender" THEN "selection" ELSE "status")
     ELSE Shake(s, <<Message("pin required")>>, "verify")
  /\ tries' = [tries EXCEPT ![s] = IF Head(inbox[s]).of \/ @ + 1 >= MaxTries THEN 0 ELSE @ + 1]
  /\ UNCHANGED proved

\* What follows the right PIN.
Accept(s) == IF s = "sender" THEN Shake(s, <<Message("list")>>, "selection")
             ELSE Shake(s, <<Message("ok")>>, "status")

\* `verify_pin`.  The PINs are not empty, so nothing passes
\* before the first attempt.
VerifyPin(s) ==
  /\ pc[s] = "verify" /\ Receive(s, "pin")
  /\ IF Head(inbox[s]).of THEN Accept(s)
     ELSE IF tries[s] + 1 >= MaxTries THEN Shake(s, <<Message("too many")>>, "failing")
     ELSE Shake(s, <<Message("pin required")>>, "verify")
  /\ tries' = [tries EXCEPT ![s] = IF Head(inbox[s]).of THEN 0 ELSE @ + 1]
  /\ UNCHANGED proved

\* `wait_buffer_empty`, given up after five seconds for the last PIN response.
Flush(s) ==
  /\ pc[s] = "failing" /\ (wire[s] = <<>> \/ tries[s] = MaxTries)
  /\ Shake(s, <<>>, "failed")
  /\ UNCHANGED <<inbox, tries, proved>>

ReceiverStatus ==
  /\ pc["receiver"] = "status"
  /\ \/ Receive("receiver", "list") /\ Shake("receiver", <<>>, "select")
     \/ Receive("receiver", "pin required") /\ Shake("receiver", <<>>, "pin")
  /\ UNCHANGED <<tries, proved>>

-----------------------------------------------------------------------------
(* The file list *)

\* `send_selection`, and the tokens of the files.
Select ==
  /\ pc["receiver"] = "select"
  /\ \E chosen \in SUBSET Files : selection' = chosen
  /\ pc' = [pc EXCEPT !["receiver"] = "selected"]
  /\ UNCHANGED <<handshakeVars, wire, inbox, sendVars, current, held, stream, got, resultVars>>

SendTokens ==
  /\ pc["receiver"] = "selected"
  /\ Shake("receiver", <<About("tokens", selection)>>, "receive")
  /\ UNCHANGED <<inbox, tries, proved>>

\* `decline`, or the controller is gone.
Decline ==
  /\ pc["receiver"] = "select"
  /\ \E next \in {"declining", "ok"} : Shake("receiver", <<>>, next)
  /\ UNCHANGED <<inbox, tries, proved>>

\* The task ends without waiting for the buffer.
SendDecline ==
  /\ pc["receiver"] = "declining"
  /\ Shake("receiver", <<Message("declined")>>, "ok")
  /\ UNCHANGED <<inbox, tries, proved>>

Selected ==
  /\ pc["sender"] = "selection"
  /\ \/ Receive("sender", "tokens") /\ Shake("sender", <<>>, "sending")
     \/ Receive("sender", "declined") /\ Shake("sender", <<>>, "ok")
  /\ UNCHANGED <<tries, proved>>

\* An app that dropped its controller takes neither the list nor the selection.
Unwanted(s) ==
  /\ \/ s = "receiver" /\ pc[s] \in {"status", "pin sent"} /\ Receive(s, "list")
     \/ s = "sender" /\ pc[s] = "selection" /\ Receive(s, "tokens")
  /\ Shake(s, <<>>, "failed")
  /\ UNCHANGED <<tries, proved>>

-----------------------------------------------------------------------------
(* Sending the files *)

\* Sending a header or a chunk fails as in SendThen, and then ends the file.
CanSend == main["sender"] # "finished"

Put(msg) == wire' = IF link = "open" THEN [wire EXCEPT !["sender"] = Append(@, msg)] ELSE wire

\* `send_file`: the app hands over a file.
HandOver(f) ==
  /\ pc["sender"] = "sending" /\ handed = None /\ f \notin sent
  /\ handed' = f
  /\ sent' = sent \cup {f}
  /\ UNCHANGED <<handshakeVars, wire, inbox, pc, source, given, receiveVars, resultVars>>

\* A file that was not selected is refused.
StartFile ==
  /\ pc["sender"] = "sending" /\ source = None /\ handed # None
  /\ handed' = None
  /\ IF handed \in selection /\ CanSend THEN source' = handed /\ Put(About("header", handed))
     ELSE UNCHANGED <<source, wire>>
  /\ UNCHANGED <<handshakeVars, inbox, pc, sent, given, receiveVars, resultVars>>

SendChunk ==
  /\ source # None /\ given[source] < MaxGiven
  /\ given' = [given EXCEPT ![source] = @ + 1]
  /\ source' = IF CanSend THEN source ELSE None
  /\ Put(About("chunk", source))
  /\ UNCHANGED <<handshakeVars, inbox, pc, handed, sent, receiveVars, resultVars>>

\* The app drops its end, be the file complete or not.
EndFile ==
  /\ source # None
  /\ source' = None
  /\ UNCHANGED <<handshakeVars, wire, inbox, pc, handed, sent, given, receiveVars, resultVars>>

\* The app drops its controller.
EndSending ==
  /\ pc["sender"] = "sending" /\ source = None /\ handed = None
  /\ pc' = [pc EXCEPT !["sender"] = "closing"]
  /\ UNCHANGED <<handshakeVars, wire, inbox, fileVars>>

SendDelimiter ==
  /\ pc["sender"] = "closing" /\ wire["sender"] = <<>>
  /\ Shake("sender", <<Message("delimiter")>>, "response")
  /\ UNCHANGED <<inbox, tries, proved>>

\* One response is awaited, whichever it is.
TakeResponse ==
  /\ pc["sender"] = "response" /\ Receive("sender", "response")
  /\ Shake("sender", <<>>, "ok")
  /\ UNCHANGED <<tries, proved>>

-----------------------------------------------------------------------------
(* Receiving the files *)

\* A string ends the current file.  Without one, the delimiter does not parse.
TakeString ==
  /\ pc["receiver"] = "receive"
  /\ \E kind \in {"header", "delimiter"} :
       /\ Receive("receiver", kind)
       /\ pc' = [pc EXCEPT !["receiver"] =
                   IF current # None THEN "result"
                   ELSE IF kind = "header" THEN "header" ELSE "failed"]
  /\ held' = Handled(Head(inbox["receiver"]).kind, Head(inbox["receiver"]).of, current)
  /\ stream' = IF current # None /\ stream[current] = "open"
               THEN [stream EXCEPT ![current] = "ended"] ELSE stream
  /\ current' = None
  /\ UNCHANGED <<handshakeVars, wire, sendVars, selection, got, resultVars>>

\* The next result of the app is taken for that of the file that ended.
AnswerFile ==
  /\ pc["receiver"] = "result" /\ results # <<>>
  /\ results' = Tail(results)
  /\ responses' = responses \cup {<<held.last, Head(results)>>}
  /\ SendThen("receiver", <<Message("response")>>,
              IF held.kind = "delimiter" THEN "last status" ELSE "header")
  /\ UNCHANGED <<handshakeVars, inbox, sendVars, receiveVars, reported>>

StartReceiving ==
  /\ pc["receiver"] = "header"
  /\ current' = held.of
  /\ stream' = [stream EXCEPT ![held.of] = "open"]
  /\ held' = Handled(None, None, None)
  /\ pc' = [pc EXCEPT !["receiver"] = "receive"]
  /\ UNCHANGED <<handshakeVars, wire, inbox, sendVars, selection, got, resultVars>>

\* Faulty: bytes beyond the announced size are skipped.
TakeChunkSkipping ==
  /\ pc["receiver"] = "receive" /\ Receive("receiver", "chunk")
  /\ IF current = None \/ Len(got[current]) = Size[current] THEN UNCHANGED <<pc, got>>
     ELSE IF stream[current] = "dropped"
     THEN pc' = [pc EXCEPT !["receiver"] = "failed"] /\ UNCHANGED got
     ELSE /\ got' = [got EXCEPT ![current] = Append(@, Head(inbox["receiver"]).of)]
          /\ UNCHANGED pc
  /\ UNCHANGED <<handshakeVars, wire, sendVars, selection, current, held, stream, resultVars>>

\* Bytes beyond the announced size end the file, a stream the app dropped the task.
TakeChunk ==
  /\ pc["receiver"] = "receive" /\ Receive("receiver", "chunk")
  /\ IF current = None THEN UNCHANGED <<pc, current, stream, got>>
     ELSE IF Len(got[current]) = Size[current]
     THEN /\ current' = None
          /\ stream' = [stream EXCEPT ![current] = "cut"]
          /\ UNCHANGED <<pc, got>>
     ELSE IF stream[current] = "dropped"
     THEN /\ pc' = [pc EXCEPT !["receiver"] = "failed"]
          /\ UNCHANGED <<current, stream, got>>
     ELSE /\ got' = [got EXCEPT ![current] = Append(@, Head(inbox["receiver"]).of)]
          /\ UNCHANGED <<pc, current, stream>>
  /\ UNCHANGED <<handshakeVars, wire, sendVars, selection, held, resultVars>>

\* `wait_buffer_empty` for at most five seconds.
LastStatus ==
  /\ pc["receiver"] = "last status"
  /\ Shake("receiver", <<>>, "ok")
  /\ UNCHANGED <<inbox, tries, proved>>

\* The receiving app reads each stream to its end and reports, or gives up.
ReportResult(f) ==
  /\ stream[f] \in {"ended", "cut", "dropped"} /\ f \notin reported /\ results = <<>>
  /\ results' = <<f>>
  /\ reported' = reported \cup {f}
  /\ UNCHANGED <<handshakeVars, wire, inbox, pc, sendVars, receiveVars, responses>>

DropStream(f) ==
  /\ stream[f] = "open"
  /\ stream' = [stream EXCEPT ![f] = "dropped"]
  /\ UNCHANGED <<handshakeVars, wire, inbox, pc, sendVars, selection, current, held, got,
                 resultVars>>

-----------------------------------------------------------------------------
(* The spawning functions *)

\* The task is done: the connection is closed, with what is still on the wire.
Finish(s) ==
  /\ main[s] = "running" /\ pc[s] = "ok"
  /\ main' = [main EXCEPT ![s] = "finished"]
  /\ EndLink("closed")
  /\ UNCHANGED <<setup, signalVars, answer, tries, proved, inbox, pc, fileVars>>

\* The task failed: the connection is dropped, not closed.
Fail(s) ==
  /\ main[s] = "running" /\ pc[s] = "failed"
  /\ main' = [main EXCEPT ![s] = "failed"]
  /\ UNCHANGED <<setup, signalVars, answer, link, tries, proved, wire, inbox, pc, fileVars>>

\* `done_rx`: the connection ended first; the task goes on by itself.
Disconnect(s) ==
  /\ main[s] = "running" /\ link \in {"closed", "lost"}
  /\ main' = [main EXCEPT ![s] = "finished"]
  /\ UNCHANGED <<setup, signalVars, answer, link, tries, proved, wire, inbox, pc, fileVars>>

-----------------------------------------------------------------------------

Signaling ==
  \/ \E s \in Sides : Greet(s) \/ ReadSocket(s) \/ PassOn(s) \/ Connect(s) \/ Listen(s)
  \/ UserSends \/ SendOffer \/ OnAnswer \/ AcceptOffer \/ SendAnswer

Handshake ==
  \/ SenderNonce \/ ReceiverOpens \/ ReceiverNonce \/ SendToken \/ ReceiverToken \/ SenderToken
  \/ \E s \in Sides : StorePin(s) \/ EnterPin(s) \/ PinAnswer(s) \/ VerifyPin(s) \/ Flush(s)
  \/ SenderPassed \/ ReceiverPassed \/ ReceiverStatus \/ Select \/ SendTokens \/ SendDecline \/ Selected

Transfer ==
  \/ \E f \in Files : HandOver(f) \/ ReportResult(f)
  \/ StartFile \/ SendChunk \/ EndFile \/ EndSending \/ SendDelimiter \/ TakeResponse
  \/ TakeString \/ AnswerFile \/ StartReceiving \/ TakeChunk \/ LastStatus

\* The tasks, the runtime and users that answer.
Progress ==
  Signaling \/ Handshake \/ Transfer \/ \E s \in Sides : Deliver(s) \/ Finish(s) \/ Fail(s) \/ Disconnect(s)

\* What a user, an app or the network may do but need not.
Whim ==
  \/ Lose \/ Decline \/ \E f \in Files : DropStream(f)
  \/ \E s \in Sides : LoseSignal(s) \/ Unwanted(s)

Next == Progress \/ Whim

Fairness == WF_vars(Progress)

Spec == Init /\ [][Next]_vars /\ Fairness

-----------------------------------------------------------------------------
(* Properties *)

\* Nobody sees more than they proved they may: the receiver gets the file list only
\* with the PIN of the sender and a key the sender accepts, and takes a file only if
\* its user selected it and the sender has the PIN and the key (handle_pin and
\* verify_pin, both ways, with at most `max_tries` attempts).
TrustFirst ==
  /\ pc["receiver"] = "select" \/ selection # {} =>
       /\ "receiver" \in setup.known
       /\ "sender" \in setup.pin => "receiver" \in proved
  /\ \A f \in Files : stream[f] # None =>
       /\ f \in selection
       /\ "sender" \in setup.known
       /\ "receiver" \in setup.pin => "sender" \in proved

\* The stream of a file carries chunks of that file only, in order and no more than
\* announced; a stream that ended by itself holds everything the sending app gave,
\* whatever was refused, cut or lost around it (the framing of process_in_chunks and
\* of the receive loop); and the response about a file carries the result the app
\* reported for it, although results are matched by their order alone, as long as no
\* file was cut for being longer than announced (webrtc.rs 891-921).
FilesAreKeptApart ==
  /\ \A f \in Files :
       /\ \A i \in DOMAIN got[f] : got[f][i] = f
       /\ Len(got[f]) <= given[f]
       /\ stream[f] = "ended" => Len(got[f]) = given[f] /\ source # f
  /\ (\A f \in Files : stream[f] # "cut") => \A r \in responses : r[1] = r[2]

Failed(s) == pc[s] = "failed"

\* Both functions return, unless the answer overtook the callback, a signaling
\* connection ended before the answer was used or hangs behind messages that overtook
\* its Hello, or a task failed: then the connection is not closed and the other side
\* may wait for ever.  And if a single file was selected and sent, its status is sent
\* before the end.
Settles ==
  <>[] \/ answer = "ignored"
       \/ answer = None /\ \E s \in Sides : Overtaken(s) \/ signal[s] \in {"failed", "lost"}
       \/ \E s \in Sides : Failed(s)
       \/ /\ \A s \in Sides : main[s] = "finished"
          /\ link # "lost" /\ Cardinality(selection) = 1 =>
               \A f \in Files : stream[f] \in {"ended", "dropped"} => <<f, f>> \in responses

=============================================================================
