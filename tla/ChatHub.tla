------------------------------ MODULE ChatHub ------------------------------
(***************************************************************************)
(* The hub of the chat's WebSocket links (packages/core/src/chat/mod.rs,   *)
(* http/server/chat_ws.rs): outbound and inbound connections share a map   *)
(* of entries behind one lock, each established connection is run by a     *)
(* task of its own, and all of them report to the application through one  *)
(* bounded event channel.                                                  *)
(*                                                                         *)
(* A connection's stage is the await point it is at.  The lock is held     *)
(* across an await only while a Connected event waits for room, so it is   *)
(* taken exactly when a connection is "announcing".  The peer's side of a  *)
(* link reads and answers pings, or has stalled (asleep, out of reach:     *)
(* nothing arrives from it and writes may block), or has failed.           *)
(***************************************************************************)
EXTENDS Naturals, Sequences, FiniteSets

CONSTANTS
  Conns,      \* connections, outbound and inbound
  Peers,      \* certificate fingerprints
  Sends,      \* calls of ChatHub::send, each one with its frame
  MaxPerPeer, \* MAX_CONNECTIONS_PER_PEER
  MaxTotal,   \* MAX_CONNECTIONS
  OutCap,     \* OUTGOING_QUEUE
  EventCap    \* EVENT_QUEUE

ASSUME ChatAssumption ==
  /\ MaxPerPeer \in Nat /\ MaxTotal \in Nat
  /\ OutCap \in Nat \ {0} /\ EventCap \in Nat \ {0}

VARIABLES
  stage,     \* where each connection is
  peer,      \* the fingerprint each connection is bound to
  inbound,   \* whether the peer opened it, through the HTTP server
  link,      \* the state of the peer's side
  quiet,     \* nothing has been received for IDLE_TIMEOUT
  reason,    \* why the connection's loop ended
  entries,   \* the connections in the hub's map
  out,       \* the outgoing queue of each connection
  call,      \* where each call of send is
  onto,      \* the connection each call of send names
  events,    \* the event channel
  open,      \* the application still listens
  told,      \* the last event but messages of each connection a listener got
  down,      \* progress of ChatHub::shutdown
  stopped    \* the HTTP server has stopped

connVars == <<stage, peer, inbound, link, quiet, reason>>
sendVars == <<out, call, onto>>
eventVars == <<events, open, told>>
vars == <<connVars, entries, sendVars, eventVars, down, stopped>>

\* The loop of run_connection, and the stages in which it waits for the
\* event channel or the socket.
Looping == {"running", "emitting", "writing"}
Alive == Looping \cup {"announcing", "closing", "removing"}
Stages == Alive \cup {"new", "connecting", "refused", "telling", "gone"}
\* stopped: by the server's stop or the hub's shutdown; broken: closed by the
\* peer, timed out, or an error of the socket
Reasons == {"none", "stopped", "broken", "closed locally"}
Event == [kind : {"connected", "message", "disconnected"}, conn : Conns]
Ev(k, c) == [kind |-> k, conn |-> c]

TypeOK ==
  /\ stage \in [Conns -> Stages]
  /\ peer \in [Conns -> Peers]
  /\ inbound \in [Conns -> BOOLEAN]
  /\ link \in [Conns -> {"up", "stalled", "failed"}]
  /\ quiet \in [Conns -> BOOLEAN]
  /\ reason \in [Conns -> Reasons]
  /\ entries \in SUBSET Conns
  /\ out \in [Conns -> Seq(Sends)]
  /\ \A c \in Conns : Len(out[c]) <= OutCap
  /\ call \in [Sends -> {"idle", "waiting", "queued", "written", "failed", "lost"}]
  /\ onto \in [Sends -> Conns]
  /\ events \in Seq(Event) /\ Len(events) <= EventCap
  /\ open \in BOOLEAN
  /\ told \in [Conns -> {"nothing", "connected", "disconnected"}]
  /\ down \in {"no", "cancelled", "done"}
  /\ stopped \in BOOLEAN

Init ==
  /\ stage = [c \in Conns |-> "new"]
  /\ peer \in [Conns -> Peers]
  /\ inbound \in [Conns -> BOOLEAN]
  /\ link = [c \in Conns |-> "up"]
  /\ quiet = [c \in Conns |-> FALSE]
  /\ reason = [c \in Conns |-> "none"]
  /\ entries = {}
  /\ out = [c \in Conns |-> <<>>]
  /\ call = [s \in Sends |-> "idle"]
  /\ onto \in [Sends -> Conns]
  /\ events = <<>> /\ open = TRUE
  /\ told = [c \in Conns |-> "nothing"]
  /\ down = "no" /\ stopped = FALSE

Locked == \E c \in Conns : stage[c] = "announcing"
Of(p) == {c \in entries : peer[c] = p}

Move(c, s) == stage' = [stage EXCEPT ![c] = s]

\* A send on the event channel: it waits for room, and fails at once when
\* nobody listens any more (the code ignores the failure).
Room == open => Len(events) < EventCap
Emit(e) == events' = IF open THEN Append(events, e) ELSE events

-----------------------------------------------------------------------------
(* Opening a connection *)

\* check_capacity, before the handshake
Admissible(c) ==
  /\ down = "no"
  /\ Cardinality(entries) < MaxTotal
  /\ Cardinality(Of(peer[c])) < MaxPerPeer

Begin(c) ==
  /\ stage[c] = "new" /\ ~Locked /\ (inbound[c] => ~stopped)
  /\ Move(c, IF Admissible(c) THEN "connecting" ELSE "refused")
  /\ UNCHANGED <<peer, inbound, link, quiet, reason, entries, sendVars, eventVars, down, stopped>>

\* No client certificate, or not the headers of a WebSocket handshake: an
\* answer that does not look at the limits.
TurnAway(c) ==
  /\ stage[c] = "new" /\ inbound[c] /\ ~stopped
  /\ Move(c, "refused")
  /\ UNCHANGED <<peer, inbound, link, quiet, reason, entries, sendVars, eventVars, down, stopped>>

\* Outbound: nobody answers in time, the peer's certificate is invalid or has
\* another fingerprint than the expected one, or it has no chat endpoint.
ConnectFails(c) ==
  /\ stage[c] = "connecting" /\ ~inbound[c]
  /\ Move(c, "refused")
  /\ UNCHANGED <<peer, inbound, link, quiet, reason, entries, sendVars, eventVars, down, stopped>>

\* Inbound: the client is gone before the connection was handed over.
UpgradeFails(c) ==
  /\ stage[c] = "connecting" /\ inbound[c]
  /\ Move(c, "refused")
  /\ UNCHANGED <<peer, inbound, link, quiet, reason, entries, sendVars, eventVars, down, stopped>>

Register(c) ==
  /\ stage[c] = "connecting" /\ ~Locked
  /\ entries' = entries \cup {c}
  /\ Move(c, "announcing")
  /\ UNCHANGED <<peer, inbound, link, quiet, reason, sendVars, eventVars, down, stopped>>

\* The lock is released and the connection's task spawned.
Announce(c) ==
  /\ stage[c] = "announcing" /\ Room
  /\ Emit(Ev("connected", c))
  /\ Move(c, "running")
  /\ UNCHANGED <<peer, inbound, link, quiet, reason, entries, sendVars, open, told, down, stopped>>

-----------------------------------------------------------------------------
(* run_connection: one select! per round *)

\* Nothing is read or written any more, but a close frame.
Break(c, why) ==
  /\ reason' = [reason EXCEPT ![c] = why]
  /\ Move(c, "closing")
  /\ link' = [link EXCEPT ![c] = "up"] /\ quiet' = [quiet EXCEPT ![c] = FALSE]
  /\ UNCHANGED <<peer, inbound, entries, sendVars, eventVars, down, stopped>>

BreakStopped(c) ==
  /\ stage[c] = "running"
  /\ down # "no" \/ (stopped /\ inbound[c])
  /\ Break(c, "stopped")

ReceiveText(c) ==
  /\ stage[c] = "running" /\ link[c] = "up"
  /\ quiet' = [quiet EXCEPT ![c] = FALSE]
  /\ Move(c, "emitting")
  /\ UNCHANGED <<peer, inbound, link, reason, entries, sendVars, eventVars, down, stopped>>

EmitMessage(c) ==
  /\ stage[c] = "emitting" /\ Room
  /\ Emit(Ev("message", c))
  /\ Move(c, "running")
  /\ UNCHANGED <<peer, inbound, link, quiet, reason, entries, sendVars, open, told, down, stopped>>

\* A pong, or another control frame.
ReceivePong(c) ==
  /\ stage[c] = "running" /\ link[c] = "up" /\ quiet[c]
  /\ quiet' = [quiet EXCEPT ![c] = FALSE]
  /\ UNCHANGED <<stage, peer, inbound, link, reason, entries, sendVars, eventVars, down, stopped>>

\* A close frame, a binary frame, or the end of the stream.
ReceiveEnd(c) ==
  /\ stage[c] = "running" /\ link[c] \in {"up", "failed"}
  /\ Break(c, "broken")

\* Faulty: pings for ever.
PingOnly(c) ==
  /\ stage[c] = "running"
  /\ Move(c, "writing")
  /\ UNCHANGED <<peer, inbound, link, quiet, reason, entries, sendVars, eventVars, down, stopped>>

\* The ping branch: an idle connection is given up, another one gets a ping.
Ping(c) ==
  /\ stage[c] = "running"
  /\ IF quiet[c]
       THEN Break(c, "broken")
       ELSE /\ Move(c, "writing")
            /\ UNCHANGED <<peer, inbound, link, quiet, reason, entries, sendVars, eventVars, down, stopped>>

TakeFrame(c) ==
  /\ stage[c] = "running" /\ out[c] # <<>>
  /\ call' = [call EXCEPT ![Head(out[c])] = "written"]
  /\ out' = [out EXCEPT ![c] = Tail(@)]
  /\ Move(c, "writing")
  /\ UNCHANGED <<peer, inbound, link, quiet, reason, entries, onto, eventVars, down, stopped>>

\* No arm of the select! is polled while a frame is being written.  A write
\* to a stalled peer completes as long as the socket's buffer takes it.
Written(c) ==
  /\ stage[c] = "writing" /\ link[c] # "failed"
  /\ Move(c, "running")
  /\ UNCHANGED <<peer, inbound, link, quiet, reason, entries, sendVars, eventVars, down, stopped>>

WriteFails(c) ==
  /\ stage[c] = "writing" /\ link[c] = "failed"
  /\ Break(c, "broken")

\* Senders of a connection: its entry, and every call of send in progress.
Senderless(c) == c \notin entries /\ \A s \in Sends : ~(call[s] = "waiting" /\ onto[s] = c)

\* Faulty: frames that are already queued are not sent.
BreakUnflushed(c) ==
  /\ stage[c] = "running" /\ Senderless(c)
  /\ Break(c, "closed locally")

BreakLocally(c) ==
  /\ stage[c] = "running" /\ out[c] = <<>> /\ Senderless(c)
  /\ Break(c, "closed locally")

-----------------------------------------------------------------------------
(* The end of a connection's task *)

\* The receiver of the queue is dropped with the frames left in it.
DropQueue(c) ==
  /\ out' = [out EXCEPT ![c] = <<>>]
  /\ call' = [s \in Sends |-> IF call[s] = "queued" /\ onto[s] = c THEN "lost" ELSE call[s]]
  /\ UNCHANGED onto

\* The close frame is written, or given up after a second; until then the queue
\* takes frames that nobody will write.
CloseSocket(c) ==
  /\ stage[c] = "closing"
  /\ Move(c, "removing")
  /\ DropQueue(c)
  /\ UNCHANGED <<peer, inbound, link, quiet, reason, entries, eventVars, down, stopped>>

RemoveEntry(c) ==
  /\ stage[c] = "removing" /\ ~Locked
  /\ entries' = entries \ {c}
  /\ Move(c, "telling")
  /\ UNCHANGED <<peer, inbound, link, quiet, reason, sendVars, eventVars, down, stopped>>

\* Faulty: try_send, the end is not reported when the channel is full.
TryTellDisconnected(c) ==
  /\ stage[c] = "telling"
  /\ IF Room THEN Emit(Ev("disconnected", c)) ELSE UNCHANGED events
  /\ Move(c, "gone")
  /\ UNCHANGED <<peer, inbound, link, quiet, reason, entries, sendVars, open, told, down, stopped>>

TellDisconnected(c) ==
  /\ stage[c] = "telling" /\ Room
  /\ Emit(Ev("disconnected", c))
  /\ Move(c, "gone")
  /\ UNCHANGED <<peer, inbound, link, quiet, reason, entries, sendVars, open, told, down, stopped>>

-----------------------------------------------------------------------------
(* The application: send, close, shutdown, listen *)

\* ChatHub::send takes a clone of the entry's sender under the lock.
Send(s) ==
  /\ call[s] = "idle" /\ ~Locked
  /\ call' = [call EXCEPT ![s] = IF onto[s] \in entries THEN "waiting" ELSE "failed"]
  /\ UNCHANGED <<connVars, entries, out, onto, eventVars, down, stopped>>

\* Faulty: nobody tells a waiting call that the loop has ended.
QueueOrWait(s) ==
  /\ call[s] = "waiting" /\ stage[onto[s]] \in Looping
  /\ Len(out[onto[s]]) < OutCap
  /\ out' = [out EXCEPT ![onto[s]] = Append(@, s)]
  /\ call' = [call EXCEPT ![s] = "queued"]
  /\ UNCHANGED <<connVars, entries, onto, eventVars, down, stopped>>

\* The frame is queued once there is room, or refused when the receiver is gone.
Queue(s) ==
  /\ call[s] = "waiting"
  /\ IF stage[onto[s]] \in Looping \cup {"announcing", "closing"}
       THEN /\ Len(out[onto[s]]) < OutCap
            /\ out' = [out EXCEPT ![onto[s]] = Append(@, s)]
            /\ call' = [call EXCEPT ![s] = "queued"]
       ELSE /\ call' = [call EXCEPT ![s] = "failed"]
            /\ UNCHANGED out
  /\ UNCHANGED <<connVars, entries, onto, eventVars, down, stopped>>

\* Faulty: close reports the end itself.
CloseAndTell(c) ==
  /\ c \in entries /\ ~Locked /\ Room
  /\ entries' = entries \ {c}
  /\ Emit(Ev("disconnected", c))
  /\ UNCHANGED <<connVars, sendVars, open, told, down, stopped>>

Close(c) ==
  /\ c \in entries /\ ~Locked
  /\ entries' = entries \ {c}
  /\ UNCHANGED <<connVars, sendVars, eventVars, down, stopped>>

Shutdown ==
  /\ down = "no"
  /\ down' = "cancelled"
  /\ UNCHANGED <<connVars, entries, sendVars, eventVars, stopped>>

ClearEntries ==
  /\ down = "cancelled" /\ ~Locked
  /\ entries' = {}
  /\ down' = "done"
  /\ UNCHANGED <<connVars, sendVars, eventVars, stopped>>

\* ServerHandle stops: only the connections it accepted are cancelled.
StopServer ==
  /\ ~stopped
  /\ stopped' = TRUE
  /\ UNCHANGED <<connVars, entries, sendVars, eventVars, down>>

Listen ==
  /\ open /\ events # <<>>
  /\ LET e == Head(events) IN
       told' = IF e.kind = "message" THEN told ELSE [told EXCEPT ![e.conn] = e.kind]
  /\ events' = Tail(events)
  /\ UNCHANGED <<connVars, entries, sendVars, open, down, stopped>>

\* The stream is cancelled on the Dart side.
StopListening ==
  /\ open
  /\ open' = FALSE /\ events' = <<>> /\ told' = [c \in Conns |-> "nothing"]
  /\ UNCHANGED <<connVars, entries, sendVars, down, stopped>>

-----------------------------------------------------------------------------
(* The peer and the network *)

Established(c) == stage[c] \in Looping \cup {"announcing"}

LinkChanges(c) ==
  /\ Established(c) /\ link[c] # "failed"
  /\ \E l \in {"up", "stalled", "failed"} \ {link[c]} : link' = [link EXCEPT ![c] = l]
  /\ UNCHANGED <<stage, peer, inbound, quiet, reason, entries, sendVars, eventVars, down, stopped>>

\* What is received counts when the loop reads it.
FallQuiet(c) ==
  /\ Established(c) /\ ~quiet[c]
  /\ link[c] = "stalled" \/ stage[c] \in {"writing", "emitting"}
  /\ quiet' = [quiet EXCEPT ![c] = TRUE]
  /\ UNCHANGED <<stage, peer, inbound, link, reason, entries, sendVars, eventVars, down, stopped>>

Loop(c) ==
  \/ BreakStopped(c) \/ ReceiveText(c) \/ EmitMessage(c) \/ ReceivePong(c) \/ ReceiveEnd(c)
  \/ Ping(c) \/ TakeFrame(c) \/ Written(c) \/ WriteFails(c) \/ BreakLocally(c)
Lifecycle(c) ==
  \/ Begin(c) \/ TurnAway(c) \/ ConnectFails(c) \/ UpgradeFails(c)
  \/ Register(c) \/ Announce(c)
  \/ CloseSocket(c) \/ RemoveEntry(c) \/ TellDisconnected(c)
Application ==
  \/ \E c \in Conns : Close(c)
  \/ \E s \in Sends : Send(s) \/ Queue(s)
  \/ Shutdown \/ ClearEntries \/ StopServer \/ Listen \/ StopListening

Next ==
  \/ \E c \in Conns : Lifecycle(c) \/ Loop(c) \/ LinkChanges(c) \/ FallQuiet(c)
  \/ Application

Spec == Init /\ [][Next]_vars

\* What a task does at an await that is no select!, as soon as it can
Proceed(c) ==
  \/ Announce(c) \/ EmitMessage(c) \/ TellDisconnected(c) \/ CloseSocket(c) \/ RemoveEntry(c)
  \/ (link[c] = "up" /\ Written(c)) \/ WriteFails(c)

\* The tasks go on.  select! picks among the branches that are ready at random,
\* and tokio serves those who wait for the lock or for room in a channel in the
\* order they came, so what is ready again and again happens: strong fairness.
\* A write completes unless the peer has stalled, time passes, and the
\* application listens until it stops.  Nothing makes the peer, the network or
\* the user act.
Fairness ==
  /\ \A c \in Conns :
       /\ SF_vars(Proceed(c))
       /\ SF_vars(BreakStopped(c) \/ BreakLocally(c) \/ (link[c] = "failed" /\ ReceiveEnd(c)))
       /\ SF_vars(TakeFrame(c)) /\ SF_vars(Ping(c)) /\ WF_vars(FallQuiet(c))
  /\ SF_vars(ClearEntries) /\ WF_vars(Listen)
  /\ \A s \in Sends : SF_vars(Queue(s))

FairSpec == Spec /\ Fairness

-----------------------------------------------------------------------------
(* Properties *)

Before(i, c, kinds) == \E j \in 1..(i - 1) : events[j].conn = c /\ events[j].kind \in kinds

\* "in order per connection: one Connected, any number of Message, one
\* Disconnected" (mod.rs), whoever closes the connection and whenever: each
\* event still in the channel continues what has been reported before it.
EventOrder ==
  \A i \in DOMAIN events : LET c == events[i].conn IN
    IF events[i].kind = "connected"
      THEN told[c] = "nothing" /\ ~Before(i, c, {"connected", "message", "disconnected"})
      ELSE /\ told[c] = "connected" \/ (told[c] = "nothing" /\ Before(i, c, {"connected"}))
           /\ ~Before(i, c, {"disconnected"})

\* An entry of the map is a connection that a task serves or is about to: no
\* entry outlives its connection and uses up the limits.
EntriesAreServed == \A c \in entries : stage[c] \in Alive

\* A frame that send has accepted is written before a connection closed by
\* the application ends.
CloseFlushes ==
  \A s \in Sends : call[s] = "lost" => reason[onto[s]] \notin {"none", "closed locally"}

\* What makes the above inductive: a connection has reported nothing before it
\* announces itself, and from then on until its task reports the end it has
\* reported Connected and no end.
Unreported(c) == told[c] = "nothing" /\ \A i \in DOMAIN events : events[i].conn # c
Begun(c) ==
  /\ told[c] = "connected" \/ (told[c] = "nothing" /\ \E i \in DOMAIN events : events[i] = Ev("connected", c))
  /\ \A i \in DOMAIN events : events[i] # Ev("disconnected", c)

Reported ==
  \A c \in Conns :
    /\ stage[c] \in {"new", "connecting", "refused", "announcing"} => Unreported(c)
    /\ open /\ stage[c] \in Looping \cup {"closing", "removing", "telling"} => Begun(c)

\* Every frame that is queued is in the queue, which the application's close
\* leaves empty and without anyone who could add to it.
Flushed ==
  /\ \A c \in Conns : reason[c] # "none" <=> stage[c] \in {"closing", "removing", "telling", "gone"}
  /\ \A s \in Sends : call[s] = "queued" => \E i \in DOMAIN out[onto[s]] : out[onto[s]][i] = s
  /\ \A c \in Conns : reason[c] = "closed locally" => out[c] = <<>> /\ Senderless(c)

IInv == TypeOK /\ EventOrder /\ EntriesAreServed /\ CloseFlushes /\ Reported /\ Flushed

\* No write of a connection waits for ever for a peer that does not read.
Writes(c) == []<>~(stage[c] = "writing" /\ link[c] = "stalled")

\* Closing or shutting down ends the connection and is reported, unless the
\* connection's task waits in a write for ever.
EndIsTold ==
  \A c \in Conns : Writes(c) =>
    ((Established(c) /\ (c \notin entries \/ down = "done")) ~> (told[c] = "disconnected" \/ ~open))

\* A connection whose peer stays out of reach is given up after IDLE_TIMEOUT,
\* unless its task waits in a write for ever.
IdleIsNoticed ==
  \A c \in Conns : (Writes(c) /\ <>[](link[c] = "stalled")) => []<>~Established(c)

\* Every call of send returns, unless the task that would take its frame waits
\* in a write for ever: a call that waits for room is told when the loop ends.
SendReturns ==
  \A s \in Sends, c \in Conns :
    Writes(c) => ((call[s] = "waiting" /\ onto[s] = c) ~> call[s] # "waiting")

=============================================================================
