-------------------------- MODULE SignalingServer --------------------------
(***************************************************************************)
(* The signaling server (server/src/controller/ws_controller.rs): devices  *)
(* behind one public address share a room, and every websocket connection  *)
(* has a bounded queue that the connection's send task writes to the       *)
(* socket.  A connection is a main process (handle_socket) and, while it   *)
(* is served, a recv task that handles the client's requests.              *)
(*                                                                         *)
(* Rooms are changed under one lock, and what is told to the others is     *)
(* sent after the lock is released, one peer after the other, each send    *)
(* waiting for room in that peer's queue.  The peer ids are fresh, so a    *)
(* connection is its peer.  The description of a peer is a version: 1 as   *)
(* registered, one more with every update, 0 where there is none.          *)
(***************************************************************************)
EXTENDS Naturals, Sequences, FiniteSets

CONSTANTS
  Clients,         \* websocket connections, each one the peer id it was given
  Rooms,           \* ip groups
  MaxConnections,  \* connections a room may have
  MaxRequests,     \* requests a room may make in an hour
  QueueCap,        \* capacity of a connection's queue
  MaxInfo          \* bound: the last version of a peer's description

ASSUME SignalingAssumption ==
  /\ IsFiniteSet(Clients)
  /\ MaxConnections \in Nat /\ MaxRequests \in Nat
  /\ QueueCap \in Nat \ {0} /\ MaxInfo \in Nat \ {0}

VARIABLES
  phase,     \* where the main process of each connection is
  room,      \* the room each connection asked for
  info,      \* the room's entry of each connection, 0 when it has none
  snapshot,  \* the peers the connection found when it registered
  todo,      \* peers the main process still has to tell, in its order
  recv,      \* where the recv task of each connection is
  rtodo,     \* peers the recv task still has to tell
  rmsg,      \* what it tells them
  queue,     \* the queue of each connection
  count,     \* requests of each room since the last full hour
  known      \* what each connection has told its client of the peers

mainVars == <<phase, room, snapshot, todo>>
recvVars == <<recv, rtodo, rmsg>>
vars == <<mainVars, recvVars, info, queue, count, known>>

Versions == 0..MaxInfo
News == {"join", "update"}
Message == [kind : News \cup {"hello", "left", "signal", "error"},
            peer : Clients, info : Versions]
Msg(k, c, v) == [kind |-> k, peer |-> c, info |-> v]
Nothing == [d \in Clients |-> 0]
NoMsg(c) == Msg("error", c, 0)

TypeOK ==
  /\ phase \in [Clients -> {"new", "refused", "joining", "serving", "closing", "leaving"}]
  /\ room \in [Clients -> Rooms]
  /\ info \in [Clients -> Versions]
  /\ snapshot \in [Clients -> [Clients -> Versions]]
  /\ todo \in [Clients -> Seq(Clients)]
  /\ recv \in [Clients -> {"none", "reading", "sending", "over", "late"}]
  /\ rtodo \in [Clients -> Seq(Clients)]
  /\ rmsg \in [Clients -> Message]
  /\ queue \in [Clients -> Seq(Message)]
  /\ count \in [Rooms -> 0..MaxRequests]
  /\ known \in [Clients -> [Clients -> Versions]]

Init ==
  /\ phase = [c \in Clients |-> "new"]
  /\ room \in [Clients -> Rooms]
  /\ info = [c \in Clients |-> 0]
  /\ snapshot = [c \in Clients |-> Nothing]
  /\ todo = [c \in Clients |-> <<>>]
  /\ recv = [c \in Clients |-> "none"]
  /\ rtodo = [c \in Clients |-> <<>>]
  /\ rmsg = [c \in Clients |-> NoMsg(c)]
  /\ queue = [c \in Clients |-> <<>>]
  /\ count = [g \in Rooms |-> 0]
  /\ known = [c \in Clients |-> Nothing]

Members(g) == {c \in Clients : info[c] > 0 /\ room[c] = g}
Peers(c) == Members(room[c]) \ {c}

\* The orders in which a hash map may yield a set of peers.
Orders(S) == {q \in [1..Cardinality(S) -> S] : \A p \in S : \E i \in DOMAIN q : q[i] = p}

Elems(q) == {q[i] : i \in DOMAIN q}

\* The receiving end of a queue is dropped with the send task.
Open(c) == phase[c] \in {"joining", "serving"}
\* Faulty: a sender waits for a receiver that is gone.
ReadyIfOpen(c) == Open(c) /\ Len(queue[c]) < QueueCap

Ready(c) == Open(c) => Len(queue[c]) < QueueCap
Push(c, m) ==
  queue' = IF Open(c) THEN [queue EXCEPT ![c] = Append(@, m)] ELSE queue

-----------------------------------------------------------------------------
(* Connecting *)

\* protect_ddos_request_count
Allowed(g) == count[g] < MaxRequests
CountRequest(g) == count' = [count EXCEPT ![g] = @ + 1]

Admissible(c) == Cardinality(Members(room[c])) < MaxConnections /\ Allowed(room[c])

Connect(c) ==
  /\ phase[c] = "new" /\ Admissible(c)
  /\ CountRequest(room[c])
  /\ \E q \in Orders(Peers(c)) : todo' = [todo EXCEPT ![c] = q]
  /\ snapshot' = [snapshot EXCEPT ![c] = [d \in Clients |-> IF d \in Peers(c) THEN info[d] ELSE 0]]
  /\ info' = [info EXCEPT ![c] = 1]
  /\ phase' = [phase EXCEPT ![c] = "joining"]
  /\ UNCHANGED <<room, recvVars, queue, known>>

Refuse(c) ==
  /\ phase[c] = "new" /\ ~Admissible(c)
  /\ phase' = [phase EXCEPT ![c] = "refused"]
  /\ UNCHANGED <<room, snapshot, todo, recvVars, info, queue, count, known>>

\* Faulty: a Join is dropped when the peer's queue is full (try_send).
TryTellJoin(c) ==
  /\ phase[c] = "joining" /\ todo[c] # <<>>
  /\ IF Ready(Head(todo[c])) THEN Push(Head(todo[c]), Msg("join", c, 1)) ELSE UNCHANGED queue
  /\ todo' = [todo EXCEPT ![c] = Tail(@)]
  /\ UNCHANGED <<phase, room, snapshot, recvVars, info, count, known>>

TellJoin(c) ==
  /\ phase[c] = "joining" /\ todo[c] # <<>> /\ Ready(Head(todo[c]))
  /\ Push(Head(todo[c]), Msg("join", c, 1))
  /\ todo' = [todo EXCEPT ![c] = Tail(@)]
  /\ UNCHANGED <<phase, room, snapshot, recvVars, info, count, known>>

\* The Hello goes through the connection's own queue, which nobody reads
\* until the two tasks are spawned right after.
Greet(c) ==
  /\ phase[c] = "joining" /\ todo[c] = <<>> /\ Ready(c)
  /\ Push(c, Msg("hello", c, 1))
  /\ phase' = [phase EXCEPT ![c] = "serving"]
  /\ recv' = [recv EXCEPT ![c] = "reading"]
  /\ UNCHANGED <<room, snapshot, todo, rtodo, rmsg, info, count, known>>

-----------------------------------------------------------------------------
(* The send task, and what the client makes of its messages *)

\* A Left has version 0, which is to be forgotten.
Learn(c, m) ==
  [d \in Clients |->
     IF m.kind \in News \cup {"left"} /\ d = m.peer THEN m.info
     ELSE IF m.kind = "hello" /\ snapshot[c][d] > 0 THEN snapshot[c][d]
     ELSE known[c][d]]

Deliver(c) ==
  /\ phase[c] = "serving" /\ queue[c] # <<>>
  /\ known' = [known EXCEPT ![c] = Learn(c, Head(queue[c]))]
  /\ queue' = [queue EXCEPT ![c] = Tail(@)]
  /\ UNCHANGED <<mainVars, recvVars, info, count>>

-----------------------------------------------------------------------------
(* The recv task *)

Start(c, m, q) ==
  /\ rmsg' = [rmsg EXCEPT ![c] = m]
  /\ rtodo' = [rtodo EXCEPT ![c] = q]
  /\ recv' = [recv EXCEPT ![c] = "sending"]

\* send_update_to_other_peers_with_lock
Update(c) ==
  /\ recv[c] = "reading" /\ Allowed(room[c]) /\ info[c] < MaxInfo
  /\ CountRequest(room[c])
  /\ IF info[c] > 0
       THEN /\ info' = [info EXCEPT ![c] = @ + 1]
            /\ \E q \in Orders(Peers(c)) : Start(c, Msg("update", c, info[c] + 1), q)
       ELSE UNCHANGED <<info, recvVars>>
  /\ UNCHANGED <<mainVars, queue, known>>

\* send_to_peer_with_lock: an offer or an answer; an unknown target is ignored.
Signal(c, target) ==
  /\ recv[c] = "reading" /\ Allowed(room[c])
  /\ CountRequest(room[c])
  /\ IF target \in Members(room[c])
       THEN Start(c, Msg("signal", c, 1), <<target>>)
       ELSE UNCHANGED recvVars
  /\ UNCHANGED <<mainVars, info, queue, known>>

\* A request and its locals are dropped.
Forget(c) ==
  /\ rmsg' = [rmsg EXCEPT ![c] = NoMsg(c)]
  /\ rtodo' = [rtodo EXCEPT ![c] = <<>>]

TooMany(c) ==
  /\ recv[c] = "reading" /\ ~Allowed(room[c])
  /\ Start(c, Msg("error", c, 1), <<c>>)
  /\ UNCHANGED <<mainVars, info, queue, count, known>>

\* Faulty: an Update is dropped when the peer's queue is full (try_send).
TryTellPeer(c) ==
  /\ recv[c] = "sending" /\ rtodo[c] # <<>>
  /\ IF Ready(Head(rtodo[c])) THEN Push(Head(rtodo[c]), rmsg[c]) ELSE UNCHANGED queue
  /\ rtodo' = [rtodo EXCEPT ![c] = Tail(@)]
  /\ UNCHANGED <<mainVars, recv, rmsg, info, count, known>>

TellPeer(c) ==
  /\ recv[c] = "sending" /\ rtodo[c] # <<>> /\ Ready(Head(rtodo[c]))
  /\ Push(Head(rtodo[c]), rmsg[c])
  /\ rtodo' = [rtodo EXCEPT ![c] = Tail(@)]
  /\ UNCHANGED <<mainVars, recv, rmsg, info, count, known>>

\* The request is done; one over the limit ends the task, "late" when the
\* connection was closed before.
Done(c) ==
  /\ recv[c] = "sending" /\ rtodo[c] = <<>>
  /\ recv' = [recv EXCEPT ![c] = IF rmsg[c].kind # "error" THEN "reading"
                                 ELSE IF phase[c] = "serving" THEN "over" ELSE "late"]
  /\ Forget(c)
  /\ UNCHANGED <<mainVars, info, queue, count, known>>

-----------------------------------------------------------------------------
(* Disconnecting *)

\* A recv task that waits for room in a queue.
Stalled(c) == recv[c] = "sending" /\ rtodo[c] # <<>> /\ ~Ready(Head(rtodo[c]))

\* One of the tasks ends (the socket is closed or fails, the limit is
\* exceeded) and the other is aborted.  An aborted recv task that is not
\* suspended runs on to its next await point.
Close(c) ==
  /\ phase[c] = "serving"
  /\ phase' = [phase EXCEPT ![c] = "closing"]
  /\ queue' = [queue EXCEPT ![c] = <<>>]
  /\ \/ recv' = [recv EXCEPT ![c] = "over"] /\ Forget(c)
     \/ recv[c] \in {"reading", "sending"} /\ ~Stalled(c) /\ UNCHANGED recvVars
  /\ snapshot' = [snapshot EXCEPT ![c] = Nothing]
  /\ known' = [known EXCEPT ![c] = Nothing]
  /\ UNCHANGED <<room, todo, info, count>>

\* The abort takes effect.
Abort(c) ==
  /\ phase[c] \in {"closing", "leaving"} /\ recv[c] \in {"reading", "sending"}
  /\ recv' = [recv EXCEPT ![c] = "late"]
  /\ Forget(c)
  /\ UNCHANGED <<mainVars, info, queue, count, known>>

\* Faulty: only the peers found at registration are told.
UnregisterFromFound(c) ==
  /\ phase[c] = "closing"
  /\ info' = [info EXCEPT ![c] = 0]
  /\ \E q \in Orders({d \in Peers(c) : snapshot[c][d] > 0}) : todo' = [todo EXCEPT ![c] = q]
  /\ phase' = [phase EXCEPT ![c] = "leaving"]
  /\ UNCHANGED <<room, snapshot, recvVars, queue, count, known>>

Unregister(c) ==
  /\ phase[c] = "closing"
  /\ info' = [info EXCEPT ![c] = 0]
  /\ \E q \in Orders(Peers(c)) : todo' = [todo EXCEPT ![c] = q]
  /\ phase' = [phase EXCEPT ![c] = "leaving"]
  /\ UNCHANGED <<room, snapshot, recvVars, queue, count, known>>

TellLeft(c) ==
  /\ phase[c] = "leaving" /\ todo[c] # <<>> /\ Ready(Head(todo[c]))
  /\ Push(Head(todo[c]), Msg("left", c, 0))
  /\ todo' = [todo EXCEPT ![c] = Tail(@)]
  /\ UNCHANGED <<phase, room, snapshot, recvVars, info, count, known>>

\* The scheduler's hourly job (server/src/config/scheduler.rs).
ResetCounts ==
  /\ count' = [g \in Rooms |-> 0]
  /\ UNCHANGED <<mainVars, recvVars, info, queue, known>>

Main(c) == Connect(c) \/ Refuse(c) \/ TellJoin(c) \/ Greet(c) \/ Unregister(c) \/ TellLeft(c)
Recv(c) ==
  \/ Update(c) \/ TooMany(c) \/ TellPeer(c) \/ Done(c) \/ Abort(c)
  \/ \E target \in Clients : Signal(c, target)

Next == ResetCounts \/ \E c \in Clients : Main(c) \/ Recv(c) \/ Deliver(c) \/ Close(c)

Spec == Init /\ [][Next]_vars

\* The server's tasks go on, and a queue serves its waiting senders in turn
\* (the mpsc channel is fair), hence strong fairness for every send.  A client
\* reads its socket or loses it.  Clients connect, ask and leave as they like.
Fairness ==
  \A c \in Clients :
    /\ SF_vars(TellJoin(c) \/ Greet(c) \/ Unregister(c) \/ TellLeft(c))
    /\ SF_vars(TellPeer(c) \/ Done(c)) /\ WF_vars(Abort(c)) /\ WF_vars(Deliver(c))
    /\ WF_vars(recv[c] = "over" /\ Close(c))

FairSpec == Spec /\ Fairness

-----------------------------------------------------------------------------
(* Properties *)

Queued(c, kinds, d) == \E i \in DOMAIN queue[c] : queue[c][i].kind \in kinds /\ queue[c][i].peer = d

\* c and d are registered in one room, and c is reachable.
Together(c, d) == c # d /\ Open(c) /\ info[d] > 0 /\ room[c] = room[d]

HelloOwed(c) == phase[c] = "joining" \/ Queued(c, {"hello"}, c)

Informed(c, d) ==
  \/ known[c][d] > 0
  \/ Queued(c, News, d)
  \/ phase[d] = "joining" /\ c \in Elems(todo[d])
  \/ snapshot[c][d] > 0 /\ HelloOwed(c)

\* Whatever the order in which connections register, tell and are told, no
\* client misses a peer of its room: it knows the peer, or the Join, an Update
\* or the Hello that names the peer is queued for it or still to be sent.
NobodyMissed == \A c, d \in Clients : Together(c, d) => Informed(c, d)

\* The Joins and Updates of d that are queued for c.
NewsOf(c, d) == {i \in DOMAIN queue[c] : queue[c][i].kind \in News /\ queue[c][i].peer = d}

\* The last description of d that is queued for c, or else the one c has, is v.
LatestIs(c, d, v) ==
  \/ NewsOf(c, d) = {} /\ known[c][d] = v
  \/ \E i \in NewsOf(c, d) : queue[c][i].info = v /\ \A j \in NewsOf(c, d) : j <= i

\* The description c ends up with of a peer that registered after it is the
\* one in the room's table, as soon as the peer has told everybody: Joins and
\* Updates reach c in the order of the changes they report.
UpToDate ==
  \A c, d \in Clients : Together(c, d) /\ Open(d) /\ snapshot[c][d] = 0 =>
    \/ phase[d] = "joining" /\ c \in Elems(todo[d])
    \/ rmsg[d].kind = "update" /\ c \in Elems(rtodo[d])
    \/ LatestIs(c, d, info[d])

\* A peer that has left is forgotten by every client that registered before
\* it, once the Left on its way arrives; the exception is a peer whose recv
\* task ran on after the connection was closed.
Forgotten ==
  \A c, d \in Clients :
    /\ Open(c) /\ phase[d] = "leaving" /\ recv[d] = "over" /\ snapshot[c][d] = 0
    /\ known[c][d] > 0 \/ Queued(c, News, d)
    => c \in Elems(todo[d]) \/ Queued(c, {"left"}, d)

\* Nothing about a peer reaches a client of another room.
RoomsAreSeparate ==
  \A c \in Clients :
    /\ \A i \in DOMAIN queue[c] : room[queue[c][i].peer] = room[c]
    /\ \A d \in Clients : known[c][d] > 0 => room[d] = room[c]

\* What makes the above inductive.
Registered == \A c \in Clients : info[c] > 0 <=> phase[c] \in {"joining", "serving", "closing"}

SameRoom(c, q) == \A i \in DOMAIN q : room[q[i]] = room[c]

\* A message in the queue of c is about a peer of its room; a Join or an Update
\* describes it, and a Left comes from one that will not return.
Fits(m, c) ==
  /\ room[m.peer] = room[c]
  /\ m.kind \in News => m.info > 0
  /\ m.kind = "hello" => m.peer = c
  /\ m.kind = "left" => phase[m.peer] = "leaving" /\ m.info = 0

Addressed ==
  \A c \in Clients :
    /\ SameRoom(c, todo[c]) /\ SameRoom(c, rtodo[c])
    /\ \A i \in DOMAIN queue[c] : Fits(queue[c][i], c)
    /\ \A d \in Clients : snapshot[c][d] > 0 \/ known[c][d] > 0 => room[d] = room[c]

Requesting ==
  \A c \in Clients : rtodo[c] # <<>> =>
    /\ rmsg[c].peer = c /\ rmsg[c].kind \in {"update", "signal", "error"}
    /\ rmsg[c].kind = "update" => rmsg[c].info > 0

\* A room never holds more than MaxConnections connections, however joins and
\* departures interleave (ws_controller.rs checks and inserts under one lock).
RoomLimit == \A g \in Rooms : Cardinality(Members(g)) <= MaxConnections

IInv == TypeOK /\ Registered /\ Addressed /\ Requesting /\ NobodyMissed

\* What makes UpToDate and Forgotten inductive: a connection makes one request
\* at a time and none before it is served, what its Update tells is what the
\* table holds, and the last it tells is that it left.
OneRequest ==
  \A c \in Clients :
    /\ phase[c] \in {"new", "refused", "joining"} => recv[c] = "none"
    /\ phase[c] = "joining" => info[c] = 1
    /\ recv[c] # "sending" => rtodo[c] = <<>>
    /\ Open(c) /\ recv[c] = "sending" /\ rmsg[c].kind = "update" => rmsg[c].info = info[c]

\* A connection that is not served has nothing queued and told nothing.
Unplugged == \A c \in Clients : ~Open(c) => queue[c] = <<>> /\ known[c] = Nothing

LeftIsLast ==
  \A c, d \in Clients : phase[d] = "leaving" /\ recv[d] = "over" =>
    \A i, j \in DOMAIN queue[c] :
      queue[c][i].kind = "left" /\ queue[c][i].peer = d /\ j \in NewsOf(c, d) => j < i

TellingInv == OneRequest /\ Unplugged /\ LeftIsLast

\* The Hello can no longer be queued: nobody reads the queue before it is.
Jammed(c) == phase[c] = "joining" /\ Len(queue[c]) = QueueCap

\* Neither registered without having got its Hello, nor closed without having
\* told its room.
Settled(c) == phase[c] \notin {"joining", "closing"} /\ (phase[c] = "leaving" => todo[c] = <<>>)

\* As long as no connection is jammed, each one that registers is served, and
\* each one that closes tells its room and is gone.
Settles == [](\A c \in Clients : ~Jammed(c)) => \A c \in Clients : []<>Settled(c)

=============================================================================
