--------------------------- MODULE ServerLifecycle ---------------------------
(***************************************************************************)
(* Starting, stopping and watching the receive server.  The application    *)
(* (ServerService) sends tasks to the server isolate, which handles them   *)
(* concurrently and keeps at most one Rust server (HttpServerService); a   *)
(* Rust server holds its port until its listener is dropped and ends when  *)
(* its last connection is.  Users and a watchdog call the service; nothing *)
(* makes one call wait for another.                                        *)
(***************************************************************************)
EXTENDS Sequences

CONSTANTS Users,     \* calls of users, one each
          Watchdog,  \* the call of the watchdog, which it makes again and again
          Servers,   \* names for Rust servers, reused once a server has ended
          Conns,     \* connections that other devices can have at a time
          None

Calls == Users \cup {Watchdog}

ASSUME LifecycleAssumption ==
    Watchdog \notin Users /\ None \notin Servers

VARIABLES shown,      \* whether the application has a ServerState
          share,      \* ... with a share link
          transfer,   \* ... with a transfer in progress
          shouldRun,  \* _shouldRun
          call,       \* where each call is
          goal,       \* what it does once the server is stopped
          watch,      \* where the check of the watchdog is
          dead,       \* whether nothing answered when its probe began
          toChild,    \* tasks on their way to the server isolate
          toMain,     \* results on their way back
          child,      \* _server of HttpServerService
          binding,    \* start tasks that wait for the Rust server
          ending,     \* the Rust server each stop task waits for
          server,     \* what each Rust server is
          conn,       \* where each connection is ...
          host,       \* ... and the server that accepted it
          foreign     \* whether another program holds the port

appVars   == <<shown, share, transfer, shouldRun>>
callVars  == <<call, goal>>
watchVars == <<watch, dead>>
wires     == <<toChild, toMain>>
childVars == <<child, binding, ending>>
connVars  == <<conn, host>>
outside   == <<server, connVars, foreign>>
vars == <<appVars, callVars, watchVars, wires, childVars, outside>>

Init ==
    /\ shown = FALSE /\ share = FALSE /\ transfer = FALSE /\ shouldRun = FALSE
    /\ call = [c \in Calls |-> "idle"] /\ goal = [c \in Calls |-> "stop"]
    /\ watch = "resting" /\ dead = FALSE
    /\ toChild = <<>> /\ toMain = <<>>
    /\ child = None /\ binding = {} /\ ending = [c \in Calls |-> None]
    /\ server = [s \in Servers |-> "none"] /\ foreign \in BOOLEAN
    /\ conn = [k \in Conns |-> "none"] /\ host = [k \in Conns |-> None]

Holding   == {s \in Servers : server[s] \in {"up", "waiting", "deaf", "stopping"}}
Answering == \E s \in Servers : server[s] = "up"
Busy      == shown /\ (share \/ transfer)

-----------------------------------------------------------------------------
(* ServerService                                                           *)

SendTask(kind, c) == toChild' = Append(toChild, [kind |-> kind, call |-> c])

Starts(c) ==
    /\ shouldRun' = TRUE
    /\ SendTask("start", c)
    /\ call' = [call EXCEPT ![c] = "starting"]

(* stopServer: the state is kept until the server has stopped.             *)
Stops(c, next) ==
    /\ shouldRun' = FALSE
    /\ SendTask("stop", c)
    /\ call' = [call EXCEPT ![c] = "stopping"]
    /\ goal' = [goal EXCEPT ![c] = next]

(* A start looks at the state before it waits, and never again.            *)
StartServer(c) ==
    /\ call[c] = "idle" /\ ~shown
    /\ Starts(c)
    /\ goal' = [goal EXCEPT ![c] = "start"]
    /\ UNCHANGED <<shown, share, transfer, watchVars, toMain, childVars, outside>>

(* A stop is offered while a server is shown; a restart also comes from    *)
(* the page of the share link, which brings up a server of its own and     *)
(* puts the usual one back when it closes.                                 *)
StopServer(c) ==
    /\ call[c] = "idle" /\ shown
    /\ Stops(c, "stop")
    /\ UNCHANGED <<shown, share, transfer, watchVars, toMain, childVars, outside>>

RestartServer(c) ==
    /\ call[c] = "idle"
    /\ \E next \in {"start", "share"} : Stops(c, next)
    /\ UNCHANGED <<shown, share, transfer, watchVars, toMain, childVars, outside>>

(* A call has returned: the watchdog's is made again.                      *)
Returned(c) ==
    /\ call' = [call EXCEPT ![c] = IF c = Watchdog THEN "idle" ELSE "done"]
    /\ IF c = Watchdog THEN watch' = "resting" /\ dead' = FALSE ELSE UNCHANGED watchVars

\* Faulty: the state is kept for the restart that follows.
TakeStoppedKeeping ==
    /\ toMain # <<>> /\ Head(toMain).kind = "stopped"
    /\ LET c == Head(toMain).call
       IN  IF goal[c] = "stop"
           THEN /\ Returned(c)
                /\ shown' = FALSE /\ share' = FALSE /\ transfer' = FALSE
                /\ UNCHANGED <<shouldRun, toChild>>
           ELSE Starts(c) /\ UNCHANGED <<shown, share, transfer, watchVars>>
    /\ toMain' = Tail(toMain)
    /\ UNCHANGED <<goal, childVars, outside>>

(* The server has stopped; a restart goes on with the start in the same    *)
(* turn of the event loop.                                                 *)
TakeStopped ==
    /\ toMain # <<>> /\ Head(toMain).kind = "stopped"
    /\ shown' = FALSE /\ share' = FALSE /\ transfer' = FALSE
    /\ LET c == Head(toMain).call
       IN  IF goal[c] = "stop"
           THEN /\ Returned(c)
                /\ UNCHANGED <<shouldRun, toChild>>
           ELSE Starts(c) /\ UNCHANGED watchVars
    /\ toMain' = Tail(toMain)
    /\ UNCHANGED <<goal, childVars, outside>>

TakeStarted ==
    /\ toMain # <<>> /\ Head(toMain).kind = "started"
    /\ LET c == Head(toMain).call
       IN  share' = (goal[c] = "share") /\ Returned(c)
    /\ shown' = TRUE /\ transfer' = FALSE
    /\ toMain' = Tail(toMain)
    /\ UNCHANGED <<shouldRun, goal, toChild, childVars, outside>>

(* A start that failed changes nothing the user sees.                      *)
TakeError ==
    /\ toMain # <<>> /\ Head(toMain).kind = "error"
    /\ Returned(Head(toMain).call)
    /\ toMain' = Tail(toMain)
    /\ UNCHANGED <<appVars, goal, toChild, childVars, outside>>

-----------------------------------------------------------------------------
(* The server isolate: tasks are taken in order and handled concurrently.  *)

Reply(kind, c) == toMain' = Append(toMain, [kind |-> kind, call |-> c])

HandleStart ==
    /\ toChild # <<>> /\ Head(toChild).kind = "start"
    /\ LET c == Head(toChild).call
       IN  IF child = None
           THEN binding' = binding \cup {c} /\ UNCHANGED toMain
           ELSE Reply("error", c) /\ UNCHANGED binding
    /\ toChild' = Tail(toChild)
    /\ UNCHANGED <<appVars, callVars, watchVars, child, ending, outside>>

\* Faulty: a port that a server of this program holds can be bound again.
PortShared == ~foreign

PortFree == Holding = {} /\ ~foreign

(* start_with_port: the port is free or it is not.  The isolate keeps the  *)
(* new server, whatever it kept before.                                    *)
Bind(c) ==
    /\ c \in binding
    /\ binding' = binding \ {c}
    /\ \/ /\ PortFree
          /\ \E s \in Servers :
                /\ server[s] = "none" /\ \A k \in Conns : host[k] # s
                /\ server' = [server EXCEPT ![s] = "up"]
                /\ child' = s
          /\ Reply("started", c)
       \/ /\ ~PortFree
          /\ Reply("error", c)
          /\ UNCHANGED <<server, child>>
    /\ UNCHANGED <<appVars, callVars, watchVars, toChild, ending, connVars, foreign>>

(* The server is forgotten before it has stopped: a second stop has        *)
(* nothing to wait for.                                                    *)
HandleStop ==
    /\ toChild # <<>> /\ Head(toChild).kind = "stop"
    /\ LET c == Head(toChild).call
       IN  IF child = None
           THEN Reply("stopped", c) /\ UNCHANGED <<ending, server>>
           ELSE /\ ending' = [ending EXCEPT ![c] = child]
                /\ server' = [server EXCEPT ![child] = "stopping"]
                /\ UNCHANGED toMain
    /\ child' = None
    /\ toChild' = Tail(toChild)
    /\ UNCHANGED <<appVars, callVars, watchVars, binding, connVars, foreign>>

(* The listeners are dropped first, then the connections.                  *)
CloseListener(s) ==
    /\ server[s] = "stopping"
    /\ server' = [server EXCEPT ![s] = "draining"]
    /\ UNCHANGED <<appVars, callVars, watchVars, wires, childVars, connVars, foreign>>

(* The connections the stop waits for: one that became a chat link belongs *)
(* to the hub.                                                             *)
Tracked(s) == {k \in Conns : host[k] = s /\ conn[k] \in {"handshake", "serving"}}

FinishStop(c) ==
    /\ ending[c] # None /\ server[ending[c]] = "draining" /\ Tracked(ending[c]) = {}
    /\ server' = [server EXCEPT ![ending[c]] = "none"]
    /\ ending' = [ending EXCEPT ![c] = None]
    /\ Reply("stopped", c)
    /\ UNCHANGED <<appVars, callVars, watchVars, toChild, child, binding, connVars, foreign>>

-----------------------------------------------------------------------------
(* The accept loop of a server and the connections it spawns a task for    *)

Loop(s, state) ==
    /\ server' = [server EXCEPT ![s] = state]
    /\ UNCHANGED <<appVars, callVars, watchVars, wires, childVars, connVars, foreign>>

(* An error of the listener never ends the loop: it sleeps, for longer and *)
(* longer, and tries again.  One of a single connection changes nothing.   *)
AcceptFails(s)  == server[s] = "up" /\ Loop(s, "waiting")
AcceptAgain(s)  == server[s] = "waiting" /\ Loop(s, "up")

(* The system takes the socket away, and may give it back.                 *)
Deafen(s) ==
    \/ server[s] \in {"up", "waiting"} /\ Loop(s, "deaf")
    \/ server[s] = "deaf" /\ Loop(s, "up")

Connection(k, at, s) ==
    /\ conn' = [conn EXCEPT ![k] = at] /\ host' = [host EXCEPT ![k] = s]
    /\ UNCHANGED <<appVars, callVars, watchVars, wires, childVars, server, foreign>>

AcceptConnection(k) ==
    /\ conn[k] = "none"
    /\ \E s \in Servers : server[s] = "up" /\ Connection(k, "handshake", s)

(* Without TLS there is no handshake to wait for.                          *)
Handshake(k) == conn[k] = "handshake" /\ Connection(k, "serving", host[k])

(* The handshake fails or takes too long, the peer hangs up or the         *)
(* keep-alive finds that it is gone.                                       *)
LoseConnection(k) == conn[k] # "none" /\ Connection(k, "none", None)

(* A request for the chat is upgraded if a hub is attached.                *)
Upgrade(k) == conn[k] = "serving" /\ Connection(k, "chat", host[k])

(* Whoever has a connection to a server that ends loses it.                *)
HardDrop(k) ==
    /\ conn[k] # "none" /\ server[host[k]] \in {"draining", "none"}
    /\ Connection(k, "none", None)

(* Another request begins a transfer, which the application is told of.    *)
BeginTransfer ==
    /\ shown /\ ~transfer
    /\ child # None /\ \E k \in Conns : conn[k] = "serving" /\ host[k] = child
    /\ transfer' = TRUE
    /\ UNCHANGED <<shown, share, shouldRun, callVars, watchVars, wires, childVars, outside>>

EndTransfer ==
    /\ transfer /\ transfer' = FALSE
    /\ UNCHANGED <<shown, share, shouldRun, callVars, watchVars, wires, childVars, outside>>

ForeignProgram ==
    /\ foreign \/ Holding = {}
    /\ foreign' = ~foreign
    /\ UNCHANGED <<appVars, callVars, watchVars, wires, childVars, server, connVars>>

-----------------------------------------------------------------------------
(* ReceiveWatchdog                                                         *)

(* recoverServer stops the server that is shown, if any, and starts one    *)
(* from the settings.                                                      *)
Recover ==
    /\ watch' = "recovering"
    /\ IF shown
       THEN Stops(Watchdog, "start")
       ELSE Starts(Watchdog) /\ goal' = [goal EXCEPT ![Watchdog] = "start"]
    /\ UNCHANGED <<shown, share, transfer, toMain, childVars, outside>>

BeginProbe(next) ==
    /\ watch' = next /\ dead' = ~(shown /\ Answering)
    /\ UNCHANGED <<appVars, callVars, wires, childVars, outside>>

\* Faulty: a server that is not running is left alone.
CheckRunning ==
    /\ watch = "resting"
    /\ shown /\ ~Busy /\ BeginProbe("probing")

(* The check of a desktop: the status is read once, then a server that is  *)
(* idle is probed.                                                         *)
Check ==
    /\ watch = "resting"
    /\ \/ ~shown /\ shouldRun /\ Recover /\ UNCHANGED dead
       \/ shown /\ ~Busy /\ BeginProbe("probing")

(* A phone returns from the background: the server is restarted unasked.   *)
Resume ==
    /\ watch = "resting"
    /\ shown /\ ~Busy
    /\ Recover /\ UNCHANGED dead

ProbeAnswered ==
    /\ watch \in {"probing", "probing again"} /\ Answering /\ ~dead
    /\ watch' = "resting"
    /\ UNCHANGED <<dead, appVars, callVars, wires, childVars, outside>>

(* Two probes in a row must fail; nothing is read again before the         *)
(* server is restarted.                                                    *)
ProbeFailed ==
    /\ dead \/ ~Answering
    /\ \/ watch = "probing" /\ BeginProbe("probing again")
       \/ watch = "probing again" /\ Recover /\ dead' = FALSE

-----------------------------------------------------------------------------
Main     == TakeStopped \/ TakeStarted \/ TakeError
Isolate  == HandleStart \/ HandleStop
Rust     == (\E c \in Calls : Bind(c) \/ FinishStop(c)) \/ (\E s \in Servers : CloseListener(s)) \/ \E k \in Conns : HardDrop(k)
World    == ForeignProgram \/ BeginTransfer \/ EndTransfer
            \/ \E s \in Servers : AcceptFails(s) \/ AcceptAgain(s) \/ Deafen(s)
            \/ \E k \in Conns : AcceptConnection(k) \/ Handshake(k) \/ Upgrade(k) \/ LoseConnection(k)
User     == \E c \in Users : StartServer(c) \/ StopServer(c) \/ RestartServer(c)
Watching == Check \/ ProbeAnswered \/ ProbeFailed

Next == Main \/ Isolate \/ Rust \/ World \/ User \/ Watching \/ Resume

Spec == Init /\ [][Next]_vars

(* The event loops and the Rust runtime run, and the timer of the watchdog *)
(* fires again and again.  Nothing is owed by users, by the network or by  *)
(* other programs.                                                         *)
FairSpec ==
    /\ Spec
    /\ WF_vars(Main) /\ WF_vars(Isolate) /\ WF_vars(Watching)
    /\ \A c \in Calls : WF_vars(Bind(c)) /\ WF_vars(FinishStop(c))
    /\ \A s \in Servers : WF_vars(CloseListener(s))
    /\ \A k \in Conns : WF_vars(HardDrop(k))

-----------------------------------------------------------------------------
Quiet == \A c \in Calls : call[c] \in {"idle", "done"}

(* TypeOK: every variable has a value of its type.                         *)
TypeOK ==
    /\ shown \in BOOLEAN /\ share \in BOOLEAN /\ transfer \in BOOLEAN
    /\ shouldRun \in BOOLEAN /\ dead \in BOOLEAN /\ foreign \in BOOLEAN
    /\ call \in [Calls -> {"idle", "starting", "stopping", "done"}]
    /\ goal \in [Calls -> {"stop", "start", "share"}]
    /\ watch \in {"resting", "probing", "probing again", "recovering"}
    /\ toChild \in Seq([kind : {"start", "stop"}, call : Calls])
    /\ toMain \in Seq([kind : {"started", "stopped", "error"}, call : Calls])
    /\ child \in Servers \cup {None}
    /\ binding \subseteq Calls
    /\ ending \in [Calls -> Servers \cup {None}]
    /\ server \in [Servers -> {"none", "up", "waiting", "deaf", "stopping", "draining"}]
    /\ conn \in [Conns -> {"none", "handshake", "serving", "chat"}]
    /\ host \in [Conns -> Servers \cup {None}]
    /\ \A k \in Conns : conn[k] = "none" <=> host[k] = None

(* NoServerIsLost: whatever calls overlap, a Rust server that holds the    *)
(* port is the one the isolate knows, or one of the stops underway waits   *)
(* for its end: no listener is ever left that nobody can close, and nobody *)
(* is served by a server whose stop has returned                           *)
(* (http_server.dart 15-17 and 138-142: the server is kept after the bind  *)
(* and forgotten before the stop).                                         *)
NoServerIsLost ==
    /\ \A s, r \in Holding : s = r
    /\ \A s \in Servers :
          /\ server[s] \in {"up", "waiting", "deaf"} => child = s
          /\ server[s] \in {"stopping", "draining"} => \E c \in Calls : ending[c] = s
          /\ server[s] = "none" => Tracked(s) = {}

(* ShownIsServed: once every call has returned, "ready to receive" is      *)
(* shown only while the isolate has a server behind it, although results   *)
(* of overlapping calls arrive in an order nobody chose (server_provider   *)
(* 190-212 and 237-244).                                                   *)
ShownIsServed == Quiet /\ shown => child # None

(* The application shows no server, the isolate has one: every start fails *)
(* because "Server already running", and no stop is made before a start    *)
(* that finds no state.                                                    *)
Apart == Quiet /\ ~shown /\ child # None

ReceptionWorks == shown /\ Answering

(* ReceptionIsRepaired: a server that should run is brought back again and *)
(* again, whatever the network, other programs and overlapping calls do to *)
(* it: unless a transfer or a share link keeps the watchdog away, another  *)
(* program holds the port, or the application and the isolate have come    *)
(* apart (receive_watchdog.dart 232-257).                                  *)
ReceptionIsRepaired ==
    []<>(ReceptionWorks \/ ~shouldRun \/ Busy \/ foreign \/ Apart)
=============================================================================
