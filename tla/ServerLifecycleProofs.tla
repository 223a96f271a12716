------------------------ MODULE ServerLifecycleProofs ------------------------
(***************************************************************************)
(* For any number of calls, connections and Rust servers: no listener is   *)
(* left that nobody can close, and what is shown is served.                *)
(*                                                                         *)
(* A call is in one place at a time - on its way to the isolate, binding,  *)
(* waiting for a server to end, or on its way back - so that no stop       *)
(* overwrites the server another one waits for.  The server the isolate    *)
(* knows is one that holds the port, so that a start that wins the port    *)
(* overwrites nothing.  And a server that was shown and is gone is owed a  *)
(* "stopped" that arrives after every "started".                           *)
(***************************************************************************)
EXTENDS ServerLifecycle, SequenceTheorems, TLAPS

Underway(c) == call[c] \in {"starting", "stopping"}

\* The calls a queue has a message of, one each.
CallsOf(q)  == {q[i].call : i \in DOMAIN q}
Distinct(q) == \A i, j \in DOMAIN q : q[i].call = q[j].call => i = j

Awaiting == {c \in Calls : ending[c] # None}

\* A call is in one place.
OnePlace ==
    /\ Distinct(toChild) /\ Distinct(toMain)
    /\ \A c \in CallsOf(toChild) \cup CallsOf(toMain) \cup binding \cup Awaiting : Underway(c)
    /\ CallsOf(toChild) \cap (CallsOf(toMain) \cup binding \cup Awaiting) = {}
    /\ CallsOf(toMain) \cap (binding \cup Awaiting) = {}
    /\ binding \cap Awaiting = {}
    /\ Underway(Watchdog) <=> watch = "recovering"
    /\ call[Watchdog] # "done"

\* Servers, the one that is known and those that are waited for.
Known ==
    /\ \A s, r \in Holding : s = r
    /\ child # None => server[child] \in {"up", "waiting", "deaf"}
    /\ \A s \in Servers : server[s] \in {"up", "waiting", "deaf"} => child = s
    /\ \A c \in Calls : ending[c] # None => server[ending[c]] \in {"stopping", "draining"}
    /\ \A s \in Servers : server[s] \in {"stopping", "draining"} => \E c \in Calls : ending[c] = s
    /\ \A c, d \in Calls : ending[c] = ending[d] /\ ending[c] # None => c = d
    /\ \A s \in Servers : server[s] = "none" => Tracked(s) = {}

\* The last word about a server that is gone is still to come.
Owed ==
    child = None /\ (shown \/ \E i \in DOMAIN toMain : toMain[i].kind = "started") =>
        \/ \E c \in Calls : ending[c] # None
        \/ \E i \in DOMAIN toMain :
              /\ toMain[i].kind = "stopped"
              /\ \A j \in DOMAIN toMain : toMain[j].kind = "started" => j < i

IInv == TypeOK /\ OnePlace /\ Known /\ Owed

Task   == [kind : {"start", "stop"}, call : Calls]
Result == [kind : {"started", "stopped", "error"}, call : Calls]

-----------------------------------------------------------------------------
(* Queues with one message of each call                                    *)

LEMMA CallAdded ==
  ASSUME NEW S, NEW q \in Seq(S), NEW m \in S, Distinct(q), m.call \notin CallsOf(q)
  PROVE  Distinct(Append(q, m)) /\ CallsOf(Append(q, m)) = CallsOf(q) \cup {m.call}
<1> DEFINE r == Append(q, m)
<1>1. /\ DOMAIN r = 1 .. (Len(q) + 1) /\ DOMAIN q = 1 .. Len(q) /\ Len(q) \in Nat
      /\ \A i \in DOMAIN q : r[i] = q[i]
      /\ r[Len(q) + 1] = m
  BY AppendProperties, LenProperties
<1>2. \A i \in DOMAIN r : i \in DOMAIN q \/ i = Len(q) + 1
  BY <1>1
<1>3. Len(q) + 1 \in DOMAIN r /\ \A i \in DOMAIN q : i \in DOMAIN r
  BY <1>1
<1> HIDE DEF r
<1>4. Distinct(r)
  BY <1>1, <1>2 DEF Distinct, CallsOf
<1>5. CallsOf(r) = CallsOf(q) \cup {m.call}
  BY <1>1, <1>2, <1>3 DEF CallsOf
<1> QED
  BY <1>4, <1>5 DEF r

LEMMA CallTaken ==
  ASSUME NEW S, NEW q \in Seq(S), q # <<>>, Distinct(q)
  PROVE  /\ Distinct(Tail(q)) /\ CallsOf(Tail(q)) = CallsOf(q) \ {Head(q).call}
         /\ Head(q).call \in CallsOf(q)
<1> DEFINE r == Tail(q)
<1>1. /\ \A i \in DOMAIN r : i + 1 \in DOMAIN q /\ r[i] = q[i + 1]
      /\ \A i \in DOMAIN q : i # 1 => i - 1 \in DOMAIN r /\ r[i - 1] = q[i]
      /\ 1 \in DOMAIN q /\ q[1] = Head(q) /\ DOMAIN r = 1 .. (Len(q) - 1)
  BY HeadTailProperties, LenProperties
<1>2. \A i \in DOMAIN r : i + 1 # 1 /\ i \in Nat
  BY <1>1
<1> HIDE DEF r
<1>3. Distinct(r)
  <2> SUFFICES ASSUME NEW i \in DOMAIN r, NEW j \in DOMAIN r, r[i].call = r[j].call
               PROVE  i = j
    BY DEF Distinct
  <2>1. i + 1 = j + 1
    BY <1>1 DEF Distinct
  <2> QED
    BY <1>2, <2>1
<1>4. CallsOf(r) = CallsOf(q) \ {Head(q).call}
  BY <1>1, <1>2 DEF CallsOf, Distinct
<1> QED
  BY <1>1, <1>3, <1>4 DEF r, CallsOf

-----------------------------------------------------------------------------
LEMMA InitInv == Init => IInv
<1> SUFFICES ASSUME Init PROVE IInv
  OBVIOUS
<1> USE LifecycleAssumption DEF LifecycleAssumption, Init, Calls
<1>1. TypeOK
  <2>1. toChild \in Seq([kind : {"start", "stop"}, call : Calls])
        /\ toMain \in Seq([kind : {"started", "stopped", "error"}, call : Calls])
    OBVIOUS
  <2> QED
    BY <2>1 DEF TypeOK
<1>2. OnePlace
  BY DEF OnePlace, Distinct, CallsOf, Awaiting, Underway
<1>3. Known
  BY DEF Known, Holding, Tracked
<1>4. Owed
  BY DEF Owed
<1> QED
  BY <1>1, <1>2, <1>3, <1>4 DEF IInv

\* Who calls is not underway yet.
LEMMA NobodyTwice ==
  ASSUME TypeOK, OnePlace, NEW c \in Calls, ~Underway(c)
  PROVE  c \notin CallsOf(toChild) \cup CallsOf(toMain) \cup binding \cup Awaiting
BY DEF OnePlace

\* A call sends its task.
Sends(c) ==
    /\ \E m \in Task : m.call = c /\ toChild' = Append(toChild, m)
    /\ call' \in [Calls -> {"idle", "starting", "stopping", "done"}]
    /\ call'[c] \in {"starting", "stopping"}
    /\ \A d \in Calls : d # c => call'[d] = call[d]
    /\ goal' \in [Calls -> {"stop", "start", "share"}] /\ shouldRun' \in BOOLEAN

LEMMA CallsSend ==
  ASSUME TypeOK, NEW c \in Calls
  PROVE  /\ StartServer(c) \/ StopServer(c) \/ RestartServer(c) => Sends(c) /\ ~Underway(c)
         /\ TakeStopped /\ c = Head(toMain).call /\ goal[c] # "stop" => Sends(c)
<1>1. ASSUME Starts(c), goal' = goal \/ goal' = [goal EXCEPT ![c] = "start"]
      PROVE  Sends(c)
  <2>1. [kind |-> "start", call |-> c] \in Task
    BY DEF Task
  <2> QED
    BY <1>1, <2>1 DEF Starts, SendTask, Sends, TypeOK
<1>2. ASSUME NEW next \in {"stop", "start", "share"}, Stops(c, next) PROVE Sends(c)
  <2>1. [kind |-> "stop", call |-> c] \in Task
    BY DEF Task
  <2> QED
    BY <1>2, <2>1 DEF Stops, SendTask, Sends, TypeOK
<1>3. StartServer(c) \/ StopServer(c) \/ RestartServer(c) => Sends(c) /\ ~Underway(c)
  BY <1>1, <1>2 DEF StartServer, StopServer, RestartServer, Underway
<1>4. TakeStopped /\ c = Head(toMain).call /\ goal[c] # "stop" => Sends(c)
  BY <1>1 DEF TakeStopped
<1> QED
  BY <1>3, <1>4

LEMMA WatchdogSends ==
  ASSUME TypeOK, Recover
  PROVE  Sends(Watchdog) /\ watch' = "recovering"
<1> DEFINE c == Watchdog
<1>1. c \in Calls
  BY DEF Calls
<1>2. ASSUME NEW kind \in {"start", "stop"} PROVE [kind |-> kind, call |-> c] \in Task
  BY <1>1 DEF Task
<1>3. [kind |-> "start", call |-> c] \in Task /\ [kind |-> "stop", call |-> c] \in Task
  BY <1>2
<1>4. CASE shown
  BY <1>1, <1>3, <1>4 DEF Recover, Stops, SendTask, Sends, TypeOK
<1>5. CASE ~shown
  BY <1>1, <1>3, <1>5 DEF Recover, Starts, SendTask, Sends, TypeOK
<1>6. watch' = "recovering"
  BY DEF Recover
<1> QED
  BY <1>4, <1>5, <1>6

\* A result reaches the application.
LEMMA ResultTaken ==
  ASSUME TypeOK, OnePlace, toMain # <<>>, toMain' = Tail(toMain)
  PROVE  /\ Head(toMain) \in Result /\ toMain' \in Seq(Result)
         /\ Distinct(toMain') /\ CallsOf(toMain') = CallsOf(toMain) \ {Head(toMain).call}
         /\ Head(toMain).call \in CallsOf(toMain) /\ Head(toMain).call \in Calls
<1>1. toMain \in Seq(Result)
  BY DEF TypeOK, Result
<1>2. Head(toMain) \in Result /\ toMain' \in Seq(Result)
  BY <1>1, HeadTailProperties, LenProperties
<1>3. Head(toMain).call \in Calls
  BY <1>2 DEF Result
<1> QED
  BY <1>1, <1>2, <1>3, CallTaken DEF OnePlace

LEMMA TaskTaken ==
  ASSUME TypeOK, OnePlace, toChild # <<>>, toChild' = Tail(toChild)
  PROVE  /\ Head(toChild) \in Task /\ toChild' \in Seq(Task)
         /\ Distinct(toChild') /\ CallsOf(toChild') = CallsOf(toChild) \ {Head(toChild).call}
         /\ Head(toChild).call \in CallsOf(toChild) /\ Head(toChild).call \in Calls
<1>1. toChild \in Seq(Task)
  BY DEF TypeOK, Task
<1>2. Head(toChild) \in Task /\ toChild' \in Seq(Task)
  BY <1>1, HeadTailProperties, LenProperties
<1>3. Head(toChild).call \in Calls
  BY <1>2 DEF Task
<1> QED
  BY <1>1, <1>2, <1>3, CallTaken DEF OnePlace

LEMMA Replied ==
  ASSUME TypeOK, OnePlace, NEW c \in Calls, c \notin CallsOf(toMain),
         NEW kind \in {"started", "stopped", "error"}, Reply(kind, c)
  PROVE  /\ toMain' \in Seq(Result)
         /\ Distinct(toMain') /\ CallsOf(toMain') = CallsOf(toMain) \cup {c}
<1> DEFINE m == [kind |-> kind, call |-> c]
<1>1. m \in Result /\ m.call = c
  BY DEF Result
<1>2. toMain \in Seq(Result) /\ toMain' = Append(toMain, m)
  BY DEF TypeOK, Result, Reply
<1> HIDE DEF m
<1> QED
  BY <1>1, <1>2, CallAdded, AppendProperties, LenProperties DEF OnePlace

LEMMA Sent ==
  ASSUME TypeOK, OnePlace, NEW c \in Calls, c \notin CallsOf(toChild), Sends(c)
  PROVE  /\ toChild' \in Seq(Task)
         /\ Distinct(toChild') /\ CallsOf(toChild') = CallsOf(toChild) \cup {c}
         /\ Underway(c)' /\ \A d \in Calls : d # c => (Underway(d)' <=> Underway(d))
<1>1. PICK m \in Task : m.call = c /\ toChild' = Append(toChild, m)
  BY DEF Sends
<1>2. toChild \in Seq(Task)
  BY DEF TypeOK, Task
<1>3. toChild' \in Seq(Task) /\ Distinct(toChild') /\ CallsOf(toChild') = CallsOf(toChild) \cup {c}
  BY <1>1, <1>2, CallAdded, AppendProperties, LenProperties DEF OnePlace
<1> QED
  BY <1>3 DEF Sends, Underway

LEMMA CallsTyped ==
  ASSUME TypeOK
  PROVE  CallsOf(toChild) \subseteq Calls /\ CallsOf(toMain) \subseteq Calls
         /\ binding \subseteq Calls /\ Awaiting \subseteq Calls
<1>1. toChild \in Seq(Task) /\ toMain \in Seq(Result)
  BY DEF TypeOK, Task, Result
<1>2. (\A i \in DOMAIN toChild : toChild[i] \in Task) /\ (\A i \in DOMAIN toMain : toMain[i] \in Result)
  BY <1>1
<1>3. (\A m \in Task : m.call \in Calls) /\ (\A m \in Result : m.call \in Calls)
  BY DEF Task, Result
<1>4. CallsOf(toChild) \subseteq Calls /\ CallsOf(toMain) \subseteq Calls
  BY <1>2, <1>3 DEF CallsOf
<1>5. binding \subseteq Calls /\ Awaiting \subseteq Calls
  BY DEF Awaiting, TypeOK
<1> QED
  BY <1>4, <1>5

-----------------------------------------------------------------------------
(* Types                                                                   *)

(* A call that is over, and what that leaves to the watchdog.              *)
LEMMA ReturnedType ==
  ASSUME TypeOK, NEW c \in Calls, Returned(c)
  PROVE  /\ call' \in [Calls -> {"idle", "starting", "stopping", "done"}]
         /\ watch' \in {"resting", "probing", "probing again", "recovering"} /\ dead' \in BOOLEAN
  BY DEF Returned, TypeOK, watchVars

LEMMA TypeStep == IInv /\ Next => TypeOK'
<1> SUFFICES ASSUME IInv, Next PROVE TypeOK'
  OBVIOUS
<1> USE LifecycleAssumption DEF LifecycleAssumption, IInv
<1>t. Watchdog \in Calls
  BY DEF Calls
<1>a. CASE TakeStopped
  <2> DEFINE c == Head(toMain).call
  <2>1. c \in Calls /\ toMain' \in Seq(Result)
    BY <1>a, ResultTaken DEF TakeStopped
  <2>2. CASE goal[c] = "stop"
    <3>1. call' \in [Calls -> {"idle", "starting", "stopping", "done"}]
          /\ watch' \in {"resting", "probing", "probing again", "recovering"} /\ dead' \in BOOLEAN
      BY <1>a, <2>1, <2>2, ReturnedType DEF TakeStopped
    <3>2. /\ shown' = FALSE /\ share' = FALSE /\ transfer' = FALSE
          /\ UNCHANGED <<shouldRun, goal, toChild, childVars, outside>>
      BY <1>a, <2>2 DEF TakeStopped
    <3> HIDE DEF c
    <3> QED
      BY <2>1, <3>1, <3>2 DEF TypeOK, Result, childVars, outside, connVars
  <2>3. CASE goal[c] # "stop"
    <3>1. Sends(c) /\ toChild' \in Seq(Task)
      <4>1. Sends(c)
        BY <1>a, <2>1, <2>3, CallsSend
      <4>2. toChild \in Seq(Task)
        BY DEF TypeOK, Task
      <4> QED
        BY <4>1, <4>2, AppendProperties, LenProperties DEF Sends
    <3>2. /\ call' = [call EXCEPT ![c] = "starting"] /\ shouldRun' = TRUE
          /\ shown' = FALSE /\ share' = FALSE /\ transfer' = FALSE
          /\ UNCHANGED <<goal, watchVars, childVars, outside>>
      BY <1>a, <2>3 DEF TakeStopped, Starts
    <3> HIDE DEF c
    <3> QED
      BY <2>1, <3>1, <3>2 DEF TypeOK, Task, Result, watchVars, childVars, outside, connVars
  <2> QED
    BY <2>2, <2>3
<1>b. CASE TakeStarted \/ TakeError
  <2>1. Head(toMain).call \in Calls /\ toMain' \in Seq(Result)
    BY <1>b, ResultTaken DEF TakeStarted, TakeError
  <2> QED
    <3>1. call' \in [Calls -> {"idle", "starting", "stopping", "done"}]
          /\ watch' \in {"resting", "probing", "probing again", "recovering"} /\ dead' \in BOOLEAN
      BY <1>b, <2>1, ReturnedType DEF TakeStarted, TakeError
    <3>2. /\ shown' \in BOOLEAN /\ share' \in BOOLEAN /\ transfer' \in BOOLEAN /\ shouldRun' \in BOOLEAN
          /\ UNCHANGED <<goal, toChild, childVars, outside>>
      BY <1>b DEF TakeStarted, TakeError, TypeOK, appVars
    <3> QED
      BY <2>1, <3>1, <3>2 DEF TypeOK, Result, childVars, outside, connVars
<1>c. CASE HandleStart
  <2> DEFINE c == Head(toChild).call
  <2>1. c \in Calls /\ toChild' \in Seq(Task) /\ c \notin CallsOf(toMain)
    BY <1>c, TaskTaken DEF HandleStart, OnePlace
  <2>2. CASE child = None
    <3>1. binding' \subseteq Calls /\ toMain' = toMain
      <4>1. binding' = binding \cup {c} /\ toMain' = toMain
        BY <1>c, <2>2 DEF HandleStart
      <4>2. binding \subseteq Calls
        BY DEF TypeOK
      <4> QED
        BY <2>1, <4>1, <4>2
    <3>2. UNCHANGED <<appVars, callVars, watchVars, child, ending, outside>>
      BY <1>c DEF HandleStart
    <3> HIDE DEF c
    <3> QED
      BY <2>1, <3>1, <3>2 DEF TypeOK, Task, appVars, callVars, watchVars, outside, connVars
  <2>3. CASE child # None
    <3>1. toMain' \in Seq(Result) /\ UNCHANGED binding
      BY <1>c, <2>1, <2>3, Replied DEF HandleStart
    <3> QED
      BY <1>c, <2>1, <3>1 DEF HandleStart, TypeOK, Task, Result, appVars, callVars, watchVars, outside,
                              connVars
  <2> QED
    BY <2>2, <2>3
<1>d. CASE HandleStop
  <2> DEFINE c == Head(toChild).call
  <2>1. c \in Calls /\ toChild' \in Seq(Task) /\ c \notin CallsOf(toMain)
    BY <1>d, TaskTaken DEF HandleStop, OnePlace
  <2>2. toMain' \in Seq(Result) /\ ending' \in [Calls -> Servers \cup {None}]
        /\ server' \in [Servers -> {"none", "up", "waiting", "deaf", "stopping", "draining"}]
    <3>0. /\ toMain \in Seq(Result) /\ ending \in [Calls -> Servers \cup {None}]
          /\ server \in [Servers -> {"none", "up", "waiting", "deaf", "stopping", "draining"}]
          /\ child \in Servers \cup {None}
      BY DEF TypeOK, Result
    <3>1. CASE child = None
      <4>1. toMain' \in Seq(Result)
        BY <1>d, <2>1, <3>1, Replied DEF HandleStop
      <4> QED
        BY <1>d, <3>0, <3>1, <4>1 DEF HandleStop
    <3>2. CASE child # None
      <4>1. toMain' = toMain /\ server' = [server EXCEPT ![child] = "stopping"]
            /\ ending' = [ending EXCEPT ![c] = child]
        BY <1>d, <3>2 DEF HandleStop
      <4> HIDE DEF c
      <4> QED
        BY <2>1, <3>0, <3>2, <4>1
    <3> QED
      BY <3>1, <3>2
  <2>3. child' = None /\ UNCHANGED <<appVars, callVars, watchVars, binding, connVars, foreign>>
    BY <1>d DEF HandleStop
  <2> HIDE DEF c
  <2> QED
    BY <2>1, <2>2, <2>3 DEF TypeOK, Task, Result, appVars, callVars, watchVars, connVars
<1>e. CASE \E c \in Calls : Bind(c)
  <2>1. PICK c \in Calls : Bind(c)
    BY <1>e
  <2>2. c \notin CallsOf(toMain)
    BY <2>1 DEF Bind, OnePlace
  <2>3. toMain' \in Seq(Result)
    BY <2>1, <2>2, Replied DEF Bind
  <2>4. /\ server' \in [Servers -> {"none", "up", "waiting", "deaf", "stopping", "draining"}]
        /\ child' \in Servers \cup {None} /\ binding' \subseteq Calls
    <3>1. binding' \subseteq Calls
      BY <2>1 DEF Bind, TypeOK
    <3>2. CASE PortFree
      <4>1. PICK s \in Servers : server' = [server EXCEPT ![s] = "up"] /\ child' = s
        BY <2>1, <3>2 DEF Bind
      <4>2. server \in [Servers -> {"none", "up", "waiting", "deaf", "stopping", "draining"}]
        BY DEF TypeOK
      <4> QED
        BY <3>1, <4>1, <4>2
    <3>3. CASE ~PortFree
      BY <2>1, <3>1, <3>3 DEF Bind, TypeOK
    <3> QED
      BY <3>2, <3>3
  <2> QED
    BY <2>1, <2>3, <2>4 DEF Bind, TypeOK, Result, appVars, callVars, watchVars, connVars
<1>f. CASE \E c \in Calls : FinishStop(c)
  <2>1. PICK c \in Calls : FinishStop(c)
    BY <1>f
  <2>2. c \notin CallsOf(toMain)
    BY <2>1 DEF FinishStop, OnePlace, Awaiting
  <2>3. toMain' \in Seq(Result)
    BY <2>1, <2>2, Replied DEF FinishStop
  <2> QED
    BY <2>1, <2>3 DEF FinishStop, TypeOK, Result, appVars, callVars, watchVars, connVars
<1>g. CASE \E s \in Servers : CloseListener(s) \/ AcceptFails(s) \/ AcceptAgain(s) \/ Deafen(s)
  <2>1. server' \in [Servers -> {"none", "up", "waiting", "deaf", "stopping", "draining"}]
    BY <1>g DEF CloseListener, AcceptFails, AcceptAgain, Deafen, Loop, TypeOK
  <2>2. UNCHANGED <<appVars, callVars, watchVars, wires, childVars, connVars, foreign>>
    BY <1>g DEF CloseListener, AcceptFails, AcceptAgain, Deafen, Loop
  <2> QED
    BY <2>1, <2>2 DEF TypeOK, appVars, callVars, watchVars, wires, childVars, connVars
<1>h. CASE \E k \in Conns : HardDrop(k) \/ AcceptConnection(k) \/ Handshake(k) \/ Upgrade(k) \/ LoseConnection(k)
  <2>1. PICK k \in Conns : HardDrop(k) \/ AcceptConnection(k) \/ Handshake(k) \/ Upgrade(k) \/ LoseConnection(k)
    BY <1>h
  <2>2. PICK at \in {"none", "handshake", "serving", "chat"}, s \in Servers \cup {None} :
           Connection(k, at, s) /\ (at = "none" <=> s = None)
    <3>1. host[k] \in Servers \cup {None} /\ (conn[k] = "none" <=> host[k] = None)
      BY DEF TypeOK
    <3>2. CASE HardDrop(k) \/ LoseConnection(k)
      BY <3>2 DEF HardDrop, LoseConnection
    <3>3. CASE AcceptConnection(k)
      BY <3>3, LifecycleAssumption DEF AcceptConnection
    <3>4. CASE Handshake(k)
      BY <3>1, <3>4 DEF Handshake
    <3>5. CASE Upgrade(k)
      BY <3>1, <3>5 DEF Upgrade
    <3> QED
      BY <2>1, <3>2, <3>3, <3>4, <3>5
  <2>3. /\ conn' \in [Conns -> {"none", "handshake", "serving", "chat"}]
        /\ host' \in [Conns -> Servers \cup {None}]
        /\ \A j \in Conns : conn'[j] = "none" <=> host'[j] = None
    BY <2>2 DEF Connection, TypeOK
  <2>4. UNCHANGED <<appVars, callVars, watchVars, wires, childVars, server, foreign>>
    BY <2>2 DEF Connection
  <2> QED
    BY <2>3, <2>4 DEF TypeOK, appVars, callVars, watchVars, wires, childVars
<1>i. CASE BeginTransfer \/ EndTransfer \/ ForeignProgram
  <2>1. transfer' \in BOOLEAN /\ foreign' \in BOOLEAN
    BY <1>i DEF BeginTransfer, EndTransfer, ForeignProgram, TypeOK, appVars, outside
  <2>2. UNCHANGED <<shown, share, shouldRun, callVars, watchVars, wires, childVars, server, connVars>>
    BY <1>i DEF BeginTransfer, EndTransfer, ForeignProgram, appVars, outside
  <2> QED
    BY <2>1, <2>2 DEF TypeOK, callVars, watchVars, wires, childVars, connVars
<1>j. CASE User
  <2>1. PICK c \in Calls : StartServer(c) \/ StopServer(c) \/ RestartServer(c)
    BY <1>j DEF User, Calls
  <2>2. Sends(c) /\ toChild' \in Seq(Task)
    <3>1. Sends(c) /\ c \notin CallsOf(toChild)
      BY <2>1, CallsSend, NobodyTwice
    <3> QED
      BY <3>1, Sent
  <2>3. UNCHANGED <<shown, share, transfer, watchVars, toMain, childVars, outside>>
    BY <2>1 DEF StartServer, StopServer, RestartServer
  <2> QED
    BY <2>2, <2>3 DEF Sends, TypeOK, Task, watchVars, childVars, outside, connVars
<1>k. CASE Recover /\ dead' \in BOOLEAN
  <2>1. Sends(Watchdog) /\ watch' = "recovering"
    BY <1>k, WatchdogSends
  <2>2. toChild' \in Seq(Task)
    <3>1. toChild \in Seq(Task)
      BY DEF TypeOK, Task
    <3> QED
      BY <2>1, <3>1, AppendProperties, LenProperties DEF Sends
  <2> QED
    BY <1>k, <2>1, <2>2 DEF Recover, Sends, TypeOK, Task, childVars, outside, connVars
<1>l. CASE BeginProbe("probing") \/ BeginProbe("probing again") \/ ProbeAnswered
  BY <1>l DEF BeginProbe, ProbeAnswered, TypeOK, appVars, callVars, wires, childVars, outside, connVars
<1>m. Watching \/ Resume =>
         (Recover /\ dead' \in BOOLEAN) \/ BeginProbe("probing") \/ BeginProbe("probing again") \/ ProbeAnswered
  BY DEF Watching, Check, Resume, ProbeFailed, TypeOK
<1> QED
  BY <1>a, <1>b, <1>c, <1>d, <1>e, <1>f, <1>g, <1>h, <1>i, <1>j, <1>k, <1>l, <1>m
  DEF Next, Main, Isolate, Rust, World

-----------------------------------------------------------------------------
(* A call is in one place                                                  *)

LEMMA SamePlaces ==
  ASSUME OnePlace, UNCHANGED <<toChild, toMain, binding, ending, call, watch>>
  PROVE  OnePlace'
BY DEF OnePlace, Distinct, CallsOf, Awaiting, Underway

LEMMA CallSent ==
  ASSUME IInv, NEW c \in Calls, Sends(c), ~Underway(c),
         toMain' = toMain, binding' = binding, ending' = ending,
         (c = Watchdog /\ watch' = "recovering") \/ (c # Watchdog /\ watch' = watch)
  PROVE  OnePlace'
<1> USE DEF IInv
<1>t. Watchdog \in Calls
  BY DEF Calls
<1>2. c \notin CallsOf(toChild) \cup CallsOf(toMain) \cup binding \cup Awaiting
  BY NobodyTwice
<1>3. /\ Distinct(toChild') /\ CallsOf(toChild') = CallsOf(toChild) \cup {c}
      /\ Underway(c)' /\ \A d \in Calls : d # c => (Underway(d)' <=> Underway(d))
  BY <1>2, Sent
<1>4. /\ Distinct(toMain)' /\ CallsOf(toMain)' = CallsOf(toMain)
      /\ binding' = binding /\ Awaiting' = Awaiting
  BY DEF OnePlace, Distinct, CallsOf, Awaiting
<1>5. call'[Watchdog] # "done"
  BY <1>t DEF OnePlace, Sends
<1>6. Underway(Watchdog)' <=> watch' = "recovering"
  BY <1>t, <1>3 DEF OnePlace
<1> DEFINE A == CallsOf(toChild)
           B == CallsOf(toMain)
<1>7. \A d \in A \cup B \cup binding \cup Awaiting \cup {c} : Underway(d)'
  BY <1>2, <1>3, CallsTyped DEF OnePlace
<1> QED
  BY <1>2, <1>3, <1>4, <1>5, <1>6, <1>7 DEF OnePlace

LEMMA PlacesStep == IInv /\ Next => OnePlace'
<1> SUFFICES ASSUME IInv, Next PROVE OnePlace'
  OBVIOUS
<1> USE LifecycleAssumption DEF LifecycleAssumption, IInv
<1>t. Watchdog \in Calls /\ Awaiting \subseteq Calls /\ binding \subseteq Calls
  BY DEF Calls, Awaiting, TypeOK
<1>b. CASE User
  <2>1. PICK c \in Users : StartServer(c) \/ StopServer(c) \/ RestartServer(c)
    BY <1>b DEF User
  <2>2. c \in Calls /\ c # Watchdog
    BY DEF Calls
  <2>3. Sends(c) /\ ~Underway(c)
    BY <2>1, <2>2, CallsSend
  <2>4. UNCHANGED <<toMain, binding, ending, watch>>
    BY <2>1 DEF StartServer, StopServer, RestartServer, watchVars, childVars
  <2> QED
    BY CallSent, <2>2, <2>3, <2>4
<1>c. CASE Watching \/ Resume
  <2>1. CASE Recover
    <3>1. watch # "recovering" /\ toMain' = toMain /\ binding' = binding /\ ending' = ending
      BY <1>c, <2>1 DEF Watching, Resume, Check, ProbeAnswered, ProbeFailed, Recover, BeginProbe, childVars
    <3>2. Sends(Watchdog) /\ watch' = "recovering"
      BY <2>1, WatchdogSends
    <3>3. ~Underway(Watchdog)
      BY <3>1 DEF OnePlace
    <3>4. PICK c \in Calls : c = Watchdog
      BY <1>t
    <3>5. Sends(c) /\ ~Underway(c)
      BY <3>2, <3>3, <3>4
    <3> QED
      BY CallSent, <3>1, <3>2, <3>4, <3>5
  <2>2. CASE ~Recover
    <3>1. /\ watch # "recovering" /\ watch' # "recovering"
          /\ UNCHANGED <<toChild, toMain, binding, ending, call>>
      BY <1>c, <2>2 DEF Watching, Resume, Check, ProbeAnswered, ProbeFailed, BeginProbe, callVars,
                        wires, childVars
    <3> QED
      BY <3>1 DEF OnePlace, Distinct, CallsOf, Awaiting, Underway
  <2> QED
    BY <2>1, <2>2
<1>d. CASE Main
  <2>0. PICK c \in Calls : c = Head(toMain).call
    BY <1>d, ResultTaken DEF Main, TakeStopped, TakeStarted, TakeError
  <2>1. /\ c \in CallsOf(toMain) /\ Underway(c)
        /\ Distinct(toMain') /\ CallsOf(toMain') = CallsOf(toMain) \ {c}
    BY <1>d, <2>0, ResultTaken DEF Main, TakeStopped, TakeStarted, TakeError, OnePlace
  <2>2. binding' = binding /\ ending' = ending /\ Awaiting' = Awaiting
    BY <1>d DEF Main, TakeStopped, TakeStarted, TakeError, childVars, Awaiting
  <2>3. c \notin CallsOf(toChild) /\ c \notin binding /\ c \notin Awaiting
    BY <2>1 DEF OnePlace
  <2>4. CASE TakeStopped /\ goal[c] # "stop"
    <3>1. Sends(c) /\ watch' = watch
      BY <2>0, <2>4, CallsSend DEF TakeStopped, watchVars
    <3>2. /\ Distinct(toChild') /\ CallsOf(toChild') = CallsOf(toChild) \cup {c}
          /\ Underway(c)' /\ \A d \in Calls : d # c => (Underway(d)' <=> Underway(d))
      BY <2>1, <2>3, <3>1, Sent
    <3>3. \A d \in Calls : Underway(d)' <=> Underway(d)
      BY <2>1, <3>2
    <3>4. \A d \in CallsOf(toChild) \cup CallsOf(toMain) \cup binding \cup Awaiting : Underway(d)'
      BY <3>3, CallsTyped DEF OnePlace
    <3>5. call'[Watchdog] # "done"
      BY <1>t, <2>1, <3>1 DEF OnePlace, Sends
    <3> QED
      BY <1>t, <2>1, <2>2, <2>3, <3>1, <3>2, <3>3, <3>4, <3>5 DEF OnePlace
  <2>5. CASE (TakeStopped /\ goal[c] = "stop") \/ TakeStarted \/ TakeError
    <3>1. Returned(c) /\ toChild' = toChild
      BY <2>0, <2>5 DEF TakeStopped, TakeStarted, TakeError
    <3>2. /\ call' = [call EXCEPT ![c] = IF c = Watchdog THEN "idle" ELSE "done"]
          /\ c = Watchdog => watch' = "resting"
          /\ c # Watchdog => watch' = watch
      BY <3>1 DEF Returned, watchVars
    <3>3. \A d \in Calls : d # c => call'[d] = call[d]
      BY <2>1, <3>2 DEF TypeOK
    <3>4. c = Watchdog => call'[Watchdog] = "idle"
      BY <1>t, <3>2 DEF TypeOK
    <3>5. \A d \in CallsOf(toChild) \cup (CallsOf(toMain) \ {c}) \cup binding \cup Awaiting : Underway(d)'
      BY <2>3, <3>3, CallsTyped DEF OnePlace, Underway
    <3>6. (Underway(Watchdog)' <=> watch' = "recovering") /\ call'[Watchdog] # "done"
      BY <1>t, <3>2, <3>3, <3>4 DEF OnePlace, Underway
    <3>7. Distinct(toChild)' /\ CallsOf(toChild)' = CallsOf(toChild)
      BY <3>1 DEF OnePlace, Distinct, CallsOf
    <3> QED
      BY <2>1, <2>2, <3>5, <3>6, <3>7 DEF OnePlace
  <2> QED
    BY <1>d, <2>4, <2>5 DEF Main
<1>e. CASE Isolate
  <2>0. PICK c \in Calls : c = Head(toChild).call
    BY <1>e, TaskTaken DEF Isolate, HandleStart, HandleStop
  <2>1. /\ c \in CallsOf(toChild) /\ Underway(c)
        /\ Distinct(toChild') /\ CallsOf(toChild') = CallsOf(toChild) \ {c}
    BY <1>e, <2>0, TaskTaken DEF Isolate, HandleStart, HandleStop, OnePlace
  <2>2. c \notin CallsOf(toMain) /\ c \notin binding /\ c \notin Awaiting
    BY <2>1 DEF OnePlace
  <2>3. call' = call /\ watch' = watch
    BY <1>e DEF Isolate, HandleStart, HandleStop, callVars, watchVars
  <2>4. CASE HandleStart /\ child = None
    <3>1. binding' = binding \cup {c} /\ toMain' = toMain /\ ending' = ending
      BY <2>0, <2>4 DEF HandleStart
    <3>2. Distinct(toMain)' /\ CallsOf(toMain)' = CallsOf(toMain) /\ Awaiting' = Awaiting
      BY <3>1 DEF OnePlace, Distinct, CallsOf, Awaiting
    <3> QED
      BY <2>1, <2>2, <2>3, <3>1, <3>2 DEF OnePlace, Underway
  <2>5. CASE (HandleStart /\ child # None) \/ (HandleStop /\ child = None)
    <3>1. \E kind \in {"started", "stopped", "error"} : Reply(kind, c)
      BY <2>0, <2>5 DEF HandleStart, HandleStop
    <3>2. binding' = binding /\ Awaiting' = Awaiting
      BY <2>5 DEF HandleStart, HandleStop, Awaiting
    <3>3. Distinct(toMain') /\ CallsOf(toMain') = CallsOf(toMain) \cup {c}
      BY <2>1, <2>2, <3>1, Replied
    <3> QED
      BY <2>1, <2>2, <2>3, <3>2, <3>3 DEF OnePlace, Underway
  <2>6. CASE HandleStop /\ child # None
    <3>1. binding' = binding /\ toMain' = toMain /\ ending' = [ending EXCEPT ![c] = child]
      BY <2>0, <2>6 DEF HandleStop
    <3>2. Awaiting' = Awaiting \cup {c}
      BY <2>1, <2>6, <3>1 DEF Awaiting, TypeOK
    <3>3. Distinct(toMain)' /\ CallsOf(toMain)' = CallsOf(toMain)
      BY <3>1 DEF OnePlace, Distinct, CallsOf
    <3> QED
      BY <2>1, <2>2, <2>3, <3>1, <3>2, <3>3 DEF OnePlace, Underway
  <2> QED
    BY <1>e, <2>4, <2>5, <2>6 DEF Isolate
<1>f. CASE \E c \in Calls : Bind(c) \/ FinishStop(c)
  <2>1. PICK c \in Calls : Bind(c) \/ FinishStop(c)
    BY <1>f
  <2>2. c \in binding \cup Awaiting
    BY <2>1 DEF Bind, FinishStop, Awaiting
  <2>3. Underway(c) /\ c \notin CallsOf(toMain) /\ c \notin CallsOf(toChild)
    BY <2>2 DEF OnePlace
  <2>4. \E kind \in {"started", "stopped", "error"} : Reply(kind, c)
    BY <2>1 DEF Bind, FinishStop
  <2>5. Distinct(toMain') /\ CallsOf(toMain') = CallsOf(toMain) \cup {c}
    BY <2>3, <2>4, Replied
  <2>6. /\ binding' \subseteq binding /\ Awaiting' \subseteq Awaiting
        /\ c \notin binding' /\ c \notin Awaiting'
    <3>1. CASE Bind(c)
      BY <3>1 DEF Bind, Awaiting, OnePlace
    <3>2. CASE FinishStop(c)
      <4>1. binding' = binding /\ ending' = [ending EXCEPT ![c] = None]
        BY <3>2 DEF FinishStop
      <4>2. ending'[c] = None /\ \A d \in Calls : d # c => ending'[d] = ending[d]
        BY <4>1 DEF TypeOK
      <4>3. c \in Awaiting
        BY <3>2 DEF FinishStop, Awaiting
      <4> QED
        BY <4>1, <4>2, <4>3 DEF Awaiting, OnePlace
    <3> QED
      BY <2>1, <3>1, <3>2
  <2>7. UNCHANGED <<toChild, call, watch>>
    BY <2>1 DEF Bind, FinishStop, callVars, watchVars
  <2>8. Distinct(toChild)' /\ CallsOf(toChild)' = CallsOf(toChild)
    BY <2>7 DEF OnePlace, Distinct, CallsOf
  <2> QED
    BY <2>3, <2>5, <2>6, <2>7, <2>8 DEF OnePlace, Underway
<1>g. CASE UNCHANGED <<toChild, toMain, binding, ending, call, watch>>
  BY <1>g, SamePlaces
<1>h. World \/ (\E s \in Servers : CloseListener(s)) \/ (\E k \in Conns : HardDrop(k)) =>
         UNCHANGED <<toChild, toMain, binding, ending, call, watch>>
  BY DEF World, ForeignProgram, BeginTransfer, EndTransfer, AcceptFails, AcceptAgain, Deafen, Loop,
         AcceptConnection, Handshake, Upgrade, LoseConnection, HardDrop, Connection, CloseListener,
         callVars, watchVars, wires, childVars
<1> QED
  BY <1>b, <1>c, <1>d, <1>e, <1>f, <1>g, <1>h DEF Next, Rust

-----------------------------------------------------------------------------
(* Servers                                                                 *)

States == {"none", "up", "waiting", "deaf", "stopping", "draining"}

LEMMA SameServers ==
  ASSUME Known, UNCHANGED <<child, ending, server, conn, host>>
  PROVE  Known'
BY DEF Known, Holding, Tracked

LEMMA KnownStep == IInv /\ Next => Known'
<1> SUFFICES ASSUME IInv, Next PROVE Known'
  OBVIOUS
<1> USE LifecycleAssumption DEF LifecycleAssumption, IInv
<1>t. /\ server \in [Servers -> States] /\ child \in Servers \cup {None}
      /\ ending \in [Calls -> Servers \cup {None}] /\ None \notin Servers
      /\ \A k \in Conns : host[k] \in Servers \cup {None} /\ (conn[k] = "none" <=> host[k] = None)
  BY DEF TypeOK, States
\* Connections alone.
<1>a. ASSUME UNCHANGED <<child, ending, server>>,
             \A s \in Servers : server[s] = "none" => Tracked(s)' = {}
      PROVE  Known'
  BY <1>a DEF Known, Holding
<1>b. CASE \E k \in Conns : HardDrop(k) \/ AcceptConnection(k) \/ Handshake(k) \/ Upgrade(k) \/ LoseConnection(k)
  <2>1. PICK k \in Conns : HardDrop(k) \/ AcceptConnection(k) \/ Handshake(k) \/ Upgrade(k) \/ LoseConnection(k)
    BY <1>b
  <2>2. UNCHANGED <<child, ending, server>>
    BY <2>1 DEF HardDrop, AcceptConnection, Handshake, Upgrade, LoseConnection, Connection, childVars
  <2>3. PICK at \in {"none", "handshake", "serving", "chat"}, r \in Servers \cup {None} :
           /\ conn' = [conn EXCEPT ![k] = at] /\ host' = [host EXCEPT ![k] = r]
           /\ at \in {"handshake", "serving"} /\ r # None => server[r] = "up" \/ k \in Tracked(r)
    BY <2>1 DEF HardDrop, AcceptConnection, Handshake, Upgrade, LoseConnection, Connection, TypeOK, Tracked
  <2>4. /\ conn'[k] = at /\ host'[k] = r
        /\ \A j \in Conns : j # k => conn'[j] = conn[j] /\ host'[j] = host[j]
    BY <2>3 DEF TypeOK
  <2>5. ASSUME NEW s \in Servers, server[s] = "none" PROVE Tracked(s)' = {}
    <3>1. Tracked(s) = {}
      BY <2>5 DEF Known
    <3> QED
      BY <1>t, <2>3, <2>4, <2>5, <3>1 DEF Tracked
  <2> QED
    BY <1>a, <2>2, <2>5
\* The state of one server, without what becomes of its port.
<1>c. ASSUME NEW s \in Servers, NEW state \in States, UNCHANGED <<child, ending, conn, host>>,
             server' = [server EXCEPT ![s] = state],
             \/ server[s] \in {"up", "waiting", "deaf"} /\ state \in {"up", "waiting", "deaf"}
             \/ server[s] = "stopping" /\ state = "draining"
      PROVE  Known'
  <2>1. server'[s] = state /\ \A r \in Servers : r # s => server'[r] = server[r]
    BY <1>c, <1>t
  <2>2. \A r \in Servers : Tracked(r)' = Tracked(r)
    BY <1>c DEF Tracked
  <2>3. Holding' \subseteq Holding
    BY <1>c, <2>1 DEF Holding
  <2>4. \A c \in Calls : ending'[c] = ending[c] /\ ending[c] \in Servers \cup {None}
    BY <1>c, <1>t
  <2> QED
    BY <1>c, <1>t, <2>1, <2>2, <2>3, <2>4 DEF Known
<1>d. CASE \E s \in Servers : CloseListener(s) \/ AcceptFails(s) \/ AcceptAgain(s) \/ Deafen(s)
  <2>1. PICK s \in Servers : CloseListener(s) \/ AcceptFails(s) \/ AcceptAgain(s) \/ Deafen(s)
    BY <1>d
  <2>2. UNCHANGED <<child, ending, conn, host>>
    BY <2>1 DEF CloseListener, AcceptFails, AcceptAgain, Deafen, Loop, childVars, connVars
  <2> DEFINE Becomes(state) == server' = [server EXCEPT ![s] = state]
  <2>3. \/ server[s] = "stopping" /\ Becomes("draining")
        \/ server[s] \in {"up", "waiting", "deaf"} /\ \E state \in {"up", "waiting", "deaf"} : Becomes(state)
    BY <2>1 DEF CloseListener, AcceptFails, AcceptAgain, Deafen, Loop
  <2>4. CASE server[s] = "stopping" /\ Becomes("draining")
    <3>1. "draining" \in States
      BY DEF States
    <3> QED
      BY <1>c, <2>2, <2>4, <3>1
  <2>5. CASE server[s] \in {"up", "waiting", "deaf"} /\ \E state \in {"up", "waiting", "deaf"} : Becomes(state)
    <3>1. PICK state \in {"up", "waiting", "deaf"} : Becomes(state)
      BY <2>5
    <3>2. state \in States
      BY DEF States
    <3> QED
      BY <1>c, <2>2, <2>5, <3>1, <3>2
  <2> QED
    BY <2>3, <2>4, <2>5
<1>e. CASE \E c \in Calls : Bind(c)
  <2>1. PICK c \in Calls : Bind(c)
    BY <1>e
  <2>2. UNCHANGED <<ending, conn, host>>
    BY <2>1 DEF Bind, connVars
  <2>3. CASE ~PortFree
    BY <2>1, <2>2, <2>3, SameServers DEF Bind
  <2>4. CASE PortFree
    <3>1. PICK s \in Servers :
             /\ server[s] = "none" /\ \A k \in Conns : host[k] # s
             /\ server' = [server EXCEPT ![s] = "up"] /\ child' = s
      BY <2>1, <2>4 DEF Bind
    <3>2. server'[s] = "up" /\ \A r \in Servers : r # s => server'[r] = server[r]
      BY <1>t, <3>1
    <3>3. Holding = {} /\ \A r \in Servers : server[r] \notin {"up", "waiting", "deaf", "stopping"}
      BY <2>4 DEF PortFree, Holding
    <3>4. \A r \in Servers : server'[r] \in {"up", "waiting", "deaf", "stopping"} => r = s
      BY <3>2, <3>3
    <3>5. \A r \in Servers : Tracked(r)' = Tracked(r)
      BY <2>2 DEF Tracked
    <3>6. \A d \in Calls : ending'[d] = ending[d] /\ ending[d] \in Servers \cup {None}
      BY <1>t, <2>2
    <3>7. \A d \in Calls : ending[d] # None => ending[d] # s
      BY <3>1, <3>6 DEF Known
    <3> QED
      BY <1>t, <3>1, <3>2, <3>4, <3>5, <3>6, <3>7 DEF Known, Holding
  <2> QED
    BY <2>3, <2>4
<1>f. CASE HandleStop
  <2>1. PICK c \in Calls : c = Head(toChild).call /\ c \notin Awaiting
    BY <1>f, TaskTaken DEF HandleStop, OnePlace
  <2>2. child' = None /\ UNCHANGED <<conn, host>>
    BY <1>f DEF HandleStop, connVars
  <2>3. CASE child = None
    BY <1>f, <2>2, <2>3, SameServers DEF HandleStop
  <2>4. CASE child # None
    <3>1. ending' = [ending EXCEPT ![c] = child] /\ server' = [server EXCEPT ![child] = "stopping"]
      BY <1>f, <2>1, <2>4 DEF HandleStop
    <3>2. /\ child \in Servers /\ server'[child] = "stopping"
          /\ \A r \in Servers : r # child => server'[r] = server[r]
          /\ ending'[c] = child /\ \A d \in Calls : d # c => ending'[d] = ending[d]
      BY <1>t, <2>4, <3>1
    <3>3. server[child] \in {"up", "waiting", "deaf"}
      BY <2>4 DEF Known
    <3>4. ending[c] = None
      BY <2>1 DEF Awaiting
    <3>5. \A r \in Servers : Tracked(r)' = Tracked(r)
      BY <2>2 DEF Tracked
    <3>6. \A s \in Servers : server'[s] \notin {"up", "waiting", "deaf"}
      BY <3>2 DEF Known
    <3>7. \A s, r \in Holding' : s = r
      BY <3>2, <3>3 DEF Known, Holding
    <3>8. \A d \in Calls : ending[d] # None => ending[d] # child /\ ending[d] \in Servers
      BY <1>t, <3>3 DEF Known
    <3>9. \A d \in Calls : ending'[d] # None => server'[ending'[d]] \in {"stopping", "draining"}
      BY <3>2, <3>8 DEF Known
    <3>10. \A s \in Servers : server'[s] \in {"stopping", "draining"} => \E d \in Calls : ending'[d] = s
      BY <1>t, <3>2, <3>4 DEF Known
    <3>11. \A d, e \in Calls : ending'[d] = ending'[e] /\ ending'[d] # None => d = e
      BY <3>2, <3>8 DEF Known
    <3>12. \A s \in Servers : server'[s] = "none" => Tracked(s)' = {}
      BY <3>2, <3>5 DEF Known
    <3> QED
      BY <2>2, <3>6, <3>7, <3>9, <3>10, <3>11, <3>12 DEF Known
  <2> QED
    BY <2>3, <2>4
<1>g. CASE \E c \in Calls : FinishStop(c)
  <2>1. PICK c \in Calls : FinishStop(c)
    BY <1>g
  <2> DEFINE s == ending[c]
  <2>2. /\ s \in Servers /\ server[s] = "draining" /\ Tracked(s) = {}
        /\ server' = [server EXCEPT ![s] = "none"] /\ ending' = [ending EXCEPT ![c] = None]
        /\ UNCHANGED <<child, conn, host>>
    BY <1>t, <2>1 DEF FinishStop, connVars
  <2>3. PICK r \in Servers : r = s
    BY <2>2
  <2>4. /\ server'[r] = "none" /\ \A q \in Servers : q # r => server'[q] = server[q]
        /\ ending'[c] = None /\ \A d \in Calls : d # c => ending'[d] = ending[d]
    BY <1>t, <2>2, <2>3
  <2>5. \A q \in Servers : Tracked(q)' = Tracked(q)
    BY <2>2 DEF Tracked
  <2>6. \A d \in Calls : d # c /\ ending[d] # None => ending[d] # r /\ ending[d] \in Servers
    BY <1>t, <2>2, <2>3 DEF Known
  <2>7. Tracked(r) = {} /\ server[r] = "draining" /\ ending[c] = r /\ child' = child
    BY <2>2, <2>3
  <2> HIDE DEF s
  <2>8. Holding' \subseteq Holding
    BY <2>4 DEF Holding
  <2>9. \A d \in Calls : ending'[d] # None => server'[ending'[d]] \in {"stopping", "draining"}
    BY <2>4, <2>6 DEF Known
  <2>10. \A q \in Servers : server'[q] \in {"stopping", "draining"} => \E d \in Calls : ending'[d] = q
    BY <1>t, <2>4, <2>7 DEF Known
  <2>11. \A d, e \in Calls : ending'[d] = ending'[e] /\ ending'[d] # None => d = e
    BY <2>4 DEF Known
  <2>12. \A q \in Servers : server'[q] = "none" => Tracked(q)' = {}
    BY <2>4, <2>5, <2>7 DEF Known
  <2>13. /\ child' # None => server'[child'] \in {"up", "waiting", "deaf"}
         /\ \A q \in Servers : server'[q] \in {"up", "waiting", "deaf"} => child' = q
    BY <1>t, <2>4, <2>7 DEF Known
  <2> QED
    BY <2>8, <2>9, <2>10, <2>11, <2>12, <2>13 DEF Known
<1>h. CASE UNCHANGED <<child, ending, server, conn, host>>
  BY <1>h, SameServers
<1>i. Main \/ HandleStart \/ User \/ Watching \/ Resume \/ BeginTransfer \/ EndTransfer \/ ForeignProgram =>
         UNCHANGED <<child, ending, server, conn, host>>
  BY DEF Main, TakeStopped, TakeStarted, TakeError, HandleStart, User, StartServer, StopServer,
         RestartServer, Watching, Check, ProbeAnswered, ProbeFailed, Resume, Recover, BeginProbe,
         BeginTransfer, EndTransfer, ForeignProgram, childVars, outside, connVars
<1> QED
  BY <1>b, <1>d, <1>e, <1>f, <1>g, <1>h, <1>i DEF Next, Isolate, Rust, World

-----------------------------------------------------------------------------
(* The last word about a server that is gone                               *)

\* A "stopped" comes after every "started" of a queue.
StoppedLast(q) ==
    \E i \in DOMAIN q : q[i].kind = "stopped" /\ \A j \in DOMAIN q : q[j].kind = "started" => j < i

SomeStarted(q) == \E i \in DOMAIN q : q[i].kind = "started"

LEMMA StoppedSaid ==
  ASSUME NEW S, NEW q \in Seq(S), NEW m \in S, m.kind = "stopped"
  PROVE  StoppedLast(Append(q, m))
<1> DEFINE r == Append(q, m)
<1>1. /\ DOMAIN r = 1 .. (Len(q) + 1) /\ Len(q) \in Nat /\ r[Len(q) + 1] = m
  BY AppendProperties, LenProperties
<1>2. Len(q) + 1 \in DOMAIN r /\ \A j \in DOMAIN r : j # Len(q) + 1 => j < Len(q) + 1
  BY <1>1
<1> HIDE DEF r
<1>3. StoppedLast(r)
  BY <1>1, <1>2 DEF StoppedLast
<1> QED
  BY <1>3 DEF r

LEMMA ErrorSaid ==
  ASSUME NEW S, NEW q \in Seq(S), NEW m \in S, m.kind = "error"
  PROVE  /\ SomeStarted(Append(q, m)) => SomeStarted(q)
         /\ StoppedLast(q) => StoppedLast(Append(q, m))
<1> DEFINE r == Append(q, m)
<1>1. /\ DOMAIN r = 1 .. (Len(q) + 1) /\ DOMAIN q = 1 .. Len(q) /\ Len(q) \in Nat
      /\ \A i \in DOMAIN q : r[i] = q[i]
      /\ r[Len(q) + 1] = m
  BY AppendProperties, LenProperties
<1>2. \A i \in DOMAIN r : i \in DOMAIN q \/ r[i].kind = "error"
  BY <1>1
<1>3. \A i \in DOMAIN q : i \in DOMAIN r
  BY <1>1
<1> HIDE DEF r
<1>4. SomeStarted(r) => SomeStarted(q)
  BY <1>1, <1>2 DEF SomeStarted
<1>5. ASSUME StoppedLast(q) PROVE StoppedLast(r)
  BY <1>1, <1>2, <1>3, <1>5 DEF StoppedLast
<1> QED
  BY <1>4, <1>5 DEF r

LEMMA WordTaken ==
  ASSUME NEW S, NEW q \in Seq(S), q # <<>>
  PROVE  /\ SomeStarted(Tail(q)) => SomeStarted(q)
         /\ StoppedLast(q) /\ (Head(q).kind # "stopped" \/ SomeStarted(Tail(q))) => StoppedLast(Tail(q))
<1> DEFINE r == Tail(q)
<1>1. /\ \A i \in DOMAIN r : i + 1 \in DOMAIN q /\ r[i] = q[i + 1]
      /\ \A i \in DOMAIN q : i # 1 => i - 1 \in DOMAIN r /\ r[i - 1] = q[i]
      /\ 1 \in DOMAIN q /\ q[1] = Head(q)
      /\ DOMAIN q \subseteq Nat \ {0} /\ DOMAIN r \subseteq Nat \ {0}
  <2>1. DOMAIN q = 1 .. Len(q) /\ DOMAIN r = 1 .. (Len(q) - 1) /\ Len(q) \in Nat
    BY HeadTailProperties, LenProperties
  <2> QED
    BY <2>1, HeadTailProperties, LenProperties
<1> HIDE DEF r
<1>2. SomeStarted(r) => SomeStarted(q)
  BY <1>1 DEF SomeStarted
<1>3. ASSUME StoppedLast(q), Head(q).kind # "stopped" \/ SomeStarted(r) PROVE StoppedLast(r)
  <2>1. PICK i \in DOMAIN q : q[i].kind = "stopped" /\ \A j \in DOMAIN q : q[j].kind = "started" => j < i
    BY <1>3 DEF StoppedLast
  <2>2. i # 1
    <3>1. CASE Head(q).kind # "stopped"
      BY <1>1, <2>1, <3>1
    <3>2. CASE SomeStarted(r)
      <4>1. PICK j \in DOMAIN r : r[j].kind = "started"
        BY <3>2 DEF SomeStarted
      <4>2. j + 1 < i
        BY <1>1, <2>1, <4>1
      <4> QED
        BY <1>1, <4>2
    <3> QED
      BY <1>3, <3>1, <3>2
  <2>3. i - 1 \in DOMAIN r /\ r[i - 1].kind = "stopped"
    BY <1>1, <2>1, <2>2
  <2>4. ASSUME NEW j \in DOMAIN r, r[j].kind = "started" PROVE j < i - 1
    <3>1. j + 1 < i
      BY <1>1, <2>1, <2>4
    <3> QED
      BY <1>1, <2>1, <3>1
  <2> QED
    BY <2>3, <2>4 DEF StoppedLast
<1> QED
  BY <1>2, <1>3 DEF r

LEMMA OwedIs ==
  Owed <=> (child = None /\ (shown \/ SomeStarted(toMain)) => Awaiting # {} \/ StoppedLast(toMain))
BY DEF Owed, SomeStarted, StoppedLast, Awaiting

LEMMA OwedStep == IInv /\ Next => Owed'
<1> DEFINE Owing == child = None /\ (shown \/ SomeStarted(toMain)) => Awaiting # {} \/ StoppedLast(toMain)
<1>0. Owed <=> Owing
  BY OwedIs
<1>o. Owed' <=> Owing'
  BY OwedIs, PTL
<1> HIDE DEF Owing
<1> SUFFICES ASSUME IInv, Next PROVE Owing'
  BY <1>o
<1> USE LifecycleAssumption DEF LifecycleAssumption, IInv
<1>q. toMain \in Seq(Result) /\ Owing
  BY <1>0 DEF TypeOK, Result
<1>a. ASSUME UNCHANGED <<toMain, ending>>, child' = child \/ child' # None, shown' => shown PROVE Owing'
  <2>1. Awaiting' = Awaiting
    BY <1>a DEF Awaiting
  <2> QED
    BY <1>a, <1>q, <2>1 DEF Owing, SomeStarted, StoppedLast
<1>b. CASE Main
  <2>1. /\ toMain # <<>> /\ toMain' = Tail(toMain) /\ child' = child /\ Awaiting' = Awaiting
    BY <1>b DEF Main, TakeStopped, TakeStarted, TakeError, childVars, Awaiting
  <2>2. SomeStarted(toMain') => SomeStarted(toMain)
    BY <1>q, <2>1, WordTaken
  <2>3. StoppedLast(toMain) /\ (Head(toMain).kind # "stopped" \/ SomeStarted(toMain')) => StoppedLast(toMain')
    BY <1>q, <2>1, WordTaken
  <2>4. CASE TakeStopped
    <3>1. ~shown'
      BY <2>4 DEF TakeStopped
    <3> QED
      BY <1>q, <2>1, <2>2, <2>3, <3>1 DEF Owing
  <2>5. CASE TakeStarted
    <3>1. SomeStarted(toMain)
      <4>1. 1 \in DOMAIN toMain /\ toMain[1] = Head(toMain)
        BY <1>q, <2>1, HeadTailProperties, LenProperties
      <4> QED
        BY <2>5, <4>1 DEF TakeStarted, SomeStarted
    <3>2. Head(toMain).kind # "stopped"
      BY <2>5 DEF TakeStarted
    <3> QED
      BY <1>q, <2>1, <2>3, <3>1, <3>2 DEF Owing
  <2>6. CASE TakeError
    <3>1. shown' = shown /\ Head(toMain).kind # "stopped"
      BY <2>6 DEF TakeError, appVars
    <3> QED
      BY <1>q, <2>1, <2>2, <2>3, <3>1 DEF Owing
  <2> QED
    BY <1>b, <2>4, <2>5, <2>6 DEF Main
<1>c. ASSUME NEW c \in Calls, Reply("stopped", c) PROVE Owing'
  <2> DEFINE m == [kind |-> "stopped", call |-> c]
  <2>1. m \in Result /\ m.kind = "stopped" /\ toMain' = Append(toMain, m)
    BY <1>c DEF Reply, Result
  <2> HIDE DEF m
  <2>2. StoppedLast(toMain')
    BY <1>q, <2>1, StoppedSaid
  <2> QED
    BY <2>2 DEF Owing
<1>d. ASSUME NEW c \in Calls, Reply("error", c), UNCHANGED <<child, shown, ending>> PROVE Owing'
  <2> DEFINE m == [kind |-> "error", call |-> c]
  <2>1. m \in Result /\ m.kind = "error" /\ toMain' = Append(toMain, m)
    BY <1>d DEF Reply, Result
  <2> HIDE DEF m
  <2>2. (SomeStarted(toMain') => SomeStarted(toMain)) /\ (StoppedLast(toMain) => StoppedLast(toMain'))
    BY <1>q, <2>1, ErrorSaid
  <2>3. Awaiting' = Awaiting
    BY <1>d DEF Awaiting
  <2> QED
    BY <1>d, <1>q, <2>2, <2>3 DEF Owing
<1>e. CASE HandleStart
  <2>1. PICK c \in Calls : c = Head(toChild).call
    BY <1>e, TaskTaken DEF HandleStart
  <2>2. UNCHANGED <<child, shown, ending>>
    BY <1>e DEF HandleStart, appVars
  <2>3. Reply("error", c) \/ toMain' = toMain
    BY <1>e, <2>1 DEF HandleStart
  <2>4. CASE Reply("error", c)
    BY <1>d, <2>2, <2>4
  <2>5. CASE toMain' = toMain
    BY <1>a, <2>2, <2>5
  <2> QED
    BY <2>3, <2>4, <2>5
<1>f. CASE HandleStop
  <2>1. PICK c \in Calls : c = Head(toChild).call
    BY <1>f, TaskTaken DEF HandleStop
  <2>2. CASE child = None
    <3>1. Reply("stopped", c)
      BY <1>f, <2>1, <2>2 DEF HandleStop
    <3> QED
      BY <1>c, <3>1
  <2>3. CASE child # None
    <3>1. ending' = [ending EXCEPT ![c] = child]
      BY <1>f, <2>1, <2>3 DEF HandleStop
    <3>2. ending'[c] # None
      BY <2>3, <3>1 DEF TypeOK
    <3>3. Awaiting' # {}
      BY <3>2 DEF Awaiting
    <3> QED
      BY <3>3 DEF Owing
  <2> QED
    BY <2>2, <2>3
<1>g. CASE \E c \in Calls : Bind(c)
  <2>1. PICK c \in Calls : Bind(c)
    BY <1>g
  <2>2. CASE PortFree
    <3>1. child' \in Servers
      BY <2>1, <2>2 DEF Bind
    <3> QED
      BY <3>1 DEF Owing
  <2>3. CASE ~PortFree
    <3>1. Reply("error", c) /\ UNCHANGED <<child, shown, ending>>
      BY <2>1, <2>3 DEF Bind, appVars
    <3> QED
      BY <1>d, <3>1
  <2> QED
    BY <2>2, <2>3
<1>h. CASE \E c \in Calls : FinishStop(c)
  <2>1. PICK c \in Calls : Reply("stopped", c)
    BY <1>h DEF FinishStop
  <2> QED
    BY <1>c, <2>1
<1>i. (\E s \in Servers : CloseListener(s)) \/ (\E k \in Conns : HardDrop(k)) \/ World \/ User \/ Watching \/ Resume =>
         UNCHANGED <<toMain, ending, child, shown>>
  BY DEF CloseListener, HardDrop, World, ForeignProgram, BeginTransfer, EndTransfer, AcceptFails, AcceptAgain,
         Deafen, Loop, AcceptConnection, Handshake, Upgrade, LoseConnection, Connection, User, StartServer,
         StopServer, RestartServer, Watching, Check, ProbeAnswered, ProbeFailed, Resume, Recover, BeginProbe,
         appVars, wires, childVars
<1>j. CASE UNCHANGED <<toMain, ending, child, shown>>
  BY <1>a, <1>j
<1> QED
  BY <1>b, <1>e, <1>f, <1>g, <1>h, <1>i, <1>j DEF Next, Isolate, Rust

-----------------------------------------------------------------------------
LEMMA StepInv == IInv /\ [Next]_vars => IInv'
<1>1. IInv /\ Next => IInv'
  BY TypeStep, PlacesStep, KnownStep, OwedStep DEF IInv
<1>2. IInv /\ UNCHANGED vars => IInv'
  <2> SUFFICES ASSUME IInv, UNCHANGED vars PROVE IInv'
    OBVIOUS
  <2> USE DEF vars, appVars, callVars, watchVars, wires, childVars, connVars, outside
  <2>1. TypeOK'
    BY DEF IInv, TypeOK
  <2>2. OnePlace' /\ Known'
    BY SamePlaces, SameServers DEF IInv
  <2>3. Owed'
    BY DEF IInv, Owed
  <2> QED
    BY <2>1, <2>2, <2>3 DEF IInv
<1> QED
  BY <1>1, <1>2

LEMMA Invariance == Spec => []IInv
BY InitInv, StepInv, PTL DEF Spec

(* TypeCorrect: every variable has a value of its type.                    *)
THEOREM TypeCorrect == Spec => []TypeOK
<1>1. IInv => TypeOK
  BY DEF IInv
<1> QED
  BY <1>1, Invariance, PTL

(* NoListenerIsLost: a Rust server that holds the port is known to the     *)
(* isolate or waited for by a stop, whatever starts, stops and restarts of *)
(* any number of users and of the watchdog overlap.                        *)
THEOREM NoListenerIsLost == Spec => []NoServerIsLost
<1>1. IInv => NoServerIsLost
  BY DEF IInv, Known, NoServerIsLost
<1> QED
  BY <1>1, Invariance, PTL

(* ShownServersServe: when no call is underway, a server that is shown is  *)
(* one the isolate has.                                                    *)
THEOREM ShownServersServe == Spec => []ShownIsServed
<1>1. IInv => ShownIsServed
  <2> SUFFICES ASSUME IInv, Quiet, shown PROVE child # None
    BY DEF ShownIsServed
  <2>1. \A c \in Calls : ~Underway(c)
    BY DEF Quiet, Underway
  <2>2. CallsOf(toMain) = {} /\ Awaiting = {}
    BY <2>1, CallsTyped DEF IInv, OnePlace
  <2>3. DOMAIN toMain = {}
    BY <2>2 DEF CallsOf
  <2> QED
    BY <2>2, <2>3 DEF IInv, Owed, Awaiting
<1> QED
  BY <1>1, Invariance, PTL
=============================================================================
