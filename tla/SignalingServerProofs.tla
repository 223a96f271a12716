----------------------- MODULE SignalingServerProofs -----------------------
(***************************************************************************)
(* Proofs about the rooms of the signaling server, for any finite set of   *)
(* connections, any rooms, limits and queue capacity.                      *)
(***************************************************************************)
EXTENDS SignalingServer, SequenceTheorems, FiniteSetTheorems, TLAPS

-----------------------------------------------------------------------------
(* Queues *)

LEMMA OrdersType ==
  ASSUME NEW S \in SUBSET Clients, NEW q \in Orders(S)
  PROVE  q \in Seq(Clients) /\ Elems(q) = S
<1>1. IsFiniteSet(S)
  BY SignalingAssumption, FS_Subset
<1>2. Cardinality(S) \in Nat
  BY <1>1, FS_CardinalityType
<1>3. QED
  BY <1>2 DEF Orders, Elems

LEMMA MembersType ==
  ASSUME NEW g
  PROVE  Members(g) \in SUBSET Clients
  BY DEF Members

LEMMA MsgType ==
  ASSUME NEW c \in Clients, NEW v \in Versions,
         NEW k \in News \cup {"hello", "left", "signal", "error"}
  PROVE  /\ Msg(k, c, v) \in Message
         /\ Msg(k, c, v).kind = k /\ Msg(k, c, v).peer = c /\ Msg(k, c, v).info = v
  BY DEF Msg, Message

LEMMA SmallVersions == 0 \in Versions /\ 1 \in Versions /\ Versions \subseteq Nat
  BY SignalingAssumption DEF Versions

LEMMA PushType ==
  ASSUME TypeOK, NEW c \in Clients, NEW m \in Message, Push(c, m)
  PROVE  queue' \in [Clients -> Seq(Message)]
  BY DEF TypeOK, Push

-----------------------------------------------------------------------------
(* Type correctness *)

LEMMA TypeInit == Init => TypeOK
  BY SmallVersions, SignalingAssumption, MsgType DEF Init, TypeOK, Nothing, NoMsg

LEMMA TypeStep ==
  ASSUME TypeOK, Requesting, [Next]_vars
  PROVE  TypeOK'
<1> USE SmallVersions
<1>0. CASE UNCHANGED vars
  BY <1>0 DEF TypeOK, vars, mainVars, recvVars
<1>1. CASE ResetCounts
  BY <1>1, SignalingAssumption DEF ResetCounts, TypeOK, mainVars, recvVars
<1>2. ASSUME NEW c \in Clients, Main(c) PROVE TypeOK'
  <2>1. CASE Connect(c)
    <3>1. Peers(c) \in SUBSET Clients
      BY MembersType DEF Peers
    <3>2. todo' \in [Clients -> Seq(Clients)]
      BY <2>1, <3>1, OrdersType DEF Connect, TypeOK
    <3>3. count' \in [Rooms -> 0..MaxRequests]
      BY <2>1, SignalingAssumption DEF Connect, TypeOK, CountRequest, Admissible, Allowed
    <3>4. snapshot' \in [Clients -> [Clients -> Versions]]
      BY <2>1 DEF Connect, TypeOK
    <3>5. QED
      BY <2>1, <3>2, <3>3, <3>4 DEF Connect, TypeOK, recvVars
  <2>2. CASE Refuse(c)
    BY <2>2 DEF Refuse, TypeOK, recvVars
  <2>3. CASE TellJoin(c)
    <3>1. Head(todo[c]) \in Clients /\ Tail(todo[c]) \in Seq(Clients)
      BY <2>3, HeadTailProperties, LenProperties DEF TellJoin, TypeOK
    <3>2. queue' \in [Clients -> Seq(Message)]
      BY <2>3, <3>1, MsgType, PushType DEF TellJoin, News
    <3>3. QED
      BY <2>3, <3>1, <3>2 DEF TellJoin, TypeOK, recvVars
  <2>4. CASE Greet(c)
    <3>1. queue' \in [Clients -> Seq(Message)]
      BY <2>4, MsgType, PushType DEF Greet
    <3>2. QED
      BY <2>4, <3>1 DEF Greet, TypeOK
  <2>5. CASE Unregister(c)
    <3>1. Peers(c) \in SUBSET Clients
      BY MembersType DEF Peers
    <3>2. todo' \in [Clients -> Seq(Clients)]
      BY <2>5, <3>1, OrdersType DEF Unregister, TypeOK
    <3>3. QED
      BY <2>5, <3>2 DEF Unregister, TypeOK, recvVars
  <2>6. CASE TellLeft(c)
    <3>1. Head(todo[c]) \in Clients /\ Tail(todo[c]) \in Seq(Clients)
      BY <2>6, HeadTailProperties, LenProperties DEF TellLeft, TypeOK
    <3>2. queue' \in [Clients -> Seq(Message)]
      BY <2>6, <3>1, MsgType, PushType DEF TellLeft
    <3>3. QED
      BY <2>6, <3>1, <3>2 DEF TellLeft, TypeOK, recvVars
  <2>7. QED
    BY <1>2, <2>1, <2>2, <2>3, <2>4, <2>5, <2>6 DEF Main
<1>3. ASSUME NEW c \in Clients, Recv(c) PROVE TypeOK'
  <2>0. ASSUME NEW m \in Message, NEW q \in Seq(Clients), Start(c, m, q)
        PROVE  /\ recv' \in [Clients -> {"none", "reading", "sending", "over", "late"}]
               /\ rtodo' \in [Clients -> Seq(Clients)] /\ rmsg' \in [Clients -> Message]
    BY <2>0 DEF Start, TypeOK
  <2>1. CASE Update(c)
    <3>1. Peers(c) \in SUBSET Clients
      BY MembersType DEF Peers
    <3>2. info[c] + 1 \in Versions
      BY <2>1, SignalingAssumption DEF Update, TypeOK, Versions
    <3>3. Msg("update", c, info[c] + 1) \in Message
      BY <3>2, MsgType DEF News
    <3>4. count' \in [Rooms -> 0..MaxRequests]
      BY <2>1, SignalingAssumption DEF Update, TypeOK, CountRequest, Allowed
    <3>5. CASE info[c] > 0
      <4>1. PICK q \in Orders(Peers(c)) : Start(c, Msg("update", c, info[c] + 1), q)
        BY <2>1, <3>5 DEF Update
      <4>2. q \in Seq(Clients)
        BY <3>1, OrdersType
      <4>3. info' \in [Clients -> Versions]
        BY <2>1, <3>2, <3>5 DEF Update, TypeOK
      <4>4. QED
        BY <2>0, <2>1, <3>3, <3>4, <4>1, <4>2, <4>3 DEF Update, TypeOK, mainVars
    <3>6. CASE ~(info[c] > 0)
      BY <2>1, <3>4, <3>6 DEF Update, TypeOK, mainVars, recvVars
    <3>7. QED
      BY <3>5, <3>6
  <2>2. ASSUME NEW target \in Clients, Signal(c, target) PROVE TypeOK'
    <3>1. Msg("signal", c, 1) \in Message /\ <<target>> \in Seq(Clients)
      BY MsgType
    <3>2. count' \in [Rooms -> 0..MaxRequests]
      BY <2>2, SignalingAssumption DEF Signal, TypeOK, CountRequest, Allowed
    <3>3. CASE target \in Members(room[c])
      BY <2>0, <2>2, <3>1, <3>2, <3>3 DEF Signal, TypeOK, mainVars
    <3>4. CASE target \notin Members(room[c])
      BY <2>2, <3>2, <3>4 DEF Signal, TypeOK, mainVars, recvVars
    <3>5. QED
      BY <3>3, <3>4
  <2>3. CASE TooMany(c)
    <3>1. Msg("error", c, 1) \in Message /\ <<c>> \in Seq(Clients)
      BY MsgType
    <3>2. QED
      BY <2>0, <2>3, <3>1 DEF TooMany, TypeOK, mainVars
  <2>4. CASE TellPeer(c)
    <3>1. Head(rtodo[c]) \in Clients /\ Tail(rtodo[c]) \in Seq(Clients)
      BY <2>4, HeadTailProperties, LenProperties DEF TellPeer, TypeOK
    <3>2. queue' \in [Clients -> Seq(Message)]
      BY <2>4, <3>1, PushType DEF TellPeer, TypeOK
    <3>3. QED
      BY <2>4, <3>1, <3>2 DEF TellPeer, TypeOK, mainVars
  <2>5. CASE Done(c)
    BY <2>5, MsgType DEF Done, Forget, NoMsg, TypeOK, mainVars
  <2>6. CASE Abort(c)
    BY <2>6, MsgType DEF Abort, Forget, NoMsg, TypeOK, mainVars
  <2>7. QED
    BY <1>3, <2>1, <2>2, <2>3, <2>4, <2>5, <2>6 DEF Recv
<1>4. ASSUME NEW c \in Clients, Deliver(c) PROVE TypeOK'
  <2>1. Head(queue[c]) \in Message /\ Tail(queue[c]) \in Seq(Message)
    BY <1>4, HeadTailProperties, LenProperties DEF Deliver, TypeOK
  <2>2. Learn(c, Head(queue[c])) \in [Clients -> Versions]
    <3>1. Head(queue[c]).info \in Versions
      BY <2>1 DEF Message
    <3>2. \A d \in Clients : snapshot[c][d] \in Versions /\ known[c][d] \in Versions
      BY DEF TypeOK
    <3>3. QED
      BY <3>1, <3>2 DEF Learn
  <2>3. QED
    BY <1>4, <2>1, <2>2 DEF Deliver, TypeOK, mainVars, recvVars
<1>5. ASSUME NEW c \in Clients, Close(c) PROVE TypeOK'
  <2>1. /\ phase' \in [Clients -> {"new", "refused", "joining", "serving", "closing", "leaving"}]
        /\ queue' \in [Clients -> Seq(Message)]
        /\ snapshot' \in [Clients -> [Clients -> Versions]]
        /\ known' \in [Clients -> [Clients -> Versions]]
    BY <1>5 DEF Close, Nothing, TypeOK
  <2>2. CASE recv' = [recv EXCEPT ![c] = "over"] /\ Forget(c)
    BY <1>5, <2>1, <2>2, MsgType DEF Close, Forget, NoMsg, TypeOK
  <2>3. CASE UNCHANGED recvVars
    BY <1>5, <2>1, <2>3 DEF Close, TypeOK, recvVars
  <2>4. QED
    BY <1>5, <2>2, <2>3 DEF Close
<1>6. QED
  BY <1>0, <1>1, <1>2, <1>3, <1>4, <1>5 DEF Next

-----------------------------------------------------------------------------
(* How actions change the queues *)

LEMMA PushEffect ==
  ASSUME TypeOK, NEW c \in Clients, NEW m \in Message, Push(c, m)
  PROVE  /\ \A d \in Clients : \A i \in DOMAIN queue[d] :
               i \in DOMAIN queue'[d] /\ queue'[d][i] = queue[d][i]
         /\ \A d \in Clients : \A i \in DOMAIN queue'[d] :
               \/ i \in DOMAIN queue[d] /\ queue'[d][i] = queue[d][i]
               \/ d = c /\ queue'[d][i] = m
         /\ Open(c) => \E i \in DOMAIN queue'[c] : queue'[c][i] = m
<1>1. queue[c] \in Seq(Message)
  BY DEF TypeOK
<1>2. CASE Open(c)
  <2>1. queue' = [queue EXCEPT ![c] = Append(queue[c], m)]
    BY <1>2 DEF Push
  <2>2. /\ queue'[c] = Append(queue[c], m)
        /\ \A d \in Clients : d # c => queue'[d] = queue[d]
    BY <2>1 DEF TypeOK
  <2>3. /\ DOMAIN queue'[c] = 1..(Len(queue[c]) + 1) /\ DOMAIN queue[c] = 1..Len(queue[c])
        /\ \A i \in DOMAIN queue[c] : queue'[c][i] = queue[c][i]
        /\ queue'[c][Len(queue[c]) + 1] = m
        /\ Len(queue[c]) \in Nat
    BY <1>1, <2>2, AppendProperties, LenProperties
  <2>4. \A d \in Clients : \A i \in DOMAIN queue[d] :
          i \in DOMAIN queue'[d] /\ queue'[d][i] = queue[d][i]
    BY <2>2, <2>3
  <2>5. \A i \in DOMAIN queue'[c] : i \in DOMAIN queue[c] \/ i = Len(queue[c]) + 1
    BY <2>3
  <2>6. \A d \in Clients : \A i \in DOMAIN queue'[d] :
          \/ i \in DOMAIN queue[d] /\ queue'[d][i] = queue[d][i]
          \/ d = c /\ queue'[d][i] = m
    BY <2>2, <2>3, <2>5
  <2>7. Len(queue[c]) + 1 \in DOMAIN queue'[c]
    BY <2>3
  <2>8. QED
    BY <2>3, <2>4, <2>6, <2>7
<1>3. CASE ~Open(c)
  BY <1>3 DEF Push
<1>4. QED
  BY <1>2, <1>3

LEMMA DeliverEffect ==
  ASSUME TypeOK, NEW c \in Clients, Deliver(c)
  PROVE  /\ \A d \in Clients : d # c => queue'[d] = queue[d] /\ known'[d] = known[d]
         /\ \A i \in DOMAIN queue'[c] : \E j \in DOMAIN queue[c] : queue'[c][i] = queue[c][j]
         /\ \A j \in DOMAIN queue[c] :
               \/ queue[c][j] = Head(queue[c])
               \/ \E i \in DOMAIN queue'[c] : queue'[c][i] = queue[c][j]
         /\ known'[c] = Learn(c, Head(queue[c]))
         /\ \E j \in DOMAIN queue[c] : queue[c][j] = Head(queue[c])
         /\ Head(queue[c]) \in Message
<1>1. queue[c] \in Seq(Message) /\ queue[c] # <<>>
  BY DEF TypeOK, Deliver
<1>2. /\ queue'[c] = Tail(queue[c])
      /\ \A d \in Clients : d # c => queue'[d] = queue[d] /\ known'[d] = known[d]
      /\ known'[c] = Learn(c, Head(queue[c]))
  BY DEF TypeOK, Deliver
<1>3. /\ DOMAIN Tail(queue[c]) = 1..(Len(queue[c]) - 1)
      /\ \A i \in DOMAIN Tail(queue[c]) :
           i + 1 \in DOMAIN queue[c] /\ Tail(queue[c])[i] = queue[c][i + 1]
      /\ \A i \in DOMAIN queue[c] :
           i # 1 => i - 1 \in DOMAIN Tail(queue[c]) /\ Tail(queue[c])[i - 1] = queue[c][i]
      /\ 1 \in DOMAIN queue[c] /\ queue[c][1] = Head(queue[c])
      /\ Head(queue[c]) \in Message
  BY <1>1, HeadTailProperties, LenProperties
<1>4. \A i \in DOMAIN queue'[c] : \E j \in DOMAIN queue[c] : queue'[c][i] = queue[c][j]
  BY <1>2, <1>3
<1>5. \A j \in DOMAIN queue[c] :
        \/ queue[c][j] = Head(queue[c])
        \/ \E i \in DOMAIN queue'[c] : queue'[c][i] = queue[c][j]
  <2> SUFFICES ASSUME NEW j \in DOMAIN queue[c], j # 1
               PROVE  \E i \in DOMAIN queue'[c] : queue'[c][i] = queue[c][j]
    BY <1>3
  <2>1. j - 1 \in DOMAIN queue'[c] /\ queue'[c][j - 1] = queue[c][j]
    BY <1>2, <1>3
  <2>2. QED
    BY <2>1
<1>6. QED
  BY <1>2, <1>3, <1>4, <1>5

-----------------------------------------------------------------------------
(* The parts of the inductive invariant *)

LEMMA RegisteredStep ==
  ASSUME TypeOK, Registered, [Next]_vars
  PROVE  Registered'
<1> USE DEF TypeOK, Registered
<1>0. CASE UNCHANGED vars
  BY <1>0 DEF vars, mainVars, recvVars
<1>1. CASE ResetCounts
  BY <1>1 DEF ResetCounts, mainVars, recvVars
<1>2. ASSUME NEW c \in Clients, Main(c) PROVE Registered'
  <2>1. CASE Connect(c)
    BY <2>1 DEF Connect
  <2>2. CASE Refuse(c) \/ TellJoin(c) \/ TellLeft(c)
    BY <2>2 DEF Refuse, TellJoin, TellLeft
  <2>3. CASE Greet(c)
    BY <2>3 DEF Greet
  <2>4. CASE Unregister(c)
    BY <2>4 DEF Unregister
  <2>5. QED
    BY <1>2, <2>1, <2>2, <2>3, <2>4 DEF Main
<1>3. ASSUME NEW c \in Clients, Recv(c) PROVE Registered'
  <2>1. CASE Update(c)
    <3>1. info[c] \in Nat
      BY SmallVersions
    <3>2. CASE info[c] > 0
      <4>1. info' = [info EXCEPT ![c] = @ + 1] /\ phase' = phase
        BY <2>1, <3>2 DEF Update, mainVars
      <4>2. QED
        BY <3>1, <3>2, <4>1
    <3>3. CASE ~(info[c] > 0)
      BY <2>1, <3>3 DEF Update, mainVars
    <3>4. QED
      BY <3>2, <3>3
  <2>2. QED
    BY <1>3, <2>1 DEF Recv, Signal, TooMany, TellPeer, Done, Abort, mainVars
<1>4. ASSUME NEW c \in Clients, Deliver(c) \/ Close(c) PROVE Registered'
  BY <1>4 DEF Deliver, Close, mainVars
<1>5. QED
  BY <1>0, <1>1, <1>2, <1>3, <1>4 DEF Next

LEMMA RequestingStep ==
  ASSUME TypeOK, Requesting, [Next]_vars
  PROVE  Requesting'
<1> USE DEF TypeOK, Requesting
<1>0. CASE UNCHANGED recvVars
  BY <1>0 DEF recvVars
<1>1. ASSUME NEW c \in Clients, Main(c) PROVE Requesting'
  BY <1>0, <1>1 DEF Main, Connect, Refuse, TellJoin, Greet, Unregister, TellLeft, recvVars
<1>2. ASSUME NEW c \in Clients, NEW k \in {"update", "signal", "error"}, NEW v \in Nat, v > 0,
             NEW q, Start(c, Msg(k, c, v), q)
      PROVE  Requesting'
  BY <1>2 DEF Start, Msg
<1>3. ASSUME NEW c \in Clients, Recv(c) PROVE Requesting'
  <2>1. CASE Update(c)
    <3>1. info[c] \in Nat
      BY SmallVersions
    <3>2. CASE info[c] > 0
      BY <1>2, <2>1, <3>1, <3>2 DEF Update
    <3>3. CASE ~(info[c] > 0)
      BY <1>0, <2>1, <3>3 DEF Update
    <3>4. QED
      BY <3>2, <3>3
  <2>2. CASE \E target \in Clients : Signal(c, target)
    BY <1>0, <1>2, <2>2 DEF Signal
  <2>3. CASE TooMany(c)
    BY <1>2, <2>3 DEF TooMany
  <2>4. CASE TellPeer(c)
    <3>1. rmsg' = rmsg /\ rtodo[c] # <<>>
      BY <2>4 DEF TellPeer
    <3>2. \A d \in Clients : d # c => rtodo'[d] = rtodo[d]
      BY <2>4 DEF TellPeer
    <3> QED
      BY <3>1, <3>2
  <2>5. CASE Done(c) \/ Abort(c)
    <3>1. rtodo'[c] = <<>> /\ \A d \in Clients : d # c => rtodo'[d] = rtodo[d] /\ rmsg'[d] = rmsg[d]
      BY <2>5 DEF Done, Abort, Forget
    <3> QED
      BY <3>1
  <2>6. QED
    BY <1>3, <2>1, <2>2, <2>3, <2>4, <2>5 DEF Recv
<1>4. ASSUME NEW c \in Clients, Close(c) PROVE Requesting'
  <2>1. CASE UNCHANGED recvVars
    BY <1>0, <2>1
  <2>2. CASE Forget(c)
    <3>1. rtodo'[c] = <<>> /\ \A d \in Clients : d # c => rtodo'[d] = rtodo[d] /\ rmsg'[d] = rmsg[d]
      BY <2>2 DEF Forget
    <3> QED
      BY <3>1
  <2> QED
    BY <1>4, <2>1, <2>2 DEF Close
<1>5. QED
  BY <1>0, <1>1, <1>3, <1>4 DEF Next, ResetCounts, Deliver, vars, recvVars

\* A connection keeps its room, and one that is leaving does not return.
LEMMA Stable ==
  ASSUME TypeOK, [Next]_vars
  PROVE  room' = room /\ \A c \in Clients : phase[c] = "leaving" => phase'[c] = "leaving"
<1> USE DEF TypeOK
<1>1. ASSUME NEW c \in Clients, Main(c)
      PROVE  room' = room /\ \A d \in Clients : phase[d] = "leaving" => phase'[d] = "leaving"
  BY <1>1 DEF Main, Connect, Refuse, TellJoin, Greet, Unregister, TellLeft
<1>2. ASSUME NEW c \in Clients, Recv(c) PROVE UNCHANGED mainVars
  BY <1>2 DEF Recv, Update, Signal, TooMany, TellPeer, Done, Abort
<1>3. ASSUME NEW c \in Clients, Deliver(c) \/ Close(c)
      PROVE  room' = room /\ \A d \in Clients : phase[d] = "leaving" => phase'[d] = "leaving"
  BY <1>3 DEF Deliver, Close, mainVars
<1>4. QED
  BY <1>1, <1>2, <1>3 DEF Next, ResetCounts, vars, mainVars

LEMMA FitsStable ==
  ASSUME TypeOK, [Next]_vars, NEW m \in Message, NEW c \in Clients, Fits(m, c)
  PROVE  Fits(m, c)'
<1>1. m.peer \in Clients
  BY DEF Message
<1>2. QED
  BY <1>1, Stable DEF Fits

LEMMA TailSameRoom ==
  ASSUME TypeOK, NEW c \in Clients, NEW q \in Seq(Clients), q # <<>>, SameRoom(c, q)
  PROVE  SameRoom(c, Tail(q)) /\ room[Head(q)] = room[c]
  BY HeadTailProperties, LenProperties DEF SameRoom

LEMMA PeersSameRoom ==
  ASSUME NEW c \in Clients, NEW q \in Orders(Peers(c))
  PROVE  SameRoom(c, q)
<1>1. Elems(q) = Peers(c)
  BY OrdersType, MembersType DEF Peers
<1>2. \A i \in DOMAIN q : q[i] \in Peers(c)
  BY <1>1 DEF Elems
<1>3. QED
  BY <1>2 DEF SameRoom, Peers, Members

\* What a process still has to tell is for its own room.
Tellable == \A c \in Clients : SameRoom(c, todo[c]) /\ SameRoom(c, rtodo[c])

LEMMA TellableStep ==
  ASSUME TypeOK, Addressed, [Next]_vars
  PROVE  Tellable'
<1>0. /\ room' = room
      /\ \A c \in Clients : SameRoom(c, todo[c]) /\ SameRoom(c, rtodo[c])
      /\ \A c \in Clients : todo[c] \in Seq(Clients) /\ rtodo[c] \in Seq(Clients)
  BY Stable DEF Addressed, TypeOK
<1> DEFINE Same(c, q) == \A i \in DOMAIN q : room[q[i]] = room[c]
<1>a. SUFFICES ASSUME NEW x \in Clients
               PROVE  Same(x, todo'[x]) /\ Same(x, rtodo'[x])
  BY <1>0 DEF Tellable, SameRoom
<1>b. Same(x, todo[x]) /\ Same(x, rtodo[x])
  BY <1>0 DEF SameRoom
<1> HIDE DEF Same
<1>1. ASSUME NEW c \in Clients, NEW q, Same(c, q), todo' = [todo EXCEPT ![c] = q], UNCHANGED rtodo
      PROVE  Same(x, todo'[x]) /\ Same(x, rtodo'[x])
  BY <1>1, <1>b DEF TypeOK
<1>2. ASSUME NEW c \in Clients, NEW q, Same(c, q), rtodo' = [rtodo EXCEPT ![c] = q], UNCHANGED todo
      PROVE  Same(x, todo'[x]) /\ Same(x, rtodo'[x])
  BY <1>2, <1>b DEF TypeOK
<1>3. ASSUME UNCHANGED <<todo, rtodo>> PROVE Same(x, todo'[x]) /\ Same(x, rtodo'[x])
  BY <1>3, <1>b
<1>4. \A c \in Clients : Same(c, <<>>)
  BY DEF Same
<1>5. ASSUME NEW c \in Clients, NEW q \in Orders(Peers(c)) PROVE Same(c, q)
  BY <1>5, PeersSameRoom DEF SameRoom, Same
<1>6. ASSUME NEW c \in Clients, NEW q \in Seq(Clients), q # <<>>, SameRoom(c, q)
      PROVE  Same(c, Tail(q))
  BY <1>6, TailSameRoom DEF SameRoom, Same
<1>7. ASSUME NEW c \in Clients, Main(c) PROVE Same(x, todo'[x]) /\ Same(x, rtodo'[x])
  <2>1. CASE Connect(c) \/ Unregister(c)
    BY <1>1, <1>5, <2>1 DEF Connect, Unregister, recvVars
  <2>2. CASE TellJoin(c) \/ TellLeft(c)
    <3>1. Same(c, Tail(todo[c]))
      BY <1>0, <1>6, <2>2 DEF TellJoin, TellLeft
    <3>2. QED
      BY <1>1, <2>2, <3>1 DEF TellJoin, TellLeft, recvVars
  <2>3. CASE Refuse(c) \/ Greet(c)
    BY <1>3, <2>3 DEF Refuse, Greet, recvVars
  <2>4. QED
    BY <1>7, <2>1, <2>2, <2>3 DEF Main
<1>8. ASSUME NEW c \in Clients, Recv(c) PROVE Same(x, todo'[x]) /\ Same(x, rtodo'[x])
  <2>1. CASE Update(c)
    <3>1. CASE info[c] > 0
      BY <1>2, <1>5, <2>1, <3>1 DEF Update, Start, mainVars
    <3>2. CASE ~(info[c] > 0)
      BY <1>3, <2>1, <3>2 DEF Update, recvVars, mainVars
    <3>3. QED
      BY <3>1, <3>2
  <2>2. ASSUME NEW target \in Clients, Signal(c, target)
        PROVE  Same(x, todo'[x]) /\ Same(x, rtodo'[x])
    <3>1. CASE target \in Members(room[c])
      <4>1. Same(c, <<target>>)
        BY <3>1 DEF Same, Members
      <4>2. QED
        BY <1>2, <2>2, <3>1, <4>1 DEF Signal, Start, mainVars
    <3>2. CASE target \notin Members(room[c])
      BY <1>3, <2>2, <3>2 DEF Signal, recvVars, mainVars
    <3>3. QED
      BY <3>1, <3>2
  <2>3. CASE TooMany(c)
    <3>1. Same(c, <<c>>)
      BY DEF Same
    <3>2. QED
      BY <1>2, <2>3, <3>1 DEF TooMany, Start, mainVars
  <2>4. CASE TellPeer(c)
    <3>1. Same(c, Tail(rtodo[c]))
      BY <1>0, <1>6, <2>4 DEF TellPeer
    <3>2. QED
      BY <1>2, <2>4, <3>1 DEF TellPeer, mainVars
  <2>5. CASE Done(c) \/ Abort(c)
    BY <1>2, <1>4, <2>5 DEF Done, Abort, Forget, mainVars
  <2>6. QED
    BY <1>8, <2>1, <2>2, <2>3, <2>4, <2>5 DEF Recv
<1>9. ASSUME NEW c \in Clients, Close(c) PROVE Same(x, todo'[x]) /\ Same(x, rtodo'[x])
  <2>1. CASE Forget(c)
    BY <1>2, <1>4, <1>9, <2>1 DEF Close, Forget
  <2>2. CASE UNCHANGED recvVars
    BY <1>3, <1>9, <2>2 DEF Close, recvVars
  <2>3. QED
    BY <1>9, <2>1, <2>2 DEF Close
<1>10. QED
  BY <1>3, <1>7, <1>8, <1>9 DEF Next, ResetCounts, Deliver, vars, mainVars, recvVars

\* What is queued for a connection fits it.
Mail == \A c \in Clients : \A i \in DOMAIN queue[c] : Fits(queue[c][i], c)

LEMMA MailStep ==
  ASSUME TypeOK, Registered, Addressed, Requesting, [Next]_vars
  PROVE  Mail'
<1> USE SmallVersions
<1>1. ASSUME NEW c \in Clients, NEW m, \E i \in DOMAIN queue[c] : m = queue[c][i]
      PROVE  Fits(m, c)'
  <2>1. m \in Message
    BY <1>1 DEF TypeOK
  <2>2. Fits(m, c)
    BY <1>1 DEF Addressed
  <2>3. QED
    BY <2>1, <2>2, FitsStable
<1>2. ASSUME NEW c \in Clients, NEW m \in Message, Push(c, m), Fits(m, c)
      PROVE  Mail'
  <2> SUFFICES ASSUME NEW d \in Clients, NEW n, \E i \in DOMAIN queue'[d] : n = queue'[d][i]
               PROVE  Fits(n, d)'
    BY DEF Mail, Fits
  <2>1. (\E j \in DOMAIN queue[d] : n = queue[d][j]) \/ (d = c /\ n = m)
    BY <1>2, PushEffect
  <2>2. Fits(m, c)'
    BY <1>2, FitsStable
  <2>3. QED
    BY <1>1, <2>1, <2>2
<1>3. ASSUME UNCHANGED queue PROVE Mail'
  BY <1>1, <1>3 DEF Mail
<1>4. ASSUME NEW c \in Clients, TellJoin(c) PROVE Mail'
  <2>1. Head(todo[c]) \in Clients /\ room[Head(todo[c])] = room[c]
    BY <1>4, HeadTailProperties, LenProperties, TailSameRoom DEF TellJoin, TypeOK, Addressed
  <2>2. Msg("join", c, 1) \in Message /\ Fits(Msg("join", c, 1), Head(todo[c]))
    BY <2>1, MsgType DEF Fits, News
  <2>3. QED
    BY <1>2, <1>4, <2>1, <2>2 DEF TellJoin
<1>5. ASSUME NEW c \in Clients, Greet(c) PROVE Mail'
  <2>1. Msg("hello", c, 1) \in Message /\ Fits(Msg("hello", c, 1), c)
    BY MsgType DEF Fits, News
  <2>2. QED
    BY <1>2, <1>5, <2>1 DEF Greet
<1>6. ASSUME NEW c \in Clients, TellLeft(c) PROVE Mail'
  <2>1. Head(todo[c]) \in Clients /\ room[Head(todo[c])] = room[c]
    BY <1>6, HeadTailProperties, LenProperties, TailSameRoom DEF TellLeft, TypeOK, Addressed
  <2>2. Msg("left", c, 0) \in Message /\ Fits(Msg("left", c, 0), Head(todo[c]))
    BY <1>6, <2>1, MsgType DEF Fits, News, TellLeft
  <2>3. QED
    BY <1>2, <1>6, <2>1, <2>2 DEF TellLeft
<1>7. ASSUME NEW c \in Clients, TellPeer(c) PROVE Mail'
  <2>1. Head(rtodo[c]) \in Clients /\ room[Head(rtodo[c])] = room[c]
    BY <1>7, HeadTailProperties, LenProperties, TailSameRoom DEF TellPeer, TypeOK, Addressed
  <2>2. /\ rmsg[c] \in Message /\ rmsg[c].peer = c
        /\ rmsg[c].kind \in {"update", "signal", "error"}
        /\ rmsg[c].kind = "update" => rmsg[c].info > 0
    BY <1>7 DEF TellPeer, TypeOK, Requesting
  <2>3. Fits(rmsg[c], Head(rtodo[c]))
    BY <2>1, <2>2 DEF Fits, News
  <2>4. QED
    BY <1>2, <1>7, <2>1, <2>2, <2>3 DEF TellPeer
<1>8. ASSUME NEW c \in Clients, Deliver(c) PROVE Mail'
  <2> SUFFICES ASSUME NEW d \in Clients, NEW n, \E i \in DOMAIN queue'[d] : n = queue'[d][i]
               PROVE  Fits(n, d)'
    BY DEF Mail, Fits
  <2>1. \E j \in DOMAIN queue[d] : n = queue[d][j]
    BY <1>8, DeliverEffect
  <2>2. QED
    BY <1>1, <2>1
<1>9. ASSUME NEW c \in Clients, Close(c) PROVE Mail'
  BY <1>1, <1>9 DEF Close, Mail, TypeOK
<1>10. ASSUME NEW c \in Clients, Main(c) PROVE Mail'
  BY <1>3, <1>4, <1>5, <1>6, <1>10 DEF Main, Connect, Refuse, Unregister
<1>11. ASSUME NEW c \in Clients, Recv(c) PROVE Mail'
  BY <1>3, <1>7, <1>11 DEF Recv, Update, Signal, TooMany, Done, Abort
<1>12. QED
  BY <1>3, <1>8, <1>9, <1>10, <1>11 DEF Next, ResetCounts, vars

\* What a connection has found or told its client is of its room.
Local == \A c, d \in Clients : snapshot[c][d] > 0 \/ known[c][d] > 0 => room[d] = room[c]

LEMMA LocalStep ==
  ASSUME TypeOK, Addressed, [Next]_vars
  PROVE  Local'
<1> USE SmallVersions
<1>0. Local
  BY DEF Addressed, Local
<1>1. ASSUME UNCHANGED <<snapshot, known>> PROVE Local'
  BY <1>0, <1>1, Stable DEF Local
<1>2. ASSUME NEW c \in Clients, Main(c) PROVE Local'
  <2>1. CASE Connect(c)
    BY <1>0, <2>1, Stable DEF Connect, Local, Peers, Members, TypeOK
  <2>2. QED
    BY <1>1, <1>2, <2>1 DEF Main, Refuse, TellJoin, Greet, Unregister, TellLeft
<1>3. ASSUME NEW c \in Clients, Recv(c) PROVE Local'
  BY <1>1, <1>3 DEF Recv, Update, Signal, TooMany, TellPeer, Done, Abort, mainVars
<1>4. ASSUME NEW c \in Clients, Deliver(c) PROVE Local'
  <2> DEFINE m == Head(queue[c])
  <2>1. room[m.peer] = room[c]
    BY <1>4, DeliverEffect DEF Addressed, Fits
  <2>2. \A d \in Clients : known'[c][d] > 0 =>
           d = m.peer \/ snapshot[c][d] > 0 \/ known[c][d] > 0
    <3>1. known'[c] = Learn(c, m)
      BY <1>4, DeliverEffect
    <3>2. \A d \in Clients : d # m.peer =>
             known'[c][d] = IF m.kind = "hello" /\ snapshot[c][d] > 0 THEN snapshot[c][d] ELSE known[c][d]
      BY <3>1 DEF Learn
    <3>3. QED
      BY <3>2
  <2>3. \A d \in Clients : known'[c][d] > 0 => room[d] = room[c]
    BY <1>0, <2>1, <2>2 DEF Local
  <2>4. snapshot' = snapshot /\ \A x \in Clients : x # c => known'[x] = known[x]
    BY <1>4, DeliverEffect DEF Deliver, mainVars
  <2>5. QED
    BY <1>0, <2>3, <2>4, Stable DEF Local
<1>5. ASSUME NEW c \in Clients, Close(c) PROVE Local'
  BY <1>0, <1>5, Stable DEF Close, Local, Nothing, TypeOK
<1>6. QED
  BY <1>1, <1>2, <1>3, <1>4, <1>5 DEF Next, ResetCounts, vars, mainVars

LEMMA AddressedStep ==
  ASSUME TypeOK, Registered, Addressed, Requesting, [Next]_vars
  PROVE  Addressed'
  BY TellableStep, MailStep, LocalStep DEF Addressed, Tellable, Mail, Local

-----------------------------------------------------------------------------
(* Nobody is missed *)

LEMMA QueuedPush ==
  ASSUME TypeOK, NEW c \in Clients, NEW m \in Message, Push(c, m),
         NEW x \in Clients, NEW K, NEW d
  PROVE  /\ Queued(x, K, d) => Queued(x, K, d)'
         /\ Open(c) /\ m.kind \in K /\ m.peer = d => Queued(c, K, d)'
  BY PushEffect DEF Queued

LEMMA NobodyMissedStep ==
  ASSUME TypeOK, Registered, Addressed, Requesting, NobodyMissed, [Next]_vars
  PROVE  NobodyMissed'
<1> USE SmallVersions
<1> SUFFICES ASSUME NEW a \in Clients, NEW b \in Clients, Together(a, b)'
             PROVE  Informed(a, b)'
  BY DEF NobodyMissed
<1>0. a # b /\ Open(a)' /\ info'[b] > 0 /\ room[a] = room[b] /\ room' = room
  BY Stable DEF Together
<1>a. Together(a, b) => Informed(a, b)
  BY DEF NobodyMissed
\* A step that moves nothing Informed looks at.
<1>b. ASSUME Open(a), info[b] > 0, UNCHANGED <<known, queue, phase, todo, snapshot>>
      PROVE  Informed(a, b)'
  BY <1>0, <1>a, <1>b DEF Together, Informed, Queued, HelloOwed
\* A step that sends something and takes nobody off the list of b.
<1>c. ASSUME Together(a, b), NEW p \in Clients, NEW m \in Message, Push(p, m),
             UNCHANGED <<known, snapshot>>, phase'[a] = phase[a], phase'[b] = phase[b],
             a \in Elems(todo[b]) => a \in Elems(todo'[b])
      PROVE  Informed(a, b)'
  <2>1. \A K, d : Queued(a, K, d) => Queued(a, K, d)'
    BY <1>c, QueuedPush
  <2>2. QED
    BY <1>a, <1>c, <2>1 DEF Informed, HelloOwed
<1>1. ASSUME NEW c \in Clients, Connect(c) PROVE Informed(a, b)'
  <2>1. PICK q \in Orders(Peers(c)) : todo' = [todo EXCEPT ![c] = q]
    BY <1>1 DEF Connect
  <2>2. Elems(q) = Peers(c)
    BY <2>1, OrdersType, MembersType DEF Peers
  <2>3. CASE c = a
    <3>1. b \in Peers(a) /\ info[b] > 0
      BY <1>0, <1>1, <2>3 DEF Connect, Peers, Members, TypeOK
    <3>2. snapshot'[a][b] > 0
      BY <1>1, <2>3, <3>1 DEF Connect, TypeOK
    <3>3. phase'[a] = "joining"
      BY <1>1, <2>3 DEF Connect, TypeOK
    <3>4. QED
      BY <3>2, <3>3 DEF Informed, HelloOwed
  <2>4. CASE c = b
    <3>1. Open(a)
      BY <1>0, <1>1, <2>4 DEF Connect, Open, TypeOK
    <3>2. a \in Peers(b)
      BY <1>0, <3>1 DEF Peers, Members, Registered, Open
    <3>3. phase'[b] = "joining" /\ a \in Elems(todo'[b])
      BY <1>1, <2>1, <2>2, <2>4, <3>2 DEF Connect, TypeOK
    <3>4. QED
      BY <3>3 DEF Informed
  <2>5. CASE c # a /\ c # b
    <3>1. /\ phase'[a] = phase[a] /\ phase'[b] = phase[b] /\ info'[b] = info[b]
          /\ todo'[b] = todo[b] /\ snapshot'[a] = snapshot[a]
          /\ queue' = queue /\ known' = known
      BY <1>1, <2>1, <2>5 DEF Connect, TypeOK
    <3>2. QED
      BY <1>0, <1>a, <3>1 DEF Together, Informed, Open, Queued, HelloOwed
  <2>6. QED
    BY <2>3, <2>4, <2>5
<1>2. ASSUME NEW c \in Clients, Refuse(c) PROVE Informed(a, b)'
  <2>1. /\ phase'[a] = phase[a] \/ phase'[a] = "refused"
        /\ phase'[b] = phase[b] \/ (phase[b] = "new" /\ phase'[b] = "refused")
        /\ UNCHANGED <<info, todo, snapshot, queue, known>>
    BY <1>2 DEF Refuse, TypeOK
  <2>2. QED
    BY <1>0, <1>a, <2>1 DEF Together, Informed, Open, Queued, HelloOwed
<1>3. ASSUME NEW c \in Clients, TellJoin(c) PROVE Informed(a, b)'
  <2> DEFINE p == Head(todo[c])
             m == Msg("join", c, 1)
  <2>1. p \in Clients /\ m \in Message /\ m.kind = "join" /\ m.peer = c
    BY <1>3, HeadTailProperties, LenProperties, MsgType DEF TellJoin, TypeOK, News
  <2>2. /\ Push(p, m) /\ UNCHANGED <<known, snapshot, phase, info>>
        /\ todo'[c] = Tail(todo[c]) /\ \A d \in Clients : d # c => todo'[d] = todo[d]
    BY <1>3 DEF TellJoin, TypeOK
  <2>3. Together(a, b)
    BY <1>0, <2>2 DEF Together, Open
  <2>4. CASE b = c /\ a = p
    <3>1. Queued(a, News, b)'
      BY <2>1, <2>2, <2>3, <2>4, QueuedPush DEF Together, News
    <3>2. QED
      BY <3>1 DEF Informed
  <2>5. CASE ~(b = c /\ a = p)
    <3>1. a \in Elems(todo[b]) => a \in Elems(todo'[b])
      <4>1. CASE b # c
        BY <2>2, <4>1
      <4>2. CASE b = c
        <5>1. todo[c] \in Seq(Clients) /\ todo[c] # <<>>
          BY <1>3 DEF TellJoin, TypeOK
        <5>2. \A i \in DOMAIN todo[c] : i # 1 => Tail(todo[c])[i - 1] = todo[c][i] /\ i - 1 \in DOMAIN Tail(todo[c])
          BY <5>1, HeadTailProperties, LenProperties
        <5>3. todo[c][1] = p
          BY <5>1
        <5>4. SUFFICES ASSUME NEW i \in DOMAIN todo[c], todo[c][i] = a
                       PROVE  \E j \in DOMAIN Tail(todo[c]) : Tail(todo[c])[j] = a
          BY <2>2, <4>2 DEF Elems
        <5>5. i # 1
          BY <2>5, <4>2, <5>3, <5>4
        <5>6. i - 1 \in DOMAIN Tail(todo[c]) /\ Tail(todo[c])[i - 1] = a
          BY <5>2, <5>4, <5>5
        <5>7. QED
          BY <5>6
      <4>3. QED
        BY <4>1, <4>2
    <3>2. QED
      BY <1>c, <2>1, <2>2, <2>3, <3>1
  <2>6. QED
    BY <2>4, <2>5
<1>4. ASSUME NEW c \in Clients, Greet(c) PROVE Informed(a, b)'
  <2> DEFINE m == Msg("hello", c, 1)
  <2>1. m \in Message /\ m.kind = "hello" /\ m.peer = c
    BY MsgType
  <2>2. /\ Push(c, m) /\ UNCHANGED <<known, snapshot, info, todo>> /\ Open(c) /\ todo[c] = <<>>
        /\ \A d \in Clients : d # c => phase'[d] = phase[d]
    BY <1>4 DEF Greet, TypeOK, Open
  <2>3. Together(a, b)
    BY <1>0, <2>2 DEF Together, Open
  <2>4. \A K, d : Queued(a, K, d) => Queued(a, K, d)'
    BY <2>1, <2>2, QueuedPush
  <2>5. Queued(c, {"hello"}, c)'
    BY <2>1, <2>2, QueuedPush
  <2>6. a \notin Elems(todo[c])
    BY <2>2 DEF Elems
  <2>7. HelloOwed(a) => HelloOwed(a)'
    <3>1. CASE a = c
      BY <2>5, <3>1 DEF HelloOwed
    <3>2. CASE a # c
      BY <2>2, <2>4, <3>2 DEF HelloOwed
    <3>3. QED
      BY <3>1, <3>2
  <2>8. QED
    BY <1>a, <2>2, <2>3, <2>4, <2>6, <2>7 DEF Informed
<1>5. ASSUME NEW c \in Clients, Unregister(c) PROVE Informed(a, b)'
  <2>1. /\ a # c /\ b # c
        /\ phase'[a] = phase[a] /\ phase'[b] = phase[b] /\ info'[b] = info[b] /\ todo'[b] = todo[b]
        /\ UNCHANGED <<snapshot, queue, known>>
    BY <1>0, <1>5 DEF Unregister, TypeOK, Open
  <2>2. QED
    BY <1>0, <1>a, <2>1 DEF Together, Informed, Open, Queued, HelloOwed
<1>6. ASSUME NEW c \in Clients, TellLeft(c) PROVE Informed(a, b)'
  <2> DEFINE p == Head(todo[c])
             m == Msg("left", c, 0)
  <2>1. p \in Clients /\ m \in Message
    BY <1>6, HeadTailProperties, LenProperties, MsgType DEF TellLeft, TypeOK
  <2>2. /\ Push(p, m) /\ UNCHANGED <<known, snapshot, phase, info>> /\ phase[c] = "leaving"
        /\ \A d \in Clients : d # c => todo'[d] = todo[d]
    BY <1>6 DEF TellLeft, TypeOK
  <2>3. Together(a, b) /\ b # c
    BY <1>0, <2>2 DEF Together, Open, Registered
  <2>4. QED
    BY <1>c, <2>1, <2>2, <2>3
<1>7. ASSUME NEW c \in Clients, Main(c) PROVE Informed(a, b)'
  BY <1>1, <1>2, <1>3, <1>4, <1>5, <1>6, <1>7 DEF Main
<1>8. ASSUME NEW c \in Clients, Recv(c) PROVE Informed(a, b)'
  <2>1. CASE TellPeer(c)
    <3>1. Head(rtodo[c]) \in Clients /\ rmsg[c] \in Message
      BY <2>1, HeadTailProperties, LenProperties DEF TellPeer, TypeOK
    <3>2. /\ Push(Head(rtodo[c]), rmsg[c])
          /\ UNCHANGED <<known, snapshot, phase, info, todo>>
      BY <2>1 DEF TellPeer, mainVars
    <3>3. Together(a, b)
      BY <1>0, <3>2 DEF Together, Open
    <3>4. QED
      BY <1>c, <3>1, <3>2, <3>3
  <2>2. CASE Update(c)
    <3>1. UNCHANGED <<known, queue, phase, todo, snapshot>>
      BY <2>2 DEF Update, mainVars
    <3>2. info[b] > 0
      <4>1. info' = info \/ (info[c] > 0 /\ info' = [info EXCEPT ![c] = @ + 1])
        BY <2>2 DEF Update
      <4>2. QED
        BY <1>0, <4>1 DEF TypeOK
    <3>3. QED
      BY <1>0, <1>b, <3>1, <3>2 DEF Open
  <2>3. CASE (\E target \in Clients : Signal(c, target)) \/ TooMany(c) \/ Done(c) \/ Abort(c)
    <3>1. UNCHANGED <<known, queue, phase, todo, snapshot, info>>
      BY <2>3 DEF Signal, TooMany, Done, Abort, mainVars
    <3>2. QED
      BY <1>0, <1>b, <3>1 DEF Open
  <2>4. QED
    BY <1>8, <2>1, <2>2, <2>3 DEF Recv
<1>9. ASSUME NEW c \in Clients, Deliver(c) PROVE Informed(a, b)'
  <2> DEFINE m == Head(queue[c])
  <2>1. UNCHANGED <<phase, snapshot, todo, info>> /\ phase[c] = "serving"
    BY <1>9 DEF Deliver, mainVars
  <2>2. Together(a, b)
    BY <1>0, <2>1 DEF Together, Open
  <2>3. Informed(a, b)
    BY <1>a, <2>2
  <2>4. CASE a # c
    <3>1. queue'[a] = queue[a] /\ known'[a] = known[a]
      BY <1>9, <2>4, DeliverEffect
    <3>2. QED
      BY <2>1, <2>3, <3>1 DEF Informed, Queued, HelloOwed
  <2>5. CASE a = c
    <3>1. known'[a] = Learn(a, m) /\ m \in Message
      BY <1>9, <2>5, DeliverEffect
    <3>2. \A d \in Clients :
             known'[a][d] = IF m.kind \in News \cup {"left"} /\ d = m.peer THEN m.info
                            ELSE IF m.kind = "hello" /\ snapshot[a][d] > 0 THEN snapshot[a][d]
                            ELSE known[a][d]
      BY <3>1 DEF Learn
    <3>3. Fits(m, a)
      BY <1>9, <2>5, DeliverEffect DEF Addressed
    <3>4. \A K, d : Queued(a, K, d) => Queued(a, K, d)' \/ (m.kind \in K /\ m.peer = d)
      BY <1>9, <2>5, DeliverEffect DEF Queued
    <3>5. m.kind = "left" => m.peer # b
      BY <2>2, <3>3 DEF Fits, Together, Registered
    <3>6. known[a][b] > 0 => known'[a][b] > 0
      BY <3>2, <3>3, <3>5 DEF Fits
    <3>7. Queued(a, News, b) => Informed(a, b)'
      <4>1. m.kind \in News /\ m.peer = b => known'[a][b] > 0
        BY <3>2, <3>3 DEF Fits
      <4>2. QED
        BY <3>4, <4>1 DEF Informed
    <3>8. snapshot[a][b] > 0 /\ HelloOwed(a) => Informed(a, b)'
      <4>1. m.kind = "hello" /\ snapshot[a][b] > 0 => known'[a][b] > 0
        BY <3>2 DEF News
      <4>2. HelloOwed(a) => Queued(a, {"hello"}, a)
        BY <2>1, <2>5 DEF HelloOwed
      <4>3. QED
        BY <2>1, <3>4, <4>1, <4>2 DEF Informed, HelloOwed
    <3>9. QED
      BY <2>1, <2>3, <3>6, <3>7, <3>8 DEF Informed
  <2>6. QED
    BY <2>4, <2>5
<1>10. ASSUME NEW c \in Clients, Close(c) PROVE Informed(a, b)'
  <2>1. /\ c # a /\ phase[c] = "serving" /\ phase'[c] = "closing"
        /\ phase'[a] = phase[a] /\ queue'[a] = queue[a] /\ snapshot'[a] = snapshot[a]
        /\ known'[a] = known[a] /\ (b # c => phase'[b] = phase[b]) /\ UNCHANGED <<todo, info>>
    BY <1>0, <1>10 DEF Close, TypeOK, Open
  <2>2. Together(a, b)
    BY <1>0, <2>1 DEF Together, Open
  <2>3. QED
    BY <1>a, <2>1, <2>2 DEF Informed, Queued, HelloOwed
<1>11. CASE ResetCounts \/ UNCHANGED vars
  BY <1>0, <1>b, <1>11 DEF ResetCounts, vars, mainVars, Open
<1>12. QED
  BY <1>7, <1>8, <1>9, <1>10, <1>11 DEF Next

-----------------------------------------------------------------------------
(* What moves a connection and its queue *)

\* A connection moves by its own steps.
LEMMA Standstill ==
  ASSUME TypeOK, [Next]_vars, NEW x \in Clients
  PROVE  \/ Main(x) \/ Recv(x) \/ Close(x)
         \/ UNCHANGED <<phase[x], info[x], todo[x], recv[x], rtodo[x], rmsg[x]>>
<1> USE DEF TypeOK
<1>1. ASSUME NEW c \in Clients, c # x, Main(c)
      PROVE  UNCHANGED <<phase[x], info[x], todo[x], recv[x], rtodo[x], rmsg[x]>>
  BY <1>1 DEF Main, Connect, Refuse, TellJoin, Greet, Unregister, TellLeft, recvVars
<1>2. ASSUME NEW c \in Clients, c # x, Recv(c)
      PROVE  UNCHANGED <<phase[x], info[x], todo[x], recv[x], rtodo[x], rmsg[x]>>
  <2>1. ASSUME NEW m, NEW q, Start(c, m, q) PROVE UNCHANGED <<recv[x], rtodo[x], rmsg[x]>>
    BY <1>2, <2>1 DEF Start
  <2>2. CASE Update(c)
    <3>1. UNCHANGED <<phase, todo>> /\ info'[x] = info[x]
      BY <1>2, <2>2 DEF Update, mainVars
    <3>2. UNCHANGED <<recv[x], rtodo[x], rmsg[x]>>
      BY <2>1, <2>2 DEF Update, recvVars
    <3>3. QED
      BY <3>1, <3>2
  <2>3. ASSUME NEW target \in Clients, Signal(c, target)
        PROVE  UNCHANGED <<phase[x], info[x], todo[x], recv[x], rtodo[x], rmsg[x]>>
    BY <2>1, <2>3 DEF Signal, mainVars, recvVars
  <2>4. CASE TooMany(c)
    BY <2>1, <2>4 DEF TooMany, mainVars
  <2>5. CASE TellPeer(c)
    BY <1>2, <2>5 DEF TellPeer, mainVars
  <2>6. CASE Done(c) \/ Abort(c)
    BY <1>2, <2>6 DEF Done, Abort, Forget, mainVars
  <2>7. QED
    BY <1>2, <2>2, <2>3, <2>4, <2>5, <2>6 DEF Recv
<1>3. ASSUME NEW c \in Clients, c # x, Close(c)
      PROVE  UNCHANGED <<phase[x], info[x], todo[x], recv[x], rtodo[x], rmsg[x]>>
  BY <1>3 DEF Close, Forget, recvVars
<1>4. ASSUME \/ ResetCounts \/ UNCHANGED vars \/ \E c \in Clients : Deliver(c)
      PROVE  UNCHANGED <<phase[x], info[x], todo[x], recv[x], rtodo[x], rmsg[x]>>
  BY <1>4 DEF ResetCounts, Deliver, vars, mainVars, recvVars
<1>5. QED
  BY <1>1, <1>2, <1>3, <1>4 DEF Next

OneRequestOf(c) ==
  /\ phase[c] \in {"new", "refused", "joining"} => recv[c] = "none"
  /\ phase[c] = "joining" => info[c] = 1
  /\ recv[c] # "sending" => rtodo[c] = <<>>
  /\ Open(c) /\ recv[c] = "sending" /\ rmsg[c].kind = "update" => rmsg[c].info = info[c]

LEMMA OneRequestStep ==
  ASSUME TypeOK, Registered, OneRequest, [Next]_vars
  PROVE  OneRequest'
<1> SUFFICES ASSUME NEW c \in Clients PROVE OneRequestOf(c)'
  BY DEF OneRequest, OneRequestOf, Open
<1>0. OneRequestOf(c)
  BY DEF OneRequest, OneRequestOf
<1> USE SmallVersions DEF TypeOK
<1>1. CASE Main(c)
  <2>1. CASE Connect(c)
    BY <1>0, <2>1 DEF Connect, OneRequestOf, recvVars
  <2>2. CASE Refuse(c)
    BY <1>0, <2>2 DEF Refuse, OneRequestOf, Open, recvVars
  <2>3. CASE TellJoin(c) \/ TellLeft(c)
    BY <1>0, <2>3 DEF TellJoin, TellLeft, OneRequestOf, Open, recvVars
  <2>4. CASE Greet(c)
    BY <1>0, <2>4 DEF Greet, OneRequestOf
  <2>5. CASE Unregister(c)
    BY <1>0, <2>5 DEF Unregister, OneRequestOf, Open, recvVars
  <2>6. QED
    BY <1>1, <2>1, <2>2, <2>3, <2>4, <2>5 DEF Main
<1>2. CASE Recv(c)
  <2>1. CASE Update(c)
    <3>1. phase' = phase /\ recv[c] = "reading"
      BY <2>1 DEF Update, mainVars
    <3>2. CASE info[c] > 0
      <4>1. /\ info'[c] = info[c] + 1 /\ recv'[c] = "sending"
            /\ rmsg'[c] = Msg("update", c, info[c] + 1)
        BY <2>1, <3>2 DEF Update, Start
      <4>2. phase[c] \notin {"new", "refused", "joining"}
        BY <1>0, <3>1 DEF OneRequestOf
      <4>3. rmsg'[c].info = info'[c]
        BY <4>1 DEF Msg
      <4>4. QED
        BY <3>1, <4>1, <4>2, <4>3 DEF OneRequestOf
    <3>3. CASE ~(info[c] > 0)
      BY <1>0, <2>1, <3>3 DEF Update, OneRequestOf, Open, mainVars, recvVars
    <3>4. QED
      BY <3>2, <3>3
  <2>2. ASSUME NEW k \in {"signal", "error"}, NEW q, Start(c, Msg(k, c, 1), q), recv[c] = "reading",
               UNCHANGED <<phase, info>>
        PROVE  OneRequestOf(c)'
    <3>1. recv'[c] = "sending" /\ rmsg'[c] = Msg(k, c, 1)
      BY <2>2 DEF Start
    <3>2. rmsg'[c].kind # "update"
      BY <3>1 DEF Msg
    <3>3. QED
      BY <1>0, <2>2, <3>1, <3>2 DEF OneRequestOf
  <2>3. ASSUME NEW target \in Clients, Signal(c, target) PROVE OneRequestOf(c)'
    <3>1. CASE target \in Members(room[c])
      BY <2>2, <2>3, <3>1 DEF Signal, mainVars
    <3>2. CASE target \notin Members(room[c])
      BY <1>0, <2>3, <3>2 DEF Signal, OneRequestOf, Open, mainVars, recvVars
    <3>3. QED
      BY <3>1, <3>2
  <2>4. CASE TooMany(c)
    BY <2>2, <2>4 DEF TooMany, mainVars
  <2>5. CASE TellPeer(c)
    BY <1>0, <2>5 DEF TellPeer, OneRequestOf, Open, mainVars
  <2>6. CASE Done(c) \/ Abort(c)
    <3>1. /\ phase' = phase /\ info' = info /\ rtodo'[c] = <<>> /\ recv'[c] # "sending"
          /\ recv[c] # "none"
      BY <2>6 DEF Done, Abort, Forget, mainVars
    <3>2. QED
      BY <1>0, <3>1 DEF OneRequestOf
  <2>7. QED
    BY <1>2, <2>1, <2>3, <2>4, <2>5, <2>6 DEF Recv
<1>3. CASE Close(c)
  <2>1. phase'[c] = "closing" /\ ~Open(c)'
    BY <1>3 DEF Close, Open
  <2>2. recv'[c] # "sending" => rtodo'[c] = <<>>
    BY <1>0, <1>3 DEF Close, Forget, OneRequestOf, recvVars
  <2>3. QED
    BY <2>1, <2>2 DEF OneRequestOf
<1>4. CASE UNCHANGED <<phase[c], info[c], todo[c], recv[c], rtodo[c], rmsg[c]>>
  BY <1>0, <1>4 DEF OneRequestOf, Open
<1>5. QED
  BY <1>1, <1>2, <1>3, <1>4, Standstill

\* The message m is sent to x.
Sent(m, x) ==
  \/ m.kind = "join" /\ m.info = 1 /\ TellJoin(m.peer) /\ x = Head(todo[m.peer])
  \/ m.kind = "left" /\ m.info = 0 /\ TellLeft(m.peer) /\ x = Head(todo[m.peer])
  \/ m.kind = "hello" /\ m.peer = x
  \/ /\ m.kind \in {"update", "signal", "error"} /\ m = rmsg[m.peer]
     /\ TellPeer(m.peer) /\ x = Head(rtodo[m.peer])

Undisturbed(x) == UNCHANGED <<queue[x], known[x], snapshot[x]>>

Receives(x, m) ==
  /\ queue'[x] = Append(queue[x], m) /\ m.peer \in Clients
  /\ UNCHANGED <<known[x], snapshot[x]>>

Moved(x) ==
  \/ Undisturbed(x)
  \/ \E m \in Message : Open(x) /\ Sent(m, x) /\ Receives(x, m)
  \/ Deliver(x) \/ Close(x)
  \/ Connect(x) /\ UNCHANGED <<queue[x], known[x]>>

LEMMA Traffic ==
  ASSUME TypeOK, Requesting, [Next]_vars, NEW x \in Clients
  PROVE  Moved(x)
<1> USE SmallVersions
<1>1. ASSUME NEW p \in Clients, NEW m \in Message, Push(p, m), UNCHANGED <<known, snapshot>>,
             m.peer \in Clients, Sent(m, p)
      PROVE  Moved(x)
  <2>1. CASE p = x /\ Open(x)
    <3>1. queue'[x] = Append(queue[x], m)
      BY <1>1, <2>1 DEF Push, TypeOK
    <3>2. QED
      BY <1>1, <2>1, <3>1 DEF Moved, Receives
  <2>2. CASE p # x \/ ~Open(x)
    <3>1. queue'[x] = queue[x]
      BY <1>1, <2>2 DEF Push, TypeOK
    <3>2. QED
      BY <1>1, <3>1 DEF Moved, Undisturbed
  <2>3. QED
    BY <2>1, <2>2
<1>2. ASSUME NEW c \in Clients, Main(c) PROVE Moved(x)
  <2>1. CASE TellJoin(c)
    <3>1. /\ Head(todo[c]) \in Clients /\ Msg("join", c, 1) \in Message
          /\ Msg("join", c, 1).peer = c /\ Msg("join", c, 1).kind = "join" /\ Msg("join", c, 1).info = 1
      BY <2>1, HeadTailProperties, LenProperties, MsgType DEF TellJoin, TypeOK, News
    <3>2. Sent(Msg("join", c, 1), Head(todo[c]))
      BY <2>1, <3>1 DEF Sent
    <3>3. QED
      BY <1>1, <2>1, <3>1, <3>2 DEF TellJoin
  <2>2. CASE TellLeft(c)
    <3>1. /\ Head(todo[c]) \in Clients /\ Msg("left", c, 0) \in Message
          /\ Msg("left", c, 0).peer = c /\ Msg("left", c, 0).kind = "left" /\ Msg("left", c, 0).info = 0
      BY <2>2, HeadTailProperties, LenProperties, MsgType DEF TellLeft, TypeOK
    <3>2. Sent(Msg("left", c, 0), Head(todo[c]))
      BY <2>2, <3>1 DEF Sent
    <3>3. QED
      BY <1>1, <2>2, <3>1, <3>2 DEF TellLeft
  <2>3. CASE Greet(c)
    <3>1. /\ Msg("hello", c, 1) \in Message
          /\ Msg("hello", c, 1).peer = c /\ Msg("hello", c, 1).kind = "hello"
      BY MsgType
    <3>2. Sent(Msg("hello", c, 1), c)
      BY <3>1 DEF Sent
    <3>3. QED
      BY <1>1, <2>3, <3>1, <3>2 DEF Greet
  <2>4. CASE Connect(c)
    <3>1. queue' = queue /\ known' = known /\ (c # x => snapshot'[x] = snapshot[x])
      BY <2>4 DEF Connect, TypeOK
    <3>2. QED
      BY <2>4, <3>1 DEF Moved, Undisturbed
  <2>5. CASE Refuse(c) \/ Unregister(c)
    BY <2>5 DEF Refuse, Unregister, Moved, Undisturbed
  <2>6. QED
    BY <1>2, <2>1, <2>2, <2>3, <2>4, <2>5 DEF Main
<1>3. ASSUME NEW c \in Clients, Recv(c) PROVE Moved(x)
  <2>1. CASE TellPeer(c)
    <3>1. Head(rtodo[c]) \in Clients /\ rmsg[c] \in Message
      BY <2>1, HeadTailProperties, LenProperties DEF TellPeer, TypeOK
    <3>2. rmsg[c].peer = c /\ rmsg[c].kind \in {"update", "signal", "error"}
      BY <2>1 DEF TellPeer, Requesting
    <3>3. Sent(rmsg[c], Head(rtodo[c]))
      BY <2>1, <3>2 DEF Sent
    <3>4. UNCHANGED <<known, snapshot>> /\ Push(Head(rtodo[c]), rmsg[c])
      BY <2>1 DEF TellPeer, mainVars
    <3>5. QED
      BY <1>1, <3>1, <3>2, <3>3, <3>4
  <2>2. CASE ~TellPeer(c)
    BY <1>3, <2>2 DEF Recv, Update, Signal, TooMany, Done, Abort, mainVars, Moved, Undisturbed
  <2>3. QED
    BY <2>1, <2>2
<1>4. ASSUME NEW c \in Clients, Deliver(c) PROVE Moved(x)
  <2>1. CASE c = x
    BY <1>4, <2>1 DEF Moved
  <2>2. CASE c # x
    <3>1. queue'[x] = queue[x] /\ known'[x] = known[x] /\ snapshot' = snapshot
      BY <1>4, <2>2 DEF Deliver, mainVars, TypeOK
    <3>2. QED
      BY <3>1 DEF Moved, Undisturbed
  <2>3. QED
    BY <2>1, <2>2
<1>5. ASSUME NEW c \in Clients, Close(c) PROVE Moved(x)
  <2>1. CASE c = x
    BY <1>5, <2>1 DEF Moved
  <2>2. CASE c # x
    <3>1. queue'[x] = queue[x] /\ known'[x] = known[x] /\ snapshot'[x] = snapshot[x]
      BY <1>5, <2>2 DEF Close, TypeOK
    <3>2. QED
      BY <3>1 DEF Moved, Undisturbed
  <2>3. QED
    BY <2>1, <2>2
<1>6. CASE ResetCounts \/ UNCHANGED vars
  BY <1>6 DEF ResetCounts, vars, mainVars, Moved, Undisturbed
<1>7. QED
  BY <1>2, <1>3, <1>4, <1>5, <1>6 DEF Next

\* A connection becomes reachable when it registers, and until it is closed.
LEMMA OpenStep ==
  ASSUME TypeOK, [Next]_vars, NEW x \in Clients
  PROVE  /\ Open(x) /\ ~Open(x)' => Close(x)
         /\ ~Open(x) /\ Open(x)' => Connect(x)
<1> USE DEF TypeOK, Open
<1>1. CASE Main(x)
  BY <1>1 DEF Main, Connect, Refuse, TellJoin, Greet, Unregister, TellLeft
<1>2. CASE Recv(x)
  BY <1>2 DEF Recv, Update, Signal, TooMany, TellPeer, Done, Abort, mainVars
<1>3. CASE Close(x)
  BY <1>3 DEF Close
<1>4. CASE UNCHANGED phase[x]
  BY <1>4
<1>5. QED
  BY <1>1, <1>2, <1>3, <1>4, Standstill

LEMMA UnpluggedStep ==
  ASSUME TypeOK, Requesting, Unplugged, [Next]_vars
  PROVE  Unplugged'
<1> SUFFICES ASSUME NEW x \in Clients, ~Open(x)' PROVE queue'[x] = <<>> /\ known'[x] = Nothing
  BY DEF Unplugged, Nothing
<1>1. CASE Close(x)
  BY <1>1 DEF Close, TypeOK
<1>2. CASE ~Close(x)
  <2>1. ~Open(x)
    BY <1>2, OpenStep
  <2>2. ~Deliver(x) /\ ~Connect(x)
    BY <2>1 DEF Deliver, Connect, Open, TypeOK
  <2>3. Undisturbed(x)
    BY <1>2, <2>1, <2>2, Traffic DEF Moved
  <2>4. QED
    BY <2>1, <2>3 DEF Unplugged, Undisturbed
<1>3. QED
  BY <1>1, <1>2

\* A connection that is leaving for good either has just left the table, or
\* was leaving for good before.
LEMMA LeaverStep ==
  ASSUME TypeOK, [Next]_vars, NEW d \in Clients, phase'[d] = "leaving", recv'[d] = "over"
  PROVE  \/ Unregister(d)
         \/ phase[d] = "leaving" /\ recv[d] = "over"
<1> USE DEF TypeOK
<1>1. CASE Main(d)
  BY <1>1 DEF Main, Connect, Refuse, TellJoin, Greet, TellLeft, recvVars
<1>2. CASE Recv(d)
  <2>1. phase[d] = "leaving"
    BY <1>2 DEF Recv, Update, Signal, TooMany, TellPeer, Done, Abort, mainVars
  <2>2. recv' = recv \/ recv'[d] \in {"sending", "reading", "late"}
    BY <1>2, <2>1 DEF Recv, Update, Signal, TooMany, TellPeer, Done, Abort, Start, recvVars
  <2>3. QED
    BY <2>1, <2>2
<1>3. CASE Close(d)
  BY <1>3 DEF Close
<1>4. CASE UNCHANGED <<phase[d], recv[d]>>
  BY <1>4
<1>5. QED
  BY <1>1, <1>2, <1>3, <1>4, Standstill

\* A message goes to the end of the queue, and its head is what is delivered.
LEMMA ReceivesEffect ==
  ASSUME TypeOK, NEW x \in Clients, NEW m \in Message, Receives(x, m)
  PROVE  /\ Len(queue[x]) \in Nat /\ DOMAIN queue[x] = 1..Len(queue[x])
         /\ DOMAIN queue'[x] = 1..(Len(queue[x]) + 1)
         /\ \A i \in DOMAIN queue[x] : queue'[x][i] = queue[x][i]
         /\ queue'[x][Len(queue[x]) + 1] = m
<1>1. queue[x] \in Seq(Message)
  BY DEF TypeOK
<1>2. QED
  BY <1>1, AppendProperties, LenProperties DEF Receives

LEMMA DeliverShifts ==
  ASSUME TypeOK, NEW x \in Clients, Deliver(x)
  PROVE  /\ DOMAIN queue[x] \subseteq Nat \ {0} /\ DOMAIN queue'[x] \subseteq Nat \ {0}
         /\ \A i \in DOMAIN queue'[x] : i + 1 \in DOMAIN queue[x] /\ queue'[x][i] = queue[x][i + 1]
         /\ \A i \in DOMAIN queue[x] :
              i # 1 => i - 1 \in DOMAIN queue'[x] /\ queue'[x][i - 1] = queue[x][i]
         /\ 1 \in DOMAIN queue[x] /\ queue[x][1] = Head(queue[x]) /\ Head(queue[x]) \in Message
<1>1. queue[x] \in Seq(Message) /\ queue[x] # <<>> /\ queue'[x] = Tail(queue[x])
  BY DEF TypeOK, Deliver
<1>2. Len(queue[x]) \in Nat /\ DOMAIN queue[x] = 1..Len(queue[x])
  BY <1>1
<1>3. QED
  BY <1>1, <1>2, HeadTailProperties, LenProperties

LEMMA PushReceives ==
  ASSUME TypeOK, NEW x \in Clients, NEW m \in Message, Push(x, m), Open(x),
         UNCHANGED <<known, snapshot>>
  PROVE  Receives(x, m)
<1>1. queue'[x] = Append(queue[x], m)
  BY DEF Push, TypeOK
<1>2. m.peer \in Clients
  BY DEF Message
<1>3. QED
  BY <1>1, <1>2 DEF Receives

LEMMA ElemsOfTail ==
  ASSUME NEW q \in Seq(Clients), q # <<>>, NEW c \in Elems(q), c # Head(q)
  PROVE  c \in Elems(Tail(q))
<1>1. PICK i \in DOMAIN q : q[i] = c
  BY DEF Elems
<1>2. i - 1 \in DOMAIN Tail(q) /\ Tail(q)[i - 1] = c
  BY <1>1, HeadTailProperties, LenProperties
<1>3. QED
  BY <1>2 DEF Elems

\* Who tells no Join and no Update sends none.
LEMMA NoNews ==
  ASSUME NEW m \in Message, NEW x \in Clients, Sent(m, x), NEW d \in Clients,
         ~TellJoin(d), ~TellPeer(d)
  PROVE  ~(m.kind \in News /\ m.peer = d)
  BY DEF Sent, News

LastLeft(c, d) ==
  \A i, j \in DOMAIN queue[c] :
    queue[c][i].kind = "left" /\ queue[c][i].peer = d /\ j \in NewsOf(c, d) => j < i

LEMMA LeftIsLastStep ==
  ASSUME TypeOK, Requesting, Addressed, LeftIsLast, [Next]_vars
  PROVE  LeftIsLast'
<1> SUFFICES ASSUME NEW c \in Clients, NEW d \in Clients, phase'[d] = "leaving", recv'[d] = "over"
             PROVE  LastLeft(c, d)'
  BY DEF LeftIsLast, LastLeft
<1>1. CASE Unregister(d)
  <2>1. queue' = queue /\ phase[d] # "leaving"
    BY <1>1 DEF Unregister
  <2>2. \A i \in DOMAIN queue[c] : ~(queue[c][i].kind = "left" /\ queue[c][i].peer = d)
    BY <2>1 DEF Addressed, Fits
  <2>3. QED
    BY <2>1, <2>2 DEF LastLeft
<1>2. CASE phase[d] = "leaving" /\ recv[d] = "over"
  <2>0. LastLeft(c, d)
    BY <1>2 DEF LeftIsLast, LastLeft
  <2>1. CASE queue'[c] = queue[c]
    BY <2>0, <2>1 DEF LastLeft, NewsOf
  <2>2. ASSUME NEW m \in Message, Sent(m, c), Receives(c, m) PROVE LastLeft(c, d)'
    <3>1. ~(m.kind \in News /\ m.peer = d)
      BY <1>2, <2>2, NoNews DEF TellJoin, TellPeer
    <3>2. ASSUME NEW j \in NewsOf(c, d)' PROVE j \in NewsOf(c, d)
      <4>1. j # Len(queue[c]) + 1
        BY <2>2, <3>1, <3>2, ReceivesEffect DEF NewsOf
      <4>2. j \in DOMAIN queue[c] /\ queue'[c][j] = queue[c][j]
        BY <2>2, <3>2, <4>1, ReceivesEffect DEF NewsOf
      <4>3. QED
        BY <3>2, <4>2 DEF NewsOf
    <3>3. SUFFICES ASSUME NEW i \in DOMAIN queue'[c], NEW j \in NewsOf(c, d)',
                          queue'[c][i].kind = "left", queue'[c][i].peer = d
                   PROVE  j < i
      BY DEF LastLeft
    <3>4. j \in NewsOf(c, d) /\ j \in DOMAIN queue[c]
      BY <3>2, <3>3 DEF NewsOf
    <3>5. CASE i \in DOMAIN queue[c]
      BY <2>0, <2>2, <3>3, <3>4, <3>5, ReceivesEffect DEF LastLeft
    <3>6. CASE i \notin DOMAIN queue[c]
      BY <2>2, <3>4, <3>6, ReceivesEffect
    <3>7. QED
      BY <3>5, <3>6
  <2>3. CASE Deliver(c)
    <3>1. SUFFICES ASSUME NEW i \in DOMAIN queue'[c], NEW j \in NewsOf(c, d)',
                          queue'[c][i].kind = "left", queue'[c][i].peer = d
                   PROVE  j < i
      BY DEF LastLeft
    <3>2. /\ j \in DOMAIN queue'[c] /\ j \in Nat /\ i \in Nat
          /\ i + 1 \in DOMAIN queue[c] /\ queue'[c][i] = queue[c][i + 1]
          /\ j + 1 \in DOMAIN queue[c] /\ queue'[c][j] = queue[c][j + 1]
      BY <2>3, <3>1, DeliverShifts DEF NewsOf
    <3>3. j + 1 \in NewsOf(c, d)
      BY <3>1, <3>2 DEF NewsOf
    <3>4. j + 1 < i + 1
      BY <2>0, <3>1, <3>2, <3>3 DEF LastLeft
    <3>5. QED
      BY <3>2, <3>4
  <2>4. CASE Close(c)
    <3>1. queue'[c] = <<>>
      BY <2>4 DEF Close, TypeOK
    <3>2. QED
      BY <3>1 DEF LastLeft
  <2>5. QED
    BY <2>1, <2>2, <2>3, <2>4, Traffic DEF Moved, Undisturbed
<1>3. QED
  BY <1>1, <1>2, LeaverStep

-----------------------------------------------------------------------------
(* What is queued about a peer *)

LEMMA QueuedKept ==
  ASSUME TypeOK, NEW c \in Clients, NEW d \in Clients, NEW kinds, Queued(c, kinds, d)
  PROVE  /\ queue'[c] = queue[c] => Queued(c, kinds, d)'
         /\ \A m \in Message : Receives(c, m) => Queued(c, kinds, d)'
<1>1. PICK i \in DOMAIN queue[c] : queue[c][i].kind \in kinds /\ queue[c][i].peer = d
  BY DEF Queued
<1>2. ASSUME queue'[c] = queue[c] PROVE Queued(c, kinds, d)'
  BY <1>1, <1>2 DEF Queued
<1>3. ASSUME NEW m \in Message, Receives(c, m) PROVE Queued(c, kinds, d)'
  <2>1. i \in DOMAIN queue'[c] /\ queue'[c][i] = queue[c][i]
    BY <1>1, <1>3, ReceivesEffect
  <2>2. QED
    BY <1>1, <2>1 DEF Queued
<1>4. QED
  BY <1>2, <1>3

LEMMA QueuedBefore ==
  ASSUME TypeOK, NEW c \in Clients, NEW d \in Clients, NEW kinds, Queued(c, kinds, d)'
  PROVE  /\ queue'[c] = queue[c] => Queued(c, kinds, d)
         /\ \A m \in Message : Receives(c, m) /\ ~(m.kind \in kinds /\ m.peer = d) => Queued(c, kinds, d)
         /\ Deliver(c) => Queued(c, kinds, d)
<1>1. PICK i \in DOMAIN queue'[c] : queue'[c][i].kind \in kinds /\ queue'[c][i].peer = d
  BY DEF Queued
<1>2. ASSUME queue'[c] = queue[c] PROVE Queued(c, kinds, d)
  BY <1>1, <1>2 DEF Queued
<1>3. ASSUME NEW m \in Message, Receives(c, m), ~(m.kind \in kinds /\ m.peer = d)
      PROVE  Queued(c, kinds, d)
  <2>1. i # Len(queue[c]) + 1
    BY <1>1, <1>3, ReceivesEffect
  <2>2. i \in DOMAIN queue[c] /\ queue'[c][i] = queue[c][i]
    BY <1>1, <1>3, <2>1, ReceivesEffect
  <2>3. QED
    BY <1>1, <2>2 DEF Queued
<1>4. ASSUME Deliver(c) PROVE Queued(c, kinds, d)
  <2>1. i + 1 \in DOMAIN queue[c] /\ queue'[c][i] = queue[c][i + 1]
    BY <1>1, <1>4, DeliverShifts
  <2>2. QED
    BY <1>1, <2>1 DEF Queued
<1>5. QED
  BY <1>2, <1>3, <1>4

LEMMA QueuedSent ==
  ASSUME TypeOK, NEW c \in Clients, NEW m \in Message, Receives(c, m), NEW kinds, m.kind \in kinds
  PROVE  Queued(c, kinds, m.peer)'
<1> DEFINE n == Len(queue[c]) + 1
<1>1. n \in DOMAIN queue'[c] /\ queue'[c][n] = m
  BY ReceivesEffect
<1>2. m.peer = m.peer' /\ m = m'
  OBVIOUS
<1>3. QED
  BY <1>1 DEF Queued

-----------------------------------------------------------------------------
(* Who has left is forgotten *)

\* A peer that has left: it is known, or a message of it that says otherwise
\* is queued, and whether the client will be told.
Remembered(c, d) == known[c][d] > 0 \/ Queued(c, News, d)
WillForget(c, d) == c \in Elems(todo[d]) \/ Queued(c, {"left"}, d)

\* Whoever still has to be told is told, or still has to be.
LEMMA StillToTell ==
  ASSUME TypeOK, [Next]_vars, NEW c \in Clients, NEW d \in Clients,
         Open(c), phase[d] = "leaving", c \in Elems(todo[d])
  PROVE  WillForget(c, d)'
<1> USE DEF TypeOK
<1>1. CASE TellLeft(d)
  <2>1. CASE Head(todo[d]) = c
    <3>1. PICK m \in Message : m = Msg("left", d, 0) /\ m.kind = "left" /\ m.peer = d
      BY MsgType, SmallVersions
    <3>2. Receives(c, m)
      BY <1>1, <2>1, <3>1, PushReceives DEF TellLeft
    <3>3. Queued(c, {"left"}, m.peer)'
      BY <3>1, <3>2, QueuedSent
    <3>4. QED
      BY <3>1, <3>3 DEF WillForget, Queued
  <2>2. CASE Head(todo[d]) # c
    <3>1. todo'[d] = Tail(todo[d]) /\ todo[d] \in Seq(Clients) /\ todo[d] # <<>>
      BY <1>1 DEF TellLeft
    <3>2. c \in Elems(Tail(todo[d]))
      BY <2>2, <3>1, ElemsOfTail
    <3>3. QED
      BY <3>1, <3>2 DEF WillForget, Elems
  <2>3. QED
    BY <2>1, <2>2
<1>2. CASE ~TellLeft(d)
  <2>1. CASE Main(d)
    BY <1>2, <2>1 DEF Main, Connect, Refuse, TellJoin, Greet, Unregister
  <2>2. CASE Recv(d)
    BY <2>2 DEF Recv, Update, Signal, TooMany, TellPeer, Done, Abort, mainVars, WillForget
  <2>3. CASE Close(d)
    BY <2>3 DEF Close, WillForget
  <2>4. CASE todo'[d] = todo[d]
    BY <2>4 DEF WillForget
  <2>5. QED
    BY <2>1, <2>2, <2>3, <2>4, Standstill
<1>3. QED
  BY <1>1, <1>2

LEMMA ForgottenStep ==
  ASSUME IInv, Unplugged, LeftIsLast, Forgotten, [Next]_vars
  PROVE  Forgotten'
<1> USE SmallVersions DEF IInv
<1> SUFFICES ASSUME NEW c \in Clients, NEW d \in Clients, Open(c)', phase'[d] = "leaving",
                    recv'[d] = "over", snapshot'[c][d] = 0, Remembered(c, d)'
             PROVE  WillForget(c, d)'
  BY DEF Forgotten, Remembered, WillForget
<1>1. ~Connect(c) /\ ~Close(c)
  <2>1. CASE Connect(c)
    <3>1. ~Open(c) /\ queue' = queue /\ known' = known
      BY <2>1 DEF Connect, Open
    <3>2. queue'[c] = <<>> /\ known'[c] = Nothing
      BY <3>1 DEF Unplugged
    <3>3. ~Remembered(c, d)'
      BY <3>2 DEF Remembered, Queued, Nothing
    <3>4. QED
      BY <3>3
  <2>2. CASE Close(c)
    BY <2>2 DEF Close, Open, TypeOK
  <2>3. QED
    BY <2>1, <2>2
<1>2. Open(c)
  BY <1>1, OpenStep
<1>3. CASE Unregister(d)
  <2>1. queue' = queue /\ known' = known
    BY <1>3 DEF Unregister
  <2>2. Remembered(c, d)
    BY <2>1 DEF Remembered, Queued
  <2>3. room[d] = room[c]
    BY <2>2 DEF Remembered, Queued, Addressed, Fits, News
  <2>4. c \in Peers(d)
    <3>1. c # d
      BY DEF Open
    <3>2. info[c] > 0
      BY <1>2 DEF Open, Registered
    <3>3. QED
      BY <2>3, <3>1, <3>2 DEF Peers, Members
  <2>5. PICK q \in Orders(Peers(d)) : todo' = [todo EXCEPT ![d] = q]
    BY <1>3 DEF Unregister
  <2>6. Elems(q) = Peers(d) /\ todo'[d] = q
    BY <2>5, MembersType, OrdersType DEF Peers, TypeOK
  <2>7. QED
    BY <2>4, <2>6 DEF WillForget, Elems
<1>4. CASE phase[d] = "leaving" /\ recv[d] = "over"
  <2>0. snapshot[c][d] = 0 /\ (Remembered(c, d) => WillForget(c, d))
    <3>1. snapshot'[c] = snapshot[c]
      BY <1>1, Traffic DEF Moved, Undisturbed, Receives, Deliver, mainVars
    <3>2. QED
      BY <1>2, <1>4, <3>1 DEF Forgotten, Remembered, WillForget
  <2>1. CASE c \in Elems(todo[d])
    BY <1>2, <1>4, <2>1, StillToTell
  <2>2. CASE c \notin Elems(todo[d])
    <3>0. Remembered(c, d) => Queued(c, {"left"}, d)
      BY <2>0, <2>2 DEF WillForget
    <3>1. CASE Undisturbed(c)
      <4>1. Remembered(c, d)
        BY <3>1, QueuedBefore DEF Remembered, Undisturbed
      <4>2. QED
        BY <3>0, <3>1, <4>1, QueuedKept DEF WillForget, Undisturbed
    <3>2. ASSUME NEW m \in Message, Sent(m, c), Receives(c, m) PROVE WillForget(c, d)'
      <4>1. ~(m.kind \in News /\ m.peer = d)
        BY <1>4, <3>2, NoNews DEF TellJoin, TellPeer
      <4>2. Remembered(c, d)
        BY <3>2, <4>1, QueuedBefore DEF Remembered, Receives
      <4>3. QED
        BY <3>0, <3>2, <4>2, QueuedKept DEF WillForget
    <3>3. CASE Deliver(c)
      <4> DEFINE m == Head(queue[c])
      <4>1. known'[c] = Learn(c, m) /\ m \in Message /\ 1 \in DOMAIN queue[c] /\ queue[c][1] = m
        BY <3>3, DeliverEffect, DeliverShifts
      <4>2. CASE m.kind = "left" /\ m.peer = d
        <5>1. known'[c][d] = 0
          <6>1. m.info = 0
            BY <4>1, <4>2 DEF Addressed, Fits
          <6>2. QED
            BY <4>1, <4>2, <6>1 DEF Learn
        <5>2. PICK j \in DOMAIN queue'[c] : queue'[c][j].kind \in News /\ queue'[c][j].peer = d
          BY <5>1 DEF Remembered, Queued
        <5>3. j \in Nat \ {0} /\ j + 1 \in NewsOf(c, d)
          BY <3>3, <5>2, DeliverShifts DEF NewsOf
        <5>4. LastLeft(c, d)
          BY <1>4 DEF LeftIsLast, LastLeft
        <5>5. j + 1 < 1
          <6>1. /\ 1 \in DOMAIN queue[c]
                /\ queue[c][1].kind = "left" /\ queue[c][1].peer = d
            BY <4>1, <4>2
          <6>2. \A k \in NewsOf(c, d) : k \in DOMAIN queue[c]
            BY DEF NewsOf
          <6>3. QED
            BY <5>3, <5>4, <6>1, <6>2 DEF LastLeft
        <5>6. QED
          BY <5>3, <5>5
      <4>3. CASE ~(m.kind = "left" /\ m.peer = d)
        <5>1. Remembered(c, d)
          <6>1. CASE Queued(c, News, d)'
            BY <3>3, <6>1, QueuedBefore DEF Remembered
          <6>2. CASE m.kind \in News /\ m.peer = d
            BY <4>1, <6>2 DEF Remembered, Queued
          <6>3. CASE known'[c][d] > 0 /\ ~(m.kind \in News /\ m.peer = d)
            <7>1. known'[c][d] = known[c][d]
              BY <2>0, <4>1, <4>3, <6>3 DEF Learn
            <7>2. QED
              BY <6>3, <7>1 DEF Remembered
          <6>4. QED
            BY <6>1, <6>2, <6>3 DEF Remembered
        <5>2. PICK j \in DOMAIN queue[c] : queue[c][j].kind = "left" /\ queue[c][j].peer = d
          BY <3>0, <5>1 DEF Queued
        <5>3. j - 1 \in DOMAIN queue'[c] /\ queue'[c][j - 1] = queue[c][j]
          BY <3>3, <4>1, <4>3, <5>2, DeliverShifts
        <5>4. QED
          BY <5>2, <5>3 DEF WillForget, Queued
      <4>4. QED
        BY <4>2, <4>3
    <3>4. QED
      BY <1>1, <3>1, <3>2, <3>3, Traffic DEF Moved
  <2>3. QED
    BY <2>1, <2>2
<1>5. QED
  BY <1>3, <1>4, LeaverStep

-----------------------------------------------------------------------------
(* The last description is the current one *)

LEMMA LatestKept ==
  ASSUME TypeOK, Addressed, NEW c \in Clients, NEW d \in Clients, NEW v, LatestIs(c, d, v),
         snapshot[c][d] = 0, phase[d] # "leaving"
  PROVE  /\ Undisturbed(c) => LatestIs(c, d, v)'
         /\ \A m \in Message :
              Receives(c, m) /\ ~(m.kind \in News /\ m.peer = d) => LatestIs(c, d, v)'
         /\ Deliver(c) => LatestIs(c, d, v)'
<1>1. ASSUME Undisturbed(c) PROVE LatestIs(c, d, v)'
  <2>1. NewsOf(c, d)' = NewsOf(c, d)
    BY <1>1 DEF Undisturbed, NewsOf
  <2>2. QED
    BY <1>1, <2>1 DEF Undisturbed, LatestIs
<1>2. ASSUME NEW m \in Message, Receives(c, m), ~(m.kind \in News /\ m.peer = d)
      PROVE  LatestIs(c, d, v)'
  <2>1. ASSUME NEW j \in NewsOf(c, d) PROVE j \in NewsOf(c, d)' /\ queue'[c][j] = queue[c][j]
    BY <1>2, <2>1, ReceivesEffect DEF NewsOf
  <2>2. ASSUME NEW j \in NewsOf(c, d)' PROVE j \in NewsOf(c, d)
    <3>1. j # Len(queue[c]) + 1
      BY <1>2, <2>2, ReceivesEffect DEF NewsOf
    <3>2. j \in DOMAIN queue[c] /\ queue'[c][j] = queue[c][j]
      BY <1>2, <2>2, <3>1, ReceivesEffect DEF NewsOf
    <3>3. QED
      BY <2>2, <3>2 DEF NewsOf
  <2>3. NewsOf(c, d)' = NewsOf(c, d)
    BY <2>1, <2>2
  <2>4. known'[c] = known[c]
    BY <1>2 DEF Receives
  <2>5. QED
    BY <2>1, <2>3, <2>4 DEF LatestIs
<1>3. ASSUME Deliver(c) PROVE LatestIs(c, d, v)'
  <2> DEFINE m == Head(queue[c])
  <2>0. known'[c] = Learn(c, m) /\ m \in Message /\ 1 \in DOMAIN queue[c] /\ queue[c][1] = m
    BY <1>3, DeliverEffect, DeliverShifts
  <2>1. ~(m.kind = "left" /\ m.peer = d)
    BY <2>0 DEF Addressed, Fits
  <2>2. ASSUME NEW j \in NewsOf(c, d)' PROVE j \in Nat \ {0} /\ j + 1 \in NewsOf(c, d)
    <3>1. j \in DOMAIN queue'[c] /\ queue'[c][j].kind \in News /\ queue'[c][j].peer = d
      BY <2>2 DEF NewsOf
    <3>2. j + 1 \in DOMAIN queue[c] /\ queue'[c][j] = queue[c][j + 1] /\ j \in Nat \ {0}
      BY <1>3, <3>1, DeliverShifts
    <3>3. QED
      BY <3>1, <3>2 DEF NewsOf
  <2>3. CASE NewsOf(c, d) = {} /\ known[c][d] = v
    <3>1. NewsOf(c, d)' = {}
      BY <2>2, <2>3
    <3>2. ~(m.kind \in News /\ m.peer = d)
      BY <2>0, <2>3 DEF NewsOf
    <3>3. known'[c][d] = known[c][d]
      BY <2>0, <2>1, <3>2 DEF Learn
    <3>4. QED
      BY <2>3, <3>1, <3>3 DEF LatestIs
  <2>4. ASSUME NEW i \in NewsOf(c, d), queue[c][i].info = v, \A j \in NewsOf(c, d) : j <= i
        PROVE  LatestIs(c, d, v)'
    <3>0. i \in DOMAIN queue[c] /\ i \in Nat \ {0} /\ queue[c][i].kind \in News /\ queue[c][i].peer = d
      BY <1>3, <2>4, DeliverShifts DEF NewsOf
    <3>1. CASE i = 1
      <4>1. \A j \in NewsOf(c, d)' : j \in Nat \ {0} /\ j + 1 <= 1
        BY <2>2, <2>4, <3>1
      <4>2. NewsOf(c, d)' = {}
        BY <4>1
      <4>3. known'[c][d] = v
        BY <2>0, <2>4, <3>0, <3>1 DEF Learn
      <4>4. QED
        BY <4>2, <4>3 DEF LatestIs
    <3>2. CASE i # 1
      <4>1. PICK k \in Nat : k = i - 1
        BY <3>0
      <4>2. k \in DOMAIN queue'[c] /\ queue'[c][k] = queue[c][i]
        BY <1>3, <3>0, <3>2, <4>1, DeliverShifts
      <4>3. k \in NewsOf(c, d)'
        BY <3>0, <4>2 DEF NewsOf
      <4>4. \A j \in NewsOf(c, d)' : j <= k
        BY <2>2, <2>4, <3>0, <4>1
      <4>5. QED
        BY <2>4, <4>2, <4>3, <4>4 DEF LatestIs
    <3>3. QED
      BY <3>1, <3>2
  <2>5. QED
    BY <2>3, <2>4 DEF LatestIs
<1>4. QED
  BY <1>1, <1>2, <1>3

LEMMA LatestSent ==
  ASSUME TypeOK, NEW c \in Clients, NEW m \in Message, Receives(c, m), m.kind \in News,
         NEW v, v = m.info, NEW d, d = m.peer
  PROVE  LatestIs(c, d, v)'
<1>1. PICK n \in Nat : n = Len(queue[c]) + 1
  BY ReceivesEffect
<1>2. n \in DOMAIN queue'[c] /\ queue'[c][n] = m /\ \A j \in DOMAIN queue'[c] : j <= n
  BY <1>1, ReceivesEffect
<1>3. n \in NewsOf(c, d)' /\ \A j \in NewsOf(c, d)' : j <= n
  BY <1>2 DEF NewsOf
<1>4. QED
  BY <1>2, <1>3 DEF LatestIs

\* c has the current description of d, or will be told.
CurrentFor(c, d) ==
  \/ phase[d] = "joining" /\ c \in Elems(todo[d])
  \/ rmsg[d].kind = "update" /\ c \in Elems(rtodo[d])
  \/ LatestIs(c, d, info[d])

LEMMA UpToDateStep ==
  ASSUME IInv, OneRequest, Unplugged, UpToDate, [Next]_vars
  PROVE  UpToDate'
<1> USE SmallVersions DEF IInv
<1> SUFFICES ASSUME NEW c \in Clients, NEW d \in Clients, Together(c, d)', Open(d)',
                    snapshot'[c][d] = 0
             PROVE  CurrentFor(c, d)'
  BY DEF UpToDate, CurrentFor
<1>0. room' = room /\ c # d /\ Open(c)' /\ info'[d] > 0 /\ room[c] = room[d]
  BY Stable DEF Together
<1>1. ~Close(c) /\ ~Close(d)
  BY <1>0 DEF Close, Open, TypeOK
<1>2. ~Connect(c)
  <2>1. SUFFICES ASSUME Connect(c) PROVE FALSE
    OBVIOUS
  <2>2. info'[d] = info[d]
    BY <1>0, <2>1 DEF Connect, TypeOK
  <2>3. d \in Peers(c)
    BY <1>0, <2>2 DEF Peers, Members
  <2>4. snapshot'[c][d] = info[d]
    BY <2>1, <2>3 DEF Connect, TypeOK
  <2>5. QED
    BY <1>0, <2>2, <2>4 DEF TypeOK
<1>3. Open(c)
  BY <1>0, <1>2, OpenStep
\* Whoever is reachable is told by a peer that shares its room.
<1>4. c \in Peers(d)
  BY <1>0, <1>3 DEF Peers, Members, Registered, Open
<1>5. ASSUME NEW q \in Orders(Peers(d)) PROVE c \in Elems(q)
  BY <1>4, <1>5, MembersType, OrdersType DEF Peers
<1>6. CASE Connect(d)
  <2>1. PICK q \in Orders(Peers(d)) : todo' = [todo EXCEPT ![d] = q]
    BY <1>6 DEF Connect
  <2>2. todo'[d] = q /\ phase'[d] = "joining"
    BY <1>6, <2>1 DEF Connect, TypeOK
  <2>3. QED
    BY <1>5, <2>2 DEF CurrentFor, Elems
<1>7. CASE ~Connect(d)
  <2>0. Open(d)
    BY <1>7, OpenStep
  <2>1. snapshot'[c] = snapshot[c]
    BY <1>1, <1>2, Traffic DEF Moved, Undisturbed, Receives, Deliver, mainVars
  <2>2. CurrentFor(c, d)
    BY <1>0, <1>3, <2>0, <2>1 DEF UpToDate, CurrentFor, Together, Registered, Open
  <2>3. OneRequestOf(d) /\ phase[d] \in {"joining", "serving"}
    BY <2>0 DEF OneRequest, OneRequestOf, Open
  <2>4. ASSUME NEW v, LatestIs(c, d, v), ~TellJoin(d), ~TellPeer(d)
        PROVE  LatestIs(c, d, v)'
    <3>1. snapshot[c][d] = 0 /\ phase[d] # "leaving"
      BY <2>1, <2>3
    <3>2. ASSUME NEW m \in Message, Sent(m, c), Receives(c, m) PROVE LatestIs(c, d, v)'
      <4>1. ~(m.kind \in News /\ m.peer = d)
        BY <2>4, <3>2, NoNews
      <4>2. QED
        BY <2>4, <3>1, <3>2, <4>1, LatestKept
    <3>3. QED
      BY <1>1, <1>2, <2>4, <3>1, <3>2, LatestKept, Traffic DEF Moved
  <2>5. CASE Update(d)
    <3>1. info[d] > 0
      BY <2>0 DEF Open, Registered
    <3>2. PICK q \in Orders(Peers(d)) : Start(d, Msg("update", d, info[d] + 1), q)
      BY <2>5, <3>1 DEF Update
    <3>3. rtodo'[d] = q /\ rmsg'[d].kind = "update"
      BY <3>2 DEF Start, Msg, TypeOK
    <3>4. QED
      BY <1>5, <3>3 DEF CurrentFor, Elems
  \* No other request starts or ends before the last one was told to everybody.
  <2>6. ASSUME recv[d] # "sending" \/ rtodo[d] = <<>>, phase[d] = "joining" => todo[d] = <<>>,
               ~TellJoin(d), ~TellPeer(d), info'[d] = info[d]
        PROVE  CurrentFor(c, d)'
    <3>1. rtodo[d] = <<>>
      BY <2>3, <2>6 DEF OneRequestOf
    <3>2. LatestIs(c, d, info[d])
      BY <2>2, <2>6, <3>1 DEF CurrentFor, Elems
    <3>3. PICK v : v = info[d]
      OBVIOUS
    <3>4. LatestIs(c, d, v)'
      BY <2>4, <2>6, <3>2, <3>3
    <3>5. LatestIs(c, d, info[d])'
      BY <2>6, <3>3, <3>4 DEF LatestIs
    <3>6. QED
      BY <3>5 DEF CurrentFor
  <2>7. CASE TooMany(d) \/ \E target \in Clients : Signal(d, target)
    <3>1. recv[d] = "reading" /\ info' = info
      BY <2>7 DEF TooMany, Signal
    <3>2. phase[d] # "joining" /\ ~TellJoin(d) /\ ~TellPeer(d)
      BY <2>3, <3>1 DEF OneRequestOf, TellJoin, TellPeer
    <3>3. QED
      BY <2>6, <3>1, <3>2
  <2>8. CASE Done(d)
    <3>1. recv[d] = "sending" /\ rtodo[d] = <<>> /\ info' = info
      BY <2>8 DEF Done
    <3>2. phase[d] # "joining" /\ ~TellJoin(d) /\ ~TellPeer(d)
      BY <2>3, <3>1 DEF OneRequestOf, TellJoin, TellPeer
    <3>3. QED
      BY <2>6, <3>1, <3>2
  <2>9. CASE Greet(d)
    <3>1. phase[d] = "joining" /\ todo[d] = <<>> /\ info' = info
      BY <2>9 DEF Greet
    <3>2. recv[d] = "none" /\ ~TellJoin(d) /\ ~TellPeer(d)
      BY <2>3, <3>1 DEF OneRequestOf, TellJoin, TellPeer
    <3>3. QED
      BY <2>6, <3>1, <3>2
  <2>10. ~Abort(d) /\ ~Unregister(d) /\ ~TellLeft(d) /\ ~Refuse(d)
    BY <2>3 DEF Abort, Unregister, TellLeft, Refuse
  \* A message goes to one peer of d; the others are as they were.
  <2>11. CASE TellJoin(d)
    <3>1. /\ phase[d] = "joining" /\ todo[d] # <<>> /\ todo[d] \in Seq(Clients)
          /\ todo'[d] = Tail(todo[d]) /\ phase' = phase /\ info' = info /\ rtodo[d] = <<>>
          /\ UNCHANGED <<known, snapshot>> /\ Push(Head(todo[d]), Msg("join", d, 1))
      BY <2>3, <2>11 DEF TellJoin, OneRequestOf, TypeOK, recvVars
    <3>2. CASE Head(todo[d]) = c
      <4>1. PICK m \in Message : m = Msg("join", d, 1) /\ m.kind = "join" /\ m.peer = d /\ m.info = 1
        BY MsgType DEF News
      <4>2. Receives(c, m)
        BY <1>3, <3>1, <3>2, <4>1, PushReceives
      <4>3. PICK v : v = 1
        OBVIOUS
      <4>4. LatestIs(c, d, v)'
        BY <4>1, <4>2, <4>3, LatestSent DEF News
      <4>5. info'[d] = v
        BY <2>3, <3>1, <4>3 DEF OneRequestOf
      <4>6. QED
        BY <4>4, <4>5 DEF CurrentFor, LatestIs
    <3>3. CASE Head(todo[d]) # c
      <4>1. c \in Elems(todo[d]) => c \in Elems(Tail(todo[d]))
        BY <3>1, <3>3, ElemsOfTail
      <4>2. queue'[c] = queue[c]
        BY <3>1, <3>3 DEF Push, TypeOK
      <4>3. LatestIs(c, d, info[d]) => LatestIs(c, d, info[d])'
        BY <3>1, <4>2 DEF LatestIs, NewsOf
      <4>4. QED
        BY <2>2, <3>1, <4>1, <4>3 DEF CurrentFor, Elems
    <3>4. QED
      BY <3>2, <3>3
  <2>12. CASE TellPeer(d)
    <3>1. /\ recv[d] = "sending" /\ rtodo[d] # <<>> /\ rtodo[d] \in Seq(Clients)
          /\ rtodo'[d] = Tail(rtodo[d]) /\ rmsg' = rmsg /\ info' = info
          /\ UNCHANGED <<known, snapshot>> /\ Push(Head(rtodo[d]), rmsg[d])
      BY <2>12 DEF TellPeer, TypeOK, mainVars
    <3>2. phase[d] # "joining" /\ rmsg[d] \in Message /\ rmsg[d].peer = d
      BY <2>3, <3>1 DEF OneRequestOf, Requesting, TypeOK
    <3>3. CASE Head(rtodo[d]) = c /\ rmsg[d].kind = "update"
      <4>1. PICK m \in Message : m = rmsg[d]
        BY <3>2
      <4>2. Receives(c, m)
        BY <1>3, <3>1, <3>3, <4>1, PushReceives
      <4>3. PICK v : v = m.info
        OBVIOUS
      <4>4. LatestIs(c, d, v)'
        BY <3>2, <3>3, <4>1, <4>2, <4>3, LatestSent DEF News
      <4>5. info'[d] = v
        BY <2>0, <2>3, <3>1, <3>3, <4>1, <4>3 DEF OneRequestOf
      <4>6. QED
        BY <4>4, <4>5 DEF CurrentFor, LatestIs
    <3>4. CASE Head(rtodo[d]) = c /\ rmsg[d].kind # "update"
      <4>1. PICK m \in Message : m = rmsg[d]
        BY <3>2
      <4>2. Receives(c, m) /\ m.kind \notin News
        BY <1>3, <3>1, <3>2, <3>4, <4>1, PushReceives DEF Requesting, News
      <4>3. PICK v : v = info[d]
        OBVIOUS
      <4>4. LatestIs(c, d, v) /\ snapshot[c][d] = 0 /\ phase[d] # "leaving"
        BY <2>1, <2>2, <2>3, <3>2, <3>4, <4>3 DEF CurrentFor
      <4>5. LatestIs(c, d, v)'
        BY <4>2, <4>4, LatestKept
      <4>6. QED
        BY <3>1, <4>3, <4>5 DEF CurrentFor, LatestIs
    <3>5. CASE Head(rtodo[d]) # c
      <4>1. c \in Elems(rtodo[d]) => c \in Elems(Tail(rtodo[d]))
        BY <3>1, <3>5, ElemsOfTail
      <4>2. queue'[c] = queue[c]
        BY <3>1, <3>5 DEF Push, TypeOK
      <4>3. LatestIs(c, d, info[d]) => LatestIs(c, d, info[d])'
        BY <3>1, <4>2 DEF LatestIs, NewsOf
      <4>4. QED
        BY <2>2, <3>1, <3>2, <4>1, <4>3 DEF CurrentFor, Elems
    <3>6. QED
      BY <3>3, <3>4, <3>5
  <2>13. CASE UNCHANGED <<phase[d], info[d], todo[d], recv[d], rtodo[d], rmsg[d]>>
    <3>1. ~TellJoin(d) /\ ~TellPeer(d)
      <4>1. ~TellJoin(d)
        <5>1. todo[d] # <<>> => Len(Tail(todo[d])) # Len(todo[d])
          BY DEF TypeOK
        <5>2. QED
          BY <2>13, <5>1 DEF TellJoin, TypeOK
      <4>2. ~TellPeer(d)
        <5>1. rtodo[d] # <<>> => Len(Tail(rtodo[d])) # Len(rtodo[d])
          BY DEF TypeOK
        <5>2. QED
          BY <2>13, <5>1 DEF TellPeer, TypeOK
      <4>3. QED
        BY <4>1, <4>2
    <3>2. PICK v : v = info[d]
      OBVIOUS
    <3>3. LatestIs(c, d, v) => LatestIs(c, d, v)'
      BY <2>4, <3>1
    <3>4. LatestIs(c, d, info[d]) => LatestIs(c, d, info[d])'
      BY <2>13, <3>2, <3>3 DEF LatestIs
    <3>5. QED
      BY <2>2, <2>13, <3>4 DEF CurrentFor, Elems
  <2>14. QED
    BY <1>1, <1>7, <2>5, <2>7, <2>8, <2>9, <2>10, <2>11, <2>12, <2>13, Standstill DEF Main, Recv
<1>8. QED
  BY <1>6, <1>7

-----------------------------------------------------------------------------
(* The size of a room *)

LEMMA RoomLimitStep ==
  ASSUME TypeOK, Registered, RoomLimit, [Next]_vars
  PROVE  RoomLimit'
<1> USE SmallVersions
<1> SUFFICES ASSUME NEW g \in Rooms PROVE Cardinality(Members(g)') <= MaxConnections
  BY DEF RoomLimit
<1>0. /\ IsFiniteSet(Members(g)) /\ Cardinality(Members(g)) \in Nat
      /\ Cardinality(Members(g)) <= MaxConnections /\ MaxConnections \in Nat
  <2>1. IsFiniteSet(Members(g))
    BY SignalingAssumption, MembersType, FS_Subset
  <2>2. QED
    BY <2>1, SignalingAssumption, FS_CardinalityType DEF RoomLimit
\* Only a registration adds a member.
<1>1. ASSUME Members(g)' \subseteq Members(g)
      PROVE  Cardinality(Members(g)') <= MaxConnections
  <2>1. Cardinality(Members(g)') <= Cardinality(Members(g)) /\ IsFiniteSet(Members(g)')
    BY <1>0, <1>1, FS_Subset
  <2>2. Cardinality(Members(g)') \in Nat
    BY <2>1, FS_CardinalityType
  <2>3. QED
    BY <1>0, <2>1, <2>2
<1>2. ASSUME NEW c \in Clients, Connect(c) PROVE Cardinality(Members(g)') <= MaxConnections
  <2>1. room' = room /\ info' = [info EXCEPT ![c] = 1]
    BY <1>2 DEF Connect
  <2>2. CASE g = room[c]
    <3>1. Cardinality(Members(g)) < MaxConnections
      BY <1>2, <2>2 DEF Connect, Admissible
    <3>2. Members(g)' = Members(g) \cup {c}
      BY <2>1, <2>2 DEF Members, TypeOK
    <3>3. Cardinality(Members(g) \cup {c}) <= Cardinality(Members(g)) + 1
      BY <1>0, FS_AddElement
    <3>4. Cardinality(Members(g) \cup {c}) \in Nat
      BY <1>0, FS_AddElement, FS_CardinalityType
    <3>5. QED
      BY <1>0, <3>1, <3>2, <3>3, <3>4
  <2>3. CASE g # room[c]
    <3>1. Members(g)' = Members(g)
      BY <2>1, <2>3 DEF Members, TypeOK
    <3>2. QED
      BY <1>1, <3>1
  <2>4. QED
    BY <2>2, <2>3
<1>3. CASE UNCHANGED <<info, room>>
  BY <1>1, <1>3 DEF Members
<1>4. ASSUME NEW c \in Clients, Unregister(c) PROVE Cardinality(Members(g)') <= MaxConnections
  <2>1. Members(g)' \subseteq Members(g)
    BY <1>4 DEF Unregister, Members, TypeOK
  <2>2. QED
    BY <1>1, <2>1
<1>5. ASSUME NEW c \in Clients, Update(c) PROVE Cardinality(Members(g)') <= MaxConnections
  <2>1. room' = room /\ (info' = info \/ (info[c] > 0 /\ info' = [info EXCEPT ![c] = @ + 1]))
    BY <1>5 DEF Update, mainVars
  <2>2. Members(g)' \subseteq Members(g)
    BY <2>1 DEF Members, TypeOK
  <2>3. QED
    BY <1>1, <2>2
<1>6. ASSUME NEW c \in Clients, Main(c) PROVE Cardinality(Members(g)') <= MaxConnections
  BY <1>2, <1>3, <1>4, <1>6 DEF Main, Refuse, TellJoin, Greet, TellLeft
<1>7. ASSUME NEW c \in Clients, Recv(c) PROVE Cardinality(Members(g)') <= MaxConnections
  BY <1>3, <1>5, <1>7 DEF Recv, Signal, TooMany, TellPeer, Done, Abort, mainVars
<1>8. ASSUME NEW c \in Clients, Deliver(c) \/ Close(c) PROVE Cardinality(Members(g)') <= MaxConnections
  BY <1>3, <1>8 DEF Deliver, Close, mainVars
<1>9. QED
  BY <1>3, <1>6, <1>7, <1>8 DEF Next, ResetCounts, vars, mainVars

-----------------------------------------------------------------------------
(* Theorems *)

LEMMA InvariantInit == Init => IInv /\ RoomLimit
<1> SUFFICES ASSUME Init PROVE IInv /\ RoomLimit
  OBVIOUS
<1>1. TypeOK
  BY TypeInit
<1>2. Registered /\ Requesting /\ NobodyMissed
  BY DEF Init, Registered, Requesting, NobodyMissed, Together
<1>3. Addressed
  BY DEF Init, Addressed, SameRoom, Nothing
<1>4. RoomLimit
  <2> SUFFICES ASSUME NEW g \in Rooms PROVE Cardinality(Members(g)) <= MaxConnections
    BY DEF RoomLimit
  <2>1. Members(g) = {}
    BY DEF Init, Members
  <2>2. QED
    BY <2>1, FS_EmptySet, SignalingAssumption
<1>5. QED
  BY <1>1, <1>2, <1>3, <1>4 DEF IInv

\* The inductive invariant: what is queued or still to be told fits the room,
\* the table holds exactly the connections that are being served, and nobody
\* is missed.
THEOREM RoomInvariant == Spec => [](IInv /\ RoomLimit)
<1>1. Init => IInv /\ RoomLimit
  BY InvariantInit
<1>2. IInv /\ RoomLimit /\ [Next]_vars => (IInv /\ RoomLimit)'
  BY TypeStep, RegisteredStep, AddressedStep, RequestingStep, NobodyMissedStep, RoomLimitStep DEF IInv
<1>3. QED
  BY <1>1, <1>2, PTL DEF Spec

\* Every variable keeps its type, the request counts of the rooms included.
THEOREM RoomTypeCorrect == Spec => []TypeOK
<1>1. IInv => TypeOK
  BY DEF IInv
<1>2. QED
  BY <1>1, RoomInvariant, PTL

\* However joins, requests and departures interleave, no client of a room
\* misses a peer of that room.
THEOREM NobodyIsMissed == Spec => []NobodyMissed
<1>1. IInv => NobodyMissed
  BY DEF IInv
<1>2. QED
  BY <1>1, RoomInvariant, PTL

\* No message about a peer leaves the peer's room.
THEOREM RoomsStaySeparate == Spec => []RoomsAreSeparate
<1>1. IInv => RoomsAreSeparate
  BY DEF IInv, Addressed, Fits, RoomsAreSeparate
<1>2. QED
  BY <1>1, RoomInvariant, PTL

\* No room grows over its limit.
THEOREM RoomsAreBounded == Spec => []RoomLimit
  BY RoomInvariant, PTL

LEMMA TellingInit == Init => TellingInv /\ Forgotten /\ UpToDate
  BY DEF Init, TellingInv, OneRequest, Unplugged, LeftIsLast, Forgotten, UpToDate, Open, Together

\* What a connection tells its room, and in which order, on top of the
\* invariant above.
THEOREM TellingInvariant == Spec => [](TellingInv /\ Forgotten /\ UpToDate)
<1>1. Init => TellingInv /\ Forgotten /\ UpToDate
  BY TellingInit
<1>2. IInv /\ TellingInv /\ Forgotten /\ UpToDate /\ [Next]_vars
        => (TellingInv /\ Forgotten /\ UpToDate)'
  BY OneRequestStep, UnpluggedStep, LeftIsLastStep, ForgottenStep, UpToDateStep DEF IInv, TellingInv
<1>3. QED
  BY <1>1, <1>2, RoomInvariant, PTL DEF Spec

\* A peer that left the room is forgotten by every client that registered
\* before it, or will be with the Left that is on its way.
THEOREM WhoLeftIsForgotten == Spec => []Forgotten
  BY TellingInvariant, PTL

\* The description of a peer that its client gets last is the one in the
\* room's table, whatever the queues hold back.
THEOREM DescriptionsAreCurrent == Spec => []UpToDate
  BY TellingInvariant, PTL

=============================================================================
