--------------------------- MODULE ChatHubProofs ---------------------------
(***************************************************************************)
(* Proofs about the chat hub, for any connections, peers and calls of send *)
(* and any limits and queue capacities.                                    *)
(***************************************************************************)
EXTENDS ChatHub, SequenceTheorems, TLAPS

-----------------------------------------------------------------------------
(* Type correctness *)

LEMMA EventType ==
  ASSUME NEW c \in Conns, NEW k \in {"connected", "message", "disconnected"}
  PROVE  Ev(k, c) \in Event /\ Ev(k, c).kind = k /\ Ev(k, c).conn = c
  BY DEF Ev, Event

LEMMA EmitType ==
  ASSUME TypeOK, NEW e \in Event, Room, Emit(e)
  PROVE  events' \in Seq(Event) /\ Len(events') <= EventCap
<1>1. CASE open
  <2>1. events' = Append(events, e) /\ Len(events) < EventCap
    BY <1>1 DEF Emit, Room
  <2>2. QED
    BY <2>1, ChatAssumption DEF TypeOK
<1>2. CASE ~open
  BY <1>2 DEF Emit, TypeOK
<1>3. QED
  BY <1>1, <1>2

LEMMA TypeInit == Init => TypeOK
<1> SUFFICES ASSUME Init PROVE TypeOK
  OBVIOUS
<1>1. out \in [Conns -> Seq(Sends)] /\ \A c \in Conns : Len(out[c]) <= OutCap
  BY ChatAssumption DEF Init
<1>2. events \in Seq(Event) /\ Len(events) <= EventCap
  BY ChatAssumption DEF Init
<1>3. QED
  BY <1>1, <1>2 DEF Init, TypeOK, Stages, Alive, Looping, Reasons

\* A step that changes no more than the state of connections.
LEMMA ConnType ==
  ASSUME TypeOK, stage' \in [Conns -> Stages], quiet' \in [Conns -> BOOLEAN],
         UNCHANGED <<peer, inbound, link, reason, entries, sendVars, eventVars, down, stopped>>
  PROVE  TypeOK'
  BY DEF TypeOK, sendVars, eventVars

\* The types of what the steps of a connection read.
LEMMA ConnFacts ==
  TypeOK => /\ quiet \in [Conns -> BOOLEAN] /\ stage \in [Conns -> Stages]
            /\ entries \subseteq Conns
  BY DEF TypeOK

\* A connection that moves on is at a stage.
LEMMA MoveType ==
  ASSUME TypeOK, NEW c \in Conns, NEW s \in Stages, Move(c, s)
  PROVE  stage' \in [Conns -> Stages]
  BY DEF TypeOK, Move

LEMMA BreakType ==
  ASSUME TypeOK, NEW c \in Conns, NEW why \in Reasons, Break(c, why)
  PROVE  TypeOK'
  BY DEF Break, Move, TypeOK, Stages, Alive, sendVars, eventVars

LEMMA LifecycleType ==
  ASSUME TypeOK, NEW c \in Conns, Lifecycle(c)
  PROVE  TypeOK'
<1> USE DEF Stages, Alive, Looping
<1>0. CASE Begin(c)
  BY <1>0, ConnFacts, MoveType, ConnType DEF Begin
<1>1. CASE TurnAway(c) \/ ConnectFails(c) \/ UpgradeFails(c)
  BY <1>1, ConnFacts, MoveType, ConnType DEF TurnAway, ConnectFails, UpgradeFails
<1> USE DEF Move
<1>2. CASE Register(c)
  BY <1>2 DEF Register, TypeOK, sendVars, eventVars
<1>3. CASE Announce(c)
  <2>1. events' \in Seq(Event) /\ Len(events') <= EventCap
    BY <1>3, EventType, EmitType DEF Announce
  <2>2. QED
    BY <1>3, <2>1 DEF Announce, TypeOK, sendVars
<1>4. CASE CloseSocket(c)
  <2>1. out' \in [Conns -> Seq(Sends)] /\ \A d \in Conns : Len(out'[d]) <= OutCap
    BY <1>4, ChatAssumption DEF CloseSocket, DropQueue, TypeOK
  <2>2. call' \in [Sends -> {"idle", "waiting", "queued", "written", "failed", "lost"}]
    BY <1>4 DEF CloseSocket, DropQueue, TypeOK
  <2>3. QED
    BY <1>4, <2>1, <2>2 DEF CloseSocket, DropQueue, TypeOK, eventVars
<1>5. CASE RemoveEntry(c)
  BY <1>5 DEF RemoveEntry, TypeOK, sendVars, eventVars
<1>6. CASE TellDisconnected(c)
  <2>1. events' \in Seq(Event) /\ Len(events') <= EventCap
    BY <1>6, EventType, EmitType DEF TellDisconnected
  <2>2. QED
    BY <1>6, <2>1 DEF TellDisconnected, TypeOK, sendVars
<1>7. QED
  BY <1>0, <1>1, <1>2, <1>3, <1>4, <1>5, <1>6 DEF Lifecycle

LEMMA LoopType ==
  ASSUME TypeOK, NEW c \in Conns, Loop(c)
  PROVE  TypeOK'
<1> USE DEF Move, Stages, Alive, Looping
<1>1. CASE BreakStopped(c) \/ ReceiveEnd(c) \/ WriteFails(c) \/ BreakLocally(c)
  BY <1>1, BreakType DEF BreakStopped, ReceiveEnd, WriteFails, BreakLocally, Reasons
<1>0. CASE ReceiveText(c) \/ ReceivePong(c)
  <2>1. quiet' \in [Conns -> BOOLEAN]
    BY <1>0, ConnFacts DEF ReceiveText, ReceivePong
  <2>2. stage' \in [Conns -> Stages]
    BY <1>0, ConnFacts, MoveType DEF ReceiveText, ReceivePong
  <2>3. QED
    BY <1>0, <2>1, <2>2, ConnType DEF ReceiveText, ReceivePong
<1>2. CASE Written(c)
  BY <1>2 DEF Written, TypeOK, sendVars, eventVars
<1>3. CASE EmitMessage(c)
  <2>1. events' \in Seq(Event) /\ Len(events') <= EventCap
    BY <1>3, EventType, EmitType DEF EmitMessage
  <2>2. QED
    BY <1>3, <2>1 DEF EmitMessage, TypeOK, sendVars
<1>4. CASE Ping(c)
  <2>1. CASE quiet[c]
    BY <1>4, <2>1, BreakType DEF Ping, Reasons
  <2>2. CASE ~quiet[c]
    BY <1>4, <2>2 DEF Ping, TypeOK, sendVars, eventVars
  <2>3. QED
    BY <2>1, <2>2
<1>5. CASE TakeFrame(c)
  <2>1. out[c] \in Seq(Sends) /\ out[c] # <<>> /\ Len(out[c]) <= OutCap
    BY <1>5 DEF TakeFrame, TypeOK
  <2>2. Tail(out[c]) \in Seq(Sends) /\ Len(Tail(out[c])) <= OutCap /\ Head(out[c]) \in Sends
    BY <2>1, ChatAssumption
  <2>3. out' \in [Conns -> Seq(Sends)] /\ \A d \in Conns : Len(out'[d]) <= OutCap
    BY <1>5, <2>2 DEF TakeFrame, TypeOK
  <2>4. QED
    BY <1>5, <2>3 DEF TakeFrame, TypeOK, eventVars
<1>6. QED
  BY <1>0, <1>1, <1>2, <1>3, <1>4, <1>5 DEF Loop

LEMMA ApplicationType ==
  ASSUME TypeOK, Application
  PROVE  TypeOK'
<1>1. ASSUME NEW c \in Conns, Close(c) PROVE TypeOK'
  BY <1>1 DEF Close, TypeOK, connVars, sendVars, eventVars
<1>2. ASSUME NEW s \in Sends, Send(s) PROVE TypeOK'
  BY <1>2 DEF Send, TypeOK, connVars, eventVars
<1>3. ASSUME NEW s \in Sends, Queue(s) PROVE TypeOK'
  <2>0. onto[s] \in Conns
    BY DEF TypeOK
  <2>1. out' \in [Conns -> Seq(Sends)] /\ \A d \in Conns : Len(out'[d]) <= OutCap
    <3>1. CASE UNCHANGED out
      BY <3>1 DEF TypeOK
    <3>2. CASE Len(out[onto[s]]) < OutCap /\ out' = [out EXCEPT ![onto[s]] = Append(@, s)]
      <4>1. out[onto[s]] \in Seq(Sends)
        BY <2>0 DEF TypeOK
      <4>2. Append(out[onto[s]], s) \in Seq(Sends) /\ Len(Append(out[onto[s]], s)) <= OutCap
        BY <3>2, <4>1, ChatAssumption
      <4>3. QED
        BY <2>0, <3>2, <4>2 DEF TypeOK
    <3>3. QED
      BY <1>3, <3>1, <3>2 DEF Queue
  <2>2. call' \in [Sends -> {"idle", "waiting", "queued", "written", "failed", "lost"}]
    BY <1>3 DEF Queue, TypeOK
  <2>3. QED
    BY <1>3, <2>1, <2>2 DEF Queue, TypeOK, connVars, eventVars
<1>4. CASE Shutdown \/ ClearEntries \/ StopServer
  BY <1>4 DEF Shutdown, ClearEntries, StopServer, TypeOK, connVars, sendVars, eventVars
<1>5. CASE Listen
  <2>1. Head(events) \in Event /\ Tail(events) \in Seq(Event) /\ Len(Tail(events)) <= EventCap
    BY <1>5, ChatAssumption DEF Listen, TypeOK
  <2>2. told' \in [Conns -> {"nothing", "connected", "disconnected"}]
    BY <1>5, <2>1 DEF Listen, TypeOK, Event
  <2>3. QED
    BY <1>5, <2>1, <2>2 DEF Listen, TypeOK, connVars, sendVars
<1>6. CASE StopListening
  <2>1. events' \in Seq(Event) /\ Len(events') <= EventCap
    BY <1>6, ChatAssumption DEF StopListening
  <2>2. QED
    BY <1>6, <2>1 DEF StopListening, TypeOK, connVars, sendVars
<1>7. QED
  BY <1>1, <1>2, <1>3, <1>4, <1>5, <1>6 DEF Application

LEMMA TypeStep ==
  ASSUME TypeOK, [Next]_vars
  PROVE  TypeOK'
<1>1. CASE UNCHANGED vars
  BY <1>1 DEF TypeOK, vars, connVars, sendVars, eventVars
<1>2. ASSUME NEW c \in Conns, LinkChanges(c) PROVE TypeOK'
  <2>1. link' \in [Conns -> {"up", "stalled", "failed"}]
    BY <1>2 DEF LinkChanges, TypeOK
  <2>2. QED
    BY <1>2, <2>1 DEF LinkChanges, TypeOK, sendVars, eventVars
<1>3. ASSUME NEW c \in Conns, FallQuiet(c) PROVE TypeOK'
  BY <1>3 DEF FallQuiet, TypeOK, sendVars, eventVars
<1>4. QED
  BY <1>1, <1>2, <1>3, LifecycleType, LoopType, ApplicationType DEF Next

-----------------------------------------------------------------------------
(* How a step moves the connections *)

Early == {"new", "connecting", "refused", "announcing"}
Late == Looping \cup {"closing", "removing", "telling"}

\* The steps that touch neither the event channel nor what has been told.
Silent ==
  \/ \E c \in Conns :
       \/ Begin(c) \/ TurnAway(c) \/ ConnectFails(c) \/ UpgradeFails(c)
       \/ Register(c) \/ CloseSocket(c) \/ RemoveEntry(c)
       \/ BreakStopped(c) \/ ReceiveText(c) \/ ReceivePong(c) \/ ReceiveEnd(c) \/ Ping(c)
       \/ TakeFrame(c) \/ Written(c) \/ WriteFails(c) \/ BreakLocally(c)
       \/ LinkChanges(c) \/ FallQuiet(c) \/ Close(c)
  \/ \E s \in Sends : Send(s) \/ Queue(s)
  \/ Shutdown \/ ClearEntries \/ StopServer

Speaking(c) == Announce(c) \/ EmitMessage(c) \/ TellDisconnected(c)

LEMMA StepKinds ==
  Next => Silent \/ (\E c \in Conns : Speaking(c)) \/ Listen \/ StopListening
  BY DEF Next, Silent, Speaking, Lifecycle, Loop, Application

\* Only the steps that report something take a connection from the stages in
\* which it has nothing to report to those in which it has.
LEMMA SilentEffect ==
  ASSUME TypeOK, Silent
  PROVE  /\ UNCHANGED eventVars
         /\ \A d \in Conns : /\ stage'[d] \in Early => stage[d] \in Early
                             /\ stage'[d] \in Late => stage[d] \in Late
<1> USE DEF Move, Early, Late, Looping, eventVars
<1>1. ASSUME NEW c \in Conns,
             \/ Begin(c) \/ TurnAway(c) \/ ConnectFails(c) \/ UpgradeFails(c)
             \/ Register(c) \/ CloseSocket(c) \/ RemoveEntry(c)
             \/ ReceiveText(c) \/ ReceivePong(c) \/ TakeFrame(c) \/ Written(c)
             \/ LinkChanges(c) \/ FallQuiet(c)
      PROVE  /\ UNCHANGED eventVars
             /\ \A d \in Conns : /\ stage'[d] \in Early => stage[d] \in Early
                                 /\ stage'[d] \in Late => stage[d] \in Late
  BY <1>1 DEF TypeOK, Begin, TurnAway, ConnectFails, UpgradeFails, Register, CloseSocket, RemoveEntry, ReceiveText,
              ReceivePong, TakeFrame, Written, LinkChanges, FallQuiet
<1>2. ASSUME NEW c \in Conns,
             BreakStopped(c) \/ ReceiveEnd(c) \/ Ping(c) \/ WriteFails(c) \/ BreakLocally(c)
      PROVE  /\ UNCHANGED eventVars
             /\ \A d \in Conns : /\ stage'[d] \in Early => stage[d] \in Early
                                 /\ stage'[d] \in Late => stage[d] \in Late
  BY <1>2 DEF TypeOK, BreakStopped, ReceiveEnd, Ping, WriteFails, BreakLocally, Break
<1>3. CASE (\E c \in Conns : Close(c)) \/ (\E s \in Sends : Send(s) \/ Queue(s))
             \/ Shutdown \/ ClearEntries \/ StopServer
  BY <1>3 DEF Close, Send, Queue, Shutdown, ClearEntries, StopServer, connVars
<1>4. QED
  BY <1>1, <1>2, <1>3 DEF Silent

-----------------------------------------------------------------------------
(* The order of events *)

Ordered == EventOrder /\ Reported

\* What an event adds to the channel.
LEMMA EmitEffect ==
  ASSUME TypeOK, NEW e \in Event, open, Emit(e)
  PROVE  /\ DOMAIN events' = 1..(Len(events) + 1) /\ DOMAIN events = 1..Len(events)
         /\ \A i \in DOMAIN events : events'[i] = events[i]
         /\ events'[Len(events) + 1] = e
         /\ Len(events) \in Nat
  BY AppendProperties, LenProperties DEF Emit, TypeOK

LEMMA SilentOrdered ==
  ASSUME TypeOK, Ordered, Silent
  PROVE  Ordered'
<1>1. UNCHANGED <<events, open, told>>
  BY SilentEffect DEF eventVars
<1>2. EventOrder'
  BY <1>1 DEF Ordered, EventOrder, Before
<1>3. Reported'
  <2> SUFFICES ASSUME NEW c \in Conns
               PROVE  /\ stage'[c] \in Early => Unreported(c)'
                      /\ open' /\ stage'[c] \in Late => Begun(c)'
    BY DEF Reported, Early, Late
  <2>1. Unreported(c)' = Unreported(c) /\ Begun(c)' = Begun(c)
    BY <1>1 DEF Unreported, Begun
  <2>2. QED
    BY <1>1, <2>1, SilentEffect DEF Ordered, Reported, Early, Late
<1>4. QED
  BY <1>2, <1>3 DEF Ordered

LEMMA SpeakingOrdered ==
  ASSUME TypeOK, Ordered, NEW c \in Conns, Speaking(c)
  PROVE  Ordered'
<1>1. PICK k \in {"connected", "message", "disconnected"} :
        /\ Emit(Ev(k, c)) /\ UNCHANGED <<open, told>>
        /\ \/ k = "connected" /\ stage[c] = "announcing" /\ Move(c, "running")
           \/ k = "message" /\ stage[c] = "emitting" /\ Move(c, "running")
           \/ k = "disconnected" /\ stage[c] = "telling" /\ Move(c, "gone")
  BY DEF Speaking, Announce, EmitMessage, TellDisconnected
<1>2. /\ Ev(k, c) \in Event /\ Ev(k, c).kind = k /\ Ev(k, c).conn = c
      /\ \A i \in DOMAIN events : events[i] \in Event
  BY <1>1, EventType DEF TypeOK
<1>3. \A d \in Conns : /\ d # c => stage'[d] = stage[d]
                       /\ stage'[c] \in Early => FALSE
                       /\ stage'[c] \in Late => k # "disconnected"
  BY <1>1 DEF Move, TypeOK, Early, Late, Looping
<1>4. CASE ~open
  <2>1. UNCHANGED events
    BY <1>1, <1>4 DEF Emit
  <2>2. EventOrder'
    BY <1>1, <2>1 DEF Ordered, EventOrder, Before
  <2>3. Reported'
    <3> SUFFICES ASSUME NEW d \in Conns, stage'[d] \in Early PROVE Unreported(d)'
      BY <1>1, <1>4 DEF Reported, Early
    <3>1. d # c /\ stage[d] \in Early
      BY <1>3
    <3>2. QED
      BY <1>1, <2>1, <3>1 DEF Ordered, Reported, Unreported, Early
  <2>4. QED
    BY <2>2, <2>3 DEF Ordered
<1>5. CASE open
  <2> DEFINE n == Len(events) + 1
  <2>1. /\ DOMAIN events' = 1..n /\ DOMAIN events = 1..Len(events)
        /\ \A i \in DOMAIN events : events'[i] = events[i]
        /\ events'[n] = Ev(k, c) /\ Len(events) \in Nat /\ n \in DOMAIN events'
    BY <1>1, <1>2, <1>5, EmitEffect
  <2>2. k = "connected" => Unreported(c)
    BY <1>1 DEF Ordered, Reported
  <2>3. k # "connected" => Begun(c)
    BY <1>1, <1>5 DEF Ordered, Reported, Looping
  <2> HIDE DEF n
  <2>4. /\ \A i \in DOMAIN events' : i \in DOMAIN events \/ i = n
        /\ \A i \in DOMAIN events : i \in DOMAIN events'
    BY <2>1 DEF n
  <2>5. EventOrder'
    <3> SUFFICES ASSUME NEW i \in DOMAIN events', NEW d, d = events'[i].conn
                 PROVE  IF events'[i].kind = "connected"
                          THEN /\ told'[d] = "nothing"
                               /\ ~Before(i, d, {"connected", "message", "disconnected"})'
                          ELSE /\ \/ told'[d] = "connected"
                                  \/ told'[d] = "nothing" /\ Before(i, d, {"connected"})'
                               /\ ~Before(i, d, {"disconnected"})'
      BY DEF EventOrder
    <3>0. \A j \in 1..(i - 1) : j \in DOMAIN events
      BY <2>1 DEF n
    <3>a. \A K : Before(i, d, K)' <=> \E j \in 1..(i - 1) : events[j].conn = d /\ events[j].kind \in K
      BY <2>1, <3>0 DEF Before
    <3>1. CASE i \in DOMAIN events
      <4>1. d = events[i].conn /\ events'[i].kind = events[i].kind
        BY <2>1, <3>1
      <4>2. \A K : Before(i, d, K)' <=> Before(i, d, K)
        BY <3>a DEF Before
      <4>3. QED
        BY <1>1, <3>1, <4>1, <4>2 DEF Ordered, EventOrder
    <3>2. CASE i = n
      <4>1. d = c /\ events'[i].kind = k
        BY <1>2, <2>1, <3>2
      <4>2. 1..(i - 1) = DOMAIN events
        BY <2>1, <3>2 DEF n
      <4>3. CASE k = "connected"
        BY <1>1, <2>2, <3>a, <4>1, <4>2, <4>3 DEF Unreported
      <4>4. CASE k # "connected"
        <5>1. ~Before(i, c, {"disconnected"})'
          <6>1. \A j \in DOMAIN events : events[j].conn = c /\ events[j].kind = "disconnected"
                                           => events[j] = Ev("disconnected", c)
            BY <1>2 DEF Event, Ev
          <6>2. \A j \in DOMAIN events : events[j] # Ev("disconnected", c)
            BY <2>3, <4>4 DEF Begun
          <6>3. ~\E j \in 1..(i - 1) : events[j].conn = d /\ events[j].kind \in {"disconnected"}
            BY <4>1, <4>2, <6>1, <6>2
          <6>4. QED
            BY <3>a, <4>1, <6>3
        <5>2. ASSUME NEW j \in DOMAIN events, events[j] = Ev("connected", c)
              PROVE  Before(i, c, {"connected"})'
          <6>1. events[j].conn = d /\ events[j].kind = "connected"
            BY <4>1, <5>2 DEF Ev
          <6>2. \E l \in 1..(i - 1) : events[l].conn = d /\ events[l].kind \in {"connected"}
            BY <4>2, <6>1
          <6>3. QED
            BY <3>a, <4>1, <6>2
        <5>3. QED
          BY <1>1, <2>3, <4>1, <4>4, <5>1, <5>2 DEF Begun
      <4>5. QED
        BY <4>3, <4>4
    <3>3. QED
      BY <2>4, <3>1, <3>2
  <2>6. ASSUME NEW d \in Conns
        PROVE  /\ stage'[d] \in Early => Unreported(d)'
               /\ open' /\ stage'[d] \in Late => Begun(d)'
    <3>1. CASE d # c
      <4>1. stage'[d] = stage[d] /\ events'[n].conn # d
        BY <1>2, <1>3, <2>1, <3>1
      <4>2. Unreported(d) => Unreported(d)'
        BY <1>1, <2>1, <2>4, <4>1 DEF Unreported
      <4>3. Begun(d) => Begun(d)'
        <5>1. Ev("disconnected", d).conn = d
          BY DEF Ev
        <5>2. QED
          BY <1>1, <2>1, <2>4, <4>1, <5>1 DEF Begun
      <4>4. QED
        BY <1>1, <4>1, <4>2, <4>3 DEF Ordered, Reported, Early, Late
    <3>2. CASE d = c /\ k = "connected"
      <4>1. \A j \in DOMAIN events' : events'[j] # Ev("disconnected", c)
        <5>1. Ev("disconnected", c).conn = c /\ Ev("disconnected", c).kind = "disconnected"
          BY DEF Ev
        <5>2. QED
          BY <1>2, <2>1, <2>2, <2>4, <3>2, <5>1 DEF Unreported
      <4>2. QED
        BY <1>1, <1>3, <2>1, <2>2, <3>2, <4>1 DEF Unreported, Begun
    <3>3. CASE d = c /\ k = "message"
      <4>1. Ev("disconnected", c).kind = "disconnected"
        BY DEF Ev
      <4>2. QED
        BY <1>1, <1>2, <1>3, <2>1, <2>3, <2>4, <3>3, <4>1 DEF Begun
    <3>4. CASE d = c /\ k = "disconnected"
      BY <1>3, <3>4
    <3>5. QED
      BY <3>1, <3>2, <3>3, <3>4
  <2>7. QED
    BY <2>5, <2>6 DEF Ordered, Reported, Early, Late
<1>6. QED
  BY <1>4, <1>5

LEMMA ListenOrdered ==
  ASSUME TypeOK, Ordered, Listen
  PROVE  Ordered'
<1> DEFINE e == Head(events)
<1>1. /\ events' = Tail(events) /\ events # <<>> /\ open /\ UNCHANGED <<open, stage>>
      /\ told' = IF e.kind = "message" THEN told ELSE [told EXCEPT ![e.conn] = e.kind]
  BY DEF Listen, connVars
<1>2. /\ \A i \in DOMAIN events' : i + 1 \in DOMAIN events /\ events'[i] = events[i + 1]
      /\ \A i \in DOMAIN events : i # 1 => i - 1 \in DOMAIN events' /\ events'[i - 1] = events[i]
      /\ 1 \in DOMAIN events /\ events[1] = e /\ e \in Event
      /\ DOMAIN events = 1..Len(events) /\ DOMAIN events' = 1..(Len(events) - 1)
      /\ Len(events) \in Nat
      /\ \A i \in DOMAIN events : events[i] \in Event
  BY <1>1, HeadTailProperties, LenProperties DEF TypeOK
<1> HIDE DEF e
<1>3. e.conn \in Conns /\ e.kind \in {"connected", "message", "disconnected"}
  BY <1>2 DEF Event
<1>4. \A d \in Conns : told'[d] = IF d = e.conn /\ e.kind # "message" THEN e.kind ELSE told[d]
  BY <1>1, <1>3 DEF TypeOK
\* What the head tells about the events behind it
<1>5. ASSUME NEW i \in DOMAIN events, i # 1
      PROVE  \A K : e.conn = events[i].conn /\ e.kind \in K => Before(i, events[i].conn, K)
  <2>1. 1 \in 1..(i - 1)
    BY <1>2, <1>5
  <2>2. QED
    BY <1>2, <2>1 DEF Before
<1>6. e.kind # "connected" => told[e.conn] = "connected"
  <2>1. ~Before(1, e.conn, {"connected"})
    BY DEF Before
  <2>2. QED
    BY <1>2, <2>1 DEF Ordered, EventOrder
<1>7. EventOrder'
  <2> SUFFICES ASSUME NEW i \in DOMAIN events', NEW d, d = events'[i].conn
               PROVE  IF events'[i].kind = "connected"
                        THEN /\ told'[d] = "nothing"
                             /\ ~Before(i, d, {"connected", "message", "disconnected"})'
                        ELSE /\ \/ told'[d] = "connected"
                                \/ told'[d] = "nothing" /\ Before(i, d, {"connected"})'
                             /\ ~Before(i, d, {"disconnected"})'
    BY DEF EventOrder
  <2>1. /\ i + 1 \in DOMAIN events /\ events'[i] = events[i + 1] /\ i + 1 # 1 /\ i \in Nat
        /\ (i + 1) - 1 = i
    BY <1>2
  <2>2. d \in Conns /\ events[i + 1].kind \in {"connected", "message", "disconnected"}
    BY <1>2, <2>1 DEF Event
  <2>3. ASSUME NEW K, Before(i, d, K)' PROVE Before(i + 1, d, K)
    <3>1. PICK j \in 1..(i - 1) : events'[j].conn = d /\ events'[j].kind \in K
      BY <2>3 DEF Before
    <3>2. j \in DOMAIN events' /\ j + 1 \in 1..((i + 1) - 1)
      BY <1>2, <2>1, <3>1
    <3>3. events[j + 1].conn = d /\ events[j + 1].kind \in K
      BY <1>2, <3>1, <3>2
    <3>4. QED
      BY <3>2, <3>3 DEF Before
  <2>4. ASSUME NEW K, Before(i + 1, d, K), ~(e.conn = d /\ e.kind \in K) PROVE Before(i, d, K)'
    <3>1. PICK j \in 1..((i + 1) - 1) : events[j].conn = d /\ events[j].kind \in K
      BY <2>4 DEF Before
    <3>2. j # 1 /\ j \in DOMAIN events
      BY <1>2, <2>1, <2>4, <3>1
    <3>3. j - 1 \in 1..(i - 1) /\ events'[j - 1] = events[j]
      BY <1>2, <2>1, <3>1, <3>2
    <3>4. QED
      BY <3>1, <3>3 DEF Before
  <2>5. \A K : e.conn = d /\ e.kind \in K => Before(i + 1, d, K)
    BY <1>5, <2>1
  <2>6. CASE events[i + 1].kind = "connected"
    <3>1. told[d] = "nothing" /\ ~Before(i + 1, d, {"connected", "message", "disconnected"})
      BY <2>1, <2>6 DEF Ordered, EventOrder
    <3>2. e.conn # d
      BY <1>3, <2>5, <3>1
    <3>3. ~Before(i, d, {"connected", "message", "disconnected"})'
      BY <2>3, <3>1
    <3>4. QED
      BY <1>4, <2>1, <2>2, <2>6, <3>1, <3>2, <3>3
  <2>7. CASE events[i + 1].kind # "connected"
    <3>1. /\ told[d] = "connected" \/ (told[d] = "nothing" /\ Before(i + 1, d, {"connected"}))
          /\ ~Before(i + 1, d, {"disconnected"})
      BY <2>1, <2>7 DEF Ordered, EventOrder
    <3>2. ~Before(i, d, {"disconnected"})'
      BY <2>3, <3>1
    <3>3. ~(e.conn = d /\ e.kind = "disconnected")
      BY <2>5, <3>1
    <3>4. CASE e.conn = d /\ e.kind = "connected"
      BY <1>4, <2>1, <2>2, <2>7, <3>2, <3>4
    <3>5. CASE ~(e.conn = d /\ e.kind = "connected")
      <4>1. told'[d] = told[d]
        BY <1>3, <1>4, <2>2, <3>3, <3>5
      <4>2. Before(i + 1, d, {"connected"}) => Before(i, d, {"connected"})'
        BY <2>4, <3>5
      <4>3. QED
        BY <2>1, <2>7, <3>1, <3>2, <4>1, <4>2
    <3>6. QED
      BY <3>4, <3>5
  <2>8. QED
    BY <2>6, <2>7
<1>8. ASSUME NEW d \in Conns
      PROVE  /\ stage'[d] \in Early => Unreported(d)'
             /\ open' /\ stage'[d] \in Late => Begun(d)'
  <2>1. ASSUME Unreported(d) PROVE Unreported(d)'
    <3>1. e.conn # d
      BY <1>2, <2>1 DEF Unreported
    <3>2. QED
      BY <1>2, <1>4, <2>1, <3>1 DEF Unreported
  <2>2. ASSUME Begun(d) PROVE Begun(d)'
    <3>0. e = [kind |-> e.kind, conn |-> e.conn]
      BY <1>2 DEF Event
    <3>1. \A i \in DOMAIN events' : events'[i] # Ev("disconnected", d)
      BY <1>2, <2>2 DEF Begun
    <3>2. e # Ev("disconnected", d)
      BY <1>2, <2>2 DEF Begun
    <3>3. CASE e.conn = d
      <4>1. e.kind # "disconnected"
        BY <3>0, <3>2, <3>3 DEF Ev
      <4>2. told'[d] = "connected"
        BY <1>3, <1>4, <1>6, <3>3, <4>1
      <4>3. QED
        BY <3>1, <4>2 DEF Begun
    <3>4. CASE e.conn # d
      <4>1. told'[d] = told[d]
        BY <1>4, <3>4
      <4>2. e # Ev("connected", d)
        BY <3>4 DEF Ev
      <4>3. QED
        BY <1>2, <2>2, <3>1, <4>1, <4>2 DEF Begun
    <3>5. QED
      BY <3>3, <3>4
  <2>3. QED
    BY <1>1, <2>1, <2>2 DEF Ordered, Reported, Early, Late
<1>9. QED
  BY <1>7, <1>8 DEF Ordered, Reported, Early, Late

LEMMA StopListeningOrdered ==
  ASSUME TypeOK, Ordered, StopListening
  PROVE  Ordered'
<1>1. events' = <<>> /\ ~open' /\ \A c \in Conns : told'[c] = "nothing"
  BY DEF StopListening
<1>2. EventOrder' /\ Reported'
  BY <1>1 DEF EventOrder, Reported, Unreported
<1>3. QED
  BY <1>2 DEF Ordered

LEMMA OrderedStep ==
  ASSUME TypeOK, Ordered, [Next]_vars
  PROVE  Ordered'
<1>1. CASE UNCHANGED vars
  BY <1>1 DEF Ordered, EventOrder, Before, Reported, Unreported, Begun, vars, connVars, eventVars
<1>2. QED
  BY <1>1, StepKinds, SilentOrdered, SpeakingOrdered, ListenOrdered, StopListeningOrdered

-----------------------------------------------------------------------------
(* Entries and frames *)

LEMMA EntriesStep ==
  ASSUME TypeOK, EntriesAreServed, [Next]_vars
  PROVE  EntriesAreServed'
<1> USE DEF EntriesAreServed, Alive, Looping, Move
<1>1. CASE UNCHANGED vars
  BY <1>1 DEF vars, connVars
<1>2. ASSUME NEW c \in Conns, Lifecycle(c) PROVE EntriesAreServed'
  <2>1. CASE Begin(c) \/ TurnAway(c) \/ ConnectFails(c) \/ UpgradeFails(c) \/ CloseSocket(c)
    BY <2>1 DEF TypeOK, Begin, TurnAway, ConnectFails, UpgradeFails, CloseSocket
  <2>2. CASE Register(c) \/ Announce(c)
    BY <2>2 DEF TypeOK, Register, Announce
  <2>3. CASE RemoveEntry(c)
    BY <2>3 DEF TypeOK, RemoveEntry
  <2>4. CASE TellDisconnected(c)
    BY <2>4 DEF TypeOK, TellDisconnected
  <2>5. QED
    BY <1>2, <2>1, <2>2, <2>3, <2>4 DEF Lifecycle
<1>3. ASSUME NEW c \in Conns, Loop(c) PROVE EntriesAreServed'
  <2>0. CASE Ping(c)
    BY <2>0, ConnFacts DEF Ping, Break
  <2>1. CASE BreakStopped(c) \/ ReceiveEnd(c) \/ WriteFails(c) \/ BreakLocally(c)
    BY <2>1, ConnFacts DEF BreakStopped, ReceiveEnd, WriteFails, BreakLocally, Break
  <2>2. CASE ReceiveText(c) \/ EmitMessage(c) \/ ReceivePong(c)
    BY <2>2, ConnFacts DEF ReceiveText, EmitMessage, ReceivePong
  <2>3. CASE TakeFrame(c) \/ Written(c)
    BY <2>3 DEF TypeOK, TakeFrame, Written
  <2>4. QED
    BY <1>3, <2>0, <2>1, <2>2, <2>3 DEF Loop
<1>4. CASE Application
  BY <1>4 DEF Application, Close, Send, Queue, Shutdown, ClearEntries, StopServer, Listen,
              StopListening, connVars
<1>5. ASSUME NEW c \in Conns, LinkChanges(c) \/ FallQuiet(c) PROVE EntriesAreServed'
  BY <1>5 DEF LinkChanges, FallQuiet
<1>6. QED
  BY <1>1, <1>2, <1>3, <1>4, <1>5 DEF Next

Ended == {"closing", "removing", "telling", "gone"}
Frames == Flushed /\ CloseFlushes

\* A step that leaves queues, calls and reasons alone, and brings a connection
\* into the map only before it has a reason to end.
LEMMA CalmFrames ==
  ASSUME TypeOK, Frames, UNCHANGED <<reason, out, call, onto>>,
         \A d \in Conns : stage'[d] \in Ended <=> stage[d] \in Ended,
         \A d \in entries' : d \in entries \/ stage[d] = "connecting"
  PROVE  Frames'
<1>1. \A d \in Conns : reason'[d] # "none" <=> stage'[d] \in Ended
  BY DEF Frames, Flushed, Ended
<1>2. ASSUME NEW d \in Conns, reason[d] = "closed locally" PROVE Senderless(d)'
  <2>1. Senderless(d) /\ stage[d] \in Ended
    BY <1>2 DEF Frames, Flushed, Ended
  <2>2. d \notin entries'
    BY <2>1 DEF Senderless, Ended
  <2>3. QED
    BY <2>1, <2>2 DEF Senderless
<1>3. QED
  BY <1>1, <1>2 DEF Frames, Flushed, CloseFlushes, Ended

LEMMA BreakFrames ==
  ASSUME TypeOK, Frames, NEW c \in Conns, NEW why \in Reasons, why # "none",
         stage[c] \notin Ended, Break(c, why),
         why = "closed locally" => out[c] = <<>> /\ Senderless(c)
  PROVE  Frames'
<1>1. /\ reason[c] = "none"
      /\ \A d \in Conns : reason'[d] = (IF d = c THEN why ELSE reason[d])
      /\ \A d \in Conns : stage'[d] = (IF d = c THEN "closing" ELSE stage[d])
      /\ UNCHANGED <<out, call, onto, entries>>
  BY DEF Frames, Flushed, Ended, Break, Move, TypeOK, sendVars
<1>2. \A d \in Conns : Senderless(d)' = Senderless(d)
  BY <1>1 DEF Senderless
<1>3. \A d \in Conns : reason'[d] # "none" <=> stage'[d] \in Ended
  BY <1>1 DEF Frames, Flushed, Ended
<1>4. \A s \in Sends : call[s] = "lost" => onto[s] # c
  BY <1>1 DEF Frames, CloseFlushes
<1>5. CloseFlushes'
  BY <1>1, <1>4 DEF Frames, CloseFlushes, TypeOK
<1>6. \A d \in Conns : reason'[d] = "closed locally" => out'[d] = <<>> /\ Senderless(d)'
  BY <1>1, <1>2 DEF Frames, Flushed
<1>7. QED
  BY <1>1, <1>3, <1>5, <1>6 DEF Frames, Flushed, Ended

LEMMA TakeFrameFrames ==
  ASSUME TypeOK, Frames, NEW c \in Conns, TakeFrame(c)
  PROVE  Frames'
<1> DEFINE h == Head(out[c])
<1>1. out[c] \in Seq(Sends) /\ out[c] # <<>> /\ reason[c] = "none"
  BY DEF TakeFrame, TypeOK, Frames, Flushed
<1>2. /\ h \in Sends /\ DOMAIN Tail(out[c]) = 1..(Len(out[c]) - 1)
      /\ \A i \in DOMAIN out[c] : i # 1 => i - 1 \in DOMAIN Tail(out[c]) /\ Tail(out[c])[i - 1] = out[c][i]
      /\ out[c][1] = h
  BY <1>1, HeadTailProperties, LenProperties
<1> HIDE DEF h
<1>3. /\ \A s \in Sends : call'[s] = (IF s = h THEN "written" ELSE call[s])
      /\ \A d \in Conns : out'[d] = (IF d = c THEN Tail(out[c]) ELSE out[d])
      /\ \A d \in Conns : stage'[d] \in Ended <=> stage[d] \in Ended
      /\ UNCHANGED <<reason, onto, entries>>
  BY DEF TakeFrame, TypeOK, Move, Ended, h
<1>4. \A d \in Conns : reason'[d] # "none" <=> stage'[d] \in Ended
  BY <1>3 DEF Frames, Flushed, Ended
<1>5. ASSUME NEW s \in Sends, call'[s] = "queued"
      PROVE  \E i \in DOMAIN out'[onto[s]] : out'[onto[s]][i] = s
  <2>1. s # h /\ call[s] = "queued" /\ onto[s] \in Conns
    BY <1>3, <1>5 DEF TypeOK
  <2>2. PICK i \in DOMAIN out[onto[s]] : out[onto[s]][i] = s
    BY <2>1 DEF Frames, Flushed
  <2>3. CASE onto[s] = c
    <3>1. i # 1 /\ i \in DOMAIN out[c] /\ out[c][i] = s
      BY <1>2, <2>1, <2>2, <2>3
    <3>2. i - 1 \in DOMAIN Tail(out[c]) /\ Tail(out[c])[i - 1] = s
      BY <1>2, <3>1
    <3>3. out'[onto[s]] = Tail(out[c])
      BY <1>3, <2>1, <2>3
    <3>4. QED
      BY <3>2, <3>3
  <2>4. CASE onto[s] # c
    BY <1>3, <2>1, <2>2, <2>4
  <2>5. QED
    BY <2>3, <2>4
<1>6. ASSUME NEW d \in Conns, reason'[d] = "closed locally"
      PROVE  out'[d] = <<>> /\ Senderless(d)'
  <2>1. d # c /\ out[d] = <<>> /\ Senderless(d)
    BY <1>1, <1>3, <1>6 DEF Frames, Flushed
  <2>2. \A s \in Sends : call'[s] = "waiting" => call[s] = "waiting"
    BY <1>3
  <2>3. QED
    BY <1>3, <2>1, <2>2 DEF Senderless
<1>7. CloseFlushes'
  BY <1>3 DEF Frames, CloseFlushes
<1>8. QED
  BY <1>3, <1>4, <1>5, <1>6, <1>7 DEF Frames, Flushed, Ended

LEMMA CloseSocketFrames ==
  ASSUME TypeOK, Frames, NEW c \in Conns, CloseSocket(c)
  PROVE  Frames'
<1>1. /\ \A s \in Sends : call'[s] = (IF call[s] = "queued" /\ onto[s] = c THEN "lost" ELSE call[s])
      /\ \A d \in Conns : out'[d] = (IF d = c THEN <<>> ELSE out[d])
      /\ \A d \in Conns : stage'[d] \in Ended <=> stage[d] \in Ended
      /\ UNCHANGED <<reason, onto, entries>> /\ stage[c] = "closing"
  BY DEF CloseSocket, DropQueue, TypeOK, Move, Ended
<1>2. \A d \in Conns : reason'[d] # "none" <=> stage'[d] \in Ended
  BY <1>1 DEF Frames, Flushed, Ended
<1>3. ASSUME NEW s \in Sends, call'[s] = "queued"
      PROVE  \E i \in DOMAIN out'[onto[s]] : out'[onto[s]][i] = s
  <2>1. call[s] = "queued" /\ onto[s] # c /\ onto[s] \in Conns
    BY <1>1, <1>3 DEF TypeOK
  <2>2. out'[onto[s]] = out[onto[s]]
    BY <1>1, <2>1
  <2>3. QED
    BY <2>1, <2>2 DEF Frames, Flushed
<1>4. ASSUME NEW d \in Conns, reason'[d] = "closed locally"
      PROVE  out'[d] = <<>> /\ Senderless(d)'
  <2>1. out[d] = <<>> /\ Senderless(d)
    BY <1>1, <1>4 DEF Frames, Flushed
  <2>2. \A s \in Sends : call'[s] = "waiting" => call[s] = "waiting"
    BY <1>1
  <2>3. QED
    BY <1>1, <2>1, <2>2 DEF Senderless
<1>5. CloseFlushes'
  <2> SUFFICES ASSUME NEW s \in Sends, call'[s] = "lost"
               PROVE  reason[onto[s]] \notin {"none", "closed locally"}
    BY <1>1 DEF CloseFlushes
  <2>1. CASE call[s] = "lost"
    BY <2>1 DEF Frames, CloseFlushes
  <2>2. CASE call[s] # "lost"
    <3>1. call[s] = "queued" /\ onto[s] = c
      BY <1>1, <2>2
    <3>2. out[c] # <<>>
      <4>1. \E i \in DOMAIN out[c] : out[c][i] = s
        BY <3>1 DEF Frames, Flushed
      <4>2. DOMAIN (<<>>) = {}
        OBVIOUS
      <4>3. QED
        BY <4>1, <4>2
    <3>3. QED
      BY <1>1, <3>1, <3>2 DEF Frames, Flushed, Ended
  <2>3. QED
    BY <2>1, <2>2
<1>6. QED
  BY <1>1, <1>2, <1>3, <1>4, <1>5 DEF Frames, Flushed, Ended

LEMMA SendFrames ==
  ASSUME TypeOK, Frames, NEW s \in Sends, Send(s)
  PROVE  Frames'
<1>1. /\ \A t \in Sends : t # s => call'[t] = call[t]
      /\ call'[s] = IF onto[s] \in entries THEN "waiting" ELSE "failed"
      /\ UNCHANGED <<stage, reason, onto, entries, out>>
  BY DEF Send, TypeOK, connVars
<1>2. \A d \in Conns : Senderless(d) => Senderless(d)'
  BY <1>1 DEF Senderless
<1>3. \A t \in Sends : call'[t] \in {"queued", "lost"} => call'[t] = call[t]
  BY <1>1
<1>4. Flushed'
  BY <1>1, <1>2, <1>3 DEF Frames, Flushed
<1>5. CloseFlushes'
  BY <1>1, <1>3 DEF Frames, CloseFlushes
<1>6. QED
  BY <1>4, <1>5 DEF Frames

LEMMA QueueFrames ==
  ASSUME TypeOK, Frames, NEW s \in Sends, Queue(s)
  PROVE  Frames'
<1> DEFINE c == onto[s]
<1>0. c \in Conns /\ out[c] \in Seq(Sends) /\ call[s] = "waiting" /\ ~Senderless(c)
  BY DEF Queue, TypeOK, Senderless
<1>1. /\ \A t \in Sends : t # s => call'[t] = call[t]
      /\ call'[s] \in {"queued", "failed"}
      /\ UNCHANGED <<stage, reason, onto, entries>>
      /\ \/ out' = out /\ call'[s] = "failed"
         \/ out' = [out EXCEPT ![c] = Append(@, s)]
  BY DEF Queue, TypeOK, connVars
<1>2. \A d \in Conns : Senderless(d) => Senderless(d)'
  BY <1>1 DEF Senderless
<1>3. \A d \in Conns : d # c => out'[d] = out[d]
  BY <1>0, <1>1 DEF TypeOK
<1>4. \A i \in DOMAIN out[c] : i \in DOMAIN out'[c] /\ out'[c][i] = out[c][i]
  <2>1. CASE out' = out
    BY <2>1
  <2>2. CASE out' = [out EXCEPT ![c] = Append(@, s)]
    <3>1. out'[c] = Append(out[c], s)
      BY <1>0, <2>2 DEF TypeOK
    <3>2. QED
      BY <1>0, <3>1, AppendProperties, LenProperties
  <2>3. QED
    BY <1>1, <2>1, <2>2
<1>5. call'[s] = "queued" => \E i \in DOMAIN out'[c] : out'[c][i] = s
  <2>1. CASE out' = [out EXCEPT ![c] = Append(@, s)]
    <3>1. out'[c] = Append(out[c], s)
      BY <1>0, <2>1 DEF TypeOK
    <3>2. Len(out[c]) + 1 \in DOMAIN out'[c] /\ out'[c][Len(out[c]) + 1] = s
      BY <1>0, <3>1, AppendProperties, LenProperties
    <3>3. QED
      BY <3>2
  <2>2. QED
    BY <1>1, <2>1
<1> HIDE DEF c
<1>6. ASSUME NEW t \in Sends, call'[t] = "queued"
      PROVE  \E i \in DOMAIN out'[onto[t]] : out'[onto[t]][i] = t
  <2>1. CASE t = s
    BY <1>5, <1>6, <2>1 DEF c
  <2>2. CASE t # s
    <3>1. call[t] = "queued" /\ onto[t] \in Conns
      BY <1>1, <1>6, <2>2 DEF TypeOK
    <3>2. PICK i \in DOMAIN out[onto[t]] : out[onto[t]][i] = t
      BY <3>1 DEF Frames, Flushed
    <3>3. QED
      BY <1>3, <1>4, <3>1, <3>2
  <2>3. QED
    BY <2>1, <2>2
<1>7. \A d \in Conns : reason'[d] = "closed locally" => out'[d] = <<>> /\ Senderless(d)'
  BY <1>0, <1>1, <1>2, <1>3 DEF Frames, Flushed
<1>8. CloseFlushes'
  BY <1>1 DEF Frames, CloseFlushes
<1>9. QED
  BY <1>1, <1>6, <1>7, <1>8 DEF Frames, Flushed

LEMMA FramesStep ==
  ASSUME TypeOK, Frames, [Next]_vars
  PROVE  Frames'
<1>1. CASE UNCHANGED vars
  BY <1>1, CalmFrames DEF vars, connVars, sendVars
<1>2. ASSUME NEW c \in Conns, Lifecycle(c) PROVE Frames'
  <2>1. CASE CloseSocket(c)
    BY <2>1, CloseSocketFrames
  <2>2. CASE Begin(c) \/ TurnAway(c) \/ ConnectFails(c) \/ UpgradeFails(c)
            \/ Register(c) \/ Announce(c) \/ RemoveEntry(c) \/ TellDisconnected(c)
    <3>1. \A d \in Conns : stage'[d] \in Ended <=> stage[d] \in Ended
      BY <2>2 DEF Begin, TurnAway, ConnectFails, UpgradeFails, Register, Announce,
                  RemoveEntry, TellDisconnected, Move, TypeOK, Ended
    <3>2. /\ UNCHANGED <<reason, out, call, onto>>
          /\ \A d \in entries' : d \in entries \/ stage[d] = "connecting"
      BY <2>2 DEF Begin, TurnAway, ConnectFails, UpgradeFails, Register, Announce,
                  RemoveEntry, TellDisconnected, sendVars
    <3>3. QED
      BY <3>1, <3>2, CalmFrames
  <2>3. QED
    BY <1>2, <2>1, <2>2 DEF Lifecycle
<1>3. ASSUME NEW c \in Conns, Loop(c) PROVE Frames'
  <2>1. CASE BreakStopped(c) \/ ReceiveEnd(c) \/ WriteFails(c)
    BY <2>1, BreakFrames DEF BreakStopped, ReceiveEnd, WriteFails, Reasons, Ended
  <2>2. CASE BreakLocally(c)
    BY <2>2, BreakFrames DEF BreakLocally, Reasons, Ended
  <2>3. CASE Ping(c) /\ quiet[c]
    BY <2>3, BreakFrames DEF Ping, Reasons, Ended
  <2>4. CASE TakeFrame(c)
    BY <2>4, TakeFrameFrames
  <2>5. CASE (Ping(c) /\ ~quiet[c]) \/ ReceiveText(c) \/ EmitMessage(c) \/ ReceivePong(c) \/ Written(c)
    <3>1. \A d \in Conns : stage'[d] \in Ended <=> stage[d] \in Ended
      BY <2>5 DEF Ping, ReceiveText, EmitMessage, ReceivePong, Written, Move, TypeOK, Ended
    <3>2. UNCHANGED <<reason, out, call, onto, entries>>
      BY <2>5 DEF Ping, ReceiveText, EmitMessage, ReceivePong, Written, sendVars
    <3>3. QED
      BY <3>1, <3>2, CalmFrames
  <2>6. QED
    BY <1>3, <2>1, <2>2, <2>3, <2>4, <2>5 DEF Loop
<1>4. CASE Application
  <2>1. CASE (\E c \in Conns : Close(c)) \/ Shutdown \/ ClearEntries \/ StopServer \/ Listen \/ StopListening
    <3>1. UNCHANGED <<stage, reason, out, call, onto>> /\ entries' \subseteq entries
      BY <2>1 DEF Close, Shutdown, ClearEntries, StopServer, Listen, StopListening, connVars, sendVars
    <3>2. QED
      BY <3>1, CalmFrames
  <2>2. QED
    BY <1>4, <2>1, SendFrames, QueueFrames DEF Application
<1>5. ASSUME NEW c \in Conns, LinkChanges(c) \/ FallQuiet(c) PROVE Frames'
  BY <1>5, CalmFrames DEF LinkChanges, FallQuiet, sendVars
<1>6. QED
  BY <1>1, <1>2, <1>3, <1>4, <1>5 DEF Next

-----------------------------------------------------------------------------
(* Theorems *)

LEMMA InvariantInit == Init => IInv
<1> SUFFICES ASSUME Init PROVE IInv
  OBVIOUS
<1>1. TypeOK
  BY TypeInit
<1>2. EventOrder /\ EntriesAreServed /\ CloseFlushes
  BY DEF Init, EventOrder, EntriesAreServed, CloseFlushes
<1>3. Reported
  BY DEF Init, Reported, Unreported, Looping
<1>4. Flushed
  BY DEF Init, Flushed
<1>5. QED
  BY <1>1, <1>2, <1>3, <1>4 DEF IInv

\* The inductive invariant: what has been reported fits the stage of each
\* connection, and what is queued for it the way it ends.
THEOREM HubInvariant == Spec => []IInv
<1>1. Init => IInv
  BY InvariantInit
<1>2. IInv /\ [Next]_vars => IInv'
  BY TypeStep, OrderedStep, EntriesStep, FramesStep DEF IInv, Ordered, Frames
<1>3. QED
  BY <1>1, <1>2, PTL DEF Spec

\* Every variable keeps its type, and no queue outgrows its capacity.
THEOREM HubTypeCorrect == Spec => []TypeOK
<1>1. IInv => TypeOK
  BY DEF IInv
<1>2. QED
  BY <1>1, HubInvariant, PTL

\* One Connected, any number of Message, one Disconnected, in this order.
THEOREM EventsAreOrdered == Spec => []EventOrder
<1>1. IInv => EventOrder
  BY DEF IInv
<1>2. QED
  BY <1>1, HubInvariant, PTL

\* No entry of the map outlives its connection.
THEOREM NoStaleEntry == Spec => []EntriesAreServed
<1>1. IInv => EntriesAreServed
  BY DEF IInv
<1>2. QED
  BY <1>1, HubInvariant, PTL

\* The frames queued before the application closes a connection are written.
THEOREM ClosingFlushes == Spec => []CloseFlushes
<1>1. IInv => CloseFlushes
  BY DEF IInv
<1>2. QED
  BY <1>1, HubInvariant, PTL

=============================================================================
