-------------------------- MODULE ReceiveAppProofs --------------------------
(***************************************************************************)
(* Proofs about the application and its receive server: for any number of  *)
(* requests and files, what is written was selected for that very request, *)
(* and neither an answer nor the end of a session is lost between the      *)
(* server, the bridge and the app.                                         *)
(***************************************************************************)
EXTENDS ReceiveApp, SequenceTheorems, TLAPS

-----------------------------------------------------------------------------
(* Events and commands *)

Event ==
  [kind : Notices \cup {"prepare"}, session : Sessions] \cup [kind : {"file"}, job : Jobs]

Command ==
  [op : {"decide"}, from : Sessions, files : SUBSET Files]
    \cup [op : {"target", "reject"}, job : Jobs] \cup [op : {"cancel"}, session : Sessions]

LEMMA JobParts ==
  /\ \A j \in Jobs : SessionOf(j) \in Sessions /\ FileOf(j) \in Files /\ j = <<SessionOf(j), FileOf(j)>>
  /\ \A s \in Sessions, f \in Files :
       <<s, f>> \in Jobs /\ SessionOf(<<s, f>>) = s /\ FileOf(<<s, f>>) = f
  BY DEF Jobs, SessionOf, FileOf

LEMMA EventParts ==
  /\ \A s \in Sessions : /\ Prepare(s) \in Event /\ Prepare(s).kind = "prepare"
                         /\ Prepare(s).session = s
  /\ \A j \in Jobs : FileUpload(j) \in Event /\ FileUpload(j).kind = "file" /\ FileUpload(j).job = j
  /\ \A k \in Notices, s \in Sessions :
       Notice(k, s) \in Event /\ Notice(k, s).kind = k /\ Notice(k, s).session = s
  BY DEF Prepare, FileUpload, Notice, Event, Notices

LEMMA EventKinds ==
  ASSUME NEW e \in Event
  PROVE  \/ e.kind = "prepare" /\ e.session \in Sessions /\ e = Prepare(e.session)
         \/ e.kind = "file" /\ e.job \in Jobs /\ e = FileUpload(e.job)
         \/ e.kind \in Notices /\ e.session \in Sessions /\ e = Notice(e.kind, e.session)
  BY DEF Prepare, FileUpload, Notice, Event, Notices

LEMMA CommandParts ==
  /\ \A s \in Sessions, F \in SUBSET Files :
       /\ Decide(s, F) \in Command /\ Decide(s, F).op = "decide"
       /\ Decide(s, F).from = s /\ Decide(s, F).files = F
  /\ \A j \in Jobs :
       /\ GiveTarget(j) \in Command /\ GiveTarget(j).op = "target" /\ GiveTarget(j).job = j
       /\ RejectUpload(j) \in Command /\ RejectUpload(j).op = "reject" /\ RejectUpload(j).job = j
  /\ \A s \in Sessions :
       CancelSession(s) \in Command /\ CancelSession(s).op = "cancel" /\ CancelSession(s).session = s
  BY DEF Decide, GiveTarget, RejectUpload, CancelSession, Command

LEMMA CommandKinds ==
  ASSUME NEW c \in Command
  PROVE  /\ c.op = "decide" => c.from \in Sessions /\ c.files \in SUBSET Files
                                /\ c = Decide(c.from, c.files)
         /\ c.op = "target" => c.job \in Jobs /\ c = GiveTarget(c.job)
         /\ c.op = "reject" => c.job \in Jobs /\ c = RejectUpload(c.job)
         /\ c.op = "cancel" => c.session \in Sessions /\ c = CancelSession(c.session)
  BY DEF Decide, GiveTarget, RejectUpload, CancelSession, Command

-----------------------------------------------------------------------------
(* Types *)

FileStatus == {"queue", "sending", "skipped", "finished", "failed"}
Stages == {"waiting", "sending", "finished", "finishedWithErrors", "canceledBySender"}
Views(s) == [id : {s}, status : Stages, files : [offer[s] -> FileStatus]]

ServerType ==
  /\ offer \in [Sessions -> SUBSET Files]
  /\ slot \in {"free", "pending"} \cup Sessions
  /\ status \in [Files -> {"absent", "pending", "in_progress", "settled"}]
  /\ pc \in [Sessions -> {"new", "waiting", "opened", "over"}]
  /\ verdict \in [Sessions -> [from : Sessions \cup {"none"}, files : SUBSET Files]]
  /\ owed \in [Sessions -> {"none"} \cup Notices]
  /\ up \in [Jobs -> {"none", "asked", "saving", "ending", "over"}]
  /\ result \in [Jobs -> {"none", "saved", "failed"}]

BridgeType ==
  /\ events \in Seq(Event) /\ inbox \in Seq(Event)
  /\ decision \in Sessions \cup {"none"} /\ targets \in SUBSET Jobs
  /\ commands \in SUBSET Command

AppType ==
  /\ session = NoSession \/ \E s \in Sessions : session \in Views(s)
  /\ lookups \in Seq(Sessions) /\ permitting \in SUBSET Sessions
  /\ saving \in [Jobs -> {"none", "preparing", "receiving", "recording", "over"}]
  /\ closing \in SUBSET Sessions
  /\ chosen \in [Sessions -> SUBSET Files]

TypeOK == ServerType /\ BridgeType /\ AppType

LEMMA NoSessionParts == NoSession.id = "none" /\ NoSession.status = "none" /\ NoSession.id \notin Sessions
  BY AppAssumption DEF NoSession

LEMMA ShownType ==
  ASSUME TypeOK, Shown
  PROVE  /\ session.id \in Sessions /\ session \in Views(session.id)
         /\ session.status \in Stages /\ session.files \in [offer[session.id] -> FileStatus]
         /\ offer[session.id] \in SUBSET Files
  BY DEF TypeOK, AppType, ServerType, Shown, Views

LEMMA IdShown ==
  ASSUME TypeOK, session.id \in Sessions
  PROVE  Shown
  BY NoSessionParts DEF Shown

\* What happens to the session shown keeps it a view of its request.
LEMMA ViewChanges ==
  ASSUME NEW s \in Sessions, NEW v \in Views(s), offer[s] \in SUBSET Files
  PROVE  /\ \A f \in Files, st \in FileStatus : WithFile(v, f, st) \in Views(s)
         /\ \A selected : Accepted(v, selected) \in Views(s)
         /\ Concluded(v) \in Views(s)
         /\ \A st \in Stages : [v EXCEPT !.status = st] \in Views(s)
<1>1. \A st \in Stages : [v EXCEPT !.status = st] \in Views(s)
  BY DEF Views
<1>2. Concluded(v) \in Views(s)
  BY <1>1 DEF Concluded, Stages
<1>3. ASSUME NEW f \in Files, NEW st \in FileStatus PROVE WithFile(v, f, st) \in Views(s)
  BY DEF WithFile, Views
<1>4. ASSUME NEW selected PROVE Accepted(v, selected) \in Views(s)
  BY DEF Accepted, Views, Stages, FileStatus
<1>5. QED
  BY <1>1, <1>2, <1>3, <1>4

LEMMA NewView ==
  ASSUME NEW s \in Sessions
  PROVE  NewSession(s) \in Views(s)
  BY DEF NewSession, Views, Stages, FileStatus

-----------------------------------------------------------------------------
(* What a queue holds, and in which order *)

Has(q, e) == \E i \in DOMAIN q : q[i] = e
Once(q, e) == \A i, k \in DOMAIN q : q[i] = e /\ q[k] = e => i = k
Ahead(q, a, b) == \A i, k \in DOMAIN q : q[i] = a /\ q[k] = b => i < k
FollowedBy(q, X, e) == \A i \in DOMAIN q : q[i] \in X => \E k \in DOMAIN q : i < k /\ q[k] = e

LEMMA NothingHeld ==
  /\ \A e : ~Has(<<>>, e) /\ Once(<<>>, e)
  /\ \A a, b : Ahead(<<>>, a, b)
  /\ \A X, e : FollowedBy(<<>>, X, e)
<1>1. \A i \in DOMAIN <<>> : FALSE
  OBVIOUS
<1>2. QED
  BY <1>1 DEF Has, Once, Ahead, FollowedBy

LEMMA Appended ==
  ASSUME NEW S, NEW q \in Seq(S), NEW m \in S
  PROVE  /\ \A e : Has(Append(q, m), e) <=> Has(q, e) \/ e = m
         /\ \A e : Once(q, e) /\ (e = m => ~Has(q, e)) => Once(Append(q, m), e)
         /\ \A a, b : Ahead(q, a, b) /\ (m = a => ~Has(q, b) /\ a # b) => Ahead(Append(q, m), a, b)
         /\ \A X, e : m \notin X /\ (FollowedBy(q, X, e) \/ m = e) => FollowedBy(Append(q, m), X, e)
<1>1. PICK r : r = Append(q, m)
  OBVIOUS
<1>2. PICK n : n = Len(q)
  OBVIOUS
<1>3. /\ n \in Nat /\ DOMAIN q = 1 .. n /\ DOMAIN r = 1 .. (n + 1)
      /\ \A i \in DOMAIN q : r[i] = q[i]
      /\ r[n + 1] = m
  BY <1>1, <1>2, AppendProperties, LenProperties
<1>4. /\ \A i \in DOMAIN r : i \in DOMAIN q \/ i = n + 1
      /\ \A i \in DOMAIN q : i < n + 1 /\ i \in DOMAIN r
      /\ n + 1 \in DOMAIN r
  BY <1>3
<1>5. ASSUME NEW e PROVE Has(r, e) <=> Has(q, e) \/ e = m
  BY <1>3, <1>4 DEF Has
<1>6. ASSUME NEW e, Once(q, e), e = m => ~Has(q, e) PROVE Once(r, e)
  BY <1>3, <1>4, <1>6 DEF Once, Has
<1>7. ASSUME NEW a, NEW b, Ahead(q, a, b), m = a => ~Has(q, b) /\ a # b PROVE Ahead(r, a, b)
  BY <1>3, <1>4, <1>7 DEF Ahead, Has
<1>8. ASSUME NEW X, NEW e, m \notin X, FollowedBy(q, X, e) \/ m = e PROVE FollowedBy(r, X, e)
  <2>1. SUFFICES ASSUME NEW i \in DOMAIN r, r[i] \in X
                 PROVE  \E k \in DOMAIN r : i < k /\ r[k] = e
    BY DEF FollowedBy
  <2>2. i \in DOMAIN q /\ q[i] \in X
    BY <1>3, <1>4, <1>8, <2>1
  <2>3. CASE m = e
    BY <1>3, <1>4, <2>2, <2>3
  <2>4. CASE FollowedBy(q, X, e)
    <3>1. PICK k \in DOMAIN q : i < k /\ q[k] = e
      BY <2>2, <2>4 DEF FollowedBy
    <3>2. QED
      BY <1>3, <1>4, <3>1
  <2>5. QED
    BY <1>8, <2>3, <2>4
<1>9. QED
  BY <1>1, <1>5, <1>6, <1>7, <1>8

LEMMA HeadTaken ==
  ASSUME NEW S, NEW q \in Seq(S), q # <<>>
  PROVE  /\ \A e : Has(q, e) <=> e = Head(q) \/ Has(Tail(q), e)
         /\ \A e : Once(q, e) => Once(Tail(q), e) /\ (e = Head(q) => ~Has(Tail(q), e))
         /\ \A a, b : Ahead(q, a, b) => Ahead(Tail(q), a, b) /\ (b = Head(q) => ~Has(q, a))
         /\ \A X, e : FollowedBy(q, X, e) =>
              /\ FollowedBy(Tail(q), X, e)
              /\ Head(q) \in X => Has(Tail(q), e)
              /\ Once(q, e) /\ Head(q) = e => \A x \in X : ~Has(q, x)
<1>1. PICK r : r = Tail(q)
  OBVIOUS
<1>2. PICK n : n = Len(q)
  OBVIOUS
<1>3. n \in Nat /\ DOMAIN q = 1 .. n /\ DOMAIN r = 1 .. (n - 1)
  BY <1>1, <1>2, HeadTailProperties, LenProperties
<1>4. PICK h : h = Head(q)
  OBVIOUS
<1>5. 1 \in DOMAIN q /\ q[1] = h /\ \A i \in DOMAIN r : i + 1 \in DOMAIN q /\ r[i] = q[i + 1]
  BY <1>1, <1>4, HeadTailProperties, LenProperties
<1>6. \A i \in DOMAIN q : i # 1 => i - 1 \in DOMAIN r /\ r[i - 1] = q[i]
  BY <1>1, HeadTailProperties, LenProperties
<1>7. \A i \in DOMAIN q : i \in Nat /\ i >= 1
  BY <1>3
<1>8. ASSUME NEW e PROVE Has(q, e) <=> e = h \/ Has(r, e)
  <2>1. Has(q, e) => e = h \/ Has(r, e)
    BY <1>5, <1>6 DEF Has
  <2>2. Has(r, e) => Has(q, e)
    BY <1>5 DEF Has
  <2>3. e = h => Has(q, e)
    BY <1>5 DEF Has
  <2>4. QED
    BY <2>1, <2>2, <2>3
<1>9. ASSUME NEW e, Once(q, e) PROVE Once(r, e) /\ (e = h => ~Has(r, e))
  <2>1. Once(r, e)
    <3>1. SUFFICES ASSUME NEW i \in DOMAIN r, NEW k \in DOMAIN r, r[i] = e, r[k] = e PROVE i = k
      BY DEF Once
    <3>2. i + 1 = k + 1
      BY <1>5, <1>9, <3>1 DEF Once
    <3>3. QED
      BY <1>3, <3>2
  <2>2. ASSUME e = h, NEW i \in DOMAIN r, r[i] = e PROVE FALSE
    <3>1. i + 1 = 1
      BY <1>5, <1>9, <2>2 DEF Once
    <3>2. QED
      BY <1>3, <3>1
  <2>3. QED
    BY <2>1, <2>2 DEF Has
<1>10. ASSUME NEW a, NEW b, Ahead(q, a, b)
       PROVE  Ahead(r, a, b) /\ (b = h => ~Has(q, a))
  <2>1. Ahead(r, a, b)
    <3>1. SUFFICES ASSUME NEW i \in DOMAIN r, NEW k \in DOMAIN r, r[i] = a, r[k] = b PROVE i < k
      BY DEF Ahead
    <3>2. i + 1 < k + 1
      BY <1>5, <1>10, <3>1 DEF Ahead
    <3>3. QED
      BY <1>3, <3>2
  <2>2. ASSUME b = h, NEW i \in DOMAIN q, q[i] = a PROVE FALSE
    <3>1. i < 1
      BY <1>5, <1>10, <2>2 DEF Ahead
    <3>2. QED
      BY <1>7, <3>1
  <2>3. QED
    BY <2>1, <2>2 DEF Has
<1>11. ASSUME NEW X, NEW e, FollowedBy(q, X, e)
       PROVE  /\ FollowedBy(r, X, e)
              /\ h \in X => Has(r, e)
              /\ Once(q, e) /\ h = e => \A x \in X : ~Has(q, x)
  <2>1. FollowedBy(r, X, e)
    <3>1. SUFFICES ASSUME NEW i \in DOMAIN r, r[i] \in X PROVE \E k \in DOMAIN r : i < k /\ r[k] = e
      BY DEF FollowedBy
    <3>2. PICK k \in DOMAIN q : i + 1 < k /\ q[k] = e
      BY <1>5, <1>11, <3>1 DEF FollowedBy
    <3>3. i < k - 1 /\ k # 1
      BY <1>3, <3>2
    <3>4. QED
      BY <1>6, <3>2, <3>3
  <2>2. ASSUME h \in X PROVE Has(r, e)
    <3>1. PICK k \in DOMAIN q : 1 < k /\ q[k] = e
      BY <1>5, <1>11, <2>2 DEF FollowedBy
    <3>2. k # 1
      BY <1>7, <3>1
    <3>3. QED
      BY <1>6, <3>1, <3>2 DEF Has
  <2>3. ASSUME Once(q, e), h = e, NEW x \in X, NEW i \in DOMAIN q, q[i] = x PROVE FALSE
    <3>1. PICK k \in DOMAIN q : i < k /\ q[k] = e
      BY <1>11, <2>3 DEF FollowedBy
    <3>2. k = 1
      BY <1>5, <2>3, <3>1 DEF Once
    <3>3. QED
      BY <1>7, <3>1, <3>2
  <2>4. QED
    BY <2>1, <2>2, <2>3 DEF Has
<1>12. QED
  BY <1>1, <1>4, <1>8, <1>9, <1>10, <1>11

LEMMA Joined ==
  ASSUME NEW S, NEW a \in Seq(S), NEW b \in Seq(S)
  PROVE  /\ \A e : Has(a \o b, e) <=> Has(a, e) \/ Has(b, e)
         /\ \A e : Once(a \o b, e) => Once(b, e) /\ ~(Has(a, e) /\ Has(b, e))
         /\ \A X, e : FollowedBy(a \o b, X, e) => FollowedBy(b, X, e)
<1>1. PICK c : c = a \o b
  OBVIOUS
<1>2. PICK n : n = Len(a)
  OBVIOUS
<1>3. PICK m : m = Len(b)
  OBVIOUS
<1>4. /\ n \in Nat /\ DOMAIN a = 1 .. n /\ DOMAIN c = 1 .. (n + m)
      /\ m \in Nat /\ DOMAIN b = 1 .. m
  BY <1>1, <1>2, <1>3, ConcatProperties, LenProperties
<1>5. /\ \A i \in DOMAIN a : i \in DOMAIN c /\ c[i] = a[i]
      /\ \A i \in DOMAIN c : i \notin DOMAIN a => i - n \in DOMAIN b /\ c[i] = b[i - n]
  BY <1>1, <1>2, ConcatProperties, LenProperties
<1>6. \A i \in DOMAIN b : i + n \in DOMAIN c /\ i + n \notin DOMAIN a /\ (i + n) - n = i
  BY <1>4
<1>7. \A i \in DOMAIN b : c[i + n] = b[i]
  BY <1>5, <1>6
<1>8. ASSUME NEW e PROVE Has(c, e) <=> Has(a, e) \/ Has(b, e)
  BY <1>5, <1>6, <1>7 DEF Has
<1>9. ASSUME NEW e, Once(c, e) PROVE Once(b, e) /\ ~(Has(a, e) /\ Has(b, e))
  <2>1. ASSUME NEW i \in DOMAIN b, NEW k \in DOMAIN b, b[i] = e, b[k] = e PROVE i = k
    <3>1. i + n = k + n
      BY <1>6, <1>7, <1>9, <2>1 DEF Once
    <3>2. QED
      BY <1>4, <3>1
  <2>2. ASSUME NEW i \in DOMAIN a, NEW k \in DOMAIN b, a[i] = e, b[k] = e PROVE FALSE
    <3>1. i = k + n
      BY <1>5, <1>6, <1>7, <1>9, <2>2 DEF Once
    <3>2. QED
      BY <1>6, <2>2, <3>1
  <2>3. QED
    BY <2>1, <2>2 DEF Once, Has
<1>10. ASSUME NEW X, NEW e, FollowedBy(c, X, e) PROVE FollowedBy(b, X, e)
  <2>1. SUFFICES ASSUME NEW i \in DOMAIN b, b[i] \in X PROVE \E k \in DOMAIN b : i < k /\ b[k] = e
    BY DEF FollowedBy
  <2>2. PICK k \in DOMAIN c : i + n < k /\ c[k] = e
    BY <1>6, <1>7, <1>10, <2>1 DEF FollowedBy
  <2>3. k \notin DOMAIN a /\ i < k - n
    BY <1>4, <2>2
  <2>4. QED
    BY <1>5, <2>2, <2>3
<1>11. QED
  BY <1>1, <1>8, <1>9, <1>10

-----------------------------------------------------------------------------
(* What is on its way from the server to the app *)

LEMMA ConcatMoves ==
  ASSUME NEW S, NEW a \in Seq(S), NEW b \in Seq(S)
  PROVE  /\ \A e \in S : a \o Append(b, e) = Append(a \o b, e)
         /\ b # <<>> => Append(a, Head(b)) \o Tail(b) = a \o b
         /\ a # <<>> => Tail(a) \o b = Tail(a \o b) /\ Head(a \o b) = Head(a) /\ a \o b # <<>>
<1>1. a \o b \in Seq(S)
  OBVIOUS
<1>2. ASSUME NEW e \in S PROVE a \o Append(b, e) = Append(a \o b, e)
  OBVIOUS
<1>3. ASSUME NEW q \in Seq(S), q # <<>>
      PROVE  /\ Head(q) \in S /\ Tail(q) \in Seq(S) /\ <<Head(q)>> \in Seq(S)
             /\ q = <<Head(q)>> \o Tail(q)
  BY <1>3
<1>4. ASSUME b # <<>> PROVE Append(a, Head(b)) \o Tail(b) = a \o b
  <2>1. Append(a, Head(b)) = a \o <<Head(b)>>
    BY <1>3, <1>4, AppendIsConcat
  <2>2. (a \o <<Head(b)>>) \o Tail(b) = a \o (<<Head(b)>> \o Tail(b))
    BY <1>3, <1>4, ConcatAssociative
  <2>3. QED
    BY <1>3, <1>4, <2>1, <2>2
<1>5. ASSUME a # <<>> PROVE Tail(a) \o b = Tail(a \o b) /\ Head(a \o b) = Head(a) /\ a \o b # <<>>
  <2>1. a \o b = <<Head(a)>> \o (Tail(a) \o b)
    BY <1>3, <1>5, ConcatAssociative
  <2>2. PICK r : r = Tail(a) \o b
    OBVIOUS
  <2>3. r \in Seq(S) /\ Head(a) \in S
    BY <1>3, <1>5, <2>2, ConcatProperties
  <2>4. Tail(<<Head(a)>> \o r) = r /\ Head(<<Head(a)>> \o r) = Head(a) /\ <<Head(a)>> \o r # <<>>
    BY <2>3
  <2>5. QED
    BY <2>1, <2>2, <2>4
<1>6. QED
  BY <1>2, <1>4, <1>5

-----------------------------------------------------------------------------
(* Type correctness *)

LEMMA TypeInit == Init => TypeOK
<1> SUFFICES ASSUME Init PROVE TypeOK
  OBVIOUS
<1>1. ServerType
  BY DEF Init, ServerType, NoAnswer
<1>2. BridgeType
  BY DEF Init, BridgeType
<1>3. AppType
  BY DEF Init, AppType
<1>4. QED
  BY <1>1, <1>2, <1>3 DEF TypeOK

\* A request that has not begun is not shown.
Unbegun == \A s \in Sessions : pc[s] = "new" => session.id # s

LEMMA TypesKept ==
  /\ ServerType /\ UNCHANGED serverVars => ServerType'
  /\ BridgeType /\ UNCHANGED bridgeVars => BridgeType'
  /\ AppType /\ UNCHANGED <<offer, appVars>> => AppType'
<1>1. ASSUME ServerType, UNCHANGED serverVars PROVE ServerType'
  BY <1>1 DEF ServerType, serverVars
<1>2. ASSUME BridgeType, UNCHANGED bridgeVars PROVE BridgeType'
  BY <1>2 DEF BridgeType, bridgeVars
<1>3. ASSUME AppType, UNCHANGED <<offer, appVars>> PROVE AppType'
  <2>1. \A s \in Sessions : Views(s)' = Views(s)
    BY <1>3 DEF Views
  <2>2. QED
    BY <1>3, <2>1 DEF AppType, appVars
<1>4. QED
  BY <1>1, <1>2, <1>3

LEMMA ServerTypeStep ==
  ASSUME TypeOK, Unbegun, Server
  PROVE  TypeOK'
<1> USE DEF TypeOK
<1>1. ASSUME NEW s \in Sessions, Request(s) PROVE TypeOK'
  <2>1. PICK F \in (SUBSET Files) \ {{}} : offer' = [offer EXCEPT ![s] = F]
    BY <1>1 DEF Request
  <2>2. events' \in Seq(Event)
    <3>1. slot # "free" => slot \in Sessions
      BY <1>1 DEF Request, Abandoned
    <3>2. slot # "free" => Notice("cancelled", slot) \in Event
      BY <3>1, EventParts DEF Notices
    <3>3. (IF slot = "free" THEN <<>> ELSE <<Notice("cancelled", slot)>>) \in Seq(Event)
      BY <3>2
    <3>4. <<Prepare(s)>> \in Seq(Event)
      BY EventParts
    <3>5. PICK q \in Seq(Event) : q = (IF slot = "free" THEN <<>> ELSE <<Notice("cancelled", slot)>>)
      BY <3>3
    <3>6. events' = events \o q \o <<Prepare(s)>>
      BY <1>1, <3>5 DEF Request
    <3>7. QED
      BY <3>4, <3>6, ConcatProperties DEF BridgeType
  <2>3. AppType'
    <3>1. SUFFICES ASSUME NEW t \in Sessions, session \in Views(t) PROVE session \in Views(t)'
      BY <1>1 DEF Request, appVars, AppType
    <3>2. t # s
      BY <1>1, <3>1 DEF Unbegun, Request, Views
    <3>3. offer'[t] = offer[t]
      BY <2>1, <3>2 DEF ServerType
    <3>4. QED
      BY <1>1, <3>1, <3>3 DEF Views, Request, appVars
  <2>4. BridgeType'
    BY <1>1, <2>2 DEF Request, BridgeType
  <2>5. ServerType'
    <3>1. offer' \in [Sessions -> SUBSET Files] /\ pc' \in [Sessions -> {"new", "waiting", "opened", "over"}]
      BY <1>1, <2>1 DEF Request, ServerType
    <3>2. QED
      BY <1>1, <3>1 DEF Request, ServerType
  <2>6. QED
    BY <2>3, <2>4, <2>5
<1>2. ASSUME NEW s \in Sessions, Refuse(s) \/ HangUp(s) \/ SenderCancels(s) PROVE TypeOK'
  <2>1. ServerType'
    BY <1>2 DEF Refuse, HangUp, SenderCancels, Vacate, Notices, ServerType
  <2>2. UNCHANGED <<offer, bridgeVars, appVars>>
    BY <1>2 DEF Refuse, HangUp, SenderCancels
  <2>3. QED
    BY <2>1, <2>2, TypesKept
<1>3. ASSUME NEW s \in Sessions, Respond(s) PROVE TypeOK'
  <2>1. ServerType'
    BY <1>3 DEF Respond, Vacate, ServerType
  <2>2. QED
    BY <1>3, <2>1, TypesKept DEF Respond
<1>4. ASSUME NEW s \in Sessions, Notify(s) PROVE TypeOK'
  <2>1. Notice(owed[s], s) \in Event
    BY <1>4, EventParts DEF Notify, ServerType
  <2>2. events' \in Seq(Event)
    BY <1>4, <2>1 DEF Notify, BridgeType
  <2>3. ServerType'
    BY <1>4 DEF Notify, ServerType
  <2>4. BridgeType'
    BY <1>4, <2>2 DEF Notify, BridgeType
  <2>5. QED
    BY <1>4, <2>3, <2>4, TypesKept DEF Notify
<1>5. ASSUME NEW j \in Jobs, StartUpload(j) PROVE TypeOK'
  <2>1. events' \in Seq(Event)
    BY <1>5, EventParts DEF StartUpload, BridgeType
  <2>2. BridgeType'
    BY <1>5, <2>1 DEF StartUpload, BridgeType
  <2>3. ServerType'
    BY <1>5, JobParts DEF StartUpload, ServerType
  <2>4. QED
    BY <1>5, <2>2, <2>3, TypesKept DEF StartUpload
<1>6. ASSUME NEW j \in Jobs, HangUpUpload(j) \/ SaveBody(j) PROVE TypeOK'
  <2>1. ServerType'
    BY <1>6 DEF HangUpUpload, SaveBody, ServerType
  <2>2. UNCHANGED <<offer, bridgeVars, appVars>>
    BY <1>6 DEF HangUpUpload, SaveBody
  <2>3. QED
    BY <2>1, <2>2, TypesKept
<1>7. ASSUME NEW j \in Jobs, FinalizeFile(j) PROVE TypeOK'
  <2>1. SessionOf(j) \in Sessions /\ FileOf(j) \in Files
    BY JobParts
  <2>2. ServerType'
    BY <1>7, <2>1 DEF FinalizeFile, Vacate, Notices, ServerType
  <2>3. QED
    BY <1>7, <2>2, TypesKept DEF FinalizeFile
<1>8. QED
  BY <1>1, <1>2, <1>3, <1>4, <1>5, <1>6, <1>7 DEF Server

LEMMA BridgeTypeStep ==
  ASSUME TypeOK, Bridge
  PROVE  TypeOK'
<1> USE DEF TypeOK
<1>1. ASSUME NEW jobs, Drop(jobs)
      PROVE  targets' \in SUBSET Jobs /\ up' \in [Jobs -> {"none", "asked", "saving", "ending", "over"}]
  BY <1>1 DEF Drop, BridgeType, ServerType
<1>2. CASE Forward
  <2>1. Head(events) \in Event /\ Tail(events) \in Seq(Event)
    BY <1>2, HeadTailProperties DEF Forward, BridgeType
  <2>2. inbox' \in Seq(Event) /\ events' \in Seq(Event)
    BY <1>2, <2>1 DEF Forward, BridgeType
  <2>3. PICK e \in Event : e = Head(events)
    BY <2>1
  <2>4. e.kind = "prepare" => decision' \in Sessions /\ UNCHANGED <<targets, up>>
    BY <1>2, <2>3, EventKinds DEF Forward, Notices
  <2>5. e.kind = "file" => targets' = targets \cup {e.job} /\ e.job \in Jobs /\ UNCHANGED <<decision, up>>
    BY <1>2, <2>3, EventKinds DEF Forward, Notices
  <2>6. e.kind = "aborted" => decision' \in {decision, "none"} /\ UNCHANGED <<targets, up>>
    BY <1>2, <2>3 DEF Forward, DecisionAfterAbort
  <2>7. e.kind \notin {"prepare", "file", "aborted"} => Drop(OfSession(e.session)) /\ UNCHANGED decision
    BY <1>2, <2>3 DEF Forward
  <2>8. /\ decision' \in Sessions \cup {"none"} /\ targets' \in SUBSET Jobs
        /\ up' \in [Jobs -> {"none", "asked", "saving", "ending", "over"}]
    BY <1>1, <2>4, <2>5, <2>6, <2>7 DEF BridgeType, ServerType
  <2>9. BridgeType' /\ ServerType'
    BY <1>2, <2>2, <2>8 DEF Forward, BridgeType, ServerType
  <2>10. QED
    BY <1>2, <2>9, TypesKept DEF Forward
<1>3. ASSUME NEW c \in commands, RespondPrepareUpload(c) PROVE TypeOK'
  <2>1. c \in Command /\ c.op = "decide" /\ c.from \in Sessions /\ c.files \in SUBSET Files
    BY <1>3, CommandKinds DEF RespondPrepareUpload, BridgeType
  <2>2. ServerType'
    BY <1>3, <2>1 DEF RespondPrepareUpload, ServerType
  <2>3. BridgeType'
    BY <1>3 DEF RespondPrepareUpload, BridgeType
  <2>4. QED
    BY <1>3, <2>2, <2>3, TypesKept DEF RespondPrepareUpload
<1>4. ASSUME NEW c \in commands, RespondFileUpload(c) PROVE TypeOK'
  <2>1. c \in Command /\ c.op = "target" /\ c.job \in Jobs
    BY <1>4, CommandKinds DEF RespondFileUpload, BridgeType
  <2>2. ServerType'
    BY <1>4, <2>1 DEF RespondFileUpload, ServerType
  <2>3. BridgeType'
    BY <1>4 DEF RespondFileUpload, BridgeType
  <2>4. QED
    BY <1>4, <2>2, <2>3, TypesKept DEF RespondFileUpload
<1>5. ASSUME NEW c \in commands, RejectFileUpload(c) \/ CancelUploadSession(c) PROVE TypeOK'
  <2>1. targets' \in SUBSET Jobs /\ up' \in [Jobs -> {"none", "asked", "saving", "ending", "over"}]
    BY <1>1, <1>5 DEF RejectFileUpload, CancelUploadSession
  <2>2. ServerType'
    BY <1>5, <2>1 DEF RejectFileUpload, CancelUploadSession, Vacate, ServerType
  <2>3. BridgeType'
    BY <1>5, <2>1 DEF RejectFileUpload, CancelUploadSession, BridgeType
  <2>4. UNCHANGED <<offer, appVars>>
    BY <1>5 DEF RejectFileUpload, CancelUploadSession
  <2>5. QED
    BY <2>2, <2>3, <2>4, TypesKept
<1>6. QED
  BY <1>2, <1>3, <1>4, <1>5 DEF Bridge, Handle

\* The app's steps leave the server alone, and what they make of the session
\* shown is a view of a request again.
SessionType == session = NoSession \/ \E s \in Sessions : session \in Views(s)

LEMMA SessionTypeKept ==
  ASSUME TypeOK, offer' = offer,
         session' = NoSession \/ \E s \in Sessions : session' \in Views(s)
  PROVE  SessionType'
<1>1. \A s \in Sessions : Views(s)' = Views(s)
  BY DEF Views
<1>2. QED
  BY <1>1 DEF SessionType

LEMMA Takes ==
  ASSUME TypeOK, NEW k, Take(k)
  PROVE  /\ Head(inbox) \in Event /\ inbox' \in Seq(Event) /\ Head(inbox).kind = k
         /\ k = "file" => Head(inbox).job \in Jobs
         /\ k # "file" => Current \in Sessions
<1>1. Head(inbox) \in Event /\ inbox' \in Seq(Event) /\ Head(inbox).kind = k
  BY HeadTailProperties DEF Take, TypeOK, BridgeType
<1>2. QED
  BY <1>1, EventKinds DEF Current, Notices

LEMMA ConcludeType ==
  ASSUME TypeOK, NEW view, view = NoSession \/ \E s \in Sessions : view \in Views(s),
         Conclude(view)
  PROVE  /\ session' = NoSession \/ \E s \in Sessions : session' \in Views(s)
         /\ closing' \in SUBSET Sessions
<1>1. CASE view = NoSession
  BY <1>1 DEF Conclude, Concluded, TypeOK, AppType
<1>2. ASSUME NEW s \in Sessions, view \in Views(s)
      PROVE  session' \in Views(s) /\ closing' \in SUBSET Sessions
  <2>1. view.id = s
    BY <1>2 DEF Views
  <2>2. QED
    BY <1>2, <2>1, ViewChanges DEF Conclude, TypeOK, AppType, ServerType
<1>3. QED
  BY <1>1, <1>2

LEMMA FailType ==
  ASSUME TypeOK, NEW j \in Jobs, Fail(j)
  PROVE  TypeOK'
<1>1. PICK view : view = IF Shown THEN WithFile(session, FileOf(j), "failed") ELSE session
  OBVIOUS
<1>2. view = NoSession \/ \E s \in Sessions : view \in Views(s)
  BY <1>1, ShownType, ViewChanges, JobParts DEF Shown, FileStatus
<1>3. /\ session' = NoSession \/ \E s \in Sessions : session' \in Views(s)
      /\ closing' \in SUBSET Sessions /\ commands' \in SUBSET Command
  <2>1. CASE Conclude(view) /\ Issue(RejectUpload(j))
    BY <1>2, <2>1, ConcludeType, CommandParts DEF Issue, TypeOK, BridgeType
  <2>2. CASE UNCHANGED <<commands, session, closing>>
    BY <2>2 DEF TypeOK, AppType, BridgeType
  <2>3. QED
    BY <1>1, <2>1, <2>2 DEF Fail
<1>4. SessionType'
  BY <1>3, SessionTypeKept DEF Fail, serverVars
<1>5. AppType' /\ BridgeType'
  BY <1>3, <1>4 DEF Fail, TypeOK, AppType, BridgeType, SessionType
<1>6. QED
  BY <1>5, TypesKept DEF Fail, TypeOK

LEMMA AppTypeStep ==
  ASSUME TypeOK, App
  PROVE  TypeOK'
<1>0. ASSUME BridgeType', UNCHANGED serverVars, SessionType',
             lookups' \in Seq(Sessions), permitting' \in SUBSET Sessions,
             saving' \in [Jobs -> {"none", "preparing", "receiving", "recording", "over"}],
             closing' \in SUBSET Sessions, chosen' \in [Sessions -> SUBSET Files]
      PROVE  TypeOK'
  BY <1>0, TypesKept DEF TypeOK, AppType, SessionType
<1>1. ASSUME NEW k, Take(k), UNCHANGED <<events, decision, targets>>, commands' \in SUBSET Command
      PROVE  BridgeType'
  BY <1>1, Takes DEF TypeOK, BridgeType
<1>2. CASE OnPrepareUpload
  <2>1. Current \in Sessions
    BY <1>2, Takes DEF OnPrepareUpload
  <2>2. SessionType'
    BY <1>2 DEF OnPrepareUpload, CloseShown, SessionType
  <2>3. BridgeType'
    BY <1>1, <1>2 DEF OnPrepareUpload, TypeOK, BridgeType
  <2>4. QED
    BY <1>0, <1>2, <2>1, <2>2, <2>3 DEF OnPrepareUpload, TypeOK, AppType
<1>3. CASE OnFileUpload
  <2>1. PICK j \in Jobs : j = Head(inbox).job
    BY <1>3, Takes DEF OnFileUpload
  <2>2. CASE Expected(j)
    <3>1. Shown /\ FileOf(j) \in Files
      BY <2>2, JobParts DEF Expected
    <3>2. WithFile(session, FileOf(j), "sending") \in Views(session.id)
      BY <3>1, ShownType, ViewChanges DEF FileStatus
    <3>3. session' \in Views(session.id)
      <4>1. session' = [WithFile(session, FileOf(j), "sending") EXCEPT !.status = "sending"]
        BY <1>3, <2>1, <2>2 DEF OnFileUpload
      <4>2. QED
        BY <3>1, <3>2, <4>1, ShownType, ViewChanges DEF Stages
    <3>4. SessionType'
      BY <1>3, <3>1, <3>3, ShownType, SessionTypeKept DEF OnFileUpload, serverVars
    <3>5. BridgeType'
      BY <1>1, <1>3, <2>1, <2>2 DEF OnFileUpload, TypeOK, BridgeType
    <3>6. QED
      BY <1>0, <1>3, <2>1, <2>2, <3>4, <3>5 DEF OnFileUpload, TypeOK, AppType
  <2>3. CASE ~Expected(j)
    <3>1. CancelSession(SessionOf(j)) \in Command
      BY JobParts, CommandParts
    <3>2. BridgeType'
      BY <1>1, <1>3, <2>1, <2>3, <3>1 DEF OnFileUpload, Issue, TypeOK, BridgeType
    <3>3. QED
      BY <1>3, <2>1, <2>3, <3>2, TypesKept DEF OnFileUpload, TypeOK, appVars, serverVars
  <2>4. QED
    BY <2>2, <2>3
<1>4. CASE OnSessionEnd \/ OnPrepareUploadAborted
  <2>1. BridgeType'
    BY <1>1, <1>4 DEF OnSessionEnd, OnPrepareUploadAborted, TypeOK, BridgeType
  <2>2. session' = session \/ (session.id \in Sessions /\ CancelBySender)
    BY <1>4, Takes DEF OnSessionEnd, OnPrepareUploadAborted, Ended
  <2>3. session' = NoSession \/ \E s \in Sessions : session' \in Views(s)
    <3>1. CASE session.id \in Sessions /\ CancelBySender
      BY <3>1, IdShown, ShownType, ViewChanges DEF CancelBySender, Stages
    <3>2. QED
      BY <2>2, <3>1 DEF TypeOK, AppType
  <2>4. SessionType'
    BY <1>4, <2>3, SessionTypeKept DEF OnSessionEnd, OnPrepareUploadAborted, serverVars
  <2>5. QED
    BY <1>0, <1>4, <2>1, <2>4 DEF OnSessionEnd, OnPrepareUploadAborted, TypeOK, AppType
<1>5. CASE ShowRequest
  <2>1. PICK s \in Sessions : s = Head(lookups)
    BY <1>5, HeadTailProperties DEF ShowRequest, TypeOK, AppType
  <2>2. offer[s] \in SUBSET Files /\ lookups' \in Seq(Sessions)
    BY <1>5, HeadTailProperties DEF ShowRequest, TypeOK, AppType, ServerType
  <2>3. NewSession(s) \in Views(s) /\ Accepted(NewSession(s), offer[s]) \in Views(s)
    BY <2>2, NewView, ViewChanges
  <2>4. SessionType'
    BY <1>5, <2>1, <2>3, SessionTypeKept DEF ShowRequest, serverVars
  <2>5. permitting' \in SUBSET Sessions /\ chosen' \in [Sessions -> SUBSET Files]
    BY <1>5, <2>1, <2>2 DEF ShowRequest, TypeOK, AppType
  <2>6. BridgeType'
    BY <1>5, TypesKept DEF ShowRequest, TypeOK
  <2>7. QED
    BY <1>0, <1>5, <2>2, <2>4, <2>5, <2>6 DEF ShowRequest, TypeOK, AppType
<1>6. ASSUME NEW s \in Sessions, SendDecision(s) PROVE TypeOK'
  <2>1. Decide(s, chosen[s]) \in Command
    BY CommandParts DEF TypeOK, AppType
  <2>2. BridgeType'
    BY <1>6, <2>1 DEF SendDecision, Issue, TypeOK, BridgeType
  <2>3. SessionType'
    BY <1>6, SessionTypeKept DEF SendDecision, TypeOK, AppType, serverVars
  <2>4. QED
    BY <1>0, <1>6, <2>2, <2>3 DEF SendDecision, TypeOK, AppType
<1>7. ASSUME NEW s \in Sessions, DelayedClose(s) PROVE TypeOK'
  <2>1. SessionType' /\ BridgeType'
    BY <1>7, TypesKept DEF DelayedClose, CloseShown, SessionType, TypeOK
  <2>2. QED
    BY <1>0, <1>7, <2>1 DEF DelayedClose, TypeOK, AppType
<1>8. ASSUME NEW j \in Jobs, Continue(j) PROVE TypeOK'
  <2>1. CASE PrepareSaveTarget(j)
    <3>1. BridgeType'
      BY <2>1, CommandParts DEF PrepareSaveTarget, Issue, TypeOK, BridgeType
    <3>2. SessionType'
      BY <2>1, SessionTypeKept DEF PrepareSaveTarget, TypeOK, AppType, serverVars
    <3>3. QED
      BY <1>0, <2>1, <3>1, <3>2 DEF PrepareSaveTarget, TypeOK, AppType
  <2>2. CASE PrepareSaveTargetFails(j) \/ ReceiveFails(j)
    BY <2>2, FailType DEF PrepareSaveTargetFails, ReceiveFails
  <2>3. CASE KeepFile(j)
    <3>1. session' = NoSession \/ \E s \in Sessions : session' \in Views(s)
      <4>1. CASE session' = session
        BY <4>1 DEF TypeOK, AppType
      <4>2. CASE Shown /\ session' = WithFile(session, FileOf(j), "finished")
        BY <4>2, ShownType, ViewChanges, JobParts DEF FileStatus
      <4>3. QED
        BY <2>3, <4>1, <4>2 DEF KeepFile
    <3>2. SessionType' /\ BridgeType'
      BY <2>3, <3>1, SessionTypeKept, TypesKept DEF KeepFile, TypeOK, serverVars
    <3>3. QED
      BY <1>0, <2>3, <3>2 DEF KeepFile, TypeOK, AppType
  <2>4. CASE RecordHistory(j)
    <3>1. (session' = NoSession \/ \E s \in Sessions : session' \in Views(s)) /\ closing' \in SUBSET Sessions
      BY <2>4, ConcludeType DEF RecordHistory, TypeOK, AppType
    <3>2. SessionType' /\ BridgeType'
      BY <2>4, <3>1, SessionTypeKept, TypesKept DEF RecordHistory, TypeOK, serverVars
    <3>3. QED
      BY <1>0, <2>4, <3>1, <3>2 DEF RecordHistory, TypeOK, AppType
  <2>5. QED
    BY <1>8, <2>1, <2>2, <2>3, <2>4 DEF Continue
<1>9. QED
  BY <1>2, <1>3, <1>4, <1>5, <1>6, <1>7, <1>8 DEF App, Deliver

LEMMA UserTypeStep ==
  ASSUME TypeOK, User
  PROVE  TypeOK'
<1>0. ASSUME BridgeType', UNCHANGED serverVars, SessionType', permitting' \in SUBSET Sessions,
             UNCHANGED <<lookups, saving, closing>>, chosen' \in [Sessions -> SUBSET Files]
      PROVE  TypeOK'
  BY <1>0, TypesKept DEF TypeOK, AppType, SessionType
<1>1. ASSUME NEW selected \in SUBSET Files, AcceptFileRequest(selected) PROVE TypeOK'
  <2>1. PICK s \in Sessions : s = session.id /\ session \in Views(s) /\ offer[s] \in SUBSET Files
    BY <1>1, ShownType DEF AcceptFileRequest
  <2>2. session' \in Views(s)
    BY <1>1, <2>1, ViewChanges DEF AcceptFileRequest
  <2>3. SessionType' /\ BridgeType'
    BY <1>1, <2>2, SessionTypeKept, TypesKept DEF AcceptFileRequest, serverVars, TypeOK
  <2>4. permitting' \in SUBSET Sessions /\ chosen' \in [Sessions -> SUBSET Files]
    BY <1>1, <2>1 DEF AcceptFileRequest, TypeOK, AppType
  <2>5. QED
    BY <1>0, <1>1, <2>3, <2>4 DEF AcceptFileRequest
<1>2. CASE DeclineFileRequest \/ UserCancels \/ UserCloses
  <2>1. commands' \in SUBSET Command
    <3>1. CASE Shown /\ Issue(Decide(session.id, {}))
      BY <3>1, ShownType, CommandParts DEF Issue, TypeOK, BridgeType
    <3>2. CASE Shown /\ Issue(CancelSession(session.id))
      BY <3>2, ShownType, CommandParts DEF Issue, TypeOK, BridgeType
    <3>3. CASE commands' = commands
      BY <3>3 DEF TypeOK, BridgeType
    <3>4. QED
      BY <1>2, <3>1, <3>2, <3>3 DEF DeclineFileRequest, UserCancels, UserCloses, bridgeVars
  <2>2. BridgeType' /\ SessionType'
    BY <1>2, <2>1 DEF DeclineFileRequest, UserCancels, UserCloses, CloseShown, bridgeVars, TypeOK,
                      BridgeType, SessionType
  <2>3. QED
    BY <1>0, <1>2, <2>2 DEF DeclineFileRequest, UserCancels, UserCloses, TypeOK, AppType
<1>3. QED
  BY <1>1, <1>2 DEF User

LEMMA TypeStep ==
  ASSUME TypeOK, Unbegun, [Next]_vars
  PROVE  TypeOK'
<1>1. CASE UNCHANGED vars
  BY <1>1, TypesKept DEF vars, serverVars, TypeOK
<1>2. QED
  BY <1>1, ServerTypeStep, BridgeTypeStep, AppTypeStep, UserTypeStep DEF Next

-----------------------------------------------------------------------------
(* The way of an event *)

\* What is on its way from the server to the app, in order.
Pipe == inbox \o events
Piped(e) == Has(Pipe, e)
Sent(e) == Has(events, e)

\* The app has the request, but does not show it yet.
Looked(s) == Has(lookups, s)

LEMMA PipeType ==
  ASSUME TypeOK
  PROVE  /\ Pipe \in Seq(Event) /\ events \in Seq(Event) /\ inbox \in Seq(Event)
         /\ \A e : Sent(e) => Piped(e)
<1>1. Pipe \in Seq(Event) /\ events \in Seq(Event) /\ inbox \in Seq(Event)
  BY ConcatProperties DEF Pipe, TypeOK, BridgeType
<1>2. QED
  BY <1>1, Joined DEF Pipe, Piped, Sent

LEMMA Undisturbed ==
  ASSUME UNCHANGED <<events, inbox>>
  PROVE  Pipe' = Pipe /\ \A e : (Piped(e)' <=> Piped(e)) /\ (Sent(e)' <=> Sent(e))
  BY DEF Pipe, Piped, Sent

\* The server sends an event.
LEMMA Emitted ==
  ASSUME TypeOK, NEW m \in Event, events' = Append(events, m), UNCHANGED inbox
  PROVE  /\ Pipe' = Append(Pipe, m)
         /\ \A e : (Piped(e)' <=> Piped(e) \/ e = m) /\ (Sent(e)' <=> Sent(e) \/ e = m)
         /\ \A e : Once(Pipe, e) /\ (e = m => ~Piped(e)) => Once(Pipe, e)'
         /\ \A a, b : Ahead(events, a, b) /\ (m = a => ~Sent(b) /\ a # b) => Ahead(events, a, b)'
         /\ \A X, e : m \notin X /\ FollowedBy(Pipe, X, e) => FollowedBy(Pipe, X, e)'
<1>1. Pipe' = Append(Pipe, m)
  BY ConcatMoves DEF Pipe, TypeOK, BridgeType
<1>2. PICK q \in Seq(Event) : q = Pipe
  BY PipeType
<1>3. /\ \A e : Has(Append(q, m), e) <=> Has(q, e) \/ e = m
      /\ \A e : Once(q, e) /\ (e = m => ~Has(q, e)) => Once(Append(q, m), e)
      /\ \A X, e : m \notin X /\ FollowedBy(q, X, e) => FollowedBy(Append(q, m), X, e)
  BY Appended
<1>4. /\ \A e : Has(Append(events, m), e) <=> Has(events, e) \/ e = m
      /\ \A a, b : Ahead(events, a, b) /\ (m = a => ~Has(events, b) /\ a # b)
           => Ahead(Append(events, m), a, b)
  BY PipeType, Appended
<1>5. QED
  BY <1>1, <1>2, <1>3, <1>4 DEF Piped, Sent

\* A request is announced, after the end of the session it replaces.
LEMMA Requested ==
  ASSUME TypeOK, NEW s \in Sessions, Request(s)
  PROVE  LET Added(e) == e = Prepare(s) \/ (slot # "free" /\ e = Notice("cancelled", slot)) IN
         /\ \A e : (Piped(e)' <=> Piped(e) \/ Added(e)) /\ (Sent(e)' <=> Sent(e) \/ Added(e))
         /\ \A e : Once(Pipe, e) /\ (Added(e) => ~Piped(e)) => Once(Pipe, e)'
         /\ \A a, b : Ahead(events, a, b) /\ ~Added(a) => Ahead(events, a, b)'
         /\ \A X : (\A e \in X : ~Added(e)) => FollowedBy(Pipe, X, Prepare(s))'
<1> DEFINE Added(e) == e = Prepare(s) \/ (slot # "free" /\ e = Notice("cancelled", slot))
<1>1. Prepare(s) \in Event
  BY EventParts
<1>2. CASE slot = "free"
  <2>1. events' = Append(events, Prepare(s)) /\ UNCHANGED inbox
    <3>1. events' = (events \o <<>>) \o <<Prepare(s)>> /\ UNCHANGED inbox
      BY <1>2 DEF Request
    <3>2. QED
      BY <1>1, <3>1, PipeType, AppendIsConcat, ConcatEmptySeq
  <2>2. PICK q \in Seq(Event) : q = Pipe
    BY PipeType
  <2>3. \A X : Prepare(s) \notin X => FollowedBy(Append(q, Prepare(s)), X, Prepare(s))
    BY <1>1, Appended
  <2>4. \A X : Prepare(s) \notin X => FollowedBy(Pipe, X, Prepare(s))'
    BY <1>1, <2>1, <2>2, <2>3, Emitted
  <2>5. QED
    BY <1>1, <1>2, <2>1, <2>4, Emitted
<1>3. CASE slot # "free"
  <2>1. PICK n \in Event : n = Notice("cancelled", slot) /\ n # Prepare(s)
    <3>1. slot \in Sessions
      BY <1>3 DEF Request, Abandoned
    <3>2. QED
      BY <3>1, EventParts DEF Notices
  <2>2. PICK q \in Seq(Event) : q = Pipe
    BY PipeType
  <2>3. PICK r : r = Append(events, n)
    OBVIOUS
  <2>4. PICK p : p = Append(q, n)
    OBVIOUS
  <2>5. r \in Seq(Event) /\ p \in Seq(Event)
    BY <2>3, <2>4, PipeType, AppendProperties
  <2>6. p = inbox \o r
    <3>1. inbox \o Append(events, n) = Append(inbox \o events, n)
      BY PipeType, ConcatMoves
    <3>2. QED
      BY <2>2, <2>3, <2>4, <3>1 DEF Pipe
  <2>7. events' = Append(r, Prepare(s)) /\ UNCHANGED inbox
    <3>1. events' = (events \o <<n>>) \o <<Prepare(s)>> /\ UNCHANGED inbox
      BY <1>3, <2>1 DEF Request
    <3>2. events \o <<n>> = r
      BY <2>3, PipeType, AppendIsConcat
    <3>3. QED
      BY <1>1, <2>5, <3>1, <3>2, AppendIsConcat
  <2>8. Pipe' = Append(p, Prepare(s))
    BY <1>1, <2>5, <2>6, <2>7, PipeType, ConcatMoves DEF Pipe
  <2>9. \A e : Added(e) <=> e = n \/ e = Prepare(s)
    BY <1>3, <2>1
  <2>10. ASSUME NEW e
         PROVE  (Piped(e)' <=> Piped(e) \/ e = n \/ e = Prepare(s))
                /\ (Sent(e)' <=> Sent(e) \/ e = n \/ e = Prepare(s))
    <3>1. Has(p, e) <=> Has(q, e) \/ e = n
      BY <2>4, Appended
    <3>2. Has(Append(p, Prepare(s)), e) <=> Has(p, e) \/ e = Prepare(s)
      BY <1>1, <2>5, Appended
    <3>3. Has(r, e) <=> Has(events, e) \/ e = n
      BY <2>3, PipeType, Appended
    <3>4. Has(Append(r, Prepare(s)), e) <=> Has(r, e) \/ e = Prepare(s)
      BY <1>1, <2>5, Appended
    <3>5. QED
      BY <2>2, <2>7, <2>8, <3>1, <3>2, <3>3, <3>4 DEF Piped, Sent
  <2>11. ASSUME NEW e, Once(Pipe, e), (e = n \/ e = Prepare(s)) => ~Piped(e) PROVE Once(Pipe, e)'
    <3>1. Once(p, e)
      BY <2>2, <2>4, <2>11, Appended DEF Piped
    <3>2. e = Prepare(s) => ~Has(p, e)
      BY <2>1, <2>2, <2>4, <2>11, Appended DEF Piped
    <3>3. Once(Append(p, Prepare(s)), e)
      BY <1>1, <2>5, <3>1, <3>2, Appended
    <3>4. QED
      BY <2>8, <3>3
  <2>12. ASSUME NEW a, NEW b, Ahead(events, a, b), a # n, a # Prepare(s) PROVE Ahead(events, a, b)'
    <3>1. Ahead(r, a, b)
      BY <2>3, <2>12, PipeType, Appended
    <3>2. Ahead(Append(r, Prepare(s)), a, b)
      BY <1>1, <2>5, <2>12, <3>1, Appended
    <3>3. QED
      BY <2>7, <3>2
  <2>13. ASSUME NEW X, Prepare(s) \notin X PROVE FollowedBy(Pipe, X, Prepare(s))'
    <3>1. FollowedBy(Append(p, Prepare(s)), X, Prepare(s))
      BY <1>1, <2>5, <2>13, Appended
    <3>2. QED
      BY <2>8, <3>1
  <2>14. QED
    BY <2>9, <2>10, <2>11, <2>12, <2>13
<1>4. QED
  BY <1>2, <1>3

\* The bridge passes an event on.
LEMMA Forwarded ==
  ASSUME TypeOK, Forward
  PROVE  /\ Head(events) \in Event /\ Sent(Head(events)) /\ Pipe' = Pipe
         /\ \A e : (Piped(e)' <=> Piped(e)) /\ (Sent(e) <=> e = Head(events) \/ Sent(e)')
         /\ \A e : Once(Pipe, e) /\ e = Head(events) => ~Sent(e)'
         /\ \A a, b : Ahead(events, a, b) =>
              Ahead(events, a, b)' /\ (b = Head(events) => ~Sent(a))
<1>1. events # <<>> /\ events' = Tail(events) /\ inbox' = Append(inbox, Head(events))
  BY DEF Forward
<1>2. Head(events) \in Event
  BY <1>1, PipeType, HeadTailProperties
<1>3. Pipe' = Pipe
  BY <1>1, PipeType, ConcatMoves DEF Pipe
<1>4. /\ \A e : Has(events, e) <=> e = Head(events) \/ Has(Tail(events), e)
      /\ \A e : Once(events, e) /\ e = Head(events) => ~Has(Tail(events), e)
      /\ \A a, b : Ahead(events, a, b) =>
           Ahead(Tail(events), a, b) /\ (b = Head(events) => ~Has(events, a))
  BY <1>1, PipeType, HeadTaken
<1>5. \A e : Once(Pipe, e) => Once(events, e)
  BY PipeType, Joined DEF Pipe
<1>6. PICK h : h = Head(events)
  OBVIOUS
<1>7. QED
  BY <1>1, <1>2, <1>3, <1>4, <1>5, <1>6 DEF Piped, Sent

\* The app takes an event.
LEMMA Taken ==
  ASSUME TypeOK, NEW k, Take(k), UNCHANGED events
  PROVE  /\ Head(inbox) \in Event /\ Piped(Head(inbox)) /\ Head(inbox).kind = k
         /\ \A e : (Piped(e) <=> e = Head(inbox) \/ Piped(e)') /\ (Sent(e)' <=> Sent(e))
         /\ \A e : Once(Pipe, e) =>
              Once(Pipe, e)' /\ (e = Head(inbox) => ~Piped(e)' /\ ~Sent(e))
         /\ \A X, e : FollowedBy(Pipe, X, e) =>
              /\ FollowedBy(Pipe, X, e)'
              /\ Head(inbox) \in X => Piped(e)'
              /\ Once(Pipe, e) /\ Head(inbox) = e => \A x \in X : ~Piped(x)
<1>1. PICK h \in Event : h = Head(inbox) /\ h.kind = k
  BY Takes
<1>2. inbox # <<>> /\ inbox' = Tail(inbox) /\ inbox \in Seq(Event)
  BY PipeType DEF Take
<1>3. PICK q \in Seq(Event) : q = Pipe
  BY PipeType
<1>4. q # <<>> /\ Tail(q) = Tail(inbox) \o events /\ Head(q) = h
  BY <1>1, <1>2, <1>3, PipeType, ConcatMoves DEF Pipe
<1>5. Pipe' = Tail(q)
  BY <1>2, <1>4 DEF Pipe
<1>6. /\ \A e : Has(q, e) <=> e = h \/ Has(Tail(q), e)
      /\ \A e : Once(q, e) => Once(Tail(q), e) /\ (e = h => ~Has(Tail(q), e))
      /\ \A X, e : FollowedBy(q, X, e) =>
           /\ FollowedBy(Tail(q), X, e)
           /\ h \in X => Has(Tail(q), e)
           /\ Once(q, e) /\ h = e => \A x \in X : ~Has(q, x)
  BY <1>4, HeadTaken
<1>7. Has(inbox, h)
  BY <1>1, <1>2, HeadTaken
<1>8. \A e : Once(Pipe, e) => ~(Has(inbox, e) /\ Has(events, e))
  BY PipeType, Joined DEF Pipe
<1>9. ASSUME NEW e, Once(Pipe, e) PROVE Once(Pipe, e)' /\ (e = h => ~Piped(e)' /\ ~Sent(e))
  BY <1>3, <1>5, <1>6, <1>7, <1>8, <1>9 DEF Piped, Sent
<1>10. ASSUME NEW e PROVE (Piped(e) <=> e = h \/ Piped(e)') /\ (Sent(e)' <=> Sent(e))
  BY <1>3, <1>5, <1>6 DEF Piped, Sent
<1>11. ASSUME NEW X, NEW e, FollowedBy(Pipe, X, e)
       PROVE  /\ FollowedBy(Pipe, X, e)'
              /\ h \in X => Piped(e)'
              /\ Once(Pipe, e) /\ h = e => \A x \in X : ~Piped(x)
  BY <1>3, <1>5, <1>6, <1>11 DEF Piped
<1>12. QED
  BY <1>1, <1>9, <1>10, <1>11

-----------------------------------------------------------------------------
(* Requests are announced and shown once *)

Coming(s) == Piped(Prepare(s)) \/ Looked(s)

\* The request was refused or shown: it will not be shown again.
Passed(s) == pc[s] # "new" /\ ~Coming(s)

\* A request is announced once, after it began, and shown once.
Announced ==
  /\ \A s \in Sessions : pc[s] = "new" => ~Coming(s) /\ offer[s] = {}
  /\ \A s \in Sessions : Coming(s) => offer[s] # {}
  /\ \A s \in Sessions : ~(Piped(Prepare(s)) /\ Looked(s))
  /\ \A s \in Sessions : Once(Pipe, Prepare(s)) /\ Once(lookups, s)

\* Nothing moves between the server and the app.
Still == /\ \A e : (Piped(e)' <=> Piped(e))
         /\ Pipe' = Pipe /\ UNCHANGED <<lookups, offer>>
         /\ \A s \in Sessions : pc[s] # "new" => pc'[s] # "new"

LEMMA FlowStep ==
  ASSUME TypeOK, [Next]_vars
  PROVE  \/ \E s \in Sessions : Request(s)
         \/ \E m \in Event : /\ m.kind # "prepare" /\ events' = Append(events, m)
                             /\ UNCHANGED <<inbox, lookups, pc, offer>>
         \/ Still
         \/ OnPrepareUpload \/ ShowRequest
         \/ \E k : k # "prepare" /\ Take(k) /\ UNCHANGED <<events, lookups, pc, offer>>
<1>1. ASSUME UNCHANGED <<events, inbox, lookups, offer>>,
             \A s \in Sessions : pc[s] # "new" => pc'[s] # "new"
      PROVE  Still
  BY <1>1, Undisturbed DEF Still
<1>2. CASE UNCHANGED vars
  BY <1>1, <1>2 DEF vars, serverVars, bridgeVars, appVars
<1>3. ASSUME NEW s \in Sessions, Refuse(s) \/ HangUp(s) \/ Respond(s) \/ SenderCancels(s) PROVE Still
  <2>1. UNCHANGED <<events, inbox, lookups, offer>>
    BY <1>3 DEF Refuse, HangUp, Respond, SenderCancels, bridgeVars, appVars
  <2>2. \A t \in Sessions : pc[t] # "new" => pc'[t] # "new"
    BY <1>3 DEF Refuse, HangUp, Respond, SenderCancels, TypeOK, ServerType
  <2>3. QED
    BY <1>1, <2>1, <2>2
<1>4. ASSUME NEW s \in Sessions, Notify(s)
      PROVE  \E m \in Event : /\ m.kind # "prepare" /\ events' = Append(events, m)
                              /\ UNCHANGED <<inbox, lookups, pc, offer>>
  <2>1. owed[s] \in Notices
    BY <1>4 DEF Notify, TypeOK, ServerType
  <2>2. QED
    BY <1>4, <2>1, EventParts DEF Notify, Notices, appVars
<1>5. ASSUME NEW j \in Jobs, StartUpload(j)
      PROVE  \E m \in Event : /\ m.kind # "prepare" /\ events' = Append(events, m)
                              /\ UNCHANGED <<inbox, lookups, pc, offer>>
  BY <1>5, EventParts DEF StartUpload, appVars
<1>6. ASSUME NEW j \in Jobs, HangUpUpload(j) \/ SaveBody(j) \/ FinalizeFile(j) PROVE Still
  BY <1>1, <1>6 DEF HangUpUpload, SaveBody, FinalizeFile, bridgeVars, appVars
<1>7. CASE Forward
  BY <1>7, Forwarded DEF Forward, Still, appVars
<1>8. ASSUME NEW c \in commands, Handle(c) PROVE Still
  BY <1>1, <1>8 DEF Handle, RespondPrepareUpload, RespondFileUpload, RejectFileUpload,
                    CancelUploadSession, appVars
<1>9. CASE OnFileUpload \/ OnSessionEnd \/ OnPrepareUploadAborted
  BY <1>9, Takes DEF OnFileUpload, OnSessionEnd, OnPrepareUploadAborted, serverVars
<1>10. ASSUME NEW s \in Sessions, SendDecision(s) \/ DelayedClose(s) PROVE Still
  BY <1>1, <1>10 DEF SendDecision, DelayedClose, serverVars, bridgeVars
<1>11. ASSUME NEW j \in Jobs, Continue(j) PROVE Still
  BY <1>1, <1>11 DEF Continue, PrepareSaveTarget, PrepareSaveTargetFails, KeepFile, ReceiveFails,
                     RecordHistory, Fail, serverVars, bridgeVars
<1>12. CASE User
  BY <1>1, <1>12 DEF User, AcceptFileRequest, DeclineFileRequest, UserCloses, UserCancels,
                     serverVars, bridgeVars
<1>13. QED
  BY <1>2, <1>3, <1>4, <1>5, <1>6, <1>7, <1>8, <1>9, <1>10, <1>11, <1>12
     DEF Next, Server, Bridge, App, Deliver

\* A request is on its way from its beginning until it is shown.
LEMMA ComingStep ==
  ASSUME TypeOK, Announced, [Next]_vars
  PROVE  /\ Announced'
         /\ \A s \in Sessions :
              /\ Coming(s)' => Coming(s) \/ Request(s)
              /\ Coming(s) => Coming(s)' \/ (ShowRequest /\ s = Head(lookups))
              /\ pc[s] # "new" => pc'[s] # "new" /\ offer'[s] = offer[s]
              /\ Passed(s) => Passed(s)'
<1> DEFINE Goal ==
      /\ Announced'
      /\ \A s \in Sessions :
           /\ Coming(s)' => Coming(s) \/ Request(s)
           /\ Coming(s) => Coming(s)' \/ (ShowRequest /\ s = Head(lookups))
           /\ pc[s] # "new" => pc'[s] # "new" /\ offer'[s] = offer[s]
<1>0. SUFFICES Goal
  <2>1. ASSUME Goal, NEW s \in Sessions, Passed(s) PROVE Passed(s)'
    <3>1. pc'[s] # "new" /\ ~Coming(s)'
      BY <2>1 DEF Passed, Request
    <3>2. QED
      BY <3>1 DEF Passed
  <2>2. QED
    BY <2>1
<1>1. ASSUME NEW s \in Sessions, Request(s) PROVE Goal
  <2>1. PICK F \in (SUBSET Files) \ {{}} : offer' = [offer EXCEPT ![s] = F]
    BY <1>1 DEF Request
  <2>2. /\ pc[s] = "new" /\ pc' = [pc EXCEPT ![s] = "waiting"] /\ UNCHANGED lookups
        /\ ~Piped(Prepare(s)) /\ ~Looked(s)
    BY <1>1 DEF Request, appVars, Announced, Coming
  <2>3. ASSUME NEW t \in Sessions PROVE Piped(Prepare(t))' <=> Piped(Prepare(t)) \/ t = s
    <3>1. slot # "free" => Prepare(t) # Notice("cancelled", slot)
      <4>1. slot # "free" => slot \in Sessions
        BY <1>1 DEF Request, Abandoned
      <4>2. QED
        BY <4>1, EventParts DEF Notices
    <3>2. Prepare(t) = Prepare(s) <=> t = s
      BY EventParts
    <3>3. PICK e : e = Prepare(t)
      OBVIOUS
    <3>4. Piped(e)' <=> Piped(e) \/ t = s
      BY <1>1, <3>1, <3>2, <3>3, Requested
    <3>5. QED
      BY <3>3, <3>4
  <2>4. ASSUME NEW t \in Sessions PROVE Once(Pipe, Prepare(t))'
    <3>1. slot # "free" => Prepare(t) # Notice("cancelled", slot)
      <4>1. slot # "free" => slot \in Sessions
        BY <1>1 DEF Request, Abandoned
      <4>2. QED
        BY <4>1, EventParts DEF Notices
    <3>2. QED
      BY <1>1, <2>2, <3>1, Requested DEF Announced
  <2>5. \A t \in Sessions : Looked(t)' <=> Looked(t)
    BY <2>2 DEF Looked
  <2>6. \A t \in Sessions : t # s => pc'[t] = pc[t] /\ offer'[t] = offer[t]
    BY <2>1, <2>2 DEF TypeOK, ServerType
  <2>7. pc'[s] # "new" /\ offer'[s] # {}
    BY <2>1, <2>2 DEF TypeOK, ServerType
  <2>8. \A t \in Sessions : Coming(t)' <=> Coming(t) \/ t = s
    BY <2>3, <2>5 DEF Coming
  <2>9. Announced'
    BY <2>2, <2>3, <2>4, <2>5, <2>6, <2>7, <2>8 DEF Announced
  <2>10. QED
    BY <1>1, <2>2, <2>6, <2>7, <2>8, <2>9
<1>2. ASSUME UNCHANGED offer, \A s \in Sessions : pc[s] # "new" => pc'[s] # "new",
             \A s \in Sessions : Coming(s)' <=> Coming(s),
             \A s \in Sessions : ~(Piped(Prepare(s))' /\ Looked(s)'),
             \A s \in Sessions : Once(Pipe, Prepare(s))' /\ Once(lookups, s)'
      PROVE  Goal
  BY <1>2 DEF Announced
<1>3. ASSUME NEW m \in Event, m.kind # "prepare", events' = Append(events, m),
             UNCHANGED <<inbox, lookups, pc, offer>>
      PROVE  Goal
  <2>1. ASSUME NEW s \in Sessions
        PROVE  (Piped(Prepare(s))' <=> Piped(Prepare(s))) /\ Once(Pipe, Prepare(s))'
    <3>1. PICK e : e = Prepare(s) /\ e # m
      BY <1>3, EventParts
    <3>2. (Piped(e)' <=> Piped(e)) /\ (Once(Pipe, e) => Once(Pipe, e)')
      BY <1>3, <3>1, Emitted
    <3>3. QED
      BY <3>1, <3>2 DEF Announced
  <2>2. \A s \in Sessions : (Looked(s)' <=> Looked(s)) /\ (Once(lookups, s)' <=> Once(lookups, s))
    BY <1>3 DEF Looked
  <2>3. QED
    BY <1>2, <1>3, <2>1, <2>2 DEF Announced, Coming
<1>4. CASE Still
  BY <1>2, <1>4 DEF Still, Announced, Coming, Looked
<1>5. CASE OnPrepareUpload
  <2>1. PICK t \in Sessions : t = Current /\ Head(inbox) = Prepare(t)
    BY <1>5, Takes, EventKinds DEF OnPrepareUpload, Current, Notices
  <2>2. Take("prepare") /\ UNCHANGED <<events, pc, offer>> /\ lookups' = Append(lookups, t)
    BY <1>5, <2>1 DEF OnPrepareUpload, serverVars
  <2>3. \A s \in Sessions : Looked(s)' <=> Looked(s) \/ s = t
    BY <2>2, Appended DEF Looked, TypeOK, AppType
  <2>4. ASSUME NEW s \in Sessions
        PROVE  /\ Piped(Prepare(s))' <=> Piped(Prepare(s)) /\ s # t
               /\ Once(Pipe, Prepare(s))' /\ Piped(Prepare(t))
    <3>1. PICK e : e = Prepare(s) /\ (e = Head(inbox) <=> s = t)
      BY <2>1, EventParts
    <3>2. Once(Pipe, e)
      BY <3>1 DEF Announced
    <3>3. /\ Piped(e)' <=> Piped(e) /\ s # t
          /\ Once(Pipe, e)' /\ Piped(Prepare(t))
      BY <2>1, <2>2, <3>1, <3>2, Taken
    <3>4. QED
      BY <3>1, <3>3
  <2>5. \A s \in Sessions : Once(lookups, s)'
    BY <2>1, <2>2, <2>4, Appended DEF Announced, Looked, TypeOK, AppType
  <2>6. QED
    BY <1>2, <2>2, <2>3, <2>4, <2>5 DEF Announced, Coming
<1>6. CASE ShowRequest
  <2>1. lookups # <<>> /\ lookups' = Tail(lookups) /\ UNCHANGED <<events, inbox, pc, offer>>
    BY <1>6 DEF ShowRequest, serverVars, bridgeVars
  <2>2. \A s \in Sessions : /\ Looked(s) <=> s = Head(lookups) \/ Looked(s)'
                            /\ Once(lookups, s)'
    BY <2>1, HeadTaken DEF Announced, Looked, TypeOK, AppType
  <2>3. \A s \in Sessions : (Piped(Prepare(s))' <=> Piped(Prepare(s))) /\ Once(Pipe, Prepare(s))'
    BY <2>1, Undisturbed DEF Announced
  <2>4. Announced'
    BY <2>1, <2>2, <2>3 DEF Announced, Coming
  <2>5. QED
    BY <1>6, <2>1, <2>2, <2>3, <2>4 DEF Coming
<1>7. ASSUME NEW k, k # "prepare", Take(k), UNCHANGED <<events, lookups, pc, offer>> PROVE Goal
  <2>1. ASSUME NEW s \in Sessions
        PROVE  (Piped(Prepare(s))' <=> Piped(Prepare(s))) /\ Once(Pipe, Prepare(s))'
    <3>1. PICK e : e = Prepare(s) /\ e # Head(inbox) /\ Once(Pipe, e)
      BY <1>7, Taken, EventParts DEF Announced
    <3>2. (Piped(e)' <=> Piped(e)) /\ Once(Pipe, e)'
      BY <1>7, <3>1, Taken
    <3>3. QED
      BY <3>1, <3>2
  <2>2. \A s \in Sessions : (Looked(s)' <=> Looked(s)) /\ (Once(lookups, s)' <=> Once(lookups, s))
    BY <1>7 DEF Looked
  <2>3. QED
    BY <1>2, <1>7, <2>1, <2>2 DEF Announced, Coming
<1>8. QED
  BY <1>1, <1>3, <1>4, <1>5, <1>6, <1>7, FlowStep

-----------------------------------------------------------------------------
(* What the app says of a request *)

\* Nobody can accept the request any more: what was chosen is settled.
Decided(s) == Passed(s) /\ ~(session.id = s /\ session.status = "waiting")

\* What the app said, or is about to say, about the request.
Said(s, selected) == Decided(s) /\ selected \in {{}, chosen[s]}

\* Only requests that passed are shown.
ShownPassed == \A s \in Sessions : session.id = s => Passed(s)

\* The app speaks of requests that are decided, and says what was chosen.
Selected ==
  /\ ShownPassed
  /\ \A s \in Sessions :
       /\ chosen[s] \subseteq offer[s]
       /\ chosen[s] # {} \/ s \in permitting => Decided(s)
       /\ \A c \in commands : c.op = "decide" /\ c.from = s => Said(s, c.files)
       /\ \A t \in Sessions : verdict[t].from = s => Said(s, verdict[t].files)

\* The session shown goes on, is cancelled by its sender or is concluded.
Proceeds ==
  /\ session'.id = session.id
  /\ \/ session'.status \in {session.status, "canceledBySender"}
     \/ session.status \in Allowed /\ session'.status \in {"finishedWithErrors", "finished"}
     \/ OnFileUpload /\ session.status \in Allowed /\ session'.status = "sending"

LEMMA ConcludeProceeds ==
  ASSUME TypeOK, NEW view, view.id = session.id, view.status = session.status,
         view = session \/ \E s \in Sessions : view \in Views(s),
         Conclude(view)
  PROVE  Proceeds
<1>1. PICK new : new = Concluded(view)
  OBVIOUS
<1>2. new = view \/ (/\ new.id = view.id /\ view.status \in Allowed
                     /\ new.status \in {"finished", "finishedWithErrors"})
  <2>1. CASE view = NoSession
    BY <1>1, <2>1 DEF Concluded
  <2>2. ASSUME NEW s \in Sessions, view \in Views(s), new # view
        PROVE  /\ new.id = view.id /\ view.status \in Allowed
               /\ new.status \in {"finished", "finishedWithErrors"}
    BY <1>1, <2>2 DEF Concluded, Views
  <2>3. QED
    BY <2>1, <2>2 DEF TypeOK, AppType
<1>3. QED
  BY <1>1, <1>2 DEF Conclude, Proceeds, Allowed

LEMMA ShownStep ==
  ASSUME TypeOK, [Next]_vars
  PROVE  \/ (Proceeds \/ session' = NoSession) /\ UNCHANGED chosen /\ permitting' \subseteq permitting
         \/ ShowRequest
         \/ \E selected \in SUBSET Files : AcceptFileRequest(selected)
<1> DEFINE Goal == (Proceeds \/ session' = NoSession) /\ UNCHANGED chosen /\ permitting' \subseteq permitting
<1>1. ASSUME UNCHANGED <<session, chosen, permitting>> PROVE Goal
  BY <1>1 DEF Proceeds
<1>2. CASE UNCHANGED vars
  BY <1>1, <1>2 DEF vars, appVars
<1>3. ASSUME Server PROVE Goal
  BY <1>1, <1>3 DEF Server, Request, Refuse, HangUp, Respond, SenderCancels, Notify, StartUpload,
                    HangUpUpload, SaveBody, FinalizeFile, appVars
<1>4. ASSUME Bridge PROVE Goal
  BY <1>1, <1>4 DEF Bridge, Forward, Handle, RespondPrepareUpload, RespondFileUpload,
                    RejectFileUpload, CancelUploadSession, appVars
<1>5. ASSUME OnPrepareUpload PROVE Goal
  BY <1>5 DEF OnPrepareUpload, CloseShown
<1>6. ASSUME OnFileUpload PROVE Goal
  <2>1. PICK j \in Jobs : j = Head(inbox).job
    BY <1>6, Takes DEF OnFileUpload
  <2>2. CASE Expected(j)
    <3>1. session' = [WithFile(session, FileOf(j), "sending") EXCEPT !.status = "sending"]
      BY <1>6, <2>1, <2>2 DEF OnFileUpload
    <3>2. session \in Views(session.id)
      BY <2>2, ShownType DEF Expected
    <3>3. session'.id = session.id /\ session'.status = "sending" /\ session.status \in Allowed
      BY <2>2, <3>1, <3>2 DEF WithFile, Views, Expected
    <3>4. QED
      BY <1>6, <3>3 DEF OnFileUpload, Proceeds, Allowed
  <2>3. CASE ~Expected(j)
    BY <1>1, <1>6, <2>1, <2>3 DEF OnFileUpload
  <2>4. QED
    BY <2>2, <2>3
<1>7. ASSUME OnSessionEnd \/ OnPrepareUploadAborted PROVE Goal
  <2>1. session' = session \/ (session.id \in Sessions /\ CancelBySender)
    BY <1>7, Takes DEF OnSessionEnd, OnPrepareUploadAborted, Ended
  <2>2. ASSUME session.id \in Sessions, CancelBySender PROVE Proceeds
    BY <2>2, IdShown, ShownType DEF CancelBySender, Proceeds, Views
  <2>3. QED
    BY <1>1, <1>7, <2>1, <2>2 DEF OnSessionEnd, OnPrepareUploadAborted
<1>8. ASSUME NEW s \in Sessions, SendDecision(s) \/ DelayedClose(s) PROVE Goal
  BY <1>8 DEF SendDecision, DelayedClose, CloseShown, Proceeds
<1>9. ASSUME NEW j \in Jobs, NEW st \in FileStatus, Shown
      PROVE  LET view == WithFile(session, FileOf(j), st) IN
             /\ view.id = session.id /\ view.status = session.status
             /\ view \in Views(session.id) /\ session.id \in Sessions
  BY <1>9, ShownType, ViewChanges, JobParts DEF WithFile, Views
<1>10. ASSUME NEW j \in Jobs, Fail(j) PROVE Goal
  <2>1. PICK view : view = IF Shown THEN WithFile(session, FileOf(j), "failed") ELSE session
    OBVIOUS
  <2>2. /\ view.id = session.id /\ view.status = session.status
        /\ view = session \/ \E s \in Sessions : view \in Views(s)
    BY <1>9, <2>1 DEF FileStatus
  <2>3. session' = session \/ Conclude(view)
    BY <1>10, <2>1 DEF Fail
  <2>4. Proceeds
    BY <1>1, <2>2, <2>3, ConcludeProceeds DEF Proceeds
  <2>5. QED
    BY <1>10, <2>4 DEF Fail
<1>11. ASSUME NEW j \in Jobs, Continue(j) PROVE Goal
  <2>1. CASE PrepareSaveTarget(j)
    BY <1>1, <2>1 DEF PrepareSaveTarget
  <2>2. CASE PrepareSaveTargetFails(j) \/ ReceiveFails(j)
    BY <1>10, <2>2 DEF PrepareSaveTargetFails, ReceiveFails
  <2>3. CASE KeepFile(j)
    <3>1. session' = session \/ (Shown /\ session' = WithFile(session, FileOf(j), "finished"))
      BY <2>3 DEF KeepFile
    <3>2. Proceeds
      BY <1>9, <3>1 DEF FileStatus, Proceeds
    <3>3. QED
      BY <2>3, <3>2 DEF KeepFile
  <2>4. CASE RecordHistory(j)
    BY <2>4, ConcludeProceeds DEF RecordHistory
  <2>5. QED
    BY <1>11, <2>1, <2>2, <2>3, <2>4 DEF Continue
<1>12. ASSUME DeclineFileRequest \/ UserCloses \/ UserCancels PROVE Goal
  BY <1>12 DEF DeclineFileRequest, UserCloses, UserCancels, CloseShown
<1>13. QED
  BY <1>2, <1>3, <1>4, <1>5, <1>6, <1>7, <1>8, <1>11, <1>12 DEF Next, App, Deliver, User

\* The request shown was on its way until now.
LEMMA ShowsComing ==
  ASSUME TypeOK, Announced, ShowRequest, NEW s, s = Head(lookups)
  PROVE  /\ s \in Sessions /\ Coming(s)
         /\ session'.id = s /\ session'.status \in {"waiting", "sending"}
         /\ Shown' /\ Passed(s)'
         /\ \/ UNCHANGED <<chosen, permitting>>
            \/ /\ session'.status = "sending"
               /\ chosen' = [chosen EXCEPT ![s] = offer[s]]
               /\ permitting' = permitting \cup {s}
<1>2. /\ lookups # <<>> /\ lookups' = Tail(lookups)
      /\ UNCHANGED <<events, inbox, pc>>
      /\ s \in Sessions
  BY HeadTailProperties DEF ShowRequest, TypeOK, AppType, serverVars, bridgeVars
<1>3. Looked(s) /\ ~Looked(s)' /\ (Piped(Prepare(s))' <=> Piped(Prepare(s)))
  BY <1>2, HeadTaken, Undisturbed DEF Looked, Announced, TypeOK, AppType
<1>4. Coming(s) /\ Passed(s)'
  BY <1>2, <1>3 DEF Announced, Coming, Passed
<1>5. /\ NewSession(s).id = s /\ NewSession(s).status = "waiting"
      /\ Accepted(NewSession(s), offer[s]).id = s
      /\ Accepted(NewSession(s), offer[s]).status = "sending"
  BY DEF NewSession, Accepted
<1>6. \/ session' = NewSession(s) /\ UNCHANGED <<chosen, permitting>>
      \/ /\ session' = Accepted(NewSession(s), offer[s])
         /\ chosen' = [chosen EXCEPT ![s] = offer[s]]
         /\ permitting' = permitting \cup {s}
  BY DEF ShowRequest
<1>7. Shown'
  BY <1>2, <1>5, <1>6, NoSessionParts DEF Shown
<1>8. QED
  BY <1>2, <1>4, <1>5, <1>6, <1>7

LEMMA DecidedStays ==
  ASSUME TypeOK, Announced, [Next]_vars, NEW s \in Sessions, Decided(s)
  PROVE  Decided(s)' /\ chosen'[s] = chosen[s]
<1>1. Passed(s)'
  BY ComingStep DEF Decided
<1>2. CASE (Proceeds \/ session' = NoSession) /\ UNCHANGED chosen
  BY <1>1, <1>2, NoSessionParts DEF Proceeds, Decided, Allowed
<1>3. CASE ShowRequest
  BY <1>1, <1>3, ShowsComing DEF Decided, Passed, TypeOK, AppType
<1>4. ASSUME NEW selected \in SUBSET Files, AcceptFileRequest(selected)
      PROVE  Decided(s)' /\ chosen'[s] = chosen[s]
  <2>1. session.id # s /\ session \in Views(session.id)
    BY <1>4, ShownType DEF AcceptFileRequest, Decided
  <2>2. session'.id # s
    BY <1>4, <2>1 DEF AcceptFileRequest, Accepted, Views
  <2>3. QED
    BY <1>1, <1>4, <2>1, <2>2 DEF AcceptFileRequest, Decided, TypeOK, AppType
<1>5. QED
  BY <1>2, <1>3, <1>4, ShownStep

LEMMA SaidStays ==
  ASSUME TypeOK, Announced, [Next]_vars, NEW s \in Sessions, NEW F, Said(s, F)
  PROVE  Said(s, F)'
  BY DecidedStays DEF Said

\* New decisions are about what was permitted, or decline the request shown.
LEMMA DecisionStep ==
  ASSUME TypeOK, [Next]_vars
  PROVE  /\ \A c \in commands' : c.op = "decide" =>
              \/ c \in commands
              \/ \E s \in permitting : c = Decide(s, chosen[s])
              \/ Shown /\ session' = NoSession /\ c = Decide(session.id, {})
         /\ \/ UNCHANGED verdict
            \/ /\ decision \in Sessions /\ pc[decision] = "waiting" /\ decision' = "none"
               /\ UNCHANGED <<pc, events, inbox, slot, status, offer, owed, up>>
               /\ \E c \in commands : /\ c.op = "decide"
                    /\ verdict' = [verdict EXCEPT ![decision] = [from |-> c.from, files |-> c.files]]
<1> DEFINE Goal == \A c \in commands' : c.op = "decide" =>
                     \/ c \in commands
                     \/ \E s \in permitting : c = Decide(s, chosen[s])
                     \/ Shown /\ session' = NoSession /\ c = Decide(session.id, {})
<1>1. ASSUME NEW m, Issue(m), m.op # "decide" PROVE Goal
  BY <1>1 DEF Issue
<1>2. CASE UNCHANGED vars
  BY <1>2 DEF vars, serverVars, bridgeVars
<1>3. CASE Server
  BY <1>3 DEF Server, Request, Refuse, HangUp, Respond, SenderCancels, Notify, StartUpload,
              HangUpUpload, SaveBody, FinalizeFile, bridgeVars
<1>4. ASSUME NEW c \in commands, RespondPrepareUpload(c)
      PROVE  \/ UNCHANGED verdict
             \/ /\ decision \in Sessions /\ pc[decision] = "waiting" /\ decision' = "none"
                /\ UNCHANGED <<pc, events, inbox, slot, status, offer, owed, up>>
                /\ c.op = "decide"
                /\ verdict' = [verdict EXCEPT ![decision] = [from |-> c.from, files |-> c.files]]
  BY <1>4 DEF RespondPrepareUpload
<1>5. CASE Bridge
  <2>1. commands' \subseteq commands
    BY <1>5 DEF Bridge, Forward, Handle, RespondPrepareUpload, RespondFileUpload, RejectFileUpload,
                CancelUploadSession
  <2>2. ASSUME NEW c \in commands, RespondFileUpload(c) \/ RejectFileUpload(c) \/ CancelUploadSession(c)
        PROVE  UNCHANGED verdict
    BY <2>2 DEF RespondFileUpload, RejectFileUpload, CancelUploadSession
  <2>3. Forward => UNCHANGED verdict
    BY DEF Forward
  <2>4. QED
    BY <1>4, <1>5, <2>1, <2>2, <2>3 DEF Bridge, Handle
<1>6. CASE OnPrepareUpload \/ OnSessionEnd \/ OnPrepareUploadAborted \/ ShowRequest
  BY <1>6 DEF OnPrepareUpload, OnSessionEnd, OnPrepareUploadAborted, ShowRequest, serverVars, bridgeVars
<1>7. CASE OnFileUpload
  <2>1. PICK j \in Jobs : j = Head(inbox).job
    BY <1>7, Takes DEF OnFileUpload
  <2>2. UNCHANGED verdict /\ (UNCHANGED commands \/ Issue(CancelSession(SessionOf(j))))
    BY <1>7, <2>1 DEF OnFileUpload, serverVars
  <2>3. QED
    BY <1>1, <2>2, CommandParts, JobParts
<1>8. ASSUME NEW s \in Sessions, SendDecision(s) \/ DelayedClose(s) PROVE Goal /\ UNCHANGED verdict
  BY <1>8 DEF SendDecision, DelayedClose, Issue, serverVars, bridgeVars
<1>9. ASSUME NEW j \in Jobs, Continue(j) PROVE Goal /\ UNCHANGED verdict
  <2>1. UNCHANGED verdict /\ (UNCHANGED commands \/ Issue(GiveTarget(j)) \/ Issue(RejectUpload(j)))
    BY <1>9 DEF Continue, PrepareSaveTarget, PrepareSaveTargetFails, KeepFile, ReceiveFails,
                RecordHistory, Fail, serverVars, bridgeVars
  <2>2. QED
    BY <1>1, <2>1, CommandParts
<1>10. CASE User
  <2>1. UNCHANGED verdict
    BY <1>10 DEF User, AcceptFileRequest, DeclineFileRequest, UserCloses, UserCancels, serverVars
  <2>2. CASE DeclineFileRequest
    BY <2>1, <2>2 DEF DeclineFileRequest, Issue, CloseShown
  <2>3. CASE UserCancels
    BY <1>1, <2>1, <2>3, ShownType, CommandParts DEF UserCancels
  <2>4. CASE UNCHANGED commands
    BY <2>1, <2>4
  <2>5. QED
    BY <1>10, <2>2, <2>3, <2>4 DEF User, AcceptFileRequest, UserCloses, bridgeVars
<1>11. QED
  BY <1>2, <1>3, <1>5, <1>6, <1>7, <1>8, <1>9, <1>10 DEF Next, App, Deliver

LEMMA ShownPassedStep ==
  ASSUME TypeOK, Announced, ShownPassed, [Next]_vars
  PROVE  ShownPassed'
<1>1. SUFFICES ASSUME NEW s \in Sessions, session'.id = s PROVE Passed(s)'
  BY DEF ShownPassed
<1>2. CASE session.id = s
  BY <1>2, ComingStep DEF ShownPassed
<1>3. CASE ShowRequest
  BY <1>1, <1>3, ShowsComing
<1>4. CASE session.id # s /\ ~ShowRequest
  <2>1. ASSUME NEW selected \in SUBSET Files, AcceptFileRequest(selected) PROVE session'.id = session.id
    BY <2>1, ShownType DEF AcceptFileRequest, Accepted, Views
  <2>2. QED
    BY <1>1, <1>4, <2>1, ShownStep, NoSessionParts DEF Proceeds
<1>5. QED
  BY <1>2, <1>3, <1>4

\* What is selected was offered, and is settled.
LEMMA ChosenStep ==
  ASSUME TypeOK, Announced, Selected, [Next]_vars, NEW s \in Sessions
  PROVE  /\ chosen'[s] \subseteq offer'[s]
         /\ chosen'[s] # {} \/ s \in permitting' => Decided(s)'
<1>1. ASSUME chosen'[s] = chosen[s], s \in permitting' => s \in permitting
      PROVE  /\ chosen'[s] \subseteq offer'[s]
             /\ chosen'[s] # {} \/ s \in permitting' => Decided(s)'
  <2>1. chosen'[s] # {} \/ s \in permitting' => Decided(s) /\ Decided(s)'
    BY <1>1, DecidedStays DEF Selected
  <2>2. chosen[s] # {} => pc[s] # "new"
    BY <1>1, <2>1 DEF Decided, Passed
  <2>3. QED
    BY <1>1, <2>1, <2>2, ComingStep DEF Selected
<1>2. CASE ShowRequest
  <2>1. PICK t : t = Head(lookups)
    OBVIOUS
  <2>2. /\ t \in Sessions /\ session'.id = t /\ session'.status \in {"waiting", "sending"} /\ Passed(t)'
        /\ \/ UNCHANGED <<chosen, permitting>>
           \/ /\ session'.status = "sending" /\ chosen' = [chosen EXCEPT ![t] = offer[t]]
              /\ permitting' = permitting \cup {t}
    BY <1>2, <2>1, ShowsComing
  <2>3. CASE t # s \/ UNCHANGED <<chosen, permitting>>
    BY <1>1, <2>2, <2>3 DEF TypeOK, AppType
  <2>4. CASE t = s /\ session'.status = "sending" /\ chosen' = [chosen EXCEPT ![t] = offer[t]]
    <3>1. chosen'[s] = offer[s] /\ offer' = offer
      BY <1>2, <2>4 DEF ShowRequest, TypeOK, AppType, serverVars
    <3>2. Decided(s)'
      BY <2>2, <2>4 DEF Decided
    <3>3. QED
      BY <3>1, <3>2
  <2>5. QED
    BY <2>2, <2>3, <2>4
<1>3. ASSUME NEW selected \in SUBSET Files, AcceptFileRequest(selected)
      PROVE  /\ chosen'[s] \subseteq offer'[s]
             /\ chosen'[s] # {} \/ s \in permitting' => Decided(s)'
  <2>1. PICK t \in Sessions : t = session.id /\ session \in Views(t)
    BY <1>3, ShownType DEF AcceptFileRequest
  <2>2. CASE t # s
    BY <1>1, <1>3, <2>1, <2>2 DEF AcceptFileRequest, TypeOK, AppType
  <2>3. CASE t = s
    <3>1. session'.status = "sending"
      BY <1>3, <2>1 DEF AcceptFileRequest, Accepted, Views
    <3>2. Decided(s)'
      BY <2>1, <2>3, <3>1, ComingStep DEF Selected, ShownPassed, Decided
    <3>3. chosen'[s] = selected /\ selected \subseteq offer[s] /\ offer' = offer
      BY <1>3, <2>1, <2>3 DEF AcceptFileRequest, TypeOK, AppType, serverVars
    <3>4. QED
      BY <3>2, <3>3
  <2>4. QED
    BY <2>2, <2>3
<1>4. QED
  BY <1>1, <1>2, <1>3, ShownStep

LEMMA SelectedStep ==
  ASSUME TypeOK, Announced, Selected, [Next]_vars
  PROVE  Selected'
<1>1. SUFFICES ASSUME NEW s \in Sessions
               PROVE  /\ \A c \in commands' : c.op = "decide" /\ c.from = s => Said(s, c.files)'
                      /\ \A t \in Sessions : (verdict[t].from = s => Said(s, verdict[t].files))'
  <2>1. ShownPassed'
    BY ShownPassedStep DEF Selected
  <2>2. QED
    BY <1>1, <2>1, ChosenStep DEF Selected
<1>2. ASSUME NEW c \in commands, c.op = "decide", c.from = s PROVE Said(s, c.files)'
  BY <1>2, SaidStays DEF Selected
<1>3. ASSUME NEW c \in commands', c.op = "decide", c.from = s, c \notin commands PROVE Said(s, c.files)'
  <2>1. CASE c = Decide(s, chosen[s]) /\ s \in permitting
    <3>1. c.files = chosen[s] /\ Said(s, c.files)
      BY <2>1, CommandParts DEF Said, Selected, TypeOK, AppType
    <3>2. PICK F : F = c.files
      OBVIOUS
    <3>3. QED
      BY <3>1, <3>2, SaidStays
  <2>2. CASE Shown /\ session' = NoSession /\ c = Decide(session.id, {})
    <3>1. s = session.id /\ c.files = {}
      BY <1>3, <2>2, CommandParts, ShownType
    <3>2. Passed(s)'
      BY <3>1, ComingStep DEF Selected, ShownPassed
    <3>3. Decided(s)'
      BY <2>2, <3>2, NoSessionParts DEF Decided
    <3>4. QED
      BY <3>1, <3>3 DEF Said
  <2>3. \/ \E r \in permitting : c = Decide(r, chosen[r])
        \/ Shown /\ session' = NoSession /\ c = Decide(session.id, {})
    BY <1>3, DecisionStep
  <2>4. \A r \in permitting : c = Decide(r, chosen[r]) => r = s
    BY <1>3, CommandParts DEF TypeOK, AppType
  <2>5. QED
    BY <2>1, <2>2, <2>3, <2>4
<1>4. ASSUME NEW t \in Sessions, verdict'[t].from = s PROVE Said(s, verdict[t].files)'
  <2>1. PICK F : F = verdict'[t].files
    OBVIOUS
  <2>2. CASE verdict'[t] = verdict[t]
    BY <1>4, <2>1, <2>2, SaidStays DEF Selected
  <2>3. CASE verdict'[t] # verdict[t]
    <3>1. PICK c \in commands :
            /\ c.op = "decide" /\ decision \in Sessions
            /\ verdict' = [verdict EXCEPT ![decision] = [from |-> c.from, files |-> c.files]]
      BY <2>3, DecisionStep
    <3>2. verdict'[t] = [from |-> c.from, files |-> c.files]
      BY <2>3, <3>1 DEF TypeOK, ServerType
    <3>3. c.from = s /\ F = c.files
      BY <1>4, <2>1, <3>2
    <3>4. Said(s, F)
      BY <3>1, <3>3 DEF Selected
    <3>5. QED
      BY <2>1, <3>4, SaidStays
  <2>4. QED
    BY <2>2, <2>3
<1>5. QED
  BY <1>2, <1>3, <1>4

-----------------------------------------------------------------------------
(* The slot and the uploads of its session *)

\* The slot belongs to the one request that waits, or to the session it holds.
Holders ==
  /\ \A s \in Sessions : pc[s] = "waiting" => slot = "pending"
  /\ \A s, t \in Sessions : pc[s] = "waiting" /\ pc[t] = "waiting" => s = t
  /\ slot = "pending" => \E s \in Sessions : pc[s] = "waiting"
  /\ \A s \in Sessions : slot = s => pc[s] = "opened"
  /\ \A s \in Sessions : verdict[s].from = "none" => verdict[s] = NoAnswer
  /\ \A s \in Sessions : pc[s] = "opened" => verdict[s] # NoAnswer

\* The uploads of a session are of files it accepted, and the status of a file
\* of the active session says where its upload is.
Accepts(s) == verdict[s].files \cap offer[s]
UploadingOf(s, f) ==
  LET phase == up[<<s, f>>] IN
  /\ phase # "none" => pc[s] = "opened" /\ f \in Accepts(s)
  /\ slot = s =>
       /\ status[f] = "absent" <=> f \notin Accepts(s)
       /\ phase = "none" => status[f] \in {"absent", "pending"}
       /\ phase \in {"asked", "saving", "ending"} => status[f] = "in_progress"
       /\ phase = "over" => status[f] = "settled"
Uploading == \A s \in Sessions, f \in Files : UploadingOf(s, f)

UpMoves == \A j \in Jobs : \/ up'[j] = up[j]
                           \/ up[j] \in {"asked", "saving"} /\ up'[j] \in {"saving", "ending"}

LEMMA DropMoves ==
  ASSUME NEW jobs, Drop(jobs)
  PROVE  UpMoves
  BY DEF Drop, UpMoves

LEMMA SlotStep ==
  ASSUME TypeOK, [Next]_vars
  PROVE  \/ /\ \E s \in Sessions : Request(s) \/ Refuse(s) \/ HangUp(s) \/ Respond(s)
            /\ UNCHANGED <<up, verdict>>
         \/ (\E j \in Jobs : StartUpload(j) \/ FinalizeFile(j)) /\ UNCHANGED <<pc, offer, verdict>>
         \/ /\ UpMoves /\ UNCHANGED <<pc, offer>>
            /\ UNCHANGED <<slot, status>> \/ (Vacate /\ slot \in Sessions /\ UNCHANGED verdict)
<1> DEFINE Goal == /\ UpMoves /\ UNCHANGED <<pc, offer>>
                   /\ UNCHANGED <<slot, status>> \/ (Vacate /\ slot \in Sessions /\ UNCHANGED verdict)
<1>1. ASSUME UNCHANGED <<up, pc, offer, slot, status>> PROVE Goal
  BY <1>1 DEF UpMoves
<1>2. CASE UNCHANGED vars
  BY <1>1, <1>2 DEF vars, serverVars
<1>3. ASSUME NEW s \in Sessions, Request(s) \/ Refuse(s) \/ HangUp(s) \/ Respond(s)
      PROVE  UNCHANGED <<up, verdict>>
  BY <1>3 DEF Request, Refuse, HangUp, Respond
<1>4. ASSUME NEW s \in Sessions, SenderCancels(s) \/ Notify(s) PROVE Goal
  BY <1>4 DEF SenderCancels, Notify, UpMoves
<1>5. ASSUME NEW j \in Jobs, StartUpload(j) \/ FinalizeFile(j) PROVE UNCHANGED <<pc, offer, verdict>>
  BY <1>5 DEF StartUpload, FinalizeFile
<1>6. ASSUME NEW j \in Jobs, HangUpUpload(j) \/ SaveBody(j) PROVE Goal
  BY <1>6 DEF HangUpUpload, SaveBody, UpMoves, TypeOK, ServerType
<1>7. ASSUME Forward PROVE Goal
  <2>1. UpMoves
    <3>1. UNCHANGED up \/ Drop(OfSession(Head(events).session))
      BY <1>7 DEF Forward
    <3>2. QED
      BY <3>1, DropMoves DEF UpMoves
  <2>2. QED
    BY <1>7, <2>1 DEF Forward
<1>8. ASSUME NEW c \in commands, Handle(c) PROVE Goal
  <2>1. CASE RespondPrepareUpload(c)
    BY <1>1, <2>1 DEF RespondPrepareUpload
  <2>2. CASE RespondFileUpload(c)
    BY <2>2 DEF RespondFileUpload, UpMoves, TypeOK, ServerType
  <2>3. CASE RejectFileUpload(c)
    BY <2>3, DropMoves DEF RejectFileUpload
  <2>4. CASE CancelUploadSession(c)
    BY <2>4, DropMoves, CommandKinds DEF CancelUploadSession, TypeOK, BridgeType
  <2>5. QED
    BY <1>8, <2>1, <2>2, <2>3, <2>4 DEF Handle
<1>9. ASSUME App \/ User PROVE Goal
  BY <1>1, <1>9 DEF App, Deliver, OnPrepareUpload, OnFileUpload, OnSessionEnd, OnPrepareUploadAborted,
                    ShowRequest, SendDecision, DelayedClose, Continue, PrepareSaveTarget,
                    PrepareSaveTargetFails, KeepFile, ReceiveFails, RecordHistory, Fail, User,
                    AcceptFileRequest, DeclineFileRequest, UserCloses, UserCancels, serverVars
<1>10. QED
  BY <1>2, <1>3, <1>4, <1>5, <1>6, <1>7, <1>8, <1>9 DEF Next, Server, Bridge

LEMMA SlotNames ==
  "free" \notin Sessions /\ "pending" \notin Sessions /\ "none" \notin Sessions
  BY AppAssumption

LEMMA HoldersStep ==
  ASSUME TypeOK, Holders, [Next]_vars
  PROVE  Holders'
<1> USE SlotNames
<1>1. ASSUME NEW s \in Sessions, Request(s) \/ Refuse(s) \/ HangUp(s) \/ Respond(s), UNCHANGED verdict
      PROVE  Holders'
  <2>1. CASE Request(s)
    BY <1>1, <2>1 DEF Request, Abandoned, Holders, TypeOK, ServerType
  <2>2. CASE Refuse(s)
    BY <1>1, <2>2 DEF Refuse, Holders, TypeOK, ServerType
  <2>3. CASE HangUp(s)
    BY <1>1, <2>3 DEF HangUp, Vacate, Holders, TypeOK, ServerType
  <2>4. CASE Respond(s)
    BY <1>1, <2>4 DEF Respond, Vacate, Holders, TypeOK, ServerType
  <2>5. QED
    BY <1>1, <2>1, <2>2, <2>3, <2>4
<1>2. ASSUME UNCHANGED <<pc, verdict>>, slot' = slot \/ (slot' = "free" /\ slot \in Sessions)
      PROVE  Holders'
  BY <1>2 DEF Holders
<1>3. ASSUME NEW j \in Jobs, StartUpload(j) \/ FinalizeFile(j), UNCHANGED <<pc, verdict>> PROVE Holders'
  BY <1>2, <1>3, JobParts DEF StartUpload, FinalizeFile, Vacate
<1>4. ASSUME UNCHANGED <<pc, slot>> PROVE Holders'
  <2>1. UNCHANGED verdict \/ \E s \in Sessions, c \in commands :
           /\ pc[s] = "waiting" /\ c.op = "decide"
           /\ verdict' = [verdict EXCEPT ![s] = [from |-> c.from, files |-> c.files]]
    BY DecisionStep
  <2>2. ASSUME NEW s \in Sessions, NEW c \in commands, pc[s] = "waiting", c.op = "decide",
               verdict' = [verdict EXCEPT ![s] = [from |-> c.from, files |-> c.files]]
        PROVE  Holders'
    <3>1. c.from \in Sessions
      BY <2>2, CommandKinds DEF TypeOK, BridgeType
    <3>2. \A t \in Sessions : t # s => verdict'[t] = verdict[t]
      BY <2>2 DEF TypeOK, ServerType
    <3>3. verdict'[s].from # "none" /\ pc[s] # "opened"
      BY <2>2, <3>1 DEF TypeOK, ServerType
    <3>4. QED
      BY <1>4, <3>2, <3>3 DEF Holders
  <2>3. QED
    BY <1>2, <1>4, <2>1, <2>2
<1>5. QED
  BY <1>1, <1>2, <1>3, <1>4, SlotStep DEF Vacate

LEMMA UploadingStep ==
  ASSUME TypeOK, Holders, Uploading, [Next]_vars
  PROVE  Uploading'
<1> USE SlotNames
<1> SUFFICES ASSUME NEW t \in Sessions, NEW g \in Files PROVE UploadingOf(t, g)'
  BY DEF Uploading
<1>u. UploadingOf(t, g) /\ (slot = t => pc[t] = "opened")
  BY DEF Uploading, Holders
<1>0. \A s \in Sessions, f \in Files : <<s, f>> \in Jobs
  BY JobParts
<1>1. ASSUME NEW s \in Sessions, Request(s) \/ Refuse(s) \/ HangUp(s), UNCHANGED <<up, verdict>>
      PROVE  UploadingOf(t, g)'
  <2>1. slot' \notin Sessions \/ UNCHANGED <<slot, status>>
    BY <1>1 DEF Request, Refuse, HangUp, Vacate
  <2>2. \A r \in Sessions : pc[r] = "opened" => pc'[r] = "opened" /\ offer'[r] = offer[r]
    <3>1. pc[s] # "opened" /\ (\A r \in Sessions : r # s => pc'[r] = pc[r] /\ offer'[r] = offer[r])
      BY <1>1 DEF Request, Refuse, HangUp, TypeOK, ServerType
    <3>2. QED
      BY <3>1
  <2>3. \A r \in Sessions : pc[r] = "opened" => Accepts(r)' = Accepts(r)
    BY <1>1, <2>2 DEF Accepts
  <2>4. QED
    BY <1>u, <1>1, <2>1, <2>2, <2>3 DEF UploadingOf
<1>2. ASSUME NEW s \in Sessions, Respond(s), UNCHANGED <<up, verdict>>
      PROVE  UploadingOf(t, g)'
  <2>1. pc[s] = "waiting" /\ (t # s => pc'[t] = pc[t]) /\ Accepts(t)' = Accepts(t)
    BY <1>2 DEF Respond, TypeOK, ServerType, Accepts
  <2>2. t = s => up[<<t, g>>] = "none"
    BY <1>u, <2>1 DEF UploadingOf
  <2>3. CASE slot' \notin Sessions
    BY <1>u, <1>2, <2>1, <2>2, <2>3 DEF UploadingOf
  <2>4. CASE slot' = s /\ status' = [f \in Files |-> IF f \in Accepts(s) THEN "pending" ELSE "absent"]
    <3>1. status'[g] = IF g \in Accepts(s) THEN "pending" ELSE "absent"
      BY <2>4
    <3>2. QED
      BY <1>u, <1>2, <2>1, <2>2, <2>4, <3>1 DEF UploadingOf
  <2>5. QED
    BY <1>2, <2>3, <2>4 DEF Respond, Vacate, Accepts
<1>3. ASSUME NEW j \in Jobs, StartUpload(j) \/ FinalizeFile(j), UNCHANGED <<pc, offer, verdict>>
      PROVE  UploadingOf(t, g)'
  <2>1. PICK s \in Sessions, f \in Files : j = <<s, f>> /\ SessionOf(j) = s /\ FileOf(j) = f
    BY JobParts
  <2>2. /\ Accepts(t)' = Accepts(t)
        /\ <<t, g>> # j => up'[<<t, g>>] = up[<<t, g>>]
    BY <1>0, <1>3 DEF Accepts, StartUpload, FinalizeFile, TypeOK, ServerType
  <2>3. ASSUME <<t, g>> # j
        PROVE  slot' = t => slot' = slot /\ status'[g] = status[g]
    BY <1>3, <2>1, <2>3 DEF StartUpload, FinalizeFile, Vacate, TypeOK, ServerType
  <2>4. CASE StartUpload(j)
    <3>1. /\ up'[j] = "asked" /\ status'[f] = "in_progress"
          /\ slot = s /\ slot' = s /\ status[f] = "pending"
      BY <2>1, <2>4 DEF StartUpload, TypeOK, ServerType
    <3>2. f \in Accepts(s) /\ pc[s] = "opened"
      BY <3>1 DEF Uploading, UploadingOf, Holders
    <3>3. QED
      BY <1>u, <1>3, <2>1, <2>2, <2>3, <3>1, <3>2 DEF UploadingOf
  <2>5. CASE FinalizeFile(j)
    <3>1. /\ up'[j] = "over" /\ up[j] = "ending"
          /\ slot' = s => status'[f] = "settled" /\ slot = s
      BY <2>1, <2>5 DEF FinalizeFile, Vacate, TypeOK, ServerType
    <3>2. f \in Accepts(s) /\ pc[s] = "opened"
      BY <2>1, <3>1 DEF Uploading, UploadingOf
    <3>3. QED
      BY <1>u, <1>3, <2>1, <2>2, <2>3, <3>1, <3>2 DEF UploadingOf
  <2>6. QED
    BY <1>3, <2>4, <2>5
<1>4. ASSUME UpMoves, UNCHANGED <<pc, offer>>,
             UNCHANGED <<slot, status>> \/ slot' = "free"
      PROVE  UploadingOf(t, g)'
  <2>1. pc[t] # "waiting" => Accepts(t)' = Accepts(t)
    <3>1. pc[t] # "waiting" => verdict'[t] = verdict[t]
      BY DecisionStep DEF TypeOK, ServerType
    <3>2. QED
      BY <1>4, <3>1 DEF Accepts
  <2>2. \/ up'[<<t, g>>] = up[<<t, g>>]
        \/ up[<<t, g>>] \in {"asked", "saving"} /\ up'[<<t, g>>] \in {"saving", "ending"}
    BY <1>0, <1>4 DEF UpMoves
  <2>3. QED
    BY <1>u, <1>4, <2>1, <2>2 DEF UploadingOf
<1>5. QED
  BY <1>1, <1>2, <1>3, <1>4, SlotStep DEF Vacate

-----------------------------------------------------------------------------
(* How an event gets from the server to the bridge and to the app *)

\* The server sends the event.
Sends(e) ==
  \/ \E j \in Jobs : StartUpload(j) /\ e = FileUpload(j)
  \/ \E s \in Sessions : Notify(s) /\ e = Notice(owed[s], s)
  \/ \E s \in Sessions : Request(s) /\ slot \in Sessions /\ e = Notice("cancelled", slot)

LEMMA PipeMoves ==
  ASSUME TypeOK, [Next]_vars
  PROVE  \/ \E s \in Sessions : Request(s) \/ Notify(s)
         \/ \E j \in Jobs : StartUpload(j)
         \/ UNCHANGED <<events, inbox>>
         \/ Forward \/ Deliver
<1>1. UNCHANGED vars => UNCHANGED <<events, inbox>>
  BY DEF vars, bridgeVars
<1>2. ASSUME NEW s \in Sessions, Refuse(s) \/ HangUp(s) \/ Respond(s) \/ SenderCancels(s)
      PROVE  UNCHANGED <<events, inbox>>
  BY <1>2 DEF Refuse, HangUp, Respond, SenderCancels, bridgeVars
<1>3. ASSUME NEW j \in Jobs, HangUpUpload(j) \/ SaveBody(j) \/ FinalizeFile(j)
      PROVE  UNCHANGED <<events, inbox>>
  BY <1>3 DEF HangUpUpload, SaveBody, FinalizeFile, bridgeVars
<1>4. ASSUME NEW c \in commands, Handle(c) PROVE UNCHANGED <<events, inbox>>
  BY <1>4 DEF Handle, RespondPrepareUpload, RespondFileUpload, RejectFileUpload, CancelUploadSession
<1>5. ASSUME NEW s \in Sessions, SendDecision(s) \/ DelayedClose(s) PROVE UNCHANGED <<events, inbox>>
  BY <1>5 DEF SendDecision, DelayedClose, bridgeVars
<1>6. ASSUME NEW j \in Jobs, Continue(j) PROVE UNCHANGED <<events, inbox>>
  BY <1>6 DEF Continue, PrepareSaveTarget, PrepareSaveTargetFails, KeepFile, ReceiveFails,
              RecordHistory, Fail, bridgeVars
<1>7. ASSUME ShowRequest \/ User PROVE UNCHANGED <<events, inbox>>
  BY <1>7 DEF ShowRequest, User, AcceptFileRequest, DeclineFileRequest, UserCloses, UserCancels, bridgeVars
<1>8. QED
  BY <1>1, <1>2, <1>3, <1>4, <1>5, <1>6, <1>7 DEF Next, Server, Bridge, App

LEMMA Delivered ==
  ASSUME Deliver
  PROVE  UNCHANGED events /\ \E k : Take(k)
  BY DEF Deliver, OnPrepareUpload, OnFileUpload, OnSessionEnd, OnPrepareUploadAborted

LEMMA RequestReplaces ==
  ASSUME TypeOK, NEW s \in Sessions, Request(s)
  PROVE  slot = "free" \/ slot \in Sessions
  BY DEF Request, Abandoned

LEMMA EventSent ==
  ASSUME TypeOK, NEW e \in Event, e.kind # "prepare", Sends(e)
  PROVE  Piped(e)' /\ Sent(e)' /\ (Once(Pipe, e) /\ ~Piped(e) => Once(Pipe, e)')
<1>1. ASSUME NEW s \in Sessions, Request(s), slot \in Sessions, e = Notice("cancelled", slot)
      PROVE  Piped(e)' /\ Sent(e)' /\ (Once(Pipe, e) /\ ~Piped(e) => Once(Pipe, e)')
  BY <1>1, Requested, SlotNames, EventParts
<1>2. ASSUME events' = Append(events, e), UNCHANGED inbox
      PROVE  Piped(e)' /\ Sent(e)' /\ (Once(Pipe, e) /\ ~Piped(e) => Once(Pipe, e)')
  BY <1>2, Emitted
<1>3. QED
  BY <1>1, <1>2 DEF Sends, StartUpload, Notify

LEMMA EventStep ==
  ASSUME TypeOK, [Next]_vars, NEW e \in Event, e.kind # "prepare"
  PROVE  /\ (Piped(e)' => Piped(e) \/ Sends(e)) /\ (Sent(e)' => Sent(e) \/ Sends(e))
         /\ Piped(e) => Piped(e)' \/ (Deliver /\ e = Head(inbox))
         /\ Sent(e) => Sent(e)' \/ (Forward /\ e = Head(events))
         /\ Once(Pipe, e) /\ (Sends(e) => ~Piped(e)) => Once(Pipe, e)'
<1> DEFINE Goal ==
      /\ (Piped(e)' => Piped(e) \/ Sends(e)) /\ (Sent(e)' => Sent(e) \/ Sends(e))
      /\ Piped(e) => Piped(e)' \/ (Deliver /\ e = Head(inbox))
      /\ Sent(e) => Sent(e)' \/ (Forward /\ e = Head(events))
      /\ Once(Pipe, e) /\ (Sends(e) => ~Piped(e)) => Once(Pipe, e)'
<1>0. SUFFICES Goal
  OBVIOUS
<1>1. ASSUME NEW s \in Sessions, Request(s) PROVE Goal
  <2>1. e # Prepare(s)
    BY EventParts
  <2>2. slot # "free" /\ e = Notice("cancelled", slot) => Sends(e)
    BY <1>1, RequestReplaces DEF Sends
  <2>3. /\ Piped(e)' <=> Piped(e) \/ (slot # "free" /\ e = Notice("cancelled", slot))
        /\ Sent(e)' <=> Sent(e) \/ (slot # "free" /\ e = Notice("cancelled", slot))
        /\ Once(Pipe, e) /\ (slot # "free" /\ e = Notice("cancelled", slot) => ~Piped(e)) => Once(Pipe, e)'
    BY <1>1, <2>1, Requested
  <2>4. QED
    BY <2>2, <2>3
<1>2. ASSUME NEW m \in Event, events' = Append(events, m), UNCHANGED inbox, e = m => Sends(e) PROVE Goal
  BY <1>2, Emitted
<1>3. ASSUME NEW s \in Sessions, Notify(s) PROVE Goal
  <2>1. owed[s] \in Notices
    BY <1>3 DEF Notify, TypeOK, ServerType
  <2>2. PICK m \in Event : m = Notice(owed[s], s)
    BY <2>1, EventParts
  <2>3. QED
    BY <1>2, <1>3, <2>2 DEF Notify, Sends
<1>4. ASSUME NEW j \in Jobs, StartUpload(j) PROVE Goal
  <2>1. PICK m \in Event : m = FileUpload(j)
    BY EventParts
  <2>2. QED
    BY <1>2, <1>4, <2>1 DEF StartUpload, Sends
<1>5. ASSUME UNCHANGED <<events, inbox>> PROVE Goal
  BY <1>5, Undisturbed
<1>6. ASSUME Forward PROVE Goal
  BY <1>6, Forwarded
<1>7. ASSUME Deliver PROVE Goal
  BY <1>7, Delivered, Taken
<1>8. QED
  BY <1>1, <1>3, <1>4, <1>5, <1>6, <1>7, PipeMoves

\* An event on its way once is taken and passed on once.
LEMMA EventTaken ==
  ASSUME TypeOK, NEW e, e = Head(inbox), Deliver
  PROVE  Piped(e) /\ (Once(Pipe, e) => ~Piped(e)' /\ ~Sent(e) /\ ~Sent(e)')
<1>1. PICK k : Take(k) /\ UNCHANGED events
  BY Delivered
<1>2. QED
  BY <1>1, Taken

-----------------------------------------------------------------------------
(* Uploads are announced once and written once *)

HandledOf(j) ==
  /\ up[j] = "none" => ~Piped(FileUpload(j)) /\ saving[j] = "none" /\ j \notin targets
  /\ Piped(FileUpload(j)) => saving[j] = "none"
  /\ Once(Pipe, FileUpload(j))
  /\ saving[j] # "none" => FileOf(j) \in chosen[SessionOf(j)]
  /\ saving[j] \in {"none", "preparing"} =>
       GiveTarget(j) \notin commands /\ result[j] = "none" /\ up[j] # "saving"
  /\ GiveTarget(j) \in commands => result[j] = "none" /\ up[j] # "saving"
  /\ up[j] = "saving" => result[j] = "none"
  /\ saving[j] = "receiving" /\ result[j] = "none" => GiveTarget(j) \in commands \/ up[j] = "saving"

\* An upload is announced once, prepared once, given a target once and written
\* once, and only if its file was chosen for its request.
HandledOnce == \A j \in Jobs : HandledOf(j)

\* What was chosen stays chosen.
LEMMA ChosenStays ==
  ASSUME TypeOK, Announced, Selected, [Next]_vars, NEW s \in Sessions, NEW f \in chosen[s]
  PROVE  f \in chosen'[s]
  BY DecidedStays DEF Selected

\* The phase of an upload's onFileUpload.
LEMMA SavingStep ==
  ASSUME TypeOK, [Next]_vars, NEW j \in Jobs
  PROVE  \/ saving'[j] = saving[j]
         \/ OnFileUpload /\ Head(inbox) = FileUpload(j) /\ Expected(j) /\ saving'[j] = "preparing"
         \/ PrepareSaveTarget(j)
         \/ PrepareSaveTargetFails(j) \/ ReceiveFails(j) \/ KeepFile(j) \/ RecordHistory(j)
<1>1. UNCHANGED vars => saving'[j] = saving[j]
  BY DEF vars, appVars
<1>2. Server => saving'[j] = saving[j]
  BY DEF Server, Request, Refuse, HangUp, Respond, SenderCancels, Notify, StartUpload,
         HangUpUpload, SaveBody, FinalizeFile, appVars
<1>3. Bridge => saving'[j] = saving[j]
  BY DEF Bridge, Forward, Handle, RespondPrepareUpload, RespondFileUpload, RejectFileUpload,
         CancelUploadSession, appVars
<1>4. User => saving'[j] = saving[j]
  BY DEF User, AcceptFileRequest, DeclineFileRequest, UserCloses, UserCancels
<1>5. ASSUME OnPrepareUpload \/ OnSessionEnd \/ OnPrepareUploadAborted \/ ShowRequest
             \/ \E s \in Sessions : SendDecision(s) \/ DelayedClose(s)
      PROVE  saving'[j] = saving[j]
  BY <1>5 DEF OnPrepareUpload, OnSessionEnd, OnPrepareUploadAborted, ShowRequest, SendDecision, DelayedClose
<1>6. ASSUME OnFileUpload, saving'[j] # saving[j]
      PROVE  Head(inbox) = FileUpload(j) /\ Expected(j) /\ saving'[j] = "preparing"
  <2>1. PICK k \in Jobs : k = Head(inbox).job /\ Head(inbox) = FileUpload(k)
    BY <1>6, Takes, EventKinds DEF OnFileUpload, Notices
  <2>2. Expected(k) /\ saving' = [saving EXCEPT ![k] = "preparing"]
    BY <1>6, <2>1 DEF OnFileUpload
  <2>3. QED
    BY <1>6, <2>1, <2>2 DEF TypeOK, AppType
<1>7. ASSUME NEW k \in Jobs, Continue(k), k # j PROVE saving'[j] = saving[j]
  BY <1>7 DEF Continue, PrepareSaveTarget, PrepareSaveTargetFails, KeepFile, ReceiveFails,
              RecordHistory, Fail, TypeOK, AppType
<1>8. Continue(j) => \/ PrepareSaveTarget(j)
                     \/ PrepareSaveTargetFails(j) \/ ReceiveFails(j) \/ KeepFile(j) \/ RecordHistory(j)
  BY DEF Continue
<1>9. QED
  BY <1>1, <1>2, <1>3, <1>4, <1>5, <1>6, <1>7, <1>8 DEF Next, App, Deliver

\* The phase of an upload handler, and what its target reports.
LEMMA UploadStep ==
  ASSUME TypeOK, [Next]_vars, NEW j \in Jobs
  PROVE  \/ up'[j] = up[j] /\ result'[j] = result[j]
         \/ StartUpload(j)
         \/ up[j] = "asked" /\ up'[j] = "ending" /\ result'[j] = result[j]
         \/ SaveBody(j) \/ FinalizeFile(j)
         \/ GiveTarget(j) \in commands /\ RespondFileUpload(GiveTarget(j))
<1> DEFINE Same == up'[j] = up[j] /\ result'[j] = result[j]
           Dropped == up[j] = "asked" /\ up'[j] = "ending" /\ result'[j] = result[j]
<1>1. UNCHANGED vars => Same
  BY DEF vars, serverVars
<1>2. ASSUME NEW s \in Sessions,
             Request(s) \/ Refuse(s) \/ HangUp(s) \/ Respond(s) \/ SenderCancels(s) \/ Notify(s)
      PROVE  Same
  BY <1>2 DEF Request, Refuse, HangUp, Respond, SenderCancels, Notify
<1>3. ASSUME NEW k \in Jobs, StartUpload(k) \/ HangUpUpload(k) \/ SaveBody(k) \/ FinalizeFile(k), k # j
      PROVE  Same
  BY <1>3 DEF StartUpload, HangUpUpload, SaveBody, FinalizeFile, TypeOK, ServerType
<1>4. HangUpUpload(j) => Dropped
  BY DEF HangUpUpload, TypeOK, ServerType
<1>5. ASSUME NEW jobs, Drop(jobs), UNCHANGED result PROVE Same \/ Dropped
  BY <1>5 DEF Drop
<1>6. Forward => Same \/ Dropped
  <2>1. Forward => UNCHANGED result /\ (UNCHANGED up \/ Drop(OfSession(Head(events).session)))
    BY DEF Forward
  <2>2. QED
    BY <1>5, <2>1
<1>7. ASSUME NEW c \in commands, Handle(c), ~RespondFileUpload(c) PROVE Same \/ Dropped
  BY <1>5, <1>7 DEF Handle, RespondPrepareUpload, RejectFileUpload, CancelUploadSession
<1>8. ASSUME NEW c \in commands, RespondFileUpload(c), c # GiveTarget(j) PROVE Same
  <2>1. c.job \in Jobs /\ c.job # j
    BY <1>8, CommandKinds DEF RespondFileUpload, TypeOK, BridgeType
  <2>2. QED
    BY <1>8, <2>1 DEF RespondFileUpload, TypeOK, ServerType
<1>9. App \/ User => Same
  BY DEF App, Deliver, OnPrepareUpload, OnFileUpload, OnSessionEnd, OnPrepareUploadAborted,
         ShowRequest, SendDecision, DelayedClose, Continue, PrepareSaveTarget,
         PrepareSaveTargetFails, KeepFile, ReceiveFails, RecordHistory, Fail, User,
         AcceptFileRequest, DeclineFileRequest, UserCloses, UserCancels, serverVars
<1>10. QED
  BY <1>1, <1>2, <1>3, <1>4, <1>6, <1>7, <1>8, <1>9 DEF Next, Server, Bridge

\* Who issues a command, and who handles it.
LEMMA CommandStep ==
  ASSUME TypeOK, [Next]_vars, NEW c \in Command, c.op # "decide"
  PROVE  /\ c \in commands' =>
              \/ c \in commands
              \/ \E j \in Jobs : c = GiveTarget(j) /\ PrepareSaveTarget(j)
              \/ \E j \in Jobs : c = RejectUpload(j) /\ (PrepareSaveTargetFails(j) \/ ReceiveFails(j))
              \/ UserCancels /\ c = CancelSession(session.id)
              \/ \E j \in Jobs : /\ OnFileUpload /\ Head(inbox) = FileUpload(j) /\ ~Expected(j)
                                 /\ c = CancelSession(SessionOf(j))
         /\ c \in commands => c \in commands' \/ Handle(c)
<1> DEFINE New == \/ \E j \in Jobs : c = GiveTarget(j) /\ PrepareSaveTarget(j)
                  \/ \E j \in Jobs : c = RejectUpload(j) /\ (PrepareSaveTargetFails(j) \/ ReceiveFails(j))
                  \/ UserCancels /\ c = CancelSession(session.id)
                  \/ \E j \in Jobs : /\ OnFileUpload /\ Head(inbox) = FileUpload(j) /\ ~Expected(j)
                                     /\ c = CancelSession(SessionOf(j))
           Goal == /\ c \in commands' => c \in commands \/ New
                   /\ c \in commands => c \in commands' \/ Handle(c)
<1>0. SUFFICES Goal
  OBVIOUS
<1>1. ASSUME UNCHANGED commands PROVE Goal
  BY <1>1
<1>2. ASSUME NEW m, Issue(m), c = m => m.op = "decide" \/ New PROVE Goal
  BY <1>2 DEF Issue
<1>3. UNCHANGED vars => UNCHANGED commands
  BY DEF vars, bridgeVars
<1>4. Server => UNCHANGED commands
  BY DEF Server, Request, Refuse, HangUp, Respond, SenderCancels, Notify, StartUpload,
         HangUpUpload, SaveBody, FinalizeFile, bridgeVars
<1>5. Forward => UNCHANGED commands
  BY DEF Forward
<1>6. ASSUME NEW d \in commands, Handle(d) PROVE Goal
  <2>1. commands' = commands \ {d}
    BY <1>6 DEF Handle, RespondPrepareUpload, RespondFileUpload, RejectFileUpload, CancelUploadSession
  <2>2. QED
    BY <1>6, <2>1
<1>7. ASSUME OnPrepareUpload \/ OnSessionEnd \/ OnPrepareUploadAborted \/ ShowRequest
      PROVE  UNCHANGED commands
  BY <1>7 DEF OnPrepareUpload, OnSessionEnd, OnPrepareUploadAborted, ShowRequest, bridgeVars
<1>8. ASSUME OnFileUpload PROVE Goal
  <2>1. PICK j \in Jobs : j = Head(inbox).job /\ Head(inbox) = FileUpload(j)
    BY <1>8, Takes, EventKinds DEF OnFileUpload, Notices
  <2>2. UNCHANGED commands \/ (~Expected(j) /\ Issue(CancelSession(SessionOf(j))))
    BY <1>8, <2>1 DEF OnFileUpload
  <2>3. QED
    BY <1>1, <1>2, <1>8, <2>1, <2>2
<1>9. ASSUME NEW s \in Sessions, SendDecision(s) \/ DelayedClose(s) PROVE Goal
  <2>1. UNCHANGED commands \/ Issue(Decide(s, chosen[s]))
    BY <1>9 DEF SendDecision, DelayedClose, bridgeVars
  <2>2. QED
    BY <1>1, <1>2, <2>1, CommandParts DEF TypeOK, AppType
<1>10. ASSUME NEW j \in Jobs, Continue(j) PROVE Goal
  <2>1. \/ UNCHANGED commands
        \/ Issue(GiveTarget(j)) /\ PrepareSaveTarget(j)
        \/ Issue(RejectUpload(j)) /\ (PrepareSaveTargetFails(j) \/ ReceiveFails(j))
    BY <1>10 DEF Continue, PrepareSaveTarget, PrepareSaveTargetFails, KeepFile, ReceiveFails,
                 RecordHistory, Fail, bridgeVars
  <2>2. QED
    BY <1>1, <1>2, <2>1
<1>11. ASSUME User PROVE Goal
  <2>1. CASE UNCHANGED commands
    BY <1>1, <2>1
  <2>2. CASE DeclineFileRequest
    BY <1>2, <2>2, ShownType, CommandParts DEF DeclineFileRequest
  <2>3. CASE UserCancels
    BY <1>2, <2>3 DEF UserCancels
  <2>4. QED
    BY <1>11, <2>1, <2>2, <2>3 DEF User, AcceptFileRequest, UserCloses, bridgeVars
<1>12. QED
  BY <1>1, <1>3, <1>4, <1>5, <1>6, <1>7, <1>8, <1>9, <1>10, <1>11 DEF Next, Bridge, App, Deliver

\* The bridge gets a responder with the event, and keeps it while it is needed.
LEMMA TargetStep ==
  ASSUME TypeOK, [Next]_vars, NEW j \in Jobs
  PROVE  /\ j \in targets' => j \in targets \/ (Forward /\ Head(events) = FileUpload(j))
         /\ j \in targets /\ up[j] = "asked" /\ up'[j] = "asked" => j \in targets'
<1> DEFINE Goal == /\ j \in targets' => j \in targets \/ (Forward /\ Head(events) = FileUpload(j))
                   /\ j \in targets /\ up[j] = "asked" /\ up'[j] = "asked" => j \in targets'
<1>0. SUFFICES Goal
  OBVIOUS
<1>1. UNCHANGED vars \/ Server \/ App \/ User => UNCHANGED targets
  BY DEF vars, Server, Request, Refuse, HangUp, Respond, SenderCancels, Notify, StartUpload,
         HangUpUpload, SaveBody, FinalizeFile, App, Deliver, OnPrepareUpload, OnFileUpload,
         OnSessionEnd, OnPrepareUploadAborted, ShowRequest, SendDecision, DelayedClose, Continue,
         PrepareSaveTarget, PrepareSaveTargetFails, KeepFile, ReceiveFails, RecordHistory, Fail,
         User, AcceptFileRequest, DeclineFileRequest, UserCloses, UserCancels, bridgeVars
<1>2. ASSUME NEW jobs, Drop(jobs) PROVE Goal
  BY <1>2 DEF Drop
<1>3. ASSUME Forward PROVE Goal
  <2>1. PICK e \in Event : e = Head(events)
    BY <1>3, Forwarded
  <2>2. \/ UNCHANGED targets \/ Drop(OfSession(e.session))
        \/ e.kind = "file" /\ targets' = targets \cup {e.job}
    BY <1>3, <2>1 DEF Forward
  <2>3. QED
    BY <1>2, <1>3, <2>1, <2>2, EventKinds DEF Notices
<1>4. ASSUME NEW c \in commands, Handle(c) PROVE Goal
  <2>1. CASE RespondPrepareUpload(c)
    BY <2>1 DEF RespondPrepareUpload
  <2>2. CASE RespondFileUpload(c)
    BY <2>2 DEF RespondFileUpload, TypeOK, ServerType
  <2>3. CASE RejectFileUpload(c) \/ CancelUploadSession(c)
    BY <1>2, <2>3 DEF RejectFileUpload, CancelUploadSession
  <2>4. QED
    BY <1>4, <2>1, <2>2, <2>3 DEF Handle
<1>5. QED
  BY <1>1, <1>3, <1>4 DEF Next, Bridge

\* An upload is new when it starts.
LEMMA StartsNew ==
  ASSUME TypeOK, Uploading, NEW j \in Jobs, StartUpload(j)
  PROVE  up[j] = "none"
<1>1. UploadingOf(SessionOf(j), FileOf(j))
  BY JobParts DEF Uploading
<1>2. QED
  BY <1>1, JobParts DEF UploadingOf, StartUpload, TypeOK, ServerType

\* A file upload is announced by its start.
LEMMA FileEventStep ==
  ASSUME TypeOK, [Next]_vars, NEW j \in Jobs
  PROVE  LET e == FileUpload(j) IN
         /\ (Piped(e)' => Piped(e) \/ StartUpload(j)) /\ (Sent(e)' => Sent(e) \/ StartUpload(j))
         /\ StartUpload(j) => Piped(e)' /\ Sent(e)'
         /\ Piped(e) => Piped(e)' \/ (OnFileUpload /\ e = Head(inbox))
         /\ Sent(e) => Sent(e)' \/ (Forward /\ e = Head(events))
         /\ Once(Pipe, e) /\ (StartUpload(j) => ~Piped(e)) => Once(Pipe, e)'
<1>1. PICK e \in Event : e = FileUpload(j) /\ e.kind = "file" /\ e.job = j
  BY EventParts
<1>2. Sends(e) <=> StartUpload(j)
  <2>1. ASSUME NEW s \in Sessions, NEW k \in Notices PROVE e # Notice(k, s)
    BY <1>1, EventParts DEF Notices
  <2>2. ASSUME NEW s \in Sessions, Notify(s) PROVE owed[s] \in Notices
    BY <2>2 DEF Notify, TypeOK, ServerType
  <2>3. \A k \in Jobs : e = FileUpload(k) => k = j
    BY <1>1, EventParts
  <2>4. QED
    BY <1>1, <2>1, <2>2, <2>3 DEF Sends, Notices
<1>3. Deliver /\ e = Head(inbox) => OnFileUpload
  BY <1>1 DEF Deliver, OnPrepareUpload, OnSessionEnd, OnPrepareUploadAborted, Take
<1>4. QED
  BY <1>1, <1>2, <1>3, EventStep, EventSent

LEMMA HandledStep ==
  ASSUME TypeOK, Announced, Selected, Uploading, HandledOnce, [Next]_vars
  PROVE  HandledOnce'
<1> SUFFICES ASSUME NEW j \in Jobs PROVE HandledOf(j)'
  BY DEF HandledOnce
<1>1. HandledOf(j) /\ GiveTarget(j) \in Command /\ GiveTarget(j).op # "decide"
  BY CommandParts DEF HandledOnce
<1>2. SessionOf(j) \in Sessions /\ FileOf(j) \in Files
  BY JobParts
<1>3. FileOf(j) \in chosen[SessionOf(j)] => FileOf(j) \in chosen'[SessionOf(j)]
  BY <1>2, ChosenStays
<1>4. Once(Pipe, FileUpload(j))'
  BY <1>1, StartsNew, FileEventStep DEF HandledOf
<1>5. ASSUME NEW c \in Command, c = GiveTarget(j)
      PROVE  c \in commands' => c \in commands \/ PrepareSaveTarget(j)
  BY <1>1, <1>5, CommandStep, CommandParts, JobParts, ShownType DEF UserCancels
<1>6. CASE StartUpload(j)
  <2>1. up[j] = "none" /\ up'[j] = "asked"
    BY <1>6, StartsNew DEF StartUpload, TypeOK, ServerType
  <2>2. UNCHANGED <<saving, commands, targets, result>>
    BY <1>6 DEF StartUpload, appVars
  <2>3. QED
    BY <1>1, <1>4, <2>1, <2>2 DEF HandledOf
<1>7. ASSUME ~StartUpload(j)
      PROVE  /\ Piped(FileUpload(j))' => Piped(FileUpload(j))
             /\ up[j] = "none" => j \notin targets'
  <2>1. Forward /\ Head(events) = FileUpload(j) => Piped(FileUpload(j))
    BY Forwarded, PipeType
  <2>2. QED
    BY <1>1, <1>7, <2>1, FileEventStep, TargetStep DEF HandledOf
<1>8. CASE SaveBody(j) \/ FinalizeFile(j)
  <2>1. UNCHANGED <<saving, commands>>
    BY <1>8 DEF SaveBody, FinalizeFile, bridgeVars, appVars
  <2>2. /\ up[j] # "none" /\ up'[j] \in {"ending", "over"}
        /\ \/ result'[j] = result[j] /\ up[j] # "saving"
           \/ up[j] = "saving" /\ result'[j] \in {"saved", "failed"}
    BY <1>8 DEF SaveBody, FinalizeFile, TypeOK, ServerType
  <2>3. ~StartUpload(j)
    BY <1>8 DEF SaveBody, FinalizeFile, StartUpload, TypeOK, ServerType
  <2>4. QED
    BY <1>1, <1>3, <1>4, <1>7, <2>1, <2>2, <2>3 DEF HandledOf
<1>9. CASE GiveTarget(j) \in commands /\ RespondFileUpload(GiveTarget(j))
  <2>1. UNCHANGED saving /\ GiveTarget(j) \notin commands' /\ GiveTarget(j) \in commands
    BY <1>9 DEF RespondFileUpload, appVars
  <2>2. \/ up[j] = "asked" /\ up'[j] = "saving" /\ result'[j] = result[j]
        \/ up'[j] = up[j] /\ result'[j] = "failed"
    BY <1>9, CommandParts DEF RespondFileUpload, TypeOK, ServerType
  <2>3. ~StartUpload(j)
    BY <1>9 DEF StartUpload, RespondFileUpload
  <2>4. QED
    BY <1>1, <1>3, <1>4, <1>7, <2>1, <2>2, <2>3 DEF HandledOf
<1>10. ASSUME ~StartUpload(j), result'[j] = result[j],
              up'[j] = up[j] \/ (up[j] = "asked" /\ up'[j] = "ending"),
              GiveTarget(j) \notin commands \/ ~RespondFileUpload(GiveTarget(j))
       PROVE  HandledOf(j)'
  <2>1. GiveTarget(j) \in commands => GiveTarget(j) \in commands'
    <3>1. Handle(GiveTarget(j)) => RespondFileUpload(GiveTarget(j))
      BY CommandParts DEF Handle, RespondPrepareUpload, RejectFileUpload, CancelUploadSession
    <3>2. PICK c \in Command : c = GiveTarget(j)
      BY <1>1
    <3>3. QED
      BY <1>1, <1>10, <3>1, <3>2, CommandStep
  <2>2. CASE PrepareSaveTarget(j)
    <3>1. saving[j] = "preparing" /\ saving'[j] = "receiving" /\ GiveTarget(j) \in commands'
      BY <2>2 DEF PrepareSaveTarget, Issue, TypeOK, AppType
    <3>2. QED
      BY <1>1, <1>3, <1>4, <1>7, <1>10, <3>1 DEF HandledOf
  <2>3. ASSUME ~PrepareSaveTarget(j) PROVE GiveTarget(j) \in commands' <=> GiveTarget(j) \in commands
    <3>1. PICK c \in Command : c = GiveTarget(j)
      BY <1>1
    <3>2. QED
      BY <1>5, <2>1, <2>3, <3>1
  <2>4. CASE saving'[j] = saving[j] /\ ~PrepareSaveTarget(j)
    BY <1>1, <1>3, <1>4, <1>7, <1>10, <2>3, <2>4 DEF HandledOf
  <2>5. CASE /\ OnFileUpload /\ Head(inbox) = FileUpload(j) /\ Expected(j)
             /\ saving'[j] = "preparing" /\ ~PrepareSaveTarget(j)
    <3>1. Piped(FileUpload(j)) /\ ~Piped(FileUpload(j))'
      BY <1>1, <2>5, EventTaken DEF Deliver, HandledOf
    <3>2. FileOf(j) \in chosen[SessionOf(j)]
      BY <2>5 DEF Expected
    <3>3. QED
      BY <1>1, <1>3, <1>4, <1>7, <1>10, <2>3, <2>5, <3>1, <3>2 DEF HandledOf
  <2>6. CASE /\ PrepareSaveTargetFails(j) \/ ReceiveFails(j) \/ KeepFile(j) \/ RecordHistory(j)
             /\ ~PrepareSaveTarget(j)
    <3>1. /\ saving[j] \in {"preparing", "receiving", "recording"} /\ saving'[j] \in {"recording", "over"}
          /\ saving[j] = "receiving" => result[j] # "none"
      BY <2>6 DEF PrepareSaveTargetFails, ReceiveFails, KeepFile, RecordHistory, Fail, TypeOK, AppType
    <3>2. QED
      BY <1>1, <1>3, <1>4, <1>7, <1>10, <2>3, <2>6, <3>1 DEF HandledOf
  <2>7. QED
    BY <2>2, <2>4, <2>5, <2>6, SavingStep
<1>11. QED
  BY <1>6, <1>8, <1>9, <1>10, UploadStep

-----------------------------------------------------------------------------
(* What the app shows as received was written *)

\* What became of a file of the session shown.
FileMoves(f) ==
  \/ session'.files[f] = session.files[f]
  \/ \E j \in Jobs : /\ FileOf(j) = f
                     /\ \/ /\ OnFileUpload /\ Head(inbox) = FileUpload(j) /\ Expected(j)
                           /\ session'.files[f] = "sending"
                        \/ /\ PrepareSaveTargetFails(j) \/ ReceiveFails(j)
                           /\ session'.files[f] = "failed"
                        \/ KeepFile(j) /\ session'.files[f] = "finished"

LEMMA WithFileElems ==
  ASSUME NEW s \in Sessions, NEW v \in Views(s), NEW f, NEW st
  PROVE  /\ WithFile(v, f, st).id = s /\ WithFile(v, f, st).status = v.status
         /\ \A g \in offer[s] : WithFile(v, f, st).files[g] = IF g = f THEN st ELSE v.files[g]
  BY DEF WithFile, Views

LEMMA ConcludedElems ==
  ASSUME NEW s \in Sessions, NEW v \in Views(s)
  PROVE  Concluded(v).id = s /\ Concluded(v).files = v.files
  BY DEF Concluded, Views

LEMMA FilesStep ==
  ASSUME TypeOK, [Next]_vars, Shown'
  PROVE  \/ ShowRequest
         \/ \E selected \in SUBSET Files : AcceptFileRequest(selected)
         \/ /\ Shown /\ session'.id = session.id
            /\ \A f \in offer[session.id] : FileMoves(f)
<1> DEFINE Goal == /\ Shown /\ session'.id = session.id
                   /\ \A f \in offer[session.id] : FileMoves(f)
<1>1. ASSUME UNCHANGED session PROVE Goal
  BY <1>1 DEF Shown, FileMoves
<1>2. CASE UNCHANGED vars
  BY <1>1, <1>2 DEF vars, appVars
<1>3. ASSUME Server PROVE Goal
  BY <1>1, <1>3 DEF Server, Request, Refuse, HangUp, Respond, SenderCancels, Notify, StartUpload,
                    HangUpUpload, SaveBody, FinalizeFile, appVars
<1>4. ASSUME Bridge PROVE Goal
  BY <1>1, <1>4 DEF Bridge, Forward, Handle, RespondPrepareUpload, RespondFileUpload,
                    RejectFileUpload, CancelUploadSession, appVars
<1>5. ASSUME CloseShown PROVE FALSE
  BY <1>5 DEF CloseShown, Shown
<1>6. ASSUME OnFileUpload PROVE Goal
  <2>1. PICK j \in Jobs : j = Head(inbox).job /\ Head(inbox) = FileUpload(j)
    BY <1>6, Takes, EventKinds DEF OnFileUpload, Notices
  <2>2. CASE Expected(j)
    <3>1. PICK s \in Sessions : s = session.id /\ session \in Views(s)
      BY <2>2, ShownType DEF Expected
    <3>2. PICK v : v = WithFile(session, FileOf(j), "sending")
      OBVIOUS
    <3>3. v \in Views(s) /\ session' = [v EXCEPT !.status = "sending"]
      BY <1>6, <2>1, <2>2, <3>1, <3>2, ShownType, ViewChanges, JobParts DEF OnFileUpload, Expected, FileStatus
    <3>4. session'.id = s /\ session'.files = v.files
      BY <3>3 DEF Views
    <3>5. \A f \in offer[s] : session'.files[f] = IF f = FileOf(j) THEN "sending" ELSE session.files[f]
      BY <3>1, <3>2, <3>4, WithFileElems
    <3>6. QED
      BY <1>6, <2>1, <2>2, <3>1, <3>4, <3>5 DEF Expected, FileMoves
  <2>3. CASE ~Expected(j)
    BY <1>1, <1>6, <2>1, <2>3 DEF OnFileUpload
  <2>4. QED
    BY <2>2, <2>3
<1>7. ASSUME OnSessionEnd \/ OnPrepareUploadAborted PROVE Goal
  <2>1. session' = session \/ (session.id \in Sessions /\ CancelBySender)
    BY <1>7, Takes DEF OnSessionEnd, OnPrepareUploadAborted, Ended
  <2>2. ASSUME session.id \in Sessions, CancelBySender PROVE Goal
    <3>1. session'.id = session.id /\ session'.files = session.files
      BY <2>2, IdShown, ShownType DEF CancelBySender, Views
    <3>2. QED
      BY <2>2, <3>1, IdShown DEF FileMoves
  <2>3. QED
    BY <1>1, <2>1, <2>2
<1>8. ASSUME NEW s \in Sessions, SendDecision(s) \/ DelayedClose(s) PROVE Goal
  BY <1>1, <1>5, <1>8 DEF SendDecision, DelayedClose
<1>9. ASSUME NEW j \in Jobs, PrepareSaveTargetFails(j) \/ ReceiveFails(j) PROVE Goal
  <2>1. CASE UNCHANGED session
    BY <1>1, <2>1
  <2>2. CASE Conclude(IF Shown THEN WithFile(session, FileOf(j), "failed") ELSE session)
    <3>1. Shown
      BY <2>2 DEF Conclude, Concluded, Shown
    <3>2. PICK s \in Sessions : s = session.id /\ session \in Views(s)
      BY <3>1, ShownType
    <3>3. PICK v : v = WithFile(session, FileOf(j), "failed")
      OBVIOUS
    <3>4. v \in Views(s) /\ session' = Concluded(v)
      BY <2>2, <3>1, <3>2, <3>3, ShownType, ViewChanges, JobParts DEF Conclude, FileStatus
    <3>5. session'.id = s /\ session'.files = v.files
      BY <3>4, ConcludedElems
    <3>6. \A f \in offer[s] : session'.files[f] = IF f = FileOf(j) THEN "failed" ELSE session.files[f]
      BY <3>2, <3>3, <3>5, WithFileElems
    <3>7. QED
      BY <1>9, <3>1, <3>2, <3>5, <3>6 DEF FileMoves
  <2>3. QED
    BY <1>9, <2>1, <2>2 DEF PrepareSaveTargetFails, ReceiveFails, Fail
<1>10. ASSUME NEW j \in Jobs, KeepFile(j) PROVE Goal
  <2>1. CASE Shown /\ session' = WithFile(session, FileOf(j), "finished")
    <3>1. PICK s \in Sessions : s = session.id /\ session \in Views(s)
      BY <2>1, ShownType
    <3>2. /\ session'.id = s
          /\ \A f \in offer[s] : session'.files[f] = IF f = FileOf(j) THEN "finished" ELSE session.files[f]
      BY <2>1, <3>1, WithFileElems
    <3>3. QED
      BY <1>10, <2>1, <3>1, <3>2 DEF FileMoves
  <2>2. QED
    BY <1>1, <1>10, <2>1 DEF KeepFile
<1>11. ASSUME NEW j \in Jobs, Continue(j) PROVE Goal
  <2>1. CASE PrepareSaveTarget(j)
    BY <1>1, <2>1 DEF PrepareSaveTarget
  <2>2. CASE RecordHistory(j)
    <3>1. Shown
      BY <2>2 DEF RecordHistory, Conclude, Concluded, Shown
    <3>2. session'.id = session.id /\ session'.files = session.files
      BY <2>2, <3>1, ShownType, ConcludedElems DEF RecordHistory, Conclude, Views
    <3>3. QED
      BY <3>1, <3>2 DEF FileMoves
  <2>3. QED
    BY <1>9, <1>10, <1>11, <2>1, <2>2 DEF Continue
<1>12. QED
  BY <1>2, <1>3, <1>4, <1>5, <1>6, <1>7, <1>8, <1>11
     DEF Next, App, Deliver, User, OnPrepareUpload, DeclineFileRequest, UserCloses, UserCancels

\* A file shown as received was written for some session that offered it.
Saved(f) == \E j \in Jobs : FileOf(j) = f /\ f \in offer[SessionOf(j)] /\ result[j] = "saved"
Written == Shown => \A f \in offer[session.id] : session.files[f] = "finished" => Saved(f)

LEMMA SavedStays ==
  ASSUME TypeOK, Announced, Selected, HandledOnce, [Next]_vars, NEW f, Saved(f)
  PROVE  Saved(f)'
<1>1. PICK j \in Jobs : FileOf(j) = f /\ f \in offer[SessionOf(j)] /\ result[j] = "saved"
  BY DEF Saved
<1>2. f \in offer'[SessionOf(j)]
  BY <1>1, ComingStep, JobParts DEF Announced
<1>3. result'[j] = "saved"
  BY <1>1, UploadStep DEF HandledOnce, HandledOf, StartUpload, SaveBody, FinalizeFile
<1>4. QED
  BY <1>1, <1>2, <1>3 DEF Saved

LEMMA WrittenStep ==
  ASSUME TypeOK, Announced, Selected, HandledOnce, Written, [Next]_vars
  PROVE  Written'
<1> SUFFICES ASSUME Shown', NEW f \in offer'[session'.id], session'.files[f] = "finished"
             PROVE  Saved(f)'
  BY DEF Written
<1>1. ASSUME Shown, session'.id = session.id, \A g \in offer[session.id] : FileMoves(g)
      PROVE  Saved(f)'
  <2>1. session.id \in Sessions /\ Passed(session.id)
    BY <1>1, ShownType DEF Selected, ShownPassed
  <2>2. f \in offer[session.id]
    BY <1>1, <2>1, ComingStep DEF Passed
  <2>3. CASE session.files[f] = "finished"
    BY <1>1, <2>2, <2>3, SavedStays DEF Written
  <2>4. ASSUME NEW j \in Jobs, FileOf(j) = f, KeepFile(j) PROVE Saved(f)'
    <3>1. result[j] = "saved" /\ saving[j] = "receiving"
      BY <2>4 DEF KeepFile
    <3>2. f \in chosen[SessionOf(j)] /\ SessionOf(j) \in Sessions
      BY <2>4, <3>1, JobParts DEF HandledOnce, HandledOf
    <3>3. Saved(f)
      BY <2>4, <3>1, <3>2 DEF Saved, Selected
    <3>4. QED
      BY <3>3, SavedStays
  <2>5. QED
    BY <1>1, <2>2, <2>3, <2>4 DEF FileMoves
<1>2. CASE ShowRequest
  <2>1. PICK s \in Sessions : s = Head(lookups) /\ offer' = offer
    BY <1>2, ShowsComing DEF ShowRequest, serverVars
  <2>2. session' = NewSession(s) \/ session' = Accepted(NewSession(s), offer[s])
    BY <1>2, <2>1 DEF ShowRequest
  <2>3. session'.id = s
    BY <1>2, <2>1, ShowsComing
  <2>4. f \in offer[s]
    BY <2>1, <2>3
  <2>5. NewSession(s).files[f] = "queue" /\ f \in DOMAIN NewSession(s).files
    BY <2>4 DEF NewSession
  <2>6. Accepted(NewSession(s), offer[s]).files[f] = "queue"
    BY <2>4, <2>5, NewView DEF Accepted, Views
  <2>7. QED
    BY <2>2, <2>5, <2>6
<1>3. ASSUME NEW selected \in SUBSET Files, AcceptFileRequest(selected) PROVE FALSE
  <2>1. session \in Views(session.id) /\ session' = Accepted(session, selected) /\ offer' = offer
    BY <1>3, ShownType DEF AcceptFileRequest, serverVars
  <2>2. session'.id = session.id /\ session'.files[f] \in {"queue", "skipped"}
    BY <2>1 DEF Accepted, Views
  <2>3. QED
    BY <2>2
<1>4. QED
  BY <1>1, <1>2, <1>3, FilesStep

-----------------------------------------------------------------------------
(* Notices, responders and the request announced last *)

\* The phase of a request, the slot and the notice owed.
LEMMA PhaseStep ==
  ASSUME TypeOK, Holders, [Next]_vars, NEW s \in Sessions
  PROVE  /\ pc[s] = "over" => pc'[s] = "over"
         /\ pc[s] = "opened" => pc'[s] = "opened"
         /\ pc'[s] = "waiting" => pc[s] = "waiting" \/ Request(s)
         /\ pc[s] # pc'[s] => pc[s] \in {"new", "waiting"}
         /\ slot' = s => slot = s \/ pc[s] = "waiting"
<1> USE SlotNames
<1>1. ASSUME NEW t \in Sessions, Request(t) \/ Refuse(t) \/ HangUp(t) \/ Respond(t)
      PROVE  /\ pc[s] = "over" => pc'[s] = "over"
             /\ pc[s] = "opened" => pc'[s] = "opened"
             /\ pc'[s] = "waiting" => pc[s] = "waiting" \/ Request(s)
             /\ pc[s] # pc'[s] => pc[s] \in {"new", "waiting"}
             /\ slot' = s => slot = s \/ pc[s] = "waiting"
  BY <1>1 DEF Request, Refuse, HangUp, Respond, Vacate, TypeOK, ServerType
<1>2. ASSUME NEW j \in Jobs, StartUpload(j) \/ FinalizeFile(j) PROVE slot' = s => slot = s
  BY <1>2 DEF StartUpload, FinalizeFile, Vacate
<1>3. QED
  BY <1>1, <1>2, SlotStep DEF Vacate

LEMMA OwedStep ==
  ASSUME TypeOK, [Next]_vars, NEW s \in Sessions
  PROVE  \/ owed'[s] = owed[s]
         \/ Notify(s) /\ owed'[s] = "none"
         \/ HangUp(s) /\ owed'[s] = "aborted"
         \/ slot = s /\ slot' = "free" /\ owed'[s] \in {"finished", "cancelled"}
<1>1. UNCHANGED vars \/ Bridge \/ App \/ User => UNCHANGED owed
  BY DEF vars, Bridge, Forward, Handle, RespondPrepareUpload, RespondFileUpload, RejectFileUpload,
         CancelUploadSession, App, Deliver, OnPrepareUpload, OnFileUpload, OnSessionEnd,
         OnPrepareUploadAborted, ShowRequest, SendDecision, DelayedClose, Continue,
         PrepareSaveTarget, PrepareSaveTargetFails, KeepFile, ReceiveFails, RecordHistory, Fail,
         User, AcceptFileRequest, DeclineFileRequest, UserCloses, UserCancels, serverVars
<1>2. ASSUME NEW t \in Sessions,
             Request(t) \/ Refuse(t) \/ HangUp(t) \/ Respond(t) \/ SenderCancels(t) \/ Notify(t)
      PROVE  \/ owed'[s] = owed[s]
             \/ Notify(s) /\ owed'[s] = "none"
             \/ HangUp(s) /\ owed'[s] = "aborted"
             \/ slot = s /\ slot' = "free" /\ owed'[s] \in {"finished", "cancelled"}
  BY <1>2 DEF Request, Refuse, HangUp, Respond, SenderCancels, Notify, Vacate, TypeOK, ServerType
<1>3. ASSUME NEW j \in Jobs, StartUpload(j) \/ HangUpUpload(j) \/ SaveBody(j) \/ FinalizeFile(j)
      PROVE  \/ owed'[s] = owed[s]
             \/ slot = s /\ slot' = "free" /\ owed'[s] \in {"finished", "cancelled"}
  BY <1>3 DEF StartUpload, HangUpUpload, SaveBody, FinalizeFile, Vacate, TypeOK, ServerType
<1>4. QED
  BY <1>1, <1>2, <1>3 DEF Next, Server

\* A notice is sent by who owes it, or by the request that replaces a session.
LEMMA NoticeSent ==
  ASSUME TypeOK, NEW k \in Notices, NEW s \in Sessions
  PROVE  Sends(Notice(k, s)) <=>
           \/ Notify(s) /\ owed[s] = k
           \/ k = "cancelled" /\ slot = s /\ \E t \in Sessions : Request(t)
<1>1. PICK e \in Event : e = Notice(k, s) /\ e.kind = k /\ e.session = s
  BY EventParts
<1>2. \A j \in Jobs : e # FileUpload(j)
  BY <1>1, EventParts DEF Notices
<1>3. ASSUME NEW t \in Sessions, Notify(t) PROVE e = Notice(owed[t], t) <=> t = s /\ owed[s] = k
  <2>1. owed[t] \in Notices
    BY <1>3 DEF Notify, TypeOK, ServerType
  <2>2. QED
    BY <1>1, <2>1, EventParts
<1>4. \A t \in Sessions : e = Notice("cancelled", t) <=> k = "cancelled" /\ t = s
  BY <1>1, EventParts DEF Notices
<1>5. QED
  BY <1>1, <1>2, <1>3, <1>4 DEF Sends

\* A notice is owed, or on its way, only of what is over.
NotifiedOf(s) ==
  /\ owed[s] = "aborted" \/ Piped(Notice("aborted", s)) => pc[s] = "over"
  /\ owed[s] \in {"cancelled", "finished"} \/ Piped(Notice("cancelled", s))
       => pc[s] = "opened" /\ slot # s
Notified == \A s \in Sessions : NotifiedOf(s)

LEMMA NotifiedStep ==
  ASSUME TypeOK, Holders, Notified, [Next]_vars
  PROVE  Notified'
<1> USE SlotNames
<1> SUFFICES ASSUME NEW s \in Sessions PROVE NotifiedOf(s)'
  BY DEF Notified
<1>1. NotifiedOf(s)
  BY DEF Notified
<1>2. ASSUME NEW k \in Notices, Piped(Notice(k, s))'
      PROVE  \/ Piped(Notice(k, s)) \/ owed[s] = k
             \/ k = "cancelled" /\ slot = s /\ \E t \in Sessions : Request(t)
  <2>1. PICK e \in Event : e = Notice(k, s) /\ e.kind # "prepare"
    BY EventParts DEF Notices
  <2>2. Piped(e) \/ Sends(e)
    BY <1>2, <2>1, EventStep
  <2>3. QED
    BY <2>1, <2>2, NoticeSent
<1>3. ASSUME owed'[s] = "aborted" \/ Piped(Notice("aborted", s))' PROVE pc'[s] = "over"
  <2>1. HangUp(s) => pc'[s] = "over"
    BY DEF HangUp, TypeOK, ServerType
  <2>2. owed'[s] = "aborted" => owed[s] = "aborted" \/ HangUp(s)
    BY OwedStep
  <2>3. QED
    BY <1>1, <1>2, <1>3, <2>1, <2>2, PhaseStep DEF NotifiedOf, Notices
<1>4. ASSUME owed'[s] \in {"cancelled", "finished"} \/ Piped(Notice("cancelled", s))'
      PROVE  pc'[s] = "opened" /\ slot' # s
  <2>1. CASE owed[s] \in {"cancelled", "finished"} \/ Piped(Notice("cancelled", s))
    BY <1>1, <2>1, PhaseStep DEF NotifiedOf
  <2>2. CASE slot = s /\ slot' = "free"
    BY <2>2, PhaseStep DEF Holders
  <2>3. CASE slot = s /\ \E t \in Sessions : Request(t)
    <3>1. slot' = "pending"
      BY <2>3 DEF Request
    <3>2. QED
      BY <2>3, <3>1, PhaseStep DEF Holders
  <2>4. QED
    BY <1>2, <1>4, <2>1, <2>2, <2>3, OwedStep DEF Notices
<1>5. QED
  BY <1>3, <1>4 DEF NotifiedOf

LEMMA PrepareSent ==
  ASSUME TypeOK, [Next]_vars, NEW s \in Sessions
  PROVE  /\ Sent(Prepare(s))' => Sent(Prepare(s)) \/ Request(s)
         /\ Request(s) => Sent(Prepare(s))' /\ Piped(Prepare(s))'
         /\ Sent(Prepare(s)) => Sent(Prepare(s))' \/ (Forward /\ Prepare(s) = Head(events))
<1> DEFINE Goal == /\ Sent(Prepare(s))' => Sent(Prepare(s)) \/ Request(s)
                   /\ Sent(Prepare(s)) => Sent(Prepare(s))' \/ (Forward /\ Prepare(s) = Head(events))
<1>1. PICK e \in Event : e = Prepare(s) /\ e.kind = "prepare"
  BY EventParts
<1>2. ASSUME NEW t \in Sessions, Request(t) PROVE Goal /\ (t = s => Sent(e)' /\ Piped(e)')
  <2>1. slot # "free" => e # Notice("cancelled", slot)
    BY <1>1, <1>2, RequestReplaces, EventParts DEF Notices
  <2>2. e = Prepare(t) <=> t = s
    BY <1>1, EventParts
  <2>3. (Sent(e)' <=> Sent(e) \/ t = s) /\ (t = s => Piped(e)')
    BY <1>2, <2>1, <2>2, Requested
  <2>4. QED
    BY <1>1, <1>2, <2>3
<1>3. ASSUME NEW m \in Event, m.kind # "prepare", events' = Append(events, m), UNCHANGED inbox PROVE Goal
  BY <1>1, <1>3, Emitted
<1>4. ASSUME UNCHANGED <<events, inbox>> PROVE Goal
  BY <1>4, Undisturbed
<1>5. Forward => Goal
  BY <1>1, Forwarded
<1>6. Deliver => Goal
  BY <1>1, Delivered, Taken
<1>7. ASSUME NEW t \in Sessions, Notify(t) PROVE Goal
  <2>1. owed[t] \in Notices
    BY <1>7 DEF Notify, TypeOK, ServerType
  <2>2. PICK m \in Event : m = Notice(owed[t], t) /\ m.kind # "prepare"
    BY <2>1, EventParts DEF Notices
  <2>3. QED
    BY <1>3, <1>7, <2>2 DEF Notify
<1>8. ASSUME NEW j \in Jobs, StartUpload(j) PROVE Goal
  BY <1>3, <1>8, EventParts DEF StartUpload
<1>9. QED
  BY <1>1, <1>2, <1>4, <1>5, <1>6, <1>7, <1>8, PipeMoves

\* What happens to the responder of the pending decision.
LEMMA ResponderStep ==
  ASSUME TypeOK, [Next]_vars
  PROVE  \/ UNCHANGED decision
         \/ Forward /\ \E s \in Sessions : decision' = s /\ Head(events) = Prepare(s)
         \/ Forward /\ decision' = "none" /\ decision \in Sessions /\ Head(events) = Notice("aborted", decision)
         \/ decision' = "none" /\ UNCHANGED <<events, inbox, pc>>
              /\ (decision \in Sessions /\ pc[decision] = "waiting" => verdict'[decision].from \in Sessions)
<1>1. UNCHANGED vars \/ Server \/ App \/ User => UNCHANGED decision
  BY DEF vars, Server, Request, Refuse, HangUp, Respond, SenderCancels, Notify, StartUpload,
         HangUpUpload, SaveBody, FinalizeFile, App, Deliver, OnPrepareUpload, OnFileUpload,
         OnSessionEnd, OnPrepareUploadAborted, ShowRequest, SendDecision, DelayedClose, Continue,
         PrepareSaveTarget, PrepareSaveTargetFails, KeepFile, ReceiveFails, RecordHistory, Fail,
         User, AcceptFileRequest, DeclineFileRequest, UserCloses, UserCancels, bridgeVars
<1>2. CASE Forward
  <2>1. PICK e \in Event : e = Head(events)
    BY <1>2, Forwarded
  <2>2. e.kind = "prepare" => decision' = e.session
    BY <1>2, <2>1 DEF Forward
  <2>3. e.kind = "aborted" => decision' = decision \/ (decision = e.session /\ decision' = "none")
    BY <1>2, <2>1 DEF Forward, DecisionAfterAbort
  <2>4. e.kind \notin {"prepare", "aborted"} => UNCHANGED decision
    BY <1>2, <2>1 DEF Forward
  <2>5. QED
    BY <1>2, <2>1, <2>2, <2>3, <2>4, EventKinds DEF Notices
<1>3. ASSUME NEW c \in commands, RespondPrepareUpload(c)
      PROVE  decision' = "none" /\ UNCHANGED <<events, inbox, pc>>
              /\ (decision \in Sessions /\ pc[decision] = "waiting" => verdict'[decision].from \in Sessions)
  BY <1>3, CommandKinds DEF RespondPrepareUpload, TypeOK, BridgeType, ServerType
<1>4. ASSUME NEW c \in commands, RespondFileUpload(c) \/ RejectFileUpload(c) \/ CancelUploadSession(c)
      PROVE  UNCHANGED decision
  BY <1>4 DEF RespondFileUpload, RejectFileUpload, CancelUploadSession
<1>5. QED
  BY <1>1, <1>2, <1>3, <1>4 DEF Next, Bridge, Handle

\* A responder is the one of the request announced last, until it is used.
ResponderOf(s) ==
  /\ decision = s => ~Sent(Prepare(s)) /\ pc[s] # "new"
  /\ verdict[s].from # "none" => pc[s] # "new" /\ decision # s /\ ~Sent(Prepare(s))
Responder == \A s \in Sessions : ResponderOf(s)

LEMMA ResponderKept ==
  ASSUME TypeOK, Announced, Responder, [Next]_vars
  PROVE  Responder'
<1> USE SlotNames
<1> SUFFICES ASSUME NEW s \in Sessions PROVE ResponderOf(s)'
  BY DEF Responder
<1>1. ResponderOf(s)
  BY DEF Responder
<1>2. pc[s] # "new" => pc'[s] # "new" /\ (Sent(Prepare(s))' => Sent(Prepare(s)))
  BY ComingStep, PrepareSent DEF Request
<1>3. Sent(Prepare(s)) => pc[s] # "new" /\ Once(Pipe, Prepare(s))
  BY PipeType DEF Announced, Coming
<1>4. ASSUME decision' = s, decision # s
      PROVE  Sent(Prepare(s)) /\ ~Sent(Prepare(s))' /\ pc'[s] # "new" /\ UNCHANGED verdict
  <2>1. Forward /\ Head(events) = Prepare(s)
    BY <1>4, ResponderStep
  <2>2. PICK e \in Event : e = Prepare(s)
    BY EventParts
  <2>3. Sent(e) /\ (Once(Pipe, e) => ~Sent(e)')
    BY <2>1, <2>2, Forwarded
  <2>4. QED
    BY <1>2, <1>3, <2>1, <2>2, <2>3 DEF Forward
<1>5. CASE verdict'[s] = verdict[s]
  BY <1>1, <1>2, <1>4, <1>5 DEF ResponderOf
<1>6. CASE verdict'[s] # verdict[s]
  <2>1. decision = s /\ decision' = "none"
    BY <1>6, DecisionStep DEF TypeOK, ServerType
  <2>2. QED
    BY <1>1, <1>2, <2>1 DEF ResponderOf
<1>7. QED
  BY <1>5, <1>6

\* The request that waits, or whose session is active, was announced last.
Latest(s) == pc[s] = "waiting" \/ slot = s
Others(s) == {Prepare(t) : t \in Sessions \ {s}}
LastCallOf(s) ==
  /\ FollowedBy(Pipe, Others(s), Prepare(s))
  /\ Piped(Prepare(s)) \/ FollowedBy(lookups, Sessions \ {s}, s)
  /\ session.id \in Sessions \ {s} => ~Passed(s)
LastCall == \A s \in Sessions : Latest(s) => LastCallOf(s)

LEMMA LastCallStep ==
  ASSUME TypeOK, Announced, Holders, LastCall, [Next]_vars
  PROVE  LastCall'
<1> USE SlotNames
<1> SUFFICES ASSUME NEW s \in Sessions, Latest(s)' PROVE LastCallOf(s)'
  BY DEF LastCall
<1>0. PICK X : X = Others(s)
  OBVIOUS
<1>x. X' = X /\ \A e : e \in X <=> \E t \in Sessions \ {s} : e = Prepare(t)
  BY <1>0 DEF Others
<1>1. CASE Request(s)
  <2>1. Piped(Prepare(s))' /\ ~Passed(s)'
    BY <1>1, PrepareSent DEF Passed, Coming
  <2>2. \A e \in X : e # Prepare(s) /\ ~(slot # "free" /\ e = Notice("cancelled", slot))
    BY <1>1, <1>x, RequestReplaces, EventParts DEF Notices
  <2>3. FollowedBy(Pipe, X, Prepare(s))'
    BY <1>1, <1>x, <2>2, Requested
  <2>4. QED
    BY <1>0, <1>x, <2>1, <2>3 DEF LastCallOf, Others
<1>2. ASSUME ~Request(s) PROVE Latest(s) /\ \A t \in Sessions : ~Request(t)
  <2>1. Latest(s)
    BY <1>2, PhaseStep DEF Latest
  <2>2. ASSUME NEW t \in Sessions, Request(t) PROVE FALSE
    <3>1. slot # "pending" /\ slot' = "pending" /\ t # s
      BY <1>2, <2>2, RequestReplaces DEF Request
    <3>2. pc'[s] = "waiting"
      BY <3>1 DEF Latest
    <3>3. QED
      BY <1>2, <3>1, <3>2, PhaseStep DEF Holders
  <2>3. QED
    BY <2>1, <2>2
<1>3. ASSUME ~Request(s) PROVE LastCallOf(s) /\ pc[s] # "new"
  BY <1>2, <1>3 DEF LastCall, Latest, Holders
<1>4. ASSUME ~Request(s) PROVE FollowedBy(Pipe, Others(s), Prepare(s))'
  <2>1. FollowedBy(Pipe, X, Prepare(s))
    BY <1>0, <1>3, <1>4 DEF LastCallOf
  <2>2. ASSUME NEW m \in Event, m.kind # "prepare", events' = Append(events, m), UNCHANGED inbox
        PROVE  FollowedBy(Pipe, X, Prepare(s))'
    <3>1. m \notin X
      BY <1>x, <2>2, EventParts
    <3>2. QED
      BY <1>x, <2>1, <2>2, <3>1, Emitted
  <2>3. ASSUME Pipe' = Pipe PROVE FollowedBy(Pipe, X, Prepare(s))'
    BY <1>x, <2>1, <2>3 DEF FollowedBy
  <2>4. ASSUME NEW k, Take(k), UNCHANGED events PROVE FollowedBy(Pipe, X, Prepare(s))'
    BY <2>1, <2>4, Taken
  <2>5. FollowedBy(Pipe, X, Prepare(s))'
    <3>1. OnPrepareUpload => Take("prepare") /\ UNCHANGED events
      BY DEF OnPrepareUpload
    <3>2. ShowRequest => Pipe' = Pipe
      BY DEF ShowRequest, bridgeVars, Pipe
    <3>3. QED
      BY <1>2, <1>4, <2>2, <2>3, <2>4, <3>1, <3>2, FlowStep DEF Still
  <2>6. QED
    BY <1>0, <1>x, <2>5 DEF Others
<1>5. ASSUME ~Request(s)
      PROVE  Piped(Prepare(s))' \/ FollowedBy(lookups, Sessions \ {s}, s)'
  <2>1. PICK e \in Event : e = Prepare(s) /\ e.kind = "prepare"
    BY EventParts
  <2>2. Piped(e) \/ FollowedBy(lookups, Sessions \ {s}, s)
    BY <1>3, <1>5, <2>1 DEF LastCallOf
  <2>3. ASSUME (Piped(e)' <=> Piped(e)), UNCHANGED lookups
        PROVE  Piped(e)' \/ FollowedBy(lookups, Sessions \ {s}, s)'
    BY <2>2, <2>3 DEF FollowedBy
  <2>4. ASSUME NEW m \in Event, m.kind # "prepare", events' = Append(events, m), UNCHANGED inbox
        PROVE  Piped(e)' <=> Piped(e)
    BY <2>1, <2>4, Emitted
  <2>5. CASE Still
    BY <2>1, <2>3, <2>5 DEF Still
  <2>6. ASSUME NEW k, k # "prepare", Take(k), UNCHANGED <<events, lookups>>
        PROVE  Piped(e)' \/ FollowedBy(lookups, Sessions \ {s}, s)'
    <3>1. Piped(e)' <=> Piped(e)
      BY <2>1, <2>6, Taken
    <3>2. QED
      BY <2>3, <2>6, <3>1
  <2>7. CASE OnPrepareUpload
    <3>1. PICK t \in Sessions : t = Current /\ Head(inbox) = Prepare(t)
      BY <2>7, Takes, EventKinds DEF OnPrepareUpload, Current, Notices
    <3>2. Take("prepare") /\ UNCHANGED events /\ lookups' = Append(lookups, t)
      BY <2>7, <3>1 DEF OnPrepareUpload
    <3>3. CASE t = s
      BY <3>2, <3>3, Appended DEF TypeOK, AppType
    <3>4. CASE t # s
      <4>1. Head(inbox) \in X /\ FollowedBy(Pipe, X, e)
        BY <1>0, <1>x, <1>3, <1>5, <2>1, <3>1, <3>4 DEF LastCallOf
      <4>2. Piped(e)'
        BY <3>2, <4>1, Taken
      <4>3. QED
        BY <2>1, <4>2
    <3>5. QED
      BY <3>3, <3>4
  <2>8. CASE ShowRequest
    <3>1. lookups # <<>> /\ lookups' = Tail(lookups) /\ UNCHANGED <<events, inbox>>
      BY <2>8 DEF ShowRequest, bridgeVars
    <3>2. Piped(e)' <=> Piped(e)
      BY <3>1, Undisturbed
    <3>3. FollowedBy(lookups, Sessions \ {s}, s) => FollowedBy(lookups, Sessions \ {s}, s)'
      BY <3>1, HeadTaken DEF TypeOK, AppType
    <3>4. QED
      BY <2>1, <2>2, <3>2, <3>3
  <2>9. QED
    BY <1>2, <1>5, <2>1, <2>3, <2>4, <2>5, <2>6, <2>7, <2>8, FlowStep
<1>6. ASSUME ~Request(s), session'.id \in Sessions \ {s} PROVE ~Passed(s)'
  <2>1. pc[s] # "new" /\ (Passed(s)' => Passed(s) \/ (ShowRequest /\ s = Head(lookups)))
    BY <1>3, <1>6, ComingStep DEF Passed
  <2>2. CASE ShowRequest
    <3>1. PICK t \in Sessions : t = Head(lookups) /\ session'.id = t
      BY <2>2, ShowsComing
    <3>2. lookups # <<>> /\ lookups' = Tail(lookups) /\ t \in Sessions \ {s}
      BY <1>6, <2>2, <3>1 DEF ShowRequest
    <3>3. CASE Piped(Prepare(s))
      BY <2>2, <3>3, Undisturbed DEF ShowRequest, bridgeVars, Passed, Coming
    <3>4. CASE FollowedBy(lookups, Sessions \ {s}, s)
      <4>1. Has(Tail(lookups), s)
        BY <3>1, <3>2, <3>4, HeadTaken DEF TypeOK, AppType
      <4>2. QED
        BY <3>2, <4>1 DEF Passed, Coming, Looked
    <3>5. QED
      BY <1>3, <1>6, <3>3, <3>4 DEF LastCallOf
  <2>3. CASE ~ShowRequest
    <3>1. ASSUME NEW selected \in SUBSET Files, AcceptFileRequest(selected) PROVE session'.id = session.id
      BY <3>1, ShownType DEF AcceptFileRequest, Accepted, Views
    <3>2. session'.id = session.id
      BY <1>6, <2>3, <3>1, ShownStep, NoSessionParts DEF Proceeds
    <3>3. QED
      BY <1>3, <1>6, <2>1, <2>3, <3>2 DEF LastCallOf
  <2>4. QED
    BY <2>2, <2>3
<1>7. QED
  BY <1>1, <1>4, <1>5, <1>6 DEF LastCallOf

\* The uploads of a session are announced before its end.
FilesFirst == \A j \in Jobs : Ahead(events, FileUpload(j), Notice("cancelled", SessionOf(j)))

LEMMA FilesFirstStep ==
  ASSUME TypeOK, Notified, FilesFirst, [Next]_vars
  PROVE  FilesFirst'
<1> SUFFICES ASSUME NEW j \in Jobs
             PROVE  Ahead(events, FileUpload(j), Notice("cancelled", SessionOf(j)))'
  BY DEF FilesFirst
<1>1. PICK a \in Event : a = FileUpload(j) /\ a.kind = "file"
  BY EventParts
<1>2. PICK s \in Sessions : s = SessionOf(j)
  BY JobParts
<1>3. PICK b \in Event : b = Notice("cancelled", s) /\ b.kind = "cancelled" /\ b # a
  BY <1>1, EventParts DEF Notices
<1>4. Ahead(events, a, b)
  BY <1>1, <1>2, <1>3 DEF FilesFirst
<1>5. SUFFICES Ahead(events, a, b)'
  BY <1>1, <1>2, <1>3
<1>6. ASSUME NEW t \in Sessions, Request(t) PROVE Ahead(events, a, b)'
  <2>1. a # Prepare(t) /\ ~(slot # "free" /\ a = Notice("cancelled", slot))
    BY <1>1, <1>6, RequestReplaces, EventParts DEF Notices
  <2>2. QED
    BY <1>4, <1>6, <2>1, Requested
<1>7. ASSUME NEW t \in Sessions, Notify(t) PROVE Ahead(events, a, b)'
  <2>1. owed[t] \in Notices
    BY <1>7 DEF Notify, TypeOK, ServerType
  <2>2. PICK m \in Event : m = Notice(owed[t], t) /\ m # a
    BY <1>1, <2>1, EventParts DEF Notices
  <2>3. QED
    BY <1>4, <1>7, <2>2, Emitted DEF Notify
<1>8. ASSUME NEW k \in Jobs, StartUpload(k) PROVE Ahead(events, a, b)'
  <2>1. PICK m \in Event : m = FileUpload(k) /\ (m = a => k = j)
    BY <1>1, EventParts
  <2>2. m = a => ~Sent(b)
    BY <1>2, <1>3, <1>8, <2>1, PipeType DEF StartUpload, Notified, NotifiedOf
  <2>3. QED
    BY <1>3, <1>4, <1>8, <2>1, <2>2, Emitted DEF StartUpload
<1>9. ASSUME UNCHANGED events PROVE Ahead(events, a, b)'
  BY <1>4, <1>9 DEF Ahead
<1>10. QED
  BY <1>4, <1>6, <1>7, <1>8, <1>9, PipeMoves, Forwarded, Delivered

\* The responder of a request that waits for its answer is kept.
ReachableOf(s) ==
  pc[s] = "waiting" /\ verdict[s] = NoAnswer => decision = s \/ Sent(Prepare(s))
Reachable == \A s \in Sessions : ReachableOf(s)

LEMMA ReachableStep ==
  ASSUME TypeOK, Holders, Notified, LastCall, Reachable, [Next]_vars
  PROVE  Reachable'
<1> USE SlotNames
<1> SUFFICES ASSUME NEW s \in Sessions, pc'[s] = "waiting", verdict'[s] = NoAnswer
             PROVE  decision' = s \/ Sent(Prepare(s))'
  BY DEF Reachable, ReachableOf
<1>1. CASE Request(s)
  BY <1>1, PrepareSent
<1>2. CASE ~Request(s)
  <2>1. pc[s] = "waiting"
    BY <1>2, PhaseStep
  <2>2. verdict[s] = NoAnswer
    <3>1. ASSUME NEW c \in commands, c.op = "decide", decision = s,
                 verdict' = [verdict EXCEPT ![decision] = [from |-> c.from, files |-> c.files]]
          PROVE  FALSE
      BY <3>1, CommandKinds DEF TypeOK, BridgeType, ServerType, NoAnswer
    <3>2. verdict'[s] = verdict[s]
      BY <3>1, DecisionStep DEF TypeOK, ServerType
    <3>3. QED
      BY <3>2
  <2>3. decision = s \/ Sent(Prepare(s))
    BY <2>1, <2>2 DEF Reachable, ReachableOf
  <2>4. CASE UNCHANGED decision
    <3>1. CASE Forward /\ Prepare(s) = Head(events)
      BY <3>1, EventParts DEF Forward
    <3>2. QED
      BY <2>3, <2>4, <3>1, PrepareSent
  <2>5. ASSUME NEW t \in Sessions, Forward, decision' = t, Head(events) = Prepare(t), t # s
        PROVE  Sent(Prepare(s))'
    <3>1. FollowedBy(Pipe, Others(s), Prepare(s)) /\ Head(events) \in Others(s)
      BY <2>1, <2>5 DEF LastCall, Latest, LastCallOf, Others
    <3>2. FollowedBy(events, Others(s), Prepare(s))
      BY <3>1, PipeType, Joined DEF Pipe
    <3>3. events # <<>> /\ events' = Tail(events)
      BY <2>5 DEF Forward
    <3>4. Has(Tail(events), Prepare(s))
      BY <3>1, <3>2, <3>3, PipeType, HeadTaken
    <3>5. QED
      BY <3>3, <3>4 DEF Sent
  <2>6. ASSUME Forward, decision' = "none", decision \in Sessions, Head(events) = Notice("aborted", decision)
        PROVE  Sent(Prepare(s))'
    <3>1. Sent(Notice("aborted", decision))
      BY <2>6, Forwarded
    <3>2. pc[decision] = "over"
      BY <2>6, <3>1, PipeType DEF Notified, NotifiedOf
    <3>3. Sent(Prepare(s)) /\ Prepare(s) # Head(events)
      BY <2>1, <2>3, <2>6, <3>2, EventParts DEF Notices
    <3>4. QED
      BY <3>3, PrepareSent
  <2>7. ASSUME decision' = "none", UNCHANGED <<events, inbox, pc>>,
               decision \in Sessions /\ pc[decision] = "waiting" => verdict'[decision].from \in Sessions
        PROVE  Sent(Prepare(s))'
    <3>1. decision # s
      BY <2>1, <2>7 DEF NoAnswer
    <3>2. QED
      BY <2>3, <2>7, <3>1, Undisturbed
  <2>8. QED
    BY <2>4, <2>5, <2>6, <2>7, ResponderStep
<1>3. QED
  BY <1>1, <1>2

-----------------------------------------------------------------------------
(* Every upload that waits is answered *)

\* The session is not shown as one that goes on, and will not be.
Gone(s) == Passed(s) /\ ~(session.id = s /\ session.status \in Allowed \cup {"waiting"})

LEMMA GoneStays ==
  ASSUME TypeOK, Announced, [Next]_vars, NEW s \in Sessions, Gone(s)
  PROVE  Gone(s)'
<1>1. Passed(s)'
  BY ComingStep DEF Gone
<1>2. CASE Proceeds \/ session' = NoSession
  BY <1>1, <1>2, NoSessionParts DEF Proceeds, Gone, Allowed
<1>3. CASE ShowRequest
  BY <1>1, <1>3, ShowsComing DEF Gone, Passed
<1>4. ASSUME NEW selected \in SUBSET Files, AcceptFileRequest(selected) PROVE Gone(s)'
  <2>1. session.id # s /\ session \in Views(session.id)
    BY <1>4, ShownType DEF AcceptFileRequest, Gone
  <2>2. session'.id # s
    BY <1>4, <2>1 DEF AcceptFileRequest, Accepted, Views
  <2>3. QED
    BY <1>1, <2>2 DEF Gone
<1>5. QED
  BY <1>2, <1>3, <1>4, ShownStep

\* An answer is given once.
LEMMA AnswerStays ==
  ASSUME TypeOK, Holders, Responder, [Next]_vars
  PROVE  /\ \A s \in Sessions : verdict[s] # NoAnswer => verdict'[s] = verdict[s]
         /\ AnswersItsRequest' => AnswersItsRequest
<1>1. ASSUME NEW s \in Sessions, verdict[s] # NoAnswer PROVE verdict'[s] = verdict[s]
  BY <1>1, DecisionStep DEF TypeOK, ServerType, Holders, Responder, ResponderOf
<1>2. QED
  BY <1>1 DEF AnswersItsRequest

\* What a session accepted is what was chosen for it, if its answer was meant
\* for it.
LEMMA AcceptedWasChosen ==
  ASSUME TypeOK, Holders, Selected, AnswersItsRequest,
         NEW s \in Sessions, pc[s] = "opened"
  PROVE  Decided(s) /\ (Accepts(s) # {} => Accepts(s) = chosen[s])
<1>1. verdict[s].from = s
  BY DEF Holders, AnswersItsRequest
<1>2. Said(s, verdict[s].files) /\ chosen[s] \subseteq offer[s]
  BY <1>1 DEF Selected
<1>3. QED
  BY <1>2 DEF Said, Accepts

LEMMA UploadWasChosen ==
  ASSUME TypeOK, Holders, Selected, Uploading, AnswersItsRequest, NEW j \in Jobs, up[j] # "none"
  PROVE  /\ pc[SessionOf(j)] = "opened" /\ Decided(SessionOf(j))
         /\ FileOf(j) \in chosen[SessionOf(j)] /\ FileOf(j) \in offer[SessionOf(j)]
<1>1. UploadingOf(SessionOf(j), FileOf(j)) /\ SessionOf(j) \in Sessions
  BY JobParts DEF Uploading
<1>2. pc[SessionOf(j)] = "opened" /\ FileOf(j) \in Accepts(SessionOf(j))
  BY <1>1, JobParts DEF UploadingOf
<1>3. QED
  BY <1>1, <1>2, AcceptedWasChosen DEF Accepts

\* An upload is rejected when its onFileUpload ends.
Rejected == \A j \in Jobs : RejectUpload(j) \in commands => saving[j] = "over"

LEMMA RejectedStep ==
  ASSUME TypeOK, HandledOnce, Rejected, [Next]_vars
  PROVE  Rejected'
<1> SUFFICES ASSUME NEW j \in Jobs, RejectUpload(j) \in commands' PROVE saving'[j] = "over"
  BY DEF Rejected
<1>1. CASE RejectUpload(j) \in commands
  <2>1. saving[j] = "over"
    BY <1>1 DEF Rejected
  <2>2. ~(OnFileUpload /\ Head(inbox) = FileUpload(j))
    BY <2>1, EventTaken DEF Deliver, HandledOnce, HandledOf
  <2>3. QED
    BY <2>1, <2>2, SavingStep
       DEF PrepareSaveTarget, PrepareSaveTargetFails, ReceiveFails, KeepFile, RecordHistory
<1>2. CASE RejectUpload(j) \notin commands
  <2>1. PICK c \in Command : c = RejectUpload(j) /\ c.op = "reject" /\ c.job = j
    BY CommandParts
  <2>2. \A k \in Jobs : c # GiveTarget(k) /\ (c = RejectUpload(k) => k = j)
    BY <2>1, CommandParts
  <2>3. \A s \in Sessions : c # CancelSession(s)
    BY <2>1, CommandParts
  <2>4. PrepareSaveTargetFails(j) \/ ReceiveFails(j)
    BY <1>2, <2>1, <2>2, <2>3, CommandStep, ShownType, JobParts DEF UserCancels
  <2>5. QED
    BY <2>4 DEF PrepareSaveTargetFails, ReceiveFails, Fail, TypeOK, AppType
<1>3. QED
  BY <1>1, <1>2

\* The bridge is about to drop the responders of the session.
Ending(s) == owed[s] = "cancelled" \/ Sent(Notice("cancelled", s))

Answers(j) == {GiveTarget(j), RejectUpload(j), CancelSession(SessionOf(j))}

\* As long as every answer reached its request, the responder of an upload that
\* waits is with the bridge or on its way to it, and the app, or the end of the
\* session, will get at it.
Answerable(j) ==
  /\ j \in targets \/ Sent(FileUpload(j))
  /\ \/ Piped(FileUpload(j)) \/ saving[j] = "preparing" \/ Answers(j) \cap commands # {}
     \/ Ending(SessionOf(j))
  /\ slot = SessionOf(j) \/ Ending(SessionOf(j)) \/ (Gone(SessionOf(j)) /\ saving[j] = "none")

CancelsGone == \A s \in Sessions : CancelSession(s) \in commands => Gone(s)
Answering ==
  AnswersItsRequest => CancelsGone /\ \A j \in Jobs : up[j] = "asked" => Answerable(j)

\* Who takes the slot from its session.
LEMMA SlotLeaves ==
  ASSUME TypeOK, Holders, [Next]_vars, NEW s \in Sessions, slot = s, slot' # s
  PROVE  \/ \E t \in Sessions : Request(t)
         \/ SenderCancels(s)
         \/ \E j \in Jobs : /\ FinalizeFile(j) /\ SessionOf(j) = s
                            /\ \A f \in Files : f # FileOf(j) => status[f] \in {"absent", "settled"}
         \/ CancelSession(s) \in commands /\ CancelUploadSession(CancelSession(s))
<1> USE SlotNames
<1>1. UNCHANGED vars \/ App \/ User => UNCHANGED slot
  BY DEF vars, App, Deliver, OnPrepareUpload, OnFileUpload, OnSessionEnd, OnPrepareUploadAborted,
         ShowRequest, SendDecision, DelayedClose, Continue, PrepareSaveTarget,
         PrepareSaveTargetFails, KeepFile, ReceiveFails, RecordHistory, Fail, User,
         AcceptFileRequest, DeclineFileRequest, UserCloses, UserCancels, serverVars
<1>2. ASSUME NEW t \in Sessions, Refuse(t) \/ Notify(t) \/ (SenderCancels(t) /\ t # s) PROVE FALSE
  BY <1>2 DEF Refuse, Notify, SenderCancels
<1>3. ASSUME NEW j \in Jobs, StartUpload(j) \/ HangUpUpload(j) \/ SaveBody(j) PROVE FALSE
  BY <1>3 DEF StartUpload, HangUpUpload, SaveBody
<1>4. ASSUME NEW j \in Jobs, FinalizeFile(j)
      PROVE  /\ SessionOf(j) = s
             /\ \A f \in Files : f # FileOf(j) => status[f] \in {"absent", "settled"}
  BY <1>4, JobParts DEF FinalizeFile, TypeOK, ServerType
<1>5. Forward => FALSE
  BY DEF Forward
<1>6. ASSUME NEW c \in commands, Handle(c)
      PROVE  c = CancelSession(s) /\ CancelUploadSession(c)
  BY <1>6, CommandKinds DEF Handle, RespondPrepareUpload, RespondFileUpload, RejectFileUpload,
                            CancelUploadSession, TypeOK, BridgeType
<1>7. ASSUME NEW t \in Sessions, HangUp(t) \/ Respond(t) PROVE FALSE
  BY <1>7 DEF HangUp, Respond, Holders
<1>8. QED
  BY <1>1, <1>2, <1>3, <1>4, <1>5, <1>6, <1>7 DEF Next, Server, Bridge

LEMMA CancelsGoneStep ==
  ASSUME TypeOK, Announced, Selected, Holders, Uploading, HandledOnce, AnswersItsRequest, CancelsGone,
         [Next]_vars
  PROVE  CancelsGone'
<1> SUFFICES ASSUME NEW s \in Sessions, CancelSession(s) \in commands' PROVE Gone(s)'
  BY DEF CancelsGone
<1>1. CASE CancelSession(s) \in commands
  BY <1>1, GoneStays DEF CancelsGone
<1>2. CASE UserCancels /\ s = session.id
  <2>1. Passed(s)' /\ session' = NoSession
    BY <1>2, ComingStep DEF Selected, ShownPassed, UserCancels, CloseShown
  <2>2. QED
    BY <2>1, NoSessionParts DEF Gone
<1>3. ASSUME NEW j \in Jobs, OnFileUpload, Head(inbox) = FileUpload(j), ~Expected(j), s = SessionOf(j)
      PROVE  Gone(s)'
  <2>1. up[j] # "none"
    BY <1>3, EventTaken DEF Deliver, HandledOnce, HandledOf
  <2>2. Decided(s) /\ FileOf(j) \in chosen[s]
    BY <1>3, <2>1, UploadWasChosen
  <2>3. Gone(s)
    BY <1>3, <2>2, IdShown DEF Decided, Gone, Expected
  <2>4. QED
    BY <2>3, GoneStays
<1>4. CASE CancelSession(s) \notin commands
  <2>1. PICK c \in Command : c = CancelSession(s) /\ c.op = "cancel" /\ c.session = s
    BY CommandParts
  <2>2. \A j \in Jobs : c # GiveTarget(j) /\ c # RejectUpload(j)
    BY <2>1, CommandParts
  <2>3. \A t \in Sessions : c = CancelSession(t) => t = s
    BY <2>1, CommandParts
  <2>4. \/ UserCancels /\ c = CancelSession(session.id)
        \/ \E j \in Jobs : /\ OnFileUpload /\ Head(inbox) = FileUpload(j) /\ ~Expected(j)
                           /\ c = CancelSession(SessionOf(j))
    BY <1>4, <2>1, <2>2, CommandStep
  <2>5. UserCancels => session.id \in Sessions
    BY ShownType DEF UserCancels
  <2>6. QED
    BY <1>2, <1>3, <2>1, <2>3, <2>4, <2>5, JobParts
<1>5. QED
  BY <1>1, <1>4

\* The responder stays within reach of its upload.
LEMMA ResponderReached ==
  ASSUME TypeOK, [Next]_vars, NEW j \in Jobs, j \in targets \/ Sent(FileUpload(j)),
         up[j] = "asked", up'[j] = "asked"
  PROVE  j \in targets' \/ Sent(FileUpload(j))'
<1>1. ASSUME Forward, Head(events) = FileUpload(j) PROVE j \in targets'
  BY <1>1, EventParts DEF Forward
<1>2. QED
  BY <1>1, TargetStep, FileEventStep

LEMMA EndingStays ==
  ASSUME TypeOK, Holders, Notified, FilesFirst, [Next]_vars, NEW j \in Jobs, Ending(SessionOf(j)),
         j \in targets \/ Sent(FileUpload(j)), up[j] = "asked", up'[j] = "asked"
  PROVE  Ending(SessionOf(j))'
<1>1. PICK s \in Sessions : s = SessionOf(j)
  BY JobParts
<1>2. PICK e \in Event : e = Notice("cancelled", s) /\ e.kind = "cancelled" /\ e.session = s
  BY EventParts DEF Notices
<1>3. CASE owed[s] = "cancelled"
  <2>1. pc[s] = "opened" /\ slot # s
    BY <1>3 DEF Notified, NotifiedOf
  <2>2. CASE Notify(s)
    <3>1. Sends(e)
      BY <1>2, <1>3, <2>2, NoticeSent DEF Notices
    <3>2. QED
      BY <1>1, <1>2, <3>1, EventSent DEF Ending
  <2>3. CASE owed'[s] = owed[s]
    BY <1>1, <1>3, <2>3 DEF Ending
  <2>4. QED
    BY <2>1, <2>2, <2>3, OwedStep DEF HangUp
<1>4. CASE Sent(e)
  <2>1. CASE Forward /\ e = Head(events)
    <3>1. ~Sent(FileUpload(j))
      BY <1>1, <1>2, <2>1, Forwarded DEF FilesFirst
    <3>2. Drop(OfSession(s))
      BY <1>2, <2>1 DEF Forward
    <3>3. FALSE
      BY <1>1, <3>1, <3>2 DEF Drop, OfSession
    <3>4. QED
      BY <3>3
  <2>2. QED
    BY <1>1, <1>2, <1>4, <2>1, EventStep DEF Ending
<1>5. QED
  BY <1>1, <1>2, <1>3, <1>4 DEF Ending

\* The app, or the end of the session, still gets at the upload.
LEMMA UploadReached ==
  ASSUME TypeOK, Announced, Selected, Holders, Uploading, HandledOnce, Notified, LastCall, FilesFirst,
         Rejected, AnswersItsRequest, [Next]_vars, NEW j \in Jobs,
         Answerable(j), up[j] = "asked", up'[j] = "asked"
  PROVE  \/ Piped(FileUpload(j))' \/ saving'[j] = "preparing" \/ Answers(j) \cap commands' # {}
         \/ Ending(SessionOf(j))'
<1>1. PICK s \in Sessions : s = SessionOf(j)
  BY JobParts
<1>2. /\ pc[s] = "opened" /\ Passed(s) /\ FileOf(j) \in chosen[s] /\ FileOf(j) \in offer[s]
  BY <1>1, UploadWasChosen DEF Decided
<1>3. HandledOf(j)
  BY DEF HandledOnce
<1>4. CASE Piped(FileUpload(j))
  <2>1. CASE OnFileUpload /\ FileUpload(j) = Head(inbox)
    <3>1. j = Head(inbox).job
      BY <2>1, EventParts
    <3>2. CASE Expected(j)
      BY <2>1, <3>1, <3>2 DEF OnFileUpload, TypeOK, AppType
    <3>3. CASE ~Expected(j)
      BY <2>1, <3>1, <3>3 DEF OnFileUpload, Issue, Answers
    <3>4. QED
      BY <3>2, <3>3
  <2>2. QED
    BY <1>4, <2>1, FileEventStep
<1>5. CASE saving[j] = "preparing"
  <2>1. PrepareSaveTarget(j) => GiveTarget(j) \in commands'
    BY DEF PrepareSaveTarget, Issue
  <2>2. CASE PrepareSaveTargetFails(j)
    <3>1. CASE RejectUpload(j) \in commands'
      BY <3>1 DEF Answers
    <3>2. CASE Shown /\ FileOf(j) \notin offer[session.id]
      <4>1. session.id \in Sessions /\ session.id # s
        BY <1>2, <3>2, ShownType
      <4>2. slot # s
        BY <1>2, <4>1 DEF LastCall, Latest, LastCallOf
      <4>3. Ending(s)
        BY <1>1, <1>5, <4>2 DEF Answerable
      <4>4. QED
        BY <1>1, <4>3, EndingStays DEF Answerable
    <3>3. QED
      BY <2>2, <3>1, <3>2 DEF PrepareSaveTargetFails, Fail, Issue
  <2>3. QED
    BY <1>5, <2>1, <2>2, SavingStep DEF ReceiveFails, KeepFile, RecordHistory, Answers
<1>6. ASSUME NEW c \in Answers(j) \cap commands, c \notin commands' PROVE FALSE \/ Piped(FileUpload(j))
  <2>1. c \in Command /\ c.op # "decide"
    BY <1>6, CommandParts, JobParts DEF Answers
  <2>2. Handle(c)
    BY <1>6, <2>1, CommandStep
  <2>3. ASSUME Piped(FileUpload(j)) \/ j \notin targets PROVE Piped(FileUpload(j))
    BY <2>3, PipeType DEF Answerable
  <2>4. ASSUME ~Piped(FileUpload(j)), j \in targets PROVE FALSE
    <3>1. CASE c = GiveTarget(j)
      <4>1. RespondFileUpload(c) /\ c.job = j
        BY <2>2, <3>1, CommandParts DEF Handle, RespondPrepareUpload, RejectFileUpload, CancelUploadSession
      <4>2. QED
        BY <2>4, <4>1 DEF RespondFileUpload, TypeOK, ServerType
    <3>2. CASE c = RejectUpload(j)
      <4>1. RejectFileUpload(c) /\ c.job = j
        BY <2>2, <3>2, CommandParts DEF Handle, RespondPrepareUpload, RespondFileUpload, CancelUploadSession
      <4>2. QED
        BY <2>4, <4>1 DEF RejectFileUpload, Drop
    <3>3. CASE c = CancelSession(s)
      <4>1. CancelUploadSession(c) /\ c.session = s
        BY <2>2, <3>3, CommandParts DEF Handle, RespondPrepareUpload, RespondFileUpload, RejectFileUpload
      <4>2. QED
        BY <1>1, <2>4, <4>1 DEF CancelUploadSession, Drop, OfSession
    <3>4. QED
      BY <1>1, <1>6, <3>1, <3>2, <3>3 DEF Answers
  <2>5. QED
    BY <2>3, <2>4
<1>7. CASE Ending(s)
  BY <1>1, <1>7, EndingStays DEF Answerable
<1>8. QED
  BY <1>1, <1>4, <1>5, <1>6, <1>7 DEF Answerable

\* A session that lost the slot ends at the bridge, or was done away with.
LEMMA SlotReached ==
  ASSUME TypeOK, Announced, Selected, Holders, Uploading, HandledOnce, Notified, FilesFirst,
         CancelsGone, AnswersItsRequest, [Next]_vars, NEW j \in Jobs,
         Answerable(j), up[j] = "asked", up'[j] = "asked"
  PROVE  slot' = SessionOf(j) \/ Ending(SessionOf(j))' \/ (Gone(SessionOf(j)) /\ saving[j] = "none")'
<1> USE SlotNames
<1>1. PICK s \in Sessions : s = SessionOf(j)
  BY JobParts
<1>2. CASE slot = s /\ slot' # s
  <2>1. ASSUME NEW t \in Sessions, Request(t) PROVE Ending(s)'
    <3>1. PICK e \in Event : e = Notice("cancelled", s) /\ e.kind = "cancelled"
      BY EventParts DEF Notices
    <3>2. Sends(e)
      BY <1>2, <2>1, <3>1 DEF Sends
    <3>3. QED
      BY <3>1, <3>2, EventSent DEF Ending
  <2>2. SenderCancels(s) => Ending(s)'
    BY DEF SenderCancels, Ending, TypeOK, ServerType
  <2>3. ASSUME NEW k \in Jobs, FinalizeFile(k), SessionOf(k) = s,
               \A f \in Files : f # FileOf(k) => status[f] \in {"absent", "settled"}
        PROVE  FALSE
    <3>1. UploadingOf(s, FileOf(j)) /\ j = <<s, FileOf(j)>> /\ FileOf(j) \in Files
      BY <1>1, JobParts DEF Uploading
    <3>2. status[FileOf(j)] = "in_progress"
      BY <1>2, <3>1 DEF UploadingOf
    <3>3. FileOf(j) = FileOf(k)
      BY <2>3, <3>1, <3>2
    <3>4. j = k
      BY <1>1, <2>3, <3>3, JobParts
    <3>5. QED
      BY <2>3, <3>4 DEF FinalizeFile
  <2>4. ASSUME CancelSession(s) \in commands, CancelUploadSession(CancelSession(s))
        PROVE  (Gone(s) /\ saving[j] = "none")'
    <3>1. Gone(s)'
      BY <2>4, GoneStays DEF CancelsGone
    <3>2. Drop(OfSession(s)) /\ UNCHANGED saving
      BY <2>4, CommandParts DEF CancelUploadSession, appVars
    <3>3. j \notin targets
      BY <1>1, <3>2 DEF Drop, OfSession
    <3>4. Piped(FileUpload(j))
      BY <3>3, PipeType DEF Answerable
    <3>5. QED
      BY <3>1, <3>2, <3>4 DEF HandledOnce, HandledOf
  <2>5. QED
    BY <1>1, <1>2, <2>1, <2>2, <2>3, <2>4, SlotLeaves
<1>3. CASE Ending(s)
  BY <1>1, <1>3, EndingStays DEF Answerable
<1>4. CASE Gone(s) /\ saving[j] = "none"
  <2>1. Gone(s)'
    BY <1>4, GoneStays
  <2>2. ~Expected(j)
    BY <1>1, <1>4 DEF Gone, Expected
  <2>3. saving'[j] = "none"
    BY <1>4, <2>2, SavingStep DEF PrepareSaveTarget, PrepareSaveTargetFails, ReceiveFails, KeepFile,
                                  RecordHistory
  <2>4. QED
    BY <1>1, <2>1, <2>3
<1>5. QED
  BY <1>1, <1>2, <1>3, <1>4 DEF Answerable

LEMMA AnsweringStep ==
  ASSUME TypeOK, Announced, Selected, Holders, Uploading, HandledOnce, Notified, Responder, LastCall,
         FilesFirst, Rejected, Answering, [Next]_vars
  PROVE  Answering'
<1> SUFFICES ASSUME AnswersItsRequest'
             PROVE  CancelsGone' /\ \A j \in Jobs : up'[j] = "asked" => Answerable(j)'
  BY DEF Answering
<1>1. AnswersItsRequest /\ CancelsGone
  BY AnswerStays DEF Answering
<1>2. CancelsGone'
  BY <1>1, CancelsGoneStep
<1>3. ASSUME NEW j \in Jobs, up'[j] = "asked" PROVE Answerable(j)'
  <2>1. CASE StartUpload(j)
    <3>1. slot' = SessionOf(j)
      BY <2>1 DEF StartUpload
    <3>2. QED
      BY <2>1, <3>1, FileEventStep DEF Answerable
  <2>2. CASE up[j] = "asked"
    <3>1. Answerable(j)
      BY <1>1, <2>2 DEF Answering
    <3>2. QED
      BY <1>1, <1>3, <2>2, <3>1, ResponderReached, UploadReached, SlotReached DEF Answerable, Answers
  <2>3. QED
    BY <1>3, <2>1, <2>2, UploadStep DEF SaveBody, FinalizeFile, RespondFileUpload, TypeOK, ServerType
<1>4. QED
  BY <1>2, <1>3

-----------------------------------------------------------------------------
(* The end of a session gets to the app *)

\* The app knows, or will be told, that the session is over, or has every file.
EndKnown(s) ==
  \/ owed[s] = "cancelled" \/ Piped(Notice("cancelled", s)) \/ Gone(s)
  \/ \A f \in chosen[s] : up[<<s, f>>] = "over"

Running(s) == session.id = s /\ session.status \in Allowed

\* A file of a running session is final once its onFileUpload got that far, or
\* when it was not chosen, and no announced upload was passed over.
Accounted(s, f) ==
  /\ saving[<<s, f>>] \in {"recording", "over"} \/ f \notin chosen[s] => session.files[f] \in Final
  /\ AnswersItsRequest /\ up[<<s, f>>] # "none" => Piped(FileUpload(<<s, f>>)) \/ saving[<<s, f>>] # "none"

\* A session whose files are all final is about to be concluded.
Concluding ==
  session.status = "sending" /\ (\A f \in offer[session.id] : session.files[f] \in Final)
    => \E j \in Jobs : saving[j] = "recording" /\ FileOf(j) \in offer[session.id]

EndsKnown == AnswersItsRequest => \A s \in Sessions : pc[s] = "opened" /\ slot # s => EndKnown(s)
AllAccounted == \A s \in Sessions, f \in Files : Running(s) /\ f \in offer[s] => Accounted(s, f)
Ends == EndsKnown /\ AllAccounted /\ Concluding

LEMMA EndKnownStays ==
  ASSUME TypeOK, Announced, Selected, Holders, Uploading, Notified, AnswersItsRequest, [Next]_vars,
         NEW s \in Sessions, pc[s] = "opened", slot # s, EndKnown(s)
  PROVE  EndKnown(s)'
<1>1. PICK e \in Event : e = Notice("cancelled", s) /\ e.kind = "cancelled" /\ e.session = s
  BY EventParts DEF Notices
<1>2. Decided(s) /\ Passed(s)' /\ chosen'[s] = chosen[s]
  BY AcceptedWasChosen, DecidedStays DEF Decided
<1>3. CASE owed[s] = "cancelled"
  <2>1. CASE Notify(s)
    <3>1. Sends(e)
      BY <1>1, <1>3, <2>1, NoticeSent DEF Notices
    <3>2. QED
      BY <1>1, <3>1, EventSent DEF EndKnown
  <2>2. CASE owed'[s] = owed[s]
    BY <1>3, <2>2 DEF EndKnown
  <2>3. QED
    BY <2>1, <2>2, OwedStep DEF HangUp
<1>4. CASE Piped(e)
  <2>1. CASE Deliver /\ e = Head(inbox)
    <3>1. IF session.id = s THEN CancelBySender ELSE UNCHANGED session
      BY <1>1, <2>1 DEF Deliver, OnPrepareUpload, OnFileUpload, OnSessionEnd, OnPrepareUploadAborted,
                        Take, Current, Ended
    <3>2. session.id = s => session'.status = "canceledBySender"
      BY <3>1, IdShown, ShownType DEF CancelBySender, Views
    <3>3. Gone(s)'
      BY <1>2, <3>1, <3>2 DEF Gone, Allowed
    <3>4. QED
      BY <3>3 DEF EndKnown
  <2>2. QED
    BY <1>1, <1>4, <2>1, EventStep DEF EndKnown
<1>5. CASE Gone(s)
  BY <1>5, GoneStays DEF EndKnown
<1>6. ASSUME \A f \in chosen[s] : up[<<s, f>>] = "over" PROVE EndKnown(s)'
  <2>1. ASSUME NEW f \in chosen[s] PROVE up'[<<s, f>>] = "over"
    <3>1. PICK j \in Jobs : j = <<s, f>>
      BY <2>1, JobParts DEF TypeOK, AppType
    <3>2. up[j] = "over"
      BY <1>6, <2>1, <3>1
    <3>3. up'[j] = "over"
      BY <3>2, UploadStep, StartsNew DEF SaveBody, FinalizeFile, RespondFileUpload, TypeOK, ServerType
    <3>4. QED
      BY <3>1, <3>3
  <2>2. QED
    BY <1>2, <2>1 DEF EndKnown
<1>7. QED
  BY <1>1, <1>3, <1>4, <1>5, <1>6 DEF EndKnown

LEMMA EndBecomesKnown ==
  ASSUME TypeOK, Announced, Selected, Holders, Uploading, CancelsGone, AnswersItsRequest, [Next]_vars,
         NEW s \in Sessions, slot = s, slot' # s
  PROVE  EndKnown(s)'
<1>1. pc[s] = "opened"
  BY DEF Holders
<1>2. Decided(s) /\ chosen'[s] = chosen[s]
  BY <1>1, AcceptedWasChosen, DecidedStays
<1>3. ASSUME NEW t \in Sessions, Request(t) PROVE EndKnown(s)'
  <2>1. PICK e \in Event : e = Notice("cancelled", s) /\ e.kind = "cancelled"
    BY EventParts DEF Notices
  <2>2. Sends(e)
    BY <1>3, <2>1 DEF Sends
  <2>3. QED
    BY <2>1, <2>2, EventSent DEF EndKnown
<1>4. SenderCancels(s) => EndKnown(s)'
  BY DEF SenderCancels, EndKnown, TypeOK, ServerType
<1>5. ASSUME NEW k \in Jobs, FinalizeFile(k), SessionOf(k) = s,
             \A f \in Files : f # FileOf(k) => status[f] \in {"absent", "settled"}
      PROVE  EndKnown(s)'
  <2>1. up[k] = "ending" /\ up' = [up EXCEPT ![k] = "over"]
    BY <1>5 DEF FinalizeFile
  <2>2. UploadingOf(s, FileOf(k)) /\ k = <<s, FileOf(k)>>
    BY <1>5, JobParts DEF Uploading
  <2>3. Accepts(s) = chosen[s]
    BY <1>1, <2>1, <2>2, AcceptedWasChosen DEF UploadingOf
  <2>4. ASSUME NEW f \in chosen[s] PROVE up'[<<s, f>>] = "over"
    <3>1. f \in Files /\ <<s, f>> \in Jobs /\ UploadingOf(s, f)
      BY JobParts DEF Uploading, TypeOK, AppType
    <3>2. CASE f = FileOf(k)
      BY <2>1, <2>2, <3>2 DEF TypeOK, ServerType
    <3>3. CASE f # FileOf(k)
      <4>1. status[f] = "settled"
        BY <1>5, <2>3, <3>1, <3>3 DEF UploadingOf
      <4>2. up[<<s, f>>] = "over"
        BY <3>1, <4>1 DEF UploadingOf, TypeOK, ServerType
      <4>3. QED
        BY <2>1, <3>1, <4>2 DEF TypeOK, ServerType
    <3>4. QED
      BY <3>2, <3>3
  <2>5. QED
    BY <1>2, <2>4 DEF EndKnown
<1>6. CancelSession(s) \in commands => EndKnown(s)'
  BY GoneStays DEF CancelsGone, EndKnown
<1>7. QED
  BY <1>3, <1>4, <1>5, <1>6, SlotLeaves

LEMMA EndsKnownStep ==
  ASSUME TypeOK, Announced, Selected, Holders, Uploading, Notified, Responder, Answering, EndsKnown,
         [Next]_vars
  PROVE  EndsKnown'
<1> SUFFICES ASSUME AnswersItsRequest', NEW s \in Sessions, pc'[s] = "opened", slot' # s
             PROVE  EndKnown(s)'
  BY DEF EndsKnown
<1>1. AnswersItsRequest /\ CancelsGone
  BY AnswerStays DEF Answering
<1>2. CASE slot = s
  BY <1>1, <1>2, EndBecomesKnown
<1>3. CASE slot # s /\ pc[s] = "opened"
  BY <1>1, <1>3, EndKnownStays DEF EndsKnown
<1>4. CASE pc[s] # "opened"
  <2>1. pc[s] # pc'[s] => \E t \in Sessions : Request(t) \/ Refuse(t) \/ HangUp(t) \/ Respond(t)
    BY SlotStep
  <2>2. ASSUME NEW t \in Sessions, Request(t) \/ Refuse(t) \/ HangUp(t) \/ Respond(t) PROVE FALSE
    BY <1>4, <2>2, SlotNames DEF Request, Refuse, HangUp, Respond, TypeOK, ServerType
  <2>3. QED
    BY <1>4, <2>1, <2>2
<1>5. QED
  BY <1>2, <1>3, <1>4

\* A failed upload of an offered file shows the file as failed.
LEMMA FailShows ==
  ASSUME TypeOK, NEW j \in Jobs, Fail(j), Shown, FileOf(j) \in offer[session.id]
  PROVE  /\ session'.files[FileOf(j)] = "failed" /\ session'.id = session.id
         /\ session'.status = "sending" =>
              \E f \in offer[session.id] : session'.files[f] \notin Final
<1>1. PICK s \in Sessions : s = session.id /\ session \in Views(s)
  BY ShownType
<1>2. PICK v : v = WithFile(session, FileOf(j), "failed")
  OBVIOUS
<1>3. v \in Views(s) /\ session' = Concluded(v)
  BY <1>1, <1>2, ShownType, ViewChanges, JobParts DEF Fail, Conclude, FileStatus
<1>4. session'.id = s /\ session'.files = v.files
  BY <1>3, ConcludedElems
<1>5. v.files[FileOf(j)] = "failed"
  BY <1>1, <1>2, WithFileElems
<1>6. session'.status = "sending" => \E f \in offer[s] : v.files[f] \notin Final
  BY <1>3 DEF Concluded, Views, Allowed, NoSession
<1>7. QED
  BY <1>1, <1>4, <1>5, <1>6

LEMMA KeepShows ==
  ASSUME TypeOK, NEW j \in Jobs, KeepFile(j), session' # session \/ Running(session.id),
         Shown, FileOf(j) \in offer[session.id]
  PROVE  session'.files[FileOf(j)] = "finished" /\ saving'[j] = "recording"
<1>1. PICK s \in Sessions : s = session.id /\ session \in Views(s)
  BY ShownType
<1>2. session' = WithFile(session, FileOf(j), "finished") /\ saving' = [saving EXCEPT ![j] = "recording"]
  BY DEF KeepFile, Running
<1>3. QED
  BY <1>1, <1>2, WithFileElems DEF TypeOK, AppType

\* A session begins to run with nothing prepared.
LEMMA RunsAccounted ==
  ASSUME TypeOK, Selected, Holders, Uploading, HandledOnce,
         NEW s \in Sessions, NEW f \in Files, ~Decided(s)
  PROVE  chosen[s] = {} /\ saving[<<s, f>>] = "none" /\ (AnswersItsRequest => up[<<s, f>>] = "none")
<1>1. chosen[s] = {}
  BY DEF Selected
<1>2. PICK j \in Jobs : j = <<s, f>> /\ SessionOf(j) = s /\ FileOf(j) = f
  BY JobParts
<1>3. saving[j] = "none"
  BY <1>1, <1>2 DEF HandledOnce, HandledOf
<1>4. AnswersItsRequest => up[j] = "none"
  BY <1>2, UploadWasChosen
<1>5. QED
  BY <1>1, <1>2, <1>3, <1>4

LEMMA AllAccountedStep ==
  ASSUME TypeOK, Announced, Selected, Holders, Uploading, HandledOnce, Responder, AllAccounted,
         [Next]_vars
  PROVE  AllAccounted'
<1> SUFFICES ASSUME NEW s \in Sessions, NEW f \in Files, Running(s)', f \in offer'[s]
             PROVE  Accounted(s, f)'
  BY DEF AllAccounted
<1>1. PICK j \in Jobs : j = <<s, f>> /\ SessionOf(j) = s /\ FileOf(j) = f
  BY JobParts
<1>2. session'.id = s /\ Shown'
  BY SlotNames, NoSessionParts DEF Running, Shown
<1>3. AnswersItsRequest' => AnswersItsRequest
  BY AnswerStays
<1>4. ASSUME saving[j] = "none", AnswersItsRequest => up[j] = "none", UNCHANGED <<saving, up>>,
             f \in chosen'[s] \/ session'.files[f] \in Final
      PROVE  Accounted(s, f)'
  BY <1>1, <1>3, <1>4 DEF Accounted
<1>5. CASE ShowRequest
  <2>1. PICK t \in Sessions : t = Head(lookups)
    BY <1>5, ShowsComing
  <2>2. t = s /\ Coming(s) /\ session'.status \in {"waiting", "sending"}
        /\ (UNCHANGED chosen \/ chosen' = [chosen EXCEPT ![s] = offer[s]])
    BY <1>2, <1>5, <2>1, ShowsComing
  <2>3. UNCHANGED <<saving, up, offer>>
    BY <1>5 DEF ShowRequest, serverVars
  <2>4. session'.status = "sending"
    BY <2>2 DEF Running, Allowed
  <2>5. session' # NewSession(s)
    BY <2>4 DEF NewSession
  <2>6. chosen' = [chosen EXCEPT ![s] = offer[s]]
    BY <1>5, <2>1, <2>2, <2>5 DEF ShowRequest
  <2>7. f \in chosen'[s]
    BY <2>3, <2>6 DEF TypeOK, AppType
  <2>8. QED
    BY <1>1, <1>4, <2>2, <2>3, <2>7, RunsAccounted DEF Decided, Passed
<1>6. ASSUME NEW selected \in SUBSET Files, AcceptFileRequest(selected) PROVE Accounted(s, f)'
  <2>1. session \in Views(session.id) /\ session' = Accepted(session, selected) /\ session.id \in Sessions
        /\ session.status = "waiting" /\ chosen' = [chosen EXCEPT ![session.id] = selected]
        /\ UNCHANGED <<offer, saving, up>>
    BY <1>6, ShownType DEF AcceptFileRequest, serverVars
  <2>2. session.id = s /\ session'.files[f] = IF f \in selected THEN "queue" ELSE "skipped"
    BY <1>2, <2>1 DEF Accepted, Views
  <2>3. f \in chosen'[s] \/ session'.files[f] \in Final
    BY <2>1, <2>2 DEF TypeOK, AppType, Final
  <2>4. QED
    BY <1>1, <1>4, <2>1, <2>2, <2>3, RunsAccounted DEF Decided
<1>7. ASSUME ~ShowRequest, \A selected \in SUBSET Files : ~AcceptFileRequest(selected)
      PROVE  Accounted(s, f)'
  <2>1. /\ Shown /\ session.id = s /\ session.status \in Allowed
        /\ \A g \in offer[s] : FileMoves(g)
    BY <1>2, <1>7, FilesStep, ShownStep, NoSessionParts, SlotNames DEF Proceeds, Running, Allowed
  <2>2. Passed(s) /\ Decided(s)
    BY <2>1 DEF Selected, ShownPassed, Decided, Allowed
  <2>3. chosen'[s] = chosen[s] /\ f \in offer[s]
    BY <2>2, DecidedStays, ComingStep DEF Passed
  <2>4. Accounted(s, f) /\ HandledOf(j) /\ FileMoves(f)
    BY <2>1, <2>3 DEF AllAccounted, Running, HandledOnce
  <2>5. ASSUME OnFileUpload, Head(inbox) = FileUpload(j), Expected(j)
        PROVE  f \in chosen[s] /\ saving[j] = "none" /\ saving'[j] = "preparing"
    <3>1. Piped(FileUpload(j))
      BY <2>5, EventTaken DEF Deliver
    <3>2. j = Head(inbox).job
      BY <2>5, EventParts
    <3>3. QED
      BY <1>1, <2>1, <2>4, <2>5, <3>1, <3>2 DEF HandledOf, Expected, OnFileUpload, TypeOK, AppType
  <2>6. ASSUME saving'[j] \in {"recording", "over"} \/ f \notin chosen[s]
        PROVE  session'.files[f] \in Final
    <3>1. CASE saving[j] \in {"recording", "over"} \/ f \notin chosen[s]
      <4>1. session.files[f] \in Final
        BY <1>1, <2>4, <3>1 DEF Accounted
      <4>2. ASSUME NEW k \in Jobs, FileOf(k) = f, OnFileUpload, Head(inbox) = FileUpload(k), Expected(k)
            PROVE  FALSE
        <5>1. k = j
          BY <1>1, <2>1, <4>2, JobParts DEF Expected
        <5>2. QED
          BY <2>5, <3>1, <4>2, <5>1
      <4>3. QED
        BY <2>4, <4>1, <4>2 DEF FileMoves, Final
    <3>2. CASE PrepareSaveTargetFails(j) \/ ReceiveFails(j)
      BY <1>1, <2>1, <2>3, <3>2, FailShows DEF PrepareSaveTargetFails, ReceiveFails, Final
    <3>3. CASE KeepFile(j)
      BY <1>1, <2>1, <2>3, <3>3, KeepShows DEF Running, Final
    <3>4. CASE PrepareSaveTarget(j)
      BY <2>6, <3>1, <3>4 DEF PrepareSaveTarget, TypeOK, AppType
    <3>5. RecordHistory(j) => saving[j] = "recording"
      BY DEF RecordHistory
    <3>6. QED
      BY <2>6, <3>1, <3>2, <3>3, <3>4, <3>5, SavingStep
  <2>7. ASSUME AnswersItsRequest, up'[j] # "none" PROVE Piped(FileUpload(j))' \/ saving'[j] # "none"
    <3>1. CASE StartUpload(j)
      BY <3>1, FileEventStep
    <3>2. CASE up[j] # "none"
      <4>1. f \in chosen[s]
        BY <1>1, <2>7, <3>2, UploadWasChosen
      <4>2. Expected(j)
        BY <1>1, <2>1, <4>1 DEF Expected
      <4>3. Piped(FileUpload(j)) \/ saving[j] # "none"
        BY <1>1, <2>4, <2>7, <3>2 DEF Accounted
      <4>4. Piped(FileUpload(j)) => Piped(FileUpload(j))' \/ saving'[j] # "none"
        BY <2>5, <4>2, FileEventStep
      <4>5. saving[j] # "none" => saving'[j] # "none"
        BY SavingStep DEF PrepareSaveTarget, PrepareSaveTargetFails, ReceiveFails, KeepFile,
                          RecordHistory, Fail, TypeOK, AppType
      <4>6. QED
        BY <4>3, <4>4, <4>5
    <3>3. QED
      BY <2>7, <3>1, <3>2, UploadStep DEF SaveBody, FinalizeFile, RespondFileUpload, TypeOK, ServerType
  <2>8. QED
    BY <1>1, <1>3, <2>3, <2>6, <2>7 DEF Accounted
<1>8. QED
  BY <1>5, <1>6, <1>7

LEMMA ConcludingStep ==
  ASSUME TypeOK, Announced, Selected, HandledOnce, Concluding, [Next]_vars
  PROVE  Concluding'
<1> SUFFICES ASSUME session'.status = "sending", \A f \in offer'[session'.id] : session'.files[f] \in Final
             PROVE  \E j \in Jobs : saving'[j] = "recording" /\ FileOf(j) \in offer'[session'.id]
  BY DEF Concluding
<1>1. Shown'
  BY NoSessionParts DEF Shown
<1>2. ~ShowRequest
  <2>1. ASSUME ShowRequest PROVE FALSE
    <3>1. PICK s \in Sessions : s = Head(lookups) /\ offer[s] # {} /\ session'.id = s
      BY <2>1, ShowsComing DEF Announced
    <3>2. session' = Accepted(NewSession(s), offer[s]) /\ offer' = offer
      BY <2>1, <3>1 DEF ShowRequest, NewSession, serverVars
    <3>3. PICK f : f \in offer[s]
      BY <3>1
    <3>4. session'.files[f] = "queue"
      BY <3>2, <3>3, NewView DEF Accepted, Views
    <3>5. QED
      BY <3>1, <3>2, <3>3, <3>4 DEF Final
  <2>2. QED
    BY <2>1
<1>3. ASSUME NEW selected \in SUBSET Files, AcceptFileRequest(selected) PROVE FALSE
  <2>1. /\ session \in Views(session.id) /\ session' = Accepted(session, selected)
        /\ selected \subseteq offer[session.id] /\ selected # {} /\ offer' = offer
    BY <1>3, ShownType DEF AcceptFileRequest, serverVars
  <2>2. PICK f : f \in selected
    BY <2>1
  <2>3. session'.id = session.id /\ session'.files[f] = "queue"
    BY <2>1, <2>2 DEF Accepted, Views
  <2>4. QED
    BY <2>1, <2>2, <2>3 DEF Final
<1>4. PICK s \in Sessions : /\ session.id = s /\ session'.id = s /\ Shown /\ Passed(s)
                            /\ \A f \in offer[s] : FileMoves(f)
  BY <1>1, <1>2, <1>3, FilesStep, ShownType DEF Selected, ShownPassed
<1>5. offer'[s] = offer[s]
  BY <1>4, ComingStep DEF Passed
<1>6. ASSUME NEW j \in Jobs, OnFileUpload, Head(inbox) = FileUpload(j), Expected(j) PROVE FALSE
  <2>1. PICK v : v = WithFile(session, FileOf(j), "sending")
    OBVIOUS
  <2>2. FileOf(j) \in offer[s]
    BY <1>4, <1>6 DEF Expected, Selected
  <2>3. session' = [v EXCEPT !.status = "sending"]
    BY <1>6, <2>1, EventParts DEF OnFileUpload
  <2>4. v.files[FileOf(j)] = "sending" /\ v \in Views(s)
    BY <1>4, <2>1, <2>2, ShownType, ViewChanges, WithFileElems, JobParts DEF FileStatus
  <2>5. session'.files[FileOf(j)] = "sending"
    BY <2>3, <2>4 DEF Views
  <2>6. QED
    BY <1>4, <1>5, <2>2, <2>5 DEF Final
<1>7. ASSUME NEW j \in Jobs, Fail(j), FileOf(j) \in offer[s] PROVE FALSE
  BY <1>4, <1>5, <1>7, FailShows
<1>8. ASSUME NEW f \in offer[s], session.files[f] \notin Final
      PROVE  \E j \in Jobs : saving'[j] = "recording" /\ FileOf(j) \in offer[s]
  <2>1. session'.files[f] # session.files[f] /\ session'.files[f] \in Final
    BY <1>4, <1>5, <1>8
  <2>2. PICK j \in Jobs : FileOf(j) = f /\ KeepFile(j)
    BY <1>4, <1>6, <1>7, <2>1 DEF FileMoves, PrepareSaveTargetFails, ReceiveFails
  <2>3. saving'[j] = "recording"
    BY <1>4, <2>1, <2>2, KeepShows
  <2>4. QED
    BY <2>2, <2>3
<1>9. session.status = "sending"
  <2>1. \/ session.status = "sending"
        \/ OnFileUpload /\ session.status \in Allowed
    BY <1>1, <1>2, <1>3, ShownStep DEF Proceeds, Shown
  <2>2. ASSUME OnFileUpload PROVE session' = session
    <3>1. PICK j \in Jobs : j = Head(inbox).job /\ Head(inbox) = FileUpload(j)
      BY <2>2, Takes, EventKinds DEF OnFileUpload, Notices
    <3>2. QED
      BY <1>6, <2>2, <3>1 DEF OnFileUpload
  <2>3. QED
    BY <2>1, <2>2
<1>10. ASSUME \A f \in offer[s] : session.files[f] \in Final
       PROVE  \E j \in Jobs : saving'[j] = "recording" /\ FileOf(j) \in offer[s]
  <2>1. PICK j \in Jobs : saving[j] = "recording" /\ FileOf(j) \in offer[s]
    BY <1>4, <1>9, <1>10 DEF Concluding
  <2>2. ~RecordHistory(j)
    <3>1. session \in Views(s)
      BY <1>4, ShownType
    <3>2. Concluded(session).status # "sending"
      BY <1>4, <1>9, <1>10, <3>1 DEF Concluded, Views, Allowed, Shown
    <3>3. QED
      BY <3>2 DEF RecordHistory, Conclude
  <2>3. ~ReceiveFails(j)
    BY <1>7, <2>1 DEF ReceiveFails
  <2>4. saving'[j] = saving[j] \/ (OnFileUpload /\ Head(inbox) = FileUpload(j) /\ Expected(j))
    BY <2>1, <2>2, <2>3, SavingStep DEF PrepareSaveTarget, PrepareSaveTargetFails, KeepFile
  <2>5. QED
    BY <1>6, <2>1, <2>4
<1>11. QED
  BY <1>4, <1>5, <1>8, <1>10

-----------------------------------------------------------------------------
(* The inductive invariant *)

IInv ==
  /\ TypeOK /\ Announced /\ Selected /\ Holders /\ Uploading
  /\ HandledOnce /\ Written
  /\ Notified /\ Responder /\ LastCall /\ Reachable
  /\ FilesFirst /\ Rejected /\ Answering
  /\ Ends

LEMMA InitHolds == Init => IInv
<1> SUFFICES ASSUME Init PROVE IInv
  OBVIOUS
<1>1. TypeOK
  BY TypeInit
<1>2. /\ \A e : ~Has(inbox, e) /\ ~Has(events, e) /\ ~Piped(e) /\ ~Sent(e)
      /\ \A s : ~Looked(s)
      /\ \A e : Once(Pipe, e) /\ Once(lookups, e)
      /\ \A X, e : FollowedBy(Pipe, X, e) /\ FollowedBy(lookups, X, e)
      /\ \A a, b : Ahead(events, a, b)
  <2>1. Pipe = <<>> /\ events = <<>> /\ inbox = <<>> /\ lookups = <<>>
    BY DEF Init, Pipe
  <2>2. QED
    BY <2>1, NothingHeld DEF Piped, Sent, Looked
<1>3. /\ \A s \in Sessions : pc[s] = "new" /\ offer[s] = {} /\ chosen[s] = {} /\ owed[s] = "none"
                             /\ verdict[s] = NoAnswer /\ session.id # s /\ slot # s /\ decision # s
      /\ \A j \in Jobs : up[j] = "none" /\ result[j] = "none" /\ saving[j] = "none"
      /\ commands = {} /\ targets = {} /\ permitting = {} /\ slot = "free" /\ session = NoSession
  BY SlotNames, NoSessionParts DEF Init
<1>4. NoAnswer.from = "none"
  BY DEF NoAnswer
<1>5. Announced
  BY <1>2, <1>3 DEF Announced, Coming
<1>6. Selected
  BY <1>3, <1>4, SlotNames DEF Selected, ShownPassed
<1>7. Holders /\ Uploading
  <2>1. Holders
    BY <1>3 DEF Holders
  <2>2. ASSUME NEW s \in Sessions, NEW f \in Files PROVE UploadingOf(s, f)
    BY <1>3, JobParts DEF UploadingOf
  <2>3. QED
    BY <2>1, <2>2 DEF Uploading
<1>8. HandledOnce /\ Written
  BY <1>2, <1>3 DEF HandledOnce, HandledOf, Written, Shown
<1>9. Notified /\ Responder /\ LastCall /\ Reachable
  BY <1>2, <1>3, <1>4 DEF Notified, NotifiedOf, Responder, ResponderOf, LastCall, Latest, Reachable,
                          ReachableOf, Notices
<1>10. FilesFirst /\ Rejected /\ Answering
  BY <1>2, <1>3 DEF FilesFirst, Rejected, Answering, CancelsGone
<1>11. Ends
  BY <1>3, NoSessionParts DEF Ends, EndsKnown, AllAccounted, Concluding, Running
<1>12. QED
  BY <1>1, <1>5, <1>6, <1>7, <1>8, <1>9, <1>10, <1>11 DEF IInv

LEMMA StepHolds == IInv /\ [Next]_vars => IInv'
<1> SUFFICES ASSUME IInv, [Next]_vars PROVE IInv'
  OBVIOUS
<1>0. /\ TypeOK /\ Announced /\ Selected /\ Holders /\ Uploading
      /\ HandledOnce /\ Written
      /\ Notified /\ Responder /\ LastCall /\ Reachable
      /\ FilesFirst /\ Rejected /\ Answering
      /\ EndsKnown /\ AllAccounted /\ Concluding
  BY DEF IInv, Ends
<1>1. Unbegun
  BY <1>0 DEF Unbegun, Selected, ShownPassed, Passed
<1>2. TypeOK'
  BY <1>0, <1>1, TypeStep
<1>3. Announced' /\ Selected'
  BY <1>0, ComingStep, SelectedStep
<1>4. Holders' /\ Uploading'
  BY <1>0, HoldersStep, UploadingStep
<1>5. HandledOnce' /\ Written'
  BY <1>0, HandledStep, WrittenStep
<1>6. Notified' /\ Responder'
  BY <1>0, NotifiedStep, ResponderKept
<1>7. LastCall' /\ Reachable'
  BY <1>0, LastCallStep, ReachableStep
<1>8. FilesFirst' /\ Rejected' /\ Answering'
  BY <1>0, FilesFirstStep, RejectedStep, AnsweringStep
<1>9. EndsKnown' /\ AllAccounted' /\ Concluding'
  BY <1>0, EndsKnownStep, AllAccountedStep, ConcludingStep
<1>10. QED
  BY <1>2, <1>3, <1>4, <1>5, <1>6, <1>7, <1>8, <1>9 DEF IInv, Ends

LEMMA Inductive == Spec => []IInv
<1>1. QED
  BY InitHolds, StepHolds, PTL DEF Spec

-----------------------------------------------------------------------------
(* What the invariant says                                                 *)

\* The slot, the queues and the session shown keep their types: a session
\* always shows exactly the files its request offered.
THEOREM TypeCorrect == Spec => []TypeOK
<1>1. IInv => TypeOK
  BY DEF IInv
<1>2. QED
  BY <1>1, Inductive, PTL

\* Nothing is written that was not selected for that very request, although
\* respond_prepare_upload may answer another one than was meant
\* (server.rs:548, receive_controller.dart:642).
THEOREM NothingIsWrittenUnasked == Spec => []NothingWrittenUnasked
<1>1. IInv => NothingWrittenUnasked
  BY DEF IInv, HandledOnce, HandledOf, NothingWrittenUnasked
<1>2. QED
  BY <1>1, Inductive, PTL

\* The responder of a request that still waits is with the bridge, or on its
\* way to it: no abort of an earlier request drops it (server.rs:395).
THEOREM DecisionsAreReachable == Spec => []DecisionIsReachable
<1>1. ASSUME IInv PROVE DecisionIsReachable
  <2>1. ASSUME NEW s \in Sessions, Sent(Prepare(s))
        PROVE  \E i \in 1..Len(events) : events[i] = Prepare(s)
    <3>1. DOMAIN events = 1..Len(events)
      BY <1>1 DEF IInv, TypeOK, BridgeType
    <3>2. QED
      BY <2>1, <3>1 DEF Sent, Has
  <2>2. QED
    BY <1>1, <2>1 DEF IInv, Reachable, ReachableOf, DecisionIsReachable
<1>2. QED
  BY <1>1, Inductive, PTL

\* Where no two requests share a file id, a file shown as received was written
\* completely for the session shown, whatever session its upload began in
\* (receive_controller.dart:693).
THEOREM WhatIsReceivedIsSaved == Spec => []ReceivedIsSaved
<1>1. ASSUME IInv PROVE ReceivedIsSaved
  <2>1. SUFFICES ASSUME Shown, \A s, t \in Sessions : s # t => offer[s] \cap offer[t] = {},
                        NEW f \in DOMAIN session.files, session.files[f] = "finished"
                 PROVE  result[<<session.id, f>>] = "saved"
    BY DEF ReceivedIsSaved
  <2>2. session.id \in Sessions /\ f \in offer[session.id]
    BY <1>1, <2>1, ShownType DEF IInv
  <2>3. PICK j \in Jobs : FileOf(j) = f /\ f \in offer[SessionOf(j)] /\ result[j] = "saved"
    BY <1>1, <2>1, <2>2 DEF IInv, Written, Saved
  <2>4. SessionOf(j) = session.id
    BY <2>1, <2>2, <2>3, JobParts
  <2>5. QED
    BY <2>3, <2>4, JobParts
<1>2. QED
  BY <1>1, Inductive, PTL

\* As long as every answer reached its request, no upload is left waiting for
\* its target: onFileUpload, or the end of the session, gets at the responder
\* (receive_controller.dart:642, server.rs:395).
THEOREM UploadsAreAnswered == Spec => []UploadIsAnswered
<1>1. ASSUME IInv PROVE UploadIsAnswered
  <2>1. SUFFICES ASSUME Quiet, AnswersItsRequest, NEW j \in Jobs, up[j] = "asked" PROVE FALSE
    BY DEF UploadIsAnswered
  <2>2. Answerable(j) /\ SessionOf(j) \in Sessions
    BY <1>1, <2>1, JobParts DEF IInv, Answering
  <2>3. \A e : ~Piped(e) /\ ~Sent(e)
    <3>1. Pipe = <<>> /\ events = <<>>
      BY <2>1 DEF Quiet, Pipe
    <3>2. QED
      BY <3>1, NothingHeld DEF Piped, Sent
  <2>4. commands = {} /\ saving[j] # "preparing" /\ owed[SessionOf(j)] = "none"
    BY <2>1, <2>2 DEF Quiet
  <2>5. QED
    BY <2>2, <2>3, <2>4 DEF Answerable, Ending
<1>2. QED
  BY <1>1, Inductive, PTL

\* As long as every answer reached its request, no transfer is shown as running
\* for good once its session is over at the server.
THEOREM EndsAreShown == Spec => []EndIsShown
<1>1. ASSUME IInv PROVE EndIsShown
  <2>1. SUFFICES ASSUME Quiet, AnswersItsRequest, NEW s \in Sessions, pc[s] = "opened", slot # s,
                        session.id = s, session.status = "sending"
                 PROVE  FALSE
    BY DEF EndIsShown
  <2>2. \A e : ~Piped(e)
    <3>1. Pipe = <<>>
      BY <2>1 DEF Quiet, Pipe
    <3>2. QED
      BY <3>1, NothingHeld DEF Piped
  <2>3. \A f \in chosen[s] : up[<<s, f>>] = "over"
    BY <1>1, <2>1, <2>2 DEF IInv, Ends, EndsKnown, EndKnown, Gone, Quiet, Allowed
  <2>4. Running(s)
    BY <2>1 DEF Running, Allowed
  <2>5. ASSUME NEW f \in offer[s] PROVE session.files[f] \in Final
    <3>1. PICK j \in Jobs : j = <<s, f>> /\ f \in Files
      BY <1>1, <2>5, JobParts DEF IInv, TypeOK, ServerType
    <3>2. Accounted(s, f)
      BY <1>1, <2>4, <3>1 DEF IInv, Ends, AllAccounted
    <3>3. HandledOf(j)
      BY <1>1 DEF IInv, HandledOnce
    <3>4. CASE f \in chosen[s]
      <4>1. up[j] = "over"
        BY <2>3, <3>1, <3>4
      <4>2. saving[j] \in {"receiving", "over"} /\ (saving[j] = "receiving" => result[j] = "none")
        BY <2>1, <2>2, <3>1, <3>2, <4>1 DEF Accounted, Quiet
      <4>3. saving[j] = "over"
        BY <2>1, <3>3, <4>1, <4>2 DEF HandledOf, Quiet
      <4>4. QED
        BY <3>1, <3>2, <4>3 DEF Accounted
    <3>5. CASE f \notin chosen[s]
      BY <3>2, <3>5 DEF Accounted
    <3>6. QED
      BY <3>4, <3>5
  <2>6. PICK j \in Jobs : saving[j] = "recording"
    BY <1>1, <2>1, <2>5 DEF IInv, Ends, Concluding
  <2>7. QED
    BY <2>1, <2>6 DEF Quiet
<1>2. QED
  BY <1>1, Inductive, PTL

-----------------------------------------------------------------------------
(* The slot implements SessionSlot                                         *)

LEMMA LifeParts ==
  ASSUME Holders, NEW s \in Sessions
  PROVE  /\ life[s] = "new" <=> pc[s] = "new"
         /\ life[s] = "reserved" <=> pc[s] = "waiting"
         /\ life[s] = "open" <=> slot = s
         /\ life[s] \in {"new", "reserved", "open", "closed"}
  BY SlotNames DEF life, Holders

LEMMA RefinesInit == Init => Slot!Init
  BY SlotNames DEF Init, Slot!Init, life

LEMMA RefinesStep == IInv /\ IInv' /\ [Next]_vars => [Slot!Next]_life
<1> USE SlotNames
<1> SUFFICES ASSUME TypeOK, Holders, Holders', [Next]_vars PROVE [Slot!Next]_life
  BY DEF IInv
<1>1. ASSUME UNCHANGED <<pc, slot>> PROVE UNCHANGED life
  BY <1>1 DEF life
<1>2. ASSUME NEW s \in Sessions, NEW stage,
             \A t \in Sessions : life'[t] = IF t = s THEN stage ELSE life[t]
      PROVE  life' = [life EXCEPT ![s] = stage]
  BY <1>2 DEF life
<1>3. ASSUME NEW s \in Sessions, Request(s) PROVE Slot!Reserve(s)
  <2>1. /\ pc[s] = "new" /\ pc' = [pc EXCEPT ![s] = "waiting"] /\ slot # "pending" /\ slot' = "pending"
    BY <1>3, RequestReplaces DEF Request
  <2>2. life[s] = "new" /\ \A t \in Sessions : life[t] # "reserved"
    BY <2>1, LifeParts DEF Holders
  <2>3. ASSUME NEW t \in Sessions
        PROVE  life'[t] = IF t = s THEN "reserved" ELSE IF life[t] = "open" THEN "closed" ELSE life[t]
    BY <2>1 DEF life, Holders, TypeOK, ServerType
  <2>4. life' = [t \in Sessions |->
                   IF t = s THEN "reserved" ELSE IF life[t] = "open" THEN "closed" ELSE life[t]]
    BY <2>3 DEF life
  <2>5. QED
    BY <2>2, <2>4 DEF Slot!Reserve
<1>4. ASSUME NEW s \in Sessions, Refuse(s) PROVE Slot!Refuse(s)
  <2>1. pc[s] = "new" /\ pc' = [pc EXCEPT ![s] = "over"] /\ slot # "free" /\ slot' = slot
    BY <1>4 DEF Refuse
  <2>2. life[s] = "new" /\ \E t \in Sessions : life[t] \in {"reserved", "open"}
    BY <2>1, LifeParts DEF Holders, TypeOK, ServerType
  <2>3. \A t \in Sessions : life'[t] = IF t = s THEN "closed" ELSE life[t]
    BY <2>1 DEF life, Holders, TypeOK, ServerType
  <2>4. QED
    BY <1>2, <2>2, <2>3 DEF Slot!Refuse
<1>5. ASSUME NEW s \in Sessions, pc[s] = "waiting", pc' = [pc EXCEPT ![s] = "over"], slot' = "free"
      PROVE  Slot!Close(s)
  <2>1. life[s] = "reserved" /\ slot = "pending"
    BY <1>5, LifeParts DEF Holders
  <2>2. \A t \in Sessions : life'[t] = IF t = s THEN "closed" ELSE life[t]
    BY <1>5, <2>1 DEF life, TypeOK, ServerType
  <2>3. QED
    BY <1>2, <2>1, <2>2 DEF Slot!Close
<1>6. ASSUME NEW s \in Sessions, pc[s] = "waiting", pc' = [pc EXCEPT ![s] = "opened"], slot' = s
      PROVE  Slot!Open(s)
  <2>1. life[s] = "reserved" /\ slot = "pending"
    BY <1>6, LifeParts DEF Holders
  <2>2. \A t \in Sessions : life'[t] = IF t = s THEN "open" ELSE life[t]
    BY <1>6, <2>1 DEF life, TypeOK, ServerType
  <2>3. QED
    BY <1>2, <2>1, <2>2 DEF Slot!Open
<1>7. ASSUME UNCHANGED pc, slot \in Sessions, slot' = "free" PROVE Slot!Close(slot)
  <2>1. PICK s \in Sessions : s = slot
    BY <1>7
  <2>2. life[s] = "open" /\ pc[s] = "opened"
    BY <2>1, LifeParts DEF Holders
  <2>3. \A t \in Sessions : life'[t] = IF t = s THEN "closed" ELSE life[t]
    BY <1>7, <2>1, <2>2 DEF life
  <2>4. QED
    BY <1>2, <2>1, <2>2, <2>3 DEF Slot!Close
<1>8. ASSUME NEW s \in Sessions, HangUp(s) \/ Respond(s) PROVE Slot!Close(s) \/ Slot!Open(s)
  BY <1>5, <1>6, <1>8 DEF HangUp, Respond, Vacate
<1>9. ASSUME NEW j \in Jobs, StartUpload(j) \/ FinalizeFile(j), UNCHANGED pc
      PROVE  UNCHANGED <<pc, slot>> \/ (slot \in Sessions /\ slot' = "free")
  BY <1>9, JobParts DEF StartUpload, FinalizeFile, Vacate
<1>10. QED
  BY <1>1, <1>3, <1>4, <1>7, <1>8, <1>9, SlotStep DEF Slot!Next, Vacate

\* With the bridge and the application around it, the slot behaves like the
\* abstract one: sessions are reserved, opened and closed once each, one at a
\* time (v2.rs:295, v2.rs:559).
THEOREM SlotIsRefined == Spec => SlotSpec
<1>1. QED
  BY RefinesInit, RefinesStep, Inductive, PTL DEF Spec, SlotSpec, Slot!Spec

=============================================================================
