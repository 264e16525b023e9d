------------------------ MODULE MobileSessionProofs ------------------------
(***************************************************************************)
(* Proofs about MobileSession, for any number of sessions, ids, streams    *)
(* and messages in transit.                                                *)
(*                                                                         *)
(* A mobile session relies on the order of what it sent and of what comes  *)
(* back: Orderly says what is in transit for an id, and whose id it is;    *)
(* Securing what the handshake has reached on both sides; Registering that *)
(* the registration precedes everything that could be taken for its answer;*)
(* Armed that whoever must answer heartbeats still expects them; Concord   *)
(* that a session and SDL agree on what is secure once what is under way   *)
(* has arrived.                                                            *)
(***************************************************************************)
EXTENDS MobileSession, FiniteSetTheorems, SequenceTheorems, TLAPS

Monitor == [enabled : BOOLEAN, confirmed : BOOLEAN, timerStarted : BOOLEAN, timer : BOOLEAN]
SdlSession == [live : BOOLEAN, used : BOOLEAN, hand : {"none", "hello", "finish", "done"},
               wait : SUBSET Services, secure : SUBSET Services, answered : BOOLEAN]
StartHandler == [s : Sessions, nr : 1..MaxUses, by : SUBSET Sessions]

-----------------------------------------------------------------------------
(* Whose id it is                                                          *)

Owned(id) == \E s \in Sessions : sessionId[s] = id
Ends(m) == m.type = "END" /\ m.svc = RPC
Opens(m) == m.type = "START" /\ m.svc = RPC /\ ~m.enc
Opened(m) == m.type = "START_ACK" /\ m.svc = RPC /\ ~m.enc

(* A session has no id before it is started, and the heartbeat of one that *)
(* was stopped, or has no id, is off.                                      *)
Lives ==
  \A s \in Sessions :
    /\ uses[s] \in 0..2
    /\ hashCode[s] <=> sessionId[s] # 0
    /\ uses[s] = 0 => sessionId[s] = 0
    /\ uses[s] = 2 => sessionId[s] # 0
    /\ heartbeat[s].enabled => uses[s] = 1 /\ sessionId[s] # 0
    /\ sessionId[s] # 0 => sdl[sessionId[s]].used
    /\ uses[s] = 1 /\ sessionId[s] # 0 => sdl[sessionId[s]].live

(* Two sessions do not share an id.                                        *)
Distinct ==
  \A s, t \in Sessions : sessionId[s] = sessionId[t] /\ sessionId[s] # 0 => s = t

(* Only a session that was started expects something, and only one with an *)
(* id a secure start.                                                      *)
Expecting ==
  \A e \in pool : /\ uses[e.s] # 0
                  /\ e.kind = "start" /\ e.enc => sessionId[e.s] # 0

(* To SDL: it has the sessions that send, and after END_SERVICE of the RPC *)
(* service only a handshake goes on.                                       *)
OpensWithout == \A i \in 1..Len(toSDL) : Opens(toSDL[i]) => toSDL[i].id = 0
SentOwned == \A i \in 1..Len(toSDL) : toSDL[i].id # 0 => Owned(toSDL[i].id)
SentLive ==
  \A i \in 1..Len(toSDL) :
    toSDL[i].type \in {"START", "END"} /\ toSDL[i].id # 0 => sdl[toSDL[i].id].live
EndsStopped ==
  \A i \in 1..Len(toSDL) : Ends(toSDL[i]) =>
    \A s \in Sessions : sessionId[s] = toSDL[i].id => uses[s] = 2
EndsLast ==
  \A i, j \in 1..Len(toSDL) :
    i < j /\ Ends(toSDL[i]) /\ toSDL[j].id = toSDL[i].id => toSDL[j].type = "HANDSHAKE"
FromMobile == OpensWithout /\ SentOwned /\ SentLive /\ EndsStopped /\ EndsLast

(* From SDL: no refusal; the answer with a new id comes once, and nobody   *)
(* has the id before.                                                      *)
Accepts ==
  \A i \in 1..Len(toMobile) :
    /\ toMobile[i].id # 0 /\ sdl[toMobile[i].id].used
    /\ toMobile[i].type \notin {"START_NACK", "END_NACK"}
OpenedFresh ==
  \A i \in 1..Len(toMobile) : Opened(toMobile[i]) =>
    ~Owned(toMobile[i].id) /\ sdl[toMobile[i].id].live
OpenedOnce ==
  \A i, j \in 1..Len(toMobile) :
    Opened(toMobile[i]) /\ Opened(toMobile[j]) /\ toMobile[j].id = toMobile[i].id => i = j
AnswersOwned ==
  \A i \in 1..Len(toMobile) :
    Owned(toMobile[i].id) \/ Opened(toMobile[i]) \/ toMobile[i].type = "HEARTBEAT"
FromSdl == Accepts /\ OpenedFresh /\ OpenedOnce /\ AnswersOwned

Used == \A id \in Ids : sdl[id].live => sdl[id].used

(* What is started is a service, not the control messages.                 *)
Proper ==
  /\ \A e \in pool : e.kind = "start" => e.svc \in Services
  /\ \A i \in 1..Len(toSDL) : toSDL[i].type = "START" => toSDL[i].svc \in Services

Orderly == TypeOK /\ Proper /\ Lives /\ Distinct /\ Expecting /\ FromMobile /\ FromSdl /\ Used

-----------------------------------------------------------------------------
(* What the handshake has reached                                          *)

Shakes(m) == m.type = "HANDSHAKE" /\ m.cid = 2
Secures(m) == m.type = "START_ACK" /\ m.enc
Ended(m) == m.type = "END_ACK" /\ m.svc = RPC

(* A security is registered under the id of its session, as long as SDL    *)
(* has the session; a session without an id has none.                      *)
Holders ==
  \A id \in 0..MaxId :
    mobileSecurities[id] # Nil => id # 0 /\ sessionId[mobileSecurities[id]] = id
Bare == \A s \in Sessions : sessionId[s] = 0 => ssl[s] = "none" /\ ~isSecuredSession[s]
Holding ==
  \A s \in Sessions :
    sessionId[s] # 0 /\ sdl[sessionId[s]].live /\ ssl[s] # "none" =>
      mobileSecurities[sessionId[s]] = s

(* SDL is as far as the session, or behind.                                *)
NoHand == \A id \in Ids : ~Owned(id) => sdl[id].hand = "none"
HandBehind ==
  \A s \in Sessions :
    sessionId[s] # 0 /\ sdl[sessionId[s]].hand = "done" => ssl[s] = "finished"
ShakeBehind ==
  \A s \in Sessions : \A i \in 1..Len(toSDL) :
    sessionId[s] # 0 /\ Shakes(toSDL[i]) /\ toSDL[i].id = sessionId[s] => ssl[s] = "finished"

(* A secure service is acknowledged to a session that is ready, and before *)
(* the end of the session.                                                 *)
EndedGone == \A i \in 1..Len(toMobile) : Ended(toMobile[i]) => ~sdl[toMobile[i].id].live
AckReady ==
  \A i \in 1..Len(toMobile) : \A s \in Sessions :
    Secures(toMobile[i]) /\ sessionId[s] = toMobile[i].id =>
      ssl[s] = "finished" /\ mobileSecurities[sessionId[s]] = s
AckBefore ==
  \A i, k \in 1..Len(toMobile) :
    Secures(toMobile[i]) /\ Ended(toMobile[k]) /\ toMobile[k].id = toMobile[i].id => i < k

Securing ==
  /\ Holders /\ Bare /\ Holding /\ NoHand /\ HandBehind /\ ShakeBehind
  /\ EndedGone /\ AckReady /\ AckBefore /\ SecureMeansReady

-----------------------------------------------------------------------------
(* That the registration comes first                                       *)

Registers(m) == m.type = "REQUEST" /\ ~m.enc
Settled(id) == sdl[id].answered \/ ~sdl[id].live

(* SDL knows every id that is in use.                                      *)
KnownSdl == \A id \in Ids : sdl[id].live \/ sdl[id].answered => sdl[id].used
KnownIds == \A s \in Sessions : sessionId[s] # 0 => sdl[sessionId[s]].used
KnownSent == \A i \in 1..Len(toSDL) : toSDL[i].id # 0 => sdl[toSDL[i].id].used
KnownTold == \A i \in 1..Len(toMobile) : toMobile[i].id # 0 => sdl[toMobile[i].id].used
Known == KnownSdl /\ KnownIds /\ KnownSent /\ KnownTold

(* The registration of a session with an id is done, pointless or under    *)
(* way, and ahead of every encrypted request.                              *)
UnderWay ==
  \A s \in Sessions : sessionId[s] # 0 =>
    \/ Settled(sessionId[s])
    \/ \E i \in 1..Len(toSDL) : Registers(toSDL[i]) /\ toSDL[i].id = sessionId[s]
Ahead ==
  \A j \in 1..Len(toSDL) :
    toSDL[j].type = "REQUEST" /\ toSDL[j].enc /\ toSDL[j].id # 0 =>
      \/ Settled(toSDL[j].id)
      \/ \E i \in 1..Len(toSDL) : i < j /\ Registers(toSDL[i]) /\ toSDL[i].id = toSDL[j].id
Registered == UnderWay /\ Ahead
Responded ==
  \A i \in 1..Len(toMobile) : toMobile[i].type = "RESPONSE" =>
    toMobile[i].id # 0 /\ sdl[toMobile[i].id].answered

Registering == TypeOK /\ Proper /\ Known /\ Registered /\ Responded /\ RaisedMeansAnswered


-----------------------------------------------------------------------------
(* Operators                                                               *)

LEMMA ServicesFinite == IsFiniteSet(Services)
<1>1. IsFiniteSet({RPC})
  BY FS_Singleton
<1>. QED
  BY <1>1, FS_Union, SessionAssumption DEF Services

(* The acknowledgements that SDL sends at the end of a handshake.          *)
Acks(id, W) == {Frame("START_ACK", id, svc, TRUE) : svc \in W}

LEMMA AcksInSequence ==
  ASSUME NEW id, NEW W \in SUBSET Services
  PROVE  SetToSeq(Acks(id, W)) \in Seq(Acks(id, W))
<1>. DEFINE A == Acks(id, W)
<1>1. IsFiniteSet(W)
  BY ServicesFinite, FS_Subset
<1>2. Cardinality(W) \in Nat /\ ExistsBijection(1..Cardinality(W), W)
  BY <1>1, FS_CardinalityType
<1>. DEFINE n == Cardinality(W)
<1>. HIDE DEF n
<1>3. n \in Nat /\ \E b : b \in Bijection(1..n, W)
  BY <1>2 DEF n, ExistsBijection
<1>4. PICK b : b \in Bijection(1..n, W)
  BY <1>3
<1>5. /\ b \in [1..n -> W]
      /\ \A i, k \in 1..n : b[i] = b[k] => i = k
      /\ \A w \in W : \E i \in 1..n : b[i] = w
  BY <1>4 DEF Bijection, Injection, Surjection, IsInjective
<1>. DEFINE g == [i \in 1..n |-> Frame("START_ACK", id, b[i], TRUE)]
<1>6. g \in [1..n -> A]
  BY <1>5 DEF Acks
<1>7. \A i, k \in 1..n : g[i] = g[k] => i = k
  BY <1>5 DEF Frame
<1>8. ASSUME NEW x \in A
      PROVE  \E i \in 1..n : g[i] = x
  <2>1. PICK w \in W : x = Frame("START_ACK", id, w, TRUE)
    BY DEF Acks
  <2>2. PICK i \in 1..n : b[i] = w
    BY <1>5
  <2>. QED
    BY <2>1, <2>2
<1>9. g \in Bijection(1..n, A)
  BY <1>6, <1>7, <1>8 DEF Bijection, Injection, Surjection, IsInjective
<1>. HIDE DEF A, g
<1>10. ExistsBijection(1..n, A)
  BY <1>9 DEF ExistsBijection
<1>11. Cardinality(A) = n
  BY <1>3, <1>10, FS_CountingElements
<1>12. \E f \in [1..Cardinality(A) -> A] : IsInjective(f)
  BY <1>6, <1>7, <1>11 DEF IsInjective
<1>13. SetToSeq(A) \in [1..Cardinality(A) -> A]
  BY <1>12 DEF SetToSeq
<1>. QED
  BY <1>3, <1>11, <1>13 DEF A


MessageTypes == {"START", "END", "HEARTBEAT", "HEARTBEAT_ACK", "HANDSHAKE", "REQUEST",
                 "START_ACK", "START_NACK", "END_ACK", "END_NACK", "RESPONSE"}
Named == Services \cup {"CONTROL"}

LEMMA MessageShape ==
  Message = [type : MessageTypes, id : 0..MaxId, svc : Named, enc : BOOLEAN, cid : Nat,
             ok : BOOLEAN]
  BY DEF Message, MessageTypes, Named

LEMMA FrameType ==
  ASSUME NEW type \in MessageTypes, NEW id \in 0..MaxId, NEW svc \in Named, NEW enc \in BOOLEAN
  PROVE  Frame(type, id, svc, enc) \in Message
  BY MessageShape DEF Frame

LEMMA NumberedType ==
  ASSUME NEW type \in MessageTypes, NEW id \in 0..MaxId, NEW svc \in Named, NEW enc \in BOOLEAN,
         NEW cid \in Nat
  PROVE  [Frame(type, id, svc, enc) EXCEPT !.cid = cid] \in Message
  BY MessageShape DEF Frame

LEMMA CallType ==
  ASSUME NEW type \in MessageTypes, NEW id \in 0..MaxId, NEW enc \in BOOLEAN, NEW cid \in Nat,
         NEW ok \in BOOLEAN
  PROVE  Call(type, id, enc, cid, ok) \in Message
  BY MessageShape DEF Call, Named, Services

LEMMA BeatType ==
  ASSUME NEW type \in MessageTypes, NEW id \in 0..MaxId
  PROVE  Beat(type, id) \in Message
  BY MessageShape DEF Beat, Frame, Named

(* What a message that SDL or a session makes looks like.                  *)
LEMMA FrameFields ==
  ASSUME NEW type, NEW id, NEW svc, NEW enc, NEW cid, NEW ok
  PROVE  /\ Frame(type, id, svc, enc).type = type /\ Frame(type, id, svc, enc).id = id
         /\ Frame(type, id, svc, enc).svc = svc /\ Frame(type, id, svc, enc).enc = enc
         /\ Frame(type, id, svc, enc).cid = 0
         /\ [Frame(type, id, svc, enc) EXCEPT !.cid = cid].type = type
         /\ [Frame(type, id, svc, enc) EXCEPT !.cid = cid].id = id
         /\ [Frame(type, id, svc, enc) EXCEPT !.cid = cid].svc = svc
         /\ [Frame(type, id, svc, enc) EXCEPT !.cid = cid].enc = enc
         /\ [Frame(type, id, svc, enc) EXCEPT !.cid = cid].cid = cid
         /\ Call(type, id, enc, cid, ok).type = type /\ Call(type, id, enc, cid, ok).id = id
         /\ Call(type, id, enc, cid, ok).svc = RPC /\ Call(type, id, enc, cid, ok).enc = enc
         /\ Beat(type, id).type = type /\ Beat(type, id).id = id
         /\ Beat(type, id).svc = "CONTROL" /\ Beat(type, id).enc = FALSE
  BY DEF Frame, Call, Beat

Kinds == {"start", "end", "handshake", "beat", "beatAck", "response"}
Statuses == {"none", "SUCCESS", "FAILED"}

LEMMA ExpectForms ==
  ASSUME NEW s \in Sessions, NEW kind \in Kinds, NEW svc \in Named, NEW enc \in BOOLEAN,
         NEW cid \in Nat
  PROVE  /\ Expect(s, kind, svc, enc, cid) \in Expectation
         /\ Expect(s, kind, svc, enc, cid).s = s /\ Expect(s, kind, svc, enc, cid).kind = kind
         /\ Expect(s, kind, svc, enc, cid).enc = enc
  BY DEF Expect, Expectation, Kinds, Named

(* An expectation that has got a status is the same expectation.           *)
LEMMA Restatus ==
  ASSUME NEW e \in Expectation, NEW st \in Statuses, NEW l \in BOOLEAN
  PROVE  /\ [e EXCEPT !.status = st] \in Expectation
         /\ [e EXCEPT !.status = st, !.listed = l] \in Expectation
         /\ [e EXCEPT !.status = st].s = e.s /\ [e EXCEPT !.status = st].kind = e.kind
         /\ [e EXCEPT !.status = st].enc = e.enc /\ [e EXCEPT !.status = st].svc = e.svc
         /\ [e EXCEPT !.status = st, !.listed = l].s = e.s
         /\ [e EXCEPT !.status = st, !.listed = l].kind = e.kind
         /\ [e EXCEPT !.status = st, !.listed = l].enc = e.enc
         /\ [e EXCEPT !.status = st, !.listed = l].svc = e.svc
  BY DEF Expectation, Statuses

LEMMA ValidatedType == \A e, m : Validated(e, m) \in Statuses
  BY DEF Validated, Statuses

Like(e, f) == f.s = e.s /\ f.kind = e.kind /\ f.enc = e.enc /\ f.svc = e.svc

LEMMA HandledType ==
  ASSUME TypeOK, NEW e \in pool, NEW m
  PROVE  /\ Handled(e, m) \subseteq Expectation
         /\ \A x \in Handled(e, m) : \E f \in pool : Like(x, f)
<1>1. e \in Expectation /\ pool \subseteq Expectation
  BY DEF TypeOK
<1>2. Validated(e, m) \in Statuses
  BY ValidatedType
<1>. DEFINE r == [e EXCEPT !.status = Validated(e, m)]
<1>3. r \in Expectation /\ r.s = e.s /\ r.kind = e.kind /\ r.enc = e.enc /\ r.svc = e.svc
  BY <1>1, <1>2, Restatus
<1>4. Handled(e, m) = (pool \ {e}) \cup {r}
  BY DEF Handled
<1>. HIDE DEF r
<1>. QED
  BY <1>1, <1>3, <1>4 DEF Like

LEMMA MonitorForms ==
  ASSUME NEW h \in Monitor
  PROVE  /\ OnMessageSent(h) \in Monitor /\ OnMessageSent(h).enabled = h.enabled
         /\ StartHeartbeat(h) \in Monitor
         /\ StopHeartbeat(h) \in Monitor /\ ~StopHeartbeat(h).enabled
         /\ [h EXCEPT !.confirmed = TRUE] \in Monitor
         /\ [h EXCEPT !.confirmed = TRUE].enabled = h.enabled
         /\ Idle \in Monitor /\ ~Idle.enabled
<1>1. ("activate" \in Flags) \in BOOLEAN /\ ("send" \in Flags) \in BOOLEAN
      /\ ("ignoreAck" \in Flags) \in BOOLEAN
  OBVIOUS
<1>. QED
  BY <1>1 DEF Monitor, OnMessageSent, StartHeartbeat, Starting, StopHeartbeat, Idle

LEMMA BeatForms ==
  ASSUME NEW s \in Sessions, NEW h \in Monitor, NEW id \in 0..MaxId
  PROVE  /\ FirstBeat(h, id) \in Seq(Message)
         /\ \A i \in 1..Len(FirstBeat(h, id)) : FirstBeat(h, id)[i] = Beat("HEARTBEAT", id)
         /\ BeatExpectations(s, h) \subseteq Expectation
         /\ \A e \in BeatExpectations(s, h) : e.s = s /\ e.kind \in {"beat", "beatAck"}
<1>1. Beat("HEARTBEAT", id) \in Message
  BY BeatType DEF MessageTypes
<1>. DEFINE b == Expect(s, "beat", "CONTROL", FALSE, 0)
            a == Expect(s, "beatAck", "CONTROL", FALSE, 0)
<1>3. b \in Expectation /\ b.s = s /\ b.kind = "beat"
  BY DEF Expect, Expectation
<1>4. a \in Expectation /\ a.s = s /\ a.kind = "beatAck"
  BY DEF Expect, Expectation
<1>5. BeatExpectations(s, h) \subseteq {a, b}
  BY DEF BeatExpectations
<1>6. /\ FirstBeat(h, id) \in Seq(Message)
      /\ \A i \in 1..Len(FirstBeat(h, id)) : FirstBeat(h, id)[i] = Beat("HEARTBEAT", id)
  <2>1. CASE Starting(h)
    <3>. DEFINE q == <<Beat("HEARTBEAT", id)>>
    <3>1. q \in Seq(Message) /\ Len(q) = 1 /\ q[1] = Beat("HEARTBEAT", id)
      BY <1>1
    <3>. QED
      BY <2>1, <3>1 DEF FirstBeat
  <2>2. CASE ~Starting(h)
    BY <2>2 DEF FirstBeat
  <2>. QED
    BY <2>1, <2>2
<1>. HIDE DEF a, b
<1>. QED
  BY <1>3, <1>4, <1>5, <1>6


-----------------------------------------------------------------------------
(* Types                                                                   *)

IdTypes ==
  /\ sessionId \in [Sessions -> 0..MaxId] /\ hashCode \in [Sessions -> BOOLEAN]
  /\ correlationId \in [Sessions -> Nat] /\ uses \in [Sessions -> 0..MaxUses]
  /\ startEvents \subseteq StartHandler /\ seen \subseteq Oddities
SecurityTypes ==
  /\ isSecuredSession \in [Sessions -> BOOLEAN]
  /\ encryptedServices \in [Sessions -> SUBSET Services]
  /\ ssl \in [Sessions -> {"none", "new", "hello", "finished"}]
  /\ mobileSecurities \in [0..MaxId -> Sessions \cup {Nil}]
BeatTypes == heartbeat \in [Sessions -> Monitor]
PoolTypes == pool \subseteq Expectation
WireTypes == toSDL \in Seq(Message) /\ toMobile \in Seq(Message)
SdlTypes == sdl \in [Ids -> SdlSession]

LEMMA TypeParts ==
  TypeOK <=> IdTypes /\ SecurityTypes /\ BeatTypes /\ PoolTypes /\ WireTypes /\ SdlTypes
  BY DEF TypeOK, IdTypes, SecurityTypes, BeatTypes, PoolTypes, WireTypes, SdlTypes,
         Monitor, SdlSession, StartHandler

LEMMA TypePartsNext ==
  TypeOK' <=> IdTypes' /\ SecurityTypes' /\ BeatTypes' /\ PoolTypes' /\ WireTypes' /\ SdlTypes'
  BY DEF TypeOK, IdTypes, SecurityTypes, BeatTypes, PoolTypes, WireTypes, SdlTypes,
         Monitor, SdlSession, StartHandler

LEMMA TypeInit == Init => TypeOK
<1>. SUFFICES ASSUME Init
              PROVE  IdTypes /\ SecurityTypes /\ BeatTypes /\ PoolTypes /\ WireTypes /\ SdlTypes
  BY TypeParts
<1>1. IdTypes
  BY SessionAssumption DEF Init, IdTypes
<1>2. SecurityTypes
  BY DEF Init, SecurityTypes
<1>3. BeatTypes
  BY DEF Init, BeatTypes, Idle, Monitor
<1>4. PoolTypes /\ WireTypes
  BY DEF Init, PoolTypes, WireTypes
<1>5. SdlTypes
  BY DEF Init, SdlTypes, Free, SdlSession
<1>. QED
  BY <1>1, <1>2, <1>3, <1>4, <1>5

(* Send and OnMessageSent.                                                 *)
LEMMA SendTypes ==
  ASSUME TypeOK, NEW s \in Sessions, NEW m \in Message, Send(s, m)
  PROVE  toSDL' \in Seq(Message) /\ BeatTypes'
<1>1. heartbeat \in [Sessions -> Monitor] /\ toSDL \in Seq(Message)
  BY TypeParts DEF BeatTypes, WireTypes
<1>2. OnMessageSent(heartbeat[s]) \in Monitor
  BY <1>1, MonitorForms
<1>. QED
  BY <1>1, <1>2 DEF Send, BeatTypes

LEMMA AddedTypes ==
  ASSUME TypeOK, NEW E \in SUBSET Expectation, Added(E)
  PROVE  PoolTypes'
  BY TypeParts DEF PoolTypes, Added

LEMMA OddTypes ==
  ASSUME TypeOK, NEW f \in Oddities, NEW c, Odd(f, c)
  PROVE  seen' \subseteq Oddities
  BY TypeParts DEF IdTypes, Odd

LEMMA StartTypes ==
  ASSUME TypeOK, NEW s \in Sessions, Start(s)
  PROVE  TypeOK'
<1>1. IdTypes /\ SecurityTypes /\ BeatTypes /\ PoolTypes /\ WireTypes /\ SdlTypes
  BY TypeParts
<1>2. sessionId[s] \in 0..MaxId /\ RPC \in Named /\ "START" \in MessageTypes /\ "start" \in Kinds
  BY <1>1 DEF IdTypes, Named, Services, MessageTypes, Kinds
<1>3. Frame("START", sessionId[s], RPC, FALSE) \in Message
  BY <1>2, FrameType
<1>4. Expect(s, "start", RPC, FALSE, 0) \in Expectation
  BY <1>2, ExpectForms
<1>5. IdTypes'
  <2>1. seen' \subseteq Oddities
    BY OddTypes DEF Start, Oddities
  <2>2. uses' \in [Sessions -> 0..MaxUses] /\ uses[s] + 1 \in 1..MaxUses
    BY <1>1, SessionAssumption DEF Start, IdTypes
  <2>3. [s |-> s, nr |-> uses[s] + 1, by |-> {}] \in StartHandler
    BY <2>2 DEF StartHandler
  <2>4. startEvents' \subseteq StartHandler
    BY <1>1, <2>3 DEF Start, IdTypes
  <2>. QED
    BY <1>1, <2>1, <2>2, <2>4 DEF Start, IdTypes, idVars
<1>6. PoolTypes'
  BY <1>4, AddedTypes DEF Start
<1>7. BeatTypes' /\ WireTypes'
  BY <1>1, <1>3, SendTypes DEF Start, WireTypes
<1>8. SecurityTypes' /\ SdlTypes'
  BY <1>1 DEF Start, SecurityTypes, SdlTypes, securityVars
<1>. QED
  BY <1>5, <1>6, <1>7, <1>8, TypePartsNext

LEMMA StopTypes ==
  ASSUME TypeOK, NEW s \in Sessions, Stop(s)
  PROVE  TypeOK'
<1>1. IdTypes /\ SecurityTypes /\ BeatTypes /\ PoolTypes /\ WireTypes /\ SdlTypes
  BY TypeParts
<1>2. sessionId[s] \in 0..MaxId /\ RPC \in Named /\ "END" \in MessageTypes /\ "end" \in Kinds
  BY <1>1 DEF IdTypes, Named, Services, MessageTypes, Kinds
<1>3. Frame("END", sessionId[s], RPC, FALSE) \in Message
  BY <1>2, FrameType
<1>4. Expect(s, "end", RPC, FALSE, 0) \in Expectation
  BY <1>2, ExpectForms
<1>5. IdTypes'
  <2>1. seen' \subseteq Oddities
    BY OddTypes DEF Stop, Oddities
  <2>. QED
    BY <1>1, <2>1, SessionAssumption DEF Stop, IdTypes, idVars
<1>6. PoolTypes'
  BY <1>4, AddedTypes DEF Stop
<1>7. BeatTypes'
  <2>1. StopHeartbeat(OnMessageSent(heartbeat[s])) \in Monitor
    BY <1>1, MonitorForms DEF BeatTypes
  <2>. QED
    BY <1>1, <2>1 DEF Stop, BeatTypes
<1>8. SecurityTypes' /\ SdlTypes'
  BY <1>1 DEF Stop, SecurityTypes, SdlTypes, securityVars
<1>9. WireTypes'
  <2>. DEFINE m == Frame("END", sessionId[s], RPC, FALSE)
  <2>1. m \in Message /\ toSDL' = Append(toSDL, m) /\ UNCHANGED toMobile
    BY <1>3 DEF Stop
  <2>. HIDE DEF m
  <2>. QED
    BY <1>1, <2>1 DEF WireTypes
<1>. QED
  BY <1>5, <1>6, <1>7, <1>8, <1>9, TypePartsNext


-----------------------------------------------------------------------------
(* Steps in which a session speaks: all but Start, Stop and the answer to  *)
(* Start                                                                   *)

Loose == Faults \cap {"stopped", "restart"} # {}
Delivers == toMobile # <<>> /\ toMobile' = Tail(toMobile)

Said(m) ==
  \E s \in Sessions :
    /\ m.id = sessionId[s] /\ ~Registers(m) /\ ~Opens(m) /\ ~Ends(m)
    /\ m.type = "START" => m.svc \in Services
    /\ m.type # "HANDSHAKE" => uses[s] = 1 \/ heartbeat[s].enabled \/ Loose
    /\ Shakes(m) => ssl'[s] = "finished"
Says == \E w \in Seq(Message) : toSDL' = toSDL \o w /\ \A k \in 1..Len(w) : Said(w[k])
BeatsOn ==
  \A s \in Sessions : heartbeat'[s].enabled =>
    heartbeat[s].enabled \/ (sessionId[s] # 0 /\ (uses[s] = 1 \/ Loose))
New(e) == /\ uses[e.s] = 1 \/ Loose
          /\ e.kind = "start" => e.svc \in Services
          /\ e.kind = "start" /\ e.enc => sessionId[e.s] # 0
Expects == \A e \in pool' : New(e) \/ \E f \in pool : Like(e, f)
Still == UNCHANGED <<sessionId, hashCode, uses, sdl>>
Speaks == Still /\ (UNCHANGED toMobile \/ Delivers) /\ Says /\ BeatsOn /\ Expects

LEMMA SaysNothing ==
  ASSUME TypeOK, UNCHANGED toSDL
  PROVE  Says
<1>1. toSDL \in Seq(Message)
  BY TypeParts DEF WireTypes
<1>. DEFINE w == <<>>
<1>2. w \in Seq(Message) /\ Len(w) = 0 /\ toSDL \o w = toSDL
  BY <1>1
<1>. HIDE DEF w
<1>3. \A k \in 1..Len(w) : Said(w[k])
  BY <1>2
<1>. QED
  BY <1>2, <1>3 DEF Says

LEMMA SaysOne ==
  ASSUME TypeOK, NEW m \in Message, toSDL' = Append(toSDL, m), Said(m)
  PROVE  Says
<1>1. toSDL \in Seq(Message)
  BY TypeParts DEF WireTypes
<1>. DEFINE w == <<m>>
<1>2. w \in Seq(Message) /\ Len(w) = 1 /\ w[1] = m /\ toSDL \o w = Append(toSDL, m)
  BY <1>1
<1>. HIDE DEF w
<1>3. \A k \in 1..Len(w) : k = 1
  BY <1>2
<1>4. \A k \in 1..Len(w) : Said(w[k])
  BY <1>2, <1>3
<1>. QED
  BY <1>2, <1>4 DEF Says

LEMMA SendBeats ==
  ASSUME TypeOK, NEW s \in Sessions, NEW m, Send(s, m)
  PROVE  BeatsOn
<1>1. heartbeat \in [Sessions -> Monitor]
  BY TypeParts DEF BeatTypes
<1>2. OnMessageSent(heartbeat[s]).enabled = heartbeat[s].enabled
  BY <1>1, MonitorForms
<1>. QED
  BY <1>1, <1>2 DEF Send, BeatsOn

LEMMA SameBeats == UNCHANGED heartbeat => BeatsOn
  BY DEF BeatsOn

LEMMA SamePool == UNCHANGED pool => Expects
  BY DEF Expects, Like

LEMMA AddedExpects ==
  ASSUME NEW E, Added(E), \A e \in E : New(e)
  PROVE  Expects
  BY DEF Added, Expects, Like

LEMMA StartServiceStep ==
  ASSUME TypeOK, NEW s \in Sessions, NEW svc \in Streams, StartService(s, svc)
  PROVE  TypeOK' /\ Speaks
<1>1. IdTypes /\ SecurityTypes /\ BeatTypes /\ PoolTypes /\ WireTypes /\ SdlTypes
  BY TypeParts
<1>. DEFINE m == Frame("START", sessionId[s], svc, FALSE)
            e == Expect(s, "start", svc, FALSE, 0)
<1>2. /\ Send(s, m) /\ Added({e}) /\ Odd("stopped", Stopped(s)) /\ Still
      /\ UNCHANGED <<idVars, correlationId, securityVars, startEvents, uses, toMobile, sdl>>
  BY DEF StartService, Still, idVars
<1>3. sessionId[s] \in 0..MaxId /\ svc \in Named /\ "START" \in MessageTypes /\ "start" \in Kinds
      /\ svc # RPC /\ svc \in Services
  BY <1>1, SessionAssumption DEF IdTypes, Named, Services, MessageTypes, Kinds
<1>4. m \in Message /\ m.type = "START" /\ m.id = sessionId[s] /\ m.svc = svc
  BY <1>3, FrameType DEF Frame
<1>5. e \in Expectation /\ e.s = s /\ ~e.enc /\ e.svc = svc
  BY <1>3, ExpectForms DEF Expect
<1>. HIDE DEF m, e
<1>6. uses[s] = 1 \/ Loose
  BY <1>2 DEF Odd, Stopped, Loose
<1>7. Said(m)
  BY <1>3, <1>4, <1>6 DEF Said, Registers, Opens, Ends, Shakes
<1>8. Speaks
  BY <1>2, <1>4, <1>5, <1>6, <1>7, <1>3, SaysOne, SendBeats, AddedExpects DEF Speaks, Send, New
<1>9. TypeOK'
  <2>1. seen' \subseteq Oddities
    BY <1>2, OddTypes DEF Oddities
  <2>2. IdTypes' /\ SecurityTypes' /\ SdlTypes'
    BY <1>1, <1>2, <2>1 DEF IdTypes, SecurityTypes, SdlTypes, idVars, securityVars
  <2>3. PoolTypes' /\ BeatTypes' /\ WireTypes'
    BY <1>1, <1>2, <1>4, <1>5, SendTypes, AddedTypes DEF WireTypes
  <2>. QED
    BY <2>2, <2>3, TypePartsNext
<1>. QED
  BY <1>8, <1>9


LEMMA StopServiceStep ==
  ASSUME TypeOK, NEW s \in Sessions, NEW svc \in Streams, StopService(s, svc)
  PROVE  TypeOK' /\ Speaks
<1>1. IdTypes /\ SecurityTypes /\ BeatTypes /\ PoolTypes /\ WireTypes /\ SdlTypes
  BY TypeParts
<1>. DEFINE m == Frame("END", sessionId[s], svc, FALSE)
            e == Expect(s, "end", svc, FALSE, 0)
<1>2. /\ Send(s, m) /\ Added({e}) /\ Odd("stopped", Stopped(s)) /\ Still
      /\ UNCHANGED <<idVars, correlationId, securityVars, startEvents, uses, toMobile, sdl>>
  BY DEF StopService, Still, idVars
<1>3. sessionId[s] \in 0..MaxId /\ svc \in Named /\ "END" \in MessageTypes /\ "end" \in Kinds
      /\ svc # RPC /\ svc \in Services
  BY <1>1, SessionAssumption DEF IdTypes, Named, Services, MessageTypes, Kinds
<1>4. m \in Message /\ m.type = "END" /\ m.id = sessionId[s] /\ m.svc = svc
  BY <1>3, FrameType DEF Frame
<1>5. e \in Expectation /\ e.s = s /\ ~e.enc /\ e.svc = svc
  BY <1>3, ExpectForms DEF Expect
<1>. HIDE DEF m, e
<1>6. uses[s] = 1 \/ Loose
  BY <1>2 DEF Odd, Stopped, Loose
<1>7. Said(m)
  BY <1>3, <1>4, <1>6 DEF Said, Registers, Opens, Ends, Shakes
<1>8. Speaks
  BY <1>2, <1>4, <1>5, <1>6, <1>7, <1>3, SaysOne, SendBeats, AddedExpects DEF Speaks, Send, New
<1>9. TypeOK'
  <2>1. seen' \subseteq Oddities
    BY <1>2, OddTypes DEF Oddities
  <2>2. IdTypes' /\ SecurityTypes' /\ SdlTypes'
    BY <1>1, <1>2, <2>1 DEF IdTypes, SecurityTypes, SdlTypes, idVars, securityVars
  <2>3. PoolTypes' /\ BeatTypes' /\ WireTypes'
    BY <1>1, <1>2, <1>4, <1>5, SendTypes, AddedTypes DEF WireTypes
  <2>. QED
    BY <2>2, <2>3, TypePartsNext
<1>. QED
  BY <1>8, <1>9

LEMMA StartSecureStep ==
  ASSUME TypeOK, NEW s \in Sessions, NEW svc \in Services, StartSecureService(s, svc)
  PROVE  TypeOK' /\ Speaks
<1>1. IdTypes /\ SecurityTypes /\ BeatTypes /\ PoolTypes /\ WireTypes /\ SdlTypes
  BY TypeParts
<1>. DEFINE m == Frame("START", sessionId[s], svc, TRUE)
            e == Expect(s, "start", svc, TRUE, 0)
            f == Expect(s, "handshake", svc, FALSE, 0)
<1>2. /\ Send(s, m) /\ sessionId[s] # 0 /\ (Stopped(s) => "stopped" \in Faults)
      /\ UNCHANGED <<idVars, correlationId, isSecuredSession, encryptedServices, startEvents,
                     uses, toMobile, sdl>>
      /\ Added({e}) \/ Added({e, f})
  BY DEF StartSecureService, Still, idVars
<1>3. sessionId[s] \in 0..MaxId /\ svc \in Named /\ "START" \in MessageTypes
      /\ "start" \in Kinds /\ "handshake" \in Kinds
  BY <1>1 DEF IdTypes, Named, MessageTypes, Kinds
<1>4. m \in Message /\ m.type = "START" /\ m.id = sessionId[s] /\ m.enc /\ m.svc = svc
  BY <1>3, FrameType DEF Frame
<1>5. e \in Expectation /\ e.s = s /\ f \in Expectation /\ f.s = s /\ ~f.enc
      /\ e.svc = svc /\ f.svc = svc
  BY <1>3 DEF Expect, Expectation, Kinds, Named
<1>. HIDE DEF m, e, f
<1>6. uses[s] = 1 \/ Loose
  BY <1>2 DEF Stopped, Loose
<1>7. Said(m)
  BY <1>3, <1>4, <1>6 DEF Said, Registers, Opens, Ends, Shakes
<1>8. Speaks
  <2>1. New(e) /\ New(f)
    BY <1>2, <1>5, <1>6 DEF New
  <2>2. Expects
    BY <1>2, <2>1, AddedExpects
  <2>3. Still
    BY <1>2 DEF Still, idVars
  <2>. QED
    BY <1>2, <1>4, <1>7, <2>2, <2>3, SaysOne, SendBeats DEF Speaks, Send
<1>9. TypeOK'
  <2>1. seen' \subseteq Oddities
    BY <1>1 DEF StartSecureService, Oddities, IdTypes
  <2>2. IdTypes' /\ SdlTypes'
    BY <1>1, <1>2, <2>1 DEF IdTypes, SdlTypes, idVars
  <2>3. PoolTypes' /\ BeatTypes' /\ WireTypes'
    BY <1>1, <1>2, <1>4, <1>5, SendTypes, AddedTypes DEF WireTypes
  <2>4. ssl' \in [Sessions -> {"none", "new", "hello", "finished"}]
    BY <1>1 DEF StartSecureService, SecurityTypes, PreparedSsl
  <2>5. mobileSecurities' \in [0..MaxId -> Sessions \cup {Nil}]
    BY <1>1, <1>3 DEF StartSecureService, SecurityTypes
  <2>6. SecurityTypes'
    BY <1>1, <1>2, <2>4, <2>5 DEF SecurityTypes
  <2>. QED
    BY <2>2, <2>3, <2>6, TypePartsNext
<1>. QED
  BY <1>8, <1>9

LEMMA EncryptedStep ==
  ASSUME TypeOK, NEW s \in Sessions, SendEncryptedRPC(s)
  PROVE  TypeOK' /\ Speaks
<1>1. IdTypes /\ SecurityTypes /\ BeatTypes /\ PoolTypes /\ WireTypes /\ SdlTypes
  BY TypeParts
<1>. DEFINE cid == correlationId[s] + 1
            m == Call("REQUEST", sessionId[s], TRUE, cid, TRUE)
            e == Expect(s, "response", RPC, TRUE, cid)
<1>2. /\ Odd("stopped", Stopped(s)) /\ Still
      /\ (Added({e}) /\ Send(s, m)) \/ UNCHANGED <<pool, toSDL, heartbeat>>
      /\ correlationId' = [correlationId EXCEPT ![s] = cid]
      /\ UNCHANGED <<idVars, securityVars, startEvents, uses, toMobile, sdl>>
  BY DEF SendEncryptedRPC, Still, idVars
<1>3. sessionId[s] \in 0..MaxId /\ RPC \in Named /\ "REQUEST" \in MessageTypes
      /\ "response" \in Kinds /\ cid \in Nat
  BY <1>1 DEF IdTypes, Named, Services, MessageTypes, Kinds
<1>. HIDE DEF cid
<1>4. m \in Message /\ m.type = "REQUEST" /\ m.id = sessionId[s] /\ m.enc
  BY <1>3, CallType DEF Call
<1>5. e \in Expectation /\ e.s = s /\ e.kind = "response"
  BY <1>3 DEF Expect, Expectation, Kinds, Named
<1>. HIDE DEF m, e
<1>6. uses[s] = 1 \/ Loose
  BY <1>2 DEF Odd, Stopped, Loose
<1>7. Said(m)
  BY <1>3, <1>4, <1>6 DEF Said, Registers, Opens, Ends, Shakes
<1>8. Speaks
  <2>1. CASE Added({e}) /\ Send(s, m)
    BY <1>2, <1>4, <1>5, <1>6, <1>7, <2>1, SaysOne, SendBeats, AddedExpects
       DEF Speaks, Send, New
  <2>2. CASE UNCHANGED <<pool, toSDL, heartbeat>>
    BY <1>2, <2>2, SaysNothing, SameBeats, SamePool DEF Speaks
  <2>. QED
    BY <1>2, <2>1, <2>2
<1>9. TypeOK'
  <2>1. seen' \subseteq Oddities
    BY <1>2, OddTypes DEF Oddities
  <2>2. IdTypes' /\ SecurityTypes' /\ SdlTypes'
    BY <1>1, <1>2, <1>3, <2>1 DEF IdTypes, SecurityTypes, SdlTypes, idVars, securityVars
  <2>3. PoolTypes' /\ BeatTypes' /\ WireTypes'
    <3>1. CASE Added({e}) /\ Send(s, m)
      BY <1>1, <1>2, <1>4, <1>5, <3>1, SendTypes, AddedTypes DEF WireTypes
    <3>2. CASE UNCHANGED <<pool, toSDL, heartbeat>>
      BY <1>1, <1>2, <3>2 DEF WireTypes, PoolTypes, BeatTypes
    <3>. QED
      BY <1>2, <3>1, <3>2
  <2>. QED
    BY <2>2, <2>3, TypePartsNext
<1>. QED
  BY <1>8, <1>9

LEMMA SendHeartbeatStep ==
  ASSUME TypeOK, NEW s \in Sessions, SendHeartbeat(s)
  PROVE  TypeOK' /\ Speaks
<1>1. IdTypes /\ SecurityTypes /\ BeatTypes /\ PoolTypes /\ WireTypes /\ SdlTypes
  BY TypeParts
<1>. DEFINE m == Beat("HEARTBEAT", sessionId[s])
<1>2. /\ heartbeat[s].enabled /\ toSDL' = Append(toSDL, m) /\ Still
      /\ UNCHANGED <<idVars, correlationId, securityVars, heartbeat, pool, startEvents, uses,
                     toMobile, sdl, seen>>
  BY DEF SendHeartbeat, Still, idVars
<1>3. sessionId[s] \in 0..MaxId /\ "HEARTBEAT" \in MessageTypes
  BY <1>1 DEF IdTypes, MessageTypes
<1>4. m \in Message /\ m.type = "HEARTBEAT" /\ m.id = sessionId[s]
  BY <1>3, BeatType DEF Beat, Frame
<1>. HIDE DEF m
<1>5. Said(m)
  BY <1>2, <1>4 DEF Said, Registers, Opens, Ends, Shakes
<1>6. Speaks
  BY <1>2, <1>4, <1>5, SaysOne, SameBeats, SamePool DEF Speaks
<1>7. IdTypes' /\ SecurityTypes' /\ SdlTypes'
  BY <1>1, <1>2 DEF IdTypes, SecurityTypes, SdlTypes, idVars, securityVars
<1>8. PoolTypes' /\ BeatTypes' /\ WireTypes'
  BY <1>1, <1>2, <1>4 DEF PoolTypes, BeatTypes, WireTypes
<1>. QED
  BY <1>6, <1>7, <1>8, TypePartsNext


LEMMA StopHeartbeatStep ==
  ASSUME TypeOK, NEW s \in Sessions, StopHeartbeatCall(s)
  PROVE  TypeOK' /\ Speaks
<1>1. IdTypes /\ SecurityTypes /\ BeatTypes /\ PoolTypes /\ WireTypes /\ SdlTypes
  BY TypeParts
<1>2. /\ heartbeat' = [heartbeat EXCEPT ![s] = StopHeartbeat(heartbeat[s])] /\ Still
      /\ UNCHANGED <<idVars, correlationId, securityVars, pool, startEvents, uses, toSDL,
                     toMobile, sdl, seen>>
  BY DEF StopHeartbeatCall, Still, idVars
<1>3. StopHeartbeat(heartbeat[s]) \in Monitor /\ ~StopHeartbeat(heartbeat[s]).enabled
  BY <1>1, MonitorForms DEF BeatTypes
<1>4. BeatsOn /\ BeatTypes'
  BY <1>1, <1>2, <1>3 DEF BeatsOn, BeatTypes
<1>5. Speaks
  BY <1>2, <1>4, SaysNothing, SamePool DEF Speaks
<1>6. IdTypes' /\ SecurityTypes' /\ SdlTypes' /\ PoolTypes' /\ WireTypes'
  BY <1>1, <1>2 DEF IdTypes, SecurityTypes, SdlTypes, PoolTypes, WireTypes, idVars, securityVars
<1>. QED
  BY <1>4, <1>5, <1>6, TypePartsNext

LEMMA StartHeartbeatStep ==
  ASSUME TypeOK, NEW s \in Sessions, StartHeartbeatCall(s)
  PROVE  TypeOK' /\ Speaks
<1>1. IdTypes /\ SecurityTypes /\ BeatTypes /\ PoolTypes /\ WireTypes /\ SdlTypes
  BY TypeParts
<1>. DEFINE h == heartbeat[s]
            w == FirstBeat(h, sessionId[s])
            E == BeatExpectations(s, h)
<1>2. /\ sessionId[s] # 0 /\ Odd("restart", uses[s] # 1) /\ Still
      /\ heartbeat' = [heartbeat EXCEPT ![s] = StartHeartbeat(h)]
      /\ toSDL' = toSDL \o w /\ pool' = pool \cup E
      /\ UNCHANGED <<idVars, correlationId, securityVars, startEvents, uses, toMobile, sdl>>
  BY DEF StartHeartbeatCall, Still, idVars
<1>3. h \in Monitor /\ sessionId[s] \in 0..MaxId
  BY <1>1 DEF BeatTypes, IdTypes
<1>4. StartHeartbeat(h) \in Monitor
  BY <1>3, MonitorForms
<1>5. /\ w \in Seq(Message)
      /\ \A k \in 1..Len(w) : w[k] = Beat("HEARTBEAT", sessionId[s])
      /\ E \subseteq Expectation
      /\ \A e \in E : e.s = s /\ e.kind \in {"beat", "beatAck"}
  BY <1>3, BeatForms
<1>6. uses[s] = 1 \/ Loose
  BY <1>2 DEF Odd, Loose
<1>. DEFINE b == Beat("HEARTBEAT", sessionId[s])
<1>7. b.type = "HEARTBEAT" /\ b.id = sessionId[s]
  BY DEF Beat, Frame
<1>. HIDE DEF h, w, E, b
<1>8. Said(b)
  BY <1>6, <1>7 DEF Said, Registers, Opens, Ends, Shakes
<1>9. Says
  BY <1>2, <1>5, <1>8 DEF Says, b
<1>10. BeatsOn /\ BeatTypes'
  BY <1>1, <1>2, <1>4, <1>6 DEF BeatsOn, BeatTypes
<1>11. Expects
  BY <1>2, <1>5, <1>6 DEF Expects, New, Like
<1>12. Speaks
  BY <1>2, <1>9, <1>10, <1>11 DEF Speaks
<1>13. seen' \subseteq Oddities
  BY <1>2, OddTypes DEF Oddities
<1>14. IdTypes' /\ SecurityTypes' /\ SdlTypes'
  BY <1>1, <1>2, <1>13 DEF IdTypes, SecurityTypes, SdlTypes, idVars, securityVars
<1>15. PoolTypes'
  BY <1>1, <1>2, <1>5 DEF PoolTypes
<1>16. WireTypes'
  BY <1>1, <1>2, <1>5 DEF WireTypes
<1>. QED
  BY <1>10, <1>12, <1>14, <1>15, <1>16, TypePartsNext

LEMMA ExpireStep ==
  ASSUME TypeOK, NEW e \in Collected, Expire(e)
  PROVE  TypeOK' /\ Speaks
<1>1. IdTypes /\ SecurityTypes /\ BeatTypes /\ PoolTypes /\ WireTypes /\ SdlTypes
  BY TypeParts
<1>. DEFINE r == [e EXCEPT !.status = "FAILED"]
<1>2. /\ Odd("timeout", TRUE) /\ Still /\ pool' = (pool \ {e}) \cup {r}
      /\ UNCHANGED <<idVars, correlationId, securityVars, heartbeat, startEvents, uses, toSDL,
                     toMobile, sdl>>
  BY DEF Expire, Still, idVars
<1>3. e \in pool /\ e \in Expectation /\ "FAILED" \in Statuses
  BY <1>1 DEF Collected, PoolTypes, Statuses
<1>4. r \in Expectation /\ r.s = e.s /\ r.kind = e.kind /\ r.enc = e.enc /\ r.svc = e.svc
  BY <1>3, Restatus
<1>. HIDE DEF r
<1>5. Expects /\ PoolTypes'
  BY <1>1, <1>2, <1>3, <1>4 DEF Expects, Like, PoolTypes
<1>6. Speaks
  BY <1>2, <1>5, SaysNothing, SameBeats DEF Speaks
<1>7. seen' \subseteq Oddities
  BY <1>2, OddTypes DEF Oddities
<1>8. IdTypes' /\ SecurityTypes' /\ SdlTypes' /\ BeatTypes' /\ WireTypes'
  BY <1>1, <1>2, <1>7
     DEF IdTypes, SecurityTypes, SdlTypes, BeatTypes, WireTypes, idVars, securityVars
<1>. QED
  BY <1>5, <1>6, <1>8, TypePartsNext

LEMMA EndStepStep ==
  ASSUME TypeOK, EndStep
  PROVE  TypeOK' /\ Speaks
<1>1. IdTypes /\ SecurityTypes /\ BeatTypes /\ PoolTypes /\ WireTypes /\ SdlTypes
  BY TypeParts
<1>2. /\ Still /\ pool' \subseteq pool
      /\ UNCHANGED <<idVars, correlationId, securityVars, heartbeat, startEvents, uses, toSDL,
                     toMobile, sdl, seen>>
  BY DEF EndStep, Still, idVars
<1>3. Speaks
  BY <1>2, SaysNothing, SameBeats DEF Speaks, Expects, Like
<1>4. IdTypes' /\ SecurityTypes' /\ SdlTypes' /\ BeatTypes' /\ WireTypes' /\ PoolTypes'
  BY <1>1, <1>2
     DEF IdTypes, SecurityTypes, SdlTypes, BeatTypes, WireTypes, PoolTypes, idVars, securityVars
<1>. QED
  BY <1>3, <1>4, TypePartsNext

-----------------------------------------------------------------------------
(* Steps in which a message of SDL is handled                              *)

(* Message m comes in, and e is the expectation that is found.             *)
Comes(m) == /\ toMobile # <<>> /\ m = Head(toMobile) /\ toMobile' = Tail(toMobile)
            /\ UNCHANGED <<uses, sdl, seen>>
Finds(e, m) == e \in pool /\ Matches(e, m) /\ Comes(m)

LEMMA ComesTypes ==
  ASSUME TypeOK, NEW m, Comes(m)
  PROVE  m \in Message /\ toMobile' \in Seq(Message) /\ m = toMobile[1] /\ Len(toMobile) >= 1
  BY TypeParts DEF WireTypes, Comes

(* Which action runs for which expectation.                                *)
LEMMA Acts ==
  ASSUME NEW e, NEW m, e.kind \in Kinds, Act(e, m)
  PROVE  \/ Ignored(e, m)
         \/ e.kind = "handshake" /\ OnHandshake(e, m)
         \/ e.kind = "beat" /\ OnHeartbeat(e)
         \/ e.kind = "beatAck" /\ OnHeartbeatAck(e, m)
         \/ e.kind = "start" /\ e.enc /\ OnStartSecure(e, m)
         \/ e.kind = "start" /\ e.svc = RPC /\ ~e.enc /\ OnStartRPC(e, m)
         \/ e.kind = "end" /\ e.svc = RPC /\ OnStopRPC(e, m)
         \/ e.kind = "end" /\ e.svc # RPC /\ OnStopService(e, m)
         \/ e.kind = "response" /\ OnResponse(e, m)
<1>1. CASE e.kind = "handshake"
  BY <1>1 DEF Act
<1>2. CASE e.kind = "beat"
  BY <1>2 DEF Act
<1>3. CASE e.kind = "beatAck"
  BY <1>3 DEF Act
<1>4. CASE e.kind = "start" /\ e.enc
  BY <1>4 DEF Act
<1>5. CASE e.kind = "start" /\ ~e.enc
  BY <1>5 DEF Act
<1>6. CASE e.kind = "end"
  BY <1>6 DEF Act
<1>7. CASE e.kind = "response"
  BY <1>7 DEF Act
<1>. QED
  BY <1>1, <1>2, <1>3, <1>4, <1>5, <1>6, <1>7 DEF Kinds


LEMMA Found ==
  ASSUME TypeOK, NEW e, NEW m, Finds(e, m)
  PROVE  /\ e \in pool /\ e \in Expectation /\ e.s \in Sessions /\ e.kind \in Kinds
         /\ m \in Message /\ m.id \in 0..MaxId /\ m.cid \in Nat
         /\ sessionId[e.s] \in 0..MaxId /\ heartbeat[e.s] \in Monitor
         /\ toMobile' \in Seq(Message) /\ Delivers
<1>1. e \in pool /\ Comes(m) /\ Delivers
  BY DEF Finds, Comes, Delivers
<1>2. m \in Message /\ toMobile' \in Seq(Message)
  BY <1>1, ComesTypes
<1>3. e \in Expectation
  BY <1>1, TypeParts DEF PoolTypes
<1>4. e.s \in Sessions /\ e.kind \in Kinds
  BY <1>3 DEF Expectation, Kinds
<1>5. m.id \in 0..MaxId /\ m.cid \in Nat
  BY <1>2 DEF Message
<1>. QED
  BY <1>1, <1>2, <1>3, <1>4, <1>5, TypeParts DEF IdTypes, BeatTypes

(* The expectation gets its status and nothing is sent.                    *)
LEMMA HandlesQuietly ==
  ASSUME TypeOK, NEW e, NEW m, Finds(e, m), pool' = Handled(e, m),
         UNCHANGED <<idVars, correlationId, toSDL>>, startEvents' \subseteq StartHandler,
         SecurityTypes', BeatTypes', BeatsOn
  PROVE  TypeOK' /\ Speaks
<1>1. IdTypes /\ WireTypes /\ SdlTypes
  BY TypeParts
<1>2. /\ e \in pool /\ toMobile' \in Seq(Message) /\ Delivers
      /\ UNCHANGED <<uses, sdl, seen>> /\ Still
  BY Found DEF Finds, Comes, Still, idVars
<1>3. Expects /\ PoolTypes'
  BY <1>2, HandledType DEF Expects, PoolTypes
<1>4. Speaks
  BY <1>2, <1>3, SaysNothing DEF Speaks
<1>5. IdTypes' /\ SdlTypes' /\ WireTypes'
  BY <1>1, <1>2 DEF IdTypes, SdlTypes, WireTypes, idVars
<1>. QED
  BY <1>3, <1>4, <1>5, TypePartsNext

LEMMA IgnoredStep ==
  ASSUME TypeOK, NEW e, NEW m, Finds(e, m), Ignored(e, m)
  PROVE  TypeOK' /\ Speaks
<1>1. IdTypes /\ SecurityTypes /\ BeatTypes
  BY TypeParts
<1>2. /\ pool' = Handled(e, m)
      /\ UNCHANGED <<idVars, correlationId, securityVars, heartbeat, startEvents, toSDL>>
  BY DEF Ignored
<1>3. SecurityTypes' /\ BeatTypes' /\ BeatsOn /\ startEvents' \subseteq StartHandler
  BY <1>1, <1>2, SameBeats DEF SecurityTypes, BeatTypes, IdTypes, securityVars
<1>. QED
  BY <1>2, <1>3, HandlesQuietly

LEMMA StartSecureAnswered ==
  ASSUME TypeOK, NEW e, NEW m, Finds(e, m), e.svc \in Services, OnStartSecure(e, m)
  PROVE  TypeOK' /\ Speaks
<1>1. IdTypes /\ SecurityTypes /\ BeatTypes /\ e.s \in Sessions
  BY TypeParts, Found
<1>2. /\ pool' = Handled(e, m)
      /\ UNCHANGED <<idVars, correlationId, ssl, mobileSecurities, heartbeat, startEvents, toSDL>>
  BY DEF OnStartSecure
<1>3. /\ encryptedServices' \in [Sessions -> SUBSET Services]
      /\ isSecuredSession' \in [Sessions -> BOOLEAN]
  <2>1. CASE m.type = "START_ACK"
    <3>1. /\ encryptedServices' = [encryptedServices EXCEPT
                                    ![e.s] = encryptedServices[e.s] \cup {e.svc}]
          /\ isSecuredSession' = [isSecuredSession EXCEPT ![e.s] = TRUE]
      BY <2>1 DEF OnStartSecure
    <3>2. encryptedServices[e.s] \cup {e.svc} \in SUBSET Services
      BY <1>1 DEF SecurityTypes
    <3>. QED
      BY <1>1, <3>1, <3>2 DEF SecurityTypes
  <2>2. CASE m.type # "START_ACK"
    BY <1>1, <2>2 DEF OnStartSecure, SecurityTypes
  <2>. QED
    BY <2>1, <2>2
<1>4. SecurityTypes' /\ BeatTypes' /\ BeatsOn /\ startEvents' \subseteq StartHandler
  BY <1>1, <1>2, <1>3, SameBeats DEF SecurityTypes, BeatTypes, IdTypes
<1>. QED
  BY <1>2, <1>4, HandlesQuietly

LEMMA StopRPCAnswered ==
  ASSUME TypeOK, NEW e, NEW m, Finds(e, m), OnStopRPC(e, m)
  PROVE  TypeOK' /\ Speaks
<1>1. IdTypes /\ SecurityTypes /\ BeatTypes /\ e.s \in Sessions /\ sessionId[e.s] \in 0..MaxId
  BY TypeParts, Found
<1>2. /\ pool' = Handled(e, m)
      /\ UNCHANGED <<idVars, correlationId, isSecuredSession, ssl, heartbeat, startEvents, toSDL>>
  BY DEF OnStopRPC
<1>3. /\ encryptedServices' \in [Sessions -> SUBSET Services]
      /\ mobileSecurities' \in [0..MaxId -> Sessions \cup {Nil}]
  BY <1>1 DEF OnStopRPC, SecurityTypes
<1>4. SecurityTypes' /\ BeatTypes' /\ BeatsOn /\ startEvents' \subseteq StartHandler
  BY <1>1, <1>2, <1>3, SameBeats DEF SecurityTypes, BeatTypes, IdTypes
<1>. QED
  BY <1>2, <1>4, HandlesQuietly

LEMMA StopServiceAnswered ==
  ASSUME TypeOK, NEW e, NEW m, Finds(e, m), OnStopService(e, m)
  PROVE  TypeOK' /\ Speaks
<1>1. IdTypes /\ SecurityTypes /\ BeatTypes /\ e.s \in Sessions
  BY TypeParts, Found
<1>2. /\ pool' = Handled(e, m)
      /\ UNCHANGED <<idVars, correlationId, isSecuredSession, ssl, mobileSecurities, heartbeat,
                     startEvents, toSDL>>
  BY DEF OnStopService
<1>3. encryptedServices' \in [Sessions -> SUBSET Services]
  BY <1>1 DEF OnStopService, SecurityTypes
<1>4. SecurityTypes' /\ BeatTypes' /\ BeatsOn /\ startEvents' \subseteq StartHandler
  BY <1>1, <1>2, <1>3, SameBeats DEF SecurityTypes, BeatTypes, IdTypes
<1>. QED
  BY <1>2, <1>4, HandlesQuietly

LEMMA HeartbeatAcked ==
  ASSUME TypeOK, NEW e, NEW m, Finds(e, m), OnHeartbeatAck(e, m)
  PROVE  TypeOK' /\ Speaks
<1>1. IdTypes /\ SecurityTypes /\ BeatTypes /\ e.s \in Sessions /\ heartbeat[e.s] \in Monitor
  BY TypeParts, Found
<1>. DEFINE h == [heartbeat[e.s] EXCEPT !.confirmed = TRUE]
<1>2. h \in Monitor /\ h.enabled = heartbeat[e.s].enabled
  BY <1>1, MonitorForms
<1>3. /\ pool' = Handled(e, m) /\ heartbeat' = [heartbeat EXCEPT ![e.s] = h]
      /\ UNCHANGED <<idVars, correlationId, securityVars, startEvents, toSDL>>
  BY DEF OnHeartbeatAck
<1>. HIDE DEF h
<1>4. BeatTypes' /\ BeatsOn
  BY <1>1, <1>2, <1>3 DEF BeatTypes, BeatsOn
<1>5. SecurityTypes' /\ startEvents' \subseteq StartHandler
  BY <1>1, <1>3 DEF SecurityTypes, IdTypes, securityVars
<1>. QED
  BY <1>3, <1>4, <1>5, HandlesQuietly

LEMMA Responds ==
  ASSUME TypeOK, NEW e, NEW m, Finds(e, m), OnResponse(e, m)
  PROVE  TypeOK' /\ Speaks
<1>1. IdTypes /\ SecurityTypes /\ BeatTypes /\ e.s \in Sessions /\ e \in Expectation
  BY TypeParts, Found
<1>2. /\ pool' = Handled(e, m)
      /\ UNCHANGED <<idVars, correlationId, securityVars, heartbeat, toSDL>>
  BY DEF OnResponse
<1>3. startEvents' \subseteq StartHandler
  <2>1. CASE UNCHANGED startEvents
    BY <1>1, <2>1 DEF IdTypes
  <2>2. CASE RaiseStartEvent(e.s)
    <3>1. PICK h \in startEvents :
            startEvents' = (startEvents \ {h}) \cup {[h EXCEPT !.by = @ \cup {e.s}]}
      BY <2>2 DEF RaiseStartEvent
    <3>2. h \in StartHandler
      BY <1>1 DEF IdTypes
    <3>3. [h EXCEPT !.by = @ \cup {e.s}] \in StartHandler
      BY <1>1, <3>2 DEF StartHandler
    <3>. QED
      BY <1>1, <3>1, <3>3 DEF IdTypes
  <2>. QED
    BY <2>1, <2>2 DEF OnResponse
<1>4. SecurityTypes' /\ BeatTypes' /\ BeatsOn
  BY <1>1, <1>2, SameBeats DEF SecurityTypes, BeatTypes, securityVars
<1>. QED
  BY <1>2, <1>3, <1>4, HandlesQuietly

LEMMA HeartbeatAnswered ==
  ASSUME TypeOK, NEW e, NEW m, Finds(e, m), OnHeartbeat(e)
  PROVE  TypeOK' /\ Speaks
<1>1. IdTypes /\ SecurityTypes /\ BeatTypes /\ PoolTypes /\ WireTypes /\ SdlTypes
  BY TypeParts
<1>. DEFINE s == e.s
            b == Beat("HEARTBEAT_ACK", sessionId[s])
<1>2. s \in Sessions /\ sessionId[s] \in 0..MaxId /\ toMobile' \in Seq(Message) /\ Delivers
  BY Found
<1>3. /\ UNCHANGED toSDL \/ (heartbeat[s].enabled /\ toSDL' = Append(toSDL, b))
      /\ UNCHANGED <<idVars, correlationId, securityVars, heartbeat, pool, startEvents>>
      /\ UNCHANGED <<uses, sdl, seen>> /\ Still
  BY DEF OnHeartbeat, Finds, Comes, Still, idVars
<1>4. b \in Message /\ b.type = "HEARTBEAT_ACK" /\ b.id = sessionId[s]
  <2>1. "HEARTBEAT_ACK" \in MessageTypes
    BY DEF MessageTypes
  <2>. QED
    BY <1>2, <2>1, BeatType DEF Beat, Frame
<1>. HIDE DEF b, s
<1>5. heartbeat[s].enabled => Said(b)
  BY <1>2, <1>4 DEF Said, Registers, Opens, Ends, Shakes
<1>6. Says
  BY <1>3, <1>4, <1>5, SaysNothing, SaysOne
<1>7. Speaks
  BY <1>2, <1>3, <1>6, SameBeats, SamePool DEF Speaks
<1>8. IdTypes' /\ SecurityTypes' /\ SdlTypes' /\ BeatTypes' /\ PoolTypes'
  BY <1>1, <1>3
     DEF IdTypes, SecurityTypes, SdlTypes, BeatTypes, PoolTypes, idVars, securityVars
<1>9. WireTypes'
  <2>1. toSDL' \in Seq(Message)
    BY <1>1, <1>3, <1>4 DEF WireTypes
  <2>. QED
    BY <1>2, <2>1 DEF WireTypes
<1>. QED
  BY <1>7, <1>8, <1>9, TypePartsNext

LEMMA ShakenType ==
  ASSUME NEW state \in {"none", "new", "hello", "finished"}, NEW m
  PROVE  /\ Shaken(state, m) \in {"none", "new", "hello", "finished"}
         /\ Shaken(state, m) # state /\ m.cid = 2 => Shaken(state, m) = "finished"
         /\ state \in {"none", "finished"} => Shaken(state, m) = state
         /\ Shaken(state, m) = "none" => state = "none"
  BY DEF Shaken

LEMMA HandshakeStep ==
  ASSUME TypeOK, NEW e, NEW m, Finds(e, m), OnHandshake(e, m)
  PROVE  TypeOK' /\ Speaks
<1>1. IdTypes /\ SecurityTypes /\ BeatTypes /\ PoolTypes /\ WireTypes /\ SdlTypes
  BY TypeParts
<1>. DEFINE s == e.s
            state == Shaken(ssl[s], m)
            f == [Frame("HANDSHAKE", sessionId[s], "CONTROL", FALSE) EXCEPT !.cid = m.cid]
            l == e.listed /\ state # "finished"
            v == Validated(e, m)
            r == [e EXCEPT !.status = v, !.listed = l]
<1>2. /\ s \in Sessions /\ sessionId[s] \in 0..MaxId /\ toMobile' \in Seq(Message) /\ Delivers
      /\ e \in pool /\ e \in Expectation /\ m.cid \in Nat
  BY Found
<1>3. /\ ssl' = [ssl EXCEPT ![s] = state]
      /\ (Send(s, f) /\ state # ssl[s]) \/ UNCHANGED <<toSDL, heartbeat>>
      /\ pool' = (pool \ {e}) \cup {r}
      /\ UNCHANGED <<idVars, correlationId, isSecuredSession, encryptedServices,
                     mobileSecurities, startEvents>>
      /\ UNCHANGED <<uses, sdl, seen>> /\ Still
  BY DEF OnHandshake, Finds, Comes, Still, idVars
<1>4. /\ state \in {"none", "new", "hello", "finished"}
      /\ state # ssl[s] /\ m.cid = 2 => state = "finished"
  BY <1>1, <1>2, ShakenType DEF SecurityTypes
<1>5. f \in Message /\ f.type = "HANDSHAKE" /\ f.id = sessionId[s] /\ f.cid = m.cid
  <2>1. "HANDSHAKE" \in MessageTypes /\ "CONTROL" \in Named
    BY DEF MessageTypes, Named
  <2>. QED
    BY <1>2, <2>1, NumberedType DEF Frame
<1>6. r \in Expectation /\ Like(r, e)
  <2>1. v \in Statuses /\ l \in BOOLEAN
    BY ValidatedType
  <2>. HIDE DEF v, l
  <2>2. /\ r \in Expectation /\ r.s = e.s /\ r.kind = e.kind /\ r.enc = e.enc
        /\ r.svc = e.svc
    BY <1>2, <2>1, Restatus, ZenonT(30)
  <2>. QED
    BY <2>2 DEF Like
<1>. HIDE DEF s, state, f, l, v, r
<1>7. SecurityTypes'
  BY <1>1, <1>2, <1>3, <1>4 DEF SecurityTypes
<1>8. state # ssl[s] => Said(f)
  BY <1>1, <1>2, <1>3, <1>4, <1>5 DEF Said, Registers, Opens, Ends, Shakes, SecurityTypes
<1>9. Says /\ BeatsOn /\ BeatTypes' /\ toSDL' \in Seq(Message)
  <2>1. CASE Send(s, f) /\ state # ssl[s]
    BY <1>2, <1>5, <1>8, <2>1, SaysOne, SendBeats, SendTypes DEF Send
  <2>2. CASE UNCHANGED <<toSDL, heartbeat>>
    BY <1>1, <2>2, SaysNothing, SameBeats DEF BeatTypes, WireTypes
  <2>. QED
    BY <1>3, <2>1, <2>2
<1>10. Expects /\ PoolTypes'
  BY <1>1, <1>2, <1>3, <1>6 DEF Expects, PoolTypes, Like
<1>11. Speaks
  BY <1>2, <1>3, <1>9, <1>10 DEF Speaks
<1>12. IdTypes' /\ SdlTypes' /\ WireTypes'
  BY <1>1, <1>2, <1>3, <1>9 DEF IdTypes, SdlTypes, WireTypes, idVars
<1>. QED
  BY <1>7, <1>9, <1>10, <1>11, <1>12, TypePartsNext


LEMMA UnhandledStep ==
  ASSUME TypeOK, NEW m, Comes(m),
         UNCHANGED <<idVars, correlationId, securityVars, heartbeat, pool, startEvents, toSDL>>
  PROVE  TypeOK' /\ Speaks
<1>1. IdTypes /\ SecurityTypes /\ BeatTypes /\ PoolTypes /\ WireTypes /\ SdlTypes
  BY TypeParts
<1>2. toMobile' \in Seq(Message) /\ Delivers /\ Still /\ UNCHANGED <<uses, sdl, seen>>
  BY ComesTypes DEF Comes, Delivers, Still, idVars
<1>3. Speaks
  BY <1>2, SaysNothing, SameBeats, SamePool DEF Speaks
<1>4. IdTypes' /\ SecurityTypes' /\ SdlTypes' /\ BeatTypes' /\ PoolTypes' /\ WireTypes'
  BY <1>1, <1>2 DEF IdTypes, SecurityTypes, SdlTypes, BeatTypes, PoolTypes, WireTypes, idVars,
                    securityVars
<1>. QED
  BY <1>3, <1>4, TypePartsNext

(* The answer to Start: the session gets its id, and registers.            *)
Begins(s, m) ==
  /\ UNCHANGED <<uses, sdl, startEvents, securityVars>>
  /\ sessionId' = [sessionId EXCEPT ![s] = m.id] /\ hashCode' = [hashCode EXCEPT ![s] = TRUE]
  /\ Delivers /\ m = toMobile[1]
  /\ \E w \in Seq(Message) :
       /\ toSDL' = toSDL \o w
       /\ \A k \in 1..Len(w) : w[k].id = m.id /\ w[k].type \in {"HEARTBEAT", "REQUEST"}
                               /\ (w[k].type = "REQUEST" => ~w[k].enc)
       /\ \E k \in 1..Len(w) : w[k].type = "REQUEST"
  /\ \A t \in Sessions : t # s => heartbeat'[t] = heartbeat[t]
  /\ \A e \in pool' : \/ e.s = s /\ e.kind # "start"
                      \/ \E f \in pool : Like(e, f)

LEMMA LastOne ==
  ASSUME NEW S, NEW b \in Seq(S), NEW c \in S
  PROVE  /\ b \o <<c>> \in Seq(S) /\ Len(b \o <<c>>) = Len(b) + 1
         /\ (b \o <<c>>)[Len(b) + 1] = c
         /\ \A k \in 1..Len(b) : (b \o <<c>>)[k] = b[k]
         /\ <<>> \o <<c>> = <<c>>
         /\ \A q \in Seq(S) : (q \o b) \o <<c>> = q \o (b \o <<c>>)
<1>. DEFINE d == <<c>>
<1>1. d \in Seq(S) /\ Len(d) = 1 /\ d[1] = c
  OBVIOUS
<1>2. <<>> \o d = d
  BY <1>1
<1>. HIDE DEF d
<1>3. /\ b \o d \in Seq(S) /\ Len(b \o d) = Len(b) + 1 /\ (b \o d)[Len(b) + 1] = c
      /\ \A k \in 1..Len(b) : (b \o d)[k] = b[k]
  <2>1. b \o d \in Seq(S) /\ Len(b \o d) = Len(b) + Len(d)
    BY <1>1, ConcatProperties, Zenon
  <2>2. \A k \in 1..(Len(b) + 1) :
          (b \o d)[k] = IF k <= Len(b) THEN b[k] ELSE d[k - Len(b)]
    <3>1. \A k \in 1..(Len(b) + Len(d)) :
            (b \o d)[k] = IF k <= Len(b) THEN b[k] ELSE d[k - Len(b)]
      BY <1>1, ConcatProperties, Zenon
    <3>. QED
      BY <1>1, <3>1, Zenon
  <2>3. Len(b) \in Nat /\ ~(Len(b) + 1 <= Len(b)) /\ (Len(b) + 1) - Len(b) = 1
        /\ Len(b) + 1 \in 1..(Len(b) + 1)
        /\ \A k \in 1..Len(b) : k \in 1..(Len(b) + 1) /\ k <= Len(b)
    OBVIOUS
  <2>4. (b \o d)[Len(b) + 1] = d[(Len(b) + 1) - Len(b)]
    BY <2>2, <2>3
  <2>5. \A k \in 1..Len(b) : (b \o d)[k] = b[k]
    BY <2>2, <2>3
  <2>. QED
    BY <1>1, <2>1, <2>3, <2>4, <2>5
<1>4. \A q \in Seq(S) : (q \o b) \o d = q \o (b \o d)
  BY <1>1
<1>. QED
  BY <1>2, <1>3, <1>4 DEF d

LEMMA StartRPCAnswered ==
  ASSUME TypeOK, NEW e, NEW m, Finds(e, m), OnStartRPC(e, m)
  PROVE  TypeOK' /\ Begins(e.s, m)
<1>1. IdTypes /\ SecurityTypes /\ BeatTypes /\ PoolTypes /\ WireTypes /\ SdlTypes
  BY TypeParts
<1>. DEFINE s == e.s
            h == heartbeat[s]
            cid == correlationId[s] + 1
            c == Call("REQUEST", m.id, FALSE, cid, TRUE)
            h1 == IF Version > 2 THEN StartHeartbeat(h) ELSE h
            b == IF Version > 2 THEN FirstBeat(h, m.id) ELSE <<>>
            E == IF Version > 2 THEN BeatExpectations(s, h) ELSE {}
            x == Expect(s, "response", RPC, FALSE, cid)
            H == Handled(e, m)
            bt == Beat("HEARTBEAT", m.id)
<1>2. /\ s \in Sessions /\ m.id \in 0..MaxId /\ toMobile' \in Seq(Message) /\ Delivers
      /\ e \in pool /\ h \in Monitor
  BY Found
<1>3. cid \in Nat
  BY <1>1, <1>2 DEF IdTypes
<1>4. h1 \in Monitor /\ OnMessageSent(h1) \in Monitor
  BY <1>2, MonitorForms
<1>5. /\ FirstBeat(h, m.id) \in Seq(Message)
      /\ \A i \in 1..Len(FirstBeat(h, m.id)) : FirstBeat(h, m.id)[i] = bt
      /\ BeatExpectations(s, h) \subseteq Expectation
      /\ \A y \in BeatExpectations(s, h) : y.s = s /\ y.kind \in {"beat", "beatAck"}
  BY <1>2, BeatForms
<1>6. /\ b \in Seq(Message) /\ \A i \in 1..Len(b) : b[i] = bt
      /\ E \subseteq Expectation /\ \A y \in E : y.s = s /\ y.kind \in {"beat", "beatAck"}
  <2>1. CASE Version > 2
    BY <1>5, <2>1
  <2>2. CASE ~(Version > 2)
    BY <2>2
  <2>. QED
    BY <2>1, <2>2
<1>7. x \in Expectation /\ x.s = s /\ x.kind = "response"
  BY <1>2, <1>3 DEF Expect, Expectation, Services
<1>8. c \in Message /\ c.id = m.id /\ c.type = "REQUEST" /\ ~c.enc
  <2>1. "REQUEST" \in MessageTypes
    BY DEF MessageTypes
  <2>. QED
    BY <1>2, <1>3, <2>1, CallType DEF Call
<1>9. H \subseteq Expectation /\ \A y \in H : \E f \in pool : Like(y, f)
  BY <1>2, HandledType
<1>10. bt.id = m.id /\ bt.type = "HEARTBEAT"
  BY DEF Beat, Frame
<1>11. /\ sessionId' = [sessionId EXCEPT ![s] = m.id] /\ hashCode' = [hashCode EXCEPT ![s] = TRUE]
       /\ heartbeat' = [heartbeat EXCEPT ![s] = OnMessageSent(h1)]
       /\ correlationId' = [correlationId EXCEPT ![s] = cid]
       /\ UNCHANGED <<securityVars, startEvents>>
  BY DEF OnStartRPC
<1>12. pool' = H \cup E \cup {x}
  BY DEF OnStartRPC
<1>13. toSDL' = (IF Version > 2 THEN toSDL \o FirstBeat(h, m.id) ELSE toSDL) \o <<c>>
  BY DEF OnStartRPC
<1>14. UNCHANGED <<uses, sdl, seen>> /\ m = toMobile[1]
  BY ComesTypes DEF Finds, Comes
<1>. DEFINE w == b \o <<c>>
<1>15. /\ w \in Seq(Message) /\ toSDL' = toSDL \o w
       /\ \A k \in 1..Len(w) : w[k] = bt \/ w[k] = c
       /\ \E k \in 1..Len(w) : w[k] = c
  <2>1. toSDL \in Seq(Message)
    BY <1>1 DEF WireTypes
  <2>2. toSDL' = toSDL \o (b \o <<c>>)
    <3>1. CASE Version > 2
      <4>1. b = FirstBeat(h, m.id) /\ toSDL' = (toSDL \o b) \o <<c>>
        BY <1>13, <3>1
      <4>2. c \in Message /\ b \in Seq(Message)
        BY <1>6, <1>8
      <4>. HIDE DEF b, c
      <4>. QED
        BY <2>1, <4>1, <4>2, LastOne
    <3>2. CASE ~(Version > 2)
      <4>1. b = <<>> /\ toSDL' = toSDL \o <<c>>
        BY <1>13, <3>2
      <4>2. c \in Message
        BY <1>8
      <4>. HIDE DEF c, b
      <4>. QED
        BY <4>1, <4>2, LastOne
    <3>. QED
      BY <3>1, <3>2
  <2>3. c \in Message /\ b \in Seq(Message)
    BY <1>6, <1>8
  <2>. HIDE DEF b, c, bt
  <2>4. w \in Seq(Message) /\ Len(w) = Len(b) + 1 /\ w[Len(b) + 1] = c
        /\ \A k \in 1..Len(b) : w[k] = b[k]
    BY <2>3, LastOne
  <2>5. /\ \A k \in 1..Len(w) : k \in 1..Len(b) \/ k = Len(b) + 1
        /\ Len(b) + 1 \in 1..Len(w)
    <3>. HIDE DEF w
    <3>. QED
      BY <2>3, <2>4
  <2>. QED
    BY <1>6, <2>2, <2>4, <2>5
<1>. HIDE DEF s, h, cid, c, h1, b, E, x, H, bt, w
<1>16. Begins(s, m)
  <2>1. \A t \in Sessions : t # s => heartbeat'[t] = heartbeat[t]
    BY <1>1, <1>11 DEF BeatTypes
  <2>2. \A y \in pool' : (y.s = s /\ y.kind # "start") \/ \E f \in pool : Like(y, f)
    BY <1>6, <1>7, <1>9, <1>12
  <2>3. /\ \A k \in 1..Len(w) : w[k].id = m.id /\ w[k].type \in {"HEARTBEAT", "REQUEST"}
                               /\ (w[k].type = "REQUEST" => ~w[k].enc)
        /\ \E k \in 1..Len(w) : w[k].type = "REQUEST"
    BY <1>8, <1>10, <1>15
  <2>. QED
    BY <1>2, <1>11, <1>14, <1>15, <2>1, <2>2, <2>3 DEF Begins
<1>17. IdTypes'
  BY <1>1, <1>2, <1>3, <1>11, <1>14 DEF IdTypes
<1>18. SecurityTypes' /\ SdlTypes'
  BY <1>1, <1>11, <1>14 DEF SecurityTypes, SdlTypes, securityVars
<1>19. BeatTypes' /\ PoolTypes'
  BY <1>1, <1>2, <1>4, <1>6, <1>7, <1>9, <1>11, <1>12 DEF BeatTypes, PoolTypes
<1>20. WireTypes'
  BY <1>1, <1>2, <1>15 DEF WireTypes
<1>. QED
  BY <1>16, <1>17, <1>18, <1>19, <1>20, TypePartsNext DEF s


-----------------------------------------------------------------------------
(* Steps of SDL                                                            *)

Got == Head(toSDL)
Told(m) ==
  /\ Live(m.id) /\ m.id = Got.id
  /\ m.type \in {"START_ACK", "HANDSHAKE", "RESPONSE", "HEARTBEAT_ACK"}
  /\ Opened(m) => Opens(Got)
  /\ m.type = "RESPONSE" =>
       /\ Got.type = "REQUEST" /\ (m.enc <=> Got.enc)
       /\ ~m.enc => sdl'[m.id].answered
  /\ Secures(m) => sdl'[m.id].hand = "done"
Tells == \E w \in Seq(Message) : toMobile' = toMobile \o w /\ \A k \in 1..Len(w) : Told(w[k])

(* What an answer other than to START with a new id or END does to id.     *)
Moves(id) ==
  /\ sdl'[id].live <=> sdl[id].live
  /\ sdl'[id].used <=> sdl[id].used
  /\ sdl[id].answered => sdl'[id].answered
  /\ sdl'[id].answered => sdl[id].answered \/ sdl[id].live
  /\ sdl'[id].hand = "done" => sdl[id].hand = "done" \/ (Shakes(Got) /\ Got.id = id)
  /\ sdl'[id].hand # "none" => sdl[id].hand # "none" \/ Got.id = id
Answers ==
  /\ UNCHANGED mobileVars /\ toSDL # <<>> /\ toSDL' = Tail(toSDL) /\ Tells
  /\ \A id \in Ids : Moves(id)
  /\ Registers(Got) /\ Live(Got.id) => sdl'[Got.id].answered

LEMMA TakeTypes ==
  ASSUME TypeOK, toSDL # <<>>, toSDL' = Tail(toSDL), UNCHANGED mobileVars,
         seen' \subseteq Oddities, SdlTypes', toMobile' \in Seq(Message)
  PROVE  TypeOK'
<1>1. IdTypes /\ SecurityTypes /\ BeatTypes /\ PoolTypes /\ WireTypes
  BY TypeParts
<1>2. IdTypes' /\ SecurityTypes' /\ BeatTypes' /\ PoolTypes'
  BY <1>1 DEF IdTypes, SecurityTypes, BeatTypes, PoolTypes, mobileVars, idVars, securityVars
<1>3. WireTypes'
  BY <1>1 DEF WireTypes
<1>. QED
  BY <1>2, <1>3, TypePartsNext

LEMMA GotTypes ==
  ASSUME TypeOK, toSDL # <<>>
  PROVE  /\ Got \in Message /\ Got = toSDL[1] /\ 1 \in 1..Len(toSDL)
         /\ Got.id \in 0..MaxId /\ Got.svc \in Named /\ Got.enc \in BOOLEAN /\ Got.cid \in Nat
         /\ Got.type \in MessageTypes
<1>1. toSDL \in Seq(Message)
  BY TypeParts DEF WireTypes
<1>2. Got \in Message /\ Got = toSDL[1] /\ 1 \in 1..Len(toSDL)
  BY <1>1 DEF Got
<1>. QED
  BY <1>2, MessageShape

LEMMA TellsNothing ==
  ASSUME TypeOK, UNCHANGED toMobile
  PROVE  Tells /\ toMobile' \in Seq(Message)
<1>1. toMobile \in Seq(Message)
  BY TypeParts DEF WireTypes
<1>. DEFINE w == <<>>
<1>2. w \in Seq(Message) /\ Len(w) = 0 /\ toMobile \o w = toMobile
  BY <1>1
<1>. HIDE DEF w
<1>3. \A k \in 1..Len(w) : Told(w[k])
  BY <1>2
<1>. QED
  BY <1>1, <1>2, <1>3 DEF Tells

LEMMA TellsOne ==
  ASSUME TypeOK, NEW m \in Message, Reply(m), Told(m)
  PROVE  Tells /\ toMobile' \in Seq(Message)
<1>1. toMobile \in Seq(Message) /\ toMobile' = Append(toMobile, m)
  BY TypeParts DEF WireTypes, Reply
<1>. DEFINE w == <<m>>
<1>2. w \in Seq(Message) /\ Len(w) = 1 /\ w[1] = m /\ toMobile \o w = Append(toMobile, m)
  BY <1>1
<1>. HIDE DEF w
<1>3. \A k \in 1..Len(w) : k = 1
  BY <1>2
<1>4. \A k \in 1..Len(w) : Told(w[k])
  BY <1>2, <1>3
<1>. QED
  BY <1>1, <1>2, <1>4 DEF Tells

LEMMA SdlStartStep ==
  ASSUME TypeOK, Proper, SdlStartService
  PROVE  TypeOK' /\ Answers
<1>1. sdl \in [Ids -> SdlSession] /\ seen \subseteq Oddities
  BY TypeParts DEF SdlTypes, IdTypes
<1>2. /\ toSDL # <<>> /\ Got.type = "START" /\ toSDL' = Tail(toSDL) /\ UNCHANGED mobileVars
      /\ Live(Got.id) /\ UNCHANGED seen
  BY DEF SdlStartService, Take, Got
<1>. DEFINE m == Got
            r == sdl[m.id]
<1>3. /\ m \in Message /\ m = toSDL[1] /\ 1 \in 1..Len(toSDL) /\ m.id \in 0..MaxId
      /\ m.svc \in Named /\ m.enc \in BOOLEAN
  BY <1>2, GotTypes
<1>4. m.svc \in Services /\ m.id \in Ids /\ r \in SdlSession /\ r.live
  BY <1>1, <1>2, <1>3 DEF Proper, Live
<1>5. ~Registers(m)
  BY <1>2 DEF Registers
<1>6. CASE ~m.enc \/ r.hand = "done"
  <2>. DEFINE x == Frame("START_ACK", m.id, m.svc, m.enc)
              S == IF m.enc THEN r.secure \cup {m.svc} ELSE r.secure
              r1 == [r EXCEPT !.secure = S]
  <2>1. sdl' = [sdl EXCEPT ![m.id] = r1] /\ Reply(x)
    BY <1>6 DEF SdlStartService, Got
  <2>2. x \in Message
    BY <1>3, FrameType DEF MessageTypes
  <2>3. /\ x.type = "START_ACK" /\ x.id = m.id /\ x.svc = m.svc /\ x.enc = m.enc
    BY DEF Frame
  <2>4. /\ r1 \in SdlSession /\ r1.live = r.live /\ r1.used = r.used /\ r1.hand = r.hand
        /\ r1.answered = r.answered
    BY <1>4 DEF SdlSession
  <2>. HIDE DEF x, r1
  <2>5. /\ SdlTypes' /\ sdl'[m.id] = r1
        /\ \A id \in Ids : id # m.id => sdl'[id] = sdl[id]
    BY <1>1, <1>4, <2>1, <2>4 DEF SdlTypes
  <2>6. \A id \in Ids : Moves(id)
    BY <1>4, <2>4, <2>5 DEF Moves
  <2>7. Told(x)
    BY <1>2, <1>4, <1>6, <2>3, <2>4, <2>5 DEF Told, Opened, Opens, Secures
  <2>8. Tells /\ toMobile' \in Seq(Message)
    BY <2>1, <2>2, <2>7, TellsOne
  <2>. QED
    BY <1>1, <1>2, <1>5, <2>5, <2>6, <2>8, TakeTypes DEF Answers
<1>7. CASE ~(~m.enc \/ r.hand = "done")
  <2>. DEFINE x == [Frame("HANDSHAKE", m.id, "CONTROL", FALSE) EXCEPT !.cid = 1]
              H == IF r.hand = "none" THEN "hello" ELSE r.hand
              W == r.wait \cup {m.svc}
              r1 == [r EXCEPT !.wait = W, !.hand = H]
  <2>1. sdl' = [sdl EXCEPT ![m.id] = r1] /\ (Reply(x) \/ UNCHANGED toMobile)
    BY <1>1, <1>4, <1>7 DEF SdlStartService, Got
  <2>2. x \in Message
    BY <1>3, NumberedType DEF MessageTypes, Named
  <2>3. x.type = "HANDSHAKE" /\ x.id = m.id
    BY DEF Frame
  <2>4. /\ r1 \in SdlSession /\ r1.live = r.live /\ r1.used = r.used
        /\ r1.hand # "done" /\ r1.answered = r.answered
    BY <1>4, <1>7 DEF SdlSession
  <2>. HIDE DEF x, r1
  <2>5. /\ SdlTypes' /\ sdl'[m.id] = r1
        /\ \A id \in Ids : id # m.id => sdl'[id] = sdl[id]
    BY <1>1, <1>4, <2>1, <2>4 DEF SdlTypes
  <2>6. \A id \in Ids : Moves(id)
    BY <1>4, <2>4, <2>5 DEF Moves
  <2>7. Told(x)
    BY <1>2, <1>4, <2>3 DEF Told, Opened, Opens, Secures
  <2>8. Tells /\ toMobile' \in Seq(Message)
    BY <2>1, <2>2, <2>7, TellsOne, TellsNothing
  <2>. QED
    BY <1>1, <1>2, <1>5, <2>5, <2>6, <2>8, TakeTypes DEF Answers
<1>. QED
  BY <1>6, <1>7


LEMMA SdlHandshakeStep ==
  ASSUME TypeOK, SdlHandshake
  PROVE  TypeOK' /\ Answers
<1>1. sdl \in [Ids -> SdlSession] /\ seen \subseteq Oddities /\ toMobile \in Seq(Message)
  BY TypeParts DEF SdlTypes, IdTypes, WireTypes
<1>2. /\ toSDL # <<>> /\ Got.type = "HANDSHAKE" /\ toSDL' = Tail(toSDL)
      /\ UNCHANGED mobileVars /\ UNCHANGED seen
  BY DEF SdlHandshake, Take, Got
<1>. DEFINE m == Got
            r == sdl[m.id]
<1>3. m.id \in 0..MaxId
  BY <1>2, GotTypes
<1>4. ~Registers(m)
  BY <1>2 DEF Registers
<1>5. CASE Live(m.id) /\ m.cid = 1 /\ r.hand = "hello"
  <2>. DEFINE x == [Frame("HANDSHAKE", m.id, "CONTROL", FALSE) EXCEPT !.cid = 2]
              r1 == [r EXCEPT !.hand = "finish"]
  <2>1. sdl' = [sdl EXCEPT ![m.id] = r1] /\ Reply(x)
    BY <1>5 DEF SdlHandshake, Got
  <2>2. m.id \in Ids /\ r \in SdlSession /\ r.live
    BY <1>1, <1>5 DEF Live
  <2>3. x \in Message
    BY <1>3, NumberedType DEF MessageTypes, Named
  <2>4. x.type = "HANDSHAKE" /\ x.id = m.id
    BY DEF Frame
  <2>5. /\ r1 \in SdlSession /\ r1.live = r.live /\ r1.used = r.used
        /\ r1.hand = "finish" /\ r1.answered = r.answered
    BY <2>2 DEF SdlSession
  <2>. HIDE DEF x, r1
  <2>6. /\ SdlTypes' /\ sdl'[m.id] = r1
        /\ \A id \in Ids : id # m.id => sdl'[id] = sdl[id]
    BY <1>1, <2>1, <2>2, <2>5 DEF SdlTypes
  <2>7. \A id \in Ids : Moves(id)
    BY <2>5, <2>6 DEF Moves
  <2>8. Told(x)
    BY <1>5, <2>2, <2>4 DEF Told, Opened, Opens, Secures
  <2>9. Tells /\ toMobile' \in Seq(Message)
    BY <2>1, <2>3, <2>8, TellsOne
  <2>. QED
    BY <1>1, <1>2, <1>4, <2>6, <2>7, <2>9, TakeTypes DEF Answers
<1>6. CASE ~(Live(m.id) /\ m.cid = 1 /\ r.hand = "hello")
           /\ Live(m.id) /\ m.cid = 2 /\ r.hand = "finish"
  <2>. DEFINE w == SetToSeq(Acks(m.id, r.wait))
              none == {}
              S == r.secure \cup r.wait
              r1 == [r EXCEPT !.hand = "done", !.wait = none, !.secure = S]
  <2>2. m.id \in Ids /\ r \in SdlSession /\ r.live /\ r.wait \in SUBSET Services
    BY <1>1, <1>6 DEF Live, SdlSession
  <2>1. sdl' = [sdl EXCEPT ![m.id] = r1] /\ toMobile' = toMobile \o w
    BY <1>1, <1>6, <2>2 DEF SdlHandshake, Got, Acks
  <2>3. w \in Seq(Acks(m.id, r.wait))
    BY <2>2, AcksInSequence
  <2>4. ASSUME NEW x \in Acks(m.id, r.wait)
        PROVE  x \in Message /\ x.type = "START_ACK" /\ x.id = m.id /\ x.enc
    <3>1. PICK svc \in r.wait : x = Frame("START_ACK", m.id, svc, TRUE)
      BY DEF Acks
    <3>2. svc \in Named /\ "START_ACK" \in MessageTypes
      BY <2>2 DEF Named, MessageTypes
    <3>. QED
      BY <1>3, <3>1, <3>2, FrameType DEF Frame
  <2>5. /\ r1 \in SdlSession /\ r1.live = r.live /\ r1.used = r.used
        /\ r1.hand = "done" /\ r1.answered = r.answered
    BY <2>2 DEF SdlSession
  <2>. HIDE DEF w, r1
  <2>6. /\ SdlTypes' /\ sdl'[m.id] = r1
        /\ \A id \in Ids : id # m.id => sdl'[id] = sdl[id]
    BY <1>1, <2>1, <2>2, <2>5 DEF SdlTypes
  <2>7. \A id \in Ids : Moves(id)
    BY <1>2, <1>6, <2>5, <2>6 DEF Moves, Shakes
  <2>8. \A x \in Acks(m.id, r.wait) : Told(x)
    BY <1>6, <2>2, <2>4, <2>5, <2>6 DEF Told, Opened, Opens, Secures
  <2>9. w \in Seq(Message) /\ \A k \in 1..Len(w) : w[k] \in Acks(m.id, r.wait)
    BY <2>3, <2>4
  <2>10. Tells
    BY <2>1, <2>8, <2>9 DEF Tells
  <2>11. toMobile' \in Seq(Message)
    BY <1>1, <2>1, <2>9
  <2>. QED
    BY <1>1, <1>2, <1>4, <2>6, <2>7, <2>10, <2>11, TakeTypes DEF Answers
<1>7. CASE /\ ~(Live(m.id) /\ m.cid = 1 /\ r.hand = "hello")
           /\ ~(Live(m.id) /\ m.cid = 2 /\ r.hand = "finish")
  <2>1. UNCHANGED <<sdl, toMobile>>
    BY <1>7 DEF SdlHandshake, Got
  <2>2. SdlTypes' /\ \A id \in Ids : Moves(id)
    BY <1>1, <2>1 DEF SdlTypes, Moves
  <2>. QED
    BY <1>1, <1>2, <1>4, <2>1, <2>2, TellsNothing, TakeTypes DEF Answers
<1>. QED
  BY <1>5, <1>6, <1>7

LEMMA SdlRequestStep ==
  ASSUME TypeOK, SdlRequest
  PROVE  TypeOK' /\ Answers
<1>1. sdl \in [Ids -> SdlSession] /\ seen \subseteq Oddities
  BY TypeParts DEF SdlTypes, IdTypes
<1>2. /\ toSDL # <<>> /\ Got.type = "REQUEST" /\ toSDL' = Tail(toSDL) /\ UNCHANGED mobileVars
  BY DEF SdlRequest, Take, Got
<1>. DEFINE m == Got
            r == sdl[m.id]
<1>3. m.id \in 0..MaxId /\ m.enc \in BOOLEAN /\ m.cid \in Nat
  BY <1>2, GotTypes
<1>4. CASE ~Live(m.id)
  <2>1. UNCHANGED <<sdl, toMobile, seen>>
    BY <1>4 DEF SdlRequest, Got
  <2>2. SdlTypes' /\ \A id \in Ids : Moves(id)
    BY <1>1, <2>1 DEF SdlTypes, Moves
  <2>. QED
    BY <1>1, <1>2, <1>4, <2>1, <2>2, TellsNothing, TakeTypes DEF Answers
<1>5. CASE Live(m.id)
  <2>1. PICK ok \in {TRUE, m.enc} :
          /\ Odd("reject", ~ok)
          /\ sdl' = [sdl EXCEPT ![m.id].answered = @ \/ ~m.enc]
          /\ Reply(Call("RESPONSE", m.id, m.enc, m.cid, ok))
    BY <1>5 DEF SdlRequest, Got
  <2>2. m.id \in Ids /\ r \in SdlSession /\ r.live
    BY <1>1, <1>5 DEF Live
  <2>. DEFINE x == Call("RESPONSE", m.id, m.enc, m.cid, ok)
              g == r.answered \/ ~m.enc
              r1 == [r EXCEPT !.answered = g]
  <2>3. ok \in BOOLEAN /\ g \in BOOLEAN
    BY <1>3
  <2>4. x \in Message
    BY <1>3, <2>3, CallType DEF MessageTypes
  <2>5. x.type = "RESPONSE" /\ x.id = m.id /\ x.enc = m.enc
    BY DEF Call
  <2>6. sdl' = [sdl EXCEPT ![m.id] = r1]
    BY <2>1
  <2>7. (r.answered => g) /\ (~m.enc => g)
        /\ seen' \subseteq Oddities
    BY <1>1, <2>1 DEF Odd, Oddities
  <2>. HIDE DEF x, g
  <2>8. /\ r1 \in SdlSession /\ r1.live = r.live /\ r1.used = r.used /\ r1.hand = r.hand
        /\ r1.answered = g
    BY <2>2, <2>3 DEF SdlSession
  <2>. HIDE DEF r1
  <2>9. /\ SdlTypes' /\ sdl'[m.id] = r1
        /\ \A id \in Ids : id # m.id => sdl'[id] = sdl[id]
    BY <1>1, <2>2, <2>6, <2>8 DEF SdlTypes
  <2>10. \A id \in Ids : Moves(id)
    BY <2>2, <2>7, <2>8, <2>9 DEF Moves
  <2>11. Told(x)
    BY <1>2, <1>5, <2>2, <2>5, <2>7, <2>8, <2>9 DEF Told, Opened, Opens, Secures
  <2>12. Tells /\ toMobile' \in Seq(Message)
    BY <2>1, <2>4, <2>11, TellsOne DEF x
  <2>13. Registers(m) => sdl'[m.id].answered
    BY <2>7, <2>8, <2>9 DEF Registers
  <2>. QED
    BY <1>1, <1>2, <2>7, <2>9, <2>10, <2>12, <2>13, TakeTypes DEF Answers
<1>. QED
  BY <1>4, <1>5

LEMMA SdlHeartbeatInStep ==
  ASSUME TypeOK, SdlHeartbeatIn
  PROVE  TypeOK' /\ Answers
<1>1. sdl \in [Ids -> SdlSession] /\ seen \subseteq Oddities
  BY TypeParts DEF SdlTypes, IdTypes
<1>. DEFINE m == Got
            x == Beat("HEARTBEAT_ACK", m.id)
<1>2. /\ toSDL # <<>> /\ m.type \in {"HEARTBEAT", "HEARTBEAT_ACK"} /\ toSDL' = Tail(toSDL)
      /\ UNCHANGED mobileVars /\ UNCHANGED <<sdl, seen>>
      /\ (Live(m.id) /\ Reply(x)) \/ UNCHANGED toMobile
  BY DEF SdlHeartbeatIn, Take, Got
<1>3. m.id \in 0..MaxId
  BY <1>2, GotTypes
<1>4. x \in Message
  BY <1>3, BeatType DEF MessageTypes
<1>5. x.type = "HEARTBEAT_ACK" /\ x.id = m.id
  BY DEF Beat, Frame
<1>. HIDE DEF x
<1>6. SdlTypes' /\ \A id \in Ids : Moves(id)
  BY <1>1, <1>2 DEF SdlTypes, Moves
<1>7. Live(m.id) => Told(x)
  BY <1>5 DEF Told, Opened, Secures
<1>8. Tells /\ toMobile' \in Seq(Message)
  BY <1>2, <1>4, <1>7, TellsOne, TellsNothing
<1>9. ~Registers(m)
  BY <1>2 DEF Registers
<1>. QED
  BY <1>1, <1>2, <1>6, <1>8, <1>9, TakeTypes DEF Answers


(* SDL gives the id of a new session.                                      *)
Takes == UNCHANGED mobileVars /\ toSDL # <<>> /\ toSDL' = Tail(toSDL)
Creates(id) ==
  /\ Takes /\ Got.type = "START" /\ ~sdl[id].live /\ (sdl[id].used => "reuse" \in Faults)
  /\ sdl'[id] = [Free EXCEPT !.live = TRUE, !.used = TRUE]
  /\ \A j \in Ids : j # id => sdl'[j] = sdl[j]
  /\ \E x \in Message : toMobile' = Append(toMobile, x) /\ Opened(x) /\ x.id = id

(* SDL refuses.                                                            *)
Refuses ==
  /\ Takes /\ Got.type \in {"START", "END"} /\ UNCHANGED sdl
  /\ "nack" \in Faults \/ (Got.id # 0 /\ ~Live(Got.id))
  /\ \E x \in Message : /\ toMobile' = Append(toMobile, x) /\ x.id = Got.id
                        /\ x.type \in {"START_NACK", "END_NACK"}

(* SDL ends a service or, with the RPC service, the session.               *)
Closes ==
  /\ Takes /\ Got.type = "END" /\ Live(Got.id)
  /\ sdl'[Got.id].live <=> Got.svc # RPC
  /\ sdl'[Got.id].used = sdl[Got.id].used /\ sdl'[Got.id].hand = sdl[Got.id].hand
  /\ sdl'[Got.id].answered = sdl[Got.id].answered
  /\ \A j \in Ids : j # Got.id => sdl'[j] = sdl[j]
  /\ \E x \in Message : /\ toMobile' = Append(toMobile, x) /\ x.id = Got.id
                        /\ x.type = "END_ACK" /\ x.svc = Got.svc

(* SDL sends a heartbeat.                                                  *)
Pings(id) ==
  /\ UNCHANGED mobileVars /\ UNCHANGED <<toSDL, sdl>> /\ Live(id)
  /\ \E x \in Message : toMobile' = Append(toMobile, x) /\ x.id = id /\ x.type = "HEARTBEAT"

LEMMA SdlNewStep ==
  ASSUME TypeOK, SdlNewSession
  PROVE  TypeOK' /\ \E id \in Ids : Creates(id)
<1>1. sdl \in [Ids -> SdlSession] /\ seen \subseteq Oddities /\ toMobile \in Seq(Message)
  BY TypeParts DEF SdlTypes, IdTypes, WireTypes
<1>2. Takes /\ Got.type = "START"
  BY DEF SdlNewSession, Take, Got, Takes
<1>3. PICK id \in Ids :
        /\ ~sdl[id].live
        /\ Odd("reuse", sdl[id].used)
        /\ sdl' = [sdl EXCEPT ![id] = [Free EXCEPT !.live = TRUE, !.used = TRUE]]
        /\ Reply(Frame("START_ACK", id, RPC, FALSE))
  BY DEF SdlNewSession
<1>. DEFINE x == Frame("START_ACK", id, RPC, FALSE)
            r == [Free EXCEPT !.live = TRUE, !.used = TRUE]
<1>4. x \in Message
  <2>1. "START_ACK" \in MessageTypes /\ RPC \in Named /\ id \in 0..MaxId
    BY SessionAssumption DEF MessageTypes, Named, Services, Ids
  <2>. QED
    BY <2>1, FrameType
<1>5. x.type = "START_ACK" /\ x.id = id /\ x.svc = RPC /\ ~x.enc
  BY DEF Frame
<1>6. r \in SdlSession
  BY DEF Free, SdlSession
<1>7. toMobile' = Append(toMobile, x)
  BY <1>3 DEF Reply
<1>8. sdl' = [sdl EXCEPT ![id] = r] /\ (sdl[id].used => "reuse" \in Faults)
      /\ seen' \subseteq Oddities
  BY <1>1, <1>3 DEF Odd, Oddities
<1>. HIDE DEF x, r
<1>9. SdlTypes' /\ sdl'[id] = r /\ \A j \in Ids : j # id => sdl'[j] = sdl[j]
  BY <1>1, <1>6, <1>8 DEF SdlTypes
<1>10. Creates(id)
  BY <1>2, <1>3, <1>4, <1>5, <1>7, <1>8, <1>9 DEF Creates, Opened, r
<1>11. toMobile' \in Seq(Message)
  BY <1>1, <1>4, <1>7
<1>. QED
  BY <1>2, <1>8, <1>9, <1>10, <1>11, TakeTypes DEF Takes

LEMMA SdlRefuseStep ==
  ASSUME TypeOK, SdlRefuse
  PROVE  TypeOK' /\ Refuses
<1>1. sdl \in [Ids -> SdlSession] /\ seen \subseteq Oddities /\ toMobile \in Seq(Message)
  BY TypeParts DEF SdlTypes, IdTypes, WireTypes
<1>2. /\ Takes /\ Got.type \in {"START", "END"} /\ UNCHANGED sdl
      /\ "nack" \in Faults \/ (Got.id # 0 /\ ~Live(Got.id))
      /\ seen' = seen \cup {"nack"}
  BY DEF SdlRefuse, Take, Got, Takes
<1>. DEFINE type == IF Got.type = "START" THEN "START_NACK" ELSE "END_NACK"
<1>3. PICK enc \in {FALSE, Got.enc} : Reply(Frame(type, Got.id, Got.svc, enc))
  BY DEF SdlRefuse, Got
<1>4. Got.id \in 0..MaxId /\ Got.svc \in Named /\ Got.enc \in BOOLEAN
  BY <1>2, GotTypes DEF Takes
<1>. DEFINE x == Frame(type, Got.id, Got.svc, enc)
<1>5. enc \in BOOLEAN /\ type \in MessageTypes /\ type \in {"START_NACK", "END_NACK"}
  BY <1>4 DEF MessageTypes
<1>. HIDE DEF type
<1>6. x \in Message
  BY <1>4, <1>5, FrameType
<1>7. x.type = type /\ x.id = Got.id /\ toMobile' = Append(toMobile, x)
  BY <1>3 DEF Frame, Reply
<1>. HIDE DEF x
<1>8. Refuses
  BY <1>2, <1>5, <1>6, <1>7 DEF Refuses
<1>9. toMobile' \in Seq(Message) /\ SdlTypes' /\ seen' \subseteq Oddities
  BY <1>1, <1>2, <1>6, <1>7 DEF SdlTypes, Oddities
<1>. QED
  BY <1>2, <1>8, <1>9, TakeTypes DEF Takes

LEMMA SdlEndStep ==
  ASSUME TypeOK, SdlEnd
  PROVE  TypeOK' /\ Closes
<1>1. sdl \in [Ids -> SdlSession] /\ seen \subseteq Oddities /\ toMobile \in Seq(Message)
  BY TypeParts DEF SdlTypes, IdTypes, WireTypes
<1>. DEFINE m == Got
            r == sdl[m.id]
            r1 == IF m.svc = RPC THEN [r EXCEPT !.live = FALSE, !.wait = {}, !.secure = {}]
                  ELSE [r EXCEPT !.wait = r.wait \ {m.svc}, !.secure = r.secure \ {m.svc}]
            x == Frame("END_ACK", m.id, m.svc, FALSE)
<1>2. /\ Takes /\ m.type = "END" /\ Live(m.id) /\ UNCHANGED seen
      /\ sdl' = [sdl EXCEPT ![m.id] = r1] /\ toMobile' = Append(toMobile, x)
  <2>1. /\ Takes /\ m.type = "END" /\ Live(m.id) /\ UNCHANGED seen
        /\ toMobile' = Append(toMobile, x)
    BY DEF SdlEnd, Take, Got, Takes, Reply
  <2>2. sdl' = [sdl EXCEPT ![m.id] = r1]
    BY DEF SdlEnd, Got
  <2>. QED
    BY <2>1, <2>2
<1>3. m.id \in 0..MaxId /\ m.svc \in Named
  BY <1>2, GotTypes DEF Takes
<1>4. m.id \in Ids /\ r \in SdlSession /\ r.live
  BY <1>1, <1>2 DEF Live
<1>5. x \in Message
  BY <1>3, FrameType DEF MessageTypes
<1>6. x.type = "END_ACK" /\ x.id = m.id /\ x.svc = m.svc
  BY DEF Frame
<1>7. /\ r1 \in SdlSession /\ (r1.live <=> m.svc # RPC) /\ r1.used = r.used
      /\ r1.hand = r.hand /\ r1.answered = r.answered
  <2>1. CASE m.svc = RPC
    BY <1>4, <2>1 DEF SdlSession
  <2>2. CASE m.svc # RPC
    <3>. DEFINE W == r.wait \ {m.svc}
                S == r.secure \ {m.svc}
    <3>1. W \in SUBSET Services /\ S \in SUBSET Services
      BY <1>4 DEF SdlSession
    <3>2. r1 = [r EXCEPT !.wait = W, !.secure = S]
      BY <2>2
    <3>. HIDE DEF W, S, r1
    <3>. QED
      BY <1>4, <2>2, <3>1, <3>2 DEF SdlSession
  <2>. QED
    BY <2>1, <2>2
<1>. HIDE DEF x, r1
<1>8. SdlTypes' /\ sdl'[m.id] = r1 /\ \A j \in Ids : j # m.id => sdl'[j] = sdl[j]
  BY <1>1, <1>2, <1>4, <1>7 DEF SdlTypes
<1>9. Closes
  BY <1>2, <1>5, <1>6, <1>7, <1>8 DEF Closes
<1>10. toMobile' \in Seq(Message)
  BY <1>1, <1>2, <1>5
<1>. QED
  BY <1>1, <1>2, <1>8, <1>9, <1>10, TakeTypes DEF Takes

LEMMA SdlHeartbeatStep ==
  ASSUME TypeOK, NEW id \in Ids, SdlHeartbeat(id)
  PROVE  TypeOK' /\ Pings(id)
<1>1. IdTypes /\ SecurityTypes /\ BeatTypes /\ PoolTypes /\ WireTypes /\ SdlTypes
  BY TypeParts
<1>. DEFINE x == Beat("HEARTBEAT", id)
<1>2. /\ UNCHANGED mobileVars /\ UNCHANGED <<toSDL, sdl, seen>> /\ Live(id)
      /\ toMobile' = Append(toMobile, x)
  BY DEF SdlHeartbeat, Reply
<1>3. x \in Message
  <2>1. "HEARTBEAT" \in MessageTypes /\ id \in 0..MaxId
    BY SessionAssumption DEF MessageTypes, Ids
  <2>. QED
    BY <2>1, BeatType
<1>4. x.type = "HEARTBEAT" /\ x.id = id
  BY DEF Beat, Frame
<1>. HIDE DEF x
<1>5. Pings(id)
  BY <1>2, <1>3, <1>4 DEF Pings
<1>6. IdTypes' /\ SecurityTypes' /\ BeatTypes' /\ PoolTypes' /\ SdlTypes'
  BY <1>1, <1>2
     DEF IdTypes, SecurityTypes, BeatTypes, PoolTypes, SdlTypes, mobileVars, idVars, securityVars
<1>7. WireTypes'
  BY <1>1, <1>2, <1>3 DEF WireTypes
<1>. QED
  BY <1>5, <1>6, <1>7, TypePartsNext


-----------------------------------------------------------------------------
(* Every step is of one of these kinds                                     *)

Arrives ==
  \E e \in pool, m \in Message :
    /\ Finds(e, m) /\ e.kind = "start" /\ e.svc = RPC /\ ~e.enc /\ Begins(e.s, m)
Step ==
  \/ Speaks
  \/ \E s \in Sessions : Start(s) \/ Stop(s)
  \/ Arrives
  \/ Answers \/ Refuses \/ Closes
  \/ \E id \in Ids : Creates(id) \/ Pings(id)

LEMMA DeliverStep ==
  ASSUME TypeOK, Proper, Deliver
  PROVE  TypeOK' /\ (Speaks \/ Arrives)
<1>. DEFINE m == Head(toMobile)
<1>1. Comes(m)
  BY DEF Deliver, Comes
<1>2. CASE Handlers(m) = {}
  <2>1. UNCHANGED <<idVars, correlationId, securityVars, heartbeat, pool, startEvents, toSDL>>
    BY <1>2 DEF Deliver
  <2>. HIDE DEF m
  <2>. QED
    BY <1>1, <2>1, UnhandledStep
<1>3. CASE Handlers(m) # {}
  <2>1. PICK e \in Handlers(m) : Act(e, m)
    BY <1>3 DEF Deliver
  <2>. HIDE DEF m
  <2>2. Finds(e, m)
    BY <1>1 DEF Handlers, Finds
  <2>3. e \in pool /\ e.kind \in Kinds /\ m \in Message /\ (e.kind = "start" => e.svc \in Services)
    BY <2>2, Found DEF Proper
  <2>4. CASE Ignored(e, m)
    BY <2>2, <2>4, IgnoredStep
  <2>5. CASE OnHandshake(e, m)
    BY <2>2, <2>5, HandshakeStep
  <2>6. CASE OnHeartbeat(e)
    BY <2>2, <2>6, HeartbeatAnswered
  <2>7. CASE OnHeartbeatAck(e, m)
    BY <2>2, <2>7, HeartbeatAcked
  <2>8. CASE e.kind = "start" /\ OnStartSecure(e, m)
    BY <2>2, <2>3, <2>8, StartSecureAnswered
  <2>9. CASE e.kind = "start" /\ e.svc = RPC /\ ~e.enc /\ OnStartRPC(e, m)
    BY <2>2, <2>3, <2>9, StartRPCAnswered DEF Arrives
  <2>10. CASE OnStopRPC(e, m)
    BY <2>2, <2>10, StopRPCAnswered
  <2>11. CASE OnStopService(e, m)
    BY <2>2, <2>11, StopServiceAnswered
  <2>12. CASE OnResponse(e, m)
    BY <2>2, <2>12, Responds
  <2>. QED
    BY <2>1, <2>3, <2>4, <2>5, <2>6, <2>7, <2>8, <2>9, <2>10, <2>11, <2>12, Acts
<1>. QED
  BY <1>2, <1>3

LEMMA NextSteps ==
  ASSUME TypeOK, Proper, Next
  PROVE  TypeOK' /\ Step
<1>1. ASSUME NEW s \in Sessions, Script(s)
      PROVE  TypeOK' /\ Step
  <2>1. CASE Start(s)
    BY <2>1, StartTypes DEF Step
  <2>2. CASE Stop(s)
    BY <2>2, StopTypes DEF Step
  <2>3. CASE SendEncryptedRPC(s)
    BY <2>3, EncryptedStep DEF Step
  <2>4. CASE StartHeartbeatCall(s)
    BY <2>4, StartHeartbeatStep DEF Step
  <2>5. CASE StopHeartbeatCall(s)
    BY <2>5, StopHeartbeatStep DEF Step
  <2>6. ASSUME NEW svc \in Streams, StartService(s, svc)
        PROVE  TypeOK' /\ Step
    BY <2>6, StartServiceStep DEF Step
  <2>7. ASSUME NEW svc \in Streams, StopService(s, svc)
        PROVE  TypeOK' /\ Step
    BY <2>7, StopServiceStep DEF Step
  <2>8. ASSUME NEW svc \in Services, StartSecureService(s, svc)
        PROVE  TypeOK' /\ Step
    BY <2>8, StartSecureStep DEF Step
  <2>. QED
    BY <1>1, <2>1, <2>2, <2>3, <2>4, <2>5, <2>6, <2>7, <2>8 DEF Script
<1>2. ASSUME NEW s \in Sessions, SendHeartbeat(s)
      PROVE  TypeOK' /\ Step
  BY <1>2, SendHeartbeatStep DEF Step
<1>3. ASSUME NEW e \in Collected, Expire(e)
      PROVE  TypeOK' /\ Step
  BY <1>3, ExpireStep DEF Step
<1>4. CASE EndStep
  BY <1>4, EndStepStep DEF Step
<1>5. CASE Deliver
  BY <1>5, DeliverStep DEF Step
<1>6. CASE Sdl
  BY <1>6, SdlNewStep, SdlStartStep, SdlRefuseStep, SdlEndStep, SdlHandshakeStep,
     SdlRequestStep, SdlHeartbeatInStep DEF Sdl, Step
<1>7. ASSUME NEW id \in Ids, SdlHeartbeat(id)
      PROVE  TypeOK' /\ Step
  BY <1>7, SdlHeartbeatStep DEF Step
<1>. QED
  BY <1>1, <1>2, <1>3, <1>4, <1>5, <1>6, <1>7 DEF Next



-----------------------------------------------------------------------------
(* What is in transit after a step                                         *)

LEMMA Joined ==
  ASSUME NEW S, NEW q \in Seq(S), NEW w \in Seq(S)
  PROVE  /\ Len(q \o w) = Len(q) + Len(w) /\ Len(q) \in Nat /\ Len(w) \in Nat
         /\ \A i \in 1..Len(q) : i \in 1..Len(q \o w) /\ (q \o w)[i] = q[i]
         /\ \A k \in 1..Len(w) : Len(q) + k \in 1..Len(q \o w) /\ (q \o w)[Len(q) + k] = w[k]
         /\ \A i \in 1..Len(q \o w) :
              \/ i \in 1..Len(q) /\ (q \o w)[i] = q[i]
              \/ i > Len(q) /\ \E k \in 1..Len(w) : (q \o w)[i] = w[k]
<1>1. /\ Len(q \o w) = Len(q) + Len(w)
      /\ \A i \in 1..(Len(q) + Len(w)) :
           (q \o w)[i] = IF i <= Len(q) THEN q[i] ELSE w[i - Len(q)]
  BY ConcatProperties, Zenon
<1>2. Len(q) \in Nat /\ Len(w) \in Nat
  OBVIOUS
<1>3. /\ \A i \in 1..Len(q) : i \in 1..(Len(q) + Len(w)) /\ i <= Len(q)
      /\ \A k \in 1..Len(w) : Len(q) + k \in 1..(Len(q) + Len(w)) /\ ~(Len(q) + k <= Len(q))
                              /\ (Len(q) + k) - Len(q) = k
      /\ \A i \in 1..(Len(q) + Len(w)) :
           IF i <= Len(q) THEN i \in 1..Len(q) ELSE i > Len(q) /\ i - Len(q) \in 1..Len(w)
  BY <1>2
<1>4. \A k \in 1..Len(w) : (q \o w)[Len(q) + k] = w[(Len(q) + k) - Len(q)]
  BY <1>1, <1>3
<1>. QED
  BY <1>1, <1>2, <1>3, <1>4

(* Every element of q \o w is one of q, in its place, or one of w.          *)
SplitAt(q, w) ==
  \A i \in 1..Len(q \o w) :
    \/ i \in 1..Len(q) /\ (q \o w)[i] = q[i]
    \/ i > Len(q) /\ \E k \in 1..Len(w) : (q \o w)[i] = w[k]

LEMMA JoinedSplit ==
  ASSUME NEW S, NEW q \in Seq(S), NEW w \in Seq(S)
  PROVE  SplitAt(q, w)
BY Joined DEF SplitAt

LEMMA JoinedLater ==
  ASSUME NEW S, NEW q \in Seq(S), NEW w \in Seq(S), NEW i \in 1..Len(q \o w), ~(i \in 1..Len(q))
  PROVE  \E j \in 1..Len(w) : (q \o w)[i] = w[j]
<1>1. /\ Len(q \o w) = Len(q) + Len(w)
      /\ \A k \in 1..(Len(q) + Len(w)) :
           (q \o w)[k] = IF k <= Len(q) THEN q[k] ELSE w[k - Len(q)]
  BY ConcatProperties, Zenon
<1>. DEFINE t == q \o w
<1>. HIDE DEF t
<1>2. /\ Len(t) = Len(q) + Len(w) /\ i \in 1..Len(t)
      /\ \A k \in 1..(Len(q) + Len(w)) : t[k] = IF k <= Len(q) THEN q[k] ELSE w[k - Len(q)]
  BY <1>1, Zenon DEF t
<1>3. Len(q) \in Nat /\ Len(w) \in Nat
  OBVIOUS
<1>4. i \in 1..(Len(q) + Len(w)) /\ ~(i <= Len(q)) /\ i - Len(q) \in 1..Len(w)
  BY <1>2, <1>3
<1>5. t[i] = w[i - Len(q)]
  BY <1>2, <1>4, Zenon
<1>. QED
  BY <1>4, <1>5, Zenon DEF t

LEMMA Appended ==
  ASSUME NEW S, NEW q \in Seq(S), NEW x \in S
  PROVE  /\ Len(Append(q, x)) = Len(q) + 1 /\ Len(q) \in Nat
         /\ \A i \in 1..Len(q) : i \in 1..Len(Append(q, x)) /\ Append(q, x)[i] = q[i]
         /\ \A i \in 1..Len(Append(q, x)) :
              \/ i \in 1..Len(q) /\ Append(q, x)[i] = q[i]
              \/ i > Len(q) /\ i = Len(q) + 1 /\ Append(q, x)[i] = x
  OBVIOUS

LEMMA Tailed ==
  ASSUME NEW S, NEW q \in Seq(S), q # <<>>
  PROVE  /\ Len(Tail(q)) = Len(q) - 1 /\ Len(q) \in Nat /\ Len(q) >= 1
         /\ \A i \in 1..Len(Tail(q)) : i + 1 \in 1..Len(q) /\ Tail(q)[i] = q[i + 1]
         /\ \A i \in 1..Len(q) : i # 1 => i - 1 \in 1..Len(Tail(q)) /\ Tail(q)[i - 1] = q[i]
  OBVIOUS

LEMMA ProperStep ==
  ASSUME TypeOK, Proper, Step
  PROVE  Proper'
<1>1. toSDL \in Seq(Message)
  BY TypeParts DEF WireTypes
<1>2. \A s \in Sessions : sessionId[s] \in 0..MaxId
  BY TypeParts DEF IdTypes
<1>3. CASE Speaks
  <2>1. \A e \in pool' : e.kind = "start" => e.svc \in Services
    BY <1>3 DEF Speaks, Expects, New, Like, Proper
  <2>2. PICK w \in Seq(Message) : toSDL' = toSDL \o w /\ \A k \in 1..Len(w) : Said(w[k])
    BY <1>3 DEF Speaks, Says
  <2>3. \A k \in 1..Len(w) : w[k].type = "START" => w[k].svc \in Services
    BY <2>2 DEF Said
  <2>4. \A i \in 1..Len(toSDL') : toSDL'[i].type = "START" => toSDL'[i].svc \in Services
    BY <1>1, <2>2, <2>3, Joined DEF Proper
  <2>. QED
    BY <2>1, <2>4 DEF Proper
<1>4. ASSUME NEW s \in Sessions, Start(s)
      PROVE  Proper'
  <2>. DEFINE m == Frame("START", sessionId[s], RPC, FALSE)
              e == Expect(s, "start", RPC, FALSE, 0)
  <2>1. m \in Message /\ m.svc = RPC
    BY <1>2, FrameType DEF MessageTypes, Named, Services, Frame
  <2>2. e.svc = RPC
    BY DEF Expect
  <2>3. toSDL' = Append(toSDL, m) /\ pool' = pool \cup {e}
    BY <1>4 DEF Start, Send, Added
  <2>. HIDE DEF m, e
  <2>4. \A i \in 1..Len(toSDL') : toSDL'[i].type = "START" => toSDL'[i].svc \in Services
    BY <1>1, <2>1, <2>3, Appended DEF Proper, Services
  <2>. QED
    BY <2>2, <2>3, <2>4 DEF Proper, Services
<1>5. ASSUME NEW s \in Sessions, Stop(s)
      PROVE  Proper'
  <2>. DEFINE m == Frame("END", sessionId[s], RPC, FALSE)
              e == Expect(s, "end", RPC, FALSE, 0)
  <2>1. m \in Message /\ m.svc = RPC
    BY <1>2, FrameType DEF MessageTypes, Named, Services, Frame
  <2>2. e.svc = RPC
    BY DEF Expect
  <2>3. toSDL' = Append(toSDL, m) /\ pool' = pool \cup {e}
    BY <1>5 DEF Stop, Send, Added
  <2>. HIDE DEF m, e
  <2>4. \A i \in 1..Len(toSDL') : toSDL'[i].type = "START" => toSDL'[i].svc \in Services
    BY <1>1, <2>1, <2>3, Appended DEF Proper, Services
  <2>. QED
    BY <2>2, <2>3, <2>4 DEF Proper, Services
<1>6. ASSUME NEW e \in pool, NEW m \in Message, Begins(e.s, m)
      PROVE  Proper'
  <2>1. PICK w \in Seq(Message) :
          toSDL' = toSDL \o w /\ \A k \in 1..Len(w) : w[k].type # "START"
    BY <1>6 DEF Begins
  <2>2. \A i \in 1..Len(toSDL') : toSDL'[i].type = "START" => toSDL'[i].svc \in Services
    BY <1>1, <2>1, Joined DEF Proper
  <2>3. \A x \in pool' : x.kind = "start" => x.svc \in Services
    BY <1>6, ZenonT(30) DEF Begins, Like, Proper
  <2>. QED
    BY <2>2, <2>3 DEF Proper
<1>7. ASSUME UNCHANGED mobileVars, toSDL # <<>>, toSDL' = Tail(toSDL)
      PROVE  Proper'
  BY <1>1, <1>7, Tailed DEF Proper, mobileVars
<1>8. ASSUME UNCHANGED mobileVars, UNCHANGED toSDL
      PROVE  Proper'
  BY <1>8 DEF Proper, mobileVars
<1>. QED
  BY <1>3, <1>4, <1>5, <1>6, <1>7, <1>8
  DEF Step, Arrives, Answers, Refuses, Closes, Creates, Pings, Takes

(* Every variable keeps its type, whatever SDL refuses and the script      *)
(* repeats.                                                                *)
THEOREM TypeCorrect == Spec => []TypeOK
<1>1. Init => TypeOK /\ Proper
  <2>1. Init => Proper
    BY DEF Init, Proper
  <2>. QED
    BY <2>1, TypeInit
<1>2. TypeOK /\ Proper /\ [Next]_vars => (TypeOK /\ Proper)'
  <2>1. ASSUME TypeOK, Proper, Next
        PROVE  TypeOK' /\ Proper'
    BY <2>1, NextSteps, ProperStep
  <2>2. ASSUME TypeOK, Proper, UNCHANGED vars
        PROVE  TypeOK' /\ Proper'
    BY <2>2 DEF TypeOK, Proper, vars
  <2>. QED
    BY <2>1, <2>2
<1>. QED
  BY <1>1, <1>2, PTL DEF Spec



-----------------------------------------------------------------------------
(* Whose id it is, when SDL refuses nothing, gives no id twice and the     *)
(* script uses a session once                                              *)

Regular == Faults \cap {"nack", "reuse", "restart", "stopped"} = {}

LEMMA SaidWire ==
  ASSUME TypeOK, Says
  PROVE  \A i \in 1..Len(toSDL') :
           \/ i \in 1..Len(toSDL) /\ toSDL'[i] = toSDL[i]
           \/ i > Len(toSDL) /\ Said(toSDL'[i])
<1>1. toSDL \in Seq(Message)
  BY TypeParts DEF WireTypes
<1>2. PICK w \in Seq(Message) : toSDL' = toSDL \o w /\ \A k \in 1..Len(w) : Said(w[k])
  BY DEF Says
<1>3. \A i \in 1..Len(toSDL \o w) :
        \/ i \in 1..Len(toSDL) /\ (toSDL \o w)[i] = toSDL[i]
        \/ i > Len(toSDL) /\ \E k \in 1..Len(w) : (toSDL \o w)[i] = w[k]
  <2>1. SplitAt(toSDL, w)
    BY <1>1, JoinedSplit
  <2>. QED
    BY <2>1 DEF SplitAt
<1>. QED
  BY <1>2, <1>3

LEMMA SentWire ==
  ASSUME TypeOK, NEW x \in Message, toSDL' = Append(toSDL, x)
  PROVE  \A i \in 1..Len(toSDL') :
           \/ i \in 1..Len(toSDL) /\ toSDL'[i] = toSDL[i]
           \/ i > Len(toSDL) /\ i = Len(toSDL) + 1 /\ toSDL'[i] = x
  BY Appended, TypeParts DEF WireTypes

LEMMA TakenWire ==
  ASSUME TypeOK, toSDL # <<>>, toSDL' = Tail(toSDL)
  PROVE  /\ \A i \in 1..Len(toSDL') : i + 1 \in 1..Len(toSDL) /\ toSDL'[i] = toSDL[i + 1]
         /\ \A i \in 1..Len(toSDL) : i # 1 => i - 1 \in 1..Len(toSDL') /\ toSDL'[i - 1] = toSDL[i]
  BY Tailed, TypeParts DEF WireTypes

LEMMA DeliveredWire ==
  ASSUME TypeOK, Delivers
  PROVE  \A i \in 1..Len(toMobile') : i + 1 \in 1..Len(toMobile) /\ toMobile'[i] = toMobile[i + 1]
  BY Tailed, TypeParts DEF WireTypes, Delivers

LEMMA ToldWire ==
  ASSUME TypeOK, Tells
  PROVE  \A i \in 1..Len(toMobile') :
           \/ i \in 1..Len(toMobile) /\ toMobile'[i] = toMobile[i]
           \/ i > Len(toMobile) /\ Told(toMobile'[i])
<1>1. toMobile \in Seq(Message)
  BY TypeParts DEF WireTypes
<1>2. PICK w \in Seq(Message) : toMobile' = toMobile \o w /\ \A k \in 1..Len(w) : Told(w[k])
  BY DEF Tells
<1>3. \A i \in 1..Len(toMobile \o w) :
        \/ i \in 1..Len(toMobile) /\ (toMobile \o w)[i] = toMobile[i]
        \/ i > Len(toMobile) /\ \E k \in 1..Len(w) : (toMobile \o w)[i] = w[k]
  <2>1. SplitAt(toMobile, w)
    BY <1>1, JoinedSplit
  <2>. QED
    BY <2>1 DEF SplitAt
<1>. QED
  BY <1>2, <1>3

LEMMA ReplyWire ==
  ASSUME TypeOK, NEW x \in Message, toMobile' = Append(toMobile, x)
  PROVE  \A i \in 1..Len(toMobile') :
           \/ i \in 1..Len(toMobile) /\ toMobile'[i] = toMobile[i]
           \/ i > Len(toMobile) /\ i = Len(toMobile) + 1 /\ toMobile'[i] = x
  BY Appended, TypeParts DEF WireTypes

LEMMA WireIds ==
  ASSUME TypeOK
  PROVE  /\ \A i \in 1..Len(toSDL) : toSDL[i] \in Message /\ toSDL[i].id \in 0..MaxId
                                     /\ i \in Int
         /\ \A i \in 1..Len(toMobile) : toMobile[i] \in Message /\ toMobile[i].id \in 0..MaxId
                                        /\ i \in Int
         /\ Len(toSDL) \in Nat /\ Len(toMobile) \in Nat
<1>1. toSDL \in Seq(Message) /\ toMobile \in Seq(Message)
  BY TypeParts DEF WireTypes
<1>2. \A m \in Message : m.id \in 0..MaxId
  BY MessageShape
<1>. QED
  BY <1>1, <1>2

(* A message of SDL that is taken, or stays, without a change of ids.      *)
LEMMA FromSdlKept ==
  ASSUME TypeOK, FromSdl, UNCHANGED <<sessionId, sdl>>, UNCHANGED toMobile \/ Delivers
  PROVE  FromSdl'
<1>1. CASE UNCHANGED toMobile
  BY <1>1 DEF FromSdl, Accepts, OpenedFresh, OpenedOnce, AnswersOwned, Owned
<1>2. CASE Delivers
  <2>1. \A i \in 1..Len(toMobile') : i + 1 \in 1..Len(toMobile) /\ toMobile'[i] = toMobile[i + 1]
    BY <1>2, DeliveredWire
  <2>2. Accepts' /\ OpenedFresh' /\ AnswersOwned'
    <3>1. Accepts'
      BY <2>1 DEF FromSdl, Accepts
    <3>2. OpenedFresh'
      BY <2>1 DEF FromSdl, OpenedFresh, Owned
    <3>3. AnswersOwned'
      BY <2>1 DEF FromSdl, AnswersOwned, Owned
    <3>. QED
      BY <3>1, <3>2, <3>3
  <2>3. OpenedOnce'
    <3>1. SUFFICES ASSUME NEW i \in 1..Len(toMobile'), NEW j \in 1..Len(toMobile'),
                          Opened(toMobile'[i]), Opened(toMobile'[j]),
                          toMobile'[j].id = toMobile'[i].id
                   PROVE  i = j
      BY DEF OpenedOnce
    <3>2. i + 1 = j + 1
      BY <2>1, <3>1 DEF FromSdl, OpenedOnce
    <3>. QED
      BY <3>2
  <2>. QED
    BY <2>2, <2>3 DEF FromSdl
<1>. QED
  BY <1>1, <1>2

LEMMA OrderlySpeaks ==
  ASSUME Regular, Orderly, Speaks
  PROVE  Lives' /\ Distinct' /\ Expecting' /\ FromMobile' /\ FromSdl' /\ Used'
<1>1. TypeOK /\ ~Loose /\ Lives /\ Distinct /\ Expecting /\ FromMobile /\ FromSdl /\ Used
  BY DEF Orderly, Regular, Loose
<1>2. Still /\ (UNCHANGED toMobile \/ Delivers) /\ Says /\ BeatsOn /\ Expects
  BY DEF Speaks
<1>3. Lives'
  BY <1>1, <1>2 DEF Lives, BeatsOn, Still
<1>4. Distinct' /\ Used'
  BY <1>1, <1>2 DEF Distinct, Used, Still
<1>5. Expecting'
  BY <1>1, <1>2 DEF Expecting, Expects, New, Like, Still
<1>6. FromSdl'
  BY <1>1, <1>2, FromSdlKept DEF Still
<1>7. \A i \in 1..Len(toSDL') :
        \/ i \in 1..Len(toSDL) /\ toSDL'[i] = toSDL[i]
        \/ i > Len(toSDL) /\ Said(toSDL'[i])
  BY <1>1, <1>2, SaidWire
<1>8. OpensWithout'
  BY <1>1, <1>7 DEF FromMobile, OpensWithout, Said
<1>9. SentOwned'
  BY <1>1, <1>2, <1>7 DEF FromMobile, SentOwned, Said, Owned, Still
<1>10. SentLive'
  <2>1. ASSUME NEW m, Said(m), m.type \in {"START", "END"}, m.id # 0
        PROVE  sdl[m.id].live
    BY <1>1, <2>1 DEF Said, Lives
  <2>. QED
    BY <1>1, <1>2, <1>7, <2>1 DEF FromMobile, SentLive, Still
<1>11. EndsStopped'
  BY <1>1, <1>2, <1>7 DEF FromMobile, EndsStopped, Said, Still
<1>12. EndsLast'
  <2>1. SUFFICES ASSUME NEW i \in 1..Len(toSDL'), NEW j \in 1..Len(toSDL'),
                        i < j, Ends(toSDL'[i]), toSDL'[j].id = toSDL'[i].id
                 PROVE  toSDL'[j].type = "HANDSHAKE"
    BY DEF EndsLast
  <2>2. i \in 1..Len(toSDL) /\ toSDL'[i] = toSDL[i]
    BY <1>7, <2>1 DEF Said
  <2>3. CASE j \in 1..Len(toSDL) /\ toSDL'[j] = toSDL[j]
    BY <1>1, <2>1, <2>2, <2>3 DEF FromMobile, EndsLast
  <2>4. CASE Said(toSDL'[j])
    <3>1. PICK s \in Sessions : /\ toSDL'[j].id = sessionId[s]
                                /\ toSDL'[j].type # "HANDSHAKE" =>
                                     uses[s] = 1 \/ heartbeat[s].enabled \/ Loose
      BY <2>4 DEF Said
    <3>2. uses[s] = 2
      BY <1>1, <2>1, <2>2, <3>1 DEF FromMobile, EndsStopped
    <3>. QED
      BY <1>1, <3>1, <3>2 DEF Lives
  <2>. QED
    BY <1>7, <2>3, <2>4
<1>. QED
  BY <1>3, <1>4, <1>5, <1>6, <1>8, <1>9, <1>10, <1>11, <1>12 DEF FromMobile


LEMMA OrderlyStart ==
  ASSUME Regular, Orderly, NEW s \in Sessions, Start(s)
  PROVE  Lives' /\ Distinct' /\ Expecting' /\ FromMobile' /\ FromSdl' /\ Used'
<1>1. TypeOK /\ Lives /\ Distinct /\ Expecting /\ FromMobile /\ FromSdl /\ Used
  BY DEF Orderly
<1>2. IdTypes /\ BeatTypes
  BY <1>1, TypeParts
<1>3. uses[s] = 0 /\ sessionId[s] = 0
  BY <1>1 DEF Start, Odd, Regular, Lives
<1>. DEFINE m == Frame("START", 0, RPC, FALSE)
            e == Expect(s, "start", RPC, FALSE, 0)
<1>4. /\ UNCHANGED <<sessionId, hashCode, toMobile, sdl>>
      /\ uses' = [uses EXCEPT ![s] = 1]
      /\ toSDL' = Append(toSDL, m) /\ pool' = pool \cup {e}
      /\ heartbeat' = [heartbeat EXCEPT ![s] = OnMessageSent(heartbeat[s])]
  BY <1>2, <1>3 DEF Start, Send, Added, idVars, IdTypes
<1>5. m \in Message /\ m.id = 0 /\ m.type = "START"
  <2>1. 0 \in 0..MaxId
    BY SessionAssumption
  <2>. QED
    BY <2>1, FrameType DEF MessageTypes, Named, Services, Frame
<1>6. e.s = s /\ ~e.enc
  BY DEF Expect
<1>. HIDE DEF m, e
<1>7. uses'[s] = 1 /\ \A t \in Sessions : t # s => uses'[t] = uses[t]
  BY <1>2, <1>4 DEF IdTypes
<1>8. \A t \in Sessions : heartbeat'[t].enabled = heartbeat[t].enabled
  BY <1>2, <1>4, MonitorForms DEF BeatTypes
<1>9. Lives'
  BY <1>1, <1>3, <1>4, <1>7, <1>8 DEF Lives
<1>10. Distinct' /\ Used'
  BY <1>1, <1>4 DEF Distinct, Used
<1>11. Expecting'
  <2>1. \A x \in pool : x.s \in Sessions
    BY <1>1 DEF TypeOK, Expectation
  <2>. QED
    BY <1>1, <1>4, <1>6, <1>7, <2>1 DEF Expecting
<1>12. FromSdl'
  BY <1>1, <1>4, FromSdlKept
<1>13. \A i \in 1..Len(toSDL') :
         \/ i \in 1..Len(toSDL) /\ toSDL'[i] = toSDL[i]
         \/ i > Len(toSDL) /\ i = Len(toSDL) + 1 /\ toSDL'[i] = m
  BY <1>1, <1>4, <1>5, SentWire
<1>14. OpensWithout' /\ SentOwned'
  BY <1>1, <1>4, <1>5, <1>13 DEF FromMobile, OpensWithout, SentOwned, Owned
<1>15. SentLive'
  BY <1>1, <1>4, <1>5, <1>13 DEF FromMobile, SentLive
<1>16. EndsStopped'
  BY <1>1, <1>3, <1>4, <1>5, <1>7, <1>13 DEF FromMobile, EndsStopped, Ends
<1>17. EndsLast'
  <2>1. SUFFICES ASSUME NEW i \in 1..Len(toSDL'), NEW j \in 1..Len(toSDL'),
                        i < j, Ends(toSDL'[i]), toSDL'[j].id = toSDL'[i].id
                 PROVE  toSDL'[j].type = "HANDSHAKE"
    BY DEF EndsLast
  <2>2. i \in 1..Len(toSDL) /\ toSDL'[i] = toSDL[i]
    BY <1>5, <1>13, <2>1 DEF Ends
  <2>3. CASE j \in 1..Len(toSDL) /\ toSDL'[j] = toSDL[j]
    BY <1>1, <2>1, <2>2, <2>3 DEF FromMobile, EndsLast
  <2>4. CASE toSDL'[j] = m
    <3>1. uses[s] = 2
      BY <1>1, <1>3, <1>5, <2>1, <2>2, <2>4 DEF FromMobile, EndsStopped
    <3>. QED
      BY <1>3, <3>1
  <2>. QED
    BY <1>13, <2>3, <2>4
<1>. QED
  BY <1>9, <1>10, <1>11, <1>12, <1>14, <1>15, <1>16, <1>17 DEF FromMobile

LEMMA OrderlyStop ==
  ASSUME Regular, Orderly, NEW s \in Sessions, Stop(s)
  PROVE  Lives' /\ Distinct' /\ Expecting' /\ FromMobile' /\ FromSdl' /\ Used'
<1>1. TypeOK /\ Lives /\ Distinct /\ Expecting /\ FromMobile /\ FromSdl /\ Used
  BY DEF Orderly
<1>2. IdTypes /\ BeatTypes
  BY <1>1, TypeParts
<1>3. uses[s] = 1 /\ sessionId[s] # 0 /\ sdl[sessionId[s]].live
  BY <1>1 DEF Stop, Odd, Regular, Lives
<1>. DEFINE m == Frame("END", sessionId[s], RPC, FALSE)
            e == Expect(s, "end", RPC, FALSE, 0)
<1>4. /\ UNCHANGED <<sessionId, hashCode, toMobile, sdl>>
      /\ uses' = [uses EXCEPT ![s] = 2]
      /\ toSDL' = Append(toSDL, m) /\ pool' = pool \cup {e}
      /\ heartbeat' = [heartbeat EXCEPT ![s] = StopHeartbeat(OnMessageSent(heartbeat[s]))]
  BY <1>2, <1>3 DEF Stop, Added, idVars, IdTypes
<1>5. m \in Message /\ m.id = sessionId[s] /\ m.type = "END" /\ m.svc = RPC
  BY <1>2, FrameType DEF MessageTypes, Named, Services, Frame, IdTypes
<1>6. e.s = s /\ ~e.enc
  BY DEF Expect
<1>. HIDE DEF m, e
<1>7. uses'[s] = 2 /\ \A t \in Sessions : t # s => uses'[t] = uses[t]
  BY <1>2, <1>4 DEF IdTypes
<1>8. ~heartbeat'[s].enabled /\ \A t \in Sessions : t # s => heartbeat'[t] = heartbeat[t]
  BY <1>2, <1>4, MonitorForms DEF BeatTypes
<1>9. Lives'
  BY <1>1, <1>3, <1>4, <1>7, <1>8 DEF Lives
<1>10. Distinct' /\ Used'
  BY <1>1, <1>4 DEF Distinct, Used
<1>11. Expecting'
  <2>1. \A x \in pool : x.s \in Sessions
    BY <1>1 DEF TypeOK, Expectation
  <2>. QED
    BY <1>1, <1>4, <1>6, <1>7, <2>1 DEF Expecting
<1>12. FromSdl'
  BY <1>1, <1>4, FromSdlKept
<1>13. \A i \in 1..Len(toSDL') :
         \/ i \in 1..Len(toSDL) /\ toSDL'[i] = toSDL[i]
         \/ i > Len(toSDL) /\ i = Len(toSDL) + 1 /\ toSDL'[i] = m
  BY <1>1, <1>4, <1>5, SentWire
<1>14. OpensWithout' /\ SentOwned'
  BY <1>1, <1>4, <1>5, <1>13 DEF FromMobile, OpensWithout, SentOwned, Owned, Opens
<1>15. SentLive'
  BY <1>1, <1>3, <1>4, <1>5, <1>13 DEF FromMobile, SentLive
<1>16. EndsStopped'
  BY <1>1, <1>3, <1>4, <1>5, <1>7, <1>13 DEF FromMobile, EndsStopped, Ends, Distinct
<1>17. EndsLast'
  <2>1. SUFFICES ASSUME NEW i \in 1..Len(toSDL'), NEW j \in 1..Len(toSDL'),
                        i < j, Ends(toSDL'[i]), toSDL'[j].id = toSDL'[i].id
                 PROVE  toSDL'[j].type = "HANDSHAKE"
    BY DEF EndsLast
  <2>2. i \in 1..Len(toSDL) /\ toSDL'[i] = toSDL[i]
    <3>1. Len(toSDL) \in Nat /\ Len(toSDL') = Len(toSDL) + 1
      BY <1>1, <1>4, <1>5, Appended, TypeParts DEF WireTypes
    <3>. QED
      BY <1>13, <2>1, <3>1
  <2>3. CASE j \in 1..Len(toSDL) /\ toSDL'[j] = toSDL[j]
    BY <1>1, <2>1, <2>2, <2>3 DEF FromMobile, EndsLast
  <2>4. CASE toSDL'[j] = m
    <3>1. uses[s] = 2
      BY <1>1, <1>5, <2>1, <2>2, <2>4 DEF FromMobile, EndsStopped
    <3>. QED
      BY <1>3, <3>1
  <2>. QED
    BY <1>13, <2>3, <2>4
<1>. QED
  BY <1>9, <1>10, <1>11, <1>12, <1>14, <1>15, <1>16, <1>17 DEF FromMobile


(* The answer to Start goes to a session without an id, and the id is new. *)
LEMMA ArrivesFresh ==
  ASSUME Orderly, NEW e \in pool, NEW m \in Message, Finds(e, m), e.kind = "start",
         e.svc = RPC, ~e.enc
  PROVE  /\ e.s \in Sessions /\ sessionId[e.s] = 0 /\ uses[e.s] = 1
         /\ m.id # 0 /\ m.id \in 0..MaxId /\ ~Owned(m.id) /\ sdl[m.id].live /\ sdl[m.id].used
         /\ m = toMobile[1] /\ Opened(m) /\ 1 \in 1..Len(toMobile)
<1>1. TypeOK /\ Lives /\ Expecting /\ FromSdl
  BY DEF Orderly
<1>2. m = toMobile[1] /\ 1 \in 1..Len(toMobile)
  BY <1>1, ComesTypes, WireIds DEF Finds
<1>3. e.s \in Sessions
  BY <1>1 DEF TypeOK, Expectation
<1>4. /\ m.type \in {"START_ACK", "START_NACK"} /\ m.svc = RPC /\ ~m.enc
      /\ m.id = sessionId[e.s] \/ sessionId[e.s] = 0
  BY DEF Finds, Matches
<1>5. Opened(m)
  BY <1>1, <1>2, <1>4 DEF Opened, FromSdl, Accepts
<1>6. m.id # 0 /\ ~Owned(m.id) /\ sdl[m.id].live /\ sdl[m.id].used
  BY <1>1, <1>2, <1>5 DEF FromSdl, Accepts, OpenedFresh
<1>7. sessionId[e.s] = 0
  BY <1>3, <1>4, <1>6 DEF Owned
<1>8. uses[e.s] = 1
  BY <1>1, <1>3, <1>7 DEF Lives, Expecting
<1>. QED
  BY <1>2, <1>3, <1>5, <1>6, <1>7, <1>8, MessageShape

LEMMA OrderlyArrives ==
  ASSUME Regular, Orderly, Arrives
  PROVE  Lives' /\ Distinct' /\ Expecting' /\ FromMobile' /\ FromSdl' /\ Used'
<1>1. TypeOK /\ Lives /\ Distinct /\ Expecting /\ FromMobile /\ FromSdl /\ Used
  BY DEF Orderly
<1>2. IdTypes /\ BeatTypes
  BY <1>1, TypeParts
<1>3. PICK e \in pool, m \in Message :
        Finds(e, m) /\ e.kind = "start" /\ e.svc = RPC /\ ~e.enc /\ Begins(e.s, m)
  BY DEF Arrives
<1>. DEFINE s == e.s
            id == m.id
<1>4. /\ s \in Sessions /\ sessionId[s] = 0 /\ uses[s] = 1
      /\ id # 0 /\ id \in 0..MaxId /\ ~Owned(id) /\ sdl[id].live /\ sdl[id].used
      /\ m = toMobile[1] /\ Opened(m) /\ 1 \in 1..Len(toMobile)
  BY <1>3, ArrivesFresh
<1>5. Begins(s, m)
  BY <1>3
<1>. HIDE DEF s
<1>6. /\ UNCHANGED <<uses, sdl>> /\ Delivers
      /\ sessionId'[s] = id /\ \A t \in Sessions : t # s => sessionId'[t] = sessionId[t]
      /\ hashCode'[s] /\ \A t \in Sessions : t # s => hashCode'[t] = hashCode[t]
      /\ \A t \in Sessions : t # s => heartbeat'[t] = heartbeat[t]
      /\ \A x \in pool' : (x.s = s /\ x.kind # "start") \/ \E f \in pool : Like(x, f)
  BY <1>2, <1>4, <1>5 DEF Begins, IdTypes
<1>7. \A x \in pool : x.s \in Sessions
  BY <1>1 DEF TypeOK, Expectation
<1>8. PICK w \in Seq(Message) :
        /\ toSDL' = toSDL \o w
        /\ \A k \in 1..Len(w) : w[k].id = id /\ w[k].type \in {"HEARTBEAT", "REQUEST"}
  BY <1>5 DEF Begins
<1>. HIDE DEF id
<1>9. \A i \in 1..Len(toSDL') :
        \/ i \in 1..Len(toSDL) /\ toSDL'[i] = toSDL[i]
        \/ i > Len(toSDL) /\ toSDL'[i].id = id /\ toSDL'[i].type \in {"HEARTBEAT", "REQUEST"}
  BY <1>1, <1>8, Joined, TypeParts DEF WireTypes
<1>10. \A i \in 1..Len(toMobile') :
         /\ i + 1 \in 1..Len(toMobile) /\ i + 1 # 1 /\ toMobile'[i] = toMobile[i + 1]
  <2>1. \A i \in 1..Len(toMobile') : i + 1 # 1
    OBVIOUS
  <2>. QED
    BY <1>1, <1>6, <2>1, DeliveredWire
<1>11. \A t \in Sessions : sessionId[t] # id
  BY <1>4 DEF Owned
<1>12. \A j : j # 0 /\ Owned(j) => \E t \in Sessions : sessionId'[t] = j
  BY <1>4, <1>6 DEF Owned
<1>13. Lives'
  BY <1>1, <1>4, <1>6 DEF Lives
<1>14. Distinct'
  BY <1>1, <1>4, <1>6, <1>11 DEF Distinct
<1>15. Used'
  BY <1>1, <1>6 DEF Used
<1>16. Expecting'
  BY <1>1, <1>4, <1>6, <1>7 DEF Expecting, Like
<1>17. OpensWithout' /\ SentOwned' /\ SentLive'
  <2>1. OpensWithout'
    BY <1>1, <1>9 DEF FromMobile, OpensWithout, Opens
  <2>2. SentOwned'
    BY <1>1, <1>4, <1>6, <1>9, <1>12 DEF FromMobile, SentOwned, Owned
  <2>3. SentLive'
    BY <1>1, <1>6, <1>9 DEF FromMobile, SentLive
  <2>. QED
    BY <2>1, <2>2, <2>3
<1>18. \A i \in 1..Len(toSDL) : toSDL[i].id # id
  BY <1>1, <1>4, <1>11 DEF FromMobile, SentOwned, Owned
<1>19. EndsStopped'
  BY <1>1, <1>4, <1>6, <1>9, <1>18 DEF FromMobile, EndsStopped, Ends
<1>20. EndsLast'
  BY <1>1, <1>9, <1>18 DEF FromMobile, EndsLast, Ends
<1>21. \A i \in 1..Len(toMobile') : Opened(toMobile'[i]) => toMobile'[i].id # id
  BY <1>1, <1>4, <1>10 DEF FromSdl, OpenedOnce, id
<1>22. Accepts'
  BY <1>1, <1>6, <1>10 DEF FromSdl, Accepts
<1>23. OpenedFresh'
  BY <1>1, <1>4, <1>6, <1>10, <1>21 DEF FromSdl, OpenedFresh, Owned, Accepts
<1>24. OpenedOnce'
  <2>1. SUFFICES ASSUME NEW i \in 1..Len(toMobile'), NEW j \in 1..Len(toMobile'),
                        Opened(toMobile'[i]), Opened(toMobile'[j]),
                        toMobile'[j].id = toMobile'[i].id
                 PROVE  i = j
    BY DEF OpenedOnce
  <2>2. i + 1 = j + 1
    BY <1>1, <1>10, <2>1 DEF FromSdl, OpenedOnce
  <2>. QED
    BY <2>2
<1>25. AnswersOwned'
  <2>1. \A i \in 1..Len(toMobile) : toMobile[i].id # 0
    BY <1>1 DEF FromSdl, Accepts
  <2>2. \A i \in 1..Len(toMobile) :
          \/ \E t \in Sessions : sessionId'[t] = toMobile[i].id
          \/ Opened(toMobile[i]) \/ toMobile[i].type = "HEARTBEAT"
    BY <1>1, <1>12, <2>1 DEF FromSdl, AnswersOwned
  <2>. QED
    BY <1>10, <2>2 DEF AnswersOwned, Owned
<1>. QED
  BY <1>13, <1>14, <1>15, <1>16, <1>17, <1>19, <1>20, <1>22, <1>23, <1>24, <1>25
  DEF FromMobile, FromSdl


(* What SDL takes from the connection leaves the rest in order, unless it  *)
(* ends a session that something else is still sent for.                   *)
LEMMA OrderlyTakes ==
  ASSUME Orderly, Takes,
         \A id \in Ids : sdl[id].live /\ ~sdl'[id].live => Ends(Got) /\ Got.id = id
  PROVE  FromMobile'
<1>1. TypeOK /\ FromMobile
  BY DEF Orderly
<1>2. \A i \in 1..Len(toSDL') : i + 1 \in 1..Len(toSDL) /\ toSDL'[i] = toSDL[i + 1]
  BY <1>1, TakenWire DEF Takes
<1>3. UNCHANGED <<sessionId, uses>>
  BY DEF Takes, mobileVars, idVars
<1>4. OpensWithout' /\ SentOwned' /\ EndsStopped'
  <2>1. OpensWithout'
    BY <1>1, <1>2 DEF FromMobile, OpensWithout
  <2>2. SentOwned'
    BY <1>1, <1>2, <1>3 DEF FromMobile, SentOwned, Owned
  <2>3. EndsStopped'
    BY <1>1, <1>2, <1>3 DEF FromMobile, EndsStopped
  <2>. QED
    BY <2>1, <2>2, <2>3
<1>5. SentLive'
  <2>1. SUFFICES ASSUME NEW i \in 1..Len(toSDL'), toSDL'[i].type \in {"START", "END"},
                        toSDL'[i].id # 0
                 PROVE  sdl'[toSDL'[i].id].live
    BY DEF SentLive
  <2>2. i + 1 \in 1..Len(toSDL) /\ toSDL'[i] = toSDL[i + 1] /\ i \in Nat /\ i >= 1
    BY <1>2
  <2>3. sdl[toSDL'[i].id].live /\ toSDL'[i].id \in Ids
    BY <1>1, <2>1, <2>2, WireIds, SessionAssumption DEF FromMobile, SentLive, Ids
  <2>4. Got = toSDL[1] /\ 1 \in 1..Len(toSDL)
    BY <1>1, GotTypes DEF Takes
  <2>5. CASE Ends(Got) /\ Got.id = toSDL'[i].id
    <3>1. 1 < i + 1
      BY <2>2
    <3>2. toSDL[i + 1].type = "HANDSHAKE"
      BY <1>1, <2>2, <2>4, <2>5, <3>1 DEF FromMobile, EndsLast
    <3>. QED
      BY <2>1, <2>2, <3>2
  <2>. QED
    BY <2>3, <2>5
<1>6. EndsLast'
  <2>1. \A i, j \in 1..Len(toSDL') : i < j => i + 1 < j + 1
    OBVIOUS
  <2>. QED
    BY <1>1, <1>2, <2>1 DEF FromMobile, EndsLast
<1>. QED
  BY <1>4, <1>5, <1>6 DEF FromMobile

LEMMA OrderlyAnswers ==
  ASSUME Regular, Orderly, Answers
  PROVE  Lives' /\ Distinct' /\ Expecting' /\ FromMobile' /\ FromSdl' /\ Used'
<1>1. TypeOK /\ Lives /\ Distinct /\ Expecting /\ FromMobile /\ FromSdl /\ Used
  BY DEF Orderly
<1>2. UNCHANGED <<sessionId, hashCode, uses, heartbeat, pool>>
  BY DEF Answers, mobileVars, idVars
<1>3. \A id \in Ids : (sdl'[id].live <=> sdl[id].live) /\ (sdl'[id].used <=> sdl[id].used)
  BY DEF Answers, Moves
<1>4. \A s \in Sessions : sessionId[s] # 0 => sessionId[s] \in Ids
  BY <1>1, TypeParts, SessionAssumption DEF IdTypes, Ids
<1>5. Lives'
  BY <1>1, <1>2, <1>3, <1>4 DEF Lives
<1>6. Distinct' /\ Used' /\ Expecting'
  BY <1>1, <1>2, <1>3 DEF Distinct, Used, Expecting
<1>7. FromMobile'
  <2>1. Takes
    BY DEF Answers, Takes
  <2>. QED
    BY <1>3, <2>1, OrderlyTakes
<1>8. \A i \in 1..Len(toMobile') :
        \/ i \in 1..Len(toMobile) /\ toMobile'[i] = toMobile[i]
        \/ i > Len(toMobile) /\ Told(toMobile'[i])
  BY <1>1, ToldWire DEF Answers
<1>9. ASSUME NEW x, Told(x)
      PROVE  /\ x.id \in Ids /\ sdl[x.id].used /\ x.type \notin {"START_NACK", "END_NACK"}
             /\ ~Opened(x) /\ Owned(x.id) /\ x.id # 0
  <2>1. x.id \in Ids /\ sdl[x.id].live /\ x.id = Got.id /\ x.id # 0
    BY <1>9 DEF Told, Live, Ids
  <2>2. Got = toSDL[1] /\ 1 \in 1..Len(toSDL)
    BY <1>1, GotTypes DEF Answers
  <2>3. Owned(x.id)
    BY <1>1, <2>1, <2>2 DEF FromMobile, SentOwned
  <2>4. ~Opened(x)
    BY <1>1, <1>9, <2>1, <2>2 DEF Told, FromMobile, OpensWithout
  <2>. QED
    BY <1>1, <1>9, <2>1, <2>3, <2>4 DEF Told, Used
<1>10. \A i \in 1..Len(toMobile) : toMobile[i].id \in Ids
  BY <1>1, WireIds, SessionAssumption DEF FromSdl, Accepts, Ids
<1>11. Accepts'
  BY <1>1, <1>3, <1>8, <1>9, <1>10 DEF FromSdl, Accepts
<1>12. OpenedFresh'
  BY <1>1, <1>2, <1>3, <1>8, <1>9, <1>10 DEF FromSdl, OpenedFresh, Owned
<1>13. OpenedOnce'
  BY <1>1, <1>8, <1>9 DEF FromSdl, OpenedOnce
<1>14. AnswersOwned'
  BY <1>1, <1>2, <1>8, <1>9 DEF FromSdl, AnswersOwned, Owned
<1>. QED
  BY <1>5, <1>6, <1>7, <1>11, <1>12, <1>13, <1>14 DEF FromSdl

LEMMA OrderlyRefuses ==
  ASSUME Regular, Orderly, Refuses
  PROVE  FALSE
<1>1. TypeOK /\ FromMobile
  BY DEF Orderly
<1>2. Got = toSDL[1] /\ 1 \in 1..Len(toSDL) /\ Got.id \in 0..MaxId
  BY <1>1, GotTypes DEF Refuses, Takes
<1>3. Got.id # 0 /\ ~Live(Got.id) /\ Got.type \in {"START", "END"}
  BY DEF Refuses, Regular
<1>4. Got.id \in Ids
  BY <1>2, <1>3, SessionAssumption DEF Ids
<1>. QED
  BY <1>1, <1>2, <1>3, <1>4 DEF FromMobile, SentLive, Live

LEMMA OrderlyCloses ==
  ASSUME Regular, Orderly, Closes
  PROVE  Lives' /\ Distinct' /\ Expecting' /\ FromMobile' /\ FromSdl' /\ Used'
<1>1. TypeOK /\ Lives /\ Distinct /\ Expecting /\ FromMobile /\ FromSdl /\ Used
  BY DEF Orderly
<1>2. Takes /\ UNCHANGED <<sessionId, hashCode, uses, heartbeat, pool>>
  BY DEF Closes, Takes, mobileVars, idVars
<1>3. Got = toSDL[1] /\ 1 \in 1..Len(toSDL) /\ Got \in Message
  BY <1>1, GotTypes DEF Closes, Takes
<1>. DEFINE g == Got.id
<1>4. /\ g \in Ids /\ g # 0 /\ sdl[g].live /\ (sdl'[g].live <=> Got.svc # RPC)
      /\ (sdl'[g].used <=> sdl[g].used) /\ Got.type = "END"
      /\ \A j \in Ids : j # g => sdl'[j] = sdl[j]
  BY DEF Closes, Live, Ids
<1>5. PICK x \in Message : toMobile' = Append(toMobile, x) /\ x.id = g /\ x.type = "END_ACK"
  BY DEF Closes
<1>6. Owned(g) /\ (Ends(Got) => \A s \in Sessions : sessionId[s] = g => uses[s] = 2)
  BY <1>1, <1>3, <1>4 DEF FromMobile, SentOwned, EndsStopped
<1>7. Got.svc = RPC => Ends(Got)
  BY <1>4 DEF Ends
<1>8. FromMobile'
  BY <1>2, <1>4, <1>7, OrderlyTakes
<1>. HIDE DEF g
<1>9. \A s \in Sessions : sessionId[s] # 0 => sessionId[s] \in Ids
  BY <1>1, TypeParts, SessionAssumption DEF IdTypes, Ids
<1>10. \A id \in Ids : (sdl'[id].used <=> sdl[id].used) /\ (sdl'[id].live => sdl[id].live)
  BY <1>4
<1>11. Lives'
  BY <1>1, <1>2, <1>4, <1>6, <1>7, <1>9, <1>10 DEF Lives
<1>12. Distinct' /\ Used' /\ Expecting'
  BY <1>1, <1>2, <1>10 DEF Distinct, Used, Expecting
<1>13. \A i \in 1..Len(toMobile') :
         \/ i \in 1..Len(toMobile) /\ toMobile'[i] = toMobile[i]
         \/ i > Len(toMobile) /\ i = Len(toMobile) + 1 /\ toMobile'[i] = x
  BY <1>1, <1>5, ReplyWire
<1>14. \A i \in 1..Len(toMobile) : toMobile[i].id \in Ids
  BY <1>1, WireIds, SessionAssumption DEF FromSdl, Accepts, Ids
<1>15. Accepts'
  BY <1>1, <1>4, <1>5, <1>10, <1>13, <1>14 DEF FromSdl, Accepts, Used
<1>16. OpenedFresh'
  <2>1. \A i \in 1..Len(toMobile) : Opened(toMobile[i]) => toMobile[i].id # g
    BY <1>1, <1>6 DEF FromSdl, OpenedFresh
  <2>. QED
    BY <1>1, <1>2, <1>4, <1>5, <1>13, <1>14, <2>1 DEF FromSdl, OpenedFresh, Owned, Opened
<1>17. OpenedOnce'
  BY <1>1, <1>5, <1>13 DEF FromSdl, OpenedOnce, Opened
<1>18. AnswersOwned'
  BY <1>1, <1>2, <1>5, <1>6, <1>13 DEF FromSdl, AnswersOwned, Owned
<1>. QED
  BY <1>8, <1>11, <1>12, <1>15, <1>16, <1>17, <1>18 DEF FromSdl

LEMMA OrderlyCreates ==
  ASSUME Regular, Orderly, NEW id \in Ids, Creates(id)
  PROVE  Lives' /\ Distinct' /\ Expecting' /\ FromMobile' /\ FromSdl' /\ Used'
<1>1. TypeOK /\ Lives /\ Distinct /\ Expecting /\ FromMobile /\ FromSdl /\ Used
  BY DEF Orderly
<1>2. Takes /\ UNCHANGED <<sessionId, hashCode, uses, heartbeat, pool>>
  BY DEF Creates, Takes, mobileVars, idVars
<1>3. ~sdl[id].used /\ sdl'[id].live /\ sdl'[id].used /\ \A j \in Ids : j # id => sdl'[j] = sdl[j]
  BY DEF Creates, Regular, Free
<1>4. PICK x \in Message : toMobile' = Append(toMobile, x) /\ Opened(x) /\ x.id = id
  BY DEF Creates
<1>5. \A s \in Sessions : sessionId[s] # 0 => sessionId[s] \in Ids /\ sessionId[s] # id
  BY <1>1, <1>3, TypeParts, SessionAssumption DEF IdTypes, Ids, Lives
<1>6. Lives'
  BY <1>1, <1>2, <1>3, <1>5 DEF Lives
<1>7. Distinct' /\ Used' /\ Expecting'
  BY <1>1, <1>2, <1>3 DEF Distinct, Used, Expecting
<1>8. FromMobile'
  BY <1>2, <1>3, OrderlyTakes
<1>9. \A i \in 1..Len(toMobile') :
        \/ i \in 1..Len(toMobile) /\ toMobile'[i] = toMobile[i]
        \/ i > Len(toMobile) /\ i = Len(toMobile) + 1 /\ toMobile'[i] = x
  BY <1>1, <1>4, ReplyWire
<1>10. id # 0 /\ \A i \in 1..Len(toMobile) : toMobile[i].id \in Ids /\ toMobile[i].id # id
  BY <1>1, <1>3, WireIds, SessionAssumption DEF FromSdl, Accepts, Ids
<1>11. \A s \in Sessions : sessionId[s] # id
  BY <1>5, <1>10
<1>12. Accepts'
  BY <1>1, <1>3, <1>4, <1>9, <1>10 DEF FromSdl, Accepts, Opened
<1>13. OpenedFresh'
  BY <1>1, <1>2, <1>3, <1>4, <1>9, <1>10, <1>11 DEF FromSdl, OpenedFresh, Owned
<1>14. OpenedOnce'
  BY <1>1, <1>4, <1>9, <1>10 DEF FromSdl, OpenedOnce
<1>15. AnswersOwned'
  BY <1>1, <1>2, <1>4, <1>9 DEF FromSdl, AnswersOwned, Owned
<1>. QED
  BY <1>6, <1>7, <1>8, <1>12, <1>13, <1>14, <1>15 DEF FromSdl

LEMMA OrderlyPings ==
  ASSUME Regular, Orderly, NEW id \in Ids, Pings(id)
  PROVE  Lives' /\ Distinct' /\ Expecting' /\ FromMobile' /\ FromSdl' /\ Used'
<1>1. TypeOK /\ Lives /\ Distinct /\ Expecting /\ FromMobile /\ FromSdl /\ Used
  BY DEF Orderly
<1>2. UNCHANGED <<sessionId, hashCode, uses, heartbeat, pool, toSDL, sdl>>
  BY DEF Pings, mobileVars, idVars
<1>3. PICK x \in Message : toMobile' = Append(toMobile, x) /\ x.id = id /\ x.type = "HEARTBEAT"
  BY DEF Pings
<1>4. Lives' /\ Distinct' /\ Expecting' /\ Used'
  BY <1>1, <1>2 DEF Lives, Distinct, Expecting, Used
<1>5. FromMobile'
  BY <1>1, <1>2 DEF FromMobile, OpensWithout, SentOwned, SentLive, EndsStopped, EndsLast, Owned
<1>6. \A i \in 1..Len(toMobile') :
        \/ i \in 1..Len(toMobile) /\ toMobile'[i] = toMobile[i]
        \/ i > Len(toMobile) /\ i = Len(toMobile) + 1 /\ toMobile'[i] = x
  BY <1>1, <1>3, ReplyWire
<1>7. id # 0 /\ sdl[id].used
  BY <1>1 DEF Pings, Live, Used, Ids
<1>8. Accepts'
  BY <1>1, <1>2, <1>3, <1>6, <1>7 DEF FromSdl, Accepts
<1>9. OpenedFresh'
  BY <1>1, <1>2, <1>3, <1>6 DEF FromSdl, OpenedFresh, Owned, Opened
<1>10. OpenedOnce'
  BY <1>1, <1>3, <1>6 DEF FromSdl, OpenedOnce, Opened
<1>11. AnswersOwned'
  BY <1>1, <1>2, <1>3, <1>6 DEF FromSdl, AnswersOwned, Owned
<1>. QED
  BY <1>4, <1>5, <1>8, <1>9, <1>10, <1>11 DEF FromSdl


LEMMA OrderlyInit == Init => Orderly
<1>. SUFFICES ASSUME Init
              PROVE  Orderly
  OBVIOUS
<1>1. TypeOK
  BY TypeInit
<1>2. Proper /\ Expecting
  BY DEF Init, Proper, Expecting
<1>3. Lives
  BY DEF Init, Lives, Idle
<1>4. Distinct /\ Used
  BY DEF Init, Distinct, Used, Free
<1>5. FromMobile
  BY DEF Init, FromMobile, OpensWithout, SentOwned, SentLive, EndsStopped, EndsLast
<1>6. FromSdl
  BY DEF Init, FromSdl, Accepts, OpenedFresh, OpenedOnce, AnswersOwned
<1>. QED
  BY <1>1, <1>2, <1>3, <1>4, <1>5, <1>6 DEF Orderly

LEMMA OrderlyStep ==
  ASSUME Regular, Orderly, [Next]_vars
  PROVE  Orderly'
<1>1. CASE Next
  <2>1. TypeOK' /\ Step /\ Proper'
    BY <1>1, NextSteps, ProperStep DEF Orderly
  <2>2. Lives' /\ Distinct' /\ Expecting' /\ FromMobile' /\ FromSdl' /\ Used'
    BY <2>1, OrderlySpeaks, OrderlyStart, OrderlyStop, OrderlyArrives, OrderlyAnswers,
       OrderlyRefuses, OrderlyCloses, OrderlyCreates, OrderlyPings DEF Step
  <2>. QED
    BY <2>1, <2>2 DEF Orderly
<1>2. CASE UNCHANGED vars
  <2>1. TypeOK' /\ Proper'
    BY <1>2 DEF Orderly, TypeOK, Proper, vars
  <2>2. Lives' /\ Distinct' /\ Expecting' /\ Used'
    BY <1>2 DEF Orderly, Lives, Distinct, Expecting, Used, vars
  <2>3. FromMobile'
    BY <1>2 DEF Orderly, FromMobile, OpensWithout, SentOwned, SentLive, EndsStopped, EndsLast,
                Owned, vars
  <2>4. FromSdl'
    BY <1>2 DEF Orderly, FromSdl, Accepts, OpenedFresh, OpenedOnce, AnswersOwned, Owned, vars
  <2>. QED
    BY <2>1, <2>2, <2>3, <2>4 DEF Orderly
<1>. QED
  BY <1>1, <1>2

(* A session that has sent END_SERVICE for its RPC service sends no        *)
(* heartbeat after it and answers none, however the timer, the script and  *)
(* the answers of SDL interleave: StopHeartbeat comes in the same call of  *)
(* Stop, and with one session per id nobody else speaks for it.  Assumed:  *)
(* SDL refuses nothing and gives no id twice, the script uses each session *)
(* object once; timeouts and overlapping handshakes may happen.            *)
THEOREM NoBeatAfterStopCorrect ==
  ASSUME Faults \cap {"nack", "reuse", "restart", "stopped"} = {}
  PROVE  Spec => []NoBeatAfterStop
<1>1. Init => Orderly
  BY OrderlyInit
<1>2. Orderly /\ [Next]_vars => Orderly'
  BY OrderlyStep DEF Regular
<1>3. Orderly => NoBeatAfterStop
  <2>1. \A i, j \in 1..Len(toSDL) : toSDL[j].type = "HANDSHAKE" => ~IsBeat(toSDL[j])
    BY DEF IsBeat
  <2>. QED
    BY <2>1 DEF Orderly, FromMobile, EndsLast, Ends, NoBeatAfterStop
<1>. QED
  BY <1>1, <1>2, <1>3, PTL DEF Spec



-----------------------------------------------------------------------------
(* That the registration comes first, when SDL gives no id twice           *)

(* The session has raised StartEvent, to whatever handler.                 *)
Raised(s) == \E h \in startEvents : s \in h.by

(* It does so on a response with the id of the session.                    *)
Raises(s) == /\ toMobile # <<>> /\ toMobile[1].type = "RESPONSE" /\ toMobile[1].id = sessionId[s]
             /\ UNCHANGED <<sessionId, sdl>>

(* A new handler, or one that gets the event of t.                         *)
LEMMA HandlerAdded ==
  ASSUME TypeOK, NEW t \in Sessions, Start(t), NEW s, NEW g \in startEvents', s \in g.by
  PROVE  Raised(s)
<1>. DEFINE new == [s |-> t, nr |-> uses[t] + 1, by |-> {}]
<1>1. startEvents' = startEvents \cup {new} /\ new.by = {}
  BY DEF Start
<1>2. g # new
  BY <1>1
<1>. QED
  BY <1>1, <1>2 DEF Raised

LEMMA HandlerCalled ==
  ASSUME TypeOK, NEW t \in Sessions, RaiseStartEvent(t), NEW s, NEW g \in startEvents',
         s \in g.by
  PROVE  Raised(s) \/ s = t
<1>1. PICK h \in startEvents :
        startEvents' = (startEvents \ {h}) \cup {[h EXCEPT !.by = @ \cup {t}]}
  BY DEF RaiseStartEvent
<1>2. h \in StartHandler
  BY TypeParts DEF IdTypes
<1>3. [h EXCEPT !.by = @ \cup {t}].by = h.by \cup {t}
  BY <1>2 DEF StartHandler
<1>4. CASE g \in startEvents
  BY <1>4 DEF Raised
<1>5. CASE g = [h EXCEPT !.by = @ \cup {t}]
  BY <1>3, <1>5 DEF Raised
<1>. QED
  BY <1>1, <1>4, <1>5

LEMMA StartedBy ==
  ASSUME TypeOK, Next, NEW s \in Sessions, NEW g \in startEvents', s \in g.by
  PROVE  Raised(s) \/ Raises(s)
<1>2. CASE UNCHANGED startEvents
  BY <1>2 DEF Raised
<1>3. ASSUME NEW t \in Sessions, Script(t)
      PROVE  Raised(s)
  <2>1. CASE Start(t)
    BY <2>1, HandlerAdded
  <2>2. CASE UNCHANGED startEvents
    BY <2>2 DEF Raised
  <2>. QED
    BY <1>3, <2>1, <2>2 DEF Script, Stop, SendEncryptedRPC, StartHeartbeatCall,
                            StopHeartbeatCall, StartService, StopService, StartSecureService
<1>4. CASE Deliver
  <2>. DEFINE m == Head(toMobile)
  <2>1. CASE Handlers(m) = {}
    BY <1>2, <1>4, <2>1 DEF Deliver
  <2>2. CASE Handlers(m) # {}
    <3>1. PICK e \in Handlers(m) : Act(e, m)
      BY <1>4, <2>2 DEF Deliver
    <3>2. Comes(m)
      BY <1>4 DEF Deliver, Comes
    <3>3. m = toMobile[1]
      BY <3>2, ComesTypes
    <3>. HIDE DEF m
    <3>4. Finds(e, m)
      BY <3>1, <3>2 DEF Handlers, Finds
    <3>5. e.s \in Sessions /\ e.kind \in Kinds
      BY <3>4, Found
    <3>6. CASE e.kind = "response" /\ OnResponse(e, m)
      <4>1. m.type = "RESPONSE" /\ m.id = sessionId[e.s]
        BY <3>4, <3>6 DEF Finds, Matches
      <4>2. UNCHANGED <<sessionId, sdl>>
        BY <3>2, <3>6 DEF OnResponse, Comes, idVars
      <4>3. UNCHANGED startEvents \/ RaiseStartEvent(e.s)
        BY <3>6 DEF OnResponse
      <4>4. Raised(s) \/ s = e.s
        BY <1>2, <3>5, <4>3, HandlerCalled DEF Raised
      <4>. QED
        BY <3>2, <3>3, <4>1, <4>2, <4>4 DEF Raises, Comes
    <3>7. CASE UNCHANGED startEvents
      BY <3>7 DEF Raised
    <3>. QED
      BY <3>1, <3>5, <3>6, <3>7, Acts
      DEF Ignored, OnHandshake, OnHeartbeat, OnHeartbeatAck, OnStartSecure, OnStartRPC,
          OnStopRPC, OnStopService
  <2>. QED
    BY <2>1, <2>2
<1>5. CASE Sdl
  BY <1>2, <1>5 DEF Sdl, SdlNewSession, SdlStartService, SdlRefuse, SdlEnd, SdlHandshake,
                    SdlRequest, SdlHeartbeatIn, Take, mobileVars
<1>. QED
  BY <1>2, <1>3, <1>4, <1>5 DEF Next, SendHeartbeat, Expire, EndStep, SdlHeartbeat, mobileVars


Faithful == "reuse" \notin Faults
Grows ==
  \A id \in Ids : sdl[id].used =>
    /\ sdl'[id].used
    /\ sdl[id].answered => sdl'[id].answered
    /\ Settled(id) => sdl'[id].answered \/ ~sdl'[id].live
UsedIds ==
  /\ \A s \in Sessions : sessionId[s] # 0 => sessionId[s] \in Ids /\ sdl[sessionId[s]].used
  /\ \A i \in 1..Len(toSDL) : toSDL[i].id # 0 => toSDL[i].id \in Ids /\ sdl[toSDL[i].id].used
  /\ \A i \in 1..Len(toMobile) :
       toMobile[i].id # 0 => toMobile[i].id \in Ids /\ sdl[toMobile[i].id].used

LEMMA KnownUsed ==
  ASSUME TypeOK, Known
  PROVE  UsedIds
<1>1. \A id \in 0..MaxId : id # 0 => id \in Ids
  BY SessionAssumption DEF Ids
<1>2. \A s \in Sessions : sessionId[s] \in 0..MaxId
  BY TypeParts DEF IdTypes
<1>3. \A i \in 1..Len(toSDL) : toSDL[i].id \in 0..MaxId
  BY WireIds
<1>4. \A i \in 1..Len(toMobile) : toMobile[i].id \in 0..MaxId
  BY WireIds
<1>. QED
  BY <1>1, <1>2, <1>3, <1>4 DEF Known, KnownIds, KnownSent, KnownTold, UsedIds

(* Steps that add to what is sent, and leave the sessions and SDL.         *)
LEMMA RegisteringSent ==
  ASSUME Registering, UNCHANGED <<sessionId, sdl>>,
         \A i \in 1..Len(toSDL) : i \in 1..Len(toSDL') /\ toSDL'[i] = toSDL[i],
         \A i \in 1..Len(toSDL') :
           \/ i \in 1..Len(toSDL) /\ toSDL'[i] = toSDL[i]
           \/ i > Len(toSDL) /\ \E s \in Sessions : toSDL'[i].id = sessionId[s]
  PROVE  KnownSdl' /\ KnownIds' /\ KnownSent' /\ Registered'
<1>1. TypeOK /\ Known /\ Registered
  BY DEF Registering
<1>2. KnownSdl' /\ KnownIds'
  BY <1>1 DEF Known, KnownSdl, KnownIds
<1>3. KnownSent'
  BY <1>1 DEF Known, KnownSent, KnownIds
<1>4. UnderWay'
  BY <1>1 DEF Registered, UnderWay, Settled
<1>5. Ahead'
  <2>1. SUFFICES ASSUME NEW j \in 1..Len(toSDL'), toSDL'[j].type = "REQUEST", toSDL'[j].enc,
                        toSDL'[j].id # 0, ~Settled(toSDL'[j].id)
                 PROVE  \E i \in 1..Len(toSDL') :
                          i < j /\ Registers(toSDL'[i]) /\ toSDL'[i].id = toSDL'[j].id
    BY DEF Ahead, Settled
  <2>2. CASE j \in 1..Len(toSDL) /\ toSDL'[j] = toSDL[j]
    BY <1>1, <2>1, <2>2 DEF Registered, Ahead
  <2>3. CASE j > Len(toSDL) /\ \E s \in Sessions : toSDL'[j].id = sessionId[s]
    <3>1. PICK i \in 1..Len(toSDL) : Registers(toSDL[i]) /\ toSDL[i].id = toSDL'[j].id
      BY <1>1, <2>1, <2>3 DEF Registered, UnderWay
    <3>2. i < j
      BY <1>1, <2>3, WireIds
    <3>. QED
      BY <3>1, <3>2
  <2>. QED
    BY <2>2, <2>3
<1>. QED
  BY <1>2, <1>3, <1>4, <1>5 DEF Registered

(* Steps that take or leave what SDL sent.                                 *)
LEMMA RegisteringTold ==
  ASSUME Registering, UNCHANGED sdl, UNCHANGED toMobile \/ Delivers
  PROVE  KnownTold' /\ Responded'
<1>1. TypeOK /\ KnownTold /\ Responded
  BY DEF Registering, Known
<1>2. CASE UNCHANGED toMobile
  BY <1>1, <1>2 DEF KnownTold, Responded
<1>3. CASE Delivers
  BY <1>1, <1>3, DeliveredWire DEF KnownTold, Responded
<1>. QED
  BY <1>2, <1>3

LEMMA RegisteringSpeaks ==
  ASSUME Registering, Speaks
  PROVE  Known' /\ Registered' /\ Responded'
<1>1. TypeOK /\ toSDL \in Seq(Message)
  BY TypeParts DEF Registering, WireTypes
<1>2. PICK w \in Seq(Message) : toSDL' = toSDL \o w
  BY DEF Speaks, Says
<1>3. \A i \in 1..Len(toSDL) : i \in 1..Len(toSDL') /\ toSDL'[i] = toSDL[i]
  BY <1>1, <1>2, Joined
<1>4. \A i \in 1..Len(toSDL') :
        \/ i \in 1..Len(toSDL) /\ toSDL'[i] = toSDL[i]
        \/ i > Len(toSDL) /\ Said(toSDL'[i])
  BY <1>1, SaidWire DEF Speaks
<1>5. UNCHANGED <<sessionId, sdl>> /\ (UNCHANGED toMobile \/ Delivers)
  BY DEF Speaks, Still
<1>6. KnownSdl' /\ KnownIds' /\ KnownSent' /\ Registered'
  BY <1>3, <1>4, <1>5, RegisteringSent DEF Said
<1>. QED
  BY <1>5, <1>6, RegisteringTold DEF Known

LEMMA RegisteringScript ==
  ASSUME Registering, NEW s \in Sessions, Start(s) \/ Stop(s)
  PROVE  Known' /\ Registered' /\ Responded'
<1>1. TypeOK /\ toSDL \in Seq(Message) /\ sessionId[s] \in 0..MaxId
  BY TypeParts DEF Registering, WireTypes, IdTypes
<1>2. UNCHANGED <<sessionId, sdl, toMobile>>
  BY DEF Start, Stop, idVars
<1>3. PICK x \in Message : toSDL' = Append(toSDL, x) /\ x.id = sessionId[s]
  <2>1. CASE Start(s)
    <3>. DEFINE m == Frame("START", sessionId[s], RPC, FALSE)
    <3>1. m \in Message /\ m.id = sessionId[s]
      BY <1>1, FrameType DEF MessageTypes, Named, Services, Frame
    <3>. QED
      BY <2>1, <3>1 DEF Start, Send
  <2>2. CASE Stop(s)
    <3>. DEFINE m == Frame("END", sessionId[s], RPC, FALSE)
    <3>1. m \in Message /\ m.id = sessionId[s]
      BY <1>1, FrameType DEF MessageTypes, Named, Services, Frame
    <3>. QED
      BY <2>2, <3>1 DEF Stop
  <2>. QED
    BY <2>1, <2>2
<1>4. \A i \in 1..Len(toSDL) : i \in 1..Len(toSDL') /\ toSDL'[i] = toSDL[i]
  BY <1>1, <1>3, Appended
<1>5. \A i \in 1..Len(toSDL') :
        \/ i \in 1..Len(toSDL) /\ toSDL'[i] = toSDL[i]
        \/ i > Len(toSDL) /\ toSDL'[i] = x
  BY <1>1, <1>3, SentWire
<1>6. KnownSdl' /\ KnownIds' /\ KnownSent' /\ Registered'
  BY <1>2, <1>3, <1>4, <1>5, RegisteringSent
<1>. QED
  BY <1>2, <1>6, RegisteringTold DEF Known

LEMMA RegisteringArrives ==
  ASSUME Registering, NEW s \in Sessions, NEW m, Begins(s, m)
  PROVE  Known' /\ Registered' /\ Responded'
<1>1. TypeOK /\ Known /\ Registered /\ toSDL \in Seq(Message) /\ UsedIds
  BY TypeParts, KnownUsed DEF Registering, WireTypes
<1>2. /\ UNCHANGED sdl /\ Delivers /\ sessionId'[s] = m.id
      /\ \A t \in Sessions : t # s => sessionId'[t] = sessionId[t]
  BY <1>1, TypeParts DEF Begins, IdTypes
<1>3. m = toMobile[1] /\ 1 \in 1..Len(toMobile)
  BY <1>1, TypeParts DEF Begins, Delivers, WireTypes
<1>4. m.id # 0 => m.id \in Ids /\ sdl[m.id].used
  BY <1>1, <1>3 DEF UsedIds
<1>5. PICK w \in Seq(Message) :
        /\ toSDL' = toSDL \o w
        /\ \A k \in 1..Len(w) : w[k].id = m.id /\ (w[k].type = "REQUEST" => ~w[k].enc)
        /\ \E k \in 1..Len(w) : w[k].type = "REQUEST"
  BY DEF Begins
<1>6. \A i \in 1..Len(toSDL) : i \in 1..Len(toSDL') /\ toSDL'[i] = toSDL[i]
  BY <1>1, <1>5, Joined
<1>7. \A i \in 1..Len(toSDL') :
        \/ i \in 1..Len(toSDL) /\ toSDL'[i] = toSDL[i]
        \/ toSDL'[i].id = m.id /\ (toSDL'[i].type = "REQUEST" => ~toSDL'[i].enc)
  BY <1>1, <1>5, Joined
<1>8. \E i \in 1..Len(toSDL') : Registers(toSDL'[i]) /\ toSDL'[i].id = m.id
  <2>1. PICK k \in 1..Len(w) : w[k].type = "REQUEST"
    BY <1>5
  <2>2. Len(toSDL) + k \in 1..Len(toSDL') /\ toSDL'[Len(toSDL) + k] = w[k]
    BY <1>1, <1>5, Joined, SMTT(30)
  <2>3. Registers(w[k]) /\ w[k].id = m.id
    BY <1>5, <2>1 DEF Registers
  <2>. QED
    BY <2>2, <2>3
<1>9. KnownSdl' /\ KnownIds'
  BY <1>1, <1>2, <1>4 DEF Known, KnownSdl, KnownIds
<1>10. KnownSent'
  BY <1>1, <1>2, <1>4, <1>7 DEF Known, KnownSent
<1>11. UnderWay'
  BY <1>1, <1>2, <1>6, <1>8 DEF Registered, UnderWay, Settled
<1>12. Ahead'
  BY <1>1, <1>2, <1>6, <1>7, SMTT(30) DEF Registered, Ahead, Settled
<1>. QED
  BY <1>2, <1>9, <1>10, <1>11, <1>12, RegisteringTold DEF Known, Registered

(* SDL takes a message, and what it had settled stays settled.             *)
LEMMA RegisteringTakes ==
  ASSUME Registering, Takes, Grows, KnownSdl',
         Registers(Got) /\ Got.id # 0 => sdl'[Got.id].answered \/ ~sdl'[Got.id].live
  PROVE  KnownIds' /\ KnownSent' /\ Registered'
<1>1. TypeOK /\ Known /\ Registered /\ UsedIds
  BY KnownUsed DEF Registering
<1>2. UNCHANGED sessionId
  BY DEF Takes, mobileVars, idVars
<1>3. /\ \A i \in 1..Len(toSDL') : i + 1 \in 1..Len(toSDL) /\ toSDL'[i] = toSDL[i + 1]
      /\ \A i \in 1..Len(toSDL) : i # 1 => i - 1 \in 1..Len(toSDL') /\ toSDL'[i - 1] = toSDL[i]
  BY <1>1, TakenWire DEF Takes
<1>4. Got = toSDL[1] /\ 1 \in 1..Len(toSDL)
  BY <1>1, GotTypes DEF Takes
<1>5. KnownIds'
  BY <1>1, <1>2 DEF UsedIds, Grows, KnownIds
<1>6. KnownSent'
  BY <1>1, <1>3 DEF UsedIds, Grows, KnownSent
<1>7. UnderWay'
  <2>1. SUFFICES ASSUME NEW s \in Sessions, sessionId[s] # 0,
                        ~(sdl'[sessionId[s]].answered \/ ~sdl'[sessionId[s]].live)
                 PROVE  \E i \in 1..Len(toSDL') : Registers(toSDL'[i]) /\ toSDL'[i].id = sessionId[s]
    BY <1>2 DEF UnderWay, Settled
  <2>2. ~Settled(sessionId[s])
    BY <1>1, <2>1 DEF UsedIds, Grows
  <2>3. PICK i \in 1..Len(toSDL) : Registers(toSDL[i]) /\ toSDL[i].id = sessionId[s]
    BY <1>1, <2>1, <2>2 DEF Registered, UnderWay
  <2>4. i # 1
    BY <1>4, <2>1, <2>3
  <2>. QED
    BY <1>3, <2>3, <2>4
<1>8. Ahead'
  <2>1. SUFFICES ASSUME NEW j \in 1..Len(toSDL'), toSDL'[j].type = "REQUEST", toSDL'[j].enc,
                        toSDL'[j].id # 0,
                        ~(sdl'[toSDL'[j].id].answered \/ ~sdl'[toSDL'[j].id].live)
                 PROVE  \E i \in 1..Len(toSDL') :
                          i < j /\ Registers(toSDL'[i]) /\ toSDL'[i].id = toSDL'[j].id
    BY DEF Ahead, Settled
  <2>2. j + 1 \in 1..Len(toSDL) /\ toSDL'[j] = toSDL[j + 1]
    BY <1>3
  <2>3. ~Settled(toSDL'[j].id)
    BY <1>1, <2>1, <2>2 DEF UsedIds, Grows
  <2>4. PICK i \in 1..Len(toSDL) :
          i < j + 1 /\ Registers(toSDL[i]) /\ toSDL[i].id = toSDL'[j].id
    BY <1>1, <2>1, <2>2, <2>3 DEF Registered, Ahead
  <2>5. i # 1
    BY <1>4, <2>1, <2>4
  <2>6. i - 1 < j
    BY <2>4
  <2>. QED
    BY <1>3, <2>4, <2>5, <2>6, ZenonT(30)
<1>. QED
  BY <1>5, <1>6, <1>7, <1>8 DEF Registered


LEMMA RegisteringAnswers ==
  ASSUME Faithful, Registering, Answers
  PROVE  Grows /\ Known' /\ Registered' /\ Responded'
<1>1. TypeOK /\ Known /\ Registered /\ Responded /\ UsedIds
  BY KnownUsed DEF Registering
<1>2. \A id \in Ids : /\ sdl'[id].live <=> sdl[id].live
                      /\ sdl'[id].used <=> sdl[id].used
                      /\ sdl[id].answered => sdl'[id].answered
                      /\ sdl'[id].answered => sdl[id].answered \/ sdl[id].live
  BY DEF Answers, Moves
<1>3. Grows
  BY <1>2 DEF Grows, Settled
<1>4. KnownSdl'
  BY <1>1, <1>2 DEF Known, KnownSdl
<1>5. Takes /\ Tells
  BY DEF Answers, Takes
<1>6. Got = toSDL[1] /\ 1 \in 1..Len(toSDL) /\ (Got.id # 0 => Got.id \in Ids)
  BY <1>1, <1>5, GotTypes DEF Takes, UsedIds
<1>7. Registers(Got) /\ Got.id # 0 => sdl'[Got.id].answered \/ ~sdl'[Got.id].live
  BY <1>2, <1>6 DEF Answers, Faithful, Live
<1>8. KnownIds' /\ KnownSent' /\ Registered'
  BY <1>3, <1>4, <1>5, <1>7, RegisteringTakes
<1>9. \A i \in 1..Len(toMobile') :
        \/ i \in 1..Len(toMobile) /\ toMobile'[i] = toMobile[i]
        \/ i > Len(toMobile) /\ Told(toMobile'[i])
  BY <1>1, <1>5, ToldWire
<1>10. ASSUME NEW x, Told(x)
       PROVE  x.id \in Ids /\ x.id # 0 /\ sdl'[x.id].used
  BY <1>1, <1>2, <1>10 DEF Told, Live, Ids, Known, KnownSdl
<1>11. KnownTold'
  BY <1>1, <1>2, <1>9, <1>10 DEF UsedIds, KnownTold
<1>12. ASSUME NEW x, Told(x), x.type = "RESPONSE"
       PROVE  sdl'[x.id].answered
  <2>1. /\ x.id \in Ids /\ sdl[x.id].live /\ x.id = Got.id /\ Got.type = "REQUEST"
        /\ (x.enc <=> Got.enc) /\ (~x.enc => sdl'[x.id].answered)
    BY <1>12 DEF Told, Live, Faithful
  <2>2. CASE Got.enc
    <3>1. Settled(Got.id) \/ \E i \in 1..Len(toSDL) : i < 1
      BY <1>1, <1>6, <1>10, <1>12, <2>1, <2>2 DEF Registered, Ahead
    <3>2. Settled(Got.id)
      BY <3>1
    <3>. QED
      BY <1>2, <2>1, <3>2 DEF Settled
  <2>. QED
    BY <2>1, <2>2
<1>13. Responded'
  BY <1>1, <1>2, <1>9, <1>10, <1>12 DEF Responded, UsedIds
<1>. QED
  BY <1>3, <1>4, <1>8, <1>11, <1>13 DEF Known

LEMMA RegisteringRefuses ==
  ASSUME Registering, Refuses
  PROVE  Grows /\ Known' /\ Registered' /\ Responded'
<1>1. TypeOK /\ Known /\ Registered /\ Responded /\ UsedIds
  BY KnownUsed DEF Registering
<1>2. Takes /\ UNCHANGED sdl /\ ~Registers(Got)
  BY DEF Refuses, Registers
<1>3. Grows /\ KnownSdl'
  BY <1>1, <1>2 DEF Grows, Settled, Known, KnownSdl
<1>4. KnownIds' /\ KnownSent' /\ Registered'
  BY <1>2, <1>3, RegisteringTakes
<1>5. Got = toSDL[1] /\ 1 \in 1..Len(toSDL)
  BY <1>1, <1>2, GotTypes DEF Takes
<1>6. PICK x \in Message : /\ toMobile' = Append(toMobile, x) /\ x.id = Got.id
                           /\ x.type \in {"START_NACK", "END_NACK"}
  BY DEF Refuses
<1>7. \A i \in 1..Len(toMobile') :
        \/ i \in 1..Len(toMobile) /\ toMobile'[i] = toMobile[i]
        \/ toMobile'[i] = x
  BY <1>1, <1>6, ReplyWire
<1>8. KnownTold'
  BY <1>1, <1>2, <1>5, <1>6, <1>7 DEF Known, KnownTold, KnownSent
<1>9. Responded'
  BY <1>1, <1>2, <1>6, <1>7 DEF Responded
<1>. QED
  BY <1>3, <1>4, <1>8, <1>9 DEF Known

LEMMA RegisteringCloses ==
  ASSUME Registering, Closes
  PROVE  Grows /\ Known' /\ Registered' /\ Responded'
<1>1. TypeOK /\ Known /\ Registered /\ Responded /\ UsedIds
  BY KnownUsed DEF Registering
<1>2. Takes /\ ~Registers(Got)
  BY DEF Closes, Registers
<1>3. \A id \in Ids : /\ sdl'[id].live => sdl[id].live
                      /\ sdl'[id].used = sdl[id].used
                      /\ sdl'[id].answered = sdl[id].answered
  BY DEF Closes, Live
<1>4. Grows
  BY <1>3 DEF Grows, Settled
<1>5. KnownSdl'
  BY <1>1, <1>3 DEF Known, KnownSdl
<1>6. KnownIds' /\ KnownSent' /\ Registered'
  BY <1>2, <1>4, <1>5, RegisteringTakes
<1>7. Got = toSDL[1] /\ 1 \in 1..Len(toSDL)
  BY <1>1, <1>2, GotTypes DEF Takes
<1>8. PICK x \in Message : toMobile' = Append(toMobile, x) /\ x.id = Got.id /\ x.type = "END_ACK"
  BY DEF Closes
<1>9. \A i \in 1..Len(toMobile') :
        \/ i \in 1..Len(toMobile) /\ toMobile'[i] = toMobile[i]
        \/ toMobile'[i] = x
  BY <1>1, <1>8, ReplyWire
<1>10. KnownTold'
  BY <1>1, <1>3, <1>7, <1>8, <1>9 DEF UsedIds, KnownTold
<1>11. Responded'
  BY <1>1, <1>3, <1>8, <1>9 DEF Responded, UsedIds
<1>. QED
  BY <1>4, <1>5, <1>6, <1>10, <1>11 DEF Known

LEMMA RegisteringCreates ==
  ASSUME Faithful, Registering, NEW id \in Ids, Creates(id)
  PROVE  Grows /\ Known' /\ Registered' /\ Responded'
<1>1. TypeOK /\ Known /\ Registered /\ Responded /\ UsedIds
  BY KnownUsed DEF Registering
<1>2. Takes /\ ~Registers(Got) /\ ~sdl[id].used
  BY DEF Creates, Registers, Faithful
<1>3. sdl'[id].used /\ \A j \in Ids : j # id => sdl'[j] = sdl[j]
  BY DEF Creates, Free
<1>4. Grows
  BY <1>2, <1>3 DEF Grows, Settled
<1>5. KnownSdl'
  BY <1>1, <1>3 DEF Known, KnownSdl
<1>6. KnownIds' /\ KnownSent' /\ Registered'
  BY <1>2, <1>4, <1>5, RegisteringTakes
<1>7. PICK x \in Message : toMobile' = Append(toMobile, x) /\ Opened(x) /\ x.id = id
  BY DEF Creates
<1>8. \A i \in 1..Len(toMobile') :
        \/ i \in 1..Len(toMobile) /\ toMobile'[i] = toMobile[i]
        \/ toMobile'[i] = x
  BY <1>1, <1>7, ReplyWire
<1>9. KnownTold'
  BY <1>1, <1>3, <1>4, <1>7, <1>8 DEF UsedIds, Grows, KnownTold
<1>10. Responded'
  BY <1>1, <1>4, <1>7, <1>8 DEF Responded, UsedIds, Grows, Opened
<1>. QED
  BY <1>4, <1>5, <1>6, <1>9, <1>10 DEF Known

LEMMA RegisteringPings ==
  ASSUME Registering, NEW id \in Ids, Pings(id)
  PROVE  Known' /\ Registered' /\ Responded'
<1>1. TypeOK /\ Known /\ Registered /\ Responded
  BY DEF Registering
<1>2. UNCHANGED <<sessionId, toSDL, sdl>> /\ sdl[id].live
  BY DEF Pings, mobileVars, idVars, Live
<1>3. PICK x \in Message : toMobile' = Append(toMobile, x) /\ x.id = id /\ x.type = "HEARTBEAT"
  BY DEF Pings
<1>4. \A i \in 1..Len(toMobile') :
        \/ i \in 1..Len(toMobile) /\ toMobile'[i] = toMobile[i]
        \/ toMobile'[i] = x
  BY <1>1, <1>3, ReplyWire
<1>5. KnownSdl' /\ KnownIds' /\ KnownSent'
  BY <1>1, <1>2 DEF Known, KnownSdl, KnownIds, KnownSent
<1>6. Registered'
  BY <1>1, <1>2 DEF Registered, UnderWay, Ahead, Settled
<1>7. KnownTold'
  BY <1>1, <1>2, <1>3, <1>4 DEF Known, KnownTold, KnownSdl
<1>8. Responded'
  BY <1>1, <1>2, <1>3, <1>4 DEF Responded
<1>. QED
  BY <1>5, <1>6, <1>7, <1>8 DEF Known

(* A session whose StartEvent was raised keeps its id, and SDL keeps it    *)
(* registered.                                                             *)
LEMMA StartedStays ==
  ASSUME Faithful, Registering, Step, NEW s \in Sessions, Raised(s)
  PROVE  sessionId'[s] \in Ids /\ sdl'[sessionId'[s]].answered
<1>1. TypeOK /\ UsedIds /\ sessionId[s] \in Ids /\ sdl[sessionId[s]].answered /\ sessionId[s] # 0
  BY KnownUsed DEF Registering, RaisedMeansAnswered, Raised, Ids
<1>2. CASE UNCHANGED <<sessionId, sdl>>
  BY <1>1, <1>2
<1>3. CASE Grows /\ UNCHANGED sessionId
  BY <1>1, <1>3 DEF Grows, UsedIds
<1>4. CASE Arrives
  <2>1. PICK e \in pool, m \in Message :
          Finds(e, m) /\ e.kind = "start" /\ e.svc = RPC /\ ~e.enc /\ Begins(e.s, m)
    BY <1>4 DEF Arrives
  <2>2. m.id = sessionId[e.s] \/ sessionId[e.s] = 0
    BY <2>1 DEF Finds, Matches
  <2>3. UNCHANGED sdl /\ sessionId' = [sessionId EXCEPT ![e.s] = m.id]
    BY <2>1 DEF Begins
  <2>4. sessionId'[s] = sessionId[s]
    BY <1>1, <2>2, <2>3, TypeParts DEF IdTypes
  <2>. QED
    BY <1>1, <2>3, <2>4
<1>5. CASE Speaks \/ \E t \in Sessions : Start(t) \/ Stop(t)
  BY <1>2, <1>5 DEF Speaks, Still, Start, Stop, idVars
<1>6. CASE Answers \/ Refuses \/ Closes
  BY <1>3, <1>6, RegisteringAnswers, RegisteringRefuses, RegisteringCloses
  DEF Answers, Refuses, Closes, Takes, mobileVars, idVars
<1>7. CASE \E id \in Ids : Creates(id)
  BY <1>3, <1>7, RegisteringCreates DEF Creates, Takes, mobileVars, idVars
<1>8. CASE \E id \in Ids : Pings(id)
  BY <1>2, <1>8 DEF Pings, mobileVars, idVars
<1>. QED
  BY <1>4, <1>5, <1>6, <1>7, <1>8 DEF Step

LEMMA TypeHandlers ==
  ASSUME TypeOK', NEW g \in startEvents', NEW s \in g.by
  PROVE  s \in Sessions
  BY DEF TypeOK

LEMMA RegisteringStep ==
  ASSUME Faithful, Registering, [Next]_vars
  PROVE  Registering'
<1>1. CASE Next
  <2>1. TypeOK /\ Proper /\ Responded
    BY DEF Registering
  <2>2. TypeOK' /\ Step /\ Proper'
    BY <1>1, <2>1, NextSteps, ProperStep
  <2>3. ASSUME Arrives
        PROVE  Known' /\ Registered' /\ Responded'
    <3>1. PICK e \in pool, m \in Message : Begins(e.s, m)
      BY <2>3 DEF Arrives
    <3>2. e.s \in Sessions
      BY <2>1 DEF TypeOK, Expectation
    <3>. QED
      BY <3>1, <3>2, RegisteringArrives
  <2>4. Known' /\ Registered' /\ Responded'
    BY <2>2, <2>3, RegisteringSpeaks, RegisteringScript, RegisteringAnswers,
       RegisteringRefuses, RegisteringCloses, RegisteringCreates, RegisteringPings DEF Step
  <2>5. RaisedMeansAnswered'
    <3>1. SUFFICES ASSUME NEW g \in startEvents', NEW s \in g.by
                   PROVE  sessionId'[s] \in Ids /\ sdl'[sessionId'[s]].answered
      BY DEF RaisedMeansAnswered
    <3>. s \in Sessions
      BY <2>2, TypeHandlers
    <3>2. CASE Raised(s)
      BY <2>2, <3>2, StartedStays
    <3>3. CASE Raises(s)
      <4>1. 1 \in 1..Len(toMobile)
        BY <2>1, <3>3, TypeParts DEF Raises, WireTypes
      <4>2. sessionId[s] # 0 /\ sdl[sessionId[s]].answered
        BY <2>1, <3>3, <4>1 DEF Raises, Responded
      <4>3. sessionId[s] \in Ids
        BY <2>1, <4>2, TypeParts, SessionAssumption DEF IdTypes, Ids
      <4>. QED
        BY <3>3, <4>2, <4>3 DEF Raises
    <3>. QED
      BY <1>1, <2>1, <3>1, <3>2, <3>3, StartedBy
  <2>. QED
    BY <2>2, <2>4, <2>5 DEF Registering
<1>2. CASE UNCHANGED vars
  <2>1. TypeOK' /\ Proper'
    BY <1>2 DEF Registering, TypeOK, Proper, vars
  <2>2. Known'
    BY <1>2 DEF Registering, Known, KnownSdl, KnownIds, KnownSent, KnownTold, vars
  <2>3. Registered' /\ Responded' /\ RaisedMeansAnswered'
    BY <1>2 DEF Registering, Registered, UnderWay, Ahead, Settled, Responded,
                RaisedMeansAnswered, vars
  <2>. QED
    BY <2>1, <2>2, <2>3 DEF Registering
<1>. QED
  BY <1>1, <1>2

(* StartEvent is raised only for a session whose registration SDL has      *)
(* answered, to whichever handler it goes, and the session stays so: on    *)
(* the connection its registration is ahead of everything whose response   *)
(* could be taken for it.  Assumed: SDL gives no id twice; it may refuse   *)
(* services and registrations, steps may time out, and the script may      *)
(* start, stop and use its sessions in any order.                          *)
THEOREM RaisedMeansAnsweredCorrect ==
  ASSUME "reuse" \notin Faults
  PROVE  Spec => []RaisedMeansAnswered
<1>1. Init => Registering
  <2>1. Init => TypeOK
    BY TypeInit
  <2>2. Init => Known
    BY DEF Init, Known, KnownSdl, KnownIds, KnownSent, KnownTold, Free
  <2>3. Init => Registered
    BY DEF Init, Registered, UnderWay, Ahead
  <2>4. Init => Proper /\ Responded /\ RaisedMeansAnswered
    BY DEF Init, Proper, Responded, RaisedMeansAnswered
  <2>. QED
    BY <2>1, <2>2, <2>3, <2>4 DEF Registering
<1>2. Registering /\ [Next]_vars => Registering'
  BY RegisteringStep DEF Faithful
<1>3. Registering => RaisedMeansAnswered
  BY DEF Registering
<1>. QED
  BY <1>1, <1>2, <1>3, PTL DEF Spec



-----------------------------------------------------------------------------
(* What the handshake has reached, when in addition no secure service is   *)
(* started between the end of the handshake and its acknowledgement        *)

Patient == Regular /\ "overlap" \notin Faults

(* What a step may do to the security of the sessions.                     *)
First == toMobile[1]
KeepsReady == \A s \in Sessions : ssl[s] = "finished" => ssl'[s] = "finished"
KeepsBare ==
  \A s \in Sessions : sessionId[s] = 0 => ssl'[s] = "none" /\ ~isSecuredSession'[s]
Prepares ==
  \A s \in Sessions : sessionId[s] # 0 /\ ssl'[s] # "none" =>
    ssl[s] # "none" \/ mobileSecurities'[sessionId[s]] = s
KeepsHolders ==
  \A id \in 0..MaxId : mobileSecurities'[id] # Nil =>
    mobileSecurities'[id] = mobileSecurities[id] \/ (id # 0 /\ sessionId[mobileSecurities'[id]] = id)
Releases ==
  \A s \in Sessions : sessionId[s] # 0 /\ mobileSecurities[sessionId[s]] = s =>
    \/ mobileSecurities'[sessionId[s]] = s
    \/ Delivers /\ Ended(First) /\ First.id = sessionId[s] /\ encryptedServices'[s] = {}
Secured ==
  \A s \in Sessions : isSecuredSession'[s] /\ encryptedServices'[s] # {} =>
    \/ isSecuredSession[s] /\ encryptedServices[s] # {}
    \/ /\ Delivers /\ Secures(First) /\ First.id = sessionId[s]
       /\ UNCHANGED <<ssl, mobileSecurities>>
Advances == KeepsReady /\ KeepsBare /\ Prepares /\ KeepsHolders /\ Releases /\ Secured

LEMMA SameSecurity ==
  ASSUME Bare, UNCHANGED securityVars
  PROVE  Advances
  BY DEF Bare, securityVars, Advances, KeepsReady, KeepsBare, Prepares, KeepsHolders, Releases,
         Secured

LEMMA StartSecureAdvances ==
  ASSUME Patient, Orderly, Securing, NEW s \in Sessions, NEW svc \in Services,
         StartSecureService(s, svc)
  PROVE  Advances
<1>1. TypeOK /\ Distinct /\ Holders /\ Bare /\ Nil \notin Sessions
  BY SessionAssumption DEF Orderly, Securing
<1>2. SecurityTypes /\ IdTypes
  BY <1>1, TypeParts
<1>3. sessionId[s] # 0 /\ ~Overlap(s) /\ UNCHANGED <<isSecuredSession, encryptedServices>>
  BY DEF StartSecureService, Patient
<1>4. CASE isSecuredSession[s]
  BY <1>1, <1>3, <1>4, SameSecurity DEF StartSecureService, securityVars
<1>5. CASE ~isSecuredSession[s]
  <2>. DEFINE n == sessionId[s]
  <2>1. /\ ssl' = [ssl EXCEPT ![s] = PreparedSsl(ssl[s])]
        /\ mobileSecurities' = [mobileSecurities EXCEPT ![n] =
                                  IF mobileSecurities[n] = Nil THEN s ELSE mobileSecurities[n]]
    BY <1>5 DEF StartSecureService
  <2>2. ssl[s] # "finished" /\ PreparedSsl(ssl[s]) # "none"
    BY <1>2, <1>3, <1>5 DEF Overlap, PreparedSsl, SecurityTypes
  <2>3. n \in 0..MaxId /\ n # 0
    BY <1>2, <1>3 DEF IdTypes
  <2>4. mobileSecurities[n] # Nil => mobileSecurities[n] = s
    <3>1. mobileSecurities[n] # Nil => mobileSecurities[n] \in Sessions /\ sessionId[mobileSecurities[n]] = n
      BY <1>1, <1>2, <2>3 DEF SecurityTypes, Holders
    <3>. QED
      BY <1>1, <2>3, <3>1 DEF Distinct
  <2>5. /\ mobileSecurities'[n] = s
        /\ \A id \in 0..MaxId : id # n => mobileSecurities'[id] = mobileSecurities[id]
    BY <1>2, <2>1, <2>3, <2>4 DEF SecurityTypes
  <2>6. \A t \in Sessions : t # s => ssl'[t] = ssl[t]
    BY <1>2, <2>1 DEF SecurityTypes
  <2>7. \A t \in Sessions : t # s => sessionId[t] # n
    BY <1>1, <2>3 DEF Distinct
  <2>8. KeepsReady
    BY <2>2, <2>6 DEF KeepsReady
  <2>9. KeepsBare
    BY <1>1, <1>3, <2>6 DEF KeepsBare, Bare
  <2>10. Prepares
    BY <2>5, <2>6 DEF Prepares
  <2>11. KeepsHolders
    BY <2>3, <2>5 DEF KeepsHolders
  <2>12. Releases
    <3>1. \A t \in Sessions : sessionId[t] \in 0..MaxId
      BY <1>2 DEF IdTypes
    <3>. QED
      BY <2>5, <2>7, <3>1 DEF Releases
  <2>13. Secured
    BY <1>3 DEF Secured
  <2>. QED
    BY <2>8, <2>9, <2>10, <2>11, <2>12, <2>13 DEF Advances
<1>. QED
  BY <1>4, <1>5

LEMMA StartSecureAnsweredAdvances ==
  ASSUME Orderly, Securing, NEW e, NEW m, Finds(e, m), e.kind = "start", e.enc,
         OnStartSecure(e, m)
  PROVE  Advances
<1>1. TypeOK /\ Expecting /\ FromSdl /\ Bare
  BY DEF Orderly, Securing
<1>2. SecurityTypes /\ e.s \in Sessions /\ e \in pool /\ Delivers
  BY <1>1, TypeParts, Found
<1>3. UNCHANGED <<ssl, mobileSecurities>>
  BY DEF OnStartSecure
<1>4. /\ m.type \in {"START_ACK", "START_NACK"} /\ m.enc
      /\ m.id = sessionId[e.s] /\ sessionId[e.s] # 0
  BY <1>1, <1>2 DEF Finds, Matches, Expecting
<1>5. m = First /\ 1 \in 1..Len(toMobile)
  BY <1>1, ComesTypes, WireIds DEF Finds, First
<1>6. Secures(First)
  BY <1>1, <1>4, <1>5 DEF FromSdl, Accepts, Secures, First
<1>7. \A t \in Sessions : t # e.s => /\ encryptedServices'[t] = encryptedServices[t]
                                     /\ isSecuredSession'[t] = isSecuredSession[t]
  BY <1>2 DEF OnStartSecure, SecurityTypes
<1>8. KeepsReady /\ Prepares /\ KeepsHolders /\ Releases
  BY <1>3 DEF KeepsReady, Prepares, KeepsHolders, Releases
<1>9. KeepsBare
  BY <1>1, <1>3, <1>4, <1>7 DEF KeepsBare, Bare
<1>10. Secured
  BY <1>2, <1>3, <1>4, <1>5, <1>6, <1>7 DEF Secured
<1>. QED
  BY <1>8, <1>9, <1>10 DEF Advances

LEMMA StopRPCAdvances ==
  ASSUME Orderly, Securing, NEW e, NEW m, Finds(e, m), e.kind = "end", e.svc = RPC,
         OnStopRPC(e, m)
  PROVE  Advances
<1>1. TypeOK /\ Distinct /\ FromSdl /\ Bare
  BY DEF Orderly, Securing
<1>2. SecurityTypes /\ e.s \in Sessions /\ Delivers /\ sessionId[e.s] \in 0..MaxId
  BY <1>1, TypeParts, Found
<1>3. UNCHANGED <<isSecuredSession, ssl>>
  BY DEF OnStopRPC
<1>4. m.type \in {"END_ACK", "END_NACK"} /\ m.svc = RPC /\ m.id = sessionId[e.s]
  BY DEF Finds, Matches
<1>5. m = First /\ 1 \in 1..Len(toMobile)
  BY <1>1, ComesTypes, WireIds DEF Finds, First
<1>6. Ended(First) /\ First.id = sessionId[e.s]
  BY <1>1, <1>4, <1>5 DEF FromSdl, Accepts, Ended, First
<1>7. /\ encryptedServices'[e.s] = {}
      /\ \A t \in Sessions : t # e.s => encryptedServices'[t] = encryptedServices[t]
      /\ mobileSecurities'[sessionId[e.s]] = Nil
      /\ \A id \in 0..MaxId : id # sessionId[e.s] => mobileSecurities'[id] = mobileSecurities[id]
  BY <1>2 DEF OnStopRPC, SecurityTypes
<1>8. KeepsReady /\ KeepsBare /\ Prepares
  BY <1>1, <1>3 DEF KeepsReady, KeepsBare, Prepares, Bare
<1>9. KeepsHolders
  BY <1>7 DEF KeepsHolders
<1>10. Releases
  <2>1. \A t \in Sessions : sessionId[t] \in 0..MaxId
    BY <1>1, TypeParts DEF IdTypes
  <2>. QED
    BY <1>1, <1>2, <1>6, <1>7, <2>1 DEF Releases, Distinct
<1>11. Secured
  BY <1>3, <1>7 DEF Secured
<1>. QED
  BY <1>8, <1>9, <1>10, <1>11 DEF Advances

LEMMA StopServiceAdvances ==
  ASSUME Orderly, Securing, NEW e, NEW m, Finds(e, m), OnStopService(e, m)
  PROVE  Advances
<1>1. TypeOK /\ Bare
  BY DEF Orderly, Securing
<1>2. SecurityTypes /\ e.s \in Sessions
  BY <1>1, TypeParts, Found
<1>3. UNCHANGED <<isSecuredSession, ssl, mobileSecurities>>
  BY DEF OnStopService
<1>4. \A t \in Sessions : encryptedServices'[t] \subseteq encryptedServices[t]
  BY <1>2 DEF OnStopService, SecurityTypes
<1>5. KeepsReady /\ KeepsBare /\ Prepares /\ KeepsHolders /\ Releases
  BY <1>1, <1>3 DEF KeepsReady, KeepsBare, Prepares, KeepsHolders, Releases, Bare
<1>6. Secured
  BY <1>3, <1>4 DEF Secured
<1>. QED
  BY <1>5, <1>6 DEF Advances

LEMMA HandshakeAdvances ==
  ASSUME Orderly, Securing, NEW e, NEW m, Finds(e, m), OnHandshake(e, m)
  PROVE  Advances
<1>1. TypeOK /\ Bare
  BY DEF Orderly, Securing
<1>2. SecurityTypes /\ e.s \in Sessions
  BY <1>1, TypeParts, Found
<1>3. UNCHANGED <<isSecuredSession, encryptedServices, mobileSecurities>>
  BY DEF OnHandshake
<1>4. ssl'[e.s] = Shaken(ssl[e.s], m) /\ \A t \in Sessions : t # e.s => ssl'[t] = ssl[t]
  BY <1>2 DEF OnHandshake, SecurityTypes
<1>5. /\ ssl[e.s] \in {"none", "finished"} => ssl'[e.s] = ssl[e.s]
      /\ ssl'[e.s] = "none" => ssl[e.s] = "none"
  BY <1>2, <1>4, ShakenType DEF SecurityTypes
<1>6. \A t \in Sessions : /\ ssl[t] \in {"none", "finished"} => ssl'[t] = ssl[t]
                          /\ ssl'[t] = "none" => ssl[t] = "none"
  BY <1>4, <1>5
<1>7. KeepsReady
  BY <1>6 DEF KeepsReady
<1>8. KeepsBare
  BY <1>1, <1>3, <1>6 DEF KeepsBare, Bare
<1>9. Prepares
  BY <1>6 DEF Prepares
<1>10. KeepsHolders /\ Releases /\ Secured
  BY <1>3 DEF KeepsHolders, Releases, Secured
<1>. QED
  BY <1>7, <1>8, <1>9, <1>10 DEF Advances

(* A step that changes the security of a session is one in which a session *)
(* speaks.                                                                 *)
LEMMA SecurityStep ==
  ASSUME Patient, Orderly, Securing, Next
  PROVE  UNCHANGED securityVars \/ (Speaks /\ Advances)
<1>1. TypeOK /\ Proper
  BY DEF Orderly
<1>2. ASSUME NEW s \in Sessions, Script(s)
      PROVE  UNCHANGED securityVars \/ (Speaks /\ Advances)
  <2>1. ASSUME NEW svc \in Services, StartSecureService(s, svc)
        PROVE  Speaks /\ Advances
    BY <1>1, <2>1, StartSecureStep, StartSecureAdvances
  <2>2. CASE ~\E svc \in Services : StartSecureService(s, svc)
    BY <1>2, <2>2 DEF Script, Start, Stop, SendEncryptedRPC, StartHeartbeatCall,
                      StopHeartbeatCall, StartService, StopService
  <2>. QED
    BY <2>1, <2>2
<1>3. CASE Deliver
  <2>. DEFINE m == Head(toMobile)
  <2>1. CASE Handlers(m) = {}
    BY <1>3, <2>1 DEF Deliver
  <2>2. CASE Handlers(m) # {}
    <3>1. PICK e \in Handlers(m) : Act(e, m)
      BY <1>3, <2>2 DEF Deliver
    <3>2. Comes(m)
      BY <1>3 DEF Deliver, Comes
    <3>. HIDE DEF m
    <3>3. Finds(e, m)
      BY <3>1, <3>2 DEF Handlers, Finds
    <3>4. e.kind \in Kinds /\ (e.kind = "start" => e.svc \in Services)
      BY <1>1, <3>3, Found DEF Proper
    <3>5. CASE UNCHANGED securityVars
      BY <3>5
    <3>6. CASE e.kind = "handshake" /\ OnHandshake(e, m)
      BY <1>1, <3>3, <3>6, HandshakeStep, HandshakeAdvances
    <3>7. CASE e.kind = "start" /\ e.enc /\ OnStartSecure(e, m)
      BY <1>1, <3>3, <3>4, <3>7, StartSecureAnswered, StartSecureAnsweredAdvances
    <3>8. CASE e.kind = "end" /\ e.svc = RPC /\ OnStopRPC(e, m)
      BY <1>1, <3>3, <3>8, StopRPCAnswered, StopRPCAdvances
    <3>9. CASE e.kind = "end" /\ e.svc # RPC /\ OnStopService(e, m)
      BY <1>1, <3>3, <3>9, StopServiceAnswered, StopServiceAdvances
    <3>10. CASE Ignored(e, m) \/ OnHeartbeat(e) \/ OnHeartbeatAck(e, m) \/ OnStartRPC(e, m)
                \/ OnResponse(e, m)
      BY <3>5, <3>10 DEF Ignored, OnHeartbeat, OnHeartbeatAck, OnStartRPC, OnResponse
    <3>. QED
      BY <3>1, <3>4, <3>6, <3>7, <3>8, <3>9, <3>10, Acts
  <2>. QED
    BY <2>1, <2>2
<1>4. CASE Sdl
  BY <1>4 DEF Sdl, SdlNewSession, SdlStartService, SdlRefuse, SdlEnd, SdlHandshake,
              SdlRequest, SdlHeartbeatIn, Take, mobileVars
<1>. QED
  BY <1>2, <1>3, <1>4 DEF Next, SendHeartbeat, Expire, EndStep, SdlHeartbeat, mobileVars


LEMMA SecuringSpeaks ==
  ASSUME Orderly, Securing, Speaks, Advances
  PROVE  Securing'
<1>1. /\ TypeOK /\ Distinct /\ FromSdl
      /\ Holders /\ Bare /\ Holding /\ NoHand /\ HandBehind /\ ShakeBehind
      /\ EndedGone /\ AckReady /\ AckBefore /\ SecureMeansReady
  BY DEF Orderly, Securing
<1>2. KeepsReady /\ KeepsBare /\ Prepares /\ KeepsHolders /\ Releases /\ Secured
  BY DEF Advances
<1>3. UNCHANGED <<sessionId, sdl>> /\ (UNCHANGED toMobile \/ Delivers)
  BY DEF Speaks, Still
<1>4. \A s \in Sessions : sessionId[s] \in 0..MaxId
  BY <1>1, TypeParts DEF IdTypes
<1>5. Delivers => 1 \in 1..Len(toMobile) /\ First = toMobile[1]
  BY <1>1, TypeParts DEF Delivers, WireTypes, First
<1>6. Delivers => \A i \in 1..Len(toMobile') :
                    i + 1 \in 1..Len(toMobile) /\ toMobile'[i] = toMobile[i + 1] /\ ~(i + 1 < 1)
  BY <1>1, DeliveredWire
<1>7. Holders'
  BY <1>1, <1>2, <1>3 DEF Holders, KeepsHolders
<1>8. Bare'
  BY <1>2, <1>3 DEF Bare, KeepsBare
<1>9. Holding'
  <2>1. SUFFICES ASSUME NEW s \in Sessions, sessionId[s] # 0, sdl[sessionId[s]].live,
                        ssl'[s] # "none"
                 PROVE  mobileSecurities'[sessionId[s]] = s
    BY <1>3 DEF Holding
  <2>2. CASE ssl[s] # "none"
    <3>1. mobileSecurities[sessionId[s]] = s
      BY <1>1, <2>1, <2>2 DEF Holding
    <3>2. ~(Delivers /\ Ended(First) /\ First.id = sessionId[s])
      BY <1>1, <1>5, <2>1 DEF EndedGone
    <3>. QED
      BY <1>2, <2>1, <3>1, <3>2 DEF Releases
  <2>. QED
    BY <1>2, <2>1, <2>2 DEF Prepares
<1>10. NoHand' /\ HandBehind'
  BY <1>1, <1>2, <1>3 DEF NoHand, HandBehind, KeepsReady, Owned
<1>11. ShakeBehind'
  <2>1. \A i \in 1..Len(toSDL') :
          \/ i \in 1..Len(toSDL) /\ toSDL'[i] = toSDL[i]
          \/ i > Len(toSDL) /\ Said(toSDL'[i])
    BY <1>1, SaidWire DEF Speaks
  <2>2. SUFFICES ASSUME NEW s \in Sessions, NEW i \in 1..Len(toSDL'), sessionId[s] # 0,
                        Shakes(toSDL'[i]), toSDL'[i].id = sessionId[s]
                 PROVE  ssl'[s] = "finished"
    BY <1>3 DEF ShakeBehind
  <2>3. CASE i \in 1..Len(toSDL) /\ toSDL'[i] = toSDL[i]
    BY <1>1, <1>2, <2>2, <2>3 DEF ShakeBehind, KeepsReady
  <2>4. CASE Said(toSDL'[i])
    BY <1>1, <2>2, <2>4 DEF Said, Distinct
  <2>. QED
    BY <2>1, <2>3, <2>4
<1>12. EndedGone'
  BY <1>1, <1>3, <1>6 DEF EndedGone
<1>13. AckBefore'
  <2>1. SUFFICES ASSUME NEW i \in 1..Len(toMobile'), NEW k \in 1..Len(toMobile'),
                        Secures(toMobile'[i]), Ended(toMobile'[k]),
                        toMobile'[k].id = toMobile'[i].id
                 PROVE  i < k
    BY DEF AckBefore
  <2>2. CASE UNCHANGED toMobile
    BY <1>1, <2>1, <2>2 DEF AckBefore
  <2>3. CASE Delivers
    <3>1. i + 1 < k + 1
      BY <1>1, <1>6, <2>1, <2>3 DEF AckBefore
    <3>. QED
      BY <3>1
  <2>. QED
    BY <1>3, <2>2, <2>3
<1>14. AckReady'
  <2>1. SUFFICES ASSUME NEW i \in 1..Len(toMobile'), NEW s \in Sessions,
                        Secures(toMobile'[i]), sessionId[s] = toMobile'[i].id
                 PROVE  ssl'[s] = "finished" /\ mobileSecurities'[sessionId[s]] = s
    BY <1>3 DEF AckReady
  <2>2. PICK j \in 1..Len(toMobile) : toMobile'[i] = toMobile[j] /\ (Delivers => ~(j < 1))
    <3>1. CASE Delivers
      BY <1>6, <3>1
    <3>2. CASE ~Delivers
      BY <1>3, <3>2
    <3>. QED
      BY <3>1, <3>2
  <2>3. ssl[s] = "finished" /\ mobileSecurities[sessionId[s]] = s /\ sessionId[s] # 0
    BY <1>1, <2>1, <2>2 DEF AckReady, FromSdl, Accepts
  <2>4. ~(Delivers /\ Ended(First) /\ First.id = sessionId[s])
    BY <1>1, <1>5, <2>1, <2>2 DEF AckBefore
  <2>. QED
    BY <1>2, <2>3, <2>4 DEF KeepsReady, Releases
<1>15. SecureMeansReady'
  <2>1. SUFFICES ASSUME NEW s \in Sessions, isSecuredSession'[s], encryptedServices'[s] # {}
                 PROVE  mobileSecurities'[sessionId[s]] = s /\ ssl'[s] = "finished"
    BY <1>3 DEF SecureMeansReady
  <2>2. CASE isSecuredSession[s] /\ encryptedServices[s] # {}
    <3>1. mobileSecurities[sessionId[s]] = s /\ ssl[s] = "finished" /\ sessionId[s] # 0
      BY <1>1, <2>2 DEF SecureMeansReady, Bare
    <3>. QED
      BY <1>2, <2>1, <3>1 DEF KeepsReady, Releases
  <2>3. CASE /\ Delivers /\ Secures(First) /\ First.id = sessionId[s]
             /\ UNCHANGED <<ssl, mobileSecurities>>
    BY <1>1, <1>5, <2>3 DEF AckReady
  <2>. QED
    BY <1>2, <2>1, <2>2, <2>3 DEF Secured
<1>. QED
  BY <1>7, <1>8, <1>9, <1>10, <1>11, <1>12, <1>13, <1>14, <1>15 DEF Securing

(* The other steps leave the security of the sessions alone.               *)
LEMMA SecuringScript ==
  ASSUME Orderly, Securing, UNCHANGED securityVars, NEW s \in Sessions, Start(s) \/ Stop(s)
  PROVE  Securing'
<1>1. /\ TypeOK
      /\ Holders /\ Bare /\ Holding /\ NoHand /\ HandBehind /\ ShakeBehind
      /\ EndedGone /\ AckReady /\ AckBefore /\ SecureMeansReady
  BY DEF Orderly, Securing
<1>2. UNCHANGED <<sessionId, toMobile, sdl, ssl, mobileSecurities, isSecuredSession,
                  encryptedServices>>
  BY DEF Start, Stop, idVars, securityVars
<1>3. PICK x \in Message : toSDL' = Append(toSDL, x) /\ x.type # "HANDSHAKE"
  <2>1. sessionId[s] \in 0..MaxId
    BY <1>1, TypeParts DEF IdTypes
  <2>2. CASE Start(s)
    <3>. DEFINE m == Frame("START", sessionId[s], RPC, FALSE)
    <3>1. m \in Message /\ m.type = "START"
      BY <2>1, FrameType DEF MessageTypes, Named, Services, Frame
    <3>. QED
      BY <2>2, <3>1 DEF Start, Send
  <2>3. CASE Stop(s)
    <3>. DEFINE m == Frame("END", sessionId[s], RPC, FALSE)
    <3>1. m \in Message /\ m.type = "END"
      BY <2>1, FrameType DEF MessageTypes, Named, Services, Frame
    <3>. QED
      BY <2>3, <3>1 DEF Stop
  <2>. QED
    BY <2>2, <2>3
<1>4. \A i \in 1..Len(toSDL') :
        \/ i \in 1..Len(toSDL) /\ toSDL'[i] = toSDL[i]
        \/ toSDL'[i] = x
  BY <1>1, <1>3, SentWire
<1>5. ShakeBehind'
  BY <1>1, <1>2, <1>3, <1>4 DEF ShakeBehind, Shakes
<1>6. Holders' /\ Bare' /\ Holding' /\ NoHand' /\ HandBehind'
  BY <1>1, <1>2 DEF Holders, Bare, Holding, NoHand, HandBehind, Owned
<1>7. EndedGone' /\ AckReady' /\ AckBefore' /\ SecureMeansReady'
  BY <1>1, <1>2 DEF EndedGone, AckReady, AckBefore, SecureMeansReady
<1>. QED
  BY <1>5, <1>6, <1>7 DEF Securing

LEMMA SecuringArrives ==
  ASSUME Orderly, Securing, UNCHANGED securityVars, Arrives
  PROVE  Securing'
<1>1. /\ TypeOK /\ Distinct /\ FromMobile /\ FromSdl
      /\ Holders /\ Bare /\ Holding /\ NoHand /\ HandBehind /\ ShakeBehind
      /\ EndedGone /\ AckReady /\ AckBefore /\ SecureMeansReady
  BY DEF Orderly, Securing
<1>2. IdTypes /\ SecurityTypes
  BY <1>1, TypeParts
<1>3. PICK e \in pool, m \in Message :
        Finds(e, m) /\ e.kind = "start" /\ e.svc = RPC /\ ~e.enc /\ Begins(e.s, m)
  BY DEF Arrives
<1>. DEFINE s == e.s
            id == m.id
<1>4. s \in Sessions /\ sessionId[s] = 0 /\ id # 0 /\ id \in 0..MaxId /\ ~Owned(id)
  BY <1>3, ArrivesFresh
<1>5. Begins(s, m)
  BY <1>3
<1>. HIDE DEF s
<1>6. /\ UNCHANGED <<sdl, ssl, mobileSecurities, isSecuredSession, encryptedServices>> /\ Delivers
      /\ sessionId'[s] = id /\ \A t \in Sessions : t # s => sessionId'[t] = sessionId[t]
  BY <1>2, <1>4, <1>5 DEF Begins, IdTypes, securityVars
<1>7. PICK w \in Seq(Message) :
        toSDL' = toSDL \o w /\ \A k \in 1..Len(w) : w[k].type \in {"HEARTBEAT", "REQUEST"}
  BY <1>5 DEF Begins
<1>. HIDE DEF id
<1>8. \A i \in 1..Len(toSDL') :
        \/ i \in 1..Len(toSDL) /\ toSDL'[i] = toSDL[i]
        \/ toSDL'[i].type \in {"HEARTBEAT", "REQUEST"}
  BY <1>1, <1>7, Joined, TypeParts DEF WireTypes
<1>9. \A i \in 1..Len(toMobile') : i + 1 \in 1..Len(toMobile) /\ toMobile'[i] = toMobile[i + 1]
  BY <1>1, <1>6, DeliveredWire
<1>10. ssl[s] = "none" /\ ~isSecuredSession[s]
  BY <1>1, <1>4 DEF Bare
<1>11. \A t \in Sessions : sessionId[t] # id
  BY <1>4 DEF Owned
<1>12. Holders'
  <2>1. \A j \in 0..MaxId : mobileSecurities[j] # Nil => mobileSecurities[j] \in Sessions
    BY <1>2 DEF SecurityTypes
  <2>. QED
    BY <1>1, <1>4, <1>6, <2>1 DEF Holders
<1>13. Bare'
  BY <1>1, <1>4, <1>6 DEF Bare
<1>14. Holding'
  BY <1>1, <1>6, <1>10 DEF Holding
<1>15. NoHand'
  <2>1. \A j \in Ids : Owned(j) => \E t \in Sessions : sessionId'[t] = j
    BY <1>4, <1>6 DEF Owned, Ids
  <2>. QED
    BY <1>1, <1>6, <2>1 DEF NoHand, Owned
<1>16. sdl[id].hand = "none"
  <2>1. id \in Ids
    BY <1>4, SessionAssumption DEF Ids
  <2>. QED
    BY <1>1, <1>4, <2>1 DEF NoHand
<1>17. HandBehind'
  BY <1>1, <1>6, <1>16 DEF HandBehind
<1>18. ShakeBehind'
  <2>1. \A i \in 1..Len(toSDL) : toSDL[i].id # id
    BY <1>1, <1>4, <1>11 DEF FromMobile, SentOwned, Owned
  <2>. QED
    BY <1>1, <1>6, <1>8, <2>1 DEF ShakeBehind, Shakes
<1>19. EndedGone'
  BY <1>1, <1>6, <1>9 DEF EndedGone
<1>20. AckReady'
  <2>1. \A i \in 1..Len(toMobile) : Secures(toMobile[i]) => toMobile[i].id # id
    BY <1>1, <1>4 DEF FromSdl, AnswersOwned, Secures, Opened
  <2>. QED
    BY <1>1, <1>6, <1>9, <2>1 DEF AckReady
<1>21. AckBefore'
  <2>1. SUFFICES ASSUME NEW i \in 1..Len(toMobile'), NEW k \in 1..Len(toMobile'),
                        Secures(toMobile'[i]), Ended(toMobile'[k]),
                        toMobile'[k].id = toMobile'[i].id
                 PROVE  i < k
    BY DEF AckBefore
  <2>2. i + 1 < k + 1
    BY <1>1, <1>9, <2>1 DEF AckBefore
  <2>. QED
    BY <2>2
<1>22. SecureMeansReady'
  BY <1>1, <1>6, <1>10 DEF SecureMeansReady
<1>. QED
  BY <1>12, <1>13, <1>14, <1>15, <1>17, <1>18, <1>19, <1>20, <1>21, <1>22 DEF Securing


(* Steps of SDL that add nothing but what goes to ready sessions.          *)
LEMMA SecuringKept ==
  ASSUME Securing, UNCHANGED <<sessionId, ssl, mobileSecurities, isSecuredSession,
                               encryptedServices>>
  PROVE  Holders' /\ Bare' /\ SecureMeansReady'
  BY DEF Securing, Holders, Bare, SecureMeansReady

LEMMA SecuringTakes ==
  ASSUME TypeOK, ShakeBehind, Takes
  PROVE  ShakeBehind'
<1>1. UNCHANGED <<sessionId, ssl>>
  BY DEF Takes, mobileVars, idVars, securityVars
<1>2. \A i \in 1..Len(toSDL') : i + 1 \in 1..Len(toSDL) /\ toSDL'[i] = toSDL[i + 1]
  BY TakenWire DEF Takes
<1>. QED
  BY <1>1, <1>2 DEF ShakeBehind

LEMMA SecuringAnswers ==
  ASSUME Orderly, Securing, Answers
  PROVE  Securing'
<1>1. /\ TypeOK /\ FromMobile /\ FromSdl
      /\ Holding /\ NoHand /\ HandBehind /\ ShakeBehind
      /\ EndedGone /\ AckReady /\ AckBefore
  BY DEF Orderly, Securing
<1>2. Takes /\ UNCHANGED <<sessionId, ssl, mobileSecurities, isSecuredSession, encryptedServices>>
  BY DEF Answers, Takes, mobileVars, idVars, securityVars
<1>3. \A id \in Ids :
        /\ sdl'[id].live <=> sdl[id].live
        /\ sdl'[id].hand = "done" => sdl[id].hand = "done" \/ (Shakes(Got) /\ Got.id = id)
        /\ sdl'[id].hand # "none" => sdl[id].hand # "none" \/ Got.id = id
  BY DEF Answers, Moves
<1>4. Got = toSDL[1] /\ 1 \in 1..Len(toSDL)
  BY <1>1, <1>2, GotTypes DEF Takes
<1>5. \A s \in Sessions : sessionId[s] # 0 => sessionId[s] \in Ids
  BY <1>1, TypeParts, SessionAssumption DEF IdTypes, Ids
<1>6. \A i \in 1..Len(toMobile) : toMobile[i].id \in Ids
  BY <1>1, WireIds, SessionAssumption DEF FromSdl, Accepts, Ids
<1>7. \A i \in 1..Len(toMobile') :
        \/ i \in 1..Len(toMobile) /\ toMobile'[i] = toMobile[i]
        \/ i > Len(toMobile) /\ Told(toMobile'[i])
  BY <1>1, ToldWire DEF Answers
<1>8. Holders' /\ Bare' /\ SecureMeansReady'
  BY <1>2, SecuringKept
<1>9. Holding'
  BY <1>1, <1>2, <1>3, <1>5 DEF Holding
<1>10. NoHand'
  <2>1. \A id \in Ids : id # 0
    BY DEF Ids
  <2>2. \A id \in Ids : Got.id = id => Owned(id)
    BY <1>1, <1>4, <2>1 DEF FromMobile, SentOwned
  <2>3. \A id \in Ids : ~Owned(id) => sdl'[id].hand = "none"
    BY <1>1, <1>3, <2>2 DEF NoHand
  <2>. QED
    BY <1>2, <2>3 DEF NoHand, Owned
<1>11. \A s \in Sessions :
         sessionId[s] # 0 /\ sdl'[sessionId[s]].hand = "done" => ssl[s] = "finished"
  BY <1>1, <1>3, <1>4, <1>5 DEF HandBehind, ShakeBehind
<1>12. HandBehind'
  BY <1>2, <1>11 DEF HandBehind
<1>13. ShakeBehind'
  BY <1>1, <1>2, SecuringTakes
<1>14. \A x : Told(x) => ~Ended(x) /\ x.id \in Ids /\ x.id # 0 /\ sdl[x.id].live
  BY DEF Told, Ended, Live, Ids
<1>15. EndedGone'
  BY <1>1, <1>3, <1>6, <1>7, <1>14 DEF EndedGone
<1>16. AckReady'
  <2>1. ASSUME NEW x, Told(x), Secures(x), NEW s \in Sessions, sessionId[s] = x.id
        PROVE  ssl[s] = "finished" /\ mobileSecurities[sessionId[s]] = s
    <3>1. sdl'[x.id].hand = "done" /\ sessionId[s] # 0 /\ sdl[sessionId[s]].live
      BY <1>14, <2>1 DEF Told
    <3>2. ssl[s] = "finished"
      BY <1>11, <2>1, <3>1
    <3>. QED
      BY <1>1, <3>1, <3>2 DEF Holding
  <2>. QED
    BY <1>1, <1>2, <1>7, <2>1 DEF AckReady
<1>17. AckBefore'
  <2>1. SUFFICES ASSUME NEW i \in 1..Len(toMobile'), NEW k \in 1..Len(toMobile'),
                        Secures(toMobile'[i]), Ended(toMobile'[k]),
                        toMobile'[k].id = toMobile'[i].id
                 PROVE  i < k
    BY DEF AckBefore
  <2>2. k \in 1..Len(toMobile) /\ toMobile'[k] = toMobile[k]
    BY <1>7, <1>14, <2>1
  <2>3. ~sdl[toMobile'[i].id].live
    BY <1>1, <2>1, <2>2 DEF EndedGone
  <2>4. i \in 1..Len(toMobile) /\ toMobile'[i] = toMobile[i]
    BY <1>7, <1>14, <2>3
  <2>. QED
    BY <1>1, <2>1, <2>2, <2>4 DEF AckBefore
<1>. QED
  BY <1>8, <1>9, <1>10, <1>12, <1>13, <1>15, <1>16, <1>17 DEF Securing

LEMMA SecuringCloses ==
  ASSUME Orderly, Securing, Closes
  PROVE  Securing'
<1>1. /\ TypeOK /\ FromSdl
      /\ Holding /\ NoHand /\ HandBehind /\ ShakeBehind
      /\ EndedGone /\ AckReady /\ AckBefore
  BY DEF Orderly, Securing
<1>2. Takes /\ UNCHANGED <<sessionId, ssl, mobileSecurities, isSecuredSession, encryptedServices>>
  BY DEF Closes, Takes, mobileVars, idVars, securityVars
<1>3. \A id \in Ids : (sdl'[id].live => sdl[id].live) /\ sdl'[id].hand = sdl[id].hand
  BY DEF Closes, Live
<1>4. PICK x \in Message : /\ toMobile' = Append(toMobile, x) /\ x.id = Got.id
                           /\ x.type = "END_ACK" /\ x.svc = Got.svc
  BY DEF Closes
<1>5. \A s \in Sessions : sessionId[s] # 0 => sessionId[s] \in Ids
  BY <1>1, TypeParts, SessionAssumption DEF IdTypes, Ids
<1>6. \A i \in 1..Len(toMobile) : toMobile[i].id \in Ids
  BY <1>1, WireIds, SessionAssumption DEF FromSdl, Accepts, Ids
<1>7. \A i \in 1..Len(toMobile') :
        \/ i \in 1..Len(toMobile) /\ toMobile'[i] = toMobile[i]
        \/ i > Len(toMobile) /\ i = Len(toMobile) + 1 /\ toMobile'[i] = x
  BY <1>1, <1>4, ReplyWire
<1>8. Holders' /\ Bare' /\ SecureMeansReady'
  BY <1>2, SecuringKept
<1>9. Holding'
  BY <1>1, <1>2, <1>3, <1>5 DEF Holding
<1>10. NoHand'
  BY <1>1, <1>2, <1>3 DEF NoHand, Owned
<1>11. HandBehind'
  BY <1>1, <1>2, <1>3, <1>5 DEF HandBehind
<1>12. ShakeBehind'
  BY <1>1, <1>2, SecuringTakes
<1>13. EndedGone'
  <2>1. Ended(x) => ~sdl'[x.id].live
    BY <1>4 DEF Closes, Ended
  <2>. QED
    BY <1>1, <1>3, <1>6, <1>7, <2>1 DEF EndedGone
<1>14. ~Secures(x)
  BY <1>4 DEF Secures
<1>15. AckReady'
  BY <1>1, <1>2, <1>7, <1>14 DEF AckReady
<1>16. AckBefore'
  <2>1. SUFFICES ASSUME NEW i \in 1..Len(toMobile'), NEW k \in 1..Len(toMobile'),
                        Secures(toMobile'[i]), Ended(toMobile'[k]),
                        toMobile'[k].id = toMobile'[i].id
                 PROVE  i < k
    BY DEF AckBefore
  <2>2. i \in 1..Len(toMobile) /\ toMobile'[i] = toMobile[i]
    BY <1>7, <1>14, <2>1
  <2>3. CASE k \in 1..Len(toMobile) /\ toMobile'[k] = toMobile[k]
    BY <1>1, <2>1, <2>2, <2>3 DEF AckBefore
  <2>4. CASE k > Len(toMobile)
    BY <1>1, <2>2, <2>4, WireIds
  <2>. QED
    BY <1>7, <2>3, <2>4
<1>. QED
  BY <1>8, <1>9, <1>10, <1>11, <1>12, <1>13, <1>15, <1>16 DEF Securing

LEMMA SecuringCreates ==
  ASSUME Regular, Orderly, Securing, NEW id \in Ids, Creates(id)
  PROVE  Securing'
<1>1. /\ TypeOK /\ FromSdl /\ Lives
      /\ Holding /\ NoHand /\ HandBehind /\ ShakeBehind
      /\ EndedGone /\ AckReady /\ AckBefore
  BY DEF Orderly, Securing
<1>2. Takes /\ UNCHANGED <<sessionId, ssl, mobileSecurities, isSecuredSession, encryptedServices>>
  BY DEF Creates, Takes, mobileVars, idVars, securityVars
<1>3. /\ ~sdl[id].used /\ sdl'[id].hand = "none"
      /\ \A j \in Ids : j # id => sdl'[j] = sdl[j]
  BY DEF Creates, Regular, Free
<1>4. PICK x \in Message : toMobile' = Append(toMobile, x) /\ Opened(x) /\ x.id = id
  BY DEF Creates
<1>5. \A s \in Sessions : sessionId[s] # 0 => sessionId[s] \in Ids /\ sessionId[s] # id
  BY <1>1, <1>3, TypeParts, SessionAssumption DEF IdTypes, Ids, Lives
<1>6. \A i \in 1..Len(toMobile) : toMobile[i].id \in Ids /\ toMobile[i].id # id
  BY <1>1, <1>3, WireIds, SessionAssumption DEF FromSdl, Accepts, Ids
<1>7. \A i \in 1..Len(toMobile') :
        \/ i \in 1..Len(toMobile) /\ toMobile'[i] = toMobile[i]
        \/ toMobile'[i] = x
  BY <1>1, <1>4, ReplyWire
<1>8. Holders' /\ Bare' /\ SecureMeansReady'
  BY <1>2, SecuringKept
<1>9. Holding'
  BY <1>1, <1>2, <1>3, <1>5 DEF Holding
<1>10. NoHand'
  BY <1>1, <1>2, <1>3 DEF NoHand, Owned
<1>11. HandBehind'
  BY <1>1, <1>2, <1>3, <1>5 DEF HandBehind
<1>12. ShakeBehind'
  BY <1>1, <1>2, SecuringTakes
<1>13. ~Ended(x) /\ ~Secures(x)
  BY <1>4 DEF Opened, Ended, Secures
<1>14. EndedGone'
  BY <1>1, <1>3, <1>6, <1>7, <1>13 DEF EndedGone
<1>15. AckReady'
  BY <1>1, <1>2, <1>7, <1>13 DEF AckReady
<1>16. AckBefore'
  BY <1>1, <1>7, <1>13 DEF AckBefore
<1>. QED
  BY <1>8, <1>9, <1>10, <1>11, <1>12, <1>14, <1>15, <1>16 DEF Securing

LEMMA SecuringPings ==
  ASSUME Orderly, Securing, NEW id \in Ids, Pings(id)
  PROVE  Securing'
<1>1. /\ TypeOK
      /\ Holding /\ NoHand /\ HandBehind /\ ShakeBehind
      /\ EndedGone /\ AckReady /\ AckBefore
  BY DEF Orderly, Securing
<1>2. UNCHANGED <<sessionId, ssl, mobileSecurities, isSecuredSession, encryptedServices, toSDL, sdl>>
  BY DEF Pings, mobileVars, idVars, securityVars
<1>3. PICK x \in Message : toMobile' = Append(toMobile, x) /\ x.type = "HEARTBEAT"
  BY DEF Pings
<1>4. \A i \in 1..Len(toMobile') :
        \/ i \in 1..Len(toMobile) /\ toMobile'[i] = toMobile[i]
        \/ toMobile'[i] = x
  BY <1>1, <1>3, ReplyWire
<1>5. ~Ended(x) /\ ~Secures(x)
  BY <1>3 DEF Ended, Secures
<1>6. Holders' /\ Bare' /\ SecureMeansReady'
  BY <1>2, SecuringKept
<1>7. Holding' /\ NoHand' /\ HandBehind' /\ ShakeBehind'
  BY <1>1, <1>2 DEF Holding, NoHand, HandBehind, ShakeBehind, Owned
<1>8. EndedGone'
  BY <1>1, <1>2, <1>4, <1>5 DEF EndedGone
<1>9. AckReady'
  BY <1>1, <1>2, <1>4, <1>5 DEF AckReady
<1>10. AckBefore'
  BY <1>1, <1>4, <1>5 DEF AckBefore
<1>. QED
  BY <1>6, <1>7, <1>8, <1>9, <1>10 DEF Securing

LEMMA SecuringStep ==
  ASSUME Patient, Orderly, Securing, [Next]_vars
  PROVE  Securing'
<1>1. CASE Next
  <2>1. Step /\ Regular /\ Bare
    BY <1>1, NextSteps DEF Orderly, Patient, Securing
  <2>2. CASE Speaks /\ Advances
    BY <2>2, SecuringSpeaks
  <2>3. CASE UNCHANGED securityVars
    BY <2>1, <2>3, SameSecurity, SecuringSpeaks, SecuringScript, SecuringArrives,
       SecuringAnswers, OrderlyRefuses, SecuringCloses, SecuringCreates, SecuringPings DEF Step
  <2>. QED
    BY <1>1, <2>2, <2>3, SecurityStep
<1>2. CASE UNCHANGED vars
  <2>1. Holders' /\ Bare' /\ Holding' /\ NoHand' /\ HandBehind' /\ ShakeBehind'
    BY <1>2 DEF Securing, Holders, Bare, Holding, NoHand, HandBehind, ShakeBehind, Owned, vars
  <2>2. EndedGone' /\ AckReady' /\ AckBefore' /\ SecureMeansReady'
    BY <1>2 DEF Securing, EndedGone, AckReady, AckBefore, SecureMeansReady, vars
  <2>. QED
    BY <2>1, <2>2 DEF Securing
<1>. QED
  BY <1>1, <1>2

LEMMA SecuringInit == Init => Securing
<1>. SUFFICES ASSUME Init
              PROVE  Securing
  OBVIOUS
<1>1. Holders /\ Bare /\ Holding
  BY DEF Init, Holders, Bare, Holding
<1>2. NoHand /\ HandBehind /\ ShakeBehind
  BY DEF Init, NoHand, HandBehind, ShakeBehind, Free
<1>3. EndedGone /\ AckReady /\ AckBefore /\ SecureMeansReady
  BY DEF Init, EndedGone, AckReady, AckBefore, SecureMeansReady
<1>. QED
  BY <1>1, <1>2, <1>3 DEF Securing

(* A session that holds a service for secure has its own security          *)
(* registered under its id, with the handshake finished, so encryption     *)
(* raises no error: SDL acknowledges a secure service only when its side   *)
(* of the handshake is done, that is after the session's, and before it    *)
(* acknowledges the end of the session, which takes the security away.     *)
(* Assumed beyond NoBeatAfterStopCorrect: the script starts no secure      *)
(* service between the end of the handshake and its acknowledgement.       *)
THEOREM SecureMeansReadyCorrect ==
  ASSUME Faults \cap {"nack", "reuse", "restart", "stopped", "overlap"} = {}
  PROVE  Spec => []SecureMeansReady
<1>1. Init => Orderly /\ Securing
  BY OrderlyInit, SecuringInit
<1>2. Regular /\ Patient
  BY DEF Regular, Patient
<1>3. Orderly /\ Securing /\ [Next]_vars => (Orderly /\ Securing)'
  <2>1. ASSUME Orderly, Securing, [Next]_vars
        PROVE  Orderly' /\ Securing'
    BY <1>2, <2>1, OrderlyStep, SecuringStep
  <2>. QED
    BY <2>1
<1>4. Securing => SecureMeansReady
  BY DEF Securing
<1>. QED
  BY <1>1, <1>3, <1>4, PTL DEF Spec


-----------------------------------------------------------------------------
(* That a heartbeat of SDL is answered.  StartHeartbeat makes the          *)
(* expectation that answers only the first time, before the heartbeat is   *)
(* confirmed; it is pinned, so that the end of a step leaves it, and       *)
(* stopping and starting the heartbeat again relies on it.                 *)

Hears(s, P) == \E e \in P : e.s = s /\ e.kind = "beat"
Awaits(s, P) == \E e \in P : e.s = s /\ e.kind = "beatAck"
Active(h) == h.enabled \/ h.confirmed

(* A session whose monitor is on, was confirmed, or waits for that, has    *)
(* its pinned expectation.                                                 *)
Armed == \A s \in Sessions : Active(heartbeat[s]) \/ Awaits(s, pool) => Hears(s, pool)

(* What every step does to it.                                             *)
KeepsHearing == \A s \in Sessions : Hears(s, pool) => Hears(s, pool')
Asks ==
  \A s \in Sessions : Active(heartbeat'[s]) \/ Awaits(s, pool') =>
    Active(heartbeat[s]) \/ Awaits(s, pool) \/ Hears(s, pool')
Listens == KeepsHearing /\ Asks

LEMMA ArmedStep ==
  ASSUME Armed, Listens
  PROVE  Armed'
  BY DEF Armed, Listens, KeepsHearing, Asks

(* A step that switches no monitor on.                                     *)
Calm == \A s \in Sessions : Active(heartbeat'[s]) => Active(heartbeat[s])

LEMMA SameListens ==
  ASSUME UNCHANGED <<heartbeat, pool>>
  PROVE  Listens
  BY DEF Listens, KeepsHearing, Asks, Active

LEMMA AddsListens ==
  ASSUME Calm, NEW E, pool' = pool \cup E, \A e \in E : e.kind \notin {"beat", "beatAck"}
  PROVE  Listens
  BY DEF Listens, KeepsHearing, Asks, Calm, Hears, Awaits

(* One expectation is replaced by another of its session and kind.         *)
LEMMA ReplacesListens ==
  ASSUME Calm, NEW e \in pool, NEW r, r.s = e.s, r.kind = e.kind,
         pool' = (pool \ {e}) \cup {r}
  PROVE  Listens
<1>1. KeepsHearing
  BY DEF KeepsHearing, Hears
<1>2. Asks
  BY DEF Asks, Calm, Awaits
<1>. QED
  BY <1>1, <1>2 DEF Listens

LEMMA HandledListens ==
  ASSUME TypeOK, Calm, NEW e \in pool, NEW m, pool' = Handled(e, m)
  PROVE  Listens
<1>. DEFINE r == [e EXCEPT !.status = Validated(e, m)]
<1>1. e \in Expectation /\ Validated(e, m) \in Statuses
  BY ValidatedType, TypeParts DEF PoolTypes
<1>2. r.s = e.s /\ r.kind = e.kind /\ pool' = (pool \ {e}) \cup {r}
  BY <1>1, Restatus DEF Handled
<1>. HIDE DEF r
<1>. QED
  BY <1>2, ReplacesListens

(* What OnMessageSent, StartHeartbeat and StopHeartbeat make of a monitor. *)
LEMMA MonitorActive ==
  ASSUME NEW h \in Monitor
  PROVE  /\ Active(OnMessageSent(h)) = Active(h)
         /\ Active(StopHeartbeat(h)) => Active(h)
         /\ Active(StartHeartbeat(h)) => Active(h) \/ (Starting(h) /\ ~h.confirmed)
<1>1. OnMessageSent(h).enabled = h.enabled /\ OnMessageSent(h).confirmed = h.confirmed
  BY DEF OnMessageSent, Monitor
<1>2. Active(StopHeartbeat(h)) => Active(h)
  BY DEF StopHeartbeat, Monitor, Active
<1>3. Active(StartHeartbeat(h)) => Active(h) \/ (Starting(h) /\ ~h.confirmed)
  BY DEF StartHeartbeat, Starting, Active
<1>. QED
  BY <1>1, <1>2, <1>3 DEF Active

LEMMA ChangedCalm ==
  ASSUME BeatTypes, NEW s \in Sessions, NEW h, heartbeat' = [heartbeat EXCEPT ![s] = h],
         Active(h) => Active(heartbeat[s])
  PROVE  Calm
<1>. SUFFICES ASSUME NEW t \in Sessions, Active(heartbeat'[t]) PROVE Active(heartbeat[t])
  BY DEF Calm
<1>1. heartbeat'[t] = IF t = s THEN h ELSE heartbeat[t]
  BY DEF BeatTypes
<1>. QED
  BY <1>1

LEMMA SameCalm == UNCHANGED heartbeat => Calm
  BY DEF Calm

LEMMA SendCalm ==
  ASSUME BeatTypes, NEW s \in Sessions,
         heartbeat' = [heartbeat EXCEPT ![s] = OnMessageSent(heartbeat[s])]
  PROVE  Calm
<1>1. heartbeat[s] \in Monitor
  BY DEF BeatTypes
<1>2. Active(OnMessageSent(heartbeat[s])) => Active(heartbeat[s])
  BY <1>1, MonitorActive
<1>. QED
  BY <1>2, ChangedCalm

(* StartHeartbeat: the monitor is on only together with the expectation.   *)
LEMMA BeatsListen ==
  ASSUME BeatTypes, NEW s \in Sessions, NEW h,
         heartbeat' = [heartbeat EXCEPT ![s] = h],
         Active(h) = Active(StartHeartbeat(heartbeat[s])),
         KeepsHearing,
         BeatExpectations(s, heartbeat[s]) \subseteq pool',
         \A e \in pool' : e.kind = "beatAck" =>
            e \in BeatExpectations(s, heartbeat[s]) \/ \E f \in pool : f.s = e.s /\ f.kind = e.kind
  PROVE  Listens
<1>. DEFINE g == heartbeat[s]
            b == Expect(s, "beat", "CONTROL", FALSE, 0)
            a == Expect(s, "beatAck", "CONTROL", FALSE, 0)
<1>1. g \in Monitor
  BY DEF BeatTypes
<1>2. b.s = s /\ b.kind = "beat" /\ a.s = s /\ a.kind = "beatAck"
  BY DEF Expect
<1>3. BeatExpectations(s, g) # {} => b \in BeatExpectations(s, g)
  BY DEF BeatExpectations
<1>4. \A e \in BeatExpectations(s, g) : e = a \/ e = b
  BY DEF BeatExpectations
<1>5. Starting(g) /\ ~g.confirmed => b \in BeatExpectations(s, g)
  BY DEF BeatExpectations
<1>6. Active(h) => Active(g) \/ (Starting(g) /\ ~g.confirmed)
  BY <1>1, MonitorActive
<1>. HIDE DEF a, b
<1>7. BeatExpectations(s, g) # {} => Hears(s, pool')
  BY <1>2, <1>3 DEF Hears
<1>8. ASSUME NEW t \in Sessions, Active(heartbeat'[t])
      PROVE  Active(heartbeat[t]) \/ Hears(t, pool')
  <2>1. CASE t = s
    <3>1. heartbeat'[t] = h
      BY <2>1 DEF BeatTypes
    <3>. QED
      BY <1>5, <1>6, <1>7, <1>8, <2>1, <3>1
  <2>2. CASE t # s
    <3>1. heartbeat'[t] = heartbeat[t]
      BY <2>2 DEF BeatTypes
    <3>. QED
      BY <1>8, <3>1
  <2>. QED
    BY <2>1, <2>2
<1>9. ASSUME NEW t \in Sessions, Awaits(t, pool')
      PROVE  Awaits(t, pool) \/ Hears(t, pool')
  <2>1. PICK e \in pool' : e.s = t /\ e.kind = "beatAck"
    BY <1>9 DEF Awaits
  <2>2. CASE e \in BeatExpectations(s, g)
    BY <1>2, <1>4, <1>7, <2>1, <2>2
  <2>3. CASE \E f \in pool : f.s = e.s /\ f.kind = e.kind
    BY <2>1, <2>3 DEF Awaits
  <2>. QED
    BY <2>1, <2>2, <2>3
<1>. QED
  BY <1>8, <1>9 DEF Listens, Asks

-----------------------------------------------------------------------------
(* The steps, one by one                                                   *)

LEMMA AddsOne ==
  ASSUME Calm, NEW x, x.kind \notin {"beat", "beatAck"}, pool' = pool \cup {x}
  PROVE  Listens
<1>. DEFINE E == {x}
<1>1. pool' = pool \cup E /\ \A e \in E : e.kind \notin {"beat", "beatAck"}
  OBVIOUS
<1>. HIDE DEF E
<1>. QED
  BY <1>1, AddsListens

LEMMA ScriptListens ==
  ASSUME TypeOK, NEW s \in Sessions, Script(s)
  PROVE  Listens
<1>0. BeatTypes /\ heartbeat[s] \in Monitor
  BY TypeParts DEF BeatTypes
<1>1. CASE Start(s)
  <2>. DEFINE x == Expect(s, "start", RPC, FALSE, 0)
  <2>a. x.kind = "start"
    BY DEF Expect
  <2>1. /\ pool' = pool \cup {x}
        /\ heartbeat' = [heartbeat EXCEPT ![s] = OnMessageSent(heartbeat[s])]
    BY <1>1 DEF Start, Added, Send
  <2>. HIDE DEF x
  <2>. QED
    BY <1>0, <2>1, <2>a, SendCalm, AddsOne
<1>2. CASE Stop(s)
  <2>. DEFINE h == StopHeartbeat(OnMessageSent(heartbeat[s]))
  <2>. DEFINE x == Expect(s, "end", RPC, FALSE, 0)
  <2>a. x.kind = "end"
    BY DEF Expect
  <2>1. /\ pool' = pool \cup {x}
        /\ heartbeat' = [heartbeat EXCEPT ![s] = h]
    BY <1>2 DEF Stop, Added
  <2>2. OnMessageSent(heartbeat[s]) \in Monitor
    BY <1>0, MonitorForms
  <2>3. Active(h) => Active(heartbeat[s])
    BY <1>0, <2>2, MonitorActive
  <2>. HIDE DEF h
  <2>4. Calm
    BY <1>0, <2>1, <2>3, ChangedCalm
  <2>. HIDE DEF x
  <2>. QED
    BY <2>1, <2>4, <2>a, AddsOne
<1>3. CASE SendEncryptedRPC(s)
  <2>. DEFINE x == Expect(s, "response", RPC, TRUE, correlationId[s] + 1)
  <2>a. x.kind = "response"
    BY DEF Expect
  <2>1. CASE UNCHANGED <<pool, heartbeat>>
    BY <2>1, SameListens
  <2>2. CASE /\ pool' = pool \cup {x}
             /\ heartbeat' = [heartbeat EXCEPT ![s] = OnMessageSent(heartbeat[s])]
    <3>. HIDE DEF x
    <3>. QED
      BY <1>0, <2>2, <2>a, SendCalm, AddsOne
  <2>. QED
    BY <1>3, <2>1, <2>2 DEF SendEncryptedRPC, Added, Send
<1>4. CASE StartHeartbeatCall(s)
  <2>1. /\ heartbeat' = [heartbeat EXCEPT ![s] = StartHeartbeat(heartbeat[s])]
        /\ pool' = pool \cup BeatExpectations(s, heartbeat[s])
    BY <1>4 DEF StartHeartbeatCall
  <2>2. KeepsHearing
    BY <2>1 DEF KeepsHearing, Hears
  <2>. QED
    BY <1>0, <2>1, <2>2, BeatsListen
<1>5. CASE StopHeartbeatCall(s)
  <2>1. heartbeat' = [heartbeat EXCEPT ![s] = StopHeartbeat(heartbeat[s])] /\ pool' = pool
    BY <1>5 DEF StopHeartbeatCall
  <2>2. Active(StopHeartbeat(heartbeat[s])) => Active(heartbeat[s])
    BY <1>0, MonitorActive
  <2>3. Calm
    BY <1>0, <2>1, <2>2, ChangedCalm
  <2>. QED
    BY <2>1, <2>3 DEF Listens, KeepsHearing, Asks, Calm
<1>6. ASSUME NEW svc \in Streams, StartService(s, svc) PROVE Listens
  <2>. DEFINE x == Expect(s, "start", svc, FALSE, 0)
  <2>a. x.kind = "start"
    BY DEF Expect
  <2>1. /\ pool' = pool \cup {x}
        /\ heartbeat' = [heartbeat EXCEPT ![s] = OnMessageSent(heartbeat[s])]
    BY <1>6 DEF StartService, Added, Send
  <2>. HIDE DEF x
  <2>. QED
    BY <1>0, <2>1, <2>a, SendCalm, AddsOne
<1>7. ASSUME NEW svc \in Streams, StopService(s, svc) PROVE Listens
  <2>. DEFINE x == Expect(s, "end", svc, FALSE, 0)
  <2>a. x.kind = "end"
    BY DEF Expect
  <2>1. /\ pool' = pool \cup {x}
        /\ heartbeat' = [heartbeat EXCEPT ![s] = OnMessageSent(heartbeat[s])]
    BY <1>7 DEF StopService, Added, Send
  <2>. HIDE DEF x
  <2>. QED
    BY <1>0, <2>1, <2>a, SendCalm, AddsOne
<1>8. ASSUME NEW svc \in Services, StartSecureService(s, svc) PROVE Listens
  <2>. DEFINE x == Expect(s, "start", svc, TRUE, 0)
              y == Expect(s, "handshake", svc, FALSE, 0)
  <2>1. /\ pool' = pool \cup {x} \/ pool' = pool \cup {x, y}
        /\ heartbeat' = [heartbeat EXCEPT ![s] = OnMessageSent(heartbeat[s])]
    BY <1>8 DEF StartSecureService, Added, Send
  <2>2. x.kind = "start" /\ y.kind = "handshake"
    BY DEF Expect
  <2>. HIDE DEF x, y
  <2>3. Calm
    BY <1>0, <2>1, SendCalm
  <2>4. CASE pool' = pool \cup {x}
    BY <2>2, <2>3, <2>4, AddsOne
  <2>5. CASE pool' = pool \cup {x, y}
    <3>. DEFINE E == {x, y}
    <3>1. pool' = pool \cup E /\ \A e \in E : e.kind \notin {"beat", "beatAck"}
      BY <2>2, <2>5
    <3>. HIDE DEF E
    <3>. QED
      BY <2>3, <3>1, AddsListens
  <2>. QED
    BY <2>1, <2>4, <2>5
<1>. QED
  BY <1>1, <1>2, <1>3, <1>4, <1>5, <1>6, <1>7, <1>8 DEF Script

LEMMA StartRPCListens ==
  ASSUME TypeOK, NEW e, NEW m, Finds(e, m), e.kind = "start", OnStartRPC(e, m)
  PROVE  Listens
<1>. DEFINE s == e.s
            h == heartbeat[s]
            x == Expect(s, "response", RPC, FALSE, correlationId[s] + 1)
            E == IF Version > 2 THEN BeatExpectations(s, h) ELSE {}
            k == IF Version > 2 THEN StartHeartbeat(h) ELSE h
            r == [e EXCEPT !.status = Validated(e, m)]
<1>0. BeatTypes /\ e \in pool /\ s \in Sessions /\ h \in Monitor /\ e \in Expectation
  BY Found, TypeParts
<1>1. /\ heartbeat' = [heartbeat EXCEPT ![s] = OnMessageSent(k)]
      /\ pool' = ((pool \ {e}) \cup {r}) \cup E \cup {x}
  BY DEF OnStartRPC, Handled
<1>2. k \in Monitor
  BY <1>0, MonitorForms
<1>3. Active(OnMessageSent(k)) = Active(k)
  BY <1>2, MonitorActive
<1>4. x.kind = "response"
  BY DEF Expect
<1>5. r.s = e.s /\ r.kind = "start"
  BY <1>0, Restatus, ValidatedType
<1>. HIDE DEF x, r
<1>6. KeepsHearing
  BY <1>1, <1>5 DEF KeepsHearing, Hears
<1>7. CASE Version > 2
  <2>1. Active(OnMessageSent(k)) = Active(StartHeartbeat(h)) /\ E = BeatExpectations(s, h)
    BY <1>3, <1>7
  <2>2. E \subseteq pool'
    BY <1>1
  <2>3. \A y \in pool' : y.kind = "beatAck" => y \in E \/ \E f \in pool : f.s = y.s /\ f.kind = y.kind
    BY <1>1, <1>4, <1>5
  <2>. HIDE DEF E, k, h, s
  <2>4. heartbeat[s] = h
    BY DEF h
  <2>. QED
    BY <1>0, <1>1, <1>6, <2>1, <2>2, <2>3, <2>4, BeatsListen
<1>8. CASE ~(Version > 2)
  <2>1. k = h /\ E = {}
    BY <1>8
  <2>2. Calm
    BY <1>0, <1>1, <1>3, <2>1, ChangedCalm
  <2>3. \A y \in pool' : y.kind = "beatAck" => y \in pool
    BY <1>1, <1>4, <1>5, <2>1
  <2>. QED
    BY <1>6, <2>2, <2>3 DEF Listens, Asks, Calm, Awaits
<1>. QED
  BY <1>7, <1>8

LEMMA DeliverListens ==
  ASSUME TypeOK, Proper, Deliver
  PROVE  Listens
<1>. DEFINE m == Head(toMobile)
<1>0. BeatTypes
  BY TypeParts
<1>1. Comes(m)
  BY DEF Deliver, Comes
<1>2. CASE Handlers(m) = {}
  <2>1. UNCHANGED <<heartbeat, pool>>
    BY <1>2 DEF Deliver
  <2>. QED
    BY <2>1, SameListens
<1>3. CASE Handlers(m) # {}
  <2>1. PICK e \in Handlers(m) : Act(e, m)
    BY <1>3 DEF Deliver
  <2>. HIDE DEF m
  <2>2. Finds(e, m)
    BY <1>1, <2>1 DEF Handlers, Finds
  <2>3. /\ e \in pool /\ e \in Expectation /\ e.s \in Sessions /\ e.kind \in Kinds
        /\ heartbeat[e.s] \in Monitor
    BY <2>2, Found
  <2>4. CASE /\ UNCHANGED heartbeat
             /\ pool' = Handled(e, m)
    BY <2>3, <2>4, SameCalm, HandledListens
  <2>5. CASE OnHandshake(e, m)
    <3>. DEFINE l == e.listed /\ Shaken(ssl[e.s], m) # "finished"
                r == [e EXCEPT !.status = Validated(e, m), !.listed = l]
    <3>1. pool' = (pool \ {e}) \cup {r}
      BY <2>5 DEF OnHandshake
    <3>2. l \in BOOLEAN /\ Validated(e, m) \in Statuses
      BY ValidatedType
    <3>. HIDE DEF l
    <3>3. r.s = e.s /\ r.kind = e.kind
      BY <2>3, <3>2, Restatus
    <3>4. \/ UNCHANGED heartbeat
          \/ heartbeat' = [heartbeat EXCEPT ![e.s] = OnMessageSent(heartbeat[e.s])]
      BY <2>5 DEF OnHandshake, Send
    <3>. HIDE DEF r
    <3>5. Calm
      BY <1>0, <2>3, <3>4, SameCalm, SendCalm
    <3>. QED
      BY <2>3, <3>1, <3>3, <3>5, ReplacesListens
  <2>6. CASE OnHeartbeat(e)
    BY <2>6, SameListens DEF OnHeartbeat
  <2>7. CASE e.kind = "beatAck" /\ OnHeartbeatAck(e, m)
    <3>. DEFINE r == [e EXCEPT !.status = Validated(e, m)]
    <3>1. heartbeat' = [heartbeat EXCEPT ![e.s].confirmed = TRUE] /\ pool' = (pool \ {e}) \cup {r}
      BY <2>7 DEF OnHeartbeatAck, Handled
    <3>2. r.s = e.s /\ r.kind = e.kind
      BY <2>3, Restatus, ValidatedType
    <3>. HIDE DEF r
    <3>3. KeepsHearing
      BY <2>3, <3>1, <3>2 DEF KeepsHearing, Hears
    <3>4. \A t \in Sessions : t # e.s => heartbeat'[t] = heartbeat[t]
      BY <1>0, <3>1 DEF BeatTypes
    <3>5. Awaits(e.s, pool)
      BY <2>3, <2>7 DEF Awaits
    <3>6. \A t \in Sessions : Awaits(t, pool') => Awaits(t, pool)
      BY <2>3, <3>1, <3>2 DEF Awaits
    <3>. QED
      BY <3>3, <3>4, <3>5, <3>6 DEF Listens, Asks
  <2>8. CASE e.kind = "start" /\ OnStartRPC(e, m)
    BY <2>2, <2>8, StartRPCListens
  <2>9. CASE \/ Ignored(e, m) \/ OnStartSecure(e, m) \/ OnStopRPC(e, m)
             \/ OnStopService(e, m) \/ OnResponse(e, m)
    BY <2>4, <2>9 DEF Ignored, OnStartSecure, OnStopRPC, OnStopService, OnResponse
  <2>. QED
    BY <2>1, <2>3, <2>5, <2>6, <2>7, <2>8, <2>9, Acts
<1>. QED
  BY <1>2, <1>3

LEMMA NextListens ==
  ASSUME TypeOK, Proper, [Next]_vars
  PROVE  Listens
<1>1. ASSUME NEW s \in Sessions, Script(s) PROVE Listens
  BY <1>1, ScriptListens
<1>2. ASSUME NEW e \in Collected, Expire(e) PROVE Listens
  <2>. DEFINE r == [e EXCEPT !.status = "FAILED"]
  <2>1. pool' = (pool \ {e}) \cup {r} /\ UNCHANGED heartbeat
    BY <1>2 DEF Expire
  <2>2. e \in pool /\ e \in Expectation /\ "FAILED" \in Statuses
    BY TypeParts DEF Collected, PoolTypes, Statuses
  <2>3. r.s = e.s /\ r.kind = e.kind
    BY <2>2, Restatus
  <2>. HIDE DEF r
  <2>. QED
    BY <2>1, <2>2, <2>3, SameCalm, ReplacesListens
<1>3. CASE EndStep
  <2>1. pool' = pool \ Collected /\ UNCHANGED heartbeat
    BY <1>3 DEF EndStep
  <2>2. KeepsHearing
    BY <2>1 DEF KeepsHearing, Hears, Collected
  <2>3. Asks
    BY <2>1 DEF Asks, Active, Awaits
  <2>. QED
    BY <2>2, <2>3 DEF Listens
<1>4. CASE Deliver
  BY <1>4, DeliverListens
<1>5. CASE Sdl
  BY <1>5, SameListens DEF Sdl, SdlNewSession, SdlStartService, SdlRefuse, SdlEnd, SdlHandshake,
                           SdlRequest, SdlHeartbeatIn, Take, mobileVars
<1>6. CASE \/ UNCHANGED vars
           \/ \E s \in Sessions : SendHeartbeat(s)
           \/ \E id \in Ids : SdlHeartbeat(id)
  BY <1>6, SameListens DEF vars, SendHeartbeat, SdlHeartbeat, mobileVars
<1>. QED
  BY <1>1, <1>2, <1>3, <1>4, <1>5, <1>6 DEF Next

(* A message leaves the connection only when it is delivered.              *)
LEMMA OnlyDeliverTakes ==
  ASSUME TypeOK, Proper, [Next]_vars, Delivers
  PROVE  Deliver
<1>1. toMobile \in Seq(Message)
  BY TypeParts DEF WireTypes
<1>2. Len(toMobile') < Len(toMobile)
  BY <1>1 DEF Delivers
<1>3. ~UNCHANGED toMobile
  BY <1>1, <1>2
<1>4. ~Tells
  <2>. SUFFICES ASSUME NEW w \in Seq(Message), toMobile' = toMobile \o w PROVE FALSE
    BY DEF Tells
  <2>1. Len(toMobile \o w) = Len(toMobile) + Len(w) /\ Len(toMobile) \in Nat /\ Len(w) \in Nat
    BY <1>1, Joined
  <2>. QED
    BY <1>2, <2>1
<1>5. ASSUME NEW x \in Message PROVE toMobile' # Append(toMobile, x)
  BY <1>1, <1>2
<1>6. ASSUME Answers \/ Refuses \/ Closes \/ \E id \in Ids : Creates(id) \/ Pings(id) PROVE FALSE
  BY <1>4, <1>5, <1>6 DEF Answers, Refuses, Closes, Creates, Pings
<1>7. CASE Sdl
  BY <1>6, <1>7, SdlNewStep, SdlStartStep, SdlRefuseStep, SdlEndStep, SdlHandshakeStep,
     SdlRequestStep, SdlHeartbeatInStep DEF Sdl
<1>8. CASE \E id \in Ids : SdlHeartbeat(id)
  BY <1>6, <1>8, SdlHeartbeatStep
<1>9. CASE \E s \in Sessions : Script(s)
  BY <1>3, <1>9 DEF Script, Start, Stop, SendEncryptedRPC, StartHeartbeatCall,
                    StopHeartbeatCall, StartService, StopService, StartSecureService
<1>10. CASE \/ UNCHANGED vars \/ EndStep
            \/ \E s \in Sessions : SendHeartbeat(s)
            \/ \E e \in Collected : Expire(e)
  BY <1>3, <1>10 DEF vars, EndStep, SendHeartbeat, Expire
<1>. QED
  BY <1>7, <1>8, <1>9, <1>10 DEF Next

(* The delivery of a heartbeat finds the expectation of the session that   *)
(* has its id, and no other.                                               *)
LEMMA HeartbeatFinds ==
  ASSUME Orderly, Armed, Deliver, "answer" \in Flags, NEW s \in Sessions,
         Head(toMobile).type = "HEARTBEAT", Head(toMobile).id = sessionId[s],
         heartbeat[s].enabled
  PROVE  toSDL' = Append(toSDL, Beat("HEARTBEAT_ACK", sessionId[s]))
<1>. DEFINE m == Head(toMobile)
<1>1. TypeOK /\ sessionId[s] # 0
  BY DEF Orderly, Lives
<1>2. Comes(m)
  BY DEF Deliver, Comes
<1>3. m.type = "HEARTBEAT" /\ m.id = sessionId[s]
  OBVIOUS
<1>4. PICK b \in pool : b.s = s /\ b.kind = "beat"
  BY DEF Armed, Active, Hears
<1>5. Handlers(m) # {}
  <2>. HIDE DEF m
  <2>1. Matches(b, m)
    BY <1>3, <1>4 DEF Matches
  <2>2. m.type # "RESPONSE"
    BY <1>3
  <2>. QED
    BY <1>4, <2>1, <2>2 DEF Handlers
<1>6. PICK e \in Handlers(m) : Act(e, m)
  BY <1>5 DEF Deliver
<1>. HIDE DEF m
<1>7. Finds(e, m)
  BY <1>2, <1>6 DEF Handlers, Finds
<1>8. e.s \in Sessions /\ e.kind \in Kinds
  BY <1>1, <1>7, Found
<1>9. Matches(e, m)
  BY <1>7 DEF Finds
<1>10. e.kind = "beat" /\ sessionId[e.s] = m.id
  <2>1. CASE e.kind = "start"
    BY <1>3, <1>9, <2>1 DEF Matches
  <2>2. CASE e.kind = "end"
    BY <1>3, <1>9, <2>2 DEF Matches
  <2>3. CASE e.kind = "handshake"
    BY <1>3, <1>9, <2>3 DEF Matches
  <2>4. CASE e.kind = "beat"
    BY <1>3, <1>9, <2>4 DEF Matches
  <2>5. CASE e.kind = "beatAck"
    BY <1>3, <1>9, <2>5 DEF Matches
  <2>6. CASE e.kind = "response"
    BY <1>3, <1>9, <2>6 DEF Matches
  <2>. QED
    BY <1>8, <2>1, <2>2, <2>3, <2>4, <2>5, <2>6 DEF Kinds
<1>11. e.s = s
  BY <1>1, <1>3, <1>8, <1>10 DEF Orderly, Distinct
<1>12. OnHeartbeat(e)
  BY <1>6, <1>10 DEF Act
<1>. QED
  BY <1>11, <1>12 DEF OnHeartbeat

(* A heartbeat of SDL for a session whose monitor is on is answered, by    *)
(* that session, in the step that takes it: after any number of steps of   *)
(* the test, timeouts, and stops and starts of the heartbeat, as long as   *)
(* SDL refuses nothing and gives no id twice and the script uses no        *)
(* session again.                                                          *)
THEOREM AnswersHeartbeatCorrect ==
  ASSUME Faults \cap {"nack", "reuse", "restart", "stopped"} = {}
  PROVE  Spec => AnswersHeartbeat
<1>1. Init => Orderly /\ Armed
  <2>1. Init => Armed
    <3>1. ~Active(Idle)
      BY DEF Active, Idle
    <3>. QED
      BY <3>1 DEF Init, Armed, Awaits
  <2>. QED
    BY <2>1, OrderlyInit
<1>2. Orderly /\ Armed /\ [Next]_vars => (Orderly /\ Armed)'
  <2>1. Orderly => TypeOK /\ Proper
    BY DEF Orderly
  <2>. QED
    BY <2>1, OrderlyStep, NextListens, ArmedStep DEF Regular
<1>3. Orderly /\ Armed /\ [Next]_vars =>
        [\A s \in Sessions :
           /\ "answer" \in Flags
           /\ toMobile # <<>> /\ toMobile' = Tail(toMobile)
           /\ Head(toMobile).type = "HEARTBEAT" /\ Head(toMobile).id = sessionId[s]
           /\ heartbeat[s].enabled
           => toSDL' = Append(toSDL, Beat("HEARTBEAT_ACK", sessionId[s]))]_vars
  <2>. SUFFICES ASSUME Orderly, Armed, [Next]_vars, NEW s \in Sessions, "answer" \in Flags,
                       toMobile # <<>>, toMobile' = Tail(toMobile),
                       Head(toMobile).type = "HEARTBEAT", Head(toMobile).id = sessionId[s],
                       heartbeat[s].enabled
                PROVE  toSDL' = Append(toSDL, Beat("HEARTBEAT_ACK", sessionId[s]))
    OBVIOUS
  <2>1. Deliver
    BY OnlyDeliverTakes DEF Orderly, Delivers
  <2>. QED
    BY <2>1, HeartbeatFinds
<1>. QED
  BY <1>1, <1>2, <1>3, PTL DEF Spec, AnswersHeartbeat

-----------------------------------------------------------------------------
(* That a session and SDL agree                                            *)

(* What a session asks SDL for: a secure service, or the end of a service. *)
Keys == [id : Ids, kind : {"start", "end"}, svc : Services]
Requests(m, x) ==
  /\ m.id = x.id /\ m.svc = x.svc
  /\ IF x.kind = "start" THEN m.type = "START" /\ m.enc ELSE m.type = "END"
Grants(m, x) ==
  /\ m.id = x.id /\ m.svc = x.svc
  /\ IF x.kind = "start" THEN m.type = "START_ACK" /\ m.enc ELSE m.type = "END_ACK"

(* A request is on its way to SDL, waits there for the handshake, or its   *)
(* answer is on its way back; and the expectation of the answer.           *)
Asked(x) == \E i \in 1..Len(toSDL) : Requests(toSDL[i], x)
Waits(x) == x.kind = "start" /\ x.svc \in sdl[x.id].wait
Granted(x) == \E i \in 1..Len(toMobile) : Grants(toMobile[i], x)
Expected(e, s, x) == e.s = s /\ e.kind = x.kind /\ e.svc = x.svc /\ (e.kind = "start" => e.enc)
Unanswered(s, x) == \E e \in pool : Expected(e, s, x) /\ e.status = "none"

(* There is one expectation of an answer, and while a request is under way *)
(* it has no status.                                                       *)
Single ==
  /\ \A e \in pool : e.kind \in {"start", "end"} => e.cid = 0 /\ (e.kind = "end" => ~e.enc)
  /\ \A e, f \in pool : e.kind \in {"start", "end"} /\ Like(e, f) => e = f
Pending ==
  \A x \in Keys, s \in Sessions :
    sessionId[s] = x.id /\ (Asked(x) \/ Waits(x) \/ Granted(x)) => Unanswered(s, x)

(* The same thing is under way once.                                       *)
OnceAsked ==
  \A x \in Keys : \A i, j \in 1..Len(toSDL) : Requests(toSDL[i], x) /\ Requests(toSDL[j], x) => i = j
OnceGranted ==
  \A x \in Keys : \A i, j \in 1..Len(toMobile) :
    Grants(toMobile[i], x) /\ Grants(toMobile[j], x) => i = j
OncePlaced ==
  \A x \in Keys : ~(Asked(x) /\ Waits(x)) /\ ~(Asked(x) /\ Granted(x)) /\ ~(Waits(x) /\ Granted(x))

(* What a session will hold for secure when it has what is in transit.     *)
Revokes(m, id, svc) == m.type = "END_ACK" /\ m.id = id /\ m.svc \in {svc, RPC}
Confirms(m, id, svc) == m.type = "START_ACK" /\ m.enc /\ m.id = id /\ m.svc = svc
WillHold(s, id, svc) ==
  \/ /\ svc \in encryptedServices[s]
     /\ \A k \in 1..Len(toMobile) : ~Revokes(toMobile[k], id, svc)
  \/ \E i \in 1..Len(toMobile) :
       /\ Confirms(toMobile[i], id, svc)
       /\ \A k \in 1..Len(toMobile) : k > i => ~Revokes(toMobile[k], id, svc)
Agreeing ==
  \A s \in Sessions, svc \in Services :
    sessionId[s] # 0 => (svc \in sdl[sessionId[s]].secure <=> WillHold(s, sessionId[s], svc))

(* Nothing is secure without a session.                                    *)
Blank ==
  /\ \A id \in Ids : ~Owned(id) => sdl[id].secure = {} /\ sdl[id].wait = {}
  /\ \A s \in Sessions : sessionId[s] = 0 => encryptedServices[s] = {}

InTime == "timeout" \notin seen
Concord ==
  /\ Blank /\ Single
  /\ InTime => Pending /\ OnceAsked /\ OnceGranted /\ OncePlaced /\ Agreeing

-----------------------------------------------------------------------------
(* Requests and their answers                                              *)

LEMMA AcksOnce ==
  ASSUME NEW id, NEW W \in SUBSET Services
  PROVE  \A w \in {SetToSeq(Acks(id, W))} :
           /\ \A i, k \in 1..Len(w) : w[i] = w[k] => i = k
           /\ \A x \in Acks(id, W) : \E i \in 1..Len(w) : w[i] = x
<1>. DEFINE A == Acks(id, W)
            w == SetToSeq(A)
<1>1. IsFiniteSet(W)
  BY ServicesFinite, FS_Subset
<1>2. Cardinality(W) \in Nat /\ ExistsBijection(1..Cardinality(W), W)
  BY <1>1, FS_CardinalityType
<1>. DEFINE n == Cardinality(W)
<1>. HIDE DEF n
<1>3. n \in Nat /\ \E b : b \in Bijection(1..n, W)
  BY <1>2 DEF n, ExistsBijection
<1>4. PICK b : b \in Bijection(1..n, W)
  BY <1>3
<1>5. /\ b \in [1..n -> W]
      /\ \A i, k \in 1..n : b[i] = b[k] => i = k
      /\ \A v \in W : \E i \in 1..n : b[i] = v
  BY <1>4 DEF Bijection, Injection, Surjection, IsInjective
<1>. DEFINE g == [i \in 1..n |-> Frame("START_ACK", id, b[i], TRUE)]
<1>6. g \in [1..n -> A]
  BY <1>5 DEF Acks
<1>7. \A i, k \in 1..n : g[i] = g[k] => i = k
  BY <1>5 DEF Frame
<1>8. ASSUME NEW x \in A
      PROVE  \E i \in 1..n : g[i] = x
  <2>1. PICK v \in W : x = Frame("START_ACK", id, v, TRUE)
    BY DEF Acks
  <2>2. PICK i \in 1..n : b[i] = v
    BY <1>5
  <2>. QED
    BY <2>1, <2>2
<1>9. g \in Bijection(1..n, A)
  BY <1>6, <1>7, <1>8 DEF Bijection, Injection, Surjection, IsInjective
<1>. HIDE DEF A, g
<1>10. ExistsBijection(1..n, A)
  BY <1>9 DEF ExistsBijection
<1>11. Cardinality(A) = n /\ IsFiniteSet(A)
  BY <1>3, <1>10, FS_CountingElements, FS_Bijection, FS_Interval, <1>9
<1>12. \E f \in [1..Cardinality(A) -> A] : IsInjective(f)
  BY <1>6, <1>7, <1>11 DEF IsInjective
<1>13. w \in [1..Cardinality(A) -> A] /\ IsInjective(w)
  BY <1>12 DEF SetToSeq
<1>. HIDE DEF w
<1>14. w \in [1..n -> A] /\ \A i, k \in 1..n : w[i] = w[k] => i = k
  BY <1>11, <1>13 DEF IsInjective
<1>15. Len(w) = n
  BY <1>3, <1>14
<1>16. w \in Injection(1..n, A)
  BY <1>14 DEF Injection, IsInjective
<1>17. Cardinality(1..n) = n
  BY <1>3, FS_Interval
<1>18. w \in Surjection(1..n, A)
  BY <1>11, <1>16, <1>17, FS_Injection
<1>. QED
  BY <1>14, <1>15, <1>18 DEF Surjection, w, A

(* What is to SDL and to the mobile side after a step, as far as requests  *)
(* and answers are concerned: nothing new, and maybe the first is gone.    *)
NoneAsked(m) == m.type # "END" /\ ~(m.type = "START" /\ m.enc)
NoneGranted(m) == m.type # "END_ACK" /\ ~(m.type = "START_ACK" /\ m.enc)
Fewer(d) ==
  \A i \in 1..Len(toSDL') : \/ i + d \in 1..Len(toSDL) /\ toSDL'[i] = toSDL[i + d]
                            \/ NoneAsked(toSDL'[i])
FewerBack(d) ==
  \A i \in 1..Len(toMobile') : \/ i + d \in 1..Len(toMobile) /\ toMobile'[i] = toMobile[i + d]
                               \/ NoneGranted(toMobile'[i])

LEMMA NoneMeans ==
  /\ \A m : \A x \in Keys : NoneAsked(m) => ~Requests(m, x)
  /\ \A m : \A x \in Keys : NoneGranted(m) => ~Grants(m, x)
BY DEF NoneAsked, NoneGranted, Requests, Grants, Keys

LEMMA FewerAsked ==
  ASSUME NEW d \in {0, 1}, Fewer(d), OnceAsked
  PROVE  OnceAsked' /\ \A x \in Keys : Asked(x)' => Asked(x)
<1>1. ASSUME NEW x \in Keys, NEW i \in 1..Len(toSDL'), Requests(toSDL'[i], x)
      PROVE  i + d \in 1..Len(toSDL) /\ toSDL'[i] = toSDL[i + d]
  BY <1>1, NoneMeans DEF Fewer
<1>2. ASSUME NEW x \in Keys, Asked(x)'
      PROVE  Asked(x)
  <2>1. PICK i \in 1..Len(toSDL') : Requests(toSDL'[i], x)
    BY <1>2 DEF Asked
  <2>. QED
    BY <1>1, <2>1 DEF Asked
<1>3. ASSUME NEW x \in Keys, NEW i \in 1..Len(toSDL'), NEW j \in 1..Len(toSDL'),
             Requests(toSDL'[i], x), Requests(toSDL'[j], x)
      PROVE  i = j
  <2>1. i + d = j + d
    BY <1>1, <1>3 DEF OnceAsked
  <2>. QED
    BY <2>1
<1>. QED
  BY <1>2, <1>3 DEF OnceAsked

LEMMA FewerGranted ==
  ASSUME NEW d \in {0, 1}, FewerBack(d), OnceGranted
  PROVE  OnceGranted' /\ \A x \in Keys : Granted(x)' => Granted(x)
<1>1. ASSUME NEW x \in Keys, NEW i \in 1..Len(toMobile'), Grants(toMobile'[i], x)
      PROVE  i + d \in 1..Len(toMobile) /\ toMobile'[i] = toMobile[i + d]
  BY <1>1, NoneMeans DEF FewerBack
<1>2. ASSUME NEW x \in Keys, Granted(x)'
      PROVE  Granted(x)
  <2>1. PICK i \in 1..Len(toMobile') : Grants(toMobile'[i], x)
    BY <1>2 DEF Granted
  <2>. QED
    BY <1>1, <2>1 DEF Granted
<1>3. ASSUME NEW x \in Keys, NEW i \in 1..Len(toMobile'), NEW j \in 1..Len(toMobile'),
             Grants(toMobile'[i], x), Grants(toMobile'[j], x)
      PROVE  i = j
  <2>1. i + d = j + d
    BY <1>1, <1>3 DEF OnceGranted
  <2>. QED
    BY <2>1
<1>. QED
  BY <1>2, <1>3 DEF OnceGranted

(* A request goes forward, from the way to SDL over its wait to the answer.*)
Outstanding(x) == Asked(x) \/ Waits(x) \/ Granted(x)
Forward ==
  \A x \in Keys :
    /\ Asked(x)' => Asked(x)
    /\ Waits(x)' => Waits(x) \/ (Asked(x) /\ ~Asked(x)')
    /\ Granted(x)' => Granted(x) \/ ((Asked(x) \/ Waits(x)) /\ ~Asked(x)' /\ ~Waits(x)')
KeepsIds ==
  \A x \in Keys, s \in Sessions : sessionId'[s] = x.id /\ Outstanding(x) => sessionId[s] = x.id
KeepsUnanswered ==
  \A x \in Keys, s \in Sessions :
    sessionId[s] = x.id /\ Unanswered(s, x) /\ Outstanding(x)' => Unanswered(s, x)'

LEMMA LedgerForward ==
  ASSUME Pending, OncePlaced, Forward, KeepsIds, KeepsUnanswered
  PROVE  Pending' /\ OncePlaced'
<1>1. ASSUME NEW x \in Keys, Outstanding(x)'
      PROVE  Outstanding(x)
  BY <1>1 DEF Forward, Outstanding
<1>2. ASSUME NEW x \in Keys, NEW s \in Sessions, sessionId'[s] = x.id, Outstanding(x)'
      PROVE  Unanswered(s, x)'
  <2>1. Outstanding(x) /\ sessionId[s] = x.id
    BY <1>1, <1>2 DEF KeepsIds
  <2>2. Unanswered(s, x)
    BY <2>1 DEF Pending, Outstanding
  <2>. QED
    BY <1>2, <2>1, <2>2 DEF KeepsUnanswered
<1>3. Pending'
  BY <1>2 DEF Pending, Outstanding
<1>4. ASSUME NEW x \in Keys
      PROVE  /\ ~(Asked(x)' /\ Waits(x)') /\ ~(Asked(x)' /\ Granted(x)')
             /\ ~(Waits(x)' /\ Granted(x)')
  BY <1>4 DEF Forward, OncePlaced
<1>5. OncePlaced'
  BY <1>4 DEF OncePlaced
<1>. QED
  BY <1>3, <1>5

(* The session asks for something that is not under way.                   *)
LEMMA LedgerRequest ==
  ASSUME TypeOK, Distinct, Pending, OnceAsked, OncePlaced, NEW m \in Message, NEW y \in Keys,
         NEW t \in Sessions, sessionId[t] = y.id, Requests(m, y), toSDL' = Append(toSDL, m),
         \A e \in pool : ~Expected(e, t, y), Unanswered(t, y)', pool \subseteq pool',
         UNCHANGED <<sessionId, sdl, toMobile>>
  PROVE  Pending' /\ OnceAsked' /\ OncePlaced'
<1>1. ~Outstanding(y)
  BY DEF Pending, Outstanding, Unanswered
<1>2. y.id # 0 /\ y \in [id : Ids, kind : {"start", "end"}, svc : Services]
  BY SessionAssumption DEF Keys, Ids
<1>3. ASSUME NEW x \in Keys, Requests(m, x)
      PROVE  x = y
  <2>1. x.id = y.id /\ x.svc = y.svc /\ x.kind = y.kind
    BY <1>3 DEF Requests, Keys
  <2>. QED
    BY <2>1 DEF Keys
<1>4. \A i \in 1..Len(toSDL') :
           \/ i \in 1..Len(toSDL) /\ toSDL'[i] = toSDL[i]
           \/ i > Len(toSDL) /\ i = Len(toSDL) + 1 /\ toSDL'[i] = m
  BY SentWire
<1>5. ASSUME NEW x \in Keys
      PROVE  /\ Asked(x)' => Asked(x) \/ x = y
             /\ Waits(x)' <=> Waits(x)
             /\ Granted(x)' <=> Granted(x)
  <2>1. Asked(x)' => Asked(x) \/ x = y
    BY <1>3, <1>4 DEF Asked
  <2>. QED
    BY <2>1 DEF Waits, Granted
<1>6. OncePlaced'
  <2>1. ASSUME NEW x \in Keys
        PROVE  /\ ~(Asked(x)' /\ Waits(x)') /\ ~(Asked(x)' /\ Granted(x)')
               /\ ~(Waits(x)' /\ Granted(x)')
    BY <1>1, <1>5 DEF Outstanding, OncePlaced
  <2>. QED
    BY <2>1 DEF OncePlaced
<1>7. OnceAsked'
  <2>1. ASSUME NEW x \in Keys, NEW i \in 1..Len(toSDL'), NEW j \in 1..Len(toSDL'),
               Requests(toSDL'[i], x), Requests(toSDL'[j], x)
        PROVE  i = j
    <3>1. CASE i \in 1..Len(toSDL) /\ j \in 1..Len(toSDL) /\ toSDL'[i] = toSDL[i] /\ toSDL'[j] = toSDL[j]
      BY <2>1, <3>1 DEF OnceAsked
    <3>2. CASE toSDL'[i] = m \/ toSDL'[j] = m
      <4>1. x = y
        BY <1>3, <2>1, <3>2
      <4>2. \A k \in 1..Len(toSDL) : ~Requests(toSDL[k], x)
        BY <1>1, <4>1 DEF Outstanding, Asked
      <4>3. i = Len(toSDL) + 1 /\ j = Len(toSDL) + 1
        BY <1>4, <2>1, <4>2
      <4>. QED
        BY <4>3
    <3>. QED
      BY <1>4, <3>1, <3>2
  <2>. QED
    BY <2>1 DEF OnceAsked
<1>8. Pending'
  <2>1. ASSUME NEW x \in Keys, NEW s \in Sessions, sessionId'[s] = x.id, Outstanding(x)'
        PROVE  Unanswered(s, x)'
    <3>1. CASE x = y
      <4>1. s = t
        BY <1>2, <2>1, <3>1 DEF Distinct
      <4>. QED
        BY <3>1, <4>1
    <3>2. CASE x # y
      <4>1. Outstanding(x) /\ sessionId[s] = x.id
        BY <1>5, <2>1, <3>2 DEF Outstanding
      <4>2. Unanswered(s, x)
        BY <4>1 DEF Pending, Outstanding
      <4>. QED
        BY <4>2 DEF Unanswered
    <3>. QED
      BY <3>1, <3>2
  <2>. QED
    BY <2>1 DEF Pending, Outstanding
<1>. QED
  BY <1>6, <1>7, <1>8

(* What is appended without a word about the service changes nothing.      *)
LEMMA WillStay ==
  ASSUME TypeOK, NEW s \in Sessions, NEW id, NEW svc, NEW w \in Seq(Message),
         toMobile' = toMobile \o w, svc \in encryptedServices'[s] <=> svc \in encryptedServices[s],
         \A k \in 1..Len(w) : ~Revokes(w[k], id, svc) /\ ~Confirms(w[k], id, svc)
  PROVE  WillHold(s, id, svc)' <=> WillHold(s, id, svc)
<1>1. toMobile \in Seq(Message)
  BY TypeParts DEF WireTypes
<1>2. \A i \in 1..Len(toMobile) : i \in 1..Len(toMobile') /\ toMobile'[i] = toMobile[i]
  BY <1>1, Joined
<1>3. \A i \in 1..Len(toMobile') :
        \/ i \in 1..Len(toMobile) /\ toMobile'[i] = toMobile[i]
        \/ ~Revokes(toMobile'[i], id, svc) /\ ~Confirms(toMobile'[i], id, svc)
  <2>1. \A i \in 1..Len(toMobile \o w) :
              \/ i \in 1..Len(toMobile) /\ (toMobile \o w)[i] = toMobile[i]
              \/ i > Len(toMobile) /\ \E k \in 1..Len(w) : (toMobile \o w)[i] = w[k]
    BY <1>1, Joined
  <2>. QED
    BY <2>1
<1>4. (\A k \in 1..Len(toMobile') : ~Revokes(toMobile'[k], id, svc))
      <=> (\A k \in 1..Len(toMobile) : ~Revokes(toMobile[k], id, svc))
  BY <1>2, <1>3
<1>5. ASSUME NEW i \in 1..Len(toMobile), Confirms(toMobile[i], id, svc),
             \A k \in 1..Len(toMobile) : k > i => ~Revokes(toMobile[k], id, svc)
      PROVE  WillHold(s, id, svc)'
  <2>1. i \in 1..Len(toMobile') /\ Confirms(toMobile'[i], id, svc)
    BY <1>2, <1>5
  <2>2. \A k \in 1..Len(toMobile') : k > i => ~Revokes(toMobile'[k], id, svc)
    BY <1>3, <1>5
  <2>. QED
    BY <2>1, <2>2 DEF WillHold
<1>6. ASSUME NEW i \in 1..Len(toMobile'), Confirms(toMobile'[i], id, svc),
             \A k \in 1..Len(toMobile') : k > i => ~Revokes(toMobile'[k], id, svc)
      PROVE  WillHold(s, id, svc)
  <2>1. i \in 1..Len(toMobile) /\ Confirms(toMobile[i], id, svc)
    BY <1>3, <1>6
  <2>2. \A k \in 1..Len(toMobile) : k > i => ~Revokes(toMobile[k], id, svc)
    BY <1>2, <1>6
  <2>. QED
    BY <2>1, <2>2 DEF WillHold
<1>. QED
  BY <1>4, <1>5, <1>6 DEF WillHold

(* The last word counts.                                                   *)
LEMMA WillEnd ==
  ASSUME TypeOK, NEW s \in Sessions, NEW id, NEW svc, NEW m \in Message,
         toMobile' = Append(toMobile, m)
  PROVE  /\ Revokes(m, id, svc) => ~WillHold(s, id, svc)'
         /\ Confirms(m, id, svc) => WillHold(s, id, svc)'
<1>1. toMobile \in Seq(Message)
  BY TypeParts DEF WireTypes
<1>. DEFINE n == Len(toMobile) + 1
<1>2. n \in 1..Len(toMobile') /\ toMobile'[n] = m /\ \A k \in 1..Len(toMobile') : k > n => FALSE
  BY <1>1
<1>3. \A k \in 1..Len(toMobile') : k = n \/ n > k
  BY <1>1
<1>. HIDE DEF n
<1>4. ASSUME Revokes(m, id, svc) PROVE ~WillHold(s, id, svc)'
  <2>1. \A i \in 1..Len(toMobile') : Confirms(toMobile'[i], id, svc) => n > i
    BY <1>2, <1>3, <1>4 DEF Revokes, Confirms
  <2>. QED
    BY <1>2, <1>4, <2>1 DEF WillHold
<1>5. ASSUME Confirms(m, id, svc) PROVE WillHold(s, id, svc)'
  BY <1>2, <1>5 DEF WillHold
<1>. QED
  BY <1>4, <1>5

(* The session has got what came first.                                    *)
LEMMA WillTake ==
  ASSUME TypeOK, NEW s \in Sessions, NEW id, NEW svc, Delivers,
         Confirms(toMobile[1], id, svc) => svc \in encryptedServices'[s],
         Revokes(toMobile[1], id, svc) => svc \notin encryptedServices'[s],
         ~Confirms(toMobile[1], id, svc) /\ ~Revokes(toMobile[1], id, svc) =>
           (svc \in encryptedServices'[s] <=> svc \in encryptedServices[s])
  PROVE  WillHold(s, id, svc)' <=> WillHold(s, id, svc)
<1>1. /\ \A i \in 1..Len(toMobile') : i + 1 \in 1..Len(toMobile) /\ toMobile'[i] = toMobile[i + 1]
      /\ \A i \in 1..Len(toMobile) :
           i # 1 => i - 1 \in 1..Len(toMobile') /\ toMobile'[i - 1] = toMobile[i]
      /\ Len(toMobile) \in Nat /\ Len(toMobile') \in Nat /\ 1 \in 1..Len(toMobile)
  BY Tailed, TypeParts DEF WireTypes, Delivers
<1>. DEFINE R(k) == Revokes(toMobile[k], id, svc)
            C(k) == Confirms(toMobile[k], id, svc)
            n == Len(toMobile)
<1>2. ~(C(1) /\ R(1))
  BY DEF Revokes, Confirms
<1>3. WillHold(s, id, svc)' <=>
        \/ svc \in encryptedServices'[s] /\ \A k \in 2..n : ~R(k)
        \/ \E i \in 2..n : C(i) /\ \A k \in 2..n : k > i => ~R(k)
  <2>1. (\A k \in 1..Len(toMobile') : ~Revokes(toMobile'[k], id, svc)) <=> \A k \in 2..n : ~R(k)
    <3>1. \A k \in 2..n : k - 1 \in 1..Len(toMobile') /\ toMobile'[k - 1] = toMobile[k]
      BY <1>1
    <3>2. \A k \in 1..Len(toMobile') : k + 1 \in 2..n /\ toMobile'[k] = toMobile[k + 1]
      BY <1>1
    <3>. QED
      BY <3>1, <3>2
  <2>2. ASSUME NEW i \in 1..Len(toMobile'), Confirms(toMobile'[i], id, svc),
               \A k \in 1..Len(toMobile') : k > i => ~Revokes(toMobile'[k], id, svc)
        PROVE  \E j \in 2..n : C(j) /\ \A k \in 2..n : k > j => ~R(k)
    <3>1. i + 1 \in 2..n /\ C(i + 1)
      BY <1>1, <2>2
    <3>2. ASSUME NEW k \in 2..n, k > i + 1 PROVE ~R(k)
      <4>1. k - 1 \in 1..Len(toMobile') /\ toMobile'[k - 1] = toMobile[k] /\ k - 1 > i
        BY <1>1, <3>2
      <4>. QED
        BY <2>2, <4>1
    <3>. QED
      BY <3>1, <3>2
  <2>3. ASSUME NEW j \in 2..n, C(j), \A k \in 2..n : k > j => ~R(k)
        PROVE  \E i \in 1..Len(toMobile') :
                 /\ Confirms(toMobile'[i], id, svc)
                 /\ \A k \in 1..Len(toMobile') : k > i => ~Revokes(toMobile'[k], id, svc)
    <3>1. j - 1 \in 1..Len(toMobile') /\ Confirms(toMobile'[j - 1], id, svc)
      BY <1>1, <2>3
    <3>2. ASSUME NEW k \in 1..Len(toMobile'), k > j - 1
          PROVE  ~Revokes(toMobile'[k], id, svc)
      <4>1. k + 1 \in 2..n /\ toMobile'[k] = toMobile[k + 1] /\ k + 1 > j
        BY <1>1, <3>2
      <4>. QED
        BY <2>3, <4>1
    <3>. QED
      BY <3>1, <3>2
  <2>. QED
    BY <2>1, <2>2, <2>3 DEF WillHold
<1>4. WillHold(s, id, svc) <=>
        \/ svc \in encryptedServices[s] /\ \A k \in 1..n : ~R(k)
        \/ \E i \in 1..n : C(i) /\ \A k \in 1..n : k > i => ~R(k)
  BY DEF WillHold
<1>. HIDE DEF R, C
<1>5. /\ C(1) => svc \in encryptedServices'[s]
      /\ R(1) => svc \notin encryptedServices'[s]
      /\ ~C(1) /\ ~R(1) => (svc \in encryptedServices'[s] <=> svc \in encryptedServices[s])
  BY DEF R, C
<1>6. /\ (\A k \in 1..n : ~R(k)) <=> ~R(1) /\ \A k \in 2..n : ~R(k)
  <2>1. \A k \in 1..n : k = 1 \/ k \in 2..n
    BY <1>1
  <2>2. 1 \in 1..n /\ \A k \in 2..n : k \in 1..n
    BY <1>1
  <2>. QED
    BY <2>1, <2>2
<1>7. (\E i \in 1..n : C(i) /\ \A k \in 1..n : k > i => ~R(k)) <=>
        \/ C(1) /\ \A k \in 2..n : ~R(k)
        \/ \E i \in 2..n : C(i) /\ \A k \in 2..n : k > i => ~R(k)
  <2>1. \A i \in 1..n : i = 1 \/ i \in 2..n
    BY <1>1
  <2>2. 1 \in 1..n /\ (\A k \in 2..n : k \in 1..n /\ k > 1) /\ ~(1 > 1)
    BY <1>1
  <2>3. (\A k \in 1..n : k > 1 => ~R(k)) <=> \A k \in 2..n : ~R(k)
    BY <2>1, <2>2
  <2>4. \A i \in 2..n : (\A k \in 1..n : k > i => ~R(k)) <=> \A k \in 2..n : k > i => ~R(k)
    <3>1. \A i \in 2..n : ~(1 > i)
      BY <1>1
    <3>. QED
      BY <2>1, <2>2, <3>1
  <2>. QED
    BY <2>1, <2>2, <2>3, <2>4
<1>. QED
  BY <1>2, <1>3, <1>4, <1>5, <1>6, <1>7

(* Expectations come one of a kind, and stay so when one gets a status.    *)
Dated(e) == e.kind \in {"start", "end"}

LEMMA AddedSingle ==
  ASSUME TypeOK, Single, NEW E, E \subseteq Expectation, Added(E),
         \A e \in E : Dated(e) => e.cid = 0 /\ (e.kind = "end" => ~e.enc),
         \A e, f \in E : Dated(e) /\ Like(e, f) => e = f
  PROVE  /\ Single' /\ pool \subseteq pool' /\ E \subseteq pool'
         /\ \A e \in E, f \in pool : Dated(e) => ~Like(e, f)
<1>1. pool \subseteq Expectation
  BY TypeParts DEF PoolTypes
<1>2. /\ \A e \in E, f \in pool : SameCall(e, f) => e.kind = "handshake"
      /\ pool' = pool \cup E
  BY DEF Added
<1>3. ASSUME NEW e \in E, NEW f \in pool, Dated(e), Like(e, f)
      PROVE  FALSE
  <2>1. e.cid = 0 /\ f.cid = 0
    BY <1>3 DEF Single, Dated, Like
  <2>2. e \in Expectation /\ f \in Expectation
    BY <1>1
  <2>3. e = [f EXCEPT !.status = e.status, !.listed = e.listed]
    BY <1>3, <2>1, <2>2 DEF Expectation, Like
  <2>4. e.kind = "handshake"
    BY <1>2, <2>3 DEF SameCall
  <2>. QED
    BY <1>3, <2>4 DEF Dated
<1>4. \A e, f : Like(e, f) => Like(f, e) /\ (Dated(e) <=> Dated(f))
  BY DEF Like, Dated
<1>5. Single'
  <2>1. \A e \in pool' : e.kind \in {"start", "end"} => e.cid = 0 /\ (e.kind = "end" => ~e.enc)
    BY <1>2 DEF Single, Dated
  <2>2. \A e, f \in pool' : e.kind \in {"start", "end"} /\ Like(e, f) => e = f
    BY <1>2, <1>3, <1>4 DEF Single, Dated
  <2>. QED
    BY <2>1, <2>2 DEF Single
<1>. QED
  BY <1>2, <1>3, <1>5

LEMMA ReplacedSingle ==
  ASSUME Single, NEW e \in pool, NEW r, r.cid = e.cid, Like(r, e), NEW N,
         \A f \in N : ~Dated(f), pool' \subseteq ((pool \ {e}) \cup {r}) \cup N
  PROVE  Single'
<1>1. /\ \A f \in pool : Dated(f) => f.cid = 0 /\ (f.kind = "end" => ~f.enc)
      /\ \A f, g \in pool : Dated(f) /\ Like(f, g) => f = g
  BY DEF Single, Dated
<1>2. \A f, g \in {r} \cup pool \cup pool' : Like(f, g) => Dated(f) = Dated(g)
  BY DEF Like, Dated
<1>3. r.kind = e.kind /\ r.enc = e.enc /\ r.s = e.s /\ r.svc = e.svc
  BY DEF Like
<1>4. \A f \in pool' : Dated(f) => f.cid = 0 /\ (f.kind = "end" => ~f.enc)
  BY <1>1, <1>3 DEF Dated
<1>5. ASSUME NEW f \in pool', NEW g \in pool', Dated(f), Like(f, g)
      PROVE  f = g
  <2>1. Dated(g)
    BY <1>2, <1>5
  <2>2. f \in (pool \ {e}) \cup {r} /\ g \in (pool \ {e}) \cup {r}
    BY <1>5, <2>1
  <2>3. CASE f = r /\ g # r
    <3>1. Like(e, g) /\ Dated(e) /\ g \in pool /\ g # e
      BY <1>3, <1>5, <2>2, <2>3 DEF Like, Dated
    <3>. QED
      BY <1>1, <3>1
  <2>4. CASE f # r /\ g = r
    <3>1. Like(f, e) /\ f \in pool /\ f # e
      BY <1>3, <1>5, <2>2, <2>4 DEF Like
    <3>. QED
      BY <1>1, <1>5, <3>1
  <2>5. CASE f # r /\ g # r
    BY <1>1, <1>5, <2>2, <2>5
  <2>. QED
    BY <2>3, <2>4, <2>5
<1>. QED
  BY <1>4, <1>5 DEF Single, Dated

-----------------------------------------------------------------------------
(* The script and the timer                                                *)

Ledger == Pending /\ OnceAsked /\ OnceGranted /\ OncePlaced /\ Agreeing

LEMMA ConcordIs == Concord <=> Blank /\ Single /\ (InTime => Ledger)
BY DEF Concord, Ledger

LEMMA SameBack ==
  ASSUME TypeOK, UNCHANGED toMobile
  PROVE  FewerBack(0)
<1>1. toMobile \in Seq(Message)
  BY TypeParts DEF WireTypes
<1>2. \A i \in 1..Len(toMobile') : i + 0 = i
  BY <1>1
<1>. QED
  BY <1>2 DEF FewerBack

(* Nothing is asked for.                                                   *)
LEMMA QuietConcord ==
  ASSUME TypeOK, Concord, UNCHANGED <<sessionId, encryptedServices, sdl, toMobile>>, Fewer(0),
         Single', InTime' => InTime /\ KeepsUnanswered
  PROVE  Concord'
<1>1. Blank'
  BY DEF Concord, Blank, Owned
<1>2. ASSUME InTime' PROVE Ledger'
  <2>1. Ledger /\ KeepsUnanswered
    BY <1>2 DEF Concord, Ledger
  <2>2. OnceAsked' /\ \A x \in Keys : Asked(x)' => Asked(x)
    BY <2>1, FewerAsked DEF Ledger
  <2>3. OnceGranted' /\ \A x \in Keys : Granted(x)' => Granted(x)
    BY <2>1, FewerGranted, SameBack DEF Ledger
  <2>4. \A x \in Keys : Waits(x)' => Waits(x)
    BY DEF Waits
  <2>5. Forward
    BY <2>2, <2>3, <2>4 DEF Forward
  <2>6. KeepsIds
    BY DEF KeepsIds
  <2>7. Pending' /\ OncePlaced'
    BY <2>1, <2>5, <2>6, LedgerForward DEF Ledger
  <2>8. Agreeing'
    BY <2>1 DEF Ledger, Agreeing, WillHold
  <2>. QED
    BY <2>2, <2>3, <2>7, <2>8 DEF Ledger
<1>. QED
  BY <1>1, <1>2 DEF Concord, Ledger

(* A session asks for a secure service, or for the end of one.             *)
LEMMA RequestConcord ==
  ASSUME TypeOK, Distinct, Concord, UNCHANGED <<sessionId, encryptedServices, sdl, toMobile>>,
         NEW m \in Message, NEW y \in Keys, NEW t \in Sessions, sessionId[t] = y.id,
         Requests(m, y), toSDL' = Append(toSDL, m), \A e \in pool : ~Expected(e, t, y),
         Unanswered(t, y)', pool \subseteq pool', Single', InTime' => InTime
  PROVE  Concord'
<1>1. Blank'
  BY DEF Concord, Blank, Owned
<1>2. ASSUME InTime' PROVE Ledger'
  <2>1. Ledger
    BY <1>2 DEF Concord, Ledger
  <2>2. Pending' /\ OnceAsked' /\ OncePlaced'
    BY <2>1, LedgerRequest DEF Ledger
  <2>3. OnceGranted'
    BY <2>1 DEF Ledger, OnceGranted
  <2>4. Agreeing'
    BY <2>1 DEF Ledger, Agreeing, WillHold
  <2>. QED
    BY <2>2, <2>3, <2>4 DEF Ledger
<1>. QED
  BY <1>1, <1>2 DEF Concord, Ledger

LEMMA OddTime ==
  ASSUME NEW f, NEW c, Odd(f, c)
  PROVE  InTime' => InTime
BY DEF Odd, InTime

LEMMA SameSent == ASSUME TypeOK, UNCHANGED toSDL PROVE Fewer(0)
<1>1. toSDL \in Seq(Message)
  BY TypeParts DEF WireTypes
<1>2. \A i \in 1..Len(toSDL') : i + 0 = i
  BY <1>1
<1>. QED
  BY <1>2 DEF Fewer

LEMMA SentQuiet ==
  ASSUME TypeOK, NEW m \in Message, toSDL' = Append(toSDL, m), NoneAsked(m)
  PROVE  Fewer(0)
<1>1. \A i \in 1..Len(toSDL') : \/ i \in 1..Len(toSDL) /\ toSDL'[i] = toSDL[i]
                                \/ i > Len(toSDL) /\ i = Len(toSDL) + 1 /\ toSDL'[i] = m
  BY SentWire
<1>2. \A i \in 1..Len(toSDL) : i + 0 = i
  BY TypeParts DEF WireTypes
<1>. QED
  BY <1>1, <1>2 DEF Fewer

LEMMA SentAllQuiet ==
  ASSUME TypeOK, NEW w \in Seq(Message), toSDL' = toSDL \o w,
         \A k \in 1..Len(w) : NoneAsked(w[k])
  PROVE  Fewer(0)
<1>1. toSDL \in Seq(Message)
  BY TypeParts DEF WireTypes
<1>2. \A i \in 1..Len(toSDL \o w) :
        \/ i \in 1..Len(toSDL) /\ (toSDL \o w)[i] = toSDL[i]
        \/ i > Len(toSDL) /\ \E k \in 1..Len(w) : (toSDL \o w)[i] = w[k]
  <2>1. SplitAt(toSDL, w)
    BY <1>1, JoinedSplit
  <2>. QED
    BY <2>1 DEF SplitAt
<1>3. \A i \in 1..Len(toSDL) : i + 0 = i
  BY <1>1
<1>. QED
  BY <1>2, <1>3 DEF Fewer

LEMMA MoreUnanswered ==
  ASSUME pool \subseteq pool'
  PROVE  KeepsUnanswered
BY DEF KeepsUnanswered, Unanswered

LEMMA StartConcord ==
  ASSUME Orderly, Concord, NEW s \in Sessions, Start(s)
  PROVE  Concord'
<1>. DEFINE m == Frame("START", sessionId[s], RPC, FALSE)
            e == Expect(s, "start", RPC, FALSE, 0)
<1>1. TypeOK /\ sessionId[s] \in 0..MaxId /\ Single
  BY TypeParts DEF Orderly, IdTypes, Concord
<1>2. Odd("restart", uses[s] # 0) /\ Added({e}) /\ toSDL' = Append(toSDL, m)
      /\ UNCHANGED <<sessionId, encryptedServices, sdl, toMobile>>
  BY DEF Start, Send, idVars, securityVars
<1>3. m \in Message /\ NoneAsked(m)
  <2>1. "START" \in MessageTypes /\ RPC \in Named
    BY DEF MessageTypes, Named, Services
  <2>2. m.type = "START" /\ m.enc = FALSE
    BY DEF Frame
  <2>. HIDE DEF m
  <2>3. NoneAsked(m)
    BY <2>2 DEF NoneAsked
  <2>. QED
    BY <1>1, <2>1, <2>3, FrameType DEF m
<1>4. e \in Expectation /\ e.kind = "start" /\ e.cid = 0
  BY DEF Expect, Expectation, Services
<1>. HIDE DEF m, e
<1>5. Single' /\ pool \subseteq pool'
  <2>. DEFINE E == {e}
  <2>1. /\ E \subseteq Expectation /\ Added(E)
        /\ \A f \in E : Dated(f) => f.cid = 0 /\ (f.kind = "end" => ~f.enc)
        /\ \A f, g \in E : Dated(f) /\ Like(f, g) => f = g
    BY <1>2, <1>4
  <2>. HIDE DEF E
  <2>. QED
    BY <1>1, <2>1, AddedSingle
<1>. QED
  BY <1>1, <1>2, <1>3, <1>5, SentQuiet, OddTime, MoreUnanswered, QuietConcord

LEMMA StartServiceConcord ==
  ASSUME Orderly, Concord, NEW s \in Sessions, NEW svc \in Streams, StartService(s, svc)
  PROVE  Concord'
<1>. DEFINE m == Frame("START", sessionId[s], svc, FALSE)
            e == Expect(s, "start", svc, FALSE, 0)
<1>1. TypeOK /\ sessionId[s] \in 0..MaxId /\ Single
  BY TypeParts DEF Orderly, IdTypes, Concord
<1>2. Odd("stopped", Stopped(s)) /\ Added({e}) /\ toSDL' = Append(toSDL, m)
      /\ UNCHANGED <<sessionId, encryptedServices, sdl, toMobile>>
  BY DEF StartService, Send, idVars, securityVars
<1>3. m \in Message /\ NoneAsked(m)
  <2>1. "START" \in MessageTypes /\ svc \in Named
    BY DEF MessageTypes, Named, Services
  <2>2. m.type = "START" /\ m.enc = FALSE
    BY DEF Frame
  <2>. HIDE DEF m
  <2>3. NoneAsked(m)
    BY <2>2 DEF NoneAsked
  <2>. QED
    BY <1>1, <2>1, <2>3, FrameType DEF m
<1>4. e \in Expectation /\ e.kind = "start" /\ e.cid = 0
  BY DEF Expect, Expectation, Services
<1>. HIDE DEF m, e
<1>5. Single' /\ pool \subseteq pool'
  <2>. DEFINE E == {e}
  <2>1. /\ E \subseteq Expectation /\ Added(E)
        /\ \A f \in E : Dated(f) => f.cid = 0 /\ (f.kind = "end" => ~f.enc)
        /\ \A f, g \in E : Dated(f) /\ Like(f, g) => f = g
    BY <1>2, <1>4
  <2>. HIDE DEF E
  <2>. QED
    BY <1>1, <2>1, AddedSingle
<1>. QED
  BY <1>1, <1>2, <1>3, <1>5, SentQuiet, OddTime, MoreUnanswered, QuietConcord

(* Stop and StopService ask for an end.                                    *)
LEMMA EndingConcord ==
  ASSUME Orderly, Concord, NEW s \in Sessions, NEW svc \in Services, sessionId[s] # 0,
         Added({Expect(s, "end", svc, FALSE, 0)}),
         toSDL' = Append(toSDL, Frame("END", sessionId[s], svc, FALSE)),
         UNCHANGED <<sessionId, encryptedServices, sdl, toMobile>>, InTime' => InTime
  PROVE  Concord'
<1>. DEFINE f0 == Frame("END", sessionId[s], svc, FALSE)
            e0 == Expect(s, "end", svc, FALSE, 0)
            y0 == [id |-> sessionId[s], kind |-> "end", svc |-> svc]
<1>1. TypeOK /\ Distinct /\ sessionId[s] \in Ids /\ Single /\ sessionId[s] \in 0..MaxId
  BY TypeParts, SessionAssumption DEF Orderly, IdTypes, Concord, Ids
<1>2. f0 \in Message /\ f0.type = "END" /\ f0.id = sessionId[s] /\ f0.svc = svc
  <2>1. "END" \in MessageTypes /\ svc \in Named
    BY DEF MessageTypes, Named
  <2>. QED
    BY <1>1, <2>1, FrameType DEF Frame
<1>3. e0 \in Expectation /\ e0.kind = "end" /\ e0.cid = 0 /\ e0.enc = FALSE /\ e0.status = "none"
      /\ e0.s = s /\ e0.svc = svc
  BY DEF Expect, Expectation
<1>4. y0 \in Keys /\ y0.id = sessionId[s] /\ y0.kind = "end" /\ y0.svc = svc
  BY <1>1 DEF Keys
<1>. HIDE DEF f0, e0, y0
<1>5. PICK m \in Message : m.type = "END" /\ m.id = sessionId[s] /\ m.svc = svc
                           /\ toSDL' = Append(toSDL, m)
  BY <1>2 DEF f0
<1>6. PICK e \in Expectation : /\ e.kind = "end" /\ e.cid = 0 /\ e.enc = FALSE
                               /\ e.status = "none" /\ e.s = s /\ e.svc = svc /\ Added({e})
  BY <1>3 DEF e0
<1>7. PICK y \in Keys : y.id = sessionId[s] /\ y.kind = "end" /\ y.svc = svc
  BY <1>4
<1>8. Requests(m, y)
  BY <1>5, <1>7 DEF Requests
<1>9. Single' /\ pool \subseteq pool' /\ e \in pool' /\ \A f \in pool : ~Like(e, f)
  <2>. DEFINE E == {e}
  <2>1. /\ E \subseteq Expectation /\ Added(E) /\ e \in E /\ Dated(e)
        /\ \A f \in E : Dated(f) => f.cid = 0 /\ (f.kind = "end" => ~f.enc)
        /\ \A f, g \in E : Dated(f) /\ Like(f, g) => f = g
    BY <1>6 DEF Dated
  <2>. HIDE DEF E
  <2>. QED
    BY <1>1, <2>1, AddedSingle
<1>10. \A f \in pool : ~Expected(f, s, y)
  <2>1. ASSUME NEW f \in pool, Expected(f, s, y) PROVE FALSE
    <3>1. f.kind = "end" /\ f.s = s /\ f.svc = svc /\ ~f.enc /\ f \in Expectation
      BY <1>1, <1>7, <2>1, TypeParts DEF Expected, Single, PoolTypes
    <3>2. f.enc \in BOOLEAN
      BY <3>1 DEF Expectation
    <3>3. Like(e, f)
      BY <1>6, <3>1, <3>2 DEF Like
    <3>. QED
      BY <1>9, <3>3
  <2>. QED
    BY <2>1
<1>11. Unanswered(s, y)'
  <2>1. Expected(e, s, y)
    BY <1>6, <1>7 DEF Expected
  <2>. QED
    BY <1>6, <1>9, <2>1 DEF Unanswered
<1>. QED
  BY <1>1, <1>5, <1>7, <1>8, <1>9, <1>10, <1>11, RequestConcord

LEMMA StopConcord ==
  ASSUME Orderly, Concord, NEW s \in Sessions, Stop(s)
  PROVE  Concord'
<1>1. /\ Odd("restart", uses[s] # 1) /\ hashCode[s]
      /\ Added({Expect(s, "end", RPC, FALSE, 0)})
      /\ toSDL' = Append(toSDL, Frame("END", sessionId[s], RPC, FALSE))
      /\ UNCHANGED <<sessionId, encryptedServices, sdl, toMobile>>
  BY DEF Stop, idVars, securityVars
<1>2. sessionId[s] # 0 /\ RPC \in Services
  BY <1>1 DEF Orderly, Lives, Services
<1>. QED
  BY <1>1, <1>2, OddTime, EndingConcord

LEMMA StopServiceConcord ==
  ASSUME Orderly, Concord, NEW s \in Sessions, NEW svc \in Streams, StopService(s, svc)
  PROVE  Concord'
<1>1. /\ Odd("stopped", Stopped(s)) /\ hashCode[s]
      /\ Added({Expect(s, "end", svc, FALSE, 0)})
      /\ toSDL' = Append(toSDL, Frame("END", sessionId[s], svc, FALSE))
      /\ UNCHANGED <<sessionId, encryptedServices, sdl, toMobile>>
  BY DEF StopService, Send, idVars, securityVars
<1>2. sessionId[s] # 0 /\ svc \in Services
  BY <1>1 DEF Orderly, Lives, Services
<1>. QED
  BY <1>1, <1>2, OddTime, EndingConcord

LEMMA StartSecureConcord ==
  ASSUME Orderly, Concord, NEW s \in Sessions, NEW svc \in Services, StartSecureService(s, svc)
  PROVE  Concord'
<1>. DEFINE f0 == Frame("START", sessionId[s], svc, TRUE)
            e0 == Expect(s, "start", svc, TRUE, 0)
            h0 == Expect(s, "handshake", svc, FALSE, 0)
            y0 == [id |-> sessionId[s], kind |-> "start", svc |-> svc]
<1>1. /\ Added({e0}) \/ Added({e0, h0})
      /\ toSDL' = Append(toSDL, f0) /\ sessionId[s] # 0
      /\ UNCHANGED <<sessionId, encryptedServices, sdl, toMobile>>
  BY DEF StartSecureService, Send, idVars
<1>2. InTime' => InTime
  BY DEF StartSecureService, InTime
<1>3. TypeOK /\ Distinct /\ sessionId[s] \in Ids /\ Single /\ sessionId[s] \in 0..MaxId
  BY <1>1, TypeParts, SessionAssumption DEF Orderly, IdTypes, Concord, Ids
<1>4. f0 \in Message /\ f0.type = "START" /\ f0.id = sessionId[s] /\ f0.svc = svc /\ f0.enc = TRUE
  <2>1. "START" \in MessageTypes /\ svc \in Named
    BY DEF MessageTypes, Named
  <2>. QED
    BY <1>3, <2>1, FrameType DEF Frame
<1>5. /\ e0 \in Expectation /\ e0.kind = "start" /\ e0.cid = 0 /\ e0.enc = TRUE
      /\ e0.status = "none" /\ e0.s = s /\ e0.svc = svc
      /\ h0 \in Expectation /\ h0.kind = "handshake"
  BY DEF Expect, Expectation
<1>6. y0 \in Keys /\ y0.id = sessionId[s] /\ y0.kind = "start" /\ y0.svc = svc
  BY <1>3 DEF Keys
<1>. HIDE DEF f0, e0, h0, y0
<1>7. PICK m \in Message : /\ m.type = "START" /\ m.id = sessionId[s] /\ m.svc = svc /\ m.enc = TRUE
                           /\ toSDL' = Append(toSDL, m)
  BY <1>1, <1>4
<1>8. PICK e \in Expectation, h \in Expectation :
        /\ e.kind = "start" /\ e.cid = 0 /\ e.enc = TRUE /\ e.status = "none"
        /\ e.s = s /\ e.svc = svc /\ h.kind = "handshake" /\ (Added({e}) \/ Added({e, h}))
  BY <1>1, <1>5
<1>9. PICK y \in Keys : y.id = sessionId[s] /\ y.kind = "start" /\ y.svc = svc
  BY <1>6
<1>10. Requests(m, y)
  BY <1>7, <1>9 DEF Requests
<1>11. PICK E \in {{e}, {e, h}} : Added(E)
  BY <1>8
<1>12. Single' /\ pool \subseteq pool' /\ e \in pool' /\ \A f \in pool : ~Like(e, f)
  <2>1. E \subseteq Expectation /\ e \in E /\ Dated(e) /\ \A f \in E : Dated(f) => f = e
    BY <1>8, <1>11 DEF Dated
  <2>2. \A f \in E : Dated(f) => f.cid = 0 /\ (f.kind = "end" => ~f.enc)
    BY <1>8, <2>1
  <2>3. \A f, g \in E : Dated(f) /\ Like(f, g) => f = g
    BY <2>1 DEF Like, Dated
  <2>. QED
    BY <1>3, <1>11, <2>1, <2>2, <2>3, AddedSingle
<1>13. \A f \in pool : ~Expected(f, s, y)
  <2>1. ASSUME NEW f \in pool, Expected(f, s, y) PROVE FALSE
    <3>1. f.kind = "start" /\ f.s = s /\ f.svc = svc /\ f.enc /\ f \in Expectation
      BY <1>3, <1>9, <2>1, TypeParts DEF Expected, PoolTypes
    <3>2. f.enc = TRUE
      BY <3>1 DEF Expectation
    <3>3. Like(e, f)
      BY <1>8, <3>1, <3>2 DEF Like
    <3>. QED
      BY <1>12, <3>3
  <2>. QED
    BY <2>1
<1>14. Unanswered(s, y)'
  <2>1. Expected(e, s, y)
    BY <1>8, <1>9 DEF Expected
  <2>. QED
    BY <1>8, <1>12, <2>1 DEF Unanswered
<1>. QED
  BY <1>1, <1>2, <1>3, <1>7, <1>9, <1>10, <1>12, <1>13, <1>14, RequestConcord

(* Only expectations of other kinds come in.                               *)
LEMMA MoreSingle ==
  ASSUME Single, NEW N, \A f \in N : ~Dated(f), pool' = pool \cup N
  PROVE  Single'
<1>1. /\ \A e \in pool : Dated(e) => e.cid = 0 /\ (e.kind = "end" => ~e.enc)
      /\ \A e, f \in pool : Dated(e) /\ Like(e, f) => e = f
  BY DEF Single, Dated
<1>2. \A e, f \in pool' : Like(e, f) => (Dated(e) <=> Dated(f))
  BY DEF Like, Dated
<1>3. \A e \in pool' : Dated(e) => e.cid = 0 /\ (e.kind = "end" => ~e.enc)
  BY <1>1
<1>4. \A e, f \in pool' : Dated(e) /\ Like(e, f) => e = f
  BY <1>1, <1>2
<1>. QED
  BY <1>3, <1>4 DEF Single, Dated

LEMMA TalkConcord ==
  ASSUME TypeOK, Concord, UNCHANGED <<sessionId, encryptedServices, sdl, toMobile>>, Fewer(0),
         NEW N, \A f \in N : ~Dated(f), pool' = pool \cup N, InTime' => InTime
  PROVE  Concord'
<1>1. Single'
  BY MoreSingle DEF Concord
<1>. QED
  BY <1>1, MoreUnanswered, QuietConcord

LEMMA EncryptedConcord ==
  ASSUME Orderly, Concord, NEW s \in Sessions, SendEncryptedRPC(s)
  PROVE  Concord'
<1>. DEFINE cid == correlationId[s] + 1
            m == Call("REQUEST", sessionId[s], TRUE, cid, TRUE)
            e == Expect(s, "response", RPC, TRUE, cid)
<1>1. TypeOK /\ IdTypes
  BY TypeParts DEF Orderly
<1>2. /\ Odd("stopped", Stopped(s))
      /\ (Added({e}) /\ Send(s, m)) \/ UNCHANGED <<pool, toSDL>>
      /\ UNCHANGED <<sessionId, encryptedServices, sdl, toMobile>>
  BY DEF SendEncryptedRPC, idVars, securityVars
<1>3. sessionId[s] \in 0..MaxId /\ "REQUEST" \in MessageTypes /\ cid \in Nat
  BY <1>1 DEF IdTypes, MessageTypes
<1>. HIDE DEF cid
<1>4. m \in Message /\ m.type = "REQUEST"
  BY <1>3, CallType DEF Call
<1>5. e.kind = "response"
  BY DEF Expect
<1>. HIDE DEF m, e
<1>6. NoneAsked(m) /\ ~Dated(e)
  BY <1>4, <1>5 DEF NoneAsked, Dated
<1>7. CASE Added({e}) /\ Send(s, m)
  <2>. DEFINE N == {e}
  <2>1. (\A f \in N : ~Dated(f)) /\ pool' = pool \cup N /\ toSDL' = Append(toSDL, m)
    BY <1>6, <1>7 DEF Added, Send
  <2>. HIDE DEF N
  <2>. QED
    BY <1>1, <1>2, <1>4, <1>6, <2>1, SentQuiet, OddTime, TalkConcord
<1>8. CASE UNCHANGED <<pool, toSDL>>
  <2>. DEFINE N == {}
  <2>1. (\A f \in N : ~Dated(f)) /\ pool' = pool \cup N
    BY <1>8
  <2>. HIDE DEF N
  <2>. QED
    BY <1>1, <1>2, <1>8, <2>1, SameSent, OddTime, TalkConcord
<1>. QED
  BY <1>2, <1>7, <1>8

LEMMA StartHeartbeatConcord ==
  ASSUME Orderly, Concord, NEW s \in Sessions, StartHeartbeatCall(s)
  PROVE  Concord'
<1>. DEFINE h == heartbeat[s]
            w == FirstBeat(h, sessionId[s])
            E == BeatExpectations(s, h)
            b == Beat("HEARTBEAT", sessionId[s])
<1>1. TypeOK /\ h \in Monitor /\ sessionId[s] \in 0..MaxId
  BY TypeParts DEF Orderly, BeatTypes, IdTypes
<1>2. /\ Odd("restart", uses[s] # 1) /\ toSDL' = toSDL \o w /\ pool' = pool \cup E
      /\ UNCHANGED <<sessionId, encryptedServices, sdl, toMobile>>
  BY DEF StartHeartbeatCall, idVars, securityVars
<1>3. /\ w \in Seq(Message) /\ \A k \in 1..Len(w) : w[k] = b
      /\ \A e \in E : e.kind \in {"beat", "beatAck"}
  BY <1>1, BeatForms
<1>4. b.type = "HEARTBEAT"
  BY DEF Beat, Frame
<1>. HIDE DEF h, w, E, b
<1>5. NoneAsked(b) /\ \A e \in E : ~Dated(e)
  BY <1>3, <1>4 DEF NoneAsked, Dated
<1>6. Fewer(0)
  BY <1>1, <1>2, <1>3, <1>5, SentAllQuiet
<1>. QED
  BY <1>1, <1>2, <1>5, <1>6, OddTime, TalkConcord

LEMMA BeatsConcord ==
  ASSUME Orderly, Concord, NEW s \in Sessions, StopHeartbeatCall(s) \/ SendHeartbeat(s)
  PROVE  Concord'
<1>. DEFINE m == Beat("HEARTBEAT", sessionId[s])
            N == {}
<1>1. TypeOK /\ sessionId[s] \in 0..MaxId /\ "HEARTBEAT" \in MessageTypes
  BY TypeParts DEF Orderly, IdTypes, MessageTypes
<1>2. /\ UNCHANGED toSDL \/ toSDL' = Append(toSDL, m)
      /\ UNCHANGED <<sessionId, encryptedServices, sdl, toMobile, pool, seen>>
  BY DEF StopHeartbeatCall, SendHeartbeat, idVars, securityVars
<1>3. m \in Message /\ m.type = "HEARTBEAT"
  BY <1>1, BeatType DEF Beat, Frame
<1>. HIDE DEF m
<1>4. NoneAsked(m)
  BY <1>3 DEF NoneAsked
<1>5. Fewer(0)
  BY <1>1, <1>2, <1>3, <1>4, SameSent, SentQuiet
<1>6. (\A f \in N : ~Dated(f)) /\ pool' = pool \cup N /\ (InTime' => InTime)
  BY <1>2 DEF InTime
<1>. HIDE DEF N
<1>. QED
  BY <1>1, <1>2, <1>5, <1>6, TalkConcord

LEMMA ExpireConcord ==
  ASSUME Orderly, Concord, NEW e \in Collected, Expire(e)
  PROVE  Concord'
<1>. DEFINE r == [e EXCEPT !.status = "FAILED"]
            N == {}
<1>1. TypeOK /\ Single /\ e \in pool /\ e \in Expectation
  BY TypeParts DEF Orderly, Concord, Collected, PoolTypes
<1>2. /\ pool' = (pool \ {e}) \cup {r} /\ seen' = seen \cup {"timeout"}
      /\ UNCHANGED <<sessionId, encryptedServices, sdl, toMobile, toSDL>>
  BY DEF Expire, Odd, idVars, securityVars
<1>3. r.cid = e.cid /\ Like(r, e)
  BY <1>1 DEF Expectation, Like
<1>. HIDE DEF r
<1>4. (\A f \in N : ~Dated(f)) /\ pool' \subseteq ((pool \ {e}) \cup {r}) \cup N
  BY <1>2
<1>. HIDE DEF N
<1>5. Single'
  BY <1>1, <1>3, <1>4, ReplacedSingle
<1>6. ~InTime'
  BY <1>2 DEF InTime
<1>. QED
  BY <1>1, <1>2, <1>5, <1>6, SameSent, QuietConcord

LEMMA EndStepConcord ==
  ASSUME Orderly, Concord, EndStep
  PROVE  Concord'
<1>1. TypeOK /\ Single
  BY DEF Orderly, Concord
<1>2. /\ \A e \in Collected : e.status # "none"
      /\ pool' = pool \ Collected
      /\ UNCHANGED <<sessionId, encryptedServices, sdl, toMobile, toSDL, seen>>
  BY DEF EndStep, idVars, securityVars
<1>3. Single'
  BY <1>1, <1>2 DEF Single
<1>4. KeepsUnanswered
  BY <1>2 DEF KeepsUnanswered, Unanswered
<1>. QED
  BY <1>1, <1>2, <1>3, <1>4, SameSent, QuietConcord DEF InTime

-----------------------------------------------------------------------------
(* A message of SDL comes in                                               *)

(* What a session holds for secure follows the message.                    *)
Obeys(s, id, svc) ==
  /\ Confirms(First, id, svc) => svc \in encryptedServices'[s]
  /\ Revokes(First, id, svc) => svc \notin encryptedServices'[s]
  /\ ~Confirms(First, id, svc) /\ ~Revokes(First, id, svc) =>
       (svc \in encryptedServices'[s] <=> svc \in encryptedServices[s])
ObeysAll ==
  \A s \in Sessions, svc \in Services : sessionId[s] # 0 => Obeys(s, sessionId[s], svc)
KeepsOthers ==
  \A x \in Keys, s \in Sessions :
    sessionId[s] = x.id /\ Unanswered(s, x) /\ ~Grants(First, x) => Unanswered(s, x)'

LEMMA TakenBack ==
  ASSUME TypeOK, Delivers
  PROVE  FewerBack(1) /\ 1 \in 1..Len(toMobile)
<1>1. \A i \in 1..Len(toMobile') : i + 1 \in 1..Len(toMobile) /\ toMobile'[i] = toMobile[i + 1]
  BY DeliveredWire
<1>2. 1 \in 1..Len(toMobile)
  BY Tailed, TypeParts DEF WireTypes, Delivers
<1>. QED
  BY <1>1, <1>2 DEF FewerBack

(* What is outstanding after it is not what the message grants.            *)
LEMMA StillOutstanding ==
  ASSUME TypeOK, Ledger, Delivers, Fewer(0), UNCHANGED sdl, NEW x \in Keys, Outstanding(x)'
  PROVE  ~Grants(First, x)
<1>1. \A i \in 1..Len(toMobile') : i + 1 \in 1..Len(toMobile) /\ toMobile'[i] = toMobile[i + 1]
                                  /\ i + 1 # 1
  BY DeliveredWire, WireIds, TypeParts, Tailed DEF WireTypes, Delivers
<1>2. 1 \in 1..Len(toMobile)
  BY TakenBack
<1>3. SUFFICES ASSUME Grants(First, x) PROVE FALSE
  OBVIOUS
<1>4. Granted(x)
  BY <1>2, <1>3 DEF Granted, First
<1>5. ~Asked(x) /\ ~Waits(x)
  BY <1>4 DEF Ledger, OncePlaced
<1>6. ~Asked(x)'
  BY <1>5, FewerAsked DEF Ledger
<1>7. ~Waits(x)'
  BY <1>5 DEF Waits
<1>8. ~Granted(x)'
  <2>1. ASSUME NEW i \in 1..Len(toMobile'), Grants(toMobile'[i], x) PROVE FALSE
    BY <1>1, <1>2, <1>3, <2>1 DEF Ledger, OnceGranted, First
  <2>. QED
    BY <2>1 DEF Granted
<1>. QED
  BY <1>6, <1>7, <1>8 DEF Outstanding

LEMMA ForwardBack ==
  ASSUME TypeOK, Ledger, Delivers, Fewer(0), UNCHANGED sdl
  PROVE  Forward /\ OnceAsked' /\ OnceGranted'
<1>1. OnceAsked' /\ \A x \in Keys : Asked(x)' => Asked(x)
  BY FewerAsked DEF Ledger
<1>2. OnceGranted' /\ \A x \in Keys : Granted(x)' => Granted(x)
  BY TakenBack, FewerGranted DEF Ledger
<1>3. \A x \in Keys : Waits(x)' => Waits(x)
  BY DEF Waits
<1>. QED
  BY <1>1, <1>2, <1>3 DEF Forward

LEMMA TakenConcord ==
  ASSUME TypeOK, Concord, Delivers, UNCHANGED <<sessionId, sdl, seen>>, Fewer(0), Single',
         \A s \in Sessions : sessionId[s] = 0 => encryptedServices'[s] = {},
         Ledger => ObeysAll /\ KeepsOthers
  PROVE  Concord'
<1>1. Blank'
  BY DEF Concord, Blank, Owned
<1>2. ASSUME InTime' PROVE Ledger'
  <2>1. Ledger /\ ObeysAll /\ KeepsOthers
    BY <1>2 DEF Concord, Ledger, InTime
  <2>2. Forward /\ OnceAsked' /\ OnceGranted'
    BY <2>1, ForwardBack
  <2>3. KeepsIds
    BY DEF KeepsIds
  <2>4. KeepsUnanswered
    BY <2>1, StillOutstanding DEF KeepsUnanswered, KeepsOthers
  <2>5. Pending' /\ OncePlaced'
    BY <2>1, <2>2, <2>3, <2>4, LedgerForward DEF Ledger
  <2>6. Agreeing'
    <3>1. ASSUME NEW s \in Sessions, NEW svc \in Services, NEW id, id = sessionId[s], id # 0
          PROVE  svc \in sdl[id].secure <=> WillHold(s, id, svc)'
      <4>1. Obeys(s, id, svc)
        BY <2>1, <3>1 DEF ObeysAll
      <4>2. WillHold(s, id, svc)' <=> WillHold(s, id, svc)
        BY <4>1, WillTake DEF Obeys, First
      <4>3. svc \in sdl[id].secure <=> WillHold(s, id, svc)
        BY <2>1, <3>1 DEF Ledger, Agreeing
      <4>. QED
        BY <4>2, <4>3
    <3>. QED
      BY <3>1 DEF Agreeing
  <2>. QED
    BY <2>2, <2>5, <2>6 DEF Ledger
<1>. QED
  BY <1>1, <1>2 DEF Concord, Ledger

(* An expectation that is found is the one of the request the message      *)
(* grants.                                                                 *)
LEMMA FoundGrants ==
  ASSUME Orderly, NEW e, NEW m, Finds(e, m), NEW x \in Keys, NEW s \in Sessions,
         sessionId[s] = x.id, Expected(e, s, x)
  PROVE  Grants(m, x)
<1>1. TypeOK /\ FromSdl
  BY DEF Orderly
<1>2. m = toMobile[1] /\ 1 \in 1..Len(toMobile) /\ m \in Message /\ e \in Expectation
  BY <1>1, ComesTypes, WireIds, Found DEF Finds
<1>3. m.type \notin {"START_NACK", "END_NACK"}
  BY <1>1, <1>2 DEF FromSdl, Accepts
<1>4. x.id # 0 /\ x.kind \in {"start", "end"}
  BY SessionAssumption DEF Keys, Ids
<1>5. e.s = s /\ e.kind = x.kind /\ e.svc = x.svc /\ (e.kind = "start" => e.enc = TRUE)
  BY <1>2 DEF Expected, Expectation
<1>6. CASE x.kind = "start"
  <2>1. m.type = "START_ACK" /\ m.svc = e.svc /\ m.enc = e.enc /\ m.id = x.id
    BY <1>3, <1>4, <1>5, <1>6 DEF Finds, Matches
  <2>. QED
    BY <1>5, <1>6, <2>1 DEF Grants
<1>7. CASE x.kind = "end"
  <2>1. m.type = "END_ACK" /\ m.svc = e.svc /\ m.id = x.id
    BY <1>3, <1>4, <1>5, <1>7 DEF Finds, Matches
  <2>. QED
    BY <1>5, <1>7, <2>1 DEF Grants
<1>. QED
  BY <1>4, <1>6, <1>7

(* The expectation gets a status, and the session follows the message.     *)
LEMMA FoundConcord ==
  ASSUME Orderly, Concord, NEW e, NEW m, Finds(e, m), UNCHANGED sessionId, Fewer(0),
         NEW r, r.cid = e.cid, Like(r, e), pool' = (pool \ {e}) \cup {r},
         \A s \in Sessions : sessionId[s] = 0 => encryptedServices'[s] = {},
         Ledger => ObeysAll
  PROVE  Concord'
<1>. DEFINE N == {}
<1>1. TypeOK /\ Single /\ Delivers /\ e \in pool /\ UNCHANGED <<sdl, seen>>
  BY Found DEF Orderly, Concord, Finds, Comes
<1>2. m = First
  BY <1>1, ComesTypes DEF Finds, First
<1>3. (\A f \in N : ~Dated(f)) /\ pool' \subseteq ((pool \ {e}) \cup {r}) \cup N
  OBVIOUS
<1>. HIDE DEF N
<1>4. Single'
  BY <1>1, <1>3, ReplacedSingle
<1>5. KeepsOthers
  <2>1. ASSUME NEW x \in Keys, NEW s \in Sessions, sessionId[s] = x.id, ~Grants(First, x),
               NEW f \in pool, Expected(f, s, x), f.status = "none"
        PROVE  f \in pool'
    <3>1. f # e
      BY <1>2, <2>1, FoundGrants
    <3>. QED
      BY <3>1
  <2>. QED
    BY <2>1 DEF KeepsOthers, Unanswered
<1>. QED
  BY <1>1, <1>4, <1>5, TakenConcord

(* Nothing is said about secure services.                                  *)
LEMMA ObeysNothing ==
  ASSUME UNCHANGED encryptedServices, NoneGranted(First)
  PROVE  ObeysAll
<1>1. \A id, svc : ~Confirms(First, id, svc) /\ ~Revokes(First, id, svc)
  BY DEF NoneGranted, Confirms, Revokes
<1>. QED
  BY <1>1 DEF ObeysAll, Obeys

LEMMA QuietFound ==
  ASSUME Orderly, Concord, NEW e, NEW m, Finds(e, m), UNCHANGED <<sessionId, encryptedServices>>,
         Fewer(0), NEW r, r.cid = e.cid, Like(r, e), pool' = (pool \ {e}) \cup {r},
         NoneGranted(m)
  PROVE  Concord'
<1>1. m = First
  BY ComesTypes DEF Orderly, Finds, First
<1>2. ObeysAll /\ \A s \in Sessions : sessionId[s] = 0 => encryptedServices'[s] = {}
  BY <1>1, ObeysNothing DEF Concord, Blank
<1>. QED
  BY <1>2, FoundConcord

LEMMA HandledForm ==
  ASSUME TypeOK, NEW e \in pool, NEW m, pool' = Handled(e, m)
  PROVE  \E r : r.cid = e.cid /\ Like(r, e) /\ pool' = (pool \ {e}) \cup {r}
<1>. DEFINE v == Validated(e, m)
            r == [e EXCEPT !.status = v]
<1>1. e \in Expectation /\ v \in Statuses
  BY TypeParts, ValidatedType DEF PoolTypes
<1>2. pool' = (pool \ {e}) \cup {r}
  BY DEF Handled
<1>. HIDE DEF v
<1>3. r.cid = e.cid /\ Like(r, e)
  BY <1>1 DEF Expectation, Like
<1>. HIDE DEF r
<1>. QED
  BY <1>2, <1>3

(* What the message is about, by the kind of the expectation.              *)
LEMMA FoundQuiet ==
  ASSUME Orderly, NEW e, NEW m, Finds(e, m),
         e.kind \in {"handshake", "beat", "beatAck", "response"} \/ (e.kind = "start" /\ ~e.enc)
  PROVE  NoneGranted(m)
<1>1. CASE e.kind \in {"handshake", "beat", "beatAck", "response"}
  <2>1. m.type \in {"HANDSHAKE", "HEARTBEAT", "HEARTBEAT_ACK", "RESPONSE"}
    BY <1>1 DEF Finds, Matches
  <2>. QED
    BY <2>1 DEF NoneGranted
<1>2. CASE e.kind = "start" /\ ~e.enc
  <2>1. m.type \in {"START_ACK", "START_NACK"} /\ m.enc = e.enc
    BY <1>2 DEF Finds, Matches
  <2>. QED
    BY <1>2, <2>1 DEF NoneGranted
<1>. QED
  BY <1>1, <1>2

LEMMA HandshakeConcord ==
  ASSUME Orderly, Concord, NEW e, NEW m, Finds(e, m), e.kind = "handshake", OnHandshake(e, m)
  PROVE  Concord'
<1>. DEFINE state == Shaken(ssl[e.s], m)
            f == [Frame("HANDSHAKE", sessionId[e.s], "CONTROL", FALSE) EXCEPT !.cid = m.cid]
            l == e.listed /\ state # "finished"
            v == Validated(e, m)
            r == [e EXCEPT !.status = v, !.listed = l]
<1>1. TypeOK /\ e \in Expectation /\ sessionId[e.s] \in 0..MaxId /\ m.cid \in Nat
  BY Found DEF Orderly
<1>2. /\ UNCHANGED toSDL \/ toSDL' = Append(toSDL, f)
      /\ pool' = (pool \ {e}) \cup {r}
      /\ UNCHANGED <<sessionId, encryptedServices>>
  BY DEF OnHandshake, Send, idVars
<1>3. f \in Message /\ f.type = "HANDSHAKE"
  <2>1. "HANDSHAKE" \in MessageTypes /\ "CONTROL" \in Named
    BY DEF MessageTypes, Named
  <2>. QED
    BY <1>1, <2>1, NumberedType DEF Frame
<1>. HIDE DEF f, l, v
<1>4. r.cid = e.cid /\ Like(r, e)
  BY <1>1 DEF Expectation, Like
<1>. HIDE DEF r
<1>5. NoneAsked(f) /\ NoneGranted(m)
  BY <1>3, FoundQuiet DEF NoneAsked
<1>6. Fewer(0)
  BY <1>1, <1>2, <1>3, <1>5, SameSent, SentQuiet
<1>. QED
  BY <1>2, <1>4, <1>5, <1>6, QuietFound

LEMMA HeartbeatConcord ==
  ASSUME Orderly, Concord, NEW e, NEW m, Finds(e, m), e.kind = "beat", OnHeartbeat(e)
  PROVE  Concord'
<1>. DEFINE b == Beat("HEARTBEAT_ACK", sessionId[e.s])
<1>1. TypeOK /\ e \in pool /\ sessionId[e.s] \in 0..MaxId /\ "HEARTBEAT_ACK" \in MessageTypes
  BY Found DEF Orderly, MessageTypes
<1>2. /\ UNCHANGED toSDL \/ toSDL' = Append(toSDL, b)
      /\ UNCHANGED <<sessionId, encryptedServices, pool>>
  BY DEF OnHeartbeat, idVars, securityVars
<1>3. b \in Message /\ b.type = "HEARTBEAT_ACK"
  BY <1>1, BeatType DEF Beat, Frame
<1>. HIDE DEF b
<1>4. NoneAsked(b) /\ NoneGranted(m)
  BY <1>3, FoundQuiet DEF NoneAsked
<1>5. Fewer(0)
  BY <1>1, <1>2, <1>3, <1>4, SameSent, SentQuiet
<1>6. e.cid = e.cid /\ Like(e, e) /\ pool' = (pool \ {e}) \cup {e}
  BY <1>1, <1>2 DEF Like
<1>. QED
  BY <1>2, <1>4, <1>5, <1>6, QuietFound

(* The messages that only give the expectation its status.                 *)
LEMMA NotedConcord ==
  ASSUME Orderly, Concord, NEW e, NEW m, Finds(e, m), pool' = Handled(e, m),
         UNCHANGED <<sessionId, encryptedServices, toSDL>>,
         e.kind \in {"beatAck", "response"} \/ (e.kind = "start" /\ ~e.enc)
  PROVE  Concord'
<1>1. TypeOK /\ e \in pool /\ NoneGranted(m)
  BY Found, FoundQuiet DEF Orderly
<1>2. PICK r : r.cid = e.cid /\ Like(r, e) /\ pool' = (pool \ {e}) \cup {r}
  BY <1>1, HandledForm
<1>. QED
  BY <1>1, <1>2, SameSent, QuietFound

LEMMA StartSecureAnsweredConcord ==
  ASSUME Orderly, Concord, NEW e, NEW m, Finds(e, m), e.kind = "start", e.enc,
         OnStartSecure(e, m)
  PROVE  Concord'
<1>1. TypeOK /\ e \in pool /\ Distinct /\ FromSdl /\ Expecting /\ SecurityTypes /\ e.s \in Sessions
      /\ e \in Expectation
  BY Found, TypeParts DEF Orderly
<1>2. m = First /\ 1 \in 1..Len(toMobile)
  BY <1>1, ComesTypes, WireIds DEF Finds, First
<1>3. /\ m.type = "START_ACK" /\ m.svc = e.svc /\ m.enc = e.enc /\ m.id = sessionId[e.s]
      /\ sessionId[e.s] # 0
  <2>1. m.type \notin {"START_NACK", "END_NACK"}
    BY <1>1, <1>2 DEF FromSdl, Accepts, First
  <2>. QED
    BY <1>1, <2>1 DEF Finds, Matches, Expecting
<1>4. /\ encryptedServices'[e.s] = encryptedServices[e.s] \cup {e.svc}
      /\ \A t \in Sessions : t # e.s => encryptedServices'[t] = encryptedServices[t]
      /\ pool' = Handled(e, m) /\ UNCHANGED <<sessionId, toSDL>>
  BY <1>1, <1>3 DEF OnStartSecure, SecurityTypes, idVars
<1>5. PICK r : r.cid = e.cid /\ Like(r, e) /\ pool' = (pool \ {e}) \cup {r}
  BY <1>1, <1>4, HandledForm
<1>6. \A s \in Sessions : sessionId[s] = 0 => encryptedServices'[s] = {}
  BY <1>3, <1>4 DEF Concord, Blank
<1>7. ObeysAll
  <2>1. ASSUME NEW s \in Sessions, NEW svc \in Services, NEW id, id = sessionId[s], id # 0
        PROVE  Obeys(s, id, svc)
    <3>1. ~Revokes(First, id, svc) /\ (Confirms(First, id, svc) <=> s = e.s /\ svc = e.svc)
      BY <1>1, <1>2, <1>3, <2>1 DEF Confirms, Revokes, Distinct
    <3>. QED
      BY <1>4, <3>1 DEF Obeys
  <2>. QED
    BY <2>1 DEF ObeysAll
<1>. QED
  BY <1>1, <1>4, <1>5, <1>6, <1>7, SameSent, FoundConcord

LEMMA StopRPCConcord ==
  ASSUME Orderly, Concord, NEW e, NEW m, Finds(e, m), e.kind = "end", e.svc = RPC,
         OnStopRPC(e, m)
  PROVE  Concord'
<1>1. TypeOK /\ e \in pool /\ Distinct /\ FromSdl /\ SecurityTypes /\ e.s \in Sessions
  BY Found, TypeParts DEF Orderly
<1>2. m = First /\ 1 \in 1..Len(toMobile)
  BY <1>1, ComesTypes, WireIds DEF Finds, First
<1>3. m.type = "END_ACK" /\ m.svc = RPC /\ m.id = sessionId[e.s]
  <2>1. m.type \notin {"START_NACK", "END_NACK"}
    BY <1>1, <1>2 DEF FromSdl, Accepts, First
  <2>. QED
    BY <2>1 DEF Finds, Matches
<1>4. /\ encryptedServices'[e.s] = {}
      /\ \A t \in Sessions : t # e.s => encryptedServices'[t] = encryptedServices[t]
      /\ pool' = Handled(e, m) /\ UNCHANGED <<sessionId, toSDL>>
  BY <1>1 DEF OnStopRPC, SecurityTypes, idVars
<1>5. PICK r : r.cid = e.cid /\ Like(r, e) /\ pool' = (pool \ {e}) \cup {r}
  BY <1>1, <1>4, HandledForm
<1>6. \A s \in Sessions : sessionId[s] = 0 => encryptedServices'[s] = {}
  BY <1>4 DEF Concord, Blank
<1>7. ObeysAll
  <2>1. ASSUME NEW s \in Sessions, NEW svc \in Services, NEW id, id = sessionId[s], id # 0
        PROVE  Obeys(s, id, svc)
    <3>1. ~Confirms(First, id, svc) /\ (Revokes(First, id, svc) <=> s = e.s)
      BY <1>1, <1>2, <1>3, <2>1 DEF Confirms, Revokes, Distinct
    <3>. QED
      BY <1>4, <3>1 DEF Obeys
  <2>. QED
    BY <2>1 DEF ObeysAll
<1>. QED
  BY <1>1, <1>4, <1>5, <1>6, <1>7, SameSent, FoundConcord

(* The end of a service is for the expectation of it, which has no status: *)
(* the session does not ignore the answer.                                 *)
LEMMA EndUnanswered ==
  ASSUME Orderly, Single, Ledger, NEW e, NEW m, Finds(e, m), e.kind = "end", e.svc \in Services
  PROVE  e.status = "none"
<1>. DEFINE y0 == [id |-> m.id, kind |-> "end", svc |-> e.svc]
<1>1. TypeOK /\ e \in pool /\ FromSdl /\ e.s \in Sessions /\ m.id \in 0..MaxId /\ pool \subseteq Expectation
  BY Found, TypeParts DEF Orderly, PoolTypes
<1>2. m = toMobile[1] /\ 1 \in 1..Len(toMobile)
  BY <1>1, ComesTypes, WireIds DEF Finds
<1>3. m.type = "END_ACK" /\ m.svc = e.svc /\ m.id = sessionId[e.s] /\ m.id \in Ids
  <2>1. m.type \notin {"START_NACK", "END_NACK"} /\ m.id # 0
    BY <1>1, <1>2 DEF FromSdl, Accepts
  <2>. QED
    BY <1>1, <2>1, SessionAssumption DEF Finds, Matches, Ids
<1>4. y0 \in Keys /\ y0.id = m.id /\ y0.kind = "end" /\ y0.svc = e.svc
  BY <1>3 DEF Keys
<1>. HIDE DEF y0
<1>5. PICK y \in Keys : y.id = m.id /\ y.kind = "end" /\ y.svc = e.svc
  BY <1>4
<1>6. Granted(y)
  BY <1>2, <1>3, <1>5 DEF Granted, Grants
<1>7. Unanswered(e.s, y)
  BY <1>1, <1>3, <1>5, <1>6 DEF Ledger, Pending
<1>8. PICK f \in pool : Expected(f, e.s, y) /\ f.status = "none"
  BY <1>7 DEF Unanswered
<1>9. f.s = e.s /\ f.kind = "end" /\ f.svc = e.svc
  BY <1>5, <1>8 DEF Expected
<1>10. f.enc = FALSE /\ e.enc = FALSE
  <2>1. ~f.enc /\ ~e.enc
    BY <1>1, <1>9 DEF Single
  <2>2. f.enc \in BOOLEAN /\ e.enc \in BOOLEAN
    BY <1>1 DEF Expectation
  <2>. QED
    BY <2>1, <2>2
<1>11. Like(e, f)
  BY <1>9, <1>10 DEF Like
<1>12. e = f
  BY <1>1, <1>11 DEF Single
<1>. QED
  BY <1>8, <1>12

LEMMA EndAnsweredConcord ==
  ASSUME Orderly, Concord, NEW e, NEW m, Finds(e, m), e.kind = "end", e.svc # RPC, Act(e, m)
  PROVE  Concord'
<1>1. TypeOK /\ e \in pool /\ Distinct /\ FromSdl /\ SecurityTypes /\ e.s \in Sessions /\ Single
  BY Found, TypeParts DEF Orderly, Concord
<1>2. m = First /\ 1 \in 1..Len(toMobile)
  BY <1>1, ComesTypes, WireIds DEF Finds, First
<1>3. m.type = "END_ACK" /\ m.svc = e.svc /\ m.id = sessionId[e.s]
  <2>1. m.type \notin {"START_NACK", "END_NACK"}
    BY <1>1, <1>2 DEF FromSdl, Accepts, First
  <2>. QED
    BY <2>1 DEF Finds, Matches
<1>4. IF e.status = "FAILED" THEN Ignored(e, m) ELSE OnStopService(e, m)
  BY DEF Act
<1>5. pool' = Handled(e, m) /\ UNCHANGED <<sessionId, toSDL>>
  BY <1>4 DEF Ignored, OnStopService, idVars
<1>6. PICK r : r.cid = e.cid /\ Like(r, e) /\ pool' = (pool \ {e}) \cup {r}
  BY <1>1, <1>5, HandledForm
<1>7. \/ encryptedServices' = encryptedServices /\ (Ledger => e.svc \notin Services)
      \/ /\ encryptedServices'[e.s] = encryptedServices[e.s] \ {e.svc}
         /\ \A t \in Sessions : t # e.s => encryptedServices'[t] = encryptedServices[t]
  <2>1. CASE e.status = "FAILED"
    <3>1. Ledger => e.svc \notin Services
      BY <1>1, <2>1, EndUnanswered
    <3>. QED
      BY <1>4, <2>1, <3>1 DEF Ignored, securityVars
  <2>2. CASE e.status # "FAILED"
    BY <1>1, <1>4, <2>2 DEF OnStopService, SecurityTypes
  <2>. QED
    BY <2>1, <2>2
<1>8. \A s \in Sessions : sessionId[s] = 0 => encryptedServices'[s] = {}
  <2>1. \A s \in Sessions : encryptedServices'[s] \subseteq encryptedServices[s]
    BY <1>7
  <2>. QED
    BY <2>1 DEF Concord, Blank
<1>9. ASSUME Ledger PROVE ObeysAll
  <2>1. ASSUME NEW s \in Sessions, NEW svc \in Services, NEW id, id = sessionId[s], id # 0
        PROVE  Obeys(s, id, svc)
    <3>1. ~Confirms(First, id, svc) /\ (Revokes(First, id, svc) <=> s = e.s /\ svc = e.svc)
      BY <1>1, <1>2, <1>3, <2>1 DEF Confirms, Revokes, Distinct
    <3>. QED
      BY <1>7, <1>9, <3>1 DEF Obeys
  <2>. QED
    BY <2>1 DEF ObeysAll
<1>. QED
  BY <1>1, <1>5, <1>6, <1>8, <1>9, SameSent, FoundConcord

(* An answer that nobody expects is none about a secure service.           *)
LEMMA UnhandledConcord ==
  ASSUME Orderly, Concord, NEW m, Comes(m), Handlers(m) = {},
         UNCHANGED <<sessionId, encryptedServices, pool, toSDL>>
  PROVE  Concord'
<1>1. TypeOK /\ Single /\ Delivers /\ UNCHANGED <<sdl, seen>> /\ pool \subseteq Expectation
  BY TypeParts DEF Orderly, Concord, Comes, Delivers, PoolTypes
<1>2. m = First /\ m = toMobile[1] /\ 1 \in 1..Len(toMobile) /\ m \in Message
  BY <1>1, ComesTypes, WireIds DEF First
<1>3. Single' /\ KeepsOthers
  BY DEF Concord, Single, KeepsOthers, Unanswered
<1>4. ASSUME Ledger, NEW x \in Keys, NEW s \in Sessions, sessionId[s] = x.id
      PROVE  ~Grants(m, x)
  <2>1. SUFFICES ASSUME Grants(m, x) PROVE FALSE
    OBVIOUS
  <2>2. Granted(x)
    BY <1>2, <2>1 DEF Granted
  <2>3. Unanswered(s, x)
    BY <1>4, <2>2 DEF Ledger, Pending
  <2>4. PICK f \in pool : Expected(f, s, x)
    BY <2>3 DEF Unanswered
  <2>5. f.s = s /\ f.kind = x.kind /\ f.svc = x.svc /\ (f.kind = "start" => f.enc = TRUE)
    BY <1>1, <2>4 DEF Expected, Expectation
  <2>6. x.kind \in {"start", "end"} /\ m.enc \in BOOLEAN
    BY <1>2, MessageShape DEF Keys
  <2>7. Matches(f, m) /\ m.type # "RESPONSE"
    <3>1. CASE x.kind = "start"
      BY <1>4, <2>1, <2>5, <2>6, <3>1 DEF Grants, Matches
    <3>2. CASE x.kind = "end"
      BY <1>4, <2>1, <2>5, <3>2 DEF Grants, Matches
    <3>. QED
      BY <2>6, <3>1, <3>2
  <2>8. f \in Handlers(m)
    BY <2>7 DEF Handlers
  <2>. QED
    BY <2>8
<1>5. ASSUME Ledger PROVE ObeysAll
  <2>1. ASSUME NEW s \in Sessions, NEW svc \in Services, NEW id, id = sessionId[s], id # 0
        PROVE  ~Confirms(First, id, svc) /\ ~Revokes(First, id, svc)
    <3>1. id \in Ids
      BY <1>1, <2>1, TypeParts, SessionAssumption DEF IdTypes, Ids
    <3>2. RPC \in Services
      BY DEF Services
    <3>. DEFINE k1 == [id |-> id, kind |-> "start", svc |-> svc]
                k2 == [id |-> id, kind |-> "end", svc |-> svc]
                k3 == [id |-> id, kind |-> "end", svc |-> RPC]
    <3>3. k1 \in Keys /\ k2 \in Keys /\ k3 \in Keys
      BY <3>1, <3>2 DEF Keys
    <3>4. ~Grants(m, k1) /\ ~Grants(m, k2) /\ ~Grants(m, k3)
      BY <1>4, <1>5, <2>1, <3>3
    <3>5. ~Confirms(m, id, svc)
      BY <3>4 DEF Grants, Confirms
    <3>6. ~Revokes(m, id, svc)
      BY <3>4 DEF Grants, Revokes
    <3>. QED
      BY <1>2, <3>5, <3>6
  <2>. QED
    BY <2>1 DEF ObeysAll, Obeys
<1>. QED
  BY <1>1, <1>3, <1>5, SameSent, TakenConcord DEF Concord, Blank

(* The answer to Start: nothing is outstanding under the new id.           *)
LEMMA FreshBlank ==
  ASSUME Orderly, Blank, NEW x \in Keys, ~Owned(x.id)
  PROVE  ~Outstanding(x)
<1>1. FromMobile /\ FromSdl /\ x.id # 0 /\ x.id \in Ids
  BY SessionAssumption DEF Orderly, Keys, Ids
<1>2. ~Asked(x)
  BY <1>1 DEF Asked, Requests, FromMobile, SentOwned
<1>3. ~Waits(x)
  BY <1>1 DEF Waits, Blank
<1>4. ~Granted(x)
  BY <1>1 DEF Granted, Grants, FromSdl, AnswersOwned, Opened
<1>. QED
  BY <1>2, <1>3, <1>4 DEF Outstanding

LEMMA StartRPCForm ==
  ASSUME TypeOK, NEW e, NEW m, Finds(e, m), OnStartRPC(e, m)
  PROVE  \E r, N : /\ r.cid = e.cid /\ Like(r, e) /\ (\A f \in N : ~Dated(f))
                   /\ pool' = ((pool \ {e}) \cup {r}) \cup N
<1>. DEFINE h == heartbeat[e.s]
            B == BeatExpectations(e.s, h)
            E == IF Version > 2 THEN B ELSE {}
            c == correlationId[e.s] + 1
            x == Expect(e.s, "response", RPC, FALSE, c)
            v == Validated(e, m)
            r == [e EXCEPT !.status = v]
            N == E \cup {x}
<1>1. e \in Expectation /\ e.s \in Sessions /\ h \in Monitor /\ m.id \in 0..MaxId
  BY Found
<1>2. \A f \in B : f.kind \in {"beat", "beatAck"}
  BY <1>1, BeatForms
<1>3. pool' = ((pool \ {e}) \cup {r}) \cup E \cup {x}
  BY DEF OnStartRPC, Handled
<1>. HIDE DEF B, v, h, c
<1>4. x.kind = "response"
  BY DEF Expect
<1>5. r.cid = e.cid /\ Like(r, e)
  BY <1>1 DEF Expectation, Like
<1>. HIDE DEF x, r
<1>6. \A f \in N : ~Dated(f)
  BY <1>2, <1>4 DEF Dated
<1>7. pool' = ((pool \ {e}) \cup {r}) \cup N
  BY <1>3
<1>. HIDE DEF N
<1>. QED
  BY <1>5, <1>6, <1>7

LEMMA ArrivesConcord ==
  ASSUME Orderly, Concord, NEW e, NEW m, Finds(e, m), e.kind = "start", e.svc = RPC, ~e.enc,
         OnStartRPC(e, m)
  PROVE  Concord'
<1>. DEFINE s == e.s
            id == m.id
<1>1. TypeOK /\ Single /\ Blank /\ IdTypes /\ FromSdl /\ e \in pool /\ m \in Message
  BY Found, TypeParts DEF Orderly, Concord
<1>2. /\ s \in Sessions /\ sessionId[s] = 0 /\ id # 0 /\ id \in Ids /\ ~Owned(id)
      /\ m = toMobile[1] /\ Opened(m) /\ 1 \in 1..Len(toMobile)
  BY <1>1, ArrivesFresh, SessionAssumption DEF Ids
<1>3. Begins(s, m) /\ UNCHANGED seen
  BY <1>1, StartRPCAnswered DEF Finds, Comes
<1>4. PICK r, N : /\ r.cid = e.cid /\ Like(r, e) /\ (\A f \in N : ~Dated(f))
                  /\ pool' = ((pool \ {e}) \cup {r}) \cup N
  BY <1>1, StartRPCForm
<1>5. Single'
  BY <1>1, <1>4, ReplacedSingle
<1>. HIDE DEF s, id
<1>6. /\ UNCHANGED <<sdl, encryptedServices>> /\ Delivers
      /\ sessionId'[s] = id /\ \A t \in Sessions : t # s => sessionId'[t] = sessionId[t]
  BY <1>1, <1>2, <1>3 DEF Begins, IdTypes, securityVars, id
<1>7. Blank'
  <2>1. \A j \in Ids : Owned(j) => Owned(j)'
    BY <1>2, <1>6, SessionAssumption DEF Owned, Ids
  <2>2. \A t \in Sessions : sessionId'[t] = 0 => sessionId[t] = 0
    BY <1>2, <1>6
  <2>. QED
    BY <1>1, <1>6, <2>1, <2>2 DEF Blank
<1>8. Fewer(0)
  <2>1. PICK w \in Seq(Message) : /\ toSDL' = toSDL \o w
                                  /\ \A k \in 1..Len(w) : w[k].type \in {"HEARTBEAT", "REQUEST"}
    BY <1>3 DEF Begins
  <2>2. \A k \in 1..Len(w) : NoneAsked(w[k])
    BY <2>1 DEF NoneAsked
  <2>. QED
    BY <1>1, <2>1, <2>2, SentAllQuiet
<1>9. ASSUME InTime' PROVE Ledger'
  <2>1. Ledger
    BY <1>3, <1>9 DEF Concord, Ledger, InTime
  <2>2. Forward /\ OnceAsked' /\ OnceGranted'
    BY <1>1, <1>6, <1>8, <2>1, ForwardBack
  <2>3. KeepsIds
    <3>1. ASSUME NEW x \in Keys, NEW t \in Sessions, sessionId'[t] = x.id, Outstanding(x)
          PROVE  sessionId[t] = x.id
      <4>1. x.id # id
        BY <1>1, <1>2, <3>1, FreshBlank
      <4>. QED
        BY <1>6, <3>1, <4>1
    <3>. QED
      BY <3>1 DEF KeepsIds
  <2>4. KeepsUnanswered
    <3>1. \A x \in Keys, t \in Sessions, f \in pool : Expected(f, t, x) => f # e
      BY DEF Expected
    <3>. QED
      BY <1>4, <3>1 DEF KeepsUnanswered, Unanswered
  <2>5. Pending' /\ OncePlaced'
    BY <2>1, <2>2, <2>3, <2>4, LedgerForward DEF Ledger
  <2>6. ASSUME NEW t \in Sessions, NEW svc \in Services, NEW j, j = sessionId'[t], j # 0
        PROVE  svc \in sdl[j].secure <=> WillHold(t, j, svc)'
    <3>1. CASE t = s
      <4>1. j = id /\ svc \notin sdl[j].secure /\ svc \notin encryptedServices'[t]
        BY <1>1, <1>2, <1>6, <2>6, <3>1 DEF Blank
      <4>2. \A i \in 1..Len(toMobile') : toMobile'[i] = toMobile[i + 1] /\ i + 1 \in 1..Len(toMobile)
        BY <1>1, <1>6, DeliveredWire
      <4>3. \A i \in 1..Len(toMobile) : ~Confirms(toMobile[i], id, svc)
        BY <1>1, <1>2 DEF FromSdl, AnswersOwned, Confirms, Opened
      <4>4. \A i \in 1..Len(toMobile') : ~Confirms(toMobile'[i], j, svc)
        BY <4>1, <4>2, <4>3
      <4>5. ~WillHold(t, j, svc)'
        BY <4>1, <4>4 DEF WillHold
      <4>. QED
        BY <4>1, <4>5
    <3>2. CASE t # s
      <4>1. sessionId[t] = j
        BY <1>6, <2>6, <3>2
      <4>2. ~Confirms(toMobile[1], j, svc) /\ ~Revokes(toMobile[1], j, svc)
        BY <1>2 DEF Opened, Confirms, Revokes
      <4>3. WillHold(t, j, svc)' <=> WillHold(t, j, svc)
        BY <1>1, <1>6, <4>2, WillTake
      <4>4. svc \in sdl[j].secure <=> WillHold(t, j, svc)
        BY <2>1, <2>6, <4>1 DEF Ledger, Agreeing
      <4>. QED
        BY <4>3, <4>4
    <3>. QED
      BY <3>1, <3>2
  <2>7. Agreeing'
    BY <1>6, <2>6 DEF Agreeing
  <2>. QED
    BY <2>2, <2>5, <2>7 DEF Ledger
<1>. QED
  BY <1>5, <1>7, <1>9 DEF Concord, Ledger

LEMMA DeliverConcord ==
  ASSUME Orderly, Concord, Deliver
  PROVE  Concord'
<1>. DEFINE m == Head(toMobile)
<1>1. Comes(m) /\ TypeOK
  BY DEF Deliver, Comes, Orderly
<1>2. CASE Handlers(m) = {}
  <2>1. UNCHANGED <<sessionId, encryptedServices, pool, toSDL>>
    BY <1>2 DEF Deliver, idVars, securityVars
  <2>. HIDE DEF m
  <2>. QED
    BY <1>1, <1>2, <2>1, UnhandledConcord
<1>3. CASE Handlers(m) # {}
  <2>1. PICK e \in Handlers(m) : Act(e, m)
    BY <1>3 DEF Deliver
  <2>. HIDE DEF m
  <2>2. Finds(e, m) /\ e.kind \in Kinds
    BY <1>1, Found DEF Handlers, Finds
  <2>3. CASE e.kind = "handshake"
    BY <2>1, <2>2, <2>3, HandshakeConcord DEF Act
  <2>4. CASE e.kind = "beat"
    BY <2>1, <2>2, <2>4, HeartbeatConcord DEF Act
  <2>5. CASE e.kind = "beatAck"
    <3>1. OnHeartbeatAck(e, m)
      BY <2>1, <2>5 DEF Act
    <3>2. pool' = Handled(e, m) /\ UNCHANGED <<sessionId, encryptedServices, toSDL>>
      BY <3>1 DEF OnHeartbeatAck, idVars, securityVars
    <3>. QED
      BY <2>2, <2>5, <3>2, NotedConcord
  <2>6. CASE e.kind = "response"
    <3>1. Ignored(e, m) \/ OnResponse(e, m)
      BY <2>1, <2>6 DEF Act
    <3>2. pool' = Handled(e, m) /\ UNCHANGED <<sessionId, encryptedServices, toSDL>>
      BY <3>1 DEF OnResponse, Ignored, idVars, securityVars
    <3>. QED
      BY <2>2, <2>6, <3>2, NotedConcord
  <2>7. CASE e.kind = "start" /\ e.enc
    BY <2>1, <2>2, <2>7, StartSecureAnsweredConcord DEF Act
  <2>8. CASE e.kind = "start" /\ ~e.enc
    <3>1. Ignored(e, m) \/ (e.svc = RPC /\ OnStartRPC(e, m))
      BY <2>1, <2>8 DEF Act
    <3>2. CASE Ignored(e, m)
      <4>1. pool' = Handled(e, m) /\ UNCHANGED <<sessionId, encryptedServices, toSDL>>
        BY <3>2 DEF Ignored, idVars, securityVars
      <4>. QED
        BY <2>2, <2>8, <4>1, NotedConcord
    <3>3. CASE e.svc = RPC /\ OnStartRPC(e, m)
      BY <2>2, <2>8, <3>3, ArrivesConcord
    <3>. QED
      BY <3>1, <3>2, <3>3
  <2>9. CASE e.kind = "end" /\ e.svc = RPC
    BY <2>1, <2>2, <2>9, StopRPCConcord DEF Act
  <2>10. CASE e.kind = "end" /\ e.svc # RPC
    BY <2>1, <2>2, <2>10, EndAnsweredConcord
  <2>. QED
    BY <2>2, <2>3, <2>4, <2>5, <2>6, <2>7, <2>8, <2>9, <2>10 DEF Kinds
<1>. QED
  BY <1>2, <1>3

-----------------------------------------------------------------------------
(* Steps of SDL                                                            *)

(* SDL says nothing about a secure service, and keeps what it has.         *)
LEMMA QuietSdl ==
  ASSUME TypeOK, Concord, UNCHANGED mobileVars, NEW d \in {0, 1}, Fewer(d),
         NEW w \in Seq(Message), toMobile' = toMobile \o w,
         \A k \in 1..Len(w) : NoneGranted(w[k]),
         \A id \in Ids : sdl'[id].secure = sdl[id].secure /\ sdl'[id].wait = sdl[id].wait,
         InTime' => InTime
  PROVE  Concord'
<1>1. UNCHANGED <<sessionId, encryptedServices, pool>> /\ toMobile \in Seq(Message)
      /\ \A s \in Sessions : sessionId[s] # 0 => sessionId[s] \in Ids
  BY TypeParts, SessionAssumption DEF mobileVars, idVars, securityVars, WireTypes, IdTypes, Ids
<1>2. Blank'
  BY <1>1 DEF Concord, Blank, Owned
<1>3. Single'
  BY <1>1 DEF Concord, Single
<1>4. FewerBack(0)
  <2>1. \A i \in 1..Len(toMobile \o w) :
          \/ i \in 1..Len(toMobile) /\ (toMobile \o w)[i] = toMobile[i]
          \/ i > Len(toMobile) /\ \E k \in 1..Len(w) : (toMobile \o w)[i] = w[k]
    BY <1>1, Joined
  <2>2. \A i \in 1..Len(toMobile) : i + 0 = i
    BY <1>1
  <2>. QED
    BY <2>1, <2>2 DEF FewerBack
<1>5. ASSUME InTime' PROVE Ledger'
  <2>1. Ledger
    BY <1>5 DEF Concord, Ledger
  <2>2. OnceAsked' /\ \A x \in Keys : Asked(x)' => Asked(x)
    BY <2>1, FewerAsked DEF Ledger
  <2>3. OnceGranted' /\ \A x \in Keys : Granted(x)' => Granted(x)
    BY <1>4, <2>1, FewerGranted DEF Ledger
  <2>4. \A x \in Keys : Waits(x)' => Waits(x)
    BY DEF Waits, Keys
  <2>5. Forward
    BY <2>2, <2>3, <2>4 DEF Forward
  <2>6. KeepsIds /\ KeepsUnanswered
    BY <1>1 DEF KeepsIds, KeepsUnanswered, Unanswered
  <2>7. Pending' /\ OncePlaced'
    BY <2>1, <2>5, <2>6, LedgerForward DEF Ledger
  <2>8. ASSUME NEW s \in Sessions, NEW svc \in Services, NEW id, id = sessionId[s], id # 0
        PROVE  svc \in sdl'[id].secure <=> WillHold(s, id, svc)'
    <3>1. \A k \in 1..Len(w) : ~Revokes(w[k], id, svc) /\ ~Confirms(w[k], id, svc)
      BY DEF NoneGranted, Revokes, Confirms
    <3>2. WillHold(s, id, svc)' <=> WillHold(s, id, svc)
      BY <1>1, <3>1, WillStay
    <3>3. svc \in sdl[id].secure <=> WillHold(s, id, svc)
      BY <2>1, <2>8 DEF Ledger, Agreeing
    <3>4. sdl'[id].secure = sdl[id].secure
      BY <1>1, <2>8
    <3>. QED
      BY <3>2, <3>3, <3>4
  <2>9. Agreeing'
    BY <1>1, <2>8 DEF Agreeing
  <2>. QED
    BY <2>2, <2>3, <2>7, <2>9 DEF Ledger
<1>. QED
  BY <1>2, <1>3, <1>5 DEF Concord, Ledger

LEMMA TakenFewer ==
  ASSUME TypeOK, toSDL # <<>>, toSDL' = Tail(toSDL)
  PROVE  Fewer(1)
BY TakenWire DEF Fewer

LEMMA QuietReply ==
  ASSUME TypeOK, Concord, UNCHANGED mobileVars, NEW d \in {0, 1}, Fewer(d),
         NEW x \in Message, toMobile' = Append(toMobile, x), NoneGranted(x),
         \A id \in Ids : sdl'[id].secure = sdl[id].secure /\ sdl'[id].wait = sdl[id].wait,
         InTime' => InTime
  PROVE  Concord'
<1>. DEFINE w == <<x>>
<1>1. toMobile \in Seq(Message)
  BY TypeParts DEF WireTypes
<1>2. w \in Seq(Message) /\ Len(w) = 1 /\ w[1] = x /\ toMobile \o w = Append(toMobile, x)
  BY <1>1
<1>. HIDE DEF w
<1>3. \A k \in 1..Len(w) : k = 1
  BY <1>2
<1>4. toMobile' = toMobile \o w /\ \A k \in 1..Len(w) : NoneGranted(w[k])
  BY <1>2, <1>3
<1>. QED
  BY <1>2, <1>4, QuietSdl

LEMMA QuietSilence ==
  ASSUME TypeOK, Concord, UNCHANGED mobileVars, NEW d \in {0, 1}, Fewer(d), UNCHANGED toMobile,
         \A id \in Ids : sdl'[id].secure = sdl[id].secure /\ sdl'[id].wait = sdl[id].wait,
         InTime' => InTime
  PROVE  Concord'
<1>. DEFINE w == <<>>
<1>1. toMobile \in Seq(Message)
  BY TypeParts DEF WireTypes
<1>2. w \in Seq(Message) /\ Len(w) = 0 /\ toMobile \o w = toMobile
  BY <1>1
<1>. HIDE DEF w
<1>3. toMobile' = toMobile \o w /\ \A k \in 1..Len(w) : NoneGranted(w[k])
  BY <1>2
<1>. QED
  BY <1>2, <1>3, QuietSdl

LEMMA NewSessionConcord ==
  ASSUME Regular, Orderly, Concord, SdlNewSession
  PROVE  Concord'
<1>1. TypeOK /\ Lives /\ Blank
  BY DEF Orderly, Concord
<1>2. PICK id \in Ids : Creates(id)
  BY <1>1, SdlNewStep
<1>3. Takes /\ ~sdl[id].used /\ \A j \in Ids : j # id => sdl'[j] = sdl[j]
  BY <1>2 DEF Creates, Regular
<1>4. sdl'[id].secure = {} /\ sdl'[id].wait = {}
  BY <1>2 DEF Creates, Free
<1>5. ~Owned(id)
  BY <1>1, <1>3, SessionAssumption DEF Owned, Lives, Ids
<1>6. \A j \in Ids : sdl'[j].secure = sdl[j].secure /\ sdl'[j].wait = sdl[j].wait
  BY <1>1, <1>3, <1>4, <1>5 DEF Blank
<1>7. PICK x \in Message : toMobile' = Append(toMobile, x) /\ Opened(x)
  BY <1>2 DEF Creates
<1>8. NoneGranted(x)
  BY <1>7 DEF NoneGranted, Opened
<1>9. InTime' => InTime
  BY DEF SdlNewSession, Odd, InTime
<1>10. Fewer(1) /\ UNCHANGED mobileVars
  BY <1>1, <1>3, TakenFewer DEF Takes
<1>. QED
  BY <1>1, <1>6, <1>7, <1>8, <1>9, <1>10, QuietReply

LEMMA RequestedConcord ==
  ASSUME Orderly, Concord, SdlRequest
  PROVE  Concord'
<1>. DEFINE m == Got
<1>1. TypeOK /\ sdl \in [Ids -> SdlSession]
  BY TypeParts DEF Orderly, SdlTypes
<1>2. toSDL # <<>> /\ toSDL' = Tail(toSDL) /\ UNCHANGED mobileVars
  BY DEF SdlRequest, Take
<1>3. Fewer(1) /\ m.id \in 0..MaxId /\ m.enc \in BOOLEAN /\ m.cid \in Nat
  BY <1>1, <1>2, TakenFewer, GotTypes
<1>4. CASE ~Live(m.id)
  <2>1. UNCHANGED <<sdl, toMobile, seen>>
    BY <1>4 DEF SdlRequest, Got
  <2>. QED
    BY <1>1, <1>2, <1>3, <2>1, QuietSilence DEF InTime
<1>5. CASE Live(m.id)
  <2>1. PICK ok \in {TRUE, m.enc} :
          /\ Odd("reject", ~ok)
          /\ sdl' = [sdl EXCEPT ![m.id].answered = @ \/ ~m.enc]
          /\ Reply(Call("RESPONSE", m.id, m.enc, m.cid, ok))
    BY <1>5 DEF SdlRequest, Got
  <2>. DEFINE x == Call("RESPONSE", m.id, m.enc, m.cid, ok)
  <2>2. ok \in BOOLEAN /\ "RESPONSE" \in MessageTypes
    BY <1>3 DEF MessageTypes
  <2>3. x \in Message /\ x.type = "RESPONSE"
    BY <1>3, <2>2, CallType DEF Call
  <2>4. \A id \in Ids : sdl'[id].secure = sdl[id].secure /\ sdl'[id].wait = sdl[id].wait
    BY <1>1, <2>1 DEF SdlSession
  <2>5. InTime' => InTime
    BY <2>1, OddTime
  <2>6. toMobile' = Append(toMobile, x)
    BY <2>1 DEF Reply
  <2>. HIDE DEF x
  <2>7. NoneGranted(x)
    BY <2>3 DEF NoneGranted
  <2>. QED
    BY <1>1, <1>2, <1>3, <2>3, <2>4, <2>5, <2>6, <2>7, QuietReply
<1>. QED
  BY <1>4, <1>5

LEMMA HeartbeatInConcord ==
  ASSUME Orderly, Concord, SdlHeartbeatIn
  PROVE  Concord'
<1>. DEFINE m == Got
            x == Beat("HEARTBEAT_ACK", m.id)
<1>1. TypeOK
  BY DEF Orderly
<1>2. /\ toSDL # <<>> /\ toSDL' = Tail(toSDL) /\ UNCHANGED mobileVars
      /\ toMobile' = Append(toMobile, x) \/ UNCHANGED toMobile
      /\ UNCHANGED <<sdl, seen>>
  BY DEF SdlHeartbeatIn, Take, Reply, Got
<1>3. Fewer(1) /\ m.id \in 0..MaxId /\ "HEARTBEAT_ACK" \in MessageTypes
  BY <1>1, <1>2, TakenFewer, GotTypes DEF MessageTypes
<1>4. x \in Message /\ x.type = "HEARTBEAT_ACK"
  BY <1>3, BeatType DEF Beat, Frame
<1>. HIDE DEF x
<1>5. NoneGranted(x)
  BY <1>4 DEF NoneGranted
<1>. QED
  BY <1>1, <1>2, <1>3, <1>4, <1>5, QuietReply, QuietSilence DEF InTime

LEMMA PingConcord ==
  ASSUME Orderly, Concord, NEW id \in Ids, SdlHeartbeat(id)
  PROVE  Concord'
<1>1. TypeOK /\ Pings(id) /\ UNCHANGED seen
  BY SdlHeartbeatStep DEF Orderly, SdlHeartbeat
<1>2. PICK x \in Message : toMobile' = Append(toMobile, x) /\ x.type = "HEARTBEAT"
  BY <1>1 DEF Pings
<1>3. NoneGranted(x)
  BY <1>2 DEF NoneGranted
<1>4. Fewer(0) /\ UNCHANGED mobileVars /\ UNCHANGED sdl
  BY <1>1, SameSent DEF Pings
<1>. QED
  BY <1>1, <1>2, <1>3, <1>4, QuietReply DEF InTime

(* SDL answers a request of a session about its services.                  *)
LEMMA SdlConcord ==
  ASSUME TypeOK, Concord, UNCHANGED mobileVars, NEW g \in Ids, Owned(g),
         \A id \in Ids : id # g => sdl'[id] = sdl[id], InTime' => InTime,
         Ledger => Forward /\ OnceAsked' /\ OnceGranted' /\ Agreeing'
  PROVE  Concord'
<1>1. UNCHANGED <<sessionId, encryptedServices, pool>>
  BY DEF mobileVars, idVars, securityVars
<1>2. Blank'
  BY <1>1 DEF Concord, Blank, Owned
<1>3. Single'
  BY <1>1 DEF Concord, Single
<1>4. ASSUME InTime' PROVE Ledger'
  <2>1. Ledger
    BY <1>4 DEF Concord, Ledger
  <2>2. KeepsIds /\ KeepsUnanswered
    BY <1>1 DEF KeepsIds, KeepsUnanswered, Unanswered
  <2>3. Pending' /\ OncePlaced'
    BY <2>1, <2>2, LedgerForward DEF Ledger
  <2>. QED
    BY <2>1, <2>3 DEF Ledger
<1>. QED
  BY <1>2, <1>3, <1>4 DEF Concord, Ledger

(* What SDL takes is on its way only once.                                 *)
LEMMA GotAsked ==
  ASSUME TypeOK, Ledger, toSDL # <<>>, toSDL' = Tail(toSDL)
  PROVE  /\ OnceAsked' /\ \A x \in Keys : Asked(x)' => Asked(x)
         /\ \A x \in Keys : Requests(Got, x) =>
              Asked(x) /\ ~Asked(x)' /\ ~Waits(x) /\ ~Granted(x)
<1>1. OnceAsked' /\ \A x \in Keys : Asked(x)' => Asked(x)
  BY TakenFewer, FewerAsked DEF Ledger
<1>2. Got = toSDL[1] /\ 1 \in 1..Len(toSDL)
  BY GotTypes
<1>3. \A i \in 1..Len(toSDL') : i + 1 \in 1..Len(toSDL) /\ toSDL'[i] = toSDL[i + 1]
  BY TakenWire
<1>4. \A i \in 1..Len(toSDL') : i + 1 # 1
  <2>1. toSDL' \in Seq(Message)
    BY TypeParts DEF WireTypes
  <2>. QED
    BY <2>1
<1>5. ASSUME NEW x \in Keys, Requests(Got, x)
      PROVE  Asked(x) /\ ~Asked(x)' /\ ~Waits(x) /\ ~Granted(x)
  <2>1. Asked(x)
    BY <1>2, <1>5 DEF Asked
  <2>2. ~Waits(x) /\ ~Granted(x)
    BY <2>1 DEF Ledger, OncePlaced
  <2>3. ~Asked(x)'
    <3>1. ASSUME NEW i \in 1..Len(toSDL'), Requests(toSDL'[i], x) PROVE FALSE
      BY <1>2, <1>3, <1>4, <1>5, <3>1 DEF Ledger, OnceAsked
    <3>. QED
      BY <3>1 DEF Asked
  <2>. QED
    BY <2>1, <2>2, <2>3
<1>. QED
  BY <1>1, <1>5

LEMMA ReplyForward ==
  ASSUME TypeOK, Ledger, toSDL # <<>>, toSDL' = Tail(toSDL), NEW z \in Message,
         toMobile' = Append(toMobile, z), \A x \in Keys : Waits(x)' => Waits(x),
         \A x \in Keys : Grants(z, x) => Requests(Got, x)
  PROVE  Forward /\ OnceAsked' /\ OnceGranted'
<1>1. /\ OnceAsked' /\ \A x \in Keys : Asked(x)' => Asked(x)
      /\ \A x \in Keys : Requests(Got, x) => Asked(x) /\ ~Asked(x)' /\ ~Waits(x) /\ ~Granted(x)
  BY GotAsked
<1>2. \A i \in 1..Len(toMobile') :
           \/ i \in 1..Len(toMobile) /\ toMobile'[i] = toMobile[i]
           \/ i > Len(toMobile) /\ i = Len(toMobile) + 1 /\ toMobile'[i] = z
  BY ReplyWire
<1>3. ASSUME NEW x \in Keys, Granted(x)'
      PROVE  Granted(x) \/ ((Asked(x) \/ Waits(x)) /\ ~Asked(x)' /\ ~Waits(x)')
  <2>1. Granted(x) \/ Grants(z, x)
    BY <1>2, <1>3 DEF Granted
  <2>. QED
    BY <1>1, <2>1
<1>4. Forward
  BY <1>1, <1>3 DEF Forward
<1>5. ASSUME NEW x \in Keys, NEW i \in 1..Len(toMobile'), NEW j \in 1..Len(toMobile'),
             Grants(toMobile'[i], x), Grants(toMobile'[j], x)
      PROVE  i = j
  <2>1. CASE Grants(z, x)
    <3>1. \A k \in 1..Len(toMobile) : ~Grants(toMobile[k], x)
      BY <1>1, <2>1 DEF Granted
    <3>2. i = Len(toMobile) + 1 /\ j = Len(toMobile) + 1
      BY <1>2, <1>5, <3>1
    <3>. QED
      BY <3>2
  <2>2. CASE ~Grants(z, x)
    <3>1. i \in 1..Len(toMobile) /\ j \in 1..Len(toMobile) /\ Grants(toMobile[i], x) /\ Grants(toMobile[j], x)
      BY <1>2, <1>5, <2>2
    <3>. QED
      BY <3>1 DEF Ledger, OnceGranted
  <2>. QED
    BY <2>1, <2>2
<1>6. OnceGranted'
  BY <1>5 DEF OnceGranted
<1>. QED
  BY <1>1, <1>4, <1>6

(* A reply without a word about the service changes nothing.               *)
LEMMA WillStayReply ==
  ASSUME TypeOK, NEW s \in Sessions, NEW id, NEW svc, NEW z \in Message,
         toMobile' = Append(toMobile, z), UNCHANGED encryptedServices,
         ~Revokes(z, id, svc), ~Confirms(z, id, svc)
  PROVE  WillHold(s, id, svc)' <=> WillHold(s, id, svc)
<1>. DEFINE w == <<z>>
<1>1. toMobile \in Seq(Message)
  BY TypeParts DEF WireTypes
<1>2. w \in Seq(Message) /\ Len(w) = 1 /\ w[1] = z /\ toMobile \o w = Append(toMobile, z)
  BY <1>1
<1>. HIDE DEF w
<1>3. \A k \in 1..Len(w) : k = 1
  BY <1>2
<1>4. toMobile' = toMobile \o w
      /\ \A k \in 1..Len(w) : ~Revokes(w[k], id, svc) /\ ~Confirms(w[k], id, svc)
  BY <1>2, <1>3
<1>. QED
  BY <1>2, <1>4, WillStay

LEMMA EndedConcord ==
  ASSUME Orderly, Concord, SdlEnd
  PROVE  Concord'
<1>. DEFINE m == Got
            g == m.id
            r == sdl[g]
            z0 == Frame("END_ACK", g, m.svc, FALSE)
            W == IF m.svc = RPC THEN {} ELSE r.wait \ {m.svc}
            S == IF m.svc = RPC THEN {} ELSE r.secure \ {m.svc}
<1>1. TypeOK /\ sdl \in [Ids -> SdlSession] /\ FromMobile
  BY TypeParts DEF Orderly, SdlTypes
<1>2. /\ toSDL # <<>> /\ m.type = "END" /\ toSDL' = Tail(toSDL) /\ UNCHANGED mobileVars
      /\ Live(g) /\ UNCHANGED seen /\ toMobile' = Append(toMobile, z0)
  BY DEF SdlEnd, Take, Got, Reply
<1>3. m = toSDL[1] /\ 1 \in 1..Len(toSDL) /\ g \in 0..MaxId /\ m.svc \in Named
  BY <1>1, <1>2, GotTypes
<1>4. g \in Ids /\ g # 0 /\ r \in SdlSession
  BY <1>1, <1>2 DEF Live, Ids
<1>5. Owned(g)
  BY <1>1, <1>3, <1>4 DEF FromMobile, SentOwned
<1>6. z0 \in Message /\ z0.type = "END_ACK" /\ z0.id = g /\ z0.svc = m.svc
  <2>1. "END_ACK" \in MessageTypes
    BY DEF MessageTypes
  <2>. QED
    BY <1>3, <2>1, FrameType DEF Frame
<1>7. /\ sdl'[g].wait = W /\ sdl'[g].secure = S
      /\ \A id \in Ids : id # g => sdl'[id] = sdl[id]
  <2>1. sdl' = [sdl EXCEPT ![g] =
                  IF m.svc = RPC THEN [r EXCEPT !.live = FALSE, !.wait = {}, !.secure = {}]
                  ELSE [r EXCEPT !.wait = r.wait \ {m.svc}, !.secure = r.secure \ {m.svc}]]
    BY DEF SdlEnd, Got
  <2>2. CASE m.svc = RPC
    <3>. DEFINE r1 == [r EXCEPT !.live = FALSE, !.wait = {}, !.secure = {}]
    <3>1. sdl' = [sdl EXCEPT ![g] = r1] /\ W = {} /\ S = {}
      BY <2>1, <2>2
    <3>2. r1.wait = {} /\ r1.secure = {}
      BY <1>4 DEF SdlSession
    <3>. HIDE DEF r1, W, S
    <3>. QED
      BY <1>1, <1>4, <3>1, <3>2
  <2>3. CASE m.svc # RPC
    <3>. DEFINE r1 == [r EXCEPT !.wait = W, !.secure = S]
    <3>1. sdl' = [sdl EXCEPT ![g] = r1]
      BY <2>1, <2>3
    <3>. HIDE DEF W, S
    <3>2. r1.wait = W /\ r1.secure = S
      BY <1>4 DEF SdlSession
    <3>. HIDE DEF r1
    <3>. QED
      BY <1>1, <1>4, <3>1, <3>2
  <2>. QED
    BY <2>2, <2>3
<1>. HIDE DEF z0
<1>8. PICK z \in Message : /\ toMobile' = Append(toMobile, z) /\ z.type = "END_ACK" /\ z.id = g
                          /\ z.svc = m.svc
  BY <1>2, <1>6
<1>9. ASSUME Ledger PROVE Forward /\ OnceAsked' /\ OnceGranted' /\ Agreeing'
  <2>1. \A x \in Keys : Waits(x)' => Waits(x)
    <3>1. W \subseteq r.wait
      OBVIOUS
    <3>. HIDE DEF W
    <3>. QED
      BY <1>7, <3>1 DEF Waits, Keys
  <2>2. \A x \in Keys : Grants(z, x) => Requests(Got, x)
    BY <1>2, <1>8 DEF Grants, Requests
  <2>3. Forward /\ OnceAsked' /\ OnceGranted'
    BY <1>1, <1>2, <1>8, <1>9, <2>1, <2>2, ReplyForward
  <2>4. UNCHANGED <<sessionId, encryptedServices>>
    BY <1>2 DEF mobileVars, idVars, securityVars
  <2>5. ASSUME NEW s \in Sessions, NEW svc \in Services, NEW id, id = sessionId[s], id # 0
        PROVE  svc \in sdl'[id].secure <=> WillHold(s, id, svc)'
    <3>1. svc \in sdl[id].secure <=> WillHold(s, id, svc)
      BY <1>9, <2>5 DEF Ledger, Agreeing
    <3>2. id \in Ids
      BY <1>1, <2>5, TypeParts, SessionAssumption DEF IdTypes, Ids
    <3>3. ~Confirms(z, id, svc)
      BY <1>8 DEF Confirms
    <3>4. CASE Revokes(z, id, svc)
      <4>1. ~WillHold(s, id, svc)'
        BY <1>1, <1>8, <3>4, WillEnd
      <4>2. id = g /\ svc \notin S
        BY <1>8, <3>4 DEF Revokes
      <4>. HIDE DEF S
      <4>. QED
        BY <1>7, <4>1, <4>2
    <3>5. CASE ~Revokes(z, id, svc)
      <4>1. WillHold(s, id, svc)' <=> WillHold(s, id, svc)
        BY <1>1, <1>8, <2>4, <3>3, <3>5, WillStayReply
      <4>2. id = g => (svc \in S <=> svc \in r.secure)
        BY <1>8, <3>5 DEF Revokes
      <4>. HIDE DEF S
      <4>3. svc \in sdl'[id].secure <=> svc \in sdl[id].secure
        BY <1>7, <3>2, <4>2
      <4>. QED
        BY <3>1, <4>1, <4>3
    <3>. QED
      BY <3>4, <3>5
  <2>6. Agreeing'
    BY <2>4, <2>5 DEF Agreeing
  <2>. QED
    BY <2>3, <2>6
<1>. QED
  BY <1>1, <1>2, <1>4, <1>5, <1>7, <1>9, SdlConcord DEF InTime

LEMMA StartedConcord ==
  ASSUME Orderly, Concord, SdlStartService
  PROVE  Concord'
<1>. DEFINE m == Got
            g == m.id
            r == sdl[g]
<1>1. TypeOK /\ sdl \in [Ids -> SdlSession] /\ FromMobile /\ Proper
  BY TypeParts DEF Orderly, SdlTypes
<1>2. /\ toSDL # <<>> /\ m.type = "START" /\ toSDL' = Tail(toSDL) /\ UNCHANGED mobileVars
      /\ Live(g) /\ UNCHANGED seen
  BY DEF SdlStartService, Take, Got
<1>3. m = toSDL[1] /\ 1 \in 1..Len(toSDL) /\ g \in 0..MaxId /\ m.svc \in Named /\ m.enc \in BOOLEAN
  BY <1>1, <1>2, GotTypes
<1>4. g \in Ids /\ g # 0 /\ r \in SdlSession /\ m.svc \in Services
  BY <1>1, <1>2, <1>3 DEF Live, Ids, Proper
<1>5. Owned(g)
  BY <1>1, <1>3, <1>4 DEF FromMobile, SentOwned
<1>6. UNCHANGED <<sessionId, encryptedServices>> /\ Fewer(1)
  BY <1>1, <1>2, TakenFewer DEF mobileVars, idVars, securityVars
<1>7. "START_ACK" \in MessageTypes /\ "HANDSHAKE" \in MessageTypes /\ "CONTROL" \in Named
  BY DEF MessageTypes, Named
<1>8. CASE ~m.enc
  <2>. DEFINE z == Frame("START_ACK", g, m.svc, m.enc)
              S == IF m.enc THEN r.secure \cup {m.svc} ELSE r.secure
              r1 == [r EXCEPT !.secure = S]
  <2>1. sdl' = [sdl EXCEPT ![g] = r1] /\ toMobile' = Append(toMobile, z)
    BY <1>8 DEF SdlStartService, Got, Reply
  <2>2. z \in Message /\ z.type = "START_ACK" /\ z.enc = m.enc
    BY <1>3, <1>7, FrameType DEF Frame
  <2>3. S = r.secure
    BY <1>8
  <2>. HIDE DEF S, z
  <2>4. r1.secure = r.secure /\ r1.wait = r.wait
    BY <1>4, <2>3 DEF SdlSession
  <2>. HIDE DEF r1
  <2>5. \A id \in Ids : sdl'[id].secure = sdl[id].secure /\ sdl'[id].wait = sdl[id].wait
    BY <1>1, <1>4, <2>1, <2>4
  <2>6. NoneGranted(z)
    BY <1>8, <2>2 DEF NoneGranted
  <2>. QED
    BY <1>1, <1>2, <1>6, <2>1, <2>2, <2>5, <2>6, QuietReply DEF InTime
<1>9. CASE m.enc /\ r.hand = "done"
  <2>. DEFINE z0 == Frame("START_ACK", g, m.svc, m.enc)
              S == r.secure \cup {m.svc}
              r1 == [r EXCEPT !.secure = S]
  <2>1. sdl' = [sdl EXCEPT ![g] = r1] /\ toMobile' = Append(toMobile, z0)
    BY <1>9 DEF SdlStartService, Got, Reply
  <2>2. z0 \in Message /\ z0.type = "START_ACK" /\ z0.id = g /\ z0.svc = m.svc /\ z0.enc = m.enc
    BY <1>3, <1>7, FrameType DEF Frame
  <2>. HIDE DEF S, z0
  <2>3. r1.secure = S /\ r1.wait = r.wait
    BY <1>4 DEF SdlSession
  <2>. HIDE DEF r1
  <2>4. /\ sdl'[g].secure = S /\ \A id \in Ids : sdl'[id].wait = sdl[id].wait
        /\ \A id \in Ids : id # g => sdl'[id] = sdl[id]
    BY <1>1, <1>4, <2>1, <2>3
  <2>5. PICK z \in Message : /\ toMobile' = Append(toMobile, z) /\ z.type = "START_ACK" /\ z.id = g
                            /\ z.svc = m.svc /\ z.enc
    BY <1>9, <2>1, <2>2
  <2>6. ASSUME Ledger PROVE Forward /\ OnceAsked' /\ OnceGranted' /\ Agreeing'
    <3>1. \A x \in Keys : Waits(x)' => Waits(x)
      BY <2>4 DEF Waits, Keys
    <3>2. \A x \in Keys : Grants(z, x) => Requests(Got, x)
      BY <1>2, <1>9, <2>5 DEF Grants, Requests
    <3>3. Forward /\ OnceAsked' /\ OnceGranted'
      BY <1>1, <1>2, <2>5, <2>6, <3>1, <3>2, ReplyForward
    <3>4. ASSUME NEW s \in Sessions, NEW svc \in Services, NEW id, id = sessionId[s], id # 0
          PROVE  svc \in sdl'[id].secure <=> WillHold(s, id, svc)'
      <4>1. svc \in sdl[id].secure <=> WillHold(s, id, svc)
        BY <2>6, <3>4 DEF Ledger, Agreeing
      <4>2. id \in Ids /\ ~Revokes(z, id, svc)
        BY <1>1, <2>5, <3>4, TypeParts, SessionAssumption DEF IdTypes, Ids, Revokes
      <4>3. Confirms(z, id, svc) <=> id = g /\ svc = m.svc
        BY <2>5 DEF Confirms
      <4>4. CASE Confirms(z, id, svc)
        <5>1. WillHold(s, id, svc)'
          BY <1>1, <2>5, <4>4, WillEnd
        <5>. QED
          BY <2>4, <4>3, <4>4, <5>1 DEF S
      <4>5. CASE ~Confirms(z, id, svc)
        <5>1. WillHold(s, id, svc)' <=> WillHold(s, id, svc)
          BY <1>1, <1>6, <2>5, <4>2, <4>5, WillStayReply
        <5>2. svc \in sdl'[id].secure <=> svc \in sdl[id].secure
          BY <2>4, <4>2, <4>3, <4>5 DEF S
        <5>. QED
          BY <4>1, <5>1, <5>2
      <4>. QED
        BY <4>4, <4>5
    <3>5. Agreeing'
      BY <1>6, <3>4 DEF Agreeing
    <3>. QED
      BY <3>3, <3>5
  <2>. QED
    BY <1>1, <1>2, <1>4, <1>5, <2>4, <2>6, SdlConcord DEF InTime
<1>10. CASE m.enc /\ r.hand # "done"
  <2>. DEFINE z0 == [Frame("HANDSHAKE", g, "CONTROL", FALSE) EXCEPT !.cid = 1]
              H == IF r.hand = "none" THEN "hello" ELSE r.hand
              W == r.wait \cup {m.svc}
              r1 == [r EXCEPT !.wait = W, !.hand = H]
  <2>1. /\ sdl' = [sdl EXCEPT ![g] = r1]
        /\ toMobile' = Append(toMobile, z0) \/ UNCHANGED toMobile
    BY <1>1, <1>4, <1>10 DEF SdlStartService, Got, Reply
  <2>2. z0 \in Message /\ z0.type = "HANDSHAKE"
    BY <1>3, <1>7, NumberedType DEF Frame
  <2>. HIDE DEF W, H, z0
  <2>3. r1.wait = W /\ r1.secure = r.secure
    BY <1>4 DEF SdlSession
  <2>. HIDE DEF r1
  <2>4. /\ sdl'[g].wait = W /\ \A id \in Ids : sdl'[id].secure = sdl[id].secure
        /\ \A id \in Ids : id # g => sdl'[id] = sdl[id]
    BY <1>1, <1>4, <2>1, <2>3
  <2>5. PICK z \in Message : /\ toMobile' = Append(toMobile, z) \/ UNCHANGED toMobile
                            /\ z.type = "HANDSHAKE"
    BY <2>1, <2>2
  <2>6. /\ NoneGranted(z)
        /\ \A id, svc : ~Revokes(z, id, svc) /\ ~Confirms(z, id, svc)
    BY <2>5 DEF NoneGranted, Revokes, Confirms
  <2>7. FewerBack(0)
    <3>1. CASE UNCHANGED toMobile
      BY <1>1, <3>1, SameBack
    <3>2. CASE toMobile' = Append(toMobile, z)
      <4>1. \A i \in 1..Len(toMobile') :
              \/ i \in 1..Len(toMobile) /\ toMobile'[i] = toMobile[i]
              \/ i > Len(toMobile) /\ i = Len(toMobile) + 1 /\ toMobile'[i] = z
        BY <1>1, <3>2, ReplyWire
      <4>2. \A i \in 1..Len(toMobile) : i + 0 = i
        BY <1>1, TypeParts DEF WireTypes
      <4>. QED
        BY <2>6, <4>1, <4>2 DEF FewerBack
    <3>. QED
      BY <2>5, <3>1, <3>2
  <2>8. ASSUME Ledger PROVE Forward /\ OnceAsked' /\ OnceGranted' /\ Agreeing'
    <3>1. /\ OnceAsked' /\ \A x \in Keys : Asked(x)' => Asked(x)
          /\ \A x \in Keys : Requests(Got, x) => Asked(x) /\ ~Asked(x)'
      BY <1>1, <1>2, <2>8, GotAsked
    <3>2. OnceGranted' /\ \A x \in Keys : Granted(x)' => Granted(x)
      BY <2>7, <2>8, FewerGranted DEF Ledger
    <3>3. ASSUME NEW x \in Keys, Waits(x)'
          PROVE  Waits(x) \/ (Asked(x) /\ ~Asked(x)')
      <4>1. x.id \in Ids /\ x.kind = "start" /\ x.svc \in sdl'[x.id].wait
        BY <3>3 DEF Waits, Keys
      <4>2. Waits(x) \/ (x.id = g /\ x.svc = m.svc)
        BY <2>4, <4>1 DEF Waits, W
      <4>3. x.id = g /\ x.svc = m.svc => Requests(Got, x)
        BY <1>2, <1>10, <4>1 DEF Requests
      <4>. QED
        BY <3>1, <4>2, <4>3
    <3>4. Forward
      BY <3>1, <3>2, <3>3 DEF Forward
    <3>5. ASSUME NEW s \in Sessions, NEW svc \in Services, NEW id, id = sessionId[s], id # 0
          PROVE  svc \in sdl'[id].secure <=> WillHold(s, id, svc)'
      <4>1. svc \in sdl[id].secure <=> WillHold(s, id, svc)
        BY <2>8, <3>5 DEF Ledger, Agreeing
      <4>2. id \in Ids
        BY <1>1, <3>5, TypeParts, SessionAssumption DEF IdTypes, Ids
      <4>3. WillHold(s, id, svc)' <=> WillHold(s, id, svc)
        <5>1. CASE UNCHANGED toMobile
          BY <1>6, <5>1 DEF WillHold
        <5>2. CASE toMobile' = Append(toMobile, z)
          BY <1>1, <1>6, <2>6, <5>2, WillStayReply
        <5>. QED
          BY <2>5, <5>1, <5>2
      <4>. QED
        BY <2>4, <4>1, <4>2, <4>3
    <3>6. Agreeing'
      BY <1>6, <3>5 DEF Agreeing
    <3>. QED
      BY <3>1, <3>2, <3>4, <3>6
  <2>. QED
    BY <1>1, <1>2, <1>4, <1>5, <2>4, <2>8, SdlConcord DEF InTime
<1>. QED
  BY <1>8, <1>9, <1>10

(* The handshake is done: what waited is acknowledged, each once.          *)
LEMMA WillGrow ==
  ASSUME TypeOK, NEW s \in Sessions, NEW id, NEW svc, NEW w \in Seq(Message),
         toMobile' = toMobile \o w, \A k \in 1..Len(w) : ~Revokes(w[k], id, svc),
         \E k \in 1..Len(w) : Confirms(w[k], id, svc)
  PROVE  WillHold(s, id, svc)'
<1>1. toMobile \in Seq(Message)
  BY TypeParts DEF WireTypes
<1>2. PICK k \in 1..Len(w) : Confirms(w[k], id, svc)
  OBVIOUS
<1>. DEFINE n == Len(toMobile) + k
<1>3. n \in 1..Len(toMobile') /\ toMobile'[n] = w[k] /\ n > Len(toMobile)
  <2>1. n \in 1..Len(toMobile \o w) /\ (toMobile \o w)[n] = w[k] /\ Len(toMobile) \in Nat
    BY <1>1, Joined
  <2>. QED
    BY <2>1
<1>4. \A i \in 1..Len(toMobile') : i > n => ~Revokes(toMobile'[i], id, svc)
  <2>. SUFFICES ASSUME NEW i \in 1..Len(toMobile'), i > n
                PROVE  ~Revokes(toMobile'[i], id, svc)
    OBVIOUS
  <2>1. ~(i \in 1..Len(toMobile))
    BY <1>1
  <2>2. \E j \in 1..Len(w) : (toMobile \o w)[i] = w[j]
    <3>1. i \in 1..Len(toMobile \o w)
      OBVIOUS
    <3>. QED
      BY <1>1, <2>1, <3>1, JoinedLater
  <2>3. PICK j \in 1..Len(w) : (toMobile \o w)[i] = w[j]
    BY <2>2, Zenon
  <2>4. toMobile'[i] = w[j]
    BY <2>3, Zenon
  <2>5. ~Revokes(w[j], id, svc)
    BY Zenon
  <2>. QED
    BY <2>4, <2>5, Zenon
<1>. HIDE DEF n
<1>. QED
  BY <1>2, <1>3, <1>4 DEF WillHold

LEMMA AcksForward ==
  ASSUME TypeOK, Ledger, toSDL # <<>>, toSDL' = Tail(toSDL), NEW g \in Ids,
         NEW w \in Seq(Message), toMobile' = toMobile \o w,
         \A i, k \in 1..Len(w) : w[i] = w[k] => i = k,
         \A k \in 1..Len(w) : \E v \in sdl[g].wait : w[k] = Frame("START_ACK", g, v, TRUE),
         sdl'[g].wait = {}, \A id \in Ids : id # g => sdl'[id] = sdl[id]
  PROVE  Forward /\ OnceAsked' /\ OnceGranted'
<1>1. OnceAsked' /\ \A x \in Keys : Asked(x)' => Asked(x)
  BY GotAsked
<1>2. toMobile \in Seq(Message)
  BY TypeParts DEF WireTypes
<1>3. \A x \in Keys : Waits(x)' => Waits(x) /\ x.id # g
  BY DEF Waits, Keys
<1>4. ASSUME NEW x \in Keys, NEW k \in 1..Len(w), Grants(w[k], x)
      PROVE  Waits(x) /\ x.id = g /\ w[k] = Frame("START_ACK", g, x.svc, TRUE)
  <2>1. PICK v \in sdl[g].wait : w[k] = Frame("START_ACK", g, v, TRUE)
    OBVIOUS
  <2>2. w[k].type = "START_ACK" /\ w[k].id = g /\ w[k].svc = v
    BY <2>1 DEF Frame
  <2>3. x.id = g /\ x.svc = v /\ x.kind = "start"
    BY <1>4, <2>2 DEF Grants, Keys
  <2>. QED
    BY <2>1, <2>3 DEF Waits
<1>5. \A i \in 1..Len(toMobile') :
        \/ i \in 1..Len(toMobile) /\ toMobile'[i] = toMobile[i]
        \/ \E k \in 1..Len(w) : i = Len(toMobile) + k /\ toMobile'[i] = w[k]
  <2>1. /\ Len(toMobile \o w) = Len(toMobile) + Len(w) /\ Len(toMobile) \in Nat /\ Len(w) \in Nat
        /\ \A i \in 1..Len(toMobile) : (toMobile \o w)[i] = toMobile[i]
        /\ \A k \in 1..Len(w) : (toMobile \o w)[Len(toMobile) + k] = w[k]
    BY <1>2, Joined
  <2>2. \A i \in 1..Len(toMobile') :
          i \in 1..Len(toMobile) \/ \E k \in 1..Len(w) : i = Len(toMobile) + k
    <3>1. ASSUME NEW i \in 1..Len(toMobile'), ~(i \in 1..Len(toMobile))
          PROVE  i - Len(toMobile) \in 1..Len(w) /\ i = Len(toMobile) + (i - Len(toMobile))
      BY <2>1, <3>1
    <3>. QED
      BY <3>1
  <2>. QED
    BY <2>1, <2>2
<1>6. ASSUME NEW x \in Keys, Granted(x)'
      PROVE  Granted(x) \/ ((Asked(x) \/ Waits(x)) /\ ~Asked(x)' /\ ~Waits(x)')
  <2>1. Granted(x) \/ \E k \in 1..Len(w) : Grants(w[k], x)
    BY <1>5, <1>6 DEF Granted
  <2>2. CASE \E k \in 1..Len(w) : Grants(w[k], x)
    <3>1. Waits(x) /\ x.id = g
      BY <1>4, <2>2
    <3>2. ~Asked(x)
      BY <3>1 DEF Ledger, OncePlaced
    <3>. QED
      BY <1>1, <1>3, <3>1, <3>2
  <2>. QED
    BY <2>1, <2>2
<1>7. Forward
  BY <1>1, <1>3, <1>6 DEF Forward
<1>8. ASSUME NEW x \in Keys, NEW i \in 1..Len(toMobile'), NEW j \in 1..Len(toMobile'),
             Grants(toMobile'[i], x), Grants(toMobile'[j], x)
      PROVE  i = j
  <2>1. CASE Waits(x)
    <3>1. \A k \in 1..Len(toMobile) : ~Grants(toMobile[k], x)
      BY <2>1 DEF Ledger, OncePlaced, Granted
    <3>2. PICK k \in 1..Len(w) : i = Len(toMobile) + k /\ Grants(w[k], x)
      BY <1>5, <1>8, <3>1
    <3>3. PICK l \in 1..Len(w) : j = Len(toMobile) + l /\ Grants(w[l], x)
      BY <1>5, <1>8, <3>1
    <3>4. w[k] = Frame("START_ACK", g, x.svc, TRUE)
      BY <1>4, <3>2, Zenon
    <3>5. w[l] = Frame("START_ACK", g, x.svc, TRUE)
      BY <1>4, <3>3, Zenon
    <3>6. k = l
      BY <3>4, <3>5
    <3>. QED
      BY <3>2, <3>3, <3>6
  <2>2. CASE ~Waits(x)
    <3>1. /\ i \in 1..Len(toMobile) /\ j \in 1..Len(toMobile)
          /\ Grants(toMobile[i], x) /\ Grants(toMobile[j], x)
      BY <1>4, <1>5, <1>8, <2>2
    <3>. QED
      BY <3>1 DEF Ledger, OnceGranted
  <2>. QED
    BY <2>1, <2>2
<1>9. OnceGranted'
  BY <1>8 DEF OnceGranted
<1>. QED
  BY <1>1, <1>7, <1>9

LEMMA HandshakenConcord ==
  ASSUME Orderly, Concord, SdlHandshake
  PROVE  Concord'
<1>. DEFINE m == Got
            g == m.id
            r == sdl[g]
<1>1. TypeOK /\ sdl \in [Ids -> SdlSession] /\ FromMobile
  BY TypeParts DEF Orderly, SdlTypes
<1>2. /\ toSDL # <<>> /\ toSDL' = Tail(toSDL) /\ UNCHANGED mobileVars /\ UNCHANGED seen
  BY DEF SdlHandshake, Take
<1>3. m = toSDL[1] /\ 1 \in 1..Len(toSDL) /\ g \in 0..MaxId
  BY <1>1, <1>2, GotTypes
<1>4. UNCHANGED <<sessionId, encryptedServices>> /\ Fewer(1)
  BY <1>1, <1>2, TakenFewer DEF mobileVars, idVars, securityVars
<1>5. CASE Live(g) /\ m.cid = 1 /\ r.hand = "hello"
  <2>. DEFINE z == [Frame("HANDSHAKE", g, "CONTROL", FALSE) EXCEPT !.cid = 2]
              r1 == [r EXCEPT !.hand = "finish"]
  <2>1. sdl' = [sdl EXCEPT ![g] = r1] /\ toMobile' = Append(toMobile, z)
    BY <1>5 DEF SdlHandshake, Got, Reply
  <2>2. g \in Ids /\ r \in SdlSession
    BY <1>1, <1>5 DEF Live
  <2>3. z \in Message /\ z.type = "HANDSHAKE"
    <3>1. "HANDSHAKE" \in MessageTypes /\ "CONTROL" \in Named
      BY DEF MessageTypes, Named
    <3>. QED
      BY <1>3, <3>1, NumberedType DEF Frame
  <2>4. r1.wait = r.wait /\ r1.secure = r.secure
    BY <2>2 DEF SdlSession
  <2>. HIDE DEF z, r1
  <2>5. \A id \in Ids : sdl'[id].secure = sdl[id].secure /\ sdl'[id].wait = sdl[id].wait
    BY <1>1, <2>1, <2>2, <2>4
  <2>6. NoneGranted(z)
    BY <2>3 DEF NoneGranted
  <2>. QED
    BY <1>1, <1>2, <1>4, <2>1, <2>3, <2>5, <2>6, QuietReply DEF InTime
<1>6. CASE /\ ~(Live(g) /\ m.cid = 1 /\ r.hand = "hello")
           /\ Live(g) /\ m.cid = 2 /\ r.hand = "finish"
  <2>. DEFINE A == Acks(g, r.wait)
              w == SetToSeq(A)
              none == {}
              S == r.secure \cup r.wait
              r1 == [r EXCEPT !.hand = "done", !.wait = none, !.secure = S]
  <2>1. g \in Ids /\ g # 0 /\ r \in SdlSession /\ r.wait \in SUBSET Services
    <3>1. g \in Ids
      BY <1>6 DEF Live
    <3>2. r \in SdlSession
      BY <1>1, <3>1
    <3>. QED
      BY <3>1, <3>2 DEF SdlSession, Ids
  <2>2. sdl' = [sdl EXCEPT ![g] = r1] /\ toMobile' = toMobile \o w
    BY <1>1, <1>6, <2>1 DEF SdlHandshake, Got, Acks
  <2>3. w \in Seq(A) /\ (\A i, k \in 1..Len(w) : w[i] = w[k] => i = k)
        /\ \A x \in A : \E i \in 1..Len(w) : w[i] = x
    <3>1. w \in Seq(A)
      BY <2>1, AcksInSequence
    <3>2. /\ \A i, k \in 1..Len(w) : w[i] = w[k] => i = k
          /\ \A x \in A : \E i \in 1..Len(w) : w[i] = x
      BY <2>1, AcksOnce
    <3>. QED
      BY <3>1, <3>2
  <2>4. ASSUME NEW x \in A
        PROVE  /\ x \in Message /\ x.type = "START_ACK" /\ x.id = g /\ x.enc /\ x.svc \in r.wait
               /\ \E v \in r.wait : x = Frame("START_ACK", g, v, TRUE)
    <3>1. PICK v \in r.wait : x = Frame("START_ACK", g, v, TRUE)
      BY DEF Acks
    <3>2. v \in Named /\ "START_ACK" \in MessageTypes
      BY <2>1 DEF Named, MessageTypes
    <3>. QED
      BY <1>3, <3>1, <3>2, FrameType DEF Frame
  <2>5. ASSUME NEW v \in r.wait
        PROVE  \E x \in A : x.svc = v
    <3>1. Frame("START_ACK", g, v, TRUE) \in A /\ Frame("START_ACK", g, v, TRUE).svc = v
      BY DEF Acks, Frame
    <3>. QED
      BY <3>1
  <2>. HIDE DEF A, w, S
  <2>6. r1.wait = {} /\ r1.secure = S
    BY <2>1 DEF SdlSession
  <2>. HIDE DEF r1
  <2>7. /\ sdl'[g].wait = {} /\ sdl'[g].secure = S
        /\ \A id \in Ids : id # g => sdl'[id] = sdl[id]
    BY <1>1, <2>1, <2>2, <2>6
  <2>8. w \in Seq(Message) /\ \A k \in 1..Len(w) : w[k] \in A
    <3>1. w \in Seq(A)
      BY <2>3
    <3>2. \A x \in A : x \in Message
      BY <2>4
    <3>3. Len(w) \in Nat /\ \A k \in 1..Len(w) : w[k] \in A
      BY <3>1
    <3>4. \A k \in 1..Len(w) : w[k] \in Message
      BY <3>2, <3>3
    <3>5. w = [k \in 1..Len(w) |-> w[k]]
      BY <3>1
    <3>6. w \in Seq(Message)
      BY <3>3, <3>4, <3>5
    <3>. QED
      BY <3>3, <3>6
  <2>9. Owned(g)
    BY <1>1, <1>3, <2>1 DEF FromMobile, SentOwned
  <2>10. ASSUME Ledger PROVE Forward /\ OnceAsked' /\ OnceGranted' /\ Agreeing'
    <3>1. Forward /\ OnceAsked' /\ OnceGranted'
      <4>1. \A k \in 1..Len(w) : \E v \in sdl[g].wait : w[k] = Frame("START_ACK", g, v, TRUE)
        BY <2>4, <2>8
      <4>. QED
        BY <1>1, <1>2, <2>1, <2>2, <2>3, <2>7, <2>8, <2>10, <4>1, AcksForward
    <3>2. ASSUME NEW s \in Sessions, NEW svc \in Services, NEW id, id = sessionId[s], id # 0
          PROVE  svc \in sdl'[id].secure <=> WillHold(s, id, svc)'
      <4>1. svc \in sdl[id].secure <=> WillHold(s, id, svc)
        BY <2>10, <3>2 DEF Ledger, Agreeing
      <4>2. id \in Ids
        BY <1>1, <3>2, TypeParts, SessionAssumption DEF IdTypes, Ids
      <4>3. \A k \in 1..Len(w) : ~Revokes(w[k], id, svc)
        BY <2>4, <2>8 DEF Revokes
      <4>4. CASE id = g /\ svc \in r.wait
        <5>1. \E k \in 1..Len(w) : Confirms(w[k], id, svc)
          <6>1. PICK x \in A : x.svc = svc
            BY <2>5, <4>4
          <6>2. PICK k \in 1..Len(w) : w[k] = x
            BY <2>3, <6>1
          <6>3. x.type = "START_ACK" /\ x.id = id /\ x.enc
            BY <2>4, <4>4
          <6>. QED
            BY <6>1, <6>2, <6>3 DEF Confirms
        <5>2. WillHold(s, id, svc)'
          BY <1>1, <2>2, <2>8, <4>3, <5>1, WillGrow
        <5>. QED
          BY <2>7, <4>4, <5>2 DEF S
      <4>5. CASE ~(id = g /\ svc \in r.wait)
        <5>1. \A k \in 1..Len(w) : ~Confirms(w[k], id, svc)
          BY <2>4, <2>8, <4>5 DEF Confirms
        <5>2. WillHold(s, id, svc)' <=> WillHold(s, id, svc)
          BY <1>1, <1>4, <2>2, <2>8, <4>3, <5>1, WillStay
        <5>3. svc \in sdl'[id].secure <=> svc \in sdl[id].secure
          BY <2>7, <4>2, <4>5 DEF S
        <5>. QED
          BY <4>1, <5>2, <5>3
      <4>. QED
        BY <4>4, <4>5
    <3>3. Agreeing'
      BY <1>4, <3>2 DEF Agreeing
    <3>. QED
      BY <3>1, <3>3
  <2>. QED
    BY <1>1, <1>2, <2>1, <2>7, <2>9, <2>10, SdlConcord DEF InTime
<1>7. CASE /\ ~(Live(g) /\ m.cid = 1 /\ r.hand = "hello")
           /\ ~(Live(g) /\ m.cid = 2 /\ r.hand = "finish")
  <2>1. UNCHANGED <<sdl, toMobile>>
    BY <1>7 DEF SdlHandshake, Got
  <2>. QED
    BY <1>1, <1>2, <1>4, <2>1, QuietSilence DEF InTime
<1>. QED
  BY <1>5, <1>6, <1>7

-----------------------------------------------------------------------------
LEMMA ConcordInit == Init => Concord
<1>. SUFFICES ASSUME Init PROVE Concord
  OBVIOUS
<1>1. Blank /\ Single
  BY DEF Init, Blank, Single, Free
<1>2. \A x \in Keys : ~Asked(x) /\ ~Waits(x) /\ ~Granted(x)
  BY DEF Init, Asked, Waits, Granted, Keys, Free
<1>3. Pending /\ OncePlaced
  BY <1>2 DEF Pending, OncePlaced
<1>4. OnceAsked /\ OnceGranted
  BY DEF Init, OnceAsked, OnceGranted
<1>5. Agreeing
  BY DEF Init, Agreeing
<1>. QED
  BY <1>1, <1>3, <1>4, <1>5 DEF Concord

LEMMA ConcordStep ==
  ASSUME Regular, Orderly, Concord, [Next]_vars
  PROVE  Concord'
<1>1. ASSUME NEW s \in Sessions, Script(s) PROVE Concord'
  BY <1>1, StartConcord, StopConcord, EncryptedConcord, StartHeartbeatConcord, BeatsConcord,
     StartServiceConcord, StopServiceConcord, StartSecureConcord DEF Script
<1>2. ASSUME NEW s \in Sessions, SendHeartbeat(s) PROVE Concord'
  BY <1>2, BeatsConcord
<1>3. ASSUME NEW e \in Collected, Expire(e) PROVE Concord'
  BY <1>3, ExpireConcord
<1>4. CASE EndStep
  BY <1>4, EndStepConcord
<1>5. CASE Deliver
  BY <1>5, DeliverConcord
<1>6. CASE Sdl
  <2>1. ~SdlRefuse
    BY SdlRefuseStep, OrderlyRefuses DEF Orderly
  <2>. QED
    BY <1>6, <2>1, NewSessionConcord, StartedConcord, EndedConcord, HandshakenConcord,
       RequestedConcord, HeartbeatInConcord DEF Sdl
<1>7. ASSUME NEW id \in Ids, SdlHeartbeat(id) PROVE Concord'
  BY <1>7, PingConcord
<1>8. CASE UNCHANGED vars
  <2>1. Blank' /\ Single' /\ (InTime' <=> InTime)
    BY <1>8 DEF Concord, Blank, Single, Owned, InTime, vars
  <2>2. Pending => Pending'
    BY <1>8 DEF Pending, Asked, Waits, Granted, Unanswered, vars
  <2>3. (OnceAsked => OnceAsked') /\ (OnceGranted => OnceGranted')
    BY <1>8 DEF OnceAsked, OnceGranted, vars
  <2>4. OncePlaced => OncePlaced'
    BY <1>8 DEF OncePlaced, Asked, Waits, Granted, vars
  <2>5. Agreeing => Agreeing'
    BY <1>8 DEF Agreeing, WillHold, vars
  <2>. QED
    BY <2>1, <2>2, <2>3, <2>4, <2>5 DEF Concord
<1>. QED
  BY <1>1, <1>2, <1>3, <1>4, <1>5, <1>6, <1>7, <1>8 DEF Next

(* When nothing is under way, a session and SDL agree which services are   *)
(* secure, whatever order starts, stops and handshakes came in, also when  *)
(* a secure service is started between the end of the handshake and the    *)
(* acknowledgement of another.  Assumed: SDL refuses nothing and gives no  *)
(* id twice, and the script uses each session object once; a timeout may   *)
(* happen, and then the property claims nothing.                           *)
THEOREM AgreementCorrect ==
  ASSUME Faults \cap {"nack", "reuse", "restart", "stopped"} = {}
  PROVE  Spec => []Agreement
<1>1. Init => Orderly /\ Concord
  BY OrderlyInit, ConcordInit
<1>2. Orderly /\ Concord /\ [Next]_vars => (Orderly /\ Concord)'
  BY OrderlyStep, ConcordStep DEF Regular
<1>3. Orderly /\ Concord => Agreement
  <2>1. ASSUME TypeOK, Agreeing, toSDL = <<>>, toMobile = <<>>, NEW s \in Sessions, sessionId[s] # 0
        PROVE  encryptedServices[s] = sdl[sessionId[s]].secure
    <3>1. \A svc \in Services : svc \in sdl[sessionId[s]].secure <=> svc \in encryptedServices[s]
      BY <2>1 DEF Agreeing, WillHold
    <3>2. sessionId[s] \in Ids
      BY <2>1, TypeParts, SessionAssumption DEF IdTypes, Ids
    <3>3. encryptedServices[s] \subseteq Services /\ sdl[sessionId[s]].secure \subseteq Services
      BY <2>1, <3>2, TypeParts DEF SecurityTypes, SdlTypes, SdlSession
    <3>. QED
      BY <3>1, <3>3
  <2>. QED
    BY <2>1 DEF Orderly, Concord, InTime, Agreement
<1>. QED
  BY <1>1, <1>2, <1>3, PTL DEF Spec
=============================================================================
