--------------------------- MODULE MobileSession ---------------------------
(***************************************************************************)
(* Mobile sessions of one connection: the session                          *)
(* (modules/mobile_session_impl.lua), its control service                  *)
(* (services/control_service.lua), RPC service (services/rpc_service.lua), *)
(* heartbeat monitor (services/heartbeat_monitor.lua) and security         *)
(* (security/security_manager.lua), driven by a test script, against SDL.  *)
(*                                                                         *)
(* Every Lua function below runs to its end in the one thread of ATF.  What*)
(* interleaves is the script, the heartbeat timers, the messages of SDL,   *)
(* which the connection delivers in order, and the end of a test step.     *)
(*                                                                         *)
(* An expectation is registered with the event dispatcher under a matching *)
(* function that reads the session when a message comes in, not when it is *)
(* made; of several matching ones any may be called.  Its actions run      *)
(* BEFORE validate() gives it the status of this message: the tests        *)
(* "status == FAILED" in the actions see an earlier timeout or a surplus   *)
(* answer, never the refusal at hand.                                      *)
(***************************************************************************)
EXTENDS Integers, Sequences, FiniteSets, SequencesExt

CONSTANTS
  Sessions,    \* the MobileSession objects of the script
  MaxId,       \* SDL gives session ids 1..MaxId
  Streams,     \* services other than RPC (audio, video)
  Flags,       \* activateHeartbeat, sendHeartbeatToSDL, ... of the sessions
  Faults,      \* what may go wrong: see Oddities
  Nil,         \* no session
  Version,     \* config.defaultProtocolVersion
  MaxUses,     \* bound: calls of Start and Stop on one session
  MaxCalls,    \* bound: last correlation id the script uses
  MaxWire      \* bound: messages sent unasked while that many are in transit

RPC == "RPC"
Services == {RPC} \cup Streams
Ids == 1..MaxId
AllFlags == {"activate", "send", "answer", "ignoreAck"}

(* "nack" SDL refuses a service, "reject" the registration, "timeout" a    *)
(* step ends without the answer, "reuse" SDL gives the id of an ended      *)
(* session again, "restart" the script starts or stops a session object    *)
(* twice, "stopped" it uses one it has stopped, "overlap" it starts a      *)
(* secure service between the end of the handshake and the acknowledgement *)
(* of another.                                                             *)
Oddities == {"nack", "reject", "timeout", "reuse", "restart", "stopped", "overlap"}

ASSUME SessionAssumption ==
  /\ MaxId \in Nat \ {0}
  /\ IsFiniteSet(Streams) /\ RPC \notin Streams
  /\ Flags \subseteq AllFlags
  /\ Faults \subseteq Oddities
  /\ Nil \notin Sessions
  /\ Version \in Nat /\ MaxUses \in Nat /\ MaxCalls \in Nat /\ MaxWire \in Nat

VARIABLES
  sessionId,         \* MobileSession.sessionId, 0 before the first answer
  hashCode,          \* hashCode ~= 0
  correlationId,     \* MobileSession.correlationId
  isSecuredSession,
  encryptedServices, \* security.encryptedServices
  ssl,               \* security.ssl: none, new, hello (half way), finished
  mobileSecurities,  \* SecurityManager.mobileSecurities
  heartbeat,         \* the heartbeat monitors
  pool,              \* expectations registered with the event dispatcher
  startEvents,       \* the StartEvent handlers of the connection, one for a Start
  uses,              \* calls of Start and Stop
  toSDL, toMobile,   \* the connection
  sdl,               \* external: the sessions SDL knows
  seen               \* history: the faults that happened

vars == <<sessionId, hashCode, correlationId, isSecuredSession, encryptedServices,
          ssl, mobileSecurities, heartbeat, pool, startEvents, uses, toSDL, toMobile,
          sdl, seen>>
securityVars == <<isSecuredSession, encryptedServices, ssl, mobileSecurities>>
idVars == <<sessionId, hashCode>>

-----------------------------------------------------------------------------
(* Messages and expectations                                               *)

Frame(type, id, svc, enc) ==
  [type |-> type, id |-> id, svc |-> svc, enc |-> enc, cid |-> 0, ok |-> TRUE]
Call(type, id, enc, cid, ok) ==
  [type |-> type, id |-> id, svc |-> RPC, enc |-> enc, cid |-> cid, ok |-> ok]
Beat(type, id) == Frame(type, id, "CONTROL", FALSE)
IsBeat(m) == m.type \in {"HEARTBEAT", "HEARTBEAT_ACK"}

(* ExpectEvent: kind says which function made the expectation.             *)
Expect(s, kind, svc, enc, cid) ==
  [s |-> s, kind |-> kind, svc |-> svc, enc |-> enc, cid |-> cid, status |-> "none",
   listed |-> TRUE]

(* Its status after m: validate() with the ValidIf of the expectation and  *)
(* Times(1), Times(AtLeast(1)) for a handshake.                            *)
Refusal(m) == m.type \in {"START_NACK", "END_NACK"} \/ ~m.ok
Validated(e, m) ==
  IF e.status = "FAILED" \/ Refusal(m) \/ (e.status = "SUCCESS" /\ e.kind # "handshake")
  THEN "FAILED" ELSE "SUCCESS"

(* Mutant: an RPC start takes any answer, with an id or without.           *)
MatchesAnyStart(e, m) ==
  LET own == m.id = sessionId[e.s] IN
  CASE e.kind = "start" ->
         /\ m.type \in {"START_ACK", "START_NACK"} /\ m.svc = e.svc /\ m.enc = e.enc
         /\ own \/ e.svc = RPC
    [] e.kind = "end" -> m.type \in {"END_ACK", "END_NACK"} /\ m.svc = e.svc /\ own
    [] e.kind = "handshake" -> m.type = "HANDSHAKE" /\ own
    [] e.kind = "beat" -> m.type = "HEARTBEAT" /\ own
    [] e.kind = "beatAck" -> m.type = "HEARTBEAT_ACK" /\ own
    [] e.kind = "response" -> m.type = "RESPONSE" /\ m.cid = e.cid /\ own

(* The functions event.matches.  The id is the one the session has now;    *)
(* the RPC start of a session without an id takes any session's answer.    *)
Matches(e, m) ==
  LET own == m.id = sessionId[e.s] IN
  CASE e.kind = "start" ->
         /\ m.type \in {"START_ACK", "START_NACK"} /\ m.svc = e.svc /\ m.enc = e.enc
         /\ own \/ (e.svc = RPC /\ sessionId[e.s] = 0)
    [] e.kind = "end" -> m.type \in {"END_ACK", "END_NACK"} /\ m.svc = e.svc /\ own
    [] e.kind = "handshake" -> m.type = "HANDSHAKE" /\ own
    [] e.kind = "beat" -> m.type = "HEARTBEAT" /\ own
    [] e.kind = "beatAck" -> m.type = "HEARTBEAT_ACK" /\ own
    [] e.kind = "response" -> m.type = "RESPONSE" /\ m.cid = e.cid /\ own

-----------------------------------------------------------------------------
(* Heartbeat monitor                                                       *)

Idle == [enabled |-> FALSE, confirmed |-> FALSE, timerStarted |-> FALSE, timer |-> FALSE]

(* OnMessageSent: any other message than a heartbeat restarts the timer,   *)
(* once it was started, even when StopHeartbeat has stopped it.            *)
OnMessageSent(h) == [h EXCEPT !.timer = @ \/ ("activate" \in Flags /\ h.timerStarted)]

(* StartHeartbeat: the monitor after it, what it sends and expects.        *)
Starting(h) == "activate" \in Flags /\ ~h.enabled
StartHeartbeat(h) ==
  IF ~Starting(h) THEN h
  ELSE [enabled |-> TRUE,
        confirmed |-> h.confirmed \/ "ignoreAck" \in Flags,
        timerStarted |-> h.timerStarted \/ "send" \in Flags,
        timer |-> h.timer \/ "send" \in Flags]
FirstBeat(h, id) == IF Starting(h) THEN <<Beat("HEARTBEAT", id)>> ELSE <<>>
BeatExpectations(s, h) ==
  IF ~Starting(h) \/ h.confirmed THEN {}
  ELSE {Expect(s, "beat", "CONTROL", FALSE, 0)} \cup
       (IF "ignoreAck" \in Flags THEN {} ELSE {Expect(s, "beatAck", "CONTROL", FALSE, 0)})

StopHeartbeat(h) ==
  IF h.enabled THEN [h EXCEPT !.enabled = FALSE, !.timer = @ /\ ~h.timerStarted] ELSE h

-----------------------------------------------------------------------------
(* The test script                                                         *)

Room == Len(toSDL) + Len(toMobile) < MaxWire
Odd(f, cond) == /\ cond => f \in Faults
                /\ seen' = IF cond THEN seen \cup {f} ELSE seen
Stopped(s) == uses[s] # 1

(* AddEvent and the list.  Bound: the script makes a call once in a step.  *)
SameCall(e, f) == e = [f EXCEPT !.status = e.status, !.listed = e.listed]
Added(E) == /\ \A e \in E, f \in pool : SameCall(e, f) => e.kind = "handshake"
            /\ pool' = pool \cup E

(* MobileSession:Send of one message, with the heartbeat timer restarted.  *)
Send(s, m) == /\ toSDL' = Append(toSDL, m)
              /\ heartbeat' = [heartbeat EXCEPT ![s] = OnMessageSent(@)]

(* Start: StartService(RPC); what follows is in the actions (OnStartRPC).  *)
(* The expectation it returns is registered for the StartEvent of the      *)
(* connection, and never removed: it is on no list.  by are the sessions   *)
(* whose StartEvent it got.                                                *)
Start(s) ==
  /\ Room /\ uses[s] < MaxUses
  /\ Odd("restart", uses[s] # 0)
  /\ uses' = [uses EXCEPT ![s] = @ + 1]
  /\ startEvents' = startEvents \cup {[s |-> s, nr |-> uses[s] + 1, by |-> {}]}
  /\ Added({Expect(s, "start", RPC, FALSE, 0)})
  /\ Send(s, Frame("START", sessionId[s], RPC, FALSE))
  /\ UNCHANGED <<idVars, correlationId, securityVars, toMobile, sdl>>

(* Stop: the assertion on hashCode, END_SERVICE, then StopHeartbeat.       *)
Stop(s) ==
  /\ Room /\ hashCode[s] /\ uses[s] < MaxUses
  /\ Odd("restart", uses[s] # 1)
  /\ uses' = [uses EXCEPT ![s] = @ + 1]
  /\ toSDL' = Append(toSDL, Frame("END", sessionId[s], RPC, FALSE))
  /\ heartbeat' = [heartbeat EXCEPT ![s] = StopHeartbeat(OnMessageSent(@))]
  /\ Added({Expect(s, "end", RPC, FALSE, 0)})
  /\ UNCHANGED <<idVars, correlationId, securityVars, startEvents, toMobile, sdl>>

StartService(s, svc) ==
  /\ Room /\ sessionId[s] # 0
  /\ Odd("stopped", Stopped(s))
  /\ Added({Expect(s, "start", svc, FALSE, 0)})
  /\ Send(s, Frame("START", sessionId[s], svc, FALSE))
  /\ UNCHANGED <<idVars, correlationId, securityVars, startEvents, uses, toMobile, sdl>>

(* StartSecureService: until the session is secured it registers its       *)
(* security, prepares a handshake unless one is under way, and expects the *)
(* handshake of SDL.                                                       *)
PreparedSsl(state) == IF state \in {"none", "finished"} THEN "new" ELSE state
Overlap(s) == ~isSecuredSession[s] /\ ssl[s] = "finished"
StartSecureService(s, svc) ==
  /\ Room /\ sessionId[s] # 0
  /\ Overlap(s) => "overlap" \in Faults
  /\ Stopped(s) => "stopped" \in Faults
  /\ seen' = seen \cup {f \in {"overlap"} : Overlap(s)} \cup {f \in {"stopped"} : Stopped(s)}
  /\ IF isSecuredSession[s]
     THEN /\ Added({Expect(s, "start", svc, TRUE, 0)})
          /\ UNCHANGED <<ssl, mobileSecurities>>
     ELSE /\ Added({Expect(s, "start", svc, TRUE, 0), Expect(s, "handshake", svc, FALSE, 0)})
          /\ ssl' = [ssl EXCEPT ![s] = PreparedSsl(@)]
          /\ mobileSecurities' = [mobileSecurities EXCEPT ![sessionId[s]] =
                                    IF @ = Nil THEN s ELSE @]
  /\ Send(s, Frame("START", sessionId[s], svc, TRUE))
  /\ UNCHANGED <<idVars, correlationId, isSecuredSession, encryptedServices, startEvents,
                 uses, toMobile, sdl>>

StopService(s, svc) ==
  /\ Room /\ hashCode[s]
  /\ Odd("stopped", Stopped(s))
  /\ Added({Expect(s, "end", svc, FALSE, 0)})
  /\ Send(s, Frame("END", sessionId[s], svc, FALSE))
  /\ UNCHANGED <<idVars, correlationId, securityVars, startEvents, uses, toMobile, sdl>>

(* SecurityManager:encrypt finds a registered security whose handshake is  *)
(* finished; it raises an error otherwise.                                 *)
Ready(id) == mobileSecurities[id] # Nil /\ ssl[mobileSecurities[id]] = "finished"

(* SendEncryptedRPC and ExpectEncryptedResponse.  Without a secure RPC     *)
(* service it only prints an error, and an encryption error leaves nothing *)
(* but the new correlation id.                                             *)
SendEncryptedRPC(s) ==
  LET cid == correlationId[s] + 1 IN
  /\ Room /\ cid <= MaxCalls
  /\ isSecuredSession[s] /\ RPC \in encryptedServices[s]
  /\ Odd("stopped", Stopped(s))
  /\ correlationId' = [correlationId EXCEPT ![s] = cid]
  /\ IF Ready(sessionId[s])
     THEN /\ Added({Expect(s, "response", RPC, TRUE, cid)})
          /\ Send(s, Call("REQUEST", sessionId[s], TRUE, cid, TRUE))
     ELSE UNCHANGED <<pool, toSDL, heartbeat>>
  /\ UNCHANGED <<idVars, securityVars, startEvents, uses, toMobile, sdl>>

(* The script may switch the heartbeat itself.                             *)
StopHeartbeatCall(s) ==
  /\ heartbeat[s].enabled
  /\ heartbeat' = [heartbeat EXCEPT ![s] = StopHeartbeat(@)]
  /\ UNCHANGED <<idVars, correlationId, securityVars, pool, startEvents, uses, toSDL,
                 toMobile, sdl, seen>>
StartHeartbeatCall(s) ==
  /\ Room /\ sessionId[s] # 0 /\ Starting(heartbeat[s])
  /\ Odd("restart", uses[s] # 1)
  /\ heartbeat' = [heartbeat EXCEPT ![s] = StartHeartbeat(@)]
  /\ toSDL' = toSDL \o FirstBeat(heartbeat[s], sessionId[s])
  /\ pool' = pool \cup BeatExpectations(s, heartbeat[s])
  /\ UNCHANGED <<idVars, correlationId, securityVars, startEvents, uses, toMobile, sdl>>

-----------------------------------------------------------------------------
(* Timer and end of a step                                                 *)

(* Mutant: the timer does not look at heartbeatEnabled.                    *)
SendHeartbeatAlways(s) ==
  /\ Room /\ heartbeat[s].timer /\ "send" \in Flags
  /\ toSDL' = Append(toSDL, Beat("HEARTBEAT", sessionId[s]))
  /\ UNCHANGED <<idVars, correlationId, securityVars, heartbeat, pool, startEvents, uses,
                 toMobile, sdl, seen>>

(* The timer of the monitor: qtproxy.SendHeartbeat.                        *)
SendHeartbeat(s) ==
  /\ Room /\ heartbeat[s].timer
  /\ heartbeat[s].enabled /\ "send" \in Flags
  /\ toSDL' = Append(toSDL, Beat("HEARTBEAT", sessionId[s]))
  /\ UNCHANGED <<idVars, correlationId, securityVars, heartbeat, pool, startEvents, uses,
                 toMobile, sdl, seen>>

(* Listed expectations that are not pinned ("beat" is).  An unanswered one *)
(* fails at its timeout but stays registered while the step goes on.       *)
Collected == {e \in pool : e.listed /\ e.kind # "beat"}
Expire(e) ==
  /\ e.status = "none" /\ "timeout" \notin seen    \* bound: one timeout
  /\ Odd("timeout", TRUE)
  /\ pool' = (pool \ {e}) \cup {[e EXCEPT !.status = "FAILED"]}
  /\ UNCHANGED <<idVars, correlationId, securityVars, heartbeat, startEvents, uses, toSDL,
                 toMobile, sdl>>

(* Mutant: a pinned expectation is unregistered like the others.           *)
EndStepPinned ==
  /\ Collected # {} /\ \A e \in Collected : e.status # "none"
  /\ pool' = {e \in pool : ~e.listed}
  /\ UNCHANGED <<idVars, correlationId, securityVars, heartbeat, startEvents, uses, toSDL,
                 toMobile, sdl, seen>>

(* CheckStatus ends a step when all of them have a status.                 *)
EndStep ==
  /\ Collected # {} /\ \A e \in Collected : e.status # "none"
  /\ pool' = pool \ Collected
  /\ UNCHANGED <<idVars, correlationId, securityVars, heartbeat, startEvents, uses, toSDL,
                 toMobile, sdl, seen>>

-----------------------------------------------------------------------------
(* A message of SDL: RaiseEvent and the actions of the expectation found   *)

Handled(e, m) == (pool \ {e}) \cup {[e EXCEPT !.status = Validated(e, m)]}
Ignored(e, m) ==
  /\ pool' = Handled(e, m)
  /\ UNCHANGED <<idVars, correlationId, securityVars, heartbeat, startEvents, toSDL>>

(* RaiseEvent of StartEvent on the connection.  It does not say of which   *)
(* session: any of the handlers may get it.                                *)
RaiseStartEvent(s) ==
  \E h \in startEvents :
    startEvents' = (startEvents \ {h}) \cup {[h EXCEPT !.by = @ \cup {s}]}

(* Mutant: StartEvent is raised with the answer to START_SERVICE.          *)
OnStartRPCEarly(e, m) ==
  LET s == e.s
      h == heartbeat[s]
      beats == Version > 2
      cid == correlationId[s] + 1 IN
  /\ sessionId' = [sessionId EXCEPT ![s] = m.id]
  /\ hashCode' = [hashCode EXCEPT ![s] = TRUE]
  /\ heartbeat' = [heartbeat EXCEPT ![s] = OnMessageSent(IF beats THEN StartHeartbeat(h) ELSE h)]
  /\ correlationId' = [correlationId EXCEPT ![s] = cid]
  /\ toSDL' = (IF beats THEN toSDL \o FirstBeat(h, m.id) ELSE toSDL)
               \o <<Call("REQUEST", m.id, FALSE, cid, TRUE)>>
  /\ pool' = Handled(e, m) \cup (IF beats THEN BeatExpectations(s, h) ELSE {})
                            \cup {Expect(s, "response", RPC, FALSE, cid)}
  /\ RaiseStartEvent(s)
  /\ UNCHANGED securityVars

(* StartRPC and Start: the session takes the id and the hash of the answer,*)
(* starts the heartbeat and registers the application.                     *)
OnStartRPC(e, m) ==
  LET s == e.s
      h == heartbeat[s]
      beats == Version > 2
      cid == correlationId[s] + 1 IN
  /\ sessionId' = [sessionId EXCEPT ![s] = m.id]
  /\ hashCode' = [hashCode EXCEPT ![s] = TRUE]
  /\ heartbeat' = [heartbeat EXCEPT ![s] = OnMessageSent(IF beats THEN StartHeartbeat(h) ELSE h)]
  /\ correlationId' = [correlationId EXCEPT ![s] = cid]
  /\ toSDL' = (IF beats THEN toSDL \o FirstBeat(h, m.id) ELSE toSDL)
               \o <<Call("REQUEST", m.id, FALSE, cid, TRUE)>>
  /\ pool' = Handled(e, m) \cup (IF beats THEN BeatExpectations(s, h) ELSE {})
                            \cup {Expect(s, "response", RPC, FALSE, cid)}
  /\ UNCHANGED <<securityVars, startEvents>>

(* StartSecureService: registerSecureService, on an acknowledgement only.  *)
OnStartSecure(e, m) ==
  /\ IF m.type = "START_ACK"
     THEN /\ encryptedServices' = [encryptedServices EXCEPT ![e.s] = @ \cup {e.svc}]
          /\ isSecuredSession' = [isSecuredSession EXCEPT ![e.s] = TRUE]
     ELSE UNCHANGED <<encryptedServices, isSecuredSession>>
  /\ pool' = Handled(e, m)
  /\ UNCHANGED <<idVars, correlationId, ssl, mobileSecurities, heartbeat, startEvents, toSDL>>

(* Mutant: the security is set to false, which is not nil.                 *)
OnStopRPCFalse(e, m) ==
  /\ encryptedServices' = [encryptedServices EXCEPT ![e.s] = {}]
  /\ mobileSecurities' = [mobileSecurities EXCEPT ![sessionId[e.s]] = FALSE]
  /\ pool' = Handled(e, m)
  /\ UNCHANGED <<idVars, correlationId, isSecuredSession, ssl, heartbeat, startEvents, toSDL>>

(* Mutant: the services stay registered.                                   *)
OnStopRPCKeeps(e, m) ==
  /\ mobileSecurities' = [mobileSecurities EXCEPT ![sessionId[e.s]] = Nil]
  /\ pool' = Handled(e, m)
  /\ UNCHANGED <<idVars, correlationId, isSecuredSession, encryptedServices, ssl, heartbeat,
                 startEvents, toSDL>>

(* StopRPC: unregisterAllSecureServices and unregisterSessionSecurity.     *)
OnStopRPC(e, m) ==
  /\ encryptedServices' = [encryptedServices EXCEPT ![e.s] = {}]
  /\ mobileSecurities' = [mobileSecurities EXCEPT ![sessionId[e.s]] = Nil]
  /\ pool' = Handled(e, m)
  /\ UNCHANGED <<idVars, correlationId, isSecuredSession, ssl, heartbeat, startEvents, toSDL>>

(* Mutant: all secure services are unregistered.                           *)
OnStopServiceAll(e, m) ==
  /\ encryptedServices' = [encryptedServices EXCEPT ![e.s] = {}]
  /\ pool' = Handled(e, m)
  /\ UNCHANGED <<idVars, correlationId, isSecuredSession, ssl, mobileSecurities, heartbeat,
                 startEvents, toSDL>>

(* StopService: unregisterSecureService.                                   *)
OnStopService(e, m) ==
  /\ encryptedServices' = [encryptedServices EXCEPT ![e.s] = @ \ {e.svc}]
  /\ pool' = Handled(e, m)
  /\ UNCHANGED <<idVars, correlationId, isSecuredSession, ssl, mobileSecurities, heartbeat,
                 startEvents, toSDL>>

(* performHandshake: SDL sends "hello" and then "finish" (m.cid 1 and 2);  *)
(* data that does not fit the state of ssl makes OpenSSL answer nothing.   *)
(* A finished handshake takes the expectation off the list, not out of the *)
(* dispatcher.                                                             *)
Shaken(state, m) ==
  CASE state = "new" /\ m.cid = 1 -> "hello"
    [] state = "hello" /\ m.cid = 2 -> "finished"
    [] OTHER -> state
OnHandshake(e, m) ==
  LET s == e.s
      state == Shaken(ssl[s], m) IN
  /\ ssl' = [ssl EXCEPT ![s] = state]
  /\ IF state # ssl[s]
     THEN Send(s, [Frame("HANDSHAKE", sessionId[s], "CONTROL", FALSE) EXCEPT !.cid = m.cid])
     ELSE UNCHANGED <<toSDL, heartbeat>>
  /\ pool' = (pool \ {e}) \cup {[e EXCEPT !.status = Validated(e, m),
                                         !.listed = @ /\ state # "finished"]}
  /\ UNCHANGED <<idVars, correlationId, isSecuredSession, encryptedServices,
                 mobileSecurities, startEvents>>

(* A heartbeat of SDL is answered while the session's own is on.           *)
OnHeartbeat(e) ==
  /\ toSDL' = IF heartbeat[e.s].enabled /\ "answer" \in Flags
              THEN Append(toSDL, Beat("HEARTBEAT_ACK", sessionId[e.s])) ELSE toSDL
  /\ UNCHANGED <<idVars, correlationId, securityVars, heartbeat, pool, startEvents>>

OnHeartbeatAck(e, m) ==
  /\ heartbeat' = [heartbeat EXCEPT ![e.s].confirmed = TRUE]
  /\ pool' = Handled(e, m)
  /\ UNCHANGED <<idVars, correlationId, securityVars, startEvents, toSDL>>

(* The response to RegisterAppInterface.                                   *)
OnResponse(e, m) ==
  /\ IF e.enc THEN UNCHANGED startEvents ELSE RaiseStartEvent(e.s)
  /\ pool' = Handled(e, m)
  /\ UNCHANGED <<idVars, correlationId, securityVars, heartbeat, toSDL>>

(* The actions with a test of the status; a plain stream has none but the  *)
(* script's own.                                                           *)
Act(e, m) ==
  CASE e.kind = "handshake" -> OnHandshake(e, m)
    [] e.kind = "beat" -> OnHeartbeat(e)
    [] e.kind = "beatAck" -> OnHeartbeatAck(e, m)
    [] e.kind = "start" /\ e.enc -> OnStartSecure(e, m)
    [] e.kind = "end" /\ e.svc = RPC -> OnStopRPC(e, m)
    [] OTHER -> IF e.status = "FAILED" \/ (e.kind = "start" /\ e.svc # RPC) THEN Ignored(e, m)
                ELSE CASE e.kind = "start" -> OnStartRPC(e, m)
                       [] e.kind = "end" -> OnStopService(e, m)
                       [] e.kind = "response" -> OnResponse(e, m)

(* An encrypted response is parsed only when it can be decrypted.          *)
Handlers(m) == {e \in pool : Matches(e, m) /\ (m.type = "RESPONSE" /\ m.enc => Ready(m.id))}

Deliver ==
  /\ toMobile # <<>>
  /\ LET m == Head(toMobile) IN
       IF Handlers(m) = {}
       THEN UNCHANGED <<idVars, correlationId, securityVars, heartbeat, pool, startEvents, toSDL>>
       ELSE \E e \in Handlers(m) : Act(e, m)
  /\ toMobile' = Tail(toMobile)
  /\ UNCHANGED <<uses, sdl, seen>>

-----------------------------------------------------------------------------
(* SDL, external: it answers the messages in order                         *)

Free == [live |-> FALSE, used |-> FALSE, hand |-> "none", wait |-> {}, secure |-> {},
         answered |-> FALSE]
Live(id) == id \in Ids /\ sdl[id].live
Reply(m) == toMobile' = Append(toMobile, m)
mobileVars == <<idVars, correlationId, securityVars, heartbeat, pool, startEvents, uses>>
Take(type) == /\ toSDL # <<>> /\ Head(toSDL).type = type
              /\ toSDL' = Tail(toSDL)
              /\ UNCHANGED mobileVars

(* A session without an id gets one.                                       *)
SdlNewSession ==
  /\ Take("START") /\ Head(toSDL).id = 0 /\ Head(toSDL).svc = RPC
  /\ \E id \in Ids :
       /\ ~sdl[id].live
       /\ Odd("reuse", sdl[id].used)
       /\ sdl' = [sdl EXCEPT ![id] = [Free EXCEPT !.live = TRUE, !.used = TRUE]]
       /\ Reply(Frame("START_ACK", id, RPC, FALSE))

(* A service of a live session; the first secure one needs a handshake.    *)
SdlStartService ==
  LET m == Head(toSDL)
      ready == ~m.enc \/ sdl[m.id].hand = "done" IN
  /\ Take("START") /\ Live(m.id)
  /\ IF ready
     THEN /\ sdl' = [sdl EXCEPT ![m.id].secure = IF m.enc THEN @ \cup {m.svc} ELSE @]
          /\ Reply(Frame("START_ACK", m.id, m.svc, m.enc))
     ELSE /\ sdl' = [sdl EXCEPT ![m.id].wait = @ \cup {m.svc},
                                ![m.id].hand = IF @ = "none" THEN "hello" ELSE @]
          /\ IF sdl[m.id].hand = "none"
             THEN Reply([Frame("HANDSHAKE", m.id, "CONTROL", FALSE) EXCEPT !.cid = 1])
             ELSE UNCHANGED toMobile
  /\ UNCHANGED seen

(* A refusal: of anything if "nack" may happen, and of an ended session.   *)
SdlRefuse ==
  LET m == Head(toSDL) IN
  /\ Take("START") \/ Take("END")
  /\ "nack" \in Faults \/ (m.id # 0 /\ ~Live(m.id))
  /\ seen' = seen \cup {"nack"}
  /\ \E enc \in {FALSE, m.enc} :
       Reply(Frame(IF m.type = "START" THEN "START_NACK" ELSE "END_NACK", m.id, m.svc, enc))
  /\ UNCHANGED sdl

SdlEnd ==
  LET m == Head(toSDL)
      r == sdl[m.id] IN
  /\ Take("END") /\ Live(m.id)
  /\ sdl' = [sdl EXCEPT ![m.id] =
               IF m.svc = RPC THEN [r EXCEPT !.live = FALSE, !.wait = {}, !.secure = {}]
               ELSE [r EXCEPT !.wait = r.wait \ {m.svc}, !.secure = r.secure \ {m.svc}]]
  /\ Reply(Frame("END_ACK", m.id, m.svc, FALSE))
  /\ UNCHANGED seen

(* The handshake goes on, or ends: then every waiting service is secure.   *)
SdlHandshake ==
  LET m == Head(toSDL) IN
  /\ Take("HANDSHAKE")
  /\ CASE Live(m.id) /\ m.cid = 1 /\ sdl[m.id].hand = "hello" ->
            /\ sdl' = [sdl EXCEPT ![m.id].hand = "finish"]
            /\ Reply([Frame("HANDSHAKE", m.id, "CONTROL", FALSE) EXCEPT !.cid = 2])
       [] Live(m.id) /\ m.cid = 2 /\ sdl[m.id].hand = "finish" ->
            /\ sdl' = [sdl EXCEPT ![m.id].hand = "done", ![m.id].wait = {},
                                  ![m.id].secure = @ \cup sdl[m.id].wait]
            /\ toMobile' = toMobile \o SetToSeq({Frame("START_ACK", m.id, svc, TRUE) :
                                                 svc \in sdl[m.id].wait})
       [] OTHER -> UNCHANGED <<sdl, toMobile>>
  /\ UNCHANGED seen

(* RegisterAppInterface (not encrypted) may be answered success = false.   *)
SdlRequest ==
  LET m == Head(toSDL) IN
  /\ Take("REQUEST")
  /\ IF ~Live(m.id) THEN UNCHANGED <<sdl, toMobile, seen>>
     ELSE \E ok \in {TRUE, m.enc} :
            /\ Odd("reject", ~ok)
            /\ sdl' = [sdl EXCEPT ![m.id].answered = @ \/ ~m.enc]
            /\ Reply(Call("RESPONSE", m.id, m.enc, m.cid, ok))

SdlHeartbeatIn ==
  LET m == Head(toSDL) IN
  /\ Take("HEARTBEAT") \/ Take("HEARTBEAT_ACK")
  /\ IF m.type = "HEARTBEAT" /\ Live(m.id) THEN Reply(Beat("HEARTBEAT_ACK", m.id))
     ELSE UNCHANGED toMobile
  /\ UNCHANGED <<sdl, seen>>

SdlHeartbeat(id) ==
  /\ Room /\ Live(id)
  /\ Reply(Beat("HEARTBEAT", id))
  /\ UNCHANGED <<mobileVars, toSDL, sdl, seen>>

Sdl == \/ SdlNewSession \/ SdlStartService \/ SdlRefuse \/ SdlEnd \/ SdlHandshake
       \/ SdlRequest \/ SdlHeartbeatIn

-----------------------------------------------------------------------------
Init ==
  /\ sessionId = [s \in Sessions |-> 0]
  /\ hashCode = [s \in Sessions |-> FALSE]
  /\ correlationId = [s \in Sessions |-> 1]
  /\ isSecuredSession = [s \in Sessions |-> FALSE]
  /\ encryptedServices = [s \in Sessions |-> {}]
  /\ ssl = [s \in Sessions |-> "none"]
  /\ mobileSecurities = [id \in 0..MaxId |-> Nil]
  /\ heartbeat = [s \in Sessions |-> Idle]
  /\ pool = {}
  /\ startEvents = {}
  /\ uses = [s \in Sessions |-> 0]
  /\ toSDL = <<>> /\ toMobile = <<>>
  /\ sdl = [id \in Ids |-> Free]
  /\ seen = {}

Script(s) ==
  \/ Start(s) \/ Stop(s) \/ SendEncryptedRPC(s)
  \/ StartHeartbeatCall(s) \/ StopHeartbeatCall(s)
  \/ \E svc \in Streams : StartService(s, svc) \/ StopService(s, svc)
  \/ \E svc \in Services : StartSecureService(s, svc)

Next ==
  \/ \E s \in Sessions : Script(s) \/ SendHeartbeat(s)
  \/ \E e \in Collected : Expire(e)
  \/ EndStep
  \/ Deliver
  \/ Sdl
  \/ \E id \in Ids : SdlHeartbeat(id)

Spec == Init /\ [][Next]_vars

(* The Qt loop delivers what comes in, and SDL answers what it gets.       *)
FairSpec == Spec /\ WF_vars(Deliver) /\ WF_vars(Sdl)

-----------------------------------------------------------------------------
(* Properties                                                              *)

Message == [type : {"START", "END", "HEARTBEAT", "HEARTBEAT_ACK", "HANDSHAKE", "REQUEST",
                    "START_ACK", "START_NACK", "END_ACK", "END_NACK", "RESPONSE"},
            id : 0..MaxId, svc : Services \cup {"CONTROL"}, enc : BOOLEAN, cid : Nat,
            ok : BOOLEAN]
Expectation == [s : Sessions,
                kind : {"start", "end", "handshake", "beat", "beatAck", "response"},
                svc : Services \cup {"CONTROL"}, enc : BOOLEAN, cid : Nat,
                status : {"none", "SUCCESS", "FAILED"}, listed : BOOLEAN]

(* Every variable keeps its type; an id of a session is one SDL gave.      *)
TypeOK ==
  /\ sessionId \in [Sessions -> 0..MaxId]
  /\ hashCode \in [Sessions -> BOOLEAN]
  /\ correlationId \in [Sessions -> Nat]
  /\ isSecuredSession \in [Sessions -> BOOLEAN]
  /\ encryptedServices \in [Sessions -> SUBSET Services]
  /\ ssl \in [Sessions -> {"none", "new", "hello", "finished"}]
  /\ mobileSecurities \in [0..MaxId -> Sessions \cup {Nil}]
  /\ heartbeat \in [Sessions -> [enabled : BOOLEAN, confirmed : BOOLEAN,
                                 timerStarted : BOOLEAN, timer : BOOLEAN]]
  /\ pool \subseteq Expectation
  /\ startEvents \subseteq [s : Sessions, nr : 1..MaxUses, by : SUBSET Sessions]
  /\ uses \in [Sessions -> 0..MaxUses]
  /\ toSDL \in Seq(Message) /\ toMobile \in Seq(Message)
  /\ sdl \in [Ids -> [live : BOOLEAN, used : BOOLEAN,
                      hand : {"none", "hello", "finish", "done"}, wait : SUBSET Services,
                      secure : SUBSET Services, answered : BOOLEAN]]
  /\ seen \subseteq Oddities

(* A session that holds a service for secure can encrypt: its own security *)
(* is registered under its id and the handshake is finished, so            *)
(* SecurityManager:encrypt and the protocol handler raise no error.        *)
SecureMeansReady ==
  \A s \in Sessions : isSecuredSession[s] /\ encryptedServices[s] # {} =>
    mobileSecurities[sessionId[s]] = s /\ ssl[s] = "finished"

(* When nothing is under way, a session and SDL agree which services are   *)
(* secure, whatever order starts, stops and handshakes came in.            *)
Agreement ==
  toSDL = <<>> /\ toMobile = <<>> /\ "timeout" \notin seen =>
    \A s \in Sessions : sessionId[s] # 0 =>
      encryptedServices[s] = sdl[sessionId[s]].secure

(* StartEvent is raised only for a session whose registration SDL has      *)
(* answered, whichever handler of the connection gets it.  Answered, not   *)
(* accepted: "exp2.status == FAILED" is tested before the response at hand *)
(* is validated, so a refused registration raises StartEvent as well.      *)
RaisedMeansAnswered ==
  \A h \in startEvents : \A s \in h.by :
    sessionId[s] \in Ids /\ sdl[sessionId[s]].answered

(* After END_SERVICE of its RPC service a session sends no heartbeat and   *)
(* answers none, though the timer may be running again.                    *)
NoBeatAfterStop ==
  \A i, j \in 1..Len(toSDL) :
    i < j /\ toSDL[i].type = "END" /\ toSDL[i].svc = RPC /\ toSDL[j].id = toSDL[i].id
      => ~IsBeat(toSDL[j])

(* A heartbeat of SDL for a session whose monitor is on is answered in the *)
(* step that takes it ("answers on heartbeat from SDL").                   *)
AnswersHeartbeat ==
  [][\A s \in Sessions :
       /\ "answer" \in Flags
       /\ toMobile # <<>> /\ toMobile' = Tail(toMobile)
       /\ Head(toMobile).type = "HEARTBEAT" /\ Head(toMobile).id = sessionId[s]
       /\ heartbeat[s].enabled
       => toSDL' = Append(toSDL, Beat("HEARTBEAT_ACK", sessionId[s]))]_vars

(* A started session comes up and its StartEvent is raised, unless the     *)
(* step times out.  It reaches a handler that some Start has registered,   *)
(* not always that of its own session.                                     *)
Starts ==
  \A s \in Sessions :
    uses[s] > 0 ~> ((\E h \in startEvents : s \in h.by) \/ "timeout" \in seen)
=============================================================================
