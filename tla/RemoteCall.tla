----------------------------- MODULE RemoteCall -----------------------------
(***************************************************************************)
(* Synchronous calls from ATF to the remote adapter server: the Lua class  *)
(* RemoteClient (remote_client_lua_wrapper.cc), RemoteClient               *)
(* (remote_client.cc), its connection (rpc_connection_impl.cc) and the one *)
(* worker of the server (remote_adapter_server/main.cc).  What the calls do*)
(* is up to the modules that extend this one.                              *)
(*                                                                         *)
(* The worker takes the calls in the order in which they were made.  A call*)
(* that timed out at the client stays with the server and is executed.     *)
(***************************************************************************)
EXTENDS Integers, Sequences

VARIABLES
  client,  \* the RemoteClient of ATF: "none", "connected", "lost"
  call,    \* the call the script waits for, or its response
  server,  \* whether the server lives
  rpcs,    \* calls the worker has not begun
  job      \* the call the worker is in the middle of, and how far it is

callVars == <<client, call, server, rpcs, job>>

(* error_codes of common/constants.h.                                      *)
SUCCESS == 0
FAILED == -1
NO_CONNECTION == -7
TIMEOUT_EXPIRED == -9

(* A response is a number and a text; the number is an error code or, for  *)
(* a piece of a file, the offset of the next one.                          *)
NoCall == [state |-> "idle", num |-> SUCCESS, text |-> <<>>]
Answered(num, text) == [state |-> "answered", num |-> num, text |-> text]

(* A parameter goes with its type; arg is what they say.                   *)
Request(rpc, types, arg) == [rpc |-> rpc, types |-> types, arg |-> arg, waiting |-> TRUE]
NoJob == [rpc |-> "none", waiting |-> FALSE]

Connected == client = "connected"

CallInit ==
  /\ client = "none" /\ call = NoCall
  /\ server = TRUE /\ rpcs = <<>> /\ job = NoJob

(* content_call, and each of the calls file_call makes.                    *)
Call(rpc, types, arg) ==
  \/ /\ Connected
     /\ rpcs' = Append(rpcs, Request(rpc, types, arg))
     /\ call' = [NoCall EXCEPT !.state = "waiting"]
  \/ /\ ~Connected
     /\ call' = Answered(NO_CONNECTION, <<>>)
     /\ UNCHANGED rpcs

(* remote:RemoteClient(ip, port): the constructor calls client_connected;  *)
(* a bad response is only logged.                                          *)
Connect ==
  /\ client = "none"
  /\ server
  /\ client' = "connected"
  /\ rpcs' = Append(rpcs, Request("client_connected", <<>>, <<>>))
  /\ call' = [NoCall EXCEPT !.state = "waiting"]
  /\ UNCHANGED <<server, job>>

Forsaken(r) == [r EXCEPT !.waiting = FALSE]
AllForsaken(s) == [i \in DOMAIN s |-> Forsaken(s[i])]

(* Mutant: a call waits for its response for ever.                         *)
TimeoutNever(slow) == FALSE /\ UNCHANGED callVars

(* rpc::timeout, 10 s after the call.  They pass only when the worker is   *)
(* in a call that takes that long, or gone.                                *)
Timeout(slow) ==
  /\ call.state = "waiting"
  /\ ~server \/ client = "lost" \/ slow
  /\ call' = Answered(TIMEOUT_EXPIRED, <<>>)
  /\ rpcs' = AllForsaken(rpcs)
  /\ job' = Forsaken(job)
  /\ UNCHANGED <<client, server>>

(* The worker begins the next call.                                        *)
Taken == Head(rpcs)
Takes ==
  /\ server
  /\ job = NoJob
  /\ rpcs # <<>>
  /\ rpcs' = Tail(rpcs)

(* Mutant: the response to a call that timed out is taken for one to the   *)
(* call that waits now.                                                    *)
RespondAnyway(r, num, text) == job' = NoJob /\ call' = Answered(num, text)

(* Call r is done.  Nobody is there for the response to one that timed out.*)
Respond(r, num, text) ==
  /\ job' = NoJob
  /\ call' = IF r.waiting THEN Answered(num, text) ELSE call

(* srv.bind(client_connected).                                             *)
ClientConnected ==
  /\ Takes
  /\ Taken.rpc = "client_connected"
  /\ Respond(Taken, SUCCESS, <<>>)
  /\ UNCHANGED <<client, server>>

(* ATF ends, or lets go of the RemoteClient: __gc deletes it.              *)
Disconnect ==
  /\ client' = "none"
  /\ call' = NoCall
  /\ rpcs' = AllForsaken(rpcs)
  /\ job' = Forsaken(job)
  /\ UNCHANGED server

(* The server dies with its calls.  The client does not connect again, and *)
(* a call that was under way times out.                                    *)
ServerDies ==
  /\ server
  /\ server' = FALSE
  /\ rpcs' = <<>>
  /\ job' = NoJob
  /\ client' = IF Connected THEN "lost" ELSE client
  /\ UNCHANGED call

ServerStarts ==
  /\ ~server
  /\ server' = TRUE
  /\ UNCHANGED <<client, call, rpcs, job>>
=============================================================================
