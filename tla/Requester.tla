----------------------------- MODULE Requester -----------------------------
(***************************************************************************)
(* The request side of a UFEedClient: application threads that call        *)
(* request(), the session token they share, the REQ socket behind          *)
(* _req_socket_lock, the listener's response callback, and the logout the  *)
(* destructor sends (ufeedclient.cpp, Impl).  start() has been called.     *)
(*                                                                         *)
(* A message is what the client can tell apart: its kind and its token.    *)
(* External: the REQ socket of ZeroMQ, which sends and receives in turn    *)
(* and throws EFSM otherwise, and the gateway, which grants a session to a *)
(* login, refuses a second one while that lasts, and ends it on a logout.  *)
(***************************************************************************)
EXTENDS Naturals

CONSTANTS Threads, NoThread,
          Tokens,      \* session tokens the gateway can grant
          NoToken,     \* the empty _session_id
          Torn,        \* what a copy of _session_id may hold that raced with its assignment
          None,        \* no message
          Kinds,       \* requests the application makes: "login", "logout", "other"
          Frames,      \* numbers of frames the gateway's replies may have
          MaxRequests  \* bound: calls of request()

ASSUME RequesterAssumption ==
  /\ NoThread \notin Threads
  /\ NoToken \notin Tokens /\ Torn \notin Tokens /\ Torn # NoToken
  /\ Kinds \subseteq {"login", "logout", "other"}
  /\ Frames \subseteq {1, 2, 3}
  /\ MaxRequests \in Nat

VARIABLES
  pc,          \* where each thread is in request()
  msg,         \* the request each thread builds
  login,       \* did it take the login branch?
  granted,     \* the token the reply gave it, or NoToken
  session,     \* _session_id
  req_lock,    \* who holds _req_socket_lock
  req_socket,  \* "send", "recv", or "more": a frame of a reply is left unread
  inflight,    \* the request the gateway has to answer
  reply,       \* the answer that waits in the socket
  live,        \* the gateway's live sessions
  used,        \* the tokens it has granted so far
  requests,    \* number of requests made
  life         \* "alive", "closing" (in ~Impl), "destroyed" or "aborted"

threadVars == <<pc, msg, login, granted>>
socketVars == <<req_lock, req_socket, inflight, reply>>
gatewayVars == <<live, used>>
vars == <<threadVars, session, socketVars, gatewayVars, requests, life>>

ReqLock == INSTANCE Mutex WITH owner <- req_lock

AnyToken == Tokens \cup {NoToken, Torn}
Requests == [kind : {"login", "logout", "other"}, token : AnyToken]
Replies == [token : Tokens \cup {NoToken}, frames : Frames]
Blank == [kind |-> "other", token |-> NoToken]

InRequest == {"send", "recv"}

(* Every variable has its type, and the lock belongs to the thread that is *)
(* between its send and its receive, whichever way it left the last one.   *)
TypeOK ==
  /\ pc \in [Threads -> {"idle", "stamp", "lock", "storing", "notify"} \cup InRequest]
  /\ msg \in [Threads -> Requests]
  /\ login \in [Threads -> BOOLEAN]
  /\ granted \in [Threads -> Tokens \cup {NoToken}]
  /\ session \in Tokens \cup {NoToken}
  /\ req_lock \in Threads \cup {NoThread}
  /\ req_socket \in {"send", "recv", "more"}
  /\ inflight \in Requests \cup {None}
  /\ reply \in Replies \cup {None}
  /\ live \subseteq Tokens /\ used \subseteq Tokens
  /\ requests \in 0..MaxRequests
  /\ life \in {"alive", "closing", "destroyed", "aborted"}
  /\ \A t \in Threads : pc[t] \in InRequest <=> req_lock = t

Init ==
  /\ pc = [t \in Threads |-> "idle"]
  /\ msg = [t \in Threads |-> Blank]
  /\ login = [t \in Threads |-> FALSE]
  /\ granted = [t \in Threads |-> NoToken]
  /\ session = NoToken
  /\ ReqLock!Init
  /\ req_socket = "send"
  /\ inflight = None /\ reply = None
  /\ live = {} /\ used = {}
  /\ requests = 0
  /\ life = "alive"

Running == life \in {"alive", "closing"}
At(t, step) == Running /\ pc[t] = step
Goto(t, step) == pc' = [pc EXCEPT ![t] = step]

(* An exception leaves request(); out of ~Impl it ends the process. *)
Throw(t) ==
  /\ Goto(t, "idle")
  /\ life' = IF life = "closing" THEN "aborted" ELSE life

-----------------------------------------------------------------------------
(* _session_id is read without the lock: a reader that meets an assignment *)
(* sees the old value, the new one, or a mixture.                          *)
Storing == {t \in Threads : pc[t] = "storing"}
Readable == {session} \cup {granted[t] : t \in Storing}
            \cup (IF Storing = {} THEN {} ELSE {Torn})

(* request(): with a session the request is to be stamped with it; without *)
(* one only a login goes out, anything else throws.                        *)
AnythingPasses(kind) == TRUE
PassesWithoutSession(kind) == kind = "login"
Request(t, kind) ==
  /\ life = "alive" /\ pc[t] = "idle"
  /\ requests < MaxRequests
  /\ requests' = requests + 1
  /\ msg' = [msg EXCEPT ![t] = [kind |-> kind, token |-> NoToken]]
  /\ \E seen \in Readable :
       \/ /\ seen # NoToken
          /\ login' = [login EXCEPT ![t] = FALSE]
          /\ Goto(t, "stamp")
       \/ /\ seen = NoToken /\ PassesWithoutSession(kind)
          /\ login' = [login EXCEPT ![t] = TRUE]
          /\ Goto(t, "lock")
       \/ /\ seen = NoToken /\ ~PassesWithoutSession(kind)
          /\ UNCHANGED <<login, pc>>
  /\ UNCHANGED <<granted, session, socketVars, gatewayVars, life>>

(* request.add_field(UFE_SESSION_TOKEN, _session_id): a second read; the   *)
(* length that was seen not to be zero is not seen to be zero again.       *)
NotStamped(t) ==
  /\ At(t, "stamp")
  /\ Goto(t, "lock")
  /\ UNCHANGED <<msg, login, granted, session, socketVars, gatewayVars, requests, life>>
Stamp(t) ==
  /\ At(t, "stamp")
  /\ \E seen \in Readable \ {NoToken} : msg' = [msg EXCEPT ![t].token = seen]
  /\ Goto(t, "lock")
  /\ UNCHANGED <<login, granted, session, socketVars, gatewayVars, requests, life>>

-----------------------------------------------------------------------------
(* send_request_recv_response(): the scoped lock is held over the send and *)
(* the blocking receive.                                                   *)
LockIgnored(t) == req_lock' = t
TakeLock(t) == ReqLock!Acquire(t)
Lock(t) ==
  /\ At(t, "lock") /\ TakeLock(t)
  /\ Goto(t, "send")
  /\ UNCHANGED <<msg, login, granted, session, req_socket, inflight, reply,
                 gatewayVars, requests, life>>

(* send(): two frames, or EFSM when it is not the socket's turn to send. *)
Send(t) ==
  /\ At(t, "send")
  /\ \/ /\ req_socket = "send"
        /\ inflight' = msg[t]
        /\ req_socket' = "recv"
        /\ Goto(t, "recv")
        /\ UNCHANGED <<req_lock, life>>
     \/ /\ req_socket # "send"
        /\ ReqLock!Release(t) /\ Throw(t)
        /\ UNCHANGED <<inflight, req_socket>>
  /\ UNCHANGED <<msg, login, granted, session, reply, gatewayVars, requests>>

(* recv(): one frame is refused, the frames after the second are not read. *)
(* The lock is released either way.                                        *)
KeepLock(t) == UNCHANGED req_lock
UnlockOnThrow(t) == ReqLock!Release(t)
TokenOf(r) == r.token
AlwaysStores(t, r) == login[t]
StoresToken(t, r) == login[t] /\ TokenOf(r) # NoToken
Recv(t) ==
  /\ At(t, "recv") /\ reply # None
  /\ reply' = None
  /\ \/ /\ reply.frames = 1
        /\ req_socket' = "send"
        /\ UnlockOnThrow(t) /\ Throw(t)
        /\ UNCHANGED granted
     \/ /\ reply.frames # 1
        /\ req_socket' = IF reply.frames = 2 THEN "send" ELSE "more"
        /\ ReqLock!Release(t)
        /\ granted' = [granted EXCEPT ![t] = TokenOf(reply)]
        /\ Goto(t, IF StoresToken(t, reply) THEN "storing" ELSE "notify")
        /\ UNCHANGED life
  /\ UNCHANGED <<msg, login, session, inflight, gatewayVars, requests>>

(* _session_id._uuid = session_field->sval(): a login takes the token its  *)
(* reply has, if it has one.                                               *)
Store(t) ==
  /\ At(t, "storing")
  /\ session' = granted[t]
  /\ Goto(t, "notify")
  /\ UNCHANGED <<msg, login, granted, socketVars, gatewayVars, requests, life>>

(* response_message_received(), which may throw, and the return; after the *)
(* logout ~Impl clears the session and closes the sockets.                 *)
Notify(t) ==
  /\ At(t, "notify")
  /\ \/ /\ Goto(t, "idle")
        /\ session' = IF life = "closing" THEN NoToken ELSE session
        /\ life' = IF life = "closing" THEN "destroyed" ELSE life
     \/ /\ Throw(t) /\ UNCHANGED session
  /\ UNCHANGED <<msg, login, granted, socketVars, gatewayVars, requests>>

(* ~Impl: with a session, request(logout) first.  No other call may be     *)
(* running.                                                                *)
NeverLogout == FALSE
MustLogout == session # NoToken
Destroy(t) ==
  /\ life = "alive" /\ \A u \in Threads : pc[u] = "idle"
  /\ \/ /\ MustLogout
        /\ life' = "closing"
        /\ msg' = [msg EXCEPT ![t] = [kind |-> "logout", token |-> NoToken]]
        /\ login' = [login EXCEPT ![t] = FALSE]
        /\ Goto(t, "stamp")
     \/ /\ ~MustLogout
        /\ life' = "destroyed"
        /\ UNCHANGED <<msg, login, pc>>
  /\ UNCHANGED <<granted, session, socketVars, gatewayVars, requests>>

-----------------------------------------------------------------------------
(* The gateway answers a request: a login may be granted a fresh token     *)
(* unless a session is open (ALREADY_LOGGED_IN in ufeconsts.hpp), a logout *)
(* with a live token ends that session.                                    *)
Grants == {NoToken} \cup (IF live = {} THEN Tokens \ used ELSE {})
Serve ==
  /\ Running /\ inflight # None
  /\ inflight' = None
  /\ \E n \in Frames, g \in (IF inflight.kind = "login" THEN Grants ELSE {NoToken}) :
       /\ reply' = [token |-> g, frames |-> n]
       /\ used' = used \cup ({g} \ {NoToken})
       /\ live' = IF inflight.kind = "logout" THEN live \ {inflight.token}
                  ELSE live \cup ({g} \ {NoToken})
  /\ UNCHANGED <<threadVars, session, req_lock, req_socket, requests, life>>

Over == ~Running /\ UNCHANGED vars

ThreadStep(t) == Stamp(t) \/ Lock(t) \/ Send(t) \/ Recv(t) \/ Store(t) \/ Notify(t)

Next ==
  \/ \E t \in Threads : \/ \E kind \in Kinds : Request(t, kind)
                        \/ ThreadStep(t)
                        \/ Destroy(t)
  \/ Serve \/ Over

(* A thread inside request() keeps running and, as recv() waits without a  *)
(* timeout, the gateway is taken to answer in the end.                     *)
Spec == /\ Init /\ [][Next]_vars
        /\ \A t \in Threads : WF_vars(ThreadStep(t))
        /\ WF_vars(Serve)

-----------------------------------------------------------------------------
(* A thread that is about to send never finds another's reply outstanding  *)
(* and, unless a reply had three frames, finds the REQ socket ready: no    *)
(* interleaving of requests, and no exception in one, wedges it.           *)
SocketReady ==
  \A t \in Threads : pc[t] = "send" =>
    req_socket \in {"send"} \cup (IF 3 \in Frames THEN {"more"} ELSE {})

(* Only logins reach the gateway without a session token. *)
LoginFirst == inflight # None => inflight.kind = "login" \/ inflight.token # NoToken

(* Whatever is not a login carries a session the gateway knows, unless its *)
(* token was read while a login stored it.                                 *)
TokenLive ==
  inflight # None /\ inflight.kind # "login" => inflight.token \in live \cup {Torn}

(* Only the first token is stored, and only the destructor clears it: a    *)
(* login that failed, or came second and was refused by the gateway,       *)
(* leaves the session in use alone.                                        *)
SessionStable == [][session # NoToken => session' = session \/ life = "closing"]_vars

(* Every call of request() comes back. *)
RequestReturns == \A t \in Threads : pc[t] # "idle" ~> (pc[t] = "idle" \/ ~Running)
=============================================================================
