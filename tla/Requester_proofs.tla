-------------------------- MODULE Requester_proofs --------------------------
(***************************************************************************)
(* The request side for any number of threads, tokens and requests: types  *)
(* and lock discipline, the REQ socket's alternation, the rule that only   *)
(* logins go out without a session, the one session that the rest carries, *)
(* and its end with the destructor's logout.                               *)
(***************************************************************************)
EXTENDS Requester, TLAPS

LEMMA InitTyped == Init => TypeOK
BY RequesterAssumption
   DEF Init, TypeOK, ReqLock!Init, Requests, AnyToken, Blank, InRequest

(* Whatever is read of _session_id is a token, none, or a torn copy. *)
LEMMA ReadableTyped == TypeOK => Readable \subseteq AnyToken
BY DEF TypeOK, Readable, Storing, AnyToken

LEMMA TypeOKStep == TypeOK /\ [Next]_vars => TypeOK'
<1> SUFFICES ASSUME TypeOK, [Next]_vars PROVE TypeOK'
  OBVIOUS
<1> USE RequesterAssumption DEF TypeOK, InRequest
<1>1. ASSUME NEW t \in Threads, NEW kind \in Kinds, Request(t, kind) PROVE TypeOK'
  <2>1. [kind |-> kind, token |-> NoToken] \in Requests
    BY DEF Requests, AnyToken
  <2>2. msg' \in [Threads -> Requests] /\ requests' \in 0..MaxRequests
    BY <1>1, <2>1 DEF Request
  <2>3. login' \in [Threads -> BOOLEAN] /\ (pc' = pc \/ \E step \in {"stamp", "lock"} : Goto(t, step))
    BY <1>1 DEF Request
  <2>4. /\ pc' \in [Threads -> {"idle", "stamp", "lock", "storing", "notify"} \cup InRequest]
        /\ \A u \in Threads : pc'[u] \in InRequest <=> req_lock = u
    BY <1>1, <2>3 DEF Request, Goto
  <2> QED
    BY <1>1, <2>2, <2>3, <2>4 DEF Request, socketVars, gatewayVars
<1>2. ASSUME NEW t \in Threads, Stamp(t) PROVE TypeOK'
  <2>1. PICK seen \in Readable \ {NoToken} : msg' = [msg EXCEPT ![t].token = seen]
    BY <1>2 DEF Stamp
  <2>2. msg' \in [Threads -> Requests]
    BY <2>1, ReadableTyped DEF Requests
  <2> QED
    BY <1>2, <2>2 DEF Stamp, At, Goto, socketVars, gatewayVars
<1>3. ASSUME NEW t \in Threads, Lock(t) PROVE TypeOK'
  BY <1>3 DEF Lock, TakeLock, ReqLock!Acquire, At, Goto, gatewayVars
<1>4. ASSUME NEW t \in Threads, Send(t) PROVE TypeOK'
  BY <1>4 DEF Send, ReqLock!Release, Throw, At, Goto, gatewayVars
<1>5. ASSUME NEW t \in Threads, Recv(t) PROVE TypeOK'
  <2>1. reply \in Replies
    BY <1>5 DEF Recv
  <2>2. TokenOf(reply) \in Tokens \cup {NoToken}
    BY <2>1 DEF Replies, TokenOf
  <2>3. /\ \E step \in {"idle", "storing", "notify"} : Goto(t, step)
        /\ req_lock = t /\ req_lock' = NoThread
    BY <1>5 DEF Recv, UnlockOnThrow, ReqLock!Release, Throw
  <2>4. /\ pc' \in [Threads -> {"idle", "stamp", "lock", "storing", "notify"} \cup InRequest]
        /\ \A u \in Threads : pc'[u] \in InRequest <=> req_lock' = u
    BY <2>3 DEF Goto
  <2>5. /\ granted' \in [Threads -> Tokens \cup {NoToken}]
        /\ life' \in {"alive", "closing", "destroyed", "aborted"}
        /\ req_socket' \in {"send", "recv", "more"}
    BY <1>5, <2>2 DEF Recv, Throw
  <2> QED
    BY <1>5, <2>3, <2>4, <2>5 DEF Recv, gatewayVars
<1>6. ASSUME NEW t \in Threads, Store(t) PROVE TypeOK'
  BY <1>6 DEF Store, At, Goto, socketVars, gatewayVars
<1>7. ASSUME NEW t \in Threads, Notify(t) PROVE TypeOK'
  BY <1>7 DEF Notify, Throw, At, Goto, socketVars, gatewayVars
<1>8. ASSUME NEW t \in Threads, Destroy(t) PROVE TypeOK'
  <2>1. [kind |-> "logout", token |-> NoToken] \in Requests
    BY DEF Requests, AnyToken
  <2>2. /\ msg' \in [Threads -> Requests] /\ login' \in [Threads -> BOOLEAN]
        /\ life' \in {"alive", "closing", "destroyed", "aborted"}
    <3>1. CASE MustLogout
      <4>1. /\ msg' = [msg EXCEPT ![t] = [kind |-> "logout", token |-> NoToken]]
            /\ login' = [login EXCEPT ![t] = FALSE]
            /\ life' = "closing"
        BY <1>8, <3>1 DEF Destroy
      <4> QED
        BY <2>1, <4>1
    <3>2. CASE ~MustLogout
      BY <1>8, <3>2 DEF Destroy
    <3> QED
      BY <3>1, <3>2
  <2>3. /\ pc' \in [Threads -> {"idle", "stamp", "lock", "storing", "notify"} \cup InRequest]
        /\ \A u \in Threads : pc'[u] \in InRequest <=> req_lock = u
    BY <1>8 DEF Destroy, Goto
  <2> QED
    BY <1>8, <2>2, <2>3 DEF Destroy, socketVars, gatewayVars
<1>9. ASSUME Serve PROVE TypeOK'
  <2>1. PICK n \in Frames, g \in (IF inflight.kind = "login" THEN Grants ELSE {NoToken}) :
          /\ reply' = [token |-> g, frames |-> n]
          /\ used' = used \cup ({g} \ {NoToken})
          /\ live' = IF inflight.kind = "logout" THEN live \ {inflight.token}
                     ELSE live \cup ({g} \ {NoToken})
    BY <1>9 DEF Serve
  <2>2. g \in Tokens \cup {NoToken}
    BY <2>1 DEF Grants
  <2>3. reply' \in Replies /\ used' \subseteq Tokens /\ live' \subseteq Tokens
    BY <2>1, <2>2 DEF Replies
  <2> QED
    BY <1>9, <2>3 DEF Serve, threadVars
<1>10. CASE UNCHANGED vars
  BY <1>10 DEF vars, threadVars, socketVars, gatewayVars
<1> QED
  BY <1>1, <1>2, <1>3, <1>4, <1>5, <1>6, <1>7, <1>8, <1>9, <1>10
  DEF Next, ThreadStep, Over

(* Every variable keeps its type, and _req_socket_lock is held by exactly  *)
(* the thread between its send and its receive: request() gives the lock   *)
(* back on every path, exceptions included.                                *)
THEOREM RequesterTyped == Spec => []TypeOK
BY InitTyped, TypeOKStep, PTL DEF Spec

-----------------------------------------------------------------------------
(* What makes SocketReady inductive: a reply is outstanding only while a   *)
(* thread, hence the lock's holder, is receiving, and a frame is left over *)
(* only by a reply that had three.                                         *)
SocketInv ==
  /\ SocketReady
  /\ req_socket = "recv" => \E t \in Threads : pc[t] = "recv"
  /\ req_socket = "more" => 3 \in Frames

LEMMA SocketInvStep == TypeOK /\ SocketInv /\ [Next]_vars => SocketInv'
<1> SUFFICES ASSUME TypeOK, SocketInv, [Next]_vars PROVE SocketInv'
  OBVIOUS
<1> USE RequesterAssumption DEF TypeOK, SocketInv, SocketReady, InRequest
<1>1. ASSUME NEW t \in Threads, NEW kind \in Kinds, Request(t, kind) PROVE SocketInv'
  BY <1>1 DEF Request, Goto, socketVars
<1>2. ASSUME NEW t \in Threads, Stamp(t) PROVE SocketInv'
  BY <1>2 DEF Stamp, At, Goto, socketVars
<1>3. ASSUME NEW t \in Threads, Lock(t) PROVE SocketInv'
  <2>1. \A u \in Threads : pc[u] # "recv"
    BY <1>3 DEF Lock, TakeLock, ReqLock!Acquire
  <2> QED
    BY <1>3, <2>1 DEF Lock, At, Goto
<1>4. ASSUME NEW t \in Threads, Send(t) PROVE SocketInv'
  <2>1. \A u \in Threads : pc[u] = "send" => u = t
    BY <1>4 DEF Send, At
  <2>2. \A u \in Threads : pc'[u] # "send"
    BY <1>4, <2>1 DEF Send, Throw, At, Goto
  <2>3. req_socket' = "recv" => pc'[t] = "recv"
    BY <1>4, <2>1 DEF Send, At, Goto
  <2> QED
    BY <1>4, <2>2, <2>3 DEF Send
<1>5. ASSUME NEW t \in Threads, Recv(t) PROVE SocketInv'
  <2>1. reply \in Replies
    BY <1>5 DEF Recv
  <2>2. reply.frames \in Frames /\ Frames \subseteq {1, 2, 3}
    BY <2>1 DEF Replies
  <2>3. req_socket' \in {"send"} \cup (IF 3 \in Frames THEN {"more"} ELSE {})
    BY <1>5, <2>2 DEF Recv
  <2>4. \A u \in Threads : pc'[u] # "send"
    BY <1>5 DEF Recv, Throw, At, Goto
  <2> QED
    BY <2>3, <2>4
<1>6. ASSUME NEW t \in Threads, Store(t) PROVE SocketInv'
  BY <1>6 DEF Store, At, Goto, socketVars
<1>7. ASSUME NEW t \in Threads, Notify(t) PROVE SocketInv'
  BY <1>7 DEF Notify, Throw, At, Goto, socketVars
<1>8. ASSUME NEW t \in Threads, Destroy(t) PROVE SocketInv'
  BY <1>8 DEF Destroy, Goto, socketVars
<1>9. ASSUME Serve PROVE SocketInv'
  BY <1>9 DEF Serve, threadVars
<1>10. CASE UNCHANGED vars
  BY <1>10 DEF vars, threadVars, socketVars
<1> QED
  BY <1>1, <1>2, <1>3, <1>4, <1>5, <1>6, <1>7, <1>8, <1>9, <1>10
  DEF Next, ThreadStep, Over

(* A thread that is about to send never meets another's reply on the REQ   *)
(* socket, and meets it ready unless replies have three frames: however    *)
(* many threads make requests, and whichever of them throw.                *)
THEOREM SocketAlwaysReady == Spec => []SocketReady
<1>1. Init => SocketInv
  BY DEF Init, SocketInv, SocketReady
<1>2. TypeOK /\ SocketInv /\ [Next]_vars => SocketInv'
  BY SocketInvStep
<1>3. SocketInv => SocketReady
  BY DEF SocketInv
<1> QED
  BY <1>1, <1>2, <1>3, RequesterTyped, PTL DEF Spec

-----------------------------------------------------------------------------
(* A request that may be sent is a login or carries a token. *)
Stamped(m) == m.kind = "login" \/ m.token # NoToken

StampInv ==
  /\ LoginFirst
  /\ \A t \in Threads : pc[t] \in {"lock", "send"} => Stamped(msg[t])

LEMMA StampInvStep == TypeOK /\ StampInv /\ [Next]_vars => StampInv'
<1> SUFFICES ASSUME TypeOK, StampInv, [Next]_vars PROVE StampInv'
  OBVIOUS
<1> USE DEF TypeOK, StampInv, LoginFirst, InRequest, Stamped
<1>1. ASSUME NEW t \in Threads, NEW kind \in Kinds, Request(t, kind) PROVE StampInv'
  BY <1>1 DEF Request, Goto, PassesWithoutSession, socketVars
<1>2. ASSUME NEW t \in Threads, Stamp(t) PROVE StampInv'
  <2>1. PICK seen \in Readable \ {NoToken} : msg' = [msg EXCEPT ![t].token = seen]
    BY <1>2 DEF Stamp
  <2>2. msg'[t].token # NoToken /\ \A u \in Threads \ {t} : msg'[u] = msg[u]
    BY <2>1 DEF Requests
  <2> QED
    BY <1>2, <2>2 DEF Stamp, At, Goto, socketVars
<1>3. ASSUME NEW t \in Threads, Lock(t) PROVE StampInv'
  BY <1>3 DEF Lock, At, Goto
<1>4. ASSUME NEW t \in Threads, Send(t) PROVE StampInv'
  BY <1>4 DEF Send, Throw, At, Goto
<1>5. ASSUME NEW t \in Threads, Recv(t) PROVE StampInv'
  BY <1>5 DEF Recv, Throw, At, Goto
<1>6. ASSUME NEW t \in Threads, Store(t) PROVE StampInv'
  BY <1>6 DEF Store, At, Goto, socketVars
<1>7. ASSUME NEW t \in Threads, Notify(t) PROVE StampInv'
  BY <1>7 DEF Notify, Throw, At, Goto, socketVars
<1>8. ASSUME NEW t \in Threads, Destroy(t) PROVE StampInv'
  BY <1>8 DEF Destroy, Goto, socketVars
<1>9. ASSUME Serve PROVE StampInv'
  BY <1>9 DEF Serve, threadVars
<1>10. CASE UNCHANGED vars
  BY <1>10 DEF vars, threadVars, socketVars
<1> QED
  BY <1>1, <1>2, <1>3, <1>4, <1>5, <1>6, <1>7, <1>8, <1>9, <1>10
  DEF Next, ThreadStep, Over

(* Whatever other threads do to _session_id meanwhile, a request that is   *)
(* not a login reaches the gateway only with a token in it.                *)
THEOREM OnlyLoginsUnstamped == Spec => []LoginFirst
<1>1. Init => StampInv
  BY DEF Init, StampInv, LoginFirst
<1>2. StampInv => LoginFirst
  BY DEF StampInv
<1> QED
  BY <1>1, <1>2, StampInvStep, RequesterTyped, PTL DEF Spec
-----------------------------------------------------------------------------
(* The REQ socket has one message outstanding at most, and a thread waits  *)
(* for it.                                                                 *)
Outstanding ==
  /\ inflight = None \/ reply = None
  /\ inflight # None \/ reply # None => \E t \in Threads : pc[t] = "recv"

(* Only the destructor logs out, and then its thread is alone. *)
LogoutLast ==
  /\ life # "alive" => \A t, u \in Threads : pc[t] # "idle" /\ pc[u] # "idle" => t = u
  /\ \A t \in Threads : pc[t] # "idle" => (msg[t].kind = "logout" <=> life # "alive")
  /\ inflight # None => (inflight.kind = "logout" <=> life # "alive")

(* The gateway grants one token at most: the session it is for ends by the *)
(* destructor's logout, after which there is no login.                     *)
LogoutToCome ==
  life = "alive" \/ inflight # None \/ \E t \in Threads : pc[t] \in {"stamp", "lock", "send"}
OneToken ==
  /\ \A x, y \in used : x = y
  /\ live \subseteq used /\ (LogoutToCome => used \subseteq live)

(* Whatever token the client holds, the gateway granted it. *)
TokensUsed ==
  /\ session \in used \cup {NoToken}
  /\ reply # None => reply.token \in used \cup {NoToken}
  /\ inflight # None => inflight.token \in used \cup {NoToken, Torn}
  /\ \A t \in Threads : /\ granted[t] \in used \cup {NoToken}
                        /\ pc[t] = "storing" => granted[t] # NoToken
                        /\ msg[t].token \in used \cup {NoToken, Torn}

TokenInv == Outstanding /\ LogoutLast /\ OneToken /\ TokensUsed

LEMMA OutstandingStep == TypeOK /\ Outstanding /\ [Next]_vars => Outstanding'
<1> SUFFICES ASSUME TypeOK, Outstanding, [Next]_vars PROVE Outstanding'
  OBVIOUS
<1> USE RequesterAssumption DEF TypeOK, InRequest, Outstanding, At, Goto, Throw
<1>1. ASSUME NEW t \in Threads, NEW kind \in Kinds, Request(t, kind) PROVE Outstanding'
  BY <1>1 DEF Request, socketVars
<1>2. ASSUME NEW t \in Threads, Stamp(t) \/ Store(t) \/ Notify(t) \/ Destroy(t) PROVE Outstanding'
  <2>1. \A u \in Threads : pc[u] = "recv" => pc'[u] = "recv"
    BY <1>2 DEF Stamp, Store, Notify, Destroy
  <2> QED
    BY <1>2, <2>1 DEF Stamp, Store, Notify, Destroy, socketVars
<1>3. ASSUME NEW t \in Threads, Lock(t) PROVE Outstanding'
  BY <1>3 DEF Lock
<1>4. ASSUME NEW t \in Threads, Send(t) PROVE Outstanding'
  <2>1. inflight = None /\ reply = None
    BY <1>4 DEF Send
  <2> QED
    BY <1>4, <2>1 DEF Send
<1>5. ASSUME NEW t \in Threads, Recv(t) PROVE Outstanding'
  BY <1>5 DEF Recv
<1>6. CASE Serve
  BY <1>6 DEF Serve, threadVars
<1>7. CASE UNCHANGED vars
  BY <1>7 DEF vars, threadVars, socketVars
<1> QED
  BY <1>1, <1>2, <1>3, <1>4, <1>5, <1>6, <1>7 DEF Next, ThreadStep, Over

LEMMA LogoutLastStep ==
  ASSUME "logout" \notin Kinds
  PROVE  TypeOK /\ Outstanding /\ LogoutLast /\ [Next]_vars => LogoutLast'
<1> SUFFICES ASSUME TypeOK, Outstanding, LogoutLast, [Next]_vars PROVE LogoutLast'
  OBVIOUS
<1> USE RequesterAssumption DEF TypeOK, InRequest, LogoutLast, At, Goto, Throw
<1>1. ASSUME NEW t \in Threads, NEW kind \in Kinds, Request(t, kind) PROVE LogoutLast'
  BY <1>1 DEF Request, socketVars
<1>2. ASSUME NEW t \in Threads, Stamp(t) PROVE LogoutLast'
  <2>1. PICK seen \in Readable \ {NoToken} : msg' = [msg EXCEPT ![t].token = seen]
    BY <1>2 DEF Stamp
  <2>2. \A u \in Threads : msg'[u].kind = msg[u].kind /\ (pc'[u] # "idle" => pc[u] # "idle")
    BY <1>2, <2>1 DEF Stamp, Requests
  <2> QED
    BY <1>2, <2>2 DEF Stamp, socketVars
<1>3. ASSUME NEW t \in Threads, Lock(t) \/ Store(t) PROVE LogoutLast'
  BY <1>3 DEF Lock, Store, socketVars
<1>4. ASSUME NEW t \in Threads, Send(t) PROVE LogoutLast'
  BY <1>4 DEF Send
<1>5. ASSUME NEW t \in Threads, Recv(t) PROVE LogoutLast'
  <2>1. \A u \in Threads : pc'[u] # "idle" => pc[u] # "idle"
    BY <1>5 DEF Recv
  <2>2. life' # "alive" <=> life # "alive"
    BY <1>5 DEF Recv
  <2> QED
    BY <1>5, <2>1, <2>2 DEF Recv
<1>6. ASSUME NEW t \in Threads, Notify(t) PROVE LogoutLast'
  <2>1. \A u \in Threads : pc'[u] # "idle" => pc[u] # "idle"
    BY <1>6 DEF Notify
  <2>2. life' # "alive" <=> life # "alive"
    BY <1>6 DEF Notify
  <2> QED
    BY <1>6, <2>1, <2>2 DEF Notify, socketVars
<1>7. ASSUME NEW t \in Threads, Destroy(t) PROVE LogoutLast'
  <2>1. inflight = None /\ inflight' = None
    BY <1>7 DEF Destroy, Outstanding, socketVars
  <2>2. CASE MustLogout
    <3>1. /\ msg' = [msg EXCEPT ![t] = [kind |-> "logout", token |-> NoToken]]
          /\ pc' = [pc EXCEPT ![t] = "stamp"] /\ life' = "closing"
          /\ \A u \in Threads : pc[u] = "idle"
      BY <1>7, <2>2 DEF Destroy
    <3> QED
      BY <2>1, <3>1
  <2>3. CASE ~MustLogout
    BY <1>7, <2>1, <2>3 DEF Destroy
  <2> QED
    BY <2>2, <2>3
<1>8. CASE Serve
  BY <1>8 DEF Serve, threadVars
<1>9. CASE UNCHANGED vars
  BY <1>9 DEF vars, threadVars, socketVars
<1> QED
  BY <1>1, <1>2, <1>3, <1>4, <1>5, <1>6, <1>7, <1>8, <1>9 DEF Next, ThreadStep, Over

(* The gateway's answer is the only step that changes what it has granted. *)
LEMMA OneTokenStep ==
  TypeOK /\ Outstanding /\ LogoutLast /\ OneToken /\ [Next]_vars => OneToken'
<1> SUFFICES ASSUME TypeOK, Outstanding, LogoutLast, OneToken, [Next]_vars PROVE OneToken'
  OBVIOUS
<1> USE RequesterAssumption DEF TypeOK, InRequest, OneToken, At, Goto, Throw
<1>1. CASE UNCHANGED gatewayVars /\ (LogoutToCome' => LogoutToCome)
  BY <1>1 DEF gatewayVars
<1>2. ASSUME NEW t \in Threads, NEW kind \in Kinds, Request(t, kind) PROVE OneToken'
  BY <1>1, <1>2 DEF Request, LogoutToCome
<1>3. ASSUME NEW t \in Threads, Stamp(t) \/ Lock(t) PROVE OneToken'
  <2>1. LogoutToCome
    BY <1>3 DEF LogoutToCome, Stamp, Lock
  <2> QED
    BY <1>1, <1>3, <2>1 DEF Stamp, Lock
<1>4. ASSUME NEW t \in Threads, Send(t) PROVE OneToken'
  <2>1. LogoutToCome
    BY <1>4 DEF LogoutToCome, Send
  <2> QED
    BY <1>1, <1>4, <2>1 DEF Send
<1>5. ASSUME NEW t \in Threads, Recv(t) PROVE OneToken'
  BY <1>1, <1>5 DEF Recv, LogoutToCome
<1>6. ASSUME NEW t \in Threads, Store(t) \/ Notify(t) PROVE OneToken'
  BY <1>1, <1>6 DEF Store, Notify, LogoutToCome, socketVars
<1>7. ASSUME NEW t \in Threads, Destroy(t) PROVE OneToken'
  <2>1. LogoutToCome
    BY <1>7 DEF Destroy, LogoutToCome
  <2> QED
    BY <1>1, <1>7, <2>1 DEF Destroy
<1>8. CASE Serve
  <2>1. PICK g \in (IF inflight.kind = "login" THEN Grants ELSE {NoToken}) :
          /\ used' = used \cup ({g} \ {NoToken})
          /\ live' = IF inflight.kind = "logout" THEN live \ {inflight.token}
                     ELSE live \cup ({g} \ {NoToken})
    BY <1>8 DEF Serve
  <2>2. inflight # None /\ used \subseteq live
    BY <1>8 DEF Serve, LogoutToCome
  <2>3. CASE inflight.kind = "logout"
    <3>1. used' = used /\ live' \subseteq used
      BY <2>1, <2>3
    <3>2. ~LogoutToCome'
      <4>1. PICK t \in Threads : pc[t] = "recv"
        BY <2>2 DEF Outstanding
      <4>2. life # "alive" /\ \A u \in Threads : pc[u] # "idle" => u = t
        BY <2>2, <2>3, <4>1 DEF LogoutLast
      <4> QED
        BY <1>8, <4>1, <4>2 DEF Serve, LogoutToCome, threadVars
    <3> QED
      BY <3>1, <3>2
  <2>4. CASE inflight.kind # "logout"
    <3>1. live' = used'
      BY <2>1, <2>2, <2>4
    <3>2. \A x, y \in used' : x = y
      BY <2>1, <2>2 DEF Grants
    <3> QED
      BY <3>1, <3>2
  <2> QED
    BY <2>3, <2>4
<1>9. CASE UNCHANGED vars
  BY <1>1, <1>9 DEF vars, threadVars, socketVars, LogoutToCome
<1> QED
  BY <1>2, <1>3, <1>4, <1>5, <1>6, <1>7, <1>8, <1>9 DEF Next, ThreadStep, Over

LEMMA TokensUsedStep == TypeOK /\ TokensUsed /\ [Next]_vars => TokensUsed'
<1> SUFFICES ASSUME TypeOK, TokensUsed, [Next]_vars PROVE TokensUsed'
  OBVIOUS
<1> USE RequesterAssumption DEF TypeOK, InRequest, TokensUsed, At, Goto, Throw
<1>1. ASSUME NEW t \in Threads, NEW kind \in Kinds, Request(t, kind) PROVE TokensUsed'
  BY <1>1 DEF Request, socketVars, gatewayVars
<1>2. ASSUME NEW t \in Threads, Stamp(t) PROVE TokensUsed'
  <2>1. PICK seen \in Readable \ {NoToken} : msg' = [msg EXCEPT ![t].token = seen]
    BY <1>2 DEF Stamp
  <2>2. seen \in used \cup {NoToken, Torn}
    BY <2>1 DEF Readable, Storing
  <2>3. \A u \in Threads : msg'[u].token \in {msg[u].token, seen}
    BY <2>1 DEF Requests
  <2> QED
    BY <1>2, <2>2, <2>3 DEF Stamp, socketVars, gatewayVars
<1>3. ASSUME NEW t \in Threads, Lock(t) PROVE TokensUsed'
  BY <1>3 DEF Lock, gatewayVars
<1>4. ASSUME NEW t \in Threads, Send(t) PROVE TokensUsed'
  BY <1>4 DEF Send, gatewayVars
<1>5. ASSUME NEW t \in Threads, Recv(t) PROVE TokensUsed'
  BY <1>5 DEF Recv, StoresToken, TokenOf, gatewayVars
<1>6. ASSUME NEW t \in Threads, Store(t) PROVE TokensUsed'
  BY <1>6 DEF Store, socketVars, gatewayVars
<1>7. ASSUME NEW t \in Threads, Notify(t) PROVE TokensUsed'
  BY <1>7 DEF Notify, socketVars, gatewayVars
<1>8. ASSUME NEW t \in Threads, Destroy(t) PROVE TokensUsed'
  BY <1>8 DEF Destroy, socketVars, gatewayVars
<1>9. CASE Serve
  <2>1. PICK n \in Frames, g \in (IF inflight.kind = "login" THEN Grants ELSE {NoToken}) :
          /\ reply' = [token |-> g, frames |-> n]
          /\ used' = used \cup ({g} \ {NoToken})
          /\ live' = IF inflight.kind = "logout" THEN live \ {inflight.token}
                     ELSE live \cup ({g} \ {NoToken})
    BY <1>9 DEF Serve
  <2> QED
    BY <1>9, <2>1 DEF Serve, threadVars
<1>10. CASE UNCHANGED vars
  BY <1>10 DEF vars, threadVars, socketVars, gatewayVars
<1> QED
  BY <1>1, <1>2, <1>3, <1>4, <1>5, <1>6, <1>7, <1>8, <1>9, <1>10
  DEF Next, ThreadStep, Over

LEMMA TokenInvInit == Init => TokenInv
BY DEF Init, TokenInv, Outstanding, LogoutLast, OneToken, TokensUsed, Blank

LEMMA TokenInvariance ==
  ASSUME "logout" \notin Kinds
  PROVE  Spec => [](TypeOK /\ StampInv /\ TokenInv)
<1>1. Init => TypeOK /\ StampInv /\ TokenInv
  BY InitTyped, TokenInvInit DEF Init, StampInv, LoginFirst
<1>2. TypeOK /\ StampInv /\ TokenInv /\ [Next]_vars => (TypeOK /\ StampInv /\ TokenInv)'
  BY TypeOKStep, StampInvStep, OutstandingStep, LogoutLastStep, OneTokenStep, TokensUsedStep
  DEF TokenInv
<1> QED
  BY <1>1, <1>2, PTL DEF Spec

(* If the application does not log out itself, what is not a login reaches *)
(* the gateway with its live session, the destructor's logout included.    *)
THEOREM TokensLive ==
  ASSUME "logout" \notin Kinds
  PROVE  Spec => []TokenLive
<1>1. TypeOK /\ StampInv /\ TokenInv => TokenLive
  BY DEF TokenInv, StampInv, LoginFirst, OneToken, LogoutToCome, TokensUsed, TokenLive
<1> QED
  BY <1>1, TokenInvariance, PTL

(* If the application does not log out itself, a session lasts until the   *)
(* destructor: no login, however late its reply is stored, replaces it.    *)
THEOREM SessionLasts ==
  ASSUME "logout" \notin Kinds
  PROVE  Spec => SessionStable
<1>1. TypeOK /\ StampInv /\ TokenInv /\ [Next]_vars
        => (session # NoToken => session' = session \/ life = "closing")
  <2> SUFFICES ASSUME TypeOK, TokenInv, Next, session # NoToken
               PROVE  session' = session \/ life = "closing"
    BY DEF vars
  <2>1. ASSUME NEW t \in Threads, Store(t) PROVE session' = session
    BY <2>1 DEF Store, At, TypeOK, TokenInv, OneToken, TokensUsed
  <2>2. ASSUME NEW t \in Threads, Notify(t) PROVE session' = session \/ life = "closing"
    BY <2>2 DEF Notify
  <2>3. ASSUME NEW t \in Threads, Stamp(t) \/ Lock(t) \/ Send(t) \/ Recv(t) PROVE session' = session
    BY <2>3 DEF Stamp, Lock, Send, Recv
  <2> QED
    BY <2>1, <2>2, <2>3 DEF Next, ThreadStep, Request, Destroy, Serve, Over, vars
<1> QED
  BY <1>1, TokenInvariance, PTL DEF Spec, SessionStable
-----------------------------------------------------------------------------
(* What the destructor finds.  A request that is to be stamped was made    *)
(* when a token had been granted; a token that was granted is in use, or   *)
(* on its way to _session_id.                                              *)
StampedLater == \A t \in Threads : pc[t] # "idle" /\ ~login[t] => used # {}
TokenKept ==
  Running /\ used # {} =>
    \/ session # NoToken
    \/ \E t \in Threads :
         \/ pc[t] = "storing"
         \/ /\ pc[t] = "recv" /\ login[t]
            /\ inflight = None /\ reply.token # NoToken /\ reply.frames # 1

(* The destructor's logout names the session, which has ended when the     *)
(* gateway has answered.                                                   *)
LogoutNamed ==
  life = "closing" =>
    /\ session # NoToken
    /\ inflight # None => inflight.token \in used
    /\ reply # None => live = {}
    /\ \A t \in Threads : /\ pc[t] # "idle" => ~login[t] /\ pc[t] # "storing"
                          /\ pc[t] \in {"lock", "send"} => msg[t].token \in used
                          /\ pc[t] = "notify" => live = {}

SessionEnded == life = "destroyed" => live = {}

EndInv == StampedLater /\ TokenKept /\ LogoutNamed /\ SessionEnded

LEMMA EndInvInit == Init => EndInv
BY DEF Init, EndInv, StampedLater, TokenKept, LogoutNamed, SessionEnded

(* A thread reads a token only when one was granted. *)
LEMMA ReadableUsed ==
  TypeOK /\ TokensUsed => \A seen \in Readable \ {NoToken} : used # {}
BY RequesterAssumption DEF TypeOK, TokensUsed, Readable, Storing

LEMMA StampedLaterStep ==
  TypeOK /\ TokenInv /\ StampedLater /\ [Next]_vars => StampedLater'
<1> SUFFICES ASSUME TypeOK, TokenInv, StampedLater, [Next]_vars PROVE StampedLater'
  OBVIOUS
<1> USE RequesterAssumption DEF TypeOK, InRequest, TokenInv, StampedLater, At, Goto, Throw
<1>1. ASSUME NEW t \in Threads, NEW kind \in Kinds, Request(t, kind) PROVE StampedLater'
  <2>1. PICK seen \in Readable :
          \/ seen # NoToken /\ login' = [login EXCEPT ![t] = FALSE]
          \/ seen = NoToken /\ login' = [login EXCEPT ![t] = TRUE]
          \/ UNCHANGED <<login, pc>>
    BY <1>1 DEF Request
  <2>2. seen # NoToken => used # {}
    BY ReadableUsed
  <2>3. \A u \in Threads : pc'[u] # "idle" => u = t \/ pc[u] # "idle"
    BY <1>1 DEF Request
  <2> QED
    BY <1>1, <2>1, <2>2, <2>3 DEF Request, gatewayVars
<1>2. ASSUME NEW t \in Threads, ThreadStep(t) PROVE StampedLater'
  <2>1. UNCHANGED <<login, gatewayVars>>
    BY <1>2 DEF ThreadStep, Stamp, Lock, Send, Recv, Store, Notify
  <2>2. \A u \in Threads : pc'[u] # "idle" => pc[u] # "idle"
    BY <1>2 DEF ThreadStep, Stamp, Lock, Send, Recv, Store, Notify
  <2> QED
    BY <2>1, <2>2 DEF gatewayVars
<1>3. ASSUME NEW t \in Threads, Destroy(t) PROVE StampedLater'
  <2>1. CASE MustLogout
    BY <1>3, <2>1 DEF Destroy, MustLogout, TokensUsed, gatewayVars
  <2>2. CASE ~MustLogout
    BY <1>3, <2>2 DEF Destroy, gatewayVars
  <2> QED
    BY <2>1, <2>2
<1>4. CASE Serve
  <2>1. used \subseteq used'
    BY <1>4 DEF Serve
  <2> QED
    BY <1>4, <2>1 DEF Serve, threadVars
<1>5. CASE UNCHANGED vars
  BY <1>5 DEF vars, threadVars, gatewayVars
<1> QED
  BY <1>1, <1>2, <1>3, <1>4, <1>5 DEF Next, Over

LEMMA TokenKeptStep ==
  ASSUME 1 \notin Frames
  PROVE  TypeOK /\ TokenInv /\ StampedLater /\ TokenKept /\ [Next]_vars => TokenKept'
<1> SUFFICES ASSUME TypeOK, TokenInv, StampedLater, TokenKept, [Next]_vars PROVE TokenKept'
  OBVIOUS
<1> USE RequesterAssumption
    DEF TypeOK, InRequest, TokenInv, TokenKept, Running, At, Goto, Throw
<1>1. ASSUME NEW t \in Threads, NEW kind \in Kinds, Request(t, kind) PROVE TokenKept'
  <2>1. \A u \in Threads : pc[u] # "idle" => pc'[u] = pc[u] /\ login'[u] = login[u]
    BY <1>1 DEF Request
  <2> QED
    BY <1>1, <2>1 DEF Request, socketVars, gatewayVars
<1>2. ASSUME NEW t \in Threads, Stamp(t) \/ Lock(t) \/ Send(t) PROVE TokenKept'
  <2>1. /\ pc[t] \in {"stamp", "lock", "send"}
        /\ \A u \in Threads \ {t} : pc'[u] = pc[u]
        /\ UNCHANGED <<login, session, reply, gatewayVars>>
        /\ inflight' = inflight \/ \A u \in Threads : pc[u] # "recv"
        /\ life' \in {life, "aborted"}
    BY <1>2 DEF Stamp, Lock, Send, socketVars
  <2> QED
    BY <2>1 DEF gatewayVars
<1>3. ASSUME NEW t \in Threads, Recv(t) PROVE TokenKept'
  <2>1. \A u \in Threads : pc[u] = "recv" => u = t
    BY <1>3 DEF Recv
  <2>2. CASE Running /\ used # {} /\ session = NoToken /\ \A u \in Threads : pc[u] # "storing"
    <3>1. login[t] /\ reply.token # NoToken /\ reply.frames # 1
      BY <2>1, <2>2
    <3>2. pc'[t] = "storing"
      BY <1>3, <3>1 DEF Recv, StoresToken, TokenOf
    <3> QED
      BY <3>2
  <2>3. CASE Running /\ used # {} /\ session # NoToken
    BY <1>3, <2>3 DEF Recv
  <2>4. CASE Running /\ \E u \in Threads : pc[u] = "storing"
    <3>1. \A u \in Threads : pc[u] = "storing" => pc'[u] = "storing"
      BY <1>3 DEF Recv
    <3> QED
      BY <2>4, <3>1
  <2>5. CASE ~Running \/ used = {}
    BY <1>3, <2>5 DEF Recv, gatewayVars
  <2> QED
    BY <2>2, <2>3, <2>4, <2>5
<1>4. ASSUME NEW t \in Threads, Store(t) PROVE TokenKept'
  BY <1>4 DEF Store, TokensUsed
<1>5. ASSUME NEW t \in Threads, Notify(t) PROVE TokenKept'
  <2>1. Running' => life = "alive" /\ session' = session
    BY <1>5 DEF Notify
  <2>2. \A u \in Threads : pc[u] \in {"storing", "recv"} => pc'[u] = pc[u]
    BY <1>5 DEF Notify
  <2> QED
    BY <1>5, <2>1, <2>2 DEF Notify, socketVars, gatewayVars
<1>6. ASSUME NEW t \in Threads, Destroy(t) PROVE TokenKept'
  BY <1>6 DEF Destroy, MustLogout
<1>7. CASE Serve
  <2>1. inflight # None /\ \E t \in Threads : pc[t] = "recv"
    BY <1>7 DEF Serve, Outstanding
  <2>2. PICK t \in Threads : pc[t] = "recv"
    BY <2>1
  <2>3. PICK n \in Frames, g \in (IF inflight.kind = "login" THEN Grants ELSE {NoToken}) :
          /\ reply' = [token |-> g, frames |-> n]
          /\ used' = used \cup ({g} \ {NoToken})
    BY <1>7 DEF Serve
  <2>4. CASE g = NoToken
    BY <1>7, <2>1, <2>3, <2>4 DEF Serve, threadVars
  <2>5. CASE g # NoToken
    <3>1. live = {}
      BY <2>3, <2>5 DEF Grants
    <3>2. used = {}
      BY <1>7, <3>1 DEF Serve, OneToken, LogoutToCome
    <3>3. login[t]
      BY <2>2, <3>2 DEF StampedLater
    <3>4. pc'[t] = "recv" /\ login'[t]
      BY <1>7, <2>2, <3>3 DEF Serve, threadVars
    <3>5. inflight' = None /\ reply'.token # NoToken /\ reply'.frames # 1
      BY <1>7, <2>3, <2>5 DEF Serve
    <3> QED
      BY <3>4, <3>5
  <2> QED
    BY <2>4, <2>5
<1>8. CASE UNCHANGED vars
  BY <1>8 DEF vars, threadVars, socketVars, gatewayVars
<1> QED
  BY <1>1, <1>2, <1>3, <1>4, <1>5, <1>6, <1>7, <1>8 DEF Next, ThreadStep, Over

LEMMA LogoutNamedStep ==
  TypeOK /\ TokenInv /\ LogoutNamed /\ [Next]_vars => LogoutNamed'
<1> SUFFICES ASSUME TypeOK, TokenInv, LogoutNamed, [Next]_vars, life' = "closing"
             PROVE  LogoutNamed'
  BY DEF LogoutNamed
<1> USE RequesterAssumption
    DEF TypeOK, InRequest, TokenInv, LogoutNamed, Running, At, Goto, Throw
<1>1. ASSUME NEW t \in Threads, NEW kind \in Kinds, Request(t, kind) PROVE FALSE
  BY <1>1 DEF Request
<1>2. ASSUME NEW t \in Threads, Stamp(t) PROVE LogoutNamed'
  <2>1. PICK seen \in Readable \ {NoToken} : msg' = [msg EXCEPT ![t].token = seen]
    BY <1>2 DEF Stamp
  <2>2. seen \in used
    BY <1>2, <2>1 DEF Stamp, Readable, Storing, TokensUsed
  <2>3. \A u \in Threads : msg'[u].token = IF u = t THEN seen ELSE msg[u].token
    BY <2>1 DEF Requests
  <2> QED
    BY <1>2, <2>2, <2>3 DEF Stamp, socketVars, gatewayVars
<1>3. ASSUME NEW t \in Threads, Lock(t) PROVE LogoutNamed'
  BY <1>3 DEF Lock, gatewayVars
<1>4. ASSUME NEW t \in Threads, Send(t) PROVE LogoutNamed'
  BY <1>4 DEF Send, gatewayVars
<1>5. ASSUME NEW t \in Threads, Recv(t) PROVE LogoutNamed'
  <2>1. ~login[t] /\ live = {} /\ life = "closing"
    BY <1>5 DEF Recv
  <2>2. pc' = [pc EXCEPT ![t] = "notify"]
    BY <1>5, <2>1 DEF Recv, StoresToken
  <2> QED
    BY <1>5, <2>1, <2>2 DEF Recv, gatewayVars
<1>6. ASSUME NEW t \in Threads, Store(t) PROVE FALSE
  BY <1>6 DEF Store
<1>7. ASSUME NEW t \in Threads, Notify(t) PROVE FALSE
  BY <1>7 DEF Notify
<1>8. ASSUME NEW t \in Threads, Destroy(t) PROVE LogoutNamed'
  <2>1. MustLogout
    BY <1>8 DEF Destroy
  <2>2. /\ pc' = [pc EXCEPT ![t] = "stamp"] /\ login' = [login EXCEPT ![t] = FALSE]
        /\ \A u \in Threads : pc[u] = "idle"
    BY <1>8, <2>1 DEF Destroy
  <2>3. inflight' = None /\ reply' = None
    BY <1>8, <2>2 DEF Destroy, Outstanding, socketVars
  <2> QED
    BY <1>8, <2>1, <2>2, <2>3 DEF Destroy, MustLogout
<1>9. CASE Serve
  <2>1. life = "closing" /\ inflight.kind = "logout" /\ inflight.token \in used
    BY <1>9 DEF Serve, LogoutLast
  <2>2. live' = live \ {inflight.token}
    BY <1>9, <2>1 DEF Serve
  <2>3. live' = {}
    BY <2>1, <2>2 DEF OneToken
  <2> QED
    BY <1>9, <2>1, <2>3 DEF Serve, threadVars
<1>10. CASE UNCHANGED vars
  BY <1>10 DEF vars, threadVars, socketVars, gatewayVars
<1> QED
  BY <1>1, <1>2, <1>3, <1>4, <1>5, <1>6, <1>7, <1>8, <1>9, <1>10 DEF Next, ThreadStep, Over

(* The destructor ends with no session left: it has named it and waited    *)
(* for the gateway's answer, or it found that none was ever granted.       *)
LEMMA SessionEndedStep ==
  TypeOK /\ TokenInv /\ EndInv /\ [Next]_vars => SessionEnded'
<1> SUFFICES ASSUME TypeOK, TokenInv, EndInv, [Next]_vars, life' = "destroyed"
             PROVE  live' = {}
  BY DEF SessionEnded
<1> USE DEF EndInv, SessionEnded, Running, At
<1>1. CASE life = "destroyed"
  BY <1>1 DEF Next, Request, ThreadStep, Stamp, Lock, Send, Recv, Store, Notify, Destroy, Serve,
              Over, vars, gatewayVars
<1>2. ASSUME NEW t \in Threads, Notify(t), life # "destroyed" PROVE live' = {}
  BY <1>2 DEF Notify, Throw, LogoutNamed, gatewayVars
<1>3. ASSUME NEW t \in Threads, Destroy(t) PROVE live' = {}
  <2>1. session = NoToken /\ \A u \in Threads : pc[u] = "idle"
    BY <1>3 DEF Destroy, MustLogout
  <2>2. used = {}
    BY <1>3, <2>1 DEF Destroy, TokenKept
  <2> QED
    BY <1>3, <2>2 DEF Destroy, TokenInv, OneToken, gatewayVars
<1>4. ASSUME NEW t \in Threads, Stamp(t) \/ Lock(t) \/ Send(t) \/ Recv(t) \/ Store(t)
      PROVE  life = "destroyed"
  BY <1>4 DEF Stamp, Lock, Send, Recv, Store, Throw
<1>5. CASE Serve \/ UNCHANGED vars
  BY <1>1, <1>5 DEF Serve, vars
<1> QED
  BY <1>1, <1>2, <1>3, <1>4, <1>5 DEF Next, ThreadStep, Request, Over

LEMMA EndInvStep ==
  ASSUME 1 \notin Frames
  PROVE  TypeOK /\ TokenInv /\ EndInv /\ [Next]_vars => EndInv'
BY StampedLaterStep, TokenKeptStep, LogoutNamedStep, SessionEndedStep DEF EndInv
=============================================================================
