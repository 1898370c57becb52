----------------------------- MODULE Responder -----------------------------
(***************************************************************************)
(* The back channel of a UFEedClient: the worker loop receives the         *)
(* gateway's requests on the REP socket, shows them to the listener,       *)
(* composes a reply in process_respond_message() and sends it, while the   *)
(* application may send replies of its own with respond(), from a listener *)
(* callback or from another thread (ufeedclient.cpp, Impl).  The           *)
(* subscriber socket is served first in every round.                       *)
(*                                                                         *)
(* A message is its kind and its number of frames; the fields a reply      *)
(* copies from its request are represented by the request it is about.     *)
(* External: the REP socket of ZeroMQ, which receives and sends in turn,   *)
(* offers nothing to read while a reply is due, throws EFSM for a send out *)
(* of turn and routes a reply to the request received last.                *)
(***************************************************************************)
EXTENDS Naturals, Sequences

CONSTANTS Apps, Worker, NoThread,
          Listener,     \* is there a listener?
          Verdicts,     \* what its error callbacks may answer
          Throws,       \* may its other callbacks throw?
          Responds,     \* may its callbacks call respond()?
          Frames,       \* numbers of frames the gateway's messages may have
          SeqMod,       \* _responderSeq wraps at this value (2^32 in the code)
          MaxRequests,  \* bound: requests the gateway sends
          MaxPublished, \* bound: messages published to the subscriber
          MaxResponds   \* bound: calls of respond() by the application

Kinds == {"fixmsg", "authenticate", "command", "no_command", "unknown"}

ASSUME ResponderAssumption ==
  /\ Worker \notin Apps /\ NoThread \notin Apps \cup {Worker}
  /\ {Listener, Throws, Responds} \subseteq BOOLEAN
  /\ Verdicts \subseteq BOOLEAN /\ Frames \subseteq 1..3
  /\ SeqMod \in Nat \ {0}
  /\ {MaxRequests, MaxPublished, MaxResponds} \subseteq Nat

VARIABLES
  pc,             \* where each thread is
  back,           \* where it goes on after a respond()
  out,            \* the reply it sends
  sent,           \* the requests the gateway has sent, in order
  taken,          \* how many of them _rep_socket has delivered
  rep_socket,     \* "recv", "send" or "more": a frame is left unread
  rep_lock,       \* who holds _rep_socket_lock
  published,      \* messages waiting in _sub_socket
  rep_ready,      \* did zmq::poll report the REP socket?
  current,        \* msg1: the request being processed, 0 for none
  accepted,       \* the requests whose user the listener accepted
  responderSeq,   \* _responderSeq
  stop_requested, \* _stop_requested
  replies,        \* the replies sent, each with the request it was routed to
  failed,         \* the requests during which a catch block was entered
  responds        \* calls of respond() so far

inputs == <<sent, published>>
sockets == <<taken, rep_socket, rep_lock, replies>>
worker == <<rep_ready, current, accepted, responderSeq, stop_requested, failed>>
calls == <<back, out, responds>>
vars == <<pc, inputs, sockets, worker, calls>>

Runners == Apps \cup {Worker}
RepLock == INSTANCE Mutex WITH Threads <- Runners, owner <- rep_lock

Codes == {"UFE_OK", "LOGIN_ACCEPTED", "UNKNOWN_USER", "NO_CMD", "UNKNOWN_TYPE", "user"}
ReplyMsgs == [about : Nat, code : Codes, seq : Nat]

Steps == {"loop", "sub", "lock", "recv", "notify", "decide", "answer", "send", "catch",
          "stopped", "idle"}

UserReply == [about |-> 0, code |-> "user", seq |-> 0]

(* Every variable has its type, and _rep_socket_lock is held exactly by    *)
(* the thread that is inside a receive or a send on the REP socket         *)
(* (zmq::poll looks at the socket without it).                             *)
TypeOK ==
  /\ pc \in [Runners -> Steps]
  /\ back \in [Runners -> {"loop", "sub", "notify", "idle"}]
  /\ out \in [Runners -> ReplyMsgs]
  /\ sent \in Seq([kind : Kinds, frames : Frames])
  /\ taken \in 0..Len(sent)
  /\ rep_socket \in {"recv", "send", "more"}
  /\ rep_lock \in Runners \cup {NoThread}
  /\ published \in Nat /\ responds \in Nat
  /\ rep_ready \in BOOLEAN /\ stop_requested \in BOOLEAN
  /\ current \in Nat
  /\ accepted \subseteq Nat /\ failed \subseteq Nat
  /\ responderSeq \in 0..SeqMod-1
  /\ replies \in Seq([to : Nat, msg : ReplyMsgs])
  /\ \A r \in Runners : pc[r] \in {"recv", "send"} <=> rep_lock = r

Init ==
  /\ pc = [r \in Runners |-> IF r = Worker THEN "loop" ELSE "idle"]
  /\ back = [r \in Runners |-> IF r = Worker THEN "loop" ELSE "idle"]
  /\ out = [r \in Runners |-> UserReply]
  /\ sent = <<>> /\ taken = 0
  /\ rep_socket = "recv" /\ RepLock!Init
  /\ published = 0 /\ responds = 0
  /\ rep_ready = FALSE /\ stop_requested = FALSE
  /\ current = 0 /\ accepted = {} /\ failed = {}
  /\ responderSeq = 0
  /\ replies = <<>>

Goto(r, step) == pc' = [pc EXCEPT ![r] = step]

-----------------------------------------------------------------------------
(* External: the gateway sends a request, or publishes. *)
Arrive ==
  /\ Len(sent) < MaxRequests
  /\ \E k \in Kinds, n \in Frames : sent' = Append(sent, [kind |-> k, frames |-> n])
  /\ UNCHANGED <<pc, published, sockets, worker, calls>>

Publish ==
  /\ published < MaxPublished
  /\ published' = published + 1
  /\ UNCHANGED <<pc, sent, sockets, worker, calls>>

CanRead == rep_socket = "more" \/ (rep_socket = "recv" /\ taken < Len(sent))

-----------------------------------------------------------------------------
(* while (!_stop_requested): zmq::poll looks at both sockets once.  (A     *)
(* poll that times out changes nothing.)                                   *)
Poll ==
  /\ pc[Worker] = "loop"
  /\ \/ /\ stop_requested
        /\ Goto(Worker, "stopped") /\ UNCHANGED rep_ready
     \/ /\ ~stop_requested /\ (published > 0 \/ CanRead)
        /\ rep_ready' = CanRead
        /\ Goto(Worker, IF published > 0 THEN "sub" ELSE "lock")
  /\ UNCHANGED <<inputs, sockets, current, accepted, responderSeq, stop_requested,
                 failed, calls>>

(* pitems[0]: recv, which refuses a single frame, and the listener.  An    *)
(* exception drops the rest of the round.                                  *)
SubThrows == 1 \in Frames \/ (Listener /\ Throws)
Subscription ==
  /\ pc[Worker] = "sub"
  /\ published' = published - 1
  /\ \/ Goto(Worker, IF rep_ready THEN "lock" ELSE "loop")
     \/ SubThrows /\ Goto(Worker, "catch")
  /\ UNCHANGED <<sent, sockets, worker, calls>>

(* pitems[1]: the lock is held for the receive only. *)
NoLock(r) == UNCHANGED rep_lock
TakeLock(r) == RepLock!Acquire(r)
LockToRecv ==
  /\ pc[Worker] = "lock" /\ TakeLock(Worker)
  /\ Goto(Worker, "recv")
  /\ UNCHANGED <<inputs, taken, rep_socket, replies, worker, calls>>

(* recv(): a message of one frame, or the frame a longer one has left, is  *)
(* taken and refused; frames after the second are left.                    *)
FrameRefused(n) == n = 1
Recv ==
  /\ pc[Worker] = "recv"
  /\ RepLock!Release(Worker)
  /\ \/ /\ rep_socket = "more"
        /\ rep_socket' = "send"
        /\ Goto(Worker, "catch")
        /\ UNCHANGED <<taken, current>>
     \/ /\ rep_socket = "recv" /\ taken < Len(sent)
        /\ taken' = taken + 1
        /\ rep_socket' = IF sent[taken + 1].frames = 3 THEN "more" ELSE "send"
        /\ IF FrameRefused(sent[taken + 1].frames)
           THEN Goto(Worker, "catch") /\ UNCHANGED current
           ELSE Goto(Worker, "notify") /\ current' = taken + 1
  /\ UNCHANGED <<inputs, replies, rep_ready, accepted, responderSeq, stop_requested,
                 failed, calls>>

(* responder_message_received() *)
Notify ==
  /\ pc[Worker] = "notify"
  /\ \/ Goto(Worker, "decide")
     \/ Listener /\ Throws /\ Goto(Worker, "catch")
  /\ UNCHANGED <<inputs, sockets, worker, calls>>

(* process_respond_message(): an authentication is decided by the          *)
(* listener, and granted when there is none.                               *)
Decide ==
  /\ pc[Worker] = "decide"
  /\ \/ /\ Goto(Worker, "answer")
        /\ \/ UNCHANGED accepted
           \/ /\ sent[current].kind = "authenticate"
              /\ accepted' = accepted \cup {current}
     \/ /\ Listener /\ Throws /\ sent[current].kind = "authenticate"
        /\ Goto(Worker, "catch") /\ UNCHANGED accepted
  /\ UNCHANGED <<inputs, sockets, rep_ready, current, responderSeq, stop_requested,
                 failed, calls>>

VerdictIgnored(m) == sent[m].kind = "authenticate"
UserAccepted(m) == ~Listener \/ m \in accepted
ResponseCode(m) ==
  CASE sent[m].kind = "fixmsg" -> "UFE_OK"
    [] sent[m].kind = "authenticate" ->
         IF UserAccepted(m) THEN "LOGIN_ACCEPTED" ELSE "UNKNOWN_USER"
    [] sent[m].kind \in {"command", "no_command"} -> "NO_CMD"
    [] sent[m].kind = "unknown" -> "UNKNOWN_TYPE"

(* The reply is numbered, composed and handed to respond(), which takes    *)
(* the lock.  Errors are answered too.                                     *)
SeqNotAdvanced == responderSeq
NextSeq == (responderSeq + 1) % SeqMod
OnlySuccess(m) == ResponseCode(m) \in {"UFE_OK", "LOGIN_ACCEPTED"}
IsAnswered(m) == TRUE
Answer ==
  /\ pc[Worker] = "answer"
  /\ \/ /\ IsAnswered(current) /\ RepLock!Acquire(Worker)
        /\ responderSeq' = NextSeq
        /\ out' = [out EXCEPT ![Worker] = [about |-> current, code |-> ResponseCode(current),
                                           seq |-> NextSeq]]
        /\ back' = [back EXCEPT ![Worker] = "loop"]
        /\ Goto(Worker, "send")
     \/ /\ ~IsAnswered(current)
        /\ Goto(Worker, "loop")
        /\ UNCHANGED <<rep_lock, responderSeq, out, back>>
  /\ UNCHANGED <<inputs, taken, rep_socket, replies, rep_ready, current, accepted,
                 stop_requested, failed, responds>>

-----------------------------------------------------------------------------
(* respond(), called by the application: by a thread of its own, or by the *)
(* listener inside a callback.                                             *)
Respond(r) ==
  /\ \/ r \in Apps /\ pc[r] = "idle"
     \/ r = Worker /\ Listener /\ Responds /\ pc[r] \in {"sub", "notify"}
  /\ responds < MaxResponds
  /\ TakeLock(r)
  /\ responds' = responds + 1
  /\ out' = [out EXCEPT ![r] = UserReply]
  /\ back' = [back EXCEPT ![r] = pc[r]]
  /\ Goto(r, "send")
  /\ UNCHANGED <<inputs, taken, rep_socket, replies, worker>>

(* send() under the lock; out of turn it throws, to the application thread *)
(* or into the worker's catch, where the round ends: the message whose     *)
(* callback sent it is read no more.                                       *)
Send(r) ==
  /\ pc[r] = "send"
  /\ RepLock!Release(r)
  /\ \/ /\ rep_socket = "send"
        /\ rep_socket' = "recv"
        /\ replies' = Append(replies, [to |-> taken, msg |-> out[r]])
        /\ Goto(r, back[r]) /\ UNCHANGED published
     \/ /\ rep_socket # "send"
        /\ Goto(r, IF r = Worker THEN "catch" ELSE "idle")
        /\ published' = IF r = Worker /\ back[r] = "sub" THEN published - 1 ELSE published
        /\ UNCHANGED <<rep_socket, replies>>
  /\ UNCHANGED <<sent, taken, worker, calls>>

(* The catch blocks: the listener decides whether the loop goes on. *)
CatchAnswers ==
  /\ pc[Worker] = "catch"
  /\ failed' = failed \cup {taken}
  /\ Goto(Worker, IF current = 0 THEN "loop" ELSE "answer")
  /\ UNCHANGED <<inputs, sockets, rep_ready, current, accepted, responderSeq,
                 stop_requested, calls>>
Catch ==
  /\ pc[Worker] = "catch"
  /\ failed' = failed \cup {taken}
  /\ \/ Listener /\ \E v \in Verdicts : stop_requested' = ~v
     \/ ~Listener /\ UNCHANGED stop_requested
  /\ Goto(Worker, "loop")
  /\ UNCHANGED <<inputs, sockets, rep_ready, current, accepted, responderSeq, calls>>

-----------------------------------------------------------------------------
WorkerStep == Poll \/ Subscription \/ LockToRecv \/ Recv \/ Notify \/ Decide \/ Answer
              \/ Send(Worker) \/ Catch

(* The gateway has nothing more to say and the loop nothing to do. *)
Quiet ==
  /\ Len(sent) = MaxRequests /\ pc[Worker] \in {"loop", "stopped"}
  /\ UNCHANGED vars

Next ==
  \/ Arrive \/ Publish \/ WorkerStep
  \/ \E r \in Runners : Respond(r)
  \/ \E a \in Apps : Send(a)
  \/ Quiet

(* The loop keeps running and a respond() that has begun ends; the gateway *)
(* need not send, nor the application respond.                             *)
Spec == /\ Init /\ [][Next]_vars
        /\ WF_vars(WorkerStep) /\ \A a \in Apps : WF_vars(Send(a))

-----------------------------------------------------------------------------
Replied(m) == \E i \in DOMAIN replies : replies[i].to = m

(* A reply the client composes reaches the request it was composed for,    *)
(* whatever failed before.                                                 *)
ReplyFits == \A i \in DOMAIN replies : replies[i].msg.about \in {0, replies[i].to}

(* A gateway user is told that the login is accepted only if the listener  *)
(* accepted that very request.                                             *)
AuthDecided ==
  \A i \in DOMAIN replies :
    replies[i].msg.code = "LOGIN_ACCEPTED" => replies[i].msg.about \in accepted

(* Replies leave in the order of the requests they are routed to, and the  *)
(* numbers of those the client composes, which count its replies and not   *)
(* the requests, ascend.                                                   *)
RepliesOrdered ==
  \A i, j \in DOMAIN replies :
    i < j => /\ replies[i].to < replies[j].to
             /\ {replies[i].msg.code, replies[j].msg.code} \cap {"user"} = {} =>
                  replies[i].msg.seq < replies[j].msg.seq

(* A request the worker is done with was answered or went to a catch.      *)
NothingDropped ==
  pc[Worker] \in {"loop", "stopped"} => \A m \in 1..taken : Replied(m) \/ m \in failed

(* Every request is answered in the end, unless the listener ended the     *)
(* loop or something failed after the last request that was delivered: a   *)
(* failure may leave a reply due that only the application can send, and   *)
(* subscriptions that fail again and again keep the loop from reading on.  *)
EveryRequestAnswered ==
  \A m \in 1..MaxRequests :
    m <= Len(sent) ~> (Replied(m) \/ stop_requested \/ taken \in failed)
=============================================================================
