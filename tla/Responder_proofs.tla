-------------------------- MODULE Responder_proofs --------------------------
(***************************************************************************)
(* The back channel for any number of application threads, requests and    *)
(* frames: types and lock discipline, that a reply goes to the request it  *)
(* was composed for, that only the listener grants a login, that no        *)
(* request taken is dropped, and the order and numbers of the replies.     *)
(***************************************************************************)
EXTENDS Responder, SequenceTheorems, TLAPS

(* While a request is processed it is the one received last, and it is one *)
(* the gateway has sent.                                                   *)
Processing ==
  \/ pc[Worker] \in {"notify", "decide", "answer"}
  \/ pc[Worker] = "send" /\ back[Worker] = "notify"
CurrentInv == Processing => current = taken /\ taken \in 1..Len(sent)

(* A reply on its way out is the user's, or about the last request. *)
OutInv == \A r \in Runners : pc[r] = "send" => out[r].about \in {0, taken}

(* The worker reads the subscriber socket when a message waits there. *)
SubInv ==
  pc[Worker] = "sub" \/ (pc[Worker] = "send" /\ back[Worker] = "sub") => published > 0

FitInv == TypeOK /\ SubInv /\ CurrentInv /\ OutInv /\ ReplyFits

LEMMA FitInit == Init => FitInv
<1> SUFFICES ASSUME Init PROVE FitInv
  OBVIOUS
<1> USE ResponderAssumption DEF Init
<1>1. UserReply \in ReplyMsgs
  BY DEF UserReply, ReplyMsgs, Codes
<1>2. pc \in [Runners -> Steps] /\ \A r \in Runners : pc[r] \in {"loop", "idle"}
  BY DEF Runners, Steps
<1>3. back \in [Runners -> {"loop", "sub", "notify", "idle"}]
  BY DEF Runners
<1>4. /\ sent \in Seq([kind : Kinds, frames : Frames]) /\ Len(sent) = 0
      /\ replies \in Seq([to : Nat, msg : ReplyMsgs]) /\ Len(replies) = 0
  BY EmptySeq
<1>5. DOMAIN replies = {}
  BY <1>4, LenProperties
<1>6. \A r \in Runners : rep_lock # r
  BY DEF Runners, RepLock!Init
<1>7. /\ out \in [Runners -> ReplyMsgs]
      /\ \A r \in Runners : pc[r] \in {"recv", "send"} <=> rep_lock = r
  BY <1>1, <1>2, <1>6
<1>8. /\ taken \in 0..Len(sent) /\ responderSeq \in 0..SeqMod-1
       /\ current \in Nat /\ published \in Nat /\ responds \in Nat
  BY <1>4
<1>9. TypeOK
  <2> HIDE DEF Init
  <2>1. rep_lock = NoThread /\ rep_socket = "recv" /\ accepted = {} /\ failed = {}
        /\ rep_ready = FALSE /\ stop_requested = FALSE
    BY DEF Init, RepLock!Init
  <2> QED
    BY <1>2, <1>3, <1>4, <1>7, <1>8, <2>1 DEF TypeOK
<1>10. SubInv /\ CurrentInv /\ OutInv /\ ReplyFits
  BY <1>2, <1>5 DEF SubInv, CurrentInv, Processing, OutInv, Runners, ReplyFits
<1> QED
  BY <1>9, <1>10 DEF FitInv

(* The response code process_respond_message() computes is a code. *)
LEMMA CodeTyped ==
  ASSUME TypeOK, NEW m \in 1..Len(sent)
  PROVE  ResponseCode(m) \in Codes
<1>1. sent[m] \in [kind : Kinds, frames : Frames]
  BY ElementOfSeq DEF TypeOK
<1>2. sent[m].kind \in {"fixmsg", "authenticate", "command", "no_command", "unknown"}
  BY <1>1 DEF Kinds
<1> QED
  BY <1>2 DEF ResponseCode, Codes

LEMMA FitArrive == FitInv /\ Arrive => FitInv'
<1> SUFFICES ASSUME FitInv, Arrive PROVE FitInv'
  OBVIOUS
<1> USE DEF FitInv, Arrive, sockets, worker, calls
<1>1. PICK k \in Kinds, n \in Frames : sent' = Append(sent, [kind |-> k, frames |-> n])
  OBVIOUS
<1>2. sent' \in Seq([kind : Kinds, frames : Frames]) /\ Len(sent') = Len(sent) + 1
  BY <1>1 DEF TypeOK
<1>3. TypeOK'
  BY <1>2 DEF TypeOK
<1>4. SubInv' /\ CurrentInv'
  BY <1>2 DEF SubInv, CurrentInv, Processing, TypeOK
<1>5. OutInv' /\ ReplyFits'
  BY DEF OutInv, ReplyFits
<1> QED
  BY <1>3, <1>4, <1>5

LEMMA FitRecv == FitInv /\ Recv => FitInv'
<1> SUFFICES ASSUME FitInv, Recv PROVE FitInv'
  OBVIOUS
<1> USE ResponderAssumption DEF FitInv, Recv, inputs, calls, Goto, RepLock!Release
<1>1. /\ rep_lock = Worker /\ rep_lock' = NoThread
      /\ \A r \in Runners : r # Worker => pc[r] \notin {"recv", "send"}
  BY DEF TypeOK, Runners
<1>2. \E step \in {"catch", "notify"} : pc' = [pc EXCEPT ![Worker] = step]
  OBVIOUS
<1>3. pc' \in [Runners -> Steps] /\ \A r \in Runners : pc'[r] \notin {"recv", "send"}
  BY <1>1, <1>2 DEF TypeOK, Runners, Steps
<1>4. /\ taken' \in 0..Len(sent) /\ current' \in Nat
      /\ rep_socket' \in {"recv", "send", "more"}
  BY DEF TypeOK
<1>5. TypeOK'
  BY <1>1, <1>3, <1>4 DEF TypeOK, Runners
<1>6. SubInv' /\ CurrentInv'
  BY <1>2, <1>3, <1>4 DEF SubInv, CurrentInv, Processing, TypeOK, Runners
<1>7. OutInv' /\ ReplyFits'
  BY <1>3 DEF OutInv, ReplyFits
<1> QED
  BY <1>5, <1>6, <1>7

LEMMA FitAnswer == FitInv /\ Answer => FitInv'
<1> SUFFICES ASSUME FitInv, Answer PROVE FitInv'
  OBVIOUS
<1> USE ResponderAssumption DEF FitInv, inputs, Goto, RepLock!Acquire
<1>1. current = taken /\ current \in 1..Len(sent)
  BY DEF Answer, CurrentInv, Processing
<1>2. NextSeq \in 0..SeqMod-1
  BY DEF TypeOK, NextSeq
<1> DEFINE msg == [about |-> current, code |-> ResponseCode(current), seq |-> NextSeq]
<1>3. msg \in ReplyMsgs
  BY <1>1, <1>2, CodeTyped DEF ReplyMsgs, TypeOK
<1>4. /\ rep_lock = NoThread /\ rep_lock' = Worker
      /\ responderSeq' = NextSeq
      /\ out' = [out EXCEPT ![Worker] = msg]
      /\ back' = [back EXCEPT ![Worker] = "loop"]
      /\ pc' = [pc EXCEPT ![Worker] = "send"]
      /\ UNCHANGED <<sent, published, taken, rep_socket, replies, rep_ready, current,
                     accepted, stop_requested, failed, responds>>
  BY DEF Answer, IsAnswered
<1> HIDE DEF msg
<1>5. TypeOK'
  BY <1>2, <1>3, <1>4 DEF TypeOK, Runners, Steps
<1>6. SubInv' /\ CurrentInv'
  BY <1>4 DEF SubInv, CurrentInv, Processing, TypeOK, Runners
<1>7. \A r \in Runners : r # Worker => pc'[r] # "send"
  BY <1>4 DEF TypeOK, Runners
<1>8. OutInv'
  BY <1>1, <1>4, <1>7 DEF OutInv, TypeOK, Runners, msg
<1>9. ReplyFits'
  BY <1>4 DEF ReplyFits
<1> QED
  BY <1>5, <1>6, <1>8, <1>9

LEMMA FitSend ==
  ASSUME NEW r \in Runners, FitInv, Send(r)
  PROVE  FitInv'
<1> USE ResponderAssumption DEF FitInv, inputs, worker, calls, Goto, RepLock!Release
<1>1. /\ rep_lock = r /\ rep_lock' = NoThread
      /\ \A q \in Runners : q # r => pc[q] \notin {"recv", "send"}
  BY DEF Send, TypeOK
<1>2. PICK step \in {"loop", "sub", "notify", "idle", "catch"} :
        /\ pc' = [pc EXCEPT ![r] = step]
        /\ r = Worker /\ step \in {"notify", "sub"} => back[r] = step
  BY DEF Send, TypeOK
<1>3. pc' \in [Runners -> Steps] /\ \A q \in Runners : pc'[q] \notin {"recv", "send"}
  BY <1>1, <1>2 DEF TypeOK, Steps
<1>4. /\ replies' \in Seq([to : Nat, msg : ReplyMsgs])
      /\ rep_socket' \in {"recv", "send", "more"}
  <2>1. [to |-> taken, msg |-> out[r]] \in [to : Nat, msg : ReplyMsgs]
    BY DEF TypeOK
  <2>2. replies' = replies \/ replies' = Append(replies, [to |-> taken, msg |-> out[r]])
    BY DEF Send
  <2>3. rep_socket' \in {"recv", "send", "more"}
    BY DEF Send, TypeOK
  <2>4. replies \in Seq([to : Nat, msg : ReplyMsgs])
    BY DEF TypeOK
  <2>5. Append(replies, [to |-> taken, msg |-> out[r]]) \in Seq([to : Nat, msg : ReplyMsgs])
    BY <2>1, <2>4, AppendProperties
  <2> QED
    BY <2>2, <2>3, <2>4, <2>5
<1>5. TypeOK'
  <2>1. UNCHANGED <<sent, taken, worker, calls>> /\ published' \in Nat
    <3>1. UNCHANGED <<sent, taken, worker, calls>>
      BY DEF Send
    <3>2. published \in Nat /\ (r = Worker /\ back[r] = "sub" => published > 0)
      BY DEF Send, SubInv, TypeOK
    <3>3. published' \in {published, IF r = Worker /\ back[r] = "sub" THEN published - 1 ELSE published}
      BY DEF Send
    <3> QED
      BY <3>1, <3>2, <3>3
  <2>2. \A q \in Runners : pc'[q] \in {"recv", "send"} <=> rep_lock' = q
    BY <1>1, <1>3 DEF Runners
  <2> QED
    BY <1>1, <1>3, <1>4, <2>1, <2>2 DEF TypeOK
<1>6. SubInv' /\ CurrentInv'
  BY <1>2, <1>3 DEF SubInv, Send, CurrentInv, Processing, TypeOK, Runners
<1>7. OutInv'
  BY <1>3 DEF OutInv
<1>8. ReplyFits'
  <2>1. CASE replies' = replies
    BY <2>1 DEF ReplyFits
  <2>2. CASE replies' = Append(replies, [to |-> taken, msg |-> out[r]])
    <3>1. out[r].about \in {0, taken}
      BY DEF Send, OutInv
    <3>2. replies \in Seq([to : Nat, msg : ReplyMsgs])
      BY DEF TypeOK
    <3>3. ASSUME NEW i \in DOMAIN replies'
          PROVE  replies'[i].msg.about \in {0, replies'[i].to}
      <4>1. CASE i \in DOMAIN replies
        <5>1. replies'[i] = replies[i]
          BY <2>2, <3>2, <4>1
        <5> QED
          BY <4>1, <5>1 DEF ReplyFits
      <4>2. CASE i \notin DOMAIN replies
        <5>1. replies'[i] = [to |-> taken, msg |-> out[r]]
          BY <2>2, <3>2, <3>3, <4>2
        <5> QED
          BY <3>1, <5>1
      <4> QED
        BY <4>1, <4>2
    <3> QED
      BY <3>3 DEF ReplyFits
  <2> QED
    BY <2>1, <2>2 DEF Send
<1> QED
  BY <1>5, <1>6, <1>7, <1>8

LEMMA FitRespond ==
  ASSUME NEW r \in Runners, FitInv, Respond(r)
  PROVE  FitInv'
<1> USE ResponderAssumption DEF FitInv, inputs, worker, Goto, TakeLock, RepLock!Acquire
<1>1. UserReply \in ReplyMsgs /\ UserReply.about = 0
  BY DEF UserReply, ReplyMsgs, Codes
<1>2. /\ rep_lock = NoThread /\ rep_lock' = r
      /\ pc' = [pc EXCEPT ![r] = "send"]
      /\ out' = [out EXCEPT ![r] = UserReply]
      /\ back' = [back EXCEPT ![r] = pc[r]]
      /\ pc[r] \in {"idle", "sub", "notify"}
      /\ r = Worker => pc[r] \in {"sub", "notify"}
      /\ responds' = responds + 1
      /\ UNCHANGED <<inputs, taken, rep_socket, replies, worker>>
  BY DEF Respond
<1>3. TypeOK'
  BY <1>1, <1>2 DEF TypeOK, Runners, Steps
<1>4. SubInv' /\ CurrentInv'
  BY <1>2 DEF SubInv, CurrentInv, Processing, TypeOK, Runners
<1>5. OutInv' /\ ReplyFits'
  BY <1>1, <1>2 DEF OutInv, ReplyFits, TypeOK
<1> QED
  BY <1>3, <1>4, <1>5

LEMMA FitStep == FitInv /\ [Next]_vars => FitInv'
<1> SUFFICES ASSUME FitInv, [Next]_vars PROVE FitInv'
  OBVIOUS
<1> USE ResponderAssumption
    DEF FitInv, TypeOK, SubInv, CurrentInv, Processing, OutInv, ReplyFits, Runners, Steps,
        inputs, sockets, worker, calls, Goto
<1>1. CASE Publish
  BY <1>1 DEF Publish
<1>2. CASE Poll
  BY <1>2 DEF Poll, CanRead
<1>3. CASE Subscription
  BY <1>3 DEF Subscription
<1>4. CASE LockToRecv
  BY <1>4 DEF LockToRecv, TakeLock, RepLock!Acquire
<1>5. CASE Notify
  BY <1>5 DEF Notify
<1>6. CASE Decide
  BY <1>6 DEF Decide
<1>7. CASE Catch
  <2>1. stop_requested' \in BOOLEAN
    BY <1>7 DEF Catch
  <2>2. failed' \subseteq Nat
    BY <1>7 DEF Catch
  <2>3. pc' = [pc EXCEPT ![Worker] = "loop"] /\ pc[Worker] = "catch"
    BY <1>7 DEF Catch
  <2>4. /\ pc' \in [Runners -> Steps]
        /\ \A r \in Runners : pc'[r] \in {"recv", "send"} <=> pc[r] \in {"recv", "send"}
        /\ \A r \in Runners : pc'[r] = "send" => pc[r] = "send"
    BY <2>3
  <2> QED
    BY <1>7, <2>1, <2>2, <2>3, <2>4 DEF Catch
<1>8. CASE UNCHANGED vars
  BY <1>8 DEF vars
<1> QED
  BY <1>1, <1>2, <1>3, <1>4, <1>5, <1>6, <1>7, <1>8,
     FitArrive, FitRecv, FitAnswer, FitSend, FitRespond
  DEF Next, WorkerStep, Quiet

(* Every variable keeps its type and the REP socket is used only by the    *)
(* holder of _rep_socket_lock.                                             *)
THEOREM ResponderTyped == Spec => []TypeOK
<1>1. FitInv => TypeOK
  BY DEF FitInv
<1> QED
  BY <1>1, FitInit, FitStep, PTL DEF Spec

(* Whatever fails, and whoever else calls respond(), a reply composed by   *)
(* process_respond_message() reaches the request it was composed for.      *)
THEOREM RepliesFit == Spec => []ReplyFits
<1>1. FitInv => ReplyFits
  BY DEF FitInv
<1> QED
  BY <1>1, FitInit, FitStep, PTL DEF Spec

-----------------------------------------------------------------------------
(* A reply on its way out grants a login only if the listener accepted it. *)
GrantOut ==
  \A r \in Runners : pc[r] = "send" /\ out[r].code = "LOGIN_ACCEPTED"
                      => out[r].about \in accepted
GrantInv == GrantOut /\ AuthDecided

LEMMA GrantAnswer ==
  ASSUME Listener = TRUE, FitInv, GrantInv, Answer
  PROVE  GrantInv'
<1> USE DEF GrantInv, GrantOut, AuthDecided, Goto, RepLock!Acquire
<1>1. /\ out' = [out EXCEPT ![Worker] = [about |-> current, code |-> ResponseCode(current),
                                         seq |-> NextSeq]]
      /\ pc' = [pc EXCEPT ![Worker] = "send"]
      /\ UNCHANGED <<accepted, replies>>
  BY DEF Answer, IsAnswered
<1>2. ResponseCode(current) = "LOGIN_ACCEPTED" => current \in accepted
  <2>1. current \in 1..Len(sent)
    BY DEF Answer, FitInv, CurrentInv, Processing
  <2>2. sent[current].kind \in {"fixmsg", "authenticate", "command", "no_command", "unknown"}
    <3>1. sent[current] \in [kind : Kinds, frames : Frames]
      BY <2>1, ElementOfSeq DEF FitInv, TypeOK
    <3> QED
      BY <3>1 DEF Kinds
  <2> QED
    BY <2>2 DEF ResponseCode, UserAccepted
<1>3. GrantOut'
  <2> SUFFICES ASSUME NEW r \in Runners, pc'[r] = "send", out'[r].code = "LOGIN_ACCEPTED"
               PROVE  out'[r].about \in accepted
    BY <1>1
  <2>1. CASE r = Worker
    BY <1>1, <1>2, <2>1 DEF FitInv, TypeOK
  <2>2. CASE r # Worker
    BY <1>1, <2>2 DEF FitInv, TypeOK
  <2> QED
    BY <2>1, <2>2
<1> QED
  BY <1>1, <1>3

LEMMA GrantSend ==
  ASSUME NEW r \in Runners, TypeOK, GrantInv, Send(r)
  PROVE  GrantInv'
<1> USE DEF GrantInv, worker, calls, inputs, Goto
<1>1. \A q \in Runners : pc'[q] = "send" => pc[q] = "send"
  BY DEF Send, TypeOK
<1>2. GrantOut'
  BY <1>1 DEF GrantOut, Send
<1>3. AuthDecided'
  <2>1. CASE replies' = replies
    BY <2>1 DEF AuthDecided, Send
  <2>2. CASE replies' = Append(replies, [to |-> taken, msg |-> out[r]])
    <3>1. replies \in Seq([to : Nat, msg : ReplyMsgs])
      BY DEF TypeOK
    <3>2. out[r].code = "LOGIN_ACCEPTED" => out[r].about \in accepted
      BY DEF Send, GrantOut
    <3>3. ASSUME NEW i \in DOMAIN replies', replies'[i].msg.code = "LOGIN_ACCEPTED"
          PROVE  replies'[i].msg.about \in accepted
      <4>1. CASE i \in DOMAIN replies
        <5>1. replies'[i] = replies[i]
          BY <2>2, <3>1, <4>1
        <5> QED
          BY <3>3, <4>1, <5>1 DEF AuthDecided
      <4>2. CASE i \notin DOMAIN replies
        <5>1. replies'[i] = [to |-> taken, msg |-> out[r]]
          BY <2>2, <3>1, <3>3, <4>2
        <5> QED
          BY <3>2, <3>3, <5>1
      <4> QED
        BY <4>1, <4>2
    <3> QED
      BY <3>3 DEF AuthDecided, Send
  <2> QED
    BY <2>1, <2>2 DEF Send
<1> QED
  BY <1>2, <1>3

LEMMA GrantStep ==
  ASSUME Listener = TRUE
  PROVE  FitInv /\ GrantInv /\ [Next]_vars => GrantInv'
<1> SUFFICES ASSUME FitInv, TypeOK, GrantInv, [Next]_vars PROVE GrantInv'
  BY DEF FitInv
<1> USE DEF GrantInv, GrantOut, AuthDecided, TypeOK, inputs, sockets, worker, calls, Goto
<1>1. CASE Arrive \/ Publish
  BY <1>1 DEF Arrive, Publish
<1>2. CASE Poll \/ Subscription
  BY <1>2 DEF Poll, Subscription
<1>3. CASE LockToRecv \/ Recv
  BY <1>3 DEF LockToRecv, Recv
<1>4. CASE Notify \/ Decide
  BY <1>4 DEF Notify, Decide
<1>7. CASE Catch
  <2>1. pc' = [pc EXCEPT ![Worker] = "loop"] /\ UNCHANGED <<out, accepted, replies>>
    BY <1>7 DEF Catch
  <2> QED
    BY <2>1
<1>5. ASSUME NEW r \in Runners, Respond(r) PROVE GrantInv'
  <2>1. /\ out' = [out EXCEPT ![r] = UserReply] /\ pc' = [pc EXCEPT ![r] = "send"]
        /\ UNCHANGED <<accepted, replies>>
    BY <1>5 DEF Respond
  <2>2. UserReply.code # "LOGIN_ACCEPTED"
    BY DEF UserReply
  <2> QED
    BY <2>1, <2>2
<1>6. CASE UNCHANGED vars
  BY <1>6 DEF vars
<1> QED
  BY <1>1, <1>2, <1>3, <1>4, <1>5, <1>6, <1>7, GrantAnswer, GrantSend
  DEF Next, WorkerStep, Quiet, Runners

(* With a listener, a login is granted over the back channel only if       *)
(* authenticate_requested() accepted the user of that very request.        *)
THEOREM LoginsDecided ==
  ASSUME Listener = TRUE
  PROVE  Spec => []AuthDecided
<1>1. Init => GrantInv
  <2> SUFFICES ASSUME Init PROVE GrantInv
    OBVIOUS
  <2>1. \A r \in Runners : pc[r] # "send"
    BY DEF Init
  <2>2. DOMAIN replies = {}
    BY EmptySeq, LenProperties DEF Init
  <2> QED
    BY <2>1, <2>2 DEF GrantInv, GrantOut, AuthDecided
<1>2. FitInv /\ GrantInv /\ [Next]_vars => GrantInv'
  BY GrantStep
<1>3. GrantInv => AuthDecided
  BY DEF GrantInv
<1> QED
  BY <1>1, <1>2, <1>3, FitInit, FitStep, PTL DEF Spec
-----------------------------------------------------------------------------
(* The request taken last may still be on its way to an answer or a catch. *)
Underway ==
  \/ pc[Worker] \in {"notify", "decide", "answer", "catch"}
  \/ pc[Worker] = "send" /\ back[Worker] \in {"notify", "loop"}

(* Every other request that was taken has been answered, or has failed. *)
Settled(m) == Replied(m) \/ m \in failed \/ (m = taken /\ Underway)
SettledInv == \A m \in 1..taken : Settled(m)

(* What an appended reply changes. *)
LEMMA ReplyAppended ==
  ASSUME TypeOK, NEW r \in Runners, replies' = Append(replies, [to |-> taken, msg |-> out[r]])
  PROVE  /\ Len(replies) \in Nat
         /\ DOMAIN replies = 1..Len(replies) /\ DOMAIN replies' = 1..Len(replies)+1
         /\ \A i \in 1..Len(replies) : replies'[i] = replies[i]
         /\ replies'[Len(replies)+1] = [to |-> taken, msg |-> out[r]]
BY DEF TypeOK

LEMMA SettledStep == FitInv /\ SettledInv /\ [Next]_vars => SettledInv'
<1> SUFFICES ASSUME FitInv, TypeOK, SettledInv, [Next]_vars PROVE SettledInv'
  BY DEF FitInv
<1> USE ResponderAssumption
    DEF SettledInv, Settled, Underway, inputs, sockets, worker, calls, Goto
<1>1. CASE UNCHANGED <<taken, replies, failed>> /\ (Underway => Underway')
  BY <1>1 DEF Replied
<1>2. CASE Arrive \/ Publish \/ Notify \/ Decide \/ Answer
  <2>1. Underway => Underway'
    BY <1>2 DEF Arrive, Publish, Notify, Decide, Answer, IsAnswered, TypeOK, Runners
  <2> QED
    BY <1>1, <1>2, <2>1 DEF Arrive, Publish, Notify, Decide, Answer
<1>3. CASE Poll \/ Subscription \/ LockToRecv
  <2>1. ~Underway
    BY <1>3 DEF Poll, Subscription, LockToRecv
  <2> QED
    BY <1>1, <1>3, <2>1 DEF Poll, Subscription, LockToRecv
<1>4. CASE Recv
  <2>1. \A m \in 1..taken : Replied(m) \/ m \in failed
    BY <1>4 DEF Recv
  <2>2. Underway' \/ taken' = taken
    BY <1>4 DEF Recv, TypeOK, Runners
  <2>3. taken' \in {taken, taken + 1} /\ UNCHANGED <<replies, failed>>
    BY <1>4 DEF Recv
  <2> QED
    BY <2>1, <2>2, <2>3 DEF Replied, TypeOK
<1>5. CASE Catch
  BY <1>5 DEF Catch, Replied, TypeOK
<1>6. ASSUME NEW r \in Runners, Respond(r) PROVE SettledInv'
  <2>1. Underway => Underway'
    BY <1>6 DEF Respond, TypeOK, Runners
  <2> QED
    BY <1>1, <1>6, <2>1 DEF Respond
<1>7. ASSUME NEW r \in Runners, Send(r) PROVE SettledInv'
  <2>1. CASE replies' = Append(replies, [to |-> taken, msg |-> out[r]])
    <3>1. \A m : Replied(m) => Replied(m)'
      BY <2>1, ReplyAppended DEF Replied
    <3>2. Replied(taken)'
      BY <1>7, <2>1, ReplyAppended DEF Replied, Send
    <3> QED
      BY <1>7, <3>1, <3>2 DEF Send
  <2>2. CASE replies' = replies
    <3>1. Underway => Underway'
      BY <1>7, <2>2 DEF Send, TypeOK, Runners
    <3> QED
      BY <1>1, <1>7, <2>2, <3>1 DEF Send
  <2> QED
    BY <1>7, <2>1, <2>2 DEF Send
<1>8. CASE UNCHANGED vars
  BY <1>1, <1>8 DEF vars
<1> QED
  BY <1>2, <1>3, <1>4, <1>5, <1>6, <1>7, <1>8 DEF Next, WorkerStep, Quiet, Runners

(* No request that the loop took is passed over: when the loop is through  *)
(* with it, it has a reply, the client's or the application's, or an error *)
(* callback was entered on its account.                                    *)
THEOREM NoneDropped == Spec => []NothingDropped
<1>1. Init => SettledInv
  BY DEF Init, SettledInv
<1>2. FitInv /\ SettledInv /\ [Next]_vars => SettledInv'
  BY SettledStep
<1>3. SettledInv => NothingDropped
  BY DEF SettledInv, Settled, Underway, NothingDropped
<1> QED
  BY <1>1, <1>2, <1>3, FitInit, FitStep, PTL DEF Spec
-----------------------------------------------------------------------------
(* While a reply is due, every reply so far went to an earlier request. *)
RoutedInv ==
  \A i \in DOMAIN replies :
    replies[i].to <= taken /\ (rep_socket # "recv" => replies[i].to < taken)

(* The client composes at most one reply for each request it takes; the    *)
(* one under way carries the number given last, those sent a lower one.    *)
Composed(m) == m.code # "user"
Composing == pc[Worker] = "send" /\ Composed(out[Worker])
NumbersInv ==
  /\ Len(sent) <= MaxRequests
  /\ responderSeq <= taken
  /\ Processing => responderSeq < taken
  /\ \A a \in Apps : pc[a] = "send" => ~Composed(out[a])
  /\ Composing => out[Worker].seq = responderSeq
  /\ \A i \in DOMAIN replies : Composed(replies[i].msg) =>
       /\ replies[i].msg.seq <= responderSeq
       /\ Composing => replies[i].msg.seq < responderSeq

OrderInv == RoutedInv /\ NumbersInv /\ RepliesOrdered

(* A reply that was sent is typed. *)
LEMMA ReplyTyped ==
  ASSUME TypeOK, NEW i \in DOMAIN replies
  PROVE  replies[i].to \in Nat /\ replies[i].msg.seq \in Nat
<1>1. replies \in Seq([to : Nat, msg : ReplyMsgs])
  BY DEF TypeOK
<1>2. i \in 1..Len(replies)
  BY <1>1, LenProperties
<1>3. replies[i] \in [to : Nat, msg : ReplyMsgs]
  BY <1>1, <1>2, ElementOfSeq
<1> QED
  BY <1>3 DEF ReplyMsgs

LEMMA OrderAnswer ==
  ASSUME MaxRequests < SeqMod, FitInv, OrderInv, Answer
  PROVE  OrderInv'
<1> USE ResponderAssumption DEF OrderInv, Goto, Composed, Composing
<1>1. /\ Processing /\ taken \in 1..Len(sent) /\ responderSeq < taken
      /\ Len(sent) \in Nat /\ responderSeq \in Nat
  BY DEF Answer, FitInv, TypeOK, CurrentInv, Processing, NumbersInv
<1>2. NextSeq = responderSeq + 1 /\ NextSeq <= taken
  <2>1. responderSeq + 1 \in 0..SeqMod-1 /\ responderSeq + 1 <= taken
    BY <1>1 DEF NumbersInv
  <2>2. \A x \in 0..SeqMod-1 : x % SeqMod = x
    OBVIOUS
  <2> QED
    BY <2>1, <2>2 DEF NextSeq
<1>3. /\ responderSeq' = NextSeq
      /\ out' = [out EXCEPT ![Worker] = [about |-> current, code |-> ResponseCode(current),
                                         seq |-> NextSeq]]
      /\ back' = [back EXCEPT ![Worker] = "loop"]
      /\ pc' = [pc EXCEPT ![Worker] = "send"]
      /\ UNCHANGED <<sent, taken, rep_socket, replies>>
  BY DEF Answer, IsAnswered, inputs
<1>4. RoutedInv' /\ RepliesOrdered'
  BY <1>3 DEF RoutedInv, RepliesOrdered
<1>5. ~Processing'
  BY <1>3 DEF Processing, FitInv, TypeOK, Runners
<1>6. /\ \A a \in Apps : pc'[a] = "send" => pc[a] = "send" /\ out'[a] = out[a]
      /\ out'[Worker].seq = NextSeq
  BY <1>3 DEF FitInv, TypeOK, Runners
<1>7. \A i \in DOMAIN replies : Composed(replies[i].msg) => replies[i].msg.seq < NextSeq
  <2>1. \A i \in DOMAIN replies : replies[i].msg.seq \in Nat
    BY ReplyTyped DEF FitInv
  <2> QED
    BY <1>1, <1>2, <2>1 DEF NumbersInv
<1>8. \A i \in DOMAIN replies : Composed(replies[i].msg) => replies[i].msg.seq <= NextSeq
  <2>1. \A i \in DOMAIN replies : replies[i].msg.seq \in Nat
    BY ReplyTyped DEF FitInv
  <2> QED
    BY <1>1, <1>2, <1>7, <2>1
<1>9. NumbersInv'
  BY <1>2, <1>3, <1>5, <1>6, <1>7, <1>8 DEF NumbersInv
<1> QED
  BY <1>4, <1>9

LEMMA OrderSend ==
  ASSUME NEW r \in Runners, FitInv, OrderInv, Send(r)
  PROVE  OrderInv'
<1> USE ResponderAssumption
    DEF OrderInv, FitInv, Goto, Composed, Composing, inputs, worker, calls
<1>1. UNCHANGED <<sent, taken, responderSeq, out, back>>
  BY DEF Send
<1>2. \A q \in Runners : pc'[q] # "send"
  <2>1. PICK step \in {"loop", "sub", "notify", "idle", "catch"} : pc' = [pc EXCEPT ![r] = step]
    BY DEF Send, TypeOK
  <2>2. \A q \in Runners : q # r => pc[q] # "send"
    BY DEF Send, RepLock!Release, TypeOK
  <2> QED
    BY <2>1, <2>2 DEF TypeOK
<1>3. Processing' => Processing
  BY <1>2 DEF Send, Processing, TypeOK, Runners
<1>4. CASE replies' = replies /\ rep_socket' = rep_socket
  <2>1. ~Composing'
    BY <1>2 DEF Runners
  <2> QED
    BY <1>1, <1>2, <1>3, <1>4, <2>1 DEF RoutedInv, RepliesOrdered, NumbersInv, Runners
<1>5. CASE /\ rep_socket = "send" /\ rep_socket' = "recv"
           /\ replies' = Append(replies, [to |-> taken, msg |-> out[r]])
  <2> DEFINE n == Len(replies)
  <2>1. /\ n \in Nat /\ taken \in Nat /\ responderSeq \in Nat
        /\ DOMAIN replies = 1..n /\ DOMAIN replies' = 1..n+1
        /\ \A i \in 1..n : replies'[i] = replies[i]
        /\ replies'[n+1].to = taken /\ replies'[n+1].msg = out[r]
    BY <1>5, ReplyAppended DEF TypeOK
  <2>2. \A i \in 1..n : replies[i].to \in Nat /\ replies[i].msg.seq \in Nat
    BY <2>1, ReplyTyped
  <2>3. \A i \in 1..n : replies[i].to < taken
    BY <1>5, <2>1 DEF RoutedInv
  <2>4. Composed(out[r]) => /\ out[r].seq = responderSeq
                            /\ \A i \in 1..n : Composed(replies[i].msg) =>
                                 replies[i].msg.seq < responderSeq
    BY <2>1 DEF NumbersInv, Send, Runners
  <2> HIDE DEF n
  <2>5. RoutedInv'
    <3> SUFFICES ASSUME NEW i \in 1..n+1 PROVE replies'[i].to <= taken
      BY <1>1, <1>5, <2>1 DEF RoutedInv
    <3> QED
      BY <2>1, <2>2, <2>3
  <2>6. NumbersInv'
    <3>1. ASSUME NEW i \in 1..n+1, Composed(replies'[i].msg)
          PROVE  replies'[i].msg.seq <= responderSeq
      <4>1. CASE i \in 1..n
        BY <2>1, <3>1, <4>1 DEF NumbersInv
      <4>2. CASE i = n+1
        BY <2>1, <2>4, <3>1, <4>2
      <4> QED
        BY <2>1, <4>1, <4>2
    <3>2. /\ responderSeq' = responderSeq /\ taken' = taken /\ sent' = sent
          /\ ~Composing' /\ \A a \in Apps : pc'[a] # "send"
      BY <1>1, <1>2 DEF Runners
    <3> QED
      BY <1>3, <2>1, <3>1, <3>2 DEF NumbersInv
  <2>7. RepliesOrdered'
    <3> SUFFICES ASSUME NEW i \in 1..n+1, NEW j \in 1..n+1, i < j
                 PROVE  /\ replies'[i].to < replies'[j].to
                        /\ Composed(replies'[i].msg) /\ Composed(replies'[j].msg) =>
                             replies'[i].msg.seq < replies'[j].msg.seq
      BY <2>1 DEF RepliesOrdered
    <3>1. i \in 1..n
      BY <2>1
    <3>2. CASE j \in 1..n
      BY <2>1, <3>1, <3>2 DEF RepliesOrdered
    <3>3. CASE j = n+1
      BY <2>1, <2>3, <2>4, <3>1, <3>3
    <3> QED
      BY <2>1, <3>2, <3>3
  <2> QED
    BY <2>5, <2>6, <2>7
<1> QED
  BY <1>4, <1>5 DEF Send

LEMMA OrderStep ==
  ASSUME MaxRequests < SeqMod
  PROVE  FitInv /\ OrderInv /\ [Next]_vars => OrderInv'
<1> SUFFICES ASSUME FitInv, TypeOK, OrderInv, [Next]_vars PROVE OrderInv'
  BY DEF FitInv
<1> USE ResponderAssumption
    DEF OrderInv, Composed, Composing, inputs, sockets, worker, calls, Goto
<1>1. ASSUME /\ UNCHANGED <<sent, taken, rep_socket, replies, responderSeq>>
             /\ \A a \in Apps : pc'[a] = "send" /\ Composed(out'[a]) =>
                  pc[a] = "send" /\ out'[a] = out[a]
             /\ Composing' => Composing /\ out'[Worker] = out[Worker]
             /\ Processing' => Processing
      PROVE  OrderInv'
  BY <1>1 DEF RoutedInv, NumbersInv, RepliesOrdered
<1>2. CASE Publish \/ Poll \/ Subscription \/ LockToRecv \/ Notify \/ Decide
  <2>1. \A r \in Runners : pc'[r] = "send" => pc[r] = "send" /\ out'[r] = out[r]
    BY <1>2 DEF Publish, Poll, Subscription, LockToRecv, Notify, Decide, TypeOK, Runners
  <2>2. Processing' => Processing
    BY <1>2 DEF Publish, Poll, Subscription, LockToRecv, Notify, Decide, Processing,
                TypeOK, Runners
  <2>3. UNCHANGED <<sent, taken, rep_socket, replies, responderSeq>>
    BY <1>2 DEF Publish, Poll, Subscription, LockToRecv, Notify, Decide
  <2> QED
    BY <1>1, <2>1, <2>2, <2>3 DEF Runners
<1>3. CASE Arrive
  <2>1. Len(sent') <= MaxRequests
    BY <1>3 DEF Arrive, TypeOK
  <2> QED
    BY <1>3, <2>1 DEF Arrive, RoutedInv, NumbersInv, RepliesOrdered, Processing
<1>4. CASE Recv
  <2>1. /\ \A r \in Runners : pc'[r] # "send"
        /\ UNCHANGED <<sent, replies, responderSeq>>
    <3>1. \E step \in {"catch", "notify"} : pc' = [pc EXCEPT ![Worker] = step]
      BY <1>4 DEF Recv
    <3>2. \A r \in Runners : r # Worker => pc[r] # "send"
      BY <1>4 DEF Recv, TypeOK, Runners
    <3> QED
      BY <1>4, <3>1, <3>2 DEF Recv, TypeOK, Runners
  <2>2. \/ taken' = taken /\ rep_socket # "recv"
        \/ taken' = taken + 1
    BY <1>4 DEF Recv
  <2>3. Processing' => taken' = taken + 1
    BY <1>4, <2>1 DEF Recv, Processing, TypeOK, Runners
  <2>4. RoutedInv'
    <3>1. \A i \in DOMAIN replies : replies[i].to \in Nat
      BY ReplyTyped
    <3> QED
      BY <2>1, <2>2, <3>1 DEF RoutedInv, TypeOK
  <2>5. NumbersInv'
    BY <2>1, <2>2, <2>3 DEF NumbersInv, TypeOK, Runners
  <2> QED
    BY <2>1, <2>4, <2>5 DEF RepliesOrdered
<1>5. CASE Catch
  <2>1. pc' = [pc EXCEPT ![Worker] = "loop"] /\ pc[Worker] = "catch"
    BY <1>5 DEF Catch
  <2>2. UNCHANGED <<sent, taken, rep_socket, replies, responderSeq, out, back>>
    BY <1>5 DEF Catch
  <2>3. \A r \in Runners : pc'[r] = "send" => pc[r] = "send"
    BY <2>1 DEF TypeOK, Runners
  <2> QED
    BY <1>1, <2>1, <2>2, <2>3 DEF TypeOK, Runners, Processing
<1>6. ASSUME NEW r \in Runners, Respond(r) PROVE OrderInv'
  <2>1. /\ out' = [out EXCEPT ![r] = UserReply] /\ pc' = [pc EXCEPT ![r] = "send"]
        /\ back' = [back EXCEPT ![r] = pc[r]]
        /\ UNCHANGED <<sent, taken, rep_socket, replies, responderSeq>>
    BY <1>6 DEF Respond
  <2>2. ~Composed(UserReply)
    BY DEF UserReply
  <2>3. /\ \A q \in Runners : pc'[q] = "send" /\ Composed(out'[q]) =>
             pc[q] = "send" /\ out'[q] = out[q]
        /\ Processing' => Processing
    BY <2>1, <2>2 DEF TypeOK, Processing, Runners
  <2> QED
    BY <1>1, <2>1, <2>3 DEF Runners
<1>7. CASE UNCHANGED vars
  BY <1>7 DEF vars, RoutedInv, NumbersInv, RepliesOrdered, Processing
<1> QED
  BY <1>2, <1>3, <1>4, <1>5, <1>6, <1>7, OrderAnswer, OrderSend
  DEF Next, WorkerStep, Quiet, Runners

(* Replies leave in the order of the requests they are routed to, and the  *)
(* numbers of the client's ascend as long as its reply counter does not    *)
(* wrap, whoever else calls respond() and whatever fails.  (The number is  *)
(* the counter's: it says nothing of which request a reply is about.)      *)
THEOREM OrderKept ==
  ASSUME MaxRequests < SeqMod
  PROVE  Spec => []RepliesOrdered
<1>1. Init => OrderInv
  <2> SUFFICES ASSUME Init PROVE OrderInv
    OBVIOUS
  <2>1. /\ \A r \in Runners : pc[r] \in {"loop", "idle"}
        /\ DOMAIN replies = {} /\ Len(sent) = 0 /\ responderSeq = 0 /\ taken = 0
    BY EmptySeq, LenProperties DEF Init
  <2> QED
    BY <2>1, ResponderAssumption
    DEF OrderInv, RoutedInv, NumbersInv, RepliesOrdered, Processing, Composing, Runners
<1>2. FitInv /\ OrderInv /\ [Next]_vars => OrderInv'
  BY OrderStep
<1>3. OrderInv => RepliesOrdered
  BY DEF OrderInv
<1> QED
  BY <1>1, <1>2, <1>3, FitInit, FitStep, PTL DEF Spec
=============================================================================
