------------------------------- MODULE Client -------------------------------
(***************************************************************************)
(* A UFEedClient as a whole: the life cycle, the requests and the back     *)
(* channel composed.  The worker loop of Lifecycle runs the rounds of      *)
(* Responder; its callbacks may call request(); stop() and the destructor  *)
(* meet a round at any of its steps; the destructor logs out between its   *)
(* stop() and the end of the members (ufeedclient.cpp, Impl).              *)
(***************************************************************************)
EXTENDS Naturals, Sequences

CONSTANTS Apps, Workers, NoThread, Loop,  \* Loop: whoever runs worker(), in Responder
          Tokens, NoToken, Torn, None,
          RequestKinds, Frames, Verdicts, Throws,
          MaxStarts, MaxRequests, MaxBackRequests, MaxPublished, MaxResponds

VARIABLES
  lpc, ret, wait, verdict, fresh, started, stop_requested, worker_thread, join,
  bound, closed, starts, life,
  qpc, msg, login, granted, session, req_lock, req_socket, inflight, reply, live,
  used, requests, qlife,
  rpc, back, out, sent, taken, rep_socket, rep_lock, published, rep_ready, current,
  accepted, responderSeq, replies, failed, responds

Runners == Apps \cup Workers

L == INSTANCE Lifecycle WITH pc <- lpc, WaitModes <- {FALSE}, Responder <- TRUE,
                             Failing <- {"logout"}, CallbackStops <- FALSE
Q == INSTANCE Requester WITH pc <- qpc, life <- qlife, Threads <- Runners,
                              Kinds <- RequestKinds
R == INSTANCE Responder WITH pc <- rpc, Worker <- Loop, Listener <- TRUE, Responds <- TRUE,
                             SeqMod <- 4, MaxRequests <- MaxBackRequests

ASSUME ClientAssumption ==
  L!LifecycleAssumption /\ Q!RequesterAssumption /\ R!ResponderAssumption

lifeVars == <<lpc, ret, wait, verdict, fresh, started, worker_thread, join, bound, closed,
              starts, life>>
requestVars == <<qpc, msg, login, granted, session, req_lock, req_socket, inflight, reply,
                 live, used, requests, qlife>>
backVars == <<rpc, back, out, sent, taken, rep_socket, rep_lock, published, rep_ready,
              current, accepted, responderSeq, replies, failed, responds>>
vars == <<lifeVars, stop_requested, requestVars, backVars>>

Init == L!Init /\ Q!Init /\ R!Init

(* Is thread r outside request() and respond()? *)
Free(r) == qpc[r] = "idle" /\ (r \in Apps => rpc[r] = "idle")

-----------------------------------------------------------------------------
(* start(), stop() and the beginning of worker() and of ~Impl touch the    *)
(* life cycle only; ~Impl may begin when no call is running.               *)
StartOrStop(a) ==
  /\ Free(a)
  /\ L!Start(a, FALSE) \/ L!Stop(a) \/ (L!Destroy(a) /\ \A b \in Apps : Free(b))
  /\ UNCHANGED <<requestVars, backVars>>
ControlStep(r) ==
  /\ L!StartStep(r) \/ L!Connect(r) \/ L!Bind(r) \/ L!StopStep(r)
  /\ UNCHANGED <<requestVars, backVars>>

(* while (!_stop_requested) and the poll that finds something to read *)
BeginRound(r) ==
  /\ L!LoopCheck(r)
  /\ IF stop_requested THEN UNCHANGED backVars ELSE R!Poll
  /\ UNCHANGED requestVars

(* The body of the try, at the end of which the loop or a catch goes on. *)
RoundStep(r) ==
  /\ L!At(r, "poll") /\ Free(r)
  /\ \/ R!Subscription \/ R!LockToRecv \/ R!Recv \/ R!Notify \/ R!Decide
     \/ R!Answer \/ R!Respond(Loop) \/ R!Send(Loop)
  /\ IF rpc'[Loop] \in {"loop", "catch"}
     THEN L!Poll(r) /\ lpc'[r] = rpc'[Loop]
     ELSE UNCHANGED lifeVars
  /\ UNCHANGED requestVars

(* The listener's verdict, and the write of _stop_requested after it. *)
CatchStep(r) ==
  /\ \/ L!Catch(r) /\ lpc'[r] = "assign" /\ UNCHANGED backVars
     \/ L!Assign(r) /\ R!Catch
  /\ UNCHANGED requestVars

-----------------------------------------------------------------------------
(* The application calls request() once start() has connected, from its    *)
(* own thread or inside a listener callback, respond() likewise.           *)
Calling(r) ==
  /\ Free(r)
  /\ \/ r \in Apps /\ L!At(r, "idle") /\ life = "alive"
     \/ L!At(r, "poll") /\ rpc[Loop] \in {"sub", "notify"}
Connected == starts > 0 /\ \A a \in Apps : lpc[a] \notin {"mark", "reset", "connect"}

Request(r) ==
  /\ Calling(r) /\ Connected
  /\ \E kind \in RequestKinds : Q!Request(r, kind)
  /\ UNCHANGED <<lifeVars, stop_requested, backVars>>
(* The request of ~Impl ends with the logout, or throws and ends the       *)
(* process.                                                                *)
RequestStep(r) ==
  /\ L!Running /\ Q!ThreadStep(r)
  /\ IF qlife' = qlife
     THEN UNCHANGED <<lifeVars, stop_requested>>
     ELSE /\ L!Logout(r)
          /\ IF qlife' = "destroyed" THEN lpc'[r] = "sockets" ELSE life' = "aborted"
  /\ UNCHANGED backVars

Respond(a) ==
  /\ a \in Apps /\ Calling(a) /\ R!Respond(a)
  /\ UNCHANGED <<lifeVars, requestVars>>
RespondStep(a) ==
  /\ a \in Apps /\ L!Running /\ R!Send(a)
  /\ UNCHANGED <<lifeVars, requestVars>>

(* ~Impl after its stop(): with a session, the logout and the close of the *)
(* sockets; then the members.                                              *)
Logout(a) ==
  /\ L!At(a, "close") /\ Q!Destroy(a)
  /\ IF qlife' = "destroyed"
     THEN L!Logout(a) /\ lpc'[a] = "members"
     ELSE UNCHANGED <<lifeVars, stop_requested>>
  /\ UNCHANGED backVars
Close(a) ==
  /\ L!CloseSockets(a) \/ L!DestroyMembers(a)
  /\ UNCHANGED <<requestVars, backVars>>

Gateway ==
  /\ L!Running
  /\ \/ Q!Serve /\ UNCHANGED <<stop_requested, backVars>>
     \/ (R!Arrive \/ R!Publish) /\ UNCHANGED requestVars
  /\ UNCHANGED lifeVars

(* The gateway sends no more and the loop has nothing to read, or all is   *)
(* over.                                                                   *)
Quiet ==
  /\ \/ ~L!Running
     \/ Len(sent) = MaxBackRequests /\ \E r \in Runners : L!At(r, "loop")
  /\ UNCHANGED vars

-----------------------------------------------------------------------------
Step(r) == ControlStep(r) \/ BeginRound(r) \/ RoundStep(r) \/ CatchStep(r)
           \/ RequestStep(r) \/ RespondStep(r)

Next ==
  \/ \E r \in Runners : Step(r) \/ Request(r)
  \/ \E a \in Apps : StartOrStop(a) \/ Respond(a) \/ Logout(a) \/ Close(a)
  \/ Gateway \/ Quiet

(* As in the parts: threads inside the library go on and the gateway       *)
(* answers requests.                                                       *)
Spec ==
  /\ Init /\ [][Next]_vars
  /\ \A r \in Runners : WF_vars(Step(r))
  /\ \A a \in Apps : WF_vars(Logout(a) \/ Close(a))
  /\ WF_vars(Q!Serve /\ UNCHANGED <<lifeVars, stop_requested, backVars>>)

-----------------------------------------------------------------------------
(* A client that was destroyed leaves no session in the gateway, whoever   *)
(* logged in: the application, or a callback while stop() waited.          *)
NoSessionLeak == life = "destroyed" => live = {}

(* From its logout on, no thread of the client runs beside the destructor, *)
(* in a round or in a request that a callback made.                        *)
LogoutAlone ==
  \A a \in Apps : L!Running /\ lpc[a] \in L!EndSteps =>
    \A r \in Workers : lpc[r] = "idle" /\ qpc[r] = "idle"

(* After stop() every request the loop took from the gateway was answered, *)
(* by the client or by respond(), or went through the error callback.      *)
TakenMeansAnswered ==
  ~started => \A m \in 1..taken : R!Replied(m) \/ m \in failed

(* A destructor that has begun comes to its end, even if it meets a        *)
(* callback in a request or a round that fails.                            *)
DestroyEnds == life = "closing" ~> ~L!Running

(* The client implements the abstract service. *)
Service ==
  INSTANCE Service WITH
    phase <- CASE life = "destroyed" -> "gone"
               [] life = "aborted" -> "aborted"
               [] OTHER -> IF started THEN "up" ELSE "down",
    serving <- rpc[Loop] # "loop",
    session <- live # {}
ImplementsService == Service!Spec
=============================================================================
