--------------------------- MODULE Client_proofs ---------------------------
(***************************************************************************)
(* The client as a whole, with any number of requests, messages and        *)
(* callbacks: what is proved of its parts holds of the composition. Used   *)
(* by one application thread, which may start it again and again, its      *)
(* destructor logs out alone, every message taken is dealt with, and the   *)
(* client implements the abstract service. No session is left, however     *)
(* many threads use it.                                                    *)
(***************************************************************************)
EXTENDS Client, TLAPS

(* The parts again, with what is proved of them. *)
LP == INSTANCE Lifecycle_proofs WITH pc <- lpc, WaitModes <- {FALSE}, Responder <- TRUE,
                                     Failing <- {"logout"}, CallbackStops <- FALSE
QP == INSTANCE Requester_proofs WITH pc <- qpc, life <- qlife, Threads <- Runners,
                                     Kinds <- RequestKinds
RP == INSTANCE Responder_proofs WITH pc <- rpc, Worker <- Loop, Listener <- TRUE,
                                     Responds <- TRUE, SeqMod <- 4,
                                     MaxRequests <- MaxBackRequests

(* One application thread; its callbacks do not call stop() (L). *)
OneApplication == \A a, b \in Apps : a = b

LEMMA PartAssumptions ==
  LP!LifecycleAssumption /\ QP!RequesterAssumption /\ RP!ResponderAssumption
BY ClientAssumption
   DEF L!LifecycleAssumption, LP!LifecycleAssumption, Q!RequesterAssumption,
       QP!RequesterAssumption, R!ResponderAssumption, RP!ResponderAssumption

LEMMA Alone == (OneApplication => LP!OneCaller) /\ LP!Asynchronous
BY DEF OneApplication, LP!OneCaller, LP!Asynchronous

LEMMA InitOfParts == ASSUME Init PROVE LP!Init /\ QP!Init /\ RP!Init
BY DEF Init, L!Init, LP!Init, L!Runners, LP!Runners, Q!Init, QP!Init, Q!ReqLock!Init,
       QP!ReqLock!Init, Q!Blank, QP!Blank, R!Init, RP!Init, R!RepLock!Init,
       RP!RepLock!Init, R!Runners, RP!Runners, R!UserReply, RP!UserReply

-----------------------------------------------------------------------------
(* Every step of the client is a step of each part, or leaves it alone.    *)
LEMMA CallsOfApp ==
  ASSUME NEW a \in Apps, L!Start(a, FALSE) \/ L!StartStep(a) \/ L!Destroy(a) \/ L!EndStep(a)
  PROVE  LP!Next
<1>1. CASE L!Start(a, FALSE)
  <2>1. LP!Start(a, FALSE)
    BY <1>1 DEF L!Start, LP!Start, L!At, LP!At, L!Goto, LP!Goto, L!flags, LP!flags, L!threads,
           LP!threads, L!Running, LP!Running
  <2> QED
    BY <2>1 DEF LP!Next
<1>2. CASE L!StartStep(a)
  <2>1. LP!StartStep(a)
    BY <1>2 DEF L!StartStep, LP!StartStep, L!StartMark, LP!StartMark, L!StartReset,
           LP!StartReset, L!StartConnect, LP!StartConnect, L!StartSpawn, LP!StartSpawn,
           L!StartStore, LP!StartStore, L!At, LP!At, L!Goto, LP!Goto, L!threads,
           LP!threads, L!flags, LP!flags, L!ThreadOwned, LP!ThreadOwned, L!Running,
           LP!Running
  <2> QED
    BY <2>1 DEF LP!Next
<1>3. CASE L!Destroy(a) \/ L!EndStep(a)
  <2>1. LP!Destroy(a) \/ LP!EndStep(a)
    BY <1>3 DEF L!Destroy, LP!Destroy, L!EndStep, LP!EndStep, L!Logout, LP!Logout,
           L!CloseSockets, LP!CloseSockets, L!DestroyMembers, LP!DestroyMembers, L!Goto,
           LP!Goto, L!flags, LP!flags, L!threads, LP!threads, L!At, LP!At, L!ThreadOwned,
           LP!ThreadOwned, L!Running, LP!Running
  <2> QED
    BY <2>1 DEF LP!Next
<1> QED
  BY <1>1, <1>2, <1>3

LEMMA StepsOfLoop ==
  ASSUME NEW r \in Runners,
         \/ L!Connect(r) \/ L!Bind(r) \/ L!LoopCheck(r) \/ L!Poll(r) \/ L!Catch(r) \/ L!Assign(r)
  PROVE  LP!Next
<1>1. CASE L!Connect(r) \/ L!Bind(r)
  <2>1. LP!Connect(r) \/ LP!Bind(r)
    BY <1>1 DEF L!Connect, LP!Connect, L!Bind, LP!Bind, L!At, LP!At, L!Goto, LP!Goto,
           L!LeaveByException, LP!LeaveByException, L!flags, LP!flags, L!threads,
           LP!threads, L!Running, LP!Running
  <2> QED
    BY <2>1 DEF LP!Next, LP!LoopStep, LP!Runners, Runners
<1>2. CASE L!LoopCheck(r) \/ L!Poll(r) \/ L!Catch(r) \/ L!Assign(r)
  <2>1. LP!LoopCheck(r) \/ LP!Poll(r) \/ LP!Catch(r) \/ LP!Assign(r)
    BY <1>2 DEF L!LoopCheck, LP!LoopCheck, L!Poll, LP!Poll, L!Catch, LP!Catch, L!Assign,
           LP!Assign, L!At, LP!At, L!Goto, LP!Goto, L!LoopGoesOn, LP!LoopGoesOn, L!flags,
           LP!flags, L!threads, LP!threads, L!StopFromVerdict, LP!StopFromVerdict,
           L!Running, LP!Running
  <2> QED
    BY <2>1 DEF LP!Next, LP!LoopStep, LP!Runners, Runners
<1> QED
  BY <1>1, <1>2

LEMMA StepsOfStop ==
  ASSUME NEW r \in Runners, L!Stop(r) \/ L!StopStep(r)
  PROVE  LP!Next
<1>1. CASE L!Stop(r)
  <2>1. LP!Stop(r)
    BY <1>1 DEF L!Stop, LP!Stop, L!Running, LP!Running, L!StopCallers, LP!StopCallers, L!Goto,
           LP!Goto, L!flags, LP!flags, L!threads, LP!threads
  <2> QED
    BY <2>1 DEF LP!Next, LP!Runners, Runners
<1>2. CASE L!StopStep(r)
  <2>1. LP!StopStep(r)
    BY <1>2 DEF L!StopStep, LP!StopStep, L!StopSet, LP!StopSet, L!StopJoin, LP!StopJoin,
           L!JoinDone, LP!JoinDone, L!StopClear, LP!StopClear, L!At, LP!At, L!StopRequest,
           LP!StopRequest, L!Goto, LP!Goto, L!threads, LP!threads, L!StopThrows,
           LP!StopThrows, L!flags, LP!flags, L!Finished, LP!Finished, L!Running,
           LP!Running, L!LeaveByException, LP!LeaveByException
  <2> QED
    BY <2>1 DEF LP!Next, LP!Runners, Runners
<1> QED
  BY <1>1, <1>2

LEMMA StepsOfRequest ==
  ASSUME NEW r \in Runners,
         \/ \E kind \in RequestKinds : Q!Request(r, kind)
         \/ Q!ThreadStep(r) \/ Q!Destroy(r) \/ Q!Serve
  PROVE  QP!Next
<1>1. ASSUME NEW kind \in RequestKinds, Q!Request(r, kind) PROVE QP!Next
  <2>1. QP!Request(r, kind)
    BY <1>1 DEF Q!Request, QP!Request, Q!Readable, QP!Readable, Q!Goto, QP!Goto,
           Q!PassesWithoutSession, QP!PassesWithoutSession, Q!socketVars, QP!socketVars,
           Q!gatewayVars, QP!gatewayVars, Q!Storing, QP!Storing
  <2> QED
    BY <2>1 DEF QP!Next
<1>2. CASE Q!ThreadStep(r)
  <2>1. QP!ThreadStep(r)
    BY <1>2 DEF Q!ThreadStep, QP!ThreadStep, Q!Stamp, QP!Stamp, Q!Lock, QP!Lock, Q!Send,
           QP!Send, Q!ReqLock!Release, QP!ReqLock!Release, Q!Recv, QP!Recv, Q!Store,
           QP!Store, Q!Notify, QP!Notify, Q!At, QP!At, Q!Readable, QP!Readable, Q!Goto,
           QP!Goto, Q!socketVars, QP!socketVars, Q!gatewayVars, QP!gatewayVars, Q!TakeLock,
           QP!TakeLock, Q!ReqLock!Acquire, QP!ReqLock!Acquire, Q!Throw, QP!Throw,
           Q!UnlockOnThrow, QP!UnlockOnThrow, Q!TokenOf, QP!TokenOf, Q!StoresToken,
           QP!StoresToken, Q!Running, QP!Running, Q!Storing, QP!Storing
  <2> QED
    BY <2>1 DEF QP!Next
<1>3. CASE Q!Destroy(r) \/ Q!Serve
  <2>1. QP!Destroy(r) \/ QP!Serve
    BY <1>3 DEF Q!Destroy, QP!Destroy, Q!Serve, QP!Serve, Q!MustLogout, QP!MustLogout, Q!Goto,
           QP!Goto, Q!socketVars, QP!socketVars, Q!gatewayVars, QP!gatewayVars, Q!Running,
           QP!Running, Q!Grants, QP!Grants, Q!threadVars, QP!threadVars
  <2> QED
    BY <2>1 DEF QP!Next
<1> QED
  BY <1>1, <1>2, <1>3

LEMMA StepsOfRound ==
  ASSUME \/ R!Poll \/ R!Subscription \/ R!LockToRecv \/ R!Recv \/ R!Notify \/ R!Decide
         \/ R!Answer \/ R!Catch
  PROVE  RP!Next
<1>1. CASE R!Poll \/ R!Subscription \/ R!LockToRecv \/ R!Recv
  <2>1. RP!Poll \/ RP!Subscription \/ RP!LockToRecv \/ RP!Recv
    BY <1>1 DEF R!Poll, RP!Poll, R!Subscription, RP!Subscription, R!LockToRecv, RP!LockToRecv,
           R!Recv, RP!Recv, R!RepLock!Release, RP!RepLock!Release, R!Goto, RP!Goto,
           R!CanRead, RP!CanRead, R!inputs, RP!inputs, R!sockets, RP!sockets, R!calls,
           RP!calls, R!SubThrows, RP!SubThrows, R!worker, RP!worker, R!TakeLock,
           RP!TakeLock, R!RepLock!Acquire, RP!RepLock!Acquire, R!FrameRefused,
           RP!FrameRefused
  <2> QED
    BY <2>1 DEF RP!Next, RP!WorkerStep
<1>2. CASE R!Notify \/ R!Decide \/ R!Answer
  <2>1. RP!Notify \/ RP!Decide \/ RP!Answer
    BY <1>2 DEF R!Notify, RP!Notify, R!Decide, RP!Decide, R!Answer, RP!Answer,
           R!RepLock!Acquire, RP!RepLock!Acquire, R!Goto, RP!Goto, R!inputs, RP!inputs,
           R!sockets, RP!sockets, R!worker, RP!worker, R!calls, RP!calls, R!IsAnswered,
           RP!IsAnswered, R!NextSeq, RP!NextSeq, R!ResponseCode, RP!ResponseCode,
           R!UserAccepted, RP!UserAccepted
  <2> QED
    BY <2>1 DEF RP!Next, RP!WorkerStep
<1>3. CASE R!Catch
  <2>1. RP!Catch
    BY <1>3 DEF R!Catch, RP!Catch, R!Goto, RP!Goto, R!inputs, RP!inputs, R!sockets, RP!sockets,
           R!calls, RP!calls
  <2> QED
    BY <2>1 DEF RP!Next, RP!WorkerStep
<1> QED
  BY <1>1, <1>2, <1>3

LEMMA StepsOfRespond ==
  ASSUME (\E r \in Apps \cup {Loop} : R!Respond(r) \/ R!Send(r)) \/ R!Arrive \/ R!Publish
  PROVE  RP!Next
<1>1. ASSUME NEW r \in Apps \cup {Loop}, R!Respond(r) \/ R!Send(r) PROVE RP!Next
  <2>1. RP!Respond(r) \/ RP!Send(r)
    BY <1>1 DEF R!Respond, RP!Respond, R!Send, RP!Send, R!RepLock!Release, RP!RepLock!Release,
           R!TakeLock, RP!TakeLock, R!RepLock!Acquire, RP!RepLock!Acquire, R!UserReply,
           RP!UserReply, R!Goto, RP!Goto, R!inputs, RP!inputs, R!worker, RP!worker,
           R!calls, RP!calls
  <2> QED
    BY <2>1 DEF RP!Next, RP!WorkerStep, RP!Runners
<1>2. CASE R!Arrive \/ R!Publish
  <2>1. RP!Arrive \/ RP!Publish
    BY <1>2 DEF R!Arrive, RP!Arrive, R!Publish, RP!Publish, R!Kinds, RP!Kinds, R!sockets,
           RP!sockets, R!worker, RP!worker, R!calls, RP!calls
  <2> QED
    BY <2>1 DEF RP!Next
<1> QED
  BY <1>1, <1>2

(* A round reads the stop request and only its catch blocks write it.      *)
LEMMA RoundKeepsStop ==
  ASSUME \/ R!Subscription \/ R!LockToRecv \/ R!Recv \/ R!Notify \/ R!Decide \/ R!Answer
         \/ R!Arrive \/ R!Publish \/ \E r : R!Respond(r) \/ R!Send(r)
  PROVE  stop_requested' = stop_requested
BY DEF R!Subscription, R!LockToRecv, R!Recv, R!Notify, R!Decide, R!Answer, R!Arrive, R!Publish,
       R!Respond, R!Send, R!worker

(* What a step of a request does to the life cycle: nothing, or it is the  *)
(* end of the destructor's logout.                                         *)
LEMMA RequestEnds ==
  ASSUME LP!LifeInv, NEW r \in Runners, RequestStep(r)
  PROVE  \/ UNCHANGED <<lifeVars, stop_requested>>
         \/ /\ r \in Apps /\ L!Logout(r)
            /\ IF qlife' = "destroyed" THEN lpc'[r] = "sockets" ELSE life' = "aborted"
BY DEF RequestStep, L!Logout, L!At, LP!LifeInv, LP!Core, LP!WorkersInside, LP!EndSteps, Runners

LEMMA ControlOfLife ==
  ASSUME LP!LifeInv, NEW r \in Runners, ControlStep(r) PROVE LP!Next
<1>1. CASE L!StartStep(r)
  <2>1. r \in Apps
    BY <1>1 DEF L!StartStep, L!StartMark, L!StartReset, L!StartConnect, L!StartSpawn,
                L!StartStore, L!At, LP!LifeInv, LP!Core, LP!FreshHeld, LP!StartSteps, Runners
  <2> QED
    BY <1>1, <2>1, CallsOfApp
<1> QED
  BY <1>1, StepsOfLoop, StepsOfStop DEF ControlStep

LEMMA LifePart ==
  ASSUME LP!LifeInv, [Next]_vars
  PROVE  LP!Next \/ UNCHANGED LP!vars
<1>1. ASSUME UNCHANGED <<lifeVars, stop_requested>> PROVE UNCHANGED LP!vars
  BY <1>1 DEF lifeVars, LP!vars
<1>2. ASSUME NEW a \in Apps, StartOrStop(a) PROVE LP!Next
  BY <1>2, CallsOfApp, StepsOfStop DEF StartOrStop, Runners
<1>3. ASSUME NEW r \in Runners, ControlStep(r) PROVE LP!Next
  BY <1>3, ControlOfLife
<1>4. ASSUME NEW r \in Runners, BeginRound(r) PROVE LP!Next
  BY <1>4, StepsOfLoop DEF BeginRound
<1>5. ASSUME NEW r \in Runners, RoundStep(r) PROVE LP!Next \/ UNCHANGED LP!vars
  BY <1>1, <1>5, StepsOfLoop, RoundKeepsStop DEF RoundStep
<1>6. ASSUME NEW r \in Runners, CatchStep(r) PROVE LP!Next
  BY <1>6, StepsOfLoop DEF CatchStep
<1>7. ASSUME NEW r \in Runners, RequestStep(r) PROVE UNCHANGED LP!vars \/ LP!Next
  BY <1>1, <1>7, RequestEnds, CallsOfApp DEF L!EndStep
<1>8. ASSUME NEW r \in Runners, Request(r) PROVE UNCHANGED LP!vars
  BY <1>1, <1>8 DEF Request
<1>9. ASSUME NEW r, Respond(r) \/ RespondStep(r) PROVE UNCHANGED LP!vars
  BY <1>1, <1>9, RoundKeepsStop DEF Respond, RespondStep
<1>10. ASSUME NEW a \in Apps, Logout(a) PROVE UNCHANGED LP!vars \/ LP!Next
  BY <1>1, <1>10, CallsOfApp DEF Logout, L!EndStep
<1>11. ASSUME NEW a \in Apps, Close(a) PROVE LP!Next
  BY <1>11, CallsOfApp DEF Close, L!EndStep
<1>12. CASE Gateway
  BY <1>1, <1>12, RoundKeepsStop DEF Gateway
<1>13. CASE Quiet \/ UNCHANGED vars
  BY <1>1, <1>13 DEF Quiet, vars
<1> QED
  BY <1>2, <1>3, <1>4, <1>5, <1>6, <1>7, <1>8, <1>9, <1>10, <1>11, <1>12, <1>13 DEF Next, Step

LEMMA RequestPart == ASSUME [Next]_vars PROVE QP!Next \/ UNCHANGED requestVars
<1>1. ASSUME NEW r \in Runners, Step(r) \/ Request(r) PROVE QP!Next \/ UNCHANGED requestVars
  BY <1>1, StepsOfRequest
  DEF Step, ControlStep, BeginRound, RoundStep, CatchStep, RequestStep, RespondStep, Request
<1>2. ASSUME NEW a \in Apps, StartOrStop(a) \/ Respond(a) \/ Logout(a) \/ Close(a)
      PROVE  QP!Next \/ UNCHANGED requestVars
  BY <1>2, StepsOfRequest DEF StartOrStop, Respond, Logout, Close, Runners
<1>3. CASE Gateway
  <2>1. CASE Q!Serve
    <3>1. QP!Serve
      BY <2>1 DEF Q!Serve, QP!Serve, Q!Running, QP!Running, Q!Grants, QP!Grants, Q!threadVars,
               QP!threadVars
    <3> QED
      BY <3>1 DEF QP!Next
  <2> QED
    BY <1>3, <2>1 DEF Gateway
<1> QED
  BY <1>1, <1>2, <1>3 DEF Next, Quiet, vars

LEMMA BackPart == ASSUME [Next]_vars PROVE RP!Next \/ UNCHANGED backVars
<1>1. ASSUME NEW r \in Runners, Step(r) \/ Request(r) PROVE RP!Next \/ UNCHANGED backVars
  BY <1>1, StepsOfRound, StepsOfRespond
  DEF Step, ControlStep, BeginRound, RoundStep, CatchStep, RequestStep, RespondStep, Request
<1>2. ASSUME NEW a \in Apps, StartOrStop(a) \/ Respond(a) \/ Logout(a) \/ Close(a)
      PROVE  RP!Next \/ UNCHANGED backVars
  BY <1>2, StepsOfRespond DEF StartOrStop, Respond, Logout, Close
<1> QED
  BY <1>1, <1>2, StepsOfRespond DEF Next, Gateway, Quiet, vars

-----------------------------------------------------------------------------
(* What is known of the parts. *)
LifePartInv == LP!LifeInv /\ LP!QuietInv /\ LP!AppsOutside

LEMMA LifeInvKept == ASSUME LP!LifeInv, [Next]_vars PROVE LP!LifeInv'
BY LifePart, PartAssumptions, LP!LifeInvStep

LEMMA LifePartStep ==
  ASSUME OneApplication, LifePartInv, [Next]_vars PROVE LifePartInv'
<1> USE PartAssumptions DEF LifePartInv
<1>1. LP!LifeInv'
  BY LifeInvKept
<1> QED
  BY <1>1, LifePart, Alone, LP!QuietStep, LP!AppsOutsideStep

BackPartInv == RP!FitInv /\ RP!SettledInv

LEMMA BackPartStep ==
  ASSUME BackPartInv, [Next]_vars, stop_requested' \in BOOLEAN PROVE BackPartInv'
<1> USE PartAssumptions DEF BackPartInv
<1>1. CASE RP!Next
  BY <1>1, RP!FitStep, RP!SettledStep
<1>2. CASE UNCHANGED backVars
  <2>1. RP!TypeOK'
    BY <1>2 DEF backVars, RP!FitInv, RP!TypeOK
  <2>2. RP!SubInv' /\ RP!CurrentInv' /\ RP!OutInv' /\ RP!ReplyFits'
    BY <1>2 DEF backVars, RP!FitInv, RP!SubInv, RP!CurrentInv, RP!Processing, RP!OutInv,
                RP!ReplyFits
  <2>3. RP!SettledInv'
    BY <1>2 DEF backVars, RP!SettledInv, RP!Settled, RP!Underway, RP!Replied
  <2> QED
    BY <2>1, <2>2, <2>3 DEF RP!FitInv
<1> QED
  BY <1>1, <1>2, BackPart

-----------------------------------------------------------------------------
(* Where the worker is in its loop says where the round is.                *)
InRound == {"sub", "lock", "recv", "notify", "decide", "answer", "send"}
Turning == {"poll", "catch", "assign"}
RoundInv ==
  /\ \A w \in Workers : /\ lpc[w] = "poll" => rpc[Loop] \in InRound
                        /\ lpc[w] \in {"catch", "assign"} => rpc[Loop] = "catch"
  /\ rpc[Loop] # "loop" => \E w \in Workers : lpc[w] \in Turning
  /\ back[Loop] \in {"loop", "sub", "notify"}

(* A callback's request holds its round, and a stopped client has none.    *)
CallbackInv == \A w \in Workers : qpc[w] # "idle" => lpc[w] = "poll"
StoppedInv == ~started => rpc[Loop] = "loop"

GlueInv == RoundInv /\ CallbackInv /\ StoppedInv
ClientInv == LifePartInv /\ BackPartInv /\ QP!TypeOK /\ GlueInv

LEMMA OneInLoop ==
  ASSUME OneApplication, LifePartInv, L!Running, NEW v \in Workers, NEW w \in Workers,
         lpc[v] # "idle", lpc[w] # "idle"
  PROVE  v = w
BY PartAssumptions, Alone, LP!OneWorkerRuns DEF LifePartInv, L!Running, LP!Running

(* A client that counts as stopped, or is about to, has no worker.         *)
LEMMA NoneInLoop ==
  ASSUME LifePartInv, ~started \/ \E a \in Apps : lpc[a] = "clear"
  PROVE  \A w \in Workers : lpc[w] = "idle"
BY PartAssumptions, LP!WorkersQuiet DEF LifePartInv, LP!QuietInv, LP!CallsQuietly

(* Only workers run the loop, and they do nothing else. *)
LEMMA WorkersLoop ==
  ASSUME LifePartInv
  PROVE  /\ \A r \in Runners : lpc[r] \in LP!LoopSteps => r \in Workers
         /\ \A w \in Workers : lpc[w] \in LP!LoopSteps \cup {"idle"}
         /\ lpc \in [Runners -> LP!Steps]
         /\ \A w \in Workers : w \notin Apps
BY PartAssumptions
DEF LifePartInv, LP!QuietInv, LP!AppsOutside, Runners, LP!LifeInv, LP!Types, LP!Runners,
    LP!LifecycleAssumption

LEMMA ReturnTyped ==
  ASSUME LP!LifeInv, NEW r \in Runners PROVE ret[r] \in {"idle", "poll", "catch", "close"}
BY DEF LP!LifeInv, LP!Types, LP!Runners, Runners

LEMMA BackTyped ==
  ASSUME BackPartInv
  PROVE  /\ rpc \in [Apps \cup {Loop} -> RP!Steps]
         /\ back \in [Apps \cup {Loop} -> {"loop", "sub", "notify", "idle"}]
         /\ Loop \notin Apps
BY PartAssumptions DEF BackPartInv, RP!FitInv, RP!TypeOK, RP!Runners, RP!ResponderAssumption

(* A step that is not of the loop leaves those in a round where they are.  *)
LEMMA LeavesRounds ==
  ASSUME LifePartInv, BackPartInv,
         \/ \E a \in Apps : StartOrStop(a) \/ Respond(a) \/ Logout(a) \/ Close(a)
         \/ \E r \in Runners : \/ ControlStep(r) \/ RequestStep(r) \/ RespondStep(r)
                               \/ Request(r)
         \/ Gateway \/ Quiet \/ UNCHANGED vars
  PROVE  /\ \A w \in Workers : lpc'[w] # lpc[w] => {lpc[w], lpc'[w]} \cap Turning = {}
         /\ rpc'[Loop] = rpc[Loop] /\ back'[Loop] = back[Loop]
<1> USE DEF Turning
<1>1. ASSUME UNCHANGED lpc
      PROVE  \A w \in Workers : lpc'[w] # lpc[w] => {lpc[w], lpc'[w]} \cap Turning = {}
  BY <1>1
<1>2. ASSUME UNCHANGED backVars PROVE rpc'[Loop] = rpc[Loop] /\ back'[Loop] = back[Loop]
  BY <1>2 DEF backVars
<1>3. ASSUME NEW a \in Apps, StartOrStop(a)
      PROVE  \A w \in Workers : lpc'[w] = lpc[w]
  <2>1. L!Running /\ \E step : L!Goto(a, step)
    BY <1>3 DEF StartOrStop, L!Start, L!Stop, L!Destroy, L!At, L!Running
  <2> QED
    BY <2>1, WorkersLoop DEF L!Goto
<1>4. ASSUME NEW r \in Runners, ControlStep(r)
      PROVE  \A w \in Workers : lpc'[w] # lpc[w] => {lpc[w], lpc'[w]} \cap Turning = {}
  <2>1. L!Running
    BY <1>4 DEF ControlStep, L!StartStep, L!StartMark, L!StartReset, L!StartConnect,
                L!StartSpawn, L!StartStore, L!Connect, L!Bind, L!StopStep, L!StopSet, L!StopJoin,
                L!JoinDone, L!StopClear, L!At
  <2>0. ret[r] \in {"idle", "poll", "catch", "close"}
    BY ReturnTyped DEF LifePartInv
  <2> USE <2>1, WorkersLoop DEF LP!Steps, LP!StartSteps, LP!LoopSteps, LP!StopSteps, Runners
  <2>2. CASE L!StartMark(r) \/ L!StartReset(r) \/ L!StartConnect(r) \/ L!StartStore(r)
    BY <2>2 DEF L!StartMark, L!StartReset, L!StartConnect, L!StartStore, L!At, L!Goto
  <2>3. CASE L!StartSpawn(r)
    BY <2>3 DEF L!StartSpawn, L!At
  <2>4. CASE L!Connect(r) \/ L!Bind(r)
    BY <2>4 DEF L!Connect, L!Bind, L!LeaveByException, L!At, L!Goto
  <2>5. CASE L!StopStep(r)
    <3>1. r \notin Workers
      BY <2>5 DEF L!StopStep, L!StopSet, L!StopJoin, L!JoinDone, L!StopClear, L!At
    <3>2. UNCHANGED lpc \/ \E step : L!Goto(r, step)
      <4>1. CASE L!StopJoin(r)
        BY <2>0, <4>1 DEF L!StopJoin, L!StopThrows, L!LeaveByException
      <4> QED
        BY <2>5, <4>1 DEF L!StopStep, L!StopSet, L!JoinDone, L!StopClear
    <3> QED
      BY <3>1, <3>2 DEF L!Goto
  <2> QED
    BY <1>4, <2>2, <2>3, <2>4, <2>5 DEF ControlStep, L!StartStep
<1>5. ASSUME NEW a \in Apps, R!Respond(a) \/ R!Send(a)
      PROVE  rpc'[Loop] = rpc[Loop] /\ back'[Loop] = back[Loop]
  BY <1>5, BackTyped DEF R!Respond, R!Send, R!Goto, R!calls
<1>6. ASSUME NEW a \in Apps, Respond(a) PROVE UNCHANGED lpc
  BY <1>6 DEF Respond, lifeVars
<1>7. ASSUME NEW r \in Runners, RespondStep(r) \/ Request(r) PROVE UNCHANGED lpc
  BY <1>7 DEF RespondStep, Request, lifeVars
<1>9. ASSUME NEW a \in Apps, L!EndStep(a) PROVE \A w \in Workers : lpc'[w] = lpc[w]
  <2>1. L!Running /\ (UNCHANGED lpc \/ \E step : L!Goto(a, step))
    BY <1>9 DEF L!EndStep, L!Logout, L!CloseSockets, L!DestroyMembers, L!At
  <2>2. CASE \E step : L!Goto(a, step)
    BY <2>2, WorkersLoop DEF L!Goto
  <2> QED
    BY <2>1, <2>2
<1>10. ASSUME NEW r \in Runners, RequestStep(r) PROVE \A w \in Workers : lpc'[w] = lpc[w]
  BY <1>9, <1>10, RequestEnds DEF LifePartInv, L!EndStep, lifeVars
<1>11. ASSUME NEW a \in Apps, Logout(a) \/ Close(a) PROVE \A w \in Workers : lpc'[w] = lpc[w]
  BY <1>9, <1>11 DEF Logout, Close, L!EndStep, lifeVars
<1>8. CASE Gateway \/ Quiet \/ UNCHANGED vars
  <2>1. UNCHANGED lpc
    BY <1>8 DEF Gateway, Quiet, vars, lifeVars
  <2>2. UNCHANGED <<rpc, back>>
    BY <1>8 DEF Gateway, Quiet, vars, backVars, R!Arrive, R!Publish, R!calls
  <2> QED
    BY <2>1, <2>2
<1> QED
  BY <1>1, <1>2, <1>3, <1>4, <1>5, <1>6, <1>7, <1>8, <1>10, <1>11
  DEF StartOrStop, ControlStep, Respond, Logout, Close, RequestStep, RespondStep, Request

(* The steps of a round: the worker that makes them is the only one.       *)
LEMMA RoundStepMoves ==
  ASSUME LifePartInv, BackPartInv, RoundInv, NEW r \in Runners, RoundStep(r)
  PROVE  /\ r \in Workers /\ L!Running /\ lpc[r] = "poll"
         /\ back'[Loop] \in {"loop", "sub", "notify"}
         /\ \/ rpc'[Loop] \in InRound /\ lpc' = lpc
            \/ /\ rpc'[Loop] \in {"loop", "catch"}
               /\ lpc' = [lpc EXCEPT ![r] = rpc'[Loop]]
         /\ started' = started /\ life' = life
<1>1. r \in Workers /\ L!Running /\ lpc[r] = "poll"
  BY WorkersLoop DEF RoundStep, L!At, LP!LoopSteps
<1>2. /\ rpc'[Loop] \in InRound \cup {"loop", "catch"}
      /\ back'[Loop] \in {"loop", "sub", "notify"}
  <2> USE BackTyped DEF RoundInv, InRound, R!Goto
  <2>1. CASE R!Subscription \/ R!LockToRecv \/ R!Recv \/ R!Notify \/ R!Decide
    BY <2>1 DEF R!Subscription, R!LockToRecv, R!Recv, R!Notify, R!Decide, R!calls
  <2>2. CASE R!Answer
    BY <2>2 DEF R!Answer
  <2>3. CASE R!Respond(Loop)
    BY <2>3 DEF R!Respond
  <2>4. CASE R!Send(Loop)
    BY <2>4 DEF R!Send, R!calls
  <2> QED
    BY <2>1, <2>2, <2>3, <2>4 DEF RoundStep
<1>3. CASE rpc'[Loop] \in {"loop", "catch"}
  <2>1. L!Poll(r) /\ lpc'[r] = rpc'[Loop]
    BY <1>3 DEF RoundStep
  <2>2. lpc' = [lpc EXCEPT ![r] = rpc'[Loop]]
    BY <2>1, WorkersLoop, <1>1 DEF L!Poll, L!Goto
  <2> QED
    BY <1>1, <1>2, <1>3, <2>1, <2>2 DEF L!Poll, L!flags
<1>4. CASE rpc'[Loop] \notin {"loop", "catch"}
  <2>1. UNCHANGED lifeVars
    BY <1>4 DEF RoundStep
  <2> QED
    BY <1>1, <1>2, <1>4, <2>1 DEF lifeVars
<1> QED
  BY <1>3, <1>4

LEMMA BeginRoundMoves ==
  ASSUME LifePartInv, BackPartInv, RoundInv, NEW r \in Runners, BeginRound(r)
  PROVE  /\ r \in Workers /\ L!Running /\ lpc[r] = "loop"
         /\ back' = back
         /\ \/ lpc' = [lpc EXCEPT ![r] = "idle"] /\ rpc' = rpc
            \/ /\ lpc' = [lpc EXCEPT ![r] = "poll"]
               /\ rpc[Loop] = "loop" /\ rpc'[Loop] \in InRound
         /\ started' = started /\ life' = life
<1>1. r \in Workers /\ L!Running /\ lpc[r] = "loop"
  BY WorkersLoop DEF BeginRound, L!LoopCheck, L!At, LP!LoopSteps
<1>2. CASE stop_requested
  BY <1>1, <1>2
  DEF BeginRound, L!LoopCheck, L!LoopGoesOn, L!Goto, L!flags, backVars
<1>3. CASE ~stop_requested
  BY <1>1, <1>3, BackTyped
  DEF BeginRound, L!LoopCheck, L!LoopGoesOn, L!Goto, L!flags, R!Poll, R!Goto, R!calls, InRound
<1> QED
  BY <1>2, <1>3

LEMMA CatchStepMoves ==
  ASSUME LifePartInv, BackPartInv, NEW r \in Runners, CatchStep(r)
  PROVE  /\ r \in Workers /\ L!Running /\ lpc[r] \in {"catch", "assign"}
         /\ back' = back
         /\ \/ lpc' = [lpc EXCEPT ![r] = "assign"] /\ lpc[r] = "catch" /\ rpc' = rpc
            \/ lpc' = [lpc EXCEPT ![r] = "loop"] /\ rpc'[Loop] = "loop"
         /\ started' = started /\ life' = life
<1>1. CASE L!Catch(r) /\ lpc'[r] = "assign" /\ UNCHANGED backVars
  <2>1. r \in Workers /\ L!Running /\ lpc[r] = "catch" /\ lpc \in [Runners -> LP!Steps]
    BY <1>1, WorkersLoop DEF L!Catch, L!At, LP!LoopSteps
  <2>2. lpc' = [lpc EXCEPT ![r] = "assign"]
    BY <1>1, <2>1 DEF L!Catch, L!Goto
  <2> QED
    BY <1>1, <2>1, <2>2 DEF L!Catch, L!flags, backVars
<1>2. CASE L!Assign(r) /\ R!Catch
  <2>1. r \in Workers /\ L!Running /\ lpc[r] = "assign"
    BY <1>2, WorkersLoop DEF L!Assign, L!At, LP!LoopSteps
  <2> QED
    BY <1>2, <2>1, BackTyped DEF L!Assign, L!Goto, R!Catch, R!Goto, R!calls
<1> QED
  BY <1>1, <1>2 DEF CatchStep

LEMMA RoundInvStep ==
  ASSUME OneApplication, LifePartInv, BackPartInv, RoundInv, [Next]_vars
  PROVE  RoundInv'
<1>1. ASSUME NEW r \in Workers, L!Running, lpc[r] \in Turning \cup {"loop"}
      PROVE  \A w \in Workers : w # r => lpc[w] = "idle"
  BY <1>1, OneInLoop DEF Turning
<1>2. lpc \in [Runners -> LP!Steps] \/ ~L!Running
  BY WorkersLoop
<1> USE DEF Runners, Turning
<1>3. CASE \E r \in Runners : BeginRound(r)
  <2>1. PICK r \in Runners : BeginRound(r)
    BY <1>3
  <2> QED
    BY <1>1, <1>2, <2>1, BeginRoundMoves DEF RoundInv, InRound
<1>4. CASE \E r \in Runners : RoundStep(r)
  <2>1. PICK r \in Runners : RoundStep(r)
    BY <1>4
  <2> QED
    BY <1>1, <1>2, <2>1, RoundStepMoves DEF RoundInv, InRound
<1>5. CASE \E r \in Runners : CatchStep(r)
  <2>1. PICK r \in Runners : CatchStep(r)
    BY <1>5
  <2> QED
    BY <1>1, <1>2, <2>1, CatchStepMoves DEF RoundInv, InRound
<1>6. CASE /\ \A w \in Workers : lpc'[w] # lpc[w] => {lpc[w], lpc'[w]} \cap Turning = {}
           /\ rpc'[Loop] = rpc[Loop] /\ back'[Loop] = back[Loop]
  BY <1>6 DEF RoundInv
<1> QED
  BY <1>3, <1>4, <1>5, <1>6, LeavesRounds DEF Next, Step

(* A callback's request ends before its round goes on. *)
LEMMA CallbackInvStep ==
  ASSUME LifePartInv, BackPartInv, QP!TypeOK, RoundInv, CallbackInv, [Next]_vars
  PROVE  CallbackInv'
<1>1. ASSUME NEW w \in Workers, lpc[w] = "poll", qpc'[w] # "idle" PROVE lpc'[w] = "poll"
  <2> SUFFICES ASSUME \E r \in Runners : BeginRound(r) \/ RoundStep(r) \/ CatchStep(r)
               PROVE  lpc'[w] = "poll"
    BY <1>1, LeavesRounds DEF Next, Step, Turning
  <2>1. PICK r \in Runners : BeginRound(r) \/ RoundStep(r) \/ CatchStep(r)
    OBVIOUS
  <2>2. CASE r = w
    <3>1. RoundStep(w)
      BY <1>1, <2>1, <2>2, BeginRoundMoves, CatchStepMoves
    <3>2. qpc[w] = "idle" /\ UNCHANGED requestVars
      BY <3>1 DEF RoundStep, Free
    <3> QED
      BY <1>1, <3>2 DEF requestVars
  <2>3. CASE r # w
    <3>1. L!Running /\ (lpc' = lpc \/ \E step : lpc' = [lpc EXCEPT ![r] = step])
      BY <2>1, BeginRoundMoves, RoundStepMoves, CatchStepMoves
    <3>2. lpc \in [Runners -> LP!Steps] /\ w \in Runners
      BY <3>1, WorkersLoop DEF Runners
    <3> QED
      BY <1>1, <2>3, <3>1, <3>2
  <2> QED
    BY <2>2, <2>3
<1>2. ASSUME NEW w \in Workers, qpc'[w] # "idle" PROVE qpc[w] # "idle" \/ lpc[w] = "poll"
  <2>1. CASE UNCHANGED requestVars
    BY <1>2, <2>1 DEF requestVars
  <2> DEFINE Calls(r) == qpc' = qpc \/ \E step : qpc' = [qpc EXCEPT ![r] = step]
  <2>0. ASSUME NEW r, r # w, Calls(r) PROVE qpc'[w] = qpc[w]
    <3>1. w \in Runners /\ DOMAIN qpc = Runners
      BY DEF QP!TypeOK, Runners
    <3> QED
      BY <2>0, <3>1
  <2>2. ASSUME NEW r \in Runners, Request(r) PROVE qpc'[w] = qpc[w] \/ lpc[w] = "poll"
    <3>1. Calls(r)
      BY <2>2 DEF Request, Q!Request, Q!Goto
    <3>2. r = w => lpc[w] = "poll"
      BY <2>2, PartAssumptions DEF Request, Calling, L!At, LP!LifecycleAssumption
    <3> QED
      BY <2>0, <3>1, <3>2
  <2>3. ASSUME NEW r \in Runners, RequestStep(r) PROVE qpc'[w] = qpc[w] \/ qpc[w] # "idle"
    <3>1. qpc[r] # "idle" /\ Calls(r)
      BY <2>3 DEF RequestStep, Q!ThreadStep, Q!Stamp, Q!Lock, Q!Send, Q!Recv, Q!Store, Q!Notify,
                  Q!Throw, Q!At, Q!Goto
    <3> QED
      BY <2>0, <3>1
  <2>4. ASSUME NEW a \in Apps, Logout(a) PROVE qpc'[w] = qpc[w]
    <3>1. a # w
      BY PartAssumptions DEF LP!LifecycleAssumption
    <3>2. Calls(a)
      BY <2>4 DEF Logout, Q!Destroy, Q!Goto
    <3> QED
      BY <2>0, <3>1, <3>2
  <2>5. CASE Gateway
    BY <1>2, <2>1, <2>5 DEF Gateway, Q!Serve, Q!threadVars
  <2>6. ASSUME NEW r \in Runners,
               \/ ControlStep(r) \/ BeginRound(r) \/ RoundStep(r) \/ CatchStep(r)
               \/ RespondStep(r) \/ StartOrStop(r) \/ Respond(r) \/ Close(r)
        PROVE  UNCHANGED requestVars
    BY <2>6 DEF ControlStep, BeginRound, RoundStep, CatchStep, RespondStep, StartOrStop,
                Respond, Close
  <2>7. \/ UNCHANGED requestVars
        \/ \E r \in Runners : Request(r) \/ RequestStep(r)
        \/ \E a \in Apps : Logout(a)
        \/ Gateway
    BY <2>6 DEF Next, Step, Runners, Quiet, vars
  <2> QED
    BY <1>2, <2>1, <2>2, <2>3, <2>4, <2>5, <2>7
<1> QED
  BY <1>1, <1>2 DEF CallbackInv

(* stop() has joined the worker when it clears _started, and no round      *)
(* begins before start() has set it.                                       *)
LEMMA StoppedInvStep ==
  ASSUME OneApplication, LifePartInv, BackPartInv, RoundInv, StoppedInv, [Next]_vars
  PROVE  StoppedInv'
<1>1. ASSUME NEW r \in Runners, BeginRound(r) PROVE started
  <2>1. r \in Workers /\ L!Running /\ lpc[r] # "idle"
    BY <1>1, BeginRoundMoves
  <2> QED
    BY <2>1, NoneInLoop
<1>2. ASSUME NEW r \in Runners, BeginRound(r) \/ RoundStep(r) \/ CatchStep(r)
      PROVE  StoppedInv'
  <2>1. CASE BeginRound(r)
    BY <1>1, <2>1, BeginRoundMoves DEF StoppedInv
  <2>2. CASE RoundStep(r) \/ CatchStep(r)
    <3>1. rpc[Loop] # "loop" /\ started' = started
      BY <2>2, RoundStepMoves, CatchStepMoves DEF RoundInv, InRound
    <3> QED
      BY <3>1 DEF StoppedInv
  <2> QED
    BY <1>2, <2>1, <2>2
<1>3. ASSUME NEW r \in Runners, L!StopClear(r) PROVE rpc[Loop] = "loop"
  <2>1. lpc[r] = "clear" /\ r \in Apps
    BY <1>3, WorkersLoop DEF L!StopClear, L!At, LP!LoopSteps, Runners
  <2> QED
    BY <2>1, NoneInLoop DEF RoundInv, Turning
<1>4. CASE /\ \A w \in Workers : lpc'[w] # lpc[w] => {lpc[w], lpc'[w]} \cap Turning = {}
           /\ rpc'[Loop] = rpc[Loop]
           /\ started' = started \/ started' = TRUE \/ \E r \in Runners : L!StopClear(r)
  BY <1>3, <1>4 DEF StoppedInv
<1>5. \/ \E r \in Runners : BeginRound(r) \/ RoundStep(r) \/ CatchStep(r)
      \/ started' = started \/ started' = TRUE \/ \E r \in Runners : L!StopClear(r)
  <2>1. ASSUME NEW r \in Runners, ControlStep(r)
        PROVE  started' = started \/ started' = TRUE \/ L!StopClear(r)
    BY <2>1 DEF ControlStep, L!StartStep, L!StartMark, L!StartReset, L!StartConnect,
                L!StartSpawn, L!StartStore, L!Connect, L!Bind, L!StopStep, L!StopSet, L!StopJoin,
                L!JoinDone, L!flags
  <2>2. ASSUME NEW a \in Apps, StartOrStop(a) \/ Respond(a) \/ Logout(a) \/ Close(a)
        PROVE  started' = started
    BY <2>2 DEF StartOrStop, L!Start, L!Stop, L!Destroy, Respond, Logout, Close, L!Logout,
                L!CloseSockets, L!DestroyMembers, L!flags, lifeVars
  <2>3. ASSUME NEW r \in Runners, RequestStep(r) \/ RespondStep(r) \/ Request(r)
        PROVE  started' = started
    BY <2>3 DEF RequestStep, L!Logout, L!flags, RespondStep, Request, lifeVars
  <2>4. CASE Gateway \/ Quiet \/ UNCHANGED vars
    BY <2>4 DEF Gateway, Quiet, vars, lifeVars
  <2> QED
    BY <2>1, <2>2, <2>3, <2>4 DEF Next, Step
<1> QED
  BY <1>2, <1>4, <1>5, LeavesRounds DEF Next, Step

LEMMA ClientInvInit == ASSUME OneApplication, Init PROVE ClientInv
<1> USE PartAssumptions
<1>1. LP!Init /\ QP!Init /\ RP!Init
  BY InitOfParts
<1>2. LifePartInv
  BY <1>1, LP!LifeInvInit, LP!QuietInit, LP!AppsOutsideInit DEF LifePartInv
<1>3. BackPartInv
  <2>1. RP!SettledInv
    BY <1>1 DEF RP!Init, RP!SettledInv
  <2> QED
    BY <1>1, <2>1, RP!FitInit DEF BackPartInv
<1>4. QP!TypeOK
  BY <1>1, QP!InitTyped
<1>5. GlueInv
  BY <1>1 DEF LP!Init, QP!Init, RP!Init, LP!Runners, RP!Runners, Runners, GlueInv, RoundInv,
              CallbackInv, StoppedInv
<1> QED
  BY <1>2, <1>3, <1>4, <1>5 DEF ClientInv

LEMMA RequestTypedStep == ASSUME QP!TypeOK, [Next]_vars PROVE QP!TypeOK'
<1>1. CASE UNCHANGED requestVars
  BY <1>1 DEF requestVars, QP!TypeOK
<1> QED
  BY <1>1, RequestPart, PartAssumptions, QP!TypeOKStep

LEMMA ClientInvStep == ASSUME OneApplication, ClientInv, [Next]_vars PROVE ClientInv'
<1> USE DEF ClientInv, GlueInv
<1>1. LifePartInv'
  BY LifePartStep
<1>2. BackPartInv'
  <2>1. stop_requested' \in BOOLEAN
    BY <1>1 DEF LifePartInv, LP!LifeInv, LP!Types
  <2> QED
    BY <2>1, BackPartStep
<1> QED
  BY <1>1, <1>2, RequestTypedStep, RoundInvStep, CallbackInvStep, StoppedInvStep

LEMMA Composition == ASSUME OneApplication PROVE Spec => []ClientInv
<1>1. Init => ClientInv
  BY ClientInvInit
<1>2. ClientInv /\ [Next]_vars => ClientInv'
  BY ClientInvStep
<1> QED
  BY <1>1, <1>2, PTL DEF Spec

(* When the destructor comes to its logout every worker has ended, with    *)
(* the requests its callbacks made: nothing of the client runs beside the  *)
(* logout, nor beside the end of the members.                              *)
THEOREM LogoutsAlone == ASSUME OneApplication PROVE Spec => []LogoutAlone
<1>1. ClientInv => LogoutAlone
  <2> SUFFICES ASSUME ClientInv, NEW a \in Apps, lpc[a] \in L!EndSteps
               PROVE  \A w \in Workers : lpc[w] = "idle" /\ qpc[w] = "idle"
    BY DEF LogoutAlone
  <2>1. ~started
    BY DEF L!EndSteps, LP!EndSteps, ClientInv, LifePartInv, LP!QuietInv, LP!CallsQuietly
  <2>2. \A w \in Workers : lpc[w] = "idle"
    BY <2>1, NoneInLoop DEF ClientInv
  <2> QED
    BY <2>2 DEF ClientInv, GlueInv, CallbackInv
<1> QED
  BY <1>1, Composition, PTL

(* stop() cuts no round short: after it every request the loop took from   *)
(* the gateway has its answer, or went through the error callback.         *)
THEOREM TakenAreAnswered == ASSUME OneApplication PROVE Spec => []TakenMeansAnswered
<1>1. ClientInv => TakenMeansAnswered
  BY DEF ClientInv, GlueInv, StoppedInv, BackPartInv, RP!SettledInv, RP!Settled, RP!Underway,
         TakenMeansAnswered, R!Replied, RP!Replied
<1> QED
  BY <1>1, Composition, PTL

-----------------------------------------------------------------------------
(* A client is destroyed when its requests are over, by the destructor's   *)
(* logout if there was a session.                                          *)
EndsTogether ==
  /\ life = "destroyed" => qlife = "destroyed"
  /\ \A a \in Apps : lpc[a] \in {"sockets", "members"} => qlife = "destroyed"
SessionInv == LP!LifeInv /\ QP!TypeOK /\ QP!TokenInv /\ QP!EndInv /\ EndsTogether

(* What the gateway and the application are asked for: replies of more     *)
(* than one frame, and the logout left to the destructor.                  *)
PlainSessions == 1 \notin Frames /\ "logout" \notin RequestKinds

LEMMA SessionInvInit == ASSUME Init PROVE SessionInv
<1>1. LP!Init /\ QP!Init /\ EndsTogether
  BY InitOfParts DEF LP!Init, LP!Runners, EndsTogether
<1> QED
  BY <1>1, PartAssumptions, LP!LifeInvInit, QP!InitTyped, QP!TokenInvInit, QP!EndInvInit
  DEF SessionInv

LEMMA EndsTogetherStep ==
  ASSUME LP!LifeInv, QP!TypeOK, EndsTogether, [Next]_vars PROVE EndsTogether'
<1> DEFINE Ended(a) == lpc[a] \in {"sockets", "members"}
           Moves(r) == lpc' = lpc \/ \E step : step \notin {"sockets", "members"} /\ L!Goto(r, step)
<1>1. qlife = "destroyed" => qlife' = "destroyed"
  <2>1. CASE QP!Next
    BY <2>1 DEF QP!Next, QP!Request, QP!ThreadStep, QP!Stamp, QP!Lock, QP!Send, QP!Recv, QP!Store,
                QP!Notify, QP!Destroy, QP!Serve, QP!At, QP!Running, QP!Over, QP!vars
  <2> QED
    BY <2>1, RequestPart DEF requestVars
<1>2. ASSUME NEW r \in Runners, Moves(r) PROVE \A a \in Apps : Ended(a)' => Ended(a)
  <2>1. lpc \in [Runners -> LP!Steps] /\ Apps \subseteq Runners
    BY DEF LP!LifeInv, LP!Types, LP!Runners, Runners
  <2> QED
    BY <1>2, <2>1 DEF L!Goto
<1>3. ASSUME life' = "destroyed" => life = "destroyed", \A a \in Apps : Ended(a)' => Ended(a)
      PROVE  EndsTogether'
  BY <1>1, <1>3 DEF EndsTogether
<1>4. ASSUME qlife' = "destroyed" PROVE EndsTogether'
  BY <1>4 DEF EndsTogether
<1>5. ASSUME NEW r \in Runners, ControlStep(r)
      PROVE  life' # "destroyed" /\ \A a \in Apps : Ended(a)' => Ended(a)
  <2>1. CASE L!StopJoin(r)
    <3>1. life' # "destroyed" /\ Moves(r)
      BY <2>1, ReturnTyped DEF L!StopJoin, L!StopThrows, L!LeaveByException, L!At, L!Running
    <3> QED
      BY <1>2, <3>1
  <2>2. CASE L!StartSpawn(r)
    <3>1. lpc \in [Runners -> LP!Steps] /\ Apps \subseteq Runners /\ Workers \subseteq Runners
      BY DEF LP!LifeInv, LP!Types, LP!Runners, Runners
    <3> QED
      BY <2>2, <3>1 DEF L!StartSpawn, L!At, L!Running
  <2>3. CASE L!StopClear(r)
    <3>1. life' # "destroyed" /\ Moves(r)
      BY <2>3, ReturnTyped DEF L!StopClear, L!At, L!Running
    <3> QED
      BY <1>2, <3>1
  <2>4. CASE ~(L!StopJoin(r) \/ L!StartSpawn(r) \/ L!StopClear(r))
    <3>1. life' # "destroyed" /\ Moves(r)
      BY <1>5, <2>4
      DEF ControlStep, L!StartStep, L!StartMark, L!StartReset, L!StartConnect, L!StartStore,
          L!Connect, L!Bind, L!LeaveByException, L!StopStep, L!StopSet, L!JoinDone, L!At,
          L!Running
    <3> QED
      BY <1>2, <3>1
  <2> QED
    BY <2>1, <2>2, <2>3, <2>4
<1>6. ASSUME NEW r \in Runners, BeginRound(r) \/ RoundStep(r) \/ CatchStep(r)
      PROVE  life' # "destroyed" /\ Moves(r)
  BY <1>6 DEF BeginRound, RoundStep, CatchStep, L!LoopCheck, L!Poll, L!Catch, L!Assign, L!At,
              L!Running, L!LeaveByException, lifeVars
<1>7. ASSUME NEW r \in Runners, RequestStep(r) PROVE EndsTogether'
  <2>1. CASE UNCHANGED lifeVars
    BY <1>3, <2>1 DEF lifeVars
  <2>2. CASE L!Logout(r) /\ life' = "aborted" /\ lpc' = lpc
    BY <1>3, <2>2
  <2> QED
    BY <1>4, <1>7, <2>1, <2>2, RequestEnds DEF L!Logout, L!At, L!Running
<1>8. ASSUME NEW a \in Apps, StartOrStop(a) PROVE life' # "destroyed" /\ Moves(a)
  BY <1>8 DEF StartOrStop, L!Start, L!Stop, L!Destroy, L!At, L!Running
<1>9. ASSUME NEW a \in Apps, Logout(a) PROVE EndsTogether'
  BY <1>3, <1>4, <1>9 DEF Logout, lifeVars
<1>10. ASSUME NEW a \in Apps, Close(a) PROVE EndsTogether'
  BY <1>1, <1>4, <1>10 DEF Close, L!CloseSockets, L!DestroyMembers, L!At, EndsTogether
<1>11. CASE UNCHANGED <<lpc, life>>
  BY <1>3, <1>11
<1> QED
  BY <1>2, <1>3, <1>5, <1>6, <1>7, <1>8, <1>9, <1>10, <1>11
  DEF Next, Step, Runners, Request, RespondStep, Respond, Gateway, Quiet, vars, lifeVars

LEMMA SessionInvStep == ASSUME PlainSessions, SessionInv, [Next]_vars PROVE SessionInv'
<1> USE PartAssumptions, LifeInvKept DEF SessionInv
<1>1. CASE QP!Next
  BY <1>1, EndsTogetherStep, QP!TypeOKStep, QP!OutstandingStep, QP!LogoutLastStep,
     QP!OneTokenStep, QP!TokensUsedStep, QP!EndInvStep
  DEF PlainSessions, QP!TokenInv
<1>2. CASE UNCHANGED requestVars
  BY <1>2, EndsTogetherStep, QP!TypeOKStep, QP!OutstandingStep, QP!LogoutLastStep,
     QP!OneTokenStep, QP!TokensUsedStep, QP!EndInvStep
  DEF PlainSessions, QP!TokenInv, requestVars, QP!vars, QP!threadVars, QP!socketVars,
      QP!gatewayVars
<1> QED
  BY <1>1, <1>2, RequestPart

LEMMA Sessions == ASSUME PlainSessions PROVE Spec => []SessionInv
<1>1. Init => SessionInv
  BY SessionInvInit
<1>2. SessionInv /\ [Next]_vars => SessionInv'
  BY SessionInvStep
<1> QED
  BY <1>1, <1>2, PTL DEF Spec

(* No destroyed client leaves a session in the gateway, however its        *)
(* threads and callbacks raced to log in.                                  *)
THEOREM NoSessionLeft == ASSUME PlainSessions PROVE Spec => []NoSessionLeak
<1>1. SessionInv => NoSessionLeak
  BY DEF SessionInv, EndsTogether, QP!EndInv, QP!SessionEnded, NoSessionLeak
<1> QED
  BY <1>1, Sessions, PTL

-----------------------------------------------------------------------------
(* The client, seen as the service it implements.                          *)
ServiceNext ==
  \/ Service!Up \/ Service!Down \/ Service!Serve \/ Service!Login \/ Service!Logout
  \/ Service!Gone \/ Service!Abort
ServiceStep == ServiceNext \/ UNCHANGED Service!vars

LEMMA ServiceUnchanged ==
  ASSUME life' = life \/ {life, life'} \subseteq {"alive", "closing"},
         started' = started, rpc'[Loop] = rpc[Loop], live' = live
  PROVE  UNCHANGED Service!vars
BY DEF Service!vars

(* start() brings the service up, stop() takes it down, and what neither   *)
(* catches ends the process.                                               *)
LEMMA ControlServes ==
  ASSUME OneApplication, ClientInv, NEW r \in Runners, ControlStep(r) PROVE ServiceStep
<1>1. L!Running /\ LifePartInv /\ BackPartInv /\ LP!LifeInv /\ LP!QuietInv
  BY DEF ControlStep, L!StartStep, L!StartMark, L!StartReset, L!StartConnect, L!StartSpawn,
         L!StartStore, L!Connect, L!Bind, L!StopStep, L!StopSet, L!StopJoin, L!JoinDone,
         L!StopClear, L!At, ClientInv, LifePartInv
<1>2. rpc'[Loop] = rpc[Loop] /\ live' = live
  BY DEF ControlStep, backVars, requestVars
<1>3. life' = life \/ (life' = "aborted" /\ started' = started)
  <2>1. CASE L!StopJoin(r)
    BY <1>1, <2>1, ReturnTyped DEF L!StopJoin, L!StopThrows, L!LeaveByException, L!flags
  <2> QED
    BY <2>1
    DEF ControlStep, L!StartStep, L!StartMark, L!StartReset, L!StartConnect, L!StartSpawn,
        L!StartStore, L!Connect, L!Bind, L!LeaveByException, L!StopStep, L!StopSet,
        L!JoinDone, L!StopClear, L!flags
<1>4. CASE L!StartMark(r)
  <2>1. r \in Apps /\ lpc[r] = "mark" /\ started' /\ life' = life
    BY <1>1, <1>4, WorkersLoop DEF L!StartMark, L!At, LP!LoopSteps, Runners
  <2>2. ~started
    BY <1>1, <2>1 DEF LP!QuietInv, LP!CallsQuietly
  <2> QED
    BY <1>1, <1>2, <2>1, <2>2 DEF ServiceStep, ServiceNext, Service!Up, L!Running
<1>5. CASE L!StopClear(r)
  <2>1. r \in Apps /\ lpc[r] = "clear" /\ ~started' /\ life' = life
    BY <1>1, <1>5, WorkersLoop DEF L!StopClear, L!At, LP!LoopSteps, Runners
  <2>2. started
    BY <1>1, <2>1 DEF LP!QuietInv, LP!CallsQuietly, LP!StopSteps
  <2>3. rpc[Loop] = "loop"
    BY <1>2, <2>1, ClientInvStep DEF Next, Step, ClientInv, GlueInv, StoppedInv
  <2> QED
    BY <1>1, <1>2, <2>1, <2>2, <2>3 DEF ServiceStep, ServiceNext, Service!Down, L!Running
<1>6. CASE started' = started /\ life' = life
  BY <1>2, <1>6, ServiceUnchanged DEF ServiceStep
<1>7. CASE started' = started /\ life' = "aborted"
  BY <1>1, <1>2, <1>7 DEF ServiceStep, ServiceNext, Service!Abort, L!Running
<1> QED
  BY <1>3, <1>4, <1>5, <1>6, <1>7
  DEF ControlStep, L!StartStep, L!StartReset, L!StartConnect, L!StartSpawn, L!StartStore,
      L!Connect, L!Bind, L!StopStep, L!StopSet, L!StopJoin, L!JoinDone, L!flags

(* A round begins and ends while the service is up. *)
LEMMA RoundServes ==
  ASSUME OneApplication, ClientInv, ClientInv', NEW r \in Runners,
         BeginRound(r) \/ RoundStep(r) \/ CatchStep(r)
  PROVE  ServiceStep
<1>1. /\ L!Running /\ started' = started /\ life' = life
  BY BeginRoundMoves, RoundStepMoves, CatchStepMoves DEF ClientInv, GlueInv
<1>2. live' = live
  BY DEF BeginRound, RoundStep, CatchStep, requestVars
<1>3. CASE (rpc'[Loop] # "loop") = (rpc[Loop] # "loop")
  BY <1>1, <1>2, <1>3 DEF ServiceStep, Service!vars
<1>4. CASE (rpc'[Loop] # "loop") # (rpc[Loop] # "loop")
  <2>1. started
    BY <1>1, <1>4 DEF ClientInv, GlueInv, StoppedInv
  <2> QED
    BY <1>1, <1>2, <1>4, <2>1 DEF ServiceStep, ServiceNext, Service!Serve, L!Running
<1> QED
  BY <1>3, <1>4

(* The destructor ends with the service down and no session left. *)
LEMMA CloseServes ==
  ASSUME OneApplication, ClientInv, SessionInv, NEW a \in Apps, Close(a) PROVE ServiceStep
<1>1. L!Running /\ lpc[a] \in {"sockets", "members"} /\ qlife = "destroyed"
  BY DEF Close, L!CloseSockets, L!DestroyMembers, L!At, SessionInv, EndsTogether
<1>2. ~started /\ started' = started
  BY <1>1 DEF ClientInv, LifePartInv, LP!QuietInv, LP!CallsQuietly, LP!EndSteps, Close,
              L!CloseSockets, L!DestroyMembers, L!flags
<1>3. life' \in {life, "destroyed", "aborted"}
  BY DEF Close, L!CloseSockets, L!DestroyMembers
<1>4. live = {} /\ live' = live /\ rpc' = rpc
  BY <1>1 DEF SessionInv, QP!EndInv, QP!SessionEnded, Close, requestVars, backVars
<1>5. CASE life' = "destroyed"
  BY <1>1, <1>2, <1>4, <1>5 DEF ServiceStep, ServiceNext, Service!Gone, L!Running
<1>6. CASE life' = "aborted"
  BY <1>1, <1>2, <1>4, <1>6 DEF ServiceStep, ServiceNext, Service!Abort, L!Running
<1>7. CASE life' = life
  BY <1>2, <1>4, <1>7, ServiceUnchanged DEF ServiceStep
<1> QED
  BY <1>3, <1>5, <1>6, <1>7

(* The gateway's answers begin and end sessions. *)
LEMMA GatewayServes == ASSUME BackPartInv, Gateway PROVE ServiceStep
<1>1. L!Running /\ life' = life /\ started' = started /\ rpc'[Loop] = rpc[Loop]
  BY DEF Gateway, lifeVars, backVars, R!Arrive, R!Publish
<1>2. CASE live' = live
  BY <1>1, <1>2, ServiceUnchanged DEF ServiceStep
<1>3. CASE live' # {}
  BY <1>1, <1>3 DEF ServiceStep, ServiceNext, Service!Login, L!Running
<1>4. CASE live' = {}
  BY <1>1, <1>4 DEF ServiceStep, ServiceNext, Service!Logout, L!Running
<1> QED
  BY <1>3, <1>4

(* A request leaves the service as it is, unless it is the destructor's    *)
(* logout and throws.                                                      *)
LEMMA RequestServes ==
  ASSUME LP!LifeInv, NEW r \in Runners, Request(r) \/ RequestStep(r) PROVE ServiceStep
<1>1. live' = live
  BY DEF Request, RequestStep, Q!Request, Q!ThreadStep, Q!Stamp, Q!Lock, Q!Send, Q!Recv, Q!Store,
         Q!Notify, Q!gatewayVars
<1>2. rpc' = rpc
  BY DEF Request, RequestStep, backVars
<1>3. CASE UNCHANGED lifeVars
  BY <1>1, <1>2, <1>3, ServiceUnchanged DEF lifeVars, ServiceStep
<1>4. CASE L!Logout(r)
  <2>1. L!Running /\ life' \in {life, "aborted"} /\ started' = started
    BY <1>4 DEF L!Logout, L!At, L!flags
  <2>2. CASE life' = life
    BY <1>1, <1>2, <2>1, <2>2, ServiceUnchanged DEF ServiceStep
  <2>3. CASE life' = "aborted"
    BY <1>1, <1>2, <2>1, <2>3 DEF ServiceStep, ServiceNext, Service!Abort, L!Running
  <2> QED
    BY <2>1, <2>2, <2>3
<1> QED
  BY <1>3, <1>4, RequestEnds DEF Request

LEMMA NextServes ==
  ASSUME OneApplication, ClientInv, SessionInv, [Next]_vars PROVE ServiceStep
<1>1. ClientInv' /\ BackPartInv /\ LifePartInv /\ LP!LifeInv
  BY ClientInvStep DEF ClientInv, LifePartInv
<1>2. ASSUME NEW a \in Apps, StartOrStop(a) PROVE ServiceStep
  <2>1. /\ life' = life \/ {life, life'} \subseteq {"alive", "closing"}
        /\ started' = started
    BY <1>2 DEF StartOrStop, L!Start, L!Stop, L!Destroy, L!flags
  <2>2. rpc'[Loop] = rpc[Loop] /\ live' = live
    BY <1>2 DEF StartOrStop, backVars, requestVars
  <2> QED
    BY <2>1, <2>2, ServiceUnchanged DEF ServiceStep
<1>3. ASSUME NEW r, Respond(r) \/ RespondStep(r) PROVE ServiceStep
  <2>1. r \in Apps /\ life' = life /\ started' = started /\ live' = live
    BY <1>3 DEF Respond, RespondStep, lifeVars, requestVars
  <2>2. rpc'[Loop] = rpc[Loop]
    BY <1>1, <1>3, <2>1, BackTyped DEF Respond, RespondStep, R!Respond, R!Send, R!Goto
  <2> QED
    BY <2>1, <2>2, ServiceUnchanged DEF ServiceStep
<1>4. ASSUME NEW a \in Apps, Logout(a) PROVE ServiceStep
  <2>1. rpc' = rpc /\ (UNCHANGED lifeVars \/ L!Logout(a))
    BY <1>4 DEF Logout, backVars
  <2>2. live' = live
    BY <1>4 DEF Logout, Q!Destroy, Q!gatewayVars
  <2>3. CASE UNCHANGED lifeVars
    BY <2>1, <2>2, <2>3, ServiceUnchanged DEF lifeVars, ServiceStep
  <2>4. CASE L!Logout(a)
    <3>1. started' = started /\ life' \in {life, "aborted"} /\ L!Running
      BY <2>4 DEF L!Logout, L!At, L!flags
    <3>2. CASE life' = life
      BY <2>1, <2>2, <3>1, <3>2, ServiceUnchanged DEF ServiceStep
    <3>3. CASE life' = "aborted"
      BY <2>1, <2>2, <3>1, <3>3 DEF ServiceStep, ServiceNext, Service!Abort, L!Running
    <3> QED
      BY <3>1, <3>2, <3>3
  <2> QED
    BY <2>1, <2>3, <2>4
<1>5. CASE Quiet \/ UNCHANGED vars
  BY <1>5, ServiceUnchanged DEF Quiet, vars, lifeVars, requestVars, backVars, ServiceStep
<1> QED
  BY <1>1, <1>2, <1>3, <1>4, <1>5, ControlServes, RoundServes, CloseServes, GatewayServes,
     RequestServes DEF Next, Step

(* The client implements the abstract service: it serves the gateway only  *)
(* while it is up, goes down only between two messages, and is gone only   *)
(* when it is down and has no session left.                                *)
THEOREM ClientServes ==
  ASSUME OneApplication, PlainSessions PROVE Spec => ImplementsService
<1>1. Init => Service!Init
  BY InitOfParts DEF LP!Init, QP!Init, RP!Init, RP!Runners, Service!Init
<1>2. ClientInv /\ SessionInv /\ [Next]_vars => [ServiceNext]_(Service!vars)
  BY NextServes DEF ServiceStep
<1> QED
  BY <1>1, <1>2, Composition, Sessions, PTL DEF Spec, ImplementsService, Service!Spec, ServiceNext
=============================================================================
