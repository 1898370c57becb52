----------------------------- MODULE Lifecycle -----------------------------
(***************************************************************************)
(* The life of a UFEedClient: start(), stop() and the destructor, called   *)
(* by application threads, and the worker loop they begin and end, run by  *)
(* a thread of its own or, with wait = true, by the caller of start()      *)
(* (ufeedclient.cpp, Impl).  Each read or write of _started,               *)
(* _stop_requested and _worker_thread is a step of its own.                *)
(*                                                                         *)
(* Abstracted: what the loop receives (Responder models it); here an       *)
(* iteration ends well, ends in a catch, or runs a callback that calls     *)
(* stop().  Callbacks that call start() are left out.                      *)
(***************************************************************************)
EXTENDS Naturals, FiniteSets

CONSTANTS Apps,          \* application threads
          Workers,       \* identities for the threads start(false) creates
          NoThread,      \* _worker_thread is null
          WaitModes,     \* the arguments start() may be given
          Verdicts,      \* what the listener's error callbacks may answer; {}: no listener
          Responder,     \* is a responder endpoint configured?
          Failing,       \* what may throw: connecting or binding a socket, an error callback,
                         \* the logout of ~Impl
          CallbackStops, \* may a listener callback call stop()?
          MaxStarts      \* bound: calls of start() that pass its check

Sockets == {"requester", "subscriber", "responder"}

ASSUME LifecycleAssumption ==
  /\ Apps \cap Workers = {} /\ NoThread \notin Apps \cup Workers
  /\ WaitModes \subseteq BOOLEAN /\ Verdicts \subseteq BOOLEAN
  /\ Responder \in BOOLEAN /\ CallbackStops \in BOOLEAN
  /\ Failing \subseteq Sockets \cup {"callback", "logout"} /\ MaxStarts \in Nat

VARIABLES
  pc,             \* where each thread is; "idle": outside the client
  ret,            \* where a running stop() returns to
  wait,           \* the argument of a running start()
  verdict,        \* what the error callback answered
  fresh,          \* the thread a running start(false) has created but not stored
  started,        \* _started
  stop_requested, \* _stop_requested
  worker_thread,  \* the thread _worker_thread owns
  join,           \* and how far it is joined
  bound,          \* has _rep_socket been bound?
  closed,         \* have the sockets been closed?
  starts,         \* number of starts that passed the check
  life            \* "alive", "closing" (in ~Impl), "destroyed" or "aborted"
                  \* (std::terminate)

vars == <<pc, ret, wait, verdict, fresh, started, stop_requested,
          worker_thread, join, bound, closed, starts, life>>
flags == <<started, stop_requested>>
threads == <<worker_thread, join, fresh>>

Runners == Apps \cup Workers

StartSteps == {"mark", "reset", "connect", "spawn", "store"}
LoopSteps == {"open", "bind", "loop", "poll", "catch", "assign"}
StopSteps == {"set", "join", "waiting", "clear"}
EndSteps == {"close", "sockets", "members"}

Running == life \in {"alive", "closing"}

(* Every variable has its type, and a thread is being joined exactly while *)
(* one stop() waits for it.                                                *)
TypeOK ==
  /\ pc \in [Runners -> StartSteps \cup LoopSteps \cup StopSteps \cup EndSteps \cup {"idle"}]
  /\ ret \in [Runners -> {"idle", "poll", "catch", "close"}]
  /\ wait \in [Runners -> BOOLEAN]
  /\ verdict \in [Runners -> BOOLEAN]
  /\ fresh \in [Runners -> Workers \cup {NoThread}]
  /\ started \in BOOLEAN
  /\ stop_requested \in BOOLEAN
  /\ worker_thread \in Workers \cup {NoThread}
  /\ join \in {"joinable", "joining", "joined"}
  /\ bound \in BOOLEAN /\ closed \in BOOLEAN
  /\ starts \in 0..MaxStarts
  /\ life \in {"alive", "closing", "destroyed", "aborted"}
  /\ Running => (join = "joining" <=> Cardinality({r \in Runners : pc[r] = "waiting"}) = 1)

Init ==
  /\ pc = [r \in Runners |-> "idle"]
  /\ ret = [r \in Runners |-> "idle"]
  /\ wait = [r \in Runners |-> FALSE]
  /\ verdict = [r \in Runners |-> FALSE]
  /\ fresh = [r \in Runners |-> NoThread]
  /\ started = FALSE
  /\ stop_requested = FALSE
  /\ worker_thread = NoThread
  /\ join = "joined"
  /\ bound = FALSE /\ closed = FALSE
  /\ starts = 0
  /\ life = "alive"

At(r, step) == Running /\ pc[r] = step
Goto(r, step) == pc' = [pc EXCEPT ![r] = step]

(* An exception leaves worker(): it ends the process on a thread of its    *)
(* own, and start(true) passes it on to the caller.                        *)
LeaveByException(r) ==
  /\ Goto(r, "idle")
  /\ life' = IF r \in Workers THEN "aborted" ELSE life

-----------------------------------------------------------------------------
(* start(wait): it returns at once when _started; the check, the two       *)
(* writes and the connect are not atomic.                                  *)
Start(a, w) ==
  /\ At(a, "idle") /\ life = "alive" /\ ~started
  /\ starts < MaxStarts
  /\ starts' = starts + 1
  /\ wait' = [wait EXCEPT ![a] = w]
  /\ Goto(a, "mark")
  /\ UNCHANGED <<ret, verdict, flags, threads, bound, closed, life>>

StartMark(a) ==
  /\ At(a, "mark")
  /\ started' = TRUE
  /\ Goto(a, "reset")
  /\ UNCHANGED <<ret, wait, verdict, stop_requested, threads, bound, closed, starts, life>>

StartReset(a) ==
  /\ At(a, "reset")
  /\ stop_requested' = FALSE
  /\ Goto(a, "connect")
  /\ UNCHANGED <<ret, wait, verdict, started, threads, bound, closed, starts, life>>

(* _req_socket.connect; a failure is thrown to the caller and leaves       *)
(* _started set.                                                           *)
StartConnect(a) ==
  /\ At(a, "connect")
  /\ \/ Goto(a, IF wait[a] THEN "open" ELSE "spawn")
     \/ "requester" \in Failing /\ Goto(a, "idle")
  /\ UNCHANGED <<ret, wait, verdict, flags, threads, bound, closed, starts, life>>

(* make_unique<thread>: the new thread runs before start() has stored it. *)
StartSpawn(a) ==
  /\ At(a, "spawn")
  /\ \E w \in Workers :
       /\ pc[w] = "idle"
       /\ w # worker_thread \/ join = "joined"
       /\ \A b \in Apps : fresh[b] # w
       /\ pc' = [pc EXCEPT ![a] = "store", ![w] = "open"]
       /\ fresh' = [fresh EXCEPT ![a] = w]
  /\ UNCHANGED <<ret, wait, verdict, flags, worker_thread, join, bound, closed, starts, life>>

(* _worker_thread = ...: the destructor of a thread that is still joinable *)
(* ends the process.                                                       *)
ThreadOwned == worker_thread # NoThread /\ join # "joined"
ThreadNotStored(a) ==
  /\ At(a, "store")
  /\ fresh' = [fresh EXCEPT ![a] = NoThread]
  /\ Goto(a, "idle")
  /\ UNCHANGED <<ret, wait, verdict, flags, worker_thread, join, bound, closed, starts, life>>
StartStore(a) ==
  /\ At(a, "store")
  /\ worker_thread' = fresh[a]
  /\ join' = "joinable"
  /\ fresh' = [fresh EXCEPT ![a] = NoThread]
  /\ life' = IF ThreadOwned THEN "aborted" ELSE life
  /\ Goto(a, "idle")
  /\ UNCHANGED <<ret, wait, verdict, flags, bound, closed, starts>>

-----------------------------------------------------------------------------
(* worker(): the connect and the bind stand outside the try.  Binding the  *)
(* same socket to its endpoint a second time fails.                        *)
Connect(r) ==
  /\ At(r, "open")
  /\ \/ Goto(r, IF Responder THEN "bind" ELSE "loop") /\ UNCHANGED life
     \/ "subscriber" \in Failing /\ LeaveByException(r)
  /\ UNCHANGED <<ret, wait, verdict, flags, threads, bound, closed, starts>>

Bind(r) ==
  /\ At(r, "bind")
  /\ \/ /\ ~bound /\ bound' = TRUE
        /\ Goto(r, "loop") /\ UNCHANGED life
     \/ /\ bound \/ "responder" \in Failing
        /\ LeaveByException(r) /\ UNCHANGED bound
  /\ UNCHANGED <<ret, wait, verdict, flags, threads, closed, starts>>

(* while (!_stop_requested) *)
LoopIgnoresStop == TRUE
LoopGoesOn == ~stop_requested
LoopCheck(r) ==
  /\ At(r, "loop")
  /\ Goto(r, IF LoopGoesOn THEN "poll" ELSE "idle")
  /\ UNCHANGED <<ret, wait, verdict, flags, threads, bound, closed, starts, life>>

(* The body of the try: it ends, or throws. *)
Poll(r) ==
  /\ At(r, "poll")
  /\ \/ Goto(r, "loop")
     \/ Goto(r, "catch")
  /\ UNCHANGED <<ret, wait, verdict, flags, threads, bound, closed, starts, life>>

(* The catch blocks: EAGAIN, or no listener, changes nothing; otherwise    *)
(* the listener answers whether to continue and only then is               *)
(* _stop_requested written. What it throws leaves worker().                *)
Catch(r) ==
  /\ At(r, "catch")
  /\ \/ Goto(r, "loop") /\ UNCHANGED <<verdict, life>>
     \/ /\ \E v \in Verdicts : verdict' = [verdict EXCEPT ![r] = v]
        /\ Goto(r, "assign") /\ UNCHANGED life
     \/ /\ Verdicts # {} /\ "callback" \in Failing
        /\ LeaveByException(r) /\ UNCHANGED verdict
  /\ UNCHANGED <<ret, wait, flags, threads, bound, closed, starts>>

StopFromVerdict(v) == ~v
Assign(r) ==
  /\ At(r, "assign")
  /\ stop_requested' = StopFromVerdict(verdict[r])
  /\ Goto(r, "loop")
  /\ UNCHANGED <<ret, wait, verdict, started, threads, bound, closed, starts, life>>

-----------------------------------------------------------------------------
(* stop(): it returns at once unless _started.  It is called from outside, *)
(* and from a listener callback on the thread that runs the loop.          *)
StopCallers == {"idle"} \cup (IF CallbackStops THEN {"poll", "catch"} ELSE {})
Stop(r) ==
  /\ Running /\ started
  /\ pc[r] \in StopCallers
  /\ pc[r] = "idle" => r \in Apps /\ life = "alive"
  /\ ret' = [ret EXCEPT ![r] = pc[r]]
  /\ Goto(r, "set")
  /\ UNCHANGED <<wait, verdict, flags, threads, bound, closed, starts, life>>

NoStopRequest == stop_requested
StopRequest == TRUE
StopSet(r) ==
  /\ At(r, "set")
  /\ stop_requested' = StopRequest
  /\ Goto(r, "join")
  /\ UNCHANGED <<ret, wait, verdict, started, threads, bound, closed, starts, life>>

(* join() on a thread that is joined, is being joined, or is the caller    *)
(* throws; the exception leaves stop().                                    *)
StopThrows(r) ==
  CASE ret[r] = "idle"  -> Goto(r, "idle") /\ UNCHANGED life
    [] ret[r] = "poll"  -> Goto(r, "catch") /\ UNCHANGED life
    [] ret[r] = "catch" -> LeaveByException(r)
    [] ret[r] = "close" -> life' = "aborted" /\ UNCHANGED pc

StopWithoutJoin(r) ==
  /\ At(r, "join")
  /\ Goto(r, "clear")
  /\ UNCHANGED <<ret, wait, verdict, flags, threads, bound, closed, starts, life>>
StopDetaches(r) ==
  /\ At(r, "join")
  /\ join' = "joined"
  /\ Goto(r, "clear")
  /\ UNCHANGED <<ret, wait, verdict, flags, worker_thread, fresh, bound, closed, starts, life>>
StopJoinsTwice(r) ==
  /\ At(r, "join") /\ worker_thread \notin {NoThread, r}
  /\ join' = "joining"
  /\ Goto(r, "waiting")
  /\ UNCHANGED <<ret, wait, verdict, flags, worker_thread, fresh, bound, closed, starts, life>>
StopJoin(r) ==
  /\ At(r, "join")
  /\ \/ /\ worker_thread = NoThread
        /\ Goto(r, "clear") /\ UNCHANGED <<join, life>>
     \/ /\ worker_thread \notin {NoThread, r} /\ join = "joinable"
        /\ join' = "joining"
        /\ Goto(r, "waiting") /\ UNCHANGED life
     \/ /\ worker_thread # NoThread
        /\ worker_thread = r \/ join # "joinable"
        /\ StopThrows(r) /\ UNCHANGED join
  /\ UNCHANGED <<ret, wait, verdict, flags, worker_thread, fresh, bound, closed, starts>>

NobodyToJoin(w) == TRUE
Finished(w) == pc[w] = "idle"
JoinDone(r) ==
  /\ At(r, "waiting") /\ Finished(worker_thread)
  /\ join' = "joined"
  /\ Goto(r, "clear")
  /\ UNCHANGED <<ret, wait, verdict, flags, worker_thread, fresh, bound, closed, starts, life>>

StopClear(r) ==
  /\ At(r, "clear")
  /\ started' = FALSE
  /\ Goto(r, ret[r])
  /\ UNCHANGED <<ret, wait, verdict, stop_requested, threads, bound, closed, starts, life>>

(* ~Impl(): stop(), the logout, then the members go. Nobody else may be    *)
(* inside when it begins.                                                  *)
Destroy(a) ==
  /\ life = "alive" /\ \A b \in Apps : pc[b] = "idle"
  /\ life' = "closing"
  /\ ret' = [ret EXCEPT ![a] = "close"]
  /\ Goto(a, IF started THEN "set" ELSE "close")
  /\ UNCHANGED <<wait, verdict, flags, threads, bound, closed, starts>>

(* With a session, a request() whose exception ends the process: a         *)
(* destructor is noexcept. Requester has the request.                      *)
Logout(a) ==
  /\ At(a, "close")
  /\ \/ Goto(a, "members") /\ UNCHANGED life
     \/ Goto(a, "sockets") /\ UNCHANGED life
     \/ "logout" \in Failing /\ life' = "aborted" /\ UNCHANGED pc
  /\ UNCHANGED <<ret, wait, verdict, flags, threads, bound, closed, starts>>

(* After a logout the sockets are closed before any member goes. *)
CloseSockets(a) ==
  /\ At(a, "sockets")
  /\ closed' = TRUE
  /\ Goto(a, "members")
  /\ UNCHANGED <<ret, wait, verdict, flags, threads, bound, starts, life>>

(* The members go in reverse order: _worker_thread, which ends the process *)
(* if it is joinable, then the sockets.                                    *)
DestroyMembers(a) ==
  /\ At(a, "members")
  /\ life' = IF ThreadOwned THEN "aborted" ELSE "destroyed"
  /\ closed' = (closed \/ ~ThreadOwned)
  /\ UNCHANGED <<pc, ret, wait, verdict, flags, threads, bound, starts>>

Over == ~Running /\ UNCHANGED vars

-----------------------------------------------------------------------------
StartStep(a) == StartMark(a) \/ StartReset(a) \/ StartConnect(a) \/ StartSpawn(a) \/ StartStore(a)
LoopStep(r) == Connect(r) \/ Bind(r) \/ LoopCheck(r) \/ Poll(r) \/ Catch(r) \/ Assign(r)
StopStep(r) == StopSet(r) \/ StopJoin(r) \/ JoinDone(r) \/ StopClear(r)
EndStep(a) == Logout(a) \/ CloseSockets(a) \/ DestroyMembers(a)

Next ==
  \/ \E a \in Apps : \/ \E w \in WaitModes : Start(a, w)
                     \/ StartStep(a) \/ Destroy(a) \/ EndStep(a)
  \/ \E r \in Runners : LoopStep(r) \/ Stop(r) \/ StopStep(r)
  \/ Over

(* A thread inside the client is scheduled again and again: zmq::poll      *)
(* returns after _poll_interval_ms at the latest and callbacks return.     *)
(* Nothing obliges a thread to call start(), stop() or the destructor.     *)
Spec ==
  /\ Init /\ [][Next]_vars
  /\ \A r \in Runners : WF_vars(StartStep(r) \/ LoopStep(r) \/ StopStep(r) \/ EndStep(r))

-----------------------------------------------------------------------------
InLoop(r) ==
  pc[r] \in LoopSteps \/ (pc[r] \in StopSteps /\ ret[r] \in {"poll", "catch"})

(* While _started is false, as it is once stop() is through, no thread is  *)
(* in the loop.                                                            *)
StoppedMeansQuiet == ~started => \A r \in Runners : ~InLoop(r)

(* A thread that was created is reachable until it has ended: through      *)
(* _worker_thread, not joined, or through the start() about to store it.   *)
(* So neither destructor nor restart loses a running worker silently.      *)
WorkerOwned ==
  Running =>
    \A w \in Workers : pc[w] # "idle" =>
      \/ worker_thread = w /\ ThreadOwned
      \/ \E a \in Apps : fresh[a] = w

(* Sockets are closed only after the last loop has ended: nobody polls a   *)
(* socket that ~Impl has closed, explicitly or with the members.           *)
SocketsOutliveLoop == closed => \A r \in Runners : ~InLoop(r)

(* No std::thread is destroyed while it is joinable, which would end the   *)
(* process: neither the one a start() replaces, nor the last, in ~Impl.    *)
NoJoinableDestroyed == \A a \in Apps : At(a, "store") \/ At(a, "members") => ~ThreadOwned

(* A stop() whose thread cannot be joined, and that so throws, had no loop *)
(* to end: what is refused is a thread that an earlier stop() joined.      *)
RefusedOnlyWhenQuiet ==
  \A a \in Apps : At(a, "join") /\ worker_thread # NoThread /\ join # "joinable"
                    => \A r \in Runners : ~InLoop(r)

(* Nothing but the verdict of an error callback keeps stop() waiting: it   *)
(* comes back, or waits with its request withdrawn.                        *)
OnlyVerdictsDefeat ==
  \A a \in Apps : (pc[a] \in StopSteps /\ ret[a] = "idle")
                    ~> \/ pc[a] = "idle" \/ life = "aborted"
                       \/ pc[a] = "waiting" /\ ~stop_requested

(* A stop() called from outside comes back, by returning or throwing. *)
StopReturns ==
  \A a \in Apps : (pc[a] \in StopSteps /\ ret[a] = "idle")
                    ~> (pc[a] = "idle" \/ life = "aborted")

(* start(wait = true) returns after a stop() that another thread makes     *)
(* while worker() runs.                                                    *)
StopEndsLoop ==
  \A a, b \in Apps :
    (a # b /\ wait[a] /\ pc[a] \in LoopSteps /\ pc[b] = "set") ~> pc[a] = "idle"

(* stop() is never told that its thread cannot be joined. *)
StopNeverThrows ==
  [][\A r \in Runners : pc[r] = "join" => pc'[r] \in {"join", "waiting", "clear"}
                                            /\ life' = life]_vars
=============================================================================
