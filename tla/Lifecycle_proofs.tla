-------------------------- MODULE Lifecycle_proofs --------------------------
(***************************************************************************)
(* Theorems about Lifecycle, for any number of application threads and of  *)
(* workers, whatever throws and whatever the callbacks do, no worker       *)
(* thread is lost. Then what holds of a client that one application        *)
(* thread uses: no joinable thread is destroyed, the sockets outlive every *)
(* loop, and stop() leaves nobody in it.                                   *)
(***************************************************************************)
EXTENDS Lifecycle, FiniteSetTheorems, TLAPS

Steps == StartSteps \cup LoopSteps \cup StopSteps \cup EndSteps \cup {"idle"}

Types ==
  /\ pc \in [Runners -> Steps]
  /\ ret \in [Runners -> {"idle", "poll", "catch", "close"}]
  /\ wait \in [Runners -> BOOLEAN]
  /\ verdict \in [Runners -> BOOLEAN]
  /\ fresh \in [Runners -> Workers \cup {NoThread}]
  /\ started \in BOOLEAN
  /\ stop_requested \in BOOLEAN
  /\ worker_thread \in Workers \cup {NoThread}
  /\ join \in {"joinable", "joining", "joined"}
  /\ bound \in BOOLEAN /\ closed \in BOOLEAN
  /\ starts \in 0..MaxStarts
  /\ life \in {"alive", "closing", "destroyed", "aborted"}

(* A start() holds a thread exactly while it is about to store it. *)
FreshHeld ==
  /\ \A w \in Workers : pc[w] \notin StartSteps
  /\ \A r \in Runners : fresh[r] # NoThread <=> r \in Apps /\ pc[r] = "store"

(* Whoever waits in join() is alone there, and waits for a thread. *)
OneJoin ==
  /\ worker_thread = NoThread => join = "joined"
  /\ \A q, r \in Runners : pc[q] = "waiting" /\ pc[r] = "waiting" => q = r
  /\ join = "joining" <=> \E r \in Runners : pc[r] = "waiting"

(* While one thread is in ~Impl every other application thread is outside. *)
InDestructor(r) == pc[r] \in EndSteps \/ (pc[r] \in StopSteps /\ ret[r] = "close")
AloneInDestructor ==
  \A a \in Apps : InDestructor(a) =>
    life # "alive" /\ \A b \in Apps \ {a} : pc[b] = "idle"

(* A worker is never in the destructor, nor in a stop() from outside. *)
WorkersInside ==
  \A w \in Workers : pc[w] \notin EndSteps /\ (pc[w] \in StopSteps => ret[w] \in {"poll", "catch"})

Core ==
  /\ FreshHeld
  /\ WorkersInside
  /\ AloneInDestructor
  /\ Running => OneJoin
  /\ WorkerOwned

LifeInv == Types /\ Core

LEMMA LifeInvInit == Init => LifeInv
<1> SUFFICES ASSUME Init PROVE LifeInv
  OBVIOUS
<1> USE LifecycleAssumption DEF Init, Runners
<1>1. Types
  <2>1. pc \in [Runners -> Steps] /\ starts \in 0..MaxStarts
    BY DEF Steps
  <2>2. /\ ret \in [Runners -> {"idle", "poll", "catch", "close"}]
        /\ wait \in [Runners -> BOOLEAN] /\ verdict \in [Runners -> BOOLEAN]
        /\ fresh \in [Runners -> Workers \cup {NoThread}]
    OBVIOUS
  <2> QED
    BY <2>1, <2>2 DEF Types
<1>2. FreshHeld /\ WorkersInside /\ AloneInDestructor
  BY DEF FreshHeld, WorkersInside, AloneInDestructor, InDestructor, StartSteps, StopSteps, EndSteps
<1>3. OneJoin /\ WorkerOwned
  BY DEF OneJoin, WorkerOwned
<1> QED
  BY <1>1, <1>2, <1>3 DEF LifeInv, Core

(* Every step keeps the types. *)
LEMMA TypesStep == ASSUME LifeInv, [Next]_vars PROVE Types'
<1> USE LifecycleAssumption DEF LifeInv, Types, Runners, At, Goto, flags, threads
<1>0. /\ StartSteps \subseteq Steps /\ {"mark", "reset", "connect", "spawn", "store"} \subseteq Steps
      /\ LoopSteps \subseteq Steps
      /\ {"open", "bind", "loop", "poll", "catch", "assign"} \subseteq Steps
      /\ {"set", "join", "waiting", "clear"} \subseteq Steps
      /\ {"close", "sockets", "members", "idle"} \subseteq Steps
  BY DEF Steps, StartSteps, LoopSteps, StopSteps, EndSteps
<1> USE <1>0
<1>1. ASSUME NEW a \in Apps, NEW w \in WaitModes, Start(a, w) PROVE Types'
  BY <1>1 DEF Start
<1>2. ASSUME NEW a \in Apps, StartStep(a) PROVE Types'
  <2>1. CASE StartMark(a) \/ StartReset(a)
    <3>1. CASE StartMark(a)
      BY <3>1 DEF StartMark
    <3>2. CASE StartReset(a)
      BY <3>2 DEF StartReset
    <3> QED
      BY <2>1, <3>1, <3>2
  <2>2. CASE StartConnect(a)
    <3>1. \E step \in Steps : Goto(a, step)
      BY <2>2 DEF StartConnect
    <3> QED
      BY <2>2, <3>1 DEF StartConnect
  <2>3. CASE StartSpawn(a)
    BY <2>3 DEF StartSpawn
  <2>4. CASE StartStore(a)
    BY <2>4 DEF StartStore
  <2> QED
    BY <1>2, <2>1, <2>2, <2>3, <2>4 DEF StartStep
<1>3. ASSUME NEW a \in Apps, Destroy(a) \/ EndStep(a) PROVE Types'
  <2>1. CASE Destroy(a)
    BY <2>1 DEF Destroy
  <2>2. CASE Logout(a)
    BY <2>2 DEF Logout
  <2>3. CASE CloseSockets(a)
    BY <2>3 DEF CloseSockets
  <2>4. CASE DestroyMembers(a)
    BY <2>4 DEF DestroyMembers
  <2> QED
    BY <1>3, <2>1, <2>2, <2>3, <2>4 DEF EndStep
<1>4. ASSUME NEW r \in Runners, LoopStep(r) PROVE Types'
  <2>1. CASE Connect(r)
    <3>1. \E step \in Steps : Goto(r, step)
      BY <2>1 DEF Connect, LeaveByException
    <3> QED
      BY <2>1, <3>1 DEF Connect, LeaveByException
  <2>2. CASE Bind(r)
    <3>1. \E step \in Steps : Goto(r, step)
      BY <2>2 DEF Bind, LeaveByException
    <3>2. bound' \in BOOLEAN /\ life' \in {life, "aborted"}
      BY <2>2 DEF Bind, LeaveByException
    <3> QED
      BY <2>2, <3>1, <3>2 DEF Bind
  <2>3. CASE LoopCheck(r) \/ Poll(r)
    <3>1. CASE LoopCheck(r)
      BY <3>1 DEF LoopCheck
    <3>2. CASE Poll(r)
      BY <3>2 DEF Poll
    <3> QED
      BY <2>3, <3>1, <3>2
  <2>4. CASE Catch(r)
    BY <2>4 DEF Catch, LeaveByException
  <2>5. CASE Assign(r)
    BY <2>5 DEF Assign, StopFromVerdict
  <2> QED
    BY <1>4, <2>1, <2>2, <2>3, <2>4, <2>5 DEF LoopStep
<1>5. ASSUME NEW r \in Runners, Stop(r) PROVE Types'
  BY <1>5 DEF Stop, StopCallers
<1>6. ASSUME NEW r \in Runners, StopStep(r) PROVE Types'
  <2>1. CASE StopSet(r)
    BY <2>1 DEF StopSet, StopRequest
  <2>2. CASE StopJoin(r)
    <3>1. CASE StopThrows(r) /\ UNCHANGED join
      <4>1. pc' = pc \/ \E step \in Steps : Goto(r, step)
        BY <3>1 DEF StopThrows, LeaveByException
      <4>2. life' \in {life, "aborted"}
        BY <3>1 DEF StopThrows, LeaveByException
      <4> QED
        BY <2>2, <3>1, <4>1, <4>2 DEF StopJoin
    <3> QED
      BY <2>2, <3>1 DEF StopJoin
  <2>3. CASE JoinDone(r)
    BY <2>3 DEF JoinDone
  <2>4. CASE StopClear(r)
    BY <2>4 DEF StopClear
  <2> QED
    BY <1>6, <2>1, <2>2, <2>3, <2>4 DEF StopStep
<1>7. CASE UNCHANGED vars
  BY <1>7 DEF vars
<1> QED
  BY <1>1, <1>2, <1>3, <1>4, <1>5, <1>6, <1>7 DEF Next, Over

-----------------------------------------------------------------------------
(* A thread goes from one step to the next of the same call, or leaves it, *)
(* and no thread object changes hands; the process may end.                *)
Moves(r, step) ==
  /\ Running
  /\ pc[r] \notin {"idle", "store", "waiting"} \cup EndSteps /\ step \notin {"store", "waiting"}
  /\ step \in StartSteps => pc[r] \in StartSteps
  /\ step \in StopSteps \cup EndSteps => pc[r] \in StopSteps
  /\ step \in EndSteps => ret[r] = "close"
  /\ pc' = [pc EXCEPT ![r] = step]
  /\ life' \in {life, "aborted"}
  /\ UNCHANGED <<ret, threads>>

LEMMA MovesPreserve == ASSUME LifeInv, NEW r \in Runners, NEW step, Moves(r, step) PROVE Core'
<1> USE LifecycleAssumption DEF LifeInv, Core, Types, Moves, threads, Running, Runners
<1>1. FreshHeld'
  BY DEF FreshHeld, StartSteps
<1>2. WorkersInside'
  BY DEF WorkersInside, StopSteps, EndSteps
<1>3. AloneInDestructor'
  BY DEF AloneInDestructor, InDestructor, StopSteps, EndSteps
<1>4. Running' => OneJoin'
  BY DEF OneJoin
<1>5. WorkerOwned'
  BY DEF WorkerOwned, ThreadOwned
<1> QED
  BY <1>1, <1>2, <1>3, <1>4, <1>5

(* start() *)
LEMMA StartPreserves == ASSUME LifeInv, NEW a \in Apps, NEW w, Start(a, w) PROVE Core'
  BY LifecycleAssumption
  DEF LifeInv, Core, Types, Start, At, Goto, flags, threads, Running, Runners, FreshHeld,
      WorkersInside, AloneInDestructor, InDestructor, OneJoin, WorkerOwned, ThreadOwned,
      StartSteps, StopSteps, EndSteps

LEMMA StartStepPreserves == ASSUME LifeInv, NEW a \in Apps, StartStep(a) PROVE Core'
<1> USE LifecycleAssumption
    DEF LifeInv, Core, Types, At, Goto, flags, threads, Running, Runners, StartSteps, StopSteps,
        EndSteps
<1>1. CASE StartMark(a)
  BY <1>1, MovesPreserve DEF StartMark, Moves
<1>2. CASE StartReset(a)
  BY <1>2, MovesPreserve DEF StartReset, Moves
<1>3. CASE StartConnect(a)
  BY <1>3, MovesPreserve DEF StartConnect, Moves
<1>4. CASE StartSpawn(a)
  <2> USE <1>4 DEF StartSpawn
  <2>1. FreshHeld' /\ WorkersInside'
    BY DEF FreshHeld, WorkersInside
  <2>2. AloneInDestructor'
    BY DEF AloneInDestructor, InDestructor
  <2>3. OneJoin'
    BY DEF OneJoin
  <2>4. WorkerOwned'
    BY DEF WorkerOwned, ThreadOwned, FreshHeld
  <2> QED
    BY <2>1, <2>2, <2>3, <2>4
<1>5. CASE StartStore(a)
  <2> USE <1>5 DEF StartStore, ThreadOwned
  <2>1. FreshHeld' /\ WorkersInside'
    BY DEF FreshHeld, WorkersInside
  <2>2. AloneInDestructor'
    BY DEF AloneInDestructor, InDestructor
  <2>3. Running' => OneJoin'
    <3>1. fresh[a] # NoThread
      BY DEF FreshHeld
    <3> QED
      BY <3>1 DEF OneJoin
  <2>4. WorkerOwned'
    BY DEF WorkerOwned, FreshHeld
  <2> QED
    BY <2>1, <2>2, <2>3, <2>4
<1> QED
  BY <1>1, <1>2, <1>3, <1>4, <1>5 DEF StartStep

(* worker() *)
LEMMA LoopStepPreserves == ASSUME LifeInv, NEW r \in Runners, LoopStep(r) PROVE Core'
<1> USE LifecycleAssumption
    DEF LifeInv, Types, At, Goto, flags, threads, Moves, StartSteps, StopSteps, EndSteps,
        LeaveByException
<1>1. CASE Connect(r)
  BY <1>1, MovesPreserve DEF Connect
<1>2. CASE Bind(r)
  BY <1>2, MovesPreserve DEF Bind
<1>3. CASE LoopCheck(r)
  BY <1>3, MovesPreserve DEF LoopCheck
<1>4. CASE Poll(r)
  BY <1>4, MovesPreserve DEF Poll
<1>5. CASE Catch(r)
  BY <1>5, MovesPreserve DEF Catch
<1>6. CASE Assign(r)
  BY <1>6, MovesPreserve DEF Assign
<1> QED
  BY <1>1, <1>2, <1>3, <1>4, <1>5, <1>6 DEF LoopStep

-----------------------------------------------------------------------------
(* stop(), from outside or from a callback *)
LEMMA StopPreserves == ASSUME LifeInv, NEW r \in Runners, Stop(r) PROVE Core'
<1> USE LifecycleAssumption
    DEF LifeInv, Core, Types, Stop, StopCallers, Goto, flags, threads, Running, Runners
<1>1. FreshHeld' /\ WorkersInside'
  BY DEF FreshHeld, WorkersInside, StartSteps, StopSteps, EndSteps
<1>2. AloneInDestructor'
  BY DEF AloneInDestructor, InDestructor, StopSteps, EndSteps
<1>3. OneJoin' /\ WorkerOwned'
  BY DEF OneJoin, WorkerOwned, ThreadOwned
<1> QED
  BY <1>1, <1>2, <1>3

LEMMA StopStepPreserves == ASSUME LifeInv, NEW r \in Runners, StopStep(r) PROVE Core'
<1> USE LifecycleAssumption
    DEF LifeInv, Types, At, Goto, flags, threads, Running, Runners, StartSteps, StopSteps,
        EndSteps
<1>1. CASE StopSet(r)
  BY <1>1, MovesPreserve DEF StopSet, Moves
<1>2. CASE StopJoin(r) /\ join' # join
  <2>1. /\ pc[r] = "join" /\ join = "joinable" /\ join' = "joining" /\ life' = life
        /\ worker_thread # NoThread /\ worker_thread # r
        /\ pc' = [pc EXCEPT ![r] = "waiting"]
        /\ UNCHANGED <<ret, worker_thread, fresh>>
    BY <1>2 DEF StopJoin
  <2> USE <2>1 DEF Core
  <2>2. FreshHeld' /\ WorkersInside'
    BY DEF FreshHeld, WorkersInside
  <2>3. AloneInDestructor'
    BY DEF AloneInDestructor, InDestructor
  <2>4. OneJoin'
    BY <1>2 DEF StopJoin, OneJoin
  <2>5. WorkerOwned'
    BY <1>2 DEF StopJoin, WorkerOwned, ThreadOwned
  <2> QED
    BY <2>2, <2>3, <2>4, <2>5
<1>3. CASE StopJoin(r) /\ join' = join
  <2>1. \/ \E step \in {"idle", "catch", "clear"} : Moves(r, step)
        \/ ret[r] = "close" /\ life' = "aborted" /\ UNCHANGED <<pc, ret, threads>>
    BY <1>3 DEF StopJoin, StopThrows, LeaveByException, Moves
  <2>2. CASE life' = "aborted" /\ UNCHANGED <<pc, ret, threads>>
    BY <2>2, <1>3
    DEF StopJoin, Core, FreshHeld, WorkersInside, AloneInDestructor, InDestructor, OneJoin,
        WorkerOwned
  <2> QED
    BY <2>1, <2>2, MovesPreserve
<1>4. CASE JoinDone(r)
  <2> USE <1>4 DEF JoinDone, Finished, Core
  <2>1. FreshHeld' /\ WorkersInside'
    BY DEF FreshHeld, WorkersInside
  <2>2. AloneInDestructor'
    BY DEF AloneInDestructor, InDestructor
  <2>3. OneJoin'
    BY DEF OneJoin
  <2>4. WorkerOwned'
    BY DEF WorkerOwned, ThreadOwned
  <2> QED
    BY <2>1, <2>2, <2>3, <2>4
<1>5. CASE StopClear(r)
  <2>1. Moves(r, ret[r])
    BY <1>5 DEF StopClear, Moves
  <2> QED
    BY <2>1, MovesPreserve
<1> QED
  BY <1>1, <1>2, <1>3, <1>4, <1>5 DEF StopStep

(* The destructor begins when no thread is inside, and goes on alone.      *)
LEMMA DestroyPreserves == ASSUME LifeInv, NEW a \in Apps, Destroy(a) PROVE Core'
  BY LifecycleAssumption
  DEF LifeInv, Core, Types, Destroy, Goto, flags, threads, Running, Runners, FreshHeld,
      WorkersInside, AloneInDestructor, InDestructor, OneJoin, WorkerOwned, ThreadOwned,
      StartSteps, StopSteps, EndSteps

LEMMA EndPreserves == ASSUME LifeInv, NEW a \in Apps, EndStep(a) PROVE Core'
<1> USE LifecycleAssumption
    DEF LifeInv, Core, Types, At, Goto, flags, threads, Running, Runners, EndSteps
<1>1. /\ Running /\ pc[a] \in EndSteps /\ UNCHANGED <<ret, threads>>
      /\ \/ \E step \in {"sockets", "members"} : pc' = [pc EXCEPT ![a] = step] /\ life' = life
         \/ UNCHANGED pc /\ life' \in {"aborted", "destroyed"}
  BY DEF EndStep, Logout, CloseSockets, DestroyMembers
<1>2. FreshHeld'
  BY <1>1 DEF FreshHeld, StartSteps
<1>3. WorkersInside'
  BY <1>1 DEF WorkersInside, StopSteps
<1>4. AloneInDestructor'
  BY <1>1 DEF AloneInDestructor, InDestructor, StopSteps
<1>5. Running' => OneJoin'
  BY <1>1 DEF OneJoin
<1>6. WorkerOwned'
  BY <1>1 DEF WorkerOwned, ThreadOwned
<1> QED
  BY <1>2, <1>3, <1>4, <1>5, <1>6

LEMMA LifeInvStep == LifeInv /\ [Next]_vars => LifeInv'
<1> SUFFICES ASSUME LifeInv, [Next]_vars PROVE Core'
  BY TypesStep DEF LifeInv
<1>1. CASE UNCHANGED vars
  BY <1>1 DEF vars, LifeInv, Core, FreshHeld, WorkersInside, AloneInDestructor, InDestructor,
              OneJoin, Running, WorkerOwned, ThreadOwned
<1> QED
  BY <1>1, StartPreserves, StartStepPreserves, LoopStepPreserves, StopPreserves,
     StopStepPreserves, DestroyPreserves, EndPreserves DEF Next, Over

LEMMA Invariance == Spec => []LifeInv
  BY LifeInvInit, LifeInvStep, PTL DEF Spec

-----------------------------------------------------------------------------
(* Every variable has its type, and std::thread::join() is executed by at  *)
(* most one stop() at a time: a second one throws.                         *)
THEOREM LifecycleTyped == Spec => []TypeOK
<1>1. LifeInv => TypeOK
  <2> SUFFICES ASSUME LifeInv PROVE TypeOK
    OBVIOUS
  <2> DEFINE Waiting == {r \in Runners : pc[r] = "waiting"}
  <2>1. CASE \E r \in Runners : pc[r] = "waiting"
    <3>1. PICK r \in Runners : pc[r] = "waiting"
      BY <2>1
    <3>2. Running => Waiting = {r}
      BY <3>1 DEF LifeInv, Core, OneJoin
    <3>3. Cardinality({r}) = 1
      BY FS_Singleton
    <3> QED
      BY <2>1, <3>2, <3>3 DEF LifeInv, Core, OneJoin, Types, Steps, TypeOK
  <2>2. CASE ~\E r \in Runners : pc[r] = "waiting"
    <3>1. Waiting = {}
      BY <2>2
    <3>2. Cardinality({}) = 0
      BY FS_EmptySet
    <3> QED
      BY <2>2, <3>1, <3>2 DEF LifeInv, Core, OneJoin, Types, Steps, TypeOK
  <2> QED
    BY <2>1, <2>2
<1> QED
  BY <1>1, Invariance, PTL

(* No worker thread that still runs is lost, whatever calls race: it is in *)
(* _worker_thread, not joined, or about to be stored there.                *)
THEOREM WorkersOwned == Spec => []WorkerOwned
<1>1. LifeInv => WorkerOwned
  BY DEF LifeInv, Core
<1> QED
  BY <1>1, Invariance, PTL

-----------------------------------------------------------------------------
(* One thread calls the client, and no callback does; it may start it      *)
(* either way and again, and any socket may fail.                          *)
OneCaller == (\A a, b \in Apps : a = b) /\ ~CallbackStops

(* Where the application thread is says whether the client counts as       *)
(* started, and when no worker runs.                                       *)
CallsQuietly(a) ==
  /\ pc[a] \in StopSteps => ret[a] \in {"idle", "close"}
  /\ pc[a] \in {"mark"} \cup EndSteps => ~started
  /\ pc[a] \in (StartSteps \ {"mark"}) \cup LoopSteps \cup StopSteps => started
  /\ pc[a] \in {"reset", "connect", "spawn", "clear"} \cup LoopSteps =>
       \A w \in Workers : pc[w] = "idle"
  /\ pc[a] = "store" => \A w \in Workers : pc[w] # "idle" => w = fresh[a]

QuietInv ==
  /\ StoppedMeansQuiet
  /\ \A w \in Workers : pc[w] \in LoopSteps \cup {"idle"}
  /\ \A a \in Apps : CallsQuietly(a)

LEMMA QuietInit == Init => QuietInv
BY LifecycleAssumption
DEF Init, QuietInv, CallsQuietly, StoppedMeansQuiet, InLoop, Runners, StartSteps, LoopSteps, StopSteps,
    EndSteps

(* No worker runs while the client counts as stopped. *)
LEMMA WorkersQuiet == ASSUME QuietInv, ~started, NEW w \in Workers PROVE pc[w] = "idle"
BY DEF QuietInv, StoppedMeansQuiet, InLoop, Runners

LEMMA StartQuiet ==
  ASSUME OneCaller, LifeInv, QuietInv, NEW a \in Apps,
         StartStep(a) \/ \E v \in WaitModes : Start(a, v)
  PROVE  QuietInv'
<1> USE LifecycleAssumption DEF LifeInv, Types, At, Goto, flags, threads, Runners
<1>1. CASE StartMark(a) \/ \E v \in WaitModes : Start(a, v)
  <2>1. /\ ~started /\ pc[a] \in {"idle", "mark"} /\ started' = (pc[a] = "mark")
        /\ pc' = [pc EXCEPT ![a] = IF pc[a] = "idle" THEN "mark" ELSE "reset"]
        /\ UNCHANGED <<ret, fresh>>
    BY <1>1 DEF StartMark, Start, QuietInv, CallsQuietly
  <2>2. \A w \in Workers : pc[w] = "idle" /\ pc'[w] = "idle"
    BY <2>1, WorkersQuiet
  <2>3. \A b \in Apps : CallsQuietly(b)'
    BY <2>1, <2>2 DEF OneCaller, CallsQuietly, StartSteps, LoopSteps, StopSteps, EndSteps
  <2>4. StoppedMeansQuiet'
    BY <2>1, <2>2 DEF OneCaller, StoppedMeansQuiet, InLoop, LoopSteps, StopSteps, EndSteps
  <2> QED
    BY <2>2, <2>3, <2>4 DEF QuietInv
<1>2. CASE StartReset(a) \/ StartConnect(a)
  <2>1. /\ started /\ UNCHANGED <<started, ret, fresh>> /\ \A w \in Workers : pc[w] = "idle"
        /\ \E step \in {"connect", "open", "spawn", "idle"} : pc' = [pc EXCEPT ![a] = step]
    BY <1>2 DEF StartReset, StartConnect, QuietInv, CallsQuietly, StartSteps
  <2>2. \A b \in Apps : CallsQuietly(b)'
    BY <2>1 DEF OneCaller, CallsQuietly, StartSteps, LoopSteps, StopSteps, EndSteps
  <2> QED
    BY <2>1, <2>2 DEF QuietInv, StoppedMeansQuiet
<1>3. CASE StartSpawn(a)
  <2>1. started /\ UNCHANGED <<started, ret>> /\ \A w \in Workers : pc[w] = "idle"
    BY <1>3 DEF StartSpawn, QuietInv, CallsQuietly, StartSteps
  <2>2. PICK w \in Workers : /\ pc' = [pc EXCEPT ![a] = "store", ![w] = "open"]
                             /\ fresh' = [fresh EXCEPT ![a] = w]
    BY <1>3 DEF StartSpawn
  <2>3. \A b \in Apps : CallsQuietly(b)'
    BY <2>1, <2>2 DEF OneCaller, CallsQuietly, StartSteps, LoopSteps, StopSteps, EndSteps
  <2>4. \A u \in Workers : pc'[u] \in LoopSteps \cup {"idle"}
    BY <2>1, <2>2 DEF LoopSteps
  <2> QED
    BY <2>1, <2>3, <2>4 DEF QuietInv, StoppedMeansQuiet
<1>4. CASE StartStore(a)
  <2>1. /\ started /\ UNCHANGED <<started, ret>> /\ pc' = [pc EXCEPT ![a] = "idle"]
        /\ fresh' = [fresh EXCEPT ![a] = NoThread]
    BY <1>4 DEF StartStore, QuietInv, CallsQuietly, StartSteps
  <2>2. \A b \in Apps : CallsQuietly(b)'
    BY <2>1 DEF OneCaller, CallsQuietly, StartSteps, LoopSteps, StopSteps, EndSteps
  <2> QED
    BY <2>1, <2>2 DEF QuietInv, StoppedMeansQuiet
<1> QED
  BY <1>1, <1>2, <1>3, <1>4 DEF StartStep

(* A thread in the loop stays there or leaves the client. *)
LEMMA LoopQuiet ==
  ASSUME OneCaller, LifeInv, QuietInv, NEW r \in Runners, LoopStep(r)
  PROVE  QuietInv'
<1> USE LifecycleAssumption DEF LifeInv, Types, At, Goto, flags, threads, Runners
<1>1. /\ pc[r] \in LoopSteps /\ UNCHANGED <<ret, fresh, started>>
      /\ \E step \in LoopSteps \cup {"idle"} : pc' = [pc EXCEPT ![r] = step]
  BY DEF LoopStep, Connect, Bind, LoopCheck, Poll, Catch, Assign, LeaveByException, LoopSteps
<1>2. started
  BY <1>1 DEF QuietInv, StoppedMeansQuiet, InLoop
<1>3. \A b \in Apps : CallsQuietly(b)'
  <2> SUFFICES ASSUME NEW b \in Apps PROVE CallsQuietly(b)'
    OBVIOUS
  <2>1. CallsQuietly(b)
    BY DEF QuietInv
  <2>2. CASE r = b
    <3>1. \A w \in Workers : pc[w] = "idle" /\ pc'[w] = "idle"
      BY <1>1, <2>1, <2>2 DEF CallsQuietly
    <3> QED
      BY <1>1, <1>2, <2>2, <3>1 DEF CallsQuietly, LoopSteps, StartSteps, StopSteps, EndSteps
  <2>3. CASE r # b
    <3>1. pc'[b] = pc[b] /\ \A w \in Workers : pc'[w] # "idle" => pc[w] # "idle"
      BY <1>1, <2>3 DEF LoopSteps
    <3> QED
      BY <1>1, <2>1, <3>1 DEF CallsQuietly
  <2> QED
    BY <2>2, <2>3
<1> QED
  BY <1>1, <1>2, <1>3 DEF QuietInv, StoppedMeansQuiet

LEMMA StopQuiet ==
  ASSUME OneCaller, LifeInv, QuietInv, NEW r \in Runners, Stop(r) \/ StopStep(r)
  PROVE  QuietInv'
<1> USE LifecycleAssumption DEF LifeInv, Types, At, Goto, flags, threads, Runners
<1>1. r \in Apps /\ started /\ UNCHANGED fresh
  <2>1. CASE Stop(r)
    BY <2>1 DEF Stop, StopCallers, OneCaller
  <2>2. CASE StopStep(r)
    BY <2>2 DEF StopStep, StopSet, StopJoin, JoinDone, StopClear, QuietInv, CallsQuietly,
                LoopSteps, StopSteps, EndSteps
  <2> QED
    BY <2>1, <2>2
<1>2. CASE Stop(r) \/ StopSet(r)
  <2>1. /\ UNCHANGED started
        /\ \/ ret' = [ret EXCEPT ![r] = "idle"] /\ pc' = [pc EXCEPT ![r] = "set"]
           \/ UNCHANGED ret /\ pc[r] = "set" /\ pc' = [pc EXCEPT ![r] = "join"]
    BY <1>2 DEF Stop, StopCallers, StopSet, OneCaller
  <2>2. \A b \in Apps : CallsQuietly(b)'
    BY <1>1, <2>1 DEF OneCaller, QuietInv, CallsQuietly, StartSteps, LoopSteps, StopSteps, EndSteps
  <2> QED
    BY <1>1, <2>1, <2>2 DEF QuietInv, StoppedMeansQuiet
<1>3. CASE StopJoin(r)
  <2>1. pc[r] = "join" /\ UNCHANGED <<started, ret>> /\ ret[r] \in {"idle", "close"}
    BY <1>1, <1>3 DEF StopJoin, QuietInv, CallsQuietly, StopSteps, EndSteps
  <2>2. \/ worker_thread = NoThread /\ pc' = [pc EXCEPT ![r] = "clear"]
        \/ pc' = [pc EXCEPT ![r] = "waiting"] \/ pc' = [pc EXCEPT ![r] = "idle"]
        \/ UNCHANGED pc
    BY <1>3, <2>1 DEF StopJoin, StopThrows, LeaveByException
  <2>3. worker_thread = NoThread => \A w \in Workers : pc[w] = "idle"
    <3>1. Running /\ fresh[r] = NoThread
      BY <1>1, <1>3, <2>1 DEF StopJoin, Core, FreshHeld
    <3> QED
      BY <1>1, <3>1 DEF Core, WorkerOwned, OneCaller
  <2>4. \A b \in Apps : CallsQuietly(b)'
    BY <1>1, <2>1, <2>2, <2>3
    DEF OneCaller, QuietInv, CallsQuietly, StartSteps, LoopSteps, StopSteps, EndSteps
  <2> QED
    BY <1>1, <2>1, <2>2, <2>4 DEF QuietInv, StoppedMeansQuiet
<1>4. CASE JoinDone(r)
  <2>1. /\ pc[r] = "waiting" /\ UNCHANGED <<started, ret>> /\ pc[worker_thread] = "idle"
        /\ pc' = [pc EXCEPT ![r] = "clear"] /\ Running
    BY <1>4 DEF JoinDone, Finished
  <2>2. \A w \in Workers : pc[w] = "idle"
    <3>1. fresh[r] = NoThread
      BY <1>1, <2>1 DEF Core, FreshHeld
    <3> QED
      BY <1>1, <2>1, <3>1 DEF Core, WorkerOwned, OneCaller
  <2>3. \A b \in Apps : CallsQuietly(b)'
    BY <1>1, <2>1, <2>2
    DEF OneCaller, QuietInv, CallsQuietly, StartSteps, LoopSteps, StopSteps, EndSteps
  <2> QED
    BY <1>1, <2>1, <2>3 DEF QuietInv, StoppedMeansQuiet
<1>5. CASE StopClear(r)
  <2>1. /\ pc[r] = "clear" /\ ~started' /\ UNCHANGED ret /\ ret[r] \in {"idle", "close"}
        /\ pc' = [pc EXCEPT ![r] = ret[r]] /\ \A w \in Workers : pc[w] = "idle"
    BY <1>1, <1>5 DEF StopClear, QuietInv, CallsQuietly, StopSteps, EndSteps
  <2>2. \A b \in Apps : b = r
    BY <1>1 DEF OneCaller
  <2>3. \A q \in Runners : pc'[q] \in {"idle", "close"}
    BY <1>1, <2>1, <2>2
  <2> QED
    BY <1>1, <2>1, <2>2, <2>3
    DEF QuietInv, CallsQuietly, StoppedMeansQuiet, InLoop, StartSteps, LoopSteps, StopSteps, EndSteps
<1> QED
  BY <1>2, <1>3, <1>4, <1>5 DEF StopStep

LEMMA DestroyQuiet ==
  ASSUME OneCaller, LifeInv, QuietInv, NEW a \in Apps, Destroy(a) \/ EndStep(a)
  PROVE  QuietInv'
<1> USE LifecycleAssumption DEF LifeInv, Types, At, Goto, flags, threads, Runners
<1>1. CASE Destroy(a)
  <2>1. /\ pc[a] = "idle" /\ UNCHANGED <<started, fresh>> /\ ret' = [ret EXCEPT ![a] = "close"]
        /\ pc' = [pc EXCEPT ![a] = IF started THEN "set" ELSE "close"]
    BY <1>1 DEF Destroy
  <2>2. \A b \in Apps : CallsQuietly(b)'
    BY <2>1 DEF OneCaller, QuietInv, CallsQuietly, StartSteps, LoopSteps, StopSteps, EndSteps
  <2>3. StoppedMeansQuiet'
    BY <2>1 DEF OneCaller, QuietInv, StoppedMeansQuiet, InLoop, LoopSteps, StopSteps
  <2> QED
    BY <2>1, <2>2, <2>3 DEF QuietInv
<1>2. CASE EndStep(a)
  <2>1. /\ pc[a] \in EndSteps /\ UNCHANGED <<started, fresh, ret>>
        /\ UNCHANGED pc \/ \E step \in {"sockets", "members"} : pc' = [pc EXCEPT ![a] = step]
    BY <1>2 DEF EndStep, Logout, CloseSockets, DestroyMembers, EndSteps
  <2>2. ~started
    BY <2>1 DEF QuietInv, CallsQuietly
  <2>3. \A w \in Workers : pc[w] = "idle" /\ pc'[w] = "idle"
    BY <2>1, <2>2, WorkersQuiet
  <2>4. \A b \in Apps : CallsQuietly(b)'
    BY <2>1, <2>2, <2>3 DEF OneCaller, CallsQuietly, StartSteps, LoopSteps, StopSteps, EndSteps
  <2>5. StoppedMeansQuiet'
    BY <2>1, <2>3 DEF OneCaller, StoppedMeansQuiet, InLoop, LoopSteps, StopSteps, EndSteps
  <2> QED
    BY <2>3, <2>4, <2>5 DEF QuietInv
<1> QED
  BY <1>1, <1>2

LEMMA QuietStep == ASSUME OneCaller, LifeInv, QuietInv, [Next]_vars PROVE QuietInv'
<1>1. CASE UNCHANGED vars
  BY <1>1 DEF vars, QuietInv, CallsQuietly, StoppedMeansQuiet, InLoop
<1> QED
  BY <1>1, StartQuiet, LoopQuiet, StopQuiet, DestroyQuiet DEF Next, Over

(* There is one worker at a time. *)
LEMMA OneWorkerRuns ==
  ASSUME OneCaller, LifeInv, QuietInv, Running, NEW v \in Workers, NEW w \in Workers,
         pc[v] # "idle", pc[w] # "idle"
  PROVE  v = w
<1>1. CASE \E a \in Apps : pc[a] = "store"
  BY <1>1 DEF QuietInv, CallsQuietly
<1>2. CASE \A a \in Apps : pc[a] # "store"
  <2>1. \A a \in Apps : fresh[a] = NoThread
    BY <1>2 DEF LifeInv, Core, FreshHeld, Runners
  <2> QED
    BY <2>1, LifecycleAssumption DEF LifeInv, Core, WorkerOwned
<1> QED
  BY <1>1, <1>2

LEMMA Quiet == ASSUME OneCaller PROVE Spec => [](LifeInv /\ QuietInv)
<1>1. Init => LifeInv /\ QuietInv
  BY LifeInvInit, QuietInit
<1>2. LifeInv /\ QuietInv /\ [Next]_vars => (LifeInv /\ QuietInv)'
  BY LifeInvStep, QuietStep
<1> QED
  BY <1>1, <1>2, PTL DEF Spec

(* While the client counts as stopped no thread is in the loop: whatever   *)
(* failed and however often the client was started, the worker a start()   *)
(* created has ended before _started falls.                                *)
THEOREM QuietWhenStopped == ASSUME OneCaller PROVE Spec => []StoppedMeansQuiet
<1>1. QuietInv => StoppedMeansQuiet
  BY DEF QuietInv
<1> QED
  BY <1>1, Quiet, PTL

-----------------------------------------------------------------------------
(* Once the sockets are closed the thread stays in ~Impl. *)
ClosedLast == closed => ~started /\ \A a \in Apps : pc[a] = "members"

(* A client that is stopped, or on its way from there to a new thread or   *)
(* back, owns no thread.                                                   *)
OwnedWhileStarted ==
  ~started \/ (\E a \in Apps : pc[a] \in StartSteps \cup {"clear"}) => ~ThreadOwned

SoleInv == ClosedLast /\ OwnedWhileStarted

(* The steps before and after which the thread object is not looked at.    *)
LEMMA LeavesOwner ==
  ASSUME OneCaller, LifeInv, QuietInv, SoleInv, NEW r \in Runners, NEW step,
         Running, pc[r] \notin EndSteps, pc' = [pc EXCEPT ![r] = step],
         UNCHANGED <<started, worker_thread, join, closed>>,
         r \in Apps /\ step \in StartSteps \cup {"clear"} =>
           pc[r] \in StartSteps \/ ~started \/ ~ThreadOwned
  PROVE  SoleInv'
<1> USE LifecycleAssumption DEF LifeInv, Types, Runners
<1>1. ClosedLast'
  <2> SUFFICES ASSUME closed PROVE ~started /\ \A a \in Apps : pc'[a] = "members"
    BY DEF ClosedLast
  <2>1. ~started /\ \A a \in Apps : pc[a] = "members"
    BY DEF SoleInv, ClosedLast
  <2> QED
    BY <2>1 DEF EndSteps
<1>2. OwnedWhileStarted'
  BY DEF SoleInv, OwnedWhileStarted, ThreadOwned, OneCaller
<1> QED
  BY <1>1, <1>2 DEF SoleInv

LEMMA StartSole ==
  ASSUME OneCaller, LifeInv, QuietInv, SoleInv, NEW a \in Apps,
         StartStep(a) \/ \E v \in WaitModes : Start(a, v)
  PROVE  SoleInv'
<1> USE LifecycleAssumption DEF LifeInv, Types, At, Goto, flags, threads, Runners
<1>1. CASE StartMark(a)
  <2>1. ~ThreadOwned /\ \A b \in Apps : b = a
    BY <1>1 DEF StartMark, SoleInv, OwnedWhileStarted, StartSteps, OneCaller
  <2> QED
    BY <1>1, <2>1 DEF StartMark, SoleInv, ClosedLast, OwnedWhileStarted, ThreadOwned
<1>2. CASE StartStore(a)
  <2>1. started /\ started' /\ pc[a] = "store" /\ pc' = [pc EXCEPT ![a] = "idle"]
        /\ closed' = closed
    BY <1>2 DEF StartStore, QuietInv, CallsQuietly, StartSteps
  <2> QED
    BY <2>1 DEF OneCaller, SoleInv, ClosedLast, OwnedWhileStarted, StartSteps
<1>3. CASE StartSpawn(a)
  <2>1. /\ started /\ pc[a] = "spawn" /\ ~ThreadOwned
        /\ UNCHANGED <<started, worker_thread, join, closed>>
    BY <1>3 DEF StartSpawn, QuietInv, CallsQuietly, SoleInv, OwnedWhileStarted, StartSteps
  <2> QED
    BY <2>1 DEF SoleInv, ClosedLast, OwnedWhileStarted, ThreadOwned
<1>4. CASE StartReset(a) \/ StartConnect(a) \/ \E v \in WaitModes : Start(a, v)
  <2>1. /\ Running /\ pc[a] \in {"idle", "reset", "connect"} /\ (pc[a] = "idle" => ~started)
        /\ \E step \in StartSteps \cup {"open", "idle"} : pc' = [pc EXCEPT ![a] = step]
        /\ UNCHANGED <<started, worker_thread, join, closed>>
    BY <1>4 DEF StartReset, StartConnect, Start, StartSteps
  <2>2. pc[a] \notin EndSteps /\ (pc[a] \in StartSteps \/ ~started)
    BY <2>1 DEF StartSteps, EndSteps
  <2> QED
    BY <2>1, <2>2, LeavesOwner
<1> QED
  BY <1>1, <1>2, <1>3, <1>4 DEF StartStep

LEMMA LoopSole ==
  ASSUME OneCaller, LifeInv, QuietInv, SoleInv, NEW r \in Runners, LoopStep(r)
  PROVE  SoleInv'
<1>1. /\ Running /\ pc[r] \in LoopSteps /\ UNCHANGED <<started, worker_thread, join, closed>>
      /\ \E step \in LoopSteps \cup {"idle"} : pc' = [pc EXCEPT ![r] = step]
  BY DEF LoopStep, Connect, Bind, LoopCheck, Poll, Catch, Assign, LeaveByException, LoopSteps,
         At, Goto, flags, threads
<1>2. pc[r] \notin EndSteps /\ (LoopSteps \cup {"idle"}) \cap (StartSteps \cup {"clear"}) = {}
  BY <1>1 DEF LoopSteps, EndSteps, StartSteps
<1> QED
  BY <1>1, <1>2, LeavesOwner

LEMMA StopSole ==
  ASSUME OneCaller, LifeInv, QuietInv, SoleInv, NEW r \in Runners, Stop(r) \/ StopStep(r)
  PROVE  SoleInv'
<1> USE LifecycleAssumption DEF LifeInv, Types, At, Goto, flags, threads, Runners
<1>1. r \in Apps /\ started
  <2>1. CASE Stop(r)
    BY <2>1 DEF Stop, StopCallers, OneCaller
  <2>2. CASE StopStep(r)
    BY <2>2 DEF StopStep, StopSet, StopJoin, JoinDone, StopClear, QuietInv, CallsQuietly,
                LoopSteps, StopSteps
  <2> QED
    BY <2>1, <2>2
<1>2. CASE Stop(r) \/ StopSet(r)
  <2>1. /\ Running /\ pc[r] \in {"idle", "set"}
        /\ UNCHANGED <<started, worker_thread, join, closed>>
        /\ \E step \in {"set", "join"} : pc' = [pc EXCEPT ![r] = step]
    BY <1>2 DEF Stop, StopCallers, StopSet, OneCaller
  <2>2. pc[r] \notin EndSteps
    BY <2>1 DEF EndSteps
  <2> QED
    BY <2>1, <2>2, LeavesOwner DEF StartSteps
<1>3. CASE StopJoin(r)
  <2>1. /\ Running /\ pc[r] = "join" /\ UNCHANGED <<started, worker_thread, closed>>
        /\ \A a \in Apps : a = r
    BY <1>1, <1>3 DEF StopJoin, OneCaller
  <2>2. \/ worker_thread = NoThread /\ pc' = [pc EXCEPT ![r] = "clear"]
        \/ pc' = [pc EXCEPT ![r] = "waiting"]
        \/ pc' \in {[pc EXCEPT ![r] = "idle"], pc}
    BY <1>1, <1>3, <2>1
    DEF StopJoin, StopThrows, LeaveByException, QuietInv, CallsQuietly, StopSteps
  <2>3. ~closed
    BY <1>1 DEF SoleInv, ClosedLast
  <2>4. OwnedWhileStarted'
    BY <1>1, <2>1, <2>2 DEF OwnedWhileStarted, ThreadOwned, StartSteps
  <2> QED
    BY <2>1, <2>3, <2>4 DEF SoleInv, ClosedLast
<1>4. CASE JoinDone(r)
  BY <1>1, <1>4 DEF JoinDone, SoleInv, ClosedLast, OwnedWhileStarted, ThreadOwned
<1>5. CASE StopClear(r)
  <2>1. ~ThreadOwned /\ UNCHANGED <<worker_thread, join, closed>> /\ ~closed
    BY <1>1, <1>5 DEF StopClear, SoleInv, ClosedLast, OwnedWhileStarted
  <2> QED
    BY <2>1 DEF SoleInv, ClosedLast, OwnedWhileStarted, ThreadOwned
<1> QED
  BY <1>2, <1>3, <1>4, <1>5 DEF StopStep

LEMMA DestroySole ==
  ASSUME OneCaller, LifeInv, QuietInv, SoleInv, NEW a \in Apps, Destroy(a) \/ EndStep(a)
  PROVE  SoleInv'
<1> USE LifecycleAssumption DEF LifeInv, Types, At, Goto, flags, threads, Runners
<1>1. CASE Destroy(a)
  <2>1. /\ Running /\ pc[a] = "idle" /\ UNCHANGED <<started, worker_thread, join, closed>>
        /\ \E step \in {"set", "close"} : pc' = [pc EXCEPT ![a] = step]
    BY <1>1 DEF Destroy, Running
  <2> QED
    BY <2>1, LeavesOwner DEF EndSteps, StartSteps
<1>2. CASE EndStep(a)
  <2>1. /\ pc[a] \in EndSteps /\ UNCHANGED <<started, worker_thread, join>>
        /\ \A b \in Apps : b = a
    BY <1>2 DEF EndStep, Logout, CloseSockets, DestroyMembers, EndSteps, OneCaller
  <2>2. ~started
    BY <2>1 DEF QuietInv, CallsQuietly
  <2>3. OwnedWhileStarted'
    BY <2>1, <2>2 DEF SoleInv, OwnedWhileStarted, ThreadOwned
  <2>4. closed' => pc'[a] = "members"
    BY <1>2, <2>1
    DEF EndStep, Logout, CloseSockets, DestroyMembers, SoleInv, ClosedLast
  <2> QED
    BY <2>1, <2>2, <2>3, <2>4 DEF SoleInv, ClosedLast
<1> QED
  BY <1>1, <1>2

LEMMA Sole == ASSUME OneCaller PROVE Spec => [](LifeInv /\ QuietInv /\ SoleInv)
<1>1. Init => SoleInv
  BY DEF Init, SoleInv, ClosedLast, OwnedWhileStarted, ThreadOwned
<1>2. LifeInv /\ QuietInv /\ SoleInv /\ [Next]_vars => SoleInv'
  <2>1. ASSUME SoleInv, UNCHANGED vars PROVE SoleInv'
    BY <2>1 DEF vars, SoleInv, ClosedLast, OwnedWhileStarted, ThreadOwned
  <2> QED
    BY <2>1, StartSole, LoopSole, StopSole, DestroySole DEF Next, Over
<1> QED
  BY <1>1, <1>2, Quiet, PTL DEF Spec

(* No start() replaces a thread that can still be joined, and ~Impl leaves *)
(* none: the client's thread objects never end the process, started either *)
(* way and again, whatever failed in between.                              *)
THEOREM JoinedBeforeLost == ASSUME OneCaller PROVE Spec => []NoJoinableDestroyed
<1>1. QuietInv /\ SoleInv => NoJoinableDestroyed
  <2> SUFFICES ASSUME QuietInv, SoleInv, NEW a \in Apps, At(a, "store") \/ At(a, "members")
               PROVE  ~ThreadOwned
    BY DEF NoJoinableDestroyed
  <2>1. pc[a] = "store" \/ ~started
    BY DEF At, QuietInv, CallsQuietly, EndSteps
  <2> QED
    BY <2>1 DEF SoleInv, OwnedWhileStarted, StartSteps
<1> QED
  BY <1>1, Sole, PTL

(* A stop() that throws leaves no loop behind: the thread it is refused    *)
(* has ended, and no other was created since.                              *)
THEOREM RefusedWhenQuiet == ASSUME OneCaller PROVE Spec => []RefusedOnlyWhenQuiet
<1>1. LifeInv /\ QuietInv => RefusedOnlyWhenQuiet
  <2> SUFFICES ASSUME LifeInv, QuietInv, NEW a \in Apps, At(a, "join"),
                      worker_thread # NoThread, join # "joinable", NEW r \in Runners
               PROVE  ~InLoop(r)
    BY DEF RefusedOnlyWhenQuiet
  <2> USE LifecycleAssumption DEF LifeInv, Core, Types, At, Runners
  <2>1. pc[a] = "join" /\ \A b \in Apps : b = a
    BY DEF OneCaller
  <2>2. \A q \in Runners : pc[q] # "waiting"
    BY <2>1 DEF QuietInv, LoopSteps
  <2>3. ~ThreadOwned
    BY <2>2 DEF OneJoin, ThreadOwned
  <2>4. \A w \in Workers : pc[w] = "idle"
    BY <2>1, <2>3 DEF WorkerOwned, FreshHeld
  <2> QED
    BY <2>1, <2>4 DEF InLoop, QuietInv, CallsQuietly, LoopSteps, StopSteps
<1> QED
  BY <1>1, Quiet, PTL

(* No thread is in the worker loop once ~Impl has closed the sockets.      *)
THEOREM SocketsOutlive == ASSUME OneCaller PROVE Spec => []SocketsOutliveLoop
<1>1. QuietInv /\ SoleInv => SocketsOutliveLoop
  BY DEF QuietInv, SoleInv, ClosedLast, StoppedMeansQuiet, SocketsOutliveLoop
<1> QED
  BY <1>1, Sole, PTL

-----------------------------------------------------------------------------
(* A client that is only ever started with wait = true creates no thread.  *)
Synchronous == FALSE \notin WaitModes

SyncInv ==
  /\ worker_thread = NoThread
  /\ \A w \in Workers : pc[w] = "idle"
  /\ \A a \in Apps : /\ pc[a] \notin {"spawn", "store"}
                     /\ pc[a] \in {"mark", "reset", "connect"} => wait[a]

LEMMA SyncInvStep == ASSUME Synchronous, LifeInv, SyncInv, [Next]_vars PROVE SyncInv'
<1> USE LifecycleAssumption DEF SyncInv, LifeInv, Types, At, Goto, flags, threads, Runners
<1>1. ASSUME NEW a \in Apps, NEW w \in WaitModes, Start(a, w) PROVE SyncInv'
  BY <1>1 DEF Start, Synchronous
<1>2. ASSUME NEW a \in Apps, StartStep(a) PROVE SyncInv'
  BY <1>2 DEF StartStep, StartMark, StartReset, StartConnect, StartSpawn, StartStore
<1>3. ASSUME NEW a \in Apps, Destroy(a) \/ EndStep(a) PROVE SyncInv'
  BY <1>3 DEF Destroy, EndStep, Logout, CloseSockets, DestroyMembers
<1>4. ASSUME NEW r \in Runners, LoopStep(r) PROVE SyncInv'
  <2>1. /\ r \in Apps /\ r \notin Workers /\ UNCHANGED <<wait, worker_thread>>
        /\ \E step \in LoopSteps \cup {"idle"} : pc' = [pc EXCEPT ![r] = step]
    BY <1>4 DEF LoopStep, Connect, Bind, LoopCheck, Poll, Catch, Assign, LeaveByException,
                LoopSteps
  <2> QED
    BY <2>1 DEF LoopSteps
<1>5. ASSUME NEW r \in Runners, Stop(r) \/ StopStep(r) PROVE SyncInv'
  <2>1. /\ r \in Apps /\ r \notin Workers /\ UNCHANGED <<wait, worker_thread>>
        /\ \/ pc' = [pc EXCEPT ![r] = ret[r]]
           \/ \E step \in StopSteps : pc' = [pc EXCEPT ![r] = step]
    BY <1>5 DEF Stop, StopCallers, StopStep, StopSet, StopJoin, JoinDone, StopClear, StopSteps
  <2> QED
    BY <2>1 DEF StopSteps
<1>6. CASE UNCHANGED vars
  BY <1>6 DEF vars
<1> QED
  BY <1>1, <1>2, <1>3, <1>4, <1>5, <1>6 DEF Next, Over

LEMMA Synchrony == ASSUME Synchronous PROVE Spec => [](LifeInv /\ SyncInv)
<1>1. Init => LifeInv /\ SyncInv
  BY LifeInvInit, LifecycleAssumption DEF Init, SyncInv, Runners
<1>2. LifeInv /\ SyncInv /\ [Next]_vars => (LifeInv /\ SyncInv)'
  BY LifeInvStep, SyncInvStep
<1> QED
  BY <1>1, <1>2, PTL DEF Spec

(* No stop() of it throws, whatever fails: there is nothing to join.       *)
THEOREM SynchronousNeverThrows == ASSUME Synchronous PROVE Spec => StopNeverThrows
<1> DEFINE Waits ==
      \A r \in Runners : pc[r] = "join" => pc'[r] \in {"join", "waiting", "clear"} /\ life' = life
<1>1. LifeInv /\ SyncInv /\ [Next]_vars => [Waits]_vars
  <2> SUFFICES ASSUME LifeInv, SyncInv, Next, NEW r \in Runners, pc[r] = "join"
               PROVE  pc'[r] \in {"join", "waiting", "clear"} /\ life' = life
    OBVIOUS
  <2> USE LifecycleAssumption DEF SyncInv, LifeInv, Types, At, Goto, flags, threads, Runners
  <2>1. ASSUME NEW a \in Apps, \/ \E w \in WaitModes : Start(a, w)
                              \/ StartStep(a) \/ Destroy(a)
        PROVE  pc'[r] = pc[r] /\ life' = life
    BY <2>1 DEF StartStep, Start, StartMark, StartReset, StartConnect, StartSpawn, StartStore,
                Destroy
  <2>2. ASSUME NEW a \in Apps, EndStep(a) PROVE FALSE
    <3>1. pc[a] \in EndSteps /\ r # a /\ r \in Apps
      BY <2>2 DEF EndStep, Logout, CloseSockets, DestroyMembers, EndSteps
    <3> QED
      BY <3>1 DEF Core, AloneInDestructor, InDestructor
  <2>3. ASSUME NEW q \in Runners, LoopStep(q) PROVE pc'[r] = pc[r] /\ life' = life
    BY <2>3 DEF LoopStep, Connect, Bind, LoopCheck, Poll, Catch, Assign, LeaveByException
  <2>4. ASSUME NEW q \in Runners, Stop(q) \/ StopStep(q)
        PROVE  pc'[r] \in {"join", "waiting", "clear"} /\ life' = life
    BY <2>4 DEF Stop, StopCallers, StopStep, StopSet, StopJoin, JoinDone, StopClear
  <2>5. CASE Over
    BY <2>5 DEF Over, vars
  <2> QED
    BY <2>1, <2>2, <2>3, <2>4, <2>5 DEF Next
<1> QED
  BY <1>1, Synchrony, PTL DEF Spec, StopNeverThrows

-----------------------------------------------------------------------------
(* With start(false) only, no application thread runs the loop.            *)
Asynchronous == TRUE \notin WaitModes

AppsOutside ==
  /\ \A r \in Runners : ~wait[r]
  /\ \A a \in Apps : /\ pc[a] \notin LoopSteps
                     /\ pc[a] \in StopSteps => ret[a] \in {"idle", "close"}

LEMMA AppsOutsideInit == Init => AppsOutside
BY LifecycleAssumption DEF Init, AppsOutside, Runners, LoopSteps, StopSteps

LEMMA AppsOutsideStep ==
  ASSUME Asynchronous, LifeInv, AppsOutside, [Next]_vars PROVE AppsOutside'
<1> USE LifecycleAssumption
    DEF AppsOutside, LifeInv, Types, At, Goto, threads, Runners, StartSteps, LoopSteps, StopSteps
<1>1. ASSUME NEW a \in Apps, NEW w \in WaitModes, Start(a, w) PROVE AppsOutside'
  BY <1>1 DEF Start, Asynchronous
<1>2. ASSUME NEW a \in Apps, StartStep(a) PROVE AppsOutside'
  BY <1>2 DEF StartStep, StartMark, StartReset, StartConnect, StartSpawn, StartStore
<1>3. ASSUME NEW a \in Apps, Destroy(a) \/ EndStep(a) PROVE AppsOutside'
  BY <1>3 DEF Destroy, EndStep, Logout, CloseSockets, DestroyMembers
<1>4. ASSUME NEW r \in Runners, LoopStep(r) PROVE AppsOutside'
  <2>1. /\ r \notin Apps /\ UNCHANGED <<wait, ret>>
        /\ \E step : pc' = [pc EXCEPT ![r] = step]
    BY <1>4 DEF LoopStep, Connect, Bind, LoopCheck, Poll, Catch, Assign, LeaveByException
  <2> QED
    BY <2>1
<1>5. ASSUME NEW r \in Runners, Stop(r) PROVE AppsOutside'
  BY <1>5 DEF Stop, StopCallers
<1>6. ASSUME NEW r \in Runners, StopStep(r) PROVE AppsOutside'
  <2>1. /\ pc[r] \in StopSteps /\ UNCHANGED <<wait, ret>>
        /\ UNCHANGED pc \/ \E step : pc' = [pc EXCEPT ![r] = step]
        /\ pc'[r] \in StopSteps \cup {"idle", "close"} \/ ret[r] \notin {"idle", "close"}
    BY <1>6 DEF StopStep, StopSet, StopJoin, StopThrows, LeaveByException, JoinDone, StopClear
  <2> QED
    BY <2>1
<1>7. CASE UNCHANGED vars
  BY <1>7 DEF vars
<1> QED
  BY <1>1, <1>2, <1>3, <1>4, <1>5, <1>6, <1>7 DEF Next, Over

-----------------------------------------------------------------------------
(* The use the API is made for: one thread calls start(false), stop() and  *)
(* the destructor, callbacks do not and do not throw to the catch blocks,  *)
(* and no endpoint fails to connect or bind, which a second start() with a *)
(* responder always does. The destructor's logout may fail.                *)
SingleCaller ==
  /\ \A a, b \in Apps : a = b
  /\ TRUE \notin WaitModes /\ ~CallbackStops
  /\ Failing \subseteq {"logout"}
  /\ Responder => MaxStarts \in 0..1

(* _started, and the thread that is joined when it falls. *)
CallInOrder(a) ==
  /\ pc[a] \notin LoopSteps
  /\ pc[a] \in StopSteps => ret[a] \in {"idle", "close"}
  /\ pc[a] \in {"mark"} \cup EndSteps => ~started
  /\ pc[a] \in (StartSteps \ {"mark"}) \cup StopSteps => started
  /\ pc[a] \in (StartSteps \ {"mark"}) \cup {"clear"} => join = "joined"
  /\ pc[a] \in {"set", "join"} => join = "joinable"
  /\ pc[a] = "idle" /\ started => join = "joinable"

(* The responder's endpoint is bound once, by the only worker there is.    *)
BoundOnce ==
  /\ starts = 0 => /\ ~bound
                   /\ \A w \in Workers : pc[w] = "idle"
                   /\ \A a \in Apps : pc[a] \notin StartSteps
  /\ \A r \in Runners :
       pc[r] \in {"open", "bind"} \cup (StartSteps \ {"store"}) => ~bound

Orderly ==
  /\ \A r \in Runners : ~wait[r]
  /\ \A w \in Workers : pc[w] \in LoopSteps \cup {"idle"}
  /\ \A a \in Apps : CallInOrder(a)
  /\ ~started => join = "joined"
  /\ \A r \in Runners : pc[r] = "bind" => Responder
  /\ Responder => BoundOnce

LEMMA OrderlyInit == ASSUME SingleCaller, Init PROVE Orderly
  BY LifecycleAssumption
  DEF SingleCaller, Init, Orderly, CallInOrder, BoundOnce, Runners, StartSteps, LoopSteps, StopSteps

(* While start() has not stored its thread no other worker runs. *)
LEMMA WorkersKnown ==
  ASSUME LifeInv, Running, join = "joined", NEW w \in Workers, pc[w] # "idle"
  PROVE  \E a \in Apps : pc[a] = "store" /\ fresh[a] = w
BY LifecycleAssumption
DEF LifeInv, Core, Types, FreshHeld, WorkerOwned, ThreadOwned, Runners

(* There is one worker at a time. *)
LEMMA OneWorker ==
  ASSUME SingleCaller, LifeInv, Orderly, Running, NEW v \in Workers, NEW w \in Workers,
         pc[v] # "idle", pc[w] # "idle"
  PROVE  v = w
<1>1. CASE join = "joined"
  BY <1>1, WorkersKnown DEF SingleCaller
<1>2. CASE join # "joined"
  <2>1. \A a \in Apps : pc[a] # "store"
    BY <1>2 DEF Orderly, CallInOrder, StartSteps
  <2>2. \A a \in Apps : fresh[a] = NoThread
    BY <2>1 DEF LifeInv, Core, FreshHeld, Types, Runners
  <2>3. v = worker_thread /\ w = worker_thread
    BY <2>2, LifecycleAssumption DEF LifeInv, Core, WorkerOwned
  <2> QED
    BY <2>3
<1> QED
  BY <1>1, <1>2

LEMMA StartOrderly ==
  ASSUME SingleCaller, LifeInv, Orderly, NEW a \in Apps, NEW v \in WaitModes, Start(a, v)
  PROVE  Orderly'
<1> USE LifecycleAssumption
    DEF LifeInv, Types, Orderly, Start, At, Goto, flags, threads, Runners
<1>1. /\ \A r \in Runners : ~wait'[r]
      /\ \A w \in Workers : pc'[w] \in LoopSteps \cup {"idle"}
      /\ ~started' => join' = "joined"
      /\ \A r \in Runners : pc'[r] = "bind" => Responder
  BY DEF SingleCaller
<1>2. \A b \in Apps : CallInOrder(b)'
  BY DEF SingleCaller, CallInOrder, StartSteps, LoopSteps, StopSteps, EndSteps
<1>3. Responder => BoundOnce'
  BY DEF SingleCaller, BoundOnce, StartSteps
<1> QED
  BY <1>1, <1>2, <1>3

LEMMA StartStepOrderly ==
  ASSUME SingleCaller, LifeInv, Orderly, NEW a \in Apps, StartStep(a)
  PROVE  Orderly'
<1> USE LifecycleAssumption DEF LifeInv, Types, Orderly, At, Goto, flags, threads, Runners
<1>1. CASE StartMark(a) \/ StartReset(a)
  <2> USE <1>1 DEF StartMark, StartReset
  <2>1. \A b \in Apps : CallInOrder(b)'
    BY DEF SingleCaller, CallInOrder, StartSteps, LoopSteps, StopSteps, EndSteps
  <2>2. Responder => BoundOnce'
    BY DEF SingleCaller, BoundOnce, StartSteps
  <2> QED
    BY <2>1, <2>2
<1>2. CASE StartConnect(a)
  <2>1. /\ At(a, "connect") /\ Goto(a, "spawn")
        /\ UNCHANGED <<ret, wait, flags, threads, bound, starts, life>>
    BY <1>2 DEF StartConnect, SingleCaller
  <2>2. \A b \in Apps : CallInOrder(b)'
    BY <2>1 DEF SingleCaller, CallInOrder, StartSteps, LoopSteps, StopSteps, EndSteps
  <2>3. Responder => BoundOnce'
    BY <2>1 DEF SingleCaller, BoundOnce, StartSteps
  <2> QED
    BY <2>1, <2>2, <2>3
<1>3. CASE StartSpawn(a)
  <2> USE <1>3 DEF StartSpawn
  <2>1. \A b \in Apps : CallInOrder(b)'
    BY DEF SingleCaller, CallInOrder, StartSteps, LoopSteps, StopSteps, EndSteps
  <2>2. Responder => BoundOnce'
    BY DEF SingleCaller, BoundOnce, StartSteps
  <2>3. \A w \in Workers : pc'[w] \in LoopSteps \cup {"idle"}
    BY DEF LoopSteps
  <2> QED
    BY <2>1, <2>2, <2>3
<1>4. CASE StartStore(a)
  <2> USE <1>4 DEF StartStore, ThreadOwned
  <2>1. life' = life
    BY DEF CallInOrder, StartSteps
  <2>2. \A b \in Apps : CallInOrder(b)'
    BY DEF SingleCaller, CallInOrder, StartSteps, LoopSteps, StopSteps, EndSteps
  <2>3. Responder => BoundOnce'
    BY DEF SingleCaller, BoundOnce, StartSteps
  <2>4. started' /\ \A w \in Workers : pc'[w] \in LoopSteps \cup {"idle"}
    BY DEF CallInOrder, StartSteps
  <2> QED
    BY <2>1, <2>2, <2>3, <2>4
<1> QED
  BY <1>1, <1>2, <1>3, <1>4 DEF StartStep

(* Only workers run the loop, and they leave it when it ends. *)
LEMMA LoopStepOrderly ==
  ASSUME SingleCaller, LifeInv, Orderly, NEW r \in Runners, LoopStep(r)
  PROVE  Orderly'
<1> USE LifecycleAssumption DEF LifeInv, Types, Orderly, At, Goto, flags, threads, Runners
<1>1. /\ r \in Workers /\ r \notin Apps /\ Running /\ pc[r] \in LoopSteps
      /\ UNCHANGED <<ret, wait, started, join, starts>>
  BY DEF LoopStep, Connect, Bind, LoopCheck, Poll, Catch, Assign, CallInOrder, LoopSteps
<1>2. /\ UNCHANGED life
      /\ \E step \in {"bind", "loop", "poll", "idle", "catch", "assign"} :
           /\ pc' = [pc EXCEPT ![r] = step]
           /\ step = "bind" => pc[r] = "open" /\ Responder
      /\ bound' # bound => pc[r] = "bind" /\ bound'
  <2>1. CASE Connect(r)
    BY <2>1 DEF Connect, SingleCaller
  <2>2. CASE Bind(r)
    BY <2>2 DEF Bind, SingleCaller, BoundOnce
  <2>3. CASE LoopCheck(r) \/ Poll(r)
    BY <2>3 DEF LoopCheck, Poll
  <2>4. CASE Catch(r)
    BY <2>4 DEF Catch, SingleCaller
  <2>5. CASE Assign(r)
    BY <2>5 DEF Assign
  <2> QED
    BY <2>1, <2>2, <2>3, <2>4, <2>5 DEF LoopStep
<1>3. \A b \in Apps : CallInOrder(b)'
  BY <1>1, <1>2 DEF CallInOrder
<1>4. \A w \in Workers : pc'[w] \in LoopSteps \cup {"idle"}
  BY <1>1, <1>2 DEF LoopSteps
<1>5. \A q \in Runners : pc'[q] = "bind" => Responder
  BY <1>1, <1>2
<1>6. ASSUME Responder PROVE BoundOnce'
  <2>1. starts # 0 /\ starts' # 0
    BY <1>1, <1>6 DEF BoundOnce, LoopSteps
  <2>2. ASSUME NEW q \in Runners, pc'[q] \in {"open", "bind"} \cup (StartSteps \ {"store"})
        PROVE  ~bound'
    <3>1. pc[q] \in {"open", "bind"} \cup (StartSteps \ {"store"}) /\ ~bound
      BY <1>1, <1>2, <1>6, <2>2 DEF BoundOnce, StartSteps
    <3>2. CASE bound' # bound
      <4>1. pc[r] = "bind" /\ q # r
        BY <1>2, <2>2, <3>2 DEF StartSteps
      <4>2. q \notin Workers
        BY <1>1, <3>1, <4>1, OneWorker DEF StartSteps
      <4>3. q \in Apps /\ pc[q] \in StartSteps \ {"store"} /\ join = "joined"
        BY <3>1, <4>2 DEF CallInOrder, StartSteps, LoopSteps
      <4>4. pc[q] = "store"
        BY <1>1, <4>1, <4>3, WorkersKnown DEF SingleCaller
      <4> QED
        BY <4>3, <4>4
    <3> QED
      BY <3>1, <3>2
  <2> QED
    BY <2>1, <2>2 DEF BoundOnce
<1> QED
  BY <1>1, <1>2, <1>3, <1>4, <1>5, <1>6

LEMMA StopOrderly ==
  ASSUME SingleCaller, LifeInv, Orderly, NEW r \in Runners, Stop(r)
  PROVE  Orderly'
<1> USE LifecycleAssumption
    DEF LifeInv, Types, Orderly, Stop, StopCallers, Goto, flags, threads, Runners
<1>1. r \in Apps /\ pc[r] = "idle" /\ started
  BY DEF SingleCaller
<1>2. \A b \in Apps : CallInOrder(b)'
  BY <1>1 DEF SingleCaller, CallInOrder, StartSteps, LoopSteps, StopSteps, EndSteps
<1>3. Responder => BoundOnce'
  BY <1>1 DEF SingleCaller, BoundOnce, StartSteps
<1>4. \A w \in Workers : pc'[w] \in LoopSteps \cup {"idle"}
  BY <1>1
<1> QED
  BY <1>1, <1>2, <1>3, <1>4

(* join() finds a thread it may wait for. *)
LEMMA JoinWaits ==
  ASSUME SingleCaller, LifeInv, Orderly, NEW r \in Runners, StopJoin(r)
  PROVE  /\ r \in Apps /\ Goto(r, "waiting") /\ join' = "joining" /\ life' = life
         /\ UNCHANGED <<ret, wait, verdict, flags, worker_thread, fresh, bound, starts>>
<1>1. r \in Apps /\ join = "joinable"
  BY DEF StopJoin, At, Orderly, CallInOrder, LoopSteps, Runners
<1>2. worker_thread \notin {NoThread, r}
  BY <1>1, LifecycleAssumption DEF StopJoin, At, LifeInv, Core, Types, OneJoin
<1> QED
  BY <1>1, <1>2 DEF StopJoin

LEMMA StopStepOrderly ==
  ASSUME SingleCaller, LifeInv, Orderly, NEW r \in Runners, StopStep(r)
  PROVE  Orderly'
<1> USE LifecycleAssumption DEF LifeInv, Types, Orderly, At, Goto, flags, threads, Runners
<1>1. CASE StopSet(r)
  <2> USE <1>1 DEF StopSet
  <2>1. r \in Apps /\ started
    BY DEF CallInOrder, LoopSteps, StopSteps
  <2>2. \A b \in Apps : CallInOrder(b)'
    BY <2>1 DEF SingleCaller, CallInOrder, StartSteps, LoopSteps, StopSteps, EndSteps
  <2>3. Responder => BoundOnce'
    BY <2>1 DEF SingleCaller, BoundOnce, StartSteps
  <2> QED
    BY <2>1, <2>2, <2>3
<1>2. CASE StopJoin(r)
  <2>1. /\ r \in Apps /\ Goto(r, "waiting") /\ join' = "joining" /\ life' = life
        /\ UNCHANGED <<ret, wait, verdict, flags, worker_thread, fresh, bound, starts>>
    BY <1>2, JoinWaits
  <2>2. pc[r] = "join" /\ started
    BY <1>2, <2>1 DEF StopJoin, CallInOrder, StopSteps
  <2>3. \A b \in Apps : CallInOrder(b)'
    BY <2>1, <2>2 DEF SingleCaller, CallInOrder, StartSteps, LoopSteps, StopSteps, EndSteps
  <2>4. Responder => BoundOnce'
    BY <2>1, <2>2 DEF SingleCaller, BoundOnce, StartSteps
  <2> QED
    BY <2>1, <2>2, <2>3, <2>4
<1>3. CASE JoinDone(r)
  <2> USE <1>3 DEF JoinDone
  <2>1. r \in Apps /\ started
    BY DEF CallInOrder, LoopSteps, StopSteps
  <2>2. \A b \in Apps : CallInOrder(b)'
    BY <2>1 DEF SingleCaller, CallInOrder, StartSteps, LoopSteps, StopSteps, EndSteps
  <2>3. Responder => BoundOnce'
    BY <2>1 DEF SingleCaller, BoundOnce, StartSteps
  <2> QED
    BY <2>1, <2>2, <2>3
<1>4. CASE StopClear(r)
  <2> USE <1>4 DEF StopClear
  <2>1. r \in Apps /\ join = "joined" /\ ret[r] \in {"idle", "close"}
    BY DEF CallInOrder, LoopSteps, StopSteps
  <2>2. \A b \in Apps : CallInOrder(b)'
    BY <2>1 DEF SingleCaller, CallInOrder, StartSteps, LoopSteps, StopSteps, EndSteps
  <2>3. Responder => BoundOnce'
    BY <2>1 DEF SingleCaller, BoundOnce, StartSteps
  <2> QED
    BY <2>1, <2>2, <2>3
<1> QED
  BY <1>1, <1>2, <1>3, <1>4 DEF StopStep

LEMMA DestroyOrderly ==
  ASSUME SingleCaller, LifeInv, Orderly, NEW a \in Apps, Destroy(a) \/ EndStep(a)
  PROVE  Orderly'
<1> USE LifecycleAssumption DEF LifeInv, Types, Orderly, At, Goto, flags, threads, Runners
<1>1. CASE Destroy(a)
  <2> USE <1>1 DEF Destroy
  <2>1. \A b \in Apps : CallInOrder(b)'
    BY DEF SingleCaller, CallInOrder, StartSteps, LoopSteps, StopSteps, EndSteps
  <2>2. Responder => BoundOnce'
    BY DEF SingleCaller, BoundOnce, StartSteps
  <2> QED
    BY <2>1, <2>2
<1>2. CASE EndStep(a)
  <2>1. /\ pc[a] \in EndSteps /\ pc' \in {pc, [pc EXCEPT ![a] = "sockets"], [pc EXCEPT ![a] = "members"]}
        /\ UNCHANGED <<ret, wait, flags, threads, bound, starts>>
    BY <1>2 DEF EndStep, Logout, CloseSockets, DestroyMembers, EndSteps
  <2>2. \A b \in Apps : CallInOrder(b)'
    BY <2>1 DEF SingleCaller, CallInOrder, StartSteps, LoopSteps, StopSteps, EndSteps
  <2>3. Responder => BoundOnce'
    BY <2>1 DEF BoundOnce, StartSteps, EndSteps
  <2>4. \A w \in Workers : pc'[w] \in LoopSteps \cup {"idle"}
    BY <2>1
  <2>5. \A r \in Runners : pc'[r] = "bind" => Responder
    BY <2>1
  <2> QED
    BY <2>1, <2>2, <2>3, <2>4, <2>5
<1> QED
  BY <1>1, <1>2

LEMMA OrderlyStep ==
  ASSUME SingleCaller, LifeInv, Orderly, [Next]_vars PROVE Orderly'
<1>1. CASE UNCHANGED vars
  BY <1>1 DEF vars, Orderly, CallInOrder, BoundOnce
<1> QED
  BY <1>1, StartOrderly, StartStepOrderly, LoopStepOrderly, StopOrderly, StopStepOrderly,
     DestroyOrderly DEF Next, Over

LEMMA Order == ASSUME SingleCaller PROVE Spec => [](LifeInv /\ Orderly)
<1>1. Init => LifeInv /\ Orderly
  BY LifeInvInit, OrderlyInit
<1>2. LifeInv /\ Orderly /\ [Next]_vars => (LifeInv /\ Orderly)'
  BY LifeInvStep, OrderlyStep
<1> QED
  BY <1>1, <1>2, PTL DEF Spec

(* join() never throws: stop() always finds a thread that is not joined,   *)
(* is joined by nobody else, and is not its own.                           *)
THEOREM StopsNeverThrow == ASSUME SingleCaller PROVE Spec => StopNeverThrows
<1> DEFINE Waits ==
      \A r \in Runners : pc[r] = "join" => pc'[r] \in {"join", "waiting", "clear"} /\ life' = life
<1>1. LifeInv /\ Orderly /\ [Next]_vars => [Waits]_vars
  <2> SUFFICES ASSUME LifeInv, Orderly, Next, NEW r \in Runners, pc[r] = "join"
               PROVE  pc'[r] \in {"join", "waiting", "clear"} /\ life' = life
    OBVIOUS
  <2> USE LifecycleAssumption DEF LifeInv, Types, At, Goto, flags, threads, Runners
  <2>1. r \in Apps /\ \A a \in Apps : a = r
    BY DEF Orderly, LoopSteps, SingleCaller
  <2>2. ASSUME NEW a \in Apps, NEW w \in WaitModes, Start(a, w) PROVE FALSE
    BY <2>1, <2>2 DEF Start
  <2>3. ASSUME NEW a \in Apps, StartStep(a) \/ Destroy(a) \/ EndStep(a) PROVE FALSE
    BY <2>1, <2>3
    DEF StartStep, StartMark, StartReset, StartConnect, StartSpawn, StartStore, Destroy, EndStep, Logout,
        CloseSockets, DestroyMembers
  <2>4. ASSUME NEW q \in Runners, LoopStep(q) PROVE pc'[r] = pc[r] /\ life' = life
    <3>1. q # r
      BY <2>4 DEF LoopStep, Connect, Bind, LoopCheck, Poll, Catch, Assign
    <3>2. pc'[r] = pc[r]
      BY <2>4, <3>1
      DEF LoopStep, Connect, Bind, LoopCheck, Poll, Catch, Assign, LeaveByException
    <3>3. life' = life
      <4>1. q \in Workers /\ Running
        BY <2>4
        DEF LoopStep, Connect, Bind, LoopCheck, Poll, Catch, Assign, Orderly, CallInOrder, LoopSteps
      <4>2. CASE Bind(q)
        BY <4>1, <4>2 DEF Bind, SingleCaller, Orderly, BoundOnce
      <4>3. CASE ~Bind(q)
        BY <2>4, <4>3 DEF LoopStep, Connect, LoopCheck, Poll, Catch, Assign, SingleCaller
      <4> QED
        BY <4>2, <4>3
    <3> QED
      BY <3>2, <3>3
  <2>5. ASSUME NEW q \in Runners, Stop(q) PROVE FALSE
    BY <2>1, <2>5 DEF Stop, StopCallers, SingleCaller, Orderly, LoopSteps
  <2>6. ASSUME NEW q \in Runners, StopStep(q)
        PROVE  pc'[r] \in {"join", "waiting", "clear"} /\ life' = life
    <3>1. q = r
      BY <2>1, <2>6 DEF StopStep, StopSet, StopJoin, JoinDone, StopClear, Orderly, LoopSteps
    <3>2. StopJoin(r)
      BY <2>6, <3>1 DEF StopStep, StopSet, StopJoin, JoinDone, StopClear
    <3> QED
      BY <3>2, JoinWaits
  <2>7. CASE Over
    BY <2>7 DEF Over, vars
  <2> QED
    BY <2>2, <2>3, <2>4, <2>5, <2>6, <2>7 DEF Next
<1> QED
  BY <1>1, Order, PTL DEF Spec, StopNeverThrows
=============================================================================
