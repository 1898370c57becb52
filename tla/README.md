# A TLA+ model of the UFEed C++ client

The repository is a client library for the UFE gateway (UFEGW). An application
holds a `UFEedClient`, which talks to the gateway over three ZeroMQ sockets:
requests and their replies (REQ), a subscription (SUB), and a back channel on
which the gateway sends requests to the client (REP). Messages are protobuf
`WireMessage`s, wrapped by `UFEMessage` and its `Builder`. This directory holds
TLA+ modules of the parts that have behaviour, the TLC configurations that check
them on small instances, and TLAPS proofs of what matters most for all instances.

## Inventory of the system

| Part | Source | State | Operations | What is hard |
| --- | --- | --- | --- | --- |
| Spin lock | `ufeedclient.cpp` 23-38 | an atomic flag | `lock`, `try_lock`, `unlock`, `scoped_lock` | contention, leaving a scope by exception |
| Life cycle | `ufeedclient.cpp` 52-54, 163-213, 267-307 | `_started`, `_stop_requested`, `_worker_thread`, the bound socket | `start(wait)`, `stop()`, destructor, worker loop | tests and writes that are not atomic, `stop()` against the listener's verdicts, joins, failing connect and bind, restarts, a destructor that calls the gateway |
| Requests and session | 215-254, 267-284, 322-347 | `_session_id`, REQ socket, its lock | `request()`, the logout in the destructor | concurrent logins, the unlocked session string, exceptions between send and receive |
| Back channel | 77-161, 163-213, 349-353 | REP socket, its lock, `_responderSeq` | the worker's round, `process_respond_message`, `respond()` | failures between receive and send, replies from the application, verdicts of the listener |
| Messages | `ufemessage.hpp` | arenas, wire messages, the maps of fields and groups | `Builder`, `build`, `new_builder`, `clone`, `add_*`, `find_*` | ownership across moves and clones, maps made once |
| Deprecated messages | `deprecated/ufeapi.hpp` | raw pointers, maps and cached indices | `remap`, `operator=`, `factory`, `add_*`, `remove_field` | stale indices, a message whose wire message the caller goes on editing, who deletes what |
| Constant generator | `genconsts.cpp` | table of offsets | two loops over header files | definitions out of order, comments that the greedy expressions read, arguments `stoi()` refuses, an input that does not open or is the output |
| Configuration, exceptions, printing, generated headers | `ufeconfiguration.hpp`, `ufeexception.hpp`, `ufeconsts.hpp`, ... | plain values | getters, setters, formatting | nothing that a model would show |

How they meet (module `Client`): the application's threads call `start`, `stop`, `request` and
`respond`. The worker loop runs on a thread of its own, or on the caller of
`start(true)`, and calls the application back through `Listener`. Worker and
callers share `_stop_requested`, `_started` and the REP socket. Requesting
threads share `_session_id` and the REQ socket. Every message that crosses these
calls is a `UFEMessage`.

## Modules

**`Mutex`, `SpinLock`.** `Mutex` is the lock the sockets need: a free lock is
acquired, a held one is released by its owner. `SpinLock` is the code:
`test_and_set` in a loop, the guard that releases at the end of the scope.
`ImplementsMutex` is the refinement; with it `Requester` and `Responder` may use
`Mutex` in place of the flag.

**`Lifecycle`.** `pc` says where each thread is. Each access to `_started`,
`_stop_requested` and `_worker_thread` is one step: `start()` is `Start`,
`StartMark`, `StartReset`, `StartConnect`, `StartSpawn`, `StartStore`; `stop()` is
`Stop`, `StopSet`, `StopJoin`, `JoinDone`, `StopClear`; the loop is `Connect`,
`Bind`, `LoopCheck`, `Poll`, `Catch`, `Assign`; `~Impl` is `Destroy`, the steps of
`stop()`, then `Logout`, `CloseSockets` (both only with a session) and
`DestroyMembers`, which destroys `_worker_thread` before the sockets. `join` follows what
`std::thread` does: `join()` on a thread that is not joinable, or is the caller, throws;
destroying a joinable thread ends the process. `life = "aborted"` is `std::terminate`: a
joinable thread destroyed, a logout that throws in the destructor, or an exception that
leaves `worker()` on its own thread, from connect, bind, an error callback or a `stop()`
called in one. `closed` says that the sockets are gone.

**`Requester`.** Threads in `request()`: `Request` (the test for a session),
`Stamp`, `Lock`, `Send`, `Recv`, `Store`, `Notify`; `Destroy` is the destructor's
logout, which uses the same steps. A read of `_session_id` that races with its
assignment yields the old value, the new one or `Torn`.
The gateway (`Serve`) is external: it grants a token to a login when it has no
live session for this client, and ends a session on a logout. The first half is
`ALREADY_LOGGED_IN` (`ufeconsts.hpp` 35) and not this client's doing: `Store` overwrites
`_session_id` with whatever token a reply has.

**`Responder`.** The worker's round as `Poll`, `Subscription`, `LockToRecv`,
`Recv`, `Notify`, `Decide`, `Answer`, `Send`, with `Catch` for the two catch
blocks. `Respond` is the application's `respond()`, from its own thread or inside
a callback. A reply records the request it was composed for (`about`) and the
request ZeroMQ routes it to (`to`), which the code cannot see.

**`Client`, `Service`.** `Client` composes `Lifecycle`, `Requester` and `Responder`,
each instantiated whole. They share `stop_requested`. The thread that is in
`Lifecycle`'s loop runs the rounds of `Responder`, whose actor is `Loop`:
`BeginRound` is the loop test and the poll, `RoundStep` one step of the round, and
`CatchStep` the verdict and the write of `_stop_requested`. `Request` starts a
`request()` on an application thread, or on the worker inside a callback (`Calling`),
and `RequestStep` carries it on. `Logout` is the logout of `~Impl`, taken after the
steps of its `stop()`, whose exception ends the process; `Close` closes the sockets and
ends the members. `Service` is what an
application is promised: down or up, serving a message or not, with a session or
not; it goes down only between two messages, and is gone only when down and without
a session, unless the process ends. `ImplementsService` is the refinement: up is `started`, serving is a
round under way, a session is a live token in the gateway.

**`Message`, `MCMessage`.** A handle is a `Builder` or a `UFEMessage`: a raw
pointer (`wire`), an arena pointer (`arena`), and, for a message, the maps made at
construction (`view`), its own and those of every message in its groups, at any
depth; `MapOf` is `remap_field()` over the fields of one message, and `Inside` what
`remap_wire_message()` comes to: the least set with a message and the items of what is
in it. `home` says in which arena each wire message lives. `Move` is the move of a
`WireMessageWithArena`; `Build`, `NewBuilder` and `MoveBuilder` use it. `Clone`
copies a wire message with all that is inside. `MCMessage` only adds the symmetry of
the handles.

**`Deprecated`.** A wire message is in the caller's hands or a message's; a
`UFEMessage` is the record of its pointer, `_own` and its maps: `find` (the two field
maps, which the tag keeps apart), `index`, and `groups`, the number of messages made
for the items; `Total` adds such numbers up. `Remap` is `remap()`; `Construct`,
`Assign`, `Factory` and `Destroy` are the constructors, `operator=`, `factory()` and the
destructor; `AddField`, `AddMsg` and `RemoveField` the free functions, which edit the
wire message and not the maps.
`broken` is set where the behaviour is undefined. `stale` remembers which messages
have lost a field since they were mapped, and `crossed` the two wire messages of an
`operator=` on a message that owns; they are in no program.

**`Consts`.** The two loops of `generate_consts`, a line per step (`ReadUfe`,
`ReadFix`); a line is one of the kinds its regular expressions tell apart, with the
comment that may follow on it, because the expressions are greedy: `LastNumber` is the
number they take for the offset, `Argument` and `OffsetOf` what they take for a call,
which may be no call (`Calls`). `Throws` is when `stoi()` does. `Open` may empty or make
the gateway's header, since `--out` and `--ufe` name the same file by default.

**`SpinLock_proofs`, `Lifecycle_proofs`, `Requester_proofs`, `Responder_proofs`,
`Message_proofs`, `Deprecated_proofs`, `Consts_proofs`, `Client_proofs`** hold the
theorems about the module each is named after. `Client_proofs` instantiates the proof
modules of the three parts, as `Client` does the parts, and cites their theorems' step
lemmas: every step of the client is a step of each part, or leaves it alone.

Taken as given, because their code is not here: a ZeroMQ REQ socket sends and
receives in turn, a REP socket receives and sends in turn and offers nothing to
read while a reply is due; a send out of turn throws `EFSM`; a second bind of the
same socket to the same endpoint throws; protobuf allocates sub-messages in the
memory of the message they are in.

## Runs

| Run | Question | Bounds and why they are enough |
| --- | --- | --- |
| `spin_lock` | Does the lock exclude, does somebody always get in, does it implement `Mutex`? | Five threads; the proof covers any number. |
| `lifecycle_alone` | One controller, anything may fail: does a stopped client still loop, does a `stop()` that throws leave a loop behind, is a joinable thread ever destroyed, are sockets ever closed under a loop, does anything but a verdict defeat `stop()`? | Three starts of either kind, so that a thread that was joined is replaced, and replaced again; with a session to log out of or without; three workers, one for each start. |
| `lifecycle_sync` | Does `start(true)` end when another thread stops it, whatever else fails and with callbacks that stop? | Two threads, one start; every socket may fail. |
| `lifecycle_any` | What remains true when two threads call anything at any time? | Two starts: each may pass the check before the other sets `_started`. Three workers, one more than can be in use. |
| `lifecycle_stop_vs_verdict` | Is a `stop()` always honoured? **No**: see below. | One start. |
| `requester_shared` | Does every request return, with the lock released and the socket used in turn, whatever replies look like? Is the session in use live and left alone? | Three threads, so that two wait while one holds the lock; four requests: two logins and two that follow; replies of one, two and three frames. |
| `client` | Do the parts fit? `stop()` and the destructor against a round and a callback's request; the abstract service. | One application thread and one worker, which is what the documentation shows; a request of the gateway, a publication, a `respond()`, and two requests besides the logout: a login and what follows it, or two logins, from either thread. |
| `responder_any` | Is every request answered, once, in order, by the listener's verdict; and what remains of that with malformed requests, throwing callbacks and `respond()` by anybody? | Two requests, one publication, two calls of `respond()`: one can come between receive and reply of each request. |
| `message_memory` | Is every arena owned once, does an owner's message live, are fields found? | Three handles (a message, its copy, an item), four wire messages (a message and an item, and their copies), two fields: a group in an item of a group can be built, and a message with an item copied. |
| `message_clone` | May a clone be used after its original? **No**: see below. | As `message_memory`. |
| `deprecated` | Are items and owned wire messages freed once, and does a message find, and erase, the fields it mapped while the caller edits? | Two messages that may share a wire message, two wire messages so that one is assigned from the other, three fields: a repeated tag with another before it. |
| `consts` | Which constants come out right, and does the generator end? | Headers of three lines: a function, its redefinition, and a call, in any order; offsets of four, five and six digits, two arguments of which one is no int, with and without a comment that reads as an offset or an argument. |

The two runs that expect a violation:

- `lifecycle_stop_vs_verdict`. `stop()` sets `_stop_requested`, and the loop, back
  from `error_happened()` with "continue", sets it to false. `join()` never
  returns.
- `message_clone`. The copy lives in the original's arena.

Met while modelling, and not kept as runs: a `stop()` between lines 290 and 291 of
`ufeedclient.cpp` is forgotten; a `stop()` during `start(true)` returns before the
loop has ended; a restart with a responder endpoint fails in `bind`, outside the
`try`; `start(false)`, `stop()`, `start(true)`, `stop()` joins a joined thread; after
login, logout and a second login `_session_id` is still the first token, and the
destructor logs out of that one; a
reply of three frames leaves the REQ socket unable to send; a `respond()` inside
`responder_message_received` takes the turn of the client's own reply; a back
channel request of one frame leaves the REP socket due to send; a subscription whose
callback throws again and again keeps the loop from the back channel, because an
exception drops the rest of the round; a message of the deprecated API that owns its
wire message and is assigned deletes the caller's and leaks its own; a `stop()` from a
second thread, or from a callback, between the creation of the worker and its store
(line 296) joins nothing, so that the destructor closes the sockets under the loop, with a
session, and then destroys a joinable thread; a logout that fails ends the process, since
a destructor is `noexcept`, and so does an error callback that throws, on the worker's
thread; a second
`remove_field()` erases the wrong field, or past the end; `genconsts` run with its
default arguments empties the header it is about to read, never ends when a
header does not open, takes digits in parentheses in a comment for the argument of a
call (`f(0) }; // note (3)` becomes 3), and ends with an exception for an argument that is
empty or no int. The modules contain all of these steps. The passing runs that
state a stronger property exclude them by a constant (`Frames`, `Kinds`, `Throws`,
`WaitModes`, `Responder`, `Verdicts`, `Failing`, one thread in `Apps`) or by a condition
in the property that names them (`stale`, `crossed`, `Resolved`, `Throws`, `readable`,
`failed`, `aborted`).

## Fairness

Weak fairness, and only for a thread that is inside the library: its next step is
taken unless it is blocked. `zmq::poll` returns after `poll_interval_ms` at the
latest and listener callbacks are taken to return. No thread is obliged to call
anything. In `Requester`, `Serve` is weakly fair too: `recv()` has no timeout, so
that `RequestReturns` says what the client adds to a gateway that answers. `Lock`
is weakly fair per thread, and a spin lock promises no more; the number of requests
is bounded, so a waiting thread cannot be overtaken for ever in the model, and
`RequestReturns` does not say that it could not be in the code. `SomeoneEnters`
is what the lock itself promises.

In `Client` the same holds for every thread inside the library, for the destructor
once it has begun, and for the gateway's replies. In `Consts` the program runs on.
`Deprecated` and `Message` are calls of an application and promise nothing in time.

## Proofs

| Theorem | Says | Rests on |
| --- | --- | --- |
| `LockSafe`, `LockRefines` | At most one thread in a scope; `SpinLock` implements `Mutex`. | `LockInv`: the flag is set exactly while a thread is between lock and unlock. |
| `LifecycleTyped`, `WorkersOwned` | Types; a worker thread that runs is reachable until it is joined, unless the process ends. | `LifeInv`: a thread is in a `start()`'s hands exactly while it is about to be stored; while one thread is in `~Impl` every other application thread is outside; one thread at most waits in `join()`. Most steps only move a thread within its call (`MovesPreserve`); the others have a lemma each. |
| `QuietWhenStopped`, `RefusedWhenQuiet` | Used by one application thread, started either way and again, whatever fails: `stop()` leaves nobody in the loop. `RefusedWhenQuiet`: one that throws had no loop to end. | `QuietInv`: where the application thread is in its call says whether the client counts as started and when every worker has ended (`CallsQuietly`); that a worker is stored or joined is `LifeInv`. |
| `JoinedBeforeLost`, `SocketsOutlive` | Used likewise: no `start()` and no destructor destroys a joinable thread, and the sockets are closed after the last loop. | `SoleInv`, on `QuietInv`: a client that is stopped, or starting, owns no joinable thread (`OwnedWhileStarted`), and once the sockets are closed the thread stays in `~Impl` (`ClosedLast`). |
| `SynchronousNeverThrows` | With `start(true)` only, no `stop()` throws, whatever the threads and callbacks call. | `SyncInv`: no thread is ever created. |
| `StopsNeverThrow` | Used as documented, by one application thread: `join()` never throws. | `Orderly`: where the application thread is in `start()` or `stop()` fixes `_started` and whether there is a thread to join; at most one worker is between start and join, and it is the one in `_worker_thread`; the loop binds once. |
| `RequesterTyped` | Types, and the lock is held exactly between a thread's send and its receive. | `TypeOK` is inductive: the last conjunct says that every exit, exceptions included, releases the lock. |
| `SocketAlwaysReady` | No request finds another's reply outstanding on the REQ socket and, unless a reply had three frames, it finds the socket ready. | `SocketInv`: while no thread is in its receive the socket can send or has a third frame; needs the lock conjunct of `TypeOK`. |
| `OnlyLoginsUnstamped` | Only a login reaches the gateway without a token, whatever races on `_session_id`. | `StampInv`: a message on its way to the send is a login or was stamped. |
| `TokensLive`, `SessionLasts` | What is not a login carries a live session, or one torn by a racing login; no later or failed login replaces the session in use. | `TokenInv`: one token between the gateway, the reply under way, the thread that stores it and `_session_id` (`OneToken`, `TokensUsed`); what is outstanding is the request of the thread in its receive; nothing follows the logout. |
| `ResponderTyped` | Types, and every send and receive on the REP socket is under its lock; the poll is not. | `TypeOK` with a conjunct on the lock. |
| `RepliesFit` | A reply the client composed is routed to the request it is about. | `FitInv`: the reply under way is about the last request taken, and the socket moves on only by a send. Replies of the application may take its place, but not lead it astray. |
| `LoginsDecided` | With a listener, a login is granted only by its verdict on that request. | `GrantInv`: the reply under way carries "accepted" only if the listener accepted it. |
| `NoneDropped` | Every request the loop took is answered, being answered, left to `respond()`, or went through the error callback. | `SettledInv`: every request taken is in one of these cases; with `CurrentInv`, the one being processed is the last one taken. |
| `OrderKept` | Replies go out in the order of the requests they are routed to, and the client's carry ascending numbers: those of its own reply counter, not of the requests. | `OrderInv`: the replies sent go to ever later requests, none later than the one the socket owes (`RoutedInv`); `_responderSeq` is at most the number of requests taken, and a reply being composed carries it, above every number sent (`NumbersInv`). |
| `ArenasOwned` | Every arena with a message in it is owned by one handle, never none or two. | `MemInv`: arenas are owned once, owners' messages live in their arena unless `clone()` made them, what is not allocated is not referred to. |
| `OwnersUsable`, `MessageTyped` | An owner's message is live, with all that is in its groups and its map, unless `clone()` made it; types, of maps and contents too. | `ContentInv`: fields are within their bound and items are messages (`Contents`); a message and its items live in one place (`Together`); a map is closed under its groups and lives with its owner (`Views`). |
| `MessagesFind` | A message that is built or cloned finds the last field of every tag and all items of every group, in their order, at every depth. | `MapFinds`: `MapOf` against `LastOf` and `FlattenSeq`, by induction over the fields (`MapOfSteps`, `FlattenSteps`); `ContentInv` for what the map covers. |
| `WiresOwned` | A wire message that a deprecated message owns has one owner, which deletes it, over any assignments; but for the two an `operator=` on an owner crosses. | `OwnInv`: a message that owns points to a wire message; the rest is the property itself, which remembers in `crossed` what an assignment has mixed up. |
| `DeprecatedTyped` | Types; every item on the heap is in the groups of one message. | `TypeInv`: only fields of group tags have items (`Grouped`), so that every map counts what it made (`Counted`), and the heap is the sum over the messages (`Balanced`); `TotalChanged` says what one new map does to the sum. Uses `ViewInv`. |
| `FirstsFound`, `MappedRemoved` | Until a field is removed `find_field()` finds the first field of a mapped tag, and the first `remove_field()` removes that one; later ones never an earlier field. | `ViewInv`: a map has a tag's first field and index as they were when it was made, and appending moves neither; that a first field exists is a well-founded minimum over the indices. |
| `ConstantsKnown` | A constant on a line where no comment reads like a call has the value the header gives it, if its function is defined once, before it, by five digits that are the last on their line, and the sum is an int; whatever lines are around it. | `ConstsInv`: what is written for a line is found at its place (`Located`), and the table holds the offset of every function that was read and is clearly defined once (`TableRight`). |
| `LogoutsAlone`, `TakenAreAnswered` | The destructor logs out when nothing of the client runs beside it; `stop()` cuts no round short. | `ClientInv`: the invariants of the three parts and what joins them: a round is under way only for a thread in the loop (`RoundInv`), a worker requests only inside a callback (`CallbackInv`), after `stop()` nothing is half done (`StoppedInv`). |
| `NoSessionLeft` | No destroyed client leaves a session in the gateway; a logout that fails ends the process instead. | `SessionInv`: the destructor of `Lifecycle` ends together with the logout of `Requester`, whose `EndInv` says that the logout names the live token, and that after it there is none. |
| `ClientServes` | `Client` implements `Service`. | `ClientInv`, `SessionInv`, and for each action of `Client` the step or stutter of `Service` it is. |

The constants are arbitrary, subject to the assumption named in each module
(`LifecycleAssumption`, `RequesterAssumption`, ...; `ClientAssumption` is those of the
parts). Of those, `Deprecated` asks for finitely many messages, whose items add up, and
`Message` that no pointer and a group of items are different things. Some theorems assume more, in their own statements:

- `LoginsDecided`: there is a listener. Without one the code grants every login.
- `OrderKept`: `MaxRequests < SeqMod`, that is, `_responderSeq` does not wrap.
- `TokensLive`, `SessionLasts`, `NoSessionLeft`, `ClientServes`: the application leaves
  the logout to the destructor. A session it logged out of itself stays in
  `_session_id`.
- These rest on `Serve`, the gateway that gives no second token while a
  session is open; and on `Stamp`, where a request that has seen a session does not find
  `_session_id` empty at its second read, which a racing assignment could make it.
- `NoSessionLeft`, `ClientServes`: replies have more than one frame; with no logout of
  the application's, this is `PlainSessions`. With a one-frame reply to its login a client never
  learns its token, and TLC finds the session left over when `Frames` has 1. Of threads
  and starts `NoSessionLeft` assumes nothing.
- `StopsNeverThrow`: `SingleCaller`, which is one application thread,
  `start(false)`, no `stop()` inside a callback, sockets that connect, error callbacks
  that do not throw, and one start if there is a responder endpoint; the logout may fail.
  `lifecycle_alone` has restarts with what is left out, and the property fails there; what
  holds of such a `stop()` is `RefusedOnlyWhenQuiet`.
- `SynchronousNeverThrows`: `Synchronous`, which is
  `start(true)` only, and nothing else. `lifecycle_sync` is such a client.
- `QuietWhenStopped`, `RefusedWhenQuiet`, `JoinedBeforeLost`, `SocketsOutlive`: `OneCaller`, which is one
  application thread and no `stop()` inside a callback; anything may fail. Each is needed:
  with `start(true)` a `stop()` from a second thread, or from a callback, returns with the
  loop still running, and one that comes before the worker is stored joins nothing. TLC
  finds each of the four violated with two threads.
- `LogoutsAlone`, `TakenAreAnswered`, `ClientServes`: `OneApplication`, which is one
  application thread; how often it starts the client is not bounded. With two threads
  TLC finds `LogoutAlone` violated: a `stop()` that runs while the other thread's
  `start()` has created its worker and not stored it joins nothing, and the destructor
  that follows has no `_started` to stop.

Sums, maps and flattened groups are defined by recursive functions and by the folds of
the community modules. What they give for every input is proved by well-founded induction
on a set: `EveryNat` for the natural numbers, and `EverySubset` for the subsets of a
finite set. `StepsExist` and `SumExists` show that there is a function with the recursive
equations, and the value the definition chooses is that one.

Only model-checked:

- liveness (`OnlyVerdictsDefeat`, `StopEndsLoop`, `RequestReturns`, `EveryRequestAnswered`,
  `DestroyEnds`, `GeneratorEnds`, `SomeoneEnters`), which the prover does not reach;
- the two violations, `StopReturns` and `CloneUsable`, which are counterexamples.

Every other property of a run is a theorem.

## Not modelled

- The generated headers (`ufe_cpp_fields_*.hpp`, `ufeconsts.hpp`), 66 thousand of the
  repository's 67 thousand lines of code: tables of constants, with nothing in them
  that executes. `Consts` models the program that writes the one kind; the program
  that writes the other is not in the repository.
- The values of fields, header setters and texts; printing; `ParseFromArray` failing.
- The configuration, whose only values that change behaviour (responder endpoint,
  poll interval) are a constant and an abstraction of `Lifecycle`; the exceptions,
  which are texts; the samples and the tests, which use the library.
- A message that cannot be serialised (218-219), which throws before anything is sent: a
  `request()` or `respond()` of the application that ends so changes nothing, and a reply of
  the worker goes to a catch as one that is out of turn does. Callbacks that throw what is
  no `std::exception`, which no catch block stops and which ends the process on the
  worker's thread. In `Client`, error callbacks that throw, which `Lifecycle` has.
- Callbacks that call `start()` or destroy the client; `zmq::poll` looking at the
  REP socket while another thread sends on it, which ZeroMQ does not define.
- The count a group keeps of its items, which only printing reads.
- In the deprecated API: groups inside group items (one level is counted), the
  implicit copy of a message, which deletes its groups twice, and `find_field()`
  comparing iterators of two maps, which the standard does not define.
- In `Client`: `start(true)` and failing sockets; `lifecycle_any` and `lifecycle_sync`
  have them, without the other parts. The run `client` has one start and one controller;
  the theorems have any number of starts.

## Plan

1. Done: the locks, the life cycle, requests, the back channel and messages, with the
   proofs above; the client composed of them with the service it implements; the
   deprecated messages; the generator.
2. Done: proofs of every safety property and every refinement that the runs check.
3. Left: in `Client`, `start(true)` and failing sockets, whose proofs would rest on
   `QuietInv`, which has them already; groups inside group items in `Deprecated`, as
   `Message` has them; liveness, with a prover that knows `ENABLED`.
