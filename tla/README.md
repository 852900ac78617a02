# GateServer: TLA+ models and proofs

GateServer is the HTTP gateway of a chat program: a client asks it for a
verification code, registers, logs in, resets a password or fetches an icon; the
gateway uses Redis, MySQL and two gRPC services to answer. This directory models
the parts of the gateway where threads meet, and the handlers that use them.

## Inventory

| component | state | operations | talks to |
|---|---|---|---|
| `RedisPool` (src/src/RedisPool.cpp) | queue of connections, `closed_`, mutex, condition variable | `getConnection`, `returnConnection`, `close` | handlers |
| `MySqlPool` (src/includes/MySqlPool.h) | the same, `closed_` never read | `getConnection`, `releaseConnection`, `close` | `MysqlDao` |
| `gRPCServerPool` (src/src/gRPCMrg.cpp) | two queues (stubs, channels), `is_stop` | `get_stub`, `release_stub`, `get_Channel`, `release_Channel`, `stop` | login handler |
| `VarfiyGrpcClient`, `RPConPool` (src/includes/VarfiyGrpcClient.h) | vector of stubs | `GetVarifyCode`, `getConnection`, `returnConnection` | handlers, VarifyService |
| `LogQueue`, `LogSystem` (src/src/LogSystem.cpp) | queue of messages, `running`, the log thread | `push`, `pop`, `run`, `stop` | every component |
| `MysqlDao`, `MySqlMgr` (src/includes/MySqlDao.h) | none of its own | six queries | `MySqlPool`, stored procedures |
| `LogicalSystem` (src/src/LogicalSystem.cpp) | handler maps, filled once | six POST handlers, one GET handler | all of the above |
| `HttpConnection` (src/src/HttpConnection.cpp) | socket, request, response, deadline timer | read, dispatch, write, deadline | `LogicalSystem` |
| `Server`, `AsioIOServicePool` | acceptor; two io_contexts with a thread each | accept loop; round robin; `Stop` | `HttpConnection` |
| `singleton<T>` (src/includes/singleton.h) | one global mutex, one instance per type | `getInstance`, destructor | every manager |
| `main`, `ConfiMgr` | configuration maps | start, signal, exit; lookups | all |
| `RedisMgr` (src/src/RedisMgr.cpp) | queue of connections, `connected_`, mutex, condition variable | `connect`, twenty commands, `close` | no caller in the program |
| `RedisConPool` | Redis contexts | included nowhere | none |
| generated code (src/proto, src/includes/message*.h) | fields of fourteen messages | accessors, merge, serialise, parse, calls | the gRPC peers |

Handlers run on the two worker threads. They share the four pools, block in
them, and hold one pool's connection while they wait for another's. What is
hard: predicates tested and flags stored by threads in any order; connections
that are not returned on some path; an error value that passes for a result;
the order of log messages written by two threads; what is left when the process
stops. `PROJECT.json` lists each of these hazards at its line.

What makes each component correct:

- pools: a connection is in one place; no wakeup is lost; closing releases
  everyone; a call returns when connections come back;
- `GetVarifyCode`: no wakeup lost among its callers, how many RPCs can run, and
  what a failed one is answered;
- `LogQueue`: order, no loss before `stop` returns, `stop` returns;
- `LogicalSystem`: an account changes only behind a checked code; an answer says
  what happened; borrowed connections come back, each once; no deadlock between
  pools; every request ends;
- `Server`, `HttpConnection`, `AsioIOServicePool`: one listener at any time; a
  client that was accepted is listened to and its request ends, whatever the
  other worker is doing;
- `singleton`: one construction, and nobody waits on the shared mutex unless a
  constructor has failed; `main`: a signal ends the process;
- `RedisMgr`: a call gives up only while all connections are lent;
- generated messages: what is written is read back, merging agrees with reading,
  unknown fields survive.

## Modules

| module | models |
|---|---|
| `Monitor` | a `std::mutex` and a `std::condition_variable` (external): testing the predicate and falling asleep are separate steps, a notify picks any sleeper, wakeups may be spurious |
| `ConnectionPool` | abstract: a connection is idle or lent to one thread, or lost |
| `RedisPool`, `MySqlPool`, `gRPCServerPool` | the three pools in the steps of `Monitor`; each implements `ConnectionPool` under `idle <- elements of the queue` |
| `StubVector` | what one `getConnection` of `RPConPool` leaves in the vector |
| `VarfiyGrpcClient` | `GetVarifyCode` over `RPConPool` |
| `MessageLog` | abstract: messages are written in the order pushed, each once |
| `LogQueue` | push, the log thread and `stop()`; implements `MessageLog` |
| `ErrorCodes`, `MysqlDao` | the error codes; each query as the set of its outcomes |
| `LogicalSystem` | the six POST handlers on the worker threads, composed with `MysqlDao` and `StubVector` |
| `Singleton` | `getInstance`, a constructor that fails with the shared mutex held, destruction |
| `HttpConnection` | the life of one connection object: accept, read, handle, write, deadline, release |
| `Server` | the accept loop over the round robin of contexts, on top of the two |
| `Gateway` | the process: `Server` composed with `main`, the worker threads, the clients and a pool that can be exhausted |
| `UrlCodec`, `ConfiMgr` | pure operators: URL encoding, query parameters, configuration lookups, the port |
| `Message` | pure operators: the generated messages as tables of fields, their methods, services and calls |
| `RedisMgr` | the pool with a timed wait, its commands, `connect` and `close` |
| `RedisPoolProofs`, `MySqlPoolProofs`, `gRPCServerPoolProofs`, `VarfiyGrpcClientProofs`, `LogQueueProofs`, `LogicalSystemProofs`, `GatewayProofs`, `RedisMgrProofs` | the theorems about the module of that name, with the inductive invariant and the lemmas they rest on |
| `MCLogicalSystem` | symmetry sets for TLC |
| `MCGateway`, `MCVarfiyGrpcClient` | the laws of the pure operators, as assumptions TLC evaluates |

How state and actions correspond to code:

- **Pools.** `available` (`stub_pool`, `connections`) is the queue; `conn`
  (`stub`) is the local variable of each caller; `owner`, `asleep` and `pc` are
  the mutex, the sleepers and the place in the code. `Lock`, `Wait...`, `Take`
  are the steps of getting a connection. A critical section without a wait is
  one step, because no other thread acts while the mutex is held, except on the
  atomic flag: `ReturnCheck` and `ReturnPush` are two steps since the flag is
  read before the lock, and so are `CloseStore` and `CloseDrain`, `StopStore`
  and `StopNotify`. The entry test of `get_stub` is merged with its lock: the
  flag only goes from false to true, so a store between the two has the effect
  of one before both. `Forget` and `Drop` are callers that end without returning
  what they hold; `LogicalSystem` and `MysqlDao` have several. `FirstOfTwo` is a
  handler that returns its connection and returns it again: `user_register` does
  when the email is taken (src/src/LogicalSystem.cpp:181 and 195).
  `returnConnection` queues the pointer both times, and two handlers may then be
  lent one connection. `stale` are the handlers between the two calls, `twice`
  counts the connections queued a second time; `ExclusiveLoan` and
  `LendsExclusively` speak of the time until there is one, and promise nothing
  afterwards.
- **`VarfiyGrpcClient`.** The stubs are numbered. `AfterTake` is the move of
  `front()` followed by `pop_back()` (src/includes/VarfiyGrpcClient.h:47 and 48).
  The comments beside the two lines speak of taking the last stub and of removing
  that stub from the pool. The code takes the first and removes the last: the
  stub at the back is destroyed and an emptied pointer stays at the front, so the
  model has emptied elements, of which a call gets no RPC. No property presents
  this as intended; `RpcsExclusive` states its price.
- **`LogQueue`.** `Run`, `Loop`, `Lock`, `Wait`, `Take`, `Write` are the lines
  of `run()`; `StopStore`, `StopNotify`, `Join`, `DrainTake`, `DrainWrite`
  those of `stop()`. `pushed`, `written` and `mark` are history.
- **`LogicalSystem`.** An action runs from one wait or remote call to the next.
  What lies between never waits: writing the answer and giving connections back.
  The pools that implement `ConnectionPool` are counts, since nothing
  distinguishes their connections, and taking one is enabled when it is not
  empty. `body` is the sequence of error codes in the response, `effect` what
  the request really brought about, whatever it is answered: a password changed
  by a query that then throws or yields no row has the effect "reset". `Fault`
  lists the failures: a Redis or MySQL exception (before or after the statement
  took effect), a failed statement, a procedure that reports failure, a query
  without a row, a failed RPC.
- **`MysqlDao`.** An `Outcome` is one way through an operation: the value it
  returns, how often it has called `releaseConnection`, the accounts and the
  effect it leaves. The number is that of the calls on the path, so a path that
  released twice would show. A procedure that reports failure is 0, or NULL, which
  `atoi` makes 0, or -1, for all three that report a number; `LoginUser` passes the
  0 on, and its caller goes on as for an authenticated user
  (src/src/LogicalSystem.cpp:235). The model has this path, and no passing run
  says that a login answered Success was authenticated.
- **`Gateway`.** `pc` is what each thread is about to do, `phase[k]` where
  connection object `k` is, `service[k]` the context it was created on: its
  handlers run on that worker only, one at a time, and the handler of
  `async_accept` too, since its strand lives on the same context. `GetIOService`
  is two steps (`Pick`, `Listen`), reading with increment, then comparison with
  reset. `deaf` is set when an exception has left the accept handler. The
  deadline is two facts: `due`, sixty seconds have passed since the object was
  made, and `armed`, `check_deadline` has run. `getInstance` is one step for an
  instance that exists and two, with the mutex held between, for one that must be
  made. Of the request handlers of `LogicalSystem` is kept that they ask for
  singletons, wait for a MySQL connection, may lose it, and return or throw;
  `LogicalSystem` has the rest. After the signal the static instances are
  destroyed in any order; using one afterwards, or accepting on the freed
  io_context, may crash the process, which ends it too.
- **`RedisMgr`.** `wait_for` is the wait of `Monitor` with a way out, `TimeOut`,
  after which the predicate is evaluated once more with the mutex held
  (`LastTest`). The twenty operations differ only in the command and the value
  they answer: `Call`, `Command`, `Done` and `Failed` are their common steps, which
  the map shows in `set`, and `Operation` stands for all twenty. A command on a
  null pointer sets `crashed`.
- **`Message`.** Each generated class is a table of its fields, at their
  declarations in `message.pb.h`; `LoginReqOf` and its like build a message by the
  accessors of the class. The methods the generator repeats for every class
  (`Clear`, `_InternalSerialize`, `MergeImpl`, the parse table) are one operator
  over the table; the map shows it in one class, the one with the most kinds of
  field. Byte layout is abstract: an entry on the wire is a number, a wire type
  and a value.
- **Undefined behaviour.** Falling off the end of a function returns any value
  (the build sets no optimisation level); reading an empty optional string may
  see an empty string, a different one, an equal one, or crash the process.

Definitions named `Bug...` are faulty variants of the definition that follows
them; each breaks the property the mutants of `PROJECT.json` name, which shows
that the property depends on the code.

## Runs

| run | shows |
|---|---|
| `redis_pool` | exclusive lending until a handler returns a connection twice, no empty pop, `close()` wakes all, no lost wakeup, refinement of `ConnectionPool`; every `getConnection` returns unless handlers drop the last connection; spurious wakeups included |
| `mysql_pool` | exclusive lending and returning calls for `MySqlPool`, whose `close()` is followed by releases into the closed pool and releases no waiter by itself |
| `status_pool` | the same for `gRPCServerPool`; `stop()` without the mutex strands at most one thread |
| `varify_client` | no wakeup is lost; each null answer shortens the vector for good; calls return until it is empty; with the laws of `Message` |
| `log_queue` | order, nothing lost by `stop()`, refinement of `MessageLog`; every message is written, `stop()` returns |
| `answers` | under every failure: an account changes only by a request for its email, to the password asked for, its code found equal to the one in Redis (or none there); a reset answered Success left the account with that password, one answered with an error code changed nothing |
| `requests_live` | no path loses a StatusService stub; no path of a query releases its MySQL connection twice; if all busy workers wait, a whole pool has been lost: there is no hold-and-wait deadlock; every request ends until then |
| `gateway` | one listener at any time, so that the unlocked `GetIOService` is safe; each manager constructed once; an accepted client is listened to and a request that was read ends, unless its own worker is stuck in an exhausted pool or behind a failed constructor; a signal ends the process; with the laws of `UrlCodec` and `ConfiMgr` |
| `redis_mgr` | until `close()` a call gives up only while all connections are lent; no command loses one; every call returns, or crashes on its null pointer |
| `rpc_failure` | **violated**: a failed verification RPC is answered Success |
| `email_taken` | **violated**: a registered email is answered EmailIsRegister, then Success |
| `connection_leak` | **violated**: an unknown email loses a MySQL connection |

The laws, evaluated by TLC when the run starts, check the pure operators against
reference definitions over bounded inputs:

- `EncodingIsReversible`: an encoded string decodes to the original, for every
  single byte and all strings of up to three bytes of seven kinds;
  `ParametersAreFound`: every `key=value` between ampersands, and nothing else;
  `EncodedAgain`: what a client has encoded is encoded once more, not decoded;
- `EntriesAreFound`, `PortIsRead`, `MissingPortIsZero`: a configured value is
  found, a port up to 65535 is read as written, a larger one is truncated, a
  missing or mistyped one is port 0;
- `RoundTrip`: what is written is read back unless a string is not UTF-8, for
  all values of 2-bit and 3-bit integers in the place of int32 and int64;
  `Concatenation`: reading two messages in a row merges them; `UnknownSurvives`:
  a program with other fields passes on what it does not know; `AnswersArrive`:
  the peer gets the request that was sent and the caller its answer, by every
  method of every service; `FailureLooksLikeSuccess`: the default response of a
  failed call has the error code Success.

The findings in `PROJECT.json` quote the lines the violated runs contradict. The
models contain more, without a run of their own: a failed registration is
answered Success with an error code as the uid (`RegisterReply`); a login of which
the procedure reports 0 or NULL goes on as authenticated (`LoginUser`); a reset
without a code in Redis reads an empty optional (`Seen`); a reset may change the
password and be answered with an empty body (`SubmitReply`); a connection is
returned twice (`FirstOfTwo`); a stub is destroyed whenever one is taken
(`AfterTake`).

### Bounds

- Pools: three threads and one or two connections, so that a connection is
  contended by two sleepers, and two calls per thread, so that a returned one is
  lent again. One connection is one less than any number of waiters needs; more
  only reduce contention. One connection may be returned twice (`MaxTwice`):
  what is promised ends with the first. `status_pool` has four threads on two
  stubs, so that two can sleep while both stubs are lent when `stop()` comes.
  `redis_pool` also starts with no connection at all, when Redis did not answer
  the constructor's pings.
- `varify_client`: the four stubs of the program, nine calls, enough to empty
  the vector by every path and leave callers waiting.
- `LogQueue`: two message values and four pushes, so that the queue, the log
  thread and `stop()` can each hold one.
- `LogicalSystem`: two workers, as in the program. `answers` has two accounts
  with two passwords and two codes, so that uid and email may disagree,
  passwords and codes may be wrong, and two concurrent requests; `requests_live`
  has one account and four requests on pools of one or two, fewer than the
  program's, so that they run out within the bound and a second holder waits.
  `MaxRequests` bounds the requests, `MaxCalls` and `MaxPushes` the calls; all
  stop the model, hence no deadlock check.

- `gateway`: the program's two workers, three connection objects of which two
  get a client, so that each worker can have one and the third is the listener;
  one MySQL connection, so that one lost query exhausts the pool; one class whose
  constructor may fail. A third client would only repeat the round robin.
- `redis_mgr`: three threads on two connections, so that one can time out while
  both are lent; two `connect()` calls, one `close()`, four commands.

### Fairness

Each thread inside a pool, the log thread and `stop()` are scheduled (weak
fairness on their steps): they are operating system threads. In
`LogicalSystem` a remote call ends, with or without success. Starting a call, a
push, a spurious wakeup, an expiry and `close()` have no fairness. A waiting
thread has only weak fairness: the calls are bounded, so it is not overtaken for
ever; with unbounded competing calls the condition variable does not promise it.
`Gateway` has weak fairness for each worker, for `main` after the signal and for
the clock: threads run and time passes. A client, a signal and the completion of
an accept have none; a constructor or a query ends, or the worker counts as
stuck. `RedisMgr` has it for each thread, time included.
The pools also assume that spurious wakeups cease: the C++ standard allows them,
but a thread woken for ever would contend for the mutex for ever.

## Proofs

Every invariant and every safety action property that a run checks is also a
theorem, for every value of the constants their assumptions allow: any number of
threads, workers, connections, accounts and calls, with spurious wakeups or
without. Each `...Proofs` module follows one pattern. `IInv` is the inductive
invariant, a conjunction of named parts; `InitIInv` shows it of the initial
states, one lemma per part (`TypeStep`, `ControlStep`, ...) shows that each
action keeps it, and `Inductive == Spec => []IInv` puts these together; the
theorems follow from `Inductive`. TLC has checked each `IInv` on the run's
instance before it was proved.

| module | theorems |
|---|---|
| `RedisPoolProofs` | `TypeCorrect`, `LoansExclusive`, `PopsNonEmpty`, `CloseReleases`, `NoWakeupLost`, `Implements` (`Spec => LendsExclusively`) |
| `MySqlPoolProofs` | `TypeCorrect`, `NoWakeupLost`, `Implements` |
| `gRPCServerPoolProofs` | `TypeCorrect`, `StrandsAtMostOne`, `NoWakeupLost`, `Implements` |
| `VarfiyGrpcClientProofs` | `TypeCorrect`, `NullsCounted`, `NoWakeupLost`, `RpcsExclusive` |
| `LogQueueProofs` | `TypeCorrect`, `FifoHolds`, `FlushHolds`, `Implements` (`Spec => WritesInOrder`) |
| `LogicalSystemProofs` | `TypeCorrect`, `CodesGuardAccounts`, `ResetsAreHonest`, `StubsConserved`, `MysqlBounded`, `NoDeadlock` |
| `GatewayProofs` | `TypeCorrect`, `OnceConstructed`, `LoopGoesOn` |
| `RedisMgrProofs` | `TypeCorrect`, `NullMeansBusy`, `LoansExclusive` |

Hardly any of the properties is inductive alone:

- **Pools.** `LockInv` says that a thread owns the mutex exactly at the labels
  between lock and unlock, `HoldInv` that it holds a connection exactly between
  take and return, `NoEmptyPop` that what the test has found is still there when
  it is taken, because only the owner of the mutex removes anything. `CloserInv`
  and `StopInv` tie the flag to the progress of `close()` and `stop()`.
  `CloseWakesAll` follows because `CloseDrain` needs the mutex free, so no
  thread can be between its test and its sleep; `stop()` does not take the
  mutex, so one thread can, and no more, which is `StrandsAtMostOne`. For
  `RedisPool` the theorems on lending are qualified as its properties are:
  `LoansExclusive` and `Implements` hold up to the first connection that is
  returned twice, and the code breaks both after it. The refinements need
  `ExclusiveLoan` and two lemmas on queues without duplicates (`PopOne`,
  `PushOne`; `TailOfDuplicateFree`, `AppendDuplicateFree`).
- **Wakeups.** `NoLostWakeup` counts: as long as a thread sleeps, no more
  connections are queued than threads are awake for them. It needs that a queue
  found empty stays empty until its thread sleeps, and that only blocked threads
  are notified (`SleepInv`). Each take lowers both counts by one, each return
  raises both, since `notify_one` finds a sleeper. `MySqlPool` has the theorem
  and no run of it: there `NoLostWakeup` is a definition of the `Proofs` module,
  as it is for `gRPCServerPool` until `stop()`. `RedisMgr` has no such theorem,
  because `connect()` queues without notifying: its waiters depend on their
  timeout.
- **`VarfiyGrpcClient`.** `NoLostWakeup` counts the elements of the vector,
  emptied or not. `NullsShrinkThePool` counts elements, holders and nulls.
  `RpcsExclusive`, that one verification RPC runs at a time whatever the pool's
  size, rests on `FrontInv` (at the front of the vector stands the first stub or
  an emptied element, since taking leaves the front empty) and on `FirstOnce`
  (that stub is in one place).
- **`LogQueue`.** With a message in the hands of the log thread and one in those
  of `stop()` the order would depend on who writes first; `Turns` says that this
  does not happen, because `stop()` pops only after the join.
- **`LogicalSystem`.** `RouteInv` says which labels and MySQL operations each
  kind of request passes, `HoldInv` what a handler holds at each label,
  `EffectInv` that who is about to write an account has found its code equal or
  absent, which `CodesGuardAccounts` needs. The lemmas `RegUserOutcomes`,
  `LoginUserOutcomes`, ... state what each query can return and do;
  `ReleasesOnce` adds up that no path of any of them releases its connection
  twice, from which `MysqlBounded` follows. `NoDeadlock` follows from `HoldInv`:
  who waits while it holds something waits for MySQL, and who has a MySQL
  connection waits for nothing.
- **`Gateway`.** `OneTurn` (no two threads in `strat()`, no two accepts under way,
  not one of each) also holds after the signal, where `OneListener` is silent;
  `LoopInv` says that somebody has the turn until then; `ObjectLeft` that there is
  a connection object for it; `IndexInv` that the index of `GetIOService` leaves
  its range only between its two steps. The other parts tie a worker to the
  connection it serves and count the MySQL connections.
- **`RedisMgr`.** That null means busy rests on a count only `close()` lowers:
  before the first `close()` the queued connections and those in use are at least
  `PoolSize` as soon as an operation may begin (`StockInv`), and the queue is empty
  when a thread gives up (`FoundInv`). That a connection can be numbered at all
  is a counting argument too (`RoomInv`, `NewConnFresh`): no more are queued, held
  and still to come than `connect()` has been called for.

The assumptions are those named in the modules, which TLC evaluates in every run:

- null values and `NoThread` are not members of the sets they stand beside;
- threads, workers and stubs are finite sets, for the theorems that count them:
  they are threads of the process and objects of a constructor's loop;
- `Gateway` has at least one connection object, since `strat()` allocates one;
  `LogQueue` has one log thread;
- the StatusService pool of `LogicalSystem` is not empty: the constructor makes
  300 stubs without a condition (src/includes/gRPCMrg.h:18), where the MySQL and
  Redis pools may start with none because their servers refuse. Without a stub a
  login would wait although nothing has been lost;
- `RedisMgr` has a positive `PoolSize`: `connect()` makes three connections
  (src/src/RedisMgr.cpp:35).

Only model-checked: liveness, which needs fairness and ENABLED
(`EveryCallReturns`, `EventuallyWritten`, `StopReturns`, `EveryRequestEnds`,
`AcceptedIsServed`, `RequestEnds`, `ShutdownEnds`); the laws of the pure
operators (`UrlCodec`, `ConfiMgr`, `Message`), whose folds and strings are data to
induct on; and of course the three violations.

## Not modelled

- The channel half of `gRPCServerPool`: the same code on a second mutex, without
  a caller. `RedisConPool`: included nowhere, and the protocol of
  `gRPCServerPool` once more.
- Of the generated code: arenas, reflection, descriptors, swap, the debug checks
  of the accessors, and the asynchronous, callback, generic, raw and streamed
  variants of every call and service, none of which the gateway uses. The gateway
  hosts no service; the peers are external.
- The wording of answers and logs; the uid values themselves (a uid equal to an
  error code is ambiguous to the login and registration handlers, which the model
  does not show). `LogSystem::log` is one step that succeeds; if the file does
  not open the message is dropped.
- HTTP parsing and the sockets, which belong to Boost: a read yields a request or
  an error, a write ends when the client has taken it or has gone.
- The queued log messages lost because no normal exit calls `LogQueue::stop()`:
  `PROJECT.json` names the hazard, and there is no promise of the code to check.

## Plan

1. Done: the pools, the log queue, the handlers, the accept loop with its
   connections and workers, the singletons, start and shutdown, `RedisMgr`, the
   messages, the conversions; every safety property the runs check, proved.
2. Proofs left: which requests lose a MySQL connection (the lost ones are those
   whose query threw or fell off its end), as an action property of
   `LogicalSystem`; that a request of `Gateway` is answered at most once; an
   abstract specification of `RPConPool` (a token and a number of blanks) and
   its refinement.
3. The channel half of `gRPCServerPool`, should it get a caller.
