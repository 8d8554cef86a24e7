# ClientServerApp in TLA+

TLA+ models, TLC runs and machine-checked proofs for the C++17 client/server
application of this repository: a TCP server and a TCP client built on one
thread pool, an SQLite log of user connections, and a viewer of that log. The
repository has no tests and almost no documentation, so every definition is
read off the code, in its *nix build (`_WIN32` undefined).

## 1. Inventory

| Component | Code | State | Operations |
|---|---|---|---|
| `NetworkThreadPool` | `TCP/inc/header.h`, `TCP/src/sourse.cpp` | vector of threads, queue of tasks, mutex, condition variable, atomic flag | `AddTask`, `ThreadWorkerLoop`, `StopThreads`, `StartThreads`, `JoinThreads`, `ResetJob`, destructor |
| `Server` | `Server/TCP` | status, listening socket, list of sessions and its mutex, a pool | `StartServer`, `StopServer`, `SetServerPort`, `HandlingAcceptLoop`, `WaitingDataLoop`, `ServerConnectTo`, `ServerSendData(By)`, `ServerDisconnectBy/All`, `JoinLoop` |
| `InterfaceClientSession` | `Server/TCP` | socket, connection status, access mutex, times, user name | `LoadData`, `SendData`, `Disconnect`, destructor |
| user records | `Server/TCP`, `Server/main.cpp` | `users` map and its mutex, table `UserInfo` | `AutentficateUserInfo`, `OnDisconnect`, `WriteToDB`, `writeToDatabase`, `clearUser`, `initializeDatabase` |
| `Client` | `Client/TCP`, `Client/main.cpp` | status, socket, handler and its mutex, a thread or a shared pool | `ConnectTo`, `SetHandler`, `HandleThreadPool`, `HandleSingleThread`, `LoadData`, `SendData`, `Disconnect`, destructor |
| wire framing | both `LoadData`, both `SendData` | byte stream of a socket | 4-byte length, payload |
| database viewer | `SQLite` | the table, read only | `readAllFromDatabase`, `calculateConnectionTimeForUser`, `printUserData` |
| sqlite3, build files, PC data | vendored, CMake, `SetDataPc` | - | - |

How they interact. `Server` and `Client` run everything they do in the
background as tasks of a `NetworkThreadPool`. The server's accept loop and
waiting loop are tasks that do one pass and submit themselves again; the
waiting loop turns each message into a task and each disconnected session into
another, and both kinds hold a reference into the session list. The disconnect
handler of `Server/main.cpp` writes the user's records to the database. A
console thread calls `ServerDisconnectAll`; the main thread sits in `JoinLoop`.
The client's reader is likewise a task that resubmits itself, on one pool shared
by all clients of the program.

What is hard, and what makes each part correct:

* pool: wake-ups, the flag that is raised without a notification, a queue
  swapped without its mutex, thread objects destroyed or joined twice. Correct
  means that an accepted task runs once, in order, or is discarded while nothing
  runs, and that workers do not sleep on work.
* server: tasks that outlive the list node they refer to, a list changed without
  its mutex, several tasks for one session, stop and restart. Correct means that
  handlers of a session do not overlap, a message is handled once, the
  disconnect handler comes last and once, exactly one loop of each kind runs, and
  no session is used after it is gone.
* user records: records of several live sessions of one user, unlocked reads,
  failed inserts. Correct means that each authentication is written once, with
  the duration of its session.
* client: chains of reader tasks, a disconnect from two threads, destruction
  under a pending task. Correct means one reader per connection, one close per
  socket.
* framing: partial reads. Correct means that what is handed to the handler is
  what was sent.
* viewer: it reads while the server writes. Correct means that what it prints is
  the time the user was connected.

`PROJECT.json` lists the components with their state of modelling, and the
hazards, each at its line.

## 2. Modules and plan

| # | Module | Abstract specification or composition | State |
|---|---|---|---|
| 1 | `ThreadPool` | implements `WorkQueue` | checked, proved |
| 2 | `ServerSessions` | over the queue of 1; implements `SessionService` | checked, proved |
| 3 | `UserLog` | implements `ConnectionLedger`; takes from `SessionService` that a session has one handler at a time | checked, proved |
| 4 | `PoolClient`: the client program and the client on a pool, with its descriptors | over the queue of 1, several clients | checked, proved |
| 5 | `ThreadClient`: the client with a thread of its own | - | checked, proved |
| 6 | `Framing`: byte stream to messages, all readers and writers | prefix of what was sent | checked, proved |
| 7 | `ServerSockets`: the descriptors of the server | one owner per socket | checked, proved |
| 8 | `LogViewer`: the viewer, on the table `UserLog` writes | `UserLog` with the viewer; time of the sessions | checked |

`MCThreadPool`, `MCServerSessions`, `MCUserLog`, `MCLogViewer` and `MCFraming` hold
the instances for TLC; `PoolClient`, `ThreadClient` and `ServerSockets` need none.

The proofs are in modules of their own, `ThreadPoolProofs` and so on, which extend
the module they are about (section 10). Every safety property of the runs but
`TotalIsTime` is stated by a theorem.

## 3. The thread pool

`ThreadPool.tla` has one action per step of a thread between two points where
others can interfere. The variables carry the members' roles: `terminate`
(`m_terminatePool_`), `queue` (`m_queueWork_`), `mutex` (`m_queueMutex_`),
`joinable` and `poolSize` (`m_threadPool_`); `pc` and `job` are a worker's place
in `ThreadWorkerLoop` and its local `work`; `call` and `arg` are the calls of
`AddTask` in progress; `own` is the life-cycle operation in progress; `tstate` is
a history of what became of each task.

* The wait is three steps: acquire the mutex and evaluate the predicate, then
  either go on or release and sleep in one step; a notified or spuriously woken
  worker acquires again. `notify_all` is a step of its own, after the push.
* `JoinThreads` visits the threads in order, blocks on one that has not left its
  loop and throws on one already joined.
* `ConfigureThreadPool` clears the vector, which is `std::terminate` when a
  thread is joinable. `WorkerPopEmpty` is `front()` of an empty queue,
  `SwapQueueRace` the unlocked swap against a push. The three end the process.

Assumptions: one thread, the owner, calls the life-cycle operations, and it is
not a worker (nothing in the repository resets a pool from one of its tasks);
the destructor runs when no other thread is inside `AddTask`.

`WorkQueue.tla` is what the callers are promised. `ImplementsWorkQueue` maps
`pending` to `queue` and a task still inside `AddTask` to a new one: a push is
`Accept`, a pop `Start`, the end of a task `Finish`, the swap `Discard`. What is
not obvious is that `Discard` needs no running task, and that order and
uniqueness survive restarts.

| Run | Question | Properties | Bounds |
|---|---|---|---|
| `pool_server` | is the pool safe as `Server` uses it | `NeverCrashes` | 3 workers, 4 tasks, 1 spurious wake-up |
| `pool_lifecycle` | what survives every order of all operations; what do several outside threads get, as in the client program; do tasks start and joins end | `TypeOK`, `NoSleepWithWork`, `TaskHasOneHome`, `SwapIsQuiet`, `TakeFindsWork`, `JoinIsAllOrNone`, `HungUntilSpurious`, `ImplementsWorkQueue`, `JoinEndsOrHangs`, `QueuedTaskStarts` | 2 workers, an owner and a submitter, 3 tasks, restarts with 0 or 2 threads |

Three workers are enough for one to run, one to sleep and one to be on its way;
a lost or doubled task needs two tasks, an order violation two in the queue.

Fairness in `pool_lifecycle`: each worker, each call of `AddTask` past its flag
test and the owner inside an operation take a step if they can for ever, which is
what the scheduler gives a runnable thread, and a task is assumed to return.
Nothing forces a call or a spurious wake-up.

What the runs show. Tasks are conserved and ordered, and no wake-up is lost to a
push. But the flag is raised without a notification, so a join may
wait for a sleeping worker: `JoinEndsOrHangs` says this is the only way it fails
to end, `HungUntilSpurious` that no running task can help, since `AddTask`
refuses once the flag is up. Crashes happen only outside the use `Server` makes
of the pool (`NeverCrashes` holds in `pool_server` only): stop and start without
a join, a second join in the destructor, a push from an outside thread during
`ResetJob`. Runs with crashes freeze the state at the crash.

## 4. The server

`ServerSessions.tla` models the loops and tasks over the FIFO queue of
`WorkQueue` with any set of workers. `list` is the order of the list nodes,
`node` the `unique_ptr` in each (owned, or released by a disconnect task), `obj`
the session object, `conn` its status, `access` and `clientMutex` the two
mutexes; `wire`, `sent`, `peer` are the client's side; `handled` and `gone` record
the handler calls; `ctl` is the control thread, the one thread that calls the
operations of the class that are not tasks (main thread and console thread of
`Server/main.cpp` do so one after the other). A data or disconnect task follows
its reference at each place where the code does: `Dangling` is a node that has
been erased, `Null` one whose pointer has been released. Either ends the
behaviour with `fault`, and so does the race of the unlocked `erase` with another
writer of the list. `LoadData` is modelled by its outcomes (a message, nothing,
the end); a frame it fails on is one of the ends. A session that `ServerConnectTo` made
after keep-alive failed is one whose peer is gone; that its closed number may be given
to another connection, which it would then read, is left to the descriptors (section 8).

| Run | Question | Properties | Bounds |
|---|---|---|---|
| `server_single` | one worker, start and stop: safe, in order, and is everything noticed | `NoFault`, `GoneIsLast`, `InOrderService`, `MessageHandled`, `EndNoticed` | 2 clients, 2 messages each (4 in all), 3 calls |
| `server_workers` | two workers, all operations | `TypeOK`, `OneLoopEach`, `HandlersExclusive`, `FaultNeedsDisconnect`, `AnyOrderService` | 2 clients, 2 messages in all, 2 calls |

Two calls are a start and one operation, restart included; the third is a second
restart. Two messages are what a data task and a disconnect task, or two data
tasks, of one session need to compete. Sessions and workers are interchangeable,
so `server_workers` uses symmetry; `server_single` has liveness properties and
does not.

What the runs show. With one worker, and a control thread that only starts and
stops, the server is safe and keeps the order of messages; the reason is the FIFO
queue, which puts every data and disconnect task of a pass before the next pass.
With more workers, or when the control thread walks the list or connects out, a
session can be used after its end, because the waiting loop submits a disconnect
task in every pass until one has taken the session, and because the list is
changed without `m_clientMutex_`. `FaultNeedsDisconnect` says when: never before
a disconnect task has begun. Until then handlers of one session exclude each
other and each message is handled at most once, in any order
(`AnyOrderService`). Restarting never doubles the loops (`OneLoopEach`); stopping
drops open sessions without the disconnect handler (`DropAll` in
`SessionService`).

Fairness in `server_single`: each worker and the control thread take their next
step if they can; nothing is assumed of clients, of new calls or of the join
inside `StopServer`, which may hang as shown for the pool. The liveness
properties are stated for one worker only: with more, the accept loop can starve
at `m_clientMutex_`, since `std::mutex` promises no fairness.

`CHECK_DEADLOCK FALSE` is set in all runs: the pool rests when nobody submits, the
destroyed pool and a crashed process stop, the server stops after a failed start,
and the user records when all sessions have ended.

## 5. The user records

`UserLog.tla` is what the handlers of `Server/main.cpp` do to the records. It takes
from `SessionService` that a session has one handler at a time and the disconnect
handler last, so a session stands for its handler and `pc` says where that is;
`MaxHandlers` is the number of workers. `users` maps a name to its records in
order (empty: not in the map), `end` is what `OnDisconnect` writes into a record,
`table` the rows of `UserInfo`; `auths` and `failed` are history. Ports are given
by `PortOf`, two of them equal, since `OnDisconnect` looks for the port only.

A section under `usersMutex` is entered and left in two steps. `WriteToDB` reads
without the mutex: if its read falls inside another handler's section that
changes the same thing the outcome is open (`WriteFindRaces`,
`WriteRecordFaults`), and a loop over records that were cleared or moved
meanwhile reads freed memory (`stale`). A vector moves when its length is a power
of two, as in the library the *nix build uses.

| Run | Question | Properties | Bounds |
|---|---|---|---|
| `log_serial` | what is written with one worker, and what does the viewer say of it (section 9) | `SafeReads`, `OneRowEach`, `TotalIsTime` | 3 sessions, 2 names, 3 authentications, 1 command |
| `log_workers` | what is written with two | `TypeOK`, `LeftoverOnlyRenamed`, `LoggedOnce`, `IncompleteRow`, `SomeRowsEach` | 3 sessions, 2 names, 2 authentications |

One of the names is the empty one, which a session also has before it sends
anything. Two sessions suffice for a conflict; the third has another port. Two
authentications give a shared name, a renamed session and a vector that moves;
the third a row behind a completed and an incomplete one.

What the runs show. With one worker reads are safe and no authentication has two
rows. With two, rows of users with several live sessions can be doubled or lost,
and the unlocked reads can go wrong; a user name used once by one session still
gets exactly one complete row. In both cases only the first record of a session
is completed, every session of a user writes the records of all of them, and what
a session entered under an earlier name stays in the map until a later session of
that name ends.

## 6. The client on a pool

`PoolClient.tla` is `Client/main.cpp` and the pool mode of `Client`. A client has
two threads, `<<"run", c>>` and `<<"console", c>>`; main destroys the clients from
the last to the first (`<<"main", c>>`) and then the pool. `status` and `sock` are
the members, `desc` is the descriptor table of the process: the owner, the state
and the unread messages of each open descriptor. `socket` gives the lowest free
number, so that a closed descriptor soon belongs to another client. A worker is in
`HandleThreadPool` of the client `task[w]`; the queue holds clients.

A message comes in two pieces, its length and its payload, and `LoadData` takes them with
two `recv`s, each on the descriptor `m_socketClient_` names by then (`ReadLength`,
`ReadPayload`). The second one waits without a limit: a worker is then `"blocked"`, and
`waits` says on which connection, which is not the client's any more when `ConnectTo`
overwrites the descriptor or the number is closed and used again. `Disconnect` shuts the
connection down before it closes it (`SD_BOTH` is 0 in the *nix build, which is
`SHUT_RD`), and that wakes the reader; a close alone leaves it waiting on a connection
without a number (`Lost`), which only the peer can end. As two chains may take each
other's pieces, a length is anything: nothing, too large, too large for the memory, or
good.

The handler is set and run in one step, and so are `shutdown` and `close`. `std::exit`
after a failed connect ends the behaviour. `ready`, `threw`, `relinked`, `overlap` and
`wrong` are history.

| Run | Question | Properties | Bounds |
|---|---|---|---|
| `client_pair` | who closes which descriptor; is everything read that clients on one pool are sent | `DescriptorsOwned`, `MessageRead` | 2 clients, 1 console, 1 worker, 2 descriptors, no reconnection, 2 pieces |
| `client_chains` | has a connected client a reader, do its chains end | `TypeOK`, `ReadyHasReader`, `ChainDrains` | 1 client, 2 workers, 2 descriptors, 2 reconnections, 1 piece |

Two descriptors for two clients make every number a reused one, and one worker for two
clients is what a payload that does not come takes from both. The first piece is a length
whose payload is missing, the second that payload or the other client's length. Two
workers let two chains of one client read at once, or one read while the other
disconnects. With two reconnections a client connects, is disconnected by its reader, and
connects again over an open connection, or finds no descriptor left. `Consoles` bounds
the clients whose console is used; on the others exit has been typed before anything
happened. That a connection is lost by connecting again, and in no other way, rests on
the proof of `DescriptorsOwned` (section 10): no run has two clients and reconnections.

Fairness: each worker takes its next step if it can (`FairSpec`); in `client_chains` a
call of `ConnectTo` or `Disconnect` that has begun also ends (`FairCallsSpec`), without
which a client might stay between the change of its status and the close for ever.
Nothing is assumed of users, main, the server or the network: a payload may never come.

What the runs show. Closing goes wrong only when two calls that change one client
overlap - the console's exit against the reader's `Disconnect`, or `runClient`'s
`ConnectTo` against the console's - and a connection is lost only by a `ConnectTo`
on a connected client. A client has a reader if its handler was set after the
connection; the handler that the console thread sets before does not count, since
its chain may have ended already, and after the `connect` command nobody sets one.

A payload that does not come holds a worker of the pool all clients share. What a client
is sent is read in the end unless all workers, or the workers of all its chains, are held
(`MessageRead`); the test of the status does not help, since nobody disconnects. A
chain of a disconnected client ends, since the shutdown wakes its reader, unless the
reader waits on another connection than the one that was shut down: `ConnectTo` was
called while the client was connected, calls overlapped, or the reader had found the
number with another client (`ChainDrains`). A destroyed client may still have a task on
the pool; it ends as soon as it looks at the status, but it looks at it in memory that is
gone. That the messages two chains of one client hand out are garbled is not a property.

## 7. The client with a thread

`ThreadClient.tla` is one client and its owner. `pointer` is whether
`m_threadClient_` is set and `thread` what it points to; the pointer is set after
the thread has begun (`SetHandler`, `SetPointer`). The reader is at `"payload"` in
the second, blocking `recv` of `LoadData`. A join of a joined thread, of the
calling thread, or of a freed one ends the behaviour with `fault`.

| Run | Question | Properties | Bounds |
|---|---|---|---|
| `client_thread` | does the reader end, and the call that joins it | `ReaderEndsFirst`, `DisconnectReturns` | 3 connections, 3 messages |

The third connection is one after a disconnect and a reconnect over an open one.

Fairness: the owner goes on inside a call, and the reader goes on unless it waits
for the peer. What the run shows: the reader never outlives a join. But a client
whose reader has had a connection cannot be disconnected twice or destroyed after
a disconnect without a fault - the pointer is not reset - and when the peer ends
the connection the reader joins itself; the two exceptions are a connection
replaced by a failed `ConnectTo` and an end noticed before the pointer was set. A
disconnect hangs only behind a message the peer has not finished.

## 8. Framing and sockets

`Framing.tla` is one direction of a connection, chosen in `Init` (`toServer`).
`stream` holds cells, each a few bytes; a frame has two cells of length and one or
more of payload, so that both can arrive, be sent and be read in part. `accepted` is
history, the messages with a payload of which `SendData` has sent anything. A length
read from anything but a whole header may be anything (`Lengths`), which covers
the uninitialised bytes of `size`. `damage` is history: why frames may have been
lost or mixed up - a frame sent in part (`cut`), text without a length (`raw`), a
header read before it was whole (`header`), a payload read before it was
(`split`), two readers in the middle of frames (`mixed`), the connection ended
between the two reads (`closed`). The six are hazards of the code, and the properties
except them: they say that nothing else damages a frame.

The server's side is that of an accepted socket, which does not block; the sockets of
`ServerConnectTo` do, and a server that reads one waits for a payload as the client does.
There is one chain of `LoadData`, and `LoadDataSync` as a second reader; the second chain
that `Client/main.cpp` may start is in `PoolClient`.

`ServerSockets.tla` is the descriptor table of the server process: `holder` says
whose a descriptor is, `listener` and `fd` are the members. `Disconnect` is three
steps, by the waiting loop, the control thread or the destructor in the disconnect
task, in any interleaving. What the tasks do besides is in `ServerSessions`.
`StopServer` is called in any status and leaves `m_socketServer_` as it is: a server that
is not running closes whatever has that number by then, a session of `ServerConnectTo`
or, as the member is zero before the first start, the standard input (`StdIn`; `f` stands
for the number `f - 1`). `restop` records it.

| Run | Question | Properties | Bounds |
|---|---|---|---|
| `framing` | is what is handed out what was sent | `TypeOK`, `FramesKept`, `MessageArrives` | messages of 2, 0 and 1 cells, 1 text without a length, lengths up to `MaxSize = 2` or huge |
| `server_sockets` | who closes which socket | `SocketsOwned` | 3 sessions, 3 descriptors, one of them the standard input, 2 starts |

Three messages give one before and one behind an empty frame, and a header of two cells
can be cut where a payload would be. Three descriptors hold the standard input, a
listening socket and a session; the next session gets a number used before, or the
standard input's once that is closed.

Fairness in `framing`: TCP delivers what was sent, the reader in a loop keeps reading, a
`LoadDataSync` that has its length goes on. What the runs show: without one of the six
accidents frames are kept and arrive, and no accident is excluded by the code: the
server's non-blocking second `recv` fails on a payload that has not arrived, the
client's pads it with zeros. The sockets of the server are closed by their owners unless
two threads are in `Disconnect` of one session, `ServerConnectTo` goes on after
keep-alive failed, or `StopServer` is called without a running server. The first two end
what is claimed; of the third `SocketsOwned` says what it can do: it may close the
standard input, and a number that is no longer the server's, but as it clears the
session list in the same call no session survives with a socket lost. A start that fails
keeps its listening socket and the next one loses it.

## 9. The viewer

`LogViewer.tla` extends `UserLog` with the viewer: a step is one `sqlite3_step`. While
the viewer steps through rows the server cannot insert (`ServerNext`), and the server's
handler loses the record; a query that starts within an insertion fails (`ReadBusy`),
which is reported, and the total is printed all the same (`PrintLine`). `local` holds the
variables the duration is scanned into, `Garbage` what they may contain before. `DayOf`
and `Lasting` give the sessions a day and a length.

`log_serial` checks the chain from the handlers to the printed line (`TotalIsTime`): for
a user whose records were all completed and written, the printed time is the sum of the
lengths of that day's sessions, below a hundred hours, where `formatTime` cuts. With an
error the line says zero, whatever the user's time is, and never a part of it: a query
that has got its first row keeps the lock. `log_total` is expected to fail: a row
without a duration adds whatever the local variables hold, which is not the time the
help text promises (`CalculatesTime`). One session lasts more than a hundred hours, two
carry seconds into minutes and minutes into hours; durations are not negative.

## 10. Proofs

`ThreadPoolProofs.tla`, for any number of threads, tasks and callers, from
`ThreadPoolAssumption` alone:

* `TypeInv`: types, plus what makes them inductive (a caller about to push holds a
  task; the owner configures at most `MaxThreads`) - `TypeCorrect`.
* `ControlInv`: the mutex is held exactly by a worker between acquisition and
  release, a thread that is not joinable has left its loop, only a running task
  is inside `AddTask`, the owner has joined what it passed. It gives `SwapQuiet`
  at once, and is used by every proof that follows.
* `WakeInv` adds that the queue is empty in front of a worker about to sleep -
  `NoLostWakeup`.
* `TakeFindsWork` is inductive over `ControlInv` - `TakeCorrect`.
* `JoinInv` describes the middle of a join - `JoinCorrect`, and with it
  `HangIsFinal` for the action property.
* `TaskInv` adds that a worker has a task exactly while it runs and that a task
  being submitted belongs to one caller - `TasksConserved`. Two lemmas on
  appending to and taking from a sequence without duplicates carry the data.
* `PoolImplementsWorkQueue` maps each step to a step of `WorkQueue` or a stutter,
  from `ControlInv` and `TaskInv`.
* `ServerPoolSafe` is `NeverCrashes` under `ServerUse`, the use `Server` makes of
  the pool: threads are only reset, joined and destroyed, and no outside thread but
  the owner adds tasks. `UseInv` says where the owner then is, that the flag is up
  only in a reset or once the pool is being destroyed, and that each thread of the
  pool can be joined until the join has come to it. Without the assumption the
  theorem is false (section 3).

`ThreadClientProofs.tla`, for any number of connections and messages, from
`ThreadClientAssumption`. `ReaderEndsFirst` is not inductive: `ThreadInv` ties the
thread, the pointer and the reader together (there is a thread exactly when the
pointer is set or `SetHandler` is about to set it; what was joined or freed has
ended), and `ServedInv` says how a connection with a reader can be lost, in each
place where the owner may stand. Both are kept by every step (`OwnerKeeps`,
`ReaderKeeps`), and give `ReaderJoined`; the types alone are `ThreadTypeCorrect`.

`ServerSocketsProofs.tla`, for any number of sessions, descriptors and starts, from
`ServerSocketsAssumption` (there are sessions, and their names are none of the others).
While nothing has overlapped and no session was made with a closed number, `Owning` says
that a session has the descriptor it holds unless a thread stands between the close and
the reset, and `Placed` what a thread in `Disconnect` knows in each place: after the
close the number may already be somebody else's, before the rest of the destructor it is
reset. The closes of `SocketsOwned` follow, step by step (`CloseKeeps`, `StopKeeps` and
their like), to `OneOwnerPerSocket`; `MinIn`, by the library's well-founded induction,
shows that a lowest free number exists. Types: `SocketsTypeCorrect`.

`ServerSessionsProofs.tla`, for any number of sessions, workers, messages and calls,
from `ServerAssumption`. None of the properties is inductive. The invariant `Inv` is
a conjunction of parts, each about one thing:

* `WorkInv`, `CtlInv`: what a worker or the control thread holds at each place.
  `QuietInv`: while the server is not connected, and while `StopServer` clears the
  list, nobody works and nothing is queued.
* `NodeInv`: how `list`, `node` and `obj` go together. No session is listed twice;
  a live session that has no node yet is carried by one accept task or by the
  control thread; an owned node is listed exactly while its session lives; at most
  one disconnect task is past the release of a pointer, and the node stays listed
  until that task erases it. `gone` counts the releases.
* `RefInv`: a task or an iterator refers to a session that is listed or has been
  released. `AccessInv`: a data task that has locked the mutex of its session holds
  it until its handler ends, and the pointer is not released meanwhile, since a
  disconnect task takes the mutex first. `Exclusive` follows.
* `LoopInv`: each loop is queued or running at most once, and exactly once where
  the server is up (`OneLoop`). `FaultInv`: while no node has been released every
  reference can be used (`FaultsNeedDisconnect`).

Steps are grouped by what they change (`WorkMoves`, `OnlyFails`, `CtlMoves`), so that
a part is proved once per kind of change and not once per action.

`ServerServiceProofs.tla` extends it with the refinement of `SessionService` and
with what holds for one worker. `MsgInv` follows a message: it has one task at most,
in the queue or with a worker, and none once it is handled; what a socket still holds
was sent after everything that was read from it. `ServiceMoves` says what each step is
for a user of the server, and with `MsgInv` gives `ServiceInAnyOrder`, for any number
of workers and all calls.

The other three theorems assume `SoleWorker`: one worker, and a control thread that
calls nothing but `StartServer` and `StopServer`, as `Server/main.cpp` does on a
machine with one core until the exit command calls `ServerDisconnectAll`. Without the
assumption all three are false (section 4). The reason is the order of the queue, `SoleInv`: the tasks of a pass of
the waiting loop stand before the next pass (`QueueOK`), a pass begins when none is
left and submits them for sessions its iterator has then left (`PassOf`), so that a
session has one task at a time, queued or running (`TaskOf`), and that task finds it:
`SoleNoFault` and `SoleGoneIsLast`. `OrderInv` adds that every message sent to a
session that can still be served is in the socket, with a task, or handled, unless
`StopServer` is discarding tasks. The message that reaches the handler is then the
first that was not handled yet (`NextInOrder`): `ServiceInOrder`.

`UserLogProofs.tla`, for any number of sessions, names, authentications and commands.
`Inv` adds to the properties what a handler may rely on: `Entered`, what is in the
map under a name was entered for that name, in order, and what is in the table was
entered; `NameUsed`, a session has the name of a record it entered; `Completed`,
`WriteToDB` finds the session's records completed, or an earlier one of that user and
port in their place; and `Sole`, which follows the record of a name used once
through `OnDisconnect`, `WriteToDB` and `clearUser`. From `Inv`: `LogTypeCorrect`,
`Leftovers`, `Incompletes`, `OneRowPerSole`, and `LogImplementsLedger` step by step.
With `MaxHandlers <= 1`, that is one worker, `Serial` is inductive as well: nobody
else is in a handler, the loop of `WriteToDB` stays within its records, and a record
in the map that has a row belongs to the session that is about to clear it. It gives `ReadsAreSafe` and
`LogWritesOnce`. With two handlers both are false (section 5).

`PoolClientProofs.tla`, for any number of clients (at least one: `Client/main.cpp` makes
four), workers, descriptors, connections and messages. `ReadyHasReader` is inductive as
it stands. For the descriptors, `Good` says what holds until two calls that change one
client have overlapped: no two threads are in calls for one client (`Apart`), what a
thread inside `ConnectTo` or `Disconnect` knows of the descriptor and the status at each
place (`Holding`), a connected client that is not in `ConnectTo` owns its descriptor
(`Linked`), and an open descriptor is known to its owner unless a second `ConnectTo` has
forgotten it (`Accounted`). `Ending` describes the end of the program, in which the
clients are destroyed when their threads have ended, and the pool after all of them.
`Room` is about the bound on pieces and serves the types only. A reader takes pieces and
waits, and changes no descriptor's owner, no status and no number (`ReadingFrame`), so
that `Descriptors` holds whatever the readers do. Theorems: `ClientTypes`,
`Descriptors`, `ReadersReady`.

`FramingProofs.tla`, for both directions and any number and sizes of messages, with
`Types`. What is proved of `FramesKept` holds while `damage` is empty, so `FlowInv`
says what is true until then (`Undamaged`) and nothing afterwards. One reader at most
is inside a frame, on a connection that is up (`ReadersOK`); what it is about to hand
out is the first accepted message that was not handed out (`HandedOK`). The stream
consists of frames in the order of the messages (`CellsOf`, `InOrder`), each cell
followed by the rest of its frame (`Rest`) and preceded by its beginning (`Start`),
except that the header of the first is gone while a reader is at its payload, whose
size that reader knows (`PayloadOK`). The payloads in the stream are the accepted
messages not taken yet, no more and no fewer (`Pending`). The lemmas say what taking
a header, taking a payload and adding a frame do to a stream of that form
(`HeaderTaken`, `PayloadTaken`, `FrameAdded`), and one lemma per step of the code
carries `FlowInv` over it: `FramesAreKept`. A connection that is reset leaves nothing
to read, and a disconnected one is no longer described, so that nothing is claimed
of what is lost with them.

Only model-checked: the liveness properties (`JoinEndsOrHangs`,
`QueuedTaskStarts`, `MessageHandled`, `EndNoticed`, `ChainDrains`, `MessageRead`,
`DisconnectReturns`, `MessageArrives`), which depend on fairness and are outside
the prover; `TotalIsTime`, a sum over sequences by recursion, and with it
`LogViewer`.

## 11. Not modelled

* The Windows branches.
* sqlite3, a vendored library. Its two files are 237 thousand of the
  repository's 239 thousand lines, so that the lines the models stand for stay a
  small share of all lines however complete they are; of the repository's own
  code nearly every function with state is modelled.
* Printing, the parsing of console commands, the collection of PC data
  (`SetDataPc`; that it can fail is in `PoolClient`), time stamps other than the
  length of a session, passwords.
* The starvation of the accept loop at `m_clientMutex_` (section 4), and that the
  exit command leaves the server program in `JoinLoop`: `JoinThreads` without the
  flag does not return in `ThreadPool`, and nothing in the repository says it should.
* Sends on a descriptor that has been closed or reused by then: `Framing` has one
  connection, `PoolClient` and `ServerSockets` have no sends.
* What a session of the server reads when `ServerConnectTo` made it for a closed number
  that another connection was given: `ServerSessions` has no numbers, `ServerSockets` no
  reads (sections 4 and 8).
* The blocking payload read of the server on the sockets `ServerConnectTo` made, with
  which a peer can hold the waiting loop; that read is modelled for the client, in
  `PoolClient` and `ThreadClient`.
* What two chains of one client make of the frames they share: `PoolClient` has the
  reads and the waits but not the contents, `Framing` the contents but one chain.
* Build files.

`CHECK_DEADLOCK FALSE` is set in the runs of sections 6 to 9 too: the programs end,
and bounded clients, peers and commands run out.

## 12. Faulty variants

Operators such as `WorkerPopNoPop` or `WaitGoneTwice`, defined just before the
action they imitate, are that action with one plausible slip. They are no part of
any specification; `PROJECT.json` pairs each property with a variant that breaks
it.
