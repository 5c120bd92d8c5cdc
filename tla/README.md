# TimeGANWebServer: a verification project

TLA+ models, TLC runs and TLAPS proofs for the web server in `src/`. Paths and
line numbers are relative to `src/`. `PROJECT.json` maps every definition to the
lines it models; this file says how to read the models and what the runs and the
proofs show.

## 1. The system

The server is one process. The **main thread** runs an epoll loop
(`webserver.cpp:395`): it accepts, reads and writes all sockets, owns the timers
and reads the signals. **Worker threads** (`threadpool/threadpool.h`) take
connections from a bounded queue, parse the request, answer it into the
connection's buffer and arm the connection in epoll again. Main thread and workers
share `users[fd]` (an `http_conn` per descriptor) without a lock.

| Component | State | Operations | Talks to |
|---|---|---|---|
| Event loop (`webserver.cpp`, `Utils` in `lst_timer.cpp`) | `users`, `users_timer`, epoll registrations, `m_user_count`, `timeout`, `stop_server` | accept, read, write, hang-up, signal, tick | all below; the kernel |
| Time wheel (`timer/lst_timer.*`) | `slots`, `cur_slot`, per timer `rotation`, `time_slot`, `expire` | `add_timer`, `del_timer`, `tick` | calls `cb_func`, which closes the descriptor and decrements `m_user_count`; timers are `MemoryPool` objects |
| Object pool (`lock/memory_pool.h`) | free list, blocks | `allocate`, `deallocate` | the time wheel |
| Thread pool (`threadpool/threadpool.h`) | `m_workqueue`, `m_stop`, mutex, condition variable | `append`, `append_p`, `run`, `stop` | main thread; `http_conn::process`; MySQL pool |
| `http_conn` (`http/http_conn.cpp`) | buffers, indices, parser state, `iovec`s, `mysql` | `init`, `read_once`, `process`, `write`, `close_conn` | epoll, MySQL, Redis, model inference |
| MySQL pool (`CGImysql/sql_connection_pool.cpp`) | `connList`, two counters, semaphore | `GetConnection`, `ReleaseConnection`, `DestroyPool` | workers |
| Users and sessions (`http_conn.cpp`, `redis_manager.cpp`) | the `users` map, Redis connection, MySQL table | login, register, logout, `setSession`, `getSession`, `delSession` | workers; MySQL; Redis |
| Log (`log/`) | `m_fp`, line count, day, two buffers | `write_log`, `async_write_log`, `flush` | every thread |
| `sem`, `locker`, `cond` (`lock/locker.h`) | counter, mutex, condition variable | `wait`, `post`, `lock`, ... | pool, log |
| Start and end of the process (`main.cpp`, `~WebServer`) | `stop_server`, the members of `WebServer`, the static objects | SIGTERM, destruction | all of the above |
| Model inference, configuration, pages, load generator | — | — | — |

(`threadpool.h` ends in an unresolved merge whose two sides are the same `#endif`; the
models are of the code above it.)

**What is hard here.**

* *Two kinds of threads on one object.* Only `EPOLLONESHOT` keeps the main thread
  off an `http_conn` a worker uses; the timer ignores it.
* *Reused names.* Descriptors are reused by the kernel, timers by the object pool,
  `http_conn`s by descriptor. Pointers and numbers outlive what they named.
* *A dangling pointer that works.* In Reactor mode `dealwithread` fetches a timer,
  `adjust_timer` frees and reallocates it, and `deal_timer` gets the old pointer.
* *Counters that several parties change*: `m_user_count`, the semaphore against
  the list and the counters of the MySQL pool.
* *Flags announced without their mutex*: `threadpool::stop`.
* *Lost work*: a full queue drops a request and nobody tells the client.
* *Time arithmetic*: slots, turns, ticks and seconds.
* *Data that arrives or leaves in pieces*, into and out of buffers of fixed size: the
  parser and the writer.
* *An end in the middle of work*: workers serve what they took while the server is being
  destroyed.

**What makes each component correct.**

* Event loop: every event finds its timer; no timer is freed twice or left behind
  to close a stranger; main thread and workers never use one `http_conn` at once;
  answers go to the clients they are for; `m_user_count` is the number of connections; no
  connection is forgotten.
* Time wheel: a timer goes off after the right number of ticks, not a turn late and not
  before its time, exactly once unless deleted.
* Object pool: every object is free once or in use; what is freed is handed out
  next.
* Thread pool: accepted requests are processed exactly once, also during `stop`;
  no lost wake-up; `stop` ends; what a worker uses outlives it.
* MySQL pool: a connection is lent to one thread at a time and comes back unless its
  borrower loses it; nobody pops an empty list; waiters are served; none that came back is
  left open.
* Parser: the outcome depends on the bytes, not on how they were cut. Writer: the
  peer gets each byte once, in order. Users: who was told to be registered can log in;
  a session belongs to a user. Log: every line once, in the file of its day, on disk when
  the call returns. Locks:
  the semaphore built of mutex and condition variable is a counting semaphore.

## 2. Plan

| # | Module | What | State |
|---|---|---|---|
| 1 | `MemoryPool` (operators), `MemoryPoolTheorems` | object pool, proved | done |
| 2 | `TimerService` (abstract), `TimeWheel` | the wheel implements a countdown | done |
| 3 | `ThreadPool` | queue, condition variable, stop | done |
| 4 | `ResourcePool` (abstract), `ConnectionPool` | the MySQL pool implements it | done |
| 5 | `WebServer` composed with 1, 2 (as `TimerService`), 3 (its queue); `WebServerProofs` | life of the connections | done |
| 6 | `WorkerConnections` | `http_conn::mysql` between worker and main thread | done |
| 7 | `HttpParse`, `HttpWrite`, composed in `HttpConn` | requests and answers in pieces, one after the other | done |
| 8 | `Log` | file switch against asynchronous writer | done |
| 9 | `Accounts`, `Sessions`, composed in `Users` | registration and login over races and restarts; sessions over a Redis connection that is lost | done |
| 10 | `CountingSemaphore` (abstract), `Semaphore`; 4 shown to use it | the monitor of `locker.h` is a counter | done |
| 11 | `Shutdown` on top of 3 | SIGTERM and the order of destruction | done |
| 12 | `HttpRoute`, and the limits of both buffers in 7 | from a request to the code of its answer; full buffers | done |
| 13 | `flush` and durability in 8 | | done |
| 14 | `Descriptors`; composition of `WorkerConnections` with `ConnectionPool` and `WebServer` | descriptor numbers against `MAX_FD`; the discipline the pool rests on, under the server's real schedule | planned |
| 15 | `ShutdownProofs`, `ConnectionPoolProofs`, `TimeWheelProofs`, `WebServerProofs`, `HttpProofs`, `LogProofs`, `UsersProofs` | every safety property of the passing runs and every refinement, for all values of the constants | done |
| 16 | proofs of the type invariants of `HttpConn` and `Users` as theorems of their own; what holds of the writer without `HeadInTwo`, of the parser with `BodyCut` | | planned |
| 17 | how late a timer may be, as what `timer/README.md` promises of it | | planned |

## 3. The modules

### MemoryPool
A pool is a record of its free list and its number of blocks; objects are numbered
as the blocks that hold them are obtained. `Allocated`/`Allocate` are the result
and the effect of `allocate`, `Deallocate` the effect of `deallocate`.
`DeallocateAll` is a series of `deallocate`s in one of the `Orders` of a set. The
mutex is not modelled: only the main thread allocates and frees timers.

### TimerService and TimeWheel
`TimerService` is the promise: a timer is a number of ticks to survive. `TimeWheel`
is `time_wheel` with the alarm: `add_timer`, `del_timer`, `timer_handler` (which is
`tick()` and the next `alarm`) and `Second`, the passing of time. A slot's linked
list is a set, because no decision depends on its order; the order in which expired
timers are freed is nondeterministic. `expire` counts seconds down to 0
instead of holding a date. `WebServer::adjust_timer` deletes and adds again; in this module
that is two actions, in `WebServer` one.

### ThreadPool
The main thread (`append`, then `stop` from the destructor) and the workers of
`run()`. Sections under `m_queue_mutex` are single actions; the moment in which a
worker has found the predicate false and still holds the mutex (`"block"`) is
kept, because `stop` sets `m_stop` without that mutex. Spurious wake-ups happen.

### Shutdown
`ThreadPool` inside the server's end. `sig_handler` puts SIGTERM into the pipe,
`dealwithsignal` reads it and sets `stop_server`, the rest of the batch may still
append; then `Destroy` takes the parts of `Order` one by one: the descriptors and
`m_root` in the body of `~WebServer`, then the members against the order of
`webserver.h` (timers, `m_pool`, `users`), then the static objects against the order in
which `main` first used them. `m_pool` is `ThreadPool`'s stop: the next part waits for
its joins. A worker in `process()` uses its `http_conn`, the MySQL pool, the log, Redis
and `m_root`; that epoll is closed by then only makes its `epoll_ctl` fail.

### ResourcePool and ConnectionPool
`ResourcePool` lends resources to clients. `ConnectionPool` has one action per
observable step: the test of the list without the lock, the test in `reserve.wait()`,
its sleep and wake-up, the section that pops, the section that pushes,
`reserve.post()`. `Lose` is a thread that gives nothing back: `run()` releases what
`request->mysql` holds after the descriptor was armed, and by then that may be null
(`WorkerConnections`). Such a connection is in nobody's list for ever (`lost`), and for
`ResourcePool` lent for ever. A connection that `run()` gives back though another worker
uses it is not in this module: of that the pool can promise nothing. `DestroyPool` runs when the threads are gone, as the static pool is
destroyed after `main`. `reserve` and its waiters are an instance of `Semaphore`
(`Monitor`, with `place` for where a thread is in it; `ImplementsSemaphore`), so that
what is proved of the monitor holds of the pool's.

### WebServer
The composition. `conn[fd]` is the connection open on a descriptor, numbered in the
order they were accepted; the program does not have these numbers, they let the
model tell a descriptor from its next use. `epoll[fd]` is the registration.
`users[fd]` keeps what matters of `http_conn`: whether `m_sockfd` is set, whose
bytes are in the read buffer (`request`), whose request the prepared answer
answers (`reply`). `tm` holds the timers: `TimerService`'s counts, the `user_data`
of each and the pool. The main thread's steps are `epoll_wait`, one action per
kind of event (`Accept`, `HangUp`, `ReadOk`, `ReadFails`, `WriteFails`,
`WriteAgain`, `WriteDone`) and `timer_handler` at the end of a batch. A worker takes
a request, parses, answers, perhaps closes in two steps (`removefd`, then
`m_sockfd = -1; m_user_count--`) and arms the descriptor. It is not idle then: `run()`
goes on to read `request->mysql`, to release it and to set it to null (`Release`, place
`"release"`), while the `http_conn` may already be another's. What that does to the
connections of MySQL is `WorkerConnections`; `OneOwner` is about all other members.

Where the model differs from the text of the code, and why it may:

* In Proactor mode `ReadOk` queues before it adjusts the timer, in Reactor mode
  after. Queue and timers are disjoint, so one action stands for both orders. In
  both modes the main thread does the reading and writing.
* SIGALRM is read within the batch; the flag `timeout` is looked at after it.
  The model chooses `timeout` with the batch.
* A level-triggered listening socket accepts one connection per event, an
  edge-triggered one as many as there are. `accepting` may stay set after an
  `Accept`; this covers both.
* A descriptor is in a batch at most once (`BatchOnce`), as epoll reports it.
* `WriteDone` covers the write of nothing (`bytes_to_send == 0`).
* The one-second sleep of the real timeouts is absent: timers are counts of ticks.

Three constants of `WebServer` are properties of the environment or of the
configuration, not of the code: `Reactor` (the `-a` option), `WorkersMayClose` (some
answer exceeds the write buffer, so that `process_write` fails), `SlowWorkers` (a
request may take longer than its connection's timer). Properties that need one of them
to be false say so in their first line; `TimerBound`, `PoolSound` and `CountNeverAbove`
need none.

### WorkerConnections
`run()` around `process()`: the worker stores what `GetConnection` returned in
`request->mysql`, `process()` ends by arming the descriptor, and only then does the
worker read the member again, release what it finds and set it to null. Each of
these accesses is an action; the main thread may queue an armed descriptor again or
`init()` it in between, and the code does nothing to prevent it. The pool is its list
of free connections.

### HttpParse, HttpRoute, HttpWrite and HttpConn
`HttpParse` is `read_once()` and `process_read()` with `parse_line()` and the three
parser states, over a request that arrives in pieces of any size. A line's text is one
symbol, CR and LF are symbols of their own, so that a cut may fall between them.
Indices are the code's (`m_read_idx`, `m_checked_idx`, `m_start_line`). One turn of the
loop is an action. `BodyCut` says whether a read may end within the body.
A request's `length` is what its Content-Length says, which `atol` takes as it is,
negative or wrong. `READ_BUFFER_SIZE` limits what a read may bring: edge-triggered, a read that fills the
buffer is followed by a `recv` of nothing, whose 0 ends the connection;
level-triggered, the next read does (`ReadFull`). `m_string` is an offset into the
buffer and survives `init()`, as the pointer does.

`HttpRoute` is `do_request()` as a function of method, URL and what the file system,
Redis, the user map and the models say (`Outcomes`); `Replies`, the codes a request may
get, is what `HttpConn` takes of it.

`HttpWrite` is an answer from `process_write` to the end of `write()`. A byte is named
by what it belongs to and its place there, so `sent` tells what the peer got.
`add_response` has the limit of `m_write_buf` with the place of `vsnprintf`'s zero; the
code is the answer's, the lengths of head and body are free, the wording is left out.
An answer that does not fit closes the connection (`TooLong`). `Writev(n)` is one turn of
the loop: the socket takes `n` bytes, and the two entries of `m_iv` are moved on as
the code moves them, whatever the answer is. `HeadInTwo` says that the socket takes
what is in `m_write_buf` in at most two pieces. `m_file_address` is `"wild"` until it is
first set: neither the constructor nor `init()` does it.

`HttpConn` puts the three together on one `http_conn` and goes round: a request, its
answer, `init()` when the connection is kept, or the end of the connection and
`init()` for the next client on the descriptor. What `init()` does not reset, the
mapped file, the entries of `m_iv` and `m_string`, is there for the next request. That
main thread and worker take turns is `OneOwner` of `WebServer`. The properties of all
parts are stated here, and `Http(r)`, the requests that those of the parser are about:
lines that end with CR LF up to the first empty one, behind which is the body, whose
length a header gives, and gives right; a POST has a body. The run `http` has other
requests too, between those.

### Log
`write_log` in its parts (the clock, the section that chooses the file, the section that
writes or queues the line), the `flush()` that the macros call after it, and the
consumer with its two buffers. `flushed` counts the lines that have left the buffers of
the C library. The sections are single actions except the switch of files, in whose
middle `m_fp` is closed: the consumer does not take the mutex and may use it then. `put`
records with each line the file it was handed to, `Closed` for a line lost so. A
line is its writer, number and date, a file its day and part. `OpenFails` lets `fopen`
fail. `m_is_async` (the `-l` option) is chosen at the start, so that one run has both
modes.

### Accounts, Sessions and Users
`Accounts`: the table `user`, the map `users`, and registrations by several workers:
look-up without the lock, query and insertion under it. The table is the one of
`init.sql:1-4` and `README.md:196`, which has no key: an INSERT of a name that is there
succeeds. Any INSERT may also fail, for whatever reason, so that what the table of
`http/README.md:104-107` does, which has a key, is among the behaviours. So may the
SELECT of a start (`loaded`); the server then goes on with no users. A `find` that runs
into another worker's `insert` is undefined in C++; the model lets it see the map before
or after.

`Sessions`: Redis, `RedisManager`'s connection, and the login, visit and logout that
send a command over it, each call one action under `m_lock`. A broken connection shows
only when a command fails; then it is made anew and the command is not repeated. A
reply may be too late, with the command carried out, or an error, with the connection
kept. Redis keeps its keys over a restart. `breaks` and `failures` are history.

`Users` composes them: a login needs the map's password and begins a session under a
token that stands for the name (`who`); a restart of the server, at any point of any
worker, rebuilds the map from the table, opens a new Redis connection and leaves table
and sessions. Two faults of the code limit what is true of the whole, and the properties
name them instead of assuming them away: two workers may register one name (`NoRace(n)`
is that they have not), and the map takes a name whose INSERT failed (`unbacked`, until
the next start; `ghosts` are the logins to such a name).

### CountingSemaphore and Semaphore
`CountingSemaphore` is the promise of class `sem`. `Semaphore` is the monitor: a
thread tests the predicate under the mutex, sleeps, is woken by `post` or spuriously,
and tests again; a newcomer may be faster. A thread has called `wait()` exactly while
it tests or sleeps, which is the refinement mapping. The run that exercises it is
`pool_short`, where it is the pool's `reserve`.

## 4. The runs

| Run | Instance | Result |
|---|---|---|
| `pool_short` | 4 threads, 2 connections; threads may end, and lose a connection | `IInv` (types, `NeverPopEmpty`, `Inventory`, `Exclusive`, `CountersExact`), `EnoughForAll`, `WaitersServed`, and `ConnectionPool` implements `ResourcePool` and `Semaphore` |
| `wheel` | 3 slots, timeouts of 0, 1, 7 s, 2 timers, `TIMESLOT` 2, the loop up to 1 s late | `IInv` (types, `InItsSlot`, `PoolSound`), `NeverEarly`, `EveryTimerEnds`, and `TimeWheel` implements `TimerService` |
| `threads` | 3 workers, queue of 2, 4 requests, SIGTERM at any time, the server destroyed | `UsedWhileAlive`, `InOnePlace`, `NoLostWakeup`, `DrainedWhenStopped`, `AcceptedProcessed` |
| `threads_stop` | 2 workers, 1 request | `StopReturns` is **violated** |
| `shutdown_root` | 2 workers, 1 request | `RootWhileServing` is **violated** |
| `server_reactor` | Reactor, 2 descriptors, 2 workers, queue of 1, 3 connections, no slow worker, no failing answer | `PoolSound`, `NoOrphanTimer`, `OneOwner`, `ReplyToItsOwner`, `CountExact`, `NeverForgotten` |
| `server_full` | Proactor, 2 descriptors, 2 workers, 3 connections, slow workers, failing answers | `TimerBound`, `CountNeverAbove` |
| `http` | eight requests of up to 14 bytes, three of them with a wrong Content-Length or a body missing and one with no request line, for a buffer of 11, in both trigger modes, one after the other, cut anywhere but within the body; pages and messages with a head and a body of up to 2 for a buffer of 5, what is in the buffer in at most two pieces | `Recognised`, `HandsOverRequest`, `ParseEnds`, `InOrder`, `KeptWhenWhole` |
| `http_body` | a POST, cut anywhere | `Recognised` is **violated** |
| `mysql_race` | 2 descriptors, 2 workers, 2 connections | `NothingLost` is **violated** |
| `log` | 2 threads, 2 lines each, files of 2 lines, one midnight, both modes | `OnceInOrder`, `NoClosedFile`, `Durable`, `AllWritten` |
| `users` | 2 workers, 2 names, 2 passwords, 3 registrations, a table without a key, queries that may fail; 2 tokens, the Redis connection lost up to twice | `SessionHasUser`, `LoginHasRow`, `ConfirmedLogsIn`, `PasswordStays`, `OneFailurePerBreak` |

**What the violations show.** `threads_stop`: `stop()` sets `m_stop` and notifies
without the mutex; a worker between its test and its wait misses it, and the destructor
hangs. `shutdown_root`: the body of `~WebServer` frees `m_root`, and only `~threadpool`,
a member's destructor after it, joins the workers; one of them may still be in
`do_request`, which copies from that pointer. `http_body`: `parse_line` runs over an
incomplete body and moves the index `parse_content` counts from; the request is never
recognised. `mysql_race`: `request->mysql` is read after the descriptor was armed;
`init()` in between loses the connection for good.

**Known deviations.** While modelling, other places came up where the code differs from
what it or its documentation says. No violation run of its own stands for them; the
models have the behaviour, behind the constant or the action named here.

| Where | What | In the models |
|---|---|---|
| `timer/lst_timer.cpp:47` | A timer is to expire after `timeout` seconds (`lst_timer.cpp:32`), the wheel to tick once a second (`lst_timer.h:82`, `:87`; `timer/README.md:44`, `:61`), a connection to live for 15 s (`timer/README.md:139`). The alarm rings every `TIMESLOT` = 5 s, and a timer of 15 s lasts up to 80. | `TimeWheel` with `N = 60`, `TIMESLOT = 5`; no property bounds the lateness |
| `timer/lst_timer.cpp:163` | The timer closes connections that are not idle (`README.md:32`) but queued or being served. | `WebServer` with `SlowWorkers` |
| `http/http_conn.cpp:768` | `do_request` composes the 302 (`README.md:54`) into the buffer and returns `REDIRECT_REQUEST`, for which `process_write` has no case: a second status line, 400, follows in the same answer. | code `"REDIRECT_REQUEST"` of `HttpWrite` |
| `http/http_conn.cpp:715` | The 404 announces 13 bytes and sends 44 (`:716`). | the wording is not modelled |
| `http/http_conn.cpp:270` | Content-Length is believed, whatever it is: more than the body, and the server waits for what does not come; less or negative, and it hands over the wrong body and writes the terminating zero (`:287`) where the number says, before the buffer too. | `length` of a request of `HttpParse`; `Http` excludes it |
| `http/http_conn.cpp:287` | Level-triggered, a POST that ends with the buffer has its terminating zero written one past it. | `HandsOverRequest` with such a request |
| `http/http_conn.cpp:288` | A POST without a body leaves `m_string` as it was; `do_request` reads what an earlier request left, or a pointer that was never set. | `m_string` of `HttpParse`; `Http` excludes it |
| `http/http_conn.cpp:653` | `init()` drops what a client has sent behind its request. | `init` of `HttpParse`: the client sends one request at a time |
| `http/http_conn.cpp:643` | Once the head is out `write()` goes on from `m_file_address`, whatever the answer is; a CSV answer (`http/README.md:151`) ends at a null pointer. | code `"DIAGNOSE_CSV_REQUEST"` of `HttpWrite` |
| `http/http_conn.cpp:647` | The first entry is shortened by the bytes sent in all; after the second partial write too little is left in it, `writev` is offered nothing and returns 0, and the event loop stays in `write()`. | `HttpWrite` without `HeadInTwo` |
| `http/http_conn.h:78` | `m_file_address` is not set before the first answer with a file: `unmap()` (`http_conn.cpp:615`) calls `munmap` on what is in the memory, unless that happens to be null. | `"wild"` of `HttpWrite` |
| `timer/lst_timer.cpp:263` | Only `write()` unmaps the file: closing by timer in the middle of an answer leaves it mapped, and the next file answer forgets it. | `Close` of `HttpWrite` |
| `http/http_conn.cpp:329` | "Verify that the user is logged in" (`:328`) before the page and the diagnosis: the check is under `cgi == 0`, so a POST of `/diagnose` passes it. | `do_request` of `HttpRoute` |
| `http/http_conn.cpp:322` | A bad line is treated like an incomplete one and not answered (`:768`). | status `"bad"` of `parse_line` |
| `log/log.cpp:61` | The consumer uses `m_fp` without the mutex under which `write_log` closes it: lines go to a `FILE` that is closed and are lost. | `Fputs` of `Log`, asynchronous; `PutWhileClosed` in `AllWritten` |
| `log/log.cpp:174` | A file that cannot be opened leaves `m_fp` null, and the next line is written to it. | `Log` with `OpenFails` |
| `log/log.cpp:177` | A line and the choice of its file are two sections; around midnight a line may go to another day's file (`log.h:48`). | `ChooseFile`, `LogLine` of `Log` |
| `http/http_conn.cpp:533` | The name is not looked up again under the lock; with the table of `init.sql` two workers register it twice (`http/README.md:105`), both are confirmed, and after a restart the other password counts. | `Accounts`; `NoRace` in the properties of `Users` |
| `http/http_conn.cpp:536` | The map is changed whatever the query said; who was refused may log in until the next start (`http/README.md:25`). | `Accounts`; `unbacked` in the properties of `Users` |
| `threadpool/threadpool.h:174` | The MySQL connections that `mysql_race` shows to be lost are gone for good; with the defaults, 8 threads and 8 connections, from the first one on `GetConnection` may refuse or wait. | `Lose` of `ConnectionPool`; `Lost` in its properties |
| `http/http_conn.cpp:28` | A session lost with its command is confirmed to the client all the same (`README.md:38`). | `Login` of `Sessions` |

The runs that pass next to these show how far the code is right: the parser as long
as the body arrives in one read, the writer as long as the head leaves in two pieces,
the accounts for all names that were not registered twice at once and whose own INSERT did
not fail.

**Bounds.** A third of something is where cases stop being new: with two descriptors and
three connections a descriptor is reused while the other is in use; two workers can hold
the same descriptor when a timer closed it under the first; a queue of one fills up.
Three slots and timeouts of up to 7 ticks give timers that wait none, some or several
turns in every position of `cur_slot`. Four threads for two connections leave two
refused, asleep or stale in between, so that a post may meet a count above zero and a
sleeper; none, one or both of the connections may be lost. A head and a body of two,
behind or in the buffer, are cut in every way that differs: within, between and at the ends, and a message of two is too long or just fits.
Requests have no body, or a line end for a body whose terminating zero is the buffer's
last byte; others fill the buffer and exceed it; a Content-Length is right, too large or
negative. Of the codes, `FILE_REQUEST`, `DIAGNOSE_REQUEST` and `BAD_REQUEST` stand for the answers with a file, with a text and
without either. Two log threads of two lines each see a full file, a midnight, and each
other's switch. Two registrations may meet on one name and a third follow. Every bound
is a constant (`MaxAccept`, `MaxBlocks`, `MaxTasks`, `MaxDelay`, `MaxTimeout`, `MaxHead`, `MaxBody`,
`READ_BUFFER_SIZE` and `WRITE_BUFFER_SIZE`, `MaxLines`, `MaxDay`, `MaxRequests`,
`MaxBreaks`, `MaxCount`) and appears as a guard. `MaxBlocks` bounds the number of timers: with
two, one per descriptor, or an orphan and the timer of the connection after it, and the
loop accepts no more until a tick frees one; the theorems hold for any number.

**Fairness.** Weak fairness of each thread's own steps: the scheduler runs a thread
that can run. Nothing is assumed of which waiter a semaphore or condition variable
wakes, nor that clients send, threads end, or the server is stopped. In
`server_reactor` the loop handles what `epoll_wait` returned, and SIGALRM is read
again and again (`SF` on an `epoll_wait` that returns it), which `alarm(TIMESLOT)`
in `timer_handler` provides. In `wheel` time passes and the signal is read.
In `threads` main thread and workers go on and `process()` returns; SIGTERM need not
come. In `http` only the parser's loop goes on. The log's consumer writes and gets the mutex
while lines remain, and who holds the mutex to switch files lets go of it (with
finitely many lines nobody can keep the mutex from the consumer for ever).
Deadlock is checked in every run; finished systems stutter explicitly (`Ended`,
`ProcessEnded`).

## 5. The proofs

Checked by TLAPS for every value of the constants that satisfies the assumptions named
in the modules. These say that numbers are numbers, and besides: a block has at least
two objects, which `memory_pool.h` needs (`BlockAssumption`); descriptors are positive,
descriptors and workers are finitely many (`ServerAssumption`); there is a worker, as
the constructor of `threadpool` demands (`ThreadPoolAssumption`); threads and
connections are finitely many (`PoolAssumption`); the head of an answer fits into
`m_write_buf` and every request has an answer among `Codes` (`ConnAssumption`). A
theorem that needs more says so in its own `ASSUME`; the third column has it. Those are
the conditions behind which section 4 lists what the code does otherwise, and the runs
have them too.

| Module | Shows of the runs' properties | Needs |
|---|---|---|
| `MemoryPoolTheorems` | (lemmas: the pool keeps every object free once or in use, and gives back what it was just given) | |
| `WebServerProofs` | `TimerBound`, `PoolSound`, `CountNeverAbove`, `NoOrphanTimer`, `CountExact`, `OneOwner`, `ReplyToItsOwner` | the last four state `~WorkersMayClose`, the last two also `~SlowWorkers` |
| `TimeWheelProofs` | `IInv`, `NeverEarly`, and `TimeWheel` implements `TimerService` | `SI = 1` for `NeverEarly` |
| `ShutdownProofs` | `InOnePlace`, `NoLostWakeup`, `DrainedWhenStopped`, `UsedWhileAlive` | |
| `ConnectionPoolProofs` | `IInv`, `EnoughForAll`, and `ConnectionPool` implements `ResourcePool` and `Semaphore`; `Semaphore` implements `CountingSemaphore` | |
| `HttpProofs` | `Recognised`, `HandsOverRequest` | `~BodyCut`; the properties are about requests that are `Http` |
| | `InOrder`, `KeptWhenWhole` | `HeadInTwo`, no redirections and CSVs (`PlainCodes`) |
| `LogProofs` | `OnceInOrder`, `Durable`, `NoClosedFile` | `~OpenFails` for `NoClosedFile` |
| `UsersProofs` | `LoginHasRow`, `ConfirmedLogsIn`, `PasswordStays`, `SessionHasUser`, `OneFailurePerBreak` | |

Few of these properties are inductive as they stand. What was added, and why:

* `WebServerProofs`. `IInv == TypeOK /\ PoolSound /\ TimerBound /\ BatchOnce`: freeing
  one descriptor's timer must not free another's, which `PoolSound` excludes, and closing
  a descriptor must leave no event of it in the batch, which `BatchOnce` provides. The
  step of Reactor mode that uses a freed timer rests on `AllocateAfterDeallocate` (lemma
  `AdjustKeepsTimer`). `CountInv` adds that timers name descriptors (`TimersOfFds`), so
  that a timer that goes off decrements for a connection it has closed.
  `CountNeverAbove` counts the workers between `close` and `m_user_count--`
  (`Forgetting`). `OwnerInv` is `Apart` and `Fresh`: of a descriptor that is queued or
  served no event can arrive, and it is open, so that `accept` cannot give it out
  again; what is in the buffers of an `http_conn` is of the connection open on it.
* `TimeWheelProofs`. `Left(n)`, the distance to a timer's slot and its turns, is the
  countdown of `TimerService`: it is 0 exactly for the timers `tick` frees, and every
  tick takes one off, over the end of the array too. `TimeLeft` relates it to seconds: a
  timer does not expire later than its ticks take; the action property `NeverEarly`
  follows. How late a timer goes off is a deviation (section 4), not a property.
* `ShutdownProofs`. `IInv` adds to the pool's properties that a worker runs exactly when
  it has a request, that the one being appended is new, that a worker that found the
  queue empty holds the mutex until it sleeps (`EmptyWhileBlocked`: this is what
  `NoLostWakeup` rests on), and that workers leave only a stopped and drained pool. The
  server around the pool takes only steps the pool allows (`ServerUsesPool`), so all
  this holds in the server; `ServerIInv` ties the destruction to the pool's stop.
* `ConnectionPoolProofs`. `Inv` adds to `IInv` that connections are closed together
  after the last thread, and that list, users and the lost connections make up the
  stock. The monitor is
  treated on its own, as the pool's instance `Monitor`: its count never becomes
  negative, sleepers find as many threads on their way to the predicate as there is to
  take (`MonitorLosesNoWakeup`, by counting them), and its steps are those of a counter.
  With `PoolImplementsSemaphore` this gives the pool `NobodyWaits`, as long as there
  are as many connections as threads over and above the lost ones: a sleeper would be
  one thread more than the count leaves.
* `HttpProofs`, reading. `ParserInv`: while in the head, `m_start_line` is the beginning
  of a line and there is no line end between it and `m_checked_idx`: a CR whose LF has
  not come is looked at again (`InHead`); a Content-Length the parser has passed is in
  `m_content_length` (`LengthSeen`); behind the head,
  `m_checked_idx` is where the body begins, before and when it arrives (`InContent`, which
  is what fails when a read ends within it).
  `ParseLine` says what `parse_line` returns, by the least line end (`LeastNatural`).
  That a connection is kept for this request's sake needs no hypothesis (`SpecLinger`,
  `SpecTurns`).
* `HttpProofs`, writing. `Sending`: what was sent is a prefix of the answer, and the two
  entries of `m_iv` hold what is left, in the buffer and the file or in the file alone.
  Hence `OfferedIs`: `writev` is offered exactly the rest. `EntriesMove` is the step
  that fails without `HeadInTwo`.
* `LogProofs`. `IInv` adds that without a consumer both buffers are empty and that one
  that waits has written all it took: otherwise a line could overtake others. The file
  is closed only while its switch holds the mutex (`ClosedInSwitch`).
* `UsersProofs`. `TableInv`: a worker puts its password into `users` whatever its INSERT
  returned (`http_conn.cpp:535-536`). The lock makes that one step with the query
  (`OneInserts`, `AfterQuery`, `RowsKnown`); a name entered after a failed INSERT is in
  `unbacked`, and after a failed SELECT `loaded` is false. So the theorems need neither
  a key of the table nor queries that succeed: the properties themselves name the
  exceptions, a name with two rows (`~NoRace`, which a key excludes), a name in
  `unbacked`, and a start without `loaded`.
  `PasswordsStay` is by two lemmas: no step but a restart changes an entry
  (`EntriesStay`), and what a restart loads is the last row of the name
  (`RestartEffect`). `CookieInv` carries the table to the sessions: a token's user has
  a row and an entry (`Backed`), or the token was drawn on an unbacked entry (`ghosts`).
  `BreakInv` is `OneFailurePerBreak` with a strict bound while a break is unnoticed.

Only model-checked: liveness (`WaitersServed`, `AcceptedProcessed`,
`EveryTimerEnds`, `NeverForgotten`, `ParseEnds`, `AllWritten`), which TLAPS does not
support under fairness. The runs that end in a violation have nothing to prove.

## 6. Not modelled

Listed as components with status `not_modelled`: the block queue, which nothing uses
any more; `locker` and `cond`, single calls of the standard library; model inference
(numerical), configuration parsing, static pages, the load generator and build files.
Within `WebServer`: set-up of sockets, an `epoll_wait` that fails, and indices beyond
`MAX_FD`. Within the parser and the writer: the text of lines and headers. Within
`do_request`: the texts that name and password are taken from, and what the models
compute. Within the log: the destructor, which the detached consumer may outlive, and
formatting. Sessions: the drawing of tokens.
