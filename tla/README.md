# wasapi in TLA+

wasapi is a C++ application server: a web server forwards requests to it over FastCGI, browsers
reach it over WebSocket or plain HTTP, and a user callback produces the responses. These modules
model its two event loops, the worker closures they feed, the thread pool and the arenas they
share, the file cache, and what a worker makes of the text of a request; TLC checks them on small instances and TLAPS proves the central invariants for every instance. Paths
below are relative to the repository's `src/` directory (`fcgi-connection.cpp` is
`src/src/fcgi-connection.cpp` in PROJECT.json).

Contents: 1 the system, 2 the modules, 3 the runs, 4 fairness, 5 the proofs, 6 what the model
found, 7 simplifications, 8 what is not modelled, 9 what is planned next.

## 1. The system

| Component | State it keeps | Operations | What makes it correct |
|---|---|---|---|
| Arena pool (`memory.cpp`) | `in_use` per arena, the atomic `available_count` | `create_arenas`, `get`, `release`; the counter changes under the lock and is read without it, by its users in the two servers | the counter is the number of free arenas; an arena has one holder; none is lost |
| FastCGI records (`fastcgi.cpp`) | the unparsed bytes of a connection, the streams of a request | `process_buffer`, `fail_request`, dispatch when both streams have ended | limits hold; only complete requests are dispatched, each once |
| FastCGI connections (`fcgi-connection.cpp`, `request.*`) | `g_conns` with one `Connection` each (buffers, `requests`, `closed`, `waiting_for_arena`, `active_workers`, `epoll_mask`), `g_pending_output`, `g_close_queue`, `g_waiting_conns`, `g_accept_paused`, eventfd, timerfd | accept loop, `handle_io`, `flush_connection`, sweep, `close_connection`, `release_request`, `process_waiting_connections`, `process_pending_output`, `housekeeping` | worker pointers stay valid; responses reach the peer once; pausing, deferring and closing never strand a peer or an arena |
| Worker pool (`worker.cpp`) | a deque of closures, threads, a mutex and a condition variable, `stopping`, `running` | `enqueue` (without the mutex), `run`, `start`, `shutdown` | closures run once each, in order; none is forgotten; shutdown returns |
| WebSocket and HTTP server (`websockets.cpp`) | `clients` (buffers, message being assembled, handshake state), `g_pending_frames`, eventfd | accept, handshake, frame loop, `schedule_message`, `schedule_http`, `send_all`, hand-back | messages arrive whole, in order, once; answers are sent once; arenas come back |
| Response callback (`wasapi-server.cpp`) | none | `on_request_ready` fills the response and sets `RESPONDED` | every pending request is answered |
| File cache (`fileio.cpp`) | `file_cache`, `total_cache_size`, the files | `read_entire_file_cached` (three regions under `cache_mutex`, `stat` and `read` between them), `write_entire_file`, expiry and eviction | the sum is right and bounded; what was loaded is returned; an entry is stale only for a known cause |
| Request parsing (`http.cpp`) | `params`, `cookies`, `files`, `context` of one `Request` | query, cookies, urlencoded, JSON and multipart bodies, in the order of the closure | the callback sees what the client meant |
| Variables and JSON (`dynamic_variable.cpp`) | values | `parse_json`, `to_json` | what is written is read back |
| Sessions (`session.cpp`) | `session`, `session_id`, a file per id | `session_start`, `_load`, `_save`, `_clear` | the text that is saved can be read |
| Configuration (`config.cpp`) | `global_config`; endpoint files | command line; `load_kv_file` | each key gathers its values in order |
| Logging (`logger.*`) | none | output | see section 8 |

How they interact:

* The FastCGI IO thread reads records, builds each `Request` at the start of an arena, and when a
  request is complete captures a raw `Request*` and a raw `Connection*` in a closure for the worker
  pool. The worker parses, then pushes the raw `Request*` on `g_pending_output` under a mutex and
  writes an eventfd. The IO thread drains the eventfd, swaps the list, and calls the user callback
  for each entry. `worker_active` and `active_workers` are all that keeps the objects alive.
* Freeing a request (`release_request`) resumes `accept()` if it was paused and calls
  `process_waiting_connections`, which parses and flushes *other* connections in the middle of the
  loop that called it. The call stack of the IO thread is therefore part of the state.
* The worker's closure loads the endpoint file through the file cache, parses cookies, query and
  body into the request it holds, and starts a session if the client sent the session cookie. The
  IO thread, calling the callback, saves the session through `write_entire_file`, so workers and
  both IO threads meet in the cache. The pool is started once by `main` and shut down by the
  destructor of a global; a signal ends the process with `_exit`.
* The WebSocket IO thread does the same with closures that own their request, and gets its answers
  back addressed by descriptor number. It takes arenas from the same pool but gives them back with
  `ArenaManager::release` alone.

Hard behaviours: two IO threads and the workers interleave; raw pointers outlive locks; nested
calls change containers that are being iterated; a batch of epoll events goes stale as it is
worked off; peers close, reset, abort and split records anywhere; sockets fill up; arenas run out.
The list, with a line for each, is under `hazards` in PROJECT.json; every hazard names the
properties that would catch it, or says why none does.

## 2. The modules

| Module | Models |
|---|---|
| `ArenaPool` | `ArenaManager`: `Get`, `Release`, `Exhausted` (the unlocked test of `available_count`), `PoolAccounting` |
| `FcgiProtocol` | the decisions of `process_buffer`: `ApplyRecord` (limits per pair and per record), `FailRequest`, `Ready` (the dispatch condition) |
| `FcgiState` | the globals, `Connection`, `Request`, closures, sockets, and the call stack of the IO thread |
| `FcgiPeers` | web servers, the timer, and the WebSocket threads as users of arenas |
| `FcgiConnection` | one action per step of each function of the IO thread and of the closure; `Next`, `Spec`, `Fairness` |
| `FcgiProperties` | types, safety and progress properties of the above |
| `TaskPool` | the abstract pool: what is accepted is run once, begun in order, or dropped with no worker left |
| `WorkerPool` | `worker.cpp` at the level of single memory and synchronisation operations |
| `PoolProperties` | its properties, and the refinement of `TaskPool` |
| `FileCache` | `fileio.cpp`, one action per region under the mutex and per system call; the files themselves, their editors, `session_clear` |
| `FileProperties` | its properties |
| `HttpText` | the readers and writers of query, cookies, multipart bodies and endpoint files, as operators on byte sequences |
| `JsonText` | the JSON reader and writer |
| `HttpClient` | how a client, and the author of an endpoint file, put a request into text (not in the repository) |
| `HttpRequest` | the steps of the closure of one request, the callback, and the text of the session file |
| `HttpProperties` | what the parsers owe, stated without their text |
| `WsServer` | the WebSocket IO thread, its closures, its clients, and the FastCGI server as a user of arenas |
| `WsProperties` | its properties |
| `ArenaPool_Proofs`, `FcgiSafety_Proofs`, `FcgiObjects_Proofs`, `FcgiWorkers_Proofs`, `FcgiResponses_Proofs`, `WsServer_Proofs`, `FileCache_Proofs`, `WorkerPool_Proofs` | the proofs |
| `MCFcgi`, `MCWs`, `MCPool`, `MCFiles` | instances for TLC |
| `MCFcgiConfigs` | five configurations of the FastCGI server in one specification |
| `MCHttp` | the sets of requests |

**State and code, FastCGI.** Variables carry the names of the globals they stand for. `conn[fd]`
is the `Connection`, `req[a]` the `Request` last built in arena `a`: a `Request*` *is* an arena,
so a stale pointer reads whatever the arena holds by then. Serial numbers, which the code does not
have, only serve to say that a pointer dangles; `dispatches` and `ends` only count for properties.
`taken`, `closing` and `to_close` are the local copies `process_pending_output`, `handle_io` and
`housekeeping` work on. `stack` is the IO thread's call stack, innermost first: a frame names the
function and the place in it (`fcgi`: the record loop; `parsed`: its return to `handle_io`;
`outflush`, `sweep`, `erase`, `closing`, `cleanup`, `expire`, `housekeeping`, `waiting`, `waited`,
`swap`, `pending`, `accept`) with the iterators and counters that are live there. `Call`,
`Become` and `Return` push, change and pop frames. `batch` is what `epoll_wait` returned and has
not been handled; `ready` is epoll's edge-triggered ready list. When `accept()` fails ("accept" in
`Env`) the accept loop ends with a backlog (`AcceptDone`), and as long as nobody connects the
listening socket may be left out of what `epoll_wait` returns (`EpollWait`).

The sweep and `cleanup_connection_requests` hold an iterator into a `requests` map while a nested
parse may insert into the same map. `LoopsStayValid` is about what such a call takes away. What it
inserts may rehash the map, which moves the loop's place in it: from `Buckets` entries on,
`ParseFault` may set `fault` to "rehash" (a map that grew before has room, so it need not). libstdc++
gives a map 13 buckets with its first entry and rehashes at the fourteenth. An insertion while a
loop is in the middle finds at least one entry there, so the first allocation does not count.

**State and code, WebSocket.** `client[fd]` is `struct Client`. `pc` is where the IO thread is:
in `epoll_wait`, in the plain HTTP branch, in the frame loop, before `send_all`, or between
draining the eventfd, swapping the list and giving the answers out. What arrives is a sequence of
units (a frame, a request head, a piece of a body, or the first part of one); each piece has a
name that nothing in the code looks at, so that the content of a message can be compared with
what its sender sent.

**State and code, worker pool.** `slot`, `start` and `finish` are the memory of the deque. A push
constructs the task in the slot at the end (`Construct`), moves the end on (`Advance`) and notifies
(`Notify`), none of it under `mtx`; a worker locks, evaluates the predicate, waits or takes, and
runs. Between `Test` and `Sleep` the worker holds the mutex but is not yet waiting, which is where a
notification is lost. `control` is the thread that calls `start` and `shutdown`.

The memory of a libstdc++ deque comes in chunks (16 closures each) to which a map points (8 entries at
first). A push that fills its chunk needs room at the back of the map for the next; without it, it
moves the map's entries, for which it reads the iterator to the front (`ReadStart`) and writes it
back (`WriteStart`): with a short queue about every 64th push. `node` is the chunk that iterator
names. A pop that empties its chunk frees it and moves `node` on (`Leave`, then `Take`; the drain of
`shutdown` likewise, `DrainLeaves`, `DrainPops`). How much room there is depends on the whole
history; it is left open, so any push that fills a chunk may move the map.

Two things corrupt the deque: two pushes at once, and a push that moves the map while a pop leaves a
chunk. Either sets `broken`, and from then on nothing is claimed. What the properties do claim is
that a push and a pop at the same time are harmless otherwise, although only one of them holds the
mutex. That the damage is possible is described in section 6.

**State and code, file cache.** `file_cache` and `total_cache_size` are the globals, `call[c]` the
locals of thread `c`'s call with the place it has reached. Contents are sequences of blocks named
by the change that wrote them, so that old, new and mixed contents differ. One clock serves
`steady_clock` and `mtime`, which has whole seconds (`MTime`). `Evicts` describes the result of
`evict_size_unlocked`: a set of entries closed under "older", the last of which was still needed.
`churned` and `lost` are not in the code. `churned` collects the files that changed in a second that
is already the mtime of an entry, of a load under way or of a write that is about to make an entry;
`lost` those a write to which failed at `close()`, which nobody looks at (`CloseFails`).

**State and code, request text.** `HttpRequest` takes one request through `at`, the statements of
the closure in fcgi-connection.cpp:278-289, then the callback and `session_save`. `sent` is what
the client meant; the texts are made by `HttpClient` and by `build_query`, read by `HttpText` and
`JsonText`, and compared by `HttpProperties` with what was meant. A number is `m * 10^e`; `Printed`
prints it as a C++ stream does, to six digits and from a million on, or below 1/10000, with an
exponent, and `parse_number` reads a sign, digits and one point. `_json`, `_json_error`, `name`
and `filename` are abbreviated to one or two bytes.

**Undefined behaviour.** A use of a destroyed object cannot be continued meaningfully:
`PendingFault`, `TaskFault` and `ParseFault` set `fault`, after which only `Undefined` happens.
The runs thus check what holds up to that moment, and say separately (`PendingLive`,
`WorkersHoldLiveObjects`) where it can come about. A destroyed but not overwritten `Request` is
still read by `release_request`'s callers; of it only `RESPONDED` is taken to survive.

**Definitions named as mutations** (`SweepableInUse`, `GiveOutQuietly`, ...) stand before the
definition they vary. They are what a plausible slip in that code would be, and are used by no
specification; each property of each run has one that breaks it.

## 3. The runs

All bounds are constants: `MaxConnects`, `MaxRequests` (connections and requests ever begun),
`MaxWs`/`MaxFcgi` (arenas the other server holds), `SndBuf` (what a socket takes), `MaxMsgs`,
`MaxParams`/`MaxStdin` (the limits of `fastcgi.cpp`, scaled down). `Env` says which liberties the
peers take, so that each run spends its states on one question.

| Run | Instance | Question and answer |
|---|---|---|
| `FcgiConfigs`, `faults` | 1 descriptor used by 2 connections, 1 arena, 2 requests, peers that abort, close, reset; timeouts; failing `accept()` | The closure's pointers live (`WorkersHoldLiveObjects`), a request dies only when answered or cut off and no worker uses it (`ReleasesSafely`). |
| `FcgiConfigs`, `parallel` | 1 connection, 2 ids in 2 arenas, 2 workers, closing peer | The closures' pointers live with two workers too (`WorkersHoldLiveObjects`), and a push between the drain of the eventfd and the swap, or during the loop behind it, wakes the IO thread (`NoLostWakeup`). |
| `FcgiConfigs`, `keep` | 2 keep-alive connections, 1 arena | The response path when requests are deferred: `PendingLive`, `ResponsesAreOwed`, `DispatchedOnce`; unsent output is watched for and no connection waits while an arena is free. The loops over a connection's requests stay valid, with room in the map (`LoopsStayValid`). |
| `FcgiConfigs`, `records` | 1 connection, records of size 1 and 2 against limits of 1, management records, wrong versions, split records | Only a complete request is answered, and none is ended twice (`AnswersComplete`); each is dispatched once (`DispatchedOnce`). |
| `FcgiConfigs`, `shared` | multiplexing peer, 1 arena also taken by a WebSocket thread | What holds although a deferred BEGIN_REQUEST is replayed: `AnswersComplete`, `ResponsesAreOwed`, and that unsent output is watched for. A connection is parsed from inside the release of its own sweep or cleanup: `LoopsStayValid`, with a map of one bucket, up to a rehash. |
| `FcgiLive` | 2 connections, 1 arena, well-behaved peers, fairness | `CompleteAnswered`, `AcceptResumes`; with them `TypeOK`, `PoolAccounting`, `PausedMeansExhausted`, `EntriesAreLive`, `WaitingIsListed`, `WorkersAreCounted`, `NoArenaLost`, `UnsentIsArmed`, `DispatchedOnce`, `WorkersHoldLiveObjects`, `PendingLive`, `ReleaseIsSafe`, `OnlyCompleteAnswered`, which are also proved. |
| `WsMessages` | 1 client taking every liberty, 2 arenas, the FastCGI server taking one | `WsTypeOK`, `MessagesAreWhole`, `WsNoLostWakeup`, `WsUnsentIsArmed`. |
| `WsLive` | 2 successive clients on one descriptor, fairness | `AnsweredOnce`, `ArenasAreHeld`, `WsAnswered`. |
| `Pool` | 2 workers, 2 producers, 2 tasks, chunks of one task, shutdown and a second start, fairness | `PoolIsFifo` (the refinement), `AcceptedRuns`, `AcceptedBeforeStopRuns`, `ShutdownReturns`, `PoolTypeOK`. |
| `Files` | 2 files, 2 callers, a cache of 2 blocks, contents of 2 and 3, 2 changes, 3 ticks of half a second; writes fail, at once or at the close | `SizesAccounted`, `CacheBounded`, `LoadedIsReturned`, `StaleHasCause`, `FileTypeOK`. |
| `Http` | 6498 requests | `RequestIsAsSent`, `EndpointIsGathered`, `SessionIsReadable`. |
| `FcgiPending`, `FcgiKeepAlive`, `FcgiTimeout`, `FcgiReused`, `WsHttpOnce` | the smallest instance that shows it | The code departs from a line of the repository; see section 6. |

`FcgiConfigs` explores its configurations side by side: the variable `config` is chosen in the
initial state and never changes. Its properties, `RequestsAreSafe`, `EndsAreSafe`, `NoLostWakeup` and
`LoopsStayValid`, put together definitions of `FcgiProperties`, each for the configurations it is
claimed of, which are those where its case occurs. Their bounds are those at which each is finished;
one instance with all the liberties at once is not.

Why the bounds are enough. Descriptors and ids are interchangeable except for reuse, so two of
them with one arena give every competition (two connections for an arena, one connection after
another on its descriptor, two ids on one connection) and one arena makes exhaustion the normal
case; two arenas give two workers at once. `SndBuf = 1` makes every second response meet a full
socket. Two requests per run let one be at each stage while the other is at each other stage.
Limits of 1 with records of 1 and 2 put streams below, at and past the limit. A message of two
fragments with something in between reaches every branch of the frame loop; `BodyLens = {0, 2}`
lets a body arrive with its head, after it, and in two pieces.

For the pool two workers are the interesting number: with one (`--max-in-flight 1`) a
notification that comes between its test and its wait is lost, and the task waits for the next
one; with two, the other worker is waiting and is woken, or is on its way to the mutex and sees the
queue. With chunks of one task every push
fills its chunk and every pop leaves one, so that two tasks meet every way of the two; larger chunks
only put pushes and pops without these steps in between, and the theorem `Implements` is for any
size. For the cache, contents
of 2 blocks fill it and contents of 3 never fit; two files compete for it; half-second ticks
separate the second of `last_check` from that of `mtime`; two changes are what it takes for one of
them to be mistaken for the other. Any call may be the tenth, which maintains. The requests of
`MCHttp` exhaust, one part of a request at a time, all short texts of the bytes its reader looks
for (`%`, `+`, `&`, `=`; `;`, `"`, blank; CR, LF, `-`; backslash, control and multi-byte
characters), and numbers on both sides of every limit of `Printed`, where escapes, delimiters and ends of text meet, and then combine the parts.

`Pool` and `Http` say CHECK_DEADLOCK FALSE: a pool that is down for the last time stays
down, a request that is served is served. No other run excuses deadlock: the 100 ms timer always
ticks, the other server may always take or return an arena, and a file may always be read, so a
state without a successor would be an error. That also means the deadlock check says little;
waiting for ever is what the progress properties are about.

## 4. Fairness

`FairSpec` (FastCGI) and `WsFairSpec` assume: each thread of the process keeps running (weak
fairness of the IO thread, of the closures, of a WebSocket handler that holds an arena); the
timerfd is periodic; epoll serves its ready list in turn, so one descriptor's events do not starve
another's (strong fairness per descriptor in the WebSocket loop, whose events are taken one at a
time; the FastCGI loop works off a batch, which gives this by itself); and a peer that has begun
a request sends the rest and reads what it is sent. The last is the contract of a web server. No
peer has to begin, abort or close anything. Peers' fairness is strong only because their steps are
allowed at the IO thread's system calls, which come and go; the step itself stays possible until
it is taken.

`FairSpec` (`WorkerPool`): each thread runs, a task ends, and a mutex that is free again and again is
got (strong fairness of `Lock`, the promise of a mutex that threads do not hold for ever). Nobody
has to enqueue or to shut down, and spurious wakeups are possible but not counted on.

## 5. The proofs

Assumptions: those on the constants, in the modules that declare them: `NArenasAssumption`,
`LimitsAssumption`, `ConstantsAssumption`, `WsConstantsAssumption`, `PoolAssumption`,
`FileAssumption` (`NoFd` is not a descriptor, `NoTask` not a task, `Free` not a thread, sizes are
positive, bounds are numbers, there is at least one worker). Nothing bounds the number of
descriptors, ids, arenas, workers, producers, tasks, files, callers or requests.

* **`TypeCorrect`**, `Spec => []TypeOK`. `TypeOK` is inductive as it stands. It is more than
  membership: every frame on the stack names a descriptor, id or arena that exists, a
  `process_waiting_connections` frame that serves a connection has budget left, and no socket holds
  more than `SndBuf`. One lemma per action, grouped as `Next` is.
* **`LoopsSafe`**, `Spec => [](LoopsStayValid /\ NeverRehashed)`. No call nested in the sweep or in
  `cleanup_connection_requests` takes away an entry they have still to visit or to erase, and, if a
  map has a bucket for every id (`Cardinality(Ids) <= Buckets`), none that inserts rehashes the map
  under them. With more ids the first part holds up to the rehash, which ends the run of the model
  (`fault`). The first is not inductive alone: a nested call might erase from the
  map of a connection an outer loop is in. The strengthening `Loops == StackShape /\
  LoopsStayValid` adds which function can stand directly above which. Then a frame that erases
  (`erase`, `cleanup`) either stands at the bottom of the stack or on a closing loop, so no other
  frame's set of ids is affected (`Alone`), and everything called from a release only adds entries
  (`KeptStack`). The second is a matter of counting: an id that is about to be inserted is not in the
  map, so the map has fewer entries than there are ids (`RoomLeft`).
* **`Accounting`**, `Spec => []PoolAccounting`. Each step takes one free arena, releases one, or
  leaves the pool alone (`PoolSteps`); that the released one is really an arena needs `Loops`:
  the id being swept is mapped.
* **`Paused`**, for `MaxWs = 0`: `Spec => []PausedMeansExhausted`. Every release is then
  `release_request`'s, which resumes; with WebSocket threads the statement is false (section 6).
* **`Wakeup`**, `Spec => []NoLostWakeup`: `TypeOK` and the property are inductive together.
* **`LiveEntries`**, `Spec => []EntriesAreLive`. The property is about the moments between events;
  inside one an entry may be dead. `Tended == Served /\ Entries /\ Held` says when: an entry leads to
  a living request of its connection and id, or the frame that released the request is still on the
  stack and takes the entry away as soon as it goes on (`Dooms`). `Served`: a frame that works for a
  connection finds it in `g_conns`. `Held`: a living request holds its arena and no WebSocket thread
  does, so an arena that `get` hands out carries no living request. With `Loops`, nothing that a
  release calls, however deep, puts the entry of another frame in danger.
* **`WaitersListed`**, `Spec => []WaitingIsListed`, from `Waiting == Nested /\ Was /\
  WaitingIsListed`. A connection that is taken off the list and parsed is on nobody's list for the
  duration; `Nested` says which frame below the parser puts it back, and `Was` that a connection
  `handle_io` found waiting is listed already, so that it is not to be listed again.
* **`CountsExact`**, `Spec => []WorkersAreCounted`. `active_workers` is incremented by one thread and
  decremented by others, and compared here with the cardinality of a set of closures; so a closure
  must be in one place, once. `Counted` adds that (`Once`), that closures carry serial numbers
  already given out and no two the same number of dispatch (`Numbered`, `Serials`), which makes a
  new closure new, and that a connection waiting to be accepted has a number no closure knows
  (`Linked`), which makes it start at zero even when its descriptor was used before.
* **`WaitersExhaust`**, for `MaxWs = 0`: `Spec => []WaitingMeansExhausted`. A release serves the
  waiting list, but what it serves may wait again, release more, and serve the list from inside
  itself. `Queued` says what is left to do at every moment of this. `Defers`: a connection that waits
  has its BEGIN_REQUEST still in `in_buf`, so parsing it again takes an arena or finds none.
  `Budget`: the frame that serves the list may go on at least as often as there are free arenas.
  `Spent`: a connection that stopped waiting in such a frame has taken
  an arena. `Visits`: all that wait are still ahead of the frame that serves the list, wherever a
  nested call appended them. When the last frame returns, either nobody waits or nothing is free.
  TLC checks it in the configuration `keep`, as a part of `RequestsAreSafe`: in `FcgiLive`, where a
  connection that waits is closed at once, it would hold vacuously.
* **`ArenasOwned`**, for peers that use one request id per connection (`OneId`):
  `Spec => []NoArenaLost`. `Owned` says the same at every moment, between the steps of a handler too:
  an arena in use is a WebSocket's or a living request's (`InUse`), and a living request is
  in the map of its connection (`Reaches`). `requests.clear()` loses nothing, since a cleanup goes
  through all ids and, while the functions it calls run, the id it is at is still mapped
  (`Cleans`); the sweep erases an entry only after the request is gone (`Erases`). One id is what
  keeps a parse inside a cleanup from building a request behind it: the id is taken. With
  two ids the theorem is false (section 6).
* **`OutputWatched`**, for one id per connection and requests that do not time out:
  `Spec => []UnsentIsArmed`. In the middle of a handler unsent output is watched for, or a function
  under way is sure to flush it (`Armed`). The difficulty is `process_waiting_connections`, which
  flushes a connection only if it waited before the parse and does not after: `Drains` says that a
  connection that does not wait, and is open, has no whole record left, so that
  parsing it again appends nothing, and `Dry` that this holds of a connection the loop serves though
  it no longer waits. A timeout appends END_REQUEST and arms nothing (section 6). With two ids,
  a connection may be given END_REQUEST and wait again in one parse, and is then left unflushed
  by that loop; no run has met this left so between events, but the invariant does not exclude it.
* **`HandedOverOnce`**, **`WorkersAreSafe`**, **`ReleasesAreSafe`**, `Spec => []DispatchedOnce`,
  `Spec => []WorkersHoldLiveObjects` and `Spec => ReleaseIsSafe`, for one id per connection (`OneId`)
  and peers that open a connection for each request (`OneShot`: no request asks to keep it open and
  none is multiplexed, which is how nginx speaks FastCGI by default). They may still split, size
  and mix their records as they like, abort, close, reset and be slow; requests may time out, arenas
  may be held by WebSocket threads. The invariant, `Protected`, has the earlier ones in it and
  - `Wire`: the records of a connection, in `in_buf` and in the socket, are in the order in which
    its peer sends them (`InOrder`), and the peer is past the last of them;
  - `Flow`, about where a BEGIN_REQUEST that is yet to be read meets what: until it is read the
    connection has no request, no output and no closure (`Virgins`), so a
    connection that waits for an arena has nothing a loop could be in the middle of (`Idles`,
    `Leaves`, `Apart`);
  - `Finished` and `HandedOnce`: a request with its input complete has nothing but an ABORT to
    come, and one that was dispatched has its input complete. A record that is read twice would break
    this; with one request on a connection, a parse that stops for want of an arena stops at
    the BEGIN_REQUEST, with nothing applied behind it;
  - `Marks`: a failed or aborted request is marked answered by the call that failed it, so the sweep
    takes answered requests only;
  - `Holders`: of each closure, that the connection and, until it has cleared `worker_active`, the
    request it captured are there, are the ones it was made for, and are marked as in use;
  - `Closes` and `Chosen`: a connection that is being cleaned up has no closure, and it was closed or
    everything on it is answered; and the same of what `housekeeping` has listed and of what
    `handle_io` is closing, until it comes to them.

  `worker_active` keeps the sweep away from a request; what keeps the cleanup away is
  `active_workers`, read when the connection is listed. Between the listing and the cleanup the calls
  in between must not dispatch anything on it. That is what `Flow` is for: below
  `housekeeping` and below the loop of its own connection no record of it is read, because the only
  connections these calls parse are those that wait, and a connection that waits has nothing mapped.
  With keep-alive connections this argument fails: a connection with answered requests and one
  deferred BEGIN_REQUEST may be listed, and then served by the release of another listed one
  (fcgi-connection.cpp:214). TLC meets no violation of it in `faults`, where requests are kept alive.
* **`AnswersAreComplete`**, `Spec => OnlyCompleteAnswered`, for the peers of `OneShot` and `OneId`
  that moreover are `Patient`: they send well-formed records and neither abort nor close, and no
  request times out. The invariant is `Returned`, which adds to `Protected`
  - `Unbroken`: such peers leave no socket at its end or reset, no event that says so, and no ABORT
    record anywhere, so nothing marks a connection closed and the cleanup meets what is answered
    only;
  - `PendingSteps`: no step but `process_pending_output` ends a request that was dispatched. This is
    `StillOwed`, and it rests on `Finished`: after its last record a request has nothing to come that
    `process_buffer` could fail it for;
  - `Awaited`: the pointers in the list, in the list taken from it, and in the closures that are still
    to hand theirs over are of different requests (`Distinct`), each of which was dispatched and is
    not answered yet (`Owing`). So the sweep, which takes answered requests, passes them
    by, and each is answered once.

  `AnswersAreComplete` follows: an entry that `process_pending_output` answers is `Owing`, therefore
  dispatched, therefore complete (`HandedOnce`); all other ends are marked FAILED.
* **`ResponsesAreSafe`**, `Spec => []ResponsesAreOwed`, for the same peers (`OneShot`, `OneId`,
  `Patient`): what is on its way on a connection, in `out_buf` and in the socket, is
  at most one END_REQUEST, of a request its peer has open. Where `Protected` follows the records
  from the peer to the worker, `Responsive` follows the way back. It adds to `Waited`, which is
  `Protected` and `Unbroken`,
  - `Singly`: one response at most is on its way, and then its request is `Open`, that is, begun by
    the peer and without a response it has read. `OutNext` says what a step may do to this:
    keep it, let the peer read, close the connection, or end one request more;
  - `Unanswered`: on the connection of a request that is not answered nothing is on its way. So a
    response that is appended is alone. `Unbegun` says the same of a connection whose BEGIN_REQUEST
    is still to be read (`Virgin`);
  - `Emptied`, the core: a request that is *constructed* has nothing on its way either. Its
    connection has no request before; so it is `Virgin`, or it is `Through`, with nothing to come
    that could make one, or its request was swept and nothing but the closing of the
    connection is left (`Left`). The last case is what the sweep leaves behind, and that it leaves
    no output behind is `Swept`: the sweep begins when a flush has emptied `out_buf`;
  - `Busy`, `Parked`, `Woken` and `Unopened` say what `Emptied` needs of a connection workers use, of
    one that waits for an arena, of the events of such peers, and of one that is not served.

  `keep` and `shared` check the property for peers the theorem does not cover: those that keep their
  connection and use its id again, and those that multiplex.
* **`WsTypeCorrect`**, `WsSpec => []WsTypeOK`, with the inductive `WsTypes == WsTypeOK /\
  OwedTypeOK`: the second part ties the body pieces a peer still owes to the request it sent, so
  that the piece it sends next is one of them. `WsTypeOK` includes that the IO thread handles a
  client it has and that a client marked closed does not outlive its handler. The lemma `Least`
  gets the first head in `in_http` from the well-foundedness of `<` on `Nat`.
* **`ArenasHeld`**, `WsSpec => []ArenasAreHeld`. The inductive form `Held` speaks of places in
  the queue: two equal closures in two places are one element of the set `WsTasks`, so the property
  itself would not exclude that the arena is released twice.
* **`WsAccounting`** and **`WsWakeup`**: the pool's counter and the wakeup, from the
  WebSocket server's side.
* **`WsUnsentArmed`**, `WsSpec => []WsUnsentIsArmed`. Whoever appends to `out_buf` either flushes in
  the same step, which arms what is left, or arms. The strengthening says what holds in the middle
  of a handler: only the client being handled may have unwatched output, and only at the points
  from which a flush is sure to follow.
* **`WholeMessages`**, `WsSpec => []MessagesAreWhole`, from the invariant `Wired` (theorem
  `AlwaysWired`). Between what the callback got and what the peer has begun lies one run of units (`Run`): those in `in_buf`, then
  those still in the socket. It starts from the fragments the client has assembled and ends with the
  message the peer has begun, and at each unit that completes a message, that message is one the peer
  sent, with a number above those before. A step of the peer lengthens the run at its end, a read
  moves the border inside it, the frame loop shortens it at its front, and control frames are passed
  over. For plain HTTP the pieces in `in_http` and the body the peer still owes add up to what the
  head announced (`Unshaken`); a request the handshake accepts leaves the one form for the other
  with nothing in between.
* **`AnsweredAtMostOnce`**, `WsSpec => []AnsweredOnce`. The set the property counts is a union over
  six kinds of place; the inductive form `Once` says of any two places that hold an answer to the
  same message that they are one (`Place`). It needs `Known`: a message with an answer under way
  was handed over already, so what the frame loop hands over next, which is later by the order
  `Wired` gives, has none; and `Own`: message numbers are not shared between peers, so a descriptor
  that is used again cannot bring an old message back. That the answer may reach the wrong client
  (section 6) does not matter to it.

* **`Implements`**, `Spec => PoolIsFifo`: the pool implements `TaskPool`, with any number of workers,
  producers and tasks and any size of chunk, until the deque is `broken`. The inductive invariant `IInv`
  (theorem `Invariance`) has four parts beside the
  types. `PushOK`: each task is pushed by one thread, and the end of the deque, also the end a push
  has read, counts pushes that are done; this keeps it within bounds even after an overlap.
  `QueueOK`, as long as the deque is not broken: what lies between `start` and `finish` is tasks, and
  a push under way has its task in the slot behind them (`SlotsOK`), so that a pop stays in
  front of `finish`; one push at a time has begun, and the front chunk that a push has read to move
  the map is still the front chunk when it writes it back, since no pop is leaving a chunk meanwhile
  (`MapOK`); a worker that left saw the queue empty after the stop (`StopOK`). `WorkersOK`: which
  workers exist while `control` starts and joins them. A step of the queue then is a step of a
  sequence: `AdvanceAppends`, `PopTakesHead`; everything else stutters (`Stutters`). Once the deque is
  broken the abstract pool promises nothing.
* **`StopsAfterAccepted`**, `Spec => []AcceptedBeforeStopRuns`, and **`PoolTypeCorrect`**, from
  the same invariant, until the deque is broken. At `join` all workers have left, there is one, and so `owed <= start`.
* **`FileTypeCorrect`**, **`SizesAreRight`**, **`CacheIsBounded`**, **`LoadedComesBack`**: the
  cache's sum is the sum of its entries' sizes whoever loads, expires, evicts or writes; it is
  within its limit whenever the mutex is free; and the lookup that ends a load finds the entry it
  inserted. They rest on lemmas about the sum over a finite domain under insertion and
  removal. That the cache is within its limit needs the sum to be right: an eviction that has
  emptied the cache stops whatever the counter says.
* **`StaleNeedsCause`**, `Spec => []StaleHasCause`. The invariant is about what a caller has
  read and not yet inserted as well as about the entries: while the file it came from is unchanged
  both agree, and a change in the same second either finds that the mtime has moved on or marks the
  file as churned. A writer's content agrees with the file it has written unless the close failed,
  and the stamp the writer takes afterwards may be that of a change in between, which marks the
  file too.

All safety invariants of the WebSocket server, the file cache and the worker pool are theorems. Of
the FastCGI server these are only model-checked so far, and for a reason: seen in full generality
most of them are false, and hold of the peers their configuration has (section 6).

* `DispatchedOnce`, and with it `WorkersHoldLiveObjects` and `ReleaseIsSafe`, is violated when a
  deferred BEGIN_REQUEST is replayed. For keep-alive peers that use an id again (`faults`, `keep`) and
  for two ids that are never deferred (`parallel`) they are checked and not proved.
* `PendingLive` is violated when a peer closes (`FcgiPending`), aborts or sends a malformed record, or
  when a request times out, while the request waits in `g_pending_output`; it is checked with peers
  that do none of this (`FcgiLive`, `keep`). `OnlyCompleteAnswered` is proved of such peers and checked
  with others (`records`, `shared`).
* `ResponsesAreOwed` is proved of patient peers that open a connection for each request, and
  checked in `keep` and `shared`. It is false of a peer whose
  ABORT_REQUEST comes when its request has been answered and swept: `current_req` (fastcgi.cpp:112)
  makes a new request of that id, and END_REQUEST is sent again.
* `UnsentIsArmed` for peers with two ids is checked in `shared` (through `RequestsAreSafe`) and
  not proved. `NoArenaLost` without `OneId`, `UnsentIsArmed` with timeouts, and
  `WaitingMeansExhausted` with WebSocket threads, whose release serves nobody, are false.

Out of the prover's reach, and therefore
with TLC for good: the properties under fairness (`CompleteAnswered`, `AcceptResumes`,
`WsAnswered`, `AcceptedRuns`, `ShutdownReturns`), anything with ENABLED, and induction over data,
that is, what a recursive definition computes for every input (`RequestIsAsSent`,
`EndpointIsGathered`, `SessionIsReadable`, whose readers are recursive operators).

## 6. What the model found

Kept as runs whose property is expected to fail, each quoting the line it departs from (findings
in PROJECT.json):

* `FcgiPending`: a peer that closes between the worker's push and the IO thread's answer leaves a
  destroyed `Request` in `g_pending_output` (fcgi-connection.cpp:293, 318).
* `FcgiKeepAlive`: the sweep forgets KEEP_CONN together with the answered request, and the
  connection is closed behind the response (595).
* `FcgiTimeout`: END_REQUEST of a timed-out request is appended where nothing flushes it (209).
* `FcgiReused`: END_REQUEST reaches the peer before the request is swept, because the closure has
  not cleared `worker_active` yet. A peer that uses the id again on the connection it was promised
  to keep finds the answered request there (fastcgi.cpp:112), and its new one is never answered.
* `WsHttpOnce`: `in_http` is never emptied, so the end of the stream schedules a plain HTTP request
  again (websockets.cpp:526).

Seen while modelling, in the model, but not promised otherwise by any line of the repository, and
so not stated as properties:

* A connection whose *first* BEGIN_REQUEST is deferred has neither requests nor output and is
  closed at the end of the same `handle_io` (fcgi-connection.cpp:608). A fresh connection met by
  the 100 ms tick, or by a read with only part of a record, is closed the same way (213).
* The early return for want of an arena leaves consumed records in `in_buf`
  (fastcgi.cpp:134); with a multiplexing peer they are applied again and a complete, unanswered
  request is dispatched twice. This is why `DispatchedOnce` and `WorkersHoldLiveObjects` are checked
  with peers for which that does not arise, and why the configuration `shared`, where it does, checks what
  holds in spite of it.
* A connection with a deferred BEGIN_REQUEST that is cleaned up while it has other requests is
  served from inside that cleanup: releasing its first request calls
  `process_waiting_connections`, which parses the same connection again and builds the deferred
  request in the arena just freed. `requests.clear()` (fcgi-connection.cpp:183) then forgets the
  request, and its arena is never released. It takes a multiplexing peer; `NoArenaLost` is
  claimed for peers with one id per connection (`FcgiLive`, and the theorem `ArenasOwned`), and the
  configuration `shared` would violate it.
* `accept()` paused while a WebSocket closure holds the last arena is not resumed by
  that closure's release (websockets.cpp:180), nor are waiting connections served.
* A BEGIN_REQUEST deferred behind an answered keep-alive request of its own connection waits for
  an event of that connection, while the peer waits for the answer (fcgi-connection.cpp:586).
* A connection the peer closed with output left is never due for closing (452).
* `g_close_queue` may name a descriptor twice (616).
* A plain HTTP body that comes in two reads is copied from `in_http` from its beginning again, so
  its first part is counted twice (websockets.cpp:520): the body has the announced length and the
  wrong content. A second, pipelined request on the connection is never looked at.
* WebSocket answers are addressed by descriptor number: the next client on it may get the answer
  meant for the last (websockets.cpp:431). Frames behind a close frame are still dispatched.

* Two IO threads that call `enqueue` at the same time both write the end of the deque without a mutex
  (worker.cpp:33): a task is lost, or a slot that was never filled is run. A single one does harm
  as well when its push moves the map of the deque while a worker's pop leaves a chunk: the front of
  the deque then is a chunk that was freed, or the map that was. With one worker
  (`--max-in-flight 1`) a notification can also be lost, and the task waits for the next one (34).
* The content of a part that ends in CRLF loses it (http.cpp:211), and a name or file name with a
  `;` is cut there even inside quotes (237).
* A number of a million or more, or below 1/10000, is written with an exponent
  (dynamic_variable.cpp:735), which `parse_number` does not read: a session that holds one is lost as
  a whole. A number of more than six digits is rounded to six without a word.
* `session_start` draws a new id even if the request came with one (session.cpp:65), and sends a
  cookie only if there was none: no session that was saved is ever loaded, though `session_auto_load`
  is on by default (config.h:48).
* An entry of the cache that is not the content of its file, though the mtimes agree, comes about in
  two ways, and `StaleHasCause` says that there is no third. The file changes again in the second
  that is already the mtime of its entry, of a load under way, or of a write that takes its stamp
  behind another one's change. Or `file.close()` fails, which nobody looks at (fileio.cpp:179):
  `write()` only buffers a content of less than 1 KB, so a full disk shows at the close; the file
  is left empty, the content goes into the cache, and the caller is told that all is well.
* When `accept()` fails for another reason than EAGAIN, the loop ends with a log line and leaves the
  backlog (fcgi-connection.cpp:518-522). The listening socket is edge-triggered: the peers that wait
  are served when the next one connects.
* A nested parse may insert into the very map a sweep or cleanup iterates (586-606, 174-184), which is
  undefined from the insertion on that rehashes it: with libstdc++ a multiplexing peer needs fourteen
  requests on the connection.

## 7. Simplifications

* Peers step only while the IO thread is at a system call (`AtSystemCall`, `AtSocket`); elsewhere
  their steps commute with the thread's. A descriptor number is chosen at connect instead of at
  accept, which no one can tell apart.
* Record content is its length; the name-value pairs of one PARAMS record count as one pair of that
  size. One response is one item of `out_buf`, one frame or response one item of a WebSocket
  client's; sockets count in these items.
* Iterating a map is iterating a snapshot of its ids. `LoopsStayValid` says that no entry still to
  be visited is taken away meanwhile; one that a nested call inserts is not visited, as in
  libstdc++, where it goes to the front of the list unless it shares a bucket with another. An
  insertion that rehashes is a fault (section 2).
* The second `::close` of a descriptor that `g_close_queue` names twice (616-617) does nothing here.
  `release_request` reads `available_count` twice (421-425, 80); here the release and both readings
  are one step. Another thread can come in between only as a WebSocket thread that takes or gives
  back an arena.
* SIGPIPE: the process does not ignore it, so a send to a closed peer may end it; the model takes
  the case where `send` returns an error.
* In the server modules the worker pool is a FIFO with as many threads as arenas (`main` starts as
  many): `PoolIsFifo`, as long as the deque is not `broken`.
* `WorkerPool`: memory operations take effect in the order of the program. The chunks of the deque are
  counted and not allocated; room in its map is left open (section 2), and an allocation that fails is
  left out.
* `FileCache`: any call may be the tenth, which maintains, and the calls are not counted;
  opening and reading a file is one step; editors rewrite a file in place and at once; a write that
  fails leaves an empty file, also where part of a long content would have reached the disk;
  `get_cache_stats` only reads. Session ids are random, so a session file has one owner.
* Request text: of a part's headers only Content-Disposition is looked at. JSON numbers have nine
  digits at most, and none lies in the middle between two of six digits. An upload whose temporary
  file cannot be made, which is dropped, or is written in part (http.cpp:284-316) is left out.
  `SessionIsReadable` gives the text that is saved to the reader: no path of the code does so for one
  session (section 6).
* A WebSocket client sends one plain HTTP request per connection; a pipelined one would stay unread
  (section 6).
* A WebSocket closure always produces an answer; what its server could still send right before
  it closes a connection goes unread; its epoll batch is one event (it only closes the descriptor
  it is handling, so no event of a batch is stale).
* Each server sees the other only as a user of arenas.
* `finalize_request`'s temporary files, path-prefix stripping, header texts, masks and the
  handshake key are left out. An arena is large enough for a `Request`.

## 8. Not modelled

* `Arena::alloc`: a bump allocator private to one request at a time.
* Of `http.cpp`: base64, `output_headers`, the temporary files an upload is written to and their
  hash; they are pure or touch only files with random names.
* Of `dynamic_variable.cpp`: the container operations (functions and sequences in the model),
  `to_number`, `to_bool` and pretty printing.
* Of `config.cpp`: the command line, read once before threads start. Of `session.cpp`: the
  digits of an id and the creation of the directory.
* `logger.*` (output), signal handling (the process ends), socket creation, and the teardown after
  the loops, which do not end.

## 9. Planned next

In this order:

1. An abstract FastCGI responder (a request is open, answered, or cut off) with `FcgiConnection`
   shown to implement it for peers that send one request at a time, which subsumes several of the
   response properties.
2. Both servers over one pool, composed, in place of `ws` and `fcgi`.
3. Proofs: `Protected` for keep-alive connections, which needs a bound on what a release
   may parse while `housekeeping` works off its list; the same for
   `PendingLive` and `ResponsesAreOwed`.

To repeat the checks: `tlc -config FcgiConfigs.cfg MCFcgiConfigs`, `tlc -config Pool.cfg MCPool`
(each other cfg names its module by its prefix: `Fcgi`, `Ws`, `Files`, `Http`), and
`tlapm WorkerPool_Proofs.tla`.
