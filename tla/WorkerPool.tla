----------------------------- MODULE WorkerPool ------------------------------
(***************************************************************************)
(* The worker pool (worker.cpp, class WorkerPool): threads that wait on a  *)
(* condition variable for tasks which the IO threads push.  The workers    *)
(* pop under mtx; enqueue() takes no mutex, neither to look at stopping    *)
(* nor to push nor to notify, so the push is modelled by the memory        *)
(* operations libstdc++'s deque makes of it, in the order the build keeps  *)
(* them: the task is constructed in the slot at the end, then the end      *)
(* moves on.                                                               *)
(*                                                                         *)
(* The memory of a deque comes in chunks, and a map points at the chunks.  *)
(* A push that fills its chunk puts a new one into the map; when there is  *)
(* no room at the back of the map, the push first moves the entries to the *)
(* middle or to a larger map, reading and then writing the iterator to the *)
(* front.  A pop that empties its chunk frees it and moves that iterator   *)
(* on.  Whether there is room depends on where earlier chunks have left    *)
(* the map; that is left open here.                                        *)
(***************************************************************************)
EXTENDS Naturals, FiniteSets, Sequences

CONSTANTS
  Workers,                \* start(thread_count)
  Producers,              \* threads that call enqueue: the two IO threads
  NoTask,                 \* a std::function that holds nothing
  Free,                   \* mtx is not held
  Chunk,                  \* tasks in one chunk of q's memory: 16 in the build
  MaxTasks,               \* bound: calls of enqueue ever made
  MaxStarts               \* bound: calls of start ever made

ASSUME PoolAssumption ==
  /\ MaxTasks \in Nat /\ MaxStarts \in Nat
  /\ NoTask \notin 1 .. MaxTasks
  /\ Free \notin Workers
  /\ Workers # {} /\ IsFiniteSet(Workers)
  /\ Chunk \in Nat \ {0}

VARIABLES
  slot,                   \* the memory of q
  start, finish,          \* where q begins, and where the next push goes
  node,                   \* the chunk of start, kept beside it in the iterator
  mtx,                    \* the worker that holds the mutex
  waiting,                \* workers blocked in cv.wait
  worker,                 \* worker[w]: what thread w is doing, and its task
  push,                   \* push[p]: how far the call of enqueue has come
  stopping, running,      \* members of the class
  control,                \* the thread that calls start and shutdown
  accepted, starts,       \* calls of enqueue and of start so far
  ran, dropped,           \* not in the code: tasks that were run, dropped
  owed,                   \* not in the code: finish when shutdown was called
  broken                  \* not in the code: a push has met an access to q that
                          \* it may not meet

queueVars == <<slot, start, finish, node>>
syncVars  == <<mtx, waiting>>
classVars == <<stopping, running, control, starts>>
pastVars  == <<ran, dropped, owed, broken>>
vars == <<queueVars, syncVars, worker, push, classVars, accepted, pastVars>>

Task == 1 .. MaxTasks
Slot == 0 .. MaxTasks
Thread(pc, t) == [pc |-> pc, task |-> t]
Idle == [pc |-> "idle", task |-> NoTask, pos |-> 0]

Empty == start = finish

Init ==
  /\ slot = [i \in Slot |-> NoTask]
  /\ start = 0 /\ finish = 0 /\ node = 0
  /\ mtx = Free /\ waiting = {}
  /\ worker = [w \in Workers |-> Thread("none", NoTask)]
  /\ push = [p \in Producers |-> Idle]
  /\ stopping = FALSE /\ running = FALSE /\ control = "down"
  /\ accepted = 0 /\ starts = 0
  /\ ran = {} /\ dropped = {} /\ owed = 0 /\ broken = FALSE

-----------------------------------------------------------------------------
(* enqueue *)

\* A call that finds the pool stopping returns false: nothing changes.  The
\* server starts the pool before the threads that push.
Enqueue(p) ==
  /\ starts > 0
  /\ push[p].pc = "idle" /\ accepted < MaxTasks
  /\ ~stopping
  /\ push' = [push EXCEPT ![p] = [pc |-> "construct", task |-> accepted + 1, pos |-> 0]]
  /\ accepted' = accepted + 1
  /\ UNCHANGED <<queueVars, syncVars, worker, classVars, pastVars>>

\* The slot at position i is the last one of its chunk.
LastOfChunk(i) == i % Chunk = Chunk - 1

\* The other producers that have begun to push and not moved the end yet.
Pushing(p) == {o \in Producers \ {p} : push[o].pc \in {"recentre", "recentred", "advance"}}

\* A pop frees the front chunk; a push moves the entries of the map.
Leaving == control = "leave" \/ \E w \in Workers : worker[w].pc = "leave"
Recentring == \E p \in Producers : push[p].pc = "recentre"

\* The chunk is about to be full and the map has no room at the back: the front
\* chunk is read from the iterator, the entries are copied from there on.
ReadStart(p) ==
  /\ push[p].pc = "construct" /\ LastOfChunk(finish)
  /\ push' = [push EXCEPT ![p].pc = "recentre", ![p].pos = node]
  /\ broken' = (broken \/ Pushing(p) # {} \/ Leaving)
  /\ UNCHANGED <<queueVars, syncVars, worker, classVars, accepted, ran, dropped, owed>>

\* The iterator gets the front chunk in its new place, the one that was read: a
\* pop that has left that chunk in between is undone by half.
WriteStart(p) ==
  /\ push[p].pc = "recentre"
  /\ node' = push[p].pos
  /\ push' = [push EXCEPT ![p].pc = "recentred", ![p].pos = 0]
  /\ UNCHANGED <<slot, start, finish, syncVars, worker, classVars, accepted, pastVars>>

Construct(p) ==
  /\ push[p].pc \in {"construct", "recentred"}
  /\ slot' = [slot EXCEPT ![finish] = push[p].task]
  /\ push' = [push EXCEPT ![p].pc = "advance", ![p].pos = finish]
  /\ broken' = (broken \/ Pushing(p) # {})
  /\ UNCHANGED <<start, finish, node, syncVars, worker, classVars, accepted, ran, dropped,
                 owed>>

\* ++finish: with another push in between, the old end plus one or the new.
Advance(p) ==
  /\ push[p].pc = "advance"
  /\ finish' \in {push[p].pos + 1, finish + 1}
  /\ push' = [push EXCEPT ![p].pc = "notify"]
  /\ UNCHANGED <<slot, start, node, syncVars, worker, classVars, accepted, pastVars>>

\* Mutation: nobody is told of the task.
NotifyNot(p) ==
  /\ push[p].pc = "notify"
  /\ push' = [push EXCEPT ![p] = Idle]
  /\ UNCHANGED <<queueVars, syncVars, worker, classVars, accepted, pastVars>>

\* cv.notify_one(): one of those that wait, if any, will take the mutex again.
Notify(p) ==
  /\ push[p].pc = "notify"
  /\ \/ waiting = {} /\ UNCHANGED waiting
     \/ \E w \in waiting : waiting' = waiting \ {w}
  /\ push' = [push EXCEPT ![p] = Idle]
  /\ UNCHANGED <<queueVars, mtx, worker, classVars, accepted, pastVars>>

-----------------------------------------------------------------------------
(* run, in each worker *)

At(w, pc) == worker[w].pc = pc

Moves(w, pc) == worker' = [worker EXCEPT ![w].pc = pc]

\* At the head of the loop, or coming back from cv.wait.
Lock(w) ==
  /\ At(w, "idle") \/ (At(w, "wait") /\ w \notin waiting)
  /\ mtx = Free
  /\ mtx' = w
  /\ Moves(w, "test")
  /\ UNCHANGED <<queueVars, waiting, push, classVars, accepted, pastVars>>

\* The predicate of cv.wait.
Test(w) ==
  /\ At(w, "test")
  /\ Moves(w, IF stopping \/ ~Empty THEN "take" ELSE "sleep")
  /\ UNCHANGED <<queueVars, syncVars, push, classVars, accepted, pastVars>>

\* Blocks and releases the mutex at once.  A notification that comes after
\* Test and before Sleep finds nobody waiting.
Sleep(w) ==
  /\ At(w, "sleep")
  /\ waiting' = waiting \cup {w}
  /\ mtx' = Free
  /\ Moves(w, "wait")
  /\ UNCHANGED <<queueVars, push, classVars, accepted, pastVars>>

\* A condition variable may wake without a notification.
WakeSpuriously(w) ==
  /\ w \in waiting
  /\ waiting' = waiting \ {w}
  /\ UNCHANGED <<queueVars, mtx, worker, push, classVars, accepted, pastVars>>

\* Mutation: the thread leaves as soon as the pool is stopping.
ExitAtOnce(w) ==
  /\ At(w, "take") /\ stopping
  /\ mtx' = Free
  /\ Moves(w, "done")
  /\ UNCHANGED <<queueVars, waiting, push, classVars, accepted, pastVars>>

Exit(w) ==
  /\ At(w, "take") /\ stopping /\ Empty
  /\ mtx' = Free
  /\ Moves(w, "done")
  /\ UNCHANGED <<queueVars, waiting, push, classVars, accepted, pastVars>>

\* The task at the front is moved out, the iterator goes to the next slot.
PopFront ==
  /\ slot' = [slot EXCEPT ![start] = NoTask]
  /\ start' = start + 1
  /\ node' = IF LastOfChunk(start) THEN node + 1 ELSE node

\* Mutation: nobody asks whether there is a task.
TakeUnchecked(w) ==
  /\ At(w, "take") \/ At(w, "leave")
  /\ PopFront
  /\ mtx' = Free
  /\ worker' = [worker EXCEPT ![w] = Thread("run", slot[start])]
  /\ UNCHANGED <<finish, waiting, push, classVars, accepted, pastVars>>

\* Mutation: the task is copied and stays at the front.
TakeKeeps(w) ==
  /\ At(w, IF LastOfChunk(start) THEN "leave" ELSE "take") /\ start < finish
  /\ mtx' = Free
  /\ worker' = [worker EXCEPT ![w] = Thread("run", slot[start])]
  /\ UNCHANGED <<queueVars, waiting, push, classVars, accepted, pastVars>>

\* The task at the front is the last one of its chunk: q.pop() begins to free it.
Leave(w) ==
  /\ At(w, "take") /\ start < finish /\ LastOfChunk(start)
  /\ Moves(w, "leave")
  /\ broken' = (broken \/ Recentring)
  /\ UNCHANGED <<queueVars, syncVars, push, classVars, accepted, ran, dropped, owed>>

\* After pushes that overlapped start may have overtaken finish: what lies there
\* is not modelled.
Take(w) ==
  /\ At(w, IF LastOfChunk(start) THEN "leave" ELSE "take") /\ start < finish
  /\ PopFront
  /\ mtx' = Free
  /\ worker' = [worker EXCEPT ![w] = Thread("run", slot[start])]
  /\ UNCHANGED <<finish, waiting, push, classVars, accepted, pastVars>>

\* if (task) task();
Run(w) ==
  /\ At(w, "run")
  /\ ran' = ran \cup ({worker[w].task} \ {NoTask})
  /\ worker' = [worker EXCEPT ![w] = Thread("idle", NoTask)]
  /\ UNCHANGED <<queueVars, syncVars, push, classVars, accepted, dropped, owed, broken>>

-----------------------------------------------------------------------------
(* start and shutdown, called by one thread *)

Start ==
  /\ control = "down" /\ starts < MaxStarts
  /\ mtx = Free
  /\ ~running
  /\ stopping' = FALSE /\ running' = TRUE /\ control' = "up"
  /\ starts' = starts + 1
  /\ worker' = [w \in Workers |-> Thread("idle", NoTask)]
  /\ UNCHANGED <<queueVars, syncVars, push, accepted, pastVars>>

\* Mutation: the flag is set without the mutex.
StopUnlocked ==
  /\ control = "up" /\ running
  /\ stopping' = TRUE /\ control' = "notify"
  /\ owed' = finish
  /\ UNCHANGED <<queueVars, syncVars, worker, push, running, starts, accepted, ran, dropped,
                 broken>>

\* The flag is set under the mutex.
Stop ==
  /\ control = "up" /\ running
  /\ mtx = Free
  /\ stopping' = TRUE /\ control' = "notify"
  /\ owed' = finish
  /\ UNCHANGED <<queueVars, syncVars, worker, push, running, starts, accepted, ran, dropped,
                 broken>>

NotifyAll ==
  /\ control = "notify"
  /\ waiting' = {}
  /\ control' = "join"
  /\ UNCHANGED <<queueVars, mtx, worker, push, stopping, running, starts, accepted, pastVars>>

Join ==
  /\ control = "join"
  /\ \A w \in Workers : At(w, "done")
  /\ worker' = [w \in Workers |-> Thread("none", NoTask)]
  /\ running' = FALSE /\ control' = "drain"
  /\ UNCHANGED <<queueVars, syncVars, push, stopping, starts, accepted, pastVars>>

\* while (!q.empty()) q.pop(), without the mutex.
DrainLeaves ==
  /\ control = "drain" /\ start < finish /\ LastOfChunk(start)
  /\ control' = "leave"
  /\ broken' = (broken \/ Recentring)
  /\ UNCHANGED <<queueVars, syncVars, worker, push, stopping, running, starts, accepted,
                 ran, dropped, owed>>

DrainPops ==
  /\ control = (IF LastOfChunk(start) THEN "leave" ELSE "drain") /\ start < finish
  /\ dropped' = dropped \cup {slot[start]}
  /\ PopFront
  /\ control' = "drain"
  /\ UNCHANGED <<finish, syncVars, worker, push, stopping, running, starts, accepted,
                 ran, owed, broken>>

DrainEnds ==
  /\ control = "drain" /\ Empty
  /\ control' = "down"
  /\ UNCHANGED <<queueVars, syncVars, worker, push, stopping, running, starts, accepted,
                 pastVars>>

Drain == DrainLeaves \/ DrainPops \/ DrainEnds

-----------------------------------------------------------------------------
WorkerStep(w) ==
  Test(w) \/ Sleep(w) \/ Exit(w) \/ Leave(w) \/ Take(w) \/ Run(w)

PushStep(p) ==
  ReadStart(p) \/ WriteStart(p) \/ Construct(p) \/ Advance(p) \/ Notify(p)

Next ==
  \/ \E p \in Producers : Enqueue(p) \/ PushStep(p)
  \/ \E w \in Workers : Lock(w) \/ WakeSpuriously(w) \/ WorkerStep(w)
  \/ Start \/ Stop \/ NotifyAll \/ Join \/ Drain

Spec == Init /\ [][Next]_vars

(***************************************************************************)
(* Every thread runs, a task ends, and a mutex that is free again and      *)
(* again is got in the end.  Nobody has to call enqueue or shutdown, and   *)
(* nobody may count on a spurious wakeup.                                  *)
(***************************************************************************)
Fairness ==
  /\ \A p \in Producers : WF_vars(PushStep(p))
  /\ \A w \in Workers : WF_vars(WorkerStep(w)) /\ SF_vars(Lock(w))
  /\ WF_vars(NotifyAll \/ Join \/ Drain)

FairSpec == Spec /\ Fairness
==============================================================================
