--------------------------- MODULE PoolProperties ----------------------------
(***************************************************************************)
(* What the worker pool is to guarantee, and the abstract pool it          *)
(* implements.                                                             *)
(***************************************************************************)
EXTENDS WorkerPool

Maybe == Task \cup {NoTask}
WorkerPc == {"none", "idle", "test", "sleep", "wait", "take", "leave", "run", "done"}
PushPc == {"idle", "construct", "recentre", "recentred", "advance", "notify"}

(***************************************************************************)
(* The types, with what keeps the memory accesses inside q: its beginning  *)
(* does not overtake its end, and the iterator to it names its chunk,      *)
(* until a push (enqueue, worker.cpp) has met what it may not meet.        *)
(***************************************************************************)
PoolTypeOK ==
  /\ slot \in [Slot -> Maybe]
  /\ start \in Slot /\ finish \in Slot /\ node \in Nat
  /\ ~broken => start <= finish /\ node = start \div Chunk
  /\ mtx \in Workers \cup {Free} /\ waiting \subseteq Workers
  /\ worker \in [Workers -> [pc : WorkerPc, task : Maybe]]
  /\ push \in [Producers -> [pc : PushPc, task : Maybe, pos : Nat]]
  /\ stopping \in BOOLEAN /\ running \in BOOLEAN
  /\ control \in {"down", "up", "notify", "join", "drain", "leave"}
  /\ accepted \in 0 .. MaxTasks /\ starts \in 0 .. MaxStarts
  /\ ran \subseteq Task /\ dropped \subseteq Maybe /\ owed \in Slot
  /\ broken \in BOOLEAN

-----------------------------------------------------------------------------
(* The abstract pool *)

\* The tasks in q, in order.
Queued == [i \in 1 .. finish - start |-> slot[start + i - 1]]

\* The tasks whose push is done.
InPush(p) == push[p].pc \in {"construct", "recentre", "recentred", "advance"}
Pushed == {t \in 1 .. accepted : \A p \in Producers : InPush(p) => push[p].task # t}

Abstract == INSTANCE TaskPool WITH
  known    <- Pushed,
  pending  <- IF broken THEN <<>> ELSE Queued,
  active   <- [w \in Workers |-> worker[w].task],
  finished <- ran,
  broken   <- broken

(***************************************************************************)
(* The pool runs what it accepts in the order of the pushes until two      *)
(* pushes overlap, or a pop leaves a chunk of q while a push moves the     *)
(* entries of its map (enqueue, worker.cpp:33).  Any other push and pop at *)
(* the same time do each other no harm, although only the pop holds the    *)
(* mutex.                                                                  *)
(***************************************************************************)
PoolIsFifo == Abstract!Spec

(***************************************************************************)
(* shutdown() runs everything that was accepted before it was called: the  *)
(* workers leave only when the queue is empty, and what it then throws     *)
(* away came later.  As the order, this is promised until q is broken.     *)
(***************************************************************************)
AcceptedBeforeStopRuns == control = "drain" /\ ~broken => start >= owed

-----------------------------------------------------------------------------
(* Progress *)

(***************************************************************************)
(* A task that was accepted is run, unless the pool is shut down.  The     *)
(* notification may come between a worker's test and its wait and find     *)
(* nobody; then another worker, on its way to the mutex or back from a     *)
(* task, finds the queue non-empty.                                        *)
(***************************************************************************)
AcceptedRuns ==
  \A t \in Task : t \in Pushed ~> (t \in ran \cup dropped \/ control = "down" \/ broken)

(***************************************************************************)
(* shutdown() returns: no worker sleeps through notify_all.                *)
(***************************************************************************)
ShutdownReturns == control = "notify" ~> (control = "down" \/ broken)
==============================================================================
