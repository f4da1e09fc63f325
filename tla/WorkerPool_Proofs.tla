-------------------------- MODULE WorkerPool_Proofs --------------------------
(***************************************************************************)
(* The worker pool implements the abstract one, and shutdown() leaves      *)
(* nothing behind, for every number of workers, producers and tasks and    *)
(* every size of chunk: pushing without the mutex is safe until two pushes *)
(* overlap or a push moves the map of q while a pop leaves a chunk.        *)
(***************************************************************************)
EXTENDS PoolProperties, FiniteSetTheorems, SequenceTheorems, TLAPS

\* Each task is being pushed by one thread; the end of q, and the end a push
\* has read, count pushes that are done.
PushOK ==
  /\ \A p \in Producers : InPush(p) => push[p].task \in 1 .. accepted
  /\ \A p, o \in Producers : InPush(p) /\ InPush(o) /\ push[p].task = push[o].task => p = o
  /\ finish <= Cardinality(Pushed)
  /\ \A p \in Producers : push[p].pc = "advance" => push[p].pos <= Cardinality(Pushed)

\* The slots between start and finish are filled, and the slot behind them once
\* it is constructed.
SlotsOK ==
  /\ \A i \in Slot : start <= i /\ i < finish => slot[i] \in Task
  /\ \A p \in Producers : push[p].pc = "advance" =>
       push[p].pos = finish /\ slot[finish] = push[p].task
  /\ \A w \in Workers : worker[w].pc = "run" => worker[w].task \in Task

\* One producer at a time has begun to push, and the front chunk does not change
\* while one moves the entries of the map.
Begun(p) == push[p].pc \in {"recentre", "recentred", "advance"}

MapOK ==
  /\ \A p, o \in Producers : Begun(p) /\ Begun(o) => p = o
  /\ \A p \in Producers : push[p].pc = "recentre" => push[p].pos = node /\ ~Leaving

\* A worker leaves when the queue is empty, and the end of q never goes back.
StopOK ==
  /\ owed <= finish
  /\ control \in {"notify", "join"} => \A w \in Workers : worker[w].pc = "done" => owed <= start
  /\ control \in {"drain", "leave"} => owed <= start

QueueOK == ~broken => SlotsOK /\ MapOK /\ StopOK

\* Where the workers are while control starts and stops them.
WorkersOK ==
  /\ \A w \in Workers : worker[w].pc # "run" => worker[w].task = NoTask
  /\ control \in {"drain", "leave", "down"} => \A w \in Workers : worker[w].pc = "none"
  /\ \A w \in Workers : worker[w].pc = "done" => control \in {"notify", "join"}
  /\ stopping => control # "up"

IInv == PoolTypeOK /\ PushOK /\ QueueOK /\ WorkersOK

-----------------------------------------------------------------------------
(* The tasks whose push is done *)

LEMMA PushedCounts ==
  ASSUME PoolTypeOK
  PROVE  /\ IsFiniteSet(Pushed)
         /\ Cardinality(Pushed) \in Nat /\ Cardinality(Pushed) <= accepted
<1>1. accepted \in Nat
  BY PoolAssumption DEF PoolTypeOK
<1>2. IsFiniteSet(1 .. accepted) /\ Cardinality(1 .. accepted) = accepted
  BY <1>1, FS_Interval
<1>3. Pushed \subseteq 1 .. accepted
  BY DEF Pushed, InPush
<1> QED BY <1>1, <1>2, <1>3, FS_Subset, FS_CardinalityType

\* Only Advance adds to them.
LEMMA PushedKept ==
  ASSUME accepted' = accepted,
         \A p \in Producers : InPush(p)' <=> InPush(p),
         \A p \in Producers : InPush(p) => push'[p].task = push[p].task
  PROVE  Pushed' = Pushed
BY DEF Pushed, InPush

LEMMA PushedMore ==
  ASSUME IInv, NEW p \in Producers, Advance(p)
  PROVE  /\ push[p].task \in Task \ Pushed
         /\ Pushed' = Pushed \cup {push[p].task}
         /\ Cardinality(Pushed') = Cardinality(Pushed) + 1
         /\ Cardinality(Pushed) < accepted
<1> DEFINE t == push[p].task
<1>1. t \in 1 .. accepted /\ t \notin Pushed
  BY DEF IInv, PushOK, InPush, Advance, Pushed
<1>2. /\ push'[p].pc = "notify"
      /\ \A o \in Producers \ {p} : push'[o] = push[o]
      /\ accepted' = accepted
  BY DEF IInv, PoolTypeOK, Advance
<1>3. \A o \in Producers \ {p} : InPush(o) => push[o].task # t
  BY DEF IInv, PushOK, InPush, Advance
<1>4. Pushed' = Pushed \cup {t}
  <2>1. ASSUME NEW s \in Pushed' PROVE s \in Pushed \cup {t}
    BY <1>2, <2>1 DEF Pushed, InPush
  <2>2. ASSUME NEW s \in Pushed \cup {t} PROVE s \in Pushed'
    BY <1>1, <1>2, <1>3, <2>2 DEF Pushed, InPush
  <2> QED BY <2>1, <2>2
<1>5. PoolTypeOK
  BY DEF IInv
<1>6. IsFiniteSet(Pushed) /\ Cardinality(Pushed) \in Nat
  BY <1>5, PushedCounts
<1>7. Cardinality(Pushed \cup {t}) = Cardinality(Pushed) + 1
  BY <1>1, <1>6, FS_AddElement
<1>8. accepted \in Nat /\ accepted <= MaxTasks
  BY <1>5, PoolAssumption DEF PoolTypeOK
<1>9. Pushed \cup {t} \subseteq 1 .. accepted
  BY <1>1 DEF Pushed, InPush
<1>10. Cardinality(Pushed \cup {t}) <= accepted
  <2>1. IsFiniteSet(1 .. accepted) /\ Cardinality(1 .. accepted) = accepted
    BY <1>8, FS_Interval
  <2> QED BY <1>9, <2>1, FS_Subset
<1>11. t \in Task
  BY <1>1, <1>8, PoolAssumption DEF Task
<1>12. Cardinality(Pushed') = Cardinality(Pushed) + 1
  BY <1>4, <1>7
<1>13. Cardinality(Pushed) < accepted
  BY <1>6, <1>7, <1>8, <1>10
<1> QED BY <1>1, <1>4, <1>11, <1>12, <1>13

-----------------------------------------------------------------------------
(* Chunks *)

LEMMA DivMod ==
  ASSUME NEW n \in Nat, NEW c \in Nat \ {0}
  PROVE  n = c * (n \div c) + (n % c) /\ n % c \in 0 .. c - 1 /\ n \div c \in Nat
OBVIOUS

LEMMA QuotientUnique ==
  ASSUME NEW c \in Nat \ {0}, NEW q \in Nat, NEW p \in Nat, NEW r \in 0 .. c - 1,
         NEW s \in 0 .. c - 1, c * q + r = c * p + s
  PROVE  q = p
<1>1. ASSUME q < p PROVE FALSE
  <2>1. c * p >= c * (q + 1)
    BY <1>1
  <2>2. c * (q + 1) = c * q + c
    OBVIOUS
  <2> QED BY <2>1, <2>2
<1>2. ASSUME p < q PROVE FALSE
  <2>1. c * q >= c * (p + 1)
    BY <1>2
  <2>2. c * (p + 1) = c * p + c
    OBVIOUS
  <2> QED BY <2>1, <2>2
<1> QED BY <1>1, <1>2

\* The chunk of the next slot.
LEMMA NextChunk ==
  ASSUME NEW n \in Nat, NEW c \in Nat \ {0}
  PROVE  (n + 1) \div c = IF n % c = c - 1 THEN (n \div c) + 1 ELSE n \div c
<1>1. n = c * (n \div c) + (n % c) /\ n % c \in 0 .. c - 1 /\ n \div c \in Nat
  BY DivMod
<1>2. n + 1 = c * ((n + 1) \div c) + ((n + 1) % c) /\ (n + 1) % c \in 0 .. c - 1
      /\ (n + 1) \div c \in Nat
  <2> DEFINE m == n + 1
  <2>1. m = c * (m \div c) + (m % c) /\ m % c \in 0 .. c - 1 /\ m \div c \in Nat
    <3>1. m \in Nat
      OBVIOUS
    <3> HIDE DEF m
    <3> QED BY <3>1, DivMod
  <2> QED BY <2>1
<1>3. CASE n % c = c - 1
  <2>1. n + 1 = c * ((n \div c) + 1) + 0
    BY <1>1, <1>3
  <2> QED BY <1>1, <1>2, <1>3, <2>1, QuotientUnique
<1>4. CASE n % c # c - 1
  <2>1. n + 1 = c * (n \div c) + ((n % c) + 1) /\ (n % c) + 1 \in 0 .. c - 1
    BY <1>1, <1>4
  <2> QED BY <1>1, <1>2, <1>4, <2>1, QuotientUnique
<1> QED BY <1>3, <1>4

LEMMA ChunkOfZero == ASSUME NEW c \in Nat \ {0} PROVE 0 \div c = 0
OBVIOUS

-----------------------------------------------------------------------------
(* The types *)

LEMMA InitTypes == Init => PoolTypeOK
<1> SUFFICES ASSUME Init PROVE PoolTypeOK
  OBVIOUS
<1>1. 0 \in Slot /\ NoTask \in Maybe
  BY PoolAssumption DEF Slot, Maybe
<1>2. slot \in [Slot -> Maybe]
  BY <1>1 DEF Init
<1>3. worker \in [Workers -> [pc : WorkerPc,
                             task : Maybe]]
  BY <1>1 DEF Init, Thread, WorkerPc
<1>4. push \in [Producers -> [pc : PushPc,
                             task : Maybe, pos : Nat]]
  BY DEF Init, Idle, PushPc, Maybe
<1>5. accepted \in 0 .. MaxTasks /\ starts \in 0 .. MaxStarts /\ start <= finish
  BY PoolAssumption DEF Init
<1>6. node \in Nat /\ node = start \div Chunk
  BY PoolAssumption, ChunkOfZero DEF Init
<1> QED BY <1>1, <1>2, <1>3, <1>4, <1>5, <1>6 DEF Init, PoolTypeOK

LEMMA Records ==
  ASSUME PoolTypeOK
  PROVE  /\ \A p \in Producers : push[p] \in
              [pc : PushPc, task : Maybe, pos : Nat]
         /\ \A w \in Workers : worker[w] \in
              [pc : WorkerPc, task : Maybe]
         /\ start \in Nat /\ finish \in Nat /\ start <= MaxTasks /\ finish <= MaxTasks
         /\ accepted \in Nat /\ accepted <= MaxTasks /\ MaxTasks \in Nat
BY PoolAssumption DEF PoolTypeOK, Slot

LEMMA AdvanceTypes ==
  ASSUME IInv, NEW p \in Producers, Advance(p)
  PROVE  finish' \in Slot /\ finish' <= Cardinality(Pushed')
<1>1. PoolTypeOK /\ PushOK
  BY DEF IInv
<1>2. Cardinality(Pushed) \in Nat /\ Cardinality(Pushed) < accepted
      /\ Cardinality(Pushed') = Cardinality(Pushed) + 1
  BY <1>1, PushedMore, PushedCounts
<1>3. finish \in Nat /\ push[p].pos \in Nat /\ accepted <= MaxTasks /\ accepted \in Nat
      /\ MaxTasks \in Nat
  BY <1>1, Records DEF Slot
<1>4. finish <= Cardinality(Pushed) /\ push[p].pos <= Cardinality(Pushed)
  BY <1>1 DEF PushOK, Advance
<1>5. finish' = push[p].pos + 1 \/ finish' = finish + 1
  BY DEF Advance
<1> QED BY <1>2, <1>3, <1>4, <1>5 DEF Slot

\* A pop keeps the iterator to the front inside q and in its chunk.
LEMMA PopTypes ==
  ASSUME PoolTypeOK, start < finish, PopFront
  PROVE  /\ start' \in Slot /\ start' <= finish /\ node' \in Nat
         /\ slot' \in [Slot -> Maybe] /\ slot[start] \in Maybe
         /\ ~broken => node' = start' \div Chunk
<1>1. start \in Nat /\ finish \in Nat /\ finish <= MaxTasks /\ MaxTasks \in Nat
      /\ start \in Slot
  BY Records DEF PoolTypeOK
<1>2. start' \in Slot /\ start' <= finish /\ start' = start + 1
  BY <1>1 DEF PopFront, Slot
<1>3. slot' \in [Slot -> Maybe] /\ slot[start] \in Maybe
  BY <1>1 DEF PoolTypeOK, PopFront, Maybe
<1>4. node' \in Nat
  BY DEF PoolTypeOK, PopFront
<1>5. ~broken => node' = start' \div Chunk
  BY <1>1, <1>2, NextChunk, PoolAssumption DEF PoolTypeOK, PopFront, LastOfChunk
<1> QED BY <1>2, <1>3, <1>4, <1>5

LEMMA NextTypes == IInv /\ [Next]_vars => PoolTypeOK'
<1> SUFFICES ASSUME IInv, [Next]_vars PROVE PoolTypeOK'
  OBVIOUS
<1> USE PoolAssumption
<1>0. PoolTypeOK /\ QueueOK
  BY DEF IInv
<1>1. ASSUME NEW p \in Producers, Enqueue(p) PROVE PoolTypeOK'
  <2>1. accepted + 1 \in Task
    BY <1>0, <1>1 DEF PoolTypeOK, Enqueue, Task
  <2> QED BY <1>0, <1>1, <2>1
        DEF PoolTypeOK, Enqueue, Maybe, PushPc, queueVars, syncVars, classVars, pastVars, Task
<1>2. ASSUME NEW p \in Producers, Construct(p) PROVE PoolTypeOK'
  <2>1. push[p].task \in Maybe /\ finish \in Slot /\ finish \in Nat
    BY <1>0, Records DEF PoolTypeOK
  <2>2. push' \in [Producers -> [pc : PushPc, task : Maybe, pos : Nat]]
    BY <1>0, <1>2, <2>1 DEF PoolTypeOK, Construct, PushPc
  <2>3. slot' \in [Slot -> Maybe]
    BY <1>0, <1>2, <2>1 DEF PoolTypeOK, Construct
  <2>4. broken' \in BOOLEAN /\ (~broken' => ~broken)
    BY <1>0, <1>2 DEF PoolTypeOK, Construct
  <2>5. UNCHANGED <<start, finish, node, syncVars, worker, classVars, accepted, ran, dropped, owed>>
    BY <1>2 DEF Construct
  <2> QED BY <1>0, <2>2, <2>3, <2>4, <2>5 DEF PoolTypeOK, syncVars, classVars
<1>3. ASSUME NEW p \in Producers, Advance(p) PROVE PoolTypeOK'
  <2>1. finish' \in Slot
    BY <1>3, AdvanceTypes
  <2>2. ~broken => start <= finish'
    BY <1>0, <1>3, Records DEF PoolTypeOK, QueueOK, SlotsOK, Advance
  <2> QED BY <1>0, <1>3, <2>1, <2>2
        DEF PoolTypeOK, Advance, PushPc, syncVars, classVars, pastVars
<1>4. ASSUME NEW p \in Producers, Notify(p) PROVE PoolTypeOK'
  BY <1>0, <1>4 DEF PoolTypeOK, Notify, Maybe, PushPc, queueVars, classVars, pastVars, Idle
<1>5. ASSUME NEW w \in Workers, Lock(w) \/ WakeSpuriously(w) \/ Test(w) \/ Sleep(w) \/ Exit(w)
      PROVE PoolTypeOK'
  BY <1>0, <1>5 DEF PoolTypeOK, Lock, WakeSpuriously, Test, Sleep, Exit, Moves, WorkerPc,
     queueVars, syncVars, classVars, pastVars
<1>6. ASSUME NEW w \in Workers, Take(w) PROVE PoolTypeOK'
  <2>1. /\ start' \in Slot /\ start' <= finish /\ node' \in Nat
        /\ slot' \in [Slot -> Maybe] /\ slot[start] \in Maybe
        /\ ~broken => node' = start' \div Chunk
    BY <1>0, <1>6, PopTypes DEF Take
  <2> QED BY <1>0, <1>6, <2>1 DEF PoolTypeOK, Take, Thread, WorkerPc, classVars, pastVars
<1>7. ASSUME NEW w \in Workers, Run(w) PROVE PoolTypeOK'
  <2>1. worker[w].task \in Maybe
    BY <1>0, Records
  <2> QED BY <1>0, <1>7, <2>1 DEF PoolTypeOK, Run, Thread, Maybe, WorkerPc, queueVars, syncVars, classVars
<1>8. ASSUME Start PROVE PoolTypeOK'
  <2>1. NoTask \in Maybe /\ starts' \in 0 .. MaxStarts
    BY <1>0, <1>8 DEF PoolTypeOK, Start, Maybe
  <2>2. worker' \in [Workers -> [pc : WorkerPc,
                                task : Maybe]]
    BY <1>8, <2>1 DEF Start, Thread, WorkerPc
  <2> QED BY <1>0, <1>8, <2>1, <2>2 DEF PoolTypeOK, Start, queueVars, syncVars, pastVars
<1>9. ASSUME Stop \/ NotifyAll PROVE PoolTypeOK'
  BY <1>0, <1>9 DEF PoolTypeOK, Stop, NotifyAll, queueVars, syncVars, pastVars
<1>10. ASSUME Join PROVE PoolTypeOK'
  BY <1>0, <1>10 DEF PoolTypeOK, Join, Thread, Maybe, WorkerPc, queueVars, syncVars, pastVars
<1>11. ASSUME Drain PROVE PoolTypeOK'
  <2>1. CASE DrainLeaves \/ DrainEnds
    BY <1>0, <2>1 DEF PoolTypeOK, DrainLeaves, DrainEnds, queueVars, syncVars, pastVars
  <2>2. CASE DrainPops
    <3>1. /\ start' \in Slot /\ start' <= finish /\ node' \in Nat
          /\ slot' \in [Slot -> Maybe] /\ slot[start] \in Maybe
          /\ ~broken => node' = start' \div Chunk
      BY <1>0, <2>2, PopTypes DEF DrainPops
    <3> QED BY <1>0, <2>2, <3>1 DEF PoolTypeOK, DrainPops, syncVars
  <2> QED BY <1>11, <2>1, <2>2 DEF Drain
<1>12. ASSUME NEW p \in Producers, ReadStart(p) PROVE PoolTypeOK'
  BY <1>0, <1>12 DEF PoolTypeOK, ReadStart, PushPc, queueVars, syncVars, classVars, Pushing,
     Leaving
<1>13. ASSUME NEW p \in Producers, WriteStart(p) PROVE PoolTypeOK'
  <2>1. push[p].pos \in Nat
    BY <1>0, Records
  <2>2. ~broken => push[p].pos = node
    BY <1>0, <1>13 DEF QueueOK, MapOK, WriteStart
  <2> QED BY <1>0, <1>13, <2>1, <2>2
          DEF PoolTypeOK, WriteStart, PushPc, syncVars, classVars, pastVars
<1>14. ASSUME NEW w \in Workers, Leave(w) PROVE PoolTypeOK'
  BY <1>0, <1>14 DEF PoolTypeOK, Leave, Moves, WorkerPc, queueVars, syncVars, classVars,
     Recentring
<1>15. CASE UNCHANGED vars
  BY <1>0, <1>15 DEF PoolTypeOK, vars, queueVars, syncVars, classVars, pastVars
<1> QED BY <1>1, <1>2, <1>3, <1>4, <1>5, <1>6, <1>7, <1>8, <1>9, <1>10, <1>11, <1>12, <1>13,
           <1>14, <1>15
      DEF Next, WorkerStep, PushStep

-----------------------------------------------------------------------------
(* Where the workers are *)

LEMMA InitIInv == Init => IInv
<1> SUFFICES ASSUME Init PROVE IInv
  OBVIOUS
<1>1. PoolTypeOK
  BY InitTypes
<1>2. PushOK
  <2>1. finish = 0 /\ Cardinality(Pushed) \in Nat
    BY <1>1, PushedCounts DEF Init
  <2> QED BY <2>1 DEF Init, PushOK, InPush, Idle
<1>3. QueueOK
  BY PoolAssumption DEF Init, QueueOK, SlotsOK, MapOK, Begun, StopOK, Idle, Thread, Slot
<1>4. WorkersOK
  BY DEF Init, WorkersOK, Thread
<1> QED BY <1>1, <1>2, <1>3, <1>4 DEF IInv

LEMMA NextWorkers == IInv /\ [Next]_vars => WorkersOK'
<1> SUFFICES ASSUME IInv, [Next]_vars PROVE WorkersOK'
  OBVIOUS
<1>0. PoolTypeOK /\ WorkersOK
  BY DEF IInv
<1>1. ASSUME NEW p \in Producers, Enqueue(p) \/ PushStep(p) PROVE WorkersOK'
  BY <1>0, <1>1 DEF WorkersOK, Enqueue, PushStep, ReadStart, WriteStart, Construct,
     Advance, Notify, classVars
<1>2. ASSUME NEW w \in Workers, Lock(w) \/ Test(w) \/ Sleep(w) \/ Leave(w) PROVE WorkersOK'
  <2>1. /\ worker' = [worker EXCEPT ![w].pc = worker'[w].pc]
        /\ worker'[w].pc \in {"test", "take", "sleep", "wait", "leave"}
        /\ worker[w].pc \in {"idle", "wait", "test", "sleep", "take"}
        /\ UNCHANGED <<stopping, control>>
    BY <1>0, <1>2 DEF PoolTypeOK, Lock, Test, Sleep, Leave, Moves, At, classVars
  <2> QED BY <1>0, <2>1 DEF PoolTypeOK, WorkersOK
<1>3. ASSUME NEW w \in Workers, WakeSpuriously(w) PROVE WorkersOK'
  BY <1>0, <1>3 DEF WorkersOK, WakeSpuriously, classVars
<1>4. ASSUME NEW w \in Workers, Exit(w) PROVE WorkersOK'
  <2>1. control \in {"notify", "join"}
    BY <1>0, <1>4 DEF PoolTypeOK, WorkersOK, Exit, At
  <2> QED BY <1>0, <1>4, <2>1 DEF PoolTypeOK, WorkersOK, Exit, At, Moves, classVars
<1>5. ASSUME NEW w \in Workers, Take(w) PROVE WorkersOK'
  BY <1>0, <1>5 DEF PoolTypeOK, WorkersOK, Take, At, Thread, classVars
<1>6. ASSUME NEW w \in Workers, Run(w) PROVE WorkersOK'
  BY <1>0, <1>6 DEF PoolTypeOK, WorkersOK, Run, At, Thread, classVars
<1>7. ASSUME Start \/ Stop \/ NotifyAll PROVE WorkersOK'
  BY <1>0, <1>7 DEF PoolTypeOK, WorkersOK, Start, Stop, NotifyAll, Thread
<1>8. ASSUME Join \/ Drain PROVE WorkersOK'
  BY <1>0, <1>8 DEF PoolTypeOK, WorkersOK, Join, Drain, DrainLeaves, DrainPops,
     DrainEnds, Thread
<1>9. CASE UNCHANGED vars
  BY <1>0, <1>9 DEF WorkersOK, vars, classVars
<1> QED BY <1>1, <1>2, <1>3, <1>4, <1>5, <1>6, <1>7, <1>8, <1>9
      DEF Next, WorkerStep, PushStep

-----------------------------------------------------------------------------
(* The pushes *)

\* A call of enqueue does not count before its push is done.
LEMMA EnqueueKeeps ==
  ASSUME IInv, NEW p \in Producers, Enqueue(p)
  PROVE  Pushed' = Pushed
<1>1. accepted \in Nat /\ accepted' = accepted + 1
  BY Records DEF IInv, Enqueue
<1>2. /\ push'[p].pc = "construct" /\ push'[p].task = accepted + 1 /\ push[p].pc = "idle"
      /\ \A o \in Producers \ {p} : push'[o] = push[o]
  BY DEF IInv, PoolTypeOK, Enqueue
<1>3. ASSUME NEW t \in Pushed' PROVE t \in Pushed
  <2>1. t \in 1 .. accepted' /\ t # accepted + 1
    BY <1>2, <1>3 DEF Pushed, InPush
  <2>2. t \in 1 .. accepted
    BY <1>1, <2>1
  <2> QED BY <1>2, <1>3, <2>2 DEF Pushed, InPush
<1>4. ASSUME NEW t \in Pushed PROVE t \in Pushed'
  <2>1. t \in 1 .. accepted /\ t \in 1 .. accepted' /\ t # accepted + 1
    BY <1>1, <1>4 DEF Pushed, InPush
  <2> QED BY <1>2, <1>4, <2>1 DEF Pushed, InPush
<1> QED BY <1>3, <1>4

LEMMA ConstructKeeps ==
  ASSUME IInv, NEW p \in Producers,
         ReadStart(p) \/ WriteStart(p) \/ Construct(p) \/ Notify(p)
  PROVE  Pushed' = Pushed
<1>1. /\ accepted' = accepted
      /\ \A o \in Producers \ {p} : push'[o] = push[o]
      /\ InPush(p) => InPush(p)' /\ push'[p].task = push[p].task
      /\ ~InPush(p) => push'[p].pc = "idle"
  <2>1. CASE ReadStart(p) \/ WriteStart(p) \/ Construct(p)
    BY <2>1 DEF IInv, PoolTypeOK, ReadStart, WriteStart, Construct, InPush
  <2>2. CASE Notify(p)
    BY <2>2 DEF IInv, PoolTypeOK, Notify, InPush, Idle
  <2> QED BY <2>1, <2>2
<1>2. \A o \in Producers : InPush(o)' <=> InPush(o)
  BY <1>1 DEF InPush
<1> QED BY <1>1, <1>2, PushedKept DEF InPush

LEMMA NextPush == IInv /\ [Next]_vars => PushOK'
<1> SUFFICES ASSUME IInv, [Next]_vars PROVE PushOK'
  OBVIOUS
<1>0. PoolTypeOK /\ PushOK
  BY DEF IInv
<1>1. /\ Cardinality(Pushed) \in Nat /\ accepted \in Nat /\ finish \in Nat
      /\ \A p \in Producers : push[p].pos \in Nat
  BY <1>0, PushedCounts, Records DEF Slot
<1>2. ASSUME NEW p \in Producers, Enqueue(p) PROVE PushOK'
  <2>1. Pushed' = Pushed
    BY <1>2, EnqueueKeeps
  <2>2. /\ push'[p] = [pc |-> "construct", task |-> accepted + 1, pos |-> 0]
        /\ \A o \in Producers \ {p} : push'[o] = push[o]
        /\ finish' = finish /\ accepted' = accepted + 1
    BY <1>0, <1>2 DEF PoolTypeOK, Enqueue, queueVars
  <2>3. \A o \in Producers \ {p} : InPush(o) => push[o].task \in 1 .. accepted
    BY <1>0 DEF PushOK
  <2> QED BY <1>0, <1>1, <2>1, <2>2, <2>3 DEF PushOK, InPush
<1>3. ASSUME NEW p \in Producers, Advance(p) PROVE PushOK'
  <2>1. finish' <= Cardinality(Pushed') /\ Cardinality(Pushed') = Cardinality(Pushed) + 1
    BY <1>3, AdvanceTypes, PushedMore
  <2>2. /\ push'[p].pc = "notify" /\ \A o \in Producers \ {p} : push'[o] = push[o]
        /\ accepted' = accepted
    BY <1>0, <1>3 DEF PoolTypeOK, Advance
  <2>3. \A o \in Producers \ {p} :
          push[o].pc = "advance" => push[o].pos <= Cardinality(Pushed')
    BY <1>0, <1>1, <2>1 DEF PushOK
  <2> QED BY <1>0, <2>1, <2>2, <2>3 DEF PushOK, InPush
<1>4. ASSUME NEW p \in Producers, ReadStart(p) \/ WriteStart(p) \/ Construct(p) PROVE PushOK'
  <2>1. Pushed' = Pushed
    BY <1>4, ConstructKeeps
  <2> QED BY <1>0, <1>4, <2>1
        DEF PoolTypeOK, PushOK, InPush, ReadStart, WriteStart, Construct, queueVars
<1>5. ASSUME NEW p \in Producers, Notify(p) PROVE PushOK'
  <2>1. Pushed' = Pushed
    BY <1>5, ConstructKeeps
  <2> QED BY <1>0, <1>5, <2>1 DEF PoolTypeOK, PushOK, InPush, Notify, Idle, queueVars
<1>6. ASSUME UNCHANGED <<finish, push, accepted>> PROVE PushOK'
  <2>1. Pushed' = Pushed
    BY <1>6 DEF Pushed, InPush
  <2> QED BY <1>0, <1>6, <2>1 DEF PushOK, InPush
<1> QED BY <1>2, <1>3, <1>4, <1>5, <1>6 DEF Next, WorkerStep, PushStep, vars, Lock,
     WakeSpuriously, Test, Sleep, Exit, Leave, Take, Run, Start, Stop, NotifyAll, Join, Drain,
     DrainLeaves, DrainPops, DrainEnds, queueVars

-----------------------------------------------------------------------------
(* The queue *)

LEMMA StaysBroken == ~broken' /\ [Next]_vars => ~broken
BY DEF Next, WorkerStep, PushStep, vars, pastVars, Enqueue, ReadStart, WriteStart, Construct,
   Advance, Notify, Lock, WakeSpuriously, Test, Sleep, Exit, Leave, Take, Run, Start, Stop,
   NotifyAll, Join, Drain, DrainLeaves, DrainPops, DrainEnds

LEMMA NextSlots == IInv /\ ~broken' /\ [Next]_vars => SlotsOK'
<1> SUFFICES ASSUME IInv, ~broken', [Next]_vars PROVE SlotsOK'
  OBVIOUS
<1>0. PoolTypeOK /\ WorkersOK
  BY DEF IInv
<1>1. ~broken
  BY StaysBroken
<1>2. SlotsOK /\ MapOK /\ start <= finish
  BY <1>0, <1>1 DEF IInv, QueueOK, PoolTypeOK
<1>3. /\ start \in Slot /\ finish \in Slot /\ start \in Nat /\ finish \in Nat
      /\ \A i \in Slot : i \in Nat
      /\ slot \in [Slot -> Maybe]
  BY <1>0, Records DEF PoolTypeOK, Slot
<1>4. ASSUME NEW p \in Producers, Enqueue(p) PROVE SlotsOK'
  BY <1>0, <1>2, <1>4 DEF PoolTypeOK, SlotsOK, Enqueue, queueVars
<1>5. ASSUME NEW p \in Producers, Construct(p) PROVE SlotsOK'
  <2>1. \A o \in Producers \ {p} : push[o].pc # "advance" /\ push'[o] = push[o]
    BY <1>0, <1>5 DEF PoolTypeOK, Construct, Pushing
  <2>2. push'[p].pos = finish /\ push'[p].task = push[p].task
    BY <1>0, <1>5 DEF PoolTypeOK, Construct
  <2>3. slot'[finish] = push[p].task /\ \A i \in Slot \ {finish} : slot'[i] = slot[i]
    BY <1>3, <1>5 DEF Construct
  <2>4. UNCHANGED <<start, finish, worker>>
    BY <1>5 DEF Construct
  <2>5. \A i \in Slot : start' <= i /\ i < finish' => slot'[i] \in Task
    BY <1>2, <1>3, <2>3, <2>4 DEF SlotsOK
  <2> QED BY <1>2, <2>1, <2>2, <2>3, <2>4, <2>5 DEF SlotsOK
<1>6. ASSUME NEW p \in Producers, Advance(p) PROVE SlotsOK'
  <2>1. finish' = finish + 1 /\ UNCHANGED <<start, slot, worker>>
    BY <1>2, <1>3, <1>6 DEF SlotsOK, Advance
  <2>2. \A o \in Producers : push'[o].pc # "advance"
    BY <1>0, <1>2, <1>6 DEF PoolTypeOK, MapOK, Begun, Advance
  <2>3. slot[finish] \in Task
    <3>1. push[p].task \in Task
      BY <1>6, PushedMore
    <3> QED BY <1>2, <1>6, <3>1 DEF SlotsOK, Advance
  <2>4. ASSUME NEW i \in Slot, start <= i, i < finish + 1 PROVE slot[i] \in Task
    <3>1. i = finish \/ i < finish
      BY <1>3, <2>4
    <3> QED BY <1>2, <2>3, <2>4, <3>1 DEF SlotsOK
  <2> QED BY <1>2, <2>1, <2>2, <2>4 DEF SlotsOK
<1>7. ASSUME NEW p \in Producers, Notify(p) PROVE SlotsOK'
  BY <1>0, <1>2, <1>7 DEF PoolTypeOK, SlotsOK, Notify, queueVars, Idle
<1>8. ASSUME NEW w \in Workers, Take(w) PROVE SlotsOK'
  <2>1. start < finish /\ start' = start + 1 /\ slot[start] \in Task
    BY <1>2, <1>3, <1>8 DEF SlotsOK, Take, PopFront
  <2>2. /\ \A i \in Slot \ {start} : slot'[i] = slot[i]
        /\ UNCHANGED <<finish, push>>
    BY <1>3, <1>8 DEF Take, PopFront
  <2>3. \A i \in Slot : start' <= i /\ i < finish' => slot'[i] \in Task
    BY <1>2, <1>3, <2>1, <2>2 DEF SlotsOK
  <2>4. \A v \in Workers : worker'[v].pc = "run" => worker'[v].task \in Task
    BY <1>0, <1>2, <1>8, <2>1 DEF PoolTypeOK, SlotsOK, Take, Thread
  <2>5. slot'[finish] = slot[finish]
    BY <1>3, <2>1, <2>2
  <2> QED BY <1>2, <2>2, <2>3, <2>4, <2>5 DEF SlotsOK
<1>9. ASSUME Drain PROVE SlotsOK'
  <2>1. CASE DrainLeaves \/ DrainEnds
    BY <1>2, <2>1 DEF SlotsOK, DrainLeaves, DrainEnds, queueVars
  <2>2. CASE DrainPops
    <3>1. start < finish /\ start' = start + 1
      BY <2>2 DEF DrainPops, PopFront
    <3>2. /\ \A i \in Slot \ {start} : slot'[i] = slot[i]
          /\ UNCHANGED <<finish, push, worker>>
      BY <1>3, <2>2 DEF DrainPops, PopFront
    <3>3. \A i \in Slot : start' <= i /\ i < finish' => slot'[i] \in Task
      BY <1>2, <1>3, <3>1, <3>2 DEF SlotsOK
    <3>4. slot'[finish] = slot[finish]
      BY <1>3, <3>1, <3>2
    <3> QED BY <1>2, <3>2, <3>3, <3>4 DEF SlotsOK
  <2> QED BY <1>9, <2>1, <2>2 DEF Drain
<1>10. ASSUME NEW w \in Workers, Lock(w) \/ WakeSpuriously(w) \/ Test(w) \/ Sleep(w) \/ Exit(w)
                                 \/ Leave(w) \/ Run(w)
       PROVE SlotsOK'
  <2>1. UNCHANGED <<slot, start, finish, push>>
    BY <1>10 DEF Lock, WakeSpuriously, Test, Sleep, Exit, Leave, Run, queueVars
  <2>2. \A v \in Workers : worker'[v].pc = "run" => worker'[v] = worker[v]
    BY <1>0, <1>10 DEF PoolTypeOK, Lock, WakeSpuriously, Test, Sleep, Exit, Leave, Run, At,
       Moves, Thread
  <2> QED BY <1>2, <2>1, <2>2 DEF SlotsOK
<1>11. ASSUME Start \/ Stop \/ NotifyAll \/ Join PROVE SlotsOK'
  BY <1>2, <1>11 DEF SlotsOK, Start, Stop, NotifyAll, Join, queueVars, Thread
<1>12. CASE UNCHANGED vars
  BY <1>2, <1>12 DEF SlotsOK, vars, queueVars
<1>13. ASSUME NEW p \in Producers, ReadStart(p) \/ WriteStart(p) PROVE SlotsOK'
  <2>1. /\ \A o \in Producers \ {p} : push'[o] = push[o]
        /\ push'[p].pc # "advance"
        /\ UNCHANGED <<slot, start, finish, worker>>
    BY <1>0, <1>13 DEF PoolTypeOK, ReadStart, WriteStart, queueVars
  <2> QED BY <1>2, <2>1 DEF SlotsOK
<1> QED BY <1>4, <1>5, <1>6, <1>7, <1>8, <1>9, <1>10, <1>11, <1>12, <1>13
      DEF Next, WorkerStep, PushStep

LEMMA NextStop == IInv /\ ~broken' /\ [Next]_vars => StopOK'
<1> SUFFICES ASSUME IInv, ~broken', [Next]_vars PROVE StopOK'
  OBVIOUS
<1>0. PoolTypeOK /\ WorkersOK
  BY DEF IInv
<1>1. ~broken
  BY StaysBroken
<1>2. SlotsOK /\ StopOK
  BY <1>1 DEF IInv, QueueOK
<1>3. start \in Nat /\ finish \in Nat /\ owed \in Nat
  BY <1>0, Records DEF PoolTypeOK, Slot
<1>4. ASSUME NEW p \in Producers,
             Enqueue(p) \/ ReadStart(p) \/ WriteStart(p) \/ Construct(p) \/ Notify(p)
      PROVE StopOK'
  BY <1>2, <1>4 DEF StopOK, Enqueue, ReadStart, WriteStart, Construct, Notify, queueVars,
     classVars, pastVars
<1>5. ASSUME NEW p \in Producers, Advance(p) PROVE StopOK'
  <2>1. finish' = finish + 1
    BY <1>2, <1>3, <1>5 DEF SlotsOK, Advance
  <2> QED BY <1>2, <1>3, <1>5, <2>1 DEF StopOK, Advance, classVars, pastVars
<1>6. ASSUME NEW w \in Workers, Take(w) \/ Run(w) \/ Lock(w) \/ WakeSpuriously(w) \/ Test(w)
                                \/ Sleep(w) \/ Leave(w)
      PROVE StopOK'
  <2>1. /\ start' = start \/ start' = start + 1
        /\ UNCHANGED <<finish, owed, control>>
    BY <1>6 DEF Take, PopFront, Run, Lock, WakeSpuriously, Test, Sleep, Leave, queueVars,
       classVars, pastVars
  <2>2. \A v \in Workers : worker'[v].pc = "done" => worker[v].pc = "done"
    BY <1>0, <1>6 DEF PoolTypeOK, Lock, WakeSpuriously, Test, Sleep, Leave, Take, Run, At,
       Moves, Thread
  <2> QED BY <1>2, <1>3, <2>1, <2>2 DEF StopOK
<1>7. ASSUME NEW w \in Workers, Exit(w) PROVE StopOK'
  BY <1>2, <1>3, <1>7 DEF StopOK, Exit, Empty, queueVars, classVars, pastVars
<1>8. ASSUME Start PROVE StopOK'
  BY <1>2, <1>8 DEF StopOK, Start, queueVars, pastVars
<1>9. ASSUME Stop PROVE StopOK'
  <2>1. \A w \in Workers : worker[w].pc # "done"
    BY <1>0, <1>9 DEF WorkersOK, Stop
  <2> QED BY <1>3, <1>9, <2>1 DEF StopOK, Stop, queueVars
<1>10. ASSUME NotifyAll PROVE StopOK'
  BY <1>2, <1>10 DEF StopOK, NotifyAll, queueVars, pastVars
<1>11. ASSUME Join PROVE StopOK'
  <2>1. PICK w \in Workers : TRUE
    BY PoolAssumption
  <2>2. owed <= start
    BY <1>2, <1>11, <2>1 DEF StopOK, Join, At
  <2> QED BY <1>2, <1>11, <2>2 DEF StopOK, Join, queueVars, pastVars
<1>12. ASSUME Drain PROVE StopOK'
  BY <1>2, <1>3, <1>12 DEF StopOK, Drain, DrainLeaves, DrainPops, DrainEnds, PopFront, queueVars,
     pastVars
<1>13. CASE UNCHANGED vars
  BY <1>2, <1>13 DEF StopOK, vars, queueVars, classVars, pastVars
<1> QED BY <1>4, <1>5, <1>6, <1>7, <1>8, <1>9, <1>10, <1>11, <1>12, <1>13
      DEF Next, WorkerStep, PushStep

LEMMA NextMap == IInv /\ ~broken' /\ [Next]_vars => MapOK'
<1> SUFFICES ASSUME IInv, ~broken', [Next]_vars PROVE MapOK'
  OBVIOUS
<1>0. PoolTypeOK /\ WorkersOK
  BY DEF IInv
<1>1. MapOK
  BY StaysBroken DEF IInv, QueueOK
<1>2. ASSUME NEW p \in Producers, Enqueue(p) \/ Advance(p) \/ Notify(p) PROVE MapOK'
  <2>1. /\ \A o \in Producers \ {p} : push'[o] = push[o]
        /\ ~Begun(p)' /\ UNCHANGED <<node, control, worker>>
    BY <1>0, <1>2 DEF PoolTypeOK, Enqueue, Advance, Notify, Begun, Idle, queueVars, classVars
  <2> QED BY <1>1, <2>1 DEF MapOK, Begun, Leaving
<1>3. ASSUME NEW p \in Producers, ReadStart(p) PROVE MapOK'
  <2>1. /\ \A o \in Producers \ {p} : push'[o] = push[o] /\ ~Begun(o)
        /\ push'[p].pc = "recentre" /\ push'[p].pos = node
        /\ ~Leaving /\ UNCHANGED <<node, control, worker>>
    BY <1>0, <1>3 DEF PoolTypeOK, ReadStart, Begun, Pushing, queueVars, classVars
  <2> QED BY <2>1 DEF MapOK, Begun, Leaving
<1>4. ASSUME NEW p \in Producers, WriteStart(p) PROVE MapOK'
  <2>1. /\ \A o \in Producers \ {p} : push'[o] = push[o] /\ ~Begun(o)
        /\ push'[p].pc = "recentred"
    BY <1>0, <1>1, <1>4 DEF PoolTypeOK, WriteStart, MapOK, Begun
  <2> QED BY <2>1 DEF MapOK, Begun
<1>5. ASSUME NEW p \in Producers, Construct(p) PROVE MapOK'
  <2>1. /\ \A o \in Producers \ {p} : push'[o] = push[o] /\ ~Begun(o)
        /\ push'[p].pc = "advance"
    BY <1>0, <1>5 DEF PoolTypeOK, Construct, Begun, Pushing
  <2> QED BY <2>1 DEF MapOK, Begun
<1>6. ASSUME NEW w \in Workers, Leave(w) PROVE MapOK'
  BY <1>0, <1>1, <1>6 DEF PoolTypeOK, Leave, Recentring, MapOK, Begun
<1>7. ASSUME NEW w \in Workers, Take(w) PROVE MapOK'
  <2>1. LastOfChunk(start) => Leaving
    BY <1>7 DEF Take, At, Leaving
  <2>2. push' = push /\ control' = control /\ (~LastOfChunk(start) => node' = node)
    BY <1>7 DEF Take, PopFront, classVars
  <2>3. Leaving' => Leaving
    BY <1>0, <1>7 DEF PoolTypeOK, Take, Thread, Leaving, classVars
  <2> QED BY <1>1, <2>1, <2>2, <2>3 DEF MapOK, Begun
<1>8. ASSUME NEW w \in Workers, Lock(w) \/ WakeSpuriously(w) \/ Test(w) \/ Sleep(w) \/ Exit(w)
                                \/ Run(w)
      PROVE MapOK'
  <2>1. UNCHANGED <<push, node, control>>
    BY <1>8 DEF Lock, WakeSpuriously, Test, Sleep, Exit, Run, queueVars, classVars
  <2>2. \A v \in Workers : worker'[v].pc = "leave" => worker[v].pc = "leave"
    BY <1>0, <1>8 DEF PoolTypeOK, Lock, WakeSpuriously, Test, Sleep, Exit, Run, At, Moves, Thread
  <2> QED BY <1>1, <2>1, <2>2 DEF MapOK, Begun, Leaving
<1>9. ASSUME Start \/ Stop \/ NotifyAll \/ Join PROVE MapOK'
  BY <1>1, <1>9 DEF MapOK, Begun, Leaving, Start, Stop, NotifyAll, Join, Thread, queueVars
<1>10. ASSUME Drain PROVE MapOK'
  <2>1. CASE DrainLeaves
    BY <1>0, <1>1, <2>1 DEF PoolTypeOK, DrainLeaves, Recentring, MapOK, Begun
  <2>2. CASE DrainPops
    <3>1. LastOfChunk(start) => Leaving
      BY <2>2 DEF DrainPops, Leaving
    <3>2. /\ UNCHANGED <<push, worker>> /\ control' = "drain"
          /\ (~LastOfChunk(start) => node' = node)
      BY <2>2 DEF DrainPops, PopFront
    <3> QED BY <1>1, <3>1, <3>2 DEF MapOK, Begun, Leaving
  <2>3. CASE DrainEnds
    BY <1>1, <2>3 DEF DrainEnds, MapOK, Begun, Leaving, queueVars
  <2> QED BY <1>10, <2>1, <2>2, <2>3 DEF Drain
<1>11. CASE UNCHANGED vars
  BY <1>1, <1>11 DEF MapOK, Begun, Leaving, vars, queueVars, classVars
<1> QED BY <1>2, <1>3, <1>4, <1>5, <1>6, <1>7, <1>8, <1>9, <1>10, <1>11
      DEF Next, WorkerStep, PushStep

LEMMA NextIInv == IInv /\ [Next]_vars => IInv'
BY NextTypes, NextPush, NextWorkers, NextSlots, NextStop, NextMap DEF IInv, QueueOK

-----------------------------------------------------------------------------
(* What the pool guarantees *)

(***************************************************************************)
(* The inductive invariant: what lies in q, who pushes what, and where the *)
(* workers are.                                                            *)
(***************************************************************************)
THEOREM Invariance == Spec => []IInv
BY InitIInv, NextIInv, PTL DEF Spec

(***************************************************************************)
(* The types hold, and until q is broken its beginning does not overtake   *)
(* its end and names the chunk it lies in: enqueue (worker.cpp) and the    *)
(* pop of a worker may run at the same time.                               *)
(***************************************************************************)
THEOREM PoolTypeCorrect == Spec => []PoolTypeOK
<1>1. IInv => PoolTypeOK
  BY DEF IInv
<1> QED BY <1>1, Invariance, PTL

(***************************************************************************)
(* When shutdown() (worker.cpp) has joined the workers, every task that    *)
(* was in the queue when it was called has been begun, unless q was broken *)
(* before.                                                                 *)
(***************************************************************************)
THEOREM StopsAfterAccepted == Spec => []AcceptedBeforeStopRuns
<1>1. IInv => AcceptedBeforeStopRuns
  BY DEF IInv, PoolTypeOK, Slot, QueueOK, StopOK, AcceptedBeforeStopRuns
<1> QED BY <1>1, Invariance, PTL

-----------------------------------------------------------------------------
(* The refinement *)

LEMMA QueuedIsSeq ==
  ASSUME IInv, ~broken
  PROVE  /\ Queued \in Seq(Task)
         /\ Len(Queued) = finish - start
         /\ \A i \in 1 .. finish - start : Queued[i] = slot[start + i - 1]
<1>1. start \in Nat /\ finish \in Nat /\ start <= finish /\ finish <= MaxTasks
  BY Records DEF IInv, PoolTypeOK
<1>2. ASSUME NEW i \in 1 .. finish - start PROVE slot[start + i - 1] \in Task
  <2>1. start + i - 1 \in Slot /\ start <= start + i - 1 /\ start + i - 1 < finish
    BY <1>1, PoolAssumption DEF Slot
  <2> QED BY <2>1 DEF IInv, QueueOK, SlotsOK
<1>3. finish - start \in Nat
  BY <1>1
<1> QED BY <1>2, <1>3 DEF Queued

\* A push that moves the end on makes the queue longer by its task.
LEMMA AdvanceAppends ==
  ASSUME IInv, NEW p \in Producers, Advance(p), ~broken
  PROVE  Queued' = Append(Queued, push[p].task)
<1>1. start \in Nat /\ finish \in Nat /\ start <= finish /\ finish <= MaxTasks
  BY Records DEF IInv, PoolTypeOK
<1>2. /\ finish' = finish + 1 /\ start' = start /\ slot' = slot
      /\ slot[finish] = push[p].task
  BY <1>1 DEF IInv, QueueOK, SlotsOK, Advance
<1>3. /\ Queued \in Seq(Task) /\ Len(Queued) = finish - start
      /\ \A i \in 1 .. finish - start : Queued[i] = slot[start + i - 1]
  BY QueuedIsSeq
<1>4. Queued' = [i \in 1 .. finish + 1 - start |-> slot[start + i - 1]]
  <2>1. Queued' = [i \in 1 .. finish' - start' |-> slot'[start' + i - 1]]
    BY DEF Queued
  <2>2. finish' - start' = finish + 1 - start
    BY <1>1, <1>2
  <2> QED BY <1>2, <2>1, <2>2, Zenon
<1>5. Append(Queued, push[p].task)
        = [i \in 1 .. finish - start + 1 |->
             IF i = finish - start + 1 THEN push[p].task ELSE Queued[i]]
  BY <1>1, <1>3
<1>6. 1 .. finish + 1 - start = 1 .. finish - start + 1
  BY <1>1
<1>7. ASSUME NEW i \in 1 .. finish - start + 1
      PROVE slot[start + i - 1]
              = IF i = finish - start + 1 THEN push[p].task ELSE Queued[i]
  <2>1. CASE i = finish - start + 1
    <3>1. start + i - 1 = finish
      BY <1>1, <2>1
    <3> QED BY <1>2, <2>1, <3>1
  <2>2. CASE i # finish - start + 1
    <3>1. i \in 1 .. finish - start
      BY <1>1, <2>2
    <3> QED BY <1>3, <2>2, <3>1
  <2> QED BY <2>1, <2>2
<1> QED BY <1>4, <1>5, <1>6, <1>7

\* A pop takes the first task.
LEMMA PopTakesHead ==
  ASSUME IInv, ~broken, start < finish, start' = start + 1, finish' = finish,
         slot' = [slot EXCEPT ![start] = NoTask]
  PROVE  /\ Queued # <<>> /\ slot[start] = Head(Queued)
         /\ Queued' = Tail(Queued)
<1>1. start \in Nat /\ finish \in Nat /\ start <= finish /\ finish <= MaxTasks
      /\ slot \in [Slot -> Maybe] /\ MaxTasks \in Nat
  BY Records DEF IInv, PoolTypeOK
<1>2. /\ Queued \in Seq(Task) /\ Len(Queued) = finish - start
      /\ \A i \in 1 .. finish - start : Queued[i] = slot[start + i - 1]
  BY QueuedIsSeq
<1>3. Queued # <<>> /\ Head(Queued) = Queued[1]
  BY <1>1, <1>2
<1>4. Queued[1] = slot[start]
  <2>1. 1 \in 1 .. finish - start /\ start + 1 - 1 = start
    BY <1>1
  <2> QED BY <1>2, <2>1
<1>5. Queued' = [i \in 1 .. finish - (start + 1) |-> slot'[start + 1 + i - 1]]
  BY DEF Queued
<1>6. Tail(Queued) = [i \in 1 .. finish - start - 1 |-> Queued[i + 1]]
  <2>1. /\ Tail(Queued) \in Seq(Task) /\ Len(Tail(Queued)) = finish - start - 1
        /\ \A i \in 1 .. Len(Tail(Queued)) : Tail(Queued)[i] = Queued[i + 1]
    BY <1>2, <1>3, HeadTailProperties
  <2> QED BY <2>1, LenProperties
<1>7. 1 .. finish - (start + 1) = 1 .. finish - start - 1
  BY <1>1
<1>8. ASSUME NEW i \in 1 .. finish - start - 1
      PROVE slot'[start + 1 + i - 1] = Queued[i + 1]
  <2>1. /\ i + 1 \in 1 .. finish - start /\ start + (i + 1) - 1 = start + i
        /\ start + 1 + i - 1 = start + i /\ start + i \in Slot /\ start + i # start
    BY <1>1 DEF Slot
  <2>2. slot'[start + i] = slot[start + i]
    BY <1>1, <2>1
  <2>3. Queued[i + 1] = slot[start + i]
    BY <1>2, <2>1
  <2> QED BY <2>1, <2>2, <2>3
<1> QED BY <1>3, <1>4, <1>5, <1>6, <1>7, <1>8

LEMMA InitRefines == Init => Abstract!Init
<1> SUFFICES ASSUME Init PROVE Abstract!Init
  OBVIOUS
<1>1. IInv /\ ~broken
  BY InitIInv DEF Init
<1>2. Pushed = {}
  BY DEF Init, Pushed
<1>3. Queued = <<>>
  <2>1. Queued \in Seq(Task) /\ Len(Queued) = 0
    BY <1>1, QueuedIsSeq DEF Init
  <2> QED BY <2>1, EmptySeq
<1>4. [w \in Workers |-> worker[w].task] = [w \in Workers |-> NoTask]
  BY DEF Init, Thread
<1> QED BY <1>1, <1>2, <1>3, <1>4 DEF Init, Abstract!Init

\* Whatever leaves alone what was pushed, q, the tasks of the workers and ran.
LEMMA Stutters ==
  ASSUME Pushed' = Pushed, UNCHANGED <<slot, start, finish, ran, broken>>,
         \A w \in Workers : worker'[w].task = worker[w].task
  PROVE  UNCHANGED Abstract!tpVars
<1>1. Queued' = Queued
  <2>1. Queued' = [i \in 1 .. finish' - start' |-> slot'[start' + i - 1]]
    BY DEF Queued
  <2> QED BY <2>1 DEF Queued
<1>2. [w \in Workers |-> worker[w].task]' = [w \in Workers |-> worker[w].task]
  OBVIOUS
<1> QED BY <1>1, <1>2 DEF Abstract!tpVars

LEMMA StepRefines == IInv /\ [Next]_vars => [Abstract!Next]_Abstract!tpVars
<1> SUFFICES ASSUME IInv, [Next]_vars PROVE Abstract!Next \/ UNCHANGED Abstract!tpVars
  OBVIOUS
<1>0. PoolTypeOK /\ WorkersOK /\ IInv'
  BY NextIInv DEF IInv
<1>1. CASE broken'
  BY <1>1 DEF Abstract!Next
<1>2. CASE ~broken'
  <2>1. ~broken
    BY <1>2, StaysBroken
  <2>2. broken' = broken
    BY <1>0, <1>2, <2>1 DEF IInv, PoolTypeOK
  <2>3. ASSUME NEW p \in Producers, Enqueue(p) \/ ReadStart(p) \/ WriteStart(p) \/ Notify(p)
        PROVE UNCHANGED Abstract!tpVars
    <3>1. Pushed' = Pushed
      BY <2>3, EnqueueKeeps, ConstructKeeps
    <3> QED BY <2>2, <2>3, <3>1, Stutters
            DEF Enqueue, ReadStart, WriteStart, Notify, queueVars, pastVars
  <2>4. ASSUME NEW p \in Producers, Construct(p) PROVE UNCHANGED Abstract!tpVars
    <3>1. Pushed' = Pushed
      BY <2>4, ConstructKeeps
    <3>2. start \in Nat /\ finish \in Nat /\ start <= finish /\ slot \in [Slot -> Maybe]
          /\ finish \in Slot
      BY <1>0, <2>1, Records DEF PoolTypeOK
    <3>3. Queued' = [i \in 1 .. finish - start |-> slot'[start + i - 1]]
      <4>1. Queued' = [i \in 1 .. finish' - start' |-> slot'[start' + i - 1]]
        BY DEF Queued
      <4> QED BY <2>4, <4>1 DEF Construct
    <3>4. ASSUME NEW i \in 1 .. finish - start PROVE slot'[start + i - 1] = slot[start + i - 1]
      <4>1. start + i - 1 # finish /\ start + i - 1 \in Slot
        BY <1>0, <3>2, Records DEF Slot
      <4> QED BY <2>4, <3>2, <4>1 DEF Construct
    <3>5. Queued' = Queued
      BY <3>3, <3>4 DEF Queued
    <3>6. ran' = ran /\ worker' = worker
      BY <2>4 DEF Construct
    <3> QED BY <2>2, <3>1, <3>5, <3>6 DEF Abstract!tpVars
  <2>5. ASSUME NEW p \in Producers, Advance(p) PROVE Abstract!Accept(push[p].task)
    <3>1. push[p].task \notin Pushed /\ Pushed' = Pushed \cup {push[p].task}
      BY <2>5, PushedMore
    <3>2. Queued' = Append(Queued, push[p].task)
      BY <2>1, <2>5, AdvanceAppends
    <3>3. ran' = ran /\ worker' = worker
      BY <2>5 DEF Advance, pastVars
    <3> QED BY <1>2, <2>1, <2>2, <3>1, <3>2, <3>3 DEF Abstract!Accept
  <2>6. ASSUME NEW w \in Workers, Lock(w) \/ WakeSpuriously(w) \/ Test(w) \/ Sleep(w) \/ Exit(w)
                                  \/ Leave(w)
        PROVE UNCHANGED Abstract!tpVars
    <3>1. /\ push' = push /\ accepted' = accepted
          /\ UNCHANGED <<slot, start, finish, ran>>
      BY <2>6 DEF Lock, WakeSpuriously, Test, Sleep, Exit, Leave, queueVars, pastVars
    <3>2. \A v \in Workers : worker'[v].task = worker[v].task
      BY <1>0, <2>6 DEF PoolTypeOK, Lock, WakeSpuriously, Test, Sleep, Exit, Leave, Moves
    <3>3. Pushed' = Pushed
      BY <3>1 DEF Pushed, InPush
    <3> QED BY <2>2, <3>1, <3>2, <3>3, Stutters
  <2>7. ASSUME NEW w \in Workers, Take(w) PROVE Abstract!Begin(w)
    <3>1. /\ Queued # <<>> /\ slot[start] = Head(Queued)
          /\ Queued' = Tail(Queued)
      BY <2>1, <2>7, PopTakesHead DEF Take, PopFront
    <3>2. worker[w].task = NoTask
      BY <1>0, <2>7 DEF WorkersOK, Take, At
    <3>3. push' = push /\ accepted' = accepted /\ ran' = ran
      BY <2>7 DEF Take, pastVars
    <3>4. Pushed' = Pushed
      BY <3>3 DEF Pushed, InPush
    <3>5. [v \in Workers |-> worker[v].task]'
            = [[v \in Workers |-> worker[v].task] EXCEPT ![w] = Head(Queued)]
      BY <1>0, <2>7, <3>1 DEF PoolTypeOK, Take, Thread
    <3> QED BY <1>2, <2>1, <2>2, <3>1, <3>2, <3>3, <3>4, <3>5 DEF Abstract!Begin
  <2>8. ASSUME NEW w \in Workers, Run(w) PROVE Abstract!Finish(w)
    <3>1. worker[w].task \in Task /\ worker[w].task # NoTask
      BY <2>1, <2>8, PoolAssumption DEF IInv, QueueOK, SlotsOK, Run, At, Task
    <3>2. ran' = ran \cup {worker[w].task}
      BY <2>8, <3>1 DEF Run
    <3>3. push' = push /\ accepted' = accepted /\ UNCHANGED <<slot, start, finish>>
      BY <2>8 DEF Run, queueVars
    <3>4. Pushed' = Pushed
      BY <3>3 DEF Pushed, InPush
    <3>5. Queued' = Queued
      BY <3>3 DEF Queued
    <3>6. [v \in Workers |-> worker[v].task]'
            = [[v \in Workers |-> worker[v].task] EXCEPT ![w] = NoTask]
      BY <1>0, <2>8 DEF PoolTypeOK, Run, Thread
    <3> QED BY <1>2, <2>1, <2>2, <3>1, <3>2, <3>4, <3>5, <3>6 DEF Abstract!Finish
  <2>9. ASSUME Start \/ Stop \/ NotifyAll \/ Join PROVE UNCHANGED Abstract!tpVars
    <3>1. /\ push' = push /\ accepted' = accepted
          /\ UNCHANGED <<slot, start, finish, ran>>
      BY <2>9 DEF Start, Stop, NotifyAll, Join, queueVars, pastVars
    <3>2. \A v \in Workers : worker'[v].task = worker[v].task
      BY <1>0, <2>9 DEF PoolTypeOK, WorkersOK, Start, Stop, NotifyAll, Join, At, Thread
    <3>3. Pushed' = Pushed
      BY <3>1 DEF Pushed, InPush
    <3> QED BY <2>2, <3>1, <3>2, <3>3, Stutters
  <2>10. ASSUME Drain PROVE Abstract!Drop \/ UNCHANGED Abstract!tpVars
    <3>1. push' = push /\ accepted' = accepted /\ ran' = ran /\ worker' = worker
      BY <2>10 DEF Drain, DrainLeaves, DrainPops, DrainEnds, pastVars
    <3>2. Pushed' = Pushed
      BY <3>1 DEF Pushed, InPush
    <3>3. CASE DrainLeaves \/ DrainEnds
      BY <2>2, <3>1, <3>2, <3>3, Stutters DEF DrainLeaves, DrainEnds, queueVars
    <3>4. CASE DrainPops
      <4>1. Queued # <<>> /\ Queued' = Tail(Queued)
        BY <2>1, <3>4, PopTakesHead DEF DrainPops, PopFront
      <4>2. \A w \in Workers : worker[w].task = NoTask
        BY <1>0, <3>4 DEF PoolTypeOK, WorkersOK, DrainPops
      <4> QED BY <1>2, <2>1, <2>2, <3>1, <3>2, <4>1, <4>2 DEF Abstract!Drop
    <3> QED BY <2>10, <3>3, <3>4 DEF Drain
  <2>11. CASE UNCHANGED vars
    <3>1. Pushed' = Pushed
      BY <2>11 DEF vars, Pushed, InPush
    <3> QED BY <2>11, <3>1, Stutters DEF vars, queueVars, pastVars
  <2>12. ASSUME NEW p \in Producers, Advance(p) PROVE Abstract!Next
    <3>1. push[p].task \in Abstract!Task
      BY <2>12, PushedMore DEF Task, Abstract!Task
    <3> QED BY <2>5, <2>12, <3>1 DEF Abstract!Next
  <2> QED BY <2>3, <2>4, <2>6, <2>7, <2>8, <2>9, <2>10, <2>11, <2>12
          DEF Next, WorkerStep, PushStep, Abstract!Next
<1> QED BY <1>1, <1>2

(***************************************************************************)
(* enqueue, run and shutdown (worker.cpp) implement TaskPool: until two    *)
(* threads push at the same time, or a push moves the entries of q's map   *)
(* while a pop leaves a chunk, every task that is accepted is begun once,  *)
(* in the order of the pushes, or dropped by shutdown() when no worker     *)
(* runs any more.                                                          *)
(***************************************************************************)
THEOREM Implements == Spec => PoolIsFifo
<1>1. Spec => []IInv
  BY Invariance
<1> QED BY <1>1, InitRefines, StepRefines, PTL DEF Spec, PoolIsFifo, Abstract!Spec
==============================================================================
