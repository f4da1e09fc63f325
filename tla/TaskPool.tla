------------------------------ MODULE TaskPool -------------------------------
(***************************************************************************)
(* What the callers of WorkerPool rely on: the tasks accepted are run once *)
(* each, begun in the order in which they were accepted, or dropped when   *)
(* the pool is shut down and no worker runs any more.  Nothing is promised *)
(* any more once an unlocked push has met an access to the queue that it   *)
(* may not meet.                                                           *)
(***************************************************************************)
EXTENDS Naturals, Sequences

CONSTANTS
  Workers,                \* the threads of the pool
  MaxTasks,               \* bound: tasks ever accepted
  NoTask                  \* what an idle worker runs

VARIABLES
  known,                  \* tasks accepted so far
  pending,                \* accepted and not begun, in order
  active,                 \* active[w]: the task worker w runs
  finished,               \* tasks that have run
  broken                  \* the queue may have been damaged

tpVars == <<known, pending, active, finished, broken>>

Task == 1 .. MaxTasks

Init ==
  /\ known = {}
  /\ pending = <<>>
  /\ active = [w \in Workers |-> NoTask]
  /\ finished = {}
  /\ broken = FALSE

Accept(t) ==
  /\ t \notin known
  /\ known' = known \cup {t}
  /\ pending' = Append(pending, t)
  /\ UNCHANGED <<active, finished, broken>>

Begin(w) ==
  /\ active[w] = NoTask /\ pending # <<>>
  /\ active' = [active EXCEPT ![w] = Head(pending)]
  /\ pending' = Tail(pending)
  /\ UNCHANGED <<known, finished, broken>>

Finish(w) ==
  /\ active[w] # NoTask
  /\ finished' = finished \cup {active[w]}
  /\ active' = [active EXCEPT ![w] = NoTask]
  /\ UNCHANGED <<known, pending, broken>>

Drop ==
  /\ \A w \in Workers : active[w] = NoTask
  /\ pending # <<>>
  /\ pending' = Tail(pending)
  /\ UNCHANGED <<known, active, finished, broken>>

Next ==
  \/ \E t \in Task : Accept(t)
  \/ \E w \in Workers : Begin(w) \/ Finish(w)
  \/ Drop
  \/ broken'              \* anything may happen

Spec == Init /\ [][Next]_tpVars
==============================================================================
