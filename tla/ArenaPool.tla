----------------------------- MODULE ArenaPool -----------------------------
(***************************************************************************)
(* The pool of request arenas (memory.cpp, class ArenaManager).  Every     *)
(* request lives in one arena; the pool is shared by the FastCGI IO thread *)
(* and by the WebSocket threads, and its size is the only admission        *)
(* control of the server.                                                  *)
(*                                                                         *)
(* get() and release() each run under ArenaManager::mutex, so each is one  *)
(* atomic update.  available_count is a separate atomic that callers read  *)
(* without the mutex; a relaxed load of it is a read of the variable.      *)
(* An arena is named by its management_flag, its index in the pool.        *)
(***************************************************************************)
EXTENDS Integers, FiniteSets

CONSTANT NArenas          \* create_arenas(count, ...)

ASSUME NArenasAssumption == NArenas \in Nat

VARIABLES
  in_use,                 \* in_use[a]: arena a is handed out
  available_count         \* number of arenas not handed out, read unlocked

poolVars == <<in_use, available_count>>

Arena == 0 .. NArenas - 1

\* The null pointer get() returns when nothing is free.
NoArena == -1

FreeArenas == {a \in Arena : ~in_use[a]}

PoolTypeOK ==
  /\ in_use \in [Arena -> BOOLEAN]
  /\ available_count \in Int

\* create_arenas: every arena is free.
PoolInit ==
  /\ in_use = [a \in Arena |-> FALSE]
  /\ available_count = NArenas

\* get() scans in_use from index 0, so it returns the lowest free arena.
FirstFree(a) == a \in FreeArenas /\ \A b \in FreeArenas : a <= b

\* Mutation: the arena handed out is not counted.
GetUncounted(a) ==
  /\ FirstFree(a)
  /\ in_use' = [in_use EXCEPT ![a] = TRUE]
  /\ UNCHANGED available_count

Get(a) ==
  /\ FirstFree(a)
  /\ in_use' = [in_use EXCEPT ![a] = TRUE]
  /\ available_count' = available_count - 1

\* get() of an exhausted pool changes nothing and returns the null pointer.
Exhausted == FreeArenas = {}

\* release() counts an arena back only if it was handed out.
Release(a) ==
  /\ in_use' = [in_use EXCEPT ![a] = FALSE]
  /\ available_count' = IF in_use[a] THEN available_count + 1
                                     ELSE available_count

(***************************************************************************)
(* The counter that callers read without the lock is the number of free    *)
(* arenas whenever no thread is inside get() or release().  The waiting    *)
(* list and the pausing of accept() rely on it.                            *)
(***************************************************************************)
PoolAccounting == available_count = Cardinality(FreeArenas)
============================================================================
