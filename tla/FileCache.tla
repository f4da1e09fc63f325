------------------------------ MODULE FileCache ------------------------------
(***************************************************************************)
(* The cache of whole files (fileio.cpp) and those who use it: the workers *)
(* that load endpoint files (load_kv_file) and sessions (session_load),    *)
(* the IO threads that save sessions (session_save), and what changes the  *)
(* files behind its back: session_clear and whoever edits endpoint files.  *)
(*                                                                         *)
(* A call takes cache_mutex up to twice and touches the file system        *)
(* between; each region under the mutex and each system call is one        *)
(* action.  The content of a file is a sequence of blocks, each named by   *)
(* the change that wrote it, so that any two changes differ and a mixture  *)
(* of two can be told from both.                                           *)
(*                                                                         *)
(* One clock stands for steady_clock (last_check) and for the time of day  *)
(* (mtime), which the file system keeps in whole seconds.                  *)
(***************************************************************************)
EXTENDS Integers, Sequences, FiniteSets

CONSTANTS
  Files,                  \* paths
  Callers,                \* threads inside the functions of fileio.cpp
  Nowhere,                \* "no path"
  Lengths,                \* sizes of the contents written, in blocks
  MaxSize,                \* global_config.file_cache_max_size
  Ttl,                    \* global_config.file_cache_ttl, in ticks
  Second,                 \* ticks in a second
  Env,                    \* which of the liberties below are taken
  MaxTime,                \* bound: ticks of the clock
  MaxChanges              \* bound: changes made to files

ASSUME FileAssumption ==
  /\ Nowhere \notin Files
  /\ IsFiniteSet(Files)
  /\ Lengths \subseteq Nat
  /\ MaxSize \in Nat /\ Ttl \in Nat /\ Second \in Nat \ {0}
  /\ Env \subseteq {"edit",    \* a file is replaced from outside
                    "fail",    \* a write to a file fails, or its close
                    "unlink",  \* session_clear removes a file
                    "write"}   \* write_entire_file is called
  /\ MaxTime \in Nat /\ MaxChanges \in Nat

VARIABLES
  now,                    \* the clock
  file,                   \* the file system
  file_cache,             \* partial function: the files that have an entry
  total_cache_size,       \* sum of the sizes of the entries
  call,                   \* call[c]: how far c's call has come
  changes,                \* changes made so far: names the next one
  churned,                \* not in the code: files whose mtime may deceive
  lost                    \* not in the code: files a close has failed on

fileVars  == <<file, changes, churned, lost>>
cacheVars == <<file_cache, total_cache_size>>
vars == <<now, fileVars, cacheVars, call>>

-----------------------------------------------------------------------------
(* Values *)

Content(n, len) == [i \in 1 .. len |-> n]

\* What stat reports: st_mtime has whole seconds.
MTime == now \div Second

NoFile == [exists |-> FALSE, content |-> <<>>, mtime |-> 0]

File(content) == [exists |-> TRUE, content |-> content, mtime |-> MTime]

\* struct CachedFile; its size is the length of its content.
CachedFile(content, mtime, last_check) ==
  [content |-> content, mtime |-> mtime, last_check |-> last_check]

\* A call's locals: the path, `now' at its start, what stat returned and the
\* buffer.
Returned(content) ==
  [pc |-> "idle", f |-> Nowhere, start |-> 0, mtime |-> 0, size |-> 0, buf |-> content]

Blocks(c, S) == UNION {{f} \X (1 .. Len(c[f].content)) : f \in S}

\* The size of the entries of S.
Size(c, S) == Cardinality(Blocks(c, S))

Without(c, S) == [f \in DOMAIN c \ S |-> c[f]]

With(c, f, e) == [g \in DOMAIN c \cup {f} |-> IF g = f THEN e ELSE c[g]]

Init ==
  /\ now = 0
  /\ file = [f \in Files |-> NoFile]
  /\ file_cache = [f \in {} |-> NoFile]
  /\ total_cache_size = 0
  /\ call = [c \in Callers |-> Returned(<<>>)]
  /\ changes = 0
  /\ churned = {} /\ lost = {}

-----------------------------------------------------------------------------
(* The cache, under cache_mutex *)

\* evict_ttl_unlocked removes these.
Expired(c) == {f \in DOMAIN c : now - c[f].last_check > Ttl}

(***************************************************************************)
(* evict_size_unlocked takes the entry with the oldest last_check until    *)
(* the rest fits: S is what it has taken when it stops.  The entry made    *)
(* last is the newest (steady_clock's nanoseconds tell apart what ticks    *)
(* do not).                                                                *)
(***************************************************************************)
Precedes(c, f, g, newest) ==
  f # newest /\ (g = newest \/ c[f].last_check <= c[g].last_check)

Evicts(c, total, S, newest) ==
  /\ S \subseteq DOMAIN c
  /\ \A f \in S, g \in DOMAIN c \ S : Precedes(c, f, g, newest)
  /\ total - Size(c, S) <= MaxSize \/ S = DOMAIN c
  /\ S # {} => \E last \in S :
       /\ \A f \in S \ {last} : Precedes(c, f, last, newest)
       /\ total - Size(c, S \ {last}) > MaxSize

\* maybe_maintain_unlocked: every tenth call expires and evicts.  Any call may
\* be a tenth one.
Maintained(c, total, due) ==
  IF due
    THEN LET left == Without(c, Expired(c))
             rest == total - Size(c, Expired(c))
         IN {[cache |-> Without(left, S), total |-> rest - Size(left, S)] :
               S \in {T \in SUBSET DOMAIN left : Evicts(left, rest, T, Nowhere)}}
    ELSE {[cache |-> c, total |-> total]}

\* Mutation: the entry that is taken out stays in the sum.
RemovedUncounted(c, total, f) == [cache |-> Without(c, {f}), total |-> total]

\* remove_entry_unlocked
Removed(c, total, f) ==
  [cache |-> Without(c, {f}), total |-> total - Size(c, DOMAIN c \cap {f})]


\* Mutation: the entry is as old as the call that makes it.
InsertOld(f, content, mtime) ==
  LET old  == Removed(file_cache, total_cache_size, f)
      made == With(old.cache, f, CachedFile(content, mtime, now))
      sum  == old.total + Len(content)
  IN \E S \in SUBSET DOMAIN made :
       /\ Evicts(made, sum, S, Nowhere)
       /\ file_cache' = Without(made, S)
       /\ total_cache_size' = sum - Size(made, S)

\* Mutation: an entry is made without evicting.
InsertOnly(f, content, mtime) ==
  LET old == Removed(file_cache, total_cache_size, f) IN
  /\ file_cache' = With(old.cache, f, CachedFile(content, mtime, now))
  /\ total_cache_size' = old.total + Len(content)

\* insert_entry_unlocked, then evict_size_unlocked.
Insert(f, content, mtime) ==
  LET old  == Removed(file_cache, total_cache_size, f)
      made == With(old.cache, f, CachedFile(content, mtime, now))
      sum  == old.total + Len(content)
  IN \E S \in SUBSET DOMAIN made :
       /\ Evicts(made, sum, S, f)
       /\ file_cache' = Without(made, S)
       /\ total_cache_size' = sum - Size(made, S)

Return(c, content) == call' = [call EXCEPT ![c] = Returned(content)]

Goto(c, pc) == call' = [call EXCEPT ![c].pc = pc]

-----------------------------------------------------------------------------
(* read_entire_file_cached *)

At(c, pc) == call[c].pc = pc

StartRead(c, f) ==
  /\ At(c, "idle")
  /\ call' = [call EXCEPT ![c] = [Returned(<<>>) EXCEPT !.pc = "lookup", !.f = f,
                                                        !.start = now]]
  /\ UNCHANGED <<now, fileVars, cacheVars>>

\* The first region: an entry checked within the last second is returned.
Lookup(c) ==
  /\ At(c, "lookup")
  /\ \E due \in BOOLEAN : \E kept \in Maintained(file_cache, total_cache_size, due) :
       /\ file_cache' = kept.cache
       /\ total_cache_size' = kept.total
       /\ LET f == call[c].f IN
          IF f \in DOMAIN kept.cache
               /\ call[c].start - kept.cache[f].last_check < Second
            THEN Return(c, kept.cache[f].content)
            ELSE Goto(c, "stat")
  /\ UNCHANGED <<now, fileVars>>

StatFails(c) ==
  /\ At(c, "stat") /\ ~file[call[c].f].exists
  /\ Return(c, <<>>)
  /\ UNCHANGED <<now, fileVars, cacheVars>>

Stat(c) ==
  LET st == file[call[c].f] IN
  /\ At(c, "stat") /\ st.exists
  /\ call' = [call EXCEPT ![c].pc = "check", ![c].mtime = st.mtime,
                          ![c].size = Len(st.content)]
  /\ UNCHANGED <<now, fileVars, cacheVars>>

\* The second region, with no entry: the file has to be loaded.
CheckAbsent(c) ==
  /\ At(c, "check") /\ call[c].f \notin DOMAIN file_cache
  /\ Goto(c, "read")
  /\ UNCHANGED <<now, fileVars, cacheVars>>

\* With an entry of the same mtime: "unchanged since last load".
CheckSame(c) ==
  LET f == call[c].f IN
  /\ At(c, "check") /\ f \in DOMAIN file_cache
  /\ file_cache[f].mtime = call[c].mtime
  /\ file_cache' = [file_cache EXCEPT ![f].last_check = call[c].start]
  /\ Return(c, file_cache[f].content)
  /\ UNCHANGED <<now, fileVars, total_cache_size>>

\* With an entry of another mtime: it goes.
CheckChanged(c) ==
  LET f == call[c].f
      left == Removed(file_cache, total_cache_size, f)
  IN
  /\ At(c, "check") /\ f \in DOMAIN file_cache
  /\ file_cache[f].mtime # call[c].mtime
  /\ file_cache' = left.cache
  /\ total_cache_size' = left.total
  /\ Goto(c, "read")
  /\ UNCHANGED <<now, fileVars>>

\* read_file_binary(filename, content, file_size): fewer bytes are a failure.
ReadFails(c) ==
  LET st == file[call[c].f] IN
  /\ At(c, "read")
  /\ ~st.exists \/ Len(st.content) < call[c].size
  /\ Return(c, <<>>)
  /\ UNCHANGED <<now, fileVars, cacheVars>>

\* Mutation: what cannot fit is cached too.
ReadAny(c) ==
  LET st == file[call[c].f] IN
  /\ At(c, "read")
  /\ st.exists /\ Len(st.content) >= call[c].size
  /\ call' = [call EXCEPT ![c].pc = "insert",
                          ![c].buf = SubSeq(st.content, 1, call[c].size)]
  /\ UNCHANGED <<now, fileVars, cacheVars>>

\* More bytes than stat reported are cut off; what cannot fit is not cached.
Read(c) ==
  LET st == file[call[c].f]
      got == SubSeq(st.content, 1, call[c].size)
  IN
  /\ At(c, "read")
  /\ st.exists /\ Len(st.content) >= call[c].size
  /\ IF call[c].size > MaxSize
       THEN Return(c, got)
       ELSE call' = [call EXCEPT ![c].pc = "insert", ![c].buf = got]
  /\ UNCHANGED <<now, fileVars, cacheVars>>

\* Mutation: the entry is stamped with the time it is made.
InsertReadStamped(c) ==
  LET f == call[c].f IN
  /\ At(c, "insert")
  /\ Insert(f, call[c].buf, MTime)
  /\ Return(c, IF f \in DOMAIN file_cache' THEN file_cache'[f].content ELSE <<>>)
  /\ UNCHANGED <<now, fileVars>>

\* The third region.  file_cache[filename] in the return statement would make
\* an empty entry if the new one had just been evicted.
InsertRead(c) ==
  LET f == call[c].f IN
  /\ At(c, "insert")
  /\ Insert(f, call[c].buf, call[c].mtime)
  /\ Return(c, IF f \in DOMAIN file_cache' THEN file_cache'[f].content ELSE <<>>)
  /\ UNCHANGED <<now, fileVars>>

-----------------------------------------------------------------------------
(* write_entire_file, and the changes made to files behind the cache *)

Writing(c, f) == call[c].f = f /\ call[c].pc \in {"opened", "written"}

(***************************************************************************)
(* The second now running is already the mtime of an entry of f, or of a   *)
(* load of f that is under way, or may become that of an entry one of the  *)
(* writers is about to make: a change of f in this second cannot be told   *)
(* from what they hold.                                                    *)
(***************************************************************************)
Carries(f, writers) ==
  \/ f \in DOMAIN file_cache /\ file_cache[f].mtime = MTime
  \/ \E c \in Callers :
       call[c].f = f /\ call[c].pc \in {"check", "read", "insert"} /\ call[c].mtime = MTime
  \/ \E c \in writers : Writing(c, f)

Change(f, content, churn) ==
  /\ file' = [file EXCEPT ![f] = File(content)]
  /\ churned' = churn

\* All of the content is new: unless somebody carries this second, what was
\* wrong about f is over.
Replace(f, content) ==
  /\ Change(f, content, IF Carries(f, Callers) THEN churned \cup {f} ELSE churned \ {f})
  /\ lost' = IF Carries(f, Callers) THEN lost ELSE lost \ {f}

NextContent(len) == Content(changes + 1, len)

\* std::ofstream with trunc: the file is there and empty.
Open(c, f, len) ==
  /\ "write" \in Env /\ changes < MaxChanges
  /\ At(c, "idle")
  /\ call' = [call EXCEPT ![c] = [Returned(NextContent(len)) EXCEPT !.pc = "opened",
                                                                    !.f = f]]
  /\ Replace(f, <<>>)
  /\ changes' = changes + 1
  /\ UNCHANGED <<now, cacheVars>>

\* The blocks go to the start of the file, over what another call wrote.
Write(c) ==
  LET f == call[c].f
      old == file[f].content
      new == call[c].buf
  IN
  /\ At(c, "opened")
  /\ Change(f, new \o SubSeq(old, Len(new) + 1, Len(old)),
            IF Carries(f, Callers \ {c}) THEN churned \cup {f} ELSE churned)
  /\ Goto(c, "written")
  /\ UNCHANGED <<now, changes, lost, cacheVars>>

\* Nobody looks at file.close(): a content that write() has only buffered may
\* reach no file, and goes into the cache all the same.
CloseFails(c) ==
  /\ "fail" \in Env
  /\ At(c, "opened")
  /\ lost' = lost \cup {call[c].f}
  /\ Goto(c, "written")
  /\ UNCHANGED <<now, file, changes, churned, cacheVars>>

\* The write fails: the file stays empty and the cache as it was.
WriteFails(c) ==
  /\ "fail" \in Env
  /\ At(c, "opened")
  /\ Return(c, <<>>)
  /\ UNCHANGED <<now, fileVars, cacheVars>>

\* The region at the end of write_entire_file; the entry's mtime is the time.
InsertWritten(c) ==
  LET f == call[c].f
      left == Removed(file_cache, total_cache_size, f)
  IN
  /\ At(c, "written")
  /\ IF Len(call[c].buf) > MaxSize
       THEN file_cache' = left.cache /\ total_cache_size' = left.total
       ELSE Insert(f, call[c].buf, MTime)
  /\ Return(c, <<>>)
  /\ UNCHANGED <<now, fileVars>>

\* An endpoint file is replaced by its author.
Edit(f, len) ==
  /\ "edit" \in Env /\ changes < MaxChanges
  /\ Replace(f, NextContent(len))
  /\ changes' = changes + 1
  /\ UNCHANGED <<now, cacheVars, call>>

\* session_clear: the file goes, the entry of the cache stays; what a call that
\* has the file open still writes is in no file.
Unlink(f) ==
  /\ "unlink" \in Env /\ file[f].exists
  /\ file' = [file EXCEPT ![f] = NoFile]
  /\ call' = [c \in Callers |->
       IF At(c, "opened") /\ call[c].f = f
         THEN [call[c] EXCEPT !.pc = "written"] ELSE call[c]]
  /\ UNCHANGED <<now, changes, churned, lost, cacheVars>>

Tick ==
  /\ now < MaxTime
  /\ now' = now + 1
  /\ UNCHANGED <<fileVars, cacheVars, call>>

-----------------------------------------------------------------------------
ReadStep(c) ==
  \/ Lookup(c)
  \/ StatFails(c) \/ Stat(c)
  \/ CheckAbsent(c) \/ CheckSame(c) \/ CheckChanged(c)
  \/ ReadFails(c) \/ Read(c)
  \/ InsertRead(c)

WriteStep(c) == Write(c) \/ CloseFails(c) \/ WriteFails(c) \/ InsertWritten(c)

Next ==
  \/ \E c \in Callers :
       \/ \E f \in Files : StartRead(c, f) \/ \E len \in Lengths : Open(c, f, len)
       \/ ReadStep(c)
       \/ WriteStep(c)
  \/ \E f \in Files : Unlink(f) \/ \E len \in Lengths : Edit(f, len)
  \/ Tick

Spec == Init /\ [][Next]_vars
==============================================================================
