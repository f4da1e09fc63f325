--------------------------- MODULE FileProperties ---------------------------
(***************************************************************************)
(* What the file cache is to guarantee, whatever the order in which calls, *)
(* changes of the files and the clock come.                                *)
(***************************************************************************)
EXTENDS FileCache

Block == 1 .. MaxChanges

\* An entry holds no more than the whole cache may.
CachedFileType ==
  [content : {s \in Seq(Block) : Len(s) <= MaxSize}, mtime : Nat, last_check : Nat]

CacheType(c) == DOMAIN c \subseteq Files /\ c \in [DOMAIN c -> CachedFileType]

FileType == [exists : BOOLEAN, content : Seq(Block), mtime : Nat]

CallType ==
  [pc : {"idle", "lookup", "stat", "check", "read", "insert", "opened", "written"},
   f : Files \cup {Nowhere}, start : Nat, mtime : Nat, size : Nat, buf : Seq(Block)]

\* A call under way has a path, and inserts only what fits.
CallFits(l) ==
  /\ l.pc # "idle" => l.f \in Files
  /\ l.pc = "insert" => Len(l.buf) <= MaxSize

(***************************************************************************)
(* Every variable keeps its type; no entry has more content than the cache *)
(* may hold, although insert_entry_unlocked does not look at the size.     *)
(***************************************************************************)
FileTypeOK ==
  /\ now \in Nat
  /\ file \in [Files -> FileType]
  /\ CacheType(file_cache)
  /\ total_cache_size \in Int
  /\ call \in [Callers -> CallType]
  /\ \A c \in Callers : CallFits(call[c])
  /\ changes \in 0 .. MaxChanges

(***************************************************************************)
(* total_cache_size, kept up to date by hand in five places, is the sum of *)
(* the sizes of the entries; it is unsigned, and one subtraction too many  *)
(* would make every later eviction empty the cache.                        *)
(***************************************************************************)
SizesAccounted == total_cache_size = Size(file_cache, DOMAIN file_cache)

\* Whenever cache_mutex is free the cache is within its limit.
CacheBounded == total_cache_size <= MaxSize

(***************************************************************************)
(* An entry that carries the mtime of the file holds what the file holds,  *)
(* or one of two things has happened: the file changed in the very second  *)
(* the entry, the load it comes from or a write about to enter it was made *)
(* (the comparison of mtime in read_entire_file_cached), or the close of a *)
(* write to it failed unseen (write_entire_file).                          *)
(***************************************************************************)
Matches(f) == file[f].exists /\ file_cache[f].mtime = file[f].mtime

Doubtful == churned \cup lost

StaleHasCause ==
  \A f \in DOMAIN file_cache :
    Matches(f) /\ file_cache[f].content # file[f].content => f \in Doubtful

(***************************************************************************)
(* The content just loaded survives the eviction its own insertion causes: *)
(* file_cache[filename] in the return statement finds it and never makes   *)
(* the empty entry that operator[] makes of a missing one.                 *)
(***************************************************************************)
LoadedIsReturned ==
  [][\A c \in Callers : At(c, "insert") /\ call'[c].pc = "idle" =>
       call'[c].buf = call[c].buf]_vars
=============================================================================
