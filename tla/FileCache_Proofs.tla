-------------------------- MODULE FileCache_Proofs --------------------------
(***************************************************************************)
(* The book-keeping of the file cache, for every number of files, threads, *)
(* changes and ticks: total_cache_size is the sum of the entries, the      *)
(* limit holds whenever the mutex is free, what was just loaded is never   *)
(* what the eviction takes, and an entry that is taken for current and is *)
(* not has one of two causes: changes of the file that share a second, or  *)
(* a close that failed unseen.                                             *)
(***************************************************************************)
EXTENDS FileProperties, FiniteSetTheorems, TLAPS

-----------------------------------------------------------------------------
(* Sizes *)

\* Size counts: it is a number, adds up over disjoint sets, and is the length
\* of the content for one entry.
LEMMA SizeType ==
  ASSUME NEW c, CacheType(c), NEW S \in SUBSET DOMAIN c
  PROVE  IsFiniteSet(Blocks(c, S)) /\ Size(c, S) \in Nat
<1>1. IsFiniteSet(S)
  <2>1. IsFiniteSet(Files) /\ S \subseteq Files
    BY FileAssumption DEF CacheType
  <2> QED BY <2>1, FS_Subset
<1>2. IsFiniteSet(S \X (1 .. MaxSize))
  <2>1. IsFiniteSet(1 .. MaxSize)
    BY FileAssumption, FS_Interval
  <2> QED BY <1>1, <2>1, FS_Product
<1>3. Blocks(c, S) \subseteq S \X (1 .. MaxSize)
  <2> SUFFICES ASSUME NEW f \in S, NEW i \in 1 .. Len(c[f].content)
               PROVE  i \in 1 .. MaxSize
    BY DEF Blocks
  <2>1. Len(c[f].content) \in Nat /\ Len(c[f].content) <= MaxSize
    BY DEF CacheType, CachedFileType
  <2> QED BY <2>1, FileAssumption
<1>4. IsFiniteSet(Blocks(c, S))
  BY <1>2, <1>3, FS_Subset
<1> QED BY <1>4, FS_CardinalityType DEF Size

LEMMA SizeOne ==
  ASSUME NEW c, CacheType(c), NEW f \in DOMAIN c
  PROVE  Size(c, {f}) = Len(c[f].content)
<1>1. Len(c[f].content) \in Nat
  BY DEF CacheType, CachedFileType
<1>2. IsFiniteSet(1 .. Len(c[f].content)) /\ Cardinality(1 .. Len(c[f].content)) = Len(c[f].content)
  BY <1>1, FS_Interval
<1>3. IsFiniteSet({f}) /\ Cardinality({f}) = 1
  BY FS_Singleton
<1>4. Blocks(c, {f}) = {f} \X (1 .. Len(c[f].content))
  BY DEF Blocks
<1>5. Cardinality({f} \X (1 .. Len(c[f].content))) = Cardinality({f}) * Cardinality(1 .. Len(c[f].content))
  BY <1>2, <1>3, FS_Product
<1>6. Size(c, {f}) = Cardinality({f}) * Cardinality(1 .. Len(c[f].content))
  BY <1>4, <1>5, Zenon DEF Size
<1>7. Size(c, {f}) = 1 * Len(c[f].content)
  BY <1>2, <1>3, <1>6, Zenon
<1> QED BY <1>1, <1>7

LEMMA SizeSplit ==
  ASSUME NEW c, CacheType(c), NEW S \in SUBSET DOMAIN c, NEW T \in SUBSET DOMAIN c,
         S \cap T = {}
  PROVE  Size(c, S \cup T) = Size(c, S) + Size(c, T)
<1>1. Blocks(c, S \cup T) = Blocks(c, S) \cup Blocks(c, T)
  BY DEF Blocks
<1>2. Blocks(c, S) \cap Blocks(c, T) = {}
  BY DEF Blocks
<1>3. IsFiniteSet(Blocks(c, S)) /\ IsFiniteSet(Blocks(c, T))
  BY SizeType
<1>4. Size(c, S) \in Nat /\ Size(c, T) \in Nat
  BY SizeType
<1>5. Cardinality(Blocks(c, S) \cup Blocks(c, T))
        = Cardinality(Blocks(c, S)) + Cardinality(Blocks(c, T)) - Cardinality({})
  BY <1>2, <1>3, FS_Union
<1>6. Size(c, S \cup T) = Size(c, S) + Size(c, T) - Cardinality({})
  BY <1>1, <1>5, Zenon DEF Size
<1>7. Cardinality({}) = 0
  BY FS_EmptySet
<1>8. Size(c, S \cup T) = Size(c, S) + Size(c, T) - 0
  BY <1>6, <1>7, Zenon
<1> QED BY <1>4, <1>8

\* Entries that agree have the same blocks.
LEMMA SizeSame ==
  ASSUME NEW c, NEW d, NEW S, \A f \in S : c[f] = d[f]
  PROVE  Size(c, S) = Size(d, S)
<1>1. Blocks(c, S) = Blocks(d, S)
  BY DEF Blocks
<1> QED BY <1>1 DEF Size

\* Entries taken out leave the sum of the others.
LEMMA WithoutSize ==
  ASSUME NEW c, CacheType(c), NEW S \in SUBSET DOMAIN c
  PROVE  /\ CacheType(Without(c, S)) /\ DOMAIN Without(c, S) = DOMAIN c \ S
         /\ Size(Without(c, S), DOMAIN c \ S) = Size(c, DOMAIN c) - Size(c, S)
<1>1. CacheType(Without(c, S)) /\ DOMAIN Without(c, S) = DOMAIN c \ S
  BY DEF CacheType, Without
<1>2. Size(Without(c, S), DOMAIN c \ S) = Size(c, DOMAIN c \ S)
  <2>1. \A f \in DOMAIN c \ S : Without(c, S)[f] = c[f]
    BY DEF Without
  <2> QED BY <2>1, SizeSame
<1>3. Size(c, DOMAIN c) = Size(c, S) + Size(c, DOMAIN c \ S)
  <2>1. DOMAIN c = S \cup (DOMAIN c \ S) /\ S \cap (DOMAIN c \ S) = {}
    OBVIOUS
  <2>2. Size(c, S \cup (DOMAIN c \ S)) = Size(c, S) + Size(c, DOMAIN c \ S)
    BY <2>1, SizeSplit
  <2> QED BY <2>1, <2>2, Zenon
<1>4. Size(c, S) \in Nat /\ Size(c, DOMAIN c \ S) \in Nat
  BY SizeType
<1> QED BY <1>1, <1>2, <1>3, <1>4

\* A new entry adds its length.
LEMMA WithSize ==
  ASSUME NEW c, CacheType(c), NEW f \in Files \ DOMAIN c, NEW e \in CachedFileType
  PROVE  /\ CacheType(With(c, f, e)) /\ DOMAIN With(c, f, e) = DOMAIN c \cup {f}
         /\ With(c, f, e)[f] = e
         /\ Size(With(c, f, e), DOMAIN c \cup {f}) = Size(c, DOMAIN c) + Len(e.content)
<1> DEFINE d == With(c, f, e)
<1>1. CacheType(d) /\ DOMAIN d = DOMAIN c \cup {f} /\ d[f] = e
  BY DEF CacheType, With
<1>2. Size(d, DOMAIN c) = Size(c, DOMAIN c)
  <2>1. \A g \in DOMAIN c : d[g] = c[g]
    BY DEF With
  <2> HIDE DEF d
  <2> QED BY <2>1, SizeSame
<1> HIDE DEF d
<1>3. Size(d, {f}) = Len(e.content)
  BY <1>1, SizeOne
<1>4. Size(d, DOMAIN c \cup {f}) = Size(d, DOMAIN c) + Size(d, {f})
  BY <1>1, SizeSplit
<1> QED BY <1>1, <1>2, <1>3, <1>4 DEF d

-----------------------------------------------------------------------------
(* The regions under the mutex *)

\* What each region finds and leaves behind.
Sound(c, total) ==
  CacheType(c) /\ total = Size(c, DOMAIN c) /\ total <= MaxSize

\* evict_size_unlocked ends within the limit, and with a sum that is right.
LEMMA EvictsSound ==
  ASSUME NEW c, CacheType(c), NEW total, total = Size(c, DOMAIN c),
         NEW S, NEW newest, Evicts(c, total, S, newest)
  PROVE  Sound(Without(c, S), total - Size(c, S))
<1>1. S \subseteq DOMAIN c
  BY DEF Evicts
<1>2. /\ CacheType(Without(c, S)) /\ DOMAIN Without(c, S) = DOMAIN c \ S
      /\ Size(Without(c, S), DOMAIN c \ S) = total - Size(c, S)
  BY <1>1, WithoutSize
<1>3. total - Size(c, S) <= MaxSize
  <2>1. CASE S = DOMAIN c
    <3>1. total - Size(c, S) = 0
      BY <2>1, SizeType
    <3> QED BY <3>1, FileAssumption
  <2> QED BY <2>1 DEF Evicts
<1> QED BY <1>2, <1>3 DEF Sound

\* What was inserted last is evicted only if it alone exceeds the limit.
LEMMA NewestStays ==
  ASSUME NEW c, CacheType(c), NEW total, total = Size(c, DOMAIN c),
         NEW S, NEW newest \in DOMAIN c, Evicts(c, total, S, newest),
         Len(c[newest].content) <= MaxSize
  PROVE  newest \notin S
<1> SUFFICES ASSUME newest \in S PROVE FALSE
  OBVIOUS
<1>1. S = DOMAIN c
  <2>1. \A g \in DOMAIN c \ S : Precedes(c, newest, g, newest)
    BY DEF Evicts
  <2> QED BY <2>1 DEF Evicts, Precedes
<1>2. PICK last \in S : /\ \A f \in S \ {last} : Precedes(c, f, last, newest)
                        /\ total - Size(c, S \ {last}) > MaxSize
  BY DEF Evicts
<1>3. last = newest
  BY <1>2 DEF Precedes
<1>4. Size(c, DOMAIN c) = Size(c, DOMAIN c \ {newest}) + Size(c, {newest})
  <2>1. DOMAIN c = (DOMAIN c \ {newest}) \cup {newest}
    OBVIOUS
  <2>2. Size(c, (DOMAIN c \ {newest}) \cup {newest})
          = Size(c, DOMAIN c \ {newest}) + Size(c, {newest})
    BY SizeSplit
  <2> QED BY <2>1, <2>2, Zenon
<1>5. Size(c, {newest}) = Len(c[newest].content)
  BY SizeOne
<1>6. Size(c, DOMAIN c \ {newest}) \in Nat /\ Size(c, {newest}) \in Nat
  BY SizeType
<1>7. total - Size(c, DOMAIN c \ {newest}) > MaxSize
  BY <1>1, <1>2, <1>3
<1> QED BY <1>4, <1>5, <1>6, <1>7, FileAssumption

\* remove_entry_unlocked, also of a file without an entry.
LEMMA RemovedSound ==
  ASSUME NEW c, NEW total, Sound(c, total), NEW f
  PROVE  /\ Sound(Removed(c, total, f).cache, Removed(c, total, f).total)
         /\ DOMAIN Removed(c, total, f).cache = DOMAIN c \ {f}
<1> DEFINE S == DOMAIN c \cap {f}
<1>1. Removed(c, total, f).cache = Without(c, S)
  BY DEF Removed, Without
<1>2. Removed(c, total, f).total = total - Size(c, S)
  BY DEF Removed
<1>3. /\ CacheType(Without(c, S)) /\ DOMAIN Without(c, S) = DOMAIN c \ S
      /\ Size(Without(c, S), DOMAIN c \ S) = Size(c, DOMAIN c) - Size(c, S)
  BY WithoutSize DEF Sound
<1>4. Size(c, S) \in Nat /\ Size(c, DOMAIN c) \in Nat
  BY SizeType DEF Sound
<1>5. DOMAIN c \ S = DOMAIN c \ {f}
  OBVIOUS
<1> HIDE DEF S
<1> QED BY <1>1, <1>2, <1>3, <1>4, <1>5, FileAssumption DEF Sound

\* maybe_maintain_unlocked.
LEMMA MaintainedSound ==
  ASSUME NEW c, NEW total, Sound(c, total), NEW due \in BOOLEAN,
         NEW kept \in Maintained(c, total, due)
  PROVE  Sound(kept.cache, kept.total)
<1>1. CASE ~due
  BY <1>1 DEF Maintained
<1>2. CASE due
  <2> DEFINE left == Without(c, Expired(c))
             rest == total - Size(c, Expired(c))
  <2>1. PICK S \in SUBSET DOMAIN left :
          /\ Evicts(left, rest, S, Nowhere)
          /\ kept = [cache |-> Without(left, S), total |-> rest - Size(left, S)]
    BY <1>2 DEF Maintained
  <2>2. CacheType(left) /\ rest = Size(left, DOMAIN left)
    <3>1. Expired(c) \subseteq DOMAIN c
      BY DEF Expired
    <3> QED BY <3>1, WithoutSize DEF Sound
  <2> HIDE DEF left, rest
  <2>3. Sound(Without(left, S), rest - Size(left, S))
    BY <2>1, <2>2, EvictsSound
  <2> QED BY <2>1, <2>3
<1> QED BY <1>1, <1>2

\* insert_entry_unlocked with the eviction behind it.
LEMMA InsertSound ==
  ASSUME Sound(file_cache, total_cache_size), now \in Nat, NEW f \in Files,
         NEW content \in Seq(Block), Len(content) <= MaxSize, NEW mtime \in Nat,
         Insert(f, content, mtime)
  PROVE  /\ Sound(file_cache', total_cache_size')
         /\ f \in DOMAIN file_cache' /\ file_cache'[f].content = content
<1> DEFINE old  == Removed(file_cache, total_cache_size, f)
           e    == CachedFile(content, mtime, now)
           made == With(old.cache, f, e)
           sum  == old.total + Len(content)
<1>1. PICK S \in SUBSET DOMAIN made :
        /\ Evicts(made, sum, S, f)
        /\ file_cache' = Without(made, S)
        /\ total_cache_size' = sum - Size(made, S)
  BY DEF Insert
<1>2. Sound(old.cache, old.total) /\ DOMAIN old.cache = DOMAIN file_cache \ {f}
  BY RemovedSound
<1>3. e \in CachedFileType /\ e.content = content
  BY DEF CachedFile, CachedFileType
<1> HIDE DEF old, e
<1>4. CacheType(made) /\ f \in DOMAIN made /\ made[f] = e /\ sum = Size(made, DOMAIN made)
  <2>1. f \in Files \ DOMAIN old.cache
    BY <1>2
  <2>2. /\ CacheType(made) /\ DOMAIN made = DOMAIN old.cache \cup {f} /\ made[f] = e
        /\ Size(made, DOMAIN old.cache \cup {f}) = Size(old.cache, DOMAIN old.cache) + Len(e.content)
    <3>1. CacheType(old.cache)
      BY <1>2 DEF Sound
    <3> QED BY <1>3, <2>1, <3>1, WithSize
  <2>3. old.total = Size(old.cache, DOMAIN old.cache)
    BY <1>2 DEF Sound
  <2> HIDE DEF made
  <2> QED BY <1>3, <2>2, <2>3
<1> HIDE DEF made, sum
<1>5. Sound(Without(made, S), sum - Size(made, S))
  BY <1>1, <1>4, EvictsSound
<1>6. f \notin S
  <2>1. Len(made[f].content) <= MaxSize
    BY <1>3, <1>4
  <2> QED BY <1>1, <1>4, <2>1, NewestStays
<1>7. f \in DOMAIN Without(made, S) /\ Without(made, S)[f].content = content
  BY <1>3, <1>4, <1>6 DEF Without
<1> QED BY <1>1, <1>5, <1>7

-----------------------------------------------------------------------------
(* The steps *)

\* The invariant: FileTypeOK, SizesAccounted and CacheBounded together.
CacheInv == FileTypeOK /\ Sound(file_cache, total_cache_size)

LEMMA MTimeType == ASSUME now \in Nat PROVE MTime \in Nat
  BY FileAssumption DEF MTime

LEMMA Prefix ==
  ASSUME NEW s \in Seq(Block), NEW n \in Nat, n <= Len(s)
  PROVE  SubSeq(s, 1, n) \in Seq(Block) /\ Len(SubSeq(s, 1, n)) = n
  OBVIOUS

LEMMA Overlaid ==
  ASSUME NEW new \in Seq(Block), NEW old \in Seq(Block)
  PROVE  new \o SubSeq(old, Len(new) + 1, Len(old)) \in Seq(Block)
<1>1. Len(new) \in Nat /\ Len(old) \in Nat
  OBVIOUS
<1>2. SubSeq(old, Len(new) + 1, Len(old)) \in Seq(Block)
  BY <1>1
<1> QED BY <1>2

\* Returning leaves a call that fits.
LEMMA ReturnType ==
  ASSUME CacheInv, NEW c \in Callers, NEW content \in Seq(Block), Return(c, content)
  PROVE  call' \in [Callers -> CallType] /\ \A d \in Callers : CallFits(call'[d])
<1>1. Returned(content) \in CallType /\ CallFits(Returned(content))
  BY DEF Returned, CallType, CallFits
<1> QED BY <1>1 DEF Return, CacheInv, FileTypeOK

LEMMA ReturnNothing ==
  ASSUME CacheInv, NEW c \in Callers, Return(c, <<>>)
  PROVE  call' \in [Callers -> CallType] /\ \A d \in Callers : CallFits(call'[d])
<1>1. <<>> \in Seq(Block)
  OBVIOUS
<1> QED BY <1>1, ReturnType

\* Moving on does, unless it is to the insertion.
LEMMA GotoType ==
  ASSUME CacheInv, NEW c \in Callers, call[c].pc # "idle",
         NEW pc \in {"lookup", "stat", "check", "read", "opened", "written"}, Goto(c, pc)
  PROVE  call' \in [Callers -> CallType] /\ \A d \in Callers : CallFits(call'[d])
  BY DEF Goto, CacheInv, FileTypeOK, CallType, CallFits

LEMMA InitInv == Init => CacheInv
<1> SUFFICES ASSUME Init PROVE CacheInv
  OBVIOUS
<1>1. CacheType(file_cache) /\ DOMAIN file_cache = {}
  BY DEF Init, CacheType, CachedFileType
<1>2. Size(file_cache, DOMAIN file_cache) = 0
  <2>1. Blocks(file_cache, DOMAIN file_cache) = {}
    BY <1>1 DEF Blocks
  <2>2. Cardinality({}) = 0
    BY FS_EmptySet
  <2> QED BY <2>1, <2>2, Zenon DEF Size
<1>3. \A f \in Files : file[f] \in FileType
  BY DEF Init, NoFile, FileType
<1>4. Returned(<<>>) \in CallType /\ CallFits(Returned(<<>>))
  BY DEF Returned, CallType, CallFits
<1> QED BY <1>1, <1>2, <1>3, <1>4, FileAssumption DEF Init, CacheInv, FileTypeOK, Sound

\* The actions that leave the cache alone and move one call on.
LEMMA QuietStep ==
  ASSUME CacheInv, UNCHANGED <<now, fileVars, cacheVars>>,
         call' \in [Callers -> CallType], \A d \in Callers : CallFits(call'[d])
  PROVE  CacheInv'
  BY DEF CacheInv, FileTypeOK, Sound, fileVars, cacheVars, Size, Blocks, CacheType

\* write and edit: the file's new content is of the right type.
LEMMA FileStep ==
  ASSUME CacheInv, NEW f \in Files, NEW content \in Seq(Block), NEW churn, Change(f, content, churn)
  PROVE  file' \in [Files -> FileType]
<1>1. File(content) \in FileType
  BY MTimeType DEF File, FileType, CacheInv, FileTypeOK
<1> QED BY <1>1 DEF Change, CacheInv, FileTypeOK

LEMMA NextContentType ==
  ASSUME CacheInv, NEW len \in Lengths, changes < MaxChanges
  PROVE  NextContent(len) \in Seq(Block) /\ changes + 1 \in 0 .. MaxChanges
<1>1. len \in Nat /\ changes + 1 \in Block
  BY FileAssumption DEF CacheInv, FileTypeOK, Block
<1> QED BY <1>1, FileAssumption DEF NextContent, Content, CacheInv, FileTypeOK, Block

\* The regions that change the cache.
LEMMA CacheStep ==
  ASSUME CacheInv, UNCHANGED <<now, fileVars>>, Sound(file_cache', total_cache_size'),
         call' \in [Callers -> CallType], \A d \in Callers : CallFits(call'[d])
  PROVE  CacheInv'
<1>1. Size(file_cache', DOMAIN file_cache') \in Nat
  BY SizeType DEF Sound
<1> QED BY <1>1 DEF CacheInv, FileTypeOK, Sound, fileVars, CacheType, Size, Blocks

\* read_entire_file_cached.
LEMMA ReadInv ==
  ASSUME CacheInv, NEW c \in Callers, ReadStep(c)
  PROVE  CacheInv'
<1> DEFINE f == call[c].f
<1>0. /\ call[c] \in CallType /\ CallFits(call[c])
      /\ call[c].pc # "idle" => f \in Files
  BY DEF CacheInv, FileTypeOK, CallFits
<1>1. CASE Lookup(c)
  <2>1. PICK due \in BOOLEAN : \E kept \in Maintained(file_cache, total_cache_size, due) :
          /\ file_cache' = kept.cache /\ total_cache_size' = kept.total
          /\ \/ f \in DOMAIN kept.cache /\ Return(c, kept.cache[f].content)
             \/ Goto(c, "stat")
    BY <1>1 DEF Lookup
  <2>9. PICK kept \in Maintained(file_cache, total_cache_size, due) :
          /\ file_cache' = kept.cache /\ total_cache_size' = kept.total
          /\ \/ f \in DOMAIN kept.cache /\ Return(c, kept.cache[f].content)
             \/ Goto(c, "stat")
    BY <2>1
  <2>2. Sound(kept.cache, kept.total)
    BY MaintainedSound DEF CacheInv
  <2>3. f \in DOMAIN kept.cache => kept.cache[f].content \in Seq(Block)
    BY <2>2 DEF Sound, CacheType, CachedFileType
  <2>4. call' \in [Callers -> CallType] /\ \A d \in Callers : CallFits(call'[d])
    BY <1>1, <2>9, <2>3, ReturnType, GotoType DEF Lookup, At
  <2> QED BY <1>1, <2>9, <2>2, <2>4, CacheStep DEF Lookup
<1>2. CASE StatFails(c)
  <2>1. call' \in [Callers -> CallType] /\ \A d \in Callers : CallFits(call'[d])
    BY <1>2, ReturnNothing DEF StatFails
  <2> QED BY <1>2, <2>1, QuietStep DEF StatFails
<1>3. CASE Stat(c)
  <2>1. file[f] \in FileType
    BY <1>0, <1>3 DEF Stat, At, CacheInv, FileTypeOK
  <2>2. file[f].mtime \in Nat /\ Len(file[f].content) \in Nat
    BY <2>1 DEF FileType
  <2>3. call' \in [Callers -> CallType] /\ \A d \in Callers : CallFits(call'[d])
    BY <1>0, <1>3, <2>2 DEF Stat, At, CacheInv, FileTypeOK, CallType, CallFits
  <2> QED BY <1>3, <2>3, QuietStep DEF Stat
<1>4. CASE CheckAbsent(c)
  <2>1. call' \in [Callers -> CallType] /\ \A d \in Callers : CallFits(call'[d])
    BY <1>4, GotoType DEF CheckAbsent, At
  <2> QED BY <1>4, <2>1, QuietStep DEF CheckAbsent
<1>5. CASE CheckSame(c)
  <2>1. file_cache[f].content \in Seq(Block)
    BY <1>5 DEF CheckSame, CacheInv, FileTypeOK, CacheType, CachedFileType
  <2>2. call' \in [Callers -> CallType] /\ \A d \in Callers : CallFits(call'[d])
    BY <1>5, <2>1, ReturnType DEF CheckSame
  <2>3. Sound(file_cache', total_cache_size')
    <3>1. /\ DOMAIN file_cache' = DOMAIN file_cache
          /\ \A g \in DOMAIN file_cache : file_cache'[g].content = file_cache[g].content
      BY <1>5 DEF CheckSame, CacheInv, FileTypeOK, CacheType, CachedFileType
    <3>2. Blocks(file_cache', DOMAIN file_cache') = Blocks(file_cache, DOMAIN file_cache)
      BY <3>1 DEF Blocks
    <3>3. Size(file_cache', DOMAIN file_cache') = Size(file_cache, DOMAIN file_cache)
      BY <3>2 DEF Size
    <3>4. CacheType(file_cache')
      BY <1>0, <1>5 DEF CheckSame, CacheInv, FileTypeOK, CacheType, CachedFileType, CallType
    <3> QED BY <1>5, <3>3, <3>4 DEF CheckSame, CacheInv, Sound
  <2> QED BY <1>5, <2>2, <2>3, CacheStep DEF CheckSame
<1>6. CASE CheckChanged(c)
  <2>1. call' \in [Callers -> CallType] /\ \A d \in Callers : CallFits(call'[d])
    BY <1>6, GotoType DEF CheckChanged, At
  <2>2. Sound(file_cache', total_cache_size')
    BY <1>6, RemovedSound DEF CheckChanged, CacheInv
  <2> QED BY <1>6, <2>1, <2>2, CacheStep DEF CheckChanged
<1>7. CASE ReadFails(c)
  <2>1. call' \in [Callers -> CallType] /\ \A d \in Callers : CallFits(call'[d])
    BY <1>7, ReturnNothing DEF ReadFails
  <2> QED BY <1>7, <2>1, QuietStep DEF ReadFails
<1>8. CASE Read(c)
  <2> DEFINE got == SubSeq(file[f].content, 1, call[c].size)
  <2>1. got \in Seq(Block) /\ Len(got) = call[c].size
    <3>1. file[f].content \in Seq(Block)
      BY <1>0, <1>8 DEF Read, At, CacheInv, FileTypeOK, FileType
    <3>2. call[c].size \in Nat /\ call[c].size <= Len(file[f].content)
      BY <1>0, <1>8, <3>1 DEF Read, CallType
    <3> QED BY <3>1, <3>2, Prefix
  <2> HIDE DEF got
  <2>2. \/ Return(c, got)
        \/ /\ ~(call[c].size > MaxSize)
           /\ call' = [call EXCEPT ![c].pc = "insert", ![c].buf = got]
    BY <1>8, Zenon DEF Read, got
  <2>3. call' \in [Callers -> CallType] /\ \A d \in Callers : CallFits(call'[d])
    <3>1. CASE Return(c, got)
      BY <2>1, <3>1, ReturnType
    <3>2. CASE /\ ~(call[c].size > MaxSize)
               /\ call' = [call EXCEPT ![c].pc = "insert", ![c].buf = got]
      <4>1. Len(got) <= MaxSize
        BY <1>0, <2>1, <3>2, FileAssumption DEF CallType
      <4>2. call'[c] \in CallType /\ CallFits(call'[c])
        BY <1>0, <1>8, <2>1, <3>2, <4>1
           DEF Read, At, CacheInv, FileTypeOK, CallType, CallFits
      <4> QED BY <3>2, <4>2 DEF CacheInv, FileTypeOK
    <3> QED BY <2>2, <3>1, <3>2
  <2> QED BY <1>8, <2>3, QuietStep DEF Read
<1>9. CASE InsertRead(c)
  <2>1. Sound(file_cache', total_cache_size') /\ f \in DOMAIN file_cache'
    BY <1>0, <1>9, InsertSound DEF InsertRead, At, CacheInv, FileTypeOK, CallType, CallFits
  <2>2. file_cache'[f].content \in Seq(Block)
    BY <2>1 DEF Sound, CacheType, CachedFileType
  <2>3. call' \in [Callers -> CallType] /\ \A d \in Callers : CallFits(call'[d])
    BY <1>9, <2>1, <2>2, ReturnType DEF InsertRead
  <2> QED BY <1>9, <2>1, <2>3, CacheStep DEF InsertRead
<1> QED BY <1>1, <1>2, <1>3, <1>4, <1>5, <1>6, <1>7, <1>8, <1>9 DEF ReadStep

\* A step that changes files and calls and leaves the cache alone.
LEMMA FilesStep ==
  ASSUME CacheInv, UNCHANGED <<now, cacheVars>>, file' \in [Files -> FileType],
         changes' \in 0 .. MaxChanges,
         call' \in [Callers -> CallType], \A d \in Callers : CallFits(call'[d])
  PROVE  CacheInv'
  BY DEF CacheInv, FileTypeOK, Sound, cacheVars, Size, Blocks, CacheType

\* write_entire_file behind its opening.
LEMMA WriteInv ==
  ASSUME CacheInv, NEW c \in Callers, WriteStep(c)
  PROVE  CacheInv'
<1> DEFINE f == call[c].f
<1>0. /\ call[c] \in CallType /\ CallFits(call[c])
      /\ call[c].pc # "idle" => f \in Files
  BY DEF CacheInv, FileTypeOK, CallFits
<1>1. CASE Write(c)
  <2> DEFINE content == call[c].buf \o SubSeq(file[f].content, Len(call[c].buf) + 1, Len(file[f].content))
  <2>1. f \in Files
    BY <1>0, <1>1 DEF Write, At
  <2>2. content \in Seq(Block)
    <3>1. call[c].buf \in Seq(Block) /\ file[f].content \in Seq(Block)
      BY <1>0, <2>1 DEF CallType, CacheInv, FileTypeOK, FileType
    <3> QED BY <3>1, Overlaid
  <2>3. \E churn : Change(f, content, churn)
    BY <1>1 DEF Write
  <2> HIDE DEF content
  <2>4. file' \in [Files -> FileType]
    BY <2>1, <2>2, <2>3, FileStep
  <2>5. call' \in [Callers -> CallType] /\ \A d \in Callers : CallFits(call'[d])
    BY <1>1, GotoType DEF Write, At
  <2> QED BY <1>1, <2>4, <2>5, FilesStep DEF Write, CacheInv, FileTypeOK
<1>2. CASE WriteFails(c)
  <2>1. call' \in [Callers -> CallType] /\ \A d \in Callers : CallFits(call'[d])
    BY <1>2, ReturnNothing DEF WriteFails
  <2> QED BY <1>2, <2>1, QuietStep DEF WriteFails
<1>3. CASE InsertWritten(c)
  <2>1. call' \in [Callers -> CallType] /\ \A d \in Callers : CallFits(call'[d])
    BY <1>3, ReturnNothing DEF InsertWritten
  <2>2. Sound(file_cache', total_cache_size')
    <3>1. CASE Len(call[c].buf) > MaxSize
      BY <1>3, <3>1, RemovedSound DEF InsertWritten, CacheInv
    <3>2. CASE ~(Len(call[c].buf) > MaxSize)
      <4>1. Insert(f, call[c].buf, MTime)
        BY <1>3, <3>2 DEF InsertWritten
      <4>2. call[c].buf \in Seq(Block) /\ Len(call[c].buf) <= MaxSize
        BY <1>0, <3>2, FileAssumption DEF CallType
      <4>3. f \in Files /\ MTime \in Nat
        BY <1>0, <1>3, MTimeType DEF InsertWritten, At, CacheInv, FileTypeOK
      <4> QED BY <4>1, <4>2, <4>3, InsertSound DEF CacheInv, FileTypeOK
    <3> QED BY <3>1, <3>2
  <2> QED BY <1>3, <2>1, <2>2, CacheStep DEF InsertWritten
<1>4. CASE CloseFails(c)
  <2>1. call' \in [Callers -> CallType] /\ \A d \in Callers : CallFits(call'[d])
    BY <1>4, GotoType DEF CloseFails, At
  <2>2. file' \in [Files -> FileType] /\ UNCHANGED <<now, changes, cacheVars>>
    BY <1>4 DEF CloseFails, CacheInv, FileTypeOK
  <2> QED BY <2>1, <2>2, FilesStep DEF CacheInv, FileTypeOK
<1> QED BY <1>1, <1>2, <1>3, <1>4 DEF WriteStep

LEMMA OpenInv ==
  ASSUME CacheInv, NEW c \in Callers, NEW f \in Files, NEW len \in Lengths, Open(c, f, len)
  PROVE  CacheInv'
<1>1. NextContent(len) \in Seq(Block) /\ changes' \in 0 .. MaxChanges
  BY NextContentType DEF Open
<1>2. file' \in [Files -> FileType]
  <2>1. <<>> \in Seq(Block)
    OBVIOUS
  <2> QED BY <2>1, FileStep DEF Open, Replace
<1>3. call' \in [Callers -> CallType] /\ \A d \in Callers : CallFits(call'[d])
  BY <1>1 DEF Open, Returned, CacheInv, FileTypeOK, CallType, CallFits
<1> QED BY <1>1, <1>2, <1>3, FilesStep DEF Open

LEMMA EditInv ==
  ASSUME CacheInv, NEW f \in Files, NEW len \in Lengths, Edit(f, len)
  PROVE  CacheInv'
<1>1. NextContent(len) \in Seq(Block) /\ changes' \in 0 .. MaxChanges
  BY NextContentType DEF Edit
<1>2. file' \in [Files -> FileType]
  BY <1>1, FileStep DEF Edit, Replace
<1> QED BY <1>1, <1>2, FilesStep DEF Edit, CacheInv, FileTypeOK

LEMMA UnlinkInv ==
  ASSUME CacheInv, NEW f \in Files, Unlink(f)
  PROVE  CacheInv'
<1>1. file' \in [Files -> FileType]
  <2>1. NoFile \in FileType
    BY DEF NoFile, FileType
  <2> QED BY <2>1 DEF Unlink, CacheInv, FileTypeOK
<1>2. call' \in [Callers -> CallType] /\ \A d \in Callers : CallFits(call'[d])
  BY DEF Unlink, At, CacheInv, FileTypeOK, CallType, CallFits
<1> QED BY <1>1, <1>2, FilesStep DEF Unlink, CacheInv, FileTypeOK

\* Every step keeps the invariant.
LEMMA NextInv == CacheInv /\ [Next]_vars => CacheInv'
<1> SUFFICES ASSUME CacheInv, [Next]_vars PROVE CacheInv'
  OBVIOUS
<1>1. ASSUME NEW c \in Callers, NEW f \in Files, StartRead(c, f) PROVE CacheInv'
  <2>1. call' \in [Callers -> CallType] /\ \A d \in Callers : CallFits(call'[d])
    <3>1. Returned(<<>>) \in CallType
      BY DEF Returned, CallType
    <3> DEFINE l == [Returned(<<>>) EXCEPT !.pc = "lookup", !.f = f, !.start = now]
    <3>2. l \in CallType /\ CallFits(l)
      BY <3>1 DEF CacheInv, FileTypeOK, CallType, CallFits
    <3>3. call' = [call EXCEPT ![c] = l]
      BY <1>1 DEF StartRead
    <3> HIDE DEF l
    <3> QED BY <3>2, <3>3 DEF CacheInv, FileTypeOK
  <2> QED BY <1>1, <2>1, QuietStep DEF StartRead
<1>2. CASE Tick
  BY <1>2 DEF Tick, CacheInv, FileTypeOK, Sound, fileVars, cacheVars, Size, Blocks, CacheType
<1>3. CASE UNCHANGED vars
  BY <1>3, QuietStep DEF vars, CacheInv, FileTypeOK
<1> QED BY <1>1, <1>2, <1>3, ReadInv, WriteInv, OpenInv, EditInv, UnlinkInv DEF Next

(***************************************************************************)
(* Whatever calls, changes and clock do: the types hold and no entry is    *)
(* larger than the cache (fileio.cpp).                                     *)
(***************************************************************************)
THEOREM FileTypeCorrect == Spec => []FileTypeOK
<1>1. CacheInv => FileTypeOK
  BY DEF CacheInv
<1> QED BY <1>1, InitInv, NextInv, PTL DEF Spec

(***************************************************************************)
(* total_cache_size, updated by hand at each insertion, removal and        *)
(* eviction, is always the sum of the entries' sizes.                      *)
(***************************************************************************)
THEOREM SizesAreRight == Spec => []SizesAccounted
<1>1. CacheInv => SizesAccounted
  BY DEF CacheInv, Sound, SizesAccounted
<1> QED BY <1>1, InitInv, NextInv, PTL DEF Spec

\* The cache never holds more than file_cache_max_size between two regions.
THEOREM CacheIsBounded == Spec => []CacheBounded
<1>1. CacheInv => CacheBounded
  BY DEF CacheInv, Sound, CacheBounded
<1> QED BY <1>1, InitInv, NextInv, PTL DEF Spec

\* A step of one caller leaves the calls of the others alone.
LEMMA OwnCall ==
  ASSUME call \in [Callers -> CallType], NEW c \in Callers, NEW d \in Callers, c # d,
         \/ ReadStep(d) \/ WriteStep(d)
         \/ \E f \in Files : StartRead(d, f) \/ \E len \in Lengths : Open(d, f, len)
  PROVE  call'[c] = call[c]
<1>1. ASSUME NEW content, Return(d, content) PROVE call'[c] = call[c]
  BY <1>1 DEF Return
<1>2. ASSUME NEW pc, Goto(d, pc) PROVE call'[c] = call[c]
  BY <1>2 DEF Goto
<1>3. CASE Lookup(d)
  BY <1>1, <1>2, <1>3 DEF Lookup
<1>4. CASE StatFails(d) \/ CheckAbsent(d) \/ CheckSame(d) \/ CheckChanged(d) \/ ReadFails(d)
  BY <1>1, <1>2, <1>4 DEF StatFails, CheckAbsent, CheckSame, CheckChanged, ReadFails
<1>5. CASE Stat(d)
  BY <1>5 DEF Stat
<1>6. CASE Read(d)
  BY <1>6 DEF Read, Return
<1>7. CASE InsertRead(d)
  BY <1>7 DEF InsertRead, Return
<1>8. CASE WriteStep(d)
  BY <1>1, <1>2, <1>8 DEF WriteStep, Write, CloseFails, WriteFails, InsertWritten
<1>9. CASE \E f \in Files : StartRead(d, f) \/ \E len \in Lengths : Open(d, f, len)
  BY <1>9 DEF StartRead, Open
<1> QED BY <1>3, <1>4, <1>5, <1>6, <1>7, <1>8, <1>9 DEF ReadStep

\* A call about to insert ends by inserting.
LEMMA OnlyInsertReturns ==
  ASSUME CacheInv, [Next]_vars, NEW c \in Callers, At(c, "insert"), call'[c].pc = "idle"
  PROVE  InsertRead(c)
<1>1. call \in [Callers -> CallType]
  BY DEF CacheInv, FileTypeOK
<1>2. call'[c] # call[c]
  BY DEF At
<1>3. CASE UNCHANGED vars
  BY <1>2, <1>3 DEF vars
<1>4. CASE Tick \/ \E f \in Files : \E len \in Lengths : Edit(f, len)
  BY <1>2, <1>4 DEF Tick, Edit
<1>5. ASSUME NEW f \in Files, Unlink(f) PROVE FALSE
  BY <1>1, <1>2, <1>5 DEF Unlink, At
<1>6. ASSUME NEW d \in Callers,
             \/ ReadStep(d) \/ WriteStep(d)
             \/ \E f \in Files : StartRead(d, f) \/ \E len \in Lengths : Open(d, f, len)
      PROVE  InsertRead(c)
  <2>1. d = c
    BY <1>1, <1>2, <1>6, OwnCall
  <2> QED BY <1>6, <2>1
       DEF ReadStep, WriteStep, StartRead, Open, Lookup, StatFails, Stat, CheckAbsent, CheckSame,
           CheckChanged, ReadFails, Read, Write, CloseFails, WriteFails, InsertWritten, At
<1> QED BY <1>3, <1>4, <1>5, <1>6 DEF Next

(***************************************************************************)
(* read_entire_file_cached returns what it loaded: the eviction it causes  *)
(* takes every other entry first (NewestStays).                            *)
(***************************************************************************)
THEOREM LoadedComesBack == Spec => LoadedIsReturned
<1>1. ASSUME CacheInv, [Next]_vars, NEW c \in Callers, At(c, "insert"), call'[c].pc = "idle"
      PROVE  call'[c].buf = call[c].buf
  <2>1. call[c] \in CallType /\ CallFits(call[c])
    BY <1>1 DEF CacheInv, FileTypeOK
  <2>2. InsertRead(c)
    BY <1>1, OnlyInsertReturns
  <2>3. file_cache'[call[c].f].content = call[c].buf /\ call[c].f \in DOMAIN file_cache'
    BY <1>1, <2>1, <2>2, InsertSound DEF InsertRead, At, CacheInv, FileTypeOK, CallType, CallFits
  <2> QED BY <1>1, <2>2, <2>3 DEF InsertRead, Return, Returned, CacheInv, FileTypeOK
<1>2. CacheInv /\ [Next]_vars =>
        [\A c \in Callers : At(c, "insert") /\ call'[c].pc = "idle" =>
           call'[c].buf = call[c].buf]_vars
  BY <1>1
<1> QED BY <1>2, InitInv, NextInv, PTL DEF Spec, LoadedIsReturned
-----------------------------------------------------------------------------
(* What the cache returns is what the file holds *)

\* No load under way of an unchanged mtime holds anything but the file.
LoadFresh(c) ==
  LET l == call[c]
      st == file[l.f]
  IN
  l.pc \in {"check", "read", "insert"} /\ st.exists /\ st.mtime = l.mtime =>
    \/ l.f \in Doubtful
    \/ IF l.pc = "insert" THEN st.content = l.buf ELSE Len(st.content) = l.size

\* A writer finds the file empty before its write and full behind it.
WriteFresh(c) ==
  LET l == call[c]
      st == file[l.f]
  IN
  /\ l.pc = "opened" => st.content = <<>> \/ l.f \in Doubtful
  /\ l.pc = "written" /\ st.exists => st.content = l.buf \/ l.f \in Doubtful

\* StaleHasCause with what it needs of the calls under way: an entry is
\* made from what a load or a write holds, and those are told apart by mtime.
FreshInv ==
  /\ StaleHasCause
  /\ \A c \in Callers : LoadFresh(c) /\ WriteFresh(c)

\* Entries that are still there are the same.
SameOrGone(c, d) ==
  \A g \in DOMAIN d : /\ g \in DOMAIN c
                      /\ d[g].content = c[g].content /\ d[g].mtime = c[g].mtime

LEMMA RemovedKeeps ==
  ASSUME NEW c, NEW total, NEW f
  PROVE  SameOrGone(c, Removed(c, total, f).cache)
  BY DEF SameOrGone, Removed, Without

LEMMA MaintainedKeeps ==
  ASSUME NEW c, NEW total, NEW due \in BOOLEAN, NEW kept \in Maintained(c, total, due)
  PROVE  SameOrGone(c, kept.cache)
<1>1. CASE ~due
  BY <1>1 DEF Maintained, SameOrGone
<1>2. CASE due
  <2>1. PICK S : kept.cache = Without(Without(c, Expired(c)), S)
    BY <1>2 DEF Maintained
  <2> QED BY <2>1 DEF SameOrGone, Without
<1> QED BY <1>1, <1>2

LEMMA InsertKeeps ==
  ASSUME NEW f, NEW content, NEW mtime, Insert(f, content, mtime), NEW g \in DOMAIN file_cache'
  PROVE  IF g = f THEN file_cache'[g].content = content /\ file_cache'[g].mtime = mtime
         ELSE /\ g \in DOMAIN file_cache
              /\ file_cache'[g].content = file_cache[g].content
              /\ file_cache'[g].mtime = file_cache[g].mtime
<1>1. PICK S : file_cache' = Without(With(Removed(file_cache, total_cache_size, f).cache, f,
                                          CachedFile(content, mtime, now)), S)
  BY DEF Insert
<1> QED BY <1>1 DEF Without, With, Removed, CachedFile

\* Steps that leave the files alone: one call moves, the entries stay, go, or
\* one is made of what the call held.
LEMMA CallStep ==
  ASSUME FreshInv, UNCHANGED fileVars, NEW c \in Callers,
         \A d \in Callers \ {c} : call'[d] = call[d],
         LoadFresh(c)', WriteFresh(c)',
         \A g \in DOMAIN file_cache' :
           \/ /\ g \in DOMAIN file_cache
              /\ file_cache'[g].content = file_cache[g].content
              /\ file_cache'[g].mtime = file_cache[g].mtime
           \/ file[g].exists /\ file_cache'[g].mtime = file[g].mtime =>
                file_cache'[g].content = file[g].content \/ g \in Doubtful
  PROVE  FreshInv'
<1>1. \A d \in Callers \ {c} : LoadFresh(d)' /\ WriteFresh(d)'
  BY DEF FreshInv, LoadFresh, WriteFresh, Doubtful, fileVars
<1>2. StaleHasCause'
  BY DEF FreshInv, StaleHasCause, Matches, Doubtful, fileVars
<1> QED BY <1>1, <1>2 DEF FreshInv

LEMMA CallStepKept ==
  ASSUME FreshInv, UNCHANGED fileVars, NEW c \in Callers,
         \A d \in Callers \ {c} : call'[d] = call[d],
         LoadFresh(c)', WriteFresh(c)', SameOrGone(file_cache, file_cache')
  PROVE  FreshInv'
  BY CallStep DEF SameOrGone

LEMMA ReturnFresh ==
  ASSUME CacheInv, NEW c \in Callers, NEW content, Return(c, content)
  PROVE  LoadFresh(c)' /\ WriteFresh(c)'
  BY DEF Return, Returned, LoadFresh, WriteFresh, CacheInv, FileTypeOK

LEMMA ReadFresh ==
  ASSUME CacheInv, FreshInv, NEW c \in Callers, ReadStep(c)
  PROVE  FreshInv'
<1> DEFINE f == call[c].f
<1>0. /\ call[c] \in CallType /\ CallFits(call[c])
      /\ call[c].pc # "idle" => f \in Files
      /\ call \in [Callers -> CallType]
  BY DEF CacheInv, FileTypeOK, CallFits
<1>a. UNCHANGED fileVars /\ \A d \in Callers \ {c} : call'[d] = call[d]
  <2>1. \A d \in Callers \ {c} : call'[d] = call[d]
    BY <1>0, OwnCall
  <2> QED BY <2>1 DEF ReadStep, Lookup, StatFails, Stat, CheckAbsent, CheckSame, CheckChanged,
                      ReadFails, Read, InsertRead
<1>b. UNCHANGED cacheVars => SameOrGone(file_cache, file_cache')
  BY DEF SameOrGone, cacheVars
<1>1. CASE Lookup(c)
  <2>1. PICK due \in BOOLEAN : \E kept \in Maintained(file_cache, total_cache_size, due) :
          file_cache' = kept.cache
    BY <1>1 DEF Lookup
  <2>2. SameOrGone(file_cache, file_cache')
    BY <2>1, MaintainedKeeps
  <2>3. LoadFresh(c)' /\ WriteFresh(c)'
    <3>1. CASE \E content : Return(c, content)
      BY <3>1, ReturnFresh
    <3>2. CASE Goto(c, "stat")
      BY <1>0, <3>2 DEF Goto, LoadFresh, WriteFresh
    <3>3. (\E content : Return(c, content)) \/ Goto(c, "stat")
      BY <1>1 DEF Lookup
    <3> QED BY <3>1, <3>2, <3>3
  <2> QED BY <1>a, <2>2, <2>3, CallStepKept
<1>2. CASE StatFails(c) \/ ReadFails(c)
  <2>1. LoadFresh(c)' /\ WriteFresh(c)'
    BY <1>2, ReturnFresh DEF StatFails, ReadFails
  <2> QED BY <1>2, <1>a, <1>b, <2>1, CallStepKept DEF StatFails, ReadFails
<1>3. CASE Stat(c)
  <2>1. LoadFresh(c)' /\ WriteFresh(c)'
    BY <1>0, <1>3, <1>a DEF Stat, LoadFresh, WriteFresh, CallType, fileVars
  <2> QED BY <1>3, <1>a, <1>b, <2>1, CallStepKept DEF Stat
<1>4. CASE CheckAbsent(c)
  <2>1. LoadFresh(c)
    BY DEF FreshInv
  <2>2. LoadFresh(c)' /\ WriteFresh(c)'
    BY <1>0, <1>4, <1>a, <2>1
    DEF CheckAbsent, Goto, At, LoadFresh, WriteFresh, Doubtful, CallType, fileVars
  <2> QED BY <1>4, <1>a, <1>b, <2>2, CallStepKept DEF CheckAbsent
<1>5. CASE CheckSame(c)
  <2>1. LoadFresh(c)' /\ WriteFresh(c)'
    BY <1>5, ReturnFresh DEF CheckSame
  <2>2. SameOrGone(file_cache, file_cache')
    BY <1>5 DEF CheckSame, SameOrGone, CacheInv, FileTypeOK, CacheType, CachedFileType
  <2> QED BY <1>a, <2>1, <2>2, CallStepKept
<1>6. CASE CheckChanged(c)
  <2>1. LoadFresh(c)
    BY DEF FreshInv
  <2>2. LoadFresh(c)' /\ WriteFresh(c)'
    BY <1>0, <1>6, <1>a, <2>1
    DEF CheckChanged, Goto, At, LoadFresh, WriteFresh, Doubtful, CallType, fileVars
  <2>3. SameOrGone(file_cache, file_cache')
    BY <1>6, RemovedKeeps DEF CheckChanged
  <2> QED BY <1>a, <2>2, <2>3, CallStepKept
<1>7. CASE Read(c)
  <2> DEFINE content == file[f].content
             got == SubSeq(content, 1, call[c].size)
  <2>1. content \in Seq(Block) /\ call[c].size \in Nat
    BY <1>0, <1>7 DEF Read, At, CacheInv, FileTypeOK, FileType, CallType
  <2>2. Len(content) = call[c].size => got = content
    BY <2>1
  <2> HIDE DEF content, got
  <2>3. LoadFresh(c)
    BY DEF FreshInv
  <2>4. LoadFresh(c)' /\ WriteFresh(c)'
    <3>1. CASE Return(c, got)
      BY <3>1, ReturnFresh
    <3>2. CASE call' = [call EXCEPT ![c].pc = "insert", ![c].buf = got]
      <4>1. /\ call'[c].pc = "insert" /\ call'[c].buf = got
            /\ call'[c].f = f /\ call'[c].mtime = call[c].mtime
        BY <1>0, <3>2 DEF CallType
      <4> QED BY <1>7, <1>a, <2>2, <2>3, <4>1
              DEF Read, At, LoadFresh, WriteFresh, Doubtful, fileVars, content
    <3>3. Return(c, got) \/ call' = [call EXCEPT ![c].pc = "insert", ![c].buf = got]
      BY <1>7, Zenon DEF Read, got, content
    <3> QED BY <3>1, <3>2, <3>3
  <2> QED BY <1>7, <1>a, <1>b, <2>4, CallStepKept DEF Read
<1>8. CASE InsertRead(c)
  <2>1. LoadFresh(c)' /\ WriteFresh(c)'
    BY <1>8, ReturnFresh DEF InsertRead
  <2>2. LoadFresh(c) /\ At(c, "insert") /\ Insert(f, call[c].buf, call[c].mtime)
    BY <1>8 DEF FreshInv, InsertRead
  <2>3. \A g \in DOMAIN file_cache' :
           \/ /\ g \in DOMAIN file_cache
              /\ file_cache'[g].content = file_cache[g].content
              /\ file_cache'[g].mtime = file_cache[g].mtime
           \/ file[g].exists /\ file_cache'[g].mtime = file[g].mtime =>
                file_cache'[g].content = file[g].content \/ g \in Doubtful
    <3> SUFFICES ASSUME NEW g \in DOMAIN file_cache', g = f, file[g].exists,
                        file_cache'[g].mtime = file[g].mtime
                 PROVE  file_cache'[g].content = file[g].content \/ g \in Doubtful
      BY <2>2, InsertKeeps
    <3>1. file_cache'[g].content = call[c].buf /\ file_cache'[g].mtime = call[c].mtime
      BY <2>2, InsertKeeps
    <3> QED BY <2>2, <3>1 DEF LoadFresh, At
  <2> QED BY <1>a, <2>1, <2>3, CallStep
<1> QED BY <1>1, <1>2, <1>3, <1>4, <1>5, <1>6, <1>7, <1>8 DEF ReadStep

(***************************************************************************)
(* A change of f: whoever holds something of this second makes f doubtful; *)
(* the others can no longer be mistaken for it.  c is whoever writes, or   *)
(* Nowhere.                                                                *)
(***************************************************************************)
LEMMA ChangeStep ==
  ASSUME CacheInv, FreshInv, NEW f \in Files, NEW content, NEW writers \in SUBSET Callers,
         NEW churn, Change(f, content, churn), UNCHANGED cacheVars,
         Carries(f, writers) => f \in Doubtful',
         \A g \in Doubtful : g # f => g \in Doubtful'
  PROVE  /\ StaleHasCause'
         /\ \A d \in Callers : call'[d] = call[d] => LoadFresh(d)'
         /\ \A d \in writers : call'[d] = call[d] => WriteFresh(d)'
         /\ \A d \in Callers : call'[d] = call[d] /\ call[d].f # f => WriteFresh(d)'
<1>0. file \in [Files -> FileType] /\ call \in [Callers -> CallType]
      /\ (\A d \in Callers : call[d].pc # "idle" => call[d].f \in Files)
      /\ DOMAIN file_cache \subseteq Files
  BY DEF CacheInv, FileTypeOK, CallFits, CacheType
<1>1. /\ file'[f].content = content /\ file'[f].mtime = MTime
      /\ \A g \in Files \ {f} : file'[g] = file[g]
  BY <1>0 DEF Change, File
<1>2. StaleHasCause'
  <2> SUFFICES ASSUME NEW g \in DOMAIN file_cache, file'[g].exists, file_cache[g].mtime = file'[g].mtime,
                      file_cache[g].content # file'[g].content
               PROVE  g \in Doubtful'
    BY <1>1 DEF StaleHasCause, Matches, cacheVars
  <2>1. CASE g = f
    BY <1>1, <2>1 DEF Carries
  <2>2. CASE g # f
    BY <1>0, <1>1, <2>2 DEF FreshInv, StaleHasCause, Matches
  <2> QED BY <2>1, <2>2
<1>3. ASSUME NEW d \in Callers, call'[d] = call[d] PROVE LoadFresh(d)'
  <2> SUFFICES ASSUME call[d].pc \in {"check", "read", "insert"}, file'[call[d].f].exists,
                      file'[call[d].f].mtime = call[d].mtime
               PROVE  \/ call[d].f \in Doubtful'
                      \/ IF call[d].pc = "insert" THEN file'[call[d].f].content = call[d].buf
                         ELSE Len(file'[call[d].f].content) = call[d].size
    BY <1>1, <1>3 DEF LoadFresh
  <2>1. CASE call[d].f = f
    BY <1>1, <2>1 DEF Carries
  <2>2. CASE call[d].f # f
    BY <1>0, <1>1, <2>2 DEF FreshInv, LoadFresh
  <2> QED BY <2>1, <2>2
<1>4. ASSUME NEW d \in writers, call'[d] = call[d], call[d].f = f PROVE WriteFresh(d)'
  BY <1>0, <1>1, <1>4 DEF Carries, Writing, WriteFresh
<1>5. ASSUME NEW d \in Callers, call'[d] = call[d], call[d].f # f PROVE WriteFresh(d)'
  <2>1. WriteFresh(d)
    BY DEF FreshInv
  <2> QED BY <1>0, <1>1, <1>5, <2>1 DEF WriteFresh
<1> QED BY <1>2, <1>3, <1>4, <1>5

LEMMA ReplaceStep ==
  ASSUME CacheInv, FreshInv, NEW f \in Files, NEW content, Replace(f, content),
         UNCHANGED cacheVars
  PROVE  /\ StaleHasCause'
         /\ \A d \in Callers : call'[d] = call[d] => LoadFresh(d)' /\ WriteFresh(d)'
<1> DEFINE churn == IF Carries(f, Callers) THEN churned \cup {f} ELSE churned \ {f}
<1>1. Change(f, content, churn)
  BY Zenon DEF Replace
<1>2. churned' = churn /\ lost' = IF Carries(f, Callers) THEN lost ELSE lost \ {f}
  BY <1>1, Zenon DEF Replace, Change
<1>3. /\ Carries(f, Callers) => f \in Doubtful'
      /\ \A g \in Doubtful : g # f => g \in Doubtful'
  BY <1>2 DEF Doubtful
<1> HIDE DEF churn
<1> QED BY <1>1, <1>3, ChangeStep

LEMMA WriteStepFresh ==
  ASSUME CacheInv, FreshInv, NEW c \in Callers, WriteStep(c)
  PROVE  FreshInv'
<1> DEFINE f == call[c].f
<1>0. /\ call[c] \in CallType /\ CallFits(call[c])
      /\ call[c].pc # "idle" => f \in Files
      /\ call \in [Callers -> CallType] /\ file \in [Files -> FileType]
  BY DEF CacheInv, FileTypeOK, CallFits
<1>a. \A d \in Callers \ {c} : call'[d] = call[d]
  BY <1>0, OwnCall
<1>b. LoadFresh(c) /\ WriteFresh(c)
  BY DEF FreshInv
<1>1. CASE Write(c)
  <2> DEFINE new == call[c].buf
             content == new \o SubSeq(file[f].content, Len(new) + 1, Len(file[f].content))
             churn == IF Carries(f, Callers \ {c}) THEN churned \cup {f} ELSE churned
  <2>1. f \in Files /\ call[c].pc = "opened" /\ UNCHANGED cacheVars
    BY <1>0, <1>1 DEF Write, At
  <2>2. Change(f, content, churn) /\ Goto(c, "written")
    BY <1>1, Zenon DEF Write
  <2>3. /\ Carries(f, Callers \ {c}) => f \in Doubtful'
        /\ \A g \in Doubtful : g # f => g \in Doubtful'
        /\ Doubtful \subseteq Doubtful'
    <3>1. churned' = churn /\ lost' = lost
      BY <1>1, <2>2, Zenon DEF Write, Change
    <3> QED BY <3>1 DEF Doubtful
  <2>4. file[f].content = <<>> => content = new
    <3>1. new \in Seq(Block) /\ Len(new) \in Nat
      BY <1>0 DEF CallType
    <3>2. ASSUME file[f].content = <<>> PROVE content = new
      <4> DEFINE rest == SubSeq(<<>>, Len(new) + 1, Len(<<>>))
      <4>1. content = new \o rest
        BY <3>2
      <4>2. rest \in Seq(Block) /\ Len(rest) = 0
        BY <3>1
      <4>3. rest = <<>>
        <5> HIDE DEF rest
        <5> QED BY <4>2
      <4>4. new \o <<>> = new
        BY <3>1
      <4> HIDE DEF rest, content
      <4> QED BY <4>1, <4>3, <4>4
    <3> QED BY <3>2
  <2> HIDE DEF churn, content
  <2>5. /\ StaleHasCause'
        /\ \A d \in Callers \ {c} : LoadFresh(d)' /\ WriteFresh(d)'
    BY <1>a, <2>1, <2>2, <2>3, ChangeStep
  <2>6. call'[c].pc = "written" /\ call'[c].f = f /\ call'[c].buf = new
    BY <1>0, <2>2 DEF Goto, CallType
  <2>7. LoadFresh(c)'
    BY <2>6 DEF LoadFresh
  <2>8. WriteFresh(c)'
    <3>1. file'[f].content = content
      BY <1>0, <2>1, <2>2 DEF Change, File
    <3> QED BY <1>b, <2>1, <2>3, <2>4, <2>6, <3>1 DEF WriteFresh
  <2> QED BY <2>5, <2>7, <2>8 DEF FreshInv
<1>2. CASE WriteFails(c)
  <2>1. LoadFresh(c)' /\ WriteFresh(c)'
    BY <1>2, ReturnFresh DEF WriteFails
  <2>2. SameOrGone(file_cache, file_cache') /\ UNCHANGED fileVars
    BY <1>2 DEF WriteFails, SameOrGone, cacheVars
  <2> QED BY <1>a, <2>1, <2>2, CallStepKept
<1>3. CASE InsertWritten(c)
  <2>1. LoadFresh(c)' /\ WriteFresh(c)' /\ UNCHANGED fileVars
    BY <1>3, ReturnFresh DEF InsertWritten
  <2>2. CASE Len(call[c].buf) > MaxSize
    <3>1. SameOrGone(file_cache, file_cache')
      BY <1>3, <2>2, RemovedKeeps DEF InsertWritten
    <3> QED BY <1>a, <2>1, <3>1, CallStepKept
  <2>3. CASE ~(Len(call[c].buf) > MaxSize)
    <3>1. Insert(f, call[c].buf, MTime) /\ call[c].pc = "written"
      BY <1>3, <2>3 DEF InsertWritten, At
    <3>2. \A g \in DOMAIN file_cache' :
             \/ /\ g \in DOMAIN file_cache
                /\ file_cache'[g].content = file_cache[g].content
                /\ file_cache'[g].mtime = file_cache[g].mtime
             \/ file[g].exists /\ file_cache'[g].mtime = file[g].mtime =>
                  file_cache'[g].content = file[g].content \/ g \in Doubtful
      <4> SUFFICES ASSUME NEW g \in DOMAIN file_cache', g = f, file[g].exists
                   PROVE  file_cache'[g].content = file[g].content \/ g \in Doubtful
        BY <3>1, InsertKeeps
      <4>1. file_cache'[g].content = call[c].buf
        BY <3>1, InsertKeeps
      <4> QED BY <1>b, <3>1, <4>1 DEF WriteFresh
    <3> QED BY <1>a, <2>1, <3>2, CallStep
  <2> QED BY <2>2, <2>3
<1>4. CASE CloseFails(c)
  <2>1. call'[c].pc = "written" /\ call'[c].f = f /\ UNCHANGED <<file, cacheVars>>
    BY <1>0, <1>4 DEF CloseFails, Goto
  <2>2. Doubtful \subseteq Doubtful' /\ f \in Doubtful'
    BY <1>4 DEF CloseFails, Doubtful
  <2>3. LoadFresh(c)' /\ WriteFresh(c)'
    BY <2>1, <2>2 DEF LoadFresh, WriteFresh
  <2>4. ASSUME NEW d \in Callers \ {c} PROVE LoadFresh(d)' /\ WriteFresh(d)'
    BY <1>a, <2>1, <2>2 DEF FreshInv, LoadFresh, WriteFresh
  <2>5. StaleHasCause'
    BY <2>1, <2>2 DEF FreshInv, StaleHasCause, Matches, cacheVars
  <2> QED BY <2>3, <2>4, <2>5 DEF FreshInv
<1> QED BY <1>1, <1>2, <1>3, <1>4 DEF WriteStep

LEMMA OpenFresh ==
  ASSUME CacheInv, FreshInv, NEW c \in Callers, NEW f \in Files, NEW len \in Lengths,
         Open(c, f, len)
  PROVE  FreshInv'
<1>0. call \in [Callers -> CallType] /\ file \in [Files -> FileType]
  BY DEF CacheInv, FileTypeOK
<1>1. \A d \in Callers \ {c} : call'[d] = call[d]
  BY <1>0, OwnCall
<1>2. StaleHasCause' /\ \A d \in Callers \ {c} : LoadFresh(d)' /\ WriteFresh(d)'
  BY <1>1, ReplaceStep DEF Open
<1>3. call'[c].pc = "opened" /\ call'[c].f = f
  BY <1>0 DEF Open, Returned
<1>4. file'[f].content = <<>>
  BY <1>0 DEF Open, Replace, Change, File
<1>5. LoadFresh(c)' /\ WriteFresh(c)'
  BY <1>3, <1>4 DEF LoadFresh, WriteFresh
<1> QED BY <1>2, <1>5 DEF FreshInv

LEMMA UnlinkFresh ==
  ASSUME CacheInv, FreshInv, NEW f \in Files, Unlink(f)
  PROVE  FreshInv'
<1>0. /\ call \in [Callers -> CallType] /\ file \in [Files -> FileType]
      /\ \A d \in Callers : call[d].pc # "idle" => call[d].f \in Files
      /\ DOMAIN file_cache \subseteq Files
  BY DEF CacheInv, FileTypeOK, CallFits, CacheType
<1>1. /\ ~file'[f].exists /\ \A g \in Files \ {f} : file'[g] = file[g]
      /\ UNCHANGED <<file_cache, churned, lost>>
  BY <1>0 DEF Unlink, NoFile, cacheVars
<1>2. StaleHasCause'
  BY <1>0, <1>1 DEF FreshInv, StaleHasCause, Matches, Doubtful
<1>3. ASSUME NEW d \in Callers PROVE LoadFresh(d)' /\ WriteFresh(d)'
  <2>1. LoadFresh(d) /\ WriteFresh(d)
    BY DEF FreshInv
  <2>2. CASE At(d, "opened") /\ call[d].f = f
    <3>1. call'[d].pc = "written" /\ call'[d].f = f
      BY <1>0, <2>2 DEF Unlink, CallType
    <3> QED BY <1>1, <3>1 DEF LoadFresh, WriteFresh
  <2>3. CASE ~(At(d, "opened") /\ call[d].f = f)
    <3>1. call'[d] = call[d]
      BY <2>3 DEF Unlink
    <3>2. CASE call[d].f = f
      BY <1>1, <2>3, <3>1, <3>2 DEF LoadFresh, WriteFresh, At, Doubtful
    <3>3. CASE call[d].f # f
      BY <1>0, <1>1, <2>1, <3>1, <3>3 DEF LoadFresh, WriteFresh, Doubtful
    <3> QED BY <3>2, <3>3
  <2> QED BY <2>2, <2>3
<1> QED BY <1>2, <1>3 DEF FreshInv

LEMMA FreshNext == CacheInv /\ FreshInv /\ [Next]_vars => FreshInv'
<1> SUFFICES ASSUME CacheInv, FreshInv, [Next]_vars PROVE FreshInv'
  OBVIOUS
<1>0. call \in [Callers -> CallType]
  BY DEF CacheInv, FileTypeOK
<1>1. ASSUME NEW c \in Callers, NEW f \in Files, StartRead(c, f) PROVE FreshInv'
  <2>1. \A d \in Callers \ {c} : call'[d] = call[d]
    BY <1>0, <1>1, OwnCall
  <2>2. call'[c].pc = "lookup"
    BY <1>0, <1>1 DEF StartRead, Returned
  <2>3. LoadFresh(c)' /\ WriteFresh(c)'
    BY <2>2 DEF LoadFresh, WriteFresh
  <2>4. SameOrGone(file_cache, file_cache') /\ UNCHANGED fileVars
    BY <1>1 DEF StartRead, SameOrGone, cacheVars
  <2> QED BY <2>1, <2>3, <2>4, CallStepKept
<1>2. ASSUME NEW f \in Files, NEW len \in Lengths, Edit(f, len) PROVE FreshInv'
  <2>1. StaleHasCause' /\ \A d \in Callers : LoadFresh(d)' /\ WriteFresh(d)'
    BY <1>2, ReplaceStep DEF Edit
  <2> QED BY <2>1 DEF FreshInv
<1>3. CASE Tick \/ UNCHANGED vars
  BY <1>3 DEF Tick, vars, fileVars, cacheVars, FreshInv, StaleHasCause, Matches,
              Doubtful, LoadFresh, WriteFresh
<1> QED BY <1>1, <1>2, <1>3, ReadFresh, WriteStepFresh, OpenFresh, UnlinkFresh DEF Next

(***************************************************************************)
(* read_entire_file_cached trusts an entry whose mtime is the file's: with *)
(* any number of files, threads and changes it is then the file's content, *)
(* unless the file changed again within the second that mtime names, also  *)
(* before a writer made the entry, or write_entire_file lost at the close  *)
(* what it put into the cache.                                             *)
(***************************************************************************)
THEOREM StaleNeedsCause == Spec => []StaleHasCause
<1>1. Init => FreshInv
  BY DEF Init, Returned, FreshInv, StaleHasCause, LoadFresh, WriteFresh
<1>2. FreshInv => StaleHasCause
  BY DEF FreshInv
<1> QED BY <1>1, <1>2, FreshNext, InitInv, NextInv, PTL DEF Spec
=============================================================================
