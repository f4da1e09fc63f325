-------------------------- MODULE ArenaPool_Proofs --------------------------
(***************************************************************************)
(* What get() and release() do to the pool, for every number of arenas:    *)
(* the lemmas both servers use.                                            *)
(***************************************************************************)
EXTENDS ArenaPool, FiniteSetTheorems, TLAPS

\* get() and release().
LEMMA PoolStepType ==
  ASSUME PoolTypeOK, NEW a, Get(a) \/ Release(a)
  PROVE  PoolTypeOK'
<1>1. CASE Get(a)
  <2>1. in_use' \in [Arena -> BOOLEAN]
    BY <1>1 DEF PoolTypeOK, Get
  <2>2. available_count' \in Int
    BY <1>1 DEF PoolTypeOK, Get
  <2> QED BY <2>1, <2>2 DEF PoolTypeOK
<1>2. CASE Release(a)
  <2>1. in_use' \in [Arena -> BOOLEAN]
    BY <1>2 DEF PoolTypeOK, Release
  <2>2. available_count' \in Int
    BY <1>2 DEF PoolTypeOK, Release
  <2> QED BY <2>1, <2>2 DEF PoolTypeOK
<1> QED BY <1>1, <1>2

\* The free arenas can be counted.
LEMMA FreeFinite ==
  /\ IsFiniteSet(FreeArenas) /\ Cardinality(FreeArenas) \in Nat
  /\ Cardinality(FreeArenas) = 0 <=> FreeArenas = {}
<1>1. IsFiniteSet(Arena)
  <2>1. 0 \in Int /\ NArenas - 1 \in Int
    BY NArenasAssumption
  <2> QED BY <2>1, FS_Interval DEF Arena
<1>2. FreeArenas \subseteq Arena
  BY DEF FreeArenas
<1> QED BY <1>1, <1>2, FS_Subset, FS_CardinalityType, FS_EmptySet

\* get() finds a free arena only if the counter is positive.
LEMMA GetAccounting ==
  ASSUME PoolTypeOK, PoolAccounting, NEW a, Get(a)
  PROVE  PoolAccounting' /\ available_count > 0
<1>1. a \in FreeArenas /\ FreeArenas' = FreeArenas \ {a}
  BY DEF Get, FirstFree, FreeArenas, PoolTypeOK
<1>2. Cardinality(FreeArenas') = Cardinality(FreeArenas) - 1
  BY <1>1, FreeFinite, FS_RemoveElement
<1>3. Cardinality(FreeArenas) # 0
  BY <1>1, FreeFinite
<1>4. Cardinality(FreeArenas) > 0
  BY <1>3, FreeFinite
<1> QED BY <1>2, <1>4 DEF Get, PoolAccounting

\* release() counts an arena once, whether it was handed out or not.
LEMMA ReleaseAccounting ==
  ASSUME PoolTypeOK, PoolAccounting, NEW a \in Arena, Release(a)
  PROVE  PoolAccounting'
<1>1. FreeArenas' = FreeArenas \cup {a}
  BY DEF Release, FreeArenas, PoolTypeOK
<1>2. Cardinality(FreeArenas') =
        IF a \in FreeArenas THEN Cardinality(FreeArenas) ELSE Cardinality(FreeArenas) + 1
  BY <1>1, FreeFinite, FS_AddElement
<1>3. a \in FreeArenas <=> ~in_use[a]
  BY DEF FreeArenas
<1> QED BY <1>2, <1>3 DEF Release, PoolAccounting

\* create_arenas counts all arenas free.
LEMMA PoolInitAccounting ==
  ASSUME PoolInit
  PROVE  PoolAccounting
<1>1. FreeArenas = 0 .. NArenas - 1 /\ available_count = NArenas
  BY DEF PoolInit, FreeArenas, Arena
<1>2. Cardinality(0 .. NArenas - 1) = NArenas
  <2>1. 0 \in Int /\ NArenas - 1 \in Int
    BY NArenasAssumption
  <2> QED BY <2>1, FS_Interval, NArenasAssumption
<1> QED BY <1>1, <1>2 DEF PoolAccounting
=============================================================================
