-------------------------- MODULE ReplayCacheProofs --------------------------
(***************************************************************************)
(* Proofs about ReplayCache, for every set of keys, generation width,      *)
(* capacity and clock bound.                                               *)
(*                                                                         *)
(* Each method of the cache is first shown to take a cache whose buckets   *)
(* mirror its index to another one, and to change the index the way the    *)
(* method is meant to (Evict, Remove and AddKeepsGrouped).  From there the *)
(* buckets can be forgotten: every step is described by what it does to    *)
(* the index alone.                                                        *)
(***************************************************************************)
EXTENDS ReplayCache, FiniteSetTheorems, TLAPS

\* The functions an index can be: a finite set of keys, each with an expiry.
Indexes == {f \in UNION {[S -> Times] : S \in SUBSET Keys} :
              IsFiniteSet(DOMAIN f)}

\* The entries of f whose generation has not passed at time t.
Surviving(f, t) == {k \in DOMAIN f : ~((bucketOf(f[k]) + 1) * bucketWidth <= t)}

-----------------------------------------------------------------------------
(* Arithmetic of the generations.                                          *)

\* pop/replay.go:162: an expiry lies within the generation it is mapped to.
LEMMA BucketBounds ==
  ASSUME NEW e \in Nat
  PROVE  /\ bucketOf(e) \in Nat
         /\ bucketOf(e) <= e
         /\ bucketOf(e) * bucketWidth <= e
         /\ e < (bucketOf(e) + 1) * bucketWidth
<1>1. bucketWidth \in Nat /\ bucketWidth >= 1
  BY ReplayCacheAssumption
<1>2. bucketOf(e) \in Nat
  BY <1>1 DEF bucketOf
<1>3. bucketOf(e) * bucketWidth <= e /\ e < (bucketOf(e) + 1) * bucketWidth
  BY <1>1 DEF bucketOf
<1>4. bucketOf(e) <= e
  BY <1>1 DEF bucketOf
<1> QED
  BY <1>2, <1>3, <1>4

\* pop/replay.go:194-198: an entry that is dropped with its generation has
\* expired, and one that expired a whole generation ago is dropped.
LEMMA SurvivorBounds ==
  ASSUME NEW f \in Indexes, NEW t \in Nat, NEW k \in DOMAIN f
  PROVE  /\ f[k] > t => k \in Surviving(f, t)
         /\ f[k] + bucketWidth <= t => k \notin Surviving(f, t)
<1>1. f[k] \in Nat
  BY ReplayCacheAssumption DEF Indexes, Times
<1>2. bucketWidth \in Nat /\ bucketWidth >= 1
  BY ReplayCacheAssumption
<1>3. /\ bucketOf(f[k]) \in Nat
      /\ bucketOf(f[k]) * bucketWidth <= f[k]
      /\ f[k] < (bucketOf(f[k]) + 1) * bucketWidth
  BY <1>1, BucketBounds
<1> DEFINE b == bucketOf(f[k])
<1>4. (b + 1) * bucketWidth = b * bucketWidth + bucketWidth
      /\ b * bucketWidth \in Nat
  BY <1>2, <1>3
<1> QED
  BY <1>1, <1>2, <1>3, <1>4 DEF Surviving

-----------------------------------------------------------------------------
(* The methods on a cache whose buckets mirror its index.                  *)

\* pop/replay.go:191-208 (evictLocked).
LEMMA EvictKeepsGrouped ==
  ASSUME NEW f \in Indexes, NEW t \in Nat
  PROVE  evictLocked(Grouped(f), t) = Grouped(Restrict(f, Surviving(f, t)))
<1> DEFINE c == Grouped(f)
           g == Restrict(f, Surviving(f, t))
           e == evictLocked(c, t)
           ids(h) == {bucketOf(h[k]) : k \in DOMAIN h}
<1>1. DOMAIN g = Surviving(f, t) /\ \A k \in DOMAIN g : g[k] = f[k]
  BY DEF Restrict, Surviving
<1>2. passed(c, t) = {id \in ids(f) : (id + 1) * bucketWidth <= t}
  BY DEF Grouped, passed
<1>3. {k \in DOMAIN f : \E id \in passed(c, t) :
                           k \in c.buckets[id] /\ bucketOf(f[k]) = id}
      = DOMAIN f \ Surviving(f, t)
  BY <1>2 DEF Grouped, Surviving
<1>4. e.index = g
  <2>1. DOMAIN f \ (DOMAIN f \ Surviving(f, t)) = Surviving(f, t)
    BY DEF Surviving
  <2> QED
    BY <1>3, <2>1 DEF evictLocked, Grouped
<1>5. e.buckets = [id \in ids(g) |-> {k \in DOMAIN g : bucketOf(g[k]) = id}]
  <2>1. ids(f) \ passed(c, t) = ids(g)
    BY <1>1, <1>2 DEF Surviving
  <2>2. ASSUME NEW id \in ids(g)
        PROVE  {k \in DOMAIN f : bucketOf(f[k]) = id}
               = {k \in DOMAIN g : bucketOf(g[k]) = id}
    BY <1>1 DEF Surviving
  <2>3. e.buckets = [id \in ids(f) \ passed(c, t) |->
                       {k \in DOMAIN f : bucketOf(f[k]) = id}]
    BY DEF evictLocked, Grouped, Restrict
  <2> QED
    BY <2>1, <2>2, <2>3
<1>6. e = [index |-> e.index, buckets |-> e.buckets]
  BY DEF evictLocked
<1> QED
  BY <1>4, <1>5, <1>6 DEF Grouped

\* pop/replay.go:177-186 (removeLocked).
LEMMA RemoveKeepsGrouped ==
  ASSUME NEW f \in Indexes, NEW k \in DOMAIN f
  PROVE  removeLocked(Grouped(f), k, f[k])
         = Grouped(Restrict(f, DOMAIN f \ {k}))
<1> DEFINE c == Grouped(f)
           g == Restrict(f, DOMAIN f \ {k})
           r == removeLocked(c, k, f[k])
           b == bucketOf(f[k])
           ids(h) == {bucketOf(h[x]) : x \in DOMAIN h}
           members(h, i) == {x \in DOMAIN h : bucketOf(h[x]) = i}
           emptied == {i \in ids(f) : i = b /\ members(f, i) \ {k} = {}}
<1>1. DOMAIN g = DOMAIN f \ {k} /\ \A x \in DOMAIN g : g[x] = f[x]
  BY DEF Restrict
<1>2. r = [index |-> g,
           buckets |-> [i \in ids(f) \ emptied |->
                          IF i = b THEN members(f, i) \ {k} ELSE members(f, i)]]
  BY DEF removeLocked, Grouped
<1>3. ids(f) \ emptied = ids(g)
  <2>1. ASSUME NEW i \in ids(f) \ emptied PROVE i \in ids(g)
    BY <1>1
  <2>2. ASSUME NEW i \in ids(g) PROVE i \in ids(f) \ emptied
    BY <1>1
  <2> QED
    BY <2>1, <2>2
<1>4. ASSUME NEW i \in ids(g)
      PROVE  (IF i = b THEN members(f, i) \ {k} ELSE members(f, i)) = members(g, i)
  BY <1>1
<1>5. [i \in ids(f) \ emptied |->
         IF i = b THEN members(f, i) \ {k} ELSE members(f, i)]
      = [i \in ids(g) |-> members(g, i)]
  BY <1>3, <1>4
<1> QED
  BY <1>2, <1>5 DEF Grouped

\* pop/replay.go:165-174 (addLocked), called for a key that is not held.
LEMMA AddKeepsGrouped ==
  ASSUME NEW f \in Indexes, NEW k, k \notin DOMAIN f, NEW exp
  PROVE  addLocked(Grouped(f), k, exp)
         = Grouped([x \in DOMAIN f \cup {k} |-> IF x = k THEN exp ELSE f[x]])
<1> DEFINE c == Grouped(f)
           g == [x \in DOMAIN f \cup {k} |-> IF x = k THEN exp ELSE f[x]]
           b == bucketOf(exp)
           ids(h) == {bucketOf(h[x]) : x \in DOMAIN h}
           members(h, i) == {x \in DOMAIN h : bucketOf(h[x]) = i}
           old == IF b \in ids(f) THEN members(f, b) ELSE {}
<1>1. /\ DOMAIN g = DOMAIN f \cup {k}
      /\ g[k] = exp
      /\ \A x \in DOMAIN f : g[x] = f[x]
  OBVIOUS
<1>2. addLocked(c, k, exp)
      = [index |-> g,
         buckets |-> [i \in ids(f) \cup {b} |->
                        IF i = b THEN old \cup {k} ELSE members(f, i)]]
  BY DEF addLocked, Grouped
<1>3. ids(f) \cup {b} = ids(g)
  BY <1>1
<1>4. ASSUME NEW i \in ids(g)
      PROVE  (IF i = b THEN old \cup {k} ELSE members(f, i)) = members(g, i)
  <2>1. CASE i = b
    BY <1>1, <2>1
  <2>2. CASE i # b
    BY <1>1, <2>2
  <2> QED
    BY <2>1, <2>2
<1>5. [i \in ids(f) \cup {b} |-> IF i = b THEN old \cup {k} ELSE members(f, i)]
      = [i \in ids(g) |-> members(g, i)]
  BY <1>3, <1>4
<1> QED
  BY <1>2, <1>5 DEF Grouped

-----------------------------------------------------------------------------
(* The invariant.                                                          *)

\* pop/replay.go:78-92: the invariants of the runs, and that the index is
\* finite, without which its cardinality is no number.
IInv == /\ TypeOK
        /\ BucketsMirrorIndex
        /\ RememberedUntilExpiry
        /\ CapacityRespected
        /\ IsFiniteSet(DOMAIN cache.index)

\* The sub-function of an index is an index with no more entries.
LEMMA RestrictIndex ==
  ASSUME NEW f \in Indexes, NEW S \in SUBSET DOMAIN f
  PROVE  /\ Restrict(f, S) \in Indexes
         /\ DOMAIN Restrict(f, S) = S
         /\ \A k \in S : Restrict(f, S)[k] = f[k]
         /\ IsFiniteSet(S)
         /\ Cardinality(S) \in Nat
         /\ Cardinality(S) <= Cardinality(DOMAIN f)
<1>1. /\ IsFiniteSet(S) /\ Cardinality(S) <= Cardinality(DOMAIN f)
      /\ Cardinality(S) \in Nat
  BY FS_Subset, FS_CardinalityType DEF Indexes
<1>2. DOMAIN Restrict(f, S) = S /\ \A k \in S : Restrict(f, S)[k] = f[k]
  BY DEF Restrict
<1>3. PICK D \in SUBSET Keys : f \in [D -> Times]
  BY DEF Indexes
<1>4. S \in SUBSET Keys /\ Restrict(f, S) \in [S -> Times]
  BY <1>3 DEF Restrict
<1> QED
  BY <1>1, <1>2, <1>4 DEF Indexes

\* A consistent cache over an index has the type of a cache.
LEMMA GroupedType ==
  ASSUME NEW f \in Indexes
  PROVE  WellTyped(Grouped(f))
<1>1. PICK D \in SUBSET Keys : f \in [D -> Times]
  BY DEF Indexes
<1> DEFINE ids == {bucketOf(f[k]) : k \in DOMAIN f}
<1>2. ids \in SUBSET Times
  <2>1. ASSUME NEW k \in DOMAIN f PROVE bucketOf(f[k]) \in Times
    <3>1. f[k] \in Nat /\ f[k] <= MaxTime /\ MaxTime \in Nat
      BY <1>1, ReplayCacheAssumption DEF Times
    <3>2. bucketOf(f[k]) \in Nat /\ bucketOf(f[k]) <= f[k]
      BY <3>1, BucketBounds
    <3> QED
      BY <3>1, <3>2 DEF Times
  <2> QED
    BY <2>1
<1>3. [id \in ids |-> {k \in DOMAIN f : bucketOf(f[k]) = id}]
      \in [ids -> SUBSET Keys]
  BY <1>1
<1> QED
  BY <1>1, <1>2, <1>3 DEF Grouped, WellTyped

\* Under the invariant the index is a finite function from keys to expiries.
LEMMA IndexOfInv == IInv => cache.index \in Indexes /\ now \in Nat
<1>1. ASSUME IInv PROVE cache.index \in Indexes
  BY <1>1 DEF IInv, TypeOK, WellTyped, Indexes
<1>2. ASSUME IInv PROVE now \in Nat
  BY <1>2, ReplayCacheAssumption DEF IInv, TypeOK, Times
<1> QED
  BY <1>1, <1>2

\* pop/replay.go:142-151: what a call leaves in the index before it answers.
LEMMA SweptAndCleared ==
  ASSUME IInv, NEW k \in Keys
  PROVE  /\ swept = Grouped(Restrict(cache.index, Surviving(cache.index, now)))
         /\ cleared(k) = Grouped(Restrict(cache.index,
                                          Surviving(cache.index, now) \ {k}))
         /\ live(k) <=> k \in DOMAIN cache.index /\ cache.index[k] > now
<1> DEFINE f == cache.index
           S == Surviving(f, now)
<1>1. f \in Indexes /\ now \in Nat /\ cache = Grouped(f)
  BY IndexOfInv DEF IInv, BucketsMirrorIndex
<1>2. S \in SUBSET DOMAIN f
  BY DEF Surviving
<1>3. swept = Grouped(Restrict(f, S))
  BY <1>1, EvictKeepsGrouped DEF swept
<1>4. /\ DOMAIN Restrict(f, S) = S
      /\ \A x \in S : Restrict(f, S)[x] = f[x]
      /\ Restrict(f, S) \in Indexes
  BY <1>1, <1>2, RestrictIndex
<1>5. swept.index = Restrict(f, S)
  BY <1>3 DEF Grouped
<1>6. live(k) <=> k \in DOMAIN f /\ f[k] > now
  <2>1. k \in DOMAIN f /\ f[k] > now => k \in S
    BY <1>1, SurvivorBounds
  <2> QED
    BY <1>2, <1>4, <1>5, <2>1 DEF live
<1>7. cleared(k) = Grouped(Restrict(f, S \ {k}))
  <2>1. CASE k \in S
    <3>1. cleared(k) = removeLocked(Grouped(Restrict(f, S)), k, Restrict(f, S)[k])
      BY <1>3, <1>4, <1>5, <2>1 DEF cleared
    <3>2. cleared(k) = Grouped(Restrict(Restrict(f, S), S \ {k}))
      BY <1>4, <2>1, <3>1, RemoveKeepsGrouped
    <3>3. Restrict(Restrict(f, S), S \ {k}) = Restrict(f, S \ {k})
      BY DEF Restrict
    <3> QED
      BY <3>2, <3>3
  <2>2. CASE k \notin S
    <3>1. S \ {k} = S
      BY <2>2
    <3> QED
      BY <1>3, <1>4, <1>5, <2>2, <3>1 DEF cleared
  <2> QED
    BY <2>1, <2>2
<1> QED
  BY <1>3, <1>6, <1>7

\* pop/replay.go:191-208: a step that only drops entries whose generation has
\* passed, and one expired entry at most, keeps the invariant of the cache.
LEMMA DroppingKeepsInv ==
  ASSUME IInv, NEW S \in SUBSET Surviving(cache.index, now),
         \A k \in DOMAIN cache.index : cache.index[k] > now => k \in S,
         cache' = Grouped(Restrict(cache.index, S)),
         UNCHANGED <<now, granted>>
  PROVE  /\ WellTyped(cache')
         /\ BucketsMirrorIndex'
         /\ RememberedUntilExpiry'
         /\ CapacityRespected'
         /\ IsFiniteSet(DOMAIN cache'.index)
<1> DEFINE f == cache.index
           g == Restrict(f, S)
<1>1. f \in Indexes /\ S \in SUBSET DOMAIN f
  BY IndexOfInv DEF Surviving
<1>2. /\ g \in Indexes /\ DOMAIN g = S /\ \A k \in S : g[k] = f[k]
      /\ IsFiniteSet(S) /\ Cardinality(S) \in Nat
      /\ Cardinality(S) <= Cardinality(DOMAIN f)
  BY <1>1, RestrictIndex
<1>3. cache'.index = g
  BY DEF Grouped
<1>4. WellTyped(cache')
  BY <1>2, GroupedType
<1>5. BucketsMirrorIndex'
  BY <1>3 DEF BucketsMirrorIndex
<1>6. RememberedUntilExpiry'
  BY <1>2, <1>3 DEF IInv, RememberedUntilExpiry
<1>7. CapacityRespected'
  <2>1. Cardinality(DOMAIN f) <= maxEntries /\ Cardinality(DOMAIN f) \in Nat
    BY <1>1, FS_CardinalityType DEF IInv, CapacityRespected, Indexes
  <2> QED
    BY <1>2, <1>3, <2>1, ReplayCacheAssumption DEF CapacityRespected
<1> QED
  BY <1>2, <1>3, <1>4, <1>5, <1>6, <1>7

\* pop/replay.go:149-157: recording a key that is not held, with room left,
\* keeps the invariant of the cache.
LEMMA StoringKeepsInv ==
  ASSUME IInv, NEW k \in Keys, NEW exp \in Times, Stored(k, exp)
  PROVE  /\ WellTyped(cache')
         /\ BucketsMirrorIndex'
         /\ RememberedUntilExpiry'
         /\ CapacityRespected'
         /\ IsFiniteSet(DOMAIN cache'.index)
<1> DEFINE f == cache.index
           S == Surviving(f, now) \ {k}
           h == Restrict(f, S)
           g == [x \in S \cup {k} |-> IF x = k THEN exp ELSE f[x]]
<1>1. f \in Indexes /\ now \in Nat /\ S \in SUBSET DOMAIN f
  BY IndexOfInv DEF Surviving
<1>2. /\ h \in Indexes /\ DOMAIN h = S /\ \A x \in S : h[x] = f[x]
      /\ IsFiniteSet(S) /\ Cardinality(S) \in Nat
  BY <1>1, RestrictIndex
<1>3. cache' = Grouped(g)
  <2>1. cache' = addLocked(Grouped(h), k, exp)
    BY SweptAndCleared DEF Stored
  <2>2. addLocked(Grouped(h), k, exp)
        = Grouped([x \in DOMAIN h \cup {k} |-> IF x = k THEN exp ELSE h[x]])
    BY <1>2, AddKeepsGrouped
  <2>3. [x \in DOMAIN h \cup {k} |-> IF x = k THEN exp ELSE h[x]] = g
    BY <1>2
  <2> QED
    BY <2>1, <2>2, <2>3
<1>4. cache'.index = g
  BY <1>3 DEF Grouped
<1>5. /\ IsFiniteSet(S \cup {k})
      /\ Cardinality(S \cup {k}) = Cardinality(S) + 1
  BY <1>2, FS_AddElement
<1>6. g \in Indexes
  <2>1. PICK D \in SUBSET Keys : f \in [D -> Times]
    BY <1>1 DEF Indexes
  <2>2. S \cup {k} \in SUBSET Keys /\ g \in [S \cup {k} -> Times]
    BY <1>1, <2>1
  <2> QED
    BY <1>5, <2>2 DEF Indexes
<1>7. WellTyped(cache')
  BY <1>3, <1>6, GroupedType
<1>8. BucketsMirrorIndex'
  BY <1>3, <1>4 DEF BucketsMirrorIndex
<1>9. RememberedUntilExpiry'
  <2>1. granted' = [granted EXCEPT ![k] = exp] /\ now' = now
        /\ granted \in [Keys -> Times]
    BY DEF Stored, IInv, TypeOK
  <2>2. ASSUME NEW x \in Keys, x # k, granted[x] > now
        PROVE  x \in S
    <3>1. x \in DOMAIN f /\ f[x] > now
      BY <2>2 DEF IInv, RememberedUntilExpiry
    <3> QED
      BY <1>1, <2>2, <3>1, SurvivorBounds
  <2>3. ASSUME NEW x \in Keys, x # k, granted[x] > now
        PROVE  x \in DOMAIN g /\ g[x] = granted[x]
    BY <2>2, <2>3 DEF IInv, RememberedUntilExpiry
  <2>4. k \in DOMAIN g /\ g[k] = exp
    OBVIOUS
  <2> QED
    BY <1>4, <2>1, <2>3, <2>4 DEF RememberedUntilExpiry
<1>10. CapacityRespected'
  <2>1. Cardinality(S) < maxEntries
    <3>1. cleared(k) = Grouped(h)
      BY SweptAndCleared
    <3>2. cleared(k).index = h
      BY <3>1 DEF Grouped
    <3>3. hasRoom(cleared(k))
      BY DEF Stored
    <3> QED
      BY <1>2, <3>2, <3>3 DEF hasRoom
  <2> QED
    BY <1>2, <1>4, <1>5, <2>1, ReplayCacheAssumption DEF CapacityRespected
<1>11. IsFiniteSet(DOMAIN cache'.index)
  BY <1>4, <1>5
<1> QED
  BY <1>7, <1>8, <1>9, <1>10, <1>11

\* pop/replay.go:92-109: the new cache is consistent.
LEMMA InitInv == Init => IInv
<1> SUFFICES ASSUME Init PROVE IInv
  OBVIOUS
<1> DEFINE f == [k \in {} |-> 0]
<1>1. cache = Grouped(f) /\ cache.index = f /\ DOMAIN f = {}
  BY DEF Init, EmptyCache, Grouped
<1>2. IsFiniteSet({}) /\ Cardinality({}) = 0
  BY FS_EmptySet
<1>3. f \in Indexes
  <2>1. {} \in SUBSET Keys /\ f \in [{} -> Times]
    OBVIOUS
  <2> QED
    BY <1>2, <2>1 DEF Indexes
<1>4. WellTyped(cache)
  BY <1>1, <1>3, GroupedType
<1>5. TypeOK
  BY <1>4, ReplayCacheAssumption DEF Init, TypeOK, Times
<1>6. BucketsMirrorIndex /\ CapacityRespected
  BY <1>1, <1>2, ReplayCacheAssumption DEF BucketsMirrorIndex, CapacityRespected
<1>7. RememberedUntilExpiry
  BY DEF Init, RememberedUntilExpiry
<1> QED
  BY <1>1, <1>2, <1>5, <1>6, <1>7 DEF IInv

\* The invariant is inductive.
LEMMA NextInv == IInv /\ [Next]_vars => IInv'
<1> SUFFICES ASSUME IInv, [Next]_vars PROVE IInv'
  OBVIOUS
<1> USE DEF IInv
<1>1. TypeOK
  OBVIOUS
<1>2. CASE Tick
  <2>1. TypeOK'
    BY <1>1, <1>2, ReplayCacheAssumption DEF Tick, TypeOK, Times
  <2>2. RememberedUntilExpiry'
    BY <1>1, <1>2, ReplayCacheAssumption
       DEF Tick, RememberedUntilExpiry, TypeOK, Times
  <2> QED
    BY <1>2, <2>1, <2>2 DEF Tick, BucketsMirrorIndex, CapacityRespected
<1>3. CASE janitor
  <2> DEFINE S == Surviving(cache.index, now)
  <2>1. cache' = Grouped(Restrict(cache.index, S))
    BY <1>3, IndexOfInv, EvictKeepsGrouped DEF janitor, BucketsMirrorIndex
  <2>2. \A k \in DOMAIN cache.index : cache.index[k] > now => k \in S
    BY IndexOfInv, SurvivorBounds
  <2>3. UNCHANGED <<now, granted, running, reply>>
    BY <1>3 DEF janitor
  <2>4. /\ WellTyped(cache') /\ BucketsMirrorIndex' /\ RememberedUntilExpiry'
        /\ CapacityRespected' /\ IsFiniteSet(DOMAIN cache'.index)
    BY <2>1, <2>2, <2>3, DroppingKeepsInv
  <2> QED
    BY <1>1, <2>3, <2>4 DEF TypeOK
<1>4. CASE Close
  BY <1>1, <1>4 DEF Close, TypeOK, BucketsMirrorIndex, RememberedUntilExpiry,
                    CapacityRespected
<1>5. ASSUME NEW k \in Keys, Seen(k) PROVE IInv'
  <2> DEFINE S == Surviving(cache.index, now)
  <2>1. cache' = Grouped(Restrict(cache.index, S))
    BY <1>5, SweptAndCleared DEF Seen
  <2>2. \A x \in DOMAIN cache.index : cache.index[x] > now => x \in S
    BY IndexOfInv, SurvivorBounds
  <2>3. UNCHANGED <<now, granted, running>> /\ Answer(k, "seen")
    BY <1>5 DEF Seen
  <2>4. /\ WellTyped(cache') /\ BucketsMirrorIndex' /\ RememberedUntilExpiry'
        /\ CapacityRespected' /\ IsFiniteSet(DOMAIN cache'.index)
    BY <2>1, <2>2, <2>3, DroppingKeepsInv
  <2> QED
    BY <1>1, <2>3, <2>4 DEF TypeOK, Answer
<1>6. ASSUME NEW k \in Keys, Full(k) PROVE IInv'
  <2> DEFINE S == Surviving(cache.index, now) \ {k}
  <2>1. cache' = Grouped(Restrict(cache.index, S)) /\ ~live(k)
    BY <1>6, SweptAndCleared DEF Full
  <2>2. \A x \in DOMAIN cache.index : cache.index[x] > now => x \in S
    BY <2>1, IndexOfInv, SurvivorBounds, SweptAndCleared
  <2>3. UNCHANGED <<now, granted, running>> /\ Answer(k, "full")
    BY <1>6 DEF Full
  <2>4. /\ WellTyped(cache') /\ BucketsMirrorIndex' /\ RememberedUntilExpiry'
        /\ CapacityRespected' /\ IsFiniteSet(DOMAIN cache'.index)
    BY <2>1, <2>2, <2>3, DroppingKeepsInv
  <2> QED
    BY <1>1, <2>3, <2>4 DEF TypeOK, Answer
<1>7. ASSUME NEW k \in Keys, NEW exp \in Times, Stored(k, exp) PROVE IInv'
  <2>1. /\ WellTyped(cache') /\ BucketsMirrorIndex' /\ RememberedUntilExpiry'
        /\ CapacityRespected' /\ IsFiniteSet(DOMAIN cache'.index)
    BY <1>7, StoringKeepsInv
  <2> QED
    BY <1>1, <1>7, <2>1 DEF TypeOK, Stored, Answer
<1>8. CASE UNCHANGED vars
  BY <1>1, <1>8 DEF vars, TypeOK, BucketsMirrorIndex, RememberedUntilExpiry,
                    CapacityRespected
<1> QED
  BY <1>2, <1>3, <1>4, <1>5, <1>6, <1>7, <1>8 DEF Next, CheckAndStore

\* The invariant of MemoryReplayCache, whatever its methods are called with.
LEMMA SpecInv == Spec => []IInv
  BY InitInv, NextInv, PTL DEF Spec

\* The state keeps its shape (pop/replay.go:78-92).
THEOREM TypeCorrect == Spec => []TypeOK
<1>1. IInv => TypeOK
  BY DEF IInv
<1> QED
  BY <1>1, SpecInv, PTL

\* pop/replay.go:76-77: a key is in exactly the bucket its indexed expiry maps
\* to, whatever sequence of calls, sweeps and re-recordings came before.
THEOREM BucketsConsistent == Spec => []BucketsMirrorIndex
<1>1. IInv => BucketsMirrorIndex
  BY DEF IInv
<1> QED
  BY <1>1, SpecInv, PTL

\* pop/replay.go:10-15: a key is kept until the expiry it was recorded under.
THEOREM KeysAreRemembered == Spec => []RememberedUntilExpiry
<1>1. IInv => RememberedUntilExpiry
  BY DEF IInv
<1> QED
  BY <1>1, SpecInv, PTL

\* pop/replay.go:149: the cache never outgrows its capacity.
THEOREM SizeIsBounded == Spec => []CapacityRespected
<1>1. IInv => CapacityRespected
  BY DEF IInv
<1> QED
  BY <1>1, SpecInv, PTL

-----------------------------------------------------------------------------
(* The cache implements the promise of SingleUse.                          *)

\* The promise counts entries as the cache does.
LEMMA SameCardinality == \A T : Promise!Cardinality(T) = Cardinality(T)
  BY DEF Promise!Cardinality, Cardinality, Promise!IsFiniteSet, IsFiniteSet

\* What a call leaves behind is what the promise allows it to forget: overdue
\* entries all, live entries never.
LEMMA DroppedIsForgettable ==
  ASSUME IInv, NEW S \in SUBSET Surviving(cache.index, now),
         \A k \in DOMAIN cache.index : cache.index[k] > now => k \in S
  PROVE  DOMAIN cache.index \ S \in Promise!Forgettable
<1> DEFINE f == cache.index
           gone == DOMAIN f \ S
<1>1. f \in Indexes /\ now \in Nat
  BY IndexOfInv
<1>2. \A k \in DOMAIN f : f[k] \in Nat
  BY <1>1, ReplayCacheAssumption DEF Indexes, Times
<1>3. gone \in SUBSET {k \in DOMAIN f : f[k] <= now}
  BY <1>1, <1>2
<1>4. \A k \in DOMAIN f : f[k] + bucketWidth <= now => k \in gone
  BY <1>1, SurvivorBounds
<1> QED
  BY <1>3, <1>4 DEF Promise!Forgettable

\* Every step of the cache is one the promise allows, or leaves what it speaks
\* of unchanged.
LEMMA StepImplements == IInv /\ [Next]_vars => [Promise!Next]_(Promise!vars)
<1> SUFFICES ASSUME IInv, [Next]_vars
             PROVE  Promise!Next \/ UNCHANGED Promise!vars
  OBVIOUS
<1> DEFINE f == cache.index
           S == Surviving(f, now)
<1>1. f \in Indexes /\ now \in Nat /\ S \in SUBSET DOMAIN f
  BY IndexOfInv DEF Surviving
<1>2. \A k \in DOMAIN f : f[k] > now => k \in S
  BY <1>1, SurvivorBounds
<1>3. \A T \in SUBSET DOMAIN f : /\ DOMAIN f \ (DOMAIN f \ T) = T
                                 /\ Promise!Keep(DOMAIN f \ T) = Restrict(f, T)
  BY DEF Promise!Keep, Restrict
<1>4. CASE Tick
  BY <1>4, ReplayCacheAssumption
     DEF Tick, Promise!Next, Promise!Tick, IInv, TypeOK, Times
<1>5. CASE janitor
  <2>1. cache' = Grouped(Restrict(f, S)) /\ UNCHANGED <<now, reply>>
    BY <1>1, <1>5, EvictKeepsGrouped DEF janitor, IInv, BucketsMirrorIndex
  <2>2. cache'.index = Promise!Keep(DOMAIN f \ S)
    BY <1>1, <1>3, <2>1 DEF Grouped
  <2>3. DOMAIN f \ S \in Promise!Forgettable
    BY <1>2, DroppedIsForgettable
  <2> QED
    BY <2>1, <2>2, <2>3 DEF Promise!Next, Promise!Sweep
<1>6. CASE Close
  BY <1>6 DEF Close, Promise!vars
<1>7. ASSUME NEW k \in Keys, Seen(k) PROVE Promise!Next
  <2>1. cache' = Grouped(Restrict(f, S)) /\ Promise!Live(k)
    BY <1>7, SweptAndCleared DEF Seen, Promise!Live
  <2>2. cache'.index = Promise!Keep(DOMAIN f \ S)
    BY <1>1, <1>3, <2>1 DEF Grouped
  <2>3. DOMAIN f \ S \in Promise!Forgettable
    BY <1>2, DroppedIsForgettable
  <2>4. Promise!Seen(k)
    BY <1>7, <2>1, <2>2, <2>3
       DEF Seen, Answer, Promise!Seen, Promise!Answer
  <2> QED
    BY <2>4 DEF Promise!Next
<1>8. ASSUME NEW k \in Keys, Full(k) PROVE Promise!Next
  <2> DEFINE T == S \ {k}
  <2>1. cleared(k) = Grouped(Restrict(f, T)) /\ ~Promise!Live(k)
    BY <1>8, SweptAndCleared DEF Full, Promise!Live
  <2>2. T \in SUBSET DOMAIN f /\ \A x \in DOMAIN f : f[x] > now => x \in T
    BY <1>1, <1>2, <2>1 DEF Promise!Live
  <2>3. cleared(k).index = Restrict(f, T)
    BY <2>1 DEF Grouped
  <2>4. cache'.index = Promise!Keep(DOMAIN f \ T)
    BY <1>3, <1>8, <2>2, <2>3 DEF Full
  <2>5. DOMAIN f \ T \in Promise!Forgettable
    BY <2>2, DroppedIsForgettable
  <2>6. Cardinality(DOMAIN f \ (DOMAIN f \ T)) >= maxEntries
    <3>1. DOMAIN Restrict(f, T) = T /\ Cardinality(T) \in Nat
      BY <1>1, <2>2, RestrictIndex
    <3>2. ~(Cardinality(T) < maxEntries)
      BY <1>8, <2>3, <3>1 DEF Full, hasRoom
    <3> QED
      BY <1>3, <2>2, <3>1, <3>2, ReplayCacheAssumption
  <2>7. Promise!Full(k)
    BY <1>8, <2>1, <2>4, <2>5, <2>6, SameCardinality
       DEF Full, Answer, Promise!Full, Promise!Answer
  <2> QED
    BY <2>7 DEF Promise!Next
<1>9. ASSUME NEW k \in Keys, NEW exp \in Times, Stored(k, exp)
      PROVE  Promise!Next
  <2> DEFINE T == S \ {k}
             gone == DOMAIN f \ T
  <2>1. cleared(k) = Grouped(Restrict(f, T)) /\ ~Promise!Live(k)
    BY <1>9, SweptAndCleared DEF Stored, Promise!Live
  <2>2. T \in SUBSET DOMAIN f /\ \A x \in DOMAIN f : f[x] > now => x \in T
    BY <1>1, <1>2, <2>1 DEF Promise!Live
  <2>3. cleared(k).index = Restrict(f, T) /\ DOMAIN Restrict(f, T) = T
    BY <2>1 DEF Grouped, Restrict
  <2>4. gone \in Promise!Forgettable /\ (k \in DOMAIN f => k \in gone)
    BY <2>2, DroppedIsForgettable
  <2>5. Cardinality(DOMAIN f \ gone) < maxEntries
    BY <1>3, <1>9, <2>2, <2>3 DEF Stored, hasRoom
  <2>6. cache'.index = [x \in (DOMAIN f \ gone) \cup {k} |->
                          IF x = k THEN exp ELSE f[x]]
    <3>1. cache'.index = [x \in T \cup {k} |->
                            IF x = k THEN exp ELSE Restrict(f, T)[x]]
      BY <1>9, <2>3 DEF Stored, addLocked
    <3>2. \A x \in T : Restrict(f, T)[x] = f[x]
      BY DEF Restrict
    <3>3. DOMAIN f \ gone = T
      BY <1>3, <2>2
    <3> QED
      BY <3>1, <3>2, <3>3
  <2>7. Promise!Stored(k, exp)
    BY <1>9, <2>1, <2>4, <2>5, <2>6, SameCardinality
       DEF Stored, Answer, Promise!Stored, Promise!Answer
  <2> QED
    BY <2>7 DEF Promise!Next, Times
<1>10. CASE UNCHANGED vars
  BY <1>10 DEF vars, Promise!vars
<1> QED
  BY <1>4, <1>5, <1>6, <1>7, <1>8, <1>9, <1>10 DEF Next, CheckAndStore

\* pop/replay.go:92-109: the new cache is empty, as promised.
LEMMA InitImplements == Init => Promise!Init
  BY ReplayCacheAssumption DEF Init, Promise!Init, EmptyCache, Grouped

\* pop/replay.go:44-61: the bucketed cache keeps the promise of the interface.
THEOREM Implements == Spec => ImplementsSingleUse
  BY SpecInv, InitImplements, StepImplements, PTL
     DEF Spec, ImplementsSingleUse, Promise!Spec
=============================================================================
