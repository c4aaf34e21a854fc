----------------------------- MODULE ReplayCache -----------------------------
(***************************************************************************)
(* The in-process replay cache of pop/replay.go (MemoryReplayCache).       *)
(*                                                                         *)
(* Two structures are kept under one mutex: index answers whether a key    *)
(* was seen, buckets group the keys by expiry generation so that eviction  *)
(* drops whole generations.  Every method that touches them runs with the  *)
(* mutex held and reads the clock under it, so each is one step here: the  *)
(* interleaving of verifiers is the order of their steps.                  *)
(***************************************************************************)
EXTENDS Integers, FiniteSets, Functions

CONSTANTS Keys,         \* digests of proof identifiers (jti)
          bucketWidth,  \* width of an expiry generation, in clock units
          maxEntries,   \* capacity
          MaxTime       \* bound of the clock and of the expiries

ASSUME ReplayCacheAssumption ==
  /\ bucketWidth \in Nat \ {0}
  /\ maxEntries \in Nat \ {0}
  /\ MaxTime \in Nat

VARIABLES now,      \* the wall clock
          cache,    \* [index : key -> expiry, buckets : generation -> set of keys]
          running,  \* the janitor runs: neither Close nor cancellation stopped it
          reply,    \* the last answer of CheckAndStore
          granted   \* history: the expiry under which each key was last recorded

vars == <<now, cache, running, reply, granted>>

Times == 0..MaxTime

-----------------------------------------------------------------------------
(* The two structures.  c is a cache value, t the clock reading.           *)

bucketOf(exp) == exp \div bucketWidth

\* The structures that hold the entries f, in their consistent form.
Grouped(f) ==
  [index   |-> f,
   buckets |-> [id \in {bucketOf(f[k]) : k \in DOMAIN f} |->
                  {k \in DOMAIN f : bucketOf(f[k]) = id}]]

EmptyCache == Grouped([k \in {} |-> 0])

\* Bug: the index keeps the end of the generation in place of the expiry.
addLockedAtGenerationEnd(c, k, exp) ==
  LET id == bucketOf(exp)
      old == IF id \in DOMAIN c.buckets THEN c.buckets[id] ELSE {}
  IN  [index   |-> [x \in DOMAIN c.index \cup {k} |->
                      IF x = k THEN (id + 1) * bucketWidth ELSE c.index[x]],
       buckets |-> [i \in DOMAIN c.buckets \cup {id} |->
                      IF i = id THEN old \cup {k} ELSE c.buckets[i]]]

addLocked(c, k, exp) ==
  LET id == bucketOf(exp)
      old == IF id \in DOMAIN c.buckets THEN c.buckets[id] ELSE {}
  IN  [index   |-> [x \in DOMAIN c.index \cup {k} |->
                      IF x = k THEN exp ELSE c.index[x]],
       buckets |-> [i \in DOMAIN c.buckets \cup {id} |->
                      IF i = id THEN old \cup {k} ELSE c.buckets[i]]]

\* Bug: the entry stays in the generation it is removed from.
removeLockedIndexOnly(c, k, exp) ==
  [c EXCEPT !.index = Restrict(c.index, DOMAIN c.index \ {k})]

removeLocked(c, k, exp) ==
  LET id == bucketOf(exp)
      emptied == {i \in DOMAIN c.buckets : i = id /\ c.buckets[i] \ {k} = {}}
  IN  [index   |-> Restrict(c.index, DOMAIN c.index \ {k}),
       buckets |-> [i \in DOMAIN c.buckets \ emptied |->
                      IF i = id THEN c.buckets[i] \ {k} ELSE c.buckets[i]]]

\* Bug: a generation is dropped on a partial comparison.
passedOnFirstExpiry(c, t) == {id \in DOMAIN c.buckets : id * bucketWidth <= t}

\* The generations whose latest possible expiry has passed.
passed(c, t) == {id \in DOMAIN c.buckets : (id + 1) * bucketWidth <= t}

evictLocked(c, t) ==
  LET gone == {k \in DOMAIN c.index :
                 \E id \in passed(c, t) :
                    k \in c.buckets[id] /\ bucketOf(c.index[k]) = id}
  IN  [index   |-> Restrict(c.index, DOMAIN c.index \ gone),
       buckets |-> Restrict(c.buckets, DOMAIN c.buckets \ passed(c, t))]

-----------------------------------------------------------------------------
(* CheckAndStore: what every call does before it answers, and the answers. *)

\* The cache after the eviction that starts the call.
swept == evictLocked(cache, now)

\* Bug: an expiry that is reached no longer counts as passed.
liveTooLong(k) == k \in DOMAIN swept.index /\ swept.index[k] >= now

live(k) == k \in DOMAIN swept.index /\ swept.index[k] > now

\* The cache after an expired entry of k whose generation has not passed is
\* dropped.
cleared(k) ==
  IF k \in DOMAIN swept.index THEN removeLocked(swept, k, swept.index[k])
                              ELSE swept

\* Bug: one entry more than the capacity.
roomForOneMore(c) == Cardinality(DOMAIN c.index) <= maxEntries

hasRoom(c) == Cardinality(DOMAIN c.index) < maxEntries

Answer(k, verdict) == reply' = [key |-> k, verdict |-> verdict]

Seen(k) ==
  /\ live(k)
  /\ cache' = swept
  /\ Answer(k, "seen")
  /\ UNCHANGED <<now, running, granted>>

Full(k) ==
  /\ ~live(k)
  /\ ~hasRoom(cleared(k))
  /\ cache' = cleared(k)
  /\ Answer(k, "full")
  /\ UNCHANGED <<now, running, granted>>

Stored(k, exp) ==
  /\ ~live(k)
  /\ hasRoom(cleared(k))
  /\ cache' = addLocked(cleared(k), k, exp)
  /\ Answer(k, "stored")
  /\ granted' = [granted EXCEPT ![k] = exp]
  /\ UNCHANGED <<now, running>>

\* A verifier's call: the proof's replay expiry may lie anywhere, also in the
\* past when the verification was slow.
CheckAndStore(k, exp) == Seen(k) \/ Full(k) \/ Stored(k, exp)

-----------------------------------------------------------------------------

\* NewMemoryReplayCache.
Init == /\ now = 0
        /\ cache = EmptyCache
        /\ running = TRUE
        /\ reply \in [key : Keys, verdict : {"none"}]
        /\ granted = [k \in Keys |-> 0]

\* The clock moves between calls; it is assumed never to step back.
Tick == /\ now < MaxTime
        /\ now' = now + 1
        /\ UNCHANGED <<cache, running, reply, granted>>

\* One round of the janitor's ticker.
janitor == /\ running
           /\ cache' = evictLocked(cache, now)
           /\ UNCHANGED <<now, running, reply, granted>>

\* Close, or the cancellation of the context given to the constructor.
Close == /\ running
         /\ running' = FALSE
         /\ UNCHANGED <<now, cache, reply, granted>>

Next == \/ Tick
        \/ janitor
        \/ Close
        \/ \E k \in Keys, exp \in Times : CheckAndStore(k, exp)

Spec == Init /\ [][Next]_vars

\* The ticker of the janitor keeps firing.
FairSpec == Spec /\ WF_vars(janitor)

-----------------------------------------------------------------------------
(* Correctness.                                                            *)

WellTyped(c) ==
  /\ c = [index |-> c.index, buckets |-> c.buckets]
  /\ DOMAIN c.index \subseteq Keys
  /\ c.index \in [DOMAIN c.index -> Times]
  /\ DOMAIN c.buckets \subseteq Times
  /\ c.buckets \in [DOMAIN c.buckets -> SUBSET Keys]

\* The shape of the state.
TypeOK ==
  /\ now \in Times
  /\ WellTyped(cache)
  /\ running \in BOOLEAN
  /\ reply \in [key : Keys, verdict : {"none", "stored", "seen", "full"}]
  /\ granted \in [Keys -> Times]

\* pop/replay.go:76-77: a key is in exactly the bucket its indexed expiry maps
\* to.  It also means that no bucket is empty and none holds a forgotten key.
BucketsMirrorIndex == cache = Grouped(cache.index)

\* pop/replay.go:10-15: a recorded key is kept until its expiry.  Whatever
\* other calls, sweeps and re-recordings came in between, the index still
\* answers for it with the expiry it was recorded under.
RememberedUntilExpiry ==
  \A k \in Keys : granted[k] > now =>
    k \in DOMAIN cache.index /\ cache.index[k] = granted[k]

\* pop/replay.go:78: the cache never holds more than maxEntries entries.
CapacityRespected == Cardinality(DOMAIN cache.index) <= maxEntries

\* The bucketed cache does what a replay cache promises.
Promise == INSTANCE SingleUse WITH mem <- cache.index, MaxEntries <- maxEntries,
                                   Retention <- bucketWidth

ImplementsSingleUse == Promise!Spec

\* pop/replay.go:214-215: "so memory drains when traffic stops".  An entry that
\* expired a whole generation ago is dropped, unless the janitor was stopped.
Drains ==
  \A k \in Keys :
    (k \in DOMAIN cache.index /\ cache.index[k] + bucketWidth <= now)
      ~> (k \notin DOMAIN cache.index \/ cache.index[k] + bucketWidth > now
          \/ ~running)
=============================================================================
