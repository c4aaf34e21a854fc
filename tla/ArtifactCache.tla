----------------------------- MODULE ArtifactCache -----------------------------
(***************************************************************************)
(* The caches of verified receipts and of verified status tokens           *)
(* (verify/scitt/cache.go).  A cache is [entries, order, maxEntries]: the  *)
(* entries [artifact, expiresAt] by agent, and the agents in the order in  *)
(* which their entries were first inserted.  Every operation runs under    *)
(* the lock of its cache.                                                  *)
(***************************************************************************)
EXTENDS Integers, FiniteSets, SequencesExt

CONSTANTS
  ReceiptTTL,  \* the ttl of NewReceiptCache
  Missing      \* what Get returns when it finds nothing

ASSUME ArtifactCacheAssumption == ReceiptTTL \in Nat

\* NewReceiptCache and NewStatusTokenCache.
EmptyCache(maxEntries) ==
  [entries |-> [id \in {} |-> Missing], order |-> <<>>, maxEntries |-> maxEntries]

\* Get: an entry that has expired is not found, and stays.
Get(cache, id, now) ==
  IF id \in DOMAIN cache.entries /\ now <= cache.entries[id].expiresAt
  THEN cache.entries[id].artifact ELSE Missing

\* evictLocked: the oldest agents go, as many as are too many.
Evict(cache) ==
  LET excess == Cardinality(DOMAIN cache.entries) - cache.maxEntries
      gone == IF excess <= 0 THEN 0
              ELSE IF excess < Len(cache.order) THEN excess ELSE Len(cache.order)
      out == {cache.order[i] : i \in 1..gone}
  IN  [entries |-> [id \in DOMAIN cache.entries \ out |-> cache.entries[id]],
       order |-> SubSeq(cache.order, gone + 1, Len(cache.order)),
       maxEntries |-> cache.maxEntries]

Put(cache, id, entry) ==
  [cache EXCEPT !.entries = [a \in DOMAIN @ \cup {id} |-> IF a = id THEN entry ELSE @[a]]]

\* Insert: an agent that has an entry keeps its place.
Insert(cache, id, entry) ==
  LET placed == IF id \in DOMAIN cache.entries THEN cache
                ELSE [cache EXCEPT !.order = Append(@, id)]
  IN  Evict(Put(placed, id, entry))

InsertReceipt(cache, id, receipt, now) ==
  Insert(cache, id, [artifact |-> receipt, expiresAt |-> now + ReceiptTTL])

\* Bug: a token is kept as long as a receipt.
InsertTokenForTTL(cache, id, token, now) ==
  Insert(cache, id, [artifact |-> token, expiresAt |-> now + ReceiptTTL])

InsertToken(cache, id, token, now) ==
  Insert(cache, id, [artifact |-> token, expiresAt |-> token.payload.exp])

\* Bug: the agent keeps its place in the order.
InvalidateEntry(cache, id) ==
  [cache EXCEPT !.entries = [a \in DOMAIN @ \ {id} |-> @[a]]]

\* Invalidate, with removeFromOrderLocked.
Invalidate(cache, id) ==
  [entries |-> [a \in DOMAIN cache.entries \ {id} |-> cache.entries[a]],
   order |-> RemoveFirst(cache.order, id), maxEntries |-> cache.maxEntries]

-----------------------------------------------------------------------------

\* The order lists the agents that have entries, each once.
Mirrors(cache) ==
  /\ Range(cache.order) = DOMAIN cache.entries
  /\ IsInjective(cache.order)
=============================================================================
