------------------------------ MODULE BadgeCache ------------------------------
(***************************************************************************)
(* The cache of badges (verify/cache.go), shared by the server verifier,   *)
(* the client verifier and the background refresh.  Its two maps are one   *)
(* function here: the slot of a server is its host, the slot of a client   *)
(* its host and version.  Every operation runs under the lock of the cache *)
(* and is one step.                                                        *)
(***************************************************************************)
EXTENDS Integers, FiniteSets

CONSTANTS
  Hosts, Versions,
  None,             \* no version
  MaxEntries,       \* CacheConfig.MaxEntries
  DefaultTTL,       \* CacheConfig.DefaultTTL
  RefreshThreshold, \* CacheConfig.RefreshThreshold
  StaleRetention    \* CacheConfig.StaleRetention

ASSUME CacheAssumption ==
  /\ None \notin Versions
  /\ MaxEntries \in Nat /\ DefaultTTL \in Nat
  /\ RefreshThreshold \in Nat /\ StaleRetention \in Nat

VARIABLES
  now,    \* the clock
  cache   \* the entries: [badge, expiresAt] by slot

ServerSlots == [role : {"server"}, host : Hosts, version : {None}]
ClientSlots == [role : {"client"}, host : Hosts, version : Versions]
Slots == ServerSlots \cup ClientSlots

\* GetByFqdn and GetByFqdnVersion find the slot: it is held and not expired.
Hit(slot) == slot \in DOMAIN cache /\ now <= cache[slot].expiresAt

\* Bug: the age of the entry is not looked at.
StaleHitAnyAge(slot, maxStaleness) == slot \in DOMAIN cache

\* GetStaleByFqdn and GetStaleByFqdnVersion find it, expired or not.
StaleHit(slot, maxStaleness) ==
  slot \in DOMAIN cache /\ now - cache[slot].expiresAt <= maxStaleness

\* The keys refreshExpiring collects.
Expiring == {slot \in DOMAIN cache :
               /\ slot.role = "server"
               /\ now + RefreshThreshold > cache[slot].expiresAt}

\* Bug: the limit is not looked at.
SurvivorsUnlimited(entries) ==
  {{s \in DOMAIN entries : now - StaleRetention <= entries[s].expiresAt}}

\* cleanupLocked: what may be left of the slots.  Entries beyond the retention
\* go; if that leaves too many, arbitrary ones go, those of servers first.
Survivors(entries) ==
  LET retained == {s \in DOMAIN entries : now - StaleRetention <= entries[s].expiresAt}
  IN  IF Cardinality(retained) <= MaxEntries THEN {retained}
      ELSE {left \in SUBSET retained :
              /\ Cardinality(left) = MaxEntries
              /\ retained \cap ClientSlots \subseteq left \/ left \cap ServerSlots = {}}

\* Insert and InsertForVersion.
Insert(slot, badge) ==
  LET entries == [s \in DOMAIN cache \cup {slot} |->
                    IF s = slot THEN [badge |-> badge, expiresAt |-> now + DefaultTTL]
                    ELSE cache[s]]
  IN  \E left \in Survivors(entries) : cache' = [s \in left |-> entries[s]]

Clear == cache' = [s \in {} |-> {}]

\* verify/cache.go:24-25: MaxEntries "is the maximum number of entries".
CapacityRespected == Cardinality(DOMAIN cache) <= MaxEntries
=============================================================================
