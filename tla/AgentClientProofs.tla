--------------------------- MODULE AgentClientProofs ---------------------------
(***************************************************************************)
(* Proofs about BadgeVerification and, on top of it, AgentClient: for any  *)
(* number of calls, hosts, badges and certificates, any answers of DNS and *)
(* any configuration of the cache and the verifiers.                       *)
(***************************************************************************)
EXTENDS AgentClient, FiniteSetTheorems, TLAPS

\* What a badge says was so at time t: it is of the log, a certificate it names was
\* named by the log then, and one the log names instead has been so since then at
\* most.  Here l, e and b are the log and its history.
TrueAt(l, e, b, badge, t) ==
  /\ badge.id \in Trusted
  /\ \A role \in Roles :
       /\ badge.valid =>
            \/ l[badge.id].valid /\ l[badge.id].certs[role] = badge.certs[role]
            \/ /\ e[badge.id][role][badge.certs[role]] # None
               /\ e[badge.id][role][badge.certs[role]] >= t
       /\ \/ l[badge.id].certs[role] = badge.certs[role]
          \/ b[badge.id][role] >= t

\* What g read from the log is of this host, was true when it was read, and that is
\* not long ago.
Holds(g) ==
  /\ fetched[g] \in BadgeStates /\ readAt[g] \in 0..MaxTime
  /\ readAt[g] <= now /\ now <= readAt[g] + MaxLag
  /\ fetched[g].id \in Answered(request[g])
  /\ TrueAt(log, ended, begun, fetched[g], readAt[g])

\* Where each goroutine is, and what it has got by then.
CallKnows(g) ==
  /\ pc[g] \in {"idle", "cache", "dns", "log", "insert", "dane"}
  /\ pc[g] # "idle" => request[g] \in Requests
  /\ pc[g] = "log" => url[g] \in Answered(request[g]) \cap Trusted
  /\ pc[g] \in {"insert", "dane"} => Holds(g)
  /\ pc[g] = "dane" => Judge(request[g], fetched[g]) = "Verified"

CallsKnow == \A g \in Calls : CallKnows(g)

RefresherKnows ==
  /\ pc[Refresher] \in {"idle", "refresh", "store"}
  /\ pc[Refresher] = "store" => request[Refresher] \in ServerSlots /\ Holds(Refresher)

\* A cached badge is one of its host, and was true when it was read: at most one
\* fetch before it was cached.
CacheKnows ==
  \A s \in DOMAIN cache :
    /\ cache[s].expiresAt <= now + DefaultTTL
    /\ cache[s].badge.id \in Answered(s)
    /\ TrueAt(log, ended, begun, cache[s].badge, cache[s].expiresAt - DefaultTTL - MaxLag)

BadgeInv == TypeOK /\ CapacityRespected /\ CallsKnow /\ RefresherKnows /\ CacheKnows

\* The steps of the verifiers, the refresh and the log, whatever is asked.
Step ==
  \/ Tick
  \/ \E g \in Calls : \/ \E r \in Requests : Begin(g, r)
                      \/ RefuseUnnamed(g) \/ CheckCache(g) \/ Resolve(g)
                      \/ FetchBadge(g) \/ InsertFetched(g) \/ VerifyDANE(g)
  \/ RefreshExpiring \/ RefreshFn \/ RefreshFnFails \/ RefreshInsert \/ ClearCache
  \/ \E id \in Trusted : Revoke(id) \/ \E role \in Roles : Renew(id, role)

-----------------------------------------------------------------------------
(* What the operators of the model give.                                   *)

\* Every judgement is an answer a call may give.
LEMMA JudgeTyped ==
  ASSUME NEW r, NEW badge
  PROVE  Judge(r, badge) \in {"Verified", "InvalidStatus", "FingerprintMismatch",
                              "HostnameMismatch", "AnsNameMismatch"}
BY DEF Judge, JudgeServer, JudgeClient

\* A request has the fields it is made of, and the slot it is cached under.
LEMMA RequestFields ==
  ASSUME NEW r \in Requests
  PROVE  /\ r.role \in Roles /\ r.host \in Hosts /\ r.cert \in Certs \cup {None}
         /\ r.version \in Versions \cup {None}
         /\ SlotOf(r) \in Slots /\ SlotOf(r).role = r.role
<1>1. r \in [role : Roles, host : Hosts, version : Versions \cup {None},
             cert : Certs \cup {None}]
  BY VerificationAssumption
<1>2. /\ r.role = "server" <=> r.version = None
      /\ r.role \in Roles /\ r.host \in Hosts /\ r.cert \in Certs \cup {None}
      /\ r.version \in Versions \cup {None}
  BY <1>1, VerificationAssumption
<1>3. CASE r.role = "server"
  BY <1>2, <1>3 DEF SlotOf, Slots, ServerSlots
<1>4. CASE r.role = "client"
  BY <1>2, <1>4 DEF SlotOf, Slots, ClientSlots
<1> QED
  BY <1>2, <1>3, <1>4 DEF Roles, SlotOf

LEMMA AnsweredBySlot ==
  ASSUME NEW r
  PROVE  Answered(SlotOf(r)) = Answered(r)
BY DEF Answered, SlotOf, Chosen

\* A badge that is verified names the host, and for a client its version too.
LEMMA VerifiedNames ==
  ASSUME NEW r \in Requests, NEW badge, badge.id \in Trusted, Judge(r, badge) = "Verified"
  PROVE  /\ badge.valid /\ badge.certs[r.role] = r.cert
         /\ Names(badge.id, r)
<1>1. r.role \in Roles
  BY RequestFields
<1>2. CASE r.role = "server"
  BY <1>2 DEF Judge, JudgeServer, Names
<1>3. CASE r.role = "client"
  <2>1. nameIn[r.cert] = [host |-> r.host, version |-> r.version]
    BY <1>3, VerificationAssumption
  <2>2. /\ badge.valid /\ badge.certs[r.role] = r.cert
        /\ nameOf[badge.id].host = r.host /\ nameOf[badge.id] = nameIn[r.cert]
    BY <1>3 DEF Judge, JudgeClient
  <2> QED
    BY <1>3, <2>1, <2>2 DEF Names
<1> QED
  BY <1>1, <1>2, <1>3 DEF Roles

\* What cleanupLocked leaves is not too much.
LEMMA SurvivorsBounded ==
  ASSUME NEW entries, NEW left \in Survivors(entries)
  PROVE  left \subseteq DOMAIN entries /\ Cardinality(left) <= MaxEntries
<1> DEFINE retained == {s \in DOMAIN entries : now - StaleRetention <= entries[s].expiresAt}
<1>1. CASE Cardinality(retained) <= MaxEntries
  <2>1. left = retained
    BY <1>1 DEF Survivors
  <2> QED
    BY <1>1, <2>1
<1>2. CASE ~(Cardinality(retained) <= MaxEntries)
  <2>1. left \in SUBSET retained /\ Cardinality(left) = MaxEntries
    BY <1>2 DEF Survivors
  <2> QED
    BY <2>1, CacheAssumption
<1> QED
  BY <1>1, <1>2

\* The entries of a cache after an insertion: the new one and old ones, and not
\* too many.
LEMMA InsertKeeps ==
  ASSUME NEW slot, NEW badge, Insert(slot, badge)
  PROVE  /\ \A s \in DOMAIN cache' :
              \/ s = slot /\ cache'[s] = [badge |-> badge, expiresAt |-> now + DefaultTTL]
              \/ s \in DOMAIN cache /\ cache'[s] = cache[s]
         /\ CapacityRespected'
<1> DEFINE entries == [s \in DOMAIN cache \cup {slot} |->
                         IF s = slot THEN [badge |-> badge, expiresAt |-> now + DefaultTTL]
                         ELSE cache[s]]
<1>1. PICK left \in Survivors(entries) : cache' = [s \in left |-> entries[s]]
  BY DEF Insert
<1>2. left \subseteq DOMAIN entries /\ Cardinality(left) <= MaxEntries
  BY SurvivorsBounded
<1>3. DOMAIN cache' = left
  BY <1>1
<1> QED
  BY <1>1, <1>2, <1>3 DEF CapacityRespected

-----------------------------------------------------------------------------
(* The type invariant.                                                     *)

\* The variables of the goroutines.
CallTypes ==
  /\ pc \in [Goroutines -> {"idle", "cache", "dns", "log", "insert", "dane",
                            "refresh", "store"}]
  /\ request \in [Goroutines -> Requests \cup ServerSlots \cup {Nothing}]
  /\ \A g \in Calls : request[g] \in Requests \cup {Nothing}
  /\ url \in [Goroutines -> Badges \cup {None}]
  /\ fetched \in [Goroutines -> BadgeStates \cup {None}]
  /\ readAt \in [Goroutines -> (0..MaxTime) \cup {None}]
  /\ answer \in Answers \cup {None}

CacheTypes ==
  /\ DOMAIN cache \subseteq Slots
  /\ \A s \in DOMAIN cache : /\ cache[s].badge \in BadgeStates
                             /\ cache[s].expiresAt \in 0..(MaxTime + DefaultTTL)

LogTypes ==
  /\ log \in [Badges -> LogStates]
  /\ ended \in [Badges -> [Roles -> [Certs -> (0..MaxTime) \cup {None}]]]
  /\ begun \in [Badges -> [Roles -> 0..MaxTime]]

LEMMA TypeParts ==
  TypeOK <=> /\ now \in 0..MaxTime /\ config \in Configs /\ pending \subseteq ServerSlots
             /\ CallTypes /\ CacheTypes /\ LogTypes
BY DEF TypeOK, CallTypes, CacheTypes, LogTypes

LEMMA ReturnTyped ==
  ASSUME CallTypes, NEW g \in Calls, NEW outcome \in Outcomes, Return(g, outcome)
  PROVE  CallTypes'
<1>1. answer' \in Answers
  BY DEF Return, Answers
<1> QED
  BY <1>1 DEF CallTypes, Return, Goroutines

LEMMA PolicyTyped ==
  ASSUME CallTypes, config \in Configs, NEW g \in Calls,
         NEW error \in {"DNSError", "TlogError"}, ApplyFailurePolicy(g, error)
  PROVE  CallTypes'
<1>1. config.policy \in {"FailClosed", "FailOpenWithCache", "FailOpen"}
  BY VerificationAssumption
<1>2. PICK outcome \in {error, "FailOpen", "FailOpenWithBadge"} : Return(g, outcome)
  BY <1>1 DEF ApplyFailurePolicy
<1> QED
  BY <1>2, ReturnTyped DEF Outcomes

\* What is inserted has the type of an entry.
LEMMA InsertTyped ==
  ASSUME CacheTypes, now \in 0..MaxTime, NEW slot \in Slots, NEW badge \in BadgeStates,
         Insert(slot, badge)
  PROVE  CacheTypes'
<1>1. \A s \in DOMAIN cache' :
        \/ s = slot /\ cache'[s] = [badge |-> badge, expiresAt |-> now + DefaultTTL]
        \/ s \in DOMAIN cache /\ cache'[s] = cache[s]
  BY InsertKeeps
<1>2. now + DefaultTTL \in 0..(MaxTime + DefaultTTL)
  BY CacheAssumption, VerificationAssumption
<1> QED
  BY <1>1, <1>2 DEF CacheTypes

LEMMA CurrentTyped ==
  ASSUME LogTypes, NEW id \in Badges
  PROVE  Current(id) \in BadgeStates
BY DEF LogTypes, Current, BadgeStates, LogStates

LEMMA RevokeTyped ==
  ASSUME LogTypes, now \in 0..MaxTime, NEW id \in Trusted, Revoke(id)
  PROVE  LogTypes'
<1> USE VerificationAssumption
<1>1. id \in Badges /\ log[id] \in LogStates
  BY DEF LogTypes
<1>2. [log[id] EXCEPT !.valid = FALSE] \in LogStates
  BY <1>1 DEF LogStates
<1>3. log' \in [Badges -> LogStates]
  BY <1>1, <1>2 DEF Revoke, LogTypes
<1>4. [role \in Roles |-> [ended[id][role] EXCEPT ![log[id].certs[role]] = now]]
        \in [Roles -> [Certs -> (0..MaxTime) \cup {None}]]
  <2>1. ASSUME NEW role \in Roles
        PROVE  [ended[id][role] EXCEPT ![log[id].certs[role]] = now]
                 \in [Certs -> (0..MaxTime) \cup {None}]
    <3>1. ended[id][role] \in [Certs -> (0..MaxTime) \cup {None}]
      BY <1>1 DEF LogTypes
    <3> QED
      BY <3>1
  <2> QED
    BY <2>1
<1>5. ended' \in [Badges -> [Roles -> [Certs -> (0..MaxTime) \cup {None}]]]
  BY <1>1, <1>4 DEF Revoke, LogTypes
<1> QED
  BY <1>3, <1>5 DEF Revoke, LogTypes

\* A renewal, one certificate given.
LEMMA RenewOne ==
  ASSUME LogTypes, NEW id \in Trusted, NEW role \in Roles, Renew(id, role)
  PROVE  \E c \in Certs :
           /\ log' = [log EXCEPT ![id] =
                [log[id] EXCEPT !.certs = [log[id].certs EXCEPT ![role] = c]]]
           /\ ended' = [ended EXCEPT ![id] =
                [ended[id] EXCEPT ![role] =
                   [ended[id][role] EXCEPT ![log[id].certs[role]] = now]]]
           /\ begun' = [begun EXCEPT ![id] = [begun[id] EXCEPT ![role] = now]]
<1>1. PICK c \in Renewals[role] :
        /\ log' = [log EXCEPT ![id].certs[role] = c]
        /\ ended' = [ended EXCEPT ![id][role][log[id].certs[role]] = now]
        /\ begun' = [begun EXCEPT ![id][role] = now]
  BY DEF Renew
<1>2. c \in Certs
  BY VerificationAssumption
<1> QED
  BY <1>1, <1>2

LEMMA RenewTyped ==
  ASSUME LogTypes, now \in 0..MaxTime, NEW id \in Trusted, NEW role \in Roles,
         Renew(id, role)
  PROVE  LogTypes'
<1> USE VerificationAssumption
<1>1. /\ id \in Badges /\ log[id] \in LogStates /\ log[id].certs \in [Roles -> Certs]
      /\ ended[id] \in [Roles -> [Certs -> (0..MaxTime) \cup {None}]]
      /\ begun[id] \in [Roles -> 0..MaxTime]
  BY DEF LogTypes, LogStates
<1>2. PICK c \in Certs :
        /\ log' = [log EXCEPT ![id] =
             [log[id] EXCEPT !.certs = [log[id].certs EXCEPT ![role] = c]]]
        /\ ended' = [ended EXCEPT ![id] =
             [ended[id] EXCEPT ![role] =
                [ended[id][role] EXCEPT ![log[id].certs[role]] = now]]]
        /\ begun' = [begun EXCEPT ![id] = [begun[id] EXCEPT ![role] = now]]
  BY RenewOne
<1>3. [log[id] EXCEPT !.certs = [log[id].certs EXCEPT ![role] = c]] \in LogStates
  BY <1>1 DEF LogStates
<1>4. log' \in [Badges -> LogStates]
  BY <1>1, <1>2, <1>3 DEF LogTypes
<1>5. [ended[id][role] EXCEPT ![log[id].certs[role]] = now]
        \in [Certs -> (0..MaxTime) \cup {None}]
  BY <1>1
<1>6. ended' \in [Badges -> [Roles -> [Certs -> (0..MaxTime) \cup {None}]]]
  BY <1>1, <1>2, <1>5 DEF LogTypes
<1>7. begun' \in [Badges -> [Roles -> 0..MaxTime]]
  BY <1>1, <1>2 DEF LogTypes
<1> QED
  BY <1>4, <1>6, <1>7 DEF LogTypes

LEMMA BadgeTypeStep ==
  ASSUME BadgeInv, Step
  PROVE  TypeOK'
<1>0. /\ now \in 0..MaxTime /\ config \in Configs /\ pending \subseteq ServerSlots
      /\ CallTypes /\ CacheTypes /\ LogTypes
  BY TypeParts DEF BadgeInv
<1> USE <1>0
<1>1. CASE Tick
  BY <1>1, TypeParts, VerificationAssumption
     DEF Tick, TypeOK, CallTypes, CacheTypes, LogTypes, logVars, calls
<1>2. ASSUME NEW g \in Calls, NEW r \in Requests, Begin(g, r) PROVE TypeOK'
  <2>1. CallTypes'
    BY <1>2 DEF Begin, Goto, CallTypes, Goroutines
  <2> QED
    BY <1>2, <2>1 DEF Begin, TypeOK, CallTypes, CacheTypes, LogTypes, logVars
<1>3. ASSUME NEW g \in Calls, CheckCache(g) PROVE TypeOK'
  <2>1. CallTypes'
    <3>1. CASE \E outcome \in Outcomes : Return(g, outcome)
      BY <3>1, ReturnTyped
    <3>2. CASE Goto(g, "dns") /\ UNCHANGED <<request, url, fetched, readAt>>
      BY <3>2 DEF Goto, CallTypes, Goroutines
    <3> QED
      BY <1>3, <3>1, <3>2, JudgeTyped DEF CheckCache, Outcomes
  <2> QED
    BY <1>3, <2>1 DEF CheckCache, TypeOK, CallTypes, CacheTypes, LogTypes, logVars
<1>4. ASSUME NEW g \in Calls, Resolve(g) PROVE TypeOK'
  <2>1. CallTypes'
    <3>1. \/ ApplyFailurePolicy(g, "DNSError")
          \/ Return(g, "NotAnsAgent") \/ Return(g, "URLValidationError")
          \/ \E b \in Trusted : /\ url' = [url EXCEPT ![g] = b] /\ Goto(g, "log")
                               /\ UNCHANGED <<request, fetched, readAt>>
      BY <1>4 DEF Resolve, Validate
    <3>2. ASSUME NEW b \in Trusted, url' = [url EXCEPT ![g] = b], Goto(g, "log"),
                 UNCHANGED <<request, fetched, readAt>>
          PROVE  CallTypes'
      BY <3>2, VerificationAssumption DEF Goto, CallTypes, Goroutines
    <3> QED
      BY <3>1, <3>2, ReturnTyped, PolicyTyped DEF Outcomes
  <2> QED
    BY <1>4, <2>1 DEF Resolve, TypeOK, CallTypes, CacheTypes, LogTypes, logVars
<1>5. ASSUME NEW g \in Calls, FetchBadge(g) PROVE TypeOK'
  <2>1. Current(url[g]) \in BadgeStates
    BY <1>5, CurrentTyped, VerificationAssumption DEF BadgeInv, CallsKnow, CallKnows, FetchBadge
  <2>2. CallTypes'
    <3>1. CASE ApplyFailurePolicy(g, "TlogError")
      BY <3>1, PolicyTyped
    <3>2. CASE /\ fetched' = [fetched EXCEPT ![g] = Current(url[g])]
               /\ readAt' = [readAt EXCEPT ![g] = now]
               /\ url' = [url EXCEPT ![g] = None]
               /\ Goto(g, "insert")
               /\ UNCHANGED <<request>>
      BY <2>1, <3>2 DEF Goto, CallTypes, Goroutines
    <3> QED
      BY <1>5, <3>1, <3>2 DEF FetchBadge
  <2> QED
    BY <1>5, <2>2 DEF FetchBadge, TypeOK, CallTypes, CacheTypes, LogTypes, logVars
<1>6. ASSUME NEW g \in Calls, InsertFetched(g) PROVE TypeOK'
  <2>1. fetched[g] \in BadgeStates /\ request[g] \in Requests
    BY <1>6 DEF BadgeInv, CallsKnow, CallKnows, InsertFetched, Holds
  <2>2. CacheTypes'
    <3>1. CASE Insert(SlotOf(request[g]), fetched[g])
      BY <2>1, <3>1, InsertTyped, RequestFields
    <3>2. CASE UNCHANGED cache
      BY <3>2 DEF CacheTypes
    <3> QED
      BY <1>6, <3>1, <3>2 DEF InsertFetched
  <2>3. CallTypes'
    <3>1. CASE \E outcome \in Outcomes : Return(g, outcome)
      BY <3>1, ReturnTyped
    <3>2. CASE Goto(g, "dane") /\ UNCHANGED <<request, url, fetched, readAt>>
      BY <3>2 DEF Goto, CallTypes, Goroutines
    <3> QED
      BY <1>6, <3>1, <3>2, JudgeTyped DEF InsertFetched, Outcomes
  <2> QED
    BY <1>6, <2>2, <2>3 DEF InsertFetched, TypeOK, CacheTypes, CallTypes, LogTypes, logVars
<1>7. ASSUME NEW g \in Calls, VerifyDANE(g) PROVE TypeOK'
  <2>1. PICK outcome \in {"DANERejection", "Verified"} : Return(g, outcome)
    BY <1>7 DEF VerifyDANE
  <2>2. CallTypes'
    BY <2>1, ReturnTyped DEF Outcomes
  <2> QED
    BY <1>7, <2>2 DEF VerifyDANE, TypeOK, CallTypes, CacheTypes, LogTypes, logVars
<1>8. CASE RefreshExpiring
  <2>1. Expiring \subseteq ServerSlots
    BY DEF Expiring, CacheTypes, Slots, ClientSlots
  <2>2. CallTypes'
    BY <1>8 DEF RefreshExpiring, Goto, CallTypes, Goroutines
  <2> QED
    BY <1>8, <2>1, <2>2 DEF RefreshExpiring, TypeOK, CallTypes, CacheTypes, LogTypes, logVars
<1>9. CASE RefreshFn
  <2>1. PICK slot \in pending, b \in Trusted :
          /\ request' = [request EXCEPT ![Refresher] = slot]
          /\ fetched' = [fetched EXCEPT ![Refresher] = Current(b)]
    BY <1>9 DEF RefreshFn, Validate
  <2>2. Current(b) \in BadgeStates
    BY CurrentTyped, VerificationAssumption
  <2>3. CallTypes'
    BY <1>9, <2>1, <2>2, VerificationAssumption DEF RefreshFn, Goto, CallTypes, Goroutines
  <2> QED
    BY <1>9, <2>3 DEF RefreshFn, TypeOK, CallTypes, CacheTypes, LogTypes, logVars
<1>10. CASE RefreshFnFails
  <2>1. CallTypes' /\ pending' \subseteq ServerSlots
    BY <1>10 DEF RefreshFnFails, Refreshed, Goto, CallTypes, Goroutines
  <2> QED
    BY <1>10, <2>1 DEF RefreshFnFails, TypeOK, CallTypes, CacheTypes, LogTypes, logVars
<1>11. CASE RefreshInsert
  <2>1. fetched[Refresher] \in BadgeStates /\ request[Refresher] \in Slots
    BY <1>11 DEF BadgeInv, RefresherKnows, RefreshInsert, Holds, Slots
  <2>2. CacheTypes'
    BY <1>11, <2>1, InsertTyped DEF RefreshInsert
  <2>3. CallTypes' /\ pending' \subseteq ServerSlots
    BY <1>11, VerificationAssumption DEF RefreshInsert, Refreshed, Goto, CallTypes, Goroutines
  <2> QED
    BY <1>11, <2>2, <2>3 DEF RefreshInsert, TypeOK, CacheTypes, CallTypes, LogTypes, logVars
<1>12. CASE ClearCache
  <2>1. CacheTypes'
    BY <1>12 DEF ClearCache, Clear, CacheTypes
  <2> QED
    BY <1>12, <2>1 DEF ClearCache, TypeOK, CacheTypes, CallTypes, LogTypes, logVars, calls
<1>13. ASSUME NEW id \in Trusted, Revoke(id) PROVE TypeOK'
  <2>1. LogTypes'
    BY <1>13, RevokeTyped
  <2> QED
    BY <1>13, <2>1 DEF Revoke, TypeOK, LogTypes, CallTypes, CacheTypes, calls
<1>14. ASSUME NEW id \in Trusted, NEW role \in Roles, Renew(id, role) PROVE TypeOK'
  <2>1. LogTypes'
    BY <1>14, RenewTyped
  <2> QED
    BY <1>14, <2>1 DEF Renew, TypeOK, LogTypes, CallTypes, CacheTypes, calls
<1>15. ASSUME NEW g \in Calls, RefuseUnnamed(g) PROVE TypeOK'
  <2>1. answer' \in Answers
    BY <1>15 DEF RefuseUnnamed, Answers, Outcomes
  <2>2. CallTypes' /\ CacheTypes' /\ LogTypes'
    BY <1>15, <2>1 DEF RefuseUnnamed, CallTypes, CacheTypes, LogTypes, logVars, calls
  <2> QED
    BY <1>15, <2>1, <2>2 DEF RefuseUnnamed, TypeOK, CallTypes, CacheTypes, LogTypes
<1> QED
  BY <1>1, <1>2, <1>3, <1>4, <1>5, <1>6, <1>7, <1>8, <1>9, <1>10, <1>11, <1>12, <1>13, <1>14,
     <1>15
     DEF Step

-----------------------------------------------------------------------------
(* What is known of the log.                                               *)

\* The badge as the log has it is true now.
LEMMA CurrentTrue ==
  ASSUME LogTypes, now \in 0..MaxTime, NEW id \in Trusted
  PROVE  TrueAt(log, ended, begun, Current(id), now)
BY DEF TrueAt, Current

\* What was true at a time was also true at an earlier one, as far as we know.
LEMMA TrueEarlier ==
  ASSUME LogTypes, NEW badge \in BadgeStates, NEW t \in Int, NEW u \in Int, u <= t,
         TrueAt(log, ended, begun, badge, t)
  PROVE  TrueAt(log, ended, begun, badge, u)
<1>1. badge.id \in Badges /\ badge.certs \in [Roles -> Certs]
  BY DEF BadgeStates
<1>2. ASSUME NEW role \in Roles
      PROVE  /\ ended[badge.id][role][badge.certs[role]] \in (0..MaxTime) \cup {None}
             /\ begun[badge.id][role] \in Int
  BY <1>1 DEF LogTypes
<1> QED
  BY <1>1, <1>2, VerificationAssumption DEF TrueAt

\* The log moves on, and what was true then stays true of that time.
LEMMA LogMoves ==
  ASSUME LogTypes, now \in 0..MaxTime, NEW badge \in BadgeStates, NEW t \in Int, t <= now,
         TrueAt(log, ended, begun, badge, t),
         \/ UNCHANGED logVars
         \/ \E id \in Trusted : Revoke(id) \/ \E role \in Roles : Renew(id, role)
  PROVE  TrueAt(log', ended', begun', badge, t)
<1> USE VerificationAssumption
<1>0. badge.id \in Badges /\ badge.certs \in [Roles -> Certs]
  BY DEF BadgeStates
<1>1. CASE UNCHANGED logVars
  BY <1>1 DEF logVars
<1>2. ASSUME NEW id \in Trusted, Revoke(id) PROVE TrueAt(log', ended', begun', badge, t)
  <2>1. /\ log' = [log EXCEPT ![id] = [log[id] EXCEPT !.valid = FALSE]]
        /\ ended' = [ended EXCEPT ![id] =
             [role \in Roles |-> [ended[id][role] EXCEPT ![log[id].certs[role]] = now]]]
        /\ begun' = begun
    BY <1>2 DEF Revoke
  <2>2. id \in Badges /\ log[id] \in LogStates
    BY DEF LogTypes
  <2>3. CASE badge.id # id
    <3>1. log'[badge.id] = log[badge.id] /\ ended'[badge.id] = ended[badge.id]
      BY <1>0, <2>1, <2>3 DEF LogTypes
    <3> QED
      BY <2>1, <3>1 DEF TrueAt
  <2>4. CASE badge.id = id
    <3>1. ASSUME NEW role \in Roles
          PROVE  /\ log'[id].certs[role] = log[id].certs[role]
                 /\ ended'[id][role][badge.certs[role]] =
                      IF badge.certs[role] = log[id].certs[role] THEN now
                      ELSE ended[id][role][badge.certs[role]]
      <4>1. ended[id][role] \in [Certs -> (0..MaxTime) \cup {None}]
        BY <2>2 DEF LogTypes
      <4>2. log'[id].certs = log[id].certs
        BY <2>1, <2>2 DEF LogTypes, LogStates
      <4>3. ended'[id][role] = [ended[id][role] EXCEPT ![log[id].certs[role]] = now]
        BY <2>1, <2>2 DEF LogTypes
      <4> QED
        BY <1>0, <4>1, <4>2, <4>3
    <3> QED
      BY <2>1, <2>4, <3>1 DEF TrueAt
  <2> QED
    BY <2>3, <2>4
<1>3. ASSUME NEW id \in Trusted, NEW role \in Roles, Renew(id, role)
      PROVE  TrueAt(log', ended', begun', badge, t)
  <2>1. PICK c \in Certs :
          /\ log' = [log EXCEPT ![id] =
               [log[id] EXCEPT !.certs = [log[id].certs EXCEPT ![role] = c]]]
          /\ ended' = [ended EXCEPT ![id] =
               [ended[id] EXCEPT ![role] =
                  [ended[id][role] EXCEPT ![log[id].certs[role]] = now]]]
          /\ begun' = [begun EXCEPT ![id] = [begun[id] EXCEPT ![role] = now]]
    BY <1>3, RenewOne
  <2>2. /\ id \in Badges /\ log[id] \in LogStates /\ log[id].certs \in [Roles -> Certs]
        /\ ended[id] \in [Roles -> [Certs -> (0..MaxTime) \cup {None}]]
        /\ begun[id] \in [Roles -> 0..MaxTime]
    BY DEF LogTypes, LogStates
  <2>3. CASE badge.id # id
    <3>1. /\ log'[badge.id] = log[badge.id] /\ ended'[badge.id] = ended[badge.id]
          /\ begun'[badge.id] = begun[badge.id]
      BY <1>0, <2>1, <2>3 DEF LogTypes
    <3> QED
      BY <3>1 DEF TrueAt
  <2>4. CASE badge.id = id
    <3>1. /\ log'[id].valid = log[id].valid
          /\ log'[id].certs = [log[id].certs EXCEPT ![role] = c]
          /\ ended'[id] = [ended[id] EXCEPT ![role] =
                             [ended[id][role] EXCEPT ![log[id].certs[role]] = now]]
          /\ begun'[id] = [begun[id] EXCEPT ![role] = now]
      BY <2>1, <2>2 DEF LogTypes, LogStates
    <3>2. ASSUME NEW other \in Roles \ {role}
          PROVE  /\ log'[id].certs[other] = log[id].certs[other]
                 /\ ended'[id][other] = ended[id][other]
                 /\ begun'[id][other] = begun[id][other]
      BY <2>2, <3>1
    <3>3. /\ ended'[id][role][badge.certs[role]] =
               IF badge.certs[role] = log[id].certs[role] THEN now
               ELSE ended[id][role][badge.certs[role]]
          /\ begun'[id][role] = now
      BY <1>0, <2>2, <3>1
    <3> QED
      BY <2>4, <3>1, <3>2, <3>3 DEF TrueAt
  <2> QED
    BY <2>3, <2>4
<1> QED
  BY <1>1, <1>2, <1>3

-----------------------------------------------------------------------------
(* What is known is kept.                                                  *)

\* A goroutine that a step leaves alone knows what it knew.
LEMMA HoldsFrame ==
  ASSUME NEW g \in Goroutines, Holds(g), UNCHANGED <<now, logVars>>,
         fetched'[g] = fetched[g], readAt'[g] = readAt[g], request'[g] = request[g]
  PROVE  Holds(g)'
BY DEF Holds, logVars

LEMMA CallFrame ==
  ASSUME NEW g \in Calls, CallKnows(g), UNCHANGED <<now, logVars>>,
         pc'[g] = pc[g], request'[g] = request[g], url'[g] = url[g],
         fetched'[g] = fetched[g], readAt'[g] = readAt[g]
  PROVE  CallKnows(g)'
BY HoldsFrame DEF CallKnows, Goroutines

\* A badge that is read from the log is held.
LEMMA HoldsCurrent ==
  ASSUME TypeOK, NEW g \in Goroutines, NEW id \in Trusted, UNCHANGED <<now, logVars>>,
         fetched'[g] = Current(id), readAt'[g] = now, id \in Answered(request'[g])
  PROVE  Holds(g)'
<1>1. LogTypes /\ now \in 0..MaxTime /\ id \in Badges
  BY TypeParts, VerificationAssumption
<1>2. Current(id) \in BadgeStates /\ Current(id).id = id
  BY <1>1, CurrentTyped DEF Current
<1>3. TrueAt(log, ended, begun, Current(id), now)
  BY <1>1, CurrentTrue
<1> QED
  BY <1>1, <1>2, <1>3, VerificationAssumption DEF Holds, logVars

\* Time passes.
LEMMA HoldsTick ==
  ASSUME TypeOK, NEW g \in Goroutines, Holds(g), Tick
  PROVE  Holds(g)'
<1>1. readAt[g] # None /\ now \in Int /\ readAt[g] \in Int
  BY VerificationAssumption DEF Holds, TypeOK
<1>2. now' = now + 1 /\ now < readAt[g] + MaxLag /\ UNCHANGED <<logVars, calls>>
  BY <1>1 DEF Tick
<1> QED
  BY <1>1, <1>2, VerificationAssumption DEF Holds, logVars, calls

\* The log moves on.
LEMMA HoldsLogMoves ==
  ASSUME TypeOK, NEW g \in Goroutines, Holds(g),
         \E id \in Trusted : Revoke(id) \/ \E role \in Roles : Renew(id, role)
  PROVE  Holds(g)'
<1>1. UNCHANGED <<now, calls>>
  BY DEF Revoke, Renew
<1>2. LogTypes /\ now \in 0..MaxTime /\ fetched[g] \in BadgeStates /\ readAt[g] \in Int
      /\ readAt[g] <= now /\ TrueAt(log, ended, begun, fetched[g], readAt[g])
  BY TypeParts DEF Holds
<1>3. TrueAt(log', ended', begun', fetched[g], readAt[g])
  BY <1>2, LogMoves
<1> QED
  BY <1>1, <1>3 DEF Holds, calls

\* After a return nothing is to be known.
LEMMA ReturnKnows ==
  ASSUME TypeOK, CallsKnow, NEW g \in Calls, NEW outcome, Return(g, outcome),
         UNCHANGED <<now, logVars>>
  PROVE  CallsKnow'
<1>1. CallKnows(g)'
  BY DEF Return, CallKnows, TypeOK, Goroutines
<1>2. ASSUME NEW h \in Calls \ {g} PROVE CallKnows(h)'
  <2>1. /\ pc'[h] = pc[h] /\ request'[h] = request[h] /\ url'[h] = url[h]
        /\ fetched'[h] = fetched[h] /\ readAt'[h] = readAt[h]
    BY DEF Return, TypeOK, Goroutines
  <2> QED
    BY <2>1, CallFrame DEF CallsKnow
<1> QED
  BY <1>1, <1>2 DEF CallsKnow

LEMMA CallsStep ==
  ASSUME BadgeInv, Step
  PROVE  CallsKnow'
<1>0. TypeOK /\ CallsKnow
  BY DEF BadgeInv
<1> DEFINE Others(g) == \A h \in Calls \ {g} :
             /\ pc'[h] = pc[h] /\ request'[h] = request[h] /\ url'[h] = url[h]
             /\ fetched'[h] = fetched[h] /\ readAt'[h] = readAt[h]
<1>1. ASSUME NEW g \in Goroutines, Others(g), UNCHANGED <<now, logVars>>,
             g \in Calls => CallKnows(g)'
      PROVE  CallsKnow'
  BY <1>0, <1>1, CallFrame DEF CallsKnow
<1>2. CASE Tick
  <2>1. \A g \in Calls : Holds(g) => Holds(g)'
    BY <1>0, <1>2, HoldsTick DEF Goroutines
  <2> QED
    BY <1>0, <1>2, <2>1 DEF CallsKnow, CallKnows, Tick, calls
<1>3. ASSUME NEW g \in Calls, NEW r \in Requests, Begin(g, r) PROVE CallsKnow'
  <2>1. Others(g) /\ UNCHANGED <<now, logVars>> /\ pc'[g] = "cache" /\ request'[g] = r
    BY <1>0, <1>3 DEF Begin, Goto, TypeOK, Goroutines
  <2>2. CallKnows(g)'
    BY <2>1 DEF CallKnows
  <2> HIDE DEF Others
  <2> QED
    BY <1>1, <2>1, <2>2 DEF Goroutines
<1>4. ASSUME NEW g \in Calls, CheckCache(g) PROVE CallsKnow'
  <2>1. CASE \E outcome : Return(g, outcome)
    BY <1>0, <1>4, <2>1, ReturnKnows DEF CheckCache
  <2>2. CASE Goto(g, "dns") /\ UNCHANGED <<request, url, fetched, readAt>>
    <3>1. Others(g) /\ UNCHANGED <<now, logVars>> /\ pc'[g] = "dns" /\ pc[g] = "cache"
      BY <1>0, <1>4, <2>2 DEF CheckCache, Goto, TypeOK, Goroutines
    <3>2. CallKnows(g)'
      BY <1>0, <2>2, <3>1 DEF CallsKnow, CallKnows
    <3> HIDE DEF Others
    <3> QED
      BY <1>1, <3>1, <3>2 DEF Goroutines
  <2> QED
    BY <1>4, <2>1, <2>2 DEF CheckCache
<1>5. ASSUME NEW g \in Calls, Resolve(g) PROVE CallsKnow'
  <2>1. UNCHANGED <<now, logVars>> /\ pc[g] = "dns"
    BY <1>5 DEF Resolve
  <2>2. CASE \E outcome : Return(g, outcome)
    BY <1>0, <2>1, <2>2, ReturnKnows
  <2>3. ASSUME NEW b \in Answered(request[g]) \cap Trusted,
               url' = [url EXCEPT ![g] = b], Goto(g, "log"),
               UNCHANGED <<request, fetched, readAt>>
        PROVE  CallsKnow'
    <3>1. Others(g) /\ pc'[g] = "log" /\ url'[g] = b /\ request'[g] = request[g]
      BY <1>0, <2>3 DEF Goto, TypeOK, Goroutines
    <3>2. CallKnows(g)'
      BY <1>0, <2>1, <3>1 DEF CallsKnow, CallKnows
    <3> HIDE DEF Others
    <3> QED
      BY <1>1, <2>1, <3>1, <3>2 DEF Goroutines
  <2>4. \/ \E outcome : Return(g, outcome)
        \/ \E b \in Answered(request[g]) \cap Trusted :
             /\ url' = [url EXCEPT ![g] = b] /\ Goto(g, "log")
             /\ UNCHANGED <<request, fetched, readAt>>
    <3>1. PICK answers \in DnsAnswers[request[g].host] :
            LET found == LookupAnsBadge(answers)
                chosen == Chosen(request[g], found.records)
            IN  \/ found.error # None /\ ApplyFailurePolicy(g, "DNSError")
                \/ found.error = None /\ chosen = {} /\ Return(g, "NotAnsAgent")
                \/ \E r \in chosen :
                     \/ ~Validate(r, Trusted) /\ Return(g, "URLValidationError")
                     \/ /\ Validate(r, Trusted)
                        /\ url' = [url EXCEPT ![g] = r.badge]
                        /\ Goto(g, "log")
                        /\ UNCHANGED <<request, fetched, readAt>>
      BY <1>5 DEF Resolve
    <3>2. ASSUME NEW r \in Chosen(request[g], LookupAnsBadge(answers).records)
          PROVE  r.badge \in Answered(request[g])
      BY <3>2 DEF Answered
    <3> QED
      BY <3>1, <3>2 DEF ApplyFailurePolicy, Validate
  <2> QED
    BY <2>2, <2>3, <2>4
<1>6. ASSUME NEW g \in Calls, FetchBadge(g) PROVE CallsKnow'
  <2>1. UNCHANGED <<now, logVars>> /\ pc[g] = "log"
        /\ url[g] \in Answered(request[g]) \cap Trusted
    BY <1>0, <1>6 DEF FetchBadge, CallsKnow, CallKnows
  <2>2. CASE \E outcome : Return(g, outcome)
    BY <1>0, <2>1, <2>2, ReturnKnows
  <2>3. CASE /\ fetched' = [fetched EXCEPT ![g] = Current(url[g])]
             /\ readAt' = [readAt EXCEPT ![g] = now]
             /\ url' = [url EXCEPT ![g] = None]
             /\ Goto(g, "insert")
             /\ UNCHANGED <<request>>
    <3>1. /\ Others(g) /\ pc'[g] = "insert" /\ request'[g] = request[g]
          /\ fetched'[g] = Current(url[g]) /\ readAt'[g] = now
      BY <1>0, <2>3 DEF Goto, TypeOK, Goroutines
    <3>2. Holds(g)'
      BY <1>0, <2>1, <3>1, HoldsCurrent DEF Goroutines
    <3>3. CallKnows(g)'
      BY <1>0, <2>1, <3>1, <3>2 DEF CallsKnow, CallKnows
    <3> HIDE DEF Others
    <3> QED
      BY <1>1, <2>1, <3>1, <3>3 DEF Goroutines
  <2> QED
    BY <1>6, <2>2, <2>3 DEF FetchBadge, ApplyFailurePolicy
<1>7. ASSUME NEW g \in Calls, InsertFetched(g) PROVE CallsKnow'
  <2>1. UNCHANGED <<now, logVars>> /\ pc[g] = "insert"
    BY <1>7 DEF InsertFetched
  <2>2. CASE \E outcome : Return(g, outcome)
    BY <1>0, <2>1, <2>2, ReturnKnows
  <2>3. CASE /\ Judge(request[g], fetched[g]) = "Verified" /\ Goto(g, "dane")
             /\ UNCHANGED <<request, url, fetched, readAt>>
    <3>1. Others(g) /\ pc'[g] = "dane"
      BY <1>0, <2>3 DEF Goto, TypeOK, Goroutines
    <3>2. Holds(g)'
      BY <1>0, <2>1, <2>3, HoldsFrame DEF CallsKnow, CallKnows, Goroutines
    <3>3. CallKnows(g)'
      BY <1>0, <2>1, <2>3, <3>1, <3>2 DEF CallsKnow, CallKnows
    <3> HIDE DEF Others
    <3> QED
      BY <1>1, <2>1, <3>1, <3>3 DEF Goroutines
  <2> QED
    BY <1>7, <2>2, <2>3 DEF InsertFetched
<1>8. ASSUME NEW g \in Calls, VerifyDANE(g) PROVE CallsKnow'
  BY <1>0, <1>8, ReturnKnows DEF VerifyDANE
<1>9. CASE RefreshExpiring \/ RefreshFn \/ RefreshFnFails \/ RefreshInsert
  <2>1. Others(Refresher) /\ UNCHANGED <<now, logVars>>
    BY <1>0, <1>9, VerificationAssumption
       DEF RefreshExpiring, RefreshFn, RefreshFnFails, RefreshInsert, Refreshed, Goto,
           TypeOK, Goroutines
  <2> HIDE DEF Others
  <2> QED
    BY <1>1, <2>1, VerificationAssumption DEF Goroutines
<1>10. CASE ClearCache
  <2>1. Others(Refresher) /\ UNCHANGED <<now, logVars>>
    BY <1>10 DEF ClearCache, calls
  <2> HIDE DEF Others
  <2> QED
    BY <1>1, <2>1, VerificationAssumption DEF Goroutines
<1>11. CASE \E id \in Trusted : Revoke(id) \/ \E role \in Roles : Renew(id, role)
  <2>1. \A g \in Calls : Holds(g) => Holds(g)'
    BY <1>0, <1>11, HoldsLogMoves DEF Goroutines
  <2>2. UNCHANGED calls
    BY <1>11 DEF Revoke, Renew
  <2> QED
    BY <1>0, <2>1, <2>2 DEF CallsKnow, CallKnows, calls
<1>12. ASSUME NEW g \in Calls, RefuseUnnamed(g) PROVE CallsKnow'
  <2>1. UNCHANGED calls /\ UNCHANGED <<now, logVars>>
    BY <1>12 DEF RefuseUnnamed
  <2> QED
    BY <1>0, <2>1, CallFrame DEF CallsKnow, calls
<1> QED
  BY <1>2, <1>3, <1>4, <1>5, <1>6, <1>7, <1>8, <1>9, <1>10, <1>11, <1>12 DEF Step

LEMMA RefresherStep ==
  ASSUME BadgeInv, Step
  PROVE  RefresherKnows'
<1>0. TypeOK /\ RefresherKnows /\ Refresher \in Goroutines /\ Refresher \notin Calls
  BY VerificationAssumption DEF BadgeInv, Goroutines
<1>1. ASSUME pc'[Refresher] = pc[Refresher], request'[Refresher] = request[Refresher],
             Holds(Refresher) => Holds(Refresher)'
      PROVE  RefresherKnows'
  BY <1>0, <1>1 DEF RefresherKnows
<1>2. CASE Tick
  BY <1>0, <1>1, <1>2, HoldsTick DEF Tick, calls
<1> DEFINE Same == /\ UNCHANGED <<now, logVars>>
                   /\ pc'[Refresher] = pc[Refresher]
                   /\ request'[Refresher] = request[Refresher]
                   /\ fetched'[Refresher] = fetched[Refresher]
                   /\ readAt'[Refresher] = readAt[Refresher]
<1>3. ASSUME Same PROVE RefresherKnows'
  BY <1>0, <1>1, <1>3, HoldsFrame
<1>4. ASSUME NEW g \in Calls, NEW r \in Requests, Begin(g, r) PROVE RefresherKnows'
  <2>1. Same
    BY <1>0, <1>4 DEF Begin, Goto, TypeOK
  <2> QED
    BY <1>3, <2>1
<1>5. ASSUME NEW g \in Calls, CheckCache(g) PROVE RefresherKnows'
  <2>1. Same
    BY <1>0, <1>5 DEF CheckCache, Return, Goto, TypeOK
  <2> QED
    BY <1>3, <2>1
<1>6. ASSUME NEW g \in Calls, Resolve(g) PROVE RefresherKnows'
  <2>1. Same
    BY <1>0, <1>6 DEF Resolve, ApplyFailurePolicy, Return, Goto, TypeOK
  <2> QED
    BY <1>3, <2>1
<1>7. ASSUME NEW g \in Calls, FetchBadge(g) PROVE RefresherKnows'
  <2>1. Same
    BY <1>0, <1>7 DEF FetchBadge, ApplyFailurePolicy, Return, Goto, TypeOK
  <2> QED
    BY <1>3, <2>1
<1>8. ASSUME NEW g \in Calls, InsertFetched(g) \/ VerifyDANE(g) PROVE RefresherKnows'
  <2>1. Same
    BY <1>0, <1>8 DEF InsertFetched, VerifyDANE, Return, Goto, TypeOK
  <2> QED
    BY <1>3, <2>1
<1>9. CASE RefreshExpiring
  BY <1>0, <1>9 DEF RefreshExpiring, Goto, RefresherKnows, TypeOK
<1>10. CASE RefreshFn
  <2>1. PICK slot \in pending : \E answers \in DnsAnswers[slot.host] :
          \E r \in Preferred(LookupAnsBadge(answers).records) :
            /\ Validate(r, Trusted)
            /\ request' = [request EXCEPT ![Refresher] = slot]
            /\ fetched' = [fetched EXCEPT ![Refresher] = Current(r.badge)]
            /\ readAt' = [readAt EXCEPT ![Refresher] = now]
            /\ Goto(Refresher, "store")
    BY <1>10 DEF RefreshFn
  <2>2. PICK answers \in DnsAnswers[slot.host] :
          \E r \in Preferred(LookupAnsBadge(answers).records) :
            /\ Validate(r, Trusted)
            /\ request' = [request EXCEPT ![Refresher] = slot]
            /\ fetched' = [fetched EXCEPT ![Refresher] = Current(r.badge)]
            /\ readAt' = [readAt EXCEPT ![Refresher] = now]
            /\ Goto(Refresher, "store")
    BY <2>1
  <2>3. PICK r \in Preferred(LookupAnsBadge(answers).records) :
            /\ Validate(r, Trusted)
            /\ request' = [request EXCEPT ![Refresher] = slot]
            /\ fetched' = [fetched EXCEPT ![Refresher] = Current(r.badge)]
            /\ readAt' = [readAt EXCEPT ![Refresher] = now]
            /\ Goto(Refresher, "store")
    BY <2>2
  <2>4. slot \in ServerSlots /\ slot.role = "server"
    BY <1>0 DEF TypeOK, ServerSlots
  <2>5. r.badge \in Answered(slot) /\ r.badge \in Trusted
    BY <2>3, <2>4 DEF Answered, Chosen, Validate
  <2>6. /\ UNCHANGED <<now, logVars>> /\ pc'[Refresher] = "store"
        /\ request'[Refresher] = slot /\ fetched'[Refresher] = Current(r.badge)
        /\ readAt'[Refresher] = now
    BY <1>0, <1>10, <2>3 DEF RefreshFn, Goto, TypeOK
  <2>7. Holds(Refresher)'
    BY <1>0, <2>5, <2>6, HoldsCurrent
  <2> QED
    BY <2>4, <2>6, <2>7 DEF RefresherKnows
<1>11. CASE RefreshFnFails \/ RefreshInsert
  <2>1. pc'[Refresher] \in {"idle", "refresh"}
    BY <1>0, <1>11 DEF RefreshFnFails, RefreshInsert, Refreshed, Goto, TypeOK
  <2> QED
    BY <2>1 DEF RefresherKnows
<1>12. CASE ClearCache
  BY <1>0, <1>1, <1>12, HoldsFrame DEF ClearCache, calls
<1>13. CASE \E id \in Trusted : Revoke(id) \/ \E role \in Roles : Renew(id, role)
  <2>1. UNCHANGED calls
    BY <1>13 DEF Revoke, Renew
  <2> QED
    BY <1>0, <1>1, <1>13, <2>1, HoldsLogMoves DEF calls
<1>14. ASSUME NEW g \in Calls, RefuseUnnamed(g) PROVE RefresherKnows'
  <2>1. Same
    BY <1>14 DEF RefuseUnnamed, calls
  <2> QED
    BY <1>3, <2>1
<1> QED
  BY <1>2, <1>4, <1>5, <1>6, <1>7, <1>8, <1>9, <1>10, <1>11, <1>12, <1>13, <1>14 DEF Step

\* A badge that was read in time may be cached.
LEMMA InsertKnows ==
  ASSUME TypeOK, CacheKnows, NEW g \in Goroutines, Holds(g), NEW slot,
         Answered(slot) = Answered(request[g]), Insert(slot, fetched[g]),
         UNCHANGED <<now, logVars>>
  PROVE  CacheKnows'
<1> USE CacheAssumption, VerificationAssumption
<1>1. \A s \in DOMAIN cache' :
        \/ s = slot /\ cache'[s] = [badge |-> fetched[g], expiresAt |-> now + DefaultTTL]
        \/ s \in DOMAIN cache /\ cache'[s] = cache[s]
  BY InsertKeeps
<1>2. LogTypes /\ now \in Int /\ readAt[g] \in Int
  BY TypeParts DEF Holds
<1>3. TrueAt(log, ended, begun, fetched[g], now + DefaultTTL - DefaultTTL - MaxLag)
  BY <1>2, TrueEarlier DEF Holds
<1>4. now' = now /\ log' = log /\ ended' = ended /\ begun' = begun
  BY DEF logVars
<1>5. ASSUME NEW s \in DOMAIN cache'
      PROVE  /\ cache'[s].expiresAt <= now + DefaultTTL
             /\ cache'[s].badge.id \in Answered(s)
             /\ TrueAt(log, ended, begun, cache'[s].badge,
                       cache'[s].expiresAt - DefaultTTL - MaxLag)
  <2>1. CASE s = slot /\ cache'[s] = [badge |-> fetched[g], expiresAt |-> now + DefaultTTL]
    BY <1>2, <1>3, <2>1 DEF Holds
  <2>2. CASE s \in DOMAIN cache /\ cache'[s] = cache[s]
    BY <2>2 DEF CacheKnows
  <2> QED
    BY <1>1, <2>1, <2>2
<1> QED
  BY <1>4, <1>5 DEF CacheKnows

LEMMA CacheStep ==
  ASSUME BadgeInv, Step
  PROVE  CacheKnows' /\ CapacityRespected'
<1> USE CacheAssumption, VerificationAssumption
<1>0. TypeOK /\ CacheKnows /\ CapacityRespected /\ CallsKnow /\ RefresherKnows
      /\ now \in 0..MaxTime /\ CacheTypes /\ LogTypes
  BY TypeParts DEF BadgeInv
<1>1. CASE UNCHANGED <<now, cache, logVars>>
  BY <1>0, <1>1 DEF CacheKnows, CapacityRespected, logVars
<1>2. CASE Tick
  BY <1>0, <1>2 DEF Tick, CacheKnows, CacheTypes, CapacityRespected, logVars
<1>3. ASSUME NEW g \in Calls, InsertFetched(g) PROVE CacheKnows' /\ CapacityRespected'
  <2>1. CASE UNCHANGED cache
    BY <1>1, <1>3, <2>1 DEF InsertFetched
  <2>2. CASE Insert(SlotOf(request[g]), fetched[g])
    <3>1. Holds(g) /\ UNCHANGED <<now, logVars>> /\ g \in Goroutines
      BY <1>0, <1>3 DEF InsertFetched, CallsKnow, CallKnows, Goroutines
    <3> QED
      BY <1>0, <2>2, <3>1, AnsweredBySlot, InsertKnows, InsertKeeps
  <2> QED
    BY <1>3, <2>1, <2>2 DEF InsertFetched
<1>4. CASE RefreshInsert
  <2>1. /\ Holds(Refresher) /\ UNCHANGED <<now, logVars>> /\ Refresher \in Goroutines
        /\ Insert(request[Refresher], fetched[Refresher])
    BY <1>0, <1>4 DEF RefreshInsert, RefresherKnows, Goroutines
  <2> QED
    BY <1>0, <2>1, InsertKnows, InsertKeeps
<1>5. CASE ClearCache
  <2>1. DOMAIN cache' = {}
    BY <1>5 DEF ClearCache, Clear
  <2> QED
    BY <2>1, FS_EmptySet DEF CacheKnows, CapacityRespected
<1>6. CASE \E id \in Trusted : Revoke(id) \/ \E role \in Roles : Renew(id, role)
  <2>1. now' = now /\ cache' = cache
    BY <1>6 DEF Revoke, Renew
  <2>2. ASSUME NEW s \in DOMAIN cache
        PROVE  TrueAt(log', ended', begun', cache[s].badge,
                      cache[s].expiresAt - DefaultTTL - MaxLag)
    <3>1. /\ cache[s].badge \in BadgeStates
          /\ cache[s].expiresAt - DefaultTTL - MaxLag \in Int
          /\ cache[s].expiresAt - DefaultTTL - MaxLag <= now
          /\ TrueAt(log, ended, begun, cache[s].badge,
                    cache[s].expiresAt - DefaultTTL - MaxLag)
      BY <1>0 DEF CacheKnows, CacheTypes
    <3> QED
      BY <1>0, <1>6, <3>1, LogMoves
  <2> QED
    BY <1>0, <2>1, <2>2 DEF CacheKnows, CapacityRespected
<1> QED
  BY <1>1, <1>2, <1>3, <1>4, <1>5, <1>6
     DEF Step, Begin, RefuseUnnamed, CheckCache, Resolve, FetchBadge, VerifyDANE,
         RefreshExpiring, RefreshFn, RefreshFnFails

LEMMA BadgeInitial == Init => BadgeInv
<1> SUFFICES ASSUME Init PROVE BadgeInv
  OBVIOUS
<1> USE CacheAssumption, VerificationAssumption DEF Init
<1>1. DOMAIN cache = {}
  OBVIOUS
<1>2. CapacityRespected /\ CacheKnows /\ CacheTypes
  BY <1>1, FS_EmptySet DEF CapacityRespected, CacheKnows, CacheTypes
<1>3. CallTypes
  <2>1. \A g \in Calls : request[g] \in Requests \cup {Nothing}
    BY DEF Goroutines
  <2>2. /\ url \in [Goroutines -> Badges \cup {None}]
        /\ fetched \in [Goroutines -> BadgeStates \cup {None}]
        /\ readAt \in [Goroutines -> (0..MaxTime) \cup {None}]
        /\ request \in [Goroutines -> Requests \cup ServerSlots \cup {Nothing}]
    OBVIOUS
  <2> QED
    BY <2>1, <2>2 DEF CallTypes
<1>4. LogTypes
  <2>1. ended \in [Badges -> [Roles -> [Certs -> (0..MaxTime) \cup {None}]]]
    BY DEF Never
  <2>2. begun \in [Badges -> [Roles -> 0..MaxTime]]
    OBVIOUS
  <2> QED
    BY <2>1, <2>2 DEF LogTypes
<1>5. TypeOK
  BY <1>2, <1>3, <1>4, TypeParts
<1>6. CallsKnow /\ RefresherKnows
  BY DEF CallsKnow, CallKnows, RefresherKnows, Goroutines
<1> QED
  BY <1>2, <1>5, <1>6 DEF BadgeInv

LEMMA BadgeStep ==
  ASSUME BadgeInv, Step \/ UNCHANGED vars
  PROVE  BadgeInv'
<1>1. CASE Step
  BY <1>1, BadgeTypeStep, CallsStep, RefresherStep, CacheStep DEF BadgeInv
<1>2. CASE UNCHANGED vars
  <2>1. UNCHANGED <<now, cache, log, ended, begun, config, pc, request, url, fetched, readAt,
                    pending, answer>>
    BY <1>2 DEF vars, logVars, calls
  <2>2. TypeOK' /\ CapacityRespected'
    BY <2>1 DEF BadgeInv, TypeOK, CapacityRespected
  <2>3. CacheKnows' /\ CallsKnow' /\ RefresherKnows'
    BY <2>1 DEF BadgeInv, CacheKnows, CallsKnow, CallKnows, RefresherKnows, Holds
  <2> QED
    BY <2>2, <2>3 DEF BadgeInv
<1> QED
  BY <1>1, <1>2

LEMMA NextIsStep ==
  ASSUME TypeOK, Next
  PROVE  Step
<1>1. config.asked \subseteq Requests
  BY VerificationAssumption DEF TypeOK
<1> QED
  BY <1>1 DEF Next, Step

LEMMA BadgeInvariant == Spec => []BadgeInv
<1>1. BadgeInv /\ [Next]_vars => BadgeInv'
  BY BadgeStep, NextIsStep DEF BadgeInv
<1> QED
  BY <1>1, BadgeInitial, PTL DEF Spec

\* The shape of the state of the verifiers, the cache and the log.
THEOREM TypeCorrect == Spec => []TypeOK
BY BadgeInvariant, PTL DEF BadgeInv

\* verify/cache.go:24-25: MaxEntries "is the maximum number of entries", whichever
\* calls and refreshes insert.
THEOREM CapacityKept == Spec => []CapacityRespected
BY BadgeInvariant, PTL DEF BadgeInv

-----------------------------------------------------------------------------
(* Where an answer comes from.                                             *)

LEMMA NoReturn ==
  ASSUME NEW g \in Calls, NEW outcome \in Outcomes, Returns(g, outcome), answer' = None
  PROVE  FALSE
<1>1. [call |-> g, outcome |-> outcome] \in Answers
  BY DEF Answers
<1> QED
  BY <1>1, VerificationAssumption DEF Returns

LEMMA ReturnIs ==
  ASSUME NEW g, NEW outcome, Returns(g, outcome), NEW h, NEW other, Return(h, other)
  PROVE  h = g /\ other = outcome
<1>1. [call |-> g, outcome |-> outcome] = [call |-> h, outcome |-> other]
  BY DEF Returns, Return
<1>2. /\ [call |-> g, outcome |-> outcome].call = [call |-> h, outcome |-> other].call
      /\ [call |-> g, outcome |-> outcome].outcome = [call |-> h, outcome |-> other].outcome
  BY <1>1
<1> QED
  BY <1>2

FromCache(g, outcome) ==
  LET slot == SlotOf(request[g])
  IN  /\ pc[g] = "cache" /\ Hit(slot)
      /\ outcome = IF request[g].cert = None THEN "Prefetched"
                   ELSE Judge(request[g], cache[slot].badge)
      /\ ~(request[g].role = "server" /\ outcome = "FingerprintMismatch")

FromLog(g, outcome) ==
  /\ Holds(g)
  /\ \/ outcome = IF request[g].cert = None THEN "Prefetched"
                  ELSE Judge(request[g], fetched[g])
     \/ outcome = "DANERejection"

LEMMA PolicyAnswers ==
  ASSUME config \in Configs, NEW g \in Calls, NEW outcome \in Outcomes, Returns(g, outcome),
         NEW h \in Calls, NEW error \in {"DNSError", "TlogError"},
         ApplyFailurePolicy(h, error)
  PROVE  /\ h = g
         /\ \/ outcome = error
            \/ outcome = "FailOpen" /\ config.policy = "FailOpen"
            \/ /\ outcome = "FailOpenWithBadge" /\ config.policy = "FailOpenWithCache"
               /\ StaleHit(SlotOf(request[g]), MaxStaleness)
<1>1. config.policy \in {"FailClosed", "FailOpenWithCache", "FailOpen"}
  BY VerificationAssumption
<1>2. CASE config.policy = "FailClosed"
  BY <1>2, ReturnIs DEF ApplyFailurePolicy
<1>3. CASE config.policy = "FailOpen"
  BY <1>3, ReturnIs DEF ApplyFailurePolicy
<1>4. CASE config.policy = "FailOpenWithCache"
  <2>1. CASE config.cached /\ StaleHit(SlotOf(request[h]), MaxStaleness)
    BY <1>4, <2>1, ReturnIs DEF ApplyFailurePolicy
  <2>2. CASE ~(config.cached /\ StaleHit(SlotOf(request[h]), MaxStaleness))
    BY <1>4, <2>2, ReturnIs DEF ApplyFailurePolicy
  <2> QED
    BY <2>1, <2>2
<1> QED
  BY <1>1, <1>2, <1>3, <1>4

\* A call answers from the cache, by what it fetched, or that DNS or the log failed.
Sources(g, outcome) ==
  \/ FromCache(g, outcome) \/ FromLog(g, outcome)
  \/ outcome \in {"DNSError", "TlogError", "NotAnsAgent", "URLValidationError"}
  \/ outcome = "FailOpen" /\ config.policy = "FailOpen"
  \/ /\ outcome = "FailOpenWithBadge" /\ config.policy = "FailOpenWithCache"
     /\ StaleHit(SlotOf(request[g]), MaxStaleness)

LEMMA AnswerSource ==
  ASSUME BadgeInv, Step, NEW g \in Calls, NEW outcome \in Outcomes, Returns(g, outcome)
  PROVE  request[g] \in Requests /\ Sources(g, outcome)
<1>0. TypeOK /\ CallsKnow /\ config \in Configs /\ CallKnows(g)
  BY DEF BadgeInv, TypeOK, CallsKnow
<1>1. request[g] \in Requests
  BY <1>0 DEF Returns, CallKnows
<1>2. CASE answer' = None
  BY <1>2, NoReturn
<1>3. ASSUME NEW h \in Calls, CheckCache(h) PROVE Sources(g, outcome)
  <2>1. CASE answer' # None
    <3>1. \E other : Return(h, other)
      BY <1>3, <2>1 DEF CheckCache, Goto
    <3>2. h = g
      BY <3>1, ReturnIs
    <3> DEFINE judged == IF request[g].cert = None THEN "Prefetched"
                         ELSE Judge(request[g], cache[SlotOf(request[g])].badge)
               answers == /\ config.cached /\ Hit(SlotOf(request[g]))
                          /\ ~(request[g].role = "server" /\ judged = "FingerprintMismatch")
    <3>3. /\ pc[g] = "cache"
          /\ IF answers THEN Return(g, judged)
             ELSE Goto(g, "dns") /\ UNCHANGED <<request, url, fetched, readAt>>
      BY <1>3, <3>2 DEF CheckCache
    <3> HIDE DEF judged, answers
    <3>4. answers /\ Return(g, judged)
      BY <2>1, <3>3 DEF Goto
    <3>5. outcome = judged
      BY <3>4, ReturnIs
    <3> QED
      BY <3>3, <3>4, <3>5 DEF Sources, FromCache, judged, answers
  <2> QED
    BY <1>2, <2>1
<1>4. ASSUME NEW h \in Calls, Resolve(h) PROVE Sources(g, outcome)
  <2>1. \/ ApplyFailurePolicy(h, "DNSError") \/ Return(h, "NotAnsAgent")
        \/ Return(h, "URLValidationError") \/ answer' = None
    BY <1>4 DEF Resolve, Goto
  <2>2. CASE ApplyFailurePolicy(h, "DNSError")
    BY <1>0, <2>2, PolicyAnswers DEF Sources
  <2>3. CASE Return(h, "NotAnsAgent") \/ Return(h, "URLValidationError")
    BY <2>3, ReturnIs DEF Sources
  <2> QED
    BY <1>2, <2>1, <2>2, <2>3
<1>5. ASSUME NEW h \in Calls, FetchBadge(h) PROVE Sources(g, outcome)
  <2>1. ApplyFailurePolicy(h, "TlogError") \/ answer' = None
    BY <1>5 DEF FetchBadge, Goto
  <2>2. CASE ApplyFailurePolicy(h, "TlogError")
    BY <1>0, <2>2, PolicyAnswers DEF Sources
  <2> QED
    BY <1>2, <2>1, <2>2
<1>6. ASSUME NEW h \in Calls, InsertFetched(h) PROVE Sources(g, outcome)
  <2>1. \/ answer' = None
        \/ Return(h, IF request[h].cert = None THEN "Prefetched"
                     ELSE Judge(request[h], fetched[h]))
    BY <1>6 DEF InsertFetched, Goto
  <2>2. CASE Return(h, IF request[h].cert = None THEN "Prefetched"
                       ELSE Judge(request[h], fetched[h]))
    <3>1. h = g /\ outcome = IF request[h].cert = None THEN "Prefetched"
                             ELSE Judge(request[h], fetched[h])
      BY <2>2, ReturnIs
    <3>2. Holds(g)
      BY <1>0, <1>6, <3>1 DEF InsertFetched, CallKnows
    <3> QED
      BY <3>1, <3>2 DEF Sources, FromLog
  <2> QED
    BY <1>2, <2>1, <2>2
<1>7. ASSUME NEW h \in Calls, VerifyDANE(h) PROVE Sources(g, outcome)
  <2>1. Return(h, "DANERejection") \/ Return(h, "Verified")
    BY <1>7 DEF VerifyDANE
  <2>2. h = g /\ outcome \in {"DANERejection", "Verified"}
    BY <2>1, ReturnIs
  <2>3. Holds(g) /\ Judge(request[g], fetched[g]) = "Verified"
    BY <1>0, <1>7, <2>2 DEF VerifyDANE, CallKnows
  <2>4. request[g].cert # None
    BY <1>1, <2>3, VerificationAssumption, VerifiedNames DEF Holds, TrueAt, BadgeStates
  <2> QED
    BY <2>2, <2>3, <2>4 DEF Sources, FromLog
<1>8. ASSUME NEW h \in Calls, NEW r \in Requests, Begin(h, r) PROVE Sources(g, outcome)
  BY <1>2, <1>8 DEF Begin, Goto
<1>9. CASE \/ RefreshExpiring \/ RefreshFn \/ RefreshFnFails \/ RefreshInsert
           \/ ClearCache \/ Tick
  BY <1>2, <1>9 DEF RefreshExpiring, RefreshFn, RefreshFnFails, RefreshInsert, ClearCache,
     Tick, Refreshed, Goto
<1>10. CASE \E id \in Trusted : Revoke(id) \/ \E role \in Roles : Renew(id, role)
  BY <1>2, <1>10 DEF Revoke, Renew
<1>11. ASSUME NEW h \in Calls, RefuseUnnamed(h) PROVE Sources(g, outcome)
  <2>1. pc[h] = "idle" /\ answer' = [call |-> h, outcome |-> "CertError"]
    BY <1>11 DEF RefuseUnnamed
  <2>2. pc[g] # "idle" /\ answer' = [call |-> g, outcome |-> outcome]
    BY DEF Returns
  <2>3. [call |-> h, outcome |-> "CertError"].call = [call |-> g, outcome |-> outcome].call
    BY <2>1, <2>2
  <2> QED
    BY <2>1, <2>2, <2>3
<1> QED
  BY <1>1, <1>3, <1>4, <1>5, <1>6, <1>7, <1>8, <1>9, <1>10, <1>11 DEF Step

-----------------------------------------------------------------------------
(* What an answer says of the log.                                         *)

LEMMA Durations ==
  /\ DefaultTTL \in Nat /\ MaxLag \in Nat /\ MaxStaleness \in Nat /\ MaxTime \in Nat
  /\ None \notin Int
BY CacheAssumption, VerificationAssumption

\* What a valid badge named at t is what the log named at most now - t ago.
LEMMA TrueIsCurrent ==
  ASSUME LogTypes, now \in 0..MaxTime, NEW badge \in BadgeStates, badge.valid,
         NEW role \in Roles, NEW t \in Int, TrueAt(log, ended, begun, badge, t),
         NEW long \in Int, now - t <= long
  PROVE  CurrentWithin(badge.id, role, badge.certs[role], long)
<1>1. badge.id \in Badges /\ badge.certs[role] \in Certs
  BY DEF BadgeStates
<1>2. ended[badge.id][role][badge.certs[role]] \in (0..MaxTime) \cup {None}
  BY <1>1 DEF LogTypes
<1> QED
  BY <1>2 DEF TrueAt, CurrentWithin

\* A badge that is found in the cache, not too long after it expired.
LEMMA CachedTrue ==
  ASSUME BadgeInv, NEW slot \in DOMAIN cache, NEW late \in Int,
         now - cache[slot].expiresAt <= late
  PROVE  /\ now \in 0..MaxTime /\ LogTypes /\ cache[slot].badge \in BadgeStates
         /\ cache[slot].badge.id \in Answered(slot) \cap Trusted
         /\ \E t \in Int : /\ TrueAt(log, ended, begun, cache[slot].badge, t)
                           /\ now - t <= DefaultTTL + MaxLag + late
<1>1. now \in 0..MaxTime /\ LogTypes /\ CacheTypes /\ CacheKnows
  BY TypeParts DEF BadgeInv
<1>2. /\ cache[slot].badge \in BadgeStates /\ cache[slot].expiresAt \in Int
      /\ cache[slot].badge.id \in Answered(slot)
      /\ TrueAt(log, ended, begun, cache[slot].badge, cache[slot].expiresAt - DefaultTTL - MaxLag)
  BY <1>1, Durations DEF CacheTypes, CacheKnows
<1>3. cache[slot].badge.id \in Trusted
  BY <1>2, Durations DEF TrueAt
<1>4. /\ cache[slot].expiresAt - DefaultTTL - MaxLag \in Int
      /\ now - (cache[slot].expiresAt - DefaultTTL - MaxLag) <= DefaultTTL + MaxLag + late
  BY <1>1, <1>2, Durations
<1> QED
  BY <1>1, <1>2, <1>3, <1>4, Durations

\* A badge that is judged from was true at most the TTL and one fetch ago; one that
\* was fetched for the answer, at most one fetch ago.
LEMMA JudgedTrue ==
  ASSUME BadgeInv, NEW g \in Calls, NEW outcome, FromCache(g, outcome) \/ FromLog(g, outcome),
         request[g] \in Requests, outcome \notin {"Prefetched", "DANERejection"}
  PROVE  /\ now \in 0..MaxTime /\ LogTypes
         /\ \E badge \in BadgeStates, t \in Int :
              /\ outcome = Judge(request[g], badge)
              /\ badge.id \in Answered(request[g]) \cap Trusted
              /\ TrueAt(log, ended, begun, badge, t)
              /\ now - t <= IF FromCache(g, outcome) THEN DefaultTTL + MaxLag ELSE MaxLag
<1>1. CASE FromCache(g, outcome)
  <2>1. /\ SlotOf(request[g]) \in DOMAIN cache
        /\ now <= cache[SlotOf(request[g])].expiresAt
        /\ outcome = Judge(request[g], cache[SlotOf(request[g])].badge)
    BY <1>1, Durations DEF FromCache, Hit
  <2>2. now - cache[SlotOf(request[g])].expiresAt <= 0
    BY <2>1, Durations DEF BadgeInv, TypeOK
  <2>3. /\ now \in 0..MaxTime /\ LogTypes
        /\ cache[SlotOf(request[g])].badge \in BadgeStates
        /\ cache[SlotOf(request[g])].badge.id \in Answered(SlotOf(request[g])) \cap Trusted
        /\ \E t \in Int : /\ TrueAt(log, ended, begun, cache[SlotOf(request[g])].badge, t)
                          /\ now - t <= DefaultTTL + MaxLag + 0
    BY <2>1, <2>2, Durations, CachedTrue
  <2> QED
    BY <1>1, <2>1, <2>3, Durations, AnsweredBySlot
<1>2. CASE ~FromCache(g, outcome) /\ FromLog(g, outcome)
  <2>1. Holds(g) /\ outcome = Judge(request[g], fetched[g])
    BY <1>2, Durations DEF FromLog
  <2>2. /\ fetched[g] \in BadgeStates /\ readAt[g] \in Int
        /\ fetched[g].id \in Answered(request[g]) \cap Trusted
        /\ TrueAt(log, ended, begun, fetched[g], readAt[g])
    BY <2>1, Durations DEF Holds, TrueAt
  <2>3. now \in 0..MaxTime /\ LogTypes
    BY TypeParts DEF BadgeInv
  <2>4. now - readAt[g] <= MaxLag
    BY <2>1, <2>2, <2>3, Durations DEF Holds
  <2> QED
    BY <1>2, <2>1, <2>2, <2>3, <2>4, Durations
<1> QED
  BY <1>1, <1>2, Durations

LEMMA VerifiedStep ==
  ASSUME BadgeInv, Step, NEW g \in Calls, Returns(g, "Verified")
  PROVE  RegisteredWithin(request[g], DefaultTTL + MaxLag)
<1>1. request[g] \in Requests /\ (FromCache(g, "Verified") \/ FromLog(g, "Verified"))
  BY AnswerSource DEF Outcomes, Sources
<1>2. /\ now \in 0..MaxTime /\ LogTypes
      /\ \E badge \in BadgeStates, t \in Int :
           /\ "Verified" = Judge(request[g], badge)
           /\ badge.id \in Answered(request[g]) \cap Trusted
           /\ TrueAt(log, ended, begun, badge, t)
           /\ now - t <= IF FromCache(g, "Verified") THEN DefaultTTL + MaxLag ELSE MaxLag
  BY <1>1, Durations, JudgedTrue
<1>3. PICK badge \in BadgeStates, t \in Int :
           /\ Judge(request[g], badge) = "Verified"
           /\ badge.id \in Trusted
           /\ TrueAt(log, ended, begun, badge, t)
           /\ now - t <= DefaultTTL + MaxLag
  BY <1>2, Durations
<1>4. /\ badge.valid /\ badge.certs[request[g].role] = request[g].cert
      /\ Names(badge.id, request[g])
  BY <1>1, <1>3, Durations, VerifiedNames
<1>5. request[g].role \in Roles /\ badge.id \in Badges
  BY <1>1, Durations, RequestFields DEF BadgeStates
<1>6. CurrentWithin(badge.id, request[g].role, request[g].cert, DefaultTTL + MaxLag)
  BY <1>2, <1>3, <1>4, <1>5, Durations, TrueIsCurrent
<1> QED
  BY <1>4, <1>5, <1>6, Durations DEF RegisteredWithin

LEMMA StaleStep ==
  ASSUME BadgeInv, Step, NEW g \in Calls, Returns(g, "FailOpenWithBadge")
  PROVE  LET slot == SlotOf(request[g])
             badge == cache[slot].badge
         IN  /\ badge.id \in Answered(slot) \cap Trusted
             /\ badge.valid => CurrentWithin(badge.id, slot.role, badge.certs[slot.role],
                                             DefaultTTL + MaxStaleness + MaxLag)
<1> DEFINE slot == SlotOf(request[g])
<1>1. request[g] \in Requests /\ StaleHit(slot, MaxStaleness)
  BY AnswerSource, JudgeTyped DEF Outcomes, Sources, FromCache, FromLog
<1>2. slot \in DOMAIN cache /\ now - cache[slot].expiresAt <= MaxStaleness /\ slot.role \in Roles
  BY <1>1, Durations, RequestFields DEF StaleHit
<1> HIDE DEF slot
<1>3. /\ now \in 0..MaxTime /\ LogTypes /\ cache[slot].badge \in BadgeStates
      /\ cache[slot].badge.id \in Answered(slot) \cap Trusted
      /\ \E t \in Int : /\ TrueAt(log, ended, begun, cache[slot].badge, t)
                        /\ now - t <= DefaultTTL + MaxLag + MaxStaleness
  BY <1>2, Durations, CachedTrue
<1>4. PICK t \in Int : /\ TrueAt(log, ended, begun, cache[slot].badge, t)
                       /\ now - t <= DefaultTTL + MaxStaleness + MaxLag
  BY <1>3, Durations
<1>5. cache[slot].badge.valid =>
        CurrentWithin(cache[slot].badge.id, slot.role, cache[slot].badge.certs[slot.role],
                      DefaultTTL + MaxStaleness + MaxLag)
  BY <1>2, <1>3, <1>4, Durations, TrueIsCurrent
<1> QED
  BY <1>3, <1>5, Durations DEF slot

LEMMA RenewalStep ==
  ASSUME BadgeInv, Step, NEW g \in Calls, Returns(g, "FingerprintMismatch")
  PROVE  LET r == request[g]
             long == IF r.role = "server" THEN MaxLag ELSE DefaultTTL + MaxLag
         IN  \E id \in Answered(r) \cap Trusted :
               ~( /\ log[id].valid /\ log[id].certs[r.role] = r.cert
                  /\ now - begun[id][r.role] > long)
<1> DEFINE r == request[g]
           long == IF r.role = "server" THEN MaxLag ELSE DefaultTTL + MaxLag
<1>1. r \in Requests /\ (\/ FromCache(g, "FingerprintMismatch")
                         \/ FromLog(g, "FingerprintMismatch"))
  BY AnswerSource DEF Outcomes, Sources
<1>2. /\ now \in 0..MaxTime /\ LogTypes
      /\ \E badge \in BadgeStates, t \in Int :
           /\ "FingerprintMismatch" = Judge(r, badge)
           /\ badge.id \in Answered(r) \cap Trusted
           /\ TrueAt(log, ended, begun, badge, t)
           /\ now - t <= IF FromCache(g, "FingerprintMismatch") THEN DefaultTTL + MaxLag
                         ELSE MaxLag
  BY <1>1, Durations, JudgedTrue
<1>3. r.role \in Roles
  BY <1>1, Durations, RequestFields
<1>4. FromCache(g, "FingerprintMismatch") => r.role # "server"
  BY DEF FromCache
<1>5. PICK badge \in BadgeStates, t \in Int :
           /\ Judge(r, badge) = "FingerprintMismatch"
           /\ badge.id \in Answered(r) \cap Trusted
           /\ TrueAt(log, ended, begun, badge, t)
           /\ now - t <= long
  BY <1>2, <1>4, Durations
<1>6. badge.certs[r.role] # r.cert
  BY <1>3, <1>5, Durations DEF Judge, JudgeServer, JudgeClient, Roles
<1>7. badge.id \in Badges /\ begun[badge.id][r.role] \in Int
  BY <1>2, <1>3, Durations DEF BadgeStates, LogTypes
<1>8. long \in Int
  BY Durations
<1> HIDE DEF r, long
<1>9. log[badge.id].certs[r.role] = badge.certs[r.role] \/ begun[badge.id][r.role] >= t
  BY <1>3, <1>5, Durations DEF TrueAt
<1>10. ~( /\ log[badge.id].valid /\ log[badge.id].certs[r.role] = r.cert
          /\ now - begun[badge.id][r.role] > long)
  BY <1>2, <1>5, <1>6, <1>7, <1>8, <1>9, Durations
<1> QED
  BY <1>5, <1>10, Durations DEF r, long

\* verify/cache.go:26-27 with verify/verify.go:117-162 and 298-350: a certificate is
\* verified only if the log named it for this host, role and version at most the TTL
\* and the duration of one fetch ago, whichever calls and refreshes race for the cache
\* and whatever DNS answers.
THEOREM VerifiedIsRegistered == Spec => VerifiedWasRegistered
<1>1. BadgeInv /\ [Next]_vars
        => [\A g \in Calls : Returns(g, "Verified") =>
              RegisteredWithin(request[g], DefaultTTL + MaxLag)]_vars
  BY NextIsStep, VerifiedStep DEF BadgeInv
<1> QED
  BY <1>1, BadgeInvariant, PTL DEF Spec, VerifiedWasRegistered

\* verify/verify.go:131-132 and 320-325: a certificate is said not to match only if a
\* badge DNS leads to did not name it all the time the answer may take, for a client
\* that time and the TTL.
THEOREM RenewalIsSeen == Spec => RenewalTakesEffect
<1>1. BadgeInv /\ [Next]_vars
        => [\A g \in Calls : Returns(g, "FingerprintMismatch") =>
              LET r == request[g]
                  long == IF r.role = "server" THEN MaxLag ELSE DefaultTTL + MaxLag
              IN  \E id \in Answered(r) \cap Trusted :
                    ~( /\ log[id].valid /\ log[id].certs[r.role] = r.cert
                       /\ now - begun[id][r.role] > long)]_vars
  BY NextIsStep, RenewalStep DEF BadgeInv
<1> QED
  BY <1>1, BadgeInvariant, PTL DEF Spec, RenewalTakesEffect

\* verify/cache.go:181-182 and 196-197 with verify/verify.go:46-62: when DNS or the log
\* fails, a call in either role falls back only on a badge of its host, of which what it
\* says was so in the log at most the TTL, the staleness and one fetch ago.
THEOREM FallbackIsBounded == Spec => StaleIsBounded
<1>1. BadgeInv /\ [Next]_vars
        => [\A g \in Calls : Returns(g, "FailOpenWithBadge") =>
              LET slot == SlotOf(request[g])
                  badge == cache[slot].badge
              IN  /\ badge.id \in Answered(slot) \cap Trusted
                  /\ badge.valid => CurrentWithin(badge.id, slot.role, badge.certs[slot.role],
                                                  DefaultTTL + MaxStaleness + MaxLag)]_vars
  BY NextIsStep, StaleStep DEF BadgeInv
<1> QED
  BY <1>1, BadgeInvariant, PTL DEF Spec, StaleIsBounded

-----------------------------------------------------------------------------
(* The client.                                                             *)

\* Where a call of the client is, and whether the verifier works for it.
StageKnows(g) ==
  /\ stage[g] \in {"prefetch", "warm", "verify"} <=> pc[g] # "idle"
  /\ stage[g] = "verify" => conn[g] # None /\ request[g] = Question(target[g], conn[g])

ClientTypes ==
  /\ settings \in Clients
  /\ stage \in [Calls -> {"idle", "prefetch", "named", "send", "received", "verify", "warm"}]
  /\ target \in [Calls -> Hosts \cup {None}]
  /\ conn \in [Calls -> Connections \cup {None}]

ClientInv == BadgeInv /\ ClientTypes /\ \A g \in Calls : StageKnows(g)

Works(g) == CheckCache(g) \/ Resolve(g) \/ FetchBadge(g) \/ InsertFetched(g) \/ VerifyDANE(g)

\* What a step of the verifier for g does: it returns, or goes on with its request.
LEMMA VerifierWorks ==
  ASSUME TypeOK, NEW g \in Calls, Works(g)
  PROVE  /\ pc[g] # "idle"
         /\ \A h \in Calls \ {g} : pc'[h] = pc[h] /\ request'[h] = request[h]
         /\ \/ pc'[g] = "idle" /\ \E outcome : Return(g, outcome)
            \/ pc'[g] # "idle" /\ request'[g] = request[g]
<1> DEFINE Same == \A h \in Calls \ {g} : pc'[h] = pc[h] /\ request'[h] = request[h]
<1>1. ASSUME NEW outcome, Return(g, outcome) PROVE Same /\ pc'[g] = "idle"
  BY <1>1 DEF Return, TypeOK, Goroutines
<1>2. ASSUME NEW where, where # "idle", Goto(g, where), UNCHANGED request
      PROVE  Same /\ pc'[g] # "idle" /\ request'[g] = request[g]
  BY <1>2 DEF Goto, TypeOK, Goroutines
<1> HIDE DEF Same
<1>3. \/ \E outcome : Return(g, outcome)
      \/ \E where \in {"dns", "log", "insert", "dane"} : Goto(g, where) /\ UNCHANGED request
  <2>1. CASE CheckCache(g)
    BY <2>1 DEF CheckCache
  <2>2. CASE Resolve(g)
    BY <2>2 DEF Resolve, ApplyFailurePolicy
  <2>3. CASE FetchBadge(g)
    BY <2>3 DEF FetchBadge, ApplyFailurePolicy
  <2>4. CASE InsertFetched(g) \/ VerifyDANE(g)
    BY <2>4 DEF InsertFetched, VerifyDANE
  <2> QED
    BY <2>1, <2>2, <2>3, <2>4 DEF Works
<1>4. pc[g] # "idle"
  BY DEF Works, CheckCache, Resolve, FetchBadge, InsertFetched, VerifyDANE
<1> QED
  BY <1>1, <1>2, <1>3, <1>4 DEF Same

LEMMA ClientIsStep ==
  ASSUME ClientInv, ClientNext
  PROVE  Step \/ UNCHANGED vars
<1>1. ASSUME NEW g \in Calls, Do(g) \/ Prefetch(g) \/ VerifyTLSCert(g)
      PROVE  Step \/ UNCHANGED vars
  <2>1. \A host \in Fqdns, cert \in Connections \cup {None} : Question(host, cert) \in Requests
    BY ClientAssumption
  <2>2. conn[g] \in Connections \cup {None}
    BY DEF ClientInv, ClientTypes
  <2>3. UNCHANGED vars \/ \E r \in Requests : Begin(g, r)
    <3>1. CASE Do(g)
      BY <2>1, <3>1 DEF Do, badgeVars
    <3>2. CASE Prefetch(g)
      BY <2>1, <3>2 DEF Prefetch
    <3>3. CASE VerifyTLSCert(g)
      BY <2>1, <2>2, <3>3 DEF VerifyTLSCert, badgeVars
    <3> QED
      BY <1>1, <3>1, <3>2, <3>3
  <2> QED
    BY <2>3 DEF Step
<1>2. ASSUME NEW g \in Calls, PrefetchAnswered(g) \/ ExecuteRequest(g)
      PROVE  UNCHANGED vars
  BY <1>2 DEF PrefetchAnswered, ExecuteRequest, badgeVars
<1>3. ASSUME NEW g \in Calls, VerifierStep(g) PROVE Step
  BY <1>3 DEF VerifierStep, Step
<1>4. CASE Environment
  BY <1>4 DEF Environment, Step
<1> QED
  BY <1>1, <1>2, <1>3, <1>4 DEF ClientNext

\* Ending a call, or going on with it.
LEMMA EndStage ==
  ASSUME ClientTypes, NEW g \in Calls, NEW delivered, End(g, delivered)
  PROVE  ClientTypes' /\ stage'[g] = "idle"
         /\ \A h \in Calls \ {g} : /\ stage'[h] = stage[h] /\ target'[h] = target[h]
                                   /\ conn'[h] = conn[h]
BY DEF ClientTypes, End

LEMMA EnterStage ==
  ASSUME ClientTypes, NEW g \in Calls, Enter(g, "send"), UNCHANGED <<target, conn>>
  PROVE  ClientTypes' /\ stage'[g] = "send"
         /\ \A h \in Calls \ {g} : /\ stage'[h] = stage[h] /\ target'[h] = target[h]
                                   /\ conn'[h] = conn[h]
BY DEF ClientTypes, Enter

\* A step of one call leaves the others where they are.
LEMMA StageFrame ==
  ASSUME NEW h \in Calls, StageKnows(h), stage'[h] = stage[h], target'[h] = target[h],
         conn'[h] = conn[h], pc'[h] = pc[h], request'[h] = request[h]
  PROVE  StageKnows(h)'
BY DEF StageKnows, Question

\* The client acts upon an answer: it ends the call, or sends the request.
LEMMA AfterAnswer ==
  ASSUME ClientTypes, NEW g \in Calls, stage[g] \in {"prefetch", "warm", "verify"},
         NEW outcome, After(g, outcome)
  PROVE  \/ End(g, TRUE) \/ End(g, FALSE)
         \/ Enter(g, "send") /\ UNCHANGED <<target, conn>>
<1>1. CASE stage[g] = "prefetch"
  BY <1>1 DEF After, AfterPrefetch
<1>2. CASE stage[g] = "verify"
  BY <1>2 DEF After, AfterVerify, Deliver
<1>3. CASE stage[g] = "warm"
  BY <1>3 DEF After
<1> QED
  BY <1>1, <1>2, <1>3

LEMMA ClientStep ==
  ASSUME ClientInv, ClientNext
  PROVE  ClientTypes' /\ \A g \in Calls : StageKnows(g)'
<1> DEFINE Kept == ClientTypes' /\ \A g \in Calls : StageKnows(g)'
           Others(g) == \A h \in Calls \ {g} :
             /\ stage'[h] = stage[h] /\ target'[h] = target[h] /\ conn'[h] = conn[h]
             /\ pc'[h] = pc[h] /\ request'[h] = request[h]
<1>0. TypeOK /\ ClientTypes /\ \A g \in Calls : StageKnows(g)
  BY DEF ClientInv, BadgeInv
<1>1. ASSUME NEW g \in Calls, Others(g), ClientTypes', StageKnows(g)' PROVE Kept
  BY <1>0, <1>1, StageFrame
<1>2. ASSUME NEW g \in Calls, UNCHANGED vars, stage[g] \notin {"prefetch", "warm", "verify"},
             \/ End(g, TRUE) \/ End(g, FALSE)
             \/ Enter(g, "send") /\ UNCHANGED <<target, conn>>
      PROVE  Kept
  <2>1. /\ ClientTypes' /\ stage'[g] \in {"idle", "send"}
        /\ \A h \in Calls \ {g} : /\ stage'[h] = stage[h] /\ target'[h] = target[h]
                                 /\ conn'[h] = conn[h]
    BY <1>0, <1>2, EndStage, EnterStage
  <2>2. Others(g) /\ pc'[g] = pc[g]
    BY <1>2, <2>1 DEF vars, calls
  <2>3. StageKnows(g)'
    BY <1>0, <1>2, <2>1, <2>2 DEF StageKnows
  <2> HIDE DEF Kept, Others
  <2> QED
    BY <1>1, <2>1, <2>2, <2>3
<1>3. ASSUME NEW g \in Calls, UNCHANGED <<vars, settings>>,
             stage[g] \notin {"prefetch", "warm", "verify"},
             NEW to \in {"named", "received"}, stage' = [stage EXCEPT ![g] = to],
             NEW host \in Hosts \cup {None}, target' = [target EXCEPT ![g] = host],
             NEW c \in Connections \cup {None}, conn' = [conn EXCEPT ![g] = c]
      PROVE  Kept
  <2>1. ClientTypes' /\ Others(g) /\ stage'[g] = to /\ pc'[g] = pc[g]
    BY <1>0, <1>3 DEF ClientTypes, vars, calls
  <2>2. StageKnows(g)'
    BY <1>0, <1>3, <2>1 DEF StageKnows
  <2> HIDE DEF Kept, Others
  <2> QED
    BY <1>1, <2>1, <2>2
<1>4. ASSUME NEW g \in Calls, NEW host \in Hosts \cup {None}, NEW c \in Connections \cup {None},
             Begin(g, Question(host, c)), UNCHANGED settings,
             NEW to \in {"prefetch", "warm", "verify"}, to = "verify" => c # None,
             stage' = [stage EXCEPT ![g] = to], target' = [target EXCEPT ![g] = host],
             conn' = [conn EXCEPT ![g] = IF to = "verify" THEN c ELSE conn[g]]
      PROVE  Kept
  <2>1. ClientTypes' /\ stage'[g] = to /\ target'[g] = host /\ (to = "verify" => conn'[g] = c)
    BY <1>0, <1>4 DEF ClientTypes
  <2>2. Others(g) /\ pc'[g] = "cache" /\ request'[g] = Question(host, c)
    BY <1>0, <1>4 DEF ClientTypes, Begin, Goto, TypeOK, Goroutines
  <2>3. StageKnows(g)'
    BY <1>4, <2>1, <2>2 DEF StageKnows, Question
  <2> HIDE DEF Kept, Others
  <2> QED
    BY <1>1, <2>1, <2>2, <2>3
<1> USE ClientAssumption
<1>5. ASSUME NEW g \in Calls, Do(g) PROVE Kept
  <2>1. PICK t \in Targets :
          IF t.host = None \/ (settings.verifyServer /\ ~t.https)
          THEN End(g, FALSE) /\ UNCHANGED badgeVars
          ELSE /\ target' = [target EXCEPT ![g] = t.host]
               /\ UNCHANGED conn
               /\ IF settings.verifyServer /\ t.host \in Fqdns
                  THEN Enter(g, "prefetch") /\ Begin(g, Question(t.host, None))
                  ELSE Enter(g, "named") /\ UNCHANGED badgeVars
    BY <1>5 DEF Do
  <2>2. t.host \in Hosts \cup {None} /\ stage[g] = "idle" /\ conn = [conn EXCEPT ![g] = conn[g]]
        /\ conn[g] \in Connections \cup {None}
    BY <1>0, <1>5 DEF Do, ClientTypes
  <2>3. CASE End(g, FALSE) /\ UNCHANGED badgeVars
    BY <1>2, <2>2, <2>3 DEF badgeVars
  <2>4. CASE /\ target' = [target EXCEPT ![g] = t.host] /\ UNCHANGED conn
             /\ Enter(g, "prefetch") /\ Begin(g, Question(t.host, None))
    BY <1>4, <2>2, <2>4 DEF Enter
  <2>5. CASE /\ target' = [target EXCEPT ![g] = t.host] /\ UNCHANGED conn
             /\ Enter(g, "named") /\ UNCHANGED badgeVars
    BY <1>3, <2>2, <2>5 DEF Enter, badgeVars
  <2> HIDE DEF Kept
  <2> QED
    BY <2>1, <2>3, <2>4, <2>5
<1>6. ASSUME NEW g \in Calls, PrefetchAnswered(g) PROVE Kept
  <2>1. stage[g] = "named" /\ UNCHANGED vars
        /\ (End(g, FALSE) \/ (Enter(g, "send") /\ UNCHANGED <<target, conn>>))
    BY <1>6 DEF PrefetchAnswered, AfterPrefetch, badgeVars
  <2> HIDE DEF Kept
  <2> QED
    BY <1>2, <2>1
<1>7. ASSUME NEW g \in Calls, Prefetch(g) PROVE Kept
  <2>1. PICK t \in Targets : /\ target' = [target EXCEPT ![g] = t.host]
                             /\ Begin(g, Question(t.host, None))
    BY <1>7 DEF Prefetch
  <2>2. /\ t.host \in Hosts \cup {None} /\ Enter(g, "warm") /\ UNCHANGED conn
        /\ conn = [conn EXCEPT ![g] = conn[g]]
    BY <1>0, <1>7 DEF Prefetch, ClientTypes
  <2> HIDE DEF Kept
  <2> QED
    BY <1>4, <2>1, <2>2 DEF Enter
<1>8. ASSUME NEW g \in Calls, ExecuteRequest(g) PROVE Kept
  <2>1. stage[g] = "send" /\ UNCHANGED vars /\ target = [target EXCEPT ![g] = target[g]]
        /\ target[g] \in Hosts \cup {None}
    BY <1>0, <1>8 DEF ExecuteRequest, badgeVars, ClientTypes
  <2>2. CASE End(g, FALSE)
    BY <1>2, <2>1, <2>2
  <2>3. ASSUME NEW c \in Connections, conn' = [conn EXCEPT ![g] = c], Enter(g, "received"),
               UNCHANGED target
        PROVE  Kept
    BY <1>3, <2>1, <2>3 DEF Enter
  <2> HIDE DEF Kept
  <2> QED
    BY <1>8, <2>2, <2>3 DEF ExecuteRequest
<1>9. ASSUME NEW g \in Calls, VerifyTLSCert(g) PROVE Kept
  <2>1. /\ stage[g] = "received" /\ target[g] \in Hosts \cup {None}
        /\ conn[g] \in Connections \cup {None} /\ conn = [conn EXCEPT ![g] = conn[g]]
        /\ target = [target EXCEPT ![g] = target[g]]
    BY <1>0, <1>9 DEF VerifyTLSCert, ClientTypes
  <2>2. CASE (End(g, TRUE) \/ End(g, FALSE)) /\ UNCHANGED vars
    BY <1>2, <2>1, <2>2
  <2>3. CASE /\ conn[g] # None /\ Begin(g, Question(target[g], conn[g]))
             /\ Enter(g, "verify") /\ UNCHANGED <<target, conn>>
    BY <1>4, <2>1, <2>3 DEF Enter
  <2> HIDE DEF Kept
  <2> QED
    BY <1>9, <2>2, <2>3 DEF VerifyTLSCert, AfterVerify, Deliver, badgeVars
<1>10. ASSUME NEW g \in Calls, VerifierStep(g) PROVE Kept
  <2>1. /\ pc[g] # "idle"
        /\ \A h \in Calls \ {g} : pc'[h] = pc[h] /\ request'[h] = request[h]
        /\ pc'[g] = "idle" \/ (pc'[g] # "idle" /\ request'[g] = request[g])
    BY <1>0, <1>10, VerifierWorks DEF VerifierStep, Works
  <2>2. stage[g] \in {"prefetch", "warm", "verify"}
    BY <1>0, <2>1 DEF StageKnows
  <2>3. CASE pc'[g] = "idle"
    <3>1. \/ End(g, TRUE) \/ End(g, FALSE)
          \/ Enter(g, "send") /\ UNCHANGED <<target, conn>>
      BY <1>0, <1>10, <2>2, <2>3, AfterAnswer DEF VerifierStep
    <3>2. /\ ClientTypes' /\ stage'[g] \in {"idle", "send"}
          /\ \A h \in Calls \ {g} : /\ stage'[h] = stage[h] /\ target'[h] = target[h]
                                   /\ conn'[h] = conn[h]
      BY <1>0, <3>1, EndStage, EnterStage
    <3>3. StageKnows(g)'
      BY <2>3, <3>2 DEF StageKnows
    <3>4. Others(g)
      BY <2>1, <3>2
    <3> HIDE DEF Kept, Others
    <3> QED
      BY <1>1, <3>2, <3>3, <3>4
  <2>4. CASE pc'[g] # "idle"
    <3>1. stage' = [stage EXCEPT ![g] = stage[g]] /\ UNCHANGED <<settings, target, conn>>
      BY <1>10, <2>4 DEF VerifierStep, Enter
    <3>2. stage' = stage
      BY <1>0, <3>1 DEF ClientTypes
    <3>3. ClientTypes' /\ Others(g)
      BY <1>0, <2>1, <3>1, <3>2 DEF ClientTypes
    <3>4. StageKnows(g)'
      BY <1>0, <2>1, <2>4, <3>1, <3>2 DEF StageKnows, Question
    <3> HIDE DEF Kept, Others
    <3> QED
      BY <1>1, <3>3, <3>4
  <2> QED
    BY <2>3, <2>4
<1>11. CASE Environment
  <2>1. \A g \in Calls : pc'[g] = pc[g] /\ request'[g] = request[g]
    <3>1. CASE RefreshExpiring \/ RefreshFn \/ RefreshFnFails \/ RefreshInsert
      BY <1>0, <3>1, VerificationAssumption
         DEF RefreshExpiring, RefreshFn, RefreshFnFails, RefreshInsert, Refreshed, Goto,
             TypeOK, Goroutines
    <3>2. CASE Tick
      BY <3>2 DEF Tick, calls
    <3>3. CASE \E id \in Trusted : Revoke(id) \/ \E role \in Roles : Renew(id, role)
      BY <3>3 DEF Revoke, Renew, calls
    <3> QED
      BY <1>11, <3>1, <3>2, <3>3 DEF Environment
  <2>2. UNCHANGED <<settings, stage, target, conn>>
    BY <1>11 DEF Environment
  <2> QED
    BY <1>0, <2>1, <2>2, StageFrame DEF ClientTypes
<1> HIDE DEF Kept
<1> QED
  BY <1>5, <1>6, <1>7, <1>8, <1>9, <1>10, <1>11 DEF ClientNext, Kept

LEMMA ClientInvariant == ClientSpec => []ClientInv
<1>1. ClientInit => ClientInv
  <2> SUFFICES ASSUME ClientInit PROVE ClientInv
    OBVIOUS
  <2>1. BadgeInv
    BY BadgeInitial DEF ClientInit
  <2>2. ClientTypes
    BY DEF ClientInit, ClientTypes
  <2>3. \A g \in Calls : stage[g] = "idle" /\ pc[g] = "idle"
    BY DEF ClientInit, Init, Goroutines
  <2>4. \A g \in Calls : StageKnows(g)
    BY <2>3 DEF StageKnows
  <2> QED
    BY <2>1, <2>2, <2>4 DEF ClientInv
<1>2. ClientInv /\ [ClientNext]_clientVars => ClientInv'
  <2> SUFFICES ASSUME ClientInv, [ClientNext]_clientVars PROVE ClientInv'
    OBVIOUS
  <2>1. CASE ClientNext
    <3>1. BadgeInv'
      BY <2>1, ClientIsStep, BadgeStep DEF ClientInv
    <3> QED
      BY <2>1, <3>1, ClientStep DEF ClientInv
  <2>2. CASE UNCHANGED clientVars
    <3>1. UNCHANGED vars /\ UNCHANGED <<settings, stage, target, conn, pc, request>>
      BY <2>2 DEF clientVars, agentVars, vars, calls
    <3>2. BadgeInv'
      BY <3>1, BadgeStep DEF ClientInv
    <3>3. ClientTypes' /\ \A g \in Calls : StageKnows(g)'
      BY <3>1, StageFrame DEF ClientInv, ClientTypes
    <3> QED
      BY <3>2, <3>3 DEF ClientInv
  <2> QED
    BY <2>1, <2>2
<1> QED
  BY <1>1, <1>2, PTL DEF ClientSpec

\* A delivery is the end of that call.
LEMMA EndIs ==
  ASSUME NEW g, result' = [call |-> g, delivered |-> TRUE], NEW h, NEW delivered,
         End(h, delivered)
  PROVE  h = g /\ delivered = TRUE
<1>1. [call |-> g, delivered |-> TRUE] = [call |-> h, delivered |-> delivered]
  BY DEF End
<1>2. /\ [call |-> g, delivered |-> TRUE].call = [call |-> h, delivered |-> delivered].call
      /\ [call |-> g, delivered |-> TRUE].delivered = [call |-> h, delivered |-> delivered].delivered
  BY <1>1
<1> QED
  BY <1>2

LEMMA NotDelivered ==
  ASSUME NEW g \in Calls, result' = [call |-> g, delivered |-> TRUE], NEW h
  PROVE  result' # None /\ ~End(h, FALSE)
<1>1. [call |-> g, delivered |-> TRUE] \in [call : Calls, delivered : BOOLEAN]
  OBVIOUS
<1>2. result' # None
  BY <1>1, ClientAssumption
<1>3. ~End(h, FALSE)
  BY EndIs
<1> QED
  BY <1>2, <1>3

\* A verifier that never fails open calls a certificate good only if it verified it.
LEMMA SuccessIsVerified ==
  ASSUME BadgeInv, Step, NEW g \in Calls, NEW outcome \in Outcomes, Returns(g, outcome),
         IsSuccess(outcome), config.policy = "FailClosed", request[g].cert # None
  PROVE  outcome = "Verified"
<1>1. Sources(g, outcome)
  BY AnswerSource
<1>2. outcome \in {"Verified", "Prefetched", "FailOpen", "FailOpenWithBadge"}
  BY DEF IsSuccess
<1>3. CASE FromCache(g, outcome) \/ FromLog(g, outcome)
  BY <1>2, <1>3, JudgeTyped DEF FromCache, FromLog
<1>4. CASE ~(FromCache(g, outcome) \/ FromLog(g, outcome))
  BY <1>1, <1>2, <1>4 DEF Sources
<1> QED
  BY <1>3, <1>4

LEMMA DeliveredStep ==
  ASSUME ClientInv, ClientNext, NEW g \in Calls, Delivers(g), settings.verifyServer,
         settings.policy # "FailOpen", config.policy = "FailClosed"
  PROVE  /\ conn[g] # None
         /\ RegisteredWithin(Question(target[g], conn[g]), DefaultTTL + MaxLag)
<1>0. result' = [call |-> g, delivered |-> TRUE]
  BY DEF Delivers
<1>1. result' # None /\ \A h : ~End(h, FALSE)
  BY <1>0, NotDelivered
<1>2. \A h \in Calls : ~Do(h)
  BY <1>1 DEF Do, Enter
<1>3. \A h \in Calls : ~PrefetchAnswered(h) /\ ~Prefetch(h) /\ ~ExecuteRequest(h)
  BY <1>1 DEF PrefetchAnswered, AfterPrefetch, Prefetch, ExecuteRequest, Enter
<1>4. \A h \in Calls : ~VerifyTLSCert(h)
  BY <1>1 DEF VerifyTLSCert, AfterVerify, IsSuccess, Enter
<1>5. ~Environment
  BY <1>1 DEF Environment
<1>6. PICK h \in Calls : VerifierStep(h)
  BY <1>2, <1>3, <1>4, <1>5 DEF ClientNext
<1>7. TypeOK /\ Works(h) /\ StageKnows(h)
  BY <1>6 DEF ClientInv, BadgeInv, VerifierStep, Works
<1>8. pc[h] # "idle" /\ (pc'[h] = "idle" => \E outcome : Return(h, outcome))
  BY <1>7, VerifierWorks
<1>9. pc'[h] = "idle" /\ After(h, answer'.outcome)
  BY <1>1, <1>6 DEF VerifierStep, Enter
<1>10. stage[h] = "verify" /\ IsSuccess(answer'.outcome) /\ (End(h, TRUE) \/ End(h, FALSE))
  <2>1. stage[h] \in {"prefetch", "warm", "verify"}
    BY <1>7, <1>8 DEF StageKnows
  <2>2. stage[h] # "prefetch"
    BY <1>1, <1>9 DEF After, AfterPrefetch, Enter
  <2>3. stage[h] # "warm"
    BY <1>1, <1>9 DEF After
  <2>4. stage[h] = "verify"
    BY <2>1, <2>2, <2>3
  <2>5. AfterVerify(h, answer'.outcome)
    BY <1>9, <2>4 DEF After
  <2> QED
    BY <1>1, <2>4, <2>5 DEF AfterVerify, Deliver
<1>11. h = g
  BY <1>0, <1>10, EndIs
<1>12. conn[g] # None /\ request[g] = Question(target[g], conn[g])
  BY <1>7, <1>10, <1>11 DEF StageKnows
<1>13. PICK outcome : Return(g, outcome)
  BY <1>8, <1>9, <1>11
<1>14. answer' = [call |-> g, outcome |-> outcome] /\ answer'.outcome = outcome
  BY <1>13 DEF Return
<1>15. Returns(g, outcome) /\ outcome \in Outcomes /\ IsSuccess(outcome)
  BY <1>8, <1>10, <1>11, <1>14 DEF Returns, IsSuccess, Outcomes
<1>16. Step
  BY <1>6 DEF VerifierStep, Step
<1>17. outcome = "Verified"
  BY <1>12, <1>15, <1>16, SuccessIsVerified DEF ClientInv, Question
<1> QED
  BY <1>12, <1>15, <1>16, <1>17, VerifiedStep DEF ClientInv

\* ans/agent_client.go:234-239: unless one of the two policies fails open, a response
\* reaches the caller only over a connection whose certificate the log named for the
\* host it asked for, at most the TTL and one fetch ago; wherever redirects led, and
\* whatever happened since the badge was prefetched.
THEOREM DeliveredIsVerified == ClientSpec => DeliveredWasVerified
<1>1. ClientInv /\ [ClientNext]_clientVars
        => [\A g \in Calls :
              /\ Delivers(g) /\ settings.verifyServer
              /\ settings.policy # "FailOpen" /\ config.policy = "FailClosed"
              => /\ conn[g] # None
                 /\ RegisteredWithin(Question(target[g], conn[g]), DefaultTTL + MaxLag)]_clientVars
  BY DeliveredStep
<1> QED
  BY <1>1, ClientInvariant, PTL DEF ClientSpec, DeliveredWasVerified

\* verify/cache.go:181-182 and 196-197 with verify/verify.go:46-62: a client whose
\* verifier falls back on the cache is let go on by a badge of the host, of which what it
\* says was so in the log at most the TTL, the staleness and one fetch ago.
THEOREM StalenessIsBounded == ClientSpec => StaleIsBounded
<1>1. ClientInv /\ [ClientNext]_clientVars
        => [\A g \in Calls : Returns(g, "FailOpenWithBadge") =>
              LET slot == SlotOf(request[g])
                  badge == cache[slot].badge
              IN  /\ badge.id \in Answered(slot) \cap Trusted
                  /\ badge.valid => CurrentWithin(badge.id, slot.role, badge.certs[slot.role],
                                                  DefaultTTL + MaxStaleness + MaxLag)]_vars
  <2>1. CASE ClientNext
    BY <2>1, ClientIsStep, StaleStep DEF ClientInv
  <2>2. CASE UNCHANGED clientVars
    BY <2>2 DEF clientVars
  <2> QED
    BY <2>1, <2>2
<1> QED
  BY <1>1, ClientInvariant, PTL DEF ClientSpec, StaleIsBounded

=============================================================================
