-------------------------- MODULE BadgeVerification --------------------------
(***************************************************************************)
(* Verification of certificates against badges (verify/verify.go): calls   *)
(* of ServerVerifier.Verify, ClientVerifier.Verify and Prefetch that share *)
(* a cache with each other and with its background refresh, while the log  *)
(* renews certificates and revokes agents, and DNS and the log fail.       *)
(*                                                                         *)
(* A fingerprint stands for its certificate.  The statuses of a badge are  *)
(* abstracted to whether they allow connections.  The name in a            *)
(* certificate has one host: its FQDN and that of its ANS name.            *)
(***************************************************************************)
EXTENDS BadgeCache

CONSTANTS
  Calls,        \* goroutines that verify or prefetch
  Refresher,    \* the goroutine of StartBackgroundRefresh
  Badges,       \* badges there are, by URL
  Trusted,      \* those whose URL the validator accepts: the log's own
  Certs,
  nameOf,       \* the host and version in a badge
  nameIn,       \* the host and version in a certificate; None: it has none
  InitialLog,   \* [valid, certs] of each badge, at the start
  Renewals,     \* certificates an agent may register later in each role
  DnsAnswers,   \* [ansBadge, raBadge]: what DNS may answer for each host
  TlsaAnswers,  \* and what to a lookup of TLSA records
  keyOf, FingerprintOnly, \* what DANE knows of certificates
  Requests,     \* what may be asked: [role, host, version, cert]; no cert: Prefetch
  Configs,      \* how the verifiers may be configured and used:
                \* [policy, dane, cached, asked]
  MaxStaleness, \* FailurePolicyConfig.MaxStaleness
  MaxLag,       \* bound: from the log's answer to the end of a call or refresh
  MaxTime       \* bound of the clock

Roles == {"server", "client"}
Goroutines == Calls \cup {Refresher}

\* What a call may answer.
Outcomes == {"Prefetched", "Verified", "InvalidStatus", "FingerprintMismatch",
             "HostnameMismatch", "AnsNameMismatch", "DANERejection",
             "CertError", "DNSError", "TlogError", "NotAnsAgent", "URLValidationError",
             "FailOpen", "FailOpenWithBadge"}
Answers == [call : Calls, outcome : Outcomes]

LogStates == [valid : BOOLEAN, certs : [Roles -> Certs]]

ASSUME VerificationAssumption ==
  /\ Refresher \notin Calls /\ Trusted \subseteq Badges
  /\ None \notin Badges \cup Certs \cup Int \cup Answers
  /\ InitialLog \in [Badges -> LogStates] /\ Renewals \in [Roles -> SUBSET Certs]
  /\ Requests \subseteq [role : Roles, host : Hosts, version : Versions \cup {None},
                         cert : Certs \cup {None}]
  /\ \A r \in Requests :
       /\ r.role = "server" <=> r.version = None
       /\ r.role = "client" => /\ r.cert # None
                               /\ nameIn[r.cert] = [host |-> r.host, version |-> r.version]
  /\ Configs \subseteq [policy : {"FailClosed", "FailOpenWithCache", "FailOpen"},
                        dane : BOOLEAN, cached : BOOLEAN, asked : SUBSET Requests]
  /\ MaxStaleness \in Nat /\ MaxLag \in Nat /\ MaxTime \in Nat

VARIABLES
  log,       \* what the log answers for each badge
  config,    \* the failure policy, whether there are a DANE resolver and a cache,
             \* and what the program asks
  pc,        \* where each goroutine is
  request,   \* what each call is asked
  url,       \* the badge each goroutine asks the log for
  fetched,   \* the badge each goroutine got
  readAt,    \* when it was read
  pending,   \* slots the refresh has still to go through
  answer,    \* who returned in the last step, and the outcome; or None
  ended,     \* history: when a certificate ceased to be the one of a badge
  begun      \* history: when the certificate of a badge became its own

calls == <<pc, request, url, fetched, readAt>>
logVars == <<log, ended, begun>>
vars == <<now, cache, logVars, config, calls, pending, answer>>

Nothing == [role |-> None]

SlotOf(r) == [role |-> r.role, host |-> r.host, version |-> r.version]

Goto(g, where) == pc' = [pc EXCEPT ![g] = where] /\ answer' = None

-----------------------------------------------------------------------------
(* Choosing a record, and judging a certificate by a badge.                *)

INSTANCE Discovery

Chosen(r, records) ==
  IF r.role = "server" THEN Preferred(records) ELSE ForVersion(records, r.version)

\* verifyWithBadge of the server verifier; a certificate need not have a name.
JudgeServer(r, badge) ==
  LET host == nameOf[badge.id].host
  IN  IF ~badge.valid THEN "InvalidStatus"
      ELSE IF badge.certs["server"] # r.cert THEN "FingerprintMismatch"
      ELSE IF host # r.host \/ nameIn[r.cert].host \notin {None, host}
           THEN "HostnameMismatch"
      ELSE "Verified"

\* verifyWithBadge of the client verifier.
JudgeClient(r, badge) ==
  IF ~badge.valid THEN "InvalidStatus"
  ELSE IF badge.certs["client"] # r.cert THEN "FingerprintMismatch"
  ELSE IF nameOf[badge.id].host # r.host THEN "HostnameMismatch"
  ELSE IF nameOf[badge.id] # nameIn[r.cert] THEN "AnsNameMismatch"
  ELSE "Verified"

Judge(r, badge) ==
  IF r.role = "server" THEN JudgeServer(r, badge) ELSE JudgeClient(r, badge)

-----------------------------------------------------------------------------
(* ServerVerifier.Verify, ClientVerifier.Verify and Prefetch.              *)

\* A goroutine is asked.
Begin(g, r) ==
  /\ pc[g] = "idle"
  /\ request' = [request EXCEPT ![g] = r]
  /\ Goto(g, "cache")
  /\ UNCHANGED <<now, cache, logVars, config, url, fetched, readAt, pending>>

\* ClientVerifier.Verify of a certificate without an FQDN or without an ANS name.
RefuseUnnamed(g) ==
  /\ pc[g] = "idle"
  /\ \E r \in config.asked : r.role = "client"
  /\ \E c \in Certs : None \in {nameIn[c].host, nameIn[c].version}
  /\ answer' = [call |-> g, outcome |-> "CertError"]
  /\ UNCHANGED <<now, cache, logVars, config, calls, pending>>

Return(g, result) ==
  /\ answer' = [call |-> g, outcome |-> result]
  /\ request' = [request EXCEPT ![g] = Nothing]
  /\ url' = [url EXCEPT ![g] = None]
  /\ fetched' = [fetched EXCEPT ![g] = None]
  /\ readAt' = [readAt EXCEPT ![g] = None]
  /\ pc' = [pc EXCEPT ![g] = "idle"]

\* Bug: a cached badge is final, the certificate in it may be an old one.
CheckCacheFinal(g) ==
  LET r == request[g]
      hit == config.cached /\ Hit(SlotOf(r))
      result == IF r.cert = None THEN "Prefetched"
                ELSE Judge(r, cache[SlotOf(r)].badge)
  IN  /\ pc[g] = "cache"
      /\ IF hit
         THEN Return(g, result)
         ELSE Goto(g, "dns") /\ UNCHANGED <<request, url, fetched, readAt>>
      /\ UNCHANGED <<now, cache, logVars, config, pending>>

\* The cache comes first.  A server whose certificate is not the cached one may
\* have renewed it, and the badge is fetched; any other answer is returned.
CheckCache(g) ==
  LET r == request[g]
      hit == config.cached /\ Hit(SlotOf(r))
      result == IF r.cert = None THEN "Prefetched"
                ELSE Judge(r, cache[SlotOf(r)].badge)
      renewed == r.role = "server" /\ result = "FingerprintMismatch"
  IN  /\ pc[g] = "cache"
      /\ IF hit /\ ~renewed
         THEN Return(g, result)
         ELSE Goto(g, "dns") /\ UNCHANGED <<request, url, fetched, readAt>>
      /\ UNCHANGED <<now, cache, logVars, config, pending>>

\* applyFailurePolicy.
ApplyFailurePolicy(g, error) ==
  Return(g, CASE config.policy = "FailClosed" -> error
              [] config.policy = "FailOpen" -> "FailOpen"
              [] config.policy = "FailOpenWithCache" ->
                   IF config.cached /\ StaleHit(SlotOf(request[g]), MaxStaleness)
                   THEN "FailOpenWithBadge" ELSE error)

\* fetchBadge, its first half: the record of the host in DNS.
Resolve(g) ==
  /\ pc[g] = "dns"
  /\ \E answers \in DnsAnswers[request[g].host] :
       LET found == LookupAnsBadge(answers)
           chosen == Chosen(request[g], found.records)
       IN  \/ found.error # None /\ ApplyFailurePolicy(g, "DNSError")
           \/ found.error = None /\ chosen = {} /\ Return(g, "NotAnsAgent")
           \/ \E r \in chosen :
                \/ ~Validate(r, Trusted) /\ Return(g, "URLValidationError")
                \/ /\ Validate(r, Trusted)
                   /\ url' = [url EXCEPT ![g] = r.badge]
                   /\ Goto(g, "log")
                   /\ UNCHANGED <<request, fetched, readAt>>
  /\ UNCHANGED <<now, cache, logVars, config, pending>>

\* The badge as the log has it now.
Current(id) == [id |-> id, valid |-> log[id].valid, certs |-> log[id].certs]

\* fetchBadge, its second half: the badge of that record in the log.  No answer,
\* a badge that is not there, any other status and a body that does not decode
\* are errors alike.
FetchBadge(g) ==
  /\ pc[g] = "log"
  /\ \/ ApplyFailurePolicy(g, "TlogError")
     \/ /\ fetched' = [fetched EXCEPT ![g] = Current(url[g])]
        /\ readAt' = [readAt EXCEPT ![g] = now]
        /\ url' = [url EXCEPT ![g] = None]
        /\ Goto(g, "insert")
        /\ UNCHANGED <<request>>
  /\ UNCHANGED <<now, cache, logVars, config, pending>>

\* The badge is cached, then the certificate judged by it.
InsertFetched(g) ==
  LET r == request[g]
      result == IF r.cert = None THEN "Prefetched" ELSE Judge(r, fetched[g])
  IN  /\ pc[g] = "insert"
      /\ IF config.cached THEN Insert(SlotOf(r), fetched[g]) ELSE UNCHANGED cache
      /\ IF result = "Verified" /\ config.dane
         THEN Goto(g, "dane") /\ UNCHANGED <<request, url, fetched, readAt>>
         ELSE Return(g, result)
      /\ UNCHANGED <<now, logVars, config, pending>>

\* verifyDANE: when the lookup fails, finds no record or is not authenticated,
\* the badge decides.
VerifyDANE(g) ==
  /\ pc[g] = "dane"
  /\ \E tlsa \in TlsaAnswers[request[g].host] :
       Return(g, IF IsReject(DANEOutcome(request[g].cert, tlsa))
                 THEN "DANERejection" ELSE "Verified")
  /\ UNCHANGED <<now, cache, logVars, config, pending>>

-----------------------------------------------------------------------------
(* The background refresh.                                                 *)

\* A tick of backgroundRefreshLoop that finds something to refresh.
RefreshExpiring ==
  /\ pc[Refresher] = "idle"
  /\ Expiring # {}
  /\ pending' = Expiring
  /\ Goto(Refresher, "refresh")
  /\ UNCHANGED <<now, cache, logVars, config, request, url, fetched, readAt>>

Refreshed(slot) ==
  /\ pending' = pending \ {slot}
  /\ Goto(Refresher, IF pending' = {} THEN "idle" ELSE "refresh")

\* Bug: the refresh function answers from the cache, as Prefetch does.
RefreshFnCached ==
  /\ pc[Refresher] = "refresh"
  /\ \E slot \in pending :
       /\ Hit(slot)
       /\ request' = [request EXCEPT ![Refresher] = slot]
       /\ fetched' = [fetched EXCEPT ![Refresher] = cache[slot].badge]
       /\ readAt' = [readAt EXCEPT ![Refresher] = now]
       /\ Goto(Refresher, "store")
  /\ UNCHANGED <<now, cache, logVars, config, url, pending>>

\* refreshFn answers with a fresh badge of the log, as RefreshFunc should.
RefreshFn ==
  /\ pc[Refresher] = "refresh"
  /\ \E slot \in pending : \E answers \in DnsAnswers[slot.host] :
     \E r \in Preferred(LookupAnsBadge(answers).records) :
       /\ Validate(r, Trusted)
       /\ request' = [request EXCEPT ![Refresher] = slot]
       /\ fetched' = [fetched EXCEPT ![Refresher] = Current(r.badge)]
       /\ readAt' = [readAt EXCEPT ![Refresher] = now]
       /\ Goto(Refresher, "store")
  /\ UNCHANGED <<now, cache, logVars, config, url, pending>>

\* Bug: the answer of a refresh function that failed is stored.
RefreshFnFailsStored ==
  /\ pc[Refresher] = "refresh"
  /\ \E slot \in pending : Insert(slot, None) /\ Refreshed(slot)
  /\ UNCHANGED <<now, logVars, config, request, url, fetched, readAt>>

\* refreshFn fails: the old entry stays.
RefreshFnFails ==
  /\ pc[Refresher] = "refresh"
  /\ \E slot \in pending : Refreshed(slot)
  /\ UNCHANGED <<now, cache, logVars, config, request, url, fetched, readAt>>

RefreshInsert ==
  /\ pc[Refresher] = "store"
  /\ Insert(request[Refresher], fetched[Refresher])
  /\ Refreshed(request[Refresher])
  /\ request' = [request EXCEPT ![Refresher] = Nothing]
  /\ fetched' = [fetched EXCEPT ![Refresher] = None]
  /\ readAt' = [readAt EXCEPT ![Refresher] = None]
  /\ UNCHANGED <<now, logVars, config, url>>

ClearCache ==
  /\ Clear
  /\ answer' = None
  /\ UNCHANGED <<now, logVars, config, calls, pending>>

-----------------------------------------------------------------------------
(* The log.                                                                *)

Never == [id \in Badges |-> [role \in Roles |-> [c \in Certs |-> None]]]

\* The agent of a badge registers another certificate.  One that is never asked
\* about makes no difference.
Renew(id, role) ==
  /\ log[id].valid
  /\ \E c \in Renewals[role] \ {log[id].certs[role]} :
       /\ nameIn[c] = nameOf[id]
       /\ \E r \in config.asked : r.role = role /\ r.cert = c
       /\ log' = [log EXCEPT ![id].certs[role] = c]
       /\ ended' = [ended EXCEPT ![id][role][log[id].certs[role]] = now]
       /\ begun' = [begun EXCEPT ![id][role] = now]
  /\ answer' = None
  /\ UNCHANGED <<now, cache, config, calls, pending>>

Revoke(id) ==
  /\ log[id].valid
  /\ log' = [log EXCEPT ![id].valid = FALSE]
  /\ ended' = [ended EXCEPT ![id] =
       [role \in Roles |-> [ended[id][role] EXCEPT ![log[id].certs[role]] = now]]]
  /\ answer' = None
  /\ UNCHANGED <<now, cache, config, calls, pending, begun>>

-----------------------------------------------------------------------------

\* NewAnsVerifier with a cache; the two verifiers share their configuration.
Init ==
  /\ now = 0
  /\ cache = [s \in {} |-> {}]
  /\ log = InitialLog
  /\ config \in Configs
  /\ pc = [g \in Goroutines |-> "idle"]
  /\ request = [g \in Goroutines |-> Nothing]
  /\ url = [g \in Goroutines |-> None]
  /\ fetched = [g \in Goroutines |-> None]
  /\ readAt = [g \in Goroutines |-> None]
  /\ answer = None
  /\ pending = {}
  /\ ended = Never
  /\ begun = [id \in Badges |-> [role \in Roles |-> 0]]

\* Time passes; what was read from the log is used in time.
Tick ==
  /\ now < MaxTime
  /\ \A g \in Goroutines : readAt[g] # None => now < readAt[g] + MaxLag
  /\ now' = now + 1
  /\ answer' = None
  /\ UNCHANGED <<cache, logVars, config, calls, pending>>

Next ==
  \/ Tick
  \/ \E g \in Calls : \/ \E r \in config.asked : Begin(g, r)
                      \/ RefuseUnnamed(g) \/ CheckCache(g) \/ Resolve(g)
                      \/ FetchBadge(g) \/ InsertFetched(g) \/ VerifyDANE(g)
  \/ RefreshExpiring \/ RefreshFn \/ RefreshFnFails \/ RefreshInsert \/ ClearCache
  \/ \E id \in Trusted : Revoke(id) \/ \E role \in Roles : Renew(id, role)

Spec == Init /\ [][Next]_vars

-----------------------------------------------------------------------------
(* Correctness.                                                            *)

BadgeStates == [id : Badges, valid : BOOLEAN, certs : [Roles -> Certs]]

\* The shape of the state.
TypeOK ==
  /\ now \in 0..MaxTime
  /\ DOMAIN cache \subseteq Slots
  /\ \A s \in DOMAIN cache : /\ cache[s].badge \in BadgeStates
                             /\ cache[s].expiresAt \in 0..(MaxTime + DefaultTTL)
  /\ log \in [Badges -> LogStates]
  /\ config \in Configs
  /\ pc \in [Goroutines -> {"idle", "cache", "dns", "log", "insert", "dane",
                            "refresh", "store"}]
  /\ request \in [Goroutines -> Requests \cup ServerSlots \cup {Nothing}]
  /\ \A g \in Calls : request[g] \in Requests \cup {Nothing}
  /\ url \in [Goroutines -> Badges \cup {None}]
  /\ fetched \in [Goroutines -> BadgeStates \cup {None}]
  /\ readAt \in [Goroutines -> (0..MaxTime) \cup {None}]
  /\ pending \subseteq ServerSlots
  /\ answer \in Answers \cup {None}
  /\ ended \in [Badges -> [Roles -> [Certs -> (0..MaxTime) \cup {None}]]]
  /\ begun \in [Badges -> [Roles -> 0..MaxTime]]

Returns(g, result) == answer' = [call |-> g, outcome |-> result] /\ pc[g] # "idle"

\* A badge of the log names the certificate for what is asked.
Names(id, r) == /\ id \in Trusted /\ nameOf[id].host = r.host
                /\ r.role = "client" => nameOf[id].version = r.version

\* The certificate is the one of a badge, or was at most so long ago.
CurrentWithin(id, role, cert, long) ==
  \/ log[id].valid /\ log[id].certs[role] = cert
  \/ ended[id][role][cert] # None /\ now - ended[id][role][cert] <= long

\* The certificate is the registered one, or was at most so long ago.
RegisteredWithin(r, long) ==
  \E id \in Badges : Names(id, r) /\ CurrentWithin(id, r.role, r.cert, long)

\* verify/cache.go:26-27 with verify/verify.go:117-162 and 298-350: whichever
\* calls and refreshes race for the cache, and whatever DNS answers, a
\* certificate is verified only if the log named it for this host, role and
\* version at most the TTL and the duration of one fetch ago.
VerifiedWasRegistered ==
  [][\A g \in Calls : Returns(g, "Verified") =>
       RegisteredWithin(request[g], DefaultTTL + MaxLag)]_vars

\* The badges DNS may lead a verifier to.
Answered(r) ==
  {record.badge : record \in
     UNION {Chosen(r, LookupAnsBadge(answers).records) : answers \in DnsAnswers[r.host]}}

\* verify/verify.go:131-132 and 320-325: the cached badge "may be stale after
\* cert renewal".  A server is told that its certificate does not match only if
\* one of its badges did not name it all the time the answer may take; a client,
\* which is refused from the cache, all that time and the TTL.
RenewalTakesEffect ==
  [][\A g \in Calls : Returns(g, "FingerprintMismatch") =>
       LET r == request[g]
           long == IF r.role = "server" THEN MaxLag ELSE DefaultTTL + MaxLag
       IN  \E id \in Answered(r) \cap Trusted :
             ~( /\ log[id].valid /\ log[id].certs[r.role] = r.cert
                /\ now - begun[id][r.role] > long)]_vars

\* The certificate is not one that some answer of DNS rejects.
NotRejected(r) ==
  \A tlsa \in TlsaAnswers[r.host] : ~IsReject(DANEOutcome(r.cert, tlsa))

\* verify/options.go:104-106: DANE rejection "overrides a successful badge
\* check".  A certificate that TLSA records may reject is verified only by a call
\* that has looked them up.
DANEOverrides ==
  [][\A g \in Calls : config.dane /\ Returns(g, "Verified") =>
       NotRejected(request[g]) \/ pc[g] = "dane"]_vars

\* verify/cache.go:181-182 and 196-197 with verify/verify.go:46-62: when DNS or the
\* log fails, the policy FailOpenWithCache accepts on a badge of the host that may
\* have expired for as long as the staleness: what it says was so in the log at
\* most the TTL, the staleness and the duration of one fetch ago.  This is not the
\* bound of verify/policy.go:23, which calls the staleness "the maximum age of a
\* cached badge to accept": the code counts it from the expiry of the entry.
StaleIsBounded ==
  [][\A g \in Calls : Returns(g, "FailOpenWithBadge") =>
       LET slot == SlotOf(request[g])
           badge == cache[slot].badge
       IN  /\ badge.id \in Answered(slot) \cap Trusted
           /\ badge.valid => CurrentWithin(badge.id, slot.role, badge.certs[slot.role],
                                           DefaultTTL + MaxStaleness + MaxLag)]_vars
=============================================================================
