-------------------------- MODULE CallerVerification --------------------------
(***************************************************************************)
(* Authentication of an agent-to-agent caller: pop/caller.go (VerifyCaller *)
(* and its bindings), pop/verify.go (the possession proof), pop/http.go    *)
(* (Middleware, AttachIdentity) and pop/sign.go (Signer), over any replay  *)
(* cache that keeps the promise of SingleUse.                              *)
(*                                                                         *)
(* The callee serves Deliveries concurrently.  Each reads the clock once,  *)
(* checks freshness, status token, receipt and binding against that        *)
(* reading, then reads the request content, which takes time, and records  *)
(* the proof's jti last, at the cache's own later reading of the clock.    *)
(* The network may deliver a request any number of times, and altered.     *)
(*                                                                         *)
(* Signatures are abstract: a proof names the certificate that signed it,  *)
(* a status token or a receipt the agent the transparency log issued it    *)
(* for.  Whatever parses but fails to verify is left out.                  *)
(***************************************************************************)
EXTENDS Integers, FiniteSets, Sequences

CONSTANTS
  Deliveries,      \* requests reaching the callee's middleware
  Requests,        \* request objects of callers
  Proofs,          \* proofs, each with a jti of its own
  Agents,          \* ans:// names
  Certs,           \* identity certificates
  Registered,      \* agent -> the certificates its status tokens vouch for
  ansOf,           \* certificate -> the name in its ans:// SAN
  notBefore,       \* certificate -> the first time at which it is valid
  notAfter,        \* and the last
  Allowed,         \* expected-peer pins; the empty set accepts any agent
  RequireReceipt,  \* WithRequireReceipt
  popSkew,         \* freshness window of a proof's iat
  replayGrace,     \* retention of a jti past the freshness window
  statusSkew,      \* tolerance on a status token's expiry
  TokenTTL,        \* lifetime of the status tokens the log issues
  Offsets,         \* how far a caller's clock may be off
  maxEntries,      \* capacity of the replay cache
  Retention,       \* how long the cache may keep an expired entry
  MaxLag,          \* bound: time from the clock reading to the record of the jti
  MaxTokens,       \* bound: status tokens in circulation
  Start, Horizon,  \* bounds of the clock
  None             \* no such artifact

ASSUME CallerAssumption ==
  /\ popSkew \in Nat /\ replayGrace \in Nat /\ statusSkew \in Nat
  /\ TokenTTL \in Nat /\ MaxLag \in Nat /\ MaxTokens \in Nat
  /\ maxEntries \in Nat \ {0} /\ Retention \in Nat \ {0}
  /\ Start \in Nat /\ Horizon \in Nat /\ Start <= Horizon
  /\ Offsets \subseteq Int /\ \A off \in Offsets : Start + off > 0
  /\ RequireReceipt \in BOOLEAN
  /\ Allowed \subseteq Agents
  /\ Registered \in [Agents -> SUBSET Certs]
  /\ ansOf \in [Certs -> Agents]
  /\ notBefore \in [Certs -> Nat] /\ notAfter \in [Certs -> Nat]
  /\ None \notin Proofs \cup Agents \cup [cert : Certs, iat : Int]

VARIABLES
  now, mem, reply,  \* the clock and the replay cache (SingleUse)
  revokedAt,        \* when the log revoked each agent; 0: it is ACTIVE
  tokens,           \* the status tokens issued so far
  signed,           \* what each proof says; None before it is signed
  outbound,         \* the headers of each request object
  pc,               \* where the verification of each delivery is
  req,              \* what each delivery carries, kept once it passes the checks
  readAt,           \* the clock reading of each verification
  outcome           \* the answer to each delivery

worldVars == <<revokedAt, tokens>>
callerVars == <<signed, outbound>>
calleeVars == <<pc, req, readAt, outcome>>
cacheVars == <<mem, reply>>
vars == <<now, cacheVars, worldVars, callerVars, calleeVars>>

Replay == INSTANCE SingleUse WITH Keys <- Proofs, MaxEntries <- maxEntries,
                                  MaxTime <- Horizon

Time == Start..Horizon

StatusTokens ==
  [agent : Agents, exp : Start..(Horizon + TokenTTL), terminal : BOOLEAN]

-----------------------------------------------------------------------------
(* The transparency log.                                                   *)

StatusToken(a) ==
  [agent |-> a, exp |-> now + TokenTTL, terminal |-> revokedAt[a] # 0]

IssueStatusToken(a) ==
  /\ StatusToken(a) \notin tokens
  /\ Cardinality(tokens) < MaxTokens
  /\ tokens' = tokens \cup {StatusToken(a)}
  /\ UNCHANGED <<now, cacheVars, revokedAt, callerVars, calleeVars>>

Revoke(a) ==
  /\ revokedAt[a] = 0
  /\ revokedAt' = [revokedAt EXCEPT ![a] = now]
  /\ UNCHANGED <<now, cacheVars, tokens, callerVars, calleeVars>>

-----------------------------------------------------------------------------
(* The caller.                                                             *)

\* AttachIdentity: a freshly signed proof replaces the one in the DPoP header,
\* the SCITT headers are added to whatever the request already carries: the
\* first value of each is the one that is read.  A caller that is not registered
\* may still present artifacts of another agent: they are public.
AttachIdentity(q, p, c) ==
  /\ signed[p] = None
  /\ \E off \in Offsets :
       signed' = [signed EXCEPT ![p] = [cert |-> c, iat |-> now + off]]
  /\ \E st \in tokens \cup {None}, rc \in Agents \cup {None} :
       LET old == outbound[q]
           First(carried, added) == IF carried = None THEN added ELSE carried
           Both(carried, added) == carried # None /\ added # None
       IN  outbound' = [outbound EXCEPT
             ![q] = [proof |-> p,
                     statusToken |-> First(old.statusToken, st),
                     receipt |-> First(old.receipt, rc),
                     duplicated |-> old.duplicated \/ Both(old.statusToken, st)
                                                   \/ Both(old.receipt, rc)]]
  /\ UNCHANGED <<now, cacheVars, worldVars, calleeVars>>

-----------------------------------------------------------------------------
(* The callee.                                                             *)

\* Bug: the retention is the freshness window itself.
ReplayExpWithoutGrace(p) == signed[p].iat + popSkew

\* A jti is kept past the window in which its proof is fresh.
ReplayExp(p) == signed[p].iat + popSkew + replayGrace

\* checkFreshness.
Fresh(p, t) == /\ t - signed[p].iat <= popSkew
               /\ signed[p].iat - t <= popSkew

\* Bug: a token never expires.
TokenValidForever(st, t) == ~st.terminal

\* VerifyStatusTokenAt, the tests that depend on the clock and the status.
TokenValid(st, t) == t <= st.exp + statusSkew /\ ~st.terminal

\* Bug: only the name in the certificate is compared, which its holder chose.
BoundByNameOnly(d) == ansOf[signed[d.proof].cert] = d.statusToken.agent

\* verifyBinding: one agent holds the key, the token and the receipt.
Bound(d) ==
  LET cert == signed[d.proof].cert
      agent == d.statusToken.agent
  IN  /\ cert \in Registered[agent]
      /\ ansOf[cert] = agent
      /\ RequireReceipt => d.receipt = agent

\* The checks of preflight, verifyCaller and verifyProofUnrecorded that come
\* before the content is read, in the order of the code.
CheckOrder ==
  <<"duplicate header", "missing header", "certificate", "context", "stale",
    "status", "binding", "unexpected peer">>

Passes(d, t, check) ==
  CASE check = "duplicate header" -> ~d.duplicated
    [] check = "missing header" -> /\ d.statusToken # None
                                   /\ RequireReceipt => d.receipt # None
    [] check = "certificate" -> LET cert == signed[d.proof].cert
                                IN  notBefore[cert] <= t /\ t <= notAfter[cert]
    [] check = "context" -> d.altered # "context"
    [] check = "stale" -> Fresh(d.proof, t)
    [] check = "status" -> d.statusToken # None /\ TokenValid(d.statusToken, t)
    [] check = "binding" -> d.statusToken # None /\ Bound(d)
    [] check = "unexpected peer" ->
         \/ Allowed = {}
         \/ d.statusToken # None /\ d.statusToken.agent \in Allowed

Failing(d, t) == {i \in 1..Len(CheckOrder) : ~Passes(d, t, CheckOrder[i])}

\* The first failure ends the verification and names the answer.
FirstFailure(d, t) ==
  CHOOSE i \in Failing(d, t) : \A j \in Failing(d, t) : i <= j

\* Bug: a refusal leaves without an answer.
DenySilently(r, why) == /\ pc' = [pc EXCEPT ![r] = "done"]
                        /\ outcome' = [outcome EXCEPT ![r] = "pending"]

Deny(r, why) == /\ pc' = [pc EXCEPT ![r] = "done"]
                /\ outcome' = [outcome EXCEPT ![r] = why]

\* A request arrives, as it was sent or altered on the way; the handler reads
\* the clock and runs every check up to the expected-peer pins, unless the
\* client has hung up.
Arrive(r, q) ==
  /\ pc[r] = "idle"
  /\ outbound[q].proof # None
  /\ \E how \in {"nothing", "context", "content"} :
       LET d == [proof |-> outbound[q].proof, receipt |-> outbound[q].receipt,
                 statusToken |-> outbound[q].statusToken,
                 duplicated |-> outbound[q].duplicated, altered |-> how]
       IN  \/ /\ Failing(d, now) = {}
              /\ req' = [req EXCEPT ![r] = d]
              /\ readAt' = [readAt EXCEPT ![r] = now]
              /\ pc' = [pc EXCEPT ![r] = "reading"]
              /\ UNCHANGED outcome
           \/ /\ Failing(d, now) # {}
              /\ Deny(r, CheckOrder[FirstFailure(d, now)])
              /\ UNCHANGED <<req, readAt>>
           \/ /\ Passes(d, now, "duplicate header")
              /\ Deny(r, "client gone")
              /\ UNCHANGED <<req, readAt>>
  /\ UNCHANGED <<now, cacheVars, worldVars, callerVars>>

\* Bug: the jti is recorded before the content is compared.
CheckContentAfterRecord(r) ==
  /\ pc[r] = "reading"
  /\ \/ /\ req[r].altered = "content"
        /\ Replay!Stored(req[r].proof, ReplayExp(req[r].proof))
        /\ Deny(r, "content mismatch")
     \/ /\ req[r].altered # "content"
        /\ pc' = [pc EXCEPT ![r] = "committing"]
        /\ UNCHANGED <<now, cacheVars, outcome>>
  /\ UNCHANGED <<worldVars, callerVars, req, readAt>>

\* checkContent: the content could not be read (the client is gone, or it is
\* too large), is not what the proof binds, or matches.
CheckContent(r) ==
  /\ pc[r] = "reading"
  /\ \/ Deny(r, "content unreadable")
     \/ req[r].altered = "content" /\ Deny(r, "content mismatch")
     \/ /\ req[r].altered # "content"
        /\ pc' = [pc EXCEPT ![r] = "committing"]
        /\ UNCHANGED outcome
  /\ UNCHANGED <<now, cacheVars, worldVars, callerVars, req, readAt>>

\* commitReplay: the jti is recorded at the cache's own reading of the clock.
CommitReplay(r) ==
  /\ pc[r] = "committing"
  /\ LET p == req[r].proof
     IN  \/ Replay!Seen(p) /\ Deny(r, "replay")
         \/ Replay!Full(p) /\ Deny(r, "cache full")
         \/ /\ Replay!Stored(p, ReplayExp(p))
            /\ pc' = [pc EXCEPT ![r] = "done"]
            /\ outcome' = [outcome EXCEPT ![r] = "accepted"]
  /\ UNCHANGED <<worldVars, callerVars, req, readAt>>

\* The cache sweeps on its own.
SweepCache == /\ Replay!Sweep
              /\ mem' # mem
              /\ UNCHANGED <<worldVars, callerVars, calleeVars>>

-----------------------------------------------------------------------------

NoHeaders ==
  [proof |-> None, statusToken |-> None, receipt |-> None, duplicated |-> FALSE]

\* Every agent is registered and holds a status token.
Init ==
  /\ now = Start
  /\ mem = [k \in {} |-> 0]
  /\ reply \in [key : Proofs, verdict : {"none"}]
  /\ revokedAt = [a \in Agents |-> 0]
  /\ tokens = {StatusToken(a) : a \in Agents}
  /\ signed = [p \in Proofs |-> None]
  /\ outbound = [q \in Requests |-> NoHeaders]
  /\ pc = [r \in Deliveries |-> "idle"]
  /\ req = [r \in Deliveries |-> None]
  /\ readAt = [r \in Deliveries |-> 0]
  /\ outcome = [r \in Deliveries |-> "pending"]

\* Time passes.  That a verification takes at most MaxLag from its clock
\* reading to the record is an assumption on the embedding server (its read
\* timeout): the code sets no bound.
Tick ==
  /\ now < Horizon
  /\ \A r \in Deliveries : pc[r] \in {"reading", "committing"} =>
                             now < readAt[r] + MaxLag
  /\ now' = now + 1
  /\ UNCHANGED <<cacheVars, worldVars, callerVars, calleeVars>>

Next ==
  \/ Tick
  \/ SweepCache
  \/ \E a \in Agents : IssueStatusToken(a) \/ Revoke(a)
  \/ \E q \in Requests, p \in Proofs, c \in Certs : AttachIdentity(q, p, c)
  \/ \E r \in Deliveries : \/ \E q \in Requests : Arrive(r, q)
                           \/ CheckContent(r)
                           \/ CommitReplay(r)

Spec == Init /\ [][Next]_vars

-----------------------------------------------------------------------------
(* Correctness.                                                            *)

Headers ==
  [proof : Proofs \cup {None}, statusToken : StatusTokens \cup {None},
   receipt : Agents \cup {None}, duplicated : BOOLEAN]

Delivered ==
  [proof : Proofs, statusToken : StatusTokens \cup {None},
   receipt : Agents \cup {None}, duplicated : BOOLEAN,
   altered : {"nothing", "context", "content"}]

Outcomes ==
  {"pending", "accepted", "replay", "cache full", "client gone",
   "content unreadable", "content mismatch"} \cup {CheckOrder[i] : i \in 1..Len(CheckOrder)}

\* The shape of the state, and that a delivery is answered when it is done.
TypeOK ==
  /\ now \in Time
  /\ DOMAIN mem \subseteq Proofs
  /\ \A p \in DOMAIN mem : mem[p] \in Int
  /\ reply \in [key : Proofs, verdict : Replay!Verdicts]
  /\ revokedAt \in [Agents -> {0} \cup Time]
  /\ tokens \subseteq StatusTokens
  /\ signed \in [Proofs -> {None} \cup [cert : Certs, iat : Int]]
  /\ outbound \in [Requests -> Headers]
  /\ pc \in [Deliveries -> {"idle", "reading", "committing", "done"}]
  /\ req \in [Deliveries -> {None} \cup Delivered]
  /\ readAt \in [Deliveries -> {0} \cup Time]
  /\ outcome \in [Deliveries -> Outcomes]
  /\ \A r \in Deliveries : pc[r] = "done" <=> outcome[r] # "pending"

accepted(r) == outcome[r] = "accepted"

\* pop/doc.go:50-51 and pop/verify.go:26-28: the jti defeats replay.  However
\* often, late and concurrently a proof is delivered, one delivery of it
\* reaches the handler.
AtMostOnce ==
  \A r, s \in Deliveries :
    accepted(r) /\ accepted(s) /\ req[r].proof = req[s].proof => r = s

\* pop/verify.go:308-310 and pop/caller.go:285-288: a slot of the bounded cache
\* is held only by a proof that passed every check.
SlotsHeldByAccepted ==
  \A p \in DOMAIN mem : \E r \in Deliveries : accepted(r) /\ req[r].proof = p

\* pop/verify.go:88-89: the replay is recorded last.  So a delivery refused as
\* a replay was preceded by one that was served: no request is lost because
\* another delivery of it failed half way.
ReplayMeansAnotherServed ==
  \A r \in Deliveries : outcome[r] = "replay" =>
    \E s \in Deliveries : accepted(s) /\ req[s].proof = req[r].proof

\* pop/doc.go:20-33: the caller that is served is the agent whose registered
\* key signed the proof, whichever public artifacts it came with.
CallerIsSigner ==
  \A r \in Deliveries : accepted(r) =>
    LET c == signed[req[r].proof].cert IN c \in Registered[ansOf[c]]
                                          /\ req[r].statusToken.agent = ansOf[c]

\* pop/doc.go:24-25: liveness.  Once the log revoked an agent, status tokens
\* that still call it live run out: no verification that starts after their
\* lifetime and the clock tolerance accepts it.
RevocationTakesEffect ==
  \A r \in Deliveries : accepted(r) =>
    LET agent == req[r].statusToken.agent
    IN  revokedAt[agent] = 0 \/ readAt[r] <= revokedAt[agent] + TokenTTL + statusSkew
=============================================================================
