# Verification of ans-sdk-go

TLA+ models of the Go SDK of the Agent Name Service, with the TLC
configurations that check them on small instances and the TLAPS proofs that
carry the most important results to every size. Paths are relative to the
repository; `PROJECT.json` lists components, runs, mutants, the map from
definitions to source lines, findings, hazards and theorems.

## 1. The system

An agent has a host, a version and two certificates: a server certificate and an
identity certificate whose SAN holds its `ans://` name. A transparency log
publishes three artifacts about it: a *badge* (status, registered fingerprints),
found through a DNS record, and, for SCITT, a *receipt* (its registration is in
the log) and a short-lived *status token* (it is active, with these certificates).
The SDK is a library without persistent state; only its command-line tool leaves
something behind, key and request files and the place a user has read the event
feed to. What is hard is that the library's objects are shared by the goroutines of the
program that embeds it, talk to services that fail or answer late, and compare
times read at different moments.

| Component | State it keeps | Operations that change it | What it interacts with |
| --- | --- | --- | --- |
| Replay cache (`pop/replay.go`) | `index` (key → expiry) and `buckets` (generation → keys) under one mutex; the janitor | `CheckAndStore`, the janitor's sweep, `Close` | called last by every verification of a caller |
| Caller verification (`pop/caller.go`, `verify.go`, `http.go`) | none of its own beyond the request being served; the replay cache | `Middleware`/`VerifyCaller`, `AttachIdentity` | replay cache; status tokens and receipts; the clock; the request content |
| Key store (`verify/scitt/refreshable_key_store.go`, `root_keys.go`) | immutable snapshot of keys, `lastRefreshed`, `refreshGate` | `RefreshIfCooldownElapsed`, `DoRefresh`, the background loop | the log; every verification of a token or receipt reads the snapshot |
| Header supplier (`verify/scitt/supplier.go`) | receipt, token and expiry, `initialized`, `lastError`, `initGate` | `CurrentHeaders`, `RefreshNow`, the auto-refresh loop | the log; `AttachIdentity` takes its headers |
| Badge cache (`verify/cache.go`) | entries by host and by host and version | lookups, `Insert`, `InsertForVersion`, cleanup, `Clear`, background refresh | both verifiers |
| Badge verification (`verify/verify.go`) | a shared badge cache | `Verify` of servers and clients, `Prefetch`, `VerifyWithScitt` | DNS, the log, TLSA records, the failure policy |
| SCITT artifacts (`verify/scitt/{cose,receipt,status_token,merkle,checkpoint}.go`) | none | parsing and verification | key store; `VerifyWithScitt`; the log's client (`client.go`) |
| SCITT artifact caches (`verify/scitt/cache.go`) | entries by agent and the order of their insertion | `Insert`, `Get`, `Invalidate` | whoever verified the artifact |
| DNS, DANE and log sources (`verify/dns_resolver.go`, `badge_record.go`, `url_validator.go`, `dane.go`, `tlog.go`) | none | lookups | badge verification |
| Agent client (`ans/agent_client.go`) | the TLS state of a connection | `Do`: prefetch, request, verification of the peer; `Prefetch` | badge verification |
| Command-line tool (`cmd/ans-cli`), with `keygen` and `csrvalidation` | the cursor of `events`; `.key` and `.csr` files | `events`, `generate-csr`, `register`, `submit-*-csr` | the registry, through the REST client (`ans/client.go`) |
| Wire models, the other REST calls and commands | none | stateless calls | the registry and the log |

What makes each one correct, and what is hard about it:

* **Replay cache**: a recorded key is answered "seen" until its expiry, whatever
  is evicted, swept or recorded again in between; it never exceeds its capacity,
  and it drains. Hard: two structures that must agree, generations whose edge is
  not the expiry of their members, capacity.
* **Caller verification**: one delivery of a proof is served; only served proofs
  use up the cache; the caller that is served is the one whose registered key
  signed; a revoked agent is refused in bounded time. Hard: one early reading of
  the clock and one late one with the reading of the content in between;
  concurrent deliveries of one proof; public artifacts that anybody can attach.
* **Key store**: a key once trusted is neither lost nor renamed by overlapping
  refreshes; refreshes on demand are spaced; no caller waits for ever.
* **Header supplier**: no expired token is handed out; it is initialised once;
  one failed refresh does not cost the token; every call returns.
* **Badge verification**: a verified certificate was registered for this host,
  role and version at most a bounded time ago; a renewal takes effect in spite of
  the cache; failure policies and DANE do what their documentation says.
* **SCITT artifacts**: a receipt held against a signed tree head proves inclusion,
  and every receipt the log issues passes; a note is accepted whatever the order
  of its lines; headers that do not vouch for a certificate never leave the
  decision to the weaker badge. Hard: trees that are not full, defects in any
  field, the sum of an expiry and a tolerance at the end of its type.
* **Artifact caches**: what comes out can be relied on at that time; the order list
  and the map agree.
* **Proof of possession**: a request verifies however its URL is spelled, and
  nowhere but where it was meant for.
* **Agent client**: a response reaches the program only from the host it asked for.
  Hard: two policies, a prefetched badge that may be old by the time of the
  handshake, redirects.
* **Command-line tool**: no event is skipped between pages, failures and restarts;
  a certificate is requested only for a key that has been saved.

The hazards are listed one by one, at their lines, in `PROJECT.json`.

## 2. Modules

| Module | Models | Uses |
| --- | --- | --- |
| `SingleUse` | what a replay cache promises (abstract) | |
| `ReplayCache` | `MemoryReplayCache`, the detailed cache | implements `SingleUse` |
| `CallerVerification` | middleware, verification and signing around any cache | `INSTANCE SingleUse` |
| `RefreshableKeyStore` | the key store | |
| `HeaderSupplier` | the supplier | |
| `BadgeCache` | operations of the badge cache | |
| `Discovery` | what a verifier makes of TXT and TLSA records and URLs | |
| `BadgeVerification` | verifiers and background refresh over the cache | `EXTENDS BadgeCache`, `INSTANCE Discovery` |
| `AgentClient` | the verifying HTTP client | `EXTENDS BadgeVerification` |
| `MerkleTree` | hashes and inclusion paths, beside the definition of the tree's root | |
| `CheckpointNote` | signed tree heads | `EXTENDS MerkleTree` |
| `ScittArtifacts` | receipts, status tokens, fetching keys, `VerifyWithScitt` | `EXTENDS CheckpointNote` |
| `ArtifactCache` | the two FIFO caches | |
| `PossessionProof` | signing a proof and binding it to a request | |
| `ArtifactUse` | a peer that uses the four before, against an honest log | `EXTENDS` them |
| `EventFeed` | the command `events` and the REST call under it | |
| `CertificateRequests` | `generate-csr`, `register`, `submit-*-csr` over files | |
| `CommandLine` | sessions of a user of the tool | `EXTENDS EventFeed`, `INSTANCE CertificateRequests` |
| `MC…` | values of the constants for TLC | |
| `ReplayCacheProofs`, `RefreshableKeyStoreProofs`, `HeaderSupplierProofs` | theorems about the module they are named for | `EXTENDS` it |
| `CallerVerificationProofs` | theorems about `CallerVerification`: single use; trust and revocation | `EXTENDS CallerVerification` |
| `AgentClientProofs` | theorems about `BadgeVerification` and `AgentClient` | `EXTENDS AgentClient` |
| `MerkleTreeProofs` | theorems about the walk along inclusion paths | `EXTENDS MerkleTree` |
| `ArtifactUseProofs` | theorems about the caches, headers, proofs of possession, receipts and checkpoints | `EXTENDS ArtifactUse`, `MerkleTreeProofs` |
| `CommandLineProofs` | theorems about the event feed and the files of requests | `EXTENDS CommandLine` |

`CallerVerification` is composed with the *promise* of the cache and not with one
cache; `ReplayCache` is shown to keep the promise (run `replay_cache`, theorem
`Implements`), so what holds of the composition holds with `MemoryReplayCache`.

### How state and steps correspond to the code

**Granularity.** What a method does while it holds a mutex is one step. What it
does between two locks, or around a network call, is split at exactly these
points: the goroutine's place is `pc[g]`, its locals are functions of `g`.

* `ReplayCache`: `cache.index` and `cache.buckets` are the two maps;
  `evictLocked`, `removeLocked`, `addLocked` and `bucketOf` keep their names.
  `CheckAndStore` evicts, answers *seen* for a live key, drops an expired entry
  whose generation has not passed, refuses when full, records otherwise.
  `granted` is a history variable: the expiry under which a key was last recorded.
* `CallerVerification`: `Arrive` is everything from `preflight` to the expected-peer
  pins at one reading of the clock (`readAt`); `CheckOrder` keeps the order of the
  checks because the first failure names the answer. `CheckContent` reads and
  compares the content. `CommitReplay` records the jti at the cache's own reading
  of the clock. Between them time passes and other deliveries run. A request may
  be delivered any number of times, and with another method or URL
  (`"context"`) or another body (`"content"`). A proof names the certificate that
  signed it, an artifact the agent it was issued for: signatures are assumed to
  be unforgeable, and what does not verify is left out. The log issues tokens and
  revokes agents.
* `RefreshableKeyStore`: the check without the gate, the gate, the check behind
  it, the fetch (which fails or answers with one of `Responses`), the merge into
  the snapshot *of that moment*. Direct calls and the background loop skip the
  gate. In static mode (no client) every operation is a no-op. A key string is
  its key id and the name of its log; the id is a digest of the key.
* `HeaderSupplier`: `CurrentHeaders` is read, gate, fetch of the receipt, fetch of
  the token, verification and store, the end of `initOnce`, the second read,
  and the decision whether the token has expired. The loop's interval is any of
  the values its jitter allows.
* `BadgeCache`/`BadgeVerification`: a slot is a host (servers) or a host and a
  version (clients), and both maps count against one limit, as in the code. A
  call consults the cache, DNS, the URL validator and the log, inserts, judges,
  and asks DANE; the refresh runs beside it. With `cached` off every call goes
  to DNS. The statuses of a badge are abstracted to whether they allow
  connections. Time-to-live is the configured default; the supplied refresh
  function is external and modelled as one that fetches.
* `Discovery`: a TXT record is its format, its version, its badge and the faults of
  its URL; each operator answers as the Go function of its name does, the first
  failing test included. TLSA data stand for the digest they would be.
* `AgentClient`: `stage` is where a call of `Do` is: prefetching, sending, received,
  verifying. The steps between are those of the verifier it calls, which the
  refresh and the log run beside. A response comes over any connection
  (redirects), with or without TLS. The client and the verifier have a failure
  policy each, as in the code, where the client's is not passed on.
* `MerkleTree`, `CheckpointNote`, `ScittArtifacts`: a hash is a term, so two are equal
  only if they are of the same thing, and a signature names its key and what it
  is over. A message has `defects`: the names of the parser's tests it fails; the
  sequences `CoseChecks`, `ProofChecks`, `ReceiptChecks`, `NoteChecks`,
  `TokenChecks` are those tests in the order of the code, and the first one that
  fails is the error. A token's times are added in 64 bits, with `MaxInt64` scaled down.
* `ArtifactCache`: a cache is `[entries, order, maxEntries]`. Expiry of a token is its
  `exp`, of a receipt its insertion plus the TTL.
* `PossessionProof`: a URL is scheme, host with its spelling, port, path and query,
  and `NormalizeHTU` does what `normalizeHTU` does to each. A middleware is its
  trusted hosts and its external URL.
* `ArtifactUse`: each behaviour is one peer with one `task`; the verifiers keep
  nothing, so one verification of a kind is all there is to see. The log is
  honest, whoever delivers an artifact is not.
* `EventFeed`: `pc` goes through request, output, moving the cursor and waiting. The
  registry is external: it pages forward from the cursor and gives the ID of the
  last event of a page; a body may come empty. `known` is what a user could pass
  as `--last-log-id`: the last ID the command showed, which streaming text never
  does.
* `CertificateRequests`: `Order` is what `generateCSR` does to the two files of a
  name, opening (which cuts them) and writing taken apart; `GenerateFails` may
  come between any two. `saved` and `complete` are history variables. Commands
  that are refused before they touch anything (flags, credentials, preflight) do
  nothing, so they are no steps.

Left out everywhere: formatting, wording, logging, metrics and the parsing of
well-formed input.

## 3. Runs

All runs end within three minutes with two workers. Every constant that
only bounds the model is commented `bound` where it is declared.

| Run | Instance | Result |
| --- | --- | --- |
| `replay_cache` | 3 keys, 2 entries, generations of 2 units, clock and expiries 0..6; 29 142 states | structures agree, keys are remembered, capacity, refinement of `SingleUse`, draining |
| `caller_once` | 3 deliveries of 2 proofs by 2 request objects, a cache of 1; 1.3 M states | each proof served at most once, slots held by served proofs, a replay refers to a served delivery |
| `caller_trust` | 2 agents, a registered certificate each and a third that only claims a name, revocation, 2 deliveries; 1.6 M states | the caller is the signer, revocation takes effect |
| `caller_late` | as `caller_once`, reading may last as long as `replayGrace` | **violation** of `AtMostOnce` |
| `key_store` | 2 callers, the loop, 3 key ids, 2 names; 23 000 states | pinned keys, cooldown, callers return |
| `supplier` | 2 requests and the loop; tokens fresh or about to expire; 81 322 states | well formed, no expired token, initialised once, calls return |
| `supplier_timely` | the loop and `RefreshNow`, lifetime 25, clock to 40; 686 000 states | a token is lost only after two failures in a row |
| `badge` | 2 calls (servers or clients) and the refresh, a cache of 1, 2 hosts, 7 answers of DNS, with and without DANE; 980 000 states | verified means registered, renewals take effect, capacity |
| `badge_dane` | 1 call, DANE configured | **violation** of `DANEOverrides` |
| `artifacts` | trees of up to 9 events and forged proofs over 4, notes of up to 3 lines of 7 kinds, caches of 2 entries and 3 agents, 8 answers of the key endpoint, 96 URLs × 6 middlewares; 704 000 states | inclusion, order of lines, caches, SCITT verdicts, binding of proofs |
| `agent` | 1 call after the other beside the refresh, 6 pairs of a client and its verifier, 5 targets; 1.2 M states | delivered means verified, stale badges are bounded |
| `command_line` | 5 events, pages of 1 and 2, 3 starts; or 4 keys and all flags of `generate-csr`; 226 000 states | nothing skipped, everything shown, requests accepted, keys kept |

*Why the bounds are enough.* The replay cache meets every relation of an expiry
to its generation (first, last, edge) with generations of two, a full cache with
more keys than entries, and a key recorded a second time within a generation;
the theorems remove the bounds. Three deliveries of two proofs are one more than
the pair a violation needs and include a second proof competing for the only
slot. Two goroutines at a gate beside one that bypasses it are all the roles there
are. A lifetime of 25 against a minimum interval of 2 makes the loop pass through
several halvings before the floor of the interval is reached, and is the shortest
for which the theorem about it speaks (`Timely` with `rest = 7`). The six pairs of
a client and its verifier have every policy on either side, each client with the
verifiers that make a difference to it: verification may be off, the cache and DANE
absent. A badge cache of one
entry makes every second insert an eviction, and a TTL of one lets entries be
live, expired, stale and dropped in four clock readings. Trees of up to nine events have
every shape of a level without a sibling at three levels, and the forged proofs
are all paths of up to three hashes of the tree of four with all sizes and
indices. The limit of the length of a path is scaled down to 4, which the paths of nine
events reach. Five events in pages of two end with a page that is not full. Four keys
are two runs of `generate-csr` for both names, the second over the files of the
first.

*Deadlock* is checked except where a run is meant to end: in those of
`CallerVerification` deliveries, proofs and clock are used up, a peer of
`ArtifactUse` has done its task, and a command of `ans-cli` ends. *Symmetry* is used only in runs
without liveness properties.

*Mutants.* Beside the definitions they alter stand named variants, each marked
`Bug:` (a dropped recheck, a retention without grace, a partial comparison…).
Putting one in place of the original makes TLC report the property it is paired
with in `PROJECT.json`; no specification uses them.

### Fairness

Only four specifications assume any:

* `ReplayCache!FairSpec`: the janitor runs again and again while it is not
  stopped. Its ticker does that (`pop/replay.go:217-229`). Nothing is assumed of
  callers.
* `RefreshableKeyStore!FairSpec` and `HeaderSupplier!FairSpec`: a running
  goroutine takes its next step; a fetch ends, successfully or not, because of
  its context or the HTTP client's timeout; and a goroutine that waits for a gate
  gets it if it is free again and again (strong fairness), which `sync.Mutex`
  guarantees by its starvation mode. Nobody is assumed to make calls.
* `EventFeed!Spec`: the command takes its next step, its timer fires
  (`cmd/ans-cli/cmd/events.go:139-144`), a request ends, and, if requests are made
  for ever, the registry answers with its page for ever (strong fairness):
  a registry that always answers with an empty body shows nothing to anyone. An
  error ends the command, which the property allows.

### Findings

Each of the two runs that expect a violation shows a sentence of the repository
that the code does not keep.

* `caller_late`: the verification reads the clock once, and the jti is recorded
  after the content was read. `pop/verify.go:26-28` claims that a replay which is
  still fresh is always caught. That needs the time between the two to be less
  than `replayGrace`; no code bounds it, the server's read timeout must. With this
  assumption single use holds, and is proved (`SingleUseHolds`).
* `badge_dane`: on a cache hit DANE is not consulted, although the badge of a
  certificate that DANE rejected has been cached.

Remarks that the models bear out, without a run of their own:

* `verify/policy.go:23` calls `MaxStaleness` "the maximum age of a cached badge to
  accept". The code counts it from the expiry of the entry (`verify/cache.go:197`; the
  comment there, 181-182 and 196, agrees with the code), so that a badge may be
  accepted a whole TTL later: with the defaults up to 15 minutes after it was
  fetched, not 10. In the model an entry of TTL 1 is accepted two units after it was
  inserted under a staleness of 1. `StaleIsBounded` states what the code keeps, the
  TTL included, and not the documented bound, which it does not keep.
* `ans/agent_client.go:17` says that certificates are verified "before requests".
  Before it only the badge is fetched; the request and its body go over any
  connection the TLS stack accepts, and the certificate is compared when the
  response has come (`ans/agent_client.go:164-173`). What `DeliveredWasVerified` shows
  is that the response is withheld; it says nothing of the sending.
* Decorating a request object a second time, for a retry, replaces its proof but
  doubles its SCITT headers (`pop/http.go:447`), and the callee refuses it.
* The end of `initOnce` overwrites `lastError` with the outcome of its own fetch
  although another may have ended meanwhile (`verify/scitt/supplier.go:240`; 194
  says "most recent").
* Under `FailOpenWithCache` the cached badge is used without being compared with the
  certificate (`verify/verify.go:57`), also when it has just refuted it;
  `StaleIsBounded` bounds its age only.
* The agent client's own policy is not passed on to the verifier, so that both
  have to be closed for `DeliveredWasVerified` to apply.
* A page of events that is not empty but has no `lastLogId` would be printed again
  at every poll (`cmd/ans-cli/cmd/events.go:135`); the modelled registry gives
  one.
* `generate-csr` overwrites the key before the request. Cut short between the two
  it leaves the old request, which passes the preflight, beside a new key; the key
  the request is for is gone. And the files are not flushed, so `KeysAreKept` is
  about commands that die, not about machines that do.

Two more. `CheckAndStore` may refuse for lack of room
while the cache still holds expired entries of a generation that has not passed
(`pop/replay.go:153`; the comment at 38-39 speaks of live entries). And when the
fetch of the first caller at the refresh gate fails, each caller behind it
fetches in turn, since only a success starts the cooldown
(`verify/scitt/refreshable_key_store.go:193-199`; compare 161-163).

## 4. Proofs

TLAPS 1.4.5 with Z3, Zenon and LS4. The assumptions are the `ASSUME`s of the modules
(numbers are naturals, capacities and widths are not zero, `None` is none of the
other values); TLC evaluates them in every run.

* **Replay cache** (`ReplayCacheProofs`): `TypeCorrect`, `BucketsConsistent`,
  `KeysAreRemembered`, `SizeIsBounded`, and `Implements`, the refinement of
  `SingleUse`. `RememberedUntilExpiry` is not inductive: eviction goes by the
  buckets, so nothing protects an entry unless the buckets are known to be those of
  the index. The invariant is the conjunction of the four properties. One lemma per
  method (`EvictKeepsGrouped`, `RemoveKeepsGrouped`, `AddKeepsGrouped`) turns the
  operation on two structures into one on the index; `BucketBounds` holds the only
  arithmetic on `\div`. After that every step is a statement about the index, which
  is also what the abstract cache sees.
* **Caller verification** (`CallerVerificationProofs`): `SlotsAreEarned`,
  `ReplaysWereServed`, and `SingleUseHolds`, under the additional assumption `MaxLag
  < replayGrace`. The invariant adds to the properties: what is in flight passed the
  freshness check at its reading of the clock, at most `MaxLag` ago
  (`InFlightFresh`); a served jti is in the cache until its `ReplayExp`
  (`ServedRemembered`); a request's proof is signed (`OutboundSigned`). The
  argument: at the record `now <= readAt + MaxLag` and `readAt <= iat + popSkew`,
  hence `now < iat + popSkew + replayGrace`, so that a served jti is still live and
  the second record is refused. The number of deliveries, proofs, agents and the
  bounds of the clock are arbitrary.
* **Key store** (`RefreshableKeyStoreProofs`): `TypeCorrect`, `PinnedKeys`,
  `RefreshesAreSpaced`. The invariant adds that whoever is past the gate holds it
  (`GateHeld`), and that a caller which is about to fetch or merge found the
  cooldown elapsed since the last on-demand refresh, to which nobody else can add
  while the gate is held (`Spaced`). `MergeKeeps` says what `MergeFrom` preserves.

* **Trust and revocation** (`CallerVerificationProofs`): `TypeCorrect`,
  `SignerIsCaller`, `RevokedIsRefused`. The properties speak of served requests
  only; the invariant carries what the checks established at `readAt` through the
  steps in between (`PassedChecks`), which needs that a token that calls its agent
  live expires at most one lifetime after the revocation (`TokensTruthful`) and that
  only proofs that were signed and tokens that were issued are on the way
  (`OutboundGenuine`). Unlike single use, this does not depend on how long a
  verification takes.
* **Header supplier** (`HeaderSupplierProofs`): `TypeCorrect` and
  `ExpiredIsSuppressed` from the fact that token and expiry are stored and read
  together (`ReadTogether`); `GateChecksAgain` step by step. `FailureIsRidden` holds
  under `Timely(age, rest)`, inequalities between the lifetime of a token, the age
  the log serves tokens at, the duration of a fetch and the minimum interval: after
  a sleep of half the lifetime, with the jitter at its worst, and a failed fetch,
  `rest` must be left, which must again be enough for half of it and one more fetch.
  The code checks no such thing: a deployment whose tokens live hours and whose
  fetches take seconds satisfies it by a wide margin, one with tokens of less than a
  few minimum intervals does not, and there the property fails. The invariant
  (`LoopInv`) says by what margin the token outlives the loop's next waking while no
  fetch failed, and by what smaller one after one failure; requests and forced
  refreshes can only store younger tokens.
* **Badges and the agent client** (`AgentClientProofs`): `TypeCorrect`,
  `CapacityKept`, `VerifiedIsRegistered`, `RenewalIsSeen`, `FallbackIsBounded` for
  the verifiers alone, `DeliveredIsVerified` and `StalenessIsBounded` for the client
  on top. None of the properties is inductive; what is, is knowledge: a badge that a
  goroutine holds was so in the log when it was read (`Holds`, `RefresherKnows`),
  and a cached one was so at most a TTL and a fetch before it expires
  (`CacheKnows`). `TrueAt` states this with the history of the log, and `Revoke` and
  `Renew` only ever make it easier. The client's invariant adds what each `stage` of
  a call knows of the verifier it called (`StageKnows`). The client's theorems reuse
  the verifiers' invariant, because a step of the client is one of theirs or leaves
  their state alone.
* **Command-line tool** (`CommandLineProofs`): `NoEventIsSkipped`,
  `RequestsAreAccepted`, `NoKeyIsLost`, of the sessions. `FeedInv` adds that the
  page at hand leaves out nothing between the cursor and its last ID
  (`PageIsGapless`), and that no cursor is ahead of the feed; `FilesInv` that
  `generate-csr` writes a request only after its key has been saved, while no other
  finished pair has that name (`AtWork`), and that the key of every finished request
  has been saved (`FilesAreSound`).
* **Caches, headers and proofs of possession** (`ArtifactUseProofs`):
  `OrderMirrorsEntries` and `FoundIsUsable` of the caches, `HeadersDecide`,
  `SentVerifies`, `ProofBinds`. `EvictKeeps`, `InsertKeeps` and `RemovedFromOrder`
  say what the list operations of `cache.go` do to an order without duplicates.
  `FoundIsUsable` needs that a token was verified when it was inserted (`Held`) and
  that the 64-bit sum of expiry and tolerance then did not wrap (`SumOfInt64`): had
  it wrapped, the token would have been refused. `FirstOfFailed` is the lemma about
  the sequences of checks; `NamesAreApart` says that no failing check of an artifact
  has the name of an error for which the badge decides. The proofs of possession
  come down to `SameTarget`: two URLs have the same `htu` exactly if their origin
  and path are the same.
* **Inclusion paths** (`MerkleTreeProofs`): `WalkIsSound`, `IssuedPathLeadsToRoot`,
  `IssuedPathIsInLimit`, for trees of any size. The walk keeps two numbers, `fn` and
  `sn`, and a hash, and never looks at the tree; the tree is defined by splitting
  spans at the largest power of two (RFC 9162). What connects them is `Node(n, j,
  i)`, the span of the node at place `j` of level `i`, and `At(w, n, i)`: the walk
  is at such a node, and `sn` is the last place of its level. `StepFromLeft`,
  `StepFromRight` and `ClimbFrom` show that one element of the path takes the walk
  to the parent in the tree, also where a node is carried up over several levels.
  Read downwards from the root this is soundness: if the hash at the parent is the
  tree's, so was the hash below it, since hashes are free terms, down to the leaf
  (`StepCameFromNode`). Read upwards it is completeness: the hashes of the siblings
  lead to the hash of every span the event is in (`NodesReached`), and there is at
  most one for each level (`PathIsShort`).
* **Receipts and checkpoints** (`ArtifactUseProofs`): `CoveredEventsAreIncluded` and
  `IssuedReceiptsAreCovered` from the two theorems about the walk, and
  `OrderIsIrrelevant`. `InclusionInv` says that the receipt and the checkpoint at
  hand are what the verification made of the delivered ones, and that the answer of
  `Covers` was given for these two. `HeadIsOfLog`: a note that is accepted under the
  name of the log was signed with its key, which is where the binding of signer
  names is needed. `LinesAmount` is the order's: after any number of lines there is
  an error exactly if one of them is refused, and without one a key exactly if one
  of them is signed (`RefusedLine`, `SignedLine`); neither mentions an order.

Data of any size is reached without an induction rule. A recursive definition in
TLA+ is the choice of a function that satisfies an equation; that one exists, and
every statement about its values, is proved from a smallest counterexample
(`LeastExists`): the functions that satisfy the equation up to a point can be
extended by one (`PowerIsDefined`, `ClimbIsDefined`, `TreeHashIsDefined`,
`PathsIsDefined`, `WalkIsDefined`, `SeenIsDefined`). `MerkleTree` and
`CheckpointNote` therefore state their recursions as functions with a domain.

What the theorems assume beside numbers being numbers, and why:

* `HonestLog`: whatever verifies under a trusted key was issued by the log, that is,
  signatures cannot be forged; `CallerVerification` and `BadgeVerification` assume
  the same by leaving out what does not verify.
* `HonestHeads`: nobody else signs a tree head under the key of the log, and the
  heads that receipts are held against claim to be of this log. `LogAssumption`: the
  trusted keys bind the name of the log to its key. Nothing is assumed of the other
  trusted keys, of the proofs that come with receipts, or of notes about other logs.
* `TreeAssumption`, `PathAssumption`: a tree has at most `MaxSize` events, and
  `MaxSize` is at most two to the power of `MaxHashPathLen`. With the 63 of
  `merkle.go:11` that is 2^63 events, half of what a `uint64` can count: the paths
  of a larger tree would be refused.
* `InputAssumption`, `NoneAssumption`, `NoteErrorAssumption`: the parts of receipts
  and notes have the types of their Go fields, and no value of theirs is `None`.
* `ExpiryAssumption`: an expiry is an `int64`, as `status_token.go` decodes it, and
  `MaxClockSkew` is a non-negative one.
* `RequestAssumption`, `VerificationAssumption`, `ClientAssumption`: requests, URLs
  and configurations have the fields of their Go types; a request to verify a client
  is made with the name in its certificate.
* `MaxLag` of badges and callers bounds the time between an answer of the log, or a
  reading of the clock, and the end of the operation; the theorems hold for any, and
  state their bounds in terms of it. Only `SingleUseHolds` needs it to be small.

Only model-checked are the liveness properties `Drains`, `CallersReturn`,
`CallsReturn` and `FollowShowsAll`, which are out of the prover's reach. Every
invariant and every action property of the passing runs is stated by a theorem, and
so is the refinement.

## 5. Not modelled, and why

* Cryptography, and the bytes of COSE, CBOR, JSON, X.509 and DNS: an artifact has a
  defect or it has not, a signature is by a key over something.
* The REST calls that read one thing and return it (details, search, resolve,
  certificates, revocation, the transparency client) and the commands that print
  it: no state, no order of events. Retry-After is parsed and reported, never
  acted on.
* What a `RefreshFunc` may do against its word (`verify/cache.go:11-12`: "a fresh badge, or
  an error"). The cache stores what it gets. `AnsVerifier.Prefetch` has the signature
  and does neither: it answers from the cache as long as the entry is live, which
  would give the old badge a new TTL (mutant `RefreshFnCached` of
  `VerifiedWasRegistered`), and under `FailOpen` it answers `nil, nil` when DNS or the log
  fail (`verify/verify.go:174-176`), which `verify/cache.go:265-274` would store. The
  type of the cache, and what is proved of it, hold for functions that keep their word.
* Key encryption, key loading and public-key files of `keygen`; the examples.
* Clocks that step back: the code uses the wall clock and does not handle it.
* Options that switch a check off, of the caller verification or of badge URLs
  (`WithoutURLValidation`).
* Two `generate-csr` at once in one directory, and power failures: the code has no
  protection from either, and promises none.

## 6. Plan

1. Core: replay cache with its promise, caller verification, key store, supplier,
   badge cache and verification, the first theorems (done).
2. Discovery and DANE in the badge verification, a verifier without a cache, the
   agent client (done). SCITT artifacts, their caches, `VerifyWithScitt`, the binding of
   proofs (done). The event cursor and the certificate requests of the command-line
   tool (done).
3. Proofs of every invariant and action property of the runs, those about data of any
   size included (done).
4. Not begun: the supplier composed with the caller verification, so that what a callee sees
   follows from the schedule of the caller's loop; the gates of the key store and of
   the supplier as implementations of one abstract lock.
