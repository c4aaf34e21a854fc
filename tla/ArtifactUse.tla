------------------------------ MODULE ArtifactUse ------------------------------
(***************************************************************************)
(* What a peer does with the artifacts it is given: it relates a receipt   *)
(* to a checkpoint of the log, keeps verified artifacts in the caches,     *)
(* verifies certificates by the headers of a message, and sends or accepts *)
(* requests with proofs of possession.                                     *)
(*                                                                         *)
(* The log is honest: under its own keys it signs the events of its tree,  *)
(* its heads, and the tokens it issued.  Whoever delivers an artifact may  *)
(* change whatever is not signed, and mix what is.  A verification keeps   *)
(* nothing but what the caches keep, so a peer verifies one thing of each  *)
(* kind.                                                                   *)
(***************************************************************************)
EXTENDS ScittArtifacts, ArtifactCache, PossessionProof

CONSTANTS
  Tasks,           \* what there is to do; a peer does one thing
  Tree,            \* the events of the log, in order
  Lookup,          \* [keys, fetch]: the trusted keys
  LogKey, LogKid, LogName, \* the key of the log among them
  ReceiptMessages, \* receipts a peer may be given
  Notes,           \* checkpoint notes it may be given
  IssuedTokens,    \* the status tokens of the log
  TokenMessages,   \* those it may be given
  Agents,          \* agents that artifacts are cached for
  MaxEntries,      \* of a cache
  Skews,           \* tolerances a verifier may be configured with
  Peers,           \* [role, cert, named, host, receipt, token, daneRejects]
  Lookups,         \* the lookups those are verified with
  Sent,            \* requests a caller may send
  Delivered,       \* those a callee may get instead, for each
  Middlewares,     \* [hosts, external]: how a callee may be configured
  Signer,          \* of the caller
  MaxTime          \* bound of the clock

ASSUME UseAssumption ==
  /\ \A c \in Middlewares : ValidConfig(c)
  /\ MaxEntries \in Nat /\ MaxTime \in Nat /\ Skews \subseteq Int

ASSUME TreeAssumption == Tree \in Seq(Range(Tree)) /\ Len(Tree) <= MaxSize

\* The name of the log is bound to its key, and to no other.
ASSUME LogAssumption ==
  /\ LogKid \in DOMAIN Lookup.keys /\ Lookup.keys[LogKid].name = LogName
  /\ \A kid \in DOMAIN Lookup.keys :
       Lookup.keys[kid].name = LogName => Lookup.keys[kid].key = LogKey

\* The numbers of a proof are unsigned, and the parts of a note what they are said
\* to be.
ASSUME InputAssumption ==
  /\ \A m \in ReceiptMessages : /\ m.proof.treeSize \in Nat /\ m.proof.leafIndex \in Nat
                                /\ Len(m.proof.path) \in Nat
  /\ \A t \in {"inclusion", "note"} : \A n \in Notes[t] :
       /\ n = [body |-> n.body, lines |-> n.lines, defects |-> n.defects]
       /\ n.lines \in Seq(Range(n.lines))

\* Every expiry is an int64.
ASSUME ExpiryAssumption ==
  \A m \in TokenMessages \cup ({p.token : p \in Peers} \ {None}) :
    Field(m.payload, "exp") \in Int64s \cup {None}

\* The log signed this token, whatever was put into the part that is not signed.
IssuedByLog(m) ==
  \E t \in IssuedTokens : t.protected = m.protected /\ t.payload = m.payload

\* Nobody else signs under the trusted keys.
ASSUME HonestLog ==
  \A p \in Peers, l \in Lookups :
    /\ p.token # None /\ l.keys # None
    /\ p.token.protected.kid \in DOMAIN l.keys /\ VerifyECDSA(p.token, l.keys)
    => IssuedByLog(p.token)

ASSUME RequestAssumption ==
  /\ Sent \subseteq HTTPRequests
  /\ \A r \in Sent : Delivered[r] \subseteq HTTPRequests
  /\ \A c \in Middlewares : /\ c.external \in URLs \cup {Absent}
                            /\ c.hosts \subseteq [host : Hosts, port : Nat \cup {Absent}]

VARIABLES
  now,
  task,
  receipt,     \* the receipt looked at last, as it came and verified; or None
  note,        \* the note that was looked at last, or None
  checkpoint,  \* the checkpoint that was verified last, or None
  covered,     \* the answer of Covers, or None
  skew,        \* the tolerance of this peer
  token,       \* the token at hand, as it came and verified; or None
  receipts,    \* the cache of receipts
  tokens,      \* the cache of tokens
  peer,        \* the peer verified last, the lookup and the outcome; or None
  signed,      \* the request a proof was made for, and the proof; or None
  accepted     \* the request a callee got, its configuration and answer; or None

inclusion == <<receipt, note, checkpoint, covered>>
caching == <<skew, token, receipts, tokens>>
proving == <<signed, accepted>>
vars == <<now, task, inclusion, caching, peer, proving>>

-----------------------------------------------------------------------------
(* The log.                                                                *)

First(n) == SubSeq(Tree, 1, n)

\* Its head of a size, signed.
SignedHead(n) ==
  LET body == [origin |-> LogName, size |-> n, root |-> Root(First(n))]
  IN  [body |-> body, defects |-> {},
       lines |-> <<[name |-> LogName, kid |-> LogKid,
                    sig |-> [by |-> LogKey, over |-> body, form |-> "DER"]]>>]

\* Receipts are held against heads of this log, and nobody else signs one under its
\* key.
ASSUME HonestHeads ==
  \A n \in Notes["inclusion"] :
    /\ n.body.origin = LogName
    /\ (\E i \in DOMAIN n.lines : VerifyCheckpointSignature(LogKey, n.body, n.lines[i].sig))
       => \E size \in 1..Len(Tree) : n.body = SignedHead(size).body

\* None is none of what may be there.
ASSUME NoneAssumption ==
  /\ None \notin BOOLEAN /\ None \notin DOMAIN Lookup.keys
  /\ \A n \in 1..Len(Tree) : SignedHead(n) # None
  /\ \A t \in {"inclusion", "note"} : \A n \in Notes[t] :
       n # None /\ VerifyCheckpoint(n, Lookup.keys) # None

\* An event it signed, with some proof.
Receipt(event, proof) ==
  LET protected == [kid |-> LogKid, vds |-> 1, iss |-> LogName]
  IN  [protected |-> protected, payload |-> event, proof |-> proof, defects |-> {},
       sig |-> [by |-> LogKey, over |-> SigStructure(protected, event)]]

\* The receipts it issues.
Issued ==
  UNION {{Receipt(Tree[i + 1], [treeSize |-> n, leafIndex |-> i,
                                path |-> InclusionPath(First(n), i)]) : i \in 0..(n - 1)} :
           n \in 1..Len(Tree)}

-----------------------------------------------------------------------------

Verified(result) == IF result.error = None THEN result ELSE None

-----------------------------------------------------------------------------

\* VerifyReceipt.
CheckReceipt ==
  /\ task = "inclusion" /\ receipt = None
  /\ \E m \in ReceiptMessages :
       receipt' = [message |-> m, result |-> VerifyReceipt(m, Lookup.keys)]
  /\ UNCHANGED <<now, task, note, checkpoint, covered, caching, peer, proving>>

\* VerifyCheckpoint.
CheckNote ==
  /\ task \in {"inclusion", "note"} /\ note = None
  /\ \E n \in Notes[task] : /\ note' = n
                            /\ checkpoint' = Verified(VerifyCheckpoint(n, Lookup.keys))
  /\ UNCHANGED <<now, task, receipt, covered, caching, peer, proving>>

\* Checkpoint.Covers, by a caller that makes sure the two are of the same log.
CheckCovers ==
  /\ task = "inclusion"
  /\ receipt # None /\ checkpoint # None
  /\ receipt.result.error = None
  /\ Lookup.keys[receipt.result.keyID].name = checkpoint.origin
  /\ covered' = Covers(checkpoint, receipt.result)
  /\ UNCHANGED <<now, task, receipt, note, checkpoint, caching, peer, proving>>

\* VerifyStatusToken.
CheckToken ==
  /\ task = "cache"
  /\ \E m \in TokenMessages :
       LET result == VerifyStatusTokenAt(m, Lookup.keys, skew, now)
       IN  token' = IF result.error = None
                    THEN [message |-> m, payload |-> result.payload] ELSE None
  /\ UNCHANGED <<now, task, inclusion, skew, receipts, tokens, peer, proving>>

\* StatusTokenCache.
CacheToken ==
  /\ task = "cache" /\ token # None
  /\ \E id \in Agents : tokens' = InsertToken(tokens, id, token, now)
  /\ token' = None
  /\ UNCHANGED <<now, task, inclusion, skew, receipts, peer, proving>>

GetToken ==
  /\ task = "cache"
  /\ \E id \in Agents : /\ Get(tokens, id, now) # Missing
                        /\ token' = Get(tokens, id, now)
  /\ UNCHANGED <<now, task, inclusion, skew, receipts, tokens, peer, proving>>

InvalidateToken ==
  /\ task = "cache"
  /\ \E id \in DOMAIN tokens.entries : tokens' = Invalidate(tokens, id)
  /\ UNCHANGED <<now, task, inclusion, skew, token, receipts, peer, proving>>

\* ReceiptCache.  A receipt stands for its agent and the time it was verified.
CacheReceipt ==
  /\ task = "receipts"
  /\ \E id \in Agents :
       receipts' = InsertReceipt(receipts, id, [agent |-> id, at |-> now], now)
  /\ UNCHANGED <<now, task, inclusion, skew, token, tokens, peer, proving>>

GetReceipt ==
  /\ task = "receipts"
  /\ \E id \in Agents : /\ Get(receipts, id, now) # Missing
                        /\ receipt' = Get(receipts, id, now)
  /\ UNCHANGED <<now, task, note, checkpoint, covered, caching, peer, proving>>

InvalidateReceipt ==
  /\ task = "receipts"
  /\ \E id \in DOMAIN receipts.entries : receipts' = Invalidate(receipts, id)
  /\ UNCHANGED <<now, task, inclusion, skew, token, tokens, peer, proving>>

\* VerifyWithScitt.
CheckPeer ==
  /\ task = "peer" /\ peer = None
  /\ \E p \in Peers, lookup \in Lookups :
       peer' = [peer |-> p, lookup |-> lookup, at |-> now,
                result |-> VerifyWithScitt(p, lookup, skew, now)]
  /\ UNCHANGED <<now, task, inclusion, caching, proving>>

\* AttachIdentity.
Attach ==
  /\ task = "proof" /\ signed = None
  /\ \E r \in Sent : signed' = [request |-> r, proof |-> AttachIdentity(Signer, r)]
  /\ UNCHANGED <<now, task, inclusion, caching, peer, accepted>>

\* A callee gets the proof, with the request it was made for or another.
Accept ==
  /\ signed # None /\ accepted = None
  /\ \E r \in Delivered[signed.request], c \in Middlewares :
       accepted' = [request |-> r, config |-> c,
                    error |-> Authenticate(signed.proof, c, r)]
  /\ UNCHANGED <<now, task, inclusion, caching, peer, signed>>

Tick ==
  /\ task \in {"cache", "receipts", "peer"} /\ peer = None
  /\ now < MaxTime
  /\ now' = now + 1
  /\ UNCHANGED <<task, inclusion, caching, peer, proving>>

Init ==
  /\ now = 0 /\ task \in Tasks
  /\ receipt = None /\ note = None /\ checkpoint = None /\ covered = None
  /\ skew \in IF task \in {"cache", "peer"} THEN Skews ELSE {0}
  /\ token = None
  /\ receipts = EmptyCache(MaxEntries) /\ tokens = EmptyCache(MaxEntries)
  /\ peer = None /\ signed = None /\ accepted = None

Next ==
  \/ CheckReceipt \/ CheckNote \/ CheckCovers
  \/ CheckToken \/ CacheToken \/ GetToken \/ InvalidateToken
  \/ CacheReceipt \/ GetReceipt \/ InvalidateReceipt
  \/ CheckPeer \/ Attach \/ Accept \/ Tick

Spec == Init /\ [][Next]_vars

-----------------------------------------------------------------------------
(* Correctness.                                                            *)

\* checkpoint.go:58-60: Covers "proves that the log signed a tree head
\* containing the receipt's event at that size".  Whatever proof comes with a
\* signed event, and whichever head it is held against, the event is in the
\* tree of the log at that place.
CoveredIsIncluded ==
  covered = TRUE =>
    LET r == receipt.result
    IN  r.leafIndex < r.treeSize /\ r.treeSize <= Len(Tree)
        /\ Tree[r.leafIndex + 1] = r.event

\* merkle.go:34-79: the receipt that the log issues for an event is accepted and
\* covered by its head of that size, also where the tree is not full.
IssuedReceiptIsCovered ==
  task = "inclusion" /\ receipt # None =>
    LET size == receipt.message.proof.treeSize
    IN  receipt.message \in Issued =>
          /\ receipt.result.error = None
          /\ note = SignedHead(size) => (checkpoint # None /\ covered # FALSE)

\* checkpoint.go:157-160: "acceptance does not depend on line order".
OrderIndependent ==
  note # None =>
    \A p \in Bijection(DOMAIN note.lines, DOMAIN note.lines) :
      LET other == [note EXCEPT !.lines = [i \in DOMAIN @ |-> @[p[i]]]]
      IN  (VerifyCheckpoint(other, Lookup.keys).error = None) <=> (checkpoint # None)

\* cache.go:24-31 and 137-145: through every overwriting, eviction and
\* invalidation the order lists exactly the agents that have entries, so that
\* the entries are within the maximum and none is evicted in place of another.
CachesMirror ==
  \A c \in {receipts, tokens} :
    Mirrors(c) /\ Cardinality(DOMAIN c.entries) <= MaxEntries

\* cache.go:51-66 and 163-178: what the caches give out can be relied on now: a
\* token verifies under the keys it was verified with, a receipt was verified at
\* most the TTL ago.
CachedIsUsable ==
  \A id \in Agents :
    LET t == Get(tokens, id, now)
        r == Get(receipts, id, now)
    IN  /\ t # Missing => VerifyStatusTokenAt(t.message, Lookup.keys, skew, now).error = None
        /\ r # Missing => r.agent = id /\ now - r.at <= ReceiptTTL

\* verify.go:186-188 and 30-32: headers that vouch for a certificate were issued
\* by the log for it, its role and its host, and hold within the tolerance; and
\* the badge decides instead only where there are none or the lookup of a key
\* failed on its way, never because an artifact is not in order or the log says
\* that the agent has ended.
ScittDecides ==
  peer # None =>
    LET p == peer.peer
    IN  CASE peer.result.outcome = "verified" ->
               /\ IssuedByLog(p.token)
               /\ LET payload == DecodePayload(p.token.payload)
                  IN  /\ payload.ansName = p.host /\ p.cert \in payload.certs[p.role]
                      /\ payload.status \in ValidForConnection
                      /\ peer.at <= payload.exp + MaxClockSkew
          [] peer.result.outcome = "badgeDecides" ->
               \/ p.receipt = None /\ p.token = None
               \/ /\ peer.lookup.fetch # None
                  /\ FetchRootKeys(peer.lookup.fetch) \notin {None, "agentTerminal"}
          [] OTHER -> TRUE

Port(url) == IF url.port = Absent THEN DefaultPort(url.scheme) ELSE url.port
Origin(url) == <<url.scheme, url.host.name, Port(url)>>
Path(url) == IF url.path = "" THEN "/" ELSE url.path

\* The callee is configured for the origin of the URL.
Serves(config, url) ==
  /\ config.external # Absent => Origin(url) = Origin(config.external)
  /\ config.hosts # {} => \E h \in config.hosts :
       Origin(url) = Origin([url EXCEPT !.host = h.host, !.port = h.port])

\* pop/proof.go:253-261: a request that arrives as it was sent is accepted by a
\* callee of that origin, however its URL is spelled.
SignedRequestVerifies ==
  /\ accepted # None
  /\ accepted.request = signed.request
  /\ Serves(accepted.config, signed.request.url)
  => accepted.error = Absent

\* pop/http.go:276-285 and pop/verify.go:241-276: a proof is accepted only for
\* the method, target, access token and content it was made for, by a callee
\* that serves that origin, whatever Host the request claims.
AcceptedIsBound ==
  accepted # None /\ accepted.error = Absent =>
    LET target == RequestURL(accepted.config, accepted.request)
    IN  /\ accepted.request.method = signed.request.method
        /\ accepted.request.content = signed.request.content
        /\ AccessTokenFromAuthorization(accepted.request.authorization)
             = AccessTokenFromAuthorization(signed.request.authorization)
        /\ Origin(target) = Origin(signed.request.url)
        /\ Path(accepted.request.url) = Path(signed.request.url)
        /\ Serves(accepted.config, signed.request.url)
=============================================================================
