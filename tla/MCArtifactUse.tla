---------------------------- MODULE MCArtifactUse ----------------------------
(* A log with nine events and one more log whose key is trusted too.        *)
EXTENDS ArtifactUse

CONSTANTS logKey, otherKey, strangeKey, signerKey, own, foreign, a1, a2, a3

Events == [i \in 1..9 |-> i]
Keys == "k1" :> [key |-> logKey, name |-> "log"] @@ "k2" :> [key |-> otherKey, name |-> "other"]
Store == [keys |-> Keys, fetch |-> None]

-----------------------------------------------------------------------------
(* Proofs of up to three elements, over the hashes of the tree of four.     *)

Forged ==
  {Receipt(e, [treeSize |-> n, leafIndex |-> i, path |-> p]) :
     e \in {1, 3, 4}, n \in 0..4, i \in 0..4,
     p \in UNION {[1..k -> SubtreeHashes(SubSeq(Events, 1, 4))] : k \in 0..3}}

\* What the log signed and someone changed, and what another signed.
base == Receipt(3, [treeSize |-> 3, leafIndex |-> 2, path |-> InclusionPath(SubSeq(Events, 1, 3), 2)])
Altered ==
  {[base EXCEPT !.payload = 10], [base EXCEPT !.protected.vds = None],
   [base EXCEPT !.protected.iss = "other"], [base EXCEPT !.protected.kid = "k2"],
   [base EXCEPT !.protected.kid = "k3"]}
  \cup {[base EXCEPT !.defects = {d}] : d \in Range(CoseChecks) \cup Range(ProofChecks)}
Receipts == Issued \cup Forged \cup Altered

-----------------------------------------------------------------------------
(* Notes of up to three lines over the head of size 2.                      *)

head == SignedHead(2)
line(name, kid, key, over, form) ==
  [name |-> name, kid |-> kid, sig |-> [by |-> key, over |-> over, form |-> form]]
Lines ==
  {line("log", "k1", logKey, head.body, "DER"),     \* its own
   line("log", "k1", logKey, head.body, "r||s"),    \* in the old form
   line("log", "k1", logKey, SignedHead(1).body, "DER"),  \* of another head
   line("log", "k1", None, head.body, "JWS"),       \* the envelope
   line("other", "k2", otherKey, head.body, "DER"), \* of another log
   line("log", "k2", otherKey, head.body, "DER"),   \* under the wrong name
   line("log", "k3", strangeKey, head.body, "DER")} \* of a key not known
OneHead == {SignedHead(n) : n \in 1..9}
Lined == {[head EXCEPT !.lines = l] : l \in UNION {[1..k -> Lines] : k \in 1..3}}
Broken == {[head EXCEPT !.defects = {d}] : d \in Range(NoteChecks)}
OfTask == [t \in {"inclusion", "note"} |-> IF t = "inclusion" THEN OneHead ELSE Lined \cup Broken]

-----------------------------------------------------------------------------
(* Tokens of one agent, with every status and expiry.                       *)

entry(form, c) == [form |-> form, fingerprint |-> c]
payload(status, exp) ==
  [int |-> "agent_id" :> "agent" @@ "status" :> status @@ "exp" :> exp
           @@ "valid_server_certs" :> <<entry("bytes", own), entry("other", foreign)>>,
   str |-> "ans_name" :> "host" @@ "status" :> "ACTIVE"
           @@ "valid_identity_certs" :> <<entry("SHA256:hex", foreign)>>]
Token(p) ==
  LET protected == [kid |-> "k1", vds |-> None, iss |-> "log"]
  IN  [protected |-> protected, payload |-> p, defects |-> {},
       proof |-> [treeSize |-> 1, leafIndex |-> 0, path |-> <<>>],
       sig |-> [by |-> logKey, over |-> SigStructure(protected, p)]]
Statuses == {"ACTIVE", "UNKNOWN", "REVOKED"}
Tokens == {Token(payload(s, x)) : s \in Statuses, x \in {1, 3, MaxInt64}}
valid == Token(payload("ACTIVE", 1))
without(f) == [valid.payload EXCEPT !.int = [k \in DOMAIN @ \ {f} |-> @[k]],
                                    !.str = [k \in DOMAIN @ \ {f} |-> @[k]]]
Incomplete == {Token(without(f)) : f \in {"agent_id", "status", "exp", "ans_name",
                                           "valid_server_certs"}}
Signed == Tokens \cup Incomplete
          \cup {Token([valid.payload EXCEPT !.int =
                  "valid_server_certs" :> [i \in 1..3 |-> entry("hex", own)] @@ @])}
Misformed == {[valid EXCEPT !.defects = {d}] : d \in Range(CoseChecks) \cup {"payloadMap", "identityCerts", "serverCerts"}}
Unsigned == {[valid EXCEPT !.payload = payload("ACTIVE", 3)], [valid EXCEPT !.protected.iss = "other"],
             [valid EXCEPT !.protected.kid = "k3"], [valid EXCEPT !.protected.kid = "k2"]}
             \cup Misformed
Kept == {Token(payload("ACTIVE", 1)), Token(payload("ACTIVE", 3))}

-----------------------------------------------------------------------------
(* Peers that present them.                                                 *)

at(role, c, named, h, r, t, d) ==
  [role |-> role, cert |-> c, named |-> named, host |-> h, receipt |-> r, token |-> t,
   daneRejects |-> d]
AnyPeer ==
  {at(role, c, named, h, r, t, d) :
     role \in {"server", "client"}, c \in {own, foreign}, named \in BOOLEAN,
     h \in {"host", "elsewhere"}, r \in {None, base}, t \in {None} \cup Tokens, d \in BOOLEAN}
Odd == {at("server", own, TRUE, "host", r, t, FALSE) :
          r \in Altered \cup {base}, t \in Unsigned \cup Signed}
AllPeers == AnyPeer \cup Odd
response(status, readable, some) == [status |-> status, readable |-> readable, keys |-> some]
Responses == {response(c, TRUE, TRUE) : c \in {200, 404, 410, 429, 501, None}}
             \cup {response(200, FALSE, TRUE), response(200, TRUE, FALSE)}
AllLookups == {Store, [keys |-> None, fetch |-> None]}
              \cup {[keys |-> Keys, fetch |-> f] : f \in Responses}

-----------------------------------------------------------------------------
(* Requests: every spelling of a URL, or every other part of a request.     *)

name(n, spelling) == [name |-> n, spelling |-> spelling]
lower == name("h", "lower")
link(scheme, h, port, p, query) ==
  [scheme |-> scheme, host |-> h, port |-> port, path |-> p, query |-> query]
Urls == {link(s, h, p, pq[1], pq[2]) :
           s \in {"https", "http"}, h \in {lower, name("h", "Mixed"), name("g", "lower")},
           p \in {Absent, 443, 80, 8443},
           pq \in {<<"", FALSE>>, <<"/", FALSE>>, <<"/x", FALSE>>, <<"/x", TRUE>>}}
authorization(scheme, t) == [scheme |-> scheme, token |-> t]
Tokened == {authorization("none", Absent), authorization("Bearer", "t1"),
            authorization("DPoP", "t1"), authorization("dpop", "t1"),
            authorization("DPoP", "t2")}
plain(u) == [method |-> "POST", url |-> u, authorization |-> authorization("none", Absent),
             content |-> "c1"]
Plain == {plain(u) : u \in Urls}
Others == {[method |-> m, url |-> link("https", lower, Absent, "/x", FALSE),
            authorization |-> x, content |-> c] :
             m \in {"GET", "POST"}, x \in Tokened, c \in {"c1", ""}}
AllSent == Plain \cup Others
AllDelivered == [r \in AllSent |-> IF r \in Others THEN Others ELSE Plain]
host(h, port) == [host |-> h, port |-> port]
config(hosts, external) == [hosts |-> hosts, external |-> external]
AllMiddlewares ==
  {config({host(lower, Absent)}, Absent), config({host(name("h", "Mixed"), 443)}, Absent),
   config({host(lower, 8443)}, Absent),
   config({}, link("https", lower, Absent, "", FALSE)),
   config({host(lower, 443)}, link("https", lower, Absent, "", FALSE)),
   config({host(lower, 80)}, link("https", name("h", "Mixed"), 8443, "", FALSE))}
TheSigner == NewSigner(signerKey, own)
ZeroSkewUp == {-1, 0, 1, 5}
AllTasks == {"inclusion", "note", "cache", "receipts", "peer", "proof"}
=============================================================================
