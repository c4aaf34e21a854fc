------------------------- MODULE MCBadgeVerification -------------------------
(* Host h1 has one agent with badge b1; DNS may also lead to f1, a badge    *)
(* someone else published.  The records of host h2 point to the badge of h1.*)
EXTENDS BadgeVerification, TLC

CONSTANTS h1, h2, b1, f1, old, new, own, anon, k1, k2

\* What DNS answers.
text(id, version, faults) ==
  [format |-> "ans-badge1", version |-> version, badge |-> id, faults |-> faults]
ok(txts) == [rcode |-> "ok", records |-> txts]
failed(rcode) == [rcode |-> rcode, records |-> {}]
of(ansBadge, raBadge) == [ansBadge |-> ansBadge, raBadge |-> raBadge]
nowhere == failed("not found")

\* The record of h1, beside others that do not count; under the older name, where
\* there is none under the other; a foreign one; none; URLs that are refused.
Good == of(ok({text(b1, 1, {}), text(f1, 2, {"fragment"}), text(f1, 2, {"version"}),
               [text(f1, 2, {}) EXCEPT !.format = "other"]}), nowhere)
Dns == [h \in {h1, h2} |->
  IF h = h2 THEN {of(ok({text(b1, 1, {})}), nowhere)}
  ELSE {Good,
        of(ok({text(f1, 1, {"userinfo"})}), ok({text(b1, None, {})})),
        of(ok({text(f1, 1, {})}), nowhere),
        of(ok({text(b1, 1, {"query"})}), nowhere),
        of(nowhere, nowhere),
        of(failed("timeout"), ok({text(b1, 1, {})})),
        of(nowhere, failed("SERVFAIL"))}]

\* TLSA records of h1: they pin the certificate old by the hash of its key, and
\* own by its own; other records do not count.
pin(usage, selector, matching, data) ==
  [usage |-> usage, selector |-> selector, matching |-> matching, data |-> <<matching, data>>]
tlsa(rcode, records, authenticated) ==
  [rcode |-> rcode, records |-> records, authenticated |-> authenticated]
Pins == {pin(3, 1, 1, k1), pin(3, 0, 1, own), pin(1, 0, 1, new), pin(3, 2, 1, new)}
Tlsa == [h \in {h1, h2} |->
  IF h = h2 THEN {tlsa("not found", {}, FALSE)}
  ELSE {tlsa("ok", Pins, TRUE), tlsa("ok", Pins, FALSE), tlsa("error", {}, FALSE),
        tlsa("SERVFAIL", {}, FALSE)}]
CertKeys == [c \in {old, new, own, anon} |-> IF c = old THEN k1 ELSE k2]

Name == [host |-> h1, version |-> 1]
BadgeNames == [b \in {b1, f1} |-> Name]
CertNames == [c \in {old, new, own, anon} |->
               IF c = anon THEN [host |-> None, version |-> None] ELSE Name]
Log == [b \in {b1, f1} |->
          [valid |-> TRUE,
           certs |-> [role \in {"server", "client"} |->
                        IF b = f1 THEN new ELSE IF role = "server" THEN old ELSE own]]]

server(h, c) == [role |-> "server", host |-> h, version |-> None, cert |-> c]
client(c) == [role |-> "client", host |-> h1, version |-> 1, cert |-> c]

\* The two certificates of the server; a Prefetch and the certificate of h1
\* presented by h2; or the two certificates of a client, and a server.
Renewed == {server(h1, old), server(h1, new)}
TwoHosts == {server(h1, old), server(h1, None), server(h2, old)}
OfServers == Renewed \cup TwoHosts
OfClients == {client(own), client(new), server(h1, old)}
Asked == OfServers \cup OfClients
Symmetry == Permutations(Calls)

OneVersion == {1}
New == [role \in {"server", "client"} |-> {new}]
with(policy, dane, cached, asked) ==
  [policy |-> policy, dane |-> dane, cached |-> cached, asked |-> asked]
AnyVerifier == {with("FailOpenWithCache", FALSE, TRUE, w) :
                  w \in {Renewed, TwoHosts, OfClients}}
               \cup {with("FailClosed", TRUE, TRUE, {server(h1, old)})}
WithDANE == {with("FailOpenWithCache", TRUE, TRUE, OfServers)}
=============================================================================
