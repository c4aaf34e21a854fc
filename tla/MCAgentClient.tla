----------------------------- MODULE MCAgentClient -----------------------------
(* A client that calls h1, h2, whose records point to the badge of h1, and   *)
(* the host local, which has no domain name.                                 *)
EXTENDS AgentClient, MCBadgeVerification

CONSTANT local

at(h, https) == [host |-> h, https |-> https]
Urls == {at(h1, TRUE), at(h2, TRUE), at(local, TRUE), at(h1, FALSE), at(None, TRUE)}
options(policy, verifies, verifier) ==
  [policy |-> policy, verifyServer |-> verifies, verifier |-> verifier]
cached(policy, dane) == with(policy, dane, TRUE, OfServers)
uncached(policy) == with(policy, FALSE, FALSE, OfServers)
AnyClient ==
  {options("FailClosed", TRUE, cached("FailClosed", TRUE)),
   options("FailOpenWithCache", TRUE, cached("FailOpenWithCache", FALSE)),
   options("FailOpen", TRUE, uncached("FailClosed")),
   options("FailClosed", FALSE, uncached("FailOpenWithCache"))}
  \cup {options("FailOpenWithCache", TRUE, uncached(p)) : p \in {"FailClosed", "FailOpen"}}
AnyQuestion == {server(h, c) : h \in {h1, h2}, c \in {old, new, None}}
Verifiers == {c.verifier : c \in AnyClient}
=============================================================================
