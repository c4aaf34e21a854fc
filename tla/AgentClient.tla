------------------------------ MODULE AgentClient ------------------------------
(***************************************************************************)
(* The HTTP client that verifies the agents it calls (ans/agent_client.go),*)
(* on top of BadgeVerification: a call prefetches the badge of the host,   *)
(* sends the request, and has the certificate of the connection verified   *)
(* that the response came over, while the cache is refreshed and the log   *)
(* moves on.                                                               *)
(*                                                                         *)
(* The client and its verifier have a failure policy each.                 *)
(***************************************************************************)
EXTENDS BadgeVerification

CONSTANTS
  Fqdns,       \* the hosts whose names are domain names
  Targets,     \* URLs asked for: [host, https]; host None: it has none
  Connections, \* certificates a response may come with; None: without TLS
  Clients      \* [policy, verifyServer, verifier] it may be configured with

\* What the facade of the verifier is asked: AnsVerifier.Prefetch or VerifyServer.
Question(host, cert) == [role |-> "server", host |-> host, version |-> None, cert |-> cert]

ASSUME ClientAssumption ==
  /\ Fqdns \subseteq Hosts
  /\ Targets \subseteq [host : Hosts \cup {None}, https : BOOLEAN]
  /\ Connections \subseteq Certs \cup {None}
  /\ Clients \subseteq [policy : {"FailClosed", "FailOpenWithCache", "FailOpen"},
                        verifyServer : BOOLEAN, verifier : Configs]
  /\ \A host \in Fqdns, cert \in Connections \cup {None} : Question(host, cert) \in Requests
  /\ None \notin [call : Calls, delivered : BOOLEAN]

VARIABLES
  settings,  \* the configuration of the client
  stage,    \* where each call of Do or Prefetch is
  target,   \* the host it is for
  conn,     \* the certificate its response came with
  result    \* [call, delivered] of the call that ended in the last step; or None

agentVars == <<settings, stage, target, conn, result>>
badgeVars == vars
clientVars == <<vars, agentVars>>

-----------------------------------------------------------------------------

\* The call ends.
End(g, delivered) ==
  /\ stage' = [stage EXCEPT ![g] = "idle"]
  /\ target' = [target EXCEPT ![g] = None]
  /\ conn' = [conn EXCEPT ![g] = None]
  /\ result' = [call |-> g, delivered |-> delivered]
  /\ UNCHANGED settings

\* The call goes on.
Enter(g, where) ==
  /\ stage' = [stage EXCEPT ![g] = where]
  /\ result' = None
  /\ UNCHANGED settings

\* IsSuccess, and ToError where it is nil.
IsSuccess(outcome) ==
  outcome \in {"Verified", "Prefetched", "FailOpen", "FailOpenWithBadge"}

\* A response is handed to the caller; GetJSON, PostJSON and PutJSON decode its
\* body, which may fail.
Deliver(g) == End(g, TRUE) \/ End(g, FALSE)

\* prefetchBadge, when the verifier has answered.
AfterPrefetch(g, outcome) ==
  IF IsSuccess(outcome) \/ settings.policy # "FailClosed"
  THEN Enter(g, "send") /\ UNCHANGED <<target, conn>>
  ELSE End(g, FALSE)

\* verifyTLSCert, when the verifier has answered.
AfterVerify(g, outcome) ==
  IF IsSuccess(outcome) \/ settings.policy = "FailOpen" THEN Deliver(g) ELSE End(g, FALSE)

After(g, outcome) ==
  CASE stage[g] = "prefetch" -> AfterPrefetch(g, outcome)
    [] stage[g] = "verify" -> AfterVerify(g, outcome)
    [] stage[g] = "warm" -> End(g, FALSE)

-----------------------------------------------------------------------------

\* Do, up to the call of the verifier.
Do(g) ==
  /\ stage[g] = "idle"
  /\ \E t \in Targets :
       /\ IF t.host = None \/ (settings.verifyServer /\ ~t.https)
          THEN End(g, FALSE) /\ UNCHANGED badgeVars
          ELSE /\ target' = [target EXCEPT ![g] = t.host]
               /\ UNCHANGED conn
               /\ IF settings.verifyServer /\ t.host \in Fqdns
                  THEN Enter(g, "prefetch") /\ Begin(g, Question(t.host, None))
                  ELSE Enter(g, "named") /\ UNCHANGED badgeVars

\* No verification is asked for, or the name of the host is refused.
PrefetchAnswered(g) ==
  /\ stage[g] = "named"
  /\ IF settings.verifyServer THEN AfterPrefetch(g, "CertError")
     ELSE Enter(g, "send") /\ UNCHANGED <<target, conn>>
  /\ UNCHANGED badgeVars

\* AgentClient.Prefetch.
Prefetch(g) ==
  /\ stage[g] = "idle"
  /\ \E t \in Targets :
       /\ t.host # None /\ t.host \in Fqdns
       /\ target' = [target EXCEPT ![g] = t.host]
       /\ Begin(g, Question(t.host, None))
  /\ Enter(g, "warm")
  /\ UNCHANGED conn

\* executeRequest: it fails, or a response comes, after redirects from any server
\* and with or without TLS.
ExecuteRequest(g) ==
  /\ stage[g] = "send"
  /\ \/ End(g, FALSE)
     \/ \E c \in Connections : /\ conn' = [conn EXCEPT ![g] = c]
                               /\ Enter(g, "received")
                               /\ UNCHANGED target
  /\ UNCHANGED badgeVars

\* Bug: a response without TLS has nothing to verify.
VerifyTLSCertIfAny(g) ==
  /\ stage[g] = "received"
  /\ IF ~settings.verifyServer \/ conn[g] = None
     THEN Deliver(g) /\ UNCHANGED badgeVars
     ELSE IF target[g] \notin Fqdns
     THEN AfterVerify(g, "CertError") /\ UNCHANGED badgeVars
     ELSE Begin(g, Question(target[g], conn[g])) /\ Enter(g, "verify") /\ UNCHANGED <<target, conn>>

\* verifyTLSCert, up to the call of the verifier.
VerifyTLSCert(g) ==
  /\ stage[g] = "received"
  /\ IF ~settings.verifyServer
     THEN Deliver(g) /\ UNCHANGED badgeVars
     ELSE IF conn[g] = None \/ target[g] \notin Fqdns
     THEN AfterVerify(g, "CertError") /\ UNCHANGED badgeVars
     ELSE Begin(g, Question(target[g], conn[g])) /\ Enter(g, "verify") /\ UNCHANGED <<target, conn>>

\* The verifier works; its answer is acted upon.
VerifierStep(g) ==
  /\ \/ CheckCache(g) \/ Resolve(g) \/ FetchBadge(g) \/ InsertFetched(g) \/ VerifyDANE(g)
  /\ IF pc'[g] = "idle" THEN After(g, answer'.outcome)
     ELSE Enter(g, stage[g]) /\ UNCHANGED <<target, conn>>

\* The refresh, the log and the clock go on.
Environment ==
  /\ \/ Tick \/ RefreshExpiring \/ RefreshFn \/ RefreshFnFails \/ RefreshInsert
     \/ \E id \in Trusted : Revoke(id) \/ \E role \in Roles : Renew(id, role)
  /\ result' = None
  /\ UNCHANGED <<settings, stage, target, conn>>

-----------------------------------------------------------------------------

\* NewAgentClient, with a verifier.  Its policy is not passed on to it.
ClientInit ==
  /\ Init
  /\ settings \in Clients /\ config = settings.verifier
  /\ stage = [g \in Calls |-> "idle"]
  /\ target = [g \in Calls |-> None]
  /\ conn = [g \in Calls |-> None]
  /\ result = None

ClientNext ==
  \/ \E g \in Calls : \/ Do(g) \/ PrefetchAnswered(g) \/ Prefetch(g) \/ ExecuteRequest(g)
                      \/ VerifyTLSCert(g) \/ VerifierStep(g)
  \/ Environment

ClientSpec == ClientInit /\ [][ClientNext]_clientVars

-----------------------------------------------------------------------------
(* Correctness.                                                            *)

Delivers(g) == result' = [call |-> g, delivered |-> TRUE] /\ stage[g] # "idle"

\* ans/agent_client.go:234-239: unless one of the two policies fails open, the
\* caller gets a response only over a connection whose certificate the log named
\* for the host it asked for, at most the TTL and one fetch ago; wherever
\* redirects led, and whatever happened since the badge was prefetched.
DeliveredWasVerified ==
  [][\A g \in Calls :
       /\ Delivers(g) /\ settings.verifyServer
       /\ settings.policy # "FailOpen" /\ config.policy = "FailClosed"
       => /\ conn[g] # None
          /\ RegisteredWithin(Question(target[g], conn[g]), DefaultTTL + MaxLag)]_clientVars
=============================================================================
