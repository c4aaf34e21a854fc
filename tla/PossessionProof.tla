---------------------------- MODULE PossessionProof ----------------------------
(***************************************************************************)
(* The proof of possession a caller attaches to a request, and what binds  *)
(* it to the request a callee receives (proof.go, sign.go, jws.go,         *)
(* verify.go and http.go of pop).  Trust in the certificate, freshness and *)
(* single use are in CallerVerification.                                   *)
(*                                                                         *)
(* A URL is [scheme, host, port, path, query]: a host is [name, spelling], *)
(* the port Absent is not written, a path may be empty.  A request is     *)
(* [method, url, authorization, content], where authorization is [scheme,  *)
(* token].  A proof is [header, payload, sig, defects].  Hashes stand for  *)
(* what they are of.                                                       *)
(***************************************************************************)
EXTENDS Integers, SequencesExt

CONSTANT Absent  \* a port that is not written, no access token, no error

ASSUME ProofAssumption ==
  Absent \notin Nat \cup {"authority", "malformedProof", "keys", "unsupportedProfile",
                        "HTTPBinding", "tokenBinding", "contentBinding"}

Hosts == [name : STRING, spelling : STRING]

URLs == [scheme : {"https", "http"}, host : Hosts, port : Nat \cup {Absent},
         path : STRING, query : BOOLEAN]

HTTPRequests ==
  [method : STRING, url : URLs, content : STRING,
   authorization : [scheme : STRING, token : STRING \cup {Absent}]]

-----------------------------------------------------------------------------
(* What is bound.                                                          *)

DefaultPort(scheme) == IF scheme = "https" THEN 443 ELSE 80

\* Without the port that the scheme implies.
WithoutDefault(scheme, port) == IF port = DefaultPort(scheme) THEN Absent ELSE port

\* Bug: an empty path stays empty.
NormalizeHTUPath(url) ==
  [scheme |-> url.scheme, host |-> url.host.name,
   port |-> WithoutDefault(url.scheme, url.port), path |-> url.path]

\* Bug: no port is part of the target.
NormalizeHTUHost(url) ==
  [scheme |-> url.scheme, host |-> url.host.name, port |-> Absent,
   path |-> IF url.path = "" THEN "/" ELSE url.path]

\* normalizeHTU: the host in lower case, no default port, no query.
NormalizeHTU(url) ==
  [scheme |-> url.scheme, host |-> url.host.name,
   port |-> WithoutDefault(url.scheme, url.port),
   path |-> IF url.path = "" THEN "/" ELSE url.path]

\* AccessTokenFromAuthorization: any spelling of the scheme DPoP.
AccessTokenFromAuthorization(authorization) ==
  IF authorization.scheme \in {"DPoP", "dpop"} THEN authorization.token ELSE Absent

-----------------------------------------------------------------------------
(* The caller.                                                             *)

\* NewSigner: the certificate binds the key it signs with.
NewSigner(key, cert) == [key |-> key, cert |-> cert]

\* Signer.Sign.
Sign(signer, method, url, ath, content) ==
  LET header == [typ |-> "dpop+jwt", alg |-> "ES256",
                 jwk |-> signer.key, x5c |-> <<[key |-> signer.key, cert |-> signer.cert]>>]
      payload == [htm |-> method, htu |-> NormalizeHTU(url), ath |-> ath,
                  profile |-> 1, digest |-> content]
  IN  [header |-> header, payload |-> payload,
       sig |-> [by |-> signer.key, over |-> <<header, payload>>], defects |-> {}]

\* AttachIdentity, its proof.
AttachIdentity(signer, request) ==
  Sign(signer, request.method, request.url,
       AccessTokenFromAuthorization(request.authorization), request.content)

-----------------------------------------------------------------------------
(* The callee.                                                             *)

\* net/http: the request as the server gets it.  The target has a path.
Received(request) ==
  [request EXCEPT !.url.path = IF @ = "" THEN "/" ELSE @]

\* trustedKey.
TrustedKey(scheme, host, port) == <<scheme, host.name, WithoutDefault(scheme, port)>>

\* WithTrustedHosts: each host is listed under both schemes.
TrustedHosts(hosts) ==
  {TrustedKey(scheme, h.host, h.port) : scheme \in {"https", "http"}, h \in hosts}

\* WithExternalURL, with a function that joins a fixed authority with the path,
\* or else defaultRequestURL.
RequestURL(config, request) ==
  IF config.external = Absent THEN request.url
  ELSE [request.url EXCEPT !.scheme = config.external.scheme,
                           !.host = config.external.host, !.port = config.external.port]

\* Middleware panics without a trusted authority.
ValidConfig(config) == config.hosts # {} \/ config.external # Absent

\* checkAuthority.
CheckAuthority(config, request) ==
  LET url == RequestURL(config, request)
  IN  config.hosts # {} =>
        TrustedKey(url.scheme, url.host, url.port) \in TrustedHosts(config.hosts)

\* checkHTTPBinding.
CheckHTTPBinding(payload, config, request) ==
  /\ payload.htm = request.method
  /\ payload.htu = NormalizeHTU(RequestURL(config, request))

\* checkTokenBinding: an ath if and only if there is a token, and the one of it.
CheckTokenBinding(payload, request) ==
  payload.ath = AccessTokenFromAuthorization(request.authorization)

\* acceptES256DPoP, leafCert, matchJWKToCert and verifyES256, after the segments
\* of the proof and its header have been decoded.
CheckKeys(proof) ==
  /\ proof.header.typ = "dpop+jwt" /\ proof.header.alg = "ES256"
  /\ Len(proof.header.x5c) = 1
  /\ LET leaf == proof.header.x5c[1]
     IN  /\ proof.header.jwk = leaf.key
         /\ proof.sig = [by |-> leaf.key, over |-> <<proof.header, proof.payload>>]

\* The error of the first check that fails, in the order of verifyProofUnrecorded;
\* the content is compared last.
VerifyProof(proof, config, request) ==
  IF proof.defects # {} THEN "malformedProof"
  ELSE IF ~CheckKeys(proof) THEN "keys"
  ELSE IF proof.payload.profile # 1 THEN "unsupportedProfile"
  ELSE IF ~CheckHTTPBinding(proof.payload, config, request) THEN "HTTPBinding"
  ELSE IF ~CheckTokenBinding(proof.payload, request) THEN "tokenBinding"
  ELSE IF proof.payload.digest # request.content THEN "contentBinding"
  ELSE Absent

\* The middleware, for a caller it trusts.
Authenticate(proof, config, sent) ==
  LET request == Received(sent)
  IN  IF ~CheckAuthority(config, request) THEN "authority"
      ELSE VerifyProof(proof, config, request)
=============================================================================
