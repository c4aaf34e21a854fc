---------------------------- MODULE ScittArtifacts ----------------------------
(***************************************************************************)
(* Receipts and status tokens (cose.go, receipt.go, status_token.go and    *)
(* types.go of verify/scitt), how they are fetched (client.go), and the    *)
(* verification of a certificate by them (VerifyWithScitt in verify.go).   *)
(*                                                                         *)
(* A COSE message is [protected, proof, payload, sig, defects]: protected  *)
(* is [kid, vds, iss], proof the inclusion proof in the unprotected header,*)
(* sig is [by, over], and the defects are what is wrong with the encoding. *)
(* The payload of a receipt is its event, that of a token a map with       *)
(* integer keys and one with string keys.  An optional field that is       *)
(* absent or does not decode is None.                                      *)
(***************************************************************************)
EXTENDS CheckpointNote

CONSTANTS
  MaxInt64,        \* bound: it stands for the largest int64
  MaxClockSkew,    \* MaxClockSkew
  MaxCertArrayLen  \* MaxCertArrayLen

ASSUME ArtifactAssumption ==
  /\ MaxInt64 \in Nat /\ MaxCertArrayLen \in Nat
  /\ MaxClockSkew \in 0..MaxInt64

\* What is wrong if a condition holds.
Failing(check, condition) == IF condition THEN {check} ELSE {}

-----------------------------------------------------------------------------
(* COSE_Sign1.                                                             *)

\* ParseCoseSign1: the array, then parseProtectedHeader, then its elements.
CoseChecks ==
  <<"oversizedInput", "notCBOR", "notAnArray", "arrayLength",
    "protectedBytes", "protectedHeader", "algorithm", "keyID",
    "payload", "signatureLength">>

\* ComputeSigStructureDigest: what is signed.  The proof is not.
SigStructure(protected, payload) == <<"Signature1", protected, payload>>

\* verifyECDSA, under the trusted key of the message, if there is one.
VerifyECDSA(message, keys) ==
  LET kid == message.protected.kid
  IN  kid \in DOMAIN keys =>
        /\ message.sig.by = keys[kid].key
        /\ message.sig.over = SigStructure(message.protected, message.payload)

\* verifyIssuerBinding: a message need not name its issuer.
VerifyIssuerBinding(message, keys) ==
  LET kid == message.protected.kid
  IN  kid \in DOMAIN keys => message.protected.iss \in {None, keys[kid].name}

-----------------------------------------------------------------------------
(* Receipts.                                                               *)

\* extractVDP: the inclusion proof in the unprotected header.
ProofChecks ==
  <<"unprotectedHeader", "noProof", "proofNotAMap", "treeSize",
    "leafIndex", "pathNotAnArray", "pathElement">>

ReceiptChecks ==
  CoseChecks \o <<"vds", "unknownKey", "signature", "issuer">>
             \o ProofChecks \o <<"inclusionPath">>

VerifyReceipt(message, keys) ==
  LET proof == message.proof
      root == WalkInclusionPath(message.payload, proof.leafIndex, proof.treeSize, proof.path)
      failing == message.defects
        \cup Failing("vds", message.protected.vds # 1)
        \cup Failing("unknownKey", message.protected.kid \notin DOMAIN keys)
        \cup Failing("signature", ~VerifyECDSA(message, keys))
        \cup Failing("issuer", ~VerifyIssuerBinding(message, keys))
        \cup Failing("inclusionPath", root = NoRoot)
  IN  [error |-> FirstFailed(ReceiptChecks, failing),
       treeSize |-> proof.treeSize, leafIndex |-> proof.leafIndex, root |-> root,
       event |-> message.payload, keyID |-> message.protected.kid]

-----------------------------------------------------------------------------
(* Status tokens.                                                          *)

\* newPayloadFieldGetter: the integer key first, then the string key.
Field(raw, name) ==
  IF name \in DOMAIN raw.int THEN raw.int[name]
  ELSE IF name \in DOMAIN raw.str THEN raw.str[name] ELSE None

\* decodeFingerprintField: bytes, or hexadecimal with or without a prefix.
DecodeFingerprint(entry) ==
  IF entry.form \in {"bytes", "SHA256:hex", "hex"} THEN entry.fingerprint ELSE None

\* decodeCertArray: entries that do not decode are left out.
DecodeCertArray(raw, name) ==
  IF Field(raw, name) = None THEN {}
  ELSE {DecodeFingerprint(entry) : entry \in Range(Field(raw, name))} \ {None}

TooLong(raw, name) ==
  Field(raw, name) # None /\ Len(Field(raw, name)) > MaxCertArrayLen

\* decodePayloadFields, where an empty string and the expiry 0 are None.
DecodePayload(raw) ==
  [agentID |-> Field(raw, "agent_id"), status |-> Field(raw, "status"),
   exp |-> Field(raw, "exp"), ansName |-> Field(raw, "ans_name"),
   certs |-> [client |-> DecodeCertArray(raw, "valid_identity_certs"),
              server |-> DecodeCertArray(raw, "valid_server_certs")]]

\* AgentStatus.IsTerminal and IsValidForConnection; other statuses are neither.
Terminal == {"EXPIRED", "REVOKED"}
ValidForConnection == {"ACTIVE", "WARNING", "DEPRECATED"}

Int64s == (-MaxInt64 - 1)..MaxInt64

\* The sum of two int64.
Int64(x) == IF x > MaxInt64 THEN x - 2 * (MaxInt64 + 1) ELSE x

\* The tolerance is kept between zero and the maximum.
Clamped(clockSkew) ==
  IF clockSkew < 0 THEN 0 ELSE IF clockSkew > MaxClockSkew THEN MaxClockSkew ELSE clockSkew

Expired(exp, clockSkew, now) == now > Int64(exp + Clamped(clockSkew))

\* decodeStatusPayload: the map, its arrays in turn, then what is required.
TokenChecks ==
  CoseChecks \o <<"unknownKey", "signature", "issuer", "payloadMap",
                  "identityCerts", "identityCertsLength", "serverCerts", "serverCertsLength",
                  "agent_id", "status", "exp", "ans_name", "expired", "terminalStatus">>

VerifyStatusTokenAt(message, keys, clockSkew, now) ==
  LET payload == DecodePayload(message.payload)
      failing == message.defects
        \cup Failing("unknownKey", message.protected.kid \notin DOMAIN keys)
        \cup Failing("signature", ~VerifyECDSA(message, keys))
        \cup Failing("issuer", ~VerifyIssuerBinding(message, keys))
        \cup Failing("identityCertsLength", TooLong(message.payload, "valid_identity_certs"))
        \cup Failing("serverCertsLength", TooLong(message.payload, "valid_server_certs"))
        \cup {f \in {"agent_id", "status", "exp", "ans_name"} :
                Field(message.payload, f) = None}
        \cup Failing("expired",
               payload.exp # None /\ Expired(payload.exp, clockSkew, now))
        \cup Failing("terminalStatus", payload.status \in Terminal)
  IN  [error |-> FirstFailed(TokenChecks, failing), payload |-> payload,
       keyID |-> message.protected.kid]

-----------------------------------------------------------------------------
(* A certificate verified by the artifacts in the headers of a message.    *)

\* mapStatusCodeToError.
MapStatusCodeToError(code) ==
  CASE code = 404 -> "notFound" [] code = 410 -> "agentTerminal"
    [] code = 501 -> "notSupported" [] OTHER -> "HTTPError"

\* fetchBytes, whose answer is [status, readable]: status None is no answer, and a
\* body may not be readable, or too long.
FetchBytes(response) ==
  IF response.status = 200
  THEN IF response.readable THEN None ELSE "HTTPError"
  ELSE IF response.status = None THEN "HTTPError" ELSE MapStatusCodeToError(response.status)

\* FetchRootKeys: a body without a key is an error too.
FetchRootKeys(response) ==
  IF FetchBytes(response) = None /\ ~response.keys THEN "HTTPError" ELSE FetchBytes(response)

\* TransportError.ShouldFallbackToBadge.
ShouldFallbackToBadge == {"notFound", "notSupported", "HTTPError"}

\* What a lookup [keys, fetch] makes of a key it does not know: the key stores of
\* the package leave it at that; another may fetch the keys, which may fail.
Looked(error, lookup) ==
  IF error = "unknownKey" /\ lookup.fetch # None /\ FetchRootKeys(lookup.fetch) # None
  THEN FetchRootKeys(lookup.fetch) ELSE error

\* Bug: a token that has expired lets the badge decide.
HeaderOutcomeLenient(reason, daneRejects) ==
  IF reason = None THEN IF daneRejects THEN "DANERejection" ELSE "verified"
  ELSE IF reason \in ShouldFallbackToBadge \cup {"expired"} THEN "badgeDecides"
  ELSE "SCITTError"

\* scittErrorOutcome, and DANE when there is no error.
HeaderOutcome(reason, daneRejects) ==
  IF reason = None THEN IF daneRejects THEN "DANERejection" ELSE "verified"
  ELSE IF reason \in ShouldFallbackToBadge THEN "badgeDecides"
  ELSE "SCITTError"

\* None is no error.
ASSUME ErrorAssumption ==
  None \notin Range(ReceiptChecks) \cup Range(TokenChecks) \cup ShouldFallbackToBadge
              \cup {"status", "fingerprint", "ANSName", "agentTerminal", "noKeyLookup"}

\* verifyWithHeaders: the receipt, the token, its status, the certificate in the
\* role of the peer, the host, and DANE.
VerifyWithHeaders(r, lookup, clockSkew, now) ==
  LET receipt == VerifyReceipt(r.receipt, lookup.keys)
      token == VerifyStatusTokenAt(r.token, lookup.keys, clockSkew, now)
      error == Looked(IF receipt.error # None THEN receipt.error ELSE token.error, lookup)
      reason ==
        IF lookup.keys = None THEN "noKeyLookup"
        ELSE IF error # None THEN error
        ELSE FirstFailed(<<"status", "fingerprint", "ANSName">>,
               Failing("status", token.payload.status \notin ValidForConnection)
               \cup Failing("fingerprint", r.cert \notin token.payload.certs[r.role])
               \cup Failing("ANSName", token.payload.ansName # r.host))
  IN  [outcome |-> HeaderOutcome(reason, r.daneRejects), reason |-> reason]

\* ServerVerifier.VerifyWithScitt and ClientVerifier.VerifyWithScitt: without
\* headers the badge decides, and half of them are refused.  A client needs a
\* certificate with a host and an ANS name.
VerifyWithScitt(r, lookup, clockSkew, now) ==
  CASE r.receipt = None /\ r.token = None -> [outcome |-> "badgeDecides", reason |-> None]
    [] (r.receipt = None) # (r.token = None) -> [outcome |-> "SCITTError", reason |-> "oneHeader"]
    [] r.receipt # None /\ r.token # None /\ r.role = "client" /\ ~r.named ->
         [outcome |-> "certificateError", reason |-> None]
    [] OTHER -> VerifyWithHeaders(r, lookup, clockSkew, now)
=============================================================================
