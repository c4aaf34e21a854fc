------------------------------- MODULE Discovery -------------------------------
(***************************************************************************)
(* What a verifier makes of the answers of DNS: the badge records of a     *)
(* host (verify/dns_resolver.go, badge_record.go), the URL of a badge      *)
(* (url_validator.go) and TLSA records (dane.go).                          *)
(*                                                                         *)
(* An answer is [rcode, records, ...].  A TXT record is [format, version,  *)
(* badge, faults], where the faults are those of its version and its URL.  *)
(* A TLSA record is [usage, selector, matching, data].                     *)
(***************************************************************************)
EXTENDS Integers, FiniteSets

CONSTANTS
  None,            \* no version, no error, no badge
  keyOf,           \* the public key in each certificate
  FingerprintOnly  \* certificates known by their fingerprint alone

-----------------------------------------------------------------------------
(* Badge records.                                                          *)

\* ParseAnsBadgeRecord accepts the text.
Accepted(txt) ==
  /\ txt.format \in {"ans-badge1", "ra-badge1"}
  /\ txt.badge # None
  /\ txt.faults \cap {"unparsable", "not https", "no host", "userinfo", "fragment"} = {}

\* A version that does not parse is ignored.
ParseAnsBadgeRecord(txt) ==
  [version |-> IF "version" \in txt.faults THEN None ELSE txt.version,
   badge |-> txt.badge, faults |-> txt.faults]

\* lookupBadgeRecords and handleLookupError: the error, or the records.
LookupBadgeRecords(answer) ==
  [error |-> CASE answer.rcode \in {"ok", "not found"} -> None
               [] answer.rcode = "timeout" -> "timeout"
               [] OTHER -> "lookup failed",
   records |-> IF answer.rcode = "ok"
               THEN {ParseAnsBadgeRecord(txt) : txt \in {t \in answer.records : Accepted(t)}}
               ELSE {}]

\* LookupAnsBadge: the older name only when the other has no record, and not
\* when its lookup failed.
LookupAnsBadge(answers) ==
  LET first == LookupBadgeRecords(answers.ansBadge)
  IN  IF first.error # None \/ first.records # {} THEN first
      ELSE LookupBadgeRecords(answers.raBadge)

\* FindPreferredBadge: the newest version, a record without one last.
Preferred(records) ==
  {r \in records : \A s \in records :
     s.version # None => r.version # None /\ s.version <= r.version}

\* FindBadgeForVersion: that version, or else a record without one.
ForVersion(records, version) ==
  IF \E r \in records : r.version = version
  THEN {r \in records : r.version = version}
  ELSE {r \in records : r.version = None}

\* URLValidator.Validate.
Validate(record, trusted) ==
  /\ record.badge \in trusted
  /\ record.faults \cap {"not https", "port", "traversal", "query"} = {}

-----------------------------------------------------------------------------
(* TLSA records.                                                           *)

\* LookupTLSA.
LookupTLSA(answer) ==
  [error |-> CASE answer.rcode = "error" -> "lookup failed"
               [] answer.rcode = "SERVFAIL" -> "DNSSEC failed"
               [] OTHER -> None,
   records |-> IF answer.rcode = "ok" THEN answer.records ELSE {},
   authenticated |-> answer.authenticated]

\* tlsaAssociation: the data a certificate has for a selector and a matching
\* type; None if there is none.
TlsaAssociation(cert, selector, matching) ==
  IF selector \notin {0, 1} \/ matching \notin 0..2 THEN None
  ELSE <<matching, IF selector = 0 THEN cert ELSE keyOf[cert]>>

\* A record of DANE-EE matches the certificate; by its fingerprint alone only
\* the SHA-256 of the whole certificate can be compared.
MatchesTLSA(cert, record) ==
  /\ record.usage = 3
  /\ cert \in FingerprintOnly => record.selector = 0 /\ record.matching = 1
  /\ record.data = TlsaAssociation(cert, record.selector, record.matching)

\* DANEVerifier.Verify.
DANEOutcome(cert, answer) ==
  LET result == LookupTLSA(answer)
  IN  CASE result.error = "DNSSEC failed" -> "DANEDNSSECFailed"
        [] result.error = "lookup failed" -> "DANELookupError"
        [] result.error = None /\ result.records = {} -> "DANENoRecords"
        [] result.error = None /\ result.records # {} /\ ~result.authenticated -> "DANESkipped"
        [] OTHER -> IF \E r \in result.records : MatchesTLSA(cert, r)
                    THEN "DANEVerified" ELSE "DANEMismatch"

\* DANEOutcome.IsReject.
IsReject(outcome) == outcome \in {"DANEMismatch", "DANEDNSSECFailed"}
=============================================================================
