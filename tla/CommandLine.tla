------------------------------ MODULE CommandLine ------------------------------
(***************************************************************************)
(* ans-cli as one user meets it: a session either follows the feed of      *)
(* events or makes certificate requests.                                   *)
(***************************************************************************)
EXTENDS EventFeed

CONSTANTS Torn, Flags, OwnFiles, MaxKeys

VARIABLES
  session,  \* what the user is doing
  keyFile, csrFile, jobs, step, key, keys, saved, complete, requested

Files == INSTANCE CertificateRequests

certificateVars ==
  <<keyFile, csrFile, jobs, step, key, keys, saved, complete, requested>>

SessionInit ==
  /\ Init /\ Files!CertificateInit
  /\ session \in {"feed", "files"}
  /\ session = "files" => params = CHOOSE p \in Params : TRUE

SessionNext ==
  \/ session = "feed" /\ Next /\ UNCHANGED <<session, certificateVars>>
  \/ session = "files" /\ Files!CertificateNext /\ UNCHANGED <<session, vars>>

SessionSpec ==
  /\ SessionInit /\ [][SessionNext]_<<session, vars, certificateVars>>
  /\ Fairness

-----------------------------------------------------------------------------

\* generate_csr.go:173-174, see CertificateRequests: whatever is in a request
\* file passes the preflight of the commands that send it.
GeneratedIsAccepted == Files!GeneratedIsAccepted

\* generate_csr.go:251-258, see CertificateRequests: nobody asks for a certificate
\* for a key that was never saved.
KeysAreKept == Files!KeysAreKept
=============================================================================
