---------------------------- MODULE MCCommandLine ----------------------------
(* Five events of two providers, one or two to a page; every combination of  *)
(* flags of generate-csr that differs in what it makes, and requests of the  *)
(* user's own that each break one rule.                                      *)
EXTENDS CommandLine

CONSTANTS p1, p2

Providers == <<p1, p2, p1, p1, p2>>
flags(limit, provider, follow, json, interval) ==
  [limit |-> limit, provider |-> provider, follow |-> follow, json |-> json,
   interval |-> interval]
AnyFlags ==
  {flags(l, p, f, j, 5) : l \in {0, 1, 2}, p \in {None, p1}, f \in BOOLEAN, j \in BOOLEAN}
  \cup {flags(1, None, TRUE, FALSE, i) : i \in {0, -1}}

CertificateFlags ==
  {[csrType |-> t, keyType |-> k, keySize |-> n] :
     t \in {"both", "identity", "server", "other"}, k \in {None, "rsa", "ec", "other"},
     n \in {1024, 2048, 3072}}

rsa(id, size) == [id |-> id, kind |-> [alg |-> "RSA", size |-> size]]
own(k, alg, hash, by) == [key |-> k, signature |-> <<alg, hash>>, signedBy |-> by]
Own ==
  {Torn,
   own(rsa(-1, 4096), "RSA", 256, rsa(-1, 4096)),
   own(rsa(-1, 2048), "RSA", 1, rsa(-1, 2048)),
   own(rsa(-1, 2048), "RSA", 256, rsa(-2, 2048)),
   own([id |-> -3, kind |-> [alg |-> "EC", curve |-> "P-384"]], "ECDSA", 384,
       [id |-> -3, kind |-> [alg |-> "EC", curve |-> "P-384"]]),
   own([id |-> -4, kind |-> [alg |-> "Ed25519"]], "Ed25519", 512,
       [id |-> -4, kind |-> [alg |-> "Ed25519"]])}
=============================================================================
