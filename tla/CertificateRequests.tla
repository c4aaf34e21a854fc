-------------------------- MODULE CertificateRequests --------------------------
(***************************************************************************)
(* Private keys and certificate requests as ans-cli keeps them in files:   *)
(* generate-csr (cmd/ans-cli/cmd/generate_csr.go, keygen), register and    *)
(* the two commands submit-*-csr, which check a request against the        *)
(* intake rules of the registry before they send it (csr_preflight.go,     *)
(* csrvalidation).                                                         *)
(*                                                                         *)
(* The files are what survives: a command may fail or be killed between    *)
(* any two operations on them, and a file that is being written is cut     *)
(* first.  The other commands run beside generate-csr.                     *)
(***************************************************************************)
EXTENDS Naturals, Sequences

CONSTANTS
  None,       \* no file, no key
  Torn,       \* a file that does not hold one well-formed block
  Flags,      \* [csrType, keyType, keySize]; keyType None: not given
  OwnFiles,   \* requests that users made otherwise
  MaxKeys     \* bound: keys that are generated

VARIABLES
  keyFile,    \* the .key file of each name
  csrFile,    \* the .csr file of each name
  jobs,       \* what generate-csr has still to do
  step,       \* its next operation, of Order; 0: it does not run
  key,        \* the key it has generated
  keys,       \* how many keys there are
  saved,      \* history: the keys that have been in a file
  complete,   \* history: names whose files generate-csr wrote to the end
  requested   \* the requests that the registry has taken

certificateVars ==
  <<keyFile, csrFile, jobs, step, key, keys, saved, complete, requested>>

Names == {"identity", "server"}

-----------------------------------------------------------------------------
(* The rules of the registry.                                              *)

IdentityRules ==
  [RSAKeySizes |-> {2048, 3072, 4096}, ECCurves |-> {"P-256"},
   SignatureAlgorithms |-> {"RSA", "ECDSA"} \X {256, 384, 512}]

ServerRules ==
  [RSAKeySizes |-> {2048, 4096}, ECCurves |-> {},
   SignatureAlgorithms |-> {<<"RSA", 256>>}]

checkPublicKey(rules, kind) ==
  CASE kind.alg = "RSA" -> kind.size \in rules.RSAKeySizes
    [] kind.alg = "EC" -> kind.curve \in rules.ECCurves
    [] OTHER -> FALSE

checkSignatureAlgorithm(rules, algorithm) == algorithm \in rules.SignatureAlgorithms

\* Check, and Validate: one block that parses, a key and a signature algorithm
\* that are accepted, and a signature by that key.
Check(rules, csr) ==
  /\ checkPublicKey(rules, csr.key.kind)
  /\ checkSignatureAlgorithm(rules, csr.signature)
  /\ csr.signedBy = csr.key

Validate(file, rules) == file # Torn /\ Check(rules, file)

-----------------------------------------------------------------------------
(* generate-csr.                                                           *)

csrNames(csrType) ==
  CASE csrType = "both" -> <<"identity", "server">>
    [] csrType \in Names -> <<csrType>>
    [] OTHER -> <<>>

defaultKeyType(name) == IF name = "server" THEN "rsa" ELSE "ec"

registryRules(name) == IF name = "server" THEN ServerRules ELSE IdentityRules

MinRSAKeySize == 2048

\* newKeyGenerator: what kind of key it makes; None: the flags are refused.
newKeyGenerator(keyType, keySize) ==
  CASE keyType = "rsa" /\ keySize >= MinRSAKeySize -> [alg |-> "RSA", size |-> keySize]
    [] keyType = "ec" -> [alg |-> "EC", curve |-> "P-256"]
    [] OTHER -> None

\* Bug: only the sizes of RSA keys are checked.
checkRegistryRulesOfRSA(name, keyType, keySize) ==
  keyType = "rsa" => keySize \in registryRules(name).RSAKeySizes

checkRegistryRules(name, keyType, keySize) ==
  IF keyType = "rsa" THEN keySize \in registryRules(name).RSAKeySizes
  ELSE "P-256" \in registryRules(name).ECCurves

\* planCSRJobs: a job for each name, or none if a flag is refused for any.
planCSRJobs(p) ==
  LET names == csrNames(p.csrType)
      Type(name) == IF p.keyType = None THEN defaultKeyType(name) ELSE p.keyType
      Refused(name) == \/ newKeyGenerator(Type(name), p.keySize) = None
                       \/ ~checkRegistryRules(name, Type(name), p.keySize)
  IN  IF \E i \in DOMAIN names : Refused(names[i]) THEN <<>>
      ELSE [i \in DOMAIN names |->
              [name |-> names[i], newKey |-> newKeyGenerator(Type(names[i]), p.keySize)]]

runGenerateCSR ==
  /\ step = 0
  /\ \E p \in Flags : planCSRJobs(p) # <<>> /\ jobs' = planCSRJobs(p)
  /\ keys + Len(jobs') <= MaxKeys
  /\ step' = 1
  /\ UNCHANGED <<keyFile, csrFile, key, keys, saved, complete, requested>>

\* Bug: the request is written before the key is.
OrderRequestFirst ==
  <<"NewKey", "OpenCSRFile", "WriteCSRFile", "OpenKeyFile", "WriteKeyFile">>

\* What generateCSR does for a job, SavePrivateKeyPEM and WriteFile included.
Order == <<"NewKey", "OpenKeyFile", "WriteKeyFile", "OpenCSRFile", "WriteCSRFile">>

Does(operation) == step # 0 /\ Order[step] = operation

Name == Head(jobs).name

\* To the next operation, of this job or of the next one.
GoOn ==
  LET last == step = Len(Order)
  IN  /\ jobs' = IF last THEN Tail(jobs) ELSE jobs
      /\ step' = IF ~last THEN step + 1 ELSE IF Len(jobs) = 1 THEN 0 ELSE 1
      /\ complete' = IF last THEN complete \cup {Name} ELSE complete

NewKey ==
  /\ Does("NewKey")
  /\ keys' = keys + 1
  /\ key' = [kind |-> Head(jobs).newKey, id |-> keys']
  /\ GoOn
  /\ UNCHANGED <<keyFile, csrFile, saved, requested>>

\* A file is cut when it is opened.
OpenKeyFile ==
  /\ Does("OpenKeyFile")
  /\ keyFile' = [keyFile EXCEPT ![Name] = Torn]
  /\ complete' = complete \ {Name}
  /\ step' = step + 1
  /\ UNCHANGED <<csrFile, jobs, key, keys, saved, requested>>

WriteKeyFile ==
  /\ Does("WriteKeyFile")
  /\ keyFile' = [keyFile EXCEPT ![Name] = key]
  /\ saved' = saved \cup {key}
  /\ GoOn
  /\ UNCHANGED <<csrFile, key, keys, requested>>

OpenCSRFile ==
  /\ Does("OpenCSRFile")
  /\ csrFile' = [csrFile EXCEPT ![Name] = Torn]
  /\ complete' = complete \ {Name}
  /\ step' = step + 1
  /\ UNCHANGED <<keyFile, jobs, key, keys, saved, requested>>

\* The algorithm that x509.CreateCertificateRequest takes for a key.
SignatureOf(kind) == <<IF kind.alg = "RSA" THEN "RSA" ELSE "ECDSA", 256>>

WriteCSRFile ==
  /\ Does("WriteCSRFile")
  /\ csrFile' = [csrFile EXCEPT ![Name] =
       [key |-> key, signature |-> SignatureOf(key.kind), signedBy |-> key]]
  /\ GoOn
  /\ UNCHANGED <<keyFile, key, keys, saved, requested>>

\* An operation fails, or the command is killed: the files stay as they are.
GenerateFails ==
  /\ step # 0
  /\ step' = 0 /\ jobs' = <<>>
  /\ UNCHANGED <<keyFile, csrFile, key, keys, saved, complete, requested>>

-----------------------------------------------------------------------------
(* register and submit-*-csr.                                              *)

\* The request in a file of this name, or in one of the user's own, unless the
\* preflight refuses it.
readValidatedCSR(name, skipPreflight) ==
  {f \in {csrFile[name]} \cup OwnFiles :
     f # None /\ (skipPreflight \/ Validate(f, registryRules(name)))}

\* The registry takes requests that its rules allow; whether its answer comes
\* back changes nothing here.
Take(requests) ==
  /\ \A r \in requests : Validate(r.csr, registryRules(r.name))
  /\ requested' = requested \cup {r.csr : r \in requests}

\* submit-identity-csr and submit-server-csr.
runSubmitCSR ==
  /\ \E name \in Names, skipPreflight \in BOOLEAN :
       \E csr \in readValidatedCSR(name, skipPreflight) : Take({[name |-> name, csr |-> csr]})
  /\ UNCHANGED <<keyFile, csrFile, jobs, step, key, keys, saved, complete>>

\* register.  A request for the server may be left out, or a certificate given
\* instead.
runRegister ==
  /\ \E skipPreflight \in BOOLEAN :
       \E identity \in readValidatedCSR("identity", skipPreflight),
          server \in readValidatedCSR("server", skipPreflight) \cup {None} :
         Take({[name |-> "identity", csr |-> identity]} \cup
              {[name |-> "server", csr |-> s] : s \in {server} \ {None}})
  /\ UNCHANGED <<keyFile, csrFile, jobs, step, key, keys, saved, complete>>

-----------------------------------------------------------------------------

NoFiles == [name \in Names |-> None]

CertificateInit ==
  /\ keyFile = NoFiles /\ csrFile = NoFiles
  /\ jobs = <<>> /\ step = 0 /\ key = None /\ keys = 0
  /\ saved = {} /\ complete = {} /\ requested = {}

CertificateNext ==
  \/ runGenerateCSR \/ NewKey \/ OpenKeyFile \/ WriteKeyFile \/ OpenCSRFile
  \/ WriteCSRFile \/ GenerateFails \/ runSubmitCSR \/ runRegister

-----------------------------------------------------------------------------
(* Correctness.                                                            *)

\* cmd/ans-cli/cmd/generate_csr.go:173-174: "generate-csr never writes a CSR that
\* register or submit-*-csr fails on", whatever the flags and whatever was in
\* the files before, unless writing it is cut short.
GeneratedIsAccepted ==
  \A name \in Names : csrFile[name] \notin {None, Torn} =>
    Validate(csrFile[name], registryRules(name))

\* generate_csr.go:251-258 (the key is written, then the request): a certificate
\* that the registry is asked for through these files is one whose private key
\* has been saved, wherever a command was cut short; and when generate-csr has
\* finished a name, its two files belong together.
KeysAreKept ==
  /\ \A csr \in requested : csr.key \in saved \/ csr \in OwnFiles
  /\ \A name \in complete : csrFile[name].key = keyFile[name]
=============================================================================
