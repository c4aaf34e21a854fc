---------------------------- MODULE CheckpointNote ----------------------------
(***************************************************************************)
(* Signed checkpoints of the transparency log (verify/scitt/checkpoint.go).*)
(*                                                                         *)
(* A note is [body, lines, defects].  Its body is [origin, size, root].  A *)
(* signature line is [name, kid, sig], where a signature is [by, over,     *)
(* form]: the key that made it, the body it was made over, and how it is   *)
(* encoded.  The defects are what is wrong with the text of the note.      *)
(* Trusted keys are a function from key hashes to [key, name].             *)
(***************************************************************************)
EXTENDS MerkleTree

CONSTANT None  \* no error, no key, no artifact

\* The first in a sequence of checks that what is checked does not pass.
FirstFailed(checks, defects) ==
  LET i == SelectInSeq(checks, LAMBDA check : check \in defects)
  IN  IF i = 0 THEN None ELSE checks[i]

\* The text of a note, its signature block, its signature lines, its body.
NoteChecks ==
  <<"oversizedInput", "notText",
    "noBlankLine", "noSignatureLines", "noEmDash", "noSignerName",
    "signatureNotBase64", "signatureTooShort",
    "shortBody", "emptyOrigin", "invalidSize", "invalidRootHash">>

\* None is no error of a note.
ASSUME NoteErrorAssumption ==
  None \notin Range(NoteChecks) \cup {"unknownKey", "signatureInvalid", "issuerMismatch"}

\* verifyCheckpointSignature: ASN.1 DER, or the fixed-width form.
VerifyCheckpointSignature(key, body, sig) ==
  sig.by = key /\ sig.over = body /\ sig.form \in {"DER", "r||s"}

\* bindCheckpointSigner.
BindCheckpointSigner(origin, signer, trusted) ==
  signer = trusted.name /\ origin = trusted.name

\* What the lines seen so far amount to: the first key hash not known, the first
\* key that verified, whether there was an envelope, and the error that ends it.
NothingSeen == [unknown |-> None, keyID |-> None, envelope |-> FALSE, error |-> None]

\* Bug: the first line that verifies settles it.
ExamineLineUntilVerified(seen, line, body, keys) ==
  IF seen.error # None \/ seen.keyID # None THEN seen
  ELSE IF line.kid \notin DOMAIN keys
  THEN [seen EXCEPT !.unknown = IF @ = None THEN line.kid ELSE @]
  ELSE LET trusted == keys[line.kid]
       IN  IF ~VerifyCheckpointSignature(trusted.key, body, line.sig)
           THEN IF line.sig.form = "JWS" THEN [seen EXCEPT !.envelope = TRUE]
                ELSE [seen EXCEPT !.error = "signatureInvalid"]
           ELSE IF ~BindCheckpointSigner(body.origin, line.name, trusted)
           THEN [seen EXCEPT !.error = "issuerMismatch"]
           ELSE [seen EXCEPT !.keyID = line.kid]

\* One line.  Lines of unknown keys are skipped; a line of a known key has to
\* verify, unless it is an envelope, and to bind.
ExamineLine(seen, line, body, keys) ==
  IF seen.error # None THEN seen
  ELSE IF line.kid \notin DOMAIN keys
  THEN [seen EXCEPT !.unknown = IF @ = None THEN line.kid ELSE @]
  ELSE LET trusted == keys[line.kid]
       IN  IF ~VerifyCheckpointSignature(trusted.key, body, line.sig)
           THEN IF line.sig.form = "JWS" THEN [seen EXCEPT !.envelope = TRUE]
                ELSE [seen EXCEPT !.error = "signatureInvalid"]
           ELSE IF ~BindCheckpointSigner(body.origin, line.name, trusted)
           THEN [seen EXCEPT !.error = "issuerMismatch"]
           ELSE [seen EXCEPT !.keyID = IF @ = None THEN line.kid ELSE @]

\* What is known after each line.
SeenLines(note, keys) ==
  LET S[k \in 0..Len(note.lines)] ==
        IF k = 0 THEN NothingSeen
        ELSE ExamineLine(S[k - 1], note.lines[k], note.body, keys)
  IN  S

\* verifyCheckpointSignatures.
VerifyCheckpointSignatures(note, keys) ==
  LET seen == SeenLines(note, keys)[Len(note.lines)]
  IN  IF seen.error # None \/ seen.keyID # None THEN seen
      ELSE [seen EXCEPT !.error = IF seen.unknown # None THEN "unknownKey"
                                  ELSE "signatureInvalid"]

\* The error a note is refused with, or the checkpoint it holds.
VerifyCheckpoint(note, keys) ==
  LET malformed == FirstFailed(NoteChecks, note.defects)
      seen == VerifyCheckpointSignatures(note, keys)
      error == IF malformed # None THEN malformed ELSE seen.error
  IN  [error |-> error, origin |-> note.body.origin, size |-> note.body.size,
       root |-> note.body.root, keyID |-> IF error = None THEN seen.keyID ELSE None]

\* Bug: the sizes are not compared.
CoversRoot(checkpoint, receipt) == checkpoint.root = receipt.root

\* Checkpoint.Covers.
Covers(checkpoint, receipt) ==
  /\ receipt.treeSize = checkpoint.size
  /\ receipt.root = checkpoint.root
=============================================================================
