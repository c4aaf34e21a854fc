--------------------------- MODULE CommandLineProofs ---------------------------
(***************************************************************************)
(* What the command line keeps, for feeds and pages of every size, every   *)
(* set of flags and every number of keys: no event is skipped, what        *)
(* generate-csr writes is accepted, and no key is lost that a certificate  *)
(* was asked for.                                                          *)
(***************************************************************************)
EXTENDS CommandLine, Sequences, FiniteSetTheorems, WellFoundedInduction, TLAPS

-----------------------------------------------------------------------------
(* The feed.                                                               *)

Running == {"get", "output", "advance", "wait"}

FeedTypes ==
  /\ published \in Nat /\ params \in Params
  /\ pc \in Running \cup {"ended", "refused"}
  /\ cursor \in Nat \cup {None} /\ known \in Nat \cup {None}

\* Nobody goes on from an event that is not published yet.
PlacesExist == After(cursor) <= published /\ After(known) <= published

\* The page at hand starts where the cursor is and leaves out nothing up to the
\* log ID that it ends with.
PageIsGapless ==
  pc \in {"output", "advance"} =>
    /\ page.lastLogID # None =>
         /\ page.lastLogID \in 1..published
         /\ \A e \in Matching(page.lastLogID) : e > After(cursor) => e \in page.items
    /\ pc = "advance" => page.items \subseteq shown

FeedInv == FeedTypes /\ PlacesExist /\ PageIsGapless /\ NothingSkipped

\* A nonempty set of numbers up to n has a largest one.
LEMMA LargestExists ==
  ASSUME NEW n \in Nat, NEW S \in SUBSET (0..n), S # {}
  PROVE  Max(S) \in S /\ \A y \in S : y <= Max(S)
<1> DEFINE T == {n - e : e \in S}
<1>1. /\ \A y \in S : n - y \in Nat /\ y \in Nat
      /\ \A u \in T : \E y \in S : u = n - y
      /\ \A y \in S : n - y \in T
  OBVIOUS
<1> DEFINE R == {ss \in Nat \X Nat : ss[1] < ss[2]}
<1>2. IsWellFoundedOn(R, Nat)
  BY NatLessThanWellFounded, Zenon DEF OpToRel
<1> HIDE DEF T
<1>3. T \subseteq Nat /\ T # {}
  BY <1>1
<1>4. \A u, t \in Nat : ~(<<u, t>> \in R) => t <= u
  OBVIOUS
<1> HIDE DEF R
<1>5. PICK t \in T : \A u \in T : ~(<<u, t>> \in R)
  BY <1>2, <1>3, WFMin
<1>6. \A u \in T : t <= u
  BY <1>3, <1>5, <1>4
<1>7. PICK x \in S : t = n - x
  BY <1>1, <1>5
<1>8. \A y \in S : y <= x
  BY <1>1, <1>6, <1>7
<1>9. \E z \in S : \A y \in S : z >= y
  BY <1>8
<1> QED
  BY <1>9 DEF Max

\* GetAgentEvents, of the registry: a page has no gaps, whatever limits its size.
LEMMA PageHasNoGap ==
  ASSUME FeedTypes, Page.lastLogID # None
  PROVE  /\ Page.lastLogID \in 1..published
         /\ \A e \in Matching(Page.lastLogID) : e > After(cursor) => e \in Page.items
<1> DEFINE next == {e \in Matching(published) : e > After(cursor)}
           limit == IF params.limit > 0 THEN params.limit ELSE PageSize
           upTo(e) == {d \in next : d <= e}
           items == {e \in next : Cardinality(upTo(e)) <= limit}
           last == Page.lastLogID
<1>1. /\ Page.items = items
      /\ last = IF items = {} THEN None ELSE Max(items)
  BY DEF Page
<1>2. items \in SUBSET (0..published) /\ published \in Nat
  BY DEF FeedTypes, Matching
<1>3. items # {} /\ last = Max(items)
  BY <1>1
<1> HIDE DEF items
<1>4. last \in items /\ \A y \in items : y <= last
  BY <1>2, <1>3, LargestExists
<1>5. last \in next /\ Cardinality(upTo(last)) <= limit
  BY <1>4 DEF items
<1>6. last \in 1..published
  BY <1>5 DEF Matching
<1>7. ASSUME NEW e \in Matching(last), e > After(cursor)
      PROVE  e \in items
  <2>1. e \in next /\ e <= last /\ e \in Int /\ last \in Int
    BY <1>6, <1>7, <1>2 DEF Matching
  <2>2. next \subseteq Int
    BY DEF Matching
  <2>3. upTo(e) \subseteq upTo(last)
    BY <2>1, <2>2
  <2>4. IsFiniteSet(1..published)
    BY <1>2, FS_Interval
  <2>5. upTo(last) \subseteq 1..published
    BY DEF Matching
  <2>6. IsFiniteSet(upTo(last))
    BY <2>4, <2>5, FS_Subset
  <2>7. Cardinality(upTo(e)) <= Cardinality(upTo(last))
    BY <2>3, <2>6, FS_Subset
  <2>8. /\ Cardinality(upTo(last)) \in Nat
        /\ Cardinality(upTo(e)) \in Nat
    BY <2>3, <2>6, FS_Subset, FS_CardinalityType
  <2>9. limit \in Nat
    BY FeedAssumption DEF FeedTypes
  <2>10. Cardinality(upTo(e)) <= limit
    <3> HIDE DEF limit, upTo
    <3> QED BY <1>5, <2>7, <2>8, <2>9
  <2> QED
    BY <2>1, <2>10 DEF items
<1> QED
  BY <1>1, <1>6, <1>7

LEMMA FeedInit ==
  Init => FeedInv
BY DEF Init, FeedInv, FeedTypes, Running, PlacesExist, PageIsGapless, NothingSkipped,
       Matching, After

\* What is published later comes after every place.
LEMMA PublishKeepsFeed ==
  ASSUME FeedInv, Publish PROVE FeedInv'
<1> USE DEF Publish, FeedInv
<1>1. FeedTypes'
  BY DEF FeedTypes
<1>2. published' = published + 1 /\ published \in Nat /\ After(cursor)' = After(cursor)
      /\ After(known)' = After(known) /\ After(cursor) \in Nat /\ After(known) \in Nat
  BY DEF FeedTypes, After
<1>3. PlacesExist'
  BY <1>2 DEF PlacesExist
<1>4. PageIsGapless'
  BY <1>2 DEF PageIsGapless, Matching
<1>5. NothingSkipped'
  BY <1>2 DEF NothingSkipped, Matching, PlacesExist, After
<1> QED
  BY <1>1, <1>3, <1>4, <1>5

\* The page of the registry has no gap, and an empty page no end.
LEMMA GetKeepsFeed ==
  ASSUME FeedInv, GetAgentEvents PROVE FeedInv'
<1> USE DEF GetAgentEvents, FeedInv
<1>1. FeedTypes' /\ PlacesExist'
  BY DEF FeedTypes, PlacesExist, After, Running
<1>2. NothingSkipped'
  BY DEF NothingSkipped, Matching, After
<1>3. CASE page' = EmptyPage
  <2>1. PageIsGapless'
    BY <1>3 DEF PageIsGapless, EmptyPage
  <2> QED
    BY <1>1, <1>2, <2>1
<1>4. CASE page' = Page
  <2>1. PageIsGapless'
    BY <1>4, PageHasNoGap DEF PageIsGapless, Matching, After
  <2> QED
    BY <1>1, <1>2, <2>1
<1> QED
  BY <1>3, <1>4

\* The user is shown the page, and with it everything up to its last log ID.
LEMMA OutputKeepsFeed ==
  ASSUME FeedInv, OutputEvents PROVE FeedInv'
<1> USE DEF OutputEvents, FeedInv
<1>1. /\ known' = known \/ (known' = page.lastLogID /\ page.lastLogID # None)
      /\ shown' = shown \cup page.items /\ cursor' = cursor /\ pc = "output"
      /\ published' = published /\ params' = params /\ page' = page /\ pc' = "advance"
  OBVIOUS
<1>2. page.lastLogID # None =>
        /\ page.lastLogID \in 1..published
        /\ \A e \in Matching(page.lastLogID) : e > After(cursor) => e \in page.items
  BY <1>1 DEF PageIsGapless
<1>3. FeedTypes' /\ PlacesExist'
  BY <1>1, <1>2 DEF FeedTypes, PlacesExist, After, Running
<1>4. PageIsGapless'
  BY <1>1, <1>2 DEF PageIsGapless, Matching, After
<1>5. Matching(published) \cap (1..After(cursor)) \subseteq shown
  BY DEF NothingSkipped
<1>6. ASSUME known' = page.lastLogID, page.lastLogID # None,
             NEW e \in Matching(published), e \in 1..page.lastLogID
      PROVE  e \in shown'
  <2>1. e \in Matching(page.lastLogID) /\ After(cursor) \in Nat
    BY <1>6 DEF Matching, FeedTypes, After
  <2>2. CASE e > After(cursor)
    BY <1>1, <1>2, <1>6, <2>1, <2>2
  <2>3. CASE ~(e > After(cursor))
    BY <1>1, <1>5, <1>6, <2>1, <2>3
  <2> QED
    BY <2>2, <2>3
<1>7. NothingSkipped'
  BY <1>1, <1>5, <1>6 DEF NothingSkipped, Matching, After
<1> QED
  BY <1>3, <1>4, <1>7

\* The cursor moves over what has been shown.
LEMMA AdvanceKeepsFeed ==
  ASSUME FeedInv, Advance PROVE FeedInv'
<1> USE DEF Advance, FeedInv
<1>1. /\ cursor' = cursor \/ (cursor' = page.lastLogID /\ page.lastLogID # None)
      /\ shown' = shown /\ known' = known /\ pc = "advance" /\ pc' \in {"wait", "ended"}
      /\ published' = published /\ params' = params
  OBVIOUS
<1>2. /\ page.items \subseteq shown
      /\ page.lastLogID # None =>
        /\ page.lastLogID \in 1..published
        /\ \A e \in Matching(page.lastLogID) : e > After(cursor) => e \in page.items
  BY <1>1 DEF PageIsGapless
<1>3. FeedTypes' /\ PlacesExist'
  BY <1>1, <1>2 DEF FeedTypes, PlacesExist, After, Running
<1>4. PageIsGapless'
  BY <1>1 DEF PageIsGapless
<1>5. Matching(published) \cap (1..After(cursor)) \subseteq shown
  BY DEF NothingSkipped
<1>6. ASSUME cursor' = page.lastLogID, page.lastLogID # None,
             NEW e \in Matching(published), e \in 1..page.lastLogID
      PROVE  e \in shown'
  <2>1. e \in Matching(page.lastLogID) /\ After(cursor) \in Nat
    BY <1>6 DEF Matching, FeedTypes, After
  <2>2. CASE e > After(cursor)
    BY <1>1, <1>2, <1>6, <2>1, <2>2
  <2>3. CASE ~(e > After(cursor))
    BY <1>1, <1>5, <1>6, <2>1, <2>3
  <2> QED
    BY <2>2, <2>3
<1>7. NothingSkipped'
  BY <1>1, <1>5, <1>6 DEF NothingSkipped, Matching, After
<1> QED
  BY <1>3, <1>4, <1>7

LEMMA FeedStep ==
  ASSUME FeedInv, [Next]_vars PROVE FeedInv'
<1> USE DEF FeedInv, FeedTypes, Running, PlacesExist, PageIsGapless, NothingSkipped,
            Matching, After
<1>1. CASE Publish
  BY <1>1, PublishKeepsFeed
<1>2. CASE GetAgentEvents
  BY <1>2, GetKeepsFeed
<1>3. CASE GetAgentEventsFails
  BY <1>3 DEF GetAgentEventsFails
<1>4. CASE Start
  BY <1>4 DEF Start
<1>5. CASE Interrupt
  BY <1>5 DEF Interrupt
<1>6. CASE OutputEvents
  BY <1>6, OutputKeepsFeed
<1>7. CASE Advance
  BY <1>7, AdvanceKeepsFeed
<1>8. CASE PollAgain
  BY <1>8 DEF PollAgain
<1>9. CASE Stop
  BY <1>9 DEF Stop
<1>10. CASE UNCHANGED vars
  BY <1>10 DEF vars
<1> QED
  BY <1>1, <1>2, <1>3, <1>4, <1>5, <1>6, <1>7, <1>8, <1>9, <1>10 DEF Next

-----------------------------------------------------------------------------
(* The files.                                                              *)

Kinds == {[alg |-> "RSA", size |-> n] : n \in {2048, 3072, 4096}}
         \cup {[alg |-> "EC", curve |-> "P-256"]}

\* A job that the rules of the registry allow.
Job == {j \in [name : Files!Names, newKey : Kinds] :
          Files!checkPublicKey(Files!registryRules(j.name), j.newKey)}

\* Where generate-csr is, and what it has done for the job at hand by then.
AtWork ==
  /\ jobs \in Seq(Job) /\ step \in 0..5
  /\ step # 0 => jobs # <<>>
  /\ step > 1 => key.kind = Head(jobs).newKey
  /\ step > 2 => Head(jobs).name \notin complete
  /\ step > 3 => key \in saved /\ keyFile[Head(jobs).name] = key

\* A request in a file is accepted, and its key has been saved.
FilesAreSound ==
  /\ keyFile \in [Files!Names -> Range(keyFile)] /\ csrFile \in [Files!Names -> Range(csrFile)]
  /\ \A name \in Files!Names : csrFile[name] \notin {None, Torn} =>
       /\ Files!Check(Files!registryRules(name), csrFile[name])
       /\ csrFile[name].key \in saved

FilesInv == AtWork /\ FilesAreSound /\ KeysAreKept

LEMMA FilesInit ==
  Files!CertificateInit => FilesInv
BY DEF Files!CertificateInit, Files!NoFiles, FilesInv, AtWork, FilesAreSound, KeysAreKept,
       Files!KeysAreKept, Range

\* planCSRJobs: a job is planned only for a key that the rules allow.
LEMMA PlannedJobsAllowed ==
  ASSUME NEW p \in Flags, Files!planCSRJobs(p) # <<>>
  PROVE  Files!planCSRJobs(p) \in Seq(Job)
<1> DEFINE names == Files!csrNames(p.csrType)
           Type(name) == IF p.keyType = None THEN Files!defaultKeyType(name) ELSE p.keyType
           newKey(name) == Files!newKeyGenerator(Type(name), p.keySize)
           Refused(name) == \/ newKey(name) = None
                            \/ ~Files!checkRegistryRules(name, Type(name), p.keySize)
<1>1. names \in Seq(Files!Names)
  <2>1. CASE p.csrType = "both"
    <3>1. "both" \notin Files!Names
      BY DEF Files!Names
    <3>2. names = <<"identity", "server">>
      BY <2>1, <3>1, Zenon DEF Files!csrNames
    <3> HIDE DEF names
    <3>3. "identity" \in Files!Names /\ "server" \in Files!Names
      BY DEF Files!Names
    <3> QED
      BY <3>2, <3>3
  <2>2. CASE p.csrType \in Files!Names
    <3>1. p.csrType # "both"
      BY <2>2 DEF Files!Names
    <3>2. names = <<p.csrType>>
      BY <2>2, <3>1, Zenon DEF Files!csrNames
    <3> HIDE DEF names
    <3> QED
      BY <2>2, <3>2
  <2>3. CASE p.csrType # "both" /\ p.csrType \notin Files!Names
    <3>1. names = <<>>
      BY <2>3, Zenon DEF Files!csrNames
    <3> HIDE DEF names
    <3> QED
      BY <3>1
  <2> HIDE DEF names
  <2> QED
    BY <2>1, <2>2, <2>3
<1>2. /\ \A i \in DOMAIN names : ~Refused(names[i])
      /\ Files!planCSRJobs(p) =
           [i \in DOMAIN names |-> [name |-> names[i], newKey |-> newKey(names[i])]]
  BY DEF Files!planCSRJobs
<1>3. ASSUME NEW name \in Files!Names, ~Refused(name)
      PROVE  [name |-> name, newKey |-> newKey(name)] \in Job
  <2>1. CASE Type(name) = "rsa"
    <3>1. p.keySize \in Files!registryRules(name).RSAKeySizes
      BY <1>3, <2>1 DEF Files!checkRegistryRules
    <3>2. p.keySize \in {2048, 3072, 4096}
      BY <3>1 DEF Files!registryRules, Files!ServerRules, Files!IdentityRules
    <3>3. newKey(name) = [alg |-> "RSA", size |-> p.keySize]
      BY <2>1, <3>2 DEF Files!newKeyGenerator, Files!MinRSAKeySize
    <3> HIDE DEF newKey
    <3>4. Files!checkPublicKey(Files!registryRules(name), newKey(name))
      BY <3>1, <3>3 DEF Files!checkPublicKey
    <3> QED
      BY <1>3, <3>2, <3>3, <3>4 DEF Job, Kinds
  <2>2. CASE Type(name) # "rsa"
    <3>1. "P-256" \in Files!registryRules(name).ECCurves
      BY <1>3, <2>2 DEF Files!checkRegistryRules
    <3>2. newKey(name) = [alg |-> "EC", curve |-> "P-256"]
      BY <1>3, <2>2 DEF Files!newKeyGenerator
    <3> HIDE DEF newKey
    <3>3. Files!checkPublicKey(Files!registryRules(name), newKey(name))
      BY <3>1, <3>2 DEF Files!checkPublicKey
    <3> QED
      BY <1>3, <3>2, <3>3 DEF Job, Kinds
  <2> QED
    BY <2>1, <2>2
<1>4. \A i \in DOMAIN names : [name |-> names[i], newKey |-> newKey(names[i])] \in Job
  <2> HIDE DEF names, newKey, Refused
  <2> QED BY <1>1, <1>2, <1>3
<1> HIDE DEF names, newKey, Refused
<1> QED
  BY <1>1, <1>2, <1>4

\* x509.CreateCertificateRequest: the signature for an allowed key is allowed too.
LEMMA RequestAccepted ==
  ASSUME NEW j \in Job, NEW k, k.kind = j.newKey
  PROVE  Files!Check(Files!registryRules(j.name),
           [key |-> k, signature |-> Files!SignatureOf(k.kind), signedBy |-> k])
<1>1. Files!checkPublicKey(Files!registryRules(j.name), k.kind)
  BY DEF Job
<1>2. Files!SignatureOf(k.kind) \in Files!registryRules(j.name).SignatureAlgorithms
  <2>1. CASE k.kind.alg = "RSA"
    BY <2>1 DEF Files!SignatureOf, Files!registryRules, Files!ServerRules, Files!IdentityRules
  <2>2. CASE k.kind.alg # "RSA"
    <3>1. j.newKey = [alg |-> "EC", curve |-> "P-256"]
      BY <2>2 DEF Job, Kinds
    <3>2. "P-256" \in Files!registryRules(j.name).ECCurves
      BY <1>1, <3>1 DEF Files!checkPublicKey
    <3>3. Files!registryRules(j.name) = Files!IdentityRules
      BY <3>2 DEF Files!registryRules, Files!ServerRules
    <3> QED
      BY <2>2, <3>3 DEF Files!SignatureOf, Files!IdentityRules
  <2> QED
    BY <2>1, <2>2
<1> QED
  BY <1>1, <1>2 DEF Files!Check, Files!checkSignatureAlgorithm

LEMMA GenerateKeepsFiles ==
  ASSUME FilesInv, Files!runGenerateCSR PROVE FilesInv'
<1> USE DEF Files!runGenerateCSR, FilesInv
<1>1. PICK p \in Flags : Files!planCSRJobs(p) # <<>> /\ jobs' = Files!planCSRJobs(p)
  OBVIOUS
<1>2. jobs' \in Seq(Job) /\ jobs' # <<>> /\ step' = 1
  BY <1>1, PlannedJobsAllowed
<1>3. AtWork'
  BY <1>2 DEF AtWork
<1>4. FilesAreSound' /\ KeysAreKept'
  BY DEF FilesAreSound, KeysAreKept, Files!KeysAreKept, Range
<1> QED
  BY <1>3, <1>4

\* What generate-csr does next, by the number of the step.
LEMMA OrderOfSteps ==
  ASSUME AtWork
  PROVE  /\ Files!Does("NewKey") => step = 1
         /\ Files!Does("OpenKeyFile") => step = 2
         /\ Files!Does("WriteKeyFile") => step = 3
         /\ Files!Does("OpenCSRFile") => step = 4
         /\ Files!Does("WriteCSRFile") => step = 5
         /\ Len(Files!Order) = 5
BY DEF AtWork, Files!Does, Files!Order

LEMMA NewKeyKeepsFiles ==
  ASSUME FilesInv, Files!NewKey PROVE FilesInv'
<1> USE DEF FilesInv
<1>1. step = 1 /\ Len(Files!Order) = 5
  BY OrderOfSteps DEF Files!NewKey
<1>2. /\ jobs' = jobs /\ step' = 2 /\ complete' = complete /\ key'.kind = Head(jobs).newKey
      /\ keyFile' = keyFile /\ csrFile' = csrFile /\ saved' = saved /\ requested' = requested
  BY <1>1 DEF Files!NewKey, Files!GoOn
<1>3. AtWork'
  BY <1>1, <1>2 DEF AtWork
<1>4. FilesAreSound' /\ KeysAreKept'
  BY <1>2 DEF FilesAreSound, KeysAreKept, Files!KeysAreKept, Range
<1> QED
  BY <1>3, <1>4

\* The files of a name that is cut are not complete.
LEMMA OpenKeyKeepsFiles ==
  ASSUME FilesInv, Files!OpenKeyFile PROVE FilesInv'
<1> USE DEF FilesInv, Files!Name
<1>1. step = 2
  BY OrderOfSteps DEF Files!OpenKeyFile
<1> DEFINE name == Head(jobs).name
<1>2. /\ keyFile' = [keyFile EXCEPT ![name] = Torn] /\ complete' = complete \ {name}
      /\ step' = 3 /\ csrFile' = csrFile /\ jobs' = jobs /\ key' = key /\ saved' = saved
      /\ requested' = requested
  BY <1>1 DEF Files!OpenKeyFile
<1>3. AtWork'
  BY <1>1, <1>2 DEF AtWork
<1>4. FilesAreSound'
  BY <1>2 DEF FilesAreSound, Range
<1>5. KeysAreKept'
  BY <1>2 DEF FilesAreSound, KeysAreKept, Files!KeysAreKept
<1> QED
  BY <1>3, <1>4, <1>5

LEMMA WriteKeyKeepsFiles ==
  ASSUME FilesInv, Files!WriteKeyFile PROVE FilesInv'
<1> USE DEF FilesInv, Files!Name
<1>1. step = 3 /\ Len(Files!Order) = 5
  BY OrderOfSteps DEF Files!WriteKeyFile
<1> DEFINE name == Head(jobs).name
<1>2. /\ keyFile' = [keyFile EXCEPT ![name] = key] /\ complete' = complete
      /\ step' = 4 /\ csrFile' = csrFile /\ jobs' = jobs /\ key' = key
      /\ saved' = saved \cup {key} /\ requested' = requested
  BY <1>1 DEF Files!WriteKeyFile, Files!GoOn
<1>3. name \in Files!Names /\ name \notin complete
  BY <1>1 DEF AtWork, Job
<1>4. AtWork'
  BY <1>1, <1>2, <1>3 DEF AtWork, FilesAreSound
<1>5. FilesAreSound'
  BY <1>2 DEF FilesAreSound, Range
<1>6. KeysAreKept'
  BY <1>2, <1>3 DEF FilesAreSound, KeysAreKept, Files!KeysAreKept
<1> QED
  BY <1>4, <1>5, <1>6

LEMMA OpenCSRKeepsFiles ==
  ASSUME FilesInv, Files!OpenCSRFile PROVE FilesInv'
<1> USE DEF FilesInv, Files!Name
<1>1. step = 4
  BY OrderOfSteps DEF Files!OpenCSRFile
<1> DEFINE name == Head(jobs).name
<1>2. /\ csrFile' = [csrFile EXCEPT ![name] = Torn] /\ complete' = complete \ {name}
      /\ step' = 5 /\ keyFile' = keyFile /\ jobs' = jobs /\ key' = key /\ saved' = saved
      /\ requested' = requested
  BY <1>1 DEF Files!OpenCSRFile
<1>3. AtWork'
  BY <1>1, <1>2 DEF AtWork
<1>4. FilesAreSound'
  BY <1>2 DEF FilesAreSound, Range
<1>5. KeysAreKept'
  BY <1>2 DEF FilesAreSound, KeysAreKept, Files!KeysAreKept
<1> QED
  BY <1>3, <1>4, <1>5

\* The request that is written is for the key in the other file.
LEMMA WriteCSRKeepsFiles ==
  ASSUME FilesInv, Files!WriteCSRFile PROVE FilesInv'
<1> USE DEF FilesInv, Files!Name
<1>1. step = 5 /\ Len(Files!Order) = 5
  BY OrderOfSteps DEF Files!WriteCSRFile
<1> DEFINE j == Head(jobs)
           csr == [key |-> key, signature |-> Files!SignatureOf(key.kind), signedBy |-> key]
<1>2. /\ csrFile' = [csrFile EXCEPT ![j.name] = csr] /\ complete' = complete \cup {j.name}
      /\ step' = (IF Len(jobs) = 1 THEN 0 ELSE 1) /\ jobs' = Tail(jobs)
      /\ keyFile' = keyFile /\ key' = key /\ saved' = saved /\ requested' = requested
  BY <1>1 DEF Files!WriteCSRFile, Files!GoOn
<1>3. /\ j \in Job /\ j.name \in Files!Names /\ key.kind = j.newKey
      /\ key \in saved /\ keyFile[j.name] = key
  BY <1>1 DEF AtWork, Job
<1>4. AtWork'
  <2>1. jobs \in Seq(Job) /\ jobs # <<>>
    BY <1>1 DEF AtWork
  <2>2. Tail(jobs) \in Seq(Job) /\ Len(Tail(jobs)) = Len(jobs) - 1 /\ Len(jobs) \in Nat
    BY <2>1
  <2>3. Len(jobs) # 1 => Tail(jobs) # <<>>
    <3>1. Len(<<>>) = 0
      OBVIOUS
    <3>2. Len(jobs) # 1 => Len(Tail(jobs)) # 0
      BY <2>2
    <3> QED
      BY <3>1, <3>2, Zenon
  <2>4. CASE Len(jobs) = 1
    BY <1>2, <2>2, <2>4 DEF AtWork
  <2>5. CASE Len(jobs) # 1
    BY <1>2, <2>2, <2>3, <2>5 DEF AtWork
  <2> QED
    BY <2>4, <2>5
<1>5. Files!Check(Files!registryRules(j.name), csr) /\ csr.key = key
  BY <1>3, RequestAccepted
<1> HIDE DEF csr, j
<1>6. FilesAreSound'
  BY <1>2, <1>3, <1>5 DEF FilesAreSound, Range
<1>7. KeysAreKept'
  BY <1>2, <1>3, <1>5 DEF FilesAreSound, KeysAreKept, Files!KeysAreKept
<1> QED
  BY <1>4, <1>6, <1>7

\* Nothing is sent but what is in a file or is the user's own.
LEMMA SentIsKept ==
  ASSUME FilesInv, NEW name \in Files!Names, NEW skip \in BOOLEAN,
         NEW csr \in Files!readValidatedCSR(name, skip),
         Files!Validate(csr, Files!registryRules(name))
  PROVE  csr.key \in saved \/ csr \in OwnFiles
BY DEF FilesInv, FilesAreSound, Files!readValidatedCSR, Files!Validate

LEMMA SubmitKeepsFiles ==
  ASSUME FilesInv, Files!runSubmitCSR PROVE FilesInv'
<1>1. PICK name \in Files!Names, skip \in BOOLEAN :
        \E csr \in Files!readValidatedCSR(name, skip) :
          Files!Take({[name |-> name, csr |-> csr]})
  BY DEF Files!runSubmitCSR
<1>2. PICK csr \in Files!readValidatedCSR(name, skip) :
        Files!Take({[name |-> name, csr |-> csr]})
  BY <1>1
<1>3. Files!Validate(csr, Files!registryRules(name)) /\ requested' = requested \cup {csr}
  BY <1>2 DEF Files!Take
<1>4. csr.key \in saved \/ csr \in OwnFiles
  BY <1>3, SentIsKept
<1>5. UNCHANGED <<keyFile, csrFile, jobs, step, key, keys, saved, complete>>
  BY DEF Files!runSubmitCSR
<1>6. AtWork' /\ FilesAreSound'
  BY <1>5 DEF FilesInv, AtWork, FilesAreSound, Range
<1>7. KeysAreKept'
  BY <1>3, <1>4, <1>5 DEF FilesInv, KeysAreKept, Files!KeysAreKept
<1> QED
  BY <1>6, <1>7 DEF FilesInv

LEMMA RegisterKeepsFiles ==
  ASSUME FilesInv, Files!runRegister PROVE FilesInv'
<1> DEFINE of(identity, server) ==
      {[name |-> "identity", csr |-> identity]} \cup
      {[name |-> "server", csr |-> s] : s \in {server} \ {None}}
<1>1. PICK skip \in BOOLEAN :
        \E identity \in Files!readValidatedCSR("identity", skip),
           server \in Files!readValidatedCSR("server", skip) \cup {None} :
          Files!Take(of(identity, server))
  BY DEF Files!runRegister
<1>2. PICK identity \in Files!readValidatedCSR("identity", skip),
           server \in Files!readValidatedCSR("server", skip) \cup {None} :
        Files!Take(of(identity, server))
  BY <1>1
<1>3. "identity" \in Files!Names /\ "server" \in Files!Names
  BY DEF Files!Names
<1>4. /\ [name |-> "identity", csr |-> identity] \in of(identity, server)
      /\ server # None => [name |-> "server", csr |-> server] \in of(identity, server)
      /\ \A r \in of(identity, server) : r.csr = identity \/ (server # None /\ r.csr = server)
  OBVIOUS
<1> HIDE DEF of
<1>5. /\ \A r \in of(identity, server) : Files!Validate(r.csr, Files!registryRules(r.name))
      /\ requested' = requested \cup {r.csr : r \in of(identity, server)}
  BY <1>2 DEF Files!Take
<1>6. /\ Files!Validate(identity, Files!registryRules("identity"))
      /\ server # None => Files!Validate(server, Files!registryRules("server"))
  BY <1>4, <1>5
<1>7. identity.key \in saved \/ identity \in OwnFiles
  BY <1>3, <1>6, SentIsKept
<1>8. server # None => server.key \in saved \/ server \in OwnFiles
  BY <1>3, <1>6, SentIsKept
<1>9. \A csr \in requested' : csr \in requested \/ csr = identity \/ (server # None /\ csr = server)
  BY <1>4, <1>5
<1>10. UNCHANGED <<keyFile, csrFile, jobs, step, key, keys, saved, complete>>
  BY DEF Files!runRegister
<1>11. AtWork' /\ FilesAreSound'
  BY <1>10 DEF FilesInv, AtWork, FilesAreSound, Range
<1>12. KeysAreKept'
  BY <1>7, <1>8, <1>9, <1>10 DEF FilesInv, KeysAreKept, Files!KeysAreKept
<1> QED
  BY <1>11, <1>12 DEF FilesInv

LEMMA FilesStep ==
  ASSUME FilesInv, Files!CertificateNext \/ UNCHANGED certificateVars PROVE FilesInv'
<1>1. CASE Files!runGenerateCSR
  BY <1>1, GenerateKeepsFiles
<1>2. CASE Files!NewKey
  BY <1>2, NewKeyKeepsFiles
<1>3. CASE Files!OpenKeyFile
  BY <1>3, OpenKeyKeepsFiles
<1>4. CASE Files!WriteKeyFile
  BY <1>4, WriteKeyKeepsFiles
<1>5. CASE Files!OpenCSRFile
  BY <1>5, OpenCSRKeepsFiles
<1>6. CASE Files!WriteCSRFile
  BY <1>6, WriteCSRKeepsFiles
<1>7. CASE Files!GenerateFails
  BY <1>7 DEF Files!GenerateFails, FilesInv, AtWork, FilesAreSound, KeysAreKept,
              Files!KeysAreKept, Range
<1>8. CASE Files!runSubmitCSR
  BY <1>8, SubmitKeepsFiles
<1>9. CASE Files!runRegister
  BY <1>9, RegisterKeepsFiles
<1>10. CASE UNCHANGED certificateVars
  BY <1>10 DEF certificateVars, FilesInv, AtWork, FilesAreSound, KeysAreKept,
               Files!KeysAreKept, Range
<1> QED
  BY <1>1, <1>2, <1>3, <1>4, <1>5, <1>6, <1>7, <1>8, <1>9, <1>10 DEF Files!CertificateNext

-----------------------------------------------------------------------------
(* The session.                                                            *)

LEMMA SessionInvariant ==
  SessionSpec => [](FeedInv /\ FilesInv)
<1>1. SessionInit => FeedInv /\ FilesInv
  BY FeedInit, FilesInit DEF SessionInit
<1>2. ASSUME FeedInv, FilesInv, [SessionNext]_<<session, vars, certificateVars>>
      PROVE  FeedInv' /\ FilesInv'
  <2>1. [Next]_vars
    BY <1>2 DEF SessionNext
  <2>2. Files!CertificateNext \/ UNCHANGED certificateVars
    BY <1>2 DEF SessionNext
  <2> QED
    BY <1>2, <2>1, <2>2, FeedStep, FilesStep
<1> QED
  BY <1>1, <1>2, PTL DEF SessionSpec

\* cmd/ans-cli/cmd/events.go:113-145: whatever the page size, the provider and the
\* output, and however often a poll fails or the command is interrupted and
\* started again, everything before the place it goes on from has been shown.
THEOREM NoEventIsSkipped == SessionSpec => []NothingSkipped
<1>1. FeedInv => NothingSkipped
  BY DEF FeedInv
<1> QED
  BY <1>1, SessionInvariant, PTL

\* cmd/ans-cli/cmd/generate_csr.go:173-174: for any flags, a request that
\* generate-csr wrote to the end passes the preflight of register and submit-*-csr.
THEOREM RequestsAreAccepted == SessionSpec => []GeneratedIsAccepted
<1>1. FilesInv => GeneratedIsAccepted
  BY DEF FilesInv, FilesAreSound, GeneratedIsAccepted, Files!GeneratedIsAccepted,
         Files!Validate
<1> QED
  BY <1>1, SessionInvariant, PTL

\* generate_csr.go:251-258: wherever a command is cut short, the registry is not
\* asked through these files for a certificate whose key was never saved, and the
\* two files of a finished name belong together.
THEOREM NoKeyIsLost == SessionSpec => []KeysAreKept
<1>1. FilesInv => KeysAreKept
  BY DEF FilesInv
<1> QED
  BY <1>1, SessionInvariant, PTL
=============================================================================
