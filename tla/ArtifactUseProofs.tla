--------------------------- MODULE ArtifactUseProofs ---------------------------
(***************************************************************************)
(* What the artifact caches keep, what headers vouch for, what a proof of  *)
(* possession binds and what receipts and checkpoints show, for any        *)
(* agents, artifacts, keys, requests, trees and notes.                     *)
(***************************************************************************)
EXTENDS ArtifactUse, MerkleTreeProofs, FiniteSetTheorems

-----------------------------------------------------------------------------
(* The caches.                                                             *)

Sound(c) ==
  /\ c = [entries |-> c.entries, order |-> c.order, maxEntries |-> MaxEntries]
  /\ c.order \in Seq(Agents) /\ IsFiniteSet(DOMAIN c.entries)
  /\ Mirrors(c) /\ Cardinality(DOMAIN c.entries) <= MaxEntries

LEMMA EmptyIsSound == Sound(EmptyCache(MaxEntries))
<1> DEFINE c == EmptyCache(MaxEntries)
<1>1. /\ c.order = <<>> /\ DOMAIN c.entries = {} /\ c.maxEntries = MaxEntries
      /\ c = [entries |-> c.entries, order |-> c.order, maxEntries |-> MaxEntries]
  BY DEF EmptyCache
<1> HIDE DEF c
<1>2. Mirrors(c)
  BY <1>1 DEF Mirrors, Range, IsInjective
<1>3. IsFiniteSet(DOMAIN c.entries) /\ Cardinality(DOMAIN c.entries) <= MaxEntries
  BY <1>1, FS_EmptySet, UseAssumption
<1>4. c.order \in Seq(Agents)
  BY <1>1
<1>5. Sound(c)
  BY <1>1, <1>2, <1>3, <1>4 DEF Sound
<1> QED
  BY <1>5 DEF c

\* The oldest one goes.
LEMMA OldestGoes ==
  ASSUME NEW D, NEW o \in Seq(Agents), Range(o) = D, IsInjective(o), o # <<>>
  PROVE  LET rest == SubSeq(o, 2, Len(o))
         IN  /\ rest \in Seq(Agents) /\ IsInjective(rest)
             /\ Range(rest) = D \ {o[1]} /\ o[1] \in D
<1> DEFINE rest == SubSeq(o, 2, Len(o))
<1>1. Len(o) \in Nat /\ Len(o) >= 1 /\ DOMAIN o = 1..Len(o)
  OBVIOUS
<1>2. /\ rest \in Seq(Agents) /\ Len(rest) = Len(o) - 1 /\ DOMAIN rest = 1..(Len(o) - 1)
      /\ \A i \in 1..(Len(o) - 1) : rest[i] = o[i + 1]
  BY <1>1
<1> HIDE DEF rest
<1>3. IsInjective(rest)
  BY <1>1, <1>2 DEF IsInjective
<1>4. \A x \in Range(rest) : x \in D \ {o[1]}
  BY <1>1, <1>2 DEF IsInjective, Range
<1>5. ASSUME NEW x \in D \ {o[1]} PROVE x \in Range(rest)
  <2>1. PICK i \in 1..Len(o) : o[i] = x
    BY <1>1 DEF Range
  <2>2. i # 1 /\ i - 1 \in 1..(Len(o) - 1) /\ (i - 1) + 1 = i
    BY <1>1, <1>5, <2>1
  <2>3. rest[i - 1] = x
    BY <1>2, <2>1, <2>2
  <2> QED
    BY <1>2, <2>2, <2>3 DEF Range
<1> QED
  BY <1>1, <1>2, <1>3, <1>4, <1>5 DEF rest, Range

\* evictLocked: at most one is too many, and it is the oldest.
LEMMA EvictKeeps ==
  ASSUME NEW f, NEW o \in Seq(Agents), IsFiniteSet(DOMAIN f),
         Range(o) = DOMAIN f, IsInjective(o), Cardinality(DOMAIN f) <= MaxEntries + 1
  PROVE  LET c == [entries |-> f, order |-> o, maxEntries |-> MaxEntries]
         IN  /\ Sound(Evict(c))
             /\ \A a \in DOMAIN Evict(c).entries :
                  a \in DOMAIN f /\ Evict(c).entries[a] = f[a]
<1> DEFINE c == [entries |-> f, order |-> o, maxEntries |-> MaxEntries]
           D == DOMAIN f
           excess == Cardinality(D) - MaxEntries
           gone == IF excess <= 0 THEN 0 ELSE IF excess < Len(o) THEN excess ELSE Len(o)
           out == {o[i] : i \in 1..gone}
           g == [id \in D \ out |-> f[id]]
           rest == SubSeq(o, gone + 1, Len(o))
<1>1. Evict(c) = [entries |-> g, order |-> rest, maxEntries |-> MaxEntries]
  <2>1. c.entries = f /\ c.order = o /\ c.maxEntries = MaxEntries
    OBVIOUS
  <2> HIDE DEF c
  <2> QED
    BY <2>1 DEF Evict
<1>2. Cardinality(D) \in Nat /\ MaxEntries \in Nat /\ Len(o) \in Nat
  BY FS_CardinalityType, UseAssumption
<1>3. DOMAIN g = D \ out /\ \A a \in D \ out : g[a] = f[a]
  OBVIOUS
<1>4. CASE excess <= 0
  <2>1. gone = 0 /\ out = {} /\ rest = o
    BY <1>2, <1>4, SubSeqFull
  <2> HIDE DEF gone, out, g, rest
  <2>2. DOMAIN g = D /\ Cardinality(D) <= MaxEntries
    BY <1>2, <1>3, <1>4, <2>1
  <2>3. Mirrors([entries |-> g, order |-> o, maxEntries |-> MaxEntries])
    BY <2>2 DEF Mirrors
  <2>4. Sound([entries |-> g, order |-> o, maxEntries |-> MaxEntries])
    BY <2>2, <2>3 DEF Sound
  <2> QED
    BY <1>1, <1>3, <2>1, <2>2, <2>4
<1>5. CASE excess > 0
  <2>1. excess = 1 /\ Cardinality(D) = MaxEntries + 1
    BY <1>2, <1>5
  <2>2. D # {}
    BY <1>2, <2>1, FS_EmptySet
  <2>3. o # <<>> /\ Len(o) >= 1
    BY <2>2 DEF Range
  <2>4. gone = 1
    <3>1. CASE 1 < Len(o)
      BY <2>1, <3>1
    <3>2. CASE ~(1 < Len(o))
      <4>1. ASSUME NEW n \in Nat, n >= 1, ~(1 < n) PROVE n = 1
        BY <4>1
      <4>2. Len(o) = 1
        BY <1>2, <2>3, <3>2, <4>1, Zenon
      <4> QED
        BY <2>1, <4>2
    <3> QED
      BY <3>1, <3>2
  <2>5. out = {o[1]} /\ rest = SubSeq(o, 2, Len(o))
    <3> HIDE DEF gone
    <3> QED BY <2>4
  <2> HIDE DEF gone, out, g, rest
  <2>6. rest \in Seq(Agents) /\ IsInjective(rest) /\ Range(rest) = D \ out /\ o[1] \in D
    BY <2>3, <2>5, OldestGoes
  <2>7. IsFiniteSet(D \ out) /\ Cardinality(D \ out) = Cardinality(D) - 1
    BY <2>5, <2>6, FS_RemoveElement
  <2>8. Cardinality(D \ out) <= MaxEntries
    BY <1>2, <2>1, <2>7
  <2>9. Mirrors([entries |-> g, order |-> rest, maxEntries |-> MaxEntries])
    BY <1>3, <2>6 DEF Mirrors
  <2>10. Sound([entries |-> g, order |-> rest, maxEntries |-> MaxEntries])
    BY <1>3, <2>6, <2>7, <2>8, <2>9 DEF Sound
  <2> QED
    BY <1>1, <1>3, <2>10
<1> QED
  BY <1>2, <1>4, <1>5

\* Insert: the agent has the entry, unless it is the one that goes at once; the
\* entries of the others are what they were.
LEMMA InsertKeeps ==
  ASSUME NEW c, Sound(c), NEW id \in Agents, NEW e
  PROVE  /\ Sound(Insert(c, id, e))
         /\ \A a \in DOMAIN Insert(c, id, e).entries :
              \/ a = id /\ Insert(c, id, e).entries[a] = e
              \/ a \in DOMAIN c.entries /\ Insert(c, id, e).entries[a] = c.entries[a]
<1> DEFINE D == DOMAIN c.entries
           f == [a \in D \cup {id} |-> IF a = id THEN e ELSE c.entries[a]]
           o == IF id \in D THEN c.order ELSE Append(c.order, id)
           placed == IF id \in D THEN c ELSE [c EXCEPT !.order = Append(@, id)]
<1>1. /\ c = [entries |-> c.entries, order |-> c.order, maxEntries |-> MaxEntries]
      /\ c.order \in Seq(Agents) /\ IsFiniteSet(D) /\ Cardinality(D) <= MaxEntries
      /\ Range(c.order) = D /\ IsInjective(c.order)
  BY DEF Sound, Mirrors
<1>2. /\ placed = [entries |-> c.entries, order |-> o, maxEntries |-> MaxEntries]
      /\ placed.entries = c.entries
  BY <1>1
<1>3. Put(placed, id, e) = [entries |-> f, order |-> o, maxEntries |-> MaxEntries]
  <2> HIDE DEF o, placed
  <2>1. Put(placed, id, e) = [placed EXCEPT !.entries = f]
    BY <1>2 DEF Put
  <2> HIDE DEF f
  <2> QED
    BY <1>2, <2>1
<1>4. Insert(c, id, e) = Evict([entries |-> f, order |-> o, maxEntries |-> MaxEntries])
  BY <1>3, Zenon DEF Insert
<1>5. DOMAIN f = D \cup {id} /\ IsFiniteSet(D \cup {id})
      /\ Cardinality(D \cup {id}) <= MaxEntries + 1
  <2>1. /\ IsFiniteSet(D \cup {id})
        /\ Cardinality(D \cup {id}) = IF id \in D THEN Cardinality(D) ELSE Cardinality(D) + 1
    BY <1>1, FS_AddElement
  <2>2. Cardinality(D) \in Nat /\ MaxEntries \in Nat
    BY <1>1, FS_CardinalityType, UseAssumption
  <2> HIDE DEF D
  <2> QED
    BY <1>1, <2>1, <2>2
<1>6. o \in Seq(Agents) /\ IsInjective(o) /\ Range(o) = D \cup {id}
  <2>1. CASE id \in D
    BY <1>1, <2>1
  <2>2. CASE id \notin D
    <3> DEFINE p == Append(c.order, id)
               n == Len(c.order)
    <3>1. /\ p \in Seq(Agents) /\ Len(p) = n + 1 /\ n \in Nat /\ DOMAIN p = 1..(n + 1)
          /\ DOMAIN c.order = 1..n
          /\ \A i \in 1..n : p[i] = c.order[i] /\ c.order[i] \in D
          /\ p[n + 1] = id
      BY <1>1 DEF Range
    <3>2. o = p
      BY <2>2
    <3> HIDE DEF p, o, D, n
    <3>3. IsInjective(p)
      BY <1>1, <2>2, <3>1 DEF IsInjective
    <3>4. \A x \in Range(p) : x \in D \cup {id}
      BY <3>1 DEF Range
    <3>5. \A x \in D \cup {id} : x \in Range(p)
      BY <1>1, <3>1 DEF Range
    <3> QED
      BY <3>1, <3>2, <3>3, <3>4, <3>5
  <2> QED
    BY <2>1, <2>2
<1> HIDE DEF o
<1>7. \A a \in D \cup {id} : (a = id /\ f[a] = e) \/ (a \in D /\ f[a] = c.entries[a])
  OBVIOUS
<1> HIDE DEF f
<1>8. /\ Sound(Insert(c, id, e))
      /\ \A a \in DOMAIN Insert(c, id, e).entries :
           a \in DOMAIN f /\ Insert(c, id, e).entries[a] = f[a]
  BY <1>4, <1>5, <1>6, EvictKeeps
<1> QED
  BY <1>5, <1>7, <1>8

\* The first place at which an element is.
LEMMA SmallestExists ==
  ASSUME NEW S \in SUBSET Nat, S # {}
  PROVE  Min(S) \in S /\ \A y \in S : Min(S) <= y
BY LeastExists DEF Min

\* removeFromOrderLocked: an agent that is listed once is listed no more.
LEMMA RemovedFromOrder ==
  ASSUME NEW D, NEW o \in Seq(Agents), Range(o) = D, IsInjective(o), NEW id \in D
  PROVE  LET rest == RemoveFirst(o, id)
         IN  /\ rest \in Seq(Agents) /\ IsInjective(rest) /\ Range(rest) = D \ {id}
<1> DEFINE n == Len(o)
           I == {i \in 1..n : o[i] = id}
           k == Min(I)
           rest == SubSeq(o, 1, k - 1) \o SubSeq(o, k + 1, n)
<1>1. n \in Nat /\ DOMAIN o = 1..n /\ \A i \in 1..n : o[i] \in Agents
  OBVIOUS
<1>2. I # {} /\ I \in SUBSET Nat
  BY <1>1 DEF Range
<1>3. k \in I
  BY <1>2, SmallestExists
<1>4. k \in 1..n /\ o[k] = id
  BY <1>3
<1>5. RemoveFirst(o, id) = rest
  BY <1>2, <1>4 DEF RemoveFirst, RemoveAt, SelectInSeq
<1> HIDE DEF k, I
<1>6. /\ rest \in Seq(Agents) /\ Len(rest) = n - 1 /\ DOMAIN rest = 1..(n - 1)
      /\ \A i \in 1..(n - 1) : rest[i] = IF i < k THEN o[i] ELSE o[i + 1]
  <2> DEFINE s == SubSeq(o, 1, k - 1)
             t == SubSeq(o, k + 1, n)
  <2>1. /\ s \in Seq(Agents) /\ Len(s) = k - 1 /\ \A i \in 1..(k - 1) : s[i] = o[i]
    BY <1>1, <1>4
  <2>2. /\ t \in Seq(Agents) /\ Len(t) = n - k
        /\ \A i \in 1..(n - k) : t[i] = o[k + i]
    <3> HIDE DEF n
    <3>1. /\ k + 1 \in Int /\ \A i \in (k + 1)..n : o[i] \in Agents
          /\ (IF k + 1 <= n THEN n - (k + 1) + 1 ELSE 0) = n - k
          /\ n - (k + 1) + 1 = n - k /\ \A i \in 1..(n - k) : (k + 1) + i - 1 = k + i
      BY <1>1, <1>4
    <3>2. /\ t \in Seq(Agents)
          /\ Len(t) = IF k + 1 <= n THEN n - (k + 1) + 1 ELSE 0
          /\ \A i \in 1..(n - (k + 1) + 1) : t[i] = o[(k + 1) + i - 1]
      BY <1>1, <3>1, SubSeqProperties
    <3> HIDE DEF t
    <3> QED
      BY <3>1, <3>2
  <2> HIDE DEF s, t, n
  <2>3. /\ s \o t \in Seq(Agents) /\ Len(s \o t) = n - 1
        /\ \A i \in 1..(n - 1) : (s \o t)[i] = IF i <= k - 1 THEN s[i] ELSE t[i - (k - 1)]
    <3> DEFINE u == s \o t
    <3>1. /\ u \in Seq(Agents) /\ Len(u) = Len(s) + Len(t)
          /\ \A i \in 1..(Len(s) + Len(t)) : u[i] = IF i <= Len(s) THEN s[i] ELSE t[i - Len(s)]
      BY <2>1, <2>2, ConcatProperties
    <3>2. (k - 1) + (n - k) = n - 1
      BY <1>1, <1>4
    <3> HIDE DEF u
    <3>3. /\ u \in Seq(Agents) /\ Len(u) = n - 1
          /\ \A i \in 1..(n - 1) : u[i] = IF i <= k - 1 THEN s[i] ELSE t[i - (k - 1)]
      BY <2>1, <2>2, <3>1, <3>2
    <3> QED
      BY <3>3 DEF u
  <2>4. ASSUME NEW i \in 1..(n - 1)
        PROVE  (s \o t)[i] = IF i < k THEN o[i] ELSE o[i + 1]
    <3> DEFINE u == s \o t
    <3>1. u[i] = IF i <= k - 1 THEN s[i] ELSE t[i - (k - 1)]
      BY <2>3
    <3> HIDE DEF u
    <3>2. ASSUME i < k PROVE u[i] = o[i]
      BY <1>1, <1>4, <2>1, <3>1, <3>2
    <3>3. ASSUME ~(i < k) PROVE u[i] = o[i + 1]
      <4>1. i - (k - 1) \in 1..(n - k) /\ k + (i - (k - 1)) = i + 1 /\ ~(i <= k - 1)
        BY <1>1, <1>4, <3>3
      <4> QED
        BY <2>2, <3>1, <3>3, <4>1
    <3>4. u[i] = IF i < k THEN o[i] ELSE o[i + 1]
      BY <3>2, <3>3
    <3> QED
      BY <3>4 DEF u
  <2>5. rest = s \o t
    BY DEF s, t
  <2> HIDE DEF rest
  <2> QED
    BY <1>1, <2>3, <2>4, <2>5
<1> HIDE DEF rest, n
<1>7. IsInjective(rest)
  <2> SUFFICES ASSUME NEW a \in 1..(n - 1), NEW b \in 1..(n - 1), rest[a] = rest[b]
               PROVE  a = b
    BY <1>6 DEF IsInjective
  <2> DEFINE at(i) == IF i < k THEN i ELSE i + 1
  <2>1. /\ at(a) \in 1..n /\ at(b) \in 1..n /\ rest[a] = o[at(a)] /\ rest[b] = o[at(b)]
    BY <1>1, <1>4, <1>6
  <2>2. at(a) = at(b)
    <3> HIDE DEF at
    <3> QED BY <1>1, <2>1 DEF IsInjective
  <2> QED
    BY <1>1, <1>4, <2>2
<1>8. \A x \in Range(rest) : x \in D \ {id}
  BY <1>1, <1>4, <1>6 DEF IsInjective, Range
<1>9. ASSUME NEW x \in D \ {id} PROVE x \in Range(rest)
  <2>1. PICK i \in 1..n : o[i] = x
    BY <1>1 DEF Range
  <2>2. i # k
    BY <1>4, <1>9, <2>1
  <2>3. CASE i < k
    BY <1>1, <1>4, <1>6, <2>1, <2>3 DEF Range
  <2>4. CASE i > k
    <3>1. i - 1 \in 1..(n - 1) /\ ~(i - 1 < k) /\ (i - 1) + 1 = i
      BY <1>1, <1>4, <2>4
    <3> QED
      BY <1>6, <2>1, <3>1 DEF Range
  <2> QED
    BY <1>1, <1>4, <2>2, <2>3, <2>4
<1> QED
  BY <1>5, <1>6, <1>7, <1>8, <1>9

LEMMA InvalidateKeeps ==
  ASSUME NEW c, Sound(c), NEW id \in DOMAIN c.entries
  PROVE  /\ Sound(Invalidate(c, id))
         /\ \A a \in DOMAIN Invalidate(c, id).entries :
              a \in DOMAIN c.entries /\ Invalidate(c, id).entries[a] = c.entries[a]
<1> DEFINE D == DOMAIN c.entries
           g == [a \in D \ {id} |-> c.entries[a]]
           rest == RemoveFirst(c.order, id)
<1>1. /\ c = [entries |-> c.entries, order |-> c.order, maxEntries |-> MaxEntries]
      /\ c.order \in Seq(Agents) /\ IsFiniteSet(D) /\ Cardinality(D) <= MaxEntries
      /\ Range(c.order) = D /\ IsInjective(c.order)
  BY DEF Sound, Mirrors
<1>2. Invalidate(c, id) = [entries |-> g, order |-> rest, maxEntries |-> MaxEntries]
  BY <1>1 DEF Invalidate
<1>3. rest \in Seq(Agents) /\ IsInjective(rest) /\ Range(rest) = D \ {id}
  BY <1>1, RemovedFromOrder
<1>4. IsFiniteSet(D \ {id}) /\ Cardinality(D \ {id}) <= MaxEntries
  <2>1. IsFiniteSet(D \ {id}) /\ Cardinality(D \ {id}) = Cardinality(D) - 1
    BY <1>1, FS_RemoveElement
  <2>2. Cardinality(D) \in Nat /\ MaxEntries \in Nat
    BY <1>1, FS_CardinalityType, UseAssumption
  <2> HIDE DEF D
  <2> QED
    BY <1>1, <2>1, <2>2
<1>5. DOMAIN g = D \ {id} /\ \A a \in D \ {id} : g[a] = c.entries[a]
  OBVIOUS
<1> HIDE DEF g, rest
<1>6. Mirrors([entries |-> g, order |-> rest, maxEntries |-> MaxEntries])
  BY <1>3, <1>5 DEF Mirrors
<1>7. Sound([entries |-> g, order |-> rest, maxEntries |-> MaxEntries])
  BY <1>3, <1>4, <1>5, <1>6 DEF Sound
<1> QED
  BY <1>2, <1>5, <1>7

-----------------------------------------------------------------------------
(* Verification.                                                           *)

\* The first check that fails, if any does.
LEMMA FirstOfFailed ==
  ASSUME NEW S, NEW checks \in Seq(S), NEW D, None \notin Range(checks)
  PROVE  /\ FirstFailed(checks, D) = None <=> \A i \in 1..Len(checks) : checks[i] \notin D
         /\ FirstFailed(checks, D) # None =>
              \E i \in 1..Len(checks) : FirstFailed(checks, D) = checks[i] /\ checks[i] \in D
<1> DEFINE I == {i \in 1..Len(checks) : checks[i] \in D}
           first == IF I # {} THEN Min(I) ELSE 0
<1>1. FirstFailed(checks, D) = IF first = 0 THEN None ELSE checks[first]
  BY DEF FirstFailed, SelectInSeq
<1>2. I \in SUBSET Nat /\ I \subseteq 1..Len(checks)
  OBVIOUS
<1>3. \A i \in 1..Len(checks) : checks[i] # None /\ i # 0
  BY DEF Range
<1>4. CASE I = {}
  <2>1. first = 0
    BY <1>4
  <2>2. FirstFailed(checks, D) = None
    BY <1>1, <2>1
  <2> QED
    BY <1>4, <2>2
<1>5. CASE I # {}
  <2>1. first = Min(I) /\ Min(I) \in I
    BY <1>2, <1>5, SmallestExists
  <2>2. first \in 1..Len(checks) /\ checks[first] \in D
    BY <2>1
  <2> HIDE DEF first
  <2>3. FirstFailed(checks, D) = checks[first] /\ checks[first] # None
    BY <1>1, <1>3, <2>2
  <2> QED
    BY <2>2, <2>3
<1> QED
  BY <1>4, <1>5

\* The names of the checks; none is the name of an error for which the badge decides.
CheckNames ==
  {"oversizedInput", "notCBOR", "notAnArray", "arrayLength", "protectedBytes",
   "protectedHeader", "algorithm", "keyID", "payload", "signatureLength", "vds",
   "unknownKey", "signature", "issuer", "unprotectedHeader", "noProof", "proofNotAMap",
   "treeSize", "leafIndex", "pathNotAnArray", "pathElement", "inclusionPath",
   "payloadMap", "identityCerts", "identityCertsLength", "serverCerts",
   "serverCertsLength", "agent_id", "status", "exp", "ans_name", "expired",
   "terminalStatus", "fingerprint", "ANSName"}

LEMMA NamesAreApart ==
  CheckNames \cap ShouldFallbackToBadge = {}
BY DEF CheckNames, ShouldFallbackToBadge

LEMMA ChecksOfTokens ==
  /\ TokenChecks \in Seq(CheckNames) /\ Len(TokenChecks) = 24
  /\ TokenChecks[11] = "unknownKey" /\ TokenChecks[12] = "signature"
  /\ TokenChecks[21] = "exp" /\ TokenChecks[23] = "expired"
<1> DEFINE own == <<"unknownKey", "signature", "issuer", "payloadMap",
                    "identityCerts", "identityCertsLength", "serverCerts",
                    "serverCertsLength", "agent_id", "status", "exp", "ans_name",
                    "expired", "terminalStatus">>
<1>1. CoseChecks \in Seq(CheckNames) /\ Len(CoseChecks) = 10
  BY DEF CoseChecks, CheckNames
<1>2. own \in Seq(CheckNames) /\ Len(own) = 14
  BY DEF CheckNames
<1>3. own[1] = "unknownKey" /\ own[2] = "signature" /\ own[11] = "exp" /\ own[13] = "expired"
  OBVIOUS
<1>4. TokenChecks = CoseChecks \o own
  BY DEF TokenChecks
<1> HIDE DEF own
<1>5. /\ TokenChecks \in Seq(CheckNames) /\ Len(TokenChecks) = Len(CoseChecks) + Len(own)
      /\ \A i \in 1..(Len(CoseChecks) + Len(own)) :
           TokenChecks[i] = IF i <= Len(CoseChecks) THEN CoseChecks[i]
                            ELSE own[i - Len(CoseChecks)]
  BY <1>1, <1>2, <1>4, ConcatProperties
<1>6. /\ Len(TokenChecks) = 24
      /\ TokenChecks[11] = own[1] /\ TokenChecks[12] = own[2]
      /\ TokenChecks[21] = own[11] /\ TokenChecks[23] = own[13]
  BY <1>1, <1>2, <1>5
<1> QED
  BY <1>3, <1>5, <1>6

LEMMA ChecksOfReceipts ==
  ReceiptChecks \in Seq(CheckNames)
<1>1. CoseChecks \in Seq(CheckNames) /\ ProofChecks \in Seq(CheckNames)
  BY DEF CoseChecks, ProofChecks, CheckNames
<1>2. /\ <<"vds", "unknownKey", "signature", "issuer">> \in Seq(CheckNames)
      /\ <<"inclusionPath">> \in Seq(CheckNames)
  BY DEF CheckNames
<1> QED
  BY <1>1, <1>2, ConcatProperties DEF ReceiptChecks

\* What a token that verifies passed, and that only its expiry depends on the time.
LEMMA TokenVerdict ==
  ASSUME NEW m, NEW keys, NEW s, NEW t,
         NEW e, e = VerifyStatusTokenAt(m, keys, s, t).error
  PROVE  /\ e # None => e \in CheckNames
         /\ e = None =>
              /\ m.protected.kid \in DOMAIN keys /\ VerifyECDSA(m, keys)
              /\ Field(m.payload, "exp") # None
              /\ ~Expired(Field(m.payload, "exp"), s, t)
              /\ \A u : ~Expired(Field(m.payload, "exp"), s, u)
                    => VerifyStatusTokenAt(m, keys, s, u).error = None
<1> DEFINE payload == DecodePayload(m.payload)
           exp == Field(m.payload, "exp")
           missing == {f \in {"agent_id", "status", "exp", "ans_name"} :
                         Field(m.payload, f) = None}
           unknown == Failing("unknownKey", m.protected.kid \notin DOMAIN keys)
           forged == Failing("signature", ~VerifyECDSA(m, keys))
           issuer == Failing("issuer", ~VerifyIssuerBinding(m, keys))
           manyIdentity == Failing("identityCertsLength",
                             TooLong(m.payload, "valid_identity_certs"))
           manyServer == Failing("serverCertsLength",
                           TooLong(m.payload, "valid_server_certs"))
           expired(u) == Failing("expired", payload.exp # None /\ Expired(payload.exp, s, u))
           ended == Failing("terminalStatus", payload.status \in Terminal)
           bad(u) == m.defects \cup unknown \cup forged \cup issuer \cup manyIdentity
                     \cup manyServer \cup missing \cup expired(u) \cup ended
<1>1. \A u : VerifyStatusTokenAt(m, keys, s, u).error = FirstFailed(TokenChecks, bad(u))
  BY DEF VerifyStatusTokenAt
<1>2. payload.exp = exp
  BY DEF DecodePayload
<1>3. \A u, f : f \in expired(u) <=> f = "expired" /\ exp # None /\ Expired(exp, s, u)
  BY <1>2 DEF Failing
<1>4. /\ "exp" \in missing <=> exp = None
      /\ "unknownKey" \in unknown <=> m.protected.kid \notin DOMAIN keys
      /\ "signature" \in forged <=> ~VerifyECDSA(m, keys)
  BY DEF Failing
<1> HIDE DEF expired, missing, unknown, forged, issuer, manyIdentity, manyServer, ended, payload, exp
<1>5. /\ \A u, f : f \in bad(u) => f \in expired(u) \/ \A v : f \in bad(v)
      /\ \A u : unknown \cup forged \cup missing \cup expired(u) \subseteq bad(u)
  OBVIOUS
<1> HIDE DEF bad
<1>6. None \notin Range(TokenChecks)
  BY ErrorAssumption
<1>7. ASSUME NEW u
      PROVE  /\ VerifyStatusTokenAt(m, keys, s, u).error = None
                  <=> \A i \in 1..24 : TokenChecks[i] \notin bad(u)
             /\ VerifyStatusTokenAt(m, keys, s, u).error # None =>
                  VerifyStatusTokenAt(m, keys, s, u).error \in CheckNames
  <2>1. TokenChecks \in Seq(CheckNames) /\ Len(TokenChecks) = 24
    BY ChecksOfTokens
  <2> DEFINE D == bad(u)
             first == FirstFailed(TokenChecks, D)
  <2>2. first = VerifyStatusTokenAt(m, keys, s, u).error
    BY <1>1
  <2>3. /\ first = None <=> \A i \in 1..Len(TokenChecks) : TokenChecks[i] \notin D
        /\ first # None =>
             \E i \in 1..Len(TokenChecks) : first = TokenChecks[i] /\ TokenChecks[i] \in D
    <3> HIDE DEF D
    <3> QED BY <1>6, <2>1, FirstOfFailed
  <2> HIDE DEF first
  <2>4. ASSUME first # None PROVE first \in CheckNames
    <3>1. PICK i \in 1..Len(TokenChecks) : first = TokenChecks[i]
      BY <2>3, <2>4
    <3>2. TokenChecks[i] \in CheckNames
      BY <2>1, ElementOfSeq
    <3> QED
      BY <3>1, <3>2, Zenon
  <2>5. first = None <=> \A i \in 1..24 : TokenChecks[i] \notin bad(u)
    BY <2>1, <2>3
  <2> QED
    BY <2>2, <2>4, <2>5, Zenon
<1>8. e # None => e \in CheckNames
  BY <1>7
<1>9. ASSUME e = None
      PROVE  /\ m.protected.kid \in DOMAIN keys /\ VerifyECDSA(m, keys)
             /\ exp # None /\ ~Expired(exp, s, t)
             /\ \A u : ~Expired(exp, s, u) => VerifyStatusTokenAt(m, keys, s, u).error = None
  <2>1. \A i \in 1..24 : TokenChecks[i] \notin bad(t)
    BY <1>7, <1>9
  <2>2. "unknownKey" \notin bad(t) /\ "signature" \notin bad(t) /\ "exp" \notin bad(t)
        /\ "expired" \notin bad(t)
    BY <2>1, ChecksOfTokens
  <2>3. m.protected.kid \in DOMAIN keys /\ exp # None
    BY <1>4, <1>5, <2>2
  <2>4. VerifyECDSA(m, keys) /\ ~Expired(exp, s, t)
    BY <1>3, <1>4, <1>5, <2>2, <2>3
  <2>5. ASSUME NEW u, ~Expired(exp, s, u)
        PROVE  VerifyStatusTokenAt(m, keys, s, u).error = None
    <3>1. \A f : f \notin expired(u)
      BY <1>3, <2>5
    <3>2. \A f : f \in bad(u) => f \in bad(t)
      BY <1>5, <3>1
    <3> QED
      BY <1>7, <2>1, <3>2
  <2> QED
    BY <2>3, <2>4, <2>5
<1> QED
  BY <1>8, <1>9 DEF exp

\* An int64 that is a sum is at most the sum, and below zero when it overflows.
LEMMA SumOfInt64 ==
  ASSUME NEW exp \in Int64s, NEW s \in Int, NEW t \in Nat, ~Expired(exp, s, t)
  PROVE  /\ t <= exp + MaxClockSkew
         /\ \A u \in Int : u <= exp => ~Expired(exp, s, u)
<1>1. /\ exp \in Int /\ exp <= MaxInt64 /\ MaxInt64 \in Nat
      /\ MaxClockSkew \in Nat /\ MaxClockSkew <= MaxInt64
  BY ArtifactAssumption DEF Int64s
<1>2. Clamped(s) \in Nat /\ Clamped(s) <= MaxClockSkew
  BY <1>1 DEF Clamped
<1>3. t <= Int64(exp + Clamped(s)) /\ Int64(exp + Clamped(s)) \in Int
  BY <1>1, <1>2 DEF Expired, Int64
<1>4. exp + Clamped(s) <= MaxInt64
  BY <1>1, <1>2, <1>3 DEF Int64
<1>5. Int64(exp + Clamped(s)) = exp + Clamped(s)
  BY <1>1, <1>2, <1>4 DEF Int64
<1>6. t <= exp + MaxClockSkew
  BY <1>1, <1>2, <1>3, <1>5
<1>7. ASSUME NEW u \in Int, u <= exp PROVE ~Expired(exp, s, u)
  BY <1>1, <1>2, <1>5, <1>7 DEF Expired
<1> QED
  BY <1>6, <1>7

\* What was verified when it came in.
Held(t) ==
  /\ t.message \in TokenMessages /\ t.payload = DecodePayload(t.message.payload)
  /\ \E at \in Nat : VerifyStatusTokenAt(t.message, Lookup.keys, skew, at).error = None

HeldUntil(entry) == Held(entry.artifact) /\ entry.expiresAt = entry.artifact.payload.exp

ReceiptOf(entry, id) ==
  /\ entry.artifact.agent = id /\ entry.artifact.at \in Nat
  /\ entry.expiresAt = entry.artifact.at + ReceiptTTL

CachesHold ==
  /\ now \in Nat /\ skew \in Int
  /\ token # None => Held(token)
  /\ \A id \in DOMAIN tokens.entries : HeldUntil(tokens.entries[id])
  /\ \A id \in DOMAIN receipts.entries : ReceiptOf(receipts.entries[id], id)

CachesInv == Sound(receipts) /\ Sound(tokens) /\ CachesHold

\* A token that verified verifies until it expires: the sum with the tolerance did
\* not overflow, for then it would not have verified at all.
LEMMA HeldIsUsable ==
  ASSUME now \in Nat, skew \in Int, NEW t, Held(t), now <= t.payload.exp
  PROVE  VerifyStatusTokenAt(t.message, Lookup.keys, skew, now).error = None
<1> DEFINE exp == Field(t.message.payload, "exp")
<1>1. PICK at \in Nat : VerifyStatusTokenAt(t.message, Lookup.keys, skew, at).error = None
  BY DEF Held
<1>2. /\ exp # None /\ ~Expired(exp, skew, at)
      /\ \A u : ~Expired(exp, skew, u)
            => VerifyStatusTokenAt(t.message, Lookup.keys, skew, u).error = None
  BY <1>1, TokenVerdict
<1>3. t.payload.exp = exp
  BY DEF Held, DecodePayload
<1>4. exp \in Int64s
  BY <1>2, ExpiryAssumption DEF Held
<1> HIDE DEF exp
<1>5. ~Expired(exp, skew, now)
  BY <1>2, <1>3, <1>4, SumOfInt64
<1> QED
  BY <1>2, <1>5

LEMMA CachesInit == Init => CachesInv
<1> SUFFICES ASSUME Init PROVE CachesInv
  OBVIOUS
<1>1. receipts = EmptyCache(MaxEntries) /\ tokens = EmptyCache(MaxEntries)
  BY DEF Init
<1>2. Sound(receipts) /\ Sound(tokens)
  BY <1>1, EmptyIsSound
<1>3. DOMAIN receipts.entries = {} /\ DOMAIN tokens.entries = {}
  BY <1>1 DEF EmptyCache
<1>4. now \in Nat /\ token = None /\ skew \in Int
  BY UseAssumption DEF Init
<1> QED
  BY <1>2, <1>3, <1>4 DEF CachesInv, CachesHold

LEMMA SameKeepsCaches ==
  ASSUME CachesInv, skew' = skew, receipts' = receipts, tokens' = tokens,
         now' \in Nat, token' = token \/ token' = None
  PROVE  CachesInv'
<1>1. Sound(receipts)' /\ Sound(tokens)'
  BY DEF CachesInv, Sound, Mirrors
<1>2. CachesHold'
  BY DEF CachesInv, CachesHold, Held, HeldUntil, ReceiptOf
<1> QED
  BY <1>1, <1>2 DEF CachesInv

LEMMA CheckTokenKeepsCaches ==
  ASSUME CachesInv, CheckToken PROVE CachesInv'
<1>1. PICK m \in TokenMessages :
        token' = IF VerifyStatusTokenAt(m, Lookup.keys, skew, now).error = None
                 THEN [message |-> m,
                       payload |-> VerifyStatusTokenAt(m, Lookup.keys, skew, now).payload]
                 ELSE None
  BY DEF CheckToken
<1>2. VerifyStatusTokenAt(m, Lookup.keys, skew, now).payload = DecodePayload(m.payload)
  BY DEF VerifyStatusTokenAt
<1>3. now' = now /\ skew' = skew /\ receipts' = receipts /\ tokens' = tokens
  BY DEF CheckToken
<1>4. token' # None =>
        /\ token' = [message |-> m, payload |-> DecodePayload(m.payload)]
        /\ VerifyStatusTokenAt(m, Lookup.keys, skew, now).error = None
  BY <1>1, <1>2
<1>5. token' # None => Held(token)'
  BY <1>3, <1>4 DEF Held, CachesInv, CachesHold
<1>6. Sound(receipts)' /\ Sound(tokens)'
  BY <1>3 DEF CachesInv, Sound, Mirrors
<1>7. CachesHold'
  BY <1>3, <1>5 DEF CachesInv, CachesHold, Held, HeldUntil, ReceiptOf
<1> QED
  BY <1>6, <1>7 DEF CachesInv

LEMMA CacheTokenKeepsCaches ==
  ASSUME CachesInv, CacheToken PROVE CachesInv'
<1>1. PICK id \in Agents : tokens' = InsertToken(tokens, id, token, now)
  BY DEF CacheToken
<1>2. token # None /\ token' = None /\ now' = now /\ skew' = skew /\ receipts' = receipts
  BY DEF CacheToken
<1> DEFINE e == [artifact |-> token, expiresAt |-> token.payload.exp]
<1>3. tokens' = Insert(tokens, id, e)
  BY <1>1 DEF InsertToken
<1>4. HeldUntil(e)
  BY <1>2 DEF CachesInv, CachesHold, HeldUntil
<1> HIDE DEF e
<1>5. /\ Sound(tokens')
      /\ \A a \in DOMAIN tokens'.entries :
           \/ tokens'.entries[a] = e
           \/ a \in DOMAIN tokens.entries /\ tokens'.entries[a] = tokens.entries[a]
  BY <1>3, InsertKeeps DEF CachesInv
<1>6. \A a \in DOMAIN tokens'.entries : HeldUntil(tokens'.entries[a])
  BY <1>4, <1>5 DEF CachesInv, CachesHold
<1>7. \A x : HeldUntil(x) => HeldUntil(x)'
  BY <1>2 DEF HeldUntil, Held
<1>8. Sound(receipts)' /\ Sound(tokens)'
  BY <1>2, <1>5 DEF CachesInv, Sound, Mirrors
<1>9. CachesHold'
  BY <1>2, <1>6, <1>7 DEF CachesInv, CachesHold, HeldUntil, Held, ReceiptOf
<1> QED
  BY <1>8, <1>9 DEF CachesInv

LEMMA GetTokenKeepsCaches ==
  ASSUME CachesInv, GetToken PROVE CachesInv'
<1>1. PICK id \in Agents : Get(tokens, id, now) # Missing /\ token' = Get(tokens, id, now)
  BY DEF GetToken
<1>2. now' = now /\ skew' = skew /\ receipts' = receipts /\ tokens' = tokens
  BY DEF GetToken
<1>3. id \in DOMAIN tokens.entries /\ token' = tokens.entries[id].artifact
  BY <1>1 DEF Get
<1>4. Held(token)'
  BY <1>2, <1>3 DEF CachesInv, CachesHold, HeldUntil, Held
<1>5. Sound(receipts)' /\ Sound(tokens)'
  BY <1>2 DEF CachesInv, Sound, Mirrors
<1>6. CachesHold'
  BY <1>2, <1>4 DEF CachesInv, CachesHold, Held, HeldUntil, ReceiptOf
<1> QED
  BY <1>5, <1>6 DEF CachesInv

LEMMA InvalidateTokenKeepsCaches ==
  ASSUME CachesInv, InvalidateToken PROVE CachesInv'
<1>1. PICK id \in DOMAIN tokens.entries : tokens' = Invalidate(tokens, id)
  BY DEF InvalidateToken
<1>2. token' = token /\ now' = now /\ skew' = skew /\ receipts' = receipts
  BY DEF InvalidateToken
<1>3. /\ Sound(tokens')
      /\ \A a \in DOMAIN tokens'.entries :
           a \in DOMAIN tokens.entries /\ tokens'.entries[a] = tokens.entries[a]
  BY <1>1, InvalidateKeeps DEF CachesInv
<1>4. Sound(receipts)' /\ Sound(tokens)'
  BY <1>2, <1>3 DEF CachesInv, Sound, Mirrors
<1>5. CachesHold'
  BY <1>2, <1>3 DEF CachesInv, CachesHold, HeldUntil, Held, ReceiptOf
<1> QED
  BY <1>4, <1>5 DEF CachesInv

LEMMA CacheReceiptKeepsCaches ==
  ASSUME CachesInv, CacheReceipt PROVE CachesInv'
<1>1. PICK id \in Agents :
        receipts' = InsertReceipt(receipts, id, [agent |-> id, at |-> now], now)
  BY DEF CacheReceipt
<1>2. token' = token /\ now' = now /\ skew' = skew /\ tokens' = tokens
  BY DEF CacheReceipt
<1> DEFINE e == [artifact |-> [agent |-> id, at |-> now], expiresAt |-> now + ReceiptTTL]
<1>3. receipts' = Insert(receipts, id, e)
  BY <1>1 DEF InsertReceipt
<1>4. ReceiptOf(e, id)
  BY DEF CachesInv, CachesHold, ReceiptOf
<1> HIDE DEF e
<1>5. /\ Sound(receipts')
      /\ \A a \in DOMAIN receipts'.entries :
           \/ a = id /\ receipts'.entries[a] = e
           \/ a \in DOMAIN receipts.entries /\ receipts'.entries[a] = receipts.entries[a]
  BY <1>3, InsertKeeps DEF CachesInv
<1>6. \A a \in DOMAIN receipts'.entries : ReceiptOf(receipts'.entries[a], a)
  BY <1>4, <1>5 DEF CachesInv, CachesHold
<1>7. Sound(receipts)' /\ Sound(tokens)'
  BY <1>2, <1>5 DEF CachesInv, Sound, Mirrors
<1>8. CachesHold'
  BY <1>2, <1>6 DEF CachesInv, CachesHold, HeldUntil, Held, ReceiptOf
<1> QED
  BY <1>7, <1>8 DEF CachesInv

LEMMA InvalidateReceiptKeepsCaches ==
  ASSUME CachesInv, InvalidateReceipt PROVE CachesInv'
<1>1. PICK id \in DOMAIN receipts.entries : receipts' = Invalidate(receipts, id)
  BY DEF InvalidateReceipt
<1>2. token' = token /\ now' = now /\ skew' = skew /\ tokens' = tokens
  BY DEF InvalidateReceipt
<1>3. /\ Sound(receipts')
      /\ \A a \in DOMAIN receipts'.entries :
           a \in DOMAIN receipts.entries /\ receipts'.entries[a] = receipts.entries[a]
  BY <1>1, InvalidateKeeps DEF CachesInv
<1>4. Sound(receipts)' /\ Sound(tokens)'
  BY <1>2, <1>3 DEF CachesInv, Sound, Mirrors
<1>5. CachesHold'
  BY <1>2, <1>3 DEF CachesInv, CachesHold, HeldUntil, Held, ReceiptOf
<1> QED
  BY <1>4, <1>5 DEF CachesInv

LEMMA CachesStep ==
  ASSUME CachesInv, [Next]_vars PROVE CachesInv'
<1>1. CASE CheckToken
  BY <1>1, CheckTokenKeepsCaches
<1>2. CASE CacheToken
  BY <1>2, CacheTokenKeepsCaches
<1>3. CASE GetToken
  BY <1>3, GetTokenKeepsCaches
<1>4. CASE InvalidateToken
  BY <1>4, InvalidateTokenKeepsCaches
<1>5. CASE CacheReceipt
  BY <1>5, CacheReceiptKeepsCaches
<1>6. CASE InvalidateReceipt
  BY <1>6, InvalidateReceiptKeepsCaches
<1>7. now \in Nat
  BY DEF CachesInv, CachesHold
<1>8. CASE CheckReceipt \/ CheckNote \/ CheckCovers \/ GetReceipt \/ CheckPeer \/ Attach
           \/ Accept \/ UNCHANGED vars
  <2>1. UNCHANGED <<now, caching>>
    BY <1>8 DEF CheckReceipt, CheckNote, CheckCovers, GetReceipt, CheckPeer, Attach, Accept,
                vars, caching
  <2> QED
    BY <1>7, <2>1, SameKeepsCaches DEF caching
<1>9. CASE Tick
  BY <1>7, <1>9, SameKeepsCaches DEF Tick, caching
<1> QED
  BY <1>1, <1>2, <1>3, <1>4, <1>5, <1>6, <1>8, <1>9 DEF Next

LEMMA CachesInvariant == Spec => []CachesInv
BY CachesInit, CachesStep, PTL DEF Spec

\* verify/scitt/cache.go:24-31 and 137-145: after any insertions, evictions and
\* invalidations the order lists the agents that have entries, each once, and there
\* are not more than the maximum, in caches of any size.
THEOREM OrderMirrorsEntries == Spec => []CachesMirror
<1>1. CachesInv => CachesMirror
  BY DEF CachesInv, Sound, CachesMirror
<1> QED
  BY <1>1, CachesInvariant, PTL

\* cache.go:51-66 and 163-178: what is found in a cache verifies now, for every
\* tolerance and expiry; an expiry near the largest int64 was refused when it came.
THEOREM FoundIsUsable == Spec => []CachedIsUsable
<1>1. ASSUME CachesInv, NEW id \in Agents, Get(tokens, id, now) # Missing
      PROVE  VerifyStatusTokenAt(Get(tokens, id, now).message, Lookup.keys, skew, now).error
               = None
  <2>1. /\ id \in DOMAIN tokens.entries /\ now <= tokens.entries[id].expiresAt
        /\ Get(tokens, id, now) = tokens.entries[id].artifact
    BY <1>1 DEF Get
  <2>2. Held(tokens.entries[id].artifact) /\ now <= tokens.entries[id].artifact.payload.exp
    BY <1>1, <2>1 DEF CachesInv, CachesHold, HeldUntil
  <2> QED
    BY <1>1, <2>1, <2>2, HeldIsUsable DEF CachesInv, CachesHold
<1>2. ASSUME CachesInv, NEW id \in Agents, Get(receipts, id, now) # Missing
      PROVE  Get(receipts, id, now).agent = id /\ now - Get(receipts, id, now).at <= ReceiptTTL
  <2>1. /\ id \in DOMAIN receipts.entries /\ now <= receipts.entries[id].expiresAt
        /\ Get(receipts, id, now) = receipts.entries[id].artifact
    BY <1>2 DEF Get
  <2> QED
    BY <1>2, <2>1, ArtifactCacheAssumption DEF CachesInv, CachesHold, ReceiptOf
<1>3. CachesInv => CachedIsUsable
  BY <1>1, <1>2 DEF CachedIsUsable
<1> QED
  BY <1>3, CachesInvariant, PTL

-----------------------------------------------------------------------------
(* Headers.                                                                *)

LEMMA ReceiptVerdict ==
  ASSUME NEW m, NEW keys
  PROVE  VerifyReceipt(m, keys).error \in CheckNames \cup {None}
<1>1. None \notin Range(ReceiptChecks)
  BY ErrorAssumption
<1>2. PICK D : VerifyReceipt(m, keys).error = FirstFailed(ReceiptChecks, D)
  BY Zenon DEF VerifyReceipt
<1>3. ASSUME NEW i \in 1..Len(ReceiptChecks) PROVE ReceiptChecks[i] \in CheckNames
  BY ChecksOfReceipts, ElementOfSeq
<1>4. FirstFailed(ReceiptChecks, D) # None =>
        \E i \in 1..Len(ReceiptChecks) : FirstFailed(ReceiptChecks, D) = ReceiptChecks[i]
  BY <1>1, ChecksOfReceipts, FirstOfFailed
<1> QED
  BY <1>2, <1>3, <1>4, Zenon

\* verifyWithHeaders, where both headers are there.
LEMMA HeadersVerdict ==
  ASSUME NEW r \in Peers, NEW lookup \in Lookups, NEW s \in Int, NEW t \in Nat,
         r.token # None
  PROVE  LET outcome == VerifyWithHeaders(r, lookup, s, t).outcome
             payload == DecodePayload(r.token.payload)
         IN  /\ outcome = "verified" =>
                  /\ IssuedByLog(r.token)
                  /\ payload.ansName = r.host /\ r.cert \in payload.certs[r.role]
                  /\ payload.status \in ValidForConnection
                  /\ t <= payload.exp + MaxClockSkew
             /\ outcome = "badgeDecides" =>
                  /\ lookup.fetch # None
                  /\ FetchRootKeys(lookup.fetch) \notin {None, "agentTerminal"}
<1> DEFINE ofReceipt == VerifyReceipt(r.receipt, lookup.keys)
           ofToken == VerifyStatusTokenAt(r.token, lookup.keys, s, t)
           payload == DecodePayload(r.token.payload)
           first == IF ofReceipt.error # None THEN ofReceipt.error ELSE ofToken.error
           error == Looked(first, lookup)
           rest == Failing("status", payload.status \notin ValidForConnection)
                   \cup Failing("fingerprint", r.cert \notin payload.certs[r.role])
                   \cup Failing("ANSName", payload.ansName # r.host)
           own == <<"status", "fingerprint", "ANSName">>
           last == FirstFailed(own, rest)
           reason == IF lookup.keys = None THEN "noKeyLookup"
                     ELSE IF error # None THEN error ELSE last
           outcome == VerifyWithHeaders(r, lookup, s, t).outcome
<1>1. ofToken.payload = payload
  BY DEF VerifyStatusTokenAt
<1>2. outcome = HeaderOutcome(reason, r.daneRejects)
  BY <1>1 DEF VerifyWithHeaders
<1>3. ofReceipt.error \in CheckNames \cup {None}
  BY ReceiptVerdict
<1>4. /\ ofToken.error \in CheckNames \cup {None}
      /\ ofToken.error = None =>
           /\ r.token.protected.kid \in DOMAIN lookup.keys /\ VerifyECDSA(r.token, lookup.keys)
           /\ Field(r.token.payload, "exp") # None
           /\ ~Expired(Field(r.token.payload, "exp"), s, t)
  BY TokenVerdict
<1>5. /\ last \in CheckNames \cup {None}
      /\ last = None => /\ payload.status \in ValidForConnection
                        /\ r.cert \in payload.certs[r.role] /\ payload.ansName = r.host
  <2>1. own \in Seq(CheckNames) /\ Len(own) = 3
    BY DEF CheckNames
  <2>2. own[1] = "status" /\ own[2] = "fingerprint" /\ own[3] = "ANSName"
    OBVIOUS
  <2>3. Range(own) = {"status", "fingerprint", "ANSName"}
    BY DEF Range
  <2>4. None \notin Range(own)
    BY <2>3, ErrorAssumption
  <2>5. /\ "status" \in rest <=> payload.status \notin ValidForConnection
        /\ "fingerprint" \in rest <=> r.cert \notin payload.certs[r.role]
        /\ "ANSName" \in rest <=> payload.ansName # r.host
    BY DEF Failing
  <2> HIDE DEF own, rest
  <2>6. /\ last = None <=> \A i \in 1..3 : own[i] \notin rest
        /\ last # None => \E i \in 1..3 : last = own[i] /\ own[i] \in rest
    BY <2>1, <2>4, FirstOfFailed
  <2> HIDE DEF last
  <2>7. ASSUME NEW i \in 1..3 PROVE own[i] \in CheckNames
    BY <2>1, ElementOfSeq
  <2>8. last \in CheckNames \cup {None}
    BY <2>6, <2>7
  <2>9. last = None => "status" \notin rest /\ "fingerprint" \notin rest /\ "ANSName" \notin rest
    BY <2>2, <2>6
  <2> QED
    BY <2>5, <2>8, <2>9
<1> HIDE DEF last
<1>6. first \in CheckNames \cup {None}
  BY <1>3, <1>4
<1>7. /\ None \notin ShouldFallbackToBadge /\ "noKeyLookup" # None
      /\ CheckNames \cap ShouldFallbackToBadge = {}
      /\ {"agentTerminal", "noKeyLookup"} \cap ShouldFallbackToBadge = {}
  BY ErrorAssumption, NamesAreApart DEF ShouldFallbackToBadge
<1>8. /\ outcome = "verified" => reason = None
      /\ outcome = "badgeDecides" => reason \in ShouldFallbackToBadge
  <2> HIDE DEF reason, outcome
  <2> QED BY <1>2 DEF HeaderOutcome
<1>9. /\ error = None => first = None
      /\ error \in ShouldFallbackToBadge =>
           lookup.fetch # None /\ error = FetchRootKeys(lookup.fetch)
  <2> HIDE DEF first
  <2> QED BY <1>6, <1>7 DEF Looked
<1>10. first = None => ofToken.error = None
  OBVIOUS
<1>11. payload.exp = Field(r.token.payload, "exp")
  BY DEF DecodePayload
<1> HIDE DEF error, first, ofToken, ofReceipt, outcome
<1>12. reason = None => lookup.keys # None /\ error = None /\ last = None
  BY <1>7
<1>13. reason \in ShouldFallbackToBadge => error \in ShouldFallbackToBadge
  BY <1>5, <1>7
<1> HIDE DEF reason
<1>14. ASSUME outcome = "badgeDecides"
       PROVE  lookup.fetch # None /\ FetchRootKeys(lookup.fetch) \notin {None, "agentTerminal"}
  BY <1>7, <1>8, <1>9, <1>13, <1>14
<1>15. ASSUME outcome = "verified"
       PROVE  /\ IssuedByLog(r.token)
              /\ payload.ansName = r.host /\ r.cert \in payload.certs[r.role]
              /\ payload.status \in ValidForConnection
              /\ t <= payload.exp + MaxClockSkew
  <2>1. lookup.keys # None /\ last = None /\ ofToken.error = None
    BY <1>8, <1>9, <1>10, <1>12, <1>15
  <2>2. IssuedByLog(r.token)
    BY <1>4, <2>1, HonestLog
  <2>3. payload.exp \in Int64s
    <3>1. r.token \in TokenMessages \cup ({p.token : p \in Peers} \ {None})
      OBVIOUS
    <3> QED
      BY <1>4, <1>11, <2>1, <3>1, ExpiryAssumption
  <2>4. t <= payload.exp + MaxClockSkew
    <3> HIDE DEF payload
    <3> QED BY <1>4, <1>11, <2>1, <2>3, SumOfInt64
  <2> QED
    BY <1>5, <2>1, <2>2, <2>4
<1> QED
  BY <1>14, <1>15 DEF outcome

\* What VerifyWithScitt answers without looking into the headers.
LEMMA AnswerOfScitt ==
  ASSUME NEW r, NEW lookup, NEW s, NEW t
  PROVE  LET answer == VerifyWithScitt(r, lookup, s, t)
         IN  \/ r.receipt = None /\ r.token = None /\ answer.outcome = "badgeDecides"
             \/ answer.outcome = "SCITTError"
             \/ answer.outcome = "certificateError"
             \/ r.token # None /\ answer = VerifyWithHeaders(r, lookup, s, t)
<1> DEFINE answer == VerifyWithScitt(r, lookup, s, t)
           none == r.receipt = None /\ r.token = None
           half == (r.receipt = None) # (r.token = None)
           unnamed == r.receipt # None /\ r.token # None /\ r.role = "client" /\ ~r.named
<1>1. CASE none
  <2>1. ~half /\ ~unnamed
    BY <1>1
  <2>2. answer = [outcome |-> "badgeDecides", reason |-> None]
    BY <1>1, <2>1, Zenon DEF VerifyWithScitt
  <2> QED
    BY <1>1, <2>2
<1>2. CASE half
  <2>1. ~none /\ ~unnamed
    BY <1>2
  <2>2. answer = [outcome |-> "SCITTError", reason |-> "oneHeader"]
    BY <1>2, <2>1, Zenon DEF VerifyWithScitt
  <2> QED
    BY <2>2
<1>3. CASE unnamed
  <2>1. ~none /\ ~half
    BY <1>3
  <2>2. answer = [outcome |-> "certificateError", reason |-> None]
    BY <1>3, <2>1, Zenon DEF VerifyWithScitt
  <2> QED
    BY <2>2
<1>4. CASE ~none /\ ~half /\ ~unnamed
  <2>1. r.token # None
    BY <1>4
  <2>2. answer = VerifyWithHeaders(r, lookup, s, t)
    BY <1>4, Zenon DEF VerifyWithScitt
  <2> QED
    BY <2>1, <2>2
<1> QED
  BY <1>1, <1>2, <1>3, <1>4

\* The outcome that is kept is the one of a verification.
PeerInv ==
  /\ now \in Nat /\ skew \in Int
  /\ peer # None => /\ peer.peer \in Peers /\ peer.lookup \in Lookups /\ peer.at \in Nat
                    /\ peer.result = VerifyWithScitt(peer.peer, peer.lookup, skew, peer.at)

LEMMA PeerInit == Init => PeerInv
BY UseAssumption DEF Init, PeerInv

LEMMA PeerStep ==
  ASSUME PeerInv, [Next]_vars PROVE PeerInv'
<1>1. CASE CheckPeer
  <2>1. PICK p \in Peers, lookup \in Lookups :
          peer' = [peer |-> p, lookup |-> lookup, at |-> now,
                   result |-> VerifyWithScitt(p, lookup, skew, now)]
    BY <1>1 DEF CheckPeer
  <2>2. now' = now /\ skew' = skew
    BY <1>1 DEF CheckPeer, caching
  <2> QED
    BY <2>1, <2>2 DEF PeerInv
<1>2. CASE Tick
  BY <1>2 DEF Tick, PeerInv, caching
<1>3. CASE \/ CheckReceipt \/ CheckNote \/ CheckCovers \/ CheckToken \/ CacheToken
           \/ GetToken \/ InvalidateToken \/ CacheReceipt \/ GetReceipt
           \/ InvalidateReceipt \/ Attach \/ Accept \/ UNCHANGED vars
  <2>1. now' = now /\ skew' = skew /\ peer' = peer
    BY <1>3 DEF CheckReceipt, CheckNote, CheckCovers, CheckToken, CacheToken, GetToken,
                InvalidateToken, CacheReceipt, GetReceipt, InvalidateReceipt, Attach, Accept,
                vars, caching
  <2> QED
    BY <2>1 DEF PeerInv
<1> QED
  BY <1>1, <1>2, <1>3 DEF Next

\* verify.go:186-188 and 30-32: whatever headers, keys, tolerances and times,
\* headers that vouch for a certificate are the log's, for it, its role and its
\* host, and hold; the badge decides only without headers, or where the fetch of
\* a key failed on its way.
THEOREM HeadersDecide == Spec => []ScittDecides
<1>1. ASSUME PeerInv, peer # None
      PROVE  LET p == peer.peer
                 payload == DecodePayload(p.token.payload)
             IN  /\ peer.result.outcome = "verified" =>
                      /\ IssuedByLog(p.token)
                      /\ payload.ansName = p.host /\ p.cert \in payload.certs[p.role]
                      /\ payload.status \in ValidForConnection
                      /\ peer.at <= payload.exp + MaxClockSkew
                 /\ peer.result.outcome = "badgeDecides" =>
                      \/ p.receipt = None /\ p.token = None
                      \/ /\ peer.lookup.fetch # None
                         /\ FetchRootKeys(peer.lookup.fetch) \notin {None, "agentTerminal"}
  <2>1. /\ peer.peer \in Peers /\ peer.lookup \in Lookups /\ peer.at \in Nat /\ skew \in Int
        /\ peer.result = VerifyWithScitt(peer.peer, peer.lookup, skew, peer.at)
    BY <1>1 DEF PeerInv
  <2>2. \/ /\ peer.peer.receipt = None /\ peer.peer.token = None
           /\ peer.result.outcome = "badgeDecides"
        \/ peer.result.outcome \in {"SCITTError", "certificateError"}
        \/ /\ peer.peer.token # None
           /\ peer.result = VerifyWithHeaders(peer.peer, peer.lookup, skew, peer.at)
    BY <2>1, AnswerOfScitt
  <2>3. CASE /\ peer.peer.token # None
             /\ peer.result = VerifyWithHeaders(peer.peer, peer.lookup, skew, peer.at)
    BY <2>1, <2>3, HeadersVerdict
  <2> QED
    BY <2>2, <2>3
<1>2. PeerInv => ScittDecides
  <2> SUFFICES ASSUME PeerInv, peer # None PROVE ScittDecides
    BY DEF ScittDecides
  <2>1. CASE peer.result.outcome = "verified"
    <3>1. peer.result.outcome # "badgeDecides"
      BY <2>1
    <3> QED
      BY <1>1, <2>1, <3>1, Zenon DEF ScittDecides
  <2>2. CASE peer.result.outcome = "badgeDecides"
    <3>1. peer.result.outcome # "verified"
      BY <2>2
    <3> QED
      BY <1>1, <2>2, <3>1, Zenon DEF ScittDecides
  <2>3. CASE peer.result.outcome \notin {"verified", "badgeDecides"}
    <3>1. peer.result.outcome # "verified" /\ peer.result.outcome # "badgeDecides"
      BY <2>3
    <3> QED
      BY <3>1, Zenon DEF ScittDecides
  <2> QED
    BY <2>1, <2>2, <2>3
<1>3. Spec => []PeerInv
  BY PeerInit, PeerStep, PTL DEF Spec
<1> QED
  BY <1>2, <1>3, PTL

-----------------------------------------------------------------------------
(* Proofs of possession.                                                   *)

\* The parts of a URL that a proof and a callee compare.
LEMMA PartsOfReceived ==
  ASSUME NEW r \in HTTPRequests
  PROVE  LET got == Received(r)
         IN  /\ got.method = r.method /\ got.content = r.content
             /\ got.authorization = r.authorization
             /\ got.url \in [scheme : {"https", "http"}, host : Hosts,
                             port : Nat \cup {Absent}, path : {Path(r.url)}, query : BOOLEAN]
             /\ got.url.scheme = r.url.scheme /\ got.url.host = r.url.host
             /\ got.url.port = r.url.port
<1> DEFINE url == [r.url EXCEPT !.path = Path(r.url)]
<1>1. r.url \in URLs
  BY DEF HTTPRequests
<1>2. Received(r) = [r EXCEPT !.url = url]
  BY <1>1 DEF Received, Path
<1>3. /\ url.scheme = r.url.scheme /\ url.host = r.url.host /\ url.port = r.url.port
      /\ url \in [scheme : {"https", "http"}, host : Hosts,
                  port : Nat \cup {Absent}, path : {Path(r.url)}, query : BOOLEAN]
  BY <1>1 DEF URLs
<1> HIDE DEF url
<1>4. /\ Received(r).url = url /\ Received(r).method = r.method
      /\ Received(r).content = r.content /\ Received(r).authorization = r.authorization
  BY <1>2 DEF HTTPRequests
<1> QED
  BY <1>3, <1>4

\* The target URL of a callee: its authority is the external one, if there is one.
LEMMA PartsOfTarget ==
  ASSUME NEW r, NEW paths,
         r.url \in [scheme : {"https", "http"}, host : Hosts,
                    port : Nat \cup {Absent}, path : paths, query : BOOLEAN],
         NEW c, c.external \in URLs \cup {Absent}
  PROVE  LET target == RequestURL(c, r)
             authority == IF c.external = Absent THEN r.url ELSE c.external
         IN  /\ target.scheme = authority.scheme /\ target.host = authority.host
             /\ target.port = authority.port /\ target.path = r.url.path
             /\ target.scheme \in {"https", "http"} /\ target.port \in Nat \cup {Absent}
BY DEF RequestURL, URLs

\* Ports that are compared without the default are the same ports.
LEMMA SamePorts ==
  ASSUME NEW u, NEW v,
         u.port \in Nat \cup {Absent}, v.port \in Nat \cup {Absent}, u.scheme = v.scheme
  PROVE  WithoutDefault(u.scheme, u.port) = WithoutDefault(v.scheme, v.port)
           <=> Port(u) = Port(v)
<1>1. Absent \notin Nat /\ DefaultPort(u.scheme) \in Nat
  BY ProofAssumption DEF DefaultPort
<1> QED
  BY <1>1 DEF WithoutDefault, Port

\* What a callee checks of the proof that a signer made for a request.
LEMMA ChecksOfCallee ==
  ASSUME NEW q \in HTTPRequests, NEW c, NEW r
  PROVE  LET R == Received(r)
             target == RequestURL(c, R)
         IN  Authenticate(AttachIdentity(Signer, q), c, r) = Absent
               <=> /\ CheckAuthority(c, R)
                   /\ q.method = R.method /\ NormalizeHTU(q.url) = NormalizeHTU(target)
                   /\ AccessTokenFromAuthorization(q.authorization)
                        = AccessTokenFromAuthorization(R.authorization)
                   /\ q.content = R.content
<1> DEFINE R == Received(r)
           target == RequestURL(c, R)
           proof == AttachIdentity(Signer, q)
           ath == AccessTokenFromAuthorization(q.authorization)
           htu == NormalizeHTU(q.url)
           leaf == [key |-> Signer.key, cert |-> Signer.cert]
           header == [typ |-> "dpop+jwt", alg |-> "ES256", jwk |-> Signer.key, x5c |-> <<leaf>>]
           payload == [htm |-> q.method, htu |-> htu, ath |-> ath,
                       profile |-> 1, digest |-> q.content]
<1>1. proof = [header |-> header, payload |-> payload,
               sig |-> [by |-> Signer.key, over |-> <<header, payload>>], defects |-> {}]
  BY DEF AttachIdentity, Sign
<1>2. /\ header.typ = "dpop+jwt" /\ header.alg = "ES256" /\ header.jwk = Signer.key
      /\ Len(header.x5c) = 1 /\ header.x5c[1].key = Signer.key
  OBVIOUS
<1>3. /\ payload.htm = q.method /\ payload.htu = htu /\ payload.ath = ath
      /\ payload.profile = 1 /\ payload.digest = q.content
  OBVIOUS
<1> HIDE DEF header, payload, htu, ath
<1>4. /\ proof.header = header /\ proof.payload = payload /\ proof.defects = {}
      /\ proof.sig = [by |-> Signer.key, over |-> <<header, payload>>]
  BY <1>1
<1> HIDE DEF proof
<1>5. CheckKeys(proof)
  BY <1>2, <1>4 DEF CheckKeys
<1> HIDE DEF R
<1>6. /\ CheckHTTPBinding(proof.payload, c, R)
             <=> q.method = R.method /\ htu = NormalizeHTU(target)
      /\ CheckTokenBinding(proof.payload, R)
             <=> ath = AccessTokenFromAuthorization(R.authorization)
  BY <1>3, <1>4 DEF CheckHTTPBinding, CheckTokenBinding
<1>7. Authenticate(proof, c, r) = IF ~CheckAuthority(c, R) THEN "authority"
                                  ELSE VerifyProof(proof, c, R)
  BY DEF Authenticate, R
<1>8. VerifyProof(proof, c, R)
        = IF ~CheckHTTPBinding(proof.payload, c, R) THEN "HTTPBinding"
          ELSE IF ~CheckTokenBinding(proof.payload, R) THEN "tokenBinding"
          ELSE IF q.content # R.content THEN "contentBinding" ELSE Absent
  BY <1>3, <1>4, <1>5 DEF VerifyProof
<1>9. Absent # "authority" /\ Absent # "HTTPBinding" /\ Absent # "tokenBinding"
      /\ Absent # "contentBinding"
  BY ProofAssumption
<1>10. Authenticate(proof, c, r) = Absent
         <=> /\ CheckAuthority(c, R) /\ CheckHTTPBinding(proof.payload, c, R)
             /\ CheckTokenBinding(proof.payload, R) /\ q.content = R.content
  BY <1>7, <1>8, <1>9
<1> QED
  BY <1>6, <1>10 DEF R, proof, htu, ath

\* Two URLs have the same target if they have the same origin and path.
LEMMA SameTarget ==
  ASSUME NEW u, NEW v,
         u.port \in Nat \cup {Absent}, v.port \in Nat \cup {Absent}
  PROVE  NormalizeHTU(u) = NormalizeHTU(v) <=> Origin(u) = Origin(v) /\ Path(u) = Path(v)
<1>1. NormalizeHTU(u) = NormalizeHTU(v)
        <=> /\ u.scheme = v.scheme /\ u.host.name = v.host.name
            /\ WithoutDefault(u.scheme, u.port) = WithoutDefault(v.scheme, v.port)
            /\ Path(u) = Path(v)
  <2> DEFINE pu == WithoutDefault(u.scheme, u.port)
             pv == WithoutDefault(v.scheme, v.port)
  <2>1. /\ NormalizeHTU(u) = [scheme |-> u.scheme, host |-> u.host.name,
                              port |-> pu, path |-> Path(u)]
        /\ NormalizeHTU(v) = [scheme |-> v.scheme, host |-> v.host.name,
                              port |-> pv, path |-> Path(v)]
    BY Zenon DEF NormalizeHTU, Path
  <2> HIDE DEF pu, pv
  <2>2. NormalizeHTU(u) = NormalizeHTU(v)
          <=> /\ u.scheme = v.scheme /\ u.host.name = v.host.name
              /\ pu = pv /\ Path(u) = Path(v)
    BY <2>1
  <2> QED
    BY <2>2 DEF pu, pv
<1>2. Origin(u) = Origin(v)
        <=> u.scheme = v.scheme /\ u.host.name = v.host.name /\ Port(u) = Port(v)
  BY DEF Origin
<1>3. u.scheme = v.scheme =>
        (WithoutDefault(u.scheme, u.port) = WithoutDefault(v.scheme, v.port)
          <=> Port(u) = Port(v))
  BY SamePorts
<1> QED
  BY <1>1, <1>2, <1>3

\* The callee's checks of the authority, in terms of origins.
LEMMA AuthorityOfCallee ==
  ASSUME NEW c \in Middlewares, NEW r \in HTTPRequests
  PROVE  LET target == RequestURL(c, Received(r))
         IN  /\ target.port \in Nat \cup {Absent}
             /\ Origin(RequestURL(c, r)) = Origin(target)
             /\ Path(target) = Path(r.url)
             /\ c.external # Absent => Origin(target) = Origin(c.external)
             /\ c.external = Absent => Origin(target) = Origin(r.url)
             /\ CheckAuthority(c, Received(r))
                  <=> (c.hosts # {} => \E h \in c.hosts :
                         h.host.name = target.host.name
                         /\ WithoutDefault(target.scheme, target.port)
                              = WithoutDefault(target.scheme, h.port))
<1> DEFINE got == Received(r)
           target == RequestURL(c, got)
           plain == RequestURL(c, r)
<1>1. /\ c.external \in URLs \cup {Absent}
      /\ c.hosts \subseteq [host : Hosts, port : Nat \cup {Absent}]
  BY RequestAssumption
<1>2. /\ got.url \in [scheme : {"https", "http"}, host : Hosts,
                      port : Nat \cup {Absent}, path : {Path(r.url)}, query : BOOLEAN]
      /\ got.url.scheme = r.url.scheme /\ got.url.host = r.url.host
      /\ got.url.port = r.url.port /\ got.url.path = Path(r.url)
  BY PartsOfReceived
<1>3. r.url \in [scheme : {"https", "http"}, host : Hosts,
                 port : Nat \cup {Absent}, path : STRING, query : BOOLEAN]
  BY DEF HTTPRequests, URLs
<1> HIDE DEF got
<1>4. LET authority == IF c.external = Absent THEN r.url ELSE c.external
      IN  /\ target.scheme = authority.scheme /\ target.host = authority.host
          /\ target.port = authority.port /\ target.path = Path(r.url)
          /\ target.scheme \in {"https", "http"} /\ target.port \in Nat \cup {Absent}
          /\ plain.scheme = authority.scheme /\ plain.host = authority.host
          /\ plain.port = authority.port
  <2>1. LET authority == IF c.external = Absent THEN got.url ELSE c.external
        IN  /\ target.scheme = authority.scheme /\ target.host = authority.host
            /\ target.port = authority.port /\ target.path = got.url.path
            /\ target.scheme \in {"https", "http"} /\ target.port \in Nat \cup {Absent}
    BY <1>1, <1>2, PartsOfTarget
  <2>2. LET authority == IF c.external = Absent THEN r.url ELSE c.external
        IN  /\ plain.scheme = authority.scheme /\ plain.host = authority.host
            /\ plain.port = authority.port
    BY <1>1, <1>3, PartsOfTarget
  <2> HIDE DEF target, plain
  <2> QED
    BY <1>2, <2>1, <2>2
<1> HIDE DEF target, plain
<1>5. /\ Origin(plain) = Origin(target)
      /\ c.external # Absent => Origin(target) = Origin(c.external)
      /\ c.external = Absent => Origin(target) = Origin(r.url)
  BY <1>4 DEF Origin, Port
<1>6. Path(target) = Path(r.url)
  BY <1>4 DEF Path
<1>7. CheckAuthority(c, got)
        <=> (c.hosts # {} => \E h \in c.hosts :
               h.host.name = target.host.name
               /\ WithoutDefault(target.scheme, target.port)
                    = WithoutDefault(target.scheme, h.port))
  <2> DEFINE key == TrustedKey(target.scheme, target.host, target.port)
  <2>1. key \in TrustedHosts(c.hosts)
          <=> \E scheme \in {"https", "http"}, h \in c.hosts :
                key = TrustedKey(scheme, h.host, h.port)
    BY DEF TrustedHosts
  <2>2. \A scheme, h : key = TrustedKey(scheme, h.host, h.port)
          <=> /\ scheme = target.scheme /\ h.host.name = target.host.name
              /\ WithoutDefault(target.scheme, target.port) = WithoutDefault(scheme, h.port)
    BY DEF TrustedKey
  <2>3. CheckAuthority(c, got) <=> (c.hosts # {} => key \in TrustedHosts(c.hosts))
    BY DEF CheckAuthority, target
  <2> HIDE DEF key
  <2> QED
    BY <1>4, <2>1, <2>2, <2>3
<1> QED
  BY <1>4, <1>5, <1>6, <1>7 DEF got, target, plain

\* An accepted proof binds the request.
LEMMA AcceptedBinds ==
  ASSUME NEW q \in HTTPRequests, NEW r \in HTTPRequests, NEW c \in Middlewares,
         Authenticate(AttachIdentity(Signer, q), c, r) = Absent
  PROVE  /\ r.method = q.method /\ r.content = q.content
         /\ AccessTokenFromAuthorization(r.authorization)
              = AccessTokenFromAuthorization(q.authorization)
         /\ Origin(RequestURL(c, r)) = Origin(q.url) /\ Path(r.url) = Path(q.url)
         /\ Serves(c, q.url)
<1> DEFINE target == RequestURL(c, Received(r))
<1>1. /\ CheckAuthority(c, Received(r)) /\ NormalizeHTU(q.url) = NormalizeHTU(target)
      /\ q.method = r.method /\ q.content = r.content
      /\ AccessTokenFromAuthorization(q.authorization)
           = AccessTokenFromAuthorization(r.authorization)
  BY ChecksOfCallee, PartsOfReceived
<1>2. q.url \in URLs /\ q.url.port \in Nat \cup {Absent}
  BY DEF HTTPRequests, URLs
<1>3. /\ target.port \in Nat \cup {Absent}
      /\ Origin(RequestURL(c, r)) = Origin(target) /\ Path(target) = Path(r.url)
      /\ c.external # Absent => Origin(target) = Origin(c.external)
      /\ c.hosts # {} => \E h \in c.hosts :
           /\ h.host.name = target.host.name
           /\ WithoutDefault(target.scheme, target.port)
                = WithoutDefault(target.scheme, h.port)
  BY <1>1, AuthorityOfCallee
<1> HIDE DEF target
<1>4. Origin(q.url) = Origin(target) /\ Path(q.url) = Path(target)
  BY <1>1, <1>2, <1>3, SameTarget
<1>5. ASSUME c.hosts # {}
      PROVE  \E h \in c.hosts :
               Origin(q.url) = Origin([q.url EXCEPT !.host = h.host, !.port = h.port])
  <2>1. PICK h \in c.hosts :
          /\ h.host.name = target.host.name
          /\ WithoutDefault(target.scheme, target.port) = WithoutDefault(target.scheme, h.port)
    BY <1>3, <1>5
  <2> DEFINE v == [q.url EXCEPT !.host = h.host, !.port = h.port]
  <2>2. v.scheme = q.url.scheme /\ v.host = h.host /\ v.port = h.port
    BY <1>2 DEF URLs
  <2>3. h.port \in Nat \cup {Absent}
    BY RequestAssumption
  <2>4. q.url.scheme = target.scheme
    BY <1>4 DEF Origin
  <2> HIDE DEF v
  <2>5. Port(target) = Port(v)
    <3>1. WithoutDefault(target.scheme, target.port) = WithoutDefault(v.scheme, v.port)
      BY <2>1, <2>2, <2>4
    <3> QED
      BY <1>3, <2>2, <2>3, <2>4, <3>1, SamePorts
  <2>6. Origin(v) = Origin(target)
    BY <2>1, <2>2, <2>4, <2>5 DEF Origin
  <2> QED
    BY <1>4, <2>6 DEF v
<1>6. Serves(c, q.url)
  BY <1>3, <1>4, <1>5 DEF Serves
<1> QED
  BY <1>1, <1>3, <1>4, <1>6

\* A callee that serves the URL accepts the request it was sent.
LEMMA SentIsAccepted ==
  ASSUME NEW q \in HTTPRequests, NEW c \in Middlewares, Serves(c, q.url)
  PROVE  Authenticate(AttachIdentity(Signer, q), c, q) = Absent
<1> DEFINE target == RequestURL(c, Received(q))
           listed == \E h \in c.hosts :
                       h.host.name = target.host.name
                       /\ WithoutDefault(target.scheme, target.port)
                            = WithoutDefault(target.scheme, h.port)
<1>1. q.url \in URLs /\ q.url.port \in Nat \cup {Absent}
  BY DEF HTTPRequests, URLs
<1>2. /\ target.port \in Nat \cup {Absent} /\ Path(target) = Path(q.url)
      /\ c.external # Absent => Origin(target) = Origin(c.external)
      /\ c.external = Absent => Origin(target) = Origin(q.url)
      /\ CheckAuthority(c, Received(q)) <=> (c.hosts # {} => listed)
  BY AuthorityOfCallee
<1> HIDE DEF target, listed
<1>3. Origin(target) = Origin(q.url)
  BY <1>2 DEF Serves
<1>4. NormalizeHTU(q.url) = NormalizeHTU(target)
  BY <1>1, <1>2, <1>3, SameTarget
<1>5. ASSUME c.hosts # {}
      PROVE  listed
  <2>1. PICK h \in c.hosts :
          Origin(q.url) = Origin([q.url EXCEPT !.host = h.host, !.port = h.port])
    BY <1>5 DEF Serves
  <2> DEFINE v == [q.url EXCEPT !.host = h.host, !.port = h.port]
  <2>2. v.scheme = q.url.scheme /\ v.host = h.host /\ v.port = h.port
    BY <1>1 DEF URLs
  <2>3. h.port \in Nat \cup {Absent}
    BY RequestAssumption
  <2>4. Origin(v) = Origin(target)
    BY <1>3, <2>1
  <2> HIDE DEF v
  <2>5. /\ target.scheme = q.url.scheme /\ h.host.name = target.host.name
        /\ Port(v) = Port(target)
    BY <1>3, <2>2, <2>4 DEF Origin
  <2>6. WithoutDefault(target.scheme, target.port) = WithoutDefault(target.scheme, h.port)
    <3>1. WithoutDefault(target.scheme, target.port) = WithoutDefault(v.scheme, v.port)
      BY <1>2, <2>2, <2>3, <2>5, SamePorts
    <3> QED
      BY <2>2, <2>5, <3>1
  <2> QED
    BY <2>5, <2>6 DEF listed
<1>6. CheckAuthority(c, Received(q))
  BY <1>2, <1>5
<1>7. /\ Received(q).method = q.method /\ Received(q).content = q.content
      /\ Received(q).authorization = q.authorization
  BY PartsOfReceived
<1> QED
  BY <1>4, <1>6, <1>7, ChecksOfCallee DEF target

\* A callee gets the proof that was made, and keeps its answer.
ProofInv ==
  /\ signed # None => /\ signed.request \in Sent
                      /\ signed.proof = AttachIdentity(Signer, signed.request)
  /\ accepted # None =>
       /\ signed # None
       /\ accepted.request \in Delivered[signed.request] /\ accepted.config \in Middlewares
       /\ accepted.error = Authenticate(signed.proof, accepted.config, accepted.request)

LEMMA ProofInit == Init => ProofInv
BY DEF Init, ProofInv

LEMMA ProofStep ==
  ASSUME ProofInv, [Next]_vars PROVE ProofInv'
<1>1. CASE Attach
  <2>1. PICK r \in Sent : signed' = [request |-> r, proof |-> AttachIdentity(Signer, r)]
    BY <1>1 DEF Attach
  <2>2. accepted' = accepted /\ signed = None
    BY <1>1 DEF Attach
  <2> QED
    BY <2>1, <2>2 DEF ProofInv
<1>2. CASE Accept
  <2>1. PICK r \in Delivered[signed.request], c \in Middlewares :
          accepted' = [request |-> r, config |-> c,
                       error |-> Authenticate(signed.proof, c, r)]
    BY <1>2 DEF Accept
  <2>2. signed' = signed /\ signed # None
    BY <1>2 DEF Accept
  <2> QED
    BY <2>1, <2>2 DEF ProofInv
<1>3. CASE \/ CheckReceipt \/ CheckNote \/ CheckCovers \/ CheckToken \/ CacheToken
           \/ GetToken \/ InvalidateToken \/ CacheReceipt \/ GetReceipt
           \/ InvalidateReceipt \/ CheckPeer \/ Tick \/ UNCHANGED vars
  <2>1. signed' = signed /\ accepted' = accepted
    BY <1>3 DEF CheckReceipt, CheckNote, CheckCovers, CheckToken, CacheToken, GetToken,
                InvalidateToken, CacheReceipt, GetReceipt, InvalidateReceipt, CheckPeer, Tick,
                vars, proving
  <2> QED
    BY <2>1 DEF ProofInv
<1> QED
  BY <1>1, <1>2, <1>3 DEF Next

LEMMA ProofInvariant == Spec => []ProofInv
BY ProofInit, ProofStep, PTL DEF Spec

\* pop/proof.go:253-261: whatever the spelling of its URL, a request that arrives
\* as it was sent is accepted by every callee that is configured for its origin.
THEOREM SentVerifies == Spec => []SignedRequestVerifies
<1>1. ASSUME ProofInv, accepted # None, accepted.request = signed.request,
             Serves(accepted.config, signed.request.url)
      PROVE  accepted.error = Absent
  <2>1. /\ signed.request \in HTTPRequests /\ accepted.config \in Middlewares
        /\ accepted.error = Authenticate(AttachIdentity(Signer, signed.request),
                                         accepted.config, signed.request)
    BY <1>1, RequestAssumption DEF ProofInv
  <2> QED
    BY <1>1, <2>1, SentIsAccepted
<1>2. ProofInv => SignedRequestVerifies
  BY <1>1 DEF SignedRequestVerifies
<1> QED
  BY <1>2, ProofInvariant, PTL

\* pop/http.go:276-285 and pop/verify.go:241-276: for any requests, spellings and
\* configurations, an accepted proof was made for the method, target, access token
\* and content of the request that came, and by a callee that serves its origin.
THEOREM ProofBinds == Spec => []AcceptedIsBound
<1>1. ASSUME ProofInv, accepted # None, accepted.error = Absent
      PROVE  AcceptedIsBound
  <2>1. /\ signed.request \in HTTPRequests /\ accepted.request \in HTTPRequests
        /\ accepted.config \in Middlewares
        /\ Authenticate(AttachIdentity(Signer, signed.request),
                        accepted.config, accepted.request) = Absent
    BY <1>1, RequestAssumption DEF ProofInv
  <2> QED
    BY <2>1, AcceptedBinds DEF AcceptedIsBound
<1>2. ProofInv => AcceptedIsBound
  BY <1>1 DEF AcceptedIsBound
<1> QED
  BY <1>2, ProofInvariant, PTL

-----------------------------------------------------------------------------
(* The signature lines of a note.                                          *)

SeenAfter(n, keys, g) ==
  [k \in 0..Len(n.lines) |-> IF k = 0 THEN NothingSeen
                             ELSE ExamineLine(g[k - 1], n.lines[k], n.body, keys)]

LEMMA SeenIsDefined ==
  ASSUME NEW n, NEW keys, Len(n.lines) \in Nat
  PROVE  SeenLines(n, keys) = SeenAfter(n, keys, SeenLines(n, keys))
<1> DEFINE last == Len(n.lines)
           After(g) == SeenAfter(n, keys, g)
           Good(m) == \E g : \A k \in 0..m : g[k] = After(g)[k]
           Bad == {m \in 0..last : ~Good(m)}
<1>1. last \in Nat
  OBVIOUS
<1>2. \A g : After(g)[0] = NothingSeen
  BY <1>1 DEF SeenAfter
<1>3. \A g : \A k \in 1..last : After(g)[k] = ExamineLine(g[k - 1], n.lines[k], n.body, keys)
  BY <1>1 DEF SeenAfter
<1> HIDE DEF last, After
<1>4. ASSUME Bad # {} PROVE FALSE
  <2>1. PICK m \in Bad : \A x \in Bad : m <= x
    <3>1. Bad \in SUBSET Nat
      BY <1>1
    <3> HIDE DEF Bad
    <3> QED
      BY <1>4, <3>1, LeastExists
  <2>2. m \in Nat /\ m <= last /\ ~Good(m)
    BY <1>1, <2>1
  <2>3. PICK g : \A k \in 0..(m - 1) : g[k] = After(g)[k]
    <3>1. CASE m = 0
      BY <3>1
    <3>2. CASE m # 0
      <4>1. m - 1 \in 0..last /\ m - 1 \notin Bad
        <5>1. m - 1 \in 0..last /\ ~(m <= m - 1)
          BY <1>1, <2>2, <3>2
        <5> HIDE DEF Bad
        <5> QED
          BY <2>1, <5>1
      <4> QED
        BY <4>1
    <3> QED
      BY <3>1, <3>2
  <2> DEFINE h == After(g)
  <2>4. ASSUME NEW k \in 0..m PROVE h[k] = After(h)[k]
    <3>1. CASE k = 0
      BY <1>2, <3>1
    <3>2. CASE k # 0
      <4>1. k \in 1..last /\ k - 1 \in 0..(m - 1)
        BY <1>1, <2>2, <2>4, <3>2
      <4>2. g[k - 1] = h[k - 1]
        BY <2>3, <4>1
      <4> QED
        BY <1>3, <4>1, <4>2
    <3> QED
      BY <3>1, <3>2
  <2> QED
    BY <2>2, <2>4
<1>5. PICK g : \A k \in 0..last : g[k] = After(g)[k]
  BY <1>1, <1>4
<1> DEFINE h == After(g)
<1>6. \A k \in 0..last : h[k] = After(h)[k]
  <2>1. ASSUME NEW k \in 0..last PROVE h[k] = After(h)[k]
    <3>1. CASE k = 0
      BY <1>2, <3>1
    <3>2. CASE k # 0
      <4>1. k \in 1..last /\ k - 1 \in 0..last
        BY <1>1, <3>2
      <4> QED
        BY <1>3, <1>5, <4>1
    <3> QED
      BY <3>1, <3>2
  <2> QED
    BY <2>1
<1>7. h = After(h)
  BY <1>6 DEF After, SeenAfter, last
<1>8. \E f : f = SeenAfter(n, keys, f)
  BY <1>7 DEF After
<1> QED
  BY <1>8, Zenon DEF SeenLines, SeenAfter

LEMMA SeenSteps ==
  ASSUME NEW n, NEW keys, Len(n.lines) \in Nat
  PROVE  LET f == SeenLines(n, keys)
         IN  /\ f[0] = NothingSeen
             /\ \A k \in 1..Len(n.lines) :
                  f[k] = ExamineLine(f[k - 1], n.lines[k], n.body, keys)
<1> DEFINE f == SeenLines(n, keys)
<1>1. f = SeenAfter(n, keys, f)
  BY SeenIsDefined
<1> HIDE DEF f
<1>2. \A k \in 0..Len(n.lines) : f[k] = SeenAfter(n, keys, f)[k]
  BY <1>1
<1> DEFINE last == Len(n.lines)
           line(k) == n.lines[k]
<1>3. last \in Nat /\ SeenAfter(n, keys, f)
        = [k \in 0..last |-> IF k = 0 THEN NothingSeen
                             ELSE ExamineLine(f[k - 1], line(k), n.body, keys)]
  BY DEF SeenAfter
<1> HIDE DEF last, line
<1>4. \A k \in 0..last :
        f[k] = IF k = 0 THEN NothingSeen ELSE ExamineLine(f[k - 1], line(k), n.body, keys)
  BY <1>2, <1>3 DEF last
<1>5. /\ f[0] = NothingSeen
      /\ \A k \in 1..last : f[k] = ExamineLine(f[k - 1], line(k), n.body, keys)
  BY <1>3, <1>4
<1> QED
  BY <1>5 DEF f, last, line

\* What a line of a note shows under the trusted keys: it makes the note refused,
\* or it is a signature of the log under its key and name.  Other lines do nothing.
RefusedLine(line, body, keys) ==
  /\ line.kid \in DOMAIN keys
  /\ IF VerifyCheckpointSignature(keys[line.kid].key, body, line.sig)
     THEN ~BindCheckpointSigner(body.origin, line.name, keys[line.kid])
     ELSE line.sig.form # "JWS"

SignedLine(line, body, keys) ==
  /\ line.kid \in DOMAIN keys
  /\ VerifyCheckpointSignature(keys[line.kid].key, body, line.sig)
  /\ BindCheckpointSigner(body.origin, line.name, keys[line.kid])

\* A state of the examination.
IsSeen(seen) ==
  seen = [unknown |-> seen.unknown, keyID |-> seen.keyID, envelope |-> seen.envelope,
          error |-> seen.error]

LEMMA LineExamined ==
  ASSUME NEW seen, IsSeen(seen), NEW line, NEW body, NEW keys, None \notin DOMAIN keys
  PROVE  LET after == ExamineLine(seen, line, body, keys)
         IN  /\ IsSeen(after)
             /\ after.error # None <=> (seen.error # None \/ RefusedLine(line, body, keys))
             /\ after.error = None =>
                  (after.keyID # None <=> (seen.keyID # None \/ SignedLine(line, body, keys)))
<1> DEFINE trusted == keys[line.kid]
           verifies == VerifyCheckpointSignature(trusted.key, body, line.sig)
           binds == BindCheckpointSigner(body.origin, line.name, trusted)
           after == ExamineLine(seen, line, body, keys)
           with(u, k, v, e) == [unknown |-> u, keyID |-> k, envelope |-> v, error |-> e]
<1>1. "signatureInvalid" # None /\ "issuerMismatch" # None
  BY NoteErrorAssumption
<1>2. seen = with(seen.unknown, seen.keyID, seen.envelope, seen.error)
  BY DEF IsSeen
<1>3. CASE seen.error # None
  <2>1. after = seen
    BY <1>3 DEF ExamineLine
  <2> QED
    BY <1>3, <2>1
<1>4. CASE seen.error = None /\ line.kid \notin DOMAIN keys
  <2>1. \E u : after = with(u, seen.keyID, seen.envelope, seen.error)
    <3>1. after = [seen EXCEPT !.unknown = IF @ = None THEN line.kid ELSE @]
      BY <1>4 DEF ExamineLine
    <3> QED
      BY <1>2, <3>1
  <2>2. IsSeen(after) /\ after.keyID = seen.keyID /\ after.error = seen.error
    BY <2>1 DEF IsSeen
  <2> QED
    BY <1>4, <2>2 DEF RefusedLine, SignedLine
<1>5. CASE seen.error = None /\ line.kid \in DOMAIN keys /\ ~verifies /\ line.sig.form = "JWS"
  <2>1. after = with(seen.unknown, seen.keyID, TRUE, seen.error)
    <3>1. after = [seen EXCEPT !.envelope = TRUE]
      BY <1>5 DEF ExamineLine
    <3> QED
      BY <1>2, <3>1
  <2>2. IsSeen(after) /\ after.keyID = seen.keyID /\ after.error = seen.error
    BY <2>1 DEF IsSeen
  <2> QED
    BY <1>5, <2>2 DEF RefusedLine, SignedLine
<1>6. CASE seen.error = None /\ line.kid \in DOMAIN keys /\ ~verifies /\ line.sig.form # "JWS"
  <2>1. after = with(seen.unknown, seen.keyID, seen.envelope, "signatureInvalid")
    <3>1. after = [seen EXCEPT !.error = "signatureInvalid"]
      BY <1>6 DEF ExamineLine
    <3> QED
      BY <1>2, <3>1
  <2>2. IsSeen(after) /\ after.error # None
    BY <1>1, <2>1 DEF IsSeen
  <2> QED
    BY <1>6, <2>2 DEF RefusedLine
<1>7. CASE seen.error = None /\ line.kid \in DOMAIN keys /\ verifies /\ ~binds
  <2>1. after = with(seen.unknown, seen.keyID, seen.envelope, "issuerMismatch")
    <3>1. after = [seen EXCEPT !.error = "issuerMismatch"]
      BY <1>7 DEF ExamineLine
    <3> QED
      BY <1>2, <3>1
  <2>2. IsSeen(after) /\ after.error # None
    BY <1>1, <2>1 DEF IsSeen
  <2> QED
    BY <1>7, <2>2 DEF RefusedLine
<1>8. CASE seen.error = None /\ line.kid \in DOMAIN keys /\ verifies /\ binds
  <2>1. after = with(seen.unknown, IF seen.keyID = None THEN line.kid ELSE seen.keyID,
                     seen.envelope, seen.error)
    <3>1. after = [seen EXCEPT !.keyID = IF @ = None THEN line.kid ELSE @]
      BY <1>8 DEF ExamineLine
    <3> QED
      BY <1>2, <3>1
  <2>2. IsSeen(after) /\ after.keyID # None /\ after.error = seen.error
    BY <1>8, <2>1 DEF IsSeen
  <2> QED
    BY <1>8, <2>2 DEF RefusedLine, SignedLine
<1> QED
  BY <1>3, <1>4, <1>5, <1>6, <1>7, <1>8

\* A line of one kind is among those of a note.
SomeRefused(n, keys) == \E j \in DOMAIN n.lines : RefusedLine(n.lines[j], n.body, keys)
SomeSigned(n, keys) == \E j \in DOMAIN n.lines : SignedLine(n.lines[j], n.body, keys)

\* What the lines up to one amount to.
Amounts(n, keys, k) ==
  LET seen == SeenLines(n, keys)[k]
  IN  /\ IsSeen(seen)
      /\ seen.error # None <=> \E j \in 1..k : RefusedLine(n.lines[j], n.body, keys)
      /\ seen.error = None =>
           (seen.keyID # None <=> \E j \in 1..k : SignedLine(n.lines[j], n.body, keys))

LEMMA LinesAmount ==
  ASSUME NEW n, NEW keys, None \notin DOMAIN keys, Len(n.lines) \in Nat
  PROVE  \A k \in 0..Len(n.lines) : Amounts(n, keys, k)
<1> DEFINE last == Len(n.lines)
           f == SeenLines(n, keys)
           refused(j) == RefusedLine(n.lines[j], n.body, keys)
           good(j) == SignedLine(n.lines[j], n.body, keys)
           Bad == {k \in 0..last : ~Amounts(n, keys, k)}
<1>1. last \in Nat
  OBVIOUS
<1>2. f[0] = NothingSeen /\ \A k \in 1..last : f[k] = ExamineLine(f[k - 1], n.lines[k], n.body, keys)
  BY SeenSteps
<1>3. \A k : Amounts(n, keys, k) <=>
        /\ IsSeen(f[k])
        /\ f[k].error # None <=> \E j \in 1..k : refused(j)
        /\ f[k].error = None => (f[k].keyID # None <=> \E j \in 1..k : good(j))
  BY DEF Amounts
<1>4. \A k \in 1..last : IsSeen(f[k - 1]) =>
        /\ IsSeen(f[k])
        /\ f[k].error # None <=> (f[k - 1].error # None \/ refused(k))
        /\ f[k].error = None => (f[k].keyID # None <=> (f[k - 1].keyID # None \/ good(k)))
  BY <1>2, LineExamined
<1> HIDE DEF last, f, refused, good
<1>5. Amounts(n, keys, 0)
  <2>1. IsSeen(f[0]) /\ f[0].error = None /\ f[0].keyID = None
    BY <1>2 DEF NothingSeen, IsSeen
  <2> QED
    BY <1>3, <2>1
<1>6. ASSUME Bad # {} PROVE FALSE
  <2>1. PICK k \in Bad : \A x \in Bad : k <= x
    <3>1. Bad \in SUBSET Nat
      BY <1>1
    <3> HIDE DEF Bad
    <3> QED
      BY <1>6, <3>1, LeastExists
  <2>2. k \in 1..last /\ k - 1 \in 0..last /\ ~Amounts(n, keys, k) /\ ~(k <= k - 1)
    BY <1>1, <1>5, <2>1
  <2>3. k - 1 \notin Bad
    <3> HIDE DEF Bad
    <3> QED
      BY <2>1, <2>2
  <2>4. Amounts(n, keys, k - 1)
    BY <2>2, <2>3
  <2>5. \A j : j \in 1..k <=> (j \in 1..(k - 1) \/ j = k)
    BY <1>1, <2>2
  <2>6. /\ (\E j \in 1..k : refused(j)) <=> ((\E j \in 1..(k - 1) : refused(j)) \/ refused(k))
        /\ (\E j \in 1..k : good(j)) <=> ((\E j \in 1..(k - 1) : good(j)) \/ good(k))
    BY <2>5
  <2>7. /\ IsSeen(f[k - 1])
        /\ f[k - 1].error # None <=> \E j \in 1..(k - 1) : refused(j)
        /\ f[k - 1].error = None =>
             (f[k - 1].keyID # None <=> \E j \in 1..(k - 1) : good(j))
    BY <1>3, <2>4
  <2>8. /\ IsSeen(f[k])
        /\ f[k].error # None <=> (f[k - 1].error # None \/ refused(k))
        /\ f[k].error = None => (f[k].keyID # None <=> (f[k - 1].keyID # None \/ good(k)))
    BY <1>4, <2>2, <2>7
  <2>9. Amounts(n, keys, k)
    BY <1>3, <2>6, <2>7, <2>8
  <2> QED
    BY <2>2, <2>9
<1> QED
  BY <1>6 DEF last

\* Which notes are accepted.
LEMMA NoteAccepted ==
  ASSUME NEW n, NEW keys, None \notin DOMAIN keys, NEW S, n.lines \in Seq(S)
  PROVE  VerifyCheckpoint(n, keys).error = None <=>
           /\ FirstFailed(NoteChecks, n.defects) = None
           /\ ~SomeRefused(n, keys) /\ SomeSigned(n, keys)
<1> DEFINE seen == SeenLines(n, keys)[Len(n.lines)]
           end == VerifyCheckpointSignatures(n, keys)
           malformed == FirstFailed(NoteChecks, n.defects)
<1>1. Len(n.lines) \in Nat /\ DOMAIN n.lines = 1..Len(n.lines)
  OBVIOUS
<1>2. /\ IsSeen(seen)
      /\ seen.error # None <=> SomeRefused(n, keys)
      /\ seen.error = None => (seen.keyID # None <=> SomeSigned(n, keys))
  <2>1. Amounts(n, keys, Len(n.lines))
    BY <1>1, LinesAmount
  <2> QED
    BY <1>1, <2>1 DEF Amounts, SomeRefused, SomeSigned
<1>3. end = IF seen.error # None \/ seen.keyID # None THEN seen
            ELSE [seen EXCEPT !.error = IF seen.unknown # None THEN "unknownKey"
                                        ELSE "signatureInvalid"]
  BY DEF VerifyCheckpointSignatures
<1>4. "unknownKey" # None /\ "signatureInvalid" # None
  BY NoteErrorAssumption
<1> HIDE DEF seen
<1>5. end.error = None <=> ~SomeRefused(n, keys) /\ SomeSigned(n, keys)
  <2>1. CASE seen.error # None \/ seen.keyID # None
    BY <1>2, <1>3, <2>1
  <2>2. CASE seen.error = None /\ seen.keyID = None
    <3>1. end.error # None
      BY <1>2, <1>3, <1>4, <2>2 DEF IsSeen
    <3> QED
      BY <1>2, <2>2, <3>1
  <2> QED
    BY <2>1, <2>2
<1>6. VerifyCheckpoint(n, keys).error = IF malformed # None THEN malformed ELSE end.error
  BY DEF VerifyCheckpoint
<1> HIDE DEF end, malformed
<1> QED
  BY <1>5, <1>6 DEF malformed

\* Lines in another order are of the same kinds.
LEMMA LinesReordered ==
  ASSUME NEW n, NEW keys, None \notin DOMAIN keys, n.lines \in Seq(Range(n.lines)),
         n = [body |-> n.body, lines |-> n.lines, defects |-> n.defects],
         NEW p \in Bijection(DOMAIN n.lines, DOMAIN n.lines)
  PROVE  LET other == [n EXCEPT !.lines = [i \in DOMAIN @ |-> @[p[i]]]]
         IN  VerifyCheckpoint(other, keys).error = None
               <=> VerifyCheckpoint(n, keys).error = None
<1> DEFINE D == DOMAIN n.lines
           lines == [i \in D |-> n.lines[p[i]]]
           other == [n EXCEPT !.lines = [i \in DOMAIN @ |-> @[p[i]]]]
<1>1. D = 1..Len(n.lines) /\ Len(n.lines) \in Nat
  OBVIOUS
<1>2. p \in [D -> D] /\ \A j \in D : \E i \in D : p[i] = j
  BY DEF Bijection, Surjection
<1>3. other = [body |-> n.body, lines |-> lines, defects |-> n.defects]
  <2> DEFINE body == n.body
             defects == n.defects
             old == n.lines
  <2>1. n = [body |-> body, lines |-> old, defects |-> defects]
    OBVIOUS
  <2> QED
    BY <2>1
<1>4. DOMAIN lines = D /\ \A i \in D : lines[i] = n.lines[p[i]]
  OBVIOUS
<1>5. lines \in Seq(Range(n.lines))
  <2>1. \A i \in 1..Len(n.lines) : n.lines[p[i]] \in Range(n.lines)
    BY <1>1, <1>2 DEF Range
  <2> QED
    BY <1>1, <2>1
<1> HIDE DEF lines, other
<1>6. other.lines = lines /\ other.body = n.body /\ other.defects = n.defects
  BY <1>3
<1>7. SomeRefused(other, keys) <=> SomeRefused(n, keys)
  BY <1>2, <1>4, <1>6 DEF SomeRefused
<1>8. SomeSigned(other, keys) <=> SomeSigned(n, keys)
  BY <1>2, <1>4, <1>6 DEF SomeSigned
<1>9. VerifyCheckpoint(other, keys).error = None <=>
        /\ FirstFailed(NoteChecks, other.defects) = None
        /\ ~SomeRefused(other, keys) /\ SomeSigned(other, keys)
  <2>1. other.lines \in Seq(Range(n.lines))
    BY <1>5, <1>6
  <2> QED
    BY <2>1, NoteAccepted
<1>10. VerifyCheckpoint(n, keys).error = None <=>
        /\ FirstFailed(NoteChecks, n.defects) = None
        /\ ~SomeRefused(n, keys) /\ SomeSigned(n, keys)
  BY NoteAccepted
<1>11. VerifyCheckpoint(other, keys).error = None <=> VerifyCheckpoint(n, keys).error = None
  BY <1>6, <1>7, <1>8, <1>9, <1>10
<1> QED
  BY <1>11 DEF other

-----------------------------------------------------------------------------
(* A peer that relates receipts to heads of the log.                       *)

InclusionInv ==
  /\ task = "inclusion" /\ receipt # None =>
       /\ receipt.message \in ReceiptMessages
       /\ receipt.result = VerifyReceipt(receipt.message, Lookup.keys)
  /\ note # None => /\ task \in {"inclusion", "note"} /\ note \in Notes[task]
                    /\ checkpoint = Verified(VerifyCheckpoint(note, Lookup.keys))
  /\ note = None => checkpoint = None
  /\ covered # None => /\ task = "inclusion" /\ receipt # None /\ checkpoint # None
                       /\ receipt.result.error = None
                       /\ covered = Covers(checkpoint, receipt.result)

LEMMA InclusionInit == Init => InclusionInv
BY DEF Init, InclusionInv

LEMMA InclusionStep == InclusionInv /\ [Next]_vars => InclusionInv'
<1> SUFFICES ASSUME InclusionInv, [Next]_vars PROVE InclusionInv'
  OBVIOUS
<1>1. CASE CheckReceipt
  <2>1. PICK m \in ReceiptMessages :
          receipt' = [message |-> m, result |-> VerifyReceipt(m, Lookup.keys)]
    BY <1>1 DEF CheckReceipt
  <2>2. covered = None
    BY <1>1 DEF CheckReceipt, InclusionInv
  <2>3. /\ task' = task /\ note' = note /\ checkpoint' = checkpoint /\ covered' = covered
    BY <1>1 DEF CheckReceipt
  <2>4. receipt'.message = m /\ receipt'.result = VerifyReceipt(m, Lookup.keys)
    BY <2>1
  <2> QED
    BY <2>2, <2>3, <2>4 DEF InclusionInv
<1>2. CASE CheckNote
  <2>1. PICK n \in Notes[task] : /\ note' = n
                                 /\ checkpoint' = Verified(VerifyCheckpoint(n, Lookup.keys))
    BY <1>2 DEF CheckNote
  <2>2. covered = None /\ task \in {"inclusion", "note"}
    BY <1>2 DEF CheckNote, InclusionInv
  <2>3. task' = task /\ receipt' = receipt /\ covered' = covered
    BY <1>2 DEF CheckNote
  <2>4. n # None
    BY <2>1, <2>2, NoneAssumption
  <2> QED
    BY <2>1, <2>2, <2>3, <2>4 DEF InclusionInv
<1>3. CASE CheckCovers
  <2>1. /\ task = "inclusion" /\ receipt # None /\ checkpoint # None
        /\ receipt.result.error = None /\ covered' = Covers(checkpoint, receipt.result)
        /\ task' = task /\ receipt' = receipt /\ note' = note /\ checkpoint' = checkpoint
    BY <1>3 DEF CheckCovers
  <2> QED
    BY <2>1 DEF InclusionInv
<1>4. CASE GetReceipt
  <2>1. /\ task = "receipts" /\ task' = task /\ note' = note /\ checkpoint' = checkpoint
        /\ covered' = covered
    BY <1>4 DEF GetReceipt
  <2> QED
    BY <2>1 DEF InclusionInv
<1>5. CASE \/ CheckToken \/ CacheToken \/ GetToken \/ InvalidateToken \/ CacheReceipt
           \/ InvalidateReceipt \/ CheckPeer \/ Attach \/ Accept \/ Tick \/ UNCHANGED vars
  <2>1. task' = task /\ receipt' = receipt /\ note' = note /\ checkpoint' = checkpoint
        /\ covered' = covered
    BY <1>5 DEF CheckToken, CacheToken, GetToken, InvalidateToken, CacheReceipt,
                InvalidateReceipt, CheckPeer, Attach, Accept, Tick, vars, inclusion
  <2> QED
    BY <2>1 DEF InclusionInv
<1> QED
  BY <1>1, <1>2, <1>3, <1>4, <1>5 DEF Next

LEMMA InclusionInvariant == Spec => []InclusionInv
BY InclusionInit, InclusionStep, PTL DEF Spec

\* checkpoint.go:157-160: for any note and trusted keys, whether it is accepted does
\* not depend on the order of its lines.
THEOREM OrderIsIrrelevant == Spec => []OrderIndependent
<1>1. ASSUME InclusionInv, note # None,
             NEW p \in Bijection(DOMAIN note.lines, DOMAIN note.lines)
      PROVE  LET other == [note EXCEPT !.lines = [i \in DOMAIN @ |-> @[p[i]]]]
             IN  (VerifyCheckpoint(other, Lookup.keys).error = None) <=> (checkpoint # None)
  <2>1. /\ task \in {"inclusion", "note"} /\ note \in Notes[task]
        /\ checkpoint = Verified(VerifyCheckpoint(note, Lookup.keys))
    BY <1>1 DEF InclusionInv
  <2>2. /\ note = [body |-> note.body, lines |-> note.lines, defects |-> note.defects]
        /\ note.lines \in Seq(Range(note.lines))
    BY <2>1, InputAssumption
  <2>3. VerifyCheckpoint(note, Lookup.keys) # None /\ None \notin DOMAIN Lookup.keys
    BY <2>1, NoneAssumption
  <2>4. checkpoint # None <=> VerifyCheckpoint(note, Lookup.keys).error = None
    BY <2>1, <2>3 DEF Verified
  <2>5. LET other == [note EXCEPT !.lines = [i \in DOMAIN @ |-> @[p[i]]]]
        IN  VerifyCheckpoint(other, Lookup.keys).error = None
              <=> VerifyCheckpoint(note, Lookup.keys).error = None
    BY <1>1, <2>2, <2>3, LinesReordered
  <2> QED
    BY <2>4, <2>5
<1>2. InclusionInv => OrderIndependent
  BY <1>1 DEF OrderIndependent
<1> QED
  BY <1>2, InclusionInvariant, PTL

-----------------------------------------------------------------------------
(* The log and its heads.                                                  *)

LEMMA FirstEvents ==
  ASSUME NEW n \in 1..Len(Tree)
  PROVE  /\ n \in 1..MaxSize /\ Len(First(n)) = n
         /\ \A i \in 0..(n - 1) : First(n)[i + 1] = Tree[i + 1]
<1>1. Len(Tree) \in Nat /\ n \in 1..MaxSize
  BY TreeAssumption, SizeAssumption
<1>2. Len(First(n)) = n /\ \A i \in 1..n : First(n)[i] = Tree[i]
  BY <1>1, TreeAssumption DEF First
<1> QED
  BY <1>1, <1>2

\* A head that is accepted was signed by the log.
LEMMA HeadIsOfLog ==
  ASSUME NEW n \in Notes["inclusion"], VerifyCheckpoint(n, Lookup.keys).error = None
  PROVE  \E size \in 1..Len(Tree) : n.body = SignedHead(size).body
<1>1. n.lines \in Seq(Range(n.lines)) /\ None \notin DOMAIN Lookup.keys
  BY InputAssumption, NoneAssumption
<1>2. SomeSigned(n, Lookup.keys)
  BY <1>1, NoteAccepted
<1>3. PICK j \in DOMAIN n.lines : SignedLine(n.lines[j], n.body, Lookup.keys)
  BY <1>2 DEF SomeSigned
<1> DEFINE trusted == Lookup.keys[n.lines[j].kid]
<1>4. /\ n.lines[j].kid \in DOMAIN Lookup.keys /\ n.body.origin = trusted.name
      /\ VerifyCheckpointSignature(trusted.key, n.body, n.lines[j].sig)
  BY <1>3 DEF SignedLine, BindCheckpointSigner
<1>5. trusted.name = LogName
  BY <1>4, HonestHeads
<1>6. trusted.key = LogKey
  BY <1>4, <1>5, LogAssumption
<1>7. VerifyCheckpointSignature(LogKey, n.body, n.lines[j].sig)
  BY <1>4, <1>6
<1> QED
  BY <1>7, HonestHeads

LEMMA LastReceiptCheck ==
  \E i \in 1..Len(ReceiptChecks) : ReceiptChecks[i] = "inclusionPath"
<1> DEFINE some == CoseChecks \o <<"vds", "unknownKey", "signature", "issuer">> \o ProofChecks
           last == <<"inclusionPath">>
<1>1. some \in Seq(CheckNames) /\ last \in Seq(CheckNames)
  <2>1. CoseChecks \in Seq(CheckNames) /\ ProofChecks \in Seq(CheckNames)
    BY DEF CoseChecks, ProofChecks, CheckNames
  <2>2. /\ <<"vds", "unknownKey", "signature", "issuer">> \in Seq(CheckNames)
        /\ last \in Seq(CheckNames)
    BY DEF CheckNames
  <2> QED
    BY <2>1, <2>2, ConcatProperties
<1>2. ReceiptChecks = some \o last
  BY DEF ReceiptChecks
<1>3. Len(last) = 1 /\ last[1] = "inclusionPath" /\ Len(some) \in Nat
  BY <1>1
<1> HIDE DEF some, last
<1>4. /\ Len(ReceiptChecks) = Len(some) + Len(last)
      /\ \A i \in 1..(Len(some) + Len(last)) :
           ReceiptChecks[i] = IF i <= Len(some) THEN some[i] ELSE last[i - Len(some)]
  BY <1>1, <1>2, ConcatProperties
<1>5. ReceiptChecks[Len(some) + 1] = last[1]
  <2>1. /\ Len(some) + 1 \in 1..(Len(some) + Len(last)) /\ ~(Len(some) + 1 <= Len(some))
        /\ Len(some) + 1 - Len(some) = 1
    BY <1>3
  <2> QED
    BY <1>4, <2>1
<1> QED
  BY <1>3, <1>4, <1>5

\* A receipt that verifies has the root that its path leads to, and an index in
\* the tree it claims.
LEMMA ReceiptHasRoot ==
  ASSUME NEW m, NEW keys, VerifyReceipt(m, keys).error = None,
         m.proof.treeSize \in Nat, m.proof.leafIndex \in Nat
  PROVE  LET r == VerifyReceipt(m, keys)
         IN  /\ r.treeSize = m.proof.treeSize /\ r.leafIndex = m.proof.leafIndex
             /\ r.event = m.payload
             /\ r.root = WalkInclusionPath(r.event, r.leafIndex, r.treeSize, m.proof.path)
             /\ r.leafIndex < r.treeSize
<1> DEFINE r == VerifyReceipt(m, keys)
           root == WalkInclusionPath(m.payload, m.proof.leafIndex, m.proof.treeSize,
                                     m.proof.path)
<1>1. /\ r.treeSize = m.proof.treeSize /\ r.leafIndex = m.proof.leafIndex
      /\ r.event = m.payload /\ r.root = root
  BY DEF VerifyReceipt
<1>2. PICK D : /\ r.error = FirstFailed(ReceiptChecks, D)
               /\ Failing("inclusionPath", root = NoRoot) \subseteq D
  <2>1. \E D : /\ r.error = FirstFailed(ReceiptChecks, D)
               /\ Failing("inclusionPath", root = NoRoot) \subseteq D
    <3> DEFINE D == m.defects
                 \cup Failing("vds", m.protected.vds # 1)
                 \cup Failing("unknownKey", m.protected.kid \notin DOMAIN keys)
                 \cup Failing("signature", ~VerifyECDSA(m, keys))
                 \cup Failing("issuer", ~VerifyIssuerBinding(m, keys))
                 \cup Failing("inclusionPath", root = NoRoot)
    <3>1. r.error = FirstFailed(ReceiptChecks, D)
      BY DEF VerifyReceipt
    <3>2. Failing("inclusionPath", root = NoRoot) \subseteq D
      OBVIOUS
    <3> HIDE DEF D
    <3> QED
      BY <3>1, <3>2
  <2> QED
    BY <2>1
<1>3. \E i \in 1..Len(ReceiptChecks) : ReceiptChecks[i] = "inclusionPath"
  BY LastReceiptCheck
<1>4. root # NoRoot
  <2>1. None \notin Range(ReceiptChecks)
    BY ErrorAssumption
  <2>2. \A i \in 1..Len(ReceiptChecks) : ReceiptChecks[i] \notin D
    BY <1>2, <2>1, ChecksOfReceipts, FirstOfFailed
  <2>3. "inclusionPath" \notin D
    BY <1>3, <2>2
  <2> QED
    BY <1>2, <2>3 DEF Failing
<1>5. m.proof.leafIndex < m.proof.treeSize
  BY <1>4 DEF WalkInclusionPath
<1> QED
  BY <1>1, <1>5

\* checkpoint.go:58-60: for any tree, any proof that comes with an event and any
\* head of the log that it is held against, what is covered is in the tree.
THEOREM CoveredEventsAreIncluded == Spec => []CoveredIsIncluded
<1>1. ASSUME InclusionInv, covered = TRUE PROVE CoveredIsIncluded
  <2> DEFINE r == receipt.result
             m == receipt.message
  <2>1. /\ task = "inclusion" /\ receipt # None /\ checkpoint # None
        /\ r.error = None /\ Covers(checkpoint, r)
    BY <1>1, NoneAssumption DEF InclusionInv
  <2>2. m \in ReceiptMessages /\ r = VerifyReceipt(m, Lookup.keys)
    BY <1>1, <2>1 DEF InclusionInv
  <2>3. m.proof.treeSize \in Nat /\ m.proof.leafIndex \in Nat /\ Len(m.proof.path) \in Nat
    BY <2>2, InputAssumption
  <2>4. /\ r.treeSize = m.proof.treeSize /\ r.leafIndex = m.proof.leafIndex
        /\ r.root = WalkInclusionPath(r.event, r.leafIndex, r.treeSize, m.proof.path)
        /\ r.leafIndex < r.treeSize
    BY <2>1, <2>2, <2>3, ReceiptHasRoot
  <2>5. /\ note # None /\ note \in Notes["inclusion"]
        /\ checkpoint = Verified(VerifyCheckpoint(note, Lookup.keys))
    BY <1>1, <2>1 DEF InclusionInv
  <2> DEFINE head == VerifyCheckpoint(note, Lookup.keys)
  <2>6. checkpoint = head /\ head.error = None
    BY <2>1, <2>5 DEF Verified
  <2>7. PICK size \in 1..Len(Tree) : note.body = SignedHead(size).body
    BY <2>5, <2>6, HeadIsOfLog
  <2>8. head.size = note.body.size /\ head.root = note.body.root
    BY DEF VerifyCheckpoint
  <2>9. note.body.size = size /\ note.body.root = Root(First(size))
    BY <2>7 DEF SignedHead
  <2>10. r.treeSize = size /\ r.root = Root(First(size))
    <3> HIDE DEF r, head
    <3> QED
      BY <2>1, <2>6, <2>8, <2>9 DEF Covers
  <2>11. /\ size \in 1..MaxSize /\ Len(First(size)) = size
         /\ \A i \in 0..(size - 1) : First(size)[i + 1] = Tree[i + 1]
    BY FirstEvents
  <2>12. size \in Nat /\ Len(Tree) \in Nat /\ size <= Len(Tree)
    BY TreeAssumption
  <2> HIDE DEF r, m, head
  <2>13. r.leafIndex \in 0..(size - 1)
    BY <2>3, <2>4, <2>10, <2>12
  <2>14. r.event = First(size)[r.leafIndex + 1]
    <3>1. WalkInclusionPath(r.event, r.leafIndex, Len(First(size)), m.proof.path)
            = Root(First(size))
      BY <2>4, <2>10, <2>11
    <3> QED
      BY <2>3, <2>11, <2>13, <3>1, WalkIsSound
  <2>15. r.event = Tree[r.leafIndex + 1]
    BY <2>11, <2>13, <2>14
  <2> QED
    BY <2>4, <2>10, <2>12, <2>15 DEF CoveredIsIncluded, r
<1>2. InclusionInv => CoveredIsIncluded
  <2>1. covered # TRUE => CoveredIsIncluded
    BY DEF CoveredIsIncluded
  <2> QED
    BY <1>1, <2>1
<1> QED
  BY <1>2, InclusionInvariant, PTL

\* What the log signs verifies.
LEMMA SignedHeadIsAccepted ==
  ASSUME NEW n
  PROVE  LET head == VerifyCheckpoint(SignedHead(n), Lookup.keys)
         IN  head.error = None /\ head.size = n /\ head.root = Root(First(n))
<1> DEFINE head == SignedHead(n)
           body == [origin |-> LogName, size |-> n, root |-> Root(First(n))]
           line == [name |-> LogName, kid |-> LogKid,
                    sig |-> [by |-> LogKey, over |-> body, form |-> "DER"]]
<1>1. head.body = body /\ head.defects = {} /\ head.lines = <<line>>
  BY DEF SignedHead
<1>2. /\ LogKid \in DOMAIN Lookup.keys /\ Lookup.keys[LogKid].name = LogName
      /\ Lookup.keys[LogKid].key = LogKey
  BY LogAssumption
<1>3. VerifyCheckpointSignature(LogKey, body, line.sig)
  BY DEF VerifyCheckpointSignature
<1>4. BindCheckpointSigner(body.origin, line.name, Lookup.keys[LogKid])
  BY <1>2 DEF BindCheckpointSigner
<1>5. line.kid = LogKid
  OBVIOUS
<1>6. body.size = n /\ body.root = Root(First(n))
  OBVIOUS
<1> HIDE DEF body, line
<1>7. SignedLine(line, body, Lookup.keys) /\ ~RefusedLine(line, body, Lookup.keys)
  BY <1>2, <1>3, <1>4, <1>5 DEF SignedLine, RefusedLine
<1>8. /\ head.lines \in Seq({line}) /\ DOMAIN head.lines = {1} /\ head.lines[1] = line
  BY <1>1
<1> HIDE DEF head
<1>9. SomeSigned(head, Lookup.keys) /\ ~SomeRefused(head, Lookup.keys)
  BY <1>1, <1>7, <1>8 DEF SomeSigned, SomeRefused
<1>10. FirstFailed(NoteChecks, head.defects) = None
  <2>1. NoteChecks \in Seq(Range(NoteChecks)) /\ None \notin Range(NoteChecks)
    BY NoteErrorAssumption DEF NoteChecks, Range
  <2>2. \A i \in 1..Len(NoteChecks) : NoteChecks[i] \notin head.defects
    BY <1>1
  <2> QED
    BY <2>1, <2>2, FirstOfFailed
<1>11. VerifyCheckpoint(head, Lookup.keys).error = None
  BY <1>8, <1>9, <1>10, NoneAssumption, NoteAccepted
<1>12. /\ VerifyCheckpoint(head, Lookup.keys).size = head.body.size
       /\ VerifyCheckpoint(head, Lookup.keys).root = head.body.root
  BY DEF VerifyCheckpoint
<1> QED
  BY <1>1, <1>6, <1>11, <1>12 DEF head

LEMMA IssuedReceiptVerifies ==
  ASSUME NEW m, m \in Issued
  PROVE  LET r == VerifyReceipt(m, Lookup.keys)
             size == m.proof.treeSize
         IN  /\ r.error = None /\ r.treeSize = size
             /\ r.root = Root(First(size)) /\ size \in 1..Len(Tree)
<1>0. PICK n \in 1..Len(Tree) : \E i \in 0..(n - 1) :
        m = Receipt(Tree[i + 1], [treeSize |-> n, leafIndex |-> i,
                                  path |-> InclusionPath(First(n), i)])
  BY DEF Issued
<1>1. PICK i \in 0..(n - 1) :
        m = Receipt(Tree[i + 1], [treeSize |-> n, leafIndex |-> i,
                                  path |-> InclusionPath(First(n), i)])
  BY <1>0
<1> DEFINE event == Tree[i + 1]
           path == InclusionPath(First(n), i)
           protected == [kid |-> LogKid, vds |-> 1, iss |-> LogName]
           sig == [by |-> LogKey, over |-> SigStructure(protected, event)]
           root == WalkInclusionPath(m.payload, m.proof.leafIndex, m.proof.treeSize,
                                     m.proof.path)
<1>2. /\ m.protected = protected /\ m.payload = event /\ m.sig = sig /\ m.defects = {}
      /\ m.proof = [treeSize |-> n, leafIndex |-> i, path |-> path]
  BY <1>1 DEF Receipt
<1>3. m.proof.treeSize = n /\ m.proof.leafIndex = i /\ m.proof.path = path
  BY <1>2
<1>4. /\ n \in 1..MaxSize /\ Len(First(n)) = n /\ First(n)[i + 1] = event
  BY FirstEvents
<1>5. root = Root(First(n)) /\ root # NoRoot
  <2>1. WalkInclusionPath(First(n)[i + 1], i, Len(First(n)), InclusionPath(First(n), i))
          = Root(First(n))
    BY <1>4, IssuedPathLeadsToRoot
  <2>2. Root(First(n)) # NoRoot
    BY <1>4, RootIsOne
  <2>3. root = WalkInclusionPath(First(n)[i + 1], i, Len(First(n)), InclusionPath(First(n), i))
    BY <1>2, <1>3, <1>4
  <2> QED
    BY <2>1, <2>2, <2>3
<1>6. /\ protected.kid = LogKid /\ protected.vds = 1 /\ protected.iss = LogName
      /\ sig.by = LogKey /\ sig.over = SigStructure(protected, event)
  OBVIOUS
<1>7. /\ LogKid \in DOMAIN Lookup.keys /\ Lookup.keys[LogKid].name = LogName
      /\ Lookup.keys[LogKid].key = LogKey
  BY LogAssumption
<1> HIDE DEF protected, sig, event, path
<1>8. VerifyECDSA(m, Lookup.keys) /\ VerifyIssuerBinding(m, Lookup.keys)
  BY <1>2, <1>6, <1>7 DEF VerifyECDSA, VerifyIssuerBinding
<1> DEFINE failing == m.defects
             \cup Failing("vds", m.protected.vds # 1)
             \cup Failing("unknownKey", m.protected.kid \notin DOMAIN Lookup.keys)
             \cup Failing("signature", ~VerifyECDSA(m, Lookup.keys))
             \cup Failing("issuer", ~VerifyIssuerBinding(m, Lookup.keys))
             \cup Failing("inclusionPath", root = NoRoot)
           r == VerifyReceipt(m, Lookup.keys)
<1>9. /\ r.error = FirstFailed(ReceiptChecks, failing) /\ r.root = root
      /\ r.treeSize = m.proof.treeSize
  BY DEF VerifyReceipt
<1>10. failing = {}
  BY <1>2, <1>5, <1>6, <1>7, <1>8 DEF Failing
<1> HIDE DEF failing, r, root
<1>11. FirstFailed(ReceiptChecks, failing) = None
  BY <1>10, ErrorAssumption, ChecksOfReceipts, FirstOfFailed
<1> QED
  BY <1>3, <1>5, <1>9, <1>11 DEF r

\* merkle.go:34-79: for any tree, also one that is not full, the receipt that the
\* log issues for any of its events is accepted, and its head of that size is
\* accepted and covers it.
THEOREM IssuedReceiptsAreCovered == Spec => []IssuedReceiptIsCovered
<1>1. ASSUME InclusionInv, task = "inclusion", receipt # None,
             receipt.message \in Issued
      PROVE  LET size == receipt.message.proof.treeSize
             IN  /\ receipt.result.error = None
                 /\ note = SignedHead(size) => (checkpoint # None /\ covered # FALSE)
  <2> DEFINE size == receipt.message.proof.treeSize
             r == VerifyReceipt(receipt.message, Lookup.keys)
             head == VerifyCheckpoint(SignedHead(size), Lookup.keys)
  <2>1. receipt.result = r
    BY <1>1 DEF InclusionInv
  <2>2. /\ r.error = None /\ r.treeSize = size /\ r.root = Root(First(size))
        /\ size \in 1..Len(Tree)
    BY <1>1, IssuedReceiptVerifies
  <2>3. ASSUME note = SignedHead(size) PROVE checkpoint # None /\ covered # FALSE
    <3>1. head.error = None /\ head.size = size /\ head.root = Root(First(size))
      BY SignedHeadIsAccepted
    <3>2. note # None
      <4>1. ASSUME note = None PROVE FALSE
        BY <2>2, <2>3, <4>1, NoneAssumption
      <4> QED
        BY <4>1
    <3>3. note \in Notes["inclusion"] /\ checkpoint = Verified(head)
      BY <1>1, <2>3, <3>2 DEF InclusionInv
    <3>4. head # None
      BY <2>3, <3>3, NoneAssumption
    <3> HIDE DEF head, r, size
    <3>5. checkpoint = head
      BY <3>1, <3>3 DEF Verified
    <3>6. Covers(checkpoint, receipt.result)
      BY <2>1, <2>2, <3>1, <3>5 DEF Covers
    <3>7. covered # FALSE
      BY <1>1, <3>6, NoneAssumption DEF InclusionInv
    <3> QED
      BY <3>4, <3>5, <3>7
  <2> HIDE DEF r
  <2> QED
    BY <2>1, <2>2, <2>3
<1>2. InclusionInv => IssuedReceiptIsCovered
  BY <1>1 DEF IssuedReceiptIsCovered
<1> QED
  BY <1>2, InclusionInvariant, PTL

=============================================================================
