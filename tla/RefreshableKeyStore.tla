------------------------- MODULE RefreshableKeyStore -------------------------
(***************************************************************************)
(* The trusted keys of the transparency log: RefreshableKeyStore           *)
(* (verify/scitt/refreshable_key_store.go) over the immutable KeyStore     *)
(* (verify/scitt/root_keys.go).                                            *)
(*                                                                         *)
(* Verifiers read the current snapshot.  Callers that met an unknown key   *)
(* ask for a refresh on demand, one at a time behind refreshGate and not   *)
(* within the cooldown; background loops and direct calls of DoRefresh     *)
(* bypass both.  A refresh fetches without any lock and then merges what   *)
(* it fetched into the snapshot of that moment, under mu.                  *)
(*                                                                         *)
(* A key string parses to a key id and the name of its log: the id is a    *)
(* digest of the key, so only the name can differ between two strings of   *)
(* one id.                                                                 *)
(***************************************************************************)
EXTENDS Integers, Sequences

CONSTANTS
  OnDemand,     \* goroutines that call RefreshIfCooldownElapsed
  Direct,       \* goroutines that call DoRefresh (the background loop is one)
  Kids,         \* key ids
  Names,        \* names of logs
  Unparseable,  \* a key string ParseC2SPKey rejects
  Responses,    \* the lists of key strings the log may answer with
  InitialKeys,  \* the snapshot the store is built with
  cooldown,     \* minimum interval between on-demand refreshes
  MaxTime,      \* bound of the clock
  None          \* nobody, or never

Keys == [kid : Kids, name : Names]

ASSUME KeyStoreAssumption ==
  /\ OnDemand \cap Direct = {}
  /\ None \notin OnDemand \cup Nat
  /\ Unparseable \notin Keys
  /\ Responses \subseteq Seq(Keys \cup {Unparseable})
  /\ \E known \in SUBSET Kids : InitialKeys \in [known -> Names]
  /\ cooldown \in Nat /\ MaxTime \in Nat

VARIABLES
  now,            \* the clock
  snapshot,       \* the current keys: a function from key ids to names
  lastRefreshed,  \* when the last successful refresh ended; None before
  gate,           \* refreshGate: the caller that holds it, or None
  pc,             \* where each goroutine is
  fetched,        \* the answer each goroutine got from the log
  onDemandAt      \* history: when the last on-demand refresh ended

vars == <<now, snapshot, lastRefreshed, gate, pc, fetched, onDemandAt>>

Goroutines == OnDemand \cup Direct

-----------------------------------------------------------------------------

\* Bug: a key string that arrives later renames a key that is known.
MergeFromReplacing(keys, keyStrings) ==
  LET parsed == {i \in DOMAIN keyStrings : keyStrings[i] # Unparseable}
      Of(kid) == {i \in parsed : keyStrings[i].kid = kid}
      LastOf(kid) == CHOOSE i \in Of(kid) : \A j \in Of(kid) : j <= i
  IN  [kid \in DOMAIN keys \cup {keyStrings[i].kid : i \in parsed} |->
         IF Of(kid) = {} THEN keys[kid] ELSE keyStrings[LastOf(kid)].name]

\* Bug: a key string that does not parse is kept under the id of the zero value.
MergeFromUnparsed(keys, keyStrings) ==
  [kid \in DOMAIN keys \cup {keyStrings[i] : i \in DOMAIN keyStrings} |->
     IF kid \in DOMAIN keys THEN keys[kid] ELSE Unparseable]

\* KeyStore.MergeFrom: keys that are known stay, the first of several new
\* strings with one id wins, strings that do not parse are skipped.
MergeFrom(keys, keyStrings) ==
  LET parsed == {i \in DOMAIN keyStrings : keyStrings[i] # Unparseable}
      Of(kid) == {i \in parsed : keyStrings[i].kid = kid}
      FirstOf(kid) == CHOOSE i \in Of(kid) : \A j \in Of(kid) : i <= j
  IN  [kid \in DOMAIN keys \cup {keyStrings[i].kid : i \in parsed} |->
         IF kid \in DOMAIN keys THEN keys[kid] ELSE keyStrings[FirstOf(kid)].name]

withinCooldown == lastRefreshed # None /\ now - lastRefreshed < cooldown

Goto(g, where) == pc' = [pc EXCEPT ![g] = where]

\* The goroutine returns; one that holds the gate releases it.
Return(g) ==
  /\ Goto(g, "idle")
  /\ gate' = IF gate = g THEN None ELSE gate

-----------------------------------------------------------------------------
(* RefreshIfCooldownElapsed.                                               *)

\* The quick check, without the gate: a call within the cooldown returns at
\* once and leaves no trace.
QuickCheck(c) ==
  /\ pc[c] = "idle"
  /\ ~withinCooldown
  /\ Goto(c, "waiting")
  /\ UNCHANGED <<now, snapshot, lastRefreshed, gate, fetched, onDemandAt>>

LockGate(c) ==
  /\ pc[c] = "waiting"
  /\ gate = None
  /\ gate' = c
  /\ Goto(c, "checking")
  /\ UNCHANGED <<now, snapshot, lastRefreshed, fetched, onDemandAt>>

\* Bug: the cooldown is not checked again behind the gate.
RecheckNothing(c) ==
  /\ pc[c] = "checking"
  /\ Goto(c, "fetching")
  /\ UNCHANGED <<now, snapshot, lastRefreshed, gate, fetched, onDemandAt>>

\* The check behind the gate: another goroutine may have refreshed.
Recheck(c) ==
  /\ pc[c] = "checking"
  /\ \/ withinCooldown /\ Return(c)
     \/ ~withinCooldown /\ Goto(c, "fetching") /\ UNCHANGED gate
  /\ UNCHANGED <<now, snapshot, lastRefreshed, fetched, onDemandAt>>

-----------------------------------------------------------------------------
(* DoRefresh.                                                              *)

\* A tick of the background loop, or a direct call.
DoRefresh(d) ==
  /\ pc[d] = "idle"
  /\ Goto(d, "fetching")
  /\ UNCHANGED <<now, snapshot, lastRefreshed, gate, fetched, onDemandAt>>

FetchRootKeys(g) ==
  /\ pc[g] = "fetching"
  /\ \E list \in Responses : fetched' = [fetched EXCEPT ![g] = list]
  /\ Goto(g, "merging")
  /\ UNCHANGED <<now, snapshot, lastRefreshed, gate, onDemandAt>>

\* Bug: the gate stays locked when the fetch fails.
FetchFailsGateHeld(g) ==
  /\ pc[g] = "fetching"
  /\ Goto(g, "idle")
  /\ UNCHANGED <<now, snapshot, lastRefreshed, gate, fetched, onDemandAt>>

\* The log is not reached: neither the snapshot nor lastRefreshed changes.
FetchFails(g) ==
  /\ pc[g] = "fetching"
  /\ Return(g)
  /\ UNCHANGED <<now, snapshot, lastRefreshed, fetched, onDemandAt>>

Merge(g) ==
  /\ pc[g] = "merging"
  /\ snapshot' = MergeFrom(snapshot, fetched[g])
  /\ lastRefreshed' = now
  /\ fetched' = [fetched EXCEPT ![g] = <<>>]
  /\ onDemandAt' = IF g \in OnDemand THEN now ELSE onDemandAt
  /\ Return(g)
  /\ UNCHANGED now

-----------------------------------------------------------------------------

\* NewRefreshableKeyStore, with a client.
Init ==
  /\ now = 0
  /\ snapshot = InitialKeys
  /\ lastRefreshed = None
  /\ gate = None
  /\ pc = [g \in Goroutines |-> "idle"]
  /\ fetched = [g \in Goroutines |-> <<>>]
  /\ onDemandAt = None

Tick ==
  /\ now < MaxTime
  /\ now' = now + 1
  /\ UNCHANGED <<snapshot, lastRefreshed, gate, pc, fetched, onDemandAt>>

Next ==
  \/ Tick
  \/ \E c \in OnDemand : QuickCheck(c) \/ LockGate(c) \/ Recheck(c)
  \/ \E d \in Direct : DoRefresh(d)
  \/ \E g \in Goroutines : FetchRootKeys(g) \/ FetchFails(g) \/ Merge(g)

Spec == Init /\ [][Next]_vars

\* A goroutine that runs takes its next step, a fetch ends (its context or the
\* HTTP client's timeout sees to that), and sync.Mutex hands the gate to each
\* goroutine that waits for it.
FairSpec ==
  /\ Spec
  /\ \A c \in OnDemand : SF_vars(LockGate(c)) /\ WF_vars(Recheck(c))
  /\ \A g \in Goroutines :
       WF_vars(FetchRootKeys(g) \/ FetchFails(g)) /\ WF_vars(Merge(g))

-----------------------------------------------------------------------------
(* Correctness.                                                            *)

Places == {"idle", "waiting", "checking", "fetching", "merging"}

\* The shape of the state.
TypeOK ==
  /\ now \in 0..MaxTime
  /\ DOMAIN snapshot \subseteq Kids
  /\ snapshot \in [DOMAIN snapshot -> Names]
  /\ lastRefreshed \in {None} \cup (0..MaxTime)
  /\ gate \in {None} \cup OnDemand
  /\ pc \in [Goroutines -> Places]
  /\ \A g \in Goroutines : fetched[g] \in Responses \cup {<<>>}
  /\ onDemandAt \in {None} \cup (0..MaxTime)

\* verify/scitt/root_keys.go:195-198: "Existing keys (same kid) are preserved".
\* Whatever refreshes overlap and in whichever order their answers are merged,
\* a key id that was trusted once stays trusted under the same name.
KeysArePinned ==
  [][\A kid \in DOMAIN snapshot :
       kid \in DOMAIN snapshot' /\ snapshot'[kid] = snapshot[kid]]_vars

\* verify/scitt/refreshable_key_store.go:160-161: an on-demand refresh happens
\* "only if enough time has elapsed since the last refresh": two of them end at
\* least a cooldown apart, however many callers race for the gate.
OnDemandSpaced ==
  [][onDemandAt # None /\ (\E c \in OnDemand : Merge(c)) =>
       now - onDemandAt >= cooldown]_vars

\* Every caller that asks for a refresh gets an answer.
CallersReturn == \A c \in OnDemand : (pc[c] = "waiting") ~> (pc[c] = "idle")
=============================================================================
