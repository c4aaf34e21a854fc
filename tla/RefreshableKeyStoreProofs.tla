---------------------- MODULE RefreshableKeyStoreProofs ----------------------
(***************************************************************************)
(* Proofs about RefreshableKeyStore, for any number of callers and         *)
(* background loops, any answers of the log and any cooldown.              *)
(***************************************************************************)
EXTENDS RefreshableKeyStore, TLAPS, WellFoundedInduction

critical == {"checking", "fetching", "merging"}

\* The caller that holds the gate is the one that is past it.
GateHeld == \A c \in OnDemand : gate = c <=> pc[c] \in critical

\* What the check behind the gate found stays true until the refresh ends.
Spaced ==
  /\ lastRefreshed # None => lastRefreshed <= now
  /\ onDemandAt # None =>
       lastRefreshed # None /\ lastRefreshed >= onDemandAt
  /\ \A c \in OnDemand : pc[c] \in {"fetching", "merging"} /\ onDemandAt # None =>
       now - onDemandAt >= cooldown

IInv == TypeOK /\ GateHeld /\ Spaced

-----------------------------------------------------------------------------
(* MergeFrom.                                                              *)

\* A set of positions that is not empty has a first one.
LEMMA FirstPosition ==
  ASSUME NEW T \in SUBSET Nat, T # {}
  PROVE  \E i \in T : \A j \in T : i <= j
<1>1. PICK i \in T : \A j \in T : <<j, i>> \notin OpToRel(<, Nat)
  BY WFMin, NatLessThanWellFounded
<1>2. \A j \in T : ~(j < i)
  BY <1>1 DEF OpToRel
<1> QED
  BY <1>2

\* verify/scitt/root_keys.go:199-229: the merge is a set of keys again, and it
\* holds every key that was known, under its name.
LEMMA MergeKeeps ==
  ASSUME NEW keys, DOMAIN keys \subseteq Kids, keys \in [DOMAIN keys -> Names],
         NEW list \in Responses \cup {<<>>}
  PROVE  LET merged == MergeFrom(keys, list)
         IN  /\ DOMAIN merged \subseteq Kids
             /\ merged \in [DOMAIN merged -> Names]
             /\ \A kid \in DOMAIN keys : kid \in DOMAIN merged /\ merged[kid] = keys[kid]
<1> DEFINE parsed == {i \in DOMAIN list : list[i] # Unparseable}
           Of(kid) == {i \in parsed : list[i].kid = kid}
           FirstOf(kid) == CHOOSE i \in Of(kid) : \A j \in Of(kid) : i <= j
           known == DOMAIN keys \cup {list[i].kid : i \in parsed}
           value(kid) == IF kid \in DOMAIN keys THEN keys[kid] ELSE list[FirstOf(kid)].name
<1>1. MergeFrom(keys, list) = [kid \in known |-> value(kid)]
  BY DEF MergeFrom
<1>2. list \in Seq(Keys \cup {Unparseable})
  <2>1. CASE list = <<>>
    BY <2>1
  <2>2. CASE list \in Responses
    <3> DEFINE lists == Seq(Keys \cup {Unparseable})
    <3>1. Responses \subseteq lists
      BY KeyStoreAssumption
    <3> HIDE DEF lists
    <3>2. list \in lists
      BY <2>2, <3>1
    <3> QED
      BY <3>2 DEF lists
  <2> QED
    BY <2>1, <2>2
<1>3. \A i \in parsed : i \in Nat /\ list[i] \in Keys
  BY <1>2
<1>4. \A i \in parsed : list[i].kid \in Kids /\ list[i].name \in Names
  BY <1>3 DEF Keys
<1>5. ASSUME NEW kid \in known PROVE value(kid) \in Names
  <2>1. CASE kid \in DOMAIN keys
    BY <2>1
  <2>2. CASE kid \notin DOMAIN keys
    <3>1. Of(kid) # {} /\ Of(kid) \in SUBSET Nat
      BY <1>3, <2>2
    <3>2. FirstOf(kid) \in Of(kid)
      BY <3>1, FirstPosition
    <3> QED
      BY <1>4, <2>2, <3>2
  <2> QED
    BY <2>1, <2>2
<1> HIDE DEF value
<1>6. known \subseteq Kids
  BY <1>4
<1> HIDE DEF known
<1>7. \A kid \in DOMAIN keys : kid \in known /\ value(kid) = keys[kid]
  BY DEF known, value
<1> QED
  BY <1>1, <1>5, <1>6, <1>7

-----------------------------------------------------------------------------
(* The invariant.                                                          *)

\* verify/scitt/refreshable_key_store.go:59-70: a new store was never refreshed.
LEMMA InitInv == Init => IInv
<1> SUFFICES ASSUME Init PROVE IInv
  OBVIOUS
<1>1. TypeOK
  BY KeyStoreAssumption DEF Init, TypeOK, Goroutines, Places
<1>2. GateHeld
  BY KeyStoreAssumption DEF Init, GateHeld, critical, Goroutines
<1>3. Spaced
  BY DEF Init, Spaced, Goroutines
<1> QED
  BY <1>1, <1>2, <1>3 DEF IInv

\* A goroutine that returns leaves the gate to the others.
LEMMA ReturnKeeps ==
  ASSUME IInv, NEW g \in Goroutines, Return(g)
  PROVE  /\ GateHeld'
         /\ pc' \in [Goroutines -> Places]
         /\ gate' \in {None} \cup OnDemand
         /\ pc'[g] = "idle" /\ \A h \in Goroutines : h # g => pc'[h] = pc[h]
<1> USE DEF IInv, TypeOK
<1>1. /\ pc' = [pc EXCEPT ![g] = "idle"]
      /\ gate' = IF gate = g THEN None ELSE gate
  BY DEF Return, Goto
<1>2. pc'[g] = "idle" /\ \A h \in Goroutines : h # g => pc'[h] = pc[h]
  BY <1>1
<1>3. \A c \in OnDemand : gate' = c <=> pc'[c] \in critical
  <2> SUFFICES ASSUME NEW c \in OnDemand PROVE gate' = c <=> pc'[c] \in critical
    OBVIOUS
  <2>1. c # None /\ c \in Goroutines
    BY KeyStoreAssumption DEF Goroutines
  <2>2. gate = c <=> pc[c] \in critical
    BY DEF GateHeld
  <2>3. CASE c = g
    BY <1>1, <1>2, <2>1, <2>3 DEF critical
  <2>4. CASE c # g
    BY <1>1, <1>2, <2>1, <2>2, <2>4
  <2> QED
    BY <2>3, <2>4
<1>4. pc' \in [Goroutines -> Places]
  BY <1>1 DEF Places
<1>5. GateHeld'
  BY <1>3 DEF GateHeld
<1> QED
  BY <1>1, <1>2, <1>4, <1>5

\* A goroutine that goes on, on its side of the gate, leaves the gate alone.
LEMMA GotoKeeps ==
  ASSUME IInv, NEW g \in Goroutines, NEW where \in Places, Goto(g, where),
         UNCHANGED gate,
         g \in OnDemand => (pc[g] \in critical <=> where \in critical)
  PROVE  /\ GateHeld'
         /\ pc' \in [Goroutines -> Places]
         /\ pc'[g] = where /\ \A h \in Goroutines : h # g => pc'[h] = pc[h]
<1>1. pc' = [pc EXCEPT ![g] = where] /\ pc \in [Goroutines -> Places]
  BY DEF Goto, IInv, TypeOK
<1>2. pc'[g] = where /\ \A h \in Goroutines : h # g => pc'[h] = pc[h]
  BY <1>1
<1>3. \A c \in OnDemand : gate' = c <=> pc'[c] \in critical
  BY <1>2 DEF IInv, GateHeld, Goroutines
<1> QED
  BY <1>1, <1>2, <1>3 DEF GateHeld

\* Every step keeps the invariant.
LEMMA NextInv == IInv /\ [Next]_vars => IInv'
<1> SUFFICES ASSUME IInv, [Next]_vars PROVE IInv'
  OBVIOUS
<1> USE DEF IInv
<1>0. now \in Int /\ cooldown \in Int
  BY KeyStoreAssumption DEF TypeOK
<1>1. CASE UNCHANGED vars
  BY <1>1 DEF vars, TypeOK, GateHeld, Spaced
<1>2. CASE Tick
  <2>1. TypeOK'
    BY <1>2, KeyStoreAssumption DEF Tick, TypeOK
  <2>2. /\ onDemandAt # None => onDemandAt \in Int
        /\ lastRefreshed # None => lastRefreshed \in Int
    BY KeyStoreAssumption DEF TypeOK
  <2>3. Spaced' /\ GateHeld'
    BY <1>0, <1>2, <2>2 DEF Tick, Spaced, GateHeld
  <2> QED
    BY <2>1, <2>3
<1>3. ASSUME NEW c \in OnDemand, QuickCheck(c) PROVE IInv'
  <2>1. c \in Goroutines /\ "waiting" \in Places
    BY DEF Goroutines, Places
  <2>2. GateHeld' /\ pc' \in [Goroutines -> Places] /\ pc'[c] = "waiting"
        /\ \A h \in Goroutines : h # c => pc'[h] = pc[h]
    BY <1>3, <2>1, GotoKeeps DEF QuickCheck, critical
  <2>3. TypeOK' /\ Spaced'
    BY <1>3, <2>2 DEF QuickCheck, TypeOK, Spaced, Goroutines
  <2> QED
    BY <2>2, <2>3
<1>4. ASSUME NEW c \in OnDemand, LockGate(c) PROVE IInv'
  <2>1. pc' = [pc EXCEPT ![c] = "checking"] /\ pc \in [Goroutines -> Places]
        /\ gate = None /\ gate' = c
    BY <1>4 DEF LockGate, Goto, TypeOK
  <2>2. pc' \in [Goroutines -> Places] /\ pc'[c] = "checking"
        /\ \A h \in Goroutines : h # c => pc'[h] = pc[h]
    BY <2>1 DEF Goroutines, Places
  <2>3. TypeOK' /\ Spaced'
    BY <1>4, <2>1, <2>2 DEF LockGate, TypeOK, Spaced, Goroutines
  <2>4. GateHeld'
    BY <2>1, <2>2, KeyStoreAssumption DEF GateHeld, Goroutines, critical
  <2> QED
    BY <2>3, <2>4
<1>5. ASSUME NEW c \in OnDemand, Recheck(c) PROVE IInv'
  <2>1. c \in Goroutines /\ "fetching" \in Places
    BY DEF Goroutines, Places
  <2>2. UNCHANGED <<now, snapshot, lastRefreshed, fetched, onDemandAt>>
    BY <1>5 DEF Recheck
  <2>3. CASE Return(c)
    <3>1. TypeOK' /\ Spaced'
      BY <2>1, <2>2, <2>3, ReturnKeeps DEF TypeOK, Spaced, Goroutines
    <3> QED
      BY <2>1, <2>3, <3>1, ReturnKeeps
  <2>4. CASE ~withinCooldown /\ Goto(c, "fetching") /\ UNCHANGED gate
    <3>1. GateHeld' /\ pc' \in [Goroutines -> Places] /\ pc'[c] = "fetching"
          /\ \A h \in Goroutines : h # c => pc'[h] = pc[h]
      BY <1>5, <2>1, <2>4, GotoKeeps DEF Recheck, critical
    <3>2. TypeOK'
      BY <2>2, <2>4, <3>1 DEF TypeOK
    <3>3. onDemandAt # None => now - onDemandAt >= cooldown
      <4>1. onDemandAt # None => /\ lastRefreshed # None /\ lastRefreshed \in Int
                                 /\ onDemandAt \in Int
                                 /\ lastRefreshed >= onDemandAt
        BY KeyStoreAssumption DEF Spaced, TypeOK
      <4>2. onDemandAt # None => ~(now - lastRefreshed < cooldown)
        BY <2>4, <4>1 DEF withinCooldown
      <4> QED
        BY <1>0, <4>1, <4>2
    <3>4. Spaced'
      BY <2>2, <3>1, <3>3 DEF Spaced, Goroutines
    <3> QED
      BY <3>1, <3>2, <3>4
  <2> QED
    BY <1>5, <2>3, <2>4 DEF Recheck
<1>6. ASSUME NEW d \in Direct, DoRefresh(d) PROVE IInv'
  <2>1. d \in Goroutines /\ d \notin OnDemand /\ "fetching" \in Places
    BY KeyStoreAssumption DEF Goroutines, Places
  <2>2. GateHeld' /\ pc' \in [Goroutines -> Places]
        /\ \A h \in Goroutines : h # d => pc'[h] = pc[h]
    BY <1>6, <2>1, GotoKeeps DEF DoRefresh
  <2>3. TypeOK' /\ Spaced'
    BY <1>6, <2>1, <2>2 DEF DoRefresh, TypeOK, Spaced, Goroutines
  <2> QED
    BY <2>2, <2>3
<1>7. ASSUME NEW g \in Goroutines, FetchRootKeys(g) PROVE IInv'
  <2>1. "merging" \in Places
    BY DEF Places
  <2>2. GateHeld' /\ pc' \in [Goroutines -> Places]
        /\ \A h \in Goroutines : h # g => pc'[h] = pc[h]
    BY <1>7, <2>1, GotoKeeps DEF FetchRootKeys, critical
  <2>3. \A h \in Goroutines : fetched'[h] \in Responses \cup {<<>>}
    <3>1. PICK list \in Responses : fetched' = [fetched EXCEPT ![g] = list]
      BY <1>7 DEF FetchRootKeys
    <3> QED
      BY <3>1 DEF TypeOK
  <2>4. TypeOK'
    BY <1>7, <2>2, <2>3 DEF FetchRootKeys, TypeOK
  <2>5. Spaced'
    BY <1>7, <2>2 DEF FetchRootKeys, Spaced, Goroutines
  <2> QED
    BY <2>2, <2>4, <2>5
<1>8. ASSUME NEW g \in Goroutines, FetchFails(g) PROVE IInv'
  <2>1. Return(g) /\ UNCHANGED <<now, snapshot, lastRefreshed, fetched, onDemandAt>>
    BY <1>8 DEF FetchFails
  <2>2. TypeOK' /\ Spaced'
    BY <2>1, ReturnKeeps DEF TypeOK, Spaced, Goroutines
  <2> QED
    BY <2>1, <2>2, ReturnKeeps
<1>9. ASSUME NEW g \in Goroutines, Merge(g) PROVE IInv'
  <2>1. /\ Return(g) /\ UNCHANGED now /\ lastRefreshed' = now
        /\ snapshot' = MergeFrom(snapshot, fetched[g])
        /\ pc[g] = "merging"
        /\ onDemandAt' = IF g \in OnDemand THEN now ELSE onDemandAt
    BY <1>9 DEF Merge
  <2>2. DOMAIN snapshot' \subseteq Kids /\ snapshot' \in [DOMAIN snapshot' -> Names]
    BY <2>1, MergeKeeps DEF TypeOK
  <2>3. \A h \in Goroutines : fetched'[h] \in Responses \cup {<<>>}
    <3>1. fetched' = [fetched EXCEPT ![g] = <<>>]
      BY <1>9 DEF Merge
    <3> QED
      BY <3>1 DEF TypeOK
  <2>4. onDemandAt' \in {None} \cup (0..MaxTime) /\ lastRefreshed' \in 0..MaxTime
    BY <2>1 DEF TypeOK
  <2>5. TypeOK'
    BY <2>1, <2>2, <2>3, <2>4, ReturnKeeps DEF TypeOK
  <2>6. /\ lastRefreshed' # None /\ lastRefreshed' <= now'
        /\ onDemandAt' # None => lastRefreshed' >= onDemandAt'
    <3>1. now # None
      BY KeyStoreAssumption DEF TypeOK
    <3>2. CASE onDemandAt' = now
      BY <1>0, <2>1, <3>1, <3>2
    <3>3. CASE onDemandAt' = onDemandAt
      <4>1. onDemandAt # None => /\ lastRefreshed \in Int /\ onDemandAt \in Int
                                 /\ lastRefreshed <= now /\ onDemandAt <= lastRefreshed
        BY KeyStoreAssumption DEF Spaced, TypeOK
      <4> QED
        BY <1>0, <2>1, <3>1, <3>3, <4>1
    <3> QED
      BY <2>1, <3>2, <3>3
  <2>7. CASE g \in OnDemand
    <3>1. \A c \in OnDemand : pc'[c] \notin {"fetching", "merging"}
      <4>1. gate = g
        BY <2>1, <2>7 DEF GateHeld, critical
      <4>2. \A c \in OnDemand : c # g => pc[c] \notin {"fetching", "merging"}
        BY <4>1 DEF GateHeld, critical
      <4> QED
        BY <2>1, <4>2, ReturnKeeps DEF Goroutines
    <3> QED
      BY <2>1, <2>5, <2>6, <3>1, ReturnKeeps DEF Spaced
  <2>8. CASE g \notin OnDemand
    <3>1. onDemandAt' = onDemandAt
      BY <2>1, <2>8
    <3>2. \A c \in OnDemand : pc'[c] = pc[c]
      BY <2>1, <2>8, ReturnKeeps DEF Goroutines
    <3>3. Spaced'
      BY <2>1, <2>6, <3>1, <3>2 DEF Spaced
    <3> QED
      BY <2>1, <2>5, <3>3, ReturnKeeps
  <2> QED
    BY <2>7, <2>8
<1> QED
  BY <1>1, <1>2, <1>3, <1>4, <1>5, <1>6, <1>7, <1>8, <1>9 DEF Next

\* The invariant of the store, whatever its callers do.
LEMMA SpecInv == Spec => []IInv
  BY InitInv, NextInv, PTL DEF Spec

-----------------------------------------------------------------------------

\* The state of the store stays well formed, also under answers with garbage,
\* duplicates and renamed keys.
THEOREM TypeCorrect == Spec => []TypeOK
<1>1. IInv => TypeOK
  BY DEF IInv
<1> QED
  BY <1>1, SpecInv, PTL

\* verify/scitt/root_keys.go:195-198: a trusted key is never dropped, replaced
\* or renamed by refreshes, however they overlap.
THEOREM PinnedKeys == Spec => KeysArePinned
<1>1. IInv /\ [Next]_vars =>
        [\A kid \in DOMAIN snapshot :
           kid \in DOMAIN snapshot' /\ snapshot'[kid] = snapshot[kid]]_vars
  <2> SUFFICES ASSUME IInv, [Next]_vars
               PROVE  \A kid \in DOMAIN snapshot :
                        kid \in DOMAIN snapshot' /\ snapshot'[kid] = snapshot[kid]
    OBVIOUS
  <2>1. CASE snapshot' = snapshot
    BY <2>1
  <2>2. ASSUME NEW g \in Goroutines, snapshot' = MergeFrom(snapshot, fetched[g])
        PROVE  \A kid \in DOMAIN snapshot :
                 kid \in DOMAIN snapshot' /\ snapshot'[kid] = snapshot[kid]
    BY <2>2, MergeKeeps DEF IInv, TypeOK
  <2>3. \/ snapshot' = snapshot
        \/ \E g \in Goroutines : snapshot' = MergeFrom(snapshot, fetched[g])
    BY DEF Next, vars, Tick, QuickCheck, LockGate, Recheck, DoRefresh,
           FetchRootKeys, FetchFails, Merge
  <2> QED
    BY <2>1, <2>2, <2>3
<1> QED
  BY <1>1, SpecInv, PTL DEF Spec, KeysArePinned

\* verify/scitt/refreshable_key_store.go:160-163: on-demand refreshes end at
\* least a cooldown apart, for any number of callers and background refreshes.
THEOREM RefreshesAreSpaced == Spec => OnDemandSpaced
<1>1. IInv /\ [Next]_vars =>
        [onDemandAt # None /\ (\E c \in OnDemand : Merge(c)) =>
           now - onDemandAt >= cooldown]_vars
  BY DEF IInv, Spaced, Merge
<1> QED
  BY <1>1, SpecInv, PTL DEF Spec, OnDemandSpaced
=============================================================================
