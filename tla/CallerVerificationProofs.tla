---------------------- MODULE CallerVerificationProofs ----------------------
(***************************************************************************)
(* Proofs about CallerVerification, for any number of deliveries, requests,*)
(* proofs, agents and certificates, any skews and any cache capacity:      *)
(* single use first, then trust and revocation.                            *)
(*                                                                         *)
(* Single use rests on one inequality: the time from the clock reading of  *)
(* a verification to the record of the jti is shorter than the retention   *)
(* of the jti past the freshness window (MaxLag < replayGrace).            *)
(***************************************************************************)
EXTENDS CallerVerification, TLAPS

SignedProof == [cert : Certs, iat : Int]

\* The part of the types the arguments need.
Shape ==
  /\ now \in Int
  /\ DOMAIN mem \subseteq Proofs
  /\ signed \in [Proofs -> {None} \cup SignedProof]
  /\ DOMAIN outbound = Requests
  /\ pc \in [Deliveries -> {"idle", "reading", "committing", "done"}]
  /\ DOMAIN req = Deliveries
  /\ readAt \in [Deliveries -> Int]
  /\ DOMAIN outcome = Deliveries

\* A proof that is on a request has been signed.
OutboundSigned ==
  \A q \in Requests : outbound[q].proof # None =>
    outbound[q].proof \in Proofs /\ signed[outbound[q].proof] # None

inFlight(r) == pc[r] \in {"reading", "committing"}

\* A delivery that passed the checks found its proof fresh and is not late.
InFlightFresh ==
  \A r \in Deliveries : inFlight(r) =>
    /\ outcome[r] = "pending"
    /\ req[r].proof \in Proofs
    /\ signed[req[r].proof] # None
    /\ readAt[r] - signed[req[r].proof].iat <= popSkew
    /\ now <= readAt[r] + MaxLag

\* The jti of a delivery that was served is held until its retention ends.
ServedRemembered ==
  \A r \in Deliveries : accepted(r) =>
    /\ pc[r] = "done"
    /\ req[r].proof \in Proofs
    /\ signed[req[r].proof] # None
    /\ ReplayExp(req[r].proof) > now =>
         /\ req[r].proof \in DOMAIN mem
         /\ mem[req[r].proof] = ReplayExp(req[r].proof)

\* A delivery that was not begun, or was refused, was not served.
IdlePending == \A r \in Deliveries : pc[r] = "idle" => outcome[r] = "pending"

Inv ==
  /\ Shape
  /\ OutboundSigned
  /\ InFlightFresh
  /\ ServedRemembered
  /\ IdlePending
  /\ SlotsHeldByAccepted
  /\ ReplayMeansAnotherServed

-----------------------------------------------------------------------------

\* pop/replay.go:191-208 as the promise has it: what is forgotten has expired.
LEMMA LiveSurvives ==
  ASSUME NEW gone \in Replay!Forgettable, NEW p \in DOMAIN mem, mem[p] > now,
         now \in Int, mem[p] \in Int
  PROVE  p \in DOMAIN mem \ gone
<1>1. \A x \in gone : mem[x] <= now
  BY DEF Replay!Forgettable
<1>2. ~(mem[p] <= now)
  OBVIOUS
<1> QED
  BY <1>1, <1>2

\* The retention of a signed proof is a time.
LEMMA ReplayExpInt ==
  ASSUME Shape, NEW p \in Proofs, signed[p] # None
  PROVE  ReplayExp(p) \in Int /\ signed[p].iat \in Int
<1>1. signed[p] \in SignedProof
  BY DEF Shape
<1>2. signed[p].iat \in Int
  BY <1>1 DEF SignedProof
<1> QED
  BY <1>2, CallerAssumption DEF ReplayExp

\* A call of the cache or a sweep that forgets only what it may keeps the jtis
\* of served deliveries.
LEMMA ForgettingKeepsServed ==
  ASSUME Inv, NEW gone \in Replay!Forgettable, NEW r \in Deliveries,
         accepted(r), ReplayExp(req[r].proof) > now
  PROVE  /\ req[r].proof \in DOMAIN mem \ gone
         /\ mem[req[r].proof] = ReplayExp(req[r].proof)
<1> DEFINE p == req[r].proof
<1>1. /\ p \in Proofs /\ signed[p] # None
      /\ p \in DOMAIN mem /\ mem[p] = ReplayExp(p)
  BY DEF Inv, ServedRemembered
<1>2. ReplayExp(p) \in Int /\ now \in Int
  BY <1>1, ReplayExpInt DEF Inv, Shape
<1> QED
  BY <1>1, <1>2, LiveSurvives

\* Nothing is signed, delivered or recorded at the start.
LEMMA InitInv == Init => Inv
<1> SUFFICES ASSUME Init PROVE Inv
  OBVIOUS
<1> USE DEF Init
<1>1. Shape
  BY CallerAssumption DEF Shape
<1>2. OutboundSigned
  BY DEF OutboundSigned, NoHeaders
<1>3. InFlightFresh /\ ServedRemembered /\ IdlePending
  BY DEF InFlightFresh, inFlight, ServedRemembered, accepted, IdlePending
<1>4. SlotsHeldByAccepted /\ ReplayMeansAnotherServed
  BY DEF SlotsHeldByAccepted, ReplayMeansAnotherServed
<1> QED
  BY <1>1, <1>2, <1>3, <1>4 DEF Inv

-----------------------------------------------------------------------------
(* The steps.                                                              *)

\* Time takes no jti away and makes no delivery late beyond MaxLag.
LEMMA TickInv == Inv /\ Tick => Inv'
<1> SUFFICES ASSUME Inv, Tick PROVE Inv'
  OBVIOUS
<1> USE DEF Inv, Tick, cacheVars, worldVars, callerVars, calleeVars
<1>1. Shape' /\ now' = now + 1 /\ now \in Int
  BY DEF Shape
<1>2. OutboundSigned' /\ IdlePending'
  BY DEF OutboundSigned, IdlePending
<1>3. InFlightFresh'
  <2> SUFFICES ASSUME NEW r \in Deliveries, inFlight(r)
               PROVE  now + 1 <= readAt[r] + MaxLag
    BY <1>1 DEF InFlightFresh, inFlight
  <2>1. now < readAt[r] + MaxLag
    BY DEF inFlight
  <2>2. readAt[r] \in Int /\ MaxLag \in Int
    BY CallerAssumption DEF Shape
  <2> QED
    BY <1>1, <2>1, <2>2
<1>4. ServedRemembered'
  <2> SUFFICES ASSUME NEW r \in Deliveries, accepted(r)
               PROVE  ReplayExp(req[r].proof) > now + 1
                      => ReplayExp(req[r].proof) > now
    BY <1>1 DEF ServedRemembered, accepted, ReplayExp
  <2>1. ReplayExp(req[r].proof) \in Int
    BY ReplayExpInt DEF ServedRemembered
  <2> QED
    BY <1>1, <2>1
<1>5. SlotsHeldByAccepted' /\ ReplayMeansAnotherServed'
  BY DEF SlotsHeldByAccepted, ReplayMeansAnotherServed, accepted
<1> QED
  BY <1>1, <1>2, <1>3, <1>4, <1>5

\* pop/replay.go:217-232: a sweep of the cache drops expired jtis only.
LEMMA SweepInv == Inv /\ SweepCache => Inv'
<1> SUFFICES ASSUME Inv, SweepCache PROVE Inv'
  OBVIOUS
<1> USE DEF Inv
<1>1. PICK gone \in Replay!Forgettable : mem' = Replay!Keep(gone)
  BY DEF SweepCache, Replay!Sweep
<1>2. UNCHANGED <<now, signed, outbound, pc, req, readAt, outcome>>
  BY DEF SweepCache, Replay!Sweep, worldVars, callerVars, calleeVars
<1>3. /\ DOMAIN mem' = DOMAIN mem \ gone
      /\ \A p \in DOMAIN mem \ gone : mem'[p] = mem[p]
  BY <1>1 DEF Replay!Keep
<1>4. Shape' /\ OutboundSigned' /\ InFlightFresh' /\ IdlePending'
  BY <1>2, <1>3 DEF Shape, OutboundSigned, InFlightFresh, inFlight, IdlePending
<1>5. ServedRemembered'
  <2>1. ASSUME NEW r \in Deliveries, accepted(r),
               ReplayExp(req[r].proof) > now
        PROVE  /\ req[r].proof \in DOMAIN mem'
               /\ mem'[req[r].proof] = ReplayExp(req[r].proof)
    BY <1>3, <2>1, ForgettingKeepsServed
  <2> QED
    BY <1>2, <2>1 DEF ServedRemembered, accepted, ReplayExp
<1>6. SlotsHeldByAccepted' /\ ReplayMeansAnotherServed'
  BY <1>2, <1>3 DEF SlotsHeldByAccepted, ReplayMeansAnotherServed, accepted
<1> QED
  BY <1>4, <1>5, <1>6

\* Token issue and revocation leave the callee's state alone.
LEMMA WorldInv ==
  ASSUME NEW a \in Agents, Inv, IssueStatusToken(a) \/ Revoke(a)
  PROVE  Inv'
<1>1. UNCHANGED <<now, cacheVars, callerVars, calleeVars>>
  BY DEF IssueStatusToken, Revoke
<1> QED
  BY <1>1 DEF Inv, cacheVars, callerVars, calleeVars, Shape, OutboundSigned,
              InFlightFresh, inFlight, ServedRemembered, accepted, ReplayExp,
              IdlePending, SlotsHeldByAccepted, ReplayMeansAnotherServed

\* pop/http.go:409-451: signing gives an unsigned proof its content.
LEMMA AttachInv ==
  ASSUME NEW q \in Requests, NEW p \in Proofs, NEW c \in Certs, Inv,
         AttachIdentity(q, p, c)
  PROVE  Inv'
<1> USE DEF Inv
<1>1. PICK off \in Offsets :
        signed' = [signed EXCEPT ![p] = [cert |-> c, iat |-> now + off]]
  BY DEF AttachIdentity
<1>2. UNCHANGED <<now, mem, pc, req, readAt, outcome>>
  BY DEF AttachIdentity, cacheVars, worldVars, calleeVars
<1>3. /\ DOMAIN outbound' = Requests
      /\ outbound'[q].proof = p
      /\ \A x \in Requests : x # q => outbound'[x] = outbound[x]
  BY DEF AttachIdentity, Shape
<1>4. [cert |-> c, iat |-> now + off] \in SignedProof
  BY CallerAssumption DEF SignedProof, Shape
<1>5. /\ signed' \in [Proofs -> {None} \cup SignedProof]
      /\ signed'[p] = [cert |-> c, iat |-> now + off]
      /\ signed[p] = None
      /\ \A x \in Proofs : x # p => signed'[x] = signed[x]
  BY <1>1, <1>4 DEF Shape, AttachIdentity
<1>6. signed'[p] # None
  BY <1>4, <1>5, CallerAssumption DEF SignedProof
<1>7. \A x \in Proofs : signed[x] # None => signed'[x] = signed[x]
  BY <1>5
<1>8. Shape'
  BY <1>2, <1>3, <1>5 DEF Shape
<1>9. OutboundSigned'
  BY <1>3, <1>6, <1>7 DEF OutboundSigned
<1>10. InFlightFresh' /\ IdlePending'
  BY <1>2, <1>7 DEF InFlightFresh, inFlight, IdlePending
<1>11. ServedRemembered'
  BY <1>2, <1>7 DEF ServedRemembered, accepted, ReplayExp
<1>12. SlotsHeldByAccepted' /\ ReplayMeansAnotherServed'
  BY <1>2 DEF SlotsHeldByAccepted, ReplayMeansAnotherServed, accepted
<1> QED
  BY <1>8, <1>9, <1>10, <1>11, <1>12

\* A delivery that is refused, for a reason other than a replay, changes
\* nothing for the others.
LEMMA RefusingKeepsInv ==
  ASSUME Inv, NEW r \in Deliveries, outcome[r] = "pending",
         UNCHANGED <<now, mem, signed, outbound, req, readAt>>,
         NEW why, Deny(r, why), why \notin {"accepted", "replay", "pending"}
  PROVE  Inv'
<1> USE DEF Inv
<1>1. pc' = [pc EXCEPT ![r] = "done"] /\ outcome' = [outcome EXCEPT ![r] = why]
  BY DEF Deny
<1>2. Shape'
  BY <1>1 DEF Shape
<1>3. /\ pc'[r] = "done" /\ outcome'[r] = why
      /\ \A s \in Deliveries : s # r => pc'[s] = pc[s] /\ outcome'[s] = outcome[s]
  BY <1>1 DEF Shape
<1>4. OutboundSigned' /\ IdlePending'
  BY <1>3 DEF OutboundSigned, IdlePending
<1>5. InFlightFresh'
  BY <1>3 DEF InFlightFresh, inFlight
<1>6. ServedRemembered'
  BY <1>3 DEF ServedRemembered, accepted, ReplayExp
<1>7. \A s \in Deliveries : accepted(s) => accepted(s)'
  BY <1>3 DEF accepted
<1>8. SlotsHeldByAccepted' /\ ReplayMeansAnotherServed'
  BY <1>3, <1>7 DEF SlotsHeldByAccepted, ReplayMeansAnotherServed, accepted
<1> QED
  BY <1>2, <1>4, <1>5, <1>6, <1>8

\* A delivery that is refused by the cache, which only forgets, changes nothing
\* for the others; a replay is refused because another one was served.
LEMMA AnsweringKeepsInv ==
  ASSUME Inv, NEW r \in Deliveries, outcome[r] = "pending",
         UNCHANGED <<now, signed, outbound, req, readAt>>,
         NEW gone \in Replay!Forgettable, mem' = Replay!Keep(gone),
         NEW why, Deny(r, why), why \notin {"accepted", "pending"},
         why = "replay" =>
           \E s \in Deliveries : accepted(s) /\ req[s].proof = req[r].proof
  PROVE  Inv'
<1> USE DEF Inv
<1>1. pc' = [pc EXCEPT ![r] = "done"] /\ outcome' = [outcome EXCEPT ![r] = why]
  BY DEF Deny
<1>2. /\ DOMAIN mem' = DOMAIN mem \ gone
      /\ \A p \in DOMAIN mem \ gone : mem'[p] = mem[p]
  BY DEF Replay!Keep
<1>3. /\ pc'[r] = "done" /\ outcome'[r] = why
      /\ \A s \in Deliveries : s # r => pc'[s] = pc[s] /\ outcome'[s] = outcome[s]
  BY <1>1 DEF Shape
<1>4. \A s \in Deliveries : accepted(s) <=> accepted(s)'
  BY <1>3 DEF accepted
<1>5. Shape'
  BY <1>1, <1>2 DEF Shape
<1>6. OutboundSigned' /\ InFlightFresh' /\ IdlePending'
  BY <1>3 DEF OutboundSigned, InFlightFresh, inFlight, IdlePending
<1>7. ServedRemembered'
  <2>1. ASSUME NEW s \in Deliveries, accepted(s), ReplayExp(req[s].proof) > now
        PROVE  /\ req[s].proof \in DOMAIN mem'
               /\ mem'[req[s].proof] = ReplayExp(req[s].proof)
    BY <1>2, <2>1, ForgettingKeepsServed
  <2>2. \A s \in Deliveries : accepted(s) => pc'[s] = "done"
    BY <1>3 DEF ServedRemembered
  <2> QED
    BY <1>4, <2>1, <2>2 DEF ServedRemembered, ReplayExp
<1>8. SlotsHeldByAccepted' /\ ReplayMeansAnotherServed'
  BY <1>2, <1>3, <1>4 DEF SlotsHeldByAccepted, ReplayMeansAnotherServed
<1> QED
  BY <1>5, <1>6, <1>7, <1>8

\* pop/caller.go:224-300: a failed check names a refusal, never acceptance or a
\* replay.
LEMMA FailureNamed ==
  ASSUME NEW d, Failing(d, now) # {}
  PROVE  CheckOrder[FirstFailure(d, now)] \notin {"accepted", "replay", "pending"}
<1>1. FirstFailure(d, now) \in 1..Len(CheckOrder)
  <2>1. PICK i \in Failing(d, now) : \A j \in Failing(d, now) : i <= j
    <3>1. Failing(d, now) \subseteq 1..8
      BY DEF Failing, CheckOrder
    <3> QED
      BY <3>1
  <2>2. FirstFailure(d, now) \in Failing(d, now)
    BY <2>1 DEF FirstFailure
  <2> QED
    BY <2>2 DEF Failing
<1>2. /\ CheckOrder[1] = "duplicate header" /\ CheckOrder[2] = "missing header"
      /\ CheckOrder[3] = "certificate" /\ CheckOrder[4] = "context"
      /\ CheckOrder[5] = "stale" /\ CheckOrder[6] = "status"
      /\ CheckOrder[7] = "binding" /\ CheckOrder[8] = "unexpected peer"
      /\ Len(CheckOrder) = 8
  BY DEF CheckOrder
<1>3. \A i \in 1..8 : CheckOrder[i] \notin {"accepted", "replay", "pending"}
  <2>1. SUFFICES ASSUME NEW i \in 1..8
                 PROVE  CheckOrder[i] \notin {"accepted", "replay", "pending"}
    OBVIOUS
  <2>2. i = 1 \/ i = 2 \/ i = 3 \/ i = 4 \/ i = 5 \/ i = 6 \/ i = 7 \/ i = 8
    OBVIOUS
  <2> QED
    BY <1>2, <2>2
<1> QED
  BY <1>1, <1>2, <1>3

\* pop/http.go:302-348: a delivery that passes the checks has a fresh proof.
LEMMA ArriveInv ==
  ASSUME NEW r \in Deliveries, NEW q \in Requests, Inv, Arrive(r, q)
  PROVE  Inv'
<1> USE DEF Inv
<1>1. UNCHANGED <<now, mem, signed, outbound>> /\ pc[r] = "idle"
      /\ outbound[q].proof # None
  BY DEF Arrive, cacheVars, worldVars, callerVars
<1>2. PICK d : /\ d.proof = outbound[q].proof
               /\ \/ /\ Failing(d, now) = {}
                     /\ req' = [req EXCEPT ![r] = d]
                     /\ readAt' = [readAt EXCEPT ![r] = now]
                     /\ pc' = [pc EXCEPT ![r] = "reading"]
                     /\ UNCHANGED outcome
                  \/ /\ Deny(r, CheckOrder[FirstFailure(d, now)])
                     /\ Failing(d, now) # {}
                     /\ UNCHANGED <<req, readAt>>
                  \/ /\ Deny(r, "client gone")
                     /\ UNCHANGED <<req, readAt>>
  BY DEF Arrive
<1>3. outcome[r] = "pending" /\ ~accepted(r) /\ ~inFlight(r)
  BY <1>1 DEF IdlePending, accepted, inFlight
<1>4. d.proof \in Proofs /\ signed[d.proof] # None
  BY <1>1, <1>2 DEF OutboundSigned
<1>5. CASE /\ Failing(d, now) = {}
           /\ req' = [req EXCEPT ![r] = d] /\ readAt' = [readAt EXCEPT ![r] = now]
           /\ pc' = [pc EXCEPT ![r] = "reading"] /\ UNCHANGED outcome
  <2>1. /\ req' = [req EXCEPT ![r] = d] /\ readAt' = [readAt EXCEPT ![r] = now]
        /\ pc' = [pc EXCEPT ![r] = "reading"] /\ UNCHANGED outcome
    BY <1>5
  <2>2. now - signed[d.proof].iat <= popSkew
    <3>1. 5 \in 1..Len(CheckOrder) /\ CheckOrder[5] = "stale"
      BY DEF CheckOrder
    <3>2. Passes(d, now, "stale")
      BY <1>5, <3>1 DEF Failing
    <3> QED
      BY <3>2 DEF Passes, Fresh
  <2>3. Shape'
    BY <1>1, <2>1 DEF Shape
  <2>4. OutboundSigned' /\ IdlePending'
    BY <1>1, <2>1 DEF OutboundSigned, IdlePending, Shape
  <2>5. InFlightFresh'
    <3>1. /\ req'[r].proof = d.proof /\ readAt'[r] = now /\ outcome'[r] = "pending"
      BY <1>3, <2>1 DEF Shape
    <3>2. now <= now + MaxLag
      BY CallerAssumption DEF Shape
    <3>3. \A s \in Deliveries : s # r => /\ req'[s] = req[s] /\ pc'[s] = pc[s]
                                         /\ readAt'[s] = readAt[s]
                                         /\ outcome'[s] = outcome[s]
      BY <2>1 DEF Shape
    <3> QED
      BY <1>1, <1>4, <2>2, <3>1, <3>2, <3>3 DEF InFlightFresh, inFlight
  <2>6. \A s \in Deliveries : outcome[s] # "pending" =>
          s # r /\ req'[s] = req[s] /\ pc'[s] = pc[s] /\ outcome'[s] = outcome[s]
    BY <1>3, <2>1 DEF Shape
  <2>7. ServedRemembered'
    BY <1>1, <2>1, <2>6 DEF ServedRemembered, accepted, ReplayExp
  <2>8. SlotsHeldByAccepted' /\ ReplayMeansAnotherServed'
    BY <1>1, <2>1, <2>6
       DEF SlotsHeldByAccepted, ReplayMeansAnotherServed, accepted
  <2> QED
    BY <2>3, <2>4, <2>5, <2>7, <2>8
<1>6. CASE \/ /\ Failing(d, now) # {}
              /\ Deny(r, CheckOrder[FirstFailure(d, now)])
              /\ UNCHANGED <<req, readAt>>
           \/ Deny(r, "client gone") /\ UNCHANGED <<req, readAt>>
  <2>1. \E why : Deny(r, why) /\ why \notin {"accepted", "replay", "pending"}
    <3>1. CASE Deny(r, "client gone")
      <4>1. "client gone" \notin {"accepted", "replay", "pending"}
        OBVIOUS
      <4> QED
        BY <3>1, <4>1
    <3>2. CASE /\ Failing(d, now) # {}
               /\ Deny(r, CheckOrder[FirstFailure(d, now)])
      <4>1. CheckOrder[FirstFailure(d, now)] \notin {"accepted", "replay", "pending"}
        BY <3>2, FailureNamed
      <4> QED
        BY <3>2, <4>1
    <3> QED
      BY <1>6, <3>1, <3>2
  <2>3. PICK why : Deny(r, why) /\ why \notin {"accepted", "replay", "pending"}
    BY <2>1
  <2>2. UNCHANGED <<now, mem, signed, outbound, req, readAt>>
    BY <1>1, <1>6
  <2> QED
    BY <1>3, <2>2, <2>3, RefusingKeepsInv
<1> QED
  BY <1>2, <1>5, <1>6

\* pop/verify.go:225-239: the content is checked before anything is recorded.
LEMMA CheckContentInv ==
  ASSUME NEW r \in Deliveries, Inv, CheckContent(r)
  PROVE  Inv'
<1> USE DEF Inv
<1>1. /\ UNCHANGED <<now, mem, signed, outbound, req, readAt>>
      /\ pc[r] = "reading"
  BY DEF CheckContent, cacheVars, callerVars
<1>2. outcome[r] = "pending" /\ ~accepted(r)
  BY <1>1 DEF InFlightFresh, inFlight, accepted
<1>3. CASE Deny(r, "content unreadable") \/ Deny(r, "content mismatch")
  BY <1>1, <1>2, <1>3, RefusingKeepsInv
<1>4. CASE pc' = [pc EXCEPT ![r] = "committing"] /\ UNCHANGED outcome
  <2>1. Shape' /\ OutboundSigned' /\ IdlePending'
    BY <1>1, <1>4 DEF Shape, OutboundSigned, IdlePending
  <2>2. InFlightFresh'
    BY <1>1, <1>4 DEF InFlightFresh, inFlight, Shape
  <2>3. ServedRemembered'
    BY <1>1, <1>2, <1>4 DEF ServedRemembered, accepted, ReplayExp, Shape
  <2>4. SlotsHeldByAccepted' /\ ReplayMeansAnotherServed'
    BY <1>1, <1>4 DEF SlotsHeldByAccepted, ReplayMeansAnotherServed, accepted
  <2> QED
    BY <2>1, <2>2, <2>3, <2>4
<1> QED
  BY <1>3, <1>4 DEF CheckContent

\* pop/verify.go:301-315: exactly an accepted delivery records its jti.
LEMMA CommitInv ==
  ASSUME NEW r \in Deliveries, Inv, CommitReplay(r)
  PROVE  Inv'
<1> DEFINE p == req[r].proof
<1> USE DEF Inv
<1>1. UNCHANGED <<signed, outbound, req, readAt>> /\ pc[r] = "committing"
  BY DEF CommitReplay, callerVars
<1>2. /\ outcome[r] = "pending" /\ ~accepted(r)
      /\ p \in Proofs /\ signed[p] # None
  BY <1>1 DEF InFlightFresh, inFlight, accepted
<1>3. CASE Replay!Full(p) /\ Deny(r, "cache full")
  <2>1. PICK gone \in Replay!Forgettable : mem' = Replay!Keep(gone)
    BY <1>3 DEF Replay!Full
  <2>2. UNCHANGED now /\ Deny(r, "cache full")
    BY <1>3 DEF Replay!Full
  <2> QED
    BY <1>1, <1>2, <2>1, <2>2, AnsweringKeepsInv
<1>4. CASE Replay!Seen(p) /\ Deny(r, "replay")
  <2>1. PICK gone \in Replay!Forgettable : mem' = Replay!Keep(gone)
    BY <1>4 DEF Replay!Seen
  <2>2. UNCHANGED now /\ Deny(r, "replay") /\ p \in DOMAIN mem
    BY <1>4 DEF Replay!Seen, Replay!Live
  <2>3. \E s \in Deliveries : accepted(s) /\ req[s].proof = p
    BY <2>2 DEF SlotsHeldByAccepted
  <2> QED
    BY <1>1, <1>2, <2>1, <2>2, <2>3, AnsweringKeepsInv
<1>5. CASE /\ Replay!Stored(p, ReplayExp(p))
           /\ pc' = [pc EXCEPT ![r] = "done"]
           /\ outcome' = [outcome EXCEPT ![r] = "accepted"]
  <2>1. PICK gone \in Replay!Forgettable :
          mem' = [x \in (DOMAIN mem \ gone) \cup {p} |->
                    IF x = p THEN ReplayExp(p) ELSE mem[x]]
    BY <1>5 DEF Replay!Stored
  <2>2. UNCHANGED now
    BY <1>5 DEF Replay!Stored
  <2>3. /\ DOMAIN mem' = (DOMAIN mem \ gone) \cup {p}
        /\ mem'[p] = ReplayExp(p)
        /\ \A x \in DOMAIN mem \ gone : x # p => mem'[x] = mem[x]
    BY <2>1
  <2>4. /\ pc'[r] = "done" /\ outcome'[r] = "accepted"
        /\ \A s \in Deliveries : s # r => pc'[s] = pc[s] /\ outcome'[s] = outcome[s]
    BY <1>5 DEF Shape
  <2>5. \A s \in Deliveries : accepted(s) => accepted(s)' /\ s # r
    BY <1>2, <2>4 DEF accepted
  <2>6. Shape'
    BY <1>1, <1>2, <1>5, <2>2, <2>3 DEF Shape
  <2>7. OutboundSigned' /\ IdlePending'
    BY <1>1, <2>4 DEF OutboundSigned, IdlePending
  <2>8. InFlightFresh'
    BY <1>1, <2>2, <2>4 DEF InFlightFresh, inFlight
  <2>9. ServedRemembered'
    <3>1. ASSUME NEW s \in Deliveries, s # r, accepted(s)',
                 ReplayExp(req[s].proof) > now
          PROVE  /\ req[s].proof \in DOMAIN mem'
                 /\ mem'[req[s].proof] = ReplayExp(req[s].proof)
      <4>1. accepted(s)
        BY <2>4, <3>1 DEF accepted
      <4>2. /\ req[s].proof \in DOMAIN mem \ gone
            /\ mem[req[s].proof] = ReplayExp(req[s].proof)
        BY <3>1, <4>1, ForgettingKeepsServed
      <4> QED
        BY <2>3, <4>2
    <3>2. \A s \in Deliveries : s # r /\ accepted(s)' => accepted(s)
      BY <2>4 DEF accepted
    <3>3. ASSUME NEW s \in Deliveries, accepted(s)'
          PROVE  pc'[s] = "done" /\ req[s].proof \in Proofs
                 /\ signed[req[s].proof] # None
      <4>1. CASE s = r
        BY <1>2, <2>4, <4>1
      <4>2. CASE s # r
        BY <2>4, <3>2, <3>3, <4>2 DEF ServedRemembered
      <4> QED
        BY <4>1, <4>2
    <3>4. ASSUME NEW s \in Deliveries, accepted(s)',
                 ReplayExp(req[s].proof) > now
          PROVE  /\ req[s].proof \in DOMAIN mem'
                 /\ mem'[req[s].proof] = ReplayExp(req[s].proof)
      <4>1. CASE s = r
        BY <2>3, <4>1
      <4>2. CASE s # r
        BY <3>1, <3>4, <4>2
      <4> QED
        BY <4>1, <4>2
    <3>5. req' = req /\ signed' = signed /\ now' = now
      BY <1>1, <2>2
    <3> QED
      BY <3>3, <3>4, <3>5 DEF ServedRemembered, ReplayExp
  <2>10. SlotsHeldByAccepted'
    <3>1. ASSUME NEW x \in DOMAIN mem'
          PROVE  \E s \in Deliveries : accepted(s)' /\ req'[s].proof = x
      <4>1. CASE x = p
        BY <1>1, <2>4, <4>1 DEF accepted
      <4>2. CASE x # p
        BY <1>1, <2>3, <2>5, <4>2 DEF SlotsHeldByAccepted
      <4> QED
        BY <4>1, <4>2
    <3> QED
      BY <3>1 DEF SlotsHeldByAccepted
  <2>11. ReplayMeansAnotherServed'
    BY <1>1, <2>4, <2>5 DEF ReplayMeansAnotherServed, accepted
  <2> QED
    BY <2>6, <2>7, <2>8, <2>9, <2>10, <2>11
<1> QED
  BY <1>3, <1>4, <1>5 DEF CommitReplay

\* Every step keeps the invariant.
LEMMA NextInv == Inv /\ [Next]_vars => Inv'
<1> SUFFICES ASSUME Inv, [Next]_vars PROVE Inv'
  OBVIOUS
<1>1. CASE UNCHANGED vars
  BY <1>1 DEF vars, cacheVars, worldVars, callerVars, calleeVars, Inv, Shape,
              OutboundSigned, InFlightFresh, inFlight, ServedRemembered, accepted,
              ReplayExp, IdlePending, SlotsHeldByAccepted, ReplayMeansAnotherServed
<1> QED
  BY <1>1, TickInv, SweepInv, WorldInv, AttachInv, ArriveInv, CheckContentInv,
     CommitInv DEF Next

\* The invariant of the callee and the callers around it.
LEMMA SpecInv == Spec => []Inv
  BY InitInv, NextInv, PTL DEF Spec

-----------------------------------------------------------------------------
(* Single use.                                                             *)

\* pop/verify.go:301-315: a delivery that is not late finds the jti of its
\* proof still held if another delivery of the proof was served before.
LEMMA CommitKeepsSingleUse ==
  ASSUME MaxLag < replayGrace, NEW r \in Deliveries, Inv, AtMostOnce,
         CommitReplay(r)
  PROVE  AtMostOnce'
<1> DEFINE p == req[r].proof
<1>1. /\ pc[r] = "committing" /\ req' = req
      /\ DOMAIN outcome = Deliveries
  BY DEF CommitReplay, Inv, Shape
<1>2. CASE outcome' = [outcome EXCEPT ![r] = "cache full"]
           \/ outcome' = [outcome EXCEPT ![r] = "replay"]
  BY <1>1, <1>2 DEF AtMostOnce, accepted
<1>3. CASE /\ Replay!Stored(p, ReplayExp(p))
           /\ outcome' = [outcome EXCEPT ![r] = "accepted"]
  <2>1. ~(p \in DOMAIN mem /\ mem[p] > now)
    BY <1>3 DEF Replay!Stored, Replay!Live
  <2>2. /\ p \in Proofs /\ signed[p] # None
        /\ readAt[r] - signed[p].iat <= popSkew
        /\ now <= readAt[r] + MaxLag
    BY <1>1 DEF Inv, InFlightFresh, inFlight
  <2>3. ReplayExp(p) > now
    <3>1. signed[p].iat \in Int
      BY <2>2, ReplayExpInt DEF Inv
    <3>2. readAt[r] \in Int /\ now \in Int
      BY DEF Inv, Shape
    <3> QED
      BY <2>2, <3>1, <3>2, CallerAssumption DEF ReplayExp
  <2>4. \A s \in Deliveries : accepted(s) => req[s].proof # p
    BY <2>1, <2>3 DEF Inv, ServedRemembered
  <2>5. \A s \in Deliveries : s # r => outcome'[s] = outcome[s]
    BY <1>1, <1>3
  <2> QED
    BY <1>1, <2>4, <2>5 DEF AtMostOnce, accepted
<1> QED
  BY <1>2, <1>3 DEF CommitReplay, Deny

\* pop/verify.go:96-113: no step but the record of the jti serves a delivery,
\* and what a served delivery carried is not touched again.
LEMMA OthersKeepSingleUse ==
  ASSUME Inv, AtMostOnce,
         \/ UNCHANGED <<req, outcome>>
         \/ \E r \in Deliveries : /\ pc[r] = "idle" \/ pc[r] = "reading"
                                 /\ \A s \in Deliveries :
                                      s # r => /\ req'[s] = req[s]
                                               /\ outcome'[s] = outcome[s]
                                 /\ outcome'[r] # "accepted"
  PROVE  AtMostOnce'
BY DEF AtMostOnce, accepted

\* The steps of the specification keep single use.
LEMMA NextKeepsSingleUse ==
  MaxLag < replayGrace /\ Inv /\ AtMostOnce /\ [Next]_vars => AtMostOnce'
<1> SUFFICES ASSUME MaxLag < replayGrace, Inv, AtMostOnce, [Next]_vars
             PROVE  AtMostOnce'
  OBVIOUS
<1>0. DOMAIN req = Deliveries /\ DOMAIN outcome = Deliveries
  BY DEF Inv, Shape
<1>1. CASE UNCHANGED vars
  BY <1>1, OthersKeepSingleUse DEF vars, calleeVars
<1>2. CASE Tick \/ SweepCache
  BY <1>2, OthersKeepSingleUse DEF Tick, SweepCache, calleeVars
<1>3. CASE \E a \in Agents : IssueStatusToken(a) \/ Revoke(a)
  BY <1>3, OthersKeepSingleUse DEF IssueStatusToken, Revoke, calleeVars
<1>4. CASE \E q \in Requests, p \in Proofs, c \in Certs : AttachIdentity(q, p, c)
  BY <1>4, OthersKeepSingleUse DEF AttachIdentity, calleeVars
<1>5. ASSUME NEW r \in Deliveries, NEW q \in Requests, Arrive(r, q)
      PROVE  AtMostOnce'
  <2>1. /\ pc[r] = "idle" /\ outcome[r] = "pending"
        /\ \A s \in Deliveries : s # r => req'[s] = req[s] /\ outcome'[s] = outcome[s]
    BY <1>0, <1>5 DEF Arrive, Deny, Inv, IdlePending
  <2>2. outcome'[r] # "accepted"
    <3>1. UNCHANGED outcome \/ \E why : Deny(r, why) /\ why # "accepted"
      <4>1. PICK d : \/ UNCHANGED outcome
                     \/ /\ Failing(d, now) # {}
                        /\ Deny(r, CheckOrder[FirstFailure(d, now)])
                     \/ Deny(r, "client gone")
        BY <1>5 DEF Arrive
      <4>2. Failing(d, now) # {} =>
              CheckOrder[FirstFailure(d, now)] \notin {"accepted", "replay", "pending"}
        BY FailureNamed
      <4>3. "client gone" # "accepted"
        OBVIOUS
      <4> QED
        BY <4>1, <4>2, <4>3
    <3> QED
      BY <1>0, <2>1, <3>1 DEF Deny
  <2> QED
    BY <2>1, <2>2, OthersKeepSingleUse
<1>6. ASSUME NEW r \in Deliveries, CheckContent(r)
      PROVE  AtMostOnce'
  <2>1. /\ pc[r] = "reading" /\ outcome[r] = "pending" /\ req' = req
        /\ \A s \in Deliveries : s # r => outcome'[s] = outcome[s]
        /\ outcome'[r] # "accepted"
    BY <1>0, <1>6 DEF CheckContent, Deny, Inv, InFlightFresh, inFlight
  <2> QED
    BY <2>1, OthersKeepSingleUse
<1>7. ASSUME NEW r \in Deliveries, CommitReplay(r)
      PROVE  AtMostOnce'
  BY <1>7, CommitKeepsSingleUse
<1> QED
  BY <1>1, <1>2, <1>3, <1>4, <1>5, <1>6, <1>7 DEF Next

-----------------------------------------------------------------------------
(* The theorems.                                                           *)

\* pop/verify.go:26-28: a proof reaches the handler once, provided that the
\* time from the clock reading of a verification to the record of its jti is
\* shorter than the grace.  The run MCCallerLate shows that it must be.
THEOREM SingleUseHolds ==
  ASSUME MaxLag < replayGrace
  PROVE  Spec => []AtMostOnce
<1>1. Init => AtMostOnce
  BY DEF Init, AtMostOnce, accepted
<1>2. Inv /\ AtMostOnce /\ [Next]_vars => AtMostOnce'
  BY NextKeepsSingleUse
<1> QED
  BY <1>1, <1>2, SpecInv, PTL DEF Spec


\* pop/verify.go:308-310: whatever is delivered, in whatever order and however
\* altered, only proofs that were served hold a slot of the bounded cache.
THEOREM SlotsAreEarned == Spec => []SlotsHeldByAccepted
<1>1. Inv => SlotsHeldByAccepted
  BY DEF Inv
<1> QED
  BY <1>1, SpecInv, PTL

\* pop/verify.go:88-89: a request refused as a replay was served before.
THEOREM ReplaysWereServed == Spec => []ReplayMeansAnotherServed
<1>1. Inv => ReplayMeansAnotherServed
  BY DEF Inv
<1> QED
  BY <1>1, SpecInv, PTL

-----------------------------------------------------------------------------
(* Whom a served request is attributed to, and until when a revoked agent  *)
(* is served.  Nothing is assumed of the time a verification takes.        *)

\* A token that calls its agent live was issued before the agent was revoked,
\* and no token outlives its lifetime counted from now.
TokensTruthful ==
  \A st \in tokens :
    /\ st.exp <= now + TokenTTL
    /\ ~st.terminal => \/ revokedAt[st.agent] = 0
                       \/ st.exp <= revokedAt[st.agent] + TokenTTL

\* The proof on a request has been signed, its token has been issued.
OutboundGenuine ==
  \A q \in Requests :
    /\ outbound[q].proof # None => signed[outbound[q].proof] # None
    /\ outbound[q].statusToken # None => outbound[q].statusToken \in tokens

\* What is being served, or was, has passed the checks at its clock reading: its
\* token is of the log and was valid, and the proof is bound to it.
PassedChecks ==
  \A r \in Deliveries : inFlight(r) \/ accepted(r) =>
    /\ req[r] \in Delivered
    /\ signed[req[r].proof] # None
    /\ req[r].statusToken \in tokens
    /\ TokenValid(req[r].statusToken, readAt[r])
    /\ Bound(req[r])

TrustInv == TypeOK /\ TokensTruthful /\ OutboundGenuine /\ PassedChecks

-----------------------------------------------------------------------------
(* What the types say of the parts.                                        *)

\* The fields of a status token.
LEMMA TokenFields ==
  ASSUME NEW st \in StatusTokens
  PROVE  st.agent \in Agents /\ st.exp \in Int /\ st.terminal \in BOOLEAN
BY CallerAssumption DEF StatusTokens

\* The answers of the checks are refusals.
LEMMA FailureTyped ==
  ASSUME NEW d, Failing(d, now) # {}
  PROVE  CheckOrder[FirstFailure(d, now)] \in Outcomes \ {"pending", "accepted"}
<1>1. FirstFailure(d, now) \in 1..Len(CheckOrder)
  <2>1. Failing(d, now) \subseteq 1..8
    BY DEF Failing, CheckOrder
  <2>2. PICK i \in Failing(d, now) : \A j \in Failing(d, now) : i <= j
    BY <2>1
  <2>3. FirstFailure(d, now) \in Failing(d, now)
    BY <2>2 DEF FirstFailure
  <2> QED
    BY <2>3 DEF Failing
<1>2. CheckOrder[FirstFailure(d, now)] \in Outcomes
  BY <1>1 DEF Outcomes
<1> QED
  BY <1>2, FailureNamed

\* A call of the cache that forgets keeps its entries' types.
LEMMA KeepTyped ==
  ASSUME TypeOK, NEW gone, mem' = Replay!Keep(gone)
  PROVE  DOMAIN mem' \subseteq Proofs /\ \A p \in DOMAIN mem' : mem'[p] \in Int
BY DEF TypeOK, Replay!Keep

\* The tokens an agent is issued are tokens.
LEMMA IssuedTyped ==
  ASSUME now \in Time, NEW a \in Agents
  PROVE  /\ StatusToken(a) \in StatusTokens
         /\ StatusToken(a).agent = a /\ StatusToken(a).exp = now + TokenTTL
<1>1. now + TokenTTL \in Start..(Horizon + TokenTTL)
  BY CallerAssumption DEF Time
<1> QED
  BY <1>1 DEF StatusToken, StatusTokens

-----------------------------------------------------------------------------

\* At the start every agent is live and nothing is under way.
LEMMA InitTrust == Init => TrustInv
<1> SUFFICES ASSUME Init PROVE TrustInv
  OBVIOUS
<1> USE DEF Init
<1>1. now \in Time /\ now \in Int
  BY CallerAssumption DEF Time
<1>2. tokens \subseteq StatusTokens
  BY <1>1, IssuedTyped
<1>3. outbound \in [Requests -> Headers]
  BY DEF NoHeaders, Headers
<1>4. reply \in [key : Proofs, verdict : Replay!Verdicts]
  BY DEF Replay!Verdicts
<1>5. TypeOK
  BY <1>1, <1>2, <1>3, <1>4 DEF TypeOK, Outcomes
<1>6. TokensTruthful
  <2> SUFFICES ASSUME NEW a \in Agents
               PROVE  /\ StatusToken(a).exp <= now + TokenTTL
                      /\ revokedAt[StatusToken(a).agent] = 0
    BY DEF TokensTruthful
  <2> QED
    BY <1>1, IssuedTyped, CallerAssumption
<1>7. OutboundGenuine
  BY DEF OutboundGenuine, NoHeaders
<1>8. PassedChecks
  BY DEF PassedChecks, inFlight, accepted
<1> QED
  BY <1>5, <1>6, <1>7, <1>8 DEF TrustInv

-----------------------------------------------------------------------------
(* The steps.                                                              *)

\* Time lets tokens run out and makes none live longer.
LEMMA TickTrust == TrustInv /\ Tick => TrustInv'
<1> SUFFICES ASSUME TrustInv, Tick PROVE TrustInv'
  OBVIOUS
<1> USE DEF TrustInv, Tick, cacheVars, worldVars, callerVars, calleeVars
<1>1. now' = now + 1 /\ now \in Time /\ now < Horizon /\ now \in Int
  BY CallerAssumption DEF TypeOK, Time
<1>2. now' \in Time
  BY <1>1, CallerAssumption DEF Time
<1>3. TypeOK'
  BY <1>2 DEF TypeOK
<1>4. TokensTruthful'
  <2> SUFFICES ASSUME NEW st \in tokens PROVE st.exp <= now' + TokenTTL
    BY DEF TokensTruthful
  <2>1. st.exp \in Int /\ st.exp <= now + TokenTTL
    BY TokenFields DEF TypeOK, TokensTruthful
  <2> QED
    BY <1>1, <2>1, CallerAssumption
<1>5. OutboundGenuine' /\ PassedChecks'
  BY DEF OutboundGenuine, PassedChecks, inFlight, accepted, TokenValid, Bound
<1> QED
  BY <1>3, <1>4, <1>5

\* pop/replay.go:217-232: what the cache drops has nothing to do with trust.
LEMMA SweepTrust == TrustInv /\ SweepCache => TrustInv'
<1> SUFFICES ASSUME TrustInv, SweepCache PROVE TrustInv'
  OBVIOUS
<1>1. PICK gone \in Replay!Forgettable : mem' = Replay!Keep(gone)
  BY DEF SweepCache, Replay!Sweep
<1>2. UNCHANGED <<now, reply, revokedAt, tokens, signed, outbound, pc, req, readAt, outcome>>
  BY DEF SweepCache, Replay!Sweep, worldVars, callerVars, calleeVars
<1>3. TypeOK'
  BY <1>1, <1>2, KeepTyped DEF TrustInv, TypeOK
<1> QED
  BY <1>2, <1>3 DEF TrustInv, TokensTruthful, OutboundGenuine, PassedChecks, inFlight,
                    accepted, TokenValid, Bound

\* The log calls an agent live in a new token only while it is.
LEMMA IssueTrust ==
  ASSUME NEW a \in Agents, TrustInv, IssueStatusToken(a)
  PROVE  TrustInv'
<1> USE DEF TrustInv, IssueStatusToken, cacheVars, callerVars, calleeVars
<1>1. now \in Time /\ now \in Int
  BY CallerAssumption DEF TypeOK, Time
<1>2. tokens' = tokens \cup {StatusToken(a)} /\ StatusToken(a) \in StatusTokens
  BY <1>1, IssuedTyped
<1>3. TypeOK'
  BY <1>2 DEF TypeOK
<1>4. StatusToken(a).exp <= now + TokenTTL
  BY <1>1, IssuedTyped, CallerAssumption
<1>5. TokensTruthful'
  <2>1. ~StatusToken(a).terminal => revokedAt[StatusToken(a).agent] = 0
    BY DEF StatusToken
  <2> QED
    BY <1>2, <1>4, <2>1 DEF TokensTruthful
<1>6. OutboundGenuine' /\ PassedChecks'
  BY <1>2 DEF OutboundGenuine, PassedChecks, inFlight, accepted, TokenValid, Bound
<1> QED
  BY <1>3, <1>5, <1>6

\* An agent that is revoked now has tokens that run out one lifetime from now.
LEMMA RevokeTrust ==
  ASSUME NEW a \in Agents, TrustInv, Revoke(a)
  PROVE  TrustInv'
<1> USE DEF TrustInv, Revoke, cacheVars, callerVars, calleeVars
<1>1. now \in Time /\ revokedAt' = [revokedAt EXCEPT ![a] = now]
  BY DEF TypeOK
<1>2. TypeOK'
  BY <1>1 DEF TypeOK
<1>3. TokensTruthful'
  <2> SUFFICES ASSUME NEW st \in tokens, ~st.terminal
               PROVE  \/ revokedAt'[st.agent] = 0
                      \/ st.exp <= revokedAt'[st.agent] + TokenTTL
    BY DEF TokensTruthful
  <2>1. st.agent \in Agents /\ st.exp <= now + TokenTTL
    BY TokenFields DEF TypeOK, TokensTruthful
  <2>2. CASE st.agent = a
    BY <1>1, <2>1, <2>2 DEF TypeOK
  <2>3. CASE st.agent # a
    BY <1>1, <2>1, <2>3 DEF TypeOK, TokensTruthful
  <2> QED
    BY <2>2, <2>3
<1>4. OutboundGenuine' /\ PassedChecks'
  BY DEF OutboundGenuine, PassedChecks, inFlight, accepted, TokenValid, Bound
<1> QED
  BY <1>2, <1>3, <1>4

\* pop/http.go:409-451: the headers of a request hold what was signed and issued,
\* and no proof is signed twice.
LEMMA AttachTrust ==
  ASSUME NEW q \in Requests, NEW p \in Proofs, NEW c \in Certs, TrustInv,
         AttachIdentity(q, p, c)
  PROVE  TrustInv'
<1> USE DEF TrustInv
<1>1. PICK off \in Offsets :
        signed' = [signed EXCEPT ![p] = [cert |-> c, iat |-> now + off]]
  BY DEF AttachIdentity
<1>2. UNCHANGED <<now, mem, reply, revokedAt, tokens, pc, req, readAt, outcome>>
      /\ signed[p] = None
  BY DEF AttachIdentity, cacheVars, worldVars, calleeVars
<1>3. [cert |-> c, iat |-> now + off] \in [cert : Certs, iat : Int]
  BY CallerAssumption DEF TypeOK, Time
<1>4. /\ signed' \in [Proofs -> {None} \cup [cert : Certs, iat : Int]]
      /\ signed'[p] # None
      /\ \A x \in Proofs : signed[x] # None => signed'[x] = signed[x]
  BY <1>1, <1>2, <1>3, CallerAssumption DEF TypeOK
<1>5. PICK st \in tokens \cup {None}, rc \in Agents \cup {None} :
        LET old == outbound[q]
            First(carried, added) == IF carried = None THEN added ELSE carried
            Both(carried, added) == carried # None /\ added # None
        IN  outbound' = [outbound EXCEPT
              ![q] = [proof |-> p,
                      statusToken |-> First(old.statusToken, st),
                      receipt |-> First(old.receipt, rc),
                      duplicated |-> old.duplicated \/ Both(old.statusToken, st)
                                                    \/ Both(old.receipt, rc)]]
  BY DEF AttachIdentity
<1> DEFINE h == outbound[q]
           token == IF h.statusToken = None THEN st ELSE h.statusToken
           receipt == IF h.receipt = None THEN rc ELSE h.receipt
           twice == h.duplicated \/ (h.statusToken # None /\ st # None)
                                 \/ (h.receipt # None /\ rc # None)
<1>6. /\ h.statusToken \in StatusTokens \cup {None} /\ h.receipt \in Agents \cup {None}
      /\ h.statusToken # None => h.statusToken \in tokens
  BY DEF TypeOK, Headers, OutboundGenuine
<1>7. /\ token \in StatusTokens \cup {None}
      /\ token # None => token \in tokens
      /\ receipt \in Agents \cup {None}
  BY <1>6 DEF TypeOK
<1>8. twice \in BOOLEAN
  <2>1. h.duplicated \in BOOLEAN
    BY DEF TypeOK, Headers
  <2> QED
    BY <2>1
<1>9. /\ outbound' = [outbound EXCEPT ![q] = [proof |-> p, statusToken |-> token,
                                              receipt |-> receipt, duplicated |-> twice]]
      /\ outbound' \in [Requests -> Headers]
  <2>1. outbound' = [outbound EXCEPT ![q] = [proof |-> p, statusToken |-> token,
                                             receipt |-> receipt, duplicated |-> twice]]
    BY <1>5
  <2> HIDE DEF token, receipt, twice
  <2>2. [proof |-> p, statusToken |-> token, receipt |-> receipt, duplicated |-> twice]
          \in Headers
    BY <1>7, <1>8 DEF Headers
  <2> QED
    BY <2>1, <2>2 DEF TypeOK
<1> HIDE DEF token, receipt, twice
<1>10. TypeOK'
  BY <1>2, <1>4, <1>9 DEF TypeOK
<1>11. TokensTruthful'
  BY <1>2 DEF TokensTruthful
<1>12. OutboundGenuine'
  <2> SUFFICES ASSUME NEW x \in Requests
               PROVE  /\ outbound'[x].proof # None => signed'[outbound'[x].proof] # None
                      /\ outbound'[x].statusToken # None => outbound'[x].statusToken \in tokens
    BY <1>2 DEF OutboundGenuine
  <2>1. CASE x = q
    <3>1. outbound'[x] = [proof |-> p, statusToken |-> token,
                          receipt |-> receipt, duplicated |-> twice]
      BY <1>9, <2>1 DEF TypeOK
    <3> QED
      BY <1>4, <1>7, <3>1
  <2>2. CASE x # q
    <3>1. outbound'[x] = outbound[x] /\ outbound[x].proof \in Proofs \cup {None}
      BY <1>9, <2>2 DEF TypeOK, Headers
    <3> QED
      BY <1>4, <3>1 DEF OutboundGenuine
  <2> QED
    BY <2>1, <2>2
<1>13. PassedChecks'
  <2> SUFFICES ASSUME NEW r \in Deliveries, inFlight(r) \/ accepted(r)
               PROVE  signed'[req[r].proof] # None /\ Bound(req[r])'
    BY <1>2 DEF PassedChecks, inFlight, accepted, TokenValid
  <2>1. req[r].proof \in Proofs /\ signed[req[r].proof] # None /\ Bound(req[r])
    BY DEF PassedChecks, TypeOK, Delivered
  <2>2. signed'[req[r].proof] = signed[req[r].proof]
    BY <1>4, <2>1
  <2> QED
    BY <1>2, <2>1, <2>2 DEF Bound
<1> QED
  BY <1>10, <1>11, <1>12, <1>13

\* A delivery that is refused counts no more.
LEMMA RefusingKeepsTrust ==
  ASSUME TrustInv, NEW r \in Deliveries,
         UNCHANGED <<now, revokedAt, tokens, signed, outbound, req, readAt>>,
         reply' \in [key : Proofs, verdict : Replay!Verdicts],
         DOMAIN mem' \subseteq Proofs, \A p \in DOMAIN mem' : mem'[p] \in Int,
         NEW why \in Outcomes \ {"pending", "accepted"}, Deny(r, why)
  PROVE  TrustInv'
<1> USE DEF TrustInv
<1>1. pc' = [pc EXCEPT ![r] = "done"] /\ outcome' = [outcome EXCEPT ![r] = why]
  BY DEF Deny
<1>2. /\ pc' \in [Deliveries -> {"idle", "reading", "committing", "done"}]
      /\ outcome' \in [Deliveries -> Outcomes]
      /\ \A s \in Deliveries : pc'[s] = "done" <=> outcome'[s] # "pending"
  BY <1>1 DEF TypeOK
<1>3. TypeOK'
  BY <1>2 DEF TypeOK
<1>4. \A s \in Deliveries : (inFlight(s) \/ accepted(s))' => inFlight(s) \/ accepted(s)
  BY <1>1 DEF TypeOK, inFlight, accepted
<1>5. PassedChecks'
  BY <1>4 DEF PassedChecks, TokenValid, Bound
<1> QED
  BY <1>3, <1>5 DEF TokensTruthful, OutboundGenuine

\* pop/caller.go:224-300: what passes has a valid token of the log, and the proof
\* is bound to its agent.
LEMMA ArriveTrust ==
  ASSUME NEW r \in Deliveries, NEW q \in Requests, TrustInv, Arrive(r, q)
  PROVE  TrustInv'
<1> USE DEF TrustInv
<1>1. /\ UNCHANGED <<now, mem, reply, revokedAt, tokens, signed, outbound>>
      /\ pc[r] = "idle" /\ outbound[q].proof # None
  BY DEF Arrive, cacheVars, worldVars, callerVars
<1>2. PICK how \in {"nothing", "context", "content"} :
        LET d == [proof |-> outbound[q].proof, receipt |-> outbound[q].receipt,
                  statusToken |-> outbound[q].statusToken,
                  duplicated |-> outbound[q].duplicated, altered |-> how]
        IN  \/ /\ Failing(d, now) = {}
               /\ req' = [req EXCEPT ![r] = d]
               /\ readAt' = [readAt EXCEPT ![r] = now]
               /\ pc' = [pc EXCEPT ![r] = "reading"]
               /\ UNCHANGED outcome
            \/ /\ Failing(d, now) # {}
               /\ Deny(r, CheckOrder[FirstFailure(d, now)])
               /\ UNCHANGED <<req, readAt>>
            \/ /\ Deny(r, "client gone")
               /\ UNCHANGED <<req, readAt>>
  BY DEF Arrive
<1> DEFINE d == [proof |-> outbound[q].proof, receipt |-> outbound[q].receipt,
                 statusToken |-> outbound[q].statusToken,
                 duplicated |-> outbound[q].duplicated, altered |-> how]
<1>3. /\ d \in Delivered /\ signed[d.proof] # None
      /\ d.statusToken # None => d.statusToken \in tokens
  BY <1>1 DEF TypeOK, Headers, Delivered, OutboundGenuine
<1>4. \/ /\ Failing(d, now) = {}
         /\ req' = [req EXCEPT ![r] = d] /\ readAt' = [readAt EXCEPT ![r] = now]
         /\ pc' = [pc EXCEPT ![r] = "reading"] /\ UNCHANGED outcome
      \/ /\ \E why \in Outcomes \ {"pending", "accepted"} : Deny(r, why)
         /\ UNCHANGED <<req, readAt>>
  <2>1. "client gone" \in Outcomes \ {"pending", "accepted"}
    BY DEF Outcomes
  <2> HIDE DEF d
  <2>2. Failing(d, now) # {} =>
          CheckOrder[FirstFailure(d, now)] \in Outcomes \ {"pending", "accepted"}
    BY FailureTyped
  <2> QED
    BY <1>2, <2>1, <2>2 DEF d
<1> HIDE DEF d
<1>5. CASE /\ Failing(d, now) = {}
           /\ req' = [req EXCEPT ![r] = d] /\ readAt' = [readAt EXCEPT ![r] = now]
           /\ pc' = [pc EXCEPT ![r] = "reading"] /\ UNCHANGED outcome
  <2>1. /\ 6 \in 1..Len(CheckOrder) /\ CheckOrder[6] = "status"
        /\ 7 \in 1..Len(CheckOrder) /\ CheckOrder[7] = "binding"
    BY DEF CheckOrder
  <2>2. d.statusToken # None /\ TokenValid(d.statusToken, now)
    <3>1. Passes(d, now, "status")
      BY <1>5, <2>1 DEF Failing
    <3> QED
      BY <3>1 DEF Passes, TokenValid
  <2>3. Bound(d)
    <3>1. Passes(d, now, "binding")
      BY <1>5, <2>1 DEF Failing
    <3> QED
      BY <3>1 DEF Passes, Bound
  <2>4. outcome[r] = "pending" /\ now \in Time
    BY <1>1 DEF TypeOK
  <2>5. /\ pc' \in [Deliveries -> {"idle", "reading", "committing", "done"}]
        /\ req' \in [Deliveries -> {None} \cup Delivered]
        /\ readAt' \in [Deliveries -> {0} \cup Time]
    BY <1>3, <1>5, <2>4 DEF TypeOK
  <2>6. TypeOK'
    <3>1. \A s \in Deliveries : pc'[s] = "done" <=> outcome'[s] # "pending"
      BY <1>5, <2>4 DEF TypeOK
    <3> QED
      BY <1>1, <1>5, <2>5, <3>1 DEF TypeOK
  <2>7. PassedChecks'
    <3> SUFFICES ASSUME NEW s \in Deliveries, (inFlight(s) \/ accepted(s))'
                 PROVE  /\ req'[s] \in Delivered
                        /\ signed[req'[s].proof] # None
                        /\ req'[s].statusToken \in tokens
                        /\ TokenValid(req'[s].statusToken, readAt'[s])
                        /\ Bound(req'[s])
      BY <1>1 DEF PassedChecks, TokenValid, Bound
    <3>1. CASE s = r
      <4>1. req'[s] = d /\ readAt'[s] = now
        BY <1>5, <3>1 DEF TypeOK
      <4> QED
        BY <1>3, <2>2, <2>3, <4>1
    <3>2. CASE s # r
      <4>1. req'[s] = req[s] /\ readAt'[s] = readAt[s] /\ (inFlight(s) \/ accepted(s))
        BY <1>5, <3>2 DEF TypeOK, inFlight, accepted
      <4> QED
        BY <4>1 DEF PassedChecks
    <3> QED
      BY <3>1, <3>2
  <2> QED
    BY <1>1, <2>6, <2>7 DEF TokensTruthful, OutboundGenuine
<1>6. CASE /\ \E why \in Outcomes \ {"pending", "accepted"} : Deny(r, why)
           /\ UNCHANGED <<req, readAt>>
  BY <1>1, <1>6, RefusingKeepsTrust DEF TypeOK
<1> QED
  BY <1>4, <1>5, <1>6

\* pop/verify.go:225-239: the content changes nothing in who called.
LEMMA CheckContentTrust ==
  ASSUME NEW r \in Deliveries, TrustInv, CheckContent(r)
  PROVE  TrustInv'
<1> USE DEF TrustInv
<1>1. /\ UNCHANGED <<now, mem, reply, revokedAt, tokens, signed, outbound, req, readAt>>
      /\ pc[r] = "reading"
  BY DEF CheckContent, cacheVars, worldVars, callerVars
<1>2. CASE Deny(r, "content unreadable") \/ Deny(r, "content mismatch")
  <2>1. {"content unreadable", "content mismatch"} \subseteq Outcomes \ {"pending", "accepted"}
    BY DEF Outcomes
  <2> QED
    BY <1>1, <1>2, <2>1, RefusingKeepsTrust DEF TypeOK
<1>3. CASE pc' = [pc EXCEPT ![r] = "committing"] /\ UNCHANGED outcome
  <2>1. TypeOK'
    BY <1>1, <1>3 DEF TypeOK
  <2>2. \A s \in Deliveries : (inFlight(s) \/ accepted(s))' => inFlight(s) \/ accepted(s)
    BY <1>1, <1>3 DEF TypeOK, inFlight, accepted
  <2>3. PassedChecks'
    BY <1>1, <2>2 DEF PassedChecks, TokenValid, Bound
  <2> QED
    BY <1>1, <2>1, <2>3 DEF TokensTruthful, OutboundGenuine
<1> QED
  BY <1>2, <1>3 DEF CheckContent

\* pop/verify.go:301-315: a delivery is served that has passed every check.
LEMMA CommitTrust ==
  ASSUME NEW r \in Deliveries, TrustInv, CommitReplay(r)
  PROVE  TrustInv'
<1> DEFINE p == req[r].proof
<1> USE DEF TrustInv
<1>1. /\ UNCHANGED <<revokedAt, tokens, signed, outbound, req, readAt>>
      /\ pc[r] = "committing"
  BY DEF CommitReplay, worldVars, callerVars
<1>2. inFlight(r) /\ p \in Proofs /\ signed[p] # None
  BY <1>1 DEF TypeOK, Delivered, inFlight, PassedChecks
<1>3. CASE Replay!Seen(p) /\ Deny(r, "replay")
  <2>1. PICK gone \in Replay!Forgettable : mem' = Replay!Keep(gone)
    BY <1>3 DEF Replay!Seen
  <2>2. UNCHANGED now /\ reply' \in [key : Proofs, verdict : Replay!Verdicts]
    BY <1>2, <1>3 DEF Replay!Seen, Replay!Answer, Replay!Verdicts
  <2>3. "replay" \in Outcomes \ {"pending", "accepted"}
    BY DEF Outcomes
  <2> QED
    BY <1>1, <1>3, <2>1, <2>2, <2>3, KeepTyped, RefusingKeepsTrust
<1>4. CASE Replay!Full(p) /\ Deny(r, "cache full")
  <2>1. PICK gone \in Replay!Forgettable : mem' = Replay!Keep(gone)
    BY <1>4 DEF Replay!Full
  <2>2. UNCHANGED now /\ reply' \in [key : Proofs, verdict : Replay!Verdicts]
    BY <1>2, <1>4 DEF Replay!Full, Replay!Answer, Replay!Verdicts
  <2>3. "cache full" \in Outcomes \ {"pending", "accepted"}
    BY DEF Outcomes
  <2> QED
    BY <1>1, <1>4, <2>1, <2>2, <2>3, KeepTyped, RefusingKeepsTrust
<1>5. CASE /\ Replay!Stored(p, ReplayExp(p))
           /\ pc' = [pc EXCEPT ![r] = "done"]
           /\ outcome' = [outcome EXCEPT ![r] = "accepted"]
  <2>1. PICK gone \in Replay!Forgettable :
          mem' = [x \in (DOMAIN mem \ gone) \cup {p} |->
                    IF x = p THEN ReplayExp(p) ELSE mem[x]]
    BY <1>5 DEF Replay!Stored
  <2>2. UNCHANGED now /\ reply' \in [key : Proofs, verdict : Replay!Verdicts]
    BY <1>2, <1>5 DEF Replay!Stored, Replay!Answer, Replay!Verdicts
  <2>3. ReplayExp(p) \in Int
    <3>1. signed[p].iat \in Int
      BY <1>2 DEF TypeOK
    <3> QED
      BY <3>1, CallerAssumption DEF ReplayExp
  <2> HIDE DEF p
  <2>4. DOMAIN mem' \subseteq Proofs /\ \A x \in DOMAIN mem' : mem'[x] \in Int
    BY <1>2, <2>1, <2>3 DEF TypeOK
  <2>5. /\ pc' \in [Deliveries -> {"idle", "reading", "committing", "done"}]
        /\ outcome' \in [Deliveries -> Outcomes]
        /\ \A s \in Deliveries : pc'[s] = "done" <=> outcome'[s] # "pending"
    BY <1>5 DEF TypeOK, Outcomes
  <2>6. TypeOK'
    BY <1>1, <2>2, <2>4, <2>5 DEF TypeOK
  <2>7. \A s \in Deliveries : (inFlight(s) \/ accepted(s))' => inFlight(s) \/ accepted(s)
    BY <1>2, <1>5 DEF TypeOK, inFlight, accepted
  <2>8. PassedChecks'
    BY <1>1, <2>7 DEF PassedChecks, TokenValid, Bound
  <2> QED
    BY <1>1, <2>2, <2>6, <2>8 DEF TokensTruthful, OutboundGenuine
<1> QED
  BY <1>3, <1>4, <1>5 DEF CommitReplay

\* Every step keeps the invariant.
LEMMA NextTrust == TrustInv /\ [Next]_vars => TrustInv'
<1> SUFFICES ASSUME TrustInv, [Next]_vars PROVE TrustInv'
  OBVIOUS
<1>1. CASE UNCHANGED vars
  BY <1>1 DEF vars, cacheVars, worldVars, callerVars, calleeVars, TrustInv, TypeOK,
              TokensTruthful, OutboundGenuine, PassedChecks, inFlight, accepted,
              TokenValid, Bound
<1> QED
  BY <1>1, TickTrust, SweepTrust, IssueTrust, RevokeTrust, AttachTrust, ArriveTrust,
     CheckContentTrust, CommitTrust DEF Next

\* The invariant of who vouches for whom.
LEMMA SpecTrust == Spec => []TrustInv
  BY InitTrust, NextTrust, PTL DEF Spec

-----------------------------------------------------------------------------
(* The theorems.                                                           *)

\* The state keeps its shape, and a delivery is answered exactly when it is done.
THEOREM TypeCorrect == Spec => []TypeOK
<1>1. TrustInv => TypeOK
  BY DEF TrustInv
<1> QED
  BY <1>1, SpecTrust, PTL

\* pop/doc.go:20-33: whoever is served holds a key that the log registered for the
\* agent the request is attributed to; the artifacts, which are public, do not
\* make anyone that agent.
THEOREM SignerIsCaller == Spec => []CallerIsSigner
<1>1. TrustInv => CallerIsSigner
  <2> SUFFICES ASSUME TrustInv, NEW r \in Deliveries, accepted(r)
               PROVE  LET c == signed[req[r].proof].cert
                      IN  c \in Registered[ansOf[c]] /\ req[r].statusToken.agent = ansOf[c]
    BY DEF CallerIsSigner
  <2>1. Bound(req[r])
    BY DEF TrustInv, PassedChecks
  <2> QED
    BY <2>1 DEF Bound
<1> QED
  BY <1>1, SpecTrust, PTL

\* pop/doc.go:24-25: the tokens that call a revoked agent live end one lifetime
\* after the revocation, whoever keeps presenting them.
THEOREM RevokedIsRefused == Spec => []RevocationTakesEffect
<1>1. TrustInv => RevocationTakesEffect
  <2> SUFFICES ASSUME TrustInv, NEW r \in Deliveries, accepted(r),
                      revokedAt[req[r].statusToken.agent] # 0
               PROVE  readAt[r] <= revokedAt[req[r].statusToken.agent]
                                     + TokenTTL + statusSkew
    BY DEF RevocationTakesEffect
  <2> DEFINE st == req[r].statusToken
  <2>1. /\ st \in tokens /\ readAt[r] <= st.exp + statusSkew /\ ~st.terminal
    BY DEF TrustInv, PassedChecks, TokenValid
  <2>2. st.exp <= revokedAt[st.agent] + TokenTTL
    BY <2>1 DEF TrustInv, TokensTruthful
  <2>3. st.agent \in Agents /\ st.exp \in Int
    BY <2>1, TokenFields DEF TrustInv, TypeOK
  <2> HIDE DEF st
  <2>4. readAt[r] \in Int /\ revokedAt[st.agent] \in Int
    BY <2>3, CallerAssumption DEF TrustInv, TypeOK, Time
  <2>5. readAt[r] <= revokedAt[st.agent] + TokenTTL + statusSkew
    BY <2>1, <2>2, <2>3, <2>4, CallerAssumption
  <2> QED
    BY <2>5 DEF st
<1> QED
  BY <1>1, SpecTrust, PTL
=============================================================================
