------------------------ MODULE HeaderSupplierProofs ------------------------
(***************************************************************************)
(* Proofs about HeaderSupplier, for any number of requests and refreshers. *)
(* That the auto-refresh loop rides out one failure holds when a token     *)
(* lives long enough beside a fetch (Timely); the other theorems assume    *)
(* nothing of the durations.                                               *)
(***************************************************************************)
EXTENDS HeaderSupplier, TLAPS

\* A token and its expiry are always stored, and read, together.
ReadTogether ==
  /\ statusToken = tokenExp
  /\ \A c \in Requests : read[c].token = read[c].exp

HeadersInv == TypeOK /\ ReadTogether

-----------------------------------------------------------------------------
(* The type invariant, and what is read together.                          *)

LEMMA TypeInit == Init => HeadersInv
<1> SUFFICES ASSUME Init PROVE HeadersInv
  OBVIOUS
<1> USE SupplierAssumption DEF Init
<1>1. NothingRead \in [receipt : BOOLEAN, token : MaybeTime, exp : MaybeTime]
  BY DEF NothingRead, MaybeTime
<1>2. NoHeaders \in [receipt : BOOLEAN, token : MaybeTime]
  BY DEF NoHeaders, MaybeTime
<1>3. ReadTogether
  BY DEF ReadTogether, NothingRead
<1>4. TypeOK
  <2>1. failed \in [Goroutines -> BOOLEAN]
    OBVIOUS
  <2>2. receipt \in BOOLEAN /\ initialized \in BOOLEAN /\ lastError \in BOOLEAN
    OBVIOUS
  <2>3. \A c \in Requests : pc[c] \in FetchSteps <=> initGate = c
    BY DEF FetchSteps, Goroutines
  <2>4. /\ read \in [Requests -> [receipt : BOOLEAN, token : MaybeTime, exp : MaybeTime]]
        /\ headers \in [Requests -> [receipt : BOOLEAN, token : MaybeTime]]
    BY <1>1, <1>2
  <2> QED
    BY <2>1, <2>2, <2>3, <2>4 DEF TypeOK, FetchSteps, MaybeTime
<1> QED
  BY <1>3, <1>4 DEF HeadersInv

LEMMA TypeStep ==
  ASSUME HeadersInv, [Next]_vars
  PROVE  HeadersInv'
<1> USE SupplierAssumption DEF HeadersInv
<1> USE DEF TypeOK, ReadTogether, MaybeTime, FetchSteps, Goroutines
<1>1. CASE Tick
  BY <1>1 DEF Tick, held, locals
<1>2. ASSUME NEW c \in Requests, Read(c) PROVE HeadersInv'
  BY <1>2 DEF Read, Goto, Fields, NoHeaders, held
<1>3. ASSUME NEW c \in Requests, EnterGate(c) PROVE HeadersInv'
  BY <1>3 DEF EnterGate, Goto, held
<1>4. ASSUME NEW c \in Requests, InitOnceEnds(c) PROVE HeadersInv'
  BY <1>4 DEF InitOnceEnds, Goto, Settled, held
<1>5. ASSUME NEW c \in Requests, Reread(c) PROVE HeadersInv'
  BY <1>5 DEF Reread, Goto, Fields, held
<1>6. ASSUME NEW c \in Requests, Decide(c) PROVE HeadersInv'
  BY <1>6 DEF Decide, Goto, NothingRead, held
<1>7. ASSUME NEW r \in Refreshers, RefreshNow(r) PROVE HeadersInv'
  BY <1>7 DEF RefreshNow, Goto, held
<1>8. ASSUME NEW g \in Goroutines, FetchReceipt(g) PROVE HeadersInv'
  BY <1>8 DEF FetchReceipt, Goto, held, locals
<1>9. ASSUME NEW g \in Goroutines, FetchStatusToken(g) PROVE HeadersInv'
  BY <1>9 DEF FetchStatusToken, Goto, held
<1>10. ASSUME NEW g \in Goroutines, Store(g) PROVE HeadersInv'
  <2> USE <1>10 DEF Store, EndFetch
  <2>1. UNCHANGED <<now, initialized, initGate, read, headers, wake>>
    OBVIOUS
  <2>2. receipt' \in BOOLEAN /\ lastError' \in BOOLEAN /\ failed' \in [Goroutines -> BOOLEAN]
    OBVIOUS
  <2>3. statusToken' \in MaybeTime /\ tokenExp' = statusToken'
    OBVIOUS
  <2>4. since' \in [Goroutines -> 0..Horizon] /\ got' \in [Goroutines -> Int] /\ misses' \in 0..2
    OBVIOUS
  <2>5. /\ pc' \in [Goroutines -> FetchSteps \cup
               {"idle", "gate", "rereading", "deciding", "sleeping", "stopped"}]
        /\ \A c \in Requests : pc'[c] \in FetchSteps <=> initGate' = c
    BY DEF Goto
  <2> QED
    BY <2>1, <2>2, <2>3, <2>4, <2>5
<1>11. ASSUME NEW g \in Goroutines, FetchFails(g) PROVE HeadersInv'
  BY <1>11 DEF FetchFails, EndFetch, Goto, held, MinOf
<1>12. CASE ComputeInterval
  BY <1>12 DEF ComputeInterval, Goto, held, Intervals, AtLeastMin
<1>13. CASE AutoRefresh
  BY <1>13 DEF AutoRefresh, Goto, held
<1>14. CASE AutoRefreshEnds
  BY <1>14 DEF AutoRefreshEnds, Settled, Goto, held
<1>15. CASE CancelAutoRefresh
  BY <1>15 DEF CancelAutoRefresh, Goto, held
<1>16. CASE UNCHANGED vars
  BY <1>16 DEF vars, held, locals
<1> HIDE DEF HeadersInv
<1> QED
  BY <1>1, <1>2, <1>3, <1>4, <1>5, <1>6, <1>7, <1>8, <1>9, <1>10, <1>11, <1>12,
     <1>13, <1>14, <1>15, <1>16 DEF Next

LEMMA HeadersInvariant == Spec => []HeadersInv
BY TypeInit, TypeStep, PTL DEF Spec

\* The shape of the supplier's state, and that whoever initialises it holds the
\* gate (verify/scitt/supplier.go:208-220), hold in every state.
THEOREM TypeCorrect == Spec => []TypeOK
BY HeadersInvariant, PTL DEF HeadersInv

-----------------------------------------------------------------------------
(* What a request is given.                                                *)

LEMMA DecideGivesValid ==
  ASSUME HeadersInv, NEW c \in Requests, Decide(c)
  PROVE  headers'[c].token = None \/ headers'[c].token > now
<1>1. headers'[c].token = None \/ (/\ headers'[c].token = read[c].token
                                   /\ ~(read[c].token # None /\ read[c].exp # None
                                        /\ Expired(read[c].exp)))
  BY DEF HeadersInv, TypeOK, Decide
<1> QED
  BY <1>1, SupplierAssumption DEF HeadersInv, TypeOK, ReadTogether, MaybeTime, Expired

\* verify/scitt/supplier.go:166-172: an expired token is never handed out, even
\* one that the verification still tolerated, and whoever stored it meanwhile.
THEOREM ExpiredIsSuppressed == Spec => NoExpiredTokenHandedOut
<1>1. HeadersInv /\ [Next]_vars
        => [\A c \in Requests : Decide(c) =>
              headers'[c].token = None \/ headers'[c].token > now]_vars
  BY DecideGivesValid
<1> QED
  BY <1>1, HeadersInvariant, PTL DEF Spec, NoExpiredTokenHandedOut

LEMMA NoFetchOnceInitialised ==
  ASSUME HeadersInv, [Next]_vars, NEW c \in Requests, initialized, pc[c] # "receipt"
  PROVE  pc'[c] # "receipt"
<1> USE SupplierAssumption DEF HeadersInv, TypeOK, Goroutines
<1>1. CASE Tick
  BY <1>1 DEF Tick
<1>2. ASSUME NEW d \in Requests, \/ Read(d) \/ EnterGate(d) \/ InitOnceEnds(d)
                                 \/ Reread(d) \/ Decide(d)
      PROVE  pc'[c] # "receipt"
  BY <1>2 DEF Read, EnterGate, InitOnceEnds, Reread, Decide, Goto
<1>3. ASSUME NEW r \in Refreshers, RefreshNow(r) PROVE pc'[c] # "receipt"
  BY <1>3 DEF RefreshNow, Goto
<1>4. ASSUME NEW g \in Goroutines, \/ FetchReceipt(g) \/ FetchStatusToken(g)
                                   \/ Store(g) \/ FetchFails(g)
      PROVE  pc'[c] # "receipt"
  BY <1>4 DEF FetchReceipt, FetchStatusToken, Store, FetchFails, EndFetch, Goto
<1>5. CASE ComputeInterval \/ AutoRefresh \/ AutoRefreshEnds \/ CancelAutoRefresh
  BY <1>5 DEF ComputeInterval, AutoRefresh, AutoRefreshEnds, CancelAutoRefresh, Goto
<1>6. CASE UNCHANGED vars
  BY <1>6 DEF vars
<1> QED
  BY <1>1, <1>2, <1>3, <1>4, <1>5, <1>6 DEF Next

\* verify/scitt/supplier.go:208-220: once a request or the loop initialised the
\* supplier, no request starts to fetch, not even one that waited for the gate
\* since before.
THEOREM GateChecksAgain == Spec => InitialisedOnce
<1>1. HeadersInv /\ [Next]_vars
        => [\A c \in Requests : initialized /\ pc[c] # "receipt" => pc'[c] # "receipt"]_vars
  BY NoFetchOnceInitialised
<1> QED
  BY <1>1, HeadersInvariant, PTL DEF Spec, InitialisedOnce

-----------------------------------------------------------------------------
(* The auto-refresh loop rides out one failure.  Its token must outlive, by *)
(* margins that the interval of computeRefreshInterval leaves, the moment   *)
(* at which the loop wakes up, or began to fetch.                           *)

\* No token the log serves is older than age; and a token lives long enough that
\* after a sleep of half its lifetime and a failed fetch rest is left of it, and
\* rest is long enough for half of it, and then one more fetch.
Timely(age, rest) ==
  /\ \A a \in Ages : a <= age
  /\ 20 * (rest + age + 3 * MaxFetch) + 19 <= 9 * TTL
  /\ rest + age + 3 * MaxFetch + minInterval <= TTL
  /\ 20 * MaxFetch + 39 <= 9 * rest
  /\ MaxFetch + 1 + minInterval <= rest

\* A fetch ends in time, and the log serves a token of the time of the fetch.
FetchInTime(age) ==
  \A g \in Goroutines :
    /\ pc[g] \in FetchSteps => since[g] <= now /\ now <= since[g] + MaxFetch
    /\ pc[g] = "verifying" => since[g] - age + TTL <= got[g] /\ got[g] <= now + TTL

\* The loop sleeps for about half of a lifetime at most, and is not late.
SleepBounded ==
  /\ tokenExp # None => tokenExp <= now + TTL
  /\ pc[Loop] = "sleeping" =>
       /\ now <= wake
       /\ wake - now <= minInterval \/ 20 * (wake - now) <= 11 * TTL + 19

\* The token outlives t: by m0 while no fetch of the loop failed, by m1 after one.
Outlives(t, m0, m1) ==
  /\ misses = 0 => tokenExp >= t + m0
  /\ misses = 1 => tokenExp >= t + m1

MarginKept(age, rest) ==
  tokenExp # None =>
    /\ pc[Loop] = "idle" => Outlives(now, TTL - age - 2 * MaxFetch, rest)
    /\ pc[Loop] = "sleeping" => Outlives(wake, rest + MaxFetch, MaxFetch + 1)
    /\ pc[Loop] \in {"receipt", "token", "verifying"} =>
         Outlives(since[Loop], rest + MaxFetch, MaxFetch + 1)
    /\ pc[Loop] = "settling" =>
         Outlives(since[Loop], TTL - age - MaxFetch, rest + MaxFetch)

\* The loop is never where only a request may be.
LoopPlaces == pc[Loop] \in FetchSteps \cup {"idle", "sleeping", "stopped"}

LoopInv(age, rest) ==
  /\ TypeOK /\ LoopPlaces
  /\ FetchInTime(age) /\ SleepBounded /\ MarginKept(age, rest)

\* How long computeRefreshInterval lets the loop sleep.
LEMMA IntervalBounds ==
  ASSUME NEW e \in Int, now \in Int, NEW i \in Intervals(e)
  PROVE  /\ i \in Int /\ i >= minInterval
         /\ i = minInterval \/ 20 * i <= 11 * (e - now) + 19
<1> USE SupplierAssumption
<1>1. PICK j \in ((9 * (e - now)) \div 20)..((11 * (e - now) + 19) \div 20) :
        i = AtLeastMin(j)
  BY DEF Intervals
<1>2. j \in Int /\ 20 * j <= 11 * (e - now) + 19
  OBVIOUS
<1> QED
  BY <1>1, <1>2 DEF AtLeastMin

LEMMA MarginInit ==
  ASSUME NEW age \in Nat, NEW rest \in Nat, Timely(age, rest), Init
  PROVE  LoopInv(age, rest)
<1>1. TypeOK
  BY TypeInit DEF HeadersInv
<1> QED
  BY <1>1, SupplierAssumption
     DEF Init, LoopInv, LoopPlaces, FetchInTime, SleepBounded, MarginKept, FetchSteps,
         Goroutines

\* A step that leaves the clock, the token and the loop alone.
LEMMA MarginUntouched ==
  ASSUME NEW age \in Nat, NEW rest \in Nat, LoopInv(age, rest),
         UNCHANGED <<now, tokenExp, misses, wake>>,
         pc'[Loop] = pc[Loop], since'[Loop] = since[Loop]
  PROVE  LoopPlaces' /\ SleepBounded' /\ MarginKept(age, rest)'
BY DEF LoopInv, LoopPlaces, SleepBounded, MarginKept, Outlives

\* A token that any goroutine but the loop stores is fresh enough for the loop.
LEMMA StoreByOther ==
  ASSUME NEW age \in Nat, NEW rest \in Nat, Timely(age, rest), LoopInv(age, rest),
         NEW g \in Goroutines \ {Loop}, Store(g)
  PROVE  SleepBounded' /\ MarginKept(age, rest)'
<1> USE SupplierAssumption DEF LoopInv
<1>1. now \in Int /\ got[g] \in Int /\ since[g] \in Int /\ since[Loop] \in Int /\ wake \in Int
  BY DEF TypeOK, Goroutines
<1>2. /\ tokenExp' = got[g] /\ UNCHANGED <<now, wake, misses>>
      /\ pc'[Loop] = pc[Loop] /\ since'[Loop] = since[Loop]
  BY DEF Store, EndFetch, Goto, TypeOK, Goroutines
<1>3. now + TTL - age - MaxFetch <= got[g] /\ got[g] <= now + TTL
  <2>1. now <= since[g] + MaxFetch /\ since[g] - age + TTL <= got[g] /\ got[g] <= now + TTL
    BY DEF Store, FetchInTime, FetchSteps
  <2> QED
    BY <2>1, <1>1
<1>4. SleepBounded'
  BY <1>1, <1>2, <1>3 DEF SleepBounded
<1>5. pc[Loop] = "idle" => got[g] >= now + TTL - age - 2 * MaxFetch /\ got[g] >= now + rest
  BY <1>1, <1>3 DEF Timely
<1>6. pc[Loop] = "sleeping" => got[g] >= wake + rest + MaxFetch /\ got[g] >= wake + MaxFetch + 1
  BY <1>1, <1>3 DEF Timely, SleepBounded
<1>7. pc[Loop] \in FetchSteps => got[g] >= since[Loop] + TTL - age - MaxFetch
  BY <1>1, <1>3 DEF FetchInTime, Goroutines
<1>8. TTL - age - MaxFetch >= rest + MaxFetch /\ rest + MaxFetch >= MaxFetch + 1
  BY DEF Timely
<1> HIDE DEF LoopInv
<1> QED
  BY <1>1, <1>2, <1>4, <1>5, <1>6, <1>7, <1>8 DEF MarginKept, Outlives, FetchSteps

\* Every step keeps the fetches in time.
LEMMA InTimeStep ==
  ASSUME NEW age \in Nat, NEW rest \in Nat, Timely(age, rest), LoopInv(age, rest),
         [Next]_vars
  PROVE  FetchInTime(age)'
<1> USE SupplierAssumption DEF LoopInv, TypeOK, FetchInTime, FetchSteps, Goroutines
<1>1. CASE Tick
  BY <1>1 DEF Tick, locals
<1>2. ASSUME NEW c \in Requests, \/ Read(c) \/ EnterGate(c) \/ InitOnceEnds(c)
                                 \/ Reread(c) \/ Decide(c)
      PROVE  FetchInTime(age)'
  BY <1>2 DEF Read, EnterGate, InitOnceEnds, Reread, Decide, Goto, Settled
<1>3. ASSUME NEW r \in Refreshers, RefreshNow(r) PROVE FetchInTime(age)'
  BY <1>3 DEF RefreshNow, Goto
<1>4. ASSUME NEW g \in Goroutines, FetchReceipt(g) PROVE FetchInTime(age)'
  BY <1>4 DEF FetchReceipt, Goto, locals
<1>5. ASSUME NEW g \in Goroutines, FetchStatusToken(g) PROVE FetchInTime(age)'
  BY <1>5 DEF FetchStatusToken, Goto, Timely
<1>6. ASSUME NEW g \in Goroutines, Store(g) PROVE FetchInTime(age)'
  BY <1>6 DEF Store, EndFetch, Goto
<1>7. ASSUME NEW g \in Goroutines, FetchFails(g) PROVE FetchInTime(age)'
  BY <1>7 DEF FetchFails, EndFetch, Goto
<1>8. CASE ComputeInterval \/ CancelAutoRefresh
  BY <1>8 DEF ComputeInterval, CancelAutoRefresh, Goto
<1>9. CASE AutoRefresh \/ AutoRefreshEnds
  BY <1>9 DEF AutoRefresh, AutoRefreshEnds, Settled, Goto
<1>10. CASE UNCHANGED vars
  BY <1>10 DEF vars, locals
<1> HIDE DEF FetchInTime
<1> QED
  BY <1>1, <1>2, <1>3, <1>4, <1>5, <1>6, <1>7, <1>8, <1>9, <1>10 DEF Next

\* Every step keeps the loop's token ahead of the loop.
LEMMA MarginStep ==
  ASSUME NEW age \in Nat, NEW rest \in Nat, Timely(age, rest), LoopInv(age, rest),
         [Next]_vars
  PROVE  LoopPlaces' /\ SleepBounded' /\ MarginKept(age, rest)'
<1> DEFINE Kept == LoopPlaces' /\ SleepBounded' /\ MarginKept(age, rest)'
<1> USE SupplierAssumption
<1>0. /\ now \in Int /\ wake \in Int /\ since[Loop] \in Int /\ got[Loop] \in Int
      /\ tokenExp \in Int \cup {None} /\ None \notin Int /\ misses \in 0..2
      /\ Loop \in DOMAIN pc /\ Loop \in DOMAIN since /\ Loop \in Goroutines
      /\ LoopPlaces /\ SleepBounded /\ MarginKept(age, rest) /\ FetchInTime(age)
  BY DEF LoopInv, TypeOK, Goroutines, MaybeTime
<1>1. CASE Tick
  BY <1>0, <1>1 DEF Tick, held, locals, LoopPlaces, SleepBounded, MarginKept, Outlives
<1>2. ASSUME NEW c \in Requests, \/ Read(c) \/ EnterGate(c) \/ InitOnceEnds(c)
                                 \/ Reread(c) \/ Decide(c)
      PROVE  Kept
  <2>1. /\ UNCHANGED <<now, tokenExp, misses, wake>>
        /\ pc'[Loop] = pc[Loop] /\ since'[Loop] = since[Loop]
    BY <1>0, <1>2 DEF Read, EnterGate, InitOnceEnds, Reread, Decide, Goto, Settled, held
  <2> QED
    BY <2>1, MarginUntouched
<1>3. ASSUME NEW r \in Refreshers, RefreshNow(r) PROVE Kept
  <2>1. /\ UNCHANGED <<now, tokenExp, misses, wake>>
        /\ pc'[Loop] = pc[Loop] /\ since'[Loop] = since[Loop]
    BY <1>0, <1>3 DEF RefreshNow, Goto, held
  <2> QED
    BY <2>1, MarginUntouched
<1>4. ASSUME NEW g \in Goroutines \ {Loop},
             FetchReceipt(g) \/ FetchStatusToken(g) \/ FetchFails(g)
      PROVE  Kept
  <2>1. /\ UNCHANGED <<now, tokenExp, misses, wake>>
        /\ pc'[Loop] = pc[Loop] /\ since'[Loop] = since[Loop]
    BY <1>0, <1>4 DEF FetchReceipt, FetchStatusToken, FetchFails, EndFetch, Goto, held, locals
  <2> QED
    BY <2>1, MarginUntouched
<1>5. ASSUME NEW g \in Goroutines \ {Loop}, Store(g) PROVE Kept
  <2>1. LoopPlaces'
    BY <1>0, <1>5 DEF Store, EndFetch, Goto, LoopPlaces
  <2> QED
    BY <1>5, <2>1, StoreByOther
<1>6. CASE FetchReceipt(Loop) \/ FetchStatusToken(Loop)
  BY <1>0, <1>6 DEF FetchReceipt, FetchStatusToken, Goto, held, locals, LoopPlaces,
     SleepBounded, MarginKept, Outlives, FetchSteps
<1>7. CASE FetchFails(Loop)
  <2>1. /\ UNCHANGED <<now, tokenExp, wake>> /\ pc'[Loop] = "settling"
        /\ since'[Loop] = since[Loop] /\ misses' = MinOf(misses + 1, 2)
        /\ pc[Loop] \in {"receipt", "token", "verifying"}
    BY <1>0, <1>7 DEF FetchFails, EndFetch, Goto, held
  <2> QED
    BY <1>0, <2>1 DEF LoopPlaces, SleepBounded, MarginKept, Outlives, FetchSteps, MinOf
<1>8. CASE Store(Loop)
  <2>1. /\ UNCHANGED <<now, wake>> /\ pc'[Loop] = "settling" /\ tokenExp' = got[Loop]
        /\ since'[Loop] = since[Loop] /\ misses' = 0 /\ pc[Loop] = "verifying"
    BY <1>0, <1>8 DEF Store, EndFetch, Goto
  <2>2. since[Loop] - age + TTL <= got[Loop] /\ got[Loop] <= now + TTL
    BY <1>0, <2>1 DEF FetchInTime
  <2> QED
    BY <1>0, <2>1, <2>2 DEF LoopPlaces, SleepBounded, MarginKept, Outlives, FetchSteps
<1>9. CASE ComputeInterval
  <2>1. PICK i \in Intervals(tokenExp) : wake' = now + i
    BY <1>9 DEF ComputeInterval
  <2>2. UNCHANGED <<now, tokenExp, misses>> /\ pc'[Loop] = "sleeping" /\ pc[Loop] = "idle"
    BY <1>0, <1>9 DEF ComputeInterval, Goto, held
  <2>3. CASE tokenExp = None
    BY <1>0, <2>1, <2>2, <2>3
       DEF Intervals, LoopPlaces, SleepBounded, MarginKept, FetchSteps
  <2>4. CASE tokenExp # None
    <3>1. /\ i \in Int /\ i >= minInterval
          /\ i = minInterval \/ 20 * i <= 11 * (tokenExp - now) + 19
      BY <1>0, <2>1, <2>4, IntervalBounds
    <3>2. tokenExp \in Int /\ tokenExp <= now + TTL
          /\ Outlives(now, TTL - age - 2 * MaxFetch, rest)
      BY <1>0, <2>2, <2>4 DEF SleepBounded, MarginKept
    <3>3. LoopPlaces' /\ SleepBounded'
      BY <1>0, <2>1, <2>2, <3>1, <3>2 DEF LoopPlaces, SleepBounded, FetchSteps
    <3>4. misses = 0 => tokenExp >= now + i + rest + MaxFetch
      BY <1>0, <3>1, <3>2 DEF Outlives, Timely
    <3>5. misses = 1 => tokenExp >= now + i + MaxFetch + 1
      BY <1>0, <3>1, <3>2 DEF Outlives, Timely
    <3> QED
      BY <1>0, <2>1, <2>2, <3>1, <3>2, <3>3, <3>4, <3>5 DEF MarginKept, Outlives
  <2> QED
    BY <2>3, <2>4
<1>10. CASE AutoRefresh
  <2>1. /\ UNCHANGED <<now, tokenExp, misses>> /\ pc'[Loop] = "receipt"
        /\ pc[Loop] = "sleeping" /\ now >= wake /\ since'[Loop] = now
    BY <1>0, <1>10 DEF AutoRefresh, Goto, held
  <2> QED
    BY <1>0, <2>1 DEF LoopPlaces, SleepBounded, MarginKept, Outlives, FetchSteps
<1>11. CASE AutoRefreshEnds
  <2>1. UNCHANGED <<now, tokenExp, misses, wake>> /\ pc'[Loop] = "idle" /\ pc[Loop] = "settling"
    BY <1>0, <1>11 DEF AutoRefreshEnds, Goto, held
  <2>2. now <= since[Loop] + MaxFetch
    BY <1>0, <2>1 DEF FetchInTime, FetchSteps
  <2> QED
    BY <1>0, <2>1, <2>2 DEF LoopPlaces, SleepBounded, MarginKept, Outlives, FetchSteps
<1>12. CASE CancelAutoRefresh
  BY <1>0, <1>12 DEF CancelAutoRefresh, Goto, held, LoopPlaces, SleepBounded, MarginKept,
     FetchSteps
<1>13. CASE UNCHANGED vars
  <2>1. /\ UNCHANGED <<now, tokenExp, misses, wake>>
        /\ pc'[Loop] = pc[Loop] /\ since'[Loop] = since[Loop]
    BY <1>13 DEF vars, held, locals
  <2> QED
    BY <2>1, MarginUntouched
<1> HIDE DEF Kept
<1> QED
  BY <1>1, <1>2, <1>3, <1>4, <1>5, <1>6, <1>7, <1>8, <1>9, <1>10, <1>11, <1>12, <1>13
     DEF Next, Kept

\* The margins leave the token unexpired until the second failure.
LEMMA MarginSuffices ==
  ASSUME NEW age \in Nat, NEW rest \in Nat, Timely(age, rest), LoopInv(age, rest)
  PROVE  OneFailureIsRidden
<1> SUFFICES ASSUME tokenExp # None, pc[Loop] # "stopped", misses < 2
             PROVE  tokenExp > now
  BY DEF OneFailureIsRidden, Expired, LoopInv, TypeOK, MaybeTime
<1>1. /\ now \in Int /\ wake \in Int /\ since[Loop] \in Int /\ tokenExp \in Int
      /\ misses \in 0..1 /\ Loop \in Goroutines
  BY DEF LoopInv, TypeOK, MaybeTime, Goroutines
<1>2. /\ pc[Loop] \in FetchSteps => now <= since[Loop] + MaxFetch
      /\ pc[Loop] = "sleeping" => now <= wake
  BY <1>1 DEF LoopInv, FetchInTime, SleepBounded
<1>3. MarginKept(age, rest) /\ pc[Loop] \in FetchSteps \cup {"idle", "sleeping"}
  BY DEF LoopInv, LoopPlaces
<1> QED
  BY <1>1, <1>2, <1>3, SupplierAssumption DEF MarginKept, Outlives, FetchSteps, Timely

\* verify/scitt/supplier.go:186-187: refreshing at half of the remaining lifetime
\* leaves room for another try.  Where a token lives long enough, one expires in the
\* supplier, while the loop runs, only after two fetches of the loop failed in a row,
\* whatever requests and forced refreshes store meanwhile.
THEOREM FailureIsRidden ==
  ASSUME NEW age \in Nat, NEW rest \in Nat, Timely(age, rest)
  PROVE  Spec => []OneFailureIsRidden
<1>1. Init => LoopInv(age, rest)
  BY MarginInit
<1>2. TypeOK /\ LoopInv(age, rest) /\ [Next]_vars /\ TypeOK' => LoopInv(age, rest)'
  BY InTimeStep, MarginStep DEF LoopInv
<1>3. LoopInv(age, rest) => OneFailureIsRidden
  BY MarginSuffices
<1> QED
  BY <1>1, <1>2, <1>3, TypeCorrect, PTL DEF Spec

=============================================================================
