---------------------------- MODULE HeaderSupplier ----------------------------
(***************************************************************************)
(* The caller's own SCITT headers: HeaderSupplier (verify/scitt/           *)
(* supplier.go).  Requests ask it for the current headers and initialise   *)
(* it on first use, one at a time behind initGate; RefreshNow and the      *)
(* auto-refresh loop fetch beside them, without the gate.  A fetch takes   *)
(* the receipt and the status token from the log in two calls, verifies    *)
(* them and stores both under mu.                                          *)
(*                                                                         *)
(* A status token is identified by its expiry.  That a receipt or a token  *)
(* fails to verify for other reasons than its age (an unknown key, a bad   *)
(* signature) is a choice; the receipt is held or not.                     *)
(***************************************************************************)
EXTENDS Integers

CONSTANTS
  Requests,      \* goroutines that call CurrentHeaders
  Refreshers,    \* goroutines that call RefreshNow
  Loop,          \* the goroutine of StartAutoRefresh
  TTL,           \* lifetime of a status token
  Ages,          \* how old a token the log serves may be
  clockSkew,     \* tolerance of the verification on the expiry
  minInterval,   \* minAutoRefreshInterval
  MaxFetch,      \* bound: how long a fetch takes, HTTP timeouts included
  Horizon,       \* bound of the clock
  None

Goroutines == Requests \cup Refreshers \cup {Loop}

ASSUME SupplierAssumption ==
  /\ Requests \cap Refreshers = {} /\ Loop \notin Requests \cup Refreshers
  /\ TTL \in Nat /\ Ages \subseteq Nat /\ clockSkew \in Nat
  /\ minInterval \in Nat \ {0} /\ MaxFetch \in Nat /\ Horizon \in Nat
  /\ None \notin Int \cup Goroutines

VARIABLES
  now,            \* the clock
  receipt,        \* whether a verified receipt is held
  statusToken,    \* the token that is held, by its expiry
  tokenExp,       \* its expiry, kept for the refresh schedule and suppression
  initialized,
  lastError,      \* whether an error is recorded
  initGate,       \* who holds the gate
  pc,             \* where each goroutine is
  since,          \* when each goroutine began its fetch
  got,            \* the token each fetch got from the log
  failed,         \* whether the fetch of each goroutine failed
  read,           \* what each request read under the lock
  headers,        \* the headers each request was given last
  wake,           \* when the loop wakes up
  misses          \* history: fetches of the loop that failed in a row

held == <<receipt, statusToken, tokenExp>>
locals == <<since, got, failed, read, headers, wake>>
vars == <<now, held, initialized, lastError, initGate, pc, locals,
          misses>>

\* A goroutine is fetching, or has fetched.
FetchSteps == {"receipt", "token", "verifying", "settling"}

Goto(g, where) == pc' = [pc EXCEPT ![g] = where]

\* The local variables of a goroutine that no longer needs them.
NothingRead == [receipt |-> FALSE, token |-> None, exp |-> None]
NoHeaders == [receipt |-> FALSE, token |-> None]

Expired(exp) == now >= exp

MinOf(i, j) == IF i <= j THEN i ELSE j

-----------------------------------------------------------------------------
(* CurrentHeaders.                                                         *)

\* Bug: a request that initialised the supplier forgets to read the expiry.
FieldsWithoutExp == [receipt |-> receipt, token |-> statusToken, exp |-> None]

\* The fields read under the lock.
Fields == [receipt |-> receipt, token |-> statusToken, exp |-> tokenExp]

Read(c) ==
  /\ pc[c] = "idle"
  /\ headers' = [headers EXCEPT ![c] = NoHeaders]
  /\ IF initialized
     THEN read' = [read EXCEPT ![c] = Fields] /\ Goto(c, "deciding")
     ELSE UNCHANGED read /\ Goto(c, "gate")
  /\ UNCHANGED <<now, held, initialized, lastError, initGate, since, got, failed,
                 wake, misses>>

\* Bug: initialized is not checked again behind the gate.
EnterGateUnchecked(c) ==
  /\ pc[c] = "gate"
  /\ initGate = None
  /\ initGate' = c
  /\ since' = [since EXCEPT ![c] = now]
  /\ Goto(c, "receipt")
  /\ UNCHANGED <<now, held, initialized, lastError, got, failed, read, headers,
                 wake, misses>>

\* initOnce: the gate is taken and initialized checked again.
EnterGate(c) ==
  /\ pc[c] = "gate"
  /\ initGate = None
  /\ IF initialized
     THEN Goto(c, "rereading") /\ UNCHANGED <<initGate, since>>
     ELSE /\ initGate' = c
          /\ since' = [since EXCEPT ![c] = now]
          /\ Goto(c, "receipt")
  /\ UNCHANGED <<now, held, initialized, lastError, got, failed, read, headers,
                 wake, misses>>

Reread(c) ==
  /\ pc[c] = "rereading"
  /\ read' = [read EXCEPT ![c] = Fields]
  /\ Goto(c, "deciding")
  /\ UNCHANGED <<now, held, initialized, lastError, initGate, since, got, failed,
                 headers, wake, misses>>

\* The headers are put together; a token that has expired by now is left out.
Decide(c) ==
  /\ pc[c] = "deciding"
  /\ LET r == read[c]
         suppressed == r.token # None /\ r.exp # None /\ Expired(r.exp)
     IN  headers' = [headers EXCEPT
           ![c] = [receipt |-> r.receipt,
                   token |-> IF suppressed THEN None ELSE r.token]]
  /\ read' = [read EXCEPT ![c] = NothingRead]
  /\ Goto(c, "idle")
  /\ UNCHANGED <<now, held, initialized, lastError, initGate, since, got, failed,
                 wake, misses>>

-----------------------------------------------------------------------------
(* fetchAndVerify.                                                         *)

\* The fetch of g has ended; a request and the loop act on its result.
EndFetch(g, failure) ==
  /\ Goto(g, IF g \in Refreshers THEN "idle" ELSE "settling")
  /\ failed' = [failed EXCEPT ![g] = failure /\ g \notin Refreshers]
  /\ since' = [since EXCEPT ![g] = IF g \in Refreshers THEN 0 ELSE since[g]]
  /\ got' = [got EXCEPT ![g] = 0]

\* recordError, and the error is returned.
FetchFails(g) ==
  /\ pc[g] \in {"receipt", "token", "verifying"}
  /\ lastError' = TRUE
  /\ misses' = IF g = Loop THEN MinOf(misses + 1, 2) ELSE misses
  /\ EndFetch(g, TRUE)
  /\ UNCHANGED <<now, held, initialized, initGate, read, headers, wake>>

FetchReceipt(g) ==
  /\ pc[g] = "receipt"
  /\ Goto(g, "token")
  /\ UNCHANGED <<now, held, initialized, lastError, initGate, locals,
                 misses>>

FetchStatusToken(g) ==
  /\ pc[g] = "token"
  /\ \E age \in Ages : got' = [got EXCEPT ![g] = now - age + TTL]
  /\ Goto(g, "verifying")
  /\ UNCHANGED <<now, held, initialized, lastError, initGate, since, failed, read,
                 headers, wake, misses>>

\* Both verify, the token against the clock and the tolerance: they are stored.
Store(g) ==
  /\ pc[g] = "verifying"
  /\ now <= got[g] + clockSkew
  /\ receipt' = TRUE
  /\ statusToken' = got[g]
  /\ tokenExp' = got[g]
  /\ lastError' = FALSE
  /\ misses' = IF g = Loop THEN 0 ELSE misses
  /\ EndFetch(g, FALSE)
  /\ UNCHANGED <<now, initialized, initGate, read, headers, wake>>

Settled(g) == /\ failed' = [failed EXCEPT ![g] = FALSE]
              /\ since' = [since EXCEPT ![g] = 0]

\* Bug: the gate stays locked when the initialisation fails.
InitOnceEndsGateHeld(c) ==
  /\ pc[c] = "settling"
  /\ initialized' = (initialized \/ ~failed[c])
  /\ lastError' = failed[c]
  /\ initGate' = IF failed[c] THEN initGate ELSE None
  /\ Settled(c)
  /\ Goto(c, "rereading")
  /\ UNCHANGED <<now, held, got, read, headers, wake, misses>>

\* The end of initOnce: the outcome is recorded once more, the gate released.
InitOnceEnds(c) ==
  /\ pc[c] = "settling"
  /\ initialized' = (initialized \/ ~failed[c])
  /\ lastError' = failed[c]
  /\ initGate' = None
  /\ Settled(c)
  /\ Goto(c, "rereading")
  /\ UNCHANGED <<now, held, got, read, headers, wake, misses>>

\* RefreshNow.
RefreshNow(r) ==
  /\ pc[r] = "idle"
  /\ since' = [since EXCEPT ![r] = now]
  /\ Goto(r, "receipt")
  /\ UNCHANGED <<now, held, initialized, lastError, initGate, got, failed, read,
                 headers, wake, misses>>

-----------------------------------------------------------------------------
(* autoRefreshLoop.                                                        *)

AtLeastMin(i) == IF i < minInterval THEN minInterval ELSE i

\* Bug: the loop sleeps for all of the remaining lifetime.
IntervalsWhole(exp) ==
  IF exp = None THEN {minInterval} ELSE {AtLeastMin(exp - now)}

\* computeRefreshInterval: half of the remaining lifetime, give or take a tenth
\* of it, rounded outwards to whole units, and at least the minimum.
Intervals(exp) ==
  IF exp = None THEN {minInterval}
  ELSE LET remaining == exp - now
       IN  {AtLeastMin(i) : i \in ((9 * remaining) \div 20)
                                  ..((11 * remaining + 19) \div 20)}

ComputeInterval ==
  /\ pc[Loop] = "idle"
  /\ \E i \in Intervals(tokenExp) : wake' = now + i
  /\ Goto(Loop, "sleeping")
  /\ UNCHANGED <<now, held, initialized, lastError, initGate, since, got, failed,
                 read, headers, misses>>

AutoRefresh ==
  /\ pc[Loop] = "sleeping"
  /\ now >= wake
  /\ since' = [since EXCEPT ![Loop] = now]
  /\ wake' = 0
  /\ Goto(Loop, "receipt")
  /\ UNCHANGED <<now, held, initialized, lastError, initGate, got, failed, read,
                 headers, misses>>

AutoRefreshEnds ==
  /\ pc[Loop] = "settling"
  /\ initialized' = (initialized \/ ~failed[Loop])
  /\ Settled(Loop)
  /\ Goto(Loop, "idle")
  /\ UNCHANGED <<now, held, lastError, initGate, got, read, headers, wake,
                 misses>>

\* The context of the loop is cancelled.
CancelAutoRefresh ==
  /\ pc[Loop] = "sleeping"
  /\ Goto(Loop, "stopped")
  /\ wake' = 0
  /\ UNCHANGED <<now, held, initialized, lastError, initGate, since, got, failed,
                 read, headers, misses>>

-----------------------------------------------------------------------------

\* NewHeaderSupplier and StartAutoRefresh.
Init ==
  /\ now = 0
  /\ receipt = FALSE /\ statusToken = None /\ tokenExp = None
  /\ initialized = FALSE /\ lastError = FALSE /\ initGate = None
  /\ pc = [g \in Goroutines |-> "idle"]
  /\ since = [g \in Goroutines |-> 0]
  /\ got = [g \in Goroutines |-> 0]
  /\ failed = [g \in Goroutines |-> FALSE]
  /\ read = [c \in Requests |-> NothingRead]
  /\ headers = [c \in Requests |-> NoHeaders]
  /\ wake = 0
  /\ misses = 0

\* Time passes; a fetch ends in time, the loop is neither late nor idle.
Tick ==
  /\ now < Horizon
  /\ \A g \in Goroutines : pc[g] \in FetchSteps =>
                             now < since[g] + MaxFetch
  /\ pc[Loop] # "idle"
  /\ pc[Loop] = "sleeping" => now < wake
  /\ now' = now + 1
  /\ UNCHANGED <<held, initialized, lastError, initGate, pc, locals,
                 misses>>

Next ==
  \/ Tick
  \/ \E c \in Requests : \/ Read(c) \/ EnterGate(c) \/ InitOnceEnds(c)
                         \/ Reread(c) \/ Decide(c)
  \/ \E r \in Refreshers : RefreshNow(r)
  \/ \E g \in Goroutines : \/ FetchReceipt(g) \/ FetchStatusToken(g)
                           \/ Store(g) \/ FetchFails(g)
  \/ ComputeInterval \/ AutoRefresh \/ AutoRefreshEnds \/ CancelAutoRefresh

Spec == Init /\ [][Next]_vars

\* A running goroutine takes its next step, a call of the log ends one way or
\* the other, and sync.Mutex hands the gate to each goroutine that waits for it.
FairSpec ==
  /\ Spec
  /\ \A c \in Requests :
       /\ SF_vars(EnterGate(c))
       /\ WF_vars(InitOnceEnds(c) \/ Reread(c) \/ Decide(c))
  /\ \A g \in Goroutines :
       WF_vars(FetchReceipt(g) \/ FetchStatusToken(g) \/ Store(g) \/ FetchFails(g))

-----------------------------------------------------------------------------
(* Correctness.                                                            *)

MaybeTime == Int \cup {None}

\* The shape of the state; and whoever initialises the supplier holds the gate.
TypeOK ==
  /\ now \in 0..Horizon
  /\ receipt \in BOOLEAN /\ initialized \in BOOLEAN /\ lastError \in BOOLEAN
  /\ statusToken \in MaybeTime /\ tokenExp \in MaybeTime
  /\ initGate \in {None} \cup Requests
  /\ pc \in [Goroutines -> FetchSteps \cup
               {"idle", "gate", "rereading", "deciding", "sleeping", "stopped"}]
  /\ \A c \in Requests : pc[c] \in FetchSteps <=> initGate = c
  /\ since \in [Goroutines -> 0..Horizon]
  /\ got \in [Goroutines -> Int]
  /\ failed \in [Goroutines -> BOOLEAN]
  /\ read \in [Requests -> [receipt : BOOLEAN, token : MaybeTime, exp : MaybeTime]]
  /\ headers \in [Requests -> [receipt : BOOLEAN, token : MaybeTime]]
  /\ wake \in Int
  /\ misses \in 0..2

\* verify/scitt/supplier.go:166-172: an expired token is never handed out, even
\* one that the verification still tolerated, and whoever stored it meanwhile.
NoExpiredTokenHandedOut ==
  [][\A c \in Requests : Decide(c) =>
       headers'[c].token = None \/ headers'[c].token > now]_vars

\* verify/scitt/supplier.go:208-220: once a request or the loop initialised the
\* supplier, no request starts to fetch, not even one that waited for the gate
\* since before.
InitialisedOnce ==
  [][\A c \in Requests : initialized /\ pc[c] # "receipt" => pc'[c] # "receipt"]_vars

\* verify/scitt/supplier.go:186-187: refreshing at half of the remaining
\* lifetime leaves room for another try.  While the loop runs, a token expires
\* in the supplier only after two fetches of the loop failed in a row.
OneFailureIsRidden ==
  tokenExp # None /\ Expired(tokenExp) /\ pc[Loop] # "stopped" => misses >= 2

\* verify/scitt/supplier.go:145-147: CurrentHeaders "never blocks indefinitely".
CallsReturn == \A c \in Requests : (pc[c] = "gate") ~> (pc[c] = "idle")
=============================================================================
