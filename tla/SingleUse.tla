------------------------------ MODULE SingleUse ------------------------------
(***************************************************************************)
(* What a replay cache promises to the verifiers that share it             *)
(* (pop/replay.go, type ReplayCache): a key that was recorded is answered  *)
(* "seen" until its expiry, and may be recorded again only afterwards.     *)
(* How entries are grouped for eviction is not visible here: an expired    *)
(* entry may be forgotten at any call or sweep, a live one never, and one  *)
(* that expired a whole Retention ago is gone after every call.            *)
(***************************************************************************)
EXTENDS Integers, FiniteSets

CONSTANTS Keys,        \* digests of proof identifiers (jti)
          MaxEntries,  \* how many entries the cache holds at most
          Retention,   \* how long past its expiry an entry may be kept
          MaxTime      \* bound of the clock and of the expiries

VARIABLES now,    \* the wall clock
          mem,    \* the entries held: a function from recorded keys to expiries
          reply   \* the last answer given: the key and the verdict on it

vars == <<now, mem, reply>>

Verdicts == {"none", "stored", "seen", "full"}

Live(k) == k \in DOMAIN mem /\ mem[k] > now

\* The sets of entries that a call may forget: every entry that is overdue,
\* and as many of the expired ones as it likes.
Forgettable ==
  {gone \in SUBSET {k \in DOMAIN mem : mem[k] <= now} :
     \A k \in DOMAIN mem : mem[k] + Retention <= now => k \in gone}

Keep(gone) == [k \in DOMAIN mem \ gone |-> mem[k]]

Answer(k, verdict) == reply' = [key |-> k, verdict |-> verdict]

Init == /\ now \in 0..MaxTime
        /\ mem = [k \in {} |-> 0]
        /\ reply \in [key : Keys, verdict : {"none"}]

Tick == /\ now' \in now..MaxTime
        /\ now' > now
        /\ UNCHANGED <<mem, reply>>

\* The key is held and still within its expiry: a replay.
Seen(k) ==
  /\ Live(k)
  /\ \E gone \in Forgettable : mem' = Keep(gone)
  /\ Answer(k, "seen")
  /\ UNCHANGED now

\* The key is not live and there is room: it is held until exp.
Stored(k, exp) ==
  /\ ~Live(k)
  /\ \E gone \in Forgettable :
       /\ k \in DOMAIN mem => k \in gone
       /\ Cardinality(DOMAIN mem \ gone) < MaxEntries
       /\ mem' = [x \in (DOMAIN mem \ gone) \cup {k} |->
                    IF x = k THEN exp ELSE mem[x]]
  /\ Answer(k, "stored")
  /\ UNCHANGED now

\* The key is not live and the cache is full of entries it may still hold.
Full(k) ==
  /\ ~Live(k)
  /\ \E gone \in Forgettable :
       /\ Cardinality(DOMAIN mem \ gone) >= MaxEntries
       /\ mem' = Keep(gone)
  /\ Answer(k, "full")
  /\ UNCHANGED now

\* Entries are dropped without anybody asking.
Sweep ==
  /\ \E gone \in Forgettable : mem' = Keep(gone)
  /\ UNCHANGED <<now, reply>>

Next == \/ Tick
        \/ Sweep
        \/ \E k \in Keys : \/ Seen(k)
                           \/ Full(k)
                           \/ \E exp \in 0..MaxTime : Stored(k, exp)

Spec == Init /\ [][Next]_vars
=============================================================================
