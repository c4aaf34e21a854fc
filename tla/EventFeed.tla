------------------------------- MODULE EventFeed -------------------------------
(***************************************************************************)
(* The command "events" of ans-cli (cmd/ans-cli/cmd/events.go), which      *)
(* pages through the feed of the registry or follows it, over the REST     *)
(* client (ans/client.go, ans/options.go, internal/httputility).  The      *)
(* registry publishes events meanwhile, requests fail, the command is      *)
(* interrupted, and the user starts it again from the last place shown.    *)
(*                                                                         *)
(* Event i is the i-th of the feed, and i is its log ID.                   *)
(***************************************************************************)
EXTENDS Integers, FiniteSets, FiniteSetsExt

CONSTANTS
  None,       \* no cursor, no provider, no page
  MaxEvents,  \* bound: events that are published
  providerOf, \* the provider of each event
  Params,     \* [limit, provider, follow, json, interval]: flags of the command
  PageSize,   \* the page size of the registry when it is asked for no limit
  MaxRuns     \* bound: times the command is started

ASSUME FeedAssumption ==
  /\ MaxEvents \in Nat /\ PageSize \in Nat \ {0} /\ MaxRuns \in Nat
  /\ \A p \in Params : p.limit \in Nat /\ p.interval \in Int

VARIABLES
  published,   \* how many events there are
  params,      \* the flags
  pc,          \* where the command is
  cursor,      \* currentLastLogID
  page,        \* the page at hand
  known,       \* the last log ID the user was shown; or None
  shown,       \* the events the user was shown
  interrupted, \* the context is cancelled
  runs         \* how often the command was started

vars == <<published, params, pc, cursor, page, known, shown, interrupted, runs>>

-----------------------------------------------------------------------------
(* The registry.                                                           *)

After(c) == IF c = None THEN 0 ELSE c

Matching(upTo) ==
  {e \in 1..upTo : params.provider = None \/ providerOf[e] = params.provider}

\* The page that follows a cursor: the first events in the order of the feed, and
\* the ID of the last.  At the end of the feed an empty page has none.
Page ==
  LET next == {e \in Matching(published) : e > After(cursor)}
      limit == IF params.limit > 0 THEN params.limit ELSE PageSize
      items == {e \in next : Cardinality({d \in next : d <= e}) <= limit}
  IN  [items |-> items, lastLogID |-> IF items = {} THEN None ELSE Max(items)]

Publish ==
  /\ published < MaxEvents
  /\ published' = published + 1
  /\ UNCHANGED <<params, pc, cursor, page, known, shown, interrupted, runs>>

-----------------------------------------------------------------------------
(* The REST client.                                                        *)

\* A body without content leaves the result as it was.
EmptyPage == [items |-> {}, lastLogID |-> None]

\* GetAgentEvents, with authorizationHeader and DoRequest: the page of the
\* registry, or a body that is empty.
GetAgentEvents ==
  /\ pc = "get"
  /\ page' \in {Page, EmptyPage}
  /\ pc' = "output"
  /\ UNCHANGED <<published, params, cursor, known, shown, interrupted, runs>>

\* It fails: there is no token, no answer, an error status, or a body that does
\* not parse.  That ends the command, whether it was interrupted or not.
GetAgentEventsFails ==
  /\ pc = "get"
  /\ pc' = "ended"
  /\ UNCHANGED <<published, params, cursor, page, known, shown, interrupted, runs>>

-----------------------------------------------------------------------------
(* The command.                                                            *)

\* executeEvents, from the last log ID the user knows.
Start ==
  /\ pc = "ended" /\ runs < MaxRuns
  /\ runs' = runs + 1
  /\ cursor' = known
  /\ interrupted' = FALSE
  /\ pc' = IF params.follow /\ params.interval <= 0 THEN "refused" ELSE "get"
  /\ UNCHANGED <<published, params, page, known, shown>>

Interrupt ==
  /\ pc \in {"get", "output", "advance", "wait"} /\ params.follow /\ ~interrupted
  /\ interrupted' = TRUE
  /\ UNCHANGED <<published, params, pc, cursor, page, known, shown, runs>>

\* Bug: the first poll shows the heading only.
OutputEventsHeading ==
  /\ pc = "output"
  /\ shown' = IF cursor = None /\ params.follow /\ ~params.json THEN shown
              ELSE shown \cup page.items
  /\ known' = IF (params.json \/ ~params.follow) /\ page.lastLogID # None
              THEN page.lastLogID ELSE known
  /\ pc' = "advance"
  /\ UNCHANGED <<published, params, cursor, page, interrupted, runs>>

\* outputEvents.  In streaming text no log ID is shown.
OutputEvents ==
  /\ pc = "output"
  /\ shown' = shown \cup page.items
  /\ known' = IF (params.json \/ ~params.follow) /\ page.lastLogID # None
              THEN page.lastLogID ELSE known
  /\ pc' = "advance"
  /\ UNCHANGED <<published, params, cursor, page, interrupted, runs>>

\* Bug: the cursor stays where the command was started.
AdvanceNever ==
  /\ pc = "advance"
  /\ page' = None
  /\ pc' = IF params.follow THEN "wait" ELSE "ended"
  /\ UNCHANGED <<published, params, cursor, known, shown, interrupted, runs>>

\* The cursor moves, unless the page has none.
Advance ==
  /\ pc = "advance"
  /\ page' = None
  /\ cursor' = IF params.follow /\ page.lastLogID # None THEN page.lastLogID ELSE cursor
  /\ pc' = IF params.follow THEN "wait" ELSE "ended"
  /\ UNCHANGED <<published, params, known, shown, interrupted, runs>>

\* The poll interval has passed.
PollAgain ==
  /\ pc = "wait" /\ ~interrupted
  /\ pc' = "get"
  /\ UNCHANGED <<published, params, cursor, page, known, shown, interrupted, runs>>

\* An interrupt ends the wait, or, if the interval has passed too, the request
\* that follows.
Stop ==
  /\ pc = "wait" /\ interrupted
  /\ pc' = "ended"
  /\ UNCHANGED <<published, params, cursor, page, known, shown, interrupted, runs>>

-----------------------------------------------------------------------------

Init ==
  /\ published = 0 /\ params \in Params
  /\ pc = "ended" /\ cursor = None /\ page = None
  /\ known = None /\ shown = {} /\ interrupted = FALSE /\ runs = 0

Next ==
  \/ Publish \/ GetAgentEvents \/ GetAgentEventsFails \/ Start \/ Interrupt
  \/ OutputEvents \/ Advance \/ PollAgain \/ Stop

\* The command goes on, and a request that is repeated for ever gets the page of
\* the registry for ever.
Fairness ==
  /\ WF_vars(OutputEvents) /\ WF_vars(Advance) /\ WF_vars(PollAgain \/ Stop)
  /\ WF_vars(GetAgentEvents \/ GetAgentEventsFails)
  /\ SF_vars(GetAgentEvents /\ page' = Page)

Spec == Init /\ [][Next]_vars /\ Fairness

-----------------------------------------------------------------------------
(* Correctness.                                                            *)

\* events.go:113-145: through failures, interrupts and restarts no event is left
\* behind: where the command goes on from, and where the user would, everything
\* before has been shown.
NothingSkipped ==
  \A c \in {cursor, known} : Matching(published) \cap (1..After(c)) \subseteq shown

\* cmd/ans-cli/cmd/events.go:32: "continuously poll for new events".  A command
\* that follows shows every event in the end, however many there are to a page,
\* unless it ends.
FollowShowsAll ==
  \A e \in 1..MaxEvents :
    params.follow /\ published >= e /\ e \in Matching(published)
      ~> e \in shown \/ pc \in {"ended", "refused"}
=============================================================================
