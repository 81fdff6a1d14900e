------------------------------ MODULE Shutdown ------------------------------
(***************************************************************************)
(* How a server process stops (src/src/graceful-shutdown.mjs, shutdown of  *)
(* src/server.mjs): readiness fails, the listener closes, requests have    *)
(* one budget and Git transfers another, and what is left is closed.       *)
(*                                                                         *)
(* The tracker counts a request until its response is over; its handler    *)
(* may run on after that.  A client that has been answered may keep its    *)
(* connection: those idle when the listener closes are dropped, one whose  *)
(* answer comes later carries another request.  The pages' WebSockets are  *)
(* upgraded connections: no tracker counts them and closeAllConnections    *)
(* leaves them, yet the server's `close` waits for them.                   *)
(***************************************************************************)
EXTENDS Naturals, FiniteSets

CONSTANTS
  ApiCalls, GitCalls,  \* requests a client may send, by kind
  Pages                \* open pages, with one WebSocket each

ASSUME ShutdownAssumption == ApiCalls \cap GitCalls = {}

VARIABLES
  stage,                   \* how far shutdown() is
  conn,                    \* request -> "unsent", "open", "answered", "left" by its client or "cut"
  late,                    \* requests that came after the listener had closed
  kept,                    \* answered requests whose connection is idle and open, once it has
  working,                 \* requests whose handler runs
  pagesOpen,               \* pages whose WebSocket is up
  apiDrained, gitDrained,  \* what whenIdle answered
  forced,                  \* closeAllConnections was called
  workers                  \* the background workers run

connVars == <<conn, late, kept>>
downVars == <<stage, connVars, working, pagesOpen, apiDrained, gitDrained, forced, workers>>

Calls == ApiCalls \cup GitCalls
inFlight(kind) == {r \in kind : conn[r] = "open"}

DownInit ==
  /\ stage = "serving" /\ conn = [r \in Calls |-> "unsent"] /\ late = {} /\ kept = {}
  /\ working = {} /\ pagesOpen = {}
  /\ apiDrained = TRUE /\ gitDrained = TRUE /\ forced = FALSE /\ workers = TRUE

\* The listener takes connections until the readiness delay is over.
ListeningOn == stage \in {"serving", "unready", "api", "git"}
Listening == stage \in {"serving", "unready"}

\* The connection something new comes on: any, until the listener closes, and then
\* one that is still open.
OnConnection ==
  \/ Listening /\ UNCHANGED kept
  \/ \E q \in kept : kept' = kept \ {q}

trackRequest(r) ==
  /\ conn[r] = "unsent" /\ OnConnection
  /\ conn' = [conn EXCEPT ![r] = "open"] /\ working' = working \cup {r}
  /\ late' = IF Listening THEN late ELSE late \cup {r}
  /\ UNCHANGED <<stage, pagesOpen, apiDrained, gitDrained, forced, workers>>

onUpgrade(p) ==
  /\ p \notin pagesOpen /\ OnConnection /\ pagesOpen' = pagesOpen \cup {p}
  /\ UNCHANGED <<stage, conn, late, working, apiDrained, gitDrained, forced, workers>>

PageLeaves(p) ==
  /\ p \in pagesOpen /\ pagesOpen' = pagesOpen \ {p}
  /\ UNCHANGED <<stage, connVars, working, apiDrained, gitDrained, forced, workers>>

\* settle: the waiters are woken when neither kind is in flight any more, the
\* one that waits for API requests alone too.
settle == IF stage \in {"api", "git"} /\ \A r \in Calls : conn'[r] # "open" THEN "closing" ELSE stage

Answer(r) ==
  /\ r \in working /\ working' = working \ {r}
  /\ conn' = [conn EXCEPT ![r] = IF @ = "open" THEN "answered" ELSE @]
  /\ kept' \in IF Listening \/ conn[r] # "open" THEN {kept} ELSE {kept, kept \cup {r}}
  /\ stage' = settle /\ UNCHANGED late
  /\ UNCHANGED <<pagesOpen, apiDrained, gitDrained, forced, workers>>

ClientLeaves(r) ==
  /\ conn[r] = "open" /\ conn' = [conn EXCEPT ![r] = "left"]
  /\ stage' = settle
  /\ UNCHANGED <<late, kept, working, pagesOpen, apiDrained, gitDrained, forced, workers>>

\* keepAliveTimeout, or the client hangs up.
IdleEnds(r) ==
  /\ r \in kept /\ kept' = kept \ {r}
  /\ UNCHANGED <<stage, conn, late, working, pagesOpen, apiDrained, gitDrained, forced, workers>>

-----------------------------------------------------------------------------
(* drainAndClose *)

Signal ==
  /\ stage = "serving" /\ stage' = "unready"
  /\ UNCHANGED <<connVars, working, pagesOpen, apiDrained, gitDrained, forced, workers>>

AfterApi == IF inFlight(Calls) = {} THEN "closing" ELSE "git"

CloseListener ==
  /\ stage = "unready"
  /\ stage' = IF inFlight(ApiCalls) = {} THEN AfterApi ELSE "api"
  /\ UNCHANGED <<connVars, working, pagesOpen, apiDrained, gitDrained, forced, workers>>

requestDrainOver ==
  /\ stage = "api" /\ apiDrained' = FALSE /\ stage' = AfterApi
  /\ UNCHANGED <<connVars, working, pagesOpen, gitDrained, forced, workers>>

gitDrainOver ==
  /\ stage = "git" /\ gitDrained' = FALSE /\ stage' = "closing"
  /\ UNCHANGED <<connVars, working, pagesOpen, apiDrained, forced, workers>>

closeIdleConnections ==
  /\ stage = "closing" /\ ~forced /\ forced' = TRUE
  /\ UNCHANGED <<stage, connVars, working, pagesOpen, apiDrained, gitDrained, workers>>

closeAllConnections ==
  /\ stage = "closing" /\ ~forced /\ forced' = TRUE
  /\ conn' = [r \in Calls |-> IF conn[r] = "open" THEN "cut" ELSE conn[r]]
  /\ kept' = {}
  /\ UNCHANGED <<stage, late, working, pagesOpen, apiDrained, gitDrained, workers>>

\* The server has closed; the workers, the sockets and the database follow.
StopWorkers ==
  /\ stage = "closing" /\ inFlight(Calls) = {} /\ kept = {} /\ pagesOpen = {}
  /\ stage' = "stopped" /\ workers' = FALSE
  /\ UNCHANGED <<connVars, working, pagesOpen, apiDrained, gitDrained, forced>>

Exit ==
  /\ stage = "stopped" /\ stage' = "exited" /\ working' = {}
  /\ UNCHANGED <<connVars, pagesOpen, apiDrained, gitDrained, forced, workers>>

\* The timers of the process, and the steps that follow them.
ShutdownStep ==
  CloseListener \/ requestDrainOver \/ gitDrainOver \/ closeAllConnections \/ StopWorkers \/ Exit

DownNext ==
  \/ \E r \in Calls : trackRequest(r) \/ Answer(r) \/ ClientLeaves(r) \/ IdleEnds(r)
  \/ \E p \in Pages : onUpgrade(p) \/ PageLeaves(p)
  \/ Signal \/ ShutdownStep

\* A timer fires; no client is bound to hang up and no handler to end.
DownFairness == WF_downVars(ShutdownStep)

DownSpec == DownInit /\ [][DownNext]_downVars /\ DownFairness

-----------------------------------------------------------------------------

\* A request that was there when the listener closed is cut only after its budget: a
\* Git transfer after the long one, an API request after both; one that came later, on
\* a connection that was still busy, has none of its own.  And the workers stop when
\* no client waits for an answer any more, so that what such a request queues is
\* still sent (graceful-shutdown.mjs, shutdown of server.mjs).
DrainedInOrder ==
  /\ \A r \in Calls \ late : conn[r] = "cut" => ~gitDrained /\ (r \in ApiCalls => ~apiDrained)
  /\ ~workers => \A r \in Calls : conn[r] # "open"

\* Once asked to stop the process exits, whatever clients and handlers do, as
\* long as no page holds its WebSocket (the budgets of drainAndClose).
StopsWithoutPages == (stage # "serving") ~> (stage = "exited" \/ pagesOpen # {})

\* What docs/OPERATIONS_BOUNDARY.md says of every shutdown.
ShutdownEnds == (stage # "serving") ~> (stage = "exited")

=============================================================================
