------------------------------- MODULE JobLog -------------------------------
(***************************************************************************)
(* The log of one job, from the runner agent's buffer to a viewer's page:  *)
(* createLogBuffer and executeJob of src/src/runner-agent.mjs, the runner  *)
(* and reader routes of src/src/workflow-logs.mjs.                         *)
(*                                                                         *)
(* Flushes are sent on a timer that does not wait for the one before, so   *)
(* several may be on the wire.  The server checks the job's token, awaits  *)
(* the body, and only then appends.                                        *)
(***************************************************************************)
EXTENDS Naturals, Sequences, FiniteSets

CONSTANTS
  MaxChunks,      \* how many chunks the job produces, its verdict included
  Timers,         \* the flushes of the timer that may overlap
  MaxPerRequest,  \* LOG_LIMITS.maxChunksPerRequest
  MaxStored,      \* LOG_LIMITS.maxBytesPerJob, a chunk being one unit
  PageSize        \* LOG_LIMITS.defaultReadChunks

ASSUME LogAssumption ==
  /\ MaxChunks \in Nat /\ MaxStored \in Nat
  /\ MaxPerRequest \in Nat \ {0} /\ PageSize \in Nat \ {0}

Last == "last"                  \* the flush of executeJob's finally block
ASSUME TimerAssumption == Last \notin Timers
Requests == Timers \cup {Last}

Notice == 0                     \* the chunk that says the log was truncated
NoBatch == <<>>

VARIABLES
  produced,   \* chunks pushed so far: they are numbered 1, 2, ...
  buffer,     \* the buffer, oldest first
  carried,    \* request -> the chunks it carries, or NoBatch
  progress,   \* request -> "free", "sent", "checked", "stored" or "failed"
  agent,      \* "working", "flushing", "reporting" or "gone"
  job,        \* the row: "running", "reported" or "stopped"; its token lives
              \* as long as it runs
  log,        \* workflow_job_logs, by sequence
  truncated,  \* log_truncated
  place,      \* the viewer's cursor
  viewed,     \* what the viewer has been given
  complete    \* the viewer was told that it has everything

server == <<job, log, truncated>>
viewer == <<place, viewed, complete>>
logVars == <<produced, buffer, carried, progress, agent, server, viewer>>

Chunks == 1 .. MaxChunks
Stages == {"free", "sent", "checked", "stored", "failed"}
InLog  == {log[i] : i \in 1 .. Len(log)}
Carried(b) == {b[i] : i \in 1 .. Len(b)}

LogTypeOK ==
  /\ produced \in 0 .. MaxChunks
  /\ buffer \in Seq(Chunks)
  /\ carried \in [Requests -> Seq(Chunks)]
  /\ progress \in [Requests -> Stages]
  /\ agent \in {"working", "flushing", "reporting", "gone"}
  /\ job \in {"running", "reported", "stopped"}
  /\ log \in Seq(Chunks \cup {Notice})
  /\ truncated \in BOOLEAN
  /\ place \in Nat
  /\ viewed \in Seq(Chunks \cup {Notice})
  /\ complete \in BOOLEAN

LogInit ==
  /\ produced = 0 /\ buffer = <<>>
  /\ carried = [r \in Requests |-> NoBatch]
  /\ progress = [r \in Requests |-> "free"]
  /\ agent = "working" /\ job = "running"
  /\ log = <<>> /\ truncated = FALSE
  /\ place = 0 /\ viewed = <<>> /\ complete = FALSE

-----------------------------------------------------------------------------
(* The agent *)

\* A step prints something; the last chunk is kept for the verdict.
Push ==
  /\ agent = "working" /\ produced + 1 < MaxChunks
  /\ produced' = produced + 1
  /\ buffer' = Append(buffer, produced + 1)
  /\ UNCHANGED <<carried, progress, agent, server, viewer>>

\* flush(): the whole buffer goes out as one request.
Send(r, chunks) ==
  /\ progress[r] = "free"
  /\ carried' = [carried EXCEPT ![r] = chunks]
  /\ progress' = [progress EXCEPT ![r] = "sent"]
  /\ buffer' = <<>>

FlushTimer(r) ==
  /\ agent = "working" /\ buffer # <<>>
  /\ Send(r, buffer)
  /\ UNCHANGED <<produced, agent, server, viewer>>

\* The end of the steps: the timer is cleared, the verdict is pushed, and what
\* the buffer then holds is flushed once.
FinalFlush ==
  /\ agent = "working"
  /\ produced' = produced + 1
  /\ Send(Last, Append(buffer, produced + 1))
  /\ agent' = "flushing"
  /\ UNCHANGED <<server, viewer>>

\* Mutant: what could not be sent is dropped.
PutBackNothing(chunks) == buffer

\* What a failed flush does with its batch.
PutBack(chunks) == chunks \o buffer

\* The answer to a flush, or the error, reaches the agent, which reports the
\* outcome after its last flush however that one ended.
Settle(r) ==
  /\ progress[r] \in {"stored", "failed"}
  /\ buffer' = IF progress[r] = "failed" THEN PutBack(carried[r]) ELSE buffer
  /\ progress' = [progress EXCEPT ![r] = "free"]
  /\ carried' = [carried EXCEPT ![r] = NoBatch]
  /\ agent' = IF r = Last THEN "reporting" ELSE agent
  /\ UNCHANGED <<produced, server, viewer>>

\* The completion request is sent once; `arrives` says whether the server sees it.
ReportEnd(arrives) ==
  /\ agent = "reporting"
  /\ agent' = "gone"
  /\ job' = IF arrives /\ job = "running" THEN "reported" ELSE job
  /\ UNCHANGED <<produced, buffer, carried, progress, log, truncated, viewer>>

-----------------------------------------------------------------------------
(* The server *)

\* authorizeJobToken, before `await readJson`.
Authorize(r) ==
  /\ progress[r] = "sent"
  /\ progress' = [progress EXCEPT ![r] = IF job = "running" THEN "checked" ELSE "failed"]
  /\ UNCHANGED <<produced, buffer, carried, agent, server, viewer>>

\* The transaction of appendJobLog: chunks are stored up to the cap, the first
\* that does not fit is replaced by the notice, and then nothing more is.
Store(l, t, chunks) ==
  LET room == MaxStored - Len(l) IN
  IF t THEN [log |-> l, truncated |-> t]
  ELSE IF Len(chunks) <= room THEN [log |-> l \o chunks, truncated |-> t]
  ELSE [log |-> l \o SubSeq(chunks, 1, room) \o <<Notice>>, truncated |-> TRUE]

\* The rest of the log route: a request with too many chunks is refused as a
\* whole, any other is appended, whatever became of the job in between.
AppendJobLog(r) ==
  /\ progress[r] = "checked"
  /\ IF Len(carried[r]) > MaxPerRequest
     THEN /\ progress' = [progress EXCEPT ![r] = "failed"]
          /\ UNCHANGED <<log, truncated>>
     ELSE LET after == Store(log, truncated, carried[r]) IN
          /\ progress' = [progress EXCEPT ![r] = "stored"]
          /\ log' = after.log /\ truncated' = after.truncated
  /\ UNCHANGED <<produced, buffer, carried, agent, job, viewer>>

\* Cancelled or reaped.
StopLogger ==
  /\ job = "running"
  /\ job' = "stopped"
  /\ UNCHANGED <<produced, buffer, carried, progress, agent, log, truncated, viewer>>

\* Mutant: the page starts at the cursor instead of after it.
PageFromCursor(after) ==
  LET end == IF after + PageSize < Len(log) THEN after + PageSize ELSE Len(log) IN
  SubSeq(log, IF after = 0 THEN 1 ELSE after, end)

\* The page of readJobLog that follows a cursor.
Page(after) ==
  LET end == IF after + PageSize < Len(log) THEN after + PageSize ELSE Len(log) IN
  SubSeq(log, after + 1, end)

\* readJobLog; a viewer that has been told it has everything stops asking.
Read ==
  /\ ~complete
  /\ viewed' = viewed \o Page(place)
  /\ place' = place + Len(Page(place))
  /\ complete' = (place' = Len(log) /\ job # "running")
  /\ UNCHANGED <<produced, buffer, carried, progress, agent, server>>

-----------------------------------------------------------------------------
\* The network: a request is lost on its way there, or its answer on the way
\* back, and the agent sees the same error.
Lose(r) ==
  /\ progress[r] \in {"sent", "checked", "stored"}
  /\ progress' = [progress EXCEPT ![r] = "failed"]
  /\ UNCHANGED <<produced, buffer, carried, agent, server, viewer>>

LogNext ==
  \/ Push \/ FinalFlush \/ StopLogger \/ Read
  \/ \E r \in Timers : FlushTimer(r)
  \/ \E r \in Requests : Settle(r) \/ Authorize(r) \/ AppendJobLog(r) \/ Lose(r)
  \/ \E arrives \in BOOLEAN : ReportEnd(arrives)

LogSpec == LogInit /\ [][LogNext]_logVars

\* The timer fires, answers are delivered, and a request that is repeated
\* forever gets through in the end.
LogFairness ==
  /\ WF_logVars(\E r \in Timers : FlushTimer(r))
  /\ \A r \in Requests : WF_logVars(Settle(r)) /\ SF_logVars(Authorize(r)) /\ SF_logVars(AppendJobLog(r))

FairLogSpec == LogSpec /\ LogFairness

-----------------------------------------------------------------------------
(* Properties *)

\* While there is room in the log, every chunk ever produced is in it, in the
\* buffer or on the wire: a failed flush loses nothing, however the failures
\* and the later flushes interleave.
NothingDropped ==
  truncated \/ \A c \in 1 .. produced :
    \/ c \in InLog \cup Carried(buffer)
    \/ \E r \in Requests : c \in Carried(carried[r])

\* A viewer that tails by cursor has read a prefix of the log, each chunk once
\* and in sequence, while the log grew under it.
ViewerReadsPrefix == place <= Len(log) /\ viewed = SubSeq(log, 1, place)

\* More has piled up than one request may carry.  As a flush takes the whole buffer
\* and such a request is refused as a whole, nothing gets through from then on.
Backlogged == Len(buffer) > MaxPerRequest \/ \E r \in Requests : Len(carried[r]) > MaxPerRequest

\* Everything a job prints gets into its log while it goes on working, through lost
\* requests and lost answers, as long as no backlog is larger than a request may be
\* (flush of createLogBuffer, appendJobLog).
OutputGetsThrough ==
  \A c \in Chunks :
    c <= produced ~> c \in InLog \/ truncated \/ agent # "working" \/ job # "running" \/ Backlogged

\* What the documents and comments say, and the code does not do:
\* src/src/workflow-logs.mjs:189, "A finished job with no more chunks will never
\* produce another one".
CompleteIsFinal == complete => place = Len(log)

\* src/docs/SELF_HOSTED_RUNNERS.md:81, "Logs are flushed before the outcome is
\* sent", and src/src/runner-agent.mjs:292, "Output is never dropped when a
\* flush fails".
NothingLeftBehind ==
  job = "reported" => truncated \/ \A c \in 1 .. produced : c \in InLog

\* src/docs/SELF_HOSTED_RUNNERS.md:114, "Batched rather than one request per line [...]
\* and never dropped": kept, but not delivered, once a backlog is larger than a request
\* may be.
BacklogGetsThrough ==
  \A c \in Chunks :
    c <= produced ~> c \in InLog \/ truncated \/ agent # "working" \/ job # "running"

\* src/docs/SELF_HOSTED_RUNNERS.md:115, "a failed flush puts the output back at
\* the front of the buffer": the log keeps the order in which it was produced.
LogInOrder ==
  \A j \in 1 .. Len(log) : log[j] \in Chunks \ {1} =>
    \E i \in 1 .. j - 1 : log[i] = log[j] - 1

\* Nothing a job prints is lost on the way to its log while there is room, and a
\* viewer reads the log and nothing else (createLogBuffer, appendJobLog, readJobLog).
LogSound == NothingDropped /\ ViewerReadsPrefix

=============================================================================
