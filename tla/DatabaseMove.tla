----------------------------- MODULE DatabaseMove -----------------------------
(***************************************************************************)
(* Moving the metadata from SQLite to PostgreSQL: the export that reads    *)
(* table after table while the server goes on writing                      *)
(* (database-portability.mjs), the offline import of that file into an     *)
(* empty schema (postgresql-offline-import.mjs, postgresql-executor.mjs,   *)
(* node-postgres-adapter.mjs), and the shadow verification that compares   *)
(* the two databases afterwards (postgresql-shadow-orchestrator.mjs).      *)
(*                                                                         *)
(* An attempt is one run of the import command; all attempts share the     *)
(* default output directory, hence one journal.  A row stands for all the  *)
(* rows of its table; "issues" refers to "repositories".  PostgreSQL keeps *)
(* its promises: a transaction is atomic, a foreign key is enforced, and a *)
(* session that dies loses its transaction and its advisory lock.          *)
(***************************************************************************)
EXTENDS FiniteSets, Naturals, Sequences

CONSTANTS Attempts,     \* runs of the import command
          MaxWrites,    \* bound: changes of the live database
          MaxExports,   \* bound: exports taken
          MaxRecreates  \* bound: schemas dropped and created anew

Tables == {"issues", "repositories"}
References == [t \in Tables |-> IF t = "issues" THEN {"repositories"} ELSE {}]
Whole(rows) == \A t \in rows : References[t] \subseteq rows

\* Tables are exported in the order of their names and imported in the order
\* of their references.
ExportOrder == <<"issues", "repositories">>
dependencyOrder == <<"repositories", "issues">>

NoFile == [rows |-> {}, at |-> 0]
NoTx == [open |-> FALSE, rows |-> {}, exact |-> TRUE]

VARIABLES live,        \* the tables of the live database that have their row
          writes,      \* changes so far
          exporting,   \* [next, rows]: the export in progress
          exportFile,  \* the export file; at = 0 when there is none
          imp,         \* imp[a]: [pc, rows, done]; rows is the export it loaded
          session,     \* session[a]: its connection is up
          advisory,    \* the attempt whose session holds the advisory lock, as a set
          tx,          \* tx[a]: its transaction
          schema,      \* the target schema: {} when empty, else {[by, rows, exact]}
          did,         \* history: the attempts whose transaction committed
          unsure,      \* history: the attempts whose COMMIT was not acknowledged
          journal,     \* [by, status] of the state journal
          evidence,    \* evidence[k]: the attempts named by the snapshot, report, receipt
          shadow,      \* [pc, left, differs, seen, steady]: the shadow verification,
                       \* the target it reads and what was live all along
          recreated

moveVars == <<live, writes, exporting, exportFile, imp, session, advisory, tx, schema, did,
              unsure, journal, evidence, shadow, recreated>>
sourceVars == <<live, writes, exporting, exportFile>>

Evidence == <<"snapshot", "report", "receipt">>
Statuses == {"none", "prepared", "connected", "running", "rolled_back", "committed", "failed"}
Stages == {"idle", "prepared", "connected", "validated", "inserting", "verified",
           "committed", "snapshot", "report", "receipt", "final", "ended"}

MoveTypeOK ==
  /\ live \subseteq Tables /\ writes \in 0..MaxWrites
  /\ exporting \in [next : 0..2, rows : SUBSET Tables]
  /\ exportFile \in [rows : SUBSET Tables, at : 0..MaxExports]
  /\ imp \in [Attempts -> [pc : Stages, rows : SUBSET Tables, done : 0..2]]
  /\ session \in [Attempts -> BOOLEAN] /\ advisory \subseteq Attempts
  /\ tx \in [Attempts -> [open : BOOLEAN, rows : SUBSET Tables, exact : BOOLEAN]]
  /\ schema \subseteq [by : Attempts, rows : SUBSET Tables, exact : BOOLEAN]
  /\ did \subseteq Attempts /\ unsure \subseteq Attempts
  /\ journal \in [by : SUBSET Attempts, status : Statuses]
  /\ evidence \in [1..3 -> SUBSET Attempts]
  /\ shadow \in [pc : {"none", "running", "verified", "failed"}, left : SUBSET Tables,
                 differs : BOOLEAN, seen : SUBSET Tables, steady : SUBSET Tables]
  /\ recreated \in 0..MaxRecreates

MoveInit ==
  /\ live = Tables /\ writes = 0 /\ exporting = [next |-> 0, rows |-> {}]
  /\ exportFile = NoFile
  /\ imp = [a \in Attempts |-> [pc |-> "idle", rows |-> {}, done |-> 0]]
  /\ session = [a \in Attempts |-> FALSE] /\ advisory = {}
  /\ tx = [a \in Attempts |-> NoTx] /\ schema = {} /\ did = {} /\ unsure = {}
  /\ journal = [by |-> {}, status |-> "none"] /\ evidence = [k \in 1..3 |-> {}]
  /\ shadow = [pc |-> "none", left |-> {}, differs |-> FALSE, seen |-> {}, steady |-> {}]
  /\ recreated = 0

-----------------------------------------------------------------------------
\* The server goes on: a repository with its issues comes or goes, or its issues alone.
WriteMetadata ==
  /\ writes < MaxWrites /\ writes' = writes + 1
  /\ \E next \in {rows \in SUBSET Tables : Whole(rows)} \ {live} :
       /\ live' = next
       /\ shadow' = IF shadow.pc = "running" THEN [shadow EXCEPT !.steady = @ \cap next]
                    ELSE shadow
  /\ UNCHANGED <<exporting, exportFile, imp, session, advisory, tx, schema, did, unsure,
                 journal, evidence, recreated>>

\* createSqliteExport: one table is read after another, in no transaction; the
\* foreign keys are asked of the live database, and the file is renamed into place.
createSqliteExport ==
  /\ exportFile.at < MaxExports
  /\ LET n == exporting.next + 1
         rows == exporting.rows \cup ({ExportOrder[n]} \cap live)
     IN IF n < Len(ExportOrder)
        THEN /\ exporting' = [next |-> n, rows |-> rows]
             /\ UNCHANGED exportFile
        ELSE /\ exporting' = [next |-> 0, rows |-> {}]
             /\ exportFile' = [rows |-> rows, at |-> exportFile.at + 1]
  /\ UNCHANGED <<live, writes, imp, session, advisory, tx, schema, did, unsure, journal,
                 evidence, shadow, recreated>>

-----------------------------------------------------------------------------
Goto(a, pc) == imp' = [imp EXCEPT ![a].pc = pc]
writeAtomic(a, status) == journal' = [by |-> {a}, status |-> status]
\* A write of the journal whose failure is swallowed.
writeBestEffort(a, status) == writeAtomic(a, status) \/ UNCHANGED journal

\* adapter.close: the transaction is rolled back, the lock given back.
close(a) ==
  /\ session' = [session EXCEPT ![a] = FALSE]
  /\ advisory' = advisory \ {a}
  /\ tx' = [tx EXCEPT ![a] = NoTx]

\* The file as its checksums and the confirmed fingerprint let it through: a torn
\* export passes, for its checksums are of what was read.
readSqliteExport == exportFile.rows

\* The file is read and confirmed, the plan built, the journal begun.
Prepare(a) ==
  /\ imp[a].pc = "idle" /\ exportFile.at > 0
  /\ imp' = [imp EXCEPT ![a] = [pc |-> "prepared", rows |-> readSqliteExport, done |-> 0]]
  /\ writeAtomic(a, "prepared")
  /\ UNCHANGED <<sourceVars, session, advisory, tx, schema, did, unsure, evidence, shadow,
                 recreated>>

\* pg_try_advisory_lock: another migration's lock is not waited for.
LockFree(a) == advisory = {}

connect(a) ==
  /\ imp[a].pc = "prepared" /\ LockFree(a)
  /\ session' = [session EXCEPT ![a] = TRUE] /\ advisory' = advisory \cup {a}
  /\ writeAtomic(a, "connected") /\ Goto(a, "connected")
  /\ UNCHANGED <<sourceVars, tx, schema, did, unsure, evidence, shadow, recreated>>

\* The first question of the import: the schema must be empty.
listUserTables(a) ==
  /\ imp[a].pc = "connected" /\ session[a] /\ schema = {}
  /\ writeAtomic(a, "running") /\ Goto(a, "validated")
  /\ UNCHANGED <<sourceVars, session, advisory, tx, schema, did, unsure, evidence, shadow,
                 recreated>>

begin(a) ==
  /\ imp[a].pc = "validated" /\ session[a]
  /\ tx' = [tx EXCEPT ![a] = [NoTx EXCEPT !.open = TRUE]]
  /\ writeAtomic(a, "running") /\ Goto(a, "inserting")
  /\ UNCHANGED <<sourceVars, session, advisory, schema, did, unsure, evidence, shadow,
                 recreated>>

\* The batches of the next table.  PostgreSQL may give a value back in another
\* form than SQLite had it.
InsertBatches(a) ==
  /\ imp[a].pc = "inserting" /\ imp[a].done < Len(dependencyOrder) /\ session[a]
  /\ LET t == dependencyOrder[imp[a].done + 1]
         rows == {t} \cap imp[a].rows
     IN /\ Whole(tx[a].rows \cup rows)
        /\ \E exact \in (IF rows = {} THEN {TRUE} ELSE BOOLEAN) :
             tx' = [tx EXCEPT ![a] = [open |-> @.open, rows |-> @.rows \cup rows,
                                     exact |-> @.exact /\ exact]]
  /\ imp' = [imp EXCEPT ![a].done = @ + 1] /\ writeAtomic(a, "running")
  /\ UNCHANGED <<sourceVars, session, advisory, schema, did, unsure, evidence, shadow,
                 recreated>>

\* collectPostgresqlTargetSnapshot and the comparison of counts and checksums.
ValidCounts(a) == Cardinality(tx[a].rows) = Cardinality(imp[a].rows)
Valid(a) == tx[a].rows = imp[a].rows /\ tx[a].exact

verifyPostgresqlTargetSnapshot(a) ==
  /\ imp[a].pc = "inserting" /\ imp[a].done = Len(dependencyOrder) /\ session[a]
  /\ Valid(a)
  /\ writeAtomic(a, "running") /\ Goto(a, "verified")
  /\ UNCHANGED <<sourceVars, session, advisory, tx, schema, did, unsure, evidence, shadow,
                 recreated>>

Committed(a) == {[by |-> a, rows |-> tx[a].rows, exact |-> tx[a].exact]}

commit(a) ==
  /\ imp[a].pc = "verified" /\ session[a]
  /\ schema' = Committed(a) /\ did' = did \cup {a}
  /\ tx' = [tx EXCEPT ![a] = NoTx]
  /\ writeBestEffort(a, "committed") /\ Goto(a, "committed")
  /\ UNCHANGED <<sourceVars, session, advisory, unsure, evidence, shadow, recreated>>

\* No answer to COMMIT: the database committed or not, the attempt rolls back
\* what may be no transaction any more, and reports a failure.
CommitUnanswered(a) ==
  /\ imp[a].pc = "verified" /\ session[a]
  /\ \/ schema' = Committed(a) /\ did' = did \cup {a}
     \/ UNCHANGED <<schema, did>>
  /\ unsure' = unsure \cup {a}
  /\ \E status \in {"rolled_back", "failed"} : writeBestEffort(a, status)
  /\ close(a) /\ Goto(a, "ended")
  /\ UNCHANGED <<sourceVars, evidence, shadow, recreated>>

Failing == {"connected", "validated", "inserting", "verified"}

\* An attempt ends before its commit: the lock is taken, the schema is not empty,
\* a foreign key or the verification refuses, the session is lost, the journal
\* cannot be written, the operator cancels.
Fail(a) ==
  /\ imp[a].pc \in Failing \cup {"prepared"}
  /\ writeBestEffort(a, "failed")
  /\ close(a) /\ Goto(a, "ended")
  /\ UNCHANGED <<sourceVars, schema, did, unsure, evidence, shadow, recreated>>

\* The session dies in the middle; the attempt finds out at its next query.
LoseSession(a) ==
  /\ imp[a].pc \in Failing /\ session[a]
  /\ close(a)
  /\ UNCHANGED <<sourceVars, imp, schema, did, unsure, journal, evidence, shadow,
                 recreated>>

\* The process of an attempt dies.
Crash(a) ==
  /\ imp[a].pc \notin {"idle", "ended"}
  /\ close(a) /\ Goto(a, "ended")
  /\ UNCHANGED <<sourceVars, schema, did, unsure, journal, evidence, shadow, recreated>>

\* The lock is released before the evidence is written.
CloseAfterCommit(a) ==
  /\ imp[a].pc = "committed"
  /\ close(a) /\ Goto(a, "snapshot")
  /\ UNCHANGED <<sourceVars, schema, did, unsure, journal, evidence, shadow, recreated>>

\* The three artifacts, in order, each as well as it can be written.
WriteEvidence(a) ==
  /\ \E k \in 1..3 :
       /\ imp[a].pc = Evidence[k]
       /\ evidence' = [evidence EXCEPT ![k] = {a}] \/ UNCHANGED evidence
       /\ Goto(a, IF k = 3 THEN "final" ELSE Evidence[k + 1])
  /\ UNCHANGED <<sourceVars, session, advisory, tx, schema, did, unsure, journal, shadow,
                 recreated>>

WriteFinalState(a) ==
  /\ imp[a].pc = "final"
  /\ writeBestEffort(a, "committed") /\ Goto(a, "ended")
  /\ UNCHANGED <<sourceVars, session, advisory, tx, schema, did, unsure, evidence, shadow,
                 recreated>>

\* An administrator drops the schema and creates it anew for a clean retry.
RecreateSchema ==
  /\ recreated < MaxRecreates /\ schema # {} /\ shadow.pc # "running"
  /\ \A a \in Attempts : ~tx[a].open
  /\ schema' = {} /\ recreated' = recreated + 1
  /\ UNCHANGED <<sourceVars, imp, session, advisory, tx, did, unsure, journal, evidence,
                 shadow>>

-----------------------------------------------------------------------------
\* The shadow verification takes no advisory lock.  It reads the target in one
\* read-only transaction, hence as it was at the start, and the live database as
\* it is at each read; over a schema without tables every read is an error.
ShadowStart ==
  /\ shadow.pc # "running"
  /\ shadow' = [pc |-> "running", left |-> Tables, differs |-> schema = {},
                seen |-> UNION {r.rows : r \in schema}, steady |-> live]
  /\ UNCHANGED <<sourceVars, imp, session, advisory, tx, schema, did, unsure, journal,
                 evidence, recreated>>

\* A read of the catalogue: samples come from SQLite, so a table that is empty
\* there is skipped.
Sampled(t) == t \in live
ShadowRead(t) ==
  /\ shadow.pc = "running" /\ t \in shadow.left
  /\ LET differs == shadow.differs \/ (Sampled(t) /\ t \notin shadow.seen)
         left == shadow.left \ {t}
         pc == IF left # {} THEN "running" ELSE IF differs THEN "failed" ELSE "verified"
     IN shadow' = [shadow EXCEPT !.pc = pc, !.left = left, !.differs = differs]
  /\ UNCHANGED <<sourceVars, imp, session, advisory, tx, schema, did, unsure, journal,
                 evidence, recreated>>

AttemptNext(a) ==
  \/ Prepare(a) \/ connect(a) \/ listUserTables(a) \/ begin(a) \/ InsertBatches(a)
  \/ verifyPostgresqlTargetSnapshot(a) \/ commit(a) \/ CommitUnanswered(a) \/ Fail(a)
  \/ LoseSession(a) \/ Crash(a) \/ CloseAfterCommit(a) \/ WriteEvidence(a)
  \/ WriteFinalState(a)

MoveNext ==
  \/ WriteMetadata \/ createSqliteExport \/ RecreateSchema \/ ShadowStart
  \/ \E t \in Tables : ShadowRead(t)
  \/ \E a \in Attempts : AttemptNext(a)

MoveSpec == MoveInit /\ [][MoveNext]_moveVars

-----------------------------------------------------------------------------
\* What the target holds is one whole export, row for row, with no reference to
\* a row it lacks: never part of one, never parts of two, although the export
\* itself may have been torn by the writes it was taken among.
TargetIsWhole ==
  \A r \in schema : /\ r.exact /\ r.rows = imp[r.by].rows /\ Whole(r.rows)
                    /\ r.by \in did

\* Two attempts never have the schema open for writing, and none opens a
\* transaction over a schema that has tables.
OneImporter ==
  \A a \in Attempts : tx[a].open => /\ schema = {}
                                    /\ \A b \in Attempts \ {a} : ~tx[b].open

\* Success is claimed only by an attempt whose transaction committed, in the
\* journal as in each artifact; and no attempt that was answered its COMMIT is
\* ever said to have failed or to have been rolled back.
ClaimsAreTrue ==
  /\ journal.status = "committed" => journal.by \subseteq did
  /\ \A k \in 1..3 : evidence[k] \subseteq did
  /\ journal.status \in {"failed", "rolled_back"} => journal.by \cap did \subseteq unsure

\* A verified shadow report: the target had every table that the live database
\* had rows in from the first read to the last.
VerifiedIsMeant == shadow.pc = "verified" => shadow.steady \subseteq shadow.seen

MoveIsSound == TargetIsWhole /\ OneImporter /\ ClaimsAreTrue /\ VerifiedIsMeant

-----------------------------------------------------------------------------
(***************************************************************************)
(* Once moved to, the new database is watched: the read service that       *)
(* answers from SQLite and hands a copy on (runtime-read-service.mjs), and *)
(* the observer with its bounded queue, its workers and its circuit        *)
(* breaker (postgresql-runtime-observer.mjs).  A job is an observation     *)
(* waiting to be compared; observations are alike, so they are counted.    *)
(* Observer and move share no state.                                       *)
(***************************************************************************)

CONSTANTS ObserverWorkers,  \* resolved.concurrency of them
          MaxQueue,         \* resolved.maxQueue
          CircuitErrors,    \* resolved.circuitErrors
          MaxReads          \* bound: reads the server makes

\* The bounds of boundedInteger: at least one worker, one job and one error.
ASSUME ObserverAssumption ==
  /\ IsFiniteSet(ObserverWorkers) /\ ObserverWorkers # {}
  /\ MaxQueue \in Nat \ {0} /\ CircuitErrors \in Nat \ {0}

VARIABLES reads,     \* reads answered
          pending,   \* observations handed to setImmediate
          queue,     \* jobs waiting
          scheduled, \* a start of the workers is due
          worker,    \* worker[w]: "idle", "connecting" or "reading" its job
          adapter,   \* adapter[w]: worker.adapter is connected
          circuit,   \* [state, errors]
          cooled,    \* the cooldown of the open circuit is over
          metrics,   \* how many observations met each fate
          phase,     \* "running", "draining" (no longer accepting), "stopped"
          dead       \* the process ended by a rejection nobody handles

observerVars == <<reads, pending, queue, scheduled, worker, adapter, circuit, cooled,
                  metrics, phase, dead>>

Fates == {"observed", "notSampled", "droppedCircuit", "droppedQueue", "sampled",
          "compared", "errors"}

ObserverTypeOK ==
  /\ reads \in 0..MaxReads /\ pending \in 0..MaxReads /\ queue \in 0..MaxQueue
  /\ scheduled \in BOOLEAN /\ dead \in BOOLEAN /\ cooled \in BOOLEAN
  /\ worker \in [ObserverWorkers -> {"idle", "connecting", "reading"}]
  /\ adapter \in [ObserverWorkers -> BOOLEAN]
  /\ circuit \in [state : {"closed", "open", "half_open"}, errors : 0..MaxReads]
  /\ metrics \in [Fates -> 0..MaxReads]
  /\ phase \in {"running", "draining", "stopped"}

ObserverInit ==
  /\ reads = 0 /\ pending = 0 /\ queue = 0 /\ scheduled = FALSE /\ dead = FALSE
  /\ worker = [w \in ObserverWorkers |-> "idle"]
  /\ adapter = [w \in ObserverWorkers |-> FALSE]
  /\ circuit = [state |-> "closed", errors |-> 0] /\ cooled = FALSE
  /\ metrics = [f \in Fates |-> 0] /\ phase = "running"

\* recordMetric of several fates at once.
Recorded(m, fates) == [f \in Fates |-> m[f] + (IF f \in fates THEN 1 ELSE 0)]

Working == {w \in ObserverWorkers : worker[w] # "idle"}

\* The read is answered from SQLite; its observation waits for the event loop.
read ==
  /\ ~dead /\ reads < MaxReads
  /\ reads' = reads + 1 /\ pending' = pending + 1
  /\ UNCHANGED <<queue, scheduled, worker, adapter, circuit, cooled, metrics, phase, dead>>

\* An open circuit whose cooldown is over lets one kind of traffic through again.
HalfOpens == circuit.state = "open" /\ cooled
Open == circuit.state = "open" /\ ~cooled

\* observe, in the order of its questions: accepting, sampled, circuit, queue.
observe ==
  /\ ~dead /\ pending > 0 /\ pending' = pending - 1
  /\ IF phase # "running"
     THEN UNCHANGED <<queue, scheduled, circuit, metrics>>
     ELSE \/ /\ metrics' = Recorded(metrics, {"observed", "notSampled"})
             /\ UNCHANGED <<queue, scheduled, circuit>>
          \/ /\ circuit' = IF HalfOpens THEN [circuit EXCEPT !.state = "half_open"] ELSE circuit
             /\ IF Open
                THEN /\ metrics' = Recorded(metrics, {"observed", "droppedCircuit"})
                     /\ UNCHANGED <<queue, scheduled>>
                ELSE IF queue >= MaxQueue
                THEN /\ metrics' = Recorded(metrics, {"observed", "droppedQueue"})
                     /\ UNCHANGED <<queue, scheduled>>
                ELSE /\ metrics' = Recorded(metrics, {"observed", "sampled"})
                     /\ queue' = queue + 1 /\ scheduled' = TRUE
  /\ UNCHANGED <<reads, worker, adapter, cooled, phase, dead>>

\* circuitCooldownMs have passed since the circuit opened.
CoolDown ==
  /\ ~dead /\ circuit.state = "open" /\ ~cooled /\ cooled' = TRUE
  /\ UNCHANGED <<reads, pending, queue, scheduled, worker, adapter, circuit, metrics, phase,
                 dead>>

\* A worker goes for its next job: straight to the read when it is connected.
Took(w, at) == [at EXCEPT ![w] = IF adapter[w] THEN "reading" ELSE "connecting"]

\* setImmediate: every idle worker takes a job, as long as there are any; a
\* stopped observer starts none.
Takers(n) == {ws \in SUBSET {w \in ObserverWorkers : worker[w] = "idle"} :
                Cardinality(ws) = n}

schedule ==
  /\ ~dead /\ scheduled /\ scheduled' = FALSE
  /\ LET idle == Cardinality(ObserverWorkers \ Working)
         n == IF phase = "stopped" THEN 0 ELSE IF queue < idle THEN queue ELSE idle
     IN /\ \E ws \in Takers(n) :
             worker' = [w \in ObserverWorkers |->
                          IF w \in ws THEN Took(w, worker)[w] ELSE worker[w]]
        /\ queue' = queue - n
  /\ UNCHANGED <<reads, pending, adapter, circuit, cooled, metrics, phase, dead>>

\* adapter.connect succeeded; stop may have closed the workers meanwhile.
ensureAdapter(w) ==
  /\ ~dead /\ worker[w] = "connecting"
  /\ worker' = [worker EXCEPT ![w] = "reading"] /\ adapter' = [adapter EXCEPT ![w] = TRUE]
  /\ UNCHANGED <<reads, pending, queue, scheduled, circuit, cooled, metrics, phase, dead>>

NextJobNone(w, connected) == worker' = [worker EXCEPT ![w] = "idle"] /\ UNCHANGED queue

\* workerLoop after a job: the next one, unless none waits or the observer stopped.
NextJob(w, connected) ==
  IF queue > 0 /\ phase # "stopped"
  THEN /\ worker' = [worker EXCEPT ![w] = IF connected THEN "reading" ELSE "connecting"]
       /\ queue' = queue - 1
  ELSE /\ worker' = [worker EXCEPT ![w] = "idle"] /\ UNCHANGED queue

\* The comparison, whatever it says, closes the circuit.
Compared(w) ==
  /\ ~dead /\ worker[w] = "reading" /\ adapter[w]
  /\ metrics' = Recorded(metrics, {"compared"})
  /\ circuit' = [state |-> "closed", errors |-> 0] /\ cooled' = FALSE
  /\ NextJob(w, TRUE)
  /\ UNCHANGED <<reads, pending, scheduled, adapter, phase, dead>>

\* An error of the connection or of the read, or a timeout: the connection is
\* given up and the error counted.
Errors(w) ==
  /\ ~dead /\ worker[w] # "idle"
  /\ adapter' = [adapter EXCEPT ![w] = FALSE]
  /\ metrics' = Recorded(metrics, {"errors"})
  /\ LET n == circuit.errors + 1
     IN circuit' = [state |-> IF n >= CircuitErrors THEN "open" ELSE "closed", errors |-> n]
  /\ cooled' = FALSE
  /\ NextJob(w, FALSE)
  /\ UNCHANGED <<reads, pending, scheduled, phase, dead>>

\* The state file cannot be written while a worker runs: its promise is
\* rejected and nobody handles it.
persistFails ==
  /\ ~dead /\ Working # {} /\ dead' = TRUE
  /\ UNCHANGED <<reads, pending, queue, scheduled, worker, adapter, circuit, cooled,
                 metrics, phase>>

stopBegins ==
  /\ ~dead /\ phase = "running" /\ phase' = "draining"
  /\ UNCHANGED <<reads, pending, queue, scheduled, worker, adapter, circuit, cooled,
                 metrics, dead>>

\* Drained, or out of time: what still waits is dropped and counted, and every
\* connection that a worker holds now is closed.
stopEnds ==
  /\ ~dead /\ phase = "draining" /\ phase' = "stopped"
  /\ metrics' = [metrics EXCEPT !["droppedQueue"] = @ + queue] /\ queue' = 0
  /\ adapter' = [w \in ObserverWorkers |-> FALSE]
  /\ UNCHANGED <<reads, pending, scheduled, worker, circuit, cooled, dead>>

ObserverNext ==
  \/ read \/ observe \/ CoolDown \/ schedule \/ persistFails \/ stopBegins \/ stopEnds
  \/ \E w \in ObserverWorkers : ensureAdapter(w) \/ Compared(w) \/ Errors(w)

ObserverSpec == ObserverInit /\ [][ObserverNext]_observerVars

-----------------------------------------------------------------------------
\* Every observation taken has exactly one fate, dropped ones included, through
\* timeouts, an open circuit and a stop that finds jobs in flight.
EveryFateCounted ==
  metrics["observed"] = metrics["notSampled"] + metrics["droppedCircuit"]
                        + metrics["droppedQueue"] + metrics["compared"]
                        + metrics["errors"] + queue + Cardinality(Working)

\* No job is left in the queue with nobody to take it.
NothingStranded == queue > 0 /\ ~dead => scheduled \/ Working # {}

\* The circuit is open only after that many errors in a row.
OpenForAReason == circuit.state = "open" => circuit.errors >= CircuitErrors

ObserverSound == EveryFateCounted /\ NothingStranded /\ OpenForAReason

\* Once stopped and at rest, no connection is left open.
StopClosesAll == phase = "stopped" /\ Working = {} => \A w \in ObserverWorkers : ~adapter[w]

==============================================================================
