----------------------------- MODULE MovesProofs -----------------------------
(***************************************************************************)
(* What is moved arrives as it left: proofs about the move of a database,  *)
(* the observer of its shadow, and the tenant that is exported and         *)
(* imported, for any number of attempts, workers, imports, archives and    *)
(* changes.  The parts share no variable; each has its own invariant.      *)
(***************************************************************************)
EXTENDS MCOperations, Integers, FiniteSetTheorems, TLAPS

(***************************************************************************)
(* DatabaseMove: one attempt at a time has a session, and what it commits  *)
(* is what it has read.                                                    *)
(***************************************************************************)
AttemptAt == [pc : Stages, rows : SUBSET Tables, done : Nat]
TxAt == [open : BOOLEAN, rows : SUBSET Tables, exact : BOOLEAN]

MoveShape ==
  /\ live \subseteq Tables /\ exporting.rows \subseteq Tables /\ exportFile.rows \subseteq Tables
  /\ imp \in [Attempts -> AttemptAt] /\ session \in [Attempts -> BOOLEAN] /\ advisory \subseteq Attempts
  /\ tx \in [Attempts -> TxAt]
  /\ schema \subseteq [by : Attempts, rows : SUBSET Tables, exact : BOOLEAN]
  /\ did \subseteq Attempts /\ unsure \subseteq Attempts
  /\ journal \in [by : SUBSET Attempts, status : Statuses]
  /\ evidence \in [1 .. 3 -> SUBSET Attempts]
  /\ shadow \in [pc : {"none", "running", "verified", "failed"}, left : SUBSET Tables,
                 differs : BOOLEAN, seen : SUBSET Tables, steady : SUBSET Tables]

\* The advisory lock is its session's, and there is one.
OneSession ==
  /\ \A a \in Attempts : session[a] <=> a \in advisory
  /\ \A a, b \in advisory : a = b

\* From the question whether the schema is empty to the COMMIT, for as long as the session lives.
Under(a) == session[a] /\ imp[a].pc \in {"validated", "inserting", "verified"}

\* A transaction is its session's, over an empty schema, and once verified it is the export.
TransactionsStand ==
  \A a \in Attempts :
    /\ tx[a].open => Under(a)
    /\ Under(a) => schema = {}
    /\ Whole(tx[a].rows)
    /\ Under(a) /\ imp[a].pc = "verified" => tx[a].rows = imp[a].rows /\ tx[a].exact

Done == {"committed", "snapshot", "report", "receipt", "final"}

\* Only what was committed is past its commit; what is said to have failed has ended.
ClaimsStand ==
  /\ \A a \in Attempts : /\ imp[a].pc \in Done => a \in did
                         /\ a \in did => imp[a].pc \in Done \cup {"ended"}
  /\ journal.status \in {"failed", "rolled_back"} => \A a \in journal.by : imp[a].pc = "ended"

\* A shadow verification under way has found every table that was there all along and is read.
ShadowStands ==
  shadow.pc = "running" =>
    /\ shadow.steady \subseteq live
    /\ shadow.differs \/ shadow.steady \subseteq shadow.left \cup shadow.seen

MoveInv == MoveShape /\ OneSession /\ TransactionsStand /\ ClaimsStand /\ ShadowStands /\ MoveIsSound

LEMMA MoveStarts == MoveInit => MoveInv
<1> SUFFICES ASSUME MoveInit PROVE MoveInv
  OBVIOUS
<1>1. MoveShape
  BY DEF MoveInit, MoveShape, AttemptAt, TxAt, NoTx, NoFile, Stages, Statuses
<1>2. OneSession /\ TransactionsStand /\ ClaimsStand /\ ShadowStands
  BY DEF MoveInit, OneSession, TransactionsStand, Under, Whole, ClaimsStand, Done, ShadowStands, NoTx
<1>3. MoveIsSound
  BY DEF MoveInit, MoveIsSound, TargetIsWhole, OneImporter, ClaimsAreTrue, VerifiedIsMeant, NoTx
<1> QED BY <1>1, <1>2, <1>3 DEF MoveInv

LEMMA SourceIsSound ==
  ASSUME MoveInv,
         WriteMetadata \/ createSqliteExport \/ RecreateSchema \/ ShadowStart \/ \E t \in Tables : ShadowRead(t)
  PROVE  MoveInv'
<1> USE DEF MoveInv
<1>1. CASE WriteMetadata
  <2>1. PICK next \in SUBSET Tables :
          /\ live' = next
          /\ shadow' = IF shadow.pc = "running" THEN [shadow EXCEPT !.steady = @ \cap next] ELSE shadow
    BY <1>1 DEF WriteMetadata
  <2>2. UNCHANGED <<exporting, exportFile, imp, session, advisory, tx, schema, did, unsure, journal, evidence>>
    BY <1>1 DEF WriteMetadata
  <2>3. MoveShape' /\ ShadowStands' /\ VerifiedIsMeant'
    BY <2>1, <2>2 DEF MoveShape, ShadowStands, VerifiedIsMeant, MoveIsSound
  <2>4. OneSession' /\ TransactionsStand' /\ ClaimsStand'
    BY <2>2 DEF OneSession, TransactionsStand, Under, ClaimsStand
  <2>5. TargetIsWhole' /\ OneImporter' /\ ClaimsAreTrue'
    BY <2>2 DEF MoveIsSound, TargetIsWhole, OneImporter, ClaimsAreTrue
  <2> QED BY <2>3, <2>4, <2>5 DEF MoveIsSound
<1>2. CASE createSqliteExport
  <2>1. UNCHANGED <<live, imp, session, advisory, tx, schema, did, unsure, journal, evidence, shadow>>
    BY <1>2 DEF createSqliteExport
  <2>2. exporting'.rows \subseteq Tables /\ exportFile'.rows \subseteq Tables
    <3> DEFINE rows == exporting.rows \cup ({ExportOrder[exporting.next + 1]} \cap live)
    <3>1. rows \subseteq Tables
      BY DEF MoveShape
    <3>2. \/ exporting' = [next |-> exporting.next + 1, rows |-> rows] /\ UNCHANGED exportFile
          \/ exporting' = [next |-> 0, rows |-> {}] /\ exportFile' = [rows |-> rows, at |-> exportFile.at + 1]
      BY <1>2 DEF createSqliteExport
    <3> HIDE DEF rows
    <3> QED BY <3>1, <3>2 DEF MoveShape
  <2>3. MoveShape' /\ OneSession' /\ TransactionsStand' /\ ClaimsStand' /\ ShadowStands'
    BY <2>1, <2>2 DEF MoveShape, OneSession, TransactionsStand, Under, ClaimsStand, ShadowStands
  <2>4. MoveIsSound'
    BY <2>1 DEF MoveIsSound, TargetIsWhole, OneImporter, ClaimsAreTrue, VerifiedIsMeant
  <2> QED BY <2>3, <2>4
<1>3. CASE RecreateSchema
  <2>1. /\ schema' = {}
        /\ UNCHANGED <<live, exporting, exportFile, imp, session, advisory, tx, did, unsure, journal, evidence, shadow>>
    BY <1>3 DEF RecreateSchema, sourceVars
  <2>2. MoveShape' /\ OneSession' /\ TransactionsStand' /\ ClaimsStand' /\ ShadowStands'
    BY <2>1 DEF MoveShape, OneSession, TransactionsStand, Under, ClaimsStand, ShadowStands
  <2>3. MoveIsSound'
    BY <2>1 DEF MoveIsSound, TargetIsWhole, OneImporter, ClaimsAreTrue, VerifiedIsMeant
  <2> QED BY <2>2, <2>3
<1>4. ASSUME NEW t \in Tables, ShadowRead(t) \/ ShadowStart PROVE MoveInv'
  <2>1. UNCHANGED <<live, exporting, exportFile, imp, session, advisory, tx, schema, did, unsure, journal, evidence>>
    BY <1>4 DEF ShadowStart, ShadowRead, sourceVars
  <2>2. OneSession' /\ TransactionsStand' /\ ClaimsStand'
    BY <2>1 DEF OneSession, TransactionsStand, Under, ClaimsStand
  <2>3. TargetIsWhole' /\ OneImporter' /\ ClaimsAreTrue'
    BY <2>1 DEF MoveIsSound, TargetIsWhole, OneImporter, ClaimsAreTrue
  <2>4. MoveShape' /\ ShadowStands' /\ VerifiedIsMeant'
    <3>1. CASE ShadowStart
      <4>1. shadow' = [pc |-> "running", left |-> Tables, differs |-> schema = {},
                       seen |-> UNION {r.rows : r \in schema}, steady |-> live]
        BY <3>1 DEF ShadowStart
      <4>2. UNION {r.rows : r \in schema} \subseteq Tables
        BY DEF MoveShape
      <4> QED BY <2>1, <4>1, <4>2 DEF MoveShape, ShadowStands, VerifiedIsMeant
    <3>2. CASE ShadowRead(t)
      <4> DEFINE differs == shadow.differs \/ (Sampled(t) /\ t \notin shadow.seen)
                 left == shadow.left \ {t}
                 pc == IF left # {} THEN "running" ELSE IF differs THEN "failed" ELSE "verified"
      <4>1. shadow.pc = "running" /\ shadow' = [shadow EXCEPT !.pc = pc, !.left = left, !.differs = differs]
        BY <3>2 DEF ShadowRead
      <4>2. differs \in BOOLEAN /\ pc \in {"running", "failed", "verified"} /\ left \subseteq Tables
        BY DEF MoveShape
      <4>3. differs \/ shadow.steady \subseteq left \cup shadow.seen
        BY <4>1 DEF ShadowStands, Sampled
      <4>4. pc = "verified" => left = {} /\ ~differs
        OBVIOUS
      <4> HIDE DEF differs, left, pc
      <4>5. /\ shadow'.pc = pc /\ shadow'.left = left /\ shadow'.differs = differs
            /\ shadow'.seen = shadow.seen /\ shadow'.steady = shadow.steady
        BY <4>1 DEF MoveShape
      <4>6. MoveShape'
        BY <2>1, <4>1, <4>2 DEF MoveShape
      <4>7. ShadowStands' /\ VerifiedIsMeant'
        BY <2>1, <4>1, <4>3, <4>4, <4>5 DEF ShadowStands, VerifiedIsMeant
      <4> QED BY <4>6, <4>7
    <3> QED BY <1>4, <3>1, <3>2
  <2> QED BY <2>2, <2>3, <2>4 DEF MoveIsSound
<1> QED BY <1>1, <1>2, <1>3, <1>4 DEF Tables


\* An attempt that only goes on, its session and transaction as they were.
LEMMA GoesOn ==
  ASSUME MoveInv, NEW a \in Attempts, NEW to \in Stages, NEW status \in {"prepared", "connected", "running"},
         Goto(a, to), writeAtomic(a, status),
         UNCHANGED <<sourceVars, session, advisory, tx, schema, did, unsure, evidence, shadow>>,
         \/ imp[a].pc = "connected" /\ to = "validated" /\ schema = {}
         \/ imp[a].pc = "inserting" /\ to = "verified" /\ tx[a].rows = imp[a].rows /\ tx[a].exact
  PROVE  MoveInv'
<1> USE DEF MoveInv
<1>1. /\ imp' = [imp EXCEPT ![a].pc = to] /\ journal' = [by |-> {a}, status |-> status]
      /\ imp'[a].pc = to /\ \A b \in Attempts : /\ imp'[b].rows = imp[b].rows
                                                /\ b # a => imp'[b] = imp[b]
  BY DEF Goto, writeAtomic, MoveShape, AttemptAt
<1>2. MoveShape'
  BY <1>1 DEF MoveShape, AttemptAt, sourceVars, Statuses
<1>3. a \notin did
  BY DEF ClaimsStand, Done
<1>4. OneSession' /\ ClaimsStand' /\ ShadowStands'
  BY <1>1, <1>3 DEF OneSession, ClaimsStand, ShadowStands, sourceVars, Done
<1>5. TransactionsStand'
  <2>1. \A b \in Attempts : tx[b].open => Under(b)
    BY DEF TransactionsStand
  <2>2. \A b \in Attempts : Under(b)' => schema = {}
    BY <1>1 DEF TransactionsStand, Under
  <2>3. \A b \in Attempts : Under(b) => Under(b)'
    BY <1>1 DEF Under
  <2>4. \A b \in Attempts : Under(b)' /\ imp'[b].pc = "verified" => tx[b].rows = imp'[b].rows /\ tx[b].exact
    BY <1>1 DEF TransactionsStand, Under
  <2> QED BY <2>1, <2>2, <2>3, <2>4 DEF TransactionsStand
<1>6. MoveIsSound'
  <2>1. TargetIsWhole'
    BY <1>1 DEF MoveIsSound, TargetIsWhole, MoveShape
  <2>2. OneImporter' /\ ClaimsAreTrue' /\ VerifiedIsMeant'
    BY <1>1 DEF MoveIsSound, OneImporter, ClaimsAreTrue, VerifiedIsMeant
  <2> QED BY <2>1, <2>2 DEF MoveIsSound
<1> QED BY <1>2, <1>4, <1>5, <1>6

LEMMA QuestionsAreSound ==
  ASSUME MoveInv, NEW a \in Attempts, listUserTables(a) \/ verifyPostgresqlTargetSnapshot(a)
  PROVE  MoveInv'
<1>1. CASE listUserTables(a)
  BY <1>1, GoesOn DEF listUserTables, Stages
<1>2. CASE verifyPostgresqlTargetSnapshot(a)
  BY <1>2, GoesOn DEF verifyPostgresqlTargetSnapshot, Valid, Stages
<1> QED BY <1>1, <1>2

LEMMA PrepareIsSound ==
  ASSUME MoveInv, NEW a \in Attempts, Prepare(a)
  PROVE  MoveInv'
<1> USE DEF MoveInv
<1>1. /\ imp[a].pc = "idle" /\ journal' = [by |-> {a}, status |-> "prepared"]
      /\ imp' = [imp EXCEPT ![a] = [pc |-> "prepared", rows |-> exportFile.rows, done |-> 0]]
      /\ UNCHANGED <<live, exporting, exportFile, session, advisory, tx, schema, did, unsure, evidence, shadow>>
  BY DEF Prepare, readSqliteExport, writeAtomic, sourceVars
<1>2. imp'[a].pc = "prepared" /\ \A b \in Attempts \ {a} : imp'[b] = imp[b]
  BY <1>1 DEF MoveShape
<1>3. MoveShape'
  BY <1>1 DEF MoveShape, AttemptAt, Stages, Statuses
<1>4. a \notin did
  BY <1>1 DEF ClaimsStand, Done
<1>5. OneSession' /\ ClaimsStand' /\ ShadowStands'
  BY <1>1, <1>2, <1>4 DEF OneSession, ClaimsStand, ShadowStands, Done
<1>6. TransactionsStand'
  <2>1. \A b \in Attempts : Under(b)' <=> Under(b)
    BY <1>1, <1>2 DEF Under
  <2>2. ~Under(a)
    BY <1>1 DEF Under
  <2> QED BY <1>1, <1>2, <2>1, <2>2 DEF TransactionsStand
<1>7. TargetIsWhole'
  BY <1>1, <1>2, <1>4 DEF MoveIsSound, TargetIsWhole, MoveShape
<1>8. OneImporter' /\ ClaimsAreTrue' /\ VerifiedIsMeant'
  BY <1>1 DEF MoveIsSound, OneImporter, ClaimsAreTrue, VerifiedIsMeant
<1> QED BY <1>3, <1>5, <1>6, <1>7, <1>8 DEF MoveIsSound

LEMMA ConnectIsSound ==
  ASSUME MoveInv, NEW a \in Attempts, connect(a)
  PROVE  MoveInv'
<1> USE DEF MoveInv
<1>1. /\ imp[a].pc = "prepared" /\ advisory = {} /\ journal' = [by |-> {a}, status |-> "connected"]
      /\ imp' = [imp EXCEPT ![a].pc = "connected"]
      /\ session' = [session EXCEPT ![a] = TRUE] /\ advisory' = advisory \cup {a}
      /\ UNCHANGED <<live, exporting, exportFile, tx, schema, did, unsure, evidence, shadow>>
  BY DEF connect, LockFree, writeAtomic, Goto, sourceVars
<1>2. imp'[a].pc = "connected" /\ \A b \in Attempts : /\ imp'[b].rows = imp[b].rows
                                                      /\ b # a => imp'[b] = imp[b] /\ session'[b] = session[b]
  BY <1>1 DEF MoveShape, AttemptAt
<1>3. MoveShape'
  BY <1>1 DEF MoveShape, AttemptAt, Stages, Statuses
<1>4. a \notin did
  BY <1>1 DEF ClaimsStand, Done
<1>5. OneSession'
  BY <1>1, <1>2 DEF OneSession, MoveShape
<1>6. ClaimsStand' /\ ShadowStands'
  BY <1>1, <1>2, <1>4 DEF ClaimsStand, ShadowStands, Done
<1>7. TransactionsStand'
  <2>1. \A b \in Attempts : Under(b)' <=> Under(b)
    BY <1>1, <1>2 DEF Under
  <2>2. ~Under(a)
    BY <1>1 DEF Under
  <2> QED BY <1>1, <1>2, <2>1, <2>2 DEF TransactionsStand
<1>8. TargetIsWhole'
  BY <1>1, <1>2 DEF MoveIsSound, TargetIsWhole, MoveShape
<1>9. OneImporter' /\ ClaimsAreTrue' /\ VerifiedIsMeant'
  BY <1>1 DEF MoveIsSound, OneImporter, ClaimsAreTrue, VerifiedIsMeant
<1> QED BY <1>3, <1>5, <1>6, <1>7, <1>8, <1>9 DEF MoveIsSound

LEMMA TransactionIsSound ==
  ASSUME MoveInv, NEW a \in Attempts, begin(a) \/ InsertBatches(a)
  PROVE  MoveInv'
<1> USE DEF MoveInv
<1>1. /\ Under(a) /\ session[a] /\ imp[a].pc \in {"validated", "inserting"}
      /\ journal' = [by |-> {a}, status |-> "running"]
      /\ UNCHANGED <<live, exporting, exportFile, session, advisory, schema, did, unsure, evidence, shadow>>
  BY DEF begin, InsertBatches, Under, writeAtomic, sourceVars
<1>2. PICK to \in TxAt : Whole(to.rows) /\ tx' = [tx EXCEPT ![a] = to]
  <2>1. CASE begin(a)
    <3>1. tx' = [tx EXCEPT ![a] = [NoTx EXCEPT !.open = TRUE]]
      BY <2>1 DEF begin
    <3>2. [NoTx EXCEPT !.open = TRUE] \in TxAt /\ Whole([NoTx EXCEPT !.open = TRUE].rows)
      BY DEF NoTx, TxAt, Whole
    <3> QED BY <3>1, <3>2
  <2>2. CASE InsertBatches(a)
    <3>1. PICK rows \in SUBSET imp[a].rows, exact \in BOOLEAN :
            /\ Whole(tx[a].rows \cup rows)
            /\ tx' = [tx EXCEPT ![a] = [open |-> @.open, rows |-> @.rows \cup rows,
                                     exact |-> @.exact /\ exact]]
      <4>1. \A t : {t} \cap imp[a].rows \in SUBSET imp[a].rows
        OBVIOUS
      <4> QED BY <2>2, <4>1 DEF InsertBatches
    <3> DEFINE to == [open |-> tx[a].open, rows |-> tx[a].rows \cup rows, exact |-> tx[a].exact /\ exact]
    <3>2. tx[a] \in TxAt /\ imp[a].rows \subseteq Tables
      BY DEF MoveShape, AttemptAt
    <3>3. to \in TxAt
      <4>1. (tx[a].exact /\ exact) \in BOOLEAN
        BY DEF TxAt
      <4>2. tx[a].rows \cup rows \in SUBSET Tables
        BY <3>2 DEF TxAt
      <4> QED BY <3>2, <4>1, <4>2 DEF TxAt
    <3>4. tx' = [tx EXCEPT ![a] = to]
      BY <3>1
    <3>5. Whole(to.rows)
      BY <3>1
    <3> QED BY <3>3, <3>4, <3>5
  <2> QED BY <2>1, <2>2
<1>3. PICK at \in AttemptAt : at.pc = "inserting" /\ at.rows = imp[a].rows /\ imp' = [imp EXCEPT ![a] = at]
  <2>0. imp[a] \in AttemptAt
    BY DEF MoveShape
  <2>1. CASE begin(a)
    <3>1. imp' = [imp EXCEPT ![a].pc = "inserting"]
      BY <2>1 DEF begin, Goto
    <3>2. imp' = [imp EXCEPT ![a] = [imp[a] EXCEPT !.pc = "inserting"]]
      BY <3>1
    <3>3. [imp[a] EXCEPT !.pc = "inserting"] \in AttemptAt
      BY <2>0 DEF AttemptAt, Stages
    <3> QED BY <2>0, <3>2, <3>3 DEF AttemptAt
  <2>2. CASE InsertBatches(a)
    <3>1. imp' = [imp EXCEPT ![a].done = @ + 1]
      BY <2>2 DEF InsertBatches
    <3>2. imp' = [imp EXCEPT ![a] = [imp[a] EXCEPT !.done = imp[a].done + 1]]
      BY <3>1
    <3>3. [imp[a] EXCEPT !.done = imp[a].done + 1] \in AttemptAt /\ imp[a].pc = "inserting"
      BY <2>0, <2>2 DEF AttemptAt, InsertBatches
    <3> QED BY <2>0, <3>2, <3>3 DEF AttemptAt
  <2> QED BY <2>1, <2>2
<1>4. /\ imp'[a] = at /\ tx'[a] = to /\ \A b \in Attempts \ {a} : imp'[b] = imp[b] /\ tx'[b] = tx[b]
      /\ \A b \in Attempts : imp'[b].rows = imp[b].rows
  BY <1>2, <1>3 DEF MoveShape
<1>5. MoveShape'
  BY <1>1, <1>2, <1>3 DEF MoveShape, Statuses
<1>6. a \notin did
  BY <1>1 DEF ClaimsStand, Done
<1>7. OneSession' /\ ClaimsStand' /\ ShadowStands'
  BY <1>1, <1>3, <1>4, <1>6 DEF OneSession, ClaimsStand, ShadowStands, Done
<1>8. TransactionsStand'
  <2>1. \A b \in Attempts : Under(b)' <=> Under(b)
    BY <1>1, <1>3, <1>4 DEF Under
  <2>2. imp'[a].pc = "inserting" /\ Whole(tx'[a].rows)
    BY <1>2, <1>3, <1>4
  <2> QED BY <1>1, <1>4, <2>1, <2>2 DEF TransactionsStand
<1>9. OneImporter'
  <2>1. schema = {}
    BY <1>1 DEF TransactionsStand
  <2>2. \A b \in Attempts : tx'[b].open => Under(b)
    BY <1>1, <1>4 DEF TransactionsStand
  <2>3. \A b \in Attempts : Under(b) => b = a
    BY <1>1 DEF Under, OneSession
  <2> QED BY <1>1, <2>1, <2>2, <2>3 DEF OneImporter
<1>10. TargetIsWhole'
  BY <1>1, <1>4 DEF MoveIsSound, TargetIsWhole, MoveShape
<1>11. ClaimsAreTrue' /\ VerifiedIsMeant'
  BY <1>1 DEF MoveIsSound, ClaimsAreTrue, VerifiedIsMeant
<1> QED BY <1>5, <1>7, <1>8, <1>9, <1>10, <1>11 DEF MoveIsSound

\* What close leaves of the sessions and their transactions.
LEMMA Closed ==
  ASSUME MoveShape, OneSession, NEW a \in Attempts, close(a)
  PROVE  /\ session' \in [Attempts -> BOOLEAN] /\ advisory' \subseteq Attempts /\ tx' \in [Attempts -> TxAt]
         /\ OneSession' /\ ~session'[a] /\ tx'[a] = NoTx
         /\ \A b \in Attempts \ {a} : session'[b] = session[b] /\ tx'[b] = tx[b]
<1>1. /\ session' = [session EXCEPT ![a] = FALSE] /\ advisory' = advisory \ {a} /\ tx' = [tx EXCEPT ![a] = NoTx]
  BY DEF close
<1>2. NoTx \in TxAt
  BY DEF NoTx, TxAt
<1> QED BY <1>1, <1>2 DEF MoveShape, OneSession

\* An attempt that closes before its commit, and has not failed after it; or after it, and says nothing.
LEMMA ClosesSoundly ==
  ASSUME MoveInv, NEW a \in Attempts, close(a), NEW to \in Stages, Goto(a, to) \/ UNCHANGED imp,
         UNCHANGED <<sourceVars, schema, did, unsure, evidence, shadow>>,
         \/ UNCHANGED journal
         \/ a \notin did /\ to = "ended" /\ Goto(a, to) /\ writeAtomic(a, "failed"),
         Goto(a, to) => to = "ended" \/ (imp[a].pc = "committed" /\ to = "snapshot")
  PROVE  MoveInv'
<1> USE DEF MoveInv
<1>1. /\ imp' \in [Attempts -> AttemptAt]
      /\ \A b \in Attempts : /\ imp'[b].rows = imp[b].rows
                             /\ b # a => imp'[b] = imp[b]
      /\ \/ imp'[a].pc = imp[a].pc
         \/ imp'[a].pc = "ended"
         \/ imp[a].pc = "committed" /\ imp'[a].pc = "snapshot"
  <2>1. CASE Goto(a, to)
    <3>1. imp' = [imp EXCEPT ![a].pc = to]
      BY <2>1 DEF Goto
    <3> QED BY <2>1, <3>1 DEF MoveShape, AttemptAt
  <2>2. CASE UNCHANGED imp
    BY <2>2 DEF MoveShape
  <2> QED BY <2>1, <2>2
<1>2. /\ session' \in [Attempts -> BOOLEAN] /\ advisory' \subseteq Attempts /\ tx' \in [Attempts -> TxAt]
      /\ OneSession' /\ ~session'[a] /\ tx'[a] = NoTx
      /\ \A b \in Attempts \ {a} : session'[b] = session[b] /\ tx'[b] = tx[b]
  BY Closed
<1>3. UNCHANGED journal \/ (a \notin did /\ imp'[a].pc = "ended" /\ journal' = [by |-> {a}, status |-> "failed"])
  <2>1. CASE Goto(a, to) /\ to = "ended" /\ a \notin did /\ writeAtomic(a, "failed")
    <3>1. imp' = [imp EXCEPT ![a].pc = "ended"]
      BY <2>1 DEF Goto
    <3> QED BY <2>1, <3>1 DEF MoveShape, AttemptAt, writeAtomic
  <2> QED BY <2>1
<1>4. MoveShape'
  BY <1>1, <1>2, <1>3 DEF MoveShape, sourceVars, Statuses
<1>5. ClaimsStand'
  <2>1. \A b \in Attempts : /\ imp'[b].pc \in Done => b \in did
                            /\ b \in did => imp'[b].pc \in Done \cup {"ended"}
    BY <1>1 DEF ClaimsStand, Done
  <2>2. journal'.status \in {"failed", "rolled_back"} => \A b \in journal'.by : imp'[b].pc = "ended"
    BY <1>1, <1>3 DEF ClaimsStand, MoveShape
  <2> QED BY <2>1, <2>2 DEF ClaimsStand
<1>6. TransactionsStand' /\ OneImporter'
  <2>1. \A b \in Attempts : Under(b)' <=> b # a /\ Under(b)
    BY <1>1, <1>2 DEF Under
  <2>2. Whole(NoTx.rows) /\ ~NoTx.open
    BY DEF Whole, NoTx
  <2>3. TransactionsStand'
    BY <1>1, <1>2, <2>1, <2>2 DEF TransactionsStand
  <2> QED BY <1>2, <2>2, <2>3 DEF OneImporter, MoveIsSound
<1>7. TargetIsWhole' /\ VerifiedIsMeant' /\ ShadowStands'
  BY <1>1 DEF MoveIsSound, TargetIsWhole, MoveShape, VerifiedIsMeant, ShadowStands, sourceVars
<1>8. ClaimsAreTrue'
  BY <1>3 DEF MoveIsSound, ClaimsAreTrue
<1> QED BY <1>2, <1>4, <1>5, <1>6, <1>7, <1>8 DEF MoveIsSound

LEMMA EndsAreSound ==
  ASSUME MoveInv, NEW a \in Attempts, Fail(a) \/ LoseSession(a) \/ Crash(a) \/ CloseAfterCommit(a)
  PROVE  MoveInv'
<1>1. CASE Fail(a)
  <2>1. a \notin did
    BY <1>1 DEF MoveInv, ClaimsStand, Done, Fail, Failing
  <2> QED BY <1>1, <2>1, ClosesSoundly DEF Fail, writeBestEffort, Stages
<1>2. CASE LoseSession(a)
  <2>1. ~Goto(a, "ended")
    <3>1. imp[a].pc # "ended" /\ imp \in [Attempts -> AttemptAt] /\ UNCHANGED imp
      BY <1>2 DEF LoseSession, Failing, MoveInv, MoveShape
    <3> QED BY <3>1 DEF Goto, AttemptAt
  <2> QED BY <1>2, <2>1, ClosesSoundly DEF LoseSession, Stages
<1>3. CASE Crash(a)
  BY <1>3, ClosesSoundly DEF Crash, Stages
<1>4. CASE CloseAfterCommit(a)
  BY <1>4, ClosesSoundly DEF CloseAfterCommit, Stages
<1> QED BY <1>1, <1>2, <1>3, <1>4

\* The schema that a verified attempt commits is its export, and nobody else is under way.
LEMMA WhatIsCommitted ==
  ASSUME MoveInv, NEW a \in Attempts, imp[a].pc = "verified", session[a]
  PROVE  /\ Committed(a) \subseteq [by : Attempts, rows : SUBSET Tables, exact : BOOLEAN]
         /\ \A r \in Committed(a) : r.by = a /\ r.exact /\ r.rows = imp[a].rows /\ Whole(r.rows)
         /\ \A b \in Attempts : Under(b) => b = a
         /\ a \notin did
<1> USE DEF MoveInv
<1>1. Under(a)
  BY DEF Under
<1>2. tx[a] \in TxAt /\ tx[a].rows = imp[a].rows /\ tx[a].exact /\ Whole(tx[a].rows)
  BY <1>1 DEF TransactionsStand, MoveShape
<1>3. \A b \in Attempts : Under(b) => b = a
  BY DEF Under, OneSession
<1>4. a \notin did
  BY DEF ClaimsStand, Done
<1> QED BY <1>2, <1>3, <1>4 DEF Committed, TxAt

LEMMA CommitIsSound ==
  ASSUME MoveInv, NEW a \in Attempts, commit(a)
  PROVE  MoveInv'
<1> USE DEF MoveInv
<1>1. /\ imp[a].pc = "verified" /\ session[a] /\ schema' = Committed(a) /\ did' = did \cup {a}
      /\ tx' = [tx EXCEPT ![a] = NoTx] /\ imp' = [imp EXCEPT ![a].pc = "committed"]
      /\ journal' = [by |-> {a}, status |-> "committed"] \/ UNCHANGED journal
      /\ UNCHANGED <<live, exporting, exportFile, session, advisory, unsure, evidence, shadow>>
  BY DEF commit, writeBestEffort, writeAtomic, Goto, sourceVars
<1>2. /\ Committed(a) \subseteq [by : Attempts, rows : SUBSET Tables, exact : BOOLEAN]
      /\ \A r \in Committed(a) : r.by = a /\ r.exact /\ r.rows = imp[a].rows /\ Whole(r.rows)
      /\ \A b \in Attempts : Under(b) => b = a
      /\ a \notin did
  BY <1>1, WhatIsCommitted
<1>3. /\ imp'[a].pc = "committed" /\ tx'[a] = NoTx
      /\ \A b \in Attempts : /\ imp'[b].rows = imp[b].rows
                             /\ b # a => imp'[b] = imp[b] /\ tx'[b] = tx[b]
  BY <1>1 DEF MoveShape, AttemptAt
<1>4. MoveShape'
  BY <1>1, <1>2 DEF MoveShape, AttemptAt, TxAt, NoTx, Stages, Statuses
<1>5. OneSession' /\ ShadowStands' /\ VerifiedIsMeant'
  BY <1>1 DEF OneSession, ShadowStands, VerifiedIsMeant, MoveIsSound
<1>6. ClaimsStand'
  <2>1. \A b \in Attempts : /\ imp'[b].pc \in Done => b \in did'
                            /\ b \in did' => imp'[b].pc \in Done \cup {"ended"}
    BY <1>1, <1>3 DEF ClaimsStand, Done
  <2>2. journal.status \in {"failed", "rolled_back"} => a \notin journal.by
    BY <1>1 DEF ClaimsStand
  <2>3. journal'.status \in {"failed", "rolled_back"} => \A b \in journal'.by : imp'[b].pc = "ended"
    BY <1>1, <1>3, <2>2 DEF ClaimsStand, MoveShape
  <2> QED BY <2>1, <2>3 DEF ClaimsStand
<1>7. TransactionsStand' /\ OneImporter'
  <2>1. \A b \in Attempts : ~Under(b)'
    BY <1>1, <1>2, <1>3 DEF Under
  <2>2. \A b \in Attempts : ~tx'[b].open /\ Whole(tx'[b].rows)
    <3>1. Whole(NoTx.rows) /\ ~NoTx.open
      BY DEF Whole, NoTx
    <3> QED BY <1>2, <1>3, <3>1 DEF TransactionsStand
  <2> QED BY <2>1, <2>2 DEF TransactionsStand, OneImporter
<1>8. TargetIsWhole'
  BY <1>1, <1>2, <1>3 DEF TargetIsWhole
<1>9. ClaimsAreTrue'
  <2>1. journal'.status = "committed" => journal'.by \subseteq did'
    BY <1>1 DEF MoveIsSound, ClaimsAreTrue
  <2>2. journal'.status \in {"failed", "rolled_back"} => journal'.by \cap did' \subseteq unsure'
    <3>1. journal.status \in {"failed", "rolled_back"} => a \notin journal.by
      BY <1>1 DEF ClaimsStand
    <3> QED BY <1>1, <3>1 DEF MoveIsSound, ClaimsAreTrue
  <2> QED BY <1>1, <2>1, <2>2 DEF MoveIsSound, ClaimsAreTrue
<1> QED BY <1>4, <1>5, <1>6, <1>7, <1>8, <1>9 DEF MoveIsSound

LEMMA UnansweredIsSound ==
  ASSUME MoveInv, NEW a \in Attempts, CommitUnanswered(a)
  PROVE  MoveInv'
<1> USE DEF MoveInv
<1>1. /\ imp[a].pc = "verified" /\ session[a] /\ unsure' = unsure \cup {a}
      /\ \/ schema' = Committed(a) /\ did' = did \cup {a}
         \/ UNCHANGED <<schema, did>>
      /\ close(a) /\ imp' = [imp EXCEPT ![a].pc = "ended"]
      /\ \/ UNCHANGED journal
         \/ journal'.by = {a} /\ journal' \in [by : SUBSET Attempts, status : Statuses]
            /\ journal'.status \in {"rolled_back", "failed"}
      /\ UNCHANGED <<live, exporting, exportFile, evidence, shadow>>
  BY DEF CommitUnanswered, writeBestEffort, writeAtomic, Goto, sourceVars, Statuses
<1>2. /\ Committed(a) \subseteq [by : Attempts, rows : SUBSET Tables, exact : BOOLEAN]
      /\ \A r \in Committed(a) : r.by = a /\ r.exact /\ r.rows = imp[a].rows /\ Whole(r.rows)
      /\ \A b \in Attempts : Under(b) => b = a
      /\ a \notin did
  BY <1>1, WhatIsCommitted
<1>3. /\ imp'[a].pc = "ended"
      /\ \A b \in Attempts : imp'[b].rows = imp[b].rows /\ (b # a => imp'[b] = imp[b])
  BY <1>1 DEF MoveShape, AttemptAt
<1>4. /\ session' \in [Attempts -> BOOLEAN] /\ advisory' \subseteq Attempts /\ tx' \in [Attempts -> TxAt]
      /\ OneSession' /\ ~session'[a] /\ tx'[a] = NoTx
      /\ \A b \in Attempts \ {a} : session'[b] = session[b] /\ tx'[b] = tx[b]
  BY <1>1, Closed
<1>5. MoveShape'
  <2>1. schema' \subseteq [by : Attempts, rows : SUBSET Tables, exact : BOOLEAN] /\ did' \subseteq Attempts
    BY <1>1, <1>2 DEF MoveShape
  <2>2. imp' \in [Attempts -> AttemptAt]
    BY <1>1 DEF MoveShape, AttemptAt, Stages
  <2>3. journal' \in [by : SUBSET Attempts, status : Statuses] /\ unsure' \subseteq Attempts
    BY <1>1 DEF MoveShape
  <2> QED BY <1>1, <1>4, <2>1, <2>2, <2>3 DEF MoveShape
<1>6. ShadowStands' /\ VerifiedIsMeant'
  BY <1>1 DEF ShadowStands, VerifiedIsMeant, MoveIsSound
<1>7. ClaimsStand'
  <2>1. \A b \in Attempts : /\ imp'[b].pc \in Done => b \in did'
                            /\ b \in did' => imp'[b].pc \in Done \cup {"ended"}
    BY <1>1, <1>3 DEF ClaimsStand, Done
  <2>2. journal'.status \in {"failed", "rolled_back"} => \A b \in journal'.by : imp'[b].pc = "ended"
    BY <1>1, <1>3 DEF ClaimsStand, MoveShape
  <2> QED BY <2>1, <2>2 DEF ClaimsStand
<1>8. TransactionsStand' /\ OneImporter'
  <2>1. \A b \in Attempts : ~Under(b)'
    BY <1>2, <1>3, <1>4 DEF Under
  <2>2. \A b \in Attempts : ~tx'[b].open /\ Whole(tx'[b].rows)
    <3>1. Whole(NoTx.rows) /\ ~NoTx.open
      BY DEF Whole, NoTx
    <3> QED BY <1>2, <1>4, <3>1 DEF TransactionsStand
  <2> QED BY <2>1, <2>2 DEF TransactionsStand, OneImporter
<1>9. TargetIsWhole'
  BY <1>1, <1>2, <1>3 DEF MoveIsSound, TargetIsWhole, MoveShape
<1>10. ClaimsAreTrue'
  BY <1>1 DEF MoveIsSound, ClaimsAreTrue
<1> QED BY <1>4, <1>5, <1>6, <1>7, <1>8, <1>9, <1>10 DEF MoveIsSound

LEMMA EvidenceIsSound ==
  ASSUME MoveInv, NEW a \in Attempts, WriteEvidence(a) \/ WriteFinalState(a)
  PROVE  MoveInv'
<1> USE DEF MoveInv
<1>1. PICK to \in {"report", "receipt", "final", "ended"} : imp' = [imp EXCEPT ![a].pc = to]
  <2>1. CASE WriteEvidence(a)
    <3>1. PICK k \in 1 .. 3 : Goto(a, IF k = 3 THEN "final" ELSE Evidence[k + 1])
      BY <2>1 DEF WriteEvidence
    <3>2. (IF k = 3 THEN "final" ELSE Evidence[k + 1]) \in {"report", "receipt", "final", "ended"}
      <4>1. Evidence[2] = "report" /\ Evidence[3] = "receipt" /\ k \in {1, 2, 3}
        BY DEF Evidence
      <4> QED BY <4>1
    <3> QED BY <3>1, <3>2 DEF Goto
  <2>2. CASE WriteFinalState(a)
    BY <2>2 DEF WriteFinalState, Goto
  <2> QED BY <2>1, <2>2
<1>2. /\ imp[a].pc \in Done
      /\ UNCHANGED <<live, exporting, exportFile, session, advisory, tx, schema, did, unsure, shadow>>
  <2>1. \A k \in 1 .. 3 : Evidence[k] \in Done
    BY DEF Evidence, Done
  <2> QED BY <2>1 DEF WriteEvidence, WriteFinalState, sourceVars, Done
<1>3. a \in did
  BY <1>2 DEF ClaimsStand
<1>4. /\ evidence' \in [1 .. 3 -> SUBSET Attempts] /\ \A k \in 1 .. 3 : evidence'[k] \subseteq did
      /\ UNCHANGED journal \/ journal' = [by |-> {a}, status |-> "committed"]
  <2>1. evidence \in [1 .. 3 -> SUBSET Attempts] /\ \A k \in 1 .. 3 : evidence[k] \subseteq did
    BY DEF MoveShape, MoveIsSound, ClaimsAreTrue
  <2>2. CASE WriteEvidence(a)
    <3>1. UNCHANGED journal /\ \E k \in 1 .. 3 : evidence' = [evidence EXCEPT ![k] = {a}] \/ UNCHANGED evidence
      BY <2>2 DEF WriteEvidence
    <3> QED BY <1>3, <2>1, <3>1
  <2>3. CASE WriteFinalState(a)
    BY <2>1, <2>3 DEF WriteFinalState, writeBestEffort, writeAtomic
  <2> QED BY <2>2, <2>3
<1>5. /\ imp'[a].pc = to /\ \A b \in Attempts : /\ imp'[b].rows = imp[b].rows
                                                /\ b # a => imp'[b] = imp[b]
  BY <1>1 DEF MoveShape, AttemptAt
<1>6. MoveShape'
  BY <1>1, <1>2, <1>4 DEF MoveShape, AttemptAt, Stages, Statuses
<1>7. OneSession' /\ ShadowStands' /\ VerifiedIsMeant' /\ OneImporter'
  BY <1>2 DEF OneSession, ShadowStands, VerifiedIsMeant, OneImporter, MoveIsSound
<1>8. ClaimsStand'
  <2>1. \A b \in Attempts : /\ imp'[b].pc \in Done => b \in did
                            /\ b \in did => imp'[b].pc \in Done \cup {"ended"}
    BY <1>3, <1>5 DEF ClaimsStand, Done
  <2>2. journal.status \in {"failed", "rolled_back"} => a \notin journal.by
    BY <1>2 DEF ClaimsStand, Done
  <2>3. journal'.status \in {"failed", "rolled_back"} => \A b \in journal'.by : imp'[b].pc = "ended"
    BY <1>4, <1>5, <2>2 DEF ClaimsStand, MoveShape
  <2> QED BY <1>2, <2>1, <2>3 DEF ClaimsStand
<1>9. TransactionsStand'
  <2>1. \A b \in Attempts : Under(b)' <=> Under(b)
    BY <1>1, <1>2, <1>5 DEF Under, Done
  <2>2. ~Under(a)
    BY <1>2 DEF Under, Done
  <2> QED BY <1>2, <1>5, <2>1, <2>2 DEF TransactionsStand
<1>10. TargetIsWhole'
  BY <1>2, <1>5 DEF MoveIsSound, TargetIsWhole, MoveShape
<1>11. ClaimsAreTrue'
  BY <1>2, <1>3, <1>4 DEF MoveIsSound, ClaimsAreTrue
<1> QED BY <1>6, <1>7, <1>8, <1>9, <1>10, <1>11 DEF MoveIsSound

LEMMA MoveGoesOn == MoveInv /\ [MoveNext]_moveVars => MoveInv'
<1> SUFFICES ASSUME MoveInv, [MoveNext]_moveVars PROVE MoveInv'
  OBVIOUS
<1>1. CASE WriteMetadata \/ createSqliteExport \/ RecreateSchema \/ ShadowStart \/ \E t \in Tables : ShadowRead(t)
  BY <1>1, SourceIsSound
<1>2. ASSUME NEW a \in Attempts, AttemptNext(a) PROVE MoveInv'
  BY <1>2, PrepareIsSound, ConnectIsSound, QuestionsAreSound, TransactionIsSound, CommitIsSound,
     UnansweredIsSound, EndsAreSound, EvidenceIsSound DEF AttemptNext
<1>3. CASE UNCHANGED moveVars
  <2>1. MoveShape' /\ OneSession' /\ TransactionsStand' /\ ClaimsStand' /\ ShadowStands'
    BY <1>3 DEF moveVars, MoveInv, MoveShape, OneSession, TransactionsStand, Under, ClaimsStand, ShadowStands
  <2>2. MoveIsSound'
    BY <1>3 DEF moveVars, MoveInv, MoveIsSound, TargetIsWhole, OneImporter, ClaimsAreTrue, VerifiedIsMeant
  <2> QED BY <2>1, <2>2 DEF MoveInv
<1> QED BY <1>1, <1>2, <1>3 DEF MoveNext

\* The target holds one whole export, one attempt at a time has it open, success is claimed of what
\* committed and failure of nothing that was answered, and a verified shadow report is meant.
THEOREM MoveIsSoundHolds == MoveSpec => []MoveIsSound
<1>1. MoveInv => MoveIsSound
  BY DEF MoveInv
<1> QED BY <1>1, MoveStarts, MoveGoesOn, PTL DEF MoveSpec

(***************************************************************************)
(* The observer: whatever is taken is counted, whoever fails.              *)
(***************************************************************************)
ObserverShape ==
  /\ queue \in Nat /\ metrics \in [Fates -> Nat]
  /\ worker \in [ObserverWorkers -> {"idle", "connecting", "reading"}]
  /\ circuit \in [state : {"closed", "open", "half_open"}, errors : Nat]
  /\ phase \in {"running", "draining", "stopped"}

\* A stopped observer has emptied its queue, and takes nothing more.
StoppedIsEmpty == phase = "stopped" => queue = 0

ObserverInv == ObserverShape /\ StoppedIsEmpty /\ ObserverSound

LEMMA ObserverStarts == ObserverInit => ObserverInv
<1> SUFFICES ASSUME ObserverInit PROVE ObserverInv
  OBVIOUS
<1>1. ObserverShape /\ StoppedIsEmpty
  BY DEF ObserverInit, ObserverShape, StoppedIsEmpty
<1>2. Working = {}
  BY DEF ObserverInit, Working
<1>3. EveryFateCounted
  BY <1>2, FS_EmptySet DEF ObserverInit, EveryFateCounted, Fates
<1>4. NothingStranded /\ OpenForAReason
  BY DEF ObserverInit, NothingStranded, OpenForAReason
<1> QED BY <1>1, <1>3, <1>4 DEF ObserverInv, ObserverSound

\* Every fate of the recorded set is counted once more, the others stay.
LEMMA RecordedAre ==
  ASSUME NEW m \in [Fates -> Nat], NEW fates \in SUBSET Fates
  PROVE  /\ Recorded(m, fates) \in [Fates -> Nat]
         /\ \A f \in fates : Recorded(m, fates)[f] = m[f] + 1
         /\ \A f \in Fates \ fates : Recorded(m, fates)[f] = m[f]
<1>1. \A f \in Fates : m[f] \in Nat /\ m[f] + 0 = m[f] /\ m[f] + 1 \in Nat
  OBVIOUS
<1> QED BY <1>1 DEF Recorded

\* The workers are finitely many; without an idle one, one works.
LEMMA WorkersCount ==
  /\ IsFiniteSet(Working) /\ Cardinality(Working) \in Nat
  /\ IsFiniteSet(ObserverWorkers \ Working) /\ Cardinality(ObserverWorkers \ Working) \in Nat
<1>1. Working \subseteq ObserverWorkers /\ ObserverWorkers \ Working \subseteq ObserverWorkers
  BY DEF Working
<1>2. IsFiniteSet(Working) /\ IsFiniteSet(ObserverWorkers \ Working)
  BY <1>1, ObserverAssumption, FS_Subset
<1> QED BY <1>2, FS_CardinalityType

\* A read, a cooldown, the failure to persist, a stop: no worker moves.
LEMMA StopsAreCounted ==
  ASSUME ObserverInv, read \/ CoolDown \/ persistFails \/ stopBegins \/ stopEnds
  PROVE  ObserverInv'
<1> USE DEF ObserverInv, ObserverSound
<1>1. UNCHANGED <<worker, circuit>> /\ Working' = Working
  BY DEF read, CoolDown, persistFails, stopBegins, stopEnds, Working
<1>2. OpenForAReason'
  BY <1>1 DEF OpenForAReason
<1>3. CASE read \/ CoolDown \/ persistFails \/ stopBegins
  <2>1. /\ UNCHANGED <<queue, metrics, scheduled>> /\ (dead => dead')
        /\ phase' = phase \/ phase' = "draining"
    BY <1>3 DEF read, CoolDown, persistFails, stopBegins
  <2>2. ObserverShape' /\ StoppedIsEmpty' /\ NothingStranded'
    BY <1>1, <2>1 DEF ObserverShape, StoppedIsEmpty, NothingStranded
  <2>3. EveryFateCounted'
    BY <1>1, <2>1 DEF EveryFateCounted
  <2> QED BY <1>2, <2>2, <2>3
<1>4. CASE stopEnds
  <2>1. /\ phase' = "stopped" /\ queue' = 0
        /\ metrics' = [metrics EXCEPT !["droppedQueue"] = metrics["droppedQueue"] + queue]
    BY <1>4 DEF stopEnds
  <2>2. /\ metrics' \in [Fates -> Nat] /\ metrics'["droppedQueue"] = metrics["droppedQueue"] + queue
        /\ \A f \in Fates \ {"droppedQueue"} : metrics'[f] = metrics[f]
    BY <2>1 DEF ObserverShape, Fates
  <2>3. ObserverShape' /\ StoppedIsEmpty' /\ NothingStranded'
    BY <1>1, <2>1, <2>2 DEF ObserverShape, StoppedIsEmpty, NothingStranded
  <2>4. EveryFateCounted'
    BY <1>1, <2>1, <2>2, WorkersCount DEF EveryFateCounted, ObserverShape, Fates
  <2> QED BY <1>2, <2>3, <2>4
<1> QED BY <1>3, <1>4

\* One observation, one fate: not sampled, dropped by the circuit or the queue, or in the queue.
LEMMA ObservationIsCounted ==
  ASSUME ObserverInv, observe
  PROVE  ObserverInv'
<1> USE DEF ObserverInv, ObserverSound
<1>1. UNCHANGED <<worker, phase, dead>> /\ Working' = Working
  BY DEF observe, Working
<1>2. /\ circuit' \in [state : {"closed", "open", "half_open"}, errors : Nat]
      /\ circuit'.state = "open" => circuit' = circuit
  <2>1. circuit' = circuit \/ circuit' = [circuit EXCEPT !.state = "half_open"]
    BY DEF observe
  <2> QED BY <2>1 DEF ObserverShape
<1>3. OpenForAReason'
  BY <1>2 DEF OpenForAReason
<1>4. CASE UNCHANGED <<queue, scheduled, metrics>>
  BY <1>1, <1>2, <1>3, <1>4 DEF ObserverShape, StoppedIsEmpty, NothingStranded, EveryFateCounted
<1>5. ASSUME NEW fate \in {"notSampled", "droppedCircuit", "droppedQueue"},
             metrics' = Recorded(metrics, {"observed", fate}), UNCHANGED <<queue, scheduled>>
      PROVE  ObserverInv'
  <2>1. {"observed", fate} \in SUBSET Fates
    BY DEF Fates
  <2>2. /\ metrics' \in [Fates -> Nat]
        /\ \A f \in {"observed", fate} : metrics'[f] = metrics[f] + 1
        /\ \A f \in Fates \ {"observed", fate} : metrics'[f] = metrics[f]
    BY <1>5, <2>1, RecordedAre DEF ObserverShape
  <2>3. EveryFateCounted'
    <3>1. CASE fate = "notSampled"
      BY <1>1, <1>5, <2>2, <3>1, WorkersCount DEF EveryFateCounted, ObserverShape, Fates
    <3>2. CASE fate = "droppedCircuit"
      BY <1>1, <1>5, <2>2, <3>2, WorkersCount DEF EveryFateCounted, ObserverShape, Fates
    <3>3. CASE fate = "droppedQueue"
      BY <1>1, <1>5, <2>2, <3>3, WorkersCount DEF EveryFateCounted, ObserverShape, Fates
    <3> QED BY <3>1, <3>2, <3>3
  <2> QED BY <1>1, <1>2, <1>3, <1>5, <2>2, <2>3 DEF ObserverShape, StoppedIsEmpty, NothingStranded
<1>6. CASE /\ phase = "running" /\ metrics' = Recorded(metrics, {"observed", "sampled"})
           /\ queue' = queue + 1 /\ scheduled' = TRUE
  <2>1. {"observed", "sampled"} \in SUBSET Fates
    BY DEF Fates
  <2>2. /\ metrics' \in [Fates -> Nat]
        /\ \A f \in {"observed", "sampled"} : metrics'[f] = metrics[f] + 1
        /\ \A f \in Fates \ {"observed", "sampled"} : metrics'[f] = metrics[f]
    BY <1>6, <2>1, RecordedAre DEF ObserverShape
  <2>3. EveryFateCounted'
    BY <1>1, <1>6, <2>2, WorkersCount DEF EveryFateCounted, ObserverShape, Fates
  <2> QED BY <1>1, <1>2, <1>3, <1>6, <2>2, <2>3 DEF ObserverShape, StoppedIsEmpty, NothingStranded
<1> QED BY <1>4, <1>5, <1>6 DEF observe

\* The workers that start take as many jobs as they are.
LEMMA StartIsCounted ==
  ASSUME ObserverInv, schedule
  PROVE  ObserverInv'
<1> USE DEF ObserverInv, ObserverSound
<1> DEFINE idle == Cardinality(ObserverWorkers \ Working)
           n == IF phase = "stopped" THEN 0 ELSE IF queue < idle THEN queue ELSE idle
<1>1. PICK ws \in Takers(n) :
        worker' = [w \in ObserverWorkers |-> IF w \in ws THEN Took(w, worker)[w] ELSE worker[w]]
  BY DEF schedule
<1>2. queue' = queue - n /\ UNCHANGED <<circuit, metrics, phase, dead>>
  BY DEF schedule
<1>3. ws \subseteq ObserverWorkers \ Working /\ Cardinality(ws) = n
  BY DEF Takers, Working
<1>4. n \in Nat /\ n <= queue /\ (n = queue \/ n = idle \/ phase = "stopped") /\ idle \in Nat
  BY WorkersCount DEF ObserverShape
<1> HIDE DEF n
<1>5. queue' \in Nat /\ (queue' > 0 => n = idle /\ phase # "stopped")
  BY <1>2, <1>4 DEF ObserverShape, StoppedIsEmpty
<1>6. \A w \in ws : Took(w, worker)[w] \in {"connecting", "reading"}
  BY <1>3 DEF Took, ObserverShape
<1>7. worker' \in [ObserverWorkers -> {"idle", "connecting", "reading"}] /\ Working' = Working \cup ws
  BY <1>1, <1>3, <1>6 DEF ObserverShape, Working
<1>8. Cardinality(Working') = Cardinality(Working) + n
  <2>1. IsFiniteSet(ws) /\ Working \cap ws = {}
    BY <1>3, WorkersCount, FS_Subset
  <2>2. Cardinality(Working \cup ws) = Cardinality(Working) + Cardinality(ws) - Cardinality(Working \cap ws)
    BY <2>1, WorkersCount, FS_Union
  <2>3. Cardinality(Working \cap ws) = 0
    BY <2>1, FS_EmptySet
  <2> QED BY <1>3, <1>4, <1>7, <2>2, <2>3, WorkersCount
<1>9. EveryFateCounted'
  BY <1>2, <1>4, <1>8, WorkersCount DEF EveryFateCounted, ObserverShape, Fates
<1>10. NothingStranded'
  <2>1. CASE n = idle
    <3>1. ws = ObserverWorkers \ Working
      BY <1>3, <2>1, WorkersCount, FS_Subset
    <3>2. Working' = ObserverWorkers
      BY <1>7, <3>1 DEF Working
    <3> QED BY <3>2, ObserverAssumption DEF NothingStranded
  <2> QED BY <1>5, <2>1 DEF NothingStranded
<1>11. ObserverShape' /\ StoppedIsEmpty' /\ OpenForAReason'
  BY <1>2, <1>4, <1>5, <1>7 DEF ObserverShape, StoppedIsEmpty, OpenForAReason
<1> QED BY <1>9, <1>10, <1>11

\* After a job the worker has taken the next one, or rests because none waits.
LEMMA NextJobIs ==
  ASSUME ObserverShape, StoppedIsEmpty, NEW w \in Working, NEW connected \in BOOLEAN, NextJob(w, connected)
  PROVE  /\ worker' \in [ObserverWorkers -> {"idle", "connecting", "reading"}] /\ queue' \in Nat
         /\ Cardinality(Working') \in Nat
         /\ Cardinality(Working') + queue' = Cardinality(Working) + queue - 1
         /\ queue' = 0 \/ w \in Working'
         /\ phase = "stopped" => queue' = 0
<1>1. w \in ObserverWorkers
  BY DEF Working
<1>2. CASE queue > 0 /\ phase # "stopped"
  <2>1. queue' = queue - 1 /\ \E to \in {"connecting", "reading"} : worker' = [worker EXCEPT ![w] = to]
    BY <1>2 DEF NextJob
  <2>2. Working' = Working /\ worker' \in [ObserverWorkers -> {"idle", "connecting", "reading"}]
    BY <2>1 DEF Working, ObserverShape
  <2> QED BY <1>2, <2>1, <2>2, WorkersCount DEF ObserverShape
<1>3. CASE ~(queue > 0 /\ phase # "stopped")
  <2>1. queue = 0 /\ queue' = 0 /\ worker' = [worker EXCEPT ![w] = "idle"]
    BY <1>3 DEF NextJob, StoppedIsEmpty, ObserverShape
  <2>2. Working' = Working \ {w} /\ worker' \in [ObserverWorkers -> {"idle", "connecting", "reading"}]
    BY <1>1, <2>1 DEF Working, ObserverShape
  <2>3. IsFiniteSet(Working') /\ Cardinality(Working') = Cardinality(Working) - 1
    BY <2>2, WorkersCount, FS_RemoveElement
  <2>4. Cardinality(Working') \in Nat
    BY <2>3, FS_CardinalityType
  <2> QED BY <2>1, <2>2, <2>3, <2>4, WorkersCount
<1> QED BY <1>2, <1>3

\* A job ends compared or as an error, and its worker goes on.
LEMMA JobIsCounted ==
  ASSUME ObserverInv, NEW w \in ObserverWorkers, ensureAdapter(w) \/ Compared(w) \/ Errors(w)
  PROVE  ObserverInv'
<1> USE DEF ObserverInv, ObserverSound
<1>1. CASE ensureAdapter(w)
  <2>1. worker[w] = "connecting" /\ worker' = [worker EXCEPT ![w] = "reading"]
        /\ UNCHANGED <<queue, scheduled, circuit, metrics, phase, dead>>
    BY <1>1 DEF ensureAdapter
  <2>2. Working' = Working
    BY <2>1 DEF Working, ObserverShape
  <2>3. ObserverShape' /\ StoppedIsEmpty' /\ NothingStranded' /\ OpenForAReason'
    BY <2>1, <2>2 DEF ObserverShape, StoppedIsEmpty, NothingStranded, OpenForAReason
  <2>4. EveryFateCounted'
    BY <2>1, <2>2 DEF EveryFateCounted
  <2> QED BY <2>3, <2>4
<1>2. CASE Compared(w) \/ Errors(w)
  <2>1. PICK fate \in {"compared", "errors"}, connected \in BOOLEAN :
          /\ worker[w] # "idle" /\ metrics' = Recorded(metrics, {fate}) /\ NextJob(w, connected)
          /\ UNCHANGED phase
    BY <1>2 DEF Compared, Errors
  <2>2. w \in Working
    BY <2>1 DEF Working
  <2>3. /\ worker' \in [ObserverWorkers -> {"idle", "connecting", "reading"}] /\ queue' \in Nat
        /\ Cardinality(Working') \in Nat
        /\ Cardinality(Working') + queue' = Cardinality(Working) + queue - 1
        /\ queue' = 0 \/ w \in Working'
        /\ phase = "stopped" => queue' = 0
    BY <2>1, <2>2, NextJobIs
  <2>4. /\ metrics' \in [Fates -> Nat] /\ metrics'[fate] = metrics[fate] + 1
        /\ \A f \in Fates \ {fate} : metrics'[f] = metrics[f]
    <3>1. {fate} \in SUBSET Fates
      BY DEF Fates
    <3> QED BY <2>1, <3>1, RecordedAre DEF ObserverShape
  <2>5. /\ circuit' \in [state : {"closed", "open", "half_open"}, errors : Nat]
        /\ circuit'.state = "open" => circuit'.errors >= CircuitErrors
    <3>1. CASE Compared(w)
      BY <3>1 DEF Compared
    <3>2. CASE Errors(w)
      <4>1. circuit.errors + 1 \in Nat
        BY DEF ObserverShape
      <4>2. circuit' = [state |-> IF circuit.errors + 1 >= CircuitErrors THEN "open" ELSE "closed",
                        errors |-> circuit.errors + 1]
        BY <3>2 DEF Errors
      <4> QED BY <4>1, <4>2
    <3> QED BY <1>2, <3>1, <3>2
  <2>6. EveryFateCounted'
    BY <2>3, <2>4, WorkersCount DEF EveryFateCounted, ObserverShape, Fates
  <2>7. ObserverShape' /\ StoppedIsEmpty' /\ NothingStranded' /\ OpenForAReason'
    <3>1. ObserverShape' /\ OpenForAReason'
      BY <2>1, <2>3, <2>4, <2>5 DEF ObserverShape, OpenForAReason
    <3>2. StoppedIsEmpty' /\ NothingStranded'
      BY <2>1, <2>3 DEF StoppedIsEmpty, NothingStranded
    <3> QED BY <3>1, <3>2
  <2> QED BY <2>6, <2>7
<1> QED BY <1>1, <1>2

\* Every observation taken has one fate, none is left in the queue with nobody to take it, and the
\* circuit opens for that many errors, for any number of workers and observations.
THEOREM ObserverIsSound == ObserverSpec => []ObserverSound
<1>1. ObserverInv /\ [ObserverNext]_observerVars => ObserverInv'
  <2>1. CASE UNCHANGED observerVars
    <3>1. ObserverInv /\ UNCHANGED observerVars => ObserverShape' /\ StoppedIsEmpty' /\ NothingStranded'
                                                   /\ OpenForAReason'
      BY DEF observerVars, ObserverInv, ObserverSound, ObserverShape, StoppedIsEmpty, NothingStranded, Working,
             OpenForAReason
    <3>2. ObserverInv /\ UNCHANGED observerVars => EveryFateCounted'
      BY DEF observerVars, ObserverInv, ObserverSound, EveryFateCounted, Working
    <3> QED BY <2>1, <3>1, <3>2 DEF ObserverInv, ObserverSound
  <2> QED BY <2>1, StopsAreCounted, ObservationIsCounted, StartIsCounted, JobIsCounted DEF ObserverNext
<1>2. ObserverInv => ObserverSound
  BY DEF ObserverInv
<1> QED BY <1>1, <1>2, ObserverStarts, PTL DEF ObserverSpec

(***************************************************************************)
(* TenantMove: rows come with their organization, one import at a time is  *)
(* the tenant's, and touches no directory it did not make.                 *)
(***************************************************************************)
Bundles == UNION {[D -> {"missing", "empty", "bundled"}] : D \in SUBSET Repos}
ArchiveAt == [rows : SUBSET Rows, members : SUBSET People, bundles : Bundles, object : BOOLEAN,
              complete : BOOLEAN]
ImportStages == {"idle", "storing", "loading", "cloning", "settling", "failed", "cleaned", "dead", "ended"}
ImportAt == [pc : ImportStages, map : SUBSET People, stored : BOOLEAN, created : SUBSET Repos,
             left : SUBSET Repos, from : ArchiveAt]

TenantShape ==
  /\ src \subseteq Rows /\ srcObject \in BOOLEAN /\ archives \in Nat
  /\ export \in [at : Nat, rows : SUBSET Rows, members : SUBSET People, bundles : Bundles]
  /\ archive \in ArchiveAt /\ intake \in [Imports -> ImportAt]
  /\ dirs \in [Repos -> {"none", "stray", "cloned", "restored"}]
  /\ DOMAIN reports \subseteq Imports /\ strays \subseteq Repos

\* The organization is never dropped, and is read last: what has been read has it.
OrganizationComes ==
  /\ "organization" \in src
  /\ export.at >= Len(TableOrder) => "organization" \in export.rows
  /\ archives > 0 => "organization" \in archive.rows
  /\ \A i \in Imports : intake[i].pc \in {"storing", "loading"} => "organization" \in intake[i].from.rows

\* Only the repository beside the main one may be without a commit.
EmptyAreSide(b) == \A r \in DOMAIN b : b[r] = "empty" => r = Side
Fits(at) == EmptyAreSide(at.from.bundles) /\ at.left \subseteq DOMAIN at.from.bundles
BundlesStand ==
  /\ EmptyAreSide(export.bundles) /\ EmptyAreSide(archive.bundles)
  /\ \A i \in Imports : Fits(intake[i])

\* An import is the tenant's from its transaction on; there is one, with the rows of the tenant.
Loaded(i) == intake[i].pc \in {"cloning", "settling", "ended"} \/ intake[i].created # {}
OneLoaded ==
  /\ \A i, j \in Imports : Loaded(i) /\ Loaded(j) => i = j
  /\ \A i \in Imports : Loaded(i) => "organization" \in tgt
  /\ \A i \in DOMAIN reports : intake[i].pc = "ended"
  /\ "organization" \in tgt => ~slugTaken
  /\ tgt # {} => "organization" \in tgt

\* What an import made is no stray's, and restored when the next is begun.
CreatedStand ==
  /\ \A i \in Imports : /\ intake[i].map \subseteq accounts
                        /\ intake[i].created \cap (strays \ {Side}) = {}
                        /\ intake[i].pc = "cloning" => \A r \in intake[i].created : dirs[r] = "restored"

TenantInv ==
  /\ TenantShape /\ OrganizationComes /\ BundlesStand /\ OneLoaded /\ CreatedStand
  /\ LoadedIsWhole /\ StraysAreLeft /\ CompleteIsComplete

LEMMA NothingYet == NoArchive \in ArchiveAt /\ NoImport \in ImportAt /\ EmptyAreSide(NoArchive.bundles)
<1>1. [r \in {} |-> "empty"] \in [{} -> {"missing", "empty", "bundled"}] /\ {} \in SUBSET Repos
  OBVIOUS
<1>2. [r \in {} |-> "empty"] \in Bundles
  BY <1>1 DEF Bundles
<1>3. NoArchive \in ArchiveAt
  BY <1>2 DEF NoArchive, ArchiveAt
<1>4. NoImport \in ImportAt
  BY <1>3 DEF NoImport, ImportAt, ImportStages
<1>5. EmptyAreSide(NoArchive.bundles)
  BY DEF EmptyAreSide, NoArchive
<1> QED BY <1>3, <1>4, <1>5

LEMMA TenantStarts == TenantInit => TenantInv
<1> SUFFICES ASSUME TenantInit PROVE TenantInv
  OBVIOUS
<1>1. /\ intake = [i \in Imports |-> NoImport] /\ archive = NoArchive /\ export = NotExporting /\ tgt = {}
      /\ NoImport.pc = "idle" /\ NoImport.created = {} /\ NoImport.map = {} /\ NoImport.from = NoArchive
  BY DEF TenantInit, NoImport
<1>2. [r \in {} |-> "empty"] \in Bundles
  <2>1. [r \in {} |-> "empty"] \in [{} -> {"missing", "empty", "bundled"}] /\ {} \in SUBSET Repos
    OBVIOUS
  <2> QED BY <2>1 DEF Bundles
<1>3. TenantShape
  <2>1. NotExporting \in [at : Nat, rows : SUBSET Rows, members : SUBSET People, bundles : Bundles]
    BY <1>2 DEF NotExporting
  <2>2. src \subseteq Rows /\ srcObject \in BOOLEAN /\ archives \in Nat /\ DOMAIN reports \subseteq Imports
    BY DEF TenantInit
  <2>4. strays \subseteq Repos
    BY DEF TenantInit, Repos
  <2>3. dirs \in [Repos -> {"none", "stray", "cloned", "restored"}]
    BY DEF TenantInit
  <2> QED BY <1>1, <2>1, <2>2, <2>3, <2>4, NothingYet DEF TenantShape
<1>4. OrganizationComes
  <2>1. "organization" \in src
    BY DEF TenantInit, Rows
  <2>2. export.at = 0 /\ Len(TableOrder) = 8 /\ archives = 0
    BY <1>1 DEF NotExporting, TenantInit, TableOrder
  <2> QED BY <1>1, <2>1, <2>2 DEF OrganizationComes
<1>5. BundlesStand
  BY <1>1, NothingYet DEF BundlesStand, NotExporting, EmptyAreSide, Fits, NoImport
<1>6. OneLoaded /\ CreatedStand /\ LoadedIsWhole /\ CompleteIsComplete
  <2>1. DOMAIN reports = {}
    BY DEF TenantInit
  <2> QED BY <1>1, <2>1 DEF OneLoaded, Loaded, CreatedStand, LoadedIsWhole, Rooted, CompleteIsComplete
<1>7. StraysAreLeft
  BY DEF TenantInit, StraysAreLeft, Repos
<1> QED BY <1>3, <1>4, <1>5, <1>6, <1>7 DEF TenantInv

\* A change of the source keeps its organization.
LEMMA SourceKeeps ==
  ASSUME TenantInv, SourceChanges
  PROVE  src' \subseteq Rows /\ "organization" \in src'
<1>1. CASE \E r \in Rows \ src : src' = src \cup {r}
  BY <1>1 DEF TenantInv, TenantShape, OrganizationComes
<1>2. ASSUME NEW r \in src \ {"organization", "member"}, src' = src \ Dependents(src, r)
      PROVE  src' \subseteq Rows /\ "organization" \in src'
  <2>1. Parents["organization"] = {}
    BY RepositoriesAssumption DEF Parents, Rows
  <2>2. "organization" \notin Dependents(src, r)
    BY <1>2, <2>1 DEF Dependents
  <2> QED BY <1>2, <2>2 DEF TenantInv, TenantShape, OrganizationComes
<1> QED BY <1>1, <1>2 DEF SourceChanges

\* The source and the export go on: the target does not notice.
LEMMA OriginIsSound ==
  ASSUME TenantInv, SourceChanges \/ ExportNext
  PROVE  TenantInv'
<1> USE DEF TenantInv
<1>1. UNCHANGED <<srcObject, accounts, intake, strays, tgt, slugTaken, dirs, object, reports>>
  BY DEF SourceChanges, ExportNext, ReadTable, ReadMembers, bundleRepositories, RecordExport, originVars,
     targetVars
<1>2. OneLoaded' /\ CreatedStand' /\ LoadedIsWhole' /\ StraysAreLeft' /\ CompleteIsComplete'
  BY <1>1 DEF OneLoaded, Loaded, CreatedStand, LoadedIsWhole, StraysAreLeft, CompleteIsComplete
<1>3. Len(TableOrder) = 8 /\ ToBundles = 9 /\ TableOrder[8] = {"organization"} /\ "organization" \in Rows
  BY DEF TableOrder, ToBundles, Rows
<1>4. ASSUME src' \subseteq Rows, "organization" \in src',
             export' \in [at : Nat, rows : SUBSET Rows, members : SUBSET People, bundles : Bundles],
             export'.at >= 8 => "organization" \in export'.rows, EmptyAreSide(export'.bundles),
             UNCHANGED <<archive, archives>>
      PROVE  TenantShape' /\ OrganizationComes' /\ BundlesStand'
  BY <1>1, <1>3, <1>4 DEF TenantShape, OrganizationComes, BundlesStand
<1>5. CASE SourceChanges
  <2>1. UNCHANGED <<export, archive, archives>>
    BY <1>5 DEF SourceChanges, exportVars
  <2> QED BY <1>2, <1>3, <1>4, <1>5, <2>1, SourceKeeps DEF TenantShape, OrganizationComes, BundlesStand
<1>6. CASE ReadTable
  <2> DEFINE rows == export.rows \cup (src \cap TableOrder[export.at + 1])
  <2>1. /\ export.at < 8 /\ export' = [export EXCEPT !.at = export.at + 1, !.rows = rows]
        /\ UNCHANGED <<src, archive, archives>>
    BY <1>3, <1>6 DEF ReadTable, originVars
  <2>2. rows \subseteq Rows /\ (export.at = 7 => "organization" \in rows)
    BY <1>3 DEF TenantShape, OrganizationComes
  <2> HIDE DEF rows
  <2>3. /\ export'.at = export.at + 1 /\ export'.rows = rows /\ export'.bundles = export.bundles
        /\ export' \in [at : Nat, rows : SUBSET Rows, members : SUBSET People, bundles : Bundles]
    <3>1. export \in [at : Nat, rows : SUBSET Rows, members : SUBSET People, bundles : Bundles]
      BY DEF TenantShape
    <3>2. export.at + 1 \in Nat
      BY <3>1
    <3> QED BY <2>1, <2>2, <3>1, <3>2
  <2>4. export.at \in Nat
    BY DEF TenantShape
  <2>5. export'.at >= 8 => "organization" \in export'.rows
    BY <2>1, <2>2, <2>3, <2>4
  <2>6. src' \subseteq Rows /\ "organization" \in src' /\ EmptyAreSide(export'.bundles)
    BY <2>1, <2>3 DEF TenantShape, OrganizationComes, BundlesStand, EmptyAreSide, Fits
  <2> QED BY <1>2, <1>4, <2>1, <2>3, <2>5, <2>6
<1>7. CASE ReadMembers
  <2> DEFINE members == {p \in People : \E r \in {"member", "colleague"} \cap src : p \in Requires(r)}
  <2>1. /\ export.at = 8 /\ export' = [export EXCEPT !.at = 9, !.members = members]
        /\ UNCHANGED <<src, archive, archives>>
    BY <1>3, <1>7 DEF ReadMembers, originVars
  <2>2. members \subseteq People
    OBVIOUS
  <2> HIDE DEF members
  <2>3. /\ export'.rows = export.rows /\ export'.bundles = export.bundles
        /\ export' \in [at : Nat, rows : SUBSET Rows, members : SUBSET People, bundles : Bundles]
    BY <2>1, <2>2 DEF TenantShape
  <2>4. src' \subseteq Rows /\ "organization" \in src' /\ EmptyAreSide(export'.bundles)
        /\ "organization" \in export'.rows
    BY <1>3, <2>1, <2>3 DEF TenantShape, OrganizationComes, BundlesStand, EmptyAreSide, Fits
  <2> QED BY <1>2, <1>4, <2>1, <2>3, <2>4
<1>8. CASE bundleRepositories
  <2>1. PICK empty \in {{}, {Side}} :
          export' = [export EXCEPT !.at = @ + 1,
                       !.bundles = [r \in Repos \cap src |-> CASE r \notin srcDirs -> "missing"
                                                             [] r \in srcDirs \cap empty -> "empty"
                                                             [] OTHER -> "bundled"]]
    BY <1>8 DEF bundleRepositories
  <2> DEFINE bundles == [r \in Repos \cap src |-> CASE r \notin srcDirs -> "missing"
                                                    [] r \in srcDirs \cap empty -> "empty"
                                                    [] OTHER -> "bundled"]
  <2>2. export.at = 9 /\ UNCHANGED <<src, archive, archives>>
    BY <1>3, <1>8 DEF bundleRepositories, originVars
  <2>3. /\ bundles \in [Repos \cap src -> {"missing", "empty", "bundled"}]
        /\ \A r \in Repos \cap src : bundles[r] = "empty" => r = Side
    OBVIOUS
  <2> HIDE DEF bundles
  <2>4. bundles \in Bundles /\ EmptyAreSide(bundles)
    <3>1. Repos \cap src \in SUBSET Repos
      OBVIOUS
    <3> QED BY <2>3, <3>1 DEF Bundles, EmptyAreSide
  <2>5. export' = [export EXCEPT !.at = export.at + 1, !.bundles = bundles]
    BY <2>1 DEF bundles
  <2>6. /\ export'.rows = export.rows /\ export'.bundles = bundles
        /\ export' \in [at : Nat, rows : SUBSET Rows, members : SUBSET People, bundles : Bundles]
    <3>1. export \in [at : Nat, rows : SUBSET Rows, members : SUBSET People, bundles : Bundles]
      BY DEF TenantShape
    <3>2. export.at + 1 \in Nat
      BY <3>1
    <3> QED BY <2>4, <2>5, <3>1, <3>2
  <2>7. src' \subseteq Rows /\ "organization" \in src' /\ "organization" \in export'.rows
    BY <1>3, <2>2, <2>6 DEF TenantShape, OrganizationComes
  <2> QED BY <1>2, <1>4, <2>2, <2>4, <2>6, <2>7
<1>9. CASE RecordExport
  <2>1. /\ export.at = 10 /\ export' = NotExporting /\ archives' = archives + 1 /\ UNCHANGED src
        /\ archive'.rows = export.rows /\ archive'.bundles = export.bundles
    BY <1>3, <1>9 DEF RecordExport, originVars
  <2>2. archive' \in ArchiveAt
    <3> DEFINE object1 == "pointer" \in src /\ srcObject
               complete1 == /\ "missing" \notin {export.bundles[r] : r \in DOMAIN export.bundles}
                            /\ "pointer" \in src => srcObject
    <3>1. archive' = [rows |-> export.rows, members |-> export.members, bundles |-> export.bundles,
                      object |-> object1, complete |-> complete1]
      BY <1>9 DEF RecordExport
    <3>2. object1 \in BOOLEAN /\ complete1 \in BOOLEAN
      BY DEF TenantShape
    <3> HIDE DEF object1, complete1
    <3> QED BY <3>1, <3>2 DEF ArchiveAt, TenantShape
  <2>3. NotExporting \in [at : Nat, rows : SUBSET Rows, members : SUBSET People, bundles : Bundles]
        /\ NotExporting.at = 0 /\ EmptyAreSide(NotExporting.bundles)
    BY NothingYet DEF NotExporting, NoArchive, ArchiveAt, EmptyAreSide
  <2>4. TenantShape'
    BY <1>1, <2>1, <2>2, <2>3 DEF TenantShape
  <2>5. OrganizationComes' /\ BundlesStand'
    <3>1. "organization" \in export.rows
      BY <1>3, <2>1 DEF OrganizationComes
    <3>2. OrganizationComes'
      BY <1>1, <1>3, <2>1, <2>3, <3>1 DEF OrganizationComes
    <3>3. BundlesStand'
      BY <1>1, <2>1, <2>3 DEF BundlesStand, EmptyAreSide, Fits
    <3> QED BY <3>2, <3>3
  <2> QED BY <1>2, <2>4, <2>5
<1> QED BY <1>5, <1>6, <1>7, <1>8, <1>9 DEF ExportNext

\* A step of one import, as far as the shapes, the archives and the other imports go.
LEMMA ImportSteps ==
  ASSUME TenantInv, NEW i \in Imports, NEW at \in ImportAt, intake' = [intake EXCEPT ![i] = at],
         UNCHANGED <<src, srcObject, accounts, strays, export, archive, archives>>,
         dirs' \in [Repos -> {"none", "stray", "cloned", "restored"}], DOMAIN reports' \subseteq Imports,
         at.pc \in {"storing", "loading"} => "organization" \in at.from.rows,
         Fits(at)
  PROVE  /\ TenantShape' /\ OrganizationComes' /\ BundlesStand'
         /\ intake'[i] = at /\ \A j \in Imports \ {i} : intake'[j] = intake[j]
<1> USE DEF TenantInv
<1>1. intake' \in [Imports -> ImportAt] /\ intake'[i] = at /\ \A j \in Imports \ {i} : intake'[j] = intake[j]
  BY DEF TenantShape
<1>2. TenantShape'
  BY <1>1 DEF TenantShape
<1>3. OrganizationComes'
  BY <1>1 DEF OrganizationComes
<1>4. BundlesStand'
  BY <1>1 DEF BundlesStand, EmptyAreSide, Fits
<1> QED BY <1>1, <1>2, <1>3, <1>4

\* An import that has not loaded its rows, or gives up.
LEMMA QuietIsSound ==
  ASSUME TenantInv, NEW i \in Imports, NEW at \in ImportAt, intake' = [intake EXCEPT ![i] = at],
         UNCHANGED <<src, srcObject, accounts, strays, export, archive, archives>>,
         UNCHANGED <<tgt, slugTaken, dirs, reports>>,
         at.pc \in {"storing", "loading"} => "organization" \in at.from.rows,
         Fits(at),
         intake[i].pc # "ended", at.pc \notin {"cloning", "settling", "ended"},
         at.created \subseteq intake[i].created, at.map \subseteq accounts
  PROVE  TenantInv'
<1> USE DEF TenantInv
<1>1. /\ TenantShape' /\ OrganizationComes' /\ BundlesStand'
      /\ intake'[i] = at /\ \A j \in Imports \ {i} : intake'[j] = intake[j]
  BY ImportSteps DEF TenantShape
<1>2. OneLoaded'
  <2>1. \A j \in Imports : Loaded(j)' => Loaded(j)
    BY <1>1 DEF Loaded
  <2>2. \A j \in DOMAIN reports : j # i
    BY DEF OneLoaded
  <2> QED BY <1>1, <2>1, <2>2 DEF OneLoaded, TenantShape
<1>3. CreatedStand'
  BY <1>1 DEF CreatedStand
<1>4. LoadedIsWhole' /\ StraysAreLeft'
  BY DEF LoadedIsWhole, StraysAreLeft
<1>5. CompleteIsComplete'
  <2>1. \A j \in DOMAIN reports : j # i /\ j \in Imports
    BY DEF OneLoaded, TenantShape
  <2> QED BY <1>1, <2>1 DEF CompleteIsComplete
<1> QED BY <1>1, <1>2, <1>3, <1>4, <1>5

\* Only another stage, and none that loads or ends the import.
LEMMA ProceedsQuietly ==
  ASSUME TenantInv, NEW i \in Imports, NEW pc \in {"failed", "dead"}, Proceed(i, pc),
         UNCHANGED <<src, srcObject, accounts, strays, export, archive, archives>>,
         UNCHANGED <<tgt, slugTaken, dirs, reports>>, intake[i].pc # "ended"
  PROVE  TenantInv'
<1> DEFINE at == [intake[i] EXCEPT !.pc = pc]
<1>1. intake[i] \in ImportAt
  BY DEF TenantInv, TenantShape
<1>2. at \in ImportAt /\ at.pc = pc /\ at.created = intake[i].created /\ at.map = intake[i].map
      /\ at.from = intake[i].from /\ at.left = intake[i].left
  BY <1>1 DEF ImportAt, ImportStages
<1>3. intake' = [intake EXCEPT ![i] = at]
  BY DEF Proceed
<1> HIDE DEF at
<1>4. Fits(at) /\ at.map \subseteq accounts
  BY <1>2 DEF TenantInv, BundlesStand, Fits, CreatedStand
<1> QED BY <1>2, <1>3, <1>4, QuietIsSound

LEMMA IntakeIsSound ==
  ASSUME TenantInv, NEW i \in Imports, importTenantArchive(i) \/ putFile(i) \/ ImportKilled(i)
  PROVE  TenantInv'
<1> USE DEF TenantInv
<1>0. intake[i] \in ImportAt /\ archive \in ArchiveAt
  BY DEF TenantShape
<1>1. CASE importTenantArchive(i)
  <2> DEFINE at == [NoImport EXCEPT !.pc = "storing", !.from = archive, !.map = archive.members \cap accounts]
  <2>1. /\ intake' = [intake EXCEPT ![i] = at] /\ intake[i].pc = "idle" /\ archives > 0
        /\ UNCHANGED <<src, srcObject, accounts, strays, export, archive, archives>>
        /\ UNCHANGED <<tgt, slugTaken, dirs, reports>>
    BY <1>1 DEF importTenantArchive, originVars, exportVars, targetVars
  <2>2. /\ at.pc = "storing" /\ at.from = archive /\ at.map = archive.members \cap accounts /\ at.created = {}
        /\ at.left = {} /\ at \in ImportAt
    <3>1. archive.members \cap accounts \subseteq People
      BY <1>0 DEF ArchiveAt
    <3> QED BY <1>0, <3>1, NothingYet DEF ImportAt, NoImport, ImportStages
  <2>3. "organization" \in archive.rows /\ Fits(at)
    BY <2>1, <2>2 DEF OrganizationComes, BundlesStand, Fits
  <2> HIDE DEF at
  <2> QED BY <2>1, <2>2, <2>3, QuietIsSound
<1>2. CASE putFile(i)
  <2>1. PICK stored \in BOOLEAN : intake' = [intake EXCEPT ![i].pc = "loading", ![i].stored = stored]
    <3>1. \A ok \in BOOLEAN : (intake[i].from.object /\ ok) \in BOOLEAN
      BY <1>0 DEF ImportAt, ArchiveAt
    <3> QED BY <1>2, <3>1 DEF putFile
  <2> DEFINE at == [intake[i] EXCEPT !.pc = "loading", !.stored = stored]
  <2>2. /\ intake[i].pc = "storing"
        /\ UNCHANGED <<src, srcObject, accounts, strays, export, archive, archives>>
        /\ UNCHANGED <<tgt, slugTaken, dirs, reports>>
    BY <1>2 DEF putFile, originVars, exportVars
  <2>3. /\ at.pc = "loading" /\ at.from = intake[i].from /\ at.map = intake[i].map
        /\ at.created = intake[i].created /\ at.left = intake[i].left /\ at \in ImportAt
    BY <1>0 DEF ImportAt, ImportStages
  <2>4. intake' = [intake EXCEPT ![i] = at]
    BY <1>0, <2>1 DEF TenantShape, ImportAt
  <2> HIDE DEF at
  <2>5. "organization" \in at.from.rows /\ Fits(at) /\ at.map \subseteq accounts
    BY <2>2, <2>3 DEF OrganizationComes, BundlesStand, Fits, CreatedStand
  <2> QED BY <2>2, <2>3, <2>4, <2>5, QuietIsSound
<1>3. CASE ImportKilled(i)
  BY <1>3, ProceedsQuietly DEF ImportKilled, originVars, exportVars, targetVars
<1> QED BY <1>1, <1>2, <1>3

\* The rows come with their organization, which only one import brings.
LEMMA LoadIsSound ==
  ASSUME TenantInv, NEW i \in Imports, Load(i)
  PROVE  TenantInv'
<1> USE DEF TenantInv
<1> DEFINE kept == Kept(intake[i].from, intake[i].map)
           left == {r \in DOMAIN intake[i].from.bundles : intake[i].from.bundles[r] # "missing"}
<1>1. /\ intake[i].pc = "loading" /\ intake[i] \in ImportAt
      /\ UNCHANGED <<src, srcObject, accounts, strays, export, archive, archives>>
      /\ UNCHANGED <<slugTaken, dirs, reports>>
  BY DEF Load, originVars, exportVars, TenantShape
<1>2. CASE Proceed(i, "failed") /\ UNCHANGED tgt
  BY <1>1, <1>2, ProceedsQuietly
<1>3. CASE /\ Rooted(kept) /\ "organization" \notin tgt /\ ~slugTaken /\ tgt' = kept
           /\ intake' = [intake EXCEPT ![i].pc = "cloning", ![i].left = left]
  <2> DEFINE at == [intake[i] EXCEPT !.pc = "cloning", !.left = left]
  <2>1. left \subseteq Repos
    BY <1>1 DEF ImportAt, ArchiveAt, Bundles
  <2>2. /\ at \in ImportAt /\ at.pc = "cloning" /\ at.created = intake[i].created /\ at.map = intake[i].map
        /\ at.from = intake[i].from /\ at.left \subseteq DOMAIN at.from.bundles
    BY <1>1, <2>1 DEF ImportAt, ImportStages
  <2>3. intake' = [intake EXCEPT ![i] = at]
    BY <1>1, <1>3 DEF TenantShape, ImportAt
  <2> HIDE DEF at, left
  <2>4. \A j \in Imports : ~Loaded(j)
    BY <1>3 DEF OneLoaded
  <2>5. Fits(at) /\ intake[i].created = {} /\ intake[i].map \subseteq accounts
    BY <2>2, <2>4 DEF BundlesStand, Fits, Loaded, CreatedStand
  <2>6. /\ TenantShape' /\ OrganizationComes' /\ BundlesStand'
        /\ intake'[i] = at /\ \A j \in Imports \ {i} : intake'[j] = intake[j]
    BY <1>1, <2>2, <2>3, <2>5, ImportSteps DEF TenantShape
  <2>7. "organization" \in kept
    <3>1. "organization" \in intake[i].from.rows /\ "organization" \notin Withheld
      BY <1>1 DEF OrganizationComes, Withheld
    <3>2. Requires("organization") = {}
      BY RepositoriesAssumption DEF Requires, Repos
    <3> QED BY <3>1, <3>2 DEF Kept
  <2>8. OneLoaded'
    <3>1. \A j \in Imports : Loaded(j)' => j = i
      BY <2>4, <2>6 DEF Loaded
    <3>2. \A j \in DOMAIN reports : j \in Imports /\ intake[j].pc = "ended" /\ j # i
      BY <1>1 DEF OneLoaded, TenantShape
    <3> QED BY <1>1, <1>3, <2>6, <2>7, <3>1, <3>2 DEF OneLoaded
  <2>9. CreatedStand'
    BY <1>1, <2>2, <2>5, <2>6 DEF CreatedStand
  <2>10. LoadedIsWhole' /\ StraysAreLeft'
    <3>1. kept \cap Withheld = {} /\ \A r \in kept : Requires(r) \subseteq accounts
      BY <2>5 DEF Kept
    <3> QED BY <1>1, <1>3, <3>1 DEF LoadedIsWhole, StraysAreLeft
  <2>11. CompleteIsComplete'
    <3>1. \A j \in DOMAIN reports : j \in Imports /\ j # i
      BY <1>1 DEF OneLoaded, TenantShape
    <3> QED BY <1>1, <2>6, <3>1 DEF CompleteIsComplete
  <2> QED BY <2>6, <2>8, <2>9, <2>10, <2>11
<1> QED BY <1>2, <1>3 DEF Load, Accepted

\* A clone makes its directory where there was none, or where an empty repository may be made.
LEMMA CloneIsSound ==
  ASSUME TenantInv, NEW i \in Imports, cloneRepository(i)
  PROVE  TenantInv'
<1> USE DEF TenantInv
<1>1. /\ intake[i].pc = "cloning" /\ intake[i] \in ImportAt
      /\ UNCHANGED <<src, srcObject, accounts, strays, export, archive, archives>>
      /\ UNCHANGED <<tgt, slugTaken, reports>>
  BY DEF cloneRepository, originVars, exportVars, TenantShape
<1>2. CASE Proceed(i, "failed") /\ UNCHANGED dirs
  BY <1>1, <1>2, ProceedsQuietly
<1>3. ASSUME NEW r \in intake[i].left, intake[i].from.bundles[r] = "empty" \/ dirs[r] = "none",
             dirs' = [dirs EXCEPT ![r] = "cloned"],
             intake' = [intake EXCEPT ![i].pc = "settling", ![i].created = @ \cup {r}, ![i].left = @ \ {r}]
      PROVE  TenantInv'
  <2> DEFINE at == [intake[i] EXCEPT !.pc = "settling", !.created = intake[i].created \cup {r},
                                     !.left = intake[i].left \ {r}]
  <2>1. r \in Repos
    BY <1>1 DEF ImportAt
  <2>2. /\ at \in ImportAt /\ at.pc = "settling" /\ at.created = intake[i].created \cup {r}
        /\ at.map = intake[i].map /\ at.from = intake[i].from /\ at.left \subseteq intake[i].left
    BY <1>1, <2>1 DEF ImportAt, ImportStages
  <2>3. intake' = [intake EXCEPT ![i] = at]
    BY <1>1, <1>3 DEF TenantShape, ImportAt
  <2> HIDE DEF at
  <2>4. /\ dirs' \in [Repos -> {"none", "stray", "cloned", "restored"}]
        /\ \A q \in Repos \ {r} : dirs'[q] = dirs[q]
    BY <1>3 DEF TenantShape
  <2>5. Fits(at)
    BY <2>2 DEF BundlesStand, Fits
  <2>6. /\ TenantShape' /\ OrganizationComes' /\ BundlesStand'
        /\ intake'[i] = at /\ \A j \in Imports \ {i} : intake'[j] = intake[j]
    BY <1>1, <2>2, <2>3, <2>4, <2>5, ImportSteps DEF TenantShape
  <2>7. \A j \in Imports : Loaded(j)' => Loaded(j)
    BY <1>1, <2>6 DEF Loaded
  <2>8. \A j \in Imports \ {i} : intake[j].pc # "cloning" /\ j \notin DOMAIN reports
    BY <1>1 DEF Loaded, OneLoaded
  <2>9. i \notin DOMAIN reports
    BY <1>1 DEF OneLoaded
  <2>10. r \notin strays \ {Side}
    <3>1. ASSUME r \in strays \ {Side} PROVE FALSE
      <4>1. dirs[r] = "stray" /\ r # Side
        BY <3>1 DEF StraysAreLeft
      <4>2. r \in DOMAIN intake[i].from.bundles
        BY DEF BundlesStand, Fits
      <4> QED BY <1>3, <4>1, <4>2 DEF BundlesStand, Fits, EmptyAreSide
    <3> QED BY <3>1
  <2>11. OneLoaded'
    BY <1>1, <2>6, <2>7, <2>8, <2>9 DEF OneLoaded, TenantShape
  <2>12. CreatedStand'
    BY <1>1, <2>2, <2>6, <2>8, <2>10 DEF CreatedStand
  <2>13. LoadedIsWhole' /\ StraysAreLeft'
    BY <1>1, <2>4, <2>10 DEF LoadedIsWhole, StraysAreLeft, TenantShape
  <2>14. CompleteIsComplete'
    BY <1>1, <2>8, <2>9 DEF CompleteIsComplete, TenantShape
  <2> QED BY <2>6, <2>11, <2>12, <2>13, <2>14
<1> QED BY <1>2, <1>3 DEF cloneRepository

\* What is settled is what this import created.
LEMMA SettleIsSound ==
  ASSUME TenantInv, NEW i \in Imports, settleRepository(i)
  PROVE  TenantInv'
<1> USE DEF TenantInv
<1>1. /\ intake[i].pc = "settling" /\ intake[i] \in ImportAt
      /\ UNCHANGED <<src, srcObject, accounts, strays, export, archive, archives>>
      /\ UNCHANGED <<tgt, slugTaken, reports>>
  BY DEF settleRepository, originVars, exportVars, TenantShape
<1>2. CASE Proceed(i, "failed") /\ UNCHANGED dirs
  BY <1>1, <1>2, ProceedsQuietly
<1>3. CASE /\ dirs' = [r \in Repos |-> IF r \in intake[i].created THEN "restored" ELSE dirs[r]]
           /\ Proceed(i, "cloning")
  <2> DEFINE at == [intake[i] EXCEPT !.pc = "cloning"]
  <2>2. /\ at \in ImportAt /\ at.pc = "cloning" /\ at.created = intake[i].created
        /\ at.map = intake[i].map /\ at.from = intake[i].from /\ at.left = intake[i].left
    BY <1>1 DEF ImportAt, ImportStages
  <2>3. intake' = [intake EXCEPT ![i] = at]
    BY <1>3 DEF Proceed
  <2> HIDE DEF at
  <2>4. /\ dirs' \in [Repos -> {"none", "stray", "cloned", "restored"}]
        /\ \A q \in Repos \ intake[i].created : dirs'[q] = dirs[q]
        /\ \A q \in intake[i].created : dirs'[q] = "restored"
    BY <1>1, <1>3 DEF TenantShape, ImportAt
  <2>5. Fits(at)
    BY <2>2 DEF BundlesStand, Fits
  <2>6. /\ TenantShape' /\ OrganizationComes' /\ BundlesStand'
        /\ intake'[i] = at /\ \A j \in Imports \ {i} : intake'[j] = intake[j]
    BY <1>1, <2>2, <2>3, <2>4, <2>5, ImportSteps DEF TenantShape
  <2>7. \A j \in Imports : Loaded(j)' => Loaded(j)
    BY <1>1, <2>6 DEF Loaded
  <2>8. \A j \in Imports \ {i} : intake[j].pc # "cloning" /\ j \notin DOMAIN reports
    BY <1>1 DEF Loaded, OneLoaded
  <2>9. i \notin DOMAIN reports
    BY <1>1 DEF OneLoaded
  <2>11. OneLoaded'
    BY <1>1, <2>6, <2>7, <2>8, <2>9 DEF OneLoaded, TenantShape
  <2>12. CreatedStand'
    BY <1>1, <2>2, <2>4, <2>6, <2>8 DEF CreatedStand
  <2>13. LoadedIsWhole' /\ StraysAreLeft'
    BY <1>1, <2>4 DEF LoadedIsWhole, StraysAreLeft, CreatedStand, TenantShape
  <2>14. CompleteIsComplete'
    BY <1>1, <2>8, <2>9 DEF CompleteIsComplete, TenantShape
  <2> QED BY <2>6, <2>11, <2>12, <2>13, <2>14
<1> QED BY <1>2, <1>3 DEF settleRepository

\* An import is reported with the directories it has restored, and touches them no more.
LEMMA ReportIsSound ==
  ASSUME TenantInv, NEW i \in Imports, RecordImport(i)
  PROVE  TenantInv'
<1> USE DEF TenantInv
<1>1. /\ intake[i].pc = "cloning" /\ intake[i] \in ImportAt
      /\ UNCHANGED <<src, srcObject, accounts, strays, export, archive, archives>>
      /\ UNCHANGED <<tgt, slugTaken, dirs>>
      /\ Proceed(i, "ended")
  BY DEF RecordImport, originVars, exportVars, TenantShape
<1> DEFINE at == [intake[i] EXCEPT !.pc = "ended"]
<1>2. /\ at \in ImportAt /\ at.pc = "ended" /\ at.created = intake[i].created
      /\ at.map = intake[i].map /\ at.from = intake[i].from /\ at.left = intake[i].left
  BY <1>1 DEF ImportAt, ImportStages
<1>3. intake' = [intake EXCEPT ![i] = at]
  BY <1>1 DEF Proceed
<1> HIDE DEF at
<1>4. Fits(at)
  BY <1>2 DEF BundlesStand, Fits
<1>5. /\ DOMAIN reports' = DOMAIN reports \cup {i}
      /\ reports'[i] => intake[i].created = DOMAIN intake[i].from.bundles
      /\ \A j \in DOMAIN reports \ {i} : reports'[j] = reports[j]
  BY DEF RecordImport
<1>6. /\ TenantShape' /\ OrganizationComes' /\ BundlesStand'
      /\ intake'[i] = at /\ \A j \in Imports \ {i} : intake'[j] = intake[j]
  BY <1>1, <1>2, <1>3, <1>4, <1>5, ImportSteps DEF TenantShape
<1>7. \A j \in Imports : Loaded(j)' => Loaded(j)
  BY <1>1, <1>6 DEF Loaded
<1>8. \A j \in DOMAIN reports : j = i
  BY <1>1 DEF Loaded, OneLoaded, TenantShape
<1>9. OneLoaded'
  BY <1>1, <1>2, <1>5, <1>6, <1>7, <1>8 DEF OneLoaded
<1>10. CreatedStand'
  BY <1>1, <1>2, <1>6 DEF CreatedStand
<1>11. LoadedIsWhole' /\ StraysAreLeft'
  BY <1>1 DEF LoadedIsWhole, StraysAreLeft
<1>12. CompleteIsComplete'
  BY <1>1, <1>2, <1>5, <1>6, <1>8 DEF CompleteIsComplete, CreatedStand
<1> QED BY <1>6, <1>9, <1>10, <1>11, <1>12

\* A failed import removes the directories it created.
LEMMA CleanUpIsSound ==
  ASSUME TenantInv, NEW i \in Imports, CleanUp(i)
  PROVE  TenantInv'
<1> USE DEF TenantInv
<1> DEFINE at == [NoImport EXCEPT !.pc = "cleaned"]
<1>1. /\ intake[i].pc = "failed" /\ intake[i] \in ImportAt
      /\ UNCHANGED <<src, srcObject, accounts, strays, export, archive, archives>>
      /\ UNCHANGED <<tgt, slugTaken, reports>>
      /\ dirs' = [r \in Repos |-> IF r \in intake[i].created THEN "none" ELSE dirs[r]]
      /\ intake' = [intake EXCEPT ![i] = at]
  BY DEF CleanUp, originVars, exportVars, TenantShape
<1>2. /\ at \in ImportAt /\ at.pc = "cleaned" /\ at.created = {} /\ at.map = {} /\ at.left = {}
      /\ at.from = NoArchive
  BY NothingYet DEF ImportAt, ImportStages, NoImport
<1> HIDE DEF at
<1>3. Fits(at)
  BY <1>2, NothingYet DEF Fits
<1>4. /\ dirs' \in [Repos -> {"none", "stray", "cloned", "restored"}]
      /\ \A q \in Repos \ intake[i].created : dirs'[q] = dirs[q]
  BY <1>1 DEF TenantShape
<1>5. /\ TenantShape' /\ OrganizationComes' /\ BundlesStand'
      /\ intake'[i] = at /\ \A j \in Imports \ {i} : intake'[j] = intake[j]
  BY <1>1, <1>2, <1>3, <1>4, ImportSteps DEF TenantShape
<1>6. \A j \in Imports : Loaded(j)' => Loaded(j) /\ j # i
  BY <1>2, <1>5 DEF Loaded
<1>7. \A j \in DOMAIN reports : j \in Imports /\ j # i /\ Loaded(j)
  BY <1>1 DEF Loaded, OneLoaded, TenantShape
<1>8. intake[i].created = {} \/ \A j \in Imports \ {i} : ~Loaded(j)
  BY DEF Loaded, OneLoaded
<1>9. OneLoaded'
  BY <1>1, <1>5, <1>6, <1>7 DEF OneLoaded
<1>10. CreatedStand'
  <2>1. \A j \in Imports \ {i} : intake[j].pc = "cloning" => intake[i].created = {}
    BY <1>8 DEF Loaded
  <2>2. \A j \in Imports : intake[j].created \subseteq Repos
    BY DEF TenantShape, ImportAt
  <2> QED BY <1>1, <1>2, <1>4, <1>5, <2>1, <2>2 DEF CreatedStand
<1>11. LoadedIsWhole' /\ StraysAreLeft'
  BY <1>1, <1>4 DEF LoadedIsWhole, StraysAreLeft, CreatedStand, TenantShape
<1>12. CompleteIsComplete'
  <2>1. \A j \in DOMAIN reports : intake[i].created = {}
    BY <1>7, <1>8
  <2>2. \A j \in DOMAIN reports : DOMAIN intake[j].from.bundles \subseteq Repos
    BY <1>7 DEF TenantShape, ImportAt, ArchiveAt, Bundles
  <2> QED BY <1>1, <1>4, <1>5, <1>7, <2>1, <2>2 DEF CompleteIsComplete
<1> QED BY <1>5, <1>9, <1>10, <1>11, <1>12

\* The instance goes on beside the imports.
LEMMA TargetIsSound ==
  ASSUME TenantInv, TakeSlug \/ garbageCollectLfs
  PROVE  TenantInv'
<1> USE DEF TenantInv
<1>1. /\ UNCHANGED <<src, srcObject, accounts, intake, strays, export, archive, archives, tgt, dirs, reports>>
      /\ slugTaken' = slugTaken \/ "organization" \notin tgt
  BY DEF TakeSlug, garbageCollectLfs, originVars, exportVars
<1>2. TenantShape' /\ OrganizationComes' /\ BundlesStand' /\ CreatedStand'
  BY <1>1 DEF TenantShape, OrganizationComes, BundlesStand, CreatedStand
<1>3. OneLoaded'
  BY <1>1 DEF OneLoaded, Loaded
<1>4. LoadedIsWhole' /\ StraysAreLeft' /\ CompleteIsComplete'
  BY <1>1 DEF LoadedIsWhole, StraysAreLeft, CompleteIsComplete
<1> QED BY <1>2, <1>3, <1>4

\* The name is one's: at most one import is the tenant's.
LEMMA OneIsLoaded ==
  ASSUME TenantInv
  PROVE  OneOfTheName
<1> USE DEF TenantInv
<1>1. ASSUME NEW S, \A i, j \in S : i = j
      PROVE  Cardinality(S) <= 1
  <2>1. CASE S = {}
    BY <2>1, FS_EmptySet
  <2>2. ASSUME NEW i \in S PROVE Cardinality(S) <= 1
    <3>1. S = {i}
      BY <1>1, <2>2
    <3>2. Cardinality({i}) = 1
      BY FS_Singleton
    <3>3. Cardinality(S) = 1
      BY <3>1, <3>2
    <3> QED BY <3>3
  <2> QED BY <2>1, <2>2
<1>2. \A i, j \in {k \in Imports : intake[k].pc \in {"cloning", "settling"}} : i = j
  BY DEF OneLoaded, Loaded
<1>3. \A i, j \in DOMAIN reports : i = j
  BY DEF OneLoaded, Loaded, TenantShape
<1>4. tgt # {} => ~slugTaken
  BY DEF OneLoaded
<1>5. /\ Cardinality({i \in Imports : intake[i].pc \in {"cloning", "settling"}}) <= 1
      /\ Cardinality(DOMAIN reports) <= 1
  <2> DEFINE S == {i \in Imports : intake[i].pc \in {"cloning", "settling"}}
             T == DOMAIN reports
  <2>1. (\A i, j \in S : i = j) /\ \A i, j \in T : i = j
    BY <1>2, <1>3
  <2> HIDE DEF S, T
  <2>2. Cardinality(S) <= 1 /\ Cardinality(T) <= 1
    BY <1>1, <2>1
  <2> QED BY <2>2 DEF S, T
<1> QED BY <1>4, <1>5 DEF OneOfTheName

\* The rows of a tenant are loaded together and whole, by one import at a time; no directory of
\* somebody else is touched; "complete" is true: for any number of imports, archives and changes.
THEOREM TenantIsSound == TenantSpec => []TenantMoveSound
<1>1. TenantInv /\ [TenantNext]_tenantVars => TenantInv'
  <2>1. TenantInv /\ UNCHANGED tenantVars => TenantInv'
    <3>1. TenantInv /\ UNCHANGED tenantVars =>
            TenantShape' /\ OrganizationComes' /\ BundlesStand' /\ CreatedStand'
      BY DEF tenantVars, TenantInv, TenantShape, OrganizationComes, BundlesStand, CreatedStand
    <3>2. TenantInv /\ UNCHANGED tenantVars =>
            OneLoaded' /\ LoadedIsWhole' /\ StraysAreLeft' /\ CompleteIsComplete'
      BY DEF tenantVars, TenantInv, OneLoaded, Loaded, LoadedIsWhole, StraysAreLeft, CompleteIsComplete
    <3> QED BY <3>1, <3>2 DEF TenantInv
  <2> QED BY <2>1, OriginIsSound, IntakeIsSound, LoadIsSound, CloneIsSound, SettleIsSound, ReportIsSound,
             CleanUpIsSound, TargetIsSound DEF TenantNext, ImportNext
<1>2. TenantInv => TenantMoveSound
  BY OneIsLoaded DEF TenantInv, TenantMoveSound
<1> QED BY <1>1, <1>2, TenantStarts, PTL DEF TenantSpec

\* The three moves share no variable: what is moved arrives as it left, or is said not to.
THEOREM MovesAreTrueHolds == MoveSpec /\ ObserverSpec /\ TenantSpec => []MovesAreTrue
BY MoveIsSoundHolds, ObserverIsSound, TenantIsSound, PTL DEF MovesAreTrue

=============================================================================
