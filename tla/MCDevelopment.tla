---------------------------- MODULE MCDevelopment ----------------------------
(***************************************************************************)
(* From a push to a merge: what a pull request needs to land, the runs a   *)
(* push starts, the file that says which, the secrets they are given, and  *)
(* the secrets a push must not bring.  Five state spaces of their own      *)
(* checked by one run; the initial state decides which one moves.          *)
(***************************************************************************)
EXTENDS MergeGovernance, WorkflowStart, Secrets, TLC

CONSTANTS one, two  \* members of the sets the states are symmetric in

VARIABLE part

allVars == <<mergeVars, startVars, fileVars, vaultVars, scanVars, part>>

RulesTried == {[needed |-> 1, dismiss |-> TRUE, closed |-> TRUE]}

\* One step of every shape under every trigger, and three jobs with every set of needs.
Step(how, reads, action, ref, env) ==
  [how |-> how, reads |-> reads, action |-> action, ref |-> ref, env |-> env]
Steps ==
  {Step(how, reads, action, ref, env) :
     how \in SUBSET {"run", "uses"}, reads \in {r \in SUBSET Readable : Cardinality(r) <= 2},
     action \in {"cache", "acme", "other"}, ref \in {"v1", "v2", "moving"},
     env \in SUBSET {"reserved"}}
Document(on, needs, step) == [on |-> on, needs |-> needs, step |-> step]
PlainStep == Step({"run"}, {}, "cache", "v1", {})
DocumentsTried ==
  {Document({"push"}, [j \in 1..2 |-> {}], s) : s \in Steps}
    \cup {Document(on, [j \in 1..2 |-> {}], PlainStep) :
            on \in SUBSET {"push", "schedule", "cron", "unknown"}}
    \cup {Document({"push"}, needs, PlainStep) : needs \in [1..3 -> SUBSET (1..4)]}

TreeOf(s, v, e) == "src" :> s @@ "vendor" :> v @@ "example" :> e
SeverityOf  == "token" :> "critical"
TreesPushed == {TreeOf("plain", "plain", "plain"), TreeOf("token", "plain", "gone"),
                TreeOf("token", "token", "token")}
TipsAtFirst == "main" :> TreeOf("plain", "plain", "plain") @@ "topic" :> NoTree
PoliciesSet == {PolicyDefault, [PolicyDefault EXCEPT !.on = TRUE]}

Init ==
  /\ MergeInit /\ StartInit /\ FileInit /\ VaultInit /\ ScanInit
  /\ part \in {"merge", "start", "file", "vault", "scanning"}
  /\ part # "merge" => rule = NoRule /\ demands = {}
  /\ part # "start" => file[1] = "all"
  /\ part # "file" => doc = Document({"push"}, [j \in 1..2 |-> {}], PlainStep)

Next ==
  /\ UNCHANGED part
  /\ \/ part = "merge" /\ MergeNext /\ UNCHANGED <<startVars, fileVars, vaultVars, scanVars>>
     \/ part = "start" /\ StartNext /\ UNCHANGED <<mergeVars, fileVars, vaultVars, scanVars>>
     \/ part = "file" /\ FileNext /\ UNCHANGED <<mergeVars, startVars, vaultVars, scanVars>>
     \/ part = "vault" /\ VaultNext /\ UNCHANGED <<mergeVars, startVars, fileVars, scanVars>>
     \/ part = "scanning" /\ ScanNext /\ UNCHANGED <<mergeVars, startVars, fileVars, vaultVars>>

Spec == Init /\ [][Next]_allVars

\* Where checks and threads are asked for, one clone is at work at a time, and they are
\* written only there.  Branches moved unseen and commits are four in all; past four runs
\* and commits nothing is started by hand or by the clock, past five one request is under
\* way at a time, and the fourth commit asks for everything.  The scan of
\* the trees meets one push, and no bypass.
Affordable ==
  /\ demands # {} => \E j \in Jobs : work[j] = NoJob
  /\ demands = {} => checks = {} /\ threads = {}
  /\ Cardinality(unseen) + Cardinality(Commits) <= MaxCommit
  /\ Cardinality(runs) + Cardinality(Commits) > 4 =>
       schedule # "due" /\ \A x \in runs : x.event \notin {"manual", "schedule"}
  /\ Cardinality(runs) + Cardinality(Commits) > 5 =>
       Cardinality({r \in Requests : request[r] # Idle}) <= 1
  /\ \A c \in Commits : c > 3 => file[c] = "all"
  /\ backfill.at # "idle" =>
       /\ \E p \in Pushes : pushed[p].at \in {"waiting", "over"}
       /\ \A c \in Credentials : bypasses[c].until = 0

\* The jobs of MergeGovernance, the requests of WorkflowStart, the pushes of
\* scanning and the names of secrets are interchangeable.
Symmetry == Permutations(Jobs)

-----------------------------------------------------------------------------
\* The runs of a repository are those its pushes, pull requests and schedule call
\* for, each in an order of jobs its file declares.
StartsSound == StartsAreRight /\ FilesAreSound

\* A secret is read by nobody it was not given to: neither in a log, nor in a branch
\* that push protection guards.
SecretsSound == VaultIsKept /\ ScanningSound
=============================================================================
