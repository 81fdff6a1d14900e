------------------------ MODULE MCWorkflowRunsShared ------------------------
(* Small instances of WorkflowRunsShared.                                  *)
EXTENDS WorkflowRunsShared, TLC

CONSTANTS p1, p2, ja, jb, jc, jd

OneProc  == {p1}
TwoProcs == {p1, p2}
Either   == Permutations(TwoProcs)

\* join: c needs a and b.  tail: c needs a, d needs b and c.
\* apart: two jobs that need nothing.
JoinJobs  == {ja, jb, jc}
JoinNeeds == [j \in JoinJobs |-> CASE j = ja -> {} [] j = jb -> {} [] j = jc -> {ja, jb}]
TailJobs  == {ja, jb, jc, jd}
TailNeeds == [j \in TailJobs |-> CASE j = ja -> {} [] j = jb -> {} [] j = jc -> {ja} [] j = jd -> {jb, jc}]
ApartJobs  == {ja, jb}
ApartNeeds == [j \in ApartJobs |-> {}]
Place(j) == CASE j = ja -> 0 [] j = jb -> 1 [] j = jc -> 2 [] j = jd -> 3
JoinPlace  == [j \in JoinJobs |-> Place(j)]
TailPlace  == [j \in TailJobs |-> Place(j)]
ApartPlace == [j \in ApartJobs |-> Place(j)]
=============================================================================
