------------------------------- MODULE Issues -------------------------------
(***************************************************************************)
(* The issues of repositories: their numbers, labels and milestones        *)
(* (src/src/app.mjs, issue-taxonomy.mjs), the comments and reactions on    *)
(* them (issue-comments.mjs, issue-reactions.mjs), and those brought from  *)
(* another forge (forge-issues.mjs).                                       *)
(*                                                                         *)
(* A handler looks up who may do what and the row it is about, awaits the  *)
(* body, and then writes: the row may be gone by then and the permission   *)
(* withdrawn.  The identifiers in a body are the caller's.  A comment      *)
(* brought from elsewhere belongs to whoever ran the import and names its  *)
(* author as text.                                                         *)
(*                                                                         *)
(* `cited` is a history variable: what #n meant when it was first said.    *)
(***************************************************************************)
EXTENDS Naturals, FiniteSets

CONSTANTS
  Trackers,    \* repositories
  People,      \* users
  Maintainer,  \* the one of them who maintains every repository
  IssueIds,    \* identifiers of issues
  NoteIds,     \* identifiers of comments
  LabelNames,  \* names of labels, milestones alike
  BadNames,    \* those among them a label may not have here
  MaxMarks,    \* bound: reactions
  Listings     \* what the other forge answers: sets of issues, with number and label

\* The other forge gives each of its issues a number, and lists one at least.
ASSUME IssuesAssumption ==
  /\ BadNames \subseteq LabelNames /\ Maintainer \in People /\ MaxMarks \in Nat
  /\ \A L \in Listings :
       /\ IsFiniteSet(L) /\ L \subseteq [number : Nat, label : LabelNames]
       /\ \A x, y \in L : x.number = y.number => x = y
       /\ \E first, last \in L : \A x \in L : first.number <= x.number /\ x.number <= last.number

VARIABLES
  issues,   \* issues: repository, number and label links by identifier
  labels,   \* issue_labels and issue_milestones: repository and name
  notes,    \* issue_comments: issue, owner of the row, whose words
  gone,     \* identifiers of comments deleted
  marks,    \* issue_reactions: issue, comment or "issue", user
  may,      \* permission on each repository: 0 none, 1 read, 2 write, 3 maintain
  awaited,  \* the request whose body is awaited
  cited     \* the issue each number of a repository has meant

issueVars == <<issues, labels, notes, gone, marks, may, awaited, cited>>

NoRequest == [what |-> "none"]
Here(r) == {i \in DOMAIN issues : issues[i].repo = r}
NumbersOf(r) == {issues[i].number : i \in Here(r)}
Top(S) == IF S = {} THEN 0 ELSE CHOOSE n \in S : \A k \in S : k <= n

IssuesInit ==
  /\ issues = [i \in {} |-> {}] /\ labels = {} /\ notes = [c \in {} |-> {}] /\ gone = {}
  /\ marks = {}
  /\ may = [p \in People |-> [r \in Trackers |-> IF p = Maintainer THEN 3 ELSE 2]]
  /\ awaited = NoRequest /\ cited = {}

\* What a new row of `issues` holds, and what its number means from now on.
Opened(r, n) == [repo |-> r, number |-> n, labels |-> {}]
Cite(S) == cited \cup {[repo |-> issues'[i].repo, number |-> issues'[i].number, issue |-> i] : i \in S}

-----------------------------------------------------------------------------
(* What awaits a body                                                      *)

AskToOpen(u, r) ==
  /\ awaited = NoRequest /\ may[u][r] >= 2
  /\ awaited' = [what |-> "open", user |-> u, repo |-> r]
  /\ UNCHANGED <<issues, labels, notes, gone, marks, may, cited>>

\* The issue is looked up in the repository asked about, whatever is then done to it.
AskOnIssue(u, i, what) ==
  /\ awaited = NoRequest /\ may[u][issues[i].repo] >= (IF what = "react" THEN 1 ELSE 2)
  /\ awaited' = [what |-> what, user |-> u, repo |-> issues[i].repo, issue |-> i]
  /\ UNCHANGED <<issues, labels, notes, gone, marks, may, cited>>

\* Only the owner of the row edits it, maintainers included.
MayEdit(u, c) == notes[c].owner = u

AskToEdit(u, c) ==
  /\ awaited = NoRequest /\ may[u][issues[notes[c].issue].repo] >= 2 /\ MayEdit(u, c)
  /\ awaited' = [what |-> "edit", user |-> u, repo |-> issues[notes[c].issue].repo, note |-> c]
  /\ UNCHANGED <<issues, labels, notes, gone, marks, may, cited>>

-----------------------------------------------------------------------------
(* What is done when the body has come                                     *)

\* The number is one more than the highest the repository has.
OpenIssue(i) ==
  /\ awaited.what = "open" /\ i \notin DOMAIN issues
  /\ issues' = [k \in DOMAIN issues \cup {i} |->
                  IF k = i THEN Opened(awaited.repo, Top(NumbersOf(awaited.repo)) + 1) ELSE issues[k]]
  /\ awaited' = NoRequest /\ cited' = Cite({i})
  /\ UNCHANGED <<labels, notes, gone, marks, may>>

\* addIssueComment.
Comment(c) ==
  /\ awaited.what = "comment" /\ c \notin DOMAIN notes \cup gone
  /\ notes' = [k \in DOMAIN notes \cup {c} |->
                 IF k = c THEN [issue |-> awaited.issue, owner |-> awaited.user, words |-> awaited.user]
                 ELSE notes[k]]
  /\ awaited' = NoRequest
  /\ UNCHANGED <<issues, labels, gone, marks, may, cited>>

\* The row may have been deleted meanwhile; the answer is the same.
EditComment ==
  /\ awaited.what = "edit"
  /\ notes' = [k \in DOMAIN notes |-> IF k = awaited.note THEN [notes[k] EXCEPT !.words = awaited.user]
                                      ELSE notes[k]]
  /\ awaited' = NoRequest
  /\ UNCHANGED <<issues, labels, gone, marks, may, cited>>

\* setIssueLabels: labels of this repository only, milestones likewise.
OfRepository(l, r) == l \in labels /\ l.repo = r

PatchIssue(l) ==
  /\ awaited.what = "patch" /\ OfRepository(l, awaited.repo)
  /\ issues' = [issues EXCEPT ![awaited.issue].labels = {l}]
  /\ awaited' = NoRequest
  /\ UNCHANGED <<labels, notes, gone, marks, may, cited>>

\* As below, had any comment been found by its identifier.
OnAnyIssue(c, i) == c \in DOMAIN notes

\* The comment a reaction names is one of this issue.
OnIssue(c, i) == c \in DOMAIN notes /\ notes[c].issue = i

\* toggleReaction.
React(c) ==
  /\ awaited.what = "react" /\ (c = "issue" \/ OnIssue(c, awaited.issue))
  /\ LET m == [issue |-> awaited.issue, on |-> c, user |-> awaited.user]
     IN marks' = IF m \in marks THEN marks \ {m} ELSE marks \cup {m}
  /\ Cardinality(marks') <= MaxMarks
  /\ awaited' = NoRequest
  /\ UNCHANGED <<issues, labels, notes, gone, may, cited>>

\* The body names a row that is gone or is not of this repository.
Refuse ==
  /\ awaited # NoRequest /\ awaited' = NoRequest
  /\ UNCHANGED <<issues, labels, notes, gone, marks, may, cited>>

-----------------------------------------------------------------------------
(* What needs no body, or only its own                                     *)

\* ensureLabel and ensureMilestone: one row per name.
MakeLabel(r, n) ==
  /\ n \notin BadNames /\ [repo |-> r, name |-> n] \notin labels
  /\ labels' = labels \cup {[repo |-> r, name |-> n]}
  /\ UNCHANGED <<issues, notes, gone, marks, may, awaited, cited>>

\* The links of a label go with it.
DeleteLabel(u, l) ==
  /\ may[u][l.repo] >= 3
  /\ labels' = labels \ {l}
  /\ issues' = [i \in DOMAIN issues |-> [issues[i] EXCEPT !.labels = @ \ {l}]]
  /\ UNCHANGED <<notes, gone, marks, may, awaited, cited>>

\* The author or a maintainer; the reactions to it go too.
DeleteComment(u, c) ==
  /\ LET have == may[u][issues[notes[c].issue].repo]
     IN have >= 2 /\ (notes[c].owner = u \/ have >= 3)
  /\ notes' = [k \in DOMAIN notes \ {c} |-> notes[k]]
  /\ marks' = {m \in marks : m.on # c} /\ gone' = gone \cup {c}
  /\ UNCHANGED <<issues, labels, may, awaited, cited>>

PermissionChanges ==
  /\ \E p \in People, r \in Trackers, n \in {0, 2} :
       may[p][r] \notin {n, 3} /\ may' = [may EXCEPT ![p][r] = n]
  /\ UNCHANGED <<issues, labels, notes, gone, marks, awaited, cited>>

-----------------------------------------------------------------------------
(* Issues from another forge                                               *)

\* Numbers are kept when the repository has no issue of its own.
NumberFor(r, x, before) == IF Here(r) = {} THEN x.number ELSE Top(NumbersOf(r)) + before + 1

\* importForgeIssues, when the forge has answered: one transaction, undone
\* whole by a name no label may have here.
ImportIssues(u, r, L, slot, note) ==
  /\ IF \E x \in L : x.label \in BadNames
     THEN UNCHANGED <<issues, labels, notes, cited>>
     ELSE /\ labels' = labels \cup {[repo |-> r, name |-> x.label] : x \in L}
          /\ issues' = [k \in DOMAIN issues \cup {slot[x] : x \in L} |->
               IF k \in DOMAIN issues THEN issues[k]
               ELSE LET x == CHOOSE y \in L : slot[y] = k
                    IN [Opened(r, NumberFor(r, x, Cardinality({y \in L : y.number < x.number})))
                         EXCEPT !.labels = {[repo |-> r, name |-> x.label]}]]
          /\ notes' = [k \in DOMAIN notes \cup {note} |->
               IF k \in DOMAIN notes THEN notes[k]
               ELSE [issue |-> slot[CHOOSE x \in L : \A y \in L : x.number <= y.number],
                     owner |-> u, words |-> "elsewhere"]]
          /\ cited' = Cite({slot[x] : x \in L})
  /\ UNCHANGED <<gone, marks, may, awaited>>

-----------------------------------------------------------------------------

CommentNext ==
  \/ \E u \in People : \/ \E c \in DOMAIN notes : AskToEdit(u, c) \/ DeleteComment(u, c)
                       \/ \E i \in DOMAIN issues : AskOnIssue(u, i, "comment")
  \/ EditComment
  \/ \E c \in NoteIds : Comment(c)

ReactionNext ==
  \/ \E u \in People, i \in DOMAIN issues : AskOnIssue(u, i, "react")
  \/ \E c \in NoteIds \cup {"issue"} : React(c)

TaxonomyNext ==
  \/ \E r \in Trackers, n \in LabelNames : MakeLabel(r, n)
  \/ \E u \in People, l \in labels : DeleteLabel(u, l)
  \/ \E u \in People, i \in DOMAIN issues : AskOnIssue(u, i, "patch")
  \/ \E l \in labels : PatchIssue(l)

IssuesNext ==
  \/ CommentNext \/ ReactionNext \/ TaxonomyNext \/ Refuse \/ PermissionChanges
  \/ \E u \in People, r \in Trackers : AskToOpen(u, r)
  \/ \E i \in IssueIds : OpenIssue(i)
  \/ \E u \in People, r \in Trackers, L \in Listings, note \in NoteIds \ (DOMAIN notes \cup gone) :
       \E slot \in {f \in [L -> IssueIds \ DOMAIN issues] : \A x, y \in L : f[x] = f[y] => x = y} :
         ImportIssues(u, r, L, slot, note)

IssuesSpec == IssuesInit /\ [][IssuesNext]_issueVars

-----------------------------------------------------------------------------

\* #n of a repository means one issue, and the one it has always meant.
NumbersMeanOneIssue ==
  \A a, b \in cited : (a.repo = b.repo /\ a.number = b.number) => a.issue = b.issue

\* An issue bears only labels of its own repository that still exist, and a
\* reaction to a comment counts for the issue the comment is on.
NothingCrosses ==
  /\ \A i \in DOMAIN issues : \A l \in issues[i].labels : OfRepository(l, issues[i].repo)
  /\ \A m \in marks : m.on = "issue" \/ (m.on \in DOMAIN notes /\ notes[m.on].issue = m.issue)

\* Nobody but the owner of a comment changes its words: they are his, or those
\* that came with it.
WordsStay ==
  \A c \in DOMAIN notes : notes[c].words \in {notes[c].owner, "elsewhere"}

\* Issues stay what they were called, within their repository and in the words
\* of those who wrote them, whatever was deleted, withdrawn or imported while
\* a request was on its way.
IssuesSound == NumbersMeanOneIssue /\ NothingCrosses /\ WordsStay
=============================================================================
