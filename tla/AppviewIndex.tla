---------------------------- MODULE AppviewIndex ----------------------------
(***************************************************************************)
(* How issues get their numbers in the appview's SQLite database: the      *)
(* transaction of InsertIssue (internal/appviewdb/db.go) next to others of *)
(* its kind, the appview's own createNewIssue, which it copies "exactly".  *)
(* SQLite is external: BEGIN takes no lock, the first statement that       *)
(* writes takes the one write lock, readers see what was committed, and a  *)
(* transaction that ends otherwise, be it with its process, leaves nothing *)
(* behind.                                                                 *)
(***************************************************************************)
EXTENDS Naturals, FiniteSets

CONSTANTS
  Bridge,    \* the writer that is InsertIssue
  Appview,   \* the writers inside the appview
  Repos,
  Issues,    \* the issues (did, rkey) to be filed
  None

Writers == {Bridge} \cup Appview

ASSUME IndexAssumption ==
  /\ Bridge \notin Appview
  /\ None \notin Writers \cup Repos \cup Issues
  /\ IsFiniteSet(Issues)

VARIABLES
  seqs,     \* committed repo_issue_seqs: next_issue_id by repo, 0 if no row
  rows,     \* committed issues: [repo, number, issue]
  lock,     \* the writer that holds SQLite's write lock, or None
  tx,       \* both tables as that writer sees them
  pc,       \* each writer's next statement, "idle" outside a transaction
  repo,     \* the repo each writer files in
  issue,    \* the issue each writer files
  issueID   \* the number each writer drew, 0 before

localVars == <<repo, issue, issueID>>
vars == <<seqs, rows, lock, tx, pc, localVars>>

Init ==
  /\ seqs = [r \in Repos |-> 0] /\ rows = {}
  /\ lock = None /\ tx = None
  /\ pc = [w \in Writers |-> "idle"]
  /\ repo = [w \in Writers |-> None]
  /\ issue = [w \in Writers |-> None]
  /\ issueID = [w \in Writers |-> 0]

GoTo(w, p) == pc' = [pc EXCEPT ![w] = p]

(* InsertIssue returns.                                                    *)
Return(w) ==
  /\ GoTo(w, "idle")
  /\ repo' = [repo EXCEPT ![w] = None]
  /\ issue' = [issue EXCEPT ![w] = None]
  /\ issueID' = [issueID EXCEPT ![w] = 0]

(* An issue is filed by one writer only, and once.                         *)
Begin(w) ==
  /\ pc[w] = "idle"
  /\ \E r \in Repos, i \in Issues :
       /\ \A row \in rows : row.issue # i
       /\ \A v \in Writers : issue[v] # i
       /\ repo' = [repo EXCEPT ![w] = r]
       /\ issue' = [issue EXCEPT ![w] = i]
  /\ GoTo(w, "ensure")
  /\ UNCHANGED <<seqs, rows, lock, tx, issueID>>

(* INSERT OR IGNORE: the first write, so it waits for the lock.            *)
EnsureSeq(w) ==
  /\ pc[w] = "ensure"
  /\ lock = None
  /\ lock' = w
  /\ tx' = [seqs |-> [seqs EXCEPT ![repo[w]] = IF @ = 0 THEN 1 ELSE @],
            rows |-> rows]
  /\ GoTo(w, "advance")
  /\ UNCHANGED <<seqs, rows, localVars>>

(* UPDATE ... RETURNING next_issue_id - 1.                                 *)
DrawNumber(w) ==
  /\ issueID' = [issueID EXCEPT ![w] = tx.seqs[repo[w]]]
  /\ tx' = [tx EXCEPT !.seqs[repo[w]] = @ + 1]

(* Mutants of AdvanceSeq: the bridge draws max(issue_id) + 1 and leaves    *)
(* the counter alone (db.go:132-136); the statement commits by itself.     *)
AdvanceSeqByMax(w) ==
  /\ pc[w] = "advance"
  /\ LET used == {0} \cup {x.number : x \in
                             {row \in tx.rows : row.repo = repo[w]}}
     IN IF w # Bridge THEN DrawNumber(w)
        ELSE /\ \E n \in used :
                  /\ \A m \in used : m <= n
                  /\ issueID' = [issueID EXCEPT ![w] = n + 1]
             /\ UNCHANGED tx
  /\ GoTo(w, "insert")
  /\ UNCHANGED <<seqs, rows, lock, repo, issue>>
AdvanceSeqAlone(w) ==
  /\ pc[w] = "advance"
  /\ DrawNumber(w)
  /\ seqs' = tx'.seqs
  /\ GoTo(w, "insert")
  /\ UNCHANGED <<rows, lock, repo, issue>>

AdvanceSeq(w) ==
  /\ pc[w] = "advance"
  /\ DrawNumber(w)
  /\ GoTo(w, "insert")
  /\ UNCHANGED <<seqs, rows, lock, repo, issue>>

NumberTaken(w) ==
  \E row \in tx.rows : row.repo = repo[w] /\ row.number = issueID[w]

InsertIssue(w) ==
  /\ pc[w] = "insert"
  /\ ~NumberTaken(w)
  /\ tx' = [tx EXCEPT !.rows = @ \cup {[repo   |-> repo[w],
                                        number |-> issueID[w],
                                        issue  |-> issue[w]]}]
  /\ GoTo(w, "commit")
  /\ UNCHANGED <<seqs, rows, lock, localVars>>

Commit(w) ==
  /\ pc[w] = "commit"
  /\ seqs' = tx.seqs
  /\ rows' = tx.rows
  /\ lock' = None /\ tx' = None
  /\ Return(w)

(* Mutant of Abort: no deferred Rollback.                                  *)
AbortWithoutRollback(w) ==
  /\ pc[w] # "idle"
  /\ Return(w)
  /\ UNCHANGED <<seqs, rows, lock, tx>>

(* A statement fails (a UNIQUE constraint, the disk, the pass timeout, ten *)
(* seconds of waiting for the lock) and the deferred Rollback runs, or the *)
(* process dies and SQLite rolls back.                                     *)
Abort(w) ==
  /\ pc[w] # "idle"
  /\ IF lock = w THEN lock' = None /\ tx' = None ELSE UNCHANGED <<lock, tx>>
  /\ Return(w)
  /\ UNCHANGED <<seqs, rows>>

Statement(w) == EnsureSeq(w) \/ AdvanceSeq(w) \/ InsertIssue(w) \/ Commit(w)

Next == \E w \in Writers : Begin(w) \/ Statement(w) \/ Abort(w)

Spec == Init /\ [][Next]_vars

(* A writer that has begun gets on, in one way or another.                 *)
Fairness == \A w \in Writers : WF_vars(Statement(w) \/ Abort(w))

FairSpec == Spec /\ Fairness

-----------------------------------------------------------------------------
Row == [repo : Repos, number : Nat \ {0}, issue : Issues]
Tables == [seqs : [Repos -> Nat], rows : SUBSET Row]

(* Types of the database and of the writers' locals; past the first        *)
(* statement a transaction holds the write lock, and only then.            *)
TypeOK ==
  /\ [seqs |-> seqs, rows |-> rows] \in Tables
  /\ lock \in Writers \cup {None}
  /\ IF lock = None THEN tx = None ELSE tx \in Tables
  /\ pc \in [Writers -> {"idle", "ensure", "advance", "insert", "commit"}]
  /\ repo \in [Writers -> Repos \cup {None}]
  /\ issue \in [Writers -> Issues \cup {None}]
  /\ issueID \in [Writers -> Nat]
  /\ \A w \in Writers :
       /\ pc[w] # "idle" => repo[w] # None /\ issue[w] # None
       /\ pc[w] \in {"advance", "insert", "commit"} <=> lock = w

(* "A human creating an issue through the real Tangled UI afterwards can't *)
(* collide with a number this bridge already used" (db.go:126-136), nor    *)
(* the bridge with one of theirs: no insert meets its number in the table. *)
NoCollision == \A w \in Writers : pc[w] = "insert" => ~NumberTaken(w)

Numbers == INSTANCE IssueNumbers WITH filed <- rows

(* The transactions of several writers number like one writer who files an *)
(* issue in a single step: no number is skipped, given twice or taken      *)
(* back, whatever statement fails and whoever dies in between.             *)
NumbersInOrder == Numbers!Spec

(* The bridge never blocks the appview for good, nor the other way round:  *)
(* whoever holds the write lock lets go of it (db.go:142).                 *)
LockReleased == \A w \in Writers : lock = w ~> lock # w
=============================================================================
