---------------------------- MODULE IndexProofs ----------------------------
(***************************************************************************)
(* The transactions of any number of writers, in any number of repos,      *)
(* number issues like one writer who files each in a single step, and no   *)
(* insert meets its number in the table.                                   *)
(***************************************************************************)
EXTENDS AppviewIndex, FiniteSetTheorems, TLAPS

Filed(r) == {row \in rows : row.repo = r}

(* The number the next transaction in a repo draws: a repo without a       *)
(* counter row gets one that starts at 1.                                  *)
NextNumber(r) == IF seqs[r] = 0 THEN 1 ELSE seqs[r]

(* The committed counter is one past the number of rows, and past each.    *)
Counted ==
  /\ IsFiniteSet(rows)
  /\ \A r \in Repos : Cardinality(Filed(r)) + 1 = NextNumber(r)
  /\ \A row \in rows : row.number < NextNumber(row.repo)

NewRow(w) == [repo |-> repo[w], number |-> issueID[w], issue |-> issue[w]]

(* What the holder of the lock sees: the committed tables and what it did. *)
HolderSees(w) ==
  /\ \A r \in Repos \ {repo[w]} : tx.seqs[r] = seqs[r]
  /\ pc[w] = "advance" =>
       tx.rows = rows /\ tx.seqs[repo[w]] = NextNumber(repo[w])
  /\ pc[w] \in {"insert", "commit"} =>
       /\ issueID[w] = NextNumber(repo[w])
       /\ tx.seqs[repo[w]] = NextNumber(repo[w]) + 1
  /\ pc[w] = "insert" => tx.rows = rows
  /\ pc[w] = "commit" => tx.rows = rows \cup {NewRow(w)}

(* Nobody files what is filed or what another one is filing.               *)
OwnIssue(w) ==
  /\ pc[w] = "idle" => issue[w] = None
  /\ \A row \in rows : row.issue # issue[w]
  /\ \A v \in Writers : issue[v] = issue[w] /\ issue[w] # None => v = w

IndexInv ==
  /\ TypeOK
  /\ Counted
  /\ \A w \in Writers : OwnIssue(w)
  /\ \A w \in Writers : lock = w => HolderSees(w)

-----------------------------------------------------------------------------
LEMMA IndexInit == Init => IndexInv
<1> SUFFICES ASSUME Init PROVE IndexInv
  OBVIOUS
<1>1. TypeOK
  BY IndexAssumption DEF Init, TypeOK, Tables
<1>2. Counted
  <2>1. \A r \in Repos : Filed(r) = {}
    BY DEF Init, Filed
  <2> QED
    BY <2>1, FS_EmptySet DEF Init, Counted, NextNumber
<1>3. \A w \in Writers : OwnIssue(w)
  BY DEF Init, OwnIssue
<1>4. \A w \in Writers : lock # w
  BY IndexAssumption DEF Init
<1> QED
  BY <1>1, <1>2, <1>3, <1>4 DEF IndexInv

(* Steps that commit nothing leave the count alone.                        *)
LEMMA CountKept ==
  ASSUME Counted, UNCHANGED <<seqs, rows>>
  PROVE  Counted'
<1>1. \A r : Filed(r)' = Filed(r) /\ NextNumber(r)' = NextNumber(r)
  BY DEF Filed, NextNumber
<1> QED
  BY <1>1 DEF Counted

LEMMA BeginStep ==
  ASSUME IndexInv, NEW w \in Writers, Begin(w)
  PROVE  IndexInv'
<1>1. PICK r \in Repos, i \in Issues :
        /\ \A row \in rows : row.issue # i
        /\ \A v \in Writers : issue[v] # i
        /\ repo' = [repo EXCEPT ![w] = r]
        /\ issue' = [issue EXCEPT ![w] = i]
  BY DEF Begin
<1>2. /\ pc[w] = "idle" /\ pc' = [pc EXCEPT ![w] = "ensure"]
      /\ UNCHANGED <<seqs, rows, lock, tx, issueID>>
  BY DEF Begin, GoTo
<1>3. TypeOK'
  BY <1>1, <1>2, IndexAssumption DEF IndexInv, TypeOK
<1>4. Counted'
  BY <1>2, CountKept DEF IndexInv
<1>5. \A v \in Writers : OwnIssue(v)'
  BY <1>1, <1>2 DEF IndexInv, TypeOK, OwnIssue
<1>6. ASSUME NEW v \in Writers, lock' = v PROVE HolderSees(v)'
  <2>1. v # w /\ HolderSees(v)
    BY <1>2, <1>6 DEF IndexInv, TypeOK
  <2>2. UNCHANGED <<pc[v], repo[v], issue[v], issueID[v]>>
    BY <1>1, <1>2, <2>1 DEF IndexInv, TypeOK
  <2> QED
    BY <1>2, <2>1, <2>2 DEF HolderSees, NextNumber, NewRow
<1> QED
  BY <1>3, <1>4, <1>5, <1>6 DEF IndexInv

(* The statements between the first and the commit belong to the holder.   *)
LEMMA HolderStep ==
  ASSUME IndexInv, NEW w \in Writers,
         EnsureSeq(w) \/ AdvanceSeq(w) \/ InsertIssue(w)
  PROVE  IndexInv'
<1>1. /\ UNCHANGED <<seqs, rows, repo, issue>>
      /\ lock' = w /\ lock \in {None, w}
      /\ pc[w] # "idle" /\ pc'[w] # "idle"
      /\ \A v \in Writers : v # w => pc'[v] = pc[v]
  BY DEF EnsureSeq, AdvanceSeq, InsertIssue, DrawNumber, GoTo, localVars,
         IndexInv, TypeOK
<1>2. repo[w] \in Repos /\ issue[w] \in Issues
  BY <1>1 DEF IndexInv, TypeOK
<1>3. TypeOK' /\ HolderSees(w)'
  <2>1. CASE EnsureSeq(w)
    <3>1. /\ pc' = [pc EXCEPT ![w] = "advance"] /\ issueID' = issueID
          /\ tx' = [seqs |-> [seqs EXCEPT ![repo[w]] = IF @ = 0 THEN 1 ELSE @],
                    rows |-> rows]
      BY <2>1 DEF EnsureSeq, GoTo, localVars
    <3>2. tx' \in Tables
      BY <1>2, <3>1 DEF IndexInv, TypeOK, Tables
    <3>3. TypeOK'
      BY <1>1, <3>1, <3>2, <2>1, IndexAssumption DEF EnsureSeq, IndexInv, TypeOK
    <3>4. HolderSees(w)'
      BY <1>1, <1>2, <3>1 DEF IndexInv, TypeOK, Tables, HolderSees, NextNumber
    <3> QED
      BY <3>3, <3>4
  <2>2. CASE AdvanceSeq(w)
    <3>1. /\ pc[w] = "advance" /\ pc' = [pc EXCEPT ![w] = "insert"]
          /\ issueID' = [issueID EXCEPT ![w] = tx.seqs[repo[w]]]
          /\ tx' = [tx EXCEPT !.seqs[repo[w]] = @ + 1]
      BY <2>2 DEF AdvanceSeq, DrawNumber, GoTo
    <3>2. lock = w /\ tx \in Tables /\ HolderSees(w)
      BY <3>1, IndexAssumption DEF IndexInv, TypeOK
    <3>3. /\ tx'.seqs = [tx.seqs EXCEPT ![repo[w]] = @ + 1]
          /\ tx'.rows = tx.rows /\ tx' \in Tables
      BY <1>2, <3>1, <3>2 DEF Tables
    <3>4. TypeOK'
      BY <1>1, <1>2, <3>1, <3>2, <3>3, IndexAssumption
      DEF IndexInv, TypeOK, Tables
    <3>5. HolderSees(w)'
      BY <1>1, <1>2, <3>1, <3>2, <3>3
      DEF IndexInv, TypeOK, Tables, HolderSees, NextNumber
    <3> QED
      BY <3>4, <3>5
  <2>3. CASE InsertIssue(w)
    <3>1. /\ pc[w] = "insert" /\ pc' = [pc EXCEPT ![w] = "commit"]
          /\ issueID' = issueID
          /\ tx' = [tx EXCEPT !.rows = @ \cup {NewRow(w)}]
      BY <2>3 DEF InsertIssue, GoTo, localVars, NewRow
    <3>2. lock = w /\ tx \in Tables /\ HolderSees(w)
      BY <3>1, IndexAssumption DEF IndexInv, TypeOK
    <3>3. NewRow(w) \in Row
      BY <1>2, <3>1, <3>2 DEF IndexInv, TypeOK, Tables, HolderSees, NextNumber,
                              NewRow, Row
    <3>4. /\ tx'.seqs = tx.seqs /\ tx'.rows = tx.rows \cup {NewRow(w)}
          /\ tx' \in Tables
      BY <3>1, <3>2, <3>3 DEF Tables
    <3>5. TypeOK'
      BY <1>1, <3>1, <3>2, <3>4, IndexAssumption DEF IndexInv, TypeOK
    <3>6. HolderSees(w)'
      BY <1>1, <3>1, <3>2, <3>4
      DEF IndexInv, TypeOK, HolderSees, NextNumber, NewRow
    <3> QED
      BY <3>5, <3>6
  <2> QED
    BY <2>1, <2>2, <2>3
<1>4. Counted'
  BY <1>1, CountKept DEF IndexInv
<1>5. \A v \in Writers : OwnIssue(v)'
  BY <1>1 DEF IndexInv, OwnIssue
<1> QED
  BY <1>1, <1>3, <1>4, <1>5 DEF IndexInv

(* Whoever returns is idle, and the others are where they were.            *)
LEMMA Returned ==
  ASSUME IndexInv, NEW w \in Writers, Return(w)
  PROVE  /\ pc'[w] = "idle" /\ issue'[w] = None
         /\ pc' \in [Writers -> {"idle", "ensure", "advance", "insert", "commit"}]
         /\ repo' \in [Writers -> Repos \cup {None}]
         /\ issue' \in [Writers -> Issues \cup {None}]
         /\ issueID' \in [Writers -> Nat]
         /\ \A v \in Writers \ {w} :
              UNCHANGED <<pc[v], repo[v], issue[v], issueID[v]>>
BY DEF Return, GoTo, IndexInv, TypeOK

(* A commit adds the one row that makes the counter right again.           *)
LEMMA CommitRow ==
  ASSUME IndexInv, NEW w \in Writers, Commit(w)
  PROVE  /\ repo[w] \in Repos /\ issue[w] \in Issues
         /\ lock = w /\ HolderSees(w)
         /\ rows' = rows \cup {NewRow(w)} /\ NewRow(w) \notin rows
         /\ issueID[w] = Cardinality(Filed(repo[w])) + 1
         /\ [seqs |-> seqs', rows |-> rows'] \in Tables
<1>1. pc[w] = "commit" /\ lock = w
  BY DEF Commit, IndexInv, TypeOK
<1>2. tx \in Tables /\ HolderSees(w) /\ repo[w] \in Repos /\ issue[w] \in Issues
  BY <1>1, IndexAssumption DEF IndexInv, TypeOK
<1>3. rows' = rows \cup {NewRow(w)}
  BY <1>1, <1>2 DEF Commit, HolderSees
<1>4. NewRow(w) \notin rows
  BY <1>2 DEF IndexInv, OwnIssue, NewRow
<1>5. issueID[w] = Cardinality(Filed(repo[w])) + 1
  BY <1>1, <1>2 DEF IndexInv, Counted, HolderSees
<1>6. [seqs |-> seqs', rows |-> rows'] \in Tables
  BY <1>2 DEF Commit, Tables
<1> QED
  BY <1>1, <1>2, <1>3, <1>4, <1>5, <1>6

LEMMA CommitCounts ==
  ASSUME IndexInv, NEW w \in Writers, Commit(w)
  PROVE  Counted'
<1>1. /\ repo[w] \in Repos /\ HolderSees(w)
      /\ rows' = rows \cup {NewRow(w)} /\ NewRow(w) \notin rows
  BY CommitRow
<1>2. PICK r \in Repos : r = repo[w]
  BY <1>1
<1>3. IsFiniteSet(rows) /\ IsFiniteSet(rows')
  BY <1>1, FS_AddElement DEF IndexInv, Counted
<1>4. /\ NewRow(w).repo = r /\ NewRow(w).number = NextNumber(r)
      /\ seqs'[r] = NextNumber(r) + 1
      /\ \A x \in Repos \ {r} : seqs'[x] = seqs[x]
  BY <1>1, <1>2 DEF Commit, HolderSees, NewRow
<1>5. NextNumber(r) \in Nat \ {0}
  BY DEF NextNumber, IndexInv, TypeOK, Tables
<1>6. /\ NextNumber(r)' = NextNumber(r) + 1
      /\ \A x \in Repos \ {r} : NextNumber(x)' = NextNumber(x)
  BY <1>4, <1>5 DEF NextNumber
<1>7. ASSUME NEW x \in Repos
      PROVE  Cardinality(Filed(x))' + 1 = NextNumber(x)'
  <2>1. IsFiniteSet(Filed(x)) /\ Cardinality(Filed(x)) \in Nat
    BY <1>3, FS_Subset, FS_CardinalityType DEF Filed
  <2>2. Cardinality(Filed(x)) + 1 = NextNumber(x)
    BY DEF IndexInv, Counted
  <2>3. CASE x = r
    <3>1. Filed(x)' = Filed(x) \cup {NewRow(w)} /\ NewRow(w) \notin Filed(x)
      BY <1>1, <1>4, <2>3 DEF Filed
    <3>2. Cardinality(Filed(x)') = Cardinality(Filed(x)) + 1
      BY <2>1, <3>1, FS_AddElement
    <3> QED
      BY <1>6, <2>1, <2>2, <2>3, <3>2
  <2>4. CASE x # r
    <3>1. Filed(x)' = Filed(x)
      BY <1>1, <1>4, <2>4 DEF Filed
    <3> QED
      BY <1>6, <2>2, <2>4, <3>1
  <2> QED
    BY <2>3, <2>4
<1>8. ASSUME NEW row \in rows' PROVE row.number < NextNumber(row.repo)'
  <2>1. CASE row = NewRow(w)
    BY <1>4, <1>5, <1>6, <2>1
  <2>2. CASE row \in rows
    <3>1. /\ row.repo \in Repos /\ row.number \in Nat
          /\ row.number < NextNumber(row.repo)
      BY <2>2 DEF IndexInv, TypeOK, Tables, Row, Counted
    <3> QED
      BY <1>5, <1>6, <3>1
  <2> QED
    BY <1>1, <2>1, <2>2
<1> QED
  BY <1>3, <1>7, <1>8 DEF Counted

LEMMA CommitStep ==
  ASSUME IndexInv, NEW w \in Writers, Commit(w)
  PROVE  IndexInv'
<1>1. /\ issue[w] \in Issues /\ lock = w
      /\ rows' = rows \cup {NewRow(w)}
      /\ [seqs |-> seqs', rows |-> rows'] \in Tables
  BY CommitRow
<1>2. /\ lock' = None /\ tx' = None /\ Return(w)
  BY DEF Commit
<1>3. TypeOK'
  BY <1>1, <1>2, Returned, IndexAssumption DEF IndexInv, TypeOK
<1>4. Counted'
  BY CommitCounts
<1>5. ASSUME NEW v \in Writers PROVE OwnIssue(v)'
  <2>1. CASE v = w
    BY <1>1, <1>2, <2>1, Returned, IndexAssumption
    DEF OwnIssue, IndexInv, TypeOK, Tables, Row, NewRow
  <2>2. CASE v # w
    <3>1. /\ issue'[v] = issue[v] /\ issue'[w] = None
          /\ \A u \in Writers \ {w} : issue'[u] = issue[u]
          /\ pc'[v] = pc[v]
      BY <1>2, <2>2, Returned
    <3>2. OwnIssue(v) /\ issue[w] # issue[v]
      BY <1>1, <2>2, IndexAssumption DEF IndexInv, OwnIssue
    <3>3. \A row \in rows' : row.issue # issue'[v]
      BY <1>1, <3>1, <3>2 DEF OwnIssue, NewRow
    <3> QED
      BY <3>1, <3>2, <3>3 DEF OwnIssue
  <2> QED
    BY <2>1, <2>2
<1>6. \A v \in Writers : lock' # v
  BY <1>2, IndexAssumption
<1> QED
  BY <1>3, <1>4, <1>5, <1>6 DEF IndexInv

LEMMA AbortStep ==
  ASSUME IndexInv, NEW w \in Writers, Abort(w)
  PROVE  IndexInv'
<1>1. /\ Return(w) /\ UNCHANGED <<seqs, rows>> /\ lock' # w
      /\ IF lock = w THEN lock' = None /\ tx' = None ELSE UNCHANGED <<lock, tx>>
  BY IndexAssumption DEF Abort
<1>2. TypeOK'
  BY <1>1, Returned, IndexAssumption DEF IndexInv, TypeOK
<1>3. Counted'
  BY <1>1, CountKept DEF IndexInv
<1>4. ASSUME NEW v \in Writers PROVE OwnIssue(v)'
  <2>1. CASE v = w
    BY <1>1, <2>1, Returned, IndexAssumption
    DEF OwnIssue, IndexInv, TypeOK, Tables, Row
  <2>2. CASE v # w
    BY <1>1, <2>2, Returned DEF OwnIssue, IndexInv
  <2> QED
    BY <2>1, <2>2
<1>5. ASSUME NEW v \in Writers, lock' = v PROVE HolderSees(v)'
  <2>1. v # w /\ lock = v /\ UNCHANGED tx
    BY <1>1, <1>5, IndexAssumption
  <2>2. HolderSees(v) /\ UNCHANGED <<pc[v], repo[v], issue[v], issueID[v]>>
    BY <1>1, <2>1, Returned DEF IndexInv
  <2> QED
    BY <1>1, <2>1, <2>2 DEF HolderSees, NextNumber, NewRow
<1> QED
  BY <1>2, <1>3, <1>4, <1>5 DEF IndexInv

LEMMA IndexStep == IndexInv /\ [Next]_vars => IndexInv'
<1> SUFFICES ASSUME IndexInv, [Next]_vars PROVE IndexInv'
  OBVIOUS
<1>1. CASE Next
  BY <1>1, BeginStep, HolderStep, CommitStep, AbortStep DEF Next, Statement
<1>2. CASE UNCHANGED vars
  <2>1. \A w : NewRow(w)' = NewRow(w) /\ (HolderSees(w) => HolderSees(w)')
               /\ (OwnIssue(w) => OwnIssue(w)')
    BY <1>2 DEF vars, localVars, NewRow, HolderSees, NextNumber, OwnIssue
  <2>2. Counted' /\ TypeOK'
    BY <1>2, CountKept DEF IndexInv, TypeOK, vars, localVars
  <2>3. lock' = lock
    BY <1>2 DEF vars
  <2> QED
    BY <2>1, <2>2, <2>3 DEF IndexInv
<1> QED
  BY <1>1, <1>2

LEMMA IndexHolds == Spec => []IndexInv
BY IndexInit, IndexStep, PTL DEF Spec

(* Types, and that exactly the holder of the write lock is past its first  *)
(* statement (db.go:144-200).                                              *)
THEOREM IndexTyped == Spec => []TypeOK
<1>1. IndexInv => TypeOK
  BY DEF IndexInv
<1> QED
  BY <1>1, IndexHolds, PTL

-----------------------------------------------------------------------------
(* No insert meets its number in the table, however many writers there are *)
(* and whichever transactions fail: the counter is past every row          *)
(* (db.go:126-136).                                                        *)
THEOREM NumbersFree == Spec => []NoCollision
<1>1. IndexInv => NoCollision
  <2> SUFFICES ASSUME IndexInv, NEW w \in Writers, pc[w] = "insert"
               PROVE  ~NumberTaken(w)
    BY DEF NoCollision
  <2>1. HolderSees(w)
    BY DEF IndexInv, TypeOK
  <2>2. tx.rows = rows /\ issueID[w] = NextNumber(repo[w])
    BY <2>1 DEF HolderSees
  <2>3. \A row \in rows : row.number < NextNumber(row.repo)
    BY DEF IndexInv, Counted
  <2>4. \A row \in rows : row.number \in Nat
    BY DEF IndexInv, TypeOK, Tables, Row
  <2>5. NextNumber(repo[w]) \in Nat
    BY <2>2 DEF IndexInv, TypeOK
  <2> QED
    BY <2>2, <2>3, <2>4, <2>5 DEF NumberTaken
<1> QED
  BY <1>1, IndexHolds, PTL

(* The instance has a copy of Cardinality.                                 *)
LEMMA SameCardinality ==
  \A S : Numbers!Cardinality(S) = Cardinality(S)
BY DEF Numbers!Cardinality, Cardinality

(* A commit is the one step of the abstract numbering; every other step    *)
(* leaves the rows alone (db.go:144-200).                                  *)
THEOREM NumbersGivenInOrder == Spec => NumbersInOrder
<1>1. Init => Numbers!Init
  BY DEF Init, Numbers!Init
<1>2. ASSUME IndexInv, [Next]_vars PROVE [Numbers!Next]_rows
  <2>1. CASE rows' = rows
    BY <2>1
  <2>2. CASE rows' # rows
    <3>1. PICK w \in Writers : Commit(w)
      BY <1>2, <2>2 DEF Next, Statement, Begin, EnsureSeq, AdvanceSeq, InsertIssue,
                        Abort, vars
    <3>2. /\ repo[w] \in Repos /\ issue[w] \in Issues
          /\ rows' = rows \cup {NewRow(w)}
          /\ issueID[w] = Cardinality(Filed(repo[w])) + 1
      BY <1>2, <3>1, CommitRow
    <3>3. \A row \in rows : row.issue # issue[w]
      BY <1>2 DEF IndexInv, OwnIssue
    <3>4. PICK r \in Repos, i \in Issues : r = repo[w] /\ i = issue[w]
      BY <3>2
    <3>5. /\ \A row \in rows : row.issue # i
          /\ rows' = rows \cup
               {[repo   |-> r,
                 number |-> Cardinality({row \in rows : row.repo = r}) + 1,
                 issue  |-> i]}
      BY <3>2, <3>3, <3>4 DEF NewRow, Filed
    <3> QED
      BY <3>5, SameCardinality DEF Numbers!Next
  <2> QED
    BY <2>1, <2>2
<1> QED
  BY <1>1, <1>2, IndexHolds, PTL DEF Spec, NumbersInOrder, Numbers!Spec
=============================================================================
