---------------------------- MODULE IssueNumbers ----------------------------
(***************************************************************************)
(* The numbering of issues that a repo's readers see: each issue that is   *)
(* filed gets the next number of its repo, at once and for good.           *)
(***************************************************************************)
EXTENDS Naturals, FiniteSets

CONSTANTS Repos, Issues

VARIABLE filed   \* rows [repo, number, issue]

Init == filed = {}

Next ==
  \E r \in Repos, i \in Issues :
    /\ \A row \in filed : row.issue # i
    /\ filed' = filed \cup
         {[repo   |-> r,
           number |-> Cardinality({row \in filed : row.repo = r}) + 1,
           issue  |-> i]}

Spec == Init /\ [][Next]_filed
=============================================================================
