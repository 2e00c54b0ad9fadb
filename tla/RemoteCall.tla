----------------------------- MODULE RemoteCall -----------------------------
(***************************************************************************)
(* What the caller of a remote operation may build on: the operation makes *)
(* a prefix of its writes, each once and in their order, and only one that *)
(* made all of them reports success.  One that reports an error may have   *)
(* made any number of them.                                                *)
(***************************************************************************)
EXTENDS Naturals, Sequences

CONSTANT Plan   \* the writes of each operation, in order

VARIABLES
  op,       \* the operation called last
  done,     \* the writes it made so far
  status    \* "running", "ok" or "error"

vars == <<op, done, status>>

Init == op \in DOMAIN Plan /\ done = <<>> /\ status = "error"

Call(o) ==
  /\ status # "running"
  /\ op' = o
  /\ done' = <<>>
  /\ status' = "running"

Write ==
  /\ Len(done) < Len(Plan[op])
  /\ done' = Append(done, Plan[op][Len(done) + 1])

(* A step of a running operation: it makes its next write or none, and     *)
(* goes on or returns.                                                     *)
Work ==
  /\ status = "running"
  /\ Write \/ UNCHANGED done
  /\ status' \in {"running", "ok", "error"}
  /\ status' = "ok" => done' = Plan[op]
  /\ UNCHANGED op

Next == Work \/ \E o \in DOMAIN Plan : Call(o)

Spec == Init /\ [][Next]_vars
=============================================================================
