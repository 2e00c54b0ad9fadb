----------------------------- MODULE AtLeastOnce -----------------------------
(***************************************************************************)
(* What the relay of comments promises, without passes, batches or files:  *)
(* a comment that is owed to Graft is crossed off for good only after it   *)
(* was sent or excused, and nothing is sent any more once it is crossed    *)
(* off.  In between it may be sent more than once.  (What is not yet known *)
(* for good to be owed may be sent too.)                                   *)
(***************************************************************************)
EXTENDS Naturals

CONSTANT Items   \* what may have to be relayed

VARIABLES
  owed,      \* the items somebody else's reader waits for
  settled,   \* the items that are crossed off, whatever crashes from now on
  sent,      \* how often each item was sent
  excused    \* the items that need not be sent any more

vars == <<owed, settled, sent, excused>>

Init ==
  /\ owed = {}
  /\ settled = {}
  /\ sent = [c \in Items |-> 0]
  /\ excused = {}

(* New items become owed, and items are crossed off.  No item becomes owed *)
(* that is crossed off already, and none that is owed is crossed off       *)
(* before it was sent or excused.                                          *)
Settle ==
  /\ owed \subseteq owed' /\ owed' \subseteq Items
  /\ settled \subseteq settled' /\ settled' \subseteq Items
  /\ (owed' \ owed) \cap settled = {}
  /\ \A c \in owed' \cap settled' : sent[c] > 0 \/ c \in excused
  /\ UNCHANGED <<sent, excused>>

Send(c) ==
  /\ c \notin settled
  /\ sent' = [sent EXCEPT ![c] = @ + 1]
  /\ UNCHANGED <<owed, settled, excused>>

Excuse(c) ==
  /\ c \notin excused
  /\ excused' = excused \cup {c}
  /\ UNCHANGED <<owed, settled, sent>>

Next == Settle \/ \E c \in Items : Send(c) \/ Excuse(c)

Spec == Init /\ [][Next]_vars
=============================================================================
