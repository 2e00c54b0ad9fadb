----------------------------- MODULE BridgeWorld -----------------------------
(***************************************************************************)
(* What the bridge talks to: a Graft host, the account's PDS and the       *)
(* knots, and the appview's database.  None of them is part of the         *)
(* repository; each is modelled from how the bridge uses it.  The module   *)
(* also declares where one reconciliation pass (internal/bridge/bridge.go) *)
(* stands, which the two directions of the mirror share.                   *)
(***************************************************************************)
EXTENDS BridgeState, FiniteSets

CONSTANTS
  NoteSeries,   \* the series a note's URI names
  NoteHost,     \* the host a note's URI names
  Replyable,    \* notes of kind "issue" or "patch"
  Hosts,        \* Graft hosts the config file may name
  Knot,         \* the knot a series is configured on
  Rkey,         \* sanitizeRkey of a series' name
  Provisioned,  \* series whose repo an earlier run of the bridge recorded
  OwnComments,  \* comments the bridge's own account wrote
  Deletable,    \* bound: issues and series whose rows others may remove
  WebURL,       \* is a web UI base URL configured?
  Limit         \* MaxDeliveriesPerPass, 0 for no limit

(* Tangled keeps one repo per (account, knot, name).                       *)
Slot(s) == <<Knot[s], Rkey[s]>>
Rkeys == {Rkey[s] : s \in Series}

ASSUME WorldAssumption ==
  /\ NoteSeries \in [Notes -> Series]
  /\ NoteHost \in [Notes -> Hosts]
  /\ Replyable \subseteq Notes
  /\ Provisioned \subseteq Series
  /\ \A s, t \in Provisioned : Rkey[s] = Rkey[t] => s = t
  /\ OwnComments \subseteq CommentIds
  /\ Deletable \subseteq Issues \cup Series
  /\ WebURL \in BOOLEAN
  /\ Limit \in Nat

VARIABLES
  \* --- Graft
  outbox,      \* the notes the series' outboxes list
  \* --- Tangled: knots and PDS
  knotRepos,   \* repos that exist on a knot, by slot
  pdsRepos,    \* sh.tangled.repo records, by record key: the series written
  pdsIssues,   \* sh.tangled.repo.issue records: the note each was made from
  \* --- the appview's database
  indexed,     \* rows the bridge inserted into repos and issues
  removed,     \* of these, the ones others soft-deleted or took out again
  commentOn,   \* the comments table: the issue each row's subject is, or None
  deleted,     \* comment rows that are soft-deleted
  \* --- history: what Graft received
  replies,     \* how many replies Graft accepted, per comment
  routed,      \* <<comment, note>>: a reply for comment reached note's thread
  trackless,   \* comments relayed at least once without a trackback link
  unroutable,  \* comments passed over because their note is on another host
  \* --- the process
  host,        \* GraftHost of the running process
  pc,          \* where the process stands
  si,          \* forward: index of the series at hand
  todo,        \* forward: notes of that series still to be looked at
  note,        \* forward: the note being mirrored
  issue,       \* forward: the issue just created for it; in ensureRepo NoURI
               \* when the repo was announced without a URI
  batch,       \* reverse: comments NewComments returned, still to be looked at
  cur,         \* reverse: the comment just delivered
  maxID,       \* reverse: where the cursor will move to
  frozen,      \* reverse: has a delivery of this pass failed?
  sent         \* reverse: deliveries of this pass

stateVars   == <<mem, disk, now, faults, pruned>>
tangledVars == <<knotRepos, pdsRepos, pdsIssues>>
rowVars     == <<commentOn, deleted, removed>>
ledgerVars  == <<replies, routed, trackless, unroutable>>
fwdVars     == <<si, todo, note, issue>>
revVars     == <<batch, cur, maxID, frozen, sent>>
worldVars   == <<outbox, tangledVars, indexed, rowVars, ledgerVars>>
vars        == <<stateVars, worldVars, host, pc, fwdVars, revVars>>

PassPoints ==
  {"outbox", "ensure", "announce", "indexRepo", "setRepo",
   "notes", "indexIssue", "link", "seen",
   "read", "relay", "mark"}

WorldTypeOK ==
  /\ outbox \subseteq Notes
  /\ knotRepos \subseteq {Slot(s) : s \in Series}
  /\ pdsRepos \in [Rkeys -> Series \cup {None}]
  /\ pdsIssues \in [Issues -> Notes \cup {None}]
  /\ indexed \subseteq Series \cup URIs
  /\ removed \subseteq Series \cup Issues
  /\ commentOn \in [CommentIds -> Issues \cup {None}]
  /\ deleted \subseteq CommentIds
  /\ replies \in [CommentIds -> Nat]
  /\ routed \subseteq CommentIds \X Notes
  /\ trackless \subseteq CommentIds
  /\ unroutable \subseteq CommentIds
  /\ host \in Hosts
  /\ pc \in PassPoints \cup {"down", "idle"}
  /\ si \in Nat
  /\ todo \subseteq Notes
  /\ note \in Notes \cup {None}
  /\ issue \in URIs \cup {None}
  /\ batch \subseteq CommentIds
  /\ cur \in CommentIds \cup {None}
  /\ maxID \in Nat
  /\ frozen \in BOOLEAN
  /\ sent \in Nat

(***************************************************************************)
(* The locals of a pass before it begins; a pass ends, and a process dies, *)
(* by forgetting them.                                                     *)
(***************************************************************************)
FwdIdle == si = 1 /\ todo = {} /\ note = None /\ issue = None
RevIdle == batch = {} /\ cur = None /\ maxID = 0 /\ frozen = FALSE /\ sent = 0

ResetFwd == si' = 1 /\ todo' = {} /\ note' = None /\ issue' = None
ResetRev ==
  batch' = {} /\ cur' = None /\ maxID' = 0 /\ frozen' = FALSE /\ sent' = 0

EndPass ==
  /\ pc' = "idle"
  /\ ResetFwd
  /\ ResetRev

WorldInit ==
  /\ outbox = {}
  /\ knotRepos = {Slot(s) : s \in Provisioned}
  /\ pdsRepos = [r \in Rkeys |->
       IF \E s \in Provisioned : Rkey[s] = r
       THEN CHOOSE s \in Provisioned : Rkey[s] = r
       ELSE None]
  /\ pdsIssues = [i \in Issues |-> None]
  /\ indexed = Provisioned
  /\ removed = {}
  /\ commentOn = [c \in CommentIds |-> None]
  /\ deleted = {}
  /\ replies = [c \in CommentIds |-> 0]
  /\ routed = {}
  /\ trackless = {}
  /\ unroutable = {}
  /\ host \in Hosts
  /\ FwdIdle
  /\ RevIdle

-----------------------------------------------------------------------------
(* External: the rest of the world moves at any moment *)

(* Graft publishes a note in its series' outbox.                           *)
Publish(n) ==
  /\ n \notin outbox
  /\ outbox' = outbox \cup {n}
  /\ UNCHANGED <<tangledVars, indexed, rowVars, ledgerVars>>

(* A note drops out of the recent activity an outbox lists.                *)
Retire(n) ==
  /\ n \in outbox
  /\ outbox' = outbox \ {n}
  /\ UNCHANGED <<tangledVars, indexed, rowVars, ledgerVars>>

(* Somebody comments on an issue the bridge created; the appview's         *)
(* firehose consumer appends the row, whose id is the next one.            *)
PostComment(c, i) ==
  /\ commentOn[c] = None
  /\ \A d \in CommentIds : d < c => commentOn[d] # None
  /\ pdsIssues[i] # None
  /\ commentOn' = [commentOn EXCEPT ![c] = i]
  /\ UNCHANGED <<outbox, tangledVars, indexed, deleted, removed, ledgerVars>>

(* An author deletes a comment: the appview sets its deleted column.       *)
DeleteComment(c) ==
  /\ commentOn[c] # None
  /\ c \notin deleted
  /\ deleted' = deleted \cup {c}
  /\ UNCHANGED <<outbox, tangledVars, indexed, commentOn, removed, ledgerVars>>

(* Somebody deletes an issue, whose row stays with its deleted column set, *)
(* or a repo, whose row goes.  Neither comes back.                         *)
DeleteRow(x) ==
  /\ x \in (Deletable \cap indexed) \ removed
  /\ removed' = removed \cup {x}
  /\ UNCHANGED <<outbox, tangledVars, indexed, commentOn, deleted, ledgerVars>>

World ==
  \/ \E n \in Notes : Publish(n) \/ Retire(n)
  \/ \E c \in CommentIds, i \in Issues : PostComment(c, i)
  \/ \E c \in CommentIds : DeleteComment(c)
  \/ \E x \in Deletable : DeleteRow(x)
=============================================================================
