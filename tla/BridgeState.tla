----------------------------- MODULE BridgeState -----------------------------
(***************************************************************************)
(* The bridge's durable bookkeeping (internal/state/state.go): one record  *)
(* of maps kept in memory and written whole to a JSON file by every        *)
(* mutator.  A Go map is a total function here, None standing for a        *)
(* missing key.  The mutex is not modelled: RunOnce is the only caller.    *)
(* The actor's key pair, which no synchronisation step touches, and the    *)
(* steps inside a save are in StateFile.                                   *)
(***************************************************************************)
EXTENDS Integers

CONSTANTS
  SeriesList,    \* the configured series, in the order of the config file
  Notes,         \* Graft note URIs
  Issues,        \* AT-URIs the PDS can mint for issue records
  NoURI,         \* the empty string where an AT-URI is expected
  None,          \* a missing map entry
  MaxComments,   \* bound: rows of the appview's comments table
  Retention,     \* dedupRetention, in clock ticks
  MaxTime,       \* bound: the last clock tick
  MaxFaults      \* bound: how often each kind of fault may strike

Series == {SeriesList[k] : k \in DOMAIN SeriesList}
CommentIds == 1..MaxComments
URIs == Issues \cup {NoURI}

(***************************************************************************)
(* Faults that are counted, because a bound or a property speaks of their  *)
(* number.  A remote call that fails without any effect is not counted:    *)
(* it may happen any number of times.                                      *)
(*   save   a write of the state file fails                                *)
(*   crash  the process dies                                               *)
(*   lost   a remote call takes effect but its caller sees an error        *)
(*   blank  createRecord succeeds with an empty response body              *)
(*   unnamed  so does putRecord                                            *)
(*   index  an insert or a trackback lookup in the appview database fails *)
(***************************************************************************)
FaultKinds == {"save", "crash", "lost", "blank", "unnamed", "index"}

ASSUME StateAssumption ==
  /\ None \notin Nat \cup Notes \cup URIs \cup Series
  /\ NoURI \notin Issues
  /\ MaxComments \in Nat
  /\ Retention \in Nat
  /\ MaxTime \in Nat
  /\ MaxFaults \in [FaultKinds -> Nat]

VARIABLES
  mem,     \* the State value in memory
  disk,    \* the last State value that reached the state file
  now,     \* time.Now().Unix(), in ticks
  faults,  \* how often each kind of fault struck so far
  pruned   \* how many saves forgot at least one dedup entry

State ==
  [ repos         : SUBSET Series,
    issueByNote   : [Notes -> URIs \cup {None}],
    issueToNote   : [URIs -> Notes \cup {None}],
    lastCommentID : Nat,
    delivered     : [CommentIds -> Nat \cup {None}],
    seenNotes     : [Notes -> Nat \cup {None}] ]

(* The faults of the set kinds strike together.                            *)
Strike(kinds) ==
  /\ \A k \in kinds : faults[k] < MaxFaults[k]
  /\ faults' = [k \in FaultKinds |-> IF k \in kinds THEN faults[k] + 1
                                                   ELSE faults[k]]

Fault(k) == Strike({k})

-----------------------------------------------------------------------------
(* Saving *)

Stale(ts) == ts # None /\ ts < now - Retention

Fresh(entries) ==
  [k \in DOMAIN entries |-> IF Stale(entries[k]) THEN None ELSE entries[k]]

(* prune drops dedup entries older than the retention window.              *)
Prune(s) == [s EXCEPT !.delivered = Fresh(@), !.seenNotes = Fresh(@)]

(* Every mutator ends in saveLocked, which prunes the maps in memory       *)
(* before it writes them.  The file is replaced by a rename, so a failed   *)
(* save leaves the old one, while memory keeps what the mutator put there. *)
SaveInMemory(s) ==
  /\ mem' = Prune(s)
  /\ pruned' = IF Prune(s) = s THEN pruned ELSE pruned + 1

SaveOK(s) ==
  /\ SaveInMemory(s)
  /\ disk' = Prune(s)
  /\ UNCHANGED <<now, faults>>

SaveFails(s) ==
  /\ SaveInMemory(s)
  /\ Fault("save")
  /\ UNCHANGED <<disk, now>>

-----------------------------------------------------------------------------
(* What each mutator puts in memory before it saves *)

Stamped(entries, k) == [entries EXCEPT ![k] = now]

WithRepo(s, series) == [s EXCEPT !.repos = @ \cup {series}]

(* Mutant of WithLink: the map the relay reads is not filled.              *)
WithLinkThere(s, note, issue) == [s EXCEPT !.issueByNote[note] = issue]

WithLink(s, note, issue) ==
  [s EXCEPT !.issueByNote[note] = issue, !.issueToNote[issue] = note]

WithSeen(s, note) == [s EXCEPT !.seenNotes = Stamped(@, note)]

WithDelivered(s, c) == [s EXCEPT !.delivered = Stamped(@, c)]

WithCursor(s, id) == [s EXCEPT !.lastCommentID = id]

(* Queries *)

(* Mutants of SeenNote and IsDelivered: an entry expires when it is looked *)
(* up, not when a save prunes it.                                          *)
SeenNoteRecently(n) == mem.seenNotes[n] # None /\ ~Stale(mem.seenNotes[n])
IsDeliveredRecently(c) == mem.delivered[c] # None /\ ~Stale(mem.delivered[c])

SeenNote(n) == mem.seenNotes[n] # None
IsDelivered(c) == mem.delivered[c] # None
WatchedIssues == {u \in URIs : mem.issueToNote[u] # None}

-----------------------------------------------------------------------------
(* The record Load makes of an absent file, with the repos an earlier run  *)
(* of the bridge already recorded.                                         *)
EmptyState(repos) ==
  [ repos         |-> repos,
    issueByNote   |-> [n \in Notes |-> None],
    issueToNote   |-> [u \in URIs |-> None],
    lastCommentID |-> 0,
    delivered     |-> [c \in CommentIds |-> None],
    seenNotes     |-> [n \in Notes |-> None] ]

StateInit(repos) ==
  /\ mem = EmptyState(repos)
  /\ disk = EmptyState(repos)
  /\ now = 0
  /\ faults = [k \in FaultKinds |-> 0]
  /\ pruned = 0

(* Mutant of Load: the field of the cursor is not read back.               *)
LoadWithoutCursor == mem' = [disk EXCEPT !.lastCommentID = 0]

(* Load: a started process has in memory what the file holds.              *)
Load == mem' = disk

(* The wall clock moves on at any moment.                                  *)
Tick ==
  /\ now < MaxTime
  /\ now' = now + 1

StateTypeOK ==
  /\ mem \in State
  /\ disk \in State
  /\ now \in Nat
  /\ faults \in [FaultKinds -> Nat]
  /\ pruned \in Nat
=============================================================================
