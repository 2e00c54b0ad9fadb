------------------------------- MODULE Bridge -------------------------------
(***************************************************************************)
(* The bridge process (cmd/bridge/main.go) running reconciliation passes   *)
(* (RunOnce, internal/bridge/bridge.go) between a world that moves by      *)
(* itself and a state file that survives it.                               *)
(***************************************************************************)
EXTENDS Forward, Reverse

CONSTANT Poison  \* comments Graft may refuse for ever (liveness only)

Init ==
  /\ StateInit(Provisioned)
  /\ WorldInit
  /\ pc = "idle"

(* The poll interval has passed: RunOnce begins with the forward mirror.   *)
StartPass ==
  /\ pc = "idle"
  /\ pc' = "outbox"
  /\ UNCHANGED <<stateVars, worldVars, host, fwdVars, revVars>>

(* The process dies, or is stopped and exits, at any point of a pass or    *)
(* between passes.                                                         *)
Crash ==
  /\ pc # "down"
  /\ Fault("crash")
  /\ pc' = "down"
  /\ ResetFwd
  /\ ResetRev
  /\ UNCHANGED <<mem, disk, now, pruned, worldVars, host>>

(* A new process loads the state file; its config may name another host.   *)
Restart ==
  /\ pc = "down"
  /\ Load
  /\ host' \in Hosts
  /\ pc' = "idle"
  /\ UNCHANGED <<disk, now, faults, pruned, worldVars, fwdVars, revVars>>

RunOnce == StartPass \/ ForwardStep \/ ReverseStep

Environment ==
  \/ World /\ UNCHANGED <<stateVars, host, pc, fwdVars, revVars>>
  \/ Tick /\ UNCHANGED <<mem, disk, faults, pruned, worldVars, host, pc,
                         fwdVars, revVars>>

Next ==
  \/ RunOnce
  \/ Crash
  \/ Restart
  \/ Environment

Spec == Init /\ [][Next]_vars

(***************************************************************************)
(* The process keeps taking steps and is restarted when it is down.  A     *)
(* remote service that is asked again and again answers again and again;   *)
(* only the comments of Poison may be refused for ever.                    *)
(***************************************************************************)
Fairness ==
  /\ WF_vars(RunOnce)
  /\ WF_vars(Restart)
  /\ SF_vars(FetchOutbox)
  /\ SF_vars(KnotCreates)
  /\ SF_vars(Announce)
  /\ SF_vars(ReadComments)
  /\ \A n \in Notes : SF_vars(CreateIssue(n))
  /\ \A c \in CommentIds \ Poison : SF_vars(Reply(c))

FairSpec == Spec /\ Fairness

-----------------------------------------------------------------------------
(* Which locals of a pass each program point leaves set, and that cursors  *)
(* name rows that can exist.                                               *)
LocalsOK ==
  /\ mem.lastCommentID <= MaxComments
  /\ disk.lastCommentID <= MaxComments
  /\ maxID <= MaxComments
  /\ pc \in {"ensure", "announce", "indexRepo", "setRepo", "notes",
             "indexIssue", "link", "seen"} => si \in DOMAIN SeriesList
  /\ pc \in {"indexIssue", "link", "seen"} => note \in Notes /\ issue \in URIs
  /\ pc = "mark" => cur \in CommentIds /\ commentOn[cur] # None
  /\ \A c \in batch : commentOn[c] # None

(* Types of the state record and of the world, and the locals of a pass    *)
(* (internal/state/state.go, internal/bridge/bridge.go).                   *)
TypeOK == StateTypeOK /\ WorldTypeOK /\ LocalsOK

(* A comment the bridge owes a relay: written by somebody else, still      *)
(* there, on an issue a State value s links to a note.                     *)
Owed(c, s) ==
  /\ commentOn[c] # None
  /\ s.issueToNote[commentOn[c]] # None
  /\ c \notin OwnComments
  /\ c \notin deleted

(* The cursor "only moves past comments that are fully dealt with"         *)
(* (bridge.go:169): every owed comment at or below the cursor, in memory   *)
(* or in the file a crash would fall back to, has reached Graft, or was    *)
(* stepped over because its note is on a host no longer configured.        *)
NoCommentLost ==
  \A s \in {mem, disk} : \A c \in CommentIds :
    Owed(c, s) /\ c <= s.lastCommentID => replies[c] > 0 \/ c \in unroutable

(* Duplicates are paid for: Graft gets a second reply for a comment only   *)
(* after a crash, a lost answer or the expiry of dedup entries, one each   *)
(* (the delivered hash of bridge.go:194-198 and 213-217).                  *)
RepliesAccounted ==
  \A c \in CommentIds :
    replies[c] <= 1 + faults["crash"] + faults["lost"] + pruned

(* How many issue records on the PDS mirror note n.                        *)
Copies(n) == Cardinality({i \in Issues : pdsIssues[i] = n})

(* A note gets a second Tangled issue only after a crash, a lost answer,   *)
(* a failed save or the expiry of dedup entries (bridge.go:127-149).       *)
IssuesAccounted ==
  \A n \in Notes :
    Copies(n) <= 1 + faults["crash"] + faults["lost"] + faults["save"] + pruned

(* A reply lands in the thread of the note its comment's issue was made    *)
(* from, whatever was relinked, restarted or mirrored twice in between.    *)
RoutedHome ==
  \A r \in routed : pdsIssues[commentOn[r[1]]] = r[2]

(* Record s links a real issue made from note n back to n, so that its     *)
(* comments are watched and find the note's thread.  A note whose issue    *)
(* came back without a URI is linked to the empty one instead.             *)
Linked(s, n) ==
  \/ \E i \in Issues : pdsIssues[i] = n /\ s.issueToNote[i] = n
  \/ s.issueByNote[n] = NoURI /\ faults["blank"] > 0

(* A note that counts as mirrored, and so is left alone, has an issue whose*)
(* comments travel back to it, in memory and in the file alike, whatever   *)
(* save failed in between (bridge.go:144-149).  A blank answer to          *)
(* createRecord is the exception.                                          *)
SeenIsLinked ==
  \A s \in {mem, disk} : \A n \in Notes :
    s.seenNotes[n] # None => Linked(s, n)

(* IssueToNote is the reverse of IssueByNote (state.go:39-41): the issue a *)
(* note is mirrored to leads back to that note.                            *)
LinksInvert ==
  \A s \in {mem, disk} : \A n \in Notes :
    s.issueByNote[n] # None => s.issueToNote[s.issueByNote[n]] = n

(* A recorded repo exists on its knot and is announced on the PDS, and of  *)
(* several series of one knot whose names sanitize to one record key only  *)
(* one is ever recorded: none takes the repo or the announcement of        *)
(* another (bridge.go:78-96, client.go:214-218).  Only a series of another *)
(* knot may overwrite the announcement.                                    *)
ReposAnnounced ==
  \A s \in {mem, disk} : \A x \in s.repos :
    LET y == pdsRepos[Rkey[x]] IN
    /\ Slot(x) \in knotRepos
    /\ y \in Series /\ Rkey[y] = Rkey[x] /\ (y = x \/ Knot[y] # Knot[x])

(* A reply goes out without a trackback link only if the appview's         *)
(* database failed an insert or a lookup, or somebody deleted the issue    *)
(* (db.go:180) or the repo: whatever is watched was indexed, its repo too  *)
(* (bridge.go:90-92, 141-143, 287-300).  A repo whose row clashes with     *)
(* that of another series, in its record key or in an empty AT-URI, is the *)
(* exception (db.go:117).                                                  *)
TracklessExplained ==
  \A c \in trackless :
    LET s == NoteSeries[pdsIssues[commentOn[c]]] IN
      \/ ~WebURL
      \/ faults["index"] > 0
      \/ removed \cap {commentOn[c], s} # {}
      \/ faults["unnamed"] > 1
      \/ \E t \in Series : t # s /\ Rkey[t] = Rkey[s]

(* Comments read again behind a frozen cursor are, when relayed already,   *)
(* "skipped by their delivered hash, never sent twice" (bridge.go:170-174).*)
NeverSentTwice == \A c \in CommentIds : replies[c] <= 1

-----------------------------------------------------------------------------
(* Record s has everything that must last of record r.                     *)
Continues(r, s) ==
  /\ r.lastCommentID <= s.lastCommentID
  /\ r.repos \subseteq s.repos
  /\ \A u \in Issues :
       r.issueToNote[u] # None => s.issueToNote[u] = r.issueToNote[u]

(* What a restart can fall back to only grows: the cursor in the state     *)
(* file never moves back, no repo in it is forgotten and no link lost or   *)
(* redirected, whatever saves fail and whichever process writes.           *)
DurableProgress == [][Continues(disk, disk')]_vars

-----------------------------------------------------------------------------
(* The relay as its readers see it: a comment on an issue whose link is in *)
(* the state file is owed to Graft, the cursor of that file crosses off.   *)
Relay == INSTANCE AtLeastOnce WITH
  Items   <- CommentIds,
  owed    <- {c \in CommentIds \ OwnComments :
                /\ commentOn[c] # None
                /\ disk.issueToNote[commentOn[c]] # None},
  settled <- 1..disk.lastCommentID,
  sent    <- replies,
  excused <- deleted \cup unroutable

(* The bridge relays at least once: through crashes, restarts and failed   *)
(* saves no owed comment is crossed off before it reached Graft, and none  *)
(* is sent again after the file has its cursor (bridge.go:168-174).        *)
RelaysAtLeastOnce == Relay!Spec

-----------------------------------------------------------------------------
(* A note that stays in its outbox is mirrored: in the end one of its      *)
(* issues is linked for good.  It counts as seen again and again, not for  *)
(* good: prune forgets what it saw 180 days ago (state.go:101-110), and    *)
(* the note is then mirrored once more.  (In memory: after a failed save   *)
(* the file may stay behind until the next mutator saves.)                 *)
MirroredEventually ==
  \A n \in Replyable :
    <>[](n \in outbox) =>
      <>[]Linked(mem, n) /\ []<>(mem.seenNotes[n] # None)

(* A comment on a watched issue is relayed, also when another comment of   *)
(* the batch is refused on every pass and the limit is one delivery.       *)
RelayedEventually ==
  \A c \in CommentIds \ (Poison \cup OwnComments) :
    commentOn[c] \in WatchedIssues ~>
      \/ replies[c] > 0
      \/ c \in deleted
      \/ commentOn[c] \notin WatchedIssues

(* Nothing at or below comment c waits for anything any more.              *)
Settled(c) ==
  /\ IsDelivered(c) /\ c \notin deleted
  /\ \A d \in 1..c : Owed(d, mem) => IsDelivered(d)

(* The cursor gets past every comment that is settled: neither comments    *)
(* relayed out of order while it was frozen nor a crash or a failed save   *)
(* keep later passes rereading them for good.                              *)
CursorCatchesUp ==
  \A c \in CommentIds : <>[]Settled(c) => <>(mem.lastCommentID >= c)

(* Every configured series gets its Tangled repo (bridge.go:112-116).      *)
RepoEventually == \A s \in Series : <>(s \in mem.repos)
=============================================================================
