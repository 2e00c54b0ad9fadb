------------------------------- MODULE Reverse -------------------------------
(***************************************************************************)
(* reverseTangledToGraft (internal/bridge/bridge.go): new comments on the  *)
(* bridge's issues are relayed to Graft as replies.  NewComments and       *)
(* IssueLocation are the appview queries of internal/appviewdb/db.go,      *)
(* Reply the outcomes of ReplyToIssue in internal/graft/client.go.         *)
(***************************************************************************)
EXTENDS BridgeWorld

(* NewComments: rows past the cursor on watched issues, not deleted.       *)
NewComments ==
  {c \in CommentIds :
     /\ c > mem.lastCommentID
     /\ commentOn[c] \in WatchedIssues
     /\ c \notin deleted}

NothingWatched ==
  /\ pc = "read"
  /\ WatchedIssues = {}
  /\ EndPass
  /\ UNCHANGED <<stateVars, worldVars, host>>

ReadComments ==
  /\ pc = "read"
  /\ WatchedIssues # {}
  /\ batch' = NewComments
  /\ maxID' = mem.lastCommentID
  /\ frozen' = FALSE
  /\ sent' = 0
  /\ pc' = "relay"
  /\ UNCHANGED <<stateVars, worldVars, host, fwdVars, cur>>

ReadFails ==
  /\ pc = "read"
  /\ WatchedIssues # {}
  /\ EndPass
  /\ UNCHANGED <<stateVars, worldVars, host>>

-----------------------------------------------------------------------------
(* The loop over the comments, in the order of their ids *)

IsNext(c) == c \in batch /\ \A d \in batch : c <= d

(* Mutants of Advance: the cursor names the next id to read; a failed      *)
(* delivery does not freeze it.                                            *)
AdvancePast(c) == maxID' = IF ~frozen /\ c >= maxID THEN c + 1 ELSE maxID
AdvanceAlways(c) == maxID' = IF c > maxID THEN c ELSE maxID

Advance(c) == maxID' = IF ~frozen /\ c > maxID THEN c ELSE maxID

NoteForIssue(c) == mem.issueToNote[commentOn[c]]

(* Mutant of Skipped: no look at the delivered hashes.                     *)
SkippedUnrouted(c) == c \in OwnComments \/ NoteForIssue(c) = None

(* The bridge's own comments, comments on issues no note is known for and  *)
(* comments relayed before are stepped over.                               *)
Skipped(c) ==
  \/ c \in OwnComments
  \/ NoteForIssue(c) = None
  \/ IsDelivered(c)

LimitReached == Limit > 0 /\ sent >= Limit

(* ParseNoteURI fails for a note of another host than the configured one.  *)
Parses(c) == NoteHost[NoteForIssue(c)] = host

(* Mutant of SkipComment: only a delivery moves the cursor.                *)
SkipCommentInPlace(c) ==
  /\ pc = "relay"
  /\ IsNext(c)
  /\ Skipped(c)
  /\ batch' = batch \ {c}
  /\ UNCHANGED <<stateVars, worldVars, host, pc, fwdVars, cur, maxID, frozen,
                 sent>>

SkipComment(c) ==
  /\ pc = "relay"
  /\ IsNext(c)
  /\ Skipped(c)
  /\ Advance(c)
  /\ batch' = batch \ {c}
  /\ UNCHANGED <<stateVars, worldVars, host, pc, fwdVars, cur, frozen, sent>>

(* `break`: the rest of the batch waits for the next pass.                 *)
StopAtLimit(c) ==
  /\ pc = "relay"
  /\ IsNext(c)
  /\ ~Skipped(c)
  /\ LimitReached
  /\ batch' = {}
  /\ UNCHANGED <<stateVars, worldVars, host, pc, fwdVars, cur, maxID, frozen,
                 sent>>

SkipUnroutable(c) ==
  /\ pc = "relay"
  /\ IsNext(c)
  /\ ~Skipped(c)
  /\ ~LimitReached
  /\ ~Parses(c)
  /\ Advance(c)
  /\ batch' = batch \ {c}
  /\ unroutable' = unroutable \cup {c}
  /\ UNCHANGED <<stateVars, outbox, tangledVars, indexed, rowVars, replies,
                 routed, trackless, host, pc, fwdVars, cur, frozen, sent>>

Attempts(c) ==
  /\ pc = "relay"
  /\ IsNext(c)
  /\ ~Skipped(c)
  /\ ~LimitReached
  /\ Parses(c)

(* commentURL is empty unless the appview knows the issue, has not deleted *)
(* it, and knows its repo.                                                 *)
HasTrackback(c) ==
  /\ WebURL
  /\ commentOn[c] \in indexed \ removed
  /\ NoteSeries[pdsIssues[commentOn[c]]] \in indexed \ removed

(* The faults a lookup of the trackback may meet.                          *)
Lookups == IF WebURL THEN SUBSET {"index"} ELSE {{}}

(* Graft accepts a reply for c in the thread of the note it is linked to;  *)
(* the reply has no trackback if the lookup failed or found nothing.       *)
GraftAccepts(c, failed) ==
  /\ replies' = [replies EXCEPT ![c] = @ + 1]
  /\ routed' = routed \cup {<<c, NoteForIssue(c)>>}
  /\ trackless' = IF HasTrackback(c) /\ "index" \notin failed
                  THEN trackless ELSE trackless \cup {c}
  /\ UNCHANGED <<outbox, tangledVars, indexed, rowVars, unroutable>>

Reply(c) ==
  /\ Attempts(c)
  /\ \E failed \in Lookups : GraftAccepts(c, failed) /\ Strike(failed)
  /\ cur' = c
  /\ batch' = batch \ {c}
  /\ pc' = "mark"
  /\ UNCHANGED <<mem, disk, now, pruned, host, fwdVars, maxID, frozen, sent>>

(* Mutant of ReplyRefused: `break` for `continue`.                         *)
ReplyRefusedBreaks(c) ==
  /\ Attempts(c)
  /\ frozen' = TRUE
  /\ batch' = {}
  /\ UNCHANGED <<stateVars, worldVars, host, pc, fwdVars, cur, maxID, sent>>

(* Mutant of ReplyRefused: the failure is logged and forgotten.            *)
ReplyRefusedMovesOn(c) ==
  /\ Attempts(c)
  /\ Advance(c)
  /\ batch' = batch \ {c}
  /\ UNCHANGED <<stateVars, worldVars, host, pc, fwdVars, cur, frozen, sent>>

(* The actor could not be fetched, its inbox was refused, the post failed  *)
(* or was answered with an error status.                                   *)
ReplyRefused(c) ==
  /\ Attempts(c)
  /\ frozen' = TRUE
  /\ batch' = batch \ {c}
  /\ UNCHANGED <<stateVars, worldVars, host, pc, fwdVars, cur, maxID, sent>>

(* Graft took the reply, but the post timed out or its answer was lost.    *)
ReplyAnswerLost(c) ==
  /\ Attempts(c)
  /\ \E failed \in Lookups :
       GraftAccepts(c, failed) /\ Strike(failed \cup {"lost"})
  /\ frozen' = TRUE
  /\ batch' = batch \ {c}
  /\ UNCHANGED <<mem, disk, now, pruned, host, pc, fwdVars, cur, maxID, sent>>

MarkDelivered ==
  /\ pc = "mark"
  /\ SaveOK(WithDelivered(mem, cur))
  /\ Advance(cur)
  /\ sent' = sent + 1
  /\ cur' = None
  /\ pc' = "relay"
  /\ UNCHANGED <<worldVars, host, fwdVars, batch, frozen>>

(* The pass ends in an error; the cursor stays where it was.               *)
MarkDeliveredFails ==
  /\ pc = "mark"
  /\ SaveFails(WithDelivered(mem, cur))
  /\ EndPass
  /\ UNCHANGED <<worldVars, host>>

-----------------------------------------------------------------------------
(* After the loop *)

CursorStays ==
  /\ pc = "relay"
  /\ batch = {}
  /\ maxID <= mem.lastCommentID
  /\ EndPass
  /\ UNCHANGED <<stateVars, worldVars, host>>

SetCommentCursor ==
  /\ pc = "relay"
  /\ batch = {}
  /\ maxID > mem.lastCommentID
  /\ SaveOK(WithCursor(mem, maxID))
  /\ EndPass
  /\ UNCHANGED <<worldVars, host>>

SetCommentCursorFails ==
  /\ pc = "relay"
  /\ batch = {}
  /\ maxID > mem.lastCommentID
  /\ SaveFails(WithCursor(mem, maxID))
  /\ EndPass
  /\ UNCHANGED <<worldVars, host>>

RelayComment(c) ==
  \/ SkipComment(c) \/ StopAtLimit(c) \/ SkipUnroutable(c)
  \/ Reply(c) \/ ReplyRefused(c) \/ ReplyAnswerLost(c)

ReverseStep ==
  \/ NothingWatched \/ ReadComments \/ ReadFails
  \/ \E c \in CommentIds : RelayComment(c)
  \/ MarkDelivered \/ MarkDeliveredFails
  \/ CursorStays \/ SetCommentCursor \/ SetCommentCursorFails
=============================================================================
