----------------------------- MODULE RelayProofs -----------------------------
(***************************************************************************)
(* No comment is lost, and the bridge implements AtLeastOnce, for every    *)
(* value of the constants.                                                 *)
(*                                                                         *)
(* NoCommentLost is not inductive: that the cursor may move to maxID is    *)
(* known only from what the pass did before.  The invariant below says     *)
(* what a pass owes at each of its points.                                 *)
(***************************************************************************)
EXTENDS RecordProofs

(* Comment c has been dealt with.                                          *)
Done(c) == replies[c] > 0 \/ c \in unroutable

(* Rows are allocated in the order of their ids, so a row added later has  *)
(* a greater id than any cursor and than any row read before.              *)
IdsInOrder ==
  \A c, d \in CommentIds : commentOn[c] # None /\ d < c => commentOn[d] # None

CursorsBehind ==
  \A c \in CommentIds :
    c <= mem.lastCommentID \/ c <= disk.lastCommentID \/ c <= maxID
      => commentOn[c] # None

(* Comments are on issues that exist; those on the issue being mirrored    *)
(* are past the cursor, for the issue is younger than the last read.       *)
CommentsOnIssues ==
  \A c \in CommentIds : commentOn[c] # None => pdsIssues[commentOn[c]] # None

FreshIssue ==
  pc \in {"indexIssue", "link"} =>
    \A c \in CommentIds : commentOn[c] = issue => c > mem.lastCommentID

(* A dedup entry is made for a reply that was sent.                        *)
DeliveredSent ==
  /\ \A c \in CommentIds :
       mem.delivered[c] # None \/ disk.delivered[c] # None => replies[c] > 0
  /\ pc = "mark" => replies[cur] > 0

(* What is still to be done is either in the batch or newer than all of it *)
(* as long as no delivery failed, and never at or below maxID.             *)
PassDone ==
  pc \in {"relay", "mark"} =>
    \A c \in CommentIds : Owed(c, mem) /\ c <= maxID => Done(c)

BatchComplete ==
  pc \in {"relay", "mark"} /\ frozen = FALSE =>
    \A c \in CommentIds :
      Owed(c, mem) /\ ~Done(c) => c \in batch \/ \A b \in batch : b < c

MarkNext ==
  pc = "mark" /\ frozen = FALSE =>
    \A c \in CommentIds : Owed(c, mem) /\ ~Done(c) => cur < c

RelayInv ==
  /\ IdsInOrder
  /\ CursorsBehind
  /\ CommentsOnIssues
  /\ FreshIssue
  /\ DeliveredSent
  /\ PassDone
  /\ BatchComplete
  /\ MarkNext
  /\ NoCommentLost

-----------------------------------------------------------------------------
(* The initial states satisfy it: there is no comment.                     *)
LEMMA RelayInit == Init => RelayInv
<1> SUFFICES ASSUME Init PROVE RelayInv
  OBVIOUS
<1>1. /\ \A c \in CommentIds : commentOn[c] = None
      /\ pc = "idle" /\ maxID = 0
      /\ mem = EmptyState(Provisioned) /\ disk = EmptyState(Provisioned)
  BY DEF Init, StateInit, WorldInit, RevIdle
<1>2. /\ mem.lastCommentID = 0 /\ disk.lastCommentID = 0
      /\ \A c \in CommentIds : mem.delivered[c] = None /\ disk.delivered[c] = None
  BY <1>1 DEF EmptyState
<1>3. \A c \in CommentIds : c > 0
  BY StateAssumption DEF CommentIds
<1>4. IdsInOrder /\ CommentsOnIssues /\ FreshIssue /\ DeliveredSent
      /\ PassDone /\ BatchComplete /\ MarkNext
  BY <1>1, <1>2 DEF IdsInOrder, CommentsOnIssues, FreshIssue, DeliveredSent,
                    PassDone, BatchComplete, MarkNext
<1>5. CursorsBehind
  BY <1>1, <1>2, <1>3 DEF CursorsBehind, CommentIds
<1>6. NoCommentLost
  BY <1>1 DEF NoCommentLost, Owed
<1>7. QED BY <1>4, <1>5, <1>6 DEF RelayInv

(* A step that leaves comments and replies alone, keeps the links and the  *)
(* cursor in memory and does not lead into the reverse mirror's loop or to *)
(* a fresh issue preserves it, whether or not it saves.                    *)
LEMMA RelayKept ==
  ASSUME TypeOK, RelayInv,
         UNCHANGED <<commentOn, deleted, replies, unroutable, pdsIssues>>,
         mem'.issueToNote = mem.issueToNote,
         mem'.lastCommentID = mem.lastCommentID,
         \A c \in CommentIds : mem'.delivered[c] # None => replies[c] > 0,
         disk' = mem' \/ disk' = disk,
         maxID' \in {0, maxID},
         pc' \notin {"relay", "mark", "indexIssue", "link"}
  PROVE  RelayInv'
<1>1. \A c \in CommentIds : c > 0 /\ c \in Nat
  BY StateAssumption DEF CommentIds
<1>2. IdsInOrder' /\ CommentsOnIssues' /\ FreshIssue' /\ PassDone'
      /\ BatchComplete' /\ MarkNext'
  BY DEF RelayInv, IdsInOrder, CommentsOnIssues, FreshIssue, PassDone,
         BatchComplete, MarkNext
<1>3. CursorsBehind'
  BY <1>1 DEF RelayInv, CursorsBehind
<1>4. DeliveredSent'
  BY DEF RelayInv, DeliveredSent
<1>5. NoCommentLost'
  BY DEF RelayInv, NoCommentLost, Owed
<1>6. QED BY <1>2, <1>3, <1>4, <1>5 DEF RelayInv

(* A step that touches nothing the invariant speaks of preserves it.       *)
LEMMA RelaySame ==
  ASSUME RelayInv,
         UNCHANGED <<mem, disk, commentOn, deleted, replies, unroutable, pdsIssues,
                     pc, issue, batch, cur, maxID, frozen>>
  PROVE  RelayInv'
BY DEF RelayInv, IdsInOrder, CursorsBehind, CommentsOnIssues, FreshIssue,
       DeliveredSent, PassDone, BatchComplete, MarkNext, NoCommentLost, Owed,
       Done

-----------------------------------------------------------------------------
(* What a save does to the fields the invariant speaks of.                 *)
LEMMA SaveEffect ==
  ASSUME NEW s \in State, now \in Nat, SaveOK(s) \/ SaveFails(s)
  PROVE  /\ mem'.issueToNote = s.issueToNote
         /\ mem'.lastCommentID = s.lastCommentID
         /\ \A c \in CommentIds :
              mem'.delivered[c] # None => s.delivered[c] # None
         /\ disk' = mem' \/ disk' = disk
BY PruneFields DEF SaveOK, SaveFails, SaveInMemory

(* The forward mirror, up to the record of a new issue and after its link. *)
LEMMA RelayForwardQuiet ==
  ASSUME TypeOK, RelayInv,
         \/ FetchOutbox \/ OutboxUnavailable \/ SeriesDone \/ EnsureRepo
         \/ \E n \in Notes : SkipNote(n) \/ CreateIssueRefused(n)
         \/ MarkSeenNote \/ MarkSeenNoteFails \/ NotesDone
  PROVE  RelayInv'
<1> USE DEF stateVars, worldVars, tangledVars, rowVars, ledgerVars, fwdVars, revVars,
            SkipSeries, EndPass, ResetFwd, ResetRev
<1>1. \A c \in CommentIds : mem.delivered[c] # None => replies[c] > 0
  BY DEF RelayInv, DeliveredSent
<1>2. CASE FetchOutbox \/ OutboxUnavailable \/ SeriesDone \/ NotesDone
  BY <1>1, <1>2, RelayKept
  DEF FetchOutbox, OutboxUnavailable, SeriesDone, NotesDone
<1>3. CASE RepoKnown \/ KnotCreates \/ KnotRefuses \/ KnotAnswerLost
  BY <1>1, <1>3, RelayKept
  DEF RepoKnown, KnotCreates, KnotRefuses, KnotAnswerLost
<1>4. CASE Announce \/ AnnounceBlank \/ AnnounceRefused
           \/ AnnounceAnswerLost \/ IndexRepo
  BY <1>1, <1>4, RelayKept
  DEF Announce, AnnounceBlank, AnnounceRefused, AnnounceAnswerLost, IndexRepo
<1>5. CASE SetRepo \/ SetRepoFails
  <2> DEFINE s == WithRepo(mem, Cur)
  <2>1. Cur \in Series
    BY <1>5 DEF SetRepo, SetRepoFails, Cur, Series, TypeOK, LocalsOK
  <2>2. s \in State
    BY <2>1, MutatorTypes DEF TypeOK, StateTypeOK
  <2>3. /\ s.issueToNote = mem.issueToNote
        /\ s.lastCommentID = mem.lastCommentID
        /\ s.delivered = mem.delivered
    BY DEF WithRepo, TypeOK, StateTypeOK, State
  <2>4. SaveOK(s) \/ SaveFails(s)
    BY <1>5 DEF SetRepo, SetRepoFails
  <2> HIDE DEF s
  <2>5. QED
    BY <1>1, <1>5, <2>2, <2>3, <2>4, SaveEffect, RelayKept
    DEF SetRepo, SetRepoFails, TypeOK, StateTypeOK
<1>6. CASE \E n \in Notes : SkipNote(n) \/ CreateIssueRefused(n)
  BY <1>1, <1>6, RelayKept DEF SkipNote, CreateIssueRefused
<1>7. CASE MarkSeenNote \/ MarkSeenNoteFails
  <2> DEFINE s == WithSeen(mem, note)
  <2>1. note \in Notes
    BY <1>7 DEF MarkSeenNote, MarkSeenNoteFails, TypeOK, LocalsOK
  <2>2. s \in State
    BY <2>1, MutatorTypes DEF TypeOK, StateTypeOK
  <2>3. /\ s.issueToNote = mem.issueToNote
        /\ s.lastCommentID = mem.lastCommentID
        /\ s.delivered = mem.delivered
    BY DEF WithSeen, TypeOK, StateTypeOK, State
  <2>4. SaveOK(s) \/ SaveFails(s)
    BY <1>7 DEF MarkSeenNote, MarkSeenNoteFails
  <2> HIDE DEF s
  <2>5. QED
    BY <1>1, <1>7, <2>2, <2>3, <2>4, SaveEffect, RelayKept
    DEF MarkSeenNote, MarkSeenNoteFails, TypeOK, StateTypeOK
<1>8. QED
  BY <1>2, <1>3, <1>4, <1>5, <1>6, <1>7 DEF EnsureRepo

(* A new issue record has no comments yet.                                 *)
LEMMA RelayMint ==
  ASSUME TypeOK, RelayInv, NEW n \in Notes, NEW i \in Issues, MintIssue(n, i),
         \/ pc' = "indexIssue" /\ issue' \in {i, NoURI}
         \/ UNCHANGED <<pc, issue>>
  PROVE  RelayInv'
<1> USE DEF MintIssue, rowVars, ledgerVars, revVars
<1>1. \A c \in CommentIds : commentOn[c] \notin {i, NoURI}
  BY StateAssumption
  DEF RelayInv, CommentsOnIssues, TypeOK, WorldTypeOK, URIs
<1>2. \A j \in Issues : pdsIssues[j] # None => pdsIssues'[j] # None
  BY StateAssumption DEF TypeOK, WorldTypeOK
<1>3. CommentsOnIssues'
  BY <1>2 DEF RelayInv, CommentsOnIssues, TypeOK, WorldTypeOK
<1>4. FreshIssue'
  BY <1>1 DEF FreshIssue
<1>5. IdsInOrder' /\ CursorsBehind' /\ DeliveredSent' /\ PassDone'
      /\ BatchComplete' /\ MarkNext' /\ NoCommentLost'
  BY DEF RelayInv, IdsInOrder, CursorsBehind, DeliveredSent, PassDone,
         BatchComplete, MarkNext, NoCommentLost, Owed, Done
<1>6. QED BY <1>3, <1>4, <1>5 DEF RelayInv

(* Inserting the issue into the index leaves it as fresh as it was.        *)
LEMMA RelayIndexIssue ==
  ASSUME RelayInv, IndexIssue
  PROVE  RelayInv'
BY DEF IndexIssue, RelayInv, IdsInOrder, CursorsBehind, CommentsOnIssues,
       FreshIssue, DeliveredSent, PassDone, BatchComplete, MarkNext,
       NoCommentLost, Owed, Done, rowVars, ledgerVars, tangledVars,
       fwdVars, revVars

(* A link makes comments on the issue owed; all of them are past the       *)
(* cursor.                                                                 *)
LEMMA RelayLink ==
  ASSUME TypeOK, RelayInv, LinkIssue \/ LinkIssueFails
  PROVE  RelayInv'
<1> USE DEF worldVars, tangledVars, rowVars, ledgerVars, fwdVars, revVars,
            EndPass, ResetFwd, ResetRev
<1> DEFINE s == WithLink(mem, note, issue)
<1>1. pc = "link" /\ note \in Notes /\ issue \in URIs
  BY DEF LinkIssue, LinkIssueFails, TypeOK, LocalsOK
<1>2. s \in State
  BY <1>1, MutatorTypes DEF TypeOK, StateTypeOK
<1>3. /\ \A u \in URIs : u # issue => s.issueToNote[u] = mem.issueToNote[u]
      /\ s.lastCommentID = mem.lastCommentID
      /\ s.delivered = mem.delivered
  BY <1>1 DEF WithLink, TypeOK, StateTypeOK, State
<1>4. SaveOK(s) \/ SaveFails(s)
  BY DEF LinkIssue, LinkIssueFails
<1> HIDE DEF s
<1>5. /\ \A u \in URIs : u # issue => mem'.issueToNote[u] = mem.issueToNote[u]
      /\ mem'.lastCommentID = mem.lastCommentID
      /\ \A c \in CommentIds : mem'.delivered[c] # None => mem.delivered[c] # None
      /\ disk' = mem' \/ disk' = disk
  BY <1>2, <1>3, <1>4, SaveEffect DEF TypeOK, StateTypeOK
<1>6. /\ UNCHANGED <<commentOn, deleted, replies, unroutable, pdsIssues>>
      /\ maxID' \in {0, maxID}
      /\ pc' \in {"seen", "idle"}
  BY DEF LinkIssue, LinkIssueFails
<1>7. \A c \in CommentIds : c > 0 /\ c \in Nat
  BY StateAssumption DEF CommentIds
<1>8. IdsInOrder' /\ CommentsOnIssues' /\ FreshIssue' /\ PassDone'
      /\ BatchComplete' /\ MarkNext'
  BY <1>6 DEF RelayInv, IdsInOrder, CommentsOnIssues, FreshIssue, PassDone,
              BatchComplete, MarkNext
<1>9. CursorsBehind'
  BY <1>5, <1>6, <1>7 DEF RelayInv, CursorsBehind
<1>10. DeliveredSent'
  BY <1>5, <1>6 DEF RelayInv, DeliveredSent
<1>11. ASSUME NEW c \in CommentIds, Owed(c, mem'), c <= mem'.lastCommentID
       PROVE  Done(c)
  <2>1. commentOn[c] # issue
    BY <1>1, <1>5, <1>7, <1>11 DEF RelayInv, FreshIssue, TypeOK, StateTypeOK, State
  <2>2. commentOn[c] \in URIs
    BY <1>11 DEF Owed, TypeOK, WorldTypeOK, URIs
  <2>3. Owed(c, mem) /\ c <= mem.lastCommentID
    BY <1>5, <1>11, <2>1, <2>2 DEF Owed
  <2>4. QED BY <2>3 DEF RelayInv, NoCommentLost, Done
<1>12. NoCommentLost'
  BY <1>5, <1>6, <1>11 DEF RelayInv, NoCommentLost, Owed, Done
<1>13. QED BY <1>8, <1>9, <1>10, <1>12 DEF RelayInv

-----------------------------------------------------------------------------
(* The reverse mirror                                                      *)

(* The ends of the reverse mirror that save nothing and send nothing.      *)
LEMMA RelayReverseQuiet ==
  ASSUME TypeOK, RelayInv, NothingWatched \/ ReadFails \/ CursorStays
  PROVE  RelayInv'
<1>1. \A c \in CommentIds : mem.delivered[c] # None => replies[c] > 0
  BY DEF RelayInv, DeliveredSent
<1>2. QED
  BY <1>1, RelayKept
  DEF NothingWatched, ReadFails, CursorStays, EndPass, ResetRev, stateVars,
      worldVars, tangledVars, rowVars, ledgerVars

(* The batch holds whatever is owed past the cursor; below it everything   *)
(* is done.                                                                *)
LEMMA RelayRead ==
  ASSUME TypeOK, RelayInv, ReadComments
  PROVE  RelayInv'
<1> USE DEF ReadComments, stateVars, worldVars, tangledVars, rowVars,
            ledgerVars, fwdVars
<1>1. \A c \in CommentIds : c \in Nat
  BY StateAssumption DEF CommentIds
<1>2. mem.lastCommentID \in Nat
  BY DEF TypeOK, StateTypeOK, State
<1>3. \A c \in CommentIds :
        Owed(c, mem) => c \in NewComments \/ c <= mem.lastCommentID
  BY <1>1, <1>2 DEF Owed, NewComments, WatchedIssues, TypeOK, WorldTypeOK, URIs
<1>4. \A c \in CommentIds : Owed(c, mem) /\ c <= mem.lastCommentID => Done(c)
  BY DEF RelayInv, NoCommentLost, Done
<1>5. PassDone' /\ BatchComplete' /\ MarkNext'
  BY <1>3, <1>4 DEF PassDone, BatchComplete, MarkNext, Owed, Done
<1>6. CursorsBehind'
  BY DEF RelayInv, CursorsBehind
<1>7. IdsInOrder' /\ CommentsOnIssues' /\ FreshIssue' /\ DeliveredSent'
      /\ NoCommentLost'
  BY DEF RelayInv, IdsInOrder, CommentsOnIssues, FreshIssue, DeliveredSent,
         NoCommentLost, Owed
<1>8. QED BY <1>5, <1>6, <1>7 DEF RelayInv

(* Stepping over the oldest comment of the batch: if that moves maxID,     *)
(* everything up to it is done.                                            *)
LEMMA RelaySkip ==
  ASSUME TypeOK, RelayInv, NEW c \in CommentIds,
         SkipComment(c) \/ SkipUnroutable(c)
  PROVE  RelayInv'
<1> USE DEF SkipComment, SkipUnroutable, stateVars, worldVars, tangledVars,
            rowVars, ledgerVars, fwdVars
<1>1. \A d \in CommentIds : d \in Nat
  BY StateAssumption DEF CommentIds
<1>2. /\ pc = "relay" /\ pc' = "relay"
      /\ UNCHANGED <<mem, disk, commentOn, deleted, replies, pdsIssues, issue,
                     cur, frozen>>
      /\ unroutable \subseteq unroutable'
      /\ batch' = batch \ {c}
      /\ c \in batch /\ \A b \in batch : c <= b
      /\ maxID' = IF ~frozen /\ c > maxID THEN c ELSE maxID
  BY DEF IsNext, Advance
<1>3. ASSUME Owed(c, mem)
      PROVE  replies[c] > 0 \/ c \in unroutable'
  <2>1. CASE SkipComment(c)
    BY <1>3, <2>1 DEF Skipped, NoteForIssue, IsDelivered, Owed, RelayInv, DeliveredSent
  <2>2. CASE SkipUnroutable(c)
    BY <2>2
  <2>3. QED BY <2>1, <2>2
<1>4. ASSUME NEW d \in CommentIds, Owed(d, mem), d <= maxID',
             ~(replies[d] > 0 \/ d \in unroutable')
      PROVE  FALSE
  <2>1. ~Done(d)
    BY <1>2, <1>4 DEF Done
  <2>2. ~(d <= maxID)
    BY <1>2, <1>4, <2>1 DEF RelayInv, PassDone
  <2>3. frozen = FALSE /\ d <= c
    BY <1>2, <1>4, <2>2 DEF TypeOK, WorldTypeOK
  <2>4. d \in batch \/ \A b \in batch : b < d
    BY <1>2, <1>4, <2>1, <2>3 DEF RelayInv, BatchComplete
  <2>5. d = c
    BY <1>1, <1>2, <2>3, <2>4 DEF TypeOK, WorldTypeOK
  <2>6. QED BY <1>3, <1>4, <2>5
<1>5. PassDone'
  BY <1>2, <1>4 DEF PassDone, Owed, Done
<1>6. BatchComplete'
  BY <1>2, <1>3 DEF RelayInv, BatchComplete, Owed, Done
<1>7. CursorsBehind'
  <2>1. commentOn[c] # None
    BY <1>2 DEF TypeOK, LocalsOK
  <2>2. \A d \in CommentIds : d <= c => commentOn[d] # None
    BY <1>1, <2>1 DEF RelayInv, IdsInOrder
  <2>3. QED BY <1>2, <2>2 DEF RelayInv, CursorsBehind
<1>8. IdsInOrder' /\ CommentsOnIssues' /\ FreshIssue' /\ DeliveredSent'
      /\ MarkNext' /\ NoCommentLost'
  BY <1>2 DEF RelayInv, IdsInOrder, CommentsOnIssues, FreshIssue,
              DeliveredSent, MarkNext, NoCommentLost, Owed
<1>9. QED BY <1>5, <1>6, <1>7, <1>8 DEF RelayInv

(* Once the limit is reached nothing moves maxID any more; once a delivery *)
(* failed neither.                                                         *)
LEMMA RelayStop ==
  ASSUME RelayInv, NEW c \in CommentIds, StopAtLimit(c) \/ ReplyRefused(c)
  PROVE  RelayInv'
BY DEF StopAtLimit, ReplyRefused, Attempts, RelayInv, IdsInOrder,
       CursorsBehind, CommentsOnIssues, FreshIssue, DeliveredSent, PassDone,
       BatchComplete, MarkNext, NoCommentLost, Owed, Done, stateVars,
       worldVars, tangledVars, rowVars, ledgerVars, fwdVars

(* Graft takes a reply for the oldest comment of the batch.                *)
LEMMA RelayReply ==
  ASSUME TypeOK, RelayInv, NEW c \in CommentIds, Reply(c) \/ ReplyAnswerLost(c)
  PROVE  RelayInv'
<1>1. \A d \in CommentIds : d \in Nat
  BY StateAssumption DEF CommentIds
<1>2. /\ UNCHANGED <<mem, disk, commentOn, deleted, unroutable, pdsIssues, issue,
                     maxID>>
      /\ replies' = [replies EXCEPT ![c] = @ + 1]
      /\ pc = "relay" /\ batch' = batch \ {c}
      /\ c \in batch /\ \A b \in batch : c <= b
      /\ \/ pc' = "mark" /\ cur' = c /\ frozen' = frozen
         \/ pc' = "relay" /\ frozen' = TRUE
  BY DEF Reply, ReplyAnswerLost, Attempts, IsNext, GraftAccepts, tangledVars,
         rowVars, fwdVars
<1>3. replies'[c] > 0 /\ \A d \in CommentIds : replies[d] > 0 => replies'[d] > 0
  BY <1>2 DEF TypeOK, WorldTypeOK
<1>4. DeliveredSent' /\ PassDone' /\ NoCommentLost'
  BY <1>2, <1>3 DEF RelayInv, DeliveredSent, PassDone, NoCommentLost, Owed, Done
<1>5. BatchComplete'
  BY <1>2, <1>3 DEF RelayInv, BatchComplete, Owed, Done
<1>6. MarkNext'
  <2> SUFFICES ASSUME pc' = "mark", frozen' = FALSE, NEW d \in CommentIds,
                      Owed(d, mem)', ~Done(d)'
               PROVE  cur' < d
    BY DEF MarkNext
  <2>1. Owed(d, mem) /\ ~Done(d) /\ d # c
    BY <1>2, <1>3 DEF Owed, Done
  <2>2. d \in batch \/ \A b \in batch : b < d
    BY <1>2, <2>1 DEF RelayInv, BatchComplete
  <2>3. QED BY <1>1, <1>2, <2>1, <2>2
<1>7. IdsInOrder' /\ CursorsBehind' /\ CommentsOnIssues' /\ FreshIssue'
  BY <1>2 DEF RelayInv, IdsInOrder, CursorsBehind, CommentsOnIssues, FreshIssue
<1>8. QED BY <1>4, <1>5, <1>6, <1>7 DEF RelayInv

(* The comment delivered is recorded; if no delivery failed before, all up *)
(* to it is done.                                                          *)
LEMMA RelayMark ==
  ASSUME TypeOK, RelayInv, MarkDelivered \/ MarkDeliveredFails
  PROVE  RelayInv'
<1> DEFINE s == WithDelivered(mem, cur)
<1>1. pc = "mark" /\ cur \in CommentIds /\ commentOn[cur] # None /\ replies[cur] > 0
  BY DEF MarkDelivered, MarkDeliveredFails, TypeOK, LocalsOK, RelayInv, DeliveredSent
<1>2. s \in State
  BY <1>1, MutatorTypes DEF TypeOK, StateTypeOK
<1>3. /\ s.issueToNote = mem.issueToNote
      /\ s.lastCommentID = mem.lastCommentID
      /\ \A c \in CommentIds : c # cur => s.delivered[c] = mem.delivered[c]
  BY <1>1 DEF WithDelivered, Stamped, TypeOK, StateTypeOK, State
<1>4. SaveOK(s) \/ SaveFails(s)
  BY DEF MarkDelivered, MarkDeliveredFails
<1> HIDE DEF s
<1>5. /\ mem'.issueToNote = mem.issueToNote
      /\ mem'.lastCommentID = mem.lastCommentID
      /\ \A c \in CommentIds : mem'.delivered[c] # None => replies[c] > 0
      /\ disk' = mem' \/ disk' = disk
  BY <1>1, <1>2, <1>3, <1>4, SaveEffect
  DEF TypeOK, StateTypeOK, RelayInv, DeliveredSent
<1>6. CASE MarkDeliveredFails
  BY <1>5, <1>6, RelayKept
  DEF MarkDeliveredFails, EndPass, ResetRev, worldVars, tangledVars, rowVars,
      ledgerVars
<1>7. CASE MarkDelivered
  <2>1. /\ UNCHANGED <<commentOn, deleted, replies, unroutable, pdsIssues, issue,
                       batch, frozen>>
        /\ pc' = "relay"
        /\ maxID' = IF ~frozen /\ cur > maxID THEN cur ELSE maxID
    BY <1>7 DEF MarkDelivered, Advance, worldVars, tangledVars, rowVars,
                ledgerVars, fwdVars
  <2>2. \A d \in CommentIds : d \in Nat
    BY StateAssumption DEF CommentIds
  <2>3. ASSUME NEW d \in CommentIds, Owed(d, mem), d <= maxID', ~Done(d)
        PROVE  FALSE
    <3>1. ~(d <= maxID)
      BY <1>1, <2>3 DEF RelayInv, PassDone
    <3>2. frozen = FALSE /\ d <= cur
      BY <2>1, <2>3, <3>1 DEF TypeOK, WorldTypeOK
    <3>3. cur < d
      BY <1>1, <2>3, <3>2 DEF RelayInv, MarkNext
    <3>4. QED BY <1>1, <2>2, <3>2, <3>3
  <2>4. PassDone'
    BY <1>5, <2>1, <2>3 DEF PassDone, Owed, Done
  <2>5. BatchComplete'
    BY <1>1, <1>5, <2>1 DEF RelayInv, BatchComplete, Owed, Done
  <2>6. CursorsBehind'
    <3>1. \A d \in CommentIds : d <= cur => commentOn[d] # None
      BY <1>1, <2>2 DEF RelayInv, IdsInOrder
    <3>2. QED BY <1>5, <2>1, <3>1 DEF RelayInv, CursorsBehind
  <2>7. NoCommentLost'
    BY <1>5, <2>1 DEF RelayInv, NoCommentLost, Owed
  <2>8. DeliveredSent'
    BY <1>5, <2>1 DEF RelayInv, DeliveredSent
  <2>9. IdsInOrder' /\ CommentsOnIssues' /\ FreshIssue' /\ MarkNext'
    BY <2>1 DEF RelayInv, IdsInOrder, CommentsOnIssues, FreshIssue, MarkNext
  <2>10. QED BY <2>4, <2>5, <2>6, <2>7, <2>8, <2>9 DEF RelayInv
<1>8. QED BY <1>6, <1>7

(* The cursor moves to maxID, below which everything is done.              *)
LEMMA RelayCursor ==
  ASSUME TypeOK, RelayInv, SetCommentCursor \/ SetCommentCursorFails
  PROVE  RelayInv'
<1> DEFINE s == WithCursor(mem, maxID)
<1>1. /\ pc = "relay" /\ pc' = "idle" /\ maxID' = 0
      /\ UNCHANGED <<commentOn, deleted, replies, unroutable, pdsIssues>>
  BY DEF SetCommentCursor, SetCommentCursorFails, EndPass, ResetRev, worldVars,
         tangledVars, rowVars, ledgerVars
<1>2. s \in State /\ maxID \in Nat
  BY MutatorTypes DEF TypeOK, StateTypeOK, WorldTypeOK
<1>3. /\ s.issueToNote = mem.issueToNote
      /\ s.lastCommentID = maxID
      /\ s.delivered = mem.delivered
  BY DEF WithCursor, TypeOK, StateTypeOK, State
<1>4. SaveOK(s) \/ SaveFails(s)
  BY DEF SetCommentCursor, SetCommentCursorFails
<1> HIDE DEF s
<1>5. /\ mem'.issueToNote = mem.issueToNote
      /\ mem'.lastCommentID = maxID
      /\ \A c \in CommentIds : mem'.delivered[c] # None => replies[c] > 0
      /\ disk' = mem' \/ disk' = disk
  BY <1>2, <1>3, <1>4, SaveEffect DEF TypeOK, StateTypeOK, RelayInv, DeliveredSent
<1>6. NoCommentLost'
  BY <1>1, <1>5 DEF RelayInv, NoCommentLost, PassDone, Owed, Done
<1>7. CursorsBehind'
  <2>1. \A c \in CommentIds : c > 0 /\ c \in Nat
    BY StateAssumption DEF CommentIds
  <2>2. QED BY <1>1, <1>5, <2>1 DEF RelayInv, CursorsBehind
<1>8. IdsInOrder' /\ CommentsOnIssues' /\ FreshIssue' /\ DeliveredSent'
      /\ PassDone' /\ BatchComplete' /\ MarkNext'
  BY <1>1, <1>5 DEF RelayInv, IdsInOrder, CommentsOnIssues, FreshIssue,
                    DeliveredSent, PassDone, BatchComplete, MarkNext
<1>9. QED BY <1>6, <1>7, <1>8 DEF RelayInv

-----------------------------------------------------------------------------
(* The process and its surroundings                                        *)

(* A pass begins, the process dies, or a new one takes the state file.     *)
LEMMA RelayProcess ==
  ASSUME TypeOK, RelayInv, StartPass \/ Crash \/ Restart
  PROVE  RelayInv'
<1> USE DEF stateVars, worldVars, tangledVars, rowVars, ledgerVars,
            fwdVars, revVars
<1>1. \A c \in CommentIds :
        mem.delivered[c] # None \/ disk.delivered[c] # None => replies[c] > 0
  BY DEF RelayInv, DeliveredSent
<1>2. CASE StartPass \/ Crash
  BY <1>1, <1>2, RelayKept DEF StartPass, Crash, ResetRev
<1>3. CASE Restart
  BY <1>1, <1>3
  DEF Restart, Load, RelayInv, IdsInOrder, CursorsBehind, CommentsOnIssues,
      FreshIssue, DeliveredSent, PassDone, BatchComplete, MarkNext,
      NoCommentLost, Owed
<1>4. QED BY <1>2, <1>3

(* A new comment is past every cursor and newer than every row read.       *)
LEMMA RelayPost ==
  ASSUME TypeOK, RelayInv, NEW c \in CommentIds, NEW i \in Issues,
         PostComment(c, i),
         UNCHANGED <<stateVars, host, pc, fwdVars, revVars>>
  PROVE  RelayInv'
<1> USE DEF stateVars, fwdVars, revVars, tangledVars, ledgerVars
<1>1. \A d \in CommentIds : d \in Nat
  BY StateAssumption DEF CommentIds
<1>2. /\ commentOn[c] = None /\ pdsIssues[i] # None
      /\ \A d \in CommentIds : d < c => commentOn[d] # None
      /\ \A d \in CommentIds : commentOn'[d] = IF d = c THEN i ELSE commentOn[d]
      /\ commentOn'[c] # None
      /\ UNCHANGED <<mem, disk, deleted, replies, unroutable, pdsIssues, pc, issue,
                     batch, cur, maxID, frozen>>
  BY StateAssumption DEF PostComment, TypeOK, WorldTypeOK, URIs
<1>3. mem.lastCommentID < c /\ disk.lastCommentID < c /\ maxID < c
  BY <1>1, <1>2
  DEF RelayInv, CursorsBehind, TypeOK, StateTypeOK, State, WorldTypeOK
<1>4. \A b \in batch : b < c
  <2> SUFFICES ASSUME NEW b \in batch PROVE b < c
    OBVIOUS
  <2>1. b \in CommentIds /\ commentOn[b] # None
    BY DEF TypeOK, WorldTypeOK, LocalsOK
  <2>2. ~(c < b) /\ c # b
    BY <1>2, <2>1 DEF RelayInv, IdsInOrder
  <2>3. QED BY <1>1, <2>1, <2>2
<1>5. pc = "mark" => cur < c
  <2> SUFFICES ASSUME pc = "mark" PROVE cur < c
    OBVIOUS
  <2>1. cur \in CommentIds /\ commentOn[cur] # None
    BY DEF TypeOK, LocalsOK
  <2>2. ~(c < cur) /\ c # cur
    BY <1>2, <2>1 DEF RelayInv, IdsInOrder
  <2>3. QED BY <1>1, <2>1, <2>2
<1>6. IdsInOrder'
  BY <1>1, <1>2 DEF RelayInv, IdsInOrder
<1>7. CursorsBehind' /\ CommentsOnIssues' /\ FreshIssue' /\ DeliveredSent'
  BY <1>2, <1>3 DEF RelayInv, CursorsBehind, CommentsOnIssues, FreshIssue, DeliveredSent
<1>8. \A d \in CommentIds : d # c => (Owed(d, mem)' <=> Owed(d, mem))
                                 /\ (Owed(d, disk)' <=> Owed(d, disk))
  BY <1>2 DEF Owed
<1>9. \A d \in CommentIds : Done(d)' <=> Done(d)
  BY <1>2 DEF Done
<1>10. PassDone' /\ BatchComplete' /\ MarkNext'
  BY <1>1, <1>2, <1>3, <1>4, <1>5, <1>8, <1>9
  DEF RelayInv, PassDone, BatchComplete, MarkNext, TypeOK, WorldTypeOK
<1>11. NoCommentLost'
  BY <1>1, <1>2, <1>3, <1>8
  DEF RelayInv, NoCommentLost, TypeOK, StateTypeOK, State
<1>12. QED BY <1>6, <1>7, <1>10, <1>11 DEF RelayInv

(* The world and the clock, which move at any moment.                      *)
LEMMA RelayEnvironment ==
  ASSUME TypeOK, RelayInv, Environment
  PROVE  RelayInv'
<1> USE DEF stateVars, worldVars, tangledVars, rowVars, ledgerVars,
            fwdVars, revVars
<1>1. CASE /\ \/ \E n \in Notes : Publish(n) \/ Retire(n)
              \/ \E x \in Deletable : DeleteRow(x)
           /\ UNCHANGED <<stateVars, host, pc, fwdVars, revVars>>
  BY <1>1, RelaySame DEF Publish, Retire, DeleteRow
<1>2. CASE \E c \in CommentIds, i \in Issues :
             PostComment(c, i) /\ UNCHANGED <<stateVars, host, pc, fwdVars, revVars>>
  BY <1>2, RelayPost
<1>3. CASE \E c \in CommentIds :
             DeleteComment(c) /\ UNCHANGED <<stateVars, host, pc, fwdVars, revVars>>
  BY <1>3
  DEF DeleteComment, RelayInv, IdsInOrder, CursorsBehind, CommentsOnIssues,
      FreshIssue, DeliveredSent, PassDone, BatchComplete, MarkNext,
      NoCommentLost, Owed, Done
<1>4. CASE Tick /\ UNCHANGED <<mem, disk, faults, pruned, worldVars, host, pc,
                                fwdVars, revVars>>
  BY <1>4, RelaySame
<1>5. QED BY <1>1, <1>2, <1>3, <1>4 DEF Environment, World

(* RelayInv is inductive relative to TypeOK.                               *)
LEMMA RelayStep == TypeOK /\ RelayInv /\ [Next]_vars => RelayInv'
<1> SUFFICES ASSUME TypeOK, RelayInv, [Next]_vars PROVE RelayInv'
  OBVIOUS
<1>1. CASE UNCHANGED vars
  BY <1>1, RelaySame
  DEF vars, stateVars, worldVars, tangledVars, rowVars, ledgerVars,
      fwdVars, revVars
<1>2. CASE ForwardStep
  <2>1. CASE \E n \in Notes : CreateIssue(n) \/ CreateIssueBlank(n)
                               \/ CreateIssueAnswerLost(n)
    BY <2>1, RelayMint DEF CreateIssue, CreateIssueBlank, CreateIssueAnswerLost
  <2>2. CASE IndexIssue \/ LinkIssue \/ LinkIssueFails
    BY <2>2, RelayIndexIssue, RelayLink
  <2>3. QED
    BY <1>2, <2>1, <2>2, RelayForwardQuiet DEF ForwardStep, MirrorNote
<1>3. CASE ReverseStep
  BY <1>3, RelayReverseQuiet, RelayRead, RelaySkip, RelayStop, RelayReply,
     RelayMark, RelayCursor
  DEF ReverseStep, RelayComment
<1>4. QED
  BY <1>1, <1>2, <1>3, RelayProcess, RelayEnvironment DEF Next, RunOnce

(* No comment is lost: whatever the cursor has passed, in memory or in the *)
(* state file, has reached Graft or could not be routed - under any number *)
(* of crashes, failed saves, lost answers and expired dedup entries.       *)
THEOREM CommentsKept == Spec => []NoCommentLost
<1>1. RelayInv => NoCommentLost
  BY DEF RelayInv
<1>2. QED BY TypeInit, TypeStep, RelayInit, RelayStep, <1>1, PTL DEF Spec

-----------------------------------------------------------------------------
(* The relay implements AtLeastOnce                                        *)

(* What is still to be looked at is past the cursor.                       *)
BatchAhead == \A c \in batch : c > mem.lastCommentID

(* A comment whose issue the file has no link for yet is past the cursor   *)
(* of the file.                                                            *)
LinkedLate ==
  \A c \in CommentIds :
    /\ commentOn[c] # None
    /\ mem.issueToNote[commentOn[c]] # None
    /\ disk.issueToNote[commentOn[c]] = None
    => c > disk.lastCommentID

AheadInv == BatchAhead /\ LinkedLate

BridgeInv == TypeOK /\ LinkInv /\ RelayInv /\ AheadInv

(* The variables of AtLeastOnce.                                           *)
OwedForGood ==
  {c \in CommentIds \ OwnComments :
     /\ commentOn[c] # None
     /\ disk.issueToNote[commentOn[c]] # None}
Crossed == 1..disk.lastCommentID
Excused == deleted \cup unroutable

LEMMA AheadInit == Init => AheadInv
BY DEF Init, StateInit, WorldInit, EmptyState, RevIdle, AheadInv, BatchAhead, LinkedLate

(* Comments and links alone, no cursor moves forward in memory and the     *)
(* batch gets nothing new.                                                 *)
LEMMA AheadKept ==
  ASSUME BridgeInv, UNCHANGED <<commentOn, disk>>,
         \/ UNCHANGED mem
         \/ mem' = disk
         \/ mem'.issueToNote = mem.issueToNote /\ mem'.lastCommentID = mem.lastCommentID,
         batch' \subseteq batch
  PROVE  AheadInv'
<1>1. /\ mem.lastCommentID \in Nat /\ disk.lastCommentID \in Nat
      /\ disk.lastCommentID <= mem.lastCommentID
      /\ \A c \in batch : c \in Nat
  BY StateAssumption
  DEF BridgeInv, TypeOK, StateTypeOK, State, WorldTypeOK, CommentIds, LinkInv, Continues
<1>2. BatchAhead'
  BY <1>1 DEF BridgeInv, AheadInv, BatchAhead
<1>3. LinkedLate'
  BY DEF BridgeInv, AheadInv, LinkedLate
<1>4. QED BY <1>2, <1>3 DEF AheadInv

(* A save of the links and the cursor in memory, of a new link, or of a    *)
(* new cursor at the end of a pass.                                        *)
LEMMA AheadSave ==
  ASSUME BridgeInv, NEW s \in State, SaveOK(s) \/ SaveFails(s),
         UNCHANGED commentOn,
         \/ batch' \subseteq batch /\ s.lastCommentID = mem.lastCommentID
         \/ batch' = {},
         \A c \in CommentIds :
           commentOn[c] # None /\ s.issueToNote[commentOn[c]] # None =>
             mem.issueToNote[commentOn[c]] # None \/ c > mem.lastCommentID
  PROVE  AheadInv'
<1>1. /\ mem'.issueToNote = s.issueToNote
      /\ mem'.lastCommentID = s.lastCommentID
      /\ disk' = mem' \/ disk' = disk
  BY SaveEffect DEF BridgeInv, TypeOK, StateTypeOK
<1>2. /\ mem.lastCommentID \in Nat /\ disk.lastCommentID \in Nat
      /\ disk.lastCommentID <= mem.lastCommentID
      /\ \A c \in CommentIds : c \in Nat
  BY StateAssumption
  DEF BridgeInv, TypeOK, StateTypeOK, State, CommentIds, LinkInv, Continues
<1>3. BatchAhead'
  BY <1>1 DEF BridgeInv, AheadInv, BatchAhead
<1>4. LinkedLate'
  <2>1. CASE disk' = mem'
    BY <2>1 DEF LinkedLate
  <2>2. CASE disk' = disk
    BY <1>1, <1>2, <2>2 DEF BridgeInv, AheadInv, LinkedLate
  <2>3. QED BY <1>1, <2>1, <2>2
<1>5. QED BY <1>3, <1>4 DEF AheadInv

(* A row that comes later is past the cursors.                             *)
LEMMA AheadPost ==
  ASSUME BridgeInv, NEW c \in CommentIds, NEW i \in Issues, PostComment(c, i),
         UNCHANGED <<mem, disk, batch>>
  PROVE  AheadInv'
<1>1. /\ mem.lastCommentID \in Nat /\ disk.lastCommentID \in Nat
      /\ \A d \in CommentIds : d \in Nat
  BY StateAssumption DEF BridgeInv, TypeOK, StateTypeOK, State, CommentIds
<1>2. disk.lastCommentID < c
  BY <1>1 DEF PostComment, BridgeInv, RelayInv, CursorsBehind
<1>3. \A d \in CommentIds : commentOn'[d] = IF d = c THEN i ELSE commentOn[d]
  BY DEF PostComment, BridgeInv, TypeOK, WorldTypeOK
<1>4. LinkedLate'
  BY <1>2, <1>3 DEF BridgeInv, AheadInv, LinkedLate
<1>5. BatchAhead'
  BY DEF BridgeInv, AheadInv, BatchAhead
<1>6. QED BY <1>4, <1>5 DEF AheadInv

(* The links and the cursor that each save of a pass leaves in memory.     *)
LEMMA SavedRecords ==
  ASSUME BridgeInv,
         \/ SetRepo \/ SetRepoFails \/ LinkIssue \/ LinkIssueFails
         \/ MarkSeenNote \/ MarkSeenNoteFails
         \/ MarkDelivered \/ MarkDeliveredFails
         \/ SetCommentCursor \/ SetCommentCursorFails
  PROVE  /\ \E s \in State :
              /\ SaveOK(s) \/ SaveFails(s)
              /\ \/ batch' \subseteq batch /\ s.lastCommentID = mem.lastCommentID
                 \/ batch' = {}
              /\ \A c \in CommentIds :
                   commentOn[c] # None /\ s.issueToNote[commentOn[c]] # None =>
                     mem.issueToNote[commentOn[c]] # None \/ c > mem.lastCommentID
         /\ UNCHANGED <<commentOn, deleted, replies, unroutable>>
<1> USE DEF worldVars, rowVars, ledgerVars, revVars, SkipSeries, EndPass,
            ResetRev
<1>1. TypeOK /\ mem \in State
  BY DEF BridgeInv, TypeOK, StateTypeOK
<1>2. CASE LinkIssue \/ LinkIssueFails
  <2> DEFINE s == WithLink(mem, note, issue)
  <2>1. /\ pc = "link" /\ note \in Notes /\ issue \in URIs
        /\ SaveOK(s) \/ SaveFails(s)
        /\ batch' = batch \/ batch' = {}
        /\ UNCHANGED <<commentOn, deleted, replies, unroutable>>
    BY <1>1, <1>2 DEF LinkIssue, LinkIssueFails, TypeOK, LocalsOK
  <2>2. s \in State
    BY <1>1, <2>1, MutatorTypes DEF TypeOK, StateTypeOK
  <2>3. /\ s.lastCommentID = mem.lastCommentID
        /\ \A u \in URIs : u # issue => s.issueToNote[u] = mem.issueToNote[u]
    BY <1>1, <2>1 DEF WithLink, State
  <2> HIDE DEF s
  <2>4. ASSUME NEW c \in CommentIds, commentOn[c] # None,
               s.issueToNote[commentOn[c]] # None
        PROVE  mem.issueToNote[commentOn[c]] # None \/ c > mem.lastCommentID
    <3>1. CASE commentOn[c] = issue
      BY <2>1, <3>1 DEF BridgeInv, RelayInv, FreshIssue
    <3>2. CASE commentOn[c] # issue
      BY <1>1, <2>3, <2>4, <3>2 DEF TypeOK, WorldTypeOK, URIs
    <3>3. QED BY <3>1, <3>2
  <2>5. QED BY <2>1, <2>2, <2>3, <2>4
<1>3. CASE MarkDelivered \/ MarkDeliveredFails
  <2>1. cur \in CommentIds
    BY <1>1, <1>3 DEF MarkDelivered, MarkDeliveredFails, TypeOK, LocalsOK
  <2>2. WithDelivered(mem, cur) \in State
    BY <1>1, <2>1, MutatorTypes DEF TypeOK, StateTypeOK
  <2>3. /\ WithDelivered(mem, cur).lastCommentID = mem.lastCommentID
        /\ WithDelivered(mem, cur).issueToNote = mem.issueToNote
    BY <1>1 DEF WithDelivered, State
  <2>4. QED BY <1>3, <2>2, <2>3 DEF MarkDelivered, MarkDeliveredFails
<1>4. CASE SetCommentCursor \/ SetCommentCursorFails
  <2>1. WithCursor(mem, maxID) \in State
    BY <1>1, MutatorTypes DEF TypeOK, StateTypeOK, WorldTypeOK
  <2>2. WithCursor(mem, maxID).issueToNote = mem.issueToNote
    BY <1>1 DEF WithCursor, State
  <2>3. QED BY <1>4, <2>1, <2>2 DEF SetCommentCursor, SetCommentCursorFails
<1>5. CASE SetRepo \/ SetRepoFails
  <2>1. Cur \in Series
    BY <1>1, <1>5 DEF SetRepo, SetRepoFails, Cur, Series, TypeOK, LocalsOK
  <2>2. WithRepo(mem, Cur) \in State
    BY <1>1, <2>1, MutatorTypes DEF TypeOK, StateTypeOK
  <2>3. /\ WithRepo(mem, Cur).lastCommentID = mem.lastCommentID
        /\ WithRepo(mem, Cur).issueToNote = mem.issueToNote
    BY <1>1 DEF WithRepo, State
  <2>4. QED BY <1>5, <2>2, <2>3 DEF SetRepo, SetRepoFails
<1>6. CASE MarkSeenNote \/ MarkSeenNoteFails
  <2>1. note \in Notes
    BY <1>1, <1>6 DEF MarkSeenNote, MarkSeenNoteFails, TypeOK, LocalsOK
  <2>2. WithSeen(mem, note) \in State
    BY <1>1, <2>1, MutatorTypes DEF TypeOK, StateTypeOK
  <2>3. /\ WithSeen(mem, note).lastCommentID = mem.lastCommentID
        /\ WithSeen(mem, note).issueToNote = mem.issueToNote
    BY <1>1 DEF WithSeen, State
  <2>4. QED BY <1>6, <2>2, <2>3 DEF MarkSeenNote, MarkSeenNoteFails
<1>7. QED BY <1>2, <1>3, <1>4, <1>5, <1>6

(* Steps that save nothing and that the readers of the relay do not see.   *)
Quiet ==
  /\ UNCHANGED <<disk, commentOn, deleted, replies, unroutable>>
  /\ mem' \in {mem, disk}
  /\ batch' \subseteq batch \/ ReadComments

(* A step over, a reply, a deletion, a save and a new comment are all that *)
(* is seen.                                                                *)
LEMMA StepKinds ==
  ASSUME TypeOK, [Next]_vars
  PROVE  \/ Quiet
         \/ SetRepo \/ SetRepoFails \/ LinkIssue \/ LinkIssueFails
         \/ MarkSeenNote \/ MarkSeenNoteFails
         \/ MarkDelivered \/ MarkDeliveredFails
         \/ SetCommentCursor \/ SetCommentCursorFails
         \/ \E c \in CommentIds : SkipUnroutable(c) \/ Reply(c) \/ ReplyAnswerLost(c)
         \/ \E c \in CommentIds, i \in Issues :
              PostComment(c, i) /\ UNCHANGED <<mem, disk, batch>>
         \/ \E c \in CommentIds :
              DeleteComment(c) /\ UNCHANGED <<mem, disk, batch>>
<1> USE DEF Quiet, stateVars, worldVars, tangledVars, rowVars, ledgerVars,
            fwdVars, revVars, SkipSeries, EndPass, ResetFwd, ResetRev
<1>1. CASE StartPass \/ Crash \/ Restart \/ UNCHANGED vars
  BY <1>1 DEF StartPass, Crash, Restart, Load, vars
<1>2. CASE Environment
  BY <1>2 DEF Environment, World, Publish, Retire, DeleteRow, Tick
<1>3. CASE \/ FetchOutbox \/ OutboxUnavailable \/ SeriesDone \/ NotesDone
           \/ RepoKnown \/ KnotCreates \/ KnotRefuses \/ KnotAnswerLost
           \/ Announce \/ AnnounceBlank \/ AnnounceRefused
           \/ AnnounceAnswerLost \/ IndexRepo
           \/ IndexIssue
           \/ \E n \in Notes : MirrorNote(n)
  BY <1>3
  DEF FetchOutbox, OutboxUnavailable, SeriesDone, NotesDone, RepoKnown,
      KnotCreates, KnotRefuses, KnotAnswerLost, Announce, AnnounceBlank, AnnounceRefused,
      AnnounceAnswerLost, IndexRepo, IndexIssue, MirrorNote, SkipNote,
      CreateIssue, CreateIssueBlank, CreateIssueAnswerLost, CreateIssueRefused,
      MintIssue
<1>4. CASE \/ NothingWatched \/ ReadComments \/ ReadFails \/ CursorStays
           \/ \E c \in CommentIds : SkipComment(c) \/ StopAtLimit(c) \/ ReplyRefused(c)
  BY <1>4
  DEF NothingWatched, ReadComments, ReadFails, CursorStays, SkipComment,
      StopAtLimit, ReplyRefused
<1>5. QED
  BY <1>1, <1>2, <1>3, <1>4
  DEF Next, RunOnce, ForwardStep, EnsureRepo, ReverseStep, RelayComment

LEMMA AheadStep == BridgeInv /\ [Next]_vars => AheadInv'
<1> SUFFICES ASSUME BridgeInv, [Next]_vars PROVE AheadInv'
  OBVIOUS
<1>1. CASE Quiet
  <2>1. CASE batch' \subseteq batch
    BY <1>1, <2>1, AheadKept DEF Quiet
  <2>2. CASE ReadComments
    BY <2>2
    DEF ReadComments, NewComments, BridgeInv, AheadInv, BatchAhead, LinkedLate,
        stateVars, worldVars, rowVars
  <2>3. QED BY <1>1, <2>1, <2>2 DEF Quiet
<1>2. CASE \/ SetRepo \/ SetRepoFails \/ LinkIssue \/ LinkIssueFails
           \/ MarkSeenNote \/ MarkSeenNoteFails
           \/ MarkDelivered \/ MarkDeliveredFails
           \/ SetCommentCursor \/ SetCommentCursorFails
  BY <1>2, SavedRecords, AheadSave
<1>3. CASE \E c \in CommentIds : SkipUnroutable(c) \/ Reply(c) \/ ReplyAnswerLost(c)
  BY <1>3, AheadKept
  DEF SkipUnroutable, Reply, ReplyAnswerLost, GraftAccepts, stateVars, rowVars
<1>4. CASE \E c \in CommentIds, i \in Issues :
             PostComment(c, i) /\ UNCHANGED <<mem, disk, batch>>
  BY <1>4, AheadPost
<1>5. CASE \E c \in CommentIds : DeleteComment(c) /\ UNCHANGED <<mem, disk, batch>>
  BY <1>5, AheadKept DEF DeleteComment
<1>6. QED BY <1>1, <1>2, <1>3, <1>4, <1>5, StepKinds DEF BridgeInv

LEMMA BridgeInvHolds == Spec => []BridgeInv
<1>1. Init => BridgeInv
  BY TypeInit, LinkInit, RelayInit, AheadInit DEF BridgeInv
<1>2. BridgeInv /\ [Next]_vars => BridgeInv'
  BY TypeStep, LinkStep, RelayStep, AheadStep DEF BridgeInv
<1>3. QED BY <1>1, <1>2, PTL DEF Spec

-----------------------------------------------------------------------------
LEMMA RelayRefinesInit == Init => Relay!Init
<1> SUFFICES ASSUME Init PROVE Relay!Init
  OBVIOUS
<1>1. OwedForGood = {} /\ Crossed = {} /\ Excused = {}
      /\ replies = [c \in CommentIds |-> 0]
  BY DEF Init, StateInit, WorldInit, EmptyState, OwedForGood, Crossed, Excused
<1>2. QED BY <1>1 DEF Relay!Init, OwedForGood, Crossed, Excused

(* What crosses comments off or makes them owed does so in AtLeastOnce's   *)
(* order.                                                                  *)
LEMMA RelaySettles ==
  ASSUME BridgeInv, BridgeInv', Continues(disk, disk'), Appends,
         UNCHANGED <<deleted, replies, unroutable>>,
         \A c \in CommentIds :
           /\ commentOn'[c] # None /\ disk'.issueToNote[commentOn'[c]] # None
           /\ c <= disk.lastCommentID
           => commentOn[c] # None /\ disk.issueToNote[commentOn[c]] # None
  PROVE  Relay!Settle
<1>1. /\ MaxComments \in Nat
      /\ disk.lastCommentID \in Nat /\ disk'.lastCommentID \in Nat
      /\ disk.lastCommentID <= disk'.lastCommentID
      /\ disk'.lastCommentID <= MaxComments
  BY StateAssumption
  DEF BridgeInv, TypeOK, StateTypeOK, State, LocalsOK, Continues
<1>2. OwedForGood \subseteq OwedForGood'
  BY DEF OwedForGood, Continues, Appends, BridgeInv, TypeOK, WorldTypeOK
<1>3. OwedForGood' \subseteq CommentIds
  BY DEF OwedForGood
<1>4. Crossed \subseteq Crossed' /\ Crossed' \subseteq CommentIds
  BY <1>1 DEF Crossed, CommentIds
<1>5. (OwedForGood' \ OwedForGood) \cap Crossed = {}
  BY <1>1 DEF OwedForGood, Crossed
<1>6. ASSUME NEW c \in OwedForGood' \cap Crossed'
      PROVE  replies[c] > 0 \/ c \in Excused
  <2>1. /\ c \in CommentIds /\ c \notin OwnComments /\ c <= disk'.lastCommentID
        /\ commentOn'[c] # None /\ disk'.issueToNote[commentOn'[c]] # None
    BY <1>1, <1>6 DEF OwedForGood, Crossed
  <2>2. CASE c \in deleted
    BY <2>2 DEF Excused
  <2>3. CASE c \notin deleted
    BY <2>1, <2>3 DEF BridgeInv, RelayInv, NoCommentLost, Owed, Excused
  <2>4. QED BY <2>2, <2>3
<1>7. UNCHANGED <<replies, Excused>>
  BY DEF Excused
<1>8. QED
  BY <1>2, <1>3, <1>4, <1>5, <1>6, <1>7
  DEF Relay!Settle, OwedForGood, Crossed, Excused

LEMMA SavesSettle ==
  ASSUME BridgeInv, BridgeInv', Continues(disk, disk'),
         \/ SetRepo \/ SetRepoFails \/ LinkIssue \/ LinkIssueFails
         \/ MarkSeenNote \/ MarkSeenNoteFails
         \/ MarkDelivered \/ MarkDeliveredFails
         \/ SetCommentCursor \/ SetCommentCursorFails
  PROVE  Relay!Settle
<1>1. UNCHANGED <<commentOn, deleted, replies, unroutable>>
  BY SavedRecords
<1>2. PICK s \in State :
        /\ SaveOK(s) \/ SaveFails(s)
        /\ \A c \in CommentIds :
             commentOn[c] # None /\ s.issueToNote[commentOn[c]] # None =>
               mem.issueToNote[commentOn[c]] # None \/ c > mem.lastCommentID
  BY SavedRecords
<1>3. mem'.issueToNote = s.issueToNote /\ (disk' = mem' \/ disk' = disk)
  BY <1>2, SaveEffect DEF BridgeInv, TypeOK, StateTypeOK
<1>4. /\ mem.lastCommentID \in Nat /\ disk.lastCommentID \in Nat
      /\ disk.lastCommentID <= mem.lastCommentID
      /\ \A c \in CommentIds : c \in Nat
  BY StateAssumption
  DEF BridgeInv, TypeOK, StateTypeOK, State, CommentIds, LinkInv, Continues
<1>5. ASSUME NEW c \in CommentIds,
             commentOn'[c] # None, disk'.issueToNote[commentOn'[c]] # None,
             c <= disk.lastCommentID
      PROVE  commentOn[c] # None /\ disk.issueToNote[commentOn[c]] # None
  BY <1>1, <1>2, <1>3, <1>4, <1>5 DEF BridgeInv, AheadInv, LinkedLate
<1>6. Appends
  <2>1. UNCHANGED pdsIssues
    BY DEF SetRepo, SetRepoFails, LinkIssue, LinkIssueFails, MarkSeenNote,
           MarkSeenNoteFails, MarkDelivered, MarkDeliveredFails,
           SetCommentCursor, SetCommentCursorFails, worldVars, tangledVars
  <2>2. QED BY <1>1, <2>1 DEF Appends
<1>7. QED BY <1>1, <1>5, <1>6, RelaySettles

LEMMA PostSettles ==
  ASSUME BridgeInv, BridgeInv', NEW c \in CommentIds, NEW i \in Issues,
         PostComment(c, i), UNCHANGED disk
  PROVE  Relay!Settle
<1> USE DEF PostComment, tangledVars, ledgerVars
<1>1. /\ disk.lastCommentID \in Nat
      /\ \A d \in CommentIds : d \in Nat
  BY StateAssumption DEF BridgeInv, TypeOK, StateTypeOK, State, CommentIds
<1>2. disk.lastCommentID < c
  BY <1>1 DEF BridgeInv, RelayInv, CursorsBehind
<1>3. \A d \in CommentIds : commentOn'[d] = IF d = c THEN i ELSE commentOn[d]
  BY DEF BridgeInv, TypeOK, WorldTypeOK
<1>4. Appends /\ Continues(disk, disk')
  BY <1>1, <1>3 DEF Appends, Continues
<1>5. QED BY <1>1, <1>2, <1>3, <1>4, RelaySettles

(* Only a comment of the batch is sent, and the batch is past the cursor.  *)
LEMMA ReplySends ==
  ASSUME BridgeInv, NEW c \in CommentIds, Reply(c) \/ ReplyAnswerLost(c)
  PROVE  Relay!Send(c)
<1>1. /\ c \in batch
      /\ replies' = [replies EXCEPT ![c] = @ + 1]
      /\ UNCHANGED <<disk, commentOn, deleted, unroutable>>
  BY DEF Reply, ReplyAnswerLost, Attempts, IsNext, GraftAccepts, rowVars
<1>2. /\ mem.lastCommentID \in Nat /\ disk.lastCommentID \in Nat
      /\ disk.lastCommentID <= mem.lastCommentID /\ c \in Nat
  BY StateAssumption
  DEF BridgeInv, TypeOK, StateTypeOK, State, CommentIds, LinkInv, Continues
<1>3. c \notin 1..disk.lastCommentID
  BY <1>1, <1>2 DEF BridgeInv, AheadInv, BatchAhead
<1>4. QED BY <1>1, <1>3 DEF Relay!Send

LEMMA RelayRefinesStep ==
  BridgeInv /\ BridgeInv' /\ [Next]_vars => [Relay!Next]_(Relay!vars)
<1> SUFFICES ASSUME BridgeInv, BridgeInv', [Next]_vars
             PROVE  [Relay!Next]_(Relay!vars)
  OBVIOUS
<1>1. TypeOK /\ Continues(disk, disk')
  <2>1. TypeOK /\ LinkInv /\ disk \in State
    BY DEF BridgeInv, TypeOK, StateTypeOK
  <2>2. CASE UNCHANGED vars
    BY <2>1, <2>2 DEF vars, stateVars, Continues, State
  <2>3. CASE ~UNCHANGED vars
    BY <2>1, <2>3, LinkStep
  <2>4. QED BY <2>1, <2>2, <2>3
<1>2. CASE /\ UNCHANGED <<disk, commentOn, replies>>
           /\ UNCHANGED (deleted \cup unroutable)
  BY <1>2 DEF Relay!vars
<1>3. CASE Quiet
  BY <1>2, <1>3 DEF Quiet
<1>4. CASE \/ SetRepo \/ SetRepoFails \/ LinkIssue \/ LinkIssueFails
           \/ MarkSeenNote \/ MarkSeenNoteFails
           \/ MarkDelivered \/ MarkDeliveredFails
           \/ SetCommentCursor \/ SetCommentCursorFails
  BY <1>1, <1>4, SavesSettle DEF Relay!Next
<1>5. CASE \E c \in CommentIds, i \in Issues :
             PostComment(c, i) /\ UNCHANGED <<mem, disk, batch>>
  BY <1>5, PostSettles DEF Relay!Next
<1>6. CASE \E c \in CommentIds : Reply(c) \/ ReplyAnswerLost(c)
  BY <1>6, ReplySends DEF Relay!Next
<1>7. CASE \E c \in CommentIds :
             \/ SkipUnroutable(c)
             \/ DeleteComment(c) /\ UNCHANGED <<mem, disk, batch>>
  <2>1. PICK c \in CommentIds :
               \/ SkipUnroutable(c)
               \/ DeleteComment(c) /\ UNCHANGED <<mem, disk, batch>>
    BY <1>7
  <2>2. /\ UNCHANGED <<disk, commentOn, replies>>
        /\ (deleted \cup unroutable)' = (deleted \cup unroutable) \cup {c}
    BY <2>1 DEF SkipUnroutable, DeleteComment, stateVars, rowVars, ledgerVars
  <2>3. CASE c \in deleted \cup unroutable
    BY <1>2, <2>2, <2>3
  <2>4. CASE c \notin deleted \cup unroutable
    <3>1. Relay!Excuse(c)
      BY <2>2, <2>4 DEF Relay!Excuse
    <3>2. QED BY <3>1 DEF Relay!Next
  <2>5. QED BY <2>3, <2>4
<1>8. QED BY <1>1, <1>3, <1>4, <1>5, <1>6, <1>7, StepKinds

(* The bridge relays at least once: through crashes, restarts and failed   *)
(* saves no owed comment is crossed off before it reached Graft, and none  *)
(* is sent again once the file has the cursor past it (bridge.go:168-174). *)
THEOREM RelayImplementsAtLeastOnce == Spec => RelaysAtLeastOnce
BY RelayRefinesInit, RelayRefinesStep, BridgeInvHolds, PTL
DEF Spec, RelaysAtLeastOnce, Relay!Spec
=============================================================================
