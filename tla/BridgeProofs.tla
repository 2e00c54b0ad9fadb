---------------------------- MODULE BridgeProofs ----------------------------
(***************************************************************************)
(* What holds of the bridge for every value of the constants.              *)
(***************************************************************************)
EXTENDS Bridge, TLAPS

-----------------------------------------------------------------------------
(* Pruning a state record: only dedup entries change, and only to None.    *)
LEMMA PruneFields ==
  ASSUME NEW s \in State, now \in Nat
  PROVE  /\ Prune(s) \in State
         /\ Prune(s).repos = s.repos
         /\ Prune(s).issueByNote = s.issueByNote
         /\ Prune(s).issueToNote = s.issueToNote
         /\ Prune(s).lastCommentID = s.lastCommentID
         /\ \A c \in CommentIds : Prune(s).delivered[c] \in {s.delivered[c], None}
         /\ \A n \in Notes : Prune(s).seenNotes[n] \in {s.seenNotes[n], None}
BY StateAssumption DEF Prune, Fresh, State

(* What each mutator leaves in memory is a state record again.             *)
LEMMA MutatorTypes ==
  ASSUME NEW s \in State, now \in Nat
  PROVE  /\ \A x \in Series : WithRepo(s, x) \in State
         /\ \A n \in Notes, u \in URIs : WithLink(s, n, u) \in State
         /\ \A n \in Notes : WithSeen(s, n) \in State
         /\ \A c \in CommentIds : WithDelivered(s, c) \in State
         /\ \A k \in Nat : WithCursor(s, k) \in State
         /\ \A x \in Series : WithRepo(s, x).lastCommentID = s.lastCommentID
         /\ \A n \in Notes, u \in URIs :
              WithLink(s, n, u).lastCommentID = s.lastCommentID
         /\ \A n \in Notes : WithSeen(s, n).lastCommentID = s.lastCommentID
         /\ \A c \in CommentIds :
              WithDelivered(s, c).lastCommentID = s.lastCommentID
         /\ \A k \in Nat : WithCursor(s, k).lastCommentID = k
BY DEF State, WithRepo, WithLink, WithSeen, WithDelivered, WithCursor, Stamped

-----------------------------------------------------------------------------
(* A save of a well-typed record with a cursor in range keeps the types of *)
(* the state variables.                                                    *)
LEMMA SaveTypes ==
  ASSUME NEW s \in State, s.lastCommentID <= MaxComments, StateTypeOK,
         disk.lastCommentID <= MaxComments,
         SaveOK(s) \/ SaveFails(s)
  PROVE  /\ StateTypeOK'
         /\ mem'.lastCommentID <= MaxComments
         /\ disk'.lastCommentID <= MaxComments
<1>1. Prune(s) \in State /\ Prune(s).lastCommentID = s.lastCommentID
  BY PruneFields DEF StateTypeOK
<1>2. CASE SaveOK(s)
  BY <1>1, <1>2 DEF StateTypeOK, SaveOK, SaveInMemory
<1>3. CASE SaveFails(s)
  BY <1>1, <1>3 DEF StateTypeOK, SaveFails, SaveInMemory, Fault, Strike
<1>4. QED BY <1>2, <1>3

(* The initial states have their types.                                    *)
LEMMA TypeInit == Init => TypeOK
<1>1. SUFFICES ASSUME Init PROVE TypeOK
  OBVIOUS
<1>2. EmptyState(Provisioned) \in State /\ EmptyState(Provisioned).lastCommentID = 0
  BY StateAssumption, WorldAssumption DEF EmptyState, State
<1>3. StateTypeOK
  BY <1>1, <1>2 DEF Init, StateInit, StateTypeOK
<1>4. WorldTypeOK
  BY <1>1, WorldAssumption
  DEF Init, WorldInit, WorldTypeOK, FwdIdle, RevIdle, Rkeys, URIs
<1>5. LocalsOK
  BY <1>1, <1>2, StateAssumption DEF Init, StateInit, WorldInit, LocalsOK, FwdIdle, RevIdle
<1>6. QED BY <1>3, <1>4, <1>5 DEF TypeOK

(* A step that touches no state record keeps the types of all of them.     *)
LEMMA StateTypesKept ==
  ASSUME StateTypeOK, UNCHANGED <<mem, disk, now, pruned>>,
         UNCHANGED faults \/ \E kinds \in SUBSET FaultKinds : Strike(kinds)
  PROVE  StateTypeOK'
BY DEF StateTypeOK, Strike

(* Forgetting the locals of a pass, as its end and a crash do, keeps the   *)
(* types of the world and of the locals.                                   *)
LEMMA ResetTypes ==
  ASSUME WorldTypeOK, ResetFwd, ResetRev, pc' \in {"idle", "down"},
         UNCHANGED <<worldVars, host>>,
         mem'.lastCommentID <= MaxComments, disk'.lastCommentID <= MaxComments
  PROVE  WorldTypeOK' /\ LocalsOK'
<1> USE StateAssumption
    DEF ResetFwd, ResetRev, worldVars, tangledVars, rowVars, ledgerVars
<1>1. WorldTypeOK'
  BY DEF WorldTypeOK, PassPoints
<1>2. LocalsOK'
  BY DEF LocalsOK
<1>3. QED BY <1>1, <1>2

(* A pass that ends, or dies, leaves well-typed locals behind.             *)
LEMMA EndPassTypes ==
  ASSUME WorldTypeOK, EndPass, UNCHANGED <<worldVars, host>>,
         mem'.lastCommentID <= MaxComments, disk'.lastCommentID <= MaxComments
  PROVE  WorldTypeOK' /\ LocalsOK'
BY ResetTypes DEF EndPass

(* The forward mirror keeps the types.                                     *)
LEMMA TypeForward == TypeOK /\ ForwardStep => TypeOK'
<1> SUFFICES ASSUME TypeOK, ForwardStep PROVE TypeOK'
  OBVIOUS
<1> USE StateAssumption, WorldAssumption
    DEF TypeOK, WorldTypeOK, LocalsOK, PassPoints,
        stateVars, worldVars, tangledVars, rowVars, ledgerVars, fwdVars,
        revVars, SkipSeries, EndPass, ResetFwd, ResetRev, Fault
<1>1. CASE FetchOutbox \/ OutboxUnavailable \/ SeriesDone \/ NotesDone
  BY <1>1, StateTypesKept
  DEF FetchOutbox, OutboxUnavailable, SeriesDone, NotesDone, ParseNotes
<1>2. CASE RepoKnown \/ KnotCreates \/ KnotRefuses
  BY <1>2, StateTypesKept DEF RepoKnown, KnotCreates, KnotRefuses, Cur, Series
<1>3. CASE KnotAnswerLost
  BY <1>3, StateTypesKept DEF KnotAnswerLost, Cur, Series, FaultKinds
<1>4. CASE Announce \/ AnnounceBlank \/ AnnounceRefused \/ AnnounceAnswerLost
  BY <1>4, StateTypesKept
  DEF Announce, AnnounceBlank, AnnounceRefused, AnnounceAnswerLost, Cur, Series,
      Rkeys, FaultKinds, URIs
<1>5. CASE IndexRepo
  BY <1>5, StateTypesKept DEF IndexRepo, Cur, Series, FaultKinds
<1>6. CASE SetRepo \/ SetRepoFails
  <2>1. Cur \in Series
    BY <1>6 DEF SetRepo, SetRepoFails, Cur, Series
  <2>2. StateTypeOK' /\ mem'.lastCommentID <= MaxComments /\ disk'.lastCommentID <= MaxComments
    <3> DEFINE s == WithRepo(mem, Cur)
    <3>1. s \in State /\ s.lastCommentID = mem.lastCommentID
      BY <2>1, MutatorTypes DEF StateTypeOK
    <3>2. SaveOK(s) \/ SaveFails(s)
      BY <1>6 DEF SetRepo, SetRepoFails
    <3> HIDE DEF s
    <3>3. QED BY <3>1, <3>2, SaveTypes
  <2>3. CASE SetRepo
    BY <2>2, <2>3 DEF SetRepo
  <2>4. CASE SetRepoFails
    BY <2>2, <2>4 DEF SetRepoFails
  <2>5. QED BY <1>6, <2>3, <2>4
<1>7. CASE \E n \in Notes : SkipNote(n) \/ CreateIssueRefused(n)
  BY <1>7, StateTypesKept DEF SkipNote, CreateIssueRefused
<1>8. CASE \E n \in Notes : CreateIssue(n) \/ CreateIssueBlank(n) \/ CreateIssueAnswerLost(n)
  <2>1. PICK n \in Notes, i \in Issues :
               /\ MintIssue(n, i)
               /\ UNCHANGED faults \/ Fault("blank") \/ Fault("lost")
               /\ \/ note' = n /\ issue' \in {i, NoURI} /\ pc' = "indexIssue"
                  \/ UNCHANGED <<note, issue, pc>>
    BY <1>8 DEF CreateIssue, CreateIssueBlank, CreateIssueAnswerLost
  <2>2. StateTypeOK'
    BY <2>1, StateTypesKept DEF MintIssue, FaultKinds
  <2>3. pdsIssues' \in [Issues -> Notes \cup {None}]
    BY <2>1 DEF MintIssue
  <2>4. QED BY <2>1, <2>2, <2>3 DEF MintIssue, URIs
<1>9. CASE IndexIssue
  <2>1. StateTypeOK'
    BY <1>9, StateTypesKept DEF IndexIssue, FaultKinds
  <2>2. QED BY <1>9, <2>1 DEF IndexIssue
<1>10. CASE LinkIssue \/ LinkIssueFails
  <2>1. note \in Notes /\ issue \in URIs
    BY <1>10 DEF LinkIssue, LinkIssueFails
  <2>2. StateTypeOK' /\ mem'.lastCommentID <= MaxComments /\ disk'.lastCommentID <= MaxComments
    <3> DEFINE s == WithLink(mem, note, issue)
    <3>1. s \in State /\ s.lastCommentID = mem.lastCommentID
      BY <2>1, MutatorTypes DEF StateTypeOK
    <3>2. SaveOK(s) \/ SaveFails(s)
      BY <1>10 DEF LinkIssue, LinkIssueFails
    <3> HIDE DEF s
    <3>3. QED BY <3>1, <3>2, SaveTypes
  <2>3. CASE LinkIssue
    BY <2>2, <2>3 DEF LinkIssue
  <2>4. CASE LinkIssueFails
    BY <2>2, <2>4, EndPassTypes DEF LinkIssueFails
  <2>5. QED BY <1>10, <2>3, <2>4
<1>11. CASE MarkSeenNote \/ MarkSeenNoteFails
  <2>1. note \in Notes
    BY <1>11 DEF MarkSeenNote, MarkSeenNoteFails
  <2>2. StateTypeOK' /\ mem'.lastCommentID <= MaxComments /\ disk'.lastCommentID <= MaxComments
    <3> DEFINE s == WithSeen(mem, note)
    <3>1. s \in State /\ s.lastCommentID = mem.lastCommentID
      BY <2>1, MutatorTypes DEF StateTypeOK
    <3>2. SaveOK(s) \/ SaveFails(s)
      BY <1>11 DEF MarkSeenNote, MarkSeenNoteFails
    <3> HIDE DEF s
    <3>3. QED BY <3>1, <3>2, SaveTypes
  <2>3. CASE MarkSeenNote
    BY <2>2, <2>3 DEF MarkSeenNote
  <2>4. CASE MarkSeenNoteFails
    BY <2>2, <2>4, EndPassTypes DEF MarkSeenNoteFails
  <2>5. QED BY <1>11, <2>3, <2>4
<1>12. QED
  BY <1>1, <1>2, <1>3, <1>4, <1>5, <1>6, <1>7, <1>8, <1>9, <1>10, <1>11
  DEF ForwardStep, EnsureRepo, MirrorNote

(* The reverse mirror keeps the types.                                     *)
LEMMA TypeReverse == TypeOK /\ ReverseStep => TypeOK'
<1> SUFFICES ASSUME TypeOK, ReverseStep PROVE TypeOK'
  OBVIOUS
<1> USE StateAssumption, WorldAssumption
    DEF TypeOK, WorldTypeOK, LocalsOK, PassPoints,
        stateVars, worldVars, tangledVars, rowVars, ledgerVars, fwdVars,
        revVars, Fault, IsNext, Advance
<1>1. CASE NothingWatched \/ ReadFails \/ CursorStays
  BY <1>1, StateTypesKept, EndPassTypes DEF NothingWatched, ReadFails, CursorStays
<1>2. CASE ReadComments
  <2>1. \A c \in NewComments : commentOn[c] # None
    BY DEF NewComments, WatchedIssues, URIs
  <2>2. mem.lastCommentID \in Nat
    BY DEF StateTypeOK, State
  <2>3. QED BY <1>2, <2>1, <2>2, StateTypesKept DEF ReadComments, NewComments
<1>3. CASE \E c \in CommentIds : SkipComment(c) \/ StopAtLimit(c) \/ SkipUnroutable(c)
  <2>1. CASE \E c \in CommentIds : SkipComment(c) \/ SkipUnroutable(c)
    <3>1. PICK c \in CommentIds : SkipComment(c) \/ SkipUnroutable(c)
      BY <2>1
    <3>2. maxID' \in Nat /\ maxID' <= MaxComments
      BY <3>1 DEF SkipComment, SkipUnroutable, CommentIds
    <3>3. StateTypeOK'
      BY <3>1, StateTypesKept DEF SkipComment, SkipUnroutable
    <3>4. QED BY <3>1, <3>2, <3>3 DEF SkipComment, SkipUnroutable
  <2>2. CASE \E c \in CommentIds : StopAtLimit(c)
    BY <2>2, StateTypesKept DEF StopAtLimit
  <2>3. QED BY <1>3, <2>1, <2>2
<1>4. CASE \E c \in CommentIds : ReplyRefused(c)
  BY <1>4, StateTypesKept DEF ReplyRefused, Attempts
<1>5. CASE \E c \in CommentIds : Reply(c) \/ ReplyAnswerLost(c)
  <2>1. PICK c \in CommentIds, failed \in Lookups :
               /\ Attempts(c)
               /\ GraftAccepts(c, failed)
               /\ batch' = batch \ {c}
               /\ UNCHANGED <<mem, disk, now, pruned, host, fwdVars, maxID, sent>>
               /\ \/ /\ Strike(failed) /\ cur' = c /\ pc' = "mark"
                     /\ UNCHANGED frozen
                  \/ /\ Strike(failed \cup {"lost"}) /\ frozen' = TRUE
                     /\ UNCHANGED <<pc, cur>>
    BY <1>5 DEF Reply, ReplyAnswerLost
  <2>2. StateTypeOK'
    BY <2>1, StateTypesKept DEF Lookups, FaultKinds
  <2>3. NoteForIssue(c) \in Notes /\ commentOn[c] # None
    BY <2>1 DEF Attempts, Skipped, NoteForIssue, StateTypeOK, State, URIs
  <2>4. WorldTypeOK'
    <3>1. replies' \in [CommentIds -> Nat] /\ routed' \subseteq CommentIds \X Notes
      BY <2>1, <2>3 DEF GraftAccepts
    <3>2. trackless' \subseteq CommentIds
      BY <2>1 DEF GraftAccepts
    <3>3. cur' \in CommentIds \cup {None} /\ frozen' \in BOOLEAN
      BY <2>1
    <3>4. QED BY <2>1, <3>1, <3>2, <3>3 DEF GraftAccepts
  <2>5. LocalsOK'
    BY <2>1, <2>3 DEF GraftAccepts
  <2>6. QED BY <2>2, <2>4, <2>5
<1>6. CASE MarkDelivered \/ MarkDeliveredFails
  <2>1. cur \in CommentIds /\ cur \in Nat /\ cur <= MaxComments
    BY <1>6 DEF MarkDelivered, MarkDeliveredFails, CommentIds
  <2>2. StateTypeOK' /\ mem'.lastCommentID <= MaxComments /\ disk'.lastCommentID <= MaxComments
    <3> DEFINE s == WithDelivered(mem, cur)
    <3>1. s \in State /\ s.lastCommentID = mem.lastCommentID
      BY <2>1, MutatorTypes DEF StateTypeOK
    <3>2. SaveOK(s) \/ SaveFails(s)
      BY <1>6 DEF MarkDelivered, MarkDeliveredFails
    <3> HIDE DEF s
    <3>3. QED BY <3>1, <3>2, SaveTypes
  <2>3. CASE MarkDelivered
    BY <2>1, <2>2, <2>3 DEF MarkDelivered
  <2>4. CASE MarkDeliveredFails
    BY <2>2, <2>4, EndPassTypes DEF MarkDeliveredFails
  <2>5. QED BY <1>6, <2>3, <2>4
<1>7. CASE SetCommentCursor \/ SetCommentCursorFails
  <2>1. StateTypeOK' /\ mem'.lastCommentID <= MaxComments /\ disk'.lastCommentID <= MaxComments
    <3> DEFINE s == WithCursor(mem, maxID)
    <3>1. s \in State /\ s.lastCommentID = maxID
      BY MutatorTypes DEF StateTypeOK
    <3>2. SaveOK(s) \/ SaveFails(s)
      BY <1>7 DEF SetCommentCursor, SetCommentCursorFails
    <3> HIDE DEF s
    <3>3. QED BY <3>1, <3>2, SaveTypes
  <2>2. QED BY <1>7, <2>1, EndPassTypes DEF SetCommentCursor, SetCommentCursorFails
<1>8. QED
  BY <1>1, <1>2, <1>3, <1>4, <1>5, <1>6, <1>7 DEF ReverseStep, RelayComment

(* Starting, dying and being restarted keep the types.                     *)
LEMMA TypeProcess == TypeOK /\ (StartPass \/ Crash \/ Restart) => TypeOK'
<1> SUFFICES ASSUME TypeOK, StartPass \/ Crash \/ Restart PROVE TypeOK'
  OBVIOUS
<1> USE StateAssumption
    DEF TypeOK, WorldTypeOK, LocalsOK, PassPoints,
        stateVars, worldVars, tangledVars, rowVars, ledgerVars, fwdVars,
        revVars, ResetFwd, ResetRev
<1>1. CASE StartPass
  BY <1>1, StateTypesKept DEF StartPass
<1>2. CASE Crash
  <2>1. StateTypeOK'
    BY <1>2, StateTypesKept DEF Crash, Fault, FaultKinds
  <2>2. QED BY <1>2, <2>1, ResetTypes DEF Crash
<1>3. CASE Restart
  BY <1>3 DEF Restart, Load, StateTypeOK
<1>4. QED BY <1>1, <1>2, <1>3

(* The world and the clock keep the types.                                 *)
LEMMA TypeEnvironment == TypeOK /\ Environment => TypeOK'
<1> SUFFICES ASSUME TypeOK, Environment PROVE TypeOK'
  OBVIOUS
<1> USE StateAssumption
    DEF TypeOK, WorldTypeOK, LocalsOK, PassPoints,
        stateVars, worldVars, tangledVars, rowVars, ledgerVars, fwdVars,
        revVars
<1>1. CASE World /\ UNCHANGED <<stateVars, host, pc, fwdVars, revVars>>
  <2>1. CASE \E n \in Notes : Publish(n) \/ Retire(n)
    BY <1>1, <2>1, StateTypesKept DEF Publish, Retire
  <2>2. CASE \E c \in CommentIds, i \in Issues : PostComment(c, i)
    <3>1. PICK c \in CommentIds, i \in Issues : PostComment(c, i)
      BY <2>2
    <3>2. commentOn' \in [CommentIds -> Issues \cup {None}]
          /\ \A d \in CommentIds : commentOn[d] # None => commentOn'[d] # None
      BY <3>1 DEF PostComment, URIs
    <3>3. QED BY <1>1, <3>1, <3>2, StateTypesKept DEF PostComment
  <2>3. CASE \E c \in CommentIds : DeleteComment(c)
    BY <1>1, <2>3, StateTypesKept DEF DeleteComment
  <2>4. CASE \E x \in Deletable : DeleteRow(x)
    BY <1>1, <2>4, StateTypesKept, WorldAssumption DEF DeleteRow
  <2>5. QED BY <1>1, <2>1, <2>2, <2>3, <2>4 DEF World
<1>2. CASE Tick /\ UNCHANGED <<mem, disk, faults, pruned, worldVars, host, pc,
                                fwdVars, revVars>>
  BY <1>2 DEF Tick, StateTypeOK
<1>3. QED BY <1>1, <1>2 DEF Environment

(* TypeOK is inductive by itself.                                          *)
LEMMA TypeStep == TypeOK /\ [Next]_vars => TypeOK'
<1> SUFFICES ASSUME TypeOK, [Next]_vars PROVE TypeOK'
  OBVIOUS
<1>1. CASE UNCHANGED vars
  BY <1>1
  DEF vars, TypeOK, StateTypeOK, WorldTypeOK, LocalsOK, stateVars, worldVars,
      tangledVars, rowVars, ledgerVars, fwdVars, revVars
<1>2. CASE Next
  BY <1>2, TypeForward, TypeReverse, TypeProcess, TypeEnvironment
  DEF Next, RunOnce
<1>3. QED BY <1>1, <1>2

(* Every reachable state is well typed.                                    *)
THEOREM TypeCorrect == Spec => []TypeOK
BY TypeInit, TypeStep, PTL DEF Spec
=============================================================================
