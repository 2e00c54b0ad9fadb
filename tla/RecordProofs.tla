----------------------------- MODULE RecordProofs -----------------------------
(***************************************************************************)
(* What the bridge's record of links, dedup entries and repos, in memory   *)
(* and in the state file, says of the world, for every value of the        *)
(* constants: links lead where the issues came from, the file only grows,  *)
(* recorded repos exist, and what is linked was indexed.                   *)
(***************************************************************************)
EXTENDS BridgeProofs

-----------------------------------------------------------------------------
(* Links                                                                   *)

(* A record's links are true, lead back, and exist for what counts as      *)
(* mirrored.  The link of the empty URI is nobody's: BlankInv below.       *)
LinksTrue(s) ==
  \A u \in Issues : s.issueToNote[u] # None => pdsIssues[u] = s.issueToNote[u]

LinksBack(s) ==
  \A n \in Notes : s.issueByNote[n] \in Issues => s.issueToNote[s.issueByNote[n]] = n

SeenLinked(s) ==
  \A n \in Notes : s.seenNotes[n] # None => s.issueByNote[n] # None

LinksOK(s) == LinksTrue(s) /\ LinksBack(s) /\ SeenLinked(s)

(* What the pass knows of the note at hand.                                *)
NoteAtHand ==
  /\ pc \in {"indexIssue", "link"} /\ issue \in Issues => pdsIssues[issue] = note
  /\ pc = "seen" => mem.issueByNote[note] # None

Routes ==
  \A r \in routed : commentOn[r[1]] # None /\ pdsIssues[commentOn[r[1]]] = r[2]

LinkInv ==
  /\ LinksOK(mem) /\ LinksOK(disk)
  /\ Continues(disk, mem)
  /\ NoteAtHand
  /\ Routes

LEMMA LinkInit == Init => LinkInv
<1> SUFFICES ASSUME Init PROVE LinkInv
  OBVIOUS
<1>1. /\ mem = EmptyState(Provisioned) /\ disk = EmptyState(Provisioned)
      /\ pc = "idle" /\ routed = {}
  BY DEF Init, StateInit, WorldInit
<1>2. LinksOK(mem) /\ LinksOK(disk)
  BY <1>1, StateAssumption
  DEF LinksOK, LinksTrue, LinksBack, SeenLinked, EmptyState, URIs
<1>3. Continues(disk, mem) /\ NoteAtHand /\ Routes
  BY <1>1 DEF Continues, NoteAtHand, Routes, EmptyState
<1>4. QED BY <1>2, <1>3 DEF LinkInv

(* Records in PDS and comment rows are only ever added.                    *)
Appends ==
  /\ \A u \in Issues : pdsIssues[u] # None => pdsIssues'[u] = pdsIssues[u]
  /\ \A c \in CommentIds : commentOn[c] # None => commentOn'[c] = commentOn[c]

(* What is true of a record stays so when the world appends.               *)
LEMMA LinksStay ==
  ASSUME TypeOK, Appends, NEW s \in State, LinksOK(s)
  PROVE  LinksOK(s)'
BY DEF LinksOK, LinksTrue, LinksBack, SeenLinked, Appends, State, URIs

(* Replies stay routed to where the issue came from.                       *)
LEMMA RoutesStay ==
  ASSUME TypeOK, Appends, Routes, UNCHANGED routed
  PROVE  Routes'
<1> SUFFICES ASSUME NEW r \in routed
             PROVE  commentOn'[r[1]] # None /\ pdsIssues'[commentOn'[r[1]]] = r[2]
  BY DEF Routes
<1>1. /\ r[1] \in CommentIds /\ r[2] \in Notes /\ r[2] # None
      /\ commentOn[r[1]] # None /\ pdsIssues[commentOn[r[1]]] = r[2]
  BY StateAssumption DEF Routes, TypeOK, WorldTypeOK
<1>2. commentOn[r[1]] \in Issues
  BY <1>1 DEF TypeOK, WorldTypeOK
<1>3. QED BY <1>1, <1>2 DEF Appends

(* A step that saves nothing, or loads the file, keeps the links.          *)
LEMMA LinkKept ==
  ASSUME TypeOK, LinkInv, Appends, UNCHANGED <<disk, routed>>,
         mem' \in {mem, disk}, NoteAtHand'
  PROVE  LinkInv' /\ Continues(disk, disk')
<1>1. mem \in State /\ disk \in State
  BY DEF TypeOK, StateTypeOK
<1>2. Continues(disk, disk)
  BY <1>1 DEF Continues, State
<1>3. LinksOK(mem)' /\ LinksOK(disk)'
  <2>1. ASSUME NEW s \in State, LinksOK(s) PROVE LinksOK(s)'
    BY <2>1, LinksStay
  <2>2. QED BY <1>1, <2>1 DEF LinkInv, LinksOK, LinksTrue, LinksBack, SeenLinked
<1>4. Continues(disk', mem')
  BY <1>2 DEF LinkInv
<1>5. QED BY <1>2, <1>3, <1>4, RoutesStay DEF LinkInv

(* Pruning forgets dedup entries, never links, repos or the cursor.        *)
LEMMA PruneLinks ==
  ASSUME TypeOK, NEW s \in State, LinksOK(s)
  PROVE  /\ Prune(s) \in State /\ LinksOK(Prune(s))
         /\ \A r \in State : Continues(r, s) => Continues(r, Prune(s))
BY PruneFields
DEF LinksOK, LinksTrue, LinksBack, SeenLinked, Continues, TypeOK, StateTypeOK

(* A save of a record that is true, leads back and continues the one in    *)
(* memory keeps the links.                                                 *)
LEMMA LinkSave ==
  ASSUME TypeOK, LinkInv, NEW s \in State, SaveOK(s) \/ SaveFails(s),
         LinksOK(s), Continues(mem, s),
         UNCHANGED <<pdsIssues, commentOn, routed>>,
         pc' \notin {"indexIssue", "link"},
         pc' = "seen" => s.issueByNote[note'] # None
  PROVE  LinkInv' /\ Continues(disk, disk')
<1>1. mem \in State /\ disk \in State
  BY DEF TypeOK, StateTypeOK
<1>2. mem' = Prune(s) /\ disk' \in {Prune(s), disk}
  BY DEF SaveOK, SaveFails, SaveInMemory
<1>3. /\ Prune(s) \in State /\ LinksOK(Prune(s))
      /\ Continues(mem, Prune(s))
      /\ Prune(s).issueByNote = s.issueByNote
  BY <1>1, PruneLinks, PruneFields DEF TypeOK, StateTypeOK
<1> DEFINE q == Prune(s)
<1> HIDE DEF q
<1>4. LinksOK(mem)' /\ LinksOK(disk)'
  BY <1>2, <1>3 DEF q, LinkInv, LinksOK, LinksTrue, LinksBack, SeenLinked
<1>5. Continues(disk, q) /\ Continues(q, q) /\ Continues(disk, disk)
  BY <1>1, <1>3 DEF q, LinkInv, Continues, State
<1>6. Continues(disk', mem') /\ Continues(disk, disk')
  BY <1>2, <1>5 DEF q
<1>7. NoteAtHand' /\ Routes'
  BY <1>2, <1>3 DEF LinkInv, NoteAtHand, Routes
<1>8. QED BY <1>4, <1>6, <1>7 DEF LinkInv

(* The forward mirror's links: one record, true and new.                   *)
LEMMA LinkForward ==
  ASSUME TypeOK, LinkInv, ForwardStep
  PROVE  LinkInv' /\ Continues(disk, disk')
<1> USE DEF stateVars, worldVars, tangledVars, rowVars, ledgerVars, fwdVars,
            revVars, SkipSeries, EndPass, ResetFwd, ResetRev
<1>1. mem \in State /\ disk \in State /\ LinksOK(mem)
  BY DEF TypeOK, StateTypeOK, LinkInv
<1>2. CASE \/ FetchOutbox \/ OutboxUnavailable \/ SeriesDone \/ NotesDone
           \/ RepoKnown \/ KnotCreates \/ KnotRefuses \/ KnotAnswerLost
           \/ Announce \/ AnnounceBlank \/ AnnounceRefused
           \/ AnnounceAnswerLost \/ IndexRepo
           \/ \E n \in Notes : SkipNote(n) \/ CreateIssueRefused(n)
  <2>1. /\ UNCHANGED <<mem, disk, routed, pdsIssues, commentOn>>
        /\ pc' \notin {"indexIssue", "link", "seen"}
    BY <1>2
    DEF FetchOutbox, OutboxUnavailable, SeriesDone, NotesDone, RepoKnown,
        KnotCreates, KnotRefuses, KnotAnswerLost, Announce, AnnounceBlank, AnnounceRefused,
        AnnounceAnswerLost, IndexRepo, SkipNote, CreateIssueRefused
  <2>2. QED BY <2>1, LinkKept DEF Appends, NoteAtHand
<1>3. CASE \E n \in Notes : \/ CreateIssue(n) \/ CreateIssueBlank(n)
                            \/ CreateIssueAnswerLost(n)
  <2>1. PICK n \in Notes, i \in Issues :
          /\ MintIssue(n, i)
          /\ \/ pc' = "indexIssue" /\ note' = n /\ issue' \in {i, NoURI}
             \/ pc' = "notes"
    BY <1>3 DEF CreateIssue, CreateIssueBlank, CreateIssueAnswerLost, MintIssue
  <2>2. pdsIssues'[i] = n /\ Appends /\ UNCHANGED <<mem, disk, routed>>
    BY <2>1 DEF MintIssue, Appends, TypeOK, WorldTypeOK
  <2>3. NoteAtHand'
    BY <2>1, <2>2, StateAssumption DEF NoteAtHand
  <2>4. QED BY <2>2, <2>3, LinkKept
<1>4. CASE IndexIssue
  <2>1. /\ UNCHANGED <<mem, disk, routed, pdsIssues, commentOn, note, issue>>
        /\ pc = "indexIssue" /\ pc' = "link"
    BY <1>4 DEF IndexIssue
  <2>2. QED BY <2>1, LinkKept DEF LinkInv, Appends, NoteAtHand
<1>5. CASE SetRepo \/ SetRepoFails
  <2> DEFINE s == WithRepo(mem, Cur)
  <2>1. Cur \in Series /\ pc' \in {"notes", "outbox"}
        /\ UNCHANGED <<pdsIssues, commentOn, routed>>
        /\ (SaveOK(s) \/ SaveFails(s))
    BY <1>5 DEF SetRepo, SetRepoFails, Cur, Series, TypeOK, LocalsOK
  <2>2. s \in State /\ LinksOK(s) /\ Continues(mem, s)
    BY <1>1, <2>1
    DEF WithRepo, State, LinksOK, LinksTrue, LinksBack, SeenLinked, Continues
  <2> HIDE DEF s
  <2>3. QED BY <2>1, <2>2, LinkSave
<1>6. CASE LinkIssue \/ LinkIssueFails
  <2> DEFINE s == WithLink(mem, note, issue)
  <2>1. /\ pc = "link" /\ pc' \in {"seen", "idle"}
        /\ pc' = "seen" => note' = note
        /\ UNCHANGED <<pdsIssues, commentOn, routed>>
        /\ SaveOK(s) \/ SaveFails(s)
    BY <1>6 DEF LinkIssue, LinkIssueFails
  <2>2. note \in Notes /\ issue \in URIs /\ (issue \in Issues => pdsIssues[issue] = note)
    BY <2>1 DEF TypeOK, LocalsOK, LinkInv, NoteAtHand
  <2>3. s \in State
    BY <1>1, <2>2, MutatorTypes DEF TypeOK, StateTypeOK
  <2>4. /\ s.issueByNote = [mem.issueByNote EXCEPT ![note] = issue]
        /\ s.issueToNote = [mem.issueToNote EXCEPT ![issue] = note]
        /\ s.repos = mem.repos /\ s.lastCommentID = mem.lastCommentID
        /\ s.seenNotes = mem.seenNotes
    BY <1>1 DEF WithLink, State
  <2> HIDE DEF s
  <2>5. \A u \in URIs : s.issueToNote[u] = IF u = issue THEN note ELSE mem.issueToNote[u]
    BY <1>1, <2>2, <2>4 DEF State
  <2>6. \A n \in Notes : s.issueByNote[n] = IF n = note THEN issue ELSE mem.issueByNote[n]
    BY <1>1, <2>2, <2>4 DEF State
  <2>7. LinksTrue(s)
    BY <1>1, <2>2, <2>5 DEF LinksOK, LinksTrue, URIs
  <2>8. LinksBack(s)
    <3> SUFFICES ASSUME NEW n \in Notes, s.issueByNote[n] \in Issues
                 PROVE  s.issueToNote[s.issueByNote[n]] = n
      BY DEF LinksBack
    <3>1. CASE n = note
      BY <2>2, <2>5, <2>6, <3>1
    <3>2. CASE n # note
      <4>1. /\ s.issueByNote[n] = mem.issueByNote[n]
            /\ mem.issueToNote[mem.issueByNote[n]] = n
        BY <1>1, <2>6, <3>2 DEF LinksOK, LinksBack
      <4>2. pdsIssues[mem.issueByNote[n]] = n
        BY <1>1, <4>1, StateAssumption DEF LinksOK, LinksTrue
      <4>3. QED BY <2>2, <2>5, <3>2, <4>1, <4>2 DEF URIs
    <3>3. QED BY <3>1, <3>2
  <2>9. SeenLinked(s)
    BY <1>1, <2>2, <2>4, <2>6, StateAssumption DEF LinksOK, SeenLinked
  <2>10. Continues(mem, s)
    BY <1>1, <2>2, <2>4, <2>5 DEF LinksOK, LinksTrue, Continues, State, URIs
  <2>11. pc' = "seen" => s.issueByNote[note'] # None
    BY <2>1, <2>2, <2>6, StateAssumption
  <2>12. QED BY <2>1, <2>3, <2>7, <2>8, <2>9, <2>10, <2>11, LinkSave DEF LinksOK
<1>7. CASE MarkSeenNote \/ MarkSeenNoteFails
  <2> DEFINE s == WithSeen(mem, note)
  <2>1. /\ pc = "seen" /\ pc' \in {"notes", "idle"} /\ note \in Notes
        /\ UNCHANGED <<pdsIssues, commentOn, routed>>
        /\ SaveOK(s) \/ SaveFails(s)
    BY <1>7 DEF MarkSeenNote, MarkSeenNoteFails, TypeOK, LocalsOK
  <2>2. mem.issueByNote[note] # None
    BY <2>1 DEF LinkInv, NoteAtHand
  <2>3. s \in State
    BY <1>1, <2>1, MutatorTypes DEF TypeOK, StateTypeOK
  <2>4. LinksOK(s) /\ Continues(mem, s)
    BY <1>1, <2>1, <2>2
    DEF WithSeen, Stamped, State, LinksOK, LinksTrue, LinksBack, SeenLinked, Continues
  <2> HIDE DEF s
  <2>5. QED BY <2>1, <2>3, <2>4, LinkSave
<1>8. QED
  BY <1>2, <1>3, <1>4, <1>5, <1>6, <1>7 DEF ForwardStep, EnsureRepo, MirrorNote

(* The reverse mirror's links: replies go where they lead.                 *)
LEMMA LinkReverse ==
  ASSUME TypeOK, LinkInv, ReverseStep
  PROVE  LinkInv' /\ Continues(disk, disk')
<1> USE DEF stateVars, worldVars, tangledVars, rowVars, ledgerVars, fwdVars,
            EndPass, ResetFwd, ResetRev
<1>1. mem \in State /\ disk \in State /\ LinksOK(mem)
  BY DEF TypeOK, StateTypeOK, LinkInv
<1>2. CASE \/ NothingWatched \/ ReadComments \/ ReadFails \/ CursorStays
           \/ \E c \in CommentIds : \/ SkipComment(c) \/ StopAtLimit(c)
                                    \/ SkipUnroutable(c) \/ ReplyRefused(c)
  <2>1. /\ UNCHANGED <<mem, disk, routed, pdsIssues, commentOn>>
        /\ pc' \notin {"indexIssue", "link", "seen"}
    BY <1>2 DEF NothingWatched, ReadComments, ReadFails, CursorStays,
                SkipComment, StopAtLimit, SkipUnroutable, ReplyRefused, Attempts
  <2>2. QED BY <2>1, LinkKept DEF Appends, NoteAtHand
<1>3. CASE \E c \in CommentIds : Reply(c) \/ ReplyAnswerLost(c)
  <2>1. PICK c \in CommentIds : Reply(c) \/ ReplyAnswerLost(c)
    BY <1>3
  <2>2. /\ UNCHANGED <<mem, disk, pdsIssues, commentOn>>
        /\ routed' = routed \cup {<<c, NoteForIssue(c)>>}
        /\ NoteForIssue(c) # None
        /\ pc' \in {"mark", "relay"}
    BY <2>1 DEF Reply, ReplyAnswerLost, Attempts, Skipped, GraftAccepts
  <2>3. commentOn[c] \in Issues
    BY <1>1, <2>1, <2>2
    DEF Reply, ReplyAnswerLost, Attempts, IsNext, TypeOK, LocalsOK, WorldTypeOK
  <2>4. pdsIssues[commentOn[c]] = NoteForIssue(c) /\ commentOn[c] # None
    BY <1>1, <2>2, <2>3, StateAssumption DEF LinksOK, LinksTrue, NoteForIssue, URIs
  <2>5. Routes'
    BY <2>2, <2>4 DEF LinkInv, Routes
  <2>6. LinksOK(mem)' /\ LinksOK(disk)' /\ NoteAtHand' /\ Continues(disk', mem')
    BY <2>2 DEF LinkInv, LinksOK, LinksTrue, LinksBack, SeenLinked, NoteAtHand
  <2>7. Continues(disk, disk')
    BY <1>1, <2>2 DEF Continues, State
  <2>8. QED BY <2>5, <2>6, <2>7 DEF LinkInv
<1>4. CASE MarkDelivered \/ MarkDeliveredFails
  <2> DEFINE s == WithDelivered(mem, cur)
  <2>1. /\ pc' \in {"relay", "idle"} /\ cur \in CommentIds
        /\ UNCHANGED <<pdsIssues, commentOn, routed>>
        /\ SaveOK(s) \/ SaveFails(s)
    BY <1>4 DEF MarkDelivered, MarkDeliveredFails, TypeOK, LocalsOK
  <2>2. s \in State
    BY <1>1, <2>1, MutatorTypes DEF TypeOK, StateTypeOK
  <2>3. LinksOK(s) /\ Continues(mem, s)
    BY <1>1 DEF WithDelivered, State, LinksOK, LinksTrue, LinksBack, SeenLinked, Continues
  <2> HIDE DEF s
  <2>4. QED BY <2>1, <2>2, <2>3, LinkSave
<1>5. CASE SetCommentCursor \/ SetCommentCursorFails
  <2> DEFINE s == WithCursor(mem, maxID)
  <2>1. /\ pc' = "idle" /\ maxID > mem.lastCommentID
        /\ UNCHANGED <<pdsIssues, commentOn, routed>>
        /\ SaveOK(s) \/ SaveFails(s)
    BY <1>5 DEF SetCommentCursor, SetCommentCursorFails
  <2>2. s \in State /\ maxID \in Nat
    BY <1>1, MutatorTypes DEF TypeOK, StateTypeOK, WorldTypeOK
  <2>3. LinksOK(s) /\ Continues(mem, s)
    BY <1>1, <2>1, <2>2
    DEF WithCursor, State, LinksOK, LinksTrue, LinksBack, SeenLinked, Continues
  <2> HIDE DEF s
  <2>4. QED BY <2>1, <2>2, <2>3, LinkSave
<1>6. QED BY <1>2, <1>3, <1>4, <1>5 DEF ReverseStep, RelayComment

(* LinkInv is inductive relative to TypeOK, and keeps the file growing.    *)
LEMMA LinkStep ==
  TypeOK /\ LinkInv /\ [Next]_vars => LinkInv' /\ [Continues(disk, disk')]_vars
<1> SUFFICES ASSUME TypeOK, LinkInv, [Next]_vars
             PROVE  LinkInv' /\ [Continues(disk, disk')]_vars
  OBVIOUS
<1> USE DEF stateVars, worldVars, tangledVars, rowVars, ledgerVars, fwdVars,
            revVars
<1>1. CASE UNCHANGED vars
  BY <1>1, LinkKept DEF vars, Appends, LinkInv, NoteAtHand
<1>2. CASE StartPass
  BY <1>2, LinkKept DEF StartPass, Appends, NoteAtHand
<1>3. CASE Crash
  BY <1>3, LinkKept DEF Crash, Appends, NoteAtHand
<1>4. CASE Restart
  BY <1>4, LinkKept DEF Restart, Load, Appends, NoteAtHand
<1>5. CASE Environment
  <2>1. /\ UNCHANGED <<mem, disk, routed, pdsIssues, pc, note, issue>>
        /\ \/ UNCHANGED commentOn
           \/ \E c \in CommentIds, i \in Issues : PostComment(c, i)
    BY <1>5 DEF Environment, World, Publish, Retire, PostComment, DeleteComment, DeleteRow, Tick
  <2>2. Appends
    BY <2>1 DEF Appends, PostComment, TypeOK, WorldTypeOK
  <2>3. QED BY <2>1, <2>2, LinkKept DEF LinkInv, NoteAtHand
<1>6. QED
  BY <1>1, <1>2, <1>3, <1>4, <1>5, LinkForward, LinkReverse DEF Next, RunOnce

LEMMA LinksHold == Spec => [](TypeOK /\ LinkInv)
BY TypeInit, TypeStep, LinkInit, LinkStep, PTL DEF Spec

(* What a restart can fall back to only grows: no failed save, crash or    *)
(* restart moves the cursor in the state file back, forgets a repo or      *)
(* loses or redirects a link (state.go:119-145, 253-260).                  *)
THEOREM FileOnlyGrows == Spec => DurableProgress
<1>1. TypeOK /\ LinkInv /\ [Next]_vars => [Continues(disk, disk')]_vars
  BY LinkStep
<1>2. QED BY <1>1, LinksHold, PTL DEF Spec, DurableProgress

(* Every reply reaches the thread of the note its comment's issue was      *)
(* made from (bridge.go:183-206).                                          *)
THEOREM RepliesRoutedHome == Spec => []RoutedHome
<1>1. LinkInv => RoutedHome
  BY DEF LinkInv, Routes, RoutedHome
<1>2. QED BY <1>1, LinksHold, PTL

-----------------------------------------------------------------------------
(* Repos                                                                   *)

(* The pass has created a repo it has not recorded yet: the slot is its    *)
(* own, and so, once announced, is the announcement.                       *)
NewRepo ==
  /\ pc \in {"announce", "indexRepo", "setRepo"} =>
       /\ Slot(Cur) \in knotRepos
       /\ \A x \in mem.repos \cup disk.repos : Slot(x) # Slot(Cur)
  /\ pc \in {"indexRepo", "setRepo"} => pdsRepos[Rkey[Cur]] = Cur

RepoInv == ReposAnnounced /\ NewRepo

(* The repos an earlier run recorded have distinct keys.                   *)
LEMMA RepoInit == Init => RepoInv
<1> SUFFICES ASSUME Init PROVE RepoInv
  OBVIOUS
<1>1. /\ mem.repos = Provisioned /\ disk.repos = Provisioned /\ pc = "idle"
      /\ knotRepos = {Slot(s) : s \in Provisioned}
      /\ pdsRepos = [r \in Rkeys |->
           IF \E s \in Provisioned : Rkey[s] = r
           THEN CHOOSE s \in Provisioned : Rkey[s] = r
           ELSE None]
  BY DEF Init, StateInit, WorldInit, EmptyState
<1>2. ASSUME NEW x \in Provisioned
      PROVE  Slot(x) \in knotRepos /\ x \in Series /\ pdsRepos[Rkey[x]] = x
  <2>1. x \in Series /\ Rkey[x] \in Rkeys
    BY WorldAssumption DEF Rkeys
  <2>2. (CHOOSE s \in Provisioned : Rkey[s] = Rkey[x]) = x
    BY WorldAssumption
  <2>3. QED BY <1>1, <2>1, <2>2
<1>3. ReposAnnounced
  BY <1>1, <1>2 DEF ReposAnnounced
<1>4. QED BY <1>1, <1>3 DEF RepoInv, NewRepo

(* Knots and announcements untouched, no repo is recorded or about to be   *)
(* that was not before.                                                    *)
LEMMA RepoKept ==
  ASSUME RepoInv, UNCHANGED <<knotRepos, pdsRepos>>,
         mem'.repos \subseteq mem.repos \cup disk.repos,
         disk'.repos \subseteq mem.repos \cup disk.repos,
         \/ pc' \notin {"announce", "indexRepo", "setRepo"}
         \/ pc = "indexRepo" /\ pc' = "setRepo" /\ UNCHANGED si
         \/ UNCHANGED <<pc, si>>
  PROVE  RepoInv'
BY DEF RepoInv, NewRepo, ReposAnnounced, Cur

(* A save that records no repo.                                            *)
LEMMA RepoSave ==
  ASSUME TypeOK, RepoInv, NEW s \in State, SaveOK(s) \/ SaveFails(s),
         s.repos = mem.repos, UNCHANGED <<knotRepos, pdsRepos>>,
         pc' \notin {"announce", "indexRepo", "setRepo"}
  PROVE  RepoInv'
<1>1. mem'.repos = mem.repos /\ disk'.repos \in {mem.repos, disk.repos}
  BY PruneFields DEF SaveOK, SaveFails, SaveInMemory, TypeOK, StateTypeOK
<1>2. QED BY <1>1, RepoKept

LEMMA RepoForward == TypeOK /\ RepoInv /\ ForwardStep => RepoInv'
<1> SUFFICES ASSUME TypeOK, RepoInv, ForwardStep PROVE RepoInv'
  OBVIOUS
<1> USE DEF stateVars, worldVars, tangledVars, rowVars, ledgerVars, fwdVars,
            revVars, SkipSeries, EndPass, ResetFwd, ResetRev
<1>1. mem \in State /\ disk \in State
      /\ mem.repos \subseteq Series /\ disk.repos \subseteq Series
  BY DEF TypeOK, StateTypeOK, State
<1>2. CASE \/ FetchOutbox \/ OutboxUnavailable \/ SeriesDone \/ NotesDone
           \/ RepoKnown \/ KnotRefuses \/ AnnounceRefused \/ IndexRepo
           \/ \E n \in Notes : MirrorNote(n)
           \/ IndexIssue
  <2>1. /\ UNCHANGED <<mem, disk, knotRepos, pdsRepos>>
        /\ \/ pc' \notin {"announce", "indexRepo", "setRepo"}
           \/ pc = "indexRepo" /\ pc' = "setRepo" /\ UNCHANGED si
    BY <1>2
    DEF FetchOutbox, OutboxUnavailable, SeriesDone, NotesDone, RepoKnown,
        KnotRefuses, AnnounceRefused, IndexRepo, MirrorNote, SkipNote,
        CreateIssue, CreateIssueBlank, CreateIssueAnswerLost,
        CreateIssueRefused, MintIssue, IndexIssue
  <2>2. QED BY <2>1, RepoKept
<1>3. CASE KnotCreates \/ KnotAnswerLost
  <2>1. /\ UNCHANGED <<mem, disk, pdsRepos>>
        /\ Slot(Cur) \notin knotRepos
        /\ knotRepos' = knotRepos \cup {Slot(Cur)}
        /\ (pc' = "announce" /\ UNCHANGED si) \/ pc' = "outbox"
    BY <1>3 DEF KnotCreates, KnotAnswerLost
  <2>2. \A x \in mem.repos \cup disk.repos : Slot(x) # Slot(Cur)
    BY <2>1 DEF RepoInv, ReposAnnounced
  <2>3. QED BY <2>1, <2>2 DEF RepoInv, NewRepo, ReposAnnounced, Cur
<1>4. CASE Announce \/ AnnounceBlank \/ AnnounceAnswerLost
  <2>1. /\ UNCHANGED <<mem, disk, knotRepos>>
        /\ pc = "announce" /\ Cur \in Series
        /\ pdsRepos' = [pdsRepos EXCEPT ![Rkey[Cur]] = Cur]
        /\ (pc' = "indexRepo" /\ UNCHANGED si) \/ pc' = "outbox"
    BY <1>4
    DEF Announce, AnnounceBlank, AnnounceAnswerLost, Cur, Series, TypeOK, LocalsOK
  <2>2. \A r \in Rkeys : pdsRepos'[r] = IF r = Rkey[Cur] THEN Cur ELSE pdsRepos[r]
    BY <2>1 DEF TypeOK, WorldTypeOK
  <2>3. \A x \in Series : Rkey[x] \in Rkeys
    BY DEF Rkeys
  <2>4. \A x \in mem.repos \cup disk.repos :
          Rkey[x] = Rkey[Cur] => Knot[Cur] # Knot[x]
    BY <2>1 DEF RepoInv, NewRepo, Slot
  <2>5. ReposAnnounced'
    BY <1>1, <2>1, <2>2, <2>3, <2>4 DEF RepoInv, ReposAnnounced
  <2>6. NewRepo'
    BY <2>1, <2>2, <2>3 DEF RepoInv, NewRepo, Cur
  <2>7. QED BY <2>5, <2>6 DEF RepoInv
<1>5. CASE SetRepo \/ SetRepoFails
  <2> DEFINE s == WithRepo(mem, Cur)
  <2>1. /\ pc = "setRepo" /\ pc' \in {"notes", "outbox"} /\ Cur \in Series
        /\ UNCHANGED <<knotRepos, pdsRepos>>
        /\ SaveOK(s) \/ SaveFails(s)
    BY <1>5 DEF SetRepo, SetRepoFails, Cur, Series, TypeOK, LocalsOK
  <2>2. s \in State /\ s.repos = mem.repos \cup {Cur}
    BY <1>1, <2>1, MutatorTypes DEF WithRepo, State, TypeOK, StateTypeOK
  <2> HIDE DEF s
  <2>3. /\ mem'.repos = mem.repos \cup {Cur}
        /\ disk'.repos \in {mem.repos \cup {Cur}, disk.repos}
    BY <2>1, <2>2, PruneFields
    DEF SaveOK, SaveFails, SaveInMemory, TypeOK, StateTypeOK
  <2>4. Slot(Cur) \in knotRepos /\ pdsRepos[Rkey[Cur]] = Cur
    BY <2>1 DEF RepoInv, NewRepo
  <2>5. ReposAnnounced'
    BY <2>1, <2>3, <2>4 DEF RepoInv, ReposAnnounced
  <2>6. QED BY <2>1, <2>5 DEF RepoInv, NewRepo
<1>6. CASE LinkIssue \/ LinkIssueFails
  <2>1. /\ pc' \in {"seen", "idle"} /\ note \in Notes /\ issue \in URIs
        /\ UNCHANGED <<knotRepos, pdsRepos>>
        /\ SaveOK(WithLink(mem, note, issue)) \/ SaveFails(WithLink(mem, note, issue))
    BY <1>6 DEF LinkIssue, LinkIssueFails, TypeOK, LocalsOK
  <2>2. WithLink(mem, note, issue) \in State
    BY <1>1, <2>1, MutatorTypes DEF TypeOK, StateTypeOK
  <2>3. WithLink(mem, note, issue).repos = mem.repos
    BY <1>1 DEF WithLink, State
  <2>4. QED BY <2>1, <2>2, <2>3, RepoSave
<1>7. CASE MarkSeenNote \/ MarkSeenNoteFails
  <2>1. /\ pc' \in {"notes", "idle"} /\ note \in Notes
        /\ UNCHANGED <<knotRepos, pdsRepos>>
        /\ SaveOK(WithSeen(mem, note)) \/ SaveFails(WithSeen(mem, note))
    BY <1>7 DEF MarkSeenNote, MarkSeenNoteFails, TypeOK, LocalsOK
  <2>2. WithSeen(mem, note) \in State
    BY <1>1, <2>1, MutatorTypes DEF TypeOK, StateTypeOK
  <2>3. WithSeen(mem, note).repos = mem.repos
    BY <1>1 DEF WithSeen, State
  <2>4. QED BY <2>1, <2>2, <2>3, RepoSave
<1>8. QED
  BY <1>2, <1>3, <1>4, <1>5, <1>6, <1>7 DEF ForwardStep, EnsureRepo

LEMMA RepoStep == TypeOK /\ RepoInv /\ [Next]_vars => RepoInv'
<1> SUFFICES ASSUME TypeOK, RepoInv, [Next]_vars PROVE RepoInv'
  OBVIOUS
<1> USE DEF stateVars, worldVars, tangledVars, rowVars, ledgerVars, fwdVars,
            revVars, EndPass
<1>1. CASE /\ UNCHANGED <<disk, knotRepos, pdsRepos>> /\ mem' \in {mem, disk}
           /\ pc' \notin {"announce", "indexRepo", "setRepo"} \/ UNCHANGED <<pc, si>>
  BY <1>1, RepoKept
<1>2. CASE StartPass \/ Crash \/ Restart
  BY <1>1, <1>2 DEF StartPass, Crash, Restart, Load
<1>3. CASE Environment
  BY <1>1, <1>3
  DEF Environment, World, Publish, Retire, PostComment, DeleteComment, DeleteRow, Tick
<1>4. CASE \/ NothingWatched \/ ReadComments \/ ReadFails \/ CursorStays
           \/ \E c \in CommentIds : RelayComment(c)
  BY <1>1, <1>4
  DEF NothingWatched, ReadComments, ReadFails, CursorStays, RelayComment,
      SkipComment, StopAtLimit, SkipUnroutable, Reply, ReplyRefused,
      ReplyAnswerLost, Attempts, GraftAccepts
<1>5. CASE MarkDelivered \/ MarkDeliveredFails
  <2>1. /\ pc' \in {"relay", "idle"} /\ cur \in CommentIds
        /\ UNCHANGED <<knotRepos, pdsRepos>>
        /\ SaveOK(WithDelivered(mem, cur)) \/ SaveFails(WithDelivered(mem, cur))
    BY <1>5 DEF MarkDelivered, MarkDeliveredFails, TypeOK, LocalsOK
  <2>2. WithDelivered(mem, cur) \in State
    BY <2>1, MutatorTypes DEF TypeOK, StateTypeOK
  <2>3. WithDelivered(mem, cur).repos = mem.repos
    BY DEF WithDelivered, State, TypeOK, StateTypeOK
  <2>4. QED BY <2>1, <2>2, <2>3, RepoSave
<1>6. CASE SetCommentCursor \/ SetCommentCursorFails
  <2>1. /\ pc' = "idle" /\ maxID \in Nat
        /\ UNCHANGED <<knotRepos, pdsRepos>>
        /\ SaveOK(WithCursor(mem, maxID)) \/ SaveFails(WithCursor(mem, maxID))
    BY <1>6 DEF SetCommentCursor, SetCommentCursorFails, TypeOK, WorldTypeOK
  <2>2. WithCursor(mem, maxID) \in State
    BY <2>1, MutatorTypes DEF TypeOK, StateTypeOK
  <2>3. WithCursor(mem, maxID).repos = mem.repos
    BY DEF WithCursor, State, TypeOK, StateTypeOK
  <2>4. QED BY <2>1, <2>2, <2>3, RepoSave
<1>7. CASE UNCHANGED vars
  BY <1>1, <1>7 DEF vars
<1>8. QED
  BY <1>2, <1>3, <1>4, <1>5, <1>6, <1>7, RepoForward DEF Next, RunOnce, ReverseStep

(* A recorded repo exists on its knot, and only a series of another knot   *)
(* ever took its announcement over (bridge.go:78-96, client.go:214-218):   *)
(* two series of one knot with one record key are never both recorded.     *)
THEOREM RepoRecordsTrue == Spec => []ReposAnnounced
<1>1. RepoInv => ReposAnnounced
  BY DEF RepoInv
<1>2. QED BY TypeInit, TypeStep, RepoInit, RepoStep, <1>1, PTL DEF Spec

-----------------------------------------------------------------------------
(* The link of the empty URI                                               *)

(* The notes whose issue came back without a URI, linked or about to be.   *)
BlankNotes ==
  {n \in Notes : \/ NoURI \in {mem.issueByNote[n], disk.issueByNote[n]}
                 \/ pc \in {"indexIssue", "link"} /\ issue = NoURI /\ note = n}

BlankLeadsBack(s) ==
  \A n \in Notes : s.issueByNote[n] = NoURI => s.issueToNote[NoURI] = n

(* One blank answer makes one such note; it takes a second for the link of *)
(* the empty URI to be somebody else's.                                    *)
BlankInv ==
  /\ faults["blank"] = 0 => BlankNotes = {}
  /\ faults["blank"] = 1 => \A m, n \in BlankNotes : m = n
  /\ faults["blank"] <= 1 => BlankLeadsBack(mem) /\ BlankLeadsBack(disk)

LEMMA BlankInit == Init => BlankInv
BY StateAssumption
DEF Init, StateInit, WorldInit, EmptyState, FwdIdle, FaultKinds, BlankInv,
    BlankNotes, BlankLeadsBack, URIs

(* A step that makes no new blank note, and records none.                  *)
LEMMA BlankKept ==
  ASSUME TypeOK, BlankInv, faults'["blank"] = faults["blank"],
         BlankNotes' \subseteq BlankNotes,
         faults["blank"] <= 1 => BlankLeadsBack(mem') /\ BlankLeadsBack(disk')
  PROVE  BlankInv'
BY DEF BlankInv, BlankLeadsBack

(* A step without an answer of the PDS that saves nothing, or loads the    *)
(* file, does neither.                                                     *)
LEMMA BlankQuiet ==
  ASSUME TypeOK, BlankInv, faults'["blank"] = faults["blank"],
         UNCHANGED disk, mem' \in {mem, disk},
         \/ pc' \notin {"indexIssue", "link"}
         \/ pc \in {"indexIssue", "link"} /\ UNCHANGED <<note, issue>>
  PROVE  BlankInv'
<1>1. BlankNotes' \subseteq BlankNotes
  BY DEF BlankNotes
<1>2. QED BY <1>1, BlankKept DEF BlankInv, BlankLeadsBack

(* A save that touches no link does neither.                               *)
LEMMA BlankSave ==
  ASSUME TypeOK, BlankInv, NEW s \in State, SaveOK(s) \/ SaveFails(s),
         s.issueByNote = mem.issueByNote, s.issueToNote = mem.issueToNote,
         pc' \notin {"indexIssue", "link"}
  PROVE  BlankInv'
<1>1. /\ mem'.issueByNote = mem.issueByNote /\ mem'.issueToNote = mem.issueToNote
      /\ disk' \in {mem', disk} /\ faults'["blank"] = faults["blank"]
  BY PruneFields
  DEF SaveOK, SaveFails, SaveInMemory, Fault, Strike, FaultKinds, TypeOK, StateTypeOK
<1>2. BlankNotes' \subseteq BlankNotes
  BY <1>1 DEF BlankNotes
<1>3. BlankLeadsBack(mem) /\ BlankLeadsBack(disk)
        => BlankLeadsBack(mem') /\ BlankLeadsBack(disk')
  BY <1>1 DEF BlankLeadsBack
<1>4. QED BY <1>1, <1>2, <1>3, BlankKept DEF BlankInv

(* Linking the note at hand: the only blank one, if it is blank.           *)
LEMMA BlankLink ==
  ASSUME TypeOK, BlankInv, LinkIssue \/ LinkIssueFails
  PROVE  BlankInv'
<1> DEFINE s == WithLink(mem, note, issue)
<1>1. /\ pc = "link" /\ pc' \in {"seen", "idle"}
      /\ note \in Notes /\ issue \in URIs /\ mem \in State
      /\ SaveOK(s) \/ SaveFails(s)
  BY DEF LinkIssue, LinkIssueFails, EndPass, TypeOK, LocalsOK, StateTypeOK
<1>2. s \in State
  BY <1>1, MutatorTypes DEF TypeOK, StateTypeOK
<1>3. /\ \A n \in Notes : s.issueByNote[n] = IF n = note THEN issue ELSE mem.issueByNote[n]
      /\ \A u \in URIs : s.issueToNote[u] = IF u = issue THEN note ELSE mem.issueToNote[u]
  BY <1>1 DEF WithLink, State
<1> HIDE DEF s
<1>4. /\ mem'.issueByNote = s.issueByNote /\ mem'.issueToNote = s.issueToNote
      /\ disk' \in {mem', disk} /\ faults'["blank"] = faults["blank"]
  BY <1>1, <1>2, PruneFields
  DEF SaveOK, SaveFails, SaveInMemory, Fault, Strike, FaultKinds, TypeOK, StateTypeOK
<1>5. BlankNotes' \subseteq BlankNotes
  BY <1>1, <1>3, <1>4 DEF BlankNotes
<1>6. ASSUME faults["blank"] <= 1
      PROVE  BlankLeadsBack(mem')
  <2> SUFFICES ASSUME NEW n \in Notes, mem'.issueByNote[n] = NoURI
               PROVE  mem'.issueToNote[NoURI] = n
    BY DEF BlankLeadsBack
  <2>1. NoURI \in URIs
    BY DEF URIs
  <2>2. CASE issue # NoURI
    BY <1>3, <1>4, <1>6, <2>1, <2>2 DEF BlankInv, BlankLeadsBack
  <2>3. CASE issue = NoURI
    <3>1. note \in BlankNotes
      BY <1>1, <2>3 DEF BlankNotes
    <3>2. n \in BlankNotes
      BY <1>3, <1>4, <3>1 DEF BlankNotes
    <3>3. faults["blank"] = 1
      BY <1>6, <3>1 DEF BlankInv, TypeOK, StateTypeOK, FaultKinds
    <3>4. n = note
      BY <3>1, <3>2, <3>3 DEF BlankInv
    <3>5. QED BY <1>3, <1>4, <2>1, <2>3, <3>4
  <2>4. QED BY <2>2, <2>3
<1>7. QED BY <1>4, <1>5, <1>6, BlankKept DEF BlankInv

(* A blank answer makes one blank note.                                    *)
LEMMA BlankMint ==
  ASSUME TypeOK, BlankInv, NEW n \in Notes, CreateIssueBlank(n)
  PROVE  BlankInv'
<1>1. /\ UNCHANGED <<mem, disk>> /\ pc = "notes"
      /\ faults'["blank"] = faults["blank"] + 1
      /\ note' = n
  BY DEF CreateIssueBlank, MintIssue, Fault, Strike, FaultKinds
<1>2. BlankNotes' \subseteq BlankNotes \cup {n}
  BY <1>1 DEF BlankNotes
<1>3. QED
  BY <1>1, <1>2 DEF BlankInv, BlankLeadsBack, TypeOK, StateTypeOK, FaultKinds

(* Every save but that of a link leaves the links alone; only SetRepo adds *)
(* a repo.                                                                 *)
LEMMA OtherSaves ==
  ASSUME TypeOK,
         \/ SetRepo \/ SetRepoFails \/ MarkSeenNote \/ MarkSeenNoteFails
         \/ MarkDelivered \/ MarkDeliveredFails
         \/ SetCommentCursor \/ SetCommentCursorFails
  PROVE  /\ \E s \in State :
              /\ SaveOK(s) \/ SaveFails(s)
              /\ s.issueByNote = mem.issueByNote
              /\ s.issueToNote = mem.issueToNote
              /\ s.repos \subseteq
                   mem.repos \cup (IF pc = "setRepo" THEN {Cur} ELSE {})
         /\ pc' = "notes" => pc \in {"setRepo", "seen"} /\ UNCHANGED <<si, todo>>
         /\ pc' \in {"notes", "outbox", "relay", "idle"}
         /\ UNCHANGED worldVars
<1> USE DEF EndPass, SkipSeries, fwdVars
<1>1. mem \in State
  BY DEF TypeOK, StateTypeOK
<1>2. CASE SetRepo \/ SetRepoFails
  <2>1. Cur \in Series
    BY <1>2 DEF SetRepo, SetRepoFails, Cur, Series, TypeOK, LocalsOK
  <2>2. WithRepo(mem, Cur) \in State
    BY <1>1, <2>1, MutatorTypes DEF TypeOK, StateTypeOK
  <2>3. /\ WithRepo(mem, Cur).issueByNote = mem.issueByNote
        /\ WithRepo(mem, Cur).issueToNote = mem.issueToNote
        /\ WithRepo(mem, Cur).repos = mem.repos \cup {Cur}
    BY <1>1 DEF WithRepo, State
  <2>4. QED BY <1>2, <2>2, <2>3 DEF SetRepo, SetRepoFails
<1>3. CASE MarkSeenNote \/ MarkSeenNoteFails
  <2>1. note \in Notes
    BY <1>3 DEF MarkSeenNote, MarkSeenNoteFails, TypeOK, LocalsOK
  <2>2. WithSeen(mem, note) \in State
    BY <1>1, <2>1, MutatorTypes DEF TypeOK, StateTypeOK
  <2>3. /\ WithSeen(mem, note).issueByNote = mem.issueByNote
        /\ WithSeen(mem, note).issueToNote = mem.issueToNote
        /\ WithSeen(mem, note).repos = mem.repos
    BY <1>1 DEF WithSeen, State
  <2>4. QED BY <1>3, <2>2, <2>3 DEF MarkSeenNote, MarkSeenNoteFails
<1>4. CASE MarkDelivered \/ MarkDeliveredFails
  <2>1. cur \in CommentIds
    BY <1>4 DEF MarkDelivered, MarkDeliveredFails, TypeOK, LocalsOK
  <2>2. WithDelivered(mem, cur) \in State
    BY <1>1, <2>1, MutatorTypes DEF TypeOK, StateTypeOK
  <2>3. /\ WithDelivered(mem, cur).issueByNote = mem.issueByNote
        /\ WithDelivered(mem, cur).issueToNote = mem.issueToNote
        /\ WithDelivered(mem, cur).repos = mem.repos
    BY <1>1 DEF WithDelivered, State
  <2>4. QED BY <1>4, <2>2, <2>3 DEF MarkDelivered, MarkDeliveredFails
<1>5. CASE SetCommentCursor \/ SetCommentCursorFails
  <2>1. WithCursor(mem, maxID) \in State
    BY <1>1, MutatorTypes DEF TypeOK, StateTypeOK, WorldTypeOK
  <2>2. /\ WithCursor(mem, maxID).issueByNote = mem.issueByNote
        /\ WithCursor(mem, maxID).issueToNote = mem.issueToNote
        /\ WithCursor(mem, maxID).repos = mem.repos
    BY <1>1 DEF WithCursor, State
  <2>3. QED BY <1>5, <2>1, <2>2 DEF SetCommentCursor, SetCommentCursorFails
<1>6. QED BY <1>2, <1>3, <1>4, <1>5

LEMMA BlankStep == TypeOK /\ BlankInv /\ [Next]_vars => BlankInv'
<1> SUFFICES ASSUME TypeOK, BlankInv, [Next]_vars PROVE BlankInv'
  OBVIOUS
<1> USE DEF stateVars, worldVars, tangledVars, rowVars, ledgerVars, fwdVars,
            revVars, EndPass, SkipSeries, ResetFwd, ResetRev
<1>1. CASE /\ UNCHANGED disk /\ mem' \in {mem, disk}
           /\ \/ UNCHANGED faults
              \/ \E kinds \in SUBSET (FaultKinds \ {"blank"}) : Strike(kinds)
           /\ \/ pc' \notin {"indexIssue", "link"}
              \/ pc \in {"indexIssue", "link"} /\ UNCHANGED <<note, issue>>
              \/ pc = pc' /\ UNCHANGED <<note, issue>>
  BY <1>1, BlankQuiet DEF Strike, FaultKinds
<1>2. CASE StartPass \/ Crash \/ Restart \/ Environment \/ UNCHANGED vars
  BY <1>1, <1>2
  DEF StartPass, Crash, Restart, Load, Environment, World, Publish, Retire,
      PostComment, DeleteComment, DeleteRow, Tick, vars, Fault, FaultKinds
<1>3. CASE \/ NothingWatched \/ ReadComments \/ ReadFails \/ CursorStays
           \/ \E c \in CommentIds : RelayComment(c)
  BY <1>1, <1>3
  DEF NothingWatched, ReadComments, ReadFails, CursorStays, RelayComment,
      SkipComment, StopAtLimit, SkipUnroutable, Reply, ReplyRefused,
      ReplyAnswerLost, Attempts, Lookups, FaultKinds
<1>4. CASE \/ FetchOutbox \/ OutboxUnavailable \/ SeriesDone \/ NotesDone
           \/ RepoKnown \/ KnotCreates \/ KnotRefuses \/ KnotAnswerLost
           \/ Announce \/ AnnounceBlank \/ AnnounceRefused
           \/ AnnounceAnswerLost \/ IndexRepo
           \/ IndexIssue
           \/ \E n \in Notes : \/ SkipNote(n) \/ CreateIssueRefused(n)
                              \/ CreateIssueAnswerLost(n)
  BY <1>1, <1>4
  DEF FetchOutbox, OutboxUnavailable, SeriesDone, NotesDone, RepoKnown,
      KnotCreates, KnotRefuses, KnotAnswerLost, Announce, AnnounceBlank, AnnounceRefused,
      AnnounceAnswerLost, IndexRepo, IndexIssue, SkipNote, CreateIssueRefused,
      CreateIssueAnswerLost, MintIssue, Fault, FaultKinds
<1>5. CASE \E n \in Notes : CreateIssue(n)
  <2>1. /\ UNCHANGED <<mem, disk, faults>> /\ issue' # NoURI
    BY <1>5, StateAssumption DEF CreateIssue, MintIssue
  <2>2. BlankNotes' \subseteq BlankNotes
    BY <2>1 DEF BlankNotes
  <2>3. QED BY <2>1, <2>2, BlankKept DEF BlankInv
<1>6. CASE \E n \in Notes : CreateIssueBlank(n)
  BY <1>6, BlankMint
<1>7. CASE LinkIssue \/ LinkIssueFails
  BY <1>7, BlankLink
<1>8. CASE \/ SetRepo \/ SetRepoFails \/ MarkSeenNote \/ MarkSeenNoteFails
           \/ MarkDelivered \/ MarkDeliveredFails
           \/ SetCommentCursor \/ SetCommentCursorFails
  BY <1>8, OtherSaves, BlankSave
<1>9. QED
  BY <1>2, <1>3, <1>4, <1>5, <1>6, <1>7, <1>8
  DEF Next, RunOnce, ForwardStep, EnsureRepo, MirrorNote, ReverseStep

(* IssueToNote is the reverse of IssueByNote (state.go:39-41) as long as   *)
(* at most one issue came back without a URI; two share the key "" and     *)
(* the later takes the link over.                                          *)
THEOREM LinksInvertEachOther == Spec => [](faults["blank"] <= 1 => LinksInvert)
<1>1. TypeOK /\ LinkInv /\ BlankInv => (faults["blank"] <= 1 => LinksInvert)
  <2> SUFFICES ASSUME TypeOK, LinkInv, BlankInv, faults["blank"] <= 1,
                      NEW s \in {mem, disk}, NEW n \in Notes,
                      s.issueByNote[n] # None
               PROVE  s.issueToNote[s.issueByNote[n]] = n
    BY DEF LinksInvert
  <2>1. s.issueByNote[n] \in Issues \/ s.issueByNote[n] = NoURI
    BY DEF TypeOK, StateTypeOK, State, URIs
  <2>2. LinksBack(s) /\ BlankLeadsBack(s)
    BY DEF LinkInv, LinksOK, BlankInv
  <2>3. QED BY <2>1, <2>2 DEF LinksBack, BlankLeadsBack
<1>2. QED BY LinksHold, BlankInit, BlankStep, <1>1, PTL DEF Spec

(* A note that counts as mirrored has an issue that was made from it and   *)
(* leads back to it, in memory and in the file (bridge.go:144-149); only a *)
(* blank answer to createRecord can leave it with the empty URI instead.   *)
THEOREM SeenNotesLinked == Spec => []SeenIsLinked
<1>1. TypeOK /\ LinkInv /\ BlankInv => SeenIsLinked
  <2> SUFFICES ASSUME TypeOK, LinkInv, BlankInv,
                      NEW s \in {mem, disk}, NEW n \in Notes,
                      s.seenNotes[n] # None
               PROVE  Linked(s, n)
    BY DEF SeenIsLinked
  <2>1. LinksTrue(s) /\ LinksBack(s) /\ s.issueByNote[n] # None
    BY DEF LinkInv, LinksOK, SeenLinked
  <2>2. s.issueByNote[n] \in Issues \/ s.issueByNote[n] = NoURI
    BY <2>1 DEF TypeOK, StateTypeOK, State, URIs
  <2>3. CASE s.issueByNote[n] \in Issues
    <3>1. s.issueToNote[s.issueByNote[n]] = n
      BY <2>1, <2>3 DEF LinksBack
    <3>2. pdsIssues[s.issueByNote[n]] = n
      BY <2>1, <2>3, <3>1, StateAssumption DEF LinksTrue
    <3>3. QED BY <2>3, <3>1, <3>2 DEF Linked
  <2>4. CASE s.issueByNote[n] = NoURI
    <3>1. n \in BlankNotes
      BY <2>4 DEF BlankNotes
    <3>2. faults["blank"] > 0
      BY <3>1 DEF BlankInv, TypeOK, StateTypeOK, FaultKinds
    <3>3. QED BY <2>4, <3>2 DEF Linked
  <2>5. QED BY <2>2, <2>3, <2>4
<1>2. QED BY LinksHold, BlankInit, BlankStep, <1>1, PTL DEF Spec

-----------------------------------------------------------------------------
(* Trackbacks                                                              *)

(* The appview knew series x, or an insert failed, or the row of another   *)
(* series, with its record key or without an AT-URI, was in the way; the   *)
(* same of an issue.                                                       *)
SeriesShown(x) ==
  \/ x \in indexed
  \/ faults["index"] > 0
  \/ faults["unnamed"] > 1
  \/ \E t \in Series : t # x /\ Rkey[t] = Rkey[x]

IssueShown(u) == u \in indexed \/ faults["index"] > 0

(* What a record knows was shown: its repos, its issues and their series.  *)
RecordShown(s) ==
  /\ \A x \in s.repos : SeriesShown(x)
  /\ \A u \in URIs :
       s.issueToNote[u] # None =>
         IssueShown(u) /\ SeriesShown(NoteSeries[s.issueToNote[u]])

(* The pass mirrors notes of the series at hand, once that was shown.      *)
PassShown ==
  /\ pc \in {"setRepo", "notes", "indexIssue", "link", "seen"} => SeriesShown(Cur)
  /\ pc \in {"ensure", "announce", "indexRepo", "setRepo", "notes",
             "indexIssue", "link", "seen"} => \A n \in todo : NoteSeries[n] = Cur
  /\ pc \in {"indexIssue", "link"} => NoteSeries[note] = Cur
  /\ pc = "link" => IssueShown(issue)

TracklessTrue ==
  /\ \A c \in trackless : commentOn[c] # None /\ pdsIssues[commentOn[c]] # None
  /\ TracklessExplained

TrackInv ==
  /\ RecordShown(mem) /\ RecordShown(disk)
  /\ PassShown
  /\ TracklessTrue

LEMMA TrackInit == Init => TrackInv
<1> SUFFICES ASSUME Init PROVE TrackInv
  OBVIOUS
<1>1. /\ mem = EmptyState(Provisioned) /\ disk = EmptyState(Provisioned)
      /\ pc = "idle" /\ trackless = {} /\ indexed = Provisioned
  BY DEF Init, StateInit, WorldInit
<1>2. RecordShown(mem) /\ RecordShown(disk)
  BY <1>1 DEF RecordShown, SeriesShown, EmptyState
<1>3. QED
  BY <1>1, <1>2 DEF TrackInv, PassShown, TracklessTrue, TracklessExplained

(* What was indexed or removed counts for good, and no fault is undone.    *)
IndexGrows ==
  /\ indexed \subseteq indexed' /\ removed \subseteq removed'
  /\ faults'["index"] \in Nat /\ faults'["index"] >= faults["index"]
  /\ faults'["unnamed"] \in Nat /\ faults'["unnamed"] >= faults["unnamed"]

(* What is shown stays shown.                                              *)
LEMMA ShownStays ==
  ASSUME TypeOK, IndexGrows
  PROVE  /\ \A x : SeriesShown(x) => SeriesShown(x)'
         /\ \A u : IssueShown(u) => IssueShown(u)'
         /\ \A s \in State : RecordShown(s) => RecordShown(s)'
<1>1. faults["index"] \in Nat /\ faults["unnamed"] \in Nat
  BY DEF TypeOK, StateTypeOK, FaultKinds
<1>2. \A x : SeriesShown(x) => SeriesShown(x)'
  BY <1>1 DEF IndexGrows, SeriesShown
<1>3. \A u : IssueShown(u) => IssueShown(u)'
  BY <1>1 DEF IndexGrows, IssueShown
<1>4. QED BY <1>2, <1>3 DEF RecordShown

(* So do the reasons why replies went out without a trackback.             *)
LEMMA TracklessStays ==
  ASSUME TypeOK, IndexGrows, Appends, TracklessTrue, UNCHANGED trackless
  PROVE  TracklessTrue'
<1> SUFFICES ASSUME NEW c \in trackless
             PROVE  /\ commentOn'[c] # None /\ pdsIssues'[commentOn'[c]] # None
                    /\ \/ ~WebURL
                       \/ faults'["index"] > 0
                       \/ removed' \cap {commentOn'[c],
                                         NoteSeries[pdsIssues'[commentOn'[c]]]} # {}
                       \/ faults'["unnamed"] > 1
                       \/ \E t \in Series :
                            /\ t # NoteSeries[pdsIssues'[commentOn'[c]]]
                            /\ Rkey[t] = Rkey[NoteSeries[pdsIssues'[commentOn'[c]]]]
  BY DEF TracklessTrue, TracklessExplained
<1>1. /\ c \in CommentIds /\ commentOn[c] # None /\ pdsIssues[commentOn[c]] # None
      /\ commentOn[c] \in Issues
  BY DEF TracklessTrue, TypeOK, WorldTypeOK
<1>2. commentOn'[c] = commentOn[c] /\ pdsIssues'[commentOn[c]] = pdsIssues[commentOn[c]]
  BY <1>1 DEF Appends
<1>3. QED
  BY <1>1, <1>2
  DEF TracklessTrue, TracklessExplained, IndexGrows, TypeOK, StateTypeOK, FaultKinds

(* A step that saves nothing, or loads the file, and sends nothing.        *)
LEMMA TrackKept ==
  ASSUME TypeOK, TrackInv, IndexGrows, Appends, UNCHANGED <<disk, trackless>>,
         mem' \in {mem, disk}, PassShown'
  PROVE  TrackInv'
<1>1. mem \in State /\ disk \in State
  BY DEF TypeOK, StateTypeOK
<1>2. ASSUME NEW s \in State, RecordShown(s) PROVE RecordShown(s)'
  BY <1>2, ShownStays
<1>3. RecordShown(mem)' /\ RecordShown(disk)'
  BY <1>1, <1>2 DEF TrackInv, RecordShown
<1>4. QED BY <1>3, TracklessStays DEF TrackInv

(* A save of a record all of which was shown.                              *)
LEMMA TrackSave ==
  ASSUME TypeOK, TrackInv, NEW s \in State, SaveOK(s) \/ SaveFails(s),
         RecordShown(s), UNCHANGED worldVars, PassShown'
  PROVE  TrackInv'
<1>1. /\ mem' = Prune(s) /\ disk' \in {Prune(s), disk}
      /\ faults'["index"] = faults["index"] /\ faults["index"] \in Nat
      /\ faults'["unnamed"] = faults["unnamed"] /\ faults["unnamed"] \in Nat
  BY DEF SaveOK, SaveFails, SaveInMemory, Fault, Strike, FaultKinds, TypeOK, StateTypeOK
<1>2. /\ Prune(s) \in State /\ RecordShown(Prune(s)) /\ disk \in State
      /\ RecordShown(disk)
  BY PruneFields DEF RecordShown, TypeOK, StateTypeOK, TrackInv
<1>3. IndexGrows /\ Appends /\ UNCHANGED trackless
  BY <1>1 DEF IndexGrows, Appends, worldVars, tangledVars, rowVars, ledgerVars
<1> DEFINE q == Prune(s)
<1> HIDE DEF q
<1>4. ASSUME NEW r \in State, RecordShown(r) PROVE RecordShown(r)'
  BY <1>3, <1>4, ShownStays
<1>5. RecordShown(mem)' /\ RecordShown(disk)'
  BY <1>1, <1>2, <1>4 DEF q, RecordShown
<1>6. QED BY <1>3, <1>5, TracklessStays DEF TrackInv

(* Counted faults are only ever added, so a step that leaves the index and *)
(* strikes anything lets it grow.                                          *)
LEMMA IndexOnlyGrows ==
  ASSUME TypeOK, indexed \subseteq indexed', removed \subseteq removed',
         UNCHANGED faults \/ \E kinds \in SUBSET FaultKinds : Strike(kinds)
  PROVE  IndexGrows
BY DEF IndexGrows, Strike, FaultKinds, TypeOK, StateTypeOK

(* Every save but that of a link.                                          *)
LEMMA TrackOtherSaves ==
  ASSUME TypeOK, TrackInv,
         \/ SetRepo \/ SetRepoFails \/ MarkSeenNote \/ MarkSeenNoteFails
         \/ MarkDelivered \/ MarkDeliveredFails
         \/ SetCommentCursor \/ SetCommentCursorFails
  PROVE  TrackInv'
<1>1. /\ pc' = "notes" => pc \in {"setRepo", "seen"} /\ UNCHANGED <<si, todo>>
      /\ pc' \in {"notes", "outbox", "relay", "idle"}
      /\ UNCHANGED worldVars
  BY OtherSaves
<1>2. PICK s \in State :
        /\ SaveOK(s) \/ SaveFails(s)
        /\ s.issueToNote = mem.issueToNote
        /\ s.repos \subseteq mem.repos \cup (IF pc = "setRepo" THEN {Cur} ELSE {})
  BY OtherSaves
<1>3. RecordShown(s)
  BY <1>2 DEF TrackInv, PassShown, RecordShown
<1>4. /\ faults'["index"] = faults["index"] /\ faults'["unnamed"] = faults["unnamed"]
      /\ UNCHANGED indexed
  BY <1>1, <1>2
  DEF worldVars, SaveOK, SaveFails, Fault, Strike, FaultKinds, TypeOK, StateTypeOK
<1>5. PassShown'
  BY <1>1, <1>4 DEF TrackInv, PassShown, SeriesShown, Cur
<1>6. QED BY <1>1, <1>2, <1>3, <1>5, TrackSave

(* The forward mirror shows the repo before it records it, and the issue   *)
(* before it links it.                                                     *)
LEMMA TrackForward ==
  ASSUME TypeOK, TrackInv, ForwardStep
  PROVE  TrackInv'
<1> USE DEF stateVars, worldVars, tangledVars, rowVars, ledgerVars, fwdVars,
            revVars, SkipSeries, EndPass, ResetFwd, ResetRev, Fault
<1>1. CASE \/ OutboxUnavailable \/ SeriesDone \/ NotesDone
           \/ KnotRefuses \/ KnotAnswerLost
           \/ AnnounceRefused \/ AnnounceAnswerLost
  <2>1. /\ UNCHANGED <<mem, disk, indexed, removed, trackless, pdsIssues, commentOn>>
        /\ UNCHANGED faults \/ Strike({"lost"})
        /\ pc' \in {"outbox", "read"}
    BY <1>1
    DEF OutboxUnavailable, SeriesDone, NotesDone, KnotRefuses, KnotAnswerLost,
        AnnounceRefused, AnnounceAnswerLost
  <2>2. IndexGrows /\ PassShown'
    BY <2>1, IndexOnlyGrows DEF FaultKinds, PassShown
  <2>3. QED BY <2>1, <2>2, TrackKept DEF Appends
<1>2. CASE FetchOutbox \/ KnotCreates \/ Announce \/ AnnounceBlank
  <2>1. /\ UNCHANGED <<mem, disk, indexed, removed, trackless, pdsIssues, commentOn, si>>
        /\ UNCHANGED faults \/ Strike({"unnamed"})
        /\ pc' \in {"ensure", "announce", "indexRepo"}
        /\ \/ todo' = ParseNotes(Cur)
           \/ UNCHANGED todo /\ pc \in {"ensure", "announce"}
    BY <1>2 DEF FetchOutbox, KnotCreates, Announce, AnnounceBlank
  <2>2. PassShown'
    BY <2>1 DEF TrackInv, PassShown, ParseNotes, Cur
  <2>3. IndexGrows
    BY <2>1, IndexOnlyGrows DEF FaultKinds
  <2>4. QED BY <2>1, <2>2, <2>3, TrackKept DEF Appends
<1>3. CASE RepoKnown
  <2>1. /\ UNCHANGED <<mem, disk, faults, indexed, removed, trackless, pdsIssues,
                       commentOn, si, todo>>
        /\ pc = "ensure" /\ pc' = "notes" /\ Cur \in mem.repos
    BY <1>3 DEF RepoKnown
  <2>2. PassShown'
    BY <2>1 DEF TrackInv, PassShown, RecordShown, SeriesShown, Cur
  <2>3. QED BY <2>1, <2>2, IndexOnlyGrows, TrackKept DEF Appends
<1>4. CASE IndexRepo
  <2>1. /\ UNCHANGED <<mem, disk, removed, trackless, pdsIssues, commentOn, si, todo>>
        /\ pc = "indexRepo" /\ pc' = "setRepo"
        /\ \/ indexed' = indexed \cup {Cur} /\ UNCHANGED faults
           \/ RowClashes /\ UNCHANGED <<indexed, faults>>
           \/ Strike({"index"}) /\ UNCHANGED indexed
    BY <1>4 DEF IndexRepo
  <2>2. IndexGrows
    BY <2>1, IndexOnlyGrows DEF FaultKinds
  <2>3. SeriesShown(Cur)'
    BY <2>1 DEF SeriesShown, Cur, RowClashes, Strike, FaultKinds, TypeOK, StateTypeOK
  <2>4. PassShown'
    BY <2>1, <2>3 DEF TrackInv, PassShown, Cur
  <2>5. QED BY <2>1, <2>2, <2>4, TrackKept DEF Appends
<1>5. CASE \E n \in Notes : SkipNote(n) \/ CreateIssueRefused(n)
  <2>1. /\ UNCHANGED <<mem, disk, faults, indexed, removed, trackless, pdsIssues,
                       commentOn, si>>
        /\ pc = "notes" /\ pc' = "notes" /\ todo' \subseteq todo
    BY <1>5 DEF SkipNote, CreateIssueRefused
  <2>2. PassShown'
    BY <2>1 DEF TrackInv, PassShown, SeriesShown, Cur
  <2>3. QED BY <2>1, <2>2, IndexOnlyGrows, TrackKept DEF Appends
<1>6. CASE \E n \in Notes : \/ CreateIssue(n) \/ CreateIssueBlank(n)
                            \/ CreateIssueAnswerLost(n)
  <2>1. PICK n \in Notes, i \in Issues :
          /\ MintIssue(n, i)
          /\ UNCHANGED faults \/ Strike({"blank"}) \/ Strike({"lost"})
          /\ (pc' = "indexIssue" /\ note' = n) \/ pc' = "notes"
    BY <1>6 DEF CreateIssue, CreateIssueBlank, CreateIssueAnswerLost, MintIssue
  <2>2. /\ UNCHANGED <<mem, disk, indexed, removed, trackless, commentOn, si>>
        /\ pc = "notes" /\ n \in todo /\ todo' \subseteq todo
        /\ Appends
    BY <2>1 DEF MintIssue, Appends, TypeOK, WorldTypeOK
  <2>3. IndexGrows
    BY <2>1, <2>2, IndexOnlyGrows DEF FaultKinds
  <2>4. SeriesShown(Cur) /\ \A m \in todo : NoteSeries[m] = Cur
    BY <2>2 DEF TrackInv, PassShown
  <2>5. SeriesShown(Cur)'
    BY <2>2, <2>3, <2>4 DEF IndexGrows, SeriesShown, Cur, TypeOK, StateTypeOK, FaultKinds
  <2>6. PassShown'
    BY <2>1, <2>2, <2>4, <2>5 DEF PassShown, Cur
  <2>7. QED BY <2>2, <2>3, <2>6, TrackKept
<1>7. CASE IndexIssue
  <2>1. /\ UNCHANGED <<mem, disk, removed, trackless, pdsIssues, commentOn, si, todo,
                       note, issue>>
        /\ pc = "indexIssue" /\ pc' = "link"
        /\ \/ indexed' = indexed \cup {issue} /\ UNCHANGED faults
           \/ Strike({"index"}) /\ UNCHANGED indexed
    BY <1>7 DEF IndexIssue
  <2>2. IndexGrows
    BY <2>1, IndexOnlyGrows DEF FaultKinds
  <2>3. IssueShown(issue)'
    BY <2>1 DEF IssueShown, Strike, FaultKinds, TypeOK, StateTypeOK
  <2>4. SeriesShown(Cur)'
    BY <2>1, <2>2
    DEF TrackInv, PassShown, IndexGrows, SeriesShown, Cur, TypeOK, StateTypeOK, FaultKinds
  <2>5. PassShown'
    BY <2>1, <2>3, <2>4 DEF TrackInv, PassShown, Cur
  <2>6. QED BY <2>1, <2>2, <2>5, TrackKept DEF Appends
<1>8. CASE LinkIssue \/ LinkIssueFails
  <2> DEFINE s == WithLink(mem, note, issue)
  <2>1. /\ pc = "link"
        /\ (pc' = "seen" /\ UNCHANGED <<si, todo>>) \/ pc' = "idle"
        /\ note \in Notes /\ issue \in URIs /\ mem \in State
        /\ UNCHANGED worldVars
        /\ SaveOK(s) \/ SaveFails(s)
    BY <1>8 DEF LinkIssue, LinkIssueFails, TypeOK, LocalsOK, StateTypeOK
  <2>2. s \in State
    BY <2>1, MutatorTypes DEF TypeOK, StateTypeOK
  <2>3. /\ \A u \in URIs : s.issueToNote[u] = IF u = issue THEN note ELSE mem.issueToNote[u]
        /\ s.repos = mem.repos
    BY <2>1 DEF WithLink, State
  <2> HIDE DEF s
  <2>4. RecordShown(s)
    BY <2>1, <2>3 DEF TrackInv, PassShown, RecordShown
  <2>5. /\ faults'["index"] = faults["index"] /\ faults'["unnamed"] = faults["unnamed"]
        /\ UNCHANGED indexed
    BY <2>1 DEF SaveOK, SaveFails, Strike, FaultKinds, TypeOK, StateTypeOK
  <2>6. PassShown'
    BY <2>1, <2>5 DEF TrackInv, PassShown, SeriesShown, Cur
  <2>7. QED BY <2>1, <2>2, <2>4, <2>6, TrackSave
<1>9. QED
  BY <1>1, <1>2, <1>3, <1>4, <1>5, <1>6, <1>7, <1>8, TrackOtherSaves
  DEF ForwardStep, EnsureRepo, MirrorNote

(* A reply goes out without a trackback only for a reason.                 *)
LEMMA TrackReply ==
  ASSUME TypeOK, LinkInv, TrackInv, NEW c \in CommentIds,
         Reply(c) \/ ReplyAnswerLost(c)
  PROVE  TrackInv'
<1>1. PICK failed \in Lookups :
        /\ Attempts(c) /\ GraftAccepts(c, failed)
        /\ UNCHANGED <<mem, disk>>
        /\ Strike(failed) \/ Strike(failed \cup {"lost"})
        /\ pc' \in {"mark", "relay"}
  BY DEF Reply, ReplyAnswerLost, Attempts
<1>2. UNCHANGED <<indexed, removed, pdsIssues, commentOn>>
  BY <1>1 DEF GraftAccepts, tangledVars, rowVars
<1>3. failed \subseteq {"index"}
  BY DEF Lookups
<1>4. IndexGrows
  BY <1>1, <1>2, <1>3, IndexOnlyGrows DEF FaultKinds
<1>5. "index" \in failed => faults'["index"] > 0
  BY <1>1, <1>3 DEF Strike, FaultKinds, TypeOK, StateTypeOK
<1> DEFINE u == commentOn[c]
           x == NoteSeries[mem.issueToNote[u]]
<1>6. /\ u \in Issues /\ u \in URIs /\ u # None /\ mem.issueToNote[u] # None
      /\ mem \in State
  BY <1>1
  DEF Attempts, IsNext, Skipped, NoteForIssue, TypeOK, StateTypeOK, WorldTypeOK,
      LocalsOK, URIs
<1>7. pdsIssues[u] = mem.issueToNote[u] /\ pdsIssues[u] # None
  BY <1>6 DEF LinkInv, LinksOK, LinksTrue
<1>8. IssueShown(u) /\ SeriesShown(x)
  BY <1>6 DEF TrackInv, RecordShown
<1>9. ASSUME ~(HasTrackback(c) /\ "index" \notin failed)
      PROVE  \/ ~WebURL
             \/ faults'["index"] > 0
             \/ removed \cap {u, x} # {}
             \/ faults'["unnamed"] > 1
             \/ \E t \in Series : t # x /\ Rkey[t] = Rkey[x]
  BY <1>4, <1>5, <1>7, <1>8, <1>9
  DEF HasTrackback, IssueShown, SeriesShown, IndexGrows, TypeOK, StateTypeOK, FaultKinds
<1>10. TracklessTrue'
  <2>1. /\ trackless' = trackless \/ trackless' = trackless \cup {c}
        /\ HasTrackback(c) /\ "index" \notin failed => trackless' = trackless
    BY <1>1 DEF GraftAccepts
  <2>2. ASSUME NEW d \in trackless'
        PROVE  LET y == NoteSeries[pdsIssues'[commentOn'[d]]]
               IN  /\ commentOn'[d] # None /\ pdsIssues'[commentOn'[d]] # None
                   /\ \/ ~WebURL
                      \/ faults'["index"] > 0
                      \/ removed' \cap {commentOn'[d], y} # {}
                      \/ faults'["unnamed"] > 1
                      \/ \E t \in Series : t # y /\ Rkey[t] = Rkey[y]
    <3>1. CASE d \in trackless
      BY <1>2, <1>4, <3>1
      DEF TrackInv, TracklessTrue, TracklessExplained, IndexGrows, TypeOK,
          StateTypeOK, FaultKinds
    <3>2. CASE d \notin trackless
      BY <1>2, <1>6, <1>7, <1>9, <2>1, <3>2
    <3>3. QED BY <3>1, <3>2
  <2>3. QED BY <2>2 DEF TracklessTrue, TracklessExplained
<1>11. RecordShown(mem)' /\ RecordShown(disk)'
  <2>1. ASSUME NEW s \in State, RecordShown(s) PROVE RecordShown(s)'
    BY <1>4, <2>1, ShownStays
  <2>2. mem \in State /\ disk \in State
    BY DEF TypeOK, StateTypeOK
  <2>3. QED BY <1>1, <2>1, <2>2 DEF TrackInv, RecordShown
<1>12. PassShown'
  BY <1>1 DEF PassShown
<1>13. QED BY <1>10, <1>11, <1>12 DEF TrackInv

LEMMA TrackStep == TypeOK /\ LinkInv /\ TrackInv /\ [Next]_vars => TrackInv'
<1> SUFFICES ASSUME TypeOK, LinkInv, TrackInv, [Next]_vars PROVE TrackInv'
  OBVIOUS
<1> USE DEF stateVars, worldVars, tangledVars, rowVars, ledgerVars, fwdVars,
            revVars, EndPass, ResetFwd, ResetRev
<1>1. CASE /\ UNCHANGED <<disk, trackless, indexed>> /\ mem' \in {mem, disk}
           /\ removed \subseteq removed'
           /\ UNCHANGED faults \/ Strike({"crash"})
           /\ Appends
           /\ \/ pc' \in {"idle", "outbox", "down", "relay", "mark"}
              \/ UNCHANGED <<pc, si, todo, note, issue>> /\ UNCHANGED faults
  <2>1. IndexGrows
    BY <1>1, IndexOnlyGrows DEF FaultKinds
  <2>2. PassShown'
    BY <1>1 DEF TrackInv, PassShown, SeriesShown, IssueShown, Cur
  <2>3. QED BY <1>1, <2>1, <2>2, TrackKept
<1>2. CASE StartPass \/ Crash \/ Restart \/ UNCHANGED vars
  BY <1>1, <1>2 DEF StartPass, Crash, Fault, Restart, Load, vars, Appends
<1>3. CASE Environment
  <2>1. /\ UNCHANGED <<mem, disk, trackless, indexed, faults, pc, si, todo, note, issue>>
        /\ removed \subseteq removed'
        /\ UNCHANGED pdsIssues
        /\ \/ UNCHANGED commentOn
           \/ \E c \in CommentIds, i \in Issues : PostComment(c, i)
    BY <1>3 DEF Environment, World, Publish, Retire, PostComment, DeleteComment, DeleteRow, Tick
  <2>2. Appends
    BY <2>1 DEF Appends, PostComment, TypeOK, WorldTypeOK
  <2>3. QED BY <1>1, <2>1, <2>2
<1>4. CASE \/ NothingWatched \/ ReadComments \/ ReadFails \/ CursorStays
           \/ \E c \in CommentIds : \/ SkipComment(c) \/ StopAtLimit(c)
                                    \/ SkipUnroutable(c) \/ ReplyRefused(c)
  BY <1>1, <1>4
  DEF NothingWatched, ReadComments, ReadFails, CursorStays, SkipComment,
      StopAtLimit, SkipUnroutable, ReplyRefused, Attempts, Appends
<1>5. QED
  BY <1>2, <1>3, <1>4, TrackForward, TrackOtherSaves, TrackReply
  DEF Next, RunOnce, ReverseStep, RelayComment

(* Whatever is watched was indexed first, so a reply lacks its trackback   *)
(* only for want of a web UI, for a failed insert or lookup, for a repo    *)
(* row in the way, or because somebody deleted the issue or its repo       *)
(* (bridge.go:90-92, 141-143, 287-300; db.go:117, 180).                    *)
THEOREM TrackbacksExplained == Spec => []TracklessExplained
<1>1. TrackInv => TracklessExplained
  BY DEF TrackInv, TracklessTrue
<1>2. QED BY LinksHold, TrackInit, TrackStep, <1>1, PTL DEF Spec
=============================================================================
