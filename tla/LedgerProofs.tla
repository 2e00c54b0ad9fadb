----------------------------- MODULE LedgerProofs -----------------------------
(***************************************************************************)
(* What duplicate replies and duplicate issues cost, for every value of    *)
(* the constants.                                                          *)
(***************************************************************************)
EXTENDS BridgeProofs, FiniteSetTheorems

(* How many duplicates of one reply the faults so far account for.         *)
Allowance == faults["crash"] + faults["lost"] + pruned

(* The running process knows that c was sent.                              *)
Recorded(c) ==
  /\ pc # "down"
  /\ mem.delivered[c] # None \/ (pc = "mark" /\ cur = c)

(* One reply more than the allowance is possible only as long as the       *)
(* process that sent it remembers it: whatever makes it forget - a crash,  *)
(* a lost answer, an expired entry - raises the allowance by one.          *)
RepliesInv ==
  \A c \in CommentIds :
    replies[c] <= Allowance + (IF Recorded(c) THEN 1 ELSE 0)

-----------------------------------------------------------------------------
(* The allowance is a number.                                              *)
LEMMA AllowanceType == TypeOK => Allowance \in Nat
BY DEF TypeOK, StateTypeOK, Allowance, FaultKinds

(* A step that sends nothing preserves it if it forgets nothing or raises  *)
(* the allowance.                                                          *)
LEMMA RepliesKept ==
  ASSUME TypeOK, RepliesInv, UNCHANGED replies, Allowance' \in Nat,
         \/ Allowance' > Allowance
         \/ Allowance' = Allowance /\ \A c \in CommentIds : Recorded(c) => Recorded(c)'
  PROVE  RepliesInv'
BY AllowanceType DEF RepliesInv, TypeOK, WorldTypeOK

(* Faults never lower the allowance; a crash and a lost answer raise it.   *)
LEMMA AllowanceRises ==
  ASSUME TypeOK, NEW kinds \in SUBSET FaultKinds, Strike(kinds), UNCHANGED pruned
  PROVE  /\ Allowance' \in Nat
         /\ Allowance' >= Allowance
         /\ "crash" \in kinds \/ "lost" \in kinds => Allowance' > Allowance
BY DEF TypeOK, StateTypeOK, Strike, Allowance, FaultKinds

(* A step without a fault or an expired entry keeps the allowance.         *)
LEMMA AllowanceSame ==
  ASSUME TypeOK, UNCHANGED <<faults, pruned>>
  PROVE  Allowance' = Allowance /\ Allowance' \in Nat
BY AllowanceType DEF Allowance

(* A save either raises the allowance or forgets nothing.                  *)
LEMMA SaveAllowance ==
  ASSUME TypeOK, NEW s \in State, SaveOK(s) \/ SaveFails(s)
  PROVE  /\ Allowance' \in Nat
         /\ Allowance' > Allowance \/ (Allowance' = Allowance /\ mem' = s)
<1>1. SaveInMemory(s) /\ faults'["crash"] = faults["crash"]
      /\ faults'["lost"] = faults["lost"]
  BY DEF SaveOK, SaveFails, Fault, Strike, FaultKinds, TypeOK, StateTypeOK
<1>2. QED
  BY <1>1 DEF SaveInMemory, Allowance, FaultKinds, TypeOK, StateTypeOK

-----------------------------------------------------------------------------
(* At first nothing has been sent.                                         *)
LEMMA RepliesInit == Init => RepliesInv
BY DEF Init, StateInit, WorldInit, RepliesInv, Allowance, FaultKinds

(* The forward mirror sends no reply; its saves may forget entries.        *)
LEMMA RepliesForward ==
  ASSUME TypeOK, RepliesInv, ForwardStep
  PROVE  RepliesInv'
<1> USE DEF stateVars, worldVars, ledgerVars, revVars, SkipSeries, EndPass,
            ResetFwd, ResetRev, Fault
<1>1. pc \notin {"down", "mark"} /\ pc' \notin {"down", "mark"} /\ UNCHANGED replies
  BY DEF ForwardStep, FetchOutbox, OutboxUnavailable, SeriesDone, EnsureRepo,
         RepoKnown, KnotCreates, KnotRefuses, KnotAnswerLost, Announce, AnnounceBlank,
         AnnounceRefused, AnnounceAnswerLost, IndexRepo, SetRepo, SetRepoFails,
         MirrorNote, SkipNote, CreateIssue, CreateIssueBlank,
         CreateIssueAnswerLost, CreateIssueRefused, MintIssue, IndexIssue,
         LinkIssue, LinkIssueFails, MarkSeenNote, MarkSeenNoteFails, NotesDone
<1>2. CASE /\ UNCHANGED <<mem, pruned>>
           /\ UNCHANGED faults \/ \E kinds \in SUBSET FaultKinds : Strike(kinds)
  BY <1>1, <1>2, RepliesKept, AllowanceRises, AllowanceSame, AllowanceType
  DEF Recorded
<1>3. ASSUME NEW s \in State, SaveOK(s) \/ SaveFails(s), s.delivered = mem.delivered
      PROVE  RepliesInv'
  BY <1>1, <1>3, SaveAllowance, RepliesKept DEF Recorded
<1>4. CASE SetRepo \/ SetRepoFails
  <2>1. Cur \in Series
    BY <1>4 DEF SetRepo, SetRepoFails, Cur, Series, TypeOK, LocalsOK
  <2>2. WithRepo(mem, Cur) \in State
        /\ WithRepo(mem, Cur).delivered = mem.delivered
    BY <2>1, MutatorTypes DEF TypeOK, StateTypeOK, State, WithRepo
  <2>3. QED BY <1>3, <1>4, <2>2 DEF SetRepo, SetRepoFails
<1>5. CASE LinkIssue \/ LinkIssueFails
  <2>1. note \in Notes /\ issue \in URIs
    BY <1>5 DEF LinkIssue, LinkIssueFails, TypeOK, LocalsOK
  <2>2. WithLink(mem, note, issue) \in State
    BY <2>1, MutatorTypes DEF TypeOK, StateTypeOK
  <2>3. WithLink(mem, note, issue).delivered = mem.delivered
    BY DEF TypeOK, StateTypeOK, State, WithLink
  <2>4. QED BY <1>3, <1>5, <2>2, <2>3 DEF LinkIssue, LinkIssueFails
<1>6. CASE MarkSeenNote \/ MarkSeenNoteFails
  <2>1. note \in Notes
    BY <1>6 DEF MarkSeenNote, MarkSeenNoteFails, TypeOK, LocalsOK
  <2>2. WithSeen(mem, note) \in State
    BY <2>1, MutatorTypes DEF TypeOK, StateTypeOK
  <2>3. WithSeen(mem, note).delivered = mem.delivered
    BY DEF TypeOK, StateTypeOK, State, WithSeen
  <2>4. QED BY <1>3, <1>6, <2>2, <2>3 DEF MarkSeenNote, MarkSeenNoteFails
<1>7. CASE ~(SetRepo \/ SetRepoFails \/ LinkIssue \/ LinkIssueFails
              \/ MarkSeenNote \/ MarkSeenNoteFails)
  <2>1. /\ UNCHANGED <<mem, pruned>>
        /\ \/ UNCHANGED faults
           \/ Strike({"lost"}) \/ Strike({"index"})
           \/ Strike({"blank"}) \/ Strike({"unnamed"})
    BY <1>7
    DEF ForwardStep, FetchOutbox, OutboxUnavailable, SeriesDone, EnsureRepo,
        RepoKnown, KnotCreates, KnotRefuses, KnotAnswerLost, Announce, AnnounceBlank,
        AnnounceRefused, AnnounceAnswerLost, IndexRepo, MirrorNote, SkipNote,
        CreateIssue, CreateIssueBlank, CreateIssueAnswerLost,
        CreateIssueRefused, MintIssue, IndexIssue, NotesDone
  <2>2. QED BY <1>2, <2>1 DEF FaultKinds
<1>8. QED BY <1>4, <1>5, <1>6, <1>7

(* A reply is sent only for a comment the process has no record of.        *)
LEMMA RepliesReply ==
  ASSUME TypeOK, RepliesInv, NEW c \in CommentIds, Reply(c) \/ ReplyAnswerLost(c)
  PROVE  RepliesInv'
<1>1. /\ pc = "relay" /\ mem.delivered[c] = None
      /\ UNCHANGED <<mem, pruned>>
      /\ replies' = [replies EXCEPT ![c] = @ + 1]
  BY DEF Reply, ReplyAnswerLost, Attempts, Skipped, IsDelivered, GraftAccepts
<1>2. PICK failed \in SUBSET {"index"} :
        \/ Strike(failed) /\ pc' = "mark" /\ cur' = c
        \/ Strike(failed \cup {"lost"}) /\ pc' = "relay"
  BY DEF Reply, ReplyAnswerLost, Attempts, Lookups
<1>3. Allowance' \in Nat /\ Allowance' >= Allowance
      /\ (Strike(failed \cup {"lost"}) => Allowance' > Allowance)
  BY <1>1, <1>2, AllowanceRises DEF FaultKinds
<1>4. ~Recorded(c) /\ replies[c] <= Allowance
  BY <1>1, AllowanceType DEF Recorded, RepliesInv
<1>5. ASSUME NEW d \in CommentIds
      PROVE  replies'[d] <= Allowance' + (IF Recorded(d)' THEN 1 ELSE 0)
  <2>1. replies[d] \in Nat /\ replies[c] \in Nat /\ Allowance \in Nat
    BY AllowanceType DEF TypeOK, WorldTypeOK
  <2>2. CASE d = c
    <3>1. replies'[c] = replies[c] + 1
      BY <1>1 DEF TypeOK, WorldTypeOK
    <3>2. Allowance' > Allowance \/ Recorded(c)'
      BY <1>2, <1>3 DEF Recorded
    <3>3. QED BY <1>3, <1>4, <2>1, <2>2, <3>1, <3>2
  <2>3. CASE d # c
    <3>1. replies'[d] = replies[d]
      BY <1>1, <2>3 DEF TypeOK, WorldTypeOK
    <3>2. Recorded(d) => Recorded(d)'
      BY <1>1, <1>2 DEF Recorded
    <3>3. QED BY <1>3, <2>1, <3>1, <3>2 DEF RepliesInv
  <2>4. QED BY <2>2, <2>3
<1>6. QED BY <1>5 DEF RepliesInv

(* The reverse mirror: replies, their dedup entries and the cursor.        *)
LEMMA RepliesReverse ==
  ASSUME TypeOK, RepliesInv, ReverseStep
  PROVE  RepliesInv'
<1> USE DEF stateVars, worldVars, ledgerVars, fwdVars, EndPass
<1>1. CASE \/ NothingWatched \/ ReadComments \/ ReadFails \/ CursorStays
           \/ \E c \in CommentIds : \/ SkipComment(c) \/ StopAtLimit(c)
                                    \/ SkipUnroutable(c) \/ ReplyRefused(c)
  <2>1. /\ UNCHANGED <<mem, faults, pruned, replies>>
        /\ pc \notin {"down", "mark"} /\ pc' \notin {"down", "mark"}
    BY <1>1 DEF NothingWatched, ReadComments, ReadFails, CursorStays,
                SkipComment, StopAtLimit, SkipUnroutable, ReplyRefused, Attempts
  <2>2. QED BY <2>1, AllowanceSame, RepliesKept DEF Recorded
<1>2. CASE \E c \in CommentIds : Reply(c) \/ ReplyAnswerLost(c)
  BY <1>2, RepliesReply
<1>3. CASE MarkDelivered \/ MarkDeliveredFails
  <2> DEFINE s == WithDelivered(mem, cur)
  <2>1. /\ pc = "mark" /\ cur \in CommentIds /\ pc' \notin {"down", "mark"}
        /\ UNCHANGED replies
        /\ SaveOK(s) \/ SaveFails(s)
    BY <1>3 DEF MarkDelivered, MarkDeliveredFails, TypeOK, LocalsOK
  <2>2. s \in State
    BY <2>1, MutatorTypes DEF TypeOK, StateTypeOK
  <2>3. ASSUME NEW c \in CommentIds, c = cur \/ mem.delivered[c] # None
        PROVE  s.delivered[c] # None
    <3>1. /\ mem.delivered \in [CommentIds -> Nat \cup {None}]
          /\ s.delivered = [mem.delivered EXCEPT ![cur] = now]
          /\ now # None
      BY StateAssumption
      DEF WithDelivered, Stamped, TypeOK, StateTypeOK, State
    <3>2. QED BY <3>1, <2>1, <2>3
  <2> HIDE DEF s
  <2>4. Allowance' \in Nat
        /\ (Allowance' > Allowance \/ (Allowance' = Allowance /\ mem' = s))
    BY <2>1, <2>2, SaveAllowance
  <2>5. QED BY <2>1, <2>3, <2>4, RepliesKept DEF Recorded
<1>4. CASE SetCommentCursor \/ SetCommentCursorFails
  <2> DEFINE s == WithCursor(mem, maxID)
  <2>1. /\ pc = "relay" /\ pc' = "idle"
        /\ UNCHANGED replies
        /\ SaveOK(s) \/ SaveFails(s)
    BY <1>4 DEF SetCommentCursor, SetCommentCursorFails
  <2>2. s \in State /\ s.delivered = mem.delivered
    BY MutatorTypes DEF WithCursor, TypeOK, StateTypeOK, WorldTypeOK, State
  <2> HIDE DEF s
  <2>3. QED BY <2>1, <2>2, SaveAllowance, RepliesKept DEF Recorded
<1>5. QED BY <1>1, <1>2, <1>3, <1>4 DEF ReverseStep, RelayComment

(* RepliesInv is inductive relative to TypeOK.                             *)
LEMMA RepliesStep == TypeOK /\ RepliesInv /\ [Next]_vars => RepliesInv'
<1> SUFFICES ASSUME TypeOK, RepliesInv, [Next]_vars PROVE RepliesInv'
  OBVIOUS
<1> USE DEF stateVars, worldVars, ledgerVars, fwdVars, revVars
<1>1. CASE UNCHANGED <<mem, faults, pruned, replies, pc, cur>>
  BY <1>1, AllowanceSame, RepliesKept DEF Recorded
<1>2. CASE StartPass
  BY <1>2, AllowanceSame, RepliesKept DEF StartPass, Recorded
<1>3. CASE Crash
  BY <1>3, AllowanceRises, RepliesKept DEF Crash, Fault, FaultKinds
<1>4. CASE Restart
  BY <1>4, AllowanceSame, RepliesKept DEF Restart, Recorded
<1>5. CASE Environment
  BY <1>1, <1>5
  DEF Environment, World, Publish, Retire, PostComment, DeleteComment, DeleteRow, Tick
<1>6. QED
  BY <1>1, <1>2, <1>3, <1>4, <1>5, RepliesForward, RepliesReverse
  DEF Next, RunOnce, vars

(* Duplicate replies are paid for: one for every crash, lost answer and    *)
(* pruning save at most (bridge.go:195-219), and none without.             *)
THEOREM DuplicatesPaidFor == Spec => []RepliesAccounted
<1>1. TypeOK /\ RepliesInv => RepliesAccounted
  BY AllowanceType DEF TypeOK, StateTypeOK, WorldTypeOK, RepliesInv,
                       RepliesAccounted, Allowance, FaultKinds
<1>2. QED BY TypeInit, TypeStep, RepliesInit, RepliesStep, <1>1, PTL DEF Spec

-----------------------------------------------------------------------------
(* Duplicate issues                                                        *)

(* How many issues too many the faults so far account for.                 *)
IssueAllowance == faults["crash"] + faults["lost"] + faults["save"] + pruned

(* The running process knows that n was mirrored, or is about to record it.*)
Known(n) ==
  /\ pc # "down"
  /\ \/ mem.seenNotes[n] # None
     \/ pc \in {"indexIssue", "link", "seen"} /\ note = n

MirrorsOf(n) == {i \in Issues : pdsIssues[i] = n}

(* One issue more than the allowance is possible only as long as the       *)
(* process that created it remembers it: what makes it forget - a crash, a *)
(* lost answer, a failed save, an expired entry - raises the allowance.    *)
IssuesInv ==
  \A n \in Notes :
    /\ IsFiniteSet(MirrorsOf(n))
    /\ Copies(n) <= IssueAllowance + (IF Known(n) THEN 1 ELSE 0)

LEMMA IssueAllowanceType == TypeOK => IssueAllowance \in Nat
BY DEF TypeOK, StateTypeOK, IssueAllowance, FaultKinds

(* Counts of finite sets are numbers.                                      *)
LEMMA CopiesType ==
  ASSUME IssuesInv, NEW n \in Notes
  PROVE  Copies(n) \in Nat
BY FS_CardinalityType DEF IssuesInv, Copies, MirrorsOf

(* A step that creates no issue preserves it if it forgets nothing or      *)
(* raises the allowance.                                                   *)
LEMMA IssuesKept ==
  ASSUME TypeOK, IssuesInv, UNCHANGED pdsIssues, IssueAllowance' \in Nat,
         \/ IssueAllowance' > IssueAllowance
         \/ /\ IssueAllowance' = IssueAllowance
            /\ \A n \in Notes : Known(n) => Known(n)'
  PROVE  IssuesInv'
<1> SUFFICES ASSUME NEW n \in Notes
             PROVE  /\ IsFiniteSet(MirrorsOf(n))'
                    /\ Copies(n)' <= IssueAllowance' + (IF Known(n)' THEN 1 ELSE 0)
  BY DEF IssuesInv
<1>1. IsFiniteSet(MirrorsOf(n))' /\ Copies(n)' = Copies(n)
  BY DEF IssuesInv, MirrorsOf, Copies
<1>2. Copies(n) \in Nat /\ IssueAllowance \in Nat
  BY CopiesType, IssueAllowanceType
<1>3. Copies(n) <= IssueAllowance + (IF Known(n) THEN 1 ELSE 0)
  BY DEF IssuesInv
<1>4. QED BY <1>1, <1>2, <1>3

(* Faults raise the allowance, all but those of the index and the blank    *)
(* answers, and nothing lowers it.                                         *)
LEMMA IssueAllowanceRises ==
  ASSUME TypeOK, NEW kinds \in SUBSET FaultKinds, Strike(kinds), UNCHANGED pruned
  PROVE  /\ IssueAllowance' \in Nat
         /\ IssueAllowance' >= IssueAllowance
         /\ kinds \cap {"crash", "lost", "save"} # {} => IssueAllowance' > IssueAllowance
BY DEF TypeOK, StateTypeOK, Strike, IssueAllowance, FaultKinds

LEMMA IssueAllowanceSame ==
  ASSUME TypeOK, UNCHANGED <<faults, pruned>>
  PROVE  IssueAllowance' = IssueAllowance /\ IssueAllowance' \in Nat
BY IssueAllowanceType DEF IssueAllowance

(* A save that fails raises it, one that succeeds raises it or forgets     *)
(* nothing.                                                                *)
LEMMA SaveIssueAllowance ==
  ASSUME TypeOK, NEW s \in State, SaveOK(s) \/ SaveFails(s)
  PROVE  /\ IssueAllowance' \in Nat
         /\ \/ IssueAllowance' > IssueAllowance
            \/ SaveOK(s) /\ IssueAllowance' = IssueAllowance /\ mem' = s
<1>1. CASE SaveOK(s)
  BY <1>1 DEF SaveOK, SaveInMemory, IssueAllowance, FaultKinds, TypeOK, StateTypeOK
<1>2. CASE SaveFails(s)
  BY <1>2
  DEF SaveFails, SaveInMemory, Fault, Strike, IssueAllowance, FaultKinds, TypeOK,
      StateTypeOK
<1>3. QED BY <1>1, <1>2

(* At first there is no issue.                                             *)
LEMMA IssuesInit == Init => IssuesInv
<1> SUFFICES ASSUME Init, NEW n \in Notes
             PROVE  /\ IsFiniteSet(MirrorsOf(n))
                    /\ Copies(n) <= IssueAllowance + (IF Known(n) THEN 1 ELSE 0)
  BY DEF IssuesInv
<1>1. MirrorsOf(n) = {}
  BY StateAssumption DEF Init, WorldInit, MirrorsOf
<1>2. IsFiniteSet(MirrorsOf(n)) /\ Copies(n) = 0
  BY <1>1, FS_EmptySet DEF Copies, MirrorsOf
<1>3. IssueAllowance = 0
  BY DEF Init, StateInit, IssueAllowance, FaultKinds
<1>4. QED BY <1>2, <1>3

(* An issue is created only for a note the process does not know to be     *)
(* mirrored; the one that answers makes it known, the lost answer counts.  *)
LEMMA IssuesMint ==
  ASSUME TypeOK, IssuesInv, NEW n \in Notes,
         CreateIssue(n) \/ CreateIssueBlank(n) \/ CreateIssueAnswerLost(n)
  PROVE  IssuesInv'
<1>1. PICK i \in Issues :
        /\ MintIssue(n, i)
        /\ \/ /\ UNCHANGED faults \/ Strike({"blank"})
              /\ pc' = "indexIssue" /\ note' = n
           \/ Strike({"lost"}) /\ pc' = "notes"
  BY DEF CreateIssue, CreateIssueBlank, CreateIssueAnswerLost, MintIssue, Fault
<1>2. /\ UNCHANGED <<mem, pruned>> /\ pc = "notes" /\ mem.seenNotes[n] = None
      /\ pdsIssues[i] = None
      /\ \A j \in Issues : pdsIssues'[j] = IF j = i THEN n ELSE pdsIssues[j]
  BY <1>1 DEF MintIssue, NeedsMirror, SeenNote, TypeOK, WorldTypeOK
<1>3. /\ IssueAllowance \in Nat /\ IssueAllowance' \in Nat
      /\ IssueAllowance' >= IssueAllowance
      /\ Strike({"lost"}) => IssueAllowance' > IssueAllowance
  BY <1>1, <1>2, IssueAllowanceRises, IssueAllowanceSame, IssueAllowanceType
  DEF FaultKinds
<1> SUFFICES ASSUME NEW m \in Notes
             PROVE  /\ IsFiniteSet(MirrorsOf(m))'
                    /\ Copies(m)' <= IssueAllowance' + (IF Known(m)' THEN 1 ELSE 0)
  BY DEF IssuesInv
<1>4. /\ IsFiniteSet(MirrorsOf(m)) /\ Copies(m) \in Nat
      /\ Copies(m) <= IssueAllowance + (IF Known(m) THEN 1 ELSE 0)
  BY CopiesType DEF IssuesInv
<1>5. CASE m = n
  <2>1. MirrorsOf(m)' = MirrorsOf(m) \cup {i} /\ i \notin MirrorsOf(m)
    BY <1>2, <1>5, StateAssumption DEF MirrorsOf
  <2>2. IsFiniteSet(MirrorsOf(m))' /\ Copies(m)' = Copies(m) + 1
    BY <1>4, <2>1, FS_AddElement DEF Copies, MirrorsOf
  <2>3. ~Known(m)
    BY <1>2, <1>5 DEF Known
  <2>4. IssueAllowance' > IssueAllowance \/ Known(m)'
    BY <1>1, <1>3, <1>5 DEF Known
  <2>5. QED BY <1>3, <1>4, <2>2, <2>3, <2>4
<1>6. CASE m # n
  <2>1. MirrorsOf(m)' = MirrorsOf(m)
    BY <1>2, <1>6, StateAssumption DEF MirrorsOf
  <2>2. IsFiniteSet(MirrorsOf(m))' /\ Copies(m)' = Copies(m)
    BY <1>4, <2>1 DEF Copies, MirrorsOf
  <2>3. Known(m) => Known(m)'
    BY <1>1, <1>2 DEF Known
  <2>4. QED BY <1>3, <1>4, <2>2, <2>3
<1>7. QED BY <1>5, <1>6

(* A save that, if it succeeds, leaves every known note known.             *)
LEMMA IssuesSave ==
  ASSUME TypeOK, IssuesInv, NEW s \in State, SaveOK(s) \/ SaveFails(s),
         UNCHANGED pdsIssues, pc' # "down",
         SaveOK(s) =>
           \A n \in Notes : Known(n) =>
             \/ s.seenNotes[n] # None
             \/ pc' \in {"indexIssue", "link", "seen"} /\ note' = n
  PROVE  IssuesInv'
BY SaveIssueAllowance, IssuesKept DEF Known

(* The saves of the forward mirror: the link hands the note on, MarkSeen   *)
(* takes it into the record.                                               *)
LEMMA IssuesForwardSaves ==
  ASSUME TypeOK, IssuesInv,
         \/ SetRepo \/ SetRepoFails \/ LinkIssue \/ LinkIssueFails
         \/ MarkSeenNote \/ MarkSeenNoteFails
  PROVE  IssuesInv'
<1> USE DEF worldVars, tangledVars, fwdVars, SkipSeries, EndPass
<1>1. mem \in State /\ now \in Nat
  BY DEF TypeOK, StateTypeOK
<1>2. CASE SetRepo \/ SetRepoFails
  <2> DEFINE s == WithRepo(mem, Cur)
  <2>1. /\ pc = "setRepo" /\ pc' # "down" /\ UNCHANGED pdsIssues
        /\ Cur \in Series /\ (SaveOK(s) \/ SaveFails(s))
    BY <1>2 DEF SetRepo, SetRepoFails, Cur, Series, TypeOK, LocalsOK
  <2>2. s \in State /\ s.seenNotes = mem.seenNotes
    BY <1>1, <2>1, MutatorTypes DEF WithRepo, State, TypeOK, StateTypeOK
  <2> HIDE DEF s
  <2>3. QED BY <2>1, <2>2, IssuesSave DEF Known
<1>3. CASE LinkIssue
  <2> DEFINE s == WithLink(mem, note, issue)
  <2>1. /\ pc = "link" /\ pc' = "seen" /\ UNCHANGED <<note, pdsIssues>>
        /\ note \in Notes /\ issue \in URIs /\ SaveOK(s)
    BY <1>3 DEF LinkIssue, TypeOK, LocalsOK
  <2>2. s \in State
    BY <1>1, <2>1, MutatorTypes DEF TypeOK, StateTypeOK
  <2>3. s.seenNotes = mem.seenNotes
    BY <1>1 DEF WithLink, State
  <2> HIDE DEF s
  <2>4. QED BY <2>1, <2>2, <2>3, IssuesSave DEF Known
<1>4. CASE MarkSeenNote
  <2> DEFINE s == WithSeen(mem, note)
  <2>1. /\ pc = "seen" /\ pc' = "notes" /\ UNCHANGED pdsIssues
        /\ note \in Notes /\ SaveOK(s)
    BY <1>4 DEF MarkSeenNote, TypeOK, LocalsOK
  <2>2. s \in State
    BY <1>1, <2>1, MutatorTypes DEF TypeOK, StateTypeOK
  <2>3. ASSUME NEW n \in Notes, n = note \/ mem.seenNotes[n] # None
        PROVE  s.seenNotes[n] # None
    <3>1. /\ mem.seenNotes \in [Notes -> Nat \cup {None}]
          /\ s.seenNotes = [mem.seenNotes EXCEPT ![note] = now]
          /\ now # None
      BY <1>1, StateAssumption DEF WithSeen, Stamped, State
    <3>2. QED BY <2>1, <2>3, <3>1
  <2> HIDE DEF s
  <2>4. QED BY <2>1, <2>2, <2>3, IssuesSave DEF Known
<1>5. CASE LinkIssueFails \/ MarkSeenNoteFails
  <2>1. /\ Strike({"save"}) /\ pruned' \in {pruned, pruned + 1}
        /\ UNCHANGED pdsIssues
    BY <1>5
    DEF LinkIssueFails, MarkSeenNoteFails, SaveFails, SaveInMemory, Fault
  <2>2. IssueAllowance' \in Nat /\ IssueAllowance' > IssueAllowance
    BY <2>1 DEF Strike, IssueAllowance, FaultKinds, TypeOK, StateTypeOK
  <2>3. QED BY <2>1, <2>2, IssuesKept
<1>6. QED BY <1>2, <1>3, <1>4, <1>5

(* The saves of the reverse mirror touch no note.                          *)
LEMMA IssuesReverseSaves ==
  ASSUME TypeOK, IssuesInv,
         \/ MarkDelivered \/ MarkDeliveredFails
         \/ SetCommentCursor \/ SetCommentCursorFails
  PROVE  IssuesInv'
<1> USE DEF worldVars, tangledVars, EndPass
<1>1. mem \in State
  BY DEF TypeOK, StateTypeOK
<1>2. CASE MarkDelivered \/ MarkDeliveredFails
  <2> DEFINE s == WithDelivered(mem, cur)
  <2>1. /\ pc = "mark" /\ pc' # "down" /\ UNCHANGED pdsIssues
        /\ cur \in CommentIds /\ (SaveOK(s) \/ SaveFails(s))
    BY <1>2 DEF MarkDelivered, MarkDeliveredFails, TypeOK, LocalsOK
  <2>2. s \in State /\ s.seenNotes = mem.seenNotes
    BY <1>1, <2>1, MutatorTypes DEF WithDelivered, State, TypeOK, StateTypeOK
  <2> HIDE DEF s
  <2>3. QED BY <2>1, <2>2, IssuesSave DEF Known
<1>3. CASE SetCommentCursor \/ SetCommentCursorFails
  <2> DEFINE s == WithCursor(mem, maxID)
  <2>1. /\ pc = "relay" /\ pc' # "down" /\ UNCHANGED pdsIssues
        /\ maxID \in Nat /\ (SaveOK(s) \/ SaveFails(s))
    BY <1>3 DEF SetCommentCursor, SetCommentCursorFails, TypeOK, WorldTypeOK
  <2>2. s \in State /\ s.seenNotes = mem.seenNotes
    BY <1>1, <2>1, MutatorTypes DEF WithCursor, State, TypeOK, StateTypeOK
  <2> HIDE DEF s
  <2>3. QED BY <2>1, <2>2, IssuesSave DEF Known
<1>4. QED BY <1>2, <1>3

(* IssuesInv is inductive relative to TypeOK.                              *)
LEMMA IssuesStep == TypeOK /\ IssuesInv /\ [Next]_vars => IssuesInv'
<1> SUFFICES ASSUME TypeOK, IssuesInv, [Next]_vars PROVE IssuesInv'
  OBVIOUS
<1> USE DEF stateVars, worldVars, tangledVars, rowVars, ledgerVars, fwdVars,
            revVars, SkipSeries, EndPass, ResetFwd, ResetRev, Fault
<1>1. CASE /\ UNCHANGED <<mem, pruned, pdsIssues>>
           /\ \/ UNCHANGED faults
              \/ \E kinds \in SUBSET FaultKinds : Strike(kinds)
           /\ \A n \in Notes : Known(n) => Known(n)'
  BY <1>1, IssuesKept, IssueAllowanceRises, IssueAllowanceSame, IssueAllowanceType
<1>2. CASE StartPass \/ Environment \/ UNCHANGED vars
  BY <1>1, <1>2
  DEF StartPass, Environment, World, Publish, Retire, PostComment, DeleteComment, DeleteRow,
      Tick, vars, Known
<1>3. CASE Crash
  BY <1>3, IssueAllowanceRises, IssuesKept DEF Crash, FaultKinds
<1>4. CASE Restart
  BY <1>4, IssueAllowanceSame, IssuesKept DEF Restart, Known
<1>5. CASE \/ NothingWatched \/ ReadComments \/ ReadFails \/ CursorStays
           \/ \E c \in CommentIds : RelayComment(c)
  <2>1. /\ UNCHANGED <<mem, pruned, pdsIssues>>
        /\ UNCHANGED faults \/ \E kinds \in SUBSET {"index", "lost"} : Strike(kinds)
        /\ pc \in {"read", "relay"} /\ pc' # "down"
    <3>1. CASE \E c \in CommentIds : Reply(c) \/ ReplyAnswerLost(c)
      BY <3>1 DEF Reply, ReplyAnswerLost, Attempts, Lookups, GraftAccepts
    <3>2. QED
      BY <1>5, <3>1
      DEF NothingWatched, ReadComments, ReadFails, CursorStays, RelayComment,
          SkipComment, StopAtLimit, SkipUnroutable, ReplyRefused, Attempts
  <2>2. QED BY <1>1, <2>1 DEF Known, FaultKinds
<1>6. CASE \/ FetchOutbox \/ OutboxUnavailable \/ SeriesDone \/ NotesDone
           \/ RepoKnown \/ KnotCreates \/ KnotRefuses \/ KnotAnswerLost
           \/ Announce \/ AnnounceBlank \/ AnnounceRefused
           \/ AnnounceAnswerLost \/ IndexRepo
           \/ IndexIssue
           \/ \E n \in Notes : SkipNote(n) \/ CreateIssueRefused(n)
  <2>1. /\ UNCHANGED <<mem, pruned, pdsIssues>>
        /\ \/ UNCHANGED faults
           \/ Strike({"lost"}) \/ Strike({"index"}) \/ Strike({"unnamed"})
        /\ pc # "down" /\ pc' # "down"
        /\ pc \in {"indexIssue", "link", "seen"} =>
             pc' \in {"indexIssue", "link", "seen"} /\ UNCHANGED note
    BY <1>6
    DEF FetchOutbox, OutboxUnavailable, SeriesDone, NotesDone, RepoKnown,
        KnotCreates, KnotRefuses, KnotAnswerLost, Announce, AnnounceBlank,
        AnnounceRefused, AnnounceAnswerLost, IndexRepo, IndexIssue, SkipNote, CreateIssueRefused
  <2>2. QED BY <1>1, <2>1 DEF Known, FaultKinds
<1>7. QED
  BY <1>2, <1>3, <1>4, <1>5, <1>6, IssuesMint, IssuesForwardSaves, IssuesReverseSaves
  DEF Next, RunOnce, ForwardStep, EnsureRepo, MirrorNote, ReverseStep

(* Duplicate issues are paid for: one for every crash, lost answer, failed *)
(* save and pruning save at most (bridge.go:127-149), and none without.    *)
THEOREM IssuesPaidFor == Spec => []IssuesAccounted
<1>1. TypeOK /\ IssuesInv => IssuesAccounted
  <2> SUFFICES ASSUME TypeOK, IssuesInv, NEW n \in Notes
               PROVE  Copies(n) <= 1 + IssueAllowance
    BY IssueAllowanceType
    DEF IssuesAccounted, IssueAllowance, TypeOK, StateTypeOK, FaultKinds
  <2>1. QED BY IssueAllowanceType, CopiesType DEF IssuesInv
<1>2. QED BY TypeInit, TypeStep, IssuesInit, IssuesStep, <1>1, PTL DEF Spec
=============================================================================
