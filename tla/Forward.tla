------------------------------- MODULE Forward -------------------------------
(***************************************************************************)
(* forwardGraftToTangled and ensureRepo (internal/bridge/bridge.go), with  *)
(* the Tangled calls they make (internal/tangled/client.go, CreateRepo and *)
(* CreateIssue): every configured series gets its repo, every new issue or *)
(* patch note in its outbox becomes a Tangled issue.                       *)
(*                                                                         *)
(* One action per remote call or save, since a crash, a comment or another *)
(* note can come between any two of them.  A pass that runs out of its     *)
(* timeout sees its remote calls fail; saves do not depend on it.          *)
(***************************************************************************)
EXTENDS BridgeWorld

Cur == SeriesList[si]

(* Graft lists a series' own notes in its outbox; of these, ParseNotes     *)
(* keeps the ones whose URI is under the configured host.                  *)
ParseNotes(s) == {n \in outbox : NoteSeries[n] = s /\ NoteHost[n] = host}

(* `continue` in the loop over the series.                                 *)
SkipSeries ==
  /\ pc' = "outbox"
  /\ si' = si + 1
  /\ todo' = {}
  /\ note' = None
  /\ issue' = None
  /\ UNCHANGED revVars

-----------------------------------------------------------------------------
(* The series' outbox *)

FetchOutbox ==
  /\ pc = "outbox"
  /\ si \in DOMAIN SeriesList
  /\ todo' = ParseNotes(Cur)
  /\ pc' = "ensure"
  /\ UNCHANGED <<stateVars, worldVars, host, si, note, issue, revVars>>

OutboxUnavailable ==
  /\ pc = "outbox"
  /\ si \in DOMAIN SeriesList
  /\ SkipSeries
  /\ UNCHANGED <<stateVars, worldVars, host>>

SeriesDone ==
  /\ pc = "outbox"
  /\ si \notin DOMAIN SeriesList
  /\ pc' = "read"
  /\ ResetFwd
  /\ UNCHANGED <<stateVars, worldVars, host, revVars>>

-----------------------------------------------------------------------------
(* ensureRepo *)

RepoKnown ==
  /\ pc = "ensure"
  /\ Cur \in mem.repos
  /\ pc' = "notes"
  /\ UNCHANGED <<stateVars, worldVars, host, fwdVars, revVars>>

(* The knot creates the repo, and its answer arrives.                      *)
KnotCreates ==
  /\ pc = "ensure"
  /\ Cur \notin mem.repos
  /\ Slot(Cur) \notin knotRepos
  /\ knotRepos' = knotRepos \cup {Slot(Cur)}
  /\ pc' = "announce"
  /\ UNCHANGED <<stateVars, outbox, pdsRepos, pdsIssues, indexed, rowVars,
                 ledgerVars, host, fwdVars, revVars>>

(* Mutant of KnotRefuses: an error of a knot that has the repo already is  *)
(* taken for success, whoever created it.                                  *)
KnotSaysExists ==
  /\ pc = "ensure"
  /\ Cur \notin mem.repos
  /\ Slot(Cur) \in knotRepos
  /\ pc' = "announce"
  /\ UNCHANGED <<stateVars, worldVars, host, fwdVars, revVars>>

(* CreateRepo fails with nothing done: no service token, no connection, or *)
(* a repo of that name exists on the knot already.  Every error is the     *)
(* same to ensureRepo.                                                     *)
KnotRefuses ==
  /\ pc = "ensure"
  /\ Cur \notin mem.repos
  /\ SkipSeries
  /\ UNCHANGED <<stateVars, worldVars, host>>

(* The knot creates the repo, but CreateRepo returns an error: the answer  *)
(* is lost, cannot be decoded, or has no repoDid.                          *)
KnotAnswerLost ==
  /\ pc = "ensure"
  /\ Cur \notin mem.repos
  /\ Slot(Cur) \notin knotRepos
  /\ knotRepos' = knotRepos \cup {Slot(Cur)}
  /\ Fault("lost")
  /\ SkipSeries
  /\ UNCHANGED <<mem, disk, now, pruned, outbox, pdsRepos, pdsIssues, indexed,
                 rowVars, ledgerVars, host>>

(* Mutant of Announce: the insert into the appview's database is left out. *)
AnnounceUnindexed ==
  /\ pc = "announce"
  /\ pdsRepos' = [pdsRepos EXCEPT ![Rkey[Cur]] = Cur]
  /\ pc' = "setRepo"
  /\ UNCHANGED <<stateVars, outbox, knotRepos, pdsIssues, indexed, rowVars,
                 ledgerVars, host, fwdVars, revVars>>

(* putRecord replaces whatever record has the same key.                    *)
Announce ==
  /\ pc = "announce"
  /\ pdsRepos' = [pdsRepos EXCEPT ![Rkey[Cur]] = Cur]
  /\ pc' = "indexRepo"
  /\ UNCHANGED <<stateVars, outbox, knotRepos, pdsIssues, indexed, rowVars,
                 ledgerVars, host, fwdVars, revVars>>

(* An empty body of putRecord's 2xx answer is success, too: the repo's     *)
(* AT-URI stays the empty string.                                          *)
AnnounceBlank ==
  /\ pc = "announce"
  /\ pdsRepos' = [pdsRepos EXCEPT ![Rkey[Cur]] = Cur]
  /\ issue' = NoURI
  /\ pc' = "indexRepo"
  /\ Fault("unnamed")
  /\ UNCHANGED <<mem, disk, now, pruned, outbox, knotRepos, pdsIssues, indexed,
                 rowVars, ledgerVars, host, si, todo, note, revVars>>

AnnounceRefused ==
  /\ pc = "announce"
  /\ SkipSeries
  /\ UNCHANGED <<stateVars, worldVars, host>>

AnnounceAnswerLost ==
  /\ pc = "announce"
  /\ pdsRepos' = [pdsRepos EXCEPT ![Rkey[Cur]] = Cur]
  /\ Fault("lost")
  /\ SkipSeries
  /\ UNCHANGED <<mem, disk, now, pruned, outbox, knotRepos, pdsIssues, indexed,
                 rowVars, ledgerVars, host>>

(* INSERT OR IGNORE may pass over a row that clashes with an indexed one   *)
(* in its record key, or in an AT-URI that is the empty string for both.   *)
RowClashes ==
  \/ \E s \in indexed \cap Series : s # Cur /\ Rkey[s] = Rkey[Cur]
  \/ issue = NoURI /\ faults["unnamed"] > 1

(* InsertRepo; its failure is logged and nothing else.                     *)
IndexRepo ==
  /\ pc = "indexRepo"
  /\ \/ indexed' = indexed \cup {Cur} /\ UNCHANGED faults
     \/ RowClashes /\ UNCHANGED <<indexed, faults>>
     \/ Fault("index") /\ UNCHANGED indexed
  /\ issue' = None
  /\ pc' = "setRepo"
  /\ UNCHANGED <<mem, disk, now, pruned, outbox, tangledVars, rowVars,
                 ledgerVars, host, si, todo, note, revVars>>

SetRepo ==
  /\ pc = "setRepo"
  /\ SaveOK(WithRepo(mem, Cur))
  /\ pc' = "notes"
  /\ UNCHANGED <<worldVars, host, fwdVars, revVars>>

SetRepoFails ==
  /\ pc = "setRepo"
  /\ SaveFails(WithRepo(mem, Cur))
  /\ SkipSeries
  /\ UNCHANGED <<worldVars, host>>

-----------------------------------------------------------------------------
(* The series' notes.  The outbox's order is Graft's affair: any note of   *)
(* todo may be next.                                                       *)

(* Mutants of NeedsMirror: no look at SeenNotes; a look at IssueByNote     *)
(* in its stead.                                                           *)
NeedsMirrorAlways(n) == n \in Replyable
NeedsMirrorUnlinked(n) == n \in Replyable /\ mem.issueByNote[n] = None

NeedsMirror(n) == n \in Replyable /\ ~SeenNote(n)

SkipNote(n) ==
  /\ pc = "notes"
  /\ n \in todo
  /\ ~NeedsMirror(n)
  /\ todo' = todo \ {n}
  /\ UNCHANGED <<stateVars, worldVars, host, pc, si, note, issue, revVars>>

(* The PDS writes a new issue record for n.                                *)
MintIssue(n, i) ==
  /\ pc = "notes"
  /\ n \in todo
  /\ NeedsMirror(n)
  /\ pdsIssues[i] = None
  /\ pdsIssues' = [pdsIssues EXCEPT ![i] = n]
  /\ todo' = todo \ {n}
  /\ UNCHANGED <<mem, disk, now, pruned, outbox, knotRepos, pdsRepos, indexed,
                 rowVars, ledgerVars, host, si, revVars>>

(* Mutant of CreateIssue: what follows works on another note of the series *)
(* than the one the issue was created from.                                *)
CreateIssueMixedUp(n) ==
  \E i \in Issues :
    /\ MintIssue(n, i)
    /\ note' \in ParseNotes(Cur)
    /\ issue' = i
    /\ pc' = "indexIssue"
    /\ UNCHANGED faults

CreateIssue(n) ==
  \E i \in Issues :
    /\ MintIssue(n, i)
    /\ note' = n
    /\ issue' = i
    /\ pc' = "indexIssue"
    /\ UNCHANGED faults

(* post takes an empty body of a 2xx answer, or one whose reading failed   *)
(* at once, for success: the URI stays the empty string.                   *)
CreateIssueBlank(n) ==
  \E i \in Issues :
    /\ MintIssue(n, i)
    /\ note' = n
    /\ issue' = NoURI
    /\ pc' = "indexIssue"
    /\ Fault("blank")

CreateIssueAnswerLost(n) ==
  \E i \in Issues :
    /\ MintIssue(n, i)
    /\ Fault("lost")
    /\ UNCHANGED <<note, issue, pc>>

(* Mutant of CreateIssueRefused: the error is logged, the note mirrored    *)
(* all the same.                                                           *)
CreateIssueGoesOn(n) ==
  /\ pc = "notes"
  /\ n \in todo
  /\ NeedsMirror(n)
  /\ todo' = todo \ {n}
  /\ note' = n
  /\ issue' = NoURI
  /\ pc' = "indexIssue"
  /\ UNCHANGED <<stateVars, worldVars, host, si, revVars>>

CreateIssueRefused(n) ==
  /\ pc = "notes"
  /\ n \in todo
  /\ NeedsMirror(n)
  /\ todo' = todo \ {n}
  /\ UNCHANGED <<stateVars, worldVars, host, pc, si, note, issue, revVars>>

(* InsertIssue; its failure is logged and nothing else.                    *)
IndexIssue ==
  /\ pc = "indexIssue"
  /\ \/ indexed' = indexed \cup {issue} /\ UNCHANGED faults
     \/ Fault("index") /\ UNCHANGED indexed
  /\ pc' = "link"
  /\ UNCHANGED <<mem, disk, now, pruned, outbox, tangledVars, rowVars,
                 ledgerVars, host, fwdVars, revVars>>

LinkIssue ==
  /\ pc = "link"
  /\ SaveOK(WithLink(mem, note, issue))
  /\ pc' = "seen"
  /\ UNCHANGED <<worldVars, host, fwdVars, revVars>>

(* An error of LinkIssue or MarkSeenNote ends the pass.                    *)
LinkIssueFails ==
  /\ pc = "link"
  /\ SaveFails(WithLink(mem, note, issue))
  /\ EndPass
  /\ UNCHANGED <<worldVars, host>>

MarkSeenNote ==
  /\ pc = "seen"
  /\ SaveOK(WithSeen(mem, note))
  /\ pc' = "notes"
  /\ note' = None
  /\ issue' = None
  /\ UNCHANGED <<worldVars, host, si, todo, revVars>>

MarkSeenNoteFails ==
  /\ pc = "seen"
  /\ SaveFails(WithSeen(mem, note))
  /\ EndPass
  /\ UNCHANGED <<worldVars, host>>

NotesDone ==
  /\ pc = "notes"
  /\ todo = {}
  /\ SkipSeries
  /\ UNCHANGED <<stateVars, worldVars, host>>

-----------------------------------------------------------------------------
EnsureRepo ==
  \/ RepoKnown
  \/ KnotCreates \/ KnotRefuses \/ KnotAnswerLost
  \/ Announce \/ AnnounceBlank \/ AnnounceRefused \/ AnnounceAnswerLost
  \/ IndexRepo
  \/ SetRepo \/ SetRepoFails

MirrorNote(n) ==
  \/ SkipNote(n)
  \/ CreateIssue(n) \/ CreateIssueBlank(n)
  \/ CreateIssueAnswerLost(n) \/ CreateIssueRefused(n)

ForwardStep ==
  \/ FetchOutbox \/ OutboxUnavailable \/ SeriesDone
  \/ EnsureRepo
  \/ \E n \in Notes : MirrorNote(n)
  \/ IndexIssue
  \/ LinkIssue \/ LinkIssueFails
  \/ MarkSeenNote \/ MarkSeenNoteFails
  \/ NotesDone
=============================================================================
