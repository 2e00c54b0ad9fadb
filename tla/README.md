# graft-tangled in TLA+

`graft-tangled` mirrors issues between Graft (ActivityPub) and Tangled (AT
Protocol).  A process runs *passes*: the forward half turns new issue and patch
notes of each configured series into Tangled issues, creating the series' repo
first; the reverse half relays new comments on those issues to Graft as signed
replies.  Between passes, and over restarts, all it knows is one JSON file.

The modules here are translated from the Go source.  TLC checks small
instances; TLAPS proves what matters most for every value of the constants.

## The system

| component | source | state | operations | what is hard |
|---|---|---|---|---|
| pass | `internal/bridge/bridge.go` | locals of a pass: series, note, batch, `maxID`, `frozen`, `delivered` | `RunOnce`, `ensureRepo`, the two directions | several remote calls and saves in a row; failure or death between any two |
| durable state | `internal/state/state.go` | repos, note/issue links, comment cursor, dedup sets, actor keys | one mutator per map, each prunes and saves | a failed save leaves memory ahead of the file; entries expire |
| process | `cmd/bridge/main.go` | configuration, the pass loop | start, pass, stop | crash and restart, changed configuration |
| Tangled client | `internal/tangled/client.go` | session token | `CreateRepo`, `CreateIssue`, re-login | two writes in `CreateRepo`; expired tokens; empty answers |
| Graft client | `internal/graft/*.go` | none | `Outbox`, `ParseNotes`, `ReplyToIssue` | lost answers, refusals |
| appview database | `internal/appviewdb/db.go` | SQLite tables shared with the appview | `NewComments`, `InsertRepo`, `InsertIssue`, `IssueLocation` | concurrent numbering, missing rows |
| ActivityPub | `internal/ap/*.go` | none | note URIs, HTTP signatures, the actor document Graft fetches the key from | what a signature covers; the server starts beside the first pass |
| address policy | `internal/netguard/netguard.go` | none | `Client`, `dial`, `CheckRedirect` | DNS answers that change, redirect chains |
| configuration, smoke test | `internal/config`, `cmd/smoketest` | none | parse a file; a manual script | nothing concurrent or durable |

A pass calls Graft, the PDS, a knot and the appview's database in sequence, and
a mutator of the state after each effect worth remembering.  Nothing else calls
the state, so its mutex is never contended.

What makes the parts correct: no comment is lost, whatever fails (the cursor);
nothing is sent or mirrored twice without a fault to blame (the dedup sets);
replies reach the thread they belong to (the links); every configured series
gets a repo, and no series another's; what the file holds only grows, apart
from expiry; every note and comment is eventually dealt with, also behind one
that never succeeds.  Below that: a save replaces the file or leaves it; a
remote call writes once; a number names one issue; a reply arrives where it was
signed for; the actor keeps its key.

## Modules

The pass, and what it works on:

| module | models |
|---|---|
| `BridgeState` | the state record in memory (`mem`) and in the file (`disk`), the mutators, pruning, `Load`, the clock, and the budget of faults |
| `BridgeWorld` | what the bridge talks to - outboxes, knots, PDS records, appview rows, comments - and the program counter and locals of a pass |
| `Forward` | `forwardGraftToTangled`, `ensureRepo`, `CreateRepo`, `CreateIssue` |
| `Reverse` | `reverseTangledToGraft`, `NewComments`, `IssueLocation`, `ReplyToIssue` |
| `Bridge` | the process around them: pass, crash, restart; fairness; all properties |
| `AtLeastOnce` | abstract: comments that are owed, crossed off, sent, excused |
| `MCBridge` | constants for TLC |
| `BridgeProofs` | type correctness |
| `RecordProofs` | what the record in memory and in the file says of the world: links, repos, trackbacks; the file only grows |
| `RelayProofs` | no comment is lost; `Bridge` implements `AtLeastOnce` |
| `LedgerProofs` | duplicate replies and duplicate issues are paid for |

What one action of the pass consists of, each against what the pass takes it
for:

| module | models | abstract |
|---|---|---|
| `TangledSession` | the token of the Tangled client: login, age, expiry, re-login and the one retry of `serviceAuth` and `postAuthed`, around the requests of `CreateIssue` and `CreateRepo` | `RemoteCall` |
| `AppviewIndex` | the statements of `InsertIssue`'s transaction in several writers | `IssueNumbers` |
| `StateFile` | the steps of `Load`, `ensureActor` and `saveLocked`; deaths, power losses, failed steps | `AtomicFile` |
| `Delivery`, `MCDelivery` | one `ReplyToIssue`: actor, signature, post, through `netguard` and redirects, while the actor server comes up | - |

Each of these four has its theorems in a module of its own: `SessionProofs`,
`IndexProofs`, `FileProofs`, `DeliveryProofs`.

### The pass

One action stands for one remote call or one save, together with everything the
code does until the next one; a crash, a comment, a note or the clock may come
between any two.  `pc` names the place in the code:

    outbox -> ensure -> announce -> indexRepo -> setRepo -> notes
    notes -> indexIssue -> link -> seen -> notes      (one note)
    outbox -> read -> relay -> mark -> relay -> idle  (after the last series)

Every remote call has three outcomes: it succeeds; it is *refused*, an error
without an effect; or its answer is *lost*, an error after the effect.
`createRecord` and `putRecord` have a fourth: `post` takes an empty body of a
2xx answer for success (client.go:337-343), so that the URI of the issue
(fault "blank") or of the repo (fault "unnamed") is empty.  The next repo
without a URI is then passed over by `INSERT OR IGNORE`.

A Go map is a function to a value or `None`; an AT-URI is a model value; the
hash of a comment's URI is the comment; a repo is known by its series.
`SaveOK`/`SaveFails` are the two outcomes of `saveLocked`: both prune and
change the memory, only one reaches the file.  `Crash` forgets the locals;
`Restart` loads the file, perhaps with another `graft.base_url`.  Start-up that
fails (an unreadable file, no login) leaves the process down: `Restart` has not
happened yet.  The panic handler of `runPass` has no counterpart since no
modelled step panics.

Titles, bodies, content limits and logging are left out, as is the
history of `repoDid`s: that a repo is recorded with the DID the knot gave out
follows from `CreateRepo` alone.

The world is constrained only as the bridge relies on it: an outbox lists its
own series' notes, comment ids increase in the order in which rows are added,
comments are on issues that exist on the PDS, and a knot keeps one repo per
(account, name).  Others may delete the rows of issues and repos in the
appview (`DeleteRow`, for those in `Deletable`): `removed` is what
`IssueLocation` does not find any more (db.go:180).

### The session (`TangledSession`)

`pc` is "fresh" in `ensureFreshSession`, "send" before a request goes out,
"relogin" and "retry" after an `ExpiredToken` answer.  `token` is what the PDS
thinks of the access token, `old` what the client thinks of its age; the two
are independent, for the PDS may drop a token when it likes, and a monotonic
clock stands still while the machine sleeps.  The knot's request carries the
service token and goes through neither check.  `done` lists the writes that
took effect.

### The numbers (`AppviewIndex`)

SQLite is external: `BEGIN` is deferred and takes no lock, the first statement
that writes takes the one write lock, readers see what was committed, and
whatever is not committed is rolled back (the deferred `Rollback`, a failed
`Commit`, whose connection `database/sql` gives up, or the death of the
process).  `tx` is the database as the holder of the lock sees it.  The
appview's writers run the transaction that `InsertIssue` copies "exactly"
(db.go:129-132).  Each issue is filed once: the firehose handing the appview an
issue that the bridge inserted already is outside the model.

### The file (`StateFile`)

A state is its key pair and a counter that stands for everything else.  `file`
is what a reader finds, `stable` what a power loss may leave: since nothing is
synced, any content since the last write-back (`Sync`), or a torn one.
`before` is the state before the change being saved.  A key is `published` once
the actor server is mounted.  Load's refusals - a file that does not parse, one
that others may access - keep the process down.

### A reply (`Delivery`)

A request has a URL, a method, a body and a signature; a signature is the list
of header values it covers, so that it fits no other.  `SignRequest` and
`VerifyRequest` differ in what they sign and what they insist on
(sign.go:28, 39).  Graft takes a reply if it verifies, at an inbox, and if it
can fetch the key (`serving`), and refuses any other POST to one.  Any other
URL may answer whatever it is sent with a status below 300, and so may an inbox
a GET: `postSigned` asks for no more (client.go:183).  Which URLs `Validate` refuses and which
addresses are public are constants; every name may resolve to anything at any
time.  Go's `http.Client` is external: it follows 301, 302 and 303 with a
bodiless GET, 307 and 308 with the same request.  `CheckRedirect` deletes no
header, for `main` configures no `SensitiveHeaders`.  Proxies and kept-alive
connections are left out.  The Date window is not modelled; a request outside
it is one that fails.

### Ghost state

`replies`, `routed`, `trackless` and `unroutable` record what happened to each
comment, `pruned` how many saves forgot an entry, and `faults` how often each
kind of counted fault struck; `done`, `logins`, `published`, `accepted` and
`events` are the like in the other modules.  The code reads none of them.

## One module implements the other

Each refinement is a `PROPERTY` of a run, under the mapping in the `INSTANCE`.

* `Bridge` implements `AtLeastOnce`.  A comment is *owed* when somebody else
  wrote it and the state *file* links its issue; the cursor of the file crosses
  off; *sent* counts what Graft took.  The abstract relay never crosses off what
  was neither sent nor excused, and never sends what is crossed off.
  It may send twice in between: that is what `RepliesAccounted` bounds.
* `TangledSession` implements `RemoteCall`: an operation makes its writes in
  order, each at most once, and reports success only if it made all.  This is
  what `Forward` relies on when it gives each write one action with the
  outcomes "succeeds", "refused", "lost".
* `AppviewIndex` implements `IssueNumbers`: rows appear one by one with the next
  number of their repo.  `Forward` relies on a row being there or not.
* `StateFile` implements `AtomicFile`: memory takes the new value, the file
  takes it whole or not at all.  These are `SaveOK`, `SaveFails` and `Load` of
  `BridgeState`.  Memory is mapped to `before` until the save has ended, for
  nobody reads it under the mutex.  Only a power loss may do more.

`Delivery` justifies the outcomes of `Reply`, with one exception that the run
`redirected` shows: `Bridge` takes an answer below 300 to mean that Graft has
the reply.  Where the actor names a Graft inbox that does not redirect, it does
(`SuccessExplained`).

## Runs

The runs of the pass use `MCBridge`, `delivery` and `redirected` use
`MCDelivery`, the other three their module itself.  `None` and `NoURI` are model
values.  Notes and issues are symmetric in `relay`; no run that checks liveness
uses symmetry.

| run | instance | shows |
|---|---|---|
| `relay` | 2 notes, 2 issues, 2 comments, 2 Graft hosts, limit 1; one crash, one failed save, one lost answer, one blank answer | `TypeOK`, `NoCommentLost`, `RepliesAccounted`, `IssuesAccounted`, `RoutedHome`, `SeenIsLinked`, `LinksInvert`, `DurableProgress`, `RelaysAtLeastOnce` |
| `prune` | 1 note, 3 issues, 2 comments, entries expire at the one tick of the clock; one lost answer | `RepliesAccounted`, `IssuesAccounted` when entries are forgotten; `MirroredEventually` |
| `setup` | 4 series, 3 with one record key, 2 knots, nothing provisioned; one failed save, one lost answer, one failed insert or lookup, two announcements without a URI; the issue and the repo of the first series may be deleted | `ReposAnnounced`, `TracklessExplained` |
| `live` | 1 note, 1 issue, 3 comments, comment 1 may be refused for ever, comment 2 is the bridge's own, limit 1, one crash, one failed save | `RelayedEventually`, `CursorCatchesUp` |
| `twice` | 1 note, 3 comments, expiring entries, no fault | violation of `NeverSentTwice` |
| `wedged` | 1 series, nothing provisioned, no counted fault, fair | violation of `RepoEventually` |
| `blank` | 2 notes, two blank answers | violation of `LinksInvert` |
| `session` | both operations; two deaths, two expiries, two old sessions | `TypeOK`, `LoginsPaidFor`, `WritesOnce`, `SessionRecovers` |
| `index` | 3 writers, 2 repos, 4 issues | `TypeOK`, `NoCollision`, `NumbersInOrder`, `LockReleased` |
| `file` | 2 changes; two each of death, power loss, failed save, failed rename, chmod | `TypeOK`, `OneActorKey`, `TempsExplained`, `SavesAreAtomic`, `ServesAgain` |
| `delivery` | 2 hosts with 2 inboxes and a page each, one page unsafe; 2 public addresses and a private one; 3 requests per chain | `TypeOK`, `OnlyPublic`, `AcceptedAtInbox`, `SuccessExplained`, `DeliversAgain` |
| `redirected` | the same | violation of `OkIsAccepted` |

Why the bounds are enough to be interesting.  Two comments are the least with
which a failed delivery is followed by a successful one, and with a limit of
one delivery the limit is met in the same batch; two issues are the least with
which a note is mirrored twice, or two notes once each.  One fault of each kind
lets any two different kinds combine, and refusals and changes of the world are
unbounded.  Only `prune` and `twice` let the clock run, with `MaxTime` as its
end; in the other runs it stands still and nothing expires.  In `prune` a tick
outlasts the retention window, so that one tick lets an entry expire and be
written again behind a cursor that the other comment holds back; three issues
are one more than the expiry and the lost answer can waste, so that their bound
never stands in the way of `MirroredEventually`.  In `twice` three comments and
four clock values do the same without a fault.  More expiries, and expiries
together with crashes and failed saves, are left to the proofs of
`DuplicatesPaidFor` and `IssuesPaidFor`.  In `live` one issue is enough, for it
is about comments.  In `setup`, three clashing names on two knots cover both
ways to clash: for one repo on a knot, and for one record on the PDS; two
announcements without a URI are the least that clash.  `MaxComments`,
`MaxTime`, `MaxFaults`, `Notes`, `Issues` and `Deletable` are the only bounds;
the proofs need none of them to be small.

In `session` two expiries are the least that can hit both the request and its
retry.  In `index` three writers let two wait for the lock of a third, and four
issues in two repos let two writers meet in one repo while a third uses the
other.  In `file` two events of a kind let a second death or failure strike
while the first is being recovered from; `MaxRev` = 2 lets the file be two
changes behind.  In `delivery` an inbox has a sibling on its own host and one on
another, which is all that a signature can tell apart.  `MaxEvents`, `MaxRev`
and `Issues` are the only bounds there; refusals and lost answers are unbounded.

Deadlock is checked in every run but two: in `index` all issues are filed in the
end, and in `file` a process facing a torn file exits for good.

### What the properties say

* `NoCommentLost` is the comment at bridge.go:170 made precise: a comment at or
  below the cursor, in memory *or in the file*, was relayed, deleted, is the
  bridge's own or on an issue without a link, or names a note on a host that is
  no longer configured.
* `RepliesAccounted`, `IssuesAccounted`: duplicates cannot be excluded - the
  effect and its record are on different machines - so the properties bound
  them by the faults that explain them.  Zero faults, zero duplicates.
* `RoutedHome`, `LinksInvert`, `SeenIsLinked`: links survive duplicates,
  restarts and failed saves.  `SeenIsLinked` asks for a real issue that was made
  from the note and leads back to it (`Linked`); a note whose issue came back
  without a URI is the exception, for nothing leads back from that issue.
* `MirroredEventually`: a listed note gets a real link that stays.  It does not
  count as seen for good: `prune` forgets what it saw 180 days ago
  (state.go:101-110), and a note still listed is then mirrored once more, which
  `IssuesAccounted` allows for.
* `DurableProgress` is an action property of the file.
* `ReposAnnounced`, `TracklessExplained`: `ensureRepo` and the appview's rows.
  A trackback is missing for one of the named causes only: a failed insert or
  lookup, a deletion, or another row in the way of the repo's.
* `LoginsPaidFor` bounds logins by their causes, as `OneActorKey` bounds keys by
  power losses and `TempsExplained` left-over files by deaths, power losses and
  failed renames (the one error path of saveLocked that removes nothing).
* `NoCollision` is the promise of db.go:131-136; `NumbersInOrder` adds that no
  number is skipped or taken back when a transaction fails, and `LockReleased`
  that whoever fails lets the appview go on.
* `OnlyPublic` is about the moment a request goes out: whatever DNS answered when
  the URL was checked, and wherever actors and redirects point.
  `AcceptedAtInbox` says that the covered headers suffice: a signed reply
  redirected to another inbox is not taken there.  `SuccessExplained` adds that
  it does not pass for delivered there either: where the actor names a Graft
  inbox, a false success takes a redirect that drops the method or leads to
  something that is no inbox.  `DeliversAgain` asks for a success with the reply
  in Graft, not for a success alone.
* `SessionRecovers`, `ServesAgain`, `DeliversAgain`: nothing passing has a
  lasting effect - an expired token, a kill during a save, a first pass that
  runs before the actor server listens.
* The liveness properties of the pass are stated for memory.  A failed save of
  `MarkSeenNote` is not retried: the next mutator that saves writes it, and if
  there is none, the file stays behind until the process dies.

### Fairness

`FairSpec` assumes that a process that can take a step takes one
(`WF(RunOnce)`: the loop of main.go:153-162 runs a pass on every tick, and a
pass always moves on since every call has a timeout), that it is restarted
when it is down (`WF(Restart)`: the supervisor), and that a service asked
again and again answers again and again (`SF` on the successful outcome of each
remote call and of `NewComments`), except that the comments of `Poison` may be
refused for ever.  This leaves aside a pass timeout so short that no pass
reaches the reverse half: the model has no durations.  Nothing is assumed of the
appview's inserts, of saves, or of anything the outside world does.

`TangledSession`: calls go on being made (WF), and every request and login that
is made again and again succeeds again and again, an expired token being
reported as such (SF).  Nothing is assumed of the client's clock, so recovery
does not rest on `sessionMaxAge`.  `AppviewIndex`: a writer that has begun gets
on, by its next statement or by failing (WF): the pass timeout and the ten
seconds of `busy_timeout` end every wait.  `StateFile`: the supervisor starts
the process again (WF), a step of a save that is tried again and again succeeds
(SF).  `Delivery`: passes go on, the goroutine of the server gets to run and
requests time out (WF: all clients have timeouts); names resolve to public
addresses, the actor names a Graft inbox and Graft answers again and again (SF).
A server that cannot listen (the port is taken) is only logged
(main.go:125-127); with it replies fail for good, and `Fairness` rules it out.

### Findings

1. `twice`.  bridge.go:170-174 says that comments behind a frozen cursor are
   "skipped by their delivered hash, never sent twice".  `prune` forgets hashes
   after 180 days (state.go:101-110) whatever the cursor is.  When Graft
   refuses one comment for good (a thread that is gone, say), the comments
   after it are relayed again each time their hashes expire.  A crash or a lost
   answer has the same effect at once; there it cannot be avoided.
2. `wedged`.  client.go:214-218 says that a second `CreateRepo` returns an error
   "the caller can treat as success - see bridge.go's ensureRepo".  ensureRepo
   (bridge.go:87-89) treats it as failure.  If the knot created the repo and
   the PDS did not announce it, the series is never recorded or mirrored.
3. `blank`.  client.go:337-343 takes an empty or unreadable answer for success;
   two of them link two notes to the empty URI, and `IssueToNote` is no longer
   "the reverse" (state.go:39-41) of `IssueByNote`.
4. `redirected`.  client.go:90 of the Graft client says that `ReplyToIssue`
   "delivers a signed Create{Note} to the series inbox".  When the inbox
   redirects the POST, `http.Client` goes on elsewhere, with a GET that carries
   nothing (301, 302, 303) or with the POST as it was (307, 308),
   `CheckRedirect` lets it, and `postSigned` takes any status below 300 of
   whatever page that is for success: the comment is marked delivered and the
   cursor passes it.

## Proofs

Each theorem holds for every value of the constants that satisfies the
assumptions of its module (`StateAssumption` and `WorldAssumption`,
`EventsAssumption`, `IndexAssumption`, `FileAssumption`, `DeliveryAssumption`:
types, and that `None`, `NoURI` and the like are distinct from data), for any
number of faults and any length of run.

### The pass

**`TypeCorrect`: `Spec => []TypeOK`.**  `TypeOK` is inductive by itself, for it
includes `LocalsOK`: the locals each program point relies on.

**`CommentsKept`: `Spec => []NoCommentLost`.**  Not inductive: when the cursor is
set to `maxID`, that all before it is dealt with is known only from how the
pass came to `maxID`.  `RelayInv` adds
  * `PassDone`: during the loop, everything owed up to `maxID` is done;
  * `BatchComplete`: as long as no delivery failed, whatever is still to be done
    is in the batch or newer than all of it, and `MarkNext`, the same for the
    comment just sent;
  * `IdsInOrder`, `CursorsBehind`: a new row is past every cursor;
  * `FreshIssue`: comments on an issue not linked yet are past the cursor in
    memory, so that linking it makes nothing overdue;
  * `DeliveredSent`: a dedup entry means that a reply was sent.

The lemma `RelayKept` covers the many steps that leave comments, links and
cursor alone; each of the others has a lemma of its own.

**`RelayImplementsAtLeastOnce`: `Spec => RelaysAtLeastOnce`.**  Under `BridgeInv`
(`TypeOK`, `LinkInv`, `RelayInv` and `AheadInv`), `StepKinds` sorts the steps:
ten saves and a new comment map to `Settle`, the two outcomes of a taken reply
to `Send`, a deletion and a step over an unroutable comment to `Excuse` (or to
nothing, if the comment is excused already), all else to nothing.  That a save
crosses off nothing owed is `NoCommentLost` in the next state; that it makes
nothing owed that is crossed off needs `LinkedLate`: a comment whose issue is
linked in memory but not yet in the file is past the cursor *of the file*.  A
failed `LinkIssue` is how such a link comes about, and `FreshIssue` why it holds
then.  That only what is not crossed off is sent is `BatchAhead` with
`Continues(disk, mem)`: the file's cursor is never ahead.

**`FileOnlyGrows`: `Spec => DurableProgress`; `RepliesRoutedHome`:
`[]RoutedHome`; `SeenNotesLinked`: `[]SeenIsLinked`.**  One invariant, `LinkInv`,
gives all three.  Of both records it says that links are true (the issue was
made from the note it is linked to), lead back, and exist for every note that
counts as mirrored; that memory continues the file; and what the pass knows of
the note at hand.  The file only grows because every save writes a record that
continues the memory (`LinkSave`); that `LinkIssue` does, though it overwrites a
key, follows from links being true: an issue is made from one note only.

**`LinksInvertEachOther`: `Spec => [](faults["blank"] <= 1 => LinksInvert)`.**  The
bound is necessary (the run `blank`).  `BlankInv` follows the notes whose issue
came back without a URI: none after no blank answer, and one after one, so that
the link of the empty URI is its own.

**`RepoRecordsTrue`: `[]ReposAnnounced`.**  `RepoInv` says of a repo created and
not recorded yet that its slot on the knot is no recorded series' slot, so that
its announcement overwrites none of the same knot.

**`TrackbacksExplained`: `[]TracklessExplained`.**  `TrackInv` says that whatever a
record links or lists, in memory or in the file, was *shown*: it is indexed, or
an insert failed, or a row with the same key, or with an empty AT-URI like its
own, was in the way; and that the notes
of a pass are those of the series at hand, which was shown before.  It uses
`LinkInv`, for a reply's trackback is looked up by the issue and its route by
the link.

**`DuplicatesPaidFor`: `[]RepliesAccounted`; `IssuesPaidFor`:
`[]IssuesAccounted`.**  `RepliesInv` says that a reply beyond the allowance
(crashes + lost answers + pruning saves) is possible only while the process
remembers it, as a dedup entry or as the comment about to be marked.  Whatever
makes the process forget raises the allowance by one.  `IssuesInv` is the same
for issues, where a failed save counts too: when the save of
`LinkIssue` or `MarkSeenNote` fails, the pass ends with an issue made and a
file that does not say so.  It also
says that the issues of a note are finitely many, so that they can be counted:
`Issues` may be infinite.

### Its parts

**`SessionProofs`: `[]TypeOK`, `Spec => WritesOnce`, `[]LoginsPaidFor`.**
`TypeOK` is inductive and does the work of the refinement: while an operation
runs, `done` is exactly what the requests before the one at hand have written
(`Written`), so that a request served, once or at the retry, is the next write
of the plan.  The count of logins needs `LoginInv`: logins are at most the
starts, expiries and agings so far, less the reason that is still open (a
process not logged in yet, a token gone or old and not replaced).

**`IndexProofs`: `[]TypeOK`, `[]NoCollision`, `Spec => NumbersInOrder`.**
`IndexInv` says that the committed counter of each repo is one past the number
of its rows and past the number of each of them (`Counted`), that the holder of
the write lock sees the committed tables and its own changes (`HolderSees`),
and that nobody files what another one files (`OwnIssue`).  A commit is the
abstract step, everything else stutters.

**`FileProofs`: `[]TypeOK`, `Spec => SavesAreAtomic`, `[]TempsExplained`,
`[]OneActorKey`.**  `FileInv` adds to `TypeOK` that no state anywhere has a key
not generated yet, and that a save past `CreateTemp` has its temporary file.
For the one key, `KeyInv` counts the keys that were served and are not the
file's (`Lost`): there are as many as power losses at most, for a key is served
only once it is in the file, and a save never takes a key away.

**`DeliveryProofs`: `[]TypeOK`, `[]OnlyPublic`, `[]AcceptedAtInbox`, `[]SuccessExplained`.**
`DeliveryInv` keeps, through any chain of redirects, that a request has no
signature or the one made for its `for`, whatever its URL has become; a URL that
passes `VerifyRequest` then agrees with it in host and path.  For
`SuccessExplained` it also says that a POST no server redirected is still one,
and at the URL it was signed for.

### Only model-checked

Every invariant, action property and refinement of the passing runs is a
theorem.  Liveness is not: reasoning about fairness needs `ENABLED`, which is
beyond the prover.  `MirroredEventually`, `RelayedEventually`,
`CursorCatchesUp`, `SessionRecovers`, `LockReleased`, `ServesAgain` and
`DeliversAgain` rest on TLC alone.  So does that the four findings are reachable.

## What is left

Not modelled, and why:

* Configuration parsing, the actor's HTTP handlers, the smoke test, log
  messages: stateless, or text.
* `ParseNoteURI`, `splitKind`, `sanitizeRkey`, `ipAllowed`: pure functions of
  strings and addresses.  The models ask of them only which notes are on the
  host and replyable, which names clash, and which addresses pass, and leave the
  answer to constants.
* `CreateComment`, `InsertComment`, `IssueForNote`, `MatchIssueByTitle`,
  `PostSigned`: no caller in the bridge.
* Durations: a pass that spends its timeout on the forward half, SQLite's limit
  on the variables of one query (`NewComments` takes one per watched issue).
* A second process on the same state file (`-once` beside the daemon): the two
  would overwrite each other's file.  Nothing in the code prevents it or
  promises anything of it.
