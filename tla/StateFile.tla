----------------------------- MODULE StateFile -----------------------------
(***************************************************************************)
(* The steps inside Load and saveLocked (internal/state/state.go) and      *)
(* ensureActor (cmd/bridge/main.go), which keeps the actor's key pair in   *)
(* the state: a temporary file is created, written and renamed, each may   *)
(* fail, and the process or the machine may stop in between.  The file     *)
(* system is external: a rename replaces the file at once, but nothing is  *)
(* synced, so that a power loss leaves any content the file had since the  *)
(* kernel last wrote it back, or a torn one.                               *)
(***************************************************************************)
EXTENDS Naturals, FiniteSets

CONSTANTS
  MaxRev,      \* bound: changes the passes make to the state
  MaxEvents,   \* bound: how often each kind of event may happen
  NoFile, Torn, None

(* A state: the actor's key pair, 0 for none, and a counter that stands    *)
(* for all the rest.                                                       *)
States == [key : Nat, rev : Nat]
Empty == [key |-> 0, rev |-> 0]

(*   died    the process dies in the middle of something                   *)
(*   power   the machine loses power                                       *)
(*   failed  a step of a save before the rename fails                      *)
(*   stuck   the rename fails                                              *)
(*   opened  an operator makes the file accessible to others               *)
Events == {"died", "power", "failed", "stuck", "opened"}

ASSUME FileAssumption ==
  /\ MaxRev \in Nat /\ MaxEvents \in Nat
  /\ NoFile # Torn
  /\ {NoFile, Torn, None} \cap States = {}

VARIABLES
  pc,         \* where the process stands, "down" when there is none
  mem,        \* its State
  saver,      \* who saves: "actor" (ensureActor) or "pass"
  before,     \* history: mem before the change being saved
  file,       \* what is found at the path
  stable,     \* what a power loss may leave there
  open,       \* may other users access the file?
  temps,      \* temporary files in its directory
  keys,       \* key pairs generated so far
  published,  \* history: keys the actor server served
  events      \* history: how often each kind of event happened

fileVars == <<file, stable, open>>
vars == <<pc, mem, saver, before, fileVars, temps, keys, published, events>>

Init ==
  /\ pc = "down" /\ mem = None /\ saver = "actor" /\ before = None
  /\ file = NoFile /\ stable = {NoFile} /\ open = FALSE
  /\ temps = 0 /\ keys = 0 /\ published = {}
  /\ events = [e \in Events |-> 0]

Happens(e) ==
  /\ events[e] < MaxEvents
  /\ events' = [events EXCEPT ![e] = @ + 1]

-----------------------------------------------------------------------------
(* Starting *)

(* A file that does not parse or that others may access is refused: main   *)
(* exits.  An absent file is an empty state.                               *)
Refused == file = Torn \/ open

Load ==
  /\ pc = "down"
  /\ ~Refused
  /\ mem' = IF file = NoFile THEN Empty ELSE file
  /\ pc' = "actor"
  /\ UNCHANGED <<saver, before, fileVars, temps, keys, published, events>>

(* The actor server is mounted with the key at hand, the passes begin.     *)
Serve ==
  /\ pc' = "serving"
  /\ published' = published \cup {mem.key}

(* Mutant of KeyKnown: that the state holds a key is taken for granted.    *)
KeyAssumed ==
  /\ pc = "actor"
  /\ Serve
  /\ UNCHANGED <<mem, saver, before, fileVars, temps, keys, events>>

KeyKnown ==
  /\ pc = "actor" /\ mem.key # 0
  /\ Serve
  /\ UNCHANGED <<mem, saver, before, fileVars, temps, keys, events>>

(* A mutator changes the state in memory, then saves it under the lock.    *)
Mutate(who, s) ==
  /\ saver' = who /\ before' = mem /\ mem' = s
  /\ pc' = "create"

GenerateKeyPair ==
  /\ pc = "actor" /\ mem.key = 0
  /\ keys' = keys + 1
  /\ Mutate("actor", [mem EXCEPT !.key = keys + 1])
  /\ UNCHANGED <<fileVars, temps, published, events>>

Change ==
  /\ pc = "serving" /\ mem.rev < MaxRev
  /\ Mutate("pass", [mem EXCEPT !.rev = @ + 1])
  /\ UNCHANGED <<fileVars, temps, keys, published, events>>

-----------------------------------------------------------------------------
(* Saving *)

CreateTemp ==
  /\ pc = "create"
  /\ temps' = temps + 1
  /\ pc' = "write"
  /\ UNCHANGED <<mem, saver, before, fileVars, keys, published, events>>

(* Mutant of WriteTemp: the state file itself is opened and truncated.     *)
WriteInPlace ==
  /\ pc = "write"
  /\ file' = Torn /\ stable' = {Torn}
  /\ pc' = "rename"
  /\ UNCHANGED <<mem, saver, before, open, temps, keys, published, events>>

(* Write, Close and Chmod of the temporary file.                           *)
WriteTemp ==
  /\ pc = "write"
  /\ pc' = "rename"
  /\ UNCHANGED <<mem, saver, before, fileVars, temps, keys, published, events>>

Saved == IF saver = "actor" THEN Serve
         ELSE pc' = "serving" /\ UNCHANGED published

Rename ==
  /\ pc = "rename"
  /\ file' = mem /\ stable' = stable \cup {mem, Torn} /\ open' = FALSE
  /\ temps' = temps - 1
  /\ before' = None
  /\ Saved
  /\ UNCHANGED <<mem, saver, keys, events>>

(* Mutant of SaveReturns: ensureActor drops the error of SetKeyPair.       *)
SaveReturnsToAll == before' = None /\ Saved /\ UNCHANGED mem

(* The error of a save ends a start, but only the pass at hand later: the  *)
(* change stays in memory.                                                 *)
SaveReturns ==
  /\ before' = None
  /\ UNCHANGED published
  /\ IF saver = "actor" THEN pc' = "down" /\ mem' = None
                        ELSE pc' = "serving" /\ UNCHANGED mem

CreateFails ==
  /\ pc = "create"
  /\ Happens("failed")
  /\ SaveReturns
  /\ UNCHANGED <<saver, fileVars, temps, keys>>

(* Mutant of WriteFails: the temporary file is left behind.                *)
WriteFailsUncleaned ==
  /\ pc = "write"
  /\ Happens("failed")
  /\ SaveReturns
  /\ UNCHANGED <<saver, fileVars, temps, keys>>

WriteFails ==
  /\ pc = "write"
  /\ Happens("failed")
  /\ temps' = temps - 1
  /\ SaveReturns
  /\ UNCHANGED <<saver, fileVars, keys>>

(* The one error path that does not remove the temporary file.             *)
RenameFails ==
  /\ pc = "rename"
  /\ Happens("stuck")
  /\ SaveReturns
  /\ UNCHANGED <<saver, fileVars, temps, keys>>
-----------------------------------------------------------------------------
(* Stopping, and what others do to the file *)

Stop == pc' = "down" /\ mem' = None /\ before' = None

Die ==
  /\ pc # "down"
  /\ Happens("died")
  /\ Stop
  /\ UNCHANGED <<saver, fileVars, temps, keys, published>>

PowerLoss ==
  /\ Happens("power")
  /\ Stop
  /\ file' \in stable /\ stable' = {file'}
  /\ UNCHANGED <<saver, open, temps, keys, published>>

Sync ==
  /\ stable # {file}
  /\ stable' = {file}
  /\ UNCHANGED <<pc, mem, saver, before, file, open, temps, keys, published,
                 events>>

(* chmod, either way: Load's error names the command that undoes it.       *)
Chmod ==
  /\ file # NoFile
  /\ IF open THEN UNCHANGED events ELSE Happens("opened")
  /\ open' = ~open
  /\ UNCHANGED <<pc, mem, saver, before, file, stable, temps, keys, published>>

Next ==
  \/ Load \/ KeyKnown \/ GenerateKeyPair \/ Change
  \/ CreateTemp \/ WriteTemp \/ Rename
  \/ CreateFails \/ WriteFails \/ RenameFails
  \/ Die \/ PowerLoss \/ Sync \/ Chmod

Spec == Init /\ [][Next]_vars

(* A process that is down is started again, a running one goes on, and a   *)
(* step of a save that is tried again and again succeeds again and again.  *)
Fairness ==
  /\ WF_vars(Load) /\ WF_vars(KeyKnown) /\ WF_vars(GenerateKeyPair)
  /\ SF_vars(CreateTemp) /\ SF_vars(WriteTemp) /\ SF_vars(Rename)

FairSpec == Spec /\ Fairness

-----------------------------------------------------------------------------
Files == States \cup {NoFile, Torn}

(* Types of the process, the file and the history; a state is in memory    *)
(* while a process runs, and it serves a key that is in memory.            *)
TypeOK ==
  /\ pc \in {"down", "actor", "serving", "create", "write", "rename"}
  /\ IF pc = "down" THEN mem = None ELSE mem \in States
  /\ saver \in {"actor", "pass"}
  /\ IF pc \in {"create", "write", "rename"} THEN before \in States
                                             ELSE before = None
  /\ file \in Files /\ stable \subseteq Files /\ file \in stable
  /\ open \in BOOLEAN /\ temps \in Nat /\ keys \in Nat
  /\ published \subseteq 1..keys /\ events \in [Events -> Nat]
  /\ pc = "serving" => mem.key \in published

(* The state as its users know it: a change counts once it is saved or     *)
(* its save has failed.                                                    *)
Register == INSTANCE AtomicFile WITH
  mem  <- IF before = None THEN mem ELSE before,
  disk <- file,
  outages <- events["power"]

(* "Save atomically writes the state back to disk" (state.go:112): through *)
(* failed steps and deaths between any two of them the file is the one     *)
(* that was saved last, as BridgeState has it.                             *)
SavesAreAtomic == Register!Spec

(* Only a power loss makes the actor change its key: a key is served once  *)
(* it is in the file, and a start that cannot save it serves none          *)
(* (main.go:173-186).                                                      *)
OneActorKey == Cardinality(published) <= 1 + events["power"]

(* A bridge killed at any point of a save, or one whose saves failed, can  *)
(* be started again: without power losses, and unless an operator leaves   *)
(* the file open, it serves its actor again and again (state.go:58-78).    *)
ServesAgain ==
  [](events["power"] = 0) /\ <>[]~open => []<>(pc = "serving")

(* A save that fails cleans up after itself, except when the rename fails: *)
(* files are left behind by deaths, power losses and failed renames only   *)
(* (state.go:126-144).                                                     *)
TempsExplained ==
  temps <= (IF pc \in {"write", "rename"} THEN 1 ELSE 0)
             + events["died"] + events["power"] + events["stuck"]
=============================================================================
