----------------------------- MODULE AtomicFile -----------------------------
(***************************************************************************)
(* What BridgeState assumes of the state file: a save replaces the file    *)
(* whole or leaves it alone, memory takes the new value either way, a      *)
(* process that starts has in memory what the file holds.  Only a power    *)
(* loss is outside that promise.                                           *)
(***************************************************************************)
EXTENDS Naturals

CONSTANTS
  States,   \* the values a state can have
  Empty,    \* the state of an absent file
  NoFile,   \* the file is absent
  Torn,     \* the file does not parse
  None      \* no process runs

VARIABLES
  mem,      \* the state of the running process, or None
  disk,     \* the file
  outages   \* how often the power was lost

vars == <<mem, disk, outages>>

Init == mem = None /\ disk = NoFile /\ outages = 0

Load ==
  /\ mem = None /\ disk # Torn
  /\ mem' = IF disk = NoFile THEN Empty ELSE disk
  /\ UNCHANGED <<disk, outages>>

SaveOK ==
  /\ mem # None /\ mem' \in States
  /\ disk' = mem'
  /\ UNCHANGED outages

SaveFails ==
  /\ mem # None /\ mem' \in States
  /\ UNCHANGED <<disk, outages>>

Die ==
  /\ mem' = None
  /\ UNCHANGED <<disk, outages>>

PowerLoss ==
  /\ mem' = None
  /\ disk' \in States \cup {NoFile, Torn}
  /\ outages' = outages + 1

Next == Load \/ SaveOK \/ SaveFails \/ Die \/ PowerLoss

Spec == Init /\ [][Next]_vars
=============================================================================
