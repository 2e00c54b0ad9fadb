----------------------------- MODULE FileProofs -----------------------------
(***************************************************************************)
(* The state file behaves as an atomic register, and only power losses     *)
(* change the actor's key or explain more than the events counted, for any *)
(* number of changes, deaths and failures.                                 *)
(***************************************************************************)
EXTENDS StateFile, FiniteSetTheorems, TLAPS

Saving == pc \in {"create", "write", "rename"}

(* No state anywhere has a key that was not generated yet.                 *)
Known(x, n) == x \in States => x.key <= n

KeysKnown ==
  /\ Known(mem, keys) /\ Known(before, keys)
  /\ \A x \in stable : Known(x, keys)
  /\ Saving /\ saver = "actor" => mem.key # 0
  /\ Saving /\ saver = "pass" => mem.key \in published

(* A save that has its temporary file still has it.                        *)
TempHeld == pc \in {"write", "rename"} => temps > 0

FileInv == TypeOK /\ KeysKnown /\ TempHeld

-----------------------------------------------------------------------------
(* The parts a save that returns leaves behind.                            *)
LEMMA SaveReturnsTypes ==
  ASSUME FileInv, Saving, SaveReturns
  PROVE  /\ before' = None /\ published' = published
         /\ \/ pc' = "down" /\ mem' = None
            \/ pc' = "serving" /\ mem' = mem /\ saver = "pass"
BY DEF FileInv, TypeOK, Saving, SaveReturns

LEMMA EventTypes ==
  ASSUME FileInv, NEW e \in Events, Happens(e)
  PROVE  /\ events' \in [Events -> Nat]
         /\ events'[e] = events[e] + 1
         /\ \A x \in Events : x # e => events'[x] = events[x]
BY DEF FileInv, TypeOK, Happens

LEMMA MoreKeys ==
  ASSUME NEW x, NEW n \in Nat, Known(x, n)
  PROVE  Known(x, n + 1)
BY DEF Known, States

LEMMA InvInit == Init => FileInv
<1> SUFFICES ASSUME Init PROVE FileInv
  OBVIOUS
<1>1. TypeOK
  BY DEF Init, TypeOK, Files
<1>2. KeysKnown /\ TempHeld
  BY FileAssumption DEF Init, KeysKnown, Known, Saving, TempHeld
<1> QED
  BY <1>1, <1>2 DEF FileInv

(* Starting: a state loaded is one of the file, a key served is known.     *)
LEMMA StartStep ==
  ASSUME FileInv, Load \/ KeyKnown \/ GenerateKeyPair
  PROVE  FileInv'
<1> USE DEF FileInv, fileVars
<1>1. CASE Load
  <2>1. mem' \in States /\ (mem' = file \/ mem' = Empty)
    BY <1>1 DEF Load, Refused, TypeOK, Files, Empty, States
  <2>2. TypeOK'
    BY <1>1, <2>1 DEF Load, TypeOK
  <2>3. Known(mem', keys')
    BY <1>1, <2>1 DEF Load, TypeOK, KeysKnown, Known, Empty, States
  <2> QED
    BY <1>1, <2>2, <2>3 DEF Load, KeysKnown, Saving, TempHeld
<1>2. CASE KeyKnown
  <2>1. mem.key \in 1..keys
    BY <1>2 DEF KeyKnown, TypeOK, KeysKnown, Known, States
  <2>2. TypeOK'
    BY <1>2, <2>1 DEF KeyKnown, Serve, TypeOK
  <2> QED
    BY <1>2, <2>2 DEF KeyKnown, Serve, KeysKnown, Saving, TempHeld
<1>3. CASE GenerateKeyPair
  <2>1. /\ mem \in States /\ mem' \in States /\ mem'.key = keys + 1
        /\ before' = mem /\ saver' = "actor" /\ pc' = "create"
        /\ keys' = keys + 1 /\ keys \in Nat
        /\ UNCHANGED <<file, stable, open, temps, published, events>>
    BY <1>3 DEF GenerateKeyPair, Mutate, TypeOK, States
  <2>2. TypeOK'
    BY <2>1 DEF TypeOK
  <2>3. /\ Known(before', keys')
        /\ \A x \in stable : Known(x, keys')
    BY <2>1, MoreKeys DEF KeysKnown
  <2>4. Known(mem', keys') /\ mem'.key # 0
    BY <2>1 DEF Known
  <2> QED
    BY <2>1, <2>2, <2>3, <2>4 DEF KeysKnown, TempHeld
<1> QED
  BY <1>1, <1>2, <1>3

(* Saving: the file changes by Rename only, to the state in memory.        *)
LEMMA SaveStep ==
  ASSUME FileInv,
         Change \/ CreateTemp \/ WriteTemp \/ Rename
           \/ CreateFails \/ WriteFails \/ RenameFails
  PROVE  FileInv'
<1> USE DEF FileInv, fileVars
<1>1. CASE Change
  <2>1. /\ mem \in States /\ mem' \in States /\ mem'.key = mem.key
        /\ mem.key \in published /\ before' = mem /\ saver' = "pass" /\ pc' = "create"
        /\ UNCHANGED <<file, stable, open, temps, keys, published, events>>
    BY <1>1 DEF Change, Mutate, TypeOK, States
  <2>2. TypeOK'
    BY <2>1 DEF TypeOK
  <2> QED
    BY <2>1, <2>2 DEF KeysKnown, Known, Saving, TempHeld
<1>2. CASE CreateTemp
  <2>1. TypeOK'
    BY <1>2 DEF CreateTemp, TypeOK
  <2> QED
    BY <1>2, <2>1 DEF CreateTemp, KeysKnown, Saving, TempHeld, TypeOK
<1>3. CASE WriteTemp
  <2>1. TypeOK'
    BY <1>3 DEF WriteTemp, TypeOK
  <2> QED
    BY <1>3, <2>1 DEF WriteTemp, KeysKnown, Saving, TempHeld
<1>4. CASE Rename
  <2>1. /\ mem \in States /\ file' = mem /\ stable' = stable \cup {mem, Torn}
        /\ open' = FALSE /\ temps' = temps - 1 /\ before' = None
        /\ pc' = "serving" /\ UNCHANGED <<mem, saver, keys, events>>
    BY <1>4 DEF Rename, Saved, Serve, TypeOK
  <2>2. published' \subseteq 1..keys /\ mem.key \in published'
    <3>1. CASE saver = "actor"
      <4>1. published' = published \cup {mem.key} /\ mem.key \in 1..keys
        BY <1>4, <2>1, <3>1
        DEF Rename, Saved, Serve, KeysKnown, Known, Saving, TypeOK, States
      <4> QED
        BY <4>1 DEF TypeOK
    <3>2. CASE saver = "pass"
      BY <1>4, <3>2 DEF Rename, Saved, TypeOK, Saving, KeysKnown
    <3> QED
      BY <3>1, <3>2 DEF TypeOK
  <2>3. temps' \in Nat
    BY <1>4, <2>1 DEF Rename, TempHeld, TypeOK
  <2>4. TypeOK'
    BY <2>1, <2>2, <2>3 DEF TypeOK, Files
  <2>5. KeysKnown'
    BY <2>1, FileAssumption DEF KeysKnown, Known, Saving
  <2> QED
    BY <2>1, <2>4, <2>5 DEF TempHeld
<1>5. CASE CreateFails \/ WriteFails \/ RenameFails
  <2>1. /\ Saving /\ SaveReturns /\ temps' \in Nat
        /\ UNCHANGED <<saver, fileVars, keys>>
    BY <1>5 DEF CreateFails, WriteFails, RenameFails, Saving, TempHeld, TypeOK
  <2>2. events' \in [Events -> Nat]
    BY <1>5, EventTypes DEF CreateFails, WriteFails, RenameFails, Events
  <2>3. /\ before' = None /\ published' = published
        /\ \/ pc' = "down" /\ mem' = None
           \/ pc' = "serving" /\ mem' = mem /\ saver = "pass"
    BY <2>1, SaveReturnsTypes
  <2>4. TypeOK'
    BY <2>1, <2>2, <2>3 DEF TypeOK, KeysKnown, Saving
  <2>5. KeysKnown'
    BY <2>1, <2>3, FileAssumption DEF KeysKnown, Known, Saving
  <2> QED
    BY <2>3, <2>4, <2>5 DEF TempHeld
<1> QED
  BY <1>1, <1>2, <1>3, <1>4, <1>5

(* Stopping, and what others do to the file.                               *)
LEMMA OutsideStep ==
  ASSUME FileInv, Die \/ PowerLoss \/ Sync \/ Chmod \/ UNCHANGED vars
  PROVE  FileInv'
<1> USE DEF FileInv, fileVars
<1>1. CASE Die \/ PowerLoss
  <2>1. /\ pc' = "down" /\ mem' = None /\ before' = None
        /\ UNCHANGED <<saver, open, temps, keys, published>>
    BY <1>1 DEF Die, PowerLoss, Stop
  <2>2. file' \in stable' /\ stable' \subseteq stable
    BY <1>1 DEF Die, PowerLoss, TypeOK
  <2>3. events' \in [Events -> Nat]
    BY <1>1, EventTypes DEF Die, PowerLoss, Events
  <2>4. TypeOK'
    BY <2>1, <2>2, <2>3 DEF TypeOK
  <2>5. KeysKnown'
    BY <2>1, <2>2, FileAssumption DEF KeysKnown, Known, Saving
  <2> QED
    BY <2>1, <2>4, <2>5 DEF TempHeld
<1>2. CASE Sync
  <2>1. TypeOK'
    BY <1>2 DEF Sync, TypeOK
  <2> QED
    BY <1>2, <2>1 DEF Sync, TypeOK, KeysKnown, Saving, TempHeld
<1>3. CASE Chmod
  <2>1. events' \in [Events -> Nat]
    BY <1>3, EventTypes DEF Chmod, Events, TypeOK
  <2>2. open' \in BOOLEAN
    BY <1>3 DEF Chmod, TypeOK
  <2>3. TypeOK'
    BY <1>3, <2>1, <2>2 DEF Chmod, TypeOK
  <2> QED
    BY <1>3, <2>3 DEF Chmod, KeysKnown, Saving, TempHeld
<1>4. CASE UNCHANGED vars
  BY <1>4 DEF vars, TypeOK, KeysKnown, Saving, TempHeld
<1> QED
  BY <1>1, <1>2, <1>3, <1>4

LEMMA InvStep == FileInv /\ [Next]_vars => FileInv'
BY StartStep, SaveStep, OutsideStep DEF Next

LEMMA InvHolds == Spec => []FileInv
BY InvInit, InvStep, PTL DEF Spec

(* The process, the file and what is left beside it are well typed.        *)
THEOREM FileTyped == Spec => []TypeOK
<1>1. FileInv => TypeOK
  BY DEF FileInv
<1> QED
  BY <1>1, InvHolds, PTL

-----------------------------------------------------------------------------
(* Every step is one of the register, or none: a change counts when its    *)
(* save ends, the file takes it at the rename.                             *)
LEMMA StepMaps == FileInv /\ [Next]_vars => [Register!Next]_(Register!vars)
<1> SUFFICES ASSUME FileInv, [Next]_vars
             PROVE  [Register!Next]_(Register!vars)
  OBVIOUS
<1> DEFINE m == IF before = None THEN mem ELSE before
<1> USE DEF FileInv, fileVars, Register!vars
<1>1. CASE Load
  <2>1. before = None /\ mem = None /\ UNCHANGED <<before, file, events>>
    BY <1>1 DEF Load, TypeOK
  <2>2. file # Torn /\ mem' = IF file = NoFile THEN Empty ELSE file
    BY <1>1 DEF Load, Refused
  <2>3. Register!Load
    BY <2>1, <2>2 DEF Register!Load
  <2> QED
    BY <2>3 DEF Register!Next
<1>2. CASE KeyKnown \/ CreateTemp \/ WriteTemp \/ Sync \/ UNCHANGED vars
  BY <1>2 DEF KeyKnown, CreateTemp, WriteTemp, Sync, vars
<1>3. CASE GenerateKeyPair \/ Change
  <2>1. /\ before = None /\ mem \in States /\ before' = mem
        /\ UNCHANGED <<file, events>>
    BY <1>3 DEF GenerateKeyPair, Change, Mutate, TypeOK
  <2>2. m' = m
    BY <2>1, FileAssumption
  <2> QED
    BY <2>1, <2>2
<1>4. CASE Rename
  <2>1. /\ before \in States /\ mem \in States
        /\ before' = None /\ mem' = mem /\ file' = mem /\ UNCHANGED events
    BY <1>4 DEF Rename, TypeOK
  <2>2. m # None /\ m' = mem
    BY <2>1, FileAssumption
  <2>3. Register!SaveOK
    BY <2>1, <2>2 DEF Register!SaveOK
  <2> QED
    BY <2>3 DEF Register!Next
<1>5. CASE CreateFails \/ WriteFails \/ RenameFails
  <2>1. /\ Saving /\ SaveReturns /\ UNCHANGED file
        /\ events'["power"] = events["power"]
    BY <1>5, EventTypes DEF CreateFails, WriteFails, RenameFails, Saving, Events
  <2>2. /\ before \in States /\ mem \in States
        /\ before' = None /\ mem' \in {None, mem}
    BY <2>1, SaveReturnsTypes DEF Saving, TypeOK
  <2>3. m # None /\ m' = mem'
    BY <2>2, FileAssumption
  <2>4. Register!SaveFails \/ Register!Die
    BY <2>1, <2>2, <2>3 DEF Register!SaveFails, Register!Die
  <2> QED
    BY <2>4 DEF Register!Next
<1>6. CASE Die
  <2>1. /\ m' = None /\ UNCHANGED file /\ events'["power"] = events["power"]
    BY <1>6, EventTypes DEF Die, Stop, Events
  <2>2. Register!Die
    BY <2>1 DEF Register!Die
  <2> QED
    BY <2>2 DEF Register!Next
<1>7. CASE PowerLoss
  <2>1. /\ m' = None /\ file' \in Files
        /\ events'["power"] = events["power"] + 1
    BY <1>7, EventTypes DEF PowerLoss, Stop, Events, TypeOK
  <2>2. Register!PowerLoss
    BY <2>1 DEF Register!PowerLoss, Files
  <2> QED
    BY <2>2 DEF Register!Next
<1>8. CASE Chmod
  <2>1. UNCHANGED <<mem, before, file>> /\ events'["power"] = events["power"]
    BY <1>8, EventTypes DEF Chmod, Events
  <2> QED
    BY <2>1
<1> QED
  BY <1>1, <1>2, <1>3, <1>4, <1>5, <1>6, <1>7, <1>8 DEF Next

(* The steps of saveLocked, whichever fails or is the last before a death, *)
(* make up the atomic save that BridgeState and the pass rely on: StateFile *)
(* implements AtomicFile.                                                  *)
THEOREM AtomicSaves == Spec => SavesAreAtomic
<1>1. Init => Register!Init
  BY DEF Init, Register!Init, Events
<1> QED
  BY <1>1, InvHolds, StepMaps, PTL DEF Spec, SavesAreAtomic, Register!Spec

-----------------------------------------------------------------------------
(* What may lie beside the file.                                           *)
LEMMA TempsInit == Init => TempsExplained
BY DEF Init, TempsExplained, Events

LEMMA TempsStep == FileInv /\ TempsExplained /\ [Next]_vars => TempsExplained'
<1> SUFFICES ASSUME FileInv, TempsExplained, [Next]_vars PROVE TempsExplained'
  OBVIOUS
<1> USE DEF FileInv, TempsExplained
<1>a. /\ temps \in Nat /\ events["died"] \in Nat /\ events["power"] \in Nat
      /\ events["stuck"] \in Nat
  BY DEF TypeOK, Events
<1>1. CASE Load \/ KeyKnown \/ GenerateKeyPair \/ Change \/ Sync
           \/ UNCHANGED vars
  BY <1>1, <1>a DEF Load, KeyKnown, Serve, GenerateKeyPair, Change, Mutate, Sync, vars
<1>2. CASE CreateTemp \/ WriteTemp \/ Rename
  BY <1>2, <1>a DEF CreateTemp, WriteTemp, Rename, Saved, Serve
<1>3. CASE CreateFails \/ WriteFails
  <2>1. pc' \notin {"write", "rename"}
    BY <1>3 DEF CreateFails, WriteFails, SaveReturns
  <2>2. /\ events'["died"] = events["died"] /\ events'["power"] = events["power"]
        /\ events'["stuck"] = events["stuck"]
    BY <1>3, EventTypes DEF CreateFails, WriteFails, Events
  <2> QED
    BY <1>3, <1>a, <2>1, <2>2 DEF CreateFails, WriteFails
<1>4. CASE RenameFails
  <2>1. pc = "rename" /\ pc' \notin {"write", "rename"} /\ temps' = temps
    BY <1>4 DEF RenameFails, SaveReturns
  <2>2. /\ events'["died"] = events["died"] /\ events'["power"] = events["power"]
        /\ events'["stuck"] = events["stuck"] + 1
    BY <1>4, EventTypes DEF RenameFails, Events
  <2> QED
    BY <1>a, <2>1, <2>2
<1>5. CASE Die
  <2>1. pc' = "down" /\ temps' = temps
    BY <1>5 DEF Die, Stop
  <2>2. /\ events'["died"] = events["died"] + 1
        /\ events'["power"] = events["power"] /\ events'["stuck"] = events["stuck"]
    BY <1>5, EventTypes DEF Die, Events
  <2> QED
    BY <1>a, <2>1, <2>2
<1>6. CASE PowerLoss
  <2>1. pc' = "down" /\ temps' = temps
    BY <1>6 DEF PowerLoss, Stop
  <2>2. /\ events'["power"] = events["power"] + 1
        /\ events'["died"] = events["died"] /\ events'["stuck"] = events["stuck"]
    BY <1>6, EventTypes DEF PowerLoss, Events
  <2> QED
    BY <1>a, <2>1, <2>2
<1>7. CASE Chmod
  <2>1. UNCHANGED <<pc, temps>>
    BY <1>7 DEF Chmod
  <2>2. /\ events'["died"] = events["died"] /\ events'["power"] = events["power"]
        /\ events'["stuck"] = events["stuck"]
    BY <1>7, EventTypes DEF Chmod, Events
  <2> QED
    BY <2>1, <2>2
<1> QED
  BY <1>1, <1>2, <1>3, <1>4, <1>5, <1>6, <1>7 DEF Next

(* Temporary files pile up by deaths, power losses and failed renames      *)
(* only: every other error path of saveLocked removes its own              *)
(* (state.go:126-144).                                                     *)
THEOREM TempsHaveCauses == Spec => []TempsExplained
BY TempsInit, TempsStep, InvHolds, PTL DEF Spec

-----------------------------------------------------------------------------
(* One key.  The key a start would find in the file:                       *)
KeyIn(f) == IF f \in {NoFile, Torn} THEN 0 ELSE f.key

(* Keys that were served and are not the file's were lost to power losses. *)
Lost == published \ {KeyIn(file)}

KeyInv ==
  /\ Cardinality(Lost) <= events["power"]
  /\ pc = "actor" => mem.key = KeyIn(file)
  /\ pc = "serving" => mem.key = KeyIn(file)
  /\ Saving => KeyIn(file) = IF saver = "actor" THEN 0 ELSE mem.key

LEMMA PublishedFinite ==
  ASSUME TypeOK
  PROVE  /\ IsFiniteSet(published) /\ 0 \notin published
         /\ \A T \in SUBSET published :
              IsFiniteSet(T) /\ Cardinality(T) \in Nat
<1>1. IsFiniteSet(1..keys) /\ published \in SUBSET (1..keys)
  BY FS_Interval DEF TypeOK
<1>2. IsFiniteSet(published)
  BY <1>1, FS_Subset
<1>3. ASSUME NEW T \in SUBSET published
      PROVE  IsFiniteSet(T) /\ Cardinality(T) \in Nat
  BY <1>2, FS_Subset, FS_CardinalityType
<1>4. 0 \notin published
  BY <1>1
<1> QED
  BY <1>2, <1>3, <1>4

LEMMA KeyInit == Init => KeyInv
<1> SUFFICES ASSUME Init PROVE KeyInv
  OBVIOUS
<1>1. Lost = {} /\ events["power"] = 0
  BY DEF Init, Lost, Events
<1> QED
  BY <1>1, FS_EmptySet DEF Init, KeyInv, Saving

(* Steps that leave the keys served and the file's key alone.              *)
LEMMA LostKept ==
  ASSUME FileInv, KeyInv, Lost' \subseteq Lost, events'["power"] = events["power"]
  PROVE  Cardinality(Lost') <= events'["power"]
<1>1. IsFiniteSet(Lost) /\ Cardinality(Lost) \in Nat
  BY PublishedFinite DEF Lost, FileInv
<1>2. Cardinality(Lost') <= Cardinality(Lost) /\ Cardinality(Lost') \in Nat
  BY <1>1, FS_Subset, FS_CardinalityType
<1>3. events["power"] \in Nat
  BY DEF FileInv, TypeOK, Events
<1> QED
  BY <1>1, <1>2, <1>3 DEF KeyInv

(* A power loss costs one key at most: the one that was the file's.        *)
LEMMA LostMore ==
  ASSUME FileInv, KeyInv, UNCHANGED published,
         events'["power"] = events["power"] + 1
  PROVE  Cardinality(Lost') <= events'["power"]
<1>1. IsFiniteSet(Lost) /\ Cardinality(Lost) \in Nat
  BY PublishedFinite DEF Lost, FileInv
<1> DEFINE k == KeyIn(file)
           S == Lost \cup {k}
<1>2. /\ IsFiniteSet(S) /\ Cardinality(S) \in Nat
      /\ Cardinality(S) <= Cardinality(Lost) + 1
  <2> HIDE DEF k
  <2>1. /\ IsFiniteSet(S)
        /\ \/ Cardinality(S) = Cardinality(Lost)
           \/ Cardinality(S) = Cardinality(Lost) + 1
    BY <1>1, FS_AddElement
  <2> HIDE DEF S
  <2> QED
    BY <1>1, <2>1, FS_CardinalityType
<1>3. Lost' \in SUBSET S
  BY DEF Lost
<1>4. Cardinality(Lost') <= Cardinality(S) /\ Cardinality(Lost') \in Nat
  <2> HIDE DEF S
  <2> QED
    BY <1>2, <1>3, FS_Subset, FS_CardinalityType
<1>5. events["power"] \in Nat
  BY DEF FileInv, TypeOK, Events
<1> HIDE DEF S
<1> QED
  BY <1>1, <1>2, <1>4, <1>5 DEF KeyInv

LEMMA KeyStep == FileInv /\ KeyInv /\ [Next]_vars => KeyInv'
<1> SUFFICES ASSUME FileInv, KeyInv, [Next]_vars PROVE KeyInv'
  OBVIOUS
<1>1. CASE Load
  <2>1. /\ pc' = "actor" /\ UNCHANGED <<published, file, events>>
        /\ file # Torn /\ mem' = IF file = NoFile THEN Empty ELSE file
    BY <1>1 DEF Load, Refused, fileVars
  <2>2. mem'.key = KeyIn(file)
    BY <2>1 DEF KeyIn, Empty
  <2>3. Lost' = Lost
    BY <2>1 DEF Lost
  <2> QED
    BY <2>1, <2>2, <2>3, LostKept DEF KeyInv, Saving
<1>2. CASE KeyKnown
  <2>1. /\ pc = "actor" /\ pc' = "serving" /\ published' = published \cup {mem.key}
        /\ UNCHANGED <<mem, file, events>>
    BY <1>2 DEF KeyKnown, Serve, fileVars
  <2>2. Lost' = Lost
    BY <2>1 DEF KeyInv, Lost
  <2> QED
    BY <2>1, <2>2, LostKept DEF KeyInv, Saving
<1>3. CASE GenerateKeyPair
  <2>1. /\ pc = "actor" /\ mem.key = 0 /\ pc' = "create" /\ saver' = "actor"
        /\ UNCHANGED <<published, file, events>>
    BY <1>3 DEF GenerateKeyPair, Mutate, fileVars
  <2>2. Lost' = Lost
    BY <2>1 DEF Lost
  <2> QED
    BY <2>1, <2>2, LostKept DEF KeyInv
<1>4. CASE Change
  <2>1. /\ pc = "serving" /\ pc' = "create" /\ saver' = "pass"
        /\ mem'.key = mem.key /\ UNCHANGED <<published, file, events>>
    BY <1>4 DEF Change, Mutate, fileVars, FileInv, TypeOK, States
  <2>2. Lost' = Lost
    BY <2>1 DEF Lost
  <2> QED
    BY <2>1, <2>2, LostKept DEF KeyInv
<1>5. CASE CreateTemp \/ WriteTemp
  <2>1. /\ Saving /\ Saving' /\ pc' \notin {"actor", "serving"}
        /\ UNCHANGED <<mem, saver, published, file, events>>
    BY <1>5 DEF CreateTemp, WriteTemp, Saving, fileVars
  <2>2. Lost' = Lost
    BY <2>1 DEF Lost
  <2> QED
    BY <2>1, <2>2, LostKept DEF KeyInv
<1>6. CASE Rename
  <2>1. /\ Saving /\ pc' = "serving" /\ file' = mem /\ mem' = mem /\ mem \in States
        /\ published' \subseteq published \cup {mem.key} /\ UNCHANGED events
        /\ saver \in {"actor", "pass"}
    BY <1>6 DEF Rename, Saved, Serve, Saving, FileInv, TypeOK
  <2>2. KeyIn(file') = mem.key
    BY <2>1, FileAssumption DEF KeyIn
  <2>3. KeyIn(file) \in {0, mem.key} /\ 0 \notin published
    BY <2>1, PublishedFinite DEF KeyInv, FileInv
  <2>4. Lost' \subseteq Lost
    BY <2>1, <2>2, <2>3 DEF Lost
  <2> QED
    BY <2>1, <2>2, <2>4, LostKept DEF KeyInv, Saving
<1>7. CASE CreateFails \/ WriteFails \/ RenameFails
  <2>1. /\ Saving /\ SaveReturns /\ UNCHANGED <<file, saver>>
        /\ events'["power"] = events["power"]
    BY <1>7, EventTypes
    DEF CreateFails, WriteFails, RenameFails, Saving, Events, fileVars
  <2>2. /\ published' = published
        /\ \/ pc' = "down"
           \/ pc' = "serving" /\ mem' = mem /\ saver = "pass"
    BY <2>1, SaveReturnsTypes
  <2>3. Lost' = Lost
    BY <2>1, <2>2 DEF Lost
  <2> QED
    BY <2>1, <2>2, <2>3, LostKept DEF KeyInv, Saving
<1>8. CASE Die
  <2>1. /\ pc' = "down" /\ UNCHANGED <<file, published>>
        /\ events'["power"] = events["power"]
    BY <1>8, EventTypes DEF Die, Stop, Events, fileVars
  <2>2. Lost' = Lost
    BY <2>1 DEF Lost
  <2> QED
    BY <2>1, <2>2, LostKept DEF KeyInv, Saving
<1>9. CASE PowerLoss
  <2>1. /\ pc' = "down" /\ UNCHANGED published
        /\ events'["power"] = events["power"] + 1
    BY <1>9, EventTypes DEF PowerLoss, Stop, Events
  <2> QED
    BY <2>1, LostMore DEF KeyInv, Saving
<1>10. CASE Sync \/ Chmod \/ UNCHANGED vars
  <2>1. /\ UNCHANGED <<pc, mem, saver, file, published>>
        /\ events'["power"] = events["power"]
    BY <1>10, EventTypes DEF Sync, Chmod, vars, fileVars, Events
  <2>2. Lost' = Lost
    BY <2>1 DEF Lost
  <2> QED
    BY <2>1, <2>2, LostKept DEF KeyInv, Saving
<1> QED
  BY <1>1, <1>2, <1>3, <1>4, <1>5, <1>6, <1>7, <1>8, <1>9, <1>10 DEF Next

(* The actor serves one key, and one more per power loss, whichever starts *)
(* and saves fail: none is served before it is in the file                 *)
(* (main.go:173-186).                                                      *)
THEOREM OneKeyServed == Spec => []OneActorKey
<1>1. FileInv /\ KeyInv => OneActorKey
  <2> SUFFICES ASSUME FileInv, KeyInv PROVE OneActorKey
    OBVIOUS
  <2>1. IsFiniteSet(published)
    BY PublishedFinite DEF FileInv
  <2>2. /\ Cardinality(published) \in Nat /\ Cardinality(Lost) \in Nat
        /\ Cardinality(published) <= Cardinality(Lost) + 1
    <3> DEFINE k == KeyIn(file)
    <3> HIDE DEF k
    <3>1. Cardinality(published) \in Nat /\ Cardinality(published \ {k}) \in Nat
      BY PublishedFinite DEF FileInv
    <3>2. \/ Cardinality(published \ {k}) = Cardinality(published)
          \/ Cardinality(published \ {k}) = Cardinality(published) - 1
      BY <2>1, FS_RemoveElement
    <3>3. Lost = published \ {k}
      BY DEF Lost, k
    <3> QED
      BY <3>1, <3>2, <3>3
  <2>3. events["power"] \in Nat
    BY DEF FileInv, TypeOK, Events
  <2> QED
    BY <2>2, <2>3 DEF OneActorKey, KeyInv
<1> QED
  BY <1>1, KeyInit, KeyStep, InvHolds, PTL DEF Spec
=============================================================================
