\* Two changes, and twice each: a death, a power loss, a failed save, a failed rename, a
\* chmod.  A process facing a torn file exits for good.
CONSTANTS
  MaxRev = 2
  MaxEvents = 2
  NoFile = NoFile
  Torn = Torn
  None = None
SPECIFICATION FairSpec
INVARIANTS
  TypeOK
  OneActorKey
  TempsExplained
PROPERTIES
  SavesAreAtomic
  ServesAgain
CHECK_DEADLOCK FALSE
