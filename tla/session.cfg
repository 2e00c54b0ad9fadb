\* Twice each: the PDS drops a token, a session gets old, the process dies.
CONSTANT MaxEvents = 2
SPECIFICATION FairSpec
INVARIANTS
  TypeOK
  LoginsPaidFor
PROPERTIES
  WritesOnce
  SessionRecovers
