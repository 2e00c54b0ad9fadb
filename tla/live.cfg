\* Liveness: comment 1 may be refused for ever, comment 2 is the bridge's own, one
\* delivery per pass, one crash and one failed save.
CONSTANTS
  s1 = s1  s2 = s2  s3 = s3  s4 = s4  n1 = n1  n2 = n2  i1 = i1  i2 = i2  i3 = i3
  h1 = h1  h2 = h2  k1 = k1  k2 = k2
  None = None  NoURI = NoURI
  SeriesList <- OneSeries
  Notes = {n1}
  Issues = {i1}
  MaxComments = 3
  Retention = 1
  MaxTime = 0
  MaxFaults <- CrashSave
  NoteSeries <- NotesOf1
  NoteHost <- AllOnHost1
  Replyable = {n1}
  Hosts = {h1}
  Knot <- Knot1
  Rkey <- Rkey1
  Provisioned = {s1}
  OwnComments = {2}
  Deletable = {}
  WebURL = FALSE
  Limit = 1
  Poison = {1}
SPECIFICATION FairSpec
PROPERTIES
  RelayedEventually
  CursorCatchesUp
