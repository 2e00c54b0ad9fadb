\* Dedup entries expire while a delivery keeps failing or a note stays listed, and one
\* answer is lost.  A tick of the clock outlasts the retention window.
CONSTANTS
  s1 = s1  s2 = s2  s3 = s3  s4 = s4  n1 = n1  n2 = n2  i1 = i1  i2 = i2  i3 = i3
  h1 = h1  h2 = h2  k1 = k1  k2 = k2
  None = None  NoURI = NoURI
  SeriesList <- OneSeries
  Notes = {n1}
  Issues = {i1, i2, i3}
  MaxComments = 2
  Retention = 0
  MaxTime = 1
  MaxFaults <- LostAnswer
  NoteSeries <- NotesOf1
  NoteHost <- AllOnHost1
  Replyable = {n1}
  Hosts = {h1}
  Knot <- Knot1
  Rkey <- Rkey1
  Provisioned = {s1}
  OwnComments = {}
  Deletable = {}
  WebURL = FALSE
  Limit = 1
  Poison = {}
SPECIFICATION FairSpec
INVARIANTS
  RepliesAccounted
  IssuesAccounted
PROPERTIES
  MirroredEventually
