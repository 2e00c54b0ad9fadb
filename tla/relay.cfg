\* Both directions of the mirror for two notes under one crash, one failed save, one
\* lost answer and one blank answer; the process may come back with another Graft host.
CONSTANTS
  s1 = s1  s2 = s2  s3 = s3  s4 = s4  n1 = n1  n2 = n2  i1 = i1  i2 = i2  i3 = i3
  h1 = h1  h2 = h2  k1 = k1  k2 = k2
  None = None  NoURI = NoURI
  SeriesList <- OneSeries
  Notes = {n1, n2}
  Issues = {i1, i2}
  MaxComments = 2
  Retention = 1
  MaxTime = 0
  MaxFaults <- OneOfEach
  NoteSeries <- NotesOf1
  NoteHost <- AllOnHost1
  Replyable = {n1, n2}
  Hosts = {h1, h2}
  Knot <- Knot1
  Rkey <- Rkey1
  Provisioned = {s1}
  OwnComments = {}
  Deletable = {}
  WebURL = FALSE
  Limit = 1
  Poison = {}
SYMMETRY Symmetry
SPECIFICATION Spec
INVARIANTS
  TypeOK
  NoCommentLost
  RepliesAccounted
  IssuesAccounted
  RoutedHome
  SeenIsLinked
  LinksInvert
PROPERTIES
  DurableProgress
  RelaysAtLeastOnce
