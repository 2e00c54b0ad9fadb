\* Four series get their repos: names that sanitize to one record key, on one knot or two;
\* replies carry trackback links, and the issue and its repo may be deleted.
CONSTANTS
  s1 = s1  s2 = s2  s3 = s3  s4 = s4  n1 = n1  n2 = n2  i1 = i1  i2 = i2  i3 = i3
  h1 = h1  h2 = h2  k1 = k1  k2 = k2
  None = None  NoURI = NoURI
  SeriesList <- FourSeries
  Notes = {n1}
  Issues = {i1}
  MaxComments = 1
  Retention = 1
  MaxTime = 0
  MaxFaults <- SaveLostIndex
  NoteSeries <- NotesOf1
  NoteHost <- AllOnHost1
  Replyable = {n1}
  Hosts = {h1}
  Knot <- KnotClash
  Rkey <- RkeyClash
  Provisioned = {}
  OwnComments = {}
  Deletable = {i1, s1}
  WebURL = TRUE
  Limit = 1
  Poison = {}
SPECIFICATION Spec
INVARIANTS
  ReposAnnounced
  TracklessExplained
