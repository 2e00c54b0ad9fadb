\* Finding: a POST that is redirected to a page counts as delivered.
CONSTANTS
  graft = graft  other = other  a = a  b = b  page = page
  Hosts = {graft, other}
  Paths = {a, b, page}
  InboxPaths = {a, b}
  ActorURL <- Actor1
  Unsafe <- Unsafe1
  Addresses = {pub1, pub2, priv}
  Public = {pub1, pub2}
  MaxRedirects = 3
  None = None
SPECIFICATION Spec
INVARIANTS
  OkIsAccepted
