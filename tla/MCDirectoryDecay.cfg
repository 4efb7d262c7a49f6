\* Guides expire, return, change and renew over four requests; counters
\* overflow at 5.
SPECIFICATION Spec
CONSTANTS
  Paths = {pa, pb}
  Digests = {d1, d2}
  Calls = {c1}
  K = 2
  Limit = 5
  MaxRequests = 4
  MaxEntries = 2
SYMMETRY MCSymmetry
CHECK_DEADLOCK FALSE
INVARIANTS
  ToolsSawTheirGuides
  OneRevisionShown
  OpenGateShowsLease
  ShownForItsLifetime
