SPECIFICATION FairSpec
CONSTANTS
  p1 = p1
  c1 = c1
  p2 = p2
  c2 = c2
  Nobody = Nobody
  Threads = {p1, c1}
  Posters = {p1}
  Penders = {c1}
  Forever = {c1}
  Capacity = 2
  MaxPosts = 3
PROPERTIES PendGetsData
CHECK_DEADLOCK FALSE
