SPECIFICATION FairSpec
CONSTANTS
  p1 = p1
  p2 = p2
  c1 = c1
  c2 = c2
  Nobody = Nobody
  Threads = {p1, p2, c1, c2}
  Posters = {p1, p2}
  Penders = {c1, c2}
  Forever = {}
  Capacity = 2
  MaxPosts = 3
INVARIANTS TypeOK
PROPERTIES SectionSpec QueueSpec QueueDrains
