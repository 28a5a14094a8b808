SPECIFICATION Spec
CONSTANTS
  Planes = {n1, n2}
  Threads = {t1, t2}
  Participants = {p1}
  StaleAfter = 1
  ExpireAfter = 2
  Stamps <- SmallStamps
  MaxTime = 3
  MaxSequence = 1
  None = None
INVARIANTS
  Converges
  HonestAnswers
SYMMETRY Symmetric
