SPECIFICATION Spec
CONSTANTS
  Resolvers = {r1, r2}
  Happens = {"statement", "rollback", "refused", "lost", "sweep", "fault", "crash", "forget", "delete", "archive"}
SYMMETRY Symmetry
INVARIANT TrailIsSound
PROPERTY KeepsPromise
CHECK_DEADLOCK FALSE
