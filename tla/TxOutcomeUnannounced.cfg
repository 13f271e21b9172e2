SPECIFICATION Spec
CONSTANTS
  Resolvers = {r1}
  Happens = {"statement", "sweep"}
INVARIANT CommitIsAnnounced
CHECK_DEADLOCK FALSE
