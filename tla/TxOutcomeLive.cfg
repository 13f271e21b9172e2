SPECIFICATION LiveSpec
CONSTANTS
  Resolvers = {r1}
  Happens = {"statement", "close", "fault", "crash"}
PROPERTY TrailIsSettled
CHECK_DEADLOCK FALSE
