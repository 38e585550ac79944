SPECIFICATION Spec
CONSTANTS
  MaxJobs = 1
  Commands = {"run"}
  Stopping = {"PIBRK"}
INVARIANT StatusTrue
CHECK_DEADLOCK FALSE
