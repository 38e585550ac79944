SPECIFICATION Spec
CONSTANTS
  MaxJobs = 2
  Commands = {"run", "pro", "disown", "own", "^G"}
  Stopping = {"PIVAL"}
INVARIANTS TypeOK TtyKept
CHECK_DEADLOCK FALSE
