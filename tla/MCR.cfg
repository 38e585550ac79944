SPECIFICATION MCSpec
INVARIANTS ReadsTrue GroupsKept OutputKept TablesKept
PROPERTIES StepsTrue
CHECK_DEADLOCK FALSE
