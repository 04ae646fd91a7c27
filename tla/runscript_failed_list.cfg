SPECIFICATION Spec
CONSTANT NumSubjobs = 2
INVARIANT FailedListIsComplete
CHECK_DEADLOCK FALSE
