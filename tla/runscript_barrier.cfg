SPECIFICATION FairSpec
CONSTANT NumSubjobs = 2
PROPERTY BarrierOpens
CHECK_DEADLOCK FALSE
