SPECIFICATION FairSpec
CONSTANT Tasks = {docker, ftp}
PROPERTIES
    JoinReturns
CHECK_DEADLOCK FALSE
