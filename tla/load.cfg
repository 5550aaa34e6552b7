SPECIFICATION FairSpec
CONSTANTS
    l1 = l1
    l2 = l2
    Old = Old
    Loaders = {l1, l2}
    Calls <- MCCalls
    CreateRetries = 3
INVARIANTS
    LoadedOnce
    StagingRemoved
    
PROPERTIES
    FailedUrlLoadKeepsRows
    CleanupSparesOldRows
    LoadsEnd
CHECK_DEADLOCK FALSE
