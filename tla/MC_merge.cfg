CONSTANTS
    k1 = k1  k2 = k2  v1 = v1  v2 = v2  t1 = t1  t2 = t2
    Keys <- MC_Keys
    Vals <- MC_OneVal
    Threads <- MC_Threads
    KeysOf <- MC_SplitKeys
    Calls <- MC_SoloAndBatch
    DataFileSize = 3
    MaxCommits = 2
    MaxBatchNum = 2
    MaxCrashes = 1
    FailWrites = FALSE
    MergeRatioPct = 0
    CrashInOpen = FALSE
    TxnFinKey = TxnFinKey
    NoVal = NoVal
    NoPos = NoPos
    NoFile = NoFile
    NoThread = NoThread
SPECIFICATION MergeFairSpec
CONSTRAINT MC_MergeFileBound
INVARIANTS
    MergeTypeOK
    IndexRecordValid
    CommittedOnly
    SeqNoCoversLog
    MergeOutputBelowFrontier
    ReclaimNeverOverestimates
PROPERTIES
    Refinement
    MergeEventuallyEnds
