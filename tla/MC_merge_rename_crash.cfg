CONSTANTS
    k1 = k1  k2 = k2  v1 = v1  v2 = v2  t1 = t1  t2 = t2
    Keys <- MC_Keys
    Vals <- MC_OneVal
    Threads <- MC_Single
    KeysOf <- MC_SingleKeysOf
    Calls <- MC_SoloCalls
    DataFileSize = 3
    MaxCommits = 2
    MaxBatchNum = 2
    MaxCrashes = 1
    FailWrites = FALSE
    MergeRatioPct = 0
    CrashInOpen = TRUE
    TxnFinKey = TxnFinKey
    NoVal = NoVal
    NoPos = NoPos
    NoFile = NoFile
    NoThread = NoThread
SPECIFICATION MergeSpec
CONSTRAINT MC_MergeFileBound
INVARIANT
    IndexRecordValid
