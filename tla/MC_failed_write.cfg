CONSTANTS
    k1 = k1  k2 = k2  v1 = v1  v2 = v2  t1 = t1  t2 = t2
    Keys <- MC_Keys
    Vals <- MC_Vals
    Threads <- MC_Single
    KeysOf <- MC_SingleKeysOf
    DataFileSize = 3
    MaxCommits = 1
    MaxBatchNum = 2
    MaxCrashes = 1
    FailWrites = TRUE
    TxnFinKey = TxnFinKey
    NoVal = NoVal
    NoPos = NoPos
    NoFile = NoFile
    NoThread = NoThread
SPECIFICATION Spec
CONSTRAINT MC_FailBound
CHECK_DEADLOCK FALSE
INVARIANTS
    IndexRecordValid
