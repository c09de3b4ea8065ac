CONSTANTS
    p1 = p1  p2 = p2  k1 = k1  k2 = k2  v1 = v1
    Procs <- MC_Procs
    Keys <- MC_Keys
    Vals <- MC_Vals
    MaxLog = 5
    MaxCommits = 2
    MaxCrashes = 2
    CrashInCommit = FALSE
    TxnFinKey = TxnFinKey
    Tomb = Tomb
    NoVal = NoVal
    NoPos = NoPos
    NoProc = NoProc
    NoSeqFile = NoSeqFile
    EmptySeqFile = EmptySeqFile
SPECIFICATION Spec
INVARIANT
    BatchSeqsIncrease
