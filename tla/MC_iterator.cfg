CONSTANTS
    g1 = g1
    g2 = g2
    v1 = v1
    NoVal = NoVal
    NoIter = NoIter
    NoThread = NoThread
    Keys <- MC_Keys
    Vals <- MC_Vals
    Goroutines <- MC_Goroutines
    IterPrefixes <- MC_Prefixes
    SeekKeys <- MC_SeekKeys
    Calls <- MC_WriterLists
    MaxBatchNum = 2

SPECIFICATION Spec

INVARIANTS
    IterTypeOK
    IteratorComplete

