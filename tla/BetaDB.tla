------------------------------- MODULE BetaDB -------------------------------
\* The betadb engine (db.go, batch.go, data_file.go, log_record.go): Put
\* and Delete, the append path with file rotation, WriteBatch staging and
\* Commit, a process crash, and Open's recovery replay of the data files.
\*
\* A data file is a sequence of chunks: whole log records, or the torn
\* prefix that a failed write leaves behind.  Offsets are byte offsets
\* under an abstract record size.  Writes go to the physical end of the
\* file (O_APPEND) while the position handed to the index is the logical
\* WriteOffset, exactly as in the code.  Each thread is one goroutine
\* running one engine call at a time; pc records where it is between the
\* steps that other goroutines can interleave with.
EXTENDS Integers, Sequences, FiniteSets, SequencesExt

CONSTANTS
    Keys,           \* user keys
    Vals,           \* user values
    Threads,        \* goroutines calling the engine
    KeysOf,         \* KeysOf[t]: the keys goroutine t writes
    DataFileSize,   \* options.DataFileSize, in abstract bytes
    MaxCommits,     \* bound: WriteBatch commits attempted in a behaviour
    MaxBatchNum,    \* WriteBatchOptions.MaxBatchNum
    MaxCrashes,     \* bound: process crashes in a behaviour
    FailWrites,     \* whether a data file write may fail part-way
    TxnFinKey,      \* txnFinKey, the key of a batch terminator record
    NoVal,          \* the empty value of tombstones and terminators
    NoPos,          \* a key absent from the index
    NoFile,         \* db.activeFile == nil
    NoThread        \* the engine write lock is free

ASSUME KeysOf \in [Threads -> SUBSET Keys]
ASSUME DataFileSize >= 2

----
\* Log records and data files
----

FileIds == Nat
SeqNos == 0..MaxCommits

\* LogRecord with its sequence number split off the key (logRecordKeyWithSeq).
\* txn is a ghost: the commit attempt that wrote a batch record, 0 otherwise.
LogRecord ==
    [key: Keys \cup {TxnFinKey}, seq: SeqNos,
     type: {"Normal", "Deleted", "TxnFinished", "Torn"},
     val: Vals \cup {NoVal}, txn: SeqNos]

\* The encoded length of a record (EncodeLogRecord): a normal record carries a
\* value, a tombstone or a terminator does not.
Size(r) == IF r.type = "Normal" THEN 2 ELSE 1

\* What a write of r that fails part-way leaves in the file.
TornOf(r) == IF Size(r) > 1 THEN <<[r EXCEPT !.type = "Torn"]>> ELSE <<>>

ChunkSize(c) == IF c.type = "Torn" THEN 1 ELSE Size(c)

RECURSIVE FileBytes(_)
FileBytes(s) == IF s = <<>> THEN 0 ELSE ChunkSize(Head(s)) + FileBytes(Tail(s))

\* The byte offset at which chunk i of file s starts.
StartOf(s, i) == FileBytes(SubSeq(s, 1, i - 1))

\* LogRecordPos.
Pos == [fid: FileIds, off: 0..DataFileSize, size: {1, 2}]

----

VARIABLES
    disk,         \* the data files on disk: file id -> chunks
    up,           \* the engine is open
    active,       \* db.activeFile.FileID, or NoFile
    writeOffset,  \* db.activeFile.WriteOffset
    index,        \* db.index: key -> LogRecordPos, or NoPos
    reclaim,      \* db.reclaimSize
    seqNo,        \* db.seqNo
    lock,         \* holder of the write side of db.mu (multi-step holders only)
    pc,           \* where each goroutine is inside its current call
    op,           \* locals of each goroutine's current call
    staged,       \* each goroutine's WriteBatch.pendingWrites
    attempt,      \* ghost: commits attempted so far
    finished,     \* ghost: commit attempts whose terminator reached the file
    crashes       \* crashes so far

vars == <<disk, up, active, writeOffset, index, reclaim, seqNo, lock, pc, op,
          staged, attempt, finished, crashes>>

\* Staged value of a key: a value to put, a tombstone, or not staged.
Staged == Vals \cup {"tomb", "none"}

Idle == [key |-> NoVal, val |-> NoVal, pos |-> NoPos, tmp |-> 0, delta |-> 0,
         todo |-> {}, positions |-> [k \in Keys |-> NoPos], seq |-> 0, txn |-> 0]

PcVal == {"idle", "put_index", "put_reclaim", "del_append", "del_reclaim1",
          "del_index", "del_reclaim2", "commit_append",
          "merge_prepare", "merge_scan"}  \* the last two: inside Merge (see Merge)

TypeOK ==
    /\ DOMAIN disk \subseteq FileIds
    /\ \A f \in DOMAIN disk : disk[f] \in Seq(LogRecord)
    /\ up \in BOOLEAN
    /\ active \in FileIds \cup {NoFile}
    /\ writeOffset \in 0..DataFileSize
    /\ index \in [Keys -> Pos \cup {NoPos}]
    /\ reclaim \in Nat
    /\ seqNo \in SeqNos
    /\ lock \in Threads \cup {NoThread}
    /\ pc \in [Threads -> PcVal]
    /\ staged \in [Threads -> [Keys -> Staged]]
    /\ attempt \in SeqNos
    /\ finished \subseteq 1..MaxCommits
    /\ crashes \in 0..MaxCrashes

----
\* Reading a record (DataFile.ReadLogRecord, Database.getValueByPosition)
----

\* What a read at p returns: the record that starts there, or a record of
\* type "Corrupt" when no intact record starts at that offset (the CRC check
\* fails on whatever bytes are there), or of type "NoFile" when the file is
\* not open (ErrDataFileNotFound).
Unreadable(why) == [key |-> NoVal, seq |-> 0, type |-> why, val |-> NoVal, txn |-> 0]

ReadAt(p) ==
    IF p.fid \notin DOMAIN disk THEN Unreadable("NoFile")
    ELSE LET s == disk[p.fid]
             hit == {i \in 1..Len(s) : StartOf(s, i) = p.off /\ s[i].type # "Torn"}
         IN IF hit = {} THEN Unreadable("Corrupt") ELSE s[CHOOSE i \in hit : TRUE]

OldSize(p) == IF p = NoPos THEN 0 ELSE p.size

----
\* The append path (Database.appendLogRecord, setActiveDataFile)
----

\* The file the append starts from: lazily file 0 when there is none.
OpenFid == IF active = NoFile THEN 0 ELSE active
CurOffset == IF active = NoFile THEN 0 ELSE writeOffset

\* Bug variant: rotation tested on the offset alone, not offset plus size.
RotatesLate(r) == CurOffset > DataFileSize

\* The active file would exceed DataFileSize: rotate to file id + 1.
Rotates(r) == CurOffset + Size(r) > DataFileSize
TargetFid(r) == IF Rotates(r) THEN OpenFid + 1 ELSE OpenFid
TargetOff(r) == IF Rotates(r) THEN 0 ELSE CurOffset

FileOr(f) == IF f \in DOMAIN disk THEN disk[f] ELSE <<>>

\* Opening a data file creates it; a write goes to its physical end.
WriteChunks(f, cs) ==
    [g \in DOMAIN disk \cup {OpenFid, f} |-> IF g = f THEN FileOr(g) \o cs ELSE FileOr(g)]

\* Bug variant: the position taken from WriteOffset after the write.
NewPosAfterWrite(r) == [fid |-> TargetFid(r), off |-> TargetOff(r) + Size(r), size |-> Size(r)]

\* The position appendLogRecord returns for r.
NewPos(r) == [fid |-> TargetFid(r), off |-> TargetOff(r), size |-> Size(r)]

\* appendLogRecord succeeds.
AppendOK(r) ==
    /\ disk' = WriteChunks(TargetFid(r), <<r>>)
    /\ active' = TargetFid(r)
    /\ writeOffset' = TargetOff(r) + Size(r)

\* The write fails part-way: DataFile.Write returns the error before adding
\* the bytes written to WriteOffset.
AppendFails(r) ==
    /\ FailWrites
    /\ disk' = WriteChunks(TargetFid(r), TornOf(r))
    /\ active' = TargetFid(r)
    /\ writeOffset' = TargetOff(r)

----
\* Put and Delete (db.go)
----

\* Put: encode a non-transactional record and append it under the lock.
PutAppend(t, k, v) ==
    /\ up /\ pc[t] = "idle" /\ lock = NoThread /\ k \in KeysOf[t]
    /\ LET r == [key |-> k, seq |-> 0, type |-> "Normal", val |-> v, txn |-> 0]
       IN \/ /\ AppendOK(r)
             /\ pc' = [pc EXCEPT ![t] = "put_index"]
             /\ op' = [op EXCEPT ![t] = [Idle EXCEPT !.key = k, !.val = v, !.pos = NewPos(r)]]
          \/ /\ AppendFails(r)
             /\ UNCHANGED <<pc, op>>
    /\ UNCHANGED <<up, index, reclaim, seqNo, lock, staged, attempt, finished, crashes>>

\* Put, after the lock is released: index.Put, then load reclaimSize for the
\* unsynchronised reclaimSize += oldPos.Size.
PutIndex(t) ==
    /\ pc[t] = "put_index"
    /\ LET k == op[t].key
           old == index[k]
       IN /\ index' = [index EXCEPT ![k] = op[t].pos]
          /\ IF old = NoPos
               THEN /\ pc' = [pc EXCEPT ![t] = "idle"]
                    /\ op' = [op EXCEPT ![t] = Idle]
               ELSE /\ pc' = [pc EXCEPT ![t] = "put_reclaim"]
                    /\ op' = [op EXCEPT ![t].tmp = reclaim, ![t].delta = old.size]
    /\ UNCHANGED <<disk, up, active, writeOffset, reclaim, seqNo, lock, staged,
                   attempt, finished, crashes>>

\* The store half of reclaimSize += n in Put and Delete, made without db.mu:
\* a store of another goroutine between the load and this store is lost.
AddReclaim(t) ==
    /\ pc[t] \in {"put_reclaim", "del_reclaim1", "del_reclaim2"}
    /\ reclaim' = op[t].tmp + op[t].delta
    /\ IF pc[t] = "del_reclaim1"
         THEN /\ pc' = [pc EXCEPT ![t] = "del_index"]
              /\ UNCHANGED op
         ELSE /\ pc' = [pc EXCEPT ![t] = "idle"]
              /\ op' = [op EXCEPT ![t] = Idle]
    /\ UNCHANGED <<disk, up, active, writeOffset, index, seqNo, lock, staged,
                   attempt, finished, crashes>>

\* Delete: a key absent from the index returns nil at once (no step);
\* the check is made without db.mu.
DeleteCheck(t, k) ==
    /\ up /\ pc[t] = "idle" /\ k \in KeysOf[t]
    /\ index[k] # NoPos
    /\ pc' = [pc EXCEPT ![t] = "del_append"]
    /\ op' = [op EXCEPT ![t].key = k]
    /\ UNCHANGED <<disk, up, active, writeOffset, index, reclaim, seqNo, lock,
                   staged, attempt, finished, crashes>>

\* Delete: append the tombstone under the lock, then load reclaimSize to add
\* the tombstone's own size.
DeleteAppend(t) ==
    /\ pc[t] = "del_append" /\ lock = NoThread
    /\ LET r == [key |-> op[t].key, seq |-> 0, type |-> "Deleted", val |-> NoVal, txn |-> 0]
       IN \/ /\ AppendOK(r)
             /\ pc' = [pc EXCEPT ![t] = "del_reclaim1"]
             /\ op' = [op EXCEPT ![t].tmp = reclaim, ![t].delta = Size(r)]
          \/ /\ AppendFails(r)
             /\ pc' = [pc EXCEPT ![t] = "idle"]
             /\ op' = [op EXCEPT ![t] = Idle]
    /\ UNCHANGED <<up, index, reclaim, seqNo, lock, staged, attempt, finished, crashes>>

\* Delete: index.Delete; no prior entry is ErrIndexUpdateFailed, otherwise
\* load reclaimSize to add the old record's size.
DeleteIndex(t) ==
    /\ pc[t] = "del_index"
    /\ LET k == op[t].key
           old == index[k]
       IN /\ index' = [index EXCEPT ![k] = NoPos]
          /\ IF old = NoPos
               THEN /\ pc' = [pc EXCEPT ![t] = "idle"]
                    /\ op' = [op EXCEPT ![t] = Idle]
               ELSE /\ pc' = [pc EXCEPT ![t] = "del_reclaim2"]
                    /\ op' = [op EXCEPT ![t].tmp = reclaim, ![t].delta = old.size]
    /\ UNCHANGED <<disk, up, active, writeOffset, reclaim, seqNo, lock, staged,
                   attempt, finished, crashes>>

----
\* WriteBatch (batch.go)
----

StagedKeys(t) == {k \in Keys : staged[t][k] # "none"}

\* WriteBatch.Put: stage the value under the batch's own lock.
BatchPut(t, k, v) ==
    /\ up /\ pc[t] = "idle" /\ k \in KeysOf[t]
    /\ staged' = [staged EXCEPT ![t][k] = v]
    /\ UNCHANGED <<disk, up, active, writeOffset, index, reclaim, seqNo, lock,
                   pc, op, attempt, finished, crashes>>

\* WriteBatch.Delete: a key the index does not hold only drops what was
\* staged for it; otherwise a tombstone is staged.
BatchDelete(t, k) ==
    /\ up /\ pc[t] = "idle" /\ k \in KeysOf[t]
    /\ staged' = [staged EXCEPT ![t][k] = IF index[k] = NoPos THEN "none" ELSE "tomb"]
    /\ UNCHANGED <<disk, up, active, writeOffset, index, reclaim, seqNo, lock,
                   pc, op, attempt, finished, crashes>>

\* Commit: an empty batch returns nil and one over MaxBatchNum returns
\* ErrExceedMaxBatchNum, both before any state changes; otherwise take db.mu
\* and draw the next sequence number.
CommitBegin(t) ==
    /\ up /\ pc[t] = "idle" /\ lock = NoThread
    /\ StagedKeys(t) # {}
    /\ Cardinality(StagedKeys(t)) <= MaxBatchNum
    /\ attempt < MaxCommits
    /\ lock' = t
    /\ seqNo' = seqNo + 1
    /\ attempt' = attempt + 1
    /\ pc' = [pc EXCEPT ![t] = "commit_append"]
    /\ op' = [op EXCEPT ![t] = [Idle EXCEPT !.todo = StagedKeys(t),
                                            !.seq = seqNo + 1, !.txn = attempt + 1]]
    /\ UNCHANGED <<disk, up, active, writeOffset, index, reclaim, staged, finished, crashes>>

\* The record Commit writes for a staged key, its key prefixed by the seq.
BatchRecord(t, k) ==
    [key |-> k, seq |-> op[t].seq, txn |-> op[t].txn,
     type |-> IF staged[t][k] = "tomb" THEN "Deleted" ELSE "Normal",
     val |-> IF staged[t][k] = "tomb" THEN NoVal ELSE staged[t][k]]

\* The error return of Commit: db.mu is released, pendingWrites kept.
CommitAborts(t) ==
    /\ lock' = NoThread
    /\ pc' = [pc EXCEPT ![t] = "idle"]
    /\ op' = [op EXCEPT ![t] = Idle]

\* Commit appends the staged records one by one, in map order.
CommitAppend(t) ==
    /\ pc[t] = "commit_append"
    /\ \E k \in op[t].todo :
         LET r == BatchRecord(t, k)
         IN \/ /\ AppendOK(r)
               /\ op' = [op EXCEPT ![t].todo = @ \ {k}, ![t].positions[k] = NewPos(r)]
               /\ UNCHANGED <<lock, pc>>
            \/ /\ AppendFails(r)
               /\ CommitAborts(t)
    /\ UNCHANGED <<up, index, reclaim, seqNo, staged, attempt, finished, crashes>>

\* Bug variant: Commit's update loop skips the tombstones.
CommitIndexKeepsTombstoned(t) ==
    [k \in Keys |-> IF k \in StagedKeys(t) /\ staged[t][k] # "tomb"
                    THEN op[t].positions[k] ELSE index[k]]

\* The index after Commit's update loop: positions for puts, deletions for
\* tombstones.
CommitIndex(t) ==
    [k \in Keys |-> IF k \notin StagedKeys(t) THEN index[k]
                    ELSE IF staged[t][k] = "tomb" THEN NoPos
                    ELSE op[t].positions[k]]

\* Commit: append the terminator, then (sync aside) update the index adding
\* each replaced entry's size to reclaimSize, clear pendingWrites, unlock.
CommitFinish(t) ==
    /\ pc[t] = "commit_append" /\ op[t].todo = {}
    /\ LET r == [key |-> TxnFinKey, seq |-> op[t].seq, type |-> "TxnFinished",
                 val |-> NoVal, txn |-> op[t].txn]
       IN \/ /\ AppendOK(r)
             /\ finished' = finished \cup {op[t].txn}
             /\ index' = CommitIndex(t)
             /\ reclaim' = reclaim + MapThenSumSet(LAMBDA k : OldSize(index[k]), StagedKeys(t))
             /\ staged' = [staged EXCEPT ![t] = [k \in Keys |-> "none"]]
             /\ lock' = NoThread
             /\ pc' = [pc EXCEPT ![t] = "idle"]
             /\ op' = [op EXCEPT ![t] = Idle]
          \/ /\ AppendFails(r)
             /\ CommitAborts(t)
             /\ UNCHANGED <<finished, index, reclaim, staged>>
    /\ UNCHANGED <<up, seqNo, attempt, crashes>>

----
\* Crash, and recovery at Open (loadDataFiles, loadIndexFromDataFiles)
----

\* The replay state: the index being rebuilt, reclaimSize, currentSeqNo,
\* transactionRecords, the scan offset in the current file, and whether a
\* read returned an error other than io.EOF.
ReplayInit ==
    [index |-> [k \in Keys |-> NoPos], reclaim |-> 0, seq |-> 0,
     buf |-> [s \in 1..MaxCommits |-> <<>>], off |-> 0, err |-> FALSE]

\* Bug variant: updateIndex counts every record's own size, not only a
\* tombstone's.
UpdateIndexCountsAll(st, k, tp, p) ==
    LET old == OldSize(st.index[k]) IN
    IF tp = "Deleted"
      THEN [st EXCEPT !.index[k] = NoPos, !.reclaim = @ + p.size + old]
      ELSE [st EXCEPT !.index[k] = p, !.reclaim = @ + p.size + old]

\* The updateIndex closure.
UpdateIndex(st, k, tp, p) ==
    LET old == OldSize(st.index[k]) IN
    IF tp = "Deleted"
      THEN [st EXCEPT !.index[k] = NoPos, !.reclaim = @ + p.size + old]
      ELSE [st EXCEPT !.index[k] = p, !.reclaim = @ + old]

\* Bug variant: batch records applied as they are read, without waiting for
\* their terminator.
ReplayRecordEager(st, r, p) ==
    LET st1 == IF r.type = "TxnFinished" THEN st ELSE UpdateIndex(st, r.key, r.type, p)
    IN [st1 EXCEPT !.seq = IF r.seq > @ THEN r.seq ELSE @]

\* One record read at p: non-batch records go to the index, batch records
\* wait in transactionRecords until their seq's terminator is read.
ReplayRecord(st, r, p) ==
    LET st1 ==
          IF r.seq = 0 THEN UpdateIndex(st, r.key, r.type, p)
          ELSE IF r.type = "TxnFinished"
            THEN [FoldLeft(LAMBDA a, e : UpdateIndex(a, e.rec.key, e.rec.type, e.pos),
                           st, st.buf[r.seq])
                  EXCEPT !.buf[r.seq] = <<>>]
            ELSE [st EXCEPT !.buf[r.seq] = Append(@, [rec |-> r, pos |-> p])]
    IN [st1 EXCEPT !.seq = IF r.seq > @ THEN r.seq ELSE @]

\* The read loop over chunk i.. of file f of the files D.  A torn chunk that
\* ends the file reads as io.EOF; one followed by more bytes is decoded
\* together with them and reads either as io.EOF (tornEOF) or as
\* ErrInvalidCRC.
RECURSIVE ScanFile(_, _, _, _, _)
ScanFile(D, f, i, st, tornEOF) ==
    IF i > Len(D[f]) THEN st
    ELSE LET c == D[f][i] IN
         IF c.type = "Torn"
           THEN IF i = Len(D[f]) \/ tornEOF THEN st ELSE [st EXCEPT !.err = TRUE]
           ELSE ScanFile(D, f, i + 1,
                         [ReplayRecord(st, c, [fid |-> f, off |-> st.off, size |-> Size(c)])
                            EXCEPT !.off = @ + Size(c)],
                         tornEOF)

\* Bug variant: the file ids replayed in descending order (fileIDs unsorted).
RECURSIVE ReplayFilesUnsorted(_, _, _, _)
ReplayFilesUnsorted(D, fs, st, tornEOF) ==
    IF fs = {} \/ st.err THEN st
    ELSE LET f == Max(fs) IN
         ReplayFilesUnsorted(D, fs \ {f}, ScanFile(D, f, 1, [st EXCEPT !.off = 0], tornEOF), tornEOF)

\* The files in ascending id order, each scanned from offset 0; an error
\* stops the replay.
RECURSIVE ReplayFiles(_, _, _, _)
ReplayFiles(D, fs, st, tornEOF) ==
    IF fs = {} \/ st.err THEN st
    ELSE LET f == Min(fs) IN
         ReplayFiles(D, fs \ {f}, ScanFile(D, f, 1, [st EXCEPT !.off = 0], tornEOF), tornEOF)

Recovered(tornEOF) == ReplayFiles(disk, DOMAIN disk, ReplayInit, tornEOF)

\* Bug variant: Open leaves db.seqNo at zero instead of currentSeqNo.
OpenOKNoSeq(D, R) ==
    /\ ~R.err
    /\ up' = TRUE
    /\ index' = R.index
    /\ reclaim' = R.reclaim
    /\ seqNo' = 0
    /\ active' = IF DOMAIN D = {} THEN NoFile ELSE Max(DOMAIN D)
    /\ writeOffset' = IF DOMAIN D = {} THEN 0 ELSE R.off

\* Open succeeds on the files D: the largest file id becomes the active
\* file, its WriteOffset the offset where the scan of it stopped.
OpenOK(D, R) ==
    /\ ~R.err
    /\ up' = TRUE
    /\ index' = R.index
    /\ reclaim' = R.reclaim
    /\ seqNo' = R.seq
    /\ active' = IF DOMAIN D = {} THEN NoFile ELSE Max(DOMAIN D)
    /\ writeOffset' = IF DOMAIN D = {} THEN 0 ELSE R.off

\* Open returns the read error: the engine stays closed.
OpenFails(R) ==
    /\ R.err
    /\ up' = FALSE
    /\ index' = [k \in Keys |-> NoPos]
    /\ reclaim' = 0
    /\ seqNo' = 0
    /\ active' = NoFile
    /\ writeOffset' = 0

\* The process dies, losing everything in memory but keeping the files (the
\* page cache survives a process crash, so unsynced writes are kept).
Crash ==
    /\ up /\ crashes < MaxCrashes
    /\ crashes' = crashes + 1
    /\ lock' = NoThread
    /\ pc' = [t \in Threads |-> "idle"]
    /\ op' = [t \in Threads |-> Idle]
    /\ staged' = [t \in Threads |-> [k \in Keys |-> "none"]]

\* A crash, and Open called again on the directory.  Nothing else can happen
\* between the two, so they are one step.
Restart ==
    /\ Crash
    /\ \E tornEOF \in BOOLEAN : OpenOK(disk, Recovered(tornEOF)) \/ OpenFails(Recovered(tornEOF))
    /\ UNCHANGED <<disk, attempt, finished>>

----

Init ==
    /\ disk = [f \in {} |-> <<>>]
    /\ up = TRUE
    /\ active = NoFile
    /\ writeOffset = 0
    /\ index = [k \in Keys |-> NoPos]
    /\ reclaim = 0
    /\ seqNo = 0
    /\ lock = NoThread
    /\ pc = [t \in Threads |-> "idle"]
    /\ op = [t \in Threads |-> Idle]
    /\ staged = [t \in Threads |-> [k \in Keys |-> "none"]]
    /\ attempt = 0
    /\ finished = {}
    /\ crashes = 0

\* The steps of goroutine t inside Put, Delete and a WriteBatch.
PutDeleteStep(t) ==
    \/ \E k \in Keys, v \in Vals : PutAppend(t, k, v)
    \/ \E k \in Keys : DeleteCheck(t, k)
    \/ PutIndex(t) \/ AddReclaim(t) \/ DeleteAppend(t) \/ DeleteIndex(t)

BatchStep(t) ==
    \/ \E k \in Keys, v \in Vals : BatchPut(t, k, v)
    \/ \E k \in Keys : BatchDelete(t, k)
    \/ CommitBegin(t) \/ CommitAppend(t) \/ CommitFinish(t)

Next ==
    \/ \E t \in Threads : PutDeleteStep(t) \/ BatchStep(t)
    \/ Restart

Spec == Init /\ [][Next]_vars

----
\* Properties
----

\* The intact records in the data files.
Records == {c \in UNION {{disk[f][i] : i \in 1..Len(disk[f])} : f \in DOMAIN disk} : c.type # "Torn"}

\* Get through an index entry: the value of the record it points to, Absent
\* (NoVal) for no entry or a tombstone, and "corrupt" for a failed read.
ValueAt(p) ==
    IF p = NoPos THEN NoVal
    ELSE LET r == ReadAt(p) IN
         IF r.type = "Normal" THEN r.val
         ELSE IF r.type = "Deleted" THEN NoVal ELSE "corrupt"

\* Bytes in the data files, and bytes the index still refers to.
TotalBytes == MapThenSumSet(LAMBDA f : FileBytes(disk[f]), DOMAIN disk)
LiveBytes == MapThenSumSet(LAMBDA k : OldSize(index[k]), Keys)

\* Every index entry of an open engine points at an intact record of its
\* own key holding a value: Get never reads a wrong, torn or deleted record
\* (appendLogRecord's returned position, rotation, and Open's replay).
IndexRecordValid ==
    up => \A k \in Keys : index[k] # NoPos =>
            LET r == ReadAt(index[k]) IN r.key = k /\ r.type = "Normal"

\* Batch atomicity: an index entry never points at a record of a WriteBatch
\* commit whose terminator was not written (Commit's txn-fin record and
\* Open's buffering of batch records by sequence number).
CommittedOnly ==
    up => \A k \in Keys : index[k] # NoPos =>
            LET r == ReadAt(index[k]) IN r.seq = 0 \/ r.txn \in finished

\* The sequence counter of an open engine is at least every sequence number
\* in the log, so a new Commit never reuses the seq of records already on
\* disk (seqNo restored by Open's replay, advanced by Commit).
SeqNoCoversLog ==
    up => \A r \in Records : r.seq <= seqNo

\* reclaimSize never claims more than the bytes the index does not use: a
\* merge admitted on it rewrites no less than it was told (Put, Delete,
\* Commit and Open's updateIndex accounting).
ReclaimNeverOverestimates ==
    up => reclaim <= TotalBytes - LiveBytes

----
\* Refinement of the abstract store KVStore
----

\* What Get returns for every key; nothing is readable once Open has failed.
KvView == [k \in Keys |-> IF up THEN ValueAt(index[k]) ELSE "corrupt"]

\* The write each goroutine has called and not yet seen take effect: a Put
\* until its index.Put, a Delete until its index.Delete, a Commit until its
\* index update.
InflightView ==
    [t \in Threads |->
       CASE pc[t] = "put_index" -> (op[t].key :> op[t].val)
         [] pc[t] \in {"del_append", "del_reclaim1", "del_index"} -> (op[t].key :> NoVal)
         [] pc[t] = "commit_append" ->
              [k \in StagedKeys(t) |-> IF staged[t][k] = "tomb" THEN NoVal ELSE staged[t][k]]
         [] OTHER -> NoPos]

KV == INSTANCE KVStore WITH kv <- KvView, inflight <- InflightView,
                            Absent <- NoVal, NoWrite <- NoPos

\* The engine implements KVStore: every Put, Delete and committed batch takes
\* effect whole at one step, and after a crash Open recovers exactly the
\* writes that took effect plus some of those in flight.
Refinement == KV!Spec

=============================================================================
