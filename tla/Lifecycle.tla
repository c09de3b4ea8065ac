----------------------------- MODULE Lifecycle -----------------------------
(***************************************************************************)
(* The life of a betadb directory opened with the persistent B+tree index *)
(* (IndexType = BPlusTree) by several processes in turn: Open with its    *)
(* directory lock and seq-no checkpoint (part_001 Open, loadSeqNo), Put,  *)
(* Delete and WriteBatch against the bbolt index (part_010, errors.go),   *)
(* Close with its deferred unlock (part_001 Close), and process crashes.  *)
(*                                                                         *)
(* What is on disk survives a crash: the data log, the bbolt index file,  *)
(* the seq-no file and the fLock file.  What is in a process's memory     *)
(* (seqNo, seqNoFilesExists, isInitial, activeFile, a staged batch) does  *)
(* not, and the operating system releases the flocks of a dead process.  *)
(* The variant never replays the log: the bbolt file is the index.        *)
(*                                                                         *)
(* Each process runs one goroutine on its Database; the interleavings of  *)
(* goroutines inside one process are the subject of BetaDB and Iterator.  *)
(* Positions are indices into the log, which abstracts the data files:    *)
(* rotation and offsets are BetaDB's subject.                             *)
(***************************************************************************)
EXTENDS Naturals, SequencesExt

CONSTANTS
    Procs,          \* processes that call Open on the same directory
    Keys,           \* user keys
    Vals,           \* user values
    MaxLog,         \* bound on the records in the data files
    MaxCommits,     \* bound on the seqNo a commit may allocate
    MaxCrashes,     \* bound on process crashes
    CrashInCommit,  \* may a process die inside Commit's index loop?
    TxnFinKey,      \* the key of the txn-fin terminator record
    Tomb,           \* the value of a LogRecordDeleted record
    NoVal,          \* no value: a key absent from the store
    NoPos,          \* a key the bbolt bucket does not hold
    NoProc,         \* nobody holds a flock
    NoSeqFile,      \* the seq-no file does not exist
    EmptySeqFile    \* the seq-no file exists and holds no record

Seqs == 0..MaxCommits

\* What the seq-no file can be: absent, created but empty, or one record.
SeqFileStates == {NoSeqFile, EmptySeqFile} \cup Seqs

\* A data-file record: the user key (or txn-fin) under its seq prefix.
Record == [key : Keys \cup {TxnFinKey}, val : Vals \cup {Tomb, NoVal}, seq : Seqs]

\* A batch's pendingWrites: a value or a tombstone for each staged key.
Pending == UNION { [S -> Vals \cup {Tomb}] : S \in (SUBSET Keys) \ {{}} }

Pcs == {"closed", "locked", "open", "staged", "put_index", "del_index", "commit_index",
        "close_body", "close_unlock", "close_index"}

VARIABLES
    dir,         \* the data directory exists
    flockFile,   \* the fLock file exists (TryLock creates it)
    lock,        \* holder of the flock on fLock
    bolt,        \* holder of bbolt's own flock on the bptree-index file
    log,         \* the records of the data files, in append order
    bpt,         \* the bbolt bucket: key -> position in log
    seqFile,     \* the seq-no file
    crashes,     \* crashes so far
    pc,          \* where each process is
    seqNo,       \* db.seqNo
    sfe,         \* db.seqNoFilesExists
    isInitial,   \* db.isInitial
    active,      \* db.activeFile != nil
    op,          \* index updates still to make: key -> position
    batch,       \* the pendingWrites of a Commit in progress
    before       \* ghost: the bucket when a Commit began its index loop

procVars == <<pc, seqNo, sfe, isInitial, active, op, batch, before>>
vars == <<dir, flockFile, lock, bolt, log, bpt, seqFile, crashes, procVars>>

TypeOK ==
    /\ dir \in BOOLEAN /\ flockFile \in BOOLEAN
    /\ lock \in Procs \cup {NoProc} /\ bolt \in Procs \cup {NoProc}
    /\ log \in Seq(Record) /\ Len(log) <= MaxLog
    /\ bpt \in [Keys -> (1..MaxLog) \cup {NoPos}]
    /\ seqFile \in SeqFileStates
    /\ crashes \in 0..MaxCrashes
    /\ pc \in [Procs -> Pcs]
    /\ seqNo \in [Procs -> Seqs]
    /\ sfe \in [Procs -> BOOLEAN] /\ isInitial \in [Procs -> BOOLEAN]
    /\ active \in [Procs -> BOOLEAN]
    /\ \A p \in Procs : op[p] \in [DOMAIN op[p] -> 1..MaxLog] /\ DOMAIN op[p] \subseteq Keys
    /\ batch \in [Procs -> Pending \cup {<<>>}]
    /\ before \in [Procs -> [Keys -> (1..MaxLog) \cup {NoPos}]]

----
\* Helpers
----

\* The memory of a process that has no Database (never opened, closed or dead).
Forget(p) ==
    /\ seqNo' = [seqNo EXCEPT ![p] = 0]
    /\ sfe' = [sfe EXCEPT ![p] = FALSE]
    /\ isInitial' = [isInitial EXCEPT ![p] = FALSE]
    /\ active' = [active EXCEPT ![p] = FALSE]
    /\ op' = [op EXCEPT ![p] = <<>>]
    /\ batch' = [batch EXCEPT ![p] = <<>>]
    /\ before' = [before EXCEPT ![p] = [k \in Keys |-> NoPos]]

\* os.ReadDir after TryLock: the directory's entries.
DirEntries ==
    (IF flockFile THEN {"fLock"} ELSE {})
    \cup (IF log # <<>> THEN {"data"} ELSE {})
    \cup (IF seqFile # NoSeqFile THEN {"seq-no"} ELSE {})

\* BPlusTree.Put and BPlusTree.Delete of one key, each its own bbolt
\* transaction, committed to the file when it returns.
BptApply(m, k, pos) ==
    [m EXCEPT ![k] = IF log[pos].val = Tomb THEN NoPos ELSE pos]

----
\* Open (part_001 lines 94-186) for IndexType = BPlusTree
----

\* os.Stat / MkdirAll, flock TryLock, then os.ReadDir: isInitial when the
\* directory had to be created or has no entries.  When another process
\* holds the flock, TryLock returns false and Open returns
\* ErrDatabaseIsUsing, changing nothing: that is a stuttering step.
OpenLock(p) ==
    /\ pc[p] = "closed"
    /\ lock = NoProc
    /\ dir' = TRUE
    /\ flockFile' = TRUE
    /\ lock' = p
    /\ isInitial' = [isInitial EXCEPT ![p] =
                        ~dir \/ ({"fLock"} \cup DirEntries) = {}]
    /\ pc' = [pc EXCEPT ![p] = "locked"]
    /\ UNCHANGED <<bolt, log, bpt, seqFile, crashes, seqNo, sfe, active, op, batch, before>>

\* NewIndexer(BPlusTree): bbolt.Open of the bptree-index file, which waits
\* on bbolt's own flock while a closing process still holds it.
NewIndexer(p) ==
    /\ bolt = NoProc
    /\ bolt' = p

\* loadDataFiles: the data file with the largest id becomes activeFile.
LoadDataFiles(p) ==
    active' = [active EXCEPT ![p] = log # <<>>]

\* loadSeqNo: no seq-no file leaves seqNo 0 and seqNoFilesExists false;
\* otherwise the record at offset 0 sets both and the file is removed.
LoadSeqNo(p) ==
    /\ seqFile # EmptySeqFile
    /\ seqNo' = [seqNo EXCEPT ![p] = IF seqFile = NoSeqFile THEN 0 ELSE seqFile]
    /\ sfe' = [sfe EXCEPT ![p] = seqFile # NoSeqFile]
    /\ seqFile' = NoSeqFile

\* The rest of Open: NewIndexer, loadMergeFiles (no merge here),
\* loadDataFiles, no replay for the B+tree, loadSeqNo.
OpenLoad(p) ==
    /\ pc[p] = "locked"
    /\ NewIndexer(p)
    /\ LoadDataFiles(p)
    /\ LoadSeqNo(p)
    /\ pc' = [pc EXCEPT ![p] = "open"]
    /\ UNCHANGED <<dir, flockFile, lock, log, bpt, crashes, isInitial, op, batch, before>>

\* loadSeqNo on an empty seq-no file: ReadLogRecord(0) decodes no header and
\* returns io.EOF, so Open returns the error.  Nothing releases the flock
\* or closes the bbolt file: both stay held by this process.
OpenLoadFails(p) ==
    /\ pc[p] = "locked"
    /\ NewIndexer(p)
    /\ seqFile = EmptySeqFile
    /\ pc' = [pc EXCEPT ![p] = "closed"]
    /\ Forget(p)
    /\ UNCHANGED <<dir, flockFile, lock, log, bpt, seqFile, crashes>>

----
\* Writes (part_001 Put, Delete; errors.go WriteBatch)
----

\* Mutant: the index position taken before the append, one record early.
PutAppendOffByOne(p, k, v) ==
    /\ pc[p] = "open"
    /\ Len(log) < MaxLog
    /\ log' = Append(log, [key |-> k, val |-> v, seq |-> 0])
    /\ active' = [active EXCEPT ![p] = TRUE]
    /\ op' = [op EXCEPT ![p] = k :> Len(log)]
    /\ pc' = [pc EXCEPT ![p] = "put_index"]
    /\ UNCHANGED <<dir, flockFile, lock, bolt, bpt, seqFile, crashes, seqNo, sfe,
                   isInitial, batch, before>>

\* Put: appendLogRecordWithLock of {key, seq 0, value} (creating the first
\* data file when activeFile is nil) ...
PutAppend(p, k, v) ==
    /\ pc[p] = "open"
    /\ Len(log) < MaxLog
    /\ log' = Append(log, [key |-> k, val |-> v, seq |-> 0])
    /\ active' = [active EXCEPT ![p] = TRUE]
    /\ op' = [op EXCEPT ![p] = k :> Len(log')]
    /\ pc' = [pc EXCEPT ![p] = "put_index"]
    /\ UNCHANGED <<dir, flockFile, lock, bolt, bpt, seqFile, crashes, seqNo, sfe,
                   isInitial, batch, before>>

\* ... then index.Put of the new position, in its own bbolt transaction.
PutIndex(p) ==
    /\ pc[p] = "put_index"
    /\ LET k == CHOOSE x \in DOMAIN op[p] : TRUE
       IN  bpt' = BptApply(bpt, k, op[p][k])
    /\ op' = [op EXCEPT ![p] = <<>>]
    /\ pc' = [pc EXCEPT ![p] = "open"]
    /\ UNCHANGED <<dir, flockFile, lock, bolt, log, seqFile, crashes, seqNo, sfe,
                   isInitial, active, batch, before>>

\* Delete: index.Get finds the key (else it returns nil at once, a
\* stuttering step), then appendLogRecordWithLock of a tombstone ...
DeleteAppend(p, k) ==
    /\ pc[p] = "open"
    /\ bpt[k] # NoPos
    /\ Len(log) < MaxLog
    /\ log' = Append(log, [key |-> k, val |-> Tomb, seq |-> 0])
    /\ active' = [active EXCEPT ![p] = TRUE]
    /\ op' = [op EXCEPT ![p] = k :> Len(log')]
    /\ pc' = [pc EXCEPT ![p] = "del_index"]
    /\ UNCHANGED <<dir, flockFile, lock, bolt, bpt, seqFile, crashes, seqNo, sfe,
                   isInitial, batch, before>>

\* ... then index.Delete in its own bbolt transaction.
DeleteIndex(p) ==
    /\ pc[p] = "del_index"
    /\ LET k == CHOOSE x \in DOMAIN op[p] : TRUE
       IN  bpt' = BptApply(bpt, k, op[p][k])
    /\ op' = [op EXCEPT ![p] = <<>>]
    /\ pc' = [pc EXCEPT ![p] = "open"]
    /\ UNCHANGED <<dir, flockFile, lock, bolt, log, seqFile, crashes, seqNo, sfe,
                   isInitial, active, batch, before>>

\* NewWriteBatch with IndexType = BPlusTree: with neither a seq-no file
\* loaded at Open nor a freshly created directory it panics, and the
\* process dies (Dies, below).  Otherwise the goroutine stages its
\* pendingWrites with WriteBatch.Put and WriteBatch.Delete; a Delete of a
\* key index.Get does not find is dropped, so a tombstone is staged only
\* for a key the bucket holds.
NewWriteBatch(p, w) ==
    /\ pc[p] = "open"
    /\ sfe[p] \/ isInitial[p]
    /\ \A k \in DOMAIN w : w[k] = Tomb => bpt[k] # NoPos
    /\ seqNo[p] < MaxCommits                        \* bounds: room for the
    /\ Len(log) + Cardinality(DOMAIN w) + 1 <= MaxLog \* Commit that follows
    /\ batch' = [batch EXCEPT ![p] = w]
    /\ pc' = [pc EXCEPT ![p] = "staged"]
    /\ UNCHANGED <<dir, flockFile, lock, bolt, log, bpt, seqFile, crashes, seqNo, sfe,
                   isInitial, active, op, before>>

\* Commit under db.mu: seqNo + 1, one record per pending write under that
\* seq, then the txn-fin record; the positions become the index updates
\* to make.  (pendingWrites is a map: the order of its records in the
\* file is unobservable here, so one order stands for all.)
CommitAppend(p) ==
    LET s    == seqNo[p] + 1
        ks   == SetToSeq(DOMAIN batch[p])
        recs == [i \in 1..Len(ks) |-> [key |-> ks[i], val |-> batch[p][ks[i]], seq |-> s]]
        fin  == [key |-> TxnFinKey, val |-> NoVal, seq |-> s]
    IN  /\ pc[p] = "staged"
        /\ seqNo' = [seqNo EXCEPT ![p] = s]
        /\ log' = log \o recs \o <<fin>>
        /\ active' = [active EXCEPT ![p] = TRUE]
        /\ op' = [op EXCEPT ![p] = [k \in DOMAIN batch[p] |->
                      Len(log) + CHOOSE i \in 1..Len(ks) : ks[i] = k]]
        /\ before' = [before EXCEPT ![p] = bpt]
        /\ pc' = [pc EXCEPT ![p] = "commit_index"]
        /\ UNCHANGED <<dir, flockFile, lock, bolt, bpt, seqFile, crashes, sfe,
                       isInitial, batch>>

\* Mutant: the loop handles LogRecordNormal only and skips tombstones.
CommitIndexSkipsDeletes(p, k) ==
    /\ pc[p] = "commit_index"
    /\ k \in DOMAIN op[p]
    /\ bpt' = IF log[op[p][k]].val = Tomb THEN bpt ELSE BptApply(bpt, k, op[p][k])
    /\ op' = [op EXCEPT ![p] = [x \in DOMAIN op[p] \ {k} |-> op[p][x]]]
    /\ IF op'[p] = <<>>
          THEN /\ pc' = [pc EXCEPT ![p] = "open"]
               /\ batch' = [batch EXCEPT ![p] = <<>>]
               /\ before' = [before EXCEPT ![p] = [x \in Keys |-> NoPos]]
          ELSE UNCHANGED <<pc, batch, before>>
    /\ UNCHANGED <<dir, flockFile, lock, bolt, log, seqFile, crashes, seqNo, sfe,
                   isInitial, active>>

\* One turn of Commit's index loop: index.Put or index.Delete of one pending
\* key, each its own bbolt transaction.  After the last one Commit clears
\* pendingWrites and returns.
CommitIndex(p, k) ==
    /\ pc[p] = "commit_index"
    /\ k \in DOMAIN op[p]
    /\ bpt' = BptApply(bpt, k, op[p][k])
    /\ op' = [op EXCEPT ![p] = [x \in DOMAIN op[p] \ {k} |-> op[p][x]]]
    /\ IF op'[p] = <<>>
          THEN /\ pc' = [pc EXCEPT ![p] = "open"]
               /\ batch' = [batch EXCEPT ![p] = <<>>]
               /\ before' = [before EXCEPT ![p] = [x \in Keys |-> NoPos]]
          ELSE UNCHANGED <<pc, batch, before>>
    /\ UNCHANGED <<dir, flockFile, lock, bolt, log, seqFile, crashes, seqNo, sfe,
                   isInitial, active>>

----
\* Close (part_001 lines 189-242)
----

\* With no activeFile Close returns at once and only its deferred calls
\* run.  Otherwise it takes db.mu and OpenSeqNoFile creates the seq-no file
\* (O_APPEND: an existing file keeps its first record).
CloseBegin(p) ==
    /\ pc[p] = "open"
    /\ IF active[p]
          THEN /\ seqFile' = IF seqFile = NoSeqFile THEN EmptySeqFile ELSE seqFile
               /\ pc' = [pc EXCEPT ![p] = "close_body"]
          ELSE /\ pc' = [pc EXCEPT ![p] = "close_unlock"]
               /\ UNCHANGED seqFile
    /\ UNCHANGED <<dir, flockFile, lock, bolt, log, bpt, crashes, seqNo, sfe,
                   isInitial, active, op, batch, before>>

\* Write the record seq.no = db.seqNo, Sync, close the data files.  The
\* reader reads the record at offset 0, so an appended one is never read.
CloseWrite(p) ==
    /\ pc[p] = "close_body"
    /\ seqFile' = IF seqFile = EmptySeqFile THEN seqNo[p] ELSE seqFile
    /\ pc' = [pc EXCEPT ![p] = "close_unlock"]
    /\ UNCHANGED <<dir, flockFile, lock, bolt, log, bpt, crashes, seqNo, sfe,
                   isInitial, active, op, batch, before>>

\* The deferred function: fileLock.Unlock first ...
CloseUnlock(p) ==
    /\ pc[p] = "close_unlock"
    /\ lock' = NoProc
    /\ pc' = [pc EXCEPT ![p] = "close_index"]
    /\ UNCHANGED <<dir, flockFile, bolt, log, bpt, seqFile, crashes, seqNo, sfe,
                   isInitial, active, op, batch, before>>

\* ... then index.Close, which releases bbolt's flock.
CloseIndex(p) ==
    /\ pc[p] = "close_index"
    /\ bolt' = NoProc
    /\ pc' = [pc EXCEPT ![p] = "closed"]
    /\ Forget(p)
    /\ UNCHANGED <<dir, flockFile, lock, log, bpt, seqFile, crashes>>

----
\* Process death
----

\* The process exits: its memory is gone and the kernel drops its flocks.
Dies(p) ==
    /\ pc' = [pc EXCEPT ![p] = "closed"]
    /\ lock' = IF lock = p THEN NoProc ELSE lock
    /\ bolt' = IF bolt = p THEN NoProc ELSE bolt
    /\ Forget(p)

\* NewWriteBatch's panic (errors.go line 68) is not recovered.
WriteBatchPanics(p) ==
    /\ pc[p] = "open"
    /\ ~sfe[p] /\ ~isInitial[p]
    /\ Dies(p)
    /\ UNCHANGED <<dir, flockFile, log, bpt, seqFile, crashes>>

\* A crash (kill, power to the process) at any step of any operation,
\* including a process that only holds flocks leaked by a failed Open.
Crash(p) ==
    /\ crashes < MaxCrashes
    /\ pc[p] # "closed" \/ lock = p \/ bolt = p
    /\ CrashInCommit \/ pc[p] # "commit_index"
    /\ crashes' = crashes + 1
    /\ Dies(p)
    /\ UNCHANGED <<dir, flockFile, log, bpt, seqFile>>

\* A process with no Database ends normally, e.g. after Open returned an
\* error: the kernel drops the flocks that Open left held.
Exit(p) ==
    /\ pc[p] = "closed"
    /\ lock = p \/ bolt = p
    /\ Dies(p)
    /\ UNCHANGED <<dir, flockFile, log, bpt, seqFile, crashes>>

----

Init ==
    /\ dir \in BOOLEAN          \* a missing or an existing empty directory
    /\ flockFile = FALSE
    /\ lock = NoProc /\ bolt = NoProc
    /\ log = <<>>
    /\ bpt = [k \in Keys |-> NoPos]
    /\ seqFile = NoSeqFile
    /\ crashes = 0
    /\ pc = [p \in Procs |-> "closed"]
    /\ seqNo = [p \in Procs |-> 0]
    /\ sfe = [p \in Procs |-> FALSE] /\ isInitial = [p \in Procs |-> FALSE]
    /\ active = [p \in Procs |-> FALSE]
    /\ op = [p \in Procs |-> <<>>]
    /\ batch = [p \in Procs |-> <<>>]
    /\ before = [p \in Procs |-> [k \in Keys |-> NoPos]]

Next ==
    \E p \in Procs :
        \/ OpenLock(p) \/ OpenLoad(p) \/ OpenLoadFails(p)
        \/ \E k \in Keys, v \in Vals : PutAppend(p, k, v)
        \/ PutIndex(p)
        \/ \E k \in Keys : DeleteAppend(p, k)
        \/ DeleteIndex(p)
        \/ \E w \in Pending : NewWriteBatch(p, w)
        \/ CommitAppend(p)
        \/ \E k \in Keys : CommitIndex(p, k)
        \/ CloseBegin(p) \/ CloseWrite(p) \/ CloseUnlock(p) \/ CloseIndex(p)
        \/ WriteBatchPanics(p)
        \/ Crash(p)
        \/ Exit(p)

Spec == Init /\ [][Next]_vars

----
\* Properties
----

\* Sequence numbers are per-database and increasing (spec.md section 4.8,
\* glossary): no two txn-fin records in the data files carry the same seq,
\* and a later batch has a larger one.  Commit allocates seqNo + 1 from the
\* seqNo Open took from the seq-no file, which NewWriteBatch's panic is
\* meant to guarantee is current.
BatchSeqsIncrease ==
    \A i, j \in 1..Len(log) :
        /\ i < j
        /\ log[i].key = TxnFinKey
        /\ log[j].key = TxnFinKey
        => log[i].seq < log[j].seq

----
\* Refinement of the abstract store KVStore
----

\* The process, if any, inside Commit's index loop.  Readers of the
\* Database take db.mu, which Commit holds for the whole loop, so they see
\* the bucket as it was before the loop until the loop ends.
Committer == {p \in Procs : pc[p] = "commit_index"}

\* The bucket a reader sees.
Visible == IF Committer = {} THEN bpt ELSE before[CHOOSE p \in Committer : TRUE]

\* What Get returns for every key: the value of the record the bucket
\* points at.
KvView == [k \in Keys |-> IF Visible[k] = NoPos THEN NoVal ELSE log[Visible[k]].val]

\* The write each process has called and not yet seen take effect.
InflightView ==
    [p \in Procs |->
       CASE pc[p] = "put_index" -> [k \in DOMAIN op[p] |-> log[op[p][k]].val]
         [] pc[p] = "del_index" -> [k \in DOMAIN op[p] |-> NoVal]
         [] pc[p] = "commit_index" ->
              [k \in DOMAIN batch[p] |-> IF batch[p][k] = Tomb THEN NoVal ELSE batch[p][k]]
         [] OTHER -> NoPos]

KV == INSTANCE KVStore WITH Threads <- Procs, kv <- KvView, inflight <- InflightView,
                            Absent <- NoVal, NoWrite <- NoPos

\* The B+tree variant implements KVStore across processes and crashes: each
\* Put, Delete and committed batch takes effect whole, and what the next
\* process to open the directory reads is what took effect plus, of the
\* writes in flight at a crash, some whole ones.
Refinement == KV!Spec

====
