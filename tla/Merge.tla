-------------------------------- MODULE Merge --------------------------------
\* Merge (merge.go) composed with the engine of BetaDB, and Open's handling of
\* the merge artifacts (loadMergeFiles, loadIndexFromHintFile, and the skip
\* of merged files in loadIndexFromDataFiles).
\*
\* Merge rotates the active file under db.mu, releases the lock, and then
\* copies every record of the older files that the live index still points
\* at into a temporary database in the sibling "-merge" directory, writing a
\* hint record (key, new position) for each.  It ends by writing the
\* merge-finished file that names the first file id not merged.  Nothing of
\* this is visible until the next Open: loadMergeFiles deletes the data
\* files below that id and renames the merge directory's files in.
\*
\* Each goroutine makes the calls Calls[t] names; the steps of Put, Delete
\* and WriteBatch are those of BetaDB.
EXTENDS BetaDB

CONSTANTS
    Calls,          \* Calls[t] \subseteq {"PutDelete", "Batch", "Merge"}
    MergeRatioPct,  \* options.DataFileMergeRatio, in percent
    CrashInOpen     \* whether a crash may interrupt loadMergeFiles

ASSUME Calls \in [Threads -> SUBSET {"PutDelete", "Batch", "Merge"}]
ASSUME MergeRatioPct \in 0..100

VARIABLES
    merging,   \* db.isMerging
    mst,       \* the merging goroutine's locals, or NoFile
    mdir,      \* the "-merge" directory, or NoFile when it does not exist
    hint,      \* the data directory's hint-index file, or NoFile
    mergeFin   \* the value in the data directory's merge-finished, or NoFile

mergeVars == <<merging, mst, mdir, hint, mergeFin>>
allVars == <<vars, mergeVars>>

\* A hint record: the key and its position in a merged file.
HintRecord == [key: Keys, pos: Pos]

\* The merge directory: the temporary database's data files, its hint file
\* and its merge-finished file (NoFile once renamed away or not yet written).
IsMergeDir(M) ==
    /\ DOMAIN M = {"data", "hint", "fin"}
    /\ DOMAIN M.data \subseteq FileIds
    /\ \A f \in DOMAIN M.data : M.data[f] \in Seq(LogRecord)
    /\ M.hint = NoFile \/ M.hint \in Seq(HintRecord)
    /\ M.fin \in FileIds \cup {NoFile}

MergeTypeOK ==
    /\ TypeOK
    /\ merging \in BOOLEAN
    /\ mst = NoFile \/ mst \in [files: Seq(FileIds), fi: Nat, ci: Nat, off: Nat,
                                nonMerge: FileIds]
    /\ mdir = NoFile \/ IsMergeDir(mdir)
    /\ hint = NoFile \/ hint \in Seq(HintRecord)
    /\ mergeFin \in FileIds \cup {NoFile}

----
\* Merge (merge.go)
----

\* utils.DirectorySize of the data directory: the data files, the hint file
\* (a record of 1 byte per entry) and the merge-finished record (1 byte).
DirectorySize ==
    TotalBytes + (IF hint = NoFile THEN 0 ELSE Len(hint))
               + (IF mergeFin = NoFile THEN 0 ELSE 1)

\* float32(reclaimSize) / float32(totalSize) < DataFileMergeRatio.  On 0/0
\* the quotient is NaN, the comparison false, and the merge goes ahead, as
\* this product form also says.
RatioUnreached == reclaim * 100 < MergeRatioPct * DirectorySize

\* Bug variant: the frontier taken before the rotation.
MergeBeginOldFrontier(t) ==
    /\ up /\ pc[t] = "idle" /\ lock = NoThread /\ "Merge" \in Calls[t]
    /\ active # NoFile /\ ~merging /\ ~RatioUnreached
    /\ merging' = TRUE
    /\ disk' = (active + 1 :> <<>>) @@ disk
    /\ active' = active + 1
    /\ writeOffset' = 0
    /\ mst' = [files |-> SetToSortSeq(DOMAIN disk, <), fi |-> 1, ci |-> 1, off |-> 0,
               nonMerge |-> active]
    /\ pc' = [pc EXCEPT ![t] = "merge_prepare"]
    /\ UNCHANGED <<up, index, reclaim, seqNo, lock, op, staged, attempt, finished,
                   crashes, mdir, hint, mergeFin>>

\* Merge, under db.mu: with no active file it returns nil, and while another
\* merge runs, below the ratio, or short of disk space it returns an error,
\* all without a state change (no step).  Otherwise it sets isMerging,
\* rotates the active file, records the new file's id as the frontier and
\* takes every older file, sorted by id, as the files to merge.
MergeBegin(t) ==
    /\ up /\ pc[t] = "idle" /\ lock = NoThread /\ "Merge" \in Calls[t]
    /\ active # NoFile /\ ~merging /\ ~RatioUnreached
    /\ merging' = TRUE
    /\ disk' = (active + 1 :> <<>>) @@ disk
    /\ active' = active + 1
    /\ writeOffset' = 0
    /\ mst' = [files |-> SetToSortSeq(DOMAIN disk, <), fi |-> 1, ci |-> 1, off |-> 0,
               nonMerge |-> active + 1]
    /\ pc' = [pc EXCEPT ![t] = "merge_prepare"]
    /\ UNCHANGED <<up, index, reclaim, seqNo, lock, op, staged, attempt, finished,
                   crashes, mdir, hint, mergeFin>>

\* After the unlock: remove a leftover merge directory, create it afresh,
\* Open the temporary database in it (no files yet) and create the hint file.
MergePrepare(t) ==
    /\ pc[t] = "merge_prepare"
    /\ mdir' = [data |-> [f \in {} |-> <<>>], hint |-> <<>>, fin |-> NoFile]
    /\ pc' = [pc EXCEPT ![t] = "merge_scan"]
    /\ UNCHANGED <<disk, up, active, writeOffset, index, reclaim, seqNo, lock, op,
                   staged, attempt, finished, crashes, merging, mst, hint, mergeFin>>

\* mergeDB.appendLogRecord of r: its active file is the largest id, file 0
\* is created on the first append, and it rotates at DataFileSize.
MergeDBTarget(M, r) ==
    IF DOMAIN M.data = {} THEN [fid |-> 0, off |-> 0]
    ELSE LET a == Max(DOMAIN M.data)
             o == FileBytes(M.data[a])
         IN IF o + Size(r) > DataFileSize THEN [fid |-> a + 1, off |-> 0]
            ELSE [fid |-> a, off |-> o]

MergeDBAppend(M, r) ==
    LET g == MergeDBTarget(M, r).fid
    IN [M EXCEPT !.data = (g :> (IF g \in DOMAIN @ THEN @[g] ELSE <<>>) \o <<r>>) @@ @]

\* Bug variant: the hint records the offset after the write.
MergePosAfterWrite(M, r) ==
    [fid |-> MergeDBTarget(M, r).fid, off |-> MergeDBTarget(M, r).off + Size(r), size |-> Size(r)]

\* The position mergeDB.appendLogRecord returns for r.
MergePos(M, r) ==
    [fid |-> MergeDBTarget(M, r).fid, off |-> MergeDBTarget(M, r).off, size |-> Size(r)]

\* The record rewritten without its batch seq (logRecordKeyWithSeq with
\* nonTransactionSeqNo) to the temporary database, and its new position
\* written to the hint file.
MergeCopy(M, k, r) ==
    [MergeDBAppend(M, r) EXCEPT !.hint = Append(@, [key |-> k, pos |-> MergePos(M, r)])]

\* The index entry read for the record's key points at this very record.
IsLiveRecord(p, f, off) == p # NoPos /\ p.fid = f /\ p.off = off

\* Bug variant: isMerging left set on return (no deferred reset).
MergeAbortsKeepsMerging(t) ==
    /\ merging' = merging
    /\ mst' = NoFile
    /\ pc' = [pc EXCEPT ![t] = "idle"]

\* Stop the merge: the deferred reset of isMerging, on every return.
MergeAborts(t) ==
    /\ merging' = FALSE
    /\ mst' = NoFile
    /\ pc' = [pc EXCEPT ![t] = "idle"]

\* One ReadLogRecord of the file being merged.  io.EOF (the end of the file,
\* or a torn record the decoder takes for it) moves to the next file; any
\* other read error ends Merge.  A record the index points at (index.Get,
\* made without db.mu) is copied.
MergeScan(t) ==
    /\ pc[t] = "merge_scan" /\ mst.fi <= Len(mst.files)
    /\ LET f == mst.files[mst.fi]
           s == disk[f]
           NextFile == /\ mst' = [mst EXCEPT !.fi = @ + 1, !.ci = 1, !.off = 0]
                       /\ UNCHANGED <<pc, merging, mdir>>
       IN IF mst.ci > Len(s) THEN NextFile
          ELSE LET c == s[mst.ci] IN
               IF c.type = "Torn"
                 THEN \/ NextFile
                      \/ mst.ci < Len(s) /\ MergeAborts(t) /\ UNCHANGED mdir
                 ELSE LET p == IF c.key \in Keys THEN index[c.key] ELSE NoPos IN
                      /\ mst' = [mst EXCEPT !.ci = @ + 1, !.off = @ + Size(c)]
                      /\ mdir' = IF IsLiveRecord(p, f, mst.off)
                                 THEN MergeCopy(mdir, c.key, [c EXCEPT !.seq = 0, !.txn = 0])
                                 ELSE mdir
                      /\ UNCHANGED <<pc, merging>>
    /\ UNCHANGED <<disk, up, active, writeOffset, index, reclaim, seqNo, lock, op,
                   staged, attempt, finished, crashes, hint, mergeFin>>

\* Every file merged: sync the hint file and the temporary database, write
\* the merge-finished record holding the frontier, return nil (isMerging
\* reset by the defer).
MergeFinish(t) ==
    /\ pc[t] = "merge_scan" /\ mst.fi > Len(mst.files)
    /\ mdir' = [mdir EXCEPT !.fin = mst.nonMerge]
    /\ MergeAborts(t)
    /\ UNCHANGED <<disk, up, active, writeOffset, index, reclaim, seqNo, lock, op,
                   staged, attempt, finished, crashes, hint, mergeFin>>

----
\* Open with the merge artifacts (loadMergeFiles, loadIndexFromHintFile,
\* loadIndexFromDataFiles)
----

\* The files Open finds: the data directory and the merge directory.
Files == [disk |-> disk, hint |-> hint, fin |-> mergeFin, mdir |-> mdir]

\* The merge directory's entries in os.ReadDir order: the data files
\* ("%09d.data") by id, then "hint-index", then "merge-finished".
MergeEntries(M) ==
    LET ids == SetToSortSeq(DOMAIN M.data, <) IN
    [i \in 1..Len(ids) |-> [kind |-> "data", fid |-> ids[i]]]
      \o (IF M.hint = NoFile THEN <<>> ELSE <<[kind |-> "hint", fid |-> 0]>>)
      \o (IF M.fin = NoFile THEN <<>> ELSE <<[kind |-> "fin", fid |-> 0]>>)

\* os.Rename of entry e of the merge directory into the data directory.
RenameIn(F, e) ==
    CASE e.kind = "data" -> [F EXCEPT !.disk = (e.fid :> F.mdir.data[e.fid]) @@ @,
                                      !.mdir.data = Restrict(@, DOMAIN @ \ {e.fid})]
      [] e.kind = "hint" -> [F EXCEPT !.hint = F.mdir.hint, !.mdir.hint = NoFile]
      [] OTHER           -> [F EXCEPT !.fin = F.mdir.fin, !.mdir.fin = NoFile]

\* The renames loadMergeFiles makes on the files F.
Renames(F) ==
    IF F.mdir = NoFile \/ F.mdir.fin = NoFile THEN <<>> ELSE MergeEntries(F.mdir)

\* loadMergeFiles, stopped after its first n renames: with no merge
\* directory, or none that holds merge-finished, it does nothing; otherwise
\* it deletes the data files below the frontier that merge-finished names,
\* then renames the merge directory's entries in, one by one.
LoadMergeFiles(F, n) ==
    IF Renames(F) = <<>> THEN F
    ELSE FoldLeft(RenameIn,
                  [F EXCEPT !.disk = Restrict(@, {f \in DOMAIN @ : f >= F.mdir.fin})],
                  SubSeq(Renames(F), 1, n))

\* loadIndexFromHintFile: index.Put of every hint record, in file order.
HintIndex(h) ==
    IF h = NoFile THEN [k \in Keys |-> NoPos]
    ELSE FoldLeft(LAMBDA m, e : [m EXCEPT ![e.key] = e.pos], [k \in Keys |-> NoPos], h)

\* Open on the files F: loadMergeFiles to its end and the deferred removal
\* of the merge directory, loadDataFiles, the hint file, and the replay of
\* the data files, skipping those below the frontier when the data
\* directory holds a merge-finished file.
OpenFiles(F, tornEOF) ==
    LET G == [LoadMergeFiles(F, Len(Renames(F))) EXCEPT !.mdir = NoFile]
        fs == {f \in DOMAIN G.disk : G.fin = NoFile \/ f >= G.fin}
        R == ReplayFiles(G.disk, fs, [ReplayInit EXCEPT !.index = HintIndex(G.hint)], tornEOF)
    IN /\ disk' = G.disk
       /\ hint' = G.hint
       /\ mergeFin' = G.fin
       /\ mdir' = NoFile
       /\ OpenOK(G.disk, R) \/ OpenFails(R)

\* A crash, and Open called again.  Where CrashInOpen holds, a first Open
\* may itself be cut short by a crash after any of the renames of
\* loadMergeFiles but the last; the files are then as it left them (the
\* deferred RemoveAll does not run) when the next Open starts.  Nothing
\* else runs while the engine is down, so all of it is one step.
MergeRestart ==
    /\ Crash
    /\ merging' = FALSE
    /\ mst' = NoFile
    /\ \E F \in {Files} \cup (IF CrashInOpen
                              THEN {LoadMergeFiles(Files, n) : n \in 0..(Len(Renames(Files)) - 1)}
                              ELSE {}),
          tornEOF \in BOOLEAN :
          OpenFiles(F, tornEOF)
    /\ UNCHANGED <<attempt, finished>>

----

MergeInit ==
    /\ Init
    /\ merging = FALSE
    /\ mst = NoFile
    /\ mdir = NoFile
    /\ hint = NoFile
    /\ mergeFin = NoFile

MergeNext ==
    \/ \E t \in Threads :
         \/ "PutDelete" \in Calls[t] /\ PutDeleteStep(t) /\ UNCHANGED mergeVars
         \/ "Batch" \in Calls[t] /\ BatchStep(t) /\ UNCHANGED mergeVars
         \/ MergeBegin(t) \/ MergePrepare(t) \/ MergeScan(t) \/ MergeFinish(t)
    \/ MergeRestart

MergeSpec == MergeInit /\ [][MergeNext]_allVars

\* A goroutine inside Merge holds no lock after MergeBegin and waits on
\* nothing, so the Go scheduler keeps running it: weak fairness of its steps.
MergeFairSpec ==
    MergeSpec /\ \A t \in Threads : WF_allVars(MergePrepare(t) \/ MergeScan(t) \/ MergeFinish(t))

----
\* Properties
----

\* The temporary database of a finished merge only holds files with ids
\* below the frontier written to merge-finished: loadMergeFiles renames them
\* over ids it has just deleted and never over a data file written after
\* the merge began (Merge's rotation and frontier, mergeDB's own rotation).
MergeOutputBelowFrontier ==
    mdir # NoFile /\ mdir.fin # NoFile => \A f \in DOMAIN mdir.data : f < mdir.fin

\* Every Merge that sets isMerging ends and resets it (the defer in Merge,
\* on every return after the flag is set).
MergeEventuallyEnds == merging ~> ~merging

=============================================================================
