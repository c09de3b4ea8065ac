# TLA+ models of betadb

betadb is a Bitcask-style key/value engine written in Go. This directory holds TLA+ models of its
engine: what the engine promises (`KVStore`), how it keeps that promise (`BetaDB`), and merge with the
recovery of its output (`Merge`, composed with `BetaDB`), and the index snapshot iterators with the
readers built on them (`Iterator`), and the life of a directory under the persistent B+tree index across
processes, Close and crashes (`Lifecycle`). It also models
the Redis data-structure layer built on the engine: what it promises (`RedisSpec`) and how its
commands use the engine (`RedisDS`). It holds the TLC configurations that check both.

## The system

| Part | Source | What it does |
|---|---|---|
| Engine | `src/unnamed/part_001` (db.go) | Open/Close, Put, Delete, Get. `appendLogRecord` appends to the active data file and rotates it at `DataFileSize`. Recovery (`loadDataFiles`, `loadIndexFromDataFiles`) replays the files. It keeps `reclaimSize` and `seqNo`. |
| WriteBatch | `src/errors.go` (batch.go, lines 45-222) | Stages writes in `pendingWrites`. `Commit` draws a sequence number under `db.mu`, appends the records with seq-prefixed keys plus a `txn-fin` terminator, then updates the index. |
| Data files | `src/data/data_file.go`, `src/unnamed/part_006` (FileIO) | `Write` goes to the end of an `O_APPEND` file, then advances `WriteOffset`. `ReadLogRecord` decodes the header, reads key and value, checks the CRC, and returns `io.EOF` at the end of the file. |
| Log record codec | `src/unnamed/part_005` (log_record.go) | crc, type, varint sizes, key, value. |
| Indexes | `src/index/btree.go`, `src/unnamed/part_009` (ART), `part_010` (bbolt B+tree), `part_011` | Map from key to `LogRecordPos{Fid, Offset, Size}`. `Put` and `Delete` return the old entry. |
| Merge | `src/unnamed/part_000` (merge.go) | Rewrites the live records of the older files into a `-merge` directory with a hint file. `loadMergeFiles` swaps them in at the next Open. |
| Iterator | `src/iterator.go`, `src/index/btree.go` | `BTree.Iterator` copies the tree into a sorted array under the tree's own lock. `Rewind`, `Seek` (by `sort.Search`) and `Next` move over that copy, and the engine iterator's `skipToNext` passes over keys without the prefix. `ListKeys` and `Fold` (db.go) read the index through the same copy. |
| Lifecycle | `src/unnamed/part_001` (Open, Close, loadSeqNo), `part_010` (bbolt B+tree), `src/errors.go` (NewWriteBatch) | Open takes an flock on `fLock`, and with the B+tree index it loads `seqNo` from the `seq-no` file and deletes the file. Close writes `seq-no` when there is an activeFile, then (deferred) unlocks and closes the index. |
| Redis layer | `src/redis/types.go`, `metadata.go`, `strings.go`, `lists.go` (list and zset code), `sets.go`, `part_003` (hash), `part_002` (Del, Type) | String, List, Set, Hash and ZSet commands. Each container keeps a metadata record under the user key and one engine record per element under `key + version + part`. |
| Redis server | `src/redis/cmd/server.go` | A redcon server. It serves each connection on its own goroutine and calls the Redis layer with no lock. |
| HTTP server, examples | `part_006`, `src/examples` | Adapters over the engine API. |

How the parts interact:
- A write takes `db.mu`, encodes a record and appends it. It releases the lock, then updates the index and `reclaimSize`. For Put and Delete, these last two steps run outside the lock.
- A batch holds `db.mu` through all its appends and through its index update.
- Readers copy the index: `NewIterator` and `ListKeys` without `db.mu`, and `Fold` under its read side.
- Open replays every data file in ascending id order:
  - records with seq 0 go to the index at once;
  - batch records wait for their terminator;
  - `seqNo` becomes the largest seq seen;
  - the last file becomes the active file, and its `WriteOffset` is where the scan stopped.

## Modules

### `KVStore`: the abstract store

KVStore states what the engine promises, taken from `spec.md` (sections 4.5, 4.8 and 8):
- The store is a map.
- Each write (a Put, a Delete, or a committed batch) takes effect whole, at one step between its call and its return.
- A failed write takes no effect.
- A crash keeps every write that took effect. Of the writes in flight at the crash, any subset takes effect, each one whole.

### `BetaDB`: the engine

Every definition is listed in `PROJECT.json` under `map` with the lines it translates.

**State**
- `disk`: the data files. Each is a sequence of chunks: an intact record, or the torn prefix a failed write leaves behind.
- `active` and `writeOffset`: the active file.
- `index`, `reclaim` and `seqNo`.
- `lock`: the holder of `db.mu`, for the holders that take several steps.
- `pc`, `op` and `staged`: each goroutine's place in its call, its locals, and its `pendingWrites`.
- Ghost variables: `attempt` counts commit attempts; `finished` is the set of attempts whose terminator reached the file.

**Record sizes.** A value record is 2 abstract bytes. A tombstone or a terminator is 1. This is enough for rotation, offsets and reclaim accounting to differ between record types.

**Actions**

| Action | Code |
|---|---|
| `PutAppend` | `appendLogRecordWithLock` from `Put`, which succeeds or fails part-way |
| `PutIndex` | `index.Put`, plus the load half of `reclaimSize +=` |
| `AddReclaim` | The store half of that `+=`, in Put and Delete |
| `DeleteCheck` | The unlocked `index.Get` |
| `DeleteAppend`, `DeleteIndex` | The tombstone append and `index.Delete`, including `ErrIndexUpdateFailed` |
| `BatchPut`, `BatchDelete` | `WriteBatch.Put` and `WriteBatch.Delete` |
| `CommitBegin` | Lock and seq draw |
| `CommitAppend` | One record per step, in any order, since Go map order varies |
| `CommitFinish` | Terminator, index update, clear and unlock. On an error the lock is released and `pendingWrites` is kept. |
| `Restart` | A process crash followed by `Open` |

`Restart` is one step because nothing can run between the crash and the Open. It resets everything in memory and keeps the files: a process crash keeps the page cache. It then replays the files:
- `Recovered` is a RECURSIVE fold: `ReplayFiles` runs over the files and `ScanFile` over the chunks of each file.
- A torn chunk at the end of a file reads as `io.EOF`.
- A torn chunk with bytes after it is decoded together with them. The model lets it read as either `io.EOF` or `ErrInvalidCRC`, because the code's answer depends on the bytes. `ErrInvalidCRC` fails Open (`OpenFails`), and the engine stays closed.

**Refinement.** `Refinement == KV!Spec`, with this mapping:
- `kv` is what Get returns for each key (`KvView`).
- A goroutine's write is in flight (`InflightView`):
  - for a Put, from its append until its `index.Put`;
  - for a Delete, from its check until its `index.Delete`;
  - for a batch, from `CommitBegin` until its index update.

### `Merge`: merge composed with the engine

`Merge` EXTENDS `BetaDB`. Goroutine `t` makes the calls in `Calls[t]`: Put and Delete, WriteBatch, or Merge. The Put, Delete and WriteBatch steps are those of `BetaDB`.

**State added**
- `merging`: `db.isMerging`.
- `mst`: the merging goroutine's locals. These are the sorted files to merge, the file and record being read, the offset, and the frontier `nonMergeFileID`.
- `mdir`: the `-merge` directory. It holds the temporary database's data files, its hint file and its merge-finished record.
- `hint` and `mergeFin`: the data directory's `hint-index` and `merge-finished`, once renamed in.

**Actions**

| Action | Code (part_000, merge.go) |
|---|---|
| `MergeBegin` | Lines 32-104 under `db.mu`. It checks `isMerging` and the ratio (`RatioUnreached`, on `DirectorySize`), sets `isMerging`, rotates, records the frontier and snapshots the older files. An early return changes nothing, so it is no step. |
| `MergePrepare` | Lines 111-138. Remove and recreate the merge directory, and open the temporary database and the hint file. |
| `MergeScan` | One `ReadLogRecord` of lines 140-176. The unlocked `index.Get` decides liveness (`IsLiveRecord`). A live record is copied with seq 0 through the temporary database's own `appendLogRecord` (`MergeDBTarget`, `MergePos`), and a hint record is written. A torn record reads as `io.EOF` (next file) or, when bytes follow it, possibly as a CRC error that ends Merge. |
| `MergeFinish` | Lines 178-206. The syncs and the merge-finished record holding the frontier. The deferred reset of `isMerging` (`MergeAborts`) runs on every return. |
| `MergeRestart` | A crash followed by `Open` (`OpenFiles`). `loadMergeFiles` (`LoadMergeFiles`) deletes the files below the frontier and renames the merge entries in `os.ReadDir` order (`MergeEntries`). Then come `loadIndexFromHintFile` (`HintIndex`) and the replay of the files at or above the frontier. With `CrashInOpen`, a first Open may itself crash after any rename but the last, and the next Open starts from those files. |

The refinement mapping is BetaDB's. After a merge and a restart, Get reads through the hint file's positions into the renamed merged files.

### `RedisSpec`: what the Redis layer promises

`RedisSpec` maps each key to a typed value: a String (payload and expiry), a List (a sequence), a Set, or a Hash or ZSet (a function). Each command takes effect atomically in one `Apply` step between its `Invoke` and `Return`. `Exec` and `Typed` give each command's effect and result, using the results the Go functions return:
- an expired String reads as absent (`Live`);
- a command of the wrong type on a live value returns `WrongType`;
- an HGet or ZScore of a missing member of a non-empty container returns `NotFound`, and on an empty container returns nil or -1;
- SRem of a missing member returns `NotFound`, and on an empty set returns false;
- a container stays typed when its last element is removed.

`Clock` lets the clock advance at any step.

### `RedisDS`: the Redis layer over the engine

**State**
- `db` is the engine's content: a function from the keys present to their values. The engine is the atomic store that `KVStore` specifies, and `BetaDB` is checked to refine it. So a Get and a WriteBatch Commit are each one step here.
- `now` is `time.Now().UnixNano()`. It is used as the version of every new container.
- `pc`, `cmd`, `meta`, `got` and `ret` are each client goroutine's place in its command and its locals.
- Keys are tuples tagged by part: `ListKey`, `SetKey`, `HashKey`, `ZMemberKey`, `ZScoreKey`. The byte layouts are left out, so keys of different parts never collide.
- Metadata goes through `EncodeMeta` and `DecodeMetadata`. Only a list's encoding keeps head and tail, so a decoded non-list has head = tail = 0, as in the code.

**Actions.** Each command is the sequence of engine calls its Go function makes:
- `FindMetadata`: the Get of the user key, the type check, the expiry check, a new metadata record (version `now`) for an absent key, and the early return on size 0 for reads and pops.
- The element lookup: `PopGet`, `SAddGet`, `SIsMemberGet`, `SRemGet`, `HSetGet`, `HGetGet`, `HDelGet`, `ZAddGet`, `ZScoreGet`.
- The commit: `PushCommit`, `PopCommit`, `SAddCommit`, `SRemCommit`, `HSetCommit`, `HDelCommit`, `ZAddCommit`.
- `StringSet`, `StringGet` and `Del`, which take one engine call each.
- `Tick` advances the clock.

**Refinement.** `Refinement == R!Spec`, with this mapping:
- `StoreView` reads each key's metadata and collects the element records of its current version.
- A command is in flight from `Invoke` until its last engine call. `OpView` and `ResView` place its linearization point at that call.

### `Iterator`: the index, its iterators and the readers

`Iterator` stands alone. Its index is the `BTree`: a function from keys to values, where a value stands for the position of an immutable record. Keys are byte strings, sequences of small naturals. `Compare` is `bytes.Compare`, so that snapshot order, seek and prefix tests are those of the code.

**State**
- `tree`: the index.
- `mu`: the goroutine holding `db.mu`'s write side across a Commit.
- `op`: a Put or Delete between its append and its index update.
- `pend`, `done` and `old`: each goroutine's `pendingWrites`, and the keys the index loop of Commit has updated so far, with what they replaced.
- `it`: each goroutine's iterator, as `[vals, cur, reverse, prefix]`. `vals` is the copied array and `cur` is `currentIndex`.
- `lpc` and `lsnap`: ListKeys' place and its copy of the index.
- `folded`: the keys a running Fold visits. A Fold holds the read side, so a writer's append waits for it.
- Ghost variables:
  - `exp` and `seen`: what the iterator must yield since its last Rewind or Seek, and what it has yielded;
  - `views`: the index states, one with the running batch and one without it, that ListKeys could consistently return.

**Actions**

| Action | Code |
|---|---|
| `PutAppend`, `PutIndex` | `Database.Put`: the append under `db.mu`, then `index.Put` after the unlock |
| `DeleteAppend`, `DeleteIndex` | `Database.Delete`: the unlocked `index.Get`, the append under `db.mu`, then `index.Delete` |
| `BatchPut`, `BatchDelete` | `WriteBatch.Put`, `WriteBatch.Delete` (a key missing from the index only drops its staged write) |
| `CommitBegin`, `CommitIndex`, `CommitEnd` | `WriteBatch.Commit`: the checks on an empty or oversized batch, the appends under `db.mu`, one index update per key in map order, then the reset |
| `NewIterator` | `Database.NewIterator` and `BTree.Iterator`: the copy, with no `skipToNext` |
| `Rewind`, `Seek`, `IterNext`, `Close` | `Iterator.Rewind`, `Seek`, `Next` and `Close` over `bTreeIterator`; `IterNext` is the caller's `for ; Valid(); Next()` loop step |
| `ListKeysSnapshot`, `ListKeysCopy` | `Database.ListKeys`: the copy, then `make(.., Size())` and the copy loop. An index past the end is a panic, which ends the process |
| `FoldBegin`, `FoldEnd` | `Database.Fold`: the copy under the read side, then the visit and the unlock |

The appends are not modelled here, since `BetaDB` models them. The ART index is not modelled either.

### `Lifecycle`: the B+tree variant across processes, Close and crashes

`Lifecycle` is standalone. Its subject is what survives a process:
- the data log;
- the bbolt bucket, which is persistent, one transaction per key;
- the `seq-no` file and the `fLock` file;
- the two flocks, on `fLock` and on bbolt's own file.

A process's memory does not survive: `seqNo`, `seqNoFilesExists`, `isInitial`, `activeFile` and the staged batch. Each process runs one goroutine, because the goroutine interleavings are `BetaDB`'s subject. Positions are indices into the log, because rotation is `BetaDB`'s subject too.

**State**
- On disk: `dir`, `flockFile`, `log`, `bpt` and `seqFile`, where `seqFile` is absent, empty, or one record.
- Flock holders: `lock` and `bolt`.
- Per process: `pc`, `seqNo`, `sfe`, `isInitial`, `active`, `op` (index updates still to make) and `batch`.
- `before`: a ghost copy of the bucket at the start of Commit's index loop.

**Actions**

| Action | Code |
|---|---|
| `OpenLock` | `Open` up to the flock and `os.ReadDir`. Busy is a stuttering step. `isInitial` is set only for a missing directory, because `fLock` already exists when ReadDir runs. |
| `OpenLoad` = `NewIndexer` + `LoadDataFiles` + `LoadSeqNo` | the rest of `Open` with `IndexType = BPlusTree`; `bbolt.Open` waits for bbolt's flock |
| `OpenLoadFails` | `loadSeqNo` on an empty `seq-no` file: `ReadLogRecord` returns `io.EOF`, and Open returns without releasing either flock |
| `PutAppend`/`PutIndex`, `DeleteAppend`/`DeleteIndex` | `Database.Put`, `Database.Delete` over `BPlusTree.Put`/`Delete` (`BptApply`) |
| `NewWriteBatch`, `WriteBatchPanics` | `NewWriteBatch` with its staging; its panic kills the process |
| `CommitAppend`, `CommitIndex` | `WriteBatch.Commit`: seq, records and `txn-fin` under `db.mu`, then one bbolt transaction per key |
| `CloseBegin`, `CloseWrite`, `CloseUnlock`, `CloseIndex` | `Database.Close`: return at once without an activeFile, otherwise create `seq-no` and then write it; then the deferred `fileLock.Unlock` and `index.Close`, in that order |
| `Crash`, `Exit` | a process dies anywhere (bounded), or a process holding only the flocks of a failed Open exits; the kernel drops its flocks |

Refinement maps `Lifecycle` to `KVStore`, with processes as callers. Readers hold `db.mu`, and Commit holds it through its whole index loop. So a reader sees `before` until the last key is applied, and the batch takes effect at that step.

### `MC_Lifecycle`: the lifecycle instance

`MC_Lifecycle` has processes `p1` and `p2`, keys `k1` and `k2`, and one value. The runs use:
- `MaxLog = 5`: a Put, a two-key batch with its terminator, and one more record;
- `MaxCommits = 2`;
- `MaxCrashes = 2`.

Init allows the directory to be missing or to exist empty.

### `MC_BetaDB`: the model-checking instance

`MC_BetaDB` defines model values: keys `k1`, `k2`; values `v1`, `v2`; goroutines `t1`, `t2`. It also defines these assignments and constraints:
- `MC_KeysOf`: each goroutine gets its own key.
- `MC_SingleKeysOf`: one goroutine with both keys, so a batch spans two keys.
- `MC_FileBound`: the state constraint on file ids.
- `MC_FailBound`: additionally allows at most one torn fragment. Without it, failures could grow a file for ever, because a failed write does not advance `WriteOffset`.

### `MC_Merge`: the merge instance

`MC_Merge` reuses MC_BetaDB's model values. It adds these definitions:
- `MC_SoloAndBatch` and `MC_SplitKeys`: t1 calls Put, Delete and Merge in turn on k1, while t2 commits batches on k2.
- `MC_PutAndMerge` and `MC_PutKeys`: t1 calls Put and Delete on k1, while t2 merges.
- `MC_SoloCalls`: a single goroutine calls everything.
- `MC_MergeFileBound`: file ids 0..3. Each merge rotates once, so two merges and a batch rotation fit.

### `MC_Iterator`: the iterator instance

- Keys `<<0>>`, `<<0, 1>>` and `<<1>>`. In byte order `<<0>>` comes before `<<0, 1>>` because it is a proper prefix, and `<<0, 1>>` before `<<1>>` by the first byte.
- Prefixes `<<>>` (no filter) and `<<0, 1>>`. The latter is longer than the key `<<0>>`, is exactly the key `<<0, 1>>`, and differs from `<<1>>`.
- Seek keys `<<0, 1>>`, which equals a stored key when present and falls between `<<0>>` and `<<1>>` when absent, and `<<1, 5>>`, which is past the last key going forward and just after `<<1>>` going in reverse.
- Goroutines g1 and g2, and one value.
- `MC_WriterLists`: g1 writes, commits batches and lists keys; g2 iterates and folds.
- `MC_ListRace`: g1 writes and commits batches; g2 lists keys.

### `MC_RedisDS`: the Redis instance

It defines one key `k1`, elements `a` and `b`, clients `c1` and `c2`, and `MC_Bound`:
- the clock is at most 3;
- a list has at most 2 elements;
- head and tail drift at most 2 from `initialListMark`.

## Runs

The bounds for every run:
- `DataFileSize = 3`, so any two value records force a rotation.
- File ids 0..1 for the engine runs, and 0..3 for the merge runs.
- `MaxBatchNum = 2`.
- `MaxCommits` is the number of commit attempts.
- `MaxCrashes` is the number of restarts.

| Run | cfg | Expect | Checks |
|---|---|---|---|
| failed_write | `MC_failed_write.cfg` | violation | `IndexRecordValid` after a partial write. |
| merge | `MC_merge.cfg` | pass | `MergeFairSpec` with `MC_SoloAndBatch`, 1 value, ratio 0, 2 commits, 1 crash, file ids ≤ 3. Checks `MergeTypeOK`, `IndexRecordValid`, `CommittedOnly`, `SeqNoCoversLog`, `MergeOutputBelowFrontier`, `ReclaimNeverOverestimates`, `Refinement` and `MergeEventuallyEnds`. |
| merge_put_race | `MC_merge_put_race.cfg` | violation | `Refinement`: a Put concurrent with a Merge. |
| merge_rename_crash | `MC_merge_rename_crash.cfg` | violation | `IndexRecordValid`: one goroutine, and a crash inside `loadMergeFiles`. |
| iterator | `MC_iterator.cfg` | pass | `MC_WriterLists` with `MaxBatchNum = 2`. Checks `IterTypeOK` and `IteratorComplete`. |
| listkeys_race | `MC_listkeys_race.cfg` | violation | `ListKeysConsistent`: `MC_ListRace`. |
| lifecycle | `MC_lifecycle.cfg` | pass | `MC_Lifecycle` with `CrashInCommit = FALSE`. Checks `TypeOK` and `Refinement`. |
| bptree_batch_crash | `MC_bptree_batch_crash.cfg` | violation | `Refinement`: the same instance with `CrashInCommit = TRUE`. |
| seqno_reuse | `MC_seqno_reuse.cfg` | violation | `BatchSeqsIncrease`: the lifecycle instance. |

The Redis runs use one key, elements {a, b}, scores {1, 2} and `initialListMark = 0`:

| Run | cfg | Expect | Checks |
|---|---|---|---|
| redis_lists | `MC_redis_lists.cfg` | pass | One client running LPush, RPush, LPop, RPop, Set, Get and Del. Checks `MetadataConsistent` and `Refinement`. |
| redis_collections | `MC_redis_collections.cfg` | pass | One client running the Set, Hash and ZSet commands, and Del. Checks `TypeOK`, `MetadataConsistent`, `ZScoreIndexExact` and `Refinement`. |
| list_race | `MC_list_race.cfg` | violation | `MetadataConsistent`: two clients running LPush and LPop. |

What the runs show:
- **failed_write (code bug).** `DataFile.Write` (data_file.go:155) returns before advancing `WriteOffset` after a partial write. The file is `O_APPEND`, so the next record lands after the torn bytes but is indexed at the stale offset. Get then reads a torn or foreign record. The same misalignment also makes `SeqNoCoversLog` and `CommittedOnly` fail, so no passing run enables failed writes.
- **merge.** A crash may come anywhere: mid-scan, after merge-finished, or after a completed Open. The merged files always stay below the frontier. The hint file plus the files at or above the frontier rebuild an index that points only at intact records, and a batch copied with seq 0 is never buffered. `reclaimSize` never claims more than the garbage. The engine still refines `KVStore`. Every merge ends and clears `isMerging`.
- **merge_put_race (code bug).** TLC's trace runs as follows:
  1. t1's Put appends k1 to file 0.
  2. t2's Merge rotates and scans file 0. The index does not yet point at the record, so it is not copied.
  3. Merge writes merge-finished, and t1's `index.Put` returns.
  4. After a restart, `loadMergeFiles` deletes file 0, and k1 is gone. spec.md section 8 says values are invariant under any number of merges.

  The cause is the unlocked index update of Put (part_001:311) meeting the unlocked `index.Get` of Merge (part_000:155-159).
- **merge_rename_crash (code bug).** An Open renames the merged `000000000.data` and `hint-index` into the data directory, then crashes before renaming `merge-finished`. The next Open again deletes the data files below the frontier (part_000:262-271). Those are now the merged files. It then loads the hint file that points into them.
- **iterator.** Iterators run while the other goroutine writes and commits batches. From any Rewind or Seek, forward or reverse, with or without the prefix, the iterator yields exactly the copied keys that carry the prefix, from the sought key on, in byte order and each once; when `Valid` turns false it has yielded all of them. The reference `Expected` states that order without `bytes.Compare` or `sort.Search`. A seek key equal to a stored key separates Seek's `>=` (`<=` in reverse) from a strict comparison. Fold's actions run in this run too; that Fold sees whole batches follows from `FoldBegin`'s guard on `db.mu` alone, so no property states it.
- **listkeys_race (code bug).** `ListKeys` (part_001:380-393) takes no lock. It copies the index, then sizes its result with a second read, `db.index.Size()`. TLC's shortest trace is a Put landing between the two reads: ListKeys of an empty index returns `[nil]`. With the same configuration, TLC also finds:
  - a Delete between the two reads, which makes `keys[idx]` index out of range, a panic;
  - a copy taken between two of Commit's index updates (errors.go:181-196), which returns half a batch.

  spec.md section 5 says readers hold the read side during `listKeys`. `NewIterator` takes the same lockless copy (iterator.go:29), so an iterator can also start on half a batch.

- **lifecycle.** Two processes open one directory in turn. Each may crash (twice in all) anywhere except inside Commit's index loop, or panic in NewWriteBatch. What the TLC run shows:
  - Every Put, Delete and batch takes effect whole, as the next process reads it.

  The run also reaches two states that no property here rules out (see hazards):
  - the empty `seq-no` file that makes every later Open fail;
  - NewWriteBatch's panic on a database that never had a batch.
- **bptree_batch_crash (code bug).** TLC's 7-state trace:
  1. Open a fresh directory.
  2. Commit a two-key batch. Its records and `txn-fin` reach the log.
  3. `index.Put(k1)` commits its own bbolt transaction.
  4. The process dies.

  Every later Open reads k1 and not k2, because the B+tree variant never replays the log (part_001:151). spec.md section 4.8 derives atomicity from the terminator plus the replay.
- **seqno_reuse (code bug).** TLC's trace:
  1. A batch takes seq 1.
  2. The process crashes.
  3. Open finds no `seq-no`, so `seqNo` is 0.
  4. Close writes `seq.no = 0`, since `activeFile` is set.
  5. The next Open loads 0 with `seqNoFilesExists`, so NewWriteBatch does not panic, and Commit takes seq 1 again.

  The B+tree variant never reads seqs back. The reuse surfaces when the files are replayed, for instance after opening with an in-memory index. There an orphaned batch of the first seq 1 would complete with the second one's terminator.
- **redis_lists and redis_collections.** Run one command at a time, every command refines `RedisSpec`:
  - a list's `[head, tail)` holds exactly its element records;
  - the size of a set, hash or zset equals its member count;
  - a zset's score index holds one entry per member, at its current score.
- **list_race (code bug).** `innerPush` and `innerPop` read the metadata and commit the new metadata in a later batch with no lock (lists.go:83, 159). An LPop that commits between an LPush's read and commit is undone: the list's `[head, tail)` then contains a deleted index. From then on LPop returns `ErrKeyNotFound` while the size stays non-zero. The same race makes two LPUSHes lose an element, and the server runs connections concurrently.

Why these bounds are enough:
- Two value records force a rotation.
- One crash can land inside any multi-step call.
- Two commits are enough for an orphan batch followed by a reused seq.
- Two keys per batch are enough for a partial batch.
- For merge, 4 file ids allow these cases:
  - a merge of files written by both goroutines;
  - a batch rotating during the merge;
  - a second merge that re-merges the first one's output.

  One value is enough because Put against Delete and present against absent are what distinguish a lost record. A second value made the state space grow past 340,000 states without adding a case.

- For Redis: two elements are enough for a hole, a member that is present next to one that is missing, and a zset score change. Two clients are enough for every lost update. Lists drift 2 each way, so a pop from either end reaches every index.

- For the lifecycle: two processes are enough for a busy Open, a leaked flock and the window between Close's Unlock and `index.Close`. Two keys make half a batch. Two crashes allow one to lose `seqNo` and one to land in a second Close or Open. `MaxLog = 5` holds a Put and then a two-key batch, or two one-key batches.

- For the iterator: three keys give a proper-prefix pair and a first-byte difference. Two seek keys land on a key, between keys and past the end. Two keys per batch are enough for half a batch.

Each passing run finishes in under 3 minutes with coverage.

Seven runs were dropped to keep the set of runs small:
- **shared_keys.** It showed two Puts of one key indexing the older record, because Put updates the index after releasing `db.mu` (part_001:311). merge_put_race still shows this unlocked update, there against Merge.
- **reclaim_race.** It showed `reclaimSize +=` losing updates outside the lock (part_001:312, 342, 352). That is a plain data race, which the Go race detector reports.
- **write_failures.** It checked reclaim under partial writes. Torn chunks are still exercised by the failed_write violation.
- **redis_strings.** It checked String expiry on its own. It cannot be folded into the list or collection runs, because there a ttl meets the expired_wrongtype bug below.
- **partitioned and batches.** They checked the engine alone. `merge` checks all of their properties (with `ReclaimNeverOverestimates` moved into it) over the same actions. That run also has two goroutines, batches, rotations and a crash.
- **expired_wrongtype.** It showed a code bug: `findMetadata` checks the type before the expiry (types.go:69). An expired String therefore makes LPush, SAdd, HSet and ZAdd fail with WRONGTYPE, although Get reports the key as absent. `RedisDS` still models that order. A two-step unit test reaches it, unlike the lifecycle bugs that took its place.

## Fairness

The engine's calls are driven by callers, so nothing obliges a caller to start one, and no fairness is assumed for Put, Delete, batches, Merge's start or crashes. The `Iterator` and `Lifecycle` runs check safety only and assume no fairness.

Once `Merge` has released `db.mu`, it runs on its caller's goroutine without waiting on any lock or channel, up to its return. `MergeFairSpec` therefore assumes weak fairness of each goroutine's `MergePrepare`, `MergeScan` and `MergeFinish`, which is what the Go scheduler gives a runnable goroutine.

`MergeEventuallyEnds` (`merging ~> ~merging`) then says that every merge ends and clears `isMerging`: by its return and the deferred reset, or by a crash. Without the defer (mutant `MergeAbortsKeepsMerging`), `isMerging` stays set and every later Merge returns `ErrMergeIsInProgress`.

## Not modelled, and why

- **Sync, `bytesPerSync` and power loss.** Only process crashes are modelled, and they keep the page cache. Power loss is planned.
- **Varint and CRC encoding.** Only sizes and the intact/torn/corrupt distinction are modelled. The codec is planned as pure operators checked against a reference.
- **Index internals.** The index is a function, and `Iterator` adds its order and its iterators. The unlocked read in `BTree.Get` is a data race below this level. The ART index has the same contract and is not modelled separately.
- **`Iterator.Value`, `Stat` and `Backup`.** `Value` resolves a position through `getValueByPosition`, which `BetaDB` models. `Stat` and `Backup` change no state.
- **Redis `Type`, byte layouts and clock repeats.** `Type` changes no state. Key and metadata byte layouts are abstracted, so internal keys of two parts, or of two user keys, never collide. `time.Now` never repeats a version, so a stale element of an earlier container never reappears under the same version.
- **Redis commit failures.** The engine is taken as the atomic store of `KVStore`. Its partial writes are modelled in `BetaDB` (see failed_write), not again here.
- **The Redis server's close callback** (server.go:70). It closes every db when any one connection closes. This is a lifecycle issue between connections and the engine's Close, and is listed as a hazard.
- **Merge's disk-space check and I/O errors.** `AvailableDiskSize` is an environment query. A failing check, like any I/O error other than a torn record, returns before any state change, so it is no step.
- **Merge of a B+tree index.** `Lifecycle` has no Merge, and `Merge` uses the in-memory index, so the `bptree-index` rename is in neither.
- **The bbolt iterator and `Size`.** They hold a read transaction and change nothing.
- **Changing `IndexType` between Opens.** A B+tree bucket is stale after an Open with another index, and an in-memory Open replays seqs that the B+tree variant may have reused. Each index type is modelled on its own.
- **What the passing runs leave unexercised.** The merge run keeps `FailWrites = FALSE`, because failing writes already break `IndexRecordValid` (the failed_write finding); a Commit retried after an append error is therefore not checked by a passing run. The Redis passing runs use one client and check sequential behaviour; the two-client race is run for lists only (list_race). `ReclaimNeverOverestimates` bounds `reclaimSize` from above, so the lost `reclaimSize +=` updates, which only lower it, are not caught.
- **Out of scope.** The HTTP server and the examples are adapters with no concurrency of their own. `CopyDirectory` serves Backup, which is not modelled.

## Plan

Modules, in order:
1. `KVStore`, `BetaDB` and `MC_BetaDB`: the engine core. Done.
2. `Merge`, composed with `BetaDB`. Done.
3. `Lifecycle`: the bbolt index variant, `loadSeqNo`, Close's seq-no record, NewWriteBatch's panic, and the directory lock. Done. Merge with the B+tree remains open.
4. `Codec`: varint and `EncodeLogRecord`/`decodeLogRecordHeader` as operators, checked against a reference definition over bounded inputs.
5. `Iterator`: prefix, seek and reverse over an index snapshot, checked against a reference, with ListKeys and Fold. Done.
6. `DirLock`: the flocks across Open, Close, a failed Open and a crash. Done, inside `Lifecycle`; the flock is an atomic test-and-set, so exclusivity holds by construction and is not stated as a property.
7. `RedisSpec` and `RedisDS`: the Redis layer. Done.
