------------------------------- MODULE Iterator -------------------------------
\* The B-tree index (index/btree.go), its snapshot iterator, the engine
\* iterator with its prefix filter (iterator.go) and ListKeys (db.go), with
\* the writers that change the index: the index.Put and index.Delete of Put
\* and Delete, and the index loop of WriteBatch.Commit.
\*
\* Keys are byte strings (sequences of small naturals) so that the order of
\* bytes.Compare, prefixes and seeks are those of the code.  A position is
\* abstracted to the value of the immutable record it names.
EXTENDS Integers, Sequences, FiniteSets, SequencesExt

CONSTANTS
    Keys,          \* the user keys: non-empty byte strings
    Vals,          \* values
    Goroutines,
    Calls,         \* Calls[g] \subseteq {"Write", "Batch", "Iterate", "List", "Fold"}
    IterPrefixes,  \* IteratorOptions.Prefix values
    SeekKeys,      \* keys passed to Seek
    MaxBatchNum,   \* WriteBatchOptions.MaxBatchNum
    NoVal, NoIter, NoThread

ASSUME Calls \in [Goroutines -> SUBSET {"Write", "Batch", "Iterate", "List", "Fold"}]

\* The nil []byte that make([][]byte, n) leaves in an unfilled slot; the
\* engine never stores an empty key (ErrKeyIsEmpty).
NilKey == <<>>

VARIABLES
    tree,     \* the google/btree: each key's position, or NoVal
    mu,       \* the holder of db.mu's write side across Commit, or NoThread
    op,       \* each goroutine's Put or Delete between append and index update
    pend,     \* each goroutine's WriteBatch.pendingWrites
    done,     \* the keys Commit's index loop has updated so far
    old,      \* the entries those updates replaced
    it,       \* each goroutine's open Iterator, or NoIter
    exp,      \* ghost: what the iterator must yield since Rewind/Seek
    seen,     \* ghost: the keys it has yielded since
    lpc,      \* each goroutine's place in ListKeys
    lsnap,    \* ListKeys' index iterator
    folded,   \* the keys a running Fold visits (it holds db.mu's read side)
    views     \* ghost: the index states ListKeys may consistently see

vars == <<tree, mu, op, pend, done, old, it, exp, seen, lpc, lsnap, folded, views>>

\* An entry of pendingWrites: a value, a tombstone, or no entry.
Staged == Vals \cup {"tomb", "none"}
NoOp == [kind |-> "none", key |-> NilKey, val |-> NoVal]

----
\* Byte strings (bytes.Compare) and the index (btree.go)
----

\* bytes.Compare: -1, 0 or 1 by the first differing byte, a proper prefix
\* sorting first.
RECURSIVE Compare(_, _)
Compare(a, b) ==
    CASE a = <<>> /\ b = <<>> -> 0
      [] a = <<>>             -> -1
      [] b = <<>>             -> 1
      [] Head(a) < Head(b)    -> -1
      [] Head(a) > Head(b)    -> 1
      [] OTHER                -> Compare(Tail(a), Tail(b))

\* Item.Less.
Less(x, y) == Compare(x.key, y.key) = -1

Present(t) == {k \in Keys : t[k] # NoVal}

\* BTree.Size: tree.Len().
Size(t) == Cardinality(Present(t))

\* BTree.Iterator(reverse) and newBTreeIterator: every item, copied into an
\* array by tree.Ascend, or tree.Descend when reverse.
Snapshot(t, reverse) ==
    LET items == {[key |-> k, val |-> t[k]] : k \in Present(t)}
    IN IF reverse THEN SetToSortSeq(items, LAMBDA x, y : Less(y, x))
       ELSE SetToSortSeq(items, Less)

\* Bug variant: the predicate is strict, so Seek skips an equal key.
SeekPredStrict(vals, reverse, key, i) ==
    IF reverse THEN Compare(vals[i + 1].key, key) < 0
    ELSE Compare(vals[i + 1].key, key) > 0

\* The predicate bTreeIterator.Seek hands to sort.Search: the key at
\* 0-based index i is >= key, or <= key when reverse.
SeekPred(vals, reverse, key, i) ==
    IF reverse THEN Compare(vals[i + 1].key, key) <= 0
    ELSE Compare(vals[i + 1].key, key) >= 0

\* sort.Search over [i, j): the halving loop of the Go library.
RECURSIVE SortSearch(_, _, _, _, _)
SortSearch(vals, reverse, key, i, j) ==
    IF i >= j THEN i
    ELSE LET h == (i + j) \div 2
         IN IF ~SeekPred(vals, reverse, key, h)
            THEN SortSearch(vals, reverse, key, h + 1, j)
            ELSE SortSearch(vals, reverse, key, i, h)

\* Bug variant: Seek starts after the position found.
SeekIndexAfter(vals, reverse, key) == SortSearch(vals, reverse, key, 0, Len(vals)) + 1

\* bTreeIterator.Seek: the first position whose key is >= key (<= key when
\* reverse), or len(values).
SeekIndex(vals, reverse, key) == SortSearch(vals, reverse, key, 0, Len(vals))

----
\* The engine iterator (iterator.go)
----

\* The prefix test of skipToNext.
HasPrefix(key, prefix) ==
    Len(prefix) <= Len(key) /\ Compare(prefix, SubSeq(key, 1, Len(prefix))) = 0

\* skipToNext: with a prefix, advance while Valid and the key lacks it.
RECURSIVE SkipToNext(_, _, _)
SkipToNext(vals, i, prefix) ==
    IF Len(prefix) = 0 \/ i >= Len(vals) \/ HasPrefix(vals[i + 1].key, prefix) THEN i
    ELSE SkipToNext(vals, i + 1, prefix)

Valid(r) == r.cur < Len(r.vals)
Key(r) == r.vals[r.cur + 1].key

----
\* What an iterator must yield: spec.md section 8, iterator completeness
----

\* Byte-wise order, stated without bytes.Compare.
ByteBefore(a, b) ==
    \/ IsStrictPrefix(a, b)
    \/ \E i \in 1..Len(a) :
         i <= Len(b) /\ SubSeq(a, 1, i - 1) = SubSeq(b, 1, i - 1) /\ a[i] < b[i]

\* The keys of the snapshot that begin with the prefix, from the sought key
\* on (NoIter: from the start), in ascending or, when reverse, descending
\* order, each once.
Expected(r, from) ==
    LET ks == {r.vals[i].key : i \in DOMAIN r.vals}
        inRange(k) == from = NoIter \/ k = from
                      \/ (IF r.reverse THEN ByteBefore(k, from) ELSE ByteBefore(from, k))
        sel == {k \in ks : IsPrefix(r.prefix, k) /\ inRange(k)}
    IN IF r.reverse THEN SetToSortSeq(sel, LAMBDA a, b : ByteBefore(b, a))
       ELSE SetToSortSeq(sel, ByteBefore)

----
\* Batches and what readers may see of them
----

Applied(s) == IF s = "tomb" THEN NoVal ELSE s

\* The index with Commit's updates so far undone, and with all of them done.
BeforeView(w) == [k \in Keys |-> IF k \in done[w] THEN old[w][k] ELSE tree[k]]
AfterView(w) ==
    [k \in Keys |-> IF pend[w][k] # "none" /\ k \notin done[w]
                    THEN Applied(pend[w][k]) ELSE tree[k]]

\* The index as a reader may see it: a Commit is whole or absent.
ConsistentViews ==
    IF mu = NoThread THEN {tree} ELSE {BeforeView(mu), AfterView(mu)}

SortedKeys(t) == SetToSortSeq(Present(t), LAMBDA a, b : Compare(a, b) = -1)

----
\* Actions
----

\* A panic ends the process.
Panicked == \E g \in Goroutines : lpc[g] = "panicked"

Idle(g) == ~Panicked /\ op[g] = NoOp /\ lpc[g] = "idle" /\ mu # g /\ folded[g] = NoIter

\* db.mu's write side is free: no Commit holds it and no Fold reads.
WriteLockFree == mu = NoThread /\ \A g \in Goroutines : folded[g] = NoIter

\* Database.Put: the append under db.mu ...
PutAppend(g, k, v) ==
    /\ "Write" \in Calls[g] /\ Idle(g) /\ WriteLockFree
    /\ op' = [op EXCEPT ![g] = [kind |-> "put", key |-> k, val |-> v]]
    /\ UNCHANGED <<tree, mu, pend, done, old, it, exp, seen, lpc, lsnap, folded, views>>

\* ... then index.Put after the unlock (BTree.Put: ReplaceOrInsert).
PutIndex(g) ==
    /\ ~Panicked
    /\ op[g].kind = "put"
    /\ tree' = [tree EXCEPT ![op[g].key] = op[g].val]
    /\ op' = [op EXCEPT ![g] = NoOp]
    /\ UNCHANGED <<mu, pend, done, old, it, exp, seen, lpc, lsnap, folded, views>>

\* Database.Delete: a key the unlocked index.Get finds is tombstoned under
\* db.mu; a missing key returns at once.
DeleteAppend(g, k) ==
    /\ "Write" \in Calls[g] /\ Idle(g) /\ WriteLockFree
    /\ tree[k] # NoVal
    /\ op' = [op EXCEPT ![g] = [kind |-> "del", key |-> k, val |-> NoVal]]
    /\ UNCHANGED <<tree, mu, pend, done, old, it, exp, seen, lpc, lsnap, folded, views>>

\* ... then index.Delete (a key gone meanwhile is ErrIndexUpdateFailed).
DeleteIndex(g) ==
    /\ ~Panicked
    /\ op[g].kind = "del"
    /\ tree' = [tree EXCEPT ![op[g].key] = NoVal]
    /\ op' = [op EXCEPT ![g] = NoOp]
    /\ UNCHANGED <<mu, pend, done, old, it, exp, seen, lpc, lsnap, folded, views>>

\* WriteBatch.Put.
BatchPut(g, k, v) ==
    /\ "Batch" \in Calls[g] /\ Idle(g)
    /\ pend' = [pend EXCEPT ![g][k] = v]
    /\ UNCHANGED <<tree, mu, op, done, old, it, exp, seen, lpc, lsnap, folded, views>>

\* WriteBatch.Delete: a key the index lacks only loses its pending write.
BatchDelete(g, k) ==
    /\ "Batch" \in Calls[g] /\ Idle(g)
    /\ pend' = [pend EXCEPT ![g][k] = IF tree[k] = NoVal THEN "none" ELSE "tomb"]
    /\ UNCHANGED <<tree, mu, op, done, old, it, exp, seen, lpc, lsnap, folded, views>>

Pending(g) == {k \in Keys : pend[g][k] # "none"}

\* WriteBatch.Commit: an empty batch, or one over MaxBatchNum, returns
\* before db.mu; otherwise the records and the finish record are appended
\* under db.mu, which stays held through the index loop.
CommitBegin(g) ==
    /\ "Batch" \in Calls[g] /\ Idle(g)
    /\ Pending(g) # {}
    /\ IF Cardinality(Pending(g)) > MaxBatchNum
       THEN UNCHANGED <<mu, done>>
       ELSE /\ WriteLockFree
            /\ mu' = g
            /\ done' = [done EXCEPT ![g] = {}]
    /\ UNCHANGED <<tree, op, pend, old, it, exp, seen, lpc, lsnap, folded, views>>

\* One turn of the index loop, in map order: index.Put or index.Delete.
CommitIndex(g, k) ==
    /\ ~Panicked
    /\ mu = g
    /\ k \in Pending(g) \ done[g]
    /\ tree' = [tree EXCEPT ![k] = Applied(pend[g][k])]
    /\ done' = [done EXCEPT ![g] = @ \cup {k}]
    /\ old' = [old EXCEPT ![g][k] = tree[k]]
    /\ UNCHANGED <<mu, op, pend, it, exp, seen, lpc, lsnap, folded, views>>

\* The loop ends: pendingWrites is cleared and db.mu released.
CommitEnd(g) ==
    /\ ~Panicked
    /\ mu = g
    /\ done[g] = Pending(g)
    /\ mu' = NoThread
    /\ pend' = [pend EXCEPT ![g] = [k \in Keys |-> "none"]]
    /\ done' = [done EXCEPT ![g] = {}]
    /\ old' = [old EXCEPT ![g] = [k \in Keys |-> NoVal]]
    /\ UNCHANGED <<tree, op, it, exp, seen, lpc, lsnap, folded, views>>

\* Database.NewIterator: BTree.Iterator copies the tree under its own read
\* lock; db.mu is not taken and skipToNext is not called.
NewIterator(g, reverse, prefix) ==
    /\ "Iterate" \in Calls[g] /\ Idle(g) /\ it[g] = NoIter
    /\ it' = [it EXCEPT ![g] = [vals |-> Snapshot(tree, reverse), cur |-> 0,
                                reverse |-> reverse, prefix |-> prefix]]
    /\ exp' = [exp EXCEPT ![g] = NoIter]
    /\ seen' = [seen EXCEPT ![g] = <<>>]
    /\ UNCHANGED <<tree, mu, op, pend, done, old, lpc, lsnap, folded, views>>

Opened(g) == "Iterate" \in Calls[g] /\ Idle(g) /\ it[g] # NoIter

\* Iterator.Rewind: currentIndex 0, then skipToNext.
Rewind(g) ==
    /\ Opened(g)
    /\ it' = [it EXCEPT ![g].cur = SkipToNext(it[g].vals, 0, it[g].prefix)]
    /\ exp' = [exp EXCEPT ![g] = Expected(it[g], NoIter)]
    /\ seen' = [seen EXCEPT ![g] = <<>>]
    /\ UNCHANGED <<tree, mu, op, pend, done, old, lpc, lsnap, folded, views>>

\* Iterator.Seek: sort.Search over the snapshot, then skipToNext.
Seek(g, key) ==
    /\ Opened(g)
    /\ it' = [it EXCEPT ![g].cur =
                 SkipToNext(it[g].vals, SeekIndex(it[g].vals, it[g].reverse, key), it[g].prefix)]
    /\ exp' = [exp EXCEPT ![g] = Expected(it[g], key)]
    /\ seen' = [seen EXCEPT ![g] = <<>>]
    /\ UNCHANGED <<tree, mu, op, pend, done, old, lpc, lsnap, folded, views>>

\* Iterator.Next inside the caller's `for ; it.Valid(); it.Next()` loop,
\* having read it.Key(): currentIndex + 1, then skipToNext.
IterNext(g) ==
    /\ Opened(g) /\ exp[g] # NoIter
    /\ Valid(it[g])
    /\ it' = [it EXCEPT ![g].cur = SkipToNext(it[g].vals, it[g].cur + 1, it[g].prefix)]
    /\ seen' = [seen EXCEPT ![g] = Append(@, Key(it[g]))]
    /\ UNCHANGED <<tree, mu, op, pend, done, old, exp, lpc, lsnap, folded, views>>

\* Iterator.Close: the snapshot is dropped.
Close(g) ==
    /\ Opened(g)
    /\ it' = [it EXCEPT ![g] = NoIter]
    /\ exp' = [exp EXCEPT ![g] = NoIter]
    /\ seen' = [seen EXCEPT ![g] = <<>>]
    /\ UNCHANGED <<tree, mu, op, pend, done, old, lpc, lsnap, folded, views>>

\* Database.ListKeys takes no db.mu: it copies the index ...
ListKeysSnapshot(g) ==
    /\ "List" \in Calls[g] /\ Idle(g)
    /\ lsnap' = [lsnap EXCEPT ![g] = Snapshot(tree, FALSE)]
    /\ views' = [views EXCEPT ![g] = ConsistentViews]
    /\ lpc' = [lpc EXCEPT ![g] = "size"]
    /\ UNCHANGED <<tree, mu, op, pend, done, old, it, exp, seen, folded>>

\* ... sizes keys by a second, unlocked db.index.Size(), and copies the
\* snapshot into it: keys[idx] past the end panics, and a longer keys keeps
\* nil entries at its end.
ListKeysResult(snap, n) == [i \in 1..n |-> IF i <= Len(snap) THEN snap[i].key ELSE NilKey]

ListKeysCopy(g) ==
    /\ ~Panicked
    /\ lpc[g] = "size"
    /\ lpc' = [lpc EXCEPT ![g] = IF Len(lsnap[g]) > Size(tree) THEN "panicked" ELSE "idle"]
    /\ lsnap' = [lsnap EXCEPT ![g] = <<>>]
    /\ views' = [views EXCEPT ![g] = {}]
    /\ UNCHANGED <<tree, mu, op, pend, done, old, it, exp, seen, folded>>

\* Database.Fold: under db.mu's read side the index is copied ...
FoldBegin(g) ==
    /\ "Fold" \in Calls[g] /\ Idle(g) /\ mu = NoThread
    /\ folded' = [folded EXCEPT ![g] = LET snap == Snapshot(tree, FALSE)
                                        IN [i \in 1..Len(snap) |-> snap[i].key]]
    /\ UNCHANGED <<tree, mu, op, pend, done, old, it, exp, seen, lpc, lsnap, views>>

\* ... and the read side is released when the visit ends.
FoldEnd(g) ==
    /\ ~Panicked
    /\ folded[g] # NoIter
    /\ folded' = [folded EXCEPT ![g] = NoIter]
    /\ UNCHANGED <<tree, mu, op, pend, done, old, it, exp, seen, lpc, lsnap, views>>

----
\* Specification
----

Init ==
    /\ tree = [k \in Keys |-> NoVal]
    /\ mu = NoThread
    /\ op = [g \in Goroutines |-> NoOp]
    /\ pend = [g \in Goroutines |-> [k \in Keys |-> "none"]]
    /\ done = [g \in Goroutines |-> {}]
    /\ old = [g \in Goroutines |-> [k \in Keys |-> NoVal]]
    /\ it = [g \in Goroutines |-> NoIter]
    /\ exp = [g \in Goroutines |-> NoIter]
    /\ seen = [g \in Goroutines |-> <<>>]
    /\ lpc = [g \in Goroutines |-> "idle"]
    /\ lsnap = [g \in Goroutines |-> <<>>]
    /\ folded = [g \in Goroutines |-> NoIter]
    /\ views = [g \in Goroutines |-> {}]

Next ==
    \E g \in Goroutines :
         \/ \E k \in Keys, v \in Vals : PutAppend(g, k, v) \/ BatchPut(g, k, v)
         \/ \E k \in Keys : DeleteAppend(g, k) \/ BatchDelete(g, k) \/ CommitIndex(g, k)
         \/ PutIndex(g) \/ DeleteIndex(g)
         \/ CommitBegin(g) \/ CommitEnd(g)
         \/ \E rev \in BOOLEAN, pfx \in IterPrefixes : NewIterator(g, rev, pfx)
         \/ Rewind(g) \/ IterNext(g) \/ Close(g)
         \/ \E key \in SeekKeys : Seek(g, key)
         \/ ListKeysSnapshot(g) \/ ListKeysCopy(g)
         \/ FoldBegin(g) \/ FoldEnd(g)

Spec == Init /\ [][Next]_vars

----
\* Properties
----

IterTypeOK ==
    /\ tree \in [Keys -> Vals \cup {NoVal}]
    /\ mu \in Goroutines \cup {NoThread}
    /\ pend \in [Goroutines -> [Keys -> Staged]]
    /\ \A g \in Goroutines :
         /\ done[g] \subseteq Keys
         /\ it[g] # NoIter => it[g].cur \in 0..Len(it[g].vals)
         /\ lpc[g] \in {"idle", "size", "panicked"}

\* Iterator completeness (spec.md section 8): after Rewind or Seek, the keys
\* Next walks past, then the current key, run along exactly the snapshot's
\* keys with the prefix, from the sought key on, in byte order (descending
\* when reverse), each once; when Valid turns false all of them were seen.
\* It is about the sort.Search predicates of bTreeIterator.Seek and the
\* prefix test and loop of Iterator.skipToNext.
IteratorComplete ==
    \A g \in Goroutines :
        it[g] # NoIter /\ exp[g] # NoIter =>
            IF Valid(it[g]) THEN IsPrefix(seen[g] \o <<Key(it[g])>>, exp[g])
            ELSE seen[g] = exp[g]

\* ListKeys does not panic, and returns the keys of one index state in
\* which every WriteBatch is committed whole or not at all (spec.md section
\* 5: readers hold the read side during listKeys).  ListKeys takes no lock
\* and reads the index twice, by Iterator and by Size.
ListKeysConsistent ==
    [][\A g \in Goroutines :
         lpc[g] = "size" /\ lpc'[g] # "size" =>
             /\ lpc'[g] = "idle"
             /\ \E v \in views[g] : ListKeysResult(lsnap[g], Size(tree)) = SortedKeys(v)]_vars

====
