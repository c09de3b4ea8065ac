----------------------------- MODULE MC_Iterator -----------------------------
\* Instances of Iterator: three keys whose byte order mixes a prefix pair
\* (<<0>> before <<0, 1>>) with a first-byte difference, a seek key equal
\* to a stored key (and between the others when that key is absent), one
\* beyond every key, and a prefix longer than one key that matches another.
EXTENDS Iterator

CONSTANTS g1, g2, v1

MC_Keys == {<<0>>, <<0, 1>>, <<1>>}
MC_Vals == {v1}
MC_Goroutines == {g1, g2}
MC_Prefixes == {<<>>, <<0, 1>>}
MC_SeekKeys == {<<0, 1>>, <<1, 5>>}

\* Writes, batches and ListKeys on one goroutine; iterators and Fold on the
\* other.
MC_WriterLists == (g1 :> {"Write", "Batch", "List"}) @@ (g2 :> {"Iterate", "Fold"})

\* Writes and batches on one goroutine; ListKeys on the other.
MC_ListRace == (g1 :> {"Write", "Batch"}) @@ (g2 :> {"List"})
====
