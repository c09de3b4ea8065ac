------------------------------ MODULE MC_BetaDB ------------------------------
(* Instantiates BetaDB for TLC: two goroutines, each writing its own keys.  *)
EXTENDS BetaDB

CONSTANTS k1, k2, v1, v2, t1, t2

MC_Keys == {k1, k2}
MC_Vals == {v1, v2}

\* One value: runs about where records land, not what they hold.
MC_OneVal == {v1}

\* Two goroutines, each writing its own key.
MC_Threads == {t1, t2}
MC_KeysOf == (t1 :> {k1}) @@ (t2 :> {k2})

\* Bound: the data files stay within ids 0..MC_MaxFileId.
MC_MaxFileId == 1
MC_FileBound == DOMAIN disk \subseteq 0..MC_MaxFileId

\* Bound: at most MC_MaxTorn torn fragments in the files (a failed write does
\* not advance WriteOffset, so failures alone could grow a file for ever).
MC_MaxTorn == 1
MC_Torn == UNION {{<<f, i>> : i \in {j \in 1..Len(disk[f]) : disk[f][j].type = "Torn"}} :
                  f \in DOMAIN disk}
MC_FailBound == MC_FileBound /\ Cardinality(MC_Torn) <= MC_MaxTorn

\* One goroutine writing both keys, so that its batches span two keys.
MC_Single == {t1}
MC_SingleKeysOf == t1 :> MC_Keys

=============================================================================
