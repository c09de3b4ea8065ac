---- MODULE MC_RedisDS ----
\* Model values and bounds for checking RedisDS with TLC.
EXTENDS RedisDS

CONSTANTS k1, a, b, c1, c2

MC_Keys == {k1}
MC_Elems == {a, b}
MC_Clients == {c1}
MC_TwoClients == {c1, c2}

\* Bounds: the clock, the length of a list and the drift of its head and
\* tail from initialListMark.
MC_MaxTime == 3
MC_MaxLen == 2

MC_Bound ==
    /\ now <= MC_MaxTime
    /\ \A k \in Keys : k \in DOMAIN db /\ db[k].type = "List" =>
         /\ db[k].size <= MC_MaxLen
         /\ initialListMark - MC_MaxLen <= db[k].head
         /\ db[k].tail <= initialListMark + MC_MaxLen
====
