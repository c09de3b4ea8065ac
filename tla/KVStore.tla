------------------------------ MODULE KVStore ------------------------------
(***************************************************************************)
(* What betadb promises its callers (spec.md sections 4.5.1, 4.8, 8.1-8.3, *)
(* 8.5): a map from keys to values.  Every write -- a Put, a Delete or a   *)
(* committed WriteBatch -- is a set of key updates that takes effect whole *)
(* at one instant between its call and its return.  A write that fails    *)
(* takes no effect.  A crash keeps every write that took effect; of the    *)
(* writes in flight at the crash, any subset takes effect, each one whole, *)
(* in some order.                                                          *)
(***************************************************************************)
EXTENDS FiniteSets, SequencesExt

CONSTANTS
    Keys,       \* user keys
    Vals,       \* user values
    Threads,    \* callers (goroutines) issuing writes
    Absent,     \* the value of a key that is not in the store
    NoWrite     \* a caller with no write in flight

ASSUME Absent \notin Vals

\* A write: the new value (Absent for a delete) of each key it touches.
Write == UNION { [S -> Vals \cup {Absent}] : S \in (SUBSET Keys) \ {{}} }

VARIABLES
    kv,         \* the contents of the store
    inflight    \* the write each caller has called and not yet returned

vars == <<kv, inflight>>

TypeOK ==
    /\ kv \in [Keys -> Vals \cup {Absent}]
    /\ inflight \in [Threads -> Write \cup {NoWrite}]

Init ==
    /\ kv = [k \in Keys |-> Absent]
    /\ inflight = [t \in Threads |-> NoWrite]

\* The store m after the write w.
Overwrite(m, w) == [k \in Keys |-> IF k \in DOMAIN w THEN w[k] ELSE m[k]]

\* Caller t calls a write.
Invoke(t) ==
    /\ inflight[t] = NoWrite
    /\ \E w \in Write : inflight' = [inflight EXCEPT ![t] = w]
    /\ UNCHANGED kv

\* The write of t takes effect.
Take(t) ==
    /\ inflight[t] # NoWrite
    /\ kv' = Overwrite(kv, inflight[t])
    /\ inflight' = [inflight EXCEPT ![t] = NoWrite]

\* The write of t returns an error and takes no effect.
Fail(t) ==
    /\ inflight[t] # NoWrite
    /\ inflight' = [inflight EXCEPT ![t] = NoWrite]
    /\ UNCHANGED kv

\* The process dies: some of the writes in flight take effect, in some order.
Crash ==
    LET busy == {t \in Threads : inflight[t] # NoWrite}
    IN  /\ \E S \in SUBSET busy :
             \E order \in SetToSeqs(S) :
                kv' = FoldLeft(LAMBDA m, t : Overwrite(m, inflight[t]), kv, order)
        /\ inflight' = [t \in Threads |-> NoWrite]

Next ==
    \/ \E t \in Threads : Invoke(t) \/ Take(t) \/ Fail(t)
    \/ Crash

Spec == Init /\ [][Next]_vars

=============================================================================
