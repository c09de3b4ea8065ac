---- MODULE RedisDS ----
\* The Redis data-structure layer (src/redis): String, List, Set, Hash and
\* ZSet commands encoded as engine keys.  A container keeps its metadata
\* (type, expire, version, size, and head/tail for lists) under the user key
\* and each element under an internal key [key | version | part].  Every
\* command is the sequence of engine calls its Go function makes:
\*   findMetadata      one engine Get of the user key;
\*   element lookup    one engine Get of an internal key (most commands);
\*   commit            one WriteBatch.Commit of the new metadata and element.
\* Nothing serialises two commands on the same key: redcon runs each client
\* connection on its own goroutine, and RedisDataStructure holds no lock.
\*
\* The engine is the abstract store of KVStore: a Get and a batch Commit are
\* each atomic.  db is its content, a function from the keys present to
\* their values.
EXTENDS Integers, Sequences, FiniteSets, Functions, TLC

CONSTANTS
    Keys, Elems, Scores, Clients,
    Ops,              \* the command names clients issue
    TTLs,             \* the ttl arguments of Set (0 = no expiry)
    initialListMark,  \* head and tail of a new list
    Nil, NotFound, WrongType, NoCmd, Pending,
    Absent            \* a lookup that found no element

VARIABLES
    db,    \* engine content: user keys and internal keys to values
    now,   \* time.Now().UnixNano(), in abstract ticks
    pc,    \* each client's place in its command
    cmd,   \* the command a client is executing
    meta,  \* its local copy of the key's metadata (findMetadata's result)
    got,   \* the element value its lookup read
    ret    \* its result, once decided

vars == <<db, now, pc, cmd, meta, got, ret>>

----
\* Commands.  Every command is a record with the same fields; unused ones
\* are Nil or 0.

ListOps == {"LPush", "RPush", "LPop", "RPop"}
TypedOps == ListOps \cup {"SAdd", "SIsMember", "SRem", "HSet", "HGet", "HDel",
                          "ZAdd", "ZScore"}

ArgsOf(o) ==
    CASE o \in {"LPop", "RPop", "Get", "Del"} -> {Nil}
      [] o = "Set"                            -> Elems \cup {Nil}
      [] OTHER                                -> Elems

ValsOf(o) ==
    CASE o = "HSet" -> Elems
      [] o = "ZAdd" -> Scores
      [] OTHER      -> {Nil}

Commands ==
    {x \in [op: Ops, key: Keys, arg: Elems \cup {Nil},
            val: Elems \cup Scores \cup {Nil}, ttl: TTLs \cup {0}] :
        /\ x.arg \in ArgsOf(x.op)
        /\ x.val \in ValsOf(x.op)
        /\ x.op # "Set" => x.ttl = 0}

\* The data type findMetadata is called with.
DataType(o) ==
    CASE o \in ListOps                       -> "List"
      [] o \in {"SAdd", "SIsMember", "SRem"} -> "Set"
      [] o \in {"HSet", "HGet", "HDel"}      -> "Hash"
      [] OTHER                               -> "ZSet"

----
\* Metadata and its encoding.  The encoding holds head and tail only for a
\* List; decoding anything else yields head = tail = 0.

EncodeMeta(m) ==
    IF m.type = "List" THEN m
    ELSE [type |-> m.type, expire |-> m.expire, version |-> m.version,
          size |-> m.size]

DecodeMetadata(b) ==
    IF b.type = "List" THEN b
    ELSE [type |-> b.type, expire |-> b.expire, version |-> b.version,
          size |-> b.size, head |-> 0, tail |-> 0]

NewMeta(T) ==
    [type |-> T, expire |-> 0, version |-> now, size |-> 0,
     head |-> IF T = "List" THEN initialListMark ELSE 0,
     tail |-> IF T = "List" THEN initialListMark ELSE 0]

\* Internal keys.  The byte encodings are modelled as distinct tuples.
ListKey(k, ver, i)     == <<"L", k, ver, i>>
SetKey(k, ver, e)      == <<"S", k, ver, e>>
HashKey(k, ver, f)     == <<"H", k, ver, f>>
ZMemberKey(k, ver, e)  == <<"ZM", k, ver, e>>
ZScoreKey(k, ver, s, e) == <<"ZS", k, ver, s, e>>

Lookup(x) == IF x \in DOMAIN db THEN db[x] ELSE Absent
Put(d, x, v) == (x :> v) @@ d
Remove(d, x) == Restrict(d, DOMAIN d \ {x})

----
\* Steps shared by every command.

Finish(c, r) ==
    /\ pc' = [pc EXCEPT ![c] = "done"]
    /\ ret' = [ret EXCEPT ![c] = r]

Goto(c, l) ==
    /\ pc' = [pc EXCEPT ![c] = l]
    /\ UNCHANGED ret

Invoke(c, x) ==
    /\ pc[c] = "idle"
    /\ pc' = [pc EXCEPT ![c] = "meta"]
    /\ cmd' = [cmd EXCEPT ![c] = x]
    /\ UNCHANGED <<db, now, meta, got, ret>>

\* The call returns; its locals go out of scope.
Return(c) ==
    /\ pc[c] = "done"
    /\ pc' = [pc EXCEPT ![c] = "idle"]
    /\ cmd' = [cmd EXCEPT ![c] = NoCmd]
    /\ meta' = [meta EXCEPT ![c] = Nil]
    /\ got' = [got EXCEPT ![c] = Absent]
    /\ ret' = [ret EXCEPT ![c] = Nil]
    /\ UNCHANGED <<db, now>>

Tick ==
    /\ now' = now + 1
    /\ UNCHANGED <<db, pc, cmd, meta, got, ret>>

\* The result of a command that finds its container empty.
EmptyResult(o) ==
    CASE o \in {"LPop", "RPop", "HGet"}       -> Nil
      [] o \in {"SIsMember", "SRem", "HDel"} -> FALSE
      [] o = "ZScore"                         -> -1
      [] OTHER                                -> Nil

\* Commands that return at once when the metadata says size 0.
SizeChecked == {"LPop", "RPop", "SIsMember", "SRem", "HGet", "HDel", "ZScore"}

\* Mutant: findMetadata without the data-type check.
FindMetadataNoTypeCheck(c) ==
    LET x == cmd[c]
        k == x.key
        T == DataType(x.op)
        exist == k \in DOMAIN db /\ ~(db[k].expire # 0 /\ db[k].expire <= now)
        m == IF exist THEN DecodeMetadata(db[k]) ELSE NewMeta(T)
    IN
    /\ pc[c] = "meta"
    /\ x.op \in TypedOps
    /\ meta' = [meta EXCEPT ![c] = m]
    /\ now' = IF exist THEN now ELSE now + 1
    /\ IF m.size = 0 /\ x.op \in SizeChecked
       THEN Finish(c, EmptyResult(x.op))
       ELSE Goto(c, IF x.op \in {"LPush", "RPush"} THEN "commit" ELSE "get")
    /\ UNCHANGED <<db, cmd, got>>

\* findMetadata, and the size check that follows it in the commands that
\* have one.  A new metadata record takes its version from the clock.
FindMetadata(c) ==
    LET x == cmd[c]
        k == x.key
        T == DataType(x.op)
    IN
    /\ pc[c] = "meta"
    /\ x.op \in TypedOps
    /\ IF k \in DOMAIN db /\ db[k].type # T
       THEN /\ Finish(c, WrongType)
            /\ UNCHANGED <<now, meta>>
       ELSE LET exist == k \in DOMAIN db /\
                         ~(db[k].expire # 0 /\ db[k].expire <= now)
                m == IF exist THEN DecodeMetadata(db[k]) ELSE NewMeta(T)
            IN /\ meta' = [meta EXCEPT ![c] = m]
               /\ now' = IF exist THEN now ELSE now + 1
               /\ IF m.size = 0 /\ x.op \in SizeChecked
                  THEN Finish(c, EmptyResult(x.op))
                  ELSE Goto(c, IF x.op \in {"LPush", "RPush"} THEN "commit"
                               ELSE "get")
    /\ UNCHANGED <<db, cmd, got>>

----
\* Lists (lists.go).  A push writes its element at head-1 or at tail, a pop
\* reads it at head or tail-1; both then commit the moved head or tail.

\* Mutants: a left push at head instead of head-1; a right pop at tail.
PushIndexAtHead(x, m) == IF x.op = "LPush" THEN m.head ELSE m.tail
PopIndexAtTail(x, m) == IF x.op = "LPop" THEN m.head ELSE m.tail

PushIndex(x, m) == IF x.op = "LPush" THEN m.head - 1 ELSE m.tail
PopIndex(x, m) == IF x.op = "LPop" THEN m.head ELSE m.tail - 1

\* innerPush: the batch of the new metadata and the element.
PushCommit(c) ==
    LET x == cmd[c]
        m == meta[c]
        m2 == [m EXCEPT !.size = @ + 1,
                        !.head = IF x.op = "LPush" THEN @ - 1 ELSE @,
                        !.tail = IF x.op = "RPush" THEN @ + 1 ELSE @]
    IN
    /\ pc[c] = "commit"
    /\ x.op \in {"LPush", "RPush"}
    /\ db' = Put(Put(db, x.key, EncodeMeta(m2)),
                 ListKey(x.key, m.version, PushIndex(x, m)), x.arg)
    /\ Finish(c, m2.size)
    /\ UNCHANGED <<now, cmd, meta, got>>

\* innerPop: the engine Get of the element to return.
PopGet(c) ==
    LET x == cmd[c]
        v == Lookup(ListKey(x.key, meta[c].version, PopIndex(x, meta[c])))
    IN
    /\ pc[c] = "get"
    /\ x.op \in {"LPop", "RPop"}
    /\ IF v = Absent
       THEN Finish(c, NotFound) /\ UNCHANGED got
       ELSE Goto(c, "commit") /\ got' = [got EXCEPT ![c] = v]
    /\ UNCHANGED <<db, now, cmd, meta>>

\* innerPop: the batch of the new metadata and the element's deletion.
PopCommit(c) ==
    LET x == cmd[c]
        m == meta[c]
        m2 == [m EXCEPT !.size = @ - 1,
                        !.head = IF x.op = "LPop" THEN @ + 1 ELSE @,
                        !.tail = IF x.op = "RPop" THEN @ - 1 ELSE @]
    IN
    /\ pc[c] = "commit"
    /\ x.op \in {"LPop", "RPop"}
    /\ db' = Remove(Put(db, x.key, EncodeMeta(m2)),
                    ListKey(x.key, m.version, PopIndex(x, m)))
    /\ Finish(c, got[c])
    /\ UNCHANGED <<now, cmd, meta, got>>

----
\* Sets (sets.go).  A member's internal key maps to nil.

MemberKey(c) == SetKey(cmd[c].key, meta[c].version, cmd[c].arg)

\* Mutants: SAdd without its existence check; SRem without its.
SAddGetAlwaysNew(c) ==
    /\ pc[c] = "get"
    /\ cmd[c].op = "SAdd"
    /\ Goto(c, "commit")
    /\ UNCHANGED <<db, now, cmd, meta, got>>

SRemGetUnchecked(c) ==
    /\ pc[c] = "get"
    /\ cmd[c].op = "SRem"
    /\ Goto(c, "commit")
    /\ UNCHANGED <<db, now, cmd, meta, got>>

\* SAdd, SIsMember and SRem: the engine Get of the member.
SAddGet(c) ==
    /\ pc[c] = "get"
    /\ cmd[c].op = "SAdd"
    /\ IF Lookup(MemberKey(c)) # Absent THEN Finish(c, FALSE)
       ELSE Goto(c, "commit")
    /\ UNCHANGED <<db, now, cmd, meta, got>>

SIsMemberGet(c) ==
    /\ pc[c] = "get"
    /\ cmd[c].op = "SIsMember"
    /\ Finish(c, Lookup(MemberKey(c)) # Absent)
    /\ UNCHANGED <<db, now, cmd, meta, got>>

SRemGet(c) ==
    /\ pc[c] = "get"
    /\ cmd[c].op = "SRem"
    /\ IF Lookup(MemberKey(c)) = Absent THEN Finish(c, NotFound)
       ELSE Goto(c, "commit")
    /\ UNCHANGED <<db, now, cmd, meta, got>>

SAddCommit(c) ==
    /\ pc[c] = "commit"
    /\ cmd[c].op = "SAdd"
    /\ db' = Put(Put(db, cmd[c].key, EncodeMeta([meta[c] EXCEPT !.size = @ + 1])),
                 MemberKey(c), Nil)
    /\ Finish(c, TRUE)
    /\ UNCHANGED <<now, cmd, meta, got>>

SRemCommit(c) ==
    /\ pc[c] = "commit"
    /\ cmd[c].op = "SRem"
    /\ db' = Remove(Put(db, cmd[c].key, EncodeMeta([meta[c] EXCEPT !.size = @ - 1])),
                    MemberKey(c))
    /\ Finish(c, TRUE)
    /\ UNCHANGED <<now, cmd, meta, got>>

----
\* Hashes (hash.go, src/unnamed/part_003).  A field's internal key maps to
\* its value.

FieldKey(c) == HashKey(cmd[c].key, meta[c].version, cmd[c].arg)

\* HSet: the existence check, then a batch that writes the metadata only
\* when the field is new.
HSetGet(c) ==
    /\ pc[c] = "get"
    /\ cmd[c].op = "HSet"
    /\ Goto(c, "commit")
    /\ got' = [got EXCEPT ![c] = Lookup(FieldKey(c))]
    /\ UNCHANGED <<db, now, cmd, meta>>

HSetCommit(c) ==
    LET new == got[c] = Absent
        d == IF new THEN Put(db, cmd[c].key,
                             EncodeMeta([meta[c] EXCEPT !.size = @ + 1]))
             ELSE db
    IN
    /\ pc[c] = "commit"
    /\ cmd[c].op = "HSet"
    /\ db' = Put(d, FieldKey(c), cmd[c].val)
    /\ Finish(c, new)
    /\ UNCHANGED <<now, cmd, meta, got>>

HGetGet(c) ==
    /\ pc[c] = "get"
    /\ cmd[c].op = "HGet"
    /\ Finish(c, IF Lookup(FieldKey(c)) = Absent THEN NotFound
                 ELSE Lookup(FieldKey(c)))
    /\ UNCHANGED <<db, now, cmd, meta, got>>

HDelGet(c) ==
    /\ pc[c] = "get"
    /\ cmd[c].op = "HDel"
    /\ IF Lookup(FieldKey(c)) = Absent THEN Finish(c, FALSE)
       ELSE Goto(c, "commit")
    /\ UNCHANGED <<db, now, cmd, meta, got>>

HDelCommit(c) ==
    /\ pc[c] = "commit"
    /\ cmd[c].op = "HDel"
    /\ db' = Remove(Put(db, cmd[c].key, EncodeMeta([meta[c] EXCEPT !.size = @ - 1])),
                    FieldKey(c))
    /\ Finish(c, TRUE)
    /\ UNCHANGED <<now, cmd, meta, got>>

----
\* Sorted sets (lists.go, second half).  A member is stored twice: under
\* [key | version | member] with its score, and under
\* [key | version | score | member | size] with nil, the score index.

ZMember(c) == ZMemberKey(cmd[c].key, meta[c].version, cmd[c].arg)

\* ZAdd: read the member's score; an unchanged score returns at once.
ZAddGet(c) ==
    LET v == Lookup(ZMember(c)) IN
    /\ pc[c] = "get"
    /\ cmd[c].op = "ZAdd"
    /\ IF v # Absent /\ v = cmd[c].val
       THEN Finish(c, FALSE) /\ UNCHANGED got
       ELSE Goto(c, "commit") /\ got' = [got EXCEPT ![c] = v]
    /\ UNCHANGED <<db, now, cmd, meta>>

\* Mutant: ZAdd that leaves the old score-index key behind.
ZAddCommitKeepsOldScore(c) ==
    LET x == cmd[c]
        ver == meta[c].version
        new == got[c] = Absent
        d == IF new THEN Put(db, x.key, EncodeMeta([meta[c] EXCEPT !.size = @ + 1]))
             ELSE db
    IN
    /\ pc[c] = "commit"
    /\ x.op = "ZAdd"
    /\ db' = Put(Put(d, ZMember(c), x.val), ZScoreKey(x.key, ver, x.val, x.arg), Nil)
    /\ Finish(c, new)
    /\ UNCHANGED <<now, cmd, meta, got>>

\* ZAdd: a new member bumps the size; an existing one has its old score-index
\* key deleted.  Both then write the member key and the score-index key.
ZAddCommit(c) ==
    LET x == cmd[c]
        ver == meta[c].version
        new == got[c] = Absent
        d == IF new THEN Put(db, x.key, EncodeMeta([meta[c] EXCEPT !.size = @ + 1]))
             ELSE Remove(db, ZScoreKey(x.key, ver, got[c], x.arg))
    IN
    /\ pc[c] = "commit"
    /\ x.op = "ZAdd"
    /\ db' = Put(Put(d, ZMember(c), x.val), ZScoreKey(x.key, ver, x.val, x.arg), Nil)
    /\ Finish(c, new)
    /\ UNCHANGED <<now, cmd, meta, got>>

ZScoreGet(c) ==
    /\ pc[c] = "get"
    /\ cmd[c].op = "ZScore"
    /\ Finish(c, IF Lookup(ZMember(c)) = Absent THEN NotFound
                 ELSE Lookup(ZMember(c)))
    /\ UNCHANGED <<db, now, cmd, meta, got>>

----
\* Strings (strings.go) and Del: one engine call each.

\* Set: a nil value is ignored; otherwise one engine Put of type, expire and
\* payload.
StringSet(c) ==
    LET x == cmd[c] IN
    /\ pc[c] = "meta"
    /\ x.op = "Set"
    /\ IF x.arg = Nil THEN UNCHANGED db
       ELSE db' = Put(db, x.key, [type |-> "String", payload |-> x.arg,
                                  expire |-> IF x.ttl = 0 THEN 0 ELSE now + x.ttl])
    /\ Finish(c, Nil)
    /\ UNCHANGED <<now, cmd, meta, got>>

\* Mutant: a String expires one tick late (expire < now).
StringGetExpiresLate(c) ==
    LET x == cmd[c]
        v == Lookup(x.key)
    IN
    /\ pc[c] = "meta"
    /\ x.op = "Get"
    /\ Finish(c, CASE v = Absent                         -> NotFound
                   [] v.type # "String"                  -> WrongType
                   [] v.expire > 0 /\ v.expire < now     -> Nil
                   [] OTHER                              -> v.payload)
    /\ UNCHANGED <<db, now, cmd, meta, got>>

StringGet(c) ==
    LET x == cmd[c]
        v == Lookup(x.key)
    IN
    /\ pc[c] = "meta"
    /\ x.op = "Get"
    /\ Finish(c, CASE v = Absent                          -> NotFound
                   [] v.type # "String"                   -> WrongType
                   [] v.expire > 0 /\ v.expire <= now     -> Nil
                   [] OTHER                               -> v.payload)
    /\ UNCHANGED <<db, now, cmd, meta, got>>

\* Del deletes the user key only; the elements of a container stay behind
\* under their old version.
Del(c) ==
    /\ pc[c] = "meta"
    /\ cmd[c].op = "Del"
    /\ db' = Remove(db, cmd[c].key)
    /\ Finish(c, Nil)
    /\ UNCHANGED <<now, cmd, meta, got>>

----

Init ==
    /\ db = [x \in {} |-> Nil]
    /\ now = 0
    /\ pc = [c \in Clients |-> "idle"]
    /\ cmd = [c \in Clients |-> NoCmd]
    /\ meta = [c \in Clients |-> Nil]
    /\ got = [c \in Clients |-> Absent]
    /\ ret = [c \in Clients |-> Nil]

Step(c) ==
    \/ \E x \in Commands : Invoke(c, x)
    \/ FindMetadata(c)
    \/ PushCommit(c) \/ PopGet(c) \/ PopCommit(c)
    \/ SAddGet(c) \/ SIsMemberGet(c) \/ SRemGet(c) \/ SAddCommit(c) \/ SRemCommit(c)
    \/ HSetGet(c) \/ HSetCommit(c) \/ HGetGet(c) \/ HDelGet(c) \/ HDelCommit(c)
    \/ ZAddGet(c) \/ ZAddCommit(c) \/ ZScoreGet(c)
    \/ StringSet(c) \/ StringGet(c) \/ Del(c)
    \/ Return(c)

Next == Tick \/ \E c \in Clients : Step(c)

Spec == Init /\ [][Next]_vars

----
\* Properties.

\* The results a command can return (a Go bool, count, value or error).
ResultOK(o, r) ==
    \/ r \in {Nil, NotFound, WrongType}
    \/ o \in {"LPush", "RPush"} /\ r \in Nat
    \/ o \in {"SAdd", "SIsMember", "SRem", "HSet", "HDel", "ZAdd"} /\ r \in BOOLEAN
    \/ o \in {"LPop", "RPop", "HGet", "Get"} /\ r \in Elems
    \/ o = "ZScore" /\ r \in Scores \cup {-1}

TypeOK ==
    /\ now \in Nat
    /\ pc \in [Clients -> {"idle", "meta", "get", "commit", "done"}]
    /\ cmd \in [Clients -> Commands \cup {NoCmd}]
    /\ \A c \in Clients :
         /\ pc[c] = "idle" <=> cmd[c] = NoCmd
         /\ pc[c] = "done" => ResultOK(cmd[c].op, ret[c])
         /\ pc[c] \in {"get", "commit"} => meta[c].type = DataType(cmd[c].op)

\* The members of a container's current version present in the engine.
SetMembers(k, ver) == {e \in Elems : SetKey(k, ver, e) \in DOMAIN db}
HashFields(k, ver) == {f \in Elems : HashKey(k, ver, f) \in DOMAIN db}
ZMembers(k, ver)   == {e \in Elems : ZMemberKey(k, ver, e) \in DOMAIN db}

\* Every stored metadata record agrees with the elements of its version: a
\* list's size is tail - head and every index in [head, tail) holds an
\* element (innerPop reads head or tail-1 and fails with ErrKeyNotFound on a
\* hole); the size of a set, hash or zset is its number of members, which
\* SIsMember, SRem, HGet, HDel and ZScore consult before looking a member up.
MetadataConsistent ==
    \A k \in Keys : k \in DOMAIN db =>
      LET b == db[k] IN
      /\ b.type = "List" =>
            /\ b.size = b.tail - b.head
            /\ \A i \in b.head .. (b.tail - 1) :
                  ListKey(k, b.version, i) \in DOMAIN db
      /\ b.type = "Set"  => b.size = Cardinality(SetMembers(k, b.version))
      /\ b.type = "Hash" => b.size = Cardinality(HashFields(k, b.version))
      /\ b.type = "ZSet" => b.size = Cardinality(ZMembers(k, b.version))

\* ZAdd keeps the score index exact: the live version of a zset has a
\* score-index key [key|version|score|member] exactly when the member's
\* key holds that score, so no stale score survives a score change.
ZScoreIndexExact ==
    \A k \in Keys : k \in DOMAIN db /\ db[k].type = "ZSet" =>
      \A e \in Elems, s \in Scores :
        ZScoreKey(k, db[k].version, s, e) \in DOMAIN db
          <=> Lookup(ZMemberKey(k, db[k].version, e)) = s

----
\* Refinement: what the engine holds, read as the abstract store.

View(k) ==
    LET b == db[k] IN
    CASE b.type = "String" -> b
      [] b.type = "List" ->
           [type |-> "List",
            seq |-> [i \in 1 .. (b.tail - b.head) |->
                       Lookup(ListKey(k, b.version, b.head + i - 1))]]
      [] b.type = "Set" -> [type |-> "Set", set |-> SetMembers(k, b.version)]
      [] b.type = "Hash" ->
           [type |-> "Hash", fn |-> [f \in HashFields(k, b.version) |->
                                       db[HashKey(k, b.version, f)]]]
      [] b.type = "ZSet" ->
           [type |-> "ZSet", fn |-> [e \in ZMembers(k, b.version) |->
                                       db[ZMemberKey(k, b.version, e)]]]

StoreView == [k \in Keys |-> IF k \in DOMAIN db THEN View(k) ELSE Nil]
OpView    == [c \in Clients |-> IF pc[c] = "idle" THEN NoCmd ELSE cmd[c]]
ResView   == [c \in Clients |-> IF pc[c] = "done" THEN ret[c] ELSE Pending]

R == INSTANCE RedisSpec WITH store <- StoreView, op <- OpView, res <- ResView

\* Each command takes effect atomically at one of its steps, with the result
\* the abstract store gives (linearizability of the Redis layer).
Refinement == R!Spec

====
