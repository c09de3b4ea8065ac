---- MODULE RedisSpec ----
\* What the Redis data-structure layer (src/redis) promises its callers:
\* every command takes effect atomically, at one step between its call and
\* its return, on a store that maps each key to a typed value.  A String may
\* carry an expiry time; once the clock reaches it the key reads as absent.
\* The results are the ones the layer's own functions document: a missing
\* hash field or zset member in a non-empty container is an error, an empty
\* container answers nil, false or -1, and a container stays typed after its
\* last element is removed (its metadata is kept).
EXTENDS Integers, Sequences, FiniteSets, Functions, TLC

CONSTANTS
    Keys,       \* user keys
    Commands,   \* the commands clients may issue (records, see RedisDS)
    Clients,    \* concurrent callers (one per server connection)
    Nil,        \* Go nil: no value, no error
    NotFound,   \* betadb.ErrKeyNotFound
    WrongType,  \* ErrWrongTypeOperation
    NoCmd,      \* a client with no command in progress
    Pending     \* a command whose result is not yet decided

VARIABLES store, now, op, res

vars == <<store, now, op, res>>

\* The data type a command requires of its key.
TypeOf(o) ==
    CASE o \in {"LPush", "RPush", "LPop", "RPop"}    -> "List"
      [] o \in {"SAdd", "SIsMember", "SRem"}         -> "Set"
      [] o \in {"HSet", "HGet", "HDel"}              -> "Hash"
      [] o \in {"ZAdd", "ZScore"}                    -> "ZSet"
      [] OTHER                                       -> "String"

Empty(T) ==
    CASE T = "List" -> [type |-> "List", seq |-> <<>>]
      [] T = "Set"  -> [type |-> "Set", set |-> {}]
      [] OTHER      -> [type |-> T, fn |-> [x \in {} |-> Nil]]

\* A String whose expiry time has been reached no longer exists.
Live(v, t) ==
    IF v # Nil /\ v.type = "String" /\ v.expire # 0 /\ v.expire <= t
    THEN Nil ELSE v

Without(f, x) == Restrict(f, DOMAIN f \ {x})

Result(val, r) == [val |-> val, ret |-> r]

\* The effect of a command of a container type on the value v of its key,
\* given c, the container it finds there (empty if the key is absent).
Typed(x, v, c) ==
  LET m == x.arg IN
  CASE x.op \in {"LPush", "RPush"} ->
         Result([c EXCEPT !.seq = IF x.op = "LPush" THEN <<m>> \o @ ELSE Append(@, m)],
                Len(c.seq) + 1)
    [] x.op \in {"LPop", "RPop"} ->
         IF c.seq = <<>> THEN Result(v, Nil)
         ELSE IF x.op = "LPop" THEN Result([c EXCEPT !.seq = Tail(@)], Head(c.seq))
         ELSE Result([c EXCEPT !.seq = SubSeq(@, 1, Len(@) - 1)], c.seq[Len(c.seq)])
    [] x.op = "SAdd" ->
         IF m \in c.set THEN Result(v, FALSE)
         ELSE Result([c EXCEPT !.set = @ \cup {m}], TRUE)
    [] x.op = "SIsMember" -> Result(v, m \in c.set)
    [] x.op = "SRem" ->
         IF c.set = {} THEN Result(v, FALSE)
         ELSE IF m \notin c.set THEN Result(v, NotFound)
         ELSE Result([c EXCEPT !.set = @ \ {m}], TRUE)
    [] x.op = "HSet" ->
         Result([c EXCEPT !.fn = (m :> x.val) @@ @], m \notin DOMAIN c.fn)
    [] x.op \in {"HGet", "ZScore"} ->
         IF DOMAIN c.fn = {} THEN Result(v, IF x.op = "HGet" THEN Nil ELSE -1)
         ELSE IF m \notin DOMAIN c.fn THEN Result(v, NotFound)
         ELSE Result(v, c.fn[m])
    [] x.op = "HDel" ->
         IF m \notin DOMAIN c.fn THEN Result(v, FALSE)
         ELSE Result([c EXCEPT !.fn = Without(@, m)], TRUE)
    [] x.op = "ZAdd" ->
         IF m \in DOMAIN c.fn /\ c.fn[m] = x.val THEN Result(v, FALSE)
         ELSE Result([c EXCEPT !.fn = (m :> x.val) @@ @], m \notin DOMAIN c.fn)

\* The effect of command x on the value v of its key at time t.
Exec(x, v, t) ==
  LET cur == Live(v, t) IN
  CASE x.op = "Set" ->
         IF x.arg = Nil THEN Result(v, Nil)
         ELSE Result([type |-> "String", payload |-> x.arg,
                      expire |-> IF x.ttl = 0 THEN 0 ELSE t + x.ttl], Nil)
    [] x.op = "Get" ->
         IF v = Nil THEN Result(v, NotFound)
         ELSE IF v.type # "String" THEN Result(v, WrongType)
         ELSE IF cur = Nil THEN Result(v, Nil)
         ELSE Result(v, v.payload)
    [] x.op = "Del" -> Result(Nil, Nil)
    [] OTHER ->
         IF cur # Nil /\ cur.type # TypeOf(x.op) THEN Result(v, WrongType)
         ELSE Typed(x, v, IF cur = Nil THEN Empty(TypeOf(x.op)) ELSE cur)

Init ==
    /\ store = [k \in Keys |-> Nil]
    /\ now = 0
    /\ op = [c \in Clients |-> NoCmd]
    /\ res = [c \in Clients |-> Pending]

Invoke(c, x) ==
    /\ op[c] = NoCmd
    /\ op' = [op EXCEPT ![c] = x]
    /\ UNCHANGED <<store, res>>

\* The command takes effect: its one linearization point.
Apply(c) ==
    /\ op[c] # NoCmd
    /\ res[c] = Pending
    /\ LET r == Exec(op[c], store[op[c].key], now)
       IN  /\ store' = [store EXCEPT ![op[c].key] = r.val]
           /\ res' = [res EXCEPT ![c] = r.ret]
    /\ UNCHANGED op

Return(c) ==
    /\ op[c] # NoCmd
    /\ res[c] # Pending
    /\ op' = [op EXCEPT ![c] = NoCmd]
    /\ res' = [res EXCEPT ![c] = Pending]
    /\ UNCHANGED store

\* The wall clock runs independently of the commands.
Clock == now' \in {now, now + 1}

Next ==
    /\ Clock
    /\ \/ \E c \in Clients : \/ \E x \in Commands : Invoke(c, x)
                             \/ Apply(c)
                             \/ Return(c)
       \/ UNCHANGED <<store, op, res>>

Spec == Init /\ [][Next]_vars

====
