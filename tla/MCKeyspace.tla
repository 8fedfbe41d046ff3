---------------------------- MODULE MCKeyspace ----------------------------
(***************************************************************************)
(* Alphabets of commands for TLC, one per family, over two keys and two    *)
(* elements.  Each one holds commands of another type, so that WRONGTYPE   *)
(* is met, and a write with the wrong number of arguments.                 *)
(***************************************************************************)
EXTENDS Keyspace

K == {"k", "l"}
Names == {"x", "y"}
One == <<"1">>
Word == <<"a">>

Malformed == [name |-> "malformed"]
Plain(name, k) == [name |-> name, key |-> k]
Many(name, ks) == [name |-> name, keys |-> ks]
Set(k, v, unit, n, opts) ==
    [name |-> "set", key |-> k, val |-> v, unit |-> unit, n |-> n, opts |-> opts]
Val(name, k, v) == [name |-> name, key |-> k, val |-> v]
Count(name, k, n) == [name |-> name, key |-> k, n |-> n]
Between(name, k, n, m) == [name |-> name, key |-> k, n |-> n, m |-> m]
Until(name, k, unit, n) == [name |-> name, key |-> k, unit |-> unit, n |-> n]
Push(k, head, xx, elems) ==
    [name |-> "push", key |-> k, head |-> head, xx |-> xx, elems |-> elems]
Pop(k, head, n) == [name |-> "pop", key |-> k, head |-> head, n |-> n]
Rename(k, dst) == [name |-> "rename", key |-> k, dst |-> dst]
Elems(name, k, elems) == [name |-> name, key |-> k, elems |-> elems]

Keys(pattern) == [name |-> "keys", pattern |-> pattern]

LetterOfKey == [k |-> <<107>>, l |-> <<108>>]

\* Stars, question marks and letters; and a class of up to four bytes, closed or
\* not, alone, before a star and behind one.
Upto(n, bytes) == UNION {[1 .. i -> bytes] : i \in 0 .. n}
ClassBodies == {<<G!Open>> \o body : body \in Upto(4, {97, 99, G!Dash, G!Bang, G!Close})}
SomePatterns == Upto(4, {G!Star, G!Question, 97, 98}) \cup ClassBodies
                  \cup {b \o <<G!Close, G!Star>> : b \in ClassBodies}
                  \cup {<<G!Star>> \o b \o <<G!Close, 98>> : b \in ClassBodies}
SomeSubjects == Upto(3, {97, 98}) \cup Upto(2, {G!Dash, G!Close, 98})

GenericReads ==
    {Many("mget", <<"k", "l", "k">>), Many("exists", <<"k", "k", "l">>), Plain("get", "k"),
     Plain("type", "k"), Keys(<<G!Star, G!Open, 107, G!Close>>), [name |-> "dbsize"]}

StringCommands == GenericReads \cup
    {Malformed, Set("k", One, "none", 0, {}), Set("k", Word, "none", 0, {"nx"}),
     Set("l", One, "none", 0, {"xx"}), Set("k", One, "none", 0, {"nx", "xx"}),
     Val("append", "k", Word), Val("setnx", "l", Word), Val("getset", "k", <<"9">>),
     [name |-> "setrange", key |-> "k", n |-> 0, val |-> One],
     [name |-> "setrange", key |-> "k", n |-> -1, val |-> One],
     Count("incr", "k", 1), Count("decr", "k", -1), Rename("k", "l"), Rename("l", "k"),
     Rename("k", "k"), [name |-> "mset", keys |-> <<"k", "l">>, val |-> <<"-", "9">>],
     Many("del", <<"k", "k">>), [name |-> "flushall"], Push("l", TRUE, FALSE, <<"x">>),
     Plain("strlen", "k"), Between("getrange", "k", -2, 5)}

ListCommands == GenericReads \cup
    {Malformed, Set("l", One, "none", 0, {}), Push("k", TRUE, FALSE, <<"x", "y">>),
     Push("k", FALSE, FALSE, <<"x">>), Push("k", TRUE, TRUE, <<"y">>), Push("l", FALSE, TRUE, <<"y">>),
     Pop("k", TRUE, 1), Pop("k", FALSE, 2), Pop("k", FALSE, -1), Val("append", "k", Word),
     Between("ltrim", "k", 1, -1), Count("llen", "l", 0),
     [name |-> "lset", key |-> "k", n |-> -2, elem |-> "y"],
     [name |-> "lset", key |-> "l", n |-> 3, elem |-> "y"],
     [name |-> "lrem", key |-> "k", n |-> -1, elem |-> "x"],
     [name |-> "linsert", key |-> "k", where |-> "before", pivot |-> "y", elem |-> "x"],
     [name |-> "linsert", key |-> "k", where |-> "after", pivot |-> "x", elem |-> "y"],
     [name |-> "linsert", key |-> "k", where |-> "at", pivot |-> "x", elem |-> "y"],
     Between("lrange", "k", -2, 1), Count("lindex", "k", 1), Rename("k", "l")}

Hset(k, ok, pairs) ==
    [name |-> IF ok THEN "hmset" ELSE "hset", key |-> k, ok |-> ok, pairs |-> pairs]
Field(name, k, f) == [name |-> name, key |-> k, field |-> f]
Hincr(name, f, n) == [name |-> name, key |-> "k", field |-> f, n |-> n]

HashCommands ==
    {Malformed, Many("mget", <<"k", "l">>), Plain("type", "k"), Plain("get", "k"),
     Set("l", One, "none", 0, {}), Hset("k", FALSE, <<<<"x", One>>, <<"y", Word>>>>),
     Hset("l", TRUE, <<<<"x", <<"9">>>>>>),
     [name |-> "hsetnx", key |-> "k", field |-> "y", val |-> One],
     Hincr("hincrby", "x", 5), Hincr("hincrby", "y", -1), Hincr("hincrbyfloat", "y", 1),
     Hincr("hincrbyfloat", "x", Inf),
     [name |-> "hdel", key |-> "k", fields |-> <<"x", "x">>],
     [name |-> "hdel", key |-> "k", fields |-> <<"y">>], Rename("l", "k"), Val("append", "k", Word),
     Field("hget", "k", "x"), [name |-> "hmget", key |-> "k", fields |-> <<"x", "y">>],
     Plain("hgetall", "k"), Plain("hlen", "k"), Field("hexists", "k", "y"),
     [name |-> "hkeys", key |-> "k", vals |-> FALSE], [name |-> "hvals", key |-> "k", vals |-> TRUE]}

SetCommands ==
    {Malformed, Set("l", One, "none", 0, {}), Elems("sadd", "k", <<"x">>),
     Elems("sadd", "k", <<"y", "x", "y">>), Elems("sadd", "l", <<"y">>), Elems("srem", "k", <<"y", "y">>),
     Count("spop", "k", 1), Count("spop", "k", 2), Count("spop", "k", -1),
     [name |-> "sismember", key |-> "k", elem |-> "x"], Plain("scard", "k"), Plain("smembers", "k"),
     Many("sinter", <<"k", "l">>), Many("sunion", <<"k", "l">>), Many("sdiff", <<"k", "l">>)}

Zadd(opts, pairs) == [name |-> "zadd", key |-> "k", opts |-> opts, pairs |-> pairs]
ByScore(lo, hi, offset, limit) ==
    [name |-> "zrangebyscore", key |-> "k", min |-> lo, max |-> hi, minex |-> FALSE,
     maxex |-> FALSE, offset |-> offset, limit |-> limit, withscores |-> TRUE]
Zrange(rev, n, m) ==
    [name |-> IF rev THEN "zrevrange" ELSE "zrange", key |-> "k", n |-> n, m |-> m, rev |-> rev,
     withscores |-> TRUE]

ZsetCommands ==
    {Malformed, Set("l", One, "none", 0, {}), Zadd({}, <<<<1, 1>>, <<0, 2>>>>),
     Zadd({"nx"}, <<<<2, 1>>, <<2, 3>>>>), Zadd({"xx", "ch"}, <<<<2, 2>>, <<1, 3>>>>),
     Zadd({"incr"}, <<<<Inf, 2>>>>), Zadd({"nx", "xx"}, <<<<1, 1>>>>),
     Zadd({"incr", "nx"}, <<<<1, 3>>>>), Zadd({}, <<<<NotFloat, 1>>>>),
     Zadd({}, <<<<2, 1>>, <<NotFloat, 2>>, <<0, 3>>>>),
     [name |-> "zincrby", key |-> "k", n |-> -Inf, elem |-> 2],
     [name |-> "zincrby", key |-> "k", n |-> NotFloat, elem |-> 2],
     [name |-> "zrem", key |-> "k", elems |-> <<1, 2>>],
     Plain("zcard", "k"), [name |-> "zscore", key |-> "k", elem |-> 1], Zrange(FALSE, 1, -1),
     Zrange(TRUE, -2, 7), ByScore(0, 1, 0, -1), ByScore(0, Inf, 1, 1), ByScore(NotFloat, 1, 0, -1),
     ByScore(0, Inf, 3, 1),
     [name |-> "zrank", key |-> "k", elem |-> 2], [name |-> "zrevrank", key |-> "k", elem |-> 2],
     [name |-> "zcount", key |-> "k", min |-> 0, max |-> 1, minex |-> TRUE, maxex |-> FALSE]}

AllTypes == [strings |-> StringCommands, lists |-> ListCommands,
             maps |-> HashCommands \cup SetCommands, zsets |-> ZsetCommands]

Expiring == [expiring |-> GenericReads \cup
    {Set("k", One, "px", 1, {}), Set("k", One, "ex", 1, {}), Set("k", Word, "pxat", 2, {}),
     Set("k", One, "px", 0, {}), Val("setnx", "k", Word),
     [name |-> "setex", key |-> "l", n |-> 1, val |-> Word], Until("pexpire", "k", "ms", 1),
     Until("expire", "k", "s", 9), Until("pexpire", "l", "ms", 9), Until("expireat", "l", "s", 1),
     Until("pexpireat", "k", "ms", 0), Push("k", FALSE, FALSE, <<"x", "y", "x">>),
     Count("incr", "k", 1), Rename("k", "l"), Pop("k", TRUE, 2),
     Elems("sadd", "l", <<"x", "y">>), Many("sinter", <<"l", "k">>), Many("sunion", <<"k", "l">>),
     Until("ttl", "k", "s", 0), Until("pttl", "l", "ms", 0), Many("del", <<"l">>)}]

\* For the disagreement between the code and its documentation.
Conditional == [conditional |-> {Set("k", One, "px", 1, {}), Val("setnx", "k", Word)}]
=============================================================================
