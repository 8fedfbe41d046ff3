----------------------------- MODULE Keyspace -----------------------------
(***************************************************************************)
(* The keyspace as a running server keeps it: clients' commands, the       *)
(* active expiry cycle, the passing of time, a rewrite of the append-only  *)
(* file from the dataset, and a restart that replays the file.             *)
(*                                                                         *)
(* The file is the sequence of its commands.  How frames reach it, and     *)
(* what crashes and forked children do to it, is module Aof's subject;     *)
(* here every append and every rewrite succeeds.                           *)
(***************************************************************************)
EXTENDS DbTypes

CONSTANTS
    Families,   \* the commands clients send, in families: a behaviour draws from one
    Patterns,   \* patterns and names for the glob matcher
    Subjects,
    Elem,       \* list elements, hash fields and set members
    MaxWrites,  \* bound: the write commands of a behaviour
    MaxNow,     \* bound: the clock
    Batch       \* elements per rewritten command (64 in aof_rewrite_key)

ASSUME KeyspaceAssumption ==
    MaxWrites \in Nat /\ MaxNow \in Nat /\ Batch \in Nat \ {0}

VARIABLES
    family, \* the family of this behaviour
    d,      \* db.d: the dictionary
    now,    \* now_ms()
    log,    \* the append-only file
    writes, \* how many write commands were run, for the bound
    hollow  \* history: "made" once a failed command left the key it had created
            \* empty, "lost" once a rewrite passed over such a key

vars == <<family, d, now, log, writes, hollow>>

Commands == Families[family]

\* The commands table: the function behind a name, as the answers it may give.
Exec(c, s, t) ==
    CASE c.name = "set" -> {cmd_set(s, t, c)}
      [] c.name = "get" -> {cmd_get(s, t, c)}
      [] c.name = "mget" -> {cmd_mget(s, t, c)}
      [] c.name = "mset" -> {cmd_mset(s, t, c)}
      [] c.name = "append" -> {cmd_append(s, t, c)}
      [] c.name = "strlen" -> {cmd_strlen(s, t, c)}
      [] c.name = "getrange" -> {cmd_getrange(s, t, c)}
      [] c.name = "setrange" -> {cmd_setrange(s, t, c)}
      [] c.name = "rename" -> {cmd_rename(s, t, c)}
      [] c.name = "setnx" -> {cmd_setnx(s, t, c)}
      [] c.name = "setex" -> {cmd_setex(s, t, c)}
      [] c.name = "getset" -> {cmd_getset(s, t, c)}
      [] c.name = "del" -> {cmd_del(s, t, c)}
      [] c.name = "exists" -> {cmd_exists(s, t, c)}
      [] c.name \in {"incr", "decr"} -> {incr_decr(s, t, c)}
      [] c.name \in {"expire", "pexpire"} -> {cmd_expire_generic(s, t, c)}
      [] c.name \in {"expireat", "pexpireat"} -> {cmd_expireat_generic(s, t, c)}
      [] c.name \in {"ttl", "pttl"} -> {cmd_ttl_generic(s, t, c)}
      [] c.name = "type" -> {cmd_type(s, t, c)}
      [] c.name = "keys" -> {cmd_keys(s, t, c)}
      [] c.name = "flushall" -> {cmd_flushall(s, t, c)}
      [] c.name = "dbsize" -> {cmd_dbsize(s, t, c)}
      [] c.name = "push" -> {list_push(s, t, c)}
      [] c.name = "pop" -> {list_pop(s, t, c)}
      [] c.name = "llen" -> {cmd_llen(s, t, c)}
      [] c.name = "lrange" -> {cmd_lrange(s, t, c)}
      [] c.name = "lindex" -> {cmd_lindex(s, t, c)}
      [] c.name = "lset" -> {cmd_lset(s, t, c)}
      [] c.name = "ltrim" -> {cmd_ltrim(s, t, c)}
      [] c.name = "lrem" -> {cmd_lrem(s, t, c)}
      [] c.name = "linsert" -> {cmd_linsert(s, t, c)}
      [] c.name \in {"hset", "hmset"} -> {hash_set_many(s, t, c)}
      [] c.name = "hget" -> {cmd_hget(s, t, c)}
      [] c.name = "hmget" -> {cmd_hmget(s, t, c)}
      [] c.name = "hgetall" -> {cmd_hgetall(s, t, c)}
      [] c.name \in {"hkeys", "hvals"} -> {hash_keys_or_vals(s, t, c)}
      [] c.name = "hlen" -> {cmd_hlen(s, t, c)}
      [] c.name = "hexists" -> {cmd_hexists(s, t, c)}
      [] c.name = "hdel" -> {cmd_hdel(s, t, c)}
      [] c.name = "hsetnx" -> {cmd_hsetnx(s, t, c)}
      [] c.name = "hincrby" -> {cmd_hincrby(s, t, c)}
      [] c.name = "hincrbyfloat" -> {cmd_hincrbyfloat(s, t, c)}
      [] c.name = "sadd" -> {cmd_sadd(s, t, c)}
      [] c.name = "srem" -> {cmd_srem(s, t, c)}
      [] c.name = "sismember" -> {cmd_sismember(s, t, c)}
      [] c.name = "scard" -> {cmd_scard(s, t, c)}
      [] c.name = "smembers" -> {cmd_smembers(s, t, c)}
      [] c.name = "spop" -> cmd_spop(s, t, c)
      [] c.name = "sinter" -> {cmd_sinter(s, t, c)}
      [] c.name = "sunion" -> {cmd_sunion(s, t, c)}
      [] c.name = "sdiff" -> {cmd_sdiff(s, t, c)}
      [] c.name = "zadd" -> {cmd_zadd(s, t, c)}
      [] c.name = "zcard" -> {cmd_zcard(s, t, c)}
      [] c.name = "zscore" -> {cmd_zscore(s, t, c)}
      [] c.name = "zrem" -> {cmd_zrem(s, t, c)}
      [] c.name \in {"zrange", "zrevrange"} -> {zrange_common(s, t, c)}
      [] c.name = "zrangebyscore" -> {cmd_zrangebyscore(s, t, c)}
      [] c.name = "zrank" -> {cmd_zrank(s, t, c)}
      [] c.name = "zrevrank" -> {cmd_zrevrank(s, t, c)}
      [] c.name = "zincrby" -> {cmd_zincrby(s, t, c)}
      [] c.name = "zcount" -> {cmd_zcount(s, t, c)}
      [] OTHER -> {Answer(s, Err)}   \* a write with the wrong number of arguments

\* The names whose is_write flag is not set.
Reads == {"get", "exists", "mget", "strlen", "getrange", "ttl", "pttl", "type", "llen",
          "lrange", "lindex", "hget", "hmget", "hgetall", "hkeys", "hvals", "hlen",
          "hexists", "sismember", "scard", "smembers", "sinter", "sunion", "sdiff", "zcard",
          "zscore", "zrange", "zrevrange", "zrangebyscore", "zrank", "zrevrank", "zcount",
          "keys", "dbsize"}
\* Mutant: RENAME lost its is_write flag.
IsWrite_not_rename(c) == c.name \notin Reads \cup {"rename"}

IsWrite(c) == c.name \notin Reads
-----------------------------------------------------------------------------
\* A sequence in runs of at most Batch elements.
Chunks(q) == [i \in 1 .. (Len(q) + Batch - 1) \div Batch |->
              SubSeq(q, (i - 1) * Batch + 1, Min({i * Batch, Len(q)}))]

SetTo(k, v, unit, n) ==
    [name |-> "set", key |-> k, val |-> v, unit |-> unit, n |-> n, opts |-> {}]

\* Mutant: only strings keep their expiry.
aof_rewrite_key_noexpire(k, o) ==
    CASE Type(o) = "string" -> <<IF o.expire_at < 0 THEN SetTo(k, Ptr(o), "none", 0)
                                 ELSE SetTo(k, Ptr(o), "pxat", o.expire_at)>>
      [] Type(o) = "list" -> <<[name |-> "push", key |-> k, head |-> FALSE, xx |-> FALSE,
                                elems |-> Ptr(o)]>>
      [] OTHER -> <<[name |-> "sadd", key |-> k, elems |-> SetToSeq(Ptr(o))]>>

aof_rewrite_key(k, o) ==
    LET Each(Cmd(_), q) == [i \in DOMAIN Chunks(q) |-> Cmd(Chunks(q)[i])]
        names == SetToSeq(DOMAIN Ptr(o))
        items == CASE Type(o) = "list" ->
                        Each(LAMBDA b : [name |-> "push", key |-> k, head |-> FALSE,
                                         xx |-> FALSE, elems |-> b], Ptr(o))
                   [] Type(o) = "hash" ->
                        Each(LAMBDA b : [name |-> "hset", key |-> k, ok |-> FALSE, pairs |->
                                         [i \in DOMAIN b |-> <<b[i], Ptr(o)[b[i]]>>]], names)
                   [] Type(o) = "set" ->
                        Each(LAMBDA b : [name |-> "sadd", key |-> k, elems |-> b],
                             SetToSeq(Ptr(o)))
                   [] Type(o) = "zset" ->
                        Each(LAMBDA b : [name |-> "zadd", key |-> k, opts |-> {}, pairs |->
                                         [i \in DOMAIN b |-> <<Ptr(o)[b[i]], b[i]>>]],
                             Order(Ptr(o)))
    IN  IF Type(o) = "string"
        THEN <<IF o.expire_at < 0 THEN SetTo(k, Ptr(o), "none", 0)
               ELSE SetTo(k, Ptr(o), "pxat", o.expire_at)>>
        ELSE items \o IF o.expire_at < 0 THEN <<>>
                      ELSE <<[name |-> "pexpireat", key |-> k, unit |-> "ms", n |-> o.expire_at]>>

aof_rewrite(s) == FlattenSeq([i \in DOMAIN SetToSeq(DOMAIN s) |->
                  LET k == SetToSeq(DOMAIN s)[i] IN aof_rewrite_key(k, s[k])])

\* What replaying the file f at time t may leave, from an empty dictionary.
aof_replay(f, t) ==
    FoldLeft(LAMBDA S, c : UNION {{a.d : a \in Exec(c, s, t)} : s \in S}, {<<>>}, f)
-----------------------------------------------------------------------------
Init ==
    /\ family \in DOMAIN Families /\ d = <<>> /\ now = 0 /\ log = <<>> /\ writes = 0
    /\ hollow = "never"

\* ZADD and HINCRBYFLOAT create a missing key before they know that they will fail.
LeavesHollow(c, a) ==
    /\ c.name \in {"zadd", "hincrbyfloat"} /\ a.reply = Err
    /\ Has(a.d, c.key) /\ Empty(a.d[c.key])

\* The command is logged before it runs, whatever becomes of it.
dispatch_command(c) ==
    /\ IsWrite(c) => writes < MaxWrites
    /\ \E a \in Exec(c, d, now) :
         /\ d' = a.d
         /\ hollow' = IF hollow = "never" /\ LeavesHollow(c, a) THEN "made" ELSE hollow
    /\ log' = IF IsWrite(c) THEN Append(log, c) ELSE log
    /\ writes' = IF IsWrite(c) THEN writes + 1 ELSE writes
    /\ UNCHANGED <<family, now>>

\* One cycle examines some buckets and removes the expired keys it meets.
db_expire_cycle ==
    /\ \E K \in SUBSET {k \in DOMAIN d : key_expired(d[k], now)} :
          d' = [k \in DOMAIN d \ K |-> d[k]]
    /\ UNCHANGED <<family, now, log, writes, hollow>>

cmd_rewriteaof ==
    /\ log' = aof_rewrite(d)
    /\ hollow' = IF \E k \in DOMAIN d : Empty(d[k]) THEN "lost" ELSE hollow
    /\ UNCHANGED <<family, d, now, writes>>

\* A stop and a start: the dataset is what aof_replay makes of the file.
Restart ==
    /\ d' \in aof_replay(log, now)
    /\ UNCHANGED <<family, now, log, writes, hollow>>

Tick ==
    /\ now < MaxNow
    /\ now' = now + 1
    /\ UNCHANGED <<family, d, log, writes, hollow>>

Next == \/ \E c \in Commands : dispatch_command(c)
        \/ db_expire_cycle
        \/ cmd_rewriteaof
        \/ Restart
        \/ Tick

Spec == Init /\ [][Next]_vars
-----------------------------------------------------------------------------
Char == Range(Digit) \cup {"+", "-", "a", "inf", NUL}

ObjOK(o) ==
    /\ o.expire_at \in -(LLMax + 1) .. LLMax
    /\ CASE Type(o) = "string" -> Range(Ptr(o)) \subseteq Char
         [] Type(o) = "list" -> Range(Ptr(o)) \subseteq Elem
         [] Type(o) = "hash" -> DOMAIN Ptr(o) \subseteq Elem
         [] Type(o) = "set" -> Ptr(o) \subseteq Elem
         [] Type(o) = "zset" -> \A m \in DOMAIN Ptr(o) : Ptr(o)[m] \in -Inf .. Inf

\* Every object holds contents of its own type: no command writes to an object
\* of another type than the one it checked for.
TypeOK ==
    /\ \A k \in DOMAIN d : ObjOK(d[k])
    /\ now \in 0 .. MaxNow /\ writes \in 0 .. MaxWrites
    /\ hollow \in {"never", "made", "lost"}
    /\ \A i \in DOMAIN log : IsWrite(log[i])

\* The dictionary without the keys whose time has come.
Live(s, t) == [k \in {x \in DOMAIN s : ~key_expired(s[x], t)} |-> s[k]]

\* A reply, and the dictionary as clients can see it afterwards.
Seen(c, s) == {<<Live(a.d, now), a.reply>> : a \in Exec(c, s, now)}

\* Lazy and active expiry are one: whether the cycle has already removed an
\* expired key shows in no reply and in nothing a later command can see.  DEL
\* and DBSIZE do not go through lookup_key: they count expired keys.
ExpiryInvisible ==
    \A c \in Commands : c.name \notin {"del", "dbsize"} => Seen(c, d) = Seen(c, Live(d, now))

\* The pairs of a ZADD that come before the first score that does not parse.
GoodPairs(c) ==
    SubSeq(c.pairs, 1, Min({i \in DOMAIN c.pairs : ~IsDouble(c.pairs[i][1])}) - 1)

\* Going from was to is, only the key of c changes: it may come into being, and what
\* it holds is what it held, but for the scores that the given pairs gave.
OnlyPairs(c, pairs, was, is) ==
    LET old == IF Has(was, c.key) THEN Ptr(was[c.key]) ELSE <<>>
        new == Ptr(is[c.key])
    IN  /\ dict_delete(is, c.key) = dict_delete(was, c.key)
        /\ Has(is, c.key) /\ DOMAIN old \subseteq DOMAIN new
        /\ Has(was, c.key) => /\ Type(is[c.key]) = Type(was[c.key])
                              /\ is[c.key].expire_at = was[c.key].expire_at
        /\ \A m \in DOMAIN new : \/ Has(old, m) /\ new[m] = old[m]
                                 \/ <<new[m], m>> \in Range(pairs)

\* A command that answers an error has changed nothing a client can see, with two
\* exceptions: a ZADD that meets a score that does not parse (db.c 1768-1773) keeps
\* the pairs before it and none behind it, and ZADD and HINCRBYFLOAT (db.c 1405-1419)
\* keep the key they created, which may be empty.
ErrorsConfined ==
    \A c \in Commands : \A a \in Exec(c, d, now) :
        LET was == Live(d, now)  is == Live(a.d, now) IN
        a.reply \in {Err, WrongType} =>
            \/ is = was
            \/ /\ c.name = "zadd" /\ \E i \in DOMAIN c.pairs : ~IsDouble(c.pairs[i][1])
               /\ a.reply = Err /\ OnlyPairs(c, GoodPairs(c), was, is)
            \/ c.name = "hincrbyfloat" /\ a.reply = Err /\ OnlyPairs(c, <<>>, was, is)

\* db.c, on maybe_delete_key: the key is deleted when its container became
\* empty.  So no key holds an empty list, hash, set or sorted set, unless ZADD or
\* HINCRBYFLOAT has failed on a missing key; lists and sets never are empty.
NoEmptyContainer ==
    \A k \in DOMAIN d : Empty(d[k]) => hollow # "never" /\ Type(d[k]) \in {"hash", "zset"}

\* db.c, on dispatch_command: commands are logged before they run so that a
\* replay reproduces the exact same outcome.  After any mix of commands, refused
\* commands and rewrites, replaying the file now gives back the dataset in memory,
\* and nothing else unless SPOP has to draw again.  A rewrite has no command for an
\* empty container, so this is said of histories in which none was lost that way.
ReplayReproduces ==
    LET restored == aof_replay(log, now) IN
    hollow # "lost" =>
        /\ d \in restored
        /\ (\A i \in DOMAIN log : log[i].name # "spop") => restored = {d}

\* db.c 2226-2228: conditional commands are re-evaluated identically by a replay.  So
\* a key that is alive in memory is there after a replay, with the same contents;
\* its deadline may be another one, as README.md says of relative deadlines.
ReplayKeepsContents ==
    \A s \in aof_replay(log, now) : \A k \in DOMAIN Live(d, now) :
        k \in DOMAIN s /\ s[k].val = d[k].val

\* The keys a client sees after a rewrite of the dataset is replayed at time t.
Rewritten(t) == {Live(s, t) : s \in aof_replay(aof_rewrite(d), t)}

\* Two objects a client cannot tell apart: any negative expiry means never.
Alike(o, p) == o.val = p.val /\ Max({-1, o.expire_at}) = Max({-1, p.expire_at})

\* A rewrite keeps every key with its contents and its deadline, whenever it is
\* replayed: a key alive at that moment is as it was, and an expired list, hash,
\* set or sorted set stays expired.  A container that a failed command left empty
\* has no contents to write and is not kept.
RewriteKeepsLive ==
    \A t \in now .. MaxNow : \A s \in Rewritten(t) :
        /\ \A k \in DOMAIN Live(d, t) : ~Empty(d[k]) => k \in DOMAIN s /\ Alike(s[k], d[k])
        /\ \A k \in DOMAIN s \ DOMAIN Live(d, t) : Type(d[k]) = "string"

\* A ZRANGEBYSCORE with matches, all of them before its LIMIT offset.
OffsetBeyond(c) ==
    c.name = "zrangebyscore" /\ cmd_zcount(d, now, c).reply[2] \in 1 .. c.offset - 1

\* README.md: replies are RESP.  An array has as many elements as it announces, the
\* ones counted in one pass over a table and sent in another included.  The one
\* exception is a LIMIT offset beyond the matches (db.c 1990-1994): it sends nothing
\* and announces a negative count as a size_t, more than any signed count.
RepliesFramed ==
    \A c \in Commands : \A a \in Exec(c, d, now) :
        a.reply[1] = "array" =>
            IF OffsetBeyond(c) THEN a.reply[3] = <<>> /\ a.reply[2] > LLMax
            ELSE a.reply[2] = Len(a.reply[3])

-----------------------------------------------------------------------------
Indices == -3 .. 3
Elements(k) == cmd_lrange(d, now, [key |-> k, n |-> 0, m |-> -1]).reply[3]

\* LTRIM leaves exactly what LRANGE with the same bounds would have answered,
\* LINDEX answers the one element of the range from an index to itself, and
\* LREM takes as many as it says and keeps the others in their order.
ListCommandsAgree ==
    \A k \in DOMAIN d : Type(d[k]) = "list" =>
        /\ \A n, m \in Indices :
             LET c == [key |-> k, n |-> n, m |-> m]
                 left == cmd_ltrim(d, now, c).d
             IN  cmd_lrange(d, now, c).reply = cmd_lrange(left, now, [c EXCEPT !.n = 0, !.m = -1]).reply
        /\ \A n \in Indices :
             LET c == [key |-> k, n |-> n, m |-> n]
                 one == cmd_lrange(d, now, c).reply[3]
             IN  one # <<>> => cmd_lindex(d, now, c).reply = Bulk(one[1])
        /\ \A n \in Indices, e \in Elem :
             LET a == cmd_lrem(d, now, [key |-> k, n |-> n, elem |-> e])
                 left == cmd_lrange(a.d, now, [key |-> k, n |-> 0, m |-> -1]).reply[3]
                 Others(q) == SelectSeq(q, LAMBDA x : x # e)
             IN  /\ Len(left) = Len(Elements(k)) - a.reply[2]
                 /\ Others(left) = Others(Elements(k))

\* The sorted-set queries agree with each other and with the scores: ZRANK is
\* the place in ZRANGE, ZREVRANK the place in ZREVRANGE, and ZCOUNT and
\* ZRANGEBYSCORE are the members whose score lies between the bounds.
ZsetQueriesAgree ==
    \A k \in DOMAIN d : Type(d[k]) = "zset" =>
        LET z == Ptr(d[k])
            Rank(m) == cmd_zrank(d, now, [key |-> k, elem |-> m]).reply[2]
            RevRank(m) == cmd_zrevrank(d, now, [key |-> k, elem |-> m]).reply[2]
            At(i, rev) == zrange_common(d, now, [key |-> k, n |-> i, m |-> i, rev |-> rev,
                                                 withscores |-> FALSE]).reply[3]
        IN  /\ \A m \in DOMAIN z : At(Rank(m), FALSE) = <<m>> /\ At(RevRank(m), TRUE) = <<m>>
            /\ \A lo \in {-Inf, 0, 1}, hi \in {0, 1, Inf}, minex, maxex \in BOOLEAN :
                 LET c == [key |-> k, min |-> lo, max |-> hi, minex |-> minex, maxex |-> maxex,
                           offset |-> 0, limit |-> -1, withscores |-> FALSE]
                     inside == {m \in DOMAIN z : /\ IF minex THEN z[m] > lo ELSE z[m] >= lo
                                                 /\ IF maxex THEN z[m] < hi ELSE z[m] <= hi}
                     found == cmd_zrangebyscore(d, now, c).reply
                 IN  /\ cmd_zcount(d, now, c).reply = Num(Cardinality(inside))
                     /\ found[2] = Cardinality(inside) /\ Range(found[3]) = inside

GlobSound ==
    \A pat \in Patterns, s \in Subjects : G!util_glob_match(pat, s) <=> G!Matches(pat, s)

\* util.h 34-38, util.c 149-210, db.c 637-659: KEYS lists the live keys whose names
\* the pattern, read as stars and sets of bytes, describes: with stars that back up,
\* classes with ranges and negation, brackets and dashes at every place of a class
\* and classes that nobody closes.
KeysAgree ==
    /\ GlobSound
    /\ \A c \in Commands :
         c.name = "keys" =>
           LET named == {k \in DOMAIN Live(d, now) : G!Matches(c.pattern, KeyName[k])}
               listed == cmd_keys(d, now, c).reply
           IN  Range(listed[3]) = named /\ listed[2] = Cardinality(named)
=============================================================================
