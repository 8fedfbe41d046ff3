------------------------------ MODULE DbTypes ------------------------------
(***************************************************************************)
(* The list, hash, set and sorted-set commands of db.c, in the style of    *)
(* DbCore.  List elements, hash fields and members are small integers,     *)
(* whose order stands for the memcmp order of members.  A list is a        *)
(* sequence, a hash a function from fields to strings, a set a set and a   *)
(* sorted set a function from members to scores.                           *)
(***************************************************************************)
EXTENDS DbCore

\* Doubles: small integers, the two infinities, and text strtod refuses.
Inf == 1000
NotFloat == 2000
IsDouble(x) == x # NotFloat
SumIsNaN(a, b) == {a, b} = {Inf, -Inf}
DoubleSum(a, b) == IF a \in {Inf, -Inf} THEN a ELSE IF b \in {Inf, -Inf} THEN b ELSE a + b

Empty(o) == CASE Type(o) = "string" -> FALSE
              [] Type(o) = "set" -> Ptr(o) = {}
              [] OTHER -> DOMAIN Ptr(o) = {}

\* Mutant: a case of the switch is missing.
maybe_delete_key_no_list(s, k) ==
    IF Type(s[k]) # "list" /\ Empty(s[k]) THEN dict_delete(s, k) ELSE s

maybe_delete_key(s, k) == IF Empty(s[k]) THEN dict_delete(s, k) ELSE s

\* The frame of the commands that create the container they write to.
Upsert(s0, now, k, type, empty, Body(_)) ==
    Access(s0, now, k, type, LAMBDA s : Body(dict_set(s, k, Obj(type, empty, -1))), Body)

\* The frame of the commands that read it, missing counting as empty.
View(s0, now, k, type, empty, Reply(_)) ==
    Access(s0, now, k, type, LAMBDA s : Answer(s, Reply(empty)),
           LAMBDA s : Answer(s, Reply(Ptr(s[k]))))
-----------------------------------------------------------------------------
list_push(s0, now, c) ==
    LET Body(s) == LET l == IF c.head THEN Reverse(c.elems) \o Ptr(s[c.key])
                            ELSE Ptr(s[c.key]) \o c.elems
                   IN  Answer(SetPtr(s, c.key, l), Num(Len(l)))
    IN  IF c.xx THEN Access(s0, now, c.key, "list", LAMBDA s : Answer(s, Num(0)), Body)
        ELSE Upsert(s0, now, c.key, "list", <<>>, Body)

\* Mutant: the header announces the count asked for.
list_pop_header(s0, now, c) ==
    LET Pop(s) ==
          LET l == Ptr(s[c.key])
              max == Min({c.n, Len(l)})
          IN  Answer(maybe_delete_key(SetPtr(s, c.key, SubSeq(l, max + 1, Len(l))), c.key),
                     Array(c.n, SubSeq(l, 1, max)))
    IN  IF c.n < 0 THEN Answer(s0, Err)
        ELSE Access(s0, now, c.key, "list", LAMBDA s : Answer(s, Nil), Pop)

list_pop(s0, now, c) ==
    LET Pop(s) ==
          LET l == Ptr(s[c.key])
              max == Min({c.n, Len(l)})
              items == SubSeq(IF c.head THEN l ELSE Reverse(l), 1, max)
              left == IF c.head THEN SubSeq(l, max + 1, Len(l))
                      ELSE SubSeq(l, 1, Len(l) - max)
          IN  Answer(maybe_delete_key(SetPtr(s, c.key, left), c.key),
                     IF c.n # 1 THEN Array(max, items)
                     ELSE IF items = <<>> THEN Nil ELSE Bulk(items[1]))
    IN  IF c.n < 0 THEN Answer(s0, Err)
        ELSE Access(s0, now, c.key, "list", LAMBDA s : Answer(s, Nil), Pop)

cmd_llen(s0, now, c) == View(s0, now, c.key, "list", <<>>, LAMBDA l : Num(Len(l)))

cmd_lrange(s0, now, c) ==
    View(s0, now, c.key, "list", <<>>, LAMBDA l :
         LET r == range_normalize(Len(l), c.n, c.m) IN
         Array(r[2] - r[1] + 1, SubSeq(l, r[1] + 1, r[2] + 1)))

\* list_node_at: the position of an index, negative from the tail; 0 if none.
list_node_at(l, index) ==
    LET i == IF index >= 0 THEN index + 1 ELSE Len(l) + index + 1
    IN  IF i \in DOMAIN l THEN i ELSE 0

cmd_lindex(s0, now, c) ==
    View(s0, now, c.key, "list", <<>>, LAMBDA l :
         LET i == list_node_at(l, c.n) IN IF i = 0 THEN Nil ELSE Bulk(l[i]))

cmd_lset(s0, now, c) ==
    Access(s0, now, c.key, "list", LAMBDA s : Answer(s, Err), LAMBDA s :
           LET l == Ptr(s[c.key])  i == list_node_at(l, c.n) IN
           IF i = 0 THEN Answer(s, Err)
           ELSE Answer(SetPtr(s, c.key, [j \in DOMAIN l |-> IF j = i THEN c.elem ELSE l[j]]), Ok))

\* Mutant: the target length is one too small.
cmd_ltrim_short(s0, now, c) ==
    Access(s0, now, c.key, "list", LAMBDA s : Answer(s, Ok), LAMBDA s :
           LET l == Ptr(s[c.key])
               r == range_normalize(Len(l), c.n, c.m)
           IN  IF r[1] >= r[2] THEN Answer(dict_delete(s, c.key), Ok)
               ELSE Answer(SetPtr(s, c.key, SubSeq(l, r[1] + 1, r[2])), Ok))

cmd_ltrim(s0, now, c) ==
    Access(s0, now, c.key, "list", LAMBDA s : Answer(s, Ok), LAMBDA s :
           LET l == Ptr(s[c.key])
               r == range_normalize(Len(l), c.n, c.m)
               tail == SubSeq(l, r[1] + 1, Len(l))   \* the head is detached first
           IN  IF r = <<1, 0>> THEN Answer(dict_delete(s, c.key), Ok)
               ELSE Answer(SetPtr(s, c.key, SubSeq(tail, 1, r[2] - r[1] + 1)), Ok))

\* The first n occurrences from the head, the last -n from the tail, or all.
cmd_lrem(s0, now, c) ==
    Access(s0, now, c.key, "list", LAMBDA s : Answer(s, Num(0)), LAMBDA s :
           LET l == Ptr(s[c.key])
               Ascending(S) == SetToSortSeq(S, LAMBDA i, j : i < j)
               hits == Ascending({i \in DOMAIN l : l[i] = c.elem})
               met == IF c.n >= 0 THEN hits ELSE Reverse(hits)
               most == IF c.n = 0 THEN Len(hits) ELSE IF c.n > 0 THEN c.n ELSE -c.n
               gone == Range(SubSeq(met, 1, Min({most, Len(hits)})))
               kept == Ascending(DOMAIN l \ gone)
           IN  Answer(maybe_delete_key(SetPtr(s, c.key, [i \in DOMAIN kept |-> l[kept[i]]]), c.key),
                      Num(Cardinality(gone))))

cmd_linsert(s0, now, c) ==
    LET Insert(s) ==
          LET l == Ptr(s[c.key])
              at == SelectInSeq(l, LAMBDA x : x = c.pivot)
          IN  IF at = 0 THEN Answer(s, Num(-1))
              ELSE Answer(SetPtr(s, c.key, InsertAt(l, IF c.where = "before" THEN at
                                                       ELSE at + 1, c.elem)),
                          Num(Len(l) + 1))
    IN  IF c.where \notin {"before", "after"} THEN Answer(s0, Err)
        ELSE Access(s0, now, c.key, "list", LAMBDA s : Answer(s, Num(0)), Insert)
-----------------------------------------------------------------------------
\* HSET and HMSET: c.pairs is a sequence of fields and strings.
hash_set_many(s0, now, c) ==
    Upsert(s0, now, c.key, "hash", <<>>, LAMBDA s :
           LET h == Ptr(s[c.key])
               new == FoldLeft(LAMBDA f, p : dict_set(f, p[1], p[2]), h, c.pairs)
           IN  Answer(SetPtr(s, c.key, new),
                      IF c.ok THEN Ok ELSE Num(Cardinality(DOMAIN new \ DOMAIN h))))

cmd_hget(s0, now, c) ==
    View(s0, now, c.key, "hash", <<>>, LAMBDA h : IF Has(h, c.field) THEN Bulk(h[c.field]) ELSE Nil)

cmd_hmget(s0, now, c) ==
    View(s0, now, c.key, "hash", <<>>, LAMBDA h :
         Array(Len(c.fields), [i \in DOMAIN c.fields |->
               IF Has(h, c.fields[i]) THEN Bulk(h[c.fields[i]]) ELSE Nil]))

cmd_hgetall(s0, now, c) ==
    View(s0, now, c.key, "hash", <<>>, LAMBDA h :
         Array(2 * Cardinality(DOMAIN h),
               FlattenSeq([i \in DOMAIN SetToSeq(DOMAIN h) |->
                           <<SetToSeq(DOMAIN h)[i], h[SetToSeq(DOMAIN h)[i]]>>])))

\* HKEYS; HVALS, with one value per field.
hash_keys_or_vals(s0, now, c) ==
    View(s0, now, c.key, "hash", <<>>, LAMBDA h :
         IF c.vals THEN Array(Cardinality(DOMAIN h), [i \in DOMAIN SetToSeq(DOMAIN h) |->
                                                      h[SetToSeq(DOMAIN h)[i]]])
         ELSE Iterated(Cardinality(DOMAIN h), DOMAIN h))

cmd_hlen(s0, now, c) ==
    View(s0, now, c.key, "hash", <<>>, LAMBDA h : Num(Cardinality(DOMAIN h)))

cmd_hexists(s0, now, c) ==
    View(s0, now, c.key, "hash", <<>>, LAMBDA h : Num(IF Has(h, c.field) THEN 1 ELSE 0))

cmd_hdel(s0, now, c) ==
    Access(s0, now, c.key, "hash", LAMBDA s : Answer(s, Num(0)), LAMBDA s :
           LET h == Ptr(s[c.key])
               left == [f \in DOMAIN h \ Range(c.fields) |-> h[f]]
           IN  Answer(maybe_delete_key(SetPtr(s, c.key, left), c.key),
                      Num(Cardinality(DOMAIN h \cap Range(c.fields)))))

cmd_hsetnx(s0, now, c) ==
    Upsert(s0, now, c.key, "hash", <<>>, LAMBDA s :
           LET h == Ptr(s[c.key]) IN
           IF Has(h, c.field) THEN Answer(s, Num(0))
           ELSE Answer(SetPtr(s, c.key, dict_set(h, c.field, c.val)), Num(1)))

cmd_hincrby(s0, now, c) ==
    Upsert(s0, now, c.key, "hash", <<>>, LAMBDA s :
           LET h == Ptr(s[c.key])
               cur == IF Has(h, c.field) THEN string_to_ll_n(h[c.field]) ELSE 0
               nv == Wrap(cur + c.n)
           IN  IF \/ Has(h, c.field) /\ ~IsLl(h[c.field])
                  \/ c.n > 0 /\ nv < cur
                  \/ c.n < 0 /\ nv > cur
               THEN Answer(s, Err)
               ELSE Answer(SetPtr(s, c.key, dict_set(h, c.field, LlString(nv))), Num(nv)))

\* A field's text as a double: a number, "inf", or no number at all.
parse_double(v) == IF IsLl(v) THEN string_to_ll_n(v) ELSE IF v = <<"inf">> THEN Inf ELSE NotFloat

cmd_hincrbyfloat(s0, now, c) ==
    IF ~IsDouble(c.n) THEN Answer(s0, Err)
    ELSE Upsert(s0, now, c.key, "hash", <<>>, LAMBDA s :
           LET h == Ptr(s[c.key])
               cur == IF Has(h, c.field) THEN parse_double(h[c.field]) ELSE 0
           IN  IF ~IsDouble(cur) \/ SumIsNaN(cur, c.n) \/ DoubleSum(cur, c.n) \in {Inf, -Inf}
               THEN Answer(s, Err)
               ELSE LET v == LlString(cur + c.n) IN
                    Answer(SetPtr(s, c.key, dict_set(h, c.field, v)), Bulk(v)))
-----------------------------------------------------------------------------
cmd_sadd(s0, now, c) ==
    Upsert(s0, now, c.key, "set", {}, LAMBDA s :
           LET S == Ptr(s[c.key]) IN
           Answer(SetPtr(s, c.key, S \cup Range(c.elems)), Num(Cardinality(Range(c.elems) \ S))))

cmd_srem(s0, now, c) ==
    Access(s0, now, c.key, "set", LAMBDA s : Answer(s, Num(0)), LAMBDA s :
           LET S == Ptr(s[c.key]) IN
           Answer(maybe_delete_key(SetPtr(s, c.key, S \ Range(c.elems)), c.key),
                  Num(Cardinality(S \cap Range(c.elems)))))

cmd_sismember(s0, now, c) ==
    View(s0, now, c.key, "set", {}, LAMBDA S : Num(IF c.elem \in S THEN 1 ELSE 0))

cmd_scard(s0, now, c) == View(s0, now, c.key, "set", {}, LAMBDA S : Num(Cardinality(S)))

cmd_smembers(s0, now, c) ==
    View(s0, now, c.key, "set", {}, LAMBDA S : Iterated(Cardinality(S), S))

\* The answers SPOP may give: dict_random_entry picks any members.
cmd_spop(s0, now, c) ==
    LET s == lookup_key(s0, c.key, now)
        Reply(max, items) == IF c.n # 1 THEN Iterated(max, items)
                             ELSE IF items = {} THEN Nil ELSE Bulk(CHOOSE m \in items : TRUE)
        Popped(S) ==
          LET max == Min({c.n, Cardinality(S)}) IN
          {Answer(maybe_delete_key(SetPtr(s, c.key, S \ out), c.key), Reply(max, out)) :
             out \in kSubset(max, S)}
    IN  IF c.n < 0 THEN {Answer(s0, Err)}
        ELSE IF ~Has(s, c.key) THEN {Answer(s, Reply(0, {}))}
        ELSE IF Type(s[c.key]) # "set" THEN {Answer(s, WrongType)} ELSE Popped(Ptr(s[c.key]))

\* set_arg_get for each key up to the first of another type, then the algebra.
SetAlgebra(s0, now, ks, Combine(_)) ==
    LET wrong == {i \in DOMAIN ks : /\ Has(s0, ks[i]) /\ ~key_expired(s0[ks[i]], now)
                                    /\ Type(s0[ks[i]]) # "set"}
        s == LookupAll(s0, IF wrong = {} THEN ks ELSE SubSeq(ks, 1, Min(wrong)), now)
        result == Combine([i \in DOMAIN ks |-> IF Has(s, ks[i]) THEN Ptr(s[ks[i]]) ELSE {}])
    IN  IF wrong # {} THEN Answer(s, WrongType)
        ELSE Answer(s, Iterated(Cardinality(result), result))

cmd_sinter(s0, now, c) ==
    SetAlgebra(s0, now, c.keys, LAMBDA sets : {m \in sets[1] : \A i \in DOMAIN sets : m \in sets[i]})

cmd_sunion(s0, now, c) == SetAlgebra(s0, now, c.keys, LAMBDA sets : UNION Range(sets))

cmd_sdiff(s0, now, c) ==
    SetAlgebra(s0, now, c.keys, LAMBDA sets : sets[1] \ UNION Range(Tail(sets)))
-----------------------------------------------------------------------------
Double(x) == <<"double", x>>

\* The skiplist: members by score, then by name.  Ranks are 1-based.
Order(z) == SetToSortSeq(DOMAIN z, LAMBDA m, n : z[m] < z[n] \/ (z[m] = z[n] /\ m < n))
zsl_get_rank(z, m) == SelectInSeq(Order(z), LAMBDA x : x = m)
zset_add(z, m, score) == dict_set(z, m, score)

\* ZADD's loop over the pairs of score and member, until one does not parse.
ZAddPairs(z0, c) ==
    LET Step(a, p) ==
          IF a.bad \/ ~IsDouble(p[1]) THEN [a EXCEPT !.bad = TRUE]
          ELSE IF IF Has(a.z, p[2]) THEN "nx" \in c.opts ELSE "xx" \in c.opts THEN a
          ELSE [a EXCEPT !.z = zset_add(@, p[2], p[1]),
                         !.added = @ + IF Has(a.z, p[2]) THEN 0 ELSE 1,
                         !.changed = @ + IF Has(a.z, p[2]) /\ a.z[p[2]] # p[1] THEN 1 ELSE 0]
    IN  FoldLeft(Step, [z |-> z0, added |-> 0, changed |-> 0, bad |-> FALSE], c.pairs)

\* ZADD INCR and ZINCRBY: s is the dictionary after the key was created.
ZIncr(s, c, inc, m) ==
    LET z == Ptr(s[c.key])
        score == IF Has(z, m) THEN DoubleSum(z[m], inc) ELSE inc
    IN  IF Has(z, m) /\ SumIsNaN(z[m], inc) THEN Answer(s, Err)
        ELSE Answer(SetPtr(s, c.key, zset_add(z, m, score)), Double(score))

cmd_zadd(s0, now, c) ==
    LET Body(s) ==
          LET z == Ptr(s[c.key])
              known == Has(z, c.pairs[1][2])
              a == ZAddPairs(z, c)
          IN  IF "incr" \in c.opts
              THEN IF ~IsDouble(c.pairs[1][1]) THEN Answer(s, Err)
                   ELSE IF ("nx" \in c.opts /\ known) \/ ("xx" \in c.opts /\ ~known)
                   THEN Answer(s, Nil)
                   ELSE ZIncr(s, c, c.pairs[1][1], c.pairs[1][2])
              ELSE Answer(SetPtr(s, c.key, a.z),
                          IF a.bad THEN Err
                          ELSE Num(a.added + IF "ch" \in c.opts THEN a.changed ELSE 0))
    IN  IF {"nx", "xx"} \subseteq c.opts \/ ("incr" \in c.opts /\ Len(c.pairs) # 1)
        THEN Answer(s0, Err)
        ELSE IF "xx" \in c.opts
        THEN Access(s0, now, c.key, "zset", LAMBDA s : Answer(s, Num(0)), Body)
        ELSE Upsert(s0, now, c.key, "zset", <<>>, Body)

cmd_zcard(s0, now, c) ==
    View(s0, now, c.key, "zset", <<>>, LAMBDA z : Num(Cardinality(DOMAIN z)))

cmd_zscore(s0, now, c) ==
    View(s0, now, c.key, "zset", <<>>, LAMBDA z : IF Has(z, c.elem) THEN Double(z[c.elem]) ELSE Nil)

cmd_zrem(s0, now, c) ==
    Access(s0, now, c.key, "zset", LAMBDA s : Answer(s, Num(0)), LAMBDA s :
           LET z == Ptr(s[c.key])
               left == [m \in DOMAIN z \ Range(c.elems) |-> z[m]]
           IN  Answer(maybe_delete_key(SetPtr(s, c.key, left), c.key),
                      Num(Cardinality(DOMAIN z \cap Range(c.elems)))))

\* Members, each followed by its score when asked for.
Emit(z, members, withscores) ==
    FlattenSeq([i \in DOMAIN members |->
                IF withscores THEN <<members[i], z[members[i]]>> ELSE <<members[i]>>])

zrange_common(s0, now, c) ==
    View(s0, now, c.key, "zset", <<>>, LAMBDA z :
         LET len == Cardinality(DOMAIN z)
             r == range_normalize(len, c.n, c.m)
             n == r[2] - r[1] + 1
             nodes == IF ~c.rev THEN SubSeq(Order(z), r[1] + 1, r[1] + n)
                      ELSE Reverse(SubSeq(Order(z), len - r[1] - n + 1, len - r[1]))
         IN  IF n = 0 THEN Array(0, <<>>)
             ELSE Array(IF c.withscores THEN 2 * n ELSE n, Emit(z, nodes, c.withscores)))

\* Mutant: an exclusive upper bound is taken as inclusive.
ScoreRange_inclusive(z, c) ==
    LET from == {i \in DOMAIN Order(z) : z[Order(z)[i]] > c.min \/ (~c.minex /\ z[Order(z)[i]] = c.min)}
        upto == {i \in DOMAIN Order(z) : z[Order(z)[i]] <= c.max}
    IN  IF from = {} \/ upto = {} \/ Min(from) > Max(upto) THEN <<1, 0>> ELSE <<Min(from), Max(upto)>>

\* The ranks from zsl_first_in_score_range to zsl_last_in_score_range.
ScoreRange(z, c) ==
    LET from == {i \in DOMAIN Order(z) : z[Order(z)[i]] > c.min \/ (~c.minex /\ z[Order(z)[i]] = c.min)}
        upto == {i \in DOMAIN Order(z) : z[Order(z)[i]] < c.max \/ (~c.maxex /\ z[Order(z)[i]] = c.max)}
    IN  IF from = {} \/ upto = {} \/ Min(from) > Max(upto) THEN <<1, 0>> ELSE <<Min(from), Max(upto)>>

\* emit may fall below zero, and the header is written as a size_t.
cmd_zrangebyscore(s0, now, c) ==
    IF ~IsDouble(c.min) \/ ~IsDouble(c.max) \/ c.offset < 0 THEN Answer(s0, Err)
    ELSE View(s0, now, c.key, "zset", <<>>, LAMBDA z :
         LET r == ScoreRange(z, c)
             total == r[2] - r[1] + 1
             wanted == IF c.limit < 0 THEN total - c.offset ELSE c.limit
             emit == Min({Max({wanted, 0}), total - c.offset})
             nodes == IF c.offset >= total THEN <<>>
                      ELSE SubSeq(Order(z), r[1] + c.offset, r[1] + c.offset + emit - 1)
         IN  IF total = 0 THEN Array(0, <<>>)
             ELSE Array((IF c.withscores THEN 2 * emit ELSE emit) % (2 * (LLMax + 1)),
                        Emit(z, nodes, c.withscores)))

cmd_zrank(s0, now, c) ==
    View(s0, now, c.key, "zset", <<>>, LAMBDA z :
         IF Has(z, c.elem) THEN Num(zsl_get_rank(z, c.elem) - 1) ELSE Nil)

cmd_zrevrank(s0, now, c) ==
    View(s0, now, c.key, "zset", <<>>, LAMBDA z :
         IF Has(z, c.elem) THEN Num(Cardinality(DOMAIN z) - zsl_get_rank(z, c.elem)) ELSE Nil)

cmd_zincrby(s0, now, c) ==
    IF ~IsDouble(c.n) THEN Answer(s0, Err)
    ELSE Upsert(s0, now, c.key, "zset", <<>>, LAMBDA s : ZIncr(s, c, c.n, c.elem))

cmd_zcount(s0, now, c) ==
    IF ~IsDouble(c.min) \/ ~IsDouble(c.max) THEN Answer(s0, Err)
    ELSE View(s0, now, c.key, "zset", <<>>, LAMBDA z :
         LET r == ScoreRange(z, c) IN Num(r[2] - r[1] + 1))
=============================================================================
