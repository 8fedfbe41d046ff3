------------------------------ MODULE DbCore ------------------------------
(***************************************************************************)
(* The keyspace of miniredis as a value, and the string, key and expiry    *)
(* commands of db.c as operators on it.  A command takes the dictionary s, *)
(* the clock now and its arguments c, and answers the dictionary it leaves *)
(* and its reply.  The clock is read once per command.                     *)
(*                                                                         *)
(* A dictionary is a function from the keys it holds to objects.  A string *)
(* is a sequence of characters, with NUL for the zero byte.  Arguments are *)
(* zero-terminated (resp.c copies them, db.c takes their strlen), so CStr  *)
(* is applied wherever an argument could carry a zero byte.                *)
(***************************************************************************)
EXTENDS Integers, Sequences, FiniteSets, SequencesExt

CONSTANTS
    LLMax,   \* LLONG_MAX and INT64_MAX, scaled down
    Sec,     \* milliseconds in a second, scaled down
    KeyName  \* the bytes of each key, for KEYS

ASSUME DbAssumption == LLMax \in 1 .. 98 /\ Sec \in 1 .. LLMax

NUL == "nul"
Digit == <<"0", "1", "2", "3", "4", "5", "6", "7", "8", "9">>

\* Signed arithmetic of the width of LLMax, as the build computes it.
Wrap(x) == ((x + LLMax + 1) % (2 * (LLMax + 1))) - (LLMax + 1)

CStr(v) == LET zeros == {i \in DOMAIN v : v[i] = NUL} IN
    IF zeros = {} THEN v ELSE SubSeq(v, 1, Min(zeros) - 1)

\* string_to_ll_n: an optional sign, digits, at most LLMax in magnitude.
Unsigned(v) == IF v # <<>> /\ v[1] \in {"+", "-"} THEN Tail(v) ELSE v
Magnitude(v) == FoldLeft(LAMBDA n, ch : 10 * n + SelectInSeq(Digit, LAMBDA x : x = ch) - 1,
                         0, Unsigned(v))
IsLl(v) == /\ Unsigned(v) # <<>>
           /\ Range(Unsigned(v)) \subseteq Range(Digit)
           /\ Magnitude(v) <= LLMax
string_to_ll_n(v) == IF v[1] = "-" THEN -Magnitude(v) ELSE Magnitude(v)

\* robj_new_string_ll: the decimal form of n.
Decimal(n) == IF n < 10 THEN <<Digit[n + 1]>>
              ELSE <<Digit[(n \div 10) + 1], Digit[(n % 10) + 1]>>
LlString(n) == IF n < 0 THEN <<"-">> \o Decimal(-n) ELSE Decimal(n)
-----------------------------------------------------------------------------
\* robj: type and contents, and the absolute expiry or a negative number.
Obj(type, ptr, expire) == [val |-> <<type, ptr>>, expire_at |-> expire]
Type(o) == o.val[1]
Ptr(o) == o.val[2]
robj_new_string(v) == Obj("string", v, -1)

Has(s, k) == k \in DOMAIN s
dict_set(s, k, o) == (k :> o) @@ s
dict_delete(s, k) == [x \in DOMAIN s \ {k} |-> s[x]]
SetPtr(s, k, ptr) == [s EXCEPT ![k].val = <<@[1], ptr>>]

Answer(s, r) == [d |-> s, reply |-> r]
Ok == <<"ok">>
Nil == <<"nil">>
Err == <<"err">>
WrongType == <<"wrongtype">>
Num(n) == <<"int", n>>
Bulk(v) == <<"bulk", v>>
Array(header, items) == <<"array", header, items>>  \* the count announced, what follows
Iterated(header, items) == Array(header, SetToSeq(items))  \* in some dictionary order

key_expired(o, now) == o.expire_at >= 0 /\ o.expire_at <= now

lookup_key(s, k, now) ==
    IF Has(s, k) /\ key_expired(s[k], now) THEN dict_delete(s, k) ELSE s

\* The frame of most commands: look the key up, refuse another type.
Access(s0, now, k, type, Absent(_), Present(_)) ==
    LET s == lookup_key(s0, k, now) IN
    IF ~Has(s, k) THEN Absent(s)
    ELSE IF Type(s[k]) # type THEN Answer(s, WrongType) ELSE Present(s)

\* LRANGE-style start and stop against a length, as a pair; <<1, 0>> is empty.
range_normalize(len, start, stop) ==
    LET a == Max({0, IF start < 0 THEN len + start ELSE start})
        b == IF stop < 0 THEN len + stop ELSE stop
    IN  IF a > b \/ a >= len THEN <<1, 0>> ELSE <<a, Min({b, len - 1})>>
-----------------------------------------------------------------------------
cmd_set(s0, now, c) ==
    LET secs == c.unit \in {"ex", "exat"}
        given == IF secs THEN c.n * Sec ELSE c.n
        expire_ms == IF c.unit = "none" THEN -1
                     ELSE IF c.unit \in {"exat", "pxat"} THEN given - now ELSE given
        s == lookup_key(s0, c.key, now)
    IN  IF \/ c.unit # "none" /\ (c.n <= 0 \/ (secs /\ c.n > LLMax \div Sec))
           \/ {"nx", "xx"} \subseteq c.opts
        THEN Answer(s0, Err)
        ELSE IF ("nx" \in c.opts /\ Has(s, c.key)) \/ ("xx" \in c.opts /\ ~Has(s, c.key))
        THEN Answer(s, Nil)
        ELSE Answer(dict_set(s, c.key,
                      Obj("string", CStr(c.val),
                          IF expire_ms < 0 THEN -1 ELSE Wrap(now + expire_ms))), Ok)

cmd_get(s0, now, c) ==
    Access(s0, now, c.key, "string", LAMBDA s : Answer(s, Nil),
           LAMBDA s : Answer(s, Bulk(Ptr(s[c.key]))))

\* lookup_key for each of several keys, in order.
LookupAll(s0, ks, now) == FoldLeft(LAMBDA s, k : lookup_key(s, k, now), s0, ks)

cmd_mget(s0, now, c) ==
    LET s == LookupAll(s0, c.keys, now) IN
    Answer(s, Array(Len(c.keys), [i \in DOMAIN c.keys |->
        IF Has(s, c.keys[i]) /\ Type(s[c.keys[i]]) = "string"
        THEN Bulk(Ptr(s[c.keys[i]])) ELSE Nil]))

cmd_mset(s0, now, c) ==
    Answer(FoldLeft(LAMBDA s, k : dict_set(s, k, robj_new_string(c.val)), s0, c.keys), Ok)

\* Mutant: APPEND to a key of any type.
cmd_append_unchecked(s0, now, c) ==
    LET s == lookup_key(s0, c.key, now) IN
    IF Has(s, c.key) THEN Answer(SetPtr(s, c.key, Ptr(s[c.key]) \o c.val), Ok)
    ELSE Answer(dict_set(s, c.key, robj_new_string(c.val)), Num(Len(c.val)))

cmd_append(s0, now, c) ==
    Access(s0, now, c.key, "string",
           LAMBDA s : Answer(dict_set(s, c.key, robj_new_string(c.val)), Num(Len(c.val))),
           LAMBDA s : LET v == Ptr(s[c.key]) \o c.val IN
                      Answer(SetPtr(s, c.key, v), Num(Len(v))))

cmd_strlen(s0, now, c) ==
    Access(s0, now, c.key, "string", LAMBDA s : Answer(s, Num(0)),
           LAMBDA s : Answer(s, Num(Len(Ptr(s[c.key])))))

cmd_getrange(s0, now, c) ==
    Access(s0, now, c.key, "string", LAMBDA s : Answer(s, Bulk(<<>>)),
           LAMBDA s :
             LET v == Ptr(s[c.key])
                 a == Max({0, IF c.n < 0 THEN Len(v) + c.n ELSE c.n})
                 b == Min({Len(v) - 1, IF c.m < 0 THEN Len(v) + c.m ELSE c.m})
             IN  Answer(s, Bulk(IF a > b \/ a >= Len(v) THEN <<>>
                                ELSE SubSeq(v, a + 1, b + 1))))

\* Bytes offset .. of v become val; a gap is filled with zero bytes.
Overwritten(v, offset, val) ==
    [i \in 1 .. Max({Len(v), offset + Len(val)}) |->
        IF i \in offset + 1 .. offset + Len(val) THEN val[i - offset]
        ELSE IF i <= Len(v) THEN v[i] ELSE NUL]

cmd_setrange(s0, now, c) ==
    LET Write(s) == LET v == Overwritten(Ptr(s[c.key]), c.n, c.val) IN
                    Answer(SetPtr(s, c.key, v), Num(Len(v)))
    IN  IF c.n < 0 THEN Answer(s0, Err)
        ELSE Access(s0, now, c.key, "string",
                    LAMBDA s : Write(dict_set(s, c.key, robj_new_string(<<>>))), Write)

cmd_rename(s0, now, c) ==
    LET s == lookup_key(s0, c.key, now) IN
    IF c.key = c.dst THEN Answer(s0, Err)
    ELSE IF ~Has(s, c.key) THEN Answer(s, Err)
    ELSE Answer(dict_set(dict_delete(s, c.key), c.dst, s[c.key]), Ok)

\* Mutant: SETNX that takes an expired key for present.
cmd_setnx_raw(s0, now, c) ==
    IF Has(s0, c.key) THEN Answer(s0, Num(0))
    ELSE Answer(dict_set(s0, c.key, robj_new_string(c.val)), Num(1))

cmd_setnx(s0, now, c) ==
    LET s == lookup_key(s0, c.key, now) IN
    IF Has(s, c.key) THEN Answer(s, Num(0))
    ELSE Answer(dict_set(s, c.key, robj_new_string(c.val)), Num(1))

cmd_setex(s0, now, c) ==
    IF c.n <= 0 \/ c.n > LLMax \div Sec THEN Answer(s0, Err)
    ELSE Answer(dict_set(s0, c.key, Obj("string", c.val, Wrap(now + c.n * Sec))), Ok)

cmd_getset(s0, now, c) ==
    Access(s0, now, c.key, "string",
           LAMBDA s : Answer(dict_set(s, c.key, robj_new_string(c.val)), Nil),
           LAMBDA s : Answer(dict_set(s, c.key, robj_new_string(c.val)),
                             Bulk(Ptr(s[c.key]))))

cmd_del(s0, now, c) ==
    Answer([k \in DOMAIN s0 \ Range(c.keys) |-> s0[k]],
           Num(Cardinality(DOMAIN s0 \cap Range(c.keys))))

cmd_exists(s0, now, c) ==
    LET s == LookupAll(s0, c.keys, now) IN
    Answer(s, Num(Cardinality({i \in DOMAIN c.keys : Has(s, c.keys[i])})))

\* Mutant: the sum is stored before the overflow test.
incr_decr_store_first(s0, now, c) ==
    LET Bump(s, v) ==
          LET nv == Wrap(v + c.n) IN
          Answer(dict_set(s, c.key, robj_new_string(LlString(nv))),
                 IF (c.n > 0 /\ nv < v) \/ (c.n < 0 /\ nv > v) THEN Err ELSE Num(nv))
    IN  Access(s0, now, c.key, "string", LAMBDA s : Bump(s, 0),
               LAMBDA s : IF ~IsLl(Ptr(s[c.key])) THEN Answer(s, Err)
                          ELSE Bump(s, string_to_ll_n(Ptr(s[c.key]))))

\* The overflow test of the code is the wrapped sum being on the wrong side.
incr_decr(s0, now, c) ==
    LET Bump(s, v, expire) ==
          LET nv == Wrap(v + c.n) IN
          IF (c.n > 0 /\ nv < v) \/ (c.n < 0 /\ nv > v) THEN Answer(s, Err)
          ELSE Answer(dict_set(s, c.key, Obj("string", LlString(nv), expire)), Num(nv))
    IN  Access(s0, now, c.key, "string", LAMBDA s : Bump(s, 0, -1),
               LAMBDA s : IF ~IsLl(Ptr(s[c.key])) THEN Answer(s, Err)
                          ELSE Bump(s, string_to_ll_n(Ptr(s[c.key])), s[c.key].expire_at))
-----------------------------------------------------------------------------
\* EXPIRE and PEXPIRE; too many seconds are refused only for an existing key.
cmd_expire_generic(s0, now, c) ==
    LET s == lookup_key(s0, c.key, now) IN
    IF c.n < 0 THEN Answer(s0, Err)
    ELSE IF ~Has(s, c.key) THEN Answer(s, Num(0))
    ELSE IF c.unit = "s" /\ c.n > LLMax \div Sec THEN Answer(s, Err)
    ELSE Answer([s EXCEPT ![c.key].expire_at =
                   Wrap(now + (IF c.unit = "s" THEN c.n * Sec ELSE c.n))], Num(1))

cmd_expireat_generic(s0, now, c) ==
    LET s == lookup_key(s0, c.key, now) IN
    IF c.n < 0 \/ (c.unit = "s" /\ c.n > LLMax \div Sec) THEN Answer(s0, Err)
    ELSE IF ~Has(s, c.key) THEN Answer(s, Num(0))
    ELSE Answer([s EXCEPT ![c.key].expire_at = IF c.unit = "s" THEN c.n * Sec ELSE c.n],
                Num(1))

cmd_ttl_generic(s0, now, c) ==
    LET s == lookup_key(s0, c.key, now)
        rem == Max({0, s[c.key].expire_at - now})
    IN  IF ~Has(s, c.key) THEN Answer(s, Num(-2))
        ELSE IF s[c.key].expire_at < 0 THEN Answer(s, Num(-1))
        ELSE Answer(s, Num(IF c.unit = "s" THEN (rem + Sec \div 2) \div Sec ELSE rem))

cmd_type(s0, now, c) ==
    LET s == lookup_key(s0, c.key, now) IN
    Answer(s, IF Has(s, c.key) THEN <<"simple", Type(s[c.key])>> ELSE <<"simple", "none">>)

G == INSTANCE Glob

\* One pass counts the keys, a second one sends them.
cmd_keys(s0, now, c) ==
    LET hits == {k \in DOMAIN s0 :
                   ~key_expired(s0[k], now) /\ G!util_glob_match(c.pattern, KeyName[k])}
    IN  Answer(s0, Iterated(Cardinality(hits), hits))

cmd_flushall(s0, now, c) == Answer(<<>>, Ok)

cmd_dbsize(s0, now, c) == Answer(s0, Num(Cardinality(DOMAIN s0)))
=============================================================================
