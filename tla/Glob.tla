-------------------------------- MODULE Glob --------------------------------
(***************************************************************************)
(* The glob matcher of util.c, which decides what KEYS lists, and what its *)
(* header promises.  Patterns and names are sequences of byte codes.       *)
(***************************************************************************)
EXTENDS Integers, Sequences, FiniteSetsExt

Star == 42
Question == 63
Open == 91
Close == 93
Bang == 33
Caret == 94
Dash == 45

\* The byte at i of a zero-terminated string.
At(p, i) == IF i > Len(p) THEN 0 ELSE p[i]

\* A pattern byte is compared as a char, which is signed, with an unsigned one.
Char(b) == IF b > 127 THEN b - 256 ELSE b

\* The items of a class from q on: where the scan ends and whether c was met.
RECURSIVE Items(_, _, _, _, _)
Items(p, q, first, c, matched) ==
    IF At(p, q) = 0 \/ (~first /\ p[q] = Close) THEN [q |-> q, matched |-> matched]
    ELSE IF At(p, q + 1) = Dash /\ At(p, q + 2) \notin {0, Close}
         THEN Items(p, q + 3, FALSE, c, matched \/ c \in p[q] .. p[q + 2])
         ELSE Items(p, q + 1, FALSE, c, matched \/ c = p[q])

\* Mutant: a bracket at the front closes the class.
glob_class_empty(p, i, c) ==
    LET negate == At(p, i + 1) \in {Bang, Caret}
        scan == Items(p, IF negate THEN i + 2 ELSE i + 1, FALSE, c, FALSE)
    IN  [next |-> scan.q + 1, ok |-> At(p, scan.q) = Close /\ scan.matched # negate]

\* The class that opens at i: where the pattern goes on, and whether c is in it.
glob_class(p, i, c) ==
    LET negate == At(p, i + 1) \in {Bang, Caret}
        scan == Items(p, IF negate THEN i + 2 ELSE i + 1, TRUE, c, FALSE)
    IN  [next |-> scan.q + 1, ok |-> At(p, scan.q) = Close /\ scan.matched # negate]

\* The pattern from i on against the name from j on.
RECURSIVE glob_rec(_, _, _, _)
glob_rec(p, i, s, j) ==
    CASE At(p, i) = 0 -> j > Len(s)
      [] At(p, i) = Star ->
           LET n == Min({k \in i .. Len(p) + 1 : At(p, k) # Star}) IN
           At(p, n) = 0 \/ \E q \in j .. Len(s) + 1 : glob_rec(p, n, s, q)
      [] OTHER ->
           /\ j <= Len(s)
           /\ CASE p[i] = Question -> glob_rec(p, i + 1, s, j + 1)
                [] p[i] = Open -> LET class == glob_class(p, i, s[j]) IN
                                  class.ok /\ glob_rec(p, class.next, s, j + 1)
                [] OTHER -> Char(p[i]) = s[j] /\ glob_rec(p, i + 1, s, j + 1)

util_glob_match(pat, s) == glob_rec(pat, 1, s, 1)
-----------------------------------------------------------------------------
(* util.h: a pattern is a sequence of stars and of sets of bytes. *)

Byte == 1 .. 127

\* The bytes between the brackets of a class.
RECURSIVE Listed(_)
Listed(body) ==
    IF body = <<>> THEN {}
    ELSE IF Len(body) >= 3 /\ body[2] = Dash
         THEN body[1] .. body[3] \cup Listed(SubSeq(body, 4, Len(body)))
    ELSE {body[1]} \cup Listed(Tail(body))

\* The bracket that closes the class opened at i is the first one behind its first item.
ClassEnds(p, i) ==
    {k \in i + 2 + (IF At(p, i + 1) \in {Bang, Caret} THEN 1 ELSE 0) .. Len(p) : p[k] = Close}

Any == [star |-> TRUE, set |-> {}]
One(set) == [star |-> FALSE, set |-> set]

RECURSIVE Tokens(_, _)
Tokens(p, i) ==
    CASE i > Len(p) -> <<>>
      [] i <= Len(p) /\ p[i] = Star -> <<Any>> \o Tokens(p, i + 1)
      [] i <= Len(p) /\ p[i] = Question -> <<One(Byte)>> \o Tokens(p, i + 1)
      [] i <= Len(p) /\ p[i] = Open ->
           IF ClassEnds(p, i) = {} THEN <<One({})>>
           ELSE LET end == Min(ClassEnds(p, i))
                    negate == p[i + 1] \in {Bang, Caret}
                    listed == Listed(SubSeq(p, IF negate THEN i + 2 ELSE i + 1, end - 1))
                IN  <<One(IF negate THEN Byte \ listed ELSE listed)>> \o Tokens(p, end + 1)
      [] OTHER -> <<One({p[i]})>> \o Tokens(p, i + 1)

\* reach[k]: the lengths of the prefixes of a name that the first k tokens match.
Matches(pat, s) ==
    LET token == Tokens(pat, 1)
        reach[k \in 0 .. Len(token)] ==
          IF k = 0 THEN {0}
          ELSE IF token[k].star THEN {j \in 0 .. Len(s) : \E i \in reach[k - 1] : i <= j}
          ELSE {j + 1 : j \in {i \in reach[k - 1] : i < Len(s) /\ s[i + 1] \in token[k].set}}
    IN  Len(s) \in reach[Len(token)]
=============================================================================
