-------------------------------- MODULE Resp --------------------------------
(***************************************************************************)
(* The incremental RESP parser of resp.c: a buffer is a sequence of byte   *)
(* codes, and a parse returns the bytes it consumed with the arguments, 0  *)
(* when the command is incomplete and -1 when it is malformed.             *)
(***************************************************************************)
EXTENDS Integers, Sequences

CONSTANTS MAX_ARGC, MAX_BULK_LEN, LLONG_MAX

CR == 13
LF == 10
Star == 42
Dollar == 36
Plus == 43
Minus == 45
Zero == 48

IsDigit(b) == b \in Zero .. Zero + 9

\* -1 stands for a number that does not parse or does not fit.
RECURSIVE Magnitude(_, _)
Magnitude(s, v) ==
    IF s = <<>> THEN v
    ELSE LET d == Head(s) - Zero IN
         IF ~IsDigit(Head(s)) \/ v > (LLONG_MAX - d) \div 10 THEN -1
         ELSE Magnitude(Tail(s), v * 10 + d)

string_to_ll_n(s) ==
    IF s = <<>> THEN [ok |-> FALSE, v |-> 0]
    ELSE LET signed == Head(s) \in {Plus, Minus}
             v == IF signed /\ Len(s) = 1 THEN -1 ELSE Magnitude(IF signed THEN Tail(s) ELSE s, 0)
         IN  [ok |-> v >= 0, v |-> IF Head(s) = Minus THEN -v ELSE v]

\* Where the CRLF that ends the line at pos begins, 0 if it has not arrived.
RECURSIVE get_line(_, _)
get_line(buf, pos) ==
    IF pos >= Len(buf) THEN 0
    ELSE IF buf[pos] = CR /\ buf[pos + 1] = LF THEN pos
    ELSE get_line(buf, pos + 1)

Parsed(n, argv) == [n |-> n, argv |-> argv]
Incomplete == Parsed(0, <<>>)
Malformed == Parsed(-1, <<>>)

\* The arguments that are still to come, from pos on.
RECURSIVE Arguments(_, _, _, _)
Arguments(buf, pos, count, argv) ==
    LET end == get_line(buf, pos)
        line == SubSeq(buf, pos + 1, end - 1)
        slen == string_to_ll_n(line)
        from == end + 2
        to == from + slen.v
    IN  IF count = 0 THEN Parsed(pos - 1, argv)
        ELSE IF pos > Len(buf) THEN Incomplete
        ELSE IF buf[pos] \notin {Dollar, Plus} THEN Malformed
        ELSE IF end = 0 THEN Incomplete
        ELSE IF buf[pos] = Plus THEN Arguments(buf, from, count - 1, Append(argv, line))
        ELSE IF ~slen.ok THEN Malformed
        ELSE IF slen.v < 0 THEN Arguments(buf, from, count - 1, Append(argv, <<>>))
        ELSE IF slen.v > MAX_BULK_LEN THEN Malformed
        ELSE IF to + 1 > Len(buf) THEN Incomplete
        ELSE IF buf[to] # CR \/ buf[to + 1] # LF THEN Malformed
        ELSE Arguments(buf, to + 2, count - 1, Append(argv, SubSeq(buf, from, to - 1)))

\* Mutant: a line ends at CR, and the LF is skipped unseen.
resp_parse_command_cr(buf) ==
    LET ends == {i \in DOMAIN buf : buf[i] = CR} IN
    IF buf = <<>> \/ ends = {} THEN Incomplete
    ELSE LET end == CHOOSE i \in ends : \A j \in ends : i <= j
             count == string_to_ll_n(SubSeq(buf, 2, end - 1))
         IN  IF buf[1] # Star \/ ~count.ok THEN Malformed
             ELSE IF count.v = 0 THEN Parsed(end, <<>>)
             ELSE Arguments(buf, end + 2, count.v, <<>>)

resp_parse_command(buf) ==
    LET end == get_line(buf, 1)
        count == string_to_ll_n(SubSeq(buf, 2, end - 1))
    IN  IF buf = <<>> THEN Incomplete
        ELSE IF buf[1] # Star THEN Malformed
        ELSE IF end = 0 THEN Incomplete
        ELSE IF ~count.ok \/ count.v < 0 \/ count.v > MAX_ARGC THEN Malformed
        ELSE Arguments(buf, end + 2, count.v, <<>>)
=============================================================================
