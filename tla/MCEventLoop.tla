---------------------------- MODULE MCEventLoop ----------------------------
(* Finite instances of EventLoop for TLC, with the parser of Resp. *)
EXTENDS EventLoop, TLC

CONSTANTS p1, p2, p3, MAX_ARGC, MAX_BULK_LEN, LLONG_MAX

R == INSTANCE Resp

RespParse(buf) == R!resp_parse_command(buf)

P == 112    \* two command names, one letter each
Q == 113

Item(bytes, argv) == [bytes |-> bytes, argv |-> argv, malformed |-> FALSE]
Junk(bytes) == [bytes |-> bytes, argv |-> <<>>, malformed |-> TRUE]
CRLF == <<R!CR, R!LF>>

\* *1 +x, *1 $1 x, *0, *2 +p $-1, and a bulk string longer than the input buffer
Simple(x) == Item(<<R!Star, 49>> \o CRLF \o <<R!Plus, x>> \o CRLF, <<<<x>>>>)
Bulk(x) == Item(<<R!Star, 49>> \o CRLF \o <<R!Dollar, 49>> \o CRLF \o <<x>> \o CRLF, <<<<x>>>>)
Nothing == Item(<<R!Star, 48>> \o CRLF, <<>>)
Null == Item(<<R!Star, 50>> \o CRLF \o <<R!Plus, P>> \o CRLF \o <<R!Dollar, R!Minus, 49>> \o CRLF,
             <<<<P>>, <<>>>>)
Payload == [i \in 1 .. 12 |-> P]
Huge == Item(<<R!Star, 49>> \o CRLF \o <<R!Dollar, 49, 50>> \o CRLF \o Payload \o CRLF, <<Payload>>)
QuitArgv == <<<<Q>>>>

\* One peer with something to say, one with a command and one that only connects.
SomeScripts ==
    {(p1 :> s) @@ (p2 :> <<Simple(P)>>) @@ (p3 :> <<>>) :
       s \in {<<Simple(P), Nothing, Bulk(P)>>, <<Null, Simple(Q), Simple(P)>>,
              <<Bulk(P), Junk(<<P>>)>>, <<Huge>>}}

SomeOrder == <<p1, p2, p3>>

\* Inside every kind of line, between CR and LF and before it.
SomeCuts == (p1 :> {3, 11}) @@ (p2 :> {}) @@ (p3 :> {})
=============================================================================
