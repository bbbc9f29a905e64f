-------------------------- MODULE MCBufferedParser --------------------------
(***************************************************************************)
(* BufferedParser for TLC: lines of at most four bytes, two headers,       *)
(* bodies of at most two bytes; answers of three or five bytes.            *)
(***************************************************************************)
EXTENDS BufferedParser

Line(k, n, s, v) == [kind |-> k, size |-> s, name |-> n, value |-> v]
Req(s) == Line("request", "", s, Junk)
Hdr(n, s, v) == Line("header", n, s, v)

Q(lines, body) == [lines |-> lines, body |-> body]

Plain == Q(<<Req(2)>>, <<>>)
Body == Q(<<Req(1), Hdr("length", 1, 2)>>, <<"cr", "lf">>)
Again == Q(<<Req(1), Hdr("x", 2, 2), Hdr("x", 1, 1), Hdr("length", 1, 1)>>, <<"text">>)
Twice == Q(<<Req(1), Hdr("length", 1, 2), Hdr("length", 2, 1)>>, <<"text">>)
Edge == Q(<<Req(4), Hdr("x", 3, Junk)>>, <<>>)
Faulty == { Q(<<Req(5)>>, <<>>),
            Q(<<Line("bad", "", 1, Junk)>>, <<>>),
            Q(<<Req(2), Line("bad", "", 1, Junk)>>, <<>>),
            Q(<<Req(1), Hdr("x", 1, Junk), Hdr("y", 1, Junk), Hdr("length", 1, 1)>>,
              <<"text">>),
            Q(<<Req(1), Hdr("te", 1, Junk)>>, <<>>),
            Q(<<Req(1), Hdr("length", 1, Junk)>>, <<>>),
            Q(<<Req(1), Hdr("length", 1, 3)>>, <<"text", "text", "text">>) }

MCScripts == { <<Body, Plain, Body>>, <<Again, Twice, Plain>>, <<Plain, Body, Edge, Plain>> }
               \cup { <<Body, q, Plain>> : q \in Faulty }

MCHeads == [v \in Verdicts |-> <<1, 2>>]
MCBodies == [v \in Verdicts |-> IF v = "ok" THEN <<3, 4, 5>> ELSE <<3>>]
=============================================================================
