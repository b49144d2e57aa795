---------------------------- MODULE MCTcpServer -----------------------------
(* Representative requests for TLC: one client produces, payloads of spaces only and with *)
(* blanks and a line break; the other sends one request of any other kind.                *)
EXTENDS TcpServer

Word(w) == [text |-> w, number |-> FALSE, value |-> 0]
Number(n) == [text |-> "number", number |-> TRUE, value |-> n]
Raw(command, fields, rest) == [command |-> command, fields |-> fields, rest |-> rest, fits |-> TRUE]
Append0(rest) == Raw("PRODUCE", <<Word("orders"), Number(0)>>, rest)

CONSTANTS k1, k2

TwoAndOne == [k \in Conn |-> IF k = k1 THEN 2 ELSE 1]

Requests == [k \in Conn |->
    IF k = k1
    THEN {Append0(<<"space", "space">>),
          Append0(<<"space", "tab", "break", "text">>)}
    ELSE {Raw("PING", <<>>, <<"space", "text">>),
          Raw("FETCH", <<Word("orders"), Number(0), Number(0)>>, <<>>),
          Raw("COMMIT", <<Word("g"), Word("c"), Word("orders"), Number(0), Number(LongMax)>>, <<"space">>),
          Raw("METRICS", <<>>, <<>>),
          [Raw("PING", <<>>, <<>>) EXCEPT !.fits = FALSE]}]
=============================================================================
