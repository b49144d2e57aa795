------------------------------ MODULE Session -------------------------------
(***************************************************************************)
(* What a server promises to each of its connections, whatever its threads *)
(* or event loop do: the requests of a connection are carried out in the   *)
(* order they were sent, each at most once, and the client receives their  *)
(* responses in that order, without gaps. A connection may be closed at    *)
(* any moment, which loses responses only at the end. EpollServer and      *)
(* TcpServer implement this.                                               *)
(***************************************************************************)
EXTENDS Naturals, Sequences

CONSTANTS
    Conn,       \* client connections
    Request     \* the requests of a connection, in the sense of their identity

VARIABLES
    requests,   \* the requests a client has sent completely
    executed,   \* those the broker has carried out
    answers,    \* the responses the client has received completely
    open        \* the connections the server has not closed

vars == <<requests, executed, answers, open>>

Init ==
    /\ requests = [c \in Conn |-> <<>>]
    /\ executed = [c \in Conn |-> <<>>]
    /\ answers = [c \in Conn |-> <<>>]
    /\ open = Conn

Send(c) ==
    /\ \E r \in Request : requests' = [requests EXCEPT ![c] = Append(@, r)]
    /\ UNCHANGED <<executed, answers, open>>

\* The next request is carried out; the server may find that it has to close the
\* connection instead of answering it.
Execute(c) ==
    /\ c \in open
    /\ Len(executed[c]) < Len(requests[c])
    /\ executed' = [executed EXCEPT ![c] = Append(@, requests[c][Len(@) + 1])]
    /\ open' \in {open, open \ {c}}
    /\ UNCHANGED <<requests, answers>>

Answer(c) ==
    /\ Len(answers[c]) < Len(executed[c])
    /\ answers' = [answers EXCEPT ![c] = Append(@, executed[c][Len(@) + 1])]
    /\ UNCHANGED <<requests, executed, open>>

Close(S) ==
    /\ open' = open \ S
    /\ UNCHANGED <<requests, executed, answers>>

Next ==
    \/ \E c \in Conn : Send(c) \/ Execute(c) \/ Answer(c)
    \/ \E S \in SUBSET open : Close(S)

Spec == Init /\ [][Next]_vars
=============================================================================
