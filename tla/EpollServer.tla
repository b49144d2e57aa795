---------------------------- MODULE EpollServer -----------------------------
(***************************************************************************)
(* EpollServer: one thread that waits for readiness events, accepts        *)
(* clients, reads what has arrived into a buffer per client, carries out   *)
(* the complete frames in it, and sends the responses from a second buffer *)
(* whenever the socket takes more. Clients connect, send, read, shut down  *)
(* their sending side or disappear between any two system calls.           *)
(*                                                                         *)
(* Bytes come in units, two to a frame: the first has the length header,   *)
(* the second the rest of the payload. A buffer that ends within a frame   *)
(* has its first unit only. The broker is as far modelled as the server    *)
(* depends on it: a request is answered, makes or ends the membership of a *)
(* consumer in one group (LEAVE may name a consumer that joined through    *)
(* another connection), cannot be answered (it throws, or its response     *)
(* exceeds 64 KiB), or has a length header that is refused.                *)
(***************************************************************************)
EXTENDS Integers, Sequences, FiniteSets

CONSTANTS
    Conn,           \* client connections, each with one lifetime
    Consumer,       \* the consumer ids that clients use
    Kind,           \* kinds of requests that clients send, of those below
    MaxRequests,    \* bound on the requests of all connections
    ChunkUnits,     \* units that one recv() takes at most: its 4096 bytes
    SendSpace,      \* units that the socket holds until the client reads them
    MaxEvents,      \* events that one epoll_wait returns at most: 8
    MaxFailures,    \* bound on failing system calls
    MaxDepartures,  \* bound on clients that shut down or go
    Fd,             \* file descriptors of clients: numbers, 0 is the listening socket
    None

\* consumer is the id in a JOIN or LEAVE and means nothing in the others.
AllKinds == [op : {"ping", "join", "leave", "fails", "oversized"}, consumer : Consumer]

ASSUME KindAssumption == Kind \subseteq AllKinds
ASSUME FdAssumption ==
    /\ Fd \subseteq Nat \ {0} /\ IsFiniteSet(Fd) /\ IsFiniteSet(Conn)
    /\ Cardinality(Fd) >= Cardinality(Conn)
ASSUME BoundAssumption ==
    /\ {ChunkUnits, SendSpace, MaxEvents} \subseteq Nat \ {0}
    /\ {MaxRequests, MaxFailures, MaxDepartures} \subseteq Nat

RequestUnit == [id : 1..MaxRequests, kind : Kind, part : {1, 2}]
ResponseUnit == [id : 1..MaxRequests, part : {1, 2}]

ClientState ==
    [conn : Conn, read_buffer : Seq(RequestUnit), write_buffer : Seq(ResponseUnit),
     write_offset : Nat, joined : [Consumer -> Nat], out : BOOLEAN]

ASSUME NoneAssumption == None \notin ClientState

VARIABLES
    \* the clients and the sockets
    asked,      \* the kinds of the requests that a client has begun to send
    half,       \* of the last of them it has sent the first unit only
    inbox,      \* units that have arrived at the server's socket
    outbox,     \* units that the server's socket holds for the client
    got,        \* units that the client has received
    peer,       \* "up", "fin" (the client sends no more), "dead" (it has gone)
    \* the server
    conn,       \* "new", "backlog" (not accepted yet), "open", "closed"
    clients,    \* clients_, with the epoll registration (out: EPOLLOUT is asked for); of
                \* joined_groups the number of its entries for each consumer
    events,     \* what is left of the events of the last epoll_wait
    pc,         \* where the event loop is in handling the first of them
    \* the broker
    handled,    \* the requests of each connection that it has carried out
    members,    \* the consumers in the group
    \* history
    failures,   \* the number of system calls that have failed
    failed      \* connections that a system call failed for

sockets == <<asked, half, inbox, outbox, got, peer>>
broker == <<handled, members>>
history == <<failures, failed>>
vars == <<sockets, conn, clients, events, pc, broker, history>>

Smaller(m, n) == IF m < n THEN m ELSE n

----------------------------------------------------------------------------
\* The listening socket is in the epoll set and no client has connected.
Init ==
    /\ asked = [c \in Conn |-> <<>>]
    /\ half = [c \in Conn |-> FALSE]
    /\ inbox = [c \in Conn |-> <<>>]
    /\ outbox = [c \in Conn |-> <<>>]
    /\ got = [c \in Conn |-> <<>>]
    /\ peer = [c \in Conn |-> "up"]
    /\ conn = [c \in Conn |-> "new"]
    /\ clients = [f \in Fd |-> None]
    /\ events = <<>>
    /\ pc = "wait"
    /\ handled = [c \in Conn |-> <<>>]
    /\ members = {}
    /\ failures = 0
    /\ failed = {}

----------------------------------------------------------------------------
(* Clients and the kernel's end of their sockets *)

Connect(c) ==
    /\ conn[c] = "new"
    /\ pc # "stopped"
    /\ conn' = [conn EXCEPT ![c] = "backlog"]
    /\ UNCHANGED <<sockets, clients, events, pc, broker, history>>

Transmit(c, q, part) ==
    /\ conn[c] \in {"backlog", "open"}
    /\ peer[c] = "up"
    /\ inbox' = [inbox EXCEPT ![c] = Append(@, [id |-> Len(asked'[c]), kind |-> q, part |-> part])]
    /\ UNCHANGED <<outbox, got, peer, conn, clients, events, pc, broker, history>>

BeginRequest(c, q) ==
    /\ ~half[c]
    /\ Cardinality(UNION {{d} \X DOMAIN asked[d] : d \in Conn}) < MaxRequests
    /\ asked' = [asked EXCEPT ![c] = Append(@, q)]
    /\ half' = [half EXCEPT ![c] = TRUE]
    /\ Transmit(c, q, 1)

EndRequest(c) ==
    /\ half[c]
    /\ half' = [half EXCEPT ![c] = FALSE]
    /\ UNCHANGED asked
    /\ Transmit(c, asked[c][Len(asked[c])], 2)

Receive(c) ==
    /\ outbox[c] # <<>>
    /\ peer[c] # "dead"
    /\ got' = [got EXCEPT ![c] = Append(@, Head(outbox[c]))]
    /\ outbox' = [outbox EXCEPT ![c] = Tail(@)]
    /\ UNCHANGED <<asked, half, inbox, peer, conn, clients, events, pc, broker, history>>

\* The client shuts down its sending side, or goes.
Depart(c, how) ==
    /\ conn[c] \in {"backlog", "open"}
    /\ peer[c] = "up" \/ (peer[c] = "fin" /\ how = "dead")
    /\ Cardinality({d \in Conn \ {c} : peer[d] # "up"}) < MaxDepartures
    /\ peer' = [peer EXCEPT ![c] = how]
    /\ UNCHANGED <<asked, half, inbox, outbox, got, conn, clients, events, pc, broker, history>>

----------------------------------------------------------------------------
(* The event loop *)

Backlog == {c \in Conn : conn[c] = "backlog"}
InTable == {f \in Fd : clients[f] # None}

\* The readiness of a socket. The interest in reading and in errors is permanent.
ReadyEvent(f) ==
    LET c == clients[f].conn
    IN  [fd |-> f, conn |-> c,
         in |-> inbox[c] # <<>> \/ peer[c] # "up",
         out |-> clients[f].out /\ (Len(outbox[c]) < SendSpace \/ peer[c] = "dead"),
         hup |-> peer[c] = "dead"]

AcceptEvent == [fd |-> 0, conn |-> None, in |-> TRUE, out |-> FALSE, hup |-> FALSE]

ReadyEvents ==
    {e \in {ReadyEvent(f) : f \in InTable} : e.in \/ e.out}
        \cup {e \in {AcceptEvent} : Backlog # {}}

\* The orders of the elements of a set.
Orders(S) == {s \in [1..Cardinality(S) -> S] : \A i, j \in DOMAIN s : s[i] = s[j] => i = j}

\* epoll_wait: all sockets that are ready, or as many as fit, in any order.
EpollWait ==
    /\ pc = "wait"
    /\ ReadyEvents # {}
    /\ \E S \in SUBSET ReadyEvents :
          /\ Cardinality(S) = Smaller(MaxEvents, Cardinality(ReadyEvents))
          /\ events' \in Orders(S)
    /\ pc' = "dispatch"
    /\ UNCHANGED <<sockets, conn, clients, broker, history>>

NextEvent ==
    /\ events' = Tail(events)
    /\ pc' = IF Len(events) = 1 THEN "wait" ELSE "dispatch"

\* What close() does to the connections in S: if input is unread the kernel resets the
\* connection, and the client loses the output that it has not received.
CloseSockets(S) ==
    /\ conn' = [c \in Conn |-> IF c \in S THEN "closed" ELSE conn[c]]
    /\ outbox' = [c \in Conn |-> IF c \in S /\ inbox[c] # <<>> THEN <<>> ELSE outbox[c]]
    /\ UNCHANGED <<asked, half, inbox, got, peer>>

CloseClient_NoCleanup(s, f, m) ==
    /\ CloseSockets({s.conn})
    /\ clients' = [clients EXCEPT ![f] = None]
    /\ members' = m
    /\ NextEvent

CloseClient_StaysInEvent(s, f, m) ==
    /\ CloseSockets({s.conn})
    /\ clients' = [clients EXCEPT ![f] = None]
    /\ members' = m \ {i \in Consumer : s.joined[i] > 0}
    /\ UNCHANGED <<events, pc>>

\* Of the members m, those in the client's list are removed (s is the client's state; by
\* now they may be members through another connection), the client is forgotten with its
\* buffers, and the loop goes on to the next event.
CloseClient(s, f, m) ==
    /\ CloseSockets({s.conn})
    /\ clients' = [clients EXCEPT ![f] = None]
    /\ members' = m \ {i \in Consumer : s.joined[i] > 0}
    /\ NextEvent

\* A system call on behalf of c fails.
Fails(c) ==
    /\ failures < MaxFailures
    /\ failures' = failures + 1
    /\ failed' = failed \cup {c}

Dispatch ==
    LET e == Head(events)
    IN  /\ pc = "dispatch"
        /\ UNCHANGED history
        /\ IF e.fd = 0
           THEN pc' = "accept" /\ UNCHANGED <<sockets, conn, clients, events, broker>>
           ELSE IF clients[e.fd] = None
           THEN NextEvent /\ UNCHANGED <<sockets, conn, clients, broker>>
           ELSE IF e.hup
           THEN CloseClient(clients[e.fd], e.fd, members) /\ UNCHANGED handled
           ELSE pc' = (IF e.in THEN "read" ELSE "write") /\ UNCHANGED <<sockets, conn, clients, events, broker>>

\* accept() hands out the smallest descriptor that is free.
Accept ==
    /\ pc = "accept"
    /\ \E c \in Backlog :
          LET f == CHOOSE g \in Fd \ InTable : \A h \in Fd \ InTable : g <= h
          IN  /\ conn' = [conn EXCEPT ![c] = "open"]
              /\ clients' = [clients EXCEPT ![f] =
                    [conn |-> c, read_buffer |-> <<>>, write_buffer |-> <<>>, write_offset |-> 0,
                     joined |-> [i \in Consumer |-> 0], out |-> FALSE]]
    /\ UNCHANGED <<sockets, events, pc, broker, history>>

\* fcntl or epoll_ctl fails for an accepted client.
AcceptFails ==
    /\ pc = "accept"
    /\ \E c \in Backlog : Fails(c) /\ CloseSockets({c})
    /\ UNCHANGED <<clients, events, pc, broker>>

\* accept() itself fails: whoever is left is reported again by the next epoll_wait.
AcceptGivesUp ==
    /\ pc = "accept"
    /\ Backlog # {}
    /\ Fails(None)
    /\ NextEvent
    /\ UNCHANGED <<sockets, conn, clients, broker>>

AcceptDone ==
    /\ pc = "accept"
    /\ Backlog = {}
    /\ NextEvent
    /\ UNCHANGED <<sockets, conn, clients, broker, history>>

----------------------------------------------------------------------------
(* Reading. f is the descriptor of the event, s the state of its client. *)

Current == Head(events).fd
State == clients[Current]

\* recv() would block: on to the writing, if the event says so.
ReadDone ==
    IF Head(events).out THEN pc' = "write" /\ UNCHANGED events ELSE NextEvent

Recv_BlockedIsClosed ==
    LET c == State.conn
        n == Smaller(ChunkUnits, Len(inbox[c]))
    IN  /\ pc = "read"
        /\ UNCHANGED <<handled, history>>
        /\ IF n > 0
           THEN /\ clients' = [clients EXCEPT ![Current].read_buffer = @ \o SubSeq(inbox[c], 1, n)]
                /\ inbox' = [inbox EXCEPT ![c] = SubSeq(@, n + 1, Len(@))]
                /\ pc' = "extract"
                /\ UNCHANGED <<asked, half, outbox, got, peer, conn, events, members>>
           ELSE CloseClient(State, Current, members)

\* All that has arrived is taken, in chunks; after the last, the end of the input or a
\* reset closes the client, whatever output is still queued.
Recv ==
    LET c == State.conn
        n == Smaller(ChunkUnits, Len(inbox[c]))
    IN  /\ pc = "read"
        /\ UNCHANGED <<handled, history>>
        /\ IF n > 0
           THEN /\ clients' = [clients EXCEPT ![Current].read_buffer = @ \o SubSeq(inbox[c], 1, n)]
                /\ inbox' = [inbox EXCEPT ![c] = SubSeq(@, n + 1, Len(@))]
                /\ pc' = "extract"
                /\ UNCHANGED <<asked, half, outbox, got, peer, conn, events, members>>
           ELSE IF peer[c] = "up"
           THEN ReadDone /\ UNCHANGED <<sockets, conn, clients, members>>
           ELSE CloseClient(State, Current, members)

\* recv() fails on a connection that is well.
RecvFails ==
    /\ pc = "read"
    /\ Fails(State.conn)
    /\ CloseClient(State, Current, members)
    /\ UNCHANGED handled

\* The buffer has no complete frame: recv() again.
ExtractDone ==
    /\ pc = "extract"
    /\ Len(State.read_buffer) < 2
    /\ \A i \in DOMAIN State.read_buffer : State.read_buffer[i].kind.op # "oversized"
    /\ pc' = "read"
    /\ UNCHANGED <<sockets, conn, clients, events, broker, history>>

\* A length header above the limit.
RejectFrame ==
    /\ pc = "extract"
    /\ State.read_buffer # <<>>
    /\ State.read_buffer[1].kind.op = "oversized"
    /\ CloseClient(State, Current, members)
    /\ UNCHANGED <<handled, history>>

\* What the first request of the buffer, answered OK, does to the list of its connection:
\* JOIN of a consumer that is no member adds an entry; LEAVE of a member takes the entry
\* from this list, if it is there. The list of the connection that made it keeps its own.
AfterRequest(s) ==
    LET q == s.read_buffer[1].kind
        i == q.consumer
    IN  CASE q.op = "join" /\ i \notin members -> [s EXCEPT !.joined[i] = @ + 1]
          [] q.op = "leave" /\ i \in members /\ s.joined[i] > 0 -> [s EXCEPT !.joined[i] = @ - 1]
          [] OTHER -> s

\* What it does to the group, through whatever connection it comes; JOIN of a member and
\* LEAVE of an id that is no member are answered ERROR and change nothing.
Membership(s) ==
    LET q == s.read_buffer[1].kind
    IN  CASE q.op = "join" -> members \cup {q.consumer}
          [] q.op = "leave" -> members \ {q.consumer}
          [] OTHER -> members

QueueResponse_NotArmed(s, i) ==
    [s EXCEPT !.write_buffer = @ \o <<[id |-> i, part |-> 1], [id |-> i, part |-> 2]>>]

\* queue_response: the framed response, and EPOLLOUT.
QueueResponse(s, i) ==
    [s EXCEPT !.write_buffer = @ \o <<[id |-> i, part |-> 1], [id |-> i, part |-> 2]>>,
              !.out = TRUE]

EraseFrame_All(s) == [s EXCEPT !.read_buffer = <<>>]

\* The completed frame goes, what follows it stays.
EraseFrame(s) == [s EXCEPT !.read_buffer = SubSeq(@, 3, Len(@))]

Complete ==
    /\ pc = "extract"
    /\ Len(State.read_buffer) >= 2
    /\ State.read_buffer[1].kind.op # "oversized"
    /\ handled' = [handled EXCEPT ![State.conn] = Append(@, State.read_buffer[1].id)]

HandleFrame ==
    LET s == State
    IN  /\ Complete
        /\ s.read_buffer[1].kind.op # "fails"
        /\ clients' = [clients EXCEPT ![Current] =
                          EraseFrame(QueueResponse(AfterRequest(s), s.read_buffer[1].id))]
        /\ members' = Membership(s)
        /\ UNCHANGED <<sockets, conn, events, pc, history>>

\* The request throws, or its response is too long for a frame.
HandleFails ==
    /\ Complete
    /\ State.read_buffer[1].kind.op = "fails"
    /\ CloseClient(State, Current, members)
    /\ UNCHANGED history

\* epoll_ctl fails in queue_response, after the request: a JOIN is undone, too.
QueueFails ==
    /\ Complete
    /\ State.read_buffer[1].kind.op # "fails"
    /\ Fails(State.conn)
    /\ CloseClient(AfterRequest(State), Current, Membership(State))

----------------------------------------------------------------------------
(* Writing *)

Advance_Resends(s, n) == s

\* Past the units sent; the rest stays.
Advance(s, n) == [s EXCEPT !.write_offset = @ + n]

Drain_KeepsOffset(s) == [s EXCEPT !.write_buffer = <<>>, !.out = FALSE]

\* Everything is sent: the buffer starts again, without EPOLLOUT.
Drain(s) == [s EXCEPT !.write_buffer = <<>>, !.write_offset = 0, !.out = FALSE]

Send ==
    LET s == State
        c == State.conn
        pending == Len(s.write_buffer) - s.write_offset
        n == Smaller(pending, SendSpace - Len(outbox[c]))
    IN  /\ pc = "write"
        /\ pending > 0
        /\ UNCHANGED <<handled, history>>
        /\ IF peer[c] = "dead"
           THEN CloseClient(s, Current, members)
           ELSE IF n > 0
           THEN /\ outbox' = [outbox EXCEPT ![c] =
                                 @ \o SubSeq(s.write_buffer, s.write_offset + 1, s.write_offset + n)]
                /\ clients' = [clients EXCEPT ![Current] = Advance(s, n)]
                /\ UNCHANGED <<asked, half, inbox, got, peer, conn, events, pc, members>>
           ELSE NextEvent /\ UNCHANGED <<sockets, conn, clients, members>>

SendDone ==
    /\ pc = "write"
    /\ State.write_offset >= Len(State.write_buffer)
    /\ clients' = [clients EXCEPT ![Current] = Drain(State)]
    /\ NextEvent
    /\ UNCHANGED <<sockets, conn, broker, history>>

\* send or epoll_ctl fails on a connection that is well.
SendFails ==
    /\ pc = "write"
    /\ Fails(State.conn)
    /\ CloseClient(State, Current, members)
    /\ UNCHANGED handled

\* epoll_wait fails: start closes everything, and the process ends with the memberships,
\* which nobody removes.
Stop ==
    /\ pc = "wait"
    /\ Fails(None)
    /\ CloseSockets(Backlog \cup {clients[f].conn : f \in InTable})
    /\ clients' = [f \in Fd |-> None]
    /\ pc' = "stopped"
    /\ UNCHANGED <<events, broker>>

----------------------------------------------------------------------------
Server ==
    \/ EpollWait \/ Dispatch \/ Accept \/ AcceptFails \/ AcceptGivesUp \/ AcceptDone
    \/ Recv \/ RecvFails \/ ExtractDone \/ RejectFrame \/ HandleFrame \/ HandleFails \/ QueueFails
    \/ Send \/ SendDone \/ SendFails \/ Stop

Client(c) ==
    \/ Connect(c) \/ EndRequest(c) \/ Receive(c)
    \/ \E q \in Kind : BeginRequest(c, q)
    \/ \E how \in {"fin", "dead"} : Depart(c, how)

Next == Server \/ \E c \in Conn : Client(c)

Spec == Init /\ [][Next]_vars

\* The event loop keeps running, and a client reads the responses that reach it.
FairSpec == Spec /\ WF_vars(Server) /\ \A c \in Conn : WF_vars(Receive(c))

----------------------------------------------------------------------------
(* Properties *)

\* The state has its type.
TypeOK ==
    /\ asked \in [Conn -> Seq(Kind)]
    /\ half \in [Conn -> BOOLEAN]
    /\ inbox \in [Conn -> Seq(RequestUnit)]
    /\ outbox \in [Conn -> Seq(ResponseUnit)]
    /\ got \in [Conn -> Seq(ResponseUnit)]
    /\ peer \in [Conn -> {"up", "fin", "dead"}]
    /\ conn \in [Conn -> {"new", "backlog", "open", "closed"}]
    /\ \A f \in Fd : clients[f] # None =>
          /\ clients[f] \in ClientState
          /\ clients[f].write_offset <= Len(clients[f].write_buffer)
          /\ conn[clients[f].conn] = "open"
    /\ pc \in {"wait", "dispatch", "accept", "read", "extract", "write", "stopped"}
    /\ handled \in [Conn -> Seq(1..MaxRequests)]
    /\ members \subseteq Consumer

\* The units of the requests begun by c, as far as they were sent.
Sent(c) ==
    [i \in 1..(2 * Len(asked[c]) - (IF half[c] THEN 1 ELSE 0)) |->
        [id |-> (i + 1) \div 2, kind |-> asked[c][(i + 1) \div 2], part |-> 2 - (i % 2)]]

\* The units of the responses to the requests carried out for c.
Answered(c) ==
    [i \in 1..(2 * Len(handled[c])) |-> [id |-> handled[c][(i + 1) \div 2], part |-> 2 - (i % 2)]]

\* Of an open client no byte is lost, repeated or out of place, wherever reads, frames and
\* partial sends were cut: the frames handled, the read buffer and what has arrived are
\* what it sent; what it has, what is under way and what is left of the write buffer are
\* the responses to what was handled.
StreamsIntact ==
    \A f \in InTable :
        LET s == clients[f]
            c == s.conn
            done == SubSeq(Sent(c), 1, 2 * Len(handled[c]))
        IN  /\ done \o s.read_buffer \o inbox[c] = Sent(c)
            /\ got[c] \o outbox[c] \o SubSeq(s.write_buffer, s.write_offset + 1, Len(s.write_buffer))
                  = Answered(c)

\* EPOLLOUT is asked for exactly while there is output: a response never waits for an
\* event that cannot come, and the loop does not spin on a client that has none.
OutputArmed ==
    \A f \in InTable : clients[f].out <=> clients[f].write_buffer # <<>>

\* Although descriptors are used again within one batch of events, every event that is
\* left is handled for the connection it was reported for; the branch for unknown
\* descriptors is never taken.
EventsFresh ==
    \A i \in DOMAIN events :
        events[i].fd # 0 => /\ clients[events[i].fd] # None
                            /\ clients[events[i].fd].conn = events[i].conn

\* While the server runs, every member of the group is in the list of a client of the
\* table, so that the end of that connection removes it: no path that closes a connection,
\* and no LEAVE through another one, leaves a member that nobody will remove.
MembersConnected ==
    pc # "stopped" => \A i \in members : \E f \in InTable : clients[f].joined[i] > 0

\* The server closes a client that is there only for a request that it cannot answer or
\* because a system call failed, never because it was slow or its frames were cut.
ClosedForCause ==
    \A c \in Conn : conn[c] = "closed" =>
        \/ peer[c] # "up"
        \/ c \in failed \/ pc = "stopped"
        \/ \E i \in DOMAIN asked[c] : asked[c][i].op \in {"fails", "oversized"}

\* The requests of c that were sent completely, and those that were answered.
RequestsOf(c) == [i \in 1..(Len(asked[c]) - (IF half[c] THEN 1 ELSE 0)) |-> i]
AnswersTo(c) == [i \in 1..(Len(got[c]) \div 2) |-> got[c][2 * i].id]

\* No request waits forever: again and again, all that were sent completely are answered
\* or their connection is closed.
RequestsAnswered ==
    []<>(\A c \in Conn : conn[c] \in {"new", "closed"} \/ AnswersTo(c) = RequestsOf(c))

\* The server keeps the promises of Session to every connection.
Promise == INSTANCE Session WITH
    Request <- 1..MaxRequests,
    requests <- [c \in Conn |-> RequestsOf(c)],
    executed <- handled,
    answers <- [c \in Conn |-> AnswersTo(c)],
    open <- {c \in Conn : conn[c] # "closed"}

ImplementsSession == Promise!Spec
=============================================================================
