----------------------------- MODULE TcpServer ------------------------------
(***************************************************************************)
(* TcpServer: one thread for each client reads a frame, parses it, lets    *)
(* the broker handle it, which ends with the recording of metrics, and     *)
(* writes the response, until the client has closed or something throws.   *)
(* The threads share the broker's topics and metrics.                      *)
(*                                                                         *)
(* The broker is a leader, or stands alone. What PRODUCE does on disk and  *)
(* on the follower is the subject of TopicLog and Replication, the         *)
(* memberships of connections of ConsumerGroup; here they decide only      *)
(* whether the answer is OK, ERROR or an exception.                        *)
(***************************************************************************)
EXTENDS Protocol, Metrics

CONSTANTS
    Conn,           \* client connections, each with one lifetime
    RawRequest,     \* the requests that each client may send
    MaxRequests,    \* bound on the requests of each connection
    MaxResponse,    \* characters of a FETCH response that fit a frame: 64 KiB
    MaxThrows,      \* bound on the appends that throw
    MaxEnds,        \* bound on the clients that shut down or go
    None

ASSUME ConnAssumption == IsFiniteSet(Conn)
ASSUME BoundAssumption == {MaxResponse, MaxThrows, MaxEnds} \subseteq Nat /\ MaxRequests \in [Conn -> Nat]
ASSUME RawAssumption == RawRequest \in [Conn -> SUBSET RawRequests]

Response ==
    [text : {"PONG", "OK", "ERROR", "messages", "metrics"},
     messages : Seq(Char),
     counters : UNION {[S -> Nat] : S \in SUBSET CounterNames},
     latencies : {<<>>} \cup [max : Nat, average : Nat, p50 : Nat, p95 : Nat, p99 : Nat]]

ASSUME NoneAssumption == None \notin Response

VARIABLES
    \* the clients
    sent,       \* the requests that a client has sent completely
    end,        \* "open", "eof" (it sends no more, maybe amid a frame), "gone"
    answers,    \* the requests whose responses have reached the client, in order
    \* the threads
    pc,         \* what the thread of each connection does next
    request,    \* the request it works on
    response,   \* the response to it
    todo,       \* the counters it has yet to read or to add to
    read,       \* the number of requests it has read
    \* the broker
    topics,     \* topics_: the messages in each partition of the topics that exist
    \* history
    handled,    \* the number of requests of each connection that the broker has carried out
    thrown,     \* the connections whose last request threw in the broker
    before      \* the requests answered before a METRICS request was read

clients == <<sent, end, answers>>
thread == <<pc, request, response, todo, read>>
history == <<handled, thrown, before>>
vars == <<clients, thread, topics, metrics, history>>

\* The function f with y at x.
With(f, x, y) == [z \in DOMAIN f \cup {x} |-> IF z = x THEN y ELSE f[z]]

\* The first f[k] requests of each connection k.
First(f) == UNION {{k} \X (1..f[k]) : k \in Conn}
Answered == Cardinality(First([k \in Conn |-> Len(answers[k])]))

Init ==
    /\ sent = [k \in Conn |-> <<>>]
    /\ end = [k \in Conn |-> "open"]
    /\ answers = [k \in Conn |-> <<>>]
    /\ pc = [k \in Conn |-> "new"]
    /\ request = [k \in Conn |-> Invalid]
    /\ response = [k \in Conn |-> None]
    /\ todo = [k \in Conn |-> <<>>]
    /\ read = [k \in Conn |-> 0]
    /\ topics = <<>>
    /\ MetricsInit
    /\ handled = [k \in Conn |-> 0]
    /\ thrown = {}
    /\ before = [k \in Conn |-> 0]

----------------------------------------------------------------------------
(* Clients. What arrives while its thread is busy is as good as arriving just before the *)
(* thread looks: clients send and end only then.                                         *)

Send(k, raw) ==
    /\ pc[k] = "read"
    /\ end[k] = "open"
    /\ Len(sent[k]) < MaxRequests[k]
    /\ sent' = [sent EXCEPT ![k] = Append(@, raw)]
    /\ UNCHANGED <<end, answers, thread, topics, metrics, history>>

\* The client shuts down its sending side, between or within frames, or goes.
End(k, how) ==
    /\ pc[k] = "read" \/ (pc[k] = "write" /\ how = "gone")
    /\ end[k] = "open"
    /\ Cardinality({c \in Conn : end[c] # "open"}) < MaxEnds
    /\ end' = [end EXCEPT ![k] = how]
    /\ UNCHANGED <<sent, answers, thread, topics, metrics, history>>

----------------------------------------------------------------------------
(* The thread of a connection: reading *)

Goto(k, where) == pc' = [pc EXCEPT ![k] = where]

Accept(k) ==
    /\ pc[k] = "new"
    /\ Goto(k, "read")
    /\ UNCHANGED <<clients, request, response, todo, read, topics, metrics, history>>

NextFrame(k) == sent[k][read[k] + 1]

ReadFrame(k) ==
    /\ pc[k] = "read"
    /\ read[k] < Len(sent[k])
    /\ NextFrame(k).fits
    /\ request' = [request EXCEPT ![k] = parse_request(NextFrame(k))]
    /\ read' = [read EXCEPT ![k] = @ + 1]
    /\ before' = [before EXCEPT ![k] = IF request'[k].type = "METRICS" THEN Answered ELSE 0]
    /\ Goto(k, "handle")
    /\ UNCHANGED <<clients, response, todo, topics, metrics, handled, thrown>>

ReadEof_DropsFrames(k) ==
    /\ pc[k] = "read"
    /\ end[k] # "open"
    /\ Goto(k, "closing")
    /\ UNCHANGED <<clients, request, response, todo, read, topics, metrics, history>>

\* The input has ended: read_frame returns false, or throws when it is within a payload.
ReadEof(k) ==
    /\ pc[k] = "read"
    /\ read[k] = Len(sent[k])
    /\ end[k] # "open"
    /\ Goto(k, "closing")
    /\ UNCHANGED <<clients, request, response, todo, read, topics, metrics, history>>

\* read_frame throws: the length is above the limit, or the connection was reset.
ReadThrows(k) ==
    /\ pc[k] = "read"
    /\ \/ read[k] < Len(sent[k]) /\ ~NextFrame(k).fits
       \/ end[k] = "gone"
    /\ Goto(k, "closing")
    /\ UNCHANGED <<clients, request, response, todo, read, topics, metrics, history>>

----------------------------------------------------------------------------
(* The thread of a connection: Broker::handle_request *)

Handle(k, types) ==
    /\ pc[k] = "handle"
    /\ request[k].type \in types
    /\ handled' = [handled EXCEPT ![k] = @ + 1]

Reply(text) == [text |-> text, messages |-> <<>>, counters |-> <<>>, latencies |-> <<>>]

\* The broker has the response; the recording of the request is next.
Respond(k, r, success) ==
    /\ response' = [response EXCEPT ![k] = r]
    /\ todo' = [todo EXCEPT ![k] = RecordSteps(request[k].type, success)]
    /\ Goto(k, "record")
    /\ UNCHANGED <<clients, request, read, metrics, thrown, before>>

\* PING; requests that a leader does not take, and those that parse_request rejected.
PingOrRefuse(k) ==
    LET ping == request[k].type = "PING"
    IN  /\ Handle(k, {"PING", "REPLICATE", "REPLICATION_PROGRESS", "INVALID"})
        /\ Respond(k, Reply(IF ping THEN "PONG" ELSE "ERROR"), ping)
        /\ UNCHANGED topics

GroupRequest(k) ==
    /\ Handle(k, {"JOIN", "LEAVE", "GROUP_POLL", "COMMIT"})
    /\ \E success \in BOOLEAN : Respond(k, Reply(IF success THEN "OK" ELSE "ERROR"), success)
    /\ UNCHANGED topics

Topic(k) == request[k].args["topic"].text
Partition(k) == request[k].args["partition"].value
NoMessages == [p \in 0..(PartitionCount - 1) |-> <<>>]
WithTopic(t) == IF t \in DOMAIN topics THEN topics ELSE With(topics, t, NoMessages)

AppendMessage(k) ==
    topics' = [WithTopic(Topic(k)) EXCEPT ![Topic(k)][Partition(k)] = Append(@, request[k].payload)]

\* The answer is ERROR when the follower does not confirm; the message stays.
Produce(k) ==
    /\ Handle(k, {"PRODUCE"})
    /\ AppendMessage(k)
    /\ \E success \in BOOLEAN : Respond(k, Reply(IF success THEN "OK" ELSE "ERROR"), success)

ProduceThrows_Continues(k) ==
    /\ Handle(k, {"PRODUCE"})
    /\ Cardinality(thrown) < MaxThrows
    /\ AppendMessage(k)
    /\ thrown' = thrown \cup {k}
    /\ Goto(k, "read")
    /\ UNCHANGED <<clients, request, response, todo, read, metrics, before>>

\* TopicLog::append throws: the message stays, nothing is recorded, the client is closed.
ProduceThrows(k) ==
    /\ Handle(k, {"PRODUCE"})
    /\ Cardinality(thrown) < MaxThrows
    /\ AppendMessage(k)
    /\ thrown' = thrown \cup {k}
    /\ Goto(k, "closing")
    /\ UNCHANGED <<clients, request, response, todo, read, metrics, before>>

\* The messages from the offset on, as many as there are.
Fetch(k) ==
    LET t == Topic(k)
        offset == request[k].args["offset"].value
        messages == topics[t][Partition(k)]
    IN  /\ Handle(k, {"FETCH"})
        /\ IF t \notin DOMAIN topics
           THEN Respond(k, Reply("ERROR"), FALSE)
           ELSE Respond(k, [Reply("messages") EXCEPT
                               !.messages = JoinMessages(SubSeq(messages, offset + 1, Len(messages)))], TRUE)
        /\ UNCHANGED topics

MetricsRequest_CountsItself(k) ==
    /\ Handle(k, {"METRICS"})
    /\ Add("total_requests", 0)
    /\ response' = [response EXCEPT ![k] = Reply("metrics")]
    /\ todo' = [todo EXCEPT ![k] = Loads]
    /\ Goto(k, "load")
    /\ UNCHANGED <<clients, request, read, topics, latency_samples_us, thrown, before>>

\* METRICS: snapshot begins.
MetricsRequest(k) ==
    /\ Handle(k, {"METRICS"})
    /\ response' = [response EXCEPT ![k] = Reply("metrics")]
    /\ todo' = [todo EXCEPT ![k] = Loads]
    /\ Goto(k, "load")
    /\ UNCHANGED <<clients, request, read, topics, metrics, thrown, before>>

LoadCounter(k) ==
    /\ pc[k] = "load"
    /\ todo[k] # <<>>
    /\ response' = [response EXCEPT ![k].counters = With(@, Head(todo[k]), counters[Head(todo[k])])]
    /\ todo' = [todo EXCEPT ![k] = Tail(@)]
    /\ UNCHANGED <<clients, pc, request, read, topics, metrics, history>>

\* The samples are copied under their mutex.
LoadSamples(k) ==
    /\ pc[k] = "load"
    /\ todo[k] = <<>>
    /\ Respond(k, [response[k] EXCEPT !.latencies = LatencyReport(latency_samples_us)], TRUE)
    /\ UNCHANGED <<topics, handled>>

\* request_bytes: the names, a unit each, the payload, and a constant.
RequestBytes(req) ==
    Cardinality(DOMAIN req.args \cap {"topic", "group", "consumer"}) + Len(req.payload) + 32

RecordCounter(k) ==
    /\ pc[k] = "record"
    /\ todo[k] # <<>>
    /\ Add(Head(todo[k]), RequestBytes(request[k]))
    /\ todo' = [todo EXCEPT ![k] = Tail(@)]
    /\ UNCHANGED <<clients, pc, request, response, read, topics, latency_samples_us, history>>

RecordSample(k) ==
    /\ pc[k] = "record"
    /\ todo[k] = <<>>
    /\ \E latency \in Latency : AddSample(latency)
    /\ Goto(k, "write")
    /\ UNCHANGED <<clients, request, response, todo, read, topics, counters, history>>

----------------------------------------------------------------------------
(* The thread of a connection: writing *)

Fits(r) == Len(r.messages) <= MaxResponse

WriteFrame_KeepsResponse(k) ==
    /\ pc[k] = "write"
    /\ Fits(response[k])
    /\ answers' = [answers EXCEPT ![k] = IF end[k] = "gone" THEN @ ELSE Append(@, read[k])]
    /\ Goto(k, "read")
    /\ UNCHANGED <<sent, end, request, response, todo, read, topics, metrics, history>>

\* To a client that has gone the first bytes may still be sent, in vain.
WriteFrame(k) ==
    /\ pc[k] = "write"
    /\ Fits(response[k])
    /\ answers' = [answers EXCEPT ![k] = IF end[k] = "gone" THEN @ ELSE Append(@, read[k])]
    /\ response' = [response EXCEPT ![k] = None]
    /\ Goto(k, "read")
    /\ UNCHANGED <<sent, end, request, todo, read, topics, metrics, history>>

\* The response is too long for a frame, or the client has gone.
WriteThrows(k) ==
    /\ pc[k] = "write"
    /\ ~Fits(response[k]) \/ end[k] = "gone"
    /\ response' = [response EXCEPT ![k] = None]
    /\ Goto(k, "closing")
    /\ UNCHANGED <<clients, request, todo, read, topics, metrics, history>>

\* After the memberships (module ConsumerGroup) the socket is closed.
Close(k) ==
    /\ pc[k] = "closing"
    /\ Goto(k, "closed")
    /\ UNCHANGED <<clients, request, response, todo, read, topics, metrics, history>>

----------------------------------------------------------------------------
Thread(k) ==
    \/ ReadFrame(k) \/ ReadEof(k) \/ ReadThrows(k)
    \/ PingOrRefuse(k) \/ GroupRequest(k) \/ Produce(k) \/ ProduceThrows(k) \/ Fetch(k)
    \/ MetricsRequest(k) \/ LoadCounter(k) \/ LoadSamples(k)
    \/ RecordCounter(k) \/ RecordSample(k)
    \/ WriteFrame(k) \/ WriteThrows(k) \/ Close(k)

Client(k) ==
    \/ \E raw \in RawRequest[k] : Send(k, raw)
    \/ \E how \in {"eof", "gone"} : End(k, how)

Next == \E k \in Conn : Accept(k) \/ Client(k) \/ Thread(k)

Spec == Init /\ [][Next]_vars

\* A thread that can go on does: nothing here waits for another thread.
FairSpec == Spec /\ \A k \in Conn : WF_vars(Thread(k))

----------------------------------------------------------------------------
(* Properties *)

\* The state has its type; a thread has a response exactly from the handling of a request
\* to the writing of its frame.
TypeOK ==
    /\ \A k \in Conn : sent[k] \in Seq(RawRequest[k])
    /\ end \in [Conn -> {"open", "eof", "gone"}]
    /\ \A k \in Conn : answers[k] \in Seq(1..MaxRequests[k])
    /\ pc \in [Conn -> {"new", "read", "handle", "load", "record", "write", "closing", "closed"}]
    /\ \A k \in Conn :
          /\ request[k].type \in DOMAIN Fields \cup {"INVALID"}
          /\ request[k].payload \in Seq(Char \ {"break"})
          /\ response[k] # None <=> pc[k] \in {"load", "record", "write"}
          /\ todo[k] \in Seq(CounterNames)
          /\ read[k] \in 0..Len(sent[k])
          /\ handled[k] = read[k] - (IF pc[k] = "handle" THEN 1 ELSE 0)
    /\ counters \in [CounterNames -> Nat]
    /\ latency_samples_us \in [Latency -> Nat]

\* The requests that the broker has answered, and those of one type.
Recorded == First([k \in Conn |-> handled[k] - (IF k \in thrown THEN 1 ELSE 0)])
RequestAt(r) == parse_request(sent[r[1]][r[2]])
RecordedOf(type) == {r \in Recorded : RequestAt(r).type = type}

\* However the threads interleave, when none is between its counters they agree with each
\* other, with the latencies, and with what was handled: the counters do not drift apart.
CountersSettle ==
    (\A k \in Conn : pc[k] \notin {"load", "record"}) =>
        /\ counters["total_requests"] = Cardinality(Recorded)
        /\ counters["successful_requests"] + counters["failed_requests"] = Cardinality(Recorded)
        /\ \A type \in DOMAIN TypeCounter :
              counters[TypeCounter[type]] = Cardinality(RecordedOf(type))
        /\ counters["total_bytes_processed"] =
              SumFunction([r \in Recorded |-> RequestBytes(RequestAt(r))])
        /\ Size(latency_samples_us) = Cardinality(Recorded)

\* The METRICS responses that threads have ready.
Reports == {k \in Conn : pc[k] \in {"record", "write"} /\ request[k].type = "METRICS"}

\* Although its counters are read one by one while others change, a METRICS response counts
\* every request that any client had the answer to before it was read, and neither itself
\* nor a request that the broker has not handled, in the total and by outcome.
SnapshotBracketed ==
    \A k \in Reports :
        LET report == response[k].counters
        IN  /\ report["total_requests"] \in before[k]..(Cardinality(First(handled)) - 1)
            /\ report["successful_requests"] + report["failed_requests"]
                  \in before[k]..(Cardinality(First(handled)) - 1)

\* The latencies of a METRICS response are in order, whatever the number of samples.
PercentilesOrdered ==
    \A k \in Reports :
        LET l == response[k].latencies
        IN  l.p50 <= l.p95 /\ l.p95 <= l.p99 /\ l.p99 <= l.max /\ l.average <= l.max

\* The follower's parser takes the leader's REPLICATE line for every message that PRODUCE
\* let in, and gets the same payload, except that one of nothing but spaces grows by the
\* space before it.
ReplicaPayload ==
    \A t \in DOMAIN topics : \A p \in DOMAIN topics[t] : \A i \in DOMAIN topics[t][p] :
        LET message == topics[t][p][i]
            topic == [text |-> t, number |-> FALSE, value |-> 0]
            copy == parse_request(ReplicateLine(topic, p, i - 1, message))
        IN  /\ copy.type = "REPLICATE"
            /\ copy.payload = IF Elements(message) = {"space"} THEN <<"space">> \o message ELSE message

\* The consumer's count of a FETCH response is the number of messages in it, from the
\* offset asked for to some end of the log: no message has a line break or is empty.
FetchCountExact ==
    \A k \in Conn : (pc[k] \in {"record", "write"} /\ response[k].text = "messages") =>
        LET messages == topics[Topic(k)][Partition(k)]
            offset == request[k].args["offset"].value
        IN  \E n \in 0..Len(messages) :
               LET fetched == SubSeq(messages, offset + 1, n)
               IN  /\ response[k].messages = JoinMessages(fetched)
                   /\ count_messages(response[k].messages) = Len(fetched)

\* The last request is a FETCH whose response does not fit a frame, or would not by now.
FetchTooLong(k) ==
    /\ request[k].type = "FETCH"
    /\ Topic(k) \in DOMAIN topics
    /\ LET messages == topics[Topic(k)][Partition(k)]
       IN  Len(JoinMessages(SubSeq(messages, request[k].args["offset"].value + 1, Len(messages)))) > MaxResponse

\* A client that has sent its requests and shuts down its sending side gets the answers to
\* all of them, unless one threw or cannot be framed. (EpollServer drops queued answers.)
EofAnswered ==
    \A k \in Conn :
        (end[k] = "eof") ~>
            (pc[k] = "closed" /\ (\/ Len(answers[k]) = Len(sent[k])
                                  \/ k \in thrown
                                  \/ \E i \in DOMAIN sent[k] : ~sent[k][i].fits
                                  \/ FetchTooLong(k)))

\* The server keeps the promises of Session to every connection.
Promise == INSTANCE Session WITH
    Request <- UNION {1..MaxRequests[k] : k \in Conn},
    requests <- [k \in Conn |-> [i \in DOMAIN sent[k] |-> i]],
    executed <- [k \in Conn |-> [i \in 1..handled[k] |-> i]],
    open <- {k \in Conn : pc[k] \notin {"closing", "closed"}}

ImplementsSession == Promise!Spec
=============================================================================
