-------------------------- MODULE TcpServerProofs ---------------------------
(***************************************************************************)
(* TLAPS proofs about TcpServer, for every number of connections and every *)
(* set of requests.                                                        *)
(*                                                                         *)
(* What the counters say when all threads are done with them is not        *)
(* inductive: CountersInv says at every moment which requests each counter *)
(* contains, those handled without the last one of each thread that still  *)
(* has the counter to do. On this rests SnapshotInv, what the counters     *)
(* that METRICS has read so far have missed at most, while others count.   *)
(***************************************************************************)
EXTENDS TcpServer, OperatorProofs

----------------------------------------------------------------------------
(* The inductive invariant *)

Active == {"new", "read", "handle", "load", "record", "write"}
Busy == {"handle", "load", "record", "write"}

\* The variables are functions of the connection.
Shape ==
    /\ sent \in [Conn -> Seq(RawRequests)]
    /\ end \in [Conn -> {"open", "eof", "gone"}]
    /\ answers \in [Conn -> Seq(Nat)]
    /\ pc \in [Conn -> Active \cup {"closing", "closed"}]
    /\ request = [k \in Conn |-> request[k]]
    /\ response \in [Conn -> Response \cup {None}]
    /\ todo \in [Conn -> Seq(CounterNames)]
    /\ read \in [Conn -> Nat]
    /\ handled \in [Conn -> Nat]
    /\ thrown \subseteq Conn
    /\ before \in [Conn -> Nat]
    /\ counters \in [CounterNames -> Nat]
    /\ latency_samples_us \in [Latency -> Nat]

\* The requests of a connection are read, handled and answered in order.
SessionInv(k) ==
    /\ sent[k] \in Seq(RawRequest[k])
    /\ Len(sent[k]) <= MaxRequests[k]
    /\ read[k] <= Len(sent[k])
    /\ pc[k] \in Busy => read[k] > 0
    /\ handled[k] = IF pc[k] = "handle" THEN read[k] - 1 ELSE read[k]
    /\ \A i \in 1..Len(answers[k]) : answers[k][i] = i
    /\ Len(answers[k]) <= IF pc[k] \in Busy THEN read[k] - 1 ELSE read[k]
    /\ end[k] # "gone" /\ pc[k] \in Active =>
          Len(answers[k]) = IF pc[k] \in Busy THEN read[k] - 1 ELSE read[k]
    /\ k \in thrown => pc[k] \in {"closing", "closed"} /\ Len(answers[k]) < read[k]

\* What a thread works on.
RequestInv(k) ==
    /\ request[k] = IF read[k] = 0 THEN Invalid ELSE parse_request(sent[k][read[k]])
    /\ response[k] # None <=> pc[k] \in {"load", "record", "write"}
    /\ pc[k] = "load" => request[k].type = "METRICS"

\* The topics hold messages as PRODUCE lets them in, no more than were handled.
TopicsInv ==
    /\ topics = [t \in DOMAIN topics |-> topics[t]]
    /\ \A t \in DOMAIN topics :
          /\ topics[t] \in [0..(PartitionCount - 1) -> Seq(Message)]
          /\ \A p \in 0..(PartitionCount - 1) : Len(topics[t][p]) <= Cardinality(First(handled))

ThreadInv(k) == SessionInv(k) /\ RequestInv(k)

\* What a connection sees of itself.
Same(j) ==
    /\ sent'[j] = sent[j] /\ end'[j] = end[j] /\ answers'[j] = answers[j]
    /\ pc'[j] = pc[j] /\ request'[j] = request[j] /\ response'[j] = response[j]
    /\ todo'[j] = todo[j] /\ read'[j] = read[j]
    /\ handled'[j] = handled[j] /\ (j \in thrown' <=> j \in thrown) /\ before'[j] = before[j]

----------------------------------------------------------------------------
(* Sets of the first requests *)

\* One request more of k.
LEMMA FirstStep ==
    ASSUME NEW f \in [Conn -> Nat], NEW k \in Conn, NEW g \in [Conn -> Nat],
           g[k] = f[k] + 1, \A j \in Conn \ {k} : g[j] = f[j]
    PROVE  First(g) = First(f) \cup {<<k, f[k] + 1>>} /\ <<k, f[k] + 1>> \notin First(f)
<1>1. 1..g[k] = (1..f[k]) \cup {f[k] + 1} /\ f[k] + 1 \notin 1..f[k]
  OBVIOUS
<1>2. \A r : r \in First(g) <=> \E j \in Conn : r \in {j} \X (1..g[j])
  BY DEF First
<1>3. \A r : r \in First(f) <=> \E j \in Conn : r \in {j} \X (1..f[j])
  BY DEF First
<1>4. {k} \X (1..g[k]) = ({k} \X (1..f[k])) \cup {<<k, f[k] + 1>>}
  BY <1>1
<1>5. \A r : r \in First(g) <=> (r \in First(f) \/ r = <<k, f[k] + 1>>)
  <2>1. \A j \in Conn \ {k} : {j} \X (1..g[j]) = {j} \X (1..f[j])
    OBVIOUS
  <2>2. \A r : r \in {k} \X (1..g[k]) <=> r \in {k} \X (1..f[k]) \/ r = <<k, f[k] + 1>>
    BY <1>4, Zenon
  <2>3. ASSUME NEW r, r \in First(g) PROVE r \in First(f) \/ r = <<k, f[k] + 1>>
    <3>1. PICK j \in Conn : r \in {j} \X (1..g[j])
      BY <1>2, <2>3, Zenon
    <3>2. CASE j = k
      BY <3>1, <3>2, <2>2, <1>3, Zenon
    <3>3. CASE j # k
      BY <3>1, <3>3, <2>1, <1>3, Zenon
    <3> QED
      BY <3>2, <3>3
  <2>4. ASSUME NEW r, r \in First(f) PROVE r \in First(g)
    <3>1. PICK j \in Conn : r \in {j} \X (1..f[j])
      BY <1>3, <2>4, Zenon
    <3>2. CASE j = k
      BY <3>1, <3>2, <2>2, <1>2, Zenon
    <3>3. CASE j # k
      BY <3>1, <3>3, <2>1, <1>2, Zenon
    <3> QED
      BY <3>2, <3>3
  <2>5. <<k, f[k] + 1>> \in First(g)
    BY <2>2, <1>2, Zenon
  <2> QED
    BY <2>3, <2>4, <2>5, Zenon
<1>6. <<k, f[k] + 1>> \notin First(f)
  <2> SUFFICES ASSUME <<k, f[k] + 1>> \in First(f) PROVE FALSE
    OBVIOUS
  <2>1. PICK j \in Conn : <<k, f[k] + 1>> \in {j} \X (1..f[j])
    BY <1>3, Zenon
  <2>2. j = k /\ f[k] + 1 \in 1..f[j]
    BY <2>1
  <2> QED
    BY <2>2, <1>1
<1> QED
  BY <1>5, <1>6, Zenon

\* There are finitely many requests.
LEMMA FirstFinite ==
    ASSUME NEW f \in [Conn -> Nat]
    PROVE  IsFiniteSet(First(f)) /\ Cardinality(First(f)) \in Nat
<1>1. ASSUME NEW j \in Conn PROVE IsFiniteSet({j} \X (1..f[j]))
  <2>1. IsFiniteSet({j})
    BY FS_Singleton, Zenon
  <2>2. f[j] \in Int /\ 1 \in Int
    OBVIOUS
  <2>3. IsFiniteSet(1..f[j])
    BY <2>2, FS_Interval
  <2> QED
    BY <2>1, <2>3, FS_Product, Zenon
<1>2. IsFiniteSet({{j} \X (1..f[j]) : j \in Conn})
  <2> DEFINE T == {{j} \X (1..f[j]) : j \in Conn}
             g == [j \in Conn |-> {j} \X (1..f[j])]
  <2>1. g \in [Conn -> T] /\ \A X \in T : \E j \in Conn : g[j] = X
    BY Zenon
  <2>2. g \in Surjection(Conn, T)
    BY <2>1, Zenon DEF Surjection
  <2> QED
    BY <2>2, ConnAssumption, FS_Surjection, Zenon
<1>3. \A X \in {{j} \X (1..f[j]) : j \in Conn} : IsFiniteSet(X)
  BY <1>1, Zenon
<1>4. IsFiniteSet(First(f))
  BY <1>2, <1>3, FS_UNION, Zenon DEF First
<1> QED
  BY <1>4, FS_CardinalityType

\* One more request of one connection is one more request.
LEMMA FirstGrows ==
    ASSUME NEW f \in [Conn -> Nat], NEW k \in Conn, NEW g \in [Conn -> Nat],
           g[k] = f[k] + 1, \A j \in Conn \ {k} : g[j] = f[j]
    PROVE  Cardinality(First(g)) = Cardinality(First(f)) + 1
<1>1. First(g) = First(f) \cup {<<k, f[k] + 1>>} /\ <<k, f[k] + 1>> \notin First(f)
  BY FirstStep
<1>2. IsFiniteSet(First(f))
  BY FirstFinite
<1> QED
  BY <1>1, <1>2, FS_AddElement

\* More requests of each connection are more requests.
LEMMA FirstMonotone ==
    ASSUME NEW f \in [Conn -> Nat], NEW g \in [Conn -> Nat], \A j \in Conn : f[j] <= g[j]
    PROVE  First(f) \subseteq First(g) /\ Cardinality(First(f)) <= Cardinality(First(g))
<1>1. \A j \in Conn : 1..f[j] \subseteq 1..g[j]
  OBVIOUS
<1>2. \A j \in Conn : {j} \X (1..f[j]) \subseteq {j} \X (1..g[j])
  BY <1>1
<1>3. First(f) \subseteq First(g)
  BY <1>2 DEF First
<1>4. IsFiniteSet(First(g))
  BY FirstFinite
<1> QED
  BY <1>3, <1>4, FS_Subset

----------------------------------------------------------------------------
(* The steps of a thread *)

\* What is known of every request.
LEMMA RequestFacts ==
    ASSUME NEW k \in Conn, Shape, ThreadInv(k)
    PROVE  /\ request[k].type \in DOMAIN Fields \cup {"INVALID"}
           /\ request[k].payload \in Message \cup {<<>>}
           /\ request[k].type = "PRODUCE" => request[k].payload \in Message
           /\ request[k].type \in {"PRODUCE", "FETCH"} =>
                 /\ Topic(k) \in STRING
                 /\ Partition(k) \in 0..(PartitionCount - 1)
           /\ request[k].type = "FETCH" => request[k].args["offset"].value \in Nat
<1>1. CASE read[k] = 0
  <2>1. request[k] = Invalid
    BY <1>1 DEF ThreadInv, RequestInv
  <2>2. request[k].type = "INVALID" /\ request[k].payload = <<>>
    BY <2>1 DEF Invalid
  <2> QED
    BY <2>2
<1>2. CASE read[k] # 0
  <2>1. read[k] \in 1..Len(sent[k]) /\ sent[k] \in Seq(RawRequests)
    BY <1>2 DEF ThreadInv, SessionInv, Shape
  <2>2. PICK raw \in RawRequests : raw = sent[k][read[k]]
    BY <2>1
  <2>3. request[k] = parse_request(raw)
    BY <1>2, <2>2 DEF ThreadInv, RequestInv
  <2> QED
    BY <2>3, ParsedFacts DEF Topic, Partition
<1> QED
  BY <1>1, <1>2

\* A response without data.
LEMMA ReplyType ==
    ASSUME NEW text \in {"PONG", "OK", "ERROR", "messages", "metrics"}
    PROVE  Reply(text) \in Response
<1>1. <<>> \in Seq(Char)
  OBVIOUS
<1>2. {} \in SUBSET CounterNames /\ <<>> \in [{} -> Nat]
  OBVIOUS
<1>3. <<>> \in UNION {[S -> Nat] : S \in SUBSET CounterNames}
  BY <1>2, Zenon
<1> QED
  BY <1>1, <1>3 DEF Reply, Response

\* The counters that a request adds to.
LEMMA StepsType ==
    ASSUME NEW type, NEW success
    PROVE  RecordSteps(type, success) \in Seq(CounterNames) /\ Loads \in Seq(CounterNames)
<1>1. PICK o \in CounterNames : o = IF success THEN "successful_requests" ELSE "failed_requests"
  BY DEF CounterNames
<1>6. type \in DOMAIN TypeCounter => TypeCounter[type] \in CounterNames
  BY DEF CounterNames, TypeCounter
<1>2. PICK m \in Seq(CounterNames) : m = IF type \in DOMAIN TypeCounter THEN <<TypeCounter[type]>> ELSE <<>>
  <2>1. CASE type \in DOMAIN TypeCounter
    <3>1. PICK c \in CounterNames : c = TypeCounter[type]
      BY <1>6, <2>1
    <3>2. <<c>> \in Seq(CounterNames)
      OBVIOUS
    <3> QED
      BY <2>1, <3>1, <3>2, Zenon
  <2>2. CASE type \notin DOMAIN TypeCounter
    <3>1. <<>> \in Seq(CounterNames)
      OBVIOUS
    <3> QED
      BY <2>2, <3>1, Zenon
  <2> QED
    BY <2>1, <2>2
<1>3. <<"total_requests", o>> \in Seq(CounterNames) /\ <<"total_bytes_processed">> \in Seq(CounterNames)
  BY DEF CounterNames
<1>4. RecordSteps(type, success) = <<"total_requests", o>> \o m \o <<"total_bytes_processed">>
  BY <1>1, <1>2 DEF RecordSteps
<1>5. Loads \in Seq(CounterNames)
  BY DEF Loads, CounterNames
<1> QED
  BY <1>2, <1>3, <1>4, <1>5

\* A field that is set, and a counter that is read, leave a response a response.
LEMMA ResponseWithLatencies ==
    ASSUME NEW r \in Response, NEW l \in {<<>>} \cup [max : Nat, average : Nat, p50 : Nat, p95 : Nat, p99 : Nat]
    PROVE  [r EXCEPT !.latencies = l] \in Response
  BY DEF Response

\* A response with messages, or with one counter more, is a response.
LEMMA ResponseWithMessages ==
    ASSUME NEW r \in Response, NEW m \in Seq(Char)
    PROVE  [r EXCEPT !.messages = m] \in Response
  BY DEF Response

Loaded(r, c, n) == [r EXCEPT !.counters = With(r.counters, c, n)]

\* See ResponseWithMessages.
LEMMA ResponseWithCounter ==
    ASSUME NEW r \in Response, NEW c \in CounterNames, NEW n \in Nat,
           NEW q, q = Loaded(r, c, n)
    PROVE  /\ q \in Response
           /\ q.text = r.text /\ q.messages = r.messages /\ q.latencies = r.latencies
           /\ q.counters[c] = n
           /\ \A d \in DOMAIN r.counters \ {c} : q.counters[d] = r.counters[d]
           /\ DOMAIN q.counters = DOMAIN r.counters \cup {c}
<1>1. r.counters \in UNION {[S -> Nat] : S \in SUBSET CounterNames}
  BY DEF Response
<1>2. PICK S \in SUBSET CounterNames : r.counters \in [S -> Nat]
  BY <1>1
<1>3. PICK f : f = With(r.counters, c, n)
  OBVIOUS
<1>4. f = [d \in S \cup {c} |-> IF d = c THEN n ELSE r.counters[d]]
  BY <1>2, <1>3 DEF With
<1>5. f \in [S \cup {c} -> Nat] /\ S \cup {c} \in SUBSET CounterNames
  BY <1>2, <1>4
<1>6. f \in UNION {[T -> Nat] : T \in SUBSET CounterNames}
  BY <1>5, Zenon
<1>7. q = [r EXCEPT !.counters = f]
  BY <1>3 DEF Loaded
<1>8. q \in Response /\ q.text = r.text /\ q.messages = r.messages /\ q.latencies = r.latencies /\ q.counters = f
  BY <1>6, <1>7 DEF Response
<1> QED
  BY <1>2, <1>4, <1>5, <1>8

StepOf(k) == Accept(k) \/ Client(k) \/ Thread(k)

\* Respond gives the thread a response and counters to add to.
LEMMA RespondEffect ==
    ASSUME Shape, NEW k \in Conn, NEW r \in Response, NEW success, Respond(k, r, success)
    PROVE  /\ sent' = sent /\ end' = end /\ answers' = answers /\ request' = request /\ read' = read
           /\ thrown' = thrown /\ before' = before
           /\ counters' = counters /\ latency_samples_us' = latency_samples_us
           /\ response' \in [Conn -> Response \cup {None}] /\ response'[k] = r
           /\ todo' \in [Conn -> Seq(CounterNames)] /\ todo'[k] = RecordSteps(request[k].type, success)
           /\ pc' \in [Conn -> Active \cup {"closing", "closed"}] /\ pc'[k] = "record"
           /\ \A j \in Conn \ {k} : response'[j] = response[j] /\ todo'[j] = todo[j] /\ pc'[j] = pc[j]
<1>1. PICK s \in Seq(CounterNames) : s = RecordSteps(request[k].type, success)
  BY StepsType
<1>2. response' = [response EXCEPT ![k] = r] /\ todo' = [todo EXCEPT ![k] = s] /\ pc' = [pc EXCEPT ![k] = "record"]
  BY <1>1 DEF Respond, Goto
<1>3. response \in [Conn -> Response \cup {None}] /\ todo \in [Conn -> Seq(CounterNames)]
      /\ pc \in [Conn -> Active \cup {"closing", "closed"}]
  BY DEF Shape
<1>4. "record" \in Active \cup {"closing", "closed"}
  BY DEF Active
<1>5. /\ sent' = sent /\ end' = end /\ answers' = answers /\ request' = request /\ read' = read
      /\ thrown' = thrown /\ before' = before
      /\ counters' = counters /\ latency_samples_us' = latency_samples_us
  BY DEF Respond, clients, metrics
<1> QED
  BY <1>1, <1>2, <1>3, <1>4, <1>5

\* The broker has carried out one request more of k.
LEMMA HandleEffect ==
    ASSUME Shape, NEW k \in Conn, NEW types, Handle(k, types)
    PROVE  /\ pc[k] = "handle" /\ request[k].type \in types
           /\ handled' \in [Conn -> Nat] /\ handled'[k] = handled[k] + 1
           /\ \A j \in Conn \ {k} : handled'[j] = handled[j]
  BY DEF Shape, Handle

\* An answer that the broker gives at once.
Answers(k, types, r, success) ==
    Handle(k, types) /\ Respond(k, r, success)

\* A request is handled and answered in one step: what the thread has thereafter.
LEMMA AnswersShape ==
    ASSUME Shape, NEW k \in Conn, NEW types, NEW r \in Response, NEW success, Answers(k, types, r, success)
    PROVE  /\ Shape' /\ (\A j \in Conn \ {k} : Same(j))
           /\ pc[k] = "handle" /\ request[k].type \in types
           /\ sent'[k] = sent[k] /\ end'[k] = end[k] /\ answers'[k] = answers[k]
           /\ request'[k] = request[k] /\ read'[k] = read[k] /\ before'[k] = before[k]
           /\ thrown' = thrown /\ counters' = counters /\ latency_samples_us' = latency_samples_us
           /\ pc'[k] = "record" /\ response'[k] = r /\ handled'[k] = handled[k] + 1
           /\ todo'[k] = RecordSteps(request[k].type, success)
<1>1. Handle(k, types) /\ Respond(k, r, success)
  BY DEF Answers
<1>2. /\ sent' = sent /\ end' = end /\ answers' = answers /\ request' = request /\ read' = read
      /\ thrown' = thrown /\ before' = before
      /\ counters' = counters /\ latency_samples_us' = latency_samples_us
      /\ response' \in [Conn -> Response \cup {None}] /\ response'[k] = r
      /\ todo' \in [Conn -> Seq(CounterNames)] /\ todo'[k] = RecordSteps(request[k].type, success)
      /\ pc' \in [Conn -> Active \cup {"closing", "closed"}] /\ pc'[k] = "record"
      /\ \A j \in Conn \ {k} : response'[j] = response[j] /\ todo'[j] = todo[j] /\ pc'[j] = pc[j]
  BY <1>1, RespondEffect
<1>3. /\ pc[k] = "handle" /\ request[k].type \in types
      /\ handled' \in [Conn -> Nat] /\ handled'[k] = handled[k] + 1
      /\ \A j \in Conn \ {k} : handled'[j] = handled[j]
  BY <1>1, HandleEffect
<1>4. Shape'
  BY <1>2, <1>3 DEF Shape
<1>5. \A j \in Conn \ {k} : Same(j)
  BY <1>2, <1>3 DEF Same
<1> QED
  BY <1>2, <1>3, <1>4, <1>5

\* What a FETCH gets of a topic that exists.
Fetched(k) ==
    SubSeq(topics[Topic(k)][Partition(k)], request[k].args["offset"].value + 1,
           Len(topics[Topic(k)][Partition(k)]))

\* What FETCH reads from a partition.
LEMMA FetchedType ==
    ASSUME NEW k \in Conn, Shape, ThreadInv(k), TopicsInv, request[k].type = "FETCH", Topic(k) \in DOMAIN topics
    PROVE  Fetched(k) \in Seq(Message)
<1>1. Partition(k) \in 0..(PartitionCount - 1) /\ request[k].args["offset"].value \in Nat
  BY RequestFacts
<1>2. PICK o \in Nat : o = request[k].args["offset"].value
  BY <1>1
<1>3. PICK m \in Seq(Message) : m = topics[Topic(k)][Partition(k)]
  BY <1>1 DEF TopicsInv
<1>4. SubSeq(m, o + 1, Len(m)) \in Seq(Message)
  OBVIOUS
<1> QED
  BY <1>2, <1>3, <1>4 DEF Fetched

\* The five kinds of answers.
Quick(k) == PingOrRefuse(k) \/ GroupRequest(k) \/ Produce(k) \/ Fetch(k)

\* FETCH answers with a response, whether or not the topic exists.
LEMMA FetchAnswers ==
    ASSUME NEW k \in Conn, Shape, ThreadInv(k), TopicsInv, Fetch(k)
    PROVE  \E r \in Response, success \in BOOLEAN :
              /\ Answers(k, {"FETCH"}, r, success)
              /\ r.text \in {"ERROR", "messages"}
              /\ r.text = "messages" => Topic(k) \in DOMAIN topics /\ r.messages = JoinMessages(Fetched(k))
<1>1. Handle(k, {"FETCH"}) /\ request[k].type = "FETCH"
  BY DEF Fetch, Handle
<1>2. CASE Topic(k) \notin DOMAIN topics
  <2>1. Respond(k, Reply("ERROR"), FALSE)
    BY <1>2 DEF Fetch
  <2>2. Reply("ERROR") \in Response
    BY ReplyType
  <2>3. Reply("ERROR").text = "ERROR"
    BY DEF Reply
  <2> QED
    BY <1>1, <2>1, <2>2, <2>3 DEF Answers
<1>3. CASE Topic(k) \in DOMAIN topics
  <2>1. PICK m \in Seq(Char) : m = JoinMessages(Fetched(k))
    BY <1>1, <1>3, FetchedType, JoinedAreCounted
  <2>2. PICK q \in Response : q = Reply("messages")
    BY ReplyType
  <2>6. q.text = "messages"
    BY <2>2 DEF Reply
  <2>3. PICK r \in Response : r = [q EXCEPT !.messages = m]
    BY ResponseWithMessages
  <2>4. r.text = "messages" /\ r.messages = m
    BY <2>6, <2>3 DEF Response
  <2>5. Respond(k, r, TRUE)
    BY <1>3, <2>1, <2>2, <2>3 DEF Fetch, Fetched
  <2> QED
    BY <1>1, <1>3, <2>1, <2>4, <2>5 DEF Answers
<1> QED
  BY <1>2, <1>3

\* So does every request but METRICS.
LEMMA QuickAnswers ==
    ASSUME NEW k \in Conn, Shape, ThreadInv(k), TopicsInv, Quick(k)
    PROVE  \E types : \E r \in Response, success \in BOOLEAN :
              /\ Answers(k, types, r, success)
              /\ "METRICS" \notin types
              /\ r.text = "messages" =>
                    Fetch(k) /\ Topic(k) \in DOMAIN topics /\ r.messages = JoinMessages(Fetched(k))
<1>1. CASE PingOrRefuse(k)
  <2>1. PICK success \in BOOLEAN : success = (request[k].type = "PING")
    OBVIOUS
  <2>2. PICK text \in {"PONG", "ERROR"} : text = IF success THEN "PONG" ELSE "ERROR"
    OBVIOUS
  <2>3. Reply(text) \in Response
    BY ReplyType
  <2>4. Reply(text).text # "messages"
    BY DEF Reply
  <2>5. PICK types : types = {"PING", "REPLICATE", "REPLICATION_PROGRESS", "INVALID"}
    OBVIOUS
  <2>6. Answers(k, types, Reply(text), success)
    BY <1>1, <2>1, <2>2, <2>5 DEF PingOrRefuse, Answers
  <2>7. "METRICS" \notin types
    BY <2>5
  <2> QED
    BY <2>3, <2>4, <2>6, <2>7, Zenon
<1>2. CASE GroupRequest(k)
  <2>1. PICK success \in BOOLEAN : Respond(k, Reply(IF success THEN "OK" ELSE "ERROR"), success)
    BY <1>2 DEF GroupRequest
  <2>2. PICK text \in {"OK", "ERROR"} : text = IF success THEN "OK" ELSE "ERROR"
    OBVIOUS
  <2>3. Reply(text) \in Response
    BY ReplyType
  <2>4. Reply(text).text # "messages"
    BY DEF Reply
  <2>5. PICK types : types = {"JOIN", "LEAVE", "GROUP_POLL", "COMMIT"}
    OBVIOUS
  <2>6. Answers(k, types, Reply(text), success)
    BY <1>2, <2>1, <2>2, <2>5 DEF GroupRequest, Answers
  <2>7. "METRICS" \notin types
    BY <2>5
  <2> QED
    BY <2>3, <2>4, <2>6, <2>7, Zenon
<1>3. CASE Produce(k)
  <2>1. PICK success \in BOOLEAN : Respond(k, Reply(IF success THEN "OK" ELSE "ERROR"), success)
    BY <1>3 DEF Produce
  <2>2. PICK text \in {"OK", "ERROR"} : text = IF success THEN "OK" ELSE "ERROR"
    OBVIOUS
  <2>3. Reply(text) \in Response
    BY ReplyType
  <2>4. Reply(text).text # "messages"
    BY DEF Reply
  <2>5. PICK types : types = {"PRODUCE"}
    OBVIOUS
  <2>6. Answers(k, types, Reply(text), success)
    BY <1>3, <2>1, <2>2, <2>5 DEF Produce, Answers
  <2>7. "METRICS" \notin types
    BY <2>5
  <2> QED
    BY <2>3, <2>4, <2>6, <2>7, Zenon
<1>4. CASE Fetch(k)
  <2>1. PICK types : types = {"FETCH"}
    OBVIOUS
  <2>2. "METRICS" \notin types
    BY <2>1
  <2>3. PICK r \in Response, success \in BOOLEAN :
              /\ Answers(k, types, r, success)
              /\ r.text = "messages" => Topic(k) \in DOMAIN topics /\ r.messages = JoinMessages(Fetched(k))
    BY <1>4, <2>1, FetchAnswers
  <2> QED
    BY <1>4, <2>2, <2>3, Zenon
<1> QED
  BY <1>1, <1>2, <1>3, <1>4 DEF Quick

\* The response of METRICS with its latencies.
LEMMA LoadSamplesEffect ==
    ASSUME NEW k \in Conn, Shape, ThreadInv(k), LoadSamples(k)
    PROVE  \E r \in Response :
              /\ pc[k] = "load" /\ todo[k] = <<>> /\ response[k] \in Response
              /\ Respond(k, r, TRUE)
              /\ r.text = response[k].text /\ r.counters = response[k].counters
              /\ r.latencies = LatencyReport(latency_samples_us)
              /\ handled' = handled /\ topics' = topics
<1>1. response[k] # None /\ response[k] \in Response \cup {None}
  BY DEF ThreadInv, RequestInv, LoadSamples, Shape
<1>2. PICK l \in [max : Nat, average : Nat, p50 : Nat, p95 : Nat, p99 : Nat] : l = LatencyReport(latency_samples_us)
  BY ReportOrdered DEF Shape
<1>3. PICK q \in Response : q = response[k]
  BY <1>1
<1>4. PICK r \in Response : r = [q EXCEPT !.latencies = l]
  BY ResponseWithLatencies
<1>5. r.text = q.text /\ r.counters = q.counters /\ r.latencies = l
  BY <1>4 DEF Response
<1>6. Respond(k, r, TRUE)
  BY <1>2, <1>3, <1>4 DEF LoadSamples
<1>7. pc[k] = "load" /\ todo[k] = <<>> /\ handled' = handled /\ topics' = topics
  BY DEF LoadSamples
<1> QED
  BY <1>2, <1>3, <1>5, <1>6, <1>7

\* METRICS reads a counter.
LEMMA LoadCounterEffect ==
    ASSUME NEW k \in Conn, Shape, ThreadInv(k), LoadCounter(k)
    PROVE  \E c \in CounterNames, r \in Response :
              /\ pc[k] = "load" /\ todo[k] # <<>> /\ c = Head(todo[k]) /\ todo'[k] = Tail(todo[k])
              /\ response[k] \in Response
              /\ todo' \in [Conn -> Seq(CounterNames)] /\ response' \in [Conn -> Response \cup {None}]
              /\ \A j \in Conn \ {k} : response'[j] = response[j] /\ todo'[j] = todo[j]
              /\ response'[k] = r
              /\ r.text = response[k].text
              /\ DOMAIN r.counters = DOMAIN response[k].counters \cup {c}
              /\ r.counters[c] = counters[c]
              /\ \A d \in DOMAIN response[k].counters \ {c} : r.counters[d] = response[k].counters[d]
<1>1. response[k] # None /\ response[k] \in Response \cup {None}
  BY DEF ThreadInv, RequestInv, LoadCounter, Shape
<1>2. PICK q \in Response : q = response[k]
  BY <1>1
<1>3. PICK s \in Seq(CounterNames) : s = todo[k] /\ s # <<>>
  BY DEF LoadCounter, Shape
<1>4. PICK c \in CounterNames : c = Head(s)
  BY <1>3
<1>5. PICK n \in Nat : n = counters[c]
  BY DEF Shape
<1>6. PICK r : r = Loaded(q, c, n)
  OBVIOUS
<1>7. /\ r \in Response
      /\ r.text = q.text /\ r.messages = q.messages /\ r.latencies = q.latencies
      /\ r.counters[c] = n
      /\ \A d \in DOMAIN q.counters \ {c} : r.counters[d] = q.counters[d]
      /\ DOMAIN r.counters = DOMAIN q.counters \cup {c}
  BY <1>6, ResponseWithCounter
<1>8. response' = [response EXCEPT ![k] = r]
  BY <1>2, <1>3, <1>4, <1>5, <1>6 DEF LoadCounter, Loaded
<1>9. todo' = [todo EXCEPT ![k] = Tail(s)] /\ Tail(s) \in Seq(CounterNames)
  BY <1>3 DEF LoadCounter
<1>10. response \in [Conn -> Response \cup {None}] /\ todo \in [Conn -> Seq(CounterNames)]
  BY DEF Shape
<1>11. pc[k] = "load"
  BY DEF LoadCounter
<1>12. /\ todo' \in [Conn -> Seq(CounterNames)] /\ response' \in [Conn -> Response \cup {None}]
       /\ \A j \in Conn \ {k} : response'[j] = response[j] /\ todo'[j] = todo[j]
       /\ response'[k] = r /\ todo'[k] = Tail(s)
  BY <1>7, <1>8, <1>9, <1>10
<1> QED
  BY <1>2, <1>3, <1>4, <1>5, <1>7, <1>11, <1>12

\* The bytes of a request are a number.
LEMMA BytesType ==
    ASSUME NEW req, req.payload \in Message \cup {<<>>}
    PROVE  RequestBytes(req) \in Nat
<1>1. IsFiniteSet({"topic", "group", "consumer"})
  <2>1. IsFiniteSet({"topic"})
    BY FS_Singleton, Zenon
  <2>2. IsFiniteSet({"topic"} \cup {"group"})
    BY <2>1, FS_AddElement, Zenon
  <2>3. IsFiniteSet(({"topic"} \cup {"group"}) \cup {"consumer"})
    BY <2>2, FS_AddElement, Zenon
  <2>4. ({"topic"} \cup {"group"}) \cup {"consumer"} = {"topic", "group", "consumer"}
    OBVIOUS
  <2> QED
    BY <2>3, <2>4
<1>2. IsFiniteSet(DOMAIN req.args \cap {"topic", "group", "consumer"})
  BY <1>1, FS_Subset
<1>3. Cardinality(DOMAIN req.args \cap {"topic", "group", "consumer"}) \in Nat
  BY <1>2, FS_CardinalityType
<1>4. Len(req.payload) \in Nat
  <2>2. <<>> \in Seq(Char \ {"break"}) /\ Message \subseteq Seq(Char \ {"break"})
    BY DEF Message
  <2>1. req.payload \in Seq(Char \ {"break"})
    BY <2>2, Zenon
  <2> QED
    BY <2>1
<1> QED
  BY <1>3, <1>4 DEF RequestBytes

\* The requests answered are counted.
LEMMA AnsweredType ==
    ASSUME Shape
    PROVE  Answered \in Nat
<1>1. [k \in Conn |-> Len(answers[k])] \in [Conn -> Nat]
  BY DEF Shape
<1> QED
  BY <1>1, FirstFinite DEF Answered

Unread(k) == Accept(k) \/ ReadEof(k) \/ ReadThrows(k) \/ Close(k)

\* The steps that only move the thread.
LEMMA UnreadEffect ==
    ASSUME Shape, NEW k \in Conn, Unread(k)
    PROVE  /\ Shape' /\ \A j \in Conn \ {k} : Same(j)
           /\ <<pc[k], pc'[k]>> \in {<<"new", "read">>, <<"read", "closing">>, <<"closing", "closed">>}
           /\ sent' = sent /\ end' = end /\ answers' = answers /\ request' = request
           /\ response' = response /\ todo' = todo /\ read' = read /\ handled' = handled
           /\ thrown' = thrown /\ before' = before /\ topics' = topics
           /\ counters' = counters /\ latency_samples_us' = latency_samples_us
<1>1. /\ sent' = sent /\ end' = end /\ answers' = answers /\ request' = request
      /\ response' = response /\ todo' = todo /\ read' = read /\ handled' = handled
      /\ thrown' = thrown /\ before' = before /\ topics' = topics
      /\ counters' = counters /\ latency_samples_us' = latency_samples_us
  BY DEF Unread, Accept, ReadEof, ReadThrows, Close, clients, history, metrics
<1>2. \E w \in {"read", "closing", "closed"} :
         /\ pc' = [pc EXCEPT ![k] = w]
         /\ <<pc[k], w>> \in {<<"new", "read">>, <<"read", "closing">>, <<"closing", "closed">>}
  BY DEF Unread, Accept, ReadEof, ReadThrows, Close, Goto
<1>3. PICK w \in {"read", "closing", "closed"} :
         /\ pc' = [pc EXCEPT ![k] = w]
         /\ <<pc[k], w>> \in {<<"new", "read">>, <<"read", "closing">>, <<"closing", "closed">>}
  BY <1>2
<1>4. /\ pc' \in [Conn -> Active \cup {"closing", "closed"}] /\ pc'[k] = w
      /\ \A j \in Conn \ {k} : pc'[j] = pc[j]
  BY <1>3 DEF Shape, Active
<1>5. Shape'
  BY <1>1, <1>4 DEF Shape
<1>6. \A j \in Conn \ {k} : Same(j)
  BY <1>1, <1>4 DEF Same
<1> QED
  BY <1>1, <1>3, <1>4, <1>5, <1>6

\* A client sends a request or ends; no thread has changed.
LEMMA ClientEffect ==
    ASSUME Shape, NEW k \in Conn, Client(k)
    PROVE  /\ Shape' /\ \A j \in Conn \ {k} : Same(j)
           /\ answers' = answers /\ request' = request /\ pc' = pc
           /\ response' = response /\ todo' = todo /\ read' = read /\ handled' = handled
           /\ thrown' = thrown /\ before' = before /\ topics' = topics
           /\ counters' = counters /\ latency_samples_us' = latency_samples_us
           /\ \/ /\ pc[k] = "read" /\ Len(sent[k]) < MaxRequests[k] /\ end'[k] = end[k]
                 /\ \E raw \in RawRequest[k] : sent' = [sent EXCEPT ![k] = Append(sent[k], raw)]
              \/ sent' = sent /\ (pc[k] = "read" \/ (pc[k] = "write" /\ end'[k] = "gone")) /\ end[k] = "open"
<1>1. CASE \E raw \in RawRequest[k] : Send(k, raw)
  <2>1. PICK raw \in RawRequest[k] : Send(k, raw)
    BY <1>1
  <2>2. raw \in RawRequests
    BY RawAssumption
  <2>3. /\ pc[k] = "read" /\ Len(sent[k]) < MaxRequests[k] /\ end' = end
        /\ sent' = [sent EXCEPT ![k] = Append(sent[k], raw)]
        /\ answers' = answers /\ request' = request /\ pc' = pc
        /\ response' = response /\ todo' = todo /\ read' = read /\ handled' = handled
        /\ thrown' = thrown /\ before' = before /\ topics' = topics
        /\ counters' = counters /\ latency_samples_us' = latency_samples_us
    BY <2>1 DEF Send, thread, metrics, history
  <2>4. sent' \in [Conn -> Seq(RawRequests)] /\ \A j \in Conn \ {k} : sent'[j] = sent[j]
    BY <2>2, <2>3 DEF Shape
  <2>5. Shape'
    BY <2>3, <2>4 DEF Shape
  <2>6. \A j \in Conn \ {k} : Same(j)
    BY <2>3, <2>4 DEF Same
  <2> QED
    BY <2>3, <2>5, <2>6
<1>2. CASE \E how \in {"eof", "gone"} : End(k, how)
  <2>1. PICK how \in {"eof", "gone"} : End(k, how)
    BY <1>2
  <2>2. /\ pc[k] = "read" \/ (pc[k] = "write" /\ how = "gone")
        /\ end[k] = "open" /\ end' = [end EXCEPT ![k] = how] /\ sent' = sent
        /\ answers' = answers /\ request' = request /\ pc' = pc
        /\ response' = response /\ todo' = todo /\ read' = read /\ handled' = handled
        /\ thrown' = thrown /\ before' = before /\ topics' = topics
        /\ counters' = counters /\ latency_samples_us' = latency_samples_us
    BY <2>1 DEF End, thread, metrics, history
  <2>3. end' \in [Conn -> {"open", "eof", "gone"}] /\ end'[k] = how /\ \A j \in Conn \ {k} : end'[j] = end[j]
    BY <2>2 DEF Shape
  <2>4. Shape'
    BY <2>2, <2>3 DEF Shape
  <2>5. \A j \in Conn \ {k} : Same(j)
    BY <2>2, <2>3 DEF Same
  <2> QED
    BY <2>2, <2>3, <2>4, <2>5
<1> QED
  BY <1>1, <1>2 DEF Client

\* A frame is read and parsed.
LEMMA ReadFrameEffect ==
    ASSUME Shape, NEW k \in Conn, ReadFrame(k)
    PROVE  /\ Shape' /\ \A j \in Conn \ {k} : Same(j)
           /\ pc[k] = "read" /\ read[k] < Len(sent[k]) /\ pc'[k] = "handle"
           /\ read'[k] = read[k] + 1 /\ request'[k] = parse_request(sent[k][read[k] + 1])
           /\ before'[k] = IF request'[k].type = "METRICS" THEN Answered ELSE 0
           /\ sent' = sent /\ end' = end /\ answers' = answers
           /\ response' = response /\ todo' = todo /\ handled' = handled
           /\ thrown' = thrown /\ topics' = topics
           /\ counters' = counters /\ latency_samples_us' = latency_samples_us
<1>1. PICK req : req = parse_request(sent[k][read[k] + 1])
  OBVIOUS
<1>2. /\ pc[k] = "read" /\ read[k] < Len(sent[k]) /\ pc' = [pc EXCEPT ![k] = "handle"]
      /\ request' = [request EXCEPT ![k] = req] /\ read' = [read EXCEPT ![k] = @ + 1]
      /\ sent' = sent /\ end' = end /\ answers' = answers
      /\ response' = response /\ todo' = todo /\ handled' = handled
      /\ thrown' = thrown /\ topics' = topics
      /\ counters' = counters /\ latency_samples_us' = latency_samples_us
  BY <1>1 DEF ReadFrame, NextFrame, Goto, clients, metrics
<1>3. PICK n \in Nat : n = IF request'[k].type = "METRICS" THEN Answered ELSE 0
  BY AnsweredType
<1>4. before' = [before EXCEPT ![k] = n]
  BY <1>3 DEF ReadFrame
<1>5. /\ pc' \in [Conn -> Active \cup {"closing", "closed"}] /\ pc'[k] = "handle"
      /\ \A j \in Conn \ {k} : pc'[j] = pc[j]
  BY <1>2 DEF Shape, Active
<1>6. request' = [j \in Conn |-> request'[j]] /\ request'[k] = req /\ \A j \in Conn \ {k} : request'[j] = request[j]
  BY <1>2 DEF Shape
<1>7. read' \in [Conn -> Nat] /\ read'[k] = read[k] + 1 /\ \A j \in Conn \ {k} : read'[j] = read[j]
  BY <1>2 DEF Shape
<1>8. before' \in [Conn -> Nat] /\ before'[k] = n /\ \A j \in Conn \ {k} : before'[j] = before[j]
  BY <1>4 DEF Shape
<1>9. Shape'
  BY <1>2, <1>5, <1>6, <1>7, <1>8 DEF Shape
<1>10. \A j \in Conn \ {k} : Same(j)
  BY <1>2, <1>5, <1>6, <1>7, <1>8 DEF Same
<1> QED
  BY <1>1, <1>2, <1>3, <1>5, <1>6, <1>7, <1>8, <1>9, <1>10

\* The topics after a message has been appended.
LEMMA ProduceThrowsEffect ==
    ASSUME Shape, NEW k \in Conn, ProduceThrows(k)
    PROVE  /\ Shape' /\ \A j \in Conn \ {k} : Same(j)
           /\ pc[k] = "handle" /\ pc'[k] = "closing" /\ request[k].type = "PRODUCE"
           /\ handled'[k] = handled[k] + 1 /\ thrown' = thrown \cup {k}
           /\ AppendMessage(k)
           /\ sent' = sent /\ end' = end /\ answers' = answers /\ request' = request
           /\ response' = response /\ todo' = todo /\ read' = read /\ before' = before
           /\ counters' = counters /\ latency_samples_us' = latency_samples_us
<1>1. /\ pc[k] = "handle" /\ request[k].type = "PRODUCE"
      /\ handled' = [handled EXCEPT ![k] = @ + 1] /\ thrown' = thrown \cup {k}
      /\ pc' = [pc EXCEPT ![k] = "closing"] /\ AppendMessage(k)
      /\ sent' = sent /\ end' = end /\ answers' = answers /\ request' = request
      /\ response' = response /\ todo' = todo /\ read' = read /\ before' = before
      /\ counters' = counters /\ latency_samples_us' = latency_samples_us
  BY DEF ProduceThrows, Handle, Goto, clients, metrics
<1>2. /\ pc' \in [Conn -> Active \cup {"closing", "closed"}] /\ pc'[k] = "closing"
      /\ \A j \in Conn \ {k} : pc'[j] = pc[j]
  BY <1>1 DEF Shape, Active
<1>3. handled' \in [Conn -> Nat] /\ handled'[k] = handled[k] + 1 /\ \A j \in Conn \ {k} : handled'[j] = handled[j]
  BY <1>1 DEF Shape
<1>4. Shape'
  BY <1>1, <1>2, <1>3 DEF Shape
<1>5. \A j \in Conn \ {k} : Same(j)
  BY <1>1, <1>2, <1>3 DEF Same
<1> QED
  BY <1>1, <1>2, <1>3, <1>4, <1>5

\* A METRICS request begins.
LEMMA MetricsRequestEffect ==
    ASSUME Shape, NEW k \in Conn, MetricsRequest(k)
    PROVE  /\ Shape' /\ \A j \in Conn \ {k} : Same(j)
           /\ pc[k] = "handle" /\ pc'[k] = "load" /\ request[k].type = "METRICS"
           /\ handled'[k] = handled[k] + 1 /\ todo'[k] = Loads
           /\ response'[k] \in Response /\ response'[k].text = "metrics"
           /\ sent' = sent /\ end' = end /\ answers' = answers /\ request' = request
           /\ read' = read /\ before' = before /\ thrown' = thrown /\ topics' = topics
           /\ counters' = counters /\ latency_samples_us' = latency_samples_us
<1>1. PICK r \in Response : r = Reply("metrics")
  BY ReplyType
<1>2. r.text = "metrics"
  BY <1>1 DEF Reply
<1>3. PICK s \in Seq(CounterNames) : s = Loads
  BY StepsType
<1>4. /\ pc[k] = "handle" /\ request[k].type = "METRICS"
      /\ handled' = [handled EXCEPT ![k] = @ + 1]
      /\ pc' = [pc EXCEPT ![k] = "load"]
      /\ response' = [response EXCEPT ![k] = r] /\ todo' = [todo EXCEPT ![k] = s]
      /\ sent' = sent /\ end' = end /\ answers' = answers /\ request' = request
      /\ read' = read /\ before' = before /\ thrown' = thrown /\ topics' = topics
      /\ counters' = counters /\ latency_samples_us' = latency_samples_us
  BY <1>1, <1>3 DEF MetricsRequest, Handle, Goto, clients, metrics
<1>5. /\ pc' \in [Conn -> Active \cup {"closing", "closed"}] /\ pc'[k] = "load"
      /\ \A j \in Conn \ {k} : pc'[j] = pc[j]
  BY <1>4 DEF Shape, Active
<1>6. handled' \in [Conn -> Nat] /\ handled'[k] = handled[k] + 1 /\ \A j \in Conn \ {k} : handled'[j] = handled[j]
  BY <1>4 DEF Shape
<1>7. response' \in [Conn -> Response \cup {None}] /\ response'[k] = r /\ \A j \in Conn \ {k} : response'[j] = response[j]
  BY <1>4 DEF Shape
<1>8. todo' \in [Conn -> Seq(CounterNames)] /\ todo'[k] = s /\ \A j \in Conn \ {k} : todo'[j] = todo[j]
  BY <1>4 DEF Shape
<1>9. Shape'
  BY <1>4, <1>5, <1>6, <1>7, <1>8 DEF Shape
<1>10. \A j \in Conn \ {k} : Same(j)
  BY <1>4, <1>5, <1>6, <1>7, <1>8 DEF Same
<1> QED
  BY <1>2, <1>3, <1>4, <1>5, <1>6, <1>7, <1>8, <1>9, <1>10

\* The steps of snapshot and record_request.
LEMMA LoadCounterShape ==
    ASSUME Shape, NEW k \in Conn, ThreadInv(k), LoadCounter(k)
    PROVE  /\ Shape' /\ \A j \in Conn \ {k} : Same(j)
           /\ sent' = sent /\ end' = end /\ answers' = answers /\ request' = request /\ pc' = pc
           /\ read' = read /\ before' = before /\ thrown' = thrown /\ topics' = topics
           /\ handled' = handled /\ response'[k] \in Response
           /\ counters' = counters /\ latency_samples_us' = latency_samples_us
<1>1. /\ sent' = sent /\ end' = end /\ answers' = answers /\ request' = request /\ pc' = pc
      /\ read' = read /\ before' = before /\ thrown' = thrown /\ topics' = topics
      /\ handled' = handled
      /\ counters' = counters /\ latency_samples_us' = latency_samples_us
  BY DEF LoadCounter, clients, metrics, history
<1>2. /\ todo' \in [Conn -> Seq(CounterNames)] /\ response' \in [Conn -> Response \cup {None}]
      /\ \A j \in Conn \ {k} : response'[j] = response[j] /\ todo'[j] = todo[j]
      /\ response'[k] \in Response
  BY LoadCounterEffect
<1>3. Shape'
  BY <1>1, <1>2 DEF Shape
<1>4. \A j \in Conn \ {k} : Same(j)
  BY <1>1, <1>2 DEF Same
<1> QED
  BY <1>1, <1>2, <1>3, <1>4

\* METRICS reads the samples and has its response.
LEMMA LoadSamplesShape ==
    ASSUME Shape, NEW k \in Conn, ThreadInv(k), LoadSamples(k)
    PROVE  /\ Shape' /\ \A j \in Conn \ {k} : Same(j)
           /\ pc[k] = "load" /\ todo[k] = <<>> /\ pc'[k] = "record"
           /\ todo'[k] = RecordSteps(request[k].type, TRUE)
           /\ sent' = sent /\ end' = end /\ answers' = answers /\ request' = request
           /\ read' = read /\ before' = before /\ thrown' = thrown /\ topics' = topics
           /\ handled' = handled /\ response[k] \in Response /\ response'[k] \in Response
           /\ response'[k].text = response[k].text /\ response'[k].counters = response[k].counters
           /\ response'[k].latencies = LatencyReport(latency_samples_us)
           /\ counters' = counters /\ latency_samples_us' = latency_samples_us
<1>1. PICK r \in Response :
              /\ pc[k] = "load" /\ todo[k] = <<>> /\ response[k] \in Response
              /\ Respond(k, r, TRUE)
              /\ r.text = response[k].text /\ r.counters = response[k].counters
              /\ r.latencies = LatencyReport(latency_samples_us)
              /\ handled' = handled /\ topics' = topics
  BY LoadSamplesEffect
<1>2. /\ sent' = sent /\ end' = end /\ answers' = answers /\ request' = request /\ read' = read
      /\ thrown' = thrown /\ before' = before
      /\ counters' = counters /\ latency_samples_us' = latency_samples_us
      /\ response' \in [Conn -> Response \cup {None}] /\ response'[k] = r
      /\ todo' \in [Conn -> Seq(CounterNames)] /\ todo'[k] = RecordSteps(request[k].type, TRUE)
      /\ pc' \in [Conn -> Active \cup {"closing", "closed"}] /\ pc'[k] = "record"
      /\ \A j \in Conn \ {k} : response'[j] = response[j] /\ todo'[j] = todo[j] /\ pc'[j] = pc[j]
  BY <1>1, RespondEffect
<1>3. Shape'
  BY <1>1, <1>2 DEF Shape
<1>4. \A j \in Conn \ {k} : Same(j)
  BY <1>1, <1>2 DEF Same
<1> QED
  BY <1>1, <1>2, <1>3, <1>4

\* A thread adds to the next of its counters.
LEMMA RecordCounterEffect ==
    ASSUME Shape, NEW k \in Conn, ThreadInv(k), RecordCounter(k)
    PROVE  /\ Shape' /\ \A j \in Conn \ {k} : Same(j)
           /\ pc[k] = "record" /\ todo[k] # <<>> /\ todo'[k] = Tail(todo[k])
           /\ RequestBytes(request[k]) \in Nat
           /\ \E c \in CounterNames :
                 /\ c = Head(todo[k])
                 /\ counters'[c] = counters[c] + (IF c = "total_bytes_processed" THEN RequestBytes(request[k]) ELSE 1)
                 /\ \A d \in CounterNames \ {c} : counters'[d] = counters[d]
           /\ sent' = sent /\ end' = end /\ answers' = answers /\ request' = request /\ pc' = pc
           /\ read' = read /\ before' = before /\ thrown' = thrown /\ topics' = topics
           /\ handled' = handled /\ response' = response
           /\ latency_samples_us' = latency_samples_us
<1>1. PICK b \in Nat : b = RequestBytes(request[k])
  BY RequestFacts, BytesType
<1>2. PICK s \in Seq(CounterNames) : s = todo[k] /\ s # <<>>
  BY DEF RecordCounter, Shape
<1>3. PICK c \in CounterNames : c = Head(s)
  BY <1>2
<1>4. PICK n \in Nat : n = IF c = "total_bytes_processed" THEN b ELSE 1
  OBVIOUS
<1>5. /\ counters' = [counters EXCEPT ![c] = @ + n]
      /\ todo' = [todo EXCEPT ![k] = Tail(s)] /\ Tail(s) \in Seq(CounterNames)
  BY <1>1, <1>2, <1>3, <1>4 DEF RecordCounter, Add
<1>6. /\ pc[k] = "record"
      /\ sent' = sent /\ end' = end /\ answers' = answers /\ request' = request /\ pc' = pc
      /\ read' = read /\ before' = before /\ thrown' = thrown /\ topics' = topics
      /\ handled' = handled /\ response' = response
      /\ latency_samples_us' = latency_samples_us
  BY DEF RecordCounter, clients, history
<1>7. /\ counters' \in [CounterNames -> Nat] /\ counters'[c] = counters[c] + n
      /\ \A d \in CounterNames \ {c} : counters'[d] = counters[d]
  BY <1>5 DEF Shape
<1>8. todo' \in [Conn -> Seq(CounterNames)] /\ todo'[k] = Tail(s) /\ \A j \in Conn \ {k} : todo'[j] = todo[j]
  BY <1>5 DEF Shape
<1>9. Shape'
  BY <1>6, <1>7, <1>8 DEF Shape
<1>10. \A j \in Conn \ {k} : Same(j)
  BY <1>6, <1>8 DEF Same
<1> QED
  BY <1>1, <1>2, <1>3, <1>4, <1>6, <1>7, <1>8, <1>9, <1>10

\* A thread adds its sample.
LEMMA RecordSampleEffect ==
    ASSUME Shape, NEW k \in Conn, RecordSample(k)
    PROVE  /\ Shape' /\ \A j \in Conn \ {k} : Same(j)
           /\ pc[k] = "record" /\ todo[k] = <<>> /\ pc'[k] = "write"
           /\ \E l \in Latency : latency_samples_us' = [latency_samples_us EXCEPT ![l] = @ + 1]
           /\ sent' = sent /\ end' = end /\ answers' = answers /\ request' = request
           /\ response' = response /\ todo' = todo /\ read' = read /\ before' = before
           /\ thrown' = thrown /\ topics' = topics /\ handled' = handled
           /\ counters' = counters
<1>1. PICK l \in Latency : latency_samples_us' = [latency_samples_us EXCEPT ![l] = @ + 1]
  BY DEF RecordSample, AddSample
<1>2. /\ pc[k] = "record" /\ todo[k] = <<>> /\ pc' = [pc EXCEPT ![k] = "write"]
      /\ sent' = sent /\ end' = end /\ answers' = answers /\ request' = request
      /\ response' = response /\ todo' = todo /\ read' = read /\ before' = before
      /\ thrown' = thrown /\ topics' = topics /\ handled' = handled
      /\ counters' = counters
  BY DEF RecordSample, Goto, clients, history
<1>3. latency_samples_us' \in [Latency -> Nat]
  BY <1>1 DEF Shape
<1>4. /\ pc' \in [Conn -> Active \cup {"closing", "closed"}] /\ pc'[k] = "write"
      /\ \A j \in Conn \ {k} : pc'[j] = pc[j]
  BY <1>2 DEF Shape, Active
<1>5. Shape'
  BY <1>2, <1>3, <1>4 DEF Shape
<1>6. \A j \in Conn \ {k} : Same(j)
  BY <1>2, <1>4 DEF Same
<1> QED
  BY <1>1, <1>2, <1>4, <1>5, <1>6

\* A response is written, or cannot be.
LEMMA WriteEffect ==
    ASSUME Shape, NEW k \in Conn, WriteFrame(k) \/ WriteThrows(k)
    PROVE  /\ Shape' /\ \A j \in Conn \ {k} : Same(j)
           /\ pc[k] = "write" /\ response'[k] = None
           /\ \/ pc'[k] = "read" /\ answers'[k] = IF end[k] = "gone" THEN answers[k] ELSE Append(answers[k], read[k])
              \/ pc'[k] = "closing" /\ answers'[k] = answers[k]
           /\ sent' = sent /\ end' = end /\ request' = request
           /\ todo' = todo /\ read' = read /\ before' = before
           /\ thrown' = thrown /\ topics' = topics /\ handled' = handled
           /\ counters' = counters /\ latency_samples_us' = latency_samples_us
<1>1. /\ pc[k] = "write" /\ response' = [response EXCEPT ![k] = None]
      /\ sent' = sent /\ end' = end /\ request' = request
      /\ todo' = todo /\ read' = read /\ before' = before
      /\ thrown' = thrown /\ topics' = topics /\ handled' = handled
      /\ counters' = counters /\ latency_samples_us' = latency_samples_us
  BY DEF WriteFrame, WriteThrows, clients, metrics, history
<1>2. response' \in [Conn -> Response \cup {None}] /\ response'[k] = None /\ \A j \in Conn \ {k} : response'[j] = response[j]
  BY <1>1 DEF Shape
<1>3. PICK a \in Seq(Nat) : a = answers[k]
  BY DEF Shape
<1>4. PICK n \in Nat : n = read[k]
  BY DEF Shape
<1>5. PICK b \in Seq(Nat) : b = IF end[k] = "gone" THEN a ELSE Append(a, n)
  <2>1. Append(a, n) \in Seq(Nat)
    OBVIOUS
  <2> QED
    BY <2>1
<1>6. CASE WriteFrame(k)
  <2>1. pc' = [pc EXCEPT ![k] = "read"] /\ answers' = [answers EXCEPT ![k] = b]
    BY <1>6, <1>3, <1>4, <1>5 DEF WriteFrame, Goto
  <2>2. /\ pc' \in [Conn -> Active \cup {"closing", "closed"}] /\ pc'[k] = "read"
        /\ \A j \in Conn \ {k} : pc'[j] = pc[j]
    BY <2>1 DEF Shape, Active
  <2>3. answers' \in [Conn -> Seq(Nat)] /\ answers'[k] = b /\ \A j \in Conn \ {k} : answers'[j] = answers[j]
    BY <2>1 DEF Shape
  <2>4. Shape'
    BY <1>1, <1>2, <2>2, <2>3 DEF Shape
  <2>5. \A j \in Conn \ {k} : Same(j)
    BY <1>1, <1>2, <2>2, <2>3 DEF Same
  <2> QED
    BY <1>1, <1>2, <1>3, <1>4, <1>5, <2>2, <2>3, <2>4, <2>5
<1>7. CASE WriteThrows(k)
  <2>1. pc' = [pc EXCEPT ![k] = "closing"] /\ answers' = answers
    BY <1>7 DEF WriteThrows, Goto, clients
  <2>2. /\ pc' \in [Conn -> Active \cup {"closing", "closed"}] /\ pc'[k] = "closing"
        /\ \A j \in Conn \ {k} : pc'[j] = pc[j]
    BY <2>1 DEF Shape, Active
  <2>4. Shape'
    BY <1>1, <1>2, <2>1, <2>2 DEF Shape
  <2>5. \A j \in Conn \ {k} : Same(j)
    BY <1>1, <1>2, <2>1, <2>2 DEF Same
  <2> QED
    BY <1>1, <1>2, <2>1, <2>2, <2>4, <2>5
<1> QED
  BY <1>6, <1>7

----------------------------------------------------------------------------
(* The order of a connection's requests *)

\* The threads that do not take the step.
LEMMA SameThread ==
    ASSUME NEW j, Same(j), ThreadInv(j)
    PROVE  ThreadInv(j)'
  BY DEF Same, ThreadInv, SessionInv, RequestInv

\* The thread that does.
LEMMA StepThread ==
    ASSUME Shape, TopicsInv, NEW k \in Conn, ThreadInv(k), StepOf(k)
    PROVE  Shape' /\ (\A j \in Conn \ {k} : Same(j)) /\ ThreadInv(k)'
<1> USE DEF ThreadInv, SessionInv, RequestInv, Active, Busy
<1>0. /\ read[k] \in Nat /\ Len(answers[k]) \in Nat /\ Len(sent[k]) \in Nat /\ handled[k] \in Nat
      /\ answers[k] \in Seq(Nat) /\ None \notin Response
  BY NoneAssumption DEF Shape
<1>1. CASE Unread(k)
  BY <1>1, <1>0, UnreadEffect
<1>2. CASE Client(k)
  <2>1. /\ Shape' /\ \A j \in Conn \ {k} : Same(j)
        /\ answers' = answers /\ request' = request /\ pc' = pc
        /\ response' = response /\ read' = read /\ handled' = handled
        /\ thrown' = thrown
        /\ \/ /\ pc[k] = "read" /\ Len(sent[k]) < MaxRequests[k] /\ end'[k] = end[k]
              /\ \E raw \in RawRequest[k] : sent' = [sent EXCEPT ![k] = Append(sent[k], raw)]
           \/ sent' = sent /\ (pc[k] = "read" \/ (pc[k] = "write" /\ end'[k] = "gone")) /\ end[k] = "open"
    BY <1>2, ClientEffect
  <2>2. CASE sent' = sent
    BY <1>0, <2>1, <2>2
  <2>3. CASE /\ pc[k] = "read" /\ Len(sent[k]) < MaxRequests[k] /\ end'[k] = end[k]
             /\ \E raw \in RawRequest[k] : sent' = [sent EXCEPT ![k] = Append(sent[k], raw)]
    <3>1. PICK raw \in RawRequest[k] : sent' = [sent EXCEPT ![k] = Append(sent[k], raw)]
      BY <2>3
    <3>2. PICK s \in Seq(RawRequest[k]) : s = sent[k]
      OBVIOUS
    <3>3. sent'[k] = Append(s, raw)
      BY <3>1, <3>2 DEF Shape
    <3>4. /\ sent'[k] \in Seq(RawRequest[k]) /\ Len(sent'[k]) = Len(s) + 1
          /\ \A i \in 1..Len(s) : sent'[k][i] = s[i]
      BY <3>3
    <3>5. MaxRequests[k] \in Nat
      BY BoundAssumption
    <3>6. request'[k] = IF read'[k] = 0 THEN Invalid ELSE parse_request(sent'[k][read'[k]])
      <4>1. read[k] # 0 => sent'[k][read[k]] = sent[k][read[k]]
        BY <1>0, <3>2, <3>4
      <4> QED
        BY <2>1, <4>1
    <3> QED
      BY <1>0, <2>1, <2>3, <3>2, <3>4, <3>5, <3>6
  <2> QED
    BY <2>1, <2>2, <2>3
<1>3. CASE ReadFrame(k)
  BY <1>3, <1>0, ReadFrameEffect, SMTT(30)
<1>4. CASE Quick(k)
  <2>1. PICK types : \E r \in Response, success \in BOOLEAN : Answers(k, types, r, success)
    BY <1>4, QuickAnswers
  <2>2. PICK r \in Response, success \in BOOLEAN : Answers(k, types, r, success)
    BY <2>1
  <2>3. /\ Shape' /\ (\A j \in Conn \ {k} : Same(j))
        /\ pc[k] = "handle"
        /\ sent'[k] = sent[k] /\ end'[k] = end[k] /\ answers'[k] = answers[k]
        /\ request'[k] = request[k] /\ read'[k] = read[k]
        /\ thrown' = thrown
        /\ pc'[k] = "record" /\ response'[k] = r /\ handled'[k] = handled[k] + 1
    BY <2>2, AnswersShape
  <2>4. r # None
    BY <1>0
  <2> QED
    BY <1>0, <2>3, <2>4
<1>5. CASE ProduceThrows(k)
  BY <1>5, <1>0, ProduceThrowsEffect, SMTT(30)
<1>6. CASE MetricsRequest(k)
  <2>1. response'[k] \in Response => response'[k] # None
    BY <1>0
  <2> QED
    BY <1>6, <1>0, MetricsRequestEffect, SMTT(30)
<1>7. CASE LoadCounter(k)
  <2>1. pc[k] = "load"
    BY <1>7 DEF LoadCounter
  <2> QED
    BY <1>7, <1>0, <2>1, LoadCounterShape
<1>8. CASE LoadSamples(k)
  BY <1>8, <1>0, LoadSamplesShape
<1>9. CASE RecordCounter(k)
  BY <1>9, <1>0, RecordCounterEffect
<1>10. CASE RecordSample(k)
  BY <1>10, <1>0, RecordSampleEffect
<1>11. CASE WriteFrame(k) \/ WriteThrows(k)
  <2>1. /\ Shape' /\ \A j \in Conn \ {k} : Same(j)
        /\ pc[k] = "write" /\ response'[k] = None
        /\ \/ pc'[k] = "read" /\ answers'[k] = IF end[k] = "gone" THEN answers[k] ELSE Append(answers[k], read[k])
           \/ pc'[k] = "closing" /\ answers'[k] = answers[k]
        /\ sent' = sent /\ end' = end /\ request' = request
        /\ read' = read /\ thrown' = thrown /\ handled' = handled
    BY <1>11, WriteEffect
  <2>2. CASE pc'[k] \in {"read", "closing"} /\ answers'[k] = answers[k] /\ (pc'[k] = "closing" \/ end[k] = "gone")
    BY <1>0, <2>1, <2>2
  <2>3. CASE pc'[k] = "read" /\ end[k] # "gone" /\ answers'[k] = Append(answers[k], read[k])
    <3>1. PICK a \in Seq(Nat) : a = answers[k]
      BY <1>0
    <3>2. Len(a) = read[k] - 1
      BY <2>1, <2>3, <3>1 DEF Shape
    <3>3. Len(answers'[k]) = Len(a) + 1 /\ answers'[k][Len(a) + 1] = read[k] /\ \A i \in 1..Len(a) : answers'[k][i] = a[i]
      BY <1>0, <2>3, <3>1
    <3>4. \A i \in 1..(Len(a) + 1) : i = Len(a) + 1 \/ i \in 1..Len(a)
      OBVIOUS
    <3>5. \A i \in 1..Len(answers'[k]) : answers'[k][i] = i
      <4>1. \A i \in 1..Len(a) : a[i] = i
        BY <3>1
      <4>2. PICK b : b = answers'[k]
        OBVIOUS
      <4>3. PICK n \in Nat : n = Len(a)
        BY <3>1
      <4>4. /\ Len(b) = n + 1 /\ b[n + 1] = n + 1 /\ \A i \in 1..n : b[i] = i
            /\ \A i \in 1..(n + 1) : i = n + 1 \/ i \in 1..n
        <5>1. read[k] = n + 1
          BY <1>0, <3>2, <4>3
        <5>2. Len(b) = n + 1 /\ b[n + 1] = n + 1
          BY <5>1, <3>3, <4>2, <4>3
        <5>3. \A i \in 1..n : b[i] = a[i]
          BY <3>3, <4>2, <4>3
        <5>4. \A i \in 1..n : a[i] = i
          BY <4>1, <4>3
        <5> QED
          BY <5>2, <5>3, <5>4
      <4>5. \A i \in 1..Len(b) : b[i] = i
        BY <4>4
      <4> QED
        BY <4>2, <4>5
    <3> QED
      BY <1>0, <2>1, <2>3, <3>1, <3>2, <3>3, <3>5
  <2> QED
    BY <2>1, <2>2, <2>3
<1> QED
  BY <1>1, <1>2, <1>3, <1>4, <1>5, <1>6, <1>7, <1>8, <1>9, <1>10, <1>11 DEF StepOf, Thread, Unread, Quick

----------------------------------------------------------------------------
(* The topics *)

\* How PRODUCE changes the topics.
LEMMA AppendEffect ==
    ASSUME Shape, TopicsInv, NEW k \in Conn, ThreadInv(k), request[k].type = "PRODUCE", AppendMessage(k)
    PROVE  /\ topics' = [t \in DOMAIN topics' |-> topics'[t]]
           /\ DOMAIN topics \subseteq DOMAIN topics'
           /\ \A t \in DOMAIN topics' : topics'[t] \in [0..(PartitionCount - 1) -> Seq(Message)]
           /\ \A t \in DOMAIN topics, p \in 0..(PartitionCount - 1) :
                 \/ topics'[t][p] = topics[t][p]
                 \/ \E m \in Message : topics'[t][p] = Append(topics[t][p], m)
           /\ \A t \in DOMAIN topics' \ DOMAIN topics, p \in 0..(PartitionCount - 1) :
                 \/ topics'[t][p] = <<>>
                 \/ \E m \in Message : topics'[t][p] = <<m>>
<1>16. PICK u : u = Topic(k)
  OBVIOUS
<1>17. PICK m \in Message, q \in 0..(PartitionCount - 1) : m = request[k].payload /\ q = Partition(k)
  BY RequestFacts
<1>1. m = request[k].payload /\ u = Topic(k) /\ q = Partition(k)
  BY <1>16, <1>17
<1>2. PICK P : P = 0..(PartitionCount - 1)
  OBVIOUS
<1>3. PICK w : w = WithTopic(u)
  OBVIOUS
<1>4. /\ w = [t \in DOMAIN topics \cup {u} |-> w[t]]
      /\ \A t \in DOMAIN topics : w[t] = topics[t]
      /\ u \notin DOMAIN topics => w[u] = [p \in P |-> <<>>]
  <2>1. CASE u \in DOMAIN topics
    <3>1. w = topics /\ DOMAIN topics \cup {u} = DOMAIN topics
      BY <1>3, <2>1 DEF WithTopic
    <3> QED
      BY <2>1, <3>1 DEF TopicsInv
  <2>2. CASE u \notin DOMAIN topics
    <3>1. w = [t \in DOMAIN topics \cup {u} |-> IF t = u THEN NoMessages ELSE topics[t]]
      BY <1>3, <2>2 DEF WithTopic, With
    <3>2. NoMessages = [p \in P |-> <<>>]
      BY <1>2 DEF NoMessages
    <3> QED
      BY <2>2, <3>1, <3>2
  <2> QED
    BY <2>1, <2>2
<1>5. \A t \in DOMAIN topics \cup {u} : w[t] \in [P -> Seq(Message)]
  <2>1. \A t \in DOMAIN topics : topics[t] \in [P -> Seq(Message)]
    BY <1>2 DEF TopicsInv
  <2>2. <<>> \in Seq(Message)
    OBVIOUS
  <2>3. [p \in P |-> <<>>] \in [P -> Seq(Message)]
    BY <2>2
  <2> QED
    BY <1>4, <2>1, <2>3
<1>6. topics' = [w EXCEPT ![u][q] = Append(@, m)]
  BY <1>1, <1>3 DEF AppendMessage
<1>7. PICK f \in [P -> Seq(Message)] : f = w[u]
  BY <1>5
<1>8. PICK a \in Seq(Message) : a = Append(f[q], m)
  <2>1. PICK s \in Seq(Message) : s = f[q]
    BY <1>2, <1>7
  <2>2. Append(s, m) \in Seq(Message)
    OBVIOUS
  <2> QED
    BY <2>1, <2>2
<1>9. PICK g \in [P -> Seq(Message)] : g = [f EXCEPT ![q] = a]
  BY <1>8
<1>10. topics' = [w EXCEPT ![u] = g]
  BY <1>6, <1>7, <1>8, <1>9
<1>11. /\ topics' = [t \in DOMAIN topics \cup {u} |-> topics'[t]]
       /\ topics'[u] = g /\ \A t \in DOMAIN topics \ {u} : topics'[t] = topics[t]
  BY <1>4, <1>10
<1>12. DOMAIN topics' = DOMAIN topics \cup {u}
  BY <1>11
<1>13. \A t \in DOMAIN topics' : topics'[t] \in [P -> Seq(Message)]
  BY <1>2, <1>9, <1>11, <1>12 DEF TopicsInv
<1>14. ASSUME NEW t \in DOMAIN topics, NEW p \in P
       PROVE  topics'[t][p] = topics[t][p] \/ \E x \in Message : topics'[t][p] = Append(topics[t][p], x)
  <2>1. CASE t = u
    <3>1. f = topics[t] /\ topics'[t] = g
      BY <1>4, <1>7, <1>11, <2>1
    <3>2. g[p] = f[p] \/ g[p] = Append(f[p], m)
      BY <1>8, <1>9
    <3> QED
      BY <3>1, <3>2
  <2>2. CASE t # u
    BY <1>11, <2>2
  <2> QED
    BY <2>1, <2>2
<1>15. ASSUME NEW t \in DOMAIN topics' \ DOMAIN topics, NEW p \in P
       PROVE  topics'[t][p] = <<>> \/ \E x \in Message : topics'[t][p] = <<x>>
  <2>1. t = u /\ u \notin DOMAIN topics
    BY <1>12
  <2>2. f = [r \in P |-> <<>>] /\ topics'[t] = g
    BY <1>4, <1>7, <1>11, <2>1
  <2>3. g[p] = f[p] \/ g[p] = Append(f[p], m)
    BY <1>8, <1>9
  <2>4. f[p] = <<>> /\ Append(<<>>, m) = <<m>>
    BY <2>2
  <2> QED
    BY <2>2, <2>3, <2>4
<1> QED
  BY <1>2, <1>11, <1>12, <1>13, <1>14, <1>15

\* The steps that leave the topics, and those that do not.
LEMMA StepTopics ==
    ASSUME Shape, TopicsInv, NEW k \in Conn, ThreadInv(k), StepOf(k)
    PROVE  /\ handled' \in [Conn -> Nat] /\ \A j \in Conn \ {k} : handled'[j] = handled[j]
           /\ \/ topics' = topics /\ handled'[k] \in {handled[k], handled[k] + 1}
              \/ request[k].type = "PRODUCE" /\ AppendMessage(k) /\ handled'[k] = handled[k] + 1
<1>1. Shape' /\ (\A j \in Conn \ {k} : Same(j))
  BY StepThread
<1>2. handled' \in [Conn -> Nat] /\ \A j \in Conn \ {k} : handled'[j] = handled[j]
  BY <1>1 DEF Shape, Same
<1>3. CASE Produce(k)
  <2>1. Handle(k, {"PRODUCE"}) /\ AppendMessage(k)
    BY <1>3 DEF Produce
  <2> QED
    BY <1>2, <2>1, HandleEffect
<1>4. CASE ProduceThrows(k)
  BY <1>2, <1>4, ProduceThrowsEffect
<1>5. CASE PingOrRefuse(k) \/ GroupRequest(k) \/ Fetch(k)
  <2>1. topics' = topics /\ \E types : Handle(k, types)
    BY <1>5 DEF PingOrRefuse, GroupRequest, Fetch
  <2>2. PICK types : Handle(k, types)
    BY <2>1
  <2> QED
    BY <1>2, <2>1, <2>2, HandleEffect
<1>6. CASE MetricsRequest(k)
  BY <1>2, <1>6, MetricsRequestEffect
<1>7. CASE Unread(k)
  BY <1>2, <1>7, UnreadEffect
<1>8. CASE Client(k)
  BY <1>2, <1>8, ClientEffect
<1>9. CASE ReadFrame(k)
  BY <1>2, <1>9, ReadFrameEffect
<1>10. CASE LoadCounter(k) \/ LoadSamples(k)
  BY <1>2, <1>10, LoadCounterShape, LoadSamplesShape
<1>11. CASE RecordCounter(k) \/ RecordSample(k)
  BY <1>2, <1>11, RecordCounterEffect, RecordSampleEffect
<1>12. CASE WriteFrame(k) \/ WriteThrows(k)
  BY <1>2, <1>12, WriteEffect
<1> QED
  BY <1>3, <1>4, <1>5, <1>6, <1>7, <1>8, <1>9, <1>10, <1>11, <1>12 DEF StepOf, Thread, Unread

\* PRODUCE appends what it let in, everything else leaves the topics alone.
LEMMA TopicsStep ==
    ASSUME Shape, TopicsInv, NEW k \in Conn, ThreadInv(k), StepOf(k)
    PROVE  TopicsInv'
<1>1. /\ handled' \in [Conn -> Nat] /\ \A j \in Conn \ {k} : handled'[j] = handled[j]
      /\ \/ topics' = topics /\ handled'[k] \in {handled[k], handled[k] + 1}
         \/ request[k].type = "PRODUCE" /\ AppendMessage(k) /\ handled'[k] = handled[k] + 1
  BY StepTopics
<1>2. handled \in [Conn -> Nat]
  BY DEF Shape
<1>3. PICK h \in [Conn -> Nat] : h = handled'
  BY <1>1
<1>4. PICK n \in Nat : n = Cardinality(First(handled))
  BY <1>2, FirstFinite
<1>5. PICK n2 \in Nat : n2 = Cardinality(First(h))
  BY FirstFinite
<1>6. n2 = Cardinality(First(handled'))
  BY <1>3, <1>5
<1>7. CASE topics' = topics
  <2>1. \A j \in Conn : handled[j] <= h[j]
    BY <1>1, <1>2, <1>3
  <2>2. n <= n2
    BY <1>2, <1>4, <1>5, <2>1, FirstMonotone
  <2>3. \A t \in DOMAIN topics, p \in 0..(PartitionCount - 1) :
           Len(topics[t][p]) \in Nat /\ Len(topics[t][p]) <= n
    BY <1>4 DEF TopicsInv
  <2>4. \A t \in DOMAIN topics, p \in 0..(PartitionCount - 1) : Len(topics[t][p]) <= n2
    BY <2>2, <2>3
  <2>5. (Cardinality(First(handled)))' = n2
    BY <1>6 DEF First
  <2> QED
    BY <1>7, <2>4, <2>5 DEF TopicsInv
<1>8. CASE request[k].type = "PRODUCE" /\ AppendMessage(k) /\ handled'[k] = handled[k] + 1
  <2>1. n2 = n + 1
    BY <1>1, <1>2, <1>3, <1>4, <1>5, <1>8, FirstGrows
  <2>2. /\ topics' = [t \in DOMAIN topics' |-> topics'[t]]
        /\ \A t \in DOMAIN topics' : topics'[t] \in [0..(PartitionCount - 1) -> Seq(Message)]
        /\ \A t \in DOMAIN topics, p \in 0..(PartitionCount - 1) :
              \/ topics'[t][p] = topics[t][p]
              \/ \E m \in Message : topics'[t][p] = Append(topics[t][p], m)
        /\ \A t \in DOMAIN topics' \ DOMAIN topics, p \in 0..(PartitionCount - 1) :
              \/ topics'[t][p] = <<>>
              \/ \E m \in Message : topics'[t][p] = <<m>>
    BY <1>8, AppendEffect
  <2>3. ASSUME NEW t \in DOMAIN topics', NEW p \in 0..(PartitionCount - 1)
        PROVE  Len(topics'[t][p]) <= n2
    <3>1. CASE t \in DOMAIN topics
      <4>1. PICK s \in Seq(Message) : s = topics[t][p]
        BY <3>1 DEF TopicsInv
      <4>2. Len(s) <= n
        BY <1>4, <3>1, <4>1 DEF TopicsInv
      <4>3. topics'[t][p] = s \/ \E m \in Message : topics'[t][p] = Append(s, m)
        BY <2>2, <3>1, <4>1
      <4>4. \A m \in Message : Len(Append(s, m)) = Len(s) + 1
        OBVIOUS
      <4>5. Len(topics'[t][p]) = Len(s) \/ Len(topics'[t][p]) = Len(s) + 1
        BY <4>3, <4>4
      <4> QED
        BY <2>1, <4>2, <4>5
    <3>2. CASE t \notin DOMAIN topics
      <4>1. topics'[t][p] = <<>> \/ \E m \in Message : topics'[t][p] = <<m>>
        BY <2>2, <3>2
      <4>2. Len(<<>>) = 0 /\ \A m : Len(<<m>>) = 1
        OBVIOUS
      <4>3. Len(topics'[t][p]) \in {0, 1}
        BY <4>1, <4>2
      <4>4. 0 <= n2 /\ 1 <= n2
        BY <2>1
      <4> QED
        BY <4>3, <4>4
    <3> QED
      BY <3>1, <3>2
  <2>4. (Cardinality(First(handled)))' = n2
    BY <1>6 DEF First
  <2> QED
    BY <2>2, <2>3, <2>4 DEF TopicsInv
<1> QED
  BY <1>1, <1>7, <1>8

\* What a FETCH that was answered earlier got is still there.
LEMMA PrefixOfAppend ==
    ASSUME NEW s \in Seq(Message), NEW m \in Message, NEW o \in Nat, NEW n \in 0..Len(s)
    PROVE  SubSeq(Append(s, m), o + 1, n) = SubSeq(s, o + 1, n)
<1>1. PICK a \in Seq(Message) : a = Append(s, m) /\ Len(a) = Len(s) + 1 /\ \A i \in 1..Len(s) : a[i] = s[i]
  <2>1. Append(s, m) \in Seq(Message) /\ Len(Append(s, m)) = Len(s) + 1 /\ \A i \in 1..Len(s) : Append(s, m)[i] = s[i]
    OBVIOUS
  <2> QED
    BY <2>1, Zenon
<1>2. o + 1 \in Int /\ n \in Int /\ Len(s) \in Nat /\ \A i \in (o + 1)..n : i \in 1..Len(s)
  OBVIOUS
<1>3. \A i \in (o + 1)..n : s[i] \in Message /\ a[i] \in Message /\ a[i] = s[i]
  BY <1>1, <1>2
<1>4. CASE n < o + 1
  BY <1>1, <1>2, <1>4, SubSeqEmpty
<1>5. CASE o + 1 <= n
  <2>1. /\ SubSeq(s, o + 1, n) \in Seq(Message) /\ Len(SubSeq(s, o + 1, n)) = n - (o + 1) + 1
        /\ \A i \in 1..(n - (o + 1) + 1) : SubSeq(s, o + 1, n)[i] = s[o + 1 + i - 1]
    BY <1>2, <1>3, <1>5, SubSeqProperties
  <2>2. /\ SubSeq(a, o + 1, n) \in Seq(Message) /\ Len(SubSeq(a, o + 1, n)) = n - (o + 1) + 1
        /\ \A i \in 1..(n - (o + 1) + 1) : SubSeq(a, o + 1, n)[i] = a[o + 1 + i - 1]
    BY <1>2, <1>3, <1>5, SubSeqProperties
  <2>3. \A i \in 1..(n - (o + 1) + 1) : o + 1 + i - 1 \in (o + 1)..n
    BY <1>2, <1>5
  <2>4. \A i \in 1..(n - (o + 1) + 1) : SubSeq(a, o + 1, n)[i] = SubSeq(s, o + 1, n)[i]
    BY <1>3, <2>1, <2>2, <2>3
  <2> QED
    BY <1>1, <2>1, <2>2, <2>4, SeqEqual
<1> QED
  BY <1>2, <1>4, <1>5

\* What a FETCH has read of a partition stays there.
LEMMA PrefixKept ==
    ASSUME Shape, TopicsInv, NEW k \in Conn, ThreadInv(k), StepOf(k),
           NEW t \in DOMAIN topics, NEW p \in 0..(PartitionCount - 1), NEW o \in Nat,
           NEW n \in 0..Len(topics[t][p])
    PROVE  /\ t \in DOMAIN topics' /\ n \in 0..Len(topics'[t][p])
           /\ SubSeq(topics'[t][p], o + 1, n) = SubSeq(topics[t][p], o + 1, n)
<1>1. \/ topics' = topics
      \/ request[k].type = "PRODUCE" /\ AppendMessage(k)
  BY StepTopics
<1>2. CASE topics' = topics
  BY <1>2
<1>3. CASE request[k].type = "PRODUCE" /\ AppendMessage(k)
  <2>1. PICK s \in Seq(Message) : s = topics[t][p]
    BY DEF TopicsInv
  <2>2. t \in DOMAIN topics' /\ (topics'[t][p] = s \/ \E m \in Message : topics'[t][p] = Append(s, m))
    BY <1>3, <2>1, AppendEffect
  <2>3. CASE topics'[t][p] = s
    BY <2>1, <2>2, <2>3
  <2>4. CASE \E m \in Message : topics'[t][p] = Append(s, m)
    <3>1. PICK m \in Message : topics'[t][p] = Append(s, m)
      BY <2>4
    <3>2. n \in 0..Len(s) /\ n \in 0..Len(Append(s, m))
      BY <2>1
    <3>3. SubSeq(Append(s, m), o + 1, n) = SubSeq(s, o + 1, n)
      BY <3>2, PrefixOfAppend
    <3> QED
      BY <2>1, <2>2, <3>1, <3>2, <3>3
  <2> QED
    BY <2>2, <2>3, <2>4
<1> QED
  BY <1>1, <1>2, <1>3

\* A FETCH response is what its partition held from the offset on.
IsPart(k) ==
    /\ request[k].type = "FETCH"
    /\ Topic(k) \in DOMAIN topics
    /\ \E n \in 0..Len(topics[Topic(k)][Partition(k)]) :
          response[k].messages =
              JoinMessages(SubSeq(topics[Topic(k)][Partition(k)], request[k].args["offset"].value + 1, n))

FetchInv(k) ==
    /\ pc[k] = "load" => response[k].text # "messages"
    /\ pc[k] \in {"record", "write"} /\ response[k].text = "messages" => IsPart(k)

\* A response that is part of a partition stays one.
LEMMA PartKept ==
    ASSUME Shape, TopicsInv, NEW k \in Conn, ThreadInv(k), StepOf(k), NEW j \in Conn, ThreadInv(j), IsPart(j),
           request'[j] = request[j], response'[j] = response[j]
    PROVE  IsPart(j)'
<1>1. request[j].type = "FETCH" /\ Topic(j) \in DOMAIN topics
  BY DEF IsPart
<1>2. PICK o \in Nat : o = request[j].args["offset"].value
  BY <1>1, RequestFacts
<1>3. PICK p \in 0..(PartitionCount - 1) : p = Partition(j)
  BY <1>1, RequestFacts
<1>4. PICK t \in DOMAIN topics : t = Topic(j)
  BY <1>1
<1>5. PICK n \in 0..Len(topics[t][p]) : response[j].messages = JoinMessages(SubSeq(topics[t][p], o + 1, n))
  BY <1>2, <1>3, <1>4 DEF IsPart
<1>6. /\ t \in DOMAIN topics' /\ n \in 0..Len(topics'[t][p])
      /\ SubSeq(topics'[t][p], o + 1, n) = SubSeq(topics[t][p], o + 1, n)
  BY PrefixKept
<1>7. response'[j].messages = JoinMessages(SubSeq(topics'[t][p], o + 1, n))
  BY <1>5, <1>6
<1>8. /\ Topic(j)' = t /\ Partition(j)' = p /\ request'[j].args["offset"].value = o
      /\ request'[j].type = "FETCH"
  BY <1>1, <1>2, <1>3, <1>4 DEF Topic, Partition
<1>9. \E i \in 0..Len(topics'[t][p]) : response'[j].messages = JoinMessages(SubSeq(topics'[t][p], o + 1, i))
  BY <1>6, <1>7
<1> QED
  BY <1>6, <1>8, <1>9 DEF IsPart

\* The responses of FETCH through a step of any thread.
LEMMA FetchStep ==
    ASSUME Shape, TopicsInv, NEW k \in Conn, StepOf(k), NEW j \in Conn, ThreadInv(j), FetchInv(j), ThreadInv(k)
    PROVE  FetchInv(j)'
<1> DEFINE Kept == /\ request'[j] = request[j] /\ response'[j] = response[j]
                   /\ pc'[j] = "load" => pc[j] = "load"
                   /\ pc'[j] \in {"record", "write"} => pc[j] \in {"record", "write"}
<1>1. CASE Kept
  <2>1. CASE pc[j] \in {"record", "write"} /\ response[j].text = "messages"
    <3>1. IsPart(j)'
      BY <1>1, <2>1, PartKept DEF FetchInv
    <3> QED
      BY <1>1, <2>1, <3>1 DEF FetchInv
  <2>2. CASE ~(pc[j] \in {"record", "write"} /\ response[j].text = "messages")
    BY <1>1, <2>2 DEF FetchInv
  <2> QED
    BY <2>1, <2>2
<1>2. CASE j # k
  <2>1. Same(j)
    BY <1>2, StepThread
  <2> QED
    BY <1>1, <2>1 DEF Same
<1>3. CASE pc'[j] \notin {"load", "record", "write"}
  BY <1>3 DEF FetchInv
<1>4. CASE j = k
  <2>1. CASE Quick(k)
    <3>1. PICK types : \E r \in Response, success \in BOOLEAN :
              /\ Answers(k, types, r, success)
              /\ r.text = "messages" =>
                    Fetch(k) /\ Topic(k) \in DOMAIN topics /\ r.messages = JoinMessages(Fetched(k))
      BY <1>4, <2>1, QuickAnswers
    <3>2. PICK r \in Response, success \in BOOLEAN :
              /\ Answers(k, types, r, success)
              /\ r.text = "messages" =>
                    Fetch(k) /\ Topic(k) \in DOMAIN topics /\ r.messages = JoinMessages(Fetched(k))
      BY <3>1
    <3>3. pc'[k] = "record" /\ response'[k] = r /\ request'[k] = request[k]
      BY <3>2, AnswersShape
    <3>4. CASE r.text # "messages"
      BY <1>4, <3>3, <3>4 DEF FetchInv
    <3>5. CASE r.text = "messages"
      <4>1. request[k].type = "FETCH" /\ topics' = topics
        BY <3>2, <3>5 DEF Fetch, Handle
      <4>2. PICK s \in Seq(Message) : s = topics[Topic(k)][Partition(k)]
        BY <1>4, <3>2, <3>5, <4>1, RequestFacts DEF TopicsInv
      <4>3. Len(s) \in 0..Len(s)
        OBVIOUS
      <4>4. r.messages = JoinMessages(SubSeq(s, request[k].args["offset"].value + 1, Len(s)))
        BY <3>2, <3>5, <4>2 DEF Fetched
      <4>5. \E n \in 0..Len(s) : r.messages = JoinMessages(SubSeq(s, request[k].args["offset"].value + 1, n))
        BY <4>3, <4>4
      <4>6. Topic(k)' = Topic(k) /\ Partition(k)' = Partition(k)
        BY <3>3 DEF Topic, Partition
      <4>7. IsPart(k)'
        BY <3>2, <3>3, <3>5, <4>1, <4>2, <4>5, <4>6 DEF IsPart
      <4> QED
        BY <1>4, <3>3, <4>7 DEF FetchInv
    <3> QED
      BY <3>4, <3>5
  <2>2. CASE MetricsRequest(k)
    BY <1>4, <2>2, MetricsRequestEffect DEF FetchInv
  <2>3. CASE LoadCounter(k)
    <3>1. PICK c \in CounterNames, r \in Response :
             /\ pc[k] = "load" /\ response'[k] = r /\ r.text = response[k].text
      BY <1>4, <2>3, LoadCounterEffect
    <3>2. pc' = pc
      BY <2>3, <1>4, LoadCounterShape
    <3> QED
      BY <1>4, <3>1, <3>2 DEF FetchInv
  <2>4. CASE LoadSamples(k)
    BY <1>4, <2>4, LoadSamplesShape DEF FetchInv
  <2>5. CASE Unread(k) \/ ReadFrame(k)
    BY <1>3, <1>4, <2>5, UnreadEffect, ReadFrameEffect
  <2>6. CASE Client(k)
    BY <1>1, <1>4, <2>6, ClientEffect
  <2>7. CASE ProduceThrows(k) \/ WriteFrame(k) \/ WriteThrows(k)
    BY <1>3, <1>4, <2>7, ProduceThrowsEffect, WriteEffect
  <2>8. CASE RecordCounter(k) \/ RecordSample(k)
    BY <1>1, <1>4, <2>8, RecordCounterEffect, RecordSampleEffect
  <2> QED
    BY <2>1, <2>2, <2>3, <2>4, <2>5, <2>6, <2>7, <2>8 DEF StepOf, Thread, Unread, Quick
<1> QED
  BY <1>2, <1>4

----------------------------------------------------------------------------
(* The counters *)

\* The counters by what they count. Each request adds to one of Outcomes.
Totals == {"total_requests"}
Outcomes == {"successful_requests", "failed_requests"}
Volume == {"total_bytes_processed"}
Main == {Totals, Outcomes, Volume}
Typed == {{TypeCounter[type]} : type \in DOMAIN TypeCounter}

Once(s, cs) == \A i, j \in 1..Len(s) : s[i] \in cs /\ s[j] \in cs => i = j
Contains(s, cs) == \E i \in 1..Len(s) : s[i] \in cs

\* The counters that a thread has yet to read, or to add to.
TodoInv(k) ==
    /\ pc[k] = "load" =>
          todo[k] \in {Loads, <<"successful_requests", "failed_requests">>, <<"failed_requests">>, <<>>}
    /\ pc[k] = "record" =>
          /\ \A cs \in Main \cup Typed : Once(todo[k], cs)
          /\ \A t \in DOMAIN TypeCounter : Contains(todo[k], {TypeCounter[t]}) => request[k].type = t

\* The last request of k has not been counted in the counters cs.
Late(k, cs) ==
    \/ k \in thrown
    \/ pc[k] = "load"
    \/ pc[k] = "record" /\ Contains(todo[k], cs)

\* The requests that have.
Count(k, cs) == IF Late(k, cs) THEN handled[k] - 1 ELSE handled[k]
Counts(cs) == [k \in Conn |-> Count(k, cs)]
Counted(cs) == First(Counts(cs))

\* Of counters to be added to once, the first is done with.
LEMMA TailOnce ==
    ASSUME NEW s \in Seq(CounterNames), s # <<>>, NEW cs, Once(s, cs)
    PROVE  /\ Once(Tail(s), cs)
           /\ Head(s) \in cs => Contains(s, cs) /\ ~Contains(Tail(s), cs)
           /\ Head(s) \notin cs => (Contains(s, cs) <=> Contains(Tail(s), cs))
<1>1. PICK n \in Nat : n = Len(s) /\ n > 0
  OBVIOUS
<1>10. Tail(s) \in Seq(CounterNames)
  OBVIOUS
<1>2. PICK t \in Seq(CounterNames) : t = Tail(s)
  BY <1>10, Zenon
<1>3. Len(t) = n - 1 /\ (\A i \in 1..(n - 1) : t[i] = s[i + 1]) /\ Head(s) = s[1]
  BY <1>1, <1>2
<1>4. \A i \in 1..(n - 1) : i + 1 \in 1..n /\ i + 1 # 1
  BY <1>1
<1>5. \A i \in 1..n : i = 1 \/ (i - 1 \in 1..(n - 1) /\ (i - 1) + 1 = i)
  BY <1>1
<1>6. 1 \in 1..n
  BY <1>1
<1>7. Once(t, cs)
  BY <1>1, <1>3, <1>4 DEF Once
<1>8. Head(s) \in cs => Contains(s, cs) /\ ~Contains(t, cs)
  BY <1>1, <1>3, <1>4, <1>6 DEF Once, Contains
<1>9. ASSUME Head(s) \notin cs PROVE Contains(s, cs) <=> Contains(t, cs)
  <2>1. ASSUME NEW i \in 1..n, s[i] \in cs PROVE Contains(t, cs)
    <3>1. i - 1 \in 1..(n - 1) /\ t[i - 1] = s[i]
      BY <1>3, <1>5, <1>9, <2>1
    <3> QED
      BY <1>3, <2>1, <3>1 DEF Contains
  <2>2. ASSUME NEW i \in 1..(n - 1), t[i] \in cs PROVE Contains(s, cs)
    BY <1>1, <1>3, <1>4, <2>2 DEF Contains
  <2> QED
    BY <1>1, <1>3, <2>1, <2>2 DEF Contains
<1> QED
  BY <1>2, <1>7, <1>8, <1>9

\* The counters of a request that has one for its type, and of one that has not.
LEMMA FourSteps ==
    ASSUME NEW a, NEW b, NEW c, NEW d, NEW s, s = <<a, b>> \o <<c>> \o <<d>>
    PROVE  Len(s) = 4 /\ s[1] = a /\ s[2] = b /\ s[3] = c /\ s[4] = d
<1>1. PICK S : S = {a, b, c, d}
  OBVIOUS
<1>2. <<a, b>> \in Seq(S) /\ <<c>> \in Seq(S) /\ <<d>> \in Seq(S)
  BY <1>1
<1>3. PICK x \in Seq(S) : x = <<a, b>>
  BY <1>2
<1>4. Len(x) = 2 /\ x[1] = a /\ x[2] = b
  BY <1>3
<1>7. x \o <<c>> \in Seq(S)
  BY <1>2
<1>8. PICK y \in Seq(S) : y = x \o <<c>>
  BY <1>7, Zenon
<1>5. y = x \o <<c>> /\ Len(y) = 3 /\ y[1] = a /\ y[2] = b /\ y[3] = c
  <2>1. PICK z \in Seq(S) : z = <<c>> /\ Len(z) = 1 /\ z[1] = c
    BY <1>2
  <2>2. /\ Len(x \o z) = Len(x) + Len(z)
        /\ \A i \in 1..(Len(x) + Len(z)) : (x \o z)[i] = IF i <= Len(x) THEN x[i] ELSE z[i - Len(x)]
    BY ConcatProperties
  <2>3. y = x \o z
    BY <1>8, <2>1
  <2>4. Len(x) + Len(z) = 3
    BY <1>4, <2>1
  <2>5. \A i \in 1..3 : y[i] = IF i <= Len(x) THEN x[i] ELSE z[i - Len(x)]
    BY <2>2, <2>3, <2>4
  <2>6. y[1] = x[1] /\ y[2] = x[2] /\ y[3] = z[3 - Len(x)]
    BY <1>4, <2>5
  <2>7. Len(y) = 3 /\ 3 - Len(x) = 1
    BY <1>4, <2>2, <2>3, <2>4
  <2> QED
    BY <1>4, <1>8, <2>1, <2>6, <2>7
<1>6. s = y \o <<d>>
  BY <1>3, <1>5
<1> QED
  BY <1>2, <1>5, <1>6

\* See FourSteps.
LEMMA ThreeSteps ==
    ASSUME NEW a, NEW b, NEW c, NEW s, s = <<a, b>> \o <<>> \o <<c>>
    PROVE  Len(s) = 3 /\ s[1] = a /\ s[2] = b /\ s[3] = c
<1>1. PICK S : S = {a, b, c}
  OBVIOUS
<1>2. <<a, b>> \in Seq(S) /\ <<c>> \in Seq(S)
  BY <1>1
<1>3. PICK x \in Seq(S) : x = <<a, b>>
  BY <1>2
<1>4. Len(x) = 2 /\ x[1] = a /\ x[2] = b
  BY <1>3
<1>5. x \o <<>> = x
  BY ConcatEmptySeq
<1>6. s = x \o <<c>>
  BY <1>3, <1>5
<1> QED
  BY <1>2, <1>4, <1>6

\* What record_request adds to: each kind of counter once, and the counter of a type only
\* for requests of that type.
LEMMA StepsOnce ==
    ASSUME NEW type, NEW success, NEW s, s = RecordSteps(type, success)
    PROVE  /\ \A cs \in Main \cup Typed : Once(s, cs)
           /\ \A cs \in Main : Contains(s, cs)
           /\ \A t \in DOMAIN TypeCounter : Contains(s, {TypeCounter[t]}) <=> type = t
<1>1. PICK o \in Outcomes : o = IF success THEN "successful_requests" ELSE "failed_requests"
  BY DEF Outcomes
<1>2. DOMAIN TypeCounter = {"PRODUCE", "FETCH", "JOIN", "COMMIT"}
  BY DEF TypeCounter
<1>3. /\ TypeCounter["PRODUCE"] = "produce_requests" /\ TypeCounter["FETCH"] = "fetch_requests"
      /\ TypeCounter["JOIN"] = "join_requests" /\ TypeCounter["COMMIT"] = "commit_requests"
  BY DEF TypeCounter
<1>4. \A t \in DOMAIN TypeCounter : TypeCounter[t] \notin Totals \cup Outcomes \cup Volume
  BY <1>2, <1>3 DEF Totals, Outcomes, Volume
<1>5. \A t, u \in DOMAIN TypeCounter : TypeCounter[t] = TypeCounter[u] => t = u
  BY <1>2, <1>3
<1>6. CASE type \in DOMAIN TypeCounter
  <2>1. PICK c : c = TypeCounter[type]
    OBVIOUS
  <2>2. s = <<"total_requests", o>> \o <<c>> \o <<"total_bytes_processed">>
    BY <1>1, <1>6, <2>1 DEF RecordSteps
  <2>4. Len(s) = 4 /\ s[1] = "total_requests" /\ s[2] = o /\ s[3] = c /\ s[4] = "total_bytes_processed"
    BY <2>2, FourSteps
  <2>5. \A i \in 1..Len(s) : i = 1 \/ i = 2 \/ i = 3 \/ i = 4
    BY <2>4
  <2>6. 1 \in 1..Len(s) /\ 2 \in 1..Len(s) /\ 3 \in 1..Len(s) /\ 4 \in 1..Len(s)
    BY <2>4
  <2>7. c \notin Totals \cup Outcomes \cup Volume
    BY <1>4, <1>6, <2>1
  <2>8. \A cs \in Main : Once(s, cs)
    BY <2>4, <2>5, <2>7 DEF Once, Main, Totals, Outcomes, Volume
  <2>9. \A cs \in Main : Contains(s, cs)
    BY <2>4, <2>6 DEF Contains, Main, Totals, Outcomes, Volume
  <2>10. \A t \in DOMAIN TypeCounter : Once(s, {TypeCounter[t]})
    BY <1>4, <2>4, <2>5 DEF Once, Totals, Outcomes, Volume
  <2>11. \A t \in DOMAIN TypeCounter : Contains(s, {TypeCounter[t]}) <=> type = t
    BY <1>4, <1>5, <1>6, <2>1, <2>4, <2>5, <2>6 DEF Contains, Totals, Outcomes, Volume
  <2> QED
    BY <2>8, <2>9, <2>10, <2>11 DEF Typed
<1>7. CASE type \notin DOMAIN TypeCounter
  <2>2. s = <<"total_requests", o>> \o <<>> \o <<"total_bytes_processed">>
    BY <1>1, <1>7 DEF RecordSteps
  <2>4. Len(s) = 3 /\ s[1] = "total_requests" /\ s[2] = o /\ s[3] = "total_bytes_processed"
    BY <2>2, ThreeSteps
  <2>5. \A i \in 1..Len(s) : i = 1 \/ i = 2 \/ i = 3
    BY <2>4
  <2>6. 1 \in 1..Len(s) /\ 2 \in 1..Len(s) /\ 3 \in 1..Len(s)
    BY <2>4
  <2>8. \A cs \in Main : Once(s, cs)
    BY <2>4, <2>5 DEF Once, Main, Totals, Outcomes, Volume
  <2>9. \A cs \in Main : Contains(s, cs)
    BY <2>4, <2>6 DEF Contains, Main, Totals, Outcomes, Volume
  <2>10. \A t \in DOMAIN TypeCounter : Once(s, {TypeCounter[t]})
    BY <1>4, <2>4, <2>5 DEF Once, Totals, Outcomes, Volume
  <2>11. \A t \in DOMAIN TypeCounter : ~Contains(s, {TypeCounter[t]})
    BY <1>4, <2>4, <2>5 DEF Contains, Totals, Outcomes, Volume
  <2> QED
    BY <1>7, <2>8, <2>9, <2>10, <2>11 DEF Typed
<1> QED
  BY <1>6, <1>7

\* The threads that do not take the step have the same counters to go.
LEMMA SameTodo ==
    ASSUME NEW j, Same(j), TodoInv(j)
    PROVE  TodoInv(j)'
  BY DEF Same, TodoInv, Once, Contains

Recordable(s, type) ==
    /\ \A cs \in Main \cup Typed : Once(s, cs)
    /\ \A t \in DOMAIN TypeCounter : Contains(s, {TypeCounter[t]}) => type = t

\* record_request adds to each kind of counter at most once, and to the right one.
LEMMA StepsRecordable ==
    ASSUME NEW type, NEW success
    PROVE  Recordable(RecordSteps(type, success), type)
  BY StepsOnce DEF Recordable

\* That stays so as it goes on.
LEMMA TailRecordable ==
    ASSUME NEW s \in Seq(CounterNames), s # <<>>, NEW type, Recordable(s, type)
    PROVE  Recordable(Tail(s), type)
<1>1. \A cs \in Main \cup Typed : Once(s, cs)
  BY DEF Recordable
<1>2. \A cs \in Main \cup Typed :
         /\ Once(Tail(s), cs)
         /\ Contains(Tail(s), cs) => Contains(s, cs)
  BY <1>1, TailOnce
<1>3. \A t \in DOMAIN TypeCounter : {TypeCounter[t]} \in Typed
  BY DEF Typed
<1> QED
  BY <1>2, <1>3 DEF Recordable

\* Next a thread records what it answered.
LEMMA AnswersNext ==
    ASSUME Shape, NEW k \in Conn, NEW types, NEW r \in Response, NEW success \in BOOLEAN,
           Answers(k, types, r, success)
    PROVE  /\ pc'[k] = "record" /\ request'[k] = request[k]
           /\ todo'[k] = RecordSteps(request[k].type, success)
  BY AnswersShape, ZenonT(40)

\* What a thread has to do through its own steps.
LEMMA TodoStep ==
    ASSUME Shape, TopicsInv, NEW k \in Conn, ThreadInv(k), TodoInv(k), StepOf(k)
    PROVE  TodoInv(k)'
<1>0. ASSUME pc'[k] = "record", Recordable(todo'[k], request'[k].type)
      PROVE  TodoInv(k)'
  BY <1>0 DEF TodoInv, Recordable, Once, Contains
<1>1. CASE Quick(k)
  <2>1. PICK types : \E r \in Response, success \in BOOLEAN : Answers(k, types, r, success)
    BY <1>1, QuickAnswers
  <2>2. PICK r \in Response, success \in BOOLEAN : Answers(k, types, r, success)
    BY <2>1
  <2>3. pc'[k] = "record" /\ todo'[k] = RecordSteps(request[k].type, success) /\ request'[k] = request[k]
    BY <2>2, AnswersNext, Zenon
  <2> QED
    BY <1>0, <2>3, StepsRecordable
<1>2. CASE MetricsRequest(k)
  BY <1>2, MetricsRequestEffect DEF TodoInv
<1>3. CASE LoadCounter(k)
  <2>1. pc'[k] = "load" /\ pc[k] = "load" /\ todo[k] # <<>> /\ todo'[k] = Tail(todo[k])
    BY <1>3, LoadCounterEffect, LoadCounterShape
  <2>2. /\ Tail(Loads) = <<"successful_requests", "failed_requests">>
        /\ Tail(<<"successful_requests", "failed_requests">>) = <<"failed_requests">>
        /\ Tail(<<"failed_requests">>) = <<>>
    BY DEF Loads
  <2> QED
    BY <2>1, <2>2 DEF TodoInv
<1>4. CASE LoadSamples(k)
  <2>1. pc'[k] = "record" /\ todo'[k] = RecordSteps(request[k].type, TRUE) /\ request'[k] = request[k]
    BY <1>4, LoadSamplesShape
  <2> QED
    BY <1>0, <2>1, StepsRecordable
<1>5. CASE RecordCounter(k)
  <2>1. /\ pc'[k] = "record" /\ pc[k] = "record" /\ todo[k] # <<>> /\ todo'[k] = Tail(todo[k])
        /\ request'[k] = request[k]
    BY <1>5, RecordCounterEffect
  <2>2. todo[k] \in Seq(CounterNames) /\ Recordable(todo[k], request[k].type)
    BY <2>1 DEF Shape, TodoInv, Recordable
  <2> QED
    BY <1>0, <2>1, <2>2, TailRecordable
<1>6. CASE pc'[k] \notin {"load", "record"}
  BY <1>6 DEF TodoInv
<1>7. CASE Unread(k) \/ ReadFrame(k) \/ ProduceThrows(k)
  BY <1>6, <1>7, UnreadEffect, ReadFrameEffect, ProduceThrowsEffect
<1>8. CASE Client(k)
  BY <1>6, <1>8, ClientEffect
<1>9. CASE RecordSample(k) \/ WriteFrame(k) \/ WriteThrows(k)
  BY <1>6, <1>9, RecordSampleEffect, WriteEffect
<1> QED
  BY <1>1, <1>2, <1>3, <1>4, <1>5, <1>7, <1>8, <1>9 DEF StepOf, Thread, Unread, Quick

\* The number of counted requests of a connection, as a step of its thread changes it.
LEMMA CountType ==
    ASSUME Shape, NEW k \in Conn, ThreadInv(k), NEW cs
    PROVE  /\ Count(k, cs) \in Nat /\ Count(k, cs) <= handled[k] /\ handled[k] <= Len(sent[k])
           /\ Len(sent[k]) \in Nat
           /\ Len(answers[k]) <= Count(k, cs) /\ handled[k] \in Nat
  BY DEF Shape, ThreadInv, SessionInv, Count, Late, Busy, Active

\* The threads that do not take the step have counted as much as before.
LEMMA SameCount ==
    ASSUME NEW j, Same(j), NEW cs
    PROVE  Count(j, cs)' = Count(j, cs)
  BY DEF Same, Count, Late, Contains

Adds(k, cs) == RecordCounter(k) /\ Head(todo[k]) \in cs

\* Most steps count nothing.
LEMMA QuietCount ==
    ASSUME Shape, TopicsInv, NEW k \in Conn, ThreadInv(k), StepOf(k), ~Quick(k), ~LoadSamples(k), ~RecordCounter(k),
           NEW cs
    PROVE  Count(k, cs)' = Count(k, cs)
<1> USE DEF Count, Late, ThreadInv, SessionInv, Busy, Active
<1>0. read[k] \in Nat /\ handled[k] \in Nat
  BY DEF Shape
<1>1. CASE Unread(k)
  BY <1>0, <1>1, UnreadEffect
<1>2. CASE Client(k)
  BY <1>0, <1>2, ClientEffect DEF Contains
<1>3. CASE ReadFrame(k)
  BY <1>0, <1>3, ReadFrameEffect
<1>4. CASE ProduceThrows(k)
  BY <1>0, <1>4, ProduceThrowsEffect
<1>5. CASE MetricsRequest(k)
  BY <1>0, <1>5, MetricsRequestEffect
<1>6. CASE LoadCounter(k)
  <2>1. pc[k] = "load"
    BY <1>6 DEF LoadCounter
  <2> QED
    BY <1>0, <1>6, <2>1, LoadCounterShape
<1>7. CASE RecordSample(k)
  <2>1. ~Contains(<<>>, cs)
    BY DEF Contains
  <2> QED
    BY <1>0, <1>7, <2>1, RecordSampleEffect
<1>8. CASE WriteFrame(k) \/ WriteThrows(k)
  BY <1>0, <1>8, WriteEffect
<1> QED
  BY <1>1, <1>2, <1>3, <1>4, <1>5, <1>6, <1>7, <1>8 DEF StepOf, Thread, Unread, Quick

\* When a thread gets a response to record.
LEMMA FreshCount ==
    ASSUME Shape, TopicsInv, NEW k \in Conn, ThreadInv(k), Quick(k) \/ LoadSamples(k), NEW cs
    PROVE  /\ \E success : Contains(RecordSteps(request[k].type, success), cs) => Count(k, cs)' = Count(k, cs)
           /\ \E success : ~Contains(RecordSteps(request[k].type, success), cs) =>
                 Count(k, cs)' = Count(k, cs) + 1 /\ Count(k, cs)' = read[k]
           /\ request'[k] = request[k] /\ read'[k] = read[k] /\ sent'[k] = sent[k]
<1> USE DEF ThreadInv, SessionInv, Busy, Active
<1>0. read[k] \in Nat /\ handled[k] \in Nat
  BY DEF Shape
<1>1. \E success : /\ pc'[k] = "record" /\ todo'[k] = RecordSteps(request[k].type, success)
                   /\ request'[k] = request[k] /\ read'[k] = read[k] /\ sent'[k] = sent[k]
                   /\ thrown' = thrown
                   /\ \/ pc[k] = "handle" /\ handled'[k] = handled[k] + 1
                      \/ pc[k] = "load" /\ handled'[k] = handled[k]
  <2>1. CASE Quick(k)
    <3>1. PICK types : \E r \in Response, success \in BOOLEAN : Answers(k, types, r, success)
      BY <2>1, QuickAnswers
    <3>2. PICK r \in Response, success \in BOOLEAN : Answers(k, types, r, success)
      BY <3>1
    <3> QED
      BY <3>2, AnswersShape, ZenonT(40)
  <2>2. CASE LoadSamples(k)
    BY <2>2, LoadSamplesShape
  <2> QED
    BY <2>1, <2>2
<1>2. PICK success : /\ pc'[k] = "record" /\ todo'[k] = RecordSteps(request[k].type, success)
                     /\ request'[k] = request[k] /\ read'[k] = read[k] /\ sent'[k] = sent[k]
                     /\ thrown' = thrown
                     /\ \/ pc[k] = "handle" /\ handled'[k] = handled[k] + 1
                        \/ pc[k] = "load" /\ handled'[k] = handled[k]
  BY <1>1
<1>3. k \notin thrown
  BY <1>2
<1>4. Count(k, cs) = read[k] - 1 /\ handled'[k] = read[k]
  BY <1>0, <1>2, <1>3 DEF Count, Late
<1>5. Late(k, cs)' <=> Contains(RecordSteps(request[k].type, success), cs)
  BY <1>2, <1>3 DEF Late, Contains
<1>6. Count(k, cs)' = IF Late(k, cs)' THEN handled'[k] - 1 ELSE handled'[k]
  BY DEF Count
<1>7. Contains(RecordSteps(request[k].type, success), cs) => Count(k, cs)' = Count(k, cs)
  BY <1>0, <1>4, <1>5, <1>6
<1>8. ~Contains(RecordSteps(request[k].type, success), cs) => Count(k, cs)' = Count(k, cs) + 1 /\ Count(k, cs)' = read[k]
  BY <1>0, <1>4, <1>5, <1>6
<1> QED
  BY <1>2, <1>7, <1>8, Zenon

\* Adding to a counter counts the request, in that counter only.
LEMMA AddsCount ==
    ASSUME Shape, NEW k \in Conn, ThreadInv(k), TodoInv(k), RecordCounter(k), NEW cs \in Main \cup Typed
    PROVE  /\ Adds(k, cs) => Count(k, cs)' = Count(k, cs) + 1 /\ Count(k, cs)' = read[k]
           /\ ~Adds(k, cs) => Count(k, cs)' = Count(k, cs)
           /\ request'[k] = request[k] /\ read'[k] = read[k] /\ sent'[k] = sent[k]
<1>0. read[k] \in Nat /\ handled[k] \in Nat
  BY DEF Shape
<1>1. /\ pc[k] = "record" /\ pc'[k] = "record" /\ todo[k] # <<>> /\ todo'[k] = Tail(todo[k])
      /\ request'[k] = request[k] /\ read'[k] = read[k] /\ sent'[k] = sent[k]
      /\ thrown' = thrown /\ handled'[k] = handled[k]
  BY RecordCounterEffect
<1>2. k \notin thrown /\ handled[k] = read[k]
  BY <1>1 DEF ThreadInv, SessionInv
<1>3. PICK s \in Seq(CounterNames) : s = todo[k] /\ s # <<>>
  BY <1>1 DEF Shape
<1>4. Once(s, cs)
  BY <1>1, <1>3 DEF TodoInv
<1>5. /\ Head(s) \in cs => Contains(s, cs) /\ ~Contains(Tail(s), cs)
      /\ Head(s) \notin cs => (Contains(s, cs) <=> Contains(Tail(s), cs))
  BY <1>3, <1>4, TailOnce
<1>6. (Late(k, cs) <=> Contains(s, cs)) /\ (Late(k, cs)' <=> Contains(Tail(s), cs))
  BY <1>1, <1>2, <1>3 DEF Late, Contains
<1>7. Count(k, cs) = IF Late(k, cs) THEN handled[k] - 1 ELSE handled[k]
  BY DEF Count
<1>8. Count(k, cs)' = IF Late(k, cs)' THEN handled'[k] - 1 ELSE handled'[k]
  BY DEF Count
<1>9. Adds(k, cs) <=> Head(s) \in cs
  BY <1>3 DEF Adds
<1> QED
  BY <1>0, <1>1, <1>2, <1>5, <1>6, <1>7, <1>8, <1>9

\* A step counts a request in the total, the outcomes or the volume exactly when it adds to them.
LEMMA CountMain ==
    ASSUME Shape, TopicsInv, NEW k \in Conn, ThreadInv(k), TodoInv(k), StepOf(k), NEW cs \in Main
    PROVE  /\ Adds(k, cs) => Count(k, cs)' = Count(k, cs) + 1 /\ Count(k, cs)' = read[k]
           /\ ~Adds(k, cs) => Count(k, cs)' = Count(k, cs)
<1>1. CASE RecordCounter(k)
  BY <1>1, AddsCount
<1>2. CASE ~RecordCounter(k) /\ (Quick(k) \/ LoadSamples(k))
  <2>1. \A success : Contains(RecordSteps(request[k].type, success), cs)
    BY StepsOnce
  <2>2. Count(k, cs)' = Count(k, cs)
    BY <1>2, <2>1, FreshCount
  <2> QED
    BY <1>2, <2>2 DEF Adds
<1>3. CASE ~RecordCounter(k) /\ ~Quick(k) /\ ~LoadSamples(k)
  BY <1>3, QuietCount DEF Adds
<1> QED
  BY <1>1, <1>2, <1>3

\* The same for the counter of a type, in which requests of other types count without being added.
LEMMA CountTyped ==
    ASSUME Shape, TopicsInv, NEW k \in Conn, ThreadInv(k), TodoInv(k), StepOf(k),
           NEW t \in DOMAIN TypeCounter, NEW cs, cs = {TypeCounter[t]}
    PROVE  \/ Count(k, cs)' = Count(k, cs) /\ ~Adds(k, cs)
           \/ /\ Count(k, cs)' = Count(k, cs) + 1 /\ Count(k, cs)' = read[k] /\ sent'[k] = sent[k]
              /\ Adds(k, cs) <=> request[k].type = t
<1>0. cs \in Typed
  BY DEF Typed
<1>1. CASE RecordCounter(k)
  <2>1. Adds(k, cs) => request[k].type = t
    <3>1. ASSUME Adds(k, cs) PROVE Contains(todo[k], cs)
      <4>1. todo[k] \in Seq(CounterNames) /\ todo[k] # <<>> /\ Head(todo[k]) \in cs
        BY <1>1, <3>1 DEF Adds, RecordCounter, Shape
      <4>2. 1 \in 1..Len(todo[k]) /\ todo[k][1] \in cs
        BY <4>1
      <4> QED
        BY <4>2 DEF Contains
    <3>2. pc[k] = "record"
      BY <1>1 DEF RecordCounter
    <3> QED
      BY <3>1, <3>2 DEF TodoInv
  <2> QED
    BY <1>0, <1>1, <2>1, AddsCount
<1>2. CASE ~RecordCounter(k) /\ (Quick(k) \/ LoadSamples(k))
  <2>1. \A success : Contains(RecordSteps(request[k].type, success), cs) <=> request[k].type = t
    BY StepsOnce
  <2>2. ~Adds(k, cs)
    BY <1>2 DEF Adds
  <2>3. CASE request[k].type = t
    BY <1>2, <2>1, <2>2, <2>3, FreshCount
  <2>4. CASE request[k].type # t
    BY <1>2, <2>1, <2>2, <2>4, FreshCount
  <2> QED
    BY <2>3, <2>4
<1>3. CASE ~RecordCounter(k) /\ ~Quick(k) /\ ~LoadSamples(k)
  BY <1>3, QuietCount DEF Adds
<1> QED
  BY <1>1, <1>2, <1>3

ThreadsInv == Shape /\ TopicsInv /\ \A k \in Conn : ThreadInv(k) /\ TodoInv(k)

\* The threads, through a step of any of them.
LEMMA ThreadsStep ==
    ASSUME ThreadsInv, NEW k \in Conn, StepOf(k)
    PROVE  ThreadsInv'
<1>1. Shape' /\ (\A j \in Conn \ {k} : Same(j)) /\ ThreadInv(k)'
  BY StepThread DEF ThreadsInv
<1>2. TopicsInv'
  BY TopicsStep DEF ThreadsInv
<1>3. TodoInv(k)'
  BY TodoStep DEF ThreadsInv
<1>4. \A j \in Conn \ {k} : ThreadInv(j)' /\ TodoInv(j)'
  BY <1>1, SameThread, SameTodo DEF ThreadsInv
<1>5. \A j \in Conn : ThreadInv(j)' /\ TodoInv(j)'
  BY <1>1, <1>3, <1>4
<1> QED
  BY <1>1, <1>2, <1>5 DEF ThreadsInv

\* Requests that were handled stay what they are.
LEMMA SentKept ==
    ASSUME ThreadsInv, NEW k \in Conn, StepOf(k), NEW j \in Conn, NEW i \in 1..Len(sent[j])
    PROVE  sent'[j][i] = sent[j][i]
<1>0. Shape /\ ThreadInv(k) /\ TopicsInv
  BY DEF ThreadsInv
<1>1. CASE j # k
  BY <1>0, <1>1, StepThread DEF Same
<1>2. CASE sent'[k] = sent[k]
  BY <1>1, <1>2
<1>3. CASE Client(k)
  <2>1. sent' = sent \/ \E raw \in RawRequest[k] : sent' = [sent EXCEPT ![k] = Append(sent[k], raw)]
    BY <1>0, <1>3, ClientEffect
  <2>2. ASSUME NEW raw \in RawRequest[k], sent' = [sent EXCEPT ![k] = Append(sent[k], raw)], j = k
        PROVE  sent'[j][i] = sent[j][i]
    <3>1. PICK s \in Seq(RawRequests) : s = sent[k]
      BY <1>0 DEF Shape
    <3>2. raw \in RawRequests
      BY RawAssumption
    <3>3. sent'[k] = Append(s, raw)
      BY <1>0, <2>2, <3>1 DEF Shape
    <3>4. \A n \in 1..Len(s) : Append(s, raw)[n] = s[n]
      BY <3>2
    <3> QED
      BY <2>2, <3>1, <3>3, <3>4
  <2> QED
    BY <1>1, <2>1, <2>2
<1>4. CASE Quick(k)
  <2>1. PICK types : \E r \in Response, success \in BOOLEAN : Answers(k, types, r, success)
    BY <1>0, <1>4, QuickAnswers
  <2>2. PICK r \in Response, success \in BOOLEAN : Answers(k, types, r, success)
    BY <2>1
  <2>3. sent'[k] = sent[k]
    BY <1>0, <2>2, AnswersShape
  <2> QED
    BY <1>2, <2>3
<1>5. CASE ~Client(k) /\ ~Quick(k)
  <2>1. sent'[k] = sent[k]
    BY <1>0, <1>5, UnreadEffect, ReadFrameEffect, ProduceThrowsEffect, MetricsRequestEffect, LoadCounterShape,
       LoadSamplesShape, RecordCounterEffect, RecordSampleEffect, WriteEffect DEF StepOf, Thread, Unread, Quick
  <2> QED
    BY <1>2, <2>1
<1> QED
  BY <1>3, <1>4, <1>5

\* A request is known by its connection and its number.
LEMMA FirstElement ==
    ASSUME NEW f \in [Conn -> Nat], NEW r \in First(f)
    PROVE  \E j \in Conn : \E i \in 1..f[j] : r = <<j, i>>
<1>1. PICK j \in Conn : r \in {j} \X (1..f[j])
  BY DEF First
<1> QED
  BY <1>1

\* What was handled stays what it was.
LEMMA RequestKept ==
    ASSUME ThreadsInv, NEW k \in Conn, StepOf(k), NEW r \in First(handled)
    PROVE  RequestAt(r)' = RequestAt(r) /\ RequestBytes(RequestAt(r)) \in Nat
<1>1. handled \in [Conn -> Nat]
  BY DEF ThreadsInv, Shape
<1>2. PICK j \in Conn : \E i \in 1..handled[j] : r = <<j, i>>
  BY <1>1, FirstElement
<1>3. PICK i \in 1..handled[j] : r = <<j, i>>
  BY <1>2
<1>4. i \in 1..Len(sent[j])
  <2>1. handled[j] <= Len(sent[j]) /\ handled[j] \in Nat /\ Len(sent[j]) \in Nat
    BY CountType DEF ThreadsInv
  <2> QED
    BY <2>1
<1>5. sent'[j][i] = sent[j][i]
  BY <1>4, SentKept
<1>6. r[1] = j /\ r[2] = i
  BY <1>3
<1>7. RequestAt(r)' = RequestAt(r)
  BY <1>5, <1>6 DEF RequestAt
<1>8. PICK raw \in RawRequests : raw = sent[j][i]
  BY <1>4 DEF ThreadsInv, Shape
<1>9. RequestAt(r) = parse_request(raw)
  BY <1>6, <1>8 DEF RequestAt
<1>10. RequestAt(r).payload \in Message \cup {<<>>}
  BY <1>9, ParsedFacts
<1>11. RequestBytes(RequestAt(r)) \in Nat
  BY <1>10, BytesType
<1> QED
  BY <1>7, <1>11

\* No more is counted than was handled.
LEMMA CountsType ==
    ASSUME ThreadsInv, NEW cs
    PROVE  /\ Counts(cs) \in [Conn -> Nat] /\ handled \in [Conn -> Nat]
           /\ \A k \in Conn : Counts(cs)[k] = Count(k, cs) /\ Counts(cs)[k] <= handled[k]
           /\ Counted(cs) \subseteq First(handled)
           /\ IsFiniteSet(Counted(cs)) /\ Cardinality(Counted(cs)) \in Nat
<1>1. \A k \in Conn : Count(k, cs) \in Nat /\ Count(k, cs) <= handled[k]
  BY CountType DEF ThreadsInv
<1>2. Counts(cs) \in [Conn -> Nat] /\ \A k \in Conn : Counts(cs)[k] = Count(k, cs) /\ Counts(cs)[k] <= handled[k]
  BY <1>1 DEF Counts
<1>3. handled \in [Conn -> Nat]
  BY DEF ThreadsInv, Shape
<1>4. Counted(cs) \subseteq First(handled)
  BY <1>2, <1>3, FirstMonotone DEF Counted
<1> QED
  BY <1>2, <1>3, <1>4, FirstFinite DEF Counted

\* A step counts the last request of its thread or none.
LEMMA CountedStep ==
    ASSUME ThreadsInv, NEW k \in Conn, StepOf(k), NEW cs
    PROVE  /\ Count(k, cs)' = Count(k, cs) => Counted(cs)' = Counted(cs)
           /\ Count(k, cs)' = Count(k, cs) + 1 =>
                 /\ <<k, Count(k, cs) + 1>> \notin Counted(cs)
                 /\ Counted(cs)' = Counted(cs) \cup {<<k, Count(k, cs) + 1>>}
<1>0. ThreadsInv'
  BY ThreadsStep
<1>1. PICK f \in [Conn -> Nat] : f = Counts(cs)
  BY CountsType
<1>2. ASSUME NEW j \in Conn PROVE Count(j, cs)' \in Nat
  <2>1. Shape' /\ ThreadInv(j)'
    BY <1>0 DEF ThreadsInv
  <2>2. handled'[j] \in Nat /\ read'[j] \in Nat /\ Len(answers'[j]) \in Nat
    BY <2>1 DEF Shape
  <2>3. Late(j, cs)' => handled'[j] > 0
    BY <2>1, <2>2 DEF ThreadInv, SessionInv, Late, Busy
  <2> QED
    BY <2>2, <2>3 DEF Count
<1>3. Counts(cs)' = [j \in Conn |-> Count(j, cs)']
  BY DEF Counts
<1>4. PICK g \in [Conn -> Nat] : g = Counts(cs)'
  BY <1>2, <1>3
<1>5. \A j \in Conn : f[j] = Count(j, cs)
  BY <1>1 DEF Counts
<1>6. \A j \in Conn : g[j] = Count(j, cs)'
  BY <1>3, <1>4
<1>7. \A j \in Conn \ {k} : g[j] = f[j]
  <2>1. \A j \in Conn \ {k} : Same(j)
    BY StepThread DEF ThreadsInv
  <2> QED
    BY <2>1, <1>5, <1>6, SameCount
<1>8. Counted(cs) = First(f)
  BY <1>1 DEF Counted
<1>9. Counted(cs)' = First(g)
  BY <1>4 DEF Counted, First
<1>10. ASSUME Count(k, cs)' = Count(k, cs) PROVE Counted(cs)' = Counted(cs)
  <2>1. f = g
    BY <1>5, <1>6, <1>7, <1>10
  <2> QED
    BY <1>8, <1>9, <2>1
<1>11. ASSUME Count(k, cs)' = Count(k, cs) + 1
       PROVE  /\ <<k, Count(k, cs) + 1>> \notin Counted(cs)
              /\ Counted(cs)' = Counted(cs) \cup {<<k, Count(k, cs) + 1>>}
  <2>1. g[k] = f[k] + 1
    BY <1>5, <1>6, <1>11
  <2>2. First(g) = First(f) \cup {<<k, f[k] + 1>>} /\ <<k, f[k] + 1>> \notin First(f)
    BY <1>7, <2>1, FirstStep
  <2> QED
    BY <1>5, <1>8, <1>9, <2>2
<1> QED
  BY <1>10, <1>11

\* The request that a step counts is the one that the thread works on.
LEMMA CountedRequest ==
    ASSUME ThreadsInv, NEW k \in Conn, StepOf(k), NEW n, n = read[k], n > 0
    PROVE  RequestAt(<<k, n>>) = request[k] /\ RequestAt(<<k, n>>)' = request[k]
<1>1. read[k] \in Nat /\ read[k] <= Len(sent[k]) /\ Len(sent[k]) \in Nat
  BY DEF ThreadsInv, ThreadInv, SessionInv, Shape
<1>2. n \in 1..Len(sent[k])
  BY <1>1
<1>3. request[k] = parse_request(sent[k][n])
  BY <1>1 DEF ThreadsInv, ThreadInv, RequestInv
<1>4. sent'[k][n] = sent[k][n]
  BY <1>2, SentKept
<1> QED
  BY <1>3, <1>4 DEF RequestAt

\* How a step changes a counter.
LEMMA CounterStep ==
    ASSUME ThreadsInv, NEW k \in Conn, StepOf(k), NEW c \in CounterNames
    PROVE  /\ counters[c] \in Nat
           /\ Adds(k, {c}) => counters'[c] = counters[c] + (IF c = "total_bytes_processed" THEN RequestBytes(request[k]) ELSE 1)
           /\ ~Adds(k, {c}) => counters'[c] = counters[c]
<1>0. Shape /\ ThreadInv(k) /\ TopicsInv
  BY DEF ThreadsInv
<1>1. counters[c] \in Nat
  BY <1>0 DEF Shape
<1>2. CASE RecordCounter(k)
  BY <1>0, <1>1, <1>2, RecordCounterEffect DEF Adds
<1>3. CASE ~RecordCounter(k)
  <2>1. CASE Quick(k)
    <3>1. PICK types : \E r \in Response, success \in BOOLEAN : Answers(k, types, r, success)
      BY <1>0, <2>1, QuickAnswers
    <3>2. PICK r \in Response, success \in BOOLEAN : Answers(k, types, r, success)
      BY <3>1
    <3>3. counters' = counters
      BY <1>0, <3>2, AnswersShape
    <3> QED
      BY <1>1, <1>3, <3>3 DEF Adds
  <2>2. CASE ~Quick(k)
    <3>1. counters' = counters
      BY <1>0, <1>3, <2>2, UnreadEffect, ClientEffect, ReadFrameEffect, ProduceThrowsEffect, MetricsRequestEffect,
         LoadCounterShape, LoadSamplesShape, RecordSampleEffect, WriteEffect DEF StepOf, Thread, Unread, Quick
    <3> QED
      BY <1>1, <1>3, <3>1 DEF Adds
  <2> QED
    BY <2>1, <2>2
<1> QED
  BY <1>2, <1>3

TotalInv == counters["total_requests"] = Cardinality(Counted(Totals))
OutcomesInv == counters["successful_requests"] + counters["failed_requests"] = Cardinality(Counted(Outcomes))
TypedInv(type) ==
    counters[TypeCounter[type]] = Cardinality({r \in Counted({TypeCounter[type]}) : RequestAt(r).type = type})
VolumeInv ==
    counters["total_bytes_processed"] = SumFunction([r \in Counted(Volume) |-> RequestBytes(RequestAt(r))])

\* Each counter is the number of requests that have been counted in it.
CountersInv == TotalInv /\ OutcomesInv /\ (\A type \in DOMAIN TypeCounter : TypedInv(type)) /\ VolumeInv

\* The number of requests counted, through a step.
LEMMA MainSize ==
    ASSUME ThreadsInv, NEW k \in Conn, StepOf(k), NEW cs \in Main
    PROVE  /\ Cardinality(Counted(cs)) \in Nat
           /\ Adds(k, cs) => Cardinality(Counted(cs)') = Cardinality(Counted(cs)) + 1
           /\ ~Adds(k, cs) => Cardinality(Counted(cs)') = Cardinality(Counted(cs))
<1>1. /\ Adds(k, cs) => Count(k, cs)' = Count(k, cs) + 1
      /\ ~Adds(k, cs) => Count(k, cs)' = Count(k, cs)
  BY CountMain DEF ThreadsInv
<1>2. IsFiniteSet(Counted(cs)) /\ Cardinality(Counted(cs)) \in Nat
  BY CountsType
<1>3. PICK C, D : C = Counted(cs) /\ D = Counted(cs)'
  OBVIOUS
<1>4. ASSUME Adds(k, cs) PROVE Cardinality(D) = Cardinality(C) + 1
  <2>1. PICK r : r \notin C /\ D = C \cup {r}
    BY <1>1, <1>3, <1>4, CountedStep
  <2> QED
    BY <1>2, <1>3, <2>1, FS_AddElement
<1>5. ASSUME ~Adds(k, cs) PROVE D = C
  BY <1>1, <1>3, <1>5, CountedStep
<1> QED
  BY <1>2, <1>3, <1>4, <1>5

\* The total is the number of requests counted in it.
LEMMA TotalStep ==
    ASSUME ThreadsInv, TotalInv, NEW k \in Conn, StepOf(k)
    PROVE  TotalInv'
<1>1. Totals \in Main /\ "total_requests" \in CounterNames /\ Totals = {"total_requests"}
  BY DEF Main, Totals, CounterNames
<1>2. /\ Adds(k, Totals) => Cardinality(Counted(Totals)') = Cardinality(Counted(Totals)) + 1
      /\ ~Adds(k, Totals) => Cardinality(Counted(Totals)') = Cardinality(Counted(Totals))
  BY <1>1, MainSize
<1>3. /\ Adds(k, Totals) => counters'["total_requests"] = counters["total_requests"] + 1
      /\ ~Adds(k, Totals) => counters'["total_requests"] = counters["total_requests"]
  BY <1>1, CounterStep
<1>4. counters'["total_requests"] = Cardinality(Counted(Totals)')
  BY <1>2, <1>3 DEF TotalInv
<1> QED
  BY <1>4 DEF TotalInv, Totals

\* The outcomes add up to the number of requests counted in them.
LEMMA OutcomesStep ==
    ASSUME ThreadsInv, OutcomesInv, NEW k \in Conn, StepOf(k)
    PROVE  OutcomesInv'
<1>1. /\ Outcomes \in Main /\ "successful_requests" \in CounterNames /\ "failed_requests" \in CounterNames
      /\ Outcomes = {"successful_requests", "failed_requests"}
  BY DEF Main, Outcomes, CounterNames
<1>2. /\ Adds(k, Outcomes) => Cardinality(Counted(Outcomes)') = Cardinality(Counted(Outcomes)) + 1
      /\ ~Adds(k, Outcomes) => Cardinality(Counted(Outcomes)') = Cardinality(Counted(Outcomes))
  BY <1>1, MainSize
<1>3. /\ counters["successful_requests"] \in Nat /\ counters["failed_requests"] \in Nat
      /\ Adds(k, {"successful_requests"}) => counters'["successful_requests"] = counters["successful_requests"] + 1
      /\ ~Adds(k, {"successful_requests"}) => counters'["successful_requests"] = counters["successful_requests"]
      /\ Adds(k, {"failed_requests"}) => counters'["failed_requests"] = counters["failed_requests"] + 1
      /\ ~Adds(k, {"failed_requests"}) => counters'["failed_requests"] = counters["failed_requests"]
  BY <1>1, CounterStep
<1>4. /\ Adds(k, Outcomes) <=> Adds(k, {"successful_requests"}) \/ Adds(k, {"failed_requests"})
      /\ ~(Adds(k, {"successful_requests"}) /\ Adds(k, {"failed_requests"}))
  BY <1>1 DEF Adds
<1>5. counters'["successful_requests"] + counters'["failed_requests"] = Cardinality(Counted(Outcomes)')
  BY <1>2, <1>3, <1>4 DEF OutcomesInv
<1> QED
  BY <1>5 DEF OutcomesInv, Outcomes

\* The counter of a type is the number of its requests counted.
LEMMA TypedStep ==
    ASSUME ThreadsInv, NEW type \in DOMAIN TypeCounter, TypedInv(type), NEW k \in Conn, StepOf(k)
    PROVE  TypedInv(type)'
<1>1. PICK c \in CounterNames : c = TypeCounter[type] /\ c # "total_bytes_processed"
  BY DEF TypeCounter, CounterNames
<1>2. PICK cs : cs = {c}
  OBVIOUS
<1>3. \/ Count(k, cs)' = Count(k, cs) /\ ~Adds(k, cs)
      \/ /\ Count(k, cs)' = Count(k, cs) + 1 /\ Count(k, cs)' = read[k]
         /\ Adds(k, cs) <=> request[k].type = type
  BY <1>1, <1>2, CountTyped DEF ThreadsInv
<1>4. PICK C, D : C = Counted(cs) /\ D = Counted(cs)'
  OBVIOUS
<1>5. IsFiniteSet(C) /\ C \subseteq First(handled)
  BY <1>4, CountsType
<1>6. \A r \in C : RequestAt(r)' = RequestAt(r)
  BY <1>5, RequestKept
<1>7. PICK X, Y : X = {r \in C : RequestAt(r).type = type} /\ Y = {r \in D : RequestAt(r)'.type = type}
  OBVIOUS
<1>8. IsFiniteSet(X) /\ Cardinality(X) \in Nat
  <2>1. X \subseteq C
    BY <1>7
  <2> QED
    BY <1>5, <2>1, FS_Subset, FS_CardinalityType
<1>9. /\ counters[c] \in Nat
      /\ Adds(k, cs) => counters'[c] = counters[c] + 1
      /\ ~Adds(k, cs) => counters'[c] = counters[c]
  BY <1>1, <1>2, CounterStep
<1>10. counters[c] = Cardinality(X)
  BY <1>1, <1>2, <1>4, <1>7 DEF TypedInv
<1>11. CASE Count(k, cs)' = Count(k, cs) /\ ~Adds(k, cs)
  <2>1. D = C
    BY <1>4, <1>11, CountedStep
  <2>2. Y = X
    BY <1>6, <1>7, <2>1
  <2> QED
    BY <1>1, <1>2, <1>4, <1>7, <1>9, <1>10, <1>11, <2>2 DEF TypedInv
<1>12. CASE /\ Count(k, cs)' = Count(k, cs) + 1 /\ Count(k, cs)' = read[k]
            /\ Adds(k, cs) <=> request[k].type = type
  <2>1. PICK n \in Nat : n = Count(k, cs) + 1
    BY CountType DEF ThreadsInv
  <2>2. n = read[k] /\ n > 0
    <3>1. Count(k, cs) \in Nat
      BY CountType DEF ThreadsInv
    <3> QED
      BY <1>12, <2>1, <3>1
  <2>3. <<k, n>> \notin C /\ D = C \cup {<<k, n>>}
    BY <1>4, <1>12, <2>1, CountedStep
  <2>4. RequestAt(<<k, n>>)' = request[k]
    BY <2>2, CountedRequest
  <2>5. CASE request[k].type = type
    <3>1. Y = X \cup {<<k, n>>} /\ <<k, n>> \notin X
      BY <1>6, <1>7, <2>3, <2>4, <2>5
    <3>2. Cardinality(Y) = Cardinality(X) + 1
      BY <1>8, <3>1, FS_AddElement
    <3> QED
      BY <1>1, <1>2, <1>4, <1>7, <1>9, <1>10, <1>12, <2>5, <3>2 DEF TypedInv
  <2>6. CASE request[k].type # type
    <3>1. Y = X
      BY <1>6, <1>7, <2>3, <2>4, <2>6
    <3> QED
      BY <1>1, <1>2, <1>4, <1>7, <1>9, <1>10, <1>12, <2>6, <3>1 DEF TypedInv
  <2> QED
    BY <2>5, <2>6
<1> QED
  BY <1>3, <1>11, <1>12

\* Two ways to write a sum.
LEMMA SumFunctionIs ==
    ASSUME NEW S, NEW g, g = [r \in S |-> g[r]]
    PROVE  SumFunction(g) = SumFunctionOnSet(g, S)
  BY DEF SumFunction

\* The volume is the sum of the bytes of the requests counted.
LEMMA VolumeStep ==
    ASSUME ThreadsInv, VolumeInv, NEW k \in Conn, StepOf(k)
    PROVE  VolumeInv'
<1>1. Volume \in Main /\ "total_bytes_processed" \in CounterNames /\ Volume = {"total_bytes_processed"}
  BY DEF Main, Volume, CounterNames
<1>2. PICK C, D : C = Counted(Volume) /\ D = Counted(Volume)'
  OBVIOUS
<1>3. IsFiniteSet(C) /\ C \subseteq First(handled)
  BY <1>2, CountsType
<1>4. \A r \in C : RequestAt(r)' = RequestAt(r) /\ RequestBytes(RequestAt(r)) \in Nat
  BY <1>3, RequestKept
<1>5. PICK f : f = [r \in C |-> RequestBytes(RequestAt(r))]
  OBVIOUS
<1>6. PICK g : g = [r \in D |-> RequestBytes(RequestAt(r)')]
  OBVIOUS
<1>7. SumFunction(f) = SumFunctionOnSet(f, C) /\ SumFunction(g) = SumFunctionOnSet(g, D)
  BY <1>5, <1>6, SumFunctionIs
<1>8. counters["total_bytes_processed"] = SumFunction(f)
  BY <1>2, <1>5 DEF VolumeInv
<1>9. SumFunction(g) = SumFunction([r \in Counted(Volume) |-> RequestBytes(RequestAt(r))])'
  BY <1>2, <1>6 DEF RequestBytes
<1>10. \A r \in C : f[r] \in Nat /\ (r \in D => g[r] = f[r])
  BY <1>4, <1>5, <1>6
<1>11. /\ Adds(k, Volume) => counters'["total_bytes_processed"] = counters["total_bytes_processed"] + RequestBytes(request[k])
       /\ ~Adds(k, Volume) => counters'["total_bytes_processed"] = counters["total_bytes_processed"]
  BY <1>1, CounterStep
<1>12. /\ Adds(k, Volume) => Count(k, Volume)' = Count(k, Volume) + 1 /\ Count(k, Volume)' = read[k]
       /\ ~Adds(k, Volume) => Count(k, Volume)' = Count(k, Volume)
  BY <1>1, CountMain DEF ThreadsInv
<1>13. CASE ~Adds(k, Volume)
  <2>1. D = C
    BY <1>2, <1>12, <1>13, CountedStep
  <2>2. SumFunctionOnSet(f, C) = SumFunctionOnSet(g, C)
    BY <1>3, <1>10, <2>1, SumSame
  <2>3. counters'["total_bytes_processed"] = SumFunction(g)
    BY <1>7, <1>8, <1>11, <1>13, <2>1, <2>2
  <2> QED
    BY <1>9, <2>3 DEF VolumeInv
<1>14. CASE Adds(k, Volume)
  <2>1. Count(k, Volume) \in Nat
    BY CountType DEF ThreadsInv
  <2>2. PICK n \in Nat : n = Count(k, Volume) + 1
    BY <2>1
  <2>3. n = read[k] /\ n > 0
    BY <1>12, <1>14, <2>1, <2>2
  <2>4. <<k, n>> \notin C /\ D = C \cup {<<k, n>>}
    BY <1>2, <1>12, <1>14, <2>2, CountedStep
  <2>5. RequestAt(<<k, n>>)' = request[k]
    BY <2>3, CountedRequest
  <2>6. RequestBytes(request[k]) \in Nat
    <3>1. request[k].payload \in Message \cup {<<>>}
      BY RequestFacts DEF ThreadsInv
    <3> QED
      BY <3>1, BytesType
  <2>7. g[<<k, n>>] = RequestBytes(request[k])
    BY <1>6, <2>4, <2>5
  <2>8. \A r \in C : g[r] = f[r]
    BY <1>10, <2>4
  <2>9. \A r \in C \cup {<<k, n>>} : g[r] \in Nat
    BY <1>10, <2>6, <2>7, <2>8
  <2>10. SumFunctionOnSet(g, D) = g[<<k, n>>] + SumFunctionOnSet(g, C)
    BY <1>3, <2>4, <2>9, SumInsert
  <2>11. SumFunctionOnSet(f, C) = SumFunctionOnSet(g, C)
    BY <1>3, <2>8, SumSame
  <2>12. SumFunctionOnSet(f, C) \in Nat
    BY <1>3, <1>10, SumType
  <2>13. counters'["total_bytes_processed"] = SumFunction(g)
    BY <1>7, <1>8, <1>11, <1>14, <2>6, <2>7, <2>10, <2>11, <2>12
  <2> QED
    BY <1>9, <2>13 DEF VolumeInv
<1> QED
  BY <1>13, <1>14

\* The samples are those of the requests that have been recorded completely.
Sampled(k) == IF k \in thrown \/ pc[k] \in {"load", "record"} THEN handled[k] - 1 ELSE handled[k]
SamplesInv == Size(latency_samples_us) = Cardinality(First([k \in Conn |-> Sampled(k)]))

\* The samples of a thread are a number.
LEMMA SampledType ==
    ASSUME Shape, NEW k \in Conn, ThreadInv(k)
    PROVE  Sampled(k) \in Nat
  BY DEF Shape, ThreadInv, SessionInv, Sampled, Busy

\* A sample is added by RecordSample and by nothing else.
LEMMA SampledStep ==
    ASSUME ThreadsInv, NEW k \in Conn, StepOf(k)
    PROVE  IF RecordSample(k) THEN Sampled(k)' = Sampled(k) + 1
                                   /\ \E l \in Latency : latency_samples_us' = [latency_samples_us EXCEPT ![l] = @ + 1]
           ELSE Sampled(k)' = Sampled(k) /\ latency_samples_us' = latency_samples_us
<1> USE DEF Sampled, ThreadsInv, ThreadInv, SessionInv, Busy, Active
<1>0. read[k] \in Nat /\ handled[k] \in Nat /\ Shape /\ ThreadInv(k) /\ TopicsInv
  BY DEF Shape
<1>1. CASE RecordSample(k)
  BY <1>0, <1>1, RecordSampleEffect
<1>2. CASE ~RecordSample(k)
  <2>1. CASE Unread(k)
    BY <1>0, <1>2, <2>1, UnreadEffect
  <2>2. CASE Client(k)
    BY <1>0, <1>2, <2>2, ClientEffect
  <2>3. CASE ReadFrame(k)
    BY <1>0, <1>2, <2>3, ReadFrameEffect
  <2>4. CASE ProduceThrows(k)
    BY <1>0, <1>2, <2>4, ProduceThrowsEffect
  <2>5. CASE MetricsRequest(k)
    BY <1>0, <1>2, <2>5, MetricsRequestEffect
  <2>6. CASE LoadCounter(k)
    BY <1>0, <1>2, <2>6, LoadCounterShape
  <2>7. CASE LoadSamples(k)
    BY <1>0, <1>2, <2>7, LoadSamplesShape
  <2>8. CASE RecordCounter(k)
    BY <1>0, <1>2, <2>8, RecordCounterEffect
  <2>9. CASE WriteFrame(k) \/ WriteThrows(k)
    BY <1>0, <1>2, <2>9, WriteEffect
  <2>10. CASE Quick(k)
    <3>1. PICK types : \E r \in Response, success \in BOOLEAN : Answers(k, types, r, success)
      BY <1>0, <2>10, QuickAnswers
    <3>2. PICK r \in Response, success \in BOOLEAN : Answers(k, types, r, success)
      BY <3>1
    <3>3. /\ pc[k] = "handle" /\ pc'[k] = "record" /\ thrown' = thrown /\ handled'[k] = handled[k] + 1
          /\ latency_samples_us' = latency_samples_us
      BY <1>0, <3>2, AnswersShape
    <3> QED
      BY <1>0, <1>2, <3>3
  <2> QED
    BY <1>2, <2>1, <2>2, <2>3, <2>4, <2>5, <2>6, <2>7, <2>8, <2>9, <2>10 DEF StepOf, Thread, Unread, Quick
<1> QED
  BY <1>1, <1>2

\* The number of samples, through a step.
LEMMA SamplesStep ==
    ASSUME ThreadsInv, SamplesInv, NEW k \in Conn, StepOf(k)
    PROVE  SamplesInv'
<1>0. ThreadsInv'
  BY ThreadsStep
<1>1. \A j \in Conn : Sampled(j) \in Nat
  BY SampledType DEF ThreadsInv
<1>2. PICK f \in [Conn -> Nat] : f = [j \in Conn |-> Sampled(j)]
  BY <1>1
<1>3. \A j \in Conn \ {k} : Sampled(j)' = Sampled(j)
  <2>1. \A j \in Conn \ {k} : Same(j)
    BY StepThread DEF ThreadsInv
  <2> QED
    BY <2>1 DEF Same, Sampled
<1>4. IF RecordSample(k) THEN Sampled(k)' = Sampled(k) + 1
                              /\ \E l \in Latency : latency_samples_us' = [latency_samples_us EXCEPT ![l] = @ + 1]
      ELSE Sampled(k)' = Sampled(k) /\ latency_samples_us' = latency_samples_us
  BY SampledStep
<1>5. \A j \in Conn : Sampled(j)' \in Nat
  BY <1>1, <1>3, <1>4
<1>6. PICK g \in [Conn -> Nat] : g = [j \in Conn |-> Sampled(j)']
  BY <1>5
<1>7. SamplesInv' <=> Size(latency_samples_us)' = Cardinality(First(g))
  BY <1>6 DEF SamplesInv, First
<1>8. Size(latency_samples_us) = Cardinality(First(f))
  BY <1>2 DEF SamplesInv
<1>9. \A j \in Conn \ {k} : g[j] = f[j]
  BY <1>2, <1>3, <1>6
<1>10. CASE ~RecordSample(k)
  <2>1. g = f
    BY <1>2, <1>4, <1>6, <1>9, <1>10
  <2>2. Size(latency_samples_us)' = Size(latency_samples_us)
    BY <1>4, <1>10 DEF Size
  <2> QED
    BY <1>7, <1>8, <2>1, <2>2
<1>11. CASE RecordSample(k)
  <2>1. g[k] = f[k] + 1
    BY <1>2, <1>4, <1>6, <1>11
  <2>2. Cardinality(First(g)) = Cardinality(First(f)) + 1
    BY <1>9, <2>1, FirstGrows
  <2>3. PICK l \in Latency : latency_samples_us' = [latency_samples_us EXCEPT ![l] = @ + 1]
    BY <1>4, <1>11
  <2>4. PICK s \in [Latency -> Nat] : s = latency_samples_us
    BY DEF ThreadsInv, Shape
  <2>5. PICK u : u = [s EXCEPT ![l] = @ + 1] /\ u = latency_samples_us'
    BY <2>3, <2>4
  <2>6. SumFunction(u) = SumFunction(s) + 1
    <3>1. PICK n \in Nat : n = 1
      OBVIOUS
    <3>2. u = [s EXCEPT ![l] = @ + n] /\ IsFiniteSet(Latency)
      BY <2>5, <3>1, LatencyAssumption
    <3>3. SumFunction(u) = SumFunction(s) + n
      BY <3>2, SumUpdate, ZenonT(40)
    <3> QED
      BY <3>1, <3>3
  <2>7. Size(latency_samples_us)' = SumFunction(u) /\ Size(latency_samples_us) = SumFunction(s)
    BY <2>4, <2>5 DEF Size
  <2> QED
    BY <1>7, <1>8, <2>2, <2>6, <2>7
<1> QED
  BY <1>10, <1>11

----------------------------------------------------------------------------
(* The snapshot of a METRICS request *)

Report(k) == response[k].counters
OutcomesCounted == counters["successful_requests"] + counters["failed_requests"]
Bracketed(n, k) == before[k] <= n /\ n <= Cardinality(First(handled)) - 1

Ordered(l) == l.p50 <= l.p95 /\ l.p95 <= l.p99 /\ l.p99 <= l.max /\ l.average <= l.max

\* How far the snapshot has come: no counter is read; the first one; the first two; all.
NoneRead(k) == before[k] <= counters["total_requests"] /\ before[k] <= OutcomesCounted
OneRead(k) ==
    /\ "total_requests" \in DOMAIN Report(k)
    /\ Bracketed(Report(k)["total_requests"], k)
    /\ Report(k)["total_requests"] \in Nat
    /\ before[k] <= OutcomesCounted
TwoRead(k) ==
    /\ "total_requests" \in DOMAIN Report(k) /\ "successful_requests" \in DOMAIN Report(k)
    /\ Bracketed(Report(k)["total_requests"], k)
    /\ Report(k)["successful_requests"] <= counters["successful_requests"]
    /\ before[k] <= Report(k)["successful_requests"] + counters["failed_requests"]
    /\ Report(k)["total_requests"] \in Nat /\ Report(k)["successful_requests"] \in Nat
AllRead(k) ==
    /\ Bracketed(Report(k)["total_requests"], k)
    /\ Bracketed(Report(k)["successful_requests"] + Report(k)["failed_requests"], k)
    /\ Report(k)["total_requests"] \in Nat
    /\ Report(k)["successful_requests"] + Report(k)["failed_requests"] \in Nat

SnapshotInv(k) ==
    /\ pc[k] = "handle" /\ request[k].type = "METRICS" => NoneRead(k)
    /\ pc[k] = "load" =>
          /\ todo[k] = Loads => NoneRead(k)
          /\ todo[k] = <<"successful_requests", "failed_requests">> => OneRead(k)
          /\ todo[k] = <<"failed_requests">> => TwoRead(k)
          /\ todo[k] = <<>> => AllRead(k)
    /\ pc[k] \in {"record", "write"} /\ request[k].type = "METRICS" =>
          AllRead(k) /\ Ordered(response[k].latencies)

\* Counters, and the number of requests handled, never fall.
LEMMA StepGrows ==
    ASSUME ThreadsInv, NEW k \in Conn, StepOf(k)
    PROVE  /\ \A c \in {"total_requests", "successful_requests", "failed_requests"} :
                 counters[c] \in Nat /\ counters'[c] \in Nat /\ counters[c] <= counters'[c]
           /\ Cardinality(First(handled)) \in Nat /\ Cardinality(First(handled)') \in Nat
           /\ Cardinality(First(handled)) <= Cardinality(First(handled)')
<1>1. ASSUME NEW c \in {"total_requests", "successful_requests", "failed_requests"}
      PROVE  counters[c] \in Nat /\ counters'[c] \in Nat /\ counters[c] <= counters'[c]
  <2>1. c \in CounterNames /\ c # "total_bytes_processed"
    BY DEF CounterNames
  <2>2. /\ counters[c] \in Nat
        /\ Adds(k, {c}) => counters'[c] = counters[c] + 1
        /\ ~Adds(k, {c}) => counters'[c] = counters[c]
    BY <2>1, CounterStep
  <2> QED
    BY <2>2
<1>2. /\ handled' \in [Conn -> Nat] /\ \A j \in Conn \ {k} : handled'[j] = handled[j]
      /\ handled'[k] \in {handled[k], handled[k] + 1}
  BY StepTopics DEF ThreadsInv
<1>3. handled \in [Conn -> Nat]
  BY DEF ThreadsInv, Shape
<1>4. PICK h \in [Conn -> Nat] : h = handled'
  BY <1>2
<1>5. \A j \in Conn : handled[j] <= h[j]
  BY <1>2, <1>3, <1>4
<1>6. Cardinality(First(handled)) <= Cardinality(First(h))
  BY <1>3, <1>5, FirstMonotone
<1>7. Cardinality(First(handled)) \in Nat /\ Cardinality(First(h)) \in Nat
  BY <1>3, FirstFinite
<1>8. First(handled)' = First(h)
  BY <1>4 DEF First
<1> QED
  BY <1>1, <1>6, <1>7, <1>8

\* A snapshot stays in its bracket while others go on.
LEMMA ReadsKept ==
    ASSUME ThreadsInv, NEW k \in Conn, StepOf(k), NEW j \in Conn, before'[j] = before[j], before[j] \in Nat
    PROVE  /\ NoneRead(j) => NoneRead(j)'
           /\ Report(j)' = Report(j) =>
                 (OneRead(j) => OneRead(j)') /\ (TwoRead(j) => TwoRead(j)') /\ (AllRead(j) => AllRead(j)')
<1>1. PICK t \in Nat, s \in Nat, f \in Nat, n \in Nat :
         /\ t = counters["total_requests"] /\ s = counters["successful_requests"]
         /\ f = counters["failed_requests"] /\ n = Cardinality(First(handled))
  BY StepGrows
<1>2. PICK t2 \in Nat, s2 \in Nat, f2 \in Nat, n2 \in Nat :
         /\ t2 = counters'["total_requests"] /\ s2 = counters'["successful_requests"]
         /\ f2 = counters'["failed_requests"] /\ n2 = Cardinality(First(handled)')
  BY StepGrows
<1>3. t <= t2 /\ s <= s2 /\ f <= f2 /\ n <= n2
  BY <1>1, <1>2, StepGrows
<1>4. OutcomesCounted = s + f /\ OutcomesCounted' = s2 + f2
  BY <1>1, <1>2 DEF OutcomesCounted
<1>5. NoneRead(j) => NoneRead(j)'
  BY <1>1, <1>2, <1>3, <1>4 DEF NoneRead
<1>6. ASSUME NEW v \in Nat, Bracketed(v, j) PROVE Bracketed(v, j)'
  <2>1. before[j] <= v /\ v <= n - 1
    BY <1>1, <1>6 DEF Bracketed
  <2>2. v <= n2 - 1
    BY <1>3, <2>1
  <2> QED
    BY <1>2, <2>1, <2>2 DEF Bracketed
<1>7. ASSUME Report(j)' = Report(j), OneRead(j) PROVE OneRead(j)'
  <2>1. PICK v \in Nat : v = Report(j)["total_requests"]
    BY <1>7 DEF OneRead
  <2>2. Bracketed(v, j)' /\ before'[j] <= OutcomesCounted'
    BY <1>3, <1>4, <1>6, <1>7, <2>1 DEF OneRead
  <2> QED
    BY <1>7, <2>1, <2>2 DEF OneRead
<1>8. ASSUME Report(j)' = Report(j), TwoRead(j) PROVE TwoRead(j)'
  <2>1. PICK v \in Nat, w \in Nat : v = Report(j)["total_requests"] /\ w = Report(j)["successful_requests"]
    BY <1>8 DEF TwoRead
  <2>2. Bracketed(v, j)'
    BY <1>6, <1>8, <2>1 DEF TwoRead
  <2>3. w <= s2 /\ before[j] <= w + f2
    BY <1>1, <1>3, <1>8, <2>1 DEF TwoRead
  <2> QED
    BY <1>2, <1>8, <2>1, <2>2, <2>3 DEF TwoRead
<1>9. ASSUME Report(j)' = Report(j), AllRead(j) PROVE AllRead(j)'
  <2>1. PICK v \in Nat, w \in Nat :
           /\ v = Report(j)["total_requests"]
           /\ w = Report(j)["successful_requests"] + Report(j)["failed_requests"]
    BY <1>9 DEF AllRead
  <2>2. Bracketed(v, j)' /\ Bracketed(w, j)'
    BY <1>6, <1>9, <2>1 DEF AllRead
  <2> QED
    BY <1>9, <2>1, <2>2 DEF AllRead
<1> QED
  BY <1>5, <1>7, <1>8, <1>9

\* The thread that takes a snapshot is itself not counted yet.
LEMMA NotYetCounted ==
    ASSUME ThreadsInv, NEW k \in Conn, pc[k] = "load", NEW cs
    PROVE  /\ Cardinality(Counted(cs)) <= Cardinality(First(handled)) - 1
           /\ Cardinality(Counted(cs)) \in Nat /\ Cardinality(First(handled)) \in Nat
<1>1. /\ Counts(cs) \in [Conn -> Nat] /\ handled \in [Conn -> Nat]
      /\ \A j \in Conn : Counts(cs)[j] = Count(j, cs) /\ Counts(cs)[j] <= handled[j]
      /\ Cardinality(Counted(cs)) \in Nat
  BY CountsType
<1>2. Counts(cs)[k] = handled[k] - 1
  BY <1>1 DEF Count, Late
<1>3. PICK h \in [Conn -> Nat] : h[k] = handled[k] - 1 /\ \A j \in Conn \ {k} : h[j] = handled[j]
  <2>1. handled[k] - 1 \in Nat
    BY <1>1, <1>2
  <2>2. [handled EXCEPT ![k] = handled[k] - 1] \in [Conn -> Nat]
    BY <1>1, <2>1
  <2> QED
    BY <1>1, <2>1, <2>2
<1>4. \A j \in Conn : Counts(cs)[j] <= h[j]
  BY <1>1, <1>2, <1>3
<1>5. Cardinality(Counted(cs)) <= Cardinality(First(h))
  BY <1>1, <1>4, FirstMonotone DEF Counted
<1>6. handled[k] = h[k] + 1 /\ \A j \in Conn \ {k} : handled[j] = h[j]
  BY <1>1, <1>3
<1>7. Cardinality(First(handled)) = Cardinality(First(h)) + 1
  BY <1>1, <1>6, FirstGrows
<1>8. Cardinality(First(h)) \in Nat /\ Cardinality(First(handled)) \in Nat
  BY <1>1, FirstFinite
<1> QED
  BY <1>1, <1>5, <1>7, <1>8

\* Every answer that a client has was counted before.
LEMMA AnsweredCounted ==
    ASSUME ThreadsInv, TotalInv, OutcomesInv
    PROVE  Answered <= counters["total_requests"] /\ Answered <= OutcomesCounted
<1>3. \A k \in Conn : Len(answers[k]) \in Nat
  BY DEF ThreadsInv, Shape
<1>1. PICK a \in [Conn -> Nat] : a = [k \in Conn |-> Len(answers[k])]
  BY <1>3
<1>2. ASSUME NEW cs PROVE Answered <= Cardinality(Counted(cs))
  <2>1. Counts(cs) \in [Conn -> Nat] /\ \A k \in Conn : Counts(cs)[k] = Count(k, cs)
    BY CountsType
  <2>2. \A k \in Conn : Len(answers[k]) <= Count(k, cs)
    BY CountType DEF ThreadsInv
  <2>3. \A k \in Conn : a[k] <= Counts(cs)[k]
    BY <1>1, <2>1, <2>2
  <2> QED
    BY <1>1, <2>1, <2>3, FirstMonotone DEF Answered, Counted
<1> QED
  BY <1>2 DEF TotalInv, OutcomesInv, OutcomesCounted

\* One step of the snapshot.
LEMMA LoadStep ==
    ASSUME ThreadsInv, TotalInv, OutcomesInv, NEW k \in Conn, SnapshotInv(k), LoadCounter(k)
    PROVE  SnapshotInv(k)'
<1>0. Shape /\ ThreadInv(k) /\ TodoInv(k) /\ before[k] \in Nat
  BY DEF ThreadsInv, Shape
<1>1. PICK c \in CounterNames, r \in Response :
              /\ pc[k] = "load" /\ todo[k] # <<>> /\ c = Head(todo[k]) /\ todo'[k] = Tail(todo[k])
              /\ response'[k] = r
              /\ DOMAIN r.counters = DOMAIN response[k].counters \cup {c}
              /\ r.counters[c] = counters[c]
              /\ \A d \in DOMAIN response[k].counters \ {c} : r.counters[d] = response[k].counters[d]
  BY <1>0, LoadCounterEffect
<1>2. pc' = pc /\ counters' = counters /\ before' = before /\ handled' = handled
  BY <1>0, LoadCounterShape
<1>3. PICK f, g : f = Report(k) /\ g = Report(k)'
  OBVIOUS
<1>4. DOMAIN g = DOMAIN f \cup {c} /\ g[c] = counters[c] /\ \A d \in DOMAIN f \ {c} : g[d] = f[d]
  BY <1>1, <1>3 DEF Report
<1>5. PICK t \in Nat, s \in Nat, x \in Nat :
         t = counters["total_requests"] /\ s = counters["successful_requests"] /\ x = counters["failed_requests"]
  BY <1>0 DEF Shape, CounterNames
<1>6. PICK n \in Nat : n = Cardinality(First(handled)) /\ t <= n - 1 /\ s + x <= n - 1
  BY <1>1, <1>5, NotYetCounted DEF TotalInv, OutcomesInv
<1>7. n = Cardinality(First(handled)')
  BY <1>2, <1>6 DEF First
<1>8. /\ Head(Loads) = "total_requests" /\ Tail(Loads) = <<"successful_requests", "failed_requests">>
      /\ Head(<<"successful_requests", "failed_requests">>) = "successful_requests"
      /\ Tail(<<"successful_requests", "failed_requests">>) = <<"failed_requests">>
      /\ Head(<<"failed_requests">>) = "failed_requests" /\ Tail(<<"failed_requests">>) = <<>>
  BY DEF Loads
<1>9. /\ <<"successful_requests", "failed_requests">> # <<"failed_requests">>
      /\ <<"successful_requests", "failed_requests">> # <<>> /\ <<"failed_requests">> # <<>>
      /\ Loads # <<"successful_requests", "failed_requests">> /\ Loads # <<"failed_requests">> /\ Loads # <<>>
  BY DEF Loads
<1>10. CASE todo[k] = Loads
  <2>1. NoneRead(k)
    BY <1>1, <1>10 DEF SnapshotInv
  <2>2. g["total_requests"] = t /\ "total_requests" \in DOMAIN g
    BY <1>1, <1>4, <1>5, <1>8, <1>10
  <2>3. OneRead(k)'
    BY <1>2, <1>3, <1>5, <1>6, <1>7, <2>1, <2>2 DEF OneRead, NoneRead, Bracketed, OutcomesCounted
  <2> QED
    BY <1>1, <1>2, <1>8, <1>9, <1>10, <2>3 DEF SnapshotInv
<1>11. CASE todo[k] = <<"successful_requests", "failed_requests">>
  <2>1. OneRead(k)
    BY <1>1, <1>11 DEF SnapshotInv
  <2>2. c = "successful_requests" /\ "total_requests" \in DOMAIN f
    BY <1>1, <1>3, <1>8, <1>11, <2>1 DEF OneRead
  <2>3. /\ g["successful_requests"] = s /\ g["total_requests"] = f["total_requests"]
        /\ "total_requests" \in DOMAIN g /\ "successful_requests" \in DOMAIN g
    BY <1>4, <1>5, <2>2
  <2>4. TwoRead(k)'
    BY <1>2, <1>3, <1>5, <1>6, <1>7, <2>1, <2>3 DEF OneRead, TwoRead, Bracketed, OutcomesCounted
  <2> QED
    BY <1>1, <1>2, <1>8, <1>9, <1>11, <2>4 DEF SnapshotInv
<1>12. CASE todo[k] = <<"failed_requests">>
  <2>1. TwoRead(k)
    BY <1>1, <1>12 DEF SnapshotInv
  <2>2. c = "failed_requests" /\ "total_requests" \in DOMAIN f /\ "successful_requests" \in DOMAIN f
    BY <1>1, <1>3, <1>8, <1>12, <2>1 DEF TwoRead
  <2>3. /\ g["failed_requests"] = x /\ g["total_requests"] = f["total_requests"]
        /\ g["successful_requests"] = f["successful_requests"]
    BY <1>4, <1>5, <2>2
  <2>4. PICK v \in Nat, w \in Nat : v = f["total_requests"] /\ w = f["successful_requests"]
    BY <1>3, <2>1 DEF TwoRead
  <2>5. before[k] <= v /\ v <= n - 1 /\ w <= s /\ before[k] <= w + x
    BY <1>3, <1>5, <1>6, <2>1, <2>4 DEF TwoRead, Bracketed
  <2>6. w + x <= n - 1 /\ w + x \in Nat
    BY <1>6, <2>5
  <2>7. AllRead(k)'
    BY <1>2, <1>3, <1>7, <2>3, <2>4, <2>5, <2>6 DEF AllRead, Bracketed
  <2> QED
    BY <1>1, <1>2, <1>8, <1>9, <1>12, <2>7 DEF SnapshotInv
<1> QED
  BY <1>0, <1>1, <1>10, <1>11, <1>12 DEF TodoInv

\* What the counters read so far say, through a step of any thread.
LEMMA SnapshotStep ==
    ASSUME ThreadsInv, TotalInv, OutcomesInv, NEW k \in Conn, StepOf(k), NEW j \in Conn, SnapshotInv(j)
    PROVE  SnapshotInv(j)'
<1>0. Shape /\ ThreadInv(k) /\ TodoInv(k) /\ TopicsInv /\ before[j] \in Nat
  BY DEF ThreadsInv, Shape
<1>1. CASE j # k
  <2>1. Same(j)
    BY <1>0, <1>1, StepThread
  <2>2. before'[j] = before[j] /\ Report(j)' = Report(j)
    BY <2>1 DEF Same, Report
  <2>3. /\ NoneRead(j) => NoneRead(j)'
        /\ (OneRead(j) => OneRead(j)') /\ (TwoRead(j) => TwoRead(j)') /\ (AllRead(j) => AllRead(j)')
    BY <1>0, <2>2, ReadsKept
  <2> QED
    BY <2>1, <2>3 DEF SnapshotInv, Same
<1>2. CASE j = k /\ pc'[k] \notin {"handle", "load", "record", "write"}
  BY <1>2 DEF SnapshotInv
<1>3. CASE j = k /\ (Unread(k) \/ ProduceThrows(k) \/ WriteFrame(k) \/ WriteThrows(k))
  BY <1>0, <1>2, <1>3, UnreadEffect, ProduceThrowsEffect, WriteEffect
<1>4. CASE j = k /\ (Client(k) \/ RecordCounter(k) \/ RecordSample(k))
  <2>1. /\ before'[k] = before[k] /\ response'[k] = response[k] /\ request'[k] = request[k]
        /\ \/ pc[k] \in {"record", "write"} /\ pc'[k] \in {"record", "write"}
           \/ pc'[k] = "read"
    BY <1>0, <1>4, ClientEffect, RecordCounterEffect, RecordSampleEffect
  <2>2. AllRead(k) => AllRead(k)'
    BY <1>0, <1>4, <2>1, ReadsKept DEF Report
  <2> QED
    BY <1>4, <2>1, <2>2 DEF SnapshotInv
<1>5. CASE j = k /\ ReadFrame(k)
  <2>1. /\ pc'[k] = "handle" /\ counters' = counters
        /\ request'[k].type = "METRICS" => before'[k] = Answered
    BY <1>0, <1>5, ReadFrameEffect
  <2>2. Answered <= counters["total_requests"] /\ Answered <= OutcomesCounted
    BY AnsweredCounted
  <2>3. request'[k].type = "METRICS" => NoneRead(k)'
    BY <2>1, <2>2 DEF NoneRead, OutcomesCounted
  <2> QED
    BY <1>5, <2>1, <2>3 DEF SnapshotInv
<1>6. CASE j = k /\ Quick(k)
  <2>1. PICK types : \E r \in Response, success \in BOOLEAN : Answers(k, types, r, success) /\ "METRICS" \notin types
    BY <1>0, <1>6, QuickAnswers
  <2>2. PICK r \in Response, success \in BOOLEAN : Answers(k, types, r, success) /\ "METRICS" \notin types
    BY <2>1
  <2>3. pc'[k] = "record" /\ request'[k] = request[k] /\ request[k].type \in types
    BY <1>0, <2>2, AnswersShape
  <2> QED
    BY <1>6, <2>2, <2>3 DEF SnapshotInv
<1>7. CASE j = k /\ MetricsRequest(k)
  <2>1. /\ pc[k] = "handle" /\ pc'[k] = "load" /\ request[k].type = "METRICS"
        /\ todo'[k] = Loads /\ before' = before /\ counters' = counters
    BY <1>0, <1>7, MetricsRequestEffect
  <2>2. NoneRead(k)'
    BY <1>7, <2>1 DEF SnapshotInv, NoneRead, OutcomesCounted
  <2>3. Loads # <<"successful_requests", "failed_requests">> /\ Loads # <<"failed_requests">> /\ Loads # <<>>
    BY DEF Loads
  <2> QED
    BY <1>7, <2>1, <2>2, <2>3 DEF SnapshotInv
<1>8. CASE j = k /\ LoadCounter(k)
  BY <1>8, LoadStep
<1>9. CASE j = k /\ LoadSamples(k)
  <2>1. /\ pc[k] = "load" /\ todo[k] = <<>> /\ pc'[k] = "record" /\ before' = before
        /\ response'[k].counters = response[k].counters
        /\ response'[k].latencies = LatencyReport(latency_samples_us)
    BY <1>0, <1>9, LoadSamplesShape
  <2>2. AllRead(k)
    BY <1>9, <2>1 DEF SnapshotInv
  <2>3. AllRead(k)'
    BY <1>0, <1>9, <2>1, <2>2, ReadsKept DEF Report
  <2>4. Ordered(response'[k].latencies)
    BY <1>0, <2>1, ReportOrdered DEF Shape, Ordered
  <2> QED
    BY <1>9, <2>1, <2>3, <2>4 DEF SnapshotInv, Ordered
<1> QED
  BY <1>1, <1>3, <1>4, <1>5, <1>6, <1>7, <1>8, <1>9 DEF StepOf, Thread, Unread, Quick

----------------------------------------------------------------------------
(* The invariant holds *)

IInv ==
    /\ ThreadsInv
    /\ \A k \in Conn : FetchInv(k)
    /\ CountersInv /\ SamplesInv
    /\ \A k \in Conn : SnapshotInv(k)

\* At first no request was handled.
LEMMA FirstOfNone ==
    ASSUME NEW f, \A k \in Conn : f[k] = 0
    PROVE  First(f) = {}
<1>1. \A k \in Conn : 1..f[k] = {}
  OBVIOUS
<1>2. \A k \in Conn : {k} \X (1..f[k]) = {}
  BY <1>1
<1> QED
  BY <1>2 DEF First

\* The inductive invariant holds at first, when nothing happens, and through every step.
LEMMA InitInvariant == Init => IInv
<1> SUFFICES ASSUME Init PROVE IInv
  OBVIOUS
<1>1. Shape
  <2>1. <<>> \in Seq(RawRequests) /\ <<>> \in Seq(Nat) /\ <<>> \in Seq(CounterNames)
    OBVIOUS
  <2> QED
    BY <2>1 DEF Init, MetricsInit, Shape, Active
<1>2. TopicsInv
  BY DEF Init, TopicsInv
<1>3. ASSUME NEW k \in Conn PROVE ThreadInv(k) /\ TodoInv(k) /\ FetchInv(k) /\ SnapshotInv(k)
  <2>1. sent[k] = <<>> /\ answers[k] = <<>> /\ pc[k] = "new" /\ read[k] = 0 /\ handled[k] = 0 /\ thrown = {}
        /\ request[k] = Invalid /\ response[k] = None
    BY DEF Init
  <2>2. <<>> \in Seq(RawRequest[k]) /\ MaxRequests[k] \in Nat /\ Len(<<>>) = 0
    BY BoundAssumption
  <2>3. SessionInv(k)
    BY <2>1, <2>2 DEF SessionInv, Busy
  <2>4. RequestInv(k)
    BY <2>1 DEF RequestInv
  <2>5. TodoInv(k) /\ FetchInv(k) /\ SnapshotInv(k)
    BY <2>1 DEF TodoInv, FetchInv, SnapshotInv
  <2> QED
    BY <2>3, <2>4, <2>5 DEF ThreadInv
<1>4. ThreadsInv
  BY <1>1, <1>2, <1>3 DEF ThreadsInv
<1>5. \A k \in Conn : handled[k] = 0 /\ pc[k] = "new" /\ k \notin thrown
  BY DEF Init
<1>6. ASSUME NEW cs PROVE Counted(cs) = {}
  <2>1. \A k \in Conn : Counts(cs)[k] = 0
    BY <1>5 DEF Counts, Count, Late
  <2> QED
    BY <2>1, FirstOfNone DEF Counted
<1>7. Cardinality({}) = 0 /\ IsFiniteSet({})
  BY FS_EmptySet
<1>8. \A c \in CounterNames : counters[c] = 0
  BY DEF Init, MetricsInit
<1>9. TotalInv /\ OutcomesInv
  BY <1>6, <1>7, <1>8 DEF TotalInv, OutcomesInv, CounterNames
<1>10. ASSUME NEW type \in DOMAIN TypeCounter PROVE TypedInv(type)
  <2>1. {r \in Counted({TypeCounter[type]}) : RequestAt(r).type = type} = {}
    BY <1>6
  <2>2. TypeCounter[type] \in CounterNames
    BY DEF TypeCounter, CounterNames
  <2> QED
    BY <1>7, <1>8, <2>1, <2>2 DEF TypedInv
<1>11. VolumeInv
  <2>1. PICK g : g = [r \in Counted(Volume) |-> RequestBytes(RequestAt(r))]
    OBVIOUS
  <2>2. SumFunction(g) = SumFunctionOnSet(g, {})
    BY <1>6, <2>1, SumFunctionIs
  <2>3. SumFunctionOnSet(g, {}) = 0
    BY <1>7, SumType
  <2> QED
    BY <1>8, <2>1, <2>2, <2>3 DEF VolumeInv, CounterNames
<1>12. SamplesInv
  <2>1. PICK s \in [Latency -> Nat] : s = latency_samples_us /\ \A l \in Latency : s[l] = 0
    BY <1>1 DEF Init, MetricsInit, Shape
  <2>2. SumFunction(s) = SumFunctionOnSet(s, Latency)
    BY <2>1, SumFunctionIs
  <2>3. SumFunctionOnSet(s, Latency) <= 0 * SumFunctionOnSet(s, Latency)
    <3>1. PICK m \in Nat : m = 0
      OBVIOUS
    <3>2. \A l \in Latency : s[l] \in Nat /\ s[l] <= m * s[l]
      BY <2>1, <3>1
    <3>3. SumFunctionOnSet(s, Latency) <= m * SumFunctionOnSet(s, Latency)
      BY <3>2, LatencyAssumption, SumBound
    <3> QED
      BY <3>1, <3>3
  <2>4. SumFunctionOnSet(s, Latency) \in Nat
    BY <2>1, LatencyAssumption, SumType
  <2>5. SumFunction(s) = 0
    BY <2>2, <2>3, <2>4
  <2>6. PICK f : f = [k \in Conn |-> Sampled(k)]
    OBVIOUS
  <2>7. \A k \in Conn : f[k] = 0
    BY <1>5, <2>6 DEF Sampled
  <2>8. First(f) = {}
    BY <2>7, FirstOfNone
  <2> QED
    BY <1>7, <2>1, <2>5, <2>6, <2>8 DEF SamplesInv, Size
<1> QED
  BY <1>3, <1>4, <1>9, <1>10, <1>11, <1>12 DEF IInv, CountersInv

\* See InitInvariant.
LEMMA StutterInvariant == IInv /\ UNCHANGED vars => IInv'
<1> SUFFICES ASSUME IInv, UNCHANGED vars PROVE IInv'
  OBVIOUS
<1> USE DEF vars, clients, thread, metrics, history
<1>1. ThreadsInv'
  <2>1. Shape'
    BY DEF IInv, ThreadsInv, Shape
  <2>2. TopicsInv'
    BY DEF IInv, ThreadsInv, TopicsInv, First
  <2>3. ASSUME NEW k \in Conn PROVE ThreadInv(k)' /\ TodoInv(k)'
    <3>1. Same(k)
      BY DEF Same
    <3> QED
      BY <3>1, SameThread, SameTodo DEF IInv, ThreadsInv
  <2> QED
    BY <2>1, <2>2, <2>3 DEF ThreadsInv
<1>2. ASSUME NEW k \in Conn PROVE FetchInv(k)' /\ SnapshotInv(k)'
  <2>1. FetchInv(k)'
    BY DEF IInv, FetchInv, IsPart, Topic, Partition
  <2>2. SnapshotInv(k)'
    BY DEF IInv, SnapshotInv, NoneRead, OneRead, TwoRead, AllRead, Report, OutcomesCounted, Bracketed, Ordered, First
  <2> QED
    BY <2>1, <2>2
<1>3. TotalInv' /\ OutcomesInv'
  BY DEF IInv, CountersInv, TotalInv, OutcomesInv, Counted, Counts, Count, Late, Contains, First
<1>4. ASSUME NEW type \in DOMAIN TypeCounter PROVE TypedInv(type)'
  BY DEF IInv, CountersInv, TypedInv, Counted, Counts, Count, Late, Contains, First, RequestAt
<1>5. VolumeInv'
  BY DEF IInv, CountersInv, VolumeInv, Counted, Counts, Count, Late, Contains, First, RequestAt
<1>6. SamplesInv'
  BY DEF IInv, SamplesInv, Sampled, First, Size
<1> QED
  BY <1>1, <1>2, <1>3, <1>4, <1>5, <1>6 DEF IInv, CountersInv

\* See InitInvariant.
LEMMA StepInvariant == IInv /\ [Next]_vars => IInv'
<1>1. ASSUME IInv, NEW k \in Conn, StepOf(k) PROVE IInv'
  <2>1. ThreadsInv'
    BY <1>1, ThreadsStep DEF IInv
  <2>2. \A j \in Conn : FetchInv(j)'
    BY <1>1, FetchStep DEF IInv, ThreadsInv
  <2>3. TotalInv' /\ OutcomesInv' /\ VolumeInv'
    BY <1>1, TotalStep, OutcomesStep, VolumeStep DEF IInv, CountersInv
  <2>4. \A type \in DOMAIN TypeCounter : TypedInv(type)'
    BY <1>1, TypedStep DEF IInv, CountersInv
  <2>5. SamplesInv'
    BY <1>1, SamplesStep DEF IInv
  <2>6. \A j \in Conn : SnapshotInv(j)'
    BY <1>1, SnapshotStep DEF IInv, CountersInv
  <2> QED
    BY <2>1, <2>2, <2>3, <2>4, <2>5, <2>6 DEF IInv, CountersInv
<1> QED
  BY <1>1, StutterInvariant DEF Next, StepOf

\* The inductive invariant: what the counters, the samples and the responses being put together
\* owe to the requests handled so far, at every point of every thread.
THEOREM Invariant == Spec => []IInv
  BY InitInvariant, StepInvariant, PTL DEF Spec

----------------------------------------------------------------------------
(* What follows from it *)

\* The type invariant is part of it.
LEMMA InvariantType == IInv => TypeOK
<1> SUFFICES ASSUME IInv PROVE TypeOK
  OBVIOUS
<1>1. Shape
  BY DEF IInv, ThreadsInv
<1>2. ASSUME NEW k \in Conn
      PROVE  /\ sent[k] \in Seq(RawRequest[k]) /\ answers[k] \in Seq(1..MaxRequests[k])
             /\ request[k].type \in DOMAIN Fields \cup {"INVALID"}
             /\ request[k].payload \in Seq(Char \ {"break"})
             /\ response[k] # None <=> pc[k] \in {"load", "record", "write"}
             /\ todo[k] \in Seq(CounterNames)
             /\ read[k] \in 0..Len(sent[k])
             /\ handled[k] = read[k] - (IF pc[k] = "handle" THEN 1 ELSE 0)
  <2>1. SessionInv(k) /\ RequestInv(k) /\ ThreadInv(k)
    BY DEF IInv, ThreadsInv, ThreadInv
  <2>2. answers[k] \in Seq(1..MaxRequests[k])
    <3>1. PICK a \in Seq(Nat) : a = answers[k]
      BY <1>1 DEF Shape
    <3>2. /\ Len(a) <= read[k] /\ read[k] <= Len(sent[k]) /\ Len(sent[k]) <= MaxRequests[k]
          /\ read[k] \in Nat /\ Len(sent[k]) \in Nat /\ MaxRequests[k] \in Nat
      BY <1>1, <2>1, <3>1, BoundAssumption DEF Shape, SessionInv
    <3>3. \A i \in 1..Len(a) : a[i] \in 1..MaxRequests[k]
      BY <2>1, <3>1, <3>2 DEF SessionInv
    <3>4. a \in [1..Len(a) -> 1..MaxRequests[k]] /\ Len(a) \in Nat
      BY <3>1, <3>3
    <3>5. a \in Seq(1..MaxRequests[k])
      <4>1. PICK n \in Nat : n = Len(a)
        BY <3>4
      <4>2. PICK S : S = 1..MaxRequests[k]
        OBVIOUS
      <4>3. a \in [1..n -> S]
        BY <3>4, <4>1, <4>2
      <4>4. a \in UNION {[1..m -> S] : m \in Nat}
        BY <4>3, Zenon
      <4>5. a \in Seq(S)
        BY <4>4, SeqDef, Zenon
      <4> QED
        BY <4>2, <4>5
    <3> QED
      BY <3>1, <3>5
  <2>3. /\ request[k].type \in DOMAIN Fields \cup {"INVALID"}
        /\ request[k].payload \in Message \cup {<<>>}
    BY <1>1, <2>1, RequestFacts
  <2>4. <<>> \in Seq(Char \ {"break"}) /\ Message \subseteq Seq(Char \ {"break"})
    BY DEF Message
  <2>5. request[k].payload \in Seq(Char \ {"break"})
    BY <2>3, <2>4, Zenon
  <2>6. read[k] \in 0..Len(sent[k])
    BY <1>1, <2>1 DEF Shape, SessionInv
  <2>7. handled[k] = read[k] - (IF pc[k] = "handle" THEN 1 ELSE 0)
    BY <1>1, <2>1 DEF Shape, SessionInv
  <2> QED
    BY <1>1, <2>1, <2>2, <2>3, <2>5, <2>6, <2>7 DEF Shape, SessionInv, RequestInv
<1>3. pc \in [Conn -> {"new", "read", "handle", "load", "record", "write", "closing", "closed"}]
  BY <1>1 DEF Shape, Active
<1> QED
  BY <1>1, <1>2, <1>3 DEF TypeOK, Shape

\* The state has its type, and a thread has a response exactly from the handling of a
\* request to the writing of its frame.
THEOREM TypeCorrect == Spec => []TypeOK
  BY Invariant, InvariantType, PTL

\* The latencies of every METRICS response are in order.
THEOREM LatenciesOrdered == Spec => []PercentilesOrdered
<1>1. IInv => PercentilesOrdered
  BY DEF IInv, SnapshotInv, PercentilesOrdered, Reports, Ordered
<1> QED
  BY <1>1, Invariant, PTL

\* A METRICS response counts what was answered before it was read, and nothing that has not
\* been handled, although its counters are read one by one while others change.
THEOREM SnapshotsBracketed == Spec => []SnapshotBracketed
<1>1. IInv => SnapshotBracketed
  <2> SUFFICES ASSUME IInv, NEW k \in Reports PROVE
        /\ Report(k)["total_requests"] \in before[k]..(Cardinality(First(handled)) - 1)
        /\ Report(k)["successful_requests"] + Report(k)["failed_requests"]
              \in before[k]..(Cardinality(First(handled)) - 1)
    BY DEF SnapshotBracketed, Report
  <2>1. k \in Conn /\ AllRead(k)
    BY DEF IInv, SnapshotInv, Reports
  <2>2. before[k] \in Nat /\ handled \in [Conn -> Nat]
    BY <2>1 DEF IInv, ThreadsInv, Shape
  <2>3. Cardinality(First(handled)) \in Nat
    BY <2>2, FirstFinite
  <2> QED
    BY <2>1, <2>2, <2>3 DEF AllRead, Bracketed
<1> QED
  BY <1>1, Invariant, PTL

\* The consumer's count of a FETCH response is the number of messages in it.
THEOREM FetchesCounted == Spec => []FetchCountExact
<1>1. IInv => FetchCountExact
  <2> SUFFICES ASSUME IInv, NEW k \in Conn, pc[k] \in {"record", "write"}, response[k].text = "messages"
      PROVE  \E n \in 0..Len(topics[Topic(k)][Partition(k)]) :
                LET fetched == SubSeq(topics[Topic(k)][Partition(k)], request[k].args["offset"].value + 1, n)
                IN  /\ response[k].messages = JoinMessages(fetched)
                    /\ count_messages(response[k].messages) = Len(fetched)
    BY DEF FetchCountExact
  <2>1. IsPart(k)
    BY DEF IInv, FetchInv
  <2>2. Shape /\ ThreadInv(k) /\ TopicsInv
    BY DEF IInv, ThreadsInv
  <2>3. request[k].type = "FETCH" /\ Topic(k) \in DOMAIN topics
    BY <2>1 DEF IsPart
  <2>4. Partition(k) \in 0..(PartitionCount - 1) /\ request[k].args["offset"].value \in Nat
    BY <2>2, <2>3, RequestFacts
  <2>5. PICK o \in Nat : o = request[k].args["offset"].value
    BY <2>4
  <2>6. PICK m \in Seq(Message) : m = topics[Topic(k)][Partition(k)]
    BY <2>2, <2>3, <2>4 DEF TopicsInv
  <2>7. PICK n \in 0..Len(m) : response[k].messages = JoinMessages(SubSeq(m, o + 1, n))
    BY <2>1, <2>5, <2>6 DEF IsPart
  <2>8. \A i \in (o + 1)..n : m[i] \in Message
    BY <2>7
  <2>9. PICK s : s = SubSeq(m, o + 1, n)
    OBVIOUS
  <2>10. s \in Seq(Message)
    BY <2>8, <2>9, SubSeqProperties
  <2>11. response[k].messages = JoinMessages(s) /\ count_messages(response[k].messages) = Len(s)
    BY <2>7, <2>9, <2>10, JoinedAreCounted
  <2> QED
    BY <2>5, <2>6, <2>9, <2>11
<1> QED
  BY <1>1, Invariant, PTL

\* The follower's parser takes the leader's REPLICATE line for every message that PRODUCE
\* let in and gets the same payload, or one more space of one of nothing but spaces, if the
\* requests are not more than the offsets of a long long.
THEOREM ReplicasParsed ==
    ASSUME Cardinality(First(MaxRequests)) <= LongMax
    PROVE  Spec => []ReplicaPayload
<1>1. ASSUME IInv PROVE ReplicaPayload
  <2>1. ThreadsInv /\ Shape /\ TopicsInv
    BY <1>1 DEF IInv, ThreadsInv
  <2>2. handled \in [Conn -> Nat] /\ MaxRequests \in [Conn -> Nat]
    BY <2>1, BoundAssumption DEF Shape
  <2>3. \A k \in Conn : handled[k] <= MaxRequests[k]
    <3>1. ASSUME NEW k \in Conn PROVE handled[k] <= MaxRequests[k]
      <4>1. handled[k] <= Len(sent[k]) /\ handled[k] \in Nat /\ Len(sent[k]) \in Nat
        BY <2>1, CountType DEF ThreadsInv
      <4>2. Len(sent[k]) <= MaxRequests[k]
        BY <2>1 DEF ThreadsInv, ThreadInv, SessionInv
      <4> QED
        BY <2>2, <4>1, <4>2
    <3> QED
      BY <3>1
  <2>4. Cardinality(First(handled)) <= Cardinality(First(MaxRequests))
    BY <2>2, <2>3, FirstMonotone
  <2>5. Cardinality(First(handled)) \in Nat /\ Cardinality(First(MaxRequests)) \in Nat /\ LongMax \in Nat
    BY <2>2, FirstFinite, WidthAssumption
  <2>6. Cardinality(First(handled)) <= LongMax
    BY <2>4, <2>5
  <2>7. ASSUME NEW t \in DOMAIN topics, NEW p \in DOMAIN topics[t], NEW i \in DOMAIN topics[t][p],
               NEW message, message = topics[t][p][i], NEW topic,
               NEW copy, copy = parse_request(ReplicateLine(topic, p, i - 1, message))
        PROVE  /\ copy.type = "REPLICATE"
               /\ copy.payload = IF Elements(message) = {"space"} THEN <<"space">> \o message ELSE message
    <3>1. p \in 0..(PartitionCount - 1)
      BY <2>1 DEF TopicsInv
    <3>2. PICK s \in Seq(Message) : s = topics[t][p] /\ Len(s) <= Cardinality(First(handled))
      BY <2>1, <3>1 DEF TopicsInv
    <3>3. i \in 1..Len(s) /\ message \in Message
      BY <2>7, <3>2
    <3>4. PICK o \in 0..LongMax : o = i - 1
      BY <2>5, <2>6, <3>2, <3>3
    <3>5. p \in 0..IntMax
      BY <3>1, WidthAssumption
    <3> QED
      BY <2>7, <3>3, <3>4, <3>5, ReplicateLineParsed
  <2> QED
    BY <2>7 DEF ReplicaPayload
<1> QED
  BY <1>1, Invariant, PTL

\* When no thread is between its counters, they agree with each other, with the latencies
\* and with what was handled.
THEOREM CountersAgree == Spec => []CountersSettle
<1>1. IInv => CountersSettle
  <2> SUFFICES ASSUME IInv, \A k \in Conn : pc[k] \notin {"load", "record"}
      PROVE  /\ counters["total_requests"] = Cardinality(Recorded)
             /\ counters["successful_requests"] + counters["failed_requests"] = Cardinality(Recorded)
             /\ \A type \in DOMAIN TypeCounter : counters[TypeCounter[type]] = Cardinality(RecordedOf(type))
             /\ counters["total_bytes_processed"] = SumFunction([r \in Recorded |-> RequestBytes(RequestAt(r))])
             /\ Size(latency_samples_us) = Cardinality(Recorded)
    BY DEF CountersSettle
  <2>1. \A k \in Conn : handled[k] \in Nat
    BY DEF IInv, ThreadsInv, Shape
  <2>2. PICK f : f = [k \in Conn |-> handled[k] - (IF k \in thrown THEN 1 ELSE 0)]
    OBVIOUS
  <2>3. Recorded = First(f)
    BY <2>2 DEF Recorded
  <2>4. ASSUME NEW cs PROVE Counted(cs) = Recorded
    <3>1. \A k \in Conn : Count(k, cs) = f[k]
      BY <2>1, <2>2 DEF Count, Late
    <3>2. Counts(cs) = f
      BY <2>2, <3>1 DEF Counts
    <3> QED
      BY <2>3, <3>2 DEF Counted
  <2>5. [k \in Conn |-> Sampled(k)] = f
    BY <2>1, <2>2 DEF Sampled
  <2>6. TotalInv /\ OutcomesInv /\ VolumeInv /\ SamplesInv /\ \A type \in DOMAIN TypeCounter : TypedInv(type)
    BY DEF IInv, CountersInv
  <2>7. \A type \in DOMAIN TypeCounter : counters[TypeCounter[type]] = Cardinality(RecordedOf(type))
    BY <2>4, <2>6 DEF TypedInv, RecordedOf
  <2>8. counters["total_requests"] = Cardinality(Recorded)
    BY <2>4, <2>6 DEF TotalInv
  <2>9. counters["successful_requests"] + counters["failed_requests"] = Cardinality(Recorded)
    BY <2>4, <2>6 DEF OutcomesInv
  <2>10. counters["total_bytes_processed"] = SumFunction([r \in Recorded |-> RequestBytes(RequestAt(r))])
    BY <2>4, <2>6 DEF VolumeInv
  <2>11. Size(latency_samples_us) = Cardinality(Recorded)
    BY <2>3, <2>5, <2>6 DEF SamplesInv
  <2> QED
    BY <2>7, <2>8, <2>9, <2>10, <2>11
<1> QED
  BY <1>1, Invariant, PTL

----------------------------------------------------------------------------
(* The threads keep the promises of Session *)

\* The requests of a connection are known by their numbers.
UpTo(n) == [i \in 1..n |-> i]
Asked(k) == [i \in DOMAIN sent[k] |-> i]
Opened == {k \in Conn : pc[k] \notin {"closing", "closed"}}

\* The numbers up to n as a sequence.
LEMMA UpToFacts ==
    ASSUME NEW n \in Nat
    PROVE  /\ UpTo(n) \in Seq(Nat) /\ Len(UpTo(n)) = n /\ \A i \in 1..n : UpTo(n)[i] = i
           /\ Append(UpTo(n), n + 1) = UpTo(n + 1) /\ UpTo(0) = <<>>
<1>1. UpTo(n) \in Seq(Nat) /\ Len(UpTo(n)) = n /\ \A i \in 1..n : UpTo(n)[i] = i
  BY DEF UpTo
<1>2. UpTo(n + 1) \in Seq(Nat) /\ Len(UpTo(n + 1)) = n + 1 /\ \A i \in 1..(n + 1) : UpTo(n + 1)[i] = i
  BY DEF UpTo
<1>3. PICK s \in Seq(Nat) : s = UpTo(n)
  BY <1>1
<1>4. Append(s, n + 1) \in Seq(Nat) /\ Len(Append(s, n + 1)) = n + 1
  BY <1>1, <1>3
<1>5. \A i \in 1..(n + 1) : Append(s, n + 1)[i] = i
  BY <1>1, <1>3
<1>6. Append(s, n + 1) = UpTo(n + 1)
  BY <1>2, <1>4, <1>5, SeqEqual
<1>7. UpTo(0) = <<>>
  BY DEF UpTo
<1> QED
  BY <1>1, <1>3, <1>6, <1>7

\* The requests sent by a client, as Session sees them.
LEMMA AskedIs ==
    ASSUME NEW s \in Seq(RawRequests)
    PROVE  [i \in DOMAIN s |-> i] = UpTo(Len(s)) /\ Len(s) \in Nat
  BY DEF UpTo

\* A step that Session does not see.
LEMMA Unseen ==
    ASSUME sent' = sent, handled' = handled, answers' = answers, Opened' = Opened
    PROVE  UNCHANGED Promise!vars
  BY DEF Promise!vars, Opened

\* A connection is closed.
LEMMA SeenClose ==
    ASSUME sent' = sent, handled' = handled, answers' = answers, NEW k \in Opened, Opened' = Opened \ {k}
    PROVE  Promise!Next
<1>1. Promise!Close({k})
  BY DEF Promise!Close, Opened
<1>2. {k} \in SUBSET Opened
  OBVIOUS
<1> QED
  BY <1>1, <1>2 DEF Promise!Next, Opened

\* A client sends a request.
LEMMA SeenSend ==
    ASSUME ThreadsInv, NEW k \in Conn, NEW raw \in RawRequest[k], Len(sent[k]) < MaxRequests[k],
           sent' = [sent EXCEPT ![k] = Append(sent[k], raw)],
           handled' = handled, answers' = answers, Opened' = Opened
    PROVE  Promise!Next
<1>1. PICK s \in Seq(RawRequests) : s = sent[k]
  BY DEF ThreadsInv, Shape
<1>2. PICK n \in Nat : n = Len(s)
  BY <1>1
<1>3. raw \in RawRequests
  BY RawAssumption
<1>4. PICK s2 \in Seq(RawRequests) : s2 = Append(s, raw) /\ Len(s2) = n + 1
  <2>1. Append(s, raw) \in Seq(RawRequests) /\ Len(Append(s, raw)) = n + 1
    BY <1>2, <1>3
  <2> QED
    BY <2>1, Zenon
<1>5. sent'[k] = s2 /\ \A j \in Conn \ {k} : sent'[j] = sent[j]
  BY <1>1, <1>4 DEF ThreadsInv, Shape
<1>6. Asked(k) = UpTo(n) /\ Asked(k)' = UpTo(n + 1)
  BY <1>1, <1>2, <1>4, <1>5, AskedIs DEF Asked
<1>7. Append(UpTo(n), n + 1) = UpTo(n + 1)
  BY UpToFacts
<1>8. n + 1 \in 1..MaxRequests[k]
  BY <1>1, <1>2, BoundAssumption
<1>9. n + 1 \in UNION {1..MaxRequests[j] : j \in Conn}
  BY <1>8
<1>10. PICK f, g : f = [j \in Conn |-> Asked(j)] /\ g = [j \in Conn |-> Asked(j)']
  OBVIOUS
<1>11. g = [f EXCEPT ![k] = Append(@, n + 1)]
  <2>1. \A j \in Conn \ {k} : Asked(j)' = Asked(j)
    BY <1>5 DEF Asked
  <2> QED
    BY <1>6, <1>7, <1>10, <2>1
<1>12. /\ f = [j \in Conn |-> [i \in DOMAIN sent[j] |-> i]]
       /\ g = [j \in Conn |-> [i \in DOMAIN sent[j] |-> i]]'
  BY <1>10 DEF Asked
<1>13. Promise!Send(k)
  BY <1>9, <1>11, <1>12 DEF Promise!Send, Opened
<1> QED
  BY <1>13 DEF Promise!Next

\* The broker carries out the next request, and may throw.
LEMMA SeenExecute ==
    ASSUME ThreadsInv, NEW k \in Conn, pc[k] = "handle", sent' = sent, answers' = answers,
           handled' = [handled EXCEPT ![k] = @ + 1], Opened' \in {Opened, Opened \ {k}}
    PROVE  Promise!Next
<1>1. PICK s \in Seq(RawRequests) : s = sent[k]
  BY DEF ThreadsInv, Shape
<1>2. PICK n \in Nat : n = handled[k]
  BY DEF ThreadsInv, Shape
<1>3. Len(s) \in Nat /\ n < Len(s)
  BY <1>1, <1>2 DEF ThreadsInv, ThreadInv, SessionInv, Shape, Busy
<1>4. k \in Opened
  BY DEF Opened
<1>5. Asked(k) = UpTo(Len(s))
  BY <1>1, AskedIs DEF Asked
<1>6. Len(UpTo(Len(s))) = Len(s) /\ UpTo(Len(s))[n + 1] = n + 1
  <2>1. PICK m \in Nat : m = Len(s)
    BY <1>3
  <2>2. n + 1 \in 1..m
    BY <1>3, <2>1
  <2>3. Len(UpTo(m)) = m /\ \A i \in 1..m : UpTo(m)[i] = i
    BY UpToFacts
  <2>4. Len(UpTo(m)) = m /\ UpTo(m)[n + 1] = n + 1
    BY <2>2, <2>3, Zenon
  <2> QED
    BY <2>1, <2>4, Zenon
<1>7. Len(UpTo(n)) = n /\ Append(UpTo(n), n + 1) = UpTo(n + 1)
  BY UpToFacts
<1>8. PICK f, g : f = [j \in Conn |-> UpTo(handled[j])] /\ g = [j \in Conn |-> UpTo(handled'[j])]
  OBVIOUS
<1>9. handled'[k] = n + 1 /\ \A j \in Conn \ {k} : handled'[j] = handled[j]
  BY <1>2 DEF ThreadsInv, Shape
<1>10. f[k] = UpTo(n) /\ g = [f EXCEPT ![k] = Append(@, n + 1)]
  <2>1. f[k] = UpTo(n) /\ g[k] = UpTo(n + 1)
    BY <1>2, <1>8, <1>9, Zenon
  <2>2. ASSUME NEW j \in Conn \ {k} PROVE g[j] = f[j]
    <3>1. f[j] = UpTo(handled[j]) /\ g[j] = UpTo(handled'[j])
      BY <1>8, Zenon
    <3>2. handled'[j] = handled[j]
      BY <1>9, Zenon
    <3> QED
      BY <3>1, <3>2, Zenon
  <2>3. PICK u : u = Append(f[k], n + 1) /\ g[k] = u
    BY <1>7, <2>1, Zenon
  <2>4. g = [f EXCEPT ![k] = u]
    BY <1>8, <2>2, <2>3
  <2> QED
    BY <2>1, <2>3, <2>4
<1>11. PICK q : q = [j \in Conn |-> Asked(j)]
  OBVIOUS
<1>12. q[k] = UpTo(Len(s))
  BY <1>5, <1>11
<1>13. Len(f[k]) < Len(q[k]) /\ g = [f EXCEPT ![k] = Append(@, q[k][Len(f[k]) + 1])]
  BY <1>3, <1>6, <1>7, <1>10, <1>12
<1>14. /\ f = [j \in Conn |-> [i \in 1..handled[j] |-> i]]
       /\ g = [j \in Conn |-> [i \in 1..handled[j] |-> i]]'
       /\ q = [j \in Conn |-> [i \in DOMAIN sent[j] |-> i]]
  BY <1>8, <1>11 DEF Asked, UpTo
<1>15. Promise!Execute(k)
  BY <1>4, <1>13, <1>14 DEF Promise!Execute, Opened
<1> QED
  BY <1>15 DEF Promise!Next

\* The response to the request last handled reaches the client.
LEMMA SeenAnswer ==
    ASSUME ThreadsInv, NEW k \in Conn, pc[k] = "write", end[k] # "gone",
           answers' = [answers EXCEPT ![k] = Append(answers[k], read[k])],
           sent' = sent, handled' = handled, Opened' = Opened
    PROVE  Promise!Next
<1>1. PICK a \in Seq(Nat) : a = answers[k]
  BY DEF ThreadsInv, Shape
<1>2. PICK n \in Nat : n = handled[k] /\ n = read[k] /\ Len(a) = n - 1
  BY <1>1 DEF ThreadsInv, ThreadInv, SessionInv, Shape, Busy, Active
<1>3. Len(a) \in Nat /\ n > 0
  BY <1>1, <1>2
<1>4. Len(UpTo(n)) = n /\ UpTo(n)[n] = n
  <2>1. n \in 1..n
    BY <1>3
  <2>2. Len(UpTo(n)) = n /\ \A i \in 1..n : UpTo(n)[i] = i
    BY UpToFacts
  <2> QED
    BY <2>1, <2>2, Zenon
<1>5. PICK f : f = [j \in Conn |-> UpTo(handled[j])]
  OBVIOUS
<1>6. f[k] = UpTo(n)
  BY <1>2, <1>5
<1>7. f[k][Len(a) + 1] = read[k] /\ Len(a) < Len(f[k])
  BY <1>2, <1>3, <1>4, <1>6
<1>8. f = [j \in Conn |-> [i \in 1..handled[j] |-> i]]
  BY <1>5 DEF UpTo
<1>9. answers' = [answers EXCEPT ![k] = Append(@, f[k][Len(@) + 1])] /\ Len(answers[k]) < Len(f[k])
  BY <1>1, <1>7
<1>10. Promise!Answer(k)
  BY <1>8, <1>9 DEF Promise!Answer, Opened
<1> QED
  BY <1>10 DEF Promise!Next

\* Whether Session sees a connection closed when its thread moves on.
LEMMA MovesTo ==
    ASSUME ThreadsInv, NEW k \in Conn, NEW where, Goto(k, where)
    PROVE  /\ where \notin {"closing", "closed"} /\ pc[k] \notin {"closing", "closed"} => Opened' = Opened
           /\ where \in {"closing", "closed"} /\ pc[k] \notin {"closing", "closed"} =>
                k \in Opened /\ Opened' = Opened \ {k}
           /\ where \in {"closing", "closed"} /\ pc[k] \in {"closing", "closed"} => Opened' = Opened
  BY DEF Goto, Opened, ThreadsInv, Shape

\* Every step is one of Session, or invisible.
LEMMA StepKeepsPromise == IInv /\ [Next]_vars => [Promise!Next]_(Promise!vars)
<1> SUFFICES ASSUME IInv, [Next]_vars PROVE Promise!Next \/ UNCHANGED Promise!vars
  OBVIOUS
<1>1. ThreadsInv
  BY DEF IInv
<1>2. CASE UNCHANGED vars
  <2>1. UNCHANGED <<sent, handled, answers, pc>>
    BY <1>2 DEF vars, clients, thread, history
  <2>2. Opened' = Opened
    BY <2>1 DEF Opened
  <2> QED
    BY <2>1, <2>2, Unseen
<1>3. SUFFICES ASSUME NEW k \in Conn, Accept(k) \/ Client(k) \/ Thread(k)
      PROVE  Promise!Next \/ UNCHANGED Promise!vars
  BY <1>2 DEF Next
<1>4. CASE Client(k)
  <2>1. CASE \E raw \in RawRequest[k] : Send(k, raw)
    <3>1. PICK raw \in RawRequest[k] : Send(k, raw)
      BY <2>1
    <3>2. /\ Len(sent[k]) < MaxRequests[k] /\ sent' = [sent EXCEPT ![k] = Append(sent[k], raw)]
          /\ UNCHANGED <<answers, handled, pc>>
      BY <3>1 DEF Send, thread, history
    <3>3. Opened' = Opened
      BY <3>2 DEF Opened
    <3> QED
      BY <1>1, <3>2, <3>3, SeenSend
  <2>2. CASE \E how \in {"eof", "gone"} : End(k, how)
    <3>1. UNCHANGED <<sent, handled, answers, pc>>
      BY <2>2 DEF End, thread, history
    <3>2. Opened' = Opened
      BY <3>1 DEF Opened
    <3> QED
      BY <3>1, <3>2, Unseen
  <2> QED
    BY <1>4, <2>1, <2>2 DEF Client
<1>5. CASE Accept(k) \/ ReadFrame(k)
  <2>1. pc[k] \in {"new", "read"} /\ UNCHANGED <<sent, handled, answers>> /\ \E where \in {"read", "handle"} : Goto(k, where)
    BY <1>5 DEF Accept, ReadFrame, clients, history
  <2>2. Opened' = Opened
    BY <1>1, <2>1, MovesTo
  <2> QED
    BY <2>1, <2>2, Unseen
<1>6. CASE ReadEof(k) \/ ReadThrows(k) \/ WriteThrows(k)
  <2>1. pc[k] \in {"read", "write"} /\ UNCHANGED <<sent, handled, answers>> /\ Goto(k, "closing")
    BY <1>6 DEF ReadEof, ReadThrows, WriteThrows, clients, history
  <2>2. k \in Opened /\ Opened' = Opened \ {k}
    BY <1>1, <2>1, MovesTo
  <2> QED
    BY <2>1, <2>2, SeenClose
<1>7. CASE PingOrRefuse(k) \/ GroupRequest(k) \/ Produce(k) \/ Fetch(k) \/ MetricsRequest(k)
  <2>1. /\ pc[k] = "handle" /\ handled' = [handled EXCEPT ![k] = @ + 1] /\ UNCHANGED <<sent, answers>>
        /\ \E where \in {"record", "load"} : Goto(k, where)
    BY <1>7 DEF PingOrRefuse, GroupRequest, Produce, Fetch, MetricsRequest, Handle, Respond, clients
  <2>2. Opened' = Opened
    BY <1>1, <2>1, MovesTo
  <2> QED
    BY <1>1, <2>1, <2>2, SeenExecute
<1>8. CASE ProduceThrows(k)
  <2>1. /\ pc[k] = "handle" /\ handled' = [handled EXCEPT ![k] = @ + 1] /\ UNCHANGED <<sent, answers>>
        /\ Goto(k, "closing")
    BY <1>8 DEF ProduceThrows, Handle, clients
  <2>2. Opened' = Opened \ {k}
    BY <1>1, <2>1, MovesTo
  <2> QED
    BY <1>1, <2>1, <2>2, SeenExecute
<1>9. CASE LoadCounter(k) \/ RecordCounter(k)
  <2>1. UNCHANGED <<sent, handled, answers, pc>>
    BY <1>9 DEF LoadCounter, RecordCounter, clients, history
  <2>2. Opened' = Opened
    BY <2>1 DEF Opened
  <2> QED
    BY <2>1, <2>2, Unseen
<1>10. CASE LoadSamples(k) \/ RecordSample(k)
  <2>1. pc[k] \in {"load", "record"} /\ UNCHANGED <<sent, handled, answers>> /\ \E where \in {"record", "write"} : Goto(k, where)
    BY <1>10 DEF LoadSamples, RecordSample, Respond, clients, history
  <2>2. Opened' = Opened
    BY <1>1, <2>1, MovesTo
  <2> QED
    BY <2>1, <2>2, Unseen
<1>11. CASE WriteFrame(k)
  <2>1. /\ pc[k] = "write" /\ UNCHANGED <<sent, handled>> /\ Goto(k, "read")
        /\ answers' = [answers EXCEPT ![k] = IF end[k] = "gone" THEN @ ELSE Append(@, read[k])]
    BY <1>11 DEF WriteFrame, history
  <2>2. Opened' = Opened
    BY <1>1, <2>1, MovesTo
  <2>3. CASE end[k] = "gone"
    <3>1. answers' = answers
      BY <1>1, <2>1, <2>3 DEF ThreadsInv, Shape
    <3> QED
      BY <2>1, <2>2, <3>1, Unseen
  <2>4. CASE end[k] # "gone"
    <3>1. answers' = [answers EXCEPT ![k] = Append(answers[k], read[k])]
      BY <2>1, <2>4
    <3> QED
      BY <1>1, <2>1, <2>2, <2>4, <3>1, SeenAnswer
  <2> QED
    BY <2>3, <2>4
<1>12. CASE Close(k)
  <2>1. pc[k] = "closing" /\ UNCHANGED <<sent, handled, answers>> /\ Goto(k, "closed")
    BY <1>12 DEF Close, clients, history
  <2>2. Opened' = Opened
    BY <1>1, <2>1, MovesTo
  <2> QED
    BY <2>1, <2>2, Unseen
<1> QED
  BY <1>3, <1>4, <1>5, <1>6, <1>7, <1>8, <1>9, <1>10, <1>11, <1>12, Zenon DEF Thread

\* The threads implement Session: the requests of a connection are carried out in the order
\* they were sent, each at most once, and answered in that order, without gaps.
THEOREM KeepsPromises == Spec => ImplementsSession
<1>1. Init => Promise!Init
  <2> SUFFICES ASSUME Init PROVE Promise!Init
    OBVIOUS
  <2>1. \A k \in Conn : Asked(k) = <<>> /\ UpTo(handled[k]) = <<>> /\ pc[k] \notin {"closing", "closed"}
    BY DEF Init, Asked, UpTo
  <2>2. \A k \in Conn : [i \in DOMAIN sent[k] |-> i] = <<>> /\ [i \in 1..handled[k] |-> i] = <<>>
    BY <2>1 DEF Asked, UpTo
  <2> QED
    BY <2>1, <2>2 DEF Init, Promise!Init
<1>2. IInv /\ [Next]_vars => [Promise!Next]_(Promise!vars)
  BY StepKeepsPromise
<1> QED
  BY <1>1, <1>2, Invariant, PTL DEF Spec, ImplementsSession, Promise!Spec
=============================================================================
