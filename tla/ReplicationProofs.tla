------------------------- MODULE ReplicationProofs --------------------------
(***************************************************************************)
(* TLAPS proofs about Replication, for any number of topic-partitions,     *)
(* leader threads, crashes and failing appends.                            *)
(*                                                                         *)
(* AckedOnBoth is established in two steps that other threads and crashes  *)
(* interleave with: the local append, after which the leader's log holds   *)
(* the record (LocalInv), and the follower's append, after which the       *)
(* answer on its way to the leader is OK (AnswerInv). The invariant also   *)
(* says which request a waiting thread waits for (PcInv), so that the      *)
(* answer it reads is the answer about the record it acknowledges.         *)
(***************************************************************************)
EXTENDS Replication, TLAPS

Waiting == {"progress", "catchupReply", "reply"}

\* What a thread holds at each location.
PcInv ==
    \A t \in Thread :
        /\ pc[t] # "idle" => req[t] \in Record
        /\ pc[t] \in Waiting <=> call[t] # None
        /\ pc[t] \in {"progress", "missing", "connect", "catchup", "catchupReply"} => cur[t] \in TP
        /\ pc[t] \in {"connect", "catchup", "catchupReply"} => batch[t] # <<>>
        /\ pc[t] = "progress" => call[t].type = "REPLICATION_PROGRESS"
        /\ pc[t] \in {"catchupReply", "reply"} =>
              call[t].type = "REPLICATE" /\ call[t].val \in Payload
        /\ pc[t] = "reply" => call[t].tp = req[t].tp /\ call[t].val = req[t].val

\* b recovers the record (p, v) from its log, or appended it behind an incomplete one.
Secured(b, p, v) == v \in atRisk \/ Has(log[b][p], v)

\* Behind its local append, the leader's log holds the record a thread produces.
LocalInv ==
    \A t \in Thread : pc[t] \in Locked => Secured("leader", req[t].tp, req[t].val)

\* A REPLICATE answered OK is in the follower's log.
AnswerInv ==
    \A t \in Thread :
        pc[t] \in {"catchupReply", "reply"} /\ call[t].reply = "OK" =>
            Secured("follower", call[t].tp, call[t].val)

AckInv ==
    \A a \in acked : \A b \in Broker : Secured(b, a.tp, a.val)

IInv == TypeOK /\ PcInv /\ LocalInv /\ AnswerInv /\ AckInv

\* What a step never does: lose a record from a log, or call a record safe again.
Grows ==
    /\ \A b \in Broker : \A p \in TP : \A v \in Payload : Has(log[b][p], v) => Has(log'[b][p], v)
    /\ atRisk \subseteq atRisk'

----------------------------------------------------------------------------
(* Logs *)

\* Appending a record to one log keeps the records of every log.
LEMMA LogAppended ==
    ASSUME BrokersOK, NEW b \in Broker, NEW p \in TP, NEW v \in Payload,
           log' = [log EXCEPT ![b][p] = Append(@, v)], atRisk' = atRisk
    PROVE  log' \in [Broker -> [TP -> Seq(Payload)]] /\ Grows /\ Has(log'[b][p], v)
<1>1. log \in [Broker -> [TP -> Seq(Payload)]] /\ Append(log[b][p], v) \in Seq(Payload)
  BY DEF BrokersOK
<1>2. log' \in [Broker -> [TP -> Seq(Payload)]]
  BY <1>1
<1>3. log'[b][p] = Append(log[b][p], v) /\ log[b][p] \in Seq(Payload)
  BY <1>1
<1>4. \A c \in Broker : \A q \in TP : (c = b /\ q = p) \/ log'[c][q] = log[c][q]
  BY <1>1
<1>5. /\ Len(log'[b][p]) = Len(log[b][p]) + 1
      /\ \A i \in 1..Len(log[b][p]) : log'[b][p][i] = log[b][p][i]
      /\ log'[b][p][Len(log[b][p]) + 1] = v
  BY <1>3
<1>6. Has(log'[b][p], v)
  <2>1. Len(log[b][p]) + 1 \in 1..Len(log'[b][p])
    BY <1>3, <1>5
  <2> QED
    BY <1>5, <2>1 DEF Has
<1>7. ASSUME NEW w \in Payload, Has(log[b][p], w) PROVE Has(log'[b][p], w)
  <2>1. PICK i \in 1..Len(log[b][p]) : log[b][p][i] = w
    BY <1>7 DEF Has
  <2>2. i \in 1..Len(log'[b][p]) /\ log'[b][p][i] = w
    BY <1>3, <1>5, <2>1
  <2> QED
    BY <2>2 DEF Has
<1>8. ASSUME NEW c \in Broker, NEW q \in TP, NEW w \in Payload, Has(log[c][q], w)
      PROVE  Has(log'[c][q], w)
  <2>1. CASE c = b /\ q = p
    BY <1>7, <1>8, <2>1
  <2>2. CASE log'[c][q] = log[c][q]
    BY <1>8, <2>2
  <2> QED
    BY <1>4, <2>1, <2>2
<1> QED
  BY <1>2, <1>6, <1>8 DEF Grows

\* TopicLog::append returned: the record is recoverable, or behind an incomplete one.
LEMMA PersistFacts ==
    ASSUME BrokersOK, GhostsOK, NEW b \in Broker, NEW p \in TP, NEW v \in Payload, Persist(b, p, v)
    PROVE  /\ log' \in [Broker -> [TP -> Seq(Payload)]]
           /\ torn' = torn
           /\ atRisk' \subseteq Payload
           /\ Grows
           /\ v \in atRisk' \/ Has(log'[b][p], v)
<1>1. CASE p \in torn[b]
  BY <1>1 DEF BrokersOK, GhostsOK, Persist, Grows
<1>2. CASE p \notin torn[b]
  BY <1>2, LogAppended DEF GhostsOK, Persist
<1> QED
  BY <1>1, <1>2

\* TopicLog::append threw: no log has lost a record.
LEMMA PersistFailsFacts ==
    ASSUME BrokersOK, NEW b \in Broker, NEW p \in TP, NEW v \in Payload, PersistFails(b, p, v)
    PROVE  /\ log' \in [Broker -> [TP -> Seq(Payload)]]
           /\ torn' \in [Broker -> SUBSET TP]
           /\ errors' \in [Broker -> Nat]
           /\ atRisk' = atRisk
           /\ Grows
<1>1. errors' \in [Broker -> Nat] /\ atRisk' = atRisk
  BY DEF BrokersOK, PersistFails
<1>2. torn' \in [Broker -> SUBSET TP]
  <2>1. torn[b] \cup {p} \in SUBSET TP
    BY DEF BrokersOK
  <2> QED
    BY <2>1 DEF BrokersOK, PersistFails
<1>3. CASE log' = log
  BY <1>1, <1>2, <1>3 DEF BrokersOK, Grows
<1>4. CASE log' = [log EXCEPT ![b][p] = Append(@, v)]
  BY <1>1, <1>2, <1>4, LogAppended
<1> QED
  BY <1>3, <1>4 DEF PersistFails

\* A step that loses no record keeps what is secured: for the PRODUCEs answered OK,
LEMMA AckKept ==
    ASSUME GhostsOK, AckInv, Grows, acked' = acked
    PROVE  AckInv'
  BY DEF GhostsOK, Record, AckInv, Grows, Secured

\* for the threads that stay behind their local append,
LEMMA LocalKept ==
    ASSUME PcInv, LocalInv, Grows,
           \A t \in Thread : pc'[t] \in Locked => pc[t] \in Locked /\ req'[t] = req[t]
    PROVE  LocalInv'
<1> SUFFICES ASSUME NEW t \in Thread, pc'[t] \in Locked
             PROVE  Secured("leader", req[t].tp, req[t].val)'
  BY DEF LocalInv
<1>1. req'[t] = req[t] /\ req[t].tp \in TP /\ req[t].val \in Payload
  BY DEF PcInv, Record, Locked
<1>2. Secured("leader", req[t].tp, req[t].val)
  BY DEF LocalInv
<1> QED
  BY <1>1, <1>2 DEF Grows, Secured, Broker

\* and for the threads whose answer stays the same.
LEMMA AnswerKept ==
    ASSUME PcInv, CallsOK, AnswerInv, Grows,
           \A t \in Thread :
               pc'[t] \in {"catchupReply", "reply"} /\ call'[t].reply = "OK" =>
                   pc[t] \in {"catchupReply", "reply"} /\ call'[t] = call[t]
    PROVE  AnswerInv'
<1> SUFFICES ASSUME NEW t \in Thread, pc'[t] \in {"catchupReply", "reply"}, call'[t].reply = "OK"
             PROVE  Secured("follower", call[t].tp, call[t].val)'
  BY DEF AnswerInv
<1>1. pc[t] \in {"catchupReply", "reply"} /\ call'[t] = call[t]
  OBVIOUS
<1>2. call[t] \in Call /\ call[t].val \in Payload
  BY <1>1 DEF PcInv, CallsOK, Waiting
<1>3. call[t].tp \in TP
  BY <1>2 DEF Call
<1>4. Secured("follower", call[t].tp, call[t].val)
  BY <1>1 DEF AnswerInv
<1> QED
  BY <1>1, <1>2, <1>3, <1>4 DEF Grows, Secured, Broker

\* An answer changes neither what a thread waits for nor where it is.
LEMMA PcKept ==
    ASSUME PcInv, UNCHANGED <<pc, req, cur, batch>>,
           \A t \in Thread : \/ call'[t] = call[t]
                            \/ /\ call[t] # None
                               /\ call'[t] # None
                               /\ call'[t].type = call[t].type
                               /\ call'[t].tp = call[t].tp
                               /\ call'[t].val = call[t].val
    PROVE  PcInv'
  BY DEF PcInv

----------------------------------------------------------------------------
(* The inductive invariant *)

LEMMA InitIInv == Init => IInv
<1> SUFFICES ASSUME Init PROVE IInv
  OBVIOUS
<1>1. <<>> \in Seq(Payload)
  OBVIOUS
<1>2. TypeOK
  BY <1>1, NoneAssumption DEF Init, TypeOK, BrokersOK, ThreadsOK, MutexOK, CallsOK, GhostsOK,
     Location, Locked
<1>3. PcInv /\ LocalInv /\ AnswerInv /\ AckInv
  BY NoneAssumption DEF Init, PcInv, LocalInv, AnswerInv, AckInv, Waiting, Locked
<1> QED
  BY <1>2, <1>3 DEF IInv

\* Every step of a thread, of the follower and of the environment preserves it.
LEMMA NextIInv == IInv /\ [Next]_vars => IInv'
<1> SUFFICES ASSUME IInv, [Next]_vars PROVE IInv'
  OBVIOUS
<1> USE NoneAssumption DEF IInv
<1>1. ASSUME NEW t \in Thread, NEW p \in TP, Produce(t, p) PROVE IInv'
  <2>1. [tp |-> p, val |-> produced + 1] \in Record
    BY DEF TypeOK, GhostsOK, Record, Payload
  <2>BrokersOK. BrokersOK'
    BY <1>1 DEF TypeOK, BrokersOK, Produce, Goto, brokers
  <2>ThreadsOK. ThreadsOK'
    BY <1>1, <2>1 DEF TypeOK, ThreadsOK, Location, Produce, Goto, brokers
  <2>MutexOK. MutexOK'
    BY <1>1 DEF TypeOK, ThreadsOK, MutexOK, Locked, Produce, Goto
  <2>CallsOK. CallsOK'
    BY <1>1 DEF TypeOK, CallsOK, ThreadsOK, PcInv, Produce, Goto
  <2>GhostsOK. GhostsOK'
    BY <1>1 DEF TypeOK, GhostsOK, ThreadsOK, PcInv, Produce, Goto, brokers
  <2>t. TypeOK'
    BY <2>BrokersOK, <2>ThreadsOK, <2>MutexOK, <2>CallsOK, <2>GhostsOK DEF TypeOK
  <2>p. PcInv'
    BY <1>1, <2>1 DEF TypeOK, ThreadsOK, CallsOK, PcInv, Waiting, Produce, Goto
  <2>g. Grows
    BY <1>1 DEF Grows, Produce, brokers
  <2>l. LocalInv'
    BY <1>1, <2>g, LocalKept DEF TypeOK, ThreadsOK, Locked, Produce, Goto
  <2>a. AnswerInv'
    BY <1>1, <2>g, AnswerKept DEF TypeOK, ThreadsOK, PcInv, Waiting, Produce, Goto
  <2>k. AckInv'
    BY <1>1, <2>g, AckKept DEF TypeOK, Produce, Goto
  <2> QED
    BY <2>t, <2>p, <2>l, <2>a, <2>k
<1>2. ASSUME NEW t \in Thread, Collect(t) PROVE IInv'
  <2>BrokersOK. BrokersOK'
    BY <1>2 DEF TypeOK, BrokersOK, Collect, Goto, brokers
  <2>ThreadsOK. ThreadsOK'
    BY <1>2 DEF TypeOK, ThreadsOK, Location, Collect, Goto
  <2>MutexOK. MutexOK'
    BY <1>2 DEF TypeOK, ThreadsOK, MutexOK, Locked, Collect, Goto
  <2>CallsOK. CallsOK'
    BY <1>2 DEF TypeOK, CallsOK, ThreadsOK, PcInv, Collect, Goto
  <2>GhostsOK. GhostsOK'
    BY <1>2 DEF TypeOK, GhostsOK, ThreadsOK, PcInv, Collect, Goto, brokers, ghosts
  <2>t. TypeOK'
    BY <2>BrokersOK, <2>ThreadsOK, <2>MutexOK, <2>CallsOK, <2>GhostsOK DEF TypeOK
  <2>p. PcInv'
    BY <1>2 DEF TypeOK, CallsOK, PcInv, Waiting, Collect, Goto
  <2>g. Grows
    BY <1>2 DEF Grows, Collect, brokers, ghosts
  <2>l. LocalInv'
    BY <1>2, <2>g, LocalKept DEF TypeOK, Locked, Collect, Goto
  <2>a. AnswerInv'
    BY <1>2, <2>g, AnswerKept DEF TypeOK, PcInv, Waiting, Collect, Goto
  <2>k. AckInv'
    BY <1>2, <2>g, AckKept DEF TypeOK, Collect, Goto, ghosts
  <2> QED
    BY <2>t, <2>p, <2>l, <2>a, <2>k
<1>3. ASSUME NEW t \in Thread, Query(t) PROVE IInv'
  <2>BrokersOK. BrokersOK'
    BY <1>3 DEF TypeOK, BrokersOK, Query, Goto, brokers, ghosts
  <2>ThreadsOK. ThreadsOK'
    BY <1>3 DEF TypeOK, ThreadsOK, Location, Query, Goto
  <2>MutexOK. MutexOK'
    BY <1>3 DEF TypeOK, MutexOK, ThreadsOK, Location, Locked, Query, Goto, brokers, ghosts
  <2>CallsOK. CallsOK'
    BY <1>3 DEF TypeOK, CallsOK, ThreadsOK, PcInv, Call, Query, Goto
  <2>GhostsOK. GhostsOK'
    BY <1>3 DEF TypeOK, GhostsOK, ThreadsOK, PcInv, Query, Goto, brokers, ghosts
  <2>t. TypeOK'
    BY <2>BrokersOK, <2>ThreadsOK, <2>MutexOK, <2>CallsOK, <2>GhostsOK DEF TypeOK
  <2>p. PcInv'
    BY <1>3 DEF TypeOK, ThreadsOK, CallsOK, Call, PcInv, Waiting, Query, Goto
  <2>g. Grows
    BY <1>3 DEF Grows, Query, brokers, ghosts
  <2>l. LocalInv'
    BY <1>3, <2>g, LocalKept DEF TypeOK, ThreadsOK, Locked, Query, Goto
  <2>a. AnswerInv'
    BY <1>3, <2>g, AnswerKept DEF TypeOK, ThreadsOK, CallsOK, PcInv, Waiting, Query, Goto
  <2>k. AckInv'
    BY <1>3, <2>g, AckKept DEF TypeOK, Query, Goto, ghosts
  <2> QED
    BY <2>t, <2>p, <2>l, <2>a, <2>k
<1>4. ASSUME NEW t \in Thread, GotProgress(t) PROVE IInv'
  <2>1. call[t] \in Call
    BY <1>4 DEF TypeOK, CallsOK, PcInv, Waiting, GotProgress
  <2>2. call[t].off \in Nat
    BY <2>1 DEF Call
  <2>BrokersOK. BrokersOK'
    BY <1>4 DEF TypeOK, BrokersOK, GotProgress, Goto, brokers
  <2>ThreadsOK. ThreadsOK'
    BY <1>4, <2>2 DEF TypeOK, ThreadsOK, Location, GotProgress, Goto, brokers, ghosts
  <2>MutexOK. MutexOK'
    BY <1>4 DEF TypeOK, ThreadsOK, MutexOK, Locked, GotProgress, Goto
  <2>CallsOK. CallsOK'
    BY <1>4 DEF TypeOK, CallsOK, ThreadsOK, PcInv, GotProgress, Goto
  <2>GhostsOK. GhostsOK'
    BY <1>4 DEF TypeOK, GhostsOK, GotProgress, Goto, ghosts
  <2>t. TypeOK'
    BY <2>BrokersOK, <2>ThreadsOK, <2>MutexOK, <2>CallsOK, <2>GhostsOK DEF TypeOK
  <2>p. PcInv'
    BY <1>4 DEF TypeOK, ThreadsOK, CallsOK, PcInv, Waiting, GotProgress, Goto
  <2>g. Grows
    BY <1>4 DEF Grows, GotProgress, brokers, ghosts
  <2>l. LocalInv'
    BY <1>4, <2>g, LocalKept DEF TypeOK, ThreadsOK, Locked, GotProgress, Goto
  <2>a. AnswerInv'
    BY <1>4, <2>g, AnswerKept DEF TypeOK, ThreadsOK, CallsOK, PcInv, Waiting, GotProgress, Goto
  <2>k. AckInv'
    BY <1>4, <2>g, AckKept DEF TypeOK, GotProgress, Goto, ghosts
  <2> QED
    BY <2>t, <2>p, <2>l, <2>a, <2>k
<1>5. ASSUME NEW t \in Thread, Missing(t) PROVE IInv'
  <2> DEFINE missing == MissingRecords(mem["leader"][cur[t]], off[t])
  <2>1. mem["leader"][cur[t]] \in Seq(Payload) /\ off[t] \in Nat
    BY <1>5 DEF TypeOK, BrokersOK, ThreadsOK, Broker, PcInv, Missing
  <2>2. missing \in Seq(Payload)
    BY <2>1 DEF MissingRecords
  <2>3. \/ missing = <<>> /\ Visited(t) /\ UNCHANGED batch
        \/ /\ missing # <<>>
           /\ batch' = [batch EXCEPT ![t] = missing]
           /\ Goto(t, "connect")
           /\ UNCHANGED <<todo, cur, off>>
    BY <1>5 DEF Missing
  <2>4. UNCHANGED <<brokers, lock, req, conn, call, orphans, ghosts, crashes, errors>>
    BY <1>5 DEF Missing
  <2>5. pc[t] = "missing"
    BY <1>5 DEF Missing
  <2> HIDE DEF missing
  <2>BrokersOK. BrokersOK'
    BY <2>4 DEF TypeOK, BrokersOK, brokers
  <2>ThreadsOK. ThreadsOK'
    <3>1. todo[t] \ {cur[t]} \in SUBSET TP
      BY DEF TypeOK, ThreadsOK
    <3>2. CASE Visited(t) /\ UNCHANGED batch
      BY <2>4, <3>1, <3>2 DEF TypeOK, ThreadsOK, Location, Visited, Goto
    <3>3. CASE /\ batch' = [batch EXCEPT ![t] = missing]
               /\ Goto(t, "connect")
               /\ UNCHANGED <<todo, cur, off>>
      BY <2>2, <2>4, <3>3 DEF TypeOK, ThreadsOK, Location, Goto
    <3> QED
      BY <2>3, <3>2, <3>3
  <2>MutexOK. MutexOK'
    BY <2>3, <2>4, <2>5, ZenonT(40) DEF TypeOK, ThreadsOK, MutexOK, Location, Locked, Visited, Goto
  <2>CallsOK. CallsOK'
    BY <2>4 DEF TypeOK, CallsOK
  <2>GhostsOK. GhostsOK'
    BY <2>4 DEF TypeOK, GhostsOK, ghosts
  <2>t. TypeOK'
    BY <2>BrokersOK, <2>ThreadsOK, <2>MutexOK, <2>CallsOK, <2>GhostsOK DEF TypeOK
  <2>p. PcInv'
    BY <2>3, <2>4, <2>5 DEF TypeOK, ThreadsOK, PcInv, Waiting, Visited, Goto
  <2>g. Grows
    BY <1>5 DEF Grows, Missing, Visited, brokers, ghosts
  <2>l. LocalInv'
    BY <2>3, <2>4, <2>g, LocalKept DEF TypeOK, ThreadsOK, Locked, Visited, Goto
  <2>a. AnswerInv'
    BY <2>3, <2>4, <2>g, AnswerKept DEF TypeOK, ThreadsOK, Visited, Goto
  <2>k. AckInv'
    BY <1>5, <2>g, AckKept DEF TypeOK, Missing, Goto, Visited, ghosts
  <2> QED
    BY <2>t, <2>p, <2>l, <2>a, <2>k
<1>6. ASSUME NEW t \in Thread, Connect(t) PROVE IInv'
  <2>BrokersOK. BrokersOK'
    BY <1>6 DEF TypeOK, BrokersOK, Connect, Goto, brokers, ghosts
  <2>ThreadsOK. ThreadsOK'
    BY <1>6 DEF TypeOK, ThreadsOK, Location, Connect, Goto
  <2>MutexOK. MutexOK'
    BY <1>6 DEF TypeOK, ThreadsOK, MutexOK, Locked, Connect, Goto
  <2>CallsOK. CallsOK'
    BY <1>6 DEF TypeOK, CallsOK, ThreadsOK, PcInv, Connect, Goto
  <2>GhostsOK. GhostsOK'
    BY <1>6 DEF TypeOK, GhostsOK, ThreadsOK, PcInv, Connect, Goto, brokers, ghosts
  <2>t. TypeOK'
    BY <2>BrokersOK, <2>ThreadsOK, <2>MutexOK, <2>CallsOK, <2>GhostsOK DEF TypeOK
  <2>p. PcInv'
    BY <1>6 DEF TypeOK, CallsOK, PcInv, Waiting, Connect, Goto
  <2>g. Grows
    BY <1>6 DEF Grows, Connect, brokers, ghosts
  <2>l. LocalInv'
    BY <1>6, <2>g, LocalKept DEF TypeOK, Locked, Connect, Goto
  <2>a. AnswerInv'
    BY <1>6, <2>g, AnswerKept DEF TypeOK, PcInv, Waiting, Connect, Goto
  <2>k. AckInv'
    BY <1>6, <2>g, AckKept DEF TypeOK, Connect, Goto, ghosts
  <2> QED
    BY <2>t, <2>p, <2>l, <2>a, <2>k
<1>7. ASSUME NEW t \in Thread, CatchUp(t) PROVE IInv'
  <2> DEFINE c == Replication(cur[t], off[t], Head(batch[t]))
  <2>1. cur[t] \in TP /\ off[t] \in Nat /\ Head(batch[t]) \in Payload
    BY <1>7 DEF TypeOK, ThreadsOK, PcInv, CatchUp
  <2>2. c \in Call
    BY <2>1 DEF Replication, Call
  <2>3. c.type = "REPLICATE" /\ c.val = Head(batch[t]) /\ c.reply = "none"
    BY DEF Replication
  <2>4. /\ call' = [call EXCEPT ![t] = c]
        /\ pc' = [pc EXCEPT ![t] = "catchupReply"]
        /\ UNCHANGED <<req, cur, batch, orphans>>
    BY <1>7 DEF CatchUp, Goto
  <2> HIDE DEF c
  <2>BrokersOK. BrokersOK'
    BY <1>7 DEF TypeOK, BrokersOK, CatchUp, Replication, Goto, brokers
  <2>ThreadsOK. ThreadsOK'
    BY <1>7 DEF TypeOK, ThreadsOK, Location, CatchUp, Goto
  <2>MutexOK. MutexOK'
    BY <1>7 DEF TypeOK, ThreadsOK, MutexOK, Locked, CatchUp, Goto
  <2>CallsOK. CallsOK'
    BY <2>2, <2>4 DEF TypeOK, CallsOK
  <2>GhostsOK. GhostsOK'
    BY <1>7 DEF TypeOK, GhostsOK, CatchUp, Goto, ghosts
  <2>t. TypeOK'
    BY <2>BrokersOK, <2>ThreadsOK, <2>MutexOK, <2>CallsOK, <2>GhostsOK DEF TypeOK
  <2>p. PcInv'
    BY <1>7, <2>1, <2>2, <2>3, <2>4 DEF TypeOK, ThreadsOK, CallsOK, PcInv, Waiting, CatchUp
  <2>g. Grows
    BY <1>7 DEF Grows, CatchUp, brokers, ghosts
  <2>l. LocalInv'
    BY <1>7, <2>g, LocalKept DEF TypeOK, ThreadsOK, Locked, CatchUp, Goto
  <2>a. AnswerInv'
    BY <2>3, <2>4, <2>g, AnswerKept DEF TypeOK, ThreadsOK, CallsOK
  <2>k. AckInv'
    BY <1>7, <2>g, AckKept DEF TypeOK, CatchUp, Goto, ghosts
  <2> QED
    BY <2>t, <2>p, <2>l, <2>a, <2>k
<1>8. ASSUME NEW t \in Thread, CaughtUp(t) PROVE IInv'
  <2>1. batch[t] \in Seq(Payload) /\ batch[t] # <<>> /\ off[t] \in Nat
    BY <1>8 DEF TypeOK, ThreadsOK, PcInv, CaughtUp
  <2>2. Tail(batch[t]) \in Seq(Payload) /\ off[t] + 1 \in Nat
    BY <2>1
  <2>BrokersOK. BrokersOK'
    BY <1>8 DEF TypeOK, BrokersOK, CaughtUp, brokers
  <2>ThreadsOK. ThreadsOK'
    <3>1. /\ todo' = todo \/ todo' = [todo EXCEPT ![t] = todo[t] \ {cur[t]}]
          /\ cur' = cur \/ cur' = [cur EXCEPT ![t] = None]
          /\ off' = [off EXCEPT ![t] = 0] \/ off' = [off EXCEPT ![t] = off[t] + 1]
          /\ pc' = [pc EXCEPT ![t] = "sync"] \/ pc' = [pc EXCEPT ![t] = "catchup"]
          /\ conn' = conn \/ conn' = conn \ {t}
          /\ batch' = [batch EXCEPT ![t] = Tail(batch[t])]
          /\ req' = req
      BY <1>8 DEF CaughtUp, Visited, Goto
    <3>2. todo[t] \ {cur[t]} \in SUBSET TP /\ conn \ {t} \subseteq Thread
      BY DEF TypeOK, ThreadsOK
    <3>3. batch' \in [Thread -> Seq(Payload)]
      <4>1. batch \in [Thread -> Seq(Payload)] /\ batch' = [batch EXCEPT ![t] = Tail(batch[t])]
        BY <3>1 DEF TypeOK, ThreadsOK
      <4> QED
        BY <2>2, <4>1
    <3>4. off' \in [Thread -> Nat]
      <4>1. off \in [Thread -> Nat] /\ (off' = [off EXCEPT ![t] = 0] \/ off' = [off EXCEPT ![t] = off[t] + 1])
        BY <3>1 DEF TypeOK, ThreadsOK
      <4> QED
        BY <2>2, <4>1
    <3>5. todo' \in [Thread -> SUBSET TP]
      <4>1. todo \in [Thread -> SUBSET TP] /\ (todo' = todo \/ todo' = [todo EXCEPT ![t] = todo[t] \ {cur[t]}])
        BY <3>1 DEF TypeOK, ThreadsOK
      <4> QED
        BY <3>2, <4>1
    <3>6. cur' \in [Thread -> TP \cup {None}]
      BY <3>1 DEF TypeOK, ThreadsOK
    <3>7. pc' \in [Thread -> Location] /\ req' \in [Thread -> Record \cup {None}] /\ conn' \subseteq Thread
      BY <3>1, <3>2 DEF TypeOK, ThreadsOK, Location
    <3> QED
      BY <3>3, <3>4, <3>5, <3>6, <3>7 DEF ThreadsOK
  <2>MutexOK. MutexOK'
    BY <1>8 DEF TypeOK, ThreadsOK, MutexOK, Locked, CaughtUp, Goto, Visited
  <2>CallsOK. CallsOK'
    BY <1>8 DEF TypeOK, CallsOK, ThreadsOK, PcInv, CaughtUp, Goto, Visited
  <2>GhostsOK. GhostsOK'
    BY <1>8 DEF TypeOK, GhostsOK, CaughtUp, Goto, Visited, ghosts
  <2>t. TypeOK'
    BY <2>BrokersOK, <2>ThreadsOK, <2>MutexOK, <2>CallsOK, <2>GhostsOK DEF TypeOK
  <2>p. PcInv'
    BY <1>8 DEF TypeOK, ThreadsOK, CallsOK, PcInv, Waiting, CaughtUp, Goto, Visited
  <2>g. Grows
    BY <1>8 DEF Grows, CaughtUp, Visited, brokers, ghosts
  <2>l. LocalInv'
    BY <1>8, <2>g, LocalKept DEF TypeOK, ThreadsOK, Locked, CaughtUp, Goto, Visited
  <2>a. AnswerInv'
    BY <1>8, <2>g, AnswerKept DEF TypeOK, ThreadsOK, CallsOK, PcInv, Waiting, CaughtUp, Goto,
       Visited
  <2>k. AckInv'
    BY <1>8, <2>g, AckKept DEF TypeOK, CaughtUp, Goto, Visited, ghosts
  <2> QED
    BY <2>t, <2>p, <2>l, <2>a, <2>k
<1>9. ASSUME NEW t \in Thread, SyncDone(t) PROVE IInv'
  <2>BrokersOK. BrokersOK'
    BY <1>9 DEF TypeOK, BrokersOK, SyncDone, Goto, brokers, ghosts
  <2>ThreadsOK. ThreadsOK'
    BY <1>9 DEF TypeOK, ThreadsOK, Location, SyncDone, Goto
  <2>MutexOK. MutexOK'
    BY <1>9 DEF TypeOK, ThreadsOK, MutexOK, Locked, SyncDone, Goto
  <2>CallsOK. CallsOK'
    BY <1>9 DEF TypeOK, CallsOK, ThreadsOK, PcInv, SyncDone, Goto
  <2>GhostsOK. GhostsOK'
    BY <1>9 DEF TypeOK, GhostsOK, ThreadsOK, PcInv, SyncDone, Goto, brokers, ghosts
  <2>t. TypeOK'
    BY <2>BrokersOK, <2>ThreadsOK, <2>MutexOK, <2>CallsOK, <2>GhostsOK DEF TypeOK
  <2>p. PcInv'
    BY <1>9 DEF TypeOK, CallsOK, PcInv, Waiting, SyncDone, Goto
  <2>g. Grows
    BY <1>9 DEF Grows, SyncDone, brokers, ghosts
  <2>l. LocalInv'
    BY <1>9, <2>g, LocalKept DEF TypeOK, Locked, SyncDone, Goto
  <2>a. AnswerInv'
    BY <1>9, <2>g, AnswerKept DEF TypeOK, PcInv, Waiting, SyncDone, Goto
  <2>k. AckInv'
    BY <1>9, <2>g, AckKept DEF TypeOK, SyncDone, Goto, ghosts
  <2> QED
    BY <2>t, <2>p, <2>l, <2>a, <2>k
<1>10. ASSUME NEW t \in Thread, SyncFails(t) PROVE IInv'
  <2>BrokersOK. BrokersOK'
    BY <1>10 DEF TypeOK, BrokersOK, SyncFails, Goto, brokers, ghosts
  <2>ThreadsOK. ThreadsOK'
    BY <1>10 DEF TypeOK, ThreadsOK, Location, SyncFails, Goto
  <2>MutexOK. MutexOK'
    BY <1>10 DEF TypeOK, ThreadsOK, MutexOK, Locked, SyncFails, Goto
  <2>CallsOK. CallsOK'
    BY <1>10 DEF TypeOK, CallsOK, ThreadsOK, PcInv, SyncFails, Goto
  <2>GhostsOK. GhostsOK'
    BY <1>10 DEF TypeOK, GhostsOK, SyncFails, Goto, ghosts
  <2>t. TypeOK'
    BY <2>BrokersOK, <2>ThreadsOK, <2>MutexOK, <2>CallsOK, <2>GhostsOK DEF TypeOK
  <2>p. PcInv'
    BY <1>10 DEF TypeOK, ThreadsOK, CallsOK, PcInv, Waiting, SyncFails, Goto
  <2>g. Grows
    BY <1>10 DEF Grows, SyncFails, brokers, ghosts
  <2>l. LocalInv'
    BY <1>10, <2>g, LocalKept DEF TypeOK, ThreadsOK, Locked, SyncFails, Goto
  <2>a. AnswerInv'
    BY <1>10, <2>g, AnswerKept DEF TypeOK, ThreadsOK, CallsOK, PcInv, Waiting, SyncFails, Goto
  <2>k. AckInv'
    BY <1>10, <2>g, AckKept DEF TypeOK, SyncFails, Goto, ghosts
  <2> QED
    BY <2>t, <2>p, <2>l, <2>a, <2>k
<1>11. ASSUME NEW t \in Thread, AppendLocal(t) PROVE IInv'
  <2>1. req[t] \in Record /\ pc[t] = "append" /\ "leader" \in Broker
    BY <1>11 DEF PcInv, AppendLocal, Broker
  <2>2. req[t].tp \in TP /\ req[t].val \in Payload
    BY <2>1 DEF Record
  <2>3. Persist("leader", req[t].tp, req[t].val)
    BY <1>11 DEF AppendLocal
  <2>4. /\ log' \in [Broker -> [TP -> Seq(Payload)]]
        /\ torn' = torn
        /\ atRisk' \subseteq Payload
        /\ Grows
        /\ req[t].val \in atRisk' \/ Has(log'["leader"][req[t].tp], req[t].val)
    BY <2>1, <2>2, <2>3, PersistFacts DEF TypeOK
  <2>BrokersOK. BrokersOK'
    <3>1. Append(mem["leader"][req[t].tp], req[t].val) \in Seq(Payload)
      BY <2>1, <2>2 DEF TypeOK, BrokersOK
    <3>2. mem' \in [Broker -> [TP -> Seq(Payload)]]
      BY <1>11, <3>1 DEF TypeOK, BrokersOK, AppendLocal
    <3> QED
      BY <1>11, <2>4, <3>2 DEF TypeOK, BrokersOK, AppendLocal
  <2>ThreadsOK. ThreadsOK'
    BY <1>11 DEF TypeOK, ThreadsOK, Location, AppendLocal, Goto
  <2>MutexOK. MutexOK'
    BY <1>11 DEF TypeOK, ThreadsOK, MutexOK, Locked, AppendLocal, Goto
  <2>CallsOK. CallsOK'
    BY <1>11 DEF TypeOK, CallsOK, ThreadsOK, PcInv, AppendLocal, Goto
  <2>GhostsOK. GhostsOK'
    BY <1>11, <2>4 DEF TypeOK, GhostsOK, AppendLocal
  <2>t. TypeOK'
    BY <2>BrokersOK, <2>ThreadsOK, <2>MutexOK, <2>CallsOK, <2>GhostsOK DEF TypeOK
  <2>p. PcInv'
    BY <1>11 DEF TypeOK, CallsOK, PcInv, Waiting, AppendLocal, Goto
  <2>g. Grows
    BY <2>4
  <2>l. LocalInv'
    <3>1. req' = req /\ pc' = [pc EXCEPT ![t] = "replicate"]
      BY <1>11 DEF AppendLocal, Goto
    <3> SUFFICES ASSUME NEW u \in Thread, pc'[u] \in Locked
                 PROVE  Secured("leader", req[u].tp, req[u].val)'
      BY DEF LocalInv
    <3>2. CASE u = t
      BY <2>4, <3>1, <3>2 DEF Secured
    <3>3. CASE u # t
      <4>1. pc[u] \in Locked /\ req[u].tp \in TP /\ req[u].val \in Payload
        BY <3>1, <3>3 DEF TypeOK, PcInv, Record, Locked
      <4> QED
        BY <2>1, <2>4, <3>1, <4>1 DEF LocalInv, Grows, Secured
    <3> QED
      BY <3>2, <3>3
  <2>a. AnswerInv'
    BY <1>11, <2>4, AnswerKept DEF TypeOK, AppendLocal, Goto
  <2>k. AckInv'
    BY <1>11, <2>4, AckKept DEF TypeOK, AppendLocal
  <2> QED
    BY <2>t, <2>p, <2>l, <2>a, <2>k
<1>12. ASSUME NEW t \in Thread, Replicate(t) PROVE IInv'
  <2> DEFINE c == Replication(req[t].tp, off[t], req[t].val)
  <2>1. req[t] \in Record /\ off[t] \in Nat
    BY <1>12 DEF TypeOK, ThreadsOK, PcInv, Replicate
  <2>2. c \in Call /\ req[t].val \in Payload
    BY <2>1 DEF Record, Replication, Call
  <2>3. c.type = "REPLICATE" /\ c.tp = req[t].tp /\ c.val = req[t].val /\ c.reply = "none"
    BY DEF Replication
  <2>4. /\ call' = [call EXCEPT ![t] = c]
        /\ pc' = [pc EXCEPT ![t] = "reply"]
        /\ UNCHANGED <<req, cur, batch, orphans>>
    BY <1>12 DEF Replicate, Goto
  <2> HIDE DEF c
  <2>BrokersOK. BrokersOK'
    BY <1>12 DEF TypeOK, BrokersOK, Replicate, Replication, Goto, brokers
  <2>ThreadsOK. ThreadsOK'
    BY <1>12 DEF TypeOK, ThreadsOK, Location, Replicate, Goto
  <2>MutexOK. MutexOK'
    BY <1>12 DEF TypeOK, ThreadsOK, MutexOK, Locked, Replicate, Goto
  <2>CallsOK. CallsOK'
    BY <2>2, <2>4 DEF TypeOK, CallsOK
  <2>GhostsOK. GhostsOK'
    BY <1>12 DEF TypeOK, GhostsOK, Replicate, Goto, ghosts
  <2>t. TypeOK'
    BY <2>BrokersOK, <2>ThreadsOK, <2>MutexOK, <2>CallsOK, <2>GhostsOK DEF TypeOK
  <2>p. PcInv'
    BY <1>12, <2>1, <2>2, <2>3, <2>4 DEF TypeOK, ThreadsOK, CallsOK, PcInv, Waiting, Replicate
  <2>g. Grows
    BY <1>12 DEF Grows, Replicate, brokers, ghosts
  <2>l. LocalInv'
    BY <1>12, <2>g, LocalKept DEF TypeOK, ThreadsOK, Locked, Replicate, Goto
  <2>a. AnswerInv'
    BY <2>3, <2>4, <2>g, AnswerKept DEF TypeOK, ThreadsOK, CallsOK
  <2>k. AckInv'
    BY <1>12, <2>g, AckKept DEF TypeOK, Replicate, Goto, ghosts
  <2> QED
    BY <2>t, <2>p, <2>l, <2>a, <2>k
<1>13. ASSUME NEW t \in Thread, ReplyOk(t) PROVE IInv'
  <2>1. req[t] \in Record /\ Secured("leader", req[t].tp, req[t].val)
    BY <1>13 DEF PcInv, LocalInv, Locked, ReplyOk
  <2>2. Secured("follower", req[t].tp, req[t].val)
    BY <1>13 DEF PcInv, AnswerInv, ReplyOk
  <2>BrokersOK. BrokersOK'
    BY <1>13 DEF TypeOK, BrokersOK, ReplyOk, Return, Goto, brokers
  <2>ThreadsOK. ThreadsOK'
    BY <1>13 DEF TypeOK, ThreadsOK, Location, ReplyOk, Goto, Return
  <2>MutexOK. MutexOK'
    BY <1>13 DEF TypeOK, ThreadsOK, MutexOK, Locked, ReplyOk, Goto, Return
  <2>CallsOK. CallsOK'
    BY <1>13 DEF TypeOK, CallsOK, ThreadsOK, PcInv, ReplyOk, Goto, Return
  <2>GhostsOK. GhostsOK'
    BY <1>13, <2>1 DEF TypeOK, GhostsOK, ReplyOk, Return, brokers
  <2>t. TypeOK'
    BY <2>BrokersOK, <2>ThreadsOK, <2>MutexOK, <2>CallsOK, <2>GhostsOK DEF TypeOK
  <2>p. PcInv'
    BY <1>13 DEF TypeOK, ThreadsOK, CallsOK, PcInv, Waiting, ReplyOk, Goto, Return
  <2>g. Grows
    BY <1>13 DEF Grows, ReplyOk, Return, brokers
  <2>l. LocalInv'
    BY <1>13, <2>g, LocalKept DEF TypeOK, ThreadsOK, Locked, ReplyOk, Goto, Return
  <2>a. AnswerInv'
    BY <1>13, <2>g, AnswerKept DEF TypeOK, ThreadsOK, CallsOK, PcInv, Waiting, ReplyOk, Goto, Return
  <2>k. AckInv'
    <3>0. UNCHANGED <<log, atRisk>>
      BY <1>13 DEF ReplyOk, brokers
    <3> SUFFICES ASSUME NEW a \in acked', NEW b \in Broker PROVE Secured(b, a.tp, a.val)
      BY <3>0 DEF AckInv, Secured
    <3>1. a \in acked \/ a = req[t]
      BY <1>13 DEF ReplyOk
    <3> QED
      BY <2>1, <2>2, <3>1 DEF AckInv, Broker
  <2> QED
    BY <2>t, <2>p, <2>l, <2>a, <2>k
<1>14. ASSUME NEW t \in Thread, ReplyError(t) PROVE IInv'
  <2>BrokersOK. BrokersOK'
    BY <1>14 DEF TypeOK, BrokersOK, ReplyError, Goto, Return, CannotReplicate, brokers
  <2>ThreadsOK. ThreadsOK'
    BY <1>14 DEF TypeOK, ThreadsOK, Location, ReplyError, Goto, Return, CannotReplicate
  <2>MutexOK. MutexOK'
    BY <1>14 DEF TypeOK, ThreadsOK, MutexOK, Locked, ReplyError, Goto, Return, CannotReplicate
  <2>CallsOK. CallsOK'
    BY <1>14 DEF TypeOK, CallsOK, ThreadsOK, PcInv, ReplyError, Goto, Return, CannotReplicate
  <2>GhostsOK. GhostsOK'
    BY <1>14 DEF TypeOK, GhostsOK, ReplyError, Goto, Return, CannotReplicate
  <2>t. TypeOK'
    BY <2>BrokersOK, <2>ThreadsOK, <2>MutexOK, <2>CallsOK, <2>GhostsOK DEF TypeOK
  <2>p. PcInv'
    BY <1>14 DEF TypeOK, ThreadsOK, CallsOK, PcInv, Waiting, ReplyError, Goto, Return
  <2>g. Grows
    BY <1>14 DEF Grows, ReplyError, Return, brokers
  <2>l. LocalInv'
    BY <1>14, <2>g, LocalKept DEF TypeOK, ThreadsOK, Locked, ReplyError, Goto, Return
  <2>a. AnswerInv'
    BY <1>14, <2>g, AnswerKept DEF TypeOK, ThreadsOK, CallsOK, PcInv, Waiting, ReplyError, Goto,
       Return
  <2>k. AckInv'
    BY <1>14, <2>g, AckKept DEF TypeOK, ReplyError, Goto, Return
  <2> QED
    BY <2>t, <2>p, <2>l, <2>a, <2>k
<1>15. ASSUME NEW t \in Thread, AppendThrows(t) PROVE IInv'
  <2>1. req[t] \in Record /\ "leader" \in Broker
    BY <1>15 DEF PcInv, AppendThrows, Broker
  <2>2. req[t].tp \in TP /\ req[t].val \in Payload
    BY <2>1 DEF Record
  <2>3. PersistFails("leader", req[t].tp, req[t].val)
    BY <1>15 DEF AppendThrows
  <2>4. /\ log' \in [Broker -> [TP -> Seq(Payload)]]
        /\ torn' \in [Broker -> SUBSET TP]
        /\ errors' \in [Broker -> Nat]
        /\ atRisk' = atRisk
        /\ Grows
    BY <2>1, <2>2, <2>3, PersistFailsFacts DEF TypeOK
  <2>BrokersOK. BrokersOK'
    <3>1. Append(mem["leader"][req[t].tp], req[t].val) \in Seq(Payload)
      BY <2>1, <2>2 DEF TypeOK, BrokersOK
    <3>2. mem' \in [Broker -> [TP -> Seq(Payload)]]
      BY <1>15, <3>1 DEF TypeOK, BrokersOK, AppendThrows
    <3> QED
      BY <1>15, <2>4, <3>2 DEF TypeOK, BrokersOK, AppendThrows, Return
  <2>ThreadsOK. ThreadsOK'
    BY <1>15 DEF TypeOK, ThreadsOK, Location, AppendThrows, Goto, Return
  <2>MutexOK. MutexOK'
    BY <1>15 DEF TypeOK, ThreadsOK, MutexOK, Locked, AppendThrows, Goto, Return
  <2>CallsOK. CallsOK'
    BY <1>15 DEF TypeOK, CallsOK, ThreadsOK, PcInv, AppendThrows, Goto, Return
  <2>GhostsOK. GhostsOK'
    BY <1>15, <2>4 DEF TypeOK, GhostsOK, AppendThrows, Return
  <2>t. TypeOK'
    BY <2>BrokersOK, <2>ThreadsOK, <2>MutexOK, <2>CallsOK, <2>GhostsOK DEF TypeOK
  <2>p. PcInv'
    BY <1>15 DEF TypeOK, ThreadsOK, CallsOK, PcInv, Waiting, AppendThrows, Goto, Return
  <2>g. Grows
    BY <2>4
  <2>l. LocalInv'
    BY <1>15, <2>4, LocalKept DEF TypeOK, ThreadsOK, Locked, AppendThrows, Return, Goto
  <2>a. AnswerInv'
    BY <1>15, <2>4, AnswerKept DEF TypeOK, ThreadsOK, AppendThrows, Return, Goto
  <2>k. AckInv'
    BY <1>15, <2>4, AckKept DEF TypeOK, AppendThrows
  <2> QED
    BY <2>t, <2>p, <2>l, <2>a, <2>k
<1>16. ASSUME NEW t \in Thread, AnswerProgress(t) PROVE IInv'
  <2>1. call[t] \in Call /\ call[t].type = "REPLICATION_PROGRESS"
    BY <1>16 DEF TypeOK, CallsOK, AnswerProgress, Pending
  <2>2. progress[call[t].tp] + 1 \in Nat
    <3>1. call[t].tp \in TP
      BY <2>1 DEF Call
    <3>2. progress[call[t].tp] \in Nat \cup {-1}
      BY <3>1 DEF TypeOK, BrokersOK
    <3> QED
      BY <3>2
  <2>3. /\ call'[t] = [call[t] EXCEPT !.reply = "OK", !.off = progress[call[t].tp] + 1]
        /\ DOMAIN call' = Thread
        /\ \A u \in Thread : u # t => call'[u] = call[u]
        /\ call' = [call EXCEPT ![t] = call'[t]]
    BY <1>16, <2>1 DEF TypeOK, CallsOK, AnswerProgress
  <2>4. /\ call'[t] \in Call
        /\ call'[t].type = call[t].type
        /\ call'[t].tp = call[t].tp
        /\ call'[t].val = call[t].val
    BY <2>1, <2>2, <2>3 DEF Call
  <2>5. UNCHANGED <<brokers, threads, orphans, ghosts, crashes, errors>>
    BY <1>16 DEF AnswerProgress
  <2>BrokersOK. BrokersOK'
    BY <1>16 DEF TypeOK, BrokersOK, AnswerProgress, brokers, threads
  <2>ThreadsOK. ThreadsOK'
    BY <1>16 DEF TypeOK, ThreadsOK, AnswerProgress, threads
  <2>MutexOK. MutexOK'
    BY <1>16 DEF TypeOK, ThreadsOK, MutexOK, Locked, AnswerProgress, threads
  <2>CallsOK. CallsOK'
    BY <2>3, <2>4, <2>5 DEF TypeOK, CallsOK
  <2>GhostsOK. GhostsOK'
    BY <1>16 DEF TypeOK, GhostsOK, AnswerProgress, ghosts
  <2>t. TypeOK'
    BY <2>BrokersOK, <2>ThreadsOK, <2>MutexOK, <2>CallsOK, <2>GhostsOK DEF TypeOK
  <2>p. PcInv'
    <3>1. call[t] # None /\ call'[t] # None
      BY <2>1, <2>4
    <3>2. UNCHANGED <<pc, req, cur, batch>> /\ \A u \in Thread : u # t => call'[u] = call[u]
      BY <2>3, <2>5 DEF threads
    <3> QED
      BY <2>4, <3>1, <3>2, PcKept
  <2>g. Grows
    BY <1>16 DEF Grows, AnswerProgress, brokers, ghosts
  <2>l. LocalInv'
    BY <1>16, <2>g, LocalKept DEF TypeOK, Locked, AnswerProgress, threads
  <2>a. AnswerInv'
    <3>1. pc' = pc /\ pc[t] \notin {"catchupReply", "reply"}
      BY <2>1, <2>5 DEF PcInv, threads
    <3> QED
      BY <2>3, <2>g, <3>1, AnswerKept DEF TypeOK
  <2>k. AckInv'
    BY <1>16, <2>g, AckKept DEF TypeOK, AnswerProgress, Pending, ghosts
  <2> QED
    BY <2>t, <2>p, <2>l, <2>a, <2>k
<1>17. ASSUME NEW t \in Thread, AnswerReplicate(t) PROVE IInv'
  <2>1. call[t] \in Call /\ call[t].type = "REPLICATE"
    BY <1>17 DEF TypeOK, CallsOK, AnswerReplicate, Pending
  <2>2. pc[t] \in {"catchupReply", "reply"} /\ call[t].val \in Payload
    BY <1>17, <2>1 DEF TypeOK, CallsOK, PcInv, Waiting, AnswerReplicate, Pending
  <2>3. call[t].tp \in TP /\ call[t].off \in Nat /\ "follower" \in Broker
    BY <2>1 DEF Call, Broker
  <2>4. /\ call'[t] = [call[t] EXCEPT !.reply = "OK"]
        /\ call' = [call EXCEPT ![t] = call'[t]]
        /\ \A u \in Thread : u # t => call'[u] = call[u]
        /\ UNCHANGED <<threads, orphans>>
    BY <1>17, <2>1 DEF TypeOK, CallsOK, AnswerReplicate
  <2>5. /\ call'[t] \in Call
        /\ call'[t].type = call[t].type
        /\ call'[t].tp = call[t].tp
        /\ call'[t].val = call[t].val
        /\ call'[t].reply = "OK"
    BY <2>1, <2>4 DEF Call
  <2>6. Apply(call[t].tp, call[t].off, call[t].val)
    BY <1>17 DEF AnswerReplicate
  <2>7. /\ log' \in [Broker -> [TP -> Seq(Payload)]]
        /\ torn' = torn
        /\ atRisk' \subseteq Payload
        /\ Grows
        /\ call[t].val \in atRisk' \/ Has(log'["follower"][call[t].tp], call[t].val)
    BY <2>2, <2>3, <2>6, PersistFacts DEF TypeOK, Apply
  <2>BrokersOK. BrokersOK'
    <3>1. Append(mem["follower"][call[t].tp], call[t].val) \in Seq(Payload)
      BY <2>2, <2>3 DEF TypeOK, BrokersOK
    <3>2. mem' \in [Broker -> [TP -> Seq(Payload)]] /\ progress' \in [TP -> Nat \cup {-1}]
      BY <2>3, <2>6, <3>1 DEF TypeOK, BrokersOK, Apply
    <3> QED
      BY <1>17, <2>7, <3>2 DEF TypeOK, BrokersOK, AnswerReplicate
  <2>ThreadsOK. ThreadsOK'
    BY <2>4 DEF TypeOK, ThreadsOK, threads
  <2>MutexOK. MutexOK'
    BY <2>4 DEF TypeOK, MutexOK, threads
  <2>CallsOK. CallsOK'
    BY <2>4, <2>5 DEF TypeOK, CallsOK
  <2>GhostsOK. GhostsOK'
    BY <1>17, <2>7 DEF TypeOK, GhostsOK, AnswerReplicate
  <2>t. TypeOK'
    BY <2>BrokersOK, <2>ThreadsOK, <2>MutexOK, <2>CallsOK, <2>GhostsOK DEF TypeOK
  <2>p. PcInv'
    BY <2>1, <2>4, <2>5, PcKept DEF threads
  <2>g. Grows
    BY <2>7
  <2>l. LocalInv'
    BY <2>4, <2>7, LocalKept DEF threads
  <2>a. AnswerInv'
    <3> SUFFICES ASSUME NEW u \in Thread, pc[u] \in {"catchupReply", "reply"}, call'[u].reply = "OK"
                 PROVE  call'[u].val \in atRisk' \/ Has(log'["follower"][call'[u].tp], call'[u].val)
      BY <2>4 DEF AnswerInv, threads, Secured
    <3>1. CASE u = t
      BY <2>5, <2>7, <3>1
    <3>2. CASE u # t
      <4>1. call'[u] = call[u]
        BY <2>4, <3>2
      <4>2. call[u] \in Call /\ call[u].val \in Payload
        BY DEF TypeOK, CallsOK, PcInv, Waiting
      <4>3. call[u].tp \in TP
        BY <4>2 DEF Call
      <4>4. call[u].val \in atRisk \/ Has(log["follower"][call[u].tp], call[u].val)
        BY <4>1 DEF AnswerInv, Secured
      <4> QED
        BY <2>3, <2>7, <4>1, <4>2, <4>3, <4>4 DEF Grows
    <3> QED
      BY <3>1, <3>2
  <2>k. AckInv'
    BY <1>17, <2>7, AckKept DEF TypeOK, AnswerReplicate
  <2> QED
    BY <2>t, <2>p, <2>l, <2>a, <2>k
<1>18. ASSUME NEW t \in Thread, RefuseReplicate(t) PROVE IInv'
  <2>1. call[t] \in Call /\ call[t].type = "REPLICATE"
    BY <1>18 DEF TypeOK, CallsOK, RefuseReplicate, Pending
  <2>2. pc[t] \in {"catchupReply", "reply"} /\ call[t].val \in Payload
    BY <1>18, <2>1 DEF TypeOK, CallsOK, PcInv, Waiting, RefuseReplicate, Pending
  <2>3. call[t].tp \in TP /\ call[t].off \in Nat /\ "follower" \in Broker
    BY <2>1 DEF Call, Broker
  <2>4. /\ call'[t] = [call[t] EXCEPT !.reply = "ERROR"]
        /\ call' = [call EXCEPT ![t] = call'[t]]
        /\ \A u \in Thread : u # t => call'[u] = call[u]
        /\ UNCHANGED <<threads, orphans>>
    BY <1>18, <2>1 DEF TypeOK, CallsOK, RefuseReplicate
  <2>5. /\ call'[t] \in Call
        /\ call'[t].type = call[t].type
        /\ call'[t].tp = call[t].tp
        /\ call'[t].val = call[t].val
        /\ call'[t].reply = "ERROR"
    BY <2>1, <2>4 DEF Call
  <2>6. PersistFails("follower", call[t].tp, call[t].val)
    BY <1>18 DEF RefuseReplicate
  <2>7. /\ log' \in [Broker -> [TP -> Seq(Payload)]]
        /\ torn' \in [Broker -> SUBSET TP]
        /\ errors' \in [Broker -> Nat]
        /\ atRisk' = atRisk
        /\ Grows
    BY <2>2, <2>3, <2>6, PersistFailsFacts DEF TypeOK
  <2>BrokersOK. BrokersOK'
    BY <1>18, <2>7 DEF TypeOK, BrokersOK, RefuseReplicate
  <2>ThreadsOK. ThreadsOK'
    BY <2>4 DEF TypeOK, ThreadsOK, threads
  <2>MutexOK. MutexOK'
    BY <2>4 DEF TypeOK, MutexOK, threads
  <2>CallsOK. CallsOK'
    BY <2>4, <2>5 DEF TypeOK, CallsOK
  <2>GhostsOK. GhostsOK'
    BY <1>18, <2>7 DEF TypeOK, GhostsOK, RefuseReplicate
  <2>t. TypeOK'
    BY <2>BrokersOK, <2>ThreadsOK, <2>MutexOK, <2>CallsOK, <2>GhostsOK DEF TypeOK
  <2>p. PcInv'
    BY <2>1, <2>4, <2>5, PcKept DEF threads
  <2>g. Grows
    BY <2>7
  <2>l. LocalInv'
    BY <2>4, <2>7, LocalKept DEF threads
  <2>a. AnswerInv'
    <3>1. \A u \in Thread : call'[u].reply = "OK" => call'[u] = call[u]
      BY <2>4, <2>5
    <3> QED
      BY <2>4, <2>7, <3>1, AnswerKept DEF TypeOK, threads
  <2>k. AckInv'
    BY <1>18, <2>7, AckKept DEF TypeOK, RefuseReplicate
  <2> QED
    BY <2>t, <2>p, <2>l, <2>a, <2>k
<1>19. ASSUME LateReplicate PROVE IInv'
  <2>1. PICK e \in orphans :
          /\ orphans' = orphans \ {e}
          /\ \/ Apply(e.tp, e.off, e.val) /\ UNCHANGED errors
             \/ PersistFails("follower", e.tp, e.val) /\ UNCHANGED <<mem, progress>>
    BY <1>19 DEF LateReplicate
  <2>2. UNCHANGED <<up, threads, call, produced, acked, crashes>>
    BY <1>19 DEF LateReplicate
  <2>3. e.tp \in TP /\ e.off \in Nat /\ e.val \in Payload /\ "follower" \in Broker
    BY DEF TypeOK, CallsOK, Entry, Broker
  <2>4. /\ log' \in [Broker -> [TP -> Seq(Payload)]]
        /\ torn' \in [Broker -> SUBSET TP]
        /\ errors' \in [Broker -> Nat]
        /\ atRisk' \subseteq Payload
        /\ Grows
    <3>1. CASE Apply(e.tp, e.off, e.val) /\ UNCHANGED errors
      BY <2>3, <3>1, PersistFacts DEF TypeOK, BrokersOK, Apply
    <3>2. CASE PersistFails("follower", e.tp, e.val)
      BY <2>3, <3>2, PersistFailsFacts DEF TypeOK, GhostsOK
    <3> QED
      BY <2>1, <3>1, <3>2
  <2>BrokersOK. BrokersOK'
    <3>1. Append(mem["follower"][e.tp], e.val) \in Seq(Payload)
      BY <2>3 DEF TypeOK, BrokersOK
    <3>2. mem' \in [Broker -> [TP -> Seq(Payload)]] /\ progress' \in [TP -> Nat \cup {-1}]
      <4>1. CASE Apply(e.tp, e.off, e.val)
        BY <2>3, <3>1, <4>1 DEF TypeOK, BrokersOK, Apply
      <4>2. CASE UNCHANGED <<mem, progress>>
        BY <4>2 DEF TypeOK, BrokersOK
      <4> QED
        BY <2>1, <4>1, <4>2
    <3> QED
      BY <2>2, <2>4, <3>2 DEF TypeOK, BrokersOK
  <2>ThreadsOK. ThreadsOK'
    BY <2>2 DEF TypeOK, ThreadsOK, threads
  <2>MutexOK. MutexOK'
    BY <2>2 DEF TypeOK, MutexOK, threads
  <2>CallsOK. CallsOK'
    BY <2>1, <2>2 DEF TypeOK, CallsOK
  <2>GhostsOK. GhostsOK'
    BY <2>2, <2>4 DEF TypeOK, GhostsOK
  <2>t. TypeOK'
    BY <2>BrokersOK, <2>ThreadsOK, <2>MutexOK, <2>CallsOK, <2>GhostsOK DEF TypeOK
  <2>p. PcInv'
    BY <2>2 DEF PcInv, threads
  <2>g. Grows
    BY <2>4
  <2>l. LocalInv'
    BY <2>2, <2>4, LocalKept DEF threads
  <2>a. AnswerInv'
    BY <2>2, <2>4, AnswerKept DEF TypeOK, threads
  <2>k. AckInv'
    BY <2>2, <2>4, AckKept DEF TypeOK
  <2> QED
    BY <2>t, <2>p, <2>l, <2>a, <2>k
<1>20. ASSUME LeaderCrash PROVE IInv'
  <2>BrokersOK. BrokersOK'
    BY <1>20 DEF TypeOK, BrokersOK, LeaderCrash
  <2>ThreadsOK. ThreadsOK'
    BY <1>20 DEF TypeOK, ThreadsOK, Location, LeaderCrash
  <2>MutexOK. MutexOK'
    BY <1>20 DEF TypeOK, ThreadsOK, MutexOK, Locked, LeaderCrash
  <2>CallsOK. CallsOK'
    <3>1. \A u \in Thread : Pending(u, "REPLICATE") =>
              [tp |-> call[u].tp, off |-> call[u].off, val |-> call[u].val] \in Entry
      <4> SUFFICES ASSUME NEW u \in Thread, Pending(u, "REPLICATE")
                   PROVE  [tp |-> call[u].tp, off |-> call[u].off, val |-> call[u].val] \in Entry
        OBVIOUS
      <4>1. call[u] \in Call /\ call[u].type = "REPLICATE" /\ call[u] # None
        BY DEF TypeOK, CallsOK, Pending
      <4>2. call[u].val \in Payload
        BY <4>1 DEF PcInv, Waiting
      <4>3. call[u].tp \in TP /\ call[u].off \in Nat
        BY <4>1 DEF Call
      <4> QED
        BY <4>2, <4>3 DEF Entry
    <3>2. orphans' \subseteq Entry
      <4>1. PICK S \in SUBSET {u \in Thread : Pending(u, "REPLICATE")} :
              orphans' = orphans \cup {[tp |-> call[u].tp, off |-> call[u].off, val |-> call[u].val] : u \in S}
        BY <1>20 DEF LeaderCrash
      <4> QED
        BY <3>1, <4>1 DEF TypeOK, CallsOK
    <3> QED
      BY <1>20, <3>2 DEF CallsOK, LeaderCrash
  <2>GhostsOK. GhostsOK'
    BY <1>20 DEF TypeOK, GhostsOK, LeaderCrash, ghosts
  <2>t. TypeOK'
    BY <2>BrokersOK, <2>ThreadsOK, <2>MutexOK, <2>CallsOK, <2>GhostsOK DEF TypeOK
  <2>p. PcInv'
    BY <1>20 DEF TypeOK, CallsOK, PcInv, Waiting, LeaderCrash
  <2>g. Grows
    BY <1>20 DEF Grows, LeaderCrash, ghosts
  <2>l. LocalInv'
    BY <1>20, <2>g, LocalKept DEF TypeOK, Locked, LeaderCrash
  <2>a. AnswerInv'
    BY <1>20, <2>g, AnswerKept DEF TypeOK, PcInv, Waiting, LeaderCrash
  <2>k. AckInv'
    BY <1>20, <2>g, AckKept DEF TypeOK, LeaderCrash, ghosts
  <2> QED
    BY <2>t, <2>p, <2>l, <2>a, <2>k
<1>21. ASSUME LeaderRestart PROVE IInv'
  <2>BrokersOK. BrokersOK'
    BY <1>21 DEF TypeOK, BrokersOK, Broker, LeaderRestart, threads, ghosts
  <2>ThreadsOK. ThreadsOK'
    BY <1>21 DEF TypeOK, ThreadsOK, LeaderRestart, threads
  <2>MutexOK. MutexOK'
    BY <1>21 DEF TypeOK, ThreadsOK, MutexOK, Locked, LeaderRestart, threads
  <2>CallsOK. CallsOK'
    BY <1>21 DEF TypeOK, CallsOK, ThreadsOK, PcInv, LeaderRestart
  <2>GhostsOK. GhostsOK'
    BY <1>21 DEF TypeOK, GhostsOK, ThreadsOK, PcInv, LeaderRestart, threads, ghosts
  <2>t. TypeOK'
    BY <2>BrokersOK, <2>ThreadsOK, <2>MutexOK, <2>CallsOK, <2>GhostsOK DEF TypeOK
  <2>p. PcInv'
    BY <1>21 DEF TypeOK, CallsOK, PcInv, LeaderRestart, threads
  <2>g. Grows
    BY <1>21 DEF Grows, LeaderRestart, ghosts
  <2>l. LocalInv'
    BY <1>21, <2>g, LocalKept DEF TypeOK, Locked, LeaderRestart, threads
  <2>a. AnswerInv'
    BY <1>21, <2>g, AnswerKept DEF TypeOK, PcInv, LeaderRestart, threads
  <2>k. AckInv'
    BY <1>21, <2>g, AckKept DEF TypeOK, LeaderRestart, ghosts
  <2> QED
    BY <2>t, <2>p, <2>l, <2>a, <2>k
<1>22. ASSUME FollowerCrash PROVE IInv'
  <2>1. PICK lost \in SUBSET {t \in Thread : call[t] # None} :
          call' = [t \in Thread |-> IF t \in lost THEN [call[t] EXCEPT !.reply = "lost"] ELSE call[t]]
    BY <1>22 DEF FollowerCrash
  <2>2. \A t \in Thread : \/ call'[t] = call[t]
                          \/ /\ call[t] # None
                             /\ call'[t] \in Call
                             /\ call'[t].reply = "lost"
                             /\ call'[t].type = call[t].type
                             /\ call'[t].tp = call[t].tp
                             /\ call'[t].val = call[t].val
    <3> SUFFICES ASSUME NEW t \in Thread, t \in lost
                 PROVE  /\ call[t] # None
                        /\ call'[t] \in Call
                        /\ call'[t].reply = "lost"
                        /\ call'[t].type = call[t].type
                        /\ call'[t].tp = call[t].tp
                        /\ call'[t].val = call[t].val
      BY <2>1
    <3>1. call[t] \in Call /\ call'[t] = [call[t] EXCEPT !.reply = "lost"]
      BY <2>1 DEF TypeOK, CallsOK
    <3>2. call[t] # None
      BY <2>1
    <3> QED
      BY <3>1, <3>2 DEF Call
  <2>3. UNCHANGED <<pc, req, cur, batch>>
    BY <1>22 DEF FollowerCrash
  <2>BrokersOK. BrokersOK'
    BY <1>22 DEF TypeOK, BrokersOK, FollowerCrash
  <2>ThreadsOK. ThreadsOK'
    BY <1>22 DEF TypeOK, ThreadsOK, FollowerCrash
  <2>MutexOK. MutexOK'
    BY <1>22 DEF TypeOK, ThreadsOK, MutexOK, Locked, FollowerCrash
  <2>CallsOK. CallsOK'
    <3>1. call' \in [Thread -> Call \cup {None}]
      BY <2>1, <2>2 DEF TypeOK, CallsOK
    <3> QED
      BY <1>22, <3>1 DEF CallsOK, FollowerCrash
  <2>GhostsOK. GhostsOK'
    BY <1>22 DEF TypeOK, GhostsOK, FollowerCrash, ghosts
  <2>t. TypeOK'
    BY <2>BrokersOK, <2>ThreadsOK, <2>MutexOK, <2>CallsOK, <2>GhostsOK DEF TypeOK
  <2>p. PcInv'
    BY <2>2, <2>3, PcKept
  <2>g. Grows
    BY <1>22 DEF Grows, FollowerCrash, ghosts
  <2>l. LocalInv'
    BY <1>22, <2>g, LocalKept DEF TypeOK, Locked, FollowerCrash
  <2>a. AnswerInv'
    <3>1. \A t \in Thread : call'[t].reply = "OK" => call'[t] = call[t]
      BY <2>2
    <3> QED
      BY <2>3, <2>g, <3>1, AnswerKept DEF TypeOK
  <2>k. AckInv'
    BY <1>22, <2>g, AckKept DEF TypeOK, FollowerCrash, ghosts
  <2> QED
    BY <2>t, <2>p, <2>l, <2>a, <2>k
<1>23. ASSUME FollowerRestart PROVE IInv'
  <2>BrokersOK. BrokersOK'
    BY <1>23 DEF TypeOK, BrokersOK, Broker, FollowerRestart, threads, ghosts
  <2>ThreadsOK. ThreadsOK'
    BY <1>23 DEF TypeOK, ThreadsOK, FollowerRestart, threads
  <2>MutexOK. MutexOK'
    BY <1>23 DEF TypeOK, ThreadsOK, MutexOK, Locked, FollowerRestart, threads
  <2>CallsOK. CallsOK'
    BY <1>23 DEF TypeOK, CallsOK, ThreadsOK, PcInv, FollowerRestart
  <2>GhostsOK. GhostsOK'
    BY <1>23 DEF TypeOK, GhostsOK, FollowerRestart, ghosts
  <2>t. TypeOK'
    BY <2>BrokersOK, <2>ThreadsOK, <2>MutexOK, <2>CallsOK, <2>GhostsOK DEF TypeOK
  <2>p. PcInv'
    BY <1>23 DEF TypeOK, CallsOK, PcInv, FollowerRestart, threads
  <2>g. Grows
    BY <1>23 DEF Grows, FollowerRestart, ghosts
  <2>l. LocalInv'
    BY <1>23, <2>g, LocalKept DEF TypeOK, Locked, FollowerRestart, threads
  <2>a. AnswerInv'
    BY <1>23, <2>g, AnswerKept DEF TypeOK, ThreadsOK, CallsOK, PcInv, FollowerRestart, threads
  <2>k. AckInv'
    BY <1>23, <2>g, AckKept DEF TypeOK, FollowerRestart, ghosts
  <2> QED
    BY <2>t, <2>p, <2>l, <2>a, <2>k
<1>24. CASE UNCHANGED vars
  BY <1>24 DEF TypeOK, BrokersOK, ThreadsOK, MutexOK, CallsOK, GhostsOK, Locked, PcInv,
     LocalInv, AnswerInv, AckInv, Secured, vars, brokers, threads, ghosts
<1> QED
  BY <1>1, <1>2, <1>3, <1>4, <1>5, <1>6, <1>7, <1>8, <1>9, <1>10, <1>11, <1>12, <1>13, <1>14,
     <1>15, <1>16, <1>17, <1>18, <1>19, <1>20, <1>21, <1>22, <1>23, <1>24 DEF Next, ThreadStep,
     Answer

\* The inductive invariant holds in every reachable state.
THEOREM SpecIInv == Spec => []IInv
  BY InitIInv, NextIInv, PTL DEF Spec

----------------------------------------------------------------------------
(* The properties *)

\* The state has its type, and topics_mutex_ is held by exactly the thread that is between
\* its local append and the follower's answer.
THEOREM TypeCorrect == Spec => []TypeOK
<1>1. IInv => TypeOK
  BY DEF IInv
<1> QED
  BY <1>1, SpecIInv, PTL

\* A record answered OK is recoverable from the logs of both brokers, unless one of them
\* appended it behind an incomplete record.
THEOREM AcksAreReplicated == Spec => []AckedOnBoth
<1>1. IInv => AckedOnBoth
  BY DEF IInv, AckInv, Secured, AckedOnBoth
<1> QED
  BY <1>1, SpecIInv, PTL
=============================================================================
