---------------------------- MODULE Replication -----------------------------
(***************************************************************************)
(* Leader-follower replication: what a PRODUCE does on the leader (bring   *)
(* the follower up to date, append locally, replicate the record), the     *)
(* follower's handlers for REPLICATION_PROGRESS and REPLICATE, and the     *)
(* requests and replies between them.                                      *)
(*                                                                         *)
(* The leader has one thread (EpollServer) or one per connection           *)
(* (TcpServer). A PRODUCE synchronizes the follower without holding        *)
(* topics_mutex_ between its steps, and then holds the mutex from its      *)
(* local append until the follower has answered. A step of a thread ends   *)
(* where the mutex is released or a message is sent or awaited. Each       *)
(* broker process may crash between any two steps, and an append to a log  *)
(* file may fail in the ways TopicLog shows. A payload is a name: the      *)
(* REPLICATE line hands it over unchanged, except that a payload of        *)
(* nothing but spaces gets one more on the follower (module Protocol).     *)
(*                                                                         *)
(* Not modelled here: FETCH and the groups, which do not change this       *)
(* state; promote_to_leader, which no command reaches.                     *)
(***************************************************************************)
EXTENDS Integers, Sequences, FiniteSets

CONSTANTS
    TP,                 \* topic-partitions
    MaxProduces,        \* bound on the PRODUCE requests that reach the leader
    Big,                \* payloads that fit a PRODUCE frame but no REPLICATE frame
    Thread,             \* the leader's request threads
    MaxLeaderCrashes,   \* bound on the crashes of the leader
    MaxFollowerCrashes, \* bound on the crashes of the follower
    MaxLeaderErrors,    \* bound on the appends that throw on the leader
    MaxFollowerErrors,  \* bound on the appends that throw on the follower
    StaleRequests,      \* the leader may restart before the follower has read all
                        \* that the old process sent
    RestartMidProduce,  \* the follower may restart while a PRODUCE is in progress
    ConnectErrors,      \* socket() or connect() may fail although the follower runs
    None

\* The k-th PRODUCE to arrive carries payload k.
Payload == Nat \ {0}

\* A PRODUCE, by where it appends and what.
Record == [tp : TP, val : Payload]

\* A REPLICATE request that has lost its sender.
Entry == [tp : TP, off : Nat, val : Payload]

\* A request to the follower and its answer; REPLICATION_PROGRESS carries no payload.
Call ==
    [type : {"REPLICATION_PROGRESS", "REPLICATE"}, tp : TP, off : Nat, val : Payload \cup {0},
     reply : {"none", "OK", "ERROR", "lost"}]

ASSUME BigAssumption == Big \subseteq Payload

ASSUME NoneAssumption == None \notin Thread \cup TP /\ None \notin Record /\ None \notin Call

ASSUME BoundAssumption ==
    /\ MaxProduces \in Nat
    /\ MaxLeaderCrashes \in Nat
    /\ MaxFollowerCrashes \in Nat
    /\ MaxLeaderErrors \in Nat
    /\ MaxFollowerErrors \in Nat

VARIABLES
    up,         \* the broker processes that are running
    mem,        \* Partition::messages, by broker and topic-partition
    log,        \* the records a restart would recover from the log files
    torn,       \* the log files that end in an incomplete record
    progress,   \* the follower's replication_progress_; -1 where it has none
    lock,       \* the thread that holds the leader's topics_mutex_
    pc,         \* where each thread of the leader is
    req,        \* the PRODUCE it handles
    todo,       \* the topic-partitions synchronize_follower has still to visit
    cur,        \* the one it is visiting
    batch,      \* the missing records it has still to send
    off,        \* the offset of the next record to send
    conn,       \* the threads whose catch-up connection is open
    call,       \* the request a thread has sent to the follower, and its answer
    orphans,    \* REPLICATE requests of a leader process that has crashed
    produced,   \* the number of PRODUCE requests so far
    acked,      \* PRODUCEs answered OK: [tp, val]
    atRisk,     \* payloads appended behind an incomplete record
    crashes,    \* how often each broker has crashed
    errors      \* how often an append has thrown on each

brokers == <<up, mem, log, torn, progress>>
threads == <<lock, pc, req, todo, cur, batch, off, conn>>
ghosts == <<produced, acked, atRisk>>
vars == <<brokers, threads, call, orphans, ghosts, crashes, errors>>

----------------------------------------------------------------------------
Broker == {"leader", "follower"}

Location == {"idle", "collect", "sync", "progress", "missing", "connect", "catchup",
             "catchupReply", "append", "replicate", "reply"}

\* the locations at which a thread holds topics_mutex_
Locked == {"replicate", "reply"}

Init ==
    /\ up = Broker
    /\ mem = [b \in Broker |-> [p \in TP |-> <<>>]]
    /\ log = [b \in Broker |-> [p \in TP |-> <<>>]]
    /\ torn = [b \in Broker |-> {}]
    /\ progress = [p \in TP |-> -1]
    /\ lock = None
    /\ pc = [t \in Thread |-> "idle"]
    /\ req = [t \in Thread |-> None]
    /\ todo = [t \in Thread |-> {}]
    /\ cur = [t \in Thread |-> None]
    /\ batch = [t \in Thread |-> <<>>]
    /\ off = [t \in Thread |-> 0]
    /\ conn = {}
    /\ call = [t \in Thread |-> None]
    /\ orphans = {}
    /\ produced = 0
    /\ acked = {}
    /\ atRisk = {}
    /\ crashes = [b \in Broker |-> 0]
    /\ errors = [b \in Broker |-> 0]

----------------------------------------------------------------------------
(* TopicLog::append, seen from outside (module TopicLog) *)

\* append returns; a record behind an incomplete one will not be recovered.
Persist(b, p, v) ==
    /\ log' = IF p \in torn[b] THEN log ELSE [log EXCEPT ![b][p] = Append(@, v)]
    /\ atRisk' = IF p \in torn[b] THEN atRisk \cup {v} ELSE atRisk
    /\ UNCHANGED torn

\* append throws: before the first byte, after some of the bytes, or after all of them.
PersistFails(b, p, v) ==
    /\ errors[b] < (IF b = "leader" THEN MaxLeaderErrors ELSE MaxFollowerErrors)
    /\ errors' = [errors EXCEPT ![b] = @ + 1]
    /\ \/ UNCHANGED <<log, torn>>
       \/ torn' = [torn EXCEPT ![b] = @ \cup {p}] /\ UNCHANGED log
       \/ /\ p \notin torn[b]
          /\ log' = [log EXCEPT ![b][p] = Append(@, v)]
          /\ UNCHANGED torn
    /\ UNCHANGED atRisk

----------------------------------------------------------------------------
(* The leader: Broker::synchronize_follower *)

Goto(t, l) == pc' = [pc EXCEPT ![t] = l]

Produce(t, p) ==
    /\ "leader" \in up
    /\ pc[t] = "idle"
    /\ produced < MaxProduces
    /\ produced' = produced + 1
    /\ req' = [req EXCEPT ![t] = [tp |-> p, val |-> produced + 1]]
    /\ Goto(t, "collect")
    /\ UNCHANGED <<brokers, lock, todo, cur, batch, off, conn, call, orphans, acked, atRisk,
                   crashes, errors>>

Collect_OnlyOwn(t) ==
    /\ pc[t] = "collect"
    /\ lock = None
    /\ todo' = [todo EXCEPT ![t] = {p \in {req[t].tp} : mem["leader"][p] # <<>>}]
    /\ Goto(t, "sync")
    /\ UNCHANGED <<brokers, lock, req, cur, batch, off, conn, call, orphans, ghosts, crashes,
                   errors>>

\* The partitions that hold messages, listed under the mutex.
Collect(t) ==
    /\ pc[t] = "collect"
    /\ lock = None
    /\ todo' = [todo EXCEPT ![t] = {p \in TP : mem["leader"][p] # <<>>}]
    /\ Goto(t, "sync")
    /\ UNCHANGED <<brokers, lock, req, cur, batch, off, conn, call, orphans, ghosts, crashes,
                   errors>>

\* BrokerClient::connect throws.
CannotConnect == "follower" \notin up \/ ConnectErrors

\* query_follower_progress connects and asks.
Query(t) ==
    /\ pc[t] = "sync"
    /\ "follower" \in up
    /\ \E p \in todo[t] :
          /\ cur' = [cur EXCEPT ![t] = p]
          /\ call' = [call EXCEPT ![t] = [type |-> "REPLICATION_PROGRESS", tp |-> p, off |-> 0,
                                          val |-> 0, reply |-> "none"]]
    /\ Goto(t, "progress")
    /\ UNCHANGED <<brokers, lock, req, todo, batch, off, conn, orphans, ghosts, crashes, errors>>

\* The follower has answered with its progress, or with NONE.
GotProgress(t) ==
    /\ pc[t] = "progress"
    /\ call[t].reply = "OK"
    /\ off' = [off EXCEPT ![t] = call[t].off]
    /\ call' = [call EXCEPT ![t] = None]
    /\ Goto(t, "missing")
    /\ UNCHANGED <<brokers, lock, req, todo, cur, batch, conn, orphans, ghosts, crashes, errors>>

\* The loop of synchronize_follower goes on to the next partition.
Visited(t) ==
    /\ todo' = [todo EXCEPT ![t] = @ \ {cur[t]}]
    /\ cur' = [cur EXCEPT ![t] = None]
    /\ off' = [off EXCEPT ![t] = 0]
    /\ Goto(t, "sync")

MissingRecords_FromProgress(messages, first) ==
    SubSeq(messages, IF first = 0 THEN 1 ELSE first, Len(messages))

\* The messages from offset first on; the sequence's index i is offset i - 1.
MissingRecords(messages, first) == SubSeq(messages, first + 1, Len(messages))

\* get_missing_records copies what is behind the follower's progress, under the mutex.
Missing(t) ==
    /\ pc[t] = "missing"
    /\ lock = None
    /\ LET missing == MissingRecords(mem["leader"][cur[t]], off[t])
       IN  IF missing = <<>>
           THEN Visited(t) /\ UNCHANGED batch
           ELSE /\ batch' = [batch EXCEPT ![t] = missing]
                /\ Goto(t, "connect")
                /\ UNCHANGED <<todo, cur, off>>
    /\ UNCHANGED <<brokers, lock, req, conn, call, orphans, ghosts, crashes, errors>>

Connect(t) ==
    /\ pc[t] = "connect"
    /\ "follower" \in up
    /\ conn' = conn \cup {t}
    /\ Goto(t, "catchup")
    /\ UNCHANGED <<brokers, lock, req, todo, cur, batch, off, call, orphans, ghosts, crashes,
                   errors>>

\* A REPLICATE request on its way to the follower.
Replication(p, o, v) ==
    [type |-> "REPLICATE", tp |-> p, off |-> o, val |-> v, reply |-> "none"]

CatchUp(t) ==
    /\ pc[t] = "catchup"
    /\ t \in conn
    /\ Head(batch[t]) \notin Big
    /\ call' = [call EXCEPT ![t] = Replication(cur[t], off[t], Head(batch[t]))]
    /\ Goto(t, "catchupReply")
    /\ UNCHANGED <<brokers, lock, req, todo, cur, batch, off, conn, orphans, ghosts, crashes,
                   errors>>

CaughtUp(t) ==
    /\ pc[t] = "catchupReply"
    /\ call[t].reply = "OK"
    /\ call' = [call EXCEPT ![t] = None]
    /\ batch' = [batch EXCEPT ![t] = Tail(@)]
    /\ IF Tail(batch[t]) = <<>>
       THEN Visited(t) /\ conn' = conn \ {t}
       ELSE /\ off' = [off EXCEPT ![t] = @ + 1]
            /\ Goto(t, "catchup")
            /\ UNCHANGED <<todo, cur, conn>>
    /\ UNCHANGED <<brokers, lock, req, orphans, ghosts, crashes, errors>>

\* Every partition has been visited.
SyncDone(t) ==
    /\ pc[t] = "sync"
    /\ todo[t] = {}
    /\ Goto(t, "append")
    /\ UNCHANGED <<brokers, lock, req, todo, cur, batch, off, conn, call, orphans, ghosts,
                   crashes, errors>>

\* No connection, a broken one, an ERROR, or a record whose frame write_frame refuses:
\* synchronize_follower gives up and returns false, which PRODUCE ignores.
SyncFails(t) ==
    /\ \/ pc[t] = "sync" /\ todo[t] # {} /\ CannotConnect
       \/ pc[t] \in {"progress", "catchupReply"} /\ call[t].reply \in {"ERROR", "lost"}
       \/ pc[t] = "connect" /\ CannotConnect
       \/ pc[t] = "catchup" /\ (t \notin conn \/ Head(batch[t]) \in Big)
    /\ todo' = [todo EXCEPT ![t] = {}]
    /\ cur' = [cur EXCEPT ![t] = None]
    /\ batch' = [batch EXCEPT ![t] = <<>>]
    /\ off' = [off EXCEPT ![t] = 0]
    /\ conn' = conn \ {t}
    /\ call' = [call EXCEPT ![t] = None]
    /\ Goto(t, "append")
    /\ UNCHANGED <<brokers, lock, req, orphans, ghosts, crashes, errors>>

----------------------------------------------------------------------------
(* The leader: the rest of PRODUCE *)

\* Under the mutex: the message enters the vector and the log file.
AppendLocal(t) ==
    /\ pc[t] = "append"
    /\ lock = None
    /\ lock' = t
    /\ LET p == req[t].tp
           v == req[t].val
       IN  /\ off' = [off EXCEPT ![t] = Len(mem["leader"][p])]
           /\ mem' = [mem EXCEPT !["leader"][p] = Append(@, v)]
           /\ Persist("leader", p, v)
    /\ Goto(t, "replicate")
    /\ UNCHANGED <<up, progress, req, todo, cur, batch, conn, call, orphans, produced, acked,
                   crashes, errors>>

Replicate(t) ==
    /\ pc[t] = "replicate"
    /\ "follower" \in up
    /\ req[t].val \notin Big
    /\ call' = [call EXCEPT ![t] = Replication(req[t].tp, off[t], req[t].val)]
    /\ Goto(t, "reply")
    /\ UNCHANGED <<brokers, lock, req, todo, cur, batch, off, conn, orphans, ghosts, crashes,
                   errors>>

\* handle_request returns.
Return(t) ==
    /\ call' = [call EXCEPT ![t] = None]
    /\ req' = [req EXCEPT ![t] = None]
    /\ off' = [off EXCEPT ![t] = 0]
    /\ Goto(t, "idle")
    /\ UNCHANGED <<todo, cur, batch, conn, orphans, produced, crashes>>

\* append throws: the message stays in the vector, the client's connection is closed.
AppendThrows(t) ==
    /\ pc[t] = "append"
    /\ lock = None
    /\ mem' = [mem EXCEPT !["leader"][req[t].tp] = Append(@, req[t].val)]
    /\ PersistFails("leader", req[t].tp, req[t].val)
    /\ Return(t)
    /\ UNCHANGED <<up, progress, lock, acked>>

ReplyOk_AnyAnswer(t) ==
    /\ pc[t] = "reply"
    /\ call[t].reply # "none"
    /\ acked' = acked \cup {req[t]}
    /\ lock' = None
    /\ Return(t)
    /\ UNCHANGED <<brokers, atRisk, errors>>

\* The follower has answered OK, and so does the leader.
ReplyOk(t) ==
    /\ pc[t] = "reply"
    /\ call[t].reply = "OK"
    /\ acked' = acked \cup {req[t]}
    /\ lock' = None
    /\ Return(t)
    /\ UNCHANGED <<brokers, atRisk, errors>>

\* The record could not be sent, the connection broke or the follower answered ERROR.
CannotReplicate(t) ==
    \/ pc[t] = "replicate" /\ (CannotConnect \/ req[t].val \in Big)
    \/ pc[t] = "reply" /\ call[t].reply \in {"ERROR", "lost"}

ReplyError_KeepsLock(t) ==
    /\ CannotReplicate(t)
    /\ Return(t)
    /\ UNCHANGED <<brokers, lock, acked, atRisk, errors>>

\* The client gets ERROR; the record stays in the leader's vector and log.
ReplyError(t) ==
    /\ CannotReplicate(t)
    /\ lock' = None
    /\ Return(t)
    /\ UNCHANGED <<brokers, acked, atRisk, errors>>

----------------------------------------------------------------------------
(* The follower's handlers *)

Pending(t, type) ==
    /\ "follower" \in up
    /\ call[t] # None
    /\ call[t].type = type
    /\ call[t].reply = "none"

\* REPLICATION_PROGRESS; the answer is kept as the first offset the follower lacks.
AnswerProgress(t) ==
    /\ Pending(t, "REPLICATION_PROGRESS")
    /\ call' = [call EXCEPT ![t].reply = "OK", ![t].off = progress[call[t].tp] + 1]
    /\ UNCHANGED <<brokers, threads, orphans, ghosts, crashes, errors>>

\* REPLICATE: log file, progress, vector. The offset is recorded, not checked.
Apply(p, o, v) ==
    /\ Persist("follower", p, v)
    /\ progress' = [progress EXCEPT ![p] = o]
    /\ mem' = [mem EXCEPT !["follower"][p] = Append(@, v)]

AnswerReplicate(t) ==
    /\ Pending(t, "REPLICATE")
    /\ Apply(call[t].tp, call[t].off, call[t].val)
    /\ call' = [call EXCEPT ![t].reply = "OK"]
    /\ UNCHANGED <<up, threads, orphans, produced, acked, crashes, errors>>

\* append throws in REPLICATE: ERROR, the vector and the progress stay.
RefuseReplicate(t) ==
    /\ Pending(t, "REPLICATE")
    /\ PersistFails("follower", call[t].tp, call[t].val)
    /\ call' = [call EXCEPT ![t].reply = "ERROR"]
    /\ UNCHANGED <<up, mem, progress, threads, orphans, produced, acked, crashes>>

\* A REPLICATE whose sender has crashed is handled like any other.
LateReplicate ==
    /\ "follower" \in up
    /\ \E e \in orphans :
          /\ orphans' = orphans \ {e}
          /\ \/ Apply(e.tp, e.off, e.val) /\ UNCHANGED errors
             \/ PersistFails("follower", e.tp, e.val) /\ UNCHANGED <<mem, progress>>
    /\ UNCHANGED <<up, threads, call, produced, acked, crashes>>

----------------------------------------------------------------------------
(* Crashes and restarts *)

\* The leader's process dies. What its threads had sent may reach the follower yet.
LeaderCrash ==
    /\ "leader" \in up
    /\ crashes["leader"] < MaxLeaderCrashes
    /\ crashes' = [crashes EXCEPT !["leader"] = @ + 1]
    /\ up' = up \ {"leader"}
    /\ \E S \in SUBSET {t \in Thread : Pending(t, "REPLICATE")} :
          orphans' = orphans \cup {[tp |-> call[t].tp, off |-> call[t].off, val |-> call[t].val] : t \in S}
    /\ mem' = [mem EXCEPT !["leader"] = [p \in TP |-> <<>>]]
    /\ lock' = None
    /\ pc' = [t \in Thread |-> "idle"]
    /\ req' = [t \in Thread |-> None]
    /\ todo' = [t \in Thread |-> {}]
    /\ cur' = [t \in Thread |-> None]
    /\ batch' = [t \in Thread |-> <<>>]
    /\ off' = [t \in Thread |-> 0]
    /\ conn' = {}
    /\ call' = [t \in Thread |-> None]
    /\ UNCHANGED <<log, torn, progress, ghosts, errors>>

\* recover_from_disk on the leader; read_all cuts incomplete records off.
LeaderRestart ==
    /\ "leader" \notin up
    /\ StaleRequests \/ orphans = {}
    /\ up' = up \cup {"leader"}
    /\ mem' = [mem EXCEPT !["leader"] = log["leader"]]
    /\ torn' = [torn EXCEPT !["leader"] = {}]
    /\ UNCHANGED <<log, progress, threads, call, orphans, ghosts, crashes, errors>>

\* The follower's process dies: connections break, an answer on its way may be lost.
FollowerCrash ==
    /\ "follower" \in up
    /\ crashes["follower"] < MaxFollowerCrashes
    /\ crashes' = [crashes EXCEPT !["follower"] = @ + 1]
    /\ up' = up \ {"follower"}
    /\ \E lost \in SUBSET {t \in Thread : call[t] # None} :
          /\ \A t \in Thread : call[t] # None /\ call[t].reply = "none" => t \in lost
          /\ call' = [t \in Thread |-> IF t \in lost THEN [call[t] EXCEPT !.reply = "lost"] ELSE call[t]]
    /\ conn' = {}
    /\ orphans' = {}
    /\ mem' = [mem EXCEPT !["follower"] = [p \in TP |-> <<>>]]
    /\ progress' = [p \in TP |-> -1]
    /\ UNCHANGED <<log, torn, lock, pc, req, todo, cur, batch, off, ghosts, errors>>

FollowerRestart_CountsOne ==
    /\ "follower" \notin up
    /\ RestartMidProduce \/ \A t \in Thread : pc[t] = "idle"
    /\ up' = up \cup {"follower"}
    /\ mem' = [mem EXCEPT !["follower"] = log["follower"]]
    /\ torn' = [torn EXCEPT !["follower"] = {}]
    /\ progress' = [p \in TP |-> IF log["follower"][p] = <<>> THEN -1 ELSE Len(log["follower"][p])]
    /\ UNCHANGED <<log, threads, call, orphans, ghosts, crashes, errors>>

\* recover_from_disk on the follower: the progress is the number of records, less one.
FollowerRestart ==
    /\ "follower" \notin up
    /\ RestartMidProduce \/ \A t \in Thread : pc[t] = "idle"
    /\ up' = up \cup {"follower"}
    /\ mem' = [mem EXCEPT !["follower"] = log["follower"]]
    /\ torn' = [torn EXCEPT !["follower"] = {}]
    /\ progress' = [p \in TP |-> Len(log["follower"][p]) - 1]
    /\ UNCHANGED <<log, threads, call, orphans, ghosts, crashes, errors>>

----------------------------------------------------------------------------
\* What a thread does once its request has arrived, failing appends apart.
ThreadStep(t) ==
    \/ Collect(t) \/ Query(t) \/ GotProgress(t) \/ Missing(t) \/ Connect(t) \/ CatchUp(t)
    \/ CaughtUp(t) \/ SyncDone(t) \/ SyncFails(t)
    \/ AppendLocal(t) \/ Replicate(t) \/ ReplyOk(t) \/ ReplyError(t)

Answer(t) == AnswerProgress(t) \/ AnswerReplicate(t)

Next ==
    \/ \E t \in Thread : \E p \in TP : Produce(t, p)
    \/ \E t \in Thread : ThreadStep(t) \/ AppendThrows(t)
    \/ \E t \in Thread : Answer(t) \/ RefuseReplicate(t)
    \/ LateReplicate
    \/ LeaderCrash \/ LeaderRestart \/ FollowerCrash \/ FollowerRestart

Spec == Init /\ [][Next]_vars

\* A thread that can go on does, and a follower that runs answers: the leader's client
\* has no timeout, so nothing else ends its wait.
FairSpec ==
    Spec /\ \A t \in Thread : WF_vars(ThreadStep(t)) /\ WF_vars(Answer(t))

----------------------------------------------------------------------------
(* Properties *)

BrokersOK ==
    /\ up \subseteq Broker
    /\ mem \in [Broker -> [TP -> Seq(Payload)]]
    /\ log \in [Broker -> [TP -> Seq(Payload)]]
    /\ torn \in [Broker -> SUBSET TP]
    /\ progress \in [TP -> Nat \cup {-1}]
    /\ crashes \in [Broker -> Nat]
    /\ errors \in [Broker -> Nat]

ThreadsOK ==
    /\ pc \in [Thread -> Location]
    /\ req \in [Thread -> Record \cup {None}]
    /\ todo \in [Thread -> SUBSET TP]
    /\ cur \in [Thread -> TP \cup {None}]
    /\ batch \in [Thread -> Seq(Payload)]
    /\ off \in [Thread -> Nat]
    /\ conn \subseteq Thread

MutexOK ==
    /\ lock \in Thread \cup {None}
    /\ \A t \in Thread : lock = t <=> pc[t] \in Locked

CallsOK ==
    /\ call \in [Thread -> Call \cup {None}]
    /\ orphans \subseteq Entry

GhostsOK ==
    /\ produced \in Nat
    /\ acked \subseteq Record
    /\ atRisk \subseteq Payload

\* The state has its type, and the mutex is held by exactly the thread that is between
\* its local append and the follower's answer.
TypeOK == BrokersOK /\ ThreadsOK /\ MutexOK /\ CallsOK /\ GhostsOK

Has(seq, v) == \E i \in 1..Len(seq) : seq[i] = v

\* A record the leader has answered OK for is recoverable from the log files of both
\* brokers, through every interleaving of PRODUCEs, crash, restart, lost answer, late
\* request and failing append; unless one of them appended it behind an incomplete
\* record (module TopicLog).
AckedOnBoth ==
    \A a \in acked : a.val \notin atRisk => \A b \in Broker : Has(log[b][a.tp], a.val)

\* Every PRODUCE that reaches the leader comes to an end.
ProduceReturns == \A t \in Thread : pc[t] # "idle" ~> pc[t] = "idle"

IsPrefixOf(s, u) == Len(s) <= Len(u) /\ \A i \in 1..Len(s) : s[i] = u[i]

\* current_architecture.md: "`messages[index]` is logical offset `index`". The follower's
\* log holds, at every offset it has, the record the leader has at that offset.
FollowerIsPrefix ==
    \A p \in TP : IsPrefixOf(log["follower"][p], log["leader"][p])

\* The progress the follower reports is the offset of the last record it holds, in its
\* log and in the vector it would serve.
ProgressExact ==
    "follower" \in up =>
        \A p \in TP : /\ progress[p] = Len(log["follower"][p]) - 1
                      /\ mem["follower"][p] = log["follower"][p]

\* architecture.md: "Catch up missing records on the next leader produce." When a
\* PRODUCE is answered OK the follower has every record the leader has.
OkMeansCaughtUp ==
    [][acked' # acked => log'["follower"] = log'["leader"]]_vars
=============================================================================
