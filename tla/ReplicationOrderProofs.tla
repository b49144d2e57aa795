----------------------- MODULE ReplicationOrderProofs -----------------------
(***************************************************************************)
(* TLAPS proofs about the order of records in Replication. If nothing      *)
(* disturbs the leader's dialogue with the follower but crashes            *)
(* (Undisturbed below), the follower's log is a prefix of the leader's,    *)
(* its progress is exact, and OK means that it has every record the leader *)
(* has, for any number of topic-partitions, PRODUCEs and crashes of both   *)
(* brokers.                                                                *)
(*                                                                         *)
(* The hypothesis has seven parts: one thread handles all PRODUCEs; no     *)
(* append throws on the leader; none on the follower; no payload is too    *)
(* long for REPLICATE; the leader does not restart before the follower has *)
(* read what the old process sent; the follower does not restart during a  *)
(* PRODUCE; and connecting to a follower that runs does not fail. The      *)
(* EpollServer guarantees the first and nothing in the code guarantees the *)
(* others. Each is needed: without any one of them TLC finds behaviours    *)
(* that violate each of the three conclusions.                             *)
(*                                                                         *)
(* None of the three is inductive. Between its steps a PRODUCE relies on   *)
(* what the follower had when it asked (SyncInv) and on the record it      *)
(* appended (ProduceInv), and this only as long as the follower has not    *)
(* crashed; a REPLICATE that outlives the leader must still be the next    *)
(* record the follower needs (OrphanInv).                                  *)
(***************************************************************************)
EXTENDS ReplicationProofs

\* PRODUCEs come one at a time, every append and every connection to a running follower
\* succeeds, every payload can be replicated, and a broker that restarts finds the other
\* side at rest.
Undisturbed ==
    /\ \E t \in Thread : Thread = {t}
    /\ MaxLeaderErrors = 0
    /\ MaxFollowerErrors = 0
    /\ Big = {}
    /\ ~StaleRequests
    /\ ~RestartMidProduce
    /\ ~ConnectErrors

Leader == log["leader"]
Follower == log["follower"]

\* No append has thrown.
FaultFree == \A x \in Broker : errors[x] = 0 /\ torn[x] = {}

\* A running broker serves what its log holds, and the follower reports how much that is.
ServesLog ==
    /\ "leader" \in up => mem["leader"] = Leader
    /\ "follower" \in up =>
          mem["follower"] = Follower /\ \A p \in TP : progress[p] = Len(Follower[p]) - 1

\* What is left of a broker that is down.
DownInv ==
    /\ "leader" \notin up => \A t \in Thread : pc[t] = "idle"
    /\ orphans # {} => "leader" \notin up /\ "follower" \in up
    /\ "follower" \notin up => conn = {}
    /\ \A t \in Thread : call[t] # None =>
          /\ call[t].reply # "ERROR"
          /\ call[t].reply = "none" => "follower" \in up
          /\ call[t].reply = "lost" => "follower" \notin up

\* v is the record of p that the follower needs next, at offset o.
NextRecord(p, o, v) == o = Len(Follower[p]) /\ o < Len(Leader[p]) /\ Leader[p][o + 1] = v

\* A request that has lost its sender is the only one, and brings the next record.
OrphanInv ==
    /\ \A e \in orphans : NextRecord(e.tp, e.off, e.val)
    /\ \A d, e \in orphans : d = e

\* The follower has all of p.
Complete(p) == Len(Follower[p]) = Len(Leader[p])

\* The batch of t is what the leader has of p from offset o on.
BatchFrom(t, p, o) ==
    /\ Len(batch[t]) + o = Len(Leader[p])
    /\ \A i \in 1..Len(batch[t]) : batch[t][i] = Leader[p][o + i]

\* How far synchronize_follower has come, as long as the follower has not crashed meanwhile.
SyncInv(t) ==
    /\ pc[t] = "sync" => \A p \in TP \ todo[t] : Complete(p)
    /\ pc[t] \in {"progress", "missing", "connect", "catchup", "catchupReply"} =>
          \A p \in TP \ todo[t] : p # cur[t] => Complete(p)
    /\ pc[t] = "progress" =>
          call[t].tp = cur[t] /\ (call[t].reply = "OK" => call[t].off = Len(Follower[cur[t]]))
    /\ pc[t] \in {"missing", "connect", "catchup"} => off[t] = Len(Follower[cur[t]])
    /\ pc[t] \in {"connect", "catchup", "catchupReply"} => BatchFrom(t, cur[t], off[t])
    /\ pc[t] \in {"catchup", "catchupReply"} => t \in conn
    /\ pc[t] = "catchupReply" =>
          /\ call[t].tp = cur[t] /\ call[t].off = off[t] /\ call[t].val = batch[t][1]
          /\ call[t].reply = "none" => off[t] = Len(Follower[cur[t]])
          /\ call[t].reply = "OK" => off[t] + 1 = Len(Follower[cur[t]])

\* How far the record of the PRODUCE has come.
ProduceInv(t) ==
    /\ pc[t] = "append" => \A p \in TP : Complete(p)
    /\ pc[t] \in {"replicate", "reply"} =>
          /\ \A p \in TP : p # req[t].tp => Complete(p)
          /\ off[t] + 1 = Len(Leader[req[t].tp])
          /\ Leader[req[t].tp][off[t] + 1] = req[t].val
    /\ pc[t] = "replicate" => off[t] = Len(Follower[req[t].tp])
    /\ pc[t] = "reply" =>
          /\ call[t].off = off[t]
          /\ call[t].reply = "none" => off[t] = Len(Follower[req[t].tp])
          /\ call[t].reply = "OK" => off[t] + 1 = Len(Follower[req[t].tp])

\* Once the follower has answered OK it has every record, even if it crashes thereafter.
DoneInv ==
    \A t \in Thread : pc[t] = "reply" /\ call[t].reply = "OK" => \A p \in TP : Complete(p)

OrderInv ==
    /\ FollowerIsPrefix
    /\ FaultFree
    /\ ServesLog
    /\ DownInv
    /\ OrphanInv
    /\ DoneInv
    /\ "follower" \in up => \A t \in Thread : SyncInv(t) /\ ProduceInv(t)

----------------------------------------------------------------------------
(* Logs *)

\* The logs have their types.
LEMMA LogTypes ==
    ASSUME IInv
    PROVE  /\ Leader \in [TP -> Seq(Payload)] /\ Follower \in [TP -> Seq(Payload)]
           /\ \A p \in TP : Len(Leader[p]) \in Nat /\ Len(Follower[p]) \in Nat
<1>1. Leader \in [TP -> Seq(Payload)] /\ Follower \in [TP -> Seq(Payload)]
  BY DEF IInv, TypeOK, BrokersOK, Broker, Leader, Follower
<1> QED
  BY <1>1

\* A PRODUCE in progress is in a leader that runs.
LEMMA LeaderRuns ==
    ASSUME OrderInv, NEW t \in Thread, pc[t] # "idle"
    PROVE  "leader" \in up /\ orphans = {} /\ mem["leader"] = Leader
  BY DEF OrderInv, DownInv, ServesLog

\* Steps that leave the brokers alone keep what the invariant says about them.
LEMMA BrokersKept ==
    ASSUME OrderInv, UNCHANGED <<brokers, orphans, errors>>
    PROVE  /\ FollowerIsPrefix' /\ FaultFree' /\ ServesLog' /\ OrphanInv'
           /\ Leader' = Leader /\ Follower' = Follower /\ up' = up
<1>1. /\ log' = log /\ up' = up /\ mem' = mem /\ torn' = torn /\ progress' = progress
      /\ orphans' = orphans /\ errors' = errors
  BY DEF brokers
<1>2. Leader' = Leader /\ Follower' = Follower
  BY <1>1 DEF Leader, Follower
<1>3. FollowerIsPrefix'
  BY <1>1 DEF OrderInv, FollowerIsPrefix, IsPrefixOf
<1>4. FaultFree'
  BY <1>1 DEF OrderInv, FaultFree
<1>5. ServesLog'
  BY <1>1, <1>2 DEF OrderInv, ServesLog
<1>6. OrphanInv'
  BY <1>1, <1>2 DEF OrderInv, OrphanInv, NextRecord
<1> QED
  BY <1>1, <1>2, <1>3, <1>4, <1>5, <1>6

\* As long as the follower runs, the answer OK is about the only record it lacked.
LEMMA DoneFollows ==
    ASSUME \A t \in Thread : ProduceInv(t)'
    PROVE  DoneInv'
<1> SUFFICES ASSUME NEW t \in Thread, pc'[t] = "reply", call'[t].reply = "OK", NEW p \in TP
             PROVE  Complete(p)'
  BY DEF DoneInv
<1>1. /\ p # req'[t].tp => Complete(p)'
      /\ (off[t] + 1 = Len(Leader[req[t].tp]) /\ off[t] + 1 = Len(Follower[req[t].tp]))'
  BY DEF ProduceInv
<1> QED
  BY <1>1 DEF Complete

\* A step of the thread: what it has to keep.
LEMMA ThreadMoves ==
    ASSUME Undisturbed, OrderInv, UNCHANGED <<brokers, orphans, errors>>, NEW t \in Thread,
           "leader" \in up,
           "follower" \notin up => conn' = {},
           call'[t] # None => /\ call'[t].reply # "ERROR"
                              /\ call'[t].reply = "none" => "follower" \in up
                              /\ call'[t].reply = "lost" => "follower" \notin up,
           "follower" \notin up => pc'[t] # "reply",
           "follower" \in up => SyncInv(t)' /\ ProduceInv(t)'
    PROVE  OrderInv'
<1>1. \A u \in Thread : u = t
  BY DEF Undisturbed
<1>2. /\ FollowerIsPrefix' /\ FaultFree' /\ ServesLog' /\ OrphanInv' /\ up' = up
      /\ orphans' = orphans
  BY BrokersKept
<1>3. DownInv'
  BY <1>1, <1>2 DEF OrderInv, DownInv
<1>4. "follower" \in up' => \A u \in Thread : SyncInv(u)' /\ ProduceInv(u)'
  BY <1>1, <1>2
<1>5. DoneInv'
  <2>1. "follower" \in up => DoneInv'
    BY <1>1, <1>2, <1>4, DoneFollows
  <2>2. "follower" \notin up => DoneInv'
    BY <1>1 DEF DoneInv
  <2> QED
    BY <2>1, <2>2
<1> QED
  BY <1>2, <1>3, <1>4, <1>5 DEF OrderInv

----------------------------------------------------------------------------
(* The steps of a PRODUCE *)

\* A PRODUCE arrives.
LEMMA ProduceStep ==
    ASSUME Undisturbed, IInv, OrderInv, NEW t \in Thread, NEW p \in TP, Produce(t, p)
    PROVE  OrderInv'
<1>1. /\ UNCHANGED <<brokers, orphans, errors>> /\ "leader" \in up
      /\ pc'[t] = "collect" /\ call'[t] = call[t] /\ conn' = conn
  BY DEF IInv, TypeOK, ThreadsOK, Produce, Goto
<1>2. SyncInv(t)' /\ ProduceInv(t)'
  BY <1>1 DEF SyncInv, ProduceInv
<1> QED
  BY <1>1, <1>2, ThreadMoves DEF OrderInv, DownInv

\* The partitions without messages have nothing to replicate.
LEMMA CollectStep ==
    ASSUME Undisturbed, IInv, OrderInv, NEW t \in Thread, Collect(t)
    PROVE  OrderInv'
<1>1. /\ UNCHANGED <<brokers, orphans, errors>> /\ pc[t] = "collect"
      /\ pc'[t] = "sync" /\ call' = call /\ conn' = conn
      /\ todo'[t] = {p \in TP : mem["leader"][p] # <<>>}
  BY DEF IInv, TypeOK, ThreadsOK, Collect, Goto
<1>2. "leader" \in up /\ mem["leader"] = Leader
  BY <1>1, LeaderRuns
<1>3. Leader' = Leader /\ Follower' = Follower
  BY <1>1, BrokersKept
<1>4. ASSUME NEW p \in TP, p \notin todo'[t] PROVE Complete(p)'
  <2>1. Leader[p] = <<>>
    BY <1>1, <1>2, <1>4
  <2>2. Len(Follower[p]) \in Nat /\ Len(Follower[p]) <= Len(Leader[p])
    BY LogTypes DEF OrderInv, FollowerIsPrefix, IsPrefixOf, Leader, Follower
  <2>3. Len(Leader[p]) = 0
    BY <2>1
  <2> QED
    BY <1>3, <2>2, <2>3 DEF Complete
<1>5. SyncInv(t)' /\ ProduceInv(t)'
  BY <1>1, <1>4 DEF SyncInv, ProduceInv
<1> QED
  BY <1>1, <1>2, <1>5, ThreadMoves DEF OrderInv, DownInv

\* The follower is asked for its progress.
LEMMA QueryStep ==
    ASSUME Undisturbed, IInv, OrderInv, NEW t \in Thread, Query(t)
    PROVE  OrderInv'
<1>1. PICK p \in todo[t] :
        /\ cur' = [cur EXCEPT ![t] = p]
        /\ call' = [call EXCEPT ![t] = [type |-> "REPLICATION_PROGRESS", tp |-> p, off |-> 0,
                                        val |-> 0, reply |-> "none"]]
  BY DEF Query
<1>2. /\ UNCHANGED <<brokers, orphans, errors>> /\ pc[t] = "sync" /\ "follower" \in up
      /\ pc'[t] = "progress" /\ conn' = conn /\ todo' = todo /\ cur'[t] = p
      /\ call'[t].tp = p /\ call'[t].reply = "none"
  BY <1>1 DEF IInv, TypeOK, ThreadsOK, CallsOK, Query, Goto
<1>3. "leader" \in up
  BY <1>2, LeaderRuns
<1>4. Leader' = Leader /\ Follower' = Follower
  BY <1>2, BrokersKept
<1>5. \A q \in TP \ todo[t] : Complete(q)
  BY <1>2 DEF OrderInv, SyncInv
<1>6. SyncInv(t)' /\ ProduceInv(t)'
  BY <1>2, <1>4, <1>5 DEF SyncInv, ProduceInv, Complete
<1> QED
  BY <1>2, <1>3, <1>6, ThreadMoves DEF OrderInv, DownInv

\* Its answer is the number of records it has.
LEMMA GotProgressStep ==
    ASSUME Undisturbed, IInv, OrderInv, NEW t \in Thread, GotProgress(t)
    PROVE  OrderInv'
<1>1. /\ UNCHANGED <<brokers, orphans, errors>> /\ pc[t] = "progress" /\ call[t].reply = "OK"
      /\ pc'[t] = "missing" /\ conn' = conn /\ todo' = todo /\ cur' = cur
      /\ call'[t] = None /\ off'[t] = call[t].off
  BY DEF IInv, TypeOK, ThreadsOK, CallsOK, GotProgress, Goto
<1>2. "leader" \in up
  BY <1>1, LeaderRuns
<1>3. Leader' = Leader /\ Follower' = Follower
  BY <1>1, BrokersKept
<1>4. ASSUME "follower" \in up PROVE SyncInv(t)' /\ ProduceInv(t)'
  <2>1. (\A p \in TP \ todo[t] : p # cur[t] => Complete(p)) /\ call[t].off = Len(Follower[cur[t]])
    BY <1>1, <1>4 DEF OrderInv, SyncInv
  <2> QED
    BY <1>1, <1>3, <2>1 DEF SyncInv, ProduceInv, Complete
<1> QED
  BY <1>1, <1>2, <1>4, ThreadMoves DEF OrderInv, DownInv

\* The records behind them are copied, or there are none and the partition is complete.
LEMMA MissingStep ==
    ASSUME Undisturbed, IInv, OrderInv, NEW t \in Thread, Missing(t)
    PROVE  OrderInv'
<1>1. /\ UNCHANGED <<brokers, orphans, errors>> /\ pc[t] = "missing"
      /\ conn' = conn /\ call' = call
  BY DEF Missing
<1>2. "leader" \in up /\ mem["leader"] = Leader
  BY <1>1, LeaderRuns
<1>3. Leader' = Leader /\ Follower' = Follower
  BY <1>1, BrokersKept
<1>4. cur[t] \in TP /\ off[t] \in Nat
  BY <1>1 DEF IInv, TypeOK, ThreadsOK, PcInv
<1>5. PICK s \in Seq(Payload) : s = Leader[cur[t]]
  BY <1>4, LogTypes
<1>6. PICK o \in Nat : o = off[t]
  BY <1>4
<1>7. PICK m : m = SubSeq(s, o + 1, Len(s))
  OBVIOUS
<1>8. \/ /\ m = <<>> /\ pc'[t] = "sync" /\ todo'[t] = todo[t] \ {cur[t]}
      \/ /\ m # <<>> /\ pc'[t] = "connect" /\ batch'[t] = m /\ UNCHANGED <<todo, cur, off>>
  BY <1>2, <1>5, <1>6, <1>7 DEF IInv, TypeOK, ThreadsOK, Missing, MissingRecords, Visited, Goto
<1>9. ASSUME "follower" \in up PROVE SyncInv(t)' /\ ProduceInv(t)'
  <2>1. (\A p \in TP \ todo[t] : p # cur[t] => Complete(p)) /\ o = Len(Follower[cur[t]])
    BY <1>1, <1>6, <1>9 DEF OrderInv, SyncInv
  <2>2. Len(s) \in Nat /\ o <= Len(s)
    BY <1>4, <1>5, <2>1 DEF OrderInv, FollowerIsPrefix, IsPrefixOf, Leader, Follower
  <2>3. /\ m \in Seq(Payload) /\ Len(m) = Len(s) - o
        /\ \A i \in 1..Len(m) : m[i] = s[o + i]
    BY <1>7, <2>2
  <2>4. CASE m = <<>> /\ pc'[t] = "sync" /\ todo'[t] = todo[t] \ {cur[t]}
    <3>1. Complete(cur[t])
      <4>1. Len(m) = 0
        BY <2>4
      <4> QED
        BY <1>5, <2>1, <2>2, <2>3, <4>1 DEF Complete
    <3>2. \A p \in TP \ todo'[t] : Complete(p)
      BY <2>1, <2>4, <3>1
    <3> QED
      BY <1>3, <2>4, <3>2 DEF SyncInv, ProduceInv, Complete
  <2>5. CASE m # <<>> /\ pc'[t] = "connect" /\ batch'[t] = m /\ UNCHANGED <<todo, cur, off>>
    <3>1. BatchFrom(t, cur[t], off[t])'
      <4>1. Len(m) + o = Len(s)
        BY <2>2, <2>3
      <4> QED
        BY <1>3, <1>5, <1>6, <2>3, <2>5, <4>1 DEF BatchFrom
    <3> QED
      BY <1>3, <1>6, <2>1, <2>5, <3>1 DEF SyncInv, ProduceInv, Complete
  <2> QED
    BY <1>8, <2>4, <2>5
<1> QED
  BY <1>1, <1>2, <1>8, <1>9, ThreadMoves DEF OrderInv, DownInv

\* A connection for the catch-up is opened.
LEMMA ConnectStep ==
    ASSUME Undisturbed, IInv, OrderInv, NEW t \in Thread, Connect(t)
    PROVE  OrderInv'
<1>1. /\ UNCHANGED <<brokers, orphans, errors>> /\ pc[t] = "connect" /\ "follower" \in up
      /\ pc'[t] = "catchup" /\ t \in conn' /\ UNCHANGED <<todo, cur, batch, off, call>>
  BY DEF IInv, TypeOK, ThreadsOK, Connect, Goto
<1>2. "leader" \in up
  BY <1>1, LeaderRuns
<1>3. Leader' = Leader /\ Follower' = Follower
  BY <1>1, BrokersKept
<1>4. /\ \A p \in TP \ todo[t] : p # cur[t] => Complete(p)
      /\ off[t] = Len(Follower[cur[t]]) /\ BatchFrom(t, cur[t], off[t])
  BY <1>1 DEF OrderInv, SyncInv
<1>5. SyncInv(t)' /\ ProduceInv(t)'
  BY <1>1, <1>3, <1>4 DEF SyncInv, ProduceInv, Complete, BatchFrom
<1> QED
  BY <1>1, <1>2, <1>5, ThreadMoves DEF OrderInv, DownInv

\* The first record of the batch is sent.
LEMMA CatchUpStep ==
    ASSUME Undisturbed, IInv, OrderInv, NEW t \in Thread, CatchUp(t)
    PROVE  OrderInv'
<1>1. /\ UNCHANGED <<brokers, orphans, errors>> /\ pc[t] = "catchup" /\ t \in conn
      /\ pc'[t] = "catchupReply" /\ UNCHANGED <<todo, cur, batch, off, conn>>
      /\ call' = [call EXCEPT ![t] = Replication(cur[t], off[t], Head(batch[t]))]
  BY DEF IInv, TypeOK, ThreadsOK, CatchUp, Goto
<1>2. "leader" \in up /\ "follower" \in up
  BY <1>1, LeaderRuns DEF OrderInv, DownInv
<1>3. Leader' = Leader /\ Follower' = Follower
  BY <1>1, BrokersKept
<1>4. Head(batch[t]) = batch[t][1]
  BY DEF IInv, TypeOK, ThreadsOK
<1>5. /\ call'[t].tp = cur[t] /\ call'[t].off = off[t] /\ call'[t].val = batch[t][1]
      /\ call'[t].reply = "none"
  BY <1>1, <1>4 DEF IInv, TypeOK, CallsOK, Replication
<1>6. /\ \A p \in TP \ todo[t] : p # cur[t] => Complete(p)
      /\ off[t] = Len(Follower[cur[t]]) /\ BatchFrom(t, cur[t], off[t])
  BY <1>1, <1>2 DEF OrderInv, SyncInv
<1>7. SyncInv(t)' /\ ProduceInv(t)'
  BY <1>1, <1>3, <1>5, <1>6 DEF SyncInv, ProduceInv, Complete, BatchFrom
<1> QED
  BY <1>1, <1>2, <1>5, <1>7, ThreadMoves DEF OrderInv, DownInv

\* The follower has the first record of the batch; after the last one the partition is
\* complete.
LEMMA CaughtUpStep ==
    ASSUME Undisturbed, IInv, OrderInv, NEW t \in Thread, CaughtUp(t)
    PROVE  OrderInv'
<1>1. /\ UNCHANGED <<brokers, orphans, errors>> /\ pc[t] = "catchupReply"
      /\ call[t].reply = "OK" /\ call'[t] = None /\ batch'[t] = Tail(batch[t])
  BY DEF IInv, TypeOK, ThreadsOK, CallsOK, CaughtUp
<1>2. "leader" \in up
  BY <1>1, LeaderRuns
<1>3. Leader' = Leader /\ Follower' = Follower
  BY <1>1, BrokersKept
<1>4. cur[t] \in TP /\ off[t] \in Nat /\ batch[t] \in Seq(Payload) /\ batch[t] # <<>>
  BY <1>1 DEF IInv, TypeOK, ThreadsOK, PcInv
<1>5. PICK m \in Seq(Payload), o \in Nat : m = batch[t] /\ o = off[t]
  BY <1>4
<1>6. PICK u \in Seq(Payload) :
        /\ u = Tail(m) /\ Len(m) \in Nat /\ Len(u) \in Nat /\ Len(u) = Len(m) - 1
        /\ \A i \in 1..Len(u) : u[i] = m[i + 1]
  <2>1. m # <<>> /\ Len(m) \in Nat
    BY <1>4, <1>5
  <2>2. Tail(m) \in Seq(Payload) /\ Len(Tail(m)) = Len(m) - 1
    BY <2>1
  <2>3. \A i \in 1..Len(Tail(m)) : Tail(m)[i] = m[i + 1]
    BY <2>1, <2>2
  <2>4. Len(Tail(m)) \in Nat
    BY <2>2
  <2> QED
    BY <2>1, <2>2, <2>3, <2>4
<1>7. \/ /\ u = <<>> /\ pc'[t] = "sync" /\ todo'[t] = todo[t] \ {cur[t]}
         /\ conn' = conn \ {t}
      \/ /\ u # <<>> /\ pc'[t] = "catchup" /\ off'[t] = o + 1 /\ UNCHANGED <<todo, cur, conn>>
  BY <1>5, <1>6 DEF IInv, TypeOK, ThreadsOK, CaughtUp, Visited, Goto
<1>8. ASSUME "follower" \in up PROVE SyncInv(t)' /\ ProduceInv(t)'
  <2>1. /\ \A p \in TP \ todo[t] : p # cur[t] => Complete(p)
        /\ o + 1 = Len(Follower[cur[t]])
        /\ BatchFrom(t, cur[t], off[t])
    BY <1>1, <1>5, <1>8 DEF OrderInv, SyncInv
  <2>2. PICK n : n = Len(Leader[cur[t]])
    OBVIOUS
  <2>3. /\ Len(m) + o = n
        /\ \A i \in 1..Len(m) : m[i] = Leader[cur[t]][o + i]
    BY <1>5, <2>1, <2>2 DEF BatchFrom
  <2>4. CASE u = <<>> /\ pc'[t] = "sync" /\ todo'[t] = todo[t] \ {cur[t]}
    <3>1. Complete(cur[t])
      <4>1. Len(u) = 0
        BY <2>4
      <4>2. o + 1 = n
        BY <1>6, <2>3, <4>1
      <4> QED
        BY <2>1, <2>2, <4>2 DEF Complete
    <3>2. \A p \in TP \ todo'[t] : Complete(p)
      BY <2>1, <2>4, <3>1
    <3> QED
      BY <1>3, <2>4, <3>2 DEF SyncInv, ProduceInv, Complete
  <2>5. CASE pc'[t] = "catchup" /\ off'[t] = o + 1 /\ UNCHANGED <<todo, cur, conn>>
    <3>1. Len(u) + (o + 1) = n
      BY <1>6, <2>3
    <3>2. ASSUME NEW i \in 1..Len(u) PROVE u[i] = Leader[cur[t]][(o + 1) + i]
      <4>1. i + 1 \in 1..Len(m) /\ o + (i + 1) = (o + 1) + i
        BY <1>6
      <4>2. m[i + 1] = Leader[cur[t]][o + (i + 1)]
        BY <2>3, <4>1
      <4> QED
        BY <1>6, <4>1, <4>2
    <3>3. BatchFrom(t, cur[t], off[t])'
      BY <1>1, <1>3, <1>5, <1>6, <2>2, <2>5, <3>1, <3>2 DEF BatchFrom
    <3>4. t \in conn'
      BY <1>1, <1>8, <2>5 DEF OrderInv, SyncInv
    <3> QED
      BY <1>3, <2>1, <2>5, <3>3, <3>4 DEF SyncInv, ProduceInv, Complete
  <2> QED
    BY <1>7, <2>4, <2>5
<1> QED
  BY <1>1, <1>2, <1>7, <1>8, ThreadMoves DEF OrderInv, DownInv

\* Every partition is complete.
LEMMA SyncDoneStep ==
    ASSUME Undisturbed, IInv, OrderInv, NEW t \in Thread, SyncDone(t)
    PROVE  OrderInv'
<1>1. /\ UNCHANGED <<brokers, orphans, errors>> /\ pc[t] = "sync" /\ todo[t] = {}
      /\ pc'[t] = "append" /\ UNCHANGED <<conn, call>>
  BY DEF IInv, TypeOK, ThreadsOK, SyncDone, Goto
<1>2. "leader" \in up
  BY <1>1, LeaderRuns
<1>3. Leader' = Leader /\ Follower' = Follower
  BY <1>1, BrokersKept
<1>4. "follower" \in up => \A p \in TP : Complete(p)
  BY <1>1 DEF OrderInv, SyncInv
<1>5. "follower" \in up => SyncInv(t)' /\ ProduceInv(t)'
  BY <1>1, <1>3, <1>4 DEF SyncInv, ProduceInv, Complete
<1> QED
  BY <1>1, <1>2, <1>5, ThreadMoves DEF OrderInv, DownInv

\* The synchronization fails only when the follower is down.
LEMMA SyncFailsStep ==
    ASSUME Undisturbed, IInv, OrderInv, NEW t \in Thread, SyncFails(t)
    PROVE  OrderInv'
<1>1. /\ UNCHANGED <<brokers, orphans, errors>> /\ pc[t] # "idle" /\ pc'[t] = "append"
      /\ conn' = conn \ {t} /\ call'[t] = None
  BY DEF IInv, TypeOK, ThreadsOK, CallsOK, SyncFails, Goto
<1>2. "leader" \in up
  BY <1>1, LeaderRuns
<1>3. "follower" \notin up
  <2>1. CASE pc[t] \in {"sync", "connect"} /\ CannotConnect
    BY <2>1 DEF CannotConnect, Undisturbed
  <2>2. CASE pc[t] \in {"progress", "catchupReply"} /\ call[t].reply \in {"ERROR", "lost"}
    <3>1. call[t] # None
      BY <2>2 DEF IInv, PcInv, Waiting
    <3> QED
      BY <2>2, <3>1 DEF OrderInv, DownInv
  <2>3. CASE pc[t] = "catchup" /\ (t \notin conn \/ Head(batch[t]) \in Big)
    BY <2>3 DEF Undisturbed, OrderInv, SyncInv
  <2> QED
    BY <2>1, <2>2, <2>3 DEF SyncFails
<1> QED
  BY <1>1, <1>2, <1>3, ThreadMoves DEF OrderInv, DownInv

\* The record is sent to the follower.
LEMMA ReplicateStep ==
    ASSUME Undisturbed, IInv, OrderInv, NEW t \in Thread, Replicate(t)
    PROVE  OrderInv'
<1>1. /\ UNCHANGED <<brokers, orphans, errors>> /\ pc[t] = "replicate" /\ "follower" \in up
      /\ pc'[t] = "reply" /\ UNCHANGED <<req, off, conn>>
      /\ call'[t] = Replication(req[t].tp, off[t], req[t].val)
  BY DEF IInv, TypeOK, ThreadsOK, CallsOK, Replicate, Goto
<1>2. "leader" \in up
  BY <1>1, LeaderRuns
<1>3. Leader' = Leader /\ Follower' = Follower
  BY <1>1, BrokersKept
<1>4. call'[t].off = off[t] /\ call'[t].reply = "none"
  BY <1>1 DEF Replication
<1>5. /\ \A p \in TP : p # req[t].tp => Complete(p)
      /\ off[t] + 1 = Len(Leader[req[t].tp])
      /\ Leader[req[t].tp][off[t] + 1] = req[t].val
      /\ off[t] = Len(Follower[req[t].tp])
  BY <1>1 DEF OrderInv, ProduceInv
<1>6. SyncInv(t)' /\ ProduceInv(t)'
  BY <1>1, <1>3, <1>4, <1>5 DEF SyncInv, ProduceInv, Complete
<1> QED
  BY <1>1, <1>2, <1>4, <1>6, ThreadMoves DEF OrderInv, DownInv

\* The PRODUCE ends.
LEMMA ReplyStep ==
    ASSUME Undisturbed, IInv, OrderInv, NEW t \in Thread, ReplyOk(t) \/ ReplyError(t)
    PROVE  OrderInv'
<1>1. /\ UNCHANGED <<brokers, orphans, errors>> /\ pc[t] # "idle"
      /\ pc'[t] = "idle" /\ call'[t] = None /\ conn' = conn
  BY DEF IInv, TypeOK, ThreadsOK, CallsOK, ReplyOk, ReplyError, CannotReplicate, Return, Goto
<1>2. "leader" \in up
  BY <1>1, LeaderRuns
<1>3. SyncInv(t)' /\ ProduceInv(t)'
  BY <1>1 DEF SyncInv, ProduceInv
<1> QED
  BY <1>1, <1>2, <1>3, ThreadMoves DEF OrderInv, DownInv

\* The follower reports how many records it has.
LEMMA AnswerProgressStep ==
    ASSUME Undisturbed, IInv, OrderInv, NEW t \in Thread, AnswerProgress(t)
    PROVE  OrderInv'
<1>1. /\ UNCHANGED <<brokers, orphans, errors>> /\ UNCHANGED <<pc, conn, todo, cur>>
      /\ "follower" \in up /\ call[t] # None /\ call[t].type = "REPLICATION_PROGRESS"
      /\ call' = [call EXCEPT ![t].reply = "OK", ![t].off = progress[call[t].tp] + 1]
  BY DEF AnswerProgress, Pending, threads
<1>2. pc[t] = "progress"
  BY <1>1 DEF IInv, PcInv, Waiting
<1>3. call[t] \in Call
  BY <1>1 DEF IInv, TypeOK, CallsOK
<1>4. /\ call'[t].tp = call[t].tp /\ call'[t].reply = "OK"
      /\ call'[t].off = progress[call[t].tp] + 1
  BY <1>1, <1>3 DEF IInv, TypeOK, CallsOK, Call
<1>5. "leader" \in up
  BY <1>2, LeaderRuns
<1>6. Leader' = Leader /\ Follower' = Follower
  BY <1>1, BrokersKept
<1>7. /\ \A p \in TP \ todo[t] : p # cur[t] => Complete(p)
      /\ call[t].tp = cur[t] /\ cur[t] \in TP
  BY <1>1, <1>2 DEF OrderInv, SyncInv, IInv, PcInv
<1>8. call'[t].off = Len(Follower[cur[t]])
  <2>1. progress[cur[t]] = Len(Follower[cur[t]]) - 1 /\ Len(Follower[cur[t]]) \in Nat
    BY <1>1, <1>7, LogTypes DEF OrderInv, ServesLog
  <2> QED
    BY <1>4, <1>7, <2>1
<1>9. SyncInv(t)' /\ ProduceInv(t)'
  BY <1>1, <1>2, <1>4, <1>6, <1>7, <1>8 DEF SyncInv, ProduceInv, Complete
<1> QED
  BY <1>1, <1>4, <1>5, <1>9, ThreadMoves DEF OrderInv, DownInv

----------------------------------------------------------------------------
(* Appends *)

\* Without failures no append throws.
LEMMA NeverFails ==
    ASSUME Undisturbed, OrderInv, NEW b \in Broker, NEW p, NEW v
    PROVE  ~PersistFails(b, p, v)
<1>1. errors[b] = 0
  BY DEF OrderInv, FaultFree
<1>2. (IF b = "leader" THEN MaxLeaderErrors ELSE MaxFollowerErrors) = 0
  BY DEF Undisturbed
<1> QED
  BY <1>1, <1>2 DEF PersistFails

\* Every append reaches the log file, and no other log.
LEMMA Persisted ==
    ASSUME IInv, OrderInv, NEW b \in Broker, NEW p \in TP, NEW v \in Payload, Persist(b, p, v)
    PROVE  /\ torn' = torn
           /\ log'[b] = [log[b] EXCEPT ![p] = Append(@, v)]
           /\ \A c \in Broker : c # b => log'[c] = log[c]
<1>1. p \notin torn[b]
  BY DEF OrderInv, FaultFree
<1>2. torn' = torn /\ log' = [log EXCEPT ![b][p] = Append(@, v)]
  BY <1>1 DEF Persist
<1> QED
  BY <1>2 DEF IInv, TypeOK, BrokersOK

\* The record at the end of a sequence.
LEMMA AppendFacts ==
    ASSUME NEW s \in Seq(Payload), NEW v \in Payload, NEW u, u = Append(s, v)
    PROVE  /\ u \in Seq(Payload) /\ Len(u) = Len(s) + 1 /\ Len(s) \in Nat
           /\ u[Len(s) + 1] = v
           /\ \A i \in 1..Len(s) : u[i] = s[i]
  OBVIOUS

\* The leader appends to its log what the follower may lack.
LEMMA AppendLocalStep ==
    ASSUME Undisturbed, IInv, OrderInv, NEW t \in Thread, AppendLocal(t)
    PROVE  OrderInv'
<1>1. pc[t] = "append" /\ req[t] \in Record
  BY DEF AppendLocal, IInv, PcInv
<1>2. PICK p \in TP, v \in Payload : p = req[t].tp /\ v = req[t].val
  BY <1>1 DEF Record
<1>3. /\ UNCHANGED <<up, progress, req, conn, call, orphans, errors>>
      /\ mem' = [mem EXCEPT !["leader"][p] = Append(@, v)]
      /\ Persist("leader", p, v)
      /\ pc'[t] = "replicate"
      /\ off'[t] = Len(mem["leader"][p])
  BY <1>2 DEF AppendLocal, Goto, IInv, TypeOK, ThreadsOK
<1>4. "leader" \in up /\ orphans = {} /\ mem["leader"] = Leader
  BY <1>1, LeaderRuns
<1>5. /\ torn' = torn
      /\ Leader' = [Leader EXCEPT ![p] = Append(@, v)]
      /\ Follower' = Follower
  BY <1>3, Persisted DEF Broker, Leader, Follower
<1>6. mem'["leader"] = [mem["leader"] EXCEPT ![p] = Append(@, v)] /\ mem'["follower"] = mem["follower"]
  BY <1>3 DEF IInv, TypeOK, BrokersOK, Broker
<1>7. /\ Leader[p] \in Seq(Payload) /\ Leader'[p] = Append(Leader[p], v)
      /\ \A q \in TP : q # p => Leader'[q] = Leader[q]
  BY <1>5, LogTypes
<1>8. PICK n \in Nat : n = Len(Leader[p])
  BY LogTypes
<1>9. /\ Len(Leader'[p]) = n + 1 /\ Leader'[p][n + 1] = v
      /\ \A i \in 1..n : Leader'[p][i] = Leader[p][i]
  BY <1>7, <1>8, AppendFacts
<1>10. FollowerIsPrefix'
  <2>1. ASSUME NEW q \in TP PROVE IsPrefixOf(Follower[q], Leader'[q])
    <3>1. IsPrefixOf(Follower[q], Leader[q]) /\ Len(Follower[q]) \in Nat
      BY LogTypes DEF OrderInv, FollowerIsPrefix, Leader, Follower
    <3>2. CASE q = p
      <4>1. Len(Follower[p]) <= n /\ \A i \in 1..Len(Follower[p]) : Follower[p][i] = Leader[p][i]
        BY <1>8, <3>1, <3>2 DEF IsPrefixOf
      <4>2. Len(Follower[p]) <= n + 1 /\ \A i \in 1..Len(Follower[p]) : i \in 1..n
        BY <3>1, <3>2, <4>1
      <4> QED
        BY <1>9, <3>2, <4>1, <4>2 DEF IsPrefixOf
    <3>3. CASE q # p
      BY <1>7, <3>1, <3>3
    <3> QED
      BY <3>2, <3>3
  <2> QED
    BY <1>5, <2>1 DEF FollowerIsPrefix, Leader, Follower
<1>11. FaultFree' /\ OrphanInv'
  BY <1>3, <1>4, <1>5 DEF OrderInv, FaultFree, OrphanInv
<1>12. ServesLog'
  BY <1>3, <1>4, <1>5, <1>6 DEF OrderInv, ServesLog
<1>13. DownInv'
  <2>1. "leader" \in up' /\ orphans' = {}
    BY <1>3, <1>4
  <2> QED
    BY <1>3, <2>1 DEF OrderInv, DownInv
<1>14. \A u \in Thread : u = t
  BY DEF Undisturbed
<1>15. ASSUME "follower" \in up PROVE SyncInv(t)' /\ ProduceInv(t)'
  <2>1. \A q \in TP : Complete(q)
    BY <1>1, <1>15 DEF OrderInv, ProduceInv
  <2>2. \A q \in TP : q # p => Complete(q)'
    BY <1>5, <1>7, <2>1 DEF Complete
  <2>3. off'[t] = n /\ n = Len(Follower'[p]) /\ n + 1 = Len(Leader'[p])
    BY <1>3, <1>4, <1>5, <1>8, <1>9, <2>1 DEF Complete
  <2> QED
    BY <1>2, <1>3, <1>9, <2>2, <2>3 DEF SyncInv, ProduceInv
<1>16. DoneInv'
  BY <1>3, <1>14 DEF DoneInv
<1> QED
  BY <1>3, <1>10, <1>11, <1>12, <1>13, <1>14, <1>15, <1>16 DEF OrderInv

\* The follower appends the next record.
LEMMA FollowerAppends ==
    ASSUME IInv, OrderInv, NEW p \in TP, NEW o \in Nat, NEW v \in Payload,
           "follower" \in up, NextRecord(p, o, v), Apply(p, o, v), UNCHANGED <<up, errors>>
    PROVE  /\ FollowerIsPrefix' /\ FaultFree' /\ ServesLog'
           /\ Leader' = Leader /\ Len(Follower'[p]) = o + 1
           /\ \A q \in TP : q # p => Follower'[q] = Follower[q]
<1>1. /\ torn' = torn
      /\ Follower' = [Follower EXCEPT ![p] = Append(@, v)]
      /\ Leader' = Leader
  BY Persisted DEF Apply, Broker, Leader, Follower
<1>2. /\ Follower[p] \in Seq(Payload) /\ Follower'[p] = Append(Follower[p], v)
      /\ \A q \in TP : q # p => Follower'[q] = Follower[q]
  BY <1>1, LogTypes
<1>3. o = Len(Follower[p]) /\ o < Len(Leader[p]) /\ Leader[p][o + 1] = v
  BY DEF NextRecord
<1>4. /\ Len(Follower'[p]) = o + 1 /\ Follower'[p][o + 1] = v
      /\ \A i \in 1..o : Follower'[p][i] = Follower[p][i]
  BY <1>2, <1>3, AppendFacts
<1>5. FollowerIsPrefix'
  <2>1. ASSUME NEW q \in TP PROVE IsPrefixOf(Follower'[q], Leader[q])
    <3>1. IsPrefixOf(Follower[q], Leader[q]) /\ Len(Leader[q]) \in Nat
      BY LogTypes DEF OrderInv, FollowerIsPrefix, Leader, Follower
    <3>2. CASE q = p
      <4>1. \A i \in 1..o : Follower[p][i] = Leader[p][i]
        BY <1>3, <3>1, <3>2 DEF IsPrefixOf
      <4>2. o + 1 <= Len(Leader[p]) /\ \A i \in 1..(o + 1) : i \in 1..o \/ i = o + 1
        BY <1>3, <3>1, <3>2
      <4>3. \A i \in 1..(o + 1) : Follower'[p][i] = Leader[p][i]
        BY <1>3, <1>4, <4>1, <4>2
      <4> QED
        BY <1>4, <3>2, <4>2, <4>3 DEF IsPrefixOf
    <3>3. CASE q # p
      BY <1>2, <3>1, <3>3
    <3> QED
      BY <3>2, <3>3
  <2> QED
    BY <1>1, <2>1 DEF FollowerIsPrefix, Leader, Follower
<1>6. FaultFree'
  BY <1>1 DEF OrderInv, FaultFree
<1>7. ServesLog'
  <2>1. /\ mem'["leader"] = mem["leader"]
        /\ mem'["follower"] = [mem["follower"] EXCEPT ![p] = Append(@, v)]
    BY DEF IInv, TypeOK, BrokersOK, Broker, Apply
  <2>2. mem'["follower"] = Follower'
    BY <1>1, <2>1 DEF OrderInv, ServesLog
  <2>3. ASSUME NEW q \in TP PROVE progress'[q] = Len(Follower'[q]) - 1
    <3>1. CASE q = p
      <4>1. progress'[p] = o
        BY DEF Apply, IInv, TypeOK, BrokersOK
      <4> QED
        BY <1>4, <3>1, <4>1
    <3>2. CASE q # p
      <4>1. progress'[q] = progress[q] /\ Follower'[q] = Follower[q]
        BY <1>2, <3>2 DEF Apply, IInv, TypeOK, BrokersOK
      <4> QED
        BY <4>1 DEF OrderInv, ServesLog
    <3> QED
      BY <3>1, <3>2
  <2>4. "leader" \in up' => mem'["leader"] = Leader'
    BY <1>1, <2>1 DEF OrderInv, ServesLog
  <2> QED
    BY <2>2, <2>3, <2>4 DEF ServesLog
<1> QED
  BY <1>1, <1>2, <1>4, <1>5, <1>6, <1>7

\* A REPLICATE on its way brings the next record.
LEMMA RequestInOrder ==
    ASSUME IInv, OrderInv, NEW t \in Thread, Pending(t, "REPLICATE")
    PROVE  /\ call[t].tp \in TP /\ call[t].off \in Nat /\ call[t].val \in Payload
           /\ NextRecord(call[t].tp, call[t].off, call[t].val)
           /\ pc[t] \in {"catchupReply", "reply"}
<1>1. /\ "follower" \in up /\ call[t] # None /\ call[t].type = "REPLICATE"
      /\ call[t].reply = "none"
  BY DEF Pending
<1>2. pc[t] \in {"catchupReply", "reply"} /\ call[t].val \in Payload
  BY <1>1 DEF IInv, PcInv, Waiting
<1>3. call[t] \in Call
  BY <1>1 DEF IInv, TypeOK, CallsOK
<1>4. call[t].tp \in TP /\ call[t].off \in Nat
  BY <1>3 DEF Call
<1>5. CASE pc[t] = "catchupReply"
  <2>1. /\ call[t].tp = cur[t] /\ call[t].off = off[t] /\ call[t].val = batch[t][1]
        /\ off[t] = Len(Follower[cur[t]]) /\ BatchFrom(t, cur[t], off[t])
    BY <1>1, <1>5 DEF OrderInv, SyncInv
  <2>2. PICK m \in Seq(Payload), o \in Nat : m = batch[t] /\ o = off[t]
    BY DEF IInv, TypeOK, ThreadsOK
  <2>3. m # <<>>
    BY <1>5, <2>2 DEF IInv, PcInv
  <2>4. Len(m) \in Nat /\ Len(m) >= 1
    BY <2>3
  <2>5. 1 \in 1..Len(m)
    BY <2>4
  <2>6. /\ Len(m) + o = Len(Leader[cur[t]])
        /\ m[1] = Leader[cur[t]][o + 1]
    BY <2>1, <2>2, <2>5 DEF BatchFrom
  <2>7. o < Len(Leader[cur[t]])
    BY <2>4, <2>6
  <2> QED
    BY <1>2, <1>4, <1>5, <2>1, <2>2, <2>6, <2>7 DEF NextRecord
<1>6. CASE pc[t] = "reply"
  <2>1. /\ call[t].tp = req[t].tp /\ call[t].val = req[t].val /\ call[t].off = off[t]
        /\ off[t] + 1 = Len(Leader[req[t].tp]) /\ Leader[req[t].tp][off[t] + 1] = req[t].val
        /\ off[t] = Len(Follower[req[t].tp])
    BY <1>1, <1>6 DEF OrderInv, ProduceInv, IInv, PcInv
  <2>2. off[t] < Len(Leader[req[t].tp])
    BY <1>4, <2>1
  <2> QED
    BY <1>2, <1>4, <2>1, <2>2 DEF NextRecord
<1> QED
  BY <1>2, <1>5, <1>6

\* The follower handles a REPLICATE.
LEMMA AnswerReplicateStep ==
    ASSUME Undisturbed, IInv, OrderInv, NEW t \in Thread, AnswerReplicate(t)
    PROVE  OrderInv'
<1>1. /\ Pending(t, "REPLICATE") /\ "follower" \in up /\ call[t] # None
      /\ call[t].reply = "none"
  BY DEF AnswerReplicate, Pending
<1>2. PICK p \in TP, o \in Nat, v \in Payload :
        /\ p = call[t].tp /\ o = call[t].off /\ v = call[t].val /\ NextRecord(p, o, v)
  BY <1>1, RequestInOrder
<1>3. pc[t] \in {"catchupReply", "reply"}
  BY <1>1, RequestInOrder
<1>4. /\ UNCHANGED <<up, orphans, errors>>
      /\ UNCHANGED <<pc, req, todo, cur, batch, off, conn>>
      /\ Apply(p, o, v)
      /\ call' = [call EXCEPT ![t].reply = "OK"]
  BY <1>2 DEF AnswerReplicate, threads
<1>5. /\ call[t] \in Call
      /\ call'[t].tp = p /\ call'[t].off = o /\ call'[t].val = v /\ call'[t].reply = "OK"
  BY <1>1, <1>2, <1>4 DEF IInv, TypeOK, CallsOK, Call
<1>6. /\ FollowerIsPrefix' /\ FaultFree' /\ ServesLog'
      /\ Leader' = Leader /\ Len(Follower'[p]) = o + 1
      /\ \A q \in TP : q # p => Follower'[q] = Follower[q]
  BY <1>1, <1>2, <1>4, FollowerAppends
<1>7. "leader" \in up /\ orphans = {}
  BY <1>3, LeaderRuns
<1>8. \A u \in Thread : u = t
  BY DEF Undisturbed
<1>9. DownInv'
  BY <1>1, <1>4, <1>5, <1>7, <1>8 DEF OrderInv, DownInv
<1>10. OrphanInv'
  BY <1>4, <1>7 DEF OrphanInv
<1>11. SyncInv(t)'
  <2>1. CASE pc[t] = "catchupReply"
    <3>1. /\ p = cur[t] /\ o = off[t] /\ v = batch[t][1] /\ BatchFrom(t, cur[t], off[t])
          /\ t \in conn /\ \A q \in TP \ todo[t] : q # cur[t] => Complete(q)
      BY <1>1, <1>2, <2>1 DEF OrderInv, SyncInv
    <3>2. BatchFrom(t, cur[t], off[t])'
      BY <1>4, <1>6, <3>1 DEF BatchFrom
    <3>3. \A q \in TP \ todo'[t] : q # cur'[t] => Complete(q)'
      BY <1>4, <1>6, <3>1 DEF Complete
    <3> QED
      BY <1>4, <1>5, <1>6, <2>1, <3>1, <3>2, <3>3 DEF SyncInv
  <2>2. CASE pc[t] = "reply"
    BY <1>4, <2>2 DEF SyncInv
  <2> QED
    BY <1>3, <2>1, <2>2
<1>12. ProduceInv(t)'
  <2>1. CASE pc[t] = "catchupReply"
    BY <1>4, <2>1 DEF ProduceInv
  <2>2. CASE pc[t] = "reply"
    <3>1. /\ o = off[t] /\ off[t] + 1 = Len(Leader[req[t].tp])
          /\ Leader[req[t].tp][off[t] + 1] = req[t].val
          /\ \A q \in TP : q # req[t].tp => Complete(q)
      BY <1>1, <1>2, <2>2 DEF OrderInv, ProduceInv
    <3>2. p = req[t].tp
      BY <1>2, <2>2 DEF IInv, PcInv
    <3>3. \A q \in TP : q # req'[t].tp => Complete(q)'
      BY <1>4, <1>6, <3>1, <3>2 DEF Complete
    <3> QED
      BY <1>4, <1>5, <1>6, <2>2, <3>1, <3>2, <3>3 DEF ProduceInv
  <2> QED
    BY <1>3, <2>1, <2>2
<1>13. DoneInv'
  BY <1>8, <1>12, DoneFollows
<1> QED
  BY <1>4, <1>6, <1>8, <1>9, <1>10, <1>11, <1>12, <1>13 DEF OrderInv

\* At rest there is nothing to say about the thread.
LEMMA AtRest ==
    ASSUME \A t \in Thread : pc'[t] = "idle"
    PROVE  DoneInv' /\ \A t \in Thread : SyncInv(t)' /\ ProduceInv(t)'
  BY DEF DoneInv, SyncInv, ProduceInv

\* The follower handles a REPLICATE whose sender has crashed.
LEMMA LateReplicateStep ==
    ASSUME Undisturbed, IInv, OrderInv, LateReplicate
    PROVE  OrderInv'
<1>1. PICK e \in orphans :
        /\ orphans' = orphans \ {e}
        /\ \/ Apply(e.tp, e.off, e.val) /\ UNCHANGED errors
           \/ PersistFails("follower", e.tp, e.val)
  BY DEF LateReplicate
<1>2. /\ UNCHANGED <<up, call, pc, conn>> /\ "follower" \in up
      /\ "leader" \notin up /\ \A t \in Thread : pc[t] = "idle"
  BY <1>1 DEF LateReplicate, threads, OrderInv, DownInv
<1>3. e.tp \in TP /\ e.off \in Nat /\ e.val \in Payload
  BY <1>1 DEF IInv, TypeOK, CallsOK, Entry
<1>4. NextRecord(e.tp, e.off, e.val) /\ orphans' = {}
  BY <1>1 DEF OrderInv, OrphanInv
<1>5. Apply(e.tp, e.off, e.val) /\ UNCHANGED errors
  BY <1>1, NeverFails DEF Broker
<1>6. FollowerIsPrefix' /\ FaultFree' /\ ServesLog'
  BY <1>2, <1>3, <1>4, <1>5, FollowerAppends
<1>7. DownInv' /\ OrphanInv'
  BY <1>2, <1>4 DEF OrderInv, DownInv, OrphanInv
<1>8. DoneInv' /\ \A t \in Thread : SyncInv(t)' /\ ProduceInv(t)'
  BY <1>2, AtRest
<1> QED
  BY <1>6, <1>7, <1>8 DEF OrderInv

----------------------------------------------------------------------------
(* Crashes and restarts *)

\* The leader crashes; its one REPLICATE may stay on its way.
LEMMA LeaderCrashStep ==
    ASSUME Undisturbed, IInv, OrderInv, LeaderCrash
    PROVE  OrderInv'
<1>1. /\ up' = up \ {"leader"} /\ conn' = {} /\ UNCHANGED <<log, torn, progress, errors>>
      /\ mem' = [mem EXCEPT !["leader"] = [p \in TP |-> <<>>]]
      /\ \A t \in Thread : pc'[t] = "idle" /\ call'[t] = None
  BY DEF LeaderCrash
<1>2. PICK S \in SUBSET {t \in Thread : Pending(t, "REPLICATE")} :
        orphans' = orphans \cup
          {[tp |-> call[t].tp, off |-> call[t].off, val |-> call[t].val] : t \in S}
  BY DEF LeaderCrash
<1>3. orphans = {}
  BY DEF LeaderCrash, OrderInv, DownInv
<1>4. mem'["follower"] = mem["follower"] /\ Leader' = Leader /\ Follower' = Follower
  BY <1>1 DEF IInv, TypeOK, BrokersOK, Broker, Leader, Follower
<1>5. FollowerIsPrefix' /\ FaultFree' /\ ServesLog'
  BY <1>1, <1>4 DEF OrderInv, FollowerIsPrefix, FaultFree, ServesLog
<1>6. ASSUME NEW e \in orphans'
      PROVE  \E t \in S : e.tp = call[t].tp /\ e.off = call[t].off /\ e.val = call[t].val
                          /\ e = [tp |-> call[t].tp, off |-> call[t].off, val |-> call[t].val]
  BY <1>2, <1>3
<1>7. \A d, e \in orphans' : d = e
  BY <1>2, <1>6 DEF Undisturbed
<1>8. ASSUME NEW e \in orphans' PROVE NextRecord(e.tp, e.off, e.val)' /\ "follower" \in up
  <2>1. PICK t \in S : e.tp = call[t].tp /\ e.off = call[t].off /\ e.val = call[t].val
    BY <1>6
  <2>2. Pending(t, "REPLICATE") /\ t \in Thread
    BY <1>2
  <2>3. NextRecord(call[t].tp, call[t].off, call[t].val) /\ "follower" \in up
    BY <2>2, RequestInOrder DEF Pending
  <2> QED
    BY <1>4, <2>1, <2>3 DEF NextRecord
<1>9. OrphanInv'
  BY <1>7, <1>8 DEF OrphanInv
<1>10. DownInv'
  BY <1>1, <1>8 DEF DownInv
<1>11. DoneInv' /\ \A t \in Thread : SyncInv(t)' /\ ProduceInv(t)'
  BY <1>1, AtRest
<1> QED
  BY <1>5, <1>9, <1>10, <1>11 DEF OrderInv

\* The leader recovers its log.
LEMMA LeaderRestartStep ==
    ASSUME Undisturbed, IInv, OrderInv, LeaderRestart
    PROVE  OrderInv'
<1>1. /\ up' = up \cup {"leader"} /\ UNCHANGED <<log, progress, pc, conn, call, orphans, errors>>
      /\ orphans = {} /\ \A t \in Thread : pc[t] = "idle"
      /\ torn' = [torn EXCEPT !["leader"] = {}]
      /\ mem' = [mem EXCEPT !["leader"] = log["leader"]]
  BY DEF LeaderRestart, threads, Undisturbed, OrderInv, DownInv
<1>2. /\ mem'["follower"] = mem["follower"] /\ mem'["leader"] = Leader
      /\ Leader' = Leader /\ Follower' = Follower
  BY <1>1 DEF IInv, TypeOK, BrokersOK, Broker, Leader, Follower
<1>3. FaultFree'
  BY <1>1 DEF OrderInv, FaultFree, Broker, IInv, TypeOK, BrokersOK
<1>4. FollowerIsPrefix' /\ ServesLog'
  BY <1>1, <1>2 DEF OrderInv, FollowerIsPrefix, ServesLog
<1>5. DownInv' /\ OrphanInv'
  BY <1>1 DEF OrderInv, DownInv, OrphanInv
<1>6. DoneInv' /\ \A t \in Thread : SyncInv(t)' /\ ProduceInv(t)'
  BY <1>1, AtRest
<1> QED
  BY <1>3, <1>4, <1>5, <1>6 DEF OrderInv

\* The follower crashes; an answer OK that is on its way stays true.
LEMMA FollowerCrashStep ==
    ASSUME Undisturbed, IInv, OrderInv, FollowerCrash
    PROVE  OrderInv'
<1>1. /\ up' = up \ {"follower"} /\ conn' = {} /\ orphans' = {}
      /\ UNCHANGED <<log, torn, pc, errors>>
      /\ mem' = [mem EXCEPT !["follower"] = [p \in TP |-> <<>>]]
  BY DEF FollowerCrash
<1>2. PICK lost \in SUBSET {t \in Thread : call[t] # None} :
        /\ \A t \in Thread : call[t] # None /\ call[t].reply = "none" => t \in lost
        /\ call' = [t \in Thread |-> IF t \in lost THEN [call[t] EXCEPT !.reply = "lost"] ELSE call[t]]
  BY DEF FollowerCrash
<1>3. mem'["leader"] = mem["leader"] /\ Leader' = Leader /\ Follower' = Follower
  BY <1>1 DEF IInv, TypeOK, BrokersOK, Broker, Leader, Follower
<1>4. FollowerIsPrefix' /\ FaultFree' /\ ServesLog' /\ OrphanInv'
  BY <1>1, <1>3 DEF OrderInv, FollowerIsPrefix, FaultFree, ServesLog, OrphanInv
<1>5. ASSUME NEW t \in Thread
      PROVE  \/ t \in lost /\ call'[t].reply = "lost"
             \/ t \notin lost /\ call'[t] = call[t]
  <2>1. CASE t \in lost
    <3>1. call[t] \in Call
      BY <1>2, <2>1 DEF IInv, TypeOK, CallsOK
    <3>2. call'[t] = [call[t] EXCEPT !.reply = "lost"]
      BY <1>2, <2>1
    <3> QED
      BY <2>1, <3>1, <3>2 DEF Call
  <2>2. CASE t \notin lost
    BY <1>2, <2>2
  <2> QED
    BY <2>1, <2>2
<1>6. DownInv'
  <2>1. ASSUME NEW t \in Thread, call'[t] # None
        PROVE  call'[t].reply # "ERROR" /\ call'[t].reply # "none"
    BY <1>2, <1>5, <2>1 DEF OrderInv, DownInv
  <2> QED
    BY <1>1, <2>1 DEF OrderInv, DownInv
<1>7. DoneInv'
  BY <1>1, <1>3, <1>5 DEF OrderInv, DoneInv, Complete
<1> QED
  BY <1>1, <1>4, <1>6, <1>7 DEF OrderInv

\* The follower recovers its log, and from it its progress.
LEMMA FollowerRestartStep ==
    ASSUME Undisturbed, IInv, OrderInv, FollowerRestart
    PROVE  OrderInv'
<1>1. /\ up' = up \cup {"follower"} /\ UNCHANGED <<log, pc, conn, call, orphans, errors>>
      /\ "follower" \notin up /\ \A t \in Thread : pc[t] = "idle"
      /\ torn' = [torn EXCEPT !["follower"] = {}]
      /\ mem' = [mem EXCEPT !["follower"] = log["follower"]]
      /\ progress' = [p \in TP |-> Len(log["follower"][p]) - 1]
  BY DEF FollowerRestart, threads, Undisturbed
<1>2. /\ mem'["leader"] = mem["leader"] /\ mem'["follower"] = Follower
      /\ Leader' = Leader /\ Follower' = Follower
      /\ \A p \in TP : progress'[p] = Len(Follower[p]) - 1
  BY <1>1 DEF IInv, TypeOK, BrokersOK, Broker, Leader, Follower
<1>3. FaultFree'
  BY <1>1 DEF OrderInv, FaultFree, Broker, IInv, TypeOK, BrokersOK
<1>4. FollowerIsPrefix' /\ ServesLog'
  BY <1>1, <1>2 DEF OrderInv, FollowerIsPrefix, ServesLog
<1>5. orphans = {} /\ \A t \in Thread : call[t] = None
  BY <1>1 DEF OrderInv, DownInv, IInv, PcInv, Waiting
<1>6. DownInv' /\ OrphanInv'
  BY <1>1, <1>5 DEF OrderInv, DownInv, OrphanInv
<1>7. DoneInv' /\ \A t \in Thread : SyncInv(t)' /\ ProduceInv(t)'
  BY <1>1, AtRest
<1> QED
  BY <1>3, <1>4, <1>6, <1>7 DEF OrderInv

----------------------------------------------------------------------------
(* The invariant *)

\* The invariant holds initially.
LEMMA InitOrder == Init => OrderInv
<1> SUFFICES ASSUME Init PROVE OrderInv
  OBVIOUS
<1>1. /\ mem["leader"] = Leader /\ mem["follower"] = Follower
      /\ \A p \in TP : Leader[p] = <<>> /\ Follower[p] = <<>> /\ progress[p] = -1
  BY DEF Init, Broker, Leader, Follower
<1>2. \A p \in TP : Len(Leader[p]) = 0 /\ Len(Follower[p]) = 0
  BY <1>1
<1>3. FollowerIsPrefix
  BY <1>2 DEF FollowerIsPrefix, IsPrefixOf, Leader, Follower
<1>4. FaultFree
  BY DEF Init, FaultFree, Broker
<1>5. ServesLog
  BY <1>1, <1>2 DEF ServesLog
<1>6. DownInv /\ OrphanInv /\ DoneInv
  BY DEF Init, Broker, DownInv, OrphanInv, DoneInv
<1>7. ASSUME NEW t \in Thread PROVE SyncInv(t) /\ ProduceInv(t)
  BY DEF Init, SyncInv, ProduceInv
<1> QED
  BY <1>3, <1>4, <1>5, <1>6, <1>7 DEF OrderInv

\* Every step of one PRODUCE at a time keeps it.
LEMMA NextOrder ==
    ASSUME Undisturbed, IInv, OrderInv, [Next]_vars
    PROVE  OrderInv'
<1>1. ASSUME NEW t \in Thread, NEW p \in TP, Produce(t, p) PROVE OrderInv'
  BY <1>1, ProduceStep
<1>2. ASSUME NEW t \in Thread, ThreadStep(t) PROVE OrderInv'
  BY <1>2, CollectStep, QueryStep, GotProgressStep, MissingStep, ConnectStep, CatchUpStep,
     CaughtUpStep, SyncDoneStep, SyncFailsStep, AppendLocalStep, ReplicateStep, ReplyStep
     DEF ThreadStep
<1>3. ASSUME NEW t \in Thread, AppendThrows(t) PROVE OrderInv'
  BY <1>3, NeverFails DEF AppendThrows, Broker
<1>4. ASSUME NEW t \in Thread, Answer(t) PROVE OrderInv'
  BY <1>4, AnswerProgressStep, AnswerReplicateStep DEF Answer
<1>5. ASSUME NEW t \in Thread, RefuseReplicate(t) PROVE OrderInv'
  BY <1>5, NeverFails DEF RefuseReplicate, Broker
<1>6. CASE UNCHANGED vars
  <2>1. UNCHANGED <<brokers, orphans, errors>> /\ UNCHANGED <<conn, call, pc, req, todo, cur, batch, off>>
    BY <1>6 DEF vars, threads
  <2>2. /\ FollowerIsPrefix' /\ FaultFree' /\ ServesLog' /\ OrphanInv'
        /\ Leader' = Leader /\ Follower' = Follower /\ up' = up
    BY <2>1, BrokersKept
  <2>3. DownInv'
    BY <2>1, <2>2 DEF OrderInv, DownInv
  <2>4. DoneInv'
    BY <2>1, <2>2 DEF OrderInv, DoneInv, Complete
  <2>5. ASSUME NEW t \in Thread, SyncInv(t) PROVE SyncInv(t)'
    BY <2>1, <2>2, <2>5 DEF SyncInv, Complete, BatchFrom
  <2>6. ASSUME NEW t \in Thread, ProduceInv(t) PROVE ProduceInv(t)'
    BY <2>1, <2>2, <2>6 DEF ProduceInv, Complete
  <2> QED
    BY <2>2, <2>3, <2>4, <2>5, <2>6 DEF OrderInv
<1> QED
  BY <1>1, <1>2, <1>3, <1>4, <1>5, <1>6, LateReplicateStep, LeaderCrashStep, LeaderRestartStep,
     FollowerCrashStep, FollowerRestartStep DEF Next

\* The invariant holds as long as nothing but crashes disturbs the replication.
THEOREM SpecOrder ==
    ASSUME Undisturbed
    PROVE  Spec => []OrderInv
<1>1. OrderInv /\ IInv /\ [Next]_vars => OrderInv'
  BY NextOrder
<1> QED
  BY <1>1, InitOrder, SpecIInv, PTL DEF Spec

----------------------------------------------------------------------------
(* What holds *)

\* With one thread, no failing append or connection, no payload too long to replicate and
\* no restart in the middle of the other side's work, the follower's log holds, at every
\* offset it has, the record the leader has at that offset, whenever the brokers crash.
THEOREM FollowerStaysPrefix ==
    ASSUME Undisturbed
    PROVE  Spec => []FollowerIsPrefix
<1>1. OrderInv => FollowerIsPrefix
  BY DEF OrderInv
<1> QED
  BY <1>1, SpecOrder, PTL

\* Under the same seven conditions the follower's progress is the offset of the last record
\* in its log, and the vector it would serve is its log.
THEOREM ProgressStaysExact ==
    ASSUME Undisturbed
    PROVE  Spec => []ProgressExact
<1>1. OrderInv => ProgressExact
  BY DEF OrderInv, ServesLog, ProgressExact, Follower
<1> QED
  BY <1>1, SpecOrder, PTL

\* Only the answer OK acknowledges a PRODUCE.
LEMMA OnlyOkAcks ==
    ASSUME [Next]_vars, acked' # acked
    PROVE  \E t \in Thread : ReplyOk(t)
<1>1. ASSUME NEW t \in Thread, ThreadStep(t) PROVE ReplyOk(t)
  BY <1>1 DEF ThreadStep, Collect, Query, GotProgress, Missing, Connect, CatchUp, CaughtUp,
     SyncDone, SyncFails, AppendLocal, Replicate, ReplyError, ghosts
<1>2. ASSUME NEW t \in Thread, Answer(t) \/ RefuseReplicate(t) \/ AppendThrows(t) PROVE FALSE
  BY <1>2 DEF Answer, AnswerProgress, AnswerReplicate, RefuseReplicate, AppendThrows, ghosts
<1>3. ASSUME NEW t \in Thread, NEW p \in TP, Produce(t, p) PROVE FALSE
  BY <1>3 DEF Produce
<1> QED
  BY <1>1, <1>2, <1>3 DEF Next, LateReplicate, LeaderCrash, LeaderRestart, FollowerCrash,
     FollowerRestart, ghosts, vars

\* Under the same seven conditions the follower has every record the leader has, of every
\* topic-partition, when a PRODUCE is answered OK.
THEOREM OkCatchesUp ==
    ASSUME Undisturbed
    PROVE  Spec => OkMeansCaughtUp
<1>1. ASSUME IInv, OrderInv, [Next]_vars, acked' # acked PROVE log'["follower"] = log'["leader"]
  <2>1. PICK t \in Thread : ReplyOk(t)
    BY <1>1, OnlyOkAcks
  <2>2. log' = log /\ \A p \in TP : Complete(p)
    BY <1>1, <2>1 DEF ReplyOk, brokers, OrderInv, DoneInv
  <2>3. ASSUME NEW p \in TP PROVE Follower[p] = Leader[p]
    <3>1. Follower[p] \in Seq(Payload) /\ Leader[p] \in Seq(Payload)
      BY <1>1, LogTypes
    <3>2. /\ Len(Follower[p]) = Len(Leader[p])
          /\ \A i \in 1..Len(Follower[p]) : Follower[p][i] = Leader[p][i]
      BY <1>1, <2>2 DEF OrderInv, FollowerIsPrefix, IsPrefixOf, Complete, Leader, Follower
    <3> QED
      BY <3>1, <3>2
  <2>4. Follower = Leader
    BY <1>1, <2>3, LogTypes
  <2> QED
    BY <2>2, <2>4 DEF Follower, Leader
<1>2. IInv /\ OrderInv /\ [Next]_vars => [acked' # acked => log'["follower"] = log'["leader"]]_vars
  BY <1>1
<1> QED
  BY <1>2, SpecIInv, SpecOrder, PTL DEF Spec, OkMeansCaughtUp
=============================================================================
