--------------------------- MODULE TopicLogProofs ---------------------------
(***************************************************************************)
(* TLAPS proofs about TopicLog, for every set of payloads and every bound. *)
(*                                                                         *)
(* CleanAcksDurable is not inductive as it stands. Whether the record that *)
(* append is returning for is durable depends on how far the append has    *)
(* come (AppendInv), on the file agreeing with the vector before it        *)
(* (AgreeInv), and on what recovery made of the file (RecoverInv); and a   *)
(* power failure keeps what is the same in the page cache and on stable    *)
(* storage, so the invariant says of an acknowledged record that it is     *)
(* (AckInv), and not only that each of the two holds it.                   *)
(*                                                                         *)
(* That the file implements DurableLog needs the same and one fact more:   *)
(* what is recoverable from stable storage alone, which a power failure    *)
(* may bring back, is recoverable from the file (DiskInv).                 *)
(***************************************************************************)
EXTENDS TopicLog, SequenceTheorems, WellFoundedInduction, TLAPS

\* The record of ack a, and everything before it, is complete in the file and the
\* same on stable storage.
AckInv ==
    \A a \in acked : Holds(file, a) /\ OnDisk(a.off + 1)

\* FETCH finds every clean record while the process runs (recovery apart).
ReadInv ==
    phase \in Appending \cup {"ready"} =>
        \A a \in acked : a.off < Len(mem) /\ mem[a.off + 1] = a.val

\* The first n records of the file are the first n messages of the vector.
Agree(n) ==
    /\ n <= Len(file)
    /\ n <= Len(mem)
    /\ \A i \in 1..n : file[i].val = mem[i] /\ file[i].bytes = "all"

RecoverInv ==
    phase = "recovering" => ~thrown /\ Len(mem) = pos /\ Agree(pos)

\* Outside recovery the cursor is at the start; nothing has thrown in a process that
\* is not running.
DownInv ==
    /\ phase # "recovering" => pos = 0
    /\ phase = "down" => mem = <<>> /\ ~thrown

AgreeInv ==
    phase = "ready" /\ ~thrown => Len(file) = Len(mem) /\ Agree(Len(mem))

\* How far the append in progress has come.
AppendInv ==
    phase \in Appending /\ ~thrown =>
        /\ Agree(cur.off)
        /\ cur.op = "PRODUCE" => Len(mem) = cur.off + 1 /\ mem[cur.off + 1] = cur.val
        /\ cur.op = "REPLICATE" => Len(mem) = cur.off
        /\ phase \in {"open", "write"} => Len(file) = cur.off
        /\ phase = "rest" => Len(file) = cur.off + 1
        /\ phase \in {"fsync", "close"} =>
              /\ Len(file) = cur.off + 1
              /\ file[cur.off + 1].val = cur.val
              /\ file[cur.off + 1].bytes = "all"

\* WriteAll finishes the fragment that WritePart started, which is the last one.
RestInv ==
    phase = "rest" => Len(file) > 0 /\ file[Len(file)] = [val |-> cur.val, bytes |-> "some"]

CloseInv == phase = "close" => disk = file

IInv ==
    /\ TypeOK
    /\ AckInv
    /\ ReadInv
    /\ RecoverInv
    /\ DownInv
    /\ AgreeInv
    /\ AppendInv
    /\ RestInv
    /\ CloseInv

----------------------------------------------------------------------------
(* Facts about sequences of fragments *)

\* An empty vector is a vector, and an empty file a file.
LEMMA EmptyVector == <<>> \in Seq(Payload) /\ <<>> \in Seq(Fragment) /\ Len(<<>>) = 0
  OBVIOUS

\* An entry of a log file is a fragment, and deserialize_record returns the payload of
\* a complete one.
LEMMA FragmentAt ==
    ASSUME NEW f \in Seq(Fragment), NEW i \in 1..Len(f)
    PROVE  /\ f[i] \in Fragment
           /\ f[i].val \in Payload
           /\ f[i].bytes = "all" => f[i] = [val |-> f[i].val, bytes |-> "all"]
           /\ [val |-> f[i].val, bytes |-> "some"] \in Fragment
<1>1. f[i] \in Fragment
  OBVIOUS
<1> QED
  BY <1>1 DEF Fragment

\* Truncating a file (resize_file) keeps the fragments in front of the cut.
LEMMA Truncated ==
    ASSUME NEW f \in Seq(Fragment), NEW k \in 0..Len(f)
    PROVE  /\ SubSeq(f, 1, k) \in Seq(Fragment)
           /\ Len(SubSeq(f, 1, k)) = k
           /\ \A i \in 1..k : SubSeq(f, 1, k)[i] = f[i]
  OBVIOUS

\* O_APPEND leaves what the file holds in front of the new fragment.
LEMMA Appended ==
    ASSUME NEW f \in Seq(Fragment), NEW x \in Fragment
    PROVE  /\ Append(f, x) \in Seq(Fragment)
           /\ Len(Append(f, x)) = Len(f) + 1
           /\ \A i \in 1..Len(f) : Append(f, x)[i] = f[i]
           /\ Append(f, x)[Len(f) + 1] = x
  OBVIOUS

\* The write loop completes the fragment it has started at the end of the file.
LEMMA Completed ==
    ASSUME NEW f \in Seq(Fragment), Len(f) > 0, NEW x \in Fragment
    PROVE  /\ [f EXCEPT ![Len(f)] = x] \in Seq(Fragment)
           /\ Len([f EXCEPT ![Len(f)] = x]) = Len(f)
           /\ \A i \in 1..(Len(f) - 1) : [f EXCEPT ![Len(f)] = x][i] = f[i]
           /\ [f EXCEPT ![Len(f)] = x][Len(f)] = x
  OBVIOUS

----------------------------------------------------------------------------
(* The inductive invariant *)

\* AckInv is preserved by a step that keeps the fragments of acknowledged records.
LEMMA AckInvKept ==
    ASSUME TypeOK, AckInv, acked' = acked,
           \A a \in acked : /\ a.off + 1 <= Len(file')
                            /\ a.off + 1 <= Len(disk')
                            /\ \A i \in 1..(a.off + 1) : file'[i] = file[i] /\ disk'[i] = file[i]
    PROVE  AckInv'
<1> SUFFICES ASSUME NEW a \in acked PROVE Holds(file, a)' /\ OnDisk(a.off + 1)'
  BY DEF AckInv
<1>1. a.off \in Nat
  BY DEF TypeOK, Ack
<1>2. Holds(file, a)'
  BY <1>1 DEF AckInv, Holds, Intact
<1>3. OnDisk(a.off + 1)'
  BY <1>1 DEF OnDisk
<1> QED
  BY <1>2, <1>3

LEMMA InitIInv == Init => IInv
<1> SUFFICES ASSUME Init PROVE IInv
  OBVIOUS
<1> USE DEF Init, Idle, Appending
<1>1. TypeOK
  BY EmptyVector DEF TypeOK
<1>2. AckInv /\ ReadInv /\ RecoverInv /\ DownInv /\ AgreeInv /\ AppendInv /\ RestInv /\ CloseInv
  BY DEF AckInv, ReadInv, RecoverInv, DownInv, AgreeInv, AppendInv, RestInv, CloseInv
<1> QED
  BY <1>1, <1>2 DEF IInv

\* Every step of the broker, the process and the machine preserves it.
LEMMA NextIInv == IInv /\ [Next]_vars => IInv'
<1> SUFFICES ASSUME IInv, [Next]_vars PROVE IInv'
  OBVIOUS
<1> USE NoneAssumption DEF IInv, Idle, Appending
<1>1. ASSUME Startup PROVE IInv'
  <2>t. TypeOK'
    BY <1>1 DEF TypeOK, Startup
  <2>a. AckInv'
    BY <1>1 DEF TypeOK, AckInv, OnDisk, Startup
  <2>r. (ReadInv /\ RecoverInv /\ DownInv /\ AgreeInv /\ AppendInv /\ RestInv /\ CloseInv)'
    BY <1>1 DEF TypeOK, ReadInv, RecoverInv, DownInv, AgreeInv, AppendInv, RestInv, CloseInv,
       Agree, Startup
  <2> QED
    BY <2>t, <2>a, <2>r
<1>2. ASSUME ReadRecord PROVE IInv'
  <2>1. /\ pos + 1 \in 1..Len(file)
        /\ file[pos + 1].val \in Payload
        /\ file[pos + 1] = [val |-> file[pos + 1].val, bytes |-> "all"]
    <3>1. file \in Seq(Fragment) /\ pos + 1 \in 1..Len(file) /\ file[pos + 1].bytes = "all"
      BY <1>2 DEF TypeOK, ReadRecord, NextIsWhole
    <3> QED
      BY <3>1, FragmentAt
  <2>t. TypeOK'
    BY <1>2, <2>1 DEF TypeOK, ReadRecord
  <2>a. AckInv'
    BY <1>2 DEF TypeOK, AckInv, OnDisk, ReadRecord, NextIsWhole
  <2>2. RecoverInv'
    BY <1>2, <2>1 DEF TypeOK, RecoverInv, Agree, ReadRecord
  <2>r. (ReadInv /\ RecoverInv /\ DownInv /\ AgreeInv /\ AppendInv /\ RestInv /\ CloseInv)'
    BY <1>2, <2>2 DEF TypeOK, ReadInv, RecoverInv, DownInv, AgreeInv, AppendInv, RestInv,
       CloseInv, Agree, ReadRecord
  <2> QED
    BY <2>t, <2>a, <2>r
<1>3. ASSUME FinishRecovery PROVE IInv'
  <2>1. pos \in 0..Len(file)
    BY <1>3 DEF TypeOK, RecoverInv, Agree, FinishRecovery
  <2>2. /\ file' \in Seq(Fragment)
        /\ Len(file') = pos
        /\ \A i \in 1..pos : file'[i] = file[i]
    BY <1>3, <2>1, Truncated DEF TypeOK, FinishRecovery
  <2>3. \A a \in acked : a.off + 1 <= pos
    BY <1>3, <2>1 DEF TypeOK, Ack, AckInv, Holds, Intact, OnDisk, FinishRecovery, NextIsWhole
  <2>t. TypeOK'
    BY <1>3, <2>2 DEF TypeOK, FinishRecovery
  <2>a. AckInv'
    BY <1>3, <2>2, <2>3 DEF TypeOK, Ack, AckInv, Holds, Intact, OnDisk, FinishRecovery
  <2>4. ReadInv'
    <3> SUFFICES ASSUME NEW a \in acked PROVE a.off < Len(mem) /\ mem[a.off + 1] = a.val
      BY <1>3 DEF ReadInv, FinishRecovery
    <3>1. a.off + 1 \in 1..pos /\ Len(mem) = pos
      BY <1>3, <2>3 DEF TypeOK, Ack, RecoverInv, FinishRecovery
    <3>2. file[a.off + 1].val = mem[a.off + 1]
      BY <1>3, <3>1 DEF RecoverInv, Agree, FinishRecovery
    <3>3. file[a.off + 1].val = a.val
      BY DEF AckInv, Holds
    <3> QED
      BY <3>1, <3>2, <3>3 DEF TypeOK, Ack
  <2>r. (ReadInv /\ RecoverInv /\ DownInv /\ AgreeInv /\ AppendInv /\ RestInv /\ CloseInv)'
    BY <1>3, <2>2, <2>4 DEF TypeOK, ReadInv, RecoverInv, DownInv, AgreeInv, AppendInv, RestInv,
       CloseInv, Agree, FinishRecovery
  <2> QED
    BY <2>t, <2>a, <2>r
<1>4. ASSUME RecoveryFails PROVE IInv'
  <2>t. TypeOK'
    BY <1>4, EmptyVector DEF TypeOK, RecoveryFails
  <2>a. AckInv'
    BY <1>4 DEF TypeOK, AckInv, OnDisk, RecoveryFails
  <2>r. (ReadInv /\ RecoverInv /\ DownInv /\ AgreeInv /\ AppendInv /\ RestInv /\ CloseInv)'
    BY <1>4 DEF TypeOK, Request, ReadInv, RecoverInv, DownInv, AgreeInv, AppendInv, RestInv,
       CloseInv, RecoveryFails
  <2> QED
    BY <2>t, <2>a, <2>r
<1>5. ASSUME NEW v \in Payload, Produce(v) PROVE IInv'
  <2>t. TypeOK'
    BY <1>5 DEF TypeOK, Request, Ack, Produce, CanAppend
  <2>a. AckInv'
    BY <1>5 DEF TypeOK, Request, Ack, AckInv, OnDisk, Produce, CanAppend
  <2>r. (ReadInv /\ RecoverInv /\ DownInv /\ AgreeInv /\ AppendInv /\ RestInv /\ CloseInv)'
    BY <1>5 DEF TypeOK, Request, Ack, ReadInv, RecoverInv, DownInv, AgreeInv, AppendInv,
       RestInv, CloseInv, Agree, Produce, CanAppend
  <2> QED
    BY <2>t, <2>a, <2>r
<1>6. ASSUME NEW v \in Payload, Replicate(v) PROVE IInv'
  <2>t. TypeOK'
    BY <1>6 DEF TypeOK, Request, Ack, Replicate, CanAppend
  <2>a. AckInv'
    BY <1>6 DEF TypeOK, Request, AckInv, OnDisk, Replicate, CanAppend
  <2>r. (ReadInv /\ RecoverInv /\ DownInv /\ AgreeInv /\ AppendInv /\ RestInv /\ CloseInv)'
    BY <1>6 DEF TypeOK, Request, ReadInv, RecoverInv, DownInv, AgreeInv, AppendInv, RestInv,
       CloseInv, Agree, Replicate, CanAppend
  <2> QED
    BY <2>t, <2>a, <2>r
<1>7. ASSUME OpenLog PROVE IInv'
  <2>t. TypeOK'
    BY <1>7 DEF TypeOK, OpenLog
  <2>a. AckInv'
    BY <1>7 DEF TypeOK, AckInv, OnDisk, OpenLog
  <2>r. (ReadInv /\ RecoverInv /\ DownInv /\ AgreeInv /\ AppendInv /\ RestInv /\ CloseInv)'
    BY <1>7 DEF TypeOK, Fragment, Request, ReadInv, RecoverInv, DownInv, AgreeInv, AppendInv,
       RestInv, CloseInv, Agree, OpenLog
  <2> QED
    BY <2>t, <2>a, <2>r
<1>8. ASSUME WritePart PROVE IInv'
  <2>t. TypeOK'
    BY <1>8 DEF TypeOK, Fragment, Request, Ack, WritePart
  <2>a. AckInv'
    BY <1>8 DEF TypeOK, Fragment, Request, Ack, AckInv, Holds, Intact, OnDisk, WritePart
  <2>r. (ReadInv /\ RecoverInv /\ DownInv /\ AgreeInv /\ AppendInv /\ RestInv /\ CloseInv)'
    BY <1>8 DEF TypeOK, Fragment, Request, Ack, ReadInv, RecoverInv, DownInv, AgreeInv,
       AppendInv, RestInv, CloseInv, Agree, WritePart
  <2> QED
    BY <2>t, <2>a, <2>r
<1>9. ASSUME WriteAll PROVE IInv'
  <2>1. /\ cur \in Request
        /\ file' \in Seq(Fragment)
        /\ Len(file') >= Len(file)
        /\ \A i \in 1..Len(file) : file[i].bytes = "all" => file'[i] = file[i]
        /\ phase = "write" => /\ Len(file') = Len(file) + 1
                              /\ \A i \in 1..Len(file) : file'[i] = file[i]
                              /\ file'[Len(file) + 1] = [val |-> cur.val, bytes |-> "all"]
        /\ phase = "rest" => /\ Len(file') = Len(file)
                             /\ \A i \in 1..(Len(file) - 1) : file'[i] = file[i]
                             /\ file'[Len(file)] = [val |-> cur.val, bytes |-> "all"]
    <3>1. cur \in Request
      BY <1>9 DEF TypeOK, WriteAll
    <3>2. [val |-> cur.val, bytes |-> "all"] \in Fragment
      BY <3>1 DEF Request, Fragment
    <3>3. CASE phase = "write"
      <4>1. file' = Append(file, [val |-> cur.val, bytes |-> "all"])
        BY <1>9, <3>3 DEF WriteAll
      <4> QED
        BY <3>1, <3>2, <3>3, <4>1, Appended DEF TypeOK
    <3>4. CASE phase = "rest"
      <4>1. Len(file) > 0 /\ file[Len(file)] = [val |-> cur.val, bytes |-> "some"]
        BY <3>4 DEF RestInv
      <4>2. file' = [file EXCEPT ![Len(file)] = [val |-> cur.val, bytes |-> "all"]]
        BY <1>9, <3>4 DEF WriteAll
      <4>3. \A i \in 1..Len(file) : file[i].bytes = "all" => i \in 1..(Len(file) - 1)
        BY <4>1 DEF TypeOK
      <4> QED
        BY <3>1, <3>2, <3>4, <4>1, <4>2, <4>3, Completed DEF TypeOK
    <3> QED
      BY <1>9, <3>3, <3>4 DEF WriteAll
  <2>t. TypeOK'
    BY <1>9, <2>1 DEF TypeOK, WriteAll
  <2>a. AckInv'
    <3>1. \A a \in acked : \A i \in 1..(a.off + 1) : file[i].bytes = "all" /\ file[i] = disk[i]
      BY DEF TypeOK, Ack, AckInv, Holds, Intact, OnDisk
    <3>2. \A a \in acked : a.off + 1 <= Len(file) /\ a.off + 1 <= Len(disk)
      BY DEF TypeOK, Ack, AckInv, Holds, Intact, OnDisk
    <3>3. UNCHANGED <<disk, acked>>
      BY <1>9 DEF WriteAll
    <3> QED
      BY <2>1, <3>1, <3>2, <3>3, AckInvKept DEF TypeOK, Ack
  <2>2. AppendInv'
    <3> SUFFICES ASSUME ~thrown PROVE AppendInv'
      BY <1>9 DEF AppendInv, WriteAll
    <3>1. CASE phase = "write"
      BY <1>9, <2>1, <3>1 DEF TypeOK, Request, AppendInv, Agree, WriteAll
    <3>2. CASE phase = "rest"
      BY <1>9, <2>1, <3>2 DEF TypeOK, Request, AppendInv, Agree, WriteAll
    <3> QED
      BY <1>9, <3>1, <3>2 DEF WriteAll
  <2>r. (ReadInv /\ RecoverInv /\ DownInv /\ AgreeInv /\ AppendInv /\ RestInv /\ CloseInv)'
    BY <1>9, <2>2 DEF TypeOK, ReadInv, RecoverInv, DownInv, AgreeInv, AppendInv, RestInv,
       CloseInv, Agree, WriteAll
  <2> QED
    BY <2>t, <2>a, <2>r
<1>10. ASSUME Fsync PROVE IInv'
  <2>t. TypeOK'
    BY <1>10 DEF TypeOK, Fsync
  <2>a. AckInv'
    BY <1>10 DEF TypeOK, AckInv, Holds, Intact, OnDisk, Fsync
  <2>r. (ReadInv /\ RecoverInv /\ DownInv /\ AgreeInv /\ AppendInv /\ RestInv /\ CloseInv)'
    BY <1>10 DEF TypeOK, ReadInv, RecoverInv, DownInv, AgreeInv, AppendInv, RestInv, CloseInv,
       Agree, Fsync
  <2> QED
    BY <2>t, <2>a, <2>r
<1>11. ASSUME CloseLog PROVE IInv'
  <2>1. cur \in Request
    BY <1>11 DEF TypeOK, CloseLog
  <2>2. ~thrown =>
          /\ Len(file) = cur.off + 1
          /\ \A i \in 1..Len(file) : file[i].val = mem'[i] /\ file[i].bytes = "all"
          /\ Len(mem') = Len(file)
          /\ mem'[cur.off + 1] = cur.val
    BY <1>11, <2>1 DEF TypeOK, Request, AppendInv, Agree, CloseLog
  <2>t. TypeOK'
    BY <1>11, <2>1 DEF TypeOK, Request, Ack, CloseLog
  <2>a. AckInv'
    <3> SUFFICES ASSUME NEW a \in acked' PROVE Holds(file, a) /\ OnDisk(a.off + 1)
      BY <1>11 DEF AckInv, OnDisk, CloseLog
    <3>1. CASE a \in acked
      BY <3>1 DEF AckInv
    <3>2. CASE a \notin acked
      <4>1. ~thrown /\ a = [off |-> cur.off, val |-> cur.val]
        BY <1>11, <3>2 DEF CloseLog
      <4>2. a.off + 1 = Len(file) /\ disk = file
        BY <1>11, <2>2, <4>1 DEF CloseInv, CloseLog
      <4>3. \A i \in 1..Len(file) : file[i].bytes = "all"
        BY <2>2, <4>1 DEF TypeOK
      <4>4. file[a.off + 1].val = a.val
        BY <2>1, <2>2, <4>1 DEF Request
      <4> QED
        BY <4>2, <4>3, <4>4 DEF TypeOK, Holds, Intact, OnDisk
    <3> QED
      BY <3>1, <3>2
  <2>3. ReadInv'
    BY <1>11, <2>1, <2>2 DEF TypeOK, Request, Ack, ReadInv, CloseLog
  <2>4. AgreeInv'
    BY <1>11, <2>2 DEF TypeOK, AgreeInv, Agree, CloseLog
  <2>r. (ReadInv /\ RecoverInv /\ DownInv /\ AgreeInv /\ AppendInv /\ RestInv /\ CloseInv)'
    BY <1>11, <2>3, <2>4 DEF TypeOK, RecoverInv, DownInv, AppendInv, RestInv, CloseInv, CloseLog
  <2> QED
    BY <2>t, <2>a, <2>r
<1>12. ASSUME Throws PROVE IInv'
  <2>t. TypeOK'
    BY <1>12 DEF TypeOK, Throws
  <2>a. AckInv'
    BY <1>12 DEF TypeOK, AckInv, OnDisk, Throws
  <2>r. (ReadInv /\ RecoverInv /\ DownInv /\ AgreeInv /\ AppendInv /\ RestInv /\ CloseInv)'
    BY <1>12 DEF TypeOK, ReadInv, RecoverInv, DownInv, AgreeInv, AppendInv, RestInv, CloseInv,
       Throws
  <2> QED
    BY <2>t, <2>a, <2>r
<1>13. ASSUME Crash PROVE IInv'
  <2>t. TypeOK'
    BY <1>13, EmptyVector DEF TypeOK, Crash
  <2>a. AckInv'
    BY <1>13 DEF TypeOK, AckInv, OnDisk, Crash
  <2>r. (ReadInv /\ RecoverInv /\ DownInv /\ AgreeInv /\ AppendInv /\ RestInv /\ CloseInv)'
    BY <1>13 DEF TypeOK, ReadInv, RecoverInv, DownInv, AgreeInv, AppendInv, RestInv, CloseInv, Crash
  <2> QED
    BY <2>t, <2>a, <2>r
<1>14. ASSUME PowerLoss PROVE IInv'
  <2>1. PICK k \in 0..Len(file) :
          \/ file' = disk
          \/ /\ \A j \in 1..Len(file) : OnDisk(j) => j <= k
             /\ \/ file' = SubSeq(file, 1, k)
                \/ /\ k < Len(file)
                   /\ file' = Append(SubSeq(file, 1, k), [val |-> file[k + 1].val, bytes |-> "some"])
    <3>1. Len(file) \in 0..Len(file)
      BY DEF TypeOK
    <3> QED
      BY <1>14, <3>1 DEF PowerLoss, AfterPowerLoss
  <2>2. file' \in Seq(Fragment)
    <3>1. SubSeq(file, 1, k) \in Seq(Fragment)
      BY Truncated DEF TypeOK
    <3>2. k < Len(file) => [val |-> file[k + 1].val, bytes |-> "some"] \in Fragment
      <4> SUFFICES ASSUME k < Len(file) PROVE [val |-> file[k + 1].val, bytes |-> "some"] \in Fragment
        OBVIOUS
      <4>1. file \in Seq(Fragment) /\ k + 1 \in 1..Len(file)
        BY DEF TypeOK
      <4> QED
        BY <4>1, FragmentAt
    <3>3. k < Len(file) =>
            Append(SubSeq(file, 1, k), [val |-> file[k + 1].val, bytes |-> "some"]) \in Seq(Fragment)
      BY <3>1, <3>2, Appended
    <3> QED
      BY <2>1, <3>1, <3>3 DEF TypeOK
  <2>3. \A a \in acked : /\ a.off + 1 <= Len(file')
                         /\ \A i \in 1..(a.off + 1) : file'[i] = file[i]
    <3> SUFFICES ASSUME NEW a \in acked
                 PROVE  /\ a.off + 1 <= Len(file')
                        /\ \A i \in 1..(a.off + 1) : file'[i] = file[i]
      OBVIOUS
    <3>1. a.off + 1 \in 1..Len(file) /\ OnDisk(a.off + 1)
      BY DEF TypeOK, Ack, AckInv, Holds, Intact
    <3>2. CASE file' = disk
      BY <3>1, <3>2 DEF OnDisk
    <3>3. CASE file' # disk
      <4>1. a.off + 1 <= k
        BY <2>1, <3>1, <3>3
      <4>2. /\ SubSeq(file, 1, k) \in Seq(Fragment)
            /\ Len(SubSeq(file, 1, k)) = k
            /\ \A i \in 1..k : SubSeq(file, 1, k)[i] = file[i]
        BY Truncated DEF TypeOK
      <4>3. CASE file' = SubSeq(file, 1, k)
        BY <3>1, <4>1, <4>2, <4>3
      <4>4. CASE k < Len(file) /\ file' = Append(SubSeq(file, 1, k), [val |-> file[k + 1].val, bytes |-> "some"])
        <5>1. [val |-> file[k + 1].val, bytes |-> "some"] \in Fragment
          <6>1. file \in Seq(Fragment) /\ k + 1 \in 1..Len(file)
            BY <4>4 DEF TypeOK
          <6> QED
            BY <6>1, FragmentAt
        <5>2. Len(file') = k + 1 /\ \A i \in 1..k : file'[i] = file[i]
          BY <4>2, <4>4, <5>1, Appended
        <5> QED
          BY <3>1, <4>1, <5>2
      <4> QED
        BY <2>1, <3>3, <4>3, <4>4
    <3> QED
      BY <3>2, <3>3
  <2>t. TypeOK'
    BY <1>14, <2>2, EmptyVector DEF TypeOK, PowerLoss
  <2>a. AckInv'
    BY <1>14, <2>3, AckInvKept DEF PowerLoss
  <2>r. (ReadInv /\ RecoverInv /\ DownInv /\ AgreeInv /\ AppendInv /\ RestInv /\ CloseInv)'
    BY <1>14 DEF ReadInv, RecoverInv, DownInv, AgreeInv, AppendInv, RestInv, CloseInv, Agree,
       PowerLoss
  <2> QED
    BY <2>t, <2>a, <2>r
<1>15. CASE UNCHANGED vars
  BY <1>15 DEF TypeOK, AckInv, OnDisk, ReadInv, RecoverInv, DownInv, AgreeInv, AppendInv,
     RestInv, CloseInv, Agree, vars
<1> QED
  BY <1>1, <1>2, <1>3, <1>4, <1>5, <1>6, <1>7, <1>8, <1>9, <1>10, <1>11, <1>12, <1>13, <1>14,
     <1>15 DEF Next

\* The inductive invariant holds in every reachable state.
THEOREM SpecIInv == Spec => []IInv
  BY InitIInv, NextIInv, PTL DEF Spec

----------------------------------------------------------------------------
(* The properties *)

\* The state of a partition always has its type, and a request is held exactly while
\* an append runs.
THEOREM TypeCorrect == Spec => []TypeOK
<1>1. IInv => TypeOK
  BY DEF IInv
<1> QED
  BY <1>1, SpecIInv, PTL

\* A record whose append returned before any append threw in that process is complete
\* at its offset, in the file and on stable storage, for ever.
THEOREM AcksAreDurable == Spec => []CleanAcksDurable
<1>1. IInv => CleanAcksDurable
  <2> SUFFICES ASSUME IInv, NEW a \in acked PROVE Holds(file, a) /\ Holds(disk, a)
    BY DEF CleanAcksDurable
  <2>1. a.off \in Nat /\ Holds(file, a) /\ OnDisk(a.off + 1)
    BY DEF IInv, TypeOK, Ack, AckInv
  <2> QED
    BY <2>1 DEF Holds, Intact, OnDisk
<1> QED
  BY <1>1, SpecIInv, PTL

\* ... and FETCH finds it there whenever the broker serves requests.
THEOREM AcksAreReadable == Spec => []CleanAcksReadable
<1>1. IInv => CleanAcksReadable
  BY DEF IInv, ReadInv, CleanAcksReadable
<1> QED
  BY <1>1, SpecIInv, PTL

\* While no append has thrown, the vector and the file hold the same records.
THEOREM MemoryIsLog == Spec => []MemoryMatchesLog
<1>1. IInv => MemoryMatchesLog
  BY DEF IInv, AgreeInv, Agree, MemoryMatchesLog
<1> QED
  BY <1>1, SpecIInv, PTL

\* Only a power failure makes a recoverable record unrecoverable.
THEOREM LossNeedsPowerFailure == Spec => OnlyPowerLossLoses
<1> DEFINE Kept == \A n \in 1..Len(file) : Intact(file, n) => Intact(file', n) /\ file'[n] = file[n]
<1>1. IInv /\ [Next]_vars => [PowerLoss \/ Kept]_vars
  <2> SUFFICES ASSUME IInv, Next PROVE PowerLoss \/ Kept
    BY DEF vars
  <2> USE DEF IInv
  <2>1. CASE UNCHANGED file
    BY <2>1 DEF Intact
  <2>2. CASE FinishRecovery
    <3>1. pos \in 0..Len(file)
      BY <2>2 DEF TypeOK, RecoverInv, Agree, FinishRecovery
    <3>2. \A n \in 1..Len(file) : Intact(file, n) => n <= pos
      <4> SUFFICES ASSUME NEW n \in 1..Len(file), Intact(file, n), n > pos PROVE FALSE
        BY <3>1 DEF TypeOK
      <4>1. pos + 1 \in 1..n /\ pos < Len(file)
        BY <3>1 DEF TypeOK
      <4> QED
        BY <2>2, <4>1 DEF Intact, FinishRecovery, NextIsWhole
    <3> QED
      <4>1. Len(file') = pos /\ \A i \in 1..pos : file'[i] = file[i]
        BY <2>2, <3>1, Truncated DEF TypeOK, FinishRecovery
      <4> QED
        BY <3>1, <3>2, <4>1 DEF TypeOK, Intact
  <2>3. CASE WritePart
    BY <2>3 DEF TypeOK, Intact, WritePart
  <2>4. CASE WriteAll
    <3>1. CASE phase = "write"
      <4>1. Len(file') = Len(file) + 1 /\ \A i \in 1..Len(file) : file'[i] = file[i]
        BY <2>4, <3>1 DEF TypeOK, WriteAll
      <4> QED
        BY <4>1 DEF TypeOK, Intact
    <3>2. CASE phase = "rest"
      <4>1. /\ Len(file') = Len(file)
            /\ \A i \in 1..(Len(file) - 1) : file'[i] = file[i]
            /\ file[Len(file)].bytes = "some"
        BY <2>4, <3>2, Completed DEF TypeOK, RestInv, WriteAll
      <4> QED
        BY <4>1 DEF TypeOK, Intact
    <3> QED
      BY <2>4, <3>1, <3>2 DEF WriteAll
  <2> QED
    BY <2>1, <2>2, <2>3, <2>4 DEF Next, Startup, ReadRecord, RecoveryFails, Produce, Replicate,
       OpenLog, Fsync, CloseLog, Throws, Crash
<1> QED
  BY <1>1, SpecIInv, PTL DEF Spec, OnlyPowerLossLoses

----------------------------------------------------------------------------
(* The file implements DurableLog *)

\* What is recoverable from stable storage alone is recoverable from the file.
DiskInv ==
    \A n \in 1..Len(disk) : Intact(disk, n) => n <= Len(file) /\ file[n] = disk[n]

\* A set of numbers with a bound has a largest one.
LEMMA Largest ==
    ASSUME NEW T, T \subseteq Nat, T # {}, NEW n \in Nat, \A t \in T : t <= n
    PROVE  \E m \in T : \A t \in T : t <= m
<1>1. PICK R : R = OpToRel(<, Nat)
  OBVIOUS
<1>2. IsWellFoundedOn(R, Nat)
  BY <1>1, NatLessThanWellFounded
<1>3. \A x, y \in Nat : x < y => <<x, y>> \in R
  BY <1>1 DEF OpToRel
<1>4. PICK U : U = {n - t : t \in T}
  OBVIOUS
<1>5. U \subseteq Nat
  BY <1>4
<1>6. U # {}
  BY <1>4
<1>7. PICK u \in U : \A x \in U : <<x, u>> \notin R
  BY <1>2, <1>5, <1>6, WFMin
<1>8. PICK m \in T : u = n - m
  BY <1>4
<1>9. ASSUME NEW t \in T, t > m PROVE FALSE
  <2>1. n - t \in U /\ n - t \in Nat /\ u \in Nat /\ n - t < u
    BY <1>4, <1>5, <1>8, <1>9
  <2> QED
    BY <1>3, <1>7, <2>1
<1> QED
  BY <1>9

\* read_all returns the records in front of the first incomplete one.
LEMMA WholeLengthFacts ==
    ASSUME NEW f \in Seq(Fragment)
    PROVE  /\ WholeLength(f) \in 0..Len(f)
           /\ \A i \in 1..WholeLength(f) : f[i].bytes = "all"
           /\ WholeLength(f) < Len(f) => f[WholeLength(f) + 1].bytes # "all"
<1>1. Len(f) \in Nat
  OBVIOUS
<1>2. PICK T : T = {n \in 0..Len(f) : Intact(f, n)}
  OBVIOUS
<1>3. T \subseteq Nat /\ \A t \in T : t <= Len(f)
  BY <1>1, <1>2
<1>4. 0 \in T
  BY <1>1, <1>2 DEF Intact
<1>5. PICK m \in T : \A t \in T : t <= m
  BY <1>1, <1>3, <1>4, Largest
<1>6. m \in 0..Len(f) /\ Intact(f, m) /\ ~Intact(f, m + 1)
  <2>1. m \in 0..Len(f) /\ Intact(f, m)
    BY <1>2
  <2>2. ASSUME Intact(f, m + 1) PROVE FALSE
    <3>1. m + 1 \in 0..Len(f)
      BY <1>1, <2>1, <2>2 DEF Intact
    <3>2. m + 1 \in T
      BY <1>2, <2>2, <3>1
    <3> QED
      BY <1>5, <2>1, <3>2
  <2> QED
    BY <2>1, <2>2
<1>7. PICK w : w = WholeLength(f)
  OBVIOUS
<1>8. w \in 0..Len(f) /\ Intact(f, w) /\ ~Intact(f, w + 1)
  BY <1>6, <1>7 DEF WholeLength
<1>9. w < Len(f) => f[w + 1].bytes # "all"
  BY <1>1, <1>8 DEF Intact
<1> QED
  BY <1>7, <1>8, <1>9 DEF Intact

\* There is one such length.
LEMMA WholeLengthIs ==
    ASSUME NEW f \in Seq(Fragment), NEW n \in 0..Len(f),
           \A i \in 1..n : f[i].bytes = "all", n < Len(f) => f[n + 1].bytes # "all"
    PROVE  WholeLength(f) = n
<1>1. PICK w \in 0..Len(f) :
        /\ w = WholeLength(f)
        /\ \A i \in 1..w : f[i].bytes = "all"
        /\ w < Len(f) => f[w + 1].bytes # "all"
  BY WholeLengthFacts
<1>2. ~(w < n) /\ ~(n < w)
  <2>1. w < n => w + 1 \in 1..n /\ w < Len(f)
    OBVIOUS
  <2>2. n < w => n + 1 \in 1..w /\ n < Len(f)
    BY <1>1
  <2> QED
    BY <1>1, <2>1, <2>2
<1> QED
  BY <1>1, <1>2

\* What read_all returns is a sequence of payloads.
LEMMA RecoverableFacts ==
    ASSUME NEW f \in Seq(Fragment)
    PROVE  /\ Recoverable(f) \in Seq(Payload)
           /\ Len(Recoverable(f)) = WholeLength(f)
           /\ \A i \in 1..WholeLength(f) : Recoverable(f)[i] = f[i].val
<1>1. PICK w \in 0..Len(f) : w = WholeLength(f)
  BY WholeLengthFacts
<1>2. \A i \in 1..w : f[i].val \in Payload
  <2> SUFFICES ASSUME NEW i \in 1..w PROVE f[i].val \in Payload
    OBVIOUS
  <2>1. i \in 1..Len(f)
    OBVIOUS
  <2> QED
    BY <2>1, FragmentAt
<1>3. PICK r : r = [i \in 1..w |-> f[i].val]
  OBVIOUS
<1>4. r \in [1..w -> Payload] /\ w \in Nat
  BY <1>2, <1>3
<1>5. r \in Seq(Payload)
  BY <1>4, SeqDef
<1>6. Len(r) = w
  BY <1>4, <1>5, LenProperties
<1>7. r = Recoverable(f)
  BY <1>1, <1>3 DEF Recoverable
<1> QED
  BY <1>1, <1>3, <1>5, <1>6, <1>7

\* Files that read the same are the same log,
LEMMA SameLog ==
    ASSUME NEW f \in Seq(Fragment), NEW g \in Seq(Fragment), WholeLength(g) = WholeLength(f),
           \A i \in 1..WholeLength(f) : g[i] = f[i]
    PROVE  Recoverable(g) = Recoverable(f)
  BY DEF Recoverable

\* one more complete record is one more at the end,
LEMMA LongerLog ==
    ASSUME NEW f \in Seq(Fragment), NEW g \in Seq(Fragment), WholeLength(g) = WholeLength(f) + 1,
           \A i \in 1..WholeLength(f) : g[i] = f[i]
    PROVE  \E v \in Payload : Recoverable(g) = Append(Recoverable(f), v)
<1>1. PICK w \in Nat : w = WholeLength(f)
  BY WholeLengthFacts
<1>2. PICK r \in Seq(Payload) : r = Recoverable(f) /\ Len(r) = w /\ \A i \in 1..w : r[i] = f[i].val
  BY <1>1, RecoverableFacts
<1>3. PICK s \in Seq(Payload) : s = Recoverable(g) /\ Len(s) = w + 1 /\ \A i \in 1..(w + 1) : s[i] = g[i].val
  BY <1>1, RecoverableFacts
<1>4. PICK v \in Payload : v = s[w + 1]
  BY <1>3
<1>5. PICK u : u = Append(r, v)
  OBVIOUS
<1>6. u \in Seq(Payload) /\ Len(u) = w + 1 /\ u[w + 1] = v /\ \A i \in 1..w : u[i] = r[i]
  BY <1>2, <1>5
<1>7. ASSUME NEW i \in 1..w PROVE s[i] = r[i]
  <2>1. i \in 1..(w + 1) /\ g[i] = f[i]
    BY <1>1
  <2> QED
    BY <1>2, <1>3, <2>1
<1>8. \A i \in 1..(w + 1) : s[i] = u[i]
  BY <1>4, <1>6, <1>7
<1>9. s = u
  BY <1>3, <1>6, <1>8, SeqEqual
<1> QED
  BY <1>2, <1>3, <1>5, <1>9

\* and fewer are a prefix.
LEMMA ShorterLog ==
    ASSUME NEW f \in Seq(Fragment), NEW g \in Seq(Fragment), WholeLength(g) <= WholeLength(f),
           \A i \in 1..WholeLength(g) : g[i] = f[i]
    PROVE  Recoverable(g) = SubSeq(Recoverable(f), 1, WholeLength(g))
<1>1. PICK w \in Nat : w = WholeLength(f)
  BY WholeLengthFacts
<1>2. PICK x \in 0..w : x = WholeLength(g)
  BY <1>1, WholeLengthFacts
<1>3. PICK r \in Seq(Payload) : r = Recoverable(f) /\ Len(r) = w /\ \A i \in 1..w : r[i] = f[i].val
  BY <1>1, RecoverableFacts
<1>4. PICK s \in Seq(Payload) : s = Recoverable(g) /\ Len(s) = x /\ \A i \in 1..x : s[i] = g[i].val
  BY <1>2, RecoverableFacts
<1>5. PICK u : u = SubSeq(r, 1, x)
  OBVIOUS
<1>6. u \in Seq(Payload) /\ Len(u) = x /\ \A i \in 1..x : u[i] = r[i]
  BY <1>3, <1>5
<1>7. \A i \in 1..x : s[i] = u[i]
  BY <1>2, <1>3, <1>4, <1>6
<1>8. s = u
  BY <1>4, <1>6, <1>7, SeqEqual
<1> QED
  BY <1>2, <1>3, <1>4, <1>5, <1>8

\* SafeLength counts the records up to the last clean one, all of them recoverable.
LEMMA SafeLengthFacts ==
    ASSUME IInv
    PROVE  /\ SafeLength \in CleanLengths
           /\ \A m \in CleanLengths : m <= SafeLength
           /\ CleanLengths \subseteq 0..WholeLength(file)
<1>1. file \in Seq(Fragment) /\ acked \subseteq Ack
  BY DEF IInv, TypeOK
<1>2. PICK w \in 0..Len(file) :
        /\ w = WholeLength(file)
        /\ \A i \in 1..w : file[i].bytes = "all"
        /\ w < Len(file) => file[w + 1].bytes # "all"
  BY <1>1, WholeLengthFacts
<1>3. ASSUME NEW a \in acked PROVE a.off + 1 \in 0..w
  <2>1. a.off \in Nat /\ Holds(file, a)
    BY <1>1 DEF Ack, IInv, AckInv
  <2>2. a.off + 1 > w => w + 1 \in 1..(a.off + 1) /\ w < Len(file)
    BY <1>1, <2>1 DEF Holds, Intact
  <2> QED
    BY <1>2, <2>1, <2>2 DEF Holds, Intact
<1>4. CleanLengths \subseteq 0..w /\ 0 \in CleanLengths
  BY <1>3 DEF CleanLengths
<1>5. PICK T : T = CleanLengths
  OBVIOUS
<1>6. \E m \in T : \A t \in T : t <= m
  <2>1. w \in Nat /\ T \subseteq Nat /\ T # {} /\ \A t \in T : t <= w
    BY <1>1, <1>4, <1>5
  <2> QED
    BY <2>1, Largest
<1>7. SafeLength \in CleanLengths /\ \A m \in CleanLengths : m <= SafeLength
  BY <1>5, <1>6 DEF SafeLength
<1> QED
  BY <1>2, <1>4, <1>7

\* DiskInv holds from the start,
LEMMA DiskInvInit == Init => DiskInv
  BY DEF Init, DiskInv

\* and every step preserves it: complete fragments are never written again, recovery cuts
\* off none, fsync and power failures make file and storage the same.
LEMMA DiskInvNext ==
    ASSUME IInv, DiskInv, [Next]_vars
    PROVE  DiskInv'
<1>0. file \in Seq(Fragment) /\ disk \in Seq(Fragment) /\ Len(file) \in Nat /\ Len(disk) \in Nat
  BY DEF IInv, TypeOK
<1>1. CASE disk' = file'
  BY <1>1 DEF DiskInv
<1>2. ASSUME disk' = disk,
             \A n \in 1..Len(file) :
                 (\A i \in 1..n : file[i].bytes = "all") => n <= Len(file') /\ file'[n] = file[n]
      PROVE  DiskInv'
  <2> SUFFICES ASSUME NEW n \in 1..Len(disk), Intact(disk, n)
               PROVE  n <= Len(file') /\ file'[n] = disk[n]
    BY <1>2 DEF DiskInv
  <2>1. ASSUME NEW i \in 1..n PROVE i <= Len(file) /\ file[i] = disk[i] /\ disk[i].bytes = "all"
    <3>1. i \in 1..Len(disk) /\ Intact(disk, i) /\ disk[i].bytes = "all"
      BY <1>0 DEF Intact
    <3> QED
      BY <3>1 DEF DiskInv
  <2>2. n \in 1..Len(file) /\ n \in 1..n
    BY <1>0, <2>1
  <2>3. \A i \in 1..n : file[i].bytes = "all"
    BY <2>1
  <2>4. n <= Len(file') /\ file'[n] = file[n]
    BY <1>2, <2>2, <2>3
  <2> QED
    BY <2>1, <2>2, <2>4
<1>3. CASE UNCHANGED <<file, disk>>
  BY <1>0, <1>2, <1>3
<1>4. CASE FinishRecovery
  <2>1. pos \in 0..Len(file)
    BY <1>4 DEF IInv, TypeOK, RecoverInv, Agree, FinishRecovery
  <2>2. Len(file') = pos /\ \A i \in 1..pos : file'[i] = file[i]
    BY <1>0, <1>4, <2>1, Truncated DEF FinishRecovery
  <2>3. disk' = disk /\ ~NextIsWhole
    BY <1>4 DEF FinishRecovery
  <2>4. ASSUME NEW n \in 1..Len(file), \A i \in 1..n : file[i].bytes = "all"
        PROVE  n <= Len(file') /\ file'[n] = file[n]
    <3>1. n > pos => pos + 1 \in 1..n /\ pos < Len(file)
      BY <1>0, <2>1
    <3>2. n <= pos
      BY <2>1, <2>3, <2>4, <3>1 DEF NextIsWhole
    <3> QED
      BY <2>1, <2>2, <3>2
  <2> QED
    BY <1>2, <2>3, <2>4
<1>5. CASE WritePart
  <2>1. [val |-> cur.val, bytes |-> "some"] \in Fragment
    BY <1>5 DEF IInv, TypeOK, Idle, Appending, Request, Fragment, WritePart
  <2>2. Len(file') = Len(file) + 1 /\ \A i \in 1..Len(file) : file'[i] = file[i]
    BY <1>0, <1>5, <2>1, Appended DEF WritePart
  <2>3. disk' = disk
    BY <1>5 DEF WritePart
  <2> QED
    BY <1>0, <1>2, <2>2, <2>3
<1>6. CASE WriteAll
  <2>1. [val |-> cur.val, bytes |-> "all"] \in Fragment
    BY <1>6 DEF IInv, TypeOK, Idle, Appending, Request, Fragment, WriteAll
  <2>2. disk' = disk
    BY <1>6 DEF WriteAll
  <2>3. CASE phase = "write"
    <3>1. Len(file') = Len(file) + 1 /\ \A i \in 1..Len(file) : file'[i] = file[i]
      BY <1>0, <1>6, <2>1, <2>3, Appended DEF WriteAll
    <3> QED
      BY <1>0, <1>2, <2>2, <3>1
  <2>4. CASE phase = "rest"
    <3>1. Len(file) > 0 /\ file[Len(file)].bytes = "some"
      BY <2>4 DEF IInv, RestInv
    <3>2. Len(file') = Len(file) /\ \A i \in 1..(Len(file) - 1) : file'[i] = file[i]
      BY <1>0, <1>6, <2>1, <2>4, <3>1, Completed DEF WriteAll
    <3>3. ASSUME NEW n \in 1..Len(file), \A i \in 1..n : file[i].bytes = "all"
          PROVE  n <= Len(file') /\ file'[n] = file[n]
      <4>1. n \in 1..n /\ n \in 1..(Len(file) - 1)
        BY <1>0, <3>1, <3>3
      <4> QED
        BY <1>0, <3>2, <4>1
    <3> QED
      BY <1>2, <2>2, <3>3
  <2> QED
    BY <1>6, <2>3, <2>4 DEF WriteAll
<1> QED
  BY <1>1, <1>3, <1>4, <1>5, <1>6 DEF Next, Startup, ReadRecord, RecoveryFails, Produce, Replicate,
     OpenLog, Fsync, CloseLog, Throws, Crash, PowerLoss, vars

\* The three ways a step can change what the file promises, and the steps that change
\* nothing of it.
Stays == Recoverable(file') = Recoverable(file) /\ SafeLength' = SafeLength
Adds == (\E v \in Payload : Recoverable(file') = Append(Recoverable(file), v)) /\ SafeLength' = SafeLength
Promises == SafeLength' = Len(Recoverable(file)) /\ Recoverable(file') = Recoverable(file)
Loses ==
    /\ \E k \in SafeLength..Len(Recoverable(file)) : Recoverable(file') = SubSeq(Recoverable(file), 1, k)
    /\ SafeLength' = SafeLength

\* Each step of TopicLog is one of them.
LEMMA StepKeepsPromise ==
    ASSUME IInv, IInv', DiskInv, [Next]_vars
    PROVE  Stays \/ Adds \/ Promises \/ Loses
<1>1. PICK f \in Seq(Fragment) : f = file
  BY DEF IInv, TypeOK
<1>2. PICK g \in Seq(Fragment) : g = file'
  BY DEF IInv, TypeOK
<1>3. PICK w \in 0..Len(f) :
        /\ w = WholeLength(f)
        /\ \A i \in 1..w : f[i].bytes = "all"
        /\ w < Len(f) => f[w + 1].bytes # "all"
  BY WholeLengthFacts
<1>4. Len(f) \in Nat /\ Len(g) \in Nat
  OBVIOUS
<1>5. acked' = acked => SafeLength' = SafeLength
  BY DEF SafeLength, CleanLengths
<1>6. CASE UNCHANGED <<file, acked>>
  BY <1>5, <1>6 DEF Stays
<1>7. ASSUME acked' = acked, w <= Len(g), \A i \in 1..w : g[i] = f[i],
             w < Len(g) => g[w + 1].bytes # "all"
      PROVE  Stays
  <2>1. w \in 0..Len(g) /\ \A i \in 1..w : g[i].bytes = "all"
    BY <1>3, <1>4, <1>7
  <2>2. WholeLength(g) = w
    BY <1>7, <2>1, WholeLengthIs
  <2>3. Recoverable(g) = Recoverable(f)
    BY <1>3, <1>7, <2>2, SameLog
  <2> QED
    BY <1>1, <1>2, <1>5, <1>7, <2>3 DEF Stays
<1>8. ASSUME acked' = acked, Len(g) = w + 1, \A i \in 1..w : g[i] = f[i], g[w + 1].bytes = "all"
      PROVE  Adds
  <2>1. w + 1 \in 0..Len(g) /\ \A i \in 1..(w + 1) : g[i].bytes = "all"
    BY <1>3, <1>4, <1>8
  <2>2. WholeLength(g) = w + 1
    BY <1>8, <2>1, WholeLengthIs
  <2>3. \E v \in Payload : Recoverable(g) = Append(Recoverable(f), v)
    BY <1>3, <1>8, <2>2, LongerLog
  <2> QED
    BY <1>1, <1>2, <1>5, <1>8, <2>3 DEF Adds
<1>9. CASE FinishRecovery
  <2>1. pos \in 0..Len(f) /\ Agree(pos) /\ acked' = acked /\ ~NextIsWhole
    BY <1>1, <1>9 DEF IInv, TypeOK, RecoverInv, Agree, FinishRecovery
  <2>2. PICK p \in 0..Len(f) : p = pos
    BY <2>1
  <2>3. (\A i \in 1..p : f[i].bytes = "all") /\ (p < Len(f) => f[p + 1].bytes # "all")
    BY <1>1, <2>1, <2>2 DEF Agree, NextIsWhole
  <2>4. w = p
    BY <1>3, <2>3, WholeLengthIs
  <2>5. g = SubSeq(f, 1, p)
    BY <1>1, <1>2, <1>9, <2>2 DEF FinishRecovery
  <2>6. Len(g) = p /\ \A i \in 1..p : g[i] = f[i]
    BY <2>5, Truncated
  <2> QED
    BY <1>4, <1>7, <2>1, <2>4, <2>6
<1>10. CASE WritePart
  <2>1. PICK x \in Fragment : x = [val |-> cur.val, bytes |-> "some"]
    BY <1>10 DEF IInv, TypeOK, Idle, Appending, Request, Fragment, WritePart
  <2>2. g = Append(f, x) /\ acked' = acked
    BY <1>1, <1>2, <1>10, <2>1 DEF WritePart
  <2>3. Len(g) = Len(f) + 1 /\ (\A i \in 1..Len(f) : g[i] = f[i]) /\ g[Len(f) + 1] = x
    BY <2>2, Appended
  <2>4. x.bytes # "all"
    BY <2>1
  <2>5. w <= Len(g) /\ (\A i \in 1..w : g[i] = f[i]) /\ (w < Len(g) => g[w + 1].bytes # "all")
    <3>1. w < Len(f) => w + 1 \in 1..Len(f)
      BY <1>4
    <3> QED
      BY <1>3, <1>4, <2>3, <2>4, <3>1
  <2> QED
    BY <1>7, <2>2, <2>5
<1>11. CASE WriteAll
  <2>1. PICK x \in Fragment : x = [val |-> cur.val, bytes |-> "all"]
    BY <1>11 DEF IInv, TypeOK, Idle, Appending, Request, Fragment, WriteAll
  <2>2. acked' = acked /\ x.bytes = "all"
    BY <1>11, <2>1 DEF WriteAll
  <2>3. CASE phase = "write"
    <3>1. g = Append(f, x)
      BY <1>1, <1>2, <1>11, <2>1, <2>3 DEF WriteAll
    <3>2. Len(g) = Len(f) + 1 /\ (\A i \in 1..Len(f) : g[i] = f[i]) /\ g[Len(f) + 1] = x
      BY <3>1, Appended
    <3>3. CASE w = Len(f)
      BY <1>8, <2>2, <3>2, <3>3
    <3>4. CASE w < Len(f)
      <4>1. w + 1 \in 1..Len(f) /\ w <= Len(g) /\ \A i \in 1..w : g[i] = f[i]
        BY <1>4, <3>2, <3>4
      <4> QED
        BY <1>3, <1>7, <2>2, <3>2, <3>4, <4>1
    <3> QED
      BY <1>4, <3>3, <3>4
  <2>4. CASE phase = "rest"
    <3>1. Len(f) > 0 /\ f[Len(f)].bytes = "some"
      BY <1>1, <2>4 DEF IInv, RestInv
    <3>2. g = [f EXCEPT ![Len(f)] = x]
      BY <1>1, <1>2, <1>11, <2>1, <2>4 DEF WriteAll
    <3>3. Len(g) = Len(f) /\ (\A i \in 1..(Len(f) - 1) : g[i] = f[i]) /\ g[Len(f)] = x
      BY <3>1, <3>2, Completed
    <3>4. w # Len(f)
      BY <1>3, <1>4, <3>1
    <3>5. CASE w = Len(f) - 1
      <4>1. Len(g) = w + 1 /\ g[w + 1] = x /\ \A i \in 1..w : g[i] = f[i]
        BY <1>4, <3>3, <3>5
      <4> QED
        BY <1>8, <2>2, <4>1
    <3>6. CASE w < Len(f) - 1
      <4>1. /\ w + 1 \in 1..(Len(f) - 1) /\ w <= Len(g) /\ w < Len(f)
            /\ \A i \in 1..w : i \in 1..(Len(f) - 1)
        BY <1>4, <3>3, <3>6
      <4> QED
        BY <1>3, <1>7, <2>2, <3>3, <4>1
    <3> QED
      BY <1>4, <3>4, <3>5, <3>6
  <2> QED
    BY <1>11, <2>3, <2>4 DEF WriteAll
<1>12. CASE CloseLog
  <2>1. file' = file
    BY <1>12 DEF CloseLog
  <2>2. CASE thrown
    BY <1>6, <1>12, <2>1, <2>2 DEF CloseLog
  <2>3. CASE ~thrown
    <3>1. cur \in Request /\ acked' = acked \cup {[off |-> cur.off, val |-> cur.val]}
      BY <1>12, <2>3 DEF IInv, TypeOK, Idle, Appending, CloseLog
    <3>2. PICK n \in Nat : n = cur.off
      BY <3>1 DEF Request
    <3>3. Len(f) = n + 1 /\ \A i \in 1..(n + 1) : f[i].bytes = "all"
      <4>1. Agree(cur.off) /\ Len(file) = cur.off + 1 /\ file[cur.off + 1].bytes = "all"
        BY <1>12, <2>3 DEF IInv, Appending, AppendInv, CloseLog
      <4>2. \A i \in 1..n : f[i].bytes = "all"
        BY <1>1, <3>2, <4>1 DEF Agree
      <4> QED
        BY <1>1, <3>2, <4>1, <4>2
    <3>4. WholeLength(f) = n + 1
      <4>1. n + 1 \in 0..Len(f) /\ ~(n + 1 < Len(f))
        BY <3>3
      <4> QED
        BY <3>3, <4>1, WholeLengthIs
    <3>5. CleanLengths \subseteq 0..(n + 1)
      BY <1>1, <3>4, SafeLengthFacts
    <3>6. PICK T : T = CleanLengths'
      OBVIOUS
    <3>7. T = CleanLengths \cup {n + 1}
      <4>1. PICK b : b = [off |-> cur.off, val |-> cur.val]
        OBVIOUS
      <4>2. b.off + 1 = n + 1
        BY <3>2, <4>1
      <4>3. T = {0} \cup {a.off + 1 : a \in acked \cup {b}}
        BY <3>1, <3>6, <4>1 DEF CleanLengths
      <4> QED
        BY <4>2, <4>3 DEF CleanLengths
    <3>8. SafeLength' = CHOOSE m \in T : \A k \in T : k <= m
      BY <3>6 DEF SafeLength
    <3>9. n + 1 \in T /\ \A k \in T : k \in 0..(n + 1)
      BY <3>5, <3>7
    <3>10. \A m \in T : (\A k \in T : k <= m) => m = n + 1
      BY <3>9
    <3>11. \A k \in T : k <= n + 1
      BY <3>9
    <3>12. SafeLength' = n + 1
      BY <3>8, <3>9, <3>10, <3>11
    <3> QED
      BY <1>1, <2>1, <3>4, <3>12, RecoverableFacts DEF Promises
  <2> QED
    BY <2>2, <2>3
<1>13. CASE PowerLoss
  <2>1. PICK x \in 0..Len(g) :
          /\ x = WholeLength(g)
          /\ \A i \in 1..x : g[i].bytes = "all"
          /\ x < Len(g) => g[x + 1].bytes # "all"
    BY WholeLengthFacts
  <2>2. acked' = acked
    BY <1>13 DEF PowerLoss
  <2>3. SafeLength \in Nat /\ SafeLength <= x
    <3>1. SafeLength \in CleanLengths /\ CleanLengths \subseteq 0..w
      BY <1>1, <1>3, SafeLengthFacts
    <3>2. ASSUME NEW a \in acked PROVE a.off + 1 <= x
      <4>1. a.off \in Nat /\ Holds(g, a)
        BY <1>2, <2>2 DEF IInv, TypeOK, Ack, AckInv
      <4>2. a.off + 1 > x => x + 1 \in 1..(a.off + 1) /\ x < Len(g)
        BY <1>4, <4>1 DEF Holds, Intact
      <4> QED
        BY <2>1, <4>1, <4>2 DEF Holds, Intact
    <3>3. \A m \in CleanLengths : m <= x
      BY <2>1, <3>2 DEF CleanLengths
    <3> QED
      BY <3>1, <3>3
  <2>4. \A i \in 1..x : i <= Len(f) /\ g[i] = f[i]
    <3>1. CASE g = disk
      <4>1. ASSUME NEW i \in 1..x PROVE i <= Len(f) /\ g[i] = f[i]
        <5>1. i \in 1..Len(disk) /\ Intact(disk, i)
          BY <1>4, <2>1, <3>1 DEF Intact
        <5> QED
          BY <1>1, <3>1, <5>1 DEF DiskInv
      <4> QED
        BY <4>1
    <3>2. CASE g # disk
      <4>1. PICK k \in 0..Len(f) :
              \/ g = SubSeq(f, 1, k)
              \/ /\ k < Len(f)
                 /\ g = Append(SubSeq(f, 1, k), [val |-> f[k + 1].val, bytes |-> "some"])
        BY <1>1, <1>2, <1>13, <3>2 DEF PowerLoss, AfterPowerLoss
      <4>2. PICK s \in Seq(Fragment) : s = SubSeq(f, 1, k) /\ Len(s) = k /\ \A i \in 1..k : s[i] = f[i]
        BY Truncated
      <4>3. CASE g = s
        BY <1>4, <2>1, <4>2, <4>3
      <4>4. CASE k < Len(f) /\ g = Append(s, [val |-> f[k + 1].val, bytes |-> "some"])
        <5>1. PICK y \in Fragment : y = [val |-> f[k + 1].val, bytes |-> "some"]
          <6>1. k + 1 \in 1..Len(f)
            BY <1>4, <4>4
          <6> QED
            BY <6>1, FragmentAt
        <5>2. Len(g) = k + 1 /\ (\A i \in 1..k : g[i] = s[i]) /\ g[k + 1] = y
          BY <4>2, <4>4, <5>1, Appended
        <5>3. x # k + 1
          <6>1. y.bytes # "all"
            BY <5>1
          <6> QED
            BY <2>1, <5>2, <6>1
        <5>4. x <= k
          BY <2>1, <5>2, <5>3
        <5> QED
          BY <1>4, <4>2, <5>2, <5>4
      <4> QED
        BY <4>1, <4>2, <4>3, <4>4
    <3> QED
      BY <3>1, <3>2
  <2>5. x <= w
    <3>1. x > w => w + 1 \in 1..x
      BY <1>4
    <3>2. x > w => w + 1 <= Len(f) /\ g[w + 1] = f[w + 1] /\ g[w + 1].bytes = "all"
      BY <2>1, <2>4, <3>1
    <3> QED
      BY <1>3, <1>4, <2>1, <3>2
  <2>6. Recoverable(g) = SubSeq(Recoverable(f), 1, x)
    <3>1. \A i \in 1..WholeLength(g) : g[i] = f[i]
      BY <2>1, <2>4
    <3> QED
      BY <1>3, <2>1, <2>5, <3>1, ShorterLog
  <2>7. x \in SafeLength..Len(Recoverable(f))
    <3>1. Len(Recoverable(f)) = w
      BY <1>3, RecoverableFacts
    <3> QED
      BY <1>4, <2>1, <2>3, <2>5, <3>1
  <2> QED
    BY <1>1, <1>2, <1>5, <2>2, <2>6, <2>7 DEF Loses
<1> QED
  BY <1>6, <1>9, <1>10, <1>11, <1>12, <1>13 DEF Next, Startup, ReadRecord, RecoveryFails, Produce,
     Replicate, OpenLog, Fsync, Throws, Crash, vars

\* The file of a partition is a durable log: records become recoverable one at a time, at
\* the end, and whatever fails only a tail is lost, behind all clean records.
THEOREM LogKeepsPromise == Spec => ImplementsDurableLog
<1>1. Init => Promised!Init
  <2> SUFFICES ASSUME Init PROVE Recoverable(file) = <<>> /\ SafeLength = 0
    BY DEF Promised!Init
  <2>1. file \in Seq(Fragment) /\ Len(file) = 0
    BY EmptyVector DEF Init
  <2>2. WholeLength(file) = 0
    <3>1. WholeLength(file) \in 0..Len(file)
      BY <2>1, WholeLengthFacts
    <3> QED
      BY <2>1, <3>1
  <2>3. Recoverable(file) = <<>>
    <3>1. PICK r \in Seq(Payload) : r = Recoverable(file) /\ Len(r) = WholeLength(file)
      BY <2>1, RecoverableFacts
    <3> QED
      BY <2>2, <3>1
  <2>4. IInv
    BY InitIInv
  <2>5. SafeLength = 0
    BY <2>2, <2>4, SafeLengthFacts
  <2> QED
    BY <2>3, <2>5
<1>2. IInv /\ IInv' /\ DiskInv /\ [Next]_vars => [Promised!Next]_(Promised!vars)
  <2> SUFFICES ASSUME IInv, IInv', DiskInv, [Next]_vars
               PROVE  Promised!Next \/ UNCHANGED Promised!vars
    OBVIOUS
  <2>1. Stays => UNCHANGED Promised!vars
    BY DEF Stays, Promised!vars
  <2>2. Adds => Promised!Add
    BY DEF Adds, Promised!Add
  <2>3. Promises => Promised!Promise
    BY DEF Promises, Promised!Promise
  <2>4. Loses => Promised!Lose
    BY DEF Loses, Promised!Lose
  <2> QED
    BY <2>1, <2>2, <2>3, <2>4, StepKeepsPromise DEF Promised!Next
<1>3. DiskInv /\ IInv /\ [Next]_vars => DiskInv'
  BY DiskInvNext
<1> QED
  BY <1>1, <1>2, <1>3, DiskInvInit, SpecIInv, PTL DEF Spec, ImplementsDurableLog, Promised!Spec
=============================================================================
