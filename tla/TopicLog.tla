------------------------------ MODULE TopicLog ------------------------------
(***************************************************************************)
(* One partition of one broker: the vector of messages that FETCH reads,   *)
(* the partition's log file, the append of a record by PRODUCE or          *)
(* REPLICATE (TopicLog::append, one system call per action), and the       *)
(* recovery of the partition at start-up (TopicLog::read_all called by     *)
(* Broker::recover_from_disk).                                             *)
(*                                                                         *)
(* The broker holds topics_mutex_ from the first to the last step of an    *)
(* append, so a partition has at most one append in progress. Between any  *)
(* two steps the process may die (the file stays as it is in the page      *)
(* cache) or the machine may lose power (what was not fsynced may be       *)
(* lost), and any system call may fail.                                    *)
(***************************************************************************)
EXTENDS Integers, Sequences

CONSTANTS
    Payload,        \* the payloads of records
    MaxRecords,     \* bound: no new append when the file or the vector has this many
    None            \* no append in progress

ASSUME NoneAssumption == None \notin [op : {"PRODUCE", "REPLICATE"}, val : Payload, off : Nat]

ASSUME MaxRecordsAssumption == MaxRecords \in Nat

VARIABLES
    file,       \* the log file as the page cache shows it: a sequence of fragments
    disk,       \* what of it is on stable storage
    mem,        \* Partition::messages
    phase,      \* where the broker process is
    cur,        \* the append in progress: the request and the offset it was given
    pos,        \* read_all's buffer_offset, counted in records
    thrown,     \* an append has thrown since the process started
    acked       \* appends that returned before any had thrown in that process

vars == <<file, disk, mem, phase, cur, pos, thrown, acked>>

----------------------------------------------------------------------------
(* State *)

\* The bytes of one record in the file: all of them, or (bytes = "some") a proper
\* prefix. CRC32 covers the length and the payload, so deserialize_record accepts
\* exactly the complete ones (a checksum collision is not modelled).
Fragment == [val : Payload, bytes : {"all", "some"}]

Request == [op : {"PRODUCE", "REPLICATE"}, val : Payload, off : Nat]

Ack == [off : Nat, val : Payload]

Idle == {"down", "recovering", "ready"}
Appending == {"open", "write", "rest", "fsync", "close"}

Init ==
    /\ file = <<>>
    /\ disk = <<>>
    /\ mem = <<>>
    /\ phase = "down"
    /\ cur = None
    /\ pos = 0
    /\ thrown = FALSE
    /\ acked = {}

----------------------------------------------------------------------------
(* Start-up: Broker::recover_from_disk and TopicLog::read_all *)

Startup ==
    /\ phase = "down"
    /\ phase' = "recovering"
    /\ UNCHANGED <<file, disk, mem, cur, pos, thrown, acked>>

\* deserialize_record succeeds at buffer_offset.
NextIsWhole == pos < Len(file) /\ file[pos + 1].bytes = "all"

ReadRecord ==
    /\ phase = "recovering"
    /\ NextIsWhole
    /\ mem' = Append(mem, file[pos + 1].val)
    /\ pos' = pos + 1
    /\ UNCHANGED <<file, disk, phase, cur, thrown, acked>>

FinishRecovery_KeepsTail ==
    /\ phase = "recovering"
    /\ ~NextIsWhole
    /\ phase' = "ready"
    /\ pos' = 0
    /\ UNCHANGED <<file, disk, mem, cur, thrown, acked>>

FinishRecovery_DropsLast ==
    /\ phase = "recovering"
    /\ ~NextIsWhole
    /\ file' = IF pos < Len(file) THEN SubSeq(file, 1, pos - 1) ELSE file
    /\ phase' = "ready"
    /\ pos' = 0
    /\ UNCHANGED <<disk, mem, cur, thrown, acked>>

FinishRecovery_OnlyAtEnd ==
    /\ phase = "recovering"
    /\ pos = Len(file)
    /\ phase' = "ready"
    /\ pos' = 0
    /\ UNCHANGED <<file, disk, mem, cur, thrown, acked>>

\* The first bytes that do not parse, and everything behind them, are cut off. The
\* new length is not fsynced.
FinishRecovery ==
    /\ phase = "recovering"
    /\ ~NextIsWhole
    /\ file' = SubSeq(file, 1, pos)
    /\ phase' = "ready"
    /\ pos' = 0
    /\ UNCHANGED <<disk, mem, cur, thrown, acked>>

\* The file cannot be opened, or not be truncated: main reports it and exits.
RecoveryFails ==
    /\ phase = "recovering"
    /\ phase' = "down"
    /\ mem' = <<>>
    /\ pos' = 0
    /\ thrown' = FALSE
    /\ UNCHANGED <<file, disk, cur, acked>>

----------------------------------------------------------------------------
(* TopicLog::append *)

CanAppend ==
    /\ phase = "ready"
    /\ Len(mem) < MaxRecords
    /\ Len(file) < MaxRecords

\* PRODUCE: the message enters the vector before it is written to the file.
Produce(v) ==
    /\ CanAppend
    /\ cur' = [op |-> "PRODUCE", val |-> v, off |-> Len(mem)]
    /\ mem' = Append(mem, v)
    /\ phase' = "open"
    /\ UNCHANGED <<file, disk, pos, thrown, acked>>

\* REPLICATE: the file first, the vector when append has returned.
Replicate(v) ==
    /\ CanAppend
    /\ cur' = [op |-> "REPLICATE", val |-> v, off |-> Len(mem)]
    /\ phase' = "open"
    /\ UNCHANGED <<file, disk, mem, pos, thrown, acked>>

OpenLog_Truncates ==
    /\ phase = "open"
    /\ phase' = "write"
    /\ file' = <<>>
    /\ UNCHANGED <<disk, mem, cur, pos, thrown, acked>>

\* O_APPEND: what the file holds stays in front of the new record.
OpenLog ==
    /\ phase = "open"
    /\ phase' = "write"
    /\ UNCHANGED <<file, disk, mem, cur, pos, thrown, acked>>

\* write() took only some of the bytes.
WritePart ==
    /\ phase = "write"
    /\ file' = Append(file, [val |-> cur.val, bytes |-> "some"])
    /\ phase' = "rest"
    /\ UNCHANGED <<disk, mem, cur, pos, thrown, acked>>

\* The loop has written every byte, in one write() or in several.
WriteAll ==
    /\ \/ /\ phase = "write"
          /\ file' = Append(file, [val |-> cur.val, bytes |-> "all"])
       \/ /\ phase = "rest"
          /\ file' = [file EXCEPT ![Len(file)] = [val |-> cur.val, bytes |-> "all"]]
    /\ phase' = "fsync"
    /\ UNCHANGED <<disk, mem, cur, pos, thrown, acked>>

Fsync_Skipped ==
    /\ phase = "fsync"
    /\ phase' = "close"
    /\ UNCHANGED <<file, disk, mem, cur, pos, thrown, acked>>

Fsync ==
    /\ phase = "fsync"
    /\ disk' = file
    /\ phase' = "close"
    /\ UNCHANGED <<file, mem, cur, pos, thrown, acked>>

\* close() succeeds and append returns.
CloseLog ==
    /\ phase = "close"
    /\ acked' = IF thrown THEN acked ELSE acked \cup {[off |-> cur.off, val |-> cur.val]}
    /\ mem' = IF cur.op = "REPLICATE" THEN Append(mem, cur.val) ELSE mem
    /\ phase' = "ready"
    /\ cur' = None
    /\ UNCHANGED <<file, disk, pos, thrown>>

Throws_KeepsRequest ==
    /\ phase \in Appending
    /\ phase' = "ready"
    /\ thrown' = TRUE
    /\ UNCHANGED <<file, disk, mem, cur, pos, acked>>

\* create_directories, open, write, fsync or close fails and append throws. The
\* bytes already written stay in the file, and a message that PRODUCE put into the
\* vector stays there.
Throws ==
    /\ phase \in Appending
    /\ phase' = "ready"
    /\ cur' = None
    /\ thrown' = TRUE
    /\ UNCHANGED <<file, disk, mem, pos, acked>>

----------------------------------------------------------------------------
(* Failures of the process and of the machine *)

\* The process dies: its memory is gone, the page cache is not.
Crash ==
    /\ phase # "down"
    /\ phase' = "down"
    /\ cur' = None
    /\ mem' = <<>>
    /\ pos' = 0
    /\ thrown' = FALSE
    /\ UNCHANGED <<file, disk, acked>>

\* The first j fragments of the file are the first j on stable storage.
OnDisk(j) == j <= Len(disk) /\ \A i \in 1..j : file[i] = disk[i]

\* f is what the file system may bring back after a power failure: all that is on
\* stable storage, or a prefix of the page cache that loses nothing of it, cut
\* between two records or inside one.
AfterPowerLoss(f) ==
    \/ f = disk
    \/ \E k \in 0..Len(file) :
          /\ \A j \in 1..Len(file) : OnDisk(j) => j <= k
          /\ \/ f = SubSeq(file, 1, k)
             \/ /\ k < Len(file)
                /\ f = Append(SubSeq(file, 1, k), [val |-> file[k + 1].val, bytes |-> "some"])

PowerLoss ==
    /\ AfterPowerLoss(file')
    /\ disk' = file'
    /\ phase' = "down"
    /\ cur' = None
    /\ mem' = <<>>
    /\ pos' = 0
    /\ thrown' = FALSE
    /\ UNCHANGED acked

----------------------------------------------------------------------------
AppendStep == OpenLog \/ WriteAll \/ Fsync \/ CloseLog

Next ==
    \/ Startup \/ ReadRecord \/ FinishRecovery \/ RecoveryFails
    \/ \E v \in Payload : Produce(v) \/ Replicate(v)
    \/ OpenLog \/ WritePart \/ WriteAll \/ Fsync \/ CloseLog \/ Throws
    \/ Crash \/ PowerLoss

Spec == Init /\ [][Next]_vars

\* start-up and append are straight-line code that nothing in the broker can block
FairSpec == Spec /\ WF_vars(ReadRecord \/ FinishRecovery) /\ WF_vars(AppendStep)
----------------------------------------------------------------------------
(* Properties *)

\* The state has its type, and a request is held exactly while an append runs:
\* neither a thrown append nor a crash leaves one behind.
TypeOK ==
    /\ file \in Seq(Fragment)
    /\ disk \in Seq(Fragment)
    /\ mem \in Seq(Payload)
    /\ phase \in Idle \cup Appending
    /\ cur \in Request \cup {None}
    /\ cur = None <=> phase \in Idle
    /\ pos \in Nat
    /\ thrown \in BOOLEAN
    /\ acked \in SUBSET Ack

\* The first n fragments of f are complete records.
Intact(f, n) == n <= Len(f) /\ \A i \in 1..n : f[i].bytes = "all"

\* f holds the acknowledged record at its offset, behind complete records only.
Holds(f, a) == Intact(f, a.off + 1) /\ f[a.off + 1].val = a.val

\* A record whose append returned, in a process where no append had thrown, is at
\* its offset in the file and on stable storage, where read_all finds it: through
\* every later failed append, crash, power failure and recovery.
CleanAcksDurable ==
    \A a \in acked : Holds(file, a) /\ Holds(disk, a)

\* Whenever the broker serves requests, FETCH finds such a record at the offset it
\* was acknowledged at.
CleanAcksReadable ==
    phase = "ready" =>
        \A a \in acked : a.off < Len(mem) /\ mem[a.off + 1] = a.val

\* While no append has thrown, the vector and the file agree record by record, so
\* that a restart brings back exactly what FETCH serves now.
MemoryMatchesLog ==
    phase = "ready" /\ ~thrown =>
        /\ Len(file) = Len(mem)
        /\ \A i \in 1..Len(mem) : file[i].val = mem[i] /\ file[i].bytes = "all"

\* Only a power failure makes a recoverable record unrecoverable: no append, failed
\* append, process crash or recovery (truncation included) touches one.
OnlyPowerLossLoses ==
    [][ \/ PowerLoss
        \/ \A n \in 1..Len(file) : Intact(file, n) => Intact(file', n) /\ file'[n] = file[n] ]_vars

\* Every recovery and every append comes to an end: the broker serves requests
\* again, or the process is down.
Settles == phase \notin {"ready", "down"} ~> phase \in {"ready", "down"}

\* planinstruction.md: "broker restarts do not lose accepted data". When append has
\* fsynced the record and is about to return, a restart would bring it back: no
\* incomplete record is left in front of it.
AcceptedIsRecoverable == phase = "close" => Intact(file, Len(file))

----------------------------------------------------------------------------
(* The promise of the log *)

\* How many records read_all would return.
WholeLength(f) ==
    CHOOSE n \in 0..Len(f) : Intact(f, n) /\ ~Intact(f, n + 1)

Recoverable(f) == [i \in 1..WholeLength(f) |-> f[i].val]

CleanLengths == {0} \cup {a.off + 1 : a \in acked}

SafeLength == CHOOSE n \in CleanLengths : \A m \in CleanLengths : m <= n

Promised == INSTANCE DurableLog WITH log <- Recoverable(file), safe <- SafeLength

\* The file is a durable log: records become recoverable one at a time, at the end,
\* and what a clean append returned for is never lost.
ImplementsDurableLog == Promised!Spec
=============================================================================
