# TLA+ models and proofs of the broker

This directory holds TLA+ specifications of the Kafka-style broker in `src/`, the TLC
configurations that check them on small instances, and TLAPS proofs of their most
important properties for every size. `PROJECT.json` maps every definition to the source
lines it models.

## 1. The system

A broker process keeps *topics* of three *partitions*. A partition is a vector of
messages in memory and an append-only log file. Clients talk to it over TCP in frames of
at most 64 KiB; a request is one line of text. A *leader* may have one *follower*, a
second broker process that receives every record. Consumers form *groups* that share the
partitions of a topic.

| Component | Source | State | Operations | What makes it correct |
| --- | --- | --- | --- | --- |
| Partition log | `topic_log.hpp`, `record.hpp` | log file (page cache and stable storage) | `append`, `read_all` (with truncation) | what `append` returned for is recovered, in order, at its offset |
| Broker, records | `broker.cpp` | `topics_`, `replication_progress_`, `topics_mutex_`, `role_` | PRODUCE, REPLICATE, REPLICATION_PROGRESS, FETCH, `recover_from_disk` | an OK means both brokers have the record; the follower's log is a prefix of the leader's; requests end |
| Broker, groups | `broker.cpp` | `consumer_groups_`, `consumer_groups_mutex_` | JOIN, LEAVE, GROUP_POLL, COMMIT, `remove_consumer_from_group`, `rebalance_group` | each partition has exactly one consumer; offsets survive rebalancing; no member without a consumer |
| BrokerClient, framing | `client.hpp`, `framing.hpp` | a socket | `connect`, `request`, `close` | an answer belongs to the request before it |
| TcpServer | `tcp_server.cpp` | a thread per connection, `joined_groups` | read, handle, write; clean-up | requests are answered in order, all of them; a closed connection's memberships go |
| EpollServer | `epoll_server.cpp` | per client: read buffer, write buffer, `joined_groups` | accept, read, extract frames, queue, write, close | responses in request order, none lost or doubled |
| Protocol parser | `protocol.cpp` | none | `parse_request` | a payload arrives as it was sent |
| Metrics | `metrics.cpp` | counters, latency samples | record, snapshot | totals are consistent |
| Start-up | `main.cpp`, `server_mode.cpp` | role, ports | recovery, then serving | no request before recovery |
| Clients | `clients/` | consumer: assignment and offset | join, poll, fetch, commit, leave | every message is delivered at least once |

Interactions: a server thread calls `Broker::handle_request`; PRODUCE on the leader calls
the follower through a BrokerClient, once for each partition it synchronizes and once for
the new record, the latter while it holds `topics_mutex_`. COMMIT takes
`consumer_groups_mutex_` and then `topics_mutex_`. A closing connection calls
`remove_consumer_from_group` for each of its memberships.

What is hard: an append that fails halfway; a crash between any two system calls; recovery
that truncates without fsync; several threads that synchronize the follower at once, each on
progress that may be stale; a follower that is down during one part of a PRODUCE and up
during the next; answers lost after the work was done; clean-up of connections interleaved
with the group operations of others; a rebalance between a consumer's poll and its commit;
reads and writes cut anywhere, descriptors used again, and wake-ups that must not be missed
in the event loop; counters read while they change. `PROJECT.json` lists these hazards at
their lines.

## 2. The modules

| Module | Models | Checked by | Proved in |
| --- | --- | --- | --- |
| `DurableLog` | what a partition's log promises (abstract) | as a property of `TopicLog` | `TopicLogProofs` |
| `TopicLog` | one partition: append, recovery, failures | `TopicLog.cfg`, `TopicLogAccepted.cfg` | `TopicLogProofs` |
| `Replication` | leader threads, follower, their messages | `Replication*.cfg` | `ReplicationProofs`, `ReplicationOrderProofs` |
| `ConsumerGroup` | groups, connections, clean-up | `ConsumerGroup*.cfg` | `ConsumerGroupProofs` |
| `GroupConsumer` | the consumer program, composed with `ConsumerGroup` | `GroupConsumer*.cfg` | `GroupConsumerProofs` |
| `Session` | what a server promises to a connection (abstract) | as a property of both servers | `EpollServerProofs`, `TcpServerProofs` |
| `EpollServer` | the event loop, its clients and their sockets | `EpollServer.cfg` | `EpollServerProofs` |
| `Protocol` | the text of requests and responses (operators) | through `TcpServer` | `OperatorProofs` |
| `Metrics` | counters and latencies | through `TcpServer` | `OperatorProofs`, `TcpServerProofs` |
| `TcpServer` | server threads from frame to response, composed of `Protocol` and `Metrics` | `TcpServer.cfg` | `TcpServerProofs` |
| `MC*` | instances for TLC | | |

**TopicLog.** `file` is the log file as the page cache shows it, `disk` what a power
failure cannot take; both are sequences of fragments, each the bytes of one record,
complete or not. One action is one system call of `TopicLog::append` (`OpenLog`,
`WritePart`, `WriteAll`, `Fsync`, `CloseLog`), `Throws` is any of them failing. `Produce`
puts the message into the vector first, as PRODUCE does; `Replicate` leaves that to
`CloseLog`, as REPLICATE does. `ReadRecord` and `FinishRecovery` are the loop of
`read_all` and its truncation. `Crash` loses the memory; `PowerLoss` also loses any suffix
of what was not fsynced, and may bring back what an unsynced truncation had removed. The
CRC is taken to accept exactly the complete records. `thrown` and `acked` are history
variables: the guarantee that the code gives depends on whether an append has thrown in
this process.

**Replication.** Each leader thread has a program counter through PRODUCE:
`synchronize_follower` (`Collect`, then for each partition `Query`, `GotProgress`,
`Missing`, `Connect`, `CatchUp`, `CaughtUp`; `SyncFails` for every way to give up, which
PRODUCE ignores), the local append under the mutex (`AppendLocal`, `AppendThrows`), and the
record's own REPLICATE (`Replicate`, `ReplyOk`, `ReplyError`). A step ends where the mutex
is released or a message is sent or awaited. The follower's handlers are `AnswerProgress`,
`AnswerReplicate`, `RefuseReplicate`; requests of a crashed leader may still arrive
(`LateReplicate`). The log files appear through `log` (what a restart recovers) and `torn`
(files that end in an incomplete record), the outside view of `TopicLog`: `Persist` and
`PersistFails` have exactly the outcomes that `TopicLog` shows. Connections break when a
broker crashes; a connection cannot be made while the follower is down and, with
`ConnectErrors`, at any time (`socket` or `connect` fails); frames that `write_frame`
refuses are the payloads in `Big`. A payload is carried as it is: that the parser adds a
space to a payload of nothing but spaces is left to `Protocol`. Clients PRODUCE to the
leader only.

**ConsumerGroup.** The groups as functions from consumer ids to topics, assignments and
offsets; a group exists while it has members. `Rebalance` gives partition `i` to the
consumer at place `i % n` of the sorted subscribers, its place being the number of those
before it. `joined` counts the entries of a connection's `joined_groups`; their order, in
which clean-up follows them, is left open. COMMIT is two steps because it waits for
`topics_mutex_` (`HoldTopics`, `ReleaseTopics`: a PRODUCE) with the groups' mutex held;
JOIN, LEAVE and each removal are one. EpollServer, with one thread, has a subset of these
behaviours.

**GroupConsumer.** `clients/consumer.cpp` as a program counter for each connection: join,
poll, then fetch and commit for each assignment, and leave when a round brought nothing or
a request was answered ERROR (`Finish`, `FetchError`). The operations of `ConsumerGroup`
are its requests; COMMIT is again two steps. Records are produced, consumers start under
any id and crash between any two requests. A partition is the number of its records,
because a FETCH returns what follows its offset; the two cases in which the text of the
response matters are a response beyond the frame limit (`FetchTooLarge`: the server closes
the connection) and a record with the payload ERROR (`ReadsAsError`). A consumer that has
crashed is told apart from one that has ended (`crashed`) until its connection is gone.
`delivered` is history: the offsets printed for each group.

**Session, EpollServer.** `Session` says what each connection may rely on: requests are
carried out in order and at most once, and responses arrive in that order without gaps,
until the connection is closed. `EpollServer` has one action for each system call or loop
iteration: `EpollWait` (any order of events, at most `MaxEvents`), `Dispatch`, `Accept`,
`Recv` in chunks, one frame of `extract_complete_frames` (`HandleFrame`, `RejectFrame`,
`HandleFails`), `Send` of as much as the socket takes, `Drain`, `CloseClient`. A frame is
two units, so that every buffer can end within one. Clients send a frame in two parts,
read slowly, shut down their sending side or disappear at any time. Descriptors are
numbers that `accept` reuses. `recv`, `send`, `accept` and `epoll_ctl` may fail on a
connection that is well (`RecvFails`, `SendFails`, `AcceptFails`, `QueueFails`). Of the
broker the members of one group are kept, and whether a request cannot be answered or its
header is refused. JOIN and LEAVE name a consumer id, and any connection may LEAVE for any
id: the broker takes the member out and answers OK, while the entry stays in the list of
the connection that joined (`joined` counts a connection's entries for an id). `Stop` ends
the loop and closes the sockets; it removes no membership, as `start` removes none.

**Protocol, Metrics, TcpServer.** `Protocol` is `parse_request` with a table of the fields
of each command, number ranges scaled down, and payloads as sequences of characters of
four classes (space, other blank, line break, anything else), because what happens to a
payload on its way depends on those. It also has the leader's REPLICATE line, the joining
of messages by FETCH and the consumer's `count_messages`. `Metrics` has `record_request`
as the list of counters it adds to, one step each, and `snapshot` as reads one by one; of
the counters that are read, three are kept. Atomic operations are taken in program order,
as the x86 build executes them, although they are `memory_order_relaxed`. `TcpServer` is
the loop of `handle_client`: `ReadFrame` (with the parsing), one action for each kind of
request in `handle_request`, `RecordCounter`, `RecordSample`, `WriteFrame`, and every way
out: end of input, an oversized frame, an exception of PRODUCE, a response that does not
fit, a client that has gone.

## 3. The runs

| Run | Instance | Distinct states | Result |
| --- | --- | --- | --- |
| `topic_log` | 2 payloads, 3 records | 188,522 | holds |
| `topic_log_accepted` | same | | **violated**, see 4 |
| `replication_faults` | 2 threads, 3 PRODUCEs (the third oversized), a crash and a failing append on each broker, late requests, failing connections, restarts at any time | 360,607 | holds |
| `replication_sequential` | 1 thread, 2 topic-partitions, 4 PRODUCEs, 2 crashes of each broker | 114,801 | holds |
| `replication_concurrent` | 2 threads, no fault | | **violated** |
| `replication_restart` | 1 thread, the follower restarts during a PRODUCE | | **violated** |
| `groups` | 2 connections, 2 consumers, 3 partitions, any LEAVE | 39,439 | holds |
| `groups_owners` | 2 groups, 3 consumers, 2 topics, 2 connections, own LEAVEs | 58,322 (up to symmetry) | holds |
| `consumers` | 2 partitions, 2 consumer programs that may start again, 3 records (the first of partition 0 with the payload ERROR), frames of 1, 1 crash | 142,596 | holds |
| `consumers_commit` | same | | **violated** |
| `epoll` | 2 clients, 2 requests (joining, leaving also for the other, failing, oversized), reads of 3 units, 1 unit of socket space, a failing call | 1,610,725 | holds |
| `requests` | 2 threads, 2 PRODUCEs (payloads of spaces, with blanks and a line break) beside one request of any other kind, 1 exception | 491,736 | holds |

*Bounds.* Three records are enough for a complete record, an incomplete one behind it and a
further append behind that, with crashes and recoveries in between (crashes are unbounded in
`TopicLog`). Two threads and three PRODUCEs let two of them synchronize on each other's
records and a third meet the result. Four PRODUCEs on two partitions let a partition fall
behind while the other is produced to. Three consumers on three partitions of two topics
give even, uneven and single assignments. Two consumer programs and three records let one
fetch, lose the partition to the other, and commit after it, and let a consumer stop at
partition 0, at the ERROR record or at two records that fit no frame, with an unread record
left in partition 1; the programs start again without bound. Two requests are two frames in
one read, a frame cut by a read (a chunk is one and a half frames) and a response cut by a
send; two clients are needed for a descriptor to be used again. Three requests in two
threads give METRICS two samples and all interleavings of its reads with the counters of
another request. Each bound is a named constant and appears in one guard.

*Deadlock.* The runs of `Replication`, `GroupConsumer` and the two servers do not check for
deadlock: when the bounded number of requests is used up, everyone is idle and nothing is
left to do. The other runs do.

*Fairness.* `TopicLog`: recovery and append are straight-line code that nothing blocks
(weak fairness); that a call fails, or a crash, is never required. `Replication`: a thread
that can go on does, and a follower that runs answers (weak fairness); the leader's client
has no timeout, so a follower that hangs without dying blocks PRODUCE for ever, and
`ProduceReturns` says nothing about that case. Restarts are not fair: PRODUCE must end with
the follower down for good. `ConsumerGroup`: a thread waiting for a mutex that becomes free
again and again gets it (strong fairness, an assumption about `std::mutex`), and a PRODUCE
ends, which `ProduceReturns` shows. `GroupConsumer`: the same, and a consumer program that
has not crashed goes on; starts, crashes and the production of records are never required.
`EpollServer`: the loop goes on (weak fairness of the whole loop, one thread), and a client
reads what reaches it; nothing is assumed of a client's sending. `TcpServer`: each thread
goes on; writing is taken not to block for ever, that is, clients read.

What the passing runs show:

- `TopicLog`: `CleanAcksDurable`, `CleanAcksReadable` (what was acknowledged before any
  append threw survives everything, and is served at its offset), `MemoryMatchesLog`,
  `OnlyPowerLossLoses` (no append, failure, crash or truncation touches a recoverable
  record), `Settles`, and `ImplementsDurableLog`: under the mapping of the file to its
  complete prefix and of the acknowledged records to a promised length, every step is a
  step of `DurableLog`.
- `Replication`: `AckedOnBoth` under every fault, `ProduceReturns`; and, as long as
  PRODUCEs do not overlap, the follower does not come back in the middle of one, no append
  and no connection to a running follower fails, no request outlives a restart of the leader
  and every record fits, `FollowerIsPrefix`, `ProgressExact` and `OkMeansCaughtUp`
  through crashes of both brokers at any step.
- `ConsumerGroup`: `AssignmentsFair`, `MembersOwned`, `EmptyGroupGone`,
  `OffsetsSurviveRebalance`, `CleanupCompletes`; and `OwnedExclusively` when clients LEAVE
  only for their own memberships.
- `GroupConsumer`: `AtLeastOnce` (below a group's offset every record was printed),
  `AssignmentsRead` (a partition that a consumer polled is read to its end, whatever happens
  to the group meanwhile, unless the consumer crashes or gives up at a partition that it
  cannot read), `ConsumersEnd`. More is not true of the program: a consumer that gives up
  abandons the rest of its round, so the readable partitions behind stay unread until
  another consumer has them; and with three consumers, rebalances between the poll and the
  exit of each may leave a partition that none of them polled.
- `EpollServer`: `StreamsIntact`, `OutputArmed`, `EventsFresh`, `MembersConnected`,
  `ClosedForCause`, `RequestsAnswered`, `ImplementsSession`. `EventsFresh` shows that the
  branch for unknown descriptors is never taken: a descriptor is in a batch once, and a
  client is closed only while its own event is handled. The batches of the instance are too
  short for an event left behind a close and an accept; that case rests on the theorem
  `EventsAlwaysFresh`. `MembersConnected` is an inclusion, every member is in the list of a
  connection in the client table: the lists may hold entries of ids that others took out.
- `TcpServer`: `CountersSettle`, `SnapshotBracketed`, `PercentilesOrdered`,
  `ReplicaPayload`, `FetchCountExact`, `ImplementsSession`, and `EofAnswered`, which the
  event loop does not have: it closes a client at the end of its input with responses
  queued. `Session` and `ClosedForCause` permit that loss, since they say what may arrive
  and when a connection may be closed, not that a response must arrive.

Every property of a passing run has a mutant of the model, a plausible bug, that breaks it;
the operators are next to what they change, named after it (`Fsync_Skipped`,
`Collect_OnlyOwn`, ...).

## 4. Where code and documentation disagree

1. *Accepted records behind an incomplete one* (`AcceptedIsRecoverable`). After an append
   that failed halfway, the next one is accepted and fsynced, and the next recovery cuts
   it off.
2. *Duplicates on the follower* (`FollowerIsPrefix` with two threads). Two PRODUCEs find
   the same record missing; the follower appends it twice.
3. *Gaps on the follower after a restart* (`OkMeansCaughtUp`). A failed synchronization is
   ignored; if the REPLICATE then succeeds, the follower's progress hides the gap.
4. *COMMIT may set the offset back* (`CommitAdvances`). A consumer that has fetched commits
   after a rebalance and after the partition's new consumer. Records are delivered again;
   none is lost (`AtLeastOnce`).

Further behaviour that the models show and that a reader of the documentation may not
expect, without a run of its own:

- A record that fits a PRODUCE frame but no REPLICATE frame is never sent to the follower,
  and later PRODUCEs are acknowledged without it (in `Replication`, payloads in `Big`).
- A payload of nothing but spaces has one more space on the follower (`ReplicaPayload`
  states it), and what follows a line break in a PRODUCE is dropped and acknowledged.
- A consumer id that left and joined again through another connection is removed when the
  old connection is cleaned up (`ConsumerGroup` with `ForeignLeave`).
- The removal of a group's last member, also by a crash, erases its offsets; the next
  consumer starts at 0 (`EmptyGroupGone` states it).
- A partition with a backlog beyond the frame limit, or whose last record is ERROR and the
  only one left, stops every consumer of the group (`GaveUp` of `GroupConsumer`), and with it
  the partitions behind it in that consumer's round.

## 5. The proofs

Every invariant and every action property that a passing run checks, and both refinements,
are also theorems: TLC shows them on the instances of section 3, TLAPS for every value of
the constants. What remains with TLC is liveness (at the end of this section).

**`TopicLogProofs`**, for any set of payloads and any bound: `TypeCorrect`,
`AcksAreDurable`, `AcksAreReadable`, `MemoryIsLog`, `LossNeedsPowerFailure`. The
acknowledged records alone are not inductive: what `Fsync` puts on stable storage must
contain them, and what `PowerLoss` brings back must not cut them. `IInv` therefore says in
addition how the vector and the file correspond in every phase (during recovery the vector
is the prefix already read; during an append the file has the record in the state the phase
implies), and that the acknowledged prefix agrees in file and disk. `LogKeepsPromise` is
the refinement of `DurableLog`. It needs one fact more, `DiskInv`: what could be recovered
from stable storage alone can be recovered from the file. Otherwise a power
failure could bring back records that `DurableLog` has given up.

**`ReplicationProofs`**, for any number of threads, topic-partitions, PRODUCEs, crashes and
failing appends: `TypeCorrect` (with mutual exclusion) and `AcksAreReplicated`. An
acknowledgement is the end of two steps that other threads and crashes interleave with, so
`IInv` says which request a waiting thread waits for (`PcInv`), that a thread behind its
local append has its record in the leader's log (`LocalInv`), and that a REPLICATE whose
answer is OK is in the follower's log (`AnswerInv`).

**`ReplicationOrderProofs`**, under the hypothesis `Undisturbed`: `FollowerStaysPrefix`,
`ProgressStaysExact`, `OkCatchesUp`. The hypothesis has seven parts: one thread handles all
PRODUCEs; no append throws on the leader; none on the follower; `Big` is empty; the leader
does not restart before the follower has read what the old process sent; the follower does
not come back during a PRODUCE; connecting to a running follower does not fail. The number
of PRODUCEs, topic-partitions and crashes of both brokers stays open. With the EpollServer
the leader has the first of the seven; nothing in the code guarantees the others, and
sections 4.2 and 4.3 are what happens without the first and the sixth. Each is needed: with
any one of them left out, TLC finds a violation of each of the three conclusions. It is the
configuration of the `replication_sequential` run. The
invariant `OrderInv` follows `synchronize_follower`: partitions that are done are complete
on the follower, the batch in hand is exactly what the follower misses (`SyncInv`), the
record of the PRODUCE is the only one it lacks (`ProduceInv`), all this as long as the
follower has not crashed; a REPLICATE that has lost its sender still brings the next record
(`OrphanInv`).

**`ConsumerGroupProofs`**, for any number of groups, consumers, topics, partitions and
connections: `TypeCorrect`, `MembersHaveOwners`, `EmptyGroupsGone`, `OffsetsSurvive`,
`FairAssignments`; and `OwnersExclusive` under the hypothesis that connections LEAVE only
for memberships of their own (`ForeignLeave = FALSE`; without it the property is false).
`Listed` says that every member is in some connection's list, `EntriesOpen` that such a
connection is not closed; `CommitInv` that the group of a COMMIT which waits for the mutex
is still there; `Rebalanced` that `assigned` is what `rebalance_group` computes from the
members. That this is fair is arithmetic: the partitions of the consumer at place `i` are
those congruent to `i`, and two such sets differ in size by at most one (`RoundRobin`,
`Shares`).

**`GroupConsumerProofs`**, for any number of consumers, groups, records and crashes:
`UsesGroups` (each step of the composition is one of `ConsumerGroup`, so that its theorems
carry over), `ConsumersTypeCorrect`, `DeliveredAtLeastOnce`. The offset of a group has
passed through a consumer's assignments and a waiting COMMIT, with rebalances and crashes
in between; `DeliveredInv` says that at each of these places the records below the offset
have been printed.

**`EpollServerProofs`**, for any number of clients, descriptors, requests, sizes of chunks,
buffers and batches, and failing calls: `TypeCorrect`, `OutputAlwaysArmed`,
`EventsAlwaysFresh`, `MembersStayConnected`, `ClosedWithCause`, `StreamsStayIntact` and
`KeepsPromises`, the refinement of `Session`. `TableInv` ties descriptors to connections,
`MembersInv` ties members to the lists of open connections, `EventsInv` says that each event
left in a batch has a descriptor of its own and still the connection it came from,
`StreamInv` that the units of a client's requests are those handled, then the read buffer,
then the socket, and the same for the responses on the way back. The lemmas on sequences
(`Recv`, frame, `Send`, one unit received) come first, without the server.

**`OperatorProofs`**, for texts, samples and numbers of messages of any size:
`ReplicateLineParsed` (what the follower makes of the leader's REPLICATE line),
`JoinedAreCounted` (the consumer's `count_messages` undoes FETCH's joining),
`ReportOrdered` (percentiles, average and maximum). The parser and the sums are folds and
recursive functions; the inductions are over sets of numbers and subsets of finite sets
(`NumberInduction`, `SetInduction`), which needs no theorem with an operator as parameter.

**`TcpServerProofs`**, for any number of threads and requests: `TypeCorrect`,
`CountersAgree`, `SnapshotsBracketed`, `LatenciesOrdered`, `FetchesCounted`,
`ReplicasParsed`, and `KeepsPromises`, the refinement of `Session`. `CountersSettle` speaks
of moments when no thread is recording, so it is not inductive; `CountersInv` says at every
moment which requests each counter contains, namely those handled without the last one of
each thread that has this counter to do yet. `SnapshotInv` says of a METRICS request, by
the number of counters read so far, how far apart what it has read and what was answered
before can be (`NoneRead`, `OneRead`, `TwoRead`, `AllRead`): the sum of the outcomes is
bracketed although one is read before the other. `ReplicasParsed` has the hypothesis that
the requests of a run are no more than the largest offset: beyond that the follower would
refuse the line, as the code would.

*Assumptions.* Only the named `ASSUME`s of the modules, which TLC evaluates on every run:
bounds are numbers; `None` is no other value; `Big` is a set of payloads; connections,
descriptors and the latencies that can be measured are finite sets; requests have the form
that `Protocol` gives them. Theorems with a hypothesis of their own are named above.

*Checked by TLC only.* Liveness under fairness, which is out of the prover's reach:
`Settles`, `ProduceReturns`, `CleanupCompletes`, `AssignmentsRead`, `ConsumersEnd`,
`RequestsAnswered`, `EofAnswered`. The four runs of section 4 have counterexamples.

## 6. Not modelled

- `promote_to_leader`: nothing in the repository calls it. That a promoted follower has
  every acknowledged record is `AckedOnBoth`.
- `Metrics::reset` (no caller), the CSV text, and the rounding of `double`.
- Byte formats: CRC, the length header, the text of responses other than FETCH.
- The set-up of sockets: a failure ends the process. Argument parsing, the producer program
  (one request), benchmarks.
- A peer that stops reading for ever blocks its TcpServer thread; a client that never stops
  sending occupies the event loop, whose buffers have no limit. Both are visible in the
  code and beyond a bounded instance.
- The directory entry of a new log file is assumed to become durable with the file's first
  fsync.

## 7. Plan

Done: all components with state: `TopicLog` with its refinement of `DurableLog`;
`Replication`; `ConsumerGroup` and the consumer program on it; both servers, shown to
implement `Session`; the parser and the metrics. All safety properties are proved.

Next:

1. Safety parts of the liveness properties as invariants with proofs: that a thread of
   TcpServer closes only for one of the causes in `EofAnswered`; that a thread in
   `Replication` waits only for a call that will be answered or lost, or for a mutex whose
   holder does.
2. `AcksAreReplicated` from `TopicLog`: the correspondence of `log` and `torn` with a pair
   of `TopicLog`s, which is now an argument in section 2.
3. Shorter proofs in `EpollServerProofs` and `TcpServerProofs`, whose per-action lemmas
   repeat what a step leaves alone.
