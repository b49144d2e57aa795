--------------------------- MODULE GroupConsumer ----------------------------
(***************************************************************************)
(* The consumer program (clients/consumer.cpp) on the groups of            *)
(* ConsumerGroup. A consumer joins a group, then repeats: GROUP_POLL, and  *)
(* for each partition assigned, FETCH from the polled offset, print, and   *)
(* COMMIT the offset after the last record printed. It leaves when a round *)
(* brought nothing or a request was answered ERROR. Records are produced,  *)
(* consumers start and crash, and the group is rebalanced between any two  *)
(* requests.                                                               *)
(*                                                                         *)
(* A partition is the number of its records: which ones a FETCH returns    *)
(* is given by its offset. The exceptions are what the text of the         *)
(* response decides: a response of more than MaxFetch records does not fit *)
(* a frame, and one that consists of a record with the payload ERROR reads *)
(* like an error.                                                          *)
(***************************************************************************)
EXTENDS ConsumerGroup

CONSTANTS
    MaxRecords,     \* bound on the records of all partitions
    MaxFetch,       \* records that fit the frame of a response
    ErrorRecord,    \* the records, as pairs of partition and offset, with the payload ERROR
    MaxCrashes      \* bound on the crashes of consumers

Arguments == [group : Group, consumer : Consumer, topic : Topic]
Assignment == [tp : TP, offset : Nat]

ASSUME RecordAssumption ==
    /\ {MaxRecords, MaxFetch, MaxCrashes} \subseteq Nat
    /\ 0..MaxRecords \subseteq Offset
    /\ ErrorRecord \subseteq TP \X Nat
    /\ None \notin Arguments

VARIABLES
    log,        \* the number of records in each partition
    pc,         \* what the consumer at each connection does next
    args,       \* its arguments: group, consumer id, topic; None where none runs
    todo,       \* the assignments of its last poll that it has not finished
    consumed,   \* consumed_any
    delivered,  \* the offsets that consumers of each group have printed
    crashes     \* the number of crashes

program == <<pc, args, todo, consumed>>
cvars == <<vars, log, program, delivered, crashes>>

GroupOf(k) == args[k].group
ConsumerOf(k) == args[k].consumer

CInit ==
    /\ Init
    /\ log = [p \in TP |-> 0]
    /\ pc = [k \in Conn |-> "idle"]
    /\ args = [k \in Conn |-> None]
    /\ todo = [k \in Conn |-> {}]
    /\ consumed = [k \in Conn |-> FALSE]
    /\ delivered = [g \in Group |-> [p \in TP |-> {}]]
    /\ crashes = 0

Goto(k, where) == pc' = [pc EXCEPT ![k] = where]

----------------------------------------------------------------------------
(* The environment: a producer, and the server's ends of the connections *)

Produce(p) ==
    /\ Cardinality(UNION {{q} \X (1..log[q]) : q \in TP}) < MaxRecords
    /\ HoldTopics(p[1])
    /\ log' = [log EXCEPT ![p] = @ + 1]
    /\ UNCHANGED <<program, delivered, crashes>>

Produced == ReleaseTopics /\ UNCHANGED <<log, program, delivered, crashes>>

\* The server removes the memberships of a connection that has ended, and forgets it.
ServerCleanup(k) == Cleanup(k) /\ UNCHANGED <<log, program, delivered, crashes>>
ServerClose(k) ==
    /\ Close(k)
    /\ Goto(k, "idle")
    /\ args' = [args EXCEPT ![k] = None]
    /\ todo' = [todo EXCEPT ![k] = {}]
    /\ consumed' = [consumed EXCEPT ![k] = FALSE]
    /\ UNCHANGED <<log, delivered, crashes>>

----------------------------------------------------------------------------
(* The consumer *)

Start(k) ==
    /\ pc[k] = "idle"
    /\ Connect(k)
    /\ \E a \in Arguments : args' = [args EXCEPT ![k] = a]
    /\ Goto(k, "join")
    /\ UNCHANGED <<log, todo, consumed, delivered, crashes>>

\* An id that is a member already is answered ERROR, and the program ends.
RequestJoin(k) ==
    /\ pc[k] = "join"
    /\ groupsMutex = None
    /\ IF ConsumerOf(k) \in Members(GroupOf(k))
       THEN Goto(k, "exit") /\ UNCHANGED vars
       ELSE Goto(k, "poll") /\ Join(k, GroupOf(k), ConsumerOf(k), args[k].topic)
    /\ UNCHANGED <<log, args, todo, consumed, delivered, crashes>>

\* The assignments with the group's offsets, as they are now.
Poll(k) ==
    LET g == GroupOf(k)
        mine == {[tp |-> p, offset |-> Position(g, p)] : p \in assigned[g][ConsumerOf(k)]}
    IN  /\ pc[k] = "poll"
        /\ groupsMutex = None
        /\ todo' = [todo EXCEPT ![k] = mine]
        /\ consumed' = [consumed EXCEPT ![k] = FALSE]
        /\ Goto(k, IF mine = {} THEN "leave" ELSE "fetch")
        /\ UNCHANGED <<vars, log, args, delivered, crashes>>

\* The assignment that comes first: assignments are in the order of their partitions.
First(k) == CHOOSE a \in todo[k] : \A b \in todo[k] : a.tp[2] <= b.tp[2]

Finish_AlwaysAgain(k, any) ==
    LET rest == todo[k] \ {First(k)}
    IN  /\ todo' = [todo EXCEPT ![k] = rest]
        /\ consumed' = [consumed EXCEPT ![k] = any]
        /\ Goto(k, IF rest # {} THEN "fetch" ELSE "poll")

Finish_StopsAtEmpty(k, any) ==
    LET rest == todo[k] \ {First(k)}
    IN  /\ todo' = [todo EXCEPT ![k] = rest]
        /\ consumed' = [consumed EXCEPT ![k] = any]
        /\ Goto(k, IF ~any THEN "leave" ELSE IF rest # {} THEN "fetch" ELSE "poll")

Finish_IgnoresEnd(k, any) ==
    /\ todo' = [todo EXCEPT ![k] = @ \ {First(k)}]
    /\ consumed' = [consumed EXCEPT ![k] = any]
    /\ Goto(k, "fetch")

\* On to the next assignment; after the last, to the next round unless nothing came.
Finish(k, any) ==
    LET rest == todo[k] \ {First(k)}
    IN  /\ todo' = [todo EXCEPT ![k] = rest]
        /\ consumed' = [consumed EXCEPT ![k] = any]
        /\ Goto(k, IF rest # {} THEN "fetch" ELSE IF any THEN "poll" ELSE "leave")

\* Whether the response to FETCH of p from an offset is the text ERROR.
ReadsAsError(p, o) ==
    \/ p[1] \notin topics
    \/ log[p] = o + 1 /\ <<p, o>> \in ErrorRecord

FetchEmpty(k) ==
    /\ pc[k] = "fetch"
    /\ ~topicsHeld
    /\ ~ReadsAsError(First(k).tp, First(k).offset)
    /\ First(k).offset >= log[First(k).tp]
    /\ Finish(k, consumed[k])
    /\ UNCHANGED <<vars, log, args, delivered, crashes>>

\* The round ends here: what is left of the assignments is not read.
FetchError(k) ==
    /\ pc[k] = "fetch"
    /\ ~topicsHeld
    /\ ReadsAsError(First(k).tp, First(k).offset)
    /\ Goto(k, "leave")
    /\ UNCHANGED <<vars, log, args, todo, consumed, delivered, crashes>>

\* write_frame refuses the response, the server closes the connection, and the program
\* ends with an exception.
FetchTooLarge(k) ==
    /\ pc[k] = "fetch"
    /\ ~topicsHeld
    /\ log[First(k).tp] > First(k).offset + MaxFetch
    /\ ~ReadsAsError(First(k).tp, First(k).offset)
    /\ Goto(k, "gone")
    /\ Disconnect(k)
    /\ UNCHANGED <<log, args, todo, consumed, delivered, crashes>>

NextOffset_CountsOneMore(a) == log[a.tp] + 1

\* The offset after the records fetched: one more than the line breaks in the response.
NextOffset(a) == log[a.tp]

\* The records from the offset to the end of the partition are printed.
Fetch(k) ==
    LET a == First(k)
    IN  /\ pc[k] = "fetch"
        /\ ~topicsHeld
        /\ ~ReadsAsError(a.tp, a.offset)
        /\ log[a.tp] \in (a.offset + 1)..(a.offset + MaxFetch)
        /\ delivered' = [delivered EXCEPT ![GroupOf(k)][a.tp] = @ \cup a.offset..(log[a.tp] - 1)]
        /\ todo' = [todo EXCEPT ![k] = (@ \ {a}) \cup {[a EXCEPT !.offset = NextOffset(a)]}]
        /\ Goto(k, "commit")
        /\ UNCHANGED <<vars, log, args, consumed, crashes>>

RequestCommit(k) ==
    /\ pc[k] = "commit"
    /\ Commit(k, GroupOf(k), ConsumerOf(k), First(k).tp, First(k).offset)
    /\ Goto(k, "committing")
    /\ UNCHANGED <<log, args, todo, consumed, delivered, crashes>>

\* The topic exists, as its records were fetched: COMMIT is answered OK. A consumer that
\* has crashed meanwhile does not see the answer.
CommitAnswered(k) ==
    /\ FinishCommit(k)
    /\ IF pc[k] = "committing" THEN Finish(k, TRUE) ELSE UNCHANGED <<pc, todo, consumed>>
    /\ UNCHANGED <<log, args, delivered, crashes>>

RequestLeave(k) ==
    /\ pc[k] = "leave"
    /\ Leave(k, GroupOf(k), ConsumerOf(k))
    /\ Goto(k, "exit")
    /\ UNCHANGED <<log, args, todo, consumed, delivered, crashes>>

\* The process ends and its connection with it.
Exit(k) ==
    /\ pc[k] \in {"exit", "crashed"}
    /\ Disconnect(k)
    /\ Goto(k, "gone")
    /\ UNCHANGED <<log, args, todo, consumed, delivered, crashes>>

Crash(k) ==
    /\ pc[k] \notin {"idle", "exit", "crashed", "gone"}
    /\ crashes < MaxCrashes
    /\ crashes' = crashes + 1
    /\ Goto(k, "crashed")
    /\ UNCHANGED <<vars, log, args, todo, consumed, delivered>>

----------------------------------------------------------------------------
Step(k) ==
    \/ RequestJoin(k) \/ Poll(k)
    \/ FetchEmpty(k) \/ FetchError(k) \/ FetchTooLarge(k) \/ Fetch(k)
    \/ RequestCommit(k) \/ CommitAnswered(k) \/ RequestLeave(k) \/ Exit(k)

CNext ==
    \/ \E p \in TP : Produce(p)
    \/ Produced
    \/ \E k \in Conn : \/ Start(k) \/ Step(k) \/ Crash(k)
                       \/ ServerCleanup(k) \/ ServerClose(k)

CSpec == CInit /\ [][CNext]_cvars

\* Consumers run, mutexes are granted to those who wait for them, PRODUCEs return.
CFairSpec ==
    /\ CSpec
    /\ WF_cvars(Produced)
    /\ \A k \in Conn : SF_cvars(Step(k)) /\ SF_cvars(ServerCleanup(k)) /\ WF_cvars(ServerClose(k))

----------------------------------------------------------------------------
(* Properties *)

\* The state has its type. A consumer has assignments left while it fetches and commits.
CTypeOK ==
    /\ TypeOK
    /\ log \in [TP -> 0..MaxRecords]
    /\ pc \in [Conn -> {"idle", "join", "poll", "fetch", "commit", "committing", "leave", "exit",
                        "crashed", "gone"}]
    /\ args \in [Conn -> Arguments \cup {None}]
    /\ todo \in [Conn -> SUBSET Assignment]
    /\ consumed \in [Conn -> BOOLEAN]
    /\ delivered \in [Group -> [TP -> SUBSET Nat]]
    /\ \A k \in Conn : pc[k] \in {"fetch", "commit", "committing"} => todo[k] # {}

\* plan.md: "at-least-once-style delivery". No record is skipped: below the offset at which
\* a group continues, every record was printed by one of its consumers, whatever crashed,
\* was polled before a rebalance or committed after one.
AtLeastOnce ==
    \A g \in Group : \A p \in TP : 0..(Position(g, p) - 1) \subseteq delivered[g][p]

\* The consumer at k has given up its round at a partition that it cannot read: the
\* response reads as an error, or is too large for a frame.
GaveUp(k) ==
    /\ pc[k] \in {"leave", "gone"}
    /\ todo[k] # {}
    /\ LET a == First(k)
       IN  ReadsAsError(a.tp, a.offset) \/ log[a.tp] > a.offset + MaxFetch

\* A partition that a consumer was assigned when it polled is read to its end, whatever is
\* produced, and to whomever the partition goes, while the consumer is busy with others;
\* unless it crashes or gives up at a partition that it cannot read.
AssignmentsRead ==
    \A k \in Conn : \A g \in Group : \A p \in TP :
        pc[k] = "fetch" /\ GroupOf(k) = g /\ (\E a \in todo[k] : a.tp = p)
            ~> pc[k] = "crashed" \/ GaveUp(k) \/ 0..(log[p] - 1) \subseteq delivered[g][p]

\* When nothing more is produced, every consumer ends: consumers that take partitions and
\* offsets from each other do not read the same records forever.
ConsumersEnd == \A k \in Conn : []<>(pc[k] = "idle")

\* stage_history.md: "`COMMIT` advances the group-owned offset." As long as the group
\* exists, none of its offsets goes back.
CommitAdvances ==
    [][\A g \in groups \cap groups' : \A p \in TP : committed'[g][p] >= committed[g][p]]_cvars
=============================================================================
