--------------------------- MODULE ConsumerGroup ----------------------------
(***************************************************************************)
(* The broker's consumer groups and the connections that join them: JOIN,  *)
(* LEAVE and COMMIT, rebalancing, and the removal of a connection's        *)
(* memberships when it closes.                                             *)
(*                                                                         *)
(* Every connection of TcpServer has a thread. JOIN and LEAVE hold         *)
(* consumer_groups_mutex_ throughout; COMMIT takes it, then waits for      *)
(* topics_mutex_, which a PRODUCE may hold while it waits for the          *)
(* follower. The removal of memberships takes and releases the mutex once  *)
(* for each, and other connections run in between. EpollServer does the    *)
(* same in one thread, which is a subset of these behaviours.              *)
(*                                                                         *)
(* Not modelled here: requests answered ERROR by JOIN and LEAVE, and       *)
(* GROUP_POLL, which change nothing.                                       *)
(***************************************************************************)
EXTENDS Integers, FiniteSets

CONSTANTS
    Group,          \* group ids
    Consumer,       \* consumer ids, in their order: numbers
    Topic,
    PartitionCount, \* Broker::kDefaultPartitionCount
    Offset,         \* offsets that clients commit
    Conn,           \* client connections
    ForeignLeave,   \* a client may LEAVE for a membership another connection joined
    MaxEntries,     \* bound on the entries of a connection for one membership
    None

TP == Topic \X (0..(PartitionCount - 1))

\* A COMMIT whose member commit_offset has found.
CommitRequest == [group : Group, tp : TP, off : Offset]

ASSUME ConsumerAssumption == Consumer \subseteq Nat /\ IsFiniteSet(Consumer)

ASSUME OffsetAssumption == Offset \subseteq Nat

ASSUME CountAssumption ==
    PartitionCount \in Nat \ {0} /\ MaxEntries \in Nat

ASSUME NoneAssumption == None \notin Topic /\ None \notin Conn /\ None \notin CommitRequest

ASSUME ForeignAssumption == ForeignLeave \in BOOLEAN

VARIABLES
    groups,      \* the keys of consumer_groups_
    topicOf,     \* GroupMember::topic; None for one that is no member
    assigned,    \* GroupMember::assignments
    committed,   \* ConsumerGroup::committed_offsets; -1 where there is none
    groupsMutex, \* the connection that holds consumer_groups_mutex_ while it waits
    topicsHeld,  \* a PRODUCE holds topics_mutex_
    topics,      \* the keys of topics_
    status,      \* of each connection
    joined,      \* joined_groups: how often a connection has each membership
    commit       \* the COMMIT a connection is in

broker == <<groups, topicOf, assigned, committed>>
connections == <<status, joined>>
vars == <<broker, groupsMutex, topicsHeld, topics, connections, commit>>

----------------------------------------------------------------------------
Members(g) == {c \in Consumer : topicOf[g][c] # None}

NoEntries == [m \in Group \X Consumer |-> 0]
NoOffsets == [p \in TP |-> -1]

Init ==
    /\ groups = {}
    /\ topicOf = [g \in Group |-> [c \in Consumer |-> None]]
    /\ assigned = [g \in Group |-> [c \in Consumer |-> {}]]
    /\ committed = [g \in Group |-> NoOffsets]
    /\ groupsMutex = None
    /\ topicsHeld = FALSE
    /\ topics = {}
    /\ status = [k \in Conn |-> "closed"]
    /\ joined = [k \in Conn |-> NoEntries]
    /\ commit = [k \in Conn |-> None]

----------------------------------------------------------------------------
(* Broker *)

\* rebalance_group: the consumers of a topic, sorted, take its partitions in turn. The
\* place of a consumer in that order is the number of those before it.
Rebalance(member) ==
    [c \in Consumer |->
        LET subscribers == {d \in Consumer : member[d] = member[c]}
            place == Cardinality({d \in subscribers : d < c})
        IN  {p \in TP : p[1] = member[c] /\ p[2] % Cardinality(subscribers) = place}]

\* The member enters and the group is rebalanced; a new group has no offsets.
JoinGroup(g, c, t) ==
    LET member == [topicOf[g] EXCEPT ![c] = t]
    IN  /\ topicOf' = [topicOf EXCEPT ![g] = member]
        /\ assigned' = [assigned EXCEPT ![g] = Rebalance(member)]
        /\ groups' = groups \cup {g}
        /\ UNCHANGED committed

RemoveMember_NoRebalance(g, c) ==
    LET member == [topicOf[g] EXCEPT ![c] = None]
        empty == \A d \in Consumer : member[d] = None
    IN  /\ topicOf' = [topicOf EXCEPT ![g] = member]
        /\ assigned' = [assigned EXCEPT ![g][c] = {}]
        /\ groups' = IF empty THEN groups \ {g} ELSE groups
        /\ committed' = IF empty THEN [committed EXCEPT ![g] = NoOffsets] ELSE committed

RemoveMember_KeepsGroup(g, c) ==
    LET member == [topicOf[g] EXCEPT ![c] = None]
    IN  /\ topicOf' = [topicOf EXCEPT ![g] = member]
        /\ assigned' = [assigned EXCEPT ![g] = Rebalance(member)]
        /\ UNCHANGED <<groups, committed>>

RemoveMember_DropsOffsets(g, c) ==
    LET member == [topicOf[g] EXCEPT ![c] = None]
        empty == \A d \in Consumer : member[d] = None
    IN  /\ topicOf' = [topicOf EXCEPT ![g] = member]
        /\ assigned' = [assigned EXCEPT ![g] = Rebalance(member)]
        /\ groups' = IF empty THEN groups \ {g} ELSE groups
        /\ committed' = [committed EXCEPT ![g] = NoOffsets]

\* The member leaves. The last one takes the group and its offsets along; otherwise the
\* group is rebalanced.
RemoveMember(g, c) ==
    LET member == [topicOf[g] EXCEPT ![c] = None]
        empty == \A d \in Consumer : member[d] = None
    IN  /\ topicOf' = [topicOf EXCEPT ![g] = member]
        /\ assigned' = [assigned EXCEPT ![g] = Rebalance(member)]
        /\ groups' = IF empty THEN groups \ {g} ELSE groups
        /\ committed' = IF empty THEN [committed EXCEPT ![g] = NoOffsets] ELSE committed

\* The offset from which GROUP_POLL has a member fetch a partition.
Position(g, p) == IF committed[g][p] = -1 THEN 0 ELSE committed[g][p]

----------------------------------------------------------------------------
(* Connections: the requests a server reads from them *)

Connect(k) ==
    /\ status[k] = "closed"
    /\ status' = [status EXCEPT ![k] = "open"]
    /\ UNCHANGED <<broker, groupsMutex, topicsHeld, topics, joined, commit>>

Join(k, g, c, t) ==
    /\ status[k] = "open"
    /\ groupsMutex = None
    /\ c \notin Members(g)
    /\ joined[k][<<g, c>>] < MaxEntries
    /\ JoinGroup(g, c, t)
    /\ joined' = [joined EXCEPT ![k][<<g, c>>] = @ + 1]
    /\ UNCHANGED <<groupsMutex, topicsHeld, topics, status, commit>>

Leave_KeepsEntry(k, g, c) ==
    /\ status[k] = "open"
    /\ groupsMutex = None
    /\ c \in Members(g)
    /\ ForeignLeave \/ joined[k][<<g, c>>] > 0
    /\ RemoveMember(g, c)
    /\ UNCHANGED <<groupsMutex, topicsHeld, topics, connections, commit>>

\* Whoever asks, the member leaves; the connection forgets one entry of its own for it.
Leave(k, g, c) ==
    /\ status[k] = "open"
    /\ groupsMutex = None
    /\ c \in Members(g)
    /\ ForeignLeave \/ joined[k][<<g, c>>] > 0
    /\ RemoveMember(g, c)
    /\ joined' = [joined EXCEPT ![k][<<g, c>>] = IF @ > 0 THEN @ - 1 ELSE 0]
    /\ UNCHANGED <<groupsMutex, topicsHeld, topics, status, commit>>

\* COMMIT finds the member, and keeps the mutex while it waits for the topics'.
Commit(k, g, c, p, o) ==
    /\ status[k] = "open"
    /\ groupsMutex = None
    /\ c \in Members(g)
    /\ groupsMutex' = k
    /\ commit' = [commit EXCEPT ![k] = [group |-> g, tp |-> p, off |-> o]]
    /\ status' = [status EXCEPT ![k] = "commit"]
    /\ UNCHANGED <<broker, topicsHeld, topics, joined>>

FinishCommit_KeepsMutex(k) ==
    LET g == commit[k].group
        p == commit[k].tp
        o == commit[k].off
    IN  /\ status[k] = "commit"
        /\ ~topicsHeld
        /\ committed' = IF p[1] \in topics THEN [committed EXCEPT ![g][p] = o] ELSE committed
        /\ commit' = [commit EXCEPT ![k] = None]
        /\ status' = [status EXCEPT ![k] = "open"]
        /\ UNCHANGED <<groups, topicOf, assigned, groupsMutex, topicsHeld, topics, joined>>

\* A topic nobody has produced to is answered ERROR; the offset itself is not checked.
FinishCommit(k) ==
    LET g == commit[k].group
        p == commit[k].tp
        o == commit[k].off
    IN  /\ status[k] = "commit"
        /\ ~topicsHeld
        /\ committed' = IF p[1] \in topics THEN [committed EXCEPT ![g][p] = o] ELSE committed
        /\ groupsMutex' = None
        /\ commit' = [commit EXCEPT ![k] = None]
        /\ status' = [status EXCEPT ![k] = "open"]
        /\ UNCHANGED <<groups, topicOf, assigned, topicsHeld, topics, joined>>

Disconnect_NoCleanup(k) ==
    /\ status[k] = "open"
    /\ status' = [status EXCEPT ![k] = "closed"]
    /\ joined' = [joined EXCEPT ![k] = NoEntries]
    /\ UNCHANGED <<broker, groupsMutex, topicsHeld, topics, commit>>

\* The client has gone: it closed the connection, it crashed, or a response failed.
Disconnect(k) ==
    /\ status[k] = "open"
    /\ status' = [status EXCEPT ![k] = "closing"]
    /\ UNCHANGED <<broker, groupsMutex, topicsHeld, topics, joined, commit>>

Cleanup_OnlyMembers(k) ==
    /\ status[k] = "closing"
    /\ groupsMutex = None
    /\ \E g \in Group : \E c \in Members(g) :
          /\ joined[k][<<g, c>>] > 0
          /\ RemoveMember(g, c)
          /\ joined' = [joined EXCEPT ![k][<<g, c>>] = @ - 1]
    /\ UNCHANGED <<groupsMutex, topicsHeld, topics, status, commit>>

\* remove_consumer_from_group, for one of the connection's memberships.
Cleanup(k) ==
    /\ status[k] = "closing"
    /\ groupsMutex = None
    /\ \E g \in Group : \E c \in Consumer :
          /\ joined[k][<<g, c>>] > 0
          /\ IF g \in groups THEN RemoveMember(g, c) ELSE UNCHANGED broker
          /\ joined' = [joined EXCEPT ![k][<<g, c>>] = @ - 1]
    /\ UNCHANGED <<groupsMutex, topicsHeld, topics, status, commit>>

Close(k) ==
    /\ status[k] = "closing"
    /\ joined[k] = NoEntries
    /\ status' = [status EXCEPT ![k] = "closed"]
    /\ UNCHANGED <<broker, groupsMutex, topicsHeld, topics, joined, commit>>

----------------------------------------------------------------------------
(* PRODUCE, as far as it concerns the groups (module Replication) *)

HoldTopics(t) ==
    /\ ~topicsHeld
    /\ topicsHeld' = TRUE
    /\ topics' = topics \cup {t}
    /\ UNCHANGED <<broker, groupsMutex, connections, commit>>

ReleaseTopics ==
    /\ topicsHeld
    /\ topicsHeld' = FALSE
    /\ UNCHANGED <<broker, groupsMutex, topics, connections, commit>>

----------------------------------------------------------------------------
Request(k) ==
    \E g \in Group : \E c \in Consumer :
        \/ \E t \in Topic : Join(k, g, c, t)
        \/ Leave(k, g, c)
        \/ \E p \in TP : \E o \in Offset : Commit(k, g, c, p, o)

Next ==
    \/ \E k \in Conn : \/ Connect(k) \/ Request(k) \/ FinishCommit(k)
                       \/ Disconnect(k) \/ Cleanup(k) \/ Close(k)
    \/ \E t \in Topic : HoldTopics(t)
    \/ ReleaseTopics

Spec == Init /\ [][Next]_vars

\* A thread that waits for a mutex that is free again and again gets it, and a PRODUCE
\* ends (module Replication).
FairSpec ==
    /\ Spec
    /\ \A k \in Conn : SF_vars(FinishCommit(k)) /\ SF_vars(Cleanup(k)) /\ WF_vars(Close(k))
    /\ WF_vars(ReleaseTopics)

----------------------------------------------------------------------------
(* Properties *)

BrokerOK ==
    /\ groups \subseteq Group
    /\ topicOf \in [Group -> [Consumer -> Topic \cup {None}]]
    /\ assigned \in [Group -> [Consumer -> SUBSET TP]]
    /\ committed \in [Group -> [TP -> Offset \cup {-1}]]
    /\ topics \subseteq Topic
    /\ topicsHeld \in BOOLEAN

ConnectionsOK ==
    /\ status \in [Conn -> {"closed", "open", "commit", "closing"}]
    /\ joined \in [Conn -> [Group \X Consumer -> Nat]]
    /\ commit \in [Conn -> CommitRequest \cup {None}]

\* The state has its type; consumer_groups_mutex_ is held across a wait by exactly the
\* connection that is in a COMMIT.
TypeOK ==
    /\ BrokerOK
    /\ ConnectionsOK
    /\ groupsMutex \in Conn \cup {None}
    /\ \A k \in Conn : (groupsMutex = k <=> status[k] = "commit") /\ (status[k] = "commit" <=> commit[k] # None)

Subscribers(g, t) == {c \in Consumer : topicOf[g][c] = t}

\* After every JOIN, LEAVE and closed connection, each partition of a topic that has
\* members in the group is assigned to exactly one of them, no member's share is larger
\* than another's by more than one, and nobody else is assigned anything.
AssignmentsFair ==
    \A g \in Group :
        /\ \A t \in Topic : \A i \in 0..(PartitionCount - 1) :
              Subscribers(g, t) # {} =>
                  \E c \in Subscribers(g, t) : {d \in Consumer : <<t, i>> \in assigned[g][d]} = {c}
        /\ \A t \in Topic : \A c, d \in Subscribers(g, t) :
              Cardinality(assigned[g][c]) <= Cardinality(assigned[g][d]) + 1
        /\ \A c \in Consumer : \A p \in assigned[g][c] : p[1] = topicOf[g][c]

\* Every member has a connection that will remove it when it closes: no membership holds
\* partitions after its consumer has gone, not even if any connection may LEAVE for it.
MembersOwned ==
    \A g \in Group : \A c \in Members(g) :
        \E k \in Conn : joined[k][<<g, c>>] > 0 /\ status[k] # "closed"

\* A group exists as long as it has members, and its offsets exist as long as it does: a
\* group that is created again starts without the offsets of the old one. A COMMIT that
\* waits for topics_mutex_ finds its group again.
EmptyGroupGone ==
    /\ \A g \in Group : /\ g \in groups <=> Members(g) # {}
                        /\ g \notin groups => committed[g] = NoOffsets
    /\ \A k \in Conn : status[k] = "commit" => commit[k].group \in groups

\* As long as a group has members, whoever joins or leaves, an offset changes only by the
\* COMMIT that names it, and only for a topic that exists.
OffsetsSurviveRebalance ==
    [][\A g \in groups \cap groups' : \A p \in TP :
          committed'[g][p] # committed[g][p] =>
              /\ p[1] \in topics
              /\ \E k \in Conn : /\ status[k] = "commit"
                                 /\ commit[k] = [group |-> g, tp |-> p, off |-> committed'[g][p]]]_vars

\* A connection that closes removes all its memberships and is forgotten, and a COMMIT is
\* answered, whatever the others do and however long PRODUCEs wait for the follower.
CleanupCompletes ==
    \A k \in Conn : []<>(status[k] \notin {"closing", "commit"})

\* If clients LEAVE only for memberships of their own connection, a membership in a
\* connection's list is a member's, once, and no other connection lists it, also while the
\* connection that had it before is still removing its memberships.
OwnedExclusively ==
    \A k \in Conn : \A g \in Group : \A c \in Consumer :
        joined[k][<<g, c>>] > 0 =>
            /\ c \in Members(g)
            /\ joined[k][<<g, c>>] = 1
            /\ \A j \in Conn \ {k} : joined[j][<<g, c>>] = 0
=============================================================================
