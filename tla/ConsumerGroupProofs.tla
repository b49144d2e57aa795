------------------------ MODULE ConsumerGroupProofs -------------------------
(***************************************************************************)
(* TLAPS proofs about ConsumerGroup, for any number of groups, consumers,  *)
(* topics, partitions and connections.                                     *)
(*                                                                         *)
(* A connection removes what it has listed in joined_groups, so what the   *)
(* broker holds for a member is safe only as long as the member is listed: *)
(* Listed says that it always is, and EntriesOpen that a list belongs to a *)
(* connection that has not been closed. Rebalanced says that assigned is   *)
(* at all times what rebalance_group computes from the members; that the   *)
(* computation is fair is a fact about numbers (RoundRobin, Shares).       *)
(***************************************************************************)
EXTENDS ConsumerGroup, FunctionTheorems, FiniteSetTheorems, TLAPS

\* A closed connection has no memberships left to remove.
EntriesOpen ==
    \A k \in Conn : \A g \in Group : \A c \in Consumer :
        joined[k][<<g, c>>] > 0 => status[k] # "closed"

\* Every member is in the list of some connection.
Listed ==
    \A g \in Group : \A c \in Consumer :
        topicOf[g][c] # None => \E k \in Conn : joined[k][<<g, c>>] > 0

\* The groups that exist are the ones with members; an absent one has no offsets.
GroupsInv ==
    \A g \in Group : /\ g \in groups <=> \E c \in Consumer : topicOf[g][c] # None
                     /\ g \notin groups => committed[g] = NoOffsets

\* The COMMIT that waits for topics_mutex_ is for a group that exists.
CommitInv == \A k \in Conn : status[k] = "commit" => commit[k].group \in groups

Rebalanced == \A g \in Group : assigned[g] = Rebalance(topicOf[g])

IInv == TypeOK /\ EntriesOpen /\ Listed /\ GroupsInv /\ CommitInv /\ Rebalanced

----------------------------------------------------------------------------
(* What the broker's operations do to the members of a group *)

\* rebalance_group assigns partitions.
LEMMA RebalanceType ==
    ASSUME NEW member PROVE Rebalance(member) \in [Consumer -> SUBSET TP]
BY DEF Rebalance

\* join_group adds one member, remove_consumer_from_group removes one; both leave the
\* other groups alone and reassign the partitions of this one.
LEMMA JoinEffect ==
    ASSUME BrokerOK, GroupsInv, Rebalanced,
           NEW g \in Group, NEW c \in Consumer, NEW t \in Topic, JoinGroup(g, c, t)
    PROVE  /\ groups' \subseteq Group
           /\ topicOf' \in [Group -> [Consumer -> Topic \cup {None}]]
           /\ assigned' \in [Group -> [Consumer -> SUBSET TP]]
           /\ committed' \in [Group -> [TP -> Offset \cup {-1}]]
           /\ topicOf'[g][c] # None
           /\ \A h \in Group : \A d \in Consumer :
                 <<h, d>> # <<g, c>> => topicOf'[h][d] = topicOf[h][d]
           /\ groups \subseteq groups'
           /\ GroupsInv'
           /\ Rebalanced'
<1> DEFINE member == [topicOf[g] EXCEPT ![c] = t]
<1>1. /\ topicOf' = [topicOf EXCEPT ![g] = member]
      /\ assigned' = [assigned EXCEPT ![g] = Rebalance(member)]
      /\ groups' = groups \cup {g}
      /\ committed' = committed
  BY DEF JoinGroup
<1>2. member \in [Consumer -> Topic \cup {None}] /\ member[c] = t /\ t # None
  BY NoneAssumption DEF BrokerOK
<1>3. Rebalance(member) \in [Consumer -> SUBSET TP]
  BY RebalanceType
<1> HIDE DEF member
<1>4. /\ groups' \subseteq Group
      /\ topicOf' \in [Group -> [Consumer -> Topic \cup {None}]]
      /\ assigned' \in [Group -> [Consumer -> SUBSET TP]]
      /\ committed' \in [Group -> [TP -> Offset \cup {-1}]]
  BY <1>1, <1>2, <1>3 DEF BrokerOK
<1>5. /\ topicOf'[g][c] # None
      /\ \A d \in Consumer : d # c => topicOf'[g][d] = topicOf[g][d]
      /\ \A h \in Group : h # g => topicOf'[h] = topicOf[h]
  BY <1>1, <1>2 DEF BrokerOK, member
<1>6. \A h \in Group : \A d \in Consumer :
         <<h, d>> # <<g, c>> => topicOf'[h][d] = topicOf[h][d]
  BY <1>5
<1>7. groups \subseteq groups'
  BY <1>1
<1>8. GroupsInv'
  BY <1>1, <1>5 DEF GroupsInv
<1>9. Rebalanced'
  <2> SUFFICES ASSUME NEW h \in Group PROVE assigned'[h] = Rebalance(topicOf'[h])
    BY DEF Rebalanced, Rebalance
  <2>1. CASE h = g
    BY <2>1, <1>1 DEF BrokerOK
  <2>2. CASE h # g
    BY <2>2, <1>1 DEF BrokerOK, Rebalanced
  <2> QED
    BY <2>1, <2>2
<1> QED
  BY <1>4, <1>5, <1>6, <1>7, <1>8, <1>9

\* See JoinEffect. Only the last member takes the group and its offsets along.
LEMMA RemoveEffect ==
    ASSUME BrokerOK, GroupsInv, Rebalanced,
           NEW g \in Group, NEW c \in Consumer, RemoveMember(g, c)
    PROVE  /\ groups' \subseteq Group
           /\ topicOf' \in [Group -> [Consumer -> Topic \cup {None}]]
           /\ assigned' \in [Group -> [Consumer -> SUBSET TP]]
           /\ committed' \in [Group -> [TP -> Offset \cup {-1}]]
           /\ topicOf'[g][c] = None
           /\ \A h \in Group : \A d \in Consumer :
                 <<h, d>> # <<g, c>> => topicOf'[h][d] = topicOf[h][d]
           /\ \A h \in groups' : committed'[h] = committed[h]
           /\ \A h \in Group : committed'[h] \in {committed[h], NoOffsets}
           /\ GroupsInv'
           /\ Rebalanced'
<1> DEFINE member == [topicOf[g] EXCEPT ![c] = None]
           empty == \A d \in Consumer : member[d] = None
<1>1. /\ topicOf' = [topicOf EXCEPT ![g] = member]
      /\ assigned' = [assigned EXCEPT ![g] = Rebalance(member)]
      /\ groups' = IF empty THEN groups \ {g} ELSE groups
      /\ committed' = IF empty THEN [committed EXCEPT ![g] = NoOffsets] ELSE committed
  BY DEF RemoveMember
<1>2. member \in [Consumer -> Topic \cup {None}] /\ member[c] = None
  BY DEF BrokerOK
<1>3. Rebalance(member) \in [Consumer -> SUBSET TP]
  BY RebalanceType
<1>a. NoOffsets \in [TP -> Offset \cup {-1}]
  BY DEF NoOffsets
<1> HIDE DEF member
<1>4. /\ groups' \subseteq Group
      /\ topicOf' \in [Group -> [Consumer -> Topic \cup {None}]]
      /\ assigned' \in [Group -> [Consumer -> SUBSET TP]]
      /\ committed' \in [Group -> [TP -> Offset \cup {-1}]]
  BY <1>1, <1>2, <1>3, <1>a DEF BrokerOK
<1>5. /\ topicOf'[g] = member
      /\ topicOf'[g][c] = None
      /\ \A d \in Consumer : d # c => topicOf'[g][d] = topicOf[g][d]
      /\ \A h \in Group : h # g => topicOf'[h] = topicOf[h]
  BY <1>1, <1>2 DEF BrokerOK, member
<1>6. \A h \in Group : \A d \in Consumer :
         <<h, d>> # <<g, c>> => topicOf'[h][d] = topicOf[h][d]
  BY <1>5
<1>7. /\ \A h \in groups' : committed'[h] = committed[h]
      /\ \A h \in Group : committed'[h] \in {committed[h], NoOffsets}
  BY <1>1 DEF BrokerOK
<1>8. GroupsInv'
  <2>1. CASE empty
    <3>1. committed'[g] = NoOffsets /\ g \notin groups'
      BY <1>1, <2>1 DEF BrokerOK
    <3>2. \A h \in Group : h # g => (h \in groups' <=> h \in groups) /\ committed'[h] = committed[h]
      BY <1>1, <2>1 DEF BrokerOK
    <3> QED
      BY <2>1, <3>1, <3>2, <1>5 DEF GroupsInv, NoOffsets
  <2>2. CASE ~empty
    <3>1. groups' = groups /\ committed' = committed
      BY <1>1, <2>2
    <3>2. (\E d \in Consumer : topicOf'[g][d] # None) /\ (\E d \in Consumer : topicOf[g][d] # None)
      BY <2>2, <1>2, <1>5
    <3> QED
      BY <3>1, <3>2, <1>5 DEF GroupsInv, NoOffsets
  <2> QED
    BY <2>1, <2>2
<1>9. Rebalanced'
  <2> SUFFICES ASSUME NEW h \in Group PROVE assigned'[h] = Rebalance(topicOf'[h])
    BY DEF Rebalanced, Rebalance
  <2>1. CASE h = g
    BY <2>1, <1>1 DEF BrokerOK
  <2>2. CASE h # g
    BY <2>2, <1>1 DEF BrokerOK, Rebalanced
  <2> QED
    BY <2>1, <2>2
<1> QED
  BY <1>4, <1>5, <1>6, <1>7, <1>8, <1>9

\* A connection has n entries for a membership from now on.
SetEntry(k, g, c, n) == joined' = [joined EXCEPT ![k][<<g, c>>] = n]

\* Only these entries are other than before.
EntrySet(k, g, c, n) ==
    /\ joined' \in [Conn -> [Group \X Consumer -> Nat]]
    /\ joined'[k][<<g, c>>] = n
    /\ \A j \in Conn : \A h \in Group : \A d \in Consumer :
          <<j, h, d>> # <<k, g, c>> => joined'[j][<<h, d>>] = joined[j][<<h, d>>]

\* A connection's entries for one membership change: the others stay as they are.
LEMMA EntryEffect ==
    ASSUME ConnectionsOK, NEW k \in Conn, NEW g \in Group, NEW c \in Consumer, NEW n \in Nat,
           SetEntry(k, g, c, n)
    PROVE  EntrySet(k, g, c, n)
<1>1. joined \in [Conn -> [Group \X Consumer -> Nat]] /\ <<g, c>> \in Group \X Consumer
  BY DEF ConnectionsOK
<1>2. joined' = [joined EXCEPT ![k] = [joined[k] EXCEPT ![<<g, c>>] = n]]
  BY <1>1 DEF SetEntry
<1>3. joined' \in [Conn -> [Group \X Consumer -> Nat]] /\ joined'[k][<<g, c>>] = n
  <2> DEFINE entries == [joined[k] EXCEPT ![<<g, c>>] = n]
  <2>1. entries \in [Group \X Consumer -> Nat] /\ entries[<<g, c>>] = n
    BY <1>1
  <2> HIDE DEF entries
  <2>2. joined' = [joined EXCEPT ![k] = entries]
    BY <1>2 DEF entries
  <2> QED
    BY <1>1, <2>1, <2>2
<1>4. ASSUME NEW j \in Conn, NEW h \in Group, NEW d \in Consumer, <<j, h, d>> # <<k, g, c>>
      PROVE  joined'[j][<<h, d>>] = joined[j][<<h, d>>]
  <2>1. <<h, d>> \in Group \X Consumer
    OBVIOUS
  <2>2. CASE j # k
    BY <1>1, <1>2, <2>2
  <2>3. CASE j = k
    <3>1. <<h, d>> # <<g, c>>
      BY <1>4, <2>3
    <3> QED
      BY <1>1, <1>2, <2>1, <2>3, <3>1
  <2> QED
    BY <2>2, <2>3
<1> QED
  BY <1>3, <1>4 DEF EntrySet

----------------------------------------------------------------------------
(* Every step keeps the invariant *)

\* Nothing exists when the broker starts.
LEMMA InitIInv == Init => IInv
<1> SUFFICES ASSUME Init PROVE IInv
  OBVIOUS
<1> USE DEF Init
<1>1. TypeOK
  BY NoneAssumption DEF TypeOK, BrokerOK, ConnectionsOK, NoEntries, NoOffsets
<1>2. EntriesOpen
  BY DEF EntriesOpen, NoEntries
<1>3. Listed /\ GroupsInv /\ CommitInv
  BY DEF Listed, GroupsInv, CommitInv
<1>4. Rebalanced
  <2> SUFFICES ASSUME NEW g \in Group PROVE assigned[g] = Rebalance(topicOf[g])
    BY DEF Rebalanced
  <2>1. \A c \in Consumer : topicOf[g][c] = None
    OBVIOUS
  <2>2. \A p \in TP : p[1] # None
    BY NoneAssumption DEF TP
  <2>3. Rebalance(topicOf[g]) = [c \in Consumer |-> {}]
    BY <2>1, <2>2 DEF Rebalance
  <2> QED
    BY <2>3
<1> QED
  BY <1>1, <1>2, <1>3, <1>4 DEF IInv

\* What the broker holds keeps what is said of it alone.
LEMMA BrokerUnchanged ==
    ASSUME IInv, UNCHANGED broker PROVE GroupsInv' /\ Rebalanced'
<1>1. groups' = groups /\ topicOf' = topicOf /\ assigned' = assigned /\ committed' = committed
  BY DEF broker
<1>2. GroupsInv'
  BY <1>1 DEF IInv, GroupsInv, NoOffsets
<1>3. Rebalanced'
  BY <1>1 DEF IInv, Rebalanced, Rebalance
<1> QED
  BY <1>2, <1>3

\* JOIN: the new member is in the list of the connection that asked.
LEMMA JoinStep ==
    ASSUME IInv, NEW k \in Conn, NEW g \in Group, NEW c \in Consumer, NEW t \in Topic,
           Join(k, g, c, t)
    PROVE  IInv'
<1>1. BrokerOK /\ ConnectionsOK /\ GroupsInv /\ Rebalanced
  BY DEF IInv, TypeOK
<1>2. PICK n \in Nat : n = joined[k][<<g, c>>] + 1 /\ n > 0
  BY <1>1 DEF ConnectionsOK
<1>3. /\ status[k] = "open"
      /\ SetEntry(k, g, c, n)
      /\ JoinGroup(g, c, t)
      /\ UNCHANGED <<groupsMutex, topicsHeld, topics, status, commit>>
  BY <1>2 DEF Join, SetEntry
<1>4. /\ joined' \in [Conn -> [Group \X Consumer -> Nat]]
      /\ joined'[k][<<g, c>>] = n
      /\ \A j \in Conn : \A h \in Group : \A d \in Consumer :
            <<j, h, d>> # <<k, g, c>> => joined'[j][<<h, d>>] = joined[j][<<h, d>>]
  <2>1. ConnectionsOK /\ SetEntry(k, g, c, n)
    BY <1>1, <1>3
  <2>2. EntrySet(k, g, c, n)
    BY <2>1, EntryEffect
  <2> QED
    BY <2>2, Zenon DEF EntrySet
<1>5. TypeOK'
  BY <1>3, <1>1, <1>4, JoinEffect DEF IInv, TypeOK, BrokerOK, ConnectionsOK
<1>6. EntriesOpen'
  BY <1>3, <1>4 DEF IInv, EntriesOpen
<1>7. Listed'
  <2> SUFFICES ASSUME NEW h \in Group, NEW d \in Consumer, topicOf'[h][d] # None
               PROVE  \E j \in Conn : joined'[j][<<h, d>>] > 0
    BY DEF Listed
  <2>1. CASE <<h, d>> = <<g, c>>
    BY <1>2, <1>4, <2>1
  <2>2. CASE <<h, d>> # <<g, c>>
    <3>1. topicOf[h][d] # None
      BY <2>2, <1>3, <1>1, JoinEffect
    <3>2. PICK j \in Conn : joined[j][<<h, d>>] > 0
      BY <3>1 DEF IInv, Listed
    <3> QED
      BY <3>2, <2>2, <1>4
  <2> QED
    BY <2>1, <2>2
<1>8. GroupsInv' /\ Rebalanced' /\ groups \subseteq groups'
  BY <1>3, <1>1, JoinEffect
<1>9. CommitInv'
  BY <1>3, <1>8 DEF IInv, CommitInv
<1> QED
  BY <1>5, <1>6, <1>7, <1>8, <1>9 DEF IInv

\* A member leaves, and one entry for it or none goes: the entries of the others stay.
LEMMA RemoveStep ==
    ASSUME IInv, NEW k \in Conn, NEW g \in Group, NEW c \in Consumer, NEW n \in Nat,
           groupsMutex = None, status[k] # "closed", RemoveMember(g, c),
           SetEntry(k, g, c, n),
           UNCHANGED <<groupsMutex, topicsHeld, topics, status, commit>>
    PROVE  IInv'
<1>1. BrokerOK /\ ConnectionsOK /\ GroupsInv /\ Rebalanced
  BY DEF IInv, TypeOK
<1>2. /\ joined' \in [Conn -> [Group \X Consumer -> Nat]]
      /\ joined'[k][<<g, c>>] = n
      /\ \A j \in Conn : \A h \in Group : \A d \in Consumer :
            <<j, h, d>> # <<k, g, c>> => joined'[j][<<h, d>>] = joined[j][<<h, d>>]
  <2>1. ConnectionsOK /\ SetEntry(k, g, c, n)
    BY <1>1
  <2>2. EntrySet(k, g, c, n)
    BY <2>1, EntryEffect
  <2> QED
    BY <2>2, Zenon DEF EntrySet
<1>3. TypeOK'
  BY <1>1, <1>2, RemoveEffect DEF IInv, TypeOK, BrokerOK, ConnectionsOK
<1>4. EntriesOpen'
  BY <1>2 DEF IInv, EntriesOpen
<1>5. Listed'
  <2> SUFFICES ASSUME NEW h \in Group, NEW d \in Consumer, topicOf'[h][d] # None
               PROVE  \E j \in Conn : joined'[j][<<h, d>>] > 0
    BY DEF Listed
  <2>1. <<h, d>> # <<g, c>>
    BY <1>1, RemoveEffect
  <2>2. topicOf[h][d] # None
    BY <2>1, <1>1, RemoveEffect
  <2>3. PICK j \in Conn : joined[j][<<h, d>>] > 0
    BY <2>2 DEF IInv, Listed
  <2> QED
    BY <2>1, <2>3, <1>2
<1>6. GroupsInv' /\ Rebalanced'
  BY <1>1, RemoveEffect
<1>7. CommitInv'
  BY NoneAssumption DEF IInv, TypeOK, CommitInv
<1> QED
  BY <1>3, <1>4, <1>5, <1>6, <1>7 DEF IInv

\* The removal of a membership whose group has already gone.
LEMMA ForgetStep ==
    ASSUME IInv, NEW k \in Conn, NEW g \in Group, NEW c \in Consumer, NEW n \in Nat,
           g \notin groups, status[k] # "closed",
           SetEntry(k, g, c, n),
           UNCHANGED <<broker, groupsMutex, topicsHeld, topics, status, commit>>
    PROVE  IInv'
<1>a. ConnectionsOK
  BY DEF IInv, TypeOK
<1>1. /\ joined' \in [Conn -> [Group \X Consumer -> Nat]]
      /\ joined'[k][<<g, c>>] = n
      /\ \A j \in Conn : \A h \in Group : \A d \in Consumer :
            <<j, h, d>> # <<k, g, c>> => joined'[j][<<h, d>>] = joined[j][<<h, d>>]
  <2>1. EntrySet(k, g, c, n)
    BY <1>a, EntryEffect
  <2> QED
    BY <2>1, Zenon DEF EntrySet
<1>2. TypeOK'
  BY <1>1 DEF IInv, TypeOK, BrokerOK, ConnectionsOK, broker
<1>3. EntriesOpen'
  BY <1>1 DEF IInv, EntriesOpen
<1>4. Listed'
  <2> SUFFICES ASSUME NEW h \in Group, NEW d \in Consumer, topicOf[h][d] # None
               PROVE  \E j \in Conn : joined'[j][<<h, d>>] > 0
    BY DEF Listed, broker
  <2>1. h # g
    BY DEF IInv, GroupsInv
  <2>2. PICK j \in Conn : joined[j][<<h, d>>] > 0
    BY DEF IInv, Listed
  <2> QED
    BY <2>1, <2>2, <1>1
<1>5. GroupsInv' /\ CommitInv' /\ Rebalanced'
  BY BrokerUnchanged DEF IInv, CommitInv, broker
<1> QED
  BY <1>2, <1>3, <1>4, <1>5 DEF IInv

\* The steps of a connection that change neither members nor lists.
LEMMA StatusStep ==
    ASSUME IInv, NEW k \in Conn, Connect(k) \/ Disconnect(k) \/ Close(k)
    PROVE  IInv'
<1>1. UNCHANGED <<broker, groupsMutex, topicsHeld, topics, joined, commit>>
  BY DEF Connect, Disconnect, Close
<1>2. PICK s \in {"closed", "open", "closing"} : status' = [status EXCEPT ![k] = s]
  BY DEF Connect, Disconnect, Close
<1>3. status[k] # "commit" /\ status \in [Conn -> {"closed", "open", "commit", "closing"}]
  BY DEF Connect, Disconnect, Close, IInv, TypeOK, ConnectionsOK
<1>4. /\ status' \in [Conn -> {"closed", "open", "commit", "closing"}]
      /\ \A j \in Conn : status'[j] = "commit" <=> status[j] = "commit"
  BY <1>2, <1>3
<1>5. TypeOK'
  BY <1>1, <1>4 DEF IInv, TypeOK, BrokerOK, ConnectionsOK, broker
<1>6. EntriesOpen'
  <2> SUFFICES ASSUME NEW j \in Conn, NEW g \in Group, NEW c \in Consumer, joined[j][<<g, c>>] > 0
               PROVE  status'[j] # "closed"
    BY <1>1 DEF EntriesOpen
  <2>1. status[j] # "closed"
    BY DEF IInv, EntriesOpen
  <2>2. ASSUME Close(k), j = k PROVE FALSE
    <3>1. joined[k] = NoEntries /\ <<g, c>> \in Group \X Consumer
      BY <2>2 DEF Close
    <3> QED
      BY <3>1, <2>2 DEF NoEntries
  <2> QED
    BY <2>1, <2>2, <1>3 DEF Connect, Disconnect, Close
<1>7. Listed' /\ GroupsInv' /\ CommitInv' /\ Rebalanced'
  BY <1>1, <1>4 DEF IInv, Listed, GroupsInv, CommitInv, Rebalanced, Rebalance, broker
<1> QED
  BY <1>5, <1>6, <1>7 DEF IInv

\* COMMIT: the member it finds keeps its group, and the mutex keeps the member.
LEMMA CommitStep ==
    ASSUME IInv, NEW k \in Conn, NEW g \in Group, NEW c \in Consumer,
           NEW p \in TP, NEW o \in Offset, Commit(k, g, c, p, o)
    PROVE  IInv'
<1> DEFINE r == [group |-> g, tp |-> p, off |-> o]
<1>1. /\ status[k] = "open" /\ groupsMutex = None /\ topicOf[g][c] # None
      /\ groupsMutex' = k
      /\ commit' = [commit EXCEPT ![k] = r]
      /\ status' = [status EXCEPT ![k] = "commit"]
      /\ UNCHANGED <<broker, topicsHeld, topics, joined>>
  BY DEF Commit, Members
<1>2. r \in CommitRequest /\ r # None /\ r.group = g
  BY NoneAssumption DEF CommitRequest
<1> HIDE DEF r
<1>3. TypeOK'
  <2>1. BrokerOK' /\ ConnectionsOK'
    BY <1>1, <1>2 DEF IInv, TypeOK, BrokerOK, ConnectionsOK, broker
  <2>2. ASSUME NEW j \in Conn
        PROVE  /\ groupsMutex' = j <=> status'[j] = "commit"
               /\ status'[j] = "commit" <=> commit'[j] # None
    BY <1>1, <1>2, NoneAssumption DEF IInv, TypeOK, ConnectionsOK
  <2> QED
    BY <1>1, <2>1, <2>2 DEF TypeOK
<1>4. EntriesOpen'
  BY <1>1 DEF IInv, TypeOK, ConnectionsOK, EntriesOpen
<1>5. Listed' /\ GroupsInv' /\ Rebalanced'
  <2>1. Listed'
    BY <1>1 DEF IInv, Listed, broker
  <2>2. GroupsInv' /\ Rebalanced'
    BY <1>1, BrokerUnchanged DEF IInv, broker
  <2> QED
    BY <2>1, <2>2
<1>6. CommitInv'
  <2>1. g \in groups
    BY <1>1 DEF IInv, GroupsInv
  <2> QED
    BY <1>1, <1>2, <2>1 DEF IInv, TypeOK, ConnectionsOK, CommitInv, broker
<1> QED
  BY <1>3, <1>4, <1>5, <1>6 DEF IInv

\* The rest of COMMIT: it changes the one offset of its group that it names.
LEMMA FinishEffect ==
    ASSUME IInv, NEW k \in Conn, FinishCommit(k)
    PROVE  /\ commit[k] \in CommitRequest /\ commit[k].group \in groups
           /\ committed' \in [Group -> [TP -> Offset \cup {-1}]]
           /\ \A h \in Group : \A q \in TP :
                 \/ committed'[h][q] = committed[h][q]
                 \/ /\ h = commit[k].group /\ q = commit[k].tp /\ q[1] \in topics
                    /\ committed'[h][q] = commit[k].off
           /\ \A h \in Group : h # commit[k].group => committed'[h] = committed[h]
<1> DEFINE g == commit[k].group
           p == commit[k].tp
           o == commit[k].off
<1>1. status[k] = "commit" /\ commit[k] # None
  BY DEF FinishCommit, IInv, TypeOK
<1>2. commit[k] \in CommitRequest /\ g \in groups /\ g \in Group /\ p \in TP /\ o \in Offset
  BY <1>1 DEF IInv, TypeOK, ConnectionsOK, CommitInv, CommitRequest
<1>3. committed' = IF p[1] \in topics THEN [committed EXCEPT ![g][p] = o] ELSE committed
  BY DEF FinishCommit
<1>4. committed \in [Group -> [TP -> Offset \cup {-1}]]
  BY DEF IInv, TypeOK, BrokerOK
<1> HIDE DEF g, p, o
<1>5. CASE p[1] \in topics
  <2> DEFINE offsets == [committed[g] EXCEPT ![p] = o]
  <2>1. /\ offsets \in [TP -> Offset \cup {-1}]
        /\ \A q \in TP : offsets[q] = IF q = p THEN o ELSE committed[g][q]
    BY <1>2, <1>4
  <2>2. committed' = [committed EXCEPT ![g] = offsets]
    BY <1>2, <1>3, <1>4, <1>5
  <2> HIDE DEF offsets
  <2>3. committed' \in [Group -> [TP -> Offset \cup {-1}]]
    BY <1>2, <1>4, <2>1, <2>2
  <2>4. \A h \in Group : committed'[h] = IF h = g THEN offsets ELSE committed[h]
    BY <1>4, <2>2
  <2> QED
    BY <1>2, <1>5, <2>1, <2>3, <2>4 DEF g, p, o
<1>6. CASE p[1] \notin topics
  BY <1>2, <1>3, <1>4, <1>6 DEF g, p, o
<1> QED
  BY <1>5, <1>6

\* The rest of COMMIT keeps the invariant: it gives the mutex back.
LEMMA FinishStep ==
    ASSUME IInv, NEW k \in Conn, FinishCommit(k)
    PROVE  IInv'
<1>1. /\ status[k] = "commit" /\ groupsMutex' = None
      /\ commit' = [commit EXCEPT ![k] = None]
      /\ status' = [status EXCEPT ![k] = "open"]
      /\ UNCHANGED <<groups, topicOf, assigned, topicsHeld, topics, joined>>
  BY DEF FinishCommit
<1>2. groupsMutex = k
  BY <1>1 DEF IInv, TypeOK
<1>3. TypeOK'
  <2>1. BrokerOK' /\ ConnectionsOK'
    BY <1>1, FinishEffect DEF IInv, TypeOK, BrokerOK, ConnectionsOK
  <2>2. ASSUME NEW j \in Conn
        PROVE  /\ groupsMutex' = j <=> status'[j] = "commit"
               /\ status'[j] = "commit" <=> commit'[j] # None
    BY <1>1, <1>2, NoneAssumption DEF IInv, TypeOK, ConnectionsOK
  <2> QED
    BY <1>1, <2>1, <2>2 DEF TypeOK
<1>4. EntriesOpen'
  BY <1>1 DEF IInv, TypeOK, ConnectionsOK, EntriesOpen
<1>5. Listed' /\ Rebalanced'
  BY <1>1 DEF IInv, Listed, Rebalanced, Rebalance
<1>6. GroupsInv'
  BY <1>1, FinishEffect DEF IInv, GroupsInv, NoOffsets
<1>7. CommitInv'
  BY <1>1 DEF IInv, TypeOK, ConnectionsOK, CommitInv
<1> QED
  BY <1>3, <1>4, <1>5, <1>6, <1>7 DEF IInv

\* A step outside the groups and the connections.
LEMMA QuietStep ==
    ASSUME IInv, UNCHANGED <<broker, groupsMutex, connections, commit>>,
           topicsHeld' \in BOOLEAN, topics' \subseteq Topic
    PROVE  IInv'
<1>1. TypeOK'
  BY DEF IInv, TypeOK, BrokerOK, ConnectionsOK, broker, connections
<1>2. EntriesOpen' /\ Listed' /\ CommitInv'
  BY DEF IInv, EntriesOpen, Listed, CommitInv, broker, connections
<1> QED
  BY <1>1, <1>2, BrokerUnchanged DEF IInv

\* The invariant is inductive: one case for each action.
LEMMA NextIInv == IInv /\ [Next]_vars => IInv'
<1> SUFFICES ASSUME IInv, [Next]_vars PROVE IInv'
  OBVIOUS
<1>a. joined \in [Conn -> [Group \X Consumer -> Nat]]
  BY DEF IInv, TypeOK, ConnectionsOK
<1>1. ASSUME NEW k \in Conn, Connect(k) \/ Disconnect(k) \/ Close(k) PROVE IInv'
  BY <1>1, StatusStep
<1>2. ASSUME NEW k \in Conn, NEW g \in Group, NEW c \in Consumer, NEW t \in Topic, Join(k, g, c, t)
      PROVE  IInv'
  BY <1>2, JoinStep
<1>3. ASSUME NEW k \in Conn, NEW g \in Group, NEW c \in Consumer, Leave(k, g, c)
      PROVE  IInv'
  <2> DEFINE old == joined[k][<<g, c>>]
             n == IF old > 0 THEN old - 1 ELSE 0
  <2>1. n \in Nat
    BY <1>a
  <2>2. /\ SetEntry(k, g, c, n)
        /\ groupsMutex = None /\ status[k] # "closed" /\ RemoveMember(g, c)
        /\ UNCHANGED <<groupsMutex, topicsHeld, topics, status, commit>>
    BY <1>3 DEF Leave, SetEntry
  <2> HIDE DEF n
  <2> QED
    BY <2>1, <2>2, RemoveStep
<1>4. ASSUME NEW k \in Conn, NEW g \in Group, NEW c \in Consumer, NEW p \in TP, NEW o \in Offset,
             Commit(k, g, c, p, o)
      PROVE  IInv'
  BY <1>4, CommitStep
<1>5. ASSUME NEW k \in Conn, FinishCommit(k) PROVE IInv'
  BY <1>5, FinishStep
<1>6. ASSUME NEW k \in Conn, Cleanup(k) PROVE IInv'
  <2>1. PICK g \in Group, c \in Consumer :
           /\ joined[k][<<g, c>>] > 0
           /\ IF g \in groups THEN RemoveMember(g, c) ELSE UNCHANGED broker
           /\ joined' = [joined EXCEPT ![k][<<g, c>>] = @ - 1]
    BY <1>6 DEF Cleanup
  <2>2. /\ groupsMutex = None /\ status[k] # "closed"
        /\ UNCHANGED <<groupsMutex, topicsHeld, topics, status, commit>>
    BY <1>6 DEF Cleanup
  <2> DEFINE n == joined[k][<<g, c>>] - 1
  <2>3. n \in Nat /\ SetEntry(k, g, c, n)
    BY <1>a, <2>1 DEF SetEntry
  <2> HIDE DEF n
  <2>4. CASE g \in groups
    BY <2>1, <2>2, <2>3, <2>4, RemoveStep
  <2>5. CASE g \notin groups
    BY <2>1, <2>2, <2>3, <2>5, ForgetStep
  <2> QED
    BY <2>4, <2>5
<1>7. ASSUME NEW t \in Topic, HoldTopics(t) PROVE IInv'
  <2>1. UNCHANGED <<broker, groupsMutex, connections, commit>>
    BY <1>7 DEF HoldTopics
  <2>2. topicsHeld' \in BOOLEAN /\ topics' \subseteq Topic
    BY <1>7 DEF HoldTopics, IInv, TypeOK, BrokerOK
  <2> QED
    BY <2>1, <2>2, QuietStep
<1>8. CASE ReleaseTopics
  <2>1. UNCHANGED <<broker, groupsMutex, connections, commit>>
    BY <1>8 DEF ReleaseTopics
  <2>2. topicsHeld' \in BOOLEAN /\ topics' \subseteq Topic
    BY <1>8 DEF ReleaseTopics, IInv, TypeOK, BrokerOK
  <2> QED
    BY <2>1, <2>2, QuietStep
<1>9. CASE UNCHANGED vars
  <2>1. UNCHANGED <<broker, groupsMutex, connections, commit>>
    BY <1>9 DEF vars
  <2>2. topicsHeld' \in BOOLEAN /\ topics' \subseteq Topic
    BY <1>9 DEF vars, IInv, TypeOK, BrokerOK
  <2> QED
    BY <2>1, <2>2, QuietStep
<1> QED
  BY <1>1, <1>2, <1>3, <1>4, <1>5, <1>6, <1>7, <1>8, <1>9 DEF Next, Request

\* The invariant holds of every reachable state.
LEMMA Invariant == Spec => []IInv
BY InitIInv, NextIInv, PTL DEF Spec

----------------------------------------------------------------------------
(* The properties *)

\* The broker's state has its type, and consumer_groups_mutex_ is held across a wait by
\* exactly the connection that is in a COMMIT.
THEOREM TypeCorrect == Spec => []TypeOK
BY Invariant, PTL DEF IInv

\* Whatever connections join, leave, crash and commit, in whatever order, every member has
\* an open connection that lists it and will remove it: no partition is assigned to a
\* consumer that nobody will ever remove.
THEOREM MembersHaveOwners == Spec => []MembersOwned
<1>1. IInv => MembersOwned
  BY DEF IInv, Listed, EntriesOpen, MembersOwned, Members
<1> QED
  BY <1>1, Invariant, PTL

\* A group exists exactly as long as it has members, its offsets as long as it does, and
\* the group of a COMMIT that waits for topics_mutex_ still exists when it goes on.
THEOREM EmptyGroupsGone == Spec => []EmptyGroupGone
<1>1. IInv => EmptyGroupGone
  BY DEF IInv, GroupsInv, CommitInv, EmptyGroupGone, Members
<1> QED
  BY <1>1, Invariant, PTL

\* Offsets change by COMMIT, and go with the last member of a group.
LEMMA CommittedBy ==
    ASSUME Next
    PROVE  \/ \E k \in Conn : FinishCommit(k)
           \/ \E h \in Group, c \in Consumer : RemoveMember(h, c)
           \/ UNCHANGED committed
<1>1. ASSUME NEW k \in Conn, Request(k)
      PROVE  (\E h \in Group, c \in Consumer : RemoveMember(h, c)) \/ UNCHANGED committed
  BY <1>1 DEF Request, Join, JoinGroup, Leave, Commit, broker
<1>2. ASSUME NEW k \in Conn, Cleanup(k)
      PROVE  (\E h \in Group, c \in Consumer : RemoveMember(h, c)) \/ UNCHANGED committed
  BY <1>2 DEF Cleanup, broker
<1>3. ASSUME NEW k \in Conn, Connect(k) \/ Disconnect(k) \/ Close(k) PROVE UNCHANGED committed
  BY <1>3 DEF Connect, Disconnect, Close, broker
<1>4. ASSUME (\E t \in Topic : HoldTopics(t)) \/ ReleaseTopics PROVE UNCHANGED committed
  BY <1>4 DEF HoldTopics, ReleaseTopics, broker
<1> QED
  BY <1>1, <1>2, <1>3, <1>4 DEF Next

\* An offset after a step was there before, has gone, or comes from the COMMIT of a connection.
LEMMA CommittedFrom ==
    ASSUME IInv, [Next]_vars, NEW g \in Group, NEW p \in TP
    PROVE  \/ committed'[g][p] \in {committed[g][p], -1}
           \/ \E k \in Conn : /\ commit[k] # None /\ commit[k].group = g /\ commit[k].tp = p
                              /\ commit[k].off = committed'[g][p]
<1>1. BrokerOK /\ GroupsInv /\ Rebalanced
  BY DEF IInv, TypeOK
<1>2. ASSUME NEW k \in Conn, FinishCommit(k)
      PROVE  \/ committed'[g][p] \in {committed[g][p], -1}
             \/ /\ commit[k] # None /\ commit[k].group = g /\ commit[k].tp = p
                /\ commit[k].off = committed'[g][p]
  BY <1>2, FinishEffect, NoneAssumption
<1>3. ASSUME NEW h \in Group, NEW c \in Consumer, RemoveMember(h, c)
      PROVE  committed'[g][p] \in {committed[g][p], -1}
  <2>1. committed'[g] \in {committed[g], NoOffsets}
    BY <1>1, <1>3, RemoveEffect
  <2> QED
    BY <2>1 DEF NoOffsets
<1>4. CASE UNCHANGED vars
  BY <1>4 DEF vars, broker
<1> QED
  BY <1>2, <1>3, <1>4, CommittedBy

\* As long as a group has members, an offset changes only by the COMMIT that names it, and
\* only for a topic that exists: no JOIN, LEAVE or closing connection touches it.
THEOREM OffsetsSurvive == Spec => OffsetsSurviveRebalance
<1> DEFINE Survive ==
       \A g \in groups \cap groups' : \A p \in TP :
          committed'[g][p] # committed[g][p] =>
              /\ p[1] \in topics
              /\ \E k \in Conn : /\ status[k] = "commit"
                                 /\ commit[k] = [group |-> g, tp |-> p, off |-> committed'[g][p]]
<1>1. IInv /\ [Next]_vars => [Survive]_vars
  <2> SUFFICES ASSUME IInv, Next, NEW g \in groups \cap groups', NEW p \in TP,
                      committed'[g][p] # committed[g][p]
               PROVE  /\ p[1] \in topics
                      /\ \E k \in Conn :
                            /\ status[k] = "commit"
                            /\ commit[k] = [group |-> g, tp |-> p, off |-> committed'[g][p]]
    OBVIOUS
  <2>1. BrokerOK /\ GroupsInv /\ Rebalanced /\ g \in Group
    BY DEF IInv, TypeOK, BrokerOK
  <2>2. ASSUME NEW k \in Conn, FinishCommit(k)
        PROVE  /\ p[1] \in topics
               /\ status[k] = "commit"
               /\ commit[k] = [group |-> g, tp |-> p, off |-> committed'[g][p]]
    <3>1. commit[k] \in CommitRequest /\ p[1] \in topics
          /\ g = commit[k].group /\ p = commit[k].tp /\ committed'[g][p] = commit[k].off
      BY <2>1, <2>2, FinishEffect
    <3>2. commit[k] = [group |-> commit[k].group, tp |-> commit[k].tp, off |-> commit[k].off]
      BY <3>1 DEF CommitRequest
    <3> QED
      BY <2>2, <3>1, <3>2 DEF FinishCommit
  <2>3. ASSUME NEW h \in Group, NEW c \in Consumer, RemoveMember(h, c) PROVE FALSE
    BY <2>1, <2>3, RemoveEffect
  <2>4. \/ \E k \in Conn : FinishCommit(k)
        \/ \E h \in Group, c \in Consumer : RemoveMember(h, c)
        \/ UNCHANGED committed
    BY CommittedBy
  <2> QED
    BY <2>2, <2>3, <2>4
<1>2. OffsetsSurviveRebalance <=> [][Survive]_vars
  BY DEF OffsetsSurviveRebalance
<1> QED
  BY <1>1, <1>2, Invariant, PTL DEF Spec

----------------------------------------------------------------------------
(* Memberships of one's own *)

\* If a client leaves only what its own connection joined, an entry is the only one for a
\* member.
Exclusive ==
    \A k \in Conn : \A g \in Group : \A c \in Consumer :
        joined[k][<<g, c>>] > 0 =>
            /\ topicOf[g][c] # None
            /\ joined[k][<<g, c>>] = 1
            /\ \A j \in Conn : j # k => joined[j][<<g, c>>] = 0

\* JOIN of a consumer that is no member: nobody has an entry for it yet.
LEMMA JoinExclusive ==
    ASSUME IInv, Exclusive, NEW k \in Conn, NEW g \in Group, NEW c \in Consumer, NEW t \in Topic,
           Join(k, g, c, t)
    PROVE  Exclusive'
<1> DEFINE n == joined[k][<<g, c>>] + 1
<1>1. SetEntry(k, g, c, n) /\ JoinGroup(g, c, t) /\ topicOf[g][c] = None
  BY DEF Join, SetEntry, Members
<1>2. BrokerOK /\ ConnectionsOK /\ GroupsInv /\ Rebalanced
  BY DEF IInv, TypeOK
<1>3. \A j \in Conn : joined[j][<<g, c>>] = 0
  BY <1>1, <1>2 DEF ConnectionsOK, Exclusive
<1>4. n = 1
  BY <1>3
<1> HIDE DEF n
<1>5. /\ joined'[k][<<g, c>>] = 1
      /\ \A j \in Conn : \A h \in Group : \A d \in Consumer :
            <<j, h, d>> # <<k, g, c>> => joined'[j][<<h, d>>] = joined[j][<<h, d>>]
  <2>1. n \in Nat
    BY <1>4
  <2>2. EntrySet(k, g, c, n)
    BY <1>1, <1>2, <2>1, EntryEffect
  <2> QED
    BY <1>4, <2>2, Zenon DEF EntrySet
<1>6. /\ topicOf'[g][c] # None
      /\ \A h \in Group : \A d \in Consumer :
            <<h, d>> # <<g, c>> => topicOf'[h][d] = topicOf[h][d]
  BY <1>1, <1>2, JoinEffect
<1> SUFFICES ASSUME NEW j \in Conn, NEW h \in Group, NEW d \in Consumer, joined'[j][<<h, d>>] > 0
             PROVE  /\ topicOf'[h][d] # None
                    /\ joined'[j][<<h, d>>] = 1
                    /\ \A i \in Conn : i # j => joined'[i][<<h, d>>] = 0
  BY DEF Exclusive
<1>7. CASE h = g /\ d = c
  <2>1. j = k
    BY <1>3, <1>5, <1>7
  <2> QED
    BY <1>3, <1>5, <1>6, <1>7, <2>1
<1>8. CASE ~(h = g /\ d = c)
  BY <1>5, <1>6, <1>8 DEF Exclusive
<1> QED
  BY <1>7, <1>8

\* A member leaves and the only entry for it goes.
LEMMA RemoveExclusive ==
    ASSUME IInv, Exclusive, NEW k \in Conn, NEW g \in Group, NEW c \in Consumer,
           joined[k][<<g, c>>] > 0, RemoveMember(g, c), SetEntry(k, g, c, 0)
    PROVE  Exclusive'
<1>1. BrokerOK /\ ConnectionsOK /\ GroupsInv /\ Rebalanced
  BY DEF IInv, TypeOK
<1>2. /\ joined'[k][<<g, c>>] = 0
      /\ \A j \in Conn : \A h \in Group : \A d \in Consumer :
            <<j, h, d>> # <<k, g, c>> => joined'[j][<<h, d>>] = joined[j][<<h, d>>]
  <2>1. EntrySet(k, g, c, 0)
    BY <1>1, EntryEffect
  <2> QED
    BY <2>1, Zenon DEF EntrySet
<1>3. \A h \in Group : \A d \in Consumer :
         <<h, d>> # <<g, c>> => topicOf'[h][d] = topicOf[h][d]
  BY <1>1, RemoveEffect
<1>4. \A j \in Conn : joined'[j][<<g, c>>] = 0
  BY <1>2 DEF Exclusive
<1> SUFFICES ASSUME NEW j \in Conn, NEW h \in Group, NEW d \in Consumer, joined'[j][<<h, d>>] > 0
             PROVE  /\ topicOf'[h][d] # None
                    /\ joined'[j][<<h, d>>] = 1
                    /\ \A i \in Conn : i # j => joined'[i][<<h, d>>] = 0
  BY DEF Exclusive
<1>5. ~(h = g /\ d = c)
  BY <1>4
<1> QED
  BY <1>2, <1>3, <1>5 DEF Exclusive

\* As long as clients LEAVE only for memberships of their own connection, every step keeps
\* entries and members in one-to-one correspondence.
LEMMA NextExclusive ==
    ASSUME ForeignLeave = FALSE PROVE IInv /\ Exclusive /\ [Next]_vars => Exclusive'
<1> SUFFICES ASSUME IInv, Exclusive, [Next]_vars PROVE Exclusive'
  OBVIOUS
<1>a. joined \in [Conn -> [Group \X Consumer -> Nat]]
  BY DEF IInv, TypeOK, ConnectionsOK
<1>1. ASSUME NEW k \in Conn, NEW g \in Group, NEW c \in Consumer, NEW t \in Topic, Join(k, g, c, t)
      PROVE  Exclusive'
  BY <1>1, JoinExclusive
<1>2. ASSUME NEW k \in Conn, NEW g \in Group, NEW c \in Consumer, Leave(k, g, c)
      PROVE  Exclusive'
  <2>1. joined[k][<<g, c>>] > 0 /\ RemoveMember(g, c)
    BY <1>2 DEF Leave
  <2>2. joined[k][<<g, c>>] = 1
    BY <2>1 DEF Exclusive
  <2>3. SetEntry(k, g, c, 0)
    BY <1>2, <2>2 DEF Leave, SetEntry
  <2> QED
    BY <2>1, <2>3, RemoveExclusive
<1>3. ASSUME NEW k \in Conn, Cleanup(k) PROVE Exclusive'
  <2>1. PICK g \in Group, c \in Consumer :
           /\ joined[k][<<g, c>>] > 0
           /\ IF g \in groups THEN RemoveMember(g, c) ELSE UNCHANGED broker
           /\ joined' = [joined EXCEPT ![k][<<g, c>>] = @ - 1]
    BY <1>3 DEF Cleanup
  <2>2. joined[k][<<g, c>>] = 1 /\ topicOf[g][c] # None
    BY <2>1 DEF Exclusive
  <2>3. SetEntry(k, g, c, 0)
    BY <2>1, <2>2 DEF SetEntry
  <2>4. g \in groups
    BY <2>2 DEF IInv, GroupsInv
  <2> QED
    BY <2>1, <2>3, <2>4, RemoveExclusive
<1>4. ASSUME UNCHANGED <<topicOf, joined>> PROVE Exclusive'
  BY <1>4, ZenonT(40) DEF Exclusive
<1>5. ASSUME NEW k \in Conn,
             \/ Connect(k) \/ Disconnect(k) \/ Close(k) \/ FinishCommit(k)
             \/ \E g \in Group, c \in Consumer, p \in TP, o \in Offset : Commit(k, g, c, p, o)
      PROVE  UNCHANGED <<topicOf, joined>>
  BY <1>5 DEF Connect, Disconnect, Close, FinishCommit, Commit, broker
<1>6. ASSUME (\E t \in Topic : HoldTopics(t)) \/ ReleaseTopics \/ UNCHANGED vars
      PROVE  UNCHANGED <<topicOf, joined>>
  BY <1>6 DEF HoldTopics, ReleaseTopics, vars, broker, connections
<1> QED
  BY <1>1, <1>2, <1>3, <1>4, <1>5, <1>6 DEF Next, Request

\* If clients LEAVE only for memberships of their own connection, a membership in a
\* connection's list is a member's, once, and in no other list, also while connections
\* close: the removal of a closed connection never hits a consumer that joined elsewhere.
THEOREM OwnersExclusive ==
    ASSUME ForeignLeave = FALSE PROVE Spec => []OwnedExclusively
<1>1. Init => Exclusive
  BY DEF Init, Exclusive, NoEntries
<1>2. Exclusive => OwnedExclusively
  BY ZenonT(40) DEF Exclusive, OwnedExclusively, Members
<1>3. IInv /\ Exclusive /\ [Next]_vars => Exclusive'
  BY NextExclusive
<1> QED
  BY <1>1, <1>2, <1>3, Invariant, PTL DEF Spec

----------------------------------------------------------------------------
(* Fair assignments *)

\* The place of a consumer among those of its topic, counted from zero.
Place(S, c) == Cardinality({d \in S : d < c})

\* The consumers of a topic have the places 0, 1, 2... : no place is taken twice, so that
\* by counting none is left out.
LEMMA Places ==
    ASSUME NEW S, S \subseteq Nat, IsFiniteSet(S)
    PROVE  /\ Cardinality(S) \in Nat
           /\ \A c \in S : Place(S, c) \in 0..(Cardinality(S) - 1)
           /\ \A c, d \in S : Place(S, c) = Place(S, d) => c = d
           /\ \A i \in 0..(Cardinality(S) - 1) : \E c \in S : Place(S, c) = i
<1> DEFINE n == Cardinality(S)
           Before(c) == {d \in S : d < c}
           T == 0..(n - 1)
           f == [c \in S |-> Place(S, c)]
<1>1. n \in Nat
  BY FS_CardinalityType
<1>2. ASSUME NEW c \in S PROVE IsFiniteSet(Before(c)) /\ Place(S, c) \in Nat
  BY FS_Subset, FS_CardinalityType DEF Place
<1>3. ASSUME NEW c \in S PROVE Place(S, c) \in 0..(n - 1)
  <2>1. Before(c) \in SUBSET S /\ Before(c) # S
    <3>1. c \notin Before(c)
      OBVIOUS
    <3> QED
      BY <3>1
  <2>2. Place(S, c) <= n /\ Place(S, c) # n
    BY <2>1, FS_Subset DEF Place
  <2>3. Place(S, c) \in Nat
    BY <1>2
  <2> HIDE DEF n
  <2> QED
    BY <1>1, <2>2, <2>3
<1>4. ASSUME NEW c \in S, NEW d \in S, c < d PROVE Place(S, c) # Place(S, d)
  <2>1. Before(c) \in SUBSET Before(d)
    <3>1. c \in Nat /\ d \in Nat /\ \A e \in S : e \in Nat /\ (e < c => e < d)
      BY <1>4
    <3> QED
      BY <3>1
  <2>2. c \in Before(d) /\ c \notin Before(c)
    BY <1>4
  <2>3. Before(c) # Before(d)
    BY <2>2
  <2> HIDE DEF Before
  <2>4. Cardinality(Before(d)) # Cardinality(Before(c))
    BY <1>2, <2>1, <2>3, FS_Subset
  <2> QED
    BY <2>4 DEF Place, Before
<1>5. \A c, d \in S : Place(S, c) = Place(S, d) => c = d
  <2> SUFFICES ASSUME NEW c \in S, NEW d \in S, c # d PROVE Place(S, c) # Place(S, d)
    OBVIOUS
  <2>1. c < d \/ d < c
    OBVIOUS
  <2> QED
    BY <2>1, <1>4
<1>6. f \in Injection(S, T)
  BY <1>3, <1>5 DEF Injection, IsInjective
<1>7. IsFiniteSet(T) /\ Cardinality(T) = n
  <2>1. IsFiniteSet(T) /\ Cardinality(T) = IF 0 > n - 1 THEN 0 ELSE (n - 1) - 0 + 1
    BY <1>1, FS_Interval
  <2> QED
    BY <1>1, <2>1
<1>8. f \in Surjection(S, T)
  <2> HIDE DEF f, T
  <2> QED
    BY <1>6, <1>7, FS_Injection
<1>9. \A i \in T : \E c \in S : Place(S, c) = i
  BY <1>8 DEF Surjection
<1> QED
  BY <1>1, <1>3, <1>5, <1>9

\* A partition goes to the consumer whose place is the partition's number modulo the
\* number of consumers.
LEMMA Remainder ==
    ASSUME NEW x \in Nat, NEW n \in Nat \ {0} PROVE x % n \in 0..(n - 1)
OBVIOUS

\* A step of n back, to the place of another consumer, stays within the numbers: this maps
\* all partitions of one consumer but its first to those of another.
LEMMA StepBack ==
    ASSUME NEW x \in Nat, NEW n \in Nat \ {0}, x # x % n, NEW j \in 0..(n - 1)
    PROVE  LET y == x - (x % n) - n + j IN y \in Nat /\ y < x /\ y % n = j
<1> DEFINE i == x % n
           q == x \div n
<1>1. i \in 0..(n - 1)
  OBVIOUS
<1>2. q \in Nat
  OBVIOUS
<1>3. x = n * q + i
  OBVIOUS
<1> HIDE DEF i, q
<1>4. q # 0
  BY <1>1, <1>2, <1>3 DEF i
<1>5. q - 1 \in Nat /\ n * (q - 1) \in Nat /\ n * q = n * (q - 1) + n
  BY <1>2, <1>4
<1>6. x - i - n + j = n * (q - 1) + j
  BY <1>1, <1>2, <1>3, <1>5
<1>7. (n * (q - 1) + j) % n = j
  <2>1. PICK m \in Nat : m = q - 1
    BY <1>5
  <2>2. (n * m + j) % n = j
    OBVIOUS
  <2> QED
    BY <2>1, <2>2
<1>8. n * (q - 1) + j \in Nat /\ n * (q - 1) + j < x
  BY <1>1, <1>3, <1>5
<1> QED
  BY <1>6, <1>7, <1>8 DEF i

\* The partitions of a topic that go to one place.
Share(t, n, i) == {p \in TP : p[1] = t /\ p[2] % n = i}

\* Two places get the same number of partitions, or one of them one more.
LEMMA Shares ==
    ASSUME NEW t \in Topic, NEW n \in Nat \ {0}, NEW i \in 0..(n - 1), NEW j \in 0..(n - 1)
    PROVE  Cardinality(Share(t, n, i)) <= Cardinality(Share(t, n, j)) + 1
<1> DEFINE A == Share(t, n, i)
           B == Share(t, n, j)
           A1 == A \ {<<t, i>>}
           f == [p \in A1 |-> <<t, p[2] - i - n + j>>]
<1>1. ASSUME NEW k PROVE IsFiniteSet(Share(t, n, k))
  <2> DEFINE W == {t} \X (0..(PartitionCount - 1))
  <2>1. IsFiniteSet(0..(PartitionCount - 1)) /\ IsFiniteSet({t})
    <3>1. 0 \in Int /\ PartitionCount - 1 \in Int
      BY CountAssumption
    <3> QED
      BY <3>1, FS_Interval, FS_Singleton
  <2>2. IsFiniteSet(W)
    BY <2>1, FS_Product
  <2>3. Share(t, n, k) \in SUBSET W
    BY DEF Share, TP
  <2> QED
    BY <2>2, <2>3, FS_Subset
<1>2. \A p \in A1 : /\ p = <<t, p[2]>> /\ p[2] \in Nat /\ p[2] < PartitionCount
                    /\ p[2] % n = i /\ p[2] # i
  BY CountAssumption DEF Share, TP
<1>3. ASSUME NEW p \in A1 PROVE <<t, p[2] - i - n + j>> \in B
  <2> DEFINE y == p[2] - i - n + j
  <2>1. p[2] \in Nat /\ p[2] < PartitionCount /\ p[2] % n = i /\ p[2] # p[2] % n
    BY <1>2
  <2>2. y \in Nat /\ y < p[2] /\ y % n = j
    BY <2>1, StepBack
  <2>3. y \in 0..(PartitionCount - 1)
    BY <2>1, <2>2, CountAssumption
  <2> HIDE DEF y
  <2>4. <<t, y>> \in TP
    BY <2>3 DEF TP
  <2> QED
    BY <2>2, <2>4 DEF y, Share
<1>4. \A p, q \in A1 : p[2] - i - n + j = q[2] - i - n + j => p = q
  <2> SUFFICES ASSUME NEW p \in A1, NEW q \in A1, p[2] - i - n + j = q[2] - i - n + j
               PROVE  p = q
    OBVIOUS
  <2>1. p[2] \in Nat /\ q[2] \in Nat
    BY <1>2
  <2>2. p[2] = q[2]
    BY <2>1
  <2> QED
    BY <1>2, <2>2
<1>5. f \in Injection(A1, B)
  <2>1. f \in [A1 -> B]
    BY <1>3
  <2>2. ASSUME NEW p \in A1, NEW q \in A1, f[p] = f[q] PROVE p = q
    BY <1>4, <2>2
  <2> QED
    BY <2>1, <2>2 DEF Injection, IsInjective
<1> HIDE DEF A, B, A1, f
<1>6. IsFiniteSet(A) /\ IsFiniteSet(B)
  BY <1>1 DEF A, B
<1>7. Cardinality(A1) <= Cardinality(B) /\ Cardinality(A) \in Nat /\ Cardinality(B) \in Nat
  BY <1>5, <1>6, FS_Injection, FS_CardinalityType
<1>8. Cardinality(A1) = IF <<t, i>> \in A THEN Cardinality(A) - 1 ELSE Cardinality(A)
  BY <1>6, FS_RemoveElement DEF A1
<1>9. Cardinality(A) <= Cardinality(B) + 1
  BY <1>7, <1>8
<1> QED
  BY <1>9 DEF A, B

\* rebalance_group gives the consumers of a topic the shares of their places, and the
\* others nothing.
LEMMA RebalanceShares ==
    ASSUME NEW member \in [Consumer -> Topic \cup {None}], NEW c \in Consumer,
           NEW S, S = {d \in Consumer : member[d] = member[c]}
    PROVE  Rebalance(member)[c] = Share(member[c], Cardinality(S), Place(S, c))
BY DEF Rebalance, Share, Place

\* After every JOIN, LEAVE and closed connection the partitions of a topic are divided
\* among its members in the group, each to exactly one of them and in shares that differ by
\* at most one, whatever their number and the number of partitions.
THEOREM FairAssignments == Spec => []AssignmentsFair
<1>1. IInv => AssignmentsFair
  <2> SUFFICES ASSUME IInv, NEW g \in Group
               PROVE  /\ \A t \in Topic : \A i \in 0..(PartitionCount - 1) :
                            Subscribers(g, t) # {} =>
                                \E c \in Subscribers(g, t) :
                                    {d \in Consumer : <<t, i>> \in assigned[g][d]} = {c}
                      /\ \A t \in Topic : \A c, d \in Subscribers(g, t) :
                            Cardinality(assigned[g][c]) <= Cardinality(assigned[g][d]) + 1
                      /\ \A c \in Consumer : \A p \in assigned[g][c] : p[1] = topicOf[g][c]
    BY DEF AssignmentsFair
  <2>1. /\ assigned[g] = Rebalance(topicOf[g])
        /\ topicOf[g] \in [Consumer -> Topic \cup {None}]
    BY DEF IInv, TypeOK, BrokerOK, Rebalanced
  <2>2. ASSUME NEW c \in Consumer
        PROVE  \A p \in assigned[g][c] : p[1] = topicOf[g][c]
    BY <2>1 DEF Rebalance
  <2>3. ASSUME NEW t \in Topic, Subscribers(g, t) # {}
        PROVE  LET S == Subscribers(g, t)
               IN  /\ S \subseteq Nat /\ IsFiniteSet(S) /\ Cardinality(S) \in Nat \ {0}
                   /\ \A c \in S : /\ c \in Consumer
                                    /\ Place(S, c) \in 0..(Cardinality(S) - 1)
                                    /\ assigned[g][c] = Share(t, Cardinality(S), Place(S, c))
    <3> DEFINE S == Subscribers(g, t)
    <3>1. S \in SUBSET Consumer /\ S \subseteq Nat
      BY ConsumerAssumption DEF Subscribers
    <3>2. IsFiniteSet(S)
      BY <3>1, ConsumerAssumption, FS_Subset
    <3>3. Cardinality(S) \in Nat /\ Cardinality(S) # 0
      BY <2>3, <3>2, FS_CardinalityType, FS_EmptySet
    <3>4. ASSUME NEW c \in S
          PROVE  /\ c \in Consumer
                 /\ Place(S, c) \in 0..(Cardinality(S) - 1)
                 /\ assigned[g][c] = Share(t, Cardinality(S), Place(S, c))
      <4>1. c \in Consumer /\ topicOf[g][c] = t
        BY DEF Subscribers
      <4>2. S = {d \in Consumer : topicOf[g][d] = topicOf[g][c]}
        BY <4>1 DEF Subscribers
      <4> HIDE DEF S
      <4>3. assigned[g][c] = Share(t, Cardinality(S), Place(S, c))
        BY <2>1, <4>1, <4>2, RebalanceShares
      <4>4. Place(S, c) \in 0..(Cardinality(S) - 1)
        BY <3>1, <3>2, Places
      <4> QED
        BY <4>1, <4>3, <4>4
    <3> QED
      BY <3>1, <3>2, <3>3, <3>4
  <2>4. ASSUME NEW t \in Topic, NEW i \in 0..(PartitionCount - 1), Subscribers(g, t) # {}
        PROVE  \E c \in Subscribers(g, t) : {d \in Consumer : <<t, i>> \in assigned[g][d]} = {c}
    <3> DEFINE S == Subscribers(g, t)
               n == Cardinality(S)
    <3>1. /\ S \subseteq Nat /\ IsFiniteSet(S) /\ n \in Nat \ {0}
          /\ \A c \in S : /\ c \in Consumer
                           /\ Place(S, c) \in 0..(n - 1)
                           /\ assigned[g][c] = Share(t, n, Place(S, c))
      BY <2>3, <2>4
    <3>2. i \in Nat /\ <<t, i>> \in TP
      BY CountAssumption DEF TP
    <3>3. i % n \in 0..(n - 1)
      BY <3>1, <3>2, Remainder
    <3>4. \A d \in Consumer : <<t, i>> \in assigned[g][d] => d \in S
      BY <2>2 DEF Subscribers
    <3> HIDE DEF S, n
    <3>5. PICK c \in S : Place(S, c) = i % n
      BY <3>1, <3>3, Places DEF n
    <3>6. \A d \in S : <<t, i>> \in assigned[g][d] <=> i % n = Place(S, d)
      BY <3>1, <3>2 DEF Share
    <3>7. \A d \in S : <<t, i>> \in assigned[g][d] <=> d = c
      <4>1. \A d \in S : Place(S, c) = Place(S, d) => c = d
        BY <3>1, Places
      <4> QED
        BY <3>5, <3>6, <4>1
    <3>8. {d \in Consumer : <<t, i>> \in assigned[g][d]} = {c}
      BY <3>1, <3>4, <3>7
    <3> QED
      BY <3>8 DEF S
  <2>5. ASSUME NEW t \in Topic, NEW c \in Subscribers(g, t), NEW d \in Subscribers(g, t)
        PROVE  Cardinality(assigned[g][c]) <= Cardinality(assigned[g][d]) + 1
    <3> DEFINE S == Subscribers(g, t)
               n == Cardinality(S)
               i == Place(S, c)
               j == Place(S, d)
    <3>1. /\ n \in Nat \ {0} /\ i \in 0..(n - 1) /\ j \in 0..(n - 1)
          /\ assigned[g][c] = Share(t, n, i) /\ assigned[g][d] = Share(t, n, j)
      BY <2>3, <2>5
    <3> HIDE DEF n, i, j
    <3> QED
      BY <3>1, Shares
  <2> QED
    BY <2>2, <2>4, <2>5
<1> QED
  BY <1>1, Invariant, PTL
=============================================================================
