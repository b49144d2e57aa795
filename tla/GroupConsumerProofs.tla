------------------------ MODULE GroupConsumerProofs -------------------------
(***************************************************************************)
(* TLAPS proofs about GroupConsumer, for any number of groups, consumers,  *)
(* partitions, records and crashes.                                        *)
(*                                                                         *)
(* The consumer programs and their server only take steps of ConsumerGroup *)
(* (UsesGroups), so what ConsumerGroupProofs proves holds here, too. An    *)
(* offset passes through the assignments of a consumer and through a       *)
(* COMMIT that waits before a group continues at it, and crashes and       *)
(* rebalances come in between: DeliveredInv says that everywhere on this   *)
(* way the records below it have been printed.                             *)
(***************************************************************************)
EXTENDS GroupConsumer, ConsumerGroupProofs

\* The records of all partitions.
Records == UNION {{q} \X (1..log[q]) : q \in TP}

LogInv ==
    /\ log \in [TP -> Nat]
    /\ IsFiniteSet(Records)
    /\ Cardinality(Records) <= MaxRecords

ProgramInv ==
    /\ pc \in [Conn -> {"idle", "join", "poll", "fetch", "commit", "committing", "leave", "exit", "crashed", "gone"}]
    /\ args \in [Conn -> Arguments \cup {None}]
    /\ todo \in [Conn -> SUBSET [tp : TP, offset : Offset]]
    /\ consumed \in [Conn -> BOOLEAN]
    /\ \A k \in Conn : /\ pc[k] # "idle" => args[k] \in Arguments
                       /\ pc[k] = "idle" => todo[k] = {}
                       /\ pc[k] \in {"fetch", "commit", "committing"} => todo[k] # {}

\* All records of p below o were printed by consumers of g.
Printed(g, p, o) == 0..(o - 1) \subseteq delivered[g][p]

DeliveredInv ==
    /\ delivered \in [Group -> [TP -> SUBSET Nat]]
    /\ \A g \in Group : \A p \in TP : committed[g][p] = -1 \/ Printed(g, p, committed[g][p])
    /\ \A k \in Conn : \A a \in todo[k] : Printed(GroupOf(k), a.tp, a.offset)
    /\ \A k \in Conn : commit[k] # None => Printed(commit[k].group, commit[k].tp, commit[k].off)

CInv == IInv /\ LogInv /\ ProgramInv /\ DeliveredInv

----------------------------------------------------------------------------
(* Records and assignments *)

\* The bound on all records bounds each partition.
LEMMA LogBound ==
    ASSUME LogInv PROVE \A p \in TP : log[p] \in 0..MaxRecords
<1> SUFFICES ASSUME NEW p \in TP PROVE log[p] <= MaxRecords
  BY RecordAssumption DEF LogInv
<1> DEFINE Own == {p} \X (1..log[p])
<1>1. log[p] \in Nat /\ IsFiniteSet(Records) /\ Cardinality(Records) <= MaxRecords
  BY DEF LogInv
<1>2. Own \in SUBSET Records
  BY DEF Records
<1>3. IsFiniteSet(1..log[p]) /\ Cardinality(1..log[p]) = log[p]
  <2>1. 1 \in Int /\ log[p] \in Int
    BY <1>1
  <2>2. IsFiniteSet(1..log[p]) /\ Cardinality(1..log[p]) = IF 1 > log[p] THEN 0 ELSE log[p] - 1 + 1
    BY <2>1, FS_Interval
  <2> QED
    BY <1>1, <2>2
<1>4. Cardinality(Own) = log[p]
  <2>1. IsFiniteSet({p}) /\ Cardinality({p}) = 1
    BY FS_Singleton
  <2>2. Cardinality(Own) = 1 * log[p]
    <3>1. PICK I : I = 1..log[p]
      OBVIOUS
    <3>2. PICK S : S = {p}
      OBVIOUS
    <3>3. IsFiniteSet(I) /\ Cardinality(I) = log[p] /\ IsFiniteSet(S) /\ Cardinality(S) = 1
      BY <1>3, <2>1, <3>1, <3>2
    <3>4. Cardinality(S \X I) = Cardinality(S) * Cardinality(I)
      BY <3>3, FS_Product
    <3> QED
      BY <3>1, <3>2, <3>3, <3>4
  <2> QED
    BY <1>1, <2>2
<1>5. Cardinality(Own) <= Cardinality(Records) /\ Cardinality(Records) \in Nat
  BY <1>1, <1>2, FS_Subset, FS_CardinalityType
<1> QED
  BY <1>1, <1>4, <1>5, RecordAssumption

\* A record more in one partition is a record more in all.
LEMMA OneMoreRecord ==
    ASSUME LogInv, NEW p \in TP, Cardinality(Records) < MaxRecords,
           log' = [log EXCEPT ![p] = @ + 1]
    PROVE  LogInv'
<1>1. log \in [TP -> Nat] /\ IsFiniteSet(Records)
  BY DEF LogInv
<1>2. log' \in [TP -> Nat] /\ log'[p] = log[p] + 1 /\ \A q \in TP : q # p => log'[q] = log[q]
  BY <1>1
<1>3. Records' = Records \cup {<<p, log[p] + 1>>}
  <2>1. ASSUME NEW r PROVE r \in Records <=> \E q \in TP : \E i \in 1..log[q] : r = <<q, i>>
    BY DEF Records
  <2>2. ASSUME NEW r PROVE r \in Records' <=> \E q \in TP : \E i \in 1..log'[q] : r = <<q, i>>
    BY DEF Records
  <2>3. \A i : i \in 1..log'[p] <=> i \in 1..log[p] \/ i = log[p] + 1
    BY <1>1, <1>2
  <2>4. ASSUME NEW r PROVE r \in Records' <=> r \in Records \/ r = <<p, log[p] + 1>>
    BY <1>2, <2>1, <2>2, <2>3
  <2> QED
    BY <2>4
<1>4. IsFiniteSet(Records') /\ Cardinality(Records') \in {Cardinality(Records), Cardinality(Records) + 1}
  BY <1>1, <1>3, FS_AddElement
<1>5. Cardinality(Records) \in Nat
  BY <1>1, FS_CardinalityType
<1>6. Cardinality(Records') <= MaxRecords
  BY <1>4, <1>5, RecordAssumption
<1> QED
  BY <1>2, <1>4, <1>6 DEF LogInv

\* The first of the assignments left is one of them.
LEMMA FirstLeft ==
    ASSUME ProgramInv, NEW k \in Conn, todo[k] # {}
    PROVE  First(k) \in todo[k] /\ First(k) \in [tp : TP, offset : Offset]
<1> DEFINE N == {a.tp[2] : a \in todo[k]}
<1>1. todo[k] \in SUBSET [tp : TP, offset : Offset]
  BY DEF ProgramInv
<1>2. \A a \in todo[k] : a.tp \in TP /\ a.tp[2] \in Nat
  BY <1>1 DEF TP
<1>3. N \subseteq Nat /\ N # {}
  BY <1>2
<1>4. PICK m \in N : \A n \in N : ~(<<n, m>> \in OpToRel(<, Nat))
  BY <1>3, NatLessThanWellFounded, WFMin
<1>5. ASSUME NEW n \in N PROVE m <= n
  <2>1. m \in Nat /\ n \in Nat
    BY <1>3
  <2>2. ~(n < m)
    BY <1>4, <2>1 DEF OpToRel
  <2> QED
    BY <2>1, <2>2
<1>6. \E a \in todo[k] : \A b \in todo[k] : a.tp[2] <= b.tp[2]
  BY <1>5
<1>7. First(k) \in todo[k]
  BY <1>6 DEF First
<1> QED
  BY <1>1, <1>7

----------------------------------------------------------------------------
(* The steps of consumers and servers are steps of ConsumerGroup *)

\* One case for each request; a step that concerns the program alone changes no group.
LEMMA StepIsNext == CInv /\ [CNext]_cvars => [Next]_vars
<1> SUFFICES ASSUME CInv, [CNext]_cvars PROVE [Next]_vars
  OBVIOUS
<1>1. ASSUME NEW p \in TP, Produce(p) PROVE Next
  <2>1. p[1] \in Topic /\ HoldTopics(p[1])
    BY <1>1 DEF Produce, TP
  <2> QED
    BY <2>1 DEF Next
<1>2. ASSUME Produced PROVE Next
  BY <1>2 DEF Produced, Next
<1>3. ASSUME NEW k \in Conn, ServerCleanup(k) \/ ServerClose(k) \/ Start(k) \/ CommitAnswered(k) \/ Exit(k) \/ FetchTooLarge(k)
      PROVE  Next
  BY <1>3 DEF ServerCleanup, ServerClose, Start, CommitAnswered, Exit, FetchTooLarge, Next
<1>4. ASSUME NEW k \in Conn, RequestJoin(k) PROVE Next \/ UNCHANGED vars
  <2>1. args[k] \in Arguments
    BY <1>4 DEF RequestJoin, CInv, ProgramInv
  <2>2. GroupOf(k) \in Group /\ ConsumerOf(k) \in Consumer /\ args[k].topic \in Topic
    BY <2>1 DEF Arguments, GroupOf, ConsumerOf
  <2>3. UNCHANGED vars \/ Join(k, GroupOf(k), ConsumerOf(k), args[k].topic)
    BY <1>4 DEF RequestJoin
  <2> QED
    BY <2>2, <2>3 DEF Next, Request
<1>5. ASSUME NEW k \in Conn, RequestCommit(k) PROVE Next
  <2>1. args[k] \in Arguments /\ todo[k] # {} /\ ProgramInv
    BY <1>5 DEF RequestCommit, CInv, ProgramInv
  <2>2. GroupOf(k) \in Group /\ ConsumerOf(k) \in Consumer
    BY <2>1 DEF Arguments, GroupOf, ConsumerOf
  <2>3. First(k).tp \in TP /\ First(k).offset \in Offset
    BY <2>1, FirstLeft
  <2>4. Commit(k, GroupOf(k), ConsumerOf(k), First(k).tp, First(k).offset)
    BY <1>5 DEF RequestCommit
  <2> QED
    BY <2>2, <2>3, <2>4 DEF Next, Request
<1>6. ASSUME NEW k \in Conn, RequestLeave(k) PROVE Next
  <2>1. args[k] \in Arguments
    BY <1>6 DEF RequestLeave, CInv, ProgramInv
  <2>2. GroupOf(k) \in Group /\ ConsumerOf(k) \in Consumer
    BY <2>1 DEF Arguments, GroupOf, ConsumerOf
  <2>3. Leave(k, GroupOf(k), ConsumerOf(k))
    BY <1>6 DEF RequestLeave
  <2> QED
    BY <2>2, <2>3 DEF Next, Request
<1>7. ASSUME NEW k \in Conn, Poll(k) \/ FetchEmpty(k) \/ FetchError(k) \/ Fetch(k) \/ Crash(k)
      PROVE  UNCHANGED vars
  BY <1>7 DEF Poll, FetchEmpty, FetchError, Fetch, Crash
<1>8. CASE UNCHANGED cvars
  BY <1>8 DEF cvars
<1> QED
  BY <1>1, <1>2, <1>3, <1>4, <1>5, <1>6, <1>7, <1>8 DEF CNext, Step

----------------------------------------------------------------------------
(* Every step keeps the invariant *)

\* Where an offset may come from without skipping a record: assignments and COMMITs that
\* were there before, or ones below which everything is printed.
LEMMA DeliveredStep ==
    ASSUME CInv, [Next]_vars,
           delivered' \in [Group -> [TP -> SUBSET Nat]],
           \A g \in Group : \A p \in TP : delivered[g][p] \subseteq delivered'[g][p],
           ProgramInv',
           \A j \in Conn : \A a \in todo'[j] :
               \/ a \in todo[j] /\ args'[j] = args[j]
               \/ 0..(a.offset - 1) \subseteq delivered'[args'[j].group][a.tp],
           \A j \in Conn :
               \/ commit'[j] \in {commit[j], None}
               \/ 0..(commit'[j].off - 1) \subseteq delivered'[commit'[j].group][commit'[j].tp]
    PROVE  DeliveredInv'
<1>1. /\ \A g \in Group : \A p \in TP : committed[g][p] = -1 \/ Printed(g, p, committed[g][p])
      /\ \A k \in Conn : \A a \in todo[k] : Printed(GroupOf(k), a.tp, a.offset)
      /\ \A k \in Conn : commit[k] # None => Printed(commit[k].group, commit[k].tp, commit[k].off)
      /\ commit \in [Conn -> CommitRequest \cup {None}]
  BY DEF CInv, DeliveredInv, IInv, TypeOK, ConnectionsOK
<1>2. ASSUME NEW g \in Group, NEW p \in TP
      PROVE  committed'[g][p] = -1 \/ 0..(committed'[g][p] - 1) \subseteq delivered'[g][p]
  <2>1. \/ committed'[g][p] \in {committed[g][p], -1}
        \/ \E k \in Conn : /\ commit[k] # None /\ commit[k].group = g /\ commit[k].tp = p
                           /\ commit[k].off = committed'[g][p]
    BY CommittedFrom DEF CInv
  <2>2. committed'[g][p] = -1 \/ Printed(g, p, committed'[g][p])
    BY <1>1, <2>1
  <2> QED
    BY <2>2 DEF Printed
<1>3. ASSUME NEW j \in Conn, NEW a \in todo'[j]
      PROVE  0..(a.offset - 1) \subseteq delivered'[args'[j].group][a.tp]
  <2>1. CASE a \in todo[j] /\ args'[j] = args[j]
    <3>1. Printed(args[j].group, a.tp, a.offset)
      BY <1>1, <2>1 DEF GroupOf
    <3>2. args[j] \in Arguments /\ a.tp \in TP
      BY <2>1 DEF CInv, ProgramInv
    <3>3. args[j].group \in Group
      BY <3>2 DEF Arguments
    <3> QED
      BY <2>1, <3>1, <3>2, <3>3 DEF Printed
  <2> QED
    BY <2>1
<1>4. ASSUME NEW j \in Conn, commit'[j] # None
      PROVE  0..(commit'[j].off - 1) \subseteq delivered'[commit'[j].group][commit'[j].tp]
  <2>1. CASE commit'[j] = commit[j]
    <3>1. commit[j] \in CommitRequest /\ Printed(commit[j].group, commit[j].tp, commit[j].off)
      BY <1>1, <1>4, <2>1
    <3>2. commit[j].group \in Group /\ commit[j].tp \in TP
      BY <3>1 DEF CommitRequest
    <3> QED
      BY <2>1, <3>1, <3>2 DEF Printed
  <2> QED
    BY <1>4, <2>1
<1> QED
  BY <1>2, <1>3, <1>4 DEF DeliveredInv, Printed, GroupOf

\* Steps that leave assignments, arguments and what was printed alone.
LEMMA QuietDelivered ==
    ASSUME CInv, [Next]_vars, ProgramInv', UNCHANGED <<delivered, args>>,
           \A j \in Conn : todo'[j] \subseteq todo[j],
           \A j \in Conn : commit'[j] \in {commit[j], None}
    PROVE  DeliveredInv'
<1>1. delivered' \in [Group -> [TP -> SUBSET Nat]]
  BY DEF CInv, DeliveredInv
<1> QED
  BY <1>1, DeliveredStep

\* The program goes on to a place where it needs no assignment.
LEMMA GotoStep ==
    ASSUME ProgramInv, NEW k \in Conn, NEW w \in {"poll", "leave", "exit", "crashed", "gone"},
           pc[k] # "idle", Goto(k, w), UNCHANGED <<args, todo, consumed>>
    PROVE  ProgramInv'
<1>1. pc' = [pc EXCEPT ![k] = w]
  BY DEF Goto
<1>2. pc' \in [Conn -> {"idle", "join", "poll", "fetch", "commit", "committing", "leave", "exit", "crashed", "gone"}]
  BY <1>1 DEF ProgramInv
<1>3. \A j \in Conn : IF j = k THEN pc'[j] = w ELSE pc'[j] = pc[j]
  BY <1>1 DEF ProgramInv
<1> QED
  BY <1>2, <1>3 DEF ProgramInv

\* The next assignment, the next round or the end: an assignment is finished.
LEMMA FinishAssignment ==
    ASSUME ProgramInv, NEW k \in Conn, NEW any \in BOOLEAN,
           pc[k] # "idle", Finish(k, any), UNCHANGED args
    PROVE  ProgramInv' /\ \A j \in Conn : todo'[j] \subseteq todo[j]
<1> DEFINE rest == todo[k] \ {First(k)}
           w == IF rest # {} THEN "fetch" ELSE IF any THEN "poll" ELSE "leave"
<1>1. /\ todo' = [todo EXCEPT ![k] = rest]
      /\ consumed' = [consumed EXCEPT ![k] = any]
      /\ pc' = [pc EXCEPT ![k] = w]
  BY DEF Finish, Goto
<1>2. rest \in SUBSET [tp : TP, offset : Offset] /\ rest \subseteq todo[k]
  BY DEF ProgramInv
<1>3. w \in {"fetch", "poll", "leave"} /\ (w = "fetch" => rest # {})
  OBVIOUS
<1> HIDE DEF rest, w
<1>4. /\ todo' \in [Conn -> SUBSET [tp : TP, offset : Offset]]
      /\ \A j \in Conn : todo'[j] = IF j = k THEN rest ELSE todo[j]
  BY <1>1, <1>2 DEF ProgramInv
<1>5. /\ pc' \in [Conn -> {"idle", "join", "poll", "fetch", "commit", "committing", "leave", "exit", "crashed", "gone"}]
      /\ \A j \in Conn : pc'[j] = IF j = k THEN w ELSE pc[j]
  BY <1>1, <1>3 DEF ProgramInv
<1>6. consumed' \in [Conn -> BOOLEAN]
  BY <1>1 DEF ProgramInv
<1>7. ProgramInv'
  BY <1>3, <1>4, <1>5, <1>6 DEF ProgramInv
<1>8. \A j \in Conn : todo'[j] \subseteq todo[j]
  BY <1>2, <1>4
<1> QED
  BY <1>7, <1>8

\* The environment and the steps of a program that touch no assignment.
LEMMA QuietSteps ==
    ASSUME CInv, [Next]_vars,
           \/ Produced
           \/ \E p \in TP : Produce(p)
           \/ \E k \in Conn : \/ ServerCleanup(k) \/ RequestJoin(k) \/ RequestLeave(k) \/ Exit(k)
                              \/ Crash(k) \/ FetchError(k) \/ FetchTooLarge(k)
    PROVE  ProgramInv' /\ DeliveredInv'
<1>1. UNCHANGED <<args, todo, consumed, delivered, commit>>
  BY DEF Produced, Produce, ServerCleanup, RequestJoin, RequestLeave, Exit, Crash, FetchError,
     FetchTooLarge, program, vars, ReleaseTopics, HoldTopics, Cleanup, Join, Leave, Disconnect
<1>2. ProgramInv'
  <2>1. ProgramInv
    BY DEF CInv
  <2>2. ASSUME UNCHANGED pc PROVE ProgramInv'
    BY <1>1, <2>1, <2>2 DEF ProgramInv
  <2>3. ASSUME NEW k \in Conn,
               RequestJoin(k) \/ RequestLeave(k) \/ Exit(k) \/ Crash(k) \/ FetchError(k) \/ FetchTooLarge(k)
        PROVE  ProgramInv'
    <3>1. pc[k] # "idle" /\ \E w \in {"poll", "leave", "exit", "crashed", "gone"} : Goto(k, w)
      BY <2>3 DEF RequestJoin, RequestLeave, Exit, Crash, FetchError, FetchTooLarge
    <3> QED
      BY <1>1, <2>1, <3>1, GotoStep
  <2>4. ASSUME \/ Produced
               \/ \E p \in TP : Produce(p)
               \/ \E k \in Conn : ServerCleanup(k)
        PROVE  UNCHANGED pc
    BY <2>4 DEF Produced, Produce, ServerCleanup, program
  <2> QED
    BY <2>2, <2>3, <2>4
<1> QED
  BY <1>1, <1>2, QuietDelivered

\* A connection is used again only after it has been forgotten.
LEMMA EndsStep ==
    ASSUME CInv, [Next]_vars, NEW k \in Conn, ServerClose(k) \/ Start(k)
    PROVE  ProgramInv' /\ DeliveredInv'
<1>1. ProgramInv
  BY DEF CInv
<1>2. PICK a \in Arguments \cup {None}, w \in {"idle", "join"} :
         /\ args' = [args EXCEPT ![k] = a] /\ pc' = [pc EXCEPT ![k] = w]
         /\ (w = "join" => a \in Arguments /\ pc[k] = "idle")
         /\ UNCHANGED <<delivered, commit>>
         /\ \/ w = "join" /\ UNCHANGED <<todo, consumed>>
            \/ todo' = [todo EXCEPT ![k] = {}] /\ consumed' = [consumed EXCEPT ![k] = FALSE]
  BY DEF ServerClose, Start, Goto, Close, Connect
<1>3. /\ todo' \in [Conn -> SUBSET [tp : TP, offset : Offset]]
      /\ \A j \in Conn : todo'[j] = IF j = k THEN {} ELSE todo[j]
      /\ consumed' \in [Conn -> BOOLEAN]
  BY <1>1, <1>2 DEF ProgramInv
<1>4. /\ pc' \in [Conn -> {"idle", "join", "poll", "fetch", "commit", "committing", "leave", "exit", "crashed", "gone"}]
      /\ \A j \in Conn : pc'[j] = IF j = k THEN w ELSE pc[j]
      /\ args' \in [Conn -> Arguments \cup {None}]
      /\ \A j \in Conn : args'[j] = IF j = k THEN a ELSE args[j]
  BY <1>1, <1>2 DEF ProgramInv
<1>5. ProgramInv'
  BY <1>1, <1>2, <1>3, <1>4 DEF ProgramInv
<1>6. delivered' \in [Group -> [TP -> SUBSET Nat]]
  BY <1>2 DEF CInv, DeliveredInv
<1>7. \A j \in Conn : \A b \in todo'[j] : b \in todo[j] /\ args'[j] = args[j]
  BY <1>3, <1>4
<1> QED
  BY <1>2, <1>5, <1>6, <1>7, DeliveredStep

\* GROUP_POLL: below the offsets a group continues at, everything is printed.
LEMMA PollStep ==
    ASSUME CInv, [Next]_vars, NEW k \in Conn, Poll(k)
    PROVE  ProgramInv' /\ DeliveredInv'
<1> DEFINE g == GroupOf(k)
           mine == {[tp |-> p, offset |-> Position(g, p)] : p \in assigned[g][ConsumerOf(k)]}
           w == IF mine = {} THEN "leave" ELSE "fetch"
<1>1. /\ pc[k] = "poll"
      /\ todo' = [todo EXCEPT ![k] = mine]
      /\ consumed' = [consumed EXCEPT ![k] = FALSE]
      /\ pc' = [pc EXCEPT ![k] = w]
      /\ UNCHANGED <<args, delivered, commit>>
  BY DEF Poll, Goto, vars
<1>2. ProgramInv /\ BrokerOK /\ DeliveredInv
  BY DEF CInv, IInv, TypeOK
<1>3. args[k] \in Arguments
  BY <1>1, <1>2 DEF ProgramInv
<1>4. g \in Group /\ ConsumerOf(k) \in Consumer
  BY <1>3 DEF Arguments, GroupOf, ConsumerOf
<1>5. assigned[g][ConsumerOf(k)] \in SUBSET TP
  BY <1>2, <1>4 DEF BrokerOK
<1>6. ASSUME NEW p \in TP
      PROVE  Position(g, p) \in Offset /\ Printed(g, p, Position(g, p))
  <2>1. committed[g][p] \in Offset \cup {-1} /\ (committed[g][p] = -1 \/ Printed(g, p, committed[g][p]))
    BY <1>2, <1>4 DEF BrokerOK, DeliveredInv
  <2>2. 0 \in Offset /\ Printed(g, p, 0)
    BY RecordAssumption DEF Printed
  <2> QED
    BY <2>1, <2>2 DEF Position
<1>7. mine \in SUBSET [tp : TP, offset : Offset]
  BY <1>5, <1>6
<1>8. \A a \in mine : Printed(g, a.tp, a.offset)
  BY <1>5, <1>6
<1>9. w \in {"leave", "fetch"} /\ (w = "fetch" => mine # {})
  OBVIOUS
<1> HIDE DEF mine, w, g
<1>10. /\ todo' \in [Conn -> SUBSET [tp : TP, offset : Offset]]
       /\ \A j \in Conn : todo'[j] = IF j = k THEN mine ELSE todo[j]
       /\ consumed' \in [Conn -> BOOLEAN]
  BY <1>1, <1>2, <1>7 DEF ProgramInv
<1>11. /\ pc' \in [Conn -> {"idle", "join", "poll", "fetch", "commit", "committing", "leave", "exit", "crashed", "gone"}]
       /\ \A j \in Conn : pc'[j] = IF j = k THEN w ELSE pc[j]
  BY <1>1, <1>2, <1>9 DEF ProgramInv
<1>12. ProgramInv'
  BY <1>1, <1>2, <1>3, <1>9, <1>10, <1>11 DEF ProgramInv
<1>13. ASSUME NEW j \in Conn, NEW a \in todo'[j]
       PROVE  \/ a \in todo[j] /\ args'[j] = args[j]
              \/ 0..(a.offset - 1) \subseteq delivered'[args'[j].group][a.tp]
  <2>1. CASE j = k
    BY <1>1, <1>8, <1>10, <2>1 DEF Printed, GroupOf, g
  <2>2. CASE j # k
    BY <1>1, <1>10, <2>2
  <2> QED
    BY <2>1, <2>2
<1>14. delivered' \in [Group -> [TP -> SUBSET Nat]]
  BY <1>1, <1>2 DEF DeliveredInv
<1> QED
  BY <1>1, <1>12, <1>13, <1>14, DeliveredStep

\* FETCH prints the records up to the end of the partition, which is the next offset.
LEMMA FetchStep ==
    ASSUME CInv, [Next]_vars, NEW k \in Conn, Fetch(k)
    PROVE  ProgramInv' /\ DeliveredInv'
<1> DEFINE a == First(k)
           n == log[a.tp]
           b == [a EXCEPT !.offset = n]
           rest == (todo[k] \ {a}) \cup {b}
           g == GroupOf(k)
           new == a.offset..(n - 1)
<1>1. /\ pc[k] = "fetch"
      /\ n \in (a.offset + 1)..(a.offset + MaxFetch)
      /\ delivered' = [delivered EXCEPT ![g][a.tp] = @ \cup new]
      /\ todo' = [todo EXCEPT ![k] = rest]
      /\ pc' = [pc EXCEPT ![k] = "commit"]
      /\ UNCHANGED <<args, consumed, commit>>
  BY DEF Fetch, Goto, NextOffset, vars
<1>2. ProgramInv /\ DeliveredInv /\ LogInv
  BY DEF CInv
<1>3. args[k] \in Arguments /\ todo[k] # {}
  BY <1>1, <1>2 DEF ProgramInv
<1>4. g \in Group
  BY <1>3 DEF Arguments, GroupOf
<1>5. a \in todo[k] /\ a \in [tp : TP, offset : Offset]
  BY <1>2, <1>3, FirstLeft
<1>6. a.tp \in TP /\ a.offset \in Nat /\ n \in Nat /\ n \in Offset
  <2>1. n \in 0..MaxRecords
    BY <1>2, <1>5, LogBound
  <2> QED
    BY <1>5, <2>1, RecordAssumption, OffsetAssumption
<1>7. b \in [tp : TP, offset : Offset] /\ b.tp = a.tp /\ b.offset = n
  BY <1>5, <1>6
<1>8. Printed(g, a.tp, a.offset)
  BY <1>2, <1>5 DEF DeliveredInv
<1>9. new \subseteq Nat /\ 0..(n - 1) \subseteq (0..(a.offset - 1)) \cup new
  BY <1>1, <1>6
<1>10. rest \in SUBSET [tp : TP, offset : Offset] /\ rest # {} /\ \A x \in rest : x \in todo[k] \/ x = b
  BY <1>2, <1>7 DEF ProgramInv
<1> HIDE DEF a, n, b, rest, g, new
<1>11. /\ delivered' \in [Group -> [TP -> SUBSET Nat]]
       /\ \A h \in Group : \A p \in TP : delivered[h][p] \subseteq delivered'[h][p]
       /\ delivered'[g][a.tp] = delivered[g][a.tp] \cup new
  <2> DEFINE own == [delivered[g] EXCEPT ![a.tp] = @ \cup new]
  <2>1. delivered \in [Group -> [TP -> SUBSET Nat]]
    BY <1>2 DEF DeliveredInv
  <2>2. own \in [TP -> SUBSET Nat] /\ own[a.tp] = delivered[g][a.tp] \cup new
        /\ \A p \in TP : delivered[g][p] \subseteq own[p]
    BY <1>4, <1>6, <1>9, <2>1, ZenonT(40)
  <2>3. delivered' = [delivered EXCEPT ![g] = own]
    BY <1>1, <1>4, <1>6, <2>1
  <2> HIDE DEF own
  <2> QED
    BY <1>4, <2>1, <2>2, <2>3
<1>12. /\ todo' \in [Conn -> SUBSET [tp : TP, offset : Offset]]
       /\ \A j \in Conn : todo'[j] = IF j = k THEN rest ELSE todo[j]
  BY <1>1, <1>2, <1>10 DEF ProgramInv
<1>13. ProgramInv'
  <2>1. /\ pc' \in [Conn -> {"idle", "join", "poll", "fetch", "commit", "committing", "leave", "exit", "crashed", "gone"}]
        /\ \A j \in Conn : pc'[j] = IF j = k THEN "commit" ELSE pc[j]
    BY <1>1, <1>2 DEF ProgramInv
  <2> QED
    BY <1>1, <1>2, <1>3, <1>10, <1>12, <2>1 DEF ProgramInv
<1>14. ASSUME NEW j \in Conn, NEW x \in todo'[j]
       PROVE  \/ x \in todo[j] /\ args'[j] = args[j]
              \/ 0..(x.offset - 1) \subseteq delivered'[args'[j].group][x.tp]
  <2>1. CASE j = k /\ x = b
    <3>1. 0..(n - 1) \subseteq delivered'[g][a.tp]
      BY <1>8, <1>9, <1>11 DEF Printed
    <3> QED
      BY <1>1, <1>7, <2>1, <3>1 DEF g, GroupOf
  <2>2. CASE ~(j = k /\ x = b)
    BY <1>1, <1>10, <1>12, <2>2
  <2> QED
    BY <2>1, <2>2
<1> QED
  BY <1>1, <1>11, <1>13, <1>14, DeliveredStep

\* COMMIT of what was printed, and the answer to it.
LEMMA CommitSteps ==
    ASSUME CInv, [Next]_vars, NEW k \in Conn, RequestCommit(k) \/ CommitAnswered(k) \/ FetchEmpty(k)
    PROVE  ProgramInv' /\ DeliveredInv'
<1>1. ProgramInv /\ DeliveredInv /\ ConnectionsOK
  BY DEF CInv, IInv, TypeOK
<1>2. CASE RequestCommit(k)
  <2> DEFINE r == [group |-> GroupOf(k), tp |-> First(k).tp, off |-> First(k).offset]
  <2>1. /\ pc[k] = "commit" /\ pc' = [pc EXCEPT ![k] = "committing"]
        /\ commit' = [commit EXCEPT ![k] = r]
        /\ UNCHANGED <<args, todo, consumed, delivered>>
    BY <1>2 DEF RequestCommit, Commit, Goto
  <2>2. args[k] \in Arguments /\ todo[k] # {}
    BY <1>1, <2>1 DEF ProgramInv
  <2>3. First(k) \in todo[k]
    BY <1>1, <2>2, FirstLeft
  <2>4. Printed(r.group, r.tp, r.off)
    BY <1>1, <2>3 DEF DeliveredInv
  <2> HIDE DEF r
  <2>5. ProgramInv'
    BY <1>1, <2>1, <2>2 DEF ProgramInv
  <2>6. \A j \in Conn : commit'[j] = IF j = k THEN r ELSE commit[j]
    BY <1>1, <2>1 DEF ConnectionsOK
  <2>7. ASSUME NEW j \in Conn
        PROVE  \/ commit'[j] \in {commit[j], None}
               \/ 0..(commit'[j].off - 1) \subseteq delivered'[commit'[j].group][commit'[j].tp]
    BY <2>1, <2>4, <2>6 DEF Printed
  <2>8. delivered' \in [Group -> [TP -> SUBSET Nat]]
    BY <1>1, <2>1 DEF DeliveredInv
  <2> QED
    BY <2>1, <2>5, <2>7, <2>8, DeliveredStep
<1>3. CASE CommitAnswered(k)
  <2>1. /\ commit' = [commit EXCEPT ![k] = None]
        /\ IF pc[k] = "committing" THEN Finish(k, TRUE) ELSE UNCHANGED <<pc, todo, consumed>>
        /\ UNCHANGED <<args, delivered>>
    BY <1>3 DEF CommitAnswered, FinishCommit
  <2>2. ProgramInv' /\ \A j \in Conn : todo'[j] \subseteq todo[j]
    <3>1. CASE pc[k] = "committing"
      BY <1>1, <2>1, <3>1, FinishAssignment
    <3>2. CASE pc[k] # "committing"
      BY <1>1, <2>1, <3>2 DEF ProgramInv
    <3> QED
      BY <3>1, <3>2
  <2>3. \A j \in Conn : commit'[j] \in {commit[j], None}
    BY <1>1, <2>1 DEF ConnectionsOK
  <2> QED
    BY <2>1, <2>2, <2>3, QuietDelivered
<1>4. CASE FetchEmpty(k)
  <2>1. pc[k] # "idle" /\ Finish(k, consumed[k]) /\ UNCHANGED <<args, delivered, commit>>
    BY <1>4 DEF FetchEmpty, vars
  <2>2. consumed[k] \in BOOLEAN
    BY <1>1 DEF ProgramInv
  <2>3. ProgramInv' /\ \A j \in Conn : todo'[j] \subseteq todo[j]
    BY <1>1, <2>1, <2>2, FinishAssignment
  <2> QED
    BY <2>1, <2>3, QuietDelivered
<1> QED
  BY <1>2, <1>3, <1>4

\* The invariant holds at the start.
LEMMA InitCInv == CInit => CInv
<1> SUFFICES ASSUME CInit PROVE CInv
  OBVIOUS
<1>1. Init /\ IInv
  BY InitIInv DEF CInit
<1>2. LogInv
  <2>1. log = [p \in TP |-> 0]
    BY DEF CInit
  <2>2. Records = {}
    BY <2>1 DEF Records
  <2> QED
    BY <2>1, <2>2, FS_EmptySet, RecordAssumption DEF LogInv
<1>3. ProgramInv
  BY DEF CInit, ProgramInv
<1>4. DeliveredInv
  BY <1>1 DEF CInit, Init, DeliveredInv, NoOffsets
<1> QED
  BY <1>1, <1>2, <1>3, <1>4 DEF CInv

\* The invariant is inductive.
LEMMA NextCInv == CInv /\ [CNext]_cvars => CInv'
<1> SUFFICES ASSUME CInv, [CNext]_cvars PROVE CInv'
  OBVIOUS
<1>1. [Next]_vars
  BY StepIsNext
<1>2. IInv'
  BY <1>1, NextIInv DEF CInv
<1>3. LogInv'
  <2>1. ASSUME NEW p \in TP, Produce(p) PROVE LogInv'
    BY <2>1, OneMoreRecord DEF Produce, Records, CInv
  <2>2. ASSUME UNCHANGED log PROVE LogInv'
    BY <2>2 DEF LogInv, Records, CInv
  <2>3. (\E p \in TP : Produce(p)) \/ UNCHANGED log
    BY DEF CNext, Step, Produced, Start, RequestJoin, Poll, FetchEmpty, FetchError, FetchTooLarge,
       Fetch, RequestCommit, CommitAnswered, RequestLeave, Exit, Crash, ServerCleanup, ServerClose,
       cvars
  <2> QED
    BY <2>1, <2>2, <2>3
<1>4. ProgramInv' /\ DeliveredInv'
  <2>1. CASE UNCHANGED cvars
    <3>1. ProgramInv'
      BY <2>1 DEF cvars, program, CInv, ProgramInv
    <3> QED
      BY <1>1, <2>1, <3>1, QuietDelivered DEF cvars, vars, program
  <2>2. CASE CNext
    BY <1>1, <2>2, QuietSteps, EndsStep, PollStep, FetchStep, CommitSteps DEF CNext, Step
  <2> QED
    BY <2>1, <2>2
<1> QED
  BY <1>2, <1>3, <1>4 DEF CInv

\* The invariant holds of every reachable state.
LEMMA CInvariant == CSpec => []CInv
BY InitCInv, NextCInv, PTL DEF CSpec

----------------------------------------------------------------------------
(* The properties *)

\* The programs and their servers behave as ConsumerGroup says clients do, so that its
\* theorems hold of every group that consumers of clients/consumer.cpp share.
THEOREM UsesGroups == CSpec => Spec
<1>1. CInit => Init
  BY DEF CInit
<1> QED
  BY <1>1, StepIsNext, CInvariant, PTL DEF CSpec, Spec

\* The state of the programs has its type: a consumer that fetches or commits has an
\* assignment left to do it for.
THEOREM ConsumersTypeCorrect == CSpec => []CTypeOK
<1>1. CInv => CTypeOK
  <2> SUFFICES ASSUME CInv PROVE CTypeOK
    OBVIOUS
  <2>1. log \in [TP -> 0..MaxRecords]
    BY LogBound DEF CInv, LogInv
  <2>2. todo \in [Conn -> SUBSET Assignment]
    <3>1. [tp : TP, offset : Offset] \subseteq Assignment
      BY OffsetAssumption DEF Assignment
    <3>2. todo \in [Conn -> SUBSET [tp : TP, offset : Offset]]
      BY DEF CInv, ProgramInv
    <3> QED
      BY <3>1, <3>2
  <2> QED
    BY <2>1, <2>2 DEF CInv, IInv, ProgramInv, DeliveredInv, CTypeOK
<1> QED
  BY <1>1, CInvariant, PTL

\* At-least-once delivery: whatever crashes, is polled before a rebalance or committed after
\* one, every record below the offset at which a group continues was printed by one of its
\* consumers.
THEOREM DeliveredAtLeastOnce == CSpec => []AtLeastOnce
<1>1. CInv => AtLeastOnce
  BY DEF CInv, DeliveredInv, AtLeastOnce, Position, Printed
<1> QED
  BY <1>1, CInvariant, PTL

\* A consumer that crashes or leaves at any point loses its partitions: every member of a
\* group is listed by a connection that is still to remove it.
THEOREM ConsumersHaveOwners == CSpec => []MembersOwned
BY UsesGroups, MembersHaveOwners
=============================================================================
