-------------------------- MODULE MCConsumerGroup ---------------------------
(* Instances of ConsumerGroup for TLC. *)
EXTENDS ConsumerGroup, TLC

TwoConsumers == 1..2
ThreeConsumers == 1..3
OneOffset == {1}

\* Topics, groups and connections are interchangeable; consumer ids are ordered.
Symmetry == Permutations(Group) \cup Permutations(Topic) \cup Permutations(Conn)
=============================================================================
