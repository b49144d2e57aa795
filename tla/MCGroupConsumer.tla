-------------------------- MODULE MCGroupConsumer ---------------------------
(* Instances of GroupConsumer for TLC. *)
EXTENDS GroupConsumer

CONSTANT orders

TwoConsumers == 1..2
Offsets == 0..(MaxRecords + 1)
FirstIsError == {<<<<orders, 0>>, 0>>}
NoErrorRecord == {}
=============================================================================
