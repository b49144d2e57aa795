--------------------------- MODULE MCReplication ----------------------------
(* Replication for TLC: values for the sets; the cfg files choose between them. *)
EXTENDS Replication

CONSTANTS a, b, t1, t2

OneTP == {a}
TwoTPs == {a, b}
OneThread == {t1}
TwoThreads == {t1, t2}
FirstBig == {1}
ThirdBig == {3}
NoneBig == {}
=============================================================================
