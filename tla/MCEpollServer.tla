--------------------------- MODULE MCEpollServer ----------------------------
(* An instance of EpollServer for TLC. *)
EXTENDS EpollServer

TwoFds == 1..2
FourKinds == [op : {"join", "leave", "fails", "oversized"}, consumer : Consumer]
=============================================================================
