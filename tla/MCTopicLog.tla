----------------------------- MODULE MCTopicLog -----------------------------
(* TopicLog for TLC: two payloads, a file of at most MaxRecords fragments, any  *)
(* number of crashes, power failures and failing system calls.                 *)
EXTENDS TopicLog

CONSTANTS p1, p2

MCPayload == {p1, p2}
=============================================================================
