----------------------------- MODULE MCTopicLog -----------------------------
(* A topic over its files, for TLC. *)
EXTENDS TopicLog

=============================================================================
