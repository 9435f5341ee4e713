--------------------------- MODULE MCTopicAppend ---------------------------
(* TopicAppend for TLC: goroutines are interchangeable model values. *)
EXTENDS TopicAppend, TLC

Symm == Permutations(Senders)
=============================================================================
