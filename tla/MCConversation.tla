--------------------------- MODULE MCConversation ---------------------------
(* The conversations of a user, for TLC. *)
EXTENDS Conversation
=============================================================================
