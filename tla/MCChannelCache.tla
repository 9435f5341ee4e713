--------------------------- MODULE MCChannelCache ---------------------------
(* Two handlers of the API and a send, about one user.                     *)
EXTENDS ChannelCache, TLC

\* Both properties say nothing once a cause is recorded.
NoCause == causes = {}

Symmetry == Permutations(Admins)
=============================================================================
