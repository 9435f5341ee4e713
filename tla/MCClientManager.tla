-------------------------- MODULE MCClientManager --------------------------
(* The connections of a user, for TLC. *)
EXTENDS ClientManager

\* VIEW: what is left in an array that no slice refers to makes no difference.
Referenced ==
    <<clients, list, [a \in Arrays |-> IF Fresh(a) THEN <<>> ELSE array[a]],
      proc, reader, sock, status, raced>>
=============================================================================
