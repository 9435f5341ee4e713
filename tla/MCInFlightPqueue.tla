-------------------------- MODULE MCInFlightPqueue --------------------------
(* The timeout heap with six items: three levels. *)
EXTENDS InFlightPqueue
=============================================================================
