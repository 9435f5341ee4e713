---------------------------- MODULE MCSendPath ----------------------------
(* Messages for TLC, the first of which is forwarded by another node: two  *)
(* for one subscriber on this node, both stored in the channel's topic or  *)
(* both SyncOnce, in the subscriber's; or one, of either kind, for a       *)
(* subscriber on each node.                                                *)
EXTENDS SendPath, TLC

CONSTANTS m1, m2, n1, n2, u1, u2

Packet(k, l, r) == [kind |-> k, local |-> l, remote |-> r]

Unsent == Packet("unsent", {}, {})

MCSends ==
    { (m1 :> Packet(k, {u1}, {})) @@ (m2 :> Packet(k, {u1}, {})) : k \in {"stored", "synconce"} } \cup
    { (m1 :> Packet(k, {u1}, {u2})) @@ (m2 :> Unsent) : k \in {"stored", "synconce"} }
=============================================================================
