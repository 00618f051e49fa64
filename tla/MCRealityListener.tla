------------------------- MODULE MCRealityListener -------------------------
(* Three connections, two callers: connections wait for callers and        *)
(* callers for connections.                                                *)
EXTENDS RealityListener
CONSTANTS c1, c2, c3, a1, a2
MCConns == {c1, c2, c3}
MCCallers == {a1, a2}
====
