--------------------------- MODULE MCQuicConn ---------------------------
(***************************************************************************)
(* A client's connection and at most three pieces of handshake data, which *)
(* are enough for a HelloRetryRequest, both flights and a ticket, or for   *)
(* more tickets than a connection may have.                                *)
(***************************************************************************)
EXTENDS QuicConn
==========================================================================
