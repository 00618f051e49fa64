--------------------------- MODULE MCSessions ---------------------------
(***************************************************************************)
(* Three connections to three servers with room for one session or two,    *)
(* while time runs past a rotation and past the life of the first key.     *)
(* With room for one a connection can fail whose session has given way to  *)
(* another's.  Connections are alike, and so are the names.                *)
(***************************************************************************)
EXTENDS Sessions, TLC

Symmetry == Permutations(Conns) \cup Permutations(Names)
==========================================================================
