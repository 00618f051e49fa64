--------------------------- MODULE RealityPromise ---------------------------
(***************************************************************************)
(* What Server of tls.go promises about one connection, with no goroutine, *)
(* lock or buffer in sight.                                                *)
(*                                                                         *)
(* The client either talks to the target site through us, and then sees    *)
(* the target's stream and nothing else, or it proved that it knows our    *)
(* key and then sees our own handshake and nothing of the target.  Only a  *)
(* client of the second kind that completes the handshake is handed to the *)
(* caller.  Streams are sequences of positions, so that a stream delivered *)
(* in order and without a gap is <<1, 2, ..., n>>.                         *)
(***************************************************************************)
EXTENDS Naturals, Sequences

VARIABLES
    genuine,   \* the client holds our key and is admitted
    mode,      \* "open", "relay", "own" or "confirmed"
    up,        \* client units delivered to the target
    down,      \* target units delivered to the client
    answer,    \* our own records delivered to the client
    outcome    \* "none", "conn" or "err"

vars == <<genuine, mode, up, down, answer, outcome>>

FirstUnits(n) == [i \in 1..n |-> i]

Init ==
    /\ genuine \in BOOLEAN
    /\ mode = "open" /\ up = <<>> /\ down = <<>> /\ answer = <<>>
    /\ outcome = "none"

(* More of the client's stream reaches the target, until we answer. *)
ForwardUp ==
    /\ outcome = "none" /\ mode \in {"open", "relay"}
    /\ up' = FirstUnits(Len(up')) /\ Len(up') > Len(up)
    /\ UNCHANGED <<genuine, mode, down, answer, outcome>>

(* More of the target's stream reaches the client, which from then on is   *)
(* only relayed.                                                           *)
ForwardDown ==
    /\ outcome = "none" /\ mode \in {"open", "relay"}
    /\ mode' = "relay"
    /\ down' = FirstUnits(Len(down')) /\ Len(down') > Len(down)
    /\ UNCHANGED <<genuine, up, answer, outcome>>

(* We answer a genuine client in the target's place. *)
Answer ==
    /\ outcome = "none" /\ mode = "open" /\ genuine
    /\ mode' = "own"
    /\ answer' # <<>>
    /\ UNCHANGED <<genuine, up, down, outcome>>

Confirm ==
    /\ outcome = "none" /\ mode = "own"
    /\ mode' = "confirmed"
    /\ UNCHANGED <<genuine, up, down, answer, outcome>>

Finish ==
    /\ outcome = "none"
    /\ outcome' = IF mode = "confirmed" THEN "conn" ELSE "err"
    /\ UNCHANGED <<genuine, mode, up, down, answer>>

Next == ForwardUp \/ ForwardDown \/ Answer \/ Confirm \/ Finish

Spec == Init /\ [][Next]_vars
====
