------------------------------- MODULE MCConn -------------------------------
(* A writer, two readers, a goroutine that closes and one that shakes      *)
(* hands under a context or asks for the state; each case needs some of    *)
(* them.                                                                   *)
EXTENDS Conn
CONSTANTS w, r, s, c, h

MCProcs == {w, r, s, c, h}

MCOps ==
    [p \in MCProcs |->
       CASE p = w -> {"write"}
         [] p \in {r, s} -> {"read"}
         [] p = c -> {"close", "closewrite"}
         [] p = h -> {"handshake", "state"}]

Reality == [client |-> FALSE, v13 |-> TRUE, reneg |-> "never"]
Client13 == [client |-> TRUE, v13 |-> TRUE, reneg |-> "never"]
Client12(b) == [client |-> TRUE, v13 |-> FALSE, reneg |-> b]

World(f, team, n, kinds, sends, leaves) ==
    [client |-> f.client, v13 |-> f.v13, reneg |-> f.reneg, team |-> team,
     calls |-> n, kinds |-> kinds, sends |-> sends, leaves |-> leaves]

MCCases == {
    World(Reality, {w, r, c}, 1, {"kur", "data"}, 2, FALSE),
    World(Reality, {w, r}, 1, {"warning"}, 2, FALSE),
    World(Reality, {w, c}, 2, {}, 0, TRUE),
    World(Reality, {w, r}, 2, {"kur"}, 1, FALSE),
    World(Reality, {r, c}, 2, {"ticket"}, 1, FALSE),
    World(Reality, {w, r, c}, 1, {"kur"}, 1, TRUE),
    World(Client13, {w, h}, 1, {"warning"}, 1, TRUE),
    World(Client13, {w, r}, 2, {"ku", "kur", "data"}, 2, FALSE),
    World(Client13, {r}, 2, Kinds \ {"hello_request"}, 2, FALSE),
    World(Client13, {r}, 1, {"ku", "kur", "tickets", "half", "rest"}, 3, FALSE),
    World(Client13, {r, c}, 1, {"kur"}, 1, TRUE),
    World(Client12("freely"), {w, r, c}, 1, {"hello_request"}, 1, FALSE),
    World(Client12("freely"), {r, h}, 1, {"hello_request"}, 1, TRUE),
    World(Client12("once"), {r}, 1, {"hello_request", "data"}, 2, FALSE),
    World(Client12("once"), {r, s}, 1, {"hello_request"}, 3, FALSE),
    World(Client12("never"), {w, r}, 2, {"hello_request", "data"}, 2, FALSE),
    World(Client12("never"), {r}, 2, {"data", "warning", "half"}, 3, FALSE),
    World(Client12("never"), {r}, 2, Kinds \ {"ku", "kur", "ticket"}, 2, FALSE)}
====
