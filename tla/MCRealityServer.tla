-------------------------- MODULE MCRealityServer --------------------------
(* Small instances of RealityServer: a record header of one unit, records  *)
(* of two to five units, a ClientHello of two units.                       *)
EXTENDS RealityServer

CONSTANT Cases   \* the pairs of a kind of hello and a kind of script to explore

MCHello(kind) ==
    [valid      |-> kind # "malformed",
     serverName |-> IF kind = "foreign" THEN "other" ELSE "ours",
     tls13      |-> kind # "tls12",
     x25519     |-> kind # "noshare",
     sealed     |-> kind # "unsealed",
     ver        |-> CASE kind = "old" -> <<1, 7, 255>>
                      [] kind = "new" -> <<2, 0, 1>>
                      [] kind = "oldest" -> <<1, 8, 0>>
                      [] OTHER -> <<2, 0, 0>>,
     time       |-> IF kind = "late" THEN 7 ELSE 8,
     shortId    |-> IF kind = "stranger" THEN "x" ELSE "id",
     mlkem768   |-> kind = "hybrid"]

MCRec(t, b, n, g, grp) ==
    [typ |-> t, ver12 |-> TRUE, body |-> b, len |-> n, good |-> g, group |-> grp,
     at |-> 0]
MCApp(n) == MCRec("appdata", "none", n, FALSE, "none")
MCCcs(n) == MCRec("ccs", "one", n, FALSE, "none")
MCSH(n, grp) == MCRec("handshake", "serverHello", n, TRUE, grp)
MCBadSH == MCRec("handshake", "serverHello", 3, FALSE, "none")
MCAlert == MCRec("alert", "none", 2, FALSE, "none")

(* The target's answers, long enough for what S looks at in them. *)
MCRecords(kind) ==
    CASE kind = "separate"  -> <<MCSH(2, "x25519"), MCCcs(2), MCApp(2), MCApp(3),
                                 MCApp(2), MCApp(2), MCApp(2)>>
      [] kind = "coalesced" -> <<MCSH(2, "x25519"), MCCcs(2), MCApp(4)>>
      [] kind = "misfit"    -> <<MCSH(2, "x25519"), MCCcs(2), MCApp(3)>>
      [] kind = "hybrid"    -> <<MCSH(2, "mlkem768"), MCCcs(2), MCApp(3)>>
      [] kind = "bad"       -> <<MCBadSH, MCApp(2)>>
      [] kind = "alert"     -> <<MCAlert>>
      [] kind = "longccs"   -> <<MCSH(2, "x25519"), MCCcs(3)>>
      [] kind = "toolong"   -> <<MCSH(2, "x25519"), MCCcs(2), MCApp(5)>>

MCScript(kind) ==
    LET rs == MCRecords(kind)
        start[k \in 1..Len(rs)] ==
            IF k = 1 THEN 0 ELSE start[k - 1] + rs[k - 1].len
    IN  [k \in 1..Len(rs) |-> [rs[k] EXCEPT !.at = start[k]]]

MCHellos == {MCHello(c[1]) : c \in Cases}
MCScripts == {MCScript(c[2]) : c \in Cases}

(* A genuine client meets every kind of target; the clients that are to be *)
(* relayed meet short streams, which they need not tell apart.             *)
SafetyCases ==
    ({"good"} \X {"separate", "hybrid", "misfit", "bad", "alert", "longccs",
                  "toolong"})
        \cup {<<"oldest", "coalesced">>, <<"foreign", "alert">>}
        \cup ({"malformed", "tls12", "noshare", "unsealed", "old", "new", "late",
              "stranger"} \X {"alert"})

LivenessCases ==
    {<<"good", "coalesced">>, <<"good", "alert">>, <<"foreign", "alert">>,
     <<"unsealed", "alert">>}

MCInit ==
    /\ Init
    /\ \E c \in Cases : hello = MCHello(c[1]) /\ script = MCScript(c[2])

MCSpec == MCInit /\ [][Next]_vars
MCFairSpec == MCSpec /\ Fairness

MCOwnLen == [i \in 2..6 |-> 2]
MCMinClientVer == <<1, 8, 0>>
MCMaxClientVer == <<2, 0, 0>>
====
