----------------------------- MODULE ConnProofs -----------------------------
(***************************************************************************)
(* Proofs about Conn: any number of goroutines, any methods they call, any *)
(* peer and any connection among the Cases.                                *)
(***************************************************************************)
EXTENDS Conn, TLAPS, SequenceTheorems, FiniteSetTheorems

Calling == {"none", "write", "close", "closewrite", "read", "handshake", "state"}

Places == {"idle", "state", "load", "shut", "end", "hs_fast", "hs_mutex", "hs_in", "hs_ok",
           "hs_fail", "hs_done", "hs_wait", "out", "sock", "flush", "flushing", "rec", "fail",
           "in", "loop", "use", "reneg"}

Shaking == {"sh", "flight", "ccs", "fin"}

Alerts == {"none", "bad_mac", "unexpected", "no_renegotiation"}

Thread == [op : Calling, pc : Places, send : OutKinds \cup {"none"},
           stage : Shaking \cup {"none", "failed", "predict"}, reneg : BOOLEAN,
           alert : Alerts, inerr : BOOLEAN, chunk : Seq(Records(OutKinds))]

TheirKinds == Kinds \cup {"sh", "flight", "fin"}

PeerType == [queue : Seq(Records(TheirKinds)), epoch : Nat, seq : Nat, sent : Nat,
             hellos : Nat, flights : Nat, fins : Nat, half : BOOLEAN, bad : BOOLEAN,
             eof : BOOLEAN, reset : BOOLEAN, reads : BOOLEAN]

Typed ==
  /\ TypeOK
  /\ th \in [Procs -> Thread]
  /\ peer \in PeerType /\ (peer.reset => peer.eof)

-----------------------------------------------------------------------------
(* What a goroutine at each place of its program is doing, and which mutexes *)
(* it holds.                                                                 *)

AtSend(t) == t.pc \in {"out", "sock"}

\* Inside readRecord and what follows it, or inside a handshake.
HoldsIn(t) ==
  \/ t.pc \in {"loop", "rec", "fail", "use", "reneg", "hs_ok", "hs_fail", "flush", "flushing"}
  \/ AtSend(t) /\ t.send \in {"hello", "ccs", "fin", "ku", "alert"}

HoldsHs(t) == t.pc = "hs_in" \/ t.stage \in Shaking \cup {"failed"}

HoldsOut(t) == t.pc = "sock"

Shape(t) ==
  /\ t.pc \in {"idle", "state", "load", "shut", "hs_fast", "hs_mutex", "hs_in", "hs_done",
               "hs_wait", "in", "loop", "reneg"} => t.stage = "none"
  /\ t.pc = "idle" => t.op = "none"
  /\ t.pc = "end" => t.stage \in {"none", "predict"}
  /\ t.pc \in {"rec", "use", "fail"} =>
       \/ t.stage \in Shaking
       \/ t.stage \in {"none", "predict"} /\ t.op = "read"
  /\ t.pc \in {"in", "loop", "reneg"} => t.op = "read"
  /\ t.pc \in {"load", "shut"} => t.op \in {"close", "closewrite"}
  /\ t.pc = "state" => t.op = "state"
  /\ t.pc = "hs_ok" => t.stage \in {"flight", "fin"}
  /\ t.pc = "hs_fail" => t.stage \in Shaking
  /\ t.pc \in {"flush", "flushing"} => t.stage \in {"flight", "failed"}
  /\ t.stage = "failed" => t.pc \in {"flush", "flushing"}
  /\ AtSend(t) =>
       /\ t.send # "none"
       /\ t.send = "data" => t.stage = "none" /\ t.op = "write"
       /\ t.send = "close_notify" => t.stage = "none" /\ t.op \in {"close", "closewrite"}
       /\ t.send = "ku" => t.stage = "none" /\ t.op = "read"
       /\ t.send = "hello" => t.stage = "sh"
       /\ t.send \in {"ccs", "fin"} => t.stage = "flight"
       /\ t.send = "alert" => t.alert # "none" /\ (t.stage \in Shaking \/ t.op = "read")
  /\ t.reneg => t.stage \in Shaking /\ t.op = "read"
  /\ t.pc \in {"hs_fast", "hs_mutex", "hs_in"} \/ t.stage \in Shaking \cup {"failed"} =>
       t.op \in {"read", "write", "handshake"}
  /\ t.pc = "sock" => /\ t.send \notin {"ccs", "fin"}
                     /\ t.chunk # <<>> /\ Len(t.chunk) = 1 /\ t.chunk[1].k = t.send
  /\ t.pc \notin {"sock", "flushing"} => t.chunk = <<>>

\* The interrupter of a call lives as long as its HandshakeContext.
Watched(t, i) ==
  i.state # "none" =>
    t.op = "handshake" /\ t.pc \notin {"idle", "end", "hs_fast"} /\ ~t.reneg

Holds(t, l, p) ==
  /\ HoldsIn(t) <=> l.in = p
  /\ HoldsHs(t) <=> l.hs = p
  /\ HoldsOut(t) <=> l.out = p

Control ==
  \A p \in Procs : Shape(th[p]) /\ Watched(th[p], intr[p]) /\ Holds(th[p], lock, p)

Writers == {p \in Procs : th[p].op = "write"}

\* activeCall counts the Writes in flight.
Active == IsFiniteSet(Writers) /\ active = Cardinality(Writers)

-----------------------------------------------------------------------------
(* The handshake *)

Shook ==
  /\ \A p \in Procs : HoldsHs(th[p]) =>
       /\ complete <=> th[p].pc = "hs_ok"
       /\ ~th[p].reneg => (handshakeErr <=> th[p].stage = "failed")
  /\ out.buffering /\ ~handshakeErr => \E p \in Procs : th[p].stage = "flight"
  /\ complete /\ lock.hs = Free => ~handshakeErr
  /\ \A p \in Procs : th[p].pc = "reneg" => ~cfg.v13

\* A REALITY server never shakes hands, and no KeyUpdate gets as far as its socket.
Padded ==
  ~cfg.client =>
    /\ complete /\ lock.hs = Free /\ out.epoch = 0 /\ ~out.buffering
    /\ \A p \in Procs : th[p].pc = "sock" => th[p].send # "ku"
    /\ \A n \in DOMAIN wire : wire[n].k # "ku"

Buffered ==
  /\ complete => ~out.buffering
  /\ ~out.buffering => out.sendBuf = <<>>
  /\ \A p \in Procs :
       /\ th[p].stage \in {"ccs", "fin"} => ~out.buffering
       /\ th[p].stage = "flight" /\ th[p].pc \notin {"hs_ok", "hs_fail"} => out.buffering
       /\ th[p].pc = "sock" => out.sendBuf = <<>>
       /\ th[p].pc = "flushing" =>
            out.sendBuf # <<>> /\ (th[p].chunk = out.sendBuf \/ SockFails)
  /\ deadline = "past" => out.notified

-----------------------------------------------------------------------------
(* The sequence numbers *)

Then(r, e, s) == (e = r.e /\ s = r.s + 1) \/ (e > r.e /\ s = 0)

Chained(sq) == \A n \in 1 .. Len(sq) - 1 : Then(sq[n], sq[n + 1].e, sq[n + 1].s)

Numbered ==
  /\ Chained(wire)
  /\ Chained(out.sendBuf)
  /\ out.sendBuf # <<>> => Then(out.sendBuf[Len(out.sendBuf)], out.epoch, out.seq)
  /\ ~SockFails /\ wire # <<>> =>
       /\ out.sendBuf # <<>> =>
            Then(wire[Len(wire)], out.sendBuf[1].e, out.sendBuf[1].s)
       /\ out.sendBuf = <<>> /\ lock.out = Free =>
            Then(wire[Len(wire)], out.epoch, out.seq)
       /\ \A p \in Procs : th[p].pc = "sock" =>
            Then(wire[Len(wire)], th[p].chunk[1].e, th[p].chunk[1].s)
  /\ \A p \in Procs : th[p].pc = "sock" => Then(th[p].chunk[1], out.epoch, out.seq)

-----------------------------------------------------------------------------
(* The order of the records *)

\* Every ClientHello is followed by the Finished of its handshake.
Over(sq) ==
  \A m \in DOMAIN sq : sq[m].k = "hello" => \E l \in m .. Len(sq) : sq[l].k = "fin"

\* There is a Finished, and no ClientHello after it.
Ends(sq) ==
  \E l \in DOMAIN sq : sq[l].k = "fin" /\ \A m \in l .. Len(sq) : sq[m].k # "hello"

Apart ==
  /\ NoDataInsideHandshake
  /\ \A n \in DOMAIN out.sendBuf : out.sendBuf[n].k # "data"
  /\ complete => Over(wire)
  /\ \A p \in Procs :
       /\ th[p].stage \in {"ccs", "fin"} => Over(wire)
       /\ th[p].pc = "sock" /\ th[p].send = "data" => Over(wire)
       /\ th[p].pc \in {"flush", "flushing"} /\ th[p].stage = "flight" => Ends(out.sendBuf)

Quiet(sq) == \A n \in DOMAIN sq : sq[n].k \notin {"alert", "close_notify"}

Hushed ==
  /\ NothingAfterAlert
  /\ out.err = "none" /\ ~out.notified => Quiet(wire) /\ Quiet(out.sendBuf)
  /\ \A p \in Procs : th[p].pc = "sock" /\ th[p].send = "data" => Quiet(wire)

-----------------------------------------------------------------------------
(* The counters *)

\* The goroutine is about to set in.err along with its alert.
Condemning(t) == AtSend(t) /\ t.send = "alert" /\ t.inerr

Limited ==
  in.retry > MaxUseless => in.err # "none" \/ \E p \in Procs : Condemning(th[p])

Healthy == out.err = "none" /\ ~SockFails

\* The goroutine has sent the ClientHello of its handshake.
Greeted(t) == t.stage \in Shaking \cup {"failed"} /\ ~(AtSend(t) /\ t.send = "hello")

\* The goroutine is past a readRecord that went well.
Reading(t) ==
  /\ t.stage = "none" \/ t.reneg
  /\ \/ t.pc \in {"use", "reneg", "hs_ok", "flush", "flushing"}
     \/ AtSend(t) /\ t.send \in {"hello", "ccs", "fin", "ku"}

Tallied ==
  /\ RenegotiationBounded
  /\ ~complete /\ ~handshakeErr /\ lock.hs = Free => handshakes = 0
  /\ \A p \in Procs :
       /\ HoldsHs(th[p]) /\ ~th[p].reneg => handshakes = 0
       /\ cfg.reneg = "once" /\ (th[p].pc = "reneg" \/ th[p].reneg) => handshakes <= 1
       /\ Reading(th[p]) => in.err = "none"
       /\ th[p].pc \in {"fail", "hs_fail"} /\ Healthy => in.err # "none"
  /\ Healthy => /\ handshakeErr => in.err # "none"
                /\ \A n \in DOMAIN out.sendBuf : out.sendBuf[n].k # "hello"
                /\ (\E p \in Procs : Greeted(th[p])) => Sent("hello") <= handshakes + 1
                /\ (~ \E p \in Procs : Greeted(th[p])) /\ ~handshakeErr =>
                     Sent("hello") <= handshakes

IInv == /\ Typed /\ Control /\ Active /\ Shook /\ Padded /\ Buffered
        /\ Numbered /\ Apart /\ Hushed /\ Limited /\ Tallied
-----------------------------------------------------------------------------
(* A step of a goroutine replaces its record. *)

Is(t, o, l, k, g, n, a, e, c) ==
  /\ t.op = o /\ t.pc = l /\ t.send = k /\ t.stage = g
  /\ (t.reneg <=> n) /\ t.alert = a /\ (t.inerr <=> e) /\ t.chunk = c

Moves(p, t) == t \in Thread /\ th' = [th EXCEPT ![p] = t]

\* Go changes the place only.
LEMMA GoMoves ==
  ASSUME th \in [Procs -> Thread], NEW p \in Procs, NEW l \in Places, Go(p, l)
  PROVE  \E t : /\ Moves(p, t)
                /\ Is(t, th[p].op, l, th[p].send, th[p].stage, th[p].reneg, th[p].alert,
                      th[p].inerr, th[p].chunk)
<1> DEFINE t == [th[p] EXCEPT !.pc = l]
<1>1. t \in Thread
  BY DEF Thread
<1>2. Is(t, th[p].op, l, th[p].send, th[p].stage, th[p].reneg, th[p].alert,
         th[p].inerr, th[p].chunk)
  BY DEF Is, Thread
<1>3. th' = [th EXCEPT ![p] = t]
  BY DEF Go
<1> QED
  BY <1>1, <1>2, <1>3 DEF Moves

\* Sending takes the goroutine to c.out's lock with a kind of record to write.
LEMMA SendingMoves ==
  ASSUME th \in [Procs -> Thread], NEW p \in Procs, NEW k \in OutKinds, th' = Sending(p, k)
  PROVE  \E t : /\ Moves(p, t)
                /\ Is(t, th[p].op, "out", k, th[p].stage, th[p].reneg, th[p].alert,
                      th[p].inerr, th[p].chunk)
<1> DEFINE t == [th[p] EXCEPT !.pc = "out", !.send = k]
<1>0. "out" \in Places
  BY DEF Places
<1>1. t \in Thread
  BY <1>0 DEF Thread
<1>2. Is(t, th[p].op, "out", k, th[p].stage, th[p].reneg, th[p].alert,
         th[p].inerr, th[p].chunk)
  BY DEF Is, Thread
<1>3. th' = [th EXCEPT ![p] = t]
  BY DEF Sending
<1> QED
  BY <1>1, <1>2, <1>3 DEF Moves

\* Alerting takes the goroutine to c.out's lock with an alert to send.
LEMMA AlertingMoves ==
  ASSUME th \in [Procs -> Thread], NEW p \in Procs, NEW a \in Alerts, NEW e \in BOOLEAN,
         th' = Alerting(p, a, e)
  PROVE  \E t : /\ Moves(p, t)
                /\ Is(t, th[p].op, "out", "alert", th[p].stage, th[p].reneg, a, e, th[p].chunk)
<1> DEFINE t == [th[p] EXCEPT !.pc = "out", !.send = "alert", !.alert = a, !.inerr = e]
<1>0. "alert" \in OutKinds /\ "out" \in Places
  BY DEF OutKinds, Places
<1>1. t \in Thread
  BY <1>0 DEF Thread
<1>2. Is(t, th[p].op, "out", "alert", th[p].stage, th[p].reneg, a, e, th[p].chunk)
  BY DEF Is, Thread
<1>3. th' = [th EXCEPT ![p] = t]
  BY DEF Alerting
<1> QED
  BY <1>1, <1>2, <1>3 DEF Moves

\* Where a call goes once its handshake has returned.
LEMMA AfterHandshakeMoves ==
  ASSUME th \in [Procs -> Thread], NEW p \in Procs, NEW ok \in BOOLEAN,
         th[p].op \in {"read", "write", "handshake"}, th' = AfterHandshake(p, ok)
  PROVE  \E t : /\ Moves(p, t)
                /\ Is(t, th[p].op, t.pc, IF th[p].op = "write" THEN "data" ELSE "none", "none",
                      th[p].reneg, th[p].alert, th[p].inerr, th[p].chunk)
                /\ IF Interrupted(p) THEN t.pc = "hs_done"
                   ELSE IF ~ok \/ th[p].op = "handshake" THEN t.pc = "end"
                   ELSE IF th[p].op = "read" THEN t.pc = "in" ELSE t.pc = "out"
<1> DEFINE l == CASE Interrupted(p) -> "hs_done"
                  [] ~Interrupted(p) /\ (~ok \/ th[p].op = "handshake") -> "end"
                  [] ~Interrupted(p) /\ ok /\ th[p].op = "read" -> "in"
                  [] ~Interrupted(p) /\ ok /\ th[p].op = "write" -> "out"
           k == IF th[p].op = "write" THEN "data" ELSE "none"
           t == [th[p] EXCEPT !.stage = "none", !.pc = l, !.send = k]
<1>1. IF Interrupted(p) THEN l = "hs_done"
      ELSE IF ~ok \/ th[p].op = "handshake" THEN l = "end"
      ELSE IF th[p].op = "read" THEN l = "in" ELSE l = "out"
  OBVIOUS
<1>2. l \in Places /\ k \in OutKinds \cup {"none"}
  BY <1>1 DEF Places, OutKinds
<1>3. th' = [th EXCEPT ![p] = t]
  BY DEF AfterHandshake
<1> HIDE DEF l, k
<1>4. t \in Thread
  BY <1>2 DEF Thread
<1>5. Is(t, th[p].op, l, k, "none", th[p].reneg, th[p].alert, th[p].inerr, th[p].chunk)
  BY DEF Is, Thread
<1>6. t.pc = l
  BY <1>5 DEF Is
<1>7. Moves(p, t)
  BY <1>3, <1>4 DEF Moves
<1>8. k = IF th[p].op = "write" THEN "data" ELSE "none"
  BY DEF k
<1> HIDE DEF t
<1> QED
  BY <1>1, <1>5, <1>6, <1>7, <1>8

\* Control holds after a step whose new record has the shape, the watcher and the locks
\* of its place, and that takes no lock from another goroutine.
LEMMA MoveControl ==
  ASSUME Control, th \in [Procs -> Thread], NEW p \in Procs, NEW t, Moves(p, t),
         Shape(t), Watched(t, intr'[p]), Holds(t, lock', p),
         \A q \in Procs : q # p => intr'[q] = intr[q] /\ Holds(th[q], lock', q)
  PROVE  Control'
<1> SUFFICES ASSUME NEW q \in Procs
             PROVE  Shape(th'[q]) /\ Watched(th'[q], intr'[q]) /\ Holds(th'[q], lock', q)
  BY DEF Control
<1>1. CASE q = p
  BY <1>1 DEF Moves
<1>2. CASE q # p
  BY <1>2 DEF Moves, Control
<1> QED
  BY <1>1, <1>2


-----------------------------------------------------------------------------
(* The steps that send nothing *)

\* The step leaves what is sent alone; it may make sending impossible.
Calm(p, t) ==
  /\ UNCHANGED <<cfg, wire, deadline>> /\ lock'.out = lock.out
  /\ out'.sendBuf = out.sendBuf /\ out'.epoch = out.epoch /\ out'.seq = out.seq
  /\ (out'.buffering <=> out.buffering) /\ (out'.notified <=> out.notified)
  /\ out'.err = out.err \/ out'.err # "none"
  /\ SockFails => SockFails'
  /\ th[p].pc # "sock" /\ t.pc # "sock"

\* A Calm step leaves the record numbers and the silence after an alert as they are.
LEMMA CalmLemma ==
  ASSUME th \in [Procs -> Thread], NEW p \in Procs, NEW t, Moves(p, t), Calm(p, t),
         Numbered, Hushed
  PROVE  Numbered' /\ Hushed'
<1>1. th'[p] = t /\ \A q \in Procs : q # p => th'[q] = th[q]
  BY DEF Moves
<1>2. Numbered'
  BY <1>1 DEF Calm, Numbered
<1>3. Hushed'
  BY <1>1 DEF Calm, Hushed, NothingAfterAlert
<1> QED
  BY <1>2, <1>3

\* Besides, no handshake sends, has sent or completes.
Tame(p, t) ==
  /\ Calm(p, t)
  /\ complete' => complete
  /\ th[p].pc # "flushing" /\ t.pc # "flushing"
  /\ t.stage \in {"ccs", "fin"} => th[p].stage \in {"ccs", "fin"}
  /\ t.pc = "flush" => t.stage # "flight"
  /\ t.stage = "flight" /\ t.pc \notin {"hs_ok", "hs_fail"} =>
       th[p].stage = "flight" /\ th[p].pc \notin {"hs_ok", "hs_fail"}

\* A Tame step, one that seals and writes no record, keeps what is said of the records.
LEMMA TameLemma ==
  ASSUME th \in [Procs -> Thread], NEW p \in Procs, NEW t, Moves(p, t), Tame(p, t),
         Buffered, Numbered, Apart, Hushed
  PROVE  Buffered' /\ Numbered' /\ Apart' /\ Hushed'
<1>1. th'[p] = t /\ \A q \in Procs : q # p => th'[q] = th[q]
  BY DEF Moves
<1>2. Buffered'
  BY <1>1 DEF Calm, Tame, Buffered
<1>3. Apart'
  BY <1>1 DEF Calm, Tame, Apart, NoDataInsideHandshake
<1> QED
  BY <1>2, <1>3, CalmLemma DEF Tame

\* The step leaves the outcome of the handshake alone, and what is sent.
Aside(p, t) ==
  /\ Calm(p, t)
  /\ UNCHANGED <<complete, handshakeErr, handshakes>> /\ lock'.hs = lock.hs
  /\ in'.err = in.err \/ (in'.err # "none" /\ lock.in = p)
  /\ in'.retry > MaxUseless /\ in'.err = "none" =>
       Condemning(t) \/ (in.retry > MaxUseless /\ ~Condemning(th[p]))
  /\ HoldsHs(t) => HoldsHs(th[p])
  /\ t.pc = "hs_ok" <=> th[p].pc = "hs_ok"
  /\ t.stage = "failed" <=> th[p].stage = "failed"
  /\ th[p].stage = "flight" => t.stage = "flight"
  /\ t.pc = "reneg" => MayRenegotiate /\ ~cfg.v13
  /\ Greeted(t) <=> Greeted(th[p])
  /\ (t.reneg <=> th[p].reneg)
  /\ Reading(t) => in'.err = "none"
  /\ t.pc \in {"fail", "hs_fail"} => in'.err # "none" \/ ~Healthy

\* A step aside from handshakes keeps what is said of them.
LEMMA AsideLemma ==
  ASSUME Typed, Control, NEW p \in Procs, NEW t, Moves(p, t), Aside(p, t),
         Shook, Padded, Limited, Tallied
  PROVE  Shook' /\ Padded' /\ Limited' /\ Tallied'
<1>1. th'[p] = t /\ \A q \in Procs : q # p => th'[q] = th[q]
  BY DEF Moves, Typed
<1>2. Shook'
  BY <1>1 DEF Aside, Calm, Shook
<1>3. Padded'
  BY <1>1 DEF Aside, Calm, Padded
<1>4. Limited'
  BY <1>1 DEF Aside, Calm, Limited
<1>5. Tallied'
  <2>1. Healthy' => Healthy
    BY DEF Aside, Calm, Healthy
  <2>2. Sent("hello")' = Sent("hello")
    BY DEF Aside, Calm, Sent
  <2>3. RenegotiationBounded'
    BY <2>2 DEF Aside, Calm, Tallied, RenegotiationBounded
  <2>4. ~complete' /\ ~handshakeErr' /\ lock'.hs = Free => handshakes' = 0
    BY DEF Aside, Tallied
  <2>5. ASSUME NEW q \in Procs
        PROVE  /\ HoldsHs(th'[q]) /\ ~th'[q].reneg => handshakes' = 0
               /\ cfg'.reneg = "once" /\ (th'[q].pc = "reneg" \/ th'[q].reneg) =>
                    handshakes' <= 1
    <3>1. CASE q = p
      BY <1>1, <3>1 DEF Aside, Calm, Tallied, MayRenegotiate
    <3>2. CASE q # p
      BY <1>1, <3>2 DEF Aside, Calm, Tallied
    <3> QED
      BY <3>1, <3>2
  <2>6. ASSUME NEW q \in Procs
        PROVE  /\ Reading(th'[q]) => in'.err = "none"
               /\ th'[q].pc \in {"fail", "hs_fail"} /\ Healthy' => in'.err # "none"
    <3>1. CASE q = p
      BY <1>1, <2>1, <3>1 DEF Aside
    <3>2. CASE q # p
      <4>1. Reading(th[q]) => lock.in = q
        BY DEF Control, Holds, HoldsIn, Reading
      <4> QED
        BY <1>1, <2>1, <3>2, <4>1 DEF Aside, Tallied
    <3> QED
      BY <3>1, <3>2
  <2>7. ASSUME Healthy'
        PROVE  /\ handshakeErr' => in'.err # "none"
               /\ \A n \in DOMAIN out'.sendBuf : out'.sendBuf[n].k # "hello"
    BY <2>1, <2>7 DEF Aside, Calm, Tallied
  <2>8. (\E q \in Procs : Greeted(th'[q])) <=> (\E q \in Procs : Greeted(th[q]))
    BY <1>1 DEF Aside
  <2> QED
    BY <2>1, <2>2, <2>3, <2>4, <2>5, <2>6, <2>7, <2>8 DEF Aside, Tallied
<1> QED
  BY <1>2, <1>3, <1>4, <1>5

Eases(p, t) ==
  /\ Moves(p, t) /\ Shape(t) /\ Watched(t, intr'[p]) /\ Holds(t, lock', p)
  /\ \A q \in Procs : q # p => intr'[q] = intr[q] /\ Holds(th[q], lock', q)
  /\ Aside(p, t) /\ Tame(p, t)

\* Nor does a Write begin or return.
Eased(p, t) ==
  Eases(p, t) /\ (t.op = "write" <=> th[p].op = "write") /\ active' = active

\* activeCall still counts the Writes under way when no Write begins or ends.
LEMMA ActiveLemma ==
  ASSUME th \in [Procs -> Thread], Active, NEW p \in Procs, NEW t, Moves(p, t),
         t.op = "write" <=> th[p].op = "write", active' = active
  PROVE  Active'
<1>1. Writers' = Writers
  BY DEF Writers, Moves
<1> QED
  BY <1>1 DEF Active

\* A step that is tame and aside, and keeps control, keeps the invariant.
LEMMA EasesLemma ==
  ASSUME IInv, NEW p \in Procs, NEW t, Eases(p, t), Typed', Active'
  PROVE  IInv'
BY TameLemma, AsideLemma, MoveControl DEF IInv, Typed, Eases

\* The same when it begins and ends no Write.
LEMMA EasedLemma ==
  ASSUME IInv, NEW p \in Procs, NEW t, Eased(p, t), Typed'
  PROVE  IInv'
BY EasesLemma, ActiveLemma DEF IInv, Typed, Eased, Eases

\* A step that changes no goroutine, nor anything the Conn keeps.
LEMMA StillLemma ==
  ASSUME IInv, UNCHANGED <<cfg, complete, handshakeErr, handshakes, lock, active, out, in,
                           deadline, wire, th>>,
         SockFails => SockFails',
         \A q \in Procs : intr'[q].state # "none" => intr[q].state # "none",
         Typed'
  PROVE  IInv'
<1>1. Control' /\ Shook' /\ Padded' /\ Limited'
  BY DEF IInv, Control, Shook, Padded, Limited, Watched
<1>2. Active'
  <2>1. Writers' = Writers
    BY DEF Writers
  <2> QED
    BY <2>1 DEF IInv, Active
<1>3. Buffered' /\ Numbered'
  BY DEF IInv, Buffered, Numbered
<1>4. Apart' /\ Hushed'
  BY DEF IInv, Apart, Hushed, NoDataInsideHandshake, NothingAfterAlert
<1>5. Tallied'
  <2>1. Sent("hello")' = Sent("hello") /\ (Healthy' => Healthy)
    BY DEF Sent, Healthy
  <2> QED
    BY <2>1 DEF IInv, Tallied, RenegotiationBounded
<1> QED
  BY <1>1, <1>2, <1>3, <1>4, <1>5 DEF IInv

\* What the invariant says of one goroutine.
LEMMA Known ==
  ASSUME IInv, NEW p \in Procs
  PROVE  /\ Shape(th[p]) /\ th[p].reneg \in BOOLEAN /\ th[p].inerr \in BOOLEAN
         /\ Watched(th[p], intr[p]) /\ Holds(th[p], lock, p)
         /\ Reading(th[p]) => in.err = "none"
         /\ th[p].pc \in {"fail", "hs_fail"} /\ Healthy => in.err # "none"
         /\ \A q \in Procs : q # p => Holds(th[q], lock, q)
         /\ Free \notin Procs
         /\ lock \in [hs : Procs \cup {Free}, in : Procs \cup {Free}, out : Procs \cup {Free}]
<1>1. th[p].reneg \in BOOLEAN /\ th[p].inerr \in BOOLEAN
  BY DEF IInv, Typed, Thread
<1> QED
  BY <1>1, ConnAssumption DEF IInv, Typed, TypeOK, LockState, Control, Tallied

-----------------------------------------------------------------------------
(* The calls *)

\* The record of a goroutine outside every call is well typed.
LEMMA IdleThread == Idle \in Thread
<1>1. <<>> \in Seq(Records(OutKinds))
  OBVIOUS
<1> QED
  BY <1>1 DEF Idle, Thread, Calling, Places, Shaking, Alerts

\* A call begins.
LEMMA BeginMoves ==
  ASSUME th \in [Procs -> Thread], NEW p \in Procs, NEW o \in Calling, NEW l \in Places,
         th' = [th EXCEPT ![p] = [Idle EXCEPT !.op = o, !.pc = l]]
  PROVE  \E t : Moves(p, t) /\ Is(t, o, l, "none", "none", FALSE, "none", FALSE, <<>>)
<1> DEFINE t == [Idle EXCEPT !.op = o, !.pc = l]
<1>1. t \in Thread
  BY IdleThread DEF Thread
<1>2. Is(t, o, l, "none", "none", FALSE, "none", FALSE, <<>>)
  BY DEF Is, Idle
<1> QED
  BY <1>1, <1>2 DEF Moves

\* All the calls but Write, which is counted.
LEMMA CallInv ==
  ASSUME IInv, NEW p \in Procs, NEW o, NEW l, NEW t,
         \/ o \in {"close", "closewrite"} /\ l \in {"load", "shut"}
         \/ o \in {"read", "handshake"} /\ l = "hs_fast"
         \/ o = "state" /\ l = "state",
         th[p].pc = "idle", Moves(p, t),
         Is(t, o, l, "none", "none", FALSE, "none", FALSE, <<>>),
         UNCHANGED <<cfg, complete, handshakeErr, handshakes, lock, active, out, in, sock,
                     deadline, wire, peer, intr>>,
         closing' = closing \/ closing' = TRUE, calls' \in [Procs -> Nat]
  PROVE  IInv'
<1>1. Eased(p, t)
  BY Known
     DEF Eased, Eases, Shape, Is, AtSend, HoldsIn, HoldsHs, HoldsOut, Holds, Watched, Shaking, 
         Aside, Tame, Calm, SockFails, Condemning, Greeted, Reading, Healthy, IInv, Limited
<1>2. Typed'
  <2>1. closing' \in BOOLEAN
    BY Zenon DEF IInv, Typed, TypeOK
  <2>2. DOMAIN th' = Procs
    BY DEF IInv, Typed, Moves
  <2>3. TypeOK'
    BY <2>1, <2>2 DEF IInv, Typed, TypeOK
  <2> QED
    BY <2>3 DEF IInv, Typed, Moves
<1> QED
  BY <1>1, <1>2, EasedLemma

\* A Write begins.
LEMMA WriteInv ==
  ASSUME IInv, NEW p \in Procs, NEW t, th[p].pc = "idle", Moves(p, t),
         Is(t, "write", "hs_fast", "none", "none", FALSE, "none", FALSE, <<>>),
         UNCHANGED <<cfg, complete, handshakeErr, handshakes, lock, closing, out, in, sock,
                     deadline, wire, peer, intr>>,
         active' = active + 1, calls' \in [Procs -> Nat]
  PROVE  IInv'
<1>1. Eases(p, t)
  BY Known
     DEF Eases, Shape, Is, AtSend, HoldsIn, HoldsHs, HoldsOut, Holds, Watched, Shaking,
         Aside, Tame, Calm, SockFails, Condemning, Greeted, Reading, Healthy, IInv, Limited
<1>2. Typed'
  <2>1. active' \in Nat
    BY DEF IInv, Typed, TypeOK
  <2> QED
    BY <2>1 DEF IInv, Typed, TypeOK, Moves
<1>3. Active'
  <2>1. th[p].op = "none"
    BY Known DEF Shape
  <2>2. Writers' = Writers \cup {p} /\ p \notin Writers
    BY <2>1 DEF Writers, IInv, Typed, Moves, Is
  <2> QED
    BY <2>2, FS_AddElement DEF IInv, Active
<1> QED
  BY <1>1, <1>2, <1>3, EasesLemma

\* A call returns (Write gives its count in activeCall back).
LEMMA ReturnInv ==
  ASSUME IInv, NEW p \in Procs, Return(p)
  PROVE  IInv'
<1> DEFINE t == Idle
<1>1. /\ th[p].pc = "end" /\ active' = IF th[p].op = "write" THEN active - 1 ELSE active
      /\ UNCHANGED <<cfg, complete, handshakeErr, handshakes, lock, closing, out, in, sock,
                     deadline, wire, peer, calls>>
  BY DEF Return, At, shake
<1>2. Moves(p, t) /\ Is(t, "none", "idle", "none", "none", FALSE, "none", FALSE, <<>>)
  BY IdleThread DEF Return, Moves, Is, Idle
<1>3. /\ intr' \in [Procs -> Watcher]
      /\ intr'[p].state = intr[p].state
      /\ \A q \in Procs : q # p => intr'[q] = intr[q]
  BY DEF Return, IInv, Typed, TypeOK, Watcher
<1> HIDE DEF t
<1>4. Eases(p, t)
  BY <1>1, <1>2, <1>3, Known
     DEF Eases, Shape, Is, AtSend, HoldsIn, HoldsHs, HoldsOut, Holds, Watched, Shaking,
         Aside, Tame, Calm, SockFails, Condemning, Greeted, Reading, Healthy, IInv, Limited
<1>5. Active'
  <2>1. CASE th[p].op = "write"
    <3>1. Writers' = Writers \ {p} /\ p \in Writers
      BY <1>2, <2>1 DEF Writers, IInv, Typed, Moves, Is
    <3> QED
      BY <1>1, <2>1, <3>1, FS_RemoveElement DEF IInv, Active
  <2>2. CASE th[p].op # "write"
    BY <1>1, <1>2, <2>2, ActiveLemma DEF IInv, Typed, Is
  <2> QED
    BY <2>1, <2>2
<1>6. Typed'
  <2>1. active' \in Nat
    BY <1>5, FS_CardinalityType DEF Active
  <2> QED
    BY <1>1, <1>2, <1>3, <2>1 DEF IInv, Typed, TypeOK, Moves
<1> QED
  BY <1>4, <1>5, <1>6, EasesLemma

\* A call of Read, Write, Handshake, CloseWrite or Close begins.
LEMMA BeginInv ==
  ASSUME IInv, NEW p \in Procs, Begin(p)
  PROVE  IInv'
<1>1. th \in [Procs -> Thread]
  BY DEF IInv, Typed
<1>2. ASSUME NEW o, Called(p, o)
      PROVE  th[p].pc = "idle" /\ calls' \in [Procs -> Nat]
  BY <1>2 DEF Called, At, IInv, Typed, TypeOK
<1>3. CASE Write(p)
  <2>1. /\ th[p].pc = "idle" /\ calls' \in [Procs -> Nat]
        /\ UNCHANGED <<cfg, complete, handshakeErr, handshakes, lock, closing, out, in, sock,
                       deadline, wire, peer, intr>>
    BY <1>2, <1>3 DEF Write, shake
  <2>2. CASE UNCHANGED <<active, th>>
    BY <2>1, <2>2, StillLemma DEF IInv, Typed, TypeOK, SockFails
  <2>3. CASE /\ active' = active + 1
             /\ th' = [th EXCEPT ![p] = [Idle EXCEPT !.op = "write", !.pc = "hs_fast"]]
    <3>1. PICK t : /\ Moves(p, t)
                   /\ Is(t, "write", "hs_fast", "none", "none", FALSE, "none", FALSE, <<>>)
      BY <1>1, <2>3, BeginMoves DEF Calling, Places
    <3> QED
      BY <2>1, <2>3, <3>1, WriteInv
  <2> QED
    BY <1>3, <2>2, <2>3 DEF Write
<1>4. CASE Close(p)
  <2>1. /\ th[p].pc = "idle" /\ calls' \in [Procs -> Nat]
        /\ UNCHANGED <<cfg, complete, handshakeErr, handshakes, lock, active, out, in, sock,
                       deadline, wire, peer, intr>>
    BY <1>2, <1>4 DEF Close, shake
  <2>2. CASE UNCHANGED <<closing, th>>
    BY <2>1, <2>2, StillLemma DEF IInv, Typed, TypeOK, SockFails
  <2>3. CASE /\ closing' = TRUE
             /\ th' = [th EXCEPT ![p] = [Idle EXCEPT !.op = "close", !.pc = CloseGoesTo]]
    <3>1. CloseGoesTo \in {"load", "shut"}
      BY DEF CloseGoesTo
    <3>2. PICK t : /\ Moves(p, t)
                   /\ Is(t, "close", CloseGoesTo, "none", "none", FALSE, "none", FALSE, <<>>)
      BY <1>1, <2>3, <3>1, BeginMoves DEF Calling, Places
    <3> QED
      BY <2>1, <2>3, <3>1, <3>2, CallInv
  <2> QED
    BY <1>4, <2>2, <2>3 DEF Close
<1>5. ASSUME NEW o, NEW l,
             \/ o = "closewrite" /\ l = "load"
             \/ o \in {"read", "handshake"} /\ l = "hs_fast"
             \/ o = "state" /\ l = "state",
             Call(p, o, l)
      PROVE  IInv'
  <2>1. /\ th[p].pc = "idle" /\ calls' \in [Procs -> Nat]
        /\ UNCHANGED <<cfg, complete, handshakeErr, handshakes, lock, active, closing, out, in,
                       sock, deadline, wire, peer, intr>>
    BY <1>2, <1>5 DEF Call, shake, interlock
  <2>2. PICK t : Moves(p, t) /\ Is(t, o, l, "none", "none", FALSE, "none", FALSE, <<>>)
    BY <1>1, <1>5, BeginMoves DEF Call, Calling, Places
  <2> QED
    BY <1>5, <2>1, <2>2, CallInv
<1> QED
  BY <1>3, <1>4, <1>5 DEF Begin, CloseWrite, Read, HandshakeContext, ConnectionState

-----------------------------------------------------------------------------
(* The steps of a goroutine that only move it on *)

\* The steps of a call that touch neither locks nor records.
LEMMA CloseStepsInv ==
  ASSUME IInv, NEW p \in Procs,
         GetState(p) \/ LoadComplete(p) \/ Shut(p) \/ SendRefused(p)
  PROVE  IInv'
<1> USE DEF Eased, Eases, Shape, Is, AtSend, HoldsIn, HoldsHs, HoldsOut, Holds, Watched, Shaking,
            Aside, Tame, Calm, SockFails, Condemning, Greeted, Reading, Healthy
<1>1. th \in [Procs -> Thread] /\ Limited
  BY DEF IInv, Typed
<1>2. CASE GetState(p) \/ Shut(p) \/ SendRefused(p)
  <2>1. PICK l \in {"end", "shut"} :
          /\ Go(p, l) /\ (l = "shut" => th[p].op = "close" /\ th[p].pc = "out")
          /\ \/ th[p].pc \in {"state", "shut"}
             \/ th[p].pc = "out" /\ th[p].send \in {"data", "close_notify"}
    BY <1>2 DEF GetState, Shut, SendRefused, Refused, AfterNotify, At
  <2>2. /\ sock' \in {sock, "closed"}
        /\ UNCHANGED <<cfg, complete, handshakeErr, handshakes, lock, active, closing, out, in,
                       deadline, wire, peer, calls, intr>>
    BY <1>2 DEF GetState, Shut, SendRefused, shake, interlock
  <2>3. PICK t : /\ Moves(p, t)
                 /\ Is(t, th[p].op, l, th[p].send, th[p].stage, th[p].reneg, th[p].alert,
                       th[p].inerr, th[p].chunk)
    BY <1>1, <2>1, GoMoves DEF Places
  <2>4. Eased(p, t)
    BY <1>1, <2>1, <2>2, <2>3, Known DEF Limited
  <2>5. Typed'
    BY <2>2, <2>3 DEF IInv, Typed, TypeOK, Moves
  <2> QED
    BY <2>4, <2>5, EasedLemma
<1>3. CASE LoadComplete(p)
  <2>1. /\ th[p].pc = "load"
        /\ UNCHANGED <<cfg, complete, handshakeErr, handshakes, lock, active, closing, out, in,
                       sock, deadline, wire, peer, calls, intr>>
    BY <1>3 DEF LoadComplete, At, shake, interlock
  <2>2. CASE complete
    <3>1. PICK t : /\ Moves(p, t)
                   /\ Is(t, th[p].op, "out", "close_notify", th[p].stage, th[p].reneg,
                         th[p].alert, th[p].inerr, th[p].chunk)
      BY <1>1, <1>3, <2>2, SendingMoves DEF LoadComplete, OutKinds
    <3>2. Eased(p, t)
      BY <1>1, <2>1, <3>1, Known DEF Limited
    <3>3. Typed'
      BY <2>1, <3>1 DEF IInv, Typed, TypeOK, Moves
    <3> QED
      BY <3>2, <3>3, EasedLemma
  <2>3. CASE ~complete
    <3>1. PICK l \in {"end", "shut"} : Go(p, l)
      BY <1>3, <2>3 DEF LoadComplete, Go
    <3>2. PICK t : /\ Moves(p, t)
                   /\ Is(t, th[p].op, l, th[p].send, th[p].stage, th[p].reneg, th[p].alert,
                         th[p].inerr, th[p].chunk)
      BY <1>1, <3>1, GoMoves DEF Places
    <3>3. Eased(p, t)
      BY <1>1, <2>1, <3>2, Known DEF Limited
    <3>4. Typed'
      BY <2>1, <3>2 DEF IInv, Typed, TypeOK, Moves
    <3> QED
      BY <3>3, <3>4, EasedLemma
  <2> QED
    BY <2>2, <2>3
<1> QED
  BY <1>2, <1>3

\* The interrupter and the caller's context.
LEMMA InterruptInv ==
  ASSUME IInv, NEW p \in Procs, Interrupt(p) \/ Cancel(p)
  PROVE  IInv'
<1>1. UNCHANGED <<cfg, complete, handshakeErr, handshakes, lock, active, closing, out, in,
                  deadline, wire, peer, th, calls>>
  BY DEF Interrupt, Cancel, shake, interlock
<1>2. sock' \in {sock, "closed"}
  BY DEF Interrupt, Cancel, InterruptCloses
<1>3. /\ intr' \in [Procs -> Watcher]
      /\ \A q \in Procs : intr'[q].state # "none" => intr[q].state # "none"
  <2>1. CASE Interrupt(p)
    <3>1. /\ intr[p].state \in {"waiting", "told"}
          /\ \/ intr' = [intr EXCEPT ![p].state = "fired"]
             \/ intr' = [intr EXCEPT ![p].state = "quiet"]
      BY <2>1 DEF Interrupt
    <3>2. PICK s \in {"fired", "quiet"} : intr' = [intr EXCEPT ![p].state = s]
      BY <3>1
    <3>3. intr \in [Procs -> Watcher]
      BY DEF IInv, Typed, TypeOK
    <3>4. intr' \in [Procs -> Watcher]
      BY <3>2, <3>3 DEF Watcher
    <3> QED
      BY <3>1, <3>2, <3>3, <3>4
  <2>2. CASE Cancel(p)
    <3>1. PICK b \in BOOLEAN : b = complete
      BY DEF IInv, Typed, TypeOK
    <3>2. intr' = [intr EXCEPT ![p].cancelled = TRUE, ![p].late = b]
      BY <2>2, <3>1 DEF Cancel
    <3> QED
      BY <3>2 DEF IInv, Typed, TypeOK, Watcher
  <2> QED
    BY <2>1, <2>2
<1>4. Typed'
  BY <1>1, <1>2, <1>3 DEF IInv, Typed, TypeOK
<1> QED
  BY <1>1, <1>2, <1>3, <1>4, StillLemma DEF SockFails

\* handshakeContext around the handshake itself.
LEMMA ContextInv ==
  ASSUME IInv, NEW p \in Procs,
         HandshakeFast(p) \/ HandshakeLockIn(p) \/ HandshakeDone(p) \/ HandshakeResult(p)
  PROVE  IInv'
<1> USE DEF Eased, Eases, Shape, Is, AtSend, HoldsIn, HoldsHs, HoldsOut, Holds, Watched, Shaking,
            Aside, Tame, Calm, SockFails, Condemning, Greeted, Reading, Healthy
<1>1. th \in [Procs -> Thread] /\ Limited /\ intr \in [Procs -> Watcher]
  BY DEF IInv, Typed, TypeOK
<1>2. CASE HandshakeFast(p)
  <2>1. /\ th[p].pc = "hs_fast" /\ th[p].op \in {"read", "write", "handshake"}
        /\ intr[p].state = "none"
        /\ UNCHANGED <<cfg, complete, handshakeErr, handshakes, lock, active, closing, out, in,
                       sock, deadline, wire, peer, calls>>
    BY <1>2, Known DEF HandshakeFast, At, shake, interlock
  <2>2. CASE complete /\ th' = AfterHandshake(p, TRUE) /\ UNCHANGED intr
    <3>1. PICK t :
            /\ Moves(p, t)
            /\ Is(t, th[p].op, t.pc, IF th[p].op = "write" THEN "data" ELSE "none", "none",
                  th[p].reneg, th[p].alert, th[p].inerr, th[p].chunk)
            /\ IF Interrupted(p) THEN t.pc = "hs_done"
               ELSE IF ~TRUE \/ th[p].op = "handshake" THEN t.pc = "end"
               ELSE IF th[p].op = "read" THEN t.pc = "in" ELSE t.pc = "out"
      BY <1>1, <2>1, <2>2, AfterHandshakeMoves
    <3>2. Eased(p, t)
      BY <1>1, <2>1, <2>2, <3>1, Known DEF Limited, Interrupted
    <3>3. Typed'
      BY <2>1, <2>2, <3>1 DEF IInv, Typed, TypeOK, Moves
    <3> QED
      BY <3>2, <3>3, EasedLemma
  <2>3. CASE /\ ~complete /\ Go(p, "hs_mutex")
             /\ intr' = IF th[p].op = "handshake"
                        THEN [intr EXCEPT ![p].state = "waiting"] ELSE intr
    <3>1. PICK t : /\ Moves(p, t)
                   /\ Is(t, th[p].op, "hs_mutex", th[p].send, th[p].stage, th[p].reneg,
                         th[p].alert, th[p].inerr, th[p].chunk)
      BY <1>1, <2>3, GoMoves DEF Places
    <3>2. /\ intr' \in [Procs -> Watcher] /\ \A q \in Procs : q # p => intr'[q] = intr[q]
          /\ intr'[p].state # "none" => th[p].op = "handshake"
      BY <1>1, <2>1, <2>3 DEF Watcher
    <3>3. Eased(p, t)
      BY <1>1, <2>1, <3>1, <3>2, Known DEF Limited
    <3>4. Typed'
      BY <2>1, <3>1, <3>2 DEF IInv, Typed, TypeOK, Moves
    <3> QED
      BY <3>3, <3>4, EasedLemma
  <2> QED
    BY <1>2, <2>2, <2>3 DEF HandshakeFast
<1>3. CASE HandshakeLockIn(p)
  <2>1. /\ th[p].pc = "hs_in" /\ lock.in = Free /\ lock' = [lock EXCEPT !.in = p]
        /\ UNCHANGED <<cfg, complete, handshakeErr, handshakes, active, closing, out, in,
                       sock, deadline, wire, peer, calls, intr>>
    BY <1>3 DEF HandshakeLockIn, At, shake, interlock
  <2>2. PICK t : /\ Moves(p, t)
                 /\ Is(t, th[p].op, "out", "hello", "sh", th[p].reneg, th[p].alert,
                       th[p].inerr, th[p].chunk)
    <3> DEFINE t == [th[p] EXCEPT !.pc = "out", !.send = "hello", !.stage = "sh"]
    <3>1. "hello" \in OutKinds /\ "out" \in Places
      BY DEF OutKinds, Places
    <3>2. t \in Thread
      BY <1>1, <3>1 DEF Thread
    <3>3. Is(t, th[p].op, "out", "hello", "sh", th[p].reneg, th[p].alert, th[p].inerr,
             th[p].chunk)
      BY <1>1 DEF Thread
    <3>4. th' = [th EXCEPT ![p] = t]
      BY <1>1, <1>3 DEF HandshakeLockIn, Sending
    <3> QED
      BY <3>2, <3>3, <3>4 DEF Moves
  <2>3. /\ lock' \in LockState /\ lock'.in = p /\ lock'.hs = lock.hs /\ lock'.out = lock.out
        /\ \A q \in Procs : lock.in # q
    BY <2>1, Known DEF LockState
  <2>4. Eased(p, t)
    BY <1>1, <2>1, <2>2, <2>3, Known DEF Limited
  <2>5. Typed'
    BY <2>1, <2>2, <2>3 DEF IInv, Typed, TypeOK, Moves
  <2> QED
    BY <2>4, <2>5, EasedLemma
<1>4. CASE HandshakeDone(p) \/ HandshakeResult(p)
  <2>1. PICK l \in {"hs_wait", "end"} :
          /\ Go(p, l) /\ th[p].pc \in {"hs_done", "hs_wait"}
          /\ \E s \in {"none", "told", "fired", "quiet"} :
                /\ intr' = [intr EXCEPT ![p].state = s]
                /\ s # "none" => l # "end" /\ intr[p].state # "none"
    <3>1. CASE HandshakeDone(p)
      <4>1. intr' = [intr EXCEPT ![p].state =
                       IF intr[p].state = "waiting" THEN "told" ELSE intr[p].state]
        BY <3>1 DEF HandshakeDone
      <4>2. intr[p].state \in {"none", "waiting", "told", "fired", "quiet"}
        BY <1>1 DEF Watcher
      <4> QED
        BY <3>1, <4>1, <4>2 DEF HandshakeDone, At
    <3>2. CASE HandshakeResult(p)
      BY <3>2 DEF HandshakeResult, At
    <3> QED
      BY <1>4, <3>1, <3>2
  <2>2. UNCHANGED <<cfg, complete, handshakeErr, handshakes, lock, active, closing, out, in,
                    sock, deadline, wire, peer, calls>>
    BY <1>4 DEF HandshakeDone, HandshakeResult, shake, interlock
  <2>3. PICK t : /\ Moves(p, t)
                 /\ Is(t, th[p].op, l, th[p].send, th[p].stage, th[p].reneg, th[p].alert,
                       th[p].inerr, th[p].chunk)
    BY <1>1, <2>1, GoMoves DEF Places
  <2>4. /\ intr' \in [Procs -> Watcher] /\ \A q \in Procs : q # p => intr'[q] = intr[q]
        /\ intr'[p].state # "none" => l # "end" /\ intr[p].state # "none"
    BY <1>1, <2>1 DEF Watcher
  <2>5. Eased(p, t)
    BY <1>1, <2>1, <2>2, <2>3, <2>4, Known DEF Limited
  <2>6. Typed'
    BY <2>2, <2>3, <2>4 DEF IInv, Typed, TypeOK, Moves
  <2> QED
    BY <2>5, <2>6, EasedLemma
<1> QED
  BY <1>2, <1>3, <1>4

-----------------------------------------------------------------------------
(* Reading *)

\* As long as in.err is not set retryCount is within its limit.
LEMMA RoomLeft ==
  ASSUME IInv, NEW p \in Procs, HoldsIn(th[p]), ~Condemning(th[p]), in.err = "none"
  PROVE  in.retry \in 0 .. MaxUseless
<1>1. \A q \in Procs : Condemning(th[q]) => HoldsIn(th[q])
  BY DEF Condemning, HoldsIn
<1>2. \A q \in Procs : HoldsIn(th[q]) => q = p
  BY DEF IInv, Control, Holds
<1>3. ~(in.retry > MaxUseless)
  BY <1>1, <1>2 DEF IInv, Limited
<1>4. in.retry \in 0 .. (MaxUseless + 1) /\ MaxUseless \in Nat
  BY ConnAssumption DEF IInv, Typed, TypeOK, InState, Tries
<1> QED
  BY <1>3, <1>4

\* The types of the fields of in.
LEMMA InTypes ==
  ASSUME NEW i \in InState
  PROVE  /\ i.seq \in Nat /\ i.epoch \in Nat /\ i.retry \in Tries
         /\ i.hand \in Seq(Pieces) /\ i.input \in BOOLEAN
BY DEF InState

\* The fields of in change one at a time; err and retry matter to others.
LEMMA InSeq ==
  ASSUME NEW i \in InState, NEW n \in Nat
  PROVE  /\ [i EXCEPT !.seq = n] \in InState
         /\ [i EXCEPT !.seq = n].err = i.err /\ [i EXCEPT !.seq = n].retry = i.retry
BY DEF InState

\* retryCount changes.
LEMMA InRetry ==
  ASSUME NEW i \in InState, NEW n \in Tries
  PROVE  /\ [i EXCEPT !.retry = n] \in InState
         /\ [i EXCEPT !.retry = n].err = i.err /\ [i EXCEPT !.retry = n].retry = n
BY DEF InState

\* The buffered handshake messages change.
LEMMA InHand ==
  ASSUME NEW i \in InState, NEW h \in Seq(Pieces)
  PROVE  /\ [i EXCEPT !.hand = h] \in InState
         /\ [i EXCEPT !.hand = h].err = i.err /\ [i EXCEPT !.hand = h].retry = i.retry
BY DEF InState

\* A record's data becomes input for Read.
LEMMA InInput ==
  ASSUME NEW i \in InState
  PROVE  /\ [i EXCEPT !.input = TRUE] \in InState
         /\ [i EXCEPT !.input = TRUE].err = i.err /\ [i EXCEPT !.input = TRUE].retry = i.retry
BY DEF InState

\* The read keys change: the number restarts, err and retryCount stay.
LEMMA InRekey ==
  ASSUME NEW i \in InState
  PROVE  Rekey(i) \in InState /\ Rekey(i).err = i.err /\ Rekey(i).retry = i.retry
<1>1. i.epoch + 1 \in Nat
  BY InTypes
<1>2. PICK n \in Nat : n = i.epoch + 1
  BY <1>1
<1>3. /\ [i EXCEPT !.epoch = n] \in InState
      /\ [i EXCEPT !.epoch = n].err = i.err /\ [i EXCEPT !.epoch = n].retry = i.retry
  BY DEF InState
<1>4. PICK j \in InState : j = [i EXCEPT !.epoch = n] /\ j.err = i.err /\ j.retry = i.retry
  BY <1>3
<1>5. PICK z \in Nat : z = 0
  OBVIOUS
<1>6. Rekey(i) = [j EXCEPT !.seq = z]
  BY <1>2, <1>4, <1>5 DEF Rekey
<1>7. [j EXCEPT !.seq = z] \in InState
  BY <1>4, InSeq
<1>8. [j EXCEPT !.seq = z].err = j.err /\ [j EXCEPT !.seq = z].retry = j.retry
  BY <1>4, InSeq
<1> QED
  BY <1>4, <1>6, <1>7, <1>8

\* A record's kind gives the handshake messages in it.
LEMMA MessagesType ==
  ASSUME NEW k
  PROVE  Messages(k) \in Seq(Pieces)
<1>1. CASE k = "tickets"
  <2>1. Messages(k) = <<"ticket", "ticket">>
    BY <1>1 DEF Messages
  <2> QED
    BY <2>1 DEF Pieces
<1>2. CASE k \in Pieces
  <2>1. Messages(k) = <<k>>
    BY <1>2 DEF Messages, Pieces
  <2> QED
    BY <1>2, <2>1
<1>3. CASE k # "tickets" /\ k \notin Pieces
  <2>1. Messages(k) = <<>>
    BY <1>3 DEF Messages, Pieces
  <2> QED
    BY <2>1
<1> QED
  BY <1>1, <1>2, <1>3

\* The rest of a split message joins what is buffered.
LEMMA JoinedType ==
  ASSUME NEW h \in Seq(Pieces), NEW m \in Seq(Pieces)
  PROVE  Joined(h, m) \in Seq(Pieces)
<1>1. h # <<>> => Front(h) \in Seq(Pieces)
  BY DEF Front
<1>2. "ticket" \in Pieces
  BY DEF Pieces
<1> QED
  BY <1>1, <1>2 DEF Joined

\* ReadLock, ReadLoop, UseNothing and Fail pass in.Mutex and input around.
LEMMA ReadStepsInv ==
  ASSUME IInv, NEW p \in Procs, ReadLock(p) \/ ReadLoop(p) \/ UseNothing(p) \/ Fail(p)
  PROVE  IInv'
<1> USE DEF Eased, Eases, Shape, Is, AtSend, HoldsIn, HoldsHs, HoldsOut, Holds, Watched, Shaking,
            Aside, Tame, Calm, SockFails, Condemning, Greeted, Reading, Healthy
<1>1. th \in [Procs -> Thread] /\ Limited /\ in \in InState /\ lock \in LockState
  BY DEF IInv, Typed, TypeOK
<1>2. /\ UNCHANGED <<cfg, complete, handshakeErr, handshakes, active, closing, out, sock,
                     deadline, wire, peer, calls, intr>>
      /\ in' \in InState /\ in'.err = in.err /\ in'.retry = in.retry
  <2>1. UNCHANGED <<cfg, complete, handshakeErr, handshakes, active, closing, out, sock,
                    deadline, wire, peer, calls, intr>>
    BY DEF ReadLock, ReadLoop, UseNothing, Fail, shake, interlock
  <2>2. in' = in \/ \E more \in BOOLEAN : in' = [in EXCEPT !.input = more]
    BY DEF ReadLock, ReadLoop, UseNothing, Fail
  <2> QED
    BY <1>1, <2>1, <2>2 DEF InState
<1>3. CASE ReadLock(p)
  <2>1. th[p].pc = "in" /\ lock.in = Free /\ lock' = [lock EXCEPT !.in = p] /\ Go(p, "loop")
    BY <1>3 DEF ReadLock, At
  <2>2. PICK t : /\ Moves(p, t)
                 /\ Is(t, th[p].op, "loop", th[p].send, th[p].stage, th[p].reneg, th[p].alert,
                       th[p].inerr, th[p].chunk)
    BY <1>1, <2>1, GoMoves DEF Places
  <2>3. /\ lock' \in LockState /\ lock'.in = p /\ lock'.hs = lock.hs /\ lock'.out = lock.out
        /\ \A q \in Procs : lock.in # q
    BY <2>1, Known DEF LockState
  <2>4. Eased(p, t)
    BY <1>1, <1>2, <2>1, <2>2, <2>3, Known DEF Limited
  <2>5. Typed'
    BY <1>2, <2>2, <2>3 DEF IInv, Typed, TypeOK, Moves
  <2> QED
    BY <2>4, <2>5, EasedLemma
\* in.Mutex is kept.
<1>4. ASSUME NEW t, Moves(p, t), lock' = lock, NEW l, NEW g,
             Is(t, th[p].op, l, th[p].send, g, th[p].reneg, th[p].alert, th[p].inerr,
                th[p].chunk),
             \/ th[p].pc = "fail" /\ l = "hs_fail" /\ th[p].stage \in Shaking /\ g = th[p].stage
             \/ th[p].pc = "loop" /\ l = "rec" /\ g \in {"none", "predict"}
             \/ /\ th[p].pc = "use" /\ l = "loop"
                /\ th[p].stage = "none" /\ g = "none"
             \/ /\ th[p].pc = "use" /\ l = "use"
                /\ th[p].stage = "ccs" /\ g = "fin"
             \/ th[p].pc = "use" /\ l = "rec" /\ g = th[p].stage
      PROVE  IInv'
  <2>1. Eased(p, t)
    BY <1>1, <1>2, <1>4, Known DEF Limited
  <2>2. Typed'
    BY <1>2, <1>4 DEF IInv, Typed, TypeOK, Moves
  <2> QED
    BY <2>1, <2>2, EasedLemma
\* in.Mutex is released.
<1>5. ASSUME Go(p, "end"), lock' = [lock EXCEPT !.in = Free],
             th[p].pc \in {"fail", "loop", "use"}, th[p].stage \in {"none", "predict"}
      PROVE  IInv'
  <2>1. PICK t : /\ Moves(p, t)
                 /\ Is(t, th[p].op, "end", th[p].send, th[p].stage, th[p].reneg, th[p].alert,
                       th[p].inerr, th[p].chunk)
    BY <1>1, <1>5, GoMoves DEF Places
  <2>2. /\ lock' \in LockState /\ lock'.in = Free /\ lock'.hs = lock.hs /\ lock'.out = lock.out
    BY <1>1, <1>5 DEF LockState
  <2>3. lock.in = p
    BY <1>5, Known
  <2>4. Eased(p, t)
    BY <1>1, <1>2, <1>5, <2>1, <2>2, <2>3, Known DEF Limited
  <2>5. Typed'
    BY <1>2, <2>1, <2>2 DEF IInv, Typed, TypeOK, Moves
  <2> QED
    BY <2>4, <2>5, EasedLemma
<1>6. ASSUME NEW l \in Places, Go(p, l)
      PROVE  \E t : /\ Moves(p, t)
                    /\ Is(t, th[p].op, l, th[p].send, th[p].stage, th[p].reneg, th[p].alert,
                          th[p].inerr, th[p].chunk)
  BY <1>1, <1>6, GoMoves
<1>7. CASE ReadLoop(p)
  <2>1. th[p].pc = "loop" /\ th[p].stage = "none"
    BY <1>7, Known DEF ReadLoop, At
  <2>2. CASE Go(p, "rec") /\ UNCHANGED lock
    BY <1>4, <1>6, <2>1, <2>2 DEF Places
  <2>3. CASE Go(p, "end") /\ lock' = [lock EXCEPT !.in = Free]
    BY <1>5, <2>1, <2>3
  <2>4. CASE th' = [th EXCEPT ![p].pc = "rec", ![p].stage = "predict"] /\ UNCHANGED lock
    <3> DEFINE t == [th[p] EXCEPT !.pc = "rec", !.stage = "predict"]
    <3>1. t \in Thread
      <4>1. "rec" \in Places /\ "predict" \in Shaking \cup {"none", "failed", "predict"}
        BY DEF Places
      <4> HIDE DEF Shaking
      <4> QED
        BY <1>1, <4>1 DEF Thread
    <3>2. Is(t, th[p].op, "rec", th[p].send, "predict", th[p].reneg, th[p].alert, th[p].inerr,
             th[p].chunk)
      BY <1>1 DEF Thread
    <3>3. Moves(p, t)
      BY <1>1, <2>4, <3>1 DEF Moves
    <3> HIDE DEF t
    <3> QED
      BY <1>4, <2>1, <2>4, <3>2, <3>3
  <2> QED
    BY <1>7, <2>2, <2>3, <2>4 DEF ReadLoop
<1>8. CASE UseNothing(p)
  <2>1. th[p].pc = "use"
    BY <1>8 DEF UseNothing, At
  <2>2. CASE th[p].stage = "none" /\ Go(p, "loop") /\ UNCHANGED lock
    BY <1>4, <1>6, <2>1, <2>2 DEF Places
  <2>3. CASE th[p].stage = "predict" /\ Go(p, "end") /\ lock' = [lock EXCEPT !.in = Free]
    BY <1>5, <2>1, <2>3
  <2>4. CASE th[p].stage = "ccs" /\ th' = [th EXCEPT ![p].stage = "fin"] /\ UNCHANGED lock
    <3> DEFINE t == [th[p] EXCEPT !.stage = "fin"]
    <3>1. t \in Thread
      BY <1>1 DEF Thread
    <3>2. Is(t, th[p].op, "use", th[p].send, "fin", th[p].reneg, th[p].alert, th[p].inerr,
             th[p].chunk)
      BY <1>1, <2>1 DEF Thread
    <3>3. Moves(p, t)
      BY <1>1, <2>4, <3>1 DEF Moves
    <3> HIDE DEF t
    <3> QED
      BY <1>4, <2>1, <2>4, <3>2, <3>3
  <2>5. CASE Go(p, "rec") /\ UNCHANGED lock
    BY <1>4, <1>6, <2>1, <2>5 DEF Places
  <2> QED
    BY <1>8, <2>2, <2>3, <2>4, <2>5 DEF UseNothing
<1>9. CASE Fail(p)
  <2>1. th[p].pc = "fail"
    BY <1>9 DEF Fail, At
  <2>2. CASE th[p].stage \in Shaking /\ Go(p, "hs_fail") /\ UNCHANGED lock
    BY <1>4, <1>6, <2>1, <2>2 DEF Places
  <2>3. CASE /\ th[p].stage \in {"none", "predict"}
             /\ Go(p, "end") /\ lock' = [lock EXCEPT !.in = Free]
    BY <1>5, <2>1, <2>3
  <2> QED
    BY <1>9, <2>2, <2>3 DEF Fail
<1> QED
  BY <1>3, <1>7, <1>8, <1>9

\* ReadError: the error stays.
LEMMA ReadErrorInv ==
  ASSUME IInv, NEW p \in Procs, ReadError(p)
  PROVE  IInv'
<1>1. th \in [Procs -> Thread] /\ in \in InState
  BY DEF IInv, Typed, TypeOK
<1>2. /\ th[p].pc = "rec" /\ Go(p, "fail")
      /\ UNCHANGED <<cfg, complete, handshakeErr, handshakes, lock, active, closing, out, sock,
                     deadline, wire, peer, calls, intr>>
  BY DEF ReadError, At, shake, interlock
<1>3. in' \in InState /\ in'.err # "none" /\ in'.retry = in.retry
  <2>1. \/ in' = in /\ in.err # "none"
        \/ in' = [in EXCEPT !.err = "internal"]
        \/ in' = [in EXCEPT !.err = "io"]
    BY DEF ReadError
  <2> QED
    BY <1>1, <2>1 DEF InState
<1>4. PICK t : /\ Moves(p, t)
               /\ Is(t, th[p].op, "fail", th[p].send, th[p].stage, th[p].reneg, th[p].alert,
                     th[p].inerr, th[p].chunk)
  BY <1>1, <1>2, GoMoves DEF Places
<1>5. Eased(p, t)
  BY <1>1, <1>2, <1>3, <1>4, Known
     DEF Eased, Eases, Shape, Is, AtSend, HoldsIn, HoldsHs, HoldsOut, Holds, Watched, Shaking,
         Aside, Tame, Calm, SockFails, Condemning, Greeted, Reading, Healthy
<1>6. Typed'
  BY <1>2, <1>3, <1>4 DEF IInv, Typed, TypeOK, Moves
<1> QED
  BY <1>5, <1>6, EasedLemma

\* The steps that end a record or a message: on to the next, to an alert, to
\* the error of the caller, or to an answer.
LEMMA InputInv ==
  ASSUME IInv, NEW p \in Procs, NEW t, Moves(p, t),
         th[p].pc \in {"rec", "use"}, in' \in InState, peer' \in PeerType,
         peer'.reset = peer.reset /\ peer'.reads = peer.reads /\ peer'.eof = peer.eof,
         UNCHANGED <<cfg, complete, handshakeErr, handshakes, lock, active, closing, out, sock,
                     deadline, wire, calls, intr>>,
         in.err = "none" \/ (th[p].pc = "use" /\ in'.err = in.err),
         NEW l, NEW k, NEW a, NEW e,
         Is(t, th[p].op, l, k, th[p].stage, th[p].reneg, a, e, th[p].chunk),
         \/ l \in {"rec", "use"} /\ in'.err = in.err /\ in'.retry <= MaxUseless
         \/ l = "use" /\ in'.err = in.err /\ in'.retry = in.retry /\ th[p].pc = "use"
         \/ l = "fail" /\ in'.err # "none"
         \/ l = "reneg" /\ in'.err = in.err /\ in'.retry = in.retry
            /\ MayRenegotiate /\ ~cfg.v13 /\ th[p].stage = "none"
         \/ l = "out" /\ k = "ku" /\ in'.err = in.err /\ in'.retry <= MaxUseless
            /\ th[p].stage = "none"
         \/ l = "out" /\ k \in {"fin", "ccs"} /\ in'.err = in.err /\ in'.retry = in.retry
            /\ th[p].stage = "flight"
         \/ l = "out" /\ k = "alert" /\ a # "none" /\ in'.err = in.err
            /\ (in'.retry > MaxUseless => e \/ in'.retry = in.retry)
  PROVE  IInv'
<1>0. in'.retry \in Nat /\ MaxUseless \in Nat
  BY ConnAssumption DEF InState, Tries
<1>1. Eased(p, t)
  <2> USE DEF Shape, Is, AtSend, HoldsIn, HoldsHs, HoldsOut, Shaking
  <2>1. Shape(t)
    BY Known
  <2>2. Watched(t, intr'[p]) /\ Holds(t, lock', p)
    BY Known DEF Holds, Watched
  <2>3. Tame(p, t)
    BY DEF Tame, Calm, SockFails
  <2>4. Aside(p, t)
    BY <1>0, <2>3, Known DEF Aside, Tame, Condemning, Greeted, Reading, Healthy, Holds
  <2> QED
    BY <2>1, <2>2, <2>3, <2>4, Known DEF Eased, Eases
<1>2. Typed'
  BY DEF IInv, Typed, TypeOK, Moves, PeerType, TheirKinds
<1> QED
  BY <1>1, <1>2, EasedLemma

\* readRecordOrCCS
LEMMA ReadRecordInv ==
  ASSUME IInv, NEW p \in Procs, ReadRecord(p)
  PROVE  IInv'
<1> DEFINE r == Head(peer.queue)
           i == IF Skipped(r) THEN in ELSE [in EXCEPT !.seq = @ + 1]
           j == IF Useless(r) THEN i ELSE [i EXCEPT !.retry = 0]
<1>1. th \in [Procs -> Thread] /\ in \in InState /\ peer \in PeerType /\ MaxUseless \in Nat
  BY ConnAssumption DEF IInv, Typed, TypeOK
<1>2. /\ th[p].pc = "rec" /\ in.err = "none" /\ HandleRecord(p, r)
      /\ peer' = [peer EXCEPT !.queue = Tail(@)] /\ peer.queue # <<>>
      /\ UNCHANGED <<cfg, complete, handshakeErr, handshakes, lock, active, closing, out, sock,
                     deadline, wire, calls, intr>>
  BY DEF ReadRecord, At, shake, interlock
<1>3. /\ peer' \in PeerType
      /\ peer'.reset = peer.reset /\ peer'.reads = peer.reads /\ peer'.eof = peer.eof
  <2>1. Tail(peer.queue) \in Seq(Records(TheirKinds))
    BY <1>1, <1>2 DEF PeerType
  <2> QED
    BY <1>1, <1>2, <2>1 DEF PeerType
<1>4. in.retry \in 0 .. MaxUseless
  BY <1>2, RoomLeft DEF HoldsIn, Condemning, AtSend
<1>5. j \in InState /\ j.err = "none" /\ j.retry \in 0 .. MaxUseless
  <2>1. i \in InState /\ i.err = "none" /\ i.retry = in.retry
    <3>1. in.seq + 1 \in Nat
      BY <1>1, InTypes
    <3> QED
      BY <1>1, <1>2, <3>1, InSeq
  <2>2. 0 \in Tries
    BY <1>1 DEF Tries
  <2> HIDE DEF i
  <2> QED
    BY <1>1, <1>4, <2>1, <2>2, InRetry
<1>6. \/ in' = in /\ th' = Alerting(p, "bad_mac", TRUE)
      \/ in' = j /\ th' = Alerting(p, "unexpected", TRUE)
      \/ r.k \in {"close_notify", "fatal"} /\ in' = [j EXCEPT !.err = r.k] /\ Go(p, "fail")
      \/ Retry(p, j)
      \/ in' = Rekey(j) /\ Go(p, "use")
      \/ in' = [j EXCEPT !.input = TRUE] /\ Go(p, "use")
      \/ in' = [j EXCEPT !.hand = Joined(@, Messages(r.k))] /\ Go(p, "use")
  BY <1>2 DEF HandleRecord
<1> HIDE DEF j
<1>7. ASSUME NEW a \in Alerts \ {"none"}, th' = Alerting(p, a, TRUE), in' \in InState,
             in'.err = "none"
      PROVE  IInv'
  <2>1. PICK t : /\ Moves(p, t)
                 /\ Is(t, th[p].op, "out", "alert", th[p].stage, th[p].reneg, a, TRUE, th[p].chunk)
    BY <1>1, <1>7, AlertingMoves
  <2> QED
    BY <1>2, <1>3, <1>7, <2>1, InputInv
<1>8. ASSUME NEW l \in {"rec", "use", "fail"}, Go(p, l), in' \in InState,
             IF l = "fail" THEN in'.err # "none"
                           ELSE in'.err = "none" /\ in'.retry <= MaxUseless
      PROVE  IInv'
  <2>1. PICK t : /\ Moves(p, t)
                 /\ Is(t, th[p].op, l, th[p].send, th[p].stage, th[p].reneg, th[p].alert,
                       th[p].inerr, th[p].chunk)
    BY <1>1, <1>8, GoMoves DEF Places
  <2> QED
    BY <1>2, <1>3, <1>8, <2>1, InputInv
<1>9. CASE th' = Alerting(p, "bad_mac", TRUE) /\ in' = in
  BY <1>1, <1>2, <1>7, <1>9 DEF Alerts
<1>10. CASE in' = j /\ th' = Alerting(p, "unexpected", TRUE)
  BY <1>5, <1>7, <1>10 DEF Alerts
<1>11. CASE r.k \in {"close_notify", "fatal"} /\ in' = [j EXCEPT !.err = r.k] /\ Go(p, "fail")
  <2>1. in' \in InState /\ in'.err # "none"
    BY <1>5, <1>11 DEF InState
  <2> QED
    BY <1>8, <1>11, <2>1
<1>12. CASE Retry(p, j)
  <2>1. in' = [j EXCEPT !.retry = @ + 1]
    BY <1>12 DEF Retry
  <2>2. in' \in InState /\ in'.err = "none" /\ in'.retry = j.retry + 1
    <3>1. j.retry + 1 \in Tries
      BY <1>1, <1>5 DEF Tries
    <3> QED
      BY <1>5, <2>1, <3>1, InRetry
  <2>3. CASE TooMany(j.retry + 1)
    BY <1>7, <1>12, <2>2, <2>3 DEF Retry, Alerts
  <2>4. CASE ~TooMany(j.retry + 1)
    <3>1. in'.retry <= MaxUseless
      BY <1>1, <1>5, <2>2, <2>4 DEF TooMany
    <3> QED
      BY <1>8, <1>12, <2>2, <2>4, <3>1 DEF Retry, Go
  <2> QED
    BY <2>3, <2>4
<1>13. CASE in' = Rekey(j) /\ Go(p, "use")
  <2>1. in' \in InState /\ in'.err = "none" /\ in'.retry <= MaxUseless
    BY <1>1, <1>5, <1>13, InRekey
  <2> QED
    BY <1>8, <1>13, <2>1
<1>14. CASE in' = [j EXCEPT !.input = TRUE] /\ Go(p, "use")
  <2>1. in' \in InState /\ in'.err = "none" /\ in'.retry <= MaxUseless
    BY <1>1, <1>5, <1>14, InInput
  <2> QED
    BY <1>8, <1>14, <2>1
<1>15. CASE in' = [j EXCEPT !.hand = Joined(@, Messages(r.k))] /\ Go(p, "use")
  <2>1. j.hand \in Seq(Pieces)
    BY <1>5, InTypes
  <2>2. Joined(j.hand, Messages(r.k)) \in Seq(Pieces)
    BY <2>1, MessagesType, JoinedType
  <2>3. in' \in InState /\ in'.err = "none" /\ in'.retry <= MaxUseless
    BY <1>1, <1>5, <1>15, <2>2, InHand
  <2> QED
    BY <1>8, <1>15, <2>3
<1> QED
  BY <1>6, <1>9, <1>10, <1>11, <1>12, <1>13, <1>14, <1>15

\* The messages that do not end a handshake.
LEMMA MessageInv ==
  ASSUME IInv, NEW p \in Procs,
         TakeFlight(p) \/ RejectMessage(p) \/ PostHandshake(p) \/ HelloRequest(p)
  PROVE  IInv'
<1>1. /\ th \in [Procs -> Thread] /\ in \in InState /\ MaxUseless \in Nat
      /\ complete \in BOOLEAN /\ cfg.v13 \in BOOLEAN
  <2>1. cfg.v13 \in BOOLEAN
    BY ConnAssumption DEF IInv, Typed, TypeOK, Case
  <2> QED
    BY <2>1, ConnAssumption DEF IInv, Typed, TypeOK
<1>2. /\ th[p].pc = "use" /\ in.hand # <<>>
      /\ UNCHANGED <<cfg, complete, handshakeErr, handshakes, lock, active, closing, out, sock,
                     deadline, wire, peer, calls, intr>>
  BY DEF TakeFlight, RejectMessage, PostHandshake, HelloRequest, Message, At, shake, interlock
<1>3. peer' \in PeerType
  BY <1>2 DEF IInv, Typed
<1>4. Taken \in InState /\ Taken.err = in.err /\ Taken.retry = in.retry
  <2>1. Tail(in.hand) \in Seq(Pieces)
    BY <1>1, <1>2, InTypes
  <2> QED
    BY <1>1, <2>1, InHand DEF Taken
<1>5. th[p].stage = "none" => in.err = "none" /\ in.retry \in 0 .. MaxUseless
  <2>1. th[p].stage = "none" => in.err = "none"
    BY <1>2, Known DEF Reading
  <2> QED
    BY <1>2, <2>1, RoomLeft DEF HoldsIn, Condemning, AtSend
<1>6. ASSUME th[p].stage = "none" \/ ~complete
      PROVE  /\ Counted \in InState /\ Counted.err = in.err
             /\ IF cfg.v13 /\ complete THEN Counted.retry = in.retry + 1
                                       ELSE Counted.retry = in.retry
  <2>1. CASE cfg.v13 /\ complete
    <3>1. in.retry + 1 \in Tries
      BY <1>1, <1>5, <1>6, <2>1 DEF Tries
    <3> QED
      BY <1>4, <2>1, <3>1, InRetry DEF Counted
  <2>2. CASE ~(cfg.v13 /\ complete)
    BY <1>4, <2>2 DEF Counted
  <2> QED
    BY <2>1, <2>2
<1>7. ASSUME NEW i \in InState
      PROVE  Rekey(i) \in InState /\ Rekey(i).err = i.err /\ Rekey(i).retry = i.retry
  BY InRekey
<1>8. CASE TakeFlight(p)
  <2>1. in' \in InState /\ in'.err = in.err /\ in'.retry = in.retry
    BY <1>4, <1>7, <1>8 DEF TakeFlight
  <2>2. PICK k \in {"fin", "ccs"} : th' = Sending(p, k)
    BY <1>8 DEF TakeFlight
  <2>3. PICK t : /\ Moves(p, t)
                 /\ Is(t, th[p].op, "out", k, th[p].stage, th[p].reneg, th[p].alert,
                       th[p].inerr, th[p].chunk)
    BY <1>1, <2>2, SendingMoves DEF OutKinds
  <2> QED
    BY <1>2, <1>3, <1>8, <2>1, <2>2, <2>3, InputInv DEF TakeFlight
<1>9. CASE RejectMessage(p)
  <2>1. PICK m : Stray(p, m)
    BY <1>9 DEF RejectMessage
  <2>2. th[p].stage = "none" \/ th[p].stage \in {"sh", "flight", "fin"}
    BY <2>1 DEF Stray
  <2>3. th[p].stage = "none" \/ ~complete
    BY <1>2, <2>2 DEF IInv, Shook, HoldsHs, Shaking
  <2>4. PICK e \in BOOLEAN : e = (cfg.v13 /\ complete /\ TooMany(in.retry + 1))
    OBVIOUS
  <2>5. PICK t : /\ Moves(p, t)
                 /\ Is(t, th[p].op, "out", "alert", th[p].stage, th[p].reneg, "unexpected", e,
                       th[p].chunk)
    BY <1>1, <1>9, <2>4, AlertingMoves DEF RejectMessage, Alerts
  <2>6. in' = Counted
    BY <1>9 DEF RejectMessage
  <2>7. in'.retry > MaxUseless => e \/ in'.retry = in.retry
    BY <1>1, <1>6, <2>3, <2>4, <2>6 DEF TooMany
  <2> QED
    BY <1>2, <1>3, <1>6, <2>3, <2>5, <2>6, <2>7, InputInv
<1>10. CASE PostHandshake(p)
  <2>1. th[p].stage = "none" /\ cfg.v13
    BY <1>10 DEF PostHandshake
  <2>2. PICK m : m \in {"ticket", "ku", "kur"} /\ ~Stray(p, m)
    BY <1>10 DEF PostHandshake
  <2>3. ~TooMany(in.retry + 1)
    BY <2>1, <2>2 DEF Stray
  <2>4. Counted \in InState /\ Counted.err = in.err /\ Counted.retry <= MaxUseless
    BY <1>1, <1>5, <1>6, <2>1, <2>3 DEF TooMany
  <2>5. in' \in InState /\ in'.err = in.err /\ in'.retry <= MaxUseless
    BY <1>7, <1>10, <2>4 DEF PostHandshake, NextReadKey
  <2>6. CASE UNCHANGED th
    <3>1. Moves(p, th[p])
      BY <1>1, <2>6 DEF Moves
    <3>2. Is(th[p], th[p].op, "use", th[p].send, th[p].stage, th[p].reneg, th[p].alert,
             th[p].inerr, th[p].chunk)
      BY <1>2 DEF Is
    <3> QED
      BY <1>2, <1>3, <2>5, <3>1, <3>2, InputInv
  <2>7. CASE th' = Sending(p, "ku")
    <3>1. PICK t : /\ Moves(p, t)
                   /\ Is(t, th[p].op, "out", "ku", th[p].stage, th[p].reneg, th[p].alert,
                         th[p].inerr, th[p].chunk)
      BY <1>1, <2>7, SendingMoves DEF OutKinds
    <3> QED
      BY <1>2, <1>3, <2>1, <2>5, <3>1, InputInv
  <2> QED
    BY <1>10, <2>6, <2>7 DEF PostHandshake
<1>11. CASE HelloRequest(p)
  <2>1. th[p].stage = "none" /\ ~cfg.v13 /\ in' = Taken
    BY <1>11 DEF HelloRequest
  <2>2. CASE MayRenegotiate /\ Go(p, "reneg")
    <3>1. PICK t : /\ Moves(p, t)
                   /\ Is(t, th[p].op, "reneg", th[p].send, th[p].stage, th[p].reneg, th[p].alert,
                         th[p].inerr, th[p].chunk)
      BY <1>1, <2>2, GoMoves DEF Places
    <3> QED
      BY <1>2, <1>3, <1>4, <2>1, <2>2, <3>1, InputInv
  <2>3. CASE th' = Alerting(p, "no_renegotiation", FALSE)
    <3>1. PICK t : /\ Moves(p, t)
                   /\ Is(t, th[p].op, "out", "alert", th[p].stage, th[p].reneg,
                         "no_renegotiation", FALSE, th[p].chunk)
      BY <1>1, <2>3, AlertingMoves DEF Alerts
    <3> QED
      BY <1>2, <1>3, <1>4, <2>1, <3>1, InputInv
  <2> QED
    BY <1>11, <2>2, <2>3 DEF HelloRequest
<1> QED
  BY <1>8, <1>9, <1>10, <1>11

-----------------------------------------------------------------------------
(* The outcome of a handshake *)

\* A step that decides on a handshake and sends nothing.
LEMMA TurnInv ==
  ASSUME IInv, NEW p \in Procs, NEW t, Moves(p, t),
         UNCHANGED <<cfg, active, closing, out, in, sock, deadline, wire, peer, calls, intr>>,
         lock' \in LockState, lock'.out = lock.out,
         complete' \in BOOLEAN, handshakeErr' \in BOOLEAN, handshakes' \in Nat,
         complete' => complete, t.op = th[p].op, ~AtSend(th[p]), cfg.client,
         t.pc \notin {"sock", "flushing"}, th[p].pc # "flushing",
         t.stage \notin {"flight", "ccs", "fin"} \/ (t.stage = th[p].stage /\ t.pc = "hs_fail"),
         Shape(t), Watched(t, intr[p]), Holds(t, lock', p),
         \A q \in Procs : q # p => Holds(th[q], lock', q),
         Shook', Tallied'
  PROVE  IInv'
<1>1. Tame(p, t)
  BY DEF Tame, Calm, SockFails, AtSend, Shape
<1>2. Typed'
  BY DEF IInv, Typed, TypeOK, Moves
<1>3. Padded'
  BY DEF Padded
<1>4. Limited'
  <2>1. ASSUME NEW q \in Procs, Condemning(th[q])
        PROVE  Condemning(th'[q])
    BY <2>1 DEF Condemning, Moves, IInv, Typed
  <2> QED
    BY <2>1 DEF IInv, Limited
<1>5. Buffered' /\ Numbered' /\ Apart' /\ Hushed'
  BY <1>1, TameLemma DEF IInv, Typed
<1>6. Active'
  BY ActiveLemma DEF IInv, Typed
<1>7. Control'
  BY MoveControl DEF IInv, Typed
<1> QED
  BY <1>2, <1>3, <1>4, <1>5, <1>6, <1>7 DEF IInv

\* Only a client shakes hands.
LEMMA ClientOnly ==
  ASSUME IInv, ~complete \/ lock.hs # Free \/ ~cfg.v13
  PROVE  cfg.client
BY ConnAssumption DEF IInv, Padded, Typed, TypeOK

\* Whoever shakes hands is alone at it.
LEMMA Alone ==
  ASSUME IInv, NEW p \in Procs, lock.hs = p \/ lock.hs = Free, NEW q \in Procs, q # p
  PROVE  ~HoldsHs(th[q]) /\ ~th[q].reneg /\ ~Greeted(th[q])
<1>1. ~HoldsHs(th[q])
  BY ConnAssumption DEF IInv, Control, Holds
<1> QED
  BY <1>1 DEF IInv, Control, Shape, HoldsHs, Greeted

\* handshakeContext takes handshakeMutex and returns early or begins the handshake.
LEMMA HandshakeLockInv ==
  ASSUME IInv, NEW p \in Procs, HandshakeLock(p)
  PROVE  IInv'
<1> USE DEF Shape, Is, AtSend, HoldsIn, HoldsHs, HoldsOut, Holds, Watched, Shaking,
            Condemning, Greeted, Reading, Healthy
<1>1. th \in [Procs -> Thread] /\ Limited
  BY DEF IInv, Typed, TypeOK
<1>2. /\ th[p].pc = "hs_mutex" /\ lock.hs = Free /\ th[p].op \in {"read", "write", "handshake"}
      /\ UNCHANGED <<cfg, complete, handshakeErr, handshakes, active, closing, out, in, sock,
                     deadline, wire, peer, calls, intr>>
  BY Known DEF HandshakeLock, At, shake, interlock
<1>3. ASSUME NEW ok \in BOOLEAN, th' = AfterHandshake(p, ok), UNCHANGED lock
      PROVE  IInv'
  <2>1. PICK t :
          /\ Moves(p, t)
          /\ Is(t, th[p].op, t.pc, IF th[p].op = "write" THEN "data" ELSE "none", "none",
                th[p].reneg, th[p].alert, th[p].inerr, th[p].chunk)
          /\ IF Interrupted(p) THEN t.pc = "hs_done"
             ELSE IF ~ok \/ th[p].op = "handshake" THEN t.pc = "end"
             ELSE IF th[p].op = "read" THEN t.pc = "in" ELSE t.pc = "out"
    BY <1>1, <1>2, <1>3, AfterHandshakeMoves
  <2>2. Eased(p, t)
    BY <1>1, <1>2, <1>3, <2>1, Known
       DEF Limited, Interrupted, Eased, Eases, Aside, Tame, Calm, SockFails
  <2>3. Typed'
    BY <1>2, <1>3, <2>1 DEF IInv, Typed, TypeOK, Moves
  <2> QED
    BY <2>2, <2>3, EasedLemma
<1>4. CASE ~handshakeErr /\ ~complete /\ lock' = [lock EXCEPT !.hs = p] /\ Go(p, "hs_in")
  <2>1. PICK t : /\ Moves(p, t)
                 /\ Is(t, th[p].op, "hs_in", th[p].send, th[p].stage, th[p].reneg, th[p].alert,
                       th[p].inerr, th[p].chunk)
    BY <1>1, <1>4, GoMoves DEF Places
  <2>2. lock' \in LockState /\ lock'.hs = p /\ lock'.in = lock.in /\ lock'.out = lock.out
    BY <1>4, Known DEF LockState
  <2>3. /\ Shape(t) /\ Watched(t, intr[p]) /\ Holds(t, lock', p)
        /\ \A q \in Procs : q # p => Holds(th[q], lock', q)
    BY <1>2, <2>1, <2>2, Known
  <2>4. th'[p] = t /\ \A q \in Procs : q # p => th'[q] = th[q] /\ ~HoldsHs(th[q])
    BY <1>1, <1>2, <2>1, Alone DEF Moves
  <2>5. Shook'
    BY <1>2, <1>4, <2>1, <2>2, <2>4, Known DEF IInv, Shook
  <2>6. handshakes = 0
    BY <1>2, <1>4 DEF IInv, Tallied
  <2>7. Tallied'
    <3>1. Sent("hello")' = Sent("hello") /\ (SockFails' <=> SockFails)
      BY <1>2 DEF Sent, SockFails
    <3>2. RenegotiationBounded'
      BY <1>2, <3>1 DEF IInv, Tallied, RenegotiationBounded
    <3>3. \A q \in Procs : /\ th'[q].reneg <=> th[q].reneg
                           /\ Greeted(th'[q]) <=> Greeted(th[q])
                           /\ Reading(th'[q]) => Reading(th[q])
                           /\ th'[q].pc \in {"reneg", "fail", "hs_fail"} => th'[q].pc = th[q].pc
      BY <1>2, <2>1, <2>4, Known
    <3> HIDE DEF Greeted, Reading
    <3> QED
      BY <1>2, <1>4, <2>2, <2>4, <2>6, <3>1, <3>2, <3>3 DEF IInv, Tallied
  <2>8. cfg.client
    BY <1>4, ClientOnly
  <2>9. /\ complete' \in BOOLEAN /\ handshakeErr' \in BOOLEAN /\ handshakes' \in Nat
    BY <1>2 DEF IInv, Typed, TypeOK
  <2> QED
    BY <1>2, <2>1, <2>2, <2>3, <2>5, <2>7, <2>8, <2>9, TurnInv
<1> QED
  BY <1>3, <1>4 DEF HandshakeLock

\* A handshake that succeeded is counted and releases its locks.
LEMMA HandshakeSucceedsInv ==
  ASSUME IInv, NEW p \in Procs, HandshakeSucceeds(p)
  PROVE  IInv'
<1> USE DEF Shape, Is, AtSend, HoldsIn, HoldsHs, HoldsOut, Holds, Watched, Shaking
<1>1. th \in [Procs -> Thread] /\ lock \in LockState
  BY DEF IInv, Typed, TypeOK
<1>2. /\ th[p].pc = "hs_ok" /\ handshakeErr' = FALSE /\ handshakes' = handshakes + 1
      /\ UNCHANGED <<cfg, complete, active, closing, out, in, sock, deadline, wire, peer, calls,
                     intr>>
  BY DEF HandshakeSucceeds, At, interlock
<1>3. /\ th[p].stage \in {"flight", "fin"} /\ lock.hs = p /\ lock.in = p
      /\ th[p].op \in {"read", "write", "handshake"} /\ complete /\ th[p].reneg \in BOOLEAN
  BY <1>2, Known DEF IInv, Shook
<1>4. PICK t :
        /\ Moves(p, t) /\ t.op = th[p].op /\ t.stage = "none" /\ ~t.reneg /\ t.chunk = <<>>
        /\ lock' \in LockState /\ lock'.hs = Free /\ lock'.out = lock.out
        /\ IF th[p].reneg
           THEN t.pc = "use" /\ lock'.in = p
           ELSE /\ lock'.in = Free
                /\ IF Interrupted(p) THEN t.pc = "hs_done"
                   ELSE IF th[p].op = "handshake" THEN t.pc = "end"
                   ELSE IF th[p].op = "read" THEN t.pc = "in" ELSE t.pc = "out"
                /\ t.send = IF th[p].op = "write" THEN "data" ELSE "none"
  <2>1. CASE /\ th[p].reneg /\ lock' = [lock EXCEPT !.hs = Free]
             /\ th' = [th EXCEPT ![p].pc = "use", ![p].stage = "none", ![p].reneg = FALSE]
    <3> DEFINE t == [th[p] EXCEPT !.pc = "use", !.stage = "none", !.reneg = FALSE]
    <3>1. t \in Thread
      <4>1. "use" \in Places /\ "none" \in Shaking \cup {"none", "failed", "predict"}
        BY DEF Places
      <4> HIDE DEF Shaking
      <4> QED
        BY <1>1, <4>1 DEF Thread
    <3>2. Is(t, th[p].op, "use", th[p].send, "none", FALSE, th[p].alert, th[p].inerr, th[p].chunk)
      BY <1>1 DEF Thread
    <3>3. Moves(p, t)
      BY <1>1, <2>1, <3>1 DEF Moves
    <3>4. lock' \in LockState /\ lock'.hs = Free /\ lock'.out = lock.out /\ lock'.in = p
      BY <1>1, <1>3, <2>1 DEF LockState
    <3>5. th[p].chunk = <<>>
      BY <1>2, Known
    <3> HIDE DEF t
    <3> QED
      BY <2>1, <3>2, <3>3, <3>4, <3>5
  <2>2. CASE ~th[p].reneg /\ lock' = ReleaseBoth /\ th' = AfterHandshake(p, TRUE)
    <3>1. PICK t :
            /\ Moves(p, t)
            /\ Is(t, th[p].op, t.pc, IF th[p].op = "write" THEN "data" ELSE "none", "none",
                  th[p].reneg, th[p].alert, th[p].inerr, th[p].chunk)
            /\ IF Interrupted(p) THEN t.pc = "hs_done"
               ELSE IF ~TRUE \/ th[p].op = "handshake" THEN t.pc = "end"
               ELSE IF th[p].op = "read" THEN t.pc = "in" ELSE t.pc = "out"
      BY <1>1, <1>3, <2>2, AfterHandshakeMoves
    <3>2. lock' \in LockState /\ lock'.hs = Free /\ lock'.in = Free /\ lock'.out = lock.out
      BY <1>1, <2>2 DEF LockState, ReleaseBoth
    <3>3. th[p].chunk = <<>>
      BY <1>2, Known
    <3> QED
      BY <2>2, <3>1, <3>2, <3>3
  <2> QED
    BY <2>1, <2>2 DEF HandshakeSucceeds
<1>5. /\ Shape(t) /\ Watched(t, intr[p]) /\ Holds(t, lock', p)
      /\ \A q \in Procs : q # p => Holds(th[q], lock', q)
  BY <1>2, <1>3, <1>4, Known DEF Interrupted
<1>6. /\ th'[p] = t /\ ~Greeted(t)
      /\ \A q \in Procs : q # p =>
           /\ th'[q] = th[q] /\ ~HoldsHs(th[q]) /\ ~th[q].reneg /\ ~Greeted(th[q])
           /\ th[q].pc # "reneg" /\ ~HoldsIn(th[q])
  <2>1. \A q \in Procs : q # p => ~HoldsIn(th[q])
    BY <1>3, Known
  <2> QED
    BY <1>1, <1>3, <1>4, <2>1, Alone DEF Moves, Greeted
<1>7. Shook'
  <2>1. ~out'.buffering
    BY <1>2, <1>3 DEF IInv, Buffered
  <2> QED
    BY <1>2, <1>3, <1>4, <1>6, <2>1 DEF IInv, Shook
<1>8. Tallied'
  <2>1. Sent("hello")' = Sent("hello") /\ (Healthy' <=> Healthy)
    BY <1>2 DEF Sent, SockFails, Healthy
  <2>2. handshakes \in Nat /\ (th[p].reneg \/ handshakes = 0)
    BY <1>3 DEF IInv, Typed, TypeOK, Tallied
  <2>3. cfg.reneg = "once" => handshakes' <= 2
    BY <1>2, <2>2 DEF IInv, Tallied
  <2>4. Reading(t) => in.err = "none"
    BY <1>2, <1>3, <1>4, Known DEF Reading
  <2>5. Healthy => Sent("hello") <= handshakes + 1
    BY <1>2, <1>3 DEF IInv, Tallied, Greeted
  <2>6. RenegotiationBounded'
    BY <1>2, <2>1, <2>3 DEF IInv, Tallied, RenegotiationBounded
  <2>7. ASSUME NEW q \in Procs
        PROVE  /\ ~HoldsHs(th'[q]) /\ ~Greeted(th'[q])
               /\ ~(th'[q].pc = "reneg" \/ th'[q].reneg)
               /\ Reading(th'[q]) => in'.err = "none"
               /\ th'[q].pc \in {"fail", "hs_fail"} /\ Healthy' => in'.err # "none"
    <3>1. CASE q = p
      BY <1>2, <1>4, <1>6, <2>4, <3>1
    <3>2. CASE q # p
      BY <1>2, <1>6, <2>1, <3>2 DEF IInv, Tallied
    <3> QED
      BY <3>1, <3>2
  <2>8. Healthy => \A n \in DOMAIN out.sendBuf : out.sendBuf[n].k # "hello"
    BY DEF IInv, Tallied
  <2> HIDE DEF HoldsHs, AtSend
  <2> QED
    BY <1>2, <1>3, <2>1, <2>5, <2>6, <2>7, <2>8 DEF Tallied
<1>9. cfg.client
  BY <1>3, ConnAssumption, ClientOnly
<1>10. complete' \in BOOLEAN /\ handshakeErr' \in BOOLEAN
  BY <1>2, Zenon DEF IInv, Typed, TypeOK
<1>11. handshakes' \in Nat
  BY <1>2 DEF IInv, Typed, TypeOK
<1> QED
  BY <1>2, <1>3, <1>4, <1>5, <1>7, <1>8, <1>9, <1>10, <1>11, TurnInv

\* A handshake that failed: its error is noted, then its mutexes are given back.
LEMMA HandshakeFailsInv ==
  ASSUME IInv, NEW p \in Procs, HandshakeFails(p) \/ FlushNothing(p)
  PROVE  IInv'
<1> USE DEF Shape, Is, AtSend, HoldsIn, HoldsHs, HoldsOut, Holds, Watched, Shaking
<1>1. th \in [Procs -> Thread] /\ lock \in LockState /\ handshakeErr \in BOOLEAN
  BY DEF IInv, Typed, TypeOK
<1>2. /\ UNCHANGED <<cfg, complete, handshakes, active, closing, out, in, sock, deadline, wire,
                     peer, calls, intr>>
      /\ \/ th[p].pc = "hs_fail"
         \/ th[p].pc = "flush" /\ th[p].stage = "failed"
  BY DEF HandshakeFails, FlushNothing, At, interlock, shake
<1>3. /\ th[p].stage \in Shaking \cup {"failed"} /\ lock.hs = p /\ lock.in = p
      /\ th[p].op \in {"read", "write", "handshake"} /\ ~complete /\ th[p].reneg \in BOOLEAN
      /\ th[p].chunk = <<>>
      /\ th[p].stage = "failed" => handshakeErr /\ ~th[p].reneg /\ th[p].pc = "flush"
  BY <1>2, Known DEF IInv, Shook
<1>4. handshakeErr' = TRUE
  <2>1. CASE HandshakeFails(p)
    BY <2>1 DEF HandshakeFails
  <2>2. CASE FlushNothing(p)
    BY <1>1, <1>3, <2>2, Zenon DEF FlushNothing, shake
  <2> QED
    BY <2>1, <2>2
<1>5. PICK t :
        /\ Moves(p, t) /\ t.op = th[p].op /\ ~t.reneg /\ t.chunk = <<>>
        /\ lock' \in LockState /\ lock'.out = lock.out
        /\ \/ /\ th[p].pc = "hs_fail" /\ th[p].reneg /\ t.pc = "fail" /\ t.stage = "none"
              /\ lock'.hs = Free /\ lock'.in = p
           \/ /\ th[p].pc = "hs_fail" /\ ~th[p].reneg /\ t.pc = "flush" /\ t.stage = "failed"
              /\ lock'.hs = p /\ lock'.in = p
           \/ /\ th[p].pc = "flush" /\ t.stage = "none"
              /\ t.pc = IF Interrupted(p) THEN "hs_done" ELSE "end"
              /\ lock'.hs = Free /\ lock'.in = Free
  <2>1. CASE /\ th[p].pc = "hs_fail" /\ th[p].reneg /\ lock' = [lock EXCEPT !.hs = Free]
             /\ th' = [th EXCEPT ![p].pc = "fail", ![p].stage = "none", ![p].reneg = FALSE]
    <3> DEFINE t == [th[p] EXCEPT !.pc = "fail", !.stage = "none", !.reneg = FALSE]
    <3>1. t \in Thread
      <4>1. "fail" \in Places /\ "none" \in Shaking \cup {"none", "failed", "predict"}
        BY DEF Places
      <4> HIDE DEF Shaking
      <4> QED
        BY <1>1, <4>1 DEF Thread
    <3>2. Is(t, th[p].op, "fail", th[p].send, "none", FALSE, th[p].alert, th[p].inerr,
             th[p].chunk)
      BY <1>1 DEF Thread
    <3>3. Moves(p, t)
      BY <1>1, <2>1, <3>1 DEF Moves
    <3>4. lock' \in LockState /\ lock'.hs = Free /\ lock'.out = lock.out /\ lock'.in = p
      BY <1>1, <1>3, <2>1 DEF LockState
    <3> HIDE DEF t
    <3> QED
      BY <1>3, <2>1, <3>2, <3>3, <3>4
  <2>2. CASE /\ th[p].pc = "hs_fail" /\ ~th[p].reneg /\ UNCHANGED lock
             /\ th' = [th EXCEPT ![p].pc = "flush", ![p].stage = "failed"]
    <3> DEFINE t == [th[p] EXCEPT !.pc = "flush", !.stage = "failed"]
    <3>1. t \in Thread
      <4>1. "flush" \in Places /\ "failed" \in Shaking \cup {"none", "failed", "predict"}
        BY DEF Places
      <4> HIDE DEF Shaking
      <4> QED
        BY <1>1, <4>1 DEF Thread
    <3>2. Is(t, th[p].op, "flush", th[p].send, "failed", th[p].reneg, th[p].alert, th[p].inerr,
             th[p].chunk)
      BY <1>1 DEF Thread
    <3>3. Moves(p, t)
      BY <1>1, <2>2, <3>1 DEF Moves
    <3> HIDE DEF t
    <3> QED
      BY <1>1, <1>3, <2>2, <3>2, <3>3
  <2>3. CASE th[p].pc = "flush" /\ lock' = ReleaseBoth /\ th' = AfterHandshake(p, FALSE)
    <3>1. PICK t :
            /\ Moves(p, t)
            /\ Is(t, th[p].op, t.pc, IF th[p].op = "write" THEN "data" ELSE "none", "none",
                  th[p].reneg, th[p].alert, th[p].inerr, th[p].chunk)
            /\ IF Interrupted(p) THEN t.pc = "hs_done"
               ELSE IF ~FALSE \/ th[p].op = "handshake" THEN t.pc = "end"
               ELSE IF th[p].op = "read" THEN t.pc = "in" ELSE t.pc = "out"
      BY <1>1, <1>3, <2>3, AfterHandshakeMoves
    <3>2. lock' \in LockState /\ lock'.hs = Free /\ lock'.in = Free /\ lock'.out = lock.out
      BY <1>1, <2>3 DEF LockState, ReleaseBoth
    <3>3. ~th[p].reneg
      BY <1>2, <1>3, <2>3
    <3> QED
      BY <1>3, <2>3, <3>1, <3>2, <3>3
  <2> QED
    BY <2>1, <2>2, <2>3 DEF HandshakeFails, FlushNothing, At
<1>6. /\ Shape(t) /\ Watched(t, intr[p]) /\ Holds(t, lock', p)
      /\ \A q \in Procs : q # p => Holds(th[q], lock', q)
  BY <1>2, <1>3, <1>5, Known DEF Interrupted
<1>7. /\ th'[p] = t
      /\ \A q \in Procs : q # p =>
           th'[q] = th[q] /\ ~HoldsHs(th[q]) /\ ~th[q].reneg /\ ~Greeted(th[q])
  BY <1>1, <1>3, <1>5, Alone DEF Moves
<1>8. Shook'
  BY <1>2, <1>3, <1>4, <1>5, <1>7 DEF IInv, Shook
<1>9. Tallied'
  <2>1. Sent("hello")' = Sent("hello") /\ (Healthy' <=> Healthy)
    BY <1>2 DEF Sent, SockFails, Healthy
  <2>2. RenegotiationBounded'
    BY <1>2, <2>1 DEF IInv, Tallied, RenegotiationBounded
  <2>3. Greeted(th[p])
    BY <1>2, <1>3 DEF Greeted
  <2>4. Healthy => in.err # "none"
    BY <1>2, <1>3 DEF IInv, Tallied
  <2>5. Healthy => /\ \A n \in DOMAIN out.sendBuf : out.sendBuf[n].k # "hello"
                   /\ Sent("hello") <= handshakes + 1
    BY <2>3 DEF IInv, Tallied
  <2>6. ASSUME NEW q \in Procs
        PROVE  /\ HoldsHs(th'[q]) /\ ~th'[q].reneg => handshakes' = 0
               /\ cfg'.reneg = "once" /\ (th'[q].pc = "reneg" \/ th'[q].reneg) =>
                    handshakes' <= 1
               /\ Reading(th'[q]) => in'.err = "none"
               /\ th'[q].pc \in {"fail", "hs_fail"} /\ Healthy' => in'.err # "none"
    <3>1. CASE q = p
      <4>1. ~Reading(t) /\ ~t.reneg /\ t.pc # "reneg"
        BY <1>5 DEF Reading
      <4>2. HoldsHs(t) => handshakes = 0
        BY <1>2, <1>3, <1>5 DEF IInv, Tallied
      <4> QED
        BY <1>2, <1>7, <2>1, <2>4, <3>1, <4>1, <4>2
    <3>2. CASE q # p
      BY <1>2, <1>7, <2>1, <3>2 DEF IInv, Tallied
    <3> QED
      BY <3>1, <3>2
  <2> HIDE DEF HoldsHs, AtSend
  <2> QED
    BY <1>2, <1>4, <2>1, <2>2, <2>4, <2>5, <2>6 DEF Tallied
<1>10. cfg.client
  BY <1>3, ClientOnly
<1>11. complete' \in BOOLEAN /\ handshakeErr' \in BOOLEAN /\ handshakes' \in Nat
  BY <1>2, <1>4 DEF IInv, Typed, TypeOK
<1>12. t.pc \notin {"sock", "flushing"} /\ t.stage \notin {"flight", "ccs", "fin"}
  BY <1>5
<1> QED
  BY <1>2, <1>3, <1>5, <1>6, <1>8, <1>9, <1>10, <1>11, <1>12, TurnInv

\* A HelloRequest makes Read take handshakeMutex and handshake again.
LEMMA RenegotiateInv ==
  ASSUME IInv, NEW p \in Procs, Renegotiate(p)
  PROVE  IInv'
<1> USE DEF Shape, Is, AtSend, HoldsIn, HoldsHs, HoldsOut, Holds, Watched, Shaking
<1>1. th \in [Procs -> Thread] /\ lock \in LockState
  BY DEF IInv, Typed, TypeOK
<1>2. /\ th[p].pc = "reneg" /\ lock.hs = Free /\ lock' = [lock EXCEPT !.hs = p]
      /\ complete' = FALSE
      /\ UNCHANGED <<cfg, handshakeErr, handshakes, active, closing, out, in, sock, deadline,
                     wire, peer, calls, intr>>
  BY DEF Renegotiate, At, interlock, CompleteInRenegotiation
<1>3. PICK t : /\ Moves(p, t)
               /\ Is(t, th[p].op, "out", "hello", "sh", TRUE, th[p].alert, th[p].inerr,
                     th[p].chunk)
  <2> DEFINE t == [th[p] EXCEPT !.pc = "out", !.send = "hello", !.stage = "sh", !.reneg = TRUE]
  <2>1. "hello" \in OutKinds /\ "out" \in Places
    BY DEF OutKinds, Places
  <2>2. t \in Thread
    BY <1>1, <2>1 DEF Thread
  <2>3. Is(t, th[p].op, "out", "hello", "sh", TRUE, th[p].alert, th[p].inerr, th[p].chunk)
    BY <1>1 DEF Thread
  <2>4. th' = [th EXCEPT ![p] = t]
    BY <1>1 DEF Renegotiate, Sending
  <2> QED
    BY <2>2, <2>3, <2>4 DEF Moves
<1>4. lock' \in LockState /\ lock'.hs = p /\ lock'.in = lock.in /\ lock'.out = lock.out
  BY <1>1, <1>2 DEF LockState
<1>5. /\ Shape(t) /\ Watched(t, intr[p]) /\ Holds(t, lock', p)
      /\ \A q \in Procs : q # p => Holds(th[q], lock', q)
  <2>1. th[p].op = "read" /\ th[p].stage = "none"
    BY <1>2, Known
  <2> QED
    BY <1>2, <1>3, <1>4, <2>1, Known
<1>6. /\ th'[p] = t /\ ~Greeted(t) /\ ~Greeted(th[p])
      /\ \A q \in Procs : q # p =>
           th'[q] = th[q] /\ ~HoldsHs(th[q]) /\ ~th[q].reneg /\ ~Greeted(th[q])
  BY <1>1, <1>2, <1>3, Alone, Known DEF Moves, Greeted
<1>7. Shook'
  BY <1>2, <1>3, <1>4, <1>6, Known DEF IInv, Shook
<1>8. Tallied'
  <2>1. Sent("hello")' = Sent("hello") /\ (Healthy' <=> Healthy)
    BY <1>2 DEF Sent, SockFails, Healthy
  <2>2. RenegotiationBounded'
    BY <1>2, <2>1 DEF IInv, Tallied, RenegotiationBounded
  <2>3. in.err = "none" /\ (cfg.reneg = "once" => handshakes <= 1)
    BY <1>2, Known DEF IInv, Tallied, Reading
  <2>4. ASSUME NEW q \in Procs
        PROVE  /\ ~Greeted(th'[q])
               /\ HoldsHs(th'[q]) /\ ~th'[q].reneg => handshakes' = 0
               /\ cfg'.reneg = "once" /\ (th'[q].pc = "reneg" \/ th'[q].reneg) =>
                    handshakes' <= 1
               /\ Reading(th'[q]) => in'.err = "none"
               /\ th'[q].pc \in {"fail", "hs_fail"} /\ Healthy' => in'.err # "none"
    <3>1. CASE q = p
      BY <1>2, <1>3, <1>6, <2>3, <3>1
    <3>2. CASE q # p
      BY <1>2, <1>6, <2>1, <3>2 DEF IInv, Tallied
    <3> QED
      BY <3>1, <3>2
  <2>5. \A q \in Procs : ~Greeted(th[q])
    BY <1>6
  <2>6. lock'.hs # Free
    BY <1>4, ConnAssumption
  <2> HIDE DEF HoldsHs, AtSend
  <2> QED
    BY <1>2, <2>1, <2>2, <2>4, <2>5, <2>6 DEF IInv, Tallied
<1>9. cfg.client
  BY <1>2, ClientOnly DEF IInv, Shook
<1>10. complete' \in BOOLEAN /\ handshakeErr' \in BOOLEAN /\ handshakes' \in Nat
  BY <1>2 DEF IInv, Typed, TypeOK
<1>11. t.pc = "out" /\ t.stage = "sh" /\ t.op = th[p].op
  BY <1>3
<1> QED
  BY <1>2, <1>3, <1>4, <1>5, <1>7, <1>8, <1>9, <1>10, <1>11, TurnInv

-----------------------------------------------------------------------------
(* Steps next to the sending of records *)

\* Of all that a REALITY server sends only a KeyUpdate has no room for its padding,
\* and for a client everything has.
LEMMA MisfitsKu ==
  ASSUME IInv, NEW p \in Procs, AtSend(th[p])
  PROVE  Misfits(th[p].send) <=> ~cfg.client /\ th[p].send = "ku"
<1>1. /\ ~cfg.client => cfg.v13
      /\ handshakeLen[1] = (IF ~cfg.client THEN 6 ELSE 0) /\ handshakeLen[5] = 0
  BY ConnAssumption DEF IInv, Typed, TypeOK, handshakeLen
<1>2. ~cfg.client => th[p].send # "fin"
  BY Known, ClientOnly DEF Shape, Holds, HoldsHs, Shaking
<1>3. PaddedTo("ku") = 0 /\ Sealing("ku") = 27
  BY DEF PaddedTo, Sealing
<1> QED
  BY <1>1, <1>2, <1>3 DEF Misfits

\* A KeyUpdate whose record cannot be sealed poisons the write half.
LEMMA SealFailsInv ==
  ASSUME IInv, NEW p \in Procs, SealFails(p)
  PROVE  IInv'
<1>1. th \in [Procs -> Thread] /\ out \in OutState /\ Limited
  BY DEF IInv, Typed, TypeOK
<1>2. /\ th[p].pc = "out" /\ th[p].send = "ku" /\ Go(p, "use")
      /\ out' = [out EXCEPT !.err = "padding"]
      /\ UNCHANGED <<cfg, complete, handshakeErr, handshakes, lock, active, closing, in, sock,
                     deadline, wire, peer, calls, intr>>
  BY MisfitsKu DEF SealFails, At, shake, interlock, AtSend
<1>3. /\ out' \in OutState /\ out'.err = "padding" /\ out'.sendBuf = out.sendBuf
      /\ out'.epoch = out.epoch /\ out'.seq = out.seq
      /\ (out'.buffering <=> out.buffering) /\ (out'.notified <=> out.notified)
  BY <1>1, <1>2 DEF OutState
<1>4. PICK t : /\ Moves(p, t)
               /\ Is(t, th[p].op, "use", th[p].send, th[p].stage, th[p].reneg, th[p].alert,
                     th[p].inerr, th[p].chunk)
  BY <1>1, <1>2, GoMoves DEF Places
<1>5. Eased(p, t)
  BY <1>1, <1>2, <1>3, <1>4, Known
     DEF Eased, Eases, Shape, Is, AtSend, HoldsIn, HoldsHs, HoldsOut, Holds, Watched, Shaking,
         Aside, Tame, Calm, SockFails, Condemning, Greeted, Reading, Healthy, Limited
<1>6. Typed'
  BY <1>2, <1>3, <1>4 DEF IInv, Typed, TypeOK, Moves
<1> QED
  BY <1>5, <1>6, EasedLemma

\* flush hands the buffered records to the socket.
LEMMA FlushBeginsInv ==
  ASSUME IInv, NEW p \in Procs, FlushBegins(p)
  PROVE  IInv'
<1>1. /\ th \in [Procs -> Thread] /\ out \in OutState /\ Limited
      /\ out.sendBuf \in Seq(Records(OutKinds))
  BY DEF IInv, Typed, TypeOK, OutState
<1>2. /\ th[p].pc = "flush" /\ out.sendBuf # <<>>
      /\ th' = [th EXCEPT ![p].pc = "flushing", ![p].chunk = out.sendBuf]
      /\ UNCHANGED <<cfg, complete, handshakeErr, handshakes, lock, active, closing, out, in,
                     sock, deadline, wire, peer, calls, intr>>
  BY DEF FlushBegins, At, shake, interlock
<1>3. PICK t : /\ Moves(p, t)
               /\ Is(t, th[p].op, "flushing", th[p].send, th[p].stage, th[p].reneg, th[p].alert,
                     th[p].inerr, out.sendBuf)
  <2> DEFINE t == [th[p] EXCEPT !.pc = "flushing", !.chunk = out.sendBuf]
  <2>1. t \in Thread
    <3>1. "flushing" \in Places
      BY DEF Places
    <3> HIDE DEF Shaking
    <3> QED
      BY <1>1, <3>1 DEF Thread
  <2>2. Is(t, th[p].op, "flushing", th[p].send, th[p].stage, th[p].reneg, th[p].alert,
           th[p].inerr, out.sendBuf)
    BY <1>1 DEF Thread, Is
  <2> QED
    BY <1>1, <1>2, <2>1, <2>2 DEF Moves
<1>4. /\ Shape(t) /\ Watched(t, intr'[p]) /\ Holds(t, lock', p)
      /\ \A q \in Procs : q # p => intr'[q] = intr[q] /\ Holds(th[q], lock', q)
      /\ Aside(p, t)
  BY <1>1, <1>2, <1>3, Known
     DEF Shape, Is, AtSend, HoldsIn, HoldsHs, HoldsOut, Holds, Watched, Shaking,
         Aside, Calm, SockFails, Condemning, Greeted, Reading, Healthy, Limited
<1>5. Typed'
  BY <1>2, <1>3 DEF IInv, Typed, TypeOK, Moves
<1>6. Control' /\ Active'
  BY <1>1, <1>2, <1>3, <1>4, MoveControl, ActiveLemma DEF IInv, Is
<1>7. Shook' /\ Padded' /\ Limited' /\ Tallied'
  BY <1>3, <1>4, AsideLemma DEF IInv
<1>8. Numbered' /\ Hushed'
  BY <1>1, <1>3, <1>4, CalmLemma DEF IInv, Aside
<1>9. th'[p] = t /\ \A q \in Procs : q # p => th'[q] = th[q]
  BY <1>1, <1>3 DEF Moves
<1>10. t.pc = "flushing" /\ t.stage = th[p].stage /\ t.chunk = out.sendBuf
  BY <1>3 DEF Is
<1>11. Buffered'
  <2>1. SockFails' <=> SockFails
    BY <1>2 DEF SockFails
  <2>2. /\ t.stage \in {"ccs", "fin"} => ~out.buffering
        /\ t.stage = "flight" => out.buffering
    BY <1>2, <1>10 DEF IInv, Buffered
  <2>3. ASSUME NEW q \in Procs
        PROVE  /\ th'[q].stage \in {"ccs", "fin"} => ~out'.buffering
               /\ th'[q].stage = "flight" /\ th'[q].pc \notin {"hs_ok", "hs_fail"} =>
                    out'.buffering
               /\ th'[q].pc = "sock" => out'.sendBuf = <<>>
               /\ th'[q].pc = "flushing" =>
                    out'.sendBuf # <<>> /\ (th'[q].chunk = out'.sendBuf \/ SockFails')
    <3>1. CASE q = p
      BY <1>2, <1>9, <1>10, <2>2, <3>1
    <3>2. CASE q # p
      BY <1>2, <1>9, <2>1, <3>2 DEF IInv, Buffered
    <3> QED
      BY <3>1, <3>2
  <2> QED
    BY <1>2, <2>3 DEF IInv, Buffered
<1>12. Apart'
  <2>1. t.stage = "flight" => Ends(out.sendBuf)
    BY <1>2, <1>10 DEF IInv, Apart
  <2>2. t.stage \in {"ccs", "fin"} => Over(wire)
    BY <1>2, <1>10 DEF IInv, Apart
  <2>3. NoDataInsideHandshake'
    BY <1>2 DEF IInv, Apart, NoDataInsideHandshake
  <2>4. ASSUME NEW q \in Procs
        PROVE  /\ th'[q].stage \in {"ccs", "fin"} => Over(wire')
               /\ th'[q].pc = "sock" /\ th'[q].send = "data" => Over(wire')
               /\ th'[q].pc \in {"flush", "flushing"} /\ th'[q].stage = "flight" =>
                    Ends(out'.sendBuf)
    <3>1. CASE q = p
      BY <1>2, <1>9, <1>10, <2>1, <2>2, <3>1
    <3>2. CASE q # p
      BY <1>2, <1>9, <3>2 DEF IInv, Apart
    <3> QED
      BY <3>1, <3>2
  <2> QED
    BY <1>2, <2>3, <2>4 DEF IInv, Apart
<1> QED
  BY <1>5, <1>6, <1>7, <1>8, <1>11, <1>12 DEF IInv

-----------------------------------------------------------------------------
(* The handshake goes on *)

\* A step that sends at most one more ClientHello.
LEMMA TallyLemma ==
  ASSUME IInv, NEW p \in Procs, NEW t, Moves(p, t), cfg' = cfg,
         UNCHANGED <<handshakeErr, handshakes>>, lock'.hs = lock.hs, complete => complete',
         Healthy' => Healthy, out'.err = "none" => out.err = "none",
         in'.err = in.err \/ (in'.err # "none" /\ lock.in = p),
         HoldsHs(t) => HoldsHs(th[p]), t.reneg <=> th[p].reneg, t.pc # "reneg",
         Reading(t) => in'.err = "none",
         t.pc \in {"fail", "hs_fail"} /\ Healthy' => in'.err # "none",
         Healthy' => \A n \in DOMAIN out'.sendBuf : out'.sendBuf[n].k # "hello",
         \/ /\ out'.err = "none" => Sent("hello")' = Sent("hello")
            /\ Healthy' => (Greeted(t) <=> Greeted(th[p]))
         \/ /\ Sent("hello") \in Nat /\ Sent("hello")' = Sent("hello") + 1 /\ ~SockFails
            /\ th[p].pc = "sock" /\ th[p].send = "hello" /\ Greeted(t)
  PROVE  Tallied'
<1>1. th'[p] = t /\ \A q \in Procs : q # p => th'[q] = th[q]
  BY DEF Moves, IInv, Typed
<1>2. handshakes \in Nat
  BY DEF IInv, Typed, TypeOK
<1>3. ASSUME NEW q \in Procs
      PROVE  /\ HoldsHs(th'[q]) /\ ~th'[q].reneg => handshakes' = 0
             /\ cfg'.reneg = "once" /\ (th'[q].pc = "reneg" \/ th'[q].reneg) =>
                  handshakes' <= 1
             /\ Reading(th'[q]) => in'.err = "none"
             /\ th'[q].pc \in {"fail", "hs_fail"} /\ Healthy' => in'.err # "none"
  <2>1. CASE q = p
    BY <1>1, <2>1 DEF IInv, Tallied
  <2>2. CASE q # p
    <3>1. Reading(th[q]) => lock.in = q
      BY DEF IInv, Control, Holds, HoldsIn, Reading
    <3> QED
      BY <1>1, <2>2, <3>1 DEF IInv, Tallied
  <2> QED
    BY <2>1, <2>2
<1>4. ~complete' /\ ~handshakeErr' /\ lock'.hs = Free => handshakes' = 0
  BY DEF IInv, Tallied
<1>5. Healthy' => (handshakeErr' => in'.err # "none")
  BY DEF IInv, Tallied
<1>6. CASE /\ out'.err = "none" => Sent("hello")' = Sent("hello")
           /\ Healthy' => (Greeted(t) <=> Greeted(th[p]))
  <2>1. RenegotiationBounded'
    BY <1>6 DEF IInv, Tallied, RenegotiationBounded
  <2>2. Healthy' => ((\E q \in Procs : Greeted(th'[q])) <=> (\E q \in Procs : Greeted(th[q])))
    BY <1>1, <1>6
  <2>3. Healthy' => Sent("hello")' = Sent("hello")
    BY <1>6 DEF Healthy
  <2> QED
    BY <1>3, <1>4, <1>5, <1>6, <2>1, <2>2, <2>3 DEF IInv, Tallied
<1>7. CASE /\ Sent("hello") \in Nat /\ Sent("hello")' = Sent("hello") + 1 /\ ~SockFails
           /\ th[p].pc = "sock" /\ th[p].send = "hello" /\ Greeted(t)
  <2>1. HoldsHs(th[p]) /\ lock.hs = p /\ ~Greeted(th[p]) /\ th[p].stage = "sh"
    BY <1>7, Known DEF Shape, HoldsHs, Holds, AtSend, Greeted, Shaking
  <2>2. \A q \in Procs : ~Greeted(th[q])
    BY <2>1, Alone
  <2>3. ~th[p].reneg => ~handshakeErr /\ handshakes = 0
    BY <2>1 DEF IInv, Shook, Tallied
  <2>4. th[p].reneg => in.err = "none" /\ (cfg.reneg = "once" => handshakes <= 1)
    BY <1>7, Known DEF IInv, Tallied, Reading, AtSend
  <2>5. out'.err = "none" => Healthy
    BY <1>7 DEF Healthy
  <2>6. Healthy => Sent("hello") <= handshakes
    BY <2>2, <2>3, <2>4, Known DEF IInv, Tallied
  <2>7. RenegotiationBounded'
    BY <1>2, <1>7, <2>3, <2>4, <2>5, <2>6 DEF IInv, Tallied, RenegotiationBounded
  <2>8. \E q \in Procs : Greeted(th'[q])
    BY <1>1, <1>7
  <2>9. Healthy' => Sent("hello")' <= handshakes' + 1
    BY <1>2, <1>7, <2>6
  <2> QED
    BY <1>3, <1>4, <1>5, <2>7, <2>8, <2>9 DEF Tallied
<1> QED
  BY <1>6, <1>7

\* The peer's Finished completes the handshake.
LEMMA TakeFinishedInv ==
  ASSUME IInv, NEW p \in Procs, TakeFinished(p)
  PROVE  IInv'
<1> USE DEF Shape, Is, AtSend, HoldsIn, HoldsHs, HoldsOut, Holds, Watched, Shaking
<1>1. th \in [Procs -> Thread] /\ in \in InState /\ in.hand \in Seq(Pieces)
  BY InTypes DEF IInv, Typed, TypeOK
<1>2. /\ th[p].pc = "use" /\ th[p].stage = "fin" /\ in.hand # <<>>
      /\ in' = Taken /\ complete' = TRUE /\ Go(p, "hs_ok")
      /\ UNCHANGED <<cfg, handshakeErr, handshakes, lock, active, closing, out, sock, deadline,
                     wire, peer, calls, intr>>
  BY DEF TakeFinished, Message, At, interlock
<1>3. in' \in InState /\ in'.err = in.err /\ in'.retry = in.retry
  <2>1. Tail(in.hand) \in Seq(Pieces)
    BY <1>1, <1>2
  <2> QED
    BY <1>1, <1>2, <2>1, InHand DEF Taken
<1>4. PICK t : /\ Moves(p, t)
               /\ Is(t, th[p].op, "hs_ok", th[p].send, th[p].stage, th[p].reneg, th[p].alert,
                     th[p].inerr, th[p].chunk)
  BY <1>1, <1>2, GoMoves DEF Places
<1>5. /\ Shape(t) /\ Watched(t, intr'[p]) /\ Holds(t, lock', p)
      /\ \A q \in Procs : q # p => intr'[q] = intr[q] /\ Holds(th[q], lock', q)
  BY <1>2, <1>4, Known
<1>6. /\ th'[p] = t
      /\ \A q \in Procs : q # p => th'[q] = th[q] /\ ~HoldsHs(th[q])
  <2>1. lock.hs = p
    BY <1>2, Known
  <2> QED
    BY <1>1, <1>4, <2>1, Alone DEF Moves
<1>7. t.pc = "hs_ok" /\ t.stage = "fin" /\ t.op = th[p].op /\ (t.reneg <=> th[p].reneg)
  BY <1>2, <1>4
<1>8. lock.hs = p /\ cfg.client /\ ~complete
  BY <1>2, Known, ClientOnly, ConnAssumption DEF IInv, Shook
<1>9. Typed'
  <2>1. complete' \in BOOLEAN
    BY <1>2, Zenon
  <2> QED
    BY <1>2, <1>3, <1>4, <2>1 DEF IInv, Typed, TypeOK, Moves
<1>10. Control' /\ Active'
  BY <1>1, <1>2, <1>4, <1>5, <1>7, MoveControl, ActiveLemma DEF IInv
<1>11. Shook'
  BY <1>2, <1>6, <1>7, <1>8, ConnAssumption DEF IInv, Shook
<1>12. Padded'
  BY <1>2, <1>8 DEF Padded
<1>13. Calm(p, t)
  BY <1>2, <1>7 DEF Calm, SockFails
<1>14. Numbered' /\ Hushed'
  BY <1>1, <1>4, <1>13, CalmLemma DEF IInv
<1>15. ~out.buffering /\ Over(wire)
  BY <1>2 DEF IInv, Buffered, Apart
<1>16. Buffered'
  BY <1>2, <1>6, <1>7, <1>15 DEF IInv, Buffered, SockFails
<1>17. Apart'
  BY <1>2, <1>6, <1>7, <1>15 DEF IInv, Apart, NoDataInsideHandshake
<1>18. Limited'
  <2>1. ASSUME NEW q \in Procs, Condemning(th[q])
        PROVE  Condemning(th'[q])
    BY <1>2, <1>6, <2>1 DEF Condemning
  <2> QED
    BY <1>3, <2>1 DEF IInv, Limited
<1>19. Tallied'
  <2>1. Sent("hello")' = Sent("hello") /\ (Healthy' <=> Healthy)
    BY <1>2 DEF Sent, SockFails, Healthy
  <2>2. (Greeted(t) <=> Greeted(th[p])) /\ (Reading(t) => Reading(th[p]))
    BY <1>2, <1>7 DEF Greeted, Reading
  <2>3. Healthy => \A n \in DOMAIN out.sendBuf : out.sendBuf[n].k # "hello"
    BY DEF IInv, Tallied
  <2> QED
    BY <1>2, <1>3, <1>4, <1>7, <2>1, <2>2, <2>3, Known, TallyLemma
<1> QED
  BY <1>9, <1>10, <1>11, <1>12, <1>14, <1>16, <1>17, <1>18, <1>19 DEF IInv

\* What follows record r under its key also begins the next key.
LEMMA ThenRekey ==
  ASSUME NEW r \in Records(OutKinds), NEW e \in Nat, NEW s \in Nat, Then(r, e, s)
  PROVE  Then(r, e + 1, 0)
BY DEF Then, Records

\* The types of the fields of out.
LEMMA OutTypes ==
  ASSUME NEW o \in OutState
  PROVE  /\ o.epoch \in Nat /\ o.seq \in Nat /\ o.sendBuf \in Seq(Records(OutKinds))
         /\ o.buffering \in BOOLEAN /\ o.notified \in BOOLEAN
BY DEF OutState

\* The write keys change: a new epoch whose numbers start at zero.
LEMMA OutRekey ==
  ASSUME NEW o \in OutState
  PROVE  /\ Rekey(o) \in OutState /\ Rekey(o).err = o.err /\ Rekey(o).sendBuf = o.sendBuf
         /\ (Rekey(o).buffering <=> o.buffering) /\ (Rekey(o).notified <=> o.notified)
         /\ Rekey(o).epoch = o.epoch + 1 /\ Rekey(o).seq = 0
<1>1. PICK n \in Nat : n = o.epoch + 1
  BY OutTypes
<1>2. PICK z \in Nat : z = 0
  OBVIOUS
<1>3. Rekey(o) = [o EXCEPT !.epoch = n, !.seq = z]
  BY <1>1, <1>2 DEF Rekey
<1>4. /\ Rekey(o) \in OutState /\ Rekey(o).err = o.err /\ Rekey(o).sendBuf = o.sendBuf
      /\ (Rekey(o).buffering <=> o.buffering) /\ (Rekey(o).notified <=> o.notified)
      /\ Rekey(o).epoch = n /\ Rekey(o).seq = z
  BY <1>3 DEF OutState
<1> QED
  BY <1>1, <1>2, <1>4

\* The ServerHello changes the keys (TLS 1.3) and starts buffering.
LEMMA TakeServerHelloInv ==
  ASSUME IInv, NEW p \in Procs, TakeServerHello(p)
  PROVE  IInv'
<1> USE DEF Shape, Is, AtSend, HoldsIn, HoldsHs, HoldsOut, Holds, Watched, Shaking
<1>1. /\ th \in [Procs -> Thread] /\ in \in InState /\ in.hand \in Seq(Pieces)
      /\ out \in OutState /\ wire \in Seq(Records(OutKinds))
  BY InTypes DEF IInv, Typed, TypeOK
<1>2. /\ th[p].pc = "use" /\ th[p].stage = "sh" /\ in.hand # <<>>
      /\ in' = IF cfg.v13 THEN Rekey(Taken) ELSE Taken
      /\ out' = [(IF cfg.v13 THEN Rekey(out) ELSE out) EXCEPT !.buffering = TRUE]
      /\ th' = [th EXCEPT ![p].stage = "flight"]
      /\ UNCHANGED <<cfg, complete, handshakeErr, handshakes, lock, active, closing, sock,
                     deadline, wire, peer, calls, intr>>
  BY DEF TakeServerHello, Message, At, shake, interlock
<1>3. in' \in InState /\ in'.err = in.err /\ in'.retry = in.retry
  <2>1. Tail(in.hand) \in Seq(Pieces)
    BY <1>1, <1>2
  <2>2. Taken \in InState /\ Taken.err = in.err /\ Taken.retry = in.retry
    BY <1>1, <2>1, InHand DEF Taken
  <2> QED
    BY <1>2, <2>2, InRekey
<1>4. /\ out' \in OutState /\ out'.err = out.err /\ out'.sendBuf = out.sendBuf
      /\ out'.buffering /\ (out'.notified <=> out.notified)
      /\ \/ out'.epoch = out.epoch /\ out'.seq = out.seq
         \/ out'.epoch = out.epoch + 1 /\ out'.seq = 0
  <2>1. PICK o \in OutState :
          /\ out' = [o EXCEPT !.buffering = TRUE]
          /\ o.err = out.err /\ o.sendBuf = out.sendBuf /\ (o.notified <=> out.notified)
          /\ \/ o.epoch = out.epoch /\ o.seq = out.seq
             \/ o.epoch = out.epoch + 1 /\ o.seq = 0
    BY <1>1, <1>2, OutRekey
  <2>2. /\ out' \in OutState /\ out'.err = o.err /\ out'.sendBuf = o.sendBuf
        /\ out'.buffering /\ (out'.notified <=> o.notified)
        /\ out'.epoch = o.epoch /\ out'.seq = o.seq
    BY <2>1 DEF OutState
  <2> QED
    BY <2>1, <2>2
<1>5. PICK t : /\ Moves(p, t)
               /\ Is(t, th[p].op, "use", th[p].send, "flight", th[p].reneg, th[p].alert,
                     th[p].inerr, th[p].chunk)
  <2> DEFINE t == [th[p] EXCEPT !.stage = "flight"]
  <2>1. t \in Thread
    BY <1>1 DEF Thread
  <2>2. Is(t, th[p].op, "use", th[p].send, "flight", th[p].reneg, th[p].alert,
           th[p].inerr, th[p].chunk)
    BY <1>1, <1>2 DEF Thread
  <2> QED
    BY <1>1, <1>2, <2>1, <2>2 DEF Moves
<1>6. /\ Shape(t) /\ Watched(t, intr'[p]) /\ Holds(t, lock', p)
      /\ \A q \in Procs : q # p => intr'[q] = intr[q] /\ Holds(th[q], lock', q)
  BY <1>2, <1>5, Known
<1>7. lock.hs = p /\ lock.in = p /\ cfg.client /\ ~complete
  BY <1>2, Known, ClientOnly, ConnAssumption DEF IInv, Shook
<1>8. /\ th'[p] = t
      /\ \A q \in Procs : q # p => th'[q] = th[q] /\ ~HoldsHs(th[q]) /\ ~HoldsIn(th[q])
  BY <1>1, <1>5, <1>7, Alone, Known DEF Moves
<1>9. t.pc = "use" /\ t.stage = "flight" /\ t.op = th[p].op /\ (t.reneg <=> th[p].reneg)
  BY <1>5
<1>10. Typed'
  <2>1. th' \in [Procs -> Thread]
    BY <1>1, <1>5 DEF Moves
  <2>2. Typed
    BY DEF IInv
  <2> HIDE DEF Shape, Is, HoldsIn, HoldsHs, HoldsOut, Holds, Watched, Shaking
  <2> QED
    BY <1>2, <1>3, <1>4, <2>1, <2>2 DEF Typed, TypeOK
<1>11. Control' /\ Active'
  <2> HIDE DEF Shape, Is, HoldsIn, HoldsHs, HoldsOut, Holds, Watched, Shaking
  <2> QED
    BY <1>1, <1>2, <1>5, <1>6, <1>9, MoveControl, ActiveLemma DEF IInv
<1>12. Shook'
  <2>1. ~handshakeErr \/ th[p].reneg
    BY <1>2 DEF IInv, Shook
  <2>2. Shook
    BY DEF IInv
  <2>3. \A q \in Procs : HoldsHs(th'[q]) => q = p
    BY <1>8
  <2>4. ~complete /\ lock'.hs # Free /\ complete' = complete /\ handshakeErr' = handshakeErr
        /\ cfg' = cfg
    BY <1>2, <1>7, ConnAssumption
  <2>5. \A q \in Procs : th'[q].pc = "reneg" => ~cfg'.v13
    BY <1>8, <1>9, <2>2, <2>4 DEF Shook
  <2> HIDE DEF Shape, Is, HoldsIn, HoldsHs, HoldsOut, Holds, Watched
  <2> QED
    BY <1>8, <1>9, <2>1, <2>3, <2>4, <2>5 DEF Shook
<1>13. Padded'
  <2>1. cfg'.client
    BY <1>2, <1>7
  <2> QED
    BY <2>1 DEF Padded
<1>14. SockFails' <=> SockFails
  BY <1>2 DEF SockFails
<1>15. Buffered'
  <2>1. ASSUME NEW q \in Procs
        PROVE  /\ th'[q].stage \notin {"ccs", "fin"} /\ th'[q].pc # "flushing"
               /\ th'[q].pc = "sock" => out'.sendBuf = <<>>
    BY <1>2, <1>4, <1>8, <1>9 DEF IInv, Buffered
  <2> QED
    BY <1>2, <1>4, <1>7, <2>1 DEF IInv, Buffered
<1>16. Numbered'
  <2>1. out.epoch \in Nat /\ out.seq \in Nat /\ out.sendBuf \in Seq(Records(OutKinds))
    BY <1>1, OutTypes
  <2>2. ASSUME NEW r \in Records(OutKinds), Then(r, out.epoch, out.seq)
        PROVE  Then(r, out'.epoch, out'.seq)
    BY <1>4, <2>1, <2>2, ThenRekey
  <2>3. /\ wire # <<>> => wire[Len(wire)] \in Records(OutKinds)
        /\ out.sendBuf # <<>> => out.sendBuf[Len(out.sendBuf)] \in Records(OutKinds)
    BY <1>1, <2>1
  <2>4. ASSUME NEW q \in Procs, th'[q].pc = "sock"
        PROVE  /\ th[q].pc = "sock" /\ th'[q].chunk = th[q].chunk
               /\ th[q].chunk[1] \in Records(OutKinds)
    <3>1. th[q].pc = "sock" /\ th'[q].chunk = th[q].chunk
      BY <1>8, <1>9, <2>4
    <3>2. Len(th[q].chunk) = 1 /\ th[q].chunk \in Seq(Records(OutKinds))
      BY <1>1, <3>1, Known DEF Thread
    <3> QED
      BY <3>1, <3>2
  <2>5. out.sendBuf # <<>> => Then(out.sendBuf[Len(out.sendBuf)], out'.epoch, out'.seq)
    BY <2>2, <2>3 DEF IInv, Numbered
  <2>6. ~SockFails /\ wire # <<>> /\ out.sendBuf = <<>> /\ lock.out = Free =>
          Then(wire[Len(wire)], out'.epoch, out'.seq)
    BY <2>2, <2>3 DEF IInv, Numbered
  <2>7. \A q \in Procs : th'[q].pc = "sock" => Then(th'[q].chunk[1], out'.epoch, out'.seq)
    BY <2>2, <2>4 DEF IInv, Numbered
  <2>8. ~SockFails /\ wire # <<>> => \A q \in Procs : th'[q].pc = "sock" =>
          Then(wire[Len(wire)], th'[q].chunk[1].e, th'[q].chunk[1].s)
    BY <2>4 DEF IInv, Numbered
  <2> HIDE DEF HoldsOut
  <2> QED
    BY <1>2, <1>4, <1>14, <2>5, <2>6, <2>7, <2>8 DEF IInv, Numbered
<1>17. Apart'
  <2>1. NoDataInsideHandshake'
    BY <1>2 DEF IInv, Apart, NoDataInsideHandshake
  <2>2. ASSUME NEW q \in Procs
        PROVE  /\ th'[q].stage \notin {"ccs", "fin"} /\ th'[q].pc \notin {"flush", "flushing"}
               /\ th'[q].pc = "sock" /\ th'[q].send = "data" => Over(wire')
    BY <1>2, <1>8, <1>9 DEF IInv, Apart
  <2> QED
    BY <1>2, <1>4, <1>7, <2>1, <2>2 DEF IInv, Apart
<1>18. Hushed'
  <2>1. NothingAfterAlert'
    BY <1>2 DEF IInv, Hushed, NothingAfterAlert
  <2> QED
    BY <1>2, <1>4, <1>8, <1>9, <2>1 DEF IInv, Hushed
<1>19. Limited'
  <2>1. ASSUME NEW q \in Procs, Condemning(th[q])
        PROVE  Condemning(th'[q])
    BY <1>2, <1>8, <2>1 DEF Condemning
  <2> QED
    BY <1>3, <2>1 DEF IInv, Limited
<1>20. Tallied'
  <2>1. Sent("hello")' = Sent("hello") /\ (Healthy' <=> Healthy)
    BY <1>2, <1>4, <1>14 DEF Sent, Healthy
  <2>2. (Greeted(t) <=> Greeted(th[p])) /\ (Reading(t) => Reading(th[p]))
    BY <1>2, <1>9 DEF Greeted, Reading
  <2>3. Healthy => \A n \in DOMAIN out.sendBuf : out.sendBuf[n].k # "hello"
    BY DEF IInv, Tallied
  <2> QED
    BY <1>2, <1>3, <1>4, <1>5, <1>9, <2>1, <2>2, <2>3, Known, TallyLemma
<1> QED
  BY <1>10, <1>11, <1>12, <1>13, <1>15, <1>16, <1>17, <1>18, <1>19, <1>20 DEF IInv

-----------------------------------------------------------------------------
(* The end of a record *)

\* What AfterRecord leaves behind; o is out after encrypt.
After(p, ok, o, t) ==
  LET k == th[p].send IN
  /\ Moves(p, t) /\ t.op = th[p].op /\ t.stage = th[p].stage /\ (t.reneg <=> th[p].reneg)
  /\ t.send = (IF k = "ccs" THEN "fin" ELSE "none") /\ t.chunk = <<>>
  /\ t.pc = CASE k = "data" -> "end"
              [] k = "alert" -> "fail"
              [] k = "close_notify" -> AfterNotify(p)
              [] k = "ku" -> "use"
              [] k = "hello" -> IF ok THEN "use" ELSE "hs_fail"
              [] k = "ccs" -> "out"
              [] k = "fin" -> "flush"
  /\ out' \in OutState /\ out'.sendBuf = o.sendBuf /\ (out'.buffering <=> o.buffering)
  /\ out'.notified <=> o.notified \/ k = "close_notify"
  /\ out'.err = o.err \/ out'.err # "none"
  /\ k = "alert" => out'.err # "none"
  /\ \/ out'.epoch = o.epoch /\ out'.seq = o.seq
     \/ k \in {"ku", "ccs", "fin"} /\ out'.epoch = o.epoch + 1 /\ out'.seq = 0
  /\ in' \in InState /\ in'.retry = in.retry
  /\ in'.err = in.err \/ (k = "alert" /\ in'.err # "none")
  /\ k = "alert" /\ th[p].inerr => in'.err # "none"
  /\ deadline' = IF k = "close_notify" THEN "past" ELSE deadline

\* Where a goroutine goes on after its record has been written or has failed.
LEMMA AfterRecordMoves ==
  ASSUME th \in [Procs -> Thread], in \in InState, NEW p \in Procs, NEW ok \in BOOLEAN,
         NEW o \in OutState, th[p].send \in OutKinds, th[p].send \in {"ccs", "fin"} => ok,
         th[p].send = "alert" => th[p].alert # "none", AfterRecord(p, ok, o)
  PROVE  \E t : After(p, ok, o, t)
<1> DEFINE k == th[p].send
           l == CASE k = "data" -> "end"
                  [] k = "alert" -> "fail"
                  [] k = "close_notify" -> AfterNotify(p)
                  [] k = "ku" -> "use"
                  [] k = "hello" -> IF ok THEN "use" ELSE "hs_fail"
                  [] k = "ccs" -> "out"
                  [] k = "fin" -> "flush"
           n == IF k = "ccs" THEN "fin" ELSE "none"
           t == [th[p] EXCEPT !.pc = l, !.send = n, !.chunk = <<>>, !.alert = "none",
                              !.inerr = FALSE]
<1>1. l \in Places /\ n \in OutKinds \cup {"none"} /\ <<>> \in Seq(Records(OutKinds))
  BY DEF Places, OutKinds, AfterNotify
<1>2. th' = [th EXCEPT ![p] = t]
  <2>1. CASE k = "data"
    BY <2>1 DEF AfterRecord
  <2>2. CASE k = "alert"
    BY <2>2 DEF AfterRecord
  <2>3. CASE k = "close_notify"
    BY <2>3 DEF AfterRecord
  <2>4. CASE k = "ku"
    BY <2>4 DEF AfterRecord
  <2>5. CASE k = "hello"
    <3>1. CASE ok
      BY <2>5, <3>1 DEF AfterRecord
    <3>2. CASE ~ok
      BY <2>5, <3>2 DEF AfterRecord
    <3> QED
      BY <3>1, <3>2
  <2>6. CASE k = "ccs"
    BY <2>6 DEF AfterRecord
  <2>7. CASE k = "fin"
    BY <2>7 DEF AfterRecord
  <2> QED
    BY <2>1, <2>2, <2>3, <2>4, <2>5, <2>6, <2>7 DEF OutKinds
<1>3. PICK m \in Places, z \in OutKinds \cup {"none"} : m = l /\ z = n
  BY <1>1
<1>4. PICK u : u = [th[p] EXCEPT !.pc = m, !.send = z, !.chunk = <<>>, !.alert = "none",
                                 !.inerr = FALSE]
  OBVIOUS
<1>5. u \in Thread
  BY <1>1, <1>4 DEF Thread, Alerts
<1>6. Is(u, th[p].op, m, z, th[p].stage, th[p].reneg, "none", FALSE, <<>>)
  BY <1>4 DEF Is, Thread
<1>7. Moves(p, u)
  BY <1>2, <1>3, <1>4, <1>5 DEF Moves
<1>8. /\ out' \in OutState /\ out'.sendBuf = o.sendBuf /\ (out'.buffering <=> o.buffering)
      /\ out'.notified <=> o.notified \/ k = "close_notify"
      /\ out'.err = o.err \/ out'.err # "none"
      /\ k = "alert" => out'.err # "none"
      /\ \/ out'.epoch = o.epoch /\ out'.seq = o.seq
         \/ k \in {"ku", "ccs", "fin"} /\ out'.epoch = o.epoch + 1 /\ out'.seq = 0
  <2>1. \/ k = "alert" /\ out' = [o EXCEPT !.err = th[p].alert]
        \/ k = "close_notify" /\ out' = [o EXCEPT !.notified = TRUE]
        \/ k \in {"data", "ku"} /\ out' = [o EXCEPT !.err = "io"]
        \/ k \in {"ku", "ccs", "fin"} /\ out' = Rekey(o)
        \/ k \in {"data", "hello", "fin"} /\ out' = o
    BY DEF AfterRecord, AlertSent, NextWriteKey, OutKinds
  <2>2. CASE k = "alert" /\ out' = [o EXCEPT !.err = th[p].alert]
    <3>1. th[p].alert \in {"bad_mac", "unexpected", "no_renegotiation"}
      BY <2>2 DEF Thread, Alerts
    <3> QED
      BY <2>2, <3>1 DEF OutState
  <2>3. CASE k = "close_notify" /\ out' = [o EXCEPT !.notified = TRUE]
    BY <2>3 DEF OutState
  <2>4. CASE k \in {"data", "ku"} /\ out' = [o EXCEPT !.err = "io"]
    BY <2>4 DEF OutState
  <2>5. CASE k \in {"ku", "ccs", "fin"} /\ out' = Rekey(o)
    BY <2>5, OutRekey
  <2>6. CASE k \in {"data", "hello", "fin"} /\ out' = o
    BY <2>6
  <2> QED
    BY <2>1, <2>2, <2>3, <2>4, <2>5, <2>6
<1>9. /\ in' \in InState /\ in'.retry = in.retry
      /\ in'.err = in.err \/ (k = "alert" /\ in'.err # "none")
      /\ k = "alert" /\ th[p].inerr => in'.err # "none"
  <2>1. \/ k = "alert" /\ in' = [in EXCEPT !.err = "alert"]
        \/ ~(k = "alert" /\ th[p].inerr) /\ in' = in
    BY DEF AfterRecord
  <2> QED
    BY <2>1 DEF InState
<1>10. deadline' = IF k = "close_notify" THEN "past" ELSE deadline
  BY DEF AfterRecord
<1>11. u.pc = l /\ u.send = n
  BY <1>3, <1>6 DEF Is
<1> QED
  BY <1>6, <1>7, <1>8, <1>9, <1>10, <1>11 DEF After, Is

\* The goroutine and the handshake after a record.
LEMMA AfterControl ==
  ASSUME IInv, NEW p \in Procs, NEW ok \in BOOLEAN, NEW o, NEW t, After(p, ok, o, t),
         AtSend(th[p]), lock.out = Free \/ th[p].pc = "sock",
         UNCHANGED <<cfg, complete, handshakeErr, handshakes, active, closing, sock, peer, calls,
                     intr>>,
         lock' \in LockState, lock'.hs = lock.hs, lock'.in = lock.in, lock'.out = Free,
         o.buffering <=> out.buffering, wire' \in Seq(Records(OutKinds))
  PROVE  /\ Typed' /\ Control' /\ Active' /\ Shook' /\ Limited'
         /\ t.pc \notin {"sock", "reneg", "hs_ok", "flushing"}
         /\ HoldsHs(t) <=> HoldsHs(th[p])
         /\ th'[p] = t /\ \A q \in Procs : q # p => th'[q] = th[q] /\ th[q].pc # "sock"
<1> DEFINE k == th[p].send
<1>1. th \in [Procs -> Thread] /\ k \in OutKinds
  <2>1. th \in [Procs -> Thread]
    BY DEF IInv, Typed
  <2> QED
    BY <2>1, Known DEF Shape, Thread
<1>2. t.pc \in {"end", "fail", "shut", "use", "hs_fail", "out", "flush"}
  BY <1>1 DEF After, AfterNotify, OutKinds
<1>3. /\ Moves(p, t) /\ t.op = th[p].op /\ t.stage = th[p].stage /\ (t.reneg <=> th[p].reneg)
      /\ t.send = (IF k = "ccs" THEN "fin" ELSE "none") /\ t.chunk = <<>>
      /\ k \in {"data", "close_notify"} => t.pc \in {"end", "shut"}
      /\ k = "close_notify" => t.pc = IF th[p].op = "close" THEN "shut" ELSE "end"
      /\ k = "data" => t.pc = "end"
      /\ k = "alert" => t.pc = "fail"
      /\ k = "ku" => t.pc = "use"
      /\ k = "hello" => t.pc \in {"use", "hs_fail"}
      /\ k = "ccs" => t.pc = "out"
      /\ k = "fin" => t.pc = "flush"
  BY DEF After, AfterNotify
<1>4. /\ out' \in OutState /\ (out'.buffering <=> out.buffering) /\ in' \in InState
      /\ in'.retry = in.retry /\ (in'.err = in.err \/ in'.err # "none")
      /\ k = "alert" /\ th[p].inerr => in'.err # "none"
      /\ deadline' \in {deadline, "past"}
  BY DEF After
<1>5. /\ th'[p] = t
      /\ \A q \in Procs : q # p => th'[q] = th[q] /\ th[q].pc # "sock"
  <2>1. ASSUME NEW q \in Procs, q # p
        PROVE  th[q].pc # "sock"
    <3>1. lock.out = Free \/ lock.out = p
      BY Known DEF Holds, HoldsOut
    <3> QED
      BY <2>1, <3>1, Known DEF Holds, HoldsOut
  <2> QED
    BY <1>1, <1>3, <2>1 DEF Moves
<1>6. Typed'
  BY <1>3, <1>4 DEF IInv, Typed, TypeOK, Moves
<1> USE DEF Shape, AtSend, HoldsIn, HoldsHs, HoldsOut, Holds, Watched, Shaking
<1> HIDE DEF k
<1>7. k = th[p].send
  BY DEF k
<1>8. Shape(t)
  <2>1. Shape(th[p]) /\ th[p].pc \in {"out", "sock"} /\ th[p].reneg \in BOOLEAN
    BY Known
  <2>2. th[p].stage \in Shaking \cup {"none", "failed", "predict"}
    BY <1>1 DEF Thread
  <2>3. CASE k \in {"data", "close_notify"}
    BY <1>3, <1>7, <2>1, <2>3
  <2>4. CASE k \in {"alert", "ku"}
    BY <1>3, <1>7, <2>1, <2>2, <2>4
  <2>5. CASE k = "hello"
    BY <1>3, <1>7, <2>1, <2>5
  <2>6. CASE k \in {"ccs", "fin"}
    BY <1>3, <1>7, <2>1, <2>6
  <2> QED
    BY <1>1, <2>3, <2>4, <2>5, <2>6 DEF OutKinds
<1>9. Watched(t, intr'[p])
  BY <1>1, <1>2, <1>3, <1>7, Known DEF OutKinds
<1>10. Holds(t, lock', p)
  BY <1>1, <1>2, <1>3, <1>7, Known DEF OutKinds
<1>11. \A q \in Procs : q # p => intr'[q] = intr[q] /\ Holds(th[q], lock', q)
  BY <1>5, Known
<1>12. Control' /\ Active'
  BY <1>1, <1>3, <1>8, <1>9, <1>10, <1>11, MoveControl, ActiveLemma DEF IInv
<1>13. HoldsHs(t) <=> HoldsHs(th[p])
  BY <1>2, <1>3
<1>14. Shook'
  BY <1>2, <1>3, <1>4, <1>5 DEF IInv, Shook
<1>15. Limited'
  BY <1>4, <1>5, <1>7 DEF IInv, Limited, Condemning
<1> QED
  BY <1>2, <1>5, <1>6, <1>12, <1>13, <1>14, <1>15

\* A record is sealed with the next number and given to the socket.
LEMMA SendBeginsInv ==
  ASSUME IInv, NEW p \in Procs, SendBegins(p)
  PROVE  IInv'
<1> USE DEF Shape, Is, AtSend, HoldsIn, HoldsHs, HoldsOut, Holds, Watched, Shaking
<1>1. /\ th \in [Procs -> Thread] /\ out \in OutState /\ lock \in LockState
      /\ wire \in Seq(Records(OutKinds)) /\ out.epoch \in Nat /\ out.seq \in Nat
  BY OutTypes DEF IInv, Typed, TypeOK
<1>2. /\ th[p].pc = "out" /\ lock.out = Free /\ ~Refused(p) /\ ~Misfits(th[p].send)
      /\ ~out.buffering /\ lock' = [lock EXCEPT !.out = p]
      /\ out' = [out EXCEPT !.seq = @ + 1]
      /\ deadline' = IF th[p].send = "close_notify" THEN "soon" ELSE deadline
      /\ th' = [th EXCEPT ![p].pc = "sock", ![p].chunk = <<Sealed(p)>>]
      /\ UNCHANGED <<cfg, complete, handshakeErr, handshakes, active, closing, in, sock, wire,
                     peer, calls, intr>>
  BY DEF SendBegins, At, shake, interlock
<1>3. /\ lock' \in LockState /\ lock'.hs = lock.hs /\ lock'.in = lock.in /\ lock'.out = p
  BY <1>1, <1>2 DEF LockState
<1>4. /\ out' \in OutState /\ out'.err = out.err /\ out'.sendBuf = out.sendBuf
      /\ (out'.buffering <=> out.buffering) /\ (out'.notified <=> out.notified)
      /\ out'.epoch = out.epoch /\ out'.seq = out.seq + 1
  <2>1. PICK n \in Nat : n = out.seq + 1
    BY <1>1
  <2>2. out' = [out EXCEPT !.seq = n]
    BY <1>2, <2>1
  <2> QED
    BY <1>1, <2>1, <2>2 DEF OutState
<1>5. th[p].send \in OutKinds /\ th[p].stage # "flight" /\ th[p].send \notin {"ccs", "fin"}
  <2>1. th[p].stage # "flight"
    BY <1>2 DEF IInv, Buffered
  <2>2. th[p].send \in OutKinds \cup {"none"}
    BY <1>1 DEF Thread
  <2> QED
    BY <1>2, <2>1, <2>2, Known
<1>6. PICK r : r = Sealed(p) /\ r \in Records(OutKinds) /\ r.k = th[p].send
               /\ r.e = out.epoch /\ r.s = out.seq
  <2>1. Sealed(p) \in Records(OutKinds)
    BY <1>1, <1>5 DEF Sealed, Records
  <2>2. Sealed(p).k = th[p].send /\ Sealed(p).e = out.epoch /\ Sealed(p).s = out.seq
    BY DEF Sealed
  <2> QED
    BY <2>1, <2>2
<1>7. PICK t : /\ Moves(p, t)
               /\ Is(t, th[p].op, "sock", th[p].send, th[p].stage, th[p].reneg, th[p].alert,
                     th[p].inerr, <<r>>)
  <2> DEFINE t == [th[p] EXCEPT !.pc = "sock", !.chunk = <<r>>]
  <2>1. <<r>> \in Seq(Records(OutKinds))
    BY <1>6
  <2>2. t \in Thread
    <3>1. "sock" \in Places
      BY DEF Places
    <3> QED
      BY <1>1, <2>1, <3>1 DEF Thread
  <2>3. Is(t, th[p].op, "sock", th[p].send, th[p].stage, th[p].reneg, th[p].alert,
           th[p].inerr, <<r>>)
    BY <1>1 DEF Thread
  <2> QED
    BY <1>1, <1>2, <1>6, <2>2, <2>3 DEF Moves
<1>8. /\ t.op = th[p].op /\ t.pc = "sock" /\ t.send = th[p].send /\ t.stage = th[p].stage
      /\ (t.reneg <=> th[p].reneg) /\ (t.inerr <=> th[p].inerr)
      /\ t.chunk # <<>> /\ Len(t.chunk) = 1 /\ t.chunk[1] = r
  BY <1>7
<1>9. /\ Shape(t) /\ Watched(t, intr'[p]) /\ Holds(t, lock', p)
      /\ \A q \in Procs : q # p => intr'[q] = intr[q] /\ Holds(th[q], lock', q)
  <2>1. t.alert = th[p].alert
    BY <1>7
  <2> QED
    BY <1>2, <1>3, <1>5, <1>6, <1>8, <2>1, Known
<1>10. /\ th'[p] = t /\ \A q \in Procs : q # p => th'[q] = th[q] /\ th[q].pc # "sock"
  <2>1. \A q \in Procs : th[q].pc # "sock"
    BY <1>2, Known
  <2> QED
    BY <1>1, <1>7, <2>1 DEF Moves
<1>11. deadline' \in {"none", "soon", "past"} /\ (deadline' # deadline => deadline # "past")
       /\ (deadline' = "past" => deadline = "past")
  <2>1. th[p].send = "close_notify" => ~out.notified
    BY <1>2 DEF Refused
  <2> QED
    BY <1>2, <2>1 DEF IInv, Typed, TypeOK, Buffered
<1>12. SockFails => SockFails'
  BY <1>2, <1>11 DEF SockFails
<1>13. Typed'
  <2>1. th' \in [Procs -> Thread]
    BY <1>1, <1>7 DEF Moves
  <2>2. Typed
    BY DEF IInv
  <2> HIDE DEF Shape, Is, HoldsIn, HoldsHs, HoldsOut, Holds, Watched, Shaking
  <2> QED
    BY <1>2, <1>3, <1>4, <1>11, <2>1, <2>2 DEF Typed, TypeOK
<1>14. Control' /\ Active'
  <2> HIDE DEF Shape, HoldsIn, HoldsHs, HoldsOut, Holds, Watched
  <2> QED
    BY <1>1, <1>2, <1>7, <1>8, <1>9, MoveControl, ActiveLemma DEF IInv
<1>15. Shook'
  <2>1. \A q \in Procs : /\ th'[q].stage = th[q].stage /\ (th'[q].reneg <=> th[q].reneg)
                         /\ HoldsHs(th'[q]) <=> HoldsHs(th[q])
                         /\ th'[q].pc = "hs_ok" <=> th[q].pc = "hs_ok"
                         /\ th'[q].pc = "reneg" => th[q].pc = "reneg"
    BY <1>2, <1>8, <1>10
  <2> HIDE DEF HoldsHs
  <2>2. ASSUME NEW q \in Procs, HoldsHs(th'[q])
        PROVE  /\ complete' <=> th'[q].pc = "hs_ok"
               /\ ~th'[q].reneg => (handshakeErr' <=> th'[q].stage = "failed")
    BY <1>2, <2>1, <2>2 DEF IInv, Shook
  <2>3. out'.buffering /\ ~handshakeErr' => \E q \in Procs : th'[q].stage = "flight"
    BY <1>2, <1>4
  <2>4. \A q \in Procs : th'[q].pc = "reneg" => ~cfg'.v13
    BY <1>2, <2>1 DEF IInv, Shook
  <2> QED
    BY <1>2, <1>3, <2>2, <2>3, <2>4 DEF IInv, Shook
<1>16. Padded'
  <2>1. ~cfg.client => th[p].send # "ku"
    BY <1>2, MisfitsKu
  <2>2. /\ cfg' = cfg /\ complete' = complete /\ wire' = wire /\ lock'.hs = lock.hs
        /\ out'.epoch = out.epoch /\ (out'.buffering <=> out.buffering)
    BY <1>2, <1>3, <1>4
  <2>3. ~cfg.client => \A q \in Procs : th'[q].pc = "sock" => th'[q].send # "ku"
    BY <1>8, <1>10, <2>1
  <2>4. Padded
    BY DEF IInv
  <2> HIDE DEF Shape, Is, HoldsIn, HoldsHs, HoldsOut, Holds, Watched, Shaking
  <2> QED
    BY <2>2, <2>3, <2>4 DEF Padded
<1>17. out.sendBuf = <<>>
  BY <1>2 DEF IInv, Buffered
<1>18. Buffered'
  <2>1. ASSUME NEW q \in Procs
        PROVE  /\ th'[q].stage # "flight" \/ th'[q].pc \in {"hs_ok", "hs_fail"}
               /\ th'[q].pc # "flushing"
    <3>1. CASE q = p
      BY <1>5, <1>8, <1>10, <3>1
    <3>2. CASE q # p
      BY <1>2, <1>10, <1>17, <3>2 DEF IInv, Buffered
    <3> QED
      BY <3>1, <3>2
  <2>2. deadline' = "past" => out'.notified
    BY <1>4, <1>11 DEF IInv, Buffered
  <2> QED
    BY <1>2, <1>4, <1>17, <2>1, <2>2 DEF Buffered
<1>19. Numbered'
  <2>1. ~SockFails /\ wire # <<>> => Then(wire[Len(wire)], r.e, r.s)
    BY <1>2, <1>6, <1>17 DEF IInv, Numbered
  <2>2. Then(r, out'.epoch, out'.seq)
    BY <1>1, <1>4, <1>6 DEF Then
  <2>3. \A q \in Procs : th'[q].pc = "sock" => th'[q].chunk[1] = r
    BY <1>8, <1>10
  <2>4. lock'.out # Free
    BY <1>3, ConnAssumption
  <2>5. Chained(wire') /\ Chained(out'.sendBuf)
    BY <1>2, <1>4 DEF IInv, Numbered
  <2> QED
    BY <1>2, <1>4, <1>12, <1>17, <2>1, <2>2, <2>3, <2>4, <2>5 DEF Numbered
<1>20. Apart'
  <2>1. NoDataInsideHandshake'
    BY <1>2 DEF IInv, Apart, NoDataInsideHandshake
  <2>2. th[p].send = "data" => Over(wire)
    BY <1>2 DEF IInv, Apart, Refused, MayWrite
  <2>3. ASSUME NEW q \in Procs
        PROVE  /\ th'[q].stage \in {"ccs", "fin"} => Over(wire')
               /\ th'[q].pc = "sock" /\ th'[q].send = "data" => Over(wire')
               /\ th'[q].pc \in {"flush", "flushing"} /\ th'[q].stage = "flight" =>
                    Ends(out'.sendBuf)
    <3>1. CASE q = p
      <4>1. th[p].stage \in {"ccs", "fin"} => Over(wire)
        BY DEF IInv, Apart
      <4> QED
        BY <1>2, <1>8, <1>10, <2>2, <3>1, <4>1
    <3>2. CASE q # p
      BY <1>2, <1>4, <1>10, <3>2 DEF IInv, Apart
    <3> QED
      BY <3>1, <3>2
  <2> QED
    BY <1>2, <1>4, <2>1, <2>3 DEF IInv, Apart
<1>21. Hushed'
  <2>1. NothingAfterAlert'
    BY <1>2 DEF IInv, Hushed, NothingAfterAlert
  <2>2. th[p].send = "data" => Quiet(wire)
    BY <1>2 DEF IInv, Hushed, Refused, MayWrite
  <2>3. \A q \in Procs : th'[q].pc = "sock" /\ th'[q].send = "data" => Quiet(wire')
    BY <1>2, <1>8, <1>10, <2>2
  <2>4. out'.err = "none" /\ ~out'.notified => Quiet(wire') /\ Quiet(out'.sendBuf)
    BY <1>2, <1>4 DEF IInv, Hushed
  <2> HIDE DEF Shape, Is, HoldsIn, HoldsHs, HoldsOut, Holds, Watched, Shaking
  <2> QED
    BY <2>1, <2>3, <2>4 DEF Hushed
<1>22. Limited'
  <2>1. ASSUME NEW q \in Procs, Condemning(th[q])
        PROVE  Condemning(th'[q])
    BY <1>2, <1>8, <1>10, <2>1 DEF Condemning
  <2> QED
    BY <1>2, <2>1 DEF IInv, Limited
<1>23. Tallied'
  <2>1. Sent("hello")' = Sent("hello") /\ (Healthy' => Healthy)
    BY <1>2, <1>4, <1>12 DEF Sent, Healthy
  <2>2. /\ Greeted(t) <=> Greeted(th[p])
        /\ Reading(t) => Reading(th[p])
        /\ HoldsHs(t) => HoldsHs(th[p])
    BY <1>2, <1>8 DEF Greeted, Reading
  <2>3. Healthy' => \A n \in DOMAIN out'.sendBuf : out'.sendBuf[n].k # "hello"
    BY <1>4, <2>1 DEF IInv, Tallied
  <2> QED
    BY <1>2, <1>3, <1>4, <1>7, <1>8, <2>1, <2>2, <2>3, Known, TallyLemma
<1> QED
  BY <1>13, <1>14, <1>15, <1>16, <1>18, <1>19, <1>20, <1>21, <1>22, <1>23 DEF IInv

-----------------------------------------------------------------------------
(* Sequences of records *)

\* A position past the first of two sequences is a position of the second.
LEMMA Beyond ==
  ASSUME NEW a \in Nat, NEW b \in Nat, NEW n \in 1 .. (a + b), n > a
  PROVE  \E i \in 1 .. b : n = a + i
<1>1. n - a \in 1 .. b /\ n = a + (n - a)
  OBVIOUS
<1> QED
  BY <1>1

\* What the prover needs of concatenation.
LEMMA ConcatFacts ==
  ASSUME NEW a \in Seq(Records(OutKinds)), NEW b \in Seq(Records(OutKinds))
  PROVE  /\ a \o b \in Seq(Records(OutKinds)) /\ Len(a \o b) = Len(a) + Len(b)
         /\ \A i \in 1 .. Len(a) : (a \o b)[i] = a[i]
         /\ \A i \in 1 .. Len(b) : (a \o b)[Len(a) + i] = b[i]
         /\ Len(a) \in Nat /\ Len(b) \in Nat
OBVIOUS

\* One chain goes on where another ends.
LEMMA ChainConcat ==
  ASSUME NEW a \in Seq(Records(OutKinds)), NEW b \in Seq(Records(OutKinds)), b # <<>>,
         Chained(a), Chained(b), a # <<>> => Then(a[Len(a)], b[1].e, b[1].s)
  PROVE  /\ Chained(a \o b) /\ a \o b # <<>>
         /\ (a \o b)[Len(a \o b)] = b[Len(b)]
         /\ a # <<>> => (a \o b)[1] = a[1]
         /\ a = <<>> => (a \o b)[1] = b[1]
<1>1. Len(b) > 0 /\ (a # <<>> => Len(a) > 0) /\ (a = <<>> => Len(a) = 0)
  OBVIOUS
<1> DEFINE c == a \o b
<1>2. /\ c \in Seq(Records(OutKinds)) /\ Len(c) = Len(a) + Len(b)
      /\ \A i \in 1 .. Len(a) : c[i] = a[i]
      /\ \A i \in 1 .. Len(b) : c[Len(a) + i] = b[i]
      /\ Len(a) \in Nat /\ Len(b) \in Nat
  BY ConcatFacts
<1> HIDE DEF c
<1>3. ASSUME NEW n \in 1 .. Len(c) - 1
      PROVE  Then(c[n], c[n + 1].e, c[n + 1].s)
  <2>1. CASE n < Len(a)
    <3>1. c[n] = a[n] /\ c[n + 1] = a[n + 1] /\ n \in 1 .. Len(a) - 1
      BY <1>2, <2>1
    <3> QED
      BY <3>1 DEF Chained
  <2>2. CASE n = Len(a)
    <3>1. c[n] = a[Len(a)] /\ a # <<>>
      BY <1>1, <1>2, <2>2
    <3>2. c[n + 1] = b[1]
      BY <1>1, <1>2, <2>2
    <3> QED
      BY <3>1, <3>2
  <2>3. CASE n > Len(a)
    <3>1. PICK i \in 1 .. Len(b) - 1 : n = Len(a) + i
      <4>1. n \in 1 .. (Len(a) + Len(b)) /\ n < Len(a) + Len(b)
        BY <1>2
      <4>2. PICK i \in 1 .. Len(b) : n = Len(a) + i
        BY <1>2, <2>3, <4>1, Beyond
      <4>3. i \in 1 .. Len(b) - 1
        BY <1>2, <4>1, <4>2
      <4> QED
        BY <4>2, <4>3
    <3>2. c[n] = b[i] /\ c[n + 1] = b[i + 1]
      <4>1. i \in 1 .. Len(b) /\ i + 1 \in 1 .. Len(b) /\ n + 1 = Len(a) + (i + 1)
        BY <1>2, <3>1
      <4> QED
        BY <1>2, <3>1, <4>1
    <3> QED
      BY <3>1, <3>2 DEF Chained
  <2> QED
    BY <1>2, <2>1, <2>2, <2>3
<1>4. Chained(c)
  BY <1>3 DEF Chained
<1>5. c[Len(c)] = b[Len(b)] /\ c # <<>>
  BY <1>1, <1>2
<1>6. (a # <<>> => c[1] = a[1]) /\ (a = <<>> => c[1] = b[1])
  BY <1>1, <1>2
<1> QED
  BY <1>4, <1>5, <1>6 DEF c

\* One record alone is chained.
LEMMA ChainOne ==
  ASSUME NEW b \in Seq(Records(OutKinds)), Len(b) = 1
  PROVE  Chained(b) /\ b # <<>> /\ DOMAIN b = {1}
BY DEF Chained

\* Records after the end of a handshake, none of them a hello, leave it ended.
LEMMA OverConcat ==
  ASSUME NEW a \in Seq(Records(OutKinds)), NEW b \in Seq(Records(OutKinds)),
         \/ Ends(b)
         \/ Over(a) /\ \A n \in DOMAIN b : b[n].k # "hello"
  PROVE  Over(a \o b)
<1> DEFINE c == a \o b
<1>1. /\ c \in Seq(Records(OutKinds)) /\ Len(c) = Len(a) + Len(b)
      /\ \A i \in 1 .. Len(a) : c[i] = a[i]
      /\ \A i \in 1 .. Len(b) : c[Len(a) + i] = b[i]
      /\ Len(a) \in Nat /\ Len(b) \in Nat
  BY ConcatFacts
<1> HIDE DEF c
<1>2. SUFFICES ASSUME NEW m \in 1 .. Len(c), c[m].k = "hello"
               PROVE  \E l \in m .. Len(c) : c[l].k = "fin"
  BY <1>1 DEF Over, c
<1>3. CASE Ends(b)
  <2>1. PICK l \in 1 .. Len(b) : b[l].k = "fin" /\ \A i \in l .. Len(b) : b[i].k # "hello"
    BY <1>3 DEF Ends
  <2>2. c[Len(a) + l].k = "fin" /\ Len(a) + l \in 1 .. Len(c)
    BY <1>1, <2>1
  <2>3. m <= Len(a) + l
    <3>1. SUFFICES ASSUME m > Len(a) + l PROVE FALSE
      BY <1>1, <1>2, <2>1
    <3>2. PICK i \in l .. Len(b) : m = Len(a) + i
      <4>1. m > Len(a) /\ m \in 1 .. (Len(a) + Len(b))
        BY <1>1, <2>1, <3>1
      <4>2. PICK i \in 1 .. Len(b) : m = Len(a) + i
        BY <1>1, <4>1, Beyond
      <4>3. i \in l .. Len(b)
        BY <1>1, <2>1, <3>1, <4>2
      <4> QED
        BY <4>2, <4>3
    <3>3. c[m] = b[i]
      BY <1>1, <2>1, <3>2
    <3> QED
      BY <1>2, <2>1, <3>2, <3>3
  <2> QED
    BY <1>1, <1>2, <2>1, <2>2, <2>3
<1>4. CASE Over(a) /\ \A n \in DOMAIN b : b[n].k # "hello"
  <2>1. m \in 1 .. Len(a)
    <3>1. SUFFICES ASSUME m > Len(a) PROVE FALSE
      BY <1>1, <1>2
    <3>2. PICK i \in 1 .. Len(b) : m = Len(a) + i
      <4>1. m \in 1 .. (Len(a) + Len(b))
        BY <1>1
      <4> QED
        BY <1>1, <3>1, <4>1, Beyond
    <3>3. c[m] = b[i] /\ i \in DOMAIN b
      BY <1>1, <3>2
    <3> QED
      BY <1>2, <1>4, <3>3
  <2>2. PICK l \in m .. Len(a) : a[l].k = "fin"
    <3>1. m \in DOMAIN a /\ a[m].k = "hello"
      BY <1>1, <1>2, <2>1
    <3> QED
      BY <1>4, <3>1 DEF Over
  <2> QED
    BY <1>1, <2>1, <2>2
<1> QED
  BY <1>3, <1>4

\* Data goes to a wire whose handshakes are over.
LEMMA DataConcat ==
  ASSUME NEW b \in Seq(Records(OutKinds)), wire \in Seq(Records(OutKinds)),
         wire' = wire \o b, NoDataInsideHandshake,
         \/ \A n \in DOMAIN b : b[n].k # "data"
         \/ Len(b) = 1 /\ b[1].k # "hello" /\ Over(wire)
  PROVE  NoDataInsideHandshake'
<1>1. /\ wire' \in Seq(Records(OutKinds)) /\ Len(wire') = Len(wire) + Len(b)
      /\ \A i \in 1 .. Len(wire) : wire'[i] = wire[i]
      /\ \A i \in 1 .. Len(b) : wire'[Len(wire) + i] = b[i]
      /\ Len(wire) \in Nat /\ Len(b) \in Nat
  BY ConcatFacts
<1>2. SUFFICES ASSUME NEW n \in 1 .. Len(wire'), wire'[n].k = "data",
                      NEW m \in 1 .. n, wire'[m].k = "hello"
               PROVE  \E l \in m .. n : wire'[l].k = "fin"
  <2>1. DOMAIN wire' = 1 .. Len(wire')
    BY <1>1
  <2> QED
    BY <2>1 DEF NoDataInsideHandshake
<1>3. CASE n <= Len(wire)
  <2>1. PICK l \in m .. n : wire[l].k = "fin"
    BY <1>1, <1>2, <1>3 DEF NoDataInsideHandshake
  <2> QED
    BY <1>1, <1>3, <2>1
<1>4. CASE n > Len(wire)
  <2>1. PICK i \in 1 .. Len(b) : n = Len(wire) + i
    BY <1>1, <1>4
  <2>2. Len(b) = 1 /\ b[1].k # "hello" /\ Over(wire)
    BY <1>1, <1>2, <2>1
  <2>3. m \in 1 .. Len(wire)
    BY <1>1, <1>2, <2>1, <2>2
  <2>4. PICK l \in m .. Len(wire) : wire[l].k = "fin"
    BY <1>1, <1>2, <2>2, <2>3 DEF Over
  <2> QED
    BY <1>1, <1>4, <2>3, <2>4
<1> QED
  BY <1>1, <1>3, <1>4

\* Two sequences without alerts make one without alerts.
LEMMA QuietConcat ==
  ASSUME NEW a \in Seq(Records(OutKinds)), NEW b \in Seq(Records(OutKinds)),
         Quiet(a), Quiet(b)
  PROVE  Quiet(a \o b)
<1> DEFINE c == a \o b
<1>1. /\ c \in Seq(Records(OutKinds)) /\ Len(c) = Len(a) + Len(b)
      /\ \A i \in 1 .. Len(a) : c[i] = a[i]
      /\ \A i \in 1 .. Len(b) : c[Len(a) + i] = b[i]
      /\ Len(a) \in Nat /\ Len(b) \in Nat
  BY ConcatFacts
<1> HIDE DEF c
<1>2. ASSUME NEW n \in 1 .. Len(c)
      PROVE  c[n].k \notin {"alert", "close_notify"}
  <2>1. CASE n <= Len(a)
    BY <1>1, <2>1 DEF Quiet
  <2>2. CASE n > Len(a)
    <3>1. PICK i \in 1 .. Len(b) : n = Len(a) + i
      <4>1. n \in 1 .. (Len(a) + Len(b))
        BY <1>1
      <4> QED
        BY <1>1, <2>2, <4>1, Beyond
    <3> QED
      BY <1>1, <3>1 DEF Quiet
  <2> QED
    BY <1>1, <2>1, <2>2
<1> QED
  BY <1>1, <1>2 DEF Quiet, c

\* Data goes to a wire without alerts.
LEMMA AlertConcat ==
  ASSUME NEW b \in Seq(Records(OutKinds)), wire \in Seq(Records(OutKinds)),
         wire' = wire \o b, NothingAfterAlert,
         \/ \A n \in DOMAIN b : b[n].k # "data"
         \/ Quiet(wire) /\ Quiet(b)
  PROVE  NothingAfterAlert'
<1>1. /\ wire' \in Seq(Records(OutKinds)) /\ Len(wire') = Len(wire) + Len(b)
      /\ \A i \in 1 .. Len(wire) : wire'[i] = wire[i]
      /\ \A i \in 1 .. Len(b) : wire'[Len(wire) + i] = b[i]
      /\ Len(wire) \in Nat /\ Len(b) \in Nat
  BY ConcatFacts
<1>2. CASE Quiet(wire) /\ Quiet(b)
  <2>1. Quiet(wire')
    BY <1>2, QuietConcat
  <2> QED
    BY <1>1, <2>1 DEF Quiet, NothingAfterAlert
<1>3. CASE \A n \in DOMAIN b : b[n].k # "data"
  <2>1. SUFFICES ASSUME NEW n \in 1 .. Len(wire'), wire'[n].k = "data"
                 PROVE  \A m \in 1 .. n : wire'[m].k \notin {"alert", "close_notify"}
    BY <1>1 DEF NothingAfterAlert
  <2>2. n <= Len(wire)
    <3>1. SUFFICES ASSUME n > Len(wire) PROVE FALSE
      BY <1>1
    <3>2. PICK i \in 1 .. Len(b) : n = Len(wire) + i
      BY <1>1, <3>1
    <3> QED
      BY <1>1, <1>3, <2>1, <3>2
  <2> QED
    BY <1>1, <2>1, <2>2 DEF NothingAfterAlert
<1> QED
  BY <1>2, <1>3

\* The records of one kind.
LEMMA SentConcat ==
  ASSUME NEW k, NEW b \in Seq(Records(OutKinds)), wire \in Seq(Records(OutKinds)),
         wire' = wire \o b
  PROVE  /\ Sent(k) \in Nat
         /\ (\A n \in DOMAIN b : b[n].k # k) => Sent(k)' = Sent(k)
         /\ Len(b) = 1 /\ b[1].k = k => Sent(k)' = Sent(k) + 1
<1> DEFINE S == {n \in DOMAIN wire : wire[n].k = k}
           T == {n \in DOMAIN wire' : wire'[n].k = k}
<1>1. /\ wire' \in Seq(Records(OutKinds)) /\ Len(wire') = Len(wire) + Len(b)
      /\ \A i \in 1 .. Len(wire) : wire'[i] = wire[i]
      /\ \A i \in 1 .. Len(b) : wire'[Len(wire) + i] = b[i]
      /\ Len(wire) \in Nat /\ Len(b) \in Nat
  BY ConcatFacts
<1>2. IsFiniteSet(S)
  <2>1. IsFiniteSet(1 .. Len(wire)) /\ S \subseteq 1 .. Len(wire)
    <3>1. DOMAIN wire = 1 .. Len(wire) /\ 1 \in Int /\ Len(wire) \in Int
      OBVIOUS
    <3> QED
      BY <3>1, FS_Interval
  <2> QED
    BY <2>1, FS_Subset
<1>3. Sent(k) = Cardinality(S) /\ Sent(k)' = Cardinality(T)
  BY DEF Sent
<1>4. ASSUME \A n \in DOMAIN b : b[n].k # k
      PROVE  T = S
  <2>1. ASSUME NEW n \in T
        PROVE  n \in S
    <3>1. CASE n <= Len(wire)
      BY <1>1, <3>1
    <3>2. CASE n > Len(wire)
      <4>1. PICK i \in 1 .. Len(b) : n = Len(wire) + i
        BY <1>1, <3>2
      <4> QED
        BY <1>1, <1>4, <4>1
    <3> QED
      BY <1>1, <3>1, <3>2
  <2>2. ASSUME NEW n \in S
        PROVE  n \in T
    BY <1>1
  <2> QED
    BY <2>1, <2>2
<1>5. ASSUME Len(b) = 1, b[1].k = k
      PROVE  T = S \cup {Len(wire) + 1} /\ Len(wire) + 1 \notin S
  BY <1>1, <1>5
<1> HIDE DEF S, T
<1>6. Cardinality(S) \in Nat
  BY <1>2, FS_CardinalityType
<1>7. Len(b) = 1 /\ b[1].k = k => Cardinality(T) = Cardinality(S) + 1
  BY <1>2, <1>5, FS_AddElement
<1> QED
  BY <1>3, <1>4, <1>6, <1>7

-----------------------------------------------------------------------------
(* Records that leave *)

\* Appending is concatenation with one record.
LEMMA AppendConcat ==
  ASSUME NEW a \in Seq(Records(OutKinds)), NEW r \in Records(OutKinds)
  PROVE  Append(a, r) = a \o <<r>> /\ <<r>> \in Seq(Records(OutKinds)) /\ Len(<<r>>) = 1
         /\ <<r>>[1] = r
OBVIOUS

\* The record a goroutine seals carries c.out's epoch and number.
LEMMA SealedRecord ==
  ASSUME IInv, NEW p \in Procs, AtSend(th[p])
  PROVE  /\ th[p].send \in OutKinds /\ Sealed(p) \in Records(OutKinds)
         /\ Sealed(p).k = th[p].send /\ Sealed(p).e = out.epoch /\ Sealed(p).s = out.seq
<1>1. out.epoch \in Nat /\ out.seq \in Nat
  BY OutTypes DEF IInv, Typed, TypeOK
<1>2. th[p].send \in OutKinds
  <2>1. th[p].send \in OutKinds \cup {"none"}
    BY DEF IInv, Typed, Thread
  <2> QED
    BY <2>1, Known DEF Shape
<1>3. Sealed(p) \in Records(OutKinds)
  BY <1>1, <1>2 DEF Sealed, Records
<1> QED
  BY <1>2, <1>3 DEF Sealed

\* A record is sealed into sendBuf instead of being written.
LEMMA SendBufferedInv ==
  ASSUME IInv, NEW p \in Procs, SendBuffered(p)
  PROVE  IInv'
<1> DEFINE k == th[p].send
<1>1. /\ th \in [Procs -> Thread] /\ in \in InState /\ out \in OutState /\ lock \in LockState
      /\ wire \in Seq(Records(OutKinds)) /\ out.epoch \in Nat /\ out.seq \in Nat
      /\ out.sendBuf \in Seq(Records(OutKinds))
  BY OutTypes DEF IInv, Typed, TypeOK
<1>2. /\ th[p].pc = "out" /\ lock.out = Free /\ ~Refused(p) /\ ~Misfits(th[p].send)
      /\ out.buffering
      /\ AfterRecord(p, TRUE, [out EXCEPT !.seq = @ + 1, !.sendBuf = Append(@, Sealed(p))])
      /\ UNCHANGED <<cfg, complete, handshakeErr, handshakes, lock, active, closing, sock, wire,
                     peer, calls, intr>>
  BY DEF SendBuffered, At, shake, interlock
<1>3. PICK r \in Records(OutKinds) :
        r = Sealed(p) /\ r.k = k /\ r.e = out.epoch /\ r.s = out.seq /\ k \in OutKinds
  BY <1>2, SealedRecord DEF AtSend
<1> DEFINE sb == out.sendBuf \o <<r>>
<1>4. /\ sb = Append(out.sendBuf, r) /\ sb \in Seq(Records(OutKinds))
      /\ <<r>> \in Seq(Records(OutKinds)) /\ Len(<<r>>) = 1 /\ <<r>>[1] = r
  BY <1>1, <1>3, AppendConcat
<1> HIDE DEF sb
<1>5. PICK o \in OutState :
        /\ AfterRecord(p, TRUE, o) /\ o.err = out.err /\ o.sendBuf = sb /\ o.buffering
        /\ (o.notified <=> out.notified) /\ o.epoch = out.epoch /\ o.seq = out.seq + 1
  <2>1. PICK n \in Nat : n = out.seq + 1
    BY <1>1
  <2>2. PICK o : o = [out EXCEPT !.seq = n, !.sendBuf = sb]
    OBVIOUS
  <2>3. /\ o \in OutState /\ o.err = out.err /\ o.sendBuf = sb
        /\ (o.buffering <=> out.buffering)
        /\ (o.notified <=> out.notified) /\ o.epoch = out.epoch /\ o.seq = n
    BY <1>1, <1>4, <2>2 DEF OutState
  <2>4. AfterRecord(p, TRUE, o)
    BY <1>2, <1>3, <1>4, <2>1, <2>2
  <2> QED
    BY <1>2, <2>1, <2>3, <2>4
<1>6. PICK t : After(p, TRUE, o, t)
  BY <1>1, <1>2, <1>3, <1>5, Known, AfterRecordMoves DEF Shape, AtSend
<1>7. /\ Typed' /\ Control' /\ Active' /\ Shook' /\ Limited'
      /\ t.pc \notin {"sock", "reneg", "hs_ok", "flushing"}
      /\ HoldsHs(t) <=> HoldsHs(th[p])
      /\ th'[p] = t /\ \A q \in Procs : q # p => th'[q] = th[q] /\ th[q].pc # "sock"
  BY <1>1, <1>2, <1>5, <1>6, AfterControl DEF AtSend
<1>8. /\ Moves(p, t) /\ t.stage = th[p].stage /\ (t.reneg <=> th[p].reneg)
      /\ out'.sendBuf = sb /\ out'.buffering
      /\ out'.notified <=> out.notified \/ k = "close_notify"
      /\ out'.err = out.err \/ out'.err # "none"
      /\ k = "alert" => out'.err # "none"
      /\ \/ out'.epoch = out.epoch /\ out'.seq = out.seq + 1
         \/ out'.epoch = out.epoch + 1 /\ out'.seq = 0
      /\ in'.err = in.err \/ (k = "alert" /\ in'.err # "none")
      /\ deadline' = IF k = "close_notify" THEN "past" ELSE deadline
  BY <1>5, <1>6 DEF After
<1>9. /\ k = "alert" => t.pc = "fail"
      /\ k \in {"data", "close_notify"} => t.pc \in {"end", "shut"}
      /\ k \in {"ku", "hello"} => t.pc = "use"
      /\ k = "ccs" => t.pc = "out"
      /\ k = "fin" => t.pc = "flush"
      /\ t.send = IF k = "ccs" THEN "fin" ELSE "none"
  BY <1>6 DEF After, AfterNotify
<1>10. ~complete /\ k # "data" /\ cfg.client
  <2>1. ~complete
    BY <1>2 DEF IInv, Buffered
  <2> QED
    BY <1>2, <2>1, ClientOnly DEF Refused, MayWrite
<1>11. SockFails => SockFails'
  BY <1>2, <1>8 DEF SockFails
<1>12. deadline' = "past" => out'.notified
  BY <1>8 DEF IInv, Buffered
\* Only a close_notify does not wait for in.Mutex.
<1>13. ASSUME NEW q \in Procs, q # p, HoldsIn(th[q])
       PROVE  k = "close_notify"
  <2>1. ~HoldsIn(th[p])
    BY <1>13, Known DEF Holds
  <2> QED
    BY <1>2, <1>3, <1>10, <2>1 DEF HoldsIn, AtSend, OutKinds
<1>14. sb # <<>> /\ (\A n \in DOMAIN out.sendBuf : sb[n] = out.sendBuf[n])
       /\ Len(sb) = Len(out.sendBuf) + 1 /\ sb[Len(sb)] = r
  BY <1>1, <1>3, <1>4
<1> HIDE DEF k
<1>15. k = th[p].send
  BY DEF k
<1>16. Padded'
  BY <1>2, <1>10 DEF Padded
<1>17. Buffered'
  <2>1. ASSUME NEW q \in Procs
        PROVE  /\ th'[q].stage \notin {"ccs", "fin"} /\ th'[q].pc # "sock"
               /\ th'[q].pc = "flushing" => SockFails'
    <3>1. CASE q = p
      BY <1>2, <1>7, <1>8, <3>1 DEF IInv, Buffered
    <3>2. CASE q # p
      <4>1. th[q].pc = "flushing" => k = "close_notify"
        BY <1>13, <3>2 DEF HoldsIn
      <4> QED
        BY <1>2, <1>7, <1>8, <3>2, <4>1 DEF IInv, Buffered, SockFails
    <3> QED
      BY <3>1, <3>2
  <2> QED
    BY <1>2, <1>8, <1>10, <1>12, <1>14, <2>1 DEF Buffered
<1>18. Numbered'
  <2>1. out.sendBuf # <<>> => Then(out.sendBuf[Len(out.sendBuf)], r.e, r.s)
    BY <1>3 DEF IInv, Numbered
  <2>2. Chained(<<r>>) /\ <<r>> # <<>>
    BY <1>4, ChainOne
  <2>3. /\ Chained(sb)
        /\ out.sendBuf # <<>> => sb[1] = out.sendBuf[1]
        /\ out.sendBuf = <<>> => sb[1] = r
    BY <1>1, <1>4, <2>1, <2>2, ChainConcat DEF sb, IInv, Numbered
  <2>4. Then(r, out'.epoch, out'.seq)
    BY <1>1, <1>3, <1>8 DEF Then
  <2>5. ~SockFails /\ wire # <<>> => Then(wire[Len(wire)], sb[1].e, sb[1].s)
    BY <1>2, <1>3, <2>3 DEF IInv, Numbered
  <2>6. \A q \in Procs : th'[q].pc # "sock"
    BY <1>7
  <2>7. Chained(wire)
    BY DEF IInv, Numbered
  <2> QED
    BY <1>2, <1>8, <1>11, <1>14, <2>3, <2>4, <2>5, <2>6, <2>7 DEF Numbered
<1>19. Apart'
  <2>1. NoDataInsideHandshake'
    BY <1>2 DEF IInv, Apart, NoDataInsideHandshake
  <2>2. \A n \in DOMAIN sb : sb[n].k # "data"
    <3>1. \A n \in DOMAIN sb : n \in DOMAIN out.sendBuf \/ n = Len(sb)
      BY <1>1, <1>4, <1>14
    <3> QED
      BY <1>3, <1>10, <1>14, <3>1 DEF IInv, Apart, k
  <2>3. ASSUME k # "hello", Ends(out.sendBuf)
        PROVE  Ends(sb)
    <3>1. PICK l \in 1 .. Len(out.sendBuf) :
            out.sendBuf[l].k = "fin" /\ \A m \in l .. Len(out.sendBuf) : out.sendBuf[m].k # "hello"
      BY <1>1, <2>3 DEF Ends
    <3>2. sb[l].k = "fin" /\ l \in DOMAIN sb
      BY <1>14, <3>1
    <3>3. ASSUME NEW m \in l .. Len(sb)
          PROVE  sb[m].k # "hello"
      <4>1. m \in l .. Len(out.sendBuf) \/ m = Len(sb)
        BY <1>14, <3>1
      <4>2. CASE m \in l .. Len(out.sendBuf)
        BY <1>14, <3>1, <4>2
      <4>3. CASE m = Len(sb)
        BY <1>3, <1>14, <2>3, <4>3 DEF k
      <4> QED
        BY <4>1, <4>2, <4>3
    <3> QED
      BY <3>2, <3>3 DEF Ends
  <2>4. k = "fin" => Ends(sb)
    BY <1>3, <1>4, <1>14 DEF Ends, k
  <2>5. ASSUME NEW q \in Procs
        PROVE  /\ th'[q].stage \notin {"ccs", "fin"} /\ th'[q].pc # "sock"
               /\ th'[q].pc \in {"flush", "flushing"} /\ th'[q].stage = "flight" => Ends(sb)
    <3>1. th[q].stage \notin {"ccs", "fin"}
      BY <1>2 DEF IInv, Buffered
    <3>2. CASE q = p
      BY <1>3, <1>7, <1>8, <1>9, <2>4, <3>1, <3>2 DEF OutKinds, k
    <3>3. CASE q # p
      <4>1. th[q].pc \in {"flush", "flushing"} => k = "close_notify"
        BY <1>13, <3>3 DEF HoldsIn
      <4>2. th[q].pc \in {"flush", "flushing"} /\ th[q].stage = "flight" => Ends(out.sendBuf)
        BY DEF IInv, Apart
      <4> QED
        BY <1>7, <2>3, <3>1, <3>3, <4>1, <4>2
    <3> QED
      BY <3>2, <3>3
  <2> QED
    BY <1>2, <1>8, <1>10, <2>1, <2>2, <2>5 DEF Apart
<1>20. Hushed'
  <2>1. NothingAfterAlert'
    BY <1>2 DEF IInv, Hushed, NothingAfterAlert
  <2>2. ASSUME out'.err = "none", ~out'.notified
        PROVE  Quiet(wire) /\ Quiet(sb)
    <3>1. out.err = "none" /\ ~out.notified /\ k \notin {"alert", "close_notify"}
      BY <1>8, <2>2
    <3>2. Quiet(wire) /\ Quiet(out.sendBuf)
      BY <3>1 DEF IInv, Hushed
    <3>3. Quiet(<<r>>)
      BY <1>3, <1>4, <3>1 DEF Quiet, k
    <3> QED
      BY <1>1, <1>4, <3>2, <3>3, QuietConcat DEF sb
  <2>3. \A q \in Procs : th'[q].pc # "sock"
    BY <1>7
  <2> QED
    BY <1>2, <1>8, <2>1, <2>2, <2>3 DEF Hushed
<1>21. Tallied'
  <2>1. Sent("hello")' = Sent("hello")
    BY <1>2 DEF Sent
  <2>2. Healthy' => Healthy
    BY <1>8, <1>11 DEF Healthy
  \* Buffering before the ClientHello is left over from a handshake that failed.
  <2>3. k = "hello" => ~Healthy
    <3>1. SUFFICES ASSUME k = "hello", Healthy PROVE FALSE
      OBVIOUS
    <3>2. th[p].stage = "sh" /\ HoldsHs(th[p]) /\ lock.hs = p
      <4>1. th[p].stage = "sh"
        <5>1. th[p].pc = "out" /\ th[p].send = "hello"
          BY <1>2, <1>15, <3>1
        <5>2. Shape(th[p])
          BY Known
        <5> QED
          BY <5>1, <5>2 DEF Shape, AtSend
      <4>2. HoldsHs(th[p])
        BY <4>1 DEF HoldsHs, Shaking
      <4> QED
        BY <4>1, <4>2, Known DEF Holds
    <3>3. ~th[p].reneg => ~handshakeErr
      BY <3>2 DEF IInv, Shook
    <3>4. th[p].reneg => in.err = "none"
      BY <1>2, <1>15, <3>1, Known DEF Reading, AtSend
    <3>5. ~handshakeErr
      BY <3>1, <3>3, <3>4, Known DEF IInv, Tallied
    <3>6. PICK q \in Procs : th[q].stage = "flight"
      BY <1>2, <3>5 DEF IInv, Shook
    <3> QED
      BY <3>2, <3>6, Alone DEF HoldsHs, Shaking
  <2>4. Healthy' => \A n \in DOMAIN sb : sb[n].k # "hello"
    <3>1. \A n \in DOMAIN sb : n \in DOMAIN out.sendBuf \/ n = Len(sb)
      BY <1>1, <1>4, <1>14
    <3>2. Healthy => \A n \in DOMAIN out.sendBuf : out.sendBuf[n].k # "hello"
      BY DEF IInv, Tallied
    <3> QED
      BY <1>3, <1>14, <2>2, <2>3, <3>1, <3>2 DEF k
  <2>5. Healthy' => (Greeted(t) <=> Greeted(th[p]))
    BY <1>2, <1>8, <1>9, <1>15, <2>2, <2>3 DEF Greeted, AtSend
  <2>6. Reading(t) => Reading(th[p]) /\ k # "alert"
    BY <1>2, <1>3, <1>8, <1>9, <1>15 DEF Reading, AtSend, OutKinds
  <2>7. t.pc \in {"fail", "hs_fail"} => ~Healthy'
    BY <1>3, <1>8, <1>9, <1>15 DEF Healthy, OutKinds
  <2>8. k = "alert" => lock.in = p
    BY <1>2, <1>15, Known DEF Holds, HoldsIn, AtSend
  <2> QED
    BY <1>2, <1>7, <1>8, <2>1, <2>2, <2>4, <2>5, <2>6, <2>7, <2>8, Known, TallyLemma
<1> QED
  BY <1>7, <1>16, <1>17, <1>18, <1>19, <1>20, <1>21 DEF IInv

\* The socket took the record, or failed.
LEMMA SendEndsInv ==
  ASSUME IInv, NEW p \in Procs, SendEnds(p)
  PROVE  IInv'
<1> DEFINE k == th[p].send
           b == th[p].chunk
<1>1. /\ th \in [Procs -> Thread] /\ in \in InState /\ out \in OutState /\ lock \in LockState
      /\ wire \in Seq(Records(OutKinds)) /\ out.epoch \in Nat /\ out.seq \in Nat
      /\ out.sendBuf \in Seq(Records(OutKinds)) /\ out.buffering \in BOOLEAN
      /\ th[p] \in Thread
  BY OutTypes DEF IInv, Typed, TypeOK
<1>2. /\ th[p].pc = "sock" /\ lock' = [lock EXCEPT !.out = Free]
      /\ UNCHANGED <<cfg, complete, handshakeErr, handshakes, active, closing, sock, peer, calls,
                     intr>>
  BY DEF SendEnds, At, shake, interlock
<1>3. PICK ok \in BOOLEAN :
        /\ AfterRecord(p, ok, out)
        /\ ok => ~SockFails /\ wire' = wire \o b
        /\ ~ok => SockFails /\ wire' = wire
  <2>1. SockAccepts => ~SockFails
    BY DEF SockAccepts, SockFails
  <2> QED
    BY <2>1 DEF SendEnds
<1>4. /\ k \in OutKinds /\ k \notin {"ccs", "fin"} /\ out.sendBuf = <<>>
      /\ b \in Seq(Records(OutKinds)) /\ Len(b) = 1 /\ b[1].k = k /\ b[1] \in Records(OutKinds)
  <2>1. k \in OutKinds
    BY <1>2, SealedRecord DEF AtSend
  <2>2. Len(b) = 1 /\ b[1].k = k /\ k \notin {"ccs", "fin"}
    BY <1>2, Known DEF Shape
  <2>3. out.sendBuf = <<>>
    BY <1>2 DEF IInv, Buffered
  <2>4. b \in Seq(Records(OutKinds))
    BY <1>1 DEF Thread
  <2> QED
    BY <2>1, <2>2, <2>3, <2>4
<1>5. Chained(b) /\ b # <<>> /\ DOMAIN b = {1}
  BY <1>4, ChainOne
<1>6. PICK t : After(p, ok, out, t)
  BY <1>1, <1>2, <1>3, <1>4, Known, AfterRecordMoves DEF Shape, AtSend
<1>7. /\ lock' \in LockState /\ lock'.hs = lock.hs /\ lock'.in = lock.in /\ lock'.out = Free
  BY <1>1, <1>2 DEF LockState
<1>8. wire' \in Seq(Records(OutKinds))
  <2>1. wire \o b \in Seq(Records(OutKinds))
    BY <1>1, <1>4, ConcatFacts
  <2> QED
    BY <1>1, <1>3, <2>1
<1>9. /\ Typed' /\ Control' /\ Active' /\ Shook' /\ Limited'
      /\ t.pc \notin {"sock", "reneg", "hs_ok", "flushing"}
      /\ HoldsHs(t) <=> HoldsHs(th[p])
      /\ th'[p] = t /\ \A q \in Procs : q # p => th'[q] = th[q] /\ th[q].pc # "sock"
  BY <1>2, <1>6, <1>7, <1>8, AfterControl DEF AtSend
<1>10. /\ Moves(p, t) /\ t.stage = th[p].stage /\ (t.reneg <=> th[p].reneg)
       /\ out'.sendBuf = <<>> /\ (out'.buffering <=> out.buffering)
       /\ out'.notified <=> out.notified \/ k = "close_notify"
       /\ out'.err = out.err \/ out'.err # "none"
       /\ k = "alert" => out'.err # "none"
       /\ \/ out'.epoch = out.epoch /\ out'.seq = out.seq
          \/ k = "ku" /\ out'.epoch = out.epoch + 1 /\ out'.seq = 0
       /\ in'.err = in.err \/ (k = "alert" /\ in'.err # "none")
       /\ deadline' = IF k = "close_notify" THEN "past" ELSE deadline
  BY <1>4, <1>6 DEF After
<1>11. /\ k = "alert" => t.pc = "fail"
       /\ k \in {"data", "close_notify"} => t.pc \in {"end", "shut"}
       /\ k = "ku" => t.pc = "use"
       /\ k = "hello" => t.pc = IF ok THEN "use" ELSE "hs_fail"
       /\ t.send = "none"
  BY <1>4, <1>6 DEF After, AfterNotify
<1> HIDE DEF k, b
<1>12. k = th[p].send /\ b = th[p].chunk
  BY DEF k, b
<1>13. SockFails => SockFails'
  BY <1>2, <1>10 DEF SockFails
<1>14. deadline' = "past" => out'.notified
  BY <1>10 DEF IInv, Buffered
<1>15. \A q \in Procs : th'[q].pc # "sock" /\ th'[q].stage = th[q].stage
  BY <1>9, <1>10
<1>16. k = "hello" => HoldsHs(th[p]) /\ lock.hs = p /\ ~complete
  <2>1. k = "hello" => HoldsHs(th[p])
    BY <1>2, <1>12, Known DEF Shape, AtSend, HoldsHs, Shaking
  <2>2. HoldsHs(th[p]) => lock.hs = p
    BY Known DEF Holds
  <2> QED
    BY <1>2, <2>1, <2>2 DEF IInv, Shook
<1>17. Padded'
  <2>1. SUFFICES ASSUME ~cfg.client
                 PROVE  /\ complete /\ lock.hs = Free /\ out'.epoch = 0 /\ ~out'.buffering
                        /\ \A q \in Procs : th'[q].pc = "sock" => th'[q].send # "ku"
                        /\ \A n \in DOMAIN wire' : wire'[n].k # "ku"
    BY <1>2, <1>7 DEF Padded
  <2>2. /\ complete /\ lock.hs = Free /\ out.epoch = 0 /\ ~out.buffering /\ k # "ku"
        /\ \A n \in DOMAIN wire : wire[n].k # "ku"
    BY <1>2, <1>12, <2>1 DEF IInv, Padded
  <2>3. \A n \in DOMAIN wire' : wire'[n].k # "ku"
    <3>1. CASE wire' = wire
      BY <2>2, <3>1
    <3>2. CASE wire' = wire \o b
      <4>1. \A n \in DOMAIN wire' : n \in DOMAIN wire \/ wire'[n] = b[1]
        <5>1. /\ Len(wire') = Len(wire) + Len(b) /\ Len(wire) \in Nat
              /\ \A i \in 1 .. Len(b) : wire'[Len(wire) + i] = b[i]
          BY <1>1, <1>4, <3>2, ConcatFacts
        <5>2. wire'[Len(wire) + 1] = b[1]
          BY <1>4, <5>1
        <5>3. DOMAIN wire = 1 .. Len(wire) /\ DOMAIN wire' = 1 .. Len(wire')
          BY <1>1, <1>8
        <5> QED
          BY <1>4, <5>1, <5>2, <5>3
      <4>2. \A n \in DOMAIN wire : wire'[n] = wire[n]
        BY <1>1, <1>4, <3>2
      <4> QED
        BY <1>4, <2>2, <4>1, <4>2
    <3> QED
      BY <1>3, <3>1, <3>2
  <2> QED
    BY <1>10, <1>15, <2>2, <2>3
<1>18. Buffered'
  <2>1. ASSUME NEW q \in Procs
        PROVE  /\ th'[q].stage \in {"ccs", "fin"} => ~out'.buffering
               /\ th'[q].stage = "flight" /\ th'[q].pc \notin {"hs_ok", "hs_fail"} =>
                    out'.buffering
               /\ th'[q].pc # "flushing"
    <3>1. CASE q = p
      BY <1>2, <1>9, <1>10, <3>1 DEF IInv, Buffered
    <3>2. CASE q # p
      BY <1>4, <1>9, <1>10, <3>2 DEF IInv, Buffered
    <3> QED
      BY <3>1, <3>2
  <2>2. complete' => ~out'.buffering
    BY <1>2, <1>10 DEF IInv, Buffered
  <2> QED
    BY <1>10, <1>14, <1>15, <2>1, <2>2 DEF Buffered
<1>19. Numbered'
  <2>1. Then(b[1], out.epoch, out.seq)
    BY <1>2, <1>12 DEF IInv, Numbered
  <2>2. Then(b[1], out'.epoch, out'.seq)
    BY <1>1, <1>4, <1>10, <2>1, ThenRekey
  <2>3. Chained(wire)
    BY DEF IInv, Numbered
  <2>4. CASE ok
    <3>1. wire # <<>> => Then(wire[Len(wire)], b[1].e, b[1].s)
      BY <1>2, <1>3, <1>12, <2>4 DEF IInv, Numbered
    <3>2. Chained(wire') /\ wire'[Len(wire')] = b[1]
      <4>1. Chained(wire \o b) /\ (wire \o b)[Len(wire \o b)] = b[Len(b)]
        BY <1>1, <1>4, <1>5, <2>3, <3>1, ChainConcat
      <4> QED
        BY <1>3, <1>4, <2>4, <4>1
    <3> QED
      BY <1>10, <1>15, <2>2, <3>2 DEF Numbered, Chained
  <2>5. CASE ~ok
    BY <1>3, <1>10, <1>13, <1>15, <2>3, <2>5 DEF Numbered, Chained
  <2> QED
    BY <2>4, <2>5
<1>20. Apart'
  <2>1. NoDataInsideHandshake /\ (k = "data" => Over(wire))
    BY <1>2, <1>12 DEF IInv, Apart
  <2>2. NoDataInsideHandshake'
    <3>1. CASE ok
      BY <1>1, <1>3, <1>4, <1>5, <2>1, <3>1, DataConcat
    <3>2. CASE ~ok
      BY <1>3, <2>1, <3>2 DEF NoDataInsideHandshake
    <3> QED
      BY <3>1, <3>2
  <2>3. ASSUME Over(wire), k # "hello"
        PROVE  Over(wire')
    BY <1>1, <1>3, <1>4, <1>5, <2>3, OverConcat
  <2>4. complete' => Over(wire')
    BY <1>2, <1>16, <2>3 DEF IInv, Apart
  <2>5. ASSUME NEW q \in Procs
        PROVE  /\ th'[q].stage \in {"ccs", "fin"} => Over(wire')
               /\ th'[q].pc \in {"flush", "flushing"} => th'[q].stage # "flight"
    <3>1. th[q].stage \in {"ccs", "fin"} => Over(wire)
      BY DEF IInv, Apart
    <3>2. th[q].stage \in {"ccs", "fin"} => k # "hello"
      <4>1. CASE q = p
        BY <1>2, <1>12, <4>1, Known DEF Shape, AtSend
      <4>2. CASE q # p
        BY <1>16, <4>2, Alone DEF HoldsHs, Shaking
      <4> QED
        BY <4>1, <4>2
    <3>3. th[q].pc \in {"flush", "flushing"} => th[q].stage # "flight"
      <4>1. ~Ends(out.sendBuf)
        BY <1>4 DEF Ends
      <4> QED
        BY <4>1 DEF IInv, Apart
    <3>4. t.pc \notin {"flush", "flushing"}
      BY <1>4, <1>11 DEF OutKinds
    <3> QED
      BY <1>9, <1>15, <2>3, <3>1, <3>2, <3>3, <3>4
  <2>6. \A n \in DOMAIN out'.sendBuf : out'.sendBuf[n].k # "data"
    BY <1>10
  <2> QED
    BY <1>15, <2>2, <2>4, <2>5, <2>6 DEF Apart
<1>21. Hushed'
  <2>1. NothingAfterAlert /\ (k = "data" => Quiet(wire))
    BY <1>2, <1>12 DEF IInv, Hushed
  <2>2. k \notin {"alert", "close_notify"} => Quiet(b)
    BY <1>4, <1>5 DEF Quiet
  <2>3. NothingAfterAlert'
    <3>1. CASE ok
      BY <1>1, <1>3, <1>4, <1>5, <2>1, <2>2, <3>1, AlertConcat
    <3>2. CASE ~ok
      BY <1>3, <2>1, <3>2 DEF NothingAfterAlert
    <3> QED
      BY <3>1, <3>2
  <2>4. ASSUME out'.err = "none", ~out'.notified
        PROVE  Quiet(wire')
    <3>1. Quiet(wire) /\ Quiet(b)
      BY <1>10, <2>2, <2>4 DEF IInv, Hushed
    <3> QED
      BY <1>1, <1>3, <1>4, <3>1, QuietConcat
  <2>5. Quiet(out'.sendBuf)
    BY <1>10 DEF Quiet
  <2> QED
    BY <1>15, <2>3, <2>4, <2>5 DEF Hushed
<1>22. Tallied'
  <2>1. Healthy' => Healthy
    BY <1>10, <1>13 DEF Healthy
  <2>2. \A n \in DOMAIN out'.sendBuf : out'.sendBuf[n].k # "hello"
    BY <1>10
  <2>3. Reading(t) => Reading(th[p]) /\ k # "alert"
    BY <1>2, <1>4, <1>10, <1>11, <1>12 DEF Reading, AtSend, OutKinds
  <2>4. t.pc \in {"fail", "hs_fail"} => ~Healthy'
    BY <1>3, <1>4, <1>10, <1>11, <1>13 DEF Healthy, OutKinds
  <2>5. k = "alert" => lock.in = p
    BY <1>2, <1>12, Known DEF Holds, HoldsIn, AtSend
  <2>6. \/ Sent("hello")' = Sent("hello") /\ (Healthy' => (Greeted(t) <=> Greeted(th[p])))
        \/ /\ Sent("hello") \in Nat /\ Sent("hello")' = Sent("hello") + 1 /\ ~SockFails
           /\ th[p].pc = "sock" /\ th[p].send = "hello" /\ Greeted(t)
    <3>1. CASE ok /\ k = "hello"
      <4>1. Sent("hello") \in Nat /\ Sent("hello")' = Sent("hello") + 1
        BY <1>1, <1>3, <1>4, <3>1, SentConcat
      <4>2. Greeted(t)
        <5>1. th[p].pc = "sock" /\ th[p].send = "hello" /\ Shape(th[p])
          BY <1>2, <1>12, <3>1, Known
        <5>2. th[p].stage = "sh"
          BY <5>1 DEF Shape, AtSend
        <5>3. t.pc = "use" /\ t.stage = th[p].stage
          BY <1>10, <1>11, <1>12, <3>1
        <5> QED
          BY <5>2, <5>3 DEF Greeted, AtSend, Shaking
      <4> QED
        BY <1>2, <1>3, <1>12, <3>1, <4>1, <4>2
    <3>2. CASE ~ok
      <4>1. Sent("hello")' = Sent("hello")
        BY <1>3, <3>2 DEF Sent
      <4>2. ~Healthy'
        BY <1>3, <1>13, <3>2 DEF Healthy
      <4> QED
        BY <4>1, <4>2
    <3>3. CASE ok /\ k # "hello"
      <4>1. Sent("hello")' = Sent("hello")
        BY <1>1, <1>3, <1>4, <1>5, <3>3, SentConcat
      <4>2. Greeted(t) <=> Greeted(th[p])
        BY <1>2, <1>10, <1>11, <1>12, <3>3 DEF Greeted, AtSend
      <4> QED
        BY <4>1, <4>2
    <3> QED
      BY <3>1, <3>2, <3>3
  <2> QED
    BY <1>2, <1>7, <1>9, <1>10, <2>1, <2>2, <2>3, <2>4, <2>5, <2>6, Known, TallyLemma
<1> QED
  BY <1>9, <1>17, <1>18, <1>19, <1>20, <1>21, <1>22 DEF IInv

\* The socket took the buffered records, or failed; buffering ends.
LEMMA FlushEndsInv ==
  ASSUME IInv, NEW p \in Procs, FlushEnds(p)
  PROVE  IInv'
<1> DEFINE sb == out.sendBuf
<1>1. /\ th \in [Procs -> Thread] /\ out \in OutState /\ lock \in LockState
      /\ wire \in Seq(Records(OutKinds)) /\ sb \in Seq(Records(OutKinds)) /\ th[p] \in Thread
      /\ handshakes \in Nat
  BY OutTypes DEF IInv, Typed, TypeOK
<1>2. /\ th[p].pc = "flushing" /\ out' = [out EXCEPT !.sendBuf = <<>>, !.buffering = FALSE]
      /\ UNCHANGED <<cfg, handshakeErr, handshakes, active, closing, in, sock, deadline, peer,
                     calls, intr>>
  BY DEF FlushEnds, At, interlock
<1>3. /\ th[p].stage \in {"flight", "failed"} /\ th[p].op \in {"read", "write", "handshake"}
      /\ th[p].reneg \in BOOLEAN /\ lock.hs = p /\ lock.in = p
      /\ th[p].stage = "failed" => ~th[p].reneg
  BY <1>2, Known DEF Shape, Holds, HoldsHs, HoldsIn, Shaking
<1>4. /\ sb # <<>> /\ (th[p].chunk = sb \/ SockFails)
      /\ \A q \in Procs : th[q].pc # "sock"
  BY <1>2 DEF IInv, Buffered
<1>5. ~complete /\ cfg.client /\ (~th[p].reneg => (handshakeErr <=> th[p].stage = "failed"))
  <2>1. HoldsHs(th[p])
    BY <1>3 DEF HoldsHs, Shaking
  <2>2. ~complete
    BY <1>2, <2>1 DEF IInv, Shook
  <2> QED
    BY <2>1, <2>2, ClientOnly DEF IInv, Shook
<1>6. PICK ok \in BOOLEAN : /\ ok => ~SockFails /\ wire' = wire \o sb
                            /\ ~ok => SockFails /\ wire' = wire
                            /\ ok <=> wire' # wire
  <2>1. SockAccepts => ~SockFails
    BY DEF SockAccepts, SockFails
  <2>2. wire \o sb # wire
    <3>1. Len(wire \o sb) = Len(wire) + Len(sb) /\ Len(sb) > 0 /\ Len(wire) \in Nat
          /\ Len(sb) \in Nat
      BY <1>1, <1>4, ConcatFacts
    <3> QED
      BY <3>1
  <2>3. \/ SockAccepts /\ wire' = wire \o th[p].chunk
        \/ SockFails /\ wire' = wire
    BY DEF FlushEnds
  <2>4. CASE SockAccepts /\ wire' = wire \o th[p].chunk
    BY <1>4, <2>1, <2>2, <2>4
  <2>5. CASE SockFails /\ wire' = wire
    BY <2>5
  <2> QED
    BY <2>3, <2>4, <2>5
<1>7. /\ out' \in OutState /\ out'.err = out.err /\ out'.sendBuf = <<>> /\ ~out'.buffering
      /\ (out'.notified <=> out.notified) /\ out'.epoch = out.epoch /\ out'.seq = out.seq
  <2>1. <<>> \in Seq(Records(OutKinds))
    OBVIOUS
  <2> QED
    BY <1>1, <1>2, <2>1 DEF OutState
<1>8. PICK t :
        /\ Moves(p, t) /\ t.op = th[p].op /\ (t.reneg <=> th[p].reneg) /\ t.chunk = <<>>
        /\ lock' \in LockState /\ lock'.out = lock.out
        /\ \/ /\ th[p].stage = "failed" /\ t.stage = "none" /\ complete' = complete
              /\ t.pc = IF Interrupted(p) THEN "hs_done" ELSE "end"
              /\ lock'.hs = Free /\ lock'.in = Free
           \/ /\ th[p].stage = "flight" /\ ~ok /\ t.stage = "flight" /\ t.pc = "hs_fail"
              /\ lock'.hs = p /\ lock'.in = p /\ complete' = complete
           \/ /\ th[p].stage = "flight" /\ ok /\ t.stage = "flight" /\ t.pc = "hs_ok"
              /\ lock'.hs = p /\ lock'.in = p /\ complete' = TRUE
           \/ /\ th[p].stage = "flight" /\ ok /\ t.stage = "ccs" /\ t.pc = "rec"
              /\ lock'.hs = p /\ lock'.in = p /\ complete' = complete
  <2>1. ASSUME NEW l \in Places, NEW g \in Shaking \cup {"none"}, NEW z \in OutKinds \cup {"none"},
               th' = [th EXCEPT ![p].pc = l, ![p].stage = g, ![p].send = z, ![p].chunk = <<>>]
        PROVE  \E t : /\ Moves(p, t) /\ t.op = th[p].op /\ (t.reneg <=> th[p].reneg)
                      /\ t.chunk = <<>> /\ t.stage = g /\ t.pc = l
    <3> DEFINE t == [th[p] EXCEPT !.pc = l, !.stage = g, !.send = z, !.chunk = <<>>]
    <3>1. t \in Thread
      <4>1. <<>> \in Seq(Records(OutKinds))
        OBVIOUS
      <4> QED
        BY <1>1, <4>1 DEF Thread
    <3>2. Is(t, th[p].op, l, z, g, th[p].reneg, th[p].alert, th[p].inerr, <<>>)
      BY <1>1 DEF Thread, Is
    <3>3. Moves(p, t)
      BY <1>1, <2>1, <3>1 DEF Moves
    <3> HIDE DEF t
    <3> QED
      BY <3>2, <3>3 DEF Is
  <2>2. th[p].send \in OutKinds \cup {"none"}
    BY <1>1 DEF Thread
  <2>3. CASE /\ th[p].stage = "failed" /\ lock' = ReleaseBoth /\ UNCHANGED complete
             /\ th' = [AfterHandshake(p, FALSE) EXCEPT ![p].chunk = <<>>]
    <3> DEFINE l == IF Interrupted(p) THEN "hs_done" ELSE "end"
               z == IF th[p].op = "write" THEN "data" ELSE "none"
    <3>1. l \in Places /\ z \in OutKinds \cup {"none"}
      BY DEF Places, OutKinds
    <3>2. th' = [th EXCEPT ![p].pc = l, ![p].stage = "none", ![p].send = z, ![p].chunk = <<>>]
      <4>1. AfterHandshake(p, FALSE) =
              [th EXCEPT ![p].stage = "none", ![p].pc = l, ![p].send = z]
        BY DEF AfterHandshake
      <4>2. th' = [[th EXCEPT ![p].stage = "none", ![p].pc = l, ![p].send = z]
                     EXCEPT ![p].chunk = <<>>]
        BY <2>3, <4>1
      <4>3. DOMAIN th = Procs
        BY <1>1
      <4> HIDE DEF l, z
      <4> QED
        BY <4>2, <4>3
    <3>3. lock' \in LockState /\ lock'.hs = Free /\ lock'.in = Free /\ lock'.out = lock.out
      BY <1>1, <2>3 DEF ReleaseBoth, LockState
    <3>4. PICK t : /\ Moves(p, t) /\ t.op = th[p].op /\ (t.reneg <=> th[p].reneg)
                   /\ t.chunk = <<>> /\ t.stage = "none" /\ t.pc = l
      <4>1. PICK m \in Places, y \in OutKinds \cup {"none"} : m = l /\ y = z
        BY <3>1
      <4>2. th' = [th EXCEPT ![p].pc = m, ![p].stage = "none", ![p].send = y, ![p].chunk = <<>>]
        BY <3>2, <4>1
      <4>3. \E t : /\ Moves(p, t) /\ t.op = th[p].op /\ (t.reneg <=> th[p].reneg)
                   /\ t.chunk = <<>> /\ t.stage = "none" /\ t.pc = m
        <5>1. "none" \in Shaking \cup {"none"}
          OBVIOUS
        <5> QED
          BY <2>1, <4>2, <5>1
      <4> QED
        BY <4>1, <4>3
    <3> QED
      BY <2>3, <3>3, <3>4
  <2>4. ASSUME th[p].stage = "flight", NEW l \in Places, NEW g \in Shaking,
               th' = [th EXCEPT ![p].pc = l, ![p].stage = g, ![p].chunk = <<>>]
        PROVE  \E t : /\ Moves(p, t) /\ t.op = th[p].op /\ (t.reneg <=> th[p].reneg)
                      /\ t.chunk = <<>> /\ t.stage = g /\ t.pc = l
    <3>1. PICK z \in OutKinds \cup {"none"} : z = th[p].send
      BY <2>2
    <3>2. th' = [th EXCEPT ![p].pc = l, ![p].stage = g, ![p].send = z, ![p].chunk = <<>>]
      BY <1>1, <2>4, <3>1 DEF Thread
    <3>3. g \in Shaking \cup {"none"}
      OBVIOUS
    <3> QED
      BY <2>1, <3>2, <3>3
  <2>5. ASSUME th[p].stage = "flight", NEW l \in Places,
               th' = [th EXCEPT ![p].chunk = <<>>, ![p].pc = l]
        PROVE  \E t : /\ Moves(p, t) /\ t.op = th[p].op /\ (t.reneg <=> th[p].reneg)
                      /\ t.chunk = <<>> /\ t.stage = "flight" /\ t.pc = l
    <3>1. th' = [th EXCEPT ![p].pc = l, ![p].stage = "flight", ![p].chunk = <<>>]
      BY <1>1, <2>5 DEF Thread
    <3> QED
      BY <2>4, <2>5, <3>1 DEF Shaking
  <2>6. CASE /\ th[p].stage = "flight" /\ ~ok /\ UNCHANGED <<lock, complete>>
             /\ th' = [[th EXCEPT ![p].chunk = <<>>] EXCEPT ![p].pc = "hs_fail"]
    <3>1. \E t : /\ Moves(p, t) /\ t.op = th[p].op /\ (t.reneg <=> th[p].reneg)
                 /\ t.chunk = <<>> /\ t.stage = "flight" /\ t.pc = "hs_fail"
      BY <1>1, <2>5, <2>6 DEF Places
    <3> QED
      BY <1>1, <1>3, <2>6, <3>1
  <2>7. CASE /\ th[p].stage = "flight" /\ ok /\ UNCHANGED lock /\ complete' = TRUE
             /\ th' = [[th EXCEPT ![p].chunk = <<>>] EXCEPT ![p].pc = "hs_ok"]
    <3>1. \E t : /\ Moves(p, t) /\ t.op = th[p].op /\ (t.reneg <=> th[p].reneg)
                 /\ t.chunk = <<>> /\ t.stage = "flight" /\ t.pc = "hs_ok"
      BY <1>1, <2>5, <2>7 DEF Places
    <3> QED
      BY <1>1, <1>3, <2>7, <3>1
  <2>8. CASE /\ th[p].stage = "flight" /\ ok /\ UNCHANGED <<lock, complete>>
             /\ th' = [[th EXCEPT ![p].chunk = <<>>] EXCEPT ![p].pc = "rec", ![p].stage = "ccs"]
    <3>1. th' = [th EXCEPT ![p].pc = "rec", ![p].stage = "ccs", ![p].chunk = <<>>]
      BY <1>1, <2>8 DEF Thread
    <3>2. \E t : /\ Moves(p, t) /\ t.op = th[p].op /\ (t.reneg <=> th[p].reneg)
                 /\ t.chunk = <<>> /\ t.stage = "ccs" /\ t.pc = "rec"
      BY <2>4, <2>8, <3>1 DEF Places, Shaking
    <3> QED
      BY <1>1, <1>3, <2>8, <3>2
  <2> QED
    BY <1>6, <2>3, <2>6, <2>7, <2>8 DEF FlushEnds
<1> HIDE DEF sb
<1>9. sb = out.sendBuf
  BY DEF sb
<1>10. complete' \in BOOLEAN
  <2>1. complete \in BOOLEAN
    BY DEF IInv, Typed, TypeOK
  <2>2. complete' = complete \/ complete' = TRUE
    BY <1>8
  <2> QED
    BY <2>1, <2>2, Zenon
<1>11. wire' \in Seq(Records(OutKinds))
  <2>1. wire \o sb \in Seq(Records(OutKinds))
    BY <1>1, ConcatFacts
  <2> QED
    BY <1>1, <1>6, <2>1
<1>12. Typed'
  BY <1>2, <1>7, <1>8, <1>10, <1>11 DEF IInv, Typed, TypeOK, Moves
<1>13. Shape(t) /\ Watched(t, intr'[p]) /\ Holds(t, lock', p)
  <2>1. Shape(t)
    BY <1>2, <1>3, <1>8, Known DEF Shape, AtSend, Shaking
  <2>2. Watched(t, intr'[p])
    BY <1>2, <1>3, <1>8, Known DEF Watched, Interrupted
  <2>3. HoldsOut(t) <=> lock'.out = p
    BY <1>2, <1>8, Known DEF Holds, HoldsOut
  <2>4. (HoldsIn(t) <=> lock'.in = p) /\ (HoldsHs(t) <=> lock'.hs = p)
    BY <1>8, ConnAssumption DEF HoldsIn, HoldsHs, AtSend, Shaking
  <2> QED
    BY <2>1, <2>2, <2>3, <2>4 DEF Holds
<1>14. \A q \in Procs : q # p => intr'[q] = intr[q] /\ Holds(th[q], lock', q)
  BY <1>2, <1>3, <1>8, Known DEF Holds
<1>15. Control' /\ Active'
  BY <1>1, <1>2, <1>8, <1>13, <1>14, MoveControl, ActiveLemma DEF IInv
<1>16. /\ th'[p] = t
       /\ \A q \in Procs : q # p =>
            /\ th'[q] = th[q] /\ ~HoldsHs(th[q]) /\ ~HoldsIn(th[q]) /\ ~th[q].reneg
            /\ ~Greeted(th[q]) /\ th[q].stage \notin Shaking
  <2>1. \A q \in Procs : q # p => /\ ~HoldsHs(th[q]) /\ ~HoldsIn(th[q]) /\ ~th[q].reneg
                                  /\ ~Greeted(th[q])
    BY <1>3, Alone, Known DEF Holds
  <2> QED
    BY <1>1, <1>8, <2>1 DEF Moves, HoldsHs
<1>17. Shook'
  <2>1. ASSUME NEW q \in Procs, HoldsHs(th'[q])
        PROVE  /\ complete' <=> th'[q].pc = "hs_ok"
               /\ ~th'[q].reneg => (handshakeErr' <=> th'[q].stage = "failed")
    <3>1. q = p /\ HoldsHs(t) /\ th'[q] = t
      BY <1>16, <2>1
    <3> QED
      BY <1>2, <1>5, <1>8, <3>1 DEF HoldsHs, Shaking
  <2>2. complete' => lock'.hs # Free
    BY <1>5, <1>8, ConnAssumption
  <2>3. \A q \in Procs : th'[q].pc = "reneg" => ~cfg'.v13
    BY <1>2, <1>8, <1>16 DEF IInv, Shook
  <2> QED
    BY <1>7, <2>1, <2>2, <2>3 DEF Shook
<1>18. Padded'
  BY <1>2, <1>5 DEF Padded
<1>19. Buffered'
  <2>1. ASSUME NEW q \in Procs
        PROVE  /\ th'[q].stage = "flight" => th'[q].pc \in {"hs_ok", "hs_fail"}
               /\ th'[q].pc # "flushing"
    BY <1>8, <1>16 DEF Shaking, HoldsIn
  <2>2. deadline' = "past" => out'.notified
    BY <1>2, <1>7 DEF IInv, Buffered
  <2> QED
    BY <1>7, <2>1, <2>2 DEF Buffered
<1>20. SockFails' <=> SockFails
  BY <1>2 DEF SockFails
<1>21. \A q \in Procs : th'[q].pc # "sock"
  BY <1>4, <1>8, <1>16
<1>22. Numbered'
  <2>1. Chained(wire) /\ Chained(sb) /\ Then(sb[Len(sb)], out.epoch, out.seq)
    BY <1>4, <1>9 DEF IInv, Numbered
  <2>2. CASE ok
    <3>1. wire # <<>> => Then(wire[Len(wire)], sb[1].e, sb[1].s)
      BY <1>4, <1>6, <1>9, <2>2 DEF IInv, Numbered
    <3>2. Chained(wire \o sb) /\ (wire \o sb)[Len(wire \o sb)] = sb[Len(sb)]
      BY <1>1, <1>4, <2>1, <3>1, ChainConcat
    <3>3. Chained(wire') /\ wire'[Len(wire')] = sb[Len(sb)]
      BY <1>6, <2>2, <3>2
    <3> QED
      BY <1>7, <1>21, <2>1, <3>3 DEF Numbered, Chained
  <2>3. CASE ~ok
    BY <1>6, <1>7, <1>20, <1>21, <2>1, <2>3 DEF Numbered, Chained
  <2> QED
    BY <2>2, <2>3
<1>23. Apart'
  <2>1. NoDataInsideHandshake /\ \A n \in DOMAIN sb : sb[n].k # "data"
    BY <1>9 DEF IInv, Apart
  <2>2. NoDataInsideHandshake'
    <3>1. CASE ok
      BY <1>1, <1>6, <2>1, <3>1, DataConcat
    <3>2. CASE ~ok
      BY <1>6, <2>1, <3>2 DEF NoDataInsideHandshake
    <3> QED
      BY <3>1, <3>2
  <2>3. th[p].stage = "flight" /\ ok => Over(wire')
    <3>1. th[p].stage = "flight" => Ends(sb)
      BY <1>2, <1>9 DEF IInv, Apart
    <3> QED
      BY <1>1, <1>6, <3>1, OverConcat
  <2>4. complete' => Over(wire')
    BY <1>5, <1>8, <2>3
  <2>5. ASSUME NEW q \in Procs
        PROVE  /\ th'[q].stage \in {"ccs", "fin"} => Over(wire')
               /\ th'[q].pc \notin {"flush", "flushing"}
    <3>1. CASE q = p
      BY <1>8, <1>16, <2>3, <3>1
    <3>2. CASE q # p
      BY <1>16, <3>2 DEF HoldsIn, Shaking
    <3> QED
      BY <3>1, <3>2
  <2>6. \A n \in DOMAIN out'.sendBuf : out'.sendBuf[n].k # "data"
    BY <1>7
  <2> QED
    BY <1>21, <2>2, <2>4, <2>5, <2>6 DEF Apart
<1>24. Hushed'
  <2>1. NothingAfterAlert /\ \A n \in DOMAIN sb : sb[n].k # "data"
    BY <1>9 DEF IInv, Apart, Hushed
  <2>2. NothingAfterAlert'
    <3>1. CASE ok
      BY <1>1, <1>6, <2>1, <3>1, AlertConcat
    <3>2. CASE ~ok
      BY <1>6, <2>1, <3>2 DEF NothingAfterAlert
    <3> QED
      BY <3>1, <3>2
  <2>3. ASSUME out'.err = "none", ~out'.notified
        PROVE  Quiet(wire')
    <3>1. Quiet(wire) /\ Quiet(sb)
      BY <1>7, <1>9, <2>3 DEF IInv, Hushed
    <3> QED
      BY <1>1, <1>6, <3>1, QuietConcat
  <2>4. Quiet(out'.sendBuf)
    BY <1>7 DEF Quiet
  <2> QED
    BY <1>21, <2>2, <2>3, <2>4 DEF Hushed
<1>25. Limited'
  <2>1. ASSUME NEW q \in Procs, Condemning(th[q])
        PROVE  Condemning(th'[q])
    BY <1>2, <1>16, <2>1 DEF Condemning, AtSend
  <2> QED
    BY <1>2, <2>1 DEF IInv, Limited
<1>26. Tallied'
  <2>1. Healthy' <=> Healthy
    BY <1>7, <1>20 DEF Healthy
  <2>2. out'.err = "none" => Sent("hello")' = Sent("hello")
    <3>1. CASE ok
      <4>1. out'.err = "none" => \A n \in DOMAIN sb : sb[n].k # "hello"
        BY <1>6, <1>7, <1>9, <3>1 DEF IInv, Tallied, Healthy
      <4> QED
        BY <1>1, <1>6, <3>1, <4>1, SentConcat
    <3>2. CASE ~ok
      BY <1>6, <3>2 DEF Sent
    <3> QED
      BY <3>1, <3>2
  <2>3. \A n \in DOMAIN out'.sendBuf : out'.sendBuf[n].k # "hello"
    BY <1>7
  <2>4. CASE th[p].stage = "flight"
    <3>1. lock'.hs = lock.hs /\ (complete => complete')
      BY <1>3, <1>5, <1>8, <2>4
    <3>2. t.stage \in Shaking /\ t.pc \in {"hs_fail", "hs_ok", "rec"}
      BY <1>8, <2>4 DEF Shaking
    <3>3. HoldsHs(th[p]) /\ (Greeted(t) <=> Greeted(th[p]))
      BY <1>2, <2>4, <3>2 DEF HoldsHs, Greeted, AtSend, Shaking
    <3>4. Reading(t) => Reading(th[p])
      BY <1>2, <1>8, <2>4, <3>2 DEF Reading, AtSend, Shaking
    <3>5. t.pc \in {"fail", "hs_fail"} => ~Healthy'
      BY <1>6, <1>8, <1>20, <2>4 DEF Healthy
    <3> QED
      BY <1>2, <1>7, <1>8, <2>1, <2>2, <2>3, <3>1, <3>2, <3>3, <3>4, <3>5, Known, TallyLemma
  <2>5. CASE th[p].stage = "failed"
    <3>1. /\ t.stage = "none" /\ ~t.reneg /\ t.pc \in {"hs_done", "end"}
          /\ handshakeErr' /\ handshakeErr
      BY <1>2, <1>3, <1>5, <1>8, <2>5
    <3>2. RenegotiationBounded'
      BY <1>2, <1>7, <2>2 DEF IInv, Tallied, RenegotiationBounded
    <3>3. ASSUME NEW q \in Procs
          PROVE  /\ ~HoldsHs(th'[q]) /\ ~Greeted(th'[q])
                 /\ ~(th'[q].pc = "reneg" \/ th'[q].reneg)
                 /\ ~Reading(th'[q]) /\ th'[q].pc \notin {"fail", "hs_fail"}
      <4>1. CASE q = p
        BY <1>16, <3>1, <4>1 DEF HoldsHs, Greeted, Reading, AtSend, Shaking
      <4>2. CASE q # p
        BY <1>16, <4>2 DEF HoldsIn, Reading
      <4> QED
        BY <4>1, <4>2
    <3>4. Healthy' => in'.err # "none"
      BY <1>2, <2>1, <3>1 DEF IInv, Tallied
    <3> QED
      BY <2>3, <3>1, <3>2, <3>3, <3>4 DEF Tallied
  <2> QED
    BY <1>3, <2>4, <2>5
<1> QED
  BY <1>12, <1>15, <1>17, <1>18, <1>19, <1>22, <1>23, <1>24, <1>25, <1>26 DEF IInv

-----------------------------------------------------------------------------
(* The peer *)

\* The types of the peer's fields.
LEMMA PeerTypes ==
  ASSUME NEW x \in PeerType
  PROVE  /\ x.queue \in Seq(Records(TheirKinds)) /\ x.epoch \in Nat /\ x.seq \in Nat
         /\ x.sent \in Nat /\ x.hellos \in Nat /\ x.flights \in Nat /\ x.fins \in Nat
         /\ x.half \in BOOLEAN /\ x.bad \in BOOLEAN
BY DEF PeerType

\* The peer's write keys change.
LEMMA PeerRekey ==
  ASSUME NEW x \in PeerType
  PROVE  /\ Rekey(x) \in PeerType
         /\ Rekey(x).eof = x.eof /\ Rekey(x).reset = x.reset /\ Rekey(x).reads = x.reads
<1>1. PICK n \in Nat, z \in Nat : n = x.epoch + 1 /\ z = 0
  BY PeerTypes
<1>2. Rekey(x) = [x EXCEPT !.epoch = n, !.seq = z]
  BY <1>1 DEF Rekey
<1> QED
  BY <1>2 DEF PeerType

\* What the peer sends is a record of a kind of its own.
LEMMA PeerRecordType ==
  ASSUME Typed, NEW k \in TheirKinds
  PROVE  Append(peer.queue, PeerRecord(k)) \in Seq(Records(TheirKinds))
<1>1. PeerRecord(k) \in Records(TheirKinds)
  BY PeerTypes DEF Typed, PeerRecord, Records
<1>2. peer.queue \in Seq(Records(TheirKinds))
  BY PeerTypes DEF Typed
<1> QED
  BY <1>1, <1>2

\* A step of the peer changes nothing of the Conn.
LEMMA PeerInv ==
  ASSUME IInv, Peer
  PROVE  IInv' /\ (SockFails => SockFails')
<1>1. UNCHANGED <<cfg, complete, handshakeErr, handshakes, lock, active, closing, out, in, sock,
                  deadline, wire, th, calls, intr>>
  BY DEF Peer, PeerHello, PeerFlight, PeerFinished, PeerSends, PeerStopsReading, PeerCloses,
         shake, interlock
<1>2. Typed /\ peer \in PeerType /\ peer.eof \in BOOLEAN /\ peer.reset \in BOOLEAN
      /\ peer.reads \in BOOLEAN
  BY DEF IInv, Typed, PeerType
<1>3. SUFFICES /\ peer' \in PeerType /\ (peer'.reset => peer'.eof)
               /\ peer.reset => peer'.reset
               /\ peer'.reads => peer.reads
  <2>1. ASSUME peer' \in PeerType, peer'.reset => peer'.eof
        PROVE  Typed'
    BY <1>1, <2>1, PeerTypes DEF IInv, Typed, TypeOK, TheirKinds
  <2>2. ASSUME peer.reset => peer'.reset, peer'.reads => peer.reads
        PROVE  SockFails => SockFails'
    BY <1>1, <2>2 DEF SockFails
  <2> QED
    BY <1>1, <2>1, <2>2, StillLemma
<1>4. ASSUME peer' \in PeerType, peer'.eof = peer.eof, peer'.reset = peer.reset,
             peer'.reads = peer.reads
      PROVE  /\ peer' \in PeerType /\ (peer'.reset => peer'.eof)
             /\ peer.reset => peer'.reset
             /\ peer'.reads => peer.reads
  BY <1>2, <1>4 DEF Typed
<1>5. PICK sq \in Nat : sq = peer.seq + 1
  BY <1>2, PeerTypes
<1>6. CASE PeerHello
  <2>1. PICK n \in Nat : n = peer.hellos + 1
    BY <1>2, PeerTypes
  <2>2. PICK u \in Seq(Records(TheirKinds)) : u = Append(peer.queue, PeerRecord("sh"))
    BY <1>2, PeerRecordType DEF TheirKinds
  <2>3. PICK x : /\ x = [peer EXCEPT !.seq = sq, !.hellos = n, !.queue = u]
                 /\ peer' \in {x, Rekey(x)}
    <3> DEFINE x == [PeerNext EXCEPT !.hellos = @ + 1, !.queue = Append(@, PeerRecord("sh"))]
    <3>1. x = [peer EXCEPT !.seq = sq, !.hellos = n, !.queue = u]
      BY <1>2, <1>5, <2>1, <2>2 DEF PeerNext, PeerType
    <3>2. peer' \in {x, Rekey(x)}
      BY <1>6 DEF PeerHello
    <3> QED
      BY <3>1, <3>2
  <2>4. /\ x \in PeerType
        /\ x.eof = peer.eof /\ x.reset = peer.reset /\ x.reads = peer.reads
    BY <1>2, <2>3 DEF PeerType
  <2> QED
    BY <1>4, <2>3, <2>4, PeerRekey
<1>7. CASE PeerFlight
  <2>1. PICK n \in Nat : n = peer.flights + 1
    BY <1>2, PeerTypes
  <2>2. PICK u \in Seq(Records(TheirKinds)) : u = Append(peer.queue, PeerRecord("flight"))
    BY <1>2, PeerRecordType DEF TheirKinds
  <2>3. PICK x : /\ x = [peer EXCEPT !.seq = sq, !.flights = n, !.queue = u]
                 /\ peer' \in {x, Rekey(x)}
    <3> DEFINE x == [PeerNext EXCEPT !.flights = @ + 1, !.queue = Append(@, PeerRecord("flight"))]
    <3>1. x = [peer EXCEPT !.seq = sq, !.flights = n, !.queue = u]
      BY <1>2, <1>5, <2>1, <2>2 DEF PeerNext, PeerType
    <3>2. peer' \in {x, Rekey(x)}
      BY <1>7 DEF PeerFlight
    <3> QED
      BY <3>1, <3>2
  <2>4. /\ x \in PeerType
        /\ x.eof = peer.eof /\ x.reset = peer.reset /\ x.reads = peer.reads
    BY <1>2, <2>3 DEF PeerType
  <2> QED
    BY <1>4, <2>3, <2>4, PeerRekey
<1>8. CASE PeerFinished
  <2>1. PICK n \in Nat, e \in Nat, z \in Nat, o \in Nat :
          n = peer.fins + 1 /\ e = peer.epoch + 1 /\ z = 0 /\ o = 1
    BY <1>2, PeerTypes
  <2>2. /\ "fin" \in TheirKinds /\ "ccs" \in TheirKinds
        /\ peer.queue \in Seq(Records(TheirKinds)) /\ peer.epoch \in Nat /\ peer.seq \in Nat
    BY <1>2, PeerTypes DEF TheirKinds, Kinds
  <2>3. PICK a \in Records(TheirKinds) : a = PeerRecord("ccs")
    <3>1. PeerRecord("ccs") \in Records(TheirKinds)
      BY <2>2 DEF PeerRecord, Records
    <3> QED
      BY <3>1
  <2>4. PICK b \in Records(TheirKinds) : b = [k |-> "fin", e |-> e, s |-> z]
    <3>1. [k |-> "fin", e |-> e, s |-> z] \in Records(TheirKinds)
      BY <2>2 DEF Records
    <3> QED
      BY <3>1
  <2>5. PICK u \in Seq(Records(TheirKinds)) : u = peer.queue \o <<a, b>>
    <3> DEFINE R == Records(TheirKinds)
    <3> HIDE DEF R
    <3>1. a \in R /\ b \in R /\ peer.queue \in Seq(R)
      BY <2>2 DEF R
    <3>2. <<a, b>> \in Seq(R)
      BY <3>1
    <3>3. peer.queue \o <<a, b>> \in Seq(R)
      BY <3>1, <3>2, ConcatProperties
    <3> QED
      BY <3>3 DEF R
  <2>6. peer' = [peer EXCEPT !.epoch = e, !.seq = o, !.fins = n, !.queue = u]
    BY <1>2, <1>8, <2>1, <2>3, <2>5, <2>4 DEF PeerFinished
  <2>7. /\ peer' \in PeerType
        /\ peer'.eof = peer.eof /\ peer'.reset = peer.reset /\ peer'.reads = peer.reads
    BY <1>2, <2>6 DEF PeerType
  <2> QED
    BY <1>4, <2>7
<1>9. CASE PeerSends
  <2>1. PICK k \in cfg.kinds :
          LET unsealed == k = "bad" \/ (cfg.v13 /\ k = "ccs")
              q == [(IF unsealed THEN peer ELSE PeerNext) EXCEPT
                      !.sent = @ + 1, !.queue = Append(@, PeerRecord(k)),
                      !.half = (k = "half" \/ (@ /\ k # "rest")),
                      !.bad = @ \/ k = "bad" \/ (k = "ccs" /\ ~cfg.v13)
                                  \/ (k = "tickets" /\ ~cfg.client)]
          IN  peer' = IF k \in {"ku", "kur"} /\ cfg.v13 THEN Rekey(q) ELSE q
    BY <1>9 DEF PeerSends
  <2>2. k \in TheirKinds
    BY ConnAssumption DEF IInv, Typed, TypeOK, Case, TheirKinds
  <2>3. PICK n \in Nat : n = peer.sent + 1
    BY <1>2, PeerTypes
  <2>4. PICK u \in Seq(Records(TheirKinds)) : u = Append(peer.queue, PeerRecord(k))
    BY <1>2, <2>2, PeerRecordType
  <2>5. PICK h \in BOOLEAN : h = (k = "half" \/ (peer.half /\ k # "rest"))
    OBVIOUS
  <2>6. PICK d \in BOOLEAN :
          d = (peer.bad \/ k = "bad" \/ (k = "ccs" /\ ~cfg.v13) \/ (k = "tickets" /\ ~cfg.client))
    <3>1. (peer.bad \/ k = "bad" \/ (k = "ccs" /\ ~cfg.v13) \/ (k = "tickets" /\ ~cfg.client))
            \in BOOLEAN
      OBVIOUS
    <3> QED
      BY <3>1
  <2>7. PICK s \in Nat : IF k = "bad" \/ (cfg.v13 /\ k = "ccs") THEN s = peer.seq ELSE s = sq
    BY <1>2, PeerTypes
  <2>8. PICK x : /\ x = [peer EXCEPT !.seq = s, !.sent = n, !.queue = u, !.half = h, !.bad = d]
                 /\ peer' \in {x, Rekey(x)}
    <3> DEFINE y == IF k = "bad" \/ (cfg.v13 /\ k = "ccs") THEN peer ELSE PeerNext
               x == [y EXCEPT !.sent = @ + 1, !.queue = Append(@, PeerRecord(k)),
                       !.half = (k = "half" \/ (@ /\ k # "rest")),
                       !.bad = @ \/ k = "bad" \/ (k = "ccs" /\ ~cfg.v13)
                                  \/ (k = "tickets" /\ ~cfg.client)]
    <3>1. y = [peer EXCEPT !.seq = s]
      BY <1>2, <1>5, <2>7 DEF PeerNext, PeerType
    <3>2. peer' \in {x, Rekey(x)}
      BY <2>1
    <3> HIDE DEF y
    <3>3. /\ y.sent = peer.sent /\ y.queue = peer.queue /\ y.half = peer.half
          /\ y.bad = peer.bad
      BY <1>2, <3>1 DEF PeerType
    <3>4. x = [y EXCEPT !.sent = n, !.queue = u, !.half = h, !.bad = d]
      BY <2>3, <2>4, <2>5, <2>6, <3>3
    <3>5. x = [peer EXCEPT !.seq = s, !.sent = n, !.queue = u, !.half = h, !.bad = d]
      BY <1>2, <3>1, <3>4 DEF PeerType
    <3> QED
      BY <3>2, <3>5
  <2>9. /\ x \in PeerType
        /\ x.eof = peer.eof /\ x.reset = peer.reset /\ x.reads = peer.reads
    BY <1>2, <2>8 DEF PeerType
  <2> QED
    BY <1>4, <2>8, <2>9, PeerRekey
<1>10. CASE PeerStopsReading
  <2>1. peer' = [peer EXCEPT !.reads = FALSE]
    BY <1>10 DEF PeerStopsReading
  <2>2. /\ peer' \in PeerType /\ ~peer'.reads
        /\ peer'.eof = peer.eof /\ peer'.reset = peer.reset
    BY <1>2, <2>1 DEF PeerType
  <2> QED
    BY <1>2, <2>2 DEF Typed
<1>11. CASE PeerCloses
  <2>1. PICK r \in BOOLEAN : peer' = [peer EXCEPT !.eof = TRUE, !.reset = r] /\ ~peer.eof
    BY <1>11 DEF PeerCloses
  <2>2. peer' \in PeerType /\ peer'.eof /\ peer'.reads = peer.reads
    BY <1>2, <2>1 DEF PeerType
  <2> QED
    BY <1>2, <2>1, <2>2 DEF Typed
<1> QED
  BY <1>6, <1>7, <1>8, <1>9, <1>10, <1>11 DEF Peer

-----------------------------------------------------------------------------
(* The invariant *)

\* A new Conn, of Client or of the REALITY server, satisfies the invariant.
LEMMA InitInv ==
  ASSUME Init
  PROVE  IInv
<1>1. cfg \in Cases /\ cfg \in Case
  BY ConnAssumption DEF Init
<1>2. th = [p \in Procs |-> Idle]
  BY DEF Init
<1>3. \A p \in Procs : th[p] = Idle /\ intr[p].state = "none"
  BY DEF Init
<1>4. /\ wire = <<>> /\ out.sendBuf = <<>> /\ out.err = "none" /\ out.epoch = 0
      /\ ~out.buffering /\ ~out.notified /\ deadline = "none" /\ handshakes = 0
      /\ in.retry = 0 /\ in.err = "none" /\ ~handshakeErr /\ complete = ~cfg.client /\ active = 0
      /\ lock.hs = Free /\ lock.in = Free /\ lock.out = Free
  BY DEF Init
<1>5. Typed
  <2>1. th \in [Procs -> Thread]
    BY <1>2, IdleThread
  <2>2. lock \in LockState
    BY DEF Init, LockState
  <2>3. out \in OutState
    BY DEF Init, OutState
  <2>4. in \in InState
    BY ConnAssumption DEF Init, InState, Tries
  <2>5. intr \in [Procs -> Watcher]
    <3>1. [state |-> "none", cancelled |-> FALSE, late |-> FALSE] \in Watcher
      BY DEF Watcher
    <3> QED
      BY <3>1 DEF Init
  <2>6. peer \in PeerType /\ ~peer.reset
    BY DEF Init, PeerType
  <2>7. peer.queue \in Seq(Records(Kinds \cup {"sh", "flight", "fin"}))
    BY DEF Init
  <2>8. wire \in Seq(Records(OutKinds)) /\ calls \in [Procs -> Nat]
    BY DEF Init
  <2>9. complete \in BOOLEAN
    BY <1>1 DEF Init, Case
  <2> QED
    BY <1>1, <2>1, <2>2, <2>3, <2>4, <2>5, <2>6, <2>7, <2>8, <2>9 DEF Init, Typed, TypeOK
<1>6. Control
  <2>1. Shape(Idle) /\ ~HoldsIn(Idle) /\ ~HoldsHs(Idle) /\ ~HoldsOut(Idle)
    BY DEF Idle, Shape, AtSend, HoldsIn, HoldsHs, HoldsOut, Shaking
  <2> QED
    BY <1>3, <1>4, <2>1, ConnAssumption DEF Control, Watched, Holds
<1>7. Active
  <2>1. Writers = {}
    BY <1>3 DEF Writers, Idle
  <2> QED
    BY <1>4, <2>1, FS_EmptySet DEF Active
<1>8. \A p \in Procs : th[p].pc = "idle" /\ th[p].stage = "none" /\ ~th[p].reneg
  BY <1>3 DEF Idle
<1>9. \A k : Sent(k) = 0
  <2> SUFFICES ASSUME NEW k PROVE Sent(k) = 0
    OBVIOUS
  <2>1. {n \in DOMAIN wire : wire[n].k = k} = {}
    BY <1>4
  <2> QED
    BY <2>1, FS_EmptySet DEF Sent
<1>10. Shook
  BY <1>4, <1>8 DEF Shook, HoldsHs, Shaking
<1>11. Padded
  <2>1. ~cfg.client => complete
    BY Zenon DEF Init
  <2>2. \A n \in DOMAIN wire : wire[n].k # "ku"
    BY <1>4
  <2> QED
    BY <1>4, <1>8, <2>1, <2>2 DEF Padded
<1>12. Buffered
  BY <1>4, <1>8 DEF Buffered
<1>13. Numbered
  BY <1>4, <1>8 DEF Numbered, Chained
<1>14. Apart
  BY <1>4, <1>8 DEF Apart, NoDataInsideHandshake, Over
<1>15. Hushed
  BY <1>4, <1>8 DEF Hushed, NothingAfterAlert, Quiet
<1>16. Limited
  BY <1>4, ConnAssumption DEF Limited
<1>17. Tallied
  BY <1>4, <1>8, <1>9 DEF Tallied, RenegotiationBounded, HoldsHs, Reading, AtSend, Greeted,
                          Shaking
<1> QED
  BY <1>5, <1>6, <1>7, <1>10, <1>11, <1>12, <1>13, <1>14, <1>15, <1>16, <1>17 DEF IInv

\* Every step of a goroutine, of its interrupter, of a caller and of the peer
\* preserves it.
LEMMA NextInv ==
  ASSUME IInv, [Next]_vars
  PROVE  IInv'
<1>1. ASSUME NEW p \in Procs, Step(p)
      PROVE  IInv'
  BY <1>1, CloseStepsInv, ReturnInv, ContextInv, HandshakeLockInv, HandshakeSucceedsInv,
     HandshakeFailsInv, SealFailsInv, SendBufferedInv, SendBeginsInv, SendEndsInv,
     FlushBeginsInv, FlushEndsInv, ReadRecordInv, ReadErrorInv, ReadStepsInv,
     TakeServerHelloInv, TakeFinishedInv, MessageInv, RenegotiateInv
     DEF Step
<1>2. CASE UNCHANGED vars
  <2>1. UNCHANGED <<cfg, complete, handshakeErr, handshakes, lock, active, closing, out, in,
                    sock, deadline, wire, peer, th, calls, intr>>
    BY <1>2 DEF vars, shake, interlock
  <2>2. Typed'
    BY <2>1 DEF IInv, Typed, TypeOK
  <2>3. SockFails => SockFails'
    BY <2>1 DEF SockFails
  <2> QED
    BY <2>1, <2>2, <2>3, StillLemma
<1> QED
  BY <1>1, <1>2, BeginInv, InterruptInv, PeerInv DEF Next

\* The invariant holds for ever, whatever the goroutines call, however they are
\* scheduled and whatever the peer sends.
THEOREM ConnInvariant == Spec => []IInv
<1>1. Init => IInv
  BY InitInv
<1>2. IInv /\ [Next]_vars => IInv'
  BY NextInv
<1> QED
  BY <1>1, <1>2, PTL DEF Spec

\* Every variable keeps its type: above all, retryCount never passes
\* maxUselessRecords by more than one (retryReadRecord, handlePostHandshakeMessage).
THEOREM ConnTypeCorrect == Spec => []TypeOK
<1>1. IInv => TypeOK
  BY DEF IInv, Typed
<1> QED
  BY <1>1, ConnInvariant, PTL

\* The fast path of handshakeContext may trust isHandshakeComplete whenever
\* nobody holds handshakeMutex.
THEOREM CompleteIsClean == Spec => []CompleteMeansNoError
<1>1. IInv => CompleteMeansNoError
  BY DEF IInv, Shook, CompleteMeansNoError
<1> QED
  BY <1>1, ConnInvariant, PTL

\* A Write never puts application data inside a handshake on the wire.
THEOREM DataOutsideHandshakes == Spec => []NoDataInsideHandshake
<1>1. IInv => NoDataInsideHandshake
  BY DEF IInv, Apart
<1> QED
  BY <1>1, ConnInvariant, PTL

\* A Write never sends application data after an alert or a close_notify.
THEOREM SilentAfterAlert == Spec => []NothingAfterAlert
<1>1. IInv => NothingAfterAlert
  BY DEF IInv, Hushed
<1> QED
  BY <1>1, ConnInvariant, PTL

\* RenegotiateOnceAsClient: no third handshake completes, and no third
\* ClientHello leaves a Conn that can still write.
THEOREM OneRenegotiation == Spec => []RenegotiationBounded
<1>1. IInv => RenegotiationBounded
  BY DEF IInv, Tallied
<1> QED
  BY <1>1, ConnInvariant, PTL

-----------------------------------------------------------------------------
(* The records of the peer *)

\* A record or message of kind k is the last one under its key.
Rekeys(k) == IF cfg.v13 THEN k \in {"sh", "flight", "ku", "kur"} ELSE k = "ccs"

\* The epoch and the number of n are the ones the peer uses after r.
Continues(r, n) ==
  IF Rekeys(r.k) THEN n.e = r.e + 1 /\ n.s = 0
  ELSE n.e = r.e /\ n.s = (IF cfg.v13 /\ r.k = "ccs" THEN r.s ELSE r.s + 1)

\* A message cut short goes on in the next record, if that has a message.
Resumes(k, n) == cfg.v13 /\ k = "half" => n.k = "rest" \/ Messages(n.k) = <<>>

\* The next record of the peer, if it has a message.
Upcoming == [k |-> IF peer.half THEN "rest" ELSE "sh", e |-> peer.epoch, s |-> peer.seq]

Stream == Append(peer.queue, Upcoming)

Linked(sq) ==
  \A n \in 1 .. Len(sq) - 1 : Continues(sq[n], sq[n + 1]) /\ Resumes(sq[n].k, sq[n + 1])

\* The key changes with the message in hand, if it is one that changes it.
Awaited(n) ==
  /\ IF cfg.v13 /\ in.hand # <<>> /\ Rekeys(in.hand[1])
     THEN n.e = in.epoch + 1 /\ n.s = 0
     ELSE n.e = in.epoch /\ n.s = in.seq
  /\ in.hand = <<"half">> => Resumes("half", n)

\* What a record of kind k under epoch e says of the connection.
Placed(k, e) ==
  /\ k = "sh" => cfg.client /\ e = 0
  /\ k = "flight" => cfg.client /\ e = 1
  /\ k = "tickets" => cfg.client

\* In TLS 1.3 messages are used as they come, one record at a time.
InUse ==
  /\ in.hand \in {<<>>, <<"ticket", "ticket">>} \cup {<<m>> : m \in Pieces}
  /\ in.hand \notin {<<>>, <<"half">>} => \E p \in Procs : th[p].pc = "use"
  /\ in.hand = <<"ticket", "ticket">> => cfg.client
  /\ in.hand # <<>> => Placed(in.hand[1], in.epoch)

\* The goroutine has read the whole flight of the peer.
Spent(t) ==
  /\ t.stage = "flight"
  /\ t.pc \in {"flush", "flushing", "hs_ok"} \/ (AtSend(t) /\ t.send \in {"ccs", "fin"})

\* The reader can open what the peer has sent, and what it will send.
InLine ==
  /\ Linked(Stream) /\ Awaited(Stream[1])
  /\ \A n \in DOMAIN peer.queue : peer.queue[n].k # "bad"
  /\ cfg.v13 =>
       /\ InUse
       /\ \A n \in DOMAIN peer.queue : Placed(peer.queue[n].k, peer.queue[n].e)
       /\ cfg.client /\ (complete \/ \E p \in Procs : Spent(th[p])) => in.epoch >= 2

\* The handshake of the goroutine cannot succeed any more.
Losing(t) ==
  /\ t.stage \in Shaking \cup {"failed"}
  /\ t.stage = "failed" \/ t.pc \in {"fail", "hs_fail"} \/ (AtSend(t) /\ t.send = "alert")

\* Nobody reads another record, or the peer does not keep to the protocol.
Lost ==
  \/ peer.bad \/ in.err # "none" \/ \E p \in Procs : Condemning(th[p])
  \/ cfg.v13 /\ (handshakeErr \/ \E p \in Procs : Losing(th[p]))

\* The goroutine reads after the handshake.
Reads(t) ==
  /\ t.op = "read" /\ t.stage = "none"
  /\ t.pc \in {"in", "loop", "rec", "use", "fail"} \/ AtSend(t)

Sober ==
  /\ out.err = "bad_mac" => peer.bad
  /\ \A p \in Procs : th[p].alert = "bad_mac" => peer.bad
  /\ cfg.v13 => \A p \in Procs :
       /\ ~th[p].reneg /\ th[p].stage \notin {"ccs", "fin", "predict"}
       /\ Reads(th[p]) => complete

\* The goroutine has its ClientHello still to send.
Opening(t) == t.pc = "hs_in" \/ (AtSend(t) /\ t.send = "hello")

\* TLS 1.3 shakes hands once, and the peer's keys tell how far it is.
Once ==
  cfg.v13 =>
    /\ Sent("hello") <= IF cfg.client THEN 1 ELSE 0
    /\ (~complete /\ ~handshakeErr /\ lock.hs = Free) \/ (\E p \in Procs : Opening(th[p])) =>
         Sent("hello") = 0
    /\ \A n \in DOMAIN out.sendBuf : out.sendBuf[n].k # "hello"
    /\ peer.flights <= peer.hellos /\ peer.hellos <= Sent("hello")
    /\ cfg.client => /\ peer.hellos = 0 => peer.epoch = 0
                     /\ peer.flights = 0 /\ peer.hellos # 0 => peer.epoch = 1
                     /\ peer.half => peer.flights # 0

OpenInv == Sober /\ Once /\ (Lost \/ InLine)

-----------------------------------------------------------------------------
(* Steps that do not read *)

\* The step leaves alone what the peer has sent, what has been read of it, and the hellos.
Passive(p, t) ==
  /\ UNCHANGED <<cfg, peer, wire>>
  /\ in'.hand = in.hand /\ in'.epoch = in.epoch /\ in'.seq = in.seq /\ in'.err = in.err
  /\ out'.sendBuf = out.sendBuf /\ (out'.err = out.err \/ out'.err # "bad_mac")
  /\ complete' => complete
  /\ t.alert \in {th[p].alert, "none"}
  /\ Condemning(th[p]) => Condemning(t)
  /\ cfg.v13 =>
       /\ complete => complete'
       /\ handshakeErr => handshakeErr'
       /\ ~t.reneg /\ t.stage \notin {"ccs", "fin", "predict"}
       /\ Reads(t) => complete
       /\ Losing(th[p]) => Losing(t) \/ handshakeErr'
       /\ th[p].pc = "use" => t.pc = "use" \/ in.hand \in {<<>>, <<"half">>} \/ Lost
       /\ Spent(t) => Spent(th[p])
       /\ Opening(t) => Opening(th[p]) \/ (~complete /\ ~handshakeErr /\ lock.hs = Free)
       /\ ~complete /\ ~handshakeErr' /\ lock'.hs = Free => ~handshakeErr /\ lock.hs = Free

\* The stream of the peer stays in line as long as nothing is sent or read.
LEMMA SameLine ==
  ASSUME cfg' = cfg, peer'.queue = peer.queue, peer'.epoch = peer.epoch, peer'.seq = peer.seq,
         peer'.half = peer.half, InLine,
         in'.hand = in.hand, in'.epoch = in.epoch, in'.seq = in.seq
  PROVE  /\ Linked(Stream)' /\ Awaited(Stream[1])'
         /\ \A n \in DOMAIN peer'.queue : peer'.queue[n].k # "bad"
         /\ cfg'.v13 => \A n \in DOMAIN peer'.queue : Placed(peer.queue[n].k, peer.queue[n].e)'
<1>1. Stream' = Stream
  BY DEF Stream, Upcoming
<1>2. Linked(Stream)'
  BY <1>1 DEF InLine, Linked, Continues, Resumes, Rekeys
<1>3. Awaited(Stream[1])'
  BY <1>1 DEF InLine, Awaited, Resumes, Rekeys
<1>4. cfg'.v13 => \A n \in DOMAIN peer'.queue : Placed(peer.queue[n].k, peer.queue[n].e)'
  BY DEF InLine, Placed
<1> QED
  BY <1>2, <1>3, <1>4 DEF InLine

\* The step leaves alone what the peer has sent and what has been read of it.
Steady(p, t) ==
  /\ UNCHANGED <<cfg, peer>>
  /\ in'.hand = in.hand /\ in'.epoch = in.epoch /\ in'.seq = in.seq
  /\ in.err # "none" => in'.err # "none"
  /\ out'.err = "bad_mac" => out.err = "bad_mac" \/ th[p].alert = "bad_mac"
  /\ t.alert \in {th[p].alert, "none"}
  /\ Condemning(th[p]) => Condemning(t) \/ in'.err # "none"
  /\ cfg.v13 =>
       /\ complete => complete'
       /\ handshakeErr => handshakeErr'
       /\ ~t.reneg /\ t.stage \notin {"ccs", "fin", "predict"}
       /\ Reads(t) => complete
       /\ Losing(th[p]) => Losing(t) \/ handshakeErr'
       /\ th[p].pc = "use" => t.pc = "use" \/ in.hand \in {<<>>, <<"half">>} \/ Lost
       /\ complete' \/ Spent(t) => complete \/ Spent(th[p])

\* Such a step keeps the reader in line.
LEMMA SteadyLemma ==
  ASSUME IInv, OpenInv, NEW p \in Procs, NEW t, Moves(p, t), Steady(p, t), Once'
  PROVE  OpenInv'
<1>1. th'[p] = t /\ \A q \in Procs : q # p => th'[q] = th[q]
  BY DEF Moves, IInv, Typed
<1>2. Sober'
  <2>1. out'.err = "bad_mac" => peer'.bad
    BY DEF OpenInv, Sober, Steady
  <2>2. ASSUME NEW q \in Procs
        PROVE  /\ th'[q].alert = "bad_mac" => peer'.bad
               /\ cfg'.v13 => /\ ~th'[q].reneg /\ th'[q].stage \notin {"ccs", "fin", "predict"}
                              /\ Reads(th'[q]) => complete'
    BY <1>1 DEF OpenInv, Sober, Steady
  <2> QED
    BY <2>1, <2>2 DEF Sober
<1>4. Lost => Lost'
  <2>1. (\E q \in Procs : Condemning(th[q])) =>
          in'.err # "none" \/ \E q \in Procs : Condemning(th'[q])
    BY <1>1 DEF Steady
  <2>2. cfg.v13 /\ (\E q \in Procs : Losing(th[q])) =>
          handshakeErr' \/ \E q \in Procs : Losing(th'[q])
    BY <1>1 DEF Steady
  <2> QED
    BY <2>1, <2>2 DEF Lost, Steady
<1>5. InLine /\ ~Lost => InLine'
  <2> SUFFICES ASSUME InLine, ~Lost PROVE InLine'
    OBVIOUS
  <2>1. /\ Linked(Stream)' /\ Awaited(Stream[1])'
        /\ \A n \in DOMAIN peer'.queue : peer'.queue[n].k # "bad"
        /\ cfg'.v13 => \A n \in DOMAIN peer'.queue : Placed(peer.queue[n].k, peer.queue[n].e)'
    BY SameLine DEF Steady
  <2>2. ASSUME cfg.v13
        PROVE  InUse' /\ (cfg'.client /\ (complete' \/ \E q \in Procs : Spent(th'[q])) =>
                            in'.epoch >= 2)
    <3>1. in.hand \notin {<<>>, <<"half">>} => \E q \in Procs : th'[q].pc = "use"
      BY <1>1, <2>2 DEF InLine, InUse, Steady
    <3>2. InUse'
      BY <2>2, <3>1 DEF InLine, InUse, Placed, Steady
    <3>3. complete' \/ (\E q \in Procs : Spent(th'[q])) => complete \/ \E q \in Procs : Spent(th[q])
      BY <1>1, <2>2 DEF Steady
    <3> QED
      BY <2>2, <3>2, <3>3 DEF InLine, Steady
  <2> QED
    BY <2>1, <2>2 DEF InLine, Steady
<1> QED
  BY <1>2, <1>4, <1>5 DEF OpenInv

\* A Passive step keeps the reader in line.
LEMMA PassiveLemma ==
  ASSUME IInv, OpenInv, NEW p \in Procs, NEW t, Moves(p, t), Passive(p, t)
  PROVE  OpenInv'
<1>1. th'[p] = t /\ \A q \in Procs : q # p => th'[q] = th[q]
  BY DEF Moves, IInv, Typed
<1>2. Steady(p, t)
  BY DEF Steady, Passive
<1>3. Once'
  <2>1. Sent("hello")' = Sent("hello")
    BY DEF Passive, Sent
  <2>2. ASSUME cfg.v13
        PROVE  (~complete' /\ ~handshakeErr' /\ lock'.hs = Free)
                 \/ (\E q \in Procs : Opening(th'[q])) => Sent("hello") = 0
    BY <1>1, <2>2 DEF OpenInv, Once, Passive
  <2> QED
    BY <2>1, <2>2 DEF OpenInv, Once, Passive
<1> QED
  BY <1>2, <1>3, SteadyLemma

\* A step that changes no goroutine, nor anything the reader or the peer sees.
LEMMA StillOpen ==
  ASSUME OpenInv, UNCHANGED <<cfg, complete, handshakeErr, lock, out, in, wire, peer, th>>
  PROVE  OpenInv'
<1>1. Sober' /\ (Lost => Lost')
  BY DEF OpenInv, Sober, Lost
<1>2. Once'
  <2>1. Sent("hello")' = Sent("hello")
    BY DEF Sent
  <2> QED
    BY <2>1 DEF OpenInv, Once
<1>3. InLine => InLine'
  <2>1. InUse => InUse'
    BY DEF InUse, Placed
  <2> QED
    BY <2>1, SameLine DEF InLine
<1> QED
  BY <1>1, <1>2, <1>3 DEF OpenInv

\* What the two invariants say of one goroutine.
LEMMA KnownOpen ==
  ASSUME IInv, OpenInv, NEW p \in Procs
  PROVE  /\ Shape(th[p]) /\ Holds(th[p], lock, p) /\ Free \notin Procs
         /\ HoldsHs(th[p]) => (complete <=> th[p].pc = "hs_ok")
         /\ HoldsHs(th[p]) /\ ~th[p].reneg => (handshakeErr <=> th[p].stage = "failed")
         /\ cfg.v13 => /\ ~th[p].reneg /\ th[p].stage \notin {"ccs", "fin", "predict"}
                       /\ th[p].pc # "reneg"
                       /\ Reads(th[p]) => complete
         /\ cfg.v13 \in BOOLEAN /\ cfg.client \in BOOLEAN /\ (cfg.client \/ cfg.v13)
<1>1. cfg.v13 \in BOOLEAN /\ cfg.client \in BOOLEAN /\ (cfg.client \/ cfg.v13)
  BY ConnAssumption DEF IInv, Typed, TypeOK, Case
<1> QED
  BY <1>1, ConnAssumption DEF IInv, Control, Shook, OpenInv, Sober

\* A call begins or returns.
LEMMA CallsOpen ==
  ASSUME IInv, OpenInv, NEW p \in Procs, Begin(p) \/ Return(p)
  PROVE  OpenInv'
<1>1. th \in [Procs -> Thread]
  BY DEF IInv, Typed
<1>2. /\ UNCHANGED <<cfg, complete, handshakeErr, lock, out, in, wire, peer>>
      /\ th[p].pc \in {"idle", "end"}
  BY DEF Begin, Return, Write, Close, CloseWrite, Read, HandshakeContext, ConnectionState, Call,
         Called, At, shake
<1>3. ASSUME NEW t, Moves(p, t),
             t.pc \in {"idle", "hs_fast", "load", "shut", "state"}, t.stage = "none",
             ~t.reneg, t.alert = "none"
      PROVE  OpenInv'
  <2>0. th[p].stage \notin Shaking \cup {"failed"}
    BY <1>2, KnownOpen DEF Shape, Shaking
  <2>1. Passive(p, t)
    BY <1>2, <1>3, <2>0
       DEF Passive, Condemning, AtSend, Reads, Losing, Shaking, Spent, Opening
  <2> QED
    BY <1>3, <2>1, PassiveLemma
<1>4. ASSUME NEW o \in Calling, NEW l \in {"hs_fast", "load", "shut", "state"},
             th' = [th EXCEPT ![p] = [Idle EXCEPT !.op = o, !.pc = l]]
      PROVE  OpenInv'
  <2>1. PICK t : Moves(p, t) /\ Is(t, o, l, "none", "none", FALSE, "none", FALSE, <<>>)
    BY <1>1, <1>4, BeginMoves DEF Places
  <2> QED
    BY <1>3, <2>1 DEF Is
<1>5. CASE Return(p)
  <2>1. Moves(p, Idle)
    BY <1>5, IdleThread DEF Return, Moves
  <2>2. Idle.pc = "idle" /\ Idle.stage = "none" /\ ~Idle.reneg /\ Idle.alert = "none"
    BY DEF Idle
  <2> QED
    BY <1>3, <2>1, <2>2
<1>6. CASE UNCHANGED th
  BY <1>2, <1>6, StillOpen
<1>7. CloseGoesTo \in {"load", "shut"}
  BY DEF CloseGoesTo
<1> QED
  BY <1>4, <1>5, <1>6, <1>7
     DEF Begin, Write, Close, CloseWrite, Read, HandshakeContext, ConnectionState, Call, Calling

\* A goroutine moves on, and nothing else happens that concerns the reader.
LEMMA GoOpen ==
  ASSUME IInv, OpenInv, NEW p \in Procs, NEW t, Moves(p, t), NEW l, NEW c,
         UNCHANGED <<cfg, complete, handshakeErr, wire, peer>>,
         lock'.hs = lock.hs,
         in'.hand = in.hand, in'.epoch = in.epoch, in'.seq = in.seq, in'.err = in.err,
         out'.sendBuf = out.sendBuf, out'.err = out.err \/ out'.err # "bad_mac",
         Is(t, th[p].op, l, th[p].send, th[p].stage, th[p].reneg, th[p].alert, th[p].inerr, c),
         \/ th[p].pc = "state" /\ l = "end"
         \/ th[p].pc = "load" /\ l \in {"end", "shut"}
         \/ th[p].pc = "shut" /\ l = "end"
         \/ th[p].pc = "out" /\ l \in {"shut", "end"} /\ th[p].send \in {"data", "close_notify"}
         \/ th[p].pc = "out" /\ l = "use" /\ th[p].send = "ku"
         \/ th[p].pc = "out" /\ l = "sock"
         \/ th[p].pc = "hs_fast" /\ l = "hs_mutex"
         \/ th[p].pc = "hs_done" /\ l = "hs_wait"
         \/ th[p].pc = "hs_wait" /\ l = "end"
         \/ th[p].pc = "flush" /\ l = "flushing"
         \/ th[p].pc = "in" /\ l = "loop"
         \/ th[p].pc = "loop" /\ l \in {"rec", "end"}
         \/ th[p].pc = "use" /\ (in.hand \in {<<>>, <<"half">>} \/ Lost) /\ l \in {"loop", "rec"}
         \/ th[p].pc = "use" /\ ~cfg.v13 /\ l \in {"loop", "rec", "end"}
         \/ th[p].pc = "fail" /\ l = "hs_fail" /\ th[p].stage \in Shaking
         \/ th[p].pc = "fail" /\ l = "end" /\ th[p].stage \in {"none", "predict"}
  PROVE  OpenInv'
<1>1. Condemning(th[p]) => Condemning(t)
  BY KnownOpen DEF Is, Condemning, AtSend
<1>2. ASSUME cfg.v13
      PROVE  /\ ~t.reneg /\ t.stage \notin {"ccs", "fin", "predict"}
             /\ Reads(t) => complete
             /\ Losing(th[p]) => Losing(t)
             /\ Spent(t) => Spent(th[p])
             /\ Opening(t) => Opening(th[p])
  BY <1>2, KnownOpen DEF Is, AtSend, Reads, Losing, Spent, Opening, Shape, Shaking
<1>3. cfg.v13 /\ th[p].pc = "use" => t.pc = "use" \/ in.hand \in {<<>>, <<"half">>} \/ Lost
  BY DEF Is
<1>4. Passive(p, t)
  BY <1>1, <1>2, <1>3 DEF Is, Passive
<1> QED
  BY <1>4, PassiveLemma

\* The steps of a goroutine that only move it on.
LEMMA MovesOpen ==
  ASSUME IInv, OpenInv, NEW p \in Procs,
         \/ GetState(p) \/ LoadComplete(p) \/ Shut(p) \/ SendRefused(p) \/ SealFails(p)
         \/ HandshakeDone(p) \/ HandshakeResult(p) \/ ReadLock(p) \/ Fail(p)
  PROVE  OpenInv'
<1>1. th \in [Procs -> Thread] /\ lock \in LockState /\ out \in OutState
  BY DEF IInv, Typed, TypeOK
<1>2. /\ UNCHANGED <<cfg, complete, handshakeErr, in, wire, peer>>
      /\ out'.sendBuf = out.sendBuf /\ (out'.err = out.err \/ out'.err # "bad_mac")
      /\ lock'.hs = lock.hs
  <2>1. UNCHANGED <<cfg, complete, handshakeErr, in, wire, peer>>
    BY DEF GetState, LoadComplete, Shut, SendRefused, SealFails, HandshakeDone, HandshakeResult,
           ReadLock, Fail, shake
  <2>2. out' = out \/ out' = [out EXCEPT !.err = "padding"]
    BY DEF GetState, LoadComplete, Shut, SendRefused, SealFails, HandshakeDone, HandshakeResult,
           ReadLock, Fail
  <2>3. lock' = lock \/ lock' = [lock EXCEPT !.in = p] \/ lock' = [lock EXCEPT !.in = Free]
    BY DEF GetState, LoadComplete, Shut, SendRefused, SealFails, HandshakeDone, HandshakeResult,
           ReadLock, Fail
  <2> QED
    BY <1>1, <2>1, <2>2, <2>3 DEF OutState, LockState
<1>3. CASE LoadComplete(p) /\ complete
  <2>1. PICK t : /\ Moves(p, t)
                 /\ Is(t, th[p].op, "out", "close_notify", th[p].stage, th[p].reneg,
                       th[p].alert, th[p].inerr, th[p].chunk)
    BY <1>1, <1>3, SendingMoves DEF LoadComplete, OutKinds
  <2>2. th[p].pc = "load" /\ th[p].stage = "none" /\ th[p].op \in {"close", "closewrite"}
    BY <1>3, KnownOpen DEF LoadComplete, At, Shape
  <2>3. Passive(p, t)
    BY <1>2, <2>1, <2>2, KnownOpen
       DEF Is, Passive, Condemning, AtSend, Reads, Losing, Shaking, Spent, Opening
  <2> QED
    BY <2>1, <2>3, PassiveLemma
<1>4. ASSUME ~(LoadComplete(p) /\ complete)
      PROVE  OpenInv'
  <2>1. PICK l \in Places :
          /\ Go(p, l)
          /\ \/ th[p].pc = "state" /\ l = "end"
             \/ th[p].pc = "load" /\ l \in {"end", "shut"}
             \/ th[p].pc = "shut" /\ l = "end"
             \/ /\ th[p].pc = "out" /\ l \in {"shut", "end"}
                /\ th[p].send \in {"data", "close_notify"}
             \/ th[p].pc = "out" /\ l = "use" /\ th[p].send = "ku"
             \/ th[p].pc = "hs_done" /\ l = "hs_wait"
             \/ th[p].pc = "hs_wait" /\ l = "end"
             \/ th[p].pc = "in" /\ l = "loop"
             \/ th[p].pc = "fail" /\ l = "hs_fail" /\ th[p].stage \in Shaking
             \/ th[p].pc = "fail" /\ l = "end" /\ th[p].stage \in {"none", "predict"}
    <3>1. CASE LoadComplete(p)
      BY <1>4, <3>1 DEF LoadComplete, At, Go, Places
    <3>2. CASE SendRefused(p) \/ SealFails(p)
      BY <3>2, MisfitsKu DEF SendRefused, Refused, AfterNotify, SealFails, At, AtSend, Places
    <3>3. CASE GetState(p) \/ Shut(p) \/ HandshakeDone(p) \/ HandshakeResult(p) \/ ReadLock(p)
      BY <3>3 DEF GetState, Shut, HandshakeDone, HandshakeResult, ReadLock, At, Places
    <3>4. CASE Fail(p)
      BY <3>4 DEF Fail, At, Places, Shaking
    <3> QED
      BY <3>1, <3>2, <3>3, <3>4
  <2>2. PICK t : /\ Moves(p, t)
                 /\ Is(t, th[p].op, l, th[p].send, th[p].stage, th[p].reneg, th[p].alert,
                       th[p].inerr, th[p].chunk)
    BY <1>1, <2>1, GoMoves
  <2> QED
    BY <1>2, <2>1, <2>2, GoOpen
<1> QED
  BY <1>3, <1>4

\* SendBegins and FlushBegins: the goroutine holds what it writes.
LEMMA BeginsOpen ==
  ASSUME IInv, OpenInv, NEW p \in Procs, SendBegins(p) \/ FlushBegins(p)
  PROVE  OpenInv'
<1>1. th \in [Procs -> Thread] /\ lock \in LockState /\ out \in OutState
  BY DEF IInv, Typed, TypeOK
<1>2. /\ UNCHANGED <<cfg, complete, handshakeErr, in, wire, peer>>
      /\ out'.sendBuf = out.sendBuf /\ out'.err = out.err /\ lock'.hs = lock.hs
  <2>1. UNCHANGED <<cfg, complete, handshakeErr, in, wire, peer>>
    BY DEF SendBegins, FlushBegins, shake
  <2>2. out' = out \/ out' = [out EXCEPT !.seq = @ + 1]
    BY DEF SendBegins, FlushBegins
  <2>3. lock' = lock \/ lock' = [lock EXCEPT !.out = p]
    BY DEF SendBegins, FlushBegins
  <2> QED
    BY <1>1, <2>1, <2>2, <2>3 DEF OutState, LockState
<1>3. PICK l, c : /\ th' = [th EXCEPT ![p].pc = l, ![p].chunk = c]
                  /\ \/ th[p].pc = "out" /\ l = "sock"
                     \/ th[p].pc = "flush" /\ l = "flushing"
  BY DEF SendBegins, FlushBegins, At
<1> DEFINE t == [th[p] EXCEPT !.pc = l, !.chunk = c]
<1>4. th' = [th EXCEPT ![p] = t]
  BY <1>3
<1>5. Is(t, th[p].op, l, th[p].send, th[p].stage, th[p].reneg, th[p].alert, th[p].inerr, c)
  BY <1>1 DEF Is, Thread
<1>6. t = th'[p]
  BY <1>1, <1>4
<1>7. th'[p] \in Thread
  BY NextInv DEF Next, Step, IInv, Typed
<1> HIDE DEF t
<1>8. Moves(p, t)
  BY <1>4, <1>6, <1>7 DEF Moves
<1> QED
  BY <1>2, <1>3, <1>5, <1>8, GoOpen

\* ReadLoop and UseNothing: the reader asks for the next record or returns.
LEMMA LoopOpen ==
  ASSUME IInv, OpenInv, NEW p \in Procs, ReadLoop(p) \/ UseNothing(p)
  PROVE  OpenInv'
<1>1. th \in [Procs -> Thread] /\ lock \in LockState /\ in \in InState
  BY DEF IInv, Typed, TypeOK
<1>2. /\ UNCHANGED <<cfg, complete, handshakeErr, out, wire, peer>>
      /\ in'.hand = in.hand /\ in'.epoch = in.epoch /\ in'.seq = in.seq /\ in'.err = in.err
      /\ lock'.hs = lock.hs
  <2>1. UNCHANGED <<cfg, complete, handshakeErr, out, wire, peer>>
    BY DEF ReadLoop, UseNothing, shake
  <2>2. in' = in \/ \E more \in BOOLEAN : in' = [in EXCEPT !.input = more]
    BY DEF ReadLoop, UseNothing
  <2>3. lock' = lock \/ lock' = [lock EXCEPT !.in = Free]
    BY DEF ReadLoop, UseNothing
  <2> QED
    BY <1>1, <2>1, <2>2, <2>3 DEF InState, LockState
<1>3. ASSUME NEW g, ~cfg.v13, NEW l, th' = [th EXCEPT ![p].pc = l, ![p].stage = g],
             th[p].pc \in {"loop", "use"}
      PROVE  OpenInv'
  <2> DEFINE t == [th[p] EXCEPT !.pc = l, !.stage = g]
  <2>1. th' = [th EXCEPT ![p] = t] /\ t.alert = th[p].alert
    BY <1>1, <1>3 DEF Thread
  <2>2. t = th'[p]
    BY <1>1, <2>1
  <2>3. th'[p] \in Thread
    BY NextInv DEF Next, Step, IInv, Typed
  <2> HIDE DEF t
  <2>4. Moves(p, t)
    BY <2>1, <2>2, <2>3 DEF Moves
  <2>5. Passive(p, t)
    BY <1>2, <1>3, <2>1 DEF Passive, Condemning, AtSend
  <2> QED
    BY <2>4, <2>5, PassiveLemma
<1>4. ASSUME NEW l \in Places, Go(p, l),
             \/ th[p].pc = "loop" /\ l \in {"rec", "end"}
             \/ th[p].pc = "use" /\ (in.hand \in {<<>>, <<"half">>} \/ Lost) /\ l \in {"loop", "rec"}
             \/ th[p].pc = "use" /\ ~cfg.v13 /\ l \in {"loop", "rec", "end"}
      PROVE  OpenInv'
  <2>2. PICK t : /\ Moves(p, t)
                 /\ Is(t, th[p].op, l, th[p].send, th[p].stage, th[p].reneg, th[p].alert,
                       th[p].inerr, th[p].chunk)
    BY <1>1, <1>4, GoMoves
  <2> QED
    BY <1>2, <1>4, <2>2, GoOpen
<1>5. cfg.v13 => th[p].stage \notin {"predict", "ccs"}
  BY KnownOpen
<1>6. CASE ReadLoop(p)
  <2>1. CASE Go(p, "rec") \/ Go(p, "end")
    BY <1>4, <1>6, <2>1 DEF ReadLoop, At, Places
  <2>2. CASE th' = [th EXCEPT ![p].pc = "rec", ![p].stage = "predict"] /\ ~cfg.v13
    BY <1>3, <1>6, <2>2 DEF ReadLoop, At
  <2> QED
    BY <1>6, <2>1, <2>2 DEF ReadLoop, AlertBuffered
<1>7. CASE UseNothing(p)
  <2>1. th[p].pc = "use"
    BY <1>7 DEF UseNothing, At
  <2>2. CASE in.hand = <<>> /\ (Go(p, "loop") \/ Go(p, "rec"))
    BY <1>4, <2>1, <2>2 DEF Places
  <2>3. CASE th[p].stage = "predict" /\ Go(p, "end")
    BY <1>4, <1>5, <2>1, <2>3 DEF Places
  <2>4. CASE th[p].stage = "ccs" /\ th' = [th EXCEPT ![p].stage = "fin"]
    <3>1. th' = [th EXCEPT ![p].pc = "use", ![p].stage = "fin"]
      <4>1. [th[p] EXCEPT !.stage = "fin"] = [th[p] EXCEPT !.pc = "use", !.stage = "fin"]
        BY <1>1, <2>1 DEF Thread
      <4> QED
        BY <2>4, <4>1
    <3> QED
      BY <1>3, <1>5, <2>1, <2>4, <3>1
  <2>5. CASE in.hand # <<>> /\ Head(in.hand) = "half" /\ Go(p, "rec")
    <3>1. CASE ~cfg.v13 \/ Lost
      BY <1>4, <2>1, <2>5, <3>1 DEF Places
    <3>2. CASE cfg.v13 /\ ~Lost
      <4>1. in.hand \in {<<>>, <<"ticket", "ticket">>} \cup {<<m>> : m \in Pieces}
        BY <3>2 DEF OpenInv, InLine, InUse
      <4>2. in.hand = <<"half">>
        BY <2>5, <4>1
      <4> QED
        BY <1>4, <2>1, <2>5, <4>2 DEF Places
    <3> QED
      BY <3>1, <3>2
  <2> QED
    BY <1>7, <2>2, <2>3, <2>4, <2>5 DEF UseNothing
<1> QED
  BY <1>6, <1>7

\* The handshake is entered and left, and nothing is read or written.
LEMMA ContextOpen ==
  ASSUME IInv, OpenInv, NEW p \in Procs,
         \/ HandshakeFast(p) \/ HandshakeLock(p) \/ HandshakeLockIn(p) \/ HandshakeSucceeds(p)
         \/ HandshakeFails(p) \/ FlushNothing(p) \/ Renegotiate(p)
  PROVE  OpenInv'
<1>1. th \in [Procs -> Thread] /\ lock \in LockState
  BY DEF IInv, Typed, TypeOK
<1>2. UNCHANGED <<cfg, out, in, wire, peer>>
  BY DEF HandshakeFast, HandshakeLock, HandshakeLockIn, HandshakeSucceeds, HandshakeFails,
         FlushNothing, Renegotiate
<1>3. th[p].pc \notin {"out", "sock", "use"}
  BY DEF HandshakeFast, HandshakeLock, HandshakeLockIn, HandshakeSucceeds, HandshakeFails,
         FlushNothing, Renegotiate, At
<1>4. ~Condemning(th[p])
  BY <1>3 DEF Condemning, AtSend
\* The call goes on after its handshake.
<1>5. ASSUME NEW ok \in BOOLEAN, th' = AfterHandshake(p, ok),
             th[p].op \in {"read", "write", "handshake"}, complete' = complete,
             cfg.v13 => /\ ok => complete
                        /\ handshakeErr => handshakeErr'
                        /\ Losing(th[p]) => handshakeErr'
                        /\ lock'.hs = lock.hs \/ complete \/ handshakeErr'
                        /\ handshakeErr' = handshakeErr
      PROVE  OpenInv'
  <2>1. PICK t : /\ Moves(p, t)
                 /\ Is(t, th[p].op, t.pc, IF th[p].op = "write" THEN "data" ELSE "none", "none",
                      th[p].reneg, th[p].alert, th[p].inerr, th[p].chunk)
                 /\ IF Interrupted(p) THEN t.pc = "hs_done"
                    ELSE IF ~ok \/ th[p].op = "handshake" THEN t.pc = "end"
                    ELSE IF th[p].op = "read" THEN t.pc = "in" ELSE t.pc = "out"
    BY <1>1, <1>5, AfterHandshakeMoves
  <2>2. /\ t.stage = "none" /\ t.alert = th[p].alert /\ (t.reneg <=> th[p].reneg)
        /\ t.pc \in {"hs_done", "end", "in", "out"} /\ (t.pc = "in" => ok)
        /\ t.pc = "out" => t.send = "data" /\ t.op = "write"
    BY <1>5, <2>1 DEF Is
  <2>3. ~Spent(t) /\ ~Opening(t) /\ (Reads(t) => ok)
    BY <2>2 DEF Spent, Opening, Reads, AtSend
  <2>4. Passive(p, t)
    BY <1>2, <1>3, <1>4, <1>5, <2>2, <2>3, KnownOpen DEF Passive
  <2> QED
    BY <2>1, <2>4, PassiveLemma
\* The goroutine stays in its handshake, or begins one.
<1>6. ASSUME NEW l, NEW k, NEW g, NEW n,
             th' = [th EXCEPT ![p] = [th[p] EXCEPT !.pc = l, !.send = k, !.stage = g, !.reneg = n]],
             complete' => complete,
             cfg.v13 => /\ complete => complete'
                        /\ handshakeErr => handshakeErr'
                        /\ Losing(th[p]) => handshakeErr'
                        /\ lock'.hs # Free \/ handshakeErr'
                        /\ ~n /\ g \in {"none", "sh", "flight", "failed"}
                        /\ l = "hs_in" \/ g # "none"
                        /\ l = "hs_in" => ~complete /\ ~handshakeErr /\ lock.hs = Free
                        /\ l \in {"out", "sock"} /\ k = "hello" => th[p].pc = "hs_in"
                        /\ g # "flight"
      PROVE  OpenInv'
  <2> DEFINE t == [th[p] EXCEPT !.pc = l, !.send = k, !.stage = g, !.reneg = n]
  <2>1. /\ th' = [th EXCEPT ![p] = t] /\ t.pc = l /\ t.send = k /\ t.stage = g /\ t.reneg = n
        /\ t.alert = th[p].alert
    BY <1>1, <1>6 DEF Thread
  <2>2. t = th'[p]
    BY <1>1, <2>1
  <2>3. th'[p] \in Thread
    BY NextInv DEF Next, Step, IInv, Typed
  <2> HIDE DEF t
  <2>4. Moves(p, t)
    BY <2>1, <2>2, <2>3 DEF Moves
  <2>5. cfg.v13 => ~Spent(t) /\ ~Reads(t)
    BY <1>6, <2>1 DEF Spent, Reads, AtSend
  <2>6. cfg.v13 /\ Opening(t) =>
          Opening(th[p]) \/ (~complete /\ ~handshakeErr /\ lock.hs = Free)
    BY <1>6, <2>1 DEF Opening, AtSend
  <2>7. Passive(p, t)
    BY <1>2, <1>3, <1>4, <1>6, <2>1, <2>5, <2>6 DEF Passive
  <2> QED
    BY <2>4, <2>7, PassiveLemma
<1>7. th[p].op \in {"read", "write", "handshake"}
  BY KnownOpen
     DEF HandshakeFast, HandshakeLock, HandshakeLockIn, HandshakeSucceeds, HandshakeFails,
         FlushNothing, Renegotiate, At, Shape, Shaking
<1>8. CASE HandshakeFast(p)
  <2>1. th[p].pc = "hs_fast" /\ UNCHANGED <<complete, handshakeErr, lock>> /\ ~Losing(th[p])
    BY <1>8, KnownOpen DEF HandshakeFast, At, shake, Losing, Shape, Shaking
  <2>2. CASE complete /\ th' = AfterHandshake(p, TRUE)
    BY <1>5, <1>7, <2>1, <2>2
  <2>3. CASE Go(p, "hs_mutex")
    <3>1. PICK t : /\ Moves(p, t)
                   /\ Is(t, th[p].op, "hs_mutex", th[p].send, th[p].stage, th[p].reneg,
                         th[p].alert, th[p].inerr, th[p].chunk)
      BY <1>1, <2>3, GoMoves DEF Places
    <3> QED
      BY <1>2, <2>1, <3>1, GoOpen
  <2> QED
    BY <1>8, <2>2, <2>3 DEF HandshakeFast
<1>9. CASE HandshakeLock(p)
  <2>1. /\ th[p].pc = "hs_mutex" /\ UNCHANGED <<complete, handshakeErr>> /\ lock.hs = Free
        /\ ~Losing(th[p]) /\ th[p].stage = "none"
    BY <1>9, KnownOpen DEF HandshakeLock, At, shake, Losing, Shape, Shaking
  <2>2. CASE handshakeErr /\ th' = AfterHandshake(p, FALSE) /\ UNCHANGED lock
    BY <1>5, <1>7, <2>1, <2>2
  <2>3. CASE complete /\ th' = AfterHandshake(p, TRUE) /\ UNCHANGED lock
    BY <1>5, <1>7, <2>1, <2>3
  <2>4. CASE ~handshakeErr /\ ~complete /\ lock' = [lock EXCEPT !.hs = p] /\ Go(p, "hs_in")
    <3>1. lock'.hs # Free
      BY <1>1, <2>4, ConnAssumption DEF LockState
    <3>2. th' = [th EXCEPT ![p] = [th[p] EXCEPT !.pc = "hs_in", !.send = th[p].send,
                                                !.stage = "none", !.reneg = th[p].reneg]]
      <4>1. [th[p] EXCEPT !.pc = "hs_in"]
              = [th[p] EXCEPT !.pc = "hs_in", !.send = th[p].send, !.stage = "none",
                              !.reneg = th[p].reneg]
        BY <1>1, <2>1 DEF Thread
      <4> QED
        BY <2>4, <4>1 DEF Go
    <3> QED
      BY <1>6, <2>1, <2>4, <3>1, <3>2, KnownOpen
  <2> QED
    BY <1>9, <2>2, <2>3, <2>4 DEF HandshakeLock
<1>10. CASE HandshakeLockIn(p)
  <2>1. /\ th[p].pc = "hs_in" /\ UNCHANGED <<complete, handshakeErr>> /\ ~Losing(th[p])
        /\ th[p].stage = "none" /\ lock.hs = p /\ lock' = [lock EXCEPT !.in = p]
    BY <1>10, KnownOpen DEF HandshakeLockIn, At, shake, Losing, Shape, Shaking, Holds, HoldsHs
  <2>2. lock'.hs # Free
    BY <1>1, <2>1, ConnAssumption DEF LockState
  <2>3. th' = [th EXCEPT ![p] = [th[p] EXCEPT !.pc = "out", !.send = "hello", !.stage = "sh",
                                              !.reneg = th[p].reneg]]
    <3>1. th' = [th EXCEPT ![p] = [th[p] EXCEPT !.pc = "out", !.send = "hello", !.stage = "sh"]]
      BY <1>1, <1>10 DEF HandshakeLockIn, Sending
    <3>2. [th[p] EXCEPT !.pc = "out", !.send = "hello", !.stage = "sh"]
            = [th[p] EXCEPT !.pc = "out", !.send = "hello", !.stage = "sh", !.reneg = th[p].reneg]
      BY <1>1 DEF Thread
    <3> QED
      BY <3>1, <3>2
  <2> QED
    BY <1>6, <2>1, <2>2, <2>3, KnownOpen
<1>11. CASE HandshakeSucceeds(p)
  <2>1. /\ th[p].pc = "hs_ok" /\ complete' = complete /\ complete
        /\ handshakeErr' = FALSE /\ (~th[p].reneg => ~handshakeErr) /\ ~Losing(th[p])
    BY <1>11, KnownOpen
       DEF HandshakeSucceeds, At, Losing, Shape, Shaking, HoldsHs, AtSend
  <2>2. CASE th[p].reneg /\ th' = [th EXCEPT ![p].pc = "use", ![p].stage = "none",
                                             ![p].reneg = FALSE]
    <3>1. ~cfg.v13
      BY <2>2, KnownOpen
    <3>2. th' = [th EXCEPT ![p] = [th[p] EXCEPT !.pc = "use", !.send = th[p].send,
                                                !.stage = "none", !.reneg = FALSE]]
      <4>1. [th[p] EXCEPT !.pc = "use", !.stage = "none", !.reneg = FALSE]
              = [th[p] EXCEPT !.pc = "use", !.send = th[p].send, !.stage = "none", !.reneg = FALSE]
        BY <1>1 DEF Thread
      <4> QED
        BY <2>2, <4>1
    <3> QED
      BY <1>6, <2>1, <3>1, <3>2
  <2>3. CASE ~th[p].reneg /\ th' = AfterHandshake(p, TRUE)
    <3>1. handshakeErr' = handshakeErr
      <4>1. handshakeErr \in BOOLEAN
        BY DEF IInv, Typed, TypeOK
      <4> QED
        BY <2>1, <2>3, <4>1
    <3> QED
      BY <1>5, <1>7, <2>1, <2>3, <3>1
  <2> QED
    BY <1>11, <2>2, <2>3 DEF HandshakeSucceeds
<1>12. CASE HandshakeFails(p)
  <2>1. th[p].pc = "hs_fail" /\ complete' = complete /\ handshakeErr'
    BY <1>12 DEF HandshakeFails, At
  <2>2. CASE th[p].reneg /\ th' = [th EXCEPT ![p].pc = "fail", ![p].stage = "none",
                                             ![p].reneg = FALSE]
    <3>1. ~cfg.v13
      BY <2>2, KnownOpen
    <3>2. th' = [th EXCEPT ![p] = [th[p] EXCEPT !.pc = "fail", !.send = th[p].send,
                                                !.stage = "none", !.reneg = FALSE]]
      <4>1. [th[p] EXCEPT !.pc = "fail", !.stage = "none", !.reneg = FALSE]
              = [th[p] EXCEPT !.pc = "fail", !.send = th[p].send, !.stage = "none", !.reneg = FALSE]
        BY <1>1 DEF Thread
      <4> QED
        BY <2>2, <4>1
    <3> QED
      BY <1>6, <2>1, <3>1, <3>2
  <2>3. CASE ~th[p].reneg /\ th' = [th EXCEPT ![p].pc = "flush", ![p].stage = "failed"]
    <3>1. th' = [th EXCEPT ![p] = [th[p] EXCEPT !.pc = "flush", !.send = th[p].send,
                                                !.stage = "failed", !.reneg = th[p].reneg]]
      <4>1. [th[p] EXCEPT !.pc = "flush", !.stage = "failed"]
              = [th[p] EXCEPT !.pc = "flush", !.send = th[p].send, !.stage = "failed",
                              !.reneg = th[p].reneg]
        BY <1>1 DEF Thread
      <4> QED
        BY <2>3, <4>1
    <3>2. /\ complete' => complete /\ (complete => complete')
          /\ handshakeErr => handshakeErr'
          /\ Losing(th[p]) => handshakeErr'
      BY <2>1
    <3>3. complete' => complete
      BY <3>2
    <3>4. ~th[p].reneg
      BY <2>3
    <3> QED
      BY <1>6, <2>1, <3>1, <3>2, <3>3, <3>4
  <2> QED
    BY <1>12, <2>2, <2>3 DEF HandshakeFails
<1>13. CASE FlushNothing(p)
  <2>1. /\ th[p].stage = "failed" /\ UNCHANGED <<complete, handshakeErr>>
        /\ th' = AfterHandshake(p, FALSE)
    BY <1>13 DEF FlushNothing, shake
  <2>2. cfg.v13 => handshakeErr
    BY <2>1, KnownOpen DEF HoldsHs
  <2> QED
    BY <1>5, <1>7, <2>1, <2>2
<1>14. CASE Renegotiate(p)
  <2>1. ~cfg.v13 /\ ~complete'
    BY <1>14, KnownOpen DEF Renegotiate, At, CompleteInRenegotiation
  <2>2. th' = [th EXCEPT ![p] = [th[p] EXCEPT !.pc = "out", !.send = "hello", !.stage = "sh",
                                              !.reneg = TRUE]]
    BY <1>1, <1>14 DEF Renegotiate, Sending
  <2> QED
    BY <1>6, <2>1, <2>2
<1> QED
  BY <1>8, <1>9, <1>10, <1>11, <1>12, <1>13, <1>14

-----------------------------------------------------------------------------
(* Steps that write *)

\* A record has been written, buffered or lost.
LEMMA AfterOpen ==
  ASSUME IInv, OpenInv, NEW p \in Procs, NEW ok \in BOOLEAN, NEW o \in OutState,
         AtSend(th[p]), th[p].send \in {"ccs", "fin"} => ok, AfterRecord(p, ok, o),
         o.err = out.err, UNCHANGED <<cfg, complete, handshakeErr, peer>>,
         lock'.hs = lock.hs,
         cfg.v13 => \A n \in DOMAIN o.sendBuf : o.sendBuf[n].k # "hello",
         \/ wire' = wire /\ (th[p].send = "hello" => ~ok)
         \/ wire' = wire /\ (cfg.v13 => th[p].send # "hello")
         \/ wire' = wire \o th[p].chunk /\ th[p].pc = "sock"
  PROVE  OpenInv'
<1>1. /\ th \in [Procs -> Thread] /\ in \in InState /\ wire \in Seq(Records(OutKinds))
      /\ th[p] \in Thread
  BY DEF IInv, Typed, TypeOK
<1>2. th[p].send \in OutKinds
  BY SealedRecord
<1>3. th[p].send = "alert" => th[p].alert # "none"
  BY KnownOpen DEF Shape
<1>4. PICK t : After(p, ok, o, t)
  BY <1>1, <1>2, <1>3, AfterRecordMoves
<1>5. /\ Moves(p, t) /\ t.op = th[p].op /\ t.stage = th[p].stage /\ (t.reneg <=> th[p].reneg)
      /\ t.send = (IF th[p].send = "ccs" THEN "fin" ELSE "none")
      /\ out'.sendBuf = o.sendBuf
      /\ in'.err = in.err \/ in'.err # "none"
      /\ th[p].send = "alert" /\ th[p].inerr => in'.err # "none"
  BY <1>4 DEF After
<1>6. /\ th[p].send = "data" => t.pc = "end"
      /\ th[p].send = "alert" => t.pc = "fail"
      /\ th[p].send = "close_notify" => t.pc \in {"shut", "end"}
      /\ th[p].send = "ku" => t.pc = "use"
      /\ th[p].send = "hello" => t.pc \in {"use", "hs_fail"}
      /\ th[p].send = "ccs" => t.pc = "out"
      /\ th[p].send = "fin" => t.pc = "flush"
  BY <1>2, <1>4 DEF After, AfterNotify, OutKinds
<1>7. t.alert = "none"
  <2>1. th'[p].alert = "none"
    BY <1>1, <1>2 DEF AfterRecord, OutKinds, Thread
  <2> QED
    BY <1>1, <1>5, <2>1 DEF Moves
<1>8. out'.err = "bad_mac" => out.err = "bad_mac" \/ th[p].alert = "bad_mac"
  BY <1>2 DEF AfterRecord, AlertSent, NextWriteKey, Rekey, OutState, OutKinds
<1>9. in'.hand = in.hand /\ in'.epoch = in.epoch /\ in'.seq = in.seq
  BY <1>1 DEF AfterRecord, InState
<1>10. Steady(p, t)
  <2>1. Condemning(th[p]) => in'.err # "none"
    BY <1>5 DEF Condemning
  <2>2. ASSUME cfg.v13
        PROVE  /\ Reads(t) => complete
               /\ Losing(th[p]) => Losing(t)
               /\ Spent(t) => Spent(th[p])
    <3>1. /\ th[p].send \in {"data", "close_notify", "ku", "hello", "ccs", "fin", "alert"}
          /\ th[p].pc \in {"out", "sock"}
      BY <1>2 DEF AtSend, OutKinds
    <3>2. Reads(t) => Reads(th[p])
      BY <1>5, <1>6, <3>1, KnownOpen DEF Reads, AtSend, Shape
    <3>3. Losing(th[p]) => Losing(t)
      BY <1>5, <1>6, <3>1, KnownOpen DEF Losing, AtSend, Shape
    <3>4. Spent(t) => Spent(th[p])
      BY <1>5, <1>6, <3>1, KnownOpen DEF Spent, AtSend, Shape
    <3> QED
      BY <2>2, <3>2, <3>3, <3>4, KnownOpen
  <2>3. th[p].pc # "use"
    BY DEF AtSend
  <2> QED
    BY <1>5, <1>7, <1>8, <1>9, <2>1, <2>2, <2>3, KnownOpen DEF Steady
<1>11. Once'
  <2> SUFFICES ASSUME cfg.v13 PROVE Once'
    BY DEF Once
  <2>1. th'[p] = t /\ \A q \in Procs : q # p => th'[q] = th[q]
    BY <1>1, <1>5 DEF Moves
  <2>2. ~Opening(t)
    BY <1>2, <1>5, <1>6 DEF Opening, AtSend, OutKinds
  <2>3. (\E q \in Procs : Opening(th'[q])) => \E q \in Procs : Opening(th[q])
    BY <2>1, <2>2
  <2>4. CASE Sent("hello")' = Sent("hello")
    BY <1>5, <2>3, <2>4 DEF OpenInv, Once
  <2>5. CASE Sent("hello")' # Sent("hello")
    <3>1. wire' = wire \o th[p].chunk /\ th[p].pc = "sock"
      BY <2>5 DEF Sent
    <3>2. Len(th[p].chunk) = 1 /\ th[p].chunk[1].k = th[p].send
      BY <3>1, KnownOpen DEF Shape
    <3>3. th[p].chunk \in Seq(Records(OutKinds))
      BY <1>1 DEF Thread
    <3>4. th[p].send = "hello" /\ Sent("hello")' = Sent("hello") + 1
      <4>1. DOMAIN th[p].chunk = 1 .. 1
        BY <3>2, <3>3
      <4>2. /\ (\A n \in DOMAIN th[p].chunk : th[p].chunk[n].k # "hello") =>
                 Sent("hello")' = Sent("hello")
            /\ Len(th[p].chunk) = 1 /\ th[p].chunk[1].k = "hello" =>
                 Sent("hello")' = Sent("hello") + 1
        BY <1>1, <3>1, <3>3, SentConcat
      <4>3. ASSUME th[p].send # "hello" PROVE FALSE
        <5>1. ASSUME NEW n \in DOMAIN th[p].chunk PROVE th[p].chunk[n].k # "hello"
          <6>1. n = 1
            BY <4>1, <5>1
          <6> QED
            BY <3>2, <4>3, <6>1
        <5> QED
          BY <2>5, <4>2, <5>1
      <4> QED
        BY <3>2, <4>2, <4>3
    <3>5. Opening(th[p]) /\ HoldsHs(th[p])
      BY <3>4, KnownOpen DEF Opening, Shape, HoldsHs, Shaking
    <3>6. lock.hs = p /\ p # Free
      BY <3>5, KnownOpen DEF Holds
    <3>7. \A q \in Procs : q # p => ~Opening(th'[q])
      BY <2>1, <3>6, Alone, KnownOpen DEF Opening, HoldsHs, Shape, Shaking
    <3>8. cfg.client
      BY <3>6, ClientOnly
    <3>9. Sent("hello") = 0
      BY <3>5 DEF OpenInv, Once
    <3>10. peer.flights \in Nat /\ peer.hellos \in Nat
      BY PeerTypes DEF IInv, Typed
    <3>11. Sent("hello")' = 1 /\ peer.hellos <= 0 /\ peer.flights <= peer.hellos
      BY <3>4, <3>9 DEF OpenInv, Once
    <3>12. ~ \E q \in Procs : Opening(th'[q])
      BY <2>1, <2>2, <3>7
    <3> QED
      BY <1>5, <3>6, <3>8, <3>10, <3>11, <3>12 DEF OpenInv, Once
  <2> QED
    BY <2>4, <2>5
<1> QED
  BY <1>5, <1>10, <1>11, SteadyLemma

\* SendBuffered and SendEnds.
LEMMA SendOpen ==
  ASSUME IInv, OpenInv, NEW p \in Procs, SendBuffered(p) \/ SendEnds(p)
  PROVE  OpenInv'
<1>1. /\ out \in OutState /\ lock \in LockState
      /\ out.epoch \in Nat /\ out.seq \in Nat /\ out.sendBuf \in Seq(Records(OutKinds))
  BY OutTypes DEF IInv, Typed, TypeOK
<1>2. CASE SendBuffered(p)
  <2> DEFINE o == [out EXCEPT !.seq = @ + 1, !.sendBuf = Append(@, Sealed(p))]
  <2>1. /\ th[p].pc = "out" /\ out.buffering /\ AfterRecord(p, TRUE, o)
        /\ UNCHANGED <<cfg, complete, handshakeErr, lock, wire, peer>>
    BY <1>2 DEF SendBuffered, At, shake
  <2>2. Sealed(p) \in Records(OutKinds) /\ Sealed(p).k = th[p].send /\ AtSend(th[p])
    BY <2>1, SealedRecord DEF AtSend
  <2>3. o \in OutState /\ o.err = out.err /\ o.sendBuf = Append(out.sendBuf, Sealed(p))
    <3>1. PICK u \in Seq(Records(OutKinds)), n \in Nat :
            u = Append(out.sendBuf, Sealed(p)) /\ n = out.seq + 1
      <4> DEFINE R == Records(OutKinds)
      <4> HIDE DEF R
      <4>1. out.sendBuf \in Seq(R) /\ Sealed(p) \in R
        BY <1>1, <2>2 DEF R
      <4>2. Append(out.sendBuf, Sealed(p)) \in Seq(R)
        BY <4>1
      <4>3. out.seq + 1 \in Nat
        BY <1>1
      <4> QED
        BY <4>2, <4>3 DEF R
    <3>2. o = [out EXCEPT !.seq = n, !.sendBuf = u]
      BY <3>1
    <3> HIDE DEF o
    <3> QED
      BY <1>1, <3>1, <3>2 DEF OutState
  <2>4. cfg.v13 => th[p].send # "hello"
    <3> SUFFICES ASSUME cfg.v13, th[p].send = "hello" PROVE FALSE
      OBVIOUS
    <3>1. th[p].stage = "sh" /\ HoldsHs(th[p]) /\ ~th[p].reneg
      BY <2>2, KnownOpen DEF Shape, HoldsHs, Shaking
    <3>2. ~handshakeErr /\ lock.hs = p
      BY <3>1, KnownOpen DEF Holds
    <3>3. PICK q \in Procs : th[q].stage = "flight"
      BY <2>1, <3>2 DEF IInv, Shook
    <3>4. HoldsHs(th[q])
      BY <3>3 DEF HoldsHs, Shaking
    <3> QED
      BY <3>1, <3>2, <3>3, <3>4, Alone
  <2>5. cfg.v13 => \A n \in DOMAIN o.sendBuf : o.sendBuf[n].k # "hello"
    <3> SUFFICES ASSUME cfg.v13, NEW n \in DOMAIN o.sendBuf PROVE o.sendBuf[n].k # "hello"
      OBVIOUS
    <3>1. \A m \in DOMAIN out.sendBuf : out.sendBuf[m].k # "hello"
      BY DEF OpenInv, Once
    <3> HIDE DEF o
    <3>2. n \in 1 .. Len(out.sendBuf) + 1
      BY <1>1, <2>2, <2>3
    <3>3. o.sendBuf[n] = IF n = Len(out.sendBuf) + 1 THEN Sealed(p) ELSE out.sendBuf[n]
      BY <1>1, <2>2, <2>3, <3>2
    <3> QED
      BY <1>1, <2>2, <2>4, <3>1, <3>2, <3>3
  <2> HIDE DEF o
  <2> QED
    BY <2>1, <2>2, <2>3, <2>4, <2>5, AfterOpen
<1>3. CASE SendEnds(p)
  <2>1. /\ th[p].pc = "sock" /\ lock' = [lock EXCEPT !.out = Free]
        /\ UNCHANGED <<cfg, complete, handshakeErr, peer>>
    BY <1>3 DEF SendEnds, At, shake
  <2>2. lock'.hs = lock.hs
    BY <1>1, <2>1 DEF LockState
  <2>3. AtSend(th[p]) /\ th[p].send \notin {"ccs", "fin"}
    BY <2>1, KnownOpen DEF AtSend, Shape
  <2>4. cfg.v13 => \A n \in DOMAIN out.sendBuf : out.sendBuf[n].k # "hello"
    BY DEF OpenInv, Once
  <2>5. CASE wire' = wire \o th[p].chunk /\ AfterRecord(p, TRUE, out)
    BY <1>1, <2>1, <2>2, <2>3, <2>4, <2>5, AfterOpen
  <2>6. CASE UNCHANGED wire /\ AfterRecord(p, FALSE, out)
    BY <1>1, <2>1, <2>2, <2>3, <2>4, <2>6, AfterOpen
  <2> QED
    BY <1>3, <2>5, <2>6 DEF SendEnds
<1> QED
  BY <1>2, <1>3

\* FlushEnds: the hello is not among what is flushed.
LEMMA FlushOpen ==
  ASSUME IInv, OpenInv, NEW p \in Procs, FlushEnds(p)
  PROVE  OpenInv'
<1>1. /\ th \in [Procs -> Thread] /\ out \in OutState /\ lock \in LockState
      /\ wire \in Seq(Records(OutKinds)) /\ th[p].chunk \in Seq(Records(OutKinds))
  BY DEF IInv, Typed, TypeOK, Thread
<1>2. /\ th[p].pc = "flushing" /\ out' = [out EXCEPT !.sendBuf = <<>>, !.buffering = FALSE]
      /\ UNCHANGED <<cfg, handshakeErr, in, peer>>
  BY DEF FlushEnds, At
<1>3. out'.sendBuf = <<>> /\ out'.err = out.err
  BY <1>1, <1>2 DEF OutState
<1>4. /\ th[p].stage \in {"flight", "failed"} /\ HoldsHs(th[p]) /\ lock.hs = p /\ p # Free
      /\ th[p].op \in {"read", "write", "handshake"}
      /\ cfg.v13 => (handshakeErr <=> th[p].stage = "failed") /\ ~th[p].reneg
  BY <1>2, KnownOpen DEF Shape, HoldsHs, Shaking, Holds
<1>5. PICK t : /\ Moves(p, t) /\ t.alert = th[p].alert /\ (t.reneg <=> th[p].reneg)
               /\ \/ /\ th[p].stage = "failed" /\ complete' = complete
                     /\ t.stage = "none" /\ t.pc \in {"hs_done", "end"}
                  \/ /\ th[p].stage = "flight" /\ t.stage = "flight" /\ t.pc = "hs_fail"
                     /\ complete' = complete /\ lock' = lock
                  \/ /\ th[p].stage = "flight" /\ t.stage = "flight" /\ t.pc = "hs_ok"
                     /\ complete' /\ lock' = lock
                  \/ ~cfg.v13
  <2>1. th'[p] \in Thread
    BY NextInv DEF Next, Step, IInv, Typed
  <2>2. CASE /\ th[p].stage = "failed" /\ UNCHANGED complete
             /\ th' = [AfterHandshake(p, FALSE) EXCEPT ![p].chunk = <<>>]
    <3>1. th' = [th EXCEPT ![p] = [th[p] EXCEPT
                   !.stage = "none", !.pc = IF Interrupted(p) THEN "hs_done" ELSE "end",
                   !.send = IF th[p].op = "write" THEN "data" ELSE "none", !.chunk = <<>>]]
      BY <1>1, <1>4, <2>2 DEF AfterHandshake
    <3> DEFINE l == IF Interrupted(p) THEN "hs_done" ELSE "end"
               k == IF th[p].op = "write" THEN "data" ELSE "none"
               t == [th[p] EXCEPT !.stage = "none", !.pc = l, !.send = k, !.chunk = <<>>]
    <3>2. l \in {"hs_done", "end"}
      OBVIOUS
    <3>3. th' = [th EXCEPT ![p] = t]
      BY <3>1
    <3> HIDE DEF l, k
    <3>4. t = th'[p] /\ t.alert = th[p].alert /\ t.reneg = th[p].reneg /\ t.stage = "none"
          /\ t.pc = l
      BY <1>1, <3>3 DEF Thread
    <3> HIDE DEF t
    <3>5. Moves(p, t)
      BY <2>1, <3>3, <3>4 DEF Moves
    <3> QED
      BY <2>2, <3>2, <3>4, <3>5
  <2>3. ASSUME NEW l, NEW g, th' = [th EXCEPT ![p].chunk = <<>>, ![p].pc = l, ![p].stage = g],
               \/ /\ th[p].stage = "flight" /\ g = "flight" /\ l = "hs_fail"
                  /\ complete' = complete /\ lock' = lock
               \/ /\ th[p].stage = "flight" /\ g = "flight" /\ l = "hs_ok"
                  /\ complete' /\ lock' = lock
               \/ ~cfg.v13
        PROVE  \E t : /\ Moves(p, t) /\ t.alert = th[p].alert /\ (t.reneg <=> th[p].reneg)
                      /\ \/ /\ th[p].stage = "flight" /\ t.stage = "flight" /\ t.pc = "hs_fail"
                            /\ complete' = complete /\ lock' = lock
                         \/ /\ th[p].stage = "flight" /\ t.stage = "flight" /\ t.pc = "hs_ok"
                            /\ complete' /\ lock' = lock
                         \/ ~cfg.v13
    <3> DEFINE t == [th[p] EXCEPT !.chunk = <<>>, !.pc = l, !.stage = g]
    <3>1. th' = [th EXCEPT ![p] = t]
      BY <2>3
    <3>2. t = th'[p] /\ t.alert = th[p].alert /\ t.reneg = th[p].reneg /\ t.stage = g /\ t.pc = l
      BY <1>1, <3>1 DEF Thread
    <3> HIDE DEF t
    <3>3. Moves(p, t)
      BY <2>1, <3>1, <3>2 DEF Moves
    <3> QED
      BY <2>3, <3>2, <3>3
  <2>4. ASSUME NEW l, th' = [[th EXCEPT ![p].chunk = <<>>] EXCEPT ![p].pc = l],
               th[p].stage = "flight"
        PROVE  th' = [th EXCEPT ![p].chunk = <<>>, ![p].pc = l, ![p].stage = "flight"]
    <3>1. [[th[p] EXCEPT !.chunk = <<>>] EXCEPT !.pc = l]
            = [th[p] EXCEPT !.chunk = <<>>, !.pc = l, !.stage = "flight"]
      BY <1>1, <2>4 DEF Thread
    <3> QED
      BY <1>1, <2>4, <3>1
  <2>5. CASE /\ th[p].stage = "flight" /\ UNCHANGED <<lock, complete>>
             /\ th' = [[th EXCEPT ![p].chunk = <<>>] EXCEPT ![p].pc = "hs_fail"]
    BY <2>3, <2>4, <2>5
  <2>6. CASE /\ th[p].stage = "flight" /\ complete' = TRUE /\ UNCHANGED lock
             /\ th' = [[th EXCEPT ![p].chunk = <<>>] EXCEPT ![p].pc = "hs_ok"]
    BY <2>3, <2>4, <2>6
  <2>7. CASE /\ ~cfg.v13
             /\ th' = [[th EXCEPT ![p].chunk = <<>>] EXCEPT ![p].pc = "rec", ![p].stage = "ccs"]
    <3>1. th' = [th EXCEPT ![p].chunk = <<>>, ![p].pc = "rec", ![p].stage = "ccs"]
      BY <1>1, <2>7
    <3> QED
      BY <2>3, <2>7, <3>1
  <2> QED
    BY <2>2, <2>5, <2>6, <2>7 DEF FlushEnds
<1>6. Steady(p, t)
  <2>1. ~Condemning(th[p]) /\ th[p].pc # "use"
    BY <1>2 DEF Condemning, AtSend
  <2>2. ASSUME cfg.v13
        PROVE  /\ complete => complete'
               /\ ~t.reneg /\ t.stage \notin {"ccs", "fin", "predict"}
               /\ ~Reads(t)
               /\ Losing(th[p]) => handshakeErr'
               /\ complete' \/ Spent(t) => complete \/ Spent(th[p])
    BY <1>2, <1>4, <1>5, <2>2 DEF Reads, AtSend, Losing, Spent
  <2> QED
    BY <1>2, <1>3, <1>5, <2>1, <2>2 DEF Steady
<1>7. Once'
  <2> SUFFICES ASSUME cfg.v13 PROVE Once'
    BY <1>2 DEF Once
  <2>1. th'[p] = t /\ \A q \in Procs : q # p => th'[q] = th[q]
    BY <1>1, <1>5 DEF Moves
  <2>2. Sent("hello")' = Sent("hello")
    <3>1. CASE wire' = wire
      BY <3>1 DEF Sent
    <3>2. CASE SockAccepts /\ wire' = wire \o th[p].chunk
      <4>1. th[p].chunk = out.sendBuf
        BY <1>2, <3>2 DEF IInv, Buffered, SockAccepts, SockFails
      <4>2. \A n \in DOMAIN th[p].chunk : th[p].chunk[n].k # "hello"
        BY <4>1 DEF OpenInv, Once
      <4> QED
        BY <1>1, <3>2, <4>2, SentConcat
    <3> QED
      BY <3>1, <3>2 DEF FlushEnds
  <2>3. ~Opening(t)
    BY <1>4, <1>5 DEF Opening, AtSend
  <2>4. ~(~complete' /\ ~handshakeErr' /\ lock'.hs = Free)
    BY <1>2, <1>4, <1>5
  <2>5. (\E q \in Procs : Opening(th'[q])) => \E q \in Procs : Opening(th[q])
    BY <2>1, <2>3
  <2> QED
    BY <1>2, <1>3, <2>2, <2>4, <2>5 DEF OpenInv, Once
<1> QED
  BY <1>5, <1>6, <1>7, SteadyLemma

-----------------------------------------------------------------------------
(* Steps that read *)

\* What the reader does to its handshake and its own state, whatever it reads.
LEMMA ReaderLemma ==
  ASSUME IInv, OpenInv, NEW p \in Procs, NEW t, Moves(p, t), th[p].pc \in {"rec", "use"},
         UNCHANGED <<cfg, handshakeErr, lock, wire>>, cfg.v13 => complete' = complete,
         out'.err = out.err, out'.sendBuf = out.sendBuf,
         peer'.bad = peer.bad, peer'.hellos = peer.hellos, peer'.flights = peer.flights,
         peer'.epoch = peer.epoch, peer'.half = peer.half,
         in.err # "none" => in'.err # "none",
         t.alert = "bad_mac" => peer.bad \/ th[p].alert = "bad_mac",
         t.op = th[p].op, t.reneg <=> th[p].reneg,
         cfg.v13 => t.stage \in {"none", "sh", "flight"} /\ (t.stage = "none" => th[p].stage = "none"),
         t.pc \in {"rec", "use", "fail", "reneg", "hs_ok"} \/ (t.pc = "out" /\ t.send # "hello")
  PROVE  Sober' /\ Once' /\ (Lost => Lost')
<1>1. th'[p] = t /\ \A q \in Procs : q # p => th'[q] = th[q]
  BY DEF Moves, IInv, Typed
<1>2. Sober'
  <2>1. out'.err = "bad_mac" => peer'.bad
    BY DEF OpenInv, Sober
  <2>2. cfg.v13 /\ Reads(t) => complete'
    <3>1. cfg.v13 /\ Reads(t) => Reads(th[p])
      BY DEF Reads
    <3> QED
      BY <3>1 DEF OpenInv, Sober
  <2>3. ASSUME NEW q \in Procs
        PROVE  /\ th'[q].alert = "bad_mac" => peer'.bad
               /\ cfg'.v13 => /\ ~th'[q].reneg /\ th'[q].stage \notin {"ccs", "fin", "predict"}
                              /\ Reads(th'[q]) => complete'
    BY <1>1, <2>2 DEF OpenInv, Sober
  <2> QED
    BY <2>1, <2>3 DEF Sober
<1>3. Once'
  <2>1. Sent("hello")' = Sent("hello")
    BY DEF Sent
  <2>2. ~Opening(t)
    BY DEF Opening, AtSend
  <2>3. (\E q \in Procs : Opening(th'[q])) => \E q \in Procs : Opening(th[q])
    BY <1>1, <2>2
  <2> QED
    BY <2>1, <2>3 DEF OpenInv, Once
<1>4. Lost => Lost'
  <2>1. ~Condemning(th[p]) /\ ~Losing(th[p])
    BY KnownOpen DEF Condemning, Losing, AtSend, Shape
  <2>2. (\E q \in Procs : Condemning(th[q])) => \E q \in Procs : Condemning(th'[q])
    BY <1>1, <2>1
  <2>3. (\E q \in Procs : Losing(th[q])) => \E q \in Procs : Losing(th'[q])
    BY <1>1, <2>1
  <2> QED
    BY <2>2, <2>3 DEF Lost
<1> QED
  BY <1>2, <1>3, <1>4

\* ReadError: nobody reads after it.
LEMMA ErrorOpen ==
  ASSUME IInv, OpenInv, NEW p \in Procs, ReadError(p)
  PROVE  OpenInv'
<1>1. th \in [Procs -> Thread] /\ in \in InState
  BY DEF IInv, Typed, TypeOK
<1>2. /\ th[p].pc = "rec" /\ Go(p, "fail")
      /\ UNCHANGED <<cfg, complete, handshakeErr, lock, out, wire, peer>>
  BY DEF ReadError, At, shake
<1>3. in'.err # "none"
  BY <1>1 DEF ReadError, InState
<1>4. PICK t : /\ Moves(p, t)
               /\ Is(t, th[p].op, "fail", th[p].send, th[p].stage, th[p].reneg, th[p].alert,
                     th[p].inerr, th[p].chunk)
  BY <1>1, <1>2, GoMoves DEF Places
<1>5. cfg.v13 => th[p].stage \in {"none", "sh", "flight"}
  BY <1>2, KnownOpen DEF Shape, Shaking
<1>6. Sober' /\ Once'
  BY <1>2, <1>3, <1>4, <1>5, ReaderLemma DEF Is
<1>7. Lost'
  BY <1>3 DEF Lost
<1> QED
  BY <1>6, <1>7 DEF OpenInv

\* Before TLS 1.3 the messages in hand do not matter.
LEMMA OldInLine ==
  ASSUME InLine, ~cfg.v13, UNCHANGED <<cfg, peer>>, in'.epoch = in.epoch, in'.seq = in.seq
  PROVE  InLine'
<1>1. Stream' = Stream
  BY DEF Stream, Upcoming
<1>2. Linked(Stream)' /\ Awaited(Stream[1])'
  BY <1>1 DEF InLine, Linked, Continues, Resumes, Rekeys, Awaited
<1> QED
  BY <1>2 DEF InLine

\* In TLS 1.3 the message in hand is used, and the key changes with it.
LEMMA UsedInLine ==
  ASSUME IInv, InLine, cfg.v13, NEW p \in Procs, NEW m, Message(p, m),
         UNCHANGED <<cfg, peer, complete>>, in'.hand = Tail(in.hand),
         IF m \in {"sh", "flight", "ku", "kur"}
         THEN in'.epoch = in.epoch + 1 /\ in'.seq = 0
         ELSE in'.epoch = in.epoch /\ in'.seq = in.seq,
         \A q \in Procs : q # p => th'[q] = th[q],
         Spent(th'[p]) => m = "flight",
         m = "ticket" /\ cfg.client => th'[p].pc = "use"
  PROVE  InLine'
<1>1. /\ in.hand \in {<<>>, <<"ticket", "ticket">>} \cup {<<x>> : x \in Pieces}
      /\ in.hand = <<"ticket", "ticket">> => cfg.client
      /\ Placed(in.hand[1], in.epoch) /\ in.hand # <<>> /\ in.hand[1] = m /\ m # "half"
      /\ in.epoch \in Nat /\ in.seq \in Nat
  <2>1. in.epoch \in Nat /\ in.seq \in Nat
    BY InTypes DEF IInv, Typed, TypeOK
  <2>2. in.hand # <<>> /\ Head(in.hand) = m /\ m # "half"
    BY DEF Message
  <2>3. Head(in.hand) = in.hand[1]
    OBVIOUS
  <2> QED
    BY <2>1, <2>2, <2>3 DEF InLine, InUse
<1>2. \/ in.hand = <<m>> /\ in'.hand = <<>>
      \/ in.hand = <<"ticket", "ticket">> /\ in'.hand = <<"ticket">> /\ cfg.client /\ m = "ticket"
  <2>1. CASE in.hand = <<"ticket", "ticket">>
    BY <1>1, <2>1
  <2>2. CASE in.hand # <<"ticket", "ticket">>
    <3>1. PICK x \in Pieces : in.hand = <<x>>
      BY <1>1, <2>2
    <3> QED
      BY <1>1, <3>1
  <2> QED
    BY <2>1, <2>2
<1>3. Stream' = Stream /\ Linked(Stream)'
  <2>1. Stream' = Stream
    BY DEF Stream, Upcoming
  <2> QED
    BY <2>1 DEF InLine, Linked, Continues, Resumes, Rekeys
<1>4. /\ <<>> # <<"half">> /\ <<"ticket">> # <<"half">> /\ <<"ticket">> # <<"ticket", "ticket">>
      /\ <<>> # <<"ticket", "ticket">> /\ <<"ticket">>[1] = "ticket" /\ "ticket" \in Pieces
  <2>1. Len(<<>>) = 0 /\ Len(<<"half">>) = 1 /\ Len(<<"ticket", "ticket">>) = 2
    OBVIOUS
  <2>2. Len(<<"ticket">>) = 1 /\ <<"ticket">>[1] = "ticket" /\ <<"half">>[1] = "half"
    OBVIOUS
  <2> QED
    BY <2>1, <2>2 DEF Pieces
<1>5. Awaited(Stream[1])'
  <2>1. Stream[1].e = in'.epoch /\ Stream[1].s = in'.seq
    <3>1. Awaited(Stream[1])
      BY DEF InLine
    <3> QED
      BY <1>1, <3>1 DEF Awaited, Rekeys
  <2>2. in'.hand # <<"half">> /\ (in'.hand # <<>> => in'.hand[1] = "ticket")
    BY <1>2, <1>4
  <2>3. cfg'.v13 /\ Stream'[1] = Stream[1]
    BY <1>3
  <2>4. in'.hand # <<>> => in'.hand[1] \notin {"sh", "flight", "ku", "kur"}
    BY <2>2
  <2> QED
    BY <2>1, <2>2, <2>3, <2>4 DEF Awaited, Rekeys
<1>6. InUse'
  <2>1. CASE in'.hand = <<>>
    BY <1>4, <2>1 DEF InUse
  <2>2. CASE in'.hand = <<"ticket">> /\ cfg.client /\ m = "ticket"
    <3>1. in'.hand \in {<<x>> : x \in Pieces}
      BY <1>4, <2>2
    <3>2. in'.hand[1] = "ticket" /\ in'.hand # <<"ticket", "ticket">>
      BY <1>4, <2>2
    <3>3. \E q \in Procs : th'[q].pc = "use"
      BY <2>2
    <3> QED
      BY <3>1, <3>2, <3>3 DEF InUse, Placed
  <2> QED
    BY <1>2, <2>1, <2>2
<1>7. cfg.client /\ (complete' \/ \E q \in Procs : Spent(th'[q])) => in'.epoch >= 2
  <2>1. in'.epoch >= in.epoch
    BY <1>1
  <2>2. cfg.client /\ (complete \/ \E q \in Procs : Spent(th[q])) => in.epoch >= 2
    BY DEF InLine
  <2>3. cfg.client /\ m = "flight" => in'.epoch >= 2
    BY <1>1 DEF Placed
  <2>4. in'.epoch \in Nat
    BY <1>1
  <2> QED
    BY <1>1, <2>1, <2>2, <2>3, <2>4
<1> QED
  BY <1>3, <1>5, <1>6, <1>7 DEF InLine, Placed

\* What is left in hand, and the key, after a message.
LEMMA TakenFields ==
  ASSUME in \in InState, NEW i \in {Taken, Counted}
  PROVE  /\ i.hand = Tail(in.hand) /\ i.epoch = in.epoch /\ i.seq = in.seq /\ i.err = in.err
         /\ Rekey(i).hand = Tail(in.hand) /\ Rekey(i).epoch = in.epoch + 1
         /\ Rekey(i).seq = 0 /\ Rekey(i).err = in.err
<1>1. \E n : i = [in EXCEPT !.hand = Tail(in.hand), !.retry = n]
  <2>1. Taken = [in EXCEPT !.hand = Tail(in.hand), !.retry = in.retry]
    BY DEF Taken, InState
  <2>2. [Taken EXCEPT !.retry = @ + 1] = [in EXCEPT !.hand = Tail(in.hand), !.retry = in.retry + 1]
    BY DEF Taken, InState
  <2> QED
    BY <2>1, <2>2 DEF Counted
<1>2. PICK n : i = [in EXCEPT !.hand = Tail(in.hand), !.retry = n]
  BY <1>1
<1>3. PICK h : h = Tail(in.hand)
  OBVIOUS
<1>4. i = [in EXCEPT !.hand = h, !.retry = n]
  BY <1>2, <1>3
<1>5. /\ i.hand = h /\ i.epoch = in.epoch /\ i.seq = in.seq /\ i.err = in.err
      /\ DOMAIN i = DOMAIN in
  BY <1>4 DEF InState
<1>6. /\ Rekey(i).hand = i.hand /\ Rekey(i).epoch = i.epoch + 1
      /\ Rekey(i).seq = 0 /\ Rekey(i).err = i.err
  BY <1>4 DEF InState, Rekey
<1> QED
  BY <1>3, <1>5, <1>6

\* The reader takes a message.
LEMMA MessageOpen ==
  ASSUME IInv, OpenInv, NEW p \in Procs,
         \/ TakeServerHello(p) \/ TakeFlight(p) \/ TakeFinished(p) \/ RejectMessage(p)
         \/ PostHandshake(p) \/ HelloRequest(p)
  PROVE  OpenInv'
<1>1. th \in [Procs -> Thread] /\ in \in InState /\ out \in OutState /\ th[p] \in Thread
  BY DEF IInv, Typed, TypeOK
<1>2. /\ th[p].pc = "use" /\ UNCHANGED <<cfg, handshakeErr, lock, wire, peer>>
      /\ complete' = complete \/ TakeFinished(p)
  BY DEF TakeServerHello, TakeFlight, TakeFinished, RejectMessage, PostHandshake, HelloRequest,
         Message, At, shake
<1>3. cfg.v13 => th[p].stage \in {"none", "sh", "flight"} /\ ~TakeFinished(p)
  BY <1>2, KnownOpen DEF Shape, Shaking, TakeFinished
<1>4. out'.err = out.err /\ out'.sendBuf = out.sendBuf
  <2>1. out' = out \/ \E x \in {out, Rekey(out)} : out' = [x EXCEPT !.buffering = TRUE]
    BY DEF TakeServerHello, TakeFlight, TakeFinished, RejectMessage, PostHandshake, HelloRequest
  <2> QED
    BY <1>1, <2>1 DEF OutState, Rekey
\* The message counts, or its handshake is lost.
<1>5. ASSUME NEW t, Moves(p, t), NEW m, Message(p, m), t.op = th[p].op, t.reneg <=> th[p].reneg,
             t.alert # "bad_mac" \/ t.alert = th[p].alert,
             in'.err = in.err, in'.hand = Tail(in.hand),
             IF cfg.v13 /\ m \in {"sh", "flight", "ku", "kur"}
             THEN in'.epoch = in.epoch + 1 /\ in'.seq = 0
             ELSE in'.epoch = in.epoch /\ in'.seq = in.seq,
             cfg.v13 => \/ t.stage = th[p].stage
                        \/ th[p].stage = "sh" /\ t.stage = "flight" /\ t.pc = "use",
             t.pc \in {"use", "reneg", "hs_ok"} \/ (t.pc = "out" /\ t.send # "hello"),
             cfg.v13 /\ Spent(t) => m = "flight",
             cfg.v13 /\ m = "ticket" /\ cfg.client => t.pc = "use"
      PROVE  OpenInv'
  <2>1. th'[p] = t /\ \A q \in Procs : q # p => th'[q] = th[q]
    BY <1>1, <1>5 DEF Moves
  <2>2. Sober' /\ Once' /\ (Lost => Lost')
    BY <1>2, <1>3, <1>4, <1>5, ReaderLemma
  <2>3. CASE ~cfg.v13 /\ ~Lost
    BY <1>2, <1>5, <2>2, <2>3, OldInLine DEF OpenInv
  <2>4. CASE cfg.v13 /\ ~Lost
    <3>1. InLine /\ complete' = complete
      BY <1>2, <1>3, <2>4 DEF OpenInv
    <3> QED
      BY <1>2, <1>5, <2>1, <2>2, <2>4, <3>1, UsedInLine DEF OpenInv
  <2> QED
    BY <2>2, <2>3, <2>4 DEF OpenInv
\* An alert ends the reading.
<1>6. ASSUME NEW e \in BOOLEAN, in' = Counted, th' = Alerting(p, "unexpected", e),
             cfg.v13, e \/ th[p].stage # "none"
      PROVE  OpenInv'
  <2>1. PICK t : /\ Moves(p, t)
                 /\ Is(t, th[p].op, "out", "alert", th[p].stage, th[p].reneg, "unexpected", e,
                       th[p].chunk)
    BY <1>1, <1>6, AlertingMoves DEF Alerts
  <2>2. Sober' /\ Once'
    <3>1. in'.err = in.err
      BY <1>1, <1>6, TakenFields
    <3> QED
      BY <1>2, <1>3, <1>4, <2>1, <3>1, ReaderLemma DEF Is
  <2>3. Condemning(t) \/ Losing(t)
    BY <1>3, <1>6, <2>1 DEF Is, Condemning, Losing, AtSend, Shaking
  <2>4. th'[p] = t
    BY <1>1, <2>1 DEF Moves
  <2>5. Lost'
    BY <1>2, <1>6, <2>3, <2>4 DEF Lost
  <2> QED
    BY <2>2, <2>5 DEF OpenInv
<1>7. CASE TakeServerHello(p)
  <2>1. /\ Message(p, "sh") /\ th[p].stage = "sh" /\ in' = (IF cfg.v13 THEN Rekey(Taken) ELSE Taken)
        /\ th' = [th EXCEPT ![p].stage = "flight"]
    BY <1>7 DEF TakeServerHello
  <2> DEFINE t == [th[p] EXCEPT !.stage = "flight"]
  <2>2. /\ th' = [th EXCEPT ![p] = t] /\ t.stage = "flight" /\ t.pc = "use" /\ t.op = th[p].op
        /\ t.reneg = th[p].reneg /\ t.alert = th[p].alert /\ t = th'[p]
    BY <1>1, <1>2, <2>1 DEF Thread
  <2>3. th'[p] \in Thread
    BY NextInv DEF Next, Step, IInv, Typed
  <2> HIDE DEF t
  <2>4. Moves(p, t) /\ ~Spent(t)
    BY <2>2, <2>3 DEF Moves, Spent, AtSend
  <2> QED
    BY <1>1, <1>5, <2>1, <2>2, <2>4, TakenFields
<1>8. CASE TakeFlight(p)
  <2>1. /\ Message(p, "flight") /\ in' = (IF cfg.v13 THEN Rekey(Taken) ELSE Taken)
        /\ th' = Sending(p, IF cfg.v13 THEN "fin" ELSE "ccs")
    BY <1>8 DEF TakeFlight
  <2>2. PICK k \in OutKinds : k = (IF cfg.v13 THEN "fin" ELSE "ccs")
    BY DEF OutKinds
  <2>3. PICK t : /\ Moves(p, t)
                 /\ Is(t, th[p].op, "out", k, th[p].stage, th[p].reneg, th[p].alert,
                       th[p].inerr, th[p].chunk)
    BY <1>1, <2>1, <2>2, SendingMoves
  <2>4. k # "hello"
    BY <2>2
  <2> QED
    BY <1>1, <1>5, <2>1, <2>3, <2>4, TakenFields DEF Is
<1>9. CASE TakeFinished(p)
  <2>1. Message(p, "fin") /\ in' = Taken /\ Go(p, "hs_ok") /\ ~cfg.v13
    BY <1>3, <1>9 DEF TakeFinished
  <2>2. PICK t : /\ Moves(p, t)
                 /\ Is(t, th[p].op, "hs_ok", th[p].send, th[p].stage, th[p].reneg, th[p].alert,
                       th[p].inerr, th[p].chunk)
    BY <1>1, <2>1, GoMoves DEF Places
  <2> QED
    BY <1>1, <1>5, <2>1, <2>2, TakenFields DEF Is
<1>10. CASE HelloRequest(p)
  <2>1. Message(p, "hello_request") /\ in' = Taken /\ ~cfg.v13
    BY <1>10 DEF HelloRequest
  <2>2. CASE Go(p, "reneg")
    <3>1. PICK t : /\ Moves(p, t)
                   /\ Is(t, th[p].op, "reneg", th[p].send, th[p].stage, th[p].reneg, th[p].alert,
                         th[p].inerr, th[p].chunk)
      BY <1>1, <2>2, GoMoves DEF Places
    <3> QED
      BY <1>1, <1>5, <2>1, <3>1, TakenFields DEF Is
  <2>3. CASE th' = Alerting(p, "no_renegotiation", FALSE)
    <3>1. PICK t : /\ Moves(p, t)
                   /\ Is(t, th[p].op, "out", "alert", th[p].stage, th[p].reneg,
                         "no_renegotiation", FALSE, th[p].chunk)
      BY <1>1, <2>3, AlertingMoves DEF Alerts
    <3> QED
      BY <1>1, <1>5, <2>1, <3>1, TakenFields DEF Is
  <2> QED
    BY <1>10, <2>2, <2>3 DEF HelloRequest
<1>11. CASE PostHandshake(p)
  <2>1. cfg.v13 /\ th[p].stage = "none"
    BY <1>11 DEF PostHandshake
  <2>2. ASSUME UNCHANGED th
        PROVE  Moves(p, th[p])
    BY <1>1, <2>2 DEF Moves
  <2>3. ~Spent(th[p])
    BY <2>1 DEF Spent
  <2>4. CASE Message(p, "ticket") /\ in' = Counted /\ UNCHANGED th
    BY <1>1, <1>2, <1>5, <2>2, <2>3, <2>4, TakenFields
  <2>5. CASE Message(p, "ku") /\ in' = NextReadKey("ku", Counted) /\ UNCHANGED th
    BY <1>1, <1>2, <1>5, <2>1, <2>2, <2>3, <2>5, TakenFields DEF NextReadKey
  <2>6. CASE Message(p, "kur") /\ in' = NextReadKey("kur", Counted) /\ th' = Sending(p, "ku")
    <3>1. PICK t : /\ Moves(p, t)
                   /\ Is(t, th[p].op, "out", "ku", th[p].stage, th[p].reneg, th[p].alert,
                         th[p].inerr, th[p].chunk)
      BY <1>1, <2>6, SendingMoves DEF OutKinds
    <3>2. ~Spent(t)
      BY <2>1, <3>1 DEF Is, Spent
    <3> QED
      BY <1>1, <1>5, <2>1, <2>6, <3>1, <3>2, TakenFields DEF Is, NextReadKey
  <2> QED
    BY <1>11, <2>4, <2>5, <2>6 DEF PostHandshake
<1>12. CASE RejectMessage(p)
  <2>1. PICK m \in {"sh", "flight", "fin", "ticket", "ku", "kur", "hello_request"} :
          /\ Message(p, m) /\ Stray(p, m) /\ in' = Counted
          /\ th' = Alerting(p, "unexpected", cfg.v13 /\ complete /\ TooMany(in.retry + 1))
    BY <1>12 DEF RejectMessage
  <2>2. PICK e \in BOOLEAN : e = (cfg.v13 /\ complete /\ TooMany(in.retry + 1))
    OBVIOUS
  <2>3. th' = Alerting(p, "unexpected", e)
    BY <2>1, <2>2
  <2>4. CASE cfg.v13 /\ (e \/ th[p].stage # "none")
    BY <1>6, <2>1, <2>3, <2>4
  <2>5. CASE ~cfg.v13 \/ (~e /\ th[p].stage = "none")
    <3>1. PICK t : /\ Moves(p, t)
                   /\ Is(t, th[p].op, "out", "alert", th[p].stage, th[p].reneg, "unexpected", e,
                         th[p].chunk)
      BY <1>1, <2>3, AlertingMoves DEF Alerts
    <3>2. cfg.v13 => ~Spent(t)
      BY <2>5, <3>1 DEF Is, Spent
    <3>3. CASE ~cfg.v13
      BY <1>1, <1>5, <2>1, <3>1, <3>3, TakenFields DEF Is
    <3>4. CASE cfg.v13 /\ ~e /\ th[p].stage = "none"
      <4>1. Reads(th[p]) /\ complete
        BY <1>2, <3>4, KnownOpen DEF Reads, Shape, Shaking
      <4>2. ~TooMany(in.retry + 1)
        BY <2>2, <3>4, <4>1
      <4>3. m \notin {"ku", "kur"} /\ (m = "ticket" => ~cfg.client)
        BY <2>1, <3>4, <4>2 DEF Stray
      <4>4. CASE m \notin {"sh", "flight"}
        BY <1>1, <1>5, <2>1, <3>1, <3>2, <4>3, <4>4, TakenFields DEF Is
      <4>5. CASE m \in {"sh", "flight"} /\ ~Lost
        <5>1. InLine
          BY <4>5 DEF OpenInv
        <5>2. in.hand # <<>> /\ in.hand[1] = m
          BY <2>1 DEF Message
        <5>3. Placed(m, in.epoch) /\ (cfg.client => in.epoch >= 2)
          BY <3>4, <4>1, <5>1, <5>2 DEF InLine, InUse
        <5> QED
          BY <4>5, <5>3 DEF Placed
      <4>6. CASE Lost
        <5>1. in'.err = in.err
          BY <1>1, <2>1, TakenFields
        <5>2. Sober' /\ Once' /\ (Lost => Lost')
          BY <1>2, <1>3, <1>4, <3>1, <3>4, <5>1, ReaderLemma DEF Is
        <5> QED
          BY <4>6, <5>2 DEF OpenInv
      <4> QED
        BY <4>4, <4>5, <4>6
    <3> QED
      BY <2>5, <3>3, <3>4
  <2> QED
    BY <2>4, <2>5
<1> QED
  BY <1>7, <1>8, <1>9, <1>10, <1>11, <1>12

\* The queue of the peer and what it will send next.
LEMMA StreamFacts ==
  ASSUME peer \in PeerType
  PROVE  /\ Len(peer.queue) \in Nat /\ Len(Stream) = Len(peer.queue) + 1
         /\ \A n \in 1 .. Len(peer.queue) : Stream[n] = peer.queue[n]
         /\ Stream[Len(peer.queue) + 1] = Upcoming
         /\ DOMAIN peer.queue = 1 .. Len(peer.queue)
         /\ Upcoming \in Records(TheirKinds)
<1> DEFINE R == Records(TheirKinds)
<1>1. Upcoming \in R
  <2>1. "rest" \in TheirKinds /\ "sh" \in TheirKinds /\ peer.epoch \in Nat /\ peer.seq \in Nat
    BY PeerTypes DEF TheirKinds, Kinds
  <2>2. PICK k \in TheirKinds : k = IF peer.half THEN "rest" ELSE "sh"
    BY <2>1
  <2> QED
    BY <2>1, <2>2 DEF Upcoming, Records
<1>2. peer.queue \in Seq(R)
  BY PeerTypes
<1> HIDE DEF R
<1>3. /\ Len(peer.queue) \in Nat /\ Len(Stream) = Len(peer.queue) + 1
      /\ \A n \in 1 .. Len(peer.queue) : Stream[n] = peer.queue[n]
      /\ Stream[Len(peer.queue) + 1] = Upcoming
      /\ DOMAIN peer.queue = 1 .. Len(peer.queue)
  BY <1>1, <1>2 DEF Stream
<1> QED
  BY <1>1, <1>3 DEF R

\* The reader takes the first record of the stream.
LEMMA NextInStream ==
  ASSUME peer \in PeerType, Linked(Stream), peer.queue # <<>>, cfg' = cfg,
         peer' = [peer EXCEPT !.queue = Tail(@)]
  PROVE  /\ Linked(Stream)' /\ Stream[1] = Head(peer.queue)
         /\ Continues(Head(peer.queue), Stream'[1])
         /\ Resumes(Head(peer.queue).k, Stream'[1])
         /\ \A n \in DOMAIN peer'.queue :
              n + 1 \in DOMAIN peer.queue /\ peer'.queue[n] = peer.queue[n + 1]
         /\ 1 \in DOMAIN peer.queue /\ Head(peer.queue) = peer.queue[1]
<1> DEFINE R == Records(TheirKinds)
<1>1. peer.queue \in Seq(R)
  BY PeerTypes
<1>2. peer'.queue = Tail(peer.queue) /\ peer'.half = peer.half /\ peer'.epoch = peer.epoch
      /\ peer'.seq = peer.seq
  BY DEF PeerType
<1>3. peer' \in PeerType
  <2>1. Tail(peer.queue) \in Seq(R)
    BY <1>1
  <2> QED
    BY <2>1 DEF PeerType
<1> HIDE DEF R
<1>4. /\ Len(peer'.queue) = Len(peer.queue) - 1 /\ Len(peer.queue) >= 1
      /\ \A n \in 1 .. Len(peer'.queue) : peer'.queue[n] = peer.queue[n + 1]
      /\ Head(peer.queue) = peer.queue[1]
  BY <1>1, <1>2
<1>5. /\ Len(peer.queue) \in Nat /\ Len(Stream) = Len(peer.queue) + 1
      /\ \A n \in 1 .. Len(peer.queue) : Stream[n] = peer.queue[n]
      /\ Stream[Len(peer.queue) + 1] = Upcoming
      /\ DOMAIN peer.queue = 1 .. Len(peer.queue)
  BY StreamFacts
<1>6. Upcoming' = Upcoming /\ Upcoming \in R
  BY <1>2, StreamFacts DEF Upcoming, R
<1>7. /\ Len(peer'.queue) \in Nat /\ Len(Stream') = Len(peer'.queue) + 1
      /\ \A n \in 1 .. Len(peer'.queue) : Stream'[n] = peer'.queue[n]
      /\ Stream'[Len(peer'.queue) + 1] = Upcoming
      /\ DOMAIN peer'.queue = 1 .. Len(peer'.queue)
  <2>1. Stream' = Append(peer'.queue, Upcoming) /\ peer'.queue \in Seq(R)
    BY <1>1, <1>2, <1>6 DEF Stream
  <2> QED
    BY <1>6, <2>1
<1>8. \A n \in 1 .. Len(Stream') : Stream'[n] = Stream[n + 1]
  BY <1>4, <1>5, <1>7
<1>9. Linked(Stream)'
  <2> SUFFICES ASSUME NEW n \in 1 .. Len(Stream') - 1
               PROVE  Continues(Stream'[n], Stream'[n + 1]) /\ Resumes(Stream'[n].k, Stream'[n + 1])
    BY DEF Linked, Continues, Resumes, Rekeys
  <2>1. /\ n + 1 \in 1 .. Len(Stream) - 1 /\ n \in 1 .. Len(Stream') /\ n + 1 \in 1 .. Len(Stream')
    BY <1>4, <1>5, <1>7
  <2>2. Continues(Stream[n + 1], Stream[(n + 1) + 1]) /\ Resumes(Stream[n + 1].k, Stream[(n + 1) + 1])
    BY <2>1 DEF Linked
  <2>3. Stream'[n] = Stream[n + 1] /\ Stream'[n + 1] = Stream[(n + 1) + 1]
    BY <1>8, <2>1
  <2> QED
    BY <2>2, <2>3
<1>10. Continues(Stream[1], Stream[2]) /\ Resumes(Stream[1].k, Stream[2])
  <2>1. 1 \in 1 .. Len(Stream) - 1 /\ 1 + 1 = 2
    BY <1>4, <1>5
  <2> QED
    BY <2>1 DEF Linked
<1>11. Stream[1] = peer.queue[1] /\ Stream'[1] = Stream[2]
  BY <1>4, <1>5, <1>7, <1>8
<1>12. \A n \in DOMAIN peer'.queue :
         n + 1 \in DOMAIN peer.queue /\ peer'.queue[n] = peer.queue[n + 1]
  BY <1>4, <1>5, <1>7
<1> QED
  BY <1>4, <1>5, <1>9, <1>10, <1>11, <1>12

\* Whoever reads a record is in line, unless the peer does not keep to the protocol.
LEMMA ReaderInLine ==
  ASSUME IInv, OpenInv, NEW p \in Procs, th[p].pc = "rec", in.err = "none", ~peer.bad
  PROVE  InLine /\ ~Lost /\ (cfg.v13 => in.hand \in {<<>>, <<"half">>})
<1>1. \A q \in Procs : HoldsIn(th[q]) => q = p
  <2>1. HoldsIn(th[p])
    BY DEF HoldsIn
  <2> QED
    BY <2>1, KnownOpen DEF Holds
<1>2. \A q \in Procs : ~Condemning(th[q])
  BY <1>1 DEF Condemning, HoldsIn, AtSend
<1>3. \A q \in Procs : ~Losing(th[q])
  <2> SUFFICES ASSUME NEW q \in Procs, Losing(th[q]) PROVE FALSE
    OBVIOUS
  <2>1. HoldsIn(th[q])
    BY KnownOpen DEF Losing, HoldsIn, Shape
  <2>2. q = p
    BY <1>1, <2>1
  <2> QED
    BY <2>2, KnownOpen DEF Losing, AtSend, Shape
<1>4. cfg.v13 => ~handshakeErr
  <2> SUFFICES ASSUME cfg.v13, handshakeErr PROVE FALSE
    OBVIOUS
  <2>1. th[p].stage = "none"
    BY KnownOpen DEF Shape, HoldsHs, Shaking
  <2>2. complete
    BY <2>1, KnownOpen DEF Reads, Shape, Shaking
  <2>3. lock.hs \in Procs
    <3>1. lock.hs \in Procs \cup {Free} /\ ~(complete /\ lock.hs = Free)
      BY DEF IInv, Typed, TypeOK, LockState, Shook
    <3> QED
      BY <2>2, <3>1
  <2>4. PICK q \in Procs : lock.hs = q
    BY <2>3
  <2>5. HoldsHs(th[q])
    BY <2>4, KnownOpen DEF Holds
  <2>6. th[q].pc = "hs_ok"
    BY <2>2, <2>5, KnownOpen
  <2>7. HoldsIn(th[q])
    BY <2>6 DEF HoldsIn
  <2> QED
    BY <1>1, <2>6, <2>7
<1>5. ~Lost
  BY <1>2, <1>3, <1>4 DEF Lost
<1>6. \A q \in Procs : th[q].pc # "use"
  BY <1>1 DEF HoldsIn
<1> QED
  BY <1>5, <1>6 DEF OpenInv, InLine, InUse

\* readRecordOrCCS
LEMMA RecordOpen ==
  ASSUME IInv, OpenInv, NEW p \in Procs, ReadRecord(p)
  PROVE  OpenInv'
<1> DEFINE r == Head(peer.queue)
           i == IF Skipped(r) THEN in ELSE [in EXCEPT !.seq = @ + 1]
           j == IF Useless(r) THEN i ELSE [i EXCEPT !.retry = 0]
<1>1. th \in [Procs -> Thread] /\ in \in InState /\ peer \in PeerType /\ th[p] \in Thread
  BY DEF IInv, Typed, TypeOK
<1>2. /\ th[p].pc = "rec" /\ in.err = "none" /\ HandleRecord(p, r)
      /\ peer' = [peer EXCEPT !.queue = Tail(@)] /\ peer.queue # <<>>
      /\ UNCHANGED <<cfg, complete, handshakeErr, lock, out, wire>>
  BY DEF ReadRecord, At, shake
<1>3. /\ peer'.bad = peer.bad /\ peer'.hellos = peer.hellos /\ peer'.flights = peer.flights
      /\ peer'.epoch = peer.epoch /\ peer'.half = peer.half
  BY <1>1, <1>2 DEF PeerType
<1>4. cfg.v13 => th[p].stage \in {"none", "sh", "flight"}
  BY <1>2, KnownOpen DEF Shape, Shaking
<1>5. /\ j.err = "none" /\ j.hand = in.hand /\ j.epoch = in.epoch
      /\ j.seq = IF Skipped(r) THEN in.seq ELSE in.seq + 1
  BY <1>1, <1>2 DEF InState
<1>6. \/ ~(Skipped(r) \/ Opens(r)) /\ th' = Alerting(p, "bad_mac", TRUE) /\ in' = in
      \/ in' = j /\ th' = Alerting(p, "unexpected", TRUE)
      \/ r.k \in {"close_notify", "fatal"} /\ in' = [j EXCEPT !.err = r.k] /\ Go(p, "fail")
      \/ /\ r.k \in {"warning", "empty"} \/ Skipped(r)
         /\ Retry(p, j) /\ ~Unexpected(p, r)
      \/ r.k = "ccs" /\ ~cfg.v13 /\ in' = Rekey(j) /\ Go(p, "use")
      \/ r.k = "data" /\ in' = [j EXCEPT !.input = TRUE] /\ Go(p, "use") /\ ~Unexpected(p, r)
      \/ /\ Messages(r.k) # <<>> /\ ~Unexpected(p, r)
         /\ in' = [j EXCEPT !.hand = Joined(@, Messages(r.k))] /\ Go(p, "use")
  BY <1>2 DEF HandleRecord
<1>7. /\ [j EXCEPT !.input = TRUE].err = j.err /\ [j EXCEPT !.input = TRUE].hand = j.hand
      /\ [j EXCEPT !.input = TRUE].epoch = j.epoch /\ [j EXCEPT !.input = TRUE].seq = j.seq
  BY <1>1 DEF InState
<1>8. \A n : /\ [j EXCEPT !.retry = n].err = j.err /\ [j EXCEPT !.retry = n].hand = j.hand
             /\ [j EXCEPT !.retry = n].epoch = j.epoch /\ [j EXCEPT !.retry = n].seq = j.seq
  BY <1>1 DEF InState
<1>9. \A h : /\ [j EXCEPT !.hand = h].err = j.err /\ [j EXCEPT !.hand = h].hand = h
             /\ [j EXCEPT !.hand = h].epoch = j.epoch /\ [j EXCEPT !.hand = h].seq = j.seq
  BY <1>1 DEF InState
<1>10. Rekey(j).err = j.err /\ Rekey(j).epoch = j.epoch + 1 /\ Rekey(j).seq = 0
  BY <1>1 DEF InState, Rekey
<1>11. \A x \in {"close_notify", "fatal"} : [j EXCEPT !.err = x].err # "none"
  BY <1>1 DEF InState
<1> HIDE DEF j, r
\* The reading ends.
<1>12. ASSUME NEW a \in Alerts \ {"none"}, th' = Alerting(p, a, TRUE), a = "bad_mac" => peer.bad
       PROVE  OpenInv'
  <2>1. PICK t : /\ Moves(p, t)
                 /\ Is(t, th[p].op, "out", "alert", th[p].stage, th[p].reneg, a, TRUE, th[p].chunk)
    BY <1>1, <1>12, AlertingMoves
  <2>2. Sober' /\ Once'
    BY <1>2, <1>3, <1>4, <1>12, <2>1, ReaderLemma DEF Is
  <2>3. Condemning(t) /\ th'[p] = t
    BY <1>1, <2>1 DEF Is, Condemning, AtSend, Moves
  <2> QED
    BY <2>2, <2>3 DEF OpenInv, Lost
<1>13. ASSUME NEW l \in {"rec", "use", "fail"}, Go(p, l)
       PROVE  /\ Sober' /\ Once' /\ (Lost => Lost')
              /\ th'[p].pc = l /\ \A q \in Procs : q # p => th'[q] = th[q]
  <2>1. PICK t : /\ Moves(p, t)
                 /\ Is(t, th[p].op, l, th[p].send, th[p].stage, th[p].reneg, th[p].alert,
                       th[p].inerr, th[p].chunk)
    BY <1>1, <1>13, GoMoves DEF Places
  <2>2. Sober' /\ Once' /\ (Lost => Lost')
    BY <1>2, <1>3, <1>4, <1>13, <2>1, ReaderLemma DEF Is
  <2> QED
    BY <1>1, <2>1, <2>2 DEF Is, Moves
<1>14. CASE peer.bad
  <2>1. Lost'
    BY <1>3, <1>14 DEF Lost
  <2>2. CASE \E a \in Alerts \ {"none"} : th' = Alerting(p, a, TRUE)
    BY <1>12, <1>14, <2>2
  <2>3. CASE \E l \in {"rec", "use", "fail"} : Go(p, l)
    BY <1>13, <2>1, <2>3 DEF OpenInv
  <2>4. Retry(p, j) => Go(p, "rec") \/ th' = Alerting(p, "unexpected", TRUE)
    BY DEF Retry, Go
  <2> QED
    BY <1>6, <2>2, <2>3, <2>4 DEF Alerts
<1>15. CASE ~peer.bad
  <2>1. InLine /\ ~Lost /\ (cfg.v13 => in.hand \in {<<>>, <<"half">>})
    BY <1>2, <1>15, ReaderInLine
  <2>2. /\ Linked(Stream)' /\ Stream[1] = r
        /\ Continues(r, Stream'[1])
        /\ Resumes(r.k, Stream'[1])
        /\ \A n \in DOMAIN peer'.queue :
             n + 1 \in DOMAIN peer.queue /\ peer'.queue[n] = peer.queue[n + 1]
        /\ 1 \in DOMAIN peer.queue /\ r = peer.queue[1]
    BY <1>1, <1>2, <2>1, NextInStream DEF InLine, r
  <2>3. /\ \A n \in DOMAIN peer'.queue : peer'.queue[n].k # "bad"
        /\ cfg.v13 => \A n \in DOMAIN peer'.queue : Placed(peer.queue[n].k, peer.queue[n].e)'
        /\ r.k # "bad" /\ (cfg.v13 => Placed(r.k, r.e))
    <3>1. \A n \in DOMAIN peer'.queue : peer'.queue[n].k # "bad"
      BY <2>1, <2>2 DEF InLine
    <3>2. cfg.v13 => \A n \in DOMAIN peer'.queue : Placed(peer.queue[n].k, peer.queue[n].e)'
      BY <1>2, <2>1, <2>2 DEF InLine, Placed
    <3>3. r.k # "bad" /\ (cfg.v13 => Placed(r.k, r.e))
      BY <2>1, <2>2 DEF InLine
    <3> QED
      BY <3>1, <3>2, <3>3
  <2>4. /\ r.e = in.epoch /\ r.s = in.seq /\ Opens(r)
        /\ cfg.v13 /\ in.hand # <<>> => Resumes("half", r)
    <3>1. Awaited(r)
      BY <2>1, <2>2 DEF InLine
    <3>2. cfg.v13 /\ in.hand # <<>> => in.hand = <<"half">> /\ in.hand[1] = "half"
      BY <2>1
    <3>3. r.e = in.epoch /\ r.s = in.seq
      BY <3>1, <3>2 DEF Awaited, Rekeys
    <3> QED
      BY <2>3, <3>1, <3>2, <3>3 DEF Awaited, Opens
\* The next record is the one awaited.
  <2>5. ASSUME NEW l \in {"rec", "use"}, Go(p, l), Awaited(Stream[1])', cfg.v13 => InUse',
               cfg.v13 => in'.epoch = in.epoch
        PROVE  OpenInv'
    <3>1. /\ Sober' /\ Once' /\ (Lost => Lost')
          /\ th'[p].pc = l /\ \A q \in Procs : q # p => th'[q] = th[q]
      BY <1>13, <2>5
    <3>2. ~Spent(th'[p])
      BY <3>1 DEF Spent, AtSend
    <3>3. cfg.v13 /\ cfg.client /\ (complete' \/ \E q \in Procs : Spent(th'[q])) => in'.epoch >= 2
      BY <1>2, <2>1, <2>5, <3>1, <3>2 DEF InLine
    <3>4. InLine'
      BY <1>2, <2>2, <2>3, <2>5, <3>3 DEF InLine
    <3> QED
      BY <3>1, <3>4 DEF OpenInv
\* A record without a message.
  <2>6. ASSUME NEW l \in {"rec", "use"}, Go(p, l), ~Unexpected(p, r), Messages(r.k) = <<>>,
               ~Rekeys(r.k), in'.hand = in.hand, in'.epoch = in.epoch, in'.seq = j.seq
        PROVE  OpenInv'
    <3>1. cfg.v13 => in.hand = <<>>
      BY <2>6 DEF Unexpected
    <3>2. Stream'[1].e = in'.epoch /\ Stream'[1].s = in'.seq
      BY <1>5, <2>2, <2>4, <2>6 DEF Continues, Skipped
    <3>3. Awaited(Stream[1])'
      <4>1. CASE cfg.v13
        <5>1. in'.hand = <<>> /\ in'.hand # <<"half">>
          <6>1. <<>> # <<"half">>
            <7>1. Len(<<>>) = 0 /\ Len(<<"half">>) = 1
              OBVIOUS
            <7> QED
              BY <7>1
          <6> QED
            BY <2>6, <3>1, <4>1, <6>1
        <5> QED
          BY <3>2, <5>1 DEF Awaited
      <4>2. CASE ~cfg.v13
        BY <1>2, <3>2, <4>2 DEF Awaited, Resumes
      <4> QED
        BY <4>1, <4>2
    <3>4. cfg.v13 => InUse'
      <4>1. <<>> # <<"ticket", "ticket">>
        <5>1. Len(<<>>) = 0 /\ Len(<<"ticket", "ticket">>) = 2
          OBVIOUS
        <5> QED
          BY <5>1
      <4> QED
        BY <2>6, <3>1, <4>1 DEF InUse
    <3> QED
      BY <2>5, <2>6, <3>3, <3>4
  <2>7. CASE ~(Skipped(r) \/ Opens(r)) /\ th' = Alerting(p, "bad_mac", TRUE) /\ in' = in
    BY <2>4, <2>7
  <2>8. CASE th' = Alerting(p, "unexpected", TRUE)
    BY <1>12, <2>8 DEF Alerts
  <2>9. CASE r.k \in {"close_notify", "fatal"} /\ in' = [j EXCEPT !.err = r.k] /\ Go(p, "fail")
    <3>1. in'.err # "none"
      BY <1>11, <2>9
    <3> QED
      BY <1>13, <2>9, <3>1 DEF OpenInv, Lost
  <2>10. CASE /\ r.k \in {"warning", "empty"} \/ Skipped(r)
              /\ Retry(p, j) /\ ~Unexpected(p, r) /\ th' # Alerting(p, "unexpected", TRUE)
    <3>1. Go(p, "rec") /\ in' = [j EXCEPT !.retry = @ + 1]
      BY <2>10 DEF Retry, Go
    <3>2. in'.hand = in.hand /\ in'.epoch = in.epoch /\ in'.seq = j.seq
      BY <1>5, <1>8, <3>1
    <3>3. Messages(r.k) = <<>> /\ ~Rekeys(r.k)
      BY <2>10 DEF Messages, Rekeys, Skipped
    <3> QED
      BY <2>6, <2>10, <3>1, <3>2, <3>3
  <2>11. CASE r.k = "ccs" /\ ~cfg.v13 /\ in' = Rekey(j) /\ Go(p, "use")
    <3>1. Stream'[1].e = in'.epoch /\ Stream'[1].s = in'.seq
      BY <1>5, <1>10, <2>2, <2>4, <2>11 DEF Continues, Rekeys
    <3>2. Awaited(Stream[1])'
      BY <1>2, <2>11, <3>1 DEF Awaited, Resumes
    <3> QED
      BY <2>5, <2>11, <3>2
  <2>12. CASE r.k = "data" /\ in' = [j EXCEPT !.input = TRUE] /\ Go(p, "use") /\ ~Unexpected(p, r)
    <3>1. in'.hand = in.hand /\ in'.epoch = in.epoch /\ in'.seq = j.seq
      BY <1>5, <1>7, <2>12
    <3>2. Messages(r.k) = <<>> /\ ~Rekeys(r.k)
      BY <2>12 DEF Messages, Rekeys
    <3> QED
      BY <2>6, <2>12, <3>1, <3>2
  <2>13. CASE /\ Messages(r.k) # <<>> /\ ~Unexpected(p, r)
              /\ in' = [j EXCEPT !.hand = Joined(@, Messages(r.k))] /\ Go(p, "use")
    <3>1. /\ in'.hand = Joined(in.hand, Messages(r.k)) /\ in'.epoch = in.epoch
          /\ in'.seq = in.seq + 1 /\ r.k # "ccs"
      <4>1. r.k # "ccs"
        BY <2>13 DEF Messages
      <4> QED
        BY <1>5, <1>9, <2>13, <4>1 DEF Skipped
    <3>2. CASE ~cfg.v13
      <4>1. Stream'[1].e = in'.epoch /\ Stream'[1].s = in'.seq
        BY <2>2, <2>4, <3>1, <3>2 DEF Continues, Rekeys
      <4>2. Awaited(Stream[1])'
        BY <1>2, <3>2, <4>1 DEF Awaited, Resumes
      <4> QED
        BY <2>5, <2>13, <3>2, <4>2
    <3>3. CASE cfg.v13
      <4>1. Messages(r.k) = (IF r.k = "tickets" THEN <<"ticket", "ticket">> ELSE <<r.k>>)
            /\ (r.k # "tickets" => r.k \in Pieces)
        BY <2>13 DEF Messages, Pieces
      <4>2. PICK m : /\ in'.hand \in {<<m>>, <<"ticket", "ticket">>}
                     /\ in'.hand[1] = m /\ m \in Pieces
                     /\ in'.hand = <<"ticket", "ticket">> => r.k = "tickets"
                     /\ m = r.k \/ (m = "ticket" /\ r.k \in {"rest", "tickets"})
        <5>1. CASE in.hand = <<>>
          <6>1. in'.hand = Messages(r.k)
            BY <3>1, <5>1, MessagesType DEF Joined
          <6>2. CASE r.k = "tickets"
            BY <4>1, <6>1, <6>2 DEF Pieces
          <6>3. CASE r.k # "tickets"
            <7>1. <<r.k>> # <<"ticket", "ticket">> /\ <<r.k>>[1] = r.k
              <8>1. Len(<<r.k>>) = 1 /\ Len(<<"ticket", "ticket">>) = 2
                OBVIOUS
              <8> QED
                BY <8>1
            <7> QED
              BY <4>1, <6>1, <6>3, <7>1
          <6> QED
            BY <6>2, <6>3
        <5>2. CASE in.hand # <<>>
          <6>1. in.hand = <<"half">> /\ r.k = "rest"
            BY <2>1, <2>4, <2>13, <3>3, <5>2 DEF Resumes
          <6>2. Messages(r.k) = <<"rest">>
            BY <4>1, <6>1
          <6>3. Last(in.hand) = "half" /\ Front(in.hand) = <<>>
            BY <6>1 DEF Last, Front
          <6>4. in'.hand = Append(<<>>, "ticket")
            BY <3>1, <5>2, <6>2, <6>3 DEF Joined
          <6>5. in'.hand = <<"ticket">>
            BY <6>4
          <6>6. <<"ticket">> # <<"ticket", "ticket">> /\ <<"ticket">>[1] = "ticket"
            <7>1. Len(<<"ticket">>) = 1 /\ Len(<<"ticket", "ticket">>) = 2
              OBVIOUS
            <7> QED
              BY <7>1
          <6> QED
            BY <6>1, <6>5, <6>6 DEF Pieces
        <5> QED
          BY <5>1, <5>2
      <4>3. in'.hand # <<>>
        <5>1. <<m>> # <<>> /\ <<"ticket", "ticket">> # <<>>
          OBVIOUS
        <5> QED
          BY <4>2, <5>1
      <4>4. in'.hand = <<"half">> => m = "half" /\ r.k = "half"
        <5>1. <<"half">>[1] = "half"
          OBVIOUS
        <5> QED
          BY <4>2, <5>1
      <4>5. Awaited(Stream[1])'
        <5>1. Rekeys(m) <=> Rekeys(r.k)
          BY <3>3, <4>2 DEF Rekeys
        <5>2. IF Rekeys(m) THEN Stream'[1].e = in.epoch + 1 /\ Stream'[1].s = 0
              ELSE Stream'[1].e = in.epoch /\ Stream'[1].s = in.seq + 1
          BY <2>2, <2>4, <3>1, <5>1 DEF Continues
        <5>3. in'.hand = <<"half">> => Resumes("half", Stream'[1])
          BY <2>2, <4>4
        <5> QED
          BY <1>2, <3>1, <3>3, <4>2, <4>3, <5>2, <5>3 DEF Awaited, Rekeys, Resumes
      <4>6. InUse'
        <5>1. th'[p].pc = "use"
          BY <1>13, <2>13
        <5>2. in'.hand \in {<<>>, <<"ticket", "ticket">>} \cup {<<x>> : x \in Pieces}
          BY <4>2
        <5>3. Placed(m, in.epoch)
          BY <2>3, <2>4, <3>3, <4>2 DEF Placed
        <5>4. in'.hand = <<"ticket", "ticket">> => cfg.client
          BY <2>3, <3>3, <4>2 DEF Placed
        <5> QED
          BY <1>2, <3>1, <4>2, <5>1, <5>2, <5>3, <5>4 DEF InUse, Placed
      <4> QED
        BY <2>5, <2>13, <3>1, <4>5, <4>6
    <3> QED
      BY <3>2, <3>3
  <2> QED
    BY <1>6, <2>7, <2>8, <2>9, <2>10, <2>11, <2>12, <2>13
<1> QED
  BY <1>14, <1>15

-----------------------------------------------------------------------------
(* The peer sends *)

\* The next record takes its place, and another one is expected after it.
LEMMA LinkAppend ==
  ASSUME NEW R, NEW q \in Seq(R), NEW u \in R, NEW r \in R, NEW v \in R,
         Linked(Append(q, u)), Awaited(Append(q, u)[1]), r.e = u.e, r.s = u.s,
         \A k : Resumes(k, u) => Resumes(k, r), Continues(r, v), Resumes(r.k, v)
  PROVE  Linked(Append(Append(q, r), v)) /\ Awaited(Append(Append(q, r), v)[1])
<1> DEFINE a == Append(q, u)
           b == Append(Append(q, r), v)
           n == Len(q)
<1>1. /\ n \in Nat /\ Len(a) = n + 1 /\ a[n + 1] = u
      /\ \A i \in 1 .. n : a[i] = q[i]
  OBVIOUS
<1>2. /\ Len(b) = n + 2 /\ b[n + 1] = r /\ b[n + 2] = v
      /\ \A i \in 1 .. n : b[i] = q[i]
  <2>1. Append(q, r) \in Seq(R) /\ Len(Append(q, r)) = n + 1 /\ Append(q, r)[n + 1] = r
        /\ \A i \in 1 .. n : Append(q, r)[i] = q[i]
    OBVIOUS
  <2>2. PICK c \in Seq(R) : c = Append(q, r)
    BY <2>1
  <2>3. Len(Append(c, v)) = Len(c) + 1 /\ Append(c, v)[Len(c) + 1] = v
        /\ \A i \in 1 .. Len(c) : Append(c, v)[i] = c[i]
    OBVIOUS
  <2> QED
    BY <1>1, <2>1, <2>2, <2>3
<1> HIDE DEF a, b, n
<1>3. Linked(a) /\ Awaited(a[1])
  BY DEF a
<1>4. Linked(b)
  <2> SUFFICES ASSUME NEW i \in 1 .. Len(b) - 1
               PROVE  Continues(b[i], b[i + 1]) /\ Resumes(b[i].k, b[i + 1])
    BY DEF Linked
  <2>1. CASE i < n
    <3>1. i \in 1 .. Len(a) - 1 /\ a[i] = b[i] /\ a[i + 1] = b[i + 1]
      <4>1. i \in 1 .. n /\ i + 1 \in 1 .. n /\ i \in 1 .. Len(a) - 1
        BY <1>1, <1>2, <2>1
      <4>2. a[i] = q[i] /\ b[i] = q[i]
        BY <1>1, <1>2, <4>1
      <4>3. a[i + 1] = q[i + 1] /\ b[i + 1] = q[i + 1]
        BY <1>1, <1>2, <4>1
      <4> QED
        BY <4>1, <4>2, <4>3
    <3> QED
      BY <1>3, <3>1 DEF Linked
  <2>2. CASE i = n
    <3>1. i \in 1 .. Len(a) - 1 /\ a[i] = b[i] /\ a[i + 1] = u /\ b[i + 1] = r
      BY <1>1, <1>2, <2>2
    <3>2. Continues(b[i], u) /\ Resumes(b[i].k, u)
      BY <1>3, <3>1 DEF Linked
    <3> QED
      BY <3>1, <3>2 DEF Continues
  <2>3. CASE i = n + 1
    <3>1. b[i] = r /\ b[i + 1] = v
      BY <1>1, <1>2, <2>3
    <3> QED
      BY <3>1
  <2> QED
    BY <1>1, <1>2, <2>1, <2>2, <2>3
<1>5. Awaited(b[1])
  <2>1. CASE n = 0
    <3>1. a[1] = u /\ b[1] = r
      BY <1>1, <1>2, <2>1
    <3> QED
      BY <1>3, <3>1 DEF Awaited
  <2>2. CASE n # 0
    <3>1. a[1] = b[1]
      BY <1>1, <1>2, <2>2
    <3> QED
      BY <1>3, <3>1
  <2> QED
    BY <2>1, <2>2
<1> QED
  BY <1>4, <1>5 DEF b

\* A step of the peer changes nothing of the Conn.
LEMMA PeerStepOpen ==
  ASSUME IInv, OpenInv, Peer, peer.bad => peer'.bad, Once',
         peer'.bad \/ (InLine => Linked(Stream)' /\ Awaited(Stream[1])' /\
           \A n \in DOMAIN peer'.queue : /\ peer'.queue[n].k # "bad"
                                         /\ cfg.v13 => Placed(peer'.queue[n].k, peer'.queue[n].e))
  PROVE  OpenInv'
<1>1. UNCHANGED <<cfg, complete, handshakeErr, lock, out, in, wire, th>>
  BY DEF Peer, PeerHello, PeerFlight, PeerFinished, PeerSends, PeerStopsReading, PeerCloses, shake
<1>2. Sober'
  BY <1>1 DEF OpenInv, Sober
<1>3. Lost \/ peer'.bad => Lost'
  BY <1>1 DEF Lost
<1>4. ASSUME InLine, ~peer'.bad
      PROVE  InLine'
  <2>1. cfg.v13 => InUse'
    BY <1>1, <1>4 DEF InLine, InUse, Placed
  <2>2. Linked(Stream)' /\ Awaited(Stream[1])'
    BY <1>4
  <2>3. \A n \in DOMAIN peer'.queue : peer'.queue[n].k # "bad"
    BY <1>4
  <2>4. cfg.v13 => \A n \in DOMAIN peer'.queue : Placed(peer.queue[n].k, peer.queue[n].e)'
    BY <1>1, <1>4 DEF Placed
  <2>5. cfg.v13 /\ cfg.client /\ (complete \/ \E p \in Procs : Spent(th[p])) => in.epoch >= 2
    BY <1>4 DEF InLine
  <2> QED
    BY <1>1, <2>1, <2>2, <2>3, <2>4, <2>5 DEF InLine
<1> QED
  BY <1>2, <1>3, <1>4 DEF OpenInv

\* The peer adds one record to its queue.
LEMMA PeerAdds ==
  ASSUME IInv, OpenInv, Peer, InLine, NEW r \in Records(TheirKinds), peer' \in PeerType,
         peer'.queue = Append(peer.queue, r), r.e = peer.epoch, r.s = peer.seq,
         cfg.v13 /\ peer.half => r.k = "rest" \/ Messages(r.k) = <<>>,
         Continues(r, Upcoming'), Resumes(r.k, Upcoming'),
         r.k # "bad", cfg.v13 => Placed(r.k, r.e)
  PROVE  /\ Linked(Stream)' /\ Awaited(Stream[1])'
         /\ \A n \in DOMAIN peer'.queue : /\ peer'.queue[n].k # "bad"
                                          /\ cfg.v13 => Placed(peer'.queue[n].k, peer'.queue[n].e)
<1> DEFINE R == Records(TheirKinds)
<1>1. cfg' = cfg /\ in' = in /\ peer \in PeerType
  BY DEF Peer, PeerHello, PeerFlight, PeerFinished, PeerSends, PeerStopsReading, PeerCloses,
         IInv, Typed
<1>2. peer.queue \in Seq(R) /\ Upcoming \in R
  BY <1>1, PeerTypes, StreamFacts
<1>3. Upcoming' \in R
  <2>1. "rest" \in TheirKinds /\ "sh" \in TheirKinds /\ peer'.epoch \in Nat /\ peer'.seq \in Nat
    BY PeerTypes DEF TheirKinds, Kinds
  <2>2. PICK k \in TheirKinds : k = IF peer'.half THEN "rest" ELSE "sh"
    BY <2>1
  <2> QED
    BY <2>1, <2>2 DEF Upcoming, Records
<1>4. r.e = Upcoming.e /\ r.s = Upcoming.s /\ \A k : Resumes(k, Upcoming) => Resumes(k, r)
  <2>1. /\ Upcoming.e = peer.epoch /\ Upcoming.s = peer.seq
        /\ Upcoming.k = IF peer.half THEN "rest" ELSE "sh"
    BY DEF Upcoming
  <2>2. Messages("sh") # <<>>
    BY DEF Messages
  <2> QED
    BY <2>1, <2>2 DEF Resumes
<1>5. Linked(Append(Append(peer.queue, r), Upcoming'))
      /\ Awaited(Append(Append(peer.queue, r), Upcoming')[1])
  <2>1. Linked(Append(peer.queue, Upcoming)) /\ Awaited(Append(peer.queue, Upcoming)[1])
    BY DEF InLine, Stream
  <2>2. r \in R
    OBVIOUS
  <2> HIDE DEF R
  <2> QED
    BY <1>2, <1>3, <1>4, <2>1, <2>2, LinkAppend
<1>6. Stream' = Append(Append(peer.queue, r), Upcoming')
  BY DEF Stream
<1>7. Linked(Stream)' /\ Awaited(Stream[1])'
  BY <1>1, <1>5, <1>6 DEF Linked, Awaited, Continues, Resumes, Rekeys
<1>8. ASSUME NEW n \in DOMAIN peer'.queue
      PROVE  (n \in DOMAIN peer.queue /\ peer'.queue[n] = peer.queue[n]) \/ peer'.queue[n] = r
  <2>1. r \in R
    OBVIOUS
  <2> HIDE DEF R
  <2> QED
    BY <1>2, <1>8, <2>1
<1> QED
  BY <1>7, <1>8 DEF InLine

\* The peer's write keys change, and nothing else of it.
LEMMA RekeyedPeer ==
  ASSUME peer \in PeerType, NEW x, DOMAIN x = DOMAIN peer, NEW b \in BOOLEAN,
         peer' = IF b THEN Rekey(x) ELSE x
  PROVE  /\ peer'.queue = x.queue /\ peer'.hellos = x.hellos /\ peer'.flights = x.flights
         /\ peer'.half = x.half /\ peer'.bad = x.bad
         /\ IF b THEN peer'.epoch = x.epoch + 1 /\ peer'.seq = 0
            ELSE peer'.epoch = x.epoch /\ peer'.seq = x.seq
<1>1. DOMAIN x = {"queue", "epoch", "seq", "sent", "hellos", "flights", "fins", "half", "bad",
                  "eof", "reset", "reads"}
  BY DEF PeerType
<1>2. /\ Rekey(x).hellos = x.hellos /\ Rekey(x).flights = x.flights /\ Rekey(x).half = x.half
      /\ Rekey(x).bad = x.bad /\ Rekey(x).queue = x.queue /\ Rekey(x).epoch = x.epoch + 1
      /\ Rekey(x).seq = 0
  BY <1>1 DEF Rekey
<1> QED
  BY <1>2

\* Every step of the peer keeps the reader in line, or the peer off the protocol.
LEMMA PeerOpen ==
  ASSUME IInv, OpenInv, Peer
  PROVE  OpenInv'
<1>1. /\ peer \in PeerType /\ peer' \in PeerType
      /\ cfg.v13 \in BOOLEAN /\ cfg.client \in BOOLEAN
      /\ UNCHANGED <<cfg, complete, handshakeErr, lock, out, in, wire, th>>
  <2>1. IInv'
    BY NextInv DEF Next
  <2>2. cfg.v13 \in BOOLEAN /\ cfg.client \in BOOLEAN
    BY ConnAssumption DEF IInv, Typed, TypeOK, Case
  <2>3. UNCHANGED <<cfg, complete, handshakeErr, lock, out, in, wire, th>>
    BY DEF Peer, PeerHello, PeerFlight, PeerFinished, PeerSends, PeerStopsReading, PeerCloses,
           shake
  <2> QED
    BY <2>1, <2>2, <2>3 DEF IInv, Typed
<1>2. /\ peer.epoch \in Nat /\ peer.seq \in Nat /\ peer.hellos \in Nat /\ peer.flights \in Nat
      /\ peer.half \in BOOLEAN /\ Sent("hello") \in Nat
  <2>1. Sent("hello") \in Nat
    <3>1. wire \in Seq(Records(OutKinds)) /\ <<>> \in Seq(Records(OutKinds)) /\ wire' = wire \o <<>>
      <4>1. wire \in Seq(Records(OutKinds))
        BY DEF IInv, Typed, TypeOK
      <4> QED
        BY <1>1, <4>1
    <3> QED
      BY <3>1, SentConcat
  <2> QED
    BY <1>1, <2>1, PeerTypes
\* The counts of the peer.
<1>3. ASSUME cfg.v13
      PROVE  /\ peer.flights <= peer.hellos /\ peer.hellos <= Sent("hello") /\ Sent("hello") <= 1
             /\ ~cfg.client => Sent("hello") = 0
             /\ cfg.client => /\ peer.hellos = 0 => peer.epoch = 0
                              /\ peer.flights = 0 /\ peer.hellos # 0 => peer.epoch = 1
                              /\ peer.half => peer.flights # 0
  BY <1>2, <1>3 DEF OpenInv, Once
<1>4. ASSUME cfg.v13 =>
               /\ peer'.flights <= peer'.hellos /\ peer'.hellos <= Sent("hello")
               /\ cfg.client => /\ peer'.hellos = 0 => peer'.epoch = 0
                                /\ peer'.flights = 0 /\ peer'.hellos # 0 => peer'.epoch = 1
                                /\ peer'.half => peer'.flights # 0
      PROVE  Once'
  <2>1. Sent("hello")' = Sent("hello")
    BY <1>1 DEF Sent
  <2> QED
    BY <1>1, <1>4, <2>1 DEF OpenInv, Once
<1>5. ASSUME NEW k \in TheirKinds
      PROVE  /\ PeerRecord(k) \in Records(TheirKinds) /\ PeerRecord(k).k = k
             /\ PeerRecord(k).e = peer.epoch /\ PeerRecord(k).s = peer.seq
  BY <1>2, <1>5 DEF PeerRecord, Records
<1>6. /\ Upcoming'.e = peer'.epoch /\ Upcoming'.s = peer'.seq
      /\ Upcoming'.k = IF peer'.half THEN "rest" ELSE "sh"
  BY DEF Upcoming
<1>7. CASE PeerHello
  <2>1. /\ ~peer.half /\ Sent("hello") > peer.hellos
        /\ peer'.hellos = peer.hellos + 1 /\ peer'.flights = peer.flights
        /\ peer'.half = peer.half /\ peer'.bad = peer.bad
        /\ peer'.queue = Append(peer.queue, PeerRecord("sh"))
        /\ IF cfg.v13 THEN peer'.epoch = peer.epoch + 1 /\ peer'.seq = 0
           ELSE peer'.epoch = peer.epoch /\ peer'.seq = peer.seq + 1
    <3>1. ~peer.half /\ Sent("hello") > peer.hellos
      BY <1>7 DEF PeerHello
    <3> DEFINE x == [PeerNext EXCEPT !.hellos = @ + 1, !.queue = Append(@, PeerRecord("sh"))]
    <3>2. /\ x.hellos = peer.hellos + 1 /\ x.flights = peer.flights /\ x.half = peer.half
          /\ x.bad = peer.bad /\ x.queue = Append(peer.queue, PeerRecord("sh"))
          /\ x.epoch = peer.epoch /\ x.seq = peer.seq + 1 /\ DOMAIN x = DOMAIN peer
      BY <1>1 DEF PeerNext, PeerType
    <3>3. peer' = IF cfg.v13 THEN Rekey(x) ELSE x
      BY <1>7 DEF PeerHello
    <3> HIDE DEF x
    <3> QED
      BY <1>1, <3>1, <3>2, <3>3, RekeyedPeer
  <2>2. cfg.v13 => cfg.client /\ peer.hellos = 0 /\ peer.flights = 0 /\ peer.epoch = 0
                   /\ Sent("hello") = 1
    BY <1>2, <1>3, <2>1
  <2>3. Once'
    BY <1>2, <1>4, <2>1, <2>2
  <2>4. PICK r \in Records(TheirKinds) :
          r = PeerRecord("sh") /\ r.k = "sh" /\ r.e = peer.epoch /\ r.s = peer.seq
    BY <1>5 DEF TheirKinds
  <2>5. Continues(r, Upcoming') /\ Resumes(r.k, Upcoming') /\ (cfg.v13 => Placed(r.k, r.e))
    BY <1>6, <2>1, <2>2, <2>4 DEF Continues, Rekeys, Resumes, Placed
  <2>6. InLine => /\ Linked(Stream)' /\ Awaited(Stream[1])'
                  /\ \A n \in DOMAIN peer'.queue :
                       /\ peer'.queue[n].k # "bad"
                       /\ cfg.v13 => Placed(peer'.queue[n].k, peer'.queue[n].e)
    BY <1>1, <2>1, <2>4, <2>5, PeerAdds
  <2> QED
    BY <2>1, <2>3, <2>6, PeerStepOpen
<1>8. CASE PeerFlight
  <2>1. /\ peer.hellos > peer.flights
        /\ peer'.hellos = peer.hellos /\ peer'.flights = peer.flights + 1
        /\ peer'.half = peer.half /\ peer'.bad = peer.bad
        /\ peer'.queue = Append(peer.queue, PeerRecord("flight"))
        /\ IF cfg.v13 THEN peer'.epoch = peer.epoch + 1 /\ peer'.seq = 0
           ELSE peer'.epoch = peer.epoch /\ peer'.seq = peer.seq + 1
    <3>1. peer.hellos > peer.flights
      BY <1>8 DEF PeerFlight
    <3> DEFINE x == [PeerNext EXCEPT !.flights = @ + 1, !.queue = Append(@, PeerRecord("flight"))]
    <3>2. /\ x.hellos = peer.hellos /\ x.flights = peer.flights + 1 /\ x.half = peer.half
          /\ x.bad = peer.bad /\ x.queue = Append(peer.queue, PeerRecord("flight"))
          /\ x.epoch = peer.epoch /\ x.seq = peer.seq + 1 /\ DOMAIN x = DOMAIN peer
      BY <1>1 DEF PeerNext, PeerType
    <3>3. peer' = IF cfg.v13 THEN Rekey(x) ELSE x
      BY <1>8 DEF PeerFlight
    <3> HIDE DEF x
    <3> QED
      BY <1>1, <3>1, <3>2, <3>3, RekeyedPeer
  <2>2. cfg.v13 => /\ cfg.client /\ peer.hellos = 1 /\ peer.flights = 0 /\ peer.epoch = 1
                   /\ Sent("hello") = 1 /\ ~peer.half
    BY <1>2, <1>3, <2>1
  <2>3. Once'
    BY <1>2, <1>4, <2>1, <2>2
  <2>4. PICK r \in Records(TheirKinds) :
          r = PeerRecord("flight") /\ r.k = "flight" /\ r.e = peer.epoch /\ r.s = peer.seq
    BY <1>5 DEF TheirKinds
  <2>5. Continues(r, Upcoming') /\ Resumes(r.k, Upcoming') /\ (cfg.v13 => Placed(r.k, r.e))
    BY <1>6, <2>1, <2>2, <2>4 DEF Continues, Rekeys, Resumes, Placed
  <2>6. InLine => /\ Linked(Stream)' /\ Awaited(Stream[1])'
                  /\ \A n \in DOMAIN peer'.queue :
                       /\ peer'.queue[n].k # "bad"
                       /\ cfg.v13 => Placed(peer'.queue[n].k, peer'.queue[n].e)
    BY <1>1, <2>1, <2>2, <2>4, <2>5, PeerAdds
  <2> QED
    BY <2>1, <2>3, <2>6, PeerStepOpen
<1>9. CASE PeerSends
  <2>1. PICK k \in cfg.kinds :
          /\ k \in AlertKinds \cup {"ccs", "bad"} \/ PeerDone
          /\ k = "rest" => peer.half
          /\ peer.half /\ Messages(k) # <<>> => k = "rest"
          /\ LET unsealed == k = "bad" \/ (cfg.v13 /\ k = "ccs")
                 q == [(IF unsealed THEN peer ELSE PeerNext) EXCEPT
                         !.sent = @ + 1, !.queue = Append(@, PeerRecord(k)),
                         !.half = (k = "half" \/ (@ /\ k # "rest")),
                         !.bad = @ \/ k = "bad" \/ (k = "ccs" /\ ~cfg.v13)
                                   \/ (k = "tickets" /\ ~cfg.client)]
             IN  peer' = IF k \in {"ku", "kur"} /\ cfg.v13 THEN Rekey(q) ELSE q
    BY <1>9 DEF PeerSends
  <2>2. k \in Kinds /\ k \in TheirKinds /\ k \notin {"sh", "flight"}
    <3>1. k \in Kinds
      BY ConnAssumption DEF IInv, Typed, TypeOK, Case
    <3> QED
      BY <3>1 DEF TheirKinds, Kinds
  <2>3. /\ peer'.hellos = peer.hellos /\ peer'.flights = peer.flights
        /\ peer'.half <=> (k = "half" \/ (peer.half /\ k # "rest"))
        /\ peer'.bad <=> \/ peer.bad \/ k = "bad" \/ (k = "ccs" /\ ~cfg.v13)
                         \/ (k = "tickets" /\ ~cfg.client)
        /\ peer'.queue = Append(peer.queue, PeerRecord(k))
        /\ IF cfg.v13 /\ k \in {"ku", "kur"} THEN peer'.epoch = peer.epoch + 1 /\ peer'.seq = 0
           ELSE /\ peer'.epoch = peer.epoch
                /\ peer'.seq = IF k = "bad" \/ (cfg.v13 /\ k = "ccs") THEN peer.seq
                               ELSE peer.seq + 1
    <3> DEFINE y == IF k = "bad" \/ (cfg.v13 /\ k = "ccs") THEN peer ELSE PeerNext
               h == k = "half" \/ (peer.half /\ k # "rest")
               d == peer.bad \/ k = "bad" \/ (k = "ccs" /\ ~cfg.v13)
                      \/ (k = "tickets" /\ ~cfg.client)
               x == [y EXCEPT !.sent = @ + 1, !.queue = Append(@, PeerRecord(k)),
                              !.half = (k = "half" \/ (@ /\ k # "rest")),
                              !.bad = @ \/ k = "bad" \/ (k = "ccs" /\ ~cfg.v13)
                                        \/ (k = "tickets" /\ ~cfg.client)]
    <3>1. /\ y.sent = peer.sent /\ y.queue = peer.queue /\ y.half = peer.half /\ y.bad = peer.bad
          /\ y.hellos = peer.hellos /\ y.flights = peer.flights /\ y.epoch = peer.epoch
          /\ y.seq = (IF k = "bad" \/ (cfg.v13 /\ k = "ccs") THEN peer.seq ELSE peer.seq + 1)
          /\ DOMAIN y = {"queue", "epoch", "seq", "sent", "hellos", "flights", "fins", "half",
                         "bad", "eof", "reset", "reads"}
      BY <1>1 DEF PeerNext, PeerType
    <3>2. PICK b \in BOOLEAN : b = (cfg.v13 /\ k \in {"ku", "kur"})
      OBVIOUS
    <3>3. peer' = IF b THEN Rekey(x) ELSE x
      BY <2>1, <3>2
    <3> HIDE DEF y
    <3>4. x = [y EXCEPT !.sent = peer.sent + 1, !.queue = Append(peer.queue, PeerRecord(k)),
                        !.half = h, !.bad = d]
      BY <3>1
    <3> HIDE DEF x, h, d
    <3>5. /\ x.hellos = peer.hellos /\ x.flights = peer.flights /\ x.half = h /\ x.bad = d
          /\ x.queue = Append(peer.queue, PeerRecord(k)) /\ x.epoch = peer.epoch
          /\ x.seq = y.seq /\ DOMAIN x = DOMAIN y
      BY <3>1, <3>4
    <3>6. DOMAIN x = DOMAIN peer
      BY <1>1, <3>1, <3>5 DEF PeerType
    <3>7. /\ peer'.queue = x.queue /\ peer'.hellos = x.hellos /\ peer'.flights = x.flights
          /\ peer'.half = x.half /\ peer'.bad = x.bad
          /\ IF b THEN peer'.epoch = x.epoch + 1 /\ peer'.seq = 0
             ELSE peer'.epoch = x.epoch /\ peer'.seq = x.seq
      BY <1>1, <3>3, <3>6, RekeyedPeer
    <3>8. (peer'.half <=> h) /\ (peer'.bad <=> d)
      BY <3>5, <3>7
    <3>9. /\ peer'.half <=> (k = "half" \/ (peer.half /\ k # "rest"))
          /\ peer'.bad <=> \/ peer.bad \/ k = "bad" \/ (k = "ccs" /\ ~cfg.v13)
                           \/ (k = "tickets" /\ ~cfg.client)
      BY <3>8 DEF h, d
    <3> QED
      BY <3>1, <3>2, <3>5, <3>7, <3>9
  <2>4. PICK r \in Records(TheirKinds) :
          r = PeerRecord(k) /\ r.k = k /\ r.e = peer.epoch /\ r.s = peer.seq
    BY <1>5, <2>2
  <2>5. Once'
    <3>1. k \in {"ku", "kur", "half"} /\ cfg.client => peer.flights # 0
      BY <1>2, <2>1 DEF PeerDone, AlertKinds
    <3>2. ASSUME cfg.v13
          PROVE  /\ peer'.flights <= peer'.hellos /\ peer'.hellos <= Sent("hello")
                 /\ cfg.client => /\ peer'.hellos = 0 => peer'.epoch = 0
                                  /\ peer'.flights = 0 /\ peer'.hellos # 0 => peer'.epoch = 1
                                  /\ peer'.half => peer'.flights # 0
      BY <1>2, <1>3, <2>3, <3>1, <3>2
    <3> QED
      BY <1>4, <3>2
  <2>6. ASSUME ~peer'.bad
        PROVE  Continues(r, Upcoming') /\ Resumes(r.k, Upcoming') /\ r.k # "bad"
               /\ (cfg.v13 => Placed(r.k, r.e))
    <3>1. k # "bad" /\ (k = "ccs" => cfg.v13) /\ (k = "tickets" => cfg.client)
      BY <2>3, <2>6
    <3>2. Continues(r, Upcoming')
      BY <1>6, <2>2, <2>3, <2>4, <3>1 DEF Continues, Rekeys
    <3>3. Resumes(r.k, Upcoming')
      BY <1>6, <2>3, <2>4 DEF Resumes
    <3>4. Placed(r.k, r.e)
      BY <2>2, <2>4, <3>1 DEF Placed
    <3> QED
      BY <2>4, <3>1, <3>2, <3>3, <3>4
  <2>7. InLine /\ ~peer'.bad =>
                  /\ Linked(Stream)' /\ Awaited(Stream[1])'
                  /\ \A n \in DOMAIN peer'.queue :
                       /\ peer'.queue[n].k # "bad"
                       /\ cfg.v13 => Placed(peer'.queue[n].k, peer'.queue[n].e)
    <3>1. cfg.v13 /\ peer.half => r.k = "rest" \/ Messages(r.k) = <<>>
      BY <2>1, <2>4
    <3> QED
      BY <1>1, <2>3, <2>4, <2>6, <3>1, PeerAdds
  <2> QED
    BY <2>3, <2>5, <2>7, PeerStepOpen
<1>10. CASE PeerStopsReading \/ PeerCloses
  <2>1. /\ peer'.queue = peer.queue /\ peer'.epoch = peer.epoch /\ peer'.seq = peer.seq
        /\ peer'.half = peer.half /\ peer'.bad = peer.bad /\ peer'.hellos = peer.hellos
        /\ peer'.flights = peer.flights
    BY <1>1, <1>10 DEF PeerStopsReading, PeerCloses, PeerType
  <2>2. Once'
    BY <1>3, <1>4, <2>1
  <2>3. InLine => /\ Linked(Stream)' /\ Awaited(Stream[1])'
                  /\ \A n \in DOMAIN peer'.queue :
                       /\ peer'.queue[n].k # "bad"
                       /\ cfg.v13 => Placed(peer'.queue[n].k, peer'.queue[n].e)
    <3> SUFFICES ASSUME InLine
                 PROVE  /\ Linked(Stream)' /\ Awaited(Stream[1])'
                        /\ \A n \in DOMAIN peer'.queue :
                             /\ peer'.queue[n].k # "bad"
                             /\ cfg.v13 => Placed(peer'.queue[n].k, peer'.queue[n].e)
      OBVIOUS
    <3>1. Linked(Stream)' /\ Awaited(Stream[1])'
      BY <1>1, <2>1, SameLine
    <3> QED
      BY <2>1, <3>1 DEF InLine
  <2> QED
    BY <2>1, <2>2, <2>3, PeerStepOpen
<1>11. CASE PeerFinished
  <2>1. ~cfg.v13
    BY <1>11 DEF PeerFinished
  <2>2. Once'
    BY <1>4, <2>1
  <2>3. PICK e \in Nat, z \in Nat, o \in Nat : e = peer.epoch + 1 /\ z = 0 /\ o = 1
    BY <1>2
  <2>4. PICK a \in Records(TheirKinds) :
          a = PeerRecord("ccs") /\ a.k = "ccs" /\ a.e = peer.epoch /\ a.s = peer.seq
    BY <1>5 DEF TheirKinds, Kinds
  <2>5. PICK b \in Records(TheirKinds) :
          b = [k |-> "fin", e |-> e, s |-> z] /\ b.k = "fin" /\ b.e = e /\ b.s = 0
    <3>1. [k |-> "fin", e |-> e, s |-> z] \in Records(TheirKinds)
      BY DEF Records, TheirKinds
    <3> QED
      BY <2>3, <3>1
  <2>6. /\ peer'.queue = peer.queue \o <<a, b>> /\ peer'.epoch = e /\ peer'.seq = o
        /\ peer'.half = peer.half /\ peer'.bad = peer.bad
    BY <1>1, <1>11, <2>3, <2>4, <2>5 DEF PeerFinished, PeerType
  <2>7. PICK w \in Records(TheirKinds) : w.e = e /\ w.s = 0
    BY <2>5
  <2>8. PICK v \in Records(TheirKinds) : v = Upcoming' /\ v.e = e /\ v.s = 1
    <3>1. PICK k \in TheirKinds : k = IF peer'.half THEN "rest" ELSE "sh"
      BY DEF TheirKinds, Kinds
    <3>2. Upcoming' = [k |-> k, e |-> e, s |-> o]
      BY <2>6, <3>1 DEF Upcoming
    <3>3. [k |-> k, e |-> e, s |-> o] \in Records(TheirKinds)
      BY <3>1 DEF Records
    <3> QED
      BY <2>3, <3>2, <3>3
  <2>9. \A k, n : Resumes(k, n)
    BY <2>1 DEF Resumes
  <2>10. Continues(a, w) /\ Continues(b, v)
    <3>1. Continues(a, w)
      BY <2>1, <2>3, <2>4, <2>7 DEF Continues, Rekeys
    <3>2. Continues(b, v)
      BY <2>1, <2>3, <2>5, <2>8 DEF Continues, Rekeys
    <3> QED
      BY <3>1, <3>2
  <2> DEFINE R == Records(TheirKinds)
  <2>11. /\ peer.queue \in Seq(R) /\ a \in R /\ b \in R /\ w \in R /\ v \in R
         /\ Upcoming \in R /\ Upcoming.e = a.e /\ Upcoming.s = a.s
    BY <1>1, <2>4, PeerTypes, StreamFacts DEF Upcoming
  <2> HIDE DEF R
  <2>12. PICK c \in Seq(R) : c = Append(peer.queue, a)
    <3>1. Append(peer.queue, a) \in Seq(R)
      BY <2>11
    <3> QED
      BY <3>1
  <2>13. peer'.queue = Append(c, b)
    BY <2>6, <2>11, <2>12
  <2>14. ASSUME InLine
         PROVE  Linked(Append(peer'.queue, v)) /\ Awaited(Append(peer'.queue, v)[1])
    <3>1. Linked(Append(peer.queue, Upcoming)) /\ Awaited(Append(peer.queue, Upcoming)[1])
      BY <2>14 DEF InLine, Stream
    <3>2. Linked(Append(c, w)) /\ Awaited(Append(c, w)[1])
      BY <2>9, <2>10, <2>11, <2>12, <3>1, LinkAppend
    <3>3. b.e = w.e /\ b.s = w.s
      BY <2>5, <2>7
    <3> QED
      BY <2>9, <2>10, <2>11, <2>13, <3>2, <3>3, LinkAppend
  <2>15. ASSUME NEW n \in DOMAIN peer'.queue
         PROVE  \/ n \in DOMAIN peer.queue /\ peer'.queue[n] = peer.queue[n]
                \/ peer'.queue[n] \in {a, b}
    <3>1. ASSUME NEW m \in DOMAIN c
          PROVE  (m \in DOMAIN peer.queue /\ c[m] = peer.queue[m]) \/ c[m] = a
      BY <2>11, <2>12, <3>1
    <3>2. (n \in DOMAIN c /\ peer'.queue[n] = c[n]) \/ peer'.queue[n] = b
      BY <2>11, <2>13, <2>15
    <3> QED
      BY <3>1, <3>2
  <2>16. InLine => /\ Linked(Stream)' /\ Awaited(Stream[1])'
                   /\ \A n \in DOMAIN peer'.queue :
                        /\ peer'.queue[n].k # "bad"
                        /\ cfg.v13 => Placed(peer'.queue[n].k, peer'.queue[n].e)
    <3> SUFFICES ASSUME InLine
                 PROVE  /\ Linked(Stream)' /\ Awaited(Stream[1])'
                        /\ \A n \in DOMAIN peer'.queue : peer'.queue[n].k # "bad"
      BY <2>1
    <3>1. Stream' = Append(peer'.queue, v)
      BY <2>8 DEF Stream
    <3>2. Linked(Stream)' /\ Awaited(Stream[1])'
      BY <1>1, <2>14, <3>1 DEF Linked, Awaited, Continues, Resumes, Rekeys
    <3> QED
      BY <2>4, <2>5, <2>15, <3>2 DEF InLine
  <2> QED
    BY <2>2, <2>6, <2>16, PeerStepOpen
<1> QED
  BY <1>7, <1>8, <1>9, <1>10, <1>11 DEF Peer

-----------------------------------------------------------------------------
(* The invariant of the records *)

\* Nothing has been sent or read on a new Conn.
LEMMA InitOpen ==
  ASSUME Init
  PROVE  OpenInv
<1>1. /\ in.hand = <<>> /\ in.epoch = 0 /\ in.seq = 0 /\ in.err = "none" /\ out.err = "none"
      /\ out.sendBuf = <<>> /\ wire = <<>> /\ peer.queue = <<>> /\ peer.epoch = 0 /\ peer.seq = 0
      /\ peer.hellos = 0 /\ peer.flights = 0 /\ ~peer.half /\ cfg \in Cases
      /\ (complete <=> ~cfg.client)
  BY DEF Init
<1>2. \A p \in Procs : /\ th[p].op = "none" /\ th[p].pc = "idle" /\ th[p].stage = "none"
                       /\ ~th[p].reneg /\ th[p].alert = "none"
  BY DEF Init, Idle
<1>3. Sent("hello") = 0
  <2>1. {n \in DOMAIN wire : wire[n].k = "hello"} = {}
    BY <1>1
  <2> QED
    BY <2>1, FS_EmptySet DEF Sent
<1>4. Sober
  BY <1>1, <1>2 DEF Sober, Reads
<1>5. Once
  <2>1. cfg.client \in BOOLEAN
    BY <1>1, ConnAssumption DEF Case
  <2> QED
    BY <1>1, <1>3, <2>1 DEF Once
<1>6. InLine
  <2>1. Stream = <<Upcoming>> /\ Upcoming.e = 0 /\ Upcoming.s = 0
    BY <1>1 DEF Stream, Upcoming
  <2>2. Len(Stream) = 1 /\ Stream[1] = Upcoming
    BY <2>1
  <2>3. Linked(Stream)
    BY <2>2 DEF Linked
  <2>4. <<>> # <<"half">> /\ <<>> # <<"ticket", "ticket">>
    <3>1. Len(<<>>) = 0 /\ Len(<<"half">>) = 1 /\ Len(<<"ticket", "ticket">>) = 2
      OBVIOUS
    <3> QED
      BY <3>1
  <2>5. Awaited(Stream[1])
    BY <1>1, <2>1, <2>2, <2>4 DEF Awaited
  <2>6. InUse
    BY <1>1, <2>4 DEF InUse
  <2>7. ~(cfg.client /\ (complete \/ \E p \in Procs : Spent(th[p])))
    BY <1>1, <1>2 DEF Spent
  <2> QED
    BY <1>1, <2>3, <2>5, <2>6, <2>7 DEF InLine
<1> QED
  BY <1>4, <1>5, <1>6 DEF OpenInv

\* Every step preserves it.
LEMMA NextOpen ==
  ASSUME IInv, OpenInv, [Next]_vars
  PROVE  OpenInv'
<1>1. ASSUME NEW p \in Procs, Step(p)
      PROVE  OpenInv'
  BY <1>1, MovesOpen, CallsOpen, ContextOpen, SendOpen, BeginsOpen, FlushOpen, RecordOpen,
     ErrorOpen, LoopOpen, MessageOpen
     DEF Step
<1>2. ASSUME NEW p \in Procs, Interrupt(p) \/ Cancel(p) \/ UNCHANGED vars
      PROVE  OpenInv'
  <2>1. UNCHANGED <<cfg, complete, handshakeErr, lock, out, in, wire, peer, th>>
    BY <1>2 DEF Interrupt, Cancel, vars, shake
  <2> QED
    BY <2>1, StillOpen
<1>3. CASE UNCHANGED vars
  <2>1. UNCHANGED <<cfg, complete, handshakeErr, lock, out, in, wire, peer, th>>
    BY <1>3 DEF vars, shake
  <2> QED
    BY <2>1, StillOpen
<1> QED
  BY <1>1, <1>2, <1>3, CallsOpen, PeerOpen DEF Next

\* The reader and the peer agree on key and number of every record in flight, as long
\* as the peer keeps to the protocol and somebody may still read.
THEOREM RecordsInLine == Spec => []OpenInv
<1>1. Init => OpenInv
  BY InitOpen
<1>2. IInv /\ OpenInv /\ [Next]_vars => OpenInv'
  BY NextOpen
<1> QED
  BY <1>1, <1>2, ConnInvariant, PTL DEF Spec

\* A peer that keeps to the protocol is never answered with bad_record_mac: whoever
\* reads, and whichever goroutine has changed the reading key before, a record is
\* opened with the key and the number it was sealed with.
THEOREM HonestPeerIsRead == Spec => []HonestRecordsOpen
<1>1. OpenInv => HonestRecordsOpen
  BY DEF OpenInv, Sober, HonestRecordsOpen
<1> QED
  BY <1>1, RecordsInLine, PTL

-----------------------------------------------------------------------------
(* Our own keys *)

\* The epoch of what we send after r.
Turns(r, e) ==
  IF LastOfItsKey(r) THEN e = r.e + 1
  ELSE e = r.e \/ (r.k = "hello" /\ cfg.v13 /\ e = r.e + 1)

Turning(sq) == \A n \in 1 .. Len(sq) - 1 : Turns(sq[n], sq[n + 1].e)

\* The epoch and the number of the next record that reaches the peer.
Follows(e, s) == IF wire = <<>> THEN e = 0 /\ s = 0 ELSE Turns(wire[Len(wire)], e)

Keyed ==
  /\ wire # <<>> => wire[1].e = 0 /\ wire[1].s = 0
  /\ Turning(wire) /\ Turning(out.sendBuf)
  /\ out.sendBuf # <<>> => Turns(out.sendBuf[Len(out.sendBuf)], out.epoch)
  /\ ~SockFails =>
       /\ out.sendBuf # <<>> => Follows(out.sendBuf[1].e, out.sendBuf[1].s)
       /\ out.sendBuf = <<>> /\ lock.out = Free => Follows(out.epoch, out.seq)
       /\ \A p \in Procs : th[p].pc = "sock" => Follows(th[p].chunk[1].e, th[p].chunk[1].s)
  /\ \A p \in Procs : th[p].pc = "sock" => th[p].chunk[1].e = out.epoch

\* The goroutine waits for the ServerHello.
Hailing(t) == t.stage = "sh" /\ t.pc \in {"rec", "use"}

\* Before TLS 1.3 is complete nobody but the one who shakes hands sends.
Alone13 ==
  cfg.v13 =>
    /\ ~complete => \A p \in Procs :
         AtSend(th[p]) /\ th[p].send \in {"data", "close_notify"} =>
           th[p].pc = "out" /\ th[p].send = "data"
    /\ \A p \in Procs : AtSend(th[p]) => th[p].send # "ccs"
    /\ ~SockFails => \A p \in Procs :
         Hailing(th[p]) => wire # <<>> /\ wire[Len(wire)].k = "hello"

\* How far the handshake of the goroutine has come.
Early(t) == t.pc = "hs_in" \/ t.stage = "sh"
Midway(t) == t.stage = "flight" /\ t.pc \in {"rec", "use"}
Ending(t) == t.stage = "flight" /\ AtSend(t) /\ t.send = "fin"
Ended(t) == t.stage = "flight" /\ t.pc \in {"flush", "flushing"}

\* The epochs of both halves in TLS 1.3.
Epochs ==
  cfg.v13 =>
    /\ ~complete /\ ~handshakeErr /\ lock.hs = Free => in.epoch = 0 /\ out.epoch = 0
    /\ \A p \in Procs :
         /\ Early(th[p]) => in.epoch = 0 /\ out.epoch = 0
         /\ Midway(th[p]) => in.epoch = 1 /\ out.epoch = 1
         /\ Ending(th[p]) => in.epoch = 2 /\ out.epoch = 1
         /\ Ended(th[p]) => in.epoch = 2 /\ out.epoch = 2
    /\ complete /\ out.err = "none" =>
         LET e == IF \E p \in Procs : Answering(p) THEN out.epoch + 1 ELSE out.epoch
         IN  e <= in.epoch /\ ("ku" \notin cfg.kinds => e = in.epoch)

\* A peer that always asks for our update.
Asked ==
  "ku" \notin cfg.kinds =>
    in.hand \in Seq(Pieces \ {"ku"}) /\ peer.queue \in Seq(Records(TheirKinds \ {"ku"}))

OutInv == Epochs /\ Alone13 /\ Keyed

KeyInv == Asked /\ OutInv

-----------------------------------------------------------------------------
(* Steps that send nothing *)

\* The goroutine has an answer to a KeyUpdate to send.
Owes(t) == AtSend(t) /\ t.send = "ku"

\* The step leaves alone what is sent and what is going to be.
Unsent(p, t) ==
  /\ UNCHANGED <<cfg, wire>> /\ lock'.out = lock.out /\ (SockFails => SockFails')
  /\ out'.sendBuf = out.sendBuf /\ out'.epoch = out.epoch /\ out'.seq = out.seq
  /\ th[p].pc # "sock" /\ t.pc # "sock"
  /\ cfg.v13 => /\ complete => complete'
                /\ t.pc = "out" => /\ t.send = "close_notify" => complete
                                   /\ t.send = "ccs" => th[p].pc = "out" /\ th[p].send = "ccs"
                /\ Hailing(t) => Hailing(th[p])

\* The step changes no key, and takes the goroutine to no place that says another one.
Unturned(p, t) ==
  /\ cfg' = cfg
  /\ cfg.v13 =>
       /\ (complete' <=> complete) /\ in'.epoch = in.epoch /\ out'.epoch = out.epoch
       /\ out'.err = out.err \/ out'.err # "none"
       /\ ~complete /\ ~handshakeErr' /\ lock'.hs = Free => ~handshakeErr /\ lock.hs = Free
       /\ (Owes(t) <=> Owes(th[p])) \/ out'.err # "none"
       /\ Early(t) => Early(th[p]) \/ (~complete /\ ~handshakeErr /\ lock.hs = Free)
       /\ Midway(t) => Midway(th[p])
       /\ Ending(t) => Ending(th[p])
       /\ Ended(t) => Ended(th[p])

\* An Unsent step keeps the order of the records.
LEMMA UnsentLemma ==
  ASSUME IInv, Alone13, Keyed, NEW p \in Procs, NEW t, Moves(p, t), Unsent(p, t)
  PROVE  Alone13' /\ Keyed'
<1>1. th'[p] = t /\ \A q \in Procs : q # p => th'[q] = th[q]
  BY DEF Moves, IInv, Typed
<1>2. Alone13'
  <2> SUFFICES ASSUME cfg.v13 PROVE Alone13'
    BY DEF Alone13, Unsent
  <2>1. ASSUME ~complete', NEW q \in Procs, AtSend(th'[q]),
               th'[q].send \in {"data", "close_notify"}
        PROVE  th'[q].pc = "out" /\ th'[q].send = "data"
    BY <1>1, <2>1 DEF Alone13, Unsent, AtSend
  <2>2. ASSUME ~SockFails', NEW q \in Procs, Hailing(th'[q])
        PROVE  wire' # <<>> /\ wire'[Len(wire')].k = "hello"
    BY <1>1, <2>2 DEF Alone13, Unsent
  <2>3. ASSUME NEW q \in Procs, AtSend(th'[q])
        PROVE  th'[q].send # "ccs"
    BY <1>1, <2>3 DEF Alone13, Unsent, AtSend
  <2> QED
    BY <2>1, <2>2, <2>3 DEF Alone13
<1>3. \A r, e : Turns(r, e)' <=> Turns(r, e)
  BY DEF Turns, LastOfItsKey, Unsent
<1>4. Keyed'
  <2>1. /\ wire' # <<>> => wire'[1].e = 0 /\ wire'[1].s = 0
        /\ Turning(wire)' /\ Turning(out.sendBuf)'
        /\ out'.sendBuf # <<>> => Turns(out.sendBuf[Len(out.sendBuf)], out.epoch)'
    BY <1>3 DEF Keyed, Turning, Unsent
  <2>2. \A e, s : Follows(e, s)' <=> Follows(e, s)
    BY <1>3 DEF Follows, Unsent
  <2>3. \A q \in Procs : th'[q].pc = "sock" => th[q].pc = "sock" /\ th'[q].chunk = th[q].chunk
    BY <1>1 DEF Unsent
  <2> QED
    BY <2>1, <2>2, <2>3 DEF Keyed, Unsent
<1> QED
  BY <1>2, <1>4

\* An Unturned step keeps the epochs in step.
LEMMA UnturnedLemma ==
  ASSUME IInv, Epochs, NEW p \in Procs, NEW t, Moves(p, t), Unturned(p, t)
  PROVE  Epochs'
<1> SUFFICES ASSUME cfg.v13 PROVE Epochs'
  BY DEF Epochs, Unturned
<1>1. th'[p] = t /\ \A q \in Procs : q # p => th'[q] = th[q]
  BY DEF Moves, IInv, Typed
<1>2. ~complete' /\ ~handshakeErr' /\ lock'.hs = Free => in'.epoch = 0 /\ out'.epoch = 0
  BY DEF Epochs, Unturned
<1>3. ASSUME NEW q \in Procs
      PROVE  /\ Early(th'[q]) => in'.epoch = 0 /\ out'.epoch = 0
             /\ Midway(th'[q]) => in'.epoch = 1 /\ out'.epoch = 1
             /\ Ending(th'[q]) => in'.epoch = 2 /\ out'.epoch = 1
             /\ Ended(th'[q]) => in'.epoch = 2 /\ out'.epoch = 2
  BY <1>1 DEF Epochs, Unturned
<1>4. out'.err = "none" => ((\E q \in Procs : Answering(q)') <=> \E q \in Procs : Answering(q))
  BY <1>1 DEF Answering, Owes, AtSend, Unturned
<1> QED
  BY <1>2, <1>3, <1>4 DEF Epochs, Unturned

\* Nobody moves, and nothing is sent.
LEMMA UnmovedLemma ==
  ASSUME Alone13, Keyed, SockFails => SockFails',
         UNCHANGED <<cfg, complete, handshakeErr, lock, out, wire, th>>
  PROVE  Alone13' /\ Keyed' /\ (Epochs /\ in'.epoch = in.epoch => Epochs')
<1>1. Alone13' /\ (Epochs /\ in'.epoch = in.epoch => Epochs')
  BY DEF Epochs, Answering, Alone13
<1>2. Keyed'
  BY DEF Keyed, Turning, Follows, Turns, LastOfItsKey
<1> QED
  BY <1>1, <1>2

\* What a step that sends nothing and changes no key leaves alone, apart from goroutines.
Silent ==
  /\ UNCHANGED <<cfg, wire>> /\ lock'.out = lock.out /\ (SockFails => SockFails')
  /\ out'.sendBuf = out.sendBuf /\ out'.epoch = out.epoch /\ out'.seq = out.seq
  /\ out'.err = out.err \/ out'.err # "none"
  /\ cfg.v13 =>
       /\ (complete' <=> complete) /\ in'.epoch = in.epoch
       /\ ~complete /\ ~handshakeErr' /\ lock'.hs = Free => ~handshakeErr /\ lock.hs = Free

\* A goroutine moves on with the same record and stage.
LEMMA GoKeys ==
  ASSUME IInv, OutInv, NEW p \in Procs, NEW t, Moves(p, t), NEW l, NEW c, Silent,
         Is(t, th[p].op, l, th[p].send, th[p].stage, th[p].reneg, th[p].alert, th[p].inerr, c),
         th[p].pc # "sock", l \notin {"out", "sock"},
         l = "hs_in" => ~complete /\ ~handshakeErr /\ lock.hs = Free,
         cfg.v13 /\ l \in {"rec", "use"} =>
           th[p].pc \in {"rec", "use"} \/ th[p].stage \notin {"sh", "flight"},
         l \in {"flush", "flushing"} => th[p].pc \in {"flush", "flushing"},
         th[p].pc = "out" /\ th[p].send = "ku" => out'.err # "none"
  PROVE  OutInv'
<1>1. Unsent(p, t)
  BY DEF Unsent, Silent, Is, Hailing
<1>2. Unturned(p, t)
  BY DEF Unturned, Silent, Is, Owes, AtSend, Early, Midway, Ending, Ended
<1> QED
  BY <1>1, <1>2, UnsentLemma, UnturnedLemma DEF OutInv

\* A goroutine enters or leaves its handshake, or sends an alert.
LEMMA TurnKeys ==
  ASSUME IInv, OutInv, NEW p \in Procs, NEW t, Moves(p, t), Silent,
         th[p].pc \notin {"out", "sock"}, t.pc # "sock",
         cfg.v13 =>
           /\ t.pc = "out" => \/ t.send \in {"data", "hello", "alert"}
                              \/ t.send = "close_notify" /\ complete
           /\ t.pc = "hs_in" => Early(th[p])
           /\ \/ t.stage \in {"none", "failed"}
              \/ t.stage = "sh" /\ t.pc = "out" /\ Early(th[p])
              \/ t.stage = th[p].stage /\ t.pc = "out"
  PROVE  OutInv'
<1>1. Unsent(p, t)
  BY DEF Unsent, Silent, Hailing
<1>2. Unturned(p, t)
  BY DEF Unturned, Silent, Owes, AtSend, Early, Midway, Ending, Ended
<1> QED
  BY <1>1, <1>2, UnsentLemma, UnturnedLemma DEF OutInv

\* A call begins or returns.
LEMMA CallsKeys ==
  ASSUME IInv, OutInv, NEW p \in Procs, Begin(p) \/ Return(p)
  PROVE  OutInv'
<1>1. th \in [Procs -> Thread]
  BY DEF IInv, Typed
<1>2. /\ UNCHANGED <<cfg, complete, handshakeErr, lock, out, in, sock, deadline, wire, peer>>
      /\ th[p].pc \in {"idle", "end"}
  BY DEF Begin, Return, Write, Close, CloseWrite, Read, HandshakeContext, ConnectionState, Call,
         Called, At, shake
<1>3. Silent
  BY <1>2 DEF Silent, SockFails
<1>4. ASSUME NEW t, Moves(p, t), t.pc \in {"idle", "hs_fast", "load", "shut", "state"},
             t.stage = "none"
      PROVE  OutInv'
  BY <1>2, <1>3, <1>4, TurnKeys
<1>5. ASSUME NEW o \in Calling, NEW l \in {"hs_fast", "load", "shut", "state"},
             th' = [th EXCEPT ![p] = [Idle EXCEPT !.op = o, !.pc = l]]
      PROVE  OutInv'
  <2>1. PICK t : Moves(p, t) /\ Is(t, o, l, "none", "none", FALSE, "none", FALSE, <<>>)
    BY <1>1, <1>5, BeginMoves DEF Places
  <2> QED
    BY <1>4, <2>1 DEF Is
<1>6. CASE Return(p)
  <2>1. Moves(p, Idle)
    BY <1>6, IdleThread DEF Return, Moves
  <2>2. Idle.pc = "idle" /\ Idle.stage = "none"
    BY DEF Idle
  <2> QED
    BY <1>4, <2>1, <2>2
<1>7. CASE UNCHANGED th
  BY <1>2, <1>3, <1>7, UnmovedLemma DEF OutInv, Silent
<1>8. CloseGoesTo \in {"load", "shut"}
  BY DEF CloseGoesTo
<1> QED
  BY <1>5, <1>6, <1>7, <1>8
     DEF Begin, Write, Close, CloseWrite, Read, HandshakeContext, ConnectionState, Call, Calling

\* The steps of a goroutine that only move it on.
LEMMA MovesKeys ==
  ASSUME IInv, OpenInv, OutInv, NEW p \in Procs,
         \/ GetState(p) \/ LoadComplete(p) \/ Shut(p) \/ SendRefused(p) \/ SealFails(p)
         \/ HandshakeDone(p) \/ HandshakeResult(p) \/ ReadLock(p) \/ Fail(p) \/ ReadError(p)
  PROVE  OutInv'
<1>1. /\ th \in [Procs -> Thread] /\ lock \in LockState /\ out \in OutState /\ in \in InState
  BY DEF IInv, Typed, TypeOK
<1>2. /\ UNCHANGED <<cfg, complete, handshakeErr, deadline, wire, peer>>
      /\ sock' \in {sock, "closed"}
  BY DEF GetState, LoadComplete, Shut, SendRefused, SealFails, HandshakeDone, HandshakeResult,
         ReadLock, Fail, ReadError, shake
<1>3. /\ out'.sendBuf = out.sendBuf /\ out'.epoch = out.epoch /\ out'.seq = out.seq
      /\ out'.err = out.err \/ out'.err # "none"
      /\ SealFails(p) => out'.err # "none"
  <2>1. \/ out' = out /\ ~SealFails(p)
        \/ out' = out /\ ~(th[p].pc = "out")
        \/ out' = [out EXCEPT !.err = "padding"]
        \/ out' = out /\ SendRefused(p)
    BY DEF GetState, LoadComplete, Shut, SendRefused, SealFails, HandshakeDone, HandshakeResult,
           ReadLock, Fail, ReadError, At
  <2>2. SealFails(p) => out' = [out EXCEPT !.err = "padding"]
    BY DEF SealFails
  <2> QED
    BY <1>1, <2>1, <2>2 DEF OutState
<1>4. lock'.hs = lock.hs /\ lock'.out = lock.out
  <2>1. lock' = lock \/ lock' = [lock EXCEPT !.in = p] \/ lock' = [lock EXCEPT !.in = Free]
    BY DEF GetState, LoadComplete, Shut, SendRefused, SealFails, HandshakeDone, HandshakeResult,
           ReadLock, Fail, ReadError
  <2> QED
    BY <1>1, <2>1 DEF LockState
<1>5. in'.epoch = in.epoch
  <2>1. in' = in \/ \E x : in' = [in EXCEPT !.err = x]
    BY DEF GetState, LoadComplete, Shut, SendRefused, SealFails, HandshakeDone, HandshakeResult,
           ReadLock, Fail, ReadError
  <2> QED
    BY <1>1, <2>1 DEF InState
<1>6. Silent
  BY <1>2, <1>3, <1>4, <1>5 DEF Silent, SockFails
<1>7. CASE LoadComplete(p) /\ complete
  <2>1. PICK t : /\ Moves(p, t)
                 /\ Is(t, th[p].op, "out", "close_notify", th[p].stage, th[p].reneg,
                       th[p].alert, th[p].inerr, th[p].chunk)
    BY <1>1, <1>7, SendingMoves DEF LoadComplete, OutKinds
  <2>2. th[p].pc = "load"
    BY <1>7 DEF LoadComplete, At
  <2> QED
    BY <1>6, <1>7, <2>1, <2>2, TurnKeys DEF Is
<1>8. ASSUME ~(LoadComplete(p) /\ complete)
      PROVE  OutInv'
  <2>1. PICK l \in {"end", "shut", "use", "hs_wait", "loop", "hs_fail", "fail"} :
          /\ Go(p, l) /\ th[p].pc # "sock"
          /\ l = "use" => SealFails(p)
          /\ th[p].pc = "out" => SealFails(p) \/ th[p].send \in {"data", "close_notify"}
    <3>1. CASE LoadComplete(p)
      BY <1>8, <3>1 DEF LoadComplete, At, Go
    <3>2. CASE SendRefused(p) \/ SealFails(p)
      BY <3>2 DEF SendRefused, Refused, AfterNotify, SealFails, At
    <3>3. CASE GetState(p) \/ Shut(p) \/ HandshakeDone(p) \/ HandshakeResult(p) \/ ReadLock(p)
      BY <3>3 DEF GetState, Shut, HandshakeDone, HandshakeResult, ReadLock, At
    <3>4. CASE Fail(p) \/ ReadError(p)
      BY <3>4 DEF Fail, ReadError, At
    <3> QED
      BY <3>1, <3>2, <3>3, <3>4
  <2>2. PICK t : /\ Moves(p, t)
                 /\ Is(t, th[p].op, l, th[p].send, th[p].stage, th[p].reneg, th[p].alert,
                       th[p].inerr, th[p].chunk)
    BY <1>1, <2>1, GoMoves DEF Places
  <2>3. SealFails(p) => th[p].stage = "none"
    BY MisfitsKu, Known DEF SealFails, At, AtSend, Shape
  <2> QED
    BY <1>3, <1>6, <2>1, <2>2, <2>3, GoKeys
<1> QED
  BY <1>7, <1>8

\* The goroutine at another place and stage of its program.
Shifted(p, l, k, g, n) ==
  [th EXCEPT ![p] = [th[p] EXCEPT !.pc = l, !.send = k, !.stage = g, !.reneg = n]]

\* Such a step, if it is one of those that TurnKeys allows.
LEMMA ShiftKeys ==
  ASSUME IInv, OutInv, [Next]_vars, Silent, NEW p \in Procs, NEW l, NEW k, NEW g, NEW n,
         th' = Shifted(p, l, k, g, n), th[p].pc \notin {"out", "sock"},
         l \notin {"sock", "hs_in"},
         cfg.v13 => /\ l = "out" => k = "hello"
                    /\ g \in {"none", "failed"} \/ (g = "sh" /\ l = "out" /\ Early(th[p]))
  PROVE  OutInv'
<1> DEFINE t == [th[p] EXCEPT !.pc = l, !.send = k, !.stage = g, !.reneg = n]
<1>1. th' = [th EXCEPT ![p] = t] /\ t.pc = l /\ t.send = k /\ t.stage = g
  BY DEF IInv, Typed, Thread, Shifted
<1>2. t = th'[p]
  BY <1>1 DEF IInv, Typed
<1>3. th'[p] \in Thread
  BY NextInv DEF IInv, Typed
<1> HIDE DEF t
<1>4. Moves(p, t)
  BY <1>1, <1>2, <1>3 DEF Moves
<1> QED
  BY <1>1, <1>4, TurnKeys

\* ReadLoop, UseNothing and FlushBegins: the reader asks for the next record or returns,
\* and flush looks at what is buffered.
LEMMA LoopKeys ==
  ASSUME IInv, OpenInv, OutInv, NEW p \in Procs, ReadLoop(p) \/ UseNothing(p) \/ FlushBegins(p)
  PROVE  OutInv'
<1>1. th \in [Procs -> Thread] /\ lock \in LockState /\ in \in InState
  BY DEF IInv, Typed, TypeOK
<1>2. /\ UNCHANGED <<cfg, complete, handshakeErr, out, sock, deadline, wire, peer>>
      /\ in'.epoch = in.epoch /\ lock'.hs = lock.hs /\ lock'.out = lock.out
  <2>1. UNCHANGED <<cfg, complete, handshakeErr, out, sock, deadline, wire, peer>>
    BY DEF ReadLoop, UseNothing, FlushBegins, shake
  <2>2. in' = in \/ \E more \in BOOLEAN : in' = [in EXCEPT !.input = more]
    BY DEF ReadLoop, UseNothing, FlushBegins
  <2>3. lock' = lock \/ lock' = [lock EXCEPT !.in = Free]
    BY DEF ReadLoop, UseNothing, FlushBegins
  <2> QED
    BY <1>1, <2>1, <2>2, <2>3 DEF InState, LockState
<1>3. Silent
  BY <1>2 DEF Silent, SockFails
<1>4. ASSUME NEW l \in Places, Go(p, l), l \notin {"out", "sock", "hs_in", "flush", "flushing"},
             th[p].pc \in {"loop", "use"},
             l \in {"rec", "use"} => th[p].pc = "use" \/ th[p].stage = "none"
      PROVE  OutInv'
  <2>1. PICK t : /\ Moves(p, t)
                 /\ Is(t, th[p].op, l, th[p].send, th[p].stage, th[p].reneg, th[p].alert,
                       th[p].inerr, th[p].chunk)
    BY <1>1, <1>4, GoMoves
  <2> QED
    BY <1>3, <1>4, <2>1, GoKeys
<1>5. [Next]_vars
  BY DEF Next, Step
<1>6. CASE ReadLoop(p)
  <2>1. th[p].pc = "loop" /\ th[p].stage = "none"
    BY <1>6, Known DEF ReadLoop, At, Shape
  <2>2. CASE Go(p, "rec") \/ Go(p, "end")
    BY <1>4, <2>1, <2>2 DEF Places
  <2>3. CASE th' = [th EXCEPT ![p].pc = "rec", ![p].stage = "predict"] /\ ~cfg.v13
    <3>1. [th[p] EXCEPT !.pc = "rec", !.stage = "predict"]
            = [th[p] EXCEPT !.pc = "rec", !.send = th[p].send, !.stage = "predict",
                            !.reneg = th[p].reneg]
      BY <1>1 DEF Thread
    <3>2. th' = Shifted(p, "rec", th[p].send, "predict", th[p].reneg)
      BY <2>3, <3>1 DEF Shifted
    <3> QED
      BY <1>3, <1>5, <2>1, <2>3, <3>2, ShiftKeys
  <2> QED
    BY <1>6, <2>2, <2>3 DEF ReadLoop, AlertBuffered
<1>7. CASE UseNothing(p)
  <2>1. th[p].pc = "use"
    BY <1>7 DEF UseNothing, At
  <2>2. CASE Go(p, "loop") \/ Go(p, "rec") \/ Go(p, "end")
    BY <1>4, <2>1, <2>2 DEF Places
  <2>3. CASE th[p].stage = "ccs" /\ th' = [th EXCEPT ![p].stage = "fin"]
    <3>1. ~cfg.v13
      BY <2>3, KnownOpen
    <3>2. [th[p] EXCEPT !.stage = "fin"]
            = [th[p] EXCEPT !.pc = "use", !.send = th[p].send, !.stage = "fin",
                            !.reneg = th[p].reneg]
      BY <1>1, <2>1 DEF Thread
    <3>3. th' = Shifted(p, "use", th[p].send, "fin", th[p].reneg)
      BY <2>3, <3>2 DEF Shifted
    <3> QED
      BY <1>3, <1>5, <2>1, <3>1, <3>3, ShiftKeys
  <2> QED
    BY <1>7, <2>2, <2>3 DEF UseNothing
<1>8. CASE FlushBegins(p)
  <2>1. /\ th' = [th EXCEPT ![p].pc = "flushing", ![p].chunk = out.sendBuf]
        /\ th[p].pc = "flush"
    BY <1>8 DEF FlushBegins, At
  <2> DEFINE t == [th[p] EXCEPT !.pc = "flushing", !.chunk = out.sendBuf]
  <2>2. th' = [th EXCEPT ![p] = t]
    BY <2>1
  <2>3. Is(t, th[p].op, "flushing", th[p].send, th[p].stage, th[p].reneg, th[p].alert,
           th[p].inerr, out.sendBuf)
    BY <1>1 DEF Is, Thread
  <2>4. t = th'[p]
    BY <1>1, <2>2
  <2>5. th'[p] \in Thread
    BY NextInv DEF Next, Step, IInv, Typed
  <2> HIDE DEF t
  <2>6. Moves(p, t)
    BY <2>2, <2>4, <2>5 DEF Moves
  <2> QED
    BY <1>3, <2>1, <2>3, <2>6, GoKeys
<1> QED
  BY <1>6, <1>7, <1>8

\* The handshake is entered and left, and nothing is read or written.
LEMMA ContextKeys ==
  ASSUME IInv, OpenInv, OutInv, NEW p \in Procs,
         \/ HandshakeFast(p) \/ HandshakeLock(p) \/ HandshakeLockIn(p) \/ HandshakeSucceeds(p)
         \/ HandshakeFails(p) \/ FlushNothing(p) \/ Renegotiate(p)
  PROVE  OutInv'
<1>1. th \in [Procs -> Thread] /\ lock \in LockState
  BY DEF IInv, Typed, TypeOK
<1>2. UNCHANGED <<cfg, out, in, sock, deadline, wire, peer>>
  BY DEF HandshakeFast, HandshakeLock, HandshakeLockIn, HandshakeSucceeds, HandshakeFails,
         FlushNothing, Renegotiate
<1>3. th[p].pc \notin {"out", "sock"}
  BY DEF HandshakeFast, HandshakeLock, HandshakeLockIn, HandshakeSucceeds, HandshakeFails,
         FlushNothing, Renegotiate, At
<1>4. lock'.out = lock.out
  <2>1. \/ lock' = lock \/ lock' = [lock EXCEPT !.hs = p] \/ lock' = [lock EXCEPT !.in = p]
        \/ lock' = [lock EXCEPT !.hs = Free] \/ lock' = [lock EXCEPT !.hs = Free, !.in = Free]
    BY DEF HandshakeFast, HandshakeLock, HandshakeLockIn, HandshakeSucceeds, HandshakeFails,
           FlushNothing, Renegotiate, ReleaseBoth
  <2> QED
    BY <1>1, <2>1 DEF LockState
<1>5. cfg.v13 =>
        /\ complete' = complete
        /\ ~complete /\ ~handshakeErr' /\ lock'.hs = Free => ~handshakeErr /\ lock.hs = Free
  <2> SUFFICES ASSUME cfg.v13
               PROVE  /\ complete' = complete
                      /\ ~complete /\ ~handshakeErr' /\ lock'.hs = Free =>
                           ~handshakeErr /\ lock.hs = Free
    OBVIOUS
  <2>1. CASE HandshakeFast(p) \/ HandshakeLockIn(p)
    <3>1. UNCHANGED <<complete, handshakeErr>> /\ lock'.hs = lock.hs
      BY <1>1, <2>1 DEF HandshakeFast, HandshakeLockIn, shake, LockState
    <3> QED
      BY <3>1
  <2>2. CASE HandshakeLock(p)
    BY <1>1, <2>2, ConnAssumption DEF HandshakeLock, shake, LockState
  <2>3. CASE HandshakeSucceeds(p)
    <3>1. complete' = complete /\ complete
      BY <2>3, KnownOpen DEF HandshakeSucceeds, At, Shape, HoldsHs, Shaking
    <3> QED
      BY <3>1
  <2>4. CASE HandshakeFails(p)
    BY <2>4 DEF HandshakeFails
  <2>5. CASE FlushNothing(p)
    <3>1. UNCHANGED <<complete, handshakeErr>> /\ handshakeErr
      BY <2>5, KnownOpen DEF FlushNothing, shake, HoldsHs
    <3> QED
      BY <3>1
  <2>6. CASE Renegotiate(p)
    BY <2>6, KnownOpen DEF Renegotiate, At
  <2> QED
    BY <2>1, <2>2, <2>3, <2>4, <2>5, <2>6
<1>6. Silent
  BY <1>2, <1>4, <1>5 DEF Silent, SockFails
<1>7. th[p].op \in {"read", "write", "handshake"}
  BY KnownOpen
     DEF HandshakeFast, HandshakeLock, HandshakeLockIn, HandshakeSucceeds, HandshakeFails,
         FlushNothing, Renegotiate, At, Shape, Shaking
\* The call goes on after its handshake.
<1>8. ASSUME NEW ok \in BOOLEAN, th' = AfterHandshake(p, ok)
      PROVE  OutInv'
  <2>1. PICK t : /\ Moves(p, t)
                 /\ Is(t, th[p].op, t.pc, IF th[p].op = "write" THEN "data" ELSE "none", "none",
                      th[p].reneg, th[p].alert, th[p].inerr, th[p].chunk)
                 /\ IF Interrupted(p) THEN t.pc = "hs_done"
                    ELSE IF ~ok \/ th[p].op = "handshake" THEN t.pc = "end"
                    ELSE IF th[p].op = "read" THEN t.pc = "in" ELSE t.pc = "out"
    BY <1>1, <1>7, <1>8, AfterHandshakeMoves
  <2>2. /\ t.stage = "none" /\ t.pc \in {"hs_done", "end", "in", "out"}
        /\ t.pc = "out" => t.send = "data"
    BY <1>7, <2>1 DEF Is
  <2> QED
    BY <1>3, <1>6, <2>1, <2>2, TurnKeys
<1>9. [Next]_vars
  BY DEF Next, Step
<1>10. ASSUME NEW l \in {"hs_mutex", "hs_in"}, Go(p, l),
              l = "hs_in" => ~complete /\ ~handshakeErr /\ lock.hs = Free
       PROVE  OutInv'
  <2>1. PICK t : /\ Moves(p, t)
                 /\ Is(t, th[p].op, l, th[p].send, th[p].stage, th[p].reneg,
                       th[p].alert, th[p].inerr, th[p].chunk)
    BY <1>1, <1>10, GoMoves DEF Places
  <2> QED
    BY <1>3, <1>6, <1>10, <2>1, GoKeys
<1>11. CASE HandshakeFast(p)
  BY <1>8, <1>10, <1>11 DEF HandshakeFast
<1>12. CASE HandshakeLock(p)
  BY <1>8, <1>10, <1>12 DEF HandshakeLock
<1>13. CASE HandshakeLockIn(p)
  <2>1. th' = [th EXCEPT ![p] = [th[p] EXCEPT !.pc = "out", !.send = "hello", !.stage = "sh"]]
    BY <1>1, <1>13 DEF HandshakeLockIn, Sending
  <2>2. [th[p] EXCEPT !.pc = "out", !.send = "hello", !.stage = "sh"]
          = [th[p] EXCEPT !.pc = "out", !.send = "hello", !.stage = "sh", !.reneg = th[p].reneg]
    BY <1>1 DEF Thread
  <2>3. Early(th[p])
    BY <1>13 DEF HandshakeLockIn, At, Early
  <2>4. th' = Shifted(p, "out", "hello", "sh", th[p].reneg)
    BY <2>1, <2>2 DEF Shifted
  <2> QED
    BY <1>3, <1>6, <1>9, <2>3, <2>4, ShiftKeys
<1>14. CASE HandshakeSucceeds(p)
  <2>1. CASE th' = [th EXCEPT ![p].pc = "use", ![p].stage = "none", ![p].reneg = FALSE]
    <3>1. [th[p] EXCEPT !.pc = "use", !.stage = "none", !.reneg = FALSE]
            = [th[p] EXCEPT !.pc = "use", !.send = th[p].send, !.stage = "none", !.reneg = FALSE]
      BY <1>1 DEF Thread
    <3>2. PICK n : n = FALSE
      OBVIOUS
    <3>3. th' = Shifted(p, "use", th[p].send, "none", n)
      BY <2>1, <3>1, <3>2 DEF Shifted
    <3> QED
      BY <1>3, <1>6, <1>9, <3>3, ShiftKeys
  <2> QED
    BY <1>8, <1>14, <2>1 DEF HandshakeSucceeds
<1>15. CASE HandshakeFails(p)
  <2>1. CASE th' = [th EXCEPT ![p].pc = "fail", ![p].stage = "none", ![p].reneg = FALSE]
    <3>1. [th[p] EXCEPT !.pc = "fail", !.stage = "none", !.reneg = FALSE]
            = [th[p] EXCEPT !.pc = "fail", !.send = th[p].send, !.stage = "none", !.reneg = FALSE]
      BY <1>1 DEF Thread
    <3>2. PICK n : n = FALSE
      OBVIOUS
    <3>3. th' = Shifted(p, "fail", th[p].send, "none", n)
      BY <2>1, <3>1, <3>2 DEF Shifted
    <3> QED
      BY <1>3, <1>6, <1>9, <3>3, ShiftKeys
  <2>2. CASE th' = [th EXCEPT ![p].pc = "flush", ![p].stage = "failed"]
    <3>1. [th[p] EXCEPT !.pc = "flush", !.stage = "failed"]
            = [th[p] EXCEPT !.pc = "flush", !.send = th[p].send, !.stage = "failed",
                            !.reneg = th[p].reneg]
      BY <1>1 DEF Thread
    <3>2. th' = Shifted(p, "flush", th[p].send, "failed", th[p].reneg)
      BY <2>2, <3>1 DEF Shifted
    <3> QED
      BY <1>3, <1>6, <1>9, <3>2, ShiftKeys
  <2> QED
    BY <1>15, <2>1, <2>2 DEF HandshakeFails
<1>16. CASE FlushNothing(p)
  BY <1>8, <1>16 DEF FlushNothing
<1>17. CASE Renegotiate(p)
  <2>1. ~cfg.v13
    BY <1>17, KnownOpen DEF Renegotiate, At
  <2>2. th' = [th EXCEPT ![p] = [th[p] EXCEPT !.pc = "out", !.send = "hello", !.stage = "sh",
                                              !.reneg = TRUE]]
    BY <1>1, <1>17 DEF Renegotiate, Sending
  <2>3. PICK n : n = TRUE
    OBVIOUS
  <2>4. th' = Shifted(p, "out", "hello", "sh", n)
    BY <2>2, <2>3 DEF Shifted
  <2> QED
    BY <1>3, <1>6, <1>9, <2>1, <2>4, ShiftKeys
<1> QED
  BY <1>11, <1>12, <1>13, <1>14, <1>15, <1>16, <1>17

\* A record is read: no key changes in TLS 1.3 before its message is taken.
LEMMA RecordKeys ==
  ASSUME IInv, OpenInv, OutInv, NEW p \in Procs, ReadRecord(p)
  PROVE  OutInv'
<1> DEFINE r == Head(peer.queue)
           i == IF Skipped(r) THEN in ELSE [in EXCEPT !.seq = @ + 1]
           j == IF Useless(r) THEN i ELSE [i EXCEPT !.retry = 0]
<1>1. th \in [Procs -> Thread] /\ in \in InState /\ peer \in PeerType
  BY DEF IInv, Typed, TypeOK
<1>2. /\ th[p].pc = "rec" /\ HandleRecord(p, r) /\ peer' = [peer EXCEPT !.queue = Tail(@)]
      /\ UNCHANGED <<cfg, complete, handshakeErr, lock, out, sock, deadline, wire>>
  BY DEF ReadRecord, At, shake
<1>3. j.epoch = in.epoch
  BY <1>1 DEF InState
<1>4. \/ in' = in /\ th' = Alerting(p, "bad_mac", TRUE)
      \/ in' = j /\ th' = Alerting(p, "unexpected", TRUE)
      \/ r.k \in {"close_notify", "fatal"} /\ in' = [j EXCEPT !.err = r.k] /\ Go(p, "fail")
      \/ Retry(p, j)
      \/ ~cfg.v13 /\ Go(p, "use")
      \/ in' = [j EXCEPT !.input = TRUE] /\ Go(p, "use")
      \/ in' = [j EXCEPT !.hand = Joined(@, Messages(r.k))] /\ Go(p, "use")
  BY <1>2 DEF HandleRecord
<1>5. \A x : /\ [j EXCEPT !.err = x].epoch = j.epoch /\ [j EXCEPT !.input = x].epoch = j.epoch
             /\ [j EXCEPT !.hand = x].epoch = j.epoch /\ [j EXCEPT !.retry = x].epoch = j.epoch
  BY <1>1 DEF InState
<1> HIDE DEF j, r
<1>6. /\ cfg.v13 => in'.epoch = in.epoch
      /\ \/ \E a \in Alerts : th' = Alerting(p, a, TRUE)
         \/ \E l \in {"rec", "use", "fail"} : Go(p, l)
  <2>1. CASE Retry(p, j)
    BY <1>3, <1>5, <2>1 DEF Retry, Alerts, Go
  <2> QED
    BY <1>3, <1>4, <1>5, <2>1 DEF Alerts
<1>7. Silent
  BY <1>1, <1>2, <1>6 DEF Silent, SockFails, PeerType
<1>8. ASSUME NEW a \in Alerts, th' = Alerting(p, a, TRUE)
      PROVE  OutInv'
  <2>1. PICK t : /\ Moves(p, t)
                 /\ Is(t, th[p].op, "out", "alert", th[p].stage, th[p].reneg, a, TRUE, th[p].chunk)
    BY <1>1, <1>8, AlertingMoves
  <2> QED
    BY <1>2, <1>7, <2>1, TurnKeys DEF Is
<1>9. ASSUME NEW l \in {"rec", "use", "fail"}, Go(p, l)
      PROVE  OutInv'
  <2>1. PICK t : /\ Moves(p, t)
                 /\ Is(t, th[p].op, l, th[p].send, th[p].stage, th[p].reneg, th[p].alert,
                       th[p].inerr, th[p].chunk)
    BY <1>1, <1>9, GoMoves DEF Places
  <2> QED
    BY <1>2, <1>7, <1>9, <2>1, GoKeys
<1> QED
  BY <1>6, <1>8, <1>9

\* The messages that change no key of TLS 1.3.
LEMMA MessageKeys ==
  ASSUME IInv, OpenInv, OutInv, NEW p \in Procs,
         RejectMessage(p) \/ HelloRequest(p) \/ TakeFinished(p)
  PROVE  OutInv'
<1>1. th \in [Procs -> Thread] /\ in \in InState
  BY DEF IInv, Typed, TypeOK
<1>2. /\ th[p].pc = "use"
      /\ UNCHANGED <<cfg, handshakeErr, lock, out, sock, deadline, wire, peer>>
      /\ in' \in {Taken, Counted}
  BY DEF RejectMessage, HelloRequest, TakeFinished, Message, At, shake
<1>3. in'.epoch = in.epoch
  BY <1>1, <1>2, TakenFields
<1>4. cfg.v13 => complete' = complete
  BY <1>2, KnownOpen DEF RejectMessage, HelloRequest, TakeFinished, shake
<1>5. Silent
  BY <1>2, <1>3, <1>4 DEF Silent, SockFails
<1>6. ASSUME NEW a \in Alerts, NEW e \in BOOLEAN, th' = Alerting(p, a, e)
      PROVE  OutInv'
  <2>1. PICK t : /\ Moves(p, t)
                 /\ Is(t, th[p].op, "out", "alert", th[p].stage, th[p].reneg, a, e, th[p].chunk)
    BY <1>1, <1>6, AlertingMoves
  <2> QED
    BY <1>2, <1>5, <2>1, TurnKeys DEF Is
<1>7. ASSUME NEW l \in {"reneg", "hs_ok"}, Go(p, l)
      PROVE  OutInv'
  <2>1. PICK t : /\ Moves(p, t)
                 /\ Is(t, th[p].op, l, th[p].send, th[p].stage, th[p].reneg, th[p].alert,
                       th[p].inerr, th[p].chunk)
    BY <1>1, <1>7, GoMoves DEF Places
  <2> QED
    BY <1>2, <1>5, <1>7, <2>1, GoKeys
<1>8. CASE RejectMessage(p)
  <2>1. PICK e \in BOOLEAN : e = (cfg.v13 /\ complete /\ TooMany(in.retry + 1))
    OBVIOUS
  <2>2. th' = Alerting(p, "unexpected", e)
    BY <1>8, <2>1 DEF RejectMessage
  <2> QED
    BY <1>6, <2>2 DEF Alerts
<1>9. CASE HelloRequest(p)
  BY <1>6, <1>7, <1>9 DEF HelloRequest, Alerts
<1> QED
  BY <1>7, <1>8, <1>9 DEF TakeFinished

\* Nobody shakes hands once TLS 1.3 is complete, and one goroutine at most reads.
LEMMA Rested ==
  ASSUME IInv, OpenInv, cfg.v13, complete, NEW p \in Procs
  PROVE  /\ ~Early(th[p]) /\ ~Midway(th[p]) /\ ~Ending(th[p]) /\ ~Ended(th[p])
         /\ ~Hailing(th[p])
BY KnownOpen DEF Early, Midway, Ending, Ended, Hailing, HoldsHs, Shaking, AtSend, Shape

\* The goroutine that reads is the only one to answer a KeyUpdate.
LEMMA OneAnswers ==
  ASSUME IInv, NEW p \in Procs, HoldsIn(th[p]), NEW q \in Procs, q # p
  PROVE  ~HoldsIn(th[q]) /\ ~Answering(q)
BY Known DEF Holds, HoldsIn, Answering, AtSend

\* A KeyUpdate changes the reading key, and ours when it has been answered.
LEMMA PostHandshakeKeys ==
  ASSUME IInv, OpenInv, Asked, OutInv, NEW p \in Procs, PostHandshake(p)
  PROVE  OutInv'
<1>1. /\ th \in [Procs -> Thread] /\ in \in InState /\ in.epoch \in Nat /\ out.epoch \in Nat
  BY InTypes, OutTypes DEF IInv, Typed, TypeOK
<1>2. /\ th[p].pc = "use" /\ th[p].stage = "none" /\ cfg.v13
      /\ UNCHANGED <<cfg, complete, handshakeErr, lock, out, sock, deadline, wire, peer>>
  BY DEF PostHandshake, Message, At, shake
<1>3. complete
  <2>1. th[p].op = "read"
    BY <1>2, KnownOpen DEF Shape, Shaking
  <2> QED
    BY <1>2, <2>1, KnownOpen DEF Reads
<1>4. \A q \in Procs : /\ ~Early(th[q]) /\ ~Midway(th[q]) /\ ~Ending(th[q]) /\ ~Ended(th[q])
  BY <1>2, <1>3, Rested
<1>5. \A q \in Procs : ~Answering(q)
  BY <1>2, OneAnswers DEF HoldsIn, Answering
<1>6. \/ in' = Counted /\ UNCHANGED th
      \/ in' = Rekey(Counted) /\ UNCHANGED th /\ Head(in.hand) = "ku" /\ in.hand # <<>>
      \/ in' = Rekey(Counted) /\ th' = Sending(p, "ku")
  BY DEF PostHandshake, Message, NextReadKey
<1>7. SockFails => SockFails'
  BY <1>2 DEF SockFails
<1>8. CASE in' = Counted /\ UNCHANGED th
  <2>1. in'.epoch = in.epoch
    BY <1>1, <1>8, TakenFields
  <2> QED
    BY <1>2, <1>7, <1>8, <2>1, UnmovedLemma DEF OutInv
<1>9. CASE in' = Rekey(Counted) /\ UNCHANGED th /\ Head(in.hand) = "ku" /\ in.hand # <<>>
  <2>1. in'.epoch = in.epoch + 1
    BY <1>1, <1>9, TakenFields
  <2>2. "ku" \in cfg.kinds
    <3> SUFFICES ASSUME in.hand \in Seq(Pieces \ {"ku"}) PROVE FALSE
      BY DEF Asked
    <3>1. in.hand[1] \in Pieces \ {"ku"} /\ Head(in.hand) = in.hand[1]
      BY <1>9
    <3> QED
      BY <1>9, <3>1
  <2>3. Epochs'
    <3>1. \A q \in Procs : ~Answering(q)'
      BY <1>5, <1>9 DEF Answering
    <3> QED
      BY <1>1, <1>2, <1>3, <1>4, <1>5, <1>9, <2>1, <2>2, <3>1 DEF OutInv, Epochs
  <2> QED
    BY <1>2, <1>7, <1>9, <2>3, UnmovedLemma DEF OutInv
<1>10. CASE in' = Rekey(Counted) /\ th' = Sending(p, "ku")
  <2>1. PICK t : /\ Moves(p, t)
                 /\ Is(t, th[p].op, "out", "ku", th[p].stage, th[p].reneg, th[p].alert,
                       th[p].inerr, th[p].chunk)
    BY <1>1, <1>10, SendingMoves DEF OutKinds
  <2>2. in'.epoch = in.epoch + 1
    BY <1>1, <1>10, TakenFields
  <2>3. th'[p] = t /\ \A q \in Procs : q # p => th'[q] = th[q]
    BY <1>1, <2>1 DEF Moves
  <2>4. ~Early(t) /\ ~Midway(t) /\ ~Ending(t) /\ ~Ended(t)
    BY <1>2, <2>1 DEF Is, Early, Midway, Ending, Ended
  <2>5. Answering(p)'
    BY <2>1, <2>3 DEF Is, Answering
  <2>6. out.err = "none" => out.epoch <= in.epoch /\ ("ku" \notin cfg.kinds => out.epoch = in.epoch)
    BY <1>2, <1>3, <1>5 DEF OutInv, Epochs
  <2>7. Epochs'
    BY <1>1, <1>2, <1>3, <1>4, <2>2, <2>3, <2>4, <2>5, <2>6 DEF Epochs
  <2>8. Unsent(p, t)
    BY <1>2, <1>7, <2>1 DEF Unsent, Is, Hailing
  <2> QED
    BY <2>1, <2>7, <2>8, UnsentLemma DEF OutInv
<1> QED
  BY <1>6, <1>8, <1>9, <1>10

-----------------------------------------------------------------------------
(* Steps that send *)

\* The keys of a goroutine in its handshake are those of where it has come to.
LEMMA ShakerEpochs ==
  ASSUME IInv, NEW p \in Procs, NEW t, Moves(p, t), lock.hs = p, HoldsIn(th[p]), cfg' = cfg,
         cfg.v13 =>
           /\ ~complete' /\ ~handshakeErr' => lock'.hs # Free
           /\ Early(t) => in'.epoch = 0 /\ out'.epoch = 0
           /\ Midway(t) => in'.epoch = 1 /\ out'.epoch = 1
           /\ Ending(t) => in'.epoch = 2 /\ out'.epoch = 1
           /\ Ended(t) => in'.epoch = 2 /\ out'.epoch = 2
           /\ complete' => in'.epoch = out'.epoch /\ out'.epoch \in Nat /\ ~Owes(t)
  PROVE  Epochs'
<1> SUFFICES ASSUME cfg.v13 PROVE Epochs'
  BY DEF Epochs
<1>1. th'[p] = t /\ \A q \in Procs : q # p => th'[q] = th[q]
  BY DEF Moves, IInv, Typed
<1>2. \A q \in Procs : q # p => ~HoldsHs(th[q]) /\ ~Answering(q)
  BY Alone, OneAnswers
<1>3. \A q \in Procs : q # p =>
        ~Early(th[q]) /\ ~Midway(th[q]) /\ ~Ending(th[q]) /\ ~Ended(th[q])
  BY <1>2 DEF Early, Midway, Ending, Ended, HoldsHs, Shaking
<1>4. complete' => \A q \in Procs : ~Answering(q)'
  BY <1>1, <1>2 DEF Answering, Owes, AtSend
<1> QED
  BY <1>1, <1>3, <1>4 DEF Epochs

\* One record is sealed with the current key and number.
LEMMA Sealing13 ==
  ASSUME IInv, NEW p \in Procs, AtSend(th[p])
  PROVE  \A e : Turns(Sealed(p), e) <=>
           IF th[p].send \in {"ku", "ccs"} \/ (th[p].send = "fin" /\ cfg.v13)
           THEN e = out.epoch + 1
           ELSE e = out.epoch \/ (th[p].send = "hello" /\ cfg.v13 /\ e = out.epoch + 1)
BY SealedRecord DEF Turns, LastOfItsKey

\* A record goes to the socket with the next number of the current key.
LEMMA SendBeginsKeys ==
  ASSUME IInv, OpenInv, OutInv, NEW p \in Procs, SendBegins(p)
  PROVE  OutInv'
<1>1. /\ th \in [Procs -> Thread] /\ out \in OutState /\ lock \in LockState
      /\ out.seq \in Nat /\ out.epoch \in Nat
  BY OutTypes DEF IInv, Typed, TypeOK
<1>2. /\ th[p].pc = "out" /\ lock.out = Free /\ ~Refused(p) /\ ~out.buffering
      /\ lock' = [lock EXCEPT !.out = p] /\ out' = [out EXCEPT !.seq = @ + 1]
      /\ th' = [th EXCEPT ![p].pc = "sock", ![p].chunk = <<Sealed(p)>>]
      /\ UNCHANGED <<cfg, complete, handshakeErr, in, sock, wire, peer>>
      /\ deadline' \in {deadline, "soon"}
      /\ deadline' # deadline => th[p].send = "close_notify"
  BY DEF SendBegins, At, shake
<1>3. /\ out'.epoch = out.epoch /\ out'.sendBuf = out.sendBuf /\ out'.err = out.err
      /\ lock'.out = p /\ lock'.hs = lock.hs /\ p # Free
  BY <1>1, <1>2, Known DEF OutState, LockState
<1>4. /\ Sealed(p).k = th[p].send /\ Sealed(p).e = out.epoch /\ Sealed(p).s = out.seq
  BY <1>2, SealedRecord DEF AtSend
<1> DEFINE t == [th[p] EXCEPT !.pc = "sock", !.chunk = <<Sealed(p)>>]
<1>5. /\ th' = [th EXCEPT ![p] = t]
      /\ Is(t, th[p].op, "sock", th[p].send, th[p].stage, th[p].reneg, th[p].alert,
            th[p].inerr, <<Sealed(p)>>)
  BY <1>1, <1>2 DEF Is, Thread
<1>6. t = th'[p]
  BY <1>1, <1>5
<1>7. th'[p] \in Thread
  BY NextInv DEF Next, Step, IInv, Typed
<1> HIDE DEF t
<1>8. Moves(p, t)
  BY <1>5, <1>6, <1>7 DEF Moves
<1>9. /\ t.pc = "sock" /\ t.send = th[p].send /\ t.stage = th[p].stage
      /\ t.chunk[1].e = out.epoch /\ t.chunk[1].s = out.seq
  BY <1>4, <1>5 DEF Is
<1>10. th'[p] = t /\ \A q \in Procs : q # p => th'[q] = th[q] /\ th[q].pc # "sock"
  <2>1. \A q \in Procs : q # p => th[q].pc # "sock"
    BY <1>2, Known DEF Holds, HoldsOut
  <2> QED
    BY <1>1, <1>5, <2>1
<1>11. Unturned(p, t)
  BY <1>2, <1>3, <1>9 DEF Unturned, Owes, AtSend, Early, Midway, Ending, Ended
<1>12. out.sendBuf = <<>>
  BY <1>2 DEF IInv, Buffered
<1>13. deadline' = "soon" /\ deadline # "soon" => th[p].send = "close_notify"
  BY <1>2
<1>14. SockFails => SockFails'
  <2>1. deadline = "past" => deadline' = "past"
    <3>1. deadline = "past" => out.notified
      BY DEF IInv, Buffered
    <3> QED
      BY <1>2, <3>1 DEF Refused
  <2> QED
    BY <1>2, <2>1 DEF SockFails
<1>15. Alone13'
  <2> SUFFICES ASSUME cfg.v13 PROVE Alone13'
    BY <1>2 DEF Alone13
  <2>1. th[p].send \in {"data", "close_notify"} => complete
    <3>1. th[p].send = "data" => complete
      BY <1>2 DEF Refused, MayWrite
    <3> QED
      BY <1>2, <3>1 DEF OutInv, Alone13, AtSend
  <2>2. ~Hailing(t)
    BY <1>9 DEF Hailing
  <2>3. ASSUME ~complete, NEW q \in Procs, AtSend(th'[q]),
               th'[q].send \in {"data", "close_notify"}
        PROVE  th'[q].pc = "out" /\ th'[q].send = "data"
    <3>1. q # p /\ th'[q] = th[q]
      BY <1>9, <1>10, <2>1, <2>3
    <3> QED
      BY <2>3, <3>1 DEF OutInv, Alone13
  <2>4. ASSUME NEW q \in Procs, AtSend(th'[q])
        PROVE  th'[q].send # "ccs"
    <3>1. th[p].send # "ccs"
      BY <1>2 DEF OutInv, Alone13, AtSend
    <3>2. CASE q = p
      BY <1>9, <1>10, <3>1, <3>2
    <3>3. CASE q # p
      BY <1>10, <2>4, <3>3 DEF OutInv, Alone13
    <3> QED
      BY <3>2, <3>3
  <2>5. ASSUME ~SockFails', NEW q \in Procs, Hailing(th'[q])
        PROVE  wire # <<>> /\ wire[Len(wire)].k = "hello"
    BY <1>10, <1>14, <2>2, <2>5 DEF OutInv, Alone13
  <2> QED
    BY <1>2, <2>3, <2>4, <2>5 DEF Alone13
<1>16. \A r, e : Turns(r, e)' <=> Turns(r, e)
  BY <1>2 DEF Turns, LastOfItsKey
<1>17. \A e, s : Follows(e, s)' <=> Follows(e, s)
  BY <1>2, <1>16 DEF Follows
<1>18. Turning(wire)' /\ Turning(out.sendBuf)'
  BY <1>2, <1>3, <1>16 DEF OutInv, Keyed, Turning
<1>19. ~SockFails' => Follows(out.epoch, out.seq)
  BY <1>2, <1>12, <1>14 DEF OutInv, Keyed
<1>20. Keyed'
  BY <1>2, <1>3, <1>9, <1>10, <1>12, <1>16, <1>17, <1>18, <1>19 DEF OutInv, Keyed
<1> QED
  BY <1>8, <1>11, <1>15, <1>20, UnturnedLemma DEF OutInv

\* The ServerHello: both keys change, and nothing of ours is on its way.
LEMMA TakeServerHelloKeys ==
  ASSUME IInv, OpenInv, OutInv, NEW p \in Procs, TakeServerHello(p)
  PROVE  OutInv'
<1>1. /\ th \in [Procs -> Thread] /\ out \in OutState /\ in \in InState
      /\ out.epoch \in Nat /\ out.seq \in Nat /\ wire \in Seq(Records(OutKinds))
  BY OutTypes DEF IInv, Typed, TypeOK
<1>2. /\ th[p].pc = "use" /\ th[p].stage = "sh"
      /\ UNCHANGED <<cfg, complete, handshakeErr, lock, sock, deadline, wire, peer>>
      /\ in' = IF cfg.v13 THEN Rekey(Taken) ELSE Taken
      /\ out' = [(IF cfg.v13 THEN Rekey(out) ELSE out) EXCEPT !.buffering = TRUE]
      /\ th' = [th EXCEPT ![p].stage = "flight"]
  BY DEF TakeServerHello, Message, At, shake
<1>3. /\ HoldsHs(th[p]) /\ HoldsIn(th[p]) /\ lock.hs = p /\ p # Free /\ ~complete
      /\ cfg.v13 => ~handshakeErr
  BY <1>2, KnownOpen DEF HoldsHs, HoldsIn, Shaking, Holds
<1>4. /\ out'.sendBuf = out.sendBuf /\ out'.err = out.err
      /\ IF cfg.v13 THEN out'.epoch = out.epoch + 1 /\ out'.seq = 0
                    ELSE out'.epoch = out.epoch /\ out'.seq = out.seq
  <2>1. PICK b \in BOOLEAN, o \in OutState :
          /\ b = TRUE /\ o = IF cfg.v13 THEN Rekey(out) ELSE out
    BY <1>1, OutRekey
  <2>2. out' = [o EXCEPT !.buffering = b]
    BY <1>2, <2>1
  <2>3. out'.sendBuf = o.sendBuf /\ out'.err = o.err /\ out'.epoch = o.epoch /\ out'.seq = o.seq
    BY <2>2 DEF OutState
  <2> QED
    BY <1>1, <2>1, <2>3, OutRekey
<1>5. cfg.v13 => in'.epoch = in.epoch + 1
  BY <1>1, <1>2, TakenFields
<1> DEFINE t == [th[p] EXCEPT !.stage = "flight"]
<1>6. /\ th' = [th EXCEPT ![p] = t] /\ t.stage = "flight" /\ t.pc = "use" /\ t = th'[p]
      /\ t.send = th[p].send
  BY <1>1, <1>2 DEF Thread
<1>7. th'[p] \in Thread
  BY NextInv DEF Next, Step, IInv, Typed
<1> HIDE DEF t
<1>8. Moves(p, t)
  BY <1>6, <1>7 DEF Moves
<1>9. SockFails' <=> SockFails
  BY <1>2 DEF SockFails
<1>10. CASE ~cfg.v13
  <2>1. Unsent(p, t)
    BY <1>2, <1>4, <1>6, <1>9, <1>10 DEF Unsent
  <2>2. Unturned(p, t)
    BY <1>2, <1>10 DEF Unturned
  <2> QED
    BY <1>8, <2>1, <2>2, UnsentLemma, UnturnedLemma DEF OutInv
<1>11. CASE cfg.v13
  <2>1. in.epoch = 0 /\ out.epoch = 0
    BY <1>2, <1>11 DEF OutInv, Epochs, Early
  <2>2. Epochs'
    <3>1. ~Early(t) /\ ~Ending(t) /\ ~Ended(t)
      BY <1>6 DEF Early, Ending, Ended, AtSend
    <3>2. in'.epoch = 1 /\ out'.epoch = 1
      BY <1>4, <1>5, <1>11, <2>1
    <3> QED
      BY <1>2, <1>3, <1>8, <3>1, <3>2, ShakerEpochs
  <2>3. th'[p] = t /\ \A q \in Procs : q # p => th'[q] = th[q]
    BY <1>1, <1>6
  <2>4. Alone13'
    <3>1. ~Hailing(t) /\ ~AtSend(t)
      BY <1>6 DEF Hailing, AtSend
    <3> QED
      BY <1>2, <1>9, <2>3, <3>1 DEF OutInv, Alone13
  <2>5. out.sendBuf = <<>>
    <3>1. \A q \in Procs : th[q].stage # "flight"
      BY <1>2, <1>3, Alone DEF HoldsHs, Shaking
    <3> QED
      BY <1>3, <1>11, <3>1 DEF IInv, Shook, Buffered
  <2>6. \A q \in Procs : th[q].pc # "sock"
    <3> SUFFICES ASSUME NEW q \in Procs, th[q].pc = "sock" PROVE FALSE
      OBVIOUS
    <3>1. q # p /\ AtSend(th[q]) /\ ~HoldsIn(th[q])
      BY <1>2, <1>3, OneAnswers DEF AtSend
    <3>2. th[q].send \in {"data", "close_notify"}
      BY <3>1, SealedRecord DEF HoldsIn, OutKinds
    <3> QED
      BY <1>3, <1>11, <3>1, <3>2 DEF OutInv, Alone13
  <2>7. \A q \in Procs : th'[q].pc # "sock"
    BY <1>6, <2>3, <2>6
  <2>8. \A r, e : Turns(r, e)' <=> Turns(r, e)
    BY <1>2 DEF Turns, LastOfItsKey
  <2>9. Turning(wire)' /\ Turning(out.sendBuf)'
    BY <1>2, <1>4, <2>8 DEF OutInv, Keyed, Turning
  <2>10. ~SockFails /\ lock.out = Free => Follows(out.epoch, out.seq)'
    <3> SUFFICES ASSUME ~SockFails, lock.out = Free PROVE Follows(out.epoch, out.seq)'
      OBVIOUS
    <3>1. wire # <<>> /\ wire[Len(wire)].k = "hello"
      BY <1>2, <1>11 DEF OutInv, Alone13, Hailing
    <3>2. wire[Len(wire)].e \in Nat
      <4>1. wire[Len(wire)] \in Records(OutKinds)
        <5> DEFINE R == Records(OutKinds)
        <5> HIDE DEF R
        <5>1. wire \in Seq(R)
          BY <1>1 DEF R
        <5>2. wire[Len(wire)] \in R
          BY <3>1, <5>1
        <5> QED
          BY <5>2 DEF R
      <4> QED
        BY <4>1 DEF Records
    <3>3. Turns(wire[Len(wire)], out.epoch)
      BY <2>5, <3>1 DEF OutInv, Keyed, Follows
    <3>4. wire[Len(wire)].e = 0
      BY <2>1, <3>1, <3>2, <3>3 DEF Turns, LastOfItsKey
    <3>5. Turns(wire[Len(wire)], 1)
      BY <1>11, <3>1, <3>4 DEF Turns, LastOfItsKey
    <3> QED
      BY <1>2, <1>4, <1>11, <2>1, <2>8, <3>1, <3>5 DEF Follows
  <2>11. Keyed'
    BY <1>2, <1>4, <1>9, <2>5, <2>7, <2>9, <2>10 DEF OutInv, Keyed
  <2> QED
    BY <2>2, <2>4, <2>11 DEF OutInv
<1> QED
  BY <1>10, <1>11

\* The end of the peer's flight: the Finished, still under the key of the handshake, is next.
LEMMA TakeFlightKeys ==
  ASSUME IInv, OpenInv, OutInv, NEW p \in Procs, TakeFlight(p)
  PROVE  OutInv'
<1>1. /\ th \in [Procs -> Thread] /\ out \in OutState /\ in \in InState
  BY DEF IInv, Typed, TypeOK
<1>2. /\ th[p].pc = "use" /\ th[p].stage = "flight"
      /\ UNCHANGED <<cfg, complete, handshakeErr, lock, out, sock, deadline, wire, peer>>
      /\ in' = IF cfg.v13 THEN Rekey(Taken) ELSE Taken
  BY DEF TakeFlight, Message, At, shake
<1>3. /\ HoldsHs(th[p]) /\ HoldsIn(th[p]) /\ lock.hs = p /\ p # Free /\ ~complete
  BY <1>2, KnownOpen DEF HoldsHs, HoldsIn, Shaking, Holds
<1>4. PICK k \in {"fin", "ccs"} : k = IF cfg.v13 THEN "fin" ELSE "ccs"
  OBVIOUS
<1>5. th' = Sending(p, k)
  BY <1>4 DEF TakeFlight
<1>6. PICK t : /\ Moves(p, t)
               /\ Is(t, th[p].op, "out", k, th[p].stage, th[p].reneg, th[p].alert,
                     th[p].inerr, th[p].chunk)
  BY <1>1, <1>5, SendingMoves DEF OutKinds
<1>7. t.pc = "out" /\ t.send = k /\ t.stage = "flight"
  BY <1>2, <1>6 DEF Is
<1>8. Unsent(p, t)
  BY <1>2, <1>4, <1>7 DEF Unsent, SockFails, Hailing
<1>9. Epochs'
  <2>1. cfg.v13 => in'.epoch = 2 /\ out'.epoch = 1
    <3>1. cfg.v13 => in.epoch = 1 /\ out.epoch = 1
      BY <1>2 DEF OutInv, Epochs, Midway
    <3>2. cfg.v13 => in'.epoch = in.epoch + 1
      BY <1>1, <1>2, TakenFields
    <3> QED
      BY <1>2, <3>1, <3>2
  <2>2. ~Early(t) /\ ~Midway(t) /\ ~Ended(t)
    BY <1>7 DEF Early, Midway, Ended
  <2> QED
    BY <1>2, <1>3, <1>6, <2>1, <2>2, ShakerEpochs
<1> QED
  BY <1>6, <1>8, <1>9, UnsentLemma DEF OutInv

\* One run of records goes on where another ends, with the right keys.
LEMMA TurnConcat ==
  ASSUME NEW a \in Seq(Records(OutKinds)), NEW b \in Seq(Records(OutKinds)), b # <<>>,
         Turning(a), Turning(b), a # <<>> => Turns(a[Len(a)], b[1].e)
  PROVE  /\ Turning(a \o b) /\ a \o b # <<>>
         /\ (a \o b)[Len(a \o b)] = b[Len(b)]
         /\ a # <<>> => (a \o b)[1] = a[1]
         /\ a = <<>> => (a \o b)[1] = b[1]
<1>1. Len(b) > 0 /\ (a # <<>> => Len(a) > 0) /\ (a = <<>> => Len(a) = 0)
  OBVIOUS
<1> DEFINE c == a \o b
<1>2. /\ c \in Seq(Records(OutKinds)) /\ Len(c) = Len(a) + Len(b)
      /\ \A i \in 1 .. Len(a) : c[i] = a[i]
      /\ \A i \in 1 .. Len(b) : c[Len(a) + i] = b[i]
      /\ Len(a) \in Nat /\ Len(b) \in Nat
  BY ConcatFacts
<1> HIDE DEF c
<1>3. ASSUME NEW n \in 1 .. Len(c) - 1
      PROVE  Turns(c[n], c[n + 1].e)
  <2>1. CASE n < Len(a)
    <3>1. c[n] = a[n] /\ c[n + 1] = a[n + 1] /\ n \in 1 .. Len(a) - 1
      BY <1>2, <2>1
    <3> QED
      BY <3>1 DEF Turning
  <2>2. CASE n = Len(a)
    <3>1. c[n] = a[Len(a)] /\ a # <<>>
      BY <1>1, <1>2, <2>2
    <3>2. c[n + 1] = b[1]
      BY <1>1, <1>2, <2>2
    <3> QED
      BY <3>1, <3>2
  <2>3. CASE n > Len(a)
    <3>1. PICK i \in 1 .. Len(b) - 1 : n = Len(a) + i
      <4>1. n \in 1 .. (Len(a) + Len(b)) /\ n < Len(a) + Len(b)
        BY <1>2
      <4>2. PICK i \in 1 .. Len(b) : n = Len(a) + i
        BY <1>2, <2>3, <4>1, Beyond
      <4>3. i \in 1 .. Len(b) - 1
        BY <1>2, <4>1, <4>2
      <4> QED
        BY <4>2, <4>3
    <3>2. c[n] = b[i] /\ c[n + 1] = b[i + 1]
      <4>1. i \in 1 .. Len(b) /\ i + 1 \in 1 .. Len(b) /\ n + 1 = Len(a) + (i + 1)
        BY <1>2, <3>1
      <4> QED
        BY <1>2, <3>1, <4>1
    <3> QED
      BY <3>1, <3>2 DEF Turning
  <2> QED
    BY <1>2, <2>1, <2>2, <2>3
<1>4. Turning(c)
  BY <1>3 DEF Turning
<1>5. c[Len(c)] = b[Len(b)] /\ c # <<>>
  BY <1>1, <1>2
<1>6. (a # <<>> => c[1] = a[1]) /\ (a = <<>> => c[1] = b[1])
  BY <1>1, <1>2
<1> QED
  BY <1>4, <1>5, <1>6 DEF c

\* The keys after a record.
LEMMA AfterKeys ==
  ASSUME in \in InState, NEW p \in Procs, NEW ok \in BOOLEAN, NEW o \in OutState,
         th[p].send \in OutKinds, th[p].send \in {"ccs", "fin"} => ok, AfterRecord(p, ok, o)
  PROVE  /\ in'.epoch = in.epoch
         /\ IF th[p].send \in {"ku", "ccs"} \/ (th[p].send = "fin" /\ cfg.v13)
            THEN IF ok THEN out'.epoch = o.epoch + 1 /\ out'.seq = 0
                       ELSE out'.epoch = o.epoch /\ out'.err # "none"
            ELSE out'.epoch = o.epoch /\ out'.seq = o.seq
<1> DEFINE k == th[p].send
<1>1. in'.epoch = in.epoch
  BY DEF AfterRecord, InState
<1>2. \A x : /\ [o EXCEPT !.err = x].epoch = o.epoch /\ [o EXCEPT !.err = x].seq = o.seq
             /\ [o EXCEPT !.err = x].err = x
             /\ [o EXCEPT !.notified = x].epoch = o.epoch /\ [o EXCEPT !.notified = x].seq = o.seq
  BY DEF OutState
<1>3. Rekey(o).epoch = o.epoch + 1 /\ Rekey(o).seq = 0
  BY OutRekey
<1>4. CASE k \in {"ku", "ccs"} \/ (k = "fin" /\ cfg.v13)
  <2>1. CASE ok
    <3>1. out' = Rekey(o)
      BY <1>4, <2>1 DEF AfterRecord, NextWriteKey
    <3> QED
      BY <1>1, <1>3, <1>4, <2>1, <3>1
  <2>2. CASE ~ok
    <3>1. out' = [o EXCEPT !.err = "io"]
      BY <1>4, <2>2 DEF AfterRecord
    <3> QED
      BY <1>1, <1>2, <1>4, <2>2, <3>1
  <2> QED
    BY <2>1, <2>2
<1>5. CASE ~(k \in {"ku", "ccs"} \/ (k = "fin" /\ cfg.v13))
  <2>1. \/ out' = o \/ (\E x : out' = [o EXCEPT !.err = x]) \/ out' = [o EXCEPT !.notified = TRUE]
    BY <1>5 DEF AfterRecord, AlertSent, OutKinds
  <2>2. out'.epoch = o.epoch /\ out'.seq = o.seq
    <3>1. CASE out' = o
      BY <3>1
    <3>2. CASE \E x : out' = [o EXCEPT !.err = x]
      BY <1>2, <3>2
    <3>3. CASE out' = [o EXCEPT !.notified = TRUE]
      BY <3>3 DEF OutState
    <3> QED
      BY <2>1, <3>1, <3>2, <3>3
  <2> QED
    BY <1>1, <1>5, <2>2
<1> QED
  BY <1>4, <1>5

\* The goroutine and the epochs after a record.
LEMMA SentEpochs ==
  ASSUME IInv, OpenInv, OutInv, NEW p \in Procs, NEW ok \in BOOLEAN, NEW o \in OutState,
         AtSend(th[p]), th[p].send \in {"ccs", "fin"} => ok, AfterRecord(p, ok, o), NEW t,
         After(p, ok, o, t), o.epoch = out.epoch, o.err = out.err,
         UNCHANGED <<cfg, complete, handshakeErr>>, lock'.hs = lock.hs
  PROVE  Epochs'
<1> SUFFICES ASSUME cfg.v13 PROVE Epochs'
  BY DEF Epochs
<1>1. /\ th[p].send \in OutKinds /\ in \in InState /\ th \in [Procs -> Thread]
      /\ in.epoch \in Nat /\ out.epoch \in Nat
  BY SealedRecord, InTypes, OutTypes DEF IInv, Typed, TypeOK
<1>2. /\ in'.epoch = in.epoch
      /\ IF th[p].send \in {"ku", "ccs"} \/ (th[p].send = "fin" /\ cfg.v13)
         THEN IF ok THEN out'.epoch = out.epoch + 1 /\ out'.seq = 0
                    ELSE out'.epoch = out.epoch /\ out'.err # "none"
         ELSE out'.epoch = out.epoch /\ out'.seq = o.seq
  BY <1>1, AfterKeys
<1>3. /\ Moves(p, t) /\ t.stage = th[p].stage
      /\ t.send = (IF th[p].send = "ccs" THEN "fin" ELSE "none")
      /\ out'.err = out.err \/ out'.err # "none"
  BY DEF After
<1>4. /\ th[p].send = "data" => t.pc = "end"
      /\ th[p].send = "alert" => t.pc = "fail" /\ out'.err # "none"
      /\ th[p].send = "close_notify" => t.pc \in {"shut", "end"}
      /\ th[p].send = "ku" => t.pc = "use" /\ th[p].stage = "none"
      /\ th[p].send = "hello" => t.pc \in {"use", "hs_fail"} /\ th[p].stage = "sh"
      /\ th[p].send = "fin" => t.pc = "flush" /\ th[p].stage = "flight"
      /\ th[p].send # "ccs"
  <2>1. th[p].send # "ccs"
    BY DEF OutInv, Alone13
  <2> QED
    BY <1>1, <2>1, KnownOpen DEF After, AfterNotify, OutKinds, Shape
<1>5. CASE th[p].send \notin {"ku", "fin"}
  <2>1. t.pc \notin {"out", "sock", "rec", "flush", "flushing", "hs_in"} /\ t.send = "none"
    BY <1>1, <1>3, <1>4, <1>5 DEF OutKinds
  <2>2. Midway(t) => FALSE
    BY <1>1, <1>3, <1>4, <1>5, <2>1 DEF Midway, OutKinds
  <2>3. Early(t) => Early(th[p])
    BY <1>3, <2>1 DEF Early
  <2>4. Unturned(p, t)
    BY <1>2, <1>3, <1>4, <1>5, <2>1, <2>2, <2>3 DEF Unturned, Owes, AtSend, Ending, Ended
  <2> QED
    BY <1>3, <2>4, UnturnedLemma DEF OutInv
<1>6. CASE th[p].send = "fin"
  <2>1. HoldsHs(th[p]) /\ HoldsIn(th[p]) /\ lock.hs = p /\ p # Free /\ ~complete
    BY <1>4, <1>6, KnownOpen DEF HoldsHs, HoldsIn, Shaking, Holds, AtSend
  <2>2. in.epoch = 2 /\ out.epoch = 1
    BY <1>4, <1>6 DEF OutInv, Epochs, Ending
  <2>3. in'.epoch = 2 /\ out'.epoch = 2
    BY <1>2, <1>6, <2>2
  <2>4. ~Early(t) /\ ~Midway(t) /\ ~Ending(t)
    BY <1>3, <1>4, <1>6 DEF Early, Midway, Ending, AtSend
  <2> QED
    BY <1>3, <2>1, <2>3, <2>4, ShakerEpochs
<1>7. CASE th[p].send = "ku"
  <2>1. HoldsIn(th[p]) /\ Answering(p) /\ complete
    BY <1>4, <1>7, KnownOpen DEF HoldsIn, AtSend, Answering, Reads, Shape
  <2>2. th'[p] = t /\ \A q \in Procs : q # p => th'[q] = th[q]
    BY <1>1, <1>3 DEF Moves
  <2>3. \A q \in Procs : ~Answering(q)'
    BY <1>4, <1>7, <2>1, <2>2, OneAnswers DEF Answering
  <2>4. \A q \in Procs :
          ~Early(th'[q]) /\ ~Midway(th'[q]) /\ ~Ending(th'[q]) /\ ~Ended(th'[q])
    <3>1. ~Early(t) /\ ~Midway(t) /\ ~Ending(t) /\ ~Ended(t)
      BY <1>3, <1>4, <1>7 DEF Early, Midway, Ending, Ended, AtSend
    <3> QED
      BY <2>1, <2>2, <3>1, Rested
  <2>5. out.err = "none" => /\ out.epoch + 1 <= in.epoch
                            /\ "ku" \notin cfg.kinds => out.epoch + 1 = in.epoch
    BY <2>1 DEF OutInv, Epochs
  <2>6. complete' /\ out'.err = "none" =>
          /\ ~ \E q \in Procs : Answering(q)'
          /\ out'.epoch <= in'.epoch /\ ("ku" \notin cfg'.kinds => out'.epoch = in'.epoch)
    BY <1>1, <1>2, <1>3, <1>7, <2>3, <2>5
  <2> QED
    BY <2>1, <2>4, <2>6 DEF Epochs
<1> QED
  BY <1>5, <1>6, <1>7

\* SendBuffered: the record joins the others.
LEMMA SendBufferedKeys ==
  ASSUME IInv, OpenInv, OutInv, NEW p \in Procs, SendBuffered(p)
  PROVE  OutInv'
<1> DEFINE o == [out EXCEPT !.seq = @ + 1, !.sendBuf = Append(@, Sealed(p))]
           R == Records(OutKinds)
<1>1. /\ th \in [Procs -> Thread] /\ out \in OutState /\ in \in InState
      /\ out.seq \in Nat /\ out.epoch \in Nat /\ out.sendBuf \in Seq(R) /\ wire \in Seq(R)
  BY OutTypes DEF IInv, Typed, TypeOK
<1>2. /\ th[p].pc = "out" /\ lock.out = Free /\ out.buffering /\ AfterRecord(p, TRUE, o)
      /\ UNCHANGED <<cfg, complete, handshakeErr, lock, sock, wire, peer>>
  BY DEF SendBuffered, At, shake
<1>3. /\ Sealed(p) \in R /\ AtSend(th[p]) /\ th[p].send \in OutKinds
      /\ Sealed(p).k = th[p].send /\ Sealed(p).e = out.epoch /\ Sealed(p).s = out.seq
  BY <1>2, SealedRecord DEF AtSend
<1>4. /\ o \in OutState /\ o.err = out.err /\ o.epoch = out.epoch /\ o.seq = out.seq + 1
      /\ o.sendBuf = Append(out.sendBuf, Sealed(p))
  <2> HIDE DEF R
  <2>1. Append(out.sendBuf, Sealed(p)) \in Seq(R)
    BY <1>1, <1>3
  <2>2. PICK u \in Seq(R), n \in Nat : u = Append(out.sendBuf, Sealed(p)) /\ n = out.seq + 1
    <3>1. out.seq + 1 \in Nat
      BY <1>1
    <3> QED
      BY <2>1, <3>1
  <2>3. o = [out EXCEPT !.seq = n, !.sendBuf = u]
    BY <2>2
  <2> HIDE DEF o
  <2> QED
    BY <1>1, <2>2, <2>3 DEF OutState, R
<1> HIDE DEF o
<1>5. th[p].send = "alert" => th[p].alert # "none"
  BY <1>2, KnownOpen DEF Shape, AtSend
<1>6. PICK t : After(p, TRUE, o, t)
  BY <1>1, <1>2, <1>3, <1>4, <1>5, AfterRecordMoves
<1>7. Epochs'
  BY <1>2, <1>3, <1>4, <1>6, SentEpochs
<1>8. /\ Moves(p, t) /\ t.stage = th[p].stage /\ out'.sendBuf = o.sendBuf
      /\ t.send = (IF th[p].send = "ccs" THEN "fin" ELSE "none")
      /\ deadline' \in {deadline, "past"}
  BY <1>6 DEF After
<1>9. /\ th'[p] = t /\ \A q \in Procs : q # p => th'[q] = th[q]
      /\ \A q \in Procs : q # p => th[q].pc # "sock"
  <2>1. \A q \in Procs : q # p => th[q].pc # "sock"
    BY <1>2, Known DEF Holds, HoldsOut
  <2> QED
    BY <1>1, <1>8, <2>1 DEF Moves
<1>10. SockFails => SockFails'
  BY <1>2, <1>8 DEF SockFails
<1>11. t.pc # "sock" /\ (t.pc = "out" => th[p].send = "ccs")
       /\ (t.pc \in {"rec", "use"} => th[p].send \in {"ku", "hello"})
  BY <1>3, <1>6 DEF After, AfterNotify, OutKinds
<1>12. Alone13'
  <2> SUFFICES ASSUME cfg.v13 PROVE Alone13'
    BY <1>2 DEF Alone13
  <2>1. ~AtSend(t)
    <3>1. th[p].send # "ccs"
      BY <1>3 DEF OutInv, Alone13
    <3> QED
      BY <1>11, <3>1 DEF AtSend
  <2>2. ~Hailing(t)
    <3> SUFFICES ASSUME Hailing(t) PROVE FALSE
      OBVIOUS
    <3>1. th[p].stage = "sh" /\ HoldsHs(th[p]) /\ ~th[p].reneg
      BY <1>8, KnownOpen DEF Hailing, HoldsHs, Shaking
    <3>2. ~handshakeErr /\ lock.hs = p
      BY <3>1, KnownOpen DEF Holds
    <3>3. PICK q \in Procs : th[q].stage = "flight"
      BY <1>2, <3>2 DEF IInv, Shook
    <3>4. HoldsHs(th[q])
      BY <3>3 DEF HoldsHs, Shaking
    <3> QED
      BY <3>1, <3>2, <3>3, <3>4, Alone
  <2> QED
    BY <1>2, <1>9, <1>10, <2>1, <2>2 DEF OutInv, Alone13
<1>13. \A r, e : Turns(r, e)' <=> Turns(r, e)
  BY <1>2 DEF Turns, LastOfItsKey
<1>14. \A e, s : Follows(e, s)' <=> Follows(e, s)
  BY <1>2, <1>13 DEF Follows
<1>15. Turns(Sealed(p), out'.epoch)
  <2>1. PICK ok \in BOOLEAN : ok /\ AfterRecord(p, ok, o)
    BY <1>2
  <2>2. IF th[p].send \in {"ku", "ccs"} \/ (th[p].send = "fin" /\ cfg.v13)
        THEN out'.epoch = o.epoch + 1 ELSE out'.epoch = o.epoch
    <3>1. o \in OutState /\ in \in InState /\ th[p].send \in OutKinds
          /\ (th[p].send \in {"ccs", "fin"} => ok)
      BY <1>1, <1>3, <1>4, <2>1
    <3> QED
      BY <2>1, <3>1, AfterKeys
  <2>3. IF th[p].send \in {"ku", "ccs"} \/ (th[p].send = "fin" /\ cfg.v13)
        THEN out'.epoch = out.epoch + 1 ELSE out'.epoch = out.epoch
    BY <1>4, <2>2
  <2> QED
    BY <1>3, <2>3, Sealing13
<1>16. /\ Turning(out'.sendBuf) /\ out'.sendBuf # <<>>
       /\ out'.sendBuf[Len(out'.sendBuf)] = Sealed(p)
       /\ out'.sendBuf[1] = IF out.sendBuf = <<>> THEN Sealed(p) ELSE out.sendBuf[1]
  <2> HIDE DEF R
  <2> DEFINE b == <<Sealed(p)>>
  <2>1. b \in Seq(R) /\ b # <<>> /\ Len(b) = 1 /\ b[1] = Sealed(p)
    BY <1>3
  <2>2. out'.sendBuf = out.sendBuf \o b
    BY <1>1, <1>3, <1>4, <1>8
  <2>3. out.sendBuf # <<>> => Turns(out.sendBuf[Len(out.sendBuf)], out.epoch)
    BY DEF OutInv, Keyed
  <2> HIDE DEF b
  <2>4. Turning(b)
    BY <2>1 DEF Turning
  <2>5. Turning(out.sendBuf)
    BY DEF OutInv, Keyed
  <2>6. out.sendBuf # <<>> => Turns(out.sendBuf[Len(out.sendBuf)], b[1].e)
    BY <1>3, <2>1, <2>3
  <2>7. out.sendBuf \in Seq(Records(OutKinds)) /\ b \in Seq(Records(OutKinds))
    BY <1>1, <2>1 DEF R
  <2>8. /\ Turning(out.sendBuf \o b) /\ out.sendBuf \o b # <<>>
        /\ (out.sendBuf \o b)[Len(out.sendBuf \o b)] = b[Len(b)]
        /\ out.sendBuf # <<>> => (out.sendBuf \o b)[1] = out.sendBuf[1]
        /\ out.sendBuf = <<>> => (out.sendBuf \o b)[1] = b[1]
    BY <2>1, <2>4, <2>5, <2>6, <2>7, TurnConcat
  <2> QED
    BY <2>1, <2>2, <2>8
<1>17. ~SockFails' => Follows(out'.sendBuf[1].e, out'.sendBuf[1].s)
  BY <1>2, <1>3, <1>10, <1>16 DEF OutInv, Keyed
<1>18. Turning(wire)' /\ Turning(out.sendBuf)'
  BY <1>2, <1>13, <1>16 DEF OutInv, Keyed, Turning
<1>19. \A q \in Procs : th'[q].pc # "sock"
  BY <1>9, <1>11
<1>20. Keyed'
  BY <1>2, <1>13, <1>14, <1>15, <1>16, <1>17, <1>18, <1>19 DEF OutInv, Keyed
<1> QED
  BY <1>7, <1>12, <1>20 DEF OutInv

\* SendEnds: the record has reached the peer, or the socket has failed.
LEMMA SendEndsKeys ==
  ASSUME IInv, OpenInv, OutInv, NEW p \in Procs, SendEnds(p)
  PROVE  OutInv'
<1> DEFINE R == Records(OutKinds)
<1>1. /\ th \in [Procs -> Thread] /\ out \in OutState /\ in \in InState /\ lock \in LockState
      /\ out.seq \in Nat /\ out.epoch \in Nat /\ wire \in Seq(R) /\ th[p].chunk \in Seq(R)
  BY OutTypes DEF IInv, Typed, TypeOK, Thread
<1>2. /\ th[p].pc = "sock" /\ lock' = [lock EXCEPT !.out = Free]
      /\ UNCHANGED <<cfg, complete, handshakeErr, sock, peer>>
  BY DEF SendEnds, At, shake
<1>3. PICK ok \in BOOLEAN :
        /\ AfterRecord(p, ok, out)
        /\ IF ok THEN SockAccepts /\ wire' = wire \o th[p].chunk ELSE SockFails /\ wire' = wire
  <2>1. PICK yes \in BOOLEAN, no \in BOOLEAN : yes = TRUE /\ no = FALSE
    OBVIOUS
  <2>2. CASE SockAccepts /\ wire' = wire \o th[p].chunk /\ AfterRecord(p, TRUE, out)
    BY <2>1, <2>2
  <2>3. CASE SockFails /\ UNCHANGED wire /\ AfterRecord(p, FALSE, out)
    BY <2>1, <2>3
  <2> QED
    BY <2>2, <2>3 DEF SendEnds
<1>4. /\ AtSend(th[p]) /\ th[p].send \in OutKinds /\ th[p].send \notin {"ccs", "fin"}
      /\ th[p].send = "alert" => th[p].alert # "none"
      /\ th[p].chunk # <<>> /\ Len(th[p].chunk) = 1 /\ th[p].chunk[1].k = th[p].send
  BY <1>2, SealedRecord, KnownOpen DEF Shape, AtSend
<1>5. PICK t : After(p, ok, out, t)
  BY <1>1, <1>3, <1>4, AfterRecordMoves
<1>6. lock'.hs = lock.hs /\ lock'.out = Free
  BY <1>1, <1>2 DEF LockState
<1>7. Epochs'
  BY <1>1, <1>2, <1>3, <1>4, <1>5, <1>6, SentEpochs
<1>8. /\ Moves(p, t) /\ t.stage = th[p].stage /\ out'.sendBuf = out.sendBuf
      /\ deadline' \in {deadline, "past"}
  BY <1>5 DEF After
<1>9. /\ th'[p] = t /\ \A q \in Procs : q # p => th'[q] = th[q]
      /\ \A q \in Procs : q # p => th[q].pc # "sock"
  <2>1. \A q \in Procs : q # p => th[q].pc # "sock"
    BY <1>2, Known DEF Holds, HoldsOut
  <2> QED
    BY <1>1, <1>8, <2>1 DEF Moves
<1>10. SockFails => SockFails'
  BY <1>2, <1>8 DEF SockFails
<1>11. SockAccepts => ~SockFails
  BY DEF SockAccepts, SockFails
<1>12. /\ t.pc \notin {"out", "sock", "rec"}
       /\ t.pc = "use" => th[p].send = "ku" \/ (th[p].send = "hello" /\ ok)
  BY <1>4, <1>5 DEF After, AfterNotify, OutKinds
<1>13. /\ th[p].chunk[1].e = out.epoch
       /\ ok => Follows(th[p].chunk[1].e, th[p].chunk[1].s)
  BY <1>2, <1>3, <1>11 DEF OutInv, Keyed
<1>14. out.sendBuf = <<>>
  BY <1>2 DEF IInv, Buffered
<1>15. \A r, e : Turns(r, e)' <=> Turns(r, e)
  BY <1>2 DEF Turns, LastOfItsKey
<1>16. ok => /\ Turning(wire') /\ wire' # <<>>
             /\ wire'[Len(wire')] = th[p].chunk[1]
             /\ wire'[1].e = 0 /\ wire'[1].s = 0
  <2> SUFFICES ASSUME ok
               PROVE  /\ Turning(wire') /\ wire' # <<>> /\ wire'[Len(wire')] = th[p].chunk[1]
                      /\ wire'[1].e = 0 /\ wire'[1].s = 0
    OBVIOUS
  <2>1. wire' = wire \o th[p].chunk
    BY <1>3
  <2>2. wire # <<>> => Turns(wire[Len(wire)], th[p].chunk[1].e)
    BY <1>13 DEF Follows
  <2>3. Turning(wire) /\ (wire # <<>> => wire[1].e = 0 /\ wire[1].s = 0)
    BY DEF OutInv, Keyed
  <2>4. Turning(th[p].chunk)
    BY <1>4 DEF Turning
  <2>5. wire = <<>> => th[p].chunk[1].e = 0 /\ th[p].chunk[1].s = 0
    BY <1>13 DEF Follows
  <2> QED
    BY <1>1, <1>4, <2>1, <2>2, <2>3, <2>4, <2>5, TurnConcat
<1>17. ok => Turns(th[p].chunk[1], out'.epoch)
  <2>1. /\ th[p].send = "ku" /\ ok => out'.epoch = out.epoch + 1
        /\ th[p].send # "ku" => out'.epoch = out.epoch
    BY <1>1, <1>3, <1>4, AfterKeys
  <2> QED
    BY <1>4, <1>13, <2>1 DEF Turns, LastOfItsKey
<1>18. Alone13'
  <2> SUFFICES ASSUME cfg.v13 PROVE Alone13'
    BY <1>2 DEF Alone13
  <2>1. ~AtSend(t)
    BY <1>12 DEF AtSend
  <2>2. ASSUME ~SockFails', Hailing(t)
        PROVE  wire' # <<>> /\ wire'[Len(wire')].k = "hello"
    <3>1. th[p].stage = "sh" /\ t.pc = "use"
      BY <1>8, <1>12, <2>2 DEF Hailing
    <3>2. th[p].send # "ku"
      BY <1>4, <3>1, KnownOpen DEF Shape
    <3> QED
      BY <1>4, <1>12, <1>16, <3>1, <3>2
  <2>3. ASSUME ~SockFails', NEW q \in Procs, q # p, Hailing(th[q])
        PROVE  wire' # <<>> /\ wire'[Len(wire')].k = "hello"
    <3>1. HoldsHs(th[q]) /\ HoldsIn(th[q]) /\ ~complete
      BY <2>3, KnownOpen DEF Hailing, HoldsHs, HoldsIn, Shaking
    <3>2. ~HoldsIn(th[p])
      BY <2>3, <3>1, OneAnswers
    <3>3. th[p].send \in {"data", "close_notify"}
      BY <1>4, <3>2 DEF HoldsIn, OutKinds
    <3> QED
      BY <1>2, <1>4, <3>1, <3>3 DEF OutInv, Alone13
  <2>4. ASSUME ~complete', NEW q \in Procs, AtSend(th'[q]),
               th'[q].send \in {"data", "close_notify"}
        PROVE  th'[q].pc = "out" /\ th'[q].send = "data"
    BY <1>2, <1>9, <2>1, <2>4 DEF OutInv, Alone13
  <2>5. ASSUME NEW q \in Procs, AtSend(th'[q])
        PROVE  th'[q].send # "ccs"
    BY <1>2, <1>9, <2>1, <2>5 DEF OutInv, Alone13
  <2>6. ASSUME ~SockFails', NEW q \in Procs, Hailing(th'[q])
        PROVE  wire' # <<>> /\ wire'[Len(wire')].k = "hello"
    BY <1>9, <2>2, <2>3, <2>6
  <2> QED
    BY <2>4, <2>5, <2>6 DEF Alone13
<1>19. \A q \in Procs : th'[q].pc # "sock"
  BY <1>9, <1>12
<1>20. Turning(wire)' /\ Turning(out.sendBuf)' /\ (wire' # <<>> => wire'[1].e = 0 /\ wire'[1].s = 0)
  BY <1>3, <1>8, <1>15, <1>16 DEF OutInv, Keyed, Turning
<1>21. ~SockFails' => Follows(out.epoch, out.seq)'
  BY <1>3, <1>10, <1>15, <1>16, <1>17 DEF Follows
<1>22. Keyed'
  BY <1>8, <1>14, <1>19, <1>20, <1>21 DEF Keyed
<1> QED
  BY <1>7, <1>18, <1>22 DEF OutInv

\* FlushEnds: what was buffered has reached the peer, or is lost with the socket.
LEMMA FlushEndsKeys ==
  ASSUME IInv, OpenInv, OutInv, NEW p \in Procs, FlushEnds(p)
  PROVE  OutInv'
<1> DEFINE R == Records(OutKinds)
<1>1. /\ th \in [Procs -> Thread] /\ out \in OutState /\ lock \in LockState
      /\ out.sendBuf \in Seq(R) /\ wire \in Seq(R) /\ out.epoch \in Nat
  BY OutTypes DEF IInv, Typed, TypeOK
<1>2. /\ th[p].pc = "flushing" /\ out' = [out EXCEPT !.sendBuf = <<>>, !.buffering = FALSE]
      /\ UNCHANGED <<cfg, handshakeErr, in, sock, deadline, peer>>
      /\ \/ SockAccepts /\ wire' = wire \o th[p].chunk
         \/ SockFails /\ wire' = wire
  BY DEF FlushEnds, At
<1>3. out'.sendBuf = <<>> /\ out'.epoch = out.epoch /\ out'.seq = out.seq
  BY <1>1, <1>2 DEF OutState
<1>4. /\ th[p].stage \in {"flight", "failed"} /\ HoldsHs(th[p]) /\ HoldsIn(th[p])
      /\ lock.hs = p /\ p # Free /\ ~complete
      /\ cfg.v13 => (handshakeErr <=> th[p].stage = "failed")
  BY <1>2, KnownOpen DEF Shape, HoldsHs, HoldsIn, Shaking, Holds
<1>5. PICK t : /\ Moves(p, t) /\ t.pc \notin {"out", "sock", "use", "flush", "flushing", "hs_in"}
               /\ (t.pc = "rec" => ~cfg.v13) /\ t.stage # "sh"
               /\ \/ th[p].stage = "failed" /\ complete' = complete
                  \/ lock' = lock /\ (complete' => complete \/ th[p].stage = "flight")
  <2>1. th'[p] \in Thread
    BY NextInv DEF Next, Step, IInv, Typed
  <2>2. ASSUME NEW u, th' = [th EXCEPT ![p] = u]
        PROVE  Moves(p, u) /\ u = th'[p]
    BY <1>1, <2>1, <2>2 DEF Moves
  <2>3. CASE /\ th[p].stage = "failed" /\ UNCHANGED complete
             /\ th' = [AfterHandshake(p, FALSE) EXCEPT ![p].chunk = <<>>]
    <3> DEFINE l == CASE Interrupted(p) -> "hs_done" [] ~Interrupted(p) -> "end"
               k == IF th[p].op = "write" THEN "data" ELSE "none"
               u == [th[p] EXCEPT !.stage = "none", !.pc = l, !.send = k, !.chunk = <<>>]
    <3>1. th[p].op \in {"read", "write", "handshake"}
      BY <1>4, KnownOpen DEF Shape, Shaking
    <3>2. l \in {"hs_done", "end"}
      OBVIOUS
    <3>3. th' = [th EXCEPT ![p] = u]
      BY <1>1, <2>3, <3>1 DEF AfterHandshake
    <3> HIDE DEF l, k
    <3>4. u.pc = l /\ u.stage = "none"
      BY <1>1 DEF Thread
    <3> HIDE DEF u
    <3> QED
      BY <2>2, <2>3, <3>2, <3>3, <3>4
  <2>4. ASSUME NEW l \in {"hs_fail", "hs_ok", "rec"}, NEW g \in {"flight", "ccs"},
               th' = [th EXCEPT ![p].chunk = <<>>, ![p].pc = l, ![p].stage = g],
               th[p].stage = "flight", l = "rec" => ~cfg.v13, lock' = lock
        PROVE  \E u : /\ Moves(p, u)
                      /\ u.pc \notin {"out", "sock", "use", "flush", "flushing", "hs_in"}
                      /\ (u.pc = "rec" => ~cfg.v13) /\ u.stage # "sh"
                      /\ lock' = lock /\ (complete' => complete \/ th[p].stage = "flight")
    <3> DEFINE u == [th[p] EXCEPT !.chunk = <<>>, !.pc = l, !.stage = g]
    <3>1. th' = [th EXCEPT ![p] = u]
      BY <2>4
    <3>2. u.pc = l /\ u.stage = g
      BY <1>1 DEF Thread
    <3> HIDE DEF u
    <3> QED
      BY <2>2, <2>4, <3>1, <3>2
  <2>5. ASSUME NEW l, th' = [[th EXCEPT ![p].chunk = <<>>] EXCEPT ![p].pc = l],
               th[p].stage = "flight"
        PROVE  th' = [th EXCEPT ![p].chunk = <<>>, ![p].pc = l, ![p].stage = "flight"]
    <3>1. [[th[p] EXCEPT !.chunk = <<>>] EXCEPT !.pc = l]
            = [th[p] EXCEPT !.chunk = <<>>, !.pc = l, !.stage = "flight"]
      BY <1>1, <2>5 DEF Thread
    <3> QED
      BY <1>1, <2>5, <3>1
  <2>6. CASE /\ th[p].stage = "flight" /\ UNCHANGED <<lock, complete>>
             /\ th' = [[th EXCEPT ![p].chunk = <<>>] EXCEPT ![p].pc = "hs_fail"]
    BY <2>4, <2>5, <2>6
  <2>7. CASE /\ th[p].stage = "flight" /\ complete' = TRUE /\ UNCHANGED lock
             /\ th' = [[th EXCEPT ![p].chunk = <<>>] EXCEPT ![p].pc = "hs_ok"]
    BY <2>4, <2>5, <2>7
  <2>8. CASE /\ ~cfg.v13 /\ th[p].stage = "flight" /\ UNCHANGED <<lock, complete>>
             /\ th' = [[th EXCEPT ![p].chunk = <<>>] EXCEPT ![p].pc = "rec", ![p].stage = "ccs"]
    <3>1. th' = [th EXCEPT ![p].chunk = <<>>, ![p].pc = "rec", ![p].stage = "ccs"]
      BY <1>1, <2>8
    <3> QED
      BY <2>4, <2>8, <3>1
  <2> QED
    BY <2>3, <2>6, <2>7, <2>8 DEF FlushEnds
<1>6. SockFails' <=> SockFails
  BY <1>2 DEF SockFails
<1>7. th'[p] = t /\ \A q \in Procs : q # p => th'[q] = th[q]
  BY <1>1, <1>5 DEF Moves
<1>8. Epochs'
  <2>1. cfg.v13 /\ ~complete' /\ ~handshakeErr' => lock'.hs # Free
    BY <1>2, <1>4, <1>5
  <2>2. cfg.v13 => ~Early(t) /\ ~Midway(t) /\ ~Ending(t) /\ ~Ended(t) /\ ~Owes(t)
    BY <1>5 DEF Early, Midway, Ending, Ended, Owes, AtSend
  <2>3. cfg.v13 /\ complete' => in'.epoch = out'.epoch /\ out'.epoch \in Nat
    <3> SUFFICES ASSUME cfg.v13, complete' PROVE in'.epoch = out'.epoch /\ out'.epoch \in Nat
      OBVIOUS
    <3>1. Ended(th[p])
      BY <1>2, <1>4, <1>5 DEF Ended
    <3>2. in.epoch = 2 /\ out.epoch = 2
      BY <3>1 DEF OutInv, Epochs
    <3> QED
      BY <1>1, <1>2, <1>3, <3>2
  <2> QED
    BY <1>2, <1>4, <1>5, <2>1, <2>2, <2>3, ShakerEpochs
<1>9. \A q \in Procs : q # p => ~Hailing(th[q])
  BY <1>4, Alone DEF Hailing, HoldsHs, Shaking
<1>10. Alone13'
  <2> SUFFICES ASSUME cfg.v13 PROVE Alone13'
    BY <1>2 DEF Alone13
  <2>1. ~AtSend(t) /\ ~Hailing(t)
    BY <1>5 DEF AtSend, Hailing
  <2>2. ASSUME NEW q \in Procs, AtSend(th'[q])
        PROVE  /\ th'[q].send \in {"data", "close_notify"} =>
                    th'[q].pc = "out" /\ th'[q].send = "data"
               /\ th'[q].send # "ccs"
    BY <1>4, <1>7, <2>1, <2>2 DEF OutInv, Alone13
  <2>3. \A q \in Procs : ~Hailing(th'[q])
    BY <1>7, <1>9, <2>1
  <2> QED
    BY <2>2, <2>3 DEF Alone13
<1>11. out.sendBuf # <<>> /\ (~SockFails => th[p].chunk = out.sendBuf)
  BY <1>2 DEF IInv, Buffered
<1>12. \A q \in Procs : th'[q].pc # "sock"
  BY <1>5, <1>7, <1>11 DEF IInv, Buffered
<1>13. \A r, e : Turns(r, e)' <=> Turns(r, e)
  BY <1>2 DEF Turns, LastOfItsKey
<1>14. Turning(out.sendBuf)'
  BY <1>3 DEF Turning
<1>15. CASE SockFails /\ wire' = wire
  <2>1. Turning(wire)' /\ (wire' # <<>> => wire'[1].e = 0 /\ wire'[1].s = 0)
    BY <1>13, <1>15 DEF OutInv, Keyed, Turning
  <2>2. Keyed'
    BY <1>3, <1>6, <1>12, <1>14, <1>15, <2>1 DEF Keyed
  <2> QED
    BY <1>8, <1>10, <2>2 DEF OutInv
<1>16. CASE SockAccepts /\ wire' = wire \o th[p].chunk
  <2>1. ~SockFails
    BY <1>16 DEF SockAccepts, SockFails
  <2>2. wire' = wire \o out.sendBuf
    BY <1>11, <1>16, <2>1
  <2>3. Follows(out.sendBuf[1].e, out.sendBuf[1].s)
    BY <1>11, <2>1 DEF OutInv, Keyed
  <2>4. /\ Turning(wire) /\ Turning(out.sendBuf)
        /\ wire # <<>> => wire[1].e = 0 /\ wire[1].s = 0
        /\ Turns(out.sendBuf[Len(out.sendBuf)], out.epoch)
    BY <1>11 DEF OutInv, Keyed
  <2>5. /\ wire # <<>> => Turns(wire[Len(wire)], out.sendBuf[1].e)
        /\ wire = <<>> => out.sendBuf[1].e = 0 /\ out.sendBuf[1].s = 0
    BY <2>3 DEF Follows
  <2>6. /\ Turning(wire') /\ wire' # <<>> /\ wire'[1].e = 0 /\ wire'[1].s = 0
        /\ wire'[Len(wire')] = out.sendBuf[Len(out.sendBuf)]
    BY <1>1, <1>11, <2>2, <2>4, <2>5, TurnConcat
  <2>7. Turning(wire)'
    BY <1>13, <2>6 DEF Turning
  <2>8. Follows(out.epoch, out.seq)'
    BY <1>3, <1>13, <2>4, <2>6 DEF Follows
  <2>9. Keyed'
    BY <1>3, <1>12, <1>14, <2>6, <2>7, <2>8 DEF Keyed
  <2> QED
    BY <1>8, <1>10, <2>9 DEF OutInv
<1> QED
  BY <1>2, <1>15, <1>16

-----------------------------------------------------------------------------
(* What the peer asks for, and the whole invariant *)

\* What a peer sends that always asks for our update.
Owing == Pieces \ {"ku"}
Asking == TheirKinds \ {"ku"}

\* Nothing that is read changes.
LEMMA SameAsked ==
  ASSUME Asked, cfg' = cfg, in'.hand = in.hand, peer'.queue = peer.queue
  PROVE  Asked'
BY DEF Asked

\* A record of such a peer holds such messages.
LEMMA AskedMessages ==
  ASSUME NEW h \in Seq(Owing), NEW k \in Asking
  PROVE  Joined(h, Messages(k)) \in Seq(Owing)
<1>1. Messages(k) \in Seq(Owing)
  <2>1. CASE k = "tickets"
    <3>1. Messages(k) = <<"ticket", "ticket">>
      BY <2>1 DEF Messages
    <3> QED
      BY <3>1 DEF Owing, Pieces
  <2>2. CASE k \in Owing
    <3>1. Messages(k) = <<k>>
      BY <2>2 DEF Messages, Owing, Pieces
    <3> QED
      BY <2>2, <3>1
  <2>3. CASE k # "tickets" /\ k \notin Owing
    <3>1. Messages(k) = <<>>
      BY <2>3 DEF Messages, Owing, Asking, Pieces
    <3> QED
      BY <3>1
  <2> QED
    BY <2>1, <2>2, <2>3
<1>2. h # <<>> => Front(h) \in Seq(Owing)
  BY DEF Front
<1>3. "ticket" \in Owing
  BY DEF Owing, Pieces
<1> QED
  BY <1>1, <1>2, <1>3 DEF Joined

\* Calls, and the steps of a goroutine that reads nothing.
LEMMA QuietAsked ==
  ASSUME IInv, Asked, NEW p \in Procs,
         \/ Begin(p) \/ Interrupt(p) \/ Cancel(p)
         \/ GetState(p) \/ LoadComplete(p) \/ Shut(p) \/ Return(p)
         \/ HandshakeFast(p) \/ HandshakeLock(p) \/ HandshakeLockIn(p)
         \/ HandshakeSucceeds(p) \/ HandshakeFails(p) \/ HandshakeDone(p) \/ HandshakeResult(p)
         \/ SendRefused(p) \/ SealFails(p) \/ SendBegins(p)
         \/ FlushBegins(p) \/ FlushNothing(p) \/ FlushEnds(p)
         \/ Fail(p) \/ ReadLock(p) \/ UseNothing(p) \/ Renegotiate(p)
  PROVE  Asked'
<1>1. cfg' = cfg /\ in' = in /\ peer' = peer
  BY DEF Begin, Write, Close, CloseWrite, Read, HandshakeContext, ConnectionState, Call,
         Interrupt, Cancel, GetState, LoadComplete, Shut, Return, HandshakeFast, HandshakeLock,
         HandshakeLockIn, HandshakeSucceeds, HandshakeFails, HandshakeDone, HandshakeResult,
         SendRefused, SealFails, SendBegins, FlushBegins, FlushNothing, FlushEnds, Fail,
         ReadLock, UseNothing, Renegotiate
<1> QED
  BY <1>1, SameAsked

\* Steps that set another field of in.
LEMMA BesideAsked ==
  ASSUME IInv, Asked, NEW p \in Procs,
         SendBuffered(p) \/ SendEnds(p) \/ ReadError(p) \/ ReadLoop(p)
  PROVE  Asked'
<1>1. in \in InState
  BY DEF IInv, Typed, TypeOK
<1>2. cfg' = cfg /\ peer' = peer
  BY DEF SendBuffered, SendEnds, ReadError, ReadLoop
<1>3. in'.hand = in.hand
  BY <1>1 DEF SendBuffered, SendEnds, AfterRecord, ReadError, ReadLoop, InState
<1> QED
  BY <1>2, <1>3, SameAsked

\* A record is read.
LEMMA RecordAsked ==
  ASSUME IInv, Asked, NEW p \in Procs, ReadRecord(p)
  PROVE  Asked'
<1> DEFINE r == Head(peer.queue)
           i == IF Skipped(r) THEN in ELSE [in EXCEPT !.seq = @ + 1]
           j == IF Useless(r) THEN i ELSE [i EXCEPT !.retry = 0]
<1>1. /\ in \in InState /\ peer \in PeerType /\ cfg' = cfg
      /\ peer.queue # <<>> /\ peer'.queue = Tail(peer.queue)
  BY DEF IInv, Typed, TypeOK, ReadRecord, PeerType
<1>2. j.hand = in.hand /\ DOMAIN j = DOMAIN in
  BY <1>1 DEF InState
<1>3. \/ in' = in \/ in' = j \/ (\E x : in' = [j EXCEPT !.err = x])
      \/ in' = [j EXCEPT !.retry = @ + 1] \/ in' = Rekey(j) \/ in' = [j EXCEPT !.input = TRUE]
      \/ in' = [j EXCEPT !.hand = Joined(@, Messages(r.k))]
  BY DEF ReadRecord, HandleRecord, Retry
<1> HIDE DEF i, j
<1>4. in'.hand \in {in.hand, Joined(in.hand, Messages(r.k))}
  BY <1>1, <1>2, <1>3 DEF Rekey, InState
<1>5. ASSUME "ku" \notin cfg.kinds
      PROVE  in'.hand \in Seq(Owing) /\ peer'.queue \in Seq(Records(Asking))
  <2>1. in.hand \in Seq(Owing) /\ peer.queue \in Seq(Records(Asking))
    BY <1>5 DEF Asked, Owing, Asking
  <2>2. r \in Records(Asking) /\ Tail(peer.queue) \in Seq(Records(Asking))
    BY <1>1, <2>1
  <2>3. r.k \in Asking
    BY <2>2 DEF Records
  <2> HIDE DEF r
  <2> QED
    BY <1>1, <1>4, <2>1, <2>2, <2>3, AskedMessages
<1> QED
  BY <1>1, <1>5 DEF Asked, Owing, Asking

\* A message is taken.
LEMMA MessageAsked ==
  ASSUME IInv, Asked, NEW p \in Procs,
         \/ TakeServerHello(p) \/ TakeFlight(p) \/ TakeFinished(p) \/ RejectMessage(p)
         \/ PostHandshake(p) \/ HelloRequest(p)
  PROVE  Asked'
<1>1. in \in InState /\ in.hand \in Seq(Pieces)
  BY InTypes DEF IInv, Typed, TypeOK
<1>2. cfg' = cfg /\ peer' = peer /\ in.hand # <<>>
  BY DEF TakeServerHello, TakeFlight, TakeFinished, RejectMessage, PostHandshake, HelloRequest,
         Message
<1>3. \E i \in {Taken, Counted} : in' = i \/ in' = Rekey(i)
  BY DEF TakeServerHello, TakeFlight, TakeFinished, RejectMessage, PostHandshake, HelloRequest,
         NextReadKey
<1>4. in'.hand = Tail(in.hand)
  BY <1>1, <1>3, TakenFields
<1> QED
  BY <1>2, <1>4 DEF Asked

\* The peer adds what it sends.
LEMMA PeerAsked ==
  ASSUME IInv, Asked, Peer
  PROVE  Asked'
<1>1. peer \in PeerType /\ cfg' = cfg /\ in' = in /\ peer.epoch \in Nat /\ peer.seq \in Nat
  <2>1. peer \in PeerType
    BY DEF IInv, Typed
  <2> QED
    BY <2>1, PeerTypes DEF Peer, PeerHello, PeerFlight, PeerFinished, PeerSends, PeerStopsReading,
                           PeerCloses
<1> SUFFICES ASSUME "ku" \notin cfg.kinds
             PROVE  peer'.queue \in Seq(Records(Asking))
  BY <1>1 DEF Asked, Asking
<1>2. peer.queue \in Seq(Records(Asking))
  BY DEF Asked, Asking
<1>3. ASSUME NEW k \in Asking
      PROVE  PeerRecord(k) \in Records(Asking)
  BY <1>1, <1>3 DEF PeerRecord, Records
<1>4. ASSUME NEW k \in Asking, peer'.queue = Append(peer.queue, PeerRecord(k))
      PROVE  peer'.queue \in Seq(Records(Asking))
  BY <1>2, <1>3, <1>4
<1>5. CASE PeerHello
  <2> DEFINE x == [PeerNext EXCEPT !.hellos = @ + 1, !.queue = Append(@, PeerRecord("sh"))]
  <2>1. x.queue = Append(peer.queue, PeerRecord("sh")) /\ DOMAIN x = DOMAIN peer
    BY <1>1 DEF PeerNext, PeerType
  <2>2. PICK b \in BOOLEAN : b = (cfg.v13 = TRUE)
    OBVIOUS
  <2>3. peer' = IF b THEN Rekey(x) ELSE x
    BY <1>5, <2>2 DEF PeerHello
  <2> HIDE DEF x
  <2>4. peer'.queue = Append(peer.queue, PeerRecord("sh"))
    BY <1>1, <2>1, <2>3, RekeyedPeer
  <2>5. "sh" \in Asking
    BY DEF Asking, TheirKinds
  <2> QED
    BY <1>4, <2>4, <2>5
<1>6. CASE PeerFlight
  <2> DEFINE x == [PeerNext EXCEPT !.flights = @ + 1, !.queue = Append(@, PeerRecord("flight"))]
  <2>1. x.queue = Append(peer.queue, PeerRecord("flight")) /\ DOMAIN x = DOMAIN peer
    BY <1>1 DEF PeerNext, PeerType
  <2>2. PICK b \in BOOLEAN : b = (cfg.v13 = TRUE)
    OBVIOUS
  <2>3. peer' = IF b THEN Rekey(x) ELSE x
    BY <1>6, <2>2 DEF PeerFlight
  <2> HIDE DEF x
  <2>4. peer'.queue = Append(peer.queue, PeerRecord("flight"))
    BY <1>1, <2>1, <2>3, RekeyedPeer
  <2>5. "flight" \in Asking
    BY DEF Asking, TheirKinds
  <2> QED
    BY <1>4, <2>4, <2>5
<1>7. CASE PeerSends
  <2>1. PICK k \in cfg.kinds :
          LET unsealed == k = "bad" \/ (cfg.v13 /\ k = "ccs")
              q == [(IF unsealed THEN peer ELSE PeerNext) EXCEPT
                      !.sent = @ + 1, !.queue = Append(@, PeerRecord(k)),
                      !.half = (k = "half" \/ (@ /\ k # "rest")),
                      !.bad = @ \/ k = "bad" \/ (k = "ccs" /\ ~cfg.v13)
                                \/ (k = "tickets" /\ ~cfg.client)]
          IN  peer' = IF k \in {"ku", "kur"} /\ cfg.v13 THEN Rekey(q) ELSE q
    BY <1>7 DEF PeerSends
  <2>2. k \in Asking
    <3>1. k \in Kinds
      BY ConnAssumption DEF IInv, Typed, TypeOK, Case
    <3> QED
      BY <3>1 DEF Asking, TheirKinds
  <2> DEFINE y == IF k = "bad" \/ (cfg.v13 /\ k = "ccs") THEN peer ELSE PeerNext
             x == [y EXCEPT !.sent = @ + 1, !.queue = Append(@, PeerRecord(k)),
                            !.half = (k = "half" \/ (@ /\ k # "rest")),
                            !.bad = @ \/ k = "bad" \/ (k = "ccs" /\ ~cfg.v13)
                                      \/ (k = "tickets" /\ ~cfg.client)]
             h == k = "half" \/ (y.half /\ k # "rest")
             d == y.bad \/ k = "bad" \/ (k = "ccs" /\ ~cfg.v13) \/ (k = "tickets" /\ ~cfg.client)
  <2>3. y.queue = peer.queue /\ DOMAIN y = {"queue", "epoch", "seq", "sent", "hellos", "flights",
                                            "fins", "half", "bad", "eof", "reset", "reads"}
    BY <1>1 DEF PeerNext, PeerType
  <2>4. PICK b \in BOOLEAN : b = (cfg.v13 /\ k \in {"ku", "kur"})
    OBVIOUS
  <2>5. peer' = IF b THEN Rekey(x) ELSE x
    BY <2>1, <2>4
  <2> HIDE DEF y
  <2>6. x = [y EXCEPT !.sent = y.sent + 1, !.queue = Append(y.queue, PeerRecord(k)),
                      !.half = h, !.bad = d]
    BY <2>3
  <2> HIDE DEF x, h, d
  <2>7. x.queue = Append(peer.queue, PeerRecord(k)) /\ DOMAIN x = DOMAIN peer
    BY <1>1, <2>3, <2>6 DEF PeerType
  <2>8. peer'.queue = Append(peer.queue, PeerRecord(k))
    BY <1>1, <2>5, <2>7, RekeyedPeer
  <2> QED
    BY <1>4, <2>2, <2>8
<1>8. CASE PeerFinished
  <2>1. "ccs" \in Asking /\ "fin" \in Asking
    BY DEF Asking, TheirKinds, Kinds
  <2>2. PICK e \in Nat, z \in Nat : e = peer.epoch + 1 /\ z = 0
    BY <1>1
  <2>3. [k |-> "fin", e |-> e, s |-> z] \in Records(Asking)
    BY <2>1, <2>2 DEF Records
  <2>4. peer'.queue = peer.queue \o <<PeerRecord("ccs"), [k |-> "fin", e |-> e, s |-> z]>>
    BY <1>1, <1>8, <2>2 DEF PeerFinished, PeerType
  <2>5. PICK a \in Records(Asking), b \in Records(Asking) :
          a = PeerRecord("ccs") /\ b = [k |-> "fin", e |-> e, s |-> z]
    BY <1>3, <2>1, <2>3
  <2> QED
    BY <1>2, <2>4, <2>5
<1>9. CASE PeerStopsReading \/ PeerCloses
  <2>1. peer'.queue = peer.queue
    BY <1>1, <1>9 DEF PeerStopsReading, PeerCloses, PeerType
  <2> QED
    BY <1>2, <2>1
<1> QED
  BY <1>5, <1>6, <1>7, <1>8, <1>9 DEF Peer

\* Every step preserves Asked.
LEMMA NextAsked ==
  ASSUME IInv, Asked, [Next]_vars
  PROVE  Asked'
<1>1. ASSUME NEW p \in Procs, Step(p)
      PROVE  Asked'
  BY <1>1, QuietAsked, BesideAsked, RecordAsked, MessageAsked DEF Step
<1>2. CASE UNCHANGED vars
  <2>1. cfg' = cfg /\ in' = in /\ peer' = peer
    BY <1>2 DEF vars
  <2> QED
    BY <2>1, SameAsked
<1> QED
  BY <1>1, <1>2, QuietAsked, PeerAsked DEF Next

\* Nothing has been sent on a new Conn.
LEMMA InitKeys ==
  ASSUME Init
  PROVE  KeyInv
<1>1. /\ in.hand = <<>> /\ in.epoch = 0 /\ out.epoch = 0 /\ out.seq = 0 /\ out.sendBuf = <<>>
      /\ wire = <<>> /\ peer.queue = <<>>
      /\ \A p \in Procs : th[p].pc = "idle" /\ th[p].stage = "none"
  BY DEF Init, Idle
<1>2. Asked
  BY <1>1 DEF Asked
<1>3. Epochs
  BY <1>1 DEF Epochs, Early, Midway, Ending, Ended, Answering, AtSend
<1>4. Alone13
  BY <1>1 DEF Alone13, AtSend, Hailing
<1>5. Keyed
  BY <1>1 DEF Keyed, Turning, Follows
<1> QED
  BY <1>2, <1>3, <1>4, <1>5 DEF KeyInv, OutInv

\* The peer, the interrupter and the callers' contexts send nothing of ours.
LEMMA AsideKeys ==
  ASSUME IInv, OutInv,
         \/ Peer \/ UNCHANGED vars
         \/ \E p \in Procs : Interrupt(p) \/ Cancel(p)
  PROVE  OutInv'
<1>1. UNCHANGED <<cfg, complete, handshakeErr, lock, out, in, wire, th>>
  BY DEF Peer, PeerHello, PeerFlight, PeerFinished, PeerSends, PeerStopsReading, PeerCloses,
         Interrupt, Cancel, vars, shake
<1>2. SockFails => SockFails'
  <2>1. CASE ~Peer
    <3>1. deadline' = deadline /\ peer' = peer /\ (sock = "closed" => sock' = "closed")
      BY <2>1 DEF Interrupt, InterruptCloses, Cancel, vars
    <3> QED
      BY <3>1 DEF SockFails
  <2>2. CASE Peer
    BY <2>2, PeerInv
  <2> QED
    BY <2>1, <2>2
<1> QED
  BY <1>1, <1>2, UnmovedLemma DEF OutInv

\* Every step preserves the invariant of the keys.
LEMMA NextKeys ==
  ASSUME IInv, OpenInv, KeyInv, [Next]_vars
  PROVE  KeyInv'
<1>1. OutInv /\ Asked /\ Asked'
  BY NextAsked DEF KeyInv
<1>2. ASSUME NEW p \in Procs, Step(p)
      PROVE  OutInv'
  BY <1>1, <1>2, CallsKeys, MovesKeys, LoopKeys, ContextKeys, RecordKeys, MessageKeys,
     PostHandshakeKeys, SendBeginsKeys, TakeServerHelloKeys, TakeFlightKeys, SendBufferedKeys,
     SendEndsKeys, FlushEndsKeys
     DEF Step
<1>3. OutInv'
  BY <1>1, <1>2, CallsKeys, AsideKeys DEF Next
<1> QED
  BY <1>1, <1>3 DEF KeyInv

\* In every state our keys and those of the peer have changed at the same records, and
\* the goroutines that are about to send or to change a key are where the keys say.
THEOREM KeysInStep == Spec => []KeyInv
<1>1. Init => KeyInv
  BY InitKeys
<1>2. IInv /\ OpenInv /\ KeyInv /\ [Next]_vars => KeyInv'
  BY NextKeys
<1> QED
  BY <1>1, <1>2, ConnInvariant, RecordsInLine, PTL DEF Spec

\* The peer can open every record we send: whichever goroutines send, buffered or not,
\* numbers run on under each key, and the key changes behind our KeyUpdate, our
\* change_cipher_spec, our TLS 1.3 Finished, and nowhere else but behind a TLS 1.3
\* ClientHello.
THEOREM NumbersInOrder == Spec => []WireDecrypts
<1>1. IInv /\ KeyInv => WireDecrypts
  <2> SUFFICES ASSUME IInv, KeyInv
               PROVE  WireDecrypts
    OBVIOUS
  <2>1. Keyed /\ Turning(wire) /\ Chained(wire) /\ wire \in Seq(Records(OutKinds))
    BY DEF KeyInv, OutInv, Keyed, IInv, Numbered, Typed, TypeOK
  <2>2. ASSUME NEW n \in 1 .. Len(wire) - 1
        PROVE  \/ /\ ~LastOfItsKey(wire[n])
                  /\ wire[n + 1].e = wire[n].e /\ wire[n + 1].s = wire[n].s + 1
               \/ /\ LastOfItsKey(wire[n]) \/ (wire[n].k = "hello" /\ cfg.v13)
                  /\ wire[n + 1].e = wire[n].e + 1 /\ wire[n + 1].s = 0
    <3>1. wire[n].e \in Nat
      <4>1. wire[n] \in Records(OutKinds)
        BY <2>1
      <4> QED
        BY <4>1 DEF Records
    <3>2. Turns(wire[n], wire[n + 1].e) /\ Then(wire[n], wire[n + 1].e, wire[n + 1].s)
      BY <2>1 DEF Turning, Chained
    <3> QED
      BY <3>1, <3>2 DEF Turns, Then
  <2> QED
    BY <2>1, <2>2 DEF WireDecrypts, Keyed
<1> QED
  BY <1>1, ConnInvariant, KeysInStep, PTL

\* Our key has changed as often as the peer asked, or the Conn cannot write any more: no
\* answer to a KeyUpdate is lost, whoever reads and whoever holds out.Mutex meanwhile,
\* and of a REALITY server, whose answer encrypt cannot pad, the next Write fails.
THEOREM UpdatesAnswered == Spec => []UpdatesInStep
<1>1. IInv /\ KeyInv => UpdatesInStep
  <2> SUFFICES ASSUME IInv, KeyInv, cfg.v13, complete, out.err = "none",
                      \A p \in Procs : ~Answering(p)
               PROVE  /\ out.epoch <= in.epoch
                      /\ "ku" \notin cfg.kinds => out.epoch = in.epoch
                      /\ ~cfg.client => out.epoch = 0
    BY DEF UpdatesInStep
  <2>1. out.epoch <= in.epoch /\ ("ku" \notin cfg.kinds => out.epoch = in.epoch)
    BY DEF KeyInv, OutInv, Epochs
  <2>2. ~cfg.client => out.epoch = 0
    BY DEF IInv, Padded
  <2> QED
    BY <2>1, <2>2
<1> QED
  BY <1>1, ConnInvariant, KeysInStep, PTL

=============================================================================
