-------------------------------- MODULE Conn --------------------------------
(***************************************************************************)
(* The goroutines that share one Conn (conn.go): calls of Write, Read,     *)
(* Close, CloseWrite, HandshakeContext and ConnectionState, the            *)
(* interrupter goroutine of HandshakeContext, and the peer.                *)
(*                                                                         *)
(* A record is its kind, the number of the key it is protected with        *)
(* (epoch) and its sequence number; cryptography is the equality of epoch  *)
(* and sequence number.  The handshake is its flights: our hello, the      *)
(* peer's flight, our Finished and, before TLS 1.3, the peer's Finished,   *)
(* with the key changes between them.  A hello is the ClientHello, sh the  *)
(* ServerHello, flight what follows it up to the client's turn.            *)
(***************************************************************************)
EXTENDS Naturals, Sequences, FiniteSets, SequencesExt

CONSTANTS
    Procs,        \* goroutines that call the methods of the Conn
    Ops,          \* the methods each of them calls
    MaxUseless,   \* maxUselessRecords
    Cases,        \* the connections and peers looked at, see Case
    Free          \* no goroutine holds the mutex

Kinds == {"data", "empty", "warning", "close_notify", "fatal", "ccs", "bad", "ticket",
          "tickets", "ku", "kur", "hello_request", "half", "rest"}

(* client: Client made the Conn, which has not shaken hands yet; otherwise *)
(* the REALITY server returned it, its handshake complete.  The rest is    *)
(* the world: the goroutines that call and how often each does, the kinds  *)
(* and the number of the records the peer sends beyond its handshake       *)
(* flights, and whether it may stop reading or close.                      *)
Case == [client : BOOLEAN, v13 : BOOLEAN, reneg : {"never", "once", "freely"},
         team : SUBSET Procs, calls : Nat, kinds : SUBSET Kinds, sends : Nat,
         leaves : BOOLEAN]

ASSUME ConnAssumption ==
    /\ Cases \subseteq {f \in Case : f.client \/ f.v13}
    /\ Free \notin Procs /\ MaxUseless \in Nat

VARIABLES
    cfg,          \* the Case
    complete,     \* isHandshakeComplete
    handshakeErr, \* handshakeErr # nil
    handshakes,   \* handshakes
    lock,         \* holders of handshakeMutex, in.Mutex and out.Mutex
    active,       \* activeCall >> 1
    closing,      \* activeCall & 1
    out,          \* out, buffering, sendBuf and closeNotifySent
    in,           \* in, retryCount, hand and input
    sock,         \* the underlying connection: "open" or "closed" by us
    deadline,     \* its write deadline: "none", "soon" or "past"
    wire,         \* the records the peer got
    peer,         \* the peer: what it sent and its own record layer
    th,           \* the goroutines
    calls,        \* how often each has called
    intr          \* ctx and the interrupter goroutine of HandshakeContext

shake == <<complete, handshakeErr, handshakes>>
interlock == <<active, closing>>
vars == <<cfg, shake, lock, interlock, out, in, sock, deadline, wire, peer,
          th, calls, intr>>

-----------------------------------------------------------------------------
(* Records *)

AlertKinds == {"warning", "close_notify", "fatal"}

(* The handshake messages in a record of each kind.  "half" is a message   *)
(* cut short by the end of its record, "rest" the other part of it.        *)
Messages(k) ==
    CASE k = "tickets" -> <<"ticket", "ticket">>
      [] k \in {"sh", "flight", "fin", "ticket", "ku", "kur", "hello_request",
                "half", "rest"} -> <<k>>
      [] OTHER -> <<>>

(* c.hand.Write *)
Joined(hand, msgs) ==
    IF hand # <<>> /\ Last(hand) = "half" /\ msgs = <<"rest">>
    THEN Append(Front(hand), "ticket")
    ELSE hand \o msgs

(* setTrafficSecret, changeCipherSpec *)
Rekey(half) == [half EXCEPT !.epoch = @ + 1, !.seq = 0]

-----------------------------------------------------------------------------
(* Goroutines *)

At(p, l) == th[p].pc = l

Go(p, l) == th' = [th EXCEPT ![p].pc = l]

(* A goroutine's call returns: pc "end" is what its defers still have to do. *)
Idle == [op |-> "none", pc |-> "idle", send |-> "none", stage |-> "none",
         reneg |-> FALSE, alert |-> "none", inerr |-> FALSE, chunk |-> <<>>]

(* The goroutine waits for out.Mutex, to send a record of kind k. *)
Sending(p, k) == [th EXCEPT ![p].pc = "out", ![p].send = k]

(* sendAlert(a); e: its result becomes in.err as well. *)
Alerting(p, a, e) ==
    [th EXCEPT ![p].pc = "out", ![p].send = "alert", ![p].alert = a,
               ![p].inerr = e]

Interrupted(p) == intr[p].state # "none"

(* How a call goes on once its handshake has returned. *)
AfterHandshake(p, ok) ==
    [th EXCEPT
       ![p].stage = "none",
       ![p].pc = CASE Interrupted(p) -> "hs_done"
                   [] ~Interrupted(p) /\ (~ok \/ th[p].op = "handshake") -> "end"
                   [] ~Interrupted(p) /\ ok /\ th[p].op = "read" -> "in"
                   [] ~Interrupted(p) /\ ok /\ th[p].op = "write" -> "out",
       ![p].send = IF th[p].op = "write" THEN "data" ELSE "none"]

-----------------------------------------------------------------------------
(* The calls *)

Called(p, op) ==
    /\ At(p, "idle") /\ p \in cfg.team /\ op \in Ops[p] /\ calls[p] < cfg.calls
    /\ calls' = [calls EXCEPT ![p] = @ + 1]

(* Write begins: the loop around CompareAndSwap is one atomic step. *)
Write(p) ==
    /\ Called(p, "write")
    /\ \/ closing /\ UNCHANGED <<active, th>>    \* net.ErrClosed
       \/ /\ ~closing /\ active' = active + 1
          /\ th' = [th EXCEPT ![p] = [Idle EXCEPT !.op = "write", !.pc = "hs_fast"]]
    /\ UNCHANGED <<cfg, shake, lock, closing, out, in, sock, deadline, wire, peer, intr>>

(* Close waits its turn for out.Mutex even when a Write is in flight. *)
CloseGoesToM1 == "load"

(* If a Write is in flight Close only breaks it. *)
CloseGoesTo == IF active # 0 THEN "shut" ELSE "load"

Close(p) ==
    /\ Called(p, "close")
    /\ \/ closing /\ UNCHANGED <<closing, th>>   \* net.ErrClosed
       \/ /\ ~closing /\ closing' = TRUE
          /\ th' = [th EXCEPT ![p] = [Idle EXCEPT !.op = "close", !.pc = CloseGoesTo]]
    /\ UNCHANGED <<cfg, shake, lock, active, out, in, sock, deadline, wire, peer, intr>>

(* CloseWrite, Read, ConnectionState *)
Call(p, op, l) ==
    /\ Called(p, op)
    /\ th' = [th EXCEPT ![p] = [Idle EXCEPT !.op = op, !.pc = l]]
    /\ UNCHANGED <<cfg, shake, lock, interlock, out, in, sock, deadline, wire, peer, intr>>

CloseWrite(p) == Call(p, "closewrite", "load")
Read(p) == Call(p, "read", "hs_fast")
HandshakeContext(p) == Call(p, "handshake", "hs_fast")
ConnectionState(p) == Call(p, "state", "state")

(* ConnectionState needs handshakeMutex for a moment. *)
GetState(p) ==
    /\ At(p, "state") /\ lock.hs = Free /\ Go(p, "end")
    /\ UNCHANGED <<cfg, shake, lock, interlock, out, in, sock, deadline, wire, peer,
                   calls, intr>>

(* Close and CloseWrite look whether there is a close_notify to send. *)
LoadComplete(p) ==
    /\ At(p, "load")
    /\ th' = CASE complete -> Sending(p, "close_notify")
               [] ~complete /\ th[p].op = "close" -> [th EXCEPT ![p].pc = "shut"]
               [] ~complete /\ th[p].op # "close" -> [th EXCEPT ![p].pc = "end"]
    /\ UNCHANGED <<cfg, shake, lock, interlock, out, in, sock, deadline, wire, peer,
                   calls, intr>>

(* c.conn.Close() *)
Shut(p) ==
    /\ At(p, "shut") /\ sock' = "closed" /\ Go(p, "end")
    /\ UNCHANGED <<cfg, shake, lock, interlock, out, in, deadline, wire, peer, calls, intr>>

(* The defers of a call, c.activeCall.Add(-2) among them. *)
Return(p) ==
    /\ At(p, "end")
    /\ th' = [th EXCEPT ![p] = Idle]
    /\ active' = IF th[p].op = "write" THEN active - 1 ELSE active
    /\ intr' = [intr EXCEPT ![p].cancelled = FALSE, ![p].late = FALSE]
    /\ UNCHANGED <<cfg, shake, lock, closing, out, in, sock, deadline, wire, peer, calls>>

-----------------------------------------------------------------------------
(* handshakeContext *)

(* The exit without locks; otherwise the interrupter starts if ctx can end. *)
HandshakeFast(p) ==
    /\ At(p, "hs_fast")
    /\ \/ complete /\ th' = AfterHandshake(p, TRUE) /\ UNCHANGED intr
       \/ /\ ~complete /\ Go(p, "hs_mutex")
          /\ intr' = IF th[p].op = "handshake"
                     THEN [intr EXCEPT ![p].state = "waiting"] ELSE intr
    /\ UNCHANGED <<cfg, shake, lock, interlock, out, in, sock, deadline, wire, peer, calls>>

(* Another goroutine may have shaken hands, or failed to, in the meantime. *)
HandshakeLock(p) ==
    /\ At(p, "hs_mutex") /\ lock.hs = Free
    /\ \/ handshakeErr /\ th' = AfterHandshake(p, FALSE) /\ UNCHANGED lock
       \/ ~handshakeErr /\ complete /\ th' = AfterHandshake(p, TRUE) /\ UNCHANGED lock
       \/ ~handshakeErr /\ ~complete /\ lock' = [lock EXCEPT !.hs = p] /\ Go(p, "hs_in")
    /\ UNCHANGED <<cfg, shake, interlock, out, in, sock, deadline, wire, peer, calls, intr>>

HandshakeLockIn(p) ==
    /\ At(p, "hs_in") /\ lock.in = Free
    /\ lock' = [lock EXCEPT !.in = p]
    /\ th' = [Sending(p, "hello") EXCEPT ![p].stage = "sh"]
    /\ UNCHANGED <<cfg, shake, interlock, out, in, sock, deadline, wire, peer, calls, intr>>

(* The initial handshake gives back both mutexes. *)
ReleaseBothM1 == [lock EXCEPT !.hs = Free]

ReleaseBoth == [lock EXCEPT !.hs = Free, !.in = Free]

(* handshakeFn or, in a renegotiation, clientHandshake returned nil. *)
HandshakeSucceeds(p) ==
    /\ At(p, "hs_ok")
    /\ handshakeErr' = FALSE /\ handshakes' = handshakes + 1
    /\ \/ /\ th[p].reneg
          /\ lock' = [lock EXCEPT !.hs = Free]
          /\ th' = [th EXCEPT ![p].pc = "use", ![p].stage = "none", ![p].reneg = FALSE]
       \/ ~th[p].reneg /\ lock' = ReleaseBoth /\ th' = AfterHandshake(p, TRUE)
    /\ UNCHANGED <<cfg, complete, interlock, out, in, sock, deadline, wire, peer, calls, intr>>

(* It returned an error.  Only handshakeContext flushes what is buffered.  *)
HandshakeFails(p) ==
    /\ At(p, "hs_fail")
    /\ handshakeErr' = TRUE
    /\ \/ /\ th[p].reneg
          /\ lock' = [lock EXCEPT !.hs = Free]
          /\ th' = [th EXCEPT ![p].pc = "fail", ![p].stage = "none", ![p].reneg = FALSE]
       \/ /\ ~th[p].reneg
          /\ th' = [th EXCEPT ![p].pc = "flush", ![p].stage = "failed"]
          /\ UNCHANGED lock
    /\ UNCHANGED <<cfg, complete, handshakes, interlock, out, in, sock, deadline, wire,
                   peer, calls, intr>>

(* close(done) *)
HandshakeDone(p) ==
    /\ At(p, "hs_done") /\ Go(p, "hs_wait")
    /\ intr' = [intr EXCEPT ![p].state = IF @ = "waiting" THEN "told" ELSE @]
    /\ UNCHANGED <<cfg, shake, lock, interlock, out, in, sock, deadline, wire, peer, calls>>

(* <-interruptRes; the context's error, if any, is what the caller gets. *)
HandshakeResult(p) ==
    /\ At(p, "hs_wait") /\ intr[p].state \in {"fired", "quiet"}
    /\ Go(p, "end")
    /\ intr' = [intr EXCEPT ![p].state = "none"]
    /\ UNCHANGED <<cfg, shake, lock, interlock, out, in, sock, deadline, wire, peer, calls>>

(* The interrupter notes the cancellation and does not close the Conn. *)
InterruptClosesM1 == sock

(* _ = c.conn.Close() *)
InterruptCloses == "closed"

(* The interrupter's select. *)
Interrupt(p) ==
    /\ \/ /\ intr[p].state \in {"waiting", "told"} /\ intr[p].cancelled
          /\ sock' = InterruptCloses
          /\ intr' = [intr EXCEPT ![p].state = "fired"]
       \/ /\ intr[p].state = "told"
          /\ intr' = [intr EXCEPT ![p].state = "quiet"]
          /\ UNCHANGED sock
    /\ UNCHANGED <<cfg, shake, lock, interlock, out, in, deadline, wire, peer, th, calls>>

(* The caller cancels the context of a HandshakeContext in progress; late: *)
(* the handshake was complete by then.                                     *)
Cancel(p) ==
    /\ th[p].op = "handshake" /\ ~intr[p].cancelled
    /\ intr' = [intr EXCEPT ![p].cancelled = TRUE, ![p].late = complete]
    /\ UNCHANGED <<cfg, shake, lock, interlock, out, in, sock, deadline, wire, peer, th, calls>>

-----------------------------------------------------------------------------
(* Sending one record, with out.Mutex held *)

(* Write sends whatever the state of the handshake. *)
MayWriteM1 == out.err = "none" /\ ~out.notified

(* The tests of Write once it has out.Mutex. *)
MayWrite == out.err = "none" /\ complete /\ ~out.notified

Refused(p) ==
    \/ th[p].send = "data" /\ ~MayWrite
    \/ th[p].send = "close_notify" /\ out.notified

AfterNotify(p) == IF th[p].op = "close" THEN "shut" ELSE "end"

SendRefused(p) ==
    /\ At(p, "out") /\ lock.out = Free /\ Refused(p)
    /\ Go(p, AfterNotify(p))
    /\ UNCHANGED <<cfg, shake, lock, interlock, out, in, sock, deadline, wire, peer,
                   calls, intr>>

(* out.handshakeLen of a Conn as its owner gets it: of the lengths that    *)
(* Server found, encrypt has reset those of the flight as it used them,    *)
(* and nobody resets that of the change_cipher_spec.  A client has none.   *)
handshakeLen == [i \in 1 .. 6 |-> IF ~cfg.client /\ i = 1 THEN 6 ELSE 0]

(* What encrypt pads a message to; it has no case for key_update. *)
PaddedTo(k) == CASE k = "fin" -> handshakeLen[5] [] k = "ku" -> 0

(* Header, message, content type and the overhead of the cipher: the body  *)
(* of a Finished is a hash, of 32 octets at least, of a KeyUpdate a flag.  *)
Sealing(k) == 5 + (CASE k = "fin" -> 4 + 32 [] k = "ku" -> 4 + 1) + 1 + 16

(* While handshakeLen[1] is set encrypt pads the handshake records that it *)
(* protects, and fails where the padding would be negative.                *)
Misfits(k) ==
    /\ cfg.v13 /\ k \in {"fin", "ku"} /\ handshakeLen[1] # 0
    /\ PaddedTo(k) < Sealing(k)

(* The error of an answer to a KeyUpdate is dropped. *)
SealFailsM1(p) ==
    /\ At(p, "out") /\ lock.out = Free /\ Misfits(th[p].send)
    /\ Go(p, "use")
    /\ UNCHANGED <<cfg, shake, lock, interlock, out, in, sock, deadline, wire, peer, calls,
                   intr>>

(* handleKeyUpdate keeps the error for the next Write. *)
SealFails(p) ==
    /\ At(p, "out") /\ lock.out = Free /\ Misfits(th[p].send)
    /\ out' = [out EXCEPT !.err = "padding"]
    /\ Go(p, "use")
    /\ UNCHANGED <<cfg, shake, lock, interlock, in, sock, deadline, wire, peer, calls, intr>>

(* A KeyUpdate is sent and the writing key stays. *)
NextWriteKeyM1(k, o) == IF k = "ku" THEN o ELSE Rekey(o)

(* c.out.setTrafficSecret and c.out.changeCipherSpec, once k is sent *)
NextWriteKey(k, o) == Rekey(o)

(* The alert is sent, but not remembered. *)
AlertSentM1(o, a) == o

(* c.out.setErrorLocked(&net.OpError{...}) of sendAlertLocked *)
AlertSent(o, a) == [o EXCEPT !.err = a]

(* What follows the attempt to write a record; o is out after encrypt.     *)
(* An alert becomes out.err whether or not it could be written.            *)
AfterRecord(p, ok, o) ==
    LET k == th[p].send
        t == [th EXCEPT ![p].send = "none", ![p].chunk = <<>>, ![p].alert = "none",
                        ![p].inerr = FALSE]
    IN
    /\ out' = CASE k = "data" /\ ~ok -> [o EXCEPT !.err = "io"]
                [] k = "ku" /\ ~ok -> [o EXCEPT !.err = "io"]
                [] k = "alert" -> AlertSent(o, th[p].alert)
                [] k = "close_notify" -> [o EXCEPT !.notified = TRUE]
                [] k \in {"ku", "ccs"} /\ ok -> NextWriteKey(k, o)
                [] k = "fin" /\ cfg.v13 -> NextWriteKey(k, o)
                [] OTHER -> o
    /\ in' = IF k = "alert" /\ th[p].inerr THEN [in EXCEPT !.err = "alert"] ELSE in
    /\ deadline' = IF k = "close_notify" THEN "past" ELSE deadline
    /\ th' = CASE k = "data" -> [t EXCEPT ![p].pc = "end"]
               [] k = "alert" -> [t EXCEPT ![p].pc = "fail"]
               [] k = "close_notify" -> [t EXCEPT ![p].pc = AfterNotify(p)]
               [] k = "ku" \/ (k = "hello" /\ ok) -> [t EXCEPT ![p].pc = "use"]
               [] k = "ccs" /\ ok -> [t EXCEPT ![p].pc = "out", ![p].send = "fin"]
               [] k = "fin" -> [t EXCEPT ![p].pc = "flush"]
               [] k \in {"hello", "ccs"} /\ ~ok -> [t EXCEPT ![p].pc = "hs_fail"]

Sealed(p) == [k |-> th[p].send, e |-> out.epoch, s |-> out.seq]

(* A record that joins sendBuf *)
SendBuffered(p) ==
    /\ At(p, "out") /\ lock.out = Free /\ ~Refused(p) /\ ~Misfits(th[p].send)
    /\ out.buffering
    /\ AfterRecord(p, TRUE, [out EXCEPT !.seq = @ + 1, !.sendBuf = Append(@, Sealed(p))])
    /\ UNCHANGED <<cfg, shake, lock, interlock, sock, wire, peer, calls, intr>>

(* closeNotify sets its deadline once it has out.Mutex. *)
SendBegins(p) ==
    /\ At(p, "out") /\ lock.out = Free /\ ~Refused(p) /\ ~Misfits(th[p].send)
    /\ ~out.buffering
    /\ lock' = [lock EXCEPT !.out = p]
    /\ out' = [out EXCEPT !.seq = @ + 1]
    /\ deadline' = IF th[p].send = "close_notify" THEN "soon" ELSE deadline
    /\ th' = [th EXCEPT ![p].pc = "sock", ![p].chunk = <<Sealed(p)>>]
    /\ UNCHANGED <<cfg, shake, interlock, in, sock, wire, peer, calls, intr>>

(* The underlying Write: it waits while the peer does not read, unless the *)
(* connection is closed or a deadline ends it.                             *)
SockAccepts ==
    sock = "open" /\ ~peer.reset /\ peer.reads /\ deadline # "past"

SockFails ==
    \/ sock = "closed" \/ deadline = "past" \/ peer.reset
    \/ deadline = "soon" /\ ~peer.reads

SendEnds(p) ==
    /\ At(p, "sock")
    /\ \/ SockAccepts /\ wire' = wire \o th[p].chunk /\ AfterRecord(p, TRUE, out)
       \/ SockFails /\ UNCHANGED wire /\ AfterRecord(p, FALSE, out)
    /\ lock' = [lock EXCEPT !.out = Free]
    /\ UNCHANGED <<cfg, shake, interlock, sock, peer, calls, intr>>

-----------------------------------------------------------------------------
(* flush: sendBuf is read, written and dropped without out.Mutex *)

FlushBegins(p) ==
    /\ At(p, "flush") /\ out.sendBuf # <<>>
    /\ th' = [th EXCEPT ![p].pc = "flushing", ![p].chunk = out.sendBuf]
    /\ UNCHANGED <<cfg, shake, lock, interlock, out, in, sock, deadline, wire, peer,
                   calls, intr>>

(* Nothing is buffered: only a handshake that failed finds it so. *)
FlushNothing(p) ==
    /\ At(p, "flush") /\ out.sendBuf = <<>> /\ th[p].stage = "failed"
    /\ lock' = ReleaseBoth /\ th' = AfterHandshake(p, FALSE)
    /\ UNCHANGED <<cfg, shake, interlock, out, in, sock, deadline, wire, peer, calls, intr>>

(* Of a handshake that failed the flush is the end, whatever becomes of    *)
(* it; otherwise TLS 1.3 is complete now and TLS 1.2 reads on.             *)
FlushEnds(p) ==
    /\ At(p, "flushing")
    /\ \/ SockAccepts /\ wire' = wire \o th[p].chunk
       \/ SockFails /\ UNCHANGED wire
    /\ LET ok == wire' # wire
           t == [th EXCEPT ![p].chunk = <<>>]
       IN \/ /\ th[p].stage = "failed"
             /\ lock' = ReleaseBoth
             /\ th' = [AfterHandshake(p, FALSE) EXCEPT ![p].chunk = <<>>]
             /\ UNCHANGED complete
          \/ /\ th[p].stage = "flight" /\ ~ok
             /\ th' = [t EXCEPT ![p].pc = "hs_fail"] /\ UNCHANGED <<lock, complete>>
          \/ /\ th[p].stage = "flight" /\ ok /\ cfg.v13
             /\ complete' = TRUE
             /\ th' = [t EXCEPT ![p].pc = "hs_ok"] /\ UNCHANGED lock
          \/ /\ th[p].stage = "flight" /\ ok /\ ~cfg.v13
             /\ th' = [t EXCEPT ![p].pc = "rec", ![p].stage = "ccs"]
             /\ UNCHANGED <<lock, complete>>
    /\ out' = [out EXCEPT !.sendBuf = <<>>, !.buffering = FALSE]
    /\ UNCHANGED <<cfg, handshakeErr, handshakes, interlock, in, sock, deadline, peer,
                   calls, intr>>

-----------------------------------------------------------------------------
(* readRecordOrCCS, with in.Mutex held *)

Opens(r) == r.k # "bad" /\ r.e = in.epoch /\ r.s = in.seq

(* In TLS 1.3 a change_cipher_spec is not protected. *)
Skipped(r) == cfg.v13 /\ r.k = "ccs"

(* Records that do not reset retryCount *)
Useless(r) == r.k \in AlertKinds \cup {"ccs", "empty"}

Unexpected(p, r) ==
    LET expectCCS == th[p].stage = "ccs" IN
    \/ cfg.v13 /\ in.hand # <<>> /\ Messages(r.k) = <<>>
    \/ r.k = "ccs" /\ (in.hand # <<>> \/ (~expectCCS /\ (~cfg.v13 \/ complete)))
    \/ r.k \in {"data", "empty"} /\ (~complete \/ expectCCS)
    \/ Messages(r.k) # <<>> /\ expectCCS

(* Ignored records are counted, but without a limit. *)
TooManyM1(n) == FALSE

TooMany(n) == n > MaxUseless

(* retryReadRecord *)
Retry(p, i) ==
    /\ in' = [i EXCEPT !.retry = @ + 1]
    /\ th' = IF TooMany(i.retry + 1)
             THEN Alerting(p, "unexpected", TRUE) ELSE [th EXCEPT ![p].pc = "rec"]

HandleRecord(p, r) ==
    LET i == IF Skipped(r) THEN in ELSE [in EXCEPT !.seq = @ + 1]
        j == IF Useless(r) THEN i ELSE [i EXCEPT !.retry = 0]
        open == Skipped(r) \/ Opens(r)
        fine == open /\ ~Unexpected(p, r)
    IN
    \/ ~open /\ th' = Alerting(p, "bad_mac", TRUE) /\ UNCHANGED in
    \/ open /\ Unexpected(p, r) /\ in' = j /\ th' = Alerting(p, "unexpected", TRUE)
    \/ /\ fine /\ r.k \in {"close_notify", "fatal"}
       /\ in' = [j EXCEPT !.err = r.k] /\ Go(p, "fail")
    \/ fine /\ (r.k \in {"warning", "empty"} \/ Skipped(r)) /\ Retry(p, j)
    \/ fine /\ r.k = "ccs" /\ ~cfg.v13 /\ in' = Rekey(j) /\ Go(p, "use")
    \/ fine /\ r.k = "data" /\ in' = [j EXCEPT !.input = TRUE] /\ Go(p, "use")
    \/ /\ fine /\ Messages(r.k) # <<>>
       /\ in' = [j EXCEPT !.hand = Joined(@, Messages(r.k))] /\ Go(p, "use")

ReadRecord(p) ==
    /\ At(p, "rec") /\ in.err = "none" /\ ~in.input /\ peer.queue # <<>>
    /\ HandleRecord(p, Head(peer.queue))
    /\ peer' = [peer EXCEPT !.queue = Tail(@)]
    /\ UNCHANGED <<cfg, shake, lock, interlock, out, sock, deadline, wire, calls, intr>>

(* No record: an earlier error, application data in the way, the end of    *)
(* the stream, or the connection closed under the reader.                  *)
ReadError(p) ==
    /\ At(p, "rec")
    /\ \/ in.err # "none" /\ UNCHANGED in
       \/ in.err = "none" /\ in.input /\ in' = [in EXCEPT !.err = "internal"]
       \/ /\ in.err = "none" /\ ~in.input
          /\ sock = "closed" \/ (peer.queue = <<>> /\ peer.eof)
          /\ in' = [in EXCEPT !.err = "io"]
    /\ Go(p, "fail")
    /\ UNCHANGED <<cfg, shake, lock, interlock, out, sock, deadline, wire, peer, calls, intr>>

(* The caller of readRecord gets its error. *)
Fail(p) ==
    /\ At(p, "fail")
    /\ \/ /\ th[p].stage \in {"sh", "flight", "ccs", "fin"}
          /\ Go(p, "hs_fail") /\ UNCHANGED lock
       \/ /\ th[p].stage \in {"none", "predict"}
          /\ Go(p, "end") /\ lock' = [lock EXCEPT !.in = Free]
    /\ UNCHANGED <<cfg, shake, interlock, out, in, sock, deadline, wire, peer, calls, intr>>

-----------------------------------------------------------------------------
(* Read *)

ReadLock(p) ==
    /\ At(p, "in") /\ lock.in = Free
    /\ lock' = [lock EXCEPT !.in = p] /\ Go(p, "loop")
    /\ UNCHANGED <<cfg, shake, interlock, out, in, sock, deadline, wire, peer, calls, intr>>

(* Before TLS 1.3 the type of a buffered record is visible: an alert is    *)
(* read along with the last of the data.                                   *)
AlertBuffered == ~cfg.v13 /\ peer.queue # <<>> /\ Head(peer.queue).k \in AlertKinds

ReadLoop(p) ==
    /\ At(p, "loop")
    /\ \/ ~in.input /\ Go(p, "rec") /\ UNCHANGED <<in, lock>>
       \/ \E more \in BOOLEAN :
             /\ in.input /\ in' = [in EXCEPT !.input = more]
             /\ \/ Go(p, "end") /\ lock' = [lock EXCEPT !.in = Free]
                \/ /\ ~more /\ AlertBuffered
                   /\ th' = [th EXCEPT ![p].pc = "rec", ![p].stage = "predict"]
                   /\ UNCHANGED lock
    /\ UNCHANGED <<cfg, shake, interlock, out, sock, deadline, wire, peer, calls, intr>>

(* The record for which Read or its handshake has asked is there. *)
UseNothing(p) ==
    /\ At(p, "use")
    /\ \/ /\ th[p].stage = "none" /\ in.hand = <<>>
          /\ Go(p, "loop") /\ UNCHANGED lock
       \/ /\ th[p].stage = "predict"
          /\ Go(p, "end") /\ lock' = [lock EXCEPT !.in = Free]
       \/ /\ th[p].stage = "ccs"
          /\ th' = [th EXCEPT ![p].stage = "fin"] /\ UNCHANGED lock
       \/ /\ \/ th[p].stage \in {"sh", "flight", "fin"} /\ in.hand = <<>>
             \/ /\ th[p].stage \in {"none", "sh", "flight", "fin"}
                /\ in.hand # <<>> /\ Head(in.hand) = "half"
          /\ Go(p, "rec") /\ UNCHANGED lock
    /\ UNCHANGED <<cfg, shake, interlock, out, in, sock, deadline, wire, peer, calls, intr>>

(* readHandshake returned message m. *)
Message(p, m) ==
    /\ At(p, "use") /\ in.hand # <<>> /\ Head(in.hand) = m /\ m # "half"

Taken == [in EXCEPT !.hand = Tail(@)]

(* The ServerHello: what we send is buffered from now on, and TLS 1.3 goes *)
(* over to the keys of the handshake.                                      *)
TakeServerHello(p) ==
    /\ Message(p, "sh") /\ th[p].stage = "sh"
    /\ in' = IF cfg.v13 THEN Rekey(Taken) ELSE Taken
    /\ out' = [(IF cfg.v13 THEN Rekey(out) ELSE out) EXCEPT !.buffering = TRUE]
    /\ th' = [th EXCEPT ![p].stage = "flight"]
    /\ UNCHANGED <<cfg, shake, lock, interlock, sock, deadline, wire, peer, calls, intr>>

TakeFlight(p) ==
    /\ Message(p, "flight") /\ th[p].stage = "flight"
    /\ in' = IF cfg.v13 THEN Rekey(Taken) ELSE Taken
    /\ th' = Sending(p, IF cfg.v13 THEN "fin" ELSE "ccs")
    /\ UNCHANGED <<cfg, shake, lock, interlock, out, sock, deadline, wire, peer, calls, intr>>

TakeFinished(p) ==
    /\ Message(p, "fin") /\ th[p].stage = "fin"
    /\ in' = Taken /\ complete' = TRUE /\ Go(p, "hs_ok")
    /\ UNCHANGED <<cfg, handshakeErr, handshakes, lock, interlock, out, sock, deadline,
                   wire, peer, calls, intr>>

(* handlePostHandshakeMessage and the messages that stop a handshake: m is *)
(* not one that anyone waits for.                                          *)
Stray(p, m) ==
    CASE th[p].stage \in {"sh", "flight", "fin"} -> m # th[p].stage
      [] th[p].stage = "none" /\ cfg.v13 ->
            \/ TooMany(in.retry + 1)
            \/ m \notin {"ticket", "ku", "kur"} \/ (m = "ticket" /\ ~cfg.client)
      [] th[p].stage = "none" /\ ~cfg.v13 -> m # "hello_request"
      [] OTHER -> FALSE

Counted == IF cfg.v13 /\ complete THEN [Taken EXCEPT !.retry = @ + 1] ELSE Taken

RejectMessage(p) ==
    \E m \in {"sh", "flight", "fin", "ticket", "ku", "kur", "hello_request"} :
        /\ Message(p, m) /\ Stray(p, m)
        /\ in' = Counted
        /\ th' = Alerting(p, "unexpected", cfg.v13 /\ complete /\ TooMany(in.retry + 1))
        /\ UNCHANGED <<cfg, shake, lock, interlock, out, sock, deadline, wire, peer,
                       calls, intr>>

(* The reading key changes only when the peer asks for our update too. *)
NextReadKeyM1(m, i) == IF m = "kur" THEN Rekey(i) ELSE i

NextReadKey(m, i) == Rekey(i)

(* handleNewSessionTicket of a client, and handleKeyUpdate: the answer is  *)
(* sent before our own key changes.                                        *)
PostHandshake(p) ==
    /\ th[p].stage = "none" /\ cfg.v13
    /\ \/ /\ Message(p, "ticket") /\ ~Stray(p, "ticket")
          /\ in' = Counted /\ UNCHANGED th
       \/ /\ Message(p, "ku") /\ ~Stray(p, "ku")
          /\ in' = NextReadKey("ku", Counted) /\ UNCHANGED th
       \/ /\ Message(p, "kur") /\ ~Stray(p, "kur")
          /\ in' = NextReadKey("kur", Counted) /\ th' = Sending(p, "ku")
    /\ UNCHANGED <<cfg, shake, lock, interlock, out, sock, deadline, wire, peer, calls, intr>>

(* handleRenegotiation: the number of handshakes does not matter. *)
MayRenegotiateM1 == cfg.reneg # "never"

MayRenegotiate ==
    cfg.reneg = "freely" \/ (cfg.reneg = "once" /\ handshakes <= 1)

HelloRequest(p) ==
    /\ Message(p, "hello_request") /\ th[p].stage = "none" /\ ~cfg.v13
    /\ in' = Taken
    /\ \/ MayRenegotiate /\ Go(p, "reneg")
       \/ ~MayRenegotiate /\ th' = Alerting(p, "no_renegotiation", FALSE)
    /\ UNCHANGED <<cfg, shake, lock, interlock, out, sock, deadline, wire, peer, calls, intr>>

(* The renegotiation does not take back that the handshake is complete. *)
CompleteInRenegotiationM1 == complete

(* c.isHandshakeComplete.Store(false) *)
CompleteInRenegotiation == FALSE

(* in.Mutex is held already: the order of handshakeContext is reversed. *)
Renegotiate(p) ==
    /\ At(p, "reneg") /\ lock.hs = Free
    /\ lock' = [lock EXCEPT !.hs = p]
    /\ complete' = CompleteInRenegotiation
    /\ th' = [Sending(p, "hello") EXCEPT ![p].stage = "sh", ![p].reneg = TRUE]
    /\ UNCHANGED <<cfg, handshakeErr, handshakes, interlock, out, in, sock, deadline,
                   wire, peer, calls, intr>>

-----------------------------------------------------------------------------
(* The peer *)

Sent(k) == Cardinality({n \in DOMAIN wire : wire[n].k = k})

PeerRecord(k) == [k |-> k, e |-> peer.epoch, s |-> peer.seq]

PeerNext == [peer EXCEPT !.seq = @ + 1]

(* Its side of the handshake is complete. *)
PeerDone ==
    \/ ~cfg.client
    \/ peer.flights > 0 /\ peer.flights = Sent("hello") /\ (cfg.v13 \/ peer.fins = peer.flights)

PeerHello ==
    /\ ~peer.eof /\ ~peer.half /\ Sent("hello") > peer.hellos
    /\ LET q == [PeerNext EXCEPT !.hellos = @ + 1,
                                 !.queue = Append(@, PeerRecord("sh"))]
       IN  peer' = IF cfg.v13 THEN Rekey(q) ELSE q
    /\ UNCHANGED <<cfg, shake, lock, interlock, out, in, sock, deadline, wire, th, calls, intr>>

PeerFlight ==
    /\ ~peer.eof /\ peer.hellos > peer.flights
    /\ LET q == [PeerNext EXCEPT !.flights = @ + 1,
                                 !.queue = Append(@, PeerRecord("flight"))]
       IN  peer' = IF cfg.v13 THEN Rekey(q) ELSE q
    /\ UNCHANGED <<cfg, shake, lock, interlock, out, in, sock, deadline, wire, th, calls, intr>>

PeerFinished ==
    /\ ~peer.eof /\ ~peer.half /\ ~cfg.v13 /\ Sent("fin") > peer.fins
    /\ peer' = [peer EXCEPT
                  !.epoch = @ + 1, !.seq = 1, !.fins = @ + 1,
                  !.queue = @ \o <<PeerRecord("ccs"),
                                   [k |-> "fin", e |-> peer.epoch + 1, s |-> 0]>>]
    /\ UNCHANGED <<cfg, shake, lock, interlock, out, in, sock, deadline, wire, th, calls, intr>>

(* Any other record.  What belongs after the handshake it sends after it,  *)
(* and a message it has begun it ends before the next one.  Tickets are a  *)
(* server's to send: of two in one record the REALITY server rejects the   *)
(* first and leaves the second in hand, and so takes every later message,  *)
(* a key update too, one record late.                                      *)
PeerSends ==
    /\ ~peer.eof /\ peer.sent < cfg.sends
    /\ \E k \in cfg.kinds :
         /\ k \in AlertKinds \cup {"ccs", "bad"} \/ PeerDone
         /\ k = "ccs" => peer.hellos > 0 \/ ~cfg.client
         /\ k = "bad" => peer.epoch > 0 \/ ~cfg.client
         /\ k = "rest" => peer.half
         /\ peer.half /\ Messages(k) # <<>> => k = "rest"
         /\ LET unsealed == k = "bad" \/ (cfg.v13 /\ k = "ccs")
                q == [(IF unsealed THEN peer ELSE PeerNext) EXCEPT
                        !.sent = @ + 1, !.queue = Append(@, PeerRecord(k)),
                        !.half = (k = "half" \/ (@ /\ k # "rest")),
                        !.bad = @ \/ k = "bad" \/ (k = "ccs" /\ ~cfg.v13)
                                  \/ (k = "tickets" /\ ~cfg.client)]
            IN  peer' = IF k \in {"ku", "kur"} /\ cfg.v13 THEN Rekey(q) ELSE q
    /\ UNCHANGED <<cfg, shake, lock, interlock, out, in, sock, deadline, wire, th, calls, intr>>

PeerStopsReading ==
    /\ cfg.leaves /\ peer.reads /\ peer' = [peer EXCEPT !.reads = FALSE]
    /\ UNCHANGED <<cfg, shake, lock, interlock, out, in, sock, deadline, wire, th, calls, intr>>

(* The end of its stream, or a reset that also fails what we write. *)
PeerCloses ==
    /\ cfg.leaves /\ ~peer.eof
    /\ \E r \in BOOLEAN : peer' = [peer EXCEPT !.eof = TRUE, !.reset = r]
    /\ UNCHANGED <<cfg, shake, lock, interlock, out, in, sock, deadline, wire, th, calls, intr>>

-----------------------------------------------------------------------------
Init ==
    /\ cfg \in Cases
    /\ complete = ~cfg.client /\ handshakeErr = FALSE /\ handshakes = 0
    /\ lock = [hs |-> Free, in |-> Free, out |-> Free]
    /\ active = 0 /\ closing = FALSE
    /\ out = [err |-> "none", epoch |-> 0, seq |-> 0, buffering |-> FALSE,
              sendBuf |-> <<>>, notified |-> FALSE]
    /\ in = [err |-> "none", epoch |-> 0, seq |-> 0, retry |-> 0, hand |-> <<>>,
             input |-> FALSE]
    /\ sock = "open" /\ deadline = "none" /\ wire = <<>>
    /\ peer = [queue |-> <<>>, epoch |-> 0, seq |-> 0, sent |-> 0, hellos |-> 0,
               flights |-> 0, fins |-> 0, half |-> FALSE, bad |-> FALSE, eof |-> FALSE, reset |-> FALSE,
               reads |-> TRUE]
    /\ th = [p \in Procs |-> Idle]
    /\ calls = [p \in Procs |-> 0]
    /\ intr = [p \in Procs |-> [state |-> "none", cancelled |-> FALSE, late |-> FALSE]]

Begin(p) ==
    \/ Write(p) \/ Close(p) \/ CloseWrite(p) \/ Read(p) \/ HandshakeContext(p)
    \/ ConnectionState(p)

Step(p) ==
    \/ GetState(p) \/ LoadComplete(p) \/ Shut(p) \/ Return(p)
    \/ HandshakeFast(p) \/ HandshakeLock(p) \/ HandshakeLockIn(p)
    \/ HandshakeSucceeds(p) \/ HandshakeFails(p) \/ HandshakeDone(p) \/ HandshakeResult(p)
    \/ SendRefused(p) \/ SealFails(p) \/ SendBuffered(p) \/ SendBegins(p) \/ SendEnds(p)
    \/ FlushBegins(p) \/ FlushNothing(p) \/ FlushEnds(p)
    \/ ReadRecord(p) \/ ReadError(p) \/ Fail(p) \/ ReadLock(p) \/ ReadLoop(p)
    \/ UseNothing(p) \/ TakeServerHello(p) \/ TakeFlight(p) \/ TakeFinished(p) \/ RejectMessage(p)
    \/ PostHandshake(p) \/ HelloRequest(p) \/ Renegotiate(p)

Peer ==
    PeerHello \/ PeerFlight \/ PeerFinished \/ PeerSends \/ PeerStopsReading \/ PeerCloses

Next ==
    \/ \E p \in Procs : Begin(p) \/ Step(p) \/ Interrupt(p) \/ Cancel(p)
    \/ Peer

Spec == Init /\ [][Next]_vars

(* Some goroutine runs as long as one can: the least a scheduler does, and *)
(* enough since the calls are bounded.  The peer and the callers owe us    *)
(* nothing.                                                                *)
Fairness == WF_vars(\E p \in Procs : Step(p) \/ Interrupt(p))

FairSpec == Spec /\ Fairness

-----------------------------------------------------------------------------
Records(ks) == [k : ks, e : Nat, s : Nat]

OutKinds == {"data", "hello", "ccs", "fin", "ku", "alert", "close_notify"}

LockState == [hs : Procs \cup {Free}, in : Procs \cup {Free}, out : Procs \cup {Free}]

OutState ==
    [err : {"none", "io", "padding", "bad_mac", "unexpected", "no_renegotiation"},
     epoch : Nat, seq : Nat, buffering : BOOLEAN, sendBuf : Seq(Records(OutKinds)),
     notified : BOOLEAN]

Pieces ==
    {"sh", "flight", "fin", "ticket", "ku", "kur", "hello_request", "half", "rest"}

Tries == 0 .. (MaxUseless + 1)

InState ==
    [err : {"none", "io", "internal", "alert", "close_notify", "fatal"},
     epoch : Nat, seq : Nat, retry : Tries, hand : Seq(Pieces),
     input : BOOLEAN]

Watcher ==
    [state : {"none", "waiting", "told", "fired", "quiet"}, cancelled : BOOLEAN,
     late : BOOLEAN]

(* Every variable has its type; retryCount passes maxUselessRecords by at  *)
(* most one, the record that ends the connection.                          *)
TypeOK ==
    /\ cfg \in Cases
    /\ complete \in BOOLEAN /\ handshakeErr \in BOOLEAN /\ handshakes \in Nat
    /\ lock \in LockState
    /\ active \in Nat /\ closing \in BOOLEAN
    /\ out \in OutState /\ in \in InState
    /\ sock \in {"open", "closed"} /\ deadline \in {"none", "soon", "past"}
    /\ wire \in Seq(Records(OutKinds))
    /\ peer.queue \in Seq(Records(Kinds \cup {"sh", "flight", "fin"}))
    /\ DOMAIN th = Procs
    /\ calls \in [Procs -> Nat] /\ intr \in [Procs -> Watcher]

(* Once a handshake has let go of handshakeMutex, isHandshakeComplete      *)
(* implies handshakeErr == nil: the exit without locks of                  *)
(* handshakeContext relies on it.                                          *)
CompleteMeansNoError == complete /\ lock.hs = Free => ~handshakeErr

(* No application data between a ClientHello and the Finished that ends    *)
(* its handshake: Write tests isHandshakeComplete under out.Mutex, which   *)
(* a renegotiation clears without it.                                      *)
NoDataInsideHandshake ==
    \A n \in DOMAIN wire : wire[n].k = "data" =>
        \A m \in 1 .. n : wire[m].k = "hello" =>
            \E l \in m .. n : wire[l].k = "fin"

(* No application data follows an alert: whoever sends one leaves an error *)
(* or closeNotifySent behind for the Writes that wait for out.Mutex.       *)
NothingAfterAlert ==
    \A n \in DOMAIN wire : wire[n].k = "data" =>
        \A m \in 1 .. n : wire[m].k \notin {"alert", "close_notify"}

(* The records after which our writing key changes. *)
LastOfItsKey(r) == r.k \in {"ku", "ccs"} \/ (r.k = "fin" /\ cfg.v13)

(* The peer can open everything it gets: the key changes after our own     *)
(* KeyUpdate, change_cipher_spec and the Finished of TLS 1.3, when the     *)
(* peer changes its reading key, and after a TLS 1.3 ClientHello, and at   *)
(* no other record; under each key the numbers are 0, 1, 2 ... in order,   *)
(* whichever goroutines sent the records, buffered or not.                 *)
WireDecrypts ==
    /\ wire # <<>> => wire[1].e = 0 /\ wire[1].s = 0
    /\ \A n \in 1 .. Len(wire) - 1 :
          LET last == wire[n]
              next == wire[n + 1]
          IN  \/ ~LastOfItsKey(last) /\ next.e = last.e /\ next.s = last.s + 1
              \/ /\ LastOfItsKey(last) \/ (last.k = "hello" /\ cfg.v13)
                 /\ next.e = last.e + 1 /\ next.s = 0

(* Records of a peer that keeps to the protocol are never refused with     *)
(* bad_record_mac: readers change the reading key at the right record.     *)
HonestRecordsOpen == out.err = "bad_mac" => peer.bad

(* A client that renegotiates at most once completes no third handshake,   *)
(* and sends a third ClientHello only after a renegotiation that failed    *)
(* with an alert, when the Conn cannot carry data any more.                *)
RenegotiationBounded ==
    cfg.reneg = "once" => /\ handshakes <= 2
                          /\ out.err = "none" => Sent("hello") <= 2

(* The goroutine has taken a KeyUpdate and still has to answer it. *)
Answering(p) == th[p].pc \in {"out", "sock"} /\ th[p].send = "ku"

(* Every KeyUpdate of the peer that asked for ours has been answered, and  *)
(* our key has changed as often as its own, by the time a reader goes on,  *)
(* or the Conn cannot write any more: "Surface the error at the next       *)
(* write."  For a REALITY server it is always the latter.  A peer that     *)
(* sometimes does not ask is ahead of us.                                  *)
UpdatesInStep ==
    cfg.v13 /\ complete /\ out.err = "none" /\ (\A p \in Procs : ~Answering(p)) =>
        /\ out.epoch <= in.epoch
        /\ "ku" \notin cfg.kinds => out.epoch = in.epoch
        /\ ~cfg.client => out.epoch = 0

(* Once the underlying connection is closed every call returns: nobody     *)
(* keeps a mutex, although handleRenegotiation takes in.Mutex and          *)
(* handshakeMutex in the opposite order of handshakeContext.               *)
ClosedFreesAll == sock = "closed" ~> \A p \in Procs : At(p, "idle")

(* A HandshakeContext whose context is cancelled returns, even when it     *)
(* only waits for the handshake of another goroutine.                      *)
CancelReturns ==
    (\E p \in Procs : intr[p].cancelled) ~> (\A p \in Procs : ~intr[p].cancelled)

Readers == {p \in Procs : Ops[p] \cap {"read", "handshake"} # {}}

(* Close breaks the Writes in flight and returns, whatever the peer does,  *)
(* as long as no Read or HandshakeContext sends on its own account.        *)
CloseBreaksWrite ==
    (cfg.team \cap Readers = {} /\ \E p \in Procs : th[p].op = "close")
        ~> (\A p \in Procs : th[p].op # "close")

(* Close returns: closeNotify sets a write deadline "to prevent possibly   *)
(* blocking forever".                                                      *)
CloseReturns ==
    (\E p \in Procs : th[p].op = "close") ~> (\A p \in Procs : th[p].op # "close")

(* "Once the handshake has completed, cancellation of the context will not *)
(* affect the connection."                                                 *)
CancelHarmlessOnceComplete ==
    [][\A p \in Procs : intr[p].late /\ intr[p].state # "fired" /\ intr'[p].state = "fired"
           => sock' = sock]_vars
====
