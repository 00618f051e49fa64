----------------------- MODULE RealityListenerProofs -----------------------
(* Proofs about RealityListener, for any sets of connections and callers.  *)
EXTENDS RealityListener, TLAPS

(* Why a connection is handed over once: who waits in the channel waits    *)
(* there once, a goroutine waits in it exactly when it is sending, and     *)
(* once its connection was returned it is over.                            *)
QueueInv ==
    /\ \A i, j \in 1..Len(sendq) : sendq[i] = sendq[j] => i = j
    /\ \A i \in 1..Len(sendq) : handler[sendq[i]] = "sending"
    /\ \A c \in Conns : returned[c] = 1 => handler[c] = "over"

(* Why the error is there: it was recorded before the channel was closed.  *)
ErrorInv ==
    /\ loop # "accept" => lerr = "failed"
    /\ chan = "closed" => loop = "done"

(* Which verdict a goroutine has that is past Server. *)
VerdictInv ==
    /\ \A c \in Conns : handler[c] \in {"ready", "sending"} => verdict[c] = "ok"
    /\ OnlyAccepted

IInv == TypeOK /\ QueueInv /\ ErrorInv /\ VerdictInv /\ NoNilNil

-----------------------------------------------------------------------------
(* What serving the first of a queue does to it. *)
LEMMA HeadTail ==
    ASSUME NEW S, NEW q \in Seq(S), q # <<>>
    PROVE  /\ Len(q) \in Nat /\ Len(q) >= 1
           /\ Head(q) \in S /\ Head(q) = q[1]
           /\ Tail(q) \in Seq(S) /\ Len(Tail(q)) = Len(q) - 1
           /\ \A i \in 1..Len(Tail(q)) : Tail(q)[i] = q[i + 1]
PROOF OBVIOUS

(* What joining a queue does to it. *)
LEMMA Joined ==
    ASSUME NEW S, NEW q \in Seq(S), NEW e \in S
    PROVE  /\ Append(q, e) \in Seq(S) /\ Len(q) \in Nat
           /\ Len(Append(q, e)) = Len(q) + 1
           /\ Append(q, e)[Len(q) + 1] = e
           /\ \A i \in 1..Len(q) : Append(q, e)[i] = q[i]
PROOF OBVIOUS

\* A new listener satisfies the invariant.
LEMMA InitInv == Init => IInv
<1> SUFFICES ASSUME Init
             PROVE  IInv
  OBVIOUS
<1>1. TypeOK
  <2>1. <<>> \in Seq(Conns) /\ <<>> \in Seq(Callers)
    OBVIOUS
  <2>2. got \in [Callers -> {<<"nothing">>}]
    BY DEF Init
  <2> QED
    BY <2>1, <2>2 DEF Init, TypeOK
<1>2. QueueInv /\ ErrorInv /\ VerdictInv
  BY DEF Init, QueueInv, ErrorInv, VerdictInv, OnlyAccepted
<1>3. NoNilNil
  <2>1. Len(<<"nothing">>) # Len(<<"error", NoError>>)
    OBVIOUS
  <2> QED
    BY <2>1 DEF Init, NoNilNil
<1> QED
  BY <1>1, <1>2, <1>3 DEF IInv

\* The inner listener hands over a connection.
LEMMA InnerAcceptsInv ==
    ASSUME IInv, NEW c \in Conns, InnerAccepts(c)
    PROVE  IInv'
PROOF BY DEF InnerAccepts, IInv, TypeOK, QueueInv, ErrorInv, VerdictInv,
             OnlyAccepted, NoNilNil

\* The inner listener fails for good.
LEMMA InnerFailsInv ==
    ASSUME IInv, InnerFails
    PROVE  IInv'
PROOF BY DEF InnerFails, RecordError, IInv, TypeOK, QueueInv, ErrorInv, VerdictInv,
             OnlyAccepted, NoNilNil

\* The accept loop closes the channel.
LEMMA CloseConnsInv ==
    ASSUME IInv, CloseConns
    PROVE  IInv'
<1>1. lerr = "failed" /\ UNCHANGED <<lerr, verdict, handler, sendq, returned>>
  BY DEF CloseConns, IInv, ErrorInv
<1>2. TypeOK'
  BY <1>1 DEF CloseConns, IInv, TypeOK
<1>3. NoNilNil'
  BY <1>1, NoErrorAssumption DEF CloseConns, IInv, NoNilNil
<1> QED
  BY <1>1, <1>2, <1>3
  DEF CloseConns, IInv, QueueInv, ErrorInv, VerdictInv, OnlyAccepted

\* Server returns to the goroutine of a connection.
LEMMA ServerReturnsInv ==
    ASSUME IInv, NEW c \in Conns, ServerReturns(c)
    PROVE  IInv'
<1> PICK v \in {"ok", "err"} :
        /\ verdict' = [verdict EXCEPT ![c] = v]
        /\ handler' = [handler EXCEPT ![c] = AfterServer(v)]
  BY DEF ServerReturns
<1>1. UNCHANGED <<loop, lerr, chan, sendq, recvq, got, returned, crashed>>
  BY DEF ServerReturns
<1>2. handler[c] = "serving" /\ returned[c] = 0
  BY DEF ServerReturns, IInv, TypeOK, QueueInv
<1>3. QueueInv'
  BY <1>1, <1>2 DEF IInv, TypeOK, QueueInv
<1> QED
  BY <1>1, <1>2, <1>3
  DEF AfterServer, IInv, TypeOK, ErrorInv, VerdictInv, OnlyAccepted, NoNilNil

(* A send panics, joins the queue of senders, or meets a waiting caller. *)
LEMMA SendInv ==
    ASSUME IInv, NEW c \in Conns, Send(c)
    PROVE  IInv'
<1> USE DEF IInv
<1>1. handler[c] = "ready" /\ verdict[c] = "ok" /\ returned[c] = 0
  BY DEF Send, TypeOK, QueueInv, VerdictInv
<1>2. UNCHANGED <<loop, lerr, chan, verdict>>
  BY DEF Send
<1>3. CASE crashed' = TRUE /\ UNCHANGED <<handler, sendq, recvq, got, returned>>
  BY <1>2, <1>3
  DEF TypeOK, QueueInv, ErrorInv, VerdictInv, OnlyAccepted, NoNilNil
<1>4. CASE /\ handler' = [handler EXCEPT ![c] = "sending"]
           /\ sendq' = Append(sendq, c)
           /\ UNCHANGED <<recvq, got, returned, crashed>>
  <2>1. sendq \in Seq(Conns) /\ \A i \in 1..Len(sendq) : sendq[i] # c
    BY <1>1 DEF TypeOK, QueueInv
  <2>2. TypeOK'
    BY <1>2, <1>4, <2>1, Joined DEF TypeOK
  <2>3. QueueInv'
    BY <1>1, <1>4, <2>1, Joined DEF TypeOK, QueueInv
  <2> QED
    BY <1>1, <1>2, <1>4, <2>2, <2>3
    DEF TypeOK, ErrorInv, VerdictInv, OnlyAccepted, NoNilNil
<1>5. CASE /\ recvq # <<>>
           /\ handler' = [handler EXCEPT ![c] = AfterSend]
           /\ got' = [got EXCEPT ![Head(recvq)] = <<"conn", c>>]
           /\ returned' = [returned EXCEPT ![c] = @ + 1]
           /\ recvq' = Tail(recvq)
           /\ UNCHANGED <<sendq, crashed>>
  <2>1. Head(recvq) \in Callers /\ Tail(recvq) \in Seq(Callers)
    BY <1>5, HeadTail DEF TypeOK
  <2>2. TypeOK'
    BY <1>1, <1>2, <1>5, <2>1 DEF TypeOK, AfterSend
  <2>3. QueueInv'
    BY <1>1, <1>5 DEF TypeOK, QueueInv, AfterSend
  <2>4. NoNilNil'
    BY <1>5, <2>1 DEF TypeOK, NoNilNil
  <2> QED
    BY <1>1, <1>2, <1>5, <2>2, <2>3, <2>4
    DEF TypeOK, ErrorInv, VerdictInv, OnlyAccepted, AfterSend
<1> QED
  BY <1>3, <1>4, <1>5 DEF Send

(* Accept takes the first sender's connection, finds the channel closed,   *)
(* or joins the queue of callers.                                          *)
LEMMA AcceptInv ==
    ASSUME IInv, NEW a \in Callers, Accept(a)
    PROVE  IInv'
<1> USE DEF IInv
<1>1. UNCHANGED <<loop, lerr, chan, verdict, crashed>>
  BY DEF Accept
<1>2. CASE /\ sendq # <<>>
           /\ got' = [got EXCEPT ![a] = <<"conn", Head(sendq)>>]
           /\ returned' = [returned EXCEPT ![Head(sendq)] = @ + 1]
           /\ handler' = [handler EXCEPT ![Head(sendq)] = AfterSend]
           /\ sendq' = Tail(sendq)
           /\ UNCHANGED recvq
  <2> DEFINE c == Head(sendq)
  <2>1. /\ c \in Conns /\ c = sendq[1] /\ Len(sendq) \in Nat /\ Len(sendq) >= 1
        /\ Tail(sendq) \in Seq(Conns) /\ Len(Tail(sendq)) = Len(sendq) - 1
        /\ \A i \in 1..Len(Tail(sendq)) : Tail(sendq)[i] = sendq[i + 1]
    BY <1>2, HeadTail DEF TypeOK
  <2>2. handler[c] = "sending" /\ verdict[c] = "ok" /\ returned[c] = 0
    BY <2>1 DEF TypeOK, QueueInv, VerdictInv
  <2> HIDE DEF c
  <2>3. TypeOK'
    BY <1>1, <1>2, <2>1, <2>2 DEF TypeOK, AfterSend, c
  <2>4. QueueInv'
    <3>1. \A i \in 1..Len(sendq') :
              i + 1 \in 1..Len(sendq) /\ sendq'[i] = sendq[i + 1] /\ sendq[i + 1] # c
      BY <1>2, <2>1 DEF QueueInv
    <3>2. \A i, j \in 1..Len(sendq') : sendq'[i] = sendq'[j] => i = j
      BY <1>2, <2>1, <3>1 DEF QueueInv
    <3>3. \A i \in 1..Len(sendq') : handler'[sendq'[i]] = "sending"
      BY <1>2, <2>1, <3>1 DEF TypeOK, QueueInv, c
    <3> QED
      BY <1>2, <2>1, <2>2, <3>2, <3>3 DEF TypeOK, QueueInv, AfterSend, c
  <2>5. NoNilNil'
    BY <1>2 DEF TypeOK, NoNilNil
  <2> QED
    BY <1>1, <1>2, <2>1, <2>2, <2>3, <2>4, <2>5
    DEF TypeOK, ErrorInv, VerdictInv, OnlyAccepted, AfterSend, c
<1>3. CASE /\ chan = "closed"
           /\ got' = [got EXCEPT ![a] = <<"error", lerr>>]
           /\ UNCHANGED <<handler, sendq, recvq, returned>>
  BY <1>1, <1>3, NoErrorAssumption
  DEF TypeOK, QueueInv, ErrorInv, VerdictInv, OnlyAccepted, NoNilNil
<1>4. CASE /\ recvq' = Append(recvq, a)
           /\ UNCHANGED <<got, handler, sendq, returned>>
  BY <1>1, <1>4, Joined
  DEF TypeOK, QueueInv, ErrorInv, VerdictInv, OnlyAccepted, NoNilNil
<1> QED
  BY <1>2, <1>3, <1>4 DEF Accept

(* The inductive invariant holds in every reachable state. *)
THEOREM ListenerInvariant == Spec => []IInv
<1>1. IInv /\ [Next]_vars => IInv'
  <2> SUFFICES ASSUME IInv, [Next]_vars
               PROVE  IInv'
    OBVIOUS
  <2>1. CASE UNCHANGED vars
    BY <2>1 DEF vars, IInv, TypeOK, QueueInv, ErrorInv, VerdictInv, OnlyAccepted, NoNilNil
  <2>2. CASE Crashed
    BY <2>1, <2>2 DEF Crashed
  <2> QED
    BY <2>1, <2>2, InnerFailsInv, CloseConnsInv, InnerAcceptsInv, ServerReturnsInv,
       SendInv, AcceptInv DEF Next
<1> QED
  BY <1>1, InitInv, PTL DEF Spec

(* Every variable keeps its type; in particular no connection is returned  *)
(* by two calls of Accept, for any number of connections and callers.      *)
THEOREM ListenerTypeCorrect == Spec => []TypeOK
PROOF BY ListenerInvariant, PTL DEF IInv

(* Accept never returns (nil, nil), although l.err is written and read     *)
(* without a lock: the write comes before the close that readers wait for. *)
THEOREM NeverNilNil == Spec => []NoNilNil
PROOF BY ListenerInvariant, PTL DEF IInv

(* Accept returns no connection whose handshake Server rejected.           *)
THEOREM AcceptedOnly == Spec => []OnlyAccepted
PROOF BY ListenerInvariant, PTL DEF IInv, VerdictInv
====
