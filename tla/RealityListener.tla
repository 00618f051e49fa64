-------------------------- MODULE RealityListener --------------------------
(***************************************************************************)
(* NewListener and listener.Accept of tls.go: an accept loop on the inner  *)
(* listener, one goroutine per connection that runs Server, and callers of *)
(* Accept, which meet on the unbuffered channel l.conns.                   *)
(*                                                                         *)
(* A Go channel keeps its blocked senders and receivers in queues and      *)
(* serves them in order; close wakes all of them, receivers with nothing   *)
(* and senders with a panic.                                               *)
(***************************************************************************)
EXTENDS Naturals, Sequences, Functions

CONSTANTS
    Conns,      \* connections of the inner listener
    Callers,    \* goroutines that call Accept, over and over
    NoError     \* nil

ASSUME NoErrorAssumption == NoError # "failed"

VARIABLES
    loop,      \* the accept loop: "accept", "close" or "done"
    lerr,      \* l.err
    chan,      \* l.conns: "open" or "closed"
    verdict,   \* err of each connection's goroutine: "none", "ok" or "err"
    handler,   \* its place: "none", "serving", "ready", "sending" or "over"
    sendq,     \* the goroutines blocked in l.conns <- c
    recvq,     \* the callers blocked in <-l.conns
    got,       \* what the last Accept of each caller returned
    returned,  \* how often each connection was returned by Accept
    crashed    \* a send on the closed channel ended the process

vars == <<loop, lerr, chan, verdict, handler, sendq, recvq, got, returned, crashed>>

-----------------------------------------------------------------------------
(* The accept loop *)

InnerAccepts(c) ==
    /\ ~crashed /\ loop = "accept" /\ handler[c] = "none"
    /\ handler' = [handler EXCEPT ![c] = "serving"]
    /\ UNCHANGED <<loop, lerr, chan, verdict, sendq, recvq, got, returned, crashed>>

(* The channel is closed without recording why. *)
RecordErrorM1 == lerr' = lerr

RecordError == lerr' = "failed"

(* The inner Accept fails, for instance because the listener was closed. *)
InnerFails ==
    /\ ~crashed /\ loop = "accept"
    /\ loop' = "close" /\ RecordError
    /\ UNCHANGED <<chan, verdict, handler, sendq, recvq, got, returned, crashed>>

(* close(l.conns): blocked receivers return l.err, blocked senders panic. *)
CloseConns ==
    /\ ~crashed /\ loop = "close"
    /\ loop' = "done" /\ chan' = "closed"
    /\ got' = [a \in Callers |->
                 IF a \in Range(recvq) THEN <<"error", lerr>> ELSE got[a]]
    /\ recvq' = <<>>
    /\ crashed' = (sendq # <<>>)
    /\ UNCHANGED <<lerr, verdict, handler, sendq, returned>>

-----------------------------------------------------------------------------
(* The goroutine of one connection *)

(* The test of err is inverted. *)
AfterServerM1(v) == IF v = "err" THEN "ready" ELSE "over"

(* if err == nil { l.conns <- c } *)
AfterServer(v) == IF v = "ok" THEN "ready" ELSE "over"

ServerReturns(c) ==
    /\ ~crashed /\ handler[c] = "serving"
    /\ \E v \in {"ok", "err"} :
          /\ verdict' = [verdict EXCEPT ![c] = v]
          /\ handler' = [handler EXCEPT ![c] = AfterServer(v)]
    /\ UNCHANGED <<loop, lerr, chan, sendq, recvq, got, returned, crashed>>

(* The goroutine sends once more. *)
AfterSendM1 == "ready"

AfterSend == "over"

(* l.conns <- c.  A send on the closed channel panics; the deferred        *)
(* recover() is itself the deferred call, so it recovers nothing.          *)
Send(c) ==
    /\ ~crashed /\ handler[c] = "ready"
    /\ \/ /\ chan = "closed"
          /\ crashed' = TRUE
          /\ UNCHANGED <<handler, sendq, recvq, got, returned>>
       \/ /\ chan = "open" /\ recvq = <<>>
          /\ handler' = [handler EXCEPT ![c] = "sending"]
          /\ sendq' = Append(sendq, c)
          /\ UNCHANGED <<recvq, got, returned, crashed>>
       \/ /\ chan = "open" /\ recvq # <<>>
          /\ handler' = [handler EXCEPT ![c] = AfterSend]
          /\ got' = [got EXCEPT ![Head(recvq)] = <<"conn", c>>]
          /\ returned' = [returned EXCEPT ![c] = @ + 1]
          /\ recvq' = Tail(recvq)
          /\ UNCHANGED <<sendq, crashed>>
    /\ UNCHANGED <<loop, lerr, chan, verdict>>

-----------------------------------------------------------------------------
(* Accept, called by a goroutine that is not already waiting in it *)

Accept(a) ==
    /\ ~crashed /\ a \notin Range(recvq)
    /\ \/ /\ sendq # <<>>
          /\ got' = [got EXCEPT ![a] = <<"conn", Head(sendq)>>]
          /\ returned' = [returned EXCEPT ![Head(sendq)] = @ + 1]
          /\ handler' = [handler EXCEPT ![Head(sendq)] = AfterSend]
          /\ sendq' = Tail(sendq)
          /\ UNCHANGED recvq
       \/ /\ sendq = <<>> /\ chan = "closed"
          /\ got' = [got EXCEPT ![a] = <<"error", lerr>>]
          /\ UNCHANGED <<handler, sendq, recvq, returned>>
       \/ /\ sendq = <<>> /\ chan = "open"
          /\ recvq' = Append(recvq, a)
          /\ UNCHANGED <<got, handler, sendq, returned>>
    /\ UNCHANGED <<loop, lerr, chan, verdict, crashed>>

-----------------------------------------------------------------------------
(* The process is gone: nothing more happens. *)
Crashed == crashed /\ UNCHANGED vars

Init ==
    /\ loop = "accept" /\ lerr = NoError /\ chan = "open"
    /\ verdict = [c \in Conns |-> "none"]
    /\ handler = [c \in Conns |-> "none"]
    /\ sendq = <<>> /\ recvq = <<>>
    /\ got = [a \in Callers |-> <<"nothing">>]
    /\ returned = [c \in Conns |-> 0]
    /\ crashed = FALSE

Next ==
    \/ InnerFails \/ CloseConns \/ Crashed
    \/ \E c \in Conns : InnerAccepts(c) \/ ServerReturns(c) \/ Send(c)
    \/ \E a \in Callers : Accept(a)

(* Goroutines run when they can, and the application keeps accepting.  The *)
(* inner listener may stay silent and Server may wait for its peers.       *)
Fairness ==
    /\ WF_vars(CloseConns)
    /\ \A c \in Conns : WF_vars(Send(c))
    /\ \A a \in Callers : WF_vars(Accept(a))

Spec == Init /\ [][Next]_vars

FairSpec == Spec /\ Fairness

-----------------------------------------------------------------------------
(* Every variable has its type, and a connection is returned by at most    *)
(* one call of Accept: the channel hands each one over once.               *)
TypeOK ==
    /\ loop \in {"accept", "close", "done"} /\ lerr \in {NoError, "failed"}
    /\ chan \in {"open", "closed"}
    /\ verdict \in [Conns -> {"none", "ok", "err"}]
    /\ handler \in [Conns -> {"none", "serving", "ready", "sending", "over"}]
    /\ sendq \in Seq(Conns) /\ recvq \in Seq(Callers)
    /\ got \in [Callers -> {<<"nothing">>} \cup ({"conn"} \X Conns)
                               \cup ({"error"} \X {NoError, "failed"})]
    /\ returned \in [Conns -> {0, 1}]
    /\ crashed \in BOOLEAN

(* Accept never returns (nil, nil): a caller that finds the channel closed *)
(* also finds the error of the inner listener, which another goroutine     *)
(* wrote without a lock.                                                   *)
NoNilNil == \A a \in Callers : got[a] # <<"error", NoError>>

(* Only connections whose handshake Server accepted reach a caller.        *)
OnlyAccepted == \A c \in Conns : returned[c] > 0 => verdict[c] = "ok"

(* Every connection that Server accepted is returned by Accept, as long as *)
(* the application keeps accepting and the inner listener does not fail.   *)
EveryConnReturned ==
    \A c \in Conns :
        verdict[c] = "ok" ~> (returned[c] > 0 \/ loop # "accept")

(* No send finds the channel closed: the deferred recover() of the         *)
(* connection's goroutine is there to keep its panics from the process.    *)
NoPanic == ~crashed
====
