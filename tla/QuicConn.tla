---------------------------- MODULE QuicConn ----------------------------
(***************************************************************************)
(* The QUIC interface (quic.go) of a client: the methods of QUICConn, which *)
(* one goroutine of the application calls, and the goroutine that runs the  *)
(* handshake (HandshakeContext), which hand the events, the handshake bytes *)
(* and the level to each other over the channels signalc and blockedc,      *)
(* while the context may be cancelled at any time.                          *)
(*                                                                          *)
(* The handshake is kept as its waits, its events and its levels: what is   *)
(* decided in between is a choice here and is in module Handshake.  Bytes   *)
(* come in halves of a message.                                             *)
(***************************************************************************)
EXTENDS Naturals, Sequences, SequencesExt

CONSTANTS
  maxUselessRecords,   \* post-handshake messages of a connection
  Chunks,              \* bound: how many halves of messages come at a time
  MaxData              \* bound: calls of HandleData

ASSUME QuicAssumption == maxUselessRecords \in Nat /\ MaxData \in Nat /\ Chunks \subseteq Nat

VARIABLES
  conf,             \* MinVersion, the cached session, EnableSessionEvents
  app,              \* [call, pc]: the method the application is in, and where
  g,                \* the goroutine: [stage, at, err, late, early, hrr]
  cancelled,        \* the context is done
  transportParams,  \* are set
  events,
  nextEvent,
  waitingForDrain,
  readbuf, hand,    \* halves of messages
  level, outLevel,  \* in.level and out.level
  handshakeErr,     \* there is one
  retryCount,
  data,             \* calls of HandleData
  owed, seen        \* history: the events made and not returned yet, and those returned

buffers == <<readbuf, hand>>
levels == <<level, outLevel>>
vars == <<conf, app, g, cancelled, transportParams, events, nextEvent, waitingForDrain,
          buffers, levels, handshakeErr, retryCount, data, owed, seen>>

Event(kind, lev) == [kind |-> kind, level |-> lev, n |-> 1]

\* What NextEvent leaves in the place of the event it returns.
ZeroEvent == [kind |-> "NoEvent", level |-> "Initial", n |-> 0]

Init ==
  /\ conf \in {c \in [min13 : BOOLEAN, session : BOOLEAN, enableSessionEvents : BOOLEAN] :
                 ~c.min13 => ~c.session}
  /\ app = [call |-> "none", pc |-> "idle"]
  /\ g = [stage |-> "none", at |-> "none", err |-> FALSE, late |-> FALSE,
          early |-> FALSE, hrr |-> FALSE]
  /\ cancelled = FALSE /\ transportParams = FALSE /\ waitingForDrain = FALSE
  /\ events = <<>> /\ nextEvent = 1
  /\ readbuf = 0 /\ hand = 0
  /\ level = "Initial" /\ outLevel = "Initial"
  /\ handshakeErr = FALSE /\ retryCount = 0 /\ data = 0
  /\ owed = <<>> /\ seen = {}

started == app.call = "refused" \/ g.stage # "none"

blockedcClosed == g.stage \in {"closing", "gone"}
signalcClosed == g.stage = "gone"

\* The goroutine gives handshakeMutex up while it waits, and when it ends.
mutexHeld == g.at = "run" \/ g.stage = "closing"

----------------------------------------------------------------------------
(* Producing events *)

\* quicWriteCryptoData adds to a last event of the same level that is still
\* there.
AddEvent(q, e) ==
  IF e.kind = "WriteData" /\ q # <<>> /\ Last(q).kind = "WriteData" /\ Last(q).level = e.level
  THEN [q EXCEPT ![Len(q)].n = @ + 1]
  ELSE Append(q, e)

\* Of an append that races with the application, which is in no call, the
\* event may be lost.
Produce(new) ==
  /\ owed' = IF g.late THEN <<>>
             ELSE owed \o [i \in DOMAIN new |-> <<new[i].kind, new[i].level>>]
  /\ \/ new # <<>> /\ events' = FoldLeft(AddEvent, events, new)
     \/ new = <<>> /\ UNCHANGED events
     \/ new # <<>> /\ g.late /\ app.pc \notin {"blocked", "draining"} /\ UNCHANGED events

----------------------------------------------------------------------------
(* The methods of QUICConn.  A call waits for signalc (pc "signal"), for     *)
(* blockedc ("blocked"), or for blockedc to be closed ("draining").          *)

Call(name, pc) == app' = [call |-> name, pc |-> pc]
Idle == app.pc = "idle" /\ app.call # "refused"

Start ==
  /\ Idle /\ ~started
  /\ IF conf.min13
     THEN Call("Start", "blocked") /\ g' = [g EXCEPT !.stage = "begin", !.at = "run"]
     ELSE Call("refused", "idle") /\ UNCHANGED g
  /\ UNCHANGED <<conf, cancelled, transportParams, events, nextEvent, waitingForDrain,
                 buffers, levels, handshakeErr, retryCount, data, owed, seen>>

NextEvent ==
  /\ Idle
  /\ IF nextEvent > Len(events) /\ waitingForDrain
     THEN waitingForDrain' = FALSE /\ Call("NextEvent", "signal")
     ELSE UNCHANGED waitingForDrain /\ Call("NextEvent", "take")
  /\ UNCHANGED <<conf, g, cancelled, transportParams, events, nextEvent,
                 buffers, levels, handshakeErr, retryCount, data, owed, seen>>

\* The history follows what NextEvent returns, until the goroutine is late.
Returned(items) ==
  /\ owed' = IF g.late THEN <<>> ELSE SubSeq(owed, Len(items) + 1, Len(owed))
  /\ seen' = IF g.late THEN {} ELSE seen \cup ToSet(items)

Items(e) == [i \in 1 .. e.n |-> <<e.kind, e.level>>]

\* Mutant: the event that is returned stays where it is.
TakeEventM1 ==
  /\ app.pc = "take"
  /\ Call("none", "idle")
  /\ IF nextEvent > Len(events)
     THEN events' = <<>> /\ nextEvent' = 1 /\ UNCHANGED <<owed, seen>>
     ELSE /\ Returned(Items(events[nextEvent]))
          /\ nextEvent' = nextEvent + 1
          /\ UNCHANGED events
  /\ UNCHANGED <<conf, g, cancelled, transportParams, waitingForDrain,
                 buffers, levels, handshakeErr, retryCount, data>>

TakeEvent ==
  /\ app.pc = "take"
  /\ Call("none", "idle")
  /\ IF nextEvent > Len(events)
     THEN events' = <<>> /\ nextEvent' = 1 /\ UNCHANGED <<owed, seen>>
     ELSE /\ Returned(Items(events[nextEvent]))
          /\ events' = [events EXCEPT ![nextEvent] = ZeroEvent]
          /\ nextEvent' = nextEvent + 1
  /\ UNCHANGED <<conf, g, cancelled, transportParams, waitingForDrain,
                 buffers, levels, handshakeErr, retryCount, data>>

\* Data of another level is refused and changes nothing that QUIC reads.
HandleData(lev, n) ==
  /\ Idle /\ started /\ data < MaxData
  /\ IF lev # level
     THEN UNCHANGED <<app, readbuf, data>>
     ELSE readbuf' = n /\ data' = data + 1 /\ Call("HandleData", "signal")
  /\ UNCHANGED <<conf, g, cancelled, transportParams, events, nextEvent, waitingForDrain,
                 hand, levels, handshakeErr, retryCount, owed, seen>>

\* The end of HandleData once the goroutine has gone: whole messages are
\* handled here, tickets until there are too many, anything else is an error.
HandlePostHandshake ==
  /\ app.pc = "post" /\ ~mutexHeld
  /\ readbuf' = 0
  /\ \E tickets \in 0 .. (IF handshakeErr THEN 0 ELSE (hand + readbuf) \div 2) :
       LET allowed == tickets = 0 \/ retryCount + tickets <= maxUselessRecords
           whole   == (hand + readbuf) \div 2
           failed  == ~handshakeErr /\ tickets < whole
       IN  /\ allowed
           /\ retryCount' = retryCount + tickets + (IF failed THEN 1 ELSE 0)
           /\ handshakeErr' = (handshakeErr \/ failed)
           /\ hand' = hand + readbuf - 2 * (tickets + (IF failed THEN 1 ELSE 0))
           /\ Produce(IF conf.enableSessionEvents
                      THEN [i \in 1 .. tickets |-> Event("StoreSession", "Initial")] ELSE <<>>)
  /\ Call("none", "idle")
  /\ UNCHANGED <<conf, g, cancelled, transportParams, nextEvent, waitingForDrain,
                 levels, data, seen>>

SetTransportParameters ==
  /\ Idle
  /\ transportParams' = TRUE
  /\ IF started THEN Call("SetTransportParameters", "signal") ELSE UNCHANGED app
  /\ UNCHANGED <<conf, g, cancelled, events, nextEvent, waitingForDrain,
                 buffers, levels, handshakeErr, retryCount, data, owed, seen>>

\* Before Start there is nothing to cancel.
Close ==
  /\ app.pc = "idle" /\ g.stage # "none"
  /\ cancelled' = TRUE
  /\ Call("Close", "draining")
  /\ UNCHANGED <<conf, g, transportParams, events, nextEvent, waitingForDrain,
                 buffers, levels, handshakeErr, retryCount, data, owed, seen>>

ConnectionState ==
  /\ Idle
  /\ Call("ConnectionState", "lock")
  /\ UNCHANGED <<conf, g, cancelled, transportParams, events, nextEvent, waitingForDrain,
                 buffers, levels, handshakeErr, retryCount, data, owed, seen>>

ReadState ==
  /\ app.pc = "lock" /\ ~mutexHeld
  /\ Call("none", "idle")
  /\ UNCHANGED <<conf, g, cancelled, transportParams, events, nextEvent, waitingForDrain,
                 buffers, levels, handshakeErr, retryCount, data, owed, seen>>

----------------------------------------------------------------------------
(* The channels *)

\* A call has received from signalc and now waits for blockedc.
\* Mutant: it does not wait.
SignalledM1 == Call("none", "idle")
Signalled == Call(app.call, "blocked")

\* The goroutine takes the bytes over when its send on signalc succeeds.
Signal ==
  /\ app.pc = "signal"
  /\ \/ /\ g.at = "atSignal"
        /\ g' = [g EXCEPT !.at = "run"]
        /\ hand' = hand + readbuf /\ readbuf' = 0
     \/ signalcClosed /\ UNCHANGED <<g, buffers>>
  /\ Signalled
  /\ UNCHANGED <<conf, cancelled, transportParams, events, nextEvent, waitingForDrain,
                 levels, handshakeErr, retryCount, data, owed, seen>>

\* A call has received from blockedc, or seen it closed.
Blocked ==
  /\ app.pc \in {"blocked", "draining"}
  /\ \/ /\ g.at = "atBlocked"
        /\ g' = [g EXCEPT !.at = "atSignal"]
        /\ CASE app.call = "Close"     -> UNCHANGED app
             [] app.call = "NextEvent" -> Call("NextEvent", "take")
             [] OTHER                  -> Call("none", "idle")
     \/ /\ blockedcClosed /\ UNCHANGED g
        /\ CASE app.call = "HandleData" -> Call("HandleData", "post")
             [] app.call = "NextEvent"  -> Call("NextEvent", "take")
             [] OTHER                   -> Call("none", "idle")
  /\ UNCHANGED <<conf, cancelled, transportParams, events, nextEvent, waitingForDrain,
                 buffers, levels, handshakeErr, retryCount, data, owed, seen>>

\* Either select of quicWaitForSignal may see the context done.
CancelWait ==
  /\ g.at \in {"atBlocked", "atSignal"} /\ cancelled
  /\ g' = [g EXCEPT !.at = "run", !.err = TRUE]
  /\ UNCHANGED <<conf, app, cancelled, transportParams, events, nextEvent, waitingForDrain,
                 buffers, levels, handshakeErr, retryCount, data, owed, seen>>

----------------------------------------------------------------------------
(* The goroutine *)

Runs(stage) == g.at = "run" /\ g.stage = stage
Waits(stage) == g' = [g EXCEPT !.stage = stage, !.at = "atBlocked"]
Enters(stage) == g' = [g EXCEPT !.stage = stage]
Fails == g' = [g EXCEPT !.stage = "fail"]

\* quicGetTransportParameters in makeClientHello
AskTransportParameters ==
  /\ Runs("begin")
  /\ IF transportParams
     THEN Enters("load") /\ Produce(<<>>)
     ELSE Waits("params") /\ Produce(<<Event("TransportParametersRequired", "Initial")>>)
  /\ UNCHANGED <<conf, app, cancelled, transportParams, nextEvent, waitingForDrain,
                 buffers, levels, handshakeErr, retryCount, data, seen>>

GetTransportParameters ==
  /\ Runs("params")
  /\ CASE g.err                      -> Fails
       [] ~g.err /\ transportParams  -> Enters("load")
       [] ~g.err /\ ~transportParams -> Waits("params")
  /\ UNCHANGED <<conf, app, cancelled, transportParams, events, nextEvent, waitingForDrain,
                 buffers, levels, handshakeErr, retryCount, data, owed, seen>>

\* quicResumeSession in loadSession
ResumeSession ==
  /\ Runs("load")
  /\ IF conf.session /\ conf.enableSessionEvents
     THEN /\ waitingForDrain' = TRUE
          /\ Waits("resume")
          /\ Produce(<<Event("ResumeSession", "Initial")>>)
     ELSE UNCHANGED waitingForDrain /\ Enters("hello") /\ Produce(<<>>)
  /\ UNCHANGED <<conf, app, cancelled, transportParams, nextEvent,
                 buffers, levels, handshakeErr, retryCount, data, seen>>

\* loadSession does not look at the error of quicResumeSession: after a
\* cancellation the goroutine goes on, although no call waits for it.
AwaitDrain ==
  /\ Runs("resume")
  /\ CASE g.err                      -> g' = [g EXCEPT !.stage = "hello", !.err = FALSE,
                                                       !.late = TRUE]
       [] ~g.err /\ waitingForDrain  -> Waits("resume")
       [] ~g.err /\ ~waitingForDrain -> Enters("hello")
  /\ UNCHANGED <<conf, app, cancelled, transportParams, events, nextEvent, waitingForDrain,
                 buffers, levels, handshakeErr, retryCount, data, owed, seen>>

\* With early data if the session allows it and the application has not
\* declined.
WriteClientHello ==
  /\ Runs("hello")
  /\ \E early \in (IF conf.session THEN BOOLEAN ELSE {FALSE}) :
       /\ g' = [g EXCEPT !.stage = "serverHello", !.early = early]
       /\ Produce(<<Event("WriteData", "Initial")>>
                  \o (IF early THEN <<Event("SetWriteSecret", "Early")>> ELSE <<>>))
  /\ UNCHANGED <<conf, app, cancelled, transportParams, nextEvent, waitingForDrain,
                 buffers, levels, handshakeErr, retryCount, data, seen>>

\* quicReadHandshakeBytes
ReadHandshakeBytes ==
  /\ g.at = "run" /\ g.stage \in {"serverHello", "flight"}
  /\ g.err \/ hand < 2
  /\ IF g.err THEN Fails ELSE Waits(g.stage)
  /\ UNCHANGED <<conf, app, cancelled, transportParams, events, nextEvent, waitingForDrain,
                 buffers, levels, handshakeErr, retryCount, data, owed, seen>>

RejectedEarlyData == <<Event("RejectedEarlyData", "Initial")>>

\* A ServerHello, the one HelloRetryRequest, or a message that is refused.
\* Bytes that are left over only make an alert: they stay.
ProcessServerHello ==
  /\ Runs("serverHello") /\ ~g.err /\ hand >= 2
  /\ hand' = hand - 2
  /\ \/ /\ g' = [g EXCEPT !.stage = "flight"]
        /\ level' = "Handshake" /\ outLevel' = "Handshake"
        /\ Produce(<<Event("SetWriteSecret", "Handshake"), Event("SetReadSecret", "Handshake")>>)
     \/ /\ ~g.hrr
        /\ g' = [g EXCEPT !.hrr = TRUE, !.early = FALSE]
        /\ Produce((IF g.early THEN RejectedEarlyData ELSE <<>>)
                   \o <<Event("WriteData", "Initial")>>)
        /\ UNCHANGED levels
     \/ Fails /\ Produce(<<>>) /\ UNCHANGED levels
  /\ UNCHANGED <<conf, app, cancelled, transportParams, nextEvent, waitingForDrain,
                 readbuf, handshakeErr, retryCount, data, seen>>

\* From EncryptedExtensions to the client's Finished; a failure comes before
\* or after the server's parameters.
ProcessServerFlight ==
  LET parameters == <<Event("TransportParameters", "Initial")>>
  IN  /\ Runs("flight") /\ ~g.err /\ hand >= 2
      /\ hand' = hand - 2
      /\ \/ /\ Enters("done")
            /\ level' = "Application" /\ outLevel' = "Application"
            /\ \E rejected \in (IF g.early THEN BOOLEAN ELSE {FALSE}) :
                 Produce(parameters \o (IF rejected THEN RejectedEarlyData ELSE <<>>)
                         \o <<Event("WriteData", outLevel),
                              Event("SetWriteSecret", "Application")>>)
         \/ /\ Fails /\ UNCHANGED levels
            /\ \E new \in {<<>>, parameters} : Produce(new)
      /\ UNCHANGED <<conf, app, cancelled, transportParams, nextEvent, waitingForDrain,
                     readbuf, handshakeErr, retryCount, data, seen>>

\* The end of handshakeContext: blockedc is closed, ...
CloseBlocked ==
  /\ g.at = "run" /\ g.stage \in {"done", "fail"}
  /\ handshakeErr' = (g.stage = "fail")
  /\ Produce(IF g.stage = "done"
             THEN <<Event("HandshakeDone", "Initial"), Event("SetReadSecret", "Application")>>
             ELSE <<>>)
  /\ g' = [g EXCEPT !.stage = "closing", !.at = "none"]
  /\ UNCHANGED <<conf, app, cancelled, transportParams, nextEvent, waitingForDrain,
                 buffers, levels, retryCount, data, seen>>

\* ... then signalc, and the mutex is released.
\* Mutant: only after a success.
CloseSignalM1 ==
  /\ g.stage = "closing" /\ ~handshakeErr
  /\ g' = [g EXCEPT !.stage = "gone", !.err = FALSE, !.early = FALSE, !.hrr = FALSE]
  /\ UNCHANGED <<conf, app, cancelled, transportParams, events, nextEvent, waitingForDrain,
                 buffers, levels, handshakeErr, retryCount, data, owed, seen>>

CloseSignal ==
  /\ g.stage = "closing"
  /\ g' = [g EXCEPT !.stage = "gone", !.err = FALSE, !.early = FALSE, !.hrr = FALSE]
  /\ UNCHANGED <<conf, app, cancelled, transportParams, events, nextEvent, waitingForDrain,
                 buffers, levels, handshakeErr, retryCount, data, owed, seen>>

----------------------------------------------------------------------------
\* The context that Start was given is cancelled.
CancelContext ==
  /\ g.stage # "none" /\ ~cancelled
  /\ cancelled' = TRUE
  /\ UNCHANGED <<conf, app, g, transportParams, events, nextEvent, waitingForDrain,
                 buffers, levels, handshakeErr, retryCount, data, owed, seen>>

Calls ==
  \/ Start \/ NextEvent \/ SetTransportParameters \/ Close \/ ConnectionState
  \/ \E lev \in {"Initial", "Handshake", "Application"}, n \in Chunks : HandleData(lev, n)

InCall == Signal \/ Blocked \/ TakeEvent \/ HandlePostHandshake \/ ReadState

Goroutine ==
  \/ AskTransportParameters \/ GetTransportParameters \/ ResumeSession \/ AwaitDrain
  \/ WriteClientHello \/ ReadHandshakeBytes \/ ProcessServerHello \/ ProcessServerFlight
  \/ CloseBlocked \/ CloseSignal \/ CancelWait

Next == Calls \/ InCall \/ Goroutine \/ CancelContext

\* Go runs a goroutine that can run, and that of a call too.  Nothing is
\* assumed of when the application calls.
Spec == Init /\ [][Next]_vars /\ WF_vars(InCall) /\ WF_vars(Goroutine)

----------------------------------------------------------------------------
(* Properties *)

\* The events, the bytes and the level have one owner at a time: the goroutine
\* changes them while a call waits for it on blockedc, and a call changes them
\* while the goroutine waits, is gone or is about to fail.  The one exception
\* is the goroutine that a cancellation lets run on while the events drain.
OwnerMoves ==
  (events' # events \/ hand' # hand \/ level' # level) /\ ~g.late =>
    IF app' = app THEN app.pc \in {"blocked", "draining"}
    ELSE g.at # "run" \/ g.err \/ g.stage = "fail"

\* Every step is one of the owner.
EventsOwned == [][OwnerMoves]_vars

Pending == FlattenSeq([i \in 1 .. Len(events) - nextEvent + 1 |-> Items(events[nextEvent + i - 1])])

\* However NextEvent, HandleData and the goroutine alternate, NextEvent returns
\* every event once and in the order in which they were made, data that was
\* added to an event included; and the write secret of a level comes before
\* its data, the 1-RTT read secret only after the handshake is done.  The
\* goroutine that runs on after a cancellation is excepted, as above.
EventsDelivered ==
  ~g.late =>
    /\ Pending = owed
    /\ \A lev \in {"Handshake", "Application"} :
         <<"WriteData", lev>> \in seen => <<"SetWriteSecret", lev>> \in seen
    /\ <<"SetReadSecret", "Application">> \in seen => <<"HandshakeDone", "Initial">> \in seen

\* No call hangs: not on a goroutine that has failed, was cancelled in any of
\* its waits or has ended, nor on one that waits for something else.
EveryCallReturns == [](app.pc # "idle" => <>(app.pc = "idle"))
==========================================================================
