-------------------------- MODULE QuicConnProofs --------------------------
(***************************************************************************)
(* Proofs about QuicConn: that the application and the goroutine take      *)
(* turns, for any bounds on the data and on the useless messages.          *)
(***************************************************************************)
EXTENDS QuicConn, TLAPS

\* The stages in which the goroutine calls quicWaitForSignal.
WaitStages == {"params", "resume", "serverHello", "flight"}

RunStages == WaitStages \cup {"begin", "load", "hello", "done", "fail"}

Places == {"idle", "signal", "blocked", "draining", "take", "post", "lock"}

Methods == {"none", "refused", "Start", "NextEvent", "HandleData", "SetTransportParameters",
            "Close", "ConnectionState"}

TypeInv ==
  /\ app \in [call : Methods, pc : Places]
  /\ g \in [stage : RunStages \cup {"none", "closing", "gone"},
            at : {"none", "run", "atBlocked", "atSignal"},
            err : BOOLEAN, late : BOOLEAN, early : BOOLEAN, hrr : BOOLEAN]

\* The goroutine runs in a running stage and waits in a waiting one; only a
\* wait ends with an error, and only quicResumeSession's is forgotten.
StageInv ==
  /\ g.at = "none" <=> g.stage \in {"none", "closing", "gone"}
  /\ g.at \in {"atBlocked", "atSignal"} => g.stage \in WaitStages /\ ~g.err
  /\ g.err => g.stage \in WaitStages \cup {"fail", "closing"}

\* While the goroutine runs, and no cancellation has made it run, a call waits.
TurnInv ==
  g.at = "run" /\ ~g.late /\ ~g.err /\ g.stage # "fail" => app.pc \in {"blocked", "draining"}

IInv == TypeInv /\ StageInv /\ TurnInv

\* A new QUICConn satisfies the invariant.
LEMMA InitInv == Init => IInv
PROOF BY DEF Init, IInv, TypeInv, StageInv, TurnInv, WaitStages, RunStages, Places, Methods

\* The steps of the application and of its calls.
LEMMA CallsInv ==
  ASSUME IInv, Calls \/ InCall \/ CancelContext
  PROVE  IInv'
<1> USE DEF IInv, WaitStages, RunStages, Places, Methods, Call, Idle
<1>1. CASE Start
  <2>1. CASE conf.min13
    <3>1. /\ app' = [call |-> "Start", pc |-> "blocked"] /\ g.stage = "none"
          /\ g' = [g EXCEPT !.stage = "begin", !.at = "run"]
      BY <1>1, <2>1 DEF Start, started
    <3> QED
      BY <3>1 DEF TypeInv, StageInv, TurnInv
  <2>2. CASE ~conf.min13
    BY <1>1, <2>2 DEF Start, started, TypeInv, StageInv, TurnInv
  <2> QED
    BY <2>1, <2>2
<1>2. CASE NextEvent
  BY <1>2 DEF NextEvent, TypeInv, StageInv, TurnInv
<1>3. CASE SetTransportParameters
  BY <1>3 DEF SetTransportParameters, TypeInv, StageInv, TurnInv
<1>4. CASE Close
  BY <1>4 DEF Close, TypeInv, StageInv, TurnInv
<1>5. CASE ConnectionState
  BY <1>5 DEF ConnectionState, TypeInv, StageInv, TurnInv
<1>6. CASE \E lev \in {"Initial", "Handshake", "Application"}, n \in Chunks : HandleData(lev, n)
  BY <1>6 DEF HandleData, TypeInv, StageInv, TurnInv
<1>7. CASE Signal
  BY <1>7 DEF Signal, Signalled, signalcClosed, TypeInv, StageInv, TurnInv
<1>8. CASE Blocked
  <2>1. CASE g.at = "atBlocked" /\ g' = [g EXCEPT !.at = "atSignal"]
    <3>1. TypeInv'
      BY <1>8, <2>1 DEF Blocked, TypeInv
    <3> QED
      BY <2>1, <3>1 DEF TypeInv, StageInv, TurnInv
  <2>2. CASE blockedcClosed /\ UNCHANGED g
    BY <1>8, <2>2 DEF Blocked, blockedcClosed, TypeInv, StageInv, TurnInv
  <2> QED
    BY <1>8, <2>1, <2>2 DEF Blocked
<1>9. CASE TakeEvent
  BY <1>9 DEF TakeEvent, TypeInv, StageInv, TurnInv
<1>10. CASE HandlePostHandshake
  <2>1. app.pc = "post" /\ app' = [call |-> "none", pc |-> "idle"] /\ UNCHANGED g
    BY <1>10 DEF HandlePostHandshake
  <2> QED
    BY <2>1 DEF TypeInv, StageInv, TurnInv
<1>11. CASE ReadState
  BY <1>11 DEF ReadState, TypeInv, StageInv, TurnInv
<1>12. CASE CancelContext
  BY <1>12 DEF CancelContext, TypeInv, StageInv, TurnInv
<1> QED
  BY <1>1, <1>2, <1>3, <1>4, <1>5, <1>6, <1>7, <1>8, <1>9, <1>10, <1>11, <1>12 DEF Calls, InCall

\* The steps of the goroutine.
LEMMA GoroutineInv ==
  ASSUME IInv, Goroutine
  PROVE  IInv' /\ app' = app
<1> USE DEF IInv, WaitStages, RunStages, Places, Methods, Runs, Waits, Enters, Fails
<1>1. CASE AskTransportParameters
  <2>1. /\ g.stage = "begin" /\ g.at = "run" /\ app' = app
        /\ \/ g' = [g EXCEPT !.stage = "load"]
           \/ g' = [g EXCEPT !.stage = "params", !.at = "atBlocked"]
    BY <1>1 DEF AskTransportParameters
  <2>2. CASE g' = [g EXCEPT !.stage = "load"]
    BY <2>1, <2>2 DEF TypeInv, StageInv, TurnInv
  <2>3. CASE g' = [g EXCEPT !.stage = "params", !.at = "atBlocked"]
    BY <2>1, <2>3 DEF TypeInv, StageInv, TurnInv
  <2> QED
    BY <2>1, <2>2, <2>3
<1>2. CASE GetTransportParameters
  <2>1. /\ g.stage = "params" /\ g.at = "run" /\ app' = app
        /\ \/ g.err /\ g' = [g EXCEPT !.stage = "fail"]
           \/ ~g.err /\ g' = [g EXCEPT !.stage = "load"]
           \/ ~g.err /\ g' = [g EXCEPT !.stage = "params", !.at = "atBlocked"]
    BY <1>2 DEF GetTransportParameters, TypeInv
  <2>2. CASE g.err /\ g' = [g EXCEPT !.stage = "fail"]
    BY <2>1, <2>2 DEF TypeInv, StageInv, TurnInv
  <2>3. CASE ~g.err /\ g' = [g EXCEPT !.stage = "load"]
    BY <2>1, <2>3 DEF TypeInv, StageInv, TurnInv
  <2>4. CASE ~g.err /\ g' = [g EXCEPT !.stage = "params", !.at = "atBlocked"]
    BY <2>1, <2>4 DEF TypeInv, StageInv, TurnInv
  <2> QED
    BY <2>1, <2>2, <2>3, <2>4
<1>3. CASE ResumeSession
  <2>1. /\ g.stage = "load" /\ g.at = "run" /\ app' = app
        /\ \/ g' = [g EXCEPT !.stage = "resume", !.at = "atBlocked"]
           \/ g' = [g EXCEPT !.stage = "hello"]
    BY <1>3 DEF ResumeSession
  <2>2. CASE g' = [g EXCEPT !.stage = "resume", !.at = "atBlocked"]
    BY <2>1, <2>2 DEF TypeInv, StageInv, TurnInv
  <2>3. CASE g' = [g EXCEPT !.stage = "hello"]
    BY <2>1, <2>3 DEF TypeInv, StageInv, TurnInv
  <2> QED
    BY <2>1, <2>2, <2>3
<1>4. CASE AwaitDrain
  <2>1. /\ g.stage = "resume" /\ g.at = "run" /\ app' = app
        /\ \/ g.err /\ g' = [g EXCEPT !.stage = "hello", !.err = FALSE, !.late = TRUE]
           \/ ~g.err /\ g' = [g EXCEPT !.stage = "resume", !.at = "atBlocked"]
           \/ ~g.err /\ g' = [g EXCEPT !.stage = "hello"]
    BY <1>4 DEF AwaitDrain, TypeInv
  <2>2. CASE g.err /\ g' = [g EXCEPT !.stage = "hello", !.err = FALSE, !.late = TRUE]
    BY <2>1, <2>2 DEF TypeInv, StageInv, TurnInv
  <2>3. CASE ~g.err /\ g' = [g EXCEPT !.stage = "resume", !.at = "atBlocked"]
    BY <2>1, <2>3 DEF TypeInv, StageInv, TurnInv
  <2>4. CASE ~g.err /\ g' = [g EXCEPT !.stage = "hello"]
    BY <2>1, <2>4 DEF TypeInv, StageInv, TurnInv
  <2> QED
    BY <2>1, <2>2, <2>3, <2>4
<1>5. CASE WriteClientHello
  <2>1. PICK early \in BOOLEAN : g' = [g EXCEPT !.stage = "serverHello", !.early = early]
    BY <1>5 DEF WriteClientHello
  <2> QED
    BY <1>5, <2>1 DEF WriteClientHello, TypeInv, StageInv, TurnInv
<1>6. CASE ReadHandshakeBytes
  <2>1. /\ g.stage \in {"serverHello", "flight"} /\ g.at = "run" /\ app' = app
        /\ \/ g.err /\ g' = [g EXCEPT !.stage = "fail"]
           \/ ~g.err /\ g' = [g EXCEPT !.stage = @, !.at = "atBlocked"]
    BY <1>6 DEF ReadHandshakeBytes
  <2>2. CASE g.err /\ g' = [g EXCEPT !.stage = "fail"]
    BY <2>1, <2>2 DEF TypeInv, StageInv, TurnInv
  <2>3. CASE ~g.err /\ g' = [g EXCEPT !.stage = @, !.at = "atBlocked"]
    BY <2>1, <2>3 DEF TypeInv, StageInv, TurnInv
  <2> QED
    BY <2>1, <2>2, <2>3
<1>7. CASE ProcessServerHello
  <2>1. /\ g.stage = "serverHello" /\ g.at = "run" /\ ~g.err /\ app' = app
        /\ \/ g' = [g EXCEPT !.stage = "flight"]
           \/ g' = [g EXCEPT !.hrr = TRUE, !.early = FALSE]
           \/ g' = [g EXCEPT !.stage = "fail"]
    BY <1>7 DEF ProcessServerHello
  <2>2. CASE g' = [g EXCEPT !.stage = "flight"]
    BY <2>1, <2>2 DEF TypeInv, StageInv, TurnInv
  <2>3. CASE g' = [g EXCEPT !.hrr = TRUE, !.early = FALSE]
    BY <2>1, <2>3 DEF TypeInv, StageInv, TurnInv
  <2>4. CASE g' = [g EXCEPT !.stage = "fail"]
    BY <2>1, <2>4 DEF TypeInv, StageInv, TurnInv
  <2> QED
    BY <2>1, <2>2, <2>3, <2>4
<1>8. CASE ProcessServerFlight
  BY <1>8 DEF ProcessServerFlight, TypeInv, StageInv, TurnInv
<1>9. CASE CloseBlocked
  BY <1>9 DEF CloseBlocked, TypeInv, StageInv, TurnInv
<1>10. CASE CloseSignal
  BY <1>10 DEF CloseSignal, TypeInv, StageInv, TurnInv
<1>11. CASE CancelWait
  BY <1>11 DEF CancelWait, TypeInv, StageInv, TurnInv
<1> QED
  BY <1>1, <1>2, <1>3, <1>4, <1>5, <1>6, <1>7, <1>8, <1>9, <1>10, <1>11, Zenon
  DEF Goroutine

\* The inductive invariant holds in every reachable state.
THEOREM TurnsInvariant == Spec => []IInv
<1>1. IInv /\ [Next]_vars => IInv'
  <2> SUFFICES ASSUME IInv, [Next]_vars
               PROVE  IInv'
    OBVIOUS
  <2>1. CASE UNCHANGED vars
    BY <2>1 DEF vars, IInv, TypeInv, StageInv, TurnInv
  <2> QED
    BY <2>1, CallsInv, GoroutineInv DEF Next
<1> QED
  BY <1>1, InitInv, PTL DEF Spec

\* The events, the bytes and the level are changed by one side at a time:
\* signalc and blockedc make the application and the goroutine take turns,
\* unless a cancellation has let the goroutine run on.
THEOREM OneOwner == Spec => EventsOwned
<1>1. IInv /\ [Next]_vars => [OwnerMoves]_vars
  <2> SUFFICES ASSUME IInv, Next
               PROVE  OwnerMoves
    BY DEF vars
  <2> USE DEF IInv
  <2>1. CASE UNCHANGED <<events, buffers, levels>>
    BY <2>1 DEF OwnerMoves, buffers, levels
  <2>2. CASE Signal
    BY <2>2 DEF Signal, Signalled, Call, OwnerMoves, TypeInv, levels, buffers, Places
  <2>3. CASE app.pc \in {"take", "post"} /\ app'.pc = "idle"
    BY <2>3 DEF OwnerMoves, TurnInv
  <2>4. CASE TakeEvent \/ HandlePostHandshake
    BY <2>3, <2>4 DEF TakeEvent, HandlePostHandshake, Call
  <2>5. CASE Goroutine
    <3>1. app' = app
      BY <2>5, GoroutineInv
    <3>2. CASE g.at = "run" /\ ~g.err /\ g.stage # "fail"
      BY <3>1, <3>2 DEF OwnerMoves, TurnInv
    <3>3. CASE g.at = "run" /\ g.stage = "fail"
      BY <2>1, <2>5, <3>3
      DEF Goroutine, AskTransportParameters, GetTransportParameters, ResumeSession, AwaitDrain,
          WriteClientHello, ReadHandshakeBytes, ProcessServerHello, ProcessServerFlight,
          CloseBlocked, CloseSignal, CancelWait, Runs, Produce
    <3>4. CASE g.at = "run" /\ g.err /\ g.stage # "fail"
      BY <2>1, <2>5, <3>4
      DEF Goroutine, AskTransportParameters, GetTransportParameters, ResumeSession, AwaitDrain,
          WriteClientHello, ReadHandshakeBytes, ProcessServerHello, ProcessServerFlight,
          CloseBlocked, CloseSignal, CancelWait, Runs, StageInv, WaitStages
    <3>5. CASE g.at # "run"
      BY <2>1, <2>5, <3>5
      DEF Goroutine, AskTransportParameters, GetTransportParameters, ResumeSession, AwaitDrain,
          WriteClientHello, ReadHandshakeBytes, ProcessServerHello, ProcessServerFlight,
          CloseBlocked, CloseSignal, CancelWait, Runs
    <3> QED
      BY <3>2, <3>3, <3>4, <3>5
  <2>6. CASE Calls \/ Blocked \/ ReadState \/ CancelContext
    BY <2>1, <2>6
    DEF Calls, Start, NextEvent, SetTransportParameters, Close, ConnectionState, HandleData,
        Blocked, ReadState, CancelContext, OwnerMoves, levels, buffers
  <2> QED
    BY <2>2, <2>4, <2>5, <2>6 DEF Next, InCall
<1> QED
  BY <1>1, TurnsInvariant, PTL DEF Spec, EventsOwned
===========================================================================
